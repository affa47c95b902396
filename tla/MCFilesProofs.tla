--------------------------- MODULE MCFilesProofs ---------------------------
(***************************************************************************)
(* Proofs about the file server and the programs that use it, for any names,*)
(* paths, servers and programs.  Every node is reached by one path, create, *)
(* resolve and mount follow it, and so the server keeps the promises of     *)
(* FileMap, and a File that found its server keeps a right one.             *)
(***************************************************************************)
EXTENDS MCFiles, Induction, SequenceTheorems, FiniteSetTheorems, TLAPS

-----------------------------------------------------------------------------
(* The beginnings of a path *)

Pre(p, n) == SubSeq(p, 1, n)

\* What is known of the beginning of a path, n pieces long.
PreIs(p, n, V) == Pre(p, n) \in Seq(V) /\ Len(Pre(p, n)) = n

LEMMA PreFacts ==
  ASSUME NEW V, NEW p \in Seq(V), NEW n \in 0..Len(p)
  PROVE  PreIs(p, n, V)
<1>1. \A i \in 1..n : p[i] \in V
  OBVIOUS
<1>2. /\ SubSeq(p, 1, n) \in Seq(V)
      /\ Len(SubSeq(p, 1, n)) = IF 1 <= n THEN n - 1 + 1 ELSE 0
  <2> n \in Int /\ 1 \in Int
    OBVIOUS
  <2> QED BY <1>1, SubSeqProperties
<1> QED BY <1>2 DEF Pre, PreIs

LEMMA PreNext ==
  ASSUME NEW V, NEW p \in Seq(V), NEW n \in 0..(Len(p) - 1)
  PROVE  Pre(p, n + 1) = Append(Pre(p, n), p[n + 1])
<1>1. n + 1 \in 1..Len(p) /\ n + 1 \in 1..Len(p) /\ 1 \in 1..Len(p) /\ n + 1 \in 1..Len(p)
      /\ (n + 1) - 1 = n
  OBVIOUS
<1>2. SubSeq(p, 1, n + 1) = SubSeq(p, 1, n) \o << p[n + 1] >>
  <2>1. SubSeq(p, 1, n + 1) = SubSeq(p, 1, (n + 1) - 1) \o << p[n + 1] >>
    BY <1>1, SubSeqRecursiveSecond
  <2> QED BY <2>1, <1>1
<1>3. SubSeq(p, 1, n) \in Seq(V)
  BY PreFacts DEF PreIs, Pre
<1>4. Append(SubSeq(p, 1, n), p[n + 1]) = SubSeq(p, 1, n) \o << p[n + 1] >>
  <2> p[n + 1] \in V
    BY <1>1
  <2> QED BY <1>3, AppendIsConcat
<1> QED BY <1>2, <1>4 DEF Pre

LEMMA PreFirst ==
  ASSUME NEW V, NEW p \in Seq(V), Len(p) >= 1
  PROVE  Pre(p, 1) = <<p[1]>>
<1>1. PreIs(p, 0, V)
  BY PreFacts
<1>2. Pre(p, 0) = << >>
  BY <1>1 DEF PreIs
<1>3. Pre(p, 0 + 1) = Append(Pre(p, 0), p[0 + 1])
  BY PreNext
<1>4. Append(<< >>, p[0 + 1]) = <<p[1]>> /\ 0 + 1 = 1
  OBVIOUS
<1> QED BY <1>2, <1>3, <1>4

LEMMA PreAll ==
  ASSUME NEW V, NEW p \in Seq(V)
  PROVE  Pre(p, Len(p)) = p
BY SubSeqFull DEF Pre

\* Two beginnings of a path are the same only when they are as long.
LEMMA PreApart ==
  ASSUME NEW V, NEW p \in Seq(V), NEW m \in 0..Len(p), NEW n \in 0..Len(p),
         Pre(p, m) = Pre(p, n)
  PROVE  m = n
BY PreFacts DEF PreIs

\* Which beginnings of p a path is.
LEMMA PrefixIs ==
  ASSUME NEW V, NEW p \in Seq(V), NEW q \in Seq(V), IsPrefix(q, p)
  PROVE  Len(q) \in 0..Len(p) /\ q = Pre(p, Len(q))
<1>1. Len(q) <= Len(p) /\ SubSeq(q, 1, Len(q)) = SubSeq(p, 1, Len(q))
  BY DEF IsPrefix
<1>2. SubSeq(q, 1, Len(q)) = q
  BY SubSeqFull
<1> QED BY <1>1, <1>2 DEF Pre

LEMMA PreOfPre ==
  ASSUME NEW V, NEW p \in Seq(V), NEW n \in 0..Len(p), NEW m \in 0..n
  PROVE  Pre(Pre(p, n), m) = Pre(p, m)
<1>1. PreIs(p, n, V) /\ PreIs(p, m, V)
  BY PreFacts
<1>2. Pre(p, n) \in Seq(V) /\ Len(Pre(p, n)) = n
  BY <1>1 DEF PreIs
<1>3. CASE m = 0
  <2>1. PreIs(Pre(p, n), m, V)
    BY <1>2, PreFacts
  <2> QED BY <2>1, <1>1, <1>3 DEF PreIs
<1>4. CASE m # 0
  <2>1. SubSeq(SubSeq(p, 1, n), 1, m) = SubSeq(p, 1 + 1 - 1, 1 + m - 1)
    <3>1. /\ 1 \in 1..Len(p) /\ n \in 1..Len(p)
          /\ 1 \in 1..(n - 1 + 1) /\ m \in 1..(n - 1 + 1)
      BY <1>4
    <3> QED BY <3>1, SubSeqOfSubSeq
  <2>2. 1 + 1 - 1 = 1 /\ 1 + m - 1 = m
    OBVIOUS
  <2> QED BY <2>1, <2>2 DEF Pre
<1> QED BY <1>3, <1>4

LEMMA PreIsPrefix ==
  ASSUME NEW V, NEW p \in Seq(V), NEW n \in 0..Len(p), NEW m \in 0..n
  PROVE  IsPrefix(Pre(p, m), Pre(p, n))
<1>1. PreIs(p, n, V) /\ PreIs(p, m, V)
  BY PreFacts
<1>2. Len(Pre(p, m)) = m /\ Len(Pre(p, n)) = n
  BY <1>1 DEF PreIs
<1>3. SubSeq(Pre(p, n), 1, m) = Pre(p, m)
  BY PreOfPre DEF Pre
<1>4. SubSeq(Pre(p, m), 1, m) = Pre(p, m)
  <2>1. Pre(p, m) \in Seq(V)
    BY <1>1 DEF PreIs
  <2> QED BY <2>1, <1>2, SubSeqFull
<1> QED BY <1>2, <1>3, <1>4 DEF IsPrefix

-----------------------------------------------------------------------------
(* Trees: N nodes, each with the one path P that leads to it *)

NodeOf(V, M, N) == [name : V, children : Seq(0..(N - 1)), mounted : M]
Linked(tree, P, N) ==
  \A q \in 0..(N - 1) : \A c \in Range(tree[q].children) :
    q < c /\ P[c] = Append(P[q], tree[c].name)
Owned(tree, N) ==
  \A c \in 1..(N - 1) : \E q \in 0..(N - 1) : c \in Range(tree[q].children)
NoRepeat(s) == \A i, j \in DOMAIN s : s[i] = s[j] => i = j
Once(tree, N) == \A q \in 0..(N - 1) : NoRepeat(tree[q].children)
Apart(P, N) == \A a, b \in 0..(N - 1) : P[a] = P[b] => a = b

Shaped(tree, P, N, V, M) ==
  /\ N \in Nat \ {0}
  /\ tree \in [0..(N - 1) -> NodeOf(V, M, N)]
  /\ P \in [0..(N - 1) -> Seq(V)] /\ P[0] = <<"">>
  /\ Linked(tree, P, N) /\ Owned(tree, N) /\ Once(tree, N) /\ Apart(P, N)

LEMMA SameAppend ==
  ASSUME NEW V, NEW a \in Seq(V), NEW b \in Seq(V), NEW x \in V, NEW y \in V,
         Append(a, x) = Append(b, y)
  PROVE  a = b /\ x = y
BY AppendInjective

LEMMA RangeOf ==
  ASSUME NEW S, NEW s \in Seq(S), NEW c \in Range(s)
  PROVE  c \in S
<1>1. PICK i \in DOMAIN s : c = s[i]
  BY DEF Range
<1> QED BY <1>1

LEMMA ChildOf ==
  ASSUME NEW V, NEW M, NEW N, NEW tree, NEW P, Shaped(tree, P, N, V, M),
         NEW q \in 0..(N - 1), NEW c \in Range(tree[q].children)
  PROVE  /\ c \in 0..(N - 1) /\ q < c
         /\ P[c] = Append(P[q], tree[c].name) /\ tree[c].name \in V
<1>1. tree \in [0..(N - 1) -> NodeOf(V, M, N)] /\ Linked(tree, P, N)
  BY DEF Shaped
<1>2. tree[q].children \in Seq(0..(N - 1))
  BY <1>1 DEF NodeOf
<1>3. c \in 0..(N - 1)
  BY ONLY <1>2, RangeOf, c \in Range(tree[q].children)
<1>4. tree[c].name \in V
  BY <1>1, <1>3 DEF NodeOf
<1> QED BY <1>1, <1>3, <1>4 DEF Linked

LEMMA ParentOf ==
  ASSUME NEW V, NEW M, NEW N, NEW tree, NEW P, Shaped(tree, P, N, V, M),
         NEW c \in 1..(N - 1)
  PROVE  \E q \in 0..(N - 1) : c \in Range(tree[q].children)
BY DEF Shaped, Owned

\* A path has at least the piece in front of the first slash.
LEMMA NotEmpty ==
  ASSUME NEW V, NEW M, NEW N, NEW tree, NEW P, Shaped(tree, P, N, V, M),
         NEW c \in 0..(N - 1)
  PROVE  P[c] \in Seq(V) /\ Len(P[c]) >= 1 /\ (Len(P[c]) = 1 => c = 0)
<1>0. N \in Nat \ {0}
  BY DEF Shaped
<1>1. P \in [0..(N - 1) -> Seq(V)] /\ P[0] = <<"">>
  BY DEF Shaped
<1>2. P[c] \in Seq(V)
  BY <1>1
<1>9. Len(<<"">>) = 1 /\ <<"">> # << >>
  OBVIOUS
<1>3. CASE c = 0
  <2>1. Len(P[c]) = 1
    BY <1>1, <1>3, <1>9
  <2> QED BY ONLY <2>1, <1>2, <1>3
<1>4. CASE c # 0
  <2>1. c \in 1..(N - 1)
    BY <1>0, <1>4
  <2>2. PICK q \in 0..(N - 1) : c \in Range(tree[q].children)
    BY <2>1, ParentOf
  <2>3. P[c] = Append(P[q], tree[c].name) /\ tree[c].name \in V /\ q < c
    BY <2>2, ChildOf
  <2>4. P[q] \in Seq(V)
    BY <1>1
  <2>5. P[q] # << >>
    <3>1. CASE q = 0
      BY ONLY <3>1, <1>1, <1>9
    <3>2. CASE q # 0
      <4>1. q \in 1..(N - 1)
        BY <1>0, <3>2
      <4>2. PICK r \in 0..(N - 1) : q \in Range(tree[r].children)
        BY <4>1, ParentOf
      <4>3. P[q] = Append(P[r], tree[q].name) /\ tree[q].name \in V
        BY <4>2, ChildOf
      <4>4. P[r] \in Seq(V)
        BY <1>1
      <4> QED BY <4>3, <4>4, AppendProperties
    <3> QED BY <3>1, <3>2
  <2>6. Len(P[c]) = Len(P[q]) + 1
    BY <2>3, <2>4, AppendProperties
  <2>7. Len(P[q]) \in Nat /\ Len(P[q]) # 0
    BY <2>4, <2>5
  <2> QED BY <1>2, <2>6, <2>7
<1> QED BY <1>3, <1>4

\* A node whose path is one piece longer is a child: the one with that name.
LEMMA KnownChild ==
  ASSUME NEW V, NEW M, NEW N, NEW tree, NEW P, Shaped(tree, P, N, V, M),
         NEW q \in 0..(N - 1), NEW v \in V, NEW c \in 0..(N - 1), P[c] = Append(P[q], v)
  PROVE  Children(tree, q, v) = {c}
<1>1. N \in Nat \ {0} /\ P \in [0..(N - 1) -> Seq(V)] /\ Apart(P, N)
  BY DEF Shaped
<1>2. c \in 1..(N - 1)
  <2>1. P[q] \in Seq(V) /\ Len(P[q]) >= 1
    BY NotEmpty
  <2>2. Len(P[c]) = Len(P[q]) + 1 /\ Len(P[q]) \in Nat
    BY <2>1, AppendProperties
  <2>3. Len(P[c]) # 1
    BY <2>1, <2>2
  <2>4. P[0] = <<"">>
    BY DEF Shaped
  <2>5. Len(<<"">>) = 1
    OBVIOUS
  <2>6. c # 0
    BY <2>3, <2>4, <2>5
  <2> QED BY <2>6, <1>1
<1>3. PICK r \in 0..(N - 1) : c \in Range(tree[r].children)
  BY <1>2, ParentOf
<1>4. P[c] = Append(P[r], tree[c].name) /\ tree[c].name \in V
  BY <1>3, ChildOf
<1>5. P[r] = P[q] /\ tree[c].name = v
  <2>1. P[r] \in Seq(V) /\ P[q] \in Seq(V)
    BY <1>1
  <2>2. Append(P[r], tree[c].name) = Append(P[q], v)
    BY <1>4
  <2>3. tree[c].name \in V
    BY <1>4
  <2>4. PICK a, b, x : a = P[r] /\ b = P[q] /\ x = tree[c].name
    OBVIOUS
  <2>5. a \in Seq(V) /\ b \in Seq(V) /\ x \in V /\ Append(a, x) = Append(b, v)
    BY <2>1, <2>2, <2>3, <2>4
  <2>6. a = b /\ x = v
    BY ONLY <2>5, v \in V, SameAppend
  <2> QED BY <2>4, <2>6
<1>6. r = q
  BY <1>1, <1>5 DEF Apart
<1>7. c \in Children(tree, q, v)
  BY <1>3, <1>5, <1>6 DEF Children
<1>8. ASSUME NEW d \in Children(tree, q, v) PROVE d = c
  <2>1. d \in Range(tree[q].children) /\ tree[d].name = v
    BY <1>8 DEF Children
  <2>2. d \in 0..(N - 1) /\ P[d] = Append(P[q], tree[d].name)
    BY <2>1, ChildOf
  <2> QED BY <2>1, <2>2, <1>1 DEF Apart
<1> QED BY <1>7, <1>8

LEMMA UnknownChild ==
  ASSUME NEW V, NEW M, NEW N, NEW tree, NEW P, Shaped(tree, P, N, V, M),
         NEW q \in 0..(N - 1), NEW v, \A c \in 0..(N - 1) : P[c] # Append(P[q], v)
  PROVE  Children(tree, q, v) = {}
<1>1. ASSUME NEW d \in Children(tree, q, v) PROVE FALSE
  <2>1. d \in Range(tree[q].children) /\ tree[d].name = v
    BY <1>1 DEF Children
  <2>2. d \in 0..(N - 1) /\ P[d] = Append(P[q], tree[d].name)
    BY <2>1, ChildOf
  <2> QED BY <2>1, <2>2
<1> QED BY <1>1

LEMMA MinOfOne ==
  ASSUME NEW c \in Int PROVE Min({c}) = c
BY DEF Min

\* With a path, all that it lies in is known.
LEMMA KnownAbove ==
  ASSUME NEW V, NEW M, NEW N, NEW tree, NEW P, Shaped(tree, P, N, V, M),
         NEW p \in Seq(V), NEW n \in 1..(Len(p) - 1),
         NEW c \in 0..(N - 1), P[c] = Pre(p, n + 1)
  PROVE  /\ c # 0
         /\ \E q \in 0..(N - 1) : P[q] = Pre(p, n) /\ c \in Range(tree[q].children)
                                  /\ tree[c].name = p[n + 1]
<1>0. N \in Nat \ {0}
  BY DEF Shaped
<1>1. P \in [0..(N - 1) -> Seq(V)] /\ P[0] = <<"">>
  BY DEF Shaped
<1>2. n \in 0..(Len(p) - 1) /\ n \in 0..Len(p) /\ n + 1 \in 0..Len(p) /\ n + 1 \in 1..Len(p)
  OBVIOUS
<1>3. Pre(p, n + 1) = Append(Pre(p, n), p[n + 1]) /\ p[n + 1] \in V
  BY <1>2, PreNext
<1>4. PreIs(p, n, V) /\ PreIs(p, n + 1, V)
  BY <1>2, PreFacts
<1>5. c # 0
  <2>1. Len(P[c]) # 1
    BY <1>4 DEF PreIs
  <2>2. Len(<<"">>) = 1
    OBVIOUS
  <2> QED BY <2>1, <2>2, <1>1
<1>6. c \in 1..(N - 1)
  BY <1>0, <1>5
<1>7. PICK q \in 0..(N - 1) : c \in Range(tree[q].children)
  BY <1>6, ParentOf
<1>8. P[c] = Append(P[q], tree[c].name) /\ tree[c].name \in V
  BY <1>7, ChildOf
<1>9. P[q] = Pre(p, n) /\ tree[c].name = p[n + 1]
  <2>1. P[q] \in Seq(V) /\ Pre(p, n) \in Seq(V)
    BY <1>1, <1>4 DEF PreIs
  <2>2. Append(P[q], tree[c].name) = Append(Pre(p, n), p[n + 1])
    BY <1>3, <1>8
  <2>3. tree[c].name \in V /\ p[n + 1] \in V
    BY <1>3, <1>8
  <2>4. PICK a, b, x, y : a = P[q] /\ b = Pre(p, n) /\ x = tree[c].name /\ y = p[n + 1]
    OBVIOUS
  <2>5. a \in Seq(V) /\ b \in Seq(V) /\ x \in V /\ y \in V /\ Append(a, x) = Append(b, y)
    BY <2>1, <2>2, <2>3, <2>4
  <2>6. a = b /\ x = y
    BY ONLY <2>5, SameAppend
  <2> QED BY <2>4, <2>6
<1> QED BY <1>5, <1>7, <1>9

-----------------------------------------------------------------------------
(* Such a tree is a tree, and PathsOf finds its paths *)

GoodTree(tree) ==
  /\ \A p \in DOMAIN tree : \A c \in Range(tree[p].children) : p < c
  /\ \A id \in DOMAIN tree \ {0} : \E p \in DOMAIN tree : id \in Range(tree[p].children)
  /\ \A p, q \in DOMAIN tree :
       \A i \in DOMAIN tree[p].children, j \in DOMAIN tree[q].children :
         tree[p].children[i] = tree[q].children[j] => p = q /\ i = j
  /\ \A id \in DOMAIN tree : \A c, d \in Range(tree[id].children) :
       tree[c].name = tree[d].name => c = d

\* A node is in the list of one node only.
LEMMA OneParent ==
  ASSUME NEW V, NEW M, NEW N, NEW tree, NEW P, Shaped(tree, P, N, V, M),
         NEW q \in 0..(N - 1), NEW r \in 0..(N - 1),
         NEW c \in Range(tree[q].children), c \in Range(tree[r].children)
  PROVE  q = r
<1>1. /\ P[c] = Append(P[q], tree[c].name) /\ P[c] = Append(P[r], tree[c].name)
      /\ tree[c].name \in V
  BY ChildOf
<1>2. P[q] \in Seq(V) /\ P[r] \in Seq(V)
  BY NotEmpty
<1>3. PICK a, b, x : a = P[q] /\ b = P[r] /\ x = tree[c].name
  OBVIOUS
<1>4. a \in Seq(V) /\ b \in Seq(V) /\ x \in V /\ Append(a, x) = Append(b, x)
  BY <1>1, <1>2, <1>3
<1>5. a = b
  BY ONLY <1>4, SameAppend
<1>6. Apart(P, N)
  BY DEF Shaped
<1> QED BY <1>3, <1>5, <1>6 DEF Apart

LEMMA ShapedIsTree ==
  ASSUME NEW V, NEW M, NEW N, NEW tree, NEW P, Shaped(tree, P, N, V, M)
  PROVE  GoodTree(tree)
<1>1. DOMAIN tree = 0..(N - 1) /\ Once(tree, N) /\ Apart(P, N)
  BY DEF Shaped
<1>2. ASSUME NEW p \in DOMAIN tree, NEW c \in Range(tree[p].children) PROVE p < c
  BY <1>1, ChildOf
<1>3. ASSUME NEW id \in DOMAIN tree \ {0}
      PROVE  \E p \in DOMAIN tree : id \in Range(tree[p].children)
  <2>1. N \in Nat \ {0}
    BY DEF Shaped
  <2>2. id \in 1..(N - 1)
    BY <1>1, <1>3, <2>1
  <2> QED BY <2>2, <1>1, ParentOf
<1>4. ASSUME NEW p \in DOMAIN tree, NEW q \in DOMAIN tree,
             NEW i \in DOMAIN tree[p].children, NEW j \in DOMAIN tree[q].children,
             tree[p].children[i] = tree[q].children[j]
      PROVE  p = q /\ i = j
  <2>1. /\ tree[p].children[i] \in Range(tree[p].children)
        /\ tree[p].children[i] \in Range(tree[q].children)
    BY <1>4 DEF Range
  <2>2. PICK c : c = tree[p].children[i]
    OBVIOUS
  <2>3. p = q
    <3>1. p \in 0..(N - 1) /\ q \in 0..(N - 1)
      BY <1>1
    <3>2. c \in Range(tree[p].children) /\ c \in Range(tree[q].children)
      BY <2>1, <2>2
    <3> QED BY <3>1, <3>2, OneParent
  <2> QED BY <2>3, <1>1, <1>4 DEF Once, NoRepeat
<1>5. ASSUME NEW id \in DOMAIN tree, NEW c \in Range(tree[id].children),
             NEW d \in Range(tree[id].children), tree[c].name = tree[d].name
      PROVE  c = d
  <2>0. id \in 0..(N - 1)
    BY <1>1
  <2>1. c \in 0..(N - 1) /\ P[c] = Append(P[id], tree[c].name)
    BY <2>0, ChildOf
  <2>2. d \in 0..(N - 1) /\ P[d] = Append(P[id], tree[d].name)
    BY <2>0, ChildOf
  <2> QED BY <2>1, <2>2, <1>1, <1>5 DEF Apart
<1> QED BY <1>2, <1>3, <1>4, <1>5 DEF GoodTree

ParentIn(tree, id) == CHOOSE p \in DOMAIN tree : id \in Range(tree[p].children)
PathEquation(R, tree) ==
  R = [id \in DOMAIN tree |-> IF id = 0 THEN <<"">>
                              ELSE Append(R[ParentIn(tree, id)], tree[id].name)]

LEMMA ParentInIs ==
  ASSUME NEW V, NEW M, NEW N, NEW tree, NEW P, Shaped(tree, P, N, V, M),
         NEW c \in 1..(N - 1)
  PROVE  /\ ParentIn(tree, c) \in 0..(N - 1) /\ ParentIn(tree, c) < c
         /\ P[c] = Append(P[ParentIn(tree, c)], tree[c].name)
<1>1. DOMAIN tree = 0..(N - 1)
  BY DEF Shaped
<1>2. \E q \in DOMAIN tree : c \in Range(tree[q].children)
  BY <1>1, ParentOf
<1>3. ParentIn(tree, c) \in DOMAIN tree /\ c \in Range(tree[ParentIn(tree, c)].children)
  BY <1>2 DEF ParentIn
<1>4. PICK q : q = ParentIn(tree, c)
  OBVIOUS
<1>5. q \in 0..(N - 1) /\ c \in Range(tree[q].children)
  BY <1>1, <1>3, <1>4
<1> QED BY <1>4, <1>5, ChildOf

LEMMA PathsSolve ==
  ASSUME NEW V, NEW M, NEW N, NEW tree, NEW P, Shaped(tree, P, N, V, M)
  PROVE  PathEquation(P, tree)
<1>0. N \in Nat \ {0}
  BY DEF Shaped
<1>1. DOMAIN tree = 0..(N - 1) /\ P \in [0..(N - 1) -> Seq(V)] /\ P[0] = <<"">>
  BY DEF Shaped
<1>2. ASSUME NEW id \in DOMAIN tree
      PROVE  P[id] = IF id = 0 THEN <<"">> ELSE Append(P[ParentIn(tree, id)], tree[id].name)
  <2>1. CASE id = 0
    BY <2>1, <1>1
  <2>2. CASE id # 0
    <3>0. id \in 0..(N - 1)
      BY <1>1
    <3>1. id \in 1..(N - 1)
      BY ONLY <1>0, <3>0, <2>2
    <3> QED BY <2>2, <3>1, ParentInIs
  <2> QED BY <2>1, <2>2
<1>3. P = [id \in DOMAIN tree |-> IF id = 0 THEN <<"">>
                                  ELSE Append(P[ParentIn(tree, id)], tree[id].name)]
  <2>1. P = [id \in DOMAIN tree |-> P[id]]
    BY <1>1
  <2> QED BY <2>1, <1>2
<1> QED BY <1>3 DEF PathEquation

LEMMA PathsUnique ==
  ASSUME NEW V, NEW M, NEW N, NEW tree, NEW P, Shaped(tree, P, N, V, M),
         NEW R, PathEquation(R, tree)
  PROVE  R = P
<1>0. N \in Nat \ {0} /\ N - 1 \in Nat
  <2>1. N \in Nat \ {0}
    BY DEF Shaped
  <2> QED BY ONLY <2>1
<1>1. DOMAIN tree = 0..(N - 1) /\ P \in [0..(N - 1) -> Seq(V)]
  BY DEF Shaped
<1>2. R = [id \in DOMAIN tree |-> IF id = 0 THEN <<"">>
                                  ELSE Append(R[ParentIn(tree, id)], tree[id].name)]
  BY DEF PathEquation
<1>3. PathEquation(P, tree)
  BY PathsSolve
<1>4. P = [id \in DOMAIN tree |-> IF id = 0 THEN <<"">>
                                  ELSE Append(P[ParentIn(tree, id)], tree[id].name)]
  BY <1>3 DEF PathEquation
<1> DEFINE T == {m \in 0..(N - 1) : \A i \in 0..m : R[i] = P[i]}
<1>5. 0 \in T
  <2>0. 0 \in 0..(N - 1) /\ \A i \in 0..0 : i = 0
    BY ONLY <1>0
  <2>1. 0 \in DOMAIN tree
    BY <2>0, <1>1
  <2>2. R[0] = <<"">> /\ P[0] = <<"">>
    BY <2>1, <1>2, <1>4
  <2>3. \A i \in 0..0 : R[i] = P[i]
    BY <2>0, <2>2
  <2> QED BY <2>0, <2>3
<1>6. ASSUME NEW k \in 0..((N - 1) - 1), k \in T PROVE k + 1 \in T
  <2>1. k + 1 \in 1..(N - 1) /\ k + 1 \in DOMAIN tree /\ k + 1 # 0 /\ k \in 0..(N - 1)
    BY <1>0, <1>1
  <2>2. ParentIn(tree, k + 1) \in 0..(N - 1) /\ ParentIn(tree, k + 1) < k + 1
    BY <2>1, ParentInIs
  <2>3. PICK q : q = ParentIn(tree, k + 1)
    OBVIOUS
  <2>4. q \in 0..k
    BY <2>2, <2>3
  <2>5. R[q] = P[q]
    BY <2>4, <1>6
  <2>6. R[k + 1] = Append(R[q], tree[k + 1].name)
    BY <2>1, <2>3, <1>2
  <2>7. P[k + 1] = Append(P[q], tree[k + 1].name)
    BY <2>1, <2>3, <1>4
  <2>8. \A i \in 0..(k + 1) : i \in 0..k \/ i = k + 1
    BY <2>1
  <2>9. \A i \in 0..k : R[i] = P[i]
    BY <1>6
  <2>10. \A i \in 0..(k + 1) : R[i] = P[i]
    BY <2>5, <2>6, <2>7, <2>8, <2>9
  <2> QED BY <2>1, <2>10
<1>7. 0..(N - 1) \subseteq T
  <2> HIDE DEF T
  <2> QED BY <1>0, <1>5, <1>6, UpTo
<1>8. \A i \in 0..(N - 1) : R[i] = P[i]
  <2>1. ASSUME NEW i \in 0..(N - 1) PROVE R[i] = P[i]
    <3>1. i \in T
      BY <1>7
    <3>2. i \in 0..i
      OBVIOUS
    <3> QED BY <3>1, <3>2
  <2> QED BY <2>1
<1>9. DOMAIN R = 0..(N - 1) /\ R = [i \in 0..(N - 1) |-> R[i]]
  BY <1>1, <1>2
<1>10. P = [i \in 0..(N - 1) |-> P[i]]
  BY <1>1
<1> QED BY <1>8, <1>9, <1>10

\* The paths of a tree are the ones PathsOf finds.
LEMMA PathsAre ==
  ASSUME NEW V, NEW M, NEW N, NEW tree, NEW P, Shaped(tree, P, N, V, M)
  PROVE  PathsOf(tree) = P
<1>1. PathEquation(P, tree)
  BY PathsSolve
<1>2. PathsOf(tree) = CHOOSE R : PathEquation(R, tree)
  BY DEF PathsOf, PathEquation, ParentIn
<1>3. PathEquation(PathsOf(tree), tree)
  BY <1>1, <1>2
<1> QED BY <1>3, PathsUnique

-----------------------------------------------------------------------------
(* The walk of resolve: it is where the path's beginning leads, if it leads *)
(* anywhere                                                                 *)

LEMMA StepIn ==
  ASSUME NEW V, NEW M, NEW N, NEW tree, NEW P, Shaped(tree, P, N, V, M),
         NEW q \in 0..(N - 1) \cup {NULL}, NEW v
  PROVE  Step(tree, q, v) \in 0..(N - 1) \cup {NULL}
<1>1. CASE q = NULL \/ Children(tree, q, v) = {}
  BY <1>1 DEF Step
<1>2. CASE q # NULL /\ Children(tree, q, v) # {}
  <2>1. q \in 0..(N - 1)
    BY <1>2
  <2>2. Children(tree, q, v) \subseteq 0..(N - 1)
    <3>1. ASSUME NEW c \in Children(tree, q, v) PROVE c \in 0..(N - 1)
      <4>1. c \in Range(tree[q].children)
        BY <3>1 DEF Children
      <4> QED BY <4>1, <2>1, ChildOf
    <3> QED BY <3>1
  <2>3. PICK T : T = Children(tree, q, v)
    OBVIOUS
  <2>4. T \subseteq Nat /\ T # {} /\ T \subseteq 0..(N - 1)
    BY <1>2, <2>2, <2>3
  <2>5. \E m \in T : \A k \in T : m <= k
    BY ONLY <2>4, LeastNatural
  <2>6. Min(T) \in T
    BY <2>5 DEF Min
  <2>7. Step(tree, q, v) = Min(T)
    BY <1>2, <2>3 DEF Step
  <2> QED BY <2>4, <2>6, <2>7
<1> QED BY <1>1, <1>2

StepOrRoot(tree, from, p, n) == IF n = 1 THEN 0 ELSE Step(tree, from, p[n])
WalkEquation(at, tree, p) ==
  at = [n \in 0..Len(p) |-> IF n = 0 THEN NULL ELSE StepOrRoot(tree, at[n - 1], p, n)]

LEMMA WalkExists ==
  ASSUME NEW V, NEW M, NEW N, NEW tree, NEW P, Shaped(tree, P, N, V, M), NEW p \in Seq(V)
  PROVE  \E at : WalkEquation(at, tree, p)
<1>0. N \in Nat \ {0} /\ Len(p) \in Nat
  <2>1. N \in Nat \ {0}
    BY DEF Shaped
  <2>2. Len(p) \in Nat
    OBVIOUS
  <2> QED BY <2>1, <2>2
<1>1. PICK L, S : L = Len(p) /\ S = 0..(N - 1) \cup {NULL}
  OBVIOUS
<1> DEFINE g == [x \in S \X (1..L) |-> StepOrRoot(tree, x[1], p, x[2])]
<1>2. g \in [S \X (1..L) -> S]
  <2>1. ASSUME NEW x \in S \X (1..L) PROVE StepOrRoot(tree, x[1], p, x[2]) \in S
    <3>1. x[1] \in 0..(N - 1) \cup {NULL}
      BY <1>1
    <3>2. Step(tree, x[1], p[x[2]]) \in S
      BY <3>1, <1>1, StepIn
    <3>3. 0 \in S
      BY <1>0, <1>1
    <3> QED BY <3>2, <3>3 DEF StepOrRoot
  <2> QED BY <2>1
<1>3. NULL \in S /\ L \in Nat
  BY <1>0, <1>1
<1>4. PICK f : Iterated(f, NULL, g, L, S)
  <2> HIDE DEF g
  <2> QED BY <1>2, <1>3, Iterates
<1>5. f \in [0..L -> S] /\ f[0] = NULL /\ \A k \in 1..L : f[k] = g[<<f[k - 1], k>>]
  <2> HIDE DEF g
  <2> QED BY <1>4 DEF Iterated
<1>6. ASSUME NEW k \in 0..L
      PROVE  f[k] = IF k = 0 THEN NULL ELSE StepOrRoot(tree, f[k - 1], p, k)
  <2>1. CASE k = 0
    BY <2>1, <1>5
  <2>2. CASE k # 0
    <3>1. k \in 1..L /\ k - 1 \in 0..L
      BY <2>2, <1>3
    <3>2. f[k - 1] \in S
      BY <3>1, <1>5
    <3>3. <<f[k - 1], k>> \in S \X (1..L)
      BY <3>1, <3>2
    <3>4. g[<<f[k - 1], k>>] = StepOrRoot(tree, f[k - 1], p, k)
      BY <3>3
    <3>5. f[k] = g[<<f[k - 1], k>>]
      <4> HIDE DEF g
      <4> QED BY <3>1, <1>5
    <3> QED BY <2>2, <3>4, <3>5
  <2> QED BY <2>1, <2>2
<1>7. f = [n \in 0..L |-> IF n = 0 THEN NULL ELSE StepOrRoot(tree, f[n - 1], p, n)]
  <2>1. f = [n \in 0..L |-> f[n]]
    BY <1>5
  <2> QED BY <2>1, <1>6
<1> QED BY <1>1, <1>7 DEF WalkEquation

LEMMA PassedSolves ==
  ASSUME NEW V, NEW M, NEW N, NEW tree, NEW P, Shaped(tree, P, N, V, M), NEW p \in Seq(V)
  PROVE  WalkEquation(Passed(tree, p), tree, p)
<1>1. \E at : WalkEquation(at, tree, p)
  BY WalkExists
<1>2. Passed(tree, p) = CHOOSE at : WalkEquation(at, tree, p)
  BY DEF Passed, WalkEquation, StepOrRoot
<1> QED BY <1>1, <1>2

\* Where a beginning of the path leads.
Leads(at, P, N, p, n) ==
  \/ at[n] \in 0..(N - 1) /\ P[at[n]] = Pre(p, n)
  \/ at[n] = NULL /\ \A i \in 0..(N - 1) : P[i] # Pre(p, n)

LEMMA StepLeads ==
  ASSUME NEW V, NEW M, NEW N, NEW tree, NEW P, Shaped(tree, P, N, V, M), NEW p \in Seq(V),
         NEW n \in 1..(Len(p) - 1), NEW at, Leads(at, P, N, p, n),
         at[n + 1] = Step(tree, at[n], p[n + 1])
  PROVE  Leads(at, P, N, p, n + 1)
<1>0. N \in Nat \ {0} /\ P \in [0..(N - 1) -> Seq(V)]
  BY DEF Shaped
<1>1. Pre(p, n + 1) = Append(Pre(p, n), p[n + 1]) /\ p[n + 1] \in V
  <2>1. n \in 0..(Len(p) - 1) /\ n + 1 \in 1..Len(p)
    OBVIOUS
  <2> QED BY <2>1, PreNext
<1>2. CASE at[n] = NULL /\ \A i \in 0..(N - 1) : P[i] # Pre(p, n)
  <2>1. at[n + 1] = NULL
    BY <1>2 DEF Step
  <2>2. ASSUME NEW i \in 0..(N - 1), P[i] = Pre(p, n + 1) PROVE FALSE
    <3>1. \E q \in 0..(N - 1) : P[q] = Pre(p, n)
      BY <2>2, KnownAbove
    <3> QED BY <3>1, <1>2
  <2> QED BY <2>1, <2>2 DEF Leads
<1>3. CASE at[n] \in 0..(N - 1) /\ P[at[n]] = Pre(p, n)
  <2>1. PICK q \in 0..(N - 1) : q = at[n] /\ P[q] = Pre(p, n)
    BY <1>3
  <2>2. PICK v \in V : v = p[n + 1]
    BY <1>1
  <2>3. Pre(p, n + 1) = Append(P[q], v)
    BY <1>1, <2>1, <2>2
  <2>4. q # NULL
    BY DEF NULL
  <2>5. CASE \E c \in 0..(N - 1) : P[c] = Append(P[q], v)
    <3>1. PICK c \in 0..(N - 1) : P[c] = Append(P[q], v)
      BY <2>5
    <3>2. Children(tree, q, v) = {c}
      BY <3>1, KnownChild
    <3>3. Step(tree, q, v) = c
      <4>1. c \in Int
        BY <1>0
      <4> QED BY <3>2, <4>1, <2>4, MinOfOne DEF Step
    <3> QED BY <3>1, <3>3, <2>1, <2>2, <2>3 DEF Leads
  <2>6. CASE \A c \in 0..(N - 1) : P[c] # Append(P[q], v)
    <3>1. Children(tree, q, v) = {}
      BY <2>6, UnknownChild
    <3>2. Step(tree, q, v) = NULL
      BY <3>1 DEF Step
    <3> QED BY <3>2, <2>6, <2>1, <2>2, <2>3 DEF Leads
  <2> QED BY <2>5, <2>6
<1> QED BY <1>2, <1>3 DEF Leads

\* A path begins at the root: the piece in front of the first slash is empty.
Rooted(p, V) == p \in Seq(V) /\ Len(p) >= 1 /\ p[1] = ""

LEMMA RootedLen ==
  ASSUME NEW V, NEW p, Rooted(p, V)
  PROVE  p \in Seq(V) /\ Len(p) \in Nat /\ Len(p) >= 1
<1>1. p \in Seq(V) /\ Len(p) >= 1
  BY DEF Rooted
<1>2. Len(p) \in Nat
  BY ONLY <1>1
<1> QED BY <1>1, <1>2

LEMMA WalkLeads ==
  ASSUME NEW V, NEW M, NEW N, NEW tree, NEW P, Shaped(tree, P, N, V, M),
         NEW p, Rooted(p, V), NEW n \in 1..Len(p)
  PROVE  Leads(Passed(tree, p), P, N, p, n)
<1>8. p \in Seq(V) /\ Len(p) >= 1 /\ p[1] = ""
  BY DEF Rooted
<1>0. Len(p) \in Nat /\ Len(p) >= 1
  BY RootedLen
<1>1. PICK at : at = Passed(tree, p)
  OBVIOUS
<1>2. at = [k \in 0..Len(p) |-> IF k = 0 THEN NULL ELSE StepOrRoot(tree, at[k - 1], p, k)]
  <2>1. WalkEquation(at, tree, p)
    BY <1>1, <1>8, PassedSolves
  <2> QED BY <2>1 DEF WalkEquation
<1> DEFINE T == {m \in 0..(Len(p) - 1) : Leads(at, P, N, p, m + 1)}
<1>3. 0 \in T
  <2>0. 0 \in 0..(Len(p) - 1) /\ 0 + 1 = 1 /\ 1 \in 0..Len(p) /\ 1 # 0
    BY ONLY <1>0
  <2>1. at[1] = 0
    BY <2>0, <1>2 DEF StepOrRoot
  <2>2. Pre(p, 1) = <<"">>
    BY <1>8, PreFirst
  <2>3. P[0] = <<"">> 
    BY DEF Shaped
  <2>6. N \in Nat \ {0}
    BY DEF Shaped
  <2>4. 0 \in 0..(N - 1)
    BY ONLY <2>6
  <2>5. Leads(at, P, N, p, 1)
    BY <2>1, <2>2, <2>3, <2>4 DEF Leads
  <2> QED BY <2>0, <2>5
<1>4. ASSUME NEW k \in 0..((Len(p) - 1) - 1), k \in T PROVE k + 1 \in T
  <2>1. Leads(at, P, N, p, k + 1)
    BY <1>4
  <2>2. /\ k + 1 \in 1..(Len(p) - 1) /\ (k + 1) + 1 \in 0..Len(p)
        /\ (k + 1) + 1 # 0 /\ (k + 1) + 1 # 1 /\ ((k + 1) + 1) - 1 = k + 1
        /\ k + 1 \in 0..(Len(p) - 1)
    BY ONLY <1>0, k \in 0..((Len(p) - 1) - 1)
  <2>3. at[(k + 1) + 1] = Step(tree, at[k + 1], p[(k + 1) + 1])
    BY <2>2, <1>2 DEF StepOrRoot
  <2>4. Leads(at, P, N, p, (k + 1) + 1)
    BY <1>8, <2>1, <2>2, <2>3, StepLeads
  <2> QED BY <2>2, <2>4
<1>5. 0..(Len(p) - 1) \subseteq T
  <2>1. Len(p) - 1 \in Nat
    BY ONLY <1>0
  <2> HIDE DEF T
  <2> QED BY <2>1, <1>3, <1>4, UpTo
<1>6. n - 1 \in T /\ (n - 1) + 1 = n
  <2>1. n - 1 \in 0..(Len(p) - 1) /\ (n - 1) + 1 = n
    BY ONLY <1>0, n \in 1..Len(p)
  <2> HIDE DEF T
  <2> QED BY <2>1, <1>5
<1>7. Leads(at, P, N, p, (n - 1) + 1)
  BY <1>6
<1> QED BY <1>1, <1>6, <1>7

-----------------------------------------------------------------------------
(* How far a path is known *)

DepthFacts(tree, P, N, p, D) ==
  /\ D \in 1..Len(p)
  /\ Deepest(tree, p) \in 0..(N - 1) /\ P[Deepest(tree, p)] = Pre(p, D)
  /\ \A n \in 1..D : \E i \in 0..(N - 1) : P[i] = Pre(p, n)
  /\ \A n \in (D + 1)..Len(p) : \A i \in 0..(N - 1) : P[i] # Pre(p, n)

\* What is known of a path is known from its beginning on.
LEMMA KnownDown ==
  ASSUME NEW V, NEW M, NEW N, NEW tree, NEW P, Shaped(tree, P, N, V, M),
         NEW p, Rooted(p, V), NEW D \in 1..Len(p),
         \E i \in 0..(N - 1) : P[i] = Pre(p, D)
  PROVE  \A n \in 1..D : \E i \in 0..(N - 1) : P[i] = Pre(p, n)
<1>0. p \in Seq(V) /\ Len(p) \in Nat
  BY RootedLen
<1> DEFINE Known(n) == \E i \in 0..(N - 1) : P[i] = Pre(p, n)
           T == {m \in 0..(D - 1) : Known(D - m)}
<1>1. 0 \in T
  <2>1. 0 \in 0..(D - 1) /\ D - 0 = D
    BY ONLY <1>0, D \in 1..Len(p)
  <2>2. Known(D)
    OBVIOUS
  <2> QED BY <2>1, <2>2
<1>2. ASSUME NEW k \in 0..((D - 1) - 1), k \in T PROVE k + 1 \in T
  <2>1. PICK n : n = D - (k + 1)
    OBVIOUS
  <2>2. n \in 1..(Len(p) - 1) /\ n + 1 = D - k /\ k + 1 \in 0..(D - 1)
    BY ONLY <1>0, <2>1, D \in 1..Len(p), k \in 0..((D - 1) - 1)
  <2>3. Known(n + 1)
    <3>1. Known(D - k)
      BY <1>2
    <3> HIDE DEF Known
    <3> QED BY <3>1, <2>2
  <2>4. PICK c \in 0..(N - 1) : P[c] = Pre(p, n + 1)
    BY <2>3
  <2>5. \E q \in 0..(N - 1) : P[q] = Pre(p, n)
    <3>1. p \in Seq(V) /\ n \in 1..(Len(p) - 1) /\ c \in 0..(N - 1) /\ P[c] = Pre(p, n + 1)
      BY <1>0, <2>2, <2>4
    <3> QED BY ONLY <3>1, Shaped(tree, P, N, V, M), KnownAbove
  <2>6. Known(D - (k + 1))
    BY <2>1, <2>5
  <2> HIDE DEF Known
  <2> QED BY <2>2, <2>6
<1>3. 0..(D - 1) \subseteq T
  <2>1. D - 1 \in Nat
    BY ONLY <1>0, D \in 1..Len(p)
  <2> HIDE DEF T
  <2> QED BY <2>1, <1>1, <1>2, UpTo
<1>4. ASSUME NEW n \in 1..D PROVE Known(n)
  <2>1. D - n \in 0..(D - 1) /\ D - (D - n) = n
    BY ONLY <1>0, D \in 1..Len(p), n \in 1..D
  <2>2. D - n \in T
    <3> HIDE DEF T
    <3> QED BY <2>1, <1>3
  <2>3. Known(D - (D - n))
    BY <2>2
  <2> HIDE DEF Known
  <2> QED BY <2>1, <2>3
<1> QED BY <1>4

LEMMA DepthIs ==
  ASSUME NEW V, NEW M, NEW N, NEW tree, NEW P, Shaped(tree, P, N, V, M),
         NEW p, Rooted(p, V)
  PROVE  DepthFacts(tree, P, N, p, Depth(tree, p))
<1>0. p \in Seq(V) /\ Len(p) \in Nat /\ Len(p) >= 1
  BY RootedLen
<1>1. PICK at : at = Passed(tree, p)
  OBVIOUS
<1>2. \A n \in 1..Len(p) : Leads(at, P, N, p, n)
  BY <1>1, WalkLeads
<1>3. PICK T : T = {n \in 1..Len(p) : at[n] # NULL}
  OBVIOUS
<1>4. \A i \in 0..(N - 1) : i # NULL
  BY DEF NULL
<1>5. \A n \in T : n \in 1..Len(p) /\ at[n] \in 0..(N - 1) /\ P[at[n]] = Pre(p, n)
  BY <1>2, <1>3 DEF Leads
<1>6. \A n \in 1..Len(p) : n \notin T => \A i \in 0..(N - 1) : P[i] # Pre(p, n)
  <2>1. ASSUME NEW n \in 1..Len(p), n \notin T PROVE \A i \in 0..(N - 1) : P[i] # Pre(p, n)
    <3>1. at[n] = NULL
      BY <1>3, <2>1
    <3>2. Leads(at, P, N, p, n)
      BY <1>2
    <3> QED BY <3>1, <3>2, <1>4 DEF Leads
  <2> QED BY <2>1
<1>7. 1 \in T
  <2>1. P[0] = <<"">> /\ Pre(p, 1) = <<"">>
    <3>1. p[1] = ""
      BY DEF Rooted
    <3>2. P[0] = <<"">>
      BY DEF Shaped
    <3> QED BY <1>0, <3>1, <3>2, PreFirst
  <2>2. N \in Nat \ {0}
    BY DEF Shaped
  <2>3. 0 \in 0..(N - 1)
    BY ONLY <2>2
  <2>4. 1 \in 1..Len(p)
    BY ONLY <1>0
  <2> QED BY <2>1, <2>3, <2>4, <1>6
<1>8. PICK D \in T : \A k \in T : D >= k
  <2>1. T \subseteq 1..Len(p) /\ T # {}
    BY <1>5, <1>7
  <2> QED BY ONLY <2>1, <1>0, GreatestUpTo
<1>9. Max(T) \in T /\ \A k \in T : Max(T) >= k
  BY <1>8 DEF Max
<1>10. PICK m : m = Max(T)
  OBVIOUS
<1>11. Depth(tree, p) = m /\ Deepest(tree, p) = at[m]
  BY <1>1, <1>3, <1>10 DEF Depth, Deepest
<1>12. m \in 1..Len(p) /\ at[m] \in 0..(N - 1) /\ P[at[m]] = Pre(p, m)
  BY <1>5, <1>9, <1>10
<1>13. \A n \in (m + 1)..Len(p) : \A i \in 0..(N - 1) : P[i] # Pre(p, n)
  <2>1. ASSUME NEW n \in (m + 1)..Len(p) PROVE n \in 1..Len(p) /\ n \notin T
    <3>1. n \in 1..Len(p) /\ ~ (m >= n)
      BY ONLY <1>0, <1>12, n \in (m + 1)..Len(p)
    <3> QED BY <3>1, <1>9, <1>10
  <2> QED BY <2>1, <1>6
<1>14. \A n \in 1..m : \E i \in 0..(N - 1) : P[i] = Pre(p, n)
  <2>1. \E i \in 0..(N - 1) : P[i] = Pre(p, m)
    BY <1>12
  <2> QED BY <2>1, <1>12, KnownDown
<1> QED BY <1>11, <1>12, <1>13, <1>14 DEF DepthFacts

\* A known path is found, to its end.
LEMMA KnownPath ==
  ASSUME NEW V, NEW M, NEW N, NEW tree, NEW P, Shaped(tree, P, N, V, M),
         NEW p, Rooted(p, V), NEW i \in 0..(N - 1), P[i] = p
  PROVE  Depth(tree, p) = Len(p) /\ Deepest(tree, p) = i
<1>0. p \in Seq(V) /\ Len(p) \in Nat /\ Len(p) >= 1
  BY RootedLen
<1>1. PICK D : D = Depth(tree, p)
  OBVIOUS
<1>2. DepthFacts(tree, P, N, p, D)
  BY <1>1, DepthIs
<1>3. D \in 1..Len(p) /\ Deepest(tree, p) \in 0..(N - 1) /\ P[Deepest(tree, p)] = Pre(p, D)
  BY <1>2 DEF DepthFacts
<1>4. Pre(p, Len(p)) = p
  BY <1>0, PreAll
<1>5. D = Len(p)
  <2>1. SUFFICES ASSUME D # Len(p) PROVE FALSE
    OBVIOUS
  <2>2. Len(p) \in (D + 1)..Len(p)
    BY ONLY <1>0, <1>3, <2>1
  <2>3. P[i] # Pre(p, Len(p))
    BY <1>2, <2>2 DEF DepthFacts
  <2> QED BY <2>3, <1>4
<1>6. P[Deepest(tree, p)] = P[i]
  BY <1>3, <1>4, <1>5
<1>7. Apart(P, N)
  BY DEF Shaped
<1>8. Deepest(tree, p) = i
  BY <1>3, <1>6, <1>7 DEF Apart
<1> QED BY <1>1, <1>5, <1>8

\* The longest known beginning.
AboveIn(K, p) == CHOOSE q \in K : /\ IsPrefix(q, p)
                                  /\ \A r \in K : IsPrefix(r, p) => IsPrefix(r, q)

LEMMA LongestKnown ==
  ASSUME NEW V, NEW M, NEW N, NEW tree, NEW P, Shaped(tree, P, N, V, M),
         NEW p, Rooted(p, V), NEW K, K = {P[i] : i \in 0..(N - 1)}
  PROVE  AboveIn(K, p) = Pre(p, Depth(tree, p))
<1>0. p \in Seq(V) /\ Len(p) \in Nat /\ Len(p) >= 1
  BY RootedLen
<1>1. PICK D : D = Depth(tree, p)
  OBVIOUS
<1>2. DepthFacts(tree, P, N, p, D)
  BY <1>1, DepthIs
<1>3. D \in 1..Len(p) /\ D \in 0..Len(p) /\ Pre(p, D) \in K
  BY <1>2 DEF DepthFacts
<1>4. \A r \in K : r \in Seq(V) /\ Len(r) >= 1
  BY NotEmpty
<1>5. Len(p) \in 0..Len(p) /\ Pre(p, Len(p)) = p
  BY <1>0, PreAll
<1>6. IsPrefix(Pre(p, D), p)
  BY <1>0, <1>3, <1>5, PreIsPrefix
<1>7. ASSUME NEW r \in K, IsPrefix(r, p) PROVE IsPrefix(r, Pre(p, D))
  <2>1. Len(r) \in 0..Len(p) /\ r = Pre(p, Len(r))
    BY <1>0, <1>4, <1>7, PrefixIs
  <2>2. Len(r) >= 1
    BY <1>4
  <2>3. ~ (Len(r) \in (D + 1)..Len(p))
    BY <1>2, <2>1 DEF DepthFacts
  <2>4. Len(r) \in 0..D
    BY ONLY <1>0, <1>3, <2>1, <2>2, <2>3
  <2>5. IsPrefix(Pre(p, Len(r)), Pre(p, D))
    BY <1>0, <1>3, <2>4, PreIsPrefix
  <2> QED BY <2>1, <2>5
<1>8. ASSUME NEW q \in K, IsPrefix(q, p), \A r \in K : IsPrefix(r, p) => IsPrefix(r, q)
      PROVE  q = Pre(p, D)
  <2>1. IsPrefix(Pre(p, D), q) /\ IsPrefix(q, Pre(p, D))
    BY <1>3, <1>6, <1>7, <1>8
  <2>2. q \in Seq(V) /\ Pre(p, D) \in Seq(V)
    BY <1>3, <1>4
  <2>3. PICK s : s = Pre(p, D)
    OBVIOUS
  <2>4. Len(q) <= Len(s) /\ Len(s) <= Len(q) /\ SubSeq(s, 1, Len(s)) = SubSeq(q, 1, Len(s))
    BY <2>1, <2>3 DEF IsPrefix
  <2>5. SubSeq(s, 1, Len(s)) = s /\ SubSeq(q, 1, Len(q)) = q
    BY <2>2, <2>3, SubSeqFull
  <2>6. Len(q) \in Nat /\ Len(s) \in Nat
    BY <2>2, <2>3
  <2>7. Len(q) = Len(s)
    BY ONLY <2>4, <2>6
  <2> QED BY <2>3, <2>4, <2>5, <2>7
<1> QED BY <1>1, <1>3, <1>6, <1>7, <1>8 DEF AboveIn

-----------------------------------------------------------------------------
(* A tree with one child more *)

LEMMA NodesCount ==
  ASSUME NEW V, NEW M, NEW N, NEW tree, NEW P, Shaped(tree, P, N, V, M)
  PROVE  N \in Nat \ {0} /\ DOMAIN tree = 0..(N - 1) /\ Cardinality(DOMAIN tree) = N
<1>1. N \in Nat \ {0}
  BY DEF Shaped
<1>2. DOMAIN tree = 0..(N - 1)
  BY DEF Shaped
<1>3. 0 \in Int /\ N - 1 \in Int /\ ~ (0 > N - 1) /\ (N - 1) - 0 + 1 = N
  BY ONLY <1>1
<1>4. Cardinality(0..(N - 1)) = IF 0 > N - 1 THEN 0 ELSE (N - 1) - 0 + 1
  BY ONLY <1>3, FS_Interval
<1> QED BY <1>1, <1>2, <1>3, <1>4

LEMMA RangeOfAppend ==
  ASSUME NEW S, NEW s \in Seq(S), NEW e \in S
  PROVE  Range(Append(s, e)) = Range(s) \cup {e}
<1>1. PICK t : t = Append(s, e)
  OBVIOUS
<1>2. /\ t \in Seq(S) /\ Len(t) = Len(s) + 1 /\ Len(s) \in Nat
      /\ \A i \in 1..Len(s) : t[i] = s[i]
      /\ t[Len(s) + 1] = e
  BY <1>1, AppendProperties
<1>3. DOMAIN t = 1..(Len(s) + 1) /\ DOMAIN s = 1..Len(s)
  BY <1>2
<1>4. \A i \in 1..(Len(s) + 1) : i \in 1..Len(s) \/ i = Len(s) + 1
  BY ONLY <1>2
<1>5. 1..Len(s) \subseteq 1..(Len(s) + 1) /\ Len(s) + 1 \in 1..(Len(s) + 1)
  BY ONLY <1>2
<1>6. ASSUME NEW c \in Range(t) PROVE c \in Range(s) \cup {e}
  <2>1. PICK i \in 1..(Len(s) + 1) : c = t[i]
    BY <1>3 DEF Range
  <2>2. CASE i \in 1..Len(s)
    BY <2>1, <2>2, <1>2, <1>3 DEF Range
  <2>3. CASE i = Len(s) + 1
    BY <2>1, <2>3, <1>2
  <2> QED BY <2>2, <2>3, <1>4
<1>7. ASSUME NEW c \in Range(s) PROVE c \in Range(t)
  <2>1. PICK i \in 1..Len(s) : c = s[i]
    BY <1>3 DEF Range
  <2>2. i \in DOMAIN t /\ c = t[i]
    BY <2>1, <1>2, <1>3, <1>5
  <2> QED BY <2>2 DEF Range
<1>8. e \in Range(t)
  <2>1. Len(s) + 1 \in DOMAIN t /\ e = t[Len(s) + 1]
    BY <1>2, <1>3, <1>5
  <2> QED BY <2>1 DEF Range
<1> QED BY <1>1, <1>6, <1>7, <1>8

\* A list without repetitions stays one when something new is added.
LEMMA OnceAppended ==
  ASSUME NEW S, NEW s \in Seq(S), NEW e \in S, e \notin Range(s),
         NoRepeat(s), NEW t, t = Append(s, e)
  PROVE  NoRepeat(t)
<1>2. /\ t \in Seq(S) /\ Len(t) = Len(s) + 1 /\ Len(s) \in Nat
      /\ \A i \in 1..Len(s) : t[i] = s[i]
      /\ t[Len(s) + 1] = e
  BY AppendProperties
<1>3. DOMAIN t = 1..(Len(s) + 1) /\ DOMAIN s = 1..Len(s)
  BY <1>2
<1>4. \A i \in 1..(Len(s) + 1) : i \in 1..Len(s) \/ i = Len(s) + 1
  BY ONLY <1>2
<1>5. \A i \in 1..Len(s) : s[i] # e
  BY <1>3 DEF Range
<1>6. ASSUME NEW i \in DOMAIN t, NEW j \in DOMAIN t, t[i] = t[j] PROVE i = j
  <2>1. (i \in 1..Len(s) \/ i = Len(s) + 1) /\ (j \in 1..Len(s) \/ j = Len(s) + 1)
    BY <1>3, <1>4
  <2>2. CASE i \in 1..Len(s) /\ j \in 1..Len(s)
    BY <2>2, <1>2, <1>3, <1>6 DEF NoRepeat
  <2>3. CASE i \in 1..Len(s) /\ j = Len(s) + 1
    BY <2>3, <1>2, <1>5, <1>6
  <2>4. CASE i = Len(s) + 1 /\ j \in 1..Len(s)
    BY <2>4, <1>2, <1>5, <1>6
  <2>5. CASE i = Len(s) + 1 /\ j = Len(s) + 1
    BY <2>5
  <2> QED BY <2>1, <2>2, <2>3, <2>4, <2>5
<1> QED BY <1>6 DEF NoRepeat

LEMMA SeqWider ==
  ASSUME NEW A, NEW B, A \subseteq B, NEW z \in Seq(A)
  PROVE  z \in Seq(B)
OBVIOUS

\* A tree's node in a larger tree.
LEMMA NodeGrows ==
  ASSUME NEW V, NEW M, NEW N \in Nat, NEW x \in NodeOf(V, M, N)
  PROVE  x \in NodeOf(V, M, N + 1)
<1>1. 0..(N - 1) \subseteq 0..((N + 1) - 1)
  OBVIOUS
<1>2. x.children \in Seq(0..(N - 1))
  BY DEF NodeOf
<1>3. x.children \in Seq(0..((N + 1) - 1))
  BY ONLY <1>1, <1>2
<1> QED BY <1>3 DEF NodeOf

LongerPaths(P, N, s) == [i \in 0..N |-> IF i = N THEN s ELSE P[i]]

\* What the node that is added changes.
Grew(W, tree, q, v, N, V, M) ==
  /\ W \in [0..N -> NodeOf(V, M, N + 1)] /\ W[N] = Fresh(v)
  /\ \A i \in 0..(N - 1) :
       /\ W[i].name = tree[i].name /\ W[i].mounted = tree[i].mounted
       /\ i # q => W[i].children = tree[i].children
  /\ W[q].children = Append(tree[q].children, N)

LEMMA WithChildNodes ==
  ASSUME NEW V, NEW M, NEW N, NEW tree, NEW P, Shaped(tree, P, N, V, M),
         NEW q \in 0..(N - 1), NEW v \in V, <<0, 0>> \in M, NEW W, W = WithChild(tree, q, v)
  PROVE  Grew(W, tree, q, v, N, V, M)
<1>1. N \in Nat \ {0} /\ DOMAIN tree = 0..(N - 1) /\ Cardinality(DOMAIN tree) = N
  BY NodesCount
<1>2. 0..(N - 1) \cup {N} = 0..N /\ N \in 0..N /\ 0..(N - 1) \subseteq 0..N
      /\ \A i \in 0..(N - 1) : i # N
  BY ONLY <1>1
<1>3. W = [i \in 0..N |-> IF i = N THEN Fresh(v)
                          ELSE IF i = q THEN [tree[i] EXCEPT !.children = Append(@, N)]
                          ELSE tree[i]]
  BY <1>1, <1>2 DEF WithChild
<1>4. W[N] = Fresh(v)
  BY <1>2, <1>3
<1>5. tree \in [0..(N - 1) -> NodeOf(V, M, N)]
  BY DEF Shaped
<1>6. W[q] = [tree[q] EXCEPT !.children = Append(@, N)]
  BY <1>2, <1>3
<1>7. \A i \in 0..(N - 1) : i # q => W[i] = tree[i]
  BY <1>2, <1>3
<1>8. Fresh(v) \in NodeOf(V, M, N + 1)
  <2>1. << >> \in Seq(0..((N + 1) - 1))
    OBVIOUS
  <2> QED BY <2>1 DEF Fresh, NodeOf
<1>9. PICK x : x = tree[q]
  OBVIOUS
<1>10. x \in NodeOf(V, M, N) /\ W[q] = [x EXCEPT !.children = Append(@, N)]
  BY <1>5, <1>6, <1>9
<1>11. x \in NodeOf(V, M, N + 1)
  BY <1>1, <1>10, NodeGrows
<1>12. Append(x.children, N) \in Seq(0..((N + 1) - 1))
  <2>1. x.children \in Seq(0..((N + 1) - 1))
    BY <1>11 DEF NodeOf
  <2>2. N \in 0..((N + 1) - 1)
    BY ONLY <1>1
  <2> QED BY <2>1, <2>2, AppendProperties
<1>13. /\ W[q] \in NodeOf(V, M, N + 1) /\ W[q].name = x.name /\ W[q].mounted = x.mounted
       /\ W[q].children = Append(x.children, N)
  BY <1>10, <1>11, <1>12 DEF NodeOf
<1>14. ASSUME NEW i \in 0..(N - 1), i # q PROVE W[i] \in NodeOf(V, M, N + 1)
  <2>1. tree[i] \in NodeOf(V, M, N)
    BY <1>5
  <2>2. tree[i] \in NodeOf(V, M, N + 1)
    BY <1>1, <2>1, NodeGrows
  <2> QED BY <2>2, <1>7, <1>14
<1>15. \A i \in 0..N : W[i] \in NodeOf(V, M, N + 1)
  <2>1. \A i \in 0..N : i = N \/ i \in 0..(N - 1)
    BY ONLY <1>1
  <2> QED BY <2>1, <1>4, <1>8, <1>13, <1>14
<1>16. W \in [0..N -> NodeOf(V, M, N + 1)]
  BY <1>3, <1>15
<1> QED BY <1>4, <1>7, <1>9, <1>13, <1>16 DEF Grew

LEMMA ChildAdded ==
  ASSUME NEW V, NEW M, NEW N, NEW tree, NEW P, Shaped(tree, P, N, V, M),
         NEW q \in 0..(N - 1), NEW v \in V, <<0, 0>> \in M,
         NEW s, s = Append(P[q], v), \A c \in 0..(N - 1) : P[c] # s
  PROVE  Shaped(WithChild(tree, q, v), LongerPaths(P, N, s), N + 1, V, M)
<1>1. N \in Nat \ {0}
  BY DEF Shaped
<1>2. /\ (N + 1) - 1 = N /\ N + 1 \in Nat \ {0} /\ N \in 0..N /\ 0..(N - 1) \subseteq 0..N
      /\ 0 \in 0..(N - 1) /\ 0 # N /\ q # N /\ q \in 0..N /\ q < N
      /\ \A i \in 0..N : i = N \/ i \in 0..(N - 1)
      /\ \A i \in 0..(N - 1) : i # N
      /\ \A i \in 1..N : i = N \/ i \in 1..(N - 1)
      /\ N \notin 0..(N - 1)
  BY ONLY <1>1, q \in 0..(N - 1)
<1>3. /\ P \in [0..(N - 1) -> Seq(V)] /\ P[0] = <<"">>
      /\ Linked(tree, P, N) /\ Owned(tree, N) /\ Once(tree, N) /\ Apart(P, N)
      /\ tree \in [0..(N - 1) -> NodeOf(V, M, N)]
  BY DEF Shaped
<1>4. PICK W, Q : W = WithChild(tree, q, v) /\ Q = LongerPaths(P, N, s)
  OBVIOUS
<1>5. /\ W \in [0..N -> NodeOf(V, M, N + 1)] /\ W[N] = Fresh(v)
      /\ \A i \in 0..(N - 1) :
           /\ W[i].name = tree[i].name /\ W[i].mounted = tree[i].mounted
           /\ i # q => W[i].children = tree[i].children
      /\ W[q].children = Append(tree[q].children, N)
  <2>1. Grew(W, tree, q, v, N, V, M)
    BY <1>4, WithChildNodes
  <2> QED BY <2>1 DEF Grew
<1>6. /\ Q[N] = s /\ (\A i \in 0..(N - 1) : Q[i] = P[i])
      /\ Q = [i \in 0..N |-> IF i = N THEN s ELSE P[i]]
  BY <1>2, <1>4 DEF LongerPaths
<1>7. s \in Seq(V)
  <2>1. P[q] \in Seq(V)
    BY <1>3
  <2> QED BY <2>1, AppendProperties
<1>8. Q \in [0..N -> Seq(V)]
  BY <1>3, <1>6, <1>7, <1>2
<1>9. Q[0] = <<"">>
  BY <1>2, <1>3, <1>6
<1>10. tree[q].children \in Seq(0..(N - 1)) /\ tree[q].children \in Seq(0..N)
  <2>1. tree[q].children \in Seq(0..(N - 1))
    BY <1>3 DEF NodeOf
  <2>2. PICK z : z = tree[q].children
    OBVIOUS
  <2>3. z \in Seq(0..N)
    <3>1. z \in Seq(0..(N - 1)) /\ 0..(N - 1) \subseteq 0..N
      BY <2>1, <2>2, <1>2
    <3> QED BY ONLY <3>1, SeqWider
  <2> QED BY <2>1, <2>2, <2>3
<1>11. Range(W[q].children) = Range(tree[q].children) \cup {N}
  <2>1. PICK z : z = tree[q].children
    OBVIOUS
  <2>2. z \in Seq(0..N) /\ N \in 0..N /\ W[q].children = Append(z, N)
    BY <2>1, <1>2, <1>5, <1>10
  <2>3. Range(Append(z, N)) = Range(z) \cup {N}
    BY ONLY <2>2, RangeOfAppend
  <2> QED BY <2>1, <2>2, <2>3
<1>12. W[N].children = << >> /\ W[N].name = v /\ Range(W[N].children) = {}
       /\ DOMAIN W[N].children = {}
  <2>1. W[N].children = << >> /\ W[N].name = v
    BY <1>5 DEF Fresh
  <2> QED BY <2>1 DEF Range
<1>13. ASSUME NEW r \in 0..N, NEW c \in Range(W[r].children)
       PROVE  r < c /\ Q[c] = Append(Q[r], W[c].name)
  <2>1. r # N /\ r \in 0..(N - 1)
    BY <1>2, <1>12, <1>13
  <2>2. Q[r] = P[r]
    BY <2>1, <1>6
  <2>3. CASE c \in Range(tree[r].children)
    <3>1. c \in 0..(N - 1) /\ r < c /\ P[c] = Append(P[r], tree[c].name)
      BY <2>1, <2>3, ChildOf
    <3> QED BY <3>1, <2>2, <1>5, <1>6
  <2>4. CASE r = q /\ c = N
    BY <2>2, <2>4, <1>2, <1>6, <1>12
  <2>5. r # q => c \in Range(tree[r].children)
    BY <2>1, <1>5, <1>13
  <2>6. r = q => c \in Range(tree[r].children) \/ c = N
    BY <1>11, <1>13
  <2> QED BY <2>3, <2>4, <2>5, <2>6
<1>14. Linked(W, Q, N + 1)
  BY <1>2, <1>13 DEF Linked
<1>15. ASSUME NEW c \in 1..N PROVE \E r \in 0..N : c \in Range(W[r].children)
  <2>1. CASE c = N
    BY <2>1, <1>2, <1>11
  <2>2. CASE c \in 1..(N - 1)
    <3>1. PICK r \in 0..(N - 1) : c \in Range(tree[r].children)
      BY <2>2, <1>3 DEF Owned
    <3>2. c \in Range(W[r].children)
      <4>1. CASE r = q
        BY <3>1, <4>1, <1>11
      <4>2. CASE r # q
        BY <3>1, <4>2, <1>5
      <4> QED BY <4>1, <4>2
    <3> QED BY <3>2, <1>2
  <2> QED BY <2>1, <2>2, <1>2
<1>16. Owned(W, N + 1)
  BY <1>2, <1>15 DEF Owned
<1>17. ASSUME NEW r \in 0..N
       PROVE  NoRepeat(W[r].children)
  <2>1. CASE r = N
    BY <2>1, <1>12 DEF NoRepeat
  <2>2. CASE r = q
    <3>1. N \notin Range(tree[q].children)
      <4>1. \A c \in Range(tree[q].children) : c \in 0..(N - 1)
        BY ChildOf
      <4> QED BY <4>1, <1>2
    <3>2. NoRepeat(tree[q].children)
      BY <1>3 DEF Once
    <3>3. PICK z, t : z = tree[q].children /\ t = W[q].children
      OBVIOUS
    <3>4. /\ z \in Seq(0..N) /\ N \in 0..N /\ N \notin Range(z) /\ t = Append(z, N)
          /\ NoRepeat(z)
      BY <3>1, <3>2, <3>3, <1>2, <1>5, <1>10
    <3>5. NoRepeat(t)
      BY ONLY <3>4, OnceAppended
    <3> QED BY <2>2, <3>3, <3>5
  <2>3. CASE r # N /\ r # q
    <3>1. r \in 0..(N - 1) /\ W[r].children = tree[r].children
      BY <2>3, <1>2, <1>5
    <3> QED BY <3>1, <1>3 DEF Once
  <2> QED BY <2>1, <2>2, <2>3
<1>18. Once(W, N + 1)
  BY <1>2, <1>17 DEF Once
<1>19. Apart(Q, N + 1)
  <2>1. ASSUME NEW a \in 0..N, NEW b \in 0..N, Q[a] = Q[b] PROVE a = b
    <3>1. (a = N \/ a \in 0..(N - 1)) /\ (b = N \/ b \in 0..(N - 1))
      BY <1>2
    <3>2. a = N /\ b \in 0..(N - 1) => FALSE
      BY <2>1, <1>6
    <3>3. b = N /\ a \in 0..(N - 1) => FALSE
      BY <2>1, <1>6
    <3>4. a \in 0..(N - 1) /\ b \in 0..(N - 1) => a = b
      BY <2>1, <1>3, <1>6 DEF Apart
    <3> QED BY <3>1, <3>2, <3>3, <3>4
  <2> QED BY <2>1, <1>2 DEF Apart
<1>20. /\ N + 1 \in Nat \ {0}
       /\ W \in [0..((N + 1) - 1) -> NodeOf(V, M, N + 1)]
       /\ Q \in [0..((N + 1) - 1) -> Seq(V)]
  BY <1>2, <1>5, <1>8
<1>21. Shaped(W, Q, N + 1, V, M)
  BY <1>9, <1>14, <1>16, <1>18, <1>19, <1>20 DEF Shaped
<1> QED BY <1>4, <1>21

\* The three ways of create to go on: at the root, into a child that there is, and
\* into one that it makes.
LEMMA EnteredRoot ==
  ASSUME NEW a, a.id = NULL, NEW v
  PROVE  Entered(a, v) = [id |-> 0, tree |-> a.tree]
BY DEF Entered

LEMMA EnteredKnown ==
  ASSUME NEW V, NEW M, NEW N, NEW tree, NEW P, Shaped(tree, P, N, V, M),
         NEW q \in 0..(N - 1), NEW a, a.id = q, a.tree = tree, NEW v \in V,
         NEW c \in 0..(N - 1), P[c] = Append(P[q], v)
  PROVE  Entered(a, v) = [id |-> c, tree |-> tree]
<1>2. Children(tree, q, v) = {c}
  BY KnownChild
<1>3. a.id # NULL
  BY DEF NULL
<1>4. Min({c}) = c
  <2>1. c \in Int
    OBVIOUS
  <2> QED BY <2>1, MinOfOne
<1> QED BY <1>2, <1>3, <1>4 DEF Entered

LEMMA EnteredNew ==
  ASSUME NEW V, NEW M, NEW N, NEW tree, NEW P, Shaped(tree, P, N, V, M),
         NEW q \in 0..(N - 1), NEW a, a.id = q, a.tree = tree, NEW v \in V,
         \A c \in 0..(N - 1) : P[c] # Append(P[q], v)
  PROVE  Entered(a, v) = [id |-> N, tree |-> WithChild(tree, q, v)]
<1>2. Children(tree, q, v) = {}
  BY UnknownChild
<1>3. a.id # NULL
  BY DEF NULL
<1>4. Cardinality(DOMAIN tree) = N
  BY NodesCount
<1> QED BY <1>2, <1>3, <1>4 DEF Entered

-----------------------------------------------------------------------------
(* What create makes of a tree *)

AllTrees(V, M) == UNION {[0..(m - 1) -> NodeOf(V, M, m)] : m \in Nat}
OnTheWay(a, P, N, V, M) == Shaped(a.tree, P, N, V, M) /\ a.id \in 0..(N - 1) \cup {NULL}
Places(V, M) == {a \in [id : Int, tree : AllTrees(V, M)] : \E P, N : OnTheWay(a, P, N, V, M)}

LEMMA InPlaces ==
  ASSUME NEW V, NEW M, NEW N, NEW P, NEW id, NEW tree, NEW a,
         a = [id |-> id, tree |-> tree], Shaped(tree, P, N, V, M),
         id \in 0..(N - 1) \cup {NULL}
  PROVE  a \in Places(V, M)
<1>1. N \in Nat
  BY DEF Shaped
<1>2. tree \in [0..(N - 1) -> NodeOf(V, M, N)]
  BY DEF Shaped
<1>3. tree \in AllTrees(V, M)
  BY <1>1, <1>2 DEF AllTrees
<1>4. id \in Int
  BY DEF NULL
<1>5. a \in [id : Int, tree : AllTrees(V, M)] /\ a.id = id /\ a.tree = tree
  BY <1>3, <1>4
<1>6. OnTheWay(a, P, N, V, M)
  BY <1>5 DEF OnTheWay
<1> QED BY <1>5, <1>6 DEF Places

LEMMA PlacesClosed ==
  ASSUME NEW V, NEW M, <<0, 0>> \in M, NEW a \in Places(V, M), NEW v \in V
  PROVE  Entered(a, v) \in Places(V, M)
<1>1. PICK P, N : OnTheWay(a, P, N, V, M)
  BY DEF Places
<1>2. Shaped(a.tree, P, N, V, M) /\ a.id \in 0..(N - 1) \cup {NULL}
  BY <1>1 DEF OnTheWay
<1>3. N \in Nat \ {0}
  BY <1>2 DEF Shaped
<1>4. 0 \in 0..(N - 1) \cup {NULL} /\ N \in 0..((N + 1) - 1) \cup {NULL}
  BY ONLY <1>3
<1>5. CASE a.id = NULL
  <2>1. Entered(a, v) = [id |-> 0, tree |-> a.tree]
    BY <1>5, EnteredRoot
  <2> QED BY <2>1, <1>2, <1>4, InPlaces
<1>8. PICK q, tree : q = a.id /\ tree = a.tree
  OBVIOUS
<1>9. Shaped(tree, P, N, V, M)
  BY <1>2, <1>8
<1>6. CASE q \in 0..(N - 1) /\ \E c \in 0..(N - 1) : P[c] = Append(P[q], v)
  <2>1. PICK c \in 0..(N - 1) : P[c] = Append(P[q], v)
    BY <1>6
  <2>2. Entered(a, v) = [id |-> c, tree |-> tree]
    <3>1. q \in 0..(N - 1) /\ a.id = q /\ a.tree = tree
      BY <1>6, <1>8
    <3> QED BY <3>1, <1>9, <2>1, EnteredKnown
  <2>3. c \in 0..(N - 1) \cup {NULL}
    OBVIOUS
  <2> QED BY <2>2, <2>3, <1>9, InPlaces
<1>7. CASE q \in 0..(N - 1) /\ \A c \in 0..(N - 1) : P[c] # Append(P[q], v)
  <2>1. PICK W : W = WithChild(tree, q, v)
    OBVIOUS
  <2>2. Entered(a, v) = [id |-> N, tree |-> W]
    BY <1>7, <1>8, <1>9, <2>1, EnteredNew
  <2>3. PICK s : s = Append(P[q], v)
    OBVIOUS
  <2>4. Shaped(W, LongerPaths(P, N, s), N + 1, V, M)
    BY <1>7, <1>9, <2>1, <2>3, ChildAdded
  <2> QED BY <2>2, <2>4, <1>4, InPlaces
<1> QED BY <1>2, <1>5, <1>6, <1>7, <1>8

MakeEquation(at, tree, p) ==
  at = [n \in 0..Len(p) |-> IF n = 0 THEN [id |-> NULL, tree |-> tree]
                            ELSE Entered(at[n - 1], p[n])]

LEMMA MakeExists ==
  ASSUME NEW V, NEW M, NEW N, NEW tree, NEW P, Shaped(tree, P, N, V, M), <<0, 0>> \in M,
         NEW p \in Seq(V)
  PROVE  \E at : MakeEquation(at, tree, p)
<1>0. Len(p) \in Nat
  OBVIOUS
<1>1. PICK L, S : L = Len(p) /\ S = Places(V, M)
  OBVIOUS
<1>2. PICK b : b = [id |-> NULL, tree |-> tree]
  OBVIOUS
<1>3. b \in S
  <2>1. NULL \in 0..(N - 1) \cup {NULL}
    OBVIOUS
  <2> QED BY <2>1, <1>1, <1>2, InPlaces
<1> DEFINE g == [x \in S \X (1..L) |-> Entered(x[1], p[x[2]])]
<1>4. g \in [S \X (1..L) -> S]
  <2>1. ASSUME NEW x \in S \X (1..L) PROVE Entered(x[1], p[x[2]]) \in S
    <3>1. x[1] \in Places(V, M) /\ x[2] \in 1..Len(p)
      BY <1>1
    <3>2. p[x[2]] \in V
      BY <3>1
    <3> QED BY <3>1, <3>2, <1>1, PlacesClosed
  <2> QED BY <2>1
<1>5. L \in Nat
  BY <1>0, <1>1
<1>6. PICK f : Iterated(f, b, g, L, S)
  <2> HIDE DEF g
  <2> QED BY <1>3, <1>4, <1>5, Iterates
<1>7. f \in [0..L -> S] /\ f[0] = b /\ \A k \in 1..L : f[k] = g[<<f[k - 1], k>>]
  <2> HIDE DEF g
  <2> QED BY <1>6 DEF Iterated
<1>8. ASSUME NEW k \in 0..L PROVE f[k] = IF k = 0 THEN b ELSE Entered(f[k - 1], p[k])
  <2>1. CASE k = 0
    BY <2>1, <1>7
  <2>2. CASE k # 0
    <3>1. k \in 1..L /\ k - 1 \in 0..L
      BY ONLY <2>2, <1>5, k \in 0..L
    <3>2. f[k - 1] \in S
      BY <3>1, <1>7
    <3>3. <<f[k - 1], k>> \in S \X (1..L)
      BY <3>1, <3>2
    <3>4. g[<<f[k - 1], k>>] = Entered(f[k - 1], p[k])
      BY <3>3
    <3>5. f[k] = g[<<f[k - 1], k>>]
      <4> HIDE DEF g
      <4> QED BY <3>1, <1>7
    <3> QED BY <2>2, <3>4, <3>5
  <2> QED BY <2>1, <2>2
<1>9. f = [n \in 0..L |-> IF n = 0 THEN b ELSE Entered(f[n - 1], p[n])]
  <2>1. f = [n \in 0..L |-> f[n]]
    BY <1>7
  <2> QED BY <2>1, <1>8
<1> QED BY <1>1, <1>2, <1>9 DEF MakeEquation

LEMMA MadeSolves ==
  ASSUME NEW V, NEW M, NEW N, NEW tree, NEW P, Shaped(tree, P, N, V, M), <<0, 0>> \in M,
         NEW p \in Seq(V)
  PROVE  \E at : MakeEquation(at, tree, p) /\ Made(tree, p) = at[Len(p)]
<1>1. \E at : MakeEquation(at, tree, p)
  BY MakeExists
<1>2. Made(tree, p) = (CHOOSE at : MakeEquation(at, tree, p))[Len(p)]
  BY DEF Made, MakeEquation
<1>3. PICK at : at = CHOOSE x : MakeEquation(x, tree, p)
  OBVIOUS
<1>4. MakeEquation(at, tree, p)
  BY <1>1, <1>3
<1> QED BY <1>2, <1>3, <1>4

\* How far create has come after n pieces: as long as the path is known the tree is
\* as it was, and each piece more is one node more.
Count(N, D, n) == IF n <= D THEN N ELSE N + (n - D)
Grown(a, Q, K, tree, P, N, V, M, p, D, n) ==
  /\ Shaped(a.tree, Q, K, V, M) /\ K = Count(N, D, n)
  /\ n <= D => a.tree = tree
  /\ a.id \in 0..(K - 1) /\ Q[a.id] = Pre(p, n)
  /\ \A i \in 0..(N - 1) : Q[i] = P[i] /\ a.tree[i].mounted = tree[i].mounted
  /\ \A k \in (D + 1)..n : /\ Q[N + (k - D - 1)] = Pre(p, k)
                           /\ a.tree[N + (k - D - 1)].mounted = <<0, 0>>

\* A piece that is known: the child is entered.
LEMMA GrownInto ==
  ASSUME NEW V, NEW M, NEW N, NEW tree, NEW P, Shaped(tree, P, N, V, M), <<0, 0>> \in M,
         NEW p, Rooted(p, V), NEW D, DepthFacts(tree, P, N, p, D),
         NEW n \in 1..(Len(p) - 1), n + 1 <= D,
         NEW a, NEW Q, NEW K, Grown(a, Q, K, tree, P, N, V, M, p, D, n)
  PROVE  Grown(Entered(a, p[n + 1]), Q, K, tree, P, N, V, M, p, D, n + 1)
<1>0. p \in Seq(V) /\ Len(p) \in Nat /\ D \in 1..Len(p)
  BY RootedLen DEF DepthFacts
<1>1. /\ n <= D /\ n + 1 \in 1..D /\ n \in 0..(Len(p) - 1) /\ n + 1 \in 1..Len(p)
      /\ \A k \in (D + 1)..(n + 1) : FALSE
  BY ONLY <1>0, n \in 1..(Len(p) - 1), n + 1 <= D
<1>2. Count(N, D, n) = N /\ Count(N, D, n + 1) = N
  BY <1>1 DEF Count
<1>3. /\ K = N /\ a.tree = tree /\ Shaped(a.tree, Q, K, V, M)
      /\ a.id \in 0..(K - 1) /\ Q[a.id] = Pre(p, n)
      /\ \A i \in 0..(N - 1) : Q[i] = P[i] /\ a.tree[i].mounted = tree[i].mounted
  BY <1>1, <1>2 DEF Grown
<1>4. PICK q \in 0..(N - 1) : q = a.id /\ Q[q] = Pre(p, n)
  BY <1>3
<1>5. Shaped(tree, Q, N, V, M)
  BY <1>3
<1>6. PICK c \in 0..(N - 1) : P[c] = Pre(p, n + 1)
  BY <1>1 DEF DepthFacts
<1>7. PICK v \in V : v = p[n + 1]
  BY <1>0, <1>1
<1>8. Pre(p, n + 1) = Append(Q[q], v)
  BY <1>0, <1>1, <1>4, <1>7, PreNext
<1>9. Q[c] = Append(Q[q], v)
  BY <1>3, <1>6, <1>8
<1>10. Entered(a, v) = [id |-> c, tree |-> tree]
  <2>1. a.id = q /\ a.tree = tree
    BY <1>3, <1>4
  <2> QED BY <2>1, <1>5, <1>9, EnteredKnown
<1>11. PICK b : b = Entered(a, v)
  OBVIOUS
<1>12. b.id = c /\ b.tree = tree
  BY <1>10, <1>11
<1>13. Q[c] = Pre(p, n + 1)
  BY <1>8, <1>9
<1>14. Grown(b, Q, K, tree, P, N, V, M, p, D, n + 1)
  <2>1. Shaped(b.tree, Q, K, V, M) /\ K = Count(N, D, n + 1)
    BY <1>2, <1>3, <1>12
  <2>2. b.id \in 0..(K - 1) /\ Q[b.id] = Pre(p, n + 1)
    BY <1>3, <1>12, <1>13
  <2>3. \A i \in 0..(N - 1) : Q[i] = P[i] /\ b.tree[i].mounted = tree[i].mounted
    BY <1>3, <1>12
  <2> QED BY <2>1, <2>2, <2>3, <1>1, <1>12 DEF Grown
<1> QED BY <1>7, <1>11, <1>14

\* A piece that is not known: a child is made.
LEMMA GrownBy ==
  ASSUME NEW V, NEW M, NEW N, NEW tree, NEW P, Shaped(tree, P, N, V, M), <<0, 0>> \in M,
         NEW p, Rooted(p, V), NEW D, DepthFacts(tree, P, N, p, D),
         NEW n \in 1..(Len(p) - 1), D <= n,
         NEW a, NEW Q, NEW K, Grown(a, Q, K, tree, P, N, V, M, p, D, n)
  PROVE  \E R : Grown(Entered(a, p[n + 1]), R, K + 1, tree, P, N, V, M, p, D, n + 1)
<1>0. p \in Seq(V) /\ Len(p) \in Nat /\ D \in 1..Len(p)
  BY RootedLen DEF DepthFacts
<1>1. N \in Nat \ {0}
  BY DEF Shaped
<1>2. K = N + (n - D)
  <2>1. K = Count(N, D, n)
    BY DEF Grown
  <2>2. n <= D => n = D /\ n - D = 0 /\ N + (n - D) = N
    BY ONLY <1>0, <1>1, n \in 1..(Len(p) - 1), D <= n
  <2> QED BY <2>1, <2>2 DEF Count
<1>3. /\ n \in 0..(Len(p) - 1) /\ n + 1 \in 1..Len(p) /\ n + 1 \in 0..Len(p)
      /\ n + 1 \in (D + 1)..Len(p) /\ ~ (n + 1 <= D)
      /\ \A k \in (D + 1)..(n + 1) : k \in (D + 1)..n \/ k = n + 1
      /\ n \in 0..Len(p) /\ \A k \in (D + 1)..n : k \in 0..Len(p) /\ k # n + 1
  BY ONLY <1>0, n \in 1..(Len(p) - 1), D <= n
<1>4. /\ K \in Nat \ {0} /\ 0..(N - 1) \subseteq 0..(K - 1) /\ N + ((n + 1) - D - 1) = K
      /\ K + 1 = N + ((n + 1) - D) /\ (K + 1) - 1 = K /\ K \in 0..K
      /\ \A c \in 0..(K - 1) : c \in 0..(N - 1)
           \/ (c - N + D + 1 \in (D + 1)..n /\ c = N + ((c - N + D + 1) - D - 1))
      /\ \A k \in (D + 1)..n : N + (k - D - 1) \in 0..(K - 1)
      /\ \A c \in 0..(K - 1) : c # K
  BY ONLY <1>0, <1>1, <1>2, n \in 1..(Len(p) - 1), D <= n
<1>5. Count(N, D, n + 1) = K + 1
  BY <1>3, <1>4 DEF Count
<1>6. /\ Shaped(a.tree, Q, K, V, M) /\ a.id \in 0..(K - 1) /\ Q[a.id] = Pre(p, n)
      /\ \A i \in 0..(N - 1) : Q[i] = P[i] /\ a.tree[i].mounted = tree[i].mounted
      /\ \A k \in (D + 1)..n : /\ Q[N + (k - D - 1)] = Pre(p, k)
                               /\ a.tree[N + (k - D - 1)].mounted = <<0, 0>>
  BY DEF Grown
<1>7. PICK t : t = a.tree
  OBVIOUS
<1>8. PICK q \in 0..(K - 1) : q = a.id /\ Q[q] = Pre(p, n)
  BY <1>6
<1>9. PICK v \in V : v = p[n + 1]
  BY <1>0, <1>3
<1>10. PICK s : s = Append(Q[q], v)
  OBVIOUS
<1>11. s = Pre(p, n + 1)
  BY <1>0, <1>3, <1>8, <1>9, <1>10, PreNext
<1>12. ASSUME NEW c \in 0..(K - 1) PROVE Q[c] # s
  <2>1. CASE c \in 0..(N - 1)
    <3>1. P[c] # Pre(p, n + 1)
      BY <2>1, <1>3 DEF DepthFacts
    <3> QED BY <3>1, <2>1, <1>6, <1>11
  <2>2. CASE c \notin 0..(N - 1)
    <3>1. PICK k : k = c - N + D + 1
      OBVIOUS
    <3>2. k \in (D + 1)..n /\ c = N + (k - D - 1)
      BY <2>2, <3>1, <1>4
    <3>3. Q[c] = Pre(p, k)
      BY <3>2, <1>6
    <3>4. Pre(p, k) # Pre(p, n + 1)
      BY <3>2, <1>0, <1>3, PreApart
    <3> QED BY <3>3, <3>4, <1>11
  <2> QED BY <2>1, <2>2
<1>13. PICK W, R : W = WithChild(t, q, v) /\ R = LongerPaths(Q, K, s)
  OBVIOUS
<1>14. Shaped(t, Q, K, V, M)
  BY <1>6, <1>7
<1>15. Shaped(W, R, K + 1, V, M)
  BY <1>10, <1>12, <1>13, <1>14, ChildAdded
<1>16. Entered(a, v) = [id |-> K, tree |-> W]
  <2>1. a.id = q /\ a.tree = t /\ \A c \in 0..(K - 1) : Q[c] # Append(Q[q], v)
    BY <1>7, <1>8, <1>10, <1>12
  <2> QED BY <2>1, <1>13, <1>14, EnteredNew
<1>17. Grew(W, t, q, v, K, V, M)
  BY <1>13, <1>14, WithChildNodes
<1>18. W[K].mounted = <<0, 0>> /\ \A i \in 0..(K - 1) : W[i].mounted = t[i].mounted
  BY <1>17 DEF Grew, Fresh
<1>19. R[K] = s /\ \A i \in 0..(K - 1) : R[i] = Q[i]
  <2>1. R = [i \in 0..K |-> IF i = K THEN s ELSE Q[i]]
    BY <1>13 DEF LongerPaths
  <2>2. 0..(K - 1) \subseteq 0..K
    BY ONLY <1>4
  <2> QED BY <2>1, <2>2, <1>4
<1>20. PICK b : b = Entered(a, v)
  OBVIOUS
<1>21. b.id = K /\ b.tree = W
  BY <1>16, <1>20
<1>22. \A i \in 0..(N - 1) : R[i] = P[i] /\ b.tree[i].mounted = tree[i].mounted
  <2>1. ASSUME NEW i \in 0..(N - 1)
        PROVE  R[i] = P[i] /\ b.tree[i].mounted = tree[i].mounted
    <3>1. i \in 0..(K - 1)
      BY <1>4
    <3> QED BY <3>1, <1>6, <1>7, <1>18, <1>19, <1>21
  <2> QED BY <2>1
<1>23. \A k \in (D + 1)..(n + 1) : /\ R[N + (k - D - 1)] = Pre(p, k)
                                   /\ b.tree[N + (k - D - 1)].mounted = <<0, 0>>
  <2>1. ASSUME NEW k \in (D + 1)..(n + 1)
        PROVE  R[N + (k - D - 1)] = Pre(p, k) /\ b.tree[N + (k - D - 1)].mounted = <<0, 0>>
    <3>1. CASE k = n + 1
      <4>1. N + (k - D - 1) = K
        BY <3>1, <1>4
      <4> QED BY <3>1, <4>1, <1>11, <1>18, <1>19, <1>21
    <3>2. CASE k \in (D + 1)..n
      <4>1. PICK j : j = N + (k - D - 1)
        OBVIOUS
      <4>2. j \in 0..(K - 1)
        BY <3>2, <4>1, <1>4
      <4>3. Q[j] = Pre(p, k) /\ t[j].mounted = <<0, 0>>
        BY <3>2, <4>1, <1>6, <1>7
      <4> QED BY <4>1, <4>2, <4>3, <1>18, <1>19, <1>21
    <3> QED BY <3>1, <3>2, <1>3
  <2> QED BY <2>1
<1>24. /\ Shaped(b.tree, R, K + 1, V, M) /\ K + 1 = Count(N, D, n + 1)
       /\ b.id \in 0..((K + 1) - 1) /\ R[b.id] = Pre(p, n + 1)
  BY <1>4, <1>5, <1>11, <1>15, <1>19, <1>21
<1>25. Grown(b, R, K + 1, tree, P, N, V, M, p, D, n + 1)
  BY <1>3, <1>22, <1>23, <1>24 DEF Grown
<1> QED BY <1>9, <1>20, <1>25

LEMMA MadeGrown ==
  ASSUME NEW V, NEW M, NEW N, NEW tree, NEW P, Shaped(tree, P, N, V, M), <<0, 0>> \in M,
         NEW p, Rooted(p, V), NEW D, DepthFacts(tree, P, N, p, D)
  PROVE  \E Q, K : Grown(Made(tree, p), Q, K, tree, P, N, V, M, p, D, Len(p))
<1>0. p \in Seq(V) /\ Len(p) \in Nat /\ Len(p) >= 1 /\ D \in 1..Len(p)
  BY RootedLen DEF DepthFacts
<1>1. PICK at : MakeEquation(at, tree, p) /\ Made(tree, p) = at[Len(p)]
  BY <1>0, MadeSolves
<1>2. at = [n \in 0..Len(p) |-> IF n = 0 THEN [id |-> NULL, tree |-> tree]
                                ELSE Entered(at[n - 1], p[n])]
  BY <1>1 DEF MakeEquation
<1> DEFINE So(n) == \E Q, K : Grown(at[n], Q, K, tree, P, N, V, M, p, D, n)
           T == {m \in 0..(Len(p) - 1) : So(m + 1)}
<1>3. 0 \in T
  <2>0. /\ 0 \in 0..(Len(p) - 1) /\ 0 + 1 = 1 /\ 1 \in 0..Len(p) /\ 0 \in 0..Len(p) /\ 1 # 0
        /\ 1 - 1 = 0 /\ 1 <= D /\ \A k \in (D + 1)..1 : FALSE
    BY ONLY <1>0
  <2>1. at[0] = [id |-> NULL, tree |-> tree]
    BY <2>0, <1>2
  <2>2. at[1] = Entered(at[0], p[1])
    BY <2>0, <1>2
  <2>3. PICK a, b : a = at[0] /\ b = at[1]
    OBVIOUS
  <2>4. a.id = NULL /\ a.tree = tree /\ b = Entered(a, p[1])
    BY <2>1, <2>2, <2>3
  <2>5. b = [id |-> 0, tree |-> tree]
    BY <2>4, EnteredRoot
  <2>6. Pre(p, 1) = <<"">> /\ P[0] = <<"">>
    <3>1. p[1] = ""
      BY DEF Rooted
    <3>2. P[0] = <<"">>
      BY DEF Shaped
    <3> QED BY <1>0, <3>1, <3>2, PreFirst
  <2>7. N \in Nat \ {0}
    BY DEF Shaped
  <2>8. 0 \in 0..(N - 1)
    BY ONLY <2>7
  <2>9. Count(N, D, 1) = N
    BY <2>0 DEF Count
  <2>10. Grown(b, P, N, tree, P, N, V, M, p, D, 1)
    BY <2>0, <2>5, <2>6, <2>8, <2>9 DEF Grown
  <2>11. So(1)
    BY <2>3, <2>10
  <2> HIDE DEF So
  <2> QED BY <2>0, <2>11
<1>4. ASSUME NEW k \in 0..((Len(p) - 1) - 1), k \in T PROVE k + 1 \in T
  <2>1. PICK n : n = k + 1
    OBVIOUS
  <2>2. /\ n \in 1..(Len(p) - 1) /\ n + 1 \in 0..Len(p) /\ n + 1 # 0 /\ (n + 1) - 1 = n
        /\ k + 1 \in 0..(Len(p) - 1) /\ (n + 1 <= D \/ D <= n)
    BY ONLY <1>0, <2>1, k \in 0..((Len(p) - 1) - 1)
  <2>3. So(n)
    BY <1>4, <2>1
  <2>4. PICK Q, K : Grown(at[n], Q, K, tree, P, N, V, M, p, D, n)
    BY <2>3
  <2>5. at[n + 1] = Entered(at[n], p[n + 1])
    BY <2>2, <1>2
  <2>6. PICK a, b : a = at[n] /\ b = at[n + 1]
    OBVIOUS
  <2>7. Grown(a, Q, K, tree, P, N, V, M, p, D, n) /\ b = Entered(a, p[n + 1])
    BY <2>4, <2>5, <2>6
  <2>8. CASE n + 1 <= D
    <3>1. Grown(b, Q, K, tree, P, N, V, M, p, D, n + 1)
      BY <2>2, <2>7, <2>8, GrownInto
    <3> QED BY <3>1, <2>1, <2>2, <2>6
  <2>9. CASE D <= n
    <3>1. \E R : Grown(b, R, K + 1, tree, P, N, V, M, p, D, n + 1)
      BY <2>2, <2>7, <2>9, GrownBy
    <3> QED BY <3>1, <2>1, <2>2, <2>6
  <2> QED BY <2>2, <2>8, <2>9
<1>5. 0..(Len(p) - 1) \subseteq T
  <2>1. Len(p) - 1 \in Nat
    BY ONLY <1>0
  <2> HIDE DEF T
  <2> QED BY <2>1, <1>3, <1>4, UpTo
<1>6. Len(p) - 1 \in 0..(Len(p) - 1) /\ (Len(p) - 1) + 1 = Len(p)
  BY ONLY <1>0
<1>7. So((Len(p) - 1) + 1)
  <2>1. Len(p) - 1 \in T
    <3> HIDE DEF T
    <3> QED BY <1>5, <1>6
  <2> HIDE DEF So
  <2> QED BY <2>1
<1>8. So(Len(p))
  <2> HIDE DEF So
  <2> QED BY <1>6, <1>7
<1> QED BY <1>1, <1>8

-----------------------------------------------------------------------------
(* What a text is stripped to *)

LEMMA ElementOf ==
  ASSUME NEW S, NEW s \in Seq(S), NEW i \in 1..Len(s)
  PROVE  s[i] \in S
OBVIOUS

LEMMA LenNat ==
  ASSUME NEW S, NEW s \in Seq(S)
  PROVE  Len(s) \in Nat
OBVIOUS

LEMMA OnePiece ==
  ASSUME NEW V, NEW e \in V
  PROVE  /\ Append(<< >>, e) \in Seq(V) /\ Len(Append(<< >>, e)) = 1
         /\ Append(<< >>, e)[1] = e /\ Len(Append(<< >>, e)) >= 1
OBVIOUS

LEMMA NoPiece ==
  ASSUME NEW V PROVE << >> \in Seq(V)
OBVIOUS

LEMMA AppendKeeps ==
  ASSUME NEW V, NEW s \in Seq(V), Len(s) >= 1, NEW r, s[1] = r, NEW e \in V
  PROVE  Append(s, e) \in Seq(V) /\ Len(Append(s, e)) >= 1 /\ Append(s, e)[1] = r
<1>1. Len(s) \in Nat
  OBVIOUS
<1>2. 1 \in 1..Len(s)
  BY <1>1
<1>3. /\ Append(s, e) \in Seq(V) /\ Len(Append(s, e)) = Len(s) + 1
      /\ \A i \in 1..Len(s) : Append(s, e)[i] = s[i]
  BY AppendProperties
<1> QED BY <1>1, <1>2, <1>3

LEMMA RootedAppend ==
  ASSUME NEW V, NEW s, Rooted(s, V), NEW e \in V
  PROVE  Rooted(Append(s, e), V)
<1>1. PICK r : r = ""
  OBVIOUS
<1>2. s \in Seq(V) /\ Len(s) >= 1 /\ s[1] = r
  BY <1>1 DEF Rooted
<1>3. Append(s, e) \in Seq(V) /\ Len(Append(s, e)) >= 1 /\ Append(s, e)[1] = r
  BY ONLY <1>2, e \in V, AppendKeeps
<1> QED BY <1>1, <1>3 DEF Rooted

CutOn(t, s, i) == IF t[i] = "/" THEN Append(s, Before(t, i)) ELSE s
CutEquation(cut, t) ==
  cut = [i \in 0..Len(t) |-> IF i = 0 THEN << >> ELSE CutOn(t, cut[i - 1], i)]

LEMMA BeforeIn ==
  ASSUME NEW V, "" \in V, NEW t \in Seq(V \cup {"/"}), NEW i \in 1..Len(t)
  PROVE  Before(t, i) \in V
<1>1. CASE i = 1 \/ t[i - 1] = "/"
  BY <1>1 DEF Before
<1>2. CASE i # 1 /\ t[i - 1] # "/"
  <2>1. i - 1 \in 1..Len(t)
    <3>1. Len(t) \in Nat
      BY LenNat
    <3>2. i # 1
      BY <1>2
    <3> QED BY ONLY <3>1, <3>2, i \in 1..Len(t)
  <2>2. t[i - 1] \in V \cup {"/"}
    BY <2>1, ElementOf
  <2> QED BY <1>2, <2>2 DEF Before
<1> QED BY <1>1, <1>2

LEMMA CutOnIn ==
  ASSUME NEW V, "" \in V, NEW t \in Seq(V \cup {"/"}), NEW i \in 1..Len(t), NEW s \in Seq(V)
  PROVE  CutOn(t, s, i) \in Seq(V)
<1>1. Before(t, i) \in V
  BY BeforeIn
<1> QED BY <1>1, AppendProperties DEF CutOn

LEMMA CutExists ==
  ASSUME NEW V, "" \in V, NEW t \in Seq(V \cup {"/"})
  PROVE  \E cut : CutEquation(cut, t)
<1>0. Len(t) \in Nat
  BY LenNat
<1>1. PICK L, S : L = Len(t) /\ S = Seq(V)
  OBVIOUS
<1>2. PICK b : b = << >>
  OBVIOUS
<1>3. b \in S
  BY <1>1, <1>2, NoPiece
<1> DEFINE g == [x \in S \X (1..L) |-> CutOn(t, x[1], x[2])]
<1>4. g \in [S \X (1..L) -> S]
  <2>1. ASSUME NEW x \in S \X (1..L) PROVE CutOn(t, x[1], x[2]) \in S
    <3>1. x[1] \in Seq(V) /\ x[2] \in 1..Len(t)
      BY <1>1
    <3> QED BY <3>1, <1>1, CutOnIn
  <2> QED BY <2>1
<1>5. L \in Nat
  BY <1>0, <1>1
<1>6. PICK f : Iterated(f, b, g, L, S)
  <2> HIDE DEF g
  <2> QED BY <1>3, <1>4, <1>5, Iterates
<1>7. f \in [0..L -> S] /\ f[0] = b /\ \A k \in 1..L : f[k] = g[<<f[k - 1], k>>]
  <2> HIDE DEF g
  <2> QED BY <1>6 DEF Iterated
<1>8. ASSUME NEW k \in 0..L PROVE f[k] = IF k = 0 THEN b ELSE CutOn(t, f[k - 1], k)
  <2>1. CASE k = 0
    BY <2>1, <1>7
  <2>2. CASE k # 0
    <3>1. k \in 1..L /\ k - 1 \in 0..L
      BY ONLY <2>2, <1>5, k \in 0..L
    <3>2. f[k - 1] \in S
      BY <3>1, <1>7
    <3>3. <<f[k - 1], k>> \in S \X (1..L)
      BY <3>1, <3>2
    <3>4. g[<<f[k - 1], k>>] = CutOn(t, f[k - 1], k)
      BY <3>3
    <3>5. f[k] = g[<<f[k - 1], k>>]
      <4> HIDE DEF g
      <4> QED BY <3>1, <1>7
    <3> QED BY <2>2, <3>4, <3>5
  <2> QED BY <2>1, <2>2
<1>9. f = [n \in 0..L |-> IF n = 0 THEN b ELSE CutOn(t, f[n - 1], n)]
  <2>1. f = [n \in 0..L |-> f[n]]
    BY <1>7
  <2> QED BY <2>1, <1>8
<1> QED BY <1>1, <1>2, <1>9 DEF CutEquation

\* A text that begins with a slash begins with an empty piece.
LEMMA StrippedIs ==
  ASSUME NEW V, "" \in V, NEW t \in Seq(V \cup {"/"}), Len(t) >= 1, t[1] = "/"
  PROVE  Rooted(Stripped(t), V)
<1>0. Len(t) \in Nat
  BY LenNat
<1>1. PICK L : L = Len(t)
  OBVIOUS
<1>2. L \in Nat /\ L >= 1
  BY <1>0, <1>1
<1>3. PICK cut : cut = Cut(t)
  OBVIOUS
<1>4. CutEquation(cut, t)
  <2>1. \E c : CutEquation(c, t)
    BY CutExists
  <2>2. Cut(t) = CHOOSE c : CutEquation(c, t)
    BY DEF Cut, CutEquation, CutOn
  <2> QED BY <2>1, <2>2, <1>3
<1>5. cut = [i \in 0..L |-> IF i = 0 THEN << >> ELSE CutOn(t, cut[i - 1], i)]
  BY <1>1, <1>4 DEF CutEquation
<1> DEFINE T == {m \in 0..(L - 1) : Rooted(cut[m + 1], V)}
<1>6. 0 \in T
  <2>0. 0 \in 0..(L - 1) /\ 0 + 1 = 1 /\ 1 \in 0..L /\ 0 \in 0..L /\ 1 # 0 /\ 1 - 1 = 0
    BY ONLY <1>2
  <2>1. cut[0] = << >>
    BY <2>0, <1>5
  <2>2. cut[1] = CutOn(t, << >>, 1)
    BY <2>0, <2>1, <1>5
  <2>3. CutOn(t, << >>, 1) = Append(<< >>, "")
    BY DEF CutOn, Before
  <2>4. PICK e \in V : e = ""
    OBVIOUS
  <2>5. /\ Append(<< >>, e) \in Seq(V) /\ Len(Append(<< >>, e)) = 1
        /\ Append(<< >>, e)[1] = e /\ Len(Append(<< >>, e)) >= 1
    BY OnePiece
  <2>8. Rooted(Append(<< >>, e), V)
    BY <2>4, <2>5 DEF Rooted
  <2>6. Rooted(cut[1], V)
    BY <2>2, <2>3, <2>4, <2>8
  <2> QED BY <2>0, <2>6
<1>7. ASSUME NEW k \in 0..((L - 1) - 1), k \in T PROVE k + 1 \in T
  <2>1. PICK n : n = k + 1
    OBVIOUS
  <2>2. n + 1 \in 0..L /\ n + 1 # 0 /\ (n + 1) - 1 = n /\ k + 1 \in 0..(L - 1) /\ n + 1 \in 1..L
    BY ONLY <1>2, <2>1, k \in 0..((L - 1) - 1)
  <2>3. PICK s : s = cut[n]
    OBVIOUS
  <2>4. Rooted(s, V)
    BY <1>7, <2>1, <2>3
  <2>5. cut[n + 1] = CutOn(t, s, n + 1)
    BY <2>2, <2>3, <1>5
  <2>6. Rooted(CutOn(t, s, n + 1), V)
    <3>1. CASE t[n + 1] = "/"
      <4>1. PICK e \in V : e = Before(t, n + 1)
        BY <2>2, <1>1, BeforeIn
      <4>7. Rooted(Append(s, e), V)
        BY <2>4, RootedAppend
      <4> QED BY <3>1, <4>1, <4>7 DEF CutOn
    <3>2. CASE t[n + 1] # "/"
      BY <3>2, <2>4 DEF CutOn
    <3> QED BY <3>1, <3>2
  <2>7. Rooted(cut[(k + 1) + 1], V)
    BY <2>1, <2>5, <2>6
  <2> QED BY <2>2, <2>7
<1>8. 0..(L - 1) \subseteq T
  <2>1. L - 1 \in Nat
    BY ONLY <1>2
  <2> HIDE DEF T
  <2> QED BY <2>1, <1>6, <1>7, UpTo
<1>9. L - 1 \in 0..(L - 1) /\ (L - 1) + 1 = L /\ L \in 1..L
  BY ONLY <1>2
<1>10. Rooted(cut[(L - 1) + 1], V)
  <2>1. L - 1 \in T
    <3> HIDE DEF T
    <3> QED BY <1>8, <1>9
  <2> QED BY <2>1
<1>11. PICK s : s = cut[L]
  OBVIOUS
<1>12. Rooted(s, V)
  BY <1>9, <1>10, <1>11
<1>13. CASE t[L] = "/"
  BY <1>1, <1>3, <1>11, <1>12, <1>13 DEF Stripped
<1>14. CASE t[L] # "/"
  <2>1. PICK e : e = t[L]
    OBVIOUS
  <2>2. e \in V
    <3>1. t[L] \in V \cup {"/"}
      BY <1>1, <1>9, ElementOf
    <3> QED BY <3>1, <2>1, <1>14
  <2>3. Stripped(t) = Append(s, e)
    BY <1>1, <1>3, <1>11, <1>14, <2>1 DEF Stripped
  <2>9. Rooted(Append(s, e), V)
    BY <2>2, <1>12, RootedAppend
  <2> QED BY <2>3, <2>9
<1> QED BY <1>13, <1>14

-----------------------------------------------------------------------------
(* What the map of FileMap shows of a tree *)

KnownOf(tree) == {PathsOf(tree)[id] : id \in DOMAIN tree}
IdIn(tree, p) == CHOOSE id \in DOMAIN tree : PathsOf(tree)[id] = p
MountedIn(tree) == {i \in DOMAIN tree : Mounted(tree, i)}
NumberOf(tree) == [p \in KnownOf(tree) |-> IdIn(tree, p)]
MountsOf(tree) ==
  [p \in {PathsOf(tree)[id] : id \in MountedIn(tree)} |-> tree[IdIn(tree, p)].mounted]

LEMMA IdIs ==
  ASSUME NEW V, NEW M, NEW N, NEW tree, NEW P, Shaped(tree, P, N, V, M),
         NEW i \in 0..(N - 1)
  PROVE  IdIn(tree, P[i]) = i
<1>1. DOMAIN tree = 0..(N - 1) /\ Apart(P, N)
  BY DEF Shaped
<1>2. PathsOf(tree) = P
  BY PathsAre
<1>3. \A j \in DOMAIN tree : P[j] = P[i] => j = i
  BY <1>1 DEF Apart
<1> QED BY <1>1, <1>2, <1>3 DEF IdIn

LEMMA KnownIs ==
  ASSUME NEW V, NEW M, NEW N, NEW tree, NEW P, Shaped(tree, P, N, V, M)
  PROVE  /\ KnownOf(tree) = {P[i] : i \in 0..(N - 1)}
         /\ DOMAIN NumberOf(tree) = KnownOf(tree)
         /\ \A i \in 0..(N - 1) : NumberOf(tree)[P[i]] = i
<1>1. DOMAIN tree = 0..(N - 1)
  BY DEF Shaped
<1>2. PathsOf(tree) = P
  BY PathsAre
<1>3. KnownOf(tree) = {P[i] : i \in 0..(N - 1)}
  BY <1>1, <1>2 DEF KnownOf
<1>4. ASSUME NEW i \in 0..(N - 1) PROVE NumberOf(tree)[P[i]] = i
  <2>1. P[i] \in KnownOf(tree)
    BY <1>3
  <2>2. IdIn(tree, P[i]) = i
    BY IdIs
  <2> QED BY <2>1, <2>2 DEF NumberOf
<1> QED BY <1>3, <1>4 DEF NumberOf

MountsShow(tree, P, N) ==
  /\ DOMAIN MountsOf(tree) = {P[i] : i \in {j \in 0..(N - 1) : Mounted(tree, j)}}
  /\ \A i \in 0..(N - 1) : P[i] \in DOMAIN MountsOf(tree) <=> Mounted(tree, i)
  /\ \A i \in 0..(N - 1) : Mounted(tree, i) => MountsOf(tree)[P[i]] = tree[i].mounted

LEMMA MountsAre ==
  ASSUME NEW V, NEW M, NEW N, NEW tree, NEW P, Shaped(tree, P, N, V, M)
  PROVE  MountsShow(tree, P, N)
<1>1. DOMAIN tree = 0..(N - 1) /\ Apart(P, N)
  BY DEF Shaped
<1>2. PathsOf(tree) = P
  BY PathsAre
<1>3. DOMAIN MountsOf(tree) = {P[i] : i \in {j \in 0..(N - 1) : Mounted(tree, j)}}
  BY <1>1, <1>2 DEF MountsOf, MountedIn
<1>4. ASSUME NEW i \in 0..(N - 1)
      PROVE  P[i] \in DOMAIN MountsOf(tree) <=> Mounted(tree, i)
  <2>1. Mounted(tree, i) => P[i] \in DOMAIN MountsOf(tree)
    BY <1>3
  <2>2. ASSUME P[i] \in DOMAIN MountsOf(tree) PROVE Mounted(tree, i)
    <3>1. PICK j \in 0..(N - 1) : Mounted(tree, j) /\ P[i] = P[j]
      BY <2>2, <1>3
    <3>2. i = j
      BY <3>1, <1>1 DEF Apart
    <3> QED BY <3>1, <3>2
  <2> QED BY <2>1, <2>2
<1>5. ASSUME NEW i \in 0..(N - 1), Mounted(tree, i)
      PROVE  MountsOf(tree)[P[i]] = tree[i].mounted
  <2>1. P[i] \in DOMAIN MountsOf(tree) /\ IdIn(tree, P[i]) = i
    BY <1>4, <1>5, IdIs
  <2>2. MountsOf(tree)[P[i]] = tree[IdIn(tree, P[i])].mounted
    BY <2>1 DEF MountsOf
  <2> QED BY <2>1, <2>2
<1> QED BY <1>3, <1>4, <1>5 DEF MountsShow

LEMMA KnownCount ==
  ASSUME NEW V, NEW M, NEW N, NEW tree, NEW P, Shaped(tree, P, N, V, M)
  PROVE  Cardinality(KnownOf(tree)) = N
<1>1. DOMAIN tree = 0..(N - 1) /\ Cardinality(DOMAIN tree) = N
  BY NodesCount
<1>2. PICK S, T : S = 0..(N - 1) /\ T = KnownOf(tree)
  OBVIOUS
<1>3. T = {P[i] : i \in S}
  BY <1>2, KnownIs
<1>4. P \in [S -> T]
  <2>1. P \in [0..(N - 1) -> Seq(V)]
    BY DEF Shaped
  <2>2. P = [i \in S |-> P[i]]
    BY <2>1, <1>2
  <2> QED BY <2>2, <1>3
<1>5. \A a, b \in S : P[a] = P[b] => a = b
  BY <1>2 DEF Shaped, Apart
<1>6. P \in Bijection(S, T)
  <2>1. \A t \in T : \E a \in S : P[a] = t
    BY <1>3
  <2>2. IsInjective(P)
    BY <1>4, <1>5 DEF IsInjective
  <2> QED BY <1>4, <2>1, <2>2 DEF Bijection, Injection, Surjection
<1>7. ExistsBijection(S, T)
  BY <1>6 DEF ExistsBijection
<1>8. IsFiniteSet(S) /\ Cardinality(S) = N
  <2>1. N \in Nat \ {0}
    BY NodesCount
  <2>2. 0 \in Int /\ N - 1 \in Int
    BY <2>1
  <2>3. IsFiniteSet(0..(N - 1))
    BY ONLY <2>2, FS_Interval
  <2> QED BY <1>1, <1>2, <2>3
<1>9. Cardinality(T) = Cardinality(S)
  BY ONLY <1>7, <1>8, FS_Bijection
<1> QED BY <1>2, <1>8, <1>9

-----------------------------------------------------------------------------
(* A mount *)

MountedOn(tree, id, server) == [tree EXCEPT ![id].mounted = server]

LEMMA MountKeeps ==
  ASSUME NEW V, NEW M, NEW N, NEW tree, NEW P, Shaped(tree, P, N, V, M),
         NEW id \in 0..(N - 1), NEW server \in M, NEW U, U = MountedOn(tree, id, server)
  PROVE  /\ Shaped(U, P, N, V, M) /\ U[id].mounted = server
         /\ \A i \in 0..(N - 1) : i # id => U[i].mounted = tree[i].mounted
<1>1. /\ tree \in [0..(N - 1) -> NodeOf(V, M, N)] /\ N \in Nat \ {0}
      /\ P \in [0..(N - 1) -> Seq(V)] /\ P[0] = <<"">>
      /\ Linked(tree, P, N) /\ Owned(tree, N) /\ Once(tree, N) /\ Apart(P, N)
  BY DEF Shaped
<1>2. PICK x : x = tree[id]
  OBVIOUS
<1>3. U = [tree EXCEPT ![id] = [x EXCEPT !.mounted = server]]
  BY <1>2 DEF MountedOn
<1>4. U[id] = [x EXCEPT !.mounted = server] /\ \A i \in 0..(N - 1) : i # id => U[i] = tree[i]
  BY <1>1, <1>3
<1>5. x \in NodeOf(V, M, N)
  BY <1>1, <1>2
<1>6. /\ U[id] \in NodeOf(V, M, N) /\ U[id].name = x.name /\ U[id].children = x.children
      /\ U[id].mounted = server
  BY <1>4, <1>5 DEF NodeOf
<1>7. \A i \in 0..(N - 1) : U[i] \in NodeOf(V, M, N)
  BY <1>1, <1>4, <1>6
<1>8. U \in [0..(N - 1) -> NodeOf(V, M, N)]
  <2>1. U = [i \in 0..(N - 1) |-> U[i]]
    BY <1>1, <1>3
  <2> QED BY <1>7, <2>1
<1>9. \A i \in 0..(N - 1) : U[i].name = tree[i].name /\ U[i].children = tree[i].children
  BY <1>2, <1>4, <1>6
<1>10. Linked(U, P, N)
  <2>1. ASSUME NEW q \in 0..(N - 1), NEW c \in Range(U[q].children)
        PROVE  q < c /\ P[c] = Append(P[q], U[c].name)
    <3>1. c \in Range(tree[q].children)
      BY <1>9
    <3>2. c \in 0..(N - 1) /\ q < c /\ P[c] = Append(P[q], tree[c].name)
      BY <3>1, ChildOf
    <3> QED BY <3>2, <1>9
  <2> QED BY <2>1 DEF Linked
<1>11. Owned(U, N)
  <2>1. ASSUME NEW c \in 1..(N - 1) PROVE \E q \in 0..(N - 1) : c \in Range(U[q].children)
    <3>1. PICK q \in 0..(N - 1) : c \in Range(tree[q].children)
      BY <1>1 DEF Owned
    <3> QED BY <3>1, <1>9
  <2> QED BY <2>1 DEF Owned
<1>12. Once(U, N)
  BY <1>1, <1>9 DEF Once
<1>13. Shaped(U, P, N, V, M)
  BY <1>1, <1>8, <1>10, <1>11, <1>12 DEF Shaped
<1> QED BY <1>4, <1>6, <1>13

LEMMA FoundIs ==
  ASSUME NEW V, NEW M, NEW N, NEW tree, NEW P, Shaped(tree, P, N, V, M),
         NEW p, Rooted(p, V), NEW id, id = Deepest(tree, p)
  PROVE  /\ id \in 0..(N - 1) /\ P[id] = Pre(p, Depth(tree, p))
         /\ Found(tree, p) = {} <=> Depth(tree, p) # Len(p) /\ ~Mounted(tree, id)
         /\ p \in KnownOf(tree) <=> Depth(tree, p) = Len(p)
         /\ Depth(tree, p) = Len(p) => P[id] = p
<1>1. DepthFacts(tree, P, N, p, Depth(tree, p))
  BY DepthIs
<1>2. id \in 0..(N - 1) /\ P[id] = Pre(p, Depth(tree, p))
  BY <1>1 DEF DepthFacts
<1>3. Found(tree, p) = {} <=> Depth(tree, p) # Len(p) /\ ~Mounted(tree, id)
  BY DEF Found
<1>4. KnownOf(tree) = {P[i] : i \in 0..(N - 1)}
  BY KnownIs
<1>5. Pre(p, Len(p)) = p
  BY RootedLen, PreAll
<1>6. Depth(tree, p) = Len(p) => P[id] = p
  BY <1>2, <1>5
<1>7. p \in KnownOf(tree) => Depth(tree, p) = Len(p)
  BY <1>4, KnownPath
<1> QED BY <1>2, <1>3, <1>4, <1>6, <1>7

-----------------------------------------------------------------------------
(* The requests as the map sees them *)

Told(op, p, what) == [op |-> op, asked |-> p, got |-> what]
NewIn(K, p) == {q \in {SubSeq(p, 1, k) : k \in 1..Len(p)} : q \notin K}

CreateMaps(K, L, num, numL, mts, mtsL, ans, p) ==
  /\ L = K \cup NewIn(K, p)
  /\ numL = [q \in K \cup NewIn(K, p) |->
               IF q \in K THEN num[q] ELSE Cardinality(K) + Len(q) - Len(AboveIn(K, p)) - 1]
  /\ ans = Told("create", p, [type |-> "frOk", id |-> numL[p]])
  /\ mtsL = mts

LEMMA CreateMapped ==
  ASSUME NEW V, NEW M, NEW N, NEW tree, NEW P, Shaped(tree, P, N, V, M), <<0, 0>> \in M,
         NEW p, Rooted(p, V), NEW end, end = Made(tree, p),
         NEW ans, ans = Told("create", p, [type |-> "frOk", id |-> end.id])
  PROVE  CreateMaps(KnownOf(tree), KnownOf(end.tree), NumberOf(tree), NumberOf(end.tree),
                    MountsOf(tree), MountsOf(end.tree), ans, p)
<1>0. p \in Seq(V) /\ Len(p) \in Nat /\ Len(p) >= 1
  BY RootedLen
<1>1. PICK D : D = Depth(tree, p)
  OBVIOUS
<1>2. DepthFacts(tree, P, N, p, D)
  BY <1>1, DepthIs
<1>3. PICK Q, T : Grown(end, Q, T, tree, P, N, V, M, p, D, Len(p))
  BY <1>2, MadeGrown
<1>4. PICK U, id : U = end.tree /\ id = end.id
  OBVIOUS
<1>5. /\ Shaped(U, Q, T, V, M) /\ T = Count(N, D, Len(p))
      /\ id \in 0..(T - 1) /\ Q[id] = Pre(p, Len(p))
      /\ \A i \in 0..(N - 1) : Q[i] = P[i] /\ U[i].mounted = tree[i].mounted
      /\ \A k \in (D + 1)..Len(p) : /\ Q[N + (k - D - 1)] = Pre(p, k)
                                    /\ U[N + (k - D - 1)].mounted = <<0, 0>>
  BY <1>3, <1>4 DEF Grown
<1>6. N \in Nat \ {0} /\ D \in 1..Len(p)
  BY <1>2, NodesCount DEF DepthFacts
<1>7. T = N + (Len(p) - D)
  <2>1. Len(p) <= D => N = N + (Len(p) - D)
    BY ONLY <1>0, <1>6
  <2> QED BY <2>1, <1>5 DEF Count
<1>8. /\ 0..(N - 1) \subseteq 0..(T - 1)
      /\ \A i \in 0..(T - 1) : i \in 0..(N - 1)
           \/ (i - N + D + 1 \in (D + 1)..Len(p) /\ i = N + ((i - N + D + 1) - D - 1))
      /\ \A k \in (D + 1)..Len(p) :
           N + (k - D - 1) \in 0..(T - 1) /\ N + (k - D - 1) = N + k - D - 1
           /\ k \in 1..Len(p) /\ k \in 0..Len(p)
      /\ \A k \in 1..Len(p) : k \in 1..D \/ k \in (D + 1)..Len(p)
      /\ Len(p) \in 1..Len(p) /\ D \in 0..Len(p)
  BY ONLY <1>0, <1>6, <1>7
<1>9. PICK K, L : K = KnownOf(tree) /\ L = KnownOf(U)
  OBVIOUS
<1>10. K = {P[i] : i \in 0..(N - 1)} /\ L = {Q[i] : i \in 0..(T - 1)}
  BY <1>5, <1>9, KnownIs
<1>11. NewIn(K, p) = {Pre(p, k) : k \in (D + 1)..Len(p)}
  <2>1. ASSUME NEW k \in 1..Len(p) PROVE SubSeq(p, 1, k) \notin K <=> k \in (D + 1)..Len(p)
    <3>1. SubSeq(p, 1, k) = Pre(p, k)
      BY DEF Pre
    <3>2. k \in 1..D => Pre(p, k) \in K
      BY <1>2, <1>10 DEF DepthFacts
    <3>3. k \in (D + 1)..Len(p) => Pre(p, k) \notin K
      BY <1>2, <1>10 DEF DepthFacts
    <3> QED BY <3>1, <3>2, <3>3, <1>8
  <2>2. \A k \in (D + 1)..Len(p) : k \in 1..Len(p)
    BY <1>8
  <2> QED BY <2>1, <2>2 DEF NewIn, Pre
<1>12. L = K \cup NewIn(K, p)
  <2>1. ASSUME NEW i \in 0..(T - 1) PROVE Q[i] \in K \cup NewIn(K, p)
    <3>1. CASE i \in 0..(N - 1)
      BY <3>1, <1>5, <1>10
    <3>2. CASE i \notin 0..(N - 1)
      <4>1. PICK k : k = i - N + D + 1
        OBVIOUS
      <4>2. k \in (D + 1)..Len(p) /\ i = N + (k - D - 1)
        BY <3>2, <4>1, <1>8
      <4>3. Q[i] = Pre(p, k)
        BY <4>2, <1>5
      <4> QED BY <4>2, <4>3, <1>11
    <3> QED BY <3>1, <3>2
  <2>2. ASSUME NEW i \in 0..(N - 1) PROVE P[i] \in L
    BY <1>5, <1>8, <1>10
  <2>3. ASSUME NEW k \in (D + 1)..Len(p) PROVE Pre(p, k) \in L
    <3>1. PICK i \in 0..(T - 1) : i = N + (k - D - 1)
      BY <1>8
    <3>2. Q[i] = Pre(p, k)
      BY <3>1, <1>5
    <3> QED BY <3>2, <1>10
  <2> QED BY <2>1, <2>2, <2>3, <1>10, <1>11
<1>13. /\ DOMAIN NumberOf(U) = L /\ \A i \in 0..(T - 1) : NumberOf(U)[Q[i]] = i
       /\ \A i \in 0..(N - 1) : NumberOf(tree)[P[i]] = i
  BY <1>5, <1>9, KnownIs
<1>14. AboveIn(K, p) = Pre(p, D) /\ Len(Pre(p, D)) = D /\ Cardinality(K) = N
  <2>1. AboveIn(K, p) = Pre(p, D)
    BY <1>1, <1>10, LongestKnown
  <2>2. PreIs(p, D, V)
    BY <1>0, <1>8, PreFacts
  <2>3. Cardinality(K) = N
    BY <1>9, KnownCount
  <2> QED BY <2>1, <2>2, <2>3 DEF PreIs
<1>15. ASSUME NEW q \in L
       PROVE  NumberOf(U)[q] =
                IF q \in K THEN NumberOf(tree)[q]
                ELSE Cardinality(K) + Len(q) - Len(AboveIn(K, p)) - 1
  <2>1. CASE q \in K
    <3>1. PICK i \in 0..(N - 1) : q = P[i]
      BY <2>1, <1>10
    <3>2. NumberOf(tree)[q] = i
      BY <3>1, <1>13
    <3>3. q = Q[i] /\ i \in 0..(T - 1)
      BY <3>1, <1>5, <1>8
    <3> QED BY <2>1, <3>2, <3>3, <1>13
  <2>2. CASE q \notin K
    <3>1. PICK k \in (D + 1)..Len(p) : q = Pre(p, k)
      BY <2>2, <1>11, <1>12
    <3>2. PICK i \in 0..(T - 1) : i = N + (k - D - 1) /\ i = N + k - D - 1
      BY <1>8
    <3>3. NumberOf(U)[q] = i
      BY <3>1, <3>2, <1>5, <1>13
    <3>4. Len(q) = k
      <4>1. PreIs(p, k, V)
        BY <1>0, <1>8, PreFacts
      <4> QED BY <4>1, <3>1 DEF PreIs
    <3> QED BY <2>2, <3>2, <3>3, <3>4, <1>14
  <2> QED BY <2>1, <2>2
<1>16. NumberOf(U) = [q \in K \cup NewIn(K, p) |->
          IF q \in K THEN NumberOf(tree)[q]
          ELSE Cardinality(K) + Len(q) - Len(AboveIn(K, p)) - 1]
  <2>1. NumberOf(U) = [q \in L |-> NumberOf(U)[q]]
    BY <1>9 DEF NumberOf
  <2> QED BY <2>1, <1>12, <1>15
<1>17. NumberOf(U)[p] = id
  <2>1. Q[id] = p
    BY <1>0, <1>5, PreAll
  <2> QED BY <2>1, <1>5, <1>13
<1>20. MountsShow(tree, P, N) /\ MountsShow(U, Q, T)
  BY <1>5, MountsAre
<1>18. MountsOf(U) = MountsOf(tree)
  <2>1. \A i \in 0..(N - 1) : Mounted(U, i) <=> Mounted(tree, i)
    BY <1>5 DEF Mounted
  <2>2. ASSUME NEW i \in 0..(T - 1), Mounted(U, i) PROVE i \in 0..(N - 1)
    <3>1. SUFFICES ASSUME i \notin 0..(N - 1) PROVE FALSE
      OBVIOUS
    <3>2. PICK k : k = i - N + D + 1
      OBVIOUS
    <3>3. k \in (D + 1)..Len(p) /\ i = N + (k - D - 1)
      BY <3>1, <3>2, <1>8
    <3>4. U[i].mounted = <<0, 0>>
      BY <3>3, <1>5
    <3> QED BY <3>4, <2>2 DEF Mounted
  <2>3. {j \in 0..(T - 1) : Mounted(U, j)} = {j \in 0..(N - 1) : Mounted(tree, j)}
    BY <2>1, <2>2, <1>8
  <2>4. DOMAIN MountsOf(U) = {Q[i] : i \in {j \in 0..(T - 1) : Mounted(U, j)}}
    BY <1>20 DEF MountsShow
  <2>5. DOMAIN MountsOf(tree) = {P[i] : i \in {j \in 0..(N - 1) : Mounted(tree, j)}}
    BY <1>20 DEF MountsShow
  <2>6. DOMAIN MountsOf(U) = DOMAIN MountsOf(tree)
    BY <2>3, <2>4, <2>5, <1>5
  <2>7. ASSUME NEW q \in DOMAIN MountsOf(tree) PROVE MountsOf(U)[q] = MountsOf(tree)[q]
    <3>1. PICK i \in 0..(N - 1) : Mounted(tree, i) /\ q = P[i]
      BY <2>5
    <3>2. MountsOf(tree)[q] = tree[i].mounted
      BY <3>1, <1>20 DEF MountsShow
    <3>3. i \in 0..(T - 1) /\ Mounted(U, i) /\ q = Q[i]
      BY <3>1, <2>1, <1>5, <1>8
    <3>4. MountsOf(U)[q] = U[i].mounted
      BY <3>3, <1>20 DEF MountsShow
    <3> QED BY <3>2, <3>4, <1>5
  <2>8. /\ MountsOf(U) = [q \in DOMAIN MountsOf(U) |-> MountsOf(U)[q]]
        /\ MountsOf(tree) = [q \in DOMAIN MountsOf(tree) |-> MountsOf(tree)[q]]
    BY DEF MountsOf
  <2> QED BY <2>6, <2>7, <2>8
<1>19. ans = Told("create", p, [type |-> "frOk", id |-> NumberOf(U)[p]])
  BY <1>4, <1>17
<1> QED BY <1>4, <1>9, <1>12, <1>16, <1>18, <1>19 DEF CreateMaps

ResolveMaps(K, num, mts, ans, p) ==
  IF AboveIn(K, p) \in DOMAIN mts
  THEN ans = Told("resolve", p, [forward |-> mts[AboveIn(K, p)],
                                 path |-> SubSeq(p, Len(AboveIn(K, p)) + 1, Len(p))])
  ELSE IF p \in K THEN ans = Told("resolve", p, [type |-> "frOk", id |-> num[p]])
  ELSE ans = Told("resolve", p, [type |-> "frFileNotFound"])

ResolveGets(tree, p) ==
  IF Found(tree, p) = {} THEN [type |-> "frFileNotFound"]
  ELSE IF Mounted(tree, Deepest(tree, p))
  THEN [forward |-> tree[Deepest(tree, p)].mounted,
        path |-> SubSeq(p, Depth(tree, p) + 1, Len(p))]
  ELSE [type |-> "frOk", id |-> Deepest(tree, p)]

\* Where the known part of a path ends, in the tree and in the map.
EndsAt(tree, P, N, p, id, D) ==
  /\ id = Deepest(tree, p) /\ D = Depth(tree, p) /\ id \in 0..(N - 1)
  /\ AboveIn(KnownOf(tree), p) = P[id] /\ Len(P[id]) = D
  /\ P[id] \in DOMAIN MountsOf(tree) <=> Mounted(tree, id)
  /\ Mounted(tree, id) => MountsOf(tree)[P[id]] = tree[id].mounted
  /\ Found(tree, p) = {} <=> D # Len(p) /\ ~Mounted(tree, id)
  /\ p \in KnownOf(tree) <=> D = Len(p)
  /\ D = Len(p) => P[id] = p
  /\ NumberOf(tree)[P[id]] = id

LEMMA EndOfPath ==
  ASSUME NEW V, NEW M, NEW N, NEW tree, NEW P, Shaped(tree, P, N, V, M),
         NEW p, Rooted(p, V), NEW id, id = Deepest(tree, p), NEW D, D = Depth(tree, p)
  PROVE  EndsAt(tree, P, N, p, id, D)
<1>1. /\ id \in 0..(N - 1) /\ P[id] = Pre(p, D)
      /\ Found(tree, p) = {} <=> D # Len(p) /\ ~Mounted(tree, id)
      /\ p \in KnownOf(tree) <=> D = Len(p)
      /\ D = Len(p) => P[id] = p
  BY FoundIs
<1>2. AboveIn(KnownOf(tree), p) = P[id]
  <2>1. KnownOf(tree) = {P[i] : i \in 0..(N - 1)}
    BY KnownIs
  <2>2. PICK K : K = KnownOf(tree)
    OBVIOUS
  <2>3. AboveIn(K, p) = Pre(p, D)
    BY <2>1, <2>2, LongestKnown
  <2> QED BY <2>2, <2>3, <1>1
<1>3. Len(P[id]) = D
  <2>1. D \in 0..Len(p)
    <3>1. D \in 1..Len(p)
      BY DepthIs DEF DepthFacts
    <3>2. Len(p) \in Nat
      BY RootedLen
    <3> QED BY ONLY <3>1, <3>2
  <2>2. PreIs(p, D, V)
    BY <2>1, RootedLen, PreFacts
  <2> QED BY <2>2, <1>1 DEF PreIs
<1>4. MountsShow(tree, P, N)
  BY MountsAre
<1>5. NumberOf(tree)[P[id]] = id
  BY <1>1, KnownIs
<1> QED BY <1>1, <1>2, <1>3, <1>4, <1>5 DEF EndsAt, MountsShow

LEMMA ResolveMapped ==
  ASSUME NEW V, NEW M, NEW N, NEW tree, NEW P, Shaped(tree, P, N, V, M),
         NEW p, Rooted(p, V), NEW ans, ans = Told("resolve", p, ResolveGets(tree, p))
  PROVE  ResolveMaps(KnownOf(tree), NumberOf(tree), MountsOf(tree), ans, p)
<1>1. PICK id, D : id = Deepest(tree, p) /\ D = Depth(tree, p)
  OBVIOUS
<1>2. EndsAt(tree, P, N, p, id, D)
  BY <1>1, EndOfPath
<1>3. PICK K, num, mts, q :
        K = KnownOf(tree) /\ num = NumberOf(tree) /\ mts = MountsOf(tree) /\ q = P[id]
  OBVIOUS
<1>4. /\ AboveIn(K, p) = q /\ Len(q) = D /\ (q \in DOMAIN mts <=> Mounted(tree, id))
      /\ Mounted(tree, id) => mts[q] = tree[id].mounted
      /\ (Found(tree, p) = {} <=> D # Len(p) /\ ~Mounted(tree, id))
      /\ (p \in K <=> D = Len(p)) /\ (D = Len(p) => q = p) /\ num[q] = id
  BY <1>2, <1>3 DEF EndsAt
<1>5. CASE Mounted(tree, id)
  <2>1. ans = Told("resolve", p, [forward |-> tree[id].mounted,
                                  path |-> SubSeq(p, D + 1, Len(p))])
    BY <1>1, <1>4, <1>5 DEF ResolveGets
  <2>2. ResolveMaps(K, num, mts, ans, p)
    BY <2>1, <1>4, <1>5 DEF ResolveMaps
  <2> QED BY <2>2, <1>3
<1>6. CASE ~Mounted(tree, id) /\ D = Len(p)
  <2>1. ans = Told("resolve", p, [type |-> "frOk", id |-> id])
    BY <1>1, <1>4, <1>6 DEF ResolveGets
  <2>2. ResolveMaps(K, num, mts, ans, p)
    BY <2>1, <1>4, <1>6 DEF ResolveMaps
  <2> QED BY <2>2, <1>3
<1>7. CASE ~Mounted(tree, id) /\ D # Len(p)
  <2>1. ans = Told("resolve", p, [type |-> "frFileNotFound"])
    BY <1>1, <1>4, <1>7 DEF ResolveGets
  <2>2. ResolveMaps(K, num, mts, ans, p)
    BY <2>1, <1>4, <1>7 DEF ResolveMaps
  <2> QED BY <2>2, <1>3
<1> QED BY <1>5, <1>6, <1>7

MountMaps(K, mts, mtsL, ans, p, server) ==
  \/ /\ AboveIn(K, p) \in DOMAIN mts
     /\ ans = Told("mount", p, [type |-> "frAlreadyMounted"]) /\ mtsL = mts
  \/ /\ p \notin K /\ AboveIn(K, p) \notin DOMAIN mts
     /\ ans = Told("mount", p, [type |-> "frFileNotFound"]) /\ mtsL = mts
  \/ /\ p \in K /\ p \notin DOMAIN mts
     /\ ans = Told("mount", p, [type |-> "frOk"])
     /\ mtsL = IF server[1] = 0 THEN mts
               ELSE [q \in DOMAIN mts \cup {p} |-> IF q = p THEN server ELSE mts[q]]

\* What a mount does to the tree and answers.
MountDoes(tree, U, ans, p, server) ==
  \/ /\ Found(tree, p) = {}
     /\ ans = Told("mount", p, [type |-> "frFileNotFound"]) /\ U = tree
  \/ /\ Found(tree, p) # {} /\ Mounted(tree, Deepest(tree, p))
     /\ ans = Told("mount", p, [type |-> "frAlreadyMounted"]) /\ U = tree
  \/ /\ Found(tree, p) # {} /\ ~Mounted(tree, Deepest(tree, p))
     /\ ans = Told("mount", p, [type |-> "frOk"])
     /\ U = MountedOn(tree, Deepest(tree, p), server)

LEMMA MountChanges ==
  ASSUME NEW V, NEW M, NEW N, NEW tree, NEW P, Shaped(tree, P, N, V, M),
         NEW id \in 0..(N - 1), NEW server \in M, NEW U, U = MountedOn(tree, id, server),
         ~Mounted(tree, id), NEW p, p = P[id]
  PROVE  MountsOf(U) = IF server[1] = 0 THEN MountsOf(tree)
           ELSE [q \in DOMAIN MountsOf(tree) \cup {p} |->
                   IF q = p THEN server ELSE MountsOf(tree)[q]]
<1>1. /\ Shaped(U, P, N, V, M) /\ U[id].mounted = server
      /\ \A i \in 0..(N - 1) : i # id => U[i].mounted = tree[i].mounted
  BY MountKeeps
<1>2. MountsShow(tree, P, N) /\ MountsShow(U, P, N)
  BY <1>1, MountsAre
<1>3. /\ MountsOf(U) = [q \in DOMAIN MountsOf(U) |-> MountsOf(U)[q]]
      /\ MountsOf(tree) = [q \in DOMAIN MountsOf(tree) |-> MountsOf(tree)[q]]
  BY DEF MountsOf
<1>4. \A i \in 0..(N - 1) : i # id => (Mounted(U, i) <=> Mounted(tree, i))
  BY <1>1 DEF Mounted
<1>5. Mounted(U, id) <=> server[1] # 0
  BY <1>1 DEF Mounted
<1>6. Apart(P, N)
  BY DEF Shaped
<1>7. \A i \in 0..(N - 1) : P[i] = p => i = id
  BY <1>6 DEF Apart
<1>8. /\ DOMAIN MountsOf(tree) = {P[i] : i \in {j \in 0..(N - 1) : Mounted(tree, j)}}
      /\ DOMAIN MountsOf(U) = {P[i] : i \in {j \in 0..(N - 1) : Mounted(U, j)}}
      /\ \A i \in 0..(N - 1) : Mounted(tree, i) => MountsOf(tree)[P[i]] = tree[i].mounted
      /\ \A i \in 0..(N - 1) : Mounted(U, i) => MountsOf(U)[P[i]] = U[i].mounted
  BY <1>2 DEF MountsShow
<1>9. ASSUME NEW q \in DOMAIN MountsOf(tree)
      PROVE  q \in DOMAIN MountsOf(U) /\ MountsOf(U)[q] = MountsOf(tree)[q] /\ q # p
  <2>1. PICK i \in 0..(N - 1) : Mounted(tree, i) /\ q = P[i]
    BY <1>8
  <2>2. i # id
    BY <2>1
  <2>3. Mounted(U, i) /\ U[i].mounted = tree[i].mounted
    BY <2>1, <2>2, <1>1, <1>4
  <2> QED BY <2>1, <2>2, <2>3, <1>7, <1>8
<1>10. CASE server[1] = 0
  <2>1. ASSUME NEW q \in DOMAIN MountsOf(U) PROVE q \in DOMAIN MountsOf(tree)
    <3>1. PICK i \in 0..(N - 1) : Mounted(U, i) /\ q = P[i]
      BY <1>8
    <3>2. i # id
      BY <3>1, <1>5, <1>10
    <3> QED BY <3>1, <3>2, <1>4, <1>8
  <2>2. DOMAIN MountsOf(U) = DOMAIN MountsOf(tree)
    BY <2>1, <1>9
  <2> QED BY <2>2, <1>3, <1>9, <1>10
<1>11. CASE server[1] # 0
  <2>1. p \in DOMAIN MountsOf(U) /\ MountsOf(U)[p] = server
    BY <1>1, <1>5, <1>8, <1>11
  <2>2. ASSUME NEW q \in DOMAIN MountsOf(U), q # p PROVE q \in DOMAIN MountsOf(tree)
    <3>1. PICK i \in 0..(N - 1) : Mounted(U, i) /\ q = P[i]
      BY <1>8
    <3>2. i # id
      BY <3>1, <2>2
    <3> QED BY <3>1, <3>2, <1>4, <1>8
  <2>3. DOMAIN MountsOf(U) = DOMAIN MountsOf(tree) \cup {p}
    BY <2>1, <2>2, <1>9
  <2>4. \A q \in DOMAIN MountsOf(U) :
          MountsOf(U)[q] = IF q = p THEN server ELSE MountsOf(tree)[q]
    BY <2>1, <2>3, <1>9
  <2> QED BY <2>3, <2>4, <1>3, <1>11
<1> QED BY <1>10, <1>11

LEMMA MountMapped ==
  ASSUME NEW V, NEW M, NEW N, NEW tree, NEW P, Shaped(tree, P, N, V, M),
         NEW p, Rooted(p, V), NEW server \in M, NEW U, NEW ans,
         MountDoes(tree, U, ans, p, server)
  PROVE  /\ MountMaps(KnownOf(tree), MountsOf(tree), MountsOf(U), ans, p, server)
         /\ KnownOf(U) = KnownOf(tree) /\ NumberOf(U) = NumberOf(tree)
         /\ Shaped(U, P, N, V, M)
<1>1. PICK id, D : id = Deepest(tree, p) /\ D = Depth(tree, p)
  OBVIOUS
<1>2. EndsAt(tree, P, N, p, id, D)
  BY <1>1, EndOfPath
<1>3. PICK K, mts, q : K = KnownOf(tree) /\ mts = MountsOf(tree) /\ q = P[id]
  OBVIOUS
<1>4. /\ AboveIn(K, p) = q /\ (q \in DOMAIN mts <=> Mounted(tree, id))
      /\ (Found(tree, p) = {} <=> D # Len(p) /\ ~Mounted(tree, id))
      /\ (p \in K <=> D = Len(p)) /\ (D = Len(p) => q = p) /\ id \in 0..(N - 1)
  BY <1>2, <1>3 DEF EndsAt
<1>5. CASE /\ Found(tree, p) = {} /\ ans = Told("mount", p, [type |-> "frFileNotFound"])
           /\ U = tree
  BY <1>3, <1>4, <1>5 DEF MountMaps
<1>6. CASE /\ Found(tree, p) # {} /\ Mounted(tree, id) /\ U = tree
           /\ ans = Told("mount", p, [type |-> "frAlreadyMounted"])
  BY <1>3, <1>4, <1>6 DEF MountMaps
<1>7. CASE /\ Found(tree, p) # {} /\ ~Mounted(tree, id) /\ U = MountedOn(tree, id, server)
           /\ ans = Told("mount", p, [type |-> "frOk"])
  <2>1. p \in K /\ q = p /\ p \notin DOMAIN mts
    BY <1>4, <1>7
  <2>2. Shaped(U, P, N, V, M)
    BY <1>4, <1>7, MountKeeps
  <2>3. KnownOf(U) = K
    <3>1. KnownOf(U) = {P[i] : i \in 0..(N - 1)}
      BY <2>2, KnownIs
    <3>2. KnownOf(tree) = {P[i] : i \in 0..(N - 1)}
      BY KnownIs
    <3> QED BY <3>1, <3>2, <1>3
  <2>4. NumberOf(U) = NumberOf(tree)
    <3>1. \A i \in 0..(N - 1) : NumberOf(U)[P[i]] = i
      BY <2>2, KnownIs
    <3>2. \A i \in 0..(N - 1) : NumberOf(tree)[P[i]] = i
      BY KnownIs
    <3>3. K = {P[i] : i \in 0..(N - 1)}
      BY <1>3, KnownIs
    <3>4. \A k \in K : NumberOf(U)[k] = NumberOf(tree)[k]
      BY <3>1, <3>2, <3>3
    <3>5. /\ NumberOf(U) = [k \in K |-> NumberOf(U)[k]]
          /\ NumberOf(tree) = [k \in K |-> NumberOf(tree)[k]]
      BY <2>3, <1>3 DEF NumberOf
    <3> QED BY <3>4, <3>5
  <2>5. MountsOf(U) = IF server[1] = 0 THEN mts
          ELSE [k \in DOMAIN mts \cup {p} |-> IF k = p THEN server ELSE mts[k]]
    <3>1. p = P[id]
      BY <2>1, <1>3
    <3>2. id \in 0..(N - 1) /\ U = MountedOn(tree, id, server) /\ ~Mounted(tree, id)
      BY <1>4, <1>7
    <3>3. MountsOf(U) = IF server[1] = 0 THEN MountsOf(tree)
            ELSE [k \in DOMAIN MountsOf(tree) \cup {p} |->
                    IF k = p THEN server ELSE MountsOf(tree)[k]]
      BY ONLY <3>1, <3>2, Shaped(tree, P, N, V, M), server \in M, MountChanges
    <3> QED BY <3>3, <1>3
  <2>6. MountMaps(K, mts, MountsOf(U), ans, p, server)
    BY <2>1, <2>5, <1>7 DEF MountMaps
  <2> QED BY <2>2, <2>3, <2>4, <2>6, <1>3
<1> QED BY <1>1, <1>5, <1>6, <1>7 DEF MountDoes

-----------------------------------------------------------------------------
(* The tree of part "tree" is told of by the same definitions *)

LEMMA SameStripped == \A t : Tree!Stripped(t) = Stripped(t)
BY DEF Tree!Stripped, Stripped, Tree!Cut, Cut, Tree!Before, Before

LEMMA SamePassed == \A tree, p : Tree!Passed(tree, p) = Passed(tree, p)
BY DEF Tree!Passed, Passed, Tree!Step, Step, Tree!Children, Children, Tree!NULL, NULL,
       Tree!Min, Min, Tree!Range, Range

LEMMA SameDepth == \A tree, p : Tree!Depth(tree, p) = Depth(tree, p)
BY SamePassed DEF Tree!Depth, Depth, Tree!NULL, NULL, Tree!Max, Max

LEMMA SameFound ==
  \A tree, p : /\ Tree!Deepest(tree, p) = Deepest(tree, p)
               /\ Tree!Found(tree, p) = Found(tree, p)
               /\ \A id : Tree!Mounted(tree, id) = Mounted(tree, id)
BY SamePassed, SameDepth
   DEF Tree!Deepest, Deepest, Tree!Found, Found, Tree!Mounted, Mounted

LEMMA SameEntered == \A a, v : Tree!Entered(a, v) = Entered(a, v)
BY DEF Tree!Entered, Entered, Tree!Children, Children, Tree!WithChild, WithChild,
       Tree!Fresh, Fresh, Tree!NULL, NULL, Tree!Min, Min, Tree!Range, Range,
       Tree!Cardinality, Cardinality

LEMMA SameMade == \A tree, p : Tree!Made(tree, p) = Made(tree, p)
BY SameEntered DEF Tree!Made, Made, Tree!NULL, NULL

LEMMA SamePaths == \A tree : Tree!PathsOf(tree) = PathsOf(tree)
BY DEF Tree!PathsOf, PathsOf, Tree!Range, Range

-----------------------------------------------------------------------------
(* What the tree keeps, whoever asks *)

Typed(tree, V, M, max) ==
  /\ DOMAIN tree = 0..(Cardinality(DOMAIN tree) - 1) /\ Cardinality(DOMAIN tree) \in 1..max
  /\ \A id \in DOMAIN tree : /\ tree[id].name \in V
                             /\ Range(tree[id].children) \subseteq DOMAIN tree
                             /\ tree[id].mounted \in M

LEMMA ShapedTypes ==
  ASSUME NEW V, NEW M, NEW N, NEW tree, NEW P, Shaped(tree, P, N, V, M),
         NEW max \in Nat, N <= max
  PROVE  Typed(tree, V, M, max)
<1>1. N \in Nat \ {0} /\ DOMAIN tree = 0..(N - 1) /\ Cardinality(DOMAIN tree) = N
  BY NodesCount
<1>2. N \in 1..max
  BY <1>1
<1>3. ASSUME NEW id \in DOMAIN tree
      PROVE  /\ tree[id].name \in V /\ Range(tree[id].children) \subseteq DOMAIN tree
             /\ tree[id].mounted \in M
  <2>1. tree[id] \in NodeOf(V, M, N)
    BY <1>1 DEF Shaped
  <2>2. id \in 0..(N - 1)
    BY <1>1
  <2>3. \A c \in Range(tree[id].children) : c \in 0..(N - 1)
    BY <2>2, ChildOf
  <2> QED BY <2>1, <2>3, <1>1 DEF NodeOf
<1> QED BY <1>1, <1>2, <1>3 DEF Typed

\* A create keeps every path and mount, adds what is missing and gives the number
\* of the whole path.
CreateKeeps(tree, P, N, V, M, p, end, Q, T) ==
  /\ Shaped(end.tree, Q, T, V, M) /\ N <= T
  /\ \A i \in 0..(N - 1) : /\ Q[i] = P[i] /\ i \in 0..(T - 1)
                           /\ end.tree[i].mounted = tree[i].mounted
  /\ \A i \in 0..(T - 1) : i \in 0..(N - 1) \/ end.tree[i].mounted = <<0, 0>>
  /\ end.id \in 0..(T - 1) /\ Q[end.id] = p

LEMMA CreateDoes ==
  ASSUME NEW V, NEW M, NEW N, NEW tree, NEW P, Shaped(tree, P, N, V, M), <<0, 0>> \in M,
         NEW p, Rooted(p, V), NEW end, end = Made(tree, p)
  PROVE  \E Q, T : CreateKeeps(tree, P, N, V, M, p, end, Q, T)
<1>0. p \in Seq(V) /\ Len(p) \in Nat /\ Len(p) >= 1
  BY RootedLen
<1>1. PICK D : D = Depth(tree, p)
  OBVIOUS
<1>2. DepthFacts(tree, P, N, p, D)
  BY <1>1, DepthIs
<1>3. PICK Q, T : Grown(end, Q, T, tree, P, N, V, M, p, D, Len(p))
  BY <1>2, MadeGrown
<1>4. PICK U, id : U = end.tree /\ id = end.id
  OBVIOUS
<1>5. /\ Shaped(U, Q, T, V, M) /\ T = Count(N, D, Len(p))
      /\ id \in 0..(T - 1) /\ Q[id] = Pre(p, Len(p))
      /\ \A i \in 0..(N - 1) : Q[i] = P[i] /\ U[i].mounted = tree[i].mounted
      /\ \A k \in (D + 1)..Len(p) : U[N + (k - D - 1)].mounted = <<0, 0>>
  BY <1>3, <1>4 DEF Grown
<1>6. N \in Nat \ {0} /\ D \in 1..Len(p)
  BY <1>2, NodesCount DEF DepthFacts
<1>7. T = N + (Len(p) - D)
  <2>1. Len(p) <= D => N = N + (Len(p) - D)
    BY ONLY <1>0, <1>6
  <2> QED BY <2>1, <1>5 DEF Count
<1>8. /\ N <= T /\ \A i \in 0..(N - 1) : i \in 0..(T - 1)
      /\ \A i \in 0..(T - 1) : i \in 0..(N - 1)
           \/ (i - N + D + 1 \in (D + 1)..Len(p) /\ i = N + ((i - N + D + 1) - D - 1))
  BY ONLY <1>0, <1>6, <1>7
<1>9. \A i \in 0..(T - 1) : i \in 0..(N - 1) \/ U[i].mounted = <<0, 0>>
  <2>1. ASSUME NEW i \in 0..(T - 1), i \notin 0..(N - 1) PROVE U[i].mounted = <<0, 0>>
    <3>1. PICK k : k = i - N + D + 1
      OBVIOUS
    <3>2. k \in (D + 1)..Len(p) /\ i = N + (k - D - 1)
      BY <2>1, <3>1, <1>8
    <3> QED BY <3>2, <1>5
  <2> QED BY <2>1
<1>10. Q[id] = p
  BY <1>0, <1>5, PreAll
<1> QED BY <1>4, <1>5, <1>8, <1>9, <1>10 DEF CreateKeeps

\* A path begins with a slash, so its pieces begin with the empty name.
LEMMA TextRooted ==
  ASSUME NEW names, NEW m \in Nat, NEW n \in 1..m, NEW t \in [1..n -> names \cup {"/"}],
         t[1] = "/", NEW V, V = names \cup {""}
  PROVE  Rooted(Stripped(t), V)
<1>1. t \in Seq(names \cup {"/"}) /\ Len(t) = n
  <2>1. n \in Nat
    BY ONLY m \in Nat, n \in 1..m
  <2> QED BY ONLY <2>1, t \in [1..n -> names \cup {"/"}]
<1>2. t \in Seq(V \cup {"/"})
  BY ONLY <1>1, V = names \cup {""}, SeqWider
<1>3. Len(t) >= 1
  BY ONLY <1>1, m \in Nat, n \in 1..m
<1>4. "" \in V
  OBVIOUS
<1> QED BY <1>2, <1>3, <1>4, StrippedIs

-----------------------------------------------------------------------------
(* The tree of part "tree" stays one, and the map is kept *)

TreeV == TreeName \cup {""}
TreeM == TreeServer \cup {<<0, 0>>}
TreeInv == \E P, N : Shaped(t_node, P, N, TreeV, TreeM) /\ N <= TreeNodes

TreePaths == {Tree!Stripped(t) : t \in {u \in Tree!Text : Tree!IsPath(u)}}

LEMMA TreeTexts ==
  ASSUME NEW t \in Tree!Text, Tree!IsPath(t)
  PROVE  Tree!Stripped(t) \in TreePaths /\ Rooted(Tree!Stripped(t), TreeV)
<1>1. TreePath \in Nat
  BY TreeAssumption DEF Tree!FileTreeAssumption
<1>2. PICK n \in 1..TreePath : t \in [1..n -> TreeName \cup {"/"}]
  BY DEF Tree!Text
<1>3. t[1] = "/"
  BY DEF Tree!IsPath
<1>4. Rooted(Stripped(t), TreeV)
  BY <1>1, <1>2, <1>3, TextRooted DEF TreeV
<1> QED BY <1>4, SameStripped DEF TreePaths

LEMMA SameCount == \A S : Tree!Cardinality(S) = Cardinality(S)
BY DEF Tree!Cardinality, Cardinality

\* The invariant is what the run checks of the tree.
LEMMA TreeSound ==
  ASSUME TreeInv PROVE Tree!TypeOK /\ Tree!IsTree
<1>1. PICK P, N : Shaped(t_node, P, N, TreeV, TreeM) /\ N <= TreeNodes
  BY DEF TreeInv
<1>2. TreeNodes \in Nat
  BY TreeAssumption DEF Tree!FileTreeAssumption
<1>3. Typed(t_node, TreeV, TreeM, TreeNodes) /\ GoodTree(t_node)
  BY <1>1, <1>2, ShapedTypes, ShapedIsTree
<1>4. Tree!TypeOK
  BY <1>3, SameCount
     DEF Typed, Tree!TypeOK, Tree!Current_id, TreeV, TreeM, Tree!Range, Range
<1>5. Tree!IsTree
  BY <1>3 DEF GoodTree, Tree!IsTree, Tree!Range, Range
<1> QED BY <1>4, <1>5

\* The tree as the map of FileMap.
MapShows ==
  /\ Tree!KnownPaths = KnownOf(t_node)
  /\ [p \in Tree!KnownPaths |-> Tree!IdOf(p)] = NumberOf(t_node)
  /\ [p \in Tree!MountPaths |-> t_node[Tree!IdOf(p)].mounted] = MountsOf(t_node)

LEMMA Shown == MapShows
<1>1. (Tree!PathTo = PathsOf(t_node))
  BY SamePaths DEF Tree!PathTo
<1>2. (Tree!KnownPaths = KnownOf(t_node))
  BY <1>1 DEF Tree!KnownPaths, KnownOf
<1>3. (\A p : Tree!IdOf(p) = IdIn(t_node, p))
  BY <1>1 DEF Tree!IdOf, IdIn
<1>4. ([p \in Tree!KnownPaths |-> Tree!IdOf(p)] = NumberOf(t_node))
  BY <1>2, <1>3 DEF NumberOf
<1>5. (Tree!MountPaths = {PathsOf(t_node)[id] : id \in MountedIn(t_node)})
  BY <1>1, SameFound DEF Tree!MountPaths, MountedIn
<1>6. ([p \in Tree!MountPaths |-> t_node[Tree!IdOf(p)].mounted] = MountsOf(t_node))
  BY <1>3, <1>5 DEF MountsOf
<1> QED BY <1>2, <1>4, <1>6 DEF MapShows

LEMMA ShownNext == MapShows'
<1>1. (Tree!PathTo = PathsOf(t_node))'
  BY SamePaths DEF Tree!PathTo
<1>2. (Tree!KnownPaths = KnownOf(t_node))'
  BY <1>1 DEF Tree!KnownPaths, KnownOf
<1>3. (\A p : Tree!IdOf(p) = IdIn(t_node, p))'
  BY <1>1 DEF Tree!IdOf, IdIn
<1>4. ([p \in Tree!KnownPaths |-> Tree!IdOf(p)] = NumberOf(t_node))'
  BY <1>2, <1>3 DEF NumberOf
<1>5. (Tree!MountPaths = {PathsOf(t_node)[id] : id \in MountedIn(t_node)})'
  BY <1>1, SameFound DEF Tree!MountPaths, MountedIn
<1>6. ([p \in Tree!MountPaths |-> t_node[Tree!IdOf(p)].mounted] = MountsOf(t_node))'
  BY <1>3, <1>5 DEF MountsOf
<1> QED BY <1>2, <1>4, <1>6 DEF MapShows

LEMMA SameAbove ==
  ASSUME NEW p PROVE Tree!Map!Above(p) = AboveIn(KnownOf(t_node), p)
BY Shown DEF MapShows, Tree!Map!Above, AboveIn, Tree!Map!IsPrefix, IsPrefix

\* The tree before and after a step.
MapOf(tree, K, num, mts) == K = KnownOf(tree) /\ num = NumberOf(tree) /\ mts = MountsOf(tree)

LEMMA ShownAfter ==
  ASSUME NEW U, U = t_node'
  PROVE  /\ Tree!KnownPaths' = KnownOf(U)
         /\ [p \in Tree!KnownPaths |-> Tree!IdOf(p)]' = NumberOf(U)
         /\ [p \in Tree!MountPaths |-> t_node[Tree!IdOf(p)].mounted]' = MountsOf(U)
<1>1. MapShows'
  BY ShownNext
<1>2. Tree!KnownPaths' = KnownOf(t_node')
  BY <1>1 DEF MapShows
<1>3. [p \in Tree!KnownPaths |-> Tree!IdOf(p)]' = NumberOf(t_node')
  BY <1>1 DEF MapShows
<1>4. [p \in Tree!MountPaths |-> t_node[Tree!IdOf(p)].mounted]' = MountsOf(t_node')
  BY <1>1 DEF MapShows
<1> QED BY <1>2, <1>3, <1>4

LEMMA RefuseMaps ==
  ASSUME TreeInv, NEW why \in {"frFileNotFound", "frPathTooLong", "frCommandNotSupported"},
         Tree!Refused(why)
  PROVE  TreeInv' /\ Tree!Map!MapRefuse(why)
<1>1. t_node' = t_node /\ t_answer' = [op |-> "refused", asked |-> << >>, got |-> [type |-> why]]
  BY DEF Tree!Refused, Tree!Replied
<1>2. TreeInv'
  BY <1>1 DEF TreeInv
<1>3. Tree!Map!MapRefuse(why)
  BY <1>1, Shown, ShownAfter
     DEF MapShows, Tree!Map!MapRefuse, Tree!Map!Answered
<1> QED BY <1>2, <1>3

LEMMA SameMapCount == \A S : Tree!Map!Cardinality(S) = Cardinality(S)
BY DEF Tree!Map!Cardinality, Cardinality

LEMMA CreateStep ==
  ASSUME TreeInv, NEW t \in Tree!Text, Tree!Create(t)
  PROVE  TreeInv' /\ Tree!Map!MapCreate(Tree!Stripped(t)) /\ Tree!Stripped(t) \in TreePaths
<1>1. PICK P, N : Shaped(t_node, P, N, TreeV, TreeM) /\ N <= TreeNodes
  BY DEF TreeInv
<1>2. PICK p : p = Tree!Stripped(t)
  OBVIOUS
<1>3. p \in TreePaths /\ Rooted(p, TreeV)
  BY <1>2, TreeTexts DEF Tree!Create
<1>4. PICK tree, end : tree = t_node /\ end = Made(tree, p)
  OBVIOUS
<1>5. /\ Tree!Cardinality(DOMAIN end.tree) <= TreeNodes /\ t_node' = end.tree
      /\ t_answer' = [op |-> "create", asked |-> p, got |-> [type |-> "frOk", id |-> end.id]]
  BY <1>2, <1>4, SameMade DEF Tree!Create, Tree!Replied
<1>6. <<0, 0>> \in TreeM /\ Shaped(tree, P, N, TreeV, TreeM)
  BY <1>1, <1>4 DEF TreeM
<1>7. TreeInv'
  <2>1. PICK Q, T : CreateKeeps(tree, P, N, TreeV, TreeM, p, end, Q, T)
    BY <1>3, <1>4, <1>6, CreateDoes
  <2>2. Shaped(end.tree, Q, T, TreeV, TreeM)
    BY <2>1 DEF CreateKeeps
  <2>3. T <= TreeNodes
    <3>1. Cardinality(DOMAIN end.tree) = T
      BY <2>2, NodesCount
    <3> QED BY <3>1, <1>5, SameCount
  <2>4. Shaped(t_node', Q, T, TreeV, TreeM)
    BY <2>2, <1>5
  <2> QED BY <2>3, <2>4 DEF TreeInv, TreeV, TreeM
<1>8. CreateMaps(KnownOf(tree), KnownOf(end.tree), NumberOf(tree), NumberOf(end.tree),
                 MountsOf(tree), MountsOf(end.tree), t_answer', p)
  <2>1. PICK ans : ans = t_answer'
    OBVIOUS
  <2>2. ans = Told("create", p, [type |-> "frOk", id |-> end.id])
    BY <2>1, <1>5 DEF Told
  <2> QED BY <2>1, <2>2, <1>3, <1>4, <1>6, CreateMapped
<1>9. Tree!Map!MapCreate(p)
  <2>1. PICK K, L, num, numL, mts, mtsL :
          MapOf(tree, K, num, mts) /\ MapOf(end.tree, L, numL, mtsL)
    BY DEF MapOf
  <2>2. /\ Tree!KnownPaths = K /\ [q \in Tree!KnownPaths |-> Tree!IdOf(q)] = num
        /\ [q \in Tree!MountPaths |-> t_node[Tree!IdOf(q)].mounted] = mts
    BY <2>1, <1>4, Shown DEF MapShows, MapOf
  <2>3. /\ Tree!KnownPaths' = L /\ [q \in Tree!KnownPaths |-> Tree!IdOf(q)]' = numL
        /\ [q \in Tree!MountPaths |-> t_node[Tree!IdOf(q)].mounted]' = mtsL
    BY <2>1, <1>5, ShownAfter DEF MapOf
  <2>4. CreateMaps(K, L, num, numL, mts, mtsL, t_answer', p)
    BY <2>1, <1>8 DEF MapOf
  <2>5. Tree!Map!Above(p) = AboveIn(K, p)
    BY <2>1, <1>4, SameAbove DEF MapOf
  <2>6. PICK A, c : A = AboveIn(K, p) /\ c = Cardinality(K)
    OBVIOUS
  <2>7. Tree!Map!Above(p) = A /\ Tree!Map!Cardinality(Tree!KnownPaths) = c
    BY <2>2, <2>5, <2>6, SameMapCount
  <2>8. /\ L = K \cup NewIn(K, p)
        /\ numL = [q \in K \cup NewIn(K, p) |->
                     IF q \in K THEN num[q] ELSE c + Len(q) - Len(A) - 1]
        /\ t_answer' = Told("create", p, [type |-> "frOk", id |-> numL[p]])
        /\ mtsL = mts
    BY <2>4, <2>6 DEF CreateMaps
  <2>9. NewIn(K, p) = {q \in {SubSeq(p, 1, k) : k \in 1..Len(p)} : q \notin Tree!KnownPaths}
    BY <2>2 DEF NewIn
  <2> QED BY <2>2, <2>3, <2>7, <2>8, <2>9 DEF Told, Tree!Map!MapCreate, Tree!Map!Answered
<1> QED BY <1>2, <1>3, <1>7, <1>9

LEMMA ResolveStep ==
  ASSUME TreeInv, NEW t \in Tree!Text, Tree!Resolve(t)
  PROVE  TreeInv' /\ Tree!Map!MapResolve(Tree!Stripped(t)) /\ Tree!Stripped(t) \in TreePaths
<1>1. PICK P, N : Shaped(t_node, P, N, TreeV, TreeM) /\ N <= TreeNodes
  BY DEF TreeInv
<1>2. PICK p, tree : p = Tree!Stripped(t) /\ tree = t_node
  OBVIOUS
<1>3. p \in TreePaths /\ Rooted(p, TreeV)
  BY <1>2, TreeTexts DEF Tree!Resolve
<1>4. t_node' = tree /\ t_answer' = Told("resolve", p, ResolveGets(tree, p))
  BY <1>2, SameFound, SameDepth
     DEF Tree!Resolve, Tree!Replied, Told, ResolveGets
<1>5. TreeInv'
  BY <1>2, <1>4 DEF TreeInv
<1>6. PICK K, num, mts : MapOf(tree, K, num, mts)
  BY DEF MapOf
<1>7. ResolveMaps(K, num, mts, t_answer', p)
  <2>1. PICK ans : ans = t_answer'
    OBVIOUS
  <2>2. Shaped(tree, P, N, TreeV, TreeM)
    BY <1>1, <1>2
  <2>3. ans = Told("resolve", p, ResolveGets(tree, p))
    BY <2>1, <1>4
  <2>4. ResolveMaps(KnownOf(tree), NumberOf(tree), MountsOf(tree), ans, p)
    BY <2>2, <2>3, <1>3, ResolveMapped
  <2> QED BY <2>1, <2>4, <1>6 DEF MapOf
<1>8. Tree!Map!MapResolve(p)
  <2>1. /\ Tree!KnownPaths = K /\ [q \in Tree!KnownPaths |-> Tree!IdOf(q)] = num
        /\ [q \in Tree!MountPaths |-> t_node[Tree!IdOf(q)].mounted] = mts
    BY <1>2, <1>6, Shown DEF MapShows, MapOf
  <2>2. /\ Tree!KnownPaths' = K /\ [q \in Tree!KnownPaths |-> Tree!IdOf(q)]' = num
        /\ [q \in Tree!MountPaths |-> t_node[Tree!IdOf(q)].mounted]' = mts
    BY <1>4, <1>6, ShownAfter DEF MapOf
  <2>3. PICK A : A = AboveIn(K, p)
    OBVIOUS
  <2>4. Tree!Map!Above(p) = A
    BY <2>3, <1>2, <1>6, SameAbove DEF MapOf
  <2>5. \/ A \in DOMAIN mts
           /\ t_answer' = Told("resolve", p, [forward |-> mts[A],
                                              path |-> SubSeq(p, Len(A) + 1, Len(p))])
        \/ A \notin DOMAIN mts /\ p \in K
           /\ t_answer' = Told("resolve", p, [type |-> "frOk", id |-> num[p]])
        \/ A \notin DOMAIN mts /\ p \notin K
           /\ t_answer' = Told("resolve", p, [type |-> "frFileNotFound"])
    BY <2>3, <1>7 DEF ResolveMaps
  <2> QED BY <2>1, <2>2, <2>4, <2>5
          DEF Told, Tree!Map!MapResolve, Tree!Map!Answered, Tree!Map!Rest
<1> QED BY <1>2, <1>3, <1>5, <1>8

LEMMA MountStep ==
  ASSUME TreeInv, NEW t \in Tree!Text, NEW server \in TreeServer, Tree!Mount(t, server)
  PROVE  /\ TreeInv' /\ Tree!Map!MapMount(Tree!Stripped(t), server)
         /\ Tree!Stripped(t) \in TreePaths
<1>1. PICK P, N : Shaped(t_node, P, N, TreeV, TreeM) /\ N <= TreeNodes
  BY DEF TreeInv
<1>2. PICK p, tree, U, ans :
        p = Tree!Stripped(t) /\ tree = t_node /\ U = t_node' /\ ans = t_answer'
  OBVIOUS
<1>3. p \in TreePaths /\ Rooted(p, TreeV)
  BY <1>2, TreeTexts DEF Tree!Mount
<1>4. MountDoes(tree, U, ans, p, server)
  BY <1>2, SameFound
     DEF Tree!Mount, Tree!Replied, Told, MountDoes, MountedOn
<1>5. server \in TreeM /\ Shaped(tree, P, N, TreeV, TreeM)
  BY <1>1, <1>2 DEF TreeM
<1>6. /\ MountMaps(KnownOf(tree), MountsOf(tree), MountsOf(U), ans, p, server)
      /\ KnownOf(U) = KnownOf(tree) /\ NumberOf(U) = NumberOf(tree)
      /\ Shaped(U, P, N, TreeV, TreeM)
  BY <1>3, <1>4, <1>5, MountMapped
<1>7. TreeInv'
  <2>1. Shaped(t_node', P, N, TreeV, TreeM)
    BY <1>2, <1>6
  <2> QED BY <1>1, <2>1 DEF TreeInv, TreeV, TreeM
<1>8. PICK K, num, mts, mtsL : MapOf(tree, K, num, mts) /\ MapOf(U, K, num, mtsL)
  BY <1>6 DEF MapOf
<1>9. Tree!Map!MapMount(p, server)
  <2>1. /\ Tree!KnownPaths = K /\ [q \in Tree!KnownPaths |-> Tree!IdOf(q)] = num
        /\ [q \in Tree!MountPaths |-> t_node[Tree!IdOf(q)].mounted] = mts
    BY <1>2, <1>8, Shown DEF MapShows, MapOf
  <2>2. /\ Tree!KnownPaths' = K /\ [q \in Tree!KnownPaths |-> Tree!IdOf(q)]' = num
        /\ [q \in Tree!MountPaths |-> t_node[Tree!IdOf(q)].mounted]' = mtsL
    BY <1>2, <1>8, ShownAfter DEF MapOf
  <2>3. PICK A : A = AboveIn(K, p)
    OBVIOUS
  <2>4. Tree!Map!Above(p) = A
    BY <2>3, <1>2, <1>8, SameAbove DEF MapOf
  <2>5. \/ A \in DOMAIN mts /\ mtsL = mts
           /\ t_answer' = Told("mount", p, [type |-> "frAlreadyMounted"])
        \/ p \notin K /\ A \notin DOMAIN mts /\ mtsL = mts
           /\ t_answer' = Told("mount", p, [type |-> "frFileNotFound"])
        \/ p \in K /\ p \notin DOMAIN mts
           /\ t_answer' = Told("mount", p, [type |-> "frOk"])
           /\ mtsL = IF server[1] = 0 THEN mts
                     ELSE [q \in DOMAIN mts \cup {p} |-> IF q = p THEN server ELSE mts[q]]
    BY <2>3, <1>2, <1>6, <1>8 DEF MountMaps, MapOf
  <2> QED BY <2>1, <2>2, <2>4, <2>5
          DEF Told, Tree!Map!MapMount, Tree!Map!Answered
<1> QED BY <1>2, <1>3, <1>7, <1>9

LEMMA TreeStep ==
  ASSUME TreeInv, Tree!Next PROVE TreeInv' /\ Tree!Map!MapNext
<1>1. ASSUME Tree!TooLong PROVE TreeInv' /\ Tree!Map!MapRefuse("frPathTooLong")
  BY <1>1, RefuseMaps DEF Tree!TooLong
<1>2. ASSUME Tree!Unsupported PROVE TreeInv' /\ Tree!Map!MapRefuse("frCommandNotSupported")
  BY <1>2, RefuseMaps DEF Tree!Unsupported
<1>3. ASSUME NEW t \in Tree!Text, Tree!NotAPath(t)
      PROVE  TreeInv' /\ Tree!Map!MapRefuse("frFileNotFound")
  BY <1>3, RefuseMaps DEF Tree!NotAPath
<1>4. ASSUME NEW t \in Tree!Text, Tree!Create(t)
      PROVE  TreeInv' /\ \E p \in TreePaths : Tree!Map!MapCreate(p)
  BY <1>4, CreateStep
<1>5. ASSUME NEW t \in Tree!Text, Tree!Resolve(t)
      PROVE  TreeInv' /\ \E p \in TreePaths : Tree!Map!MapResolve(p)
  BY <1>5, ResolveStep
<1>6. ASSUME NEW t \in Tree!Text, NEW server \in TreeServer, Tree!Mount(t, server)
      PROVE  TreeInv' /\ \E p \in TreePaths, s \in TreeServer : Tree!Map!MapMount(p, s)
  BY <1>6, MountStep
<1>7. \/ \E p \in TreePaths : Tree!Map!MapCreate(p) \/ Tree!Map!MapResolve(p)
      \/ \E p \in TreePaths, s \in TreeServer : Tree!Map!MapMount(p, s)
      \/ \E why \in {"frFileNotFound", "frPathTooLong", "frCommandNotSupported"} :
           Tree!Map!MapRefuse(why)
      => Tree!Map!MapNext
  BY DEF TreePaths, Tree!Map!MapNext
<1> QED BY <1>1, <1>2, <1>3, <1>4, <1>5, <1>6, <1>7 DEF Tree!Next

-----------------------------------------------------------------------------
(* The programs: what each File, each mounter and the last request keep *)

ApiV == Name \cup {""}
ApiM == Server \cup {<<0, 0>>}
FileRec == [made : BOOLEAN, server_tid : {0, Fs, Procman} \cup Mounter, file_id : Nat,
            mounted : BOOLEAN, good : BOOLEAN]

\* A server is mounted on the name of a File or above it.
Reaches(tree, P, N, f, tid) ==
  \E i \in 0..(N - 1) : IsPrefix(P[i], Stripped(FileName[f])) /\ tree[i].mounted[1] = tid

FileOk(r, f, tree, P, N) ==
  /\ r \in FileRec /\ (r.good => r.server_tid # 0)
  /\ r.good /\ r.server_tid = Fs =>
       r.file_id \in 0..(N - 1) /\ P[r.file_id] = Stripped(FileName[f])
  /\ r.server_tid \in Mounter => Reaches(tree, P, N, f, r.server_tid)

LastOk(l, tree, P, N) ==
  l.op = "write" /\ l.type = "frOk" =>
    l.server \in Mounter /\ Reaches(tree, P, N, l.file, l.server)

\* Only the process manager, on /modules, and the mounters that serve are mounted.
MountOk(m, tree, P, i) ==
  Mounted(tree, i) =>
    \/ P[i] = <<"", "modules">> /\ tree[i].mounted = <<Procman, 0>>
    \/ \E s \in Mounter : /\ P[i] = Stripped(MountName[s]) /\ m[s] = "serve"
                          /\ tree[i].mounted = <<s, MountParameter[s]>>

MainOk(m, P, N, s) ==
  /\ m[s] \in {"create", "mount", "serve"}
  /\ m[s] = "mount" => \E i \in 0..(N - 1) : P[i] = Stripped(MountName[s])

ApiState(P, N) ==
  /\ Shaped(node, P, N, ApiV, ApiM) /\ N <= MaxNode
  /\ root_fs \in {0, Fs} /\ stuck \subseteq {Fs, Terminal}
  /\ DOMAIN file = File /\ \A f \in File : FileOk(file[f], f, node, P, N)
  /\ LastOk(last, node, P, N)
  /\ DOMAIN main = Mounter /\ \A s \in Mounter : MainOk(main, P, N, s)
  /\ \A i \in 0..(N - 1) : MountOk(main, node, P, i)
ApiInv == \E P, N : ApiState(P, N)

LEMMA ApiTexts ==
  ASSUME NEW t \in Text, IsPath(t)
  PROVE  Rooted(Stripped(t), ApiV)
<1>1. MAX_PATH \in Nat
  BY FileTreeAssumption
<1>2. PICK n \in 1..MAX_PATH : t \in [1..n -> Name \cup {"/"}]
  BY DEF Text
<1>3. t[1] = "/"
  BY DEF IsPath
<1> QED BY <1>1, <1>2, <1>3, TextRooted DEF ApiV

LEMMA ApiSound ==
  ASSUME ApiInv PROVE IsTree /\ FilesSound
<1>1. PICK P, N : ApiState(P, N)
  BY DEF ApiInv
<1>2. Shaped(node, P, N, ApiV, ApiM)
  BY <1>1 DEF ApiState
<1>3. PathTo = P /\ DOMAIN node = 0..(N - 1)
  <2>1. DOMAIN node = 0..(N - 1)
    BY <1>2, NodesCount
  <2> QED BY <2>1, <1>2, PathsAre DEF PathTo
<1>4. IsTree
  BY <1>2, ShapedIsTree DEF GoodTree, IsTree
<1>5. ApiTypeOK
  <2>1. \A f \in File : file[f] \in FileRec /\ (file[f].good => file[f].server_tid # 0)
    BY <1>1 DEF ApiState, FileOk
  <2>2. \A s \in Mounter : main[s] \in {"create", "mount", "serve"}
    BY <1>1 DEF ApiState, MainOk
  <2>3. root_fs \in {0, Fs} /\ stuck \subseteq {Fs, Terminal}
    BY <1>1 DEF ApiState
  <2> QED BY <2>1, <2>2, <2>3 DEF ApiTypeOK, FileRec
<1>6. NumberKept
  <2>1. ASSUME NEW f \in File, file[f].good, file[f].server_tid = Fs
        PROVE  file[f].file_id \in 0..(N - 1) /\ P[file[f].file_id] = Stripped(FileName[f])
    BY <2>1, <1>1 DEF ApiState, FileOk
  <2> QED BY <2>1, <1>3 DEF NumberKept
<1>7. WritesReach
  <2>1. ASSUME last.op = "write", last.type = "frOk"
        PROVE  Reaches(node, P, N, last.file, last.server)
    BY <2>1, <1>1 DEF ApiState, LastOk
  <2> QED BY <2>1, <1>3 DEF WritesReach, OnPath, Reaches
<1>8. AssertsHold
  <2>1. \A s \in Mounter : main[s] \in {"create", "mount", "serve"}
    BY <1>1 DEF ApiState, MainOk
  <2> QED BY <2>1 DEF AssertsHold
<1> QED BY <1>4, <1>5, <1>6, <1>7, <1>8 DEF FilesSound

LEMMA FirstTwo ==
  /\ 0..(2 - 1) = {0, 1} /\ 0..1 = {0, 1} /\ 1..(2 - 1) = {1}
  /\ 2 \in Nat \ {0} /\ 0 < 1 /\ 0 # 1
OBVIOUS

LEMMA OneAndNone ==
  /\ \A x : Range(<<x>>) = {x} /\ NoRepeat(<<x>>)
  /\ Range(<< >>) = {} /\ NoRepeat(<< >>)
<1>1. ASSUME NEW x PROVE Range(<<x>>) = {x}
  BY DEF Range
<1>2. ASSUME NEW x PROVE NoRepeat(<<x>>)
  BY DEF NoRepeat
<1>3. Range(<< >>) = {}
  BY DEF Range
<1>4. NoRepeat(<< >>)
  BY DEF NoRepeat
<1> QED BY <1>1, <1>2, <1>3, <1>4

LEMMA TwoPieces == ASSUME NEW x, NEW y PROVE Append(<<x>>, y) = <<x, y>>
<1>1. <<x>> \in Seq({x, y}) /\ <<x, y>> \in Seq({x, y}) /\ y \in {x, y}
  OBVIOUS
<1>2. Len(<<x>>) = 1 /\ <<x>>[1] = x /\ Len(<<x, y>>) = 2 /\ <<x, y>>[1] = x /\ <<x, y>>[2] = y
  OBVIOUS
<1>3. PICK s, t, u : s = <<x>> /\ t = <<x, y>> /\ u = Append(<<x>>, y)
  OBVIOUS
<1>4. /\ u = Append(s, y) /\ s \in Seq({x, y}) /\ Len(s) = 1 /\ s[1] = x
      /\ t \in Seq({x, y}) /\ Len(t) = 2 /\ t[1] = x /\ t[2] = y /\ y \in {x, y}
  BY <1>1, <1>2, <1>3
<1>5. u \in Seq({x, y}) /\ Len(u) = 2 /\ u[1] = x /\ u[2] = y
  BY ONLY <1>4, AppendProperties
<1>6. \A i \in 1..2 : i = 1 \/ i = 2
  BY ONLY TRUE
<1>7. \A i \in 1..Len(u) : u[i] = t[i]
  BY <1>4, <1>5, <1>6
<1>8. u = t
  BY ONLY <1>4, <1>5, <1>7, SeqEqual
<1> QED BY <1>3, <1>8

LEMMA OneMore == \A x : Append(<< >>, x) = <<x>>
OBVIOUS

\* A root with one child.
NodeIs(x, name, children, mounted) ==
  x = [name |-> name, children |-> children, mounted |-> mounted]
Both(s, x, y) == s = [id \in {0, 1} |-> IF id = 0 THEN x ELSE y]

LEMMA TwoNodes ==
  ASSUME NEW V, NEW M, NEW a \in V, NEW b \in V, NEW z \in M, NEW m \in M,
         NEW one, one = << 1 >>, NEW none, none = << >>,
         NEW x, NodeIs(x, a, one, z), NEW y, NodeIs(y, b, none, m),
         NEW tree, Both(tree, x, y),
         NEW root \in Seq(V), NEW child, child = Append(root, b), root = <<"">>,
         NEW P, Both(P, root, child)
  PROVE  Shaped(tree, P, 2, V, M)
<1>0. /\ 0..(2 - 1) = {0, 1} /\ 0..1 = {0, 1} /\ 1..(2 - 1) = {1}
      /\ 2 \in Nat \ {0} /\ 0 < 1 /\ 0 # 1
  BY FirstTwo
<1>1. tree[0] = x /\ tree[1] = y /\ DOMAIN tree = {0, 1}
  BY ONLY <1>0, Both(tree, x, y) DEF Both
<1>2. P[0] = root /\ P[1] = child /\ DOMAIN P = {0, 1}
  BY ONLY <1>0, Both(P, root, child) DEF Both
<1>3. /\ x.name = a /\ x.children = one /\ x.mounted = z
      /\ y.name = b /\ y.children = none /\ y.mounted = m
  BY DEF NodeIs
<1>4. one \in Seq(0..(2 - 1)) /\ none \in Seq(0..(2 - 1))
  BY ONLY <1>0, one = << 1 >>, none = << >>
<1>5. child \in Seq(V) /\ Len(child) = Len(root) + 1 /\ Len(root) \in Nat
  BY AppendProperties
<1>6. root # child
  BY ONLY <1>5
<1>7. Range(one) = {1} /\ Range(none) = {} /\ NoRepeat(one) /\ NoRepeat(none)
  BY OneAndNone
<1>9. tree \in [0..(2 - 1) -> NodeOf(V, M, 2)]
  <2>1. x \in NodeOf(V, M, 2) /\ y \in NodeOf(V, M, 2)
    BY <1>4 DEF NodeOf, NodeIs
  <2>2. tree = [i \in 0..(2 - 1) |-> IF i = 0 THEN x ELSE y]
    BY <1>0 DEF Both
  <2> QED BY <2>1, <2>2
<1>10. P \in [0..(2 - 1) -> Seq(V)]
  <2>1. P = [i \in 0..(2 - 1) |-> IF i = 0 THEN root ELSE child]
    BY <1>0 DEF Both
  <2> QED BY <2>1, <1>5
<1>11. Linked(tree, P, 2)
  BY <1>0, <1>1, <1>2, <1>3, <1>7 DEF Linked
<1>12. Owned(tree, 2)
  BY <1>0, <1>1, <1>3, <1>7 DEF Owned
<1>13. Once(tree, 2)
  BY <1>0, <1>1, <1>3, <1>7 DEF Once
<1>14. Apart(P, 2)
  BY <1>0, <1>2, <1>6 DEF Apart
<1> QED BY <1>0, <1>2, <1>9, <1>10, <1>11, <1>12, <1>13, <1>14 DEF Shaped

Only(s, x) == s = [id \in {0} |-> x]

LEMMA OneNode ==
  ASSUME NEW V, NEW M, NEW a \in V, NEW z \in M, NEW none, none = << >>,
         NEW x, NodeIs(x, a, none, z), NEW tree, Only(tree, x),
         NEW root \in Seq(V), root = <<"">>, NEW P, Only(P, root)
  PROVE  Shaped(tree, P, 1, V, M)
<1>0. 0..(1 - 1) = {0} /\ 1..(1 - 1) = {} /\ 1 \in Nat \ {0}
  BY ONLY TRUE
<1>1. tree[0] = x /\ x.children = none /\ P[0] = root
  BY DEF NodeIs, Only
<1>2. Range(none) = {} /\ NoRepeat(none)
  BY OneAndNone
<1>3. x \in NodeOf(V, M, 1)
  <2>1. none \in Seq(0..(1 - 1))
    BY NoPiece
  <2> QED BY <2>1 DEF NodeOf, NodeIs
<1>4. tree \in [0..(1 - 1) -> NodeOf(V, M, 1)] /\ P \in [0..(1 - 1) -> Seq(V)]
  BY <1>0, <1>3 DEF Only
<1>5. Linked(tree, P, 1) /\ Once(tree, 1)
  BY <1>0, <1>1, <1>2 DEF Linked, Once
<1>6. Owned(tree, 1)
  BY <1>0 DEF Owned
<1>7. Apart(P, 1)
  BY <1>0 DEF Apart
<1> QED BY <1>0, <1>1, <1>4, <1>5, <1>6, <1>7 DEF Shaped

LEMMA FilesBegin ==
  ASSUME ApiInit PROVE ApiInv
<1>1. PICK e, w, root, child, one, none, z, m :
        /\ e = "" /\ w = "modules" /\ root = <<"">> /\ child = Append(root, w)
        /\ one = << 1 >> /\ none = << >> /\ z = <<0, 0>> /\ m = <<Procman, 0>>
  OBVIOUS
<1>2. PICK x, y : /\ x = [name |-> e, children |-> one, mounted |-> z]
                  /\ y = [name |-> w, children |-> none, mounted |-> m]
  OBVIOUS
<1>3. node = [id \in {0, 1} |-> IF id = 0 THEN x ELSE y]
  <2>1. node = [id \in {0, 1} |->
                  IF id = 0 THEN [Fresh(e) EXCEPT !.children = one]
                  ELSE [Fresh(w) EXCEPT !.mounted = m]]
    BY <1>1 DEF ApiInit
  <2>2. Fresh(e) = [name |-> e, children |-> none, mounted |-> z]
    BY <1>1 DEF Fresh
  <2>3. Fresh(w) = [name |-> w, children |-> none, mounted |-> z]
    BY <1>1 DEF Fresh
  <2>4. [Fresh(e) EXCEPT !.children = one] = x
    BY ONLY <2>2, <1>2
  <2>5. [Fresh(w) EXCEPT !.mounted = m] = y
    BY ONLY <2>3, <1>2
  <2> QED BY ONLY <2>1, <2>4, <2>5
<1>4. PICK P : Both(P, root, child)
  BY DEF Both
<1>5. e \in ApiV /\ w \in ApiV /\ z \in ApiM /\ m \in ApiM
  BY <1>1, FileApiAssumption DEF ApiV, ApiM
<1>6. root \in Seq(ApiV)
  <2>1. root = Append(<< >>, e)
    BY <1>1, OneMore
  <2> QED BY <2>1, <1>5, OnePiece
<1>7. Shaped(node, P, 2, ApiV, ApiM)
  <2>1. root = <<"">> /\ child = Append(root, w) /\ one = << 1 >> /\ none = << >>
    BY <1>1
  <2>2. NodeIs(x, e, one, z) /\ NodeIs(y, w, none, m)
    BY ONLY <1>2 DEF NodeIs
  <2>3. Both(node, x, y)
    BY ONLY <1>3 DEF Both
  <2> QED BY ONLY <2>1, <2>2, <2>3, <1>4, <1>5, <1>6, TwoNodes
<1>8. 2 <= MaxNode
  <2>1. MaxNode >= 2 /\ MaxNode \in Nat
    BY FileApiAssumption, FileTreeAssumption
  <2> QED BY ONLY <2>1
<1>9. \A f \in File : FileOk(file[f], f, node, P, 2)
  <2>1. ASSUME NEW f \in File PROVE FileOk(file[f], f, node, P, 2)
    <3>1. file[f] = [made |-> FALSE, server_tid |-> 0, file_id |-> 0,
                     mounted |-> FALSE, good |-> FALSE]
      BY DEF ApiInit
    <3>2. file[f] \in FileRec /\ ~file[f].good /\ file[f].server_tid = 0
      BY <3>1 DEF FileRec
    <3>3. 0 \notin Mounter
      BY FileApiAssumption
    <3> QED BY <3>2, <3>3 DEF FileOk
  <2> QED BY <2>1
<1>10. LastOk(last, node, P, 2)
  <2>1. last.op # "write"
    BY DEF ApiInit
  <2> QED BY <2>1 DEF LastOk
<1>11. \A s \in Mounter : MainOk(main, P, 2, s)
  <2>1. \A s \in Mounter : main[s] = "create"
    BY DEF ApiInit
  <2> QED BY <2>1 DEF MainOk
<1>12. \A i \in 0..(2 - 1) : MountOk(main, node, P, i)
  <2>1. 0..(2 - 1) = {0, 1} /\ 0..1 = {0, 1}
    OBVIOUS
  <2>2. ~Mounted(node, 0)
    <3>1. node[0].mounted = z
      BY ONLY <1>2, <1>3
    <3>2. z[1] = 0
      BY <1>1
    <3> QED BY <3>1, <3>2 DEF Mounted
  <2>3. P[1] = child /\ node[1].mounted = m
    BY ONLY <2>1, <1>2, <1>3, <1>4 DEF Both
  <2>4. child = <<"", "modules">>
    <3>1. child = Append(<<e>>, w)
      BY <1>1
    <3>2. Append(<<e>>, w) = <<e, w>>
      BY TwoPieces
    <3> QED BY <3>1, <3>2, <1>1
  <2>5. P[1] = <<"", "modules">> /\ node[1].mounted = <<Procman, 0>>
    BY <2>3, <2>4, <1>1
  <2>6. MountOk(main, node, P, 0)
    BY <2>2 DEF MountOk
  <2>7. MountOk(main, node, P, 1)
    BY <2>5 DEF MountOk
  <2> QED BY <2>1, <2>6, <2>7
<1>13. /\ root_fs \in {0, Fs} /\ stuck \subseteq {Fs, Terminal}
       /\ DOMAIN file = File /\ DOMAIN main = Mounter
  BY DEF ApiInit
<1>14. ApiState(P, 2)
  BY <1>7, <1>8, <1>9, <1>10, <1>11, <1>12, <1>13 DEF ApiState
<1> QED BY <1>14 DEF ApiInv

-----------------------------------------------------------------------------
(* A request of a program to the file server *)

\* Paths and mounts are there for good.
Later(tree, P, N, U, Q, T) ==
  /\ Shaped(U, Q, T, ApiV, ApiM) /\ T <= MaxNode
  /\ \A i \in 0..(N - 1) : i \in 0..(T - 1) /\ Q[i] = P[i]
  /\ \A i \in 0..(N - 1) : Mounted(tree, i) => U[i].mounted = tree[i].mounted

LEMMA NotMounter == 0 \notin Mounter /\ Fs \notin Mounter /\ Procman \notin Mounter
                    /\ Fs # 0 /\ Procman # 0 /\ Fs # Procman
BY FileApiAssumption

LEMMA LaterReaches ==
  ASSUME NEW tree, NEW P, NEW N, NEW U, NEW Q, NEW T, Later(tree, P, N, U, Q, T),
         NEW f, NEW tid \in Mounter, Reaches(tree, P, N, f, tid)
  PROVE  Reaches(U, Q, T, f, tid)
<1>1. PICK i \in 0..(N - 1) : IsPrefix(P[i], Stripped(FileName[f])) /\ tree[i].mounted[1] = tid
  BY DEF Reaches
<1>2. Mounted(tree, i)
  BY <1>1, NotMounter DEF Mounted
<1>3. i \in 0..(T - 1) /\ Q[i] = P[i] /\ U[i].mounted = tree[i].mounted
  BY <1>2 DEF Later
<1> QED BY <1>1, <1>3 DEF Reaches

LEMMA LaterFile ==
  ASSUME NEW tree, NEW P, NEW N, NEW U, NEW Q, NEW T, Later(tree, P, N, U, Q, T),
         NEW f, NEW r, FileOk(r, f, tree, P, N)
  PROVE  FileOk(r, f, U, Q, T)
<1>1. r \in FileRec /\ (r.good => r.server_tid # 0)
  BY DEF FileOk
<1>2. ASSUME r.good, r.server_tid = Fs
      PROVE  r.file_id \in 0..(T - 1) /\ Q[r.file_id] = Stripped(FileName[f])
  <2>1. r.file_id \in 0..(N - 1) /\ P[r.file_id] = Stripped(FileName[f])
    BY <1>2 DEF FileOk
  <2> QED BY <2>1 DEF Later
<1>3. ASSUME r.server_tid \in Mounter PROVE Reaches(U, Q, T, f, r.server_tid)
  <2>1. Reaches(tree, P, N, f, r.server_tid)
    BY <1>3 DEF FileOk
  <2> QED BY <1>3, <2>1, LaterReaches
<1> QED BY <1>1, <1>2, <1>3 DEF FileOk

LEMMA LaterLast ==
  ASSUME NEW tree, NEW P, NEW N, NEW U, NEW Q, NEW T, Later(tree, P, N, U, Q, T),
         NEW l, LastOk(l, tree, P, N)
  PROVE  LastOk(l, U, Q, T)
<1>1. ASSUME l.op = "write", l.type = "frOk"
      PROVE  l.server \in Mounter /\ Reaches(U, Q, T, l.file, l.server)
  <2>1. l.server \in Mounter /\ Reaches(tree, P, N, l.file, l.server)
    BY <1>1 DEF LastOk
  <2> QED BY <2>1, LaterReaches
<1> QED BY <1>1 DEF LastOk

LEMMA LaterMain ==
  ASSUME NEW tree, NEW P, NEW N, NEW U, NEW Q, NEW T, Later(tree, P, N, U, Q, T),
         NEW m, NEW s, MainOk(m, P, N, s)
  PROVE  MainOk(m, Q, T, s)
BY DEF MainOk, Later

\* What is mounted after a create was mounted before it.
Grows(P, N, Q, T) ==
  /\ Later(node, P, N, node', Q, T)
  /\ \A i \in 0..(T - 1) : Mounted(node', i) => i \in 0..(N - 1) /\ Mounted(node, i)
CreateGives(P, N, p, Q, T) ==
  /\ Grows(P, N, Q, T)
  /\ \E id \in 0..(T - 1) : Q[id] = p /\ answer'.got = [type |-> "frOk", id |-> id]

LEMMA CreateApi ==
  ASSUME NEW P, NEW N, Shaped(node, P, N, ApiV, ApiM), N <= MaxNode,
         NEW t \in Text, Create(t), NEW p, p = Stripped(t)
  PROVE  \E Q, T : CreateGives(P, N, p, Q, T)
<1>1. PICK tree, end, U : tree = node /\ end = Made(tree, p) /\ U = end.tree
  OBVIOUS
<1>2. /\ node' = U /\ Cardinality(DOMAIN U) <= MaxNode
      /\ answer'.got = [type |-> "frOk", id |-> end.id]
  BY <1>1 DEF Create, Replied
<1>3. Shaped(tree, P, N, ApiV, ApiM) /\ <<0, 0>> \in ApiM
  BY <1>1 DEF ApiM
<1>4. Rooted(p, ApiV)
  BY ApiTexts DEF Create
<1>5. PICK Q, T : CreateKeeps(tree, P, N, ApiV, ApiM, p, end, Q, T)
  BY <1>1, <1>3, <1>4, CreateDoes
<1>6. /\ Shaped(U, Q, T, ApiV, ApiM)
      /\ \A i \in 0..(N - 1) : /\ Q[i] = P[i] /\ i \in 0..(T - 1)
                               /\ U[i].mounted = tree[i].mounted
      /\ \A i \in 0..(T - 1) : i \in 0..(N - 1) \/ U[i].mounted = <<0, 0>>
      /\ end.id \in 0..(T - 1) /\ Q[end.id] = p
  BY <1>1, <1>5 DEF CreateKeeps
<1>7. T <= MaxNode
  <2>1. Cardinality(DOMAIN U) = T
    BY <1>6, NodesCount
  <2> QED BY <2>1, <1>2
<1>8. Later(tree, P, N, U, Q, T)
  BY <1>6, <1>7 DEF Later
<1>9. ASSUME NEW i \in 0..(T - 1), Mounted(U, i)
      PROVE  i \in 0..(N - 1) /\ Mounted(tree, i)
  <2>1. U[i].mounted # <<0, 0>>
    BY <1>9 DEF Mounted
  <2>2. i \in 0..(N - 1) /\ U[i].mounted = tree[i].mounted
    BY <2>1, <1>6
  <2> QED BY <2>2, <1>9 DEF Mounted
<1>10. Later(node, P, N, node', Q, T)
  BY <1>1, <1>2, <1>8
<1>11. \A i \in 0..(T - 1) : Mounted(node', i) => i \in 0..(N - 1) /\ Mounted(node, i)
  BY <1>1, <1>2, <1>9
<1>12. \E id \in 0..(T - 1) : Q[id] = p /\ answer'.got = [type |-> "frOk", id |-> id]
  BY <1>2, <1>6
<1> QED BY <1>10, <1>11, <1>12 DEF CreateGives, Grows

LEMMA LaterSame ==
  ASSUME NEW tree, NEW P, NEW N, Shaped(tree, P, N, ApiV, ApiM), N <= MaxNode
  PROVE  Later(tree, P, N, tree, P, N)
BY DEF Later

-----------------------------------------------------------------------------
(* The steps of the programs *)

LEMMA FsMainKeeps ==
  ASSUME ApiInv, FsMain PROVE ApiInv'
<1>1. PICK P, N : ApiState(P, N)
  BY DEF ApiInv
<1>2. /\ node' = node /\ file' = file /\ main' = main /\ last' = last /\ stuck' = stuck
      /\ root_fs' = Fs
  BY DEF FsMain
<1>3. ApiState(P, N)'
  BY <1>1, <1>2 DEF ApiState
<1> QED BY <1>3 DEF ApiInv

LEMMA FilesUnchanged ==
  ASSUME ApiInv, UNCHANGED apiVars PROVE ApiInv'
BY DEF ApiInv, ApiState, apiVars

\* A File changes, and the tree at most grows.
LEMMA FileChanges ==
  ASSUME NEW P, NEW N, ApiState(P, N), NEW Q, NEW T, Grows(P, N, Q, T),
         NEW f \in File, NEW r, file' = [file EXCEPT ![f] = r], FileOk(r, f, node', Q, T),
         root_fs' = root_fs, main' = main, last' = last, stuck' = stuck
  PROVE  ApiState(Q, T)'
<1>1. /\ root_fs \in {0, Fs} /\ stuck \subseteq {Fs, Terminal}
      /\ DOMAIN file = File /\ \A g \in File : FileOk(file[g], g, node, P, N)
      /\ LastOk(last, node, P, N)
      /\ DOMAIN main = Mounter /\ \A s \in Mounter : MainOk(main, P, N, s)
      /\ \A i \in 0..(N - 1) : MountOk(main, node, P, i)
  BY DEF ApiState
<1>2. PICK U, tree : U = node' /\ tree = node
  OBVIOUS
<1>3. /\ Later(tree, P, N, U, Q, T)
      /\ \A i \in 0..(T - 1) : Mounted(U, i) => i \in 0..(N - 1) /\ Mounted(tree, i)
  BY <1>2 DEF Grows
<1>4. DOMAIN file' = File /\ file'[f] = r /\ \A g \in File : g # f => file'[g] = file[g]
  BY <1>1
<1>5. \A g \in File : FileOk(file'[g], g, U, Q, T)
  <2>1. ASSUME NEW g \in File PROVE FileOk(file'[g], g, U, Q, T)
    <3>1. CASE g = f
      BY <3>1, <1>2, <1>4
    <3>2. CASE g # f
      <4>1. FileOk(file[g], g, tree, P, N)
        BY <1>1, <1>2
      <4>2. FileOk(file[g], g, U, Q, T)
        BY <4>1, <1>3, LaterFile
      <4> QED BY <4>2, <3>2, <1>4
    <3> QED BY <3>1, <3>2
  <2> QED BY <2>1
<1>6. LastOk(last, U, Q, T)
  BY <1>1, <1>2, <1>3, LaterLast
<1>7. \A s \in Mounter : MainOk(main, Q, T, s)
  BY <1>1, <1>3, LaterMain
<1>8. \A i \in 0..(T - 1) : MountOk(main, U, Q, i)
  <2>1. ASSUME NEW i \in 0..(T - 1), Mounted(U, i) PROVE MountOk(main, U, Q, i)
    <3>1. i \in 0..(N - 1) /\ Mounted(tree, i)
      BY <2>1, <1>3
    <3>2. MountOk(main, tree, P, i)
      BY <3>1, <1>1, <1>2
    <3>3. Q[i] = P[i] /\ U[i].mounted = tree[i].mounted
      BY <3>1, <1>3 DEF Later
    <3> QED BY <3>1, <3>2, <3>3 DEF MountOk
  <2> QED BY <2>1 DEF MountOk
<1>9. Shaped(U, Q, T, ApiV, ApiM) /\ T <= MaxNode
  BY <1>3 DEF Later
<1> QED BY <1>1, <1>2, <1>4, <1>5, <1>6, <1>7, <1>8, <1>9 DEF ApiState

LEMMA NewKeeps ==
  ASSUME ApiInv, NEW f \in File, New(f) PROVE ApiInv'
<1>1. PICK P, N : ApiState(P, N)
  BY DEF ApiInv
<1>2. /\ node' = node /\ root_fs' = root_fs /\ main' = main /\ last' = last /\ stuck' = stuck
      /\ file' = [file EXCEPT ![f].made = TRUE]
  BY DEF New
<1>3. PICK x, r : x = file[f] /\ r = [x EXCEPT !.made = TRUE]
  OBVIOUS
<1>4. file' = [file EXCEPT ![f] = r]
  BY <1>2, <1>3
<1>5. FileOk(x, f, node, P, N)
  BY <1>1, <1>3 DEF ApiState
<1>6. /\ r \in FileRec /\ r.good = x.good /\ r.server_tid = x.server_tid
      /\ r.file_id = x.file_id
  <2>1. x \in FileRec
    BY <1>5 DEF FileOk
  <2> QED BY <2>1, <1>3 DEF FileRec
<1>7. FileOk(r, f, node, P, N)
  BY <1>5, <1>6 DEF FileOk
<1>8. Shaped(node, P, N, ApiV, ApiM) /\ N <= MaxNode
  BY <1>1 DEF ApiState
<1>9. Grows(P, N, P, N)
  BY <1>2, <1>8, LaterSame DEF Grows
<1>10. FileOk(r, f, node', P, N)
  BY <1>2, <1>7
<1>11. ApiState(P, N)'
  BY <1>1, <1>2, <1>4, <1>9, <1>10, FileChanges
<1> QED BY <1>11 DEF ApiInv

LEMMA CreateFileKeeps ==
  ASSUME ApiInv, NEW f \in File, CreateFile(f) PROVE ApiInv'
<1>1. PICK P, N : ApiState(P, N)
  BY DEF ApiInv
<1>2. /\ Create(FileName[f]) /\ root_fs' = root_fs /\ main' = main /\ last' = last
      /\ stuck' = stuck
      /\ file' = [file EXCEPT ![f].server_tid = Fs, ![f].file_id = answer'.got.id,
                              ![f].good = TRUE]
  BY DEF CreateFile
<1>3. PICK p : p = Stripped(FileName[f])
  OBVIOUS
<1>4. FileName[f] \in Text
  BY FileApiAssumption
<1>5. PICK Q, T : CreateGives(P, N, p, Q, T)
  <2>1. Shaped(node, P, N, ApiV, ApiM) /\ N <= MaxNode
    BY <1>1 DEF ApiState
  <2> QED BY <2>1, <1>2, <1>3, <1>4, CreateApi
<1>6. PICK id \in 0..(T - 1) : Q[id] = p /\ answer'.got = [type |-> "frOk", id |-> id]
  BY <1>5 DEF CreateGives
<1>7. answer'.got.id = id /\ id \in Nat
  BY <1>6
<1>8. PICK x, r : x = file[f] /\ r = [x EXCEPT !.server_tid = Fs, !.file_id = id, !.good = TRUE]
  OBVIOUS
<1>9. file' = [file EXCEPT ![f] = r]
  BY <1>2, <1>7, <1>8
<1>10. r \in FileRec /\ r.good /\ r.server_tid = Fs /\ r.file_id = id
  <2>1. x \in FileRec
    BY <1>1, <1>8 DEF ApiState, FileOk
  <2> QED BY <2>1, <1>7, <1>8 DEF FileRec
<1>11. FileOk(r, f, node', Q, T)
  BY <1>3, <1>6, <1>10, NotMounter DEF FileOk
<1>12. ApiState(Q, T)'
  BY <1>1, <1>2, <1>5, <1>9, <1>11, FileChanges DEF CreateGives
<1> QED BY <1>12 DEF ApiInv

\* The process manager numbers the modules from 0.
LEMMA ModuleFound ==
  ASSUME NEW path
  PROVE  ModulesResolve(path).id \in Nat /\ ModulesResolve(path).mounted \in BOOLEAN
<1>1. CASE Len(path) = 1 /\ ModuleIndex(path[1]) # {}
  <2>1. PICK I : I = ModuleIndex(path[1])
    OBVIOUS
  <2>2. \A i \in I : i \in Nat /\ i >= 1
    <3>1. Modules \in Seq(STRING)
      BY FileApiAssumption
    <3>2. DOMAIN Modules = 1..Len(Modules)
      BY <3>1
    <3>3. \A i \in I : i \in 1..Len(Modules)
      BY <2>1, <3>2 DEF ModuleIndex
    <3> QED BY ONLY <3>3
  <2>3. FirstOf(I) \in I
    <3>1. PICK i \in I : TRUE
      BY <1>1, <2>1
    <3>2. \E j \in I : \A k \in I : j <= k
      BY ONLY <2>2, <3>1, LeastNatural
    <3> QED BY <3>2 DEF FirstOf
  <2>4. PICK j : j = FirstOf(I)
    OBVIOUS
  <2>5. j - 1 \in Nat
    BY ONLY <2>2, <2>3, <2>4
  <2>6. ModulesResolve(path) = [id |-> j - 1, mounted |-> TRUE, type |-> "frOk"]
    BY <1>1, <2>1, <2>4 DEF ModulesResolve
  <2> QED BY <2>5, <2>6
<1>2. CASE ~(Len(path) = 1 /\ ModuleIndex(path[1]) # {})
  <2>1. ModulesResolve(path) = [id |-> 0, mounted |-> FALSE, type |-> "frFileNotFound"]
    BY <1>2 DEF ModulesResolve, Refusal
  <2> QED BY <2>1
<1> QED BY <1>1, <1>2

\* The server that a resolve is forwarded to is mounted above the name.
LEMMA ResolveTakes ==
  ASSUME NEW P, NEW N, ApiState(P, N), NEW f \in File, Resolve(FileName[f])
  PROVE  FileOk(Taken(answer'.got), f, node, P, N)
<1>1. PICK p, id, D, got : /\ p = Stripped(FileName[f]) /\ id = Deepest(node, p)
                           /\ D = Depth(node, p) /\ got = answer'.got
  OBVIOUS
<1>2. got = IF Found(node, p) = {} THEN [type |-> "frFileNotFound"]
            ELSE IF Mounted(node, id)
            THEN [forward |-> node[id].mounted, path |-> SubSeq(p, D + 1, Len(p))]
            ELSE [type |-> "frOk", id |-> id]
  BY <1>1 DEF Resolve, Replied
<1>3. Shaped(node, P, N, ApiV, ApiM) /\ Rooted(p, ApiV)
  <2>1. FileName[f] \in Text
    BY FileApiAssumption
  <2> QED BY <2>1, <1>1, ApiTexts DEF Resolve, ApiState
<1>4. /\ id \in 0..(N - 1) /\ P[id] = Pre(p, D)
      /\ Found(node, p) = {} <=> D # Len(p) /\ ~Mounted(node, id)
      /\ D = Len(p) => P[id] = p
  BY <1>1, <1>3, FoundIs
<1>5. IsPrefix(P[id], p)
  <2>1. D \in 1..Len(p)
    BY <1>1, <1>3, DepthIs DEF DepthFacts
  <2>2. p \in Seq(ApiV) /\ Len(p) \in Nat
    BY <1>3, RootedLen
  <2>3. D \in 0..Len(p) /\ Len(p) \in 0..Len(p)
    BY ONLY <2>1, <2>2
  <2>4. IsPrefix(Pre(p, D), Pre(p, Len(p)))
    BY <2>2, <2>3, PreIsPrefix
  <2>5. Pre(p, Len(p)) = p
    BY <2>2, PreAll
  <2> QED BY <2>4, <2>5, <1>4
<1>6. PICK r : r = Taken(got)
  OBVIOUS
<1>7. CASE Found(node, p) = {}
  <2>1. got = [type |-> "frFileNotFound"]
    BY <1>2, <1>7
  <2>2. "forward" \notin DOMAIN got /\ got.type # "frOk"
    BY <2>1
  <2>3. r = [made |-> TRUE, server_tid |-> Fs, file_id |-> 0, mounted |-> FALSE, good |-> FALSE]
    BY <2>2, <1>6 DEF Taken
  <2>4. r \in FileRec /\ ~r.good /\ r.server_tid = Fs
    BY <2>3 DEF FileRec
  <2> QED BY <2>4, <1>1, <1>6, NotMounter DEF FileOk
<1>8. CASE Found(node, p) # {} /\ ~Mounted(node, id)
  <2>1. got = [type |-> "frOk", id |-> id]
    BY <1>2, <1>8
  <2>2. "forward" \notin DOMAIN got /\ got.type = "frOk" /\ got.id = id
    BY <2>1
  <2>3. r = [made |-> TRUE, server_tid |-> Fs, file_id |-> id, mounted |-> FALSE, good |-> TRUE]
    BY <2>2, <1>6 DEF Taken
  <2>4. id \in Nat
    BY <1>4
  <2>5. r \in FileRec /\ r.server_tid = Fs /\ r.file_id = id
    BY <2>3, <2>4 DEF FileRec
  <2>6. P[id] = p
    BY <1>4, <1>8
  <2> QED BY <2>5, <2>6, <1>1, <1>4, <1>6, NotMounter DEF FileOk
<1>9. CASE Found(node, p) # {} /\ Mounted(node, id)
  <2>1. PICK w, rest : w = node[id].mounted /\ rest = SubSeq(p, D + 1, Len(p))
    OBVIOUS
  <2>2. got = [forward |-> w, path |-> rest]
    BY <1>2, <1>9, <2>1
  <2>3. "forward" \in DOMAIN got /\ got.forward = w /\ got.path = rest
    BY <2>2
  <2>4. \/ w = <<Procman, 0>>
        \/ \E s \in Mounter : w = <<s, MountParameter[s]>>
    BY <1>4, <1>9, <2>1 DEF ApiState, MountOk
  <2>5. PICK b : b = IF w[1] = Procman THEN ModulesResolve(rest)
                     ELSE MounterResolves(rest, w[2])
    OBVIOUS
  <2>6. r = [made |-> TRUE, server_tid |-> w[1], file_id |-> b.id, mounted |-> b.mounted,
             good |-> b.type = "frOk"]
    BY <2>3, <2>5, <1>6 DEF Taken
  <2>7. b.id \in Nat /\ b.mounted \in BOOLEAN
    <3>1. CASE w = <<Procman, 0>>
      BY <3>1, <2>5, ModuleFound
    <3>2. CASE \E s \in Mounter : w = <<s, MountParameter[s]>>
      <4>1. PICK s \in Mounter : w = <<s, MountParameter[s]>>
        BY <3>2
      <4>2. w[1] # Procman /\ w[2] \in Nat
        BY <4>1, FileApiAssumption
      <4>3. b = MounterResolves(rest, w[2])
        BY <4>2, <2>5
      <4> QED BY <4>2, <4>3 DEF MounterResolves, Refusal
    <3> QED BY <2>4, <3>1, <3>2
  <2>8. w[1] \in {Procman} \cup Mounter
    BY <2>4
  <2>9. /\ r \in FileRec /\ r.server_tid = w[1] /\ r.server_tid # 0 /\ r.server_tid # Fs
    BY <2>6, <2>7, <2>8, NotMounter DEF FileRec
  <2>10. Reaches(node, P, N, f, r.server_tid)
    BY <2>1, <2>9, <1>1, <1>4, <1>5 DEF Reaches
  <2> QED BY <2>9, <2>10, <1>1, <1>6 DEF FileOk
<1> QED BY <1>7, <1>8, <1>9

LEMMA ResolveFileKeeps ==
  ASSUME ApiInv, NEW f \in File, ResolveFile(f) PROVE ApiInv'
<1>1. PICK P, N : ApiState(P, N)
  BY DEF ApiInv
<1>2. /\ Resolve(FileName[f]) /\ root_fs' = root_fs /\ main' = main /\ last' = last
      /\ stuck' = stuck /\ file' = [file EXCEPT ![f] = Taken(answer'.got)]
  BY DEF ResolveFile, Learns
<1>3. node' = node
  BY <1>2 DEF Resolve
<1>4. PICK r : r = Taken(answer'.got)
  OBVIOUS
<1>5. FileOk(r, f, node', P, N)
  BY <1>1, <1>2, <1>3, <1>4, ResolveTakes
<1>6. Shaped(node, P, N, ApiV, ApiM) /\ N <= MaxNode
  BY <1>1 DEF ApiState
<1>7. Grows(P, N, P, N)
  BY <1>3, <1>6, LaterSame DEF Grows
<1>8. file' = [file EXCEPT ![f] = r]
  BY <1>2, <1>4
<1>9. ApiState(P, N)'
  BY <1>1, <1>2, <1>5, <1>7, <1>8, FileChanges
<1> QED BY <1>9 DEF ApiInv

\* A request to a server changes what was last answered, and what hangs.
LEMMA AskedKeeps ==
  ASSUME NEW P, NEW N, ApiState(P, N), NEW f \in File, NEW op, NEW type,
         Asked(f, op, type), stuck' \subseteq {Fs, Terminal},
         op = "write" /\ type = "frOk" => file[f].server_tid \in Mounter
  PROVE  ApiInv'
<1>1. /\ node' = node /\ root_fs' = root_fs /\ file' = file /\ main' = main
      /\ last' = [op |-> op, file |-> f, server |-> file[f].server_tid,
                  id |-> file[f].file_id, type |-> type, given |-> file[f].good]
  BY DEF Asked
<1>2. /\ last'.op = op /\ last'.type = type /\ last'.file = f
      /\ last'.server = file[f].server_tid
  BY <1>1
<1>3. LastOk(last', node, P, N)
  <2>1. ASSUME op = "write", type = "frOk"
        PROVE  /\ file[f].server_tid \in Mounter
               /\ Reaches(node, P, N, f, file[f].server_tid)
    <3>1. file[f].server_tid \in Mounter
      BY <2>1
    <3> QED BY <3>1 DEF ApiState, FileOk
  <2> QED BY <2>1, <1>2 DEF LastOk
<1>4. ApiState(P, N)'
  BY <1>1, <1>3 DEF ApiState
<1> QED BY <1>4 DEF ApiInv

LEMMA WriteFileKeeps ==
  ASSUME ApiInv, NEW f \in File, WriteFile(f) PROVE ApiInv'
<1>1. PICK P, N : ApiState(P, N)
  BY DEF ApiInv
<1>2. PICK type : type = WriteType(f)
  OBVIOUS
<1>3. Asked(f, "write", type) /\ stuck' = stuck
  BY <1>2 DEF WriteFile
<1>4. stuck' \subseteq {Fs, Terminal}
  BY <1>1, <1>3 DEF ApiState
<1>5. type = "frOk" => file[f].server_tid \in Mounter
  BY <1>2 DEF WriteType, Writable
<1> QED BY <1>1, <1>3, <1>4, <1>5, AskedKeeps

LEMMA ReadFileKeeps ==
  ASSUME ApiInv, NEW f \in File, ReadFile(f) PROVE ApiInv'
<1>1. PICK P, N : ApiState(P, N)
  BY DEF ApiInv
<1>2. PICK type : type = IF Unread(f) = {} THEN "frOk" ELSE "none"
  OBVIOUS
<1>3. Asked(f, "read", type) /\ stuck' = stuck \cup Unread(f)
  BY <1>2 DEF ReadFile
<1>4. stuck' \subseteq {Fs, Terminal}
  BY <1>1, <1>3 DEF ApiState, Unread
<1>5. "read" # "write"
  OBVIOUS
<1> QED BY <1>1, <1>3, <1>4, <1>5, AskedKeeps

LEMMA SizeFileKeeps ==
  ASSUME ApiInv, NEW f \in File, SizeFile(f) PROVE ApiInv'
<1>1. PICK P, N : ApiState(P, N)
  BY DEF ApiInv
<1>2. PICK type : type = IF file[f].server_tid = Procman THEN "frOk"
                         ELSE "frCommandNotSupported"
  OBVIOUS
<1>3. Asked(f, "size", type) /\ stuck' = stuck
  BY <1>2 DEF SizeFile
<1>4. stuck' \subseteq {Fs, Terminal}
  BY <1>1, <1>3 DEF ApiState
<1>5. "size" # "write"
  OBVIOUS
<1> QED BY <1>1, <1>3, <1>4, <1>5, AskedKeeps

-----------------------------------------------------------------------------
(* The mounters *)

\* A mounter goes on, and the tree changes with it.
LEMMA MainChanges ==
  ASSUME NEW P, NEW N, ApiState(P, N), NEW Q, NEW T, Later(node, P, N, node', Q, T),
         NEW s \in Mounter, NEW to, main' = [main EXCEPT ![s] = to],
         MainOk(main', Q, T, s),
         \A i \in 0..(T - 1) : MountOk(main', node', Q, i),
         root_fs' = root_fs, file' = file, last' = last, stuck' = stuck
  PROVE  ApiInv'
<1>1. /\ root_fs \in {0, Fs} /\ stuck \subseteq {Fs, Terminal}
      /\ DOMAIN file = File /\ \A g \in File : FileOk(file[g], g, node, P, N)
      /\ LastOk(last, node, P, N)
      /\ DOMAIN main = Mounter /\ \A k \in Mounter : MainOk(main, P, N, k)
  BY DEF ApiState
<1>2. PICK U, tree, m : U = node' /\ tree = node /\ m = main'
  OBVIOUS
<1>3. Later(tree, P, N, U, Q, T)
  BY <1>2
<1>4. DOMAIN m = Mounter /\ \A k \in Mounter : k # s => m[k] = main[k]
  BY <1>1, <1>2
<1>5. \A g \in File : FileOk(file[g], g, U, Q, T)
  <2>1. ASSUME NEW g \in File PROVE FileOk(file[g], g, U, Q, T)
    <3>1. FileOk(file[g], g, tree, P, N)
      BY <1>1, <1>2
    <3> QED BY <3>1, <1>3, LaterFile
  <2> QED BY <2>1
<1>6. LastOk(last, U, Q, T)
  BY <1>1, <1>2, <1>3, LaterLast
<1>7. \A k \in Mounter : MainOk(m, Q, T, k)
  <2>1. ASSUME NEW k \in Mounter PROVE MainOk(m, Q, T, k)
    <3>1. CASE k = s
      BY <3>1, <1>2
    <3>2. CASE k # s
      <4>1. MainOk(main, Q, T, k)
        BY <1>1, <1>3, LaterMain
      <4>2. m[k] = main[k]
        BY <3>2, <1>4
      <4> QED BY <4>1, <4>2 DEF MainOk
    <3> QED BY <3>1, <3>2
  <2> QED BY <2>1
<1>8. Shaped(U, Q, T, ApiV, ApiM) /\ T <= MaxNode
  BY <1>3 DEF Later
<1>9. \A i \in 0..(T - 1) : MountOk(m, U, Q, i)
  BY <1>2
<1>10. ApiState(Q, T)'
  BY <1>1, <1>2, <1>4, <1>5, <1>6, <1>7, <1>8, <1>9 DEF ApiState
<1> QED BY <1>10 DEF ApiInv

LEMMA MounterCreates ==
  ASSUME ApiInv, NEW s \in Mounter, main[s] = "create", Create(MountName[s]),
         main' = [main EXCEPT ![s] = "mount"],
         root_fs' = root_fs, file' = file, last' = last, stuck' = stuck
  PROVE  ApiInv'
<1>1. PICK P, N : ApiState(P, N)
  BY DEF ApiInv
<1>2. PICK p : p = Stripped(MountName[s])
  OBVIOUS
<1>3. PICK Q, T : CreateGives(P, N, p, Q, T)
  <2>1. Shaped(node, P, N, ApiV, ApiM) /\ N <= MaxNode
    BY <1>1 DEF ApiState
  <2>2. MountName[s] \in Text
    BY FileApiAssumption
  <2> QED BY <2>1, <2>2, <1>2, CreateApi
<1>4. PICK m, U : m = main' /\ U = node'
  OBVIOUS
<1>5. DOMAIN main = Mounter
  BY <1>1 DEF ApiState
<1>6. m[s] = "mount" /\ \A k \in Mounter : k # s => m[k] = main[k]
  BY <1>4, <1>5
<1>7. MainOk(m, Q, T, s)
  BY <1>2, <1>3, <1>6 DEF MainOk, CreateGives
<1>8. Later(node, P, N, U, Q, T)
      /\ \A i \in 0..(T - 1) : Mounted(U, i) => i \in 0..(N - 1) /\ Mounted(node, i)
  BY <1>3, <1>4 DEF CreateGives, Grows
<1>9. ASSUME NEW i \in 0..(T - 1), Mounted(U, i) PROVE MountOk(m, U, Q, i)
  <2>1. i \in 0..(N - 1) /\ Mounted(node, i)
    BY <1>8, <1>9
  <2>2. Q[i] = P[i] /\ U[i].mounted = node[i].mounted
    BY <2>1, <1>8 DEF Later
  <2>3. MountOk(main, node, P, i)
    BY <2>1, <1>1 DEF ApiState
  <2>4. \A k \in Mounter : main[k] = "serve" => m[k] = "serve"
    BY <1>6
  <2> QED BY <2>1, <2>2, <2>3, <2>4 DEF MountOk
<1>10. \A i \in 0..(T - 1) : MountOk(m, U, Q, i)
  BY <1>9 DEF MountOk
<1> QED BY <1>1, <1>4, <1>7, <1>8, <1>10, MainChanges

\* The node of a mounter that has created its path is there and nothing is mounted
\* on it, so the mount succeeds.
LEMMA MounterMounts ==
  ASSUME ApiInv, NEW s \in Mounter, main[s] = "mount",
         Mount(MountName[s], <<s, MountParameter[s]>>),
         main' = [main EXCEPT ![s] = IF answer'.got.type = "frOk" THEN "serve" ELSE "failed"],
         root_fs' = root_fs, file' = file, last' = last, stuck' = stuck
  PROVE  ApiInv'
<1>1. PICK P, N : ApiState(P, N)
  BY DEF ApiInv
<1>2. PICK p, id, server : /\ p = Stripped(MountName[s]) /\ id = Deepest(node, p)
                           /\ server = <<s, MountParameter[s]>>
  OBVIOUS
<1>3. Shaped(node, P, N, ApiV, ApiM) /\ Rooted(p, ApiV)
  <2>1. MountName[s] \in Text
    BY FileApiAssumption
  <2> QED BY <2>1, <1>1, <1>2, ApiTexts DEF Mount, ApiState
<1>4. PICK i \in 0..(N - 1) : P[i] = p
  <2>1. MainOk(main, P, N, s)
    BY <1>1 DEF ApiState
  <2> QED BY <2>1, <1>2 DEF MainOk
<1>5. Depth(node, p) = Len(p) /\ id = i
  BY <1>2, <1>3, <1>4, KnownPath
<1>6. ~Mounted(node, id)
  <2>1. SUFFICES ASSUME Mounted(node, id) PROVE FALSE
    OBVIOUS
  <2>2. MountOk(main, node, P, i)
    BY <1>1, <1>4 DEF ApiState
  <2>3. \/ p = <<"", "modules">>
        \/ \E k \in Mounter : p = Stripped(MountName[k]) /\ main[k] = "serve"
    BY <2>1, <2>2, <1>4, <1>5 DEF MountOk
  <2>4. p # <<"", "modules">>
    BY <1>2, FileApiAssumption
  <2>5. PICK k \in Mounter : p = Stripped(MountName[k]) /\ main[k] = "serve"
    BY <2>3, <2>4
  <2>6. k = s
    BY <2>5, <1>2, FileApiAssumption
  <2> QED BY <2>5, <2>6
<1>7. Found(node, p) # {}
  BY <1>2, <1>5 DEF Found
<1>8. node' = MountedOn(node, id, server) /\ answer'.got = [type |-> "frOk"]
  BY <1>2, <1>6, <1>7 DEF Mount, Replied, MountedOn
<1>9. server \in ApiM /\ id \in 0..(N - 1)
  BY <1>2, <1>4, <1>5, FileApiAssumption DEF ApiM
<1>10. PICK U, m, tree : U = node' /\ m = main' /\ tree = node
  OBVIOUS
<1>11. /\ Shaped(U, P, N, ApiV, ApiM) /\ U[id].mounted = server
       /\ \A j \in 0..(N - 1) : j # id => U[j].mounted = tree[j].mounted
  <2>1. Shaped(tree, P, N, ApiV, ApiM) /\ U = MountedOn(tree, id, server)
    BY <1>3, <1>8, <1>10
  <2> QED BY ONLY <2>1, <1>9, MountKeeps
<1>12. N <= MaxNode /\ DOMAIN main = Mounter
  BY <1>1 DEF ApiState
<1>13. Later(tree, P, N, U, P, N)
  BY <1>6, <1>10, <1>11, <1>12 DEF Later
<1>14. main' = [main EXCEPT ![s] = "serve"]
  BY <1>8
<1>15. m[s] = "serve" /\ \A k \in Mounter : k # s => m[k] = main[k]
  BY <1>10, <1>12, <1>14
<1>16. MainOk(m, P, N, s)
  BY <1>15 DEF MainOk
<1>17. ASSUME NEW j \in 0..(N - 1), Mounted(U, j) PROVE MountOk(m, U, P, j)
  <2>1. CASE j = id
    BY <2>1, <1>2, <1>4, <1>5, <1>11, <1>15 DEF MountOk
  <2>2. CASE j # id
    <3>1. U[j].mounted = tree[j].mounted
      BY <2>2, <1>11
    <3>2. Mounted(tree, j)
      BY <3>1, <1>17 DEF Mounted
    <3>3. MountOk(main, tree, P, j)
      BY <1>1, <1>10 DEF ApiState
    <3>4. \A k \in Mounter : main[k] = "serve" => m[k] = "serve"
      BY <1>15
    <3> QED BY <3>1, <3>2, <3>3, <3>4 DEF MountOk
  <2> QED BY <2>1, <2>2
<1>18. \A j \in 0..(N - 1) : MountOk(m, U, P, j)
  BY <1>17 DEF MountOk
<1> QED BY <1>1, <1>10, <1>13, <1>14, <1>16, <1>18, MainChanges

LEMMA MounterKeeps ==
  ASSUME ApiInv, NEW s \in Mounter, MounterStep(s) PROVE ApiInv'
<1>1. root_fs' = root_fs /\ file' = file /\ last' = last /\ stuck' = stuck
  BY DEF MounterStep
<1>2. CASE /\ main[s] = "create" /\ Create(MountName[s])
           /\ main' = [main EXCEPT ![s] = "mount"]
  BY <1>1, <1>2, MounterCreates
<1>3. CASE /\ main[s] = "mount" /\ Mount(MountName[s], <<s, MountParameter[s]>>)
           /\ main' = [main EXCEPT
                ![s] = IF answer'.got.type = "frOk" THEN "serve" ELSE "failed"]
  BY <1>1, <1>3, MounterMounts
<1> QED BY <1>2, <1>3 DEF MounterStep

LEMMA FilesStep ==
  ASSUME ApiInv, ApiNext PROVE ApiInv'
BY FsMainKeeps, MounterKeeps, NewKeeps, CreateFileKeeps, ResolveFileKeeps, WriteFileKeeps,
   ReadFileKeeps, SizeFileKeeps DEF ApiNext

-----------------------------------------------------------------------------
(* The theorems *)

FilesInv == TreeInv /\ ApiInv

LEMMA TreeBegins ==
  ASSUME Tree!Init PROVE TreeInv /\ Tree!Map!MapInit
<1>1. PICK e, z, none, x, tree, root, P :
        /\ e = "" /\ z = <<0, 0>> /\ none = << >> /\ tree = t_node /\ root = <<"">>
        /\ x = [name |-> e, children |-> none, mounted |-> z]
        /\ P = [i \in {0} |-> root]
  OBVIOUS
<1>2. tree = [id \in {0} |-> x]
  BY <1>1 DEF Tree!Init, Tree!Fresh
<1>3. e \in TreeV /\ z \in TreeM
  BY <1>1 DEF TreeV, TreeM
<1>4. root \in Seq(TreeV)
  <2>1. root = Append(<< >>, e)
    BY <1>1, OneMore
  <2> QED BY <2>1, <1>3, OnePiece
<1>5. Shaped(tree, P, 1, TreeV, TreeM)
  <2>1. NodeIs(x, e, none, z)
    BY <1>1 DEF NodeIs
  <2>2. Only(tree, x) /\ Only(P, root)
    BY <1>1, <1>2 DEF Only
  <2>3. none = << >> /\ root = <<"">>
    BY <1>1
  <2> QED BY ONLY <2>1, <2>2, <2>3, <1>3, <1>4, OneNode
<1>6. 1 <= TreeNodes
  <2>1. TreeNodes \in Nat \ {0}
    BY TreeAssumption DEF Tree!FileTreeAssumption
  <2> QED BY ONLY <2>1
<1>7. TreeInv
  BY <1>1, <1>5, <1>6 DEF TreeInv
<1>8. Tree!Map!MapInit
  <2>1. 0..(1 - 1) = {0}
    BY ONLY TRUE
  <2>2. P[0] = root
    BY <1>1
  <2>3. KnownOf(tree) = {root} /\ NumberOf(tree)[root] = 0
    BY <1>5, <2>1, <2>2, KnownIs
  <2>4. NumberOf(tree) = [p \in {root} |-> 0]
    <3>1. NumberOf(tree) = [p \in KnownOf(tree) |-> NumberOf(tree)[p]]
      BY DEF NumberOf
    <3> QED BY <3>1, <2>3
  <2>5. MountsOf(tree) = [p \in {} |-> 0]
    <3>1. ~Mounted(tree, 0)
      <4>1. x = [name |-> e, children |-> none, mounted |-> z]
        BY <1>1
      <4>2. x.mounted = z
        BY ONLY <4>1
      <4>3. tree[0] = x
        BY ONLY <1>2
      <4>4. z[1] = 0
        BY <1>1
      <4> QED BY <4>2, <4>3, <4>4 DEF Mounted
    <3>2. MountsShow(tree, P, 1)
      BY <1>5, MountsAre
    <3>3. DOMAIN MountsOf(tree) = {}
      BY <3>1, <3>2, <2>1 DEF MountsShow
    <3>4. MountsOf(tree) = [p \in DOMAIN MountsOf(tree) |-> MountsOf(tree)[p]]
      BY DEF MountsOf
    <3> QED BY <3>3, <3>4
  <2>6. t_answer = [op |-> "none", asked |-> << >>, got |-> [type |-> "none"]]
    BY DEF Tree!Init, Tree!NoAnswer
  <2>7. /\ Tree!KnownPaths = {<<"">>}
        /\ [p \in Tree!KnownPaths |-> Tree!IdOf(p)] = [p \in {<<"">>} |-> 0]
        /\ [p \in Tree!MountPaths |-> t_node[Tree!IdOf(p)].mounted] = [p \in {} |-> 0]
    BY <1>1, <2>3, <2>4, <2>5, Shown DEF MapShows
  <2> QED BY <2>6, <2>7 DEF Tree!Map!MapInit
<1> QED BY <1>7, <1>8

LEMMA FilesInvStep ==
  ASSUME FilesInv, [AllNext]_allVars PROVE FilesInv'
<1>1. CASE part = "tree" /\ Tree!Next /\ UNCHANGED apiVars
  BY <1>1, TreeStep, FilesUnchanged DEF FilesInv
<1>2. CASE ApiNext /\ UNCHANGED treeVars
  <2>1. TreeInv'
    BY <1>2 DEF FilesInv, TreeInv, treeVars
  <2> QED BY <2>1, <1>2, FilesStep DEF FilesInv
<1>3. CASE UNCHANGED allVars
  <2>1. UNCHANGED apiVars /\ t_node' = t_node
    BY <1>3 DEF allVars, treeVars
  <2>2. TreeInv'
    BY <2>1 DEF FilesInv, TreeInv
  <2> QED BY <2>1, <2>2, FilesUnchanged DEF FilesInv
<1> QED BY <1>1, <1>2, <1>3 DEF AllNext

\* Whatever is created and mounted, every node but the root is in one list, once,
\* of an older node, and two children of a node differ in name, so resolve ends and
\* finds one node (fs.cpp:106-180).
THEOREM TreesAlwaysSound == AllSpec => []TreesSound
<1>1. AllInit => FilesInv
  BY TreeBegins, FilesBegin DEF AllInit, FilesInv
<1>2. FilesInv /\ [AllNext]_allVars => FilesInv'
  BY FilesInvStep
<1>3. FilesInv => TreesSound
  BY TreeSound, ApiSound DEF FilesInv, TreesSound
<1> QED BY <1>1, <1>2, <1>3, PTL DEF AllSpec

\* The number that a File got from the file server leads to its name for good; a
\* write that succeeds has reached a server mounted on the File's name or above it;
\* and a server's own create and mount succeed (api_file.cpp:45-80, null.cpp:12-15,
\* tty.cpp:438-442).
THEOREM FilesAlwaysSound == AllSpec => []FilesSound
<1>1. AllInit => FilesInv
  BY TreeBegins, FilesBegin DEF AllInit, FilesInv
<1>2. FilesInv /\ [AllNext]_allVars => FilesInv'
  BY FilesInvStep
<1>3. FilesInv => FilesSound
  BY ApiSound DEF FilesInv
<1> QED BY <1>1, <1>2, <1>3, PTL DEF AllSpec

\* Every create, resolve and mount does to the known paths, their numbers and
\* mounts what FileMap says, and answers so (fs.cpp:106-252).
THEOREM ServerAlwaysMaps == AllSpec => ServerImplementsMap
<1>1. AllInit => FilesInv /\ Tree!Map!MapInit
  BY TreeBegins, FilesBegin DEF AllInit, FilesInv
<1>2. FilesInv /\ [AllNext]_allVars => FilesInv'
  BY FilesInvStep
<1>3. FilesInv /\ [AllNext]_allVars =>
        [part = "tree" => Tree!Map!MapNext]_(Tree!Map!mapVars)
  <2> SUFFICES ASSUME FilesInv, [AllNext]_allVars, part = "tree"
               PROVE  Tree!Map!MapNext \/ UNCHANGED Tree!Map!mapVars
    OBVIOUS
  <2>1. CASE Tree!Next
    BY <2>1, TreeStep DEF FilesInv
  <2>2. CASE UNCHANGED allVars
    <3>1. t_node' = t_node /\ t_answer' = t_answer
      BY <2>2 DEF allVars, treeVars
    <3> QED BY <3>1, Shown, ShownAfter DEF MapShows, Tree!Map!mapVars
  <2>3. part # "programs" /\ part # "print"
    OBVIOUS
  <2> QED BY <2>1, <2>2, <2>3 DEF AllNext
<1> QED BY <1>1, <1>2, <1>3, PTL DEF AllSpec, ServerImplementsMap
=============================================================================
