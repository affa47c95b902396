--------------------------- MODULE MCMemoryProofs ----------------------------
(***************************************************************************)
(* What the runs of MCMemory check, proved for all values of the           *)
(* constants: buffers of any length and any number of servers and          *)
(* forwards, memory and heaps of any size with any requests, and any number *)
(* of address spaces with any programs that lie in their files.            *)
(***************************************************************************)
EXTENDS MCMemory, Induction, FiniteSetTheorems, SequenceTheorems, TLAPS

-----------------------------------------------------------------------------
(***************************************************************************)
(* The memory manager: every page the constructor put into the list is in  *)
(* one block, the allocated blocks are what callers and the kernel heap    *)
(* hold, the counter of free pages is right, and alloc returns NULL only   *)
(* when there is no run of free pages that is long enough.                 *)
(*                                                                         *)
(* The lemmas are about any list of blocks: a Chain.  Mark, Cut and Merge  *)
(* make a Chain of a Chain, and Given and Open, the allocated blocks and   *)
(* the free pages of a list, say what they change.  Sound is the invariant *)
(* of a list and its holders; every operation is a composition of steps    *)
(* that keep it, the allocation in the middle of which the heap takes a    *)
(* page as well (SoundGrow).                                               *)
(***************************************************************************)

\* A block of any size
NBlock == [first : Nat, count : Nat \ {0}, allocated : BOOLEAN]
End(b) == b.first + b.count
\* The pages of a block
PagesOf(b) == b.first..(End(b) - 1)

\* The allocated blocks and the free pages among the first k blocks; the first of
\* all is the reserved one and is given to nobody
Given(bs, k) == {<<bs[i].first, bs[i].count>> : i \in {j \in 2..k : bs[j].allocated}}
Open(bs, k) == UNION {PagesOf(bs[i]) : i \in {j \in 1..k : ~bs[j].allocated}}

\* A list without gaps behind its first block, as Tiling says of the allocator's
Chain(bs) ==
  /\ bs \in Seq(NBlock) /\ Len(bs) >= 2
  /\ bs[1] = [first |-> 0, count |-> Reserved, allocated |-> TRUE]
  /\ bs[2].first = Reserved + 1
  /\ \A i \in 2..(Len(bs) - 1) : bs[i + 1].first = End(bs[i])
  /\ End(bs[Len(bs)]) = Top

\* The fields of a block of a list.
LEMMA BlockTypes ==
  ASSUME NEW bs \in Seq(NBlock), NEW i \in 1..Len(bs)
  PROVE  /\ bs[i] \in NBlock
         /\ bs[i].first \in Nat /\ bs[i].count \in Nat /\ bs[i].count > 0
         /\ bs[i].allocated \in BOOLEAN
         /\ End(bs[i]) \in Nat /\ End(bs[i]) > bs[i].first
         /\ Len(bs) \in Nat
<1>1. bs[i] \in NBlock /\ Len(bs) \in Nat
  OBVIOUS
<1>2. bs[i].first \in Nat /\ bs[i].count \in Nat \ {0} /\ bs[i].allocated \in BOOLEAN
  BY <1>1 DEF NBlock
<1> QED BY <1>1, <1>2 DEF End

\* A block that absorbs the one that begins where it ends has the pages of both.
LEMMA JoinedPages ==
  ASSUME NEW x, NEW y, NEW z, x.first \in Nat, x.count \in Nat, y.count \in Nat,
         y.first = x.first + x.count, z.first = x.first, z.count = x.count + y.count
  PROVE  End(z) = End(y) /\ PagesOf(z) = PagesOf(x) \cup PagesOf(y)
<1>1. PICK f, c, d : f = x.first /\ c = x.count /\ d = y.count
  OBVIOUS
<1>2. f \in Nat /\ c \in Nat /\ d \in Nat
  BY ONLY <1>1, x.first \in Nat, x.count \in Nat, y.count \in Nat
<1>3. f..(f + (c + d) - 1) = (f..(f + c - 1)) \cup ((f + c)..((f + c) + d - 1))
  BY ONLY <1>2
<1>4. f + (c + d) = (f + c) + d
  BY ONLY <1>2
<1>5. /\ x.first = f /\ x.count = c
      /\ y.first = f + c /\ y.count = d
      /\ z.first = f /\ z.count = c + d
  BY ONLY <1>1, y.first = x.first + x.count, z.first = x.first, z.count = x.count + y.count
<1>6. /\ End(x) = f + c /\ End(y) = (f + c) + d /\ End(z) = f + (c + d)
  BY ONLY <1>5 DEF End
<1>7. PagesOf(x) = f..(f + c - 1)
  BY ONLY <1>2, <1>5, <1>6 DEF PagesOf
<1>8. PagesOf(y) = (f + c)..((f + c) + d - 1)
  BY ONLY <1>2, <1>5, <1>6 DEF PagesOf
<1>9. PagesOf(z) = f..(f + (c + d) - 1)
  BY ONLY <1>2, <1>5, <1>6 DEF PagesOf
<1>10. End(z) = End(y)
  BY ONLY <1>4, <1>6
<1> QED BY ONLY <1>3, <1>7, <1>8, <1>9, <1>10, Zenon

\* A block behind another one begins where that one ends, or later.
LEMMA Ordered ==
  ASSUME NEW bs, Chain(bs), NEW i \in 2..Len(bs), NEW j \in 2..Len(bs), i < j
  PROVE  End(bs[i]) <= bs[j].first
<1> DEFINE S == {k \in 0..(Len(bs) - i - 1) : End(bs[i]) <= bs[i + k + 1].first}
<1>0. Len(bs) \in Nat /\ bs \in Seq(NBlock)
  BY DEF Chain
<1>1. 0 \in S
  <2>1. i \in 2..(Len(bs) - 1) /\ i + 0 + 1 = i + 1 /\ i + 1 \in 1..Len(bs) /\ i \in 1..Len(bs)
    BY <1>0
  <2>2. bs[i + 1].first = End(bs[i])
    BY <2>1 DEF Chain
  <2>3. bs[i + 1].first \in Nat
    BY <1>0, <2>1, BlockTypes
  <2>4. 0 \in 0..(Len(bs) - i - 1)
    BY <1>0
  <2> QED BY <2>1, <2>2, <2>3, <2>4
<1>2. ASSUME NEW k \in 0..((Len(bs) - i - 1) - 1), k \in S PROVE k + 1 \in S
  <2>1. /\ i + k + 1 \in 2..(Len(bs) - 1) /\ i + k + 1 \in 1..Len(bs)
        /\ i \in 1..Len(bs) /\ i + (k + 1) + 1 = (i + k + 1) + 1
        /\ k + 1 \in 0..(Len(bs) - i - 1) /\ (i + k + 1) + 1 \in 1..Len(bs)
    BY <1>0
  <2>2. bs[(i + k + 1) + 1].first = End(bs[i + k + 1])
    BY <2>1 DEF Chain
  <2>3. /\ End(bs[i]) \in Nat /\ bs[i + k + 1].first \in Nat /\ End(bs[i + k + 1]) \in Nat
        /\ End(bs[i + k + 1]) > bs[i + k + 1].first
    BY <1>0, <2>1, BlockTypes
  <2>4. End(bs[i]) <= bs[i + k + 1].first
    BY <1>2
  <2>5. End(bs[i]) <= bs[(i + k + 1) + 1].first
    BY <2>2, <2>3, <2>4
  <2> QED BY <2>1, <2>5
<1>3. Len(bs) - i - 1 \in Nat /\ j - i - 1 \in 0..(Len(bs) - i - 1) /\ i + (j - i - 1) + 1 = j
  BY <1>0
<1>4. 0..(Len(bs) - i - 1) \subseteq S
  <2> HIDE DEF S
  <2> QED BY <1>1, <1>2, <1>3, UpTo
<1>5. j - i - 1 \in S
  BY <1>3, <1>4
<1> QED BY <1>3, <1>5

\* All blocks but the first lie behind the reserved pages and end by Top.
LEMMA InRange ==
  ASSUME NEW bs, Chain(bs), NEW i \in 2..Len(bs)
  PROVE  bs[i].first >= Reserved + 1 /\ End(bs[i]) <= Top
<1>0. Len(bs) \in Nat /\ Len(bs) >= 2 /\ bs \in Seq(NBlock) /\ Reserved \in Nat /\ Top \in Nat
  BY MemoryAssumption DEF Chain, Top
<1>1. /\ bs[2].first = Reserved + 1 /\ End(bs[Len(bs)]) = Top
      /\ 2 \in 2..Len(bs) /\ Len(bs) \in 2..Len(bs)
      /\ 2 \in 1..Len(bs) /\ Len(bs) \in 1..Len(bs) /\ i \in 1..Len(bs)
  BY <1>0 DEF Chain
<1>2. /\ End(bs[2]) \in Nat /\ End(bs[2]) > bs[2].first
      /\ bs[i].first \in Nat /\ End(bs[i]) \in Nat
      /\ bs[Len(bs)].first \in Nat /\ End(bs[Len(bs)]) > bs[Len(bs)].first
  BY <1>0, <1>1, BlockTypes
<1>3. bs[i].first >= Reserved + 1
  <2>1. CASE i = 2
    BY <1>0, <1>1, <2>1
  <2>2. CASE 2 < i
    <3>1. End(bs[2]) <= bs[i].first
      BY <1>1, <2>2, Ordered
    <3> QED BY <1>0, <1>1, <1>2, <3>1
  <2> QED BY <2>1, <2>2
<1>4. End(bs[i]) <= Top
  <2>1. CASE i = Len(bs)
    BY <1>0, <1>1, <2>1
  <2>2. CASE i < Len(bs)
    <3>1. End(bs[i]) <= bs[Len(bs)].first
      BY <1>1, <2>2, Ordered
    <3> QED BY <1>0, <1>1, <1>2, <3>1
  <2> QED BY <1>0, <2>1, <2>2
<1> QED BY <1>3, <1>4

\* No page is in two blocks.
LEMMA OneBlock ==
  ASSUME NEW bs, Chain(bs), NEW i \in 1..Len(bs), NEW j \in 1..Len(bs), NEW p,
         p \in PagesOf(bs[i]), p \in PagesOf(bs[j])
  PROVE  i = j
<1>0. Len(bs) \in Nat /\ Len(bs) >= 2 /\ bs \in Seq(NBlock) /\ Reserved \in Nat
  BY MemoryAssumption DEF Chain, Top
<1>1. \A m, n \in 1..Len(bs) : m < n => End(bs[m]) <= bs[n].first
  <2> SUFFICES ASSUME NEW m \in 1..Len(bs), NEW n \in 1..Len(bs), m < n
               PROVE  End(bs[m]) <= bs[n].first
    OBVIOUS
  <2>1. n \in 2..Len(bs)
    BY <1>0
  <2>2. CASE m = 1
    <3>1. End(bs[1]) = Reserved
      BY <1>0 DEF Chain, End
    <3>2. bs[n].first >= Reserved + 1 /\ bs[n].first \in Nat
      BY <1>0, <2>1, InRange, BlockTypes
    <3> QED BY <1>0, <2>2, <3>1, <3>2
  <2>3. CASE m # 1
    BY <2>1, <2>3, Ordered
  <2> QED BY <2>2, <2>3
<1>2. /\ bs[i].first \in Nat /\ End(bs[i]) \in Nat
      /\ bs[j].first \in Nat /\ End(bs[j]) \in Nat
  BY <1>0, BlockTypes
<1>3. /\ p \in Int /\ bs[i].first <= p /\ p < End(bs[i])
      /\ bs[j].first <= p /\ p < End(bs[j])
  BY <1>2 DEF PagesOf
<1> QED BY <1>0, <1>1, <1>2, <1>3

\* Every page from the second block to Top is in a block.
LEMMA NoGap ==
  ASSUME NEW bs, Chain(bs), NEW p \in (Reserved + 1)..(Top - 1)
  PROVE  \E i \in 2..Len(bs) : bs[i].first <= p /\ p < End(bs[i])
<1> DEFINE Holds(q) == \E i \in 2..Len(bs) : bs[i].first <= q /\ q < End(bs[i])
           n == Top - 1 - (Reserved + 1)
           S == {k \in 0..n : Holds(Reserved + 1 + k)}
<1>0. /\ Len(bs) \in Nat /\ Len(bs) >= 2 /\ bs \in Seq(NBlock)
      /\ Reserved \in Nat /\ Top \in Nat /\ n \in Nat
      /\ p - (Reserved + 1) \in 0..n /\ Reserved + 1 + (p - (Reserved + 1)) = p
  BY MemoryAssumption DEF Chain, Top
<1>1. \A i \in 2..Len(bs) : /\ bs[i].first \in Nat /\ End(bs[i]) \in Nat
                             /\ End(bs[i]) > bs[i].first
  BY <1>0, BlockTypes
<1>2. 0 \in S
  <2>1. bs[2].first = Reserved + 1 /\ 2 \in 2..Len(bs)
    BY <1>0 DEF Chain
  <2>2. Reserved + 1 < End(bs[2]) /\ Reserved + 1 + 0 = Reserved + 1
    BY <1>0, <1>1, <2>1
  <2>3. Holds(Reserved + 1)
    BY <1>0, <2>1, <2>2
  <2> QED BY <1>0, <2>2, <2>3
<1>3. ASSUME NEW k \in 0..(n - 1), k \in S PROVE k + 1 \in S
  <2>1. PICK q : q = Reserved + 1 + k
    OBVIOUS
  <2>2. /\ q \in Nat /\ Reserved + 1 + (k + 1) = q + 1 /\ q + 1 < Top
        /\ k + 1 \in 0..n
    BY <1>0, <2>1
  <2>3. PICK i \in 2..Len(bs) : bs[i].first <= q /\ q < End(bs[i])
    BY <1>3, <2>1
  <2>4. CASE q + 1 < End(bs[i])
    BY <1>1, <2>2, <2>3, <2>4
  <2>5. CASE q + 1 = End(bs[i])
    <3>1. i # Len(bs)
      BY <2>2, <2>5 DEF Chain
    <3>2. i \in 2..(Len(bs) - 1) /\ i + 1 \in 2..Len(bs)
      BY <1>0, <3>1
    <3>3. bs[i + 1].first = q + 1
      BY <2>5, <3>2 DEF Chain
    <3>4. Holds(q + 1)
      BY <1>1, <2>2, <3>2, <3>3
    <3> QED BY <2>2, <3>4
  <2> QED BY <1>1, <2>2, <2>3, <2>4, <2>5
<1>4. 0..n \subseteq S
  <2> HIDE DEF S, n
  <2> QED BY <1>0, <1>2, <1>3, UpTo
<1>5. Holds(Reserved + 1 + (p - (Reserved + 1)))
  BY <1>0, <1>4
<1> QED BY <1>0, <1>5

\* Nor do two blocks begin with the same page.
LEMMA OneFirst ==
  ASSUME NEW bs, Chain(bs), NEW i \in 1..Len(bs), NEW j \in 1..Len(bs),
         bs[i].first = bs[j].first
  PROVE  i = j
<1>1. bs \in Seq(NBlock)
  BY DEF Chain
<1>2. bs[i].first \in PagesOf(bs[i]) /\ bs[j].first \in PagesOf(bs[j])
  BY <1>1, BlockTypes DEF PagesOf
<1> QED BY <1>2, OneBlock

-----------------------------------------------------------------------------
\* Mark changes one field of one block.
LEMMA MarkFacts ==
  ASSUME NEW bs \in Seq(NBlock), NEW i \in 1..Len(bs), NEW u \in BOOLEAN
  PROVE  /\ Mark(bs, i, u) \in Seq(NBlock)
         /\ Len(Mark(bs, i, u)) = Len(bs)
         /\ Mark(bs, i, u)[i] = [first |-> bs[i].first, count |-> bs[i].count, allocated |-> u]
         /\ \A j \in 1..Len(bs) : /\ j # i => Mark(bs, i, u)[j] = bs[j]
                                  /\ Mark(bs, i, u)[j].first = bs[j].first
                                  /\ Mark(bs, i, u)[j].count = bs[j].count
                                  /\ End(Mark(bs, i, u)[j]) = End(bs[j])
<1> DEFINE b == [first |-> bs[i].first, count |-> bs[i].count, allocated |-> u]
           r == Mark(bs, i, u)
<1>1. b \in NBlock
  BY BlockTypes DEF NBlock
<1>2. [bs[i] EXCEPT !.allocated = u] = b
  BY BlockTypes DEF NBlock
<1>3. r = [bs EXCEPT ![i] = b]
  BY <1>2 DEF Mark
<1>4. r \in Seq(NBlock) /\ Len(r) = Len(bs) /\ r[i] = b
      /\ \A j \in 1..Len(bs) : j # i => r[j] = bs[j]
  <2> HIDE DEF r, b
  <2> QED BY <1>1, <1>3
<1>5. ASSUME NEW j \in 1..Len(bs)
      PROVE  r[j].first = bs[j].first /\ r[j].count = bs[j].count
  <2>1. CASE j = i
    BY <1>4, <2>1
  <2>2. CASE j # i
    BY <1>4, <2>2
  <2> QED BY <2>1, <2>2
<1> QED BY <1>4, <1>5 DEF End

\* A block that is marked stays where it is.
LEMMA MarkChain ==
  ASSUME NEW bs, Chain(bs), NEW i \in 2..Len(bs), NEW u \in BOOLEAN
  PROVE  Chain(Mark(bs, i, u))
<1> DEFINE r == Mark(bs, i, u)
<1>0. bs \in Seq(NBlock) /\ Len(bs) \in Nat /\ Len(bs) >= 2 /\ i \in 1..Len(bs)
  BY DEF Chain
<1>1. /\ r \in Seq(NBlock) /\ Len(r) = Len(bs)
      /\ \A j \in 1..Len(bs) : /\ j # i => r[j] = bs[j]
                               /\ r[j].first = bs[j].first
                               /\ End(r[j]) = End(bs[j])
  BY <1>0, MarkFacts
<1> HIDE DEF r
<1>2. r[1] = bs[1] /\ r[2].first = bs[2].first /\ End(r[Len(r)]) = End(bs[Len(bs)])
  BY <1>0, <1>1
<1>3. \A j \in 2..(Len(r) - 1) : r[j + 1].first = End(r[j])
  <2> SUFFICES ASSUME NEW j \in 2..(Len(r) - 1) PROVE r[j + 1].first = End(r[j])
    OBVIOUS
  <2>1. j \in 2..(Len(bs) - 1) /\ j \in 1..Len(bs) /\ j + 1 \in 1..Len(bs)
    BY <1>0, <1>1
  <2>2. bs[j + 1].first = End(bs[j])
    BY <2>1 DEF Chain
  <2> QED BY <1>1, <2>1, <2>2
<1> QED BY <1>0, <1>1, <1>2, <1>3 DEF Chain, r

\* What is in Given.
LEMMA GivenOf ==
  ASSUME NEW bs, NEW k, NEW x
  PROVE  x \in Given(bs, k) <=> \E i \in 2..k : bs[i].allocated /\ x = <<bs[i].first, bs[i].count>>
BY DEF Given

\* What is in Open.
LEMMA OpenOf ==
  ASSUME NEW bs, NEW k, NEW p
  PROVE  p \in Open(bs, k) <=> \E i \in 1..k : ~bs[i].allocated /\ p \in PagesOf(bs[i])
BY DEF Open

\* A free block that is marked allocated is given whole.
LEMMA MarkUsed ==
  ASSUME NEW bs, Chain(bs), NEW i \in 2..Len(bs), ~bs[i].allocated
  PROVE  /\ Given(Mark(bs, i, TRUE), Len(bs)) = Given(bs, Len(bs)) \cup {<<bs[i].first, bs[i].count>>}
         /\ Open(Mark(bs, i, TRUE), Len(bs)) = Open(bs, Len(bs)) \ PagesOf(bs[i])
<1> DEFINE r == Mark(bs, i, TRUE)
<1>0. bs \in Seq(NBlock) /\ Len(bs) \in Nat /\ Len(bs) >= 2 /\ i \in 1..Len(bs)
  BY DEF Chain
<1>1. /\ r[i].allocated = TRUE
      /\ \A j \in 1..Len(bs) : /\ j # i => r[j] = bs[j]
                               /\ r[j].first = bs[j].first
                               /\ r[j].count = bs[j].count
                               /\ PagesOf(r[j]) = PagesOf(bs[j])
  <2>1. /\ r[i] = [first |-> bs[i].first, count |-> bs[i].count, allocated |-> TRUE]
        /\ \A j \in 1..Len(bs) : /\ j # i => r[j] = bs[j]
                                 /\ r[j].first = bs[j].first
                                 /\ r[j].count = bs[j].count
                                 /\ End(r[j]) = End(bs[j])
    BY <1>0, MarkFacts
  <2> HIDE DEF r
  <2> QED BY <2>1 DEF PagesOf
<1> HIDE DEF r
<1>2. ASSUME NEW x
      PROVE  x \in Given(r, Len(bs)) <=> x \in Given(bs, Len(bs)) \cup {<<bs[i].first, bs[i].count>>}
  <2>1. \A j \in 2..Len(bs) : j \in 1..Len(bs)
    BY <1>0
  <2>2. \A j \in 2..Len(bs) : r[j].allocated <=> (j = i \/ bs[j].allocated)
    BY <1>1, <2>1
  <2>3. \A j \in 2..Len(bs) : <<r[j].first, r[j].count>> = <<bs[j].first, bs[j].count>>
    BY <1>1, <2>1
  <2> QED BY <2>2, <2>3, GivenOf
<1>3. ASSUME NEW p
      PROVE  p \in Open(r, Len(bs)) <=> p \in Open(bs, Len(bs)) \ PagesOf(bs[i])
  <2>1. \A j \in 1..Len(bs) : ~r[j].allocated <=> (j # i /\ ~bs[j].allocated)
    BY <1>1
  <2>2. \A j \in 1..Len(bs) : p \in PagesOf(bs[j]) /\ p \in PagesOf(bs[i]) => j = i
    BY <1>0, OneBlock
  <2> QED BY <1>0, <1>1, <2>1, <2>2, OpenOf
<1> QED BY <1>2, <1>3 DEF r

\* An allocated block that is marked free is given back whole.
LEMMA MarkFree ==
  ASSUME NEW bs, Chain(bs), NEW i \in 2..Len(bs), bs[i].allocated
  PROVE  /\ Given(Mark(bs, i, FALSE), Len(bs)) = Given(bs, Len(bs)) \ {<<bs[i].first, bs[i].count>>}
         /\ Open(Mark(bs, i, FALSE), Len(bs)) = Open(bs, Len(bs)) \cup PagesOf(bs[i])
<1> DEFINE r == Mark(bs, i, FALSE)
<1>0. bs \in Seq(NBlock) /\ Len(bs) \in Nat /\ Len(bs) >= 2 /\ i \in 1..Len(bs)
  BY DEF Chain
<1>1. /\ r[i].allocated = FALSE
      /\ \A j \in 1..Len(bs) : /\ j # i => r[j] = bs[j]
                               /\ r[j].first = bs[j].first
                               /\ r[j].count = bs[j].count
                               /\ PagesOf(r[j]) = PagesOf(bs[j])
  <2>1. /\ r[i] = [first |-> bs[i].first, count |-> bs[i].count, allocated |-> FALSE]
        /\ \A j \in 1..Len(bs) : /\ j # i => r[j] = bs[j]
                                 /\ r[j].first = bs[j].first
                                 /\ r[j].count = bs[j].count
                                 /\ End(r[j]) = End(bs[j])
    BY <1>0, MarkFacts
  <2> HIDE DEF r
  <2> QED BY <2>1 DEF PagesOf
<1> HIDE DEF r
<1>2. ASSUME NEW x
      PROVE  x \in Given(r, Len(bs)) <=> x \in Given(bs, Len(bs)) \ {<<bs[i].first, bs[i].count>>}
  <2>1. \A j \in 2..Len(bs) : j \in 1..Len(bs)
    BY <1>0
  <2>2. \A j \in 2..Len(bs) : r[j].allocated <=> (j # i /\ bs[j].allocated)
    BY <1>1, <2>1
  <2>3. \A j \in 2..Len(bs) : <<r[j].first, r[j].count>> = <<bs[j].first, bs[j].count>>
    BY <1>1, <2>1
  <2>4. \A j \in 2..Len(bs) : <<bs[j].first, bs[j].count>> = <<bs[i].first, bs[i].count>> => j = i
    BY <1>0, <2>1, OneFirst
  <2> QED BY <2>2, <2>3, <2>4, GivenOf
<1>3. ASSUME NEW p
      PROVE  p \in Open(r, Len(bs)) <=> p \in Open(bs, Len(bs)) \cup PagesOf(bs[i])
  <2>1. \A j \in 1..Len(bs) : ~r[j].allocated <=> (j = i \/ ~bs[j].allocated)
    BY <1>1
  <2> QED BY <1>0, <1>1, <2>1, OpenOf
<1> QED BY <1>2, <1>3 DEF r

-----------------------------------------------------------------------------
\* Two sequences one behind the other, index by index.
LEMMA ConcatFacts ==
  ASSUME NEW S, NEW u \in Seq(S), NEW v \in Seq(S)
  PROVE  /\ u \o v \in Seq(S)
         /\ Len(u \o v) = Len(u) + Len(v)
         /\ \A j \in 1..Len(u) : (u \o v)[j] = u[j]
         /\ \A j \in (Len(u) + 1)..(Len(u) + Len(v)) : (u \o v)[j] = v[j - Len(u)]
OBVIOUS

\* A list like bs, but that block i keeps n pages and the others are a free block behind it
IsSplit(bs, i, n, r) ==
  /\ r \in Seq(NBlock) /\ Len(r) = Len(bs) + 1
  /\ \A j \in 1..(i - 1) : r[j] = bs[j]
  /\ r[i] = [first |-> bs[i].first, count |-> n, allocated |-> bs[i].allocated]
  /\ r[i + 1] = [first |-> bs[i].first + n, count |-> bs[i].count - n, allocated |-> FALSE]
  /\ \A j \in (i + 1)..Len(bs) : r[j + 1] = bs[j]

\* The list after a split, index by index.
LEMMA SplitFacts ==
  ASSUME NEW bs \in Seq(NBlock), NEW i \in 1..Len(bs), NEW n \in Nat \ {0}, n < bs[i].count
  PROVE  IsSplit(bs, i, n, Split(bs, i, n))
<1> DEFINE b == [first |-> bs[i].first, count |-> n, allocated |-> bs[i].allocated]
           c == [first |-> bs[i].first + n, count |-> bs[i].count - n, allocated |-> FALSE]
           m == [bs EXCEPT ![i] = b]
<1>1. b \in NBlock
  BY BlockTypes DEF NBlock
<1>2. c \in NBlock
  <2>1. bs[i].first + n \in Nat /\ bs[i].count - n \in Nat \ {0}
    BY BlockTypes
  <2> QED BY <2>1 DEF NBlock
<1>3. [bs[i] EXCEPT !.count = n] = b
  BY BlockTypes DEF NBlock
<1>4. m[i].first = b.first
  OBVIOUS
<1>5. Split(bs, i, n) = SubSeq(m, 1, i) \o <<c>> \o SubSeq(m, i + 1, Len(m))
  <2>1. (i + 1) - 1 = i
    OBVIOUS
  <2> QED BY <1>3, <2>1 DEF Split, InsertAt
<1>6. /\ m \in Seq(NBlock) /\ Len(m) = Len(bs)
      /\ m[i] = b /\ \A j \in 1..Len(bs) : j # i => m[j] = bs[j]
  <2> HIDE DEF b
  <2> QED BY <1>1
<1> DEFINE u == SubSeq(m, 1, i)
           v == SubSeq(m, i + 1, Len(m))
<1>7. u \in Seq(NBlock) /\ Len(u) = i /\ \A j \in 1..i : u[j] = m[j]
  <2> HIDE DEF b, m
  <2> QED BY <1>6
<1>8. v \in Seq(NBlock) /\ Len(v) = Len(bs) - i /\ \A j \in 1..(Len(bs) - i) : v[j] = m[j + i]
  <2> HIDE DEF b, m
  <2> QED BY <1>6
<1> HIDE DEF b, c, m, u, v
<1>9. /\ u \o <<c>> \in Seq(NBlock)
      /\ Len(u \o <<c>>) = i + 1
      /\ \A j \in 1..i : (u \o <<c>>)[j] = u[j]
      /\ (u \o <<c>>)[i + 1] = c
  BY <1>2, <1>7
<1> DEFINE w == u \o <<c>>
           r == w \o v
<1>10. /\ w \in Seq(NBlock) /\ Len(w) = i + 1 /\ w[i + 1] = c
       /\ \A j \in 1..i : w[j] = u[j]
  BY <1>9
<1> HIDE DEF w
<1>11. /\ r \in Seq(NBlock)
       /\ Len(r) = Len(bs) + 1
       /\ \A j \in 1..(i + 1) : r[j] = w[j]
       /\ \A j \in (i + 2)..(Len(bs) + 1) : r[j] = v[j - (i + 1)]
  <2>1. /\ w \o v \in Seq(NBlock)
        /\ Len(w \o v) = Len(w) + Len(v)
        /\ \A j \in 1..Len(w) : (w \o v)[j] = w[j]
        /\ \A j \in (Len(w) + 1)..(Len(w) + Len(v)) : (w \o v)[j] = v[j - Len(w)]
    <3> HIDE DEF v
    <3> QED BY <1>8, <1>10, ConcatFacts
  <2>2. (i + 1) + 1 = i + 2 /\ (i + 1) + (Len(bs) - i) = Len(bs) + 1
    OBVIOUS
  <2> HIDE DEF v
  <2> QED BY <2>1, <2>2, <1>8, <1>10
<1> HIDE DEF r
<1>12. /\ \A j \in 1..(i - 1) : r[j] = bs[j]
       /\ r[i] = b /\ r[i + 1] = c
  <2>1. \A j \in 1..(i - 1) : j \in 1..i /\ j \in 1..(i + 1) /\ j \in 1..Len(bs) /\ j # i
    <3>1. i \in Nat /\ Len(bs) \in Nat /\ i <= Len(bs)
      OBVIOUS
    <3> QED BY ONLY <3>1
  <2>2. i \in 1..i /\ i \in 1..(i + 1) /\ i + 1 \in 1..(i + 1)
    OBVIOUS
  <2> QED BY <2>1, <2>2, <1>6, <1>7, <1>10, <1>11
<1>13. ASSUME NEW j \in (i + 1)..Len(bs) PROVE r[j + 1] = bs[j]
  <2>1. j + 1 \in (i + 2)..(Len(bs) + 1) /\ (j + 1) - (i + 1) = j - i
        /\ j - i \in 1..(Len(bs) - i) /\ (j - i) + i = j /\ j # i /\ j \in 1..Len(bs)
    <3>1. i \in Nat /\ Len(bs) \in Nat /\ i >= 1 /\ j \in (i + 1)..Len(bs)
      OBVIOUS
    <3> QED BY ONLY <3>1
  <2>2. r[j + 1] = v[j - i]
    BY ONLY <2>1, <1>11
  <2>3. v[j - i] = m[j]
    BY ONLY <2>1, <1>8
  <2> QED BY ONLY <2>1, <2>2, <2>3, <1>6
<1>14. Split(bs, i, n) = r
  BY <1>5 DEF r, w, u, v
<1> QED BY <1>11, <1>12, <1>13, <1>14 DEF b, c, IsSplit

\* A split leaves no gap and no overlap.
LEMMA SplitChain ==
  ASSUME NEW bs, Chain(bs), NEW i \in 2..Len(bs), NEW n \in Nat \ {0}, n < bs[i].count
  PROVE  Chain(Split(bs, i, n))
<1> DEFINE r == Split(bs, i, n)
           N == Len(bs)
<1>0. /\ bs \in Seq(NBlock) /\ N \in Nat /\ N >= 2 /\ i \in 1..N
      /\ bs[i].first \in Nat /\ bs[i].count \in Nat
      /\ n \in Nat \ {0} /\ n < bs[i].count
  BY BlockTypes DEF Chain
<1>1. /\ r \in Seq(NBlock) /\ Len(r) = N + 1
      /\ \A j \in 1..(i - 1) : r[j] = bs[j]
      /\ r[i] = [first |-> bs[i].first, count |-> n, allocated |-> bs[i].allocated]
      /\ r[i + 1] = [first |-> bs[i].first + n, count |-> bs[i].count - n, allocated |-> FALSE]
      /\ \A j \in (i + 1)..N : r[j + 1] = bs[j]
  <2>1. IsSplit(bs, i, n, Split(bs, i, n))
    BY ONLY <1>0, SplitFacts
  <2> QED BY <2>1 DEF IsSplit
<1> HIDE DEF r
<1>2. /\ r[i].first = bs[i].first /\ End(r[i]) = bs[i].first + n
      /\ r[i + 1].first = bs[i].first + n /\ End(r[i + 1]) = End(bs[i])
  <2>1. \A f, c, m \in Nat : m < c => (f + m) + (c - m) = f + c
    BY ONLY TRUE
  <2>2. (bs[i].first + n) + (bs[i].count - n) = bs[i].first + bs[i].count
    BY ONLY <1>0, <2>1
  <2> QED BY ONLY <1>1, <2>2 DEF End
<1>3. r[1] = bs[1]
  <2>1. 1 \in 1..(i - 1)
    OBVIOUS
  <2> QED BY <1>1, <2>1
<1>4. r[2].first = bs[2].first
  <2>1. CASE i = 2
    BY <1>2, <2>1
  <2>2. CASE i # 2
    <3>1. 2 \in 1..(i - 1)
      BY <2>2
    <3> QED BY <1>1, <3>1
  <2> QED BY <2>1, <2>2
<1>5. End(r[N + 1]) = End(bs[N])
  <2>1. CASE i = N
    BY <1>2, <2>1
  <2>2. CASE i # N
    <3>1. N \in (i + 1)..N
      BY <1>0, <2>2
    <3> QED BY <1>1, <3>1
  <2> QED BY <2>1, <2>2
<1>6. ASSUME NEW j \in 2..N PROVE r[j + 1].first = End(r[j])
  <2>0. \A k \in 2..(N - 1) : bs[k + 1].first = End(bs[k])
    BY DEF Chain
  <2>1. CASE j + 1 <= i - 1
    <3>1. j \in 1..(i - 1) /\ j + 1 \in 1..(i - 1) /\ j \in 2..(N - 1)
      BY <1>0, <2>1
    <3> QED BY <1>1, <2>0, <3>1
  <2>2. CASE j + 1 = i
    <3>1. j \in 1..(i - 1) /\ j \in 2..(N - 1)
      BY <1>0, <2>2
    <3> QED BY <1>1, <1>2, <2>0, <2>2, <3>1
  <2>3. CASE j = i
    BY <1>2, <2>3
  <2>4. CASE j = i + 1
    <3>1. j \in (i + 1)..N /\ i \in 2..(N - 1)
      BY <1>0, <2>4
    <3> QED BY <1>1, <1>2, <2>0, <2>4, <3>1
  <2>5. CASE j > i + 1
    <3>1. /\ j \in (i + 1)..N /\ j - 1 \in (i + 1)..N /\ (j - 1) + 1 = j
          /\ j - 1 \in 2..(N - 1)
      BY <1>0, <2>5
    <3>2. r[j + 1] = bs[j] /\ r[j] = bs[j - 1]
      BY <1>1, <3>1
    <3> QED BY <2>0, <3>1, <3>2
  <2> QED BY <1>0, <2>1, <2>2, <2>3, <2>4, <2>5
<1>7. \A j \in 2..(Len(r) - 1) : r[j + 1].first = End(r[j])
  <2>1. Len(r) - 1 = N
    BY <1>0, <1>1
  <2> QED BY <1>6, <2>1
<1>8. Len(r) >= 2
  BY <1>0, <1>1
<1>9. bs[1] = [first |-> 0, count |-> Reserved, allocated |-> TRUE]
      /\ bs[2].first = Reserved + 1 /\ End(bs[N]) = Top
  BY DEF Chain
<1> QED BY <1>1, <1>3, <1>4, <1>5, <1>7, <1>8, <1>9 DEF Chain, r

\* Cutting the front off an allocated block gives the rest back.
LEMMA SplitUsed ==
  ASSUME NEW bs, Chain(bs), NEW i \in 2..Len(bs), NEW n \in Nat \ {0}, n < bs[i].count,
         bs[i].allocated
  PROVE  /\ Given(Split(bs, i, n), Len(bs) + 1)
              = (Given(bs, Len(bs)) \ {<<bs[i].first, bs[i].count>>}) \cup {<<bs[i].first, n>>}
         /\ Open(Split(bs, i, n), Len(bs) + 1)
              = Open(bs, Len(bs)) \cup (PagesOf(bs[i]) \ bs[i].first..(bs[i].first + n - 1))
<1> DEFINE r == Split(bs, i, n)
           N == Len(bs)
           f == bs[i].first
           c == bs[i].count
<1>0. /\ bs \in Seq(NBlock) /\ N \in Nat /\ N >= 2 /\ i \in 1..N
      /\ f \in Nat /\ c \in Nat
  BY BlockTypes DEF Chain
<1>1. /\ \A j \in 1..(i - 1) : r[j] = bs[j]
      /\ r[i].first = f /\ r[i].count = n /\ r[i].allocated
      /\ r[i + 1].first = f + n /\ r[i + 1].count = c - n /\ ~r[i + 1].allocated
      /\ \A j \in (i + 1)..N : r[j + 1] = bs[j]
  <2>1. /\ \A j \in 1..(i - 1) : r[j] = bs[j]
        /\ r[i] = [first |-> bs[i].first, count |-> n, allocated |-> bs[i].allocated]
        /\ r[i + 1] = [first |-> bs[i].first + n, count |-> bs[i].count - n, allocated |-> FALSE]
        /\ \A j \in (i + 1)..N : r[j + 1] = bs[j]
    <3>1. bs \in Seq(NBlock) /\ i \in 1..Len(bs) /\ n \in Nat \ {0} /\ n < bs[i].count
      BY <1>0
    <3>2. IsSplit(bs, i, n, Split(bs, i, n))
      BY ONLY <3>1, SplitFacts
    <3> QED BY <3>2 DEF IsSplit
  <2> HIDE DEF r
  <2> QED BY <2>1
<1>2. /\ PagesOf(r[i + 1]) = PagesOf(bs[i]) \ f..(f + n - 1)
  <2>1. PagesOf(r[i + 1]) = (f + n)..(f + n + (c - n) - 1)
    <3> HIDE DEF r
    <3> QED BY <1>0, <1>1 DEF PagesOf, End
  <2>2. PagesOf(bs[i]) = f..(f + c - 1)
    BY <1>0 DEF PagesOf, End
  <2>3. f + n + (c - n) - 1 = f + c - 1
    BY <1>0
  <2>4. (f + n)..(f + c - 1) = f..(f + c - 1) \ f..(f + n - 1)
    BY <1>0
  <2> HIDE DEF r
  <2> QED BY <2>1, <2>2, <2>3, <2>4
<1> HIDE DEF r
<1>3. ASSUME NEW x
      PROVE  x \in Given(r, N + 1) <=> x \in (Given(bs, N) \ {<<f, c>>}) \cup {<<f, n>>}
  <2>1. ASSUME x \in Given(r, N + 1) PROVE x \in (Given(bs, N) \ {<<f, c>>}) \cup {<<f, n>>}
    <3>1. PICK j \in 2..(N + 1) : r[j].allocated /\ x = <<r[j].first, r[j].count>>
      BY <2>1, GivenOf
    <3>2. CASE j <= i - 1
      <4>1. j \in 1..(i - 1) /\ j \in 2..N /\ j \in 1..N /\ j # i
        BY <1>0, <3>2
      <4>2. r[j] = bs[j]
        BY <1>1, <4>1
      <4>4. bs[j].allocated /\ x = <<bs[j].first, bs[j].count>>
        BY <3>1, <4>2
      <4>3. bs[j].first # f
        BY <1>0, <4>1, OneFirst
      <4> QED BY <4>1, <4>3, <4>4, GivenOf
    <3>3. CASE j = i
      BY <1>1, <3>1, <3>3
    <3>4. CASE j = i + 1
      BY <1>1, <3>1, <3>4
    <3>5. CASE j > i + 1
      <4>1. j - 1 \in (i + 1)..N /\ (j - 1) + 1 = j /\ j - 1 \in 2..N /\ j - 1 # i /\ j - 1 \in 1..N
        BY <1>0, <3>5
      <4>2. r[j] = bs[j - 1]
        BY <1>1, <4>1
      <4>4. bs[j - 1].allocated /\ x = <<bs[j - 1].first, bs[j - 1].count>>
        BY <3>1, <4>2
      <4>3. bs[j - 1].first # f
        BY <1>0, <4>1, OneFirst
      <4> QED BY <4>1, <4>3, <4>4, GivenOf
    <3> QED BY <1>0, <3>2, <3>3, <3>4, <3>5
  <2>2. ASSUME x \in Given(bs, N), x # <<f, c>> PROVE x \in Given(r, N + 1)
    <3>1. PICK j \in 2..N : bs[j].allocated /\ x = <<bs[j].first, bs[j].count>>
      BY <2>2, GivenOf
    <3>2. j # i
      BY <2>2, <3>1
    <3>3. CASE j < i
      <4>1. j \in 1..(i - 1) /\ j \in 2..(N + 1)
        BY <1>0, <3>3
      <4> QED BY <1>1, <3>1, <4>1, GivenOf
    <3>4. CASE j > i
      <4>1. j \in (i + 1)..N /\ j + 1 \in 2..(N + 1)
        BY <1>0, <3>4
      <4> QED BY <1>1, <3>1, <4>1, GivenOf
    <3> QED BY <1>0, <3>2, <3>3, <3>4
  <2>3. <<f, n>> \in Given(r, N + 1)
    <3>1. i \in 2..(N + 1)
      BY <1>0
    <3> QED BY <1>1, <3>1, GivenOf
  <2> QED BY <2>1, <2>2, <2>3
<1>4. ASSUME NEW p
      PROVE  p \in Open(r, N + 1) <=> p \in Open(bs, N) \cup (PagesOf(bs[i]) \ f..(f + n - 1))
  <2>1. ASSUME p \in Open(r, N + 1)
        PROVE  p \in Open(bs, N) \cup (PagesOf(bs[i]) \ f..(f + n - 1))
    <3>1. PICK j \in 1..(N + 1) : ~r[j].allocated /\ p \in PagesOf(r[j])
      BY <2>1, OpenOf
    <3>2. CASE j <= i - 1
      <4>1. j \in 1..(i - 1) /\ j \in 1..N
        BY <1>0, <3>2
      <4> QED BY <1>1, <3>1, <4>1, OpenOf
    <3>3. CASE j = i
      BY <1>1, <3>1, <3>3
    <3>4. CASE j = i + 1
      BY <1>2, <3>1, <3>4
    <3>5. CASE j > i + 1
      <4>1. j - 1 \in (i + 1)..N /\ (j - 1) + 1 = j /\ j - 1 \in 1..N
        BY <1>0, <3>5
      <4>2. r[j] = bs[j - 1]
        BY <1>1, <4>1
      <4> QED BY <3>1, <4>1, <4>2, OpenOf
    <3> QED BY <1>0, <3>2, <3>3, <3>4, <3>5
  <2>2. ASSUME p \in Open(bs, N) PROVE p \in Open(r, N + 1)
    <3>1. PICK j \in 1..N : ~bs[j].allocated /\ p \in PagesOf(bs[j])
      BY <2>2, OpenOf
    <3>2. j # i
      BY <3>1
    <3>3. CASE j < i
      <4>1. j \in 1..(i - 1) /\ j \in 1..(N + 1)
        BY <1>0, <3>3
      <4> QED BY <1>1, <3>1, <4>1, OpenOf
    <3>4. CASE j > i
      <4>1. j \in (i + 1)..N /\ j + 1 \in 1..(N + 1)
        BY <1>0, <3>4
      <4>2. r[j + 1] = bs[j]
        BY <1>1, <4>1
      <4> QED BY <3>1, <4>1, <4>2, OpenOf
    <3> QED BY <1>0, <3>2, <3>3, <3>4
  <2>3. ASSUME p \in PagesOf(bs[i]) \ f..(f + n - 1) PROVE p \in Open(r, N + 1)
    <3>1. i + 1 \in 1..(N + 1)
      BY <1>0
    <3> QED BY <1>1, <1>2, <2>3, <3>1, OpenOf
  <2> QED BY <2>1, <2>2, <2>3
<1> QED BY <1>3, <1>4 DEF r

\* What cutting the marked block i to n pages does, its rest behind it or not.
LEMMA CutUsed ==
  ASSUME NEW bs, Chain(bs), NEW i \in 2..Len(bs), NEW n \in Nat \ {0}, n <= bs[i].count,
         bs[i].allocated
  PROVE  /\ Chain(Cut(bs, i, n))
         /\ Given(Cut(bs, i, n), Len(Cut(bs, i, n)))
              = (Given(bs, Len(bs)) \ {<<bs[i].first, bs[i].count>>}) \cup {<<bs[i].first, n>>}
         /\ Open(Cut(bs, i, n), Len(Cut(bs, i, n)))
              = Open(bs, Len(bs)) \cup (PagesOf(bs[i]) \ bs[i].first..(bs[i].first + n - 1))
<1>0. /\ bs \in Seq(NBlock) /\ Len(bs) \in Nat /\ i \in 1..Len(bs)
      /\ bs[i].first \in Nat /\ bs[i].count \in Nat
  BY BlockTypes DEF Chain
<1>1. CASE bs[i].count = n
  <2>1. Cut(bs, i, n) = bs
    BY <1>1 DEF Cut
  <2>2. <<bs[i].first, n>> \in Given(bs, Len(bs))
    BY <1>1, GivenOf
  <2>3. PagesOf(bs[i]) = bs[i].first..(bs[i].first + n - 1)
    BY <1>0, <1>1 DEF PagesOf, End
  <2> QED BY <1>1, <2>1, <2>2, <2>3
<1>2. CASE bs[i].count # n
  <2>1. Cut(bs, i, n) = Split(bs, i, n)
    BY <1>2 DEF Cut
  <2>2. n < bs[i].count
    BY <1>0, <1>2
  <2>3. Len(Split(bs, i, n)) = Len(bs) + 1
    <3>1. IsSplit(bs, i, n, Split(bs, i, n))
      BY ONLY <1>0, <2>2, SplitFacts, n \in Nat \ {0}
    <3> QED BY <3>1 DEF IsSplit
  <2>4. Chain(Split(bs, i, n))
    BY <2>2, SplitChain
  <2> QED BY <2>1, <2>2, <2>3, <2>4, SplitUsed
<1> QED BY <1>1, <1>2

\* The search finds a free block that is long enough; it is never the first of
\* the list.
LEMMA FirstFitFacts ==
  ASSUME NEW bs, Chain(bs), NEW n, Direct(bs, n)
  PROVE  /\ FirstFit(bs, n) \in 2..Len(bs)
         /\ ~bs[FirstFit(bs, n)].allocated
         /\ bs[FirstFit(bs, n)].count >= n
<1>1. bs \in Seq(NBlock) /\ Len(bs) \in Nat /\ bs[1].allocated
  BY DEF Chain
<1>2. Fits(bs, n) \subseteq Nat /\ Fits(bs, n) # {}
  BY <1>1 DEF Fits, Direct
<1>3. \E m \in Fits(bs, n) : \A k \in Fits(bs, n) : m <= k
  BY <1>2, LeastNatural
<1>4. FirstFit(bs, n) \in Fits(bs, n)
  BY <1>3 DEF FirstFit, Min
<1>5. DOMAIN bs = 1..Len(bs)
  BY <1>1
<1> QED BY <1>1, <1>4, <1>5 DEF Fits

\* A list like bs, but that the first n pages of block i are in use
Taken(bs, i, n, r) ==
  /\ Chain(r)
  /\ Given(r, Len(r)) = Given(bs, Len(bs)) \cup {<<bs[i].first, n>>}
  /\ Open(r, Len(r)) = Open(bs, Len(bs)) \ bs[i].first..(bs[i].first + n - 1)
  /\ bs[i].first..(bs[i].first + n - 1) \subseteq Open(bs, Len(bs))
  /\ \A c : <<bs[i].first, c>> \notin Given(bs, Len(bs))

\* An allocation: n pages that were free become a block that is given.
LEMMA Take ==
  ASSUME NEW bs, Chain(bs), NEW n \in Nat \ {0}, NEW i \in 2..Len(bs),
         ~bs[i].allocated, bs[i].count >= n,
         NEW r, r = Cut(Mark(bs, i, TRUE), i, n)
  PROVE  Taken(bs, i, n, r)
<1>0. /\ bs \in Seq(NBlock) /\ Len(bs) \in Nat /\ i \in 1..Len(bs)
      /\ bs[i].first \in Nat /\ bs[i].count \in Nat
  BY BlockTypes DEF Chain
<1> DEFINE f == bs[i].first
           c == bs[i].count
<1>1. PICK m : m = Mark(bs, i, TRUE)
  OBVIOUS
<1>2. /\ m[i].first = f /\ m[i].count = c /\ m[i].allocated /\ Len(m) = Len(bs)
  <2>1. m[i] = [first |-> bs[i].first, count |-> bs[i].count, allocated |-> TRUE]
        /\ Len(m) = Len(bs)
    BY <1>0, <1>1, MarkFacts
  <2> QED BY <2>1
<1>3. Chain(m)
  BY <1>1, MarkChain
<1>4. /\ Given(m, Len(bs)) = Given(bs, Len(bs)) \cup {<<f, c>>}
      /\ Open(m, Len(bs)) = Open(bs, Len(bs)) \ PagesOf(bs[i])
  BY <1>1, MarkUsed
<1>5. PagesOf(m[i]) = PagesOf(bs[i]) /\ PagesOf(bs[i]) = f..(f + c - 1)
  BY <1>0, <1>2 DEF PagesOf, End
<1>6. \A d : <<f, d>> \notin Given(bs, Len(bs))
  <2> SUFFICES ASSUME NEW d, <<f, d>> \in Given(bs, Len(bs)) PROVE FALSE
    OBVIOUS
  <2>1. PICK j \in 2..Len(bs) : bs[j].allocated /\ <<f, d>> = <<bs[j].first, bs[j].count>>
    BY GivenOf
  <2>2. j \in 1..Len(bs) /\ bs[j].first = f
    BY <1>0, <2>1
  <2> QED BY <1>0, <2>1, <2>2, OneFirst
<1>7. PagesOf(bs[i]) \subseteq Open(bs, Len(bs))
  BY <1>0, OpenOf
<1>8. f..(f + n - 1) \subseteq f..(f + c - 1)
  BY <1>0
<1>9. /\ Chain(r)
      /\ Given(r, Len(r)) = (Given(m, Len(m)) \ {<<f, c>>}) \cup {<<f, n>>}
      /\ Open(r, Len(r)) = Open(m, Len(m)) \cup (PagesOf(m[i]) \ f..(f + n - 1))
  <2>1. i \in 2..Len(m) /\ n <= m[i].count /\ m[i].allocated
    BY <1>0, <1>2
  <2>2. /\ Chain(Cut(m, i, n))
        /\ Given(Cut(m, i, n), Len(Cut(m, i, n)))
             = (Given(m, Len(m)) \ {<<m[i].first, m[i].count>>}) \cup {<<m[i].first, n>>}
        /\ Open(Cut(m, i, n), Len(Cut(m, i, n)))
             = Open(m, Len(m)) \cup (PagesOf(m[i]) \ m[i].first..(m[i].first + n - 1))
    BY ONLY <1>3, <2>1, CutUsed, n \in Nat \ {0}
  <2>3. r = Cut(m, i, n)
    BY <1>1
  <2> QED BY <1>2, <2>2, <2>3
<1> HIDE DEF f, c
<1>10. Given(r, Len(r)) = Given(bs, Len(bs)) \cup {<<f, n>>}
  <2>1. Given(r, Len(r)) = ((Given(bs, Len(bs)) \cup {<<f, c>>}) \ {<<f, c>>}) \cup {<<f, n>>}
    BY <1>2, <1>4, <1>9
  <2>2. <<f, c>> \notin Given(bs, Len(bs))
    BY <1>6
  <2> QED BY <2>1, <2>2
<1>11. Open(r, Len(r)) = Open(bs, Len(bs)) \ f..(f + n - 1)
  BY <1>2, <1>4, <1>5, <1>7, <1>8, <1>9
<1> QED BY <1>5, <1>6, <1>7, <1>8, <1>9, <1>10, <1>11 DEF f, Taken

-----------------------------------------------------------------------------

\* What merge computes: g[s] is the list that the blocks with numbers in s become.
IsFold(g, bs, k) ==
  g = [s \in SUBSET (1..k) |->
         IF s = {} THEN <<>> ELSE Absorb(g[s \ {Max(s)}], bs[Max(s)])]

\* The greatest of some numbers is one of them.
LEMMA GreatestFacts ==
  ASSUME NEW k \in Nat, NEW s, s \subseteq 1..k, s # {}
  PROVE  Max(s) \in s /\ \A x \in s : x <= Max(s)
<1> DEFINE T == {k - x : x \in s}
<1>1. T \subseteq Nat /\ T # {}
  <2>1. \A x \in s : k - x \in Nat
    OBVIOUS
  <2> QED BY <2>1
<1>2. PICK m \in T : \A y \in T : m <= y
  <2> HIDE DEF T
  <2> QED BY <1>1, LeastNatural
<1>3. PICK x \in s : m = k - x
  BY <1>2
<1>4. \A y \in s : x >= y
  <2> SUFFICES ASSUME NEW y \in s PROVE x >= y
    OBVIOUS
  <2>1. m <= k - y
    BY <1>2
  <2> QED BY <1>3, <2>1
<1>5. \E z \in s : \A y \in s : z >= y
  BY <1>4
<1>6. Max(s) \in s /\ \A y \in s : Max(s) >= y
  BY <1>5 DEF Max
<1> QED BY <1>6

\* What merge computes is defined.
LEMMA FoldExists ==
  ASSUME NEW bs, NEW n \in Nat
  PROVE  \E g : IsFold(g, bs, n)
<1> DEFINE S == {k \in Nat : \E g : IsFold(g, bs, k)}
<1>1. 0 \in S
  <2> DEFINE g == [s \in SUBSET (1..0) |-> <<>>]
  <2>1. \A s \in SUBSET (1..0) : s = {}
    OBVIOUS
  <2>2. IsFold(g, bs, 0)
    BY <2>1 DEF IsFold
  <2> QED BY <2>2
<1>2. ASSUME NEW k \in Nat, k \in S PROVE k + 1 \in S
  <2>1. PICK g : IsFold(g, bs, k)
    BY <1>2
  <2> DEFINE h == [s \in SUBSET (1..(k + 1)) |->
                     IF k + 1 \in s THEN Absorb(g[s \ {k + 1}], bs[k + 1]) ELSE g[s]]
  <2>2. ASSUME NEW s \in SUBSET (1..(k + 1))
        PROVE  h[s] = IF s = {} THEN <<>> ELSE Absorb(h[s \ {Max(s)}], bs[Max(s)])
    <3>1. CASE s = {}
      <4>1. {} \in SUBSET (1..k)
        OBVIOUS
      <4>2. g[{}] = <<>>
        BY <2>1, <4>1 DEF IsFold
      <4> QED BY <3>1, <4>2
    <3>2. CASE k + 1 \in s
      <4>1. s # {} /\ Max(s) = k + 1
        <5>1. k + 1 \in Nat /\ s \subseteq 1..(k + 1) /\ s # {}
          BY <3>2
        <5>2. Max(s) \in s /\ k + 1 <= Max(s)
          BY ONLY <3>2, <5>1, GreatestFacts
        <5>3. Max(s) \in 1..(k + 1)
          BY <5>1, <5>2
        <5> QED BY <5>1, <5>2, <5>3
      <4>2. s \ {k + 1} \in SUBSET (1..(k + 1)) /\ k + 1 \notin s \ {k + 1}
        OBVIOUS
      <4>3. h[s \ {k + 1}] = g[s \ {k + 1}]
        BY <4>2
      <4>4. h[s] = Absorb(g[s \ {k + 1}], bs[k + 1])
        BY <3>2
      <4> HIDE DEF h
      <4> QED BY <4>1, <4>3, <4>4
    <3>3. CASE s # {} /\ k + 1 \notin s
      <4>1. s \in SUBSET (1..k)
        BY <3>3
      <4>2. g[s] = Absorb(g[s \ {Max(s)}], bs[Max(s)])
        BY <2>1, <3>3, <4>1 DEF IsFold
      <4>3. h[s] = g[s] /\ h[s \ {Max(s)}] = g[s \ {Max(s)}]
        BY <3>3
      <4> HIDE DEF h
      <4> QED BY <3>3, <4>2, <4>3
    <3> QED BY <3>1, <3>2, <3>3
  <2>3. IsFold(h, bs, k + 1)
    <3>1. h = [s \in SUBSET (1..(k + 1)) |-> h[s]]
      OBVIOUS
    <3> HIDE DEF h
    <3> QED BY <2>2, <3>1 DEF IsFold
  <2> QED BY <2>3
<1> HIDE DEF S
<1>3. n \in S
  BY <1>1, <1>2, Induct
<1> QED BY <1>3 DEF S

\* merge takes the blocks one by one, in their order.
LEMMA MergeSteps ==
  ASSUME NEW bs \in Seq(NBlock)
  PROVE  \E m : /\ m[0] = <<>>
                /\ \A k \in 1..Len(bs) : m[k] = Absorb(m[k - 1], bs[k])
                /\ Merge(bs) = m[Len(bs)]
<1> DEFINE iter[s \in SUBSET DOMAIN bs] ==
             IF s = {} THEN <<>> ELSE Absorb(iter[s \ {Max(s)}], bs[Max(s)])
<1>0. DOMAIN bs = 1..Len(bs) /\ Len(bs) \in Nat
  OBVIOUS
<1>1. Merge(bs) = iter[DOMAIN bs]
  BY DEF Merge, FoldLeft, MapThenFoldSet
<1>2. IsFold(iter, bs, Len(bs))
  <2>1. \E g : g = [s \in SUBSET DOMAIN bs |->
                      IF s = {} THEN <<>> ELSE Absorb(g[s \ {Max(s)}], bs[Max(s)])]
    <3>1. PICK g : IsFold(g, bs, Len(bs))
      BY <1>0, FoldExists
    <3>2. g = [s \in SUBSET DOMAIN bs |->
                 IF s = {} THEN <<>> ELSE Absorb(g[s \ {Max(s)}], bs[Max(s)])]
      BY <1>0, <3>1, Zenon DEF IsFold
    <3> QED BY <3>2
  <2>2. iter = [s \in SUBSET DOMAIN bs |->
                  IF s = {} THEN <<>> ELSE Absorb(iter[s \ {Max(s)}], bs[Max(s)])]
    BY <2>1
  <2> HIDE DEF iter
  <2> QED BY <1>0, <2>2, Zenon DEF IsFold
<1> HIDE DEF iter
<1> DEFINE m == [k \in 0..Len(bs) |-> iter[1..k]]
<1>3. m[0] = <<>>
  <2>1. 1..0 = {} /\ {} \in SUBSET (1..Len(bs)) /\ 0 \in 0..Len(bs)
    BY <1>0
  <2> QED BY <1>2, <2>1 DEF IsFold
<1>4. ASSUME NEW k \in 1..Len(bs) PROVE m[k] = Absorb(m[k - 1], bs[k])
  <2>1. /\ k \in Nat /\ k \in 0..Len(bs) /\ k - 1 \in 0..Len(bs)
        /\ 1..k \in SUBSET (1..Len(bs)) /\ k \in 1..k /\ (1..k) \ {k} = 1..(k - 1)
    <3>1. k \in Nat /\ k \in 0..Len(bs) /\ k - 1 \in 0..Len(bs) /\ k \in 1..k
      BY <1>0
    <3>2. 1..k \in SUBSET (1..Len(bs))
      BY <1>0
    <3>3. (1..k) \ {k} = 1..(k - 1)
      BY <1>0
    <3> QED BY <3>1, <3>2, <3>3
  <2>2. Max(1..k) = k
    <3>1. 1..k \subseteq 1..k /\ 1..k # {}
      BY <2>1
    <3>2. Max(1..k) \in 1..k /\ k <= Max(1..k)
      BY ONLY <2>1, <3>1, GreatestFacts
    <3> QED BY <2>1, <3>2
  <2>3. iter[1..k] = Absorb(iter[(1..k) \ {k}], bs[k])
    <3>1. 1..k # {}
      BY <2>1
    <3> QED BY <1>2, <2>1, <2>2, <3>1 DEF IsFold
  <2> QED BY <2>1, <2>3
<1>5. Merge(bs) = m[Len(bs)]
  BY <1>0, <1>1
<1> HIDE DEF m
<1> QED BY <1>3, <1>4, <1>5

\* One block more.
LEMMA OneMore ==
  ASSUME NEW bs, NEW k \in Nat, k >= 1
  PROVE  /\ Given(bs, k + 1) = IF bs[k + 1].allocated
                               THEN Given(bs, k) \cup {<<bs[k + 1].first, bs[k + 1].count>>}
                               ELSE Given(bs, k)
         /\ Open(bs, k + 1) = IF bs[k + 1].allocated THEN Open(bs, k)
                              ELSE Open(bs, k) \cup PagesOf(bs[k + 1])
<1>1. 2..(k + 1) = (2..k) \cup {k + 1} /\ 1..(k + 1) = (1..k) \cup {k + 1}
  OBVIOUS
<1>2. ASSUME NEW x
      PROVE  x \in Given(bs, k + 1) <=>
               \/ x \in Given(bs, k)
               \/ bs[k + 1].allocated /\ x = <<bs[k + 1].first, bs[k + 1].count>>
  <2>1. x \in Given(bs, k + 1) <=>
          \E i \in (2..k) \cup {k + 1} : bs[i].allocated /\ x = <<bs[i].first, bs[i].count>>
    BY <1>1, GivenOf
  <2> QED BY <2>1, GivenOf
<1>3. ASSUME NEW p
      PROVE  p \in Open(bs, k + 1) <=>
               \/ p \in Open(bs, k)
               \/ ~bs[k + 1].allocated /\ p \in PagesOf(bs[k + 1])
  <2>1. p \in Open(bs, k + 1) <=>
          \E i \in (1..k) \cup {k + 1} : ~bs[i].allocated /\ p \in PagesOf(bs[i])
    BY <1>1, OpenOf
  <2> QED BY <2>1, OpenOf
<1>4. CASE bs[k + 1].allocated
  BY <1>2, <1>3, <1>4
<1>5. CASE ~bs[k + 1].allocated
  BY <1>2, <1>3, <1>5
<1> QED BY <1>4, <1>5

\* Lists that agree on their first k blocks.
LEMMA SameSoFar ==
  ASSUME NEW bs, NEW cs, NEW k, \A i \in 1..k : cs[i] = bs[i]
  PROVE  Given(cs, k) = Given(bs, k) /\ Open(cs, k) = Open(bs, k)
<1>1. \A i \in 2..k : i \in 1..k
  OBVIOUS
<1>2. ASSUME NEW x PROVE x \in Given(cs, k) <=> x \in Given(bs, k)
  BY <1>1, GivenOf
<1>3. ASSUME NEW p PROVE p \in Open(cs, k) <=> p \in Open(bs, k)
  BY OpenOf
<1> QED BY <1>2, <1>3

\* No two blocks side by side are free.
Coalesced(bs) == \A i \in 2..(Len(bs) - 1) : bs[i].allocated \/ bs[i + 1].allocated

\* What merge has made of the first k blocks of bs.
Merged(bs, out, k) ==
  /\ out \in Seq(NBlock) /\ Len(out) >= 2
  /\ out[1] = bs[1] /\ out[2].first = bs[2].first
  /\ \A i \in 2..(Len(out) - 1) : out[i + 1].first = End(out[i])
  /\ Coalesced(out)
  /\ End(out[Len(out)]) = End(bs[k])
  /\ Given(out, Len(out)) = Given(bs, k)
  /\ Open(out, Len(out)) = Open(bs, k)

\* A block at the end of a list, index by index.
LEMMA AppendFacts ==
  ASSUME NEW out \in Seq(NBlock), NEW b \in NBlock
  PROVE  /\ Append(out, b) \in Seq(NBlock)
         /\ Len(Append(out, b)) = Len(out) + 1
         /\ Append(out, b)[Len(out) + 1] = b
         /\ \A i \in 1..Len(out) : Append(out, b)[i] = out[i]
OBVIOUS

\* merge leaves the next block alone when it, or the last one kept, is allocated.
LEMMA MergedAppend ==
  ASSUME NEW bs, Chain(bs), NEW k \in 2..(Len(bs) - 1), NEW out, Merged(bs, out, k),
         out[Len(out)].allocated \/ bs[k + 1].allocated
  PROVE  Merged(bs, Append(out, bs[k + 1]), k + 1)
<1> DEFINE b == bs[k + 1]
           L == Len(out)
           r == Append(out, b)
<1>0. /\ bs \in Seq(NBlock) /\ Len(bs) \in Nat /\ k + 1 \in 1..Len(bs) /\ b \in NBlock
      /\ L \in Nat /\ L >= 2 /\ out \in Seq(NBlock) /\ k \in Nat /\ k >= 1 /\ L >= 1
  <2>1. bs \in Seq(NBlock) /\ out \in Seq(NBlock) /\ L >= 2
    BY DEF Chain, Merged
  <2>2. Len(bs) \in Nat /\ k + 1 \in 1..Len(bs) /\ L \in Nat
    BY <2>1
  <2> QED BY <2>1, <2>2, BlockTypes
<1>1. /\ r \in Seq(NBlock) /\ Len(r) = L + 1 /\ r[L + 1] = b
      /\ \A i \in 1..L : r[i] = out[i]
  BY <1>0, AppendFacts
<1> HIDE DEF r
<1>2. r[1] = bs[1] /\ r[2].first = bs[2].first
  <2>1. 1 \in 1..L /\ 2 \in 1..L
    BY <1>0
  <2> QED BY <1>1, <2>1 DEF Merged
<1>3. ASSUME NEW i \in 2..L
      PROVE  r[i + 1].first = End(r[i]) /\ (r[i].allocated \/ r[i + 1].allocated)
  <2>1. CASE i = L
    <3>1. b.first = End(bs[k])
      BY DEF Chain
    <3>2. End(out[L]) = End(bs[k])
      BY DEF Merged
    <3>3. r[i] = out[L] /\ r[i + 1] = b
      BY <1>0, <1>1, <2>1
    <3> QED BY <3>1, <3>2, <3>3
  <2>2. CASE i # L
    <3>1. i \in 2..(L - 1) /\ i \in 1..L /\ i + 1 \in 1..L
      BY <1>0, <2>2
    <3>2. r[i] = out[i] /\ r[i + 1] = out[i + 1]
      BY <1>1, <3>1
    <3> QED BY <3>1, <3>2 DEF Merged, Coalesced
  <2> QED BY <2>1, <2>2
<1>4. Given(r, L) = Given(bs, k) /\ Open(r, L) = Open(bs, k)
  BY <1>1, SameSoFar DEF Merged
<1>5. Given(r, L + 1) = Given(bs, k + 1) /\ Open(r, L + 1) = Open(bs, k + 1)
  <2>1. CASE b.allocated
    BY <1>0, <1>1, <1>4, <2>1, OneMore
  <2>2. CASE ~b.allocated
    BY <1>0, <1>1, <1>4, <2>2, OneMore
  <2> QED BY <2>1, <2>2
<1>6. Len(r) - 1 = L /\ Len(r) >= 2
  BY <1>0, <1>1
<1> QED BY <1>1, <1>2, <1>3, <1>5, <1>6 DEF Merged, Coalesced, r

\* merge lets the last block kept absorb the next one when both are free.
LEMMA MergedGrow ==
  ASSUME NEW bs, Chain(bs), NEW k \in 2..(Len(bs) - 1), NEW out, Merged(bs, out, k),
         ~out[Len(out)].allocated, ~bs[k + 1].allocated
  PROVE  Merged(bs, [out EXCEPT ![Len(out)].count = @ + bs[k + 1].count], k + 1)
<1> DEFINE b == bs[k + 1]
           L == Len(out)
           a == out[L]
           e == [first |-> a.first, count |-> a.count + b.count, allocated |-> FALSE]
<1>0. /\ bs \in Seq(NBlock) /\ Len(bs) \in Nat /\ k + 1 \in 1..Len(bs)
      /\ L \in Nat /\ L >= 2 /\ out \in Seq(NBlock) /\ k \in Nat /\ k >= 1 /\ L >= 1
      /\ L \in 1..L
  <2>1. bs \in Seq(NBlock) /\ out \in Seq(NBlock) /\ L >= 2
    BY DEF Chain, Merged
  <2>2. Len(bs) \in Nat /\ k + 1 \in 1..Len(bs) /\ L \in Nat
    BY <2>1
  <2> QED BY <2>1, <2>2
<1>1. /\ b \in NBlock /\ b.first \in Nat /\ b.count \in Nat /\ b.count > 0
      /\ a \in NBlock /\ a.first \in Nat /\ a.count \in Nat /\ a.count > 0
  <2>1. /\ bs[k + 1] \in NBlock /\ bs[k + 1].first \in Nat /\ bs[k + 1].count \in Nat
        /\ bs[k + 1].count > 0
    BY ONLY <1>0, BlockTypes
  <2>2. /\ out[L] \in NBlock /\ out[L].first \in Nat /\ out[L].count \in Nat
        /\ out[L].count > 0
    BY ONLY <1>0, BlockTypes
  <2> QED BY <2>1, <2>2
<1>2. e \in NBlock
  <2>1. a.count + b.count \in Nat \ {0}
    <3>1. \A x, y \in Nat : x > 0 => x + y \in Nat \ {0}
      BY ONLY TRUE
    <3> QED BY ONLY <1>1, <3>1, Zenon
  <2> QED BY <1>1, <2>1 DEF NBlock
<1>3. [a EXCEPT !.count = @ + b.count] = e
  <2>1. a.allocated = FALSE
    BY <1>1 DEF NBlock
  <2>2. [a EXCEPT !.count = @ + b.count]
          = [first |-> a.first, count |-> a.count + b.count, allocated |-> a.allocated]
    <3> HIDE DEF a, b
    <3> QED BY <1>1 DEF NBlock
  <2> QED BY <2>1, <2>2
<1>4. PICK r : r = [out EXCEPT ![Len(out)].count = @ + bs[k + 1].count]
  OBVIOUS
<1>5. r = [out EXCEPT ![L] = e]
  BY <1>3, <1>4
<1>6. /\ r \in Seq(NBlock) /\ Len(r) = L /\ r[L] = e
      /\ \A i \in 1..L : i # L => r[i] = out[i]
  <2> HIDE DEF e
  <2> QED BY <1>0, <1>2, <1>5
<1>7. /\ r[L].first = a.first /\ ~r[L].allocated /\ End(r[L]) = End(b)
      /\ PagesOf(r[L]) = PagesOf(a) \cup PagesOf(b)
  <2>1. r[L].first = a.first /\ ~r[L].allocated /\ r[L].count = a.count + b.count
    BY <1>6
  <2>2. b.first = End(bs[k]) /\ End(a) = End(bs[k])
    BY DEF Chain, Merged
  <2>3. b.first = a.first + a.count
    BY <2>2 DEF End
  <2>4. a.first \in Nat /\ a.count \in Nat /\ b.count \in Nat
    BY ONLY <1>1
  <2>5. /\ End(r[L]) = End(b)
        /\ PagesOf(r[L]) = PagesOf(a) \cup PagesOf(b)
    BY ONLY <2>1, <2>3, <2>4, JoinedPages
  <2> QED BY <2>1, <2>5
<1> HIDE DEF e
<1>8. r[1] = bs[1] /\ r[2].first = bs[2].first
  <2>1. 1 \in 1..L /\ 2 \in 1..L /\ 1 # L
    BY <1>0
  <2>2. r[1] = out[1] /\ r[2].first = out[2].first
    BY <1>6, <1>7, <2>1
  <2> QED BY <2>2 DEF Merged
<1>9. ASSUME NEW i \in 2..(L - 1)
      PROVE  r[i + 1].first = End(r[i]) /\ (r[i].allocated \/ r[i + 1].allocated)
  <2>1. i \in 1..L /\ i + 1 \in 1..L /\ i # L
    BY <1>0
  <2>2. r[i] = out[i] /\ r[i + 1].first = out[i + 1].first
    BY <1>6, <1>7, <2>1
  <2>3. out[i + 1].first = End(out[i]) /\ (out[i].allocated \/ out[i + 1].allocated)
    BY DEF Merged, Coalesced
  <2>4. out[i + 1].allocated => r[i + 1].allocated
    <3>1. CASE i + 1 = L
      BY <3>1
    <3>2. CASE i + 1 # L
      BY <1>6, <2>1, <3>2
    <3> QED BY <3>1, <3>2
  <2> QED BY <2>2, <2>3, <2>4
<1>10. /\ L - 1 \in Nat /\ L - 1 >= 1 /\ (L - 1) + 1 = L
       /\ \A i \in 1..(L - 1) : i \in 1..L /\ i # L
  BY <1>0
<1>11. Given(r, L - 1) = Given(out, L - 1) /\ Open(r, L - 1) = Open(out, L - 1)
  BY <1>6, <1>10, SameSoFar
<1>12. /\ Given(out, L) = Given(out, L - 1) /\ Open(out, L) = Open(out, L - 1) \cup PagesOf(a)
       /\ Given(r, L) = Given(r, L - 1) /\ Open(r, L) = Open(r, L - 1) \cup PagesOf(r[L])
  <2>1. Given(out, L) = Given(out, L - 1) /\ Open(out, L) = Open(out, L - 1) \cup PagesOf(out[L])
    BY <1>10, OneMore
  <2>2. Given(r, L) = Given(r, L - 1) /\ Open(r, L) = Open(r, L - 1) \cup PagesOf(r[L])
    BY <1>7, <1>10, OneMore
  <2> QED BY <2>1, <2>2
<1>13. Given(bs, k + 1) = Given(bs, k) /\ Open(bs, k + 1) = Open(bs, k) \cup PagesOf(b)
  BY <1>0, OneMore
<1>14. Given(out, L) = Given(bs, k) /\ Open(out, L) = Open(bs, k)
  BY DEF Merged
<1>15. Given(r, L) = Given(bs, k + 1) /\ Open(r, L) = Open(bs, k + 1)
  BY <1>7, <1>11, <1>12, <1>13, <1>14
<1> QED BY <1>0, <1>4, <1>6, <1>7, <1>8, <1>9, <1>15 DEF Merged, Coalesced

\* The first two blocks never merge: the first is not free.
LEMMA MergedTwo ==
  ASSUME NEW bs, Chain(bs)
  PROVE  Merged(bs, Absorb(Absorb(<<>>, bs[1]), bs[2]), 2)
<1>0. /\ bs \in Seq(NBlock) /\ Len(bs) \in Nat /\ Len(bs) >= 2
      /\ bs[1] \in NBlock /\ bs[2] \in NBlock /\ bs[1].allocated
  <2>1. bs \in Seq(NBlock) /\ Len(bs) \in Nat /\ Len(bs) >= 2 /\ bs[1].allocated
    BY DEF Chain
  <2>2. 1 \in 1..Len(bs) /\ 2 \in 1..Len(bs)
    BY <2>1
  <2> QED BY <2>1, <2>2, BlockTypes
<1>1. Absorb(<<>>, bs[1]) = <<bs[1]>>
  BY DEF Absorb
<1>2. Last(<<bs[1]>>) = bs[1]
  BY DEF Last
<1>3. Absorb(<<bs[1]>>, bs[2]) = Append(<<bs[1]>>, bs[2])
  BY <1>0, <1>2 DEF Absorb
<1> DEFINE out == <<bs[1], bs[2]>>
<1>4. Absorb(Absorb(<<>>, bs[1]), bs[2]) = out
  BY <1>1, <1>3
<1>5. out \in Seq(NBlock) /\ Len(out) = 2 /\ out[1] = bs[1] /\ out[2] = bs[2]
  BY <1>0
<1>6. \A i \in 1..2 : out[i] = bs[i]
  BY <1>5
<1>7. Given(out, 2) = Given(bs, 2) /\ Open(out, 2) = Open(bs, 2)
  <2> HIDE DEF out
  <2> QED BY <1>6, SameSoFar
<1>8. 2..(Len(out) - 1) = {}
  BY <1>5
<1> HIDE DEF out
<1>9. Merged(bs, out, 2)
  BY <1>5, <1>7, <1>8 DEF Merged, Coalesced
<1> QED BY <1>4, <1>9

\* merge keeps the list whole, what is given and what is free, and leaves no two
\* free blocks side by side.
LEMMA MergeSound ==
  ASSUME NEW bs, Chain(bs)
  PROVE  /\ Chain(Merge(bs))
         /\ Given(Merge(bs), Len(Merge(bs))) = Given(bs, Len(bs))
         /\ Open(Merge(bs), Len(Merge(bs))) = Open(bs, Len(bs))
         /\ Coalesced(Merge(bs))
<1> DEFINE N == Len(bs)
<1>0. bs \in Seq(NBlock) /\ N \in Nat /\ N >= 2
  BY DEF Chain
<1>1. PICK m : /\ m[0] = <<>>
               /\ \A k \in 1..N : m[k] = Absorb(m[k - 1], bs[k])
               /\ Merge(bs) = m[N]
  BY <1>0, MergeSteps
<1> DEFINE S == {k \in 0..(N - 2) : Merged(bs, m[k + 2], k + 2)}
<1>2. 0 \in S
  <2>1. 1 \in 1..N /\ 2 \in 1..N /\ 1 - 1 = 0 /\ 2 - 1 = 1 /\ 0 + 2 = 2 /\ 0 \in 0..(N - 2)
    BY <1>0
  <2>2. m[2] = Absorb(Absorb(<<>>, bs[1]), bs[2])
    BY <1>1, <2>1
  <2>3. Merged(bs, m[2], 2)
    BY <2>2, MergedTwo
  <2> QED BY <2>1, <2>3
<1>3. ASSUME NEW k \in 0..((N - 2) - 1), k \in S PROVE k + 1 \in S
  <2>1. /\ k + 2 \in 2..(N - 1) /\ (k + 2) + 1 \in 1..N /\ ((k + 2) + 1) - 1 = k + 2
        /\ (k + 1) + 2 = (k + 2) + 1 /\ k + 1 \in 0..(N - 2)
    BY <1>0
  <2>2. PICK out : out = m[k + 2]
    OBVIOUS
  <2>3. Merged(bs, out, k + 2)
    BY <1>3, <2>2
  <2>4. m[(k + 2) + 1] = Absorb(out, bs[(k + 2) + 1])
    BY <1>1, <2>1, <2>2
  <2>5. out # <<>> /\ Last(out) = out[Len(out)]
    <3>1. out \in Seq(NBlock) /\ Len(out) >= 2
      BY <2>3 DEF Merged
    <3> QED BY <3>1 DEF Last
  <2>6. Merged(bs, Absorb(out, bs[(k + 2) + 1]), (k + 2) + 1)
    <3>1. CASE ~out[Len(out)].allocated /\ ~bs[(k + 2) + 1].allocated
      <4>1. Absorb(out, bs[(k + 2) + 1])
              = [out EXCEPT ![Len(out)].count = @ + bs[(k + 2) + 1].count]
        BY <2>5, <3>1 DEF Absorb
      <4>2. Merged(bs, [out EXCEPT ![Len(out)].count = @ + bs[(k + 2) + 1].count], (k + 2) + 1)
        BY <2>1, <2>3, <3>1, MergedGrow
      <4> QED BY <4>1, <4>2
    <3>2. CASE out[Len(out)].allocated \/ bs[(k + 2) + 1].allocated
      <4>1. Absorb(out, bs[(k + 2) + 1]) = Append(out, bs[(k + 2) + 1])
        BY <2>5, <3>2 DEF Absorb
      <4>2. Merged(bs, Append(out, bs[(k + 2) + 1]), (k + 2) + 1)
        BY <2>1, <2>3, <3>2, MergedAppend
      <4> QED BY <4>1, <4>2
    <3> QED BY <3>1, <3>2
  <2>7. Merged(bs, m[(k + 1) + 2], (k + 1) + 2)
    BY <2>1, <2>4, <2>6
  <2> QED BY <2>1, <2>7
<1>4. N - 2 \in S
  <2>1. N - 2 \in Nat /\ N - 2 \in 0..(N - 2)
    BY <1>0
  <2>2. 0..(N - 2) \subseteq S
    <3> HIDE DEF S
    <3> QED BY <2>1, <1>2, <1>3, UpTo
  <2> QED BY <2>1, <2>2
<1>5. Merged(bs, Merge(bs), N)
  <2>1. (N - 2) + 2 = N
    BY <1>0
  <2> QED BY <1>1, <1>4, <2>1
<1>6. Chain(bs)
  OBVIOUS
<1> QED BY <1>5, <1>6 DEF Merged, Chain

-----------------------------------------------------------------------------
(* The invariant *)

\* A sequence of elements of B is in Seq(B).
LEMMA SeqOfElements ==
  ASSUME NEW A, NEW B, NEW s \in Seq(A), \A i \in 1..Len(s) : s[i] \in B
  PROVE  s \in Seq(B)
OBVIOUS

\* Open is FreePages of the list the allocator has.
LEMMA OpenPages ==
  ASSUME blocks \in Seq(NBlock)
  PROVE  Open(blocks, Len(blocks)) = FreePages
<1>1. DOMAIN blocks = 1..Len(blocks)
  OBVIOUS
<1>2. ASSUME NEW i \in 1..Len(blocks)
      PROVE  PagesOf(blocks[i]) = blocks[i].first..(blocks[i].first + blocks[i].count - 1)
  <2>1. blocks[i].first \in Nat /\ blocks[i].count \in Nat
    BY BlockTypes
  <2> QED BY <2>1 DEF PagesOf, End
<1>3. ASSUME NEW p
      PROVE  p \in FreePages <=>
               \E i \in 1..Len(blocks) : ~blocks[i].allocated /\ p \in PagesOf(blocks[i])
  BY <1>1, <1>2 DEF FreePages
<1> QED BY <1>3, OpenOf

\* Only pages behind the reserved ones are free.
LEMMA OpenRange ==
  ASSUME NEW bs, Chain(bs)
  PROVE  /\ Open(bs, Len(bs)) \subseteq (Reserved + 1)..Count
         /\ IsFiniteSet(Open(bs, Len(bs)))
         /\ Cardinality(Open(bs, Len(bs))) \in 0..(Count - Reserved)
<1>0. /\ bs \in Seq(NBlock) /\ Len(bs) \in Nat /\ bs[1].allocated
      /\ Reserved \in Nat /\ Count \in Nat /\ Count > Reserved
  BY MemoryAssumption DEF Chain
<1>1. Open(bs, Len(bs)) \subseteq (Reserved + 1)..Count
  <2> SUFFICES ASSUME NEW p \in Open(bs, Len(bs)) PROVE p \in (Reserved + 1)..Count
    OBVIOUS
  <2>1. PICK i \in 1..Len(bs) : ~bs[i].allocated /\ p \in PagesOf(bs[i])
    BY OpenOf
  <2>2. i \in 2..Len(bs)
    BY <1>0, <2>1
  <2>3. bs[i].first \in Nat /\ End(bs[i]) \in Nat
    BY <1>0, BlockTypes
  <2>4. bs[i].first >= Reserved + 1 /\ End(bs[i]) <= Top
    BY <2>2, InRange
  <2> QED BY <1>0, <2>1, <2>3, <2>4 DEF PagesOf, Top
<1>2. /\ IsFiniteSet((Reserved + 1)..Count)
      /\ Cardinality((Reserved + 1)..Count) = Count - Reserved
  <2>1. /\ Reserved + 1 \in Int /\ Count \in Int /\ ~ (Reserved + 1 > Count)
        /\ Count - (Reserved + 1) + 1 = Count - Reserved
    BY <1>0
  <2> QED BY <2>1, FS_Interval
<1>3. /\ IsFiniteSet(Open(bs, Len(bs)))
      /\ Cardinality(Open(bs, Len(bs))) <= Cardinality((Reserved + 1)..Count)
  BY <1>1, <1>2, FS_Subset
<1>4. Cardinality(Open(bs, Len(bs))) \in Nat
  BY <1>3, FS_CardinalityType
<1> QED BY <1>0, <1>1, <1>2, <1>3, <1>4

\* What the holders have: each of the blocks they were given, and the heap its pages.
Holdings(hd, hp) == {<<p, hd[p]>> : p \in DOMAIN hd} \cup {<<p, 1>> : p \in hp}

\* PagesSound as a fact about a list, a counter and the holders, so that the lemmas
\* above apply to any of them, those after the step included.
Sound(bs, free, hd, hp) ==
  /\ Chain(bs)
  /\ Given(bs, Len(bs)) = Holdings(hd, hp)
  /\ DOMAIN hd \cap hp = {}
  /\ free = Cardinality(Open(bs, Len(bs)))

\* The inductive invariant.
Tiled == /\ Sound(blocks, free_pages, held, heap)
         /\ no_schedule \in 0..(MaxDepth + 1)
         /\ taskman \in BOOLEAN
         /\ machine \in {"up", "fault", "panic"}

\* It is PagesSound: nothing a run checks is lost in the other form.
LEMMA TiledIsSound == Tiled => PagesSound
<1> SUFFICES ASSUME Tiled PROVE PagesSound
  OBVIOUS
<1>0. /\ Chain(blocks) /\ DOMAIN held \cap heap = {}
      /\ Given(blocks, Len(blocks)) = Holdings(held, heap)
      /\ free_pages = Cardinality(Open(blocks, Len(blocks)))
  BY DEF Tiled, Sound
<1>1. /\ blocks \in Seq(NBlock) /\ Len(blocks) \in Nat /\ Len(blocks) >= 2
      /\ Reserved \in Nat /\ Count \in Nat /\ Count > Reserved
      /\ Reserved > 0
  BY <1>0, MemoryAssumption DEF Chain
<1>2. ASSUME NEW i \in 2..Len(blocks)
      PROVE  blocks[i].first \in 0..Top /\ blocks[i].count \in 1..Count
  <2>1. i \in 1..Len(blocks)
    BY <1>1
  <2>2. /\ blocks[i].first \in Nat /\ blocks[i].count \in Nat /\ blocks[i].count > 0
        /\ End(blocks[i]) \in Nat /\ End(blocks[i]) > blocks[i].first
    BY <1>1, <2>1, BlockTypes
  <2>3. blocks[i].first >= Reserved + 1 /\ End(blocks[i]) <= Top
    BY <1>0, InRange
  <2> QED BY <1>1, <2>2, <2>3 DEF End, Top
<1>3. ASSUME NEW i \in 1..Len(blocks)
      PROVE  blocks[i] \in [first : 0..Top, count : 1..Count, allocated : BOOLEAN]
  <2>1. blocks[i] \in NBlock
    BY <1>1
  <2>2. blocks[i].first \in 0..Top /\ blocks[i].count \in 1..Count
    <3>1. CASE i = 1
      <4>1. blocks[1].first = 0 /\ blocks[1].count = Reserved
        BY <1>0 DEF Chain
      <4> QED BY <1>1, <3>1, <4>1 DEF Top
    <3>2. CASE i # 1
      <4>1. i \in 2..Len(blocks)
        BY <1>1, <3>2
      <4> QED BY <1>2, <4>1
    <3> QED BY <3>1, <3>2
  <2> QED BY <2>1, <2>2 DEF NBlock
<1>4. blocks \in Seq([first : 0..Top, count : 1..Count, allocated : BOOLEAN])
  BY <1>1, <1>3, SeqOfElements
<1>5. ASSUME NEW x, NEW c, <<x, c>> \in Given(blocks, Len(blocks)) PROVE x \in 0..Top
  <2>1. PICK i \in 2..Len(blocks) :
          blocks[i].allocated /\ <<x, c>> = <<blocks[i].first, blocks[i].count>>
    BY <1>5, GivenOf
  <2>2. x = blocks[i].first
    BY <2>1
  <2> QED BY <1>2, <2>2
<1>6. DOMAIN held \subseteq 0..Top /\ heap \subseteq 0..Top
  <2>1. \A p \in DOMAIN held : <<p, held[p]>> \in Given(blocks, Len(blocks))
    BY <1>0 DEF Holdings
  <2>2. \A p \in heap : <<p, 1>> \in Given(blocks, Len(blocks))
    BY <1>0 DEF Holdings
  <2> QED BY <1>5, <2>1, <2>2
<1>7. FreePages = Open(blocks, Len(blocks))
  BY <1>1, OpenPages
<1>8. FreeCounted /\ free_pages \in 0..(Count - Reserved)
  BY <1>0, <1>7, OpenRange DEF FreeCounted
<1>9. TypeOK
  BY <1>4, <1>6, <1>8 DEF TypeOK, Tiled
<1>10. Tiling
  BY <1>0 DEF Chain, Tiling, Last, End
<1>11. HandedOut
  BY <1>0 DEF HandedOut, Given, Holdings
<1>12. EachPageInOne
  <2>1. \A p \in Int : \A i \in DOMAIN blocks : In(p, i) <=> p \in PagesOf(blocks[i])
    BY <1>1, BlockTypes DEF In, PagesOf, End
  <2>2. DOMAIN blocks = 1..Len(blocks) /\ Memory \subseteq Int /\ Top \in Nat
    BY <1>1 DEF Memory, Top
  <2>3. ASSUME NEW p \in Memory, p \notin LeftOut PROVE \E i \in DOMAIN blocks : In(p, i)
    <3>1. CASE p < Reserved
      <4>1. blocks[1].first = 0 /\ blocks[1].count = Reserved /\ 1 \in DOMAIN blocks
        BY <1>0, <1>1, <2>2 DEF Chain
      <4> QED BY <1>1, <3>1, <4>1 DEF In, Memory
    <3>2. CASE p >= Reserved
      <4>1. p \in (Reserved + 1)..(Top - 1)
        BY <1>1, <2>3, <3>2 DEF Memory, LeftOut, Top
      <4>2. PICK i \in 2..Len(blocks) : blocks[i].first <= p /\ p < End(blocks[i])
        BY <1>0, <4>1, NoGap
      <4> QED BY <1>1, <2>2, <4>2 DEF In, End
    <3> QED BY <1>1, <3>1, <3>2 DEF Memory
  <2>4. ASSUME NEW p \in Int, NEW i \in DOMAIN blocks, In(p, i)
        PROVE  p \in Memory /\ p \notin LeftOut
    <3>1. CASE i = 1
      <4>1. 0 <= p /\ p < Reserved
        BY <1>0, <1>1, <2>4, <3>1 DEF In, Chain
      <4> QED BY <1>1, <4>1 DEF Memory, LeftOut, Top
    <3>2. CASE i # 1
      <4>1. i \in 2..Len(blocks) /\ i \in 1..Len(blocks)
        BY <1>1, <2>2, <3>2
      <4>2. /\ blocks[i].first >= Reserved + 1 /\ End(blocks[i]) <= Top
            /\ blocks[i].first \in Nat /\ End(blocks[i]) \in Nat
        BY <1>0, <1>1, <4>1, InRange, BlockTypes
      <4>3. p >= Reserved + 1 /\ p < Top
        BY <1>1, <2>2, <2>4, <4>2 DEF In, End
      <4> QED BY <1>1, <4>3 DEF Memory, LeftOut, Top
    <3> QED BY <3>1, <3>2
  <2>5. \A p \in Memory : p \in LeftOut <=> \A i \in DOMAIN blocks : ~In(p, i)
    BY <2>2, <2>3, <2>4
  <2>6. \A p \in Memory : \A i, j \in DOMAIN blocks : In(p, i) /\ In(p, j) => i = j
    <3> SUFFICES ASSUME NEW p \in Memory, NEW i \in DOMAIN blocks, NEW j \in DOMAIN blocks,
                        In(p, i), In(p, j)
                 PROVE  i = j
      OBVIOUS
    <3>1. p \in PagesOf(blocks[i]) /\ p \in PagesOf(blocks[j])
      BY <2>1, <2>2
    <3> QED BY <1>0, <2>2, <3>1, OneBlock
  <2>7. ASSUME NEW i \in DOMAIN blocks
        PROVE  blocks[i].first + blocks[i].count - 1 \in Memory
    <3>1. PICK f, c : f = blocks[i].first /\ c = blocks[i].count
      OBVIOUS
    <3>2. f \in Nat /\ c \in Nat /\ c > 0
      BY <1>1, <2>2, <3>1, BlockTypes
    <3>3. In(f + c - 1, i) /\ f + c - 1 \in Int
      BY ONLY <3>1, <3>2 DEF In
    <3> QED BY <2>4, <3>1, <3>3
  <2> QED BY <2>5, <2>6, <2>7 DEF EachPageInOne
<1> QED BY <1>8, <1>9, <1>10, <1>11, <1>12 DEF PagesSound

\* The list of the constructor: the reserved pages, and one free block.
LEMMA InitTiled == Init => Tiled
<1> SUFFICES ASSUME Init PROVE Tiled
  OBVIOUS
<1>0. Reserved \in Nat \ {0} /\ Count \in Nat /\ Count > Reserved /\ MaxDepth \in Nat
  BY MemoryAssumption
<1> DEFINE a == [first |-> 0, count |-> Reserved, allocated |-> TRUE]
           b == [first |-> Reserved + 1, count |-> Count - Reserved, allocated |-> FALSE]
<1>1. blocks = <<a, b>> /\ free_pages = Count - Reserved /\ held = <<>> /\ heap = {}
  BY DEF Init
<1>2. a \in NBlock /\ b \in NBlock
  BY <1>0 DEF NBlock
<1>3. /\ blocks \in Seq(NBlock) /\ Len(blocks) = 2 /\ blocks[1] = a /\ blocks[2] = b
  <2> HIDE DEF a, b
  <2> QED BY <1>1, <1>2
<1>4. End(b) = Top
  BY <1>0 DEF End, Top
<1>5. Chain(blocks)
  <2>1. 2..(Len(blocks) - 1) = {}
    BY <1>3
  <2>2. blocks[2].first = Reserved + 1
    BY <1>3
  <2> HIDE DEF b
  <2> QED BY <1>3, <1>4, <2>1, <2>2 DEF Chain
<1>6. Given(blocks, Len(blocks)) = {}
  <2>1. ~blocks[2].allocated
    BY <1>3
  <2>2. \A i \in 2..2 : i = 2
    OBVIOUS
  <2> HIDE DEF a, b
  <2> QED BY <1>3, <2>1, <2>2, GivenOf
<1>7. Holdings(held, heap) = {} /\ DOMAIN held = {}
  BY <1>1 DEF Holdings
<1>8. Open(blocks, Len(blocks)) = PagesOf(b)
  <2>1. ~blocks[2].allocated /\ blocks[1].allocated
    BY <1>3
  <2>2. 1..Len(blocks) = {1, 2}
    BY <1>3
  <2>3. \A p : p \in Open(blocks, Len(blocks)) <=> p \in PagesOf(blocks[2])
    <3> HIDE DEF a, b
    <3> QED BY <2>1, <2>2, OpenOf
  <2> HIDE DEF a, b
  <2> QED BY <1>3, <2>3
<1>9. PagesOf(b) = (Reserved + 1)..Count
  BY <1>0, <1>4 DEF PagesOf, Top
<1>10. Cardinality((Reserved + 1)..Count) = Count - Reserved
  BY <1>0, FS_Interval
<1>11. Sound(blocks, free_pages, held, heap)
  BY <1>1, <1>5, <1>6, <1>7, <1>8, <1>9, <1>10 DEF Sound
<1>12. no_schedule \in 0..(MaxDepth + 1)
  BY <1>0 DEF Init
<1>13. taskman \in BOOLEAN /\ machine \in {"up", "fault", "panic"}
  BY DEF Init
<1> QED BY <1>11, <1>12, <1>13 DEF Tiled

-----------------------------------------------------------------------------
(* Sound is kept *)

\* The holders with one block more
More(hd, f, n) == [p \in DOMAIN hd \cup {f} |-> IF p = f THEN n ELSE hd[p]]

\* The holders, and the heap, with one thing more.
LEMMA HoldMore ==
  ASSUME NEW hd, NEW hp, NEW f, NEW n, NEW g, f \notin DOMAIN hd, g = More(hd, f, n)
  PROVE  /\ \A x : x \in Holdings(g, hp) <=> x \in Holdings(hd, hp) \/ x = <<f, n>>
         /\ \A p : p \in DOMAIN g <=> p \in DOMAIN hd \/ p = f
<1>1. DOMAIN g = DOMAIN hd \cup {f} /\ g[f] = n /\ \A p \in DOMAIN hd : g[p] = hd[p]
  BY DEF More
<1>2. {<<p, g[p]>> : p \in DOMAIN g} = {<<p, hd[p]>> : p \in DOMAIN hd} \cup {<<f, n>>}
  BY <1>1
<1> QED BY <1>1, <1>2 DEF Holdings

\* The heap with one page more.
LEMMA HeapMore ==
  ASSUME NEW hd, NEW hp, NEW q, NEW hq, hq = hp \cup {q}
  PROVE  \A x : x \in Holdings(hd, hq) <=> x \in Holdings(hd, hp) \/ x = <<q, 1>>
BY DEF Holdings

\* A run of n pages taken from a finite set of them.
LEMMA RunTaken ==
  ASSUME NEW S, IsFiniteSet(S), NEW f \in Nat, NEW n \in Nat \ {0},
         f..(f + n - 1) \subseteq S
  PROVE  Cardinality(S \ f..(f + n - 1)) = Cardinality(S) - n
<1> DEFINE R == f..(f + n - 1)
<1>1. IsFiniteSet(R) /\ Cardinality(R) = n
  <2>1. /\ f \in Int /\ f + n - 1 \in Int /\ ~ (f > f + n - 1)
        /\ (f + n - 1) - f + 1 = n
    OBVIOUS
  <2> QED BY <2>1, FS_Interval
<1>2. S \cap R = R
  OBVIOUS
<1> HIDE DEF R
<1>3. Cardinality(S \ R) = Cardinality(S) - Cardinality(S \cap R)
  BY FS_Difference
<1> QED BY <1>1, <1>2, <1>3 DEF R

\* The first page of a free block is nobody's.
LEMMA FreeUnheld ==
  ASSUME NEW bs, NEW free, NEW hd, NEW hp, Sound(bs, free, hd, hp),
         NEW f, \A c : <<f, c>> \notin Given(bs, Len(bs))
  PROVE  f \notin DOMAIN hd /\ f \notin hp
<1>1. Given(bs, Len(bs)) = Holdings(hd, hp)
  BY DEF Sound
<1> QED BY <1>1 DEF Holdings

\* A merge gives nothing out and takes nothing away.
LEMMA SoundMerge ==
  ASSUME NEW bs, NEW free, NEW hd, NEW hp, Sound(bs, free, hd, hp)
  PROVE  Sound(Merge(bs), free, hd, hp)
BY MergeSound DEF Sound

\* A caller is given n pages of a free block.
LEMMA SoundTake ==
  ASSUME NEW bs, NEW free, NEW hd, NEW hp, Sound(bs, free, hd, hp),
         NEW n \in Nat \ {0}, NEW i \in 2..Len(bs), ~bs[i].allocated, bs[i].count >= n
  PROVE  /\ Sound(Cut(Mark(bs, i, TRUE), i, n), free - n, More(hd, bs[i].first, n), hp)
         /\ bs[i].first \notin DOMAIN hd
<1>0. /\ Chain(bs) /\ Given(bs, Len(bs)) = Holdings(hd, hp) /\ DOMAIN hd \cap hp = {}
      /\ free = Cardinality(Open(bs, Len(bs)))
  BY DEF Sound
<1>1. i \in 2..Len(bs) /\ ~bs[i].allocated /\ bs[i].count >= n
  OBVIOUS
<1>2. PICK r : r = Cut(Mark(bs, i, TRUE), i, n)
  OBVIOUS
<1>3. PICK f : f = bs[i].first
  OBVIOUS
<1>4. /\ Chain(r)
      /\ Given(r, Len(r)) = Given(bs, Len(bs)) \cup {<<f, n>>}
      /\ Open(r, Len(r)) = Open(bs, Len(bs)) \ f..(f + n - 1)
      /\ f..(f + n - 1) \subseteq Open(bs, Len(bs))
      /\ \A c : <<f, c>> \notin Given(bs, Len(bs))
  <2>1. /\ Chain(bs) /\ n \in Nat \ {0} /\ i \in 2..Len(bs) /\ ~bs[i].allocated
        /\ bs[i].count >= n /\ r = Cut(Mark(bs, i, TRUE), i, n)
    BY <1>0, <1>1, <1>2
  <2>2. Taken(bs, i, n, r)
    BY ONLY <2>1, Take
  <2> QED BY ONLY <2>2, <1>3, Zenon DEF Taken
<1>5. f \notin DOMAIN hd /\ f \notin hp
  BY <1>4, FreeUnheld
<1>6. f \in Nat
  <2>1. bs \in Seq(NBlock) /\ i \in 1..Len(bs)
    BY <1>0, <1>1 DEF Chain
  <2> QED BY <1>3, <2>1, BlockTypes
<1>7. Cardinality(Open(r, Len(r))) = free - n
  <2>1. IsFiniteSet(Open(bs, Len(bs)))
    BY <1>0, OpenRange
  <2>2. PICK S : S = Open(bs, Len(bs))
    OBVIOUS
  <2>3. IsFiniteSet(S) /\ f..(f + n - 1) \subseteq S /\ n \in Nat \ {0}
    BY <1>4, <2>1, <2>2
  <2>4. Cardinality(S \ f..(f + n - 1)) = Cardinality(S) - n
    BY ONLY <1>6, <2>3, RunTaken
  <2> QED BY <1>0, <1>4, <2>2, <2>4
<1>8. PICK g : g = More(hd, f, n)
  OBVIOUS
<1>9. Holdings(g, hp) = Holdings(hd, hp) \cup {<<f, n>>} /\ DOMAIN g = DOMAIN hd \cup {f}
  <2>1. /\ \A x : x \in Holdings(g, hp) <=> x \in Holdings(hd, hp) \/ x = <<f, n>>
        /\ \A p : p \in DOMAIN g <=> p \in DOMAIN hd \/ p = f
    BY ONLY <1>5, <1>8, HoldMore
  <2> QED BY ONLY <2>1
<1>10. Sound(r, free - n, g, hp)
  BY <1>0, <1>4, <1>5, <1>7, <1>9 DEF Sound
<1> QED BY <1>2, <1>3, <1>5, <1>8, <1>10

\* The heap takes a page for itself.
LEMMA SoundHeap ==
  ASSUME NEW bs, NEW free, NEW hd, NEW hp, Sound(bs, free, hd, hp), Direct(bs, 1),
         NEW i, i = FirstFit(bs, 1)
  PROVE  /\ Sound(Cut(Mark(bs, i, TRUE), i, 1), free - 1, hd, hp \cup {bs[i].first})
         /\ bs[i].first \in Open(bs, Len(bs))
<1>0. /\ Chain(bs) /\ Given(bs, Len(bs)) = Holdings(hd, hp) /\ DOMAIN hd \cap hp = {}
      /\ free = Cardinality(Open(bs, Len(bs)))
  BY DEF Sound
<1>1. i \in 2..Len(bs) /\ ~bs[i].allocated /\ bs[i].count >= 1
  BY <1>0, FirstFitFacts
<1>2. PICK r : r = Cut(Mark(bs, i, TRUE), i, 1)
  OBVIOUS
<1>3. PICK f : f = bs[i].first
  OBVIOUS
<1>4. f \in Nat
  <2>1. bs \in Seq(NBlock) /\ i \in 1..Len(bs)
    BY <1>0, <1>1 DEF Chain
  <2> QED BY <1>3, <2>1, BlockTypes
<1>5. /\ Chain(r)
      /\ Given(r, Len(r)) = Given(bs, Len(bs)) \cup {<<f, 1>>}
      /\ Open(r, Len(r)) = Open(bs, Len(bs)) \ {f}
      /\ f \in Open(bs, Len(bs))
      /\ \A c : <<f, c>> \notin Given(bs, Len(bs))
  <2>1. /\ Chain(r)
        /\ Given(r, Len(r)) = Given(bs, Len(bs)) \cup {<<f, 1>>}
        /\ Open(r, Len(r)) = Open(bs, Len(bs)) \ f..(f + 1 - 1)
        /\ f..(f + 1 - 1) \subseteq Open(bs, Len(bs))
        /\ \A c : <<f, c>> \notin Given(bs, Len(bs))
    <3>1. 1 \in Nat \ {0} /\ i \in 2..Len(bs)
      BY <1>1
    <3>2. /\ Chain(bs) /\ ~bs[i].allocated /\ bs[i].count >= 1
          /\ r = Cut(Mark(bs, i, TRUE), i, 1)
      BY <1>0, <1>1, <1>2
    <3>3. Taken(bs, i, 1, r)
      BY ONLY <3>1, <3>2, Take
    <3> QED BY ONLY <3>3, <1>3, Zenon DEF Taken
  <2>2. f..(f + 1 - 1) = {f}
    BY <1>4
  <2> QED BY <2>1, <2>2
<1>6. f \notin DOMAIN hd
  BY <1>5, FreeUnheld
<1>7. Cardinality(Open(r, Len(r))) = free - 1
  <2>1. IsFiniteSet(Open(bs, Len(bs)))
    BY <1>0, OpenRange
  <2> QED BY <1>0, <1>5, <2>1, FS_RemoveElement
<1>8. PICK hq : hq = hp \cup {f}
  OBVIOUS
<1>9. Holdings(hd, hq) = Holdings(hd, hp) \cup {<<f, 1>>} /\ DOMAIN hd \cap hq = {}
  BY <1>0, <1>6, <1>8, HeapMore
<1>10. Sound(r, free - 1, hd, hq)
  BY <1>0, <1>5, <1>7, <1>9 DEF Sound
<1> QED BY <1>2, <1>3, <1>5, <1>8, <1>10

\* The block that begins with page is found by its first page.
LEMMA AtFacts ==
  ASSUME NEW bs, Chain(bs), NEW j \in 1..Len(bs)
  PROVE  Has(bs, bs[j].first) /\ At(bs, bs[j].first) = j
<1>1. DOMAIN bs = 1..Len(bs)
  BY DEF Chain
<1>2. \A i \in DOMAIN bs : bs[i].first = bs[j].first => i = j
  BY <1>1, OneFirst
<1> QED BY <1>1, <1>2 DEF Has, At

\* A block that somebody holds is in the list, allocated, and as long as it was
\* when it was given.
LEMMA HeldBlock ==
  ASSUME NEW bs, NEW free, NEW hd, NEW hp, Sound(bs, free, hd, hp), NEW f \in DOMAIN hd
  PROVE  /\ At(bs, f) \in 2..Len(bs)
         /\ bs[At(bs, f)].first = f /\ bs[At(bs, f)].count = hd[f]
         /\ bs[At(bs, f)].allocated
         /\ f \in Nat /\ hd[f] \in Nat \ {0}
<1>1. Chain(bs) /\ <<f, hd[f]>> \in Given(bs, Len(bs))
  BY DEF Sound, Holdings
<1>2. PICK j \in 2..Len(bs) : bs[j].allocated /\ <<f, hd[f]>> = <<bs[j].first, bs[j].count>>
  BY <1>1, GivenOf
<1>3. j \in 1..Len(bs) /\ bs \in Seq(NBlock)
  BY <1>1 DEF Chain
<1>4. bs[j].first = f /\ bs[j].count = hd[f]
  BY <1>2
<1>5. At(bs, f) = j
  BY <1>1, <1>3, <1>4, AtFacts
<1>6. bs[j].first \in Nat /\ bs[j].count \in Nat /\ bs[j].count > 0
  BY <1>3, BlockTypes
<1> QED BY <1>2, <1>4, <1>5, <1>6

\* The pages of an allocated block are not free, and there are count of them.
LEMMA UsedPages ==
  ASSUME NEW bs, Chain(bs), NEW i \in 2..Len(bs), bs[i].allocated
  PROVE  /\ PagesOf(bs[i]) \cap Open(bs, Len(bs)) = {}
         /\ IsFiniteSet(PagesOf(bs[i])) /\ Cardinality(PagesOf(bs[i])) = bs[i].count
<1>1. i \in 1..Len(bs) /\ bs \in Seq(NBlock)
  BY DEF Chain
<1>2. bs[i].first \in Nat /\ bs[i].count \in Nat /\ bs[i].count > 0
  BY <1>1, BlockTypes
<1>3. PagesOf(bs[i]) \cap Open(bs, Len(bs)) = {}
  <2> SUFFICES ASSUME NEW p \in PagesOf(bs[i]), p \in Open(bs, Len(bs)) PROVE FALSE
    OBVIOUS
  <2>1. PICK j \in 1..Len(bs) : ~bs[j].allocated /\ p \in PagesOf(bs[j])
    BY OpenOf
  <2> QED BY <1>1, <2>1, OneBlock
<1>4. PICK f, c : f = bs[i].first /\ c = bs[i].count
  OBVIOUS
<1>5. PagesOf(bs[i]) = f..(f + c - 1)
  BY <1>2, <1>4 DEF PagesOf, End
<1>6. IsFiniteSet(f..(f + c - 1)) /\ Cardinality(f..(f + c - 1)) = c
  <2>1. /\ f \in Int /\ f + c - 1 \in Int /\ ~ (f > f + c - 1)
        /\ (f + c - 1) - f + 1 = c
    BY <1>2, <1>4
  <2> QED BY <2>1, FS_Interval
<1> QED BY <1>3, <1>4, <1>5, <1>6

\* Pages that become free.
LEMMA RunGiven ==
  ASSUME NEW S, NEW T, IsFiniteSet(S), IsFiniteSet(T), S \cap T = {}
  PROVE  Cardinality(S \cup T) = Cardinality(S) + Cardinality(T)
<1>1. Cardinality(S \cup T) = Cardinality(S) + Cardinality(T) - Cardinality(S \cap T)
  BY FS_Union
<1>2. Cardinality(S \cap T) = 0
  BY FS_EmptySet
<1>3. Cardinality(S) \in Nat /\ Cardinality(T) \in Nat
  BY FS_CardinalityType
<1> QED BY <1>1, <1>2, <1>3

\* A block that is held is cut to n pages and the rest of it is free again.
LEMMA SoundCut ==
  ASSUME NEW bs, NEW free, NEW hd, NEW hp, Sound(bs, free, hd, hp), NEW f \in DOMAIN hd,
         NEW n \in Nat \ {0}, n <= hd[f]
  PROVE  Sound(Cut(bs, At(bs, f), n), free + (hd[f] - n), More(hd, f, n), hp)
<1>0. /\ Chain(bs) /\ Given(bs, Len(bs)) = Holdings(hd, hp) /\ DOMAIN hd \cap hp = {}
      /\ free = Cardinality(Open(bs, Len(bs)))
  BY DEF Sound
<1>1. PICK i : i = At(bs, f)
  OBVIOUS
<1>2. PICK c : c = hd[f]
  OBVIOUS
<1>3. /\ i \in 2..Len(bs) /\ bs[i].first = f /\ bs[i].count = c /\ bs[i].allocated
      /\ f \in Nat /\ c \in Nat \ {0} /\ n <= c /\ n \in Nat \ {0}
  BY <1>1, <1>2, HeldBlock
<1>4. PICK r : r = Cut(bs, i, n)
  OBVIOUS
<1>5. /\ Chain(r)
      /\ Given(r, Len(r)) = (Given(bs, Len(bs)) \ {<<f, c>>}) \cup {<<f, n>>}
      /\ Open(r, Len(r)) = Open(bs, Len(bs)) \cup (PagesOf(bs[i]) \ f..(f + n - 1))
  <2>1. /\ Chain(Cut(bs, i, n))
        /\ Given(Cut(bs, i, n), Len(Cut(bs, i, n)))
             = (Given(bs, Len(bs)) \ {<<bs[i].first, bs[i].count>>}) \cup {<<bs[i].first, n>>}
        /\ Open(Cut(bs, i, n), Len(Cut(bs, i, n)))
             = Open(bs, Len(bs)) \cup (PagesOf(bs[i]) \ bs[i].first..(bs[i].first + n - 1))
    BY ONLY <1>0, <1>3, CutUsed
  <2> QED BY <1>3, <1>4, <2>1
<1>6. PICK S, T : S = Open(bs, Len(bs)) /\ T = PagesOf(bs[i])
  OBVIOUS
<1>7. IsFiniteSet(S) /\ IsFiniteSet(T) /\ S \cap T = {} /\ Cardinality(T) = c
  BY <1>0, <1>3, <1>6, UsedPages, OpenRange
<1>8. T = f..(f + c - 1) /\ f..(f + n - 1) \subseteq T
  BY <1>3, <1>6 DEF PagesOf, End
<1>9. PICK U : U = T \ f..(f + n - 1)
  OBVIOUS
<1>10. Cardinality(U) = c - n /\ IsFiniteSet(U) /\ S \cap U = {}
  <2>0. IsFiniteSet(T) /\ f \in Nat /\ n \in Nat \ {0} /\ f..(f + n - 1) \subseteq T
    BY ONLY <1>3, <1>7, <1>8
  <2>1. Cardinality(U) = Cardinality(T) - n
    <3>1. Cardinality(T \ f..(f + n - 1)) = Cardinality(T) - n
      BY ONLY <2>0, RunTaken
    <3> QED BY ONLY <1>9, <3>1, Zenon
  <2>2. IsFiniteSet(U)
    BY ONLY <1>7, <1>9, FS_Difference
  <2> QED BY <1>7, <1>9, <2>1, <2>2
<1>11. Cardinality(Open(r, Len(r))) = free + (c - n)
  <2>1. Cardinality(S \cup U) = Cardinality(S) + Cardinality(U)
    BY ONLY <1>7, <1>10, RunGiven
  <2> QED BY <1>0, <1>5, <1>6, <1>9, <1>10, <2>1
<1>12. PICK g : g = More(hd, f, n)
  OBVIOUS
<1>13. Given(r, Len(r)) = Holdings(g, hp)
  <2>1. DOMAIN g = DOMAIN hd /\ g[f] = n /\ \A p \in DOMAIN hd : p # f => g[p] = hd[p]
    BY <1>12 DEF More
  <2>2. f \notin hp
    BY <1>0
  <2>3. ASSUME NEW x
        PROVE  x \in Holdings(g, hp) <=> (x \in Holdings(hd, hp) /\ x # <<f, c>>) \/ x = <<f, n>>
    BY <1>2, <2>1, <2>2 DEF Holdings
  <2> QED BY <1>0, <1>5, <2>3
<1>14. DOMAIN g \cap hp = {}
  BY <1>0, <1>12 DEF More
<1>15. Sound(r, free + (c - n), g, hp)
  BY <1>5, <1>11, <1>13, <1>14 DEF Sound
<1> QED BY <1>1, <1>2, <1>4, <1>12, <1>15

\* A block that is held is freed.
LEMMA SoundFree ==
  ASSUME NEW bs, NEW free, NEW hd, NEW hp, Sound(bs, free, hd, hp), NEW f \in DOMAIN hd
  PROVE  Sound(Mark(bs, At(bs, f), FALSE), free + bs[At(bs, f)].count,
               [p \in DOMAIN hd \ {f} |-> hd[p]], hp)
<1>0. /\ Chain(bs) /\ Given(bs, Len(bs)) = Holdings(hd, hp) /\ DOMAIN hd \cap hp = {}
      /\ free = Cardinality(Open(bs, Len(bs)))
  BY DEF Sound
<1>1. PICK i : i = At(bs, f)
  OBVIOUS
<1>2. PICK c : c = hd[f]
  OBVIOUS
<1>3. /\ i \in 2..Len(bs) /\ bs[i].first = f /\ bs[i].count = c /\ bs[i].allocated
  BY <1>1, <1>2, HeldBlock
<1>4. PICK r : r = Mark(bs, i, FALSE)
  OBVIOUS
<1>5. Chain(r) /\ Len(r) = Len(bs)
  <2>1. bs \in Seq(NBlock) /\ i \in 1..Len(bs)
    BY <1>0, <1>3 DEF Chain
  <2> QED BY <1>0, <1>3, <1>4, <2>1, MarkChain, MarkFacts
<1>6. /\ Given(r, Len(r)) = Given(bs, Len(bs)) \ {<<f, c>>}
      /\ Open(r, Len(r)) = Open(bs, Len(bs)) \cup PagesOf(bs[i])
  BY <1>0, <1>3, <1>4, <1>5, MarkFree
<1>7. Cardinality(Open(r, Len(r))) = free + c
  <2>1. PICK S, T : S = Open(bs, Len(bs)) /\ T = PagesOf(bs[i])
    OBVIOUS
  <2>2. IsFiniteSet(S) /\ IsFiniteSet(T) /\ S \cap T = {} /\ Cardinality(T) = c
    BY <1>0, <1>3, <2>1, UsedPages, OpenRange
  <2>3. Cardinality(S \cup T) = Cardinality(S) + Cardinality(T)
    BY ONLY <2>2, RunGiven
  <2> QED BY <1>0, <1>6, <2>1, <2>2, <2>3
<1>8. PICK g : g = [p \in DOMAIN hd \ {f} |-> hd[p]]
  OBVIOUS
<1>9. f \notin hp
  BY <1>0
<1>10. Given(r, Len(r)) = Holdings(g, hp) /\ DOMAIN g \cap hp = {}
  <2>1. DOMAIN g = DOMAIN hd \ {f} /\ \A p \in DOMAIN g : g[p] = hd[p]
    BY <1>8
  <2>2. ASSUME NEW x
        PROVE  x \in Holdings(g, hp) <=> x \in Holdings(hd, hp) /\ x # <<f, c>>
    BY <1>2, <1>9, <2>1 DEF Holdings
  <2> QED BY <1>0, <1>6, <1>8, <2>2
<1>11. Sound(r, free + c, g, hp)
  BY <1>5, <1>7, <1>10 DEF Sound
<1> QED BY <1>1, <1>3, <1>4, <1>8, <1>11

\* An allocation in the middle of which the heap takes a page: the whole block is
\* given, the heap takes a page of another, and what the caller did not ask for is
\* given back, wherever in the list the block is by then.
LEMMA SoundGrow ==
  ASSUME NEW bs, NEW free, NEW hd, NEW hp, Sound(bs, free, hd, hp), free \in Nat,
         NEW n \in Nat \ {0}, NEW k \in 2..Len(bs), ~bs[k].allocated, bs[k].count >= n,
         NEW s, s = Searched(Mark(bs, k, TRUE), 1), Direct(s, 1),
         NEW i, i = FirstFit(s, 1),
         NEW r, r = Cut(Cut(Mark(s, i, TRUE), i, 1),
                        At(Cut(Mark(s, i, TRUE), i, 1), bs[k].first), n)
  PROVE  /\ Sound(r, free - n - 1, More(hd, bs[k].first, n), hp \cup {s[i].first})
         /\ bs[k].first \notin DOMAIN hd
<1>0. Chain(bs) /\ bs \in Seq(NBlock) /\ k \in 1..Len(bs)
  BY DEF Sound, Chain
<1>1. PICK f, c : f = bs[k].first /\ c = bs[k].count
  OBVIOUS
<1>2. f \in Nat /\ c \in Nat /\ c > 0
  BY <1>0, <1>1, BlockTypes
<1>3. PICK m : m = Mark(bs, k, TRUE)
  OBVIOUS
<1>4. Cut(Mark(bs, k, TRUE), k, c) = m
  <2>1. m[k].count = c
    BY <1>0, <1>1, <1>3, MarkFacts
  <2> QED BY <1>3, <2>1 DEF Cut
<1>5. PICK g : g = More(hd, f, c)
  OBVIOUS
<1>6. Sound(m, free - c, g, hp) /\ f \notin DOMAIN hd
  <2>1. c \in Nat \ {0} /\ bs[k].count >= c /\ ~bs[k].allocated /\ k \in 2..Len(bs)
    BY <1>1, <1>2
  <2>2. /\ Sound(Cut(Mark(bs, k, TRUE), k, c), free - c, More(hd, bs[k].first, c), hp)
        /\ bs[k].first \notin DOMAIN hd
    BY ONLY <2>1, Sound(bs, free, hd, hp), SoundTake
  <2> QED BY <1>1, <1>4, <1>5, <2>2
<1>7. Sound(s, free - c, g, hp)
  <2>1. s = m \/ s = Merge(m)
    BY <1>3 DEF Searched
  <2> QED BY <1>6, <2>1, SoundMerge
<1>8. PICK w : w = Cut(Mark(s, i, TRUE), i, 1)
  OBVIOUS
<1>9. PICK hq : hq = hp \cup {s[i].first}
  OBVIOUS
<1>10. Sound(w, (free - c) - 1, g, hq)
  BY <1>7, <1>8, <1>9, SoundHeap
<1>11. f \in DOMAIN g /\ g[f] = c
  BY <1>5 DEF More
<1>12. Sound(Cut(w, At(w, f), n), ((free - c) - 1) + (g[f] - n), More(g, f, n), hq)
  <2>1. n <= g[f] /\ n \in Nat \ {0} /\ f \in DOMAIN g
    BY <1>1, <1>2, <1>11
  <2> QED BY ONLY <1>10, <2>1, SoundCut
<1>13. ((free - c) - 1) + (g[f] - n) = free - n - 1
  BY <1>2, <1>11
<1>14. More(g, f, n) = More(hd, f, n)
  <2>1. DOMAIN g \cup {f} = DOMAIN hd \cup {f}
    BY <1>5 DEF More
  <2>2. \A p \in DOMAIN hd \cup {f} : p # f => g[p] = hd[p]
    BY <1>5 DEF More
  <2> QED BY <2>1, <2>2 DEF More
<1>15. r = Cut(w, At(w, f), n)
  BY <1>1, <1>8
<1> QED BY <1>1, <1>6, <1>9, <1>12, <1>13, <1>14, <1>15

-----------------------------------------------------------------------------
(* The steps *)

\* What an operation leaves of no_schedule stays below its bound.
LEMMA DepthKept ==
  ASSUME NEW n \in {0, 1, 2}, Tiled, no_schedule < MaxDepth, Unbalance(n)
  PROVE  no_schedule' \in 0..(MaxDepth + 1)
<1>1. no_schedule \in 0..(MaxDepth + 1) /\ MaxDepth \in Nat
  BY MemoryAssumption DEF Tiled
<1>2. no_schedule' = no_schedule + n \/ no_schedule' = no_schedule + 0
  BY DEF Unbalance
<1> QED BY <1>1, <1>2

\* At most two calls of mt(false) are left open.
LEMMA LeftFacts == \A bs, n : Left(bs, n) \in {0, 1, 2}
BY DEF Left

\* An operation that stops the machine changes nothing else.
LEMMA StopTiled ==
  ASSUME Tiled, NEW how \in {"fault", "panic"}, Stop(how)
  PROVE  Tiled'
BY DEF Tiled, Stop, Sound

\* An allocation gives out a block nobody held.
LEMMA AllocPlainTiled ==
  ASSUME Tiled, NEW n \in Nat \ {0}, no_schedule < MaxDepth, AllocPlain(n)
  PROVE  Tiled' /\ held' # held
<1>1. PICK bs, i : bs = Searched(blocks, n) /\ i = FirstFit(bs, n)
  OBVIOUS
<1>2. /\ Direct(bs, n)
      /\ blocks' = Cut(Mark(bs, i, TRUE), i, n)
      /\ held' = More(held, bs[i].first, n)
      /\ free_pages' = free_pages - n
      /\ heap' = heap /\ taskman' = taskman /\ machine' = machine
      /\ Unbalance(Left(blocks, n))
  BY <1>1 DEF AllocPlain, Return, More
<1>3. Sound(bs, free_pages, held, heap)
  <2>1. Sound(blocks, free_pages, held, heap)
    BY DEF Tiled
  <2>2. bs = blocks \/ bs = Merge(blocks)
    BY <1>1 DEF Searched
  <2> QED BY <2>1, <2>2, SoundMerge
<1>4. i \in 2..Len(bs) /\ ~bs[i].allocated /\ bs[i].count >= n
  BY <1>1, <1>2, <1>3, FirstFitFacts DEF Sound
<1>5. /\ Sound(Cut(Mark(bs, i, TRUE), i, n), free_pages - n, More(held, bs[i].first, n), heap)
      /\ bs[i].first \notin DOMAIN held
  BY <1>3, <1>4, SoundTake
<1>6. Sound(blocks', free_pages', held', heap')
  BY <1>2, <1>5
<1>7. no_schedule' \in 0..(MaxDepth + 1)
  BY <1>2, DepthKept, LeftFacts
<1>8. held' # held
  BY <1>2, <1>5 DEF More
<1>9. taskman' \in BOOLEAN /\ machine' \in {"up", "fault", "panic"}
  BY <1>2 DEF Tiled
<1> QED BY <1>6, <1>7, <1>8, <1>9 DEF Tiled

\* So does one in the middle of which the heap takes a page.
LEMMA AllocGrowsTiled ==
  ASSUME Tiled, NEW n \in Nat \ {0}, no_schedule < MaxDepth, AllocGrows(n)
  PROVE  Tiled' /\ held' # held
<1>1. PICK k, s, i, w :
        /\ k = FirstFit(blocks, n) /\ s = Searched(Mark(blocks, k, TRUE), 1)
        /\ i = FirstFit(s, 1) /\ w = Cut(Mark(s, i, TRUE), i, 1)
  OBVIOUS
<1>2. Marked(n) = Mark(blocks, k, TRUE)
  BY <1>1 DEF Marked
<1>3. /\ Direct(blocks, n) /\ Direct(s, 1)
      /\ blocks' = Cut(w, At(w, blocks[k].first), n)
      /\ held' = More(held, blocks[k].first, n)
      /\ heap' = heap \cup {s[i].first}
      /\ free_pages' = free_pages - n - 1
      /\ taskman' = taskman /\ machine' = machine
      /\ Unbalance(Left(Marked(n), 1))
  BY <1>1, <1>2 DEF AllocGrows, Splits, Return, More
<1>4. Sound(blocks, free_pages, held, heap)
  BY DEF Tiled
<1>5. free_pages \in Nat
  BY <1>4, OpenRange DEF Sound
<1>6. k \in 2..Len(blocks) /\ ~blocks[k].allocated /\ blocks[k].count >= n
  BY <1>1, <1>3, <1>4, FirstFitFacts DEF Sound
<1>7. PICK r : r = Cut(w, At(w, blocks[k].first), n)
  OBVIOUS
<1>8. /\ Sound(r, free_pages - n - 1, More(held, blocks[k].first, n), heap \cup {s[i].first})
      /\ blocks[k].first \notin DOMAIN held
  <2>1. r = Cut(Cut(Mark(s, i, TRUE), i, 1),
                At(Cut(Mark(s, i, TRUE), i, 1), blocks[k].first), n)
    BY <1>1, <1>7
  <2>2. n \in Nat \ {0} /\ s = Searched(Mark(blocks, k, TRUE), 1) /\ i = FirstFit(s, 1)
    BY <1>1
  <2> QED BY ONLY <1>3, <1>4, <1>5, <1>6, <2>1, <2>2, SoundGrow
<1>9. Sound(blocks', free_pages', held', heap')
  BY <1>3, <1>7, <1>8
<1>10. no_schedule' \in 0..(MaxDepth + 1)
  BY <1>3, DepthKept, LeftFacts
<1>11. held' # held
  BY <1>3, <1>8 DEF More
<1>12. taskman' \in BOOLEAN /\ machine' \in {"up", "fault", "panic"}
  BY <1>3 DEF Tiled
<1> QED BY <1>9, <1>10, <1>11, <1>12 DEF Tiled

\* An allocation that fails has merged the list.
LEMMA AllocFailsTiled ==
  ASSUME Tiled, NEW n, no_schedule < MaxDepth, AllocFails(n)
  PROVE  Tiled'
<1>1. /\ blocks' = Merge(blocks) /\ Unbalance(2)
      /\ UNCHANGED <<free_pages, taskman, held, heap, machine>>
  BY DEF AllocFails
<1>2. Sound(blocks', free_pages', held', heap')
  <2>1. Sound(blocks, free_pages, held, heap)
    BY DEF Tiled
  <2> QED BY <1>1, <2>1, SoundMerge
<1>3. no_schedule' \in 0..(MaxDepth + 1)
  BY <1>1, DepthKept
<1> QED BY <1>1, <1>2, <1>3 DEF Tiled

\* Device memory is no block's: freeing it is refused.
LEMMA FreeBlockTiled ==
  ASSUME Tiled, NEW page \in DOMAIN held \cup Foreign, FreeBlock(page)
  PROVE  Tiled'
<1>1. Sound(blocks, free_pages, held, heap) /\ Chain(blocks)
  BY DEF Tiled, Sound
<1>2. PICK i : i = At(blocks, page)
  OBVIOUS
<1>3. /\ Has(blocks, page)
      /\ blocks' = Mark(blocks, i, FALSE)
      /\ free_pages' = free_pages + blocks[i].count
      /\ held' = [p \in DOMAIN held \ {page} |-> held[p]]
      /\ UNCHANGED <<no_schedule, taskman, heap, machine>>
  BY <1>2 DEF FreeBlock
<1>4. page \in DOMAIN held
  <2> SUFFICES ASSUME page \in Foreign PROVE FALSE
    OBVIOUS
  <2>1. DOMAIN blocks = 1..Len(blocks) /\ Len(blocks) \in Nat
    BY <1>1 DEF Chain
  <2>2. PICK j \in 1..Len(blocks) : blocks[j].first = page
    BY <1>3, <2>1 DEF Has
  <2>3. page \in 1..Reserved /\ Reserved \in Nat
    BY MemoryAssumption
  <2>4. CASE j = 1
    <3>1. blocks[1].first = 0
      BY <1>1 DEF Chain
    <3> QED BY <2>2, <2>3, <2>4, <3>1
  <2>5. CASE j # 1
    <3>1. j \in 2..Len(blocks)
      BY <2>1, <2>5
    <3>2. blocks[j].first >= Reserved + 1
      BY <1>1, <3>1, InRange
    <3> QED BY <2>2, <2>3, <3>2
  <2> QED BY <2>4, <2>5
<1>5. Sound(blocks', free_pages', held', heap')
  <2>1. Sound(Mark(blocks, At(blocks, page), FALSE),
              free_pages + blocks[At(blocks, page)].count,
              [p \in DOMAIN held \ {page} |-> held[p]], heap)
    BY <1>1, <1>4, SoundFree
  <2> QED BY <1>2, <1>3, <2>1
<1> QED BY <1>3, <1>5 DEF Tiled

\* A free that is refused changes no block.
LEMMA FreeRefusedTiled ==
  ASSUME Tiled, NEW page, no_schedule < MaxDepth, FreeRefused(page)
  PROVE  Tiled'
<1>1. Unbalance(1) /\ UNCHANGED <<blocks, free_pages, taskman, held, heap, machine>>
  BY DEF FreeRefused
<1>2. no_schedule' \in 0..(MaxDepth + 1)
  BY <1>1, DepthKept
<1> QED BY <1>1, <1>2 DEF Tiled

\* Every step keeps the invariant.
LEMMA NextTiled == Tiled /\ [Next]_vars => Tiled'
<1> SUFFICES ASSUME Tiled, [Next]_vars PROVE Tiled'
  OBVIOUS
<1>1. ASSUME NEW n \in Requests, Alloc(n) PROVE Tiled'
  <2>1. n \in Nat \ {0} /\ no_schedule < MaxDepth
    BY <1>1, MemoryAssumption DEF Alloc
  <2>2. CASE AllocFaults(n)
    BY <2>2, StopTiled DEF AllocFaults
  <2>3. CASE AllocFails(n)
    BY <2>1, <2>3, AllocFailsTiled
  <2>4. CASE AllocPlain(n)
    BY <2>1, <2>4, AllocPlainTiled
  <2>5. CASE AllocGrows(n)
    BY <2>1, <2>5, AllocGrowsTiled
  <2>6. CASE AllocGrowFaults(n)
    BY <2>6, StopTiled DEF AllocGrowFaults
  <2>7. CASE AllocGrowPanics(n)
    BY <2>7, StopTiled DEF AllocGrowPanics
  <2> QED BY <1>1, <2>2, <2>3, <2>4, <2>5, <2>6, <2>7 DEF Alloc
<1>2. ASSUME NEW page \in DOMAIN held \cup Foreign, Free(page) PROVE Tiled'
  <2>1. no_schedule < MaxDepth
    BY <1>2 DEF Free
  <2>2. CASE FreeRefused(page)
    BY <2>1, <2>2, FreeRefusedTiled
  <2>3. CASE FreeBlock(page)
    BY <2>3, FreeBlockTiled
  <2> QED BY <1>2, <2>2, <2>3 DEF Free
<1>3. CASE StartTaskman
  BY <1>3 DEF StartTaskman, Tiled
<1>4. CASE UNCHANGED vars
  BY <1>4 DEF vars, Tiled
<1> QED BY <1>1, <1>2, <1>3, <1>4 DEF Next

\* Every page of the machine but those the constructor leaves out (mm.cpp:36-37) is in
\* one block of the list, no other page is, what was handed out is what its holders
\* and the heap have, no two of them the same page, and the count of free pages is
\* right, after any sequence of alloc and free, a merge or an allocation of the heap
\* in the middle of one included (mm.cpp:43-120), for every size of memory and every
\* set of requests.
THEOREM MemoryAlwaysSound == Spec => []PagesSound
<1>1. Spec => []Tiled
  BY InitTiled, NextTiled, PTL DEF Spec
<1> QED BY <1>1, TiledIsSound, PTL

\* In a list without free neighbours a run of free pages is in one block.
LEMMA RunInBlock ==
  ASSUME NEW bs, Chain(bs), Coalesced(bs), NEW n \in Nat \ {0}, NEW p,
         p..(p + n - 1) \subseteq Open(bs, Len(bs)), p \in Open(bs, Len(bs))
  PROVE  Direct(bs, n)
<1>0. /\ bs \in Seq(NBlock) /\ Len(bs) \in Nat /\ Len(bs) >= 2 /\ bs[1].allocated
      /\ DOMAIN bs = 1..Len(bs)
  BY DEF Chain
<1>1. PICK i \in 1..Len(bs) : ~bs[i].allocated /\ p \in PagesOf(bs[i])
  BY OpenOf
<1>2. i \in 2..Len(bs)
  BY <1>0, <1>1
<1>3. PICK f, c, e : f = bs[i].first /\ c = bs[i].count /\ e = End(bs[i])
  OBVIOUS
<1>4. f \in Nat /\ c \in Nat /\ e \in Nat /\ e = f + c
  BY <1>0, <1>3, BlockTypes DEF End
<1>5. p \in Int /\ f <= p /\ p < e
  BY <1>1, <1>3, <1>4 DEF PagesOf
<1>6. e \notin Open(bs, Len(bs))
  <2> SUFFICES ASSUME e \in Open(bs, Len(bs)) PROVE FALSE
    OBVIOUS
  <2>1. e < Top /\ Top \in Nat
    <3>1. Open(bs, Len(bs)) \subseteq (Reserved + 1)..Count
      BY OpenRange
    <3> QED BY <3>1, MemoryAssumption DEF Top
  <2>2. i # Len(bs)
    BY <1>3, <2>1 DEF Chain
  <2>3. i \in 2..(Len(bs) - 1) /\ i + 1 \in 2..Len(bs) /\ i + 1 \in 1..Len(bs)
    <3>1. Len(bs) \in Nat
      BY <1>0
    <3> QED BY ONLY <1>2, <2>2, <3>1
  <2>4. bs[i + 1].first = e
    BY <1>3, <2>3 DEF Chain
  <2>5. bs[i + 1].allocated
    BY <1>1, <2>3 DEF Coalesced
  <2>6. e \in PagesOf(bs[i + 1])
    <3>1. End(bs[i + 1]) \in Nat /\ End(bs[i + 1]) > bs[i + 1].first
      BY <1>0, <2>3, BlockTypes
    <3> QED BY <1>4, <2>4, <3>1 DEF PagesOf
  <2>7. PagesOf(bs[i + 1]) \cap Open(bs, Len(bs)) = {}
    BY <2>3, <2>5, UsedPages
  <2> QED BY <2>6, <2>7
<1>7. e > p + n - 1
  <2>1. e \in p..(p + n - 1) => e \in Open(bs, Len(bs))
    OBVIOUS
  <2> QED BY <1>4, <1>5, <1>6, <2>1
<1>8. bs[i].count >= n
  BY <1>3, <1>4, <1>5, <1>7
<1> QED BY <1>0, <1>1, <1>8 DEF Direct, Fits

\* alloc returns NULL only when no run of free pages is long enough, however
\* fragmented the list was: merging it once is enough (mm.cpp:52-90).
THEOREM NullNeverHidesARun == Spec => NullMeansNoRun
<1>1. ASSUME Tiled, NEW n \in Requests, Alloc(n), machine' = "up", held' = held,
             NEW p \in FreePages, p..(p + n - 1) \subseteq FreePages
      PROVE  FALSE
  <2>1. n \in Nat \ {0} /\ no_schedule < MaxDepth
    BY <1>1, MemoryAssumption DEF Alloc
  <2>2. Sound(blocks, free_pages, held, heap) /\ Chain(blocks) /\ blocks \in Seq(NBlock)
    BY <1>1 DEF Tiled, Sound, Chain
  <2>3. CASE AllocFails(n)
    <3>1. PICK m : m = Merge(blocks)
      OBVIOUS
    <3>2. Chain(m) /\ Coalesced(m) /\ Open(m, Len(m)) = Open(blocks, Len(blocks))
      BY <2>2, <3>1, MergeSound
    <3>3. Open(m, Len(m)) = FreePages
      BY <2>2, <3>2, OpenPages
    <3>4. p..(p + n - 1) \subseteq Open(m, Len(m)) /\ p \in Open(m, Len(m))
      BY <1>1, <3>3
    <3>5. Direct(m, n)
      BY ONLY <2>1, <3>2, <3>4, RunInBlock
    <3> QED BY <2>3, <3>1, <3>5 DEF AllocFails
  <2>4. CASE AllocPlain(n)
    BY <1>1, <2>1, <2>4, AllocPlainTiled
  <2>5. CASE AllocGrows(n)
    BY <1>1, <2>1, <2>5, AllocGrowsTiled
  <2>6. ~AllocFaults(n) /\ ~AllocGrowFaults(n) /\ ~AllocGrowPanics(n)
    BY <1>1 DEF AllocFaults, AllocGrowFaults, AllocGrowPanics, Stop
  <2> QED BY <1>1, <2>3, <2>4, <2>5, <2>6 DEF Alloc
<1>2. Tiled /\ [Next]_vars =>
        [\A n \in Requests : Alloc(n) /\ machine' = "up" /\ held' = held =>
           ~\E p \in FreePages : p..(p + n - 1) \subseteq FreePages]_vars
  BY <1>1
<1>3. Spec => []Tiled
  BY InitTiled, NextTiled, PTL DEF Spec
<1> QED BY <1>2, <1>3, PTL DEF Spec, NullMeansNoRun

-----------------------------------------------------------------------------
(* Buffers *)

\* How much of the client's data every buffer on the way could hold.
Reach == Buffers!Shorter(least, Len(client.data))

\* d begins with that much of the client's data, and with all of it if no loss
\* was told.
Begins(d) == /\ d \in Seq(Byte) /\ Reach <= Len(d)
             /\ \A i \in 1..Reach : d[i] = client.data[i]
             /\ ~warned => Len(client.data) <= Len(d)

XInv ==
  /\ umsg \in [Server -> [data : Seq(Byte), data_received : Nat, holds : BOOLEAN]]
  /\ \A s \in Server : umsg[s].holds => holder \in {s, "panic"}
  /\ holder \in Server =>
       /\ client.data \in Seq(Byte) /\ least \in Nat
       /\ ~warned => Len(client.data) <= least
       /\ Begins(msg.data)
       /\ umsg[holder].holds => Begins(umsg[holder].data)

-----------------------------------------------------------------------------
(* Buffers *)

LEMMA BufferSeq ==
  ASSUME Buffers!ExchangeAssumption, NEW b \in Buffers!Buffer
  PROVE  b \in Seq(Byte) /\ Len(b) \in 0..MaxLength
<1>1. PICK n \in 0..MaxLength : b \in [1..n -> Byte]
  BY DEF Buffers!Buffer
<1>2. n \in Nat
  BY DEF Buffers!ExchangeAssumption
<1> QED BY <1>1, <1>2, SeqDef

\* What is copied is the beginning of the source, over the destination.
LEMMA CopiedBegins ==
  ASSUME NEW dst \in Seq(Byte), NEW src \in Seq(Byte), NEW n \in Nat,
         n <= Len(dst), n <= Len(src),
         NEW r, r = Buffers!Copied(dst, src, n)
  PROVE  /\ r \in Seq(Byte) /\ Len(r) = Len(dst)
         /\ \A i \in 1..n : r[i] = src[i]
<1>1. PICK a : a = SubSeq(src, 1, n)
  OBVIOUS
<1>2. PICK b : b = SubSeq(dst, n + 1, Len(dst))
  OBVIOUS
<1>3. a \in Seq(Byte) /\ Len(a) = n /\ \A i \in 1..n : a[i] = src[i]
  BY <1>1, SubSeqProperties
<1>4. b \in Seq(Byte) /\ Len(b) = Len(dst) - n
  BY <1>2, SubSeqProperties
<1>5. r = a \o b
  BY <1>1, <1>2 DEF Buffers!Copied
<1>6. /\ a \o b \in Seq(Byte) /\ Len(a \o b) = Len(a) + Len(b)
      /\ \A i \in 1..(Len(a) + Len(b)) :
           (a \o b)[i] = IF i <= Len(a) THEN a[i] ELSE b[i - Len(a)]
  BY <1>3, <1>4, ConcatProperties
<1> QED BY <1>3, <1>4, <1>5, <1>6

-----------------------------------------------------------------------------
(* The steps *)

LEMMA SendKeeps ==
  ASSUME Buffers!ExchangeAssumption, XInv,
         NEW s \in Server, NEW data \in Buffers!Buffer, NEW room \in 0..MaxLength,
         Buffers!Send(s, data, room)
  PROVE  XInv'
<1>1. data \in Seq(Byte) /\ Len(data) \in 0..MaxLength /\ MaxLength \in Nat
  BY BufferSeq DEF Buffers!ExchangeAssumption
<1>2. /\ client'.data = data /\ msg'.data = data /\ holder' = s
      /\ least' = MaxLength /\ warned' = FALSE /\ umsg' = umsg
  BY DEF Buffers!Send
<1>3. \A t \in Server : ~umsg[t].holds
  BY DEF Buffers!Send, XInv, Buffers!ExchangeAssumption
<1>4. Begins(msg.data)'
  BY <1>1, <1>2 DEF Begins, Reach, Buffers!Shorter
<1> QED BY <1>1, <1>2, <1>3, <1>4 DEF XInv

LEMMA ReceiveKeeps ==
  ASSUME Buffers!ExchangeAssumption, XInv, NEW s \in Server, NEW buffer \in Buffers!Buffer,
         Buffers!Receive(s, buffer)
  PROVE  XInv'
<1> DEFINE n == Buffers!Shorter(Len(buffer), Len(msg.data))
           filled == Buffers!Copied(buffer, msg.data, n)
<1>1. /\ holder = s /\ holder' = s /\ client' = client /\ msg' = msg
      /\ least' = Buffers!Shorter(least, Len(buffer))
      /\ warned' = (warned \/ Len(msg.data) > Len(buffer))
      /\ umsg' = [umsg EXCEPT ![s] = [data |-> filled, data_received |-> Len(msg.data),
                                      holds |-> TRUE]]
  BY Zenon DEF Buffers!Receive, Buffers!Told
<1>2. /\ client.data \in Seq(Byte) /\ least \in Nat /\ Begins(msg.data)
      /\ ~warned => Len(client.data) <= least
  BY <1>1 DEF XInv
<1>3. buffer \in Seq(Byte) /\ Len(buffer) \in Nat
  BY BufferSeq
<1>4. msg.data \in Seq(Byte) /\ Len(msg.data) \in Nat /\ Len(client.data) \in Nat
  BY <1>2 DEF Begins
<1>5. n \in Nat /\ n <= Len(buffer) /\ n <= Len(msg.data)
  BY <1>3, <1>4 DEF Buffers!Shorter
<1>6. /\ filled \in Seq(Byte) /\ Len(filled) = Len(buffer)
      /\ \A i \in 1..n : filled[i] = msg.data[i]
  BY <1>3, <1>4, <1>5, CopiedBegins
<1> HIDE DEF filled
<1>7. /\ least' \in Nat /\ Reach' \in Nat /\ Reach' <= Reach /\ Reach' <= n
      /\ Reach \in Nat
  BY <1>1, <1>2, <1>3, <1>4 DEF Reach, Buffers!Shorter, Begins
<1>8. ~warned' => ~warned /\ Len(msg.data) <= Len(buffer)
  <2>1. ~warned' => ~warned /\ ~(Len(msg.data) > Len(buffer))
    BY <1>1, Zenon
  <2>2. ~(Len(msg.data) > Len(buffer)) => Len(msg.data) <= Len(buffer)
    BY <1>3, <1>4
  <2> QED BY <2>1, <2>2, Zenon
<1> HIDE DEF n
<1>9. Begins(msg.data)'
  BY <1>1, <1>2, <1>7, <1>8 DEF Begins
<1>10. Begins(umsg[s].data)'
  <2>1. \A i \in 1..Reach' : filled[i] = client'.data[i]
    <3>1. /\ client' = client /\ Reach' <= n /\ Reach' <= Reach
          /\ \A i \in 1..Reach : msg.data[i] = client.data[i]
      BY <1>1, <1>2, <1>7, Zenon DEF Begins
    <3> QED BY <1>5, <1>6, <1>7, <3>1
  <2>2. Reach' <= Len(filled)
    BY <1>3, <1>5, <1>6, <1>7
  <2>3. ~warned' => Len(client'.data) <= Len(filled)
    BY <1>1, <1>2, <1>3, <1>4, <1>6, <1>8 DEF Begins
  <2>4. umsg'[s].data = filled
    BY <1>1, <1>4, <1>6 DEF XInv
  <2> QED BY <1>6, <2>1, <2>2, <2>3, <2>4 DEF Begins
<1>11. ~warned' => Len(client'.data) <= least'
  BY <1>1, <1>2, <1>3, <1>4, <1>8 DEF Buffers!Shorter, Begins
<1>12. /\ umsg' \in [Server -> [data : Seq(Byte), data_received : Nat, holds : BOOLEAN]]
       /\ umsg'[s].data = filled
       /\ \A t \in Server : umsg'[t].holds => holder' \in {t, "panic"}
  BY <1>1, <1>4, <1>6 DEF XInv
<1> QED BY <1>1, <1>2, <1>7, <1>9, <1>10, <1>11, <1>12 DEF XInv

LEMMA ForwardKeeps ==
  ASSUME Buffers!ExchangeAssumption, XInv, NEW s \in Server, NEW t \in Server, Buffers!Forward(s, t)
  PROVE  XInv'
<1>1. /\ holder = s /\ holder' = t /\ t # s /\ umsg[s].holds
      /\ client' = client /\ least' = least /\ warned' = warned
      /\ umsg' = [umsg EXCEPT ![s] = Buffers!Empty]
      /\ msg' = [msg EXCEPT !.data = umsg[s].data, !.forwards = @ + 1,
                            !.dangling = msg.data # <<>> /\ umsg[s].data = <<>>]
  BY DEF Buffers!Forward, Buffers!Forwarded
<1>2. /\ client.data \in Seq(Byte) /\ least \in Nat /\ Begins(umsg[s].data)
      /\ ~warned => Len(client.data) <= least
  BY <1>1 DEF XInv
<1>3. msg'.data = umsg[s].data
  BY <1>1
<1>4. Begins(msg.data)'
  BY <1>1, <1>2, <1>3 DEF Begins, Reach
<1>5. /\ umsg' \in [Server -> [data : Seq(Byte), data_received : Nat, holds : BOOLEAN]]
      /\ \A u \in Server : ~umsg'[u].holds
  BY <1>1 DEF XInv, Buffers!Empty, Buffers!ExchangeAssumption
<1> QED BY <1>1, <1>2, <1>4, <1>5 DEF XInv

\* A reply and a return leave no server with the request, and a panic nothing.
LEMMA OthersKeep ==
  ASSUME Buffers!ExchangeAssumption, XInv, NEW s \in Server, NEW text,
         Buffers!ForwardPanics(s) \/ Buffers!Reply(s, text) \/ Buffers!Return
  PROVE  XInv'
<1>1. CASE Buffers!ForwardPanics(s)
  BY <1>1 DEF Buffers!ForwardPanics, XInv, Buffers!ExchangeAssumption
<1>2. CASE Buffers!Reply(s, text)
  <2>1. holder = s /\ holder' \in {"answered", "overrun"} /\ umsg' = [umsg EXCEPT ![s] = Buffers!Empty]
    BY <1>2 DEF Buffers!Reply
  <2>2. /\ umsg' \in [Server -> [data : Seq(Byte), data_received : Nat, holds : BOOLEAN]]
        /\ \A u \in Server : ~umsg'[u].holds
    BY <2>1 DEF XInv, Buffers!Empty, Buffers!ExchangeAssumption
  <2> QED BY <2>1, <2>2 DEF XInv, Buffers!ExchangeAssumption
<1>3. CASE Buffers!Return
  BY <1>3 DEF Buffers!Return, XInv, Buffers!ExchangeAssumption
<1> QED BY <1>1, <1>2, <1>3

LEMMA XInit == Buffers!ExchangeAssumption /\ Buffers!Init => XInv
BY DEF Buffers!Init, XInv, Buffers!Empty, Buffers!ExchangeAssumption

LEMMA XNext ==
  ASSUME Buffers!ExchangeAssumption, XInv, [Buffers!Next]_exchangeVars PROVE XInv'
<1>1. CASE UNCHANGED exchangeVars
  BY <1>1 DEF exchangeVars, XInv, Begins, Reach
<1>2. ASSUME NEW s \in Server, NEW data \in Buffers!Buffer, NEW room \in 0..MaxLength,
             Buffers!Send(s, data, room)
      PROVE  XInv'
  BY <1>2, SendKeeps
<1>3. ASSUME NEW s \in Server, NEW buffer \in Buffers!Buffer, Buffers!Receive(s, buffer) PROVE XInv'
  BY <1>3, ReceiveKeeps
<1>4. ASSUME NEW s \in Server, NEW t \in Server, Buffers!Forward(s, t) PROVE XInv'
  BY <1>4, ForwardKeeps
<1>5. ASSUME NEW s \in Server, Buffers!ForwardPanics(s) PROVE XInv'
  BY <1>5, OthersKeep
<1>6. ASSUME NEW s \in Server, NEW text \in Buffers!Buffer, Buffers!Reply(s, text) PROVE XInv'
  BY <1>6, OthersKeep
<1>7. CASE Buffers!Return
  BY <1>7 DEF Buffers!Return, XInv, Buffers!ExchangeAssumption
<1> QED BY <1>1, <1>2, <1>3, <1>4, <1>5, <1>6, <1>7 DEF Buffers!Next

-----------------------------------------------------------------------------
(* What the client finds *)

Blank(reply) == \A i \in 1..Len(reply) : reply[i] = Zero

\* reply has what the server answered at its start, as far as it reaches.
Answered(reply, sent, text) ==
  /\ sent = Len(text)
  /\ \A i \in 1..Buffers!Shorter(sent, Len(reply)) : reply[i] = text[i]
  /\ text = <<>> => Blank(reply)

RInv ==
  /\ client \in [data : Buffers!Buffer, reply : Buffers!Buffer, returned : BOOLEAN]
  /\ msg \in [data : Buffers!Buffer, dangling : BOOLEAN, reply : Buffers!Buffer,
              reply_sent : 0..MaxLength, forwards : Nat]
  /\ umsg \in [Server -> [data : Buffers!Buffer, data_received : 0..MaxLength,
                          holds : BOOLEAN]]
  /\ holder \in Server \cup {"client", "answered", "panic", "overrun"}
  /\ answer \in Buffers!Buffer
  /\ holder \in Server => Blank(msg.reply)
  /\ holder = "answered" => Answered(msg.reply, msg.reply_sent, answer)
  /\ client.returned => holder = "client" /\ Answered(client.reply, msg.reply_sent, answer)

\* A sequence of bytes that is not too long is a buffer.
LEMMA SeqBuffer ==
  ASSUME Buffers!ExchangeAssumption, NEW b \in Seq(Byte), Len(b) <= MaxLength
  PROVE  b \in Buffers!Buffer
<1>1. Len(b) \in 0..MaxLength /\ b \in [1..Len(b) -> Byte]
  BY LenProperties DEF Buffers!ExchangeAssumption
<1> QED BY <1>1 DEF Buffers!Buffer

LEMMA ConstantBuffer ==
  ASSUME Buffers!ExchangeAssumption, NEW n \in 0..MaxLength, NEW c \in Byte,
         NEW b, b = [i \in 1..n |-> c]
  PROVE  b \in Buffers!Buffer /\ Len(b) = n /\ \A i \in 1..n : b[i] = c
<1>1. n \in Nat /\ b \in [1..n -> Byte]
  BY DEF Buffers!ExchangeAssumption
<1>2. b \in Buffers!Buffer
  BY <1>1 DEF Buffers!Buffer
<1>3. Len(b) = n
  BY <1>1
<1> QED BY <1>2, <1>3

LEMMA CopiedBuffer ==
  ASSUME Buffers!ExchangeAssumption, NEW dst \in Buffers!Buffer, NEW src \in Seq(Byte),
         NEW n \in Nat, n <= Len(dst), n <= Len(src), NEW r, r = Buffers!Copied(dst, src, n)
  PROVE  r \in Buffers!Buffer /\ Len(r) = Len(dst) /\ \A i \in 1..n : r[i] = src[i]
<1>1. dst \in Seq(Byte) /\ Len(dst) \in 0..MaxLength /\ MaxLength \in Nat
  BY BufferSeq DEF Buffers!ExchangeAssumption
<1>2. r \in Seq(Byte) /\ Len(r) = Len(dst) /\ \A i \in 1..n : r[i] = src[i]
  BY <1>1, CopiedBegins
<1>3. Len(r) <= MaxLength
  BY <1>1, <1>2
<1> QED BY <1>2, <1>3, SeqBuffer

LEMMA OtherByte == ASSUME Buffers!ExchangeAssumption PROVE Buffers!Other \in Byte
<1>1. \E b \in Byte : b # Zero
  BY DEF Buffers!ExchangeAssumption
<1> QED BY <1>1 DEF Buffers!Other

LEMMA EmptyBuffer ==
  ASSUME Buffers!ExchangeAssumption PROVE <<>> \in Buffers!Buffer /\ Len(<<>>) = 0
<1>1. <<>> \in Seq(Byte) /\ Len(<<>>) = 0 /\ MaxLength \in Nat
  BY DEF Buffers!ExchangeAssumption
<1>2. Len(<<>>) <= MaxLength
  BY <1>1
<1> QED BY <1>1, <1>2, SeqBuffer

LEMMA RInit == Buffers!ExchangeAssumption /\ Buffers!Init => RInv
<1> SUFFICES ASSUME Buffers!ExchangeAssumption, Buffers!Init PROVE RInv
  OBVIOUS
<1>1. <<>> \in Buffers!Buffer /\ 0 \in 0..MaxLength /\ 0 \in Nat
  BY EmptyBuffer DEF Buffers!ExchangeAssumption
<1> QED BY <1>1 DEF Buffers!Init, RInv, Buffers!Empty, Buffers!ExchangeAssumption

LEMMA SendReturns ==
  ASSUME Buffers!ExchangeAssumption, RInv,
         NEW s \in Server, NEW data \in Buffers!Buffer, NEW room \in 0..MaxLength,
         Buffers!Send(s, data, room)
  PROVE  RInv'
<1>1. PICK mine : mine = [i \in 1..room |-> Buffers!Other]
  OBVIOUS
<1>2. PICK blank : blank = [i \in 1..room |-> Zero]
  OBVIOUS
<1>3. mine \in Buffers!Buffer
  BY <1>1, OtherByte, ConstantBuffer
<1>4. blank \in Buffers!Buffer /\ Blank(blank)
  BY <1>2, ConstantBuffer DEF Blank, Buffers!ExchangeAssumption
<1>5. /\ client' = [data |-> data, reply |-> mine, returned |-> FALSE]
      /\ msg' = [data |-> data, dangling |-> FALSE, reply |-> blank,
                 reply_sent |-> 0, forwards |-> 0]
      /\ holder' = s /\ answer' = <<>> /\ umsg' = umsg
  BY <1>1, <1>2 DEF Buffers!Send
<1>6. <<>> \in Buffers!Buffer /\ 0 \in 0..MaxLength /\ 0 \in Nat
  BY EmptyBuffer DEF Buffers!ExchangeAssumption
<1>7. s \notin {"client", "answered"}
  BY DEF Buffers!ExchangeAssumption
<1>8. client'.returned = FALSE /\ msg'.reply = blank
  BY <1>5
<1>9. /\ client' \in [data : Buffers!Buffer, reply : Buffers!Buffer, returned : BOOLEAN]
      /\ msg' \in [data : Buffers!Buffer, dangling : BOOLEAN, reply : Buffers!Buffer,
                   reply_sent : 0..MaxLength, forwards : Nat]
  BY <1>3, <1>4, <1>5, <1>6
<1> QED BY <1>4, <1>5, <1>6, <1>7, <1>8, <1>9 DEF RInv

LEMMA ReceiveReturns ==
  ASSUME Buffers!ExchangeAssumption, RInv, NEW s \in Server, NEW buffer \in Buffers!Buffer,
         Buffers!Receive(s, buffer)
  PROVE  RInv'
<1>1. PICK n : n = Buffers!Shorter(Len(buffer), Len(msg.data))
  OBVIOUS
<1>2. PICK filled : filled = Buffers!Copied(buffer, msg.data, n)
  OBVIOUS
<1>3. msg.data \in Seq(Byte) /\ Len(msg.data) \in 0..MaxLength
  <2>1. msg.data \in Buffers!Buffer
    BY DEF RInv
  <2> QED BY <2>1, BufferSeq
<1>4. Len(buffer) \in Nat
  BY BufferSeq
<1>5. n \in Nat /\ n <= Len(buffer) /\ n <= Len(msg.data)
  BY <1>1, <1>3, <1>4 DEF Buffers!Shorter
<1>6. filled \in Buffers!Buffer
  BY <1>2, <1>3, <1>5, CopiedBuffer
<1>7. /\ umsg' = [umsg EXCEPT ![s] = [data |-> filled, data_received |-> Len(msg.data),
                                      holds |-> TRUE]]
      /\ client' = client /\ msg' = msg /\ holder' = holder /\ answer' = answer
  BY <1>1, <1>2, Zenon DEF Buffers!Receive, Buffers!Told
<1>8. umsg' \in [Server -> [data : Buffers!Buffer, data_received : 0..MaxLength,
                           holds : BOOLEAN]]
  BY <1>3, <1>6, <1>7 DEF RInv
<1> QED BY <1>7, <1>8, Zenon DEF RInv

LEMMA ForwardReturns ==
  ASSUME Buffers!ExchangeAssumption, RInv, NEW s \in Server, NEW t \in Server,
         Buffers!Forward(s, t)
  PROVE  RInv'
<1>1. /\ holder = s /\ holder' = t
      /\ client' = client /\ answer' = answer
      /\ umsg' = [umsg EXCEPT ![s] = Buffers!Empty]
      /\ msg' = [msg EXCEPT !.data = umsg[s].data, !.forwards = @ + 1,
                            !.dangling = msg.data # <<>> /\ umsg[s].data = <<>>]
  BY DEF Buffers!Forward, Buffers!Forwarded
<1>2. <<>> \in Buffers!Buffer /\ 0 \in 0..MaxLength
  BY EmptyBuffer DEF Buffers!ExchangeAssumption
<1>3. umsg' \in [Server -> [data : Buffers!Buffer, data_received : 0..MaxLength,
                           holds : BOOLEAN]]
  BY <1>1, <1>2 DEF RInv, Buffers!Empty
<1>4. umsg[s].data \in Buffers!Buffer
  BY DEF RInv
<1>5. /\ msg' \in [data : Buffers!Buffer, dangling : BOOLEAN, reply : Buffers!Buffer,
                   reply_sent : 0..MaxLength, forwards : Nat]
      /\ msg'.reply = msg.reply
  <2>1. PICK d : d = (msg.data # <<>> /\ umsg[s].data = <<>>)
    OBVIOUS
  <2>2. d \in BOOLEAN
    BY <2>1, Zenon
  <2>3. msg' = [msg EXCEPT !.data = umsg[s].data, !.forwards = @ + 1, !.dangling = d]
    BY <1>1, <2>1, Zenon
  <2>4. PICK b, m : b = umsg[s].data /\ m = msg
    OBVIOUS
  <2>5. /\ m \in [data : Buffers!Buffer, dangling : BOOLEAN, reply : Buffers!Buffer,
                 reply_sent : 0..MaxLength, forwards : Nat]
        /\ b \in Buffers!Buffer /\ msg' = [m EXCEPT !.data = b, !.forwards = @ + 1, !.dangling = d]
    BY <1>4, <2>3, <2>4, Zenon DEF RInv
  <2>6. /\ msg' \in [data : Buffers!Buffer, dangling : BOOLEAN, reply : Buffers!Buffer,
                     reply_sent : 0..MaxLength, forwards : Nat]
        /\ msg'.reply = m.reply
    <3>1. /\ m.reply \in Buffers!Buffer /\ m.reply_sent \in 0..MaxLength
          /\ m.forwards + 1 \in Nat
      BY <2>5
    <3>2. msg' = [data |-> b, dangling |-> d, reply |-> m.reply,
                  reply_sent |-> m.reply_sent, forwards |-> m.forwards + 1]
      BY <2>5
    <3> QED BY <2>2, <2>5, <3>1, <3>2, Zenon
  <2> QED BY <2>4, <2>6
<1>6. s \notin {"client", "answered"} /\ t \notin {"client", "answered"}
  BY DEF Buffers!ExchangeAssumption
<1> QED BY <1>1, <1>3, <1>5, <1>6 DEF RInv

\* The start of the reply is the answer, whichever is the longer; where nothing is
\* answered it stays blank.
LEMMA ReplyReturns ==
  ASSUME Buffers!ExchangeAssumption, RInv, NEW s \in Server, NEW text \in Buffers!Buffer,
         Buffers!Reply(s, text)
  PROVE  RInv'
<1>1. /\ holder = s /\ umsg' = [umsg EXCEPT ![s] = Buffers!Empty]
      /\ answer' = text /\ client' = client
  BY DEF Buffers!Reply
<1>2. umsg' \in [Server -> [data : Buffers!Buffer, data_received : 0..MaxLength,
                           holds : BOOLEAN]]
  <2>1. <<>> \in Buffers!Buffer /\ 0 \in 0..MaxLength
    BY EmptyBuffer DEF Buffers!ExchangeAssumption
  <2> QED BY <1>1, <2>1 DEF RInv, Buffers!Empty
<1>3. s \notin {"client", "answered", "overrun"} /\ {"answered", "overrun"} \cap Server = {}
  BY DEF Buffers!ExchangeAssumption
<1>4. ~client.returned
  BY <1>1, <1>3 DEF RInv
<1>5. text \in Seq(Byte) /\ Len(text) \in 0..MaxLength
  BY BufferSeq
<1>6. PICK reply : reply = msg.reply
  OBVIOUS
<1>7. /\ reply \in Buffers!Buffer /\ reply \in Seq(Byte) /\ Len(reply) \in 0..MaxLength
      /\ Blank(reply)
  <2>1. reply \in Buffers!Buffer /\ Blank(reply)
    BY <1>1, <1>6 DEF RInv
  <2> QED BY <2>1, BufferSeq
<1>8. CASE /\ text = <<>> \/ reply = <<>>
           /\ msg' = [msg EXCEPT !.reply_sent = Len(text)]
           /\ holder' = "answered"
  <2>1. Answered(reply, Len(text), text)
    <3>1. Len(text) = 0 \/ Len(reply) = 0
      BY <1>8
    <3>2. Buffers!Shorter(Len(text), Len(reply)) = 0
      BY <1>5, <1>7, <3>1 DEF Buffers!Shorter
    <3> QED BY <1>7, <3>2 DEF Answered
  <2>2. /\ msg' \in [data : Buffers!Buffer, dangling : BOOLEAN, reply : Buffers!Buffer,
                     reply_sent : 0..MaxLength, forwards : Nat]
        /\ msg'.reply = reply /\ msg'.reply_sent = Len(text)
    BY <1>5, <1>6, <1>8 DEF RInv
  <2> QED BY <1>1, <1>2, <1>3, <1>4, <1>8, <2>1, <2>2 DEF RInv
<1>9. CASE /\ text # <<>> /\ reply # <<>> /\ Len(text) <= Len(reply)
           /\ \E behind \in [1..Len(reply) -> Byte] :
                msg' = [msg EXCEPT !.reply = Buffers!Filled(behind, text),
                                   !.reply_sent = Len(text)]
           /\ holder' = "answered"
  <2>1. PICK behind \in [1..Len(reply) -> Byte] :
               msg' = [msg EXCEPT !.reply = Buffers!Filled(behind, text),
                                  !.reply_sent = Len(text)]
    BY <1>9
  <2>2. PICK r : r = Buffers!Copied(behind, text, Len(text))
    OBVIOUS
  <2>3. behind \in Buffers!Buffer /\ Len(behind) = Len(reply)
    BY <1>7 DEF Buffers!Buffer
  <2>4. /\ r \in Buffers!Buffer /\ Len(r) = Len(reply)
        /\ \A i \in 1..Len(text) : r[i] = text[i]
    BY <1>5, <1>9, <2>2, <2>3, CopiedBuffer
  <2>5. Answered(r, Len(text), text)
    <3>1. Buffers!Shorter(Len(text), Len(r)) = Len(text)
      BY <1>5, <1>7, <1>9, <2>4 DEF Buffers!Shorter
    <3> QED BY <1>9, <2>4, <3>1 DEF Answered
  <2>6. msg' = [msg EXCEPT !.reply = r, !.reply_sent = Len(text)]
    BY <2>1, <2>2 DEF Buffers!Filled
  <2>7. /\ msg' \in [data : Buffers!Buffer, dangling : BOOLEAN, reply : Buffers!Buffer,
                     reply_sent : 0..MaxLength, forwards : Nat]
        /\ msg'.reply = r /\ msg'.reply_sent = Len(text)
    BY <1>5, <2>4, <2>6 DEF RInv
  <2> QED BY <1>1, <1>2, <1>3, <1>4, <1>9, <2>5, <2>7 DEF RInv
<1>10. CASE holder' = "overrun" /\ msg' = msg
  BY <1>1, <1>2, <1>3, <1>4, <1>10 DEF RInv
<1> QED BY <1>6, <1>8, <1>9, <1>10 DEF Buffers!Reply

LEMMA RNext ==
  ASSUME Buffers!ExchangeAssumption, RInv, [Buffers!Next]_exchangeVars PROVE RInv'
<1>1. CASE UNCHANGED exchangeVars
  BY <1>1 DEF exchangeVars, RInv
<1>2. ASSUME NEW s \in Server, Buffers!ForwardPanics(s) PROVE RInv'
  BY <1>2 DEF Buffers!ForwardPanics, RInv, Buffers!ExchangeAssumption
<1>3. CASE Buffers!Return
  <2>1. /\ holder = "answered" /\ holder' = "client"
        /\ client' = [client EXCEPT !.reply = msg.reply, !.returned = TRUE]
        /\ msg' = msg /\ umsg' = umsg /\ answer' = answer
    BY <1>3 DEF Buffers!Return
  <2>2. Answered(msg.reply, msg.reply_sent, answer)
    BY <2>1 DEF RInv
  <2>3. /\ client' \in [data : Buffers!Buffer, reply : Buffers!Buffer, returned : BOOLEAN]
        /\ client'.reply = msg.reply
    BY <2>1 DEF RInv
  <2>4. "client" \notin Server
    BY DEF Buffers!ExchangeAssumption
  <2> QED BY <2>1, <2>2, <2>3, <2>4 DEF RInv
<1> QED BY <1>1, <1>2, <1>3, SendReturns, ReceiveReturns, ForwardReturns, ReplyReturns
           DEF Buffers!Next

-----------------------------------------------------------------------------
(* What the invariants say *)

LEMMA SameStart ==
  ASSUME NEW p \in Seq(Byte), NEW q \in Seq(Byte), NEW n \in Nat,
         n <= Len(p), n <= Len(q), \A i \in 1..n : p[i] = q[i]
  PROVE  SubSeq(p, 1, n) = SubSeq(q, 1, n)
<1>1. PICK a : a = SubSeq(p, 1, n)
  OBVIOUS
<1>2. PICK b : b = SubSeq(q, 1, n)
  OBVIOUS
<1>3. a \in Seq(Byte) /\ Len(a) = n /\ \A i \in 1..n : a[i] = p[i]
  BY <1>1, SubSeqProperties
<1>4. b \in Seq(Byte) /\ Len(b) = n /\ \A i \in 1..n : b[i] = q[i]
  BY <1>2, SubSeqProperties
<1>5. a = b
  BY <1>3, <1>4, SeqEqual
<1> QED BY <1>1, <1>2, <1>5

LEMMA SaysDelivered == XInv => Buffers!Delivered
<1> SUFFICES ASSUME XInv, NEW s \in Server, holder = s, umsg[s].holds
             PROVE  SubSeq(umsg[s].data, 1, Reach) = SubSeq(client.data, 1, Reach)
  BY DEF Buffers!Delivered, Reach
<1>1. client.data \in Seq(Byte) /\ least \in Nat /\ Begins(umsg[s].data)
  BY DEF XInv
<1>2. Reach \in Nat /\ Reach <= Len(client.data)
  BY <1>1 DEF Reach, Buffers!Shorter
<1>3. /\ umsg[s].data \in Seq(Byte) /\ Reach <= Len(umsg[s].data)
      /\ \A i \in 1..Reach : umsg[s].data[i] = client.data[i]
  BY <1>1, Zenon DEF Begins
<1> QED BY <1>1, <1>2, <1>3, SameStart

LEMMA SaysLoss == XInv => Buffers!LossSeen
<1> SUFFICES ASSUME XInv, NEW s \in Server, holder = s, least < Len(client.data)
             PROVE  warned
  BY DEF Buffers!LossSeen
<1>1. /\ client.data \in Seq(Byte) /\ least \in Nat
      /\ ~warned => Len(client.data) <= least
  BY DEF XInv
<1>2. ~(Len(client.data) <= least)
  BY <1>1
<1> QED BY <1>1, <1>2, Zenon

LEMMA SaysReturned ==
  ASSUME Buffers!ExchangeAssumption, RInv PROVE Buffers!Returned
<1> PICK n : n = Buffers!Shorter(msg.reply_sent, Len(client.reply))
  OBVIOUS
<1> SUFFICES ASSUME client.returned
             PROVE  /\ SubSeq(client.reply, 1, n) = SubSeq(answer, 1, n)
                    /\ answer = <<>> => \A i \in DOMAIN client.reply : client.reply[i] = Zero
  BY DEF Buffers!Returned
<1>1. /\ client.reply \in Buffers!Buffer /\ answer \in Buffers!Buffer
      /\ Answered(client.reply, msg.reply_sent, answer)
  BY DEF RInv
<1>2. /\ client.reply \in Seq(Byte) /\ answer \in Seq(Byte)
      /\ Len(client.reply) \in Nat /\ Len(answer) \in Nat
  BY <1>1, BufferSeq
<1>3. /\ n = Buffers!Shorter(Len(answer), Len(client.reply))
      /\ \A i \in 1..n : client.reply[i] = answer[i]
      /\ answer = <<>> => Blank(client.reply)
  BY <1>1, Zenon DEF Answered
<1>4. n \in Nat /\ n <= Len(client.reply) /\ n <= Len(answer)
  BY <1>2, <1>3 DEF Buffers!Shorter
<1>5. SubSeq(client.reply, 1, n) = SubSeq(answer, 1, n)
  BY <1>2, <1>3, <1>4, SameStart
<1>6. DOMAIN client.reply = 1..Len(client.reply)
  BY <1>2, LenProperties
<1> QED BY <1>3, <1>5, <1>6, Zenon DEF Blank

LEMMA SaysTypes == ASSUME Buffers!ExchangeAssumption, RInv PROVE Buffers!TypeOK
BY DEF RInv, Buffers!TypeOK

-----------------------------------------------------------------------------
(* The theorems *)

\* The server that has the request reads the client's bytes as far as the shortest
\* buffer on the way reaches; where one was too short a server was told; and the
\* client finds the answer's bytes, or zeros (messages.cpp:73-74, 106-109, 132-134,
\* 167-173, fs.cpp:190).  For buffers of any length, servers and forwards.
THEOREM BuffersAlwaysSound == ASSUME PartsAssumption PROVE AllSpec => []BuffersSound
<1>1. AllInit => XInv /\ RInv
  BY XInit, RInit DEF AllInit, PartsAssumption
<1>2. [AllNext]_allVars => [Buffers!Next]_exchangeVars
  BY DEF AllNext, allVars, Pages, Heaps, Mallocs
<1>3. XInv /\ RInv /\ [AllNext]_allVars => (XInv /\ RInv)'
  BY <1>2, XNext, RNext DEF PartsAssumption
<1>4. XInv /\ RInv => BuffersSound
  BY SaysDelivered, SaysLoss, SaysReturned, SaysTypes DEF BuffersSound, PartsAssumption
<1> QED BY <1>1, <1>3, <1>4, PTL DEF AllSpec

-----------------------------------------------------------------------------
(* Lists of blocks *)

List(h) == INSTANCE HeapList WITH Header <- h

Blk == [addr : Nat, size : Nat, free : BOOLEAN]

\* A byte of b is x.
Holds(h, b, x) == x \in Int /\ b.addr <= x /\ x < b.addr + h + b.size

\* A list of blocks that share no byte.
Well(h, bs) == bs \in Seq(Blk) /\ List(h)!Disjoint(bs)

\* No two blocks that hold a byte are different.
Single(h, bs) == \A i, j \in 1..Len(bs) : \A x : Holds(h, bs[i], x) /\ Holds(h, bs[j], x) => i = j

\* The same bytes are in blocks i to j of bs and in those of new.
Covers(h, new, bs, i, j) ==
  \A x : (\E m \in 1..Len(new) : Holds(h, new[m], x)) <=> (\E m \in i..j : Holds(h, bs[m], x))

\* No free neighbours but for the pairs that begin in S.
Meets(h, b, c) == b.free /\ c.free /\ List(h)!End(b) = c.addr
MergedBut(h, bs, S) ==
  \A k \in 1..(Len(bs) - 1) : k \notin S => ~Meets(h, bs[k], bs[k + 1])

\* What a step keeps of a list: its bytes, no two blocks with one.
Kept(h, bs, r) == Well(h, r) /\ List(h)!Bytes(r) = List(h)!Bytes(bs)

\* A block in use is at a.
UsedAt(b, a) == ~b.free /\ b.addr = a

LEMMA BytesHeld ==
  ASSUME NEW h \in Nat \ {0}, NEW bs \in Seq(Blk)
  PROVE  \A x : x \in List(h)!Bytes(bs) <=> \E i \in 1..Len(bs) : Holds(h, bs[i], x)
<1>1. DOMAIN bs = 1..Len(bs)
  OBVIOUS
<1>2. ASSUME NEW i \in 1..Len(bs), NEW x
      PROVE  x \in bs[i].addr..(List(h)!End(bs[i]) - 1) <=> Holds(h, bs[i], x)
  <2>1. PICK b \in Blk : b = bs[i]
    OBVIOUS
  <2>2. b.addr \in Nat /\ b.size \in Nat
    BY DEF Blk
  <2>3. List(h)!End(b) = b.addr + h + b.size
    BY DEF List!End
  <2>4. x \in b.addr..(List(h)!End(b) - 1) <=> x \in Int /\ b.addr <= x /\ x < b.addr + h + b.size
    BY <2>2, <2>3
  <2>5. x \in b.addr..(List(h)!End(b) - 1) <=> Holds(h, b, x)
    BY <2>4, Zenon DEF Holds
  <2> QED BY <2>1, <2>5, Zenon
<1> QED BY <1>1, <1>2 DEF List!Bytes

\* Two blocks with a byte in common are one.
LEMMA OneHolds ==
  ASSUME NEW h \in Nat \ {0}, NEW bs, Well(h, bs)
  PROVE  Single(h, bs)
<1> SUFFICES ASSUME NEW i \in 1..Len(bs), NEW j \in 1..Len(bs), NEW x,
                    Holds(h, bs[i], x), Holds(h, bs[j], x), i # j
             PROVE  FALSE
  BY DEF Single
<1>1. PICK b \in Blk, c \in Blk : b = bs[i] /\ c = bs[j]
  BY DEF Well
<1>2. ~(b.addr < c.addr + h + c.size /\ c.addr < b.addr + h + b.size)
  BY <1>1 DEF Well, List!Disjoint, List!Overlap, List!End
<1>3. x \in Int /\ b.addr <= x /\ x < b.addr + h + b.size /\ c.addr <= x /\ x < c.addr + h + c.size
  BY <1>1 DEF Holds
<1> QED BY <1>2, <1>3 DEF Blk

LEMMA WellHolds ==
  ASSUME NEW h \in Nat \ {0}, NEW bs \in Seq(Blk), Single(h, bs)
  PROVE  Well(h, bs)
<1> SUFFICES ASSUME NEW i \in 1..Len(bs), NEW j \in 1..Len(bs), i # j,
                    List(h)!Overlap(bs[i], bs[j])
             PROVE  FALSE
  BY DEF Well, List!Disjoint
<1>1. PICK b \in Blk, c \in Blk : b = bs[i] /\ c = bs[j]
  OBVIOUS
<1>2. b.addr < c.addr + h + c.size /\ c.addr < b.addr + h + b.size
  BY <1>1 DEF List!Overlap, List!End
<1>3. PICK x : x = IF b.addr <= c.addr THEN c.addr ELSE b.addr
  OBVIOUS
<1>4. b.addr \in Nat /\ b.size \in Nat /\ c.addr \in Nat /\ c.size \in Nat
  BY DEF Blk
<1>5. /\ x \in Int /\ b.addr <= x /\ x < b.addr + h + b.size
      /\ c.addr <= x /\ x < c.addr + h + c.size
  BY <1>2, <1>3, <1>4
<1>6. Holds(h, b, x) /\ Holds(h, c, x)
  BY <1>5 DEF Holds
<1> QED BY <1>1, <1>6 DEF Single

\* r is bs with the blocks new for those from i to j.
Exchanged(bs, i, j, new, r) ==
  /\ r \in Seq(Blk) /\ Len(r) = Len(bs) - (j - i + 1) + Len(new)
  /\ \A k \in 1..(i - 1) : r[k] = bs[k]
  /\ \A k \in 1..Len(new) : r[i - 1 + k] = new[k]
  /\ \A k \in 1..(Len(bs) - j) : r[i - 1 + Len(new) + k] = bs[j + k]

LEMMA ReplacedAt ==
  ASSUME NEW h, NEW bs \in Seq(Blk), NEW i \in 1..Len(bs), NEW j \in i..Len(bs),
         NEW new \in Seq(Blk), NEW r, r = List(h)!Replaced(bs, i, j, new)
  PROVE  Exchanged(bs, i, j, new, r)
<1>1. PICK a : a = SubSeq(bs, 1, i - 1)
  OBVIOUS
<1>2. PICK b : b = SubSeq(bs, j + 1, Len(bs))
  OBVIOUS
<1>3. a \in Seq(Blk) /\ Len(a) = i - 1 /\ \A k \in 1..(i - 1) : a[k] = bs[k]
  BY <1>1, SubSeqProperties
<1>4. b \in Seq(Blk) /\ Len(b) = Len(bs) - j /\ \A k \in 1..(Len(bs) - j) : b[k] = bs[j + k]
  <2>1. j + 1 \in 1..(Len(bs) + 1) /\ Len(bs) \in Nat /\ j \in Nat
    OBVIOUS
  <2> QED BY <1>2, <2>1, SubSeqProperties
<1>5. PICK c : c = a \o new
  OBVIOUS
<1>6. /\ c \in Seq(Blk) /\ Len(c) = i - 1 + Len(new)
      /\ \A k \in 1..Len(c) : c[k] = IF k <= i - 1 THEN a[k] ELSE new[k - (i - 1)]
  BY <1>3, <1>5, ConcatProperties
<1>7. r = c \o b
  BY <1>1, <1>2, <1>5 DEF List!Replaced
<1>8. /\ c \o b \in Seq(Blk) /\ Len(c \o b) = Len(c) + Len(b)
      /\ \A k \in 1..(Len(c) + Len(b)) : (c \o b)[k] = IF k <= Len(c) THEN c[k] ELSE b[k - Len(c)]
  BY <1>4, <1>6, ConcatProperties
<1>9. Len(new) \in Nat /\ Len(bs) \in Nat
  OBVIOUS
<1>10. r \in Seq(Blk) /\ Len(r) = Len(bs) - (j - i + 1) + Len(new)
  BY <1>4, <1>6, <1>7, <1>8, <1>9
<1>11. ASSUME NEW k \in 1..(i - 1) PROVE r[k] = bs[k]
  <2>1. k \in 1..Len(c) /\ k <= i - 1 /\ k \in 1..(Len(c) + Len(b)) /\ k <= Len(c)
    BY <1>4, <1>6, <1>9
  <2>2. r[k] = c[k] /\ c[k] = a[k]
    BY <1>6, <1>7, <1>8, <2>1
  <2> QED BY <1>3, <2>2
<1>12. ASSUME NEW k \in 1..Len(new) PROVE r[i - 1 + k] = new[k]
  BY <1>3, <1>4, <1>6, <1>7, <1>8, <1>9
<1>13. ASSUME NEW k \in 1..(Len(bs) - j) PROVE r[i - 1 + Len(new) + k] = bs[j + k]
  <2>1. PICK m : m = i - 1 + Len(new) + k
    OBVIOUS
  <2>2. m \in 1..(Len(c) + Len(b)) /\ ~(m <= Len(c)) /\ m - Len(c) = k
    BY <1>4, <1>6, <1>9, <2>1
  <2>3. r[m] = b[k]
    BY <1>7, <1>8, <2>2
  <2> QED BY <1>4, <2>1, <2>3
<1> QED BY <1>10, <1>11, <1>12, <1>13 DEF Exchanged

\* Block k of r was block m of bs, or is block m of new.
WasAt(bs, i, j, new, r, k, m) ==
  /\ m \in (1..Len(bs)) \ (i..j) /\ r[k] = bs[m]
  /\ k = IF m < i THEN m ELSE m - (j - i + 1) + Len(new)
IsAt(i, new, r, k, m) == m \in 1..Len(new) /\ r[k] = new[m] /\ k = i - 1 + m

Sources(bs, i, j, new, r) ==
  /\ \A k \in 1..Len(r) : \E m : WasAt(bs, i, j, new, r, k, m) \/ IsAt(i, new, r, k, m)
  /\ \A m \in (1..Len(bs)) \ (i..j) : \E k \in 1..Len(r) : r[k] = bs[m]
  /\ \A m \in 1..Len(new) : \E k \in 1..Len(r) : r[k] = new[m]

LEMMA ExchangedFrom ==
  ASSUME NEW bs \in Seq(Blk), NEW i \in 1..Len(bs), NEW j \in i..Len(bs),
         NEW new \in Seq(Blk), NEW r, Exchanged(bs, i, j, new, r)
  PROVE  Sources(bs, i, j, new, r)
<1>1. Len(new) \in Nat /\ Len(bs) \in Nat /\ i \in Nat /\ j \in Nat /\ i <= j /\ j <= Len(bs)
  OBVIOUS
<1>2. /\ r \in Seq(Blk) /\ Len(r) = Len(bs) - (j - i + 1) + Len(new)
      /\ \A k \in 1..(i - 1) : r[k] = bs[k]
      /\ \A k \in 1..Len(new) : r[i - 1 + k] = new[k]
      /\ \A k \in 1..(Len(bs) - j) : r[i - 1 + Len(new) + k] = bs[j + k]
  BY DEF Exchanged
<1>3. ASSUME NEW k \in 1..Len(r)
      PROVE  \E m : WasAt(bs, i, j, new, r, k, m) \/ IsAt(i, new, r, k, m)
  <2>1. CASE k < i
    <3>1. k \in (1..Len(bs)) \ (i..j) /\ r[k] = bs[k]
      BY <1>1, <1>2, <2>1
    <3> QED BY <2>1, <3>1 DEF WasAt
  <2>2. CASE k >= i /\ k <= i - 1 + Len(new)
    <3>1. PICK m : m = k - (i - 1)
      OBVIOUS
    <3>2. m \in 1..Len(new) /\ k = i - 1 + m
      BY <1>1, <2>2, <3>1
    <3>3. r[k] = new[m]
      BY <1>2, <3>2
    <3> QED BY <3>2, <3>3 DEF IsAt
  <2>3. CASE k > i - 1 + Len(new)
    <3>1. PICK a : a = k - (i - 1) - Len(new)
      OBVIOUS
    <3>2. a \in 1..(Len(bs) - j) /\ k = i - 1 + Len(new) + a
      BY <1>1, <1>2, <2>3, <3>1
    <3>3. PICK m : m = j + a
      OBVIOUS
    <3>4. r[k] = bs[m]
      BY <1>2, <3>2, <3>3
    <3>5. m \in (1..Len(bs)) \ (i..j) /\ ~(m < i) /\ k = m - (j - i + 1) + Len(new)
      BY <1>1, <3>2, <3>3
    <3> QED BY <3>4, <3>5 DEF WasAt
  <2> QED BY <1>1, <1>2, <2>1, <2>2, <2>3
<1>4. ASSUME NEW m \in (1..Len(bs)) \ (i..j) PROVE \E k \in 1..Len(r) : r[k] = bs[m]
  <2>1. CASE m < i
    <3>1. m \in 1..(i - 1) /\ Len(r) = Len(bs) - (j - i + 1) + Len(new)
      BY <1>1, <1>2, <2>1
    <3>2. m \in 1..Len(r)
      BY <1>1, <3>1
    <3> QED BY <1>2, <3>1, <3>2
  <2>2. CASE m > j
    <3>1. PICK a : a = m - j
      OBVIOUS
    <3>2. a \in 1..(Len(bs) - j) /\ j + a = m
      BY <1>1, <2>2, <3>1
    <3>3. PICK k : k = i - 1 + Len(new) + a
      OBVIOUS
    <3>4. r[k] = bs[m]
      BY <1>2, <3>2, <3>3
    <3>5. k \in 1..Len(r)
      BY <1>1, <1>2, <3>2, <3>3
    <3> QED BY <3>4, <3>5
  <2> QED BY <1>1, <2>1, <2>2
<1>5. ASSUME NEW m \in 1..Len(new) PROVE \E k \in 1..Len(r) : r[k] = new[m]
  <2>1. i - 1 + m \in 1..Len(r) /\ r[i - 1 + m] = new[m]
    BY <1>1, <1>2
  <2> QED BY <2>1
<1> QED BY <1>3, <1>4, <1>5, Zenon DEF Sources

\* Blocks replaced by others with the same bytes.
LEMMA ReplacedKeeps ==
  ASSUME NEW h \in Nat \ {0}, NEW bs, Well(h, bs), NEW i \in 1..Len(bs), NEW j \in i..Len(bs),
         NEW new \in Seq(Blk), Single(h, new), Covers(h, new, bs, i, j),
         NEW r, r = List(h)!Replaced(bs, i, j, new)
  PROVE  Well(h, r) /\ List(h)!Bytes(r) = List(h)!Bytes(bs)
<1>1. bs \in Seq(Blk) /\ Single(h, bs)
  BY OneHolds DEF Well
<1>2. Exchanged(bs, i, j, new, r)
  BY <1>1, ReplacedAt, Zenon
<1>3. /\ \A k \in 1..Len(r) : \E m : WasAt(bs, i, j, new, r, k, m) \/ IsAt(i, new, r, k, m)
      /\ \A m \in (1..Len(bs)) \ (i..j) : \E k \in 1..Len(r) : r[k] = bs[m]
      /\ \A m \in 1..Len(new) : \E k \in 1..Len(r) : r[k] = new[m]
  <2>1. Sources(bs, i, j, new, r)
    BY <1>1, <1>2, ExchangedFrom, Zenon
  <2> QED BY <2>1, Zenon DEF Sources
<1>4. \A m \in i..j : m \in 1..Len(bs)
  OBVIOUS
<1>5. ASSUME NEW x PROVE (\E k \in 1..Len(r) : Holds(h, r[k], x)) <=> (\E m \in 1..Len(bs) : Holds(h, bs[m], x))
  <2>1. ASSUME NEW k \in 1..Len(r), Holds(h, r[k], x) PROVE \E m \in 1..Len(bs) : Holds(h, bs[m], x)
    BY <1>3, <1>4, <2>1 DEF Covers, WasAt, IsAt
  <2>2. ASSUME NEW m \in 1..Len(bs), Holds(h, bs[m], x) PROVE \E k \in 1..Len(r) : Holds(h, r[k], x)
    BY <1>3, <1>4, <2>2 DEF Covers
  <2> QED BY <2>1, <2>2
<1>6. Single(h, r)
  <2> SUFFICES ASSUME NEW k \in 1..Len(r), NEW l \in 1..Len(r), NEW x, Holds(h, r[k], x), Holds(h, r[l], x)
               PROVE  k = l
    BY DEF Single
  <2>1. PICK m : WasAt(bs, i, j, new, r, k, m) \/ IsAt(i, new, r, k, m)
    BY <1>3
  <2>2. PICK n : WasAt(bs, i, j, new, r, l, n) \/ IsAt(i, new, r, l, n)
    BY <1>3
  <2>3. CASE WasAt(bs, i, j, new, r, k, m) /\ WasAt(bs, i, j, new, r, l, n)
    <3>1. m = n
      BY <1>1, <2>3 DEF Single, WasAt
    <3> QED BY <2>3, <3>1 DEF WasAt
  <2>4. CASE IsAt(i, new, r, k, m) /\ IsAt(i, new, r, l, n)
    <3>1. m = n
      BY <2>4 DEF Single, IsAt
    <3> QED BY <2>4, <3>1 DEF IsAt
  <2>5. CASE WasAt(bs, i, j, new, r, k, m) /\ IsAt(i, new, r, l, n)
    <3>1. PICK q \in i..j : Holds(h, bs[q], x)
      BY <2>5 DEF Covers, IsAt
    <3> QED BY <1>1, <1>4, <2>5, <3>1 DEF Single, WasAt
  <2>6. CASE IsAt(i, new, r, k, m) /\ WasAt(bs, i, j, new, r, l, n)
    <3>1. PICK q \in i..j : Holds(h, bs[q], x)
      BY <2>6 DEF Covers, IsAt
    <3> QED BY <1>1, <1>4, <2>6, <3>1 DEF Single, WasAt
  <2> QED BY <2>1, <2>2, <2>3, <2>4, <2>5, <2>6
<1>7. r \in Seq(Blk)
  BY <1>2 DEF Exchanged
<1>8. Well(h, r)
  BY <1>6, <1>7, WellHolds
<1>9. \A x : x \in List(h)!Bytes(bs) <=> x \in List(h)!Bytes(r)
  BY <1>1, <1>5, <1>7, BytesHeld
<1>10. List(h)!Bytes(r) = List(h)!Bytes(bs)
  BY <1>9 DEF List!Bytes
<1> QED BY <1>8, <1>10

LEMMA ReplacedOccupied ==
  ASSUME NEW h, NEW bs \in Seq(Blk), NEW i \in 1..Len(bs), NEW j \in i..Len(bs),
         NEW new \in Seq(Blk), NEW r, Exchanged(bs, i, j, new, r), NEW a
  PROVE  a \in List(h)!Occupied(r) <=>
           \/ \E m \in (1..Len(bs)) \ (i..j) : UsedAt(bs[m], a)
           \/ \E m \in 1..Len(new) : UsedAt(new[m], a)
<1>1. Sources(bs, i, j, new, r)
  BY ExchangedFrom, Zenon
<1>2. DOMAIN r = 1..Len(r)
  BY DEF Exchanged
<1>3. a \in List(h)!Occupied(r) <=> \E k \in 1..Len(r) : UsedAt(r[k], a)
  BY <1>2 DEF List!Occupied, UsedAt
<1>4. ASSUME NEW k \in 1..Len(r), UsedAt(r[k], a)
      PROVE  \/ \E m \in (1..Len(bs)) \ (i..j) : UsedAt(bs[m], a)
             \/ \E m \in 1..Len(new) : UsedAt(new[m], a)
  <2>1. PICK m : WasAt(bs, i, j, new, r, k, m) \/ IsAt(i, new, r, k, m)
    BY <1>1, Zenon DEF Sources
  <2> QED BY <1>4, <2>1, Zenon DEF WasAt, IsAt
<1>5. ASSUME NEW m \in (1..Len(bs)) \ (i..j), UsedAt(bs[m], a)
      PROVE  \E k \in 1..Len(r) : UsedAt(r[k], a)
  BY <1>1, <1>5, Zenon DEF Sources
<1>6. ASSUME NEW m \in 1..Len(new), UsedAt(new[m], a)
      PROVE  \E k \in 1..Len(r) : UsedAt(r[k], a)
  BY <1>1, <1>6, Zenon DEF Sources
<1> QED BY <1>3, <1>4, <1>5, <1>6, Zenon

\* The blocks new begin and end as blocks i to j do, and free only where those are.
Flush(h, new, bs, i, j) ==
  /\ new \in Seq(Blk) /\ Len(new) >= 1
  /\ new[1].addr = bs[i].addr /\ (new[1].free => bs[i].free)
  /\ List(h)!End(new[Len(new)]) = List(h)!End(bs[j])
  /\ new[Len(new)].free => bs[j].free

LEMMA ReplacedMerged ==
  ASSUME NEW h, NEW bs \in Seq(Blk), NEW i \in 1..Len(bs), NEW j \in i..Len(bs),
         NEW new, Flush(h, new, bs, i, j), NEW r, Exchanged(bs, i, j, new, r),
         NEW S, \A k \in S : k \in Int /\ k < j,
         MergedBut(h, bs, S), MergedBut(h, new, {})
  PROVE  MergedBut(h, r, {k \in S : k < i})
<1> SUFFICES ASSUME NEW k \in 1..(Len(r) - 1), ~(k \in S /\ k < i), Meets(h, r[k], r[k + 1])
             PROVE  FALSE
  BY DEF MergedBut
<1>1. Len(new) \in Nat /\ Len(bs) \in Nat /\ i \in Nat /\ j \in Nat /\ i <= j /\ j <= Len(bs) /\ 1 <= i /\ 1 <= Len(new)
  BY DEF Flush
<1>2. /\ Len(r) = Len(bs) - (j - i + 1) + Len(new)
      /\ \A m \in 1..(i - 1) : r[m] = bs[m]
      /\ \A m \in 1..Len(new) : r[i - 1 + m] = new[m]
      /\ \A m \in 1..(Len(bs) - j) : r[i - 1 + Len(new) + m] = bs[j + m]
  BY DEF Exchanged
<1>3. k \in Nat /\ 1 <= k /\ k <= Len(r) - 1
  BY <1>1, <1>2
<1>4. ASSUME NEW m \in 1..(Len(bs) - 1), m \notin S PROVE ~Meets(h, bs[m], bs[m + 1])
  BY <1>4 DEF MergedBut
<1>5. CASE k < i - 1
  <2>1. k \in 1..(i - 1) /\ k + 1 \in 1..(i - 1) /\ k \in 1..(Len(bs) - 1) /\ k < i
    BY <1>1, <1>3, <1>5
  <2> QED BY <1>2, <1>4, <2>1
<1>6. CASE k = i - 1
  <2>1. k \in 1..(i - 1) /\ k \in 1..(Len(bs) - 1) /\ k < i /\ k + 1 = i /\ 1 \in 1..Len(new)
    BY <1>1, <1>3, <1>6
  <2>2. r[i] = new[1]
    <3>1. i - 1 + 1 = i
      BY <1>1
    <3> QED BY <1>2, <2>1, <3>1
  <2>3. r[k] = bs[k] /\ r[k + 1] = new[1]
    BY <1>2, <2>1, <2>2
  <2>4. Meets(h, bs[k], bs[k + 1])
    BY <2>1, <2>3 DEF Meets, Flush
  <2> QED BY <1>4, <2>1, <2>4
<1>7. CASE i <= k /\ k < i - 1 + Len(new)
  <2>1. PICK m : m = k - (i - 1)
    OBVIOUS
  <2>2. /\ m \in 1..(Len(new) - 1) /\ m \in 1..Len(new) /\ m + 1 \in 1..Len(new)
        /\ k = i - 1 + m /\ k + 1 = i - 1 + (m + 1)
    BY <1>1, <1>3, <1>7, <2>1
  <2>3. r[k] = new[m] /\ r[k + 1] = new[m + 1]
    BY <1>2, <2>2
  <2> QED BY <2>2, <2>3 DEF MergedBut
<1>8. CASE k = i - 1 + Len(new)
  <2>1. /\ Len(new) \in 1..Len(new) /\ 1 \in 1..(Len(bs) - j) /\ j \in 1..(Len(bs) - 1)
        /\ k + 1 = i - 1 + Len(new) + 1
    BY <1>1, <1>2, <1>3, <1>8
  <2>2. r[k] = new[Len(new)] /\ r[k + 1] = bs[j + 1]
    BY <1>2, <1>8, <2>1
  <2>3. Meets(h, bs[j], bs[j + 1])
    BY <2>2 DEF Meets, Flush
  <2>4. j \notin S
    BY <1>1
  <2> QED BY <1>4, <2>1, <2>3, <2>4
<1>9. CASE k > i - 1 + Len(new)
  <2>1. PICK m : m = k - (i - 1) - Len(new)
    OBVIOUS
  <2>2. /\ m \in 1..(Len(bs) - j) /\ m + 1 \in 1..(Len(bs) - j) /\ j + m \in 1..(Len(bs) - 1)
        /\ k = i - 1 + Len(new) + m /\ k + 1 = i - 1 + Len(new) + (m + 1) /\ ~(j + m < j)
        /\ j + (m + 1) = (j + m) + 1
    BY <1>1, <1>2, <1>3, <1>9, <2>1
  <2>3. r[k] = bs[j + m] /\ r[k + 1] = bs[(j + m) + 1]
    BY <1>2, <2>2
  <2>4. j + m \notin S
    BY <2>2
  <2> QED BY <1>4, <2>2, <2>3, <2>4
<1> QED BY <1>1, <1>3, <1>5, <1>6, <1>7, <1>8, <1>9

-----------------------------------------------------------------------------
(* What the operations do to a list *)

\* x is in one of the two blocks of a block of m bytes at p that is cut behind n.
InOneOf(h, p, m, n, x) ==
  /\ p <= x /\ x < p + h + m <=>
       \/ p <= x /\ x < p + h + n
       \/ p + n + h <= x /\ x < p + n + h + h + (m - n - h)
  /\ ~(x < p + h + n /\ p + n + h <= x)

LEMMA CutRange ==
  ASSUME NEW h \in Nat, NEW p \in Nat, NEW m \in Nat, NEW n \in Nat, m >= n + h, NEW x \in Int
  PROVE  InOneOf(h, p, m, n, x)
BY DEF InOneOf

\* A free block cut in two.
LEMMA CutKeeps ==
  ASSUME NEW h \in Nat \ {0}, NEW bs, Well(h, bs), NEW i \in 1..Len(bs),
         NEW n \in Nat, bs[i].size >= n + h, NEW r, r = List(h)!Cut(bs, i, n)
  PROVE  /\ Kept(h, bs, r)
         /\ bs[i].free /\ MergedBut(h, bs, {}) => MergedBut(h, r, {})
         /\ bs[i].free => \A a : a \in List(h)!Occupied(r) <=> a \in List(h)!Occupied(bs) \/ a = bs[i].addr
<1>1. bs \in Seq(Blk) /\ DOMAIN bs = 1..Len(bs)
  BY DEF Well
<1>2. PICK b \in Blk : b = bs[i]
  BY <1>1
<1>3. b.addr \in Nat /\ b.size \in Nat /\ b.free \in BOOLEAN /\ b.size >= n + h
  BY <1>2 DEF Blk
<1>4. PICK c : c = [addr |-> b.addr, size |-> n, free |-> FALSE]
  OBVIOUS
<1>5. PICK d : d = [addr |-> b.addr + n + h, size |-> b.size - n - h, free |-> TRUE]
  OBVIOUS
<1>6. /\ c \in Blk /\ c.addr = b.addr /\ c.size = n /\ ~c.free
      /\ d \in Blk /\ d.addr = b.addr + n + h /\ d.size = b.size - n - h /\ d.free
  BY <1>3, <1>4, <1>5 DEF Blk
<1>7. PICK new : new = <<c, d>>
  OBVIOUS
<1>8. new \in Seq(Blk) /\ Len(new) = 2 /\ new[1] = c /\ new[2] = d
  BY <1>6, <1>7
<1>9. r = List(h)!Replaced(bs, i, i, new)
  BY <1>2, <1>4, <1>5, <1>7 DEF List!Cut, List!CutAs, List!Block
<1>10. Exchanged(bs, i, i, new, r)
  BY <1>1, <1>8, <1>9, ReplacedAt
<1>11. ASSUME NEW x
       PROVE  /\ Holds(h, b, x) <=> Holds(h, c, x) \/ Holds(h, d, x)
              /\ ~(Holds(h, c, x) /\ Holds(h, d, x))
  <2>1. Holds(h, b, x) <=> x \in Int /\ b.addr <= x /\ x < b.addr + h + b.size
    BY DEF Holds
  <2>2. Holds(h, c, x) <=> x \in Int /\ b.addr <= x /\ x < b.addr + h + n
    BY <1>6 DEF Holds
  <2>3. Holds(h, d, x) <=> x \in Int /\ b.addr + n + h <= x /\ x < b.addr + n + h + h + (b.size - n - h)
    BY <1>6 DEF Holds
  <2>4. CASE x \in Int
    <3>1. h \in Nat /\ b.addr \in Nat /\ b.size \in Nat /\ b.size >= n + h
      BY <1>3, Zenon
    <3>2. InOneOf(h, b.addr, b.size, n, x)
      BY <2>4, <3>1, CutRange
    <3> QED BY <2>1, <2>2, <2>3, <2>4, <3>2, Zenon DEF InOneOf
  <2> QED BY <2>1, <2>2, <2>3, <2>4, Zenon
<1>12. Single(h, new)
  <2> SUFFICES ASSUME NEW k \in 1..Len(new), NEW l \in 1..Len(new), NEW x, Holds(h, new[k], x), Holds(h, new[l], x)
               PROVE  k = l
    BY DEF Single
  <2> QED BY <1>8, <1>11
<1>13. Covers(h, new, bs, i, i)
  <2>1. i..i = {i} /\ 1..Len(new) = {1, 2}
    BY <1>8
  <2> QED BY <1>2, <1>8, <1>11, <2>1 DEF Covers
<1>14. Kept(h, bs, r)
  BY <1>8, <1>9, <1>12, <1>13, ReplacedKeeps DEF Kept
<1>15. ASSUME bs[i].free, MergedBut(h, bs, {}) PROVE MergedBut(h, r, {})
  <2>1. Flush(h, new, bs, i, i)
    <3>1. List(h)!End(d) = List(h)!End(b)
      BY <1>3, <1>6 DEF List!End
    <3> QED BY <1>2, <1>6, <1>8, <1>15, <3>1 DEF Flush
  <2>2. MergedBut(h, new, {})
    <3>1. \A k \in 1..(Len(new) - 1) : k = 1
      BY <1>8
    <3> QED BY <1>6, <1>8, <3>1 DEF MergedBut, Meets
  <2>3. MergedBut(h, r, {k \in {} : k < i})
    <3>1. \A k \in {} : k \in Int /\ k < i
      OBVIOUS
    <3> QED BY <1>1, <1>10, <1>15, <2>1, <2>2, <3>1, ReplacedMerged
  <2> QED BY <2>3 DEF MergedBut
<1>16. ASSUME bs[i].free, NEW a
       PROVE  a \in List(h)!Occupied(r) <=> a \in List(h)!Occupied(bs) \/ a = bs[i].addr
  <2>1. a \in List(h)!Occupied(r) <=>
           \/ \E m \in (1..Len(bs)) \ (i..i) : UsedAt(bs[m], a)
           \/ \E m \in 1..Len(new) : UsedAt(new[m], a)
    BY <1>1, <1>8, <1>10, ReplacedOccupied
  <2>2. (\E m \in 1..Len(new) : UsedAt(new[m], a)) <=> a = b.addr
    <3>1. 1..Len(new) = {1, 2}
      BY <1>8
    <3> QED BY <1>6, <1>8, <3>1 DEF UsedAt
  <2>3. a \in List(h)!Occupied(bs) <=> \E m \in (1..Len(bs)) \ (i..i) : UsedAt(bs[m], a)
    <3>1. i..i = {i}
      OBVIOUS
    <3> QED BY <1>1, <1>16, <3>1 DEF List!Occupied, UsedAt
  <2> QED BY <1>2, <2>1, <2>2, <2>3
<1> QED BY <1>14, <1>15, <1>16

\* A block whose mark changes.
MarksIn(h, bs, i, f, r) ==
  /\ Kept(h, bs, r) /\ Len(r) = Len(bs)
  /\ ~f /\ MergedBut(h, bs, {}) => MergedBut(h, r, {})
  /\ MergedBut(h, bs, {}) => MergedBut(h, r, {i - 1, i})
  /\ ~f /\ bs[i].free =>
       \A a : a \in List(h)!Occupied(r) <=> a \in List(h)!Occupied(bs) \/ a = bs[i].addr
  /\ f /\ ~bs[i].free =>
       \A a : a \in List(h)!Occupied(r) <=> a \in List(h)!Occupied(bs) /\ a # bs[i].addr

LEMMA MarkedKeeps ==
  ASSUME NEW h \in Nat \ {0}, NEW bs, Well(h, bs), NEW i \in 1..Len(bs), NEW f \in BOOLEAN,
         NEW r, r = [bs EXCEPT ![i].free = f]
  PROVE  MarksIn(h, bs, i, f, r)
<1>1. bs \in Seq(Blk) /\ DOMAIN bs = 1..Len(bs) /\ Single(h, bs)
  BY OneHolds DEF Well
<1>2. PICK b \in Blk : b = bs[i]
  BY <1>1
<1>3. PICK c : c = [b EXCEPT !.free = f]
  OBVIOUS
<1>4. b.addr \in Nat /\ b.size \in Nat /\ b.free \in BOOLEAN
  BY DEF Blk
<1>5. c = [addr |-> b.addr, size |-> b.size, free |-> f]
  BY <1>3 DEF Blk
<1>6. c \in Blk /\ c.addr = b.addr /\ c.size = b.size /\ c.free = f
  BY <1>4, <1>5 DEF Blk
<1>7. r = [bs EXCEPT ![i] = c]
  BY <1>2, <1>3
<1>8. /\ r \in Seq(Blk) /\ Len(r) = Len(bs) /\ DOMAIN r = 1..Len(bs)
      /\ \A k \in 1..Len(bs) : r[k] = IF k = i THEN c ELSE bs[k]
  BY <1>1, <1>6, <1>7
<1>9. ASSUME NEW k \in 1..Len(bs) PROVE r[k].addr = bs[k].addr /\ r[k].size = bs[k].size
  BY <1>2, <1>6, <1>8
<1>10. ASSUME NEW k \in 1..Len(bs), NEW x PROVE Holds(h, r[k], x) <=> Holds(h, bs[k], x)
  BY <1>9 DEF Holds
<1>11. Single(h, r)
  BY <1>1, <1>8, <1>10 DEF Single
<1>12. Kept(h, bs, r)
  <2>1. Well(h, r)
    BY <1>8, <1>11, WellHolds
  <2>2. \A x : x \in List(h)!Bytes(r) <=> x \in List(h)!Bytes(bs)
    BY <1>1, <1>8, <1>10, BytesHeld
  <2>3. List(h)!Bytes(r) = List(h)!Bytes(bs)
    BY <2>2 DEF List!Bytes
  <2> QED BY <2>1, <2>3 DEF Kept
<1>13. ASSUME NEW k \in 1..(Len(bs) - 1), ~Meets(h, bs[k], bs[k + 1]), ~f \/ k \notin {i - 1, i}
       PROVE  ~Meets(h, r[k], r[k + 1])
  <2>1. k \in 1..Len(bs) /\ k + 1 \in 1..Len(bs)
    BY <1>1
  <2>2. List(h)!End(r[k]) = List(h)!End(bs[k]) /\ r[k + 1].addr = bs[k + 1].addr
    BY <1>9, <2>1 DEF List!End
  <2>3. CASE ~f
    <3>1. (r[k].free => bs[k].free) /\ (r[k + 1].free => bs[k + 1].free)
      BY <1>2, <1>6, <1>8, <2>1, <2>3
    <3> QED BY <1>13, <2>2, <3>1 DEF Meets
  <2>4. CASE k \notin {i - 1, i}
    <3>1. r[k] = bs[k] /\ r[k + 1] = bs[k + 1]
      BY <1>8, <2>1, <2>4
    <3> QED BY <1>13, <3>1
  <2> QED BY <1>13, <2>3, <2>4
<1>14. ASSUME NEW a PROVE a \in List(h)!Occupied(r) <=> \E k \in 1..Len(bs) : UsedAt(r[k], a)
  BY <1>8 DEF List!Occupied, UsedAt
<1>15. ASSUME NEW a PROVE a \in List(h)!Occupied(bs) <=> \E k \in 1..Len(bs) : UsedAt(bs[k], a)
  BY <1>1 DEF List!Occupied, UsedAt
<1>16. ASSUME NEW k \in 1..Len(bs), bs[k].addr = b.addr PROVE k = i
  <2>1. PICK d \in Blk : d = bs[k]
    BY <1>1
  <2>2. Holds(h, d, b.addr) /\ Holds(h, b, b.addr)
    <3>1. d.addr \in Nat /\ d.size \in Nat /\ d.addr = b.addr
      BY <1>16, <2>1 DEF Blk
    <3> QED BY <1>4, <3>1 DEF Holds
  <2> QED BY <1>1, <1>2, <2>1, <2>2 DEF Single
<1>17. ASSUME NEW k \in 1..Len(bs), NEW a, k # i PROVE UsedAt(r[k], a) <=> UsedAt(bs[k], a)
  BY <1>8, <1>17
<1>18. ASSUME NEW a PROVE UsedAt(r[i], a) <=> ~f /\ a = b.addr
  BY <1>6, <1>8 DEF UsedAt
<1>19. ASSUME NEW a PROVE UsedAt(bs[i], a) <=> ~b.free /\ a = b.addr
  BY <1>2 DEF UsedAt
<1>20. ASSUME ~f, bs[i].free, NEW a
       PROVE  a \in List(h)!Occupied(r) <=> a \in List(h)!Occupied(bs) \/ a = bs[i].addr
  BY <1>2, <1>14, <1>15, <1>17, <1>18, <1>19, <1>20
<1>21. ASSUME f, ~bs[i].free, NEW a
       PROVE  a \in List(h)!Occupied(r) <=> a \in List(h)!Occupied(bs) /\ a # bs[i].addr
  <2>1. ASSUME NEW k \in 1..Len(bs), UsedAt(bs[k], b.addr) PROVE k = i
    BY <1>16, <2>1 DEF UsedAt
  <2>2. ASSUME NEW k \in 1..Len(bs), UsedAt(r[k], a) PROVE UsedAt(bs[k], a) /\ a # b.addr
    BY <1>17, <1>18, <1>21, <2>1, <2>2
  <2>3. ASSUME NEW k \in 1..Len(bs), UsedAt(bs[k], a), a # b.addr PROVE UsedAt(r[k], a)
    BY <1>17, <1>19, <2>3
  <2> QED BY <1>2, <1>14, <1>15, <2>2, <2>3
<1>22. ~f /\ MergedBut(h, bs, {}) => MergedBut(h, r, {})
  BY <1>8, <1>13 DEF MergedBut
<1>23. MergedBut(h, bs, {}) => MergedBut(h, r, {i - 1, i})
  BY <1>8, <1>13 DEF MergedBut
<1> QED BY <1>8, <1>12, <1>20, <1>21, <1>22, <1>23, Zenon DEF MarksIn

LEMMA JoinedRange ==
  ASSUME NEW h \in Nat, NEW p \in Nat, NEW m \in Nat, NEW q \in Nat, NEW n \in Nat, p + h + m = q
  PROVE  \A x \in Int : p <= x /\ x < p + h + (m + h + n) <=>
                          (p <= x /\ x < p + h + m) \/ (q <= x /\ x < q + h + n)
  OBVIOUS

LEMMA JoinedEnd ==
  \A h, p, m, n \in Nat : p + h + (m + h + n) = (p + h + m) + h + n
OBVIOUS

\* A free block and the free one behind it, as one; all else as it was.
LEMMA AbsorbedKeeps ==
  ASSUME NEW h \in Nat \ {0}, NEW bs, Well(h, bs), NEW i \in 1..Len(bs),
         NEW r, r = List(h)!Absorbed(bs, i)
  PROVE  /\ Kept(h, bs, r) /\ Len(r) \in Nat /\ i <= Len(r)
         /\ List(h)!Occupied(r) = List(h)!Occupied(bs)
         /\ \A S : (\A k \in S : k \in Int /\ k <= i) /\ MergedBut(h, bs, S)
                     => MergedBut(h, r, {k \in S : k < i})
<1>1. bs \in Seq(Blk) /\ DOMAIN bs = 1..Len(bs) /\ Len(bs) \in Nat
  BY DEF Well
<1>2. CASE i < Len(bs) /\ Meets(h, bs[i], bs[i + 1])
  <2>1. PICK b \in Blk, c \in Blk : b = bs[i] /\ c = bs[i + 1]
    BY <1>1, <1>2
  <2>2. /\ b.addr \in Nat /\ b.size \in Nat /\ c.addr \in Nat /\ c.size \in Nat
        /\ b.free /\ c.free /\ b.addr + h + b.size = c.addr
    BY <1>2, <2>1 DEF Blk, Meets, List!End
  <2>3. PICK d : d = [addr |-> b.addr, size |-> b.size + h + c.size, free |-> TRUE]
    OBVIOUS
  <2>4. d \in Blk /\ d.addr = b.addr /\ d.size = b.size + h + c.size /\ d.free
    BY <2>2, <2>3 DEF Blk
  <2>5. PICK new : new = <<d>>
    OBVIOUS
  <2>6. new \in Seq(Blk) /\ Len(new) = 1 /\ new[1] = d /\ 1..Len(new) = {1}
    BY <2>4, <2>5
  <2>7. r = List(h)!Replaced(bs, i, i + 1, new)
    BY <1>2, <2>1, <2>3, <2>5 DEF List!Absorbed, List!Joined, List!Block, Meets
  <2>8. i + 1 \in i..Len(bs) /\ i..(i + 1) = {i, i + 1}
    BY <1>2
  <2>9. Exchanged(bs, i, i + 1, new, r)
    BY <1>1, <2>6, <2>7, <2>8, ReplacedAt
  <2>10. ASSUME NEW x PROVE Holds(h, d, x) <=> Holds(h, b, x) \/ Holds(h, c, x)
    <3>1. Holds(h, d, x) <=> x \in Int /\ b.addr <= x /\ x < b.addr + h + (b.size + h + c.size)
      BY <2>4 DEF Holds
    <3>2. Holds(h, b, x) <=> x \in Int /\ b.addr <= x /\ x < b.addr + h + b.size
      BY DEF Holds
    <3>3. Holds(h, c, x) <=> x \in Int /\ c.addr <= x /\ x < c.addr + h + c.size
      BY DEF Holds
    <3>4. CASE x \in Int
      <4>1. b.addr \in Nat /\ b.size \in Nat /\ c.addr \in Nat /\ c.size \in Nat /\ b.addr + h + b.size = c.addr
        BY <2>2, Zenon
      <4>2. b.addr <= x /\ x < b.addr + h + (b.size + h + c.size) <=>
              \/ b.addr <= x /\ x < b.addr + h + b.size
              \/ c.addr <= x /\ x < c.addr + h + c.size
        BY <3>4, <4>1, JoinedRange
      <4> QED BY <3>1, <3>2, <3>3, <3>4, <4>2, Zenon
    <3> QED BY <3>1, <3>2, <3>3, <3>4, Zenon
  <2>11. Single(h, new)
    BY <2>6 DEF Single
  <2>12. Covers(h, new, bs, i, i + 1)
    BY <2>1, <2>6, <2>8, <2>10 DEF Covers
  <2>13. Kept(h, bs, r)
    BY <2>6, <2>7, <2>8, <2>11, <2>12, ReplacedKeeps DEF Kept
  <2>14. Len(r) = Len(bs) - 1
    BY <1>1, <2>6, <2>9 DEF Exchanged
  <2>15. List(h)!Occupied(r) = List(h)!Occupied(bs)
    <3>1. ASSUME NEW a PROVE a \in List(h)!Occupied(r) <=> a \in List(h)!Occupied(bs)
      <4>1. a \in List(h)!Occupied(r) <=>
              \/ \E m \in (1..Len(bs)) \ (i..(i + 1)) : UsedAt(bs[m], a)
              \/ \E m \in 1..Len(new) : UsedAt(new[m], a)
        BY <1>1, <2>6, <2>8, <2>9, ReplacedOccupied
      <4>2. ~ \E m \in 1..Len(new) : UsedAt(new[m], a)
        BY <2>4, <2>6 DEF UsedAt
      <4>3. a \in List(h)!Occupied(bs) <=> \E m \in 1..Len(bs) : UsedAt(bs[m], a)
        BY <1>1 DEF List!Occupied, UsedAt
      <4>4. \A m \in i..(i + 1) : ~UsedAt(bs[m], a)
        BY <2>1, <2>2, <2>8 DEF UsedAt
      <4> QED BY <4>1, <4>2, <4>3, <4>4
    <3> QED BY <3>1 DEF List!Occupied
  <2>16. ASSUME NEW S, \A k \in S : k \in Int /\ k <= i, MergedBut(h, bs, S)
         PROVE  MergedBut(h, r, {k \in S : k < i})
    <3>1. Flush(h, new, bs, i, i + 1)
      <4>1. List(h)!End(d) = b.addr + h + (b.size + h + c.size) /\ List(h)!End(c) = c.addr + h + c.size
        BY <2>4, Zenon DEF List!End
      <4>2. b.addr + h + (b.size + h + c.size) = (b.addr + h + b.size) + h + c.size
        BY <2>2, JoinedEnd
      <4>3. List(h)!End(d) = List(h)!End(c)
        BY <2>2, <4>1, <4>2, Zenon
      <4> QED BY <2>1, <2>2, <2>4, <2>6, <4>3 DEF Flush
    <3>2. MergedBut(h, new, {})
      BY <2>6 DEF MergedBut
    <3>3. \A k \in S : k \in Int /\ k < i + 1
      BY <2>16
    <3> QED BY <1>1, <2>8, <2>9, <2>16, <3>1, <3>2, <3>3, ReplacedMerged
  <2>17. Len(r) \in Nat /\ i <= Len(r)
    BY <1>1, <1>2, <2>14
  <2> QED BY <2>13, <2>15, <2>16, <2>17, Zenon
<1>3. CASE ~(i < Len(bs) /\ Meets(h, bs[i], bs[i + 1]))
  <2>1. r = bs
    BY <1>3 DEF List!Absorbed, Meets
  <2>2. ASSUME NEW S, \A k \in S : k \in Int /\ k <= i, MergedBut(h, bs, S)
        PROVE  MergedBut(h, r, {k \in S : k < i})
    <3> SUFFICES ASSUME NEW k \in 1..(Len(bs) - 1), ~(k \in S /\ k < i)
                 PROVE  ~Meets(h, bs[k], bs[k + 1])
      BY <2>1 DEF MergedBut
    <3>1. CASE k = i
      BY <1>1, <1>3, <3>1
    <3>2. CASE k # i
      <4>1. k \notin S
        BY <2>2, <3>2
      <4> QED BY <2>2, <4>1 DEF MergedBut
    <3> QED BY <3>1, <3>2
  <2>3. Kept(h, bs, r) /\ Len(r) \in Nat /\ i <= Len(r)
    BY <1>1, <2>1 DEF Kept
  <2> QED BY <2>1, <2>2, <2>3, Zenon
<1> QED BY <1>2, <1>3

\* The block at a is free, and with its neighbours if they are.
LEMMA FreedKeeps ==
  ASSUME NEW h \in Nat \ {0}, NEW bs, Well(h, bs), NEW a, List(h)!InUse(bs, a) # {},
         NEW r, r = List(h)!Freed(bs, a)
  PROVE  /\ Kept(h, bs, r)
         /\ \A x : x \in List(h)!Occupied(r) <=> x \in List(h)!Occupied(bs) /\ x # a
         /\ MergedBut(h, bs, {}) => MergedBut(h, r, {})
<1>1. bs \in Seq(Blk) /\ DOMAIN bs = 1..Len(bs) /\ Len(bs) \in Nat
  BY DEF Well
<1>2. PICK i : i = CHOOSE j \in List(h)!InUse(bs, a) : TRUE
  OBVIOUS
<1>3. i \in 1..Len(bs) /\ ~bs[i].free /\ bs[i].addr = a
  BY <1>1, <1>2 DEF List!InUse, List!IndexAt
<1>4. PICK p : p = [bs EXCEPT ![i].free = TRUE]
  OBVIOUS
<1>5. PICK q : q = List(h)!Absorbed(p, i)
  OBVIOUS
<1>6. r = IF i = 1 THEN q ELSE List(h)!Absorbed(q, i - 1)
  BY <1>2, <1>4, <1>5 DEF List!Freed
<1>7. /\ Kept(h, bs, p) /\ Len(p) = Len(bs)
      /\ MergedBut(h, bs, {}) => MergedBut(h, p, {i - 1, i})
      /\ \A x : x \in List(h)!Occupied(p) <=> x \in List(h)!Occupied(bs) /\ x # bs[i].addr
  <2>1. PICK f \in BOOLEAN : f = TRUE
    OBVIOUS
  <2>2. p = [bs EXCEPT ![i].free = f] /\ f /\ ~bs[i].free
    BY <1>3, <1>4, <2>1
  <2>3. MarksIn(h, bs, i, f, p)
    BY <1>3, <2>2, MarkedKeeps
  <2> QED BY <2>2, <2>3, Zenon DEF MarksIn
<1>8. Well(h, p) /\ i \in 1..Len(p)
  BY <1>3, <1>7 DEF Kept
<1>9. /\ Kept(h, p, q) /\ Len(q) \in Nat /\ i <= Len(q)
      /\ List(h)!Occupied(q) = List(h)!Occupied(p)
      /\ \A S : (\A k \in S : k \in Int /\ k <= i) /\ MergedBut(h, p, S)
                  => MergedBut(h, q, {k \in S : k < i})
  BY <1>5, <1>8, AbsorbedKeeps
<1>10. ASSUME MergedBut(h, bs, {}) PROVE MergedBut(h, q, {i - 1})
  <2>1. \A k \in {i - 1, i} : k \in Int /\ k <= i
    BY <1>3
  <2>2. MergedBut(h, q, {k \in {i - 1, i} : k < i})
    BY <1>7, <1>9, <1>10, <2>1
  <2>3. {k \in {i - 1, i} : k < i} = {i - 1}
    BY <1>3
  <2> QED BY <2>2, <2>3
<1>11. CASE i = 1
  <2>1. r = q
    BY <1>6, <1>11
  <2>2. MergedBut(h, bs, {}) => MergedBut(h, r, {})
    <3>1. \A k \in 1..(Len(q) - 1) : k \notin {i - 1}
      BY <1>11
    <3> QED BY <1>10, <2>1, <3>1 DEF MergedBut
  <2> QED BY <1>3, <1>7, <1>9, <2>1, <2>2 DEF Kept
<1>12. CASE i # 1
  <2>1. PICK j : j = i - 1
    OBVIOUS
  <2>2. Well(h, q) /\ j \in 1..Len(q) /\ r = List(h)!Absorbed(q, j)
    BY <1>3, <1>6, <1>9, <1>12, <2>1 DEF Kept
  <2>3. /\ Kept(h, q, r)
        /\ List(h)!Occupied(r) = List(h)!Occupied(q)
        /\ \A S : (\A k \in S : k \in Int /\ k <= j) /\ MergedBut(h, q, S)
                    => MergedBut(h, r, {k \in S : k < j})
    BY <2>2, AbsorbedKeeps
  <2>4. ASSUME MergedBut(h, bs, {}) PROVE MergedBut(h, r, {})
    <3>1. \A k \in {j} : k \in Int /\ k <= j
      BY <1>3, <2>1
    <3>2. MergedBut(h, q, {j})
      BY <1>10, <2>1, <2>4
    <3>3. MergedBut(h, r, {k \in {j} : k < j})
      BY <2>3, <3>1, <3>2
    <3>4. {k \in {j} : k < j} = {}
      BY <3>1
    <3> QED BY <3>3, <3>4
  <2> QED BY <1>3, <1>7, <1>9, <2>3, <2>4 DEF Kept
<1> QED BY <1>11, <1>12

LEMMA BehindRange ==
  ASSUME NEW l \in Nat, NEW m \in Nat, NEW k \in 1..(l + m - 1), k > l
  PROVE  \E j \in 1..(m - 1) : j \in 1..m /\ j + 1 \in 1..m /\ k = l + j /\ k + 1 = l + (j + 1)
<1>1. k - l \in 1..(m - 1) /\ k - l \in 1..m /\ (k - l) + 1 \in 1..m
  OBVIOUS
<1>2. k = l + (k - l) /\ k + 1 = l + ((k - l) + 1)
  OBVIOUS
<1> QED BY <1>1, <1>2, Zenon

\* New blocks behind the last.
AppendedIn(h, bs, new, r) ==
  /\ Well(h, r)
  /\ List(h)!Bytes(r) = List(h)!Bytes(bs) \cup List(h)!Bytes(new)
  /\ List(h)!Occupied(r) = List(h)!Occupied(bs) \cup List(h)!Occupied(new)
  /\ MergedBut(h, bs, {}) /\ MergedBut(h, new, {}) => MergedBut(h, r, {})

LEMMA AppendedKeeps ==
  ASSUME NEW h \in Nat \ {0}, NEW bs, Well(h, bs), NEW new, Well(h, new),
         Len(new) >= 1, ~new[1].free, List(h)!Bytes(bs) \cap List(h)!Bytes(new) = {},
         NEW r, r = bs \o new
  PROVE  AppendedIn(h, bs, new, r)
<1>1. /\ bs \in Seq(Blk) /\ DOMAIN bs = 1..Len(bs) /\ Len(bs) \in Nat /\ Single(h, bs)
      /\ new \in Seq(Blk) /\ DOMAIN new = 1..Len(new) /\ Len(new) \in Nat /\ Single(h, new)
  BY OneHolds DEF Well
<1>2. /\ r \in Seq(Blk) /\ Len(r) = Len(bs) + Len(new) /\ DOMAIN r = 1..(Len(bs) + Len(new))
      /\ \A k \in 1..(Len(bs) + Len(new)) : r[k] = IF k <= Len(bs) THEN bs[k] ELSE new[k - Len(bs)]
  BY <1>1, ConcatProperties
<1>3. \A k \in 1..Len(bs) : k \in 1..Len(r) /\ r[k] = bs[k]
  BY <1>1, <1>2
<1>4. \A k \in 1..Len(new) : Len(bs) + k \in 1..Len(r) /\ r[Len(bs) + k] = new[k]
  <2> SUFFICES ASSUME NEW k \in 1..Len(new) PROVE Len(bs) + k \in 1..Len(r) /\ r[Len(bs) + k] = new[k]
    OBVIOUS
  <2>1. PICK l : l = Len(bs) + k
    OBVIOUS
  <2>2. l \in 1..Len(r) /\ ~(l <= Len(bs)) /\ l - Len(bs) = k
    BY <1>1, <1>2, <2>1
  <2> QED BY <1>2, <2>1, <2>2
<1>5. ASSUME NEW k \in 1..Len(r)
      PROVE  k \in 1..Len(bs) \/ \E l \in 1..Len(new) : k = Len(bs) + l
  <2>1. CASE k <= Len(bs)
    BY <1>1, <2>1
  <2>2. CASE k > Len(bs)
    <3>1. k - Len(bs) \in 1..Len(new) /\ k = Len(bs) + (k - Len(bs))
      BY <1>1, <1>2, <2>2
    <3> QED BY <3>1
  <2> QED BY <1>1, <2>1, <2>2
<1>6. ASSUME NEW x
      PROVE  x \in List(h)!Bytes(r) <=> x \in List(h)!Bytes(bs) \/ x \in List(h)!Bytes(new)
  <2>1. x \in List(h)!Bytes(r) <=> \E k \in 1..Len(r) : Holds(h, r[k], x)
    BY <1>2, BytesHeld
  <2>2. x \in List(h)!Bytes(bs) <=> \E k \in 1..Len(bs) : Holds(h, bs[k], x)
    BY <1>1, BytesHeld
  <2>3. x \in List(h)!Bytes(new) <=> \E k \in 1..Len(new) : Holds(h, new[k], x)
    BY <1>1, BytesHeld
  <2> QED BY <1>3, <1>4, <1>5, <2>1, <2>2, <2>3
<1>7. List(h)!Bytes(r) = List(h)!Bytes(bs) \cup List(h)!Bytes(new)
  BY <1>6, Zenon DEF List!Bytes
<1>8. Single(h, r)
  <2> SUFFICES ASSUME NEW k \in 1..Len(r), NEW l \in 1..Len(r), NEW x, Holds(h, r[k], x), Holds(h, r[l], x)
               PROVE  k = l
    BY DEF Single
  <2>1. ~(x \in List(h)!Bytes(bs) /\ x \in List(h)!Bytes(new))
    OBVIOUS
  <2>2. \A m \in 1..Len(bs) : Holds(h, bs[m], x) => x \in List(h)!Bytes(bs)
    BY <1>1, BytesHeld
  <2>3. \A m \in 1..Len(new) : Holds(h, new[m], x) => x \in List(h)!Bytes(new)
    BY <1>1, BytesHeld
  <2>4. CASE k \in 1..Len(bs) /\ l \in 1..Len(bs)
    BY <1>1, <1>3, <2>4 DEF Single
  <2>5. CASE \E m, n \in 1..Len(new) : k = Len(bs) + m /\ l = Len(bs) + n
    BY <1>1, <1>4, <2>5 DEF Single
  <2>6. CASE k \in 1..Len(bs) /\ \E n \in 1..Len(new) : l = Len(bs) + n
    BY <1>3, <1>4, <2>1, <2>2, <2>3, <2>6
  <2>7. CASE l \in 1..Len(bs) /\ \E n \in 1..Len(new) : k = Len(bs) + n
    BY <1>3, <1>4, <2>1, <2>2, <2>3, <2>7
  <2> QED BY <1>5, <2>4, <2>5, <2>6, <2>7
<1>9. ASSUME NEW a
      PROVE  a \in List(h)!Occupied(r) <=> a \in List(h)!Occupied(bs) \/ a \in List(h)!Occupied(new)
  <2>1. a \in List(h)!Occupied(r) <=> \E k \in 1..Len(r) : UsedAt(r[k], a)
    BY <1>2 DEF List!Occupied, UsedAt
  <2>2. a \in List(h)!Occupied(bs) <=> \E k \in 1..Len(bs) : UsedAt(bs[k], a)
    BY <1>1 DEF List!Occupied, UsedAt
  <2>3. a \in List(h)!Occupied(new) <=> \E k \in 1..Len(new) : UsedAt(new[k], a)
    BY <1>1 DEF List!Occupied, UsedAt
  <2> QED BY <1>3, <1>4, <1>5, <2>1, <2>2, <2>3
<1>10. List(h)!Occupied(r) = List(h)!Occupied(bs) \cup List(h)!Occupied(new)
  BY <1>9, Zenon DEF List!Occupied
<1>11. ASSUME MergedBut(h, bs, {}), MergedBut(h, new, {}) PROVE MergedBut(h, r, {})
  <2> SUFFICES ASSUME NEW k \in 1..(Len(r) - 1), Meets(h, r[k], r[k + 1]) PROVE FALSE
    BY DEF MergedBut
  <2>1. CASE k < Len(bs)
    <3>1. k \in 1..Len(bs) /\ k + 1 \in 1..Len(bs) /\ k \in 1..(Len(bs) - 1)
      BY <1>1, <1>2, <2>1
    <3> QED BY <1>3, <1>11, <3>1 DEF MergedBut
  <2>2. CASE k = Len(bs)
    <3>1. 1 \in 1..Len(new) /\ r[k + 1] = new[1]
      BY <1>1, <1>4, <2>2
    <3> QED BY <3>1 DEF Meets
  <2>3. CASE k > Len(bs)
    <3>1. Len(bs) \in Nat /\ Len(new) \in Nat /\ k \in 1..(Len(bs) + Len(new) - 1)
      BY <1>1, <1>2
    <3>2. PICK m \in 1..(Len(new) - 1) : /\ m \in 1..Len(new) /\ m + 1 \in 1..Len(new)
                                         /\ k = Len(bs) + m /\ k + 1 = Len(bs) + (m + 1)
      BY <2>3, <3>1, BehindRange
    <3>3. r[k] = new[m] /\ r[k + 1] = new[m + 1]
      BY <1>4, <3>2
    <3> QED BY <1>11, <3>2, <3>3 DEF MergedBut
  <2>4. k \in Int /\ Len(bs) \in Int
    BY <1>1, <1>2
  <2> QED BY <2>1, <2>2, <2>3, <2>4
<1>12. Well(h, r)
  BY <1>2, <1>8, WellHolds
<1> QED BY <1>7, <1>10, <1>11, <1>12, Zenon DEF AppendedIn

-----------------------------------------------------------------------------
(* Pages of memory *)

LEMMA Times == \A P \in Nat, a, b \in Int : a <= b => a * P <= b * P
<1> SUFFICES ASSUME NEW P \in Nat, NEW a \in Int, NEW b \in Int, a <= b PROVE a * P <= b * P
  OBVIOUS
<1>1. b - a \in Nat
  OBVIOUS
<1>2. (b - a) * P \in Nat
  BY <1>1
<1>3. b * P = a * P + (b - a) * P
  OBVIOUS
<1>4. a * P \in Int /\ b * P \in Int
  OBVIOUS
<1> QED BY <1>2, <1>3, <1>4

\* A byte is in one page.
InPage(x, p, P) == x \in Int /\ p * P <= x /\ x <= p * P + P - 1

LEMMA OnePage ==
  ASSUME NEW P \in Nat \ {0}, NEW p \in Nat, NEW q \in Nat, NEW x, InPage(x, p, P), InPage(x, q, P)
  PROVE  p = q
<1>1. ASSUME NEW a \in Nat, NEW b \in Nat, a < b, InPage(x, a, P), InPage(x, b, P) PROVE FALSE
  <2>1. (a + 1) * P <= b * P
    BY <1>1, Times
  <2>2. (a + 1) * P = a * P + P
    OBVIOUS
  <2>3. a * P \in Int /\ b * P \in Int
    OBVIOUS
  <2> QED BY <1>1, <2>1, <2>2, <2>3 DEF InPage
<1> QED BY <1>1

\* Every byte from 0 on is in one.
LEMMA SomePage ==
  ASSUME NEW P \in Nat \ {0}, NEW x \in Nat
  PROVE  \E p \in Nat : InPage(x, p, P)
<1> DEFINE T == {q \in Nat : x < (q + 1) * P}
<1>1. x \in T
  <2>1. (x + 1) * 1 <= (x + 1) * P
    <3>1. 1 * (x + 1) <= P * (x + 1)
      BY Times
    <3>2. 1 * (x + 1) = (x + 1) * 1 /\ P * (x + 1) = (x + 1) * P
      OBVIOUS
    <3> QED BY <3>1, <3>2
  <2>2. (x + 1) * P \in Int /\ (x + 1) * 1 = x + 1
    OBVIOUS
  <2> QED BY <2>1, <2>2
<1>2. PICK m \in T : \A k \in T : m <= k
  <2>1. T \subseteq Nat /\ T # {}
    BY <1>1
  <2> HIDE DEF T
  <2> QED BY <2>1, LeastNatural
<1>3. m \in Nat /\ x < (m + 1) * P /\ (m + 1) * P = m * P + P /\ m * P \in Int
  BY <1>2
<1>4. m * P <= x
  <2>1. CASE m = 0
    <3>1. 0 * P = 0
      OBVIOUS
    <3> QED BY <2>1, <3>1
  <2>2. CASE m # 0
    <3>1. m - 1 \in Nat /\ (m - 1) + 1 = m /\ ~(m <= m - 1)
      BY <1>3, <2>2
    <3>2. ~(x < m * P)
      BY <1>2, <3>1
    <3> QED BY <1>3, <3>2
  <2> QED BY <2>1, <2>2
<1> QED BY <1>3, <1>4 DEF InPage

LEMMA MemoryPages ==
  ASSUME NEW h, NEW P \in Nat \ {0}, NEW ps
  PROVE  \A x : x \in List(h)!Memory(ps, P) <=> \E p \in ps : x \in (p * P)..(p * P + P - 1)
  BY DEF List!Memory

LEMMA InPageRange ==
  ASSUME NEW P \in Nat \ {0}, NEW p \in Nat
  PROVE  \A x : x \in (p * P)..(p * P + P - 1) <=> InPage(x, p, P)
<1>1. p * P \in Int
  OBVIOUS
<1> QED BY <1>1 DEF InPage

\* Pages one behind another are a range of bytes.
LEMMA PagesRange ==
  ASSUME NEW h, NEW P \in Nat \ {0}, NEW p \in Nat, NEW k \in Int
  PROVE  \A x : x \in List(h)!Memory(p..(p + k - 1), P) <=> x \in Int /\ p * P <= x /\ x < p * P + k * P
<1> SUFFICES ASSUME NEW x
             PROVE  x \in List(h)!Memory(p..(p + k - 1), P) <=> x \in Int /\ p * P <= x /\ x < p * P + k * P
  OBVIOUS
<1>1. p * P \in Int /\ k * P \in Int /\ (p + k) * P = p * P + k * P /\ p * P >= 0
  OBVIOUS
<1>2. x \in List(h)!Memory(p..(p + k - 1), P) <=> \E q \in p..(p + k - 1) : InPage(x, q, P)
  <2>1. \A q \in p..(p + k - 1) : q \in Nat
    OBVIOUS
  <2> QED BY <2>1, MemoryPages, InPageRange
<1>3. ASSUME NEW q \in p..(p + k - 1), InPage(x, q, P) PROVE x \in Int /\ p * P <= x /\ x < p * P + k * P
  <2>1. p * P <= q * P /\ (q + 1) * P <= (p + k) * P
    BY Times
  <2>2. (q + 1) * P = q * P + P /\ q * P \in Int
    OBVIOUS
  <2> QED BY <1>1, <1>3, <2>1, <2>2 DEF InPage
<1>4. ASSUME x \in Int, p * P <= x, x < p * P + k * P PROVE \E q \in p..(p + k - 1) : InPage(x, q, P)
  <2>1. x \in Nat
    BY <1>1, <1>4
  <2>2. PICK q \in Nat : InPage(x, q, P)
    BY <2>1, SomePage
  <2>3. q * P \in Int /\ (q + 1) * P = q * P + P
    OBVIOUS
  <2>4. ~(q < p)
    <3>1. q < p => (q + 1) * P <= p * P
      BY Times
    <3> QED BY <1>1, <1>4, <2>2, <2>3, <3>1 DEF InPage
  <2>5. ~(q > p + k - 1)
    <3>1. q > p + k - 1 => (p + k) * P <= q * P
      BY Times
    <3> QED BY <1>1, <1>4, <2>2, <2>3, <3>1 DEF InPage
  <2> QED BY <2>2, <2>4, <2>5
<1> QED BY <1>2, <1>3, <1>4

\* Sets of pages with no page in common have no byte in common.
LEMMA PagesApart ==
  ASSUME NEW h, NEW P \in Nat \ {0}, NEW ps \in SUBSET Nat, NEW qs \in SUBSET Nat, ps \cap qs = {}
  PROVE  List(h)!Memory(ps, P) \cap List(h)!Memory(qs, P) = {}
<1> SUFFICES ASSUME NEW x, x \in List(h)!Memory(ps, P), x \in List(h)!Memory(qs, P) PROVE FALSE
  OBVIOUS
<1>1. PICK p \in ps, q \in qs : InPage(x, p, P) /\ InPage(x, q, P)
  <2>1. PICK p \in ps : x \in (p * P)..(p * P + P - 1)
    BY Zenon DEF List!Memory
  <2>2. PICK q \in qs : x \in (q * P)..(q * P + P - 1)
    BY Zenon DEF List!Memory
  <2>3. p \in Nat /\ q \in Nat
    OBVIOUS
  <2> QED BY <2>1, <2>2, <2>3, InPageRange
<1>2. p = q
  BY <1>1, OnePage
<1> QED BY <1>2

LEMMA PagesTogether ==
  ASSUME NEW h, NEW P, NEW ps, NEW qs
  PROVE  List(h)!Memory(ps \cup qs, P) = List(h)!Memory(ps, P) \cup List(h)!Memory(qs, P)
  BY DEF List!Memory

\* The two blocks that fill the pages of a growth.
GrownIn(h, p, page, k, new) ==
  /\ Well(h, new) /\ Len(new) >= 1 /\ ~new[1].free /\ MergedBut(h, new, {})
  /\ List(h)!Bytes(new) = List(h)!Memory(page..(page + k - 1), p)
  /\ List(h)!Occupied(new) = {page * p}

LEMMA GrownKeeps ==
  ASSUME NEW h \in Nat \ {0}, NEW p \in Nat \ {0}, NEW page \in Nat, NEW k \in Int,
         NEW n \in Nat, NEW rest \in Nat, rest = k * p - n - 2 * h,
         NEW new, new = <<[addr |-> page * p, size |-> n, free |-> FALSE],
                          [addr |-> page * p + h + n, size |-> rest, free |-> TRUE]>>
  PROVE  GrownIn(h, p, page, k, new)
<1>1. PICK b, c : /\ b = [addr |-> page * p, size |-> n, free |-> FALSE]
                  /\ c = [addr |-> page * p + h + n, size |-> rest, free |-> TRUE]
  OBVIOUS
<1>2. page * p \in Nat
  OBVIOUS
<1>3. /\ b.addr = page * p /\ b.size = n /\ b.free = FALSE
      /\ c.addr = page * p + h + n /\ c.size = rest /\ c.free = TRUE
  BY <1>1
<1>4. Len(new) = 2 /\ new[1] = b /\ new[2] = c /\ DOMAIN new = {1, 2}
  BY <1>1
<1>5. b \in Blk /\ c \in Blk
  BY <1>1, <1>2 DEF Blk
<1>6. new \in Seq(Blk) /\ 1..Len(new) = {1, 2}
  BY <1>1, <1>4, <1>5
<1>7. ASSUME NEW x
      PROVE  /\ Holds(h, b, x) \/ Holds(h, c, x) <=> x \in Int /\ page * p <= x /\ x < page * p + k * p
             /\ ~(Holds(h, b, x) /\ Holds(h, c, x))
  <2>1. Holds(h, b, x) <=> x \in Int /\ page * p <= x /\ x < page * p + h + n
    BY <1>3 DEF Holds
  <2>2. Holds(h, c, x) <=> x \in Int /\ page * p + h + n <= x /\ x < page * p + h + n + h + rest
    BY <1>3 DEF Holds
  <2>3. PICK a \in Nat, m \in Int : a = page * p /\ m = k * p
    BY <1>2
  <2>4. a + h + n + h + rest = a + m
    BY <2>3
  <2>5. ASSUME x \in Int
        PROVE  /\ (a <= x /\ x < a + h + n) \/ (a + h + n <= x /\ x < a + h + n + h + rest)
                    <=> a <= x /\ x < a + h + n + h + rest
               /\ ~((a <= x /\ x < a + h + n) /\ (a + h + n <= x /\ x < a + h + n + h + rest))
    BY <2>5
  <2> QED BY <2>1, <2>2, <2>3, <2>4, <2>5
<1>8. Well(h, new)
  <2>1. Single(h, new)
    BY <1>4, <1>6, <1>7 DEF Single
  <2> QED BY <1>6, <2>1, WellHolds
<1>9. List(h)!Bytes(new) = List(h)!Memory(page..(page + k - 1), p)
  <2>1. \A x : x \in List(h)!Bytes(new) <=> \E l \in 1..Len(new) : Holds(h, new[l], x)
    BY <1>6, BytesHeld
  <2>2. \A x : x \in List(h)!Bytes(new) <=> Holds(h, b, x) \/ Holds(h, c, x)
    BY <1>4, <1>6, <2>1
  <2>3. \A x : x \in List(h)!Memory(page..(page + k - 1), p) <=> x \in Int /\ page * p <= x /\ x < page * p + k * p
    BY PagesRange
  <2>4. \A x : x \in List(h)!Bytes(new) <=> x \in List(h)!Memory(page..(page + k - 1), p)
    BY <1>7, <2>2, <2>3, Zenon
  <2> QED BY <2>4, Zenon DEF List!Bytes, List!Memory
<1>10. MergedBut(h, new, {})
  <2>1. \A l \in 1..(Len(new) - 1) : l = 1
    BY <1>4
  <2> QED BY <1>3, <1>4, <2>1 DEF MergedBut, Meets
<1>11. List(h)!Occupied(new) = {page * p}
  BY <1>3, <1>4 DEF List!Occupied
<1>12. Len(new) >= 1 /\ ~new[1].free
  BY <1>3, <1>4
<1> QED BY <1>8, <1>9, <1>10, <1>11, <1>12, Zenon DEF GrownIn

-----------------------------------------------------------------------------
(* The heap of a program *)

H == User.header
P == User.page
Picks == [addr : Nat, n : User.requests, whole : BOOLEAN]

Who == DOMAIN at   \* the program's threads
UTypes ==
  /\ Who \subseteq User.threads
  /\ u_live \subseteq Who \X Nat /\ u_taken \subseteq User.pages
  /\ u_machine \in {"up", "corrupt", "fault", "hung"}
  /\ \A k \in DOMAIN u_blocks : u_blocks[k].free \in BOOLEAN
  /\ \A t \in DOMAIN at : at[t] # <<>> => \E c \in Picks : at[t] = <<c>>

\* While no header was written outside: the bytes of the memory, each in one block.
UTiled == Well(H, u_blocks) /\ List(H)!Bytes(u_blocks) = List(H)!Memory({0} \cup u_taken, P)

\* With one thread, the block chosen in malloc is still free and of its size.
Ready(c) == \E k \in 1..Len(u_blocks) :
  u_blocks[k].addr = c.addr /\ u_blocks[k].free
UOne ==
  /\ MergedBut(H, u_blocks, {})
  /\ u_machine # "hung"
  /\ u_machine = "up" =>
       /\ List(H)!Occupied(u_blocks) = {got[2] : got \in u_live}
       /\ \A t \in DOMAIN at : at[t] # <<>> => Ready(at[t][1])

UInv == /\ UTypes
        /\ u_machine # "corrupt" => UTiled
        /\ Malloc!OneThread /\ u_machine # "corrupt" => UOne
        /\ Malloc!OneThread => u_machine # "hung"

LEMMA Sizes == ASSUME Malloc!UserHeapAssumption
               PROVE  H \in Nat \ {0} /\ P \in Nat \ {0} /\ H <= P
  BY DEF Malloc!UserHeapAssumption, H, P

LEMMA SameLists ==
  /\ \A bs : Malloc!Disjoint(bs) <=> List(H)!Disjoint(bs)
  /\ \A bs : Malloc!Bytes(bs) = List(H)!Bytes(bs)
  /\ \A ps : Malloc!Memory(ps, P) = List(H)!Memory(ps, P)
  /\ \A bs : Malloc!Occupied(bs) = List(H)!Occupied(bs)
  /\ \A bs, i, n : Malloc!Cut(bs, i, n) = List(H)!Cut(bs, i, n)
  /\ \A bs, a : Malloc!InUse(bs, a) = List(H)!InUse(bs, a)
  /\ \A bs, a : Malloc!Freed(bs, a) = List(H)!Freed(bs, a)
<1>1. \A bs : Malloc!Disjoint(bs) <=> List(H)!Disjoint(bs)
  BY DEF H, Malloc!Disjoint, List!Disjoint, Malloc!Overlap, List!Overlap, Malloc!End, List!End
<1>2. \A bs : Malloc!Bytes(bs) = List(H)!Bytes(bs)
  BY DEF H, Malloc!Bytes, List!Bytes, Malloc!End, List!End
<1>3. \A ps : Malloc!Memory(ps, P) = List(H)!Memory(ps, P)
  BY DEF Malloc!Memory, List!Memory
<1>4. \A bs : Malloc!Occupied(bs) = List(H)!Occupied(bs)
  BY DEF Malloc!Occupied, List!Occupied
<1>5. \A bs, i, n : Malloc!Cut(bs, i, n) = List(H)!Cut(bs, i, n)
  BY DEF H, Malloc!Cut, List!Cut, Malloc!CutAs, List!CutAs, Malloc!Replaced, List!Replaced, Malloc!Block, List!Block
<1>6. \A bs, a : Malloc!InUse(bs, a) = List(H)!InUse(bs, a)
  BY DEF Malloc!InUse, List!InUse, Malloc!IndexAt, List!IndexAt
<1>7. \A bs, i : Malloc!Absorbed(bs, i) = List(H)!Absorbed(bs, i)
  BY DEF H, Malloc!Absorbed, List!Absorbed, Malloc!Joined, List!Joined, Malloc!Replaced, List!Replaced,
         Malloc!Block, List!Block, Malloc!End, List!End
<1>8. \A bs, a : Malloc!Freed(bs, a) = List(H)!Freed(bs, a)
  <2> SUFFICES ASSUME NEW bs, NEW a PROVE Malloc!Freed(bs, a) = List(H)!Freed(bs, a)
    OBVIOUS
  <2>1. PICK i : i = CHOOSE j \in List(H)!InUse(bs, a) : TRUE
    OBVIOUS
  <2>2. i = CHOOSE j \in Malloc!InUse(bs, a) : TRUE
    BY <2>1 DEF Malloc!InUse, List!InUse, Malloc!IndexAt, List!IndexAt
  <2>3. PICK p : p = [bs EXCEPT ![i].free = TRUE]
    OBVIOUS
  <2>4. List(H)!Freed(bs, a) = IF i = 1 THEN List(H)!Absorbed(p, i)
                               ELSE List(H)!Absorbed(List(H)!Absorbed(p, i), i - 1)
    BY <2>1, <2>3 DEF List!Freed
  <2>5. Malloc!Freed(bs, a) = IF i = 1 THEN Malloc!Absorbed(p, i)
                              ELSE Malloc!Absorbed(Malloc!Absorbed(p, i), i - 1)
    BY <2>2, <2>3 DEF Malloc!Freed
  <2> QED BY <1>7, <2>4, <2>5
<1> QED BY <1>1, <1>2, <1>3, <1>4, <1>5, <1>6, <1>8, Zenon

\* In a tiled heap a byte of memory is in one block, and so is the first of each.
LEMMA AddressOnce ==
  ASSUME NEW h \in Nat \ {0}, NEW bs, Well(h, bs), NEW i \in 1..Len(bs), NEW j \in 1..Len(bs),
         bs[i].addr = bs[j].addr
  PROVE  i = j
<1>1. PICK b \in Blk, c \in Blk : b = bs[i] /\ c = bs[j]
  BY DEF Well
<1>2. b.addr \in Nat /\ b.size \in Nat /\ c.addr = b.addr /\ c.size \in Nat
  BY <1>1 DEF Blk
<1>3. Holds(h, b, b.addr) /\ Holds(h, c, b.addr)
  BY <1>2 DEF Holds
<1>4. Single(h, bs)
  BY OneHolds
<1> QED BY <1>1, <1>3, <1>4 DEF Single

LEMMA UInit == ASSUME Malloc!UserHeapAssumption, Malloc!Init PROVE UInv
<1>1. H \in Nat \ {0} /\ P \in Nat \ {0} /\ H <= P
  BY Sizes
<1>2. PICK b : b = [addr |-> 0, size |-> P - H, free |-> TRUE]
  OBVIOUS
<1>3. b \in Blk /\ b.addr = 0 /\ b.size = P - H /\ b.free
  BY <1>1, <1>2 DEF Blk
<1>4. u_blocks = <<b>>
  BY <1>2 DEF Malloc!Init, Malloc!Block, H, P
<1>5. u_blocks \in Seq(Blk) /\ Len(u_blocks) = 1 /\ u_blocks[1] = b /\ DOMAIN u_blocks = {1} /\ 1..Len(u_blocks) = {1}
  BY <1>3, <1>4
<1>6. u_live = {} /\ u_taken = {} /\ u_machine = "up" /\ Who \subseteq User.threads
      /\ \A t \in DOMAIN at : at[t] = <<>>
  BY DEF Malloc!Init, Who
<1>7. Well(H, u_blocks)
  <2>1. Single(H, u_blocks)
    BY <1>5 DEF Single
  <2> QED BY <1>1, <1>5, <2>1, WellHolds
<1>8. List(H)!Bytes(u_blocks) = List(H)!Memory({0} \cup u_taken, P)
  <2>1. \A x : x \in List(H)!Bytes(u_blocks) <=> Holds(H, b, x)
    BY <1>1, <1>5, BytesHeld
  <2>2. \A x : Holds(H, b, x) <=> x \in 0..(P - 1)
    BY <1>1, <1>3 DEF Holds
  <2>3. \A x : x \in List(H)!Memory({0}, P) <=> x \in 0..(P - 1)
    <3>1. 0 * P = 0 /\ 0 * P + P - 1 = P - 1
      BY <1>1
    <3> QED BY <3>1 DEF List!Memory
  <2>4. {0} \cup u_taken = {0}
    BY <1>6
  <2>5. \A x : x \in List(H)!Bytes(u_blocks) <=> x \in List(H)!Memory({0}, P)
    BY <2>1, <2>2, <2>3, Zenon
  <2> QED BY <2>4, <2>5 DEF List!Bytes, List!Memory
<1>9. UOne
  <2>1. MergedBut(H, u_blocks, {})
    BY <1>5 DEF MergedBut
  <2>2. List(H)!Occupied(u_blocks) = {}
    BY <1>3, <1>5 DEF List!Occupied
  <2> QED BY <1>6, <2>1, <2>2 DEF UOne
<1>10. UTypes
  BY <1>3, <1>5, <1>6 DEF UTypes
<1> QED BY <1>6, <1>7, <1>8, <1>9, <1>10 DEF UInv, UTiled

LEMMA Pair == \A S, T : \A x \in S, y \in T : <<x, y>> \in S \X T
  OBVIOUS
LEMMA Parts2 == \A S, T : \A x \in S \X T : x[1] \in S /\ x[2] \in T /\ x = <<x[1], x[2]>>
  OBVIOUS
LEMMA MorePairs == \A S, L, t, a : L \subseteq S \X Nat /\ t \in S /\ a \in Nat => L \cup {<<t, a>>} \subseteq S \X Nat
  BY Pair

LEMMA MarksTyped == \A bs \in Seq(Blk) : \A k \in DOMAIN bs : bs[k].free \in BOOLEAN
<1> SUFFICES ASSUME NEW bs \in Seq(Blk), NEW k \in DOMAIN bs PROVE bs[k].free \in BOOLEAN
  OBVIOUS
<1>1. bs[k] \in Blk
  OBVIOUS
<1> QED BY <1>1 DEF Blk

\* The addresses that are held, with one more.
LEMMA HeldMore ==
  ASSUME NEW L, NEW t, NEW a
  PROVE  {got[2] : got \in L \cup {<<t, a>>}} = {got[2] : got \in L} \cup {a}
<1>1. <<t, a>>[2] = a
  OBVIOUS
<1> QED BY <1>1, Zenon

\* A program that stops leaves its heap as it is.
LEMMA StopKeeps ==
  ASSUME UInv, u_machine = "up", NEW how \in {"corrupt", "fault", "hung"}, Malloc!Stop(how),
         Malloc!OneThread => how # "hung"
  PROVE  UInv'
<1>1. /\ u_blocks' = u_blocks /\ u_live' = u_live /\ at' = at /\ u_taken' = u_taken
      /\ u_machine' = how
  BY DEF Malloc!Stop
<1>2. UTypes'
  BY <1>1 DEF UInv, UTypes, Who
<1>3. /\ UTiled' <=> UTiled
      /\ Malloc!OneThread' <=> Malloc!OneThread
  BY <1>1 DEF UTiled, Malloc!OneThread
<1>4. UTiled /\ (Malloc!OneThread => UOne)
  BY DEF UInv
<1>5. how # "hung" /\ UOne => UOne'
  BY <1>1 DEF UOne
<1> QED BY <1>1, <1>2, <1>3, <1>4, <1>5 DEF UInv

LEMMA FindKeeps ==
  ASSUME Malloc!UserHeapAssumption, UInv, u_machine = "up", NEW t \in DOMAIN at, NEW n \in User.requests,
         Malloc!Find(t, n)
  PROVE  UInv'
<1>1. PICK k : k = Malloc!Min(Malloc!Fits(u_blocks, n))
  OBVIOUS
<1>2. PICK c : c = [addr |-> u_blocks[k].addr, n |-> n, whole |-> u_blocks[k].size = n]
  OBVIOUS
<1>3. /\ Malloc!Fits(u_blocks, n) # {} /\ at' = [at EXCEPT ![t] = <<c>>]
      /\ u_blocks' = u_blocks /\ u_live' = u_live /\ u_taken' = u_taken /\ u_machine' = u_machine
  BY <1>1, <1>2 DEF Malloc!Find
<1>4. UTypes /\ UTiled /\ (Malloc!OneThread => UOne)
  BY DEF UInv
<1>5. u_blocks \in Seq(Blk) /\ DOMAIN u_blocks = 1..Len(u_blocks)
  BY <1>4 DEF UTiled, Well
<1>6. k \in Malloc!Fits(u_blocks, n)
  <2>1. Malloc!Fits(u_blocks, n) \subseteq Nat
    BY <1>5 DEF Malloc!Fits
  <2>2. \E m \in Malloc!Fits(u_blocks, n) : \A l \in Malloc!Fits(u_blocks, n) : m <= l
    BY <1>3, <2>1, LeastNatural
  <2> QED BY <1>1, <2>2 DEF Malloc!Min
<1>7. k \in 1..Len(u_blocks) /\ u_blocks[k].free
  BY <1>5, <1>6 DEF Malloc!Fits, Malloc!Exact, Malloc!Larger
<1>8. c \in Picks /\ c.addr = u_blocks[k].addr
  <2>1. u_blocks[k] \in Blk
    BY <1>5, <1>7
  <2>2. u_blocks[k].addr \in Nat /\ (u_blocks[k].size = n) \in BOOLEAN
    BY <2>1 DEF Blk
  <2> QED BY <1>2, <2>2 DEF Picks
<1>9. /\ DOMAIN at' = DOMAIN at /\ Who' = Who
      /\ \A u \in DOMAIN at : at'[u] = IF u = t THEN <<c>> ELSE at[u]
  BY <1>3 DEF Who
<1>10. UTypes'
  <2>1. ASSUME NEW u \in DOMAIN at', at'[u] # <<>> PROVE \E d \in Picks : at'[u] = <<d>>
    BY <1>4, <1>8, <1>9, <2>1, Zenon DEF UTypes
  <2>2. /\ Who' \subseteq User.threads /\ u_live' \subseteq Who' \X Nat
        /\ u_taken' \subseteq User.pages /\ u_machine' \in {"up", "corrupt", "fault", "hung"}
        /\ \A l \in DOMAIN u_blocks' : u_blocks'[l].free \in BOOLEAN
    <3>1. u_live \subseteq Who \X Nat
      BY <1>4 DEF UTypes
    <3>2. u_live' \subseteq Who' \X Nat
      BY <1>3, <1>9, <3>1
    <3> QED BY <1>3, <1>4, <1>9, <3>2, Zenon DEF UTypes
  <2> QED BY <2>1, <2>2, Zenon DEF UTypes
<1>11. UTiled' /\ (Malloc!OneThread' <=> Malloc!OneThread)
  BY <1>3, <1>4, <1>9 DEF UTiled, Malloc!OneThread
<1>12. UOne => UOne'
  <2>1. Ready(c) /\ <<c>>[1] = c
    BY <1>7, <1>8 DEF Ready
  <2>2. ASSUME NEW d PROVE Ready(d)' <=> Ready(d)
    BY <1>3 DEF Ready
  <2>3. ASSUME UOne, NEW u \in DOMAIN at, at'[u] # <<>> PROVE Ready(at'[u][1])
    BY <1>9, <2>1, <2>3 DEF UOne
  <2> QED BY <1>3, <1>9, <2>2, <2>3 DEF UOne, Ready
<1> QED BY <1>3, <1>4, <1>10, <1>11, <1>12 DEF UInv

\* The chosen block is where it was, and large enough if it is to be cut.
LEMMA TakeKeeps ==
  ASSUME Malloc!UserHeapAssumption, UInv, u_machine = "up", NEW t \in DOMAIN at, Malloc!Take(t)
  PROVE  UInv'
<1>1. UTypes /\ UTiled /\ (Malloc!OneThread => UOne) /\ at[t] # <<>>
  BY DEF UInv, Malloc!Take
<1>2. PICK c \in Picks : at[t] = <<c>> /\ at[t][1] = c
  BY <1>1 DEF UTypes
<1>3. c.addr \in Nat /\ c.n \in Nat /\ c.whole \in BOOLEAN
  BY DEF Malloc!UserHeapAssumption, Picks
<1>4. CASE Malloc!Stop("corrupt")
  BY <1>4, StopKeeps
<1>5. ASSUME NEW i \in Malloc!IndexAt(u_blocks, c.addr), c.whole \/ u_blocks[i].size >= c.n + H,
             u_blocks' = (IF c.whole THEN Malloc!Taken(u_blocks, i) ELSE Malloc!Cut(u_blocks, i, c.n)),
             u_live' = u_live \cup {<<t, c.addr>>}, at' = [at EXCEPT ![t] = <<>>],
             u_taken' = u_taken, u_machine' = u_machine
      PROVE  UInv'
  <2>1. H \in Nat \ {0} /\ Well(H, u_blocks)
    BY <1>1, Sizes DEF UTiled
  <2>2. u_blocks \in Seq(Blk) /\ DOMAIN u_blocks = 1..Len(u_blocks)
    BY <2>1 DEF Well
  <2>3. i \in 1..Len(u_blocks) /\ u_blocks[i].addr = c.addr
    BY <2>2 DEF Malloc!IndexAt
  <2>4. /\ Kept(H, u_blocks, u_blocks')
        /\ u_blocks[i].free /\ MergedBut(H, u_blocks, {}) => MergedBut(H, u_blocks', {})
        /\ u_blocks[i].free =>
             \A a : a \in List(H)!Occupied(u_blocks') <=> a \in List(H)!Occupied(u_blocks) \/ a = c.addr
    <3>1. CASE c.whole
      <4>1. PICK f \in BOOLEAN : f = FALSE
        OBVIOUS
      <4>2. u_blocks' = [u_blocks EXCEPT ![i].free = f]
        BY <1>5, <3>1, <4>1 DEF Malloc!Taken
      <4>3. MarksIn(H, u_blocks, i, f, u_blocks')
        BY <2>1, <2>3, <4>2, MarkedKeeps
      <4> QED BY <2>3, <4>1, <4>3 DEF MarksIn
    <3>2. CASE ~c.whole
      <4>1. u_blocks' = List(H)!Cut(u_blocks, i, c.n) /\ u_blocks[i].size >= c.n + H
        BY <1>5, <3>2, SameLists
      <4> QED BY <1>3, <2>1, <2>3, <4>1, CutKeeps
    <3> QED BY <1>3, <3>1, <3>2
  <2>5. /\ DOMAIN at' = DOMAIN at /\ Who' = Who /\ t \in Who
        /\ \A u \in DOMAIN at : at'[u] = IF u = t THEN <<>> ELSE at[u]
    BY <1>5 DEF Who
  <2>6. u_blocks' \in Seq(Blk)
    BY <2>4 DEF Kept, Well
  <2>7. UTypes'
    <3>1. \A k \in DOMAIN u_blocks' : u_blocks'[k].free \in BOOLEAN
      BY <2>6, MarksTyped
    <3>2. u_live' \subseteq Who' \X Nat
      <4>1. u_live \subseteq Who \X Nat
        BY <1>1 DEF UTypes
      <4>2. u_live \cup {<<t, c.addr>>} \subseteq Who \X Nat
        BY <1>3, <2>5, <4>1, MorePairs
      <4> QED BY <1>5, <2>5, <4>2
    <3> QED BY <1>1, <1>5, <2>5, <3>1, <3>2 DEF UTypes
  <2>8. UTiled'
    BY <1>1, <1>5, <2>4 DEF UTiled, Kept
  <2>9. Malloc!OneThread' <=> Malloc!OneThread
    BY <2>5 DEF Malloc!OneThread
  <2>10. ASSUME Malloc!OneThread PROVE UOne'
    <3>1. UOne /\ Ready(c)
      BY <1>1, <1>2, <2>10 DEF UOne
    <3>2. PICK k \in 1..Len(u_blocks) : u_blocks[k].addr = c.addr /\ u_blocks[k].free
      BY <3>1 DEF Ready
    <3>3. u_blocks[i].free
      BY <2>1, <2>3, <3>2, AddressOnce
    <3>4. MergedBut(H, u_blocks', {})
      BY <2>4, <3>1, <3>3 DEF UOne
    <3>5. List(H)!Occupied(u_blocks') = {got[2] : got \in u_live'}
      <4>1. \A a : a \in List(H)!Occupied(u_blocks') <=> a \in List(H)!Occupied(u_blocks) \/ a = c.addr
        BY <2>4, <3>3
      <4>2. List(H)!Occupied(u_blocks) = {got[2] : got \in u_live}
        BY <3>1 DEF UOne
      <4>3. {got[2] : got \in u_live'} = {got[2] : got \in u_live} \cup {c.addr}
        BY <1>5, HeldMore
      <4> QED BY <4>1, <4>2, <4>3
    <3>6. \A u \in DOMAIN at' : at'[u] = <<>>
      BY <2>5, <2>10 DEF Malloc!OneThread
    <3> QED BY <1>5, <3>4, <3>5, <3>6 DEF UOne
  <2> QED BY <1>5, <2>7, <2>8, <2>9, <2>10 DEF UInv
<1>6. \/ Malloc!Stop("corrupt")
      \/ \E i \in Malloc!IndexAt(u_blocks, c.addr) :
           /\ c.whole \/ u_blocks[i].size >= c.n + H
           /\ u_blocks' = (IF c.whole THEN Malloc!Taken(u_blocks, i) ELSE Malloc!Cut(u_blocks, i, c.n))
           /\ u_live' = u_live \cup {<<t, c.addr>>} /\ at' = [at EXCEPT ![t] = <<>>]
           /\ u_taken' = u_taken /\ u_machine' = u_machine
  BY <1>2 DEF Malloc!Take, H
<1> QED BY <1>4, <1>5, <1>6

LEMMA GrowKeeps ==
  ASSUME Malloc!UserHeapAssumption, UInv, u_machine = "up", NEW t \in DOMAIN at, NEW n \in User.requests,
         Malloc!Grow(t, n)
  PROVE  UInv'
<1>1. UTypes /\ UTiled /\ (Malloc!OneThread => UOne) /\ at[t] = <<>>
  BY DEF UInv, Malloc!Grow
<1>2. H \in Nat \ {0} /\ P \in Nat \ {0} /\ H <= P /\ n \in Nat /\ n > 0 /\ User.pages \subseteq Nat \ {0}
  BY Sizes DEF Malloc!UserHeapAssumption
<1>3. PICK k : k = Malloc!PagesFor(n)
  OBVIOUS
<1>4. k \in Int
  BY <1>2, <1>3 DEF Malloc!PagesFor, P
<1>5. PICK rest : rest = Malloc!Rest(n)
  OBVIOUS
<1>6. rest = k * P - n - 2 * H /\ rest \in Int
  BY <1>2, <1>3, <1>4, <1>5 DEF Malloc!Rest, P, H
<1>7. CASE Malloc!Stop("fault")
  BY <1>7, StopKeeps
<1>8. ASSUME NEW page \in User.pages, page..(page + k - 1) \subseteq User.pages \ u_taken,
             NEW b, b = [addr |-> page * P, size |-> n, free |-> FALSE],
             NEW c, c = [addr |-> page * P + H + n, size |-> rest, free |-> TRUE],
             u_blocks' = u_blocks \o <<b, c>>, u_live' = u_live \cup {<<t, page * P>>},
             u_taken' = u_taken \cup page..(page + k - 1),
             u_machine' = (IF rest < 0 THEN "corrupt" ELSE "up"), at' = at
      PROVE  UInv'
  <2>1. page \in Nat /\ page # 0 /\ page * P \in Nat
    BY <1>2
  <2>2. u_blocks \in Seq(Blk) /\ Len(u_blocks) \in Nat
    BY <1>1 DEF UTiled, Well
  <2>3. /\ b.addr = page * P /\ b.size = n /\ b.free = FALSE
        /\ c.addr = page * P + H + n /\ c.size = rest /\ c.free = TRUE
    BY <1>8
  <2>4. PICK new : new = <<b, c>>
    OBVIOUS
  <2>5. Len(new) = 2 /\ new[1] = b /\ new[2] = c /\ u_blocks' = u_blocks \o new
    BY <1>8, <2>4
  <2>6. UTypes'
    <3>1. \A l \in DOMAIN u_blocks' : u_blocks'[l].free \in BOOLEAN
      <4>1. PICK X : X = Blk \cup {b, c}
        OBVIOUS
      <4>2. u_blocks \in Seq(X) /\ new \in Seq(X) /\ \A y \in X : y.free \in BOOLEAN
        <5>1. \A y \in X : y.free \in BOOLEAN
          BY <2>3, <4>1 DEF Blk
        <5>2. b \in X /\ c \in X /\ Blk \subseteq X
          BY <4>1
        <5>3. <<b, c>> \in Seq(X)
          BY <5>2
        <5>4. u_blocks \in Seq(X)
          BY <2>2, <5>2
        <5> QED BY <2>4, <5>1, <5>3, <5>4
      <4>3. u_blocks' \in Seq(X)
        BY <2>5, <4>2, ConcatProperties
      <4> QED BY <4>2, <4>3
    <3>2. u_live' \subseteq Who' \X Nat
      <4>1. u_live \subseteq Who \X Nat
        BY <1>1 DEF UTypes
      <4>2. u_live \cup {<<t, page * P>>} \subseteq Who \X Nat
        <5>1. t \in Who
          BY DEF Who
        <5> QED BY <2>1, <4>1, <5>1, MorePairs
      <4>3. Who' = Who
        BY <1>8 DEF Who
      <4> QED BY <1>8, <4>2, <4>3
    <3>3. u_taken' \subseteq User.pages /\ u_machine' \in {"up", "corrupt", "fault", "hung"}
      BY <1>1, <1>8 DEF UTypes
    <3> QED BY <1>1, <1>8, <3>1, <3>2, <3>3 DEF UTypes, Who
  <2>7. Malloc!OneThread' <=> Malloc!OneThread
    BY <1>8 DEF Malloc!OneThread
  <2>8. CASE rest < 0
    BY <1>8, <2>6, <2>8 DEF UInv
  <2>9. CASE rest >= 0
    <3>1. rest \in Nat /\ rest = k * P - n - 2 * H
      BY <1>6, <2>9
    <3>2. new = <<[addr |-> page * P, size |-> n, free |-> FALSE],
                  [addr |-> page * P + H + n, size |-> rest, free |-> TRUE]>>
      BY <1>8, <2>4
    <3>3. GrownIn(H, P, page, k, new)
      BY <1>2, <1>4, <2>1, <3>1, <3>2, GrownKeeps
    <3>4. Well(H, new) /\ List(H)!Bytes(new) = List(H)!Memory(page..(page + k - 1), P)
      BY <3>3 DEF GrownIn
    <3>5. List(H)!Bytes(u_blocks) \cap List(H)!Bytes(new) = {}
      <4>1. /\ {0} \cup u_taken \in SUBSET Nat /\ page..(page + k - 1) \in SUBSET Nat
            /\ ({0} \cup u_taken) \cap page..(page + k - 1) = {}
        BY <1>1, <1>2, <1>8 DEF UTypes
      <4> QED BY <1>1, <1>2, <3>4, <4>1, PagesApart DEF UTiled
    <3>6. AppendedIn(H, u_blocks, new, u_blocks')
      <4>1. Len(new) >= 1 /\ ~new[1].free /\ Well(H, u_blocks)
        BY <1>1, <2>3, <2>5 DEF UTiled
      <4> QED BY <1>2, <2>5, <3>4, <3>5, <4>1, AppendedKeeps
    <3>7. UTiled'
      <4>1. {0} \cup u_taken' = ({0} \cup u_taken) \cup page..(page + k - 1)
        BY <1>8
      <4>2. List(H)!Memory({0} \cup u_taken', P) = List(H)!Bytes(u_blocks')
        <5>1. List(H)!Memory({0} \cup u_taken', P) =
                List(H)!Memory({0} \cup u_taken, P) \cup List(H)!Memory(page..(page + k - 1), P)
          <6>1. PICK ps, qs : ps = {0} \cup u_taken /\ qs = page..(page + k - 1)
            OBVIOUS
          <6>2. List(H)!Memory(ps \cup qs, P) = List(H)!Memory(ps, P) \cup List(H)!Memory(qs, P)
            BY PagesTogether
          <6> QED BY <4>1, <6>1, <6>2
        <5>2. List(H)!Bytes(u_blocks') = List(H)!Bytes(u_blocks) \cup List(H)!Bytes(new)
          BY <3>6 DEF AppendedIn
        <5>3. List(H)!Bytes(u_blocks) = List(H)!Memory({0} \cup u_taken, P)
          BY <1>1 DEF UTiled
        <5> QED BY <3>4, <5>1, <5>2, <5>3
      <4> QED BY <3>6, <4>2 DEF UTiled, AppendedIn
    <3>8. ASSUME Malloc!OneThread PROVE UOne'
      <4>1. UOne
        BY <1>1, <3>8
      <4>2. MergedBut(H, u_blocks', {})
        <5>1. MergedBut(H, new, {})
          BY <3>3 DEF GrownIn
        <5> QED BY <3>6, <4>1, <5>1 DEF AppendedIn, UOne
      <4>3. List(H)!Occupied(u_blocks') = {got[2] : got \in u_live'}
        <5>1. List(H)!Occupied(new) = {page * P}
          BY <3>3 DEF GrownIn
        <5>2. {got[2] : got \in u_live'} = {got[2] : got \in u_live} \cup {page * P}
          BY <1>8, HeldMore
        <5> QED BY <3>6, <4>1, <5>1, <5>2 DEF AppendedIn, UOne
      <4>4. \A u \in DOMAIN at' : at'[u] = <<>>
        BY <1>1, <1>8, <3>8 DEF Malloc!OneThread
      <4>5. u_machine' # "hung"
        BY <1>8
      <4> QED BY <4>2, <4>3, <4>4, <4>5 DEF UOne
    <3> QED BY <1>8, <2>6, <2>7, <3>7, <3>8, <2>9 DEF UInv
  <2> QED BY <1>6, <2>8, <2>9
<1>9. \/ Malloc!Stop("fault")
      \/ \E page \in User.pages : \E b, c :
           /\ page..(page + k - 1) \subseteq User.pages \ u_taken
           /\ b = [addr |-> page * P, size |-> n, free |-> FALSE]
           /\ c = [addr |-> page * P + H + n, size |-> rest, free |-> TRUE]
           /\ u_blocks' = u_blocks \o <<b, c>> /\ u_live' = u_live \cup {<<t, page * P>>}
           /\ u_taken' = u_taken \cup page..(page + k - 1)
           /\ u_machine' = (IF rest < 0 THEN "corrupt" ELSE "up") /\ at' = at
  BY <1>3, <1>5 DEF Malloc!Grow, Malloc!Block, H, P
<1> QED BY <1>7, <1>8, <1>9

LEMMA FreeKeeps ==
  ASSUME Malloc!UserHeapAssumption, UInv, u_machine = "up", NEW got \in u_live, Malloc!Free(got[1], got[2])
  PROVE  UInv'
<1>1. UTypes /\ UTiled /\ (Malloc!OneThread => UOne) /\ at[got[1]] = <<>>
  BY DEF UInv, Malloc!Free
<1>2. got[1] \in DOMAIN at /\ got[2] \in Nat /\ got = <<got[1], got[2]>>
  <2>1. got \in Who \X Nat
    BY <1>1 DEF UTypes
  <2> QED BY <2>1, Parts2 DEF Who
<1>3. PICK t \in DOMAIN at, a \in Nat : t = got[1] /\ a = got[2] /\ got = <<t, a>>
  BY <1>2
<1>4. H \in Nat \ {0} /\ Well(H, u_blocks)
  BY <1>1, Sizes DEF UTiled
<1>5. u_blocks \in Seq(Blk) /\ DOMAIN u_blocks = 1..Len(u_blocks)
  BY <1>4 DEF Well
<1>6. ASSUME Malloc!OneThread PROVE List(H)!InUse(u_blocks, a) # {}
  <2>1. a \in List(H)!Occupied(u_blocks)
    BY <1>1, <1>3, <1>6 DEF UOne
  <2> QED BY <2>1 DEF List!Occupied, List!InUse, List!IndexAt
<1>7. CASE List(H)!InUse(u_blocks, a) = {} /\ Malloc!Stop("hung")
  BY <1>6, <1>7, StopKeeps
<1>8. ASSUME List(H)!InUse(u_blocks, a) # {}, u_blocks' = List(H)!Freed(u_blocks, a), u_live' = u_live \ {<<t, a>>},
             at' = at, u_taken' = u_taken, u_machine' = u_machine
      PROVE  UInv'
  <2>1. /\ Kept(H, u_blocks, u_blocks')
        /\ \A x : x \in List(H)!Occupied(u_blocks') <=> x \in List(H)!Occupied(u_blocks) /\ x # a
        /\ MergedBut(H, u_blocks, {}) => MergedBut(H, u_blocks', {})
    BY <1>4, <1>8, FreedKeeps
  <2>2. UTypes'
    <3>1. u_blocks' \in Seq(Blk)
      BY <2>1 DEF Kept, Well
    <3>2. \A k \in DOMAIN u_blocks' : u_blocks'[k].free \in BOOLEAN
      BY <3>1, MarksTyped
    <3> QED BY <1>1, <1>8, <3>2 DEF UTypes, Who
  <2>3. UTiled'
    BY <1>1, <1>8, <2>1 DEF UTiled, Kept
  <2>4. Malloc!OneThread' <=> Malloc!OneThread
    BY <1>8 DEF Malloc!OneThread
  <2>5. ASSUME Malloc!OneThread PROVE UOne'
    <3>1. UOne
      BY <1>1, <2>5
    <3>2. List(H)!Occupied(u_blocks') = {x[2] : x \in u_live'}
      <4>1. ASSUME NEW x \in u_live PROVE x[2] = a <=> x = <<t, a>>
        <5>1. x = <<x[1], x[2]>> /\ x[1] \in DOMAIN at
          <6>1. x \in Who \X Nat
            BY <1>1 DEF UTypes
          <6> QED BY <6>1, Parts2 DEF Who
        <5>2. x[1] = t
          BY <2>5, <5>1 DEF Malloc!OneThread
        <5> QED BY <5>1, <5>2
      <4>2. ASSUME NEW y PROVE y \in {x[2] : x \in u_live'} <=> y \in {x[2] : x \in u_live} /\ y # a
        BY <1>8, <4>1
      <4>3. \A y : y \in List(H)!Occupied(u_blocks') <=> y \in {x[2] : x \in u_live'}
        BY <2>1, <3>1, <4>2 DEF UOne
      <4> QED BY <4>3, Zenon DEF List!Occupied
    <3>3. \A u \in DOMAIN at' : at'[u] = <<>>
      BY <1>1, <1>3, <1>8, <2>5 DEF Malloc!OneThread
    <3> QED BY <1>8, <2>1, <3>1, <3>2, <3>3 DEF UOne
  <2> QED BY <1>8, <2>2, <2>3, <2>4, <2>5 DEF UInv
<1>9. \/ List(H)!InUse(u_blocks, a) = {} /\ Malloc!Stop("hung")
      \/ /\ List(H)!InUse(u_blocks, a) # {} /\ u_blocks' = List(H)!Freed(u_blocks, a)
         /\ u_live' = u_live \ {<<t, a>>} /\ at' = at /\ u_taken' = u_taken /\ u_machine' = u_machine
  BY <1>3, SameLists DEF Malloc!Free
<1> QED BY <1>7, <1>8, <1>9

LEMMA UNext == ASSUME Malloc!UserHeapAssumption, UInv, Malloc!Next PROVE UInv'
<1>1. ASSUME NEW t \in DOMAIN at, NEW n \in User.requests, Malloc!Malloc(t, n) PROVE UInv'
  BY <1>1, FindKeeps, GrowKeeps DEF Malloc!Malloc
<1>2. ASSUME NEW t \in DOMAIN at, u_machine = "up", Malloc!Take(t) PROVE UInv'
  BY <1>2, TakeKeeps
<1>3. ASSUME NEW got \in u_live, Malloc!Free(got[1], got[2]) PROVE UInv'
  BY <1>3, FreeKeeps DEF Malloc!Free
<1> QED BY <1>1, <1>2, <1>3 DEF Malloc!Next

LEMMA USays == ASSUME Malloc!UserHeapAssumption, UInv PROVE MallocSound
<1>1. u_machine # "corrupt" => UTiled /\ u_blocks \in Seq(Blk)
  BY DEF UInv, UTiled, Well
<1>2. Malloc!TypeOK
  <2>1. u_live \subseteq User.threads \X Nat
    <3>1. Who \subseteq User.threads /\ u_live \subseteq Who \X Nat
      BY DEF UInv, UTypes
    <3> QED BY <3>1
  <2>2. ASSUME u_machine # "corrupt", NEW i \in DOMAIN u_blocks PROVE u_blocks[i].size \in Nat
    <3>1. u_blocks[i] \in Blk
      BY <1>1, <2>2
    <3> QED BY <3>1 DEF Blk
  <2> QED BY <2>1, <2>2 DEF UInv, UTypes, Malloc!TypeOK
<1>3. Malloc!Sound
  BY <1>1, SameLists DEF Malloc!Sound, UTiled, Well, P
<1>4. Malloc!Merged
  <2> SUFFICES ASSUME Malloc!OneThread, u_machine # "corrupt" PROVE Malloc!Coalesced(u_blocks)
    BY DEF Malloc!Merged
  <2>1. MergedBut(H, u_blocks, {})
    BY DEF UInv, UOne
  <2> QED BY <2>1 DEF MergedBut, Meets, Malloc!Coalesced, Malloc!End, List!End, H
<1>5. Malloc!Owned
  BY SameLists DEF UInv, UOne, Malloc!Owned
<1> QED BY <1>2, <1>3, <1>4, <1>5 DEF MallocSound

\* Whatever sizes are asked for and however many threads allocate, the blocks of a
\* program's heap tile its memory until a growth writes a header outside its pages;
\* one thread alone finds every block it frees, and free neighbours become one
\* (malloc.cpp:25-91).
THEOREM MallocAlwaysSound == ASSUME PartsAssumption PROVE AllSpec => []MallocSound
<1>1. Malloc!UserHeapAssumption
  BY DEF PartsAssumption
<1>2. AllInit => UInv
  BY <1>1, UInit DEF AllInit
<1>3. ASSUME UInv, [AllNext]_allVars PROVE UInv'
  <2>1. CASE Malloc!Next
    BY <1>1, <1>3, <2>1, UNext
  <2>2. CASE UNCHANGED userVars
    BY <1>3, <2>2 DEF userVars, UInv, UTypes, Who, UTiled, UOne, Ready, Malloc!OneThread
  <2> QED BY <1>3, <2>1, <2>2 DEF AllNext, allVars, Pages, Heaps, Mallocs
<1>4. UInv => MallocSound
  BY <1>1, USays
<1> QED BY <1>2, <1>3, <1>4, PTL DEF AllSpec

-----------------------------------------------------------------------------
(* The kernel's heap *)

KH == Kernel.header
KP == Kernel.page

LEMMA KSizes ==
  ASSUME Heap!KHeapAssumption
  PROVE  /\ KH \in Nat \ {0} /\ KP \in Nat \ {0} /\ Kernel.alignment \in Nat \ {0}
         /\ \A n \in Nat : Heap!Aligned(n) \in Nat
         /\ Kernel.pages \subseteq Nat \ {0} /\ Kernel.requests \subseteq Nat
         /\ Kernel.descriptor \in Nat /\ Kernel.reserve \in Nat
         /\ KH + Heap!Aligned(Kernel.reserve) <= KP
<1>1. /\ KH \in Nat \ {0} /\ KP \in Nat \ {0} /\ Kernel.alignment \in Nat \ {0}
      /\ Kernel.pages \subseteq Nat \ {0} /\ Kernel.requests \subseteq Nat
      /\ Kernel.descriptor \in Nat /\ Kernel.reserve \in Nat
      /\ KH + Heap!Aligned(Kernel.reserve) <= KP
  BY DEF Heap!KHeapAssumption, KH, KP
<1>2. ASSUME NEW n \in Nat PROVE Heap!Aligned(n) \in Nat
  <2>1. n \div Kernel.alignment \in Nat
    BY <1>1
  <2>2. PICK q \in Nat : q = n \div Kernel.alignment
    BY <2>1
  <2>3. (q + 1) * Kernel.alignment \in Nat
    BY <1>1
  <2> QED BY <2>2, <2>3 DEF Heap!Aligned
<1> QED BY <1>1, <1>2

LEMMA EnoughPages ==
  ASSUME NEW s \in Nat, NEW p \in Nat \ {0}
  PROVE  (s + p - 1) \div p \in Nat /\ ((s + p - 1) \div p) * p >= s
<1>1. PICK x \in Nat : x = s + p - 1
  OBVIOUS
<1>2. PICK q \in Int : q = x \div p
  OBVIOUS
<1>3. q \in Nat
  BY <1>2
<1>4. q * p > x - p
  BY <1>2
<1> QED BY <1>1, <1>2, <1>3, <1>4

LEMMA KSameLists ==
  /\ \A bs : Heap!Disjoint(bs) <=> List(KH)!Disjoint(bs)
  /\ \A bs : Heap!Bytes(bs) = List(KH)!Bytes(bs)
  /\ \A ps : Heap!Memory(ps, KP) = List(KH)!Memory(ps, KP)
  /\ \A bs : Heap!Occupied(bs) = List(KH)!Occupied(bs)
  /\ \A bs, i, n : Heap!Cut(bs, i, n) = List(KH)!Cut(bs, i, n)
  /\ \A bs, a : Heap!InUse(bs, a) = List(KH)!InUse(bs, a)
  /\ \A bs, a : Heap!Freed(bs, a) = List(KH)!Freed(bs, a)
<1>1. \A bs : Heap!Disjoint(bs) <=> List(KH)!Disjoint(bs)
  BY DEF KH, Heap!Disjoint, List!Disjoint, Heap!Overlap, List!Overlap, Heap!End, List!End
<1>2. \A bs : Heap!Bytes(bs) = List(KH)!Bytes(bs)
  BY DEF KH, Heap!Bytes, List!Bytes, Heap!End, List!End
<1>3. \A ps : Heap!Memory(ps, KP) = List(KH)!Memory(ps, KP)
  BY DEF Heap!Memory, List!Memory
<1>4. \A bs : Heap!Occupied(bs) = List(KH)!Occupied(bs)
  BY DEF Heap!Occupied, List!Occupied
<1>5. \A bs, i, n : Heap!Cut(bs, i, n) = List(KH)!Cut(bs, i, n)
  BY DEF KH, Heap!Cut, List!Cut, Heap!CutAs, List!CutAs, Heap!Replaced, List!Replaced, Heap!Block, List!Block
<1>6. \A bs, a : Heap!InUse(bs, a) = List(KH)!InUse(bs, a)
  BY DEF Heap!InUse, List!InUse, Heap!IndexAt, List!IndexAt
<1>7. \A bs, i : Heap!Absorbed(bs, i) = List(KH)!Absorbed(bs, i)
  BY DEF KH, Heap!Absorbed, List!Absorbed, Heap!Joined, List!Joined, Heap!Replaced, List!Replaced,
         Heap!Block, List!Block, Heap!End, List!End
<1>8. \A bs, a : Heap!Freed(bs, a) = List(KH)!Freed(bs, a)
  <2> SUFFICES ASSUME NEW bs, NEW a PROVE Heap!Freed(bs, a) = List(KH)!Freed(bs, a)
    OBVIOUS
  <2>1. PICK i : i = CHOOSE j \in List(KH)!InUse(bs, a) : TRUE
    OBVIOUS
  <2>2. i = CHOOSE j \in Heap!InUse(bs, a) : TRUE
    BY <2>1 DEF Heap!InUse, List!InUse, Heap!IndexAt, List!IndexAt
  <2>3. PICK p : p = [bs EXCEPT ![i].free = TRUE]
    OBVIOUS
  <2>4. List(KH)!Freed(bs, a) = IF i = 1 THEN List(KH)!Absorbed(p, i)
                                ELSE List(KH)!Absorbed(List(KH)!Absorbed(p, i), i - 1)
    BY <2>1, <2>3 DEF List!Freed
  <2>5. Heap!Freed(bs, a) = IF i = 1 THEN Heap!Absorbed(p, i)
                            ELSE Heap!Absorbed(Heap!Absorbed(p, i), i - 1)
    BY <2>2, <2>3 DEF Heap!Freed
  <2> QED BY <1>7, <2>4, <2>5
<1> QED BY <1>1, <1>2, <1>3, <1>4, <1>5, <1>6, <1>8, Zenon

\* The first block that is large enough.
LEMMA FirstFits ==
  ASSUME NEW bs \in Seq(Blk), NEW n, Heap!Fits(bs, n) # {}, NEW i, i = Heap!FirstFit(bs, n)
  PROVE  i \in 1..Len(bs) /\ bs[i].free /\ bs[i].size >= n
<1>1. Heap!Fits(bs, n) \subseteq Nat /\ Heap!Fits(bs, n) \subseteq 1..Len(bs)
  BY DEF Heap!Fits
<1>2. \E m \in Heap!Fits(bs, n) : \A l \in Heap!Fits(bs, n) : m <= l
  BY <1>1, LeastNatural
<1>3. i \in Heap!Fits(bs, n)
  BY <1>2 DEF Heap!FirstFit, Heap!Min
<1> QED BY <1>1, <1>3 DEF Heap!Fits

\* A block taken whole, or its front.
TakenIn(bs, i, r) ==
  /\ Kept(KH, bs, r)
  /\ bs[i].free /\ MergedBut(KH, bs, {}) => MergedBut(KH, r, {})
  /\ bs[i].free => \A a : a \in List(KH)!Occupied(r) <=> a \in List(KH)!Occupied(bs) \/ a = bs[i].addr

LEMMA TakenKeeps ==
  ASSUME Heap!KHeapAssumption, NEW bs, Well(KH, bs), NEW i \in 1..Len(bs), NEW n \in Nat, NEW whole \in BOOLEAN,
         whole \/ bs[i].size >= n + KH,
         NEW r, r = IF whole THEN Heap!Taken(bs, i) ELSE Heap!Cut(bs, i, n)
  PROVE  TakenIn(bs, i, r)
<1>1. KH \in Nat \ {0}
  BY KSizes
<1>2. CASE whole
  <2>1. PICK f \in BOOLEAN : f = FALSE
    OBVIOUS
  <2>2. r = [bs EXCEPT ![i].free = f]
    BY <1>2, <2>1 DEF Heap!Taken
  <2>3. MarksIn(KH, bs, i, f, r)
    BY <1>1, <2>2, MarkedKeeps
  <2> QED BY <2>1, <2>3 DEF MarksIn, TakenIn
<1>3. CASE ~whole
  <2>1. r = List(KH)!Cut(bs, i, n) /\ bs[i].size >= n + KH
    BY <1>3, KSameLists
  <2> QED BY <1>1, <2>1, CutKeeps DEF TakenIn
<1> QED BY <1>2, <1>3

\* A free block is at no address where one is in use.
LEMMA FreeApart ==
  ASSUME NEW h \in Nat \ {0}, NEW bs, Well(h, bs), NEW i \in 1..Len(bs), bs[i].free
  PROVE  bs[i].addr \notin List(h)!Occupied(bs) /\ bs[i].addr \in List(h)!Bytes(bs) /\ bs[i].addr \in Nat
<1>1. bs \in Seq(Blk) /\ DOMAIN bs = 1..Len(bs)
  BY DEF Well
<1>2. PICK b \in Blk : b = bs[i]
  BY <1>1
<1>3. b.addr \in Nat /\ b.size \in Nat
  BY DEF Blk
<1>4. Holds(h, b, b.addr)
  BY <1>3 DEF Holds
<1>5. b.addr \in List(h)!Bytes(bs)
  BY <1>1, <1>2, <1>4, BytesHeld
<1>6. ASSUME NEW j \in 1..Len(bs), bs[j].addr = bs[i].addr PROVE bs[j].free
  BY <1>6, AddressOnce
<1> QED BY <1>1, <1>2, <1>3, <1>5, <1>6 DEF List!Occupied

\* A block in use holds the byte at its address.
LEMMA OccupiedBytes ==
  ASSUME NEW h \in Nat \ {0}, NEW bs, Well(h, bs)
  PROVE  List(h)!Occupied(bs) \subseteq List(h)!Bytes(bs)
<1>1. bs \in Seq(Blk) /\ DOMAIN bs = 1..Len(bs)
  BY DEF Well
<1>2. ASSUME NEW i \in 1..Len(bs) PROVE bs[i].addr \in List(h)!Bytes(bs)
  <2>1. PICK b \in Blk : b = bs[i]
    BY <1>1
  <2>2. b.addr \in Nat /\ b.size \in Nat
    BY DEF Blk
  <2>3. Holds(h, b, b.addr)
    BY <2>2 DEF Holds
  <2> QED BY <1>1, <2>1, <2>3, BytesHeld
<1> QED BY <1>1, <1>2 DEF List!Occupied

\* What kmalloc does to a list that has a block for it.
AllocatedIn(bs, a, r) ==
  /\ Kept(KH, bs, r) /\ (MergedBut(KH, bs, {}) => MergedBut(KH, r, {}))
  /\ \A x : x \in List(KH)!Occupied(r) <=> x \in List(KH)!Occupied(bs) \/ x = a
  /\ a \in Nat /\ a \notin List(KH)!Occupied(bs) /\ a \in List(KH)!Bytes(bs)

LEMMA AllocatedKeeps ==
  ASSUME Heap!KHeapAssumption, NEW bs, Well(KH, bs), NEW n \in Nat, Heap!Fits(bs, n) # {},
         NEW a, a = bs[Heap!FirstFit(bs, n)].addr, NEW r, r = Heap!Allocated(bs, n)
  PROVE  AllocatedIn(bs, a, r)
<1>1. KH \in Nat \ {0} /\ bs \in Seq(Blk) /\ Kernel.alignment \in Nat \ {0}
  BY KSizes DEF Well
<1>2. PICK i : i = Heap!FirstFit(bs, n)
  OBVIOUS
<1>3. i \in 1..Len(bs) /\ bs[i].free /\ bs[i].size >= n /\ a = bs[i].addr
  BY <1>1, <1>2, FirstFits
<1>4. PICK whole \in BOOLEAN : whole <=> Heap!Whole(bs[i], n)
  <2>1. \E whole \in {TRUE, FALSE} : whole <=> Heap!Whole(bs[i], n)
    BY Zenon
  <2> QED BY <2>1
<1>5. whole \/ bs[i].size >= n + KH
  <2>1. bs[i] \in Blk
    BY <1>1, <1>3
  <2>2. bs[i].size \in Nat
    BY <2>1 DEF Blk
  <2>3. ~whole => ~(bs[i].size < n + KH + Kernel.alignment)
    BY <1>4 DEF Heap!Whole, KH
  <2> QED BY <1>1, <2>2, <2>3
<1>6. r = IF whole THEN Heap!Taken(bs, i) ELSE Heap!Cut(bs, i, n)
  BY <1>2, <1>4 DEF Heap!Allocated, Heap!Used
<1>7. TakenIn(bs, i, r)
  BY <1>3, <1>5, <1>6, TakenKeeps
<1>8. a \notin List(KH)!Occupied(bs) /\ a \in List(KH)!Bytes(bs) /\ a \in Nat
  BY <1>1, <1>3, FreeApart
<1> QED BY <1>3, <1>7, <1>8 DEF TakenIn, AllocatedIn

\* A block in use is at a iff kfree finds it.
LEMMA UseSeen == \A bs, a : Heap!InUse(bs, a) = {} <=> a \notin List(KH)!Occupied(bs)
BY DEF Heap!InUse, Heap!IndexAt, List!Occupied

-----------------------------------------------------------------------------
(* The descriptors that a merge deletes *)

\* g is the function that Deleting(order) computes, up to n.
IsDeleting(g, order, n) ==
  g = [i \in 0..n |-> IF i = 0 THEN Heap!Released
                      ELSE IF Heap!InUse(g[i - 1], order[i]) = {} THEN g[i - 1]
                      ELSE Heap!Freed(g[i - 1], order[i])]

LEMMA DeletingExists ==
  ASSUME NEW order, NEW n \in Nat
  PROVE  \E g : IsDeleting(g, order, n)
<1> DEFINE S == {m \in Nat : \E g : IsDeleting(g, order, m)}
<1>1. 0 \in S
  <2>1. IsDeleting([i \in 0..0 |-> Heap!Released], order, 0)
    BY DEF IsDeleting
  <2> QED BY <2>1
<1>2. ASSUME NEW m \in Nat, m \in S PROVE m + 1 \in S
  <2>1. PICK g : IsDeleting(g, order, m)
    BY <1>2
  <2>2. PICK bs : bs = IF Heap!InUse(g[m], order[m + 1]) = {} THEN g[m] ELSE Heap!Freed(g[m], order[m + 1])
    OBVIOUS
  <2> DEFINE h == [i \in 0..(m + 1) |-> IF i = m + 1 THEN bs ELSE g[i]]
  <2>3. ASSUME NEW i \in 0..(m + 1)
        PROVE  h[i] = IF i = 0 THEN Heap!Released
                      ELSE IF Heap!InUse(h[i - 1], order[i]) = {} THEN h[i - 1]
                      ELSE Heap!Freed(h[i - 1], order[i])
    <3>1. CASE i = 0
      BY <2>1, <3>1 DEF IsDeleting
    <3>2. CASE i = m + 1
      <4>1. h[i] = bs /\ h[i - 1] = g[m] /\ i # 0
        BY <3>2
      <4> QED BY <2>2, <3>2, <4>1
    <3>3. CASE i \in 1..m
      <4>1. i - 1 \in 0..m /\ i - 1 # m + 1 /\ i # m + 1 /\ i # 0 /\ i \in 0..m
        BY <3>3
      <4>2. h[i - 1] = g[i - 1] /\ h[i] = g[i]
        BY <4>1
      <4>3. g[i] = IF Heap!InUse(g[i - 1], order[i]) = {} THEN g[i - 1] ELSE Heap!Freed(g[i - 1], order[i])
        BY <4>1, <2>1 DEF IsDeleting
      <4> QED BY <4>1, <4>2, <4>3
    <3>4. i = 0 \/ i = m + 1 \/ i \in 1..m
      OBVIOUS
    <3> HIDE DEF h
    <3> QED BY <3>1, <3>2, <3>3, <3>4, Zenon
  <2>4. IsDeleting(h, order, m + 1)
    BY <2>3 DEF IsDeleting
  <2> QED BY <2>4
<1> HIDE DEF S
<1>3. n \in S
  BY <1>1, <1>2, Induct
<1> QED BY <1>3 DEF S

LEMMA DeletingIs ==
  ASSUME NEW order, Len(order) \in Nat, NEW d, d = Heap!Deleting(order)
  PROVE  IsDeleting(d, order, Len(order))
<1> DEFINE after[i \in 0..Len(order)] ==
             IF i = 0 THEN Heap!Released
             ELSE IF Heap!InUse(after[i - 1], order[i]) = {} THEN after[i - 1]
             ELSE Heap!Freed(after[i - 1], order[i])
<1>1. d = after
  BY DEF Heap!Deleting
<1>2. \E g : g = [i \in 0..Len(order) |->
                    IF i = 0 THEN Heap!Released
                    ELSE IF Heap!InUse(g[i - 1], order[i]) = {} THEN g[i - 1]
                    ELSE Heap!Freed(g[i - 1], order[i])]
  BY DeletingExists DEF IsDeleting
<1>3. IsDeleting(after, order, Len(order))
  BY <1>2 DEF IsDeleting
<1> HIDE DEF after
<1> QED BY <1>1, <1>3

\* After k of them the reserve and the k are free, and no byte is lost.
DeletedIn(order, k, r) ==
  /\ Kept(KH, k_blocks, r) /\ (MergedBut(KH, k_blocks, {}) => MergedBut(KH, r, {}))
  /\ \A x : x \in List(KH)!Occupied(r) <=>
              x \in List(KH)!Occupied(k_blocks) /\ x # reserved /\ \A j \in 1..k : x # order[j]

LEMMA DeletingKeeps ==
  ASSUME Heap!KHeapAssumption, Well(KH, k_blocks), Heap!InUse(k_blocks, reserved) # {},
         NEW order, Len(order) \in Nat, NEW d, d = Heap!Deleting(order)
  PROVE  \A k \in 0..Len(order) : DeletedIn(order, k, d[k])
<1> DEFINE S == {k \in 0..Len(order) : DeletedIn(order, k, d[k])}
<1>1. KH \in Nat \ {0} /\ IsDeleting(d, order, Len(order))
  BY KSizes, DeletingIs
<1>2. 0 \in S
  <2>1. d[0] = List(KH)!Freed(k_blocks, reserved) /\ List(KH)!InUse(k_blocks, reserved) # {}
    BY <1>1, KSameLists DEF IsDeleting, Heap!Released
  <2>2. DeletedIn(order, 0, d[0])
    BY <1>1, <2>1, FreedKeeps DEF DeletedIn
  <2> QED BY <2>2
<1>3. ASSUME NEW k \in 0..(Len(order) - 1), k \in S PROVE k + 1 \in S
  <2>1. DeletedIn(order, k, d[k]) /\ Well(KH, d[k])
    BY <1>3 DEF DeletedIn, Kept
  <2>2. k + 1 \in 0..Len(order) /\ k + 1 # 0 /\ (k + 1) - 1 = k
    OBVIOUS
  <2>3. d[k + 1] = IF Heap!InUse(d[k], order[k + 1]) = {} THEN d[k] ELSE Heap!Freed(d[k], order[k + 1])
    BY <1>1, <2>2 DEF IsDeleting
  <2>4. PICK a : a = order[k + 1]
    OBVIOUS
  <2>5. \A x : (\A j \in 1..(k + 1) : x # order[j]) <=> (\A j \in 1..k : x # order[j]) /\ x # a
    <3>1. \A j : j \in 1..(k + 1) <=> j \in 1..k \/ j = k + 1
      OBVIOUS
    <3> QED BY <2>4, <3>1, Zenon
  <2>6. CASE Heap!InUse(d[k], a) = {}
    <3>1. d[k + 1] = d[k] /\ a \notin List(KH)!Occupied(d[k])
      BY <2>3, <2>4, <2>6, UseSeen
    <3>2. DeletedIn(order, k + 1, d[k])
      BY <2>1, <2>5, <3>1, Zenon DEF DeletedIn
    <3> QED BY <2>2, <3>1, <3>2
  <2>7. CASE Heap!InUse(d[k], a) # {}
    <3>1. PICK r : r = List(KH)!Freed(d[k], a)
      OBVIOUS
    <3>2. d[k + 1] = r /\ List(KH)!InUse(d[k], a) # {}
      BY <2>3, <2>4, <2>7, <3>1, KSameLists
    <3>3. /\ Kept(KH, d[k], r)
          /\ \A x : x \in List(KH)!Occupied(r) <=> x \in List(KH)!Occupied(d[k]) /\ x # a
          /\ MergedBut(KH, d[k], {}) => MergedBut(KH, r, {})
      BY <1>1, <2>1, <3>1, <3>2, FreedKeeps
    <3>4. Kept(KH, k_blocks, r)
      BY <2>1, <3>3 DEF DeletedIn, Kept
    <3>5. DeletedIn(order, k + 1, r)
      BY <2>1, <2>5, <3>3, <3>4, Zenon DEF DeletedIn
    <3> QED BY <2>2, <3>2, <3>5
  <2> QED BY <2>6, <2>7
<1> HIDE DEF S
<1>4. 0..Len(order) \subseteq S
  BY <1>2, <1>3, UpTo
<1> QED BY <1>4 DEF S

-----------------------------------------------------------------------------
(* The growth *)

\* The front of a list.
LEMMA FrontKeeps ==
  ASSUME NEW h \in Nat \ {0}, NEW bs, Well(h, bs), NEW m \in 1..Len(bs), NEW r, r = SubSeq(bs, 1, m)
  PROVE  /\ Well(h, r) /\ List(h)!Bytes(r) \subseteq List(h)!Bytes(bs)
         /\ MergedBut(h, bs, {}) => MergedBut(h, r, {})
<1>1. bs \in Seq(Blk) /\ Len(bs) \in Nat /\ m \in Nat /\ m <= Len(bs)
  BY DEF Well
<1>2. r \in Seq(Blk) /\ Len(r) = m /\ \A k \in 1..m : r[k] = bs[k]
  BY <1>1, SubSeqProperties
<1>3. \A k \in 1..Len(r) : k \in 1..Len(bs) /\ r[k] = bs[k]
  BY <1>1, <1>2
<1>4. Well(h, r)
  <2>1. Single(h, bs)
    BY OneHolds
  <2>2. Single(h, r)
    BY <1>3, <2>1 DEF Single
  <2> QED BY <1>2, <2>2, WellHolds
<1>5. ASSUME NEW x \in List(h)!Bytes(r) PROVE x \in List(h)!Bytes(bs)
  <2>1. PICK k \in 1..Len(r) : Holds(h, r[k], x)
    BY <1>2, BytesHeld
  <2> QED BY <1>1, <1>3, <2>1, BytesHeld
<1>6. ASSUME MergedBut(h, bs, {}) PROVE MergedBut(h, r, {})
  <2> SUFFICES ASSUME NEW k \in 1..(Len(r) - 1) PROVE ~Meets(h, r[k], r[k + 1])
    BY DEF MergedBut
  <2>1. k \in 1..Len(r) /\ k + 1 \in 1..Len(r) /\ k \in 1..(Len(bs) - 1)
    BY <1>1, <1>2
  <2> QED BY <1>3, <1>6, <2>1 DEF MergedBut
<1> QED BY <1>4, <1>5, <1>6

\* The new blocks behind the block at last, wherever it is now, or lost.
LinkedIn(bs, last, new, r) ==
  /\ Well(KH, r)
  /\ List(KH)!Bytes(r) \subseteq List(KH)!Bytes(bs) \cup List(KH)!Bytes(new)
  /\ MergedBut(KH, bs, {}) /\ MergedBut(KH, new, {}) => MergedBut(KH, r, {})
  /\ Len(bs) > 0 /\ bs[Len(bs)].addr = last => AppendedIn(KH, bs, new, r)

LEMMA LinkedKeeps ==
  ASSUME Heap!KHeapAssumption, NEW bs, Well(KH, bs), NEW new, Well(KH, new), Len(new) >= 1, ~new[1].free,
         List(KH)!Bytes(bs) \cap List(KH)!Bytes(new) = {}, NEW last,
         NEW r, r = Heap!Linked(bs, last, new)
  PROVE  LinkedIn(bs, last, new, r)
<1>1. KH \in Nat \ {0}
  BY KSizes
<1>2. bs \in Seq(Blk) /\ Len(bs) \in Nat /\ DOMAIN bs = 1..Len(bs)
  BY DEF Well
<1>3. Heap!IndexAt(bs, last) \subseteq 1..Len(bs) /\ Heap!IndexAt(bs, last) \subseteq Nat
  BY <1>2 DEF Heap!IndexAt
<1>4. CASE Heap!IndexAt(bs, last) = {}
  <2>1. r = bs
    BY <1>4 DEF Heap!Linked
  <2>2. ~(Len(bs) > 0 /\ bs[Len(bs)].addr = last)
    <3>1. Len(bs) > 0 => Len(bs) \in 1..Len(bs)
      BY <1>2
    <3> QED BY <1>2, <1>4, <3>1 DEF Heap!IndexAt
  <2> QED BY <2>1, <2>2 DEF LinkedIn
<1>5. CASE Heap!IndexAt(bs, last) # {}
  <2>1. PICK m : m = Heap!Min(Heap!IndexAt(bs, last))
    OBVIOUS
  <2>2. m \in Heap!IndexAt(bs, last)
    <3>1. \E i \in Heap!IndexAt(bs, last) : \A l \in Heap!IndexAt(bs, last) : i <= l
      BY <1>3, <1>5, LeastNatural
    <3> QED BY <2>1, <3>1 DEF Heap!Min
  <2>3. m \in 1..Len(bs) /\ bs[m].addr = last
    BY <1>3, <2>2 DEF Heap!IndexAt
  <2>4. PICK q : q = SubSeq(bs, 1, m)
    OBVIOUS
  <2>5. r = q \o new
    BY <1>5, <2>1, <2>4 DEF Heap!Linked
  <2>6. /\ Well(KH, q) /\ List(KH)!Bytes(q) \subseteq List(KH)!Bytes(bs)
        /\ MergedBut(KH, bs, {}) => MergedBut(KH, q, {})
    BY <1>1, <2>3, <2>4, FrontKeeps
  <2>7. List(KH)!Bytes(q) \cap List(KH)!Bytes(new) = {}
    BY <2>6
  <2>8. AppendedIn(KH, q, new, r)
    BY <1>1, <2>5, <2>6, <2>7, AppendedKeeps
  <2>9. ASSUME Len(bs) > 0, bs[Len(bs)].addr = last PROVE q = bs
    <3>1. Len(bs) \in 1..Len(bs)
      BY <1>2, <2>9
    <3>2. m = Len(bs)
      BY <1>1, <2>3, <2>9, <3>1, AddressOnce
    <3> QED BY <1>2, <2>4, <3>2
  <2>10. List(KH)!Bytes(r) \subseteq List(KH)!Bytes(bs) \cup List(KH)!Bytes(new)
    BY <2>6, <2>8 DEF AppendedIn
  <2> QED BY <2>6, <2>8, <2>9, <2>10 DEF LinkedIn, AppendedIn
<1> QED BY <1>4, <1>5

-----------------------------------------------------------------------------
(* The steps *)

KTypes ==
  /\ reserved \in Nat /\ k_live \subseteq {"task", "procman"} \X Nat /\ descs \subseteq Nat
  /\ k_taken \subseteq Kernel.pages /\ lost \in BOOLEAN
  /\ k_machine \in {"up", "panic", "no memory", "corrupt"}
  /\ pm # <<>> => \E c \in [addr : Nat, n : Nat, whole : BOOLEAN] : pm = <<c>>

\* Every byte of the memory is in one block, or in none once a growth was not linked.
KMemory == List(KH)!Memory({0} \cup k_taken, KP)
KTiled == /\ Well(KH, k_blocks) /\ List(KH)!Bytes(k_blocks) \subseteq KMemory
          /\ ~lost => List(KH)!Bytes(k_blocks) = KMemory

\* Called by one at a time: the blocks in use are held, each once.
Handed == {got[2] : got \in k_live}
KOwned == /\ List(KH)!Occupied(k_blocks) = Handed \cup descs \cup {reserved}
          /\ Handed \cap descs = {} /\ reserved \notin Handed \cup descs
KAlone == /\ MergedBut(KH, k_blocks, {}) /\ k_live \subseteq {"task"} \X Nat
          /\ ~lost /\ k_machine = "up" => KOwned

KBase == KTypes /\ KTiled
KKeeps == KBase' /\ (KAlone => KAlone')

LEMMA KStopKeeps ==
  ASSUME KBase, NEW how \in {"panic", "no memory", "corrupt"}, Heap!Stop(how)
  PROVE  KKeeps
<1>1. /\ k_machine' = how /\ k_blocks' = k_blocks /\ reserved' = reserved /\ k_live' = k_live
      /\ descs' = descs /\ pm' = pm /\ k_taken' = k_taken /\ lost' = lost
  BY DEF Heap!Stop
<1>2. KTypes'
  BY <1>1 DEF KBase, KTypes
<1>3. KTiled'
  BY <1>1 DEF KBase, KTiled, KMemory
<1>4. KAlone => KAlone'
  BY <1>1 DEF KAlone
<1> QED BY <1>2, <1>3, <1>4 DEF KBase, KKeeps

\* The memory does not change, and the bytes of the list stay the same.
LEMMA SameMemory ==
  ASSUME KTiled, Kept(KH, k_blocks, k_blocks'), k_taken' = k_taken, lost' = lost
  PROVE  KTiled'
BY DEF KTiled, KMemory, Kept

LEMMA KFoundKeeps ==
  ASSUME Heap!KHeapAssumption, KBase, NEW n \in Nat, Heap!AllocFound(n)
  PROVE  KKeeps
<1>1. PICK a : a = k_blocks[Heap!FirstFit(k_blocks, n)].addr
  OBVIOUS
<1>2. /\ Heap!Fits(k_blocks, n) # {} /\ k_blocks' = Heap!Allocated(k_blocks, n)
      /\ k_live' = k_live \cup {<<"task", a>>}
      /\ reserved' = reserved /\ descs' = descs /\ pm' = pm /\ k_taken' = k_taken
      /\ lost' = lost /\ k_machine' = k_machine
  BY <1>1 DEF Heap!AllocFound
<1>3. AllocatedIn(k_blocks, a, k_blocks')
  BY <1>1, <1>2, AllocatedKeeps DEF KBase, KTiled
<1>4. KTiled'
  BY <1>2, <1>3, SameMemory DEF KBase, AllocatedIn
<1>5. KTypes'
  <2>1. k_live' \subseteq {"task", "procman"} \X Nat
    BY <1>2, <1>3, MorePairs DEF KBase, KTypes, AllocatedIn
  <2> QED BY <1>2, <2>1 DEF KBase, KTypes
<1>6. ASSUME KAlone PROVE KAlone'
  <2>1. k_live' \subseteq {"task"} \X Nat
    BY <1>2, <1>3, <1>6, MorePairs DEF KAlone, AllocatedIn
  <2>2. Handed' = Handed \cup {a}
    BY <1>2, HeldMore DEF Handed
  <2>3. KOwned => KOwned'
    BY <1>2, <1>3, <2>2 DEF KOwned, AllocatedIn
  <2>4. MergedBut(KH, k_blocks', {})
    BY <1>3, <1>6 DEF KAlone, AllocatedIn
  <2> QED BY <1>2, <1>6, <2>1, <2>3, <2>4 DEF KAlone
<1> QED BY <1>4, <1>5, <1>6 DEF KBase, KKeeps

LEMMA KFreeKeeps ==
  ASSUME Heap!KHeapAssumption, KBase, NEW got \in k_live, Heap!Free(got[1], got[2])
  PROVE  KKeeps
<1>1. PICK t, a : t = got[1] /\ a = got[2] /\ got = <<t, a>> /\ a \in Nat
  <2>1. got \in {"task", "procman"} \X Nat
    BY DEF KBase, KTypes
  <2>2. got[2] \in Nat /\ got = <<got[1], got[2]>>
    BY <2>1, Parts2
  <2> QED BY <2>2, Zenon
<1>2. CASE Heap!Stop("panic")
  BY <1>2, KStopKeeps
<1>3. ASSUME List(KH)!InUse(k_blocks, a) # {}, k_blocks' = List(KH)!Freed(k_blocks, a),
             k_live' = k_live \ {<<t, a>>}, reserved' = reserved, descs' = descs, pm' = pm,
             k_taken' = k_taken, lost' = lost, k_machine' = k_machine
      PROVE  KKeeps
  <2>1. /\ Kept(KH, k_blocks, k_blocks')
        /\ \A x : x \in List(KH)!Occupied(k_blocks') <=> x \in List(KH)!Occupied(k_blocks) /\ x # a
        /\ MergedBut(KH, k_blocks, {}) => MergedBut(KH, k_blocks', {})
    BY <1>3, KSizes, FreedKeeps DEF KBase, KTiled
  <2>2. KTiled'
    BY <1>3, <2>1, SameMemory DEF KBase
  <2>3. KTypes'
    BY <1>3 DEF KBase, KTypes
  <2>4. ASSUME KAlone PROVE KAlone'
    <3>1. k_live' \subseteq {"task"} \X Nat
      BY <1>3, <2>4 DEF KAlone
    <3>2. \A x : x \in Handed' <=> x \in Handed /\ x # a
      <4>1. ASSUME NEW m \in k_live PROVE m[2] = a <=> m = <<t, a>>
        <5>1. m = <<m[1], m[2]>> /\ m[1] \in {"task"} /\ t \in {"task"}
          BY <1>1, <2>4, Parts2 DEF KAlone
        <5> QED BY <5>1
      <4> QED BY <1>3, <4>1 DEF Handed
    <3>3. a \in Handed
      BY <1>1 DEF Handed
    <3>4. KOwned => KOwned'
      <4> SUFFICES ASSUME KOwned PROVE KOwned'
        OBVIOUS
      <4>1. a \notin descs /\ a # reserved
        BY <3>3 DEF KOwned
      <4>2. \A x : x \in List(KH)!Occupied(k_blocks') <=> x \in Handed' \cup descs \cup {reserved}
        BY <2>1, <3>2, <4>1 DEF KOwned
      <4>3. List(KH)!Occupied(k_blocks') = Handed' \cup descs \cup {reserved}
        BY <4>2, Zenon DEF List!Occupied
      <4> QED BY <1>3, <3>2, <4>3 DEF KOwned
    <3> QED BY <1>3, <2>1, <2>4, <3>1, <3>4 DEF KAlone
  <2> QED BY <2>2, <2>3, <2>4 DEF KBase, KKeeps
<1>4. \/ Heap!Stop("panic")
      \/ /\ List(KH)!InUse(k_blocks, a) # {} /\ k_blocks' = List(KH)!Freed(k_blocks, a)
         /\ k_live' = k_live \ {<<t, a>>} /\ reserved' = reserved /\ descs' = descs /\ pm' = pm
         /\ k_taken' = k_taken /\ lost' = lost /\ k_machine' = k_machine
  BY <1>1, KSameLists DEF Heap!Free
<1> QED BY <1>2, <1>3, <1>4

LEMMA KFindsKeeps ==
  ASSUME Heap!KHeapAssumption, KBase, NEW size \in Nat, Heap!PmFinds(size)
  PROVE  KBase'
<1>1. PICK n, i : n = Heap!Aligned(size) /\ i = Heap!FirstFit(k_blocks, n)
  OBVIOUS
<1>2. PICK c : c = [addr |-> k_blocks[i].addr, n |-> n, whole |-> Heap!Whole(k_blocks[i], n)]
  OBVIOUS
<1>3. /\ Heap!Fits(k_blocks, n) # {} /\ pm' = <<c>>
      /\ k_blocks' = k_blocks /\ k_live' = k_live /\ reserved' = reserved /\ descs' = descs
      /\ k_taken' = k_taken /\ lost' = lost /\ k_machine' = k_machine
  BY <1>1, <1>2 DEF Heap!PmFinds
<1>4. k_blocks \in Seq(Blk) /\ n \in Nat
  BY <1>1, KSizes DEF KBase, KTiled, Well
<1>5. k_blocks[i] \in Blk
  BY <1>1, <1>3, <1>4, FirstFits
<1>6. c \in [addr : Nat, n : Nat, whole : BOOLEAN]
  <2>1. k_blocks[i].addr \in Nat
    BY <1>5 DEF Blk
  <2>2. Heap!Whole(k_blocks[i], n) \in BOOLEAN
    BY DEF Heap!Whole
  <2> QED BY <1>2, <1>4, <2>1, <2>2
<1>7. KTypes'
  BY <1>3, <1>6 DEF KBase, KTypes
<1>8. KTiled'
  BY <1>3 DEF KBase, KTiled, KMemory
<1> QED BY <1>7, <1>8 DEF KBase

\* Whoever cut the block that the process manager found, it takes what is at its
\* address or stops.
LEMMA KTakesKeeps ==
  ASSUME Heap!KHeapAssumption, KBase, Heap!PmTakes
  PROVE  KBase'
<1>1. PICK c \in [addr : Nat, n : Nat, whole : BOOLEAN] : pm = <<c>> /\ pm[1] = c
  BY DEF KBase, KTypes, Heap!PmTakes
<1>2. c.addr \in Nat /\ c.n \in Nat /\ c.whole \in BOOLEAN
  OBVIOUS
<1>3. CASE Heap!Stop("corrupt")
  BY <1>3, KStopKeeps DEF KKeeps
<1>4. ASSUME NEW i \in Heap!IndexAt(k_blocks, c.addr), c.whole \/ k_blocks[i].size >= c.n + KH,
             k_blocks' = (IF c.whole THEN Heap!Taken(k_blocks, i) ELSE Heap!Cut(k_blocks, i, c.n)),
             k_live' = k_live \cup {<<"procman", c.addr>>}, pm' = <<>>,
             reserved' = reserved, descs' = descs, k_taken' = k_taken, lost' = lost, k_machine' = k_machine
      PROVE  KBase'
  <2>1. Well(KH, k_blocks) /\ DOMAIN k_blocks = 1..Len(k_blocks)
    BY DEF KBase, KTiled, Well
  <2>2. i \in 1..Len(k_blocks)
    BY <2>1 DEF Heap!IndexAt
  <2>3. TakenIn(k_blocks, i, k_blocks')
    BY <1>2, <1>4, <2>1, <2>2, TakenKeeps
  <2>4. KTiled'
    BY <1>4, <2>3, SameMemory DEF KBase, TakenIn
  <2>5. KTypes'
    <3>1. k_live' \subseteq {"task", "procman"} \X Nat
      <4>1. k_live \subseteq {"task", "procman"} \X Nat /\ "procman" \in {"task", "procman"}
        BY DEF KBase, KTypes
      <4>2. k_live \cup {<<"procman", c.addr>>} \subseteq {"task", "procman"} \X Nat
        BY <1>2, <4>1, MorePairs
      <4> QED BY <1>4, <4>2
    <3> QED BY <1>4, <3>1 DEF KBase, KTypes
  <2> QED BY <2>4, <2>5 DEF KBase
<1>5. \/ Heap!Stop("corrupt")
      \/ \E i \in Heap!IndexAt(k_blocks, c.addr) :
           /\ c.whole \/ k_blocks[i].size >= c.n + KH
           /\ k_blocks' = (IF c.whole THEN Heap!Taken(k_blocks, i) ELSE Heap!Cut(k_blocks, i, c.n))
           /\ k_live' = k_live \cup {<<"procman", c.addr>>} /\ pm' = <<>>
           /\ reserved' = reserved /\ descs' = descs /\ k_taken' = k_taken /\ lost' = lost
           /\ k_machine' = k_machine
  BY <1>1 DEF Heap!PmTakes, KH
<1> QED BY <1>3, <1>4, <1>5

LEMMA OrderIs ==
  ASSUME NEW order \in Heap!Orders
  PROVE  /\ Len(order) \in Nat /\ Heap!Range(order) \subseteq descs
         /\ Heap!Range(order) = {order[j] : j \in 1..Len(order)}
<1>1. PICK k \in 0..Heap!Cardinality(descs) : order \in [1..k -> descs]
  BY DEF Heap!Orders
<1>2. k \in Nat
  OBVIOUS
<1>3. order \in Seq(descs) /\ Len(order) = k /\ DOMAIN order = 1..k
  BY <1>1, <1>2
<1> QED BY <1>2, <1>3 DEF Heap!Range

LEMMA NewBlocksAre ==
  ASSUME Heap!KHeapAssumption, NEW n \in Nat, NEW page \in Kernel.pages,
         NEW new, new = Heap!NewBlocks(page, n)
  PROVE  GrownIn(KH, KP, page, Heap!PagesFor(n), new)
<1>1. KH \in Nat \ {0} /\ KP \in Nat \ {0} /\ page \in Nat
  BY KSizes
<1>2. PICK k : k = Heap!PagesFor(n)
  OBVIOUS
<1>3. k \in Nat /\ k * KP >= KH + n + KH
  <2>1. KH + n + KH \in Nat /\ k = (KH + n + KH + KP - 1) \div KP
    BY <1>1, <1>2 DEF Heap!PagesFor, KH, KP
  <2> QED BY <1>1, <2>1, EnoughPages
<1>4. PICK rest : rest = k * KP - KH - n - KH
  OBVIOUS
<1>5. rest \in Nat /\ rest = k * KP - n - 2 * KH
  <2>1. PICK m \in Nat : m = k * KP
    BY <1>1, <1>3
  <2> QED BY <1>1, <1>3, <1>4, <2>1
<1>6. new = <<[addr |-> page * KP, size |-> n, free |-> FALSE],
              [addr |-> page * KP + KH + n, size |-> rest, free |-> TRUE]>>
  BY <1>2, <1>4 DEF Heap!NewBlocks, Heap!Block, KH, KP
<1>7. GrownIn(KH, KP, page, k, new)
  BY <1>1, <1>3, <1>5, <1>6, GrownKeeps
<1> QED BY <1>2, <1>7

\* The list after the deletions, with a block cut for a descriptor if there was a split.
SplitIn(order, xs, r) ==
  /\ Kept(KH, k_blocks, r) /\ (MergedBut(KH, k_blocks, {}) => MergedBut(KH, r, {}))
  /\ xs \subseteq Nat
  /\ \A x : x \in List(KH)!Occupied(r) <=>
              \/ x \in xs
              \/ x \in List(KH)!Occupied(k_blocks) /\ x # reserved /\ x \notin Heap!Range(order)
  /\ \A x \in xs : ~(x \in List(KH)!Occupied(k_blocks) /\ x # reserved /\ x \notin Heap!Range(order))

LEMMA SplitKeeps ==
  ASSUME Heap!KHeapAssumption, KBase, Heap!InUse(k_blocks, reserved) # {}, NEW order \in Heap!Orders,
         NEW bs, bs = Heap!Deleting(order)[Len(order)], NEW split \in BOOLEAN,
         NEW n \in Nat, ~(split /\ Heap!Fits(bs, n) = {}),
         NEW r, r = IF split THEN Heap!Allocated(bs, n) ELSE bs,
         NEW xs, xs = IF split THEN {bs[Heap!FirstFit(bs, n)].addr} ELSE {}
  PROVE  SplitIn(order, xs, r)
<1>1. Len(order) \in Nat /\ Heap!Range(order) = {order[j] : j \in 1..Len(order)}
  BY OrderIs
<1>2. Len(order) \in 0..Len(order)
  BY <1>1
<1>3. DeletedIn(order, Len(order), bs)
  BY <1>1, <1>2, DeletingKeeps DEF KBase, KTiled
<1>4. \A x : (\A j \in 1..Len(order) : x # order[j]) <=> x \notin Heap!Range(order)
  BY <1>1
<1>5. \A x : x \in List(KH)!Occupied(bs) <=>
             x \in List(KH)!Occupied(k_blocks) /\ x # reserved /\ x \notin Heap!Range(order)
  BY <1>3, <1>4, Zenon DEF DeletedIn
<1>6. Kept(KH, k_blocks, bs) /\ Well(KH, bs) /\ (MergedBut(KH, k_blocks, {}) => MergedBut(KH, bs, {}))
  BY <1>3 DEF DeletedIn, Kept
<1>7. CASE ~split
  BY <1>5, <1>6, <1>7 DEF SplitIn
<1>8. CASE split
  <2>1. PICK a : a = bs[Heap!FirstFit(bs, n)].addr
    OBVIOUS
  <2>2. AllocatedIn(bs, a, r)
    BY <1>6, <1>8, <2>1, AllocatedKeeps
  <2>3. xs = {a}
    BY <1>8, <2>1
  <2>4. Kept(KH, k_blocks, r)
    BY <1>6, <2>2 DEF AllocatedIn, Kept
  <2> QED BY <1>5, <1>6, <2>2, <2>3, <2>4 DEF SplitIn, AllocatedIn
<1> QED BY <1>7, <1>8

\* A tiled heap has a block.
LEMMA SomeBlock ==
  ASSUME Heap!KHeapAssumption, NEW bs, Well(KH, bs), List(KH)!Bytes(bs) = KMemory
  PROVE  Len(bs) \in Nat /\ Len(bs) > 0
<1>1. KH \in Nat \ {0} /\ KP \in Nat \ {0} /\ bs \in Seq(Blk)
  BY KSizes DEF Well
<1>2. 0 \in KMemory
  <2>1. 0 \in (0 * KP)..(0 * KP + KP - 1)
    BY <1>1
  <2> QED BY <1>1, <2>1, MemoryPages DEF KMemory
<1>3. PICK i \in 1..Len(bs) : Holds(KH, bs[i], 0)
  BY <1>1, <1>2, BytesHeld
<1> QED BY <1>1, <1>3

LEMMA KGrowKeeps ==
  ASSUME Heap!KHeapAssumption, KBase, Heap!InUse(k_blocks, reserved) # {}, NEW n \in Nat,
         NEW page \in Kernel.pages, page..(page + Heap!PagesFor(n) - 1) \subseteq Kernel.pages \ k_taken,
         NEW split \in BOOLEAN, NEW order \in Heap!Orders, Heap!Grow(n, page, split, order)
  PROVE  KKeeps
<1>1. /\ KH \in Nat \ {0} /\ KP \in Nat \ {0} /\ page \in Nat /\ Kernel.pages \subseteq Nat \ {0}
      /\ Heap!Aligned(Kernel.descriptor) \in Nat /\ Heap!Aligned(Kernel.reserve) \in Nat
  BY KSizes
<1>2. PICK last, d, m : last = Heap!Last(k_blocks).addr /\ d = Heap!Aligned(Kernel.descriptor)
                        /\ m = Heap!Aligned(Kernel.reserve)
  OBVIOUS
<1>3. PICK bs1 : bs1 = Heap!Deleting(order)[Len(order)]
  OBVIOUS
<1>4. PICK bs2 : bs2 = IF split THEN Heap!Allocated(bs1, d) ELSE bs1
  OBVIOUS
<1>5. PICK xs : xs = IF split THEN {bs1[Heap!FirstFit(bs1, d)].addr} ELSE {}
  OBVIOUS
<1>6. PICK new : new = Heap!NewBlocks(page, n)
  OBVIOUS
<1>7. PICK bs3 : bs3 = Heap!Linked(bs2, last, new)
  OBVIOUS
<1>8. PICK y, k : y = bs3[Heap!FirstFit(bs3, m)].addr /\ k = Heap!PagesFor(n)
  OBVIOUS
<1>9. ASSUME ~(split /\ Heap!Fits(bs1, d) = {}), Heap!Fits(bs3, m) # {},
             k_blocks' = Heap!Allocated(bs3, m), reserved' = y,
             k_live' = k_live \cup {<<"task", page * KP>>},
             descs' = (descs \ Heap!Range(order)) \cup xs,
             k_taken' = k_taken \cup page..(page + k - 1),
             lost' = (lost \/ Heap!Last(bs2).addr # last), pm' = pm, k_machine' = k_machine
      PROVE  KKeeps
  <2>1. SplitIn(order, xs, bs2) /\ Well(KH, bs2) /\ List(KH)!Bytes(bs2) = List(KH)!Bytes(k_blocks)
    <3>1. d \in Nat
      BY <1>1, <1>2
    <3>2. SplitIn(order, xs, bs2)
      BY <1>3, <1>4, <1>5, <1>9, <3>1, SplitKeeps, Zenon
    <3> QED BY <3>2 DEF SplitIn, Kept
  <2>2. GrownIn(KH, KP, page, k, new)
    BY <1>6, <1>8, NewBlocksAre
  <2>3. /\ List(KH)!Bytes(new) = List(KH)!Memory(page..(page + k - 1), KP)
        /\ Well(KH, new) /\ Len(new) >= 1 /\ ~new[1].free
    BY <2>2 DEF GrownIn
  <2>4. KMemory' = KMemory \cup List(KH)!Bytes(new)
    <3>1. PICK ps, qs : ps = {0} \cup k_taken /\ qs = page..(page + k - 1)
      OBVIOUS
    <3>2. List(KH)!Memory(ps \cup qs, KP) = List(KH)!Memory(ps, KP) \cup List(KH)!Memory(qs, KP)
      BY PagesTogether
    <3>3. {0} \cup k_taken' = ps \cup qs
      BY <1>9, <3>1
    <3>4. KMemory' = List(KH)!Memory(ps \cup qs, KP)
      BY <3>3 DEF KMemory
    <3> QED BY <2>3, <3>1, <3>2, <3>4 DEF KMemory
  <2>5. KMemory \cap List(KH)!Bytes(new) = {}
    <3>1. PICK ps, qs : ps = {0} \cup k_taken /\ qs = page..(page + k - 1)
      OBVIOUS
    <3>2. ps \in SUBSET Nat /\ qs \in SUBSET Nat /\ ps \cap qs = {}
      <4>1. k_taken \subseteq Kernel.pages /\ Kernel.pages \subseteq Nat \ {0}
        BY <1>1 DEF KBase, KTypes
      <4>2. qs \subseteq Kernel.pages \ k_taken
        BY <1>8, <3>1
      <4> QED BY <3>1, <4>1, <4>2
    <3>3. List(KH)!Memory(ps, KP) \cap List(KH)!Memory(qs, KP) = {}
      BY <1>1, <3>2, PagesApart
    <3> QED BY <2>3, <3>1, <3>3 DEF KMemory
  <2>6. List(KH)!Bytes(bs2) \cap List(KH)!Bytes(new) = {} /\ List(KH)!Bytes(bs2) \subseteq KMemory
    BY <2>1, <2>5 DEF KBase, KTiled
  <2>7. LinkedIn(bs2, last, new, bs3)
    BY <1>7, <2>1, <2>3, <2>6, LinkedKeeps
  <2>8. AllocatedIn(bs3, y, k_blocks')
    BY <1>1, <1>2, <1>8, <1>9, <2>7, AllocatedKeeps DEF LinkedIn
  <2>9. ASSUME ~lost' PROVE AppendedIn(KH, bs2, new, bs3)
    <3>1. ~lost /\ Heap!Last(bs2).addr = last
      BY <1>9, <2>9
    <3>2. List(KH)!Bytes(bs2) = KMemory
      BY <2>1, <3>1 DEF KBase, KTiled
    <3>3. Len(bs2) > 0 /\ bs2[Len(bs2)].addr = last
      BY <2>1, <3>1, <3>2, SomeBlock DEF Heap!Last
    <3> QED BY <2>7, <3>3 DEF LinkedIn
  <2>10. KTiled'
    <3>1. Well(KH, k_blocks') /\ List(KH)!Bytes(k_blocks') = List(KH)!Bytes(bs3)
      BY <2>8 DEF AllocatedIn, Kept
    <3>2. List(KH)!Bytes(k_blocks') \subseteq KMemory'
      BY <2>4, <2>6, <2>7, <3>1 DEF LinkedIn
    <3>3. ASSUME ~lost' PROVE List(KH)!Bytes(k_blocks') = KMemory'
      <4>1. ~lost
        BY <1>9, <3>3
      <4>2. List(KH)!Bytes(bs2) = KMemory
        BY <2>1, <4>1 DEF KBase, KTiled
      <4> QED BY <2>4, <2>9, <3>1, <3>3, <4>2 DEF AppendedIn
    <3> QED BY <3>1, <3>2, <3>3 DEF KTiled
  <2>11. page * KP \in Nat
    BY <1>1
  <2>12. KTypes'
    <3>1. k_live' \subseteq {"task", "procman"} \X Nat
      <4>1. k_live \subseteq {"task", "procman"} \X Nat /\ "task" \in {"task", "procman"}
        BY DEF KBase, KTypes
      <4> QED BY <1>9, <2>11, <4>1, MorePairs
    <3>2. descs' \subseteq Nat /\ reserved' \in Nat
      BY <1>9, <2>1, <2>8 DEF KBase, KTypes, SplitIn, AllocatedIn
    <3>3. lost' \in BOOLEAN /\ k_taken' \subseteq Kernel.pages
      <4>1. lost' \in BOOLEAN
        BY <1>9, Zenon DEF KBase, KTypes
      <4>2. k_taken' \subseteq Kernel.pages
        BY <1>8, <1>9 DEF KBase, KTypes
      <4> QED BY <4>1, <4>2
    <3> QED BY <1>9, <3>1, <3>2, <3>3 DEF KBase, KTypes
  <2>13. ASSUME KAlone PROVE KAlone'
    <3>1. MergedBut(KH, k_blocks', {})
      BY <2>1, <2>2, <2>7, <2>8, <2>13 DEF KAlone, SplitIn, GrownIn, LinkedIn, AllocatedIn
    <3>2. k_live' \subseteq {"task"} \X Nat
      BY <1>9, <2>11, <2>13, MorePairs DEF KAlone
    <3>3. ASSUME ~lost', k_machine' = "up" PROVE KOwned'
      <4>1. KOwned
        BY <1>9, <2>13, <3>3 DEF KAlone
      <4>2. Handed' = Handed \cup {page * KP}
        BY <1>9, HeldMore DEF Handed
      <4>3. /\ \A x : x \in List(KH)!Occupied(k_blocks') <=> x \in List(KH)!Occupied(bs3) \/ x = y
            /\ y \notin List(KH)!Occupied(bs3)
        BY <2>8 DEF AllocatedIn
      <4>4. \A x : x \in List(KH)!Occupied(bs3) <=> x \in List(KH)!Occupied(bs2) \/ x = page * KP
        BY <2>2, <2>9, <3>3 DEF AppendedIn, GrownIn
      <4>5. page * KP \notin List(KH)!Occupied(bs2)
        <5>1. page * KP \in List(KH)!Bytes(new)
          BY <1>1, <2>2, OccupiedBytes DEF GrownIn
        <5>2. List(KH)!Occupied(bs2) \subseteq List(KH)!Bytes(bs2)
          BY <1>1, <2>1, OccupiedBytes
        <5> QED BY <2>6, <5>1, <5>2
      <4>6. \A x : x \in List(KH)!Occupied(bs2) <=> x \in Handed \/ x \in descs'
        BY <1>9, <2>1, <4>1, OrderIs DEF SplitIn, KOwned
      <4>7. Handed \cap descs' = {}
        BY <1>9, <2>1, <4>1, OrderIs DEF SplitIn, KOwned
      <4>8. \A x : x \in List(KH)!Occupied(k_blocks') <=> x \in Handed' \cup descs' \cup {reserved'}
        BY <1>9, <4>2, <4>3, <4>4, <4>6
      <4>9. List(KH)!Occupied(k_blocks') = Handed' \cup descs' \cup {reserved'}
        BY <4>8, Zenon DEF List!Occupied
      <4>10. Handed' \cap descs' = {} /\ reserved' \notin Handed' \cup descs'
        BY <1>9, <4>2, <4>3, <4>4, <4>5, <4>6, <4>7
      <4> QED BY <4>9, <4>10 DEF KOwned
    <3> QED BY <3>1, <3>2, <3>3 DEF KAlone
  <2> QED BY <2>10, <2>12, <2>13 DEF KBase, KKeeps
<1>10. \/ Heap!Stop("panic") \/ Heap!Stop("corrupt")
       \/ /\ ~(split /\ Heap!Fits(bs1, d) = {}) /\ Heap!Fits(bs3, m) # {}
          /\ k_blocks' = Heap!Allocated(bs3, m) /\ reserved' = y
          /\ k_live' = k_live \cup {<<"task", page * KP>>}
          /\ descs' = (descs \ Heap!Range(order)) \cup xs
          /\ k_taken' = k_taken \cup page..(page + k - 1)
          /\ lost' = (lost \/ Heap!Last(bs2).addr # last) /\ pm' = pm /\ k_machine' = k_machine
  BY <1>2, <1>3, <1>4, <1>5, <1>6, <1>7, <1>8 DEF Heap!Grow, Heap!Again, KP
<1> QED BY <1>9, <1>10, KStopKeeps

LEMMA KAllocKeeps ==
  ASSUME Heap!KHeapAssumption, KBase, NEW size \in Nat, Heap!Alloc(size)
  PROVE  KKeeps
<1>1. PICK n \in Nat : n = Heap!Aligned(size)
  BY KSizes
<1>2. CASE Heap!AllocFound(n)
  BY <1>2, KFoundKeeps
<1>3. CASE Heap!AllocGrows(n)
  <2>1. CASE Heap!Stop("panic") \/ Heap!Stop("no memory")
    BY <2>1, KStopKeeps
  <2>2. ASSUME Heap!InUse(k_blocks, reserved) # {}, NEW page \in Kernel.pages, NEW split \in BOOLEAN,
               NEW order \in Heap!Orders,
               page..(page + Heap!PagesFor(n) - 1) \subseteq Kernel.pages \ k_taken,
               Heap!Grow(n, page, split, order)
        PROVE  KKeeps
    BY <2>2, KGrowKeeps
  <2> QED BY <1>3, <2>1, <2>2 DEF Heap!AllocGrows
<1> QED BY <1>1, <1>2, <1>3 DEF Heap!Alloc

LEMMA KAloneKeeps ==
  ASSUME Heap!KHeapAssumption, KBase, Heap!Alone
  PROVE  KKeeps
BY KSizes, KAllocKeeps, KFreeKeeps DEF Heap!Alone

LEMMA KNext ==
  ASSUME Heap!KHeapAssumption, KBase, Heap!Next
  PROVE  KBase'
BY KSizes, KAloneKeeps, KFindsKeeps, KTakesKeeps DEF Heap!Next, KKeeps

LEMMA KInit == ASSUME Heap!KHeapAssumption, Heap!Init PROVE KBase /\ KAlone
<1>1. KH \in Nat \ {0} /\ KP \in Nat \ {0} /\ KH + Heap!Aligned(Kernel.reserve) <= KP
      /\ Heap!Aligned(Kernel.reserve) \in Nat
  BY KSizes
<1>2. PICK m \in Nat : m = Heap!Aligned(Kernel.reserve)
  BY <1>1
<1>3. PICK b : b = [addr |-> 0, size |-> KP - KH, free |-> TRUE]
  OBVIOUS
<1>4. b \in Blk /\ b.addr = 0 /\ b.size = KP - KH /\ b.free /\ b.size >= m
  BY <1>1, <1>2, <1>3 DEF Blk
<1>5. PICK bs : bs = <<b>>
  OBVIOUS
<1>6. bs \in Seq(Blk) /\ Len(bs) = 1 /\ bs[1] = b /\ DOMAIN bs = {1} /\ 1..Len(bs) = {1}
  BY <1>4, <1>5
<1>7. /\ k_blocks = Heap!Allocated(bs, m) /\ reserved = 0 /\ k_live = {} /\ descs = {}
      /\ pm = <<>> /\ k_taken = {} /\ lost = FALSE /\ k_machine = "up"
  BY <1>2, <1>3, <1>5 DEF Heap!Init, Heap!Block, KH, KP
<1>8. Well(KH, bs)
  <2>1. Single(KH, bs)
    BY <1>6 DEF Single
  <2> QED BY <1>1, <1>6, <2>1, WellHolds
<1>9. List(KH)!Bytes(bs) = KMemory
  <2>1. \A x : x \in List(KH)!Bytes(bs) <=> Holds(KH, b, x)
    BY <1>1, <1>6, BytesHeld
  <2>2. \A x : Holds(KH, b, x) <=> x \in 0..(KP - 1)
    BY <1>1, <1>4 DEF Holds
  <2>3. \A x : x \in List(KH)!Memory({0}, KP) <=> x \in 0..(KP - 1)
    <3>1. 0 * KP = 0 /\ 0 * KP + KP - 1 = KP - 1
      BY <1>1
    <3> QED BY <3>1 DEF List!Memory
  <2>4. {0} \cup k_taken = {0}
    BY <1>7
  <2>5. \A x : x \in List(KH)!Bytes(bs) <=> x \in List(KH)!Memory({0}, KP)
    BY <2>1, <2>2, <2>3, Zenon
  <2> QED BY <2>4, <2>5 DEF List!Bytes, List!Memory, KMemory
<1>10. Heap!Fits(bs, m) = {1}
  BY <1>4, <1>6 DEF Heap!Fits
<1>11. Heap!FirstFit(bs, m) = 1
  BY <1>6, <1>10, FirstFits
<1>12. AllocatedIn(bs, 0, k_blocks)
  BY <1>4, <1>6, <1>7, <1>8, <1>10, <1>11, AllocatedKeeps
<1>13. KTiled
  BY <1>9, <1>12 DEF KTiled, AllocatedIn, Kept
<1>14. KTypes
  BY <1>7 DEF KTypes
<1>15. List(KH)!Occupied(bs) = {} /\ MergedBut(KH, bs, {})
  BY <1>4, <1>6 DEF List!Occupied, MergedBut
<1>16. KOwned
  <2>1. \A x : x \in List(KH)!Occupied(k_blocks) <=> x \in Handed \cup descs \cup {reserved}
    BY <1>7, <1>12, <1>15 DEF AllocatedIn, Handed
  <2>2. List(KH)!Occupied(k_blocks) = Handed \cup descs \cup {reserved}
    BY <2>1, Zenon DEF List!Occupied
  <2>3. Handed = {}
    BY <1>7 DEF Handed
  <2> QED BY <1>7, <2>2, <2>3 DEF KOwned
<1>17. KAlone
  BY <1>7, <1>12, <1>15, <1>16 DEF KAlone, AllocatedIn
<1> QED BY <1>13, <1>14, <1>17 DEF KBase

KInv == KBase /\ (part = "heap" => KAlone)

LEMMA KSays == ASSUME KInv PROVE HeapSound
<1>1. KTypes /\ Well(KH, k_blocks) /\ k_blocks \in Seq(Blk)
  BY DEF KInv, KBase, KTiled, Well
<1>2. Heap!TypeOK
  <2>1. \A i \in DOMAIN k_blocks : k_blocks[i] \in Blk
    BY <1>1
  <2>2. \A i \in DOMAIN k_blocks : k_blocks[i].size >= 0 /\ k_blocks[i].free \in BOOLEAN
    BY <2>1 DEF Blk
  <2> QED BY <1>1, <2>2 DEF KTypes, Heap!TypeOK
<1>3. Heap!Apart
  BY <1>1, KSameLists DEF Heap!Apart, Well
<1>4. Heap!Tiled
  BY KSameLists DEF KInv, KBase, KTiled, KMemory, Heap!Tiled, KP
<1>5. ASSUME part = "heap" PROVE Heap!Merged /\ Heap!Owned
  <2>1. MergedBut(KH, k_blocks, {}) /\ (~lost /\ k_machine = "up" => KOwned)
    BY <1>5 DEF KInv, KAlone
  <2>2. Heap!Merged
    BY <2>1 DEF MergedBut, Meets, Heap!Merged, Heap!Coalesced, Heap!End, List!End, KH
  <2>3. Heap!Owned
    BY <2>1, KSameLists DEF KOwned, Handed, Heap!Owned
  <2> QED BY <2>2, <2>3
<1> QED BY <1>2, <1>3, <1>4, <1>5 DEF HeapSound

\* For pages, blocks and requests of any size: no byte of the kernel's heap is in two
\* blocks, and until a growth is not linked none is in no block, whoever is switched
\* in the middle of kmalloc; called by one at a time kmalloc and kfree leave no free
\* neighbours apart, and the blocks in use are those that the callers, the memory
\* manager and the reserve hold (kmalloc.cpp:28-127).
THEOREM HeapAlwaysSound == ASSUME PartsAssumption PROVE AllSpec => []HeapSound
<1>1. Heap!KHeapAssumption
  BY DEF PartsAssumption
<1>2. AllInit => KInv
  BY <1>1, KInit DEF AllInit, KInv
<1>3. ASSUME KInv, [AllNext]_allVars PROVE KInv'
  <2>1. CASE part = "heap" /\ Heap!Alone /\ part' = part
    BY <1>1, <1>3, <2>1, KAloneKeeps DEF KInv, KKeeps
  <2>2. CASE part = "heap_shared" /\ Heap!Next /\ part' = part
    BY <1>1, <1>3, <2>2, KNext DEF KInv
  <2>3. CASE UNCHANGED kheapVars /\ part' = part
    BY <1>3, <2>3 DEF kheapVars, KInv, KBase, KTypes, KTiled, KMemory, KAlone, KOwned, Handed
  <2> QED BY <1>3, <2>1, <2>2, <2>3 DEF AllNext, allVars, Pages, Heaps, Mallocs
<1>4. KInv => HeapSound
  BY KSays
<1> QED BY <1>2, <1>3, <1>4, PTL DEF AllSpec

-----------------------------------------------------------------------------
(* Address spaces: a list of blocks that tiles the space and a table that agrees *)
(* with it, as long as there is one.  A step of one space leaves the pages of    *)
(* the others alone, so that what holds of them is kept.                         *)

VBlock == [first : Nat, count : Nat, physical : Nat, allocated : BOOLEAN, reserved : BOOLEAN]
Purpose == [what : {"free", "image", "directory", "table", "block", "stack"},
            of : Virtual.space \cup {0}]

\* The blocks of a list that are mapped: the first one is the kernel's area.
Allotted(bs) == {bs[i] : i \in {j \in 2..Len(bs) : bs[j].allocated}}

\* The list tiles the user's space.
Listed(bs) ==
  /\ Len(bs) >= 2 /\ bs[1].allocated /\ bs[1].reserved /\ bs[1].first = 0
  /\ bs[1].count = Virtual.start - 1
  /\ bs[2].first = Virtual.start /\ bs[Len(bs)].first + bs[Len(bs)].count = Virtual.end
  /\ \A i \in 2..Len(bs) :
       bs[i].first >= Virtual.start /\ bs[i].first + bs[i].count <= Virtual.end
  /\ \A i, j \in 2..Len(bs) : i < j => bs[i].first + bs[i].count <= bs[j].first
  /\ \A i \in 2..(Len(bs) - 1) : bs[i + 1].first = bs[i].first + bs[i].count

\* A table maps the blocks, each to the pages behind its first one.
Maps(bs, table) ==
  /\ \A v \in DOMAIN table :
       \E b \in Allotted(bs) : v \in b.first..(b.first + b.count - 1)
  /\ \A b \in Allotted(bs) : \A v \in b.first..(b.first + b.count - 1) :
       v \in DOMAIN table /\ table[v] = b.physical + (v - b.first)

Serves(what, s) == {p \in Virtual.pages : use[p] = [what |-> what, of |-> s]}
Behind(b) == b.physical..(b.physical + b.count - 1)

\* The pages behind a block are the program's file, were taken for it, or are a device.
Backed(s, b) ==
  /\ b.count >= 1
  /\ IF b.reserved THEN Behind(b) \subseteq Serves("image", s)
     ELSE Behind(b) \subseteq Serves("block", s) \/ (b.count = 1 /\ b.physical \in Virtual.device)

TablesOf(table) == {v \div Virtual.table : v \in DOMAIN table}

Upheld(s) ==
  /\ v_blocks[s] \in Seq(VBlock) /\ Listed(v_blocks[s])
  /\ Maps(v_blocks[s], pte[s])
  /\ \A b \in Allotted(v_blocks[s]) : Backed(s, b)
  /\ \A p \in Serves("block", s) :
       \E b \in Allotted(v_blocks[s]) : ~b.reserved /\ p \in Behind(b)
  /\ Cardinality(Serves("table", s)) = Cardinality(TablesOf(pte[s]))

\* Before it is built and when its last thread has died.
Bare(s) == /\ v_blocks[s] = <<>> /\ DOMAIN pte[s] = {}
           /\ Serves("table", s) = {} /\ Serves("directory", s) = {} /\ Serves("block", s) = {}

HasSpace(s) == pc[s][1] \in {"segment", "stack", "thread", "live"}

Lives(s) ==
  /\ threads[s] \in 0..Virtual.threads
  /\ pc[s][1] \in {"thread", "live"} => threads[s] >= 1
  /\ pc[s][1] = "thread" => threads[s] < Virtual.threads
  /\ pc[s][1] = "segment" => pc[s][2] \in Nat \ {0}

InFile(s) == image[s].page..(image[s].page + image[s].program.pages - 1)
Imaged(s) ==
  pc[s][1] # "none" => /\ image[s] \in [program : Virtual.programs, page : Nat]
                       /\ InFile(s) \subseteq Serves("image", s)

Whole(s) == /\ Lives(s) /\ Imaged(s)
            /\ IF HasSpace(s) THEN Upheld(s) ELSE Bare(s)

STypes ==
  /\ use \in [Virtual.pages -> Purpose]
  /\ \A p \in Virtual.pages : use[p].what = "free" => use[p].of = 0
  /\ DOMAIN v_blocks = Virtual.space
  /\ DOMAIN pte = Virtual.space
  /\ DOMAIN image = Virtual.space
  /\ threads \in [Virtual.space -> Nat]
  /\ DOMAIN pc = Virtual.space 
  /\ v_machine \in {"up", "fault", "panic"}

SInv == STypes /\ \A s \in Virtual.space : Whole(s)

-----------------------------------------------------------------------------
LEMMA ListedTyped ==
  ASSUME NEW bs, bs \in Seq(VBlock), NEW i \in 1..Len(bs)
  PROVE  bs[i] \in VBlock /\ bs[i].first \in Nat /\ bs[i].count \in Nat /\ bs[i].physical \in Nat
<1>1. bs[i] \in VBlock
  OBVIOUS
<1> QED BY <1>1 DEF VBlock

IsInserted(bs, i, x, r) ==
  /\ r \in Seq(VBlock) /\ Len(r) = Len(bs) + 1
  /\ \A j \in 1..(Len(bs) + 1) :
       r[j] = IF j < i THEN bs[j] ELSE IF j = i THEN x ELSE bs[j - 1]

LEMMA InsertIs ==
  ASSUME NEW bs \in Seq(VBlock), NEW i \in 2..(Len(bs) + 1), NEW x \in VBlock,
         NEW r, r = Spaces!InsertAt(bs, i, x)
  PROVE  IsInserted(bs, i, x, r)
<1>1. PICK a : a = SubSeq(bs, 1, i - 1)
  OBVIOUS
<1>2. PICK c : c = SubSeq(bs, i, Len(bs))
  OBVIOUS
<1>3. a \in Seq(VBlock) /\ Len(a) = i - 1 /\ \A j \in 1..(i - 1) : a[j] = bs[j]
  BY <1>1, SubSeqProperties
<1>4. c \in Seq(VBlock) /\ Len(c) = Len(bs) - i + 1 /\ \A j \in 1..(Len(bs) - i + 1) : c[j] = bs[i + j - 1]
  BY <1>2, SubSeqProperties
<1>5. r = (a \o <<x>>) \o c
  BY <1>1, <1>2 DEF Spaces!InsertAt
<1>6. PICK w : w = a \o <<x>>
  OBVIOUS
<1>7. w \in Seq(VBlock) /\ Len(w) = i /\ w[i] = x /\ \A j \in 1..(i - 1) : w[j] = bs[j]
  BY <1>3, <1>6
<1>8. r \in Seq(VBlock) /\ Len(r) = Len(bs) + 1
  <2>1. r \in Seq(VBlock) /\ Len(r) = Len(w) + Len(c)
    <3>1. w \o c \in Seq(VBlock) /\ Len(w \o c) = Len(w) + Len(c)
      BY <1>4, <1>7, ConcatProperties
    <3> QED BY <1>5, <1>6, <3>1
  <2> QED BY <1>4, <1>7, <2>1
<1>9. ASSUME NEW j \in 1..i PROVE r[j] = w[j]
  <2>1. j \in 1..(Len(w) + Len(c)) /\ j <= Len(w)
    BY <1>4, <1>7
  <2>2. r = w \o c
    BY <1>5, <1>6
  <2> QED BY <1>4, <1>7, <2>1, <2>2, ConcatProperties
<1>10. ASSUME NEW j \in (i + 1)..(Len(bs) + 1) PROVE r[j] = bs[j - 1]
  <2>1. r[j] = c[j - i]
    <3>1. j \in (Len(w) + 1)..(Len(w) + Len(c)) /\ j - Len(w) = j - i
      BY <1>4, <1>7
    <3>2. r = w \o c
      BY <1>5, <1>6
    <3> QED BY <1>4, <1>7, <3>1, <3>2, ConcatProperties
  <2>2. j - i \in 1..(Len(bs) - i + 1) /\ i + (j - i) - 1 = j - 1
    OBVIOUS
  <2> QED BY <1>4, <2>1, <2>2
<1> QED BY <1>7, <1>8, <1>9, <1>10 DEF IsInserted

\* What taking n pages of block i does to a list.
PartTaken(bs, i, used, r) ==
  /\ r \in Seq(VBlock) /\ Listed(r)
  /\ Allotted(r) = Allotted(bs) \cup {used}
  /\ \A b \in Allotted(bs) :
       b.first + b.count <= used.first \/ used.first + used.count <= b.first

LEMMA CutIs ==
  ASSUME Virtual.start \in Nat, Virtual.end \in Nat,
         NEW bs \in Seq(VBlock), Listed(bs), NEW i \in 2..Len(bs), ~bs[i].allocated,
         NEW n \in Nat, n <= bs[i].count, NEW phys \in Nat, NEW keeps \in BOOLEAN,
         NEW used, used = [first |-> bs[i].first, count |-> n, physical |-> phys,
                           allocated |-> TRUE, reserved |-> keeps],
         NEW r, r = Spaces!Taken(bs, i, n, phys, keeps)
  PROVE  /\ r \in Seq(VBlock)
         /\ \/ /\ n = bs[i].count /\ Len(r) = Len(bs)
               /\ \A j \in 1..Len(bs) : r[j] = IF j = i THEN used ELSE bs[j]
            \/ /\ Len(r) = Len(bs) + 1
               /\ \A j \in 1..(Len(bs) + 1) :
                    r[j] = IF j < i THEN bs[j] ELSE IF j = i THEN used
                           ELSE IF j = i + 1 THEN Spaces!Rest(bs[i], n) ELSE bs[j - 1]
<1>1. PICK cut : cut = [bs EXCEPT ![i] = used]
  OBVIOUS
<1>2. bs[i].first \in Nat /\ bs[i].count \in Nat
  BY ListedTyped
<1>3. used \in VBlock
  BY <1>2 DEF VBlock
<1>4. cut \in Seq(VBlock) /\ Len(cut) = Len(bs)
      /\ \A j \in 1..Len(bs) : cut[j] = IF j = i THEN used ELSE bs[j]
  BY <1>1, <1>3
<1>5. PICK x : x = Spaces!Rest(bs[i], n)
  OBVIOUS
<1>6. x \in VBlock
  <2>1. bs[i].first + n \in Nat /\ bs[i].count - n \in Nat
    BY <1>2
  <2> QED BY <1>5, <2>1 DEF VBlock, Spaces!Rest, Spaces!NULL
<1>7. CASE bs[i].count = n /\ ~keeps
  <2>1. r = cut
    BY <1>1, <1>7 DEF Spaces!Taken
  <2> QED BY <1>4, <1>7, <2>1
<1>8. CASE ~(bs[i].count = n /\ ~keeps)
  <2>1. r = Spaces!InsertAt(cut, i + 1, x)
    BY <1>1, <1>5, <1>8 DEF Spaces!Taken
  <2>2. i + 1 \in 2..(Len(cut) + 1) /\ Len(cut) + 1 = Len(bs) + 1
    BY <1>4
  <2>3. /\ r \in Seq(VBlock) /\ Len(r) = Len(cut) + 1
        /\ \A j \in 1..(Len(cut) + 1) :
              r[j] = IF j < i + 1 THEN cut[j] ELSE IF j = i + 1 THEN x ELSE cut[j - 1]
    <3>1. IsInserted(cut, i + 1, x, r)
      BY <1>4, <1>6, <2>1, <2>2, InsertIs
    <3> QED BY <3>1 DEF IsInserted
  <2>4. ASSUME NEW j \in 1..(Len(bs) + 1)
        PROVE  r[j] = IF j < i THEN bs[j] ELSE IF j = i THEN used
                      ELSE IF j = i + 1 THEN x ELSE bs[j - 1]
    <3>1. r[j] = IF j < i + 1 THEN cut[j] ELSE IF j = i + 1 THEN x ELSE cut[j - 1]
      BY <2>2, <2>3
    <3>2. j <= i => cut[j] = IF j = i THEN used ELSE bs[j]
      <4>1. j <= i => j \in 1..Len(bs)
        OBVIOUS
      <4> QED BY <1>4, <4>1
    <3>3. j > i + 1 => cut[j - 1] = bs[j - 1]
      <4>1. PICK k : k = j - 1
        OBVIOUS
      <4>2. j > i + 1 => k \in 1..Len(bs) /\ k # i
        BY <4>1
      <4> QED BY <1>4, <4>1, <4>2
    <3> QED BY <3>1, <3>2, <3>3
  <2> QED BY <1>5, <2>2, <2>3, <2>4
<1> QED BY <1>7, <1>8

\* The blocks of a list that tiles the space, each in its place.
LEMMA OrderedIs ==
  ASSUME Virtual.start \in Nat, Virtual.end \in Nat,
         NEW bs \in Seq(VBlock), Listed(bs), NEW i \in 2..Len(bs), ~bs[i].allocated
  PROVE  \A b \in Allotted(bs) : /\ b \in VBlock
                                /\ b.first \in Nat /\ b.count \in Nat /\ b.physical \in Nat
                                /\ b.first >= Virtual.start /\ b.first + b.count <= Virtual.end
                                /\ \/ b.first + b.count <= bs[i].first
                                   \/ bs[i].first + bs[i].count <= b.first
<1> SUFFICES ASSUME NEW j \in 2..Len(bs), bs[j].allocated
             PROVE  /\ bs[j] \in VBlock /\ bs[j].first \in Nat /\ bs[j].count \in Nat /\ bs[j].physical \in Nat
                    /\ bs[j].first >= Virtual.start /\ bs[j].first + bs[j].count <= Virtual.end
                    /\ \/ bs[j].first + bs[j].count <= bs[i].first
                       \/ bs[i].first + bs[i].count <= bs[j].first
  BY DEF Allotted
<1>1. j # i /\ j \in 1..Len(bs)
  OBVIOUS
<1>2. bs[j] \in VBlock /\ bs[j].first \in Nat /\ bs[j].count \in Nat /\ bs[j].physical \in Nat
  BY <1>1, ListedTyped
<1>3. bs[j].first >= Virtual.start /\ bs[j].first + bs[j].count <= Virtual.end
  BY DEF Listed
<1>4. j < i => bs[j].first + bs[j].count <= bs[i].first
  BY DEF Listed
<1>5. i < j => bs[i].first + bs[i].count <= bs[j].first
  BY DEF Listed
<1>6. j < i \/ i < j
  BY <1>1
<1> QED BY <1>2, <1>3, <1>4, <1>5, <1>6

LEMMA TakenWhole ==
  ASSUME Virtual.start \in Nat, Virtual.end \in Nat,
         NEW bs \in Seq(VBlock), Listed(bs), NEW i \in 2..Len(bs), ~bs[i].allocated,
         NEW used \in VBlock, used.first = bs[i].first, used.count = bs[i].count, used.allocated,
         NEW r \in Seq(VBlock), Len(r) = Len(bs),
         \A j \in 1..Len(bs) : r[j] = IF j = i THEN used ELSE bs[j]
  PROVE  PartTaken(bs, i, used, r)
<1>1. \A j \in 1..Len(bs) : r[j].first = bs[j].first /\ r[j].count = bs[j].count
  OBVIOUS
<1>2. Len(bs) \in Nat /\ Len(bs) >= 2 /\ r[1] = bs[1] /\ 1 \in 1..Len(bs) /\ 2 \in 1..Len(bs) /\ Len(bs) \in 1..Len(bs)
  BY DEF Listed
<1>3. Listed(r)
  <2>1. \A j \in 2..Len(bs) : j \in 1..Len(bs)
    OBVIOUS
  <2>2. \A j \in 2..Len(r) :
          r[j].first >= Virtual.start /\ r[j].first + r[j].count <= Virtual.end
    BY <1>1, <2>1 DEF Listed
  <2>3. \A j, k \in 2..Len(r) : j < k => r[j].first + r[j].count <= r[k].first
    BY <1>1, <2>1 DEF Listed
  <2>4. ASSUME NEW j \in 2..(Len(r) - 1) PROVE r[j + 1].first = r[j].first + r[j].count
    <3>1. bs[j + 1].first = bs[j].first + bs[j].count
      BY DEF Listed
    <3>2. j \in 1..Len(bs) /\ j + 1 \in 1..Len(bs)
      BY <1>2
    <3> QED BY <1>1, <3>1, <3>2
  <2>5. /\ r[2].first = bs[2].first
        /\ r[Len(r)].first = bs[Len(bs)].first /\ r[Len(r)].count = bs[Len(bs)].count
    BY <1>1, <1>2
  <2> QED BY <1>2, <2>2, <2>3, <2>4, <2>5 DEF Listed
<1>4. Allotted(r) = Allotted(bs) \cup {used}
  <2>1. ASSUME NEW j \in 2..Len(r), r[j].allocated PROVE r[j] \in Allotted(bs) \cup {used}
    BY <1>2, <2>1 DEF Allotted
  <2>2. ASSUME NEW j \in 2..Len(bs), bs[j].allocated PROVE bs[j] \in Allotted(r)
    <3>1. j # i /\ j \in 2..Len(r) /\ r[j] = bs[j]
      BY <2>2
    <3> QED BY <2>2, <3>1 DEF Allotted
  <2>3. used \in Allotted(r)
    <3>1. i \in 2..Len(r) /\ r[i] = used
      OBVIOUS
    <3> QED BY <3>1 DEF Allotted
  <2> QED BY <2>1, <2>2, <2>3 DEF Allotted
<1>5. \A b \in Allotted(bs) :
       b.first + b.count <= used.first \/ used.first + used.count <= b.first
  BY OrderedIs
<1> QED BY <1>3, <1>4, <1>5 DEF PartTaken

LEMMA TakenPart ==
  ASSUME Virtual.start \in Nat, Virtual.end \in Nat,
         NEW bs \in Seq(VBlock), Listed(bs), NEW i \in 2..Len(bs), ~bs[i].allocated,
         NEW used \in VBlock, used.first = bs[i].first, used.count <= bs[i].count, used.allocated,
         NEW x \in VBlock, x.first = bs[i].first + used.count, x.count = bs[i].count - used.count,
         ~x.allocated,
         NEW r \in Seq(VBlock), Len(r) = Len(bs) + 1,
         \A j \in 1..(Len(bs) + 1) :
           r[j] = IF j < i THEN bs[j] ELSE IF j = i THEN used ELSE IF j = i + 1 THEN x ELSE bs[j - 1]
  PROVE  PartTaken(bs, i, used, r)
<1> DEFINE m(j) == IF j <= i THEN j ELSE j - 1
<1>1. Len(bs) \in Nat /\ Len(bs) >= 2
  BY DEF Listed
<1>2. used.count \in Nat /\ \A j \in 2..Len(bs) : bs[j].first \in Nat /\ bs[j].count \in Nat
  <2>1. \A j \in 2..Len(bs) : j \in 1..Len(bs)
    OBVIOUS
  <2> QED BY <2>1, ListedTyped DEF VBlock
<1>3. ASSUME NEW j \in 2..Len(r)
      PROVE  /\ m(j) \in 2..Len(bs)
             /\ bs[m(j)].first <= r[j].first
             /\ r[j].first + r[j].count <= bs[m(j)].first + bs[m(j)].count
             /\ r[j].first \in Nat /\ r[j].count \in Nat
             /\ j # i /\ j # i + 1 => r[j] = bs[m(j)]
  <2>1. m(j) \in 2..Len(bs)
    BY <1>1
  <2>2. j \in 1..(Len(bs) + 1)
    OBVIOUS
  <2>3. CASE j = i
    <3>1. r[j] = used /\ m(j) = i
      BY <2>2, <2>3
    <3> QED BY <1>2, <2>1, <2>3, <3>1
  <2>4. CASE j = i + 1
    <3>1. r[j] = x /\ m(j) = i
      BY <2>2, <2>4
    <3> QED BY <1>2, <2>1, <2>4, <3>1
  <2>5. CASE j # i /\ j # i + 1
    <3>1. r[j] = bs[m(j)]
      BY <2>2, <2>5
    <3>2. PICK k \in 2..Len(bs) : k = m(j)
      BY <2>1
    <3>3. bs[k].first \in Nat /\ bs[k].count \in Nat /\ r[j] = bs[k]
      BY <1>2, <3>1, <3>2
    <3> HIDE DEF m
    <3> QED BY <2>1, <2>5, <3>2, <3>3
  <2> QED BY <2>3, <2>4, <2>5
<1>4. r[i] = used /\ r[i + 1] = x /\ i \in 2..Len(r) /\ i + 1 \in 2..Len(r)
  OBVIOUS
<1>5. \A j \in 2..Len(r) : r[j].first >= Virtual.start /\ r[j].first + r[j].count <= Virtual.end
  <2> SUFFICES ASSUME NEW j \in 2..Len(r)
               PROVE r[j].first >= Virtual.start /\ r[j].first + r[j].count <= Virtual.end
    OBVIOUS
  <2>1. PICK k \in 2..Len(bs) : k = m(j)
    BY <1>3
  <2>2. bs[k].first >= Virtual.start /\ bs[k].first + bs[k].count <= Virtual.end
    BY DEF Listed
  <2>3. bs[k].first <= r[j].first /\ r[j].first + r[j].count <= bs[k].first + bs[k].count
        /\ r[j].first \in Nat /\ r[j].count \in Nat
    BY <1>3, <2>1
  <2>4. PICK a \in Nat, c \in Nat : a = bs[k].first /\ c = bs[k].count
    BY <1>2
  <2>5. PICK e \in Nat, f \in Nat : e = r[j].first /\ f = r[j].count
    BY <2>3
  <2>6. a >= Virtual.start /\ a + c <= Virtual.end /\ a <= e /\ e + f <= a + c
    BY <2>2, <2>3, <2>4, <2>5
  <2>7. e >= Virtual.start /\ e + f <= Virtual.end
    BY ONLY <2>6, a \in Nat, c \in Nat, e \in Nat, f \in Nat, Virtual.start \in Nat, Virtual.end \in Nat
  <2> QED BY <2>5, <2>7
<1>6. ASSUME NEW j \in 2..Len(r), NEW k \in 2..Len(r), j < k
      PROVE  r[j].first + r[j].count <= r[k].first
  <2>1. CASE j = i /\ k = i + 1
    BY <1>2, <1>4, <2>1
  <2>2. CASE ~(j = i /\ k = i + 1)
    <3>1. PICK j1 \in 2..Len(bs), k1 \in 2..Len(bs) : j1 = m(j) /\ k1 = m(k)
      BY <1>3
    <3>2. j1 < k1
      BY <1>6, <2>2, <3>1
    <3>3. bs[j1].first + bs[j1].count <= bs[k1].first
      BY <3>2 DEF Listed
    <3>4. /\ r[j].first + r[j].count <= bs[j1].first + bs[j1].count /\ bs[k1].first <= r[k].first
          /\ r[j].first \in Nat /\ r[j].count \in Nat /\ r[k].first \in Nat
      BY <1>3, <3>1
    <3>5. PICK a \in Nat, c \in Nat, d \in Nat : a = bs[j1].first /\ c = bs[j1].count /\ d = bs[k1].first
      BY <1>2
    <3>6. PICK e \in Nat, f \in Nat, g \in Nat : e = r[j].first /\ f = r[j].count /\ g = r[k].first
      BY <3>4
    <3>7. a + c <= d /\ e + f <= a + c /\ d <= g
      BY <3>3, <3>4, <3>5, <3>6
    <3>8. e + f <= g
      BY ONLY <3>7, a \in Nat, c \in Nat, d \in Nat, e \in Nat, f \in Nat, g \in Nat
    <3> QED BY <3>6, <3>8
  <2> QED BY <2>1, <2>2
<1>7. ASSUME NEW j \in 2..(Len(r) - 1)
      PROVE  r[j + 1].first = r[j].first + r[j].count
  <2>0. j \in 1..(Len(bs) + 1) /\ j + 1 \in 1..(Len(bs) + 1)
    OBVIOUS
  <2>1. CASE j < i - 1
    <3>1. r[j] = bs[j] /\ r[j + 1] = bs[j + 1] /\ j \in 2..(Len(bs) - 1)
      BY <2>0, <2>1
    <3> QED BY <3>1 DEF Listed
  <2>2. CASE j = i - 1
    <3>1. r[j] = bs[j] /\ r[j + 1] = used /\ j \in 2..(Len(bs) - 1) /\ j + 1 = i
      BY <2>0, <2>2
    <3>2. bs[j + 1].first = bs[j].first + bs[j].count
      BY <3>1 DEF Listed
    <3> QED BY <3>1, <3>2
  <2>3. CASE j = i
    BY <1>4, <2>3
  <2>4. CASE j = i + 1
    <3>1. r[j] = x /\ r[j + 1] = bs[i + 1] /\ i \in 2..(Len(bs) - 1)
      BY <2>0, <2>4
    <3>2. bs[i + 1].first = bs[i].first + bs[i].count
      BY <3>1 DEF Listed
    <3>3. x.first + x.count = bs[i].first + bs[i].count
      BY <1>2
    <3>4. r[j].first = x.first /\ r[j].count = x.count /\ r[j + 1].first = bs[i + 1].first
      BY <3>1
    <3> QED BY <3>2, <3>3, <3>4
  <2>5. CASE j > i + 1
    <3>1. PICK k : k = j - 1
      OBVIOUS
    <3>2. r[j] = bs[k] /\ r[j + 1] = bs[k + 1] /\ k \in 2..(Len(bs) - 1)
      BY <2>0, <2>5, <3>1
    <3>3. bs[k + 1].first = bs[k].first + bs[k].count
      BY <3>2 DEF Listed
    <3>4. r[j].first = bs[k].first /\ r[j].count = bs[k].count /\ r[j + 1].first = bs[k + 1].first
      BY <3>2
    <3> QED BY <3>3, <3>4
  <2> QED BY <2>1, <2>2, <2>3, <2>4, <2>5
<1>8. /\ r[1] = bs[1] /\ r[2].first = bs[2].first
      /\ r[Len(r)].first + r[Len(r)].count = bs[Len(bs)].first + bs[Len(bs)].count
  <2>1. 1 \in 1..(Len(bs) + 1) /\ 2 \in 1..(Len(bs) + 1) /\ Len(r) \in 1..(Len(bs) + 1)
    BY <1>1
  <2>2. r[1] = bs[1] /\ r[2].first = bs[2].first
    BY <2>1
  <2>3. CASE i = Len(bs)
    <3>1. r[Len(r)] = x
      BY <1>4, <2>3
    <3> QED BY <1>2, <2>2, <2>3, <3>1
  <2>4. CASE i < Len(bs)
    <3>1. r[Len(r)] = bs[Len(bs)]
      BY <2>1, <2>4
    <3> QED BY <2>2, <3>1
  <2> QED BY <2>3, <2>4
<1>9. Listed(r)
  <2>1. Len(r) >= 2
    BY <1>1
  <2> HIDE DEF m
  <2> QED BY <1>5, <1>6, <1>7, <1>8, <2>1 DEF Listed
<1>10. Allotted(r) = Allotted(bs) \cup {used}
  <2>1. ASSUME NEW j \in 2..Len(r), r[j].allocated PROVE r[j] \in Allotted(bs) \cup {used}
    <3>1. j = i \/ (j # i /\ j # i + 1)
      BY <1>4, <2>1
    <3>2. j # i => m(j) \in 2..Len(bs) /\ r[j] = bs[m(j)]
      BY <1>3, <3>1
    <3> HIDE DEF m
    <3> QED BY <1>4, <2>1, <3>1, <3>2 DEF Allotted
  <2>2. ASSUME NEW j \in 2..Len(bs), bs[j].allocated PROVE bs[j] \in Allotted(r)
    <3>1. PICK k : k = IF j < i THEN j ELSE j + 1
      OBVIOUS
    <3>2. k \in 2..Len(r) /\ r[k] = bs[j]
      <4>1. j # i /\ k \in 1..(Len(bs) + 1)
        BY <1>1, <2>2, <3>1
      <4>2. j < i => r[k] = bs[j]
        BY <3>1, <4>1
      <4>3. j > i => k > i + 1 /\ k - 1 = j /\ r[k] = bs[j]
        BY <3>1, <4>1
      <4> QED BY <3>1, <4>1, <4>2, <4>3
    <3> QED BY <2>2, <3>2 DEF Allotted
  <2>3. used \in Allotted(r)
    BY <1>4 DEF Allotted
  <2> QED BY <2>1, <2>2, <2>3 DEF Allotted
<1>11. \A b \in Allotted(bs) :
       b.first + b.count <= used.first \/ used.first + used.count <= b.first
  <2> SUFFICES ASSUME NEW b \in Allotted(bs)
               PROVE  b.first + b.count <= used.first \/ used.first + used.count <= b.first
    OBVIOUS
  <2>1. /\ b.first \in Nat /\ b.count \in Nat
        /\ b.first + b.count <= bs[i].first \/ bs[i].first + bs[i].count <= b.first
    BY OrderedIs
  <2> QED BY <1>2, <2>1
<1> QED BY <1>9, <1>10, <1>11 DEF PartTaken

LEMMA PartTakenKeeps ==
  ASSUME Virtual.start \in Nat, Virtual.end \in Nat,
         NEW bs \in Seq(VBlock), Listed(bs), NEW i \in 2..Len(bs), ~bs[i].allocated,
         NEW n \in Nat, n <= bs[i].count, NEW phys \in Nat, NEW keeps \in BOOLEAN,
         NEW used, used = [first |-> bs[i].first, count |-> n, physical |-> phys,
                           allocated |-> TRUE, reserved |-> keeps],
         NEW r, r = Spaces!Taken(bs, i, n, phys, keeps)
  PROVE  PartTaken(bs, i, used, r)
<1>1. bs[i].first \in Nat /\ bs[i].count \in Nat
  BY ListedTyped
<1>2. used \in VBlock /\ used.first = bs[i].first /\ used.count = n /\ used.allocated
  BY <1>1 DEF VBlock
<1>3. PICK x : x = Spaces!Rest(bs[i], n)
  OBVIOUS
<1>4. x \in VBlock /\ x.first = bs[i].first + n /\ x.count = bs[i].count - n /\ ~x.allocated
  <2>1. bs[i].first + n \in Nat /\ bs[i].count - n \in Nat
    BY <1>1
  <2> QED BY <1>3, <2>1 DEF VBlock, Spaces!Rest, Spaces!NULL
<1>5. /\ r \in Seq(VBlock)
      /\ \/ /\ n = bs[i].count /\ Len(r) = Len(bs)
            /\ \A j \in 1..Len(bs) : r[j] = IF j = i THEN used ELSE bs[j]
         \/ /\ Len(r) = Len(bs) + 1
            /\ \A j \in 1..(Len(bs) + 1) :
                 r[j] = IF j < i THEN bs[j] ELSE IF j = i THEN used
                        ELSE IF j = i + 1 THEN x ELSE bs[j - 1]
  BY <1>3, CutIs
<1>6. CASE /\ n = bs[i].count /\ Len(r) = Len(bs)
           /\ \A j \in 1..Len(bs) : r[j] = IF j = i THEN used ELSE bs[j]
  BY <1>2, <1>5, <1>6, TakenWhole
<1>7. CASE /\ Len(r) = Len(bs) + 1
           /\ \A j \in 1..(Len(bs) + 1) :
                r[j] = IF j < i THEN bs[j] ELSE IF j = i THEN used
                       ELSE IF j = i + 1 THEN x ELSE bs[j - 1]
  BY <1>2, <1>4, <1>5, <1>7, TakenPart
<1> QED BY <1>5, <1>6, <1>7

LEMMA MaxOfFinite ==
  ASSUME NEW T, T \subseteq Nat, IsFiniteSet(T), T # {}
  PROVE  \E m \in T : \A x \in T : x <= m
<1> DEFINE S == {n \in Nat : \A U \in SUBSET Nat : IsFiniteSet(U) /\ Cardinality(U) = n =>
                              U = {} \/ \E m \in U : \A x \in U : x <= m}
<1>1. 0 \in S
  BY FS_EmptySet
<1>2. ASSUME NEW n \in Nat, n \in S PROVE n + 1 \in S
  <2> SUFFICES ASSUME NEW U \in SUBSET Nat, IsFiniteSet(U), Cardinality(U) = n + 1, U # {}
               PROVE  \E m \in U : \A x \in U : x <= m
    OBVIOUS
  <2>1. PICK u : u \in U
    OBVIOUS
  <2>2. IsFiniteSet(U \ {u}) /\ Cardinality(U \ {u}) = n
    <3>1. IsFiniteSet(U \ {u}) /\ Cardinality(U \ {u}) = Cardinality(U) - 1
      BY <2>1, FS_RemoveElement
    <3> QED BY <3>1
  <2>3. CASE U \ {u} = {}
    BY <2>1, <2>3
  <2>4. CASE U \ {u} # {}
    <3>1. PICK m \in U \ {u} : \A x \in U \ {u} : x <= m
      BY <1>2, <2>2, <2>4
    <3>2. CASE m <= u
      <4>1. \A x \in U : x <= u
        BY <2>1, <3>1, <3>2
      <4> QED BY <2>1, <4>1
    <3>3. CASE ~(m <= u)
      <4>1. \A x \in U : x <= m
        BY <2>1, <3>1, <3>3
      <4> QED BY <3>1, <4>1
    <3> QED BY <3>2, <3>3
  <2> QED BY <2>3, <2>4
<1>3. Nat \subseteq S
  <2> HIDE DEF S
  <2> QED BY <1>1, <1>2, Induct
<1>4. Cardinality(T) \in Nat
  BY FS_CardinalityType
<1>5. Cardinality(T) \in S
  BY <1>3, <1>4
<1> QED BY <1>5

\* The n least elements of a set are at most n.
LEMMA LeastAre ==
  ASSUME NEW F, F \subseteq Nat, IsFiniteSet(F), NEW n \in Nat,
         NEW T, T = {q \in F : Cardinality({x \in F : x <= q}) <= n}
  PROVE  IsFiniteSet(T) /\ Cardinality(T) \in Nat /\ Cardinality(T) <= n
<1>1. IsFiniteSet(T) /\ Cardinality(T) \in Nat
  BY FS_Subset, FS_CardinalityType
<1>2. CASE T = {}
  <2>1. Cardinality(T) = 0
    BY <1>2, FS_EmptySet
  <2> QED BY <1>1, <2>1
<1>3. CASE T # {}
  <2>1. PICK m \in T : \A x \in T : x <= m
    BY <1>1, <1>3, MaxOfFinite
  <2>2. PICK L : L = {x \in F : x <= m}
    OBVIOUS
  <2>3. IsFiniteSet(L) /\ Cardinality(L) \in Nat
    BY <2>2, FS_Subset, FS_CardinalityType
  <2>4. T \subseteq L
    BY <2>1, <2>2
  <2>5. Cardinality(T) <= Cardinality(L)
    BY <2>3, <2>4, FS_Subset
  <2>6. Cardinality(L) <= n
    BY <2>1, <2>2
  <2> QED BY <1>1, <2>3, <2>5, <2>6
<1> QED BY <1>2, <1>3

LEMMA DividedIn ==
  ASSUME NEW v \in Nat, NEW t \in Nat \ {0}
  PROVE  v \div t \in 0..v
<1>1. PICK q \in Int : q = v \div t
  OBVIOUS
<1>2. q >= 0
  BY <1>1
<1>3. q * t <= v
  BY <1>1
<1>4. q <= q * t
  BY <1>2
<1> QED BY <1>1, <1>2, <1>3, <1>4

\* What the constants are.
VSizes ==
  /\ Virtual.page \in Nat \ {0} /\ Virtual.table \in Nat \ {0}
  /\ 0 \notin Virtual.pages /\ Virtual.pages \cap Virtual.device = {}
  /\ Virtual.pages \subseteq Nat /\ Virtual.device \subseteq Nat
  /\ IsFiniteSet(Virtual.pages) /\ 0 \notin Virtual.space /\ Virtual.threads \in Nat \ {0}
  /\ Virtual.start \in Nat \ {0} /\ Virtual.end \in Nat /\ Virtual.start < Virtual.end
  /\ Virtual.pl0 \in Nat \ {0} /\ Virtual.pl3 \in Nat \ {0}
  /\ \A p \in Virtual.programs : /\ p.elf \in BOOLEAN /\ p.pages \in Nat \ {0}
                                 /\ p.segments \in Seq(Spaces!Segment)

LEMMA VSizesHold == ASSUME Spaces!AddressSpaceAssumption PROVE VSizes
<1>1. \A S : Spaces!IsFiniteSet(S) = IsFiniteSet(S)
  BY DEF Spaces!IsFiniteSet, IsFiniteSet
<1> QED BY <1>1 DEF Spaces!AddressSpaceAssumption, Spaces!NULL, VSizes

LEMMA OneCardinality == \A S : Spaces!Cardinality(S) = Cardinality(S)
BY DEF Spaces!Cardinality, Cardinality

UnusedPages == {p \in Virtual.pages : use[p] = [what |-> "free", of |-> 0]}

LEMMA UnusedPagesAre == Spaces!Free = UnusedPages
BY DEF Spaces!Free, Spaces!Unused, Spaces!NULL, UnusedPages

\* The memory manager's promise.
LEMMA AllocIs ==
  ASSUME VSizes, NEW n \in Nat, NEW p, p = Spaces!Alloc(n)
  PROVE  p = 0 \/ (p \in UnusedPages /\ p \in Nat \ {0} /\ p..(p + n - 1) \subseteq UnusedPages)
<1>1. PICK runs : runs = Spaces!Runs(n)
  OBVIOUS
<1>2. \A q \in runs : q \in UnusedPages /\ q..(q + n - 1) \subseteq UnusedPages
  BY <1>1, UnusedPagesAre DEF Spaces!Runs
<1>3. UnusedPages \subseteq Nat /\ 0 \notin UnusedPages
  BY DEF UnusedPages, VSizes
<1>4. CASE runs = {}
  BY <1>1, <1>4 DEF Spaces!Alloc, Spaces!NULL
<1>5. CASE runs # {}
  <2>1. p = CHOOSE x \in runs : \A y \in runs : x <= y
    BY <1>1, <1>5 DEF Spaces!Alloc, Spaces!Min
  <2>2. runs \subseteq Nat
    BY <1>2, <1>3
  <2>3. \E m \in runs : \A k \in runs : m <= k
    BY <1>5, <2>2, LeastNatural
  <2>4. p \in runs
    BY <2>1, <2>3
  <2> QED BY <1>2, <1>3, <2>4
<1> QED BY <1>4, <1>5

LEMMA FirstFitIs ==
  ASSUME NEW bs \in Seq(VBlock), Listed(bs), NEW n, Spaces!FirstFit(bs, n) # {},
         NEW i, i = Spaces!Min(Spaces!FirstFit(bs, n))
  PROVE  i \in 2..Len(bs) /\ ~bs[i].allocated /\ bs[i].count >= n
<1>1. PICK fit : fit = Spaces!FirstFit(bs, n)
  OBVIOUS
<1>2. fit # {} /\ \A j \in fit : j \in 1..Len(bs) /\ ~bs[j].allocated /\ bs[j].count >= n
  BY <1>1 DEF Spaces!FirstFit
<1>3. fit \subseteq Nat
  BY <1>2
<1>4. \E m \in fit : \A k \in fit : m <= k
  BY <1>2, <1>3, LeastNatural
<1>5. i = CHOOSE x \in fit : \A y \in fit : x <= y
  BY <1>1 DEF Spaces!Min
<1>6. i \in fit
  BY <1>4, <1>5
<1>7. i # 1
  BY <1>2, <1>6 DEF Listed
<1> QED BY <1>2, <1>6, <1>7

LEMMA CoverIs ==
  ASSUME NEW bs \in Seq(VBlock), Listed(bs), NEW virt, NEW n, Spaces!Covers(bs, virt, n) # {},
         NEW i, i = Spaces!Max(Spaces!Covers(bs, virt, n))
  PROVE  /\ i \in 2..Len(bs) /\ ~bs[i].allocated
         /\ bs[i].first + bs[i].count >= virt + n
<1>1. PICK fit : fit = Spaces!Covers(bs, virt, n)
  OBVIOUS
<1>2. fit # {} /\ \A j \in fit : j \in 1..Len(bs) /\ ~bs[j].allocated
                                /\ bs[j].first + bs[j].count >= virt + n
  BY <1>1 DEF Spaces!Covers
<1>3. fit \subseteq 1..Len(bs) /\ fit \subseteq Nat
  BY <1>2
<1>4. IsFiniteSet(fit)
  <2>1. Len(bs) \in Int /\ 1 \in Int
    OBVIOUS
  <2>2. IsFiniteSet(1..Len(bs))
    BY <2>1, FS_Interval
  <2> QED BY <1>3, <2>2, FS_Subset
<1>5. \E m \in fit : \A k \in fit : k <= m
  BY <1>2, <1>3, <1>4, MaxOfFinite
<1>6. i = CHOOSE x \in fit : \A y \in fit : x >= y
  BY <1>1 DEF Spaces!Max
<1>7. i \in fit
  <2>1. \E m \in fit : \A k \in fit : m >= k
    BY <1>3, <1>5
  <2> QED BY <1>6, <2>1
<1>8. i # 1
  BY <1>2, <1>7 DEF Listed
<1> QED BY <1>2, <1>7, <1>8

\* The blocks of a space lie in it.
LEMMA UpheldTyped ==
  ASSUME VSizes, NEW s \in Virtual.space, Upheld(s)
  PROVE  \A b \in Allotted(v_blocks[s]) :
           /\ b \in VBlock /\ b.first \in Nat /\ b.count \in Nat /\ b.physical \in Nat
           /\ b.first >= Virtual.start /\ b.first + b.count <= Virtual.end
<1> SUFFICES ASSUME NEW j \in 2..Len(v_blocks[s])
             PROVE  LET b == v_blocks[s][j]
                    IN  /\ b \in VBlock /\ b.first \in Nat /\ b.count \in Nat /\ b.physical \in Nat
                        /\ b.first >= Virtual.start /\ b.first + b.count <= Virtual.end
  BY DEF Allotted
<1>1. v_blocks[s] \in Seq(VBlock) /\ Listed(v_blocks[s])
  BY DEF Upheld
<1>2. j \in 1..Len(v_blocks[s])
  OBVIOUS
<1> QED BY <1>1, <1>2, ListedTyped DEF Listed

LEMMA MappedIn ==
  ASSUME VSizes, NEW s \in Virtual.space, Upheld(s)
  PROVE  /\ DOMAIN pte[s] \subseteq 0..Virtual.end
         /\ IsFiniteSet(TablesOf(pte[s]))
<1>1. DOMAIN pte[s] \subseteq 0..Virtual.end
  <2> SUFFICES ASSUME NEW v \in DOMAIN pte[s] PROVE v \in 0..Virtual.end
    OBVIOUS
  <2>1. PICK b \in Allotted(v_blocks[s]) : v \in b.first..(b.first + b.count - 1)
    BY DEF Upheld, Maps
  <2>2. b.first \in Nat /\ b.count \in Nat /\ b.first + b.count <= Virtual.end
    BY UpheldTyped
  <2> QED BY <2>1, <2>2 DEF VSizes
<1>2. TablesOf(pte[s]) \subseteq 0..Virtual.end
  <2> SUFFICES ASSUME NEW v \in DOMAIN pte[s] PROVE v \div Virtual.table \in 0..Virtual.end
    BY DEF TablesOf
  <2>1. v \in Nat /\ v <= Virtual.end
    BY <1>1 DEF VSizes
  <2>2. v \div Virtual.table \in 0..v
    BY <2>1, DividedIn DEF VSizes
  <2> QED BY <2>1, <2>2 DEF VSizes
<1>3. IsFiniteSet(0..Virtual.end)
  <2>1. 0 \in Int /\ Virtual.end \in Int
    BY DEF VSizes
  <2> QED BY <2>1, FS_Interval
<1> QED BY <1>1, <1>2, <1>3, FS_Subset

\* What a block of n pages, at first for the program and at phys in memory, is made of:
\* pages of its file, pages that were free, or a device's.
Backs(s, n, phys, ps, keeps) ==
  IF keeps THEN ps = {} /\ phys..(phys + n - 1) \subseteq Serves("image", s)
  ELSE \/ ps = phys..(phys + n - 1) /\ ps \subseteq UnusedPages
       \/ ps = {} /\ n = 1 /\ phys \in Virtual.device

\* The pages of others, and those of s that nothing but its end takes back.
Spares(s) ==
  /\ use' \in [Virtual.pages -> Purpose]
  /\ \A p \in Virtual.pages : use'[p].what = "free" => use'[p].of = 0
  /\ \A p \in Virtual.pages : use'[p] = use[p] \/ (use[p].of \in {0, s} /\ use'[p].of \in {0, s})
  /\ Serves("image", s) \subseteq Serves("image", s)'

MappedWell(s) ==
  /\ Spares(s)
  /\ DOMAIN v_blocks' = Virtual.space /\ DOMAIN pte' = Virtual.space
  /\ \A t \in Virtual.space \ {s} : v_blocks'[t] = v_blocks[t] /\ pte'[t] = pte[t]
  /\ Upheld(s)'
  /\ v_machine' = v_machine

Stopped == /\ v_machine' \in {"fault", "panic"}
           /\ UNCHANGED <<use, v_blocks, pte, image, threads, pc>>

LEMMA TablePagesAre ==
  ASSUME VSizes, NEW n \in Nat, NEW ps, NEW ts, ts = Spaces!TablePages(n, ps)
  PROVE  /\ ts \subseteq UnusedPages \ ps /\ IsFiniteSet(ts)
         /\ Cardinality(ts) \in Nat /\ Cardinality(ts) <= n
<1>1. PICK F : F = UnusedPages \ ps
  OBVIOUS
<1>2. F \subseteq Virtual.pages /\ F \subseteq Nat
  BY <1>1 DEF UnusedPages, VSizes
<1>3. IsFiniteSet(F)
  BY <1>2, FS_Subset DEF VSizes
<1>4. ts = {q \in F : Cardinality({x \in F : x <= q}) <= n}
  BY <1>1, UnusedPagesAre, OneCardinality DEF Spaces!TablePages
<1> QED BY <1>1, <1>2, <1>3, <1>4, LeastAre

\* The new tables, and the table as it becomes.
MappedTo(old, first, n, phys, new, table) ==
  /\ IsFiniteSet(new) /\ Cardinality(new) \in Nat
  /\ IsFiniteSet(TablesOf(table))
  /\ Cardinality(TablesOf(table)) = Cardinality(TablesOf(old)) + Cardinality(new)
  /\ DOMAIN table = DOMAIN old \cup first..(first + n - 1)
  /\ \A v \in DOMAIN table : table[v] = IF v \in first..(first + n - 1)
                                        THEN phys + (v - first) ELSE old[v]

LEMMA TablesBecome ==
  ASSUME VSizes, NEW s \in Virtual.space, NEW first \in Nat, NEW n \in Nat, NEW phys \in Nat,
         IsFiniteSet(TablesOf(pte[s])),
         NEW new, new = Spaces!NewTables(s, first, n),
         NEW table, table = Spaces!Mapped(s, first, n, phys)
  PROVE  MappedTo(pte[s], first, n, phys, new, table)
<1>1. /\ DOMAIN table = DOMAIN pte[s] \cup first..(first + n - 1)
      /\ \A v \in DOMAIN table : table[v] = IF v \in first..(first + n - 1)
                                            THEN phys + (v - first) ELSE pte[s][v]
  BY DEF Spaces!Mapped
<1>2. PICK T : T = TablesOf(pte[s])
  OBVIOUS
<1>3. PICK N : N = {v \div Virtual.table : v \in first..(first + n - 1)}
  OBVIOUS
<1>4. new = N \ T
  BY <1>2, <1>3 DEF Spaces!NewTables, TablesOf
<1>5. TablesOf(table) = T \cup N
  BY <1>1, <1>2, <1>3 DEF TablesOf
<1>6. IsFiniteSet(N)
  <2>1. N \subseteq 0..(first + n)
    <3> SUFFICES ASSUME NEW v \in first..(first + n - 1) PROVE v \div Virtual.table \in 0..(first + n)
      BY <1>3
    <3>1. v \in Nat /\ v <= first + n
      OBVIOUS
    <3>2. v \div Virtual.table \in 0..v
      BY <3>1, DividedIn DEF VSizes
    <3> QED BY <3>1, <3>2
  <2>2. IsFiniteSet(0..(first + n))
    BY FS_Interval
  <2> QED BY <2>1, <2>2, FS_Subset
<1>7. IsFiniteSet(new) /\ Cardinality(new) \in Nat
  BY <1>4, <1>6, FS_Subset, FS_CardinalityType
<1>8. IsFiniteSet(T \cup new) /\ Cardinality(T \cup new) = Cardinality(T) + Cardinality(new) - Cardinality(T \cap new)
  BY <1>2, <1>7, FS_Union
<1>9. T \cap new = {} /\ T \cup new = TablesOf(table)
  BY <1>4, <1>5
<1>10. Cardinality({}) = 0 /\ Cardinality(T) \in Nat
  BY <1>2, FS_EmptySet, FS_CardinalityType
<1>11. Cardinality(TablesOf(table)) = Cardinality(T) + Cardinality(new)
  <2>1. PICK a, b : a = Cardinality(T) /\ b = Cardinality(new)
    OBVIOUS
  <2>2. Cardinality(T \cup new) = a + b - 0
    BY <1>8, <1>9, <1>10, <2>1
  <2>3. a \in Nat /\ b \in Nat
    BY <1>7, <1>10, <2>1
  <2>4. Cardinality(T \cup new) = a + b
    BY <2>2, <2>3
  <2> QED BY <1>9, <2>1, <2>4, Zenon
<1>12. IsFiniteSet(TablesOf(table))
  BY <1>8, <1>9
<1> QED BY <1>1, <1>2, <1>7, <1>11, <1>12 DEF MappedTo

LEMMA MapBlockKeeps ==
  ASSUME VSizes, STypes, NEW s \in Virtual.space, Upheld(s),
         NEW i \in 2..Len(v_blocks[s]), ~v_blocks[s][i].allocated,
         NEW n \in Nat, n >= 1, n <= v_blocks[s][i].count,
         NEW phys \in Nat, NEW ps, NEW keeps \in BOOLEAN, Backs(s, n, phys, ps, keeps),
         Spaces!MapBlock(s, i, n, phys, ps, keeps)
  PROVE  Stopped \/ MappedWell(s)
<1> DEFINE bs == v_blocks[s]
<1>0. bs \in Seq(VBlock) /\ Listed(bs) /\ Virtual.start \in Nat /\ Virtual.end \in Nat
  BY DEF Upheld, VSizes
<1>1. bs[i].first \in Nat
  <2>1. i \in 1..Len(bs)
    OBVIOUS
  <2> QED BY <1>0, <2>1, ListedTyped
<1>2. PICK first \in Nat : first = bs[i].first
  BY <1>1
<1>3. PICK new : new = Spaces!NewTables(s, first, n)
  OBVIOUS
<1>4. PICK table : table = Spaces!Mapped(s, first, n, phys)
  OBVIOUS
<1>5. MappedTo(pte[s], first, n, phys, new, table)
  <2>1. IsFiniteSet(TablesOf(pte[s]))
    BY MappedIn
  <2> QED BY <1>3, <1>4, <2>1, TablesBecome
<1>6. PICK ts : ts = Spaces!TablePages(Cardinality(new), ps)
  OBVIOUS
<1>7. /\ ts \subseteq UnusedPages \ ps /\ IsFiniteSet(ts)
      /\ Cardinality(ts) \in Nat /\ Cardinality(ts) <= Cardinality(new)
  BY <1>5, <1>6, TablePagesAre DEF MappedTo
<1>8. PICK r : r = Spaces!Taken(bs, i, n, phys, keeps)
  OBVIOUS
<1>9. CASE Cardinality(ts) < Cardinality(new)
  <2>1. Spaces!Stop("fault")
    BY <1>2, <1>3, <1>6, <1>9, OneCardinality DEF Spaces!MapBlock
  <2> QED BY <2>1 DEF Spaces!Stop, Stopped
<1>10. CASE ~(Cardinality(ts) < Cardinality(new))
  <2>1. /\ use' = [p \in Virtual.pages |-> IF p \in ps THEN [what |-> "block", of |-> s]
                                           ELSE IF p \in ts THEN [what |-> "table", of |-> s]
                                           ELSE use[p]]
        /\ v_blocks' = [v_blocks EXCEPT ![s] = r]
        /\ pte' = [pte EXCEPT ![s] = table]
        /\ v_machine' = v_machine
    BY <1>2, <1>3, <1>4, <1>6, <1>8, <1>10, OneCardinality DEF Spaces!MapBlock
  <2>2. /\ DOMAIN v_blocks' = Virtual.space /\ DOMAIN pte' = Virtual.space
        /\ v_blocks'[s] = r /\ pte'[s] = table
        /\ \A t \in Virtual.space \ {s} : v_blocks'[t] = v_blocks[t] /\ pte'[t] = pte[t]
    BY <2>1 DEF STypes
  <2>3. PICK used : used = [first |-> first, count |-> n, physical |-> phys,
                            allocated |-> TRUE, reserved |-> keeps]
    OBVIOUS
  <2>4. PartTaken(bs, i, used, r)
    <3>1. used = [first |-> bs[i].first, count |-> n, physical |-> phys,
                  allocated |-> TRUE, reserved |-> keeps]
      BY <1>2, <2>3
    <3> QED BY <1>0, <1>8, <3>1, PartTakenKeeps
  <2>5. ps \subseteq UnusedPages
    BY DEF Backs
  <2>6. Spares(s)
    <3>1. \A p \in ps \cup ts : p \in Virtual.pages /\ use[p] = [what |-> "free", of |-> 0]
      BY <1>7, <2>5 DEF UnusedPages
    <3>2. \A p \in Virtual.pages : /\ use'[p] = IF p \in ps THEN [what |-> "block", of |-> s]
                                                ELSE IF p \in ts THEN [what |-> "table", of |-> s]
                                                ELSE use[p]
      BY <2>1
    <3>3. use' \in [Virtual.pages -> Purpose]
      BY <2>1 DEF STypes, Purpose
    <3>4. \A p \in Virtual.pages : use'[p].what = "free" => use'[p].of = 0
      BY <3>2 DEF STypes
    <3>5. \A p \in Virtual.pages : use'[p] = use[p] \/ (use[p].of \in {0, s} /\ use'[p].of \in {0, s})
      BY <3>1, <3>2
    <3>6. Serves("image", s) \subseteq Serves("image", s)'
      BY <3>1, <3>2 DEF Serves
    <3> QED BY <3>3, <3>4, <3>5, <3>6 DEF Spares
  <2>7. /\ Serves("block", s)' = Serves("block", s) \cup ps
        /\ Serves("table", s)' = Serves("table", s) \cup ts
        /\ Serves("table", s) \cap ts = {}
    <3>1. \A p \in ps \cup ts : p \in Virtual.pages /\ use[p] = [what |-> "free", of |-> 0]
      BY <1>7, <2>5 DEF UnusedPages
    <3>2. \A p \in Virtual.pages : /\ use'[p] = IF p \in ps THEN [what |-> "block", of |-> s]
                                                ELSE IF p \in ts THEN [what |-> "table", of |-> s]
                                                ELSE use[p]
      BY <2>1
    <3>3. ts \cap ps = {}
      BY <1>7
    <3> QED BY <3>1, <3>2, <3>3 DEF Serves
  <2>8. Cardinality(Serves("table", s)') = Cardinality(TablesOf(table))
    <3>1. PICK T : T = Serves("table", s)
      OBVIOUS
    <3>2. IsFiniteSet(T) /\ Cardinality(T) \in Nat
      BY <3>1, FS_Subset, FS_CardinalityType DEF Serves, VSizes
    <3>3. Cardinality(T \cup ts) = Cardinality(T) + Cardinality(ts) - Cardinality(T \cap ts)
      BY <1>7, <3>2, FS_Union
    <3>4. Cardinality(T \cap ts) = 0
      BY <2>7, <3>1, FS_EmptySet
    <3>5. Cardinality(ts) = Cardinality(new)
      BY <1>5, <1>7, <1>10 DEF MappedTo
    <3>6. Cardinality(T) = Cardinality(TablesOf(pte[s]))
      BY <3>1 DEF Upheld
    <3>7. PICK a, b : a = Cardinality(T) /\ b = Cardinality(ts)
      OBVIOUS
    <3>8. a \in Nat /\ b \in Nat
      BY <1>7, <3>2, <3>7
    <3>9. Cardinality(T \cup ts) = a + b
      BY <3>3, <3>4, <3>7, <3>8
    <3>10. Cardinality(TablesOf(table)) = a + b
      BY <1>5, <3>5, <3>6, <3>7 DEF MappedTo
    <3> QED BY <2>7, <3>1, <3>9, <3>10
  <2>9. used \in VBlock /\ used.first = first /\ used.count = n /\ used.physical = phys /\ used.reserved = keeps
    BY <2>3 DEF VBlock
  <2>10. Allotted(r) = Allotted(bs) \cup {used} /\ r \in Seq(VBlock) /\ Listed(r)
    BY <2>4 DEF PartTaken
  <2>11. Maps(r, table)
    <3>1. ASSUME NEW v \in DOMAIN table
          PROVE  \E b \in Allotted(r) : v \in b.first..(b.first + b.count - 1)
      <4>1. CASE v \in first..(first + n - 1)
        BY <2>9, <2>10, <4>1
      <4>2. CASE v \in DOMAIN pte[s]
        BY <2>10, <4>2 DEF Upheld, Maps
      <4> QED BY <1>5, <4>1, <4>2 DEF MappedTo
    <3>2. ASSUME NEW b \in Allotted(r), NEW v \in b.first..(b.first + b.count - 1)
          PROVE  v \in DOMAIN table /\ table[v] = b.physical + (v - b.first)
      <4>1. CASE b = used
        BY <1>5, <2>9, <4>1 DEF MappedTo
      <4>2. CASE b \in Allotted(bs)
        <5>1. v \in DOMAIN pte[s] /\ pte[s][v] = b.physical + (v - b.first)
          BY <4>2 DEF Upheld, Maps
        <5>2. b.first \in Nat /\ b.count \in Nat
          BY <4>2, UpheldTyped
        <5>3. b.first + b.count <= first \/ first + n <= b.first
          BY <2>4, <2>9, <4>2 DEF PartTaken
        <5>4. v \notin first..(first + n - 1)
          BY <5>2, <5>3
        <5> QED BY <1>5, <5>1, <5>4 DEF MappedTo
      <4> QED BY <2>10, <4>1, <4>2
    <3> QED BY <3>1, <3>2 DEF Maps
  <2>12. ASSUME NEW b \in Allotted(r) PROVE Backed(s, b)'
    <3>1. CASE b = used
      <4>1. Behind(used) = phys..(phys + n - 1)
        BY <2>9 DEF Behind
      <4>2. ps \subseteq Serves("block", s)' /\ Serves("image", s) \subseteq Serves("image", s)'
        BY <2>6, <2>7 DEF Spares
      <4>3. IF keeps THEN Behind(used) \subseteq Serves("image", s)'
            ELSE Behind(used) \subseteq Serves("block", s)' \/ (n = 1 /\ phys \in Virtual.device)
        BY <4>1, <4>2 DEF Backs
      <4> QED BY <2>9, <3>1, <4>3 DEF Backed, Behind
    <3>2. CASE b \in Allotted(bs)
      <4>1. Backed(s, b)
        BY <3>2 DEF Upheld
      <4>2. Serves("image", s) \subseteq Serves("image", s)' /\ Serves("block", s) \subseteq Serves("block", s)'
        BY <2>6, <2>7 DEF Spares
      <4> QED BY <4>1, <4>2 DEF Backed, Behind
    <3> QED BY <2>10, <3>1, <3>2
  <2>13. ASSUME NEW p \in Serves("block", s)'
         PROVE  \E b \in Allotted(r) : ~b.reserved /\ p \in Behind(b)
    <3>1. CASE p \in Serves("block", s)
      BY <2>10, <3>1 DEF Upheld
    <3>2. CASE p \in ps
      <4>1. ~keeps /\ p \in phys..(phys + n - 1)
        BY <3>2 DEF Backs
      <4> QED BY <2>9, <2>10, <4>1 DEF Behind
    <3> QED BY <2>7, <3>1, <3>2
  <2>14. Upheld(s)'
    <3>1. \A p \in Serves("block", s)' : \E b \in Allotted(r) : ~b.reserved /\ p \in Behind(b)
      BY <2>13
    <3>2. \A b \in Allotted(r) : Backed(s, b)'
      BY <2>12
    <3>3. /\ v_blocks'[s] \in Seq(VBlock) /\ Listed(v_blocks'[s]) /\ Maps(v_blocks'[s], pte'[s])
          /\ Cardinality(Serves("table", s)') = Cardinality(TablesOf(pte'[s]))
      BY <2>2, <2>8, <2>10, <2>11
    <3> QED BY <2>2, <3>1, <3>2, <3>3 DEF Upheld, Listed, Maps, Allotted, TablesOf, Behind
  <2> QED BY <2>1, <2>2, <2>6, <2>14 DEF MappedWell
<1> QED BY <1>9, <1>10

\* A step for s: whatever it does to s, it keeps from the others.
StepOf(s) ==
  /\ Spares(s)
  /\ DOMAIN v_blocks' = Virtual.space /\ DOMAIN pte' = Virtual.space
  /\ DOMAIN image' = Virtual.space /\ DOMAIN pc' = Virtual.space
  /\ threads' \in [Virtual.space -> Nat]
  /\ \A t \in Virtual.space \ {s} :
       /\ v_blocks'[t] = v_blocks[t] /\ pte'[t] = pte[t] /\ image'[t] = image[t]
       /\ threads'[t] = threads[t] /\ pc'[t] = pc[t]
  /\ v_machine' \in {"up", "fault", "panic"}

LEMMA UpheldStays ==
  ASSUME NEW s, Upheld(s), v_blocks'[s] = v_blocks[s], pte'[s] = pte[s],
         Serves("image", s) \subseteq Serves("image", s)',
         Serves("block", s)' = Serves("block", s), Serves("table", s)' = Serves("table", s)
  PROVE  Upheld(s)'
<1>1. \A b \in Allotted(v_blocks[s]) : Backed(s, b)'
  <2> SUFFICES ASSUME NEW b \in Allotted(v_blocks[s]) PROVE Backed(s, b)'
    OBVIOUS
  <2>1. Backed(s, b)
    BY DEF Upheld
  <2> QED BY <2>1 DEF Backed, Behind
<1> QED BY <1>1 DEF Upheld, Listed, Maps, Allotted, TablesOf, Behind

LEMMA OtherWhole ==
  ASSUME VSizes, STypes, NEW s \in Virtual.space, StepOf(s), NEW t \in Virtual.space \ {s}, Whole(t)
  PROVE  Whole(t)'
<1>1. t # 0 /\ t \notin {0, s}
  BY DEF VSizes
<1>2. \A what : Serves(what, t)' = Serves(what, t)
  BY <1>1 DEF StepOf, Spares, Serves
<1>3. /\ v_blocks'[t] = v_blocks[t] /\ pte'[t] = pte[t] /\ image'[t] = image[t]
      /\ threads'[t] = threads[t] /\ pc'[t] = pc[t]
  BY DEF StepOf
<1>4. Lives(t)'
  BY <1>3 DEF Whole, Lives
<1>5. Imaged(t)'
  BY <1>2, <1>3 DEF Whole, Imaged, InFile
<1>6. HasSpace(t)' = HasSpace(t)
  BY <1>3 DEF HasSpace
<1>7. CASE HasSpace(t)
  <2>1. Upheld(t)
    BY <1>7 DEF Whole
  <2>2. Upheld(t)'
    BY <1>2, <1>3, <2>1, UpheldStays
  <2> QED BY <1>4, <1>5, <1>6, <1>7, <2>2 DEF Whole
<1>8. CASE ~HasSpace(t)
  <2>1. Bare(t)'
    BY <1>2, <1>3, <1>8 DEF Whole, Bare
  <2> QED BY <1>4, <1>5, <1>6, <1>8, <2>1 DEF Whole
<1> QED BY <1>7, <1>8

LEMMA StepKeeps ==
  ASSUME VSizes, SInv, NEW s \in Virtual.space, StepOf(s), Whole(s)'
  PROVE  SInv'
<1>1. \A t \in Virtual.space \ {s} : Whole(t)'
  BY OtherWhole DEF SInv
<1>2. STypes'
  BY DEF StepOf, Spares, STypes
<1> QED BY <1>1, <1>2 DEF SInv

LEMMA StoppedKeeps ==
  ASSUME SInv, Stopped
  PROVE  SInv'
<1>1. STypes'
  BY DEF SInv, STypes, Stopped
<1>2. ASSUME NEW s \in Virtual.space PROVE Whole(s)'
  <2>1. Whole(s)
    BY DEF SInv
  <2>2. Lives(s)' = Lives(s) /\ Imaged(s)' = Imaged(s) /\ HasSpace(s)' = HasSpace(s)
    BY DEF Stopped, Lives, Imaged, InFile, HasSpace, Serves
  <2>3. Bare(s)' = Bare(s)
    BY DEF Stopped, Bare, Serves
  <2>4. Upheld(s)' = Upheld(s)
    BY DEF Stopped, Upheld, Listed, Maps, Allotted, TablesOf, Backed, Behind, Serves
  <2> QED BY <2>1, <2>2, <2>3, <2>4 DEF Whole
<1> QED BY <1>1, <1>2 DEF SInv

LEMMA TakesKeeps ==
  ASSUME VSizes, STypes, NEW s \in Virtual.space, NEW ps, ps \subseteq UnusedPages,
         NEW what \in {"image", "directory", "stack"}, use' = Spaces!Takes(ps, what, s)
  PROVE  /\ Spares(s)
         /\ \A w \in {"image", "directory", "table", "block", "stack"} :
              Serves(w, s)' = Serves(w, s) \cup (IF w = what THEN ps ELSE {})
<1>1. \A p \in ps : p \in Virtual.pages /\ use[p] = [what |-> "free", of |-> 0]
  BY DEF UnusedPages
<1>2. use' = [p \in Virtual.pages |-> IF p \in ps THEN [what |-> what, of |-> s] ELSE use[p]]
  BY DEF Spaces!Takes
<1>3. use' \in [Virtual.pages -> Purpose]
  BY <1>2 DEF STypes, Purpose
<1>4. \A p \in Virtual.pages : use'[p].what = "free" => use'[p].of = 0
  BY <1>2 DEF STypes
<1>5. \A p \in Virtual.pages : use'[p] = use[p] \/ (use[p].of \in {0, s} /\ use'[p].of \in {0, s})
  BY <1>1, <1>2
<1>6. \A w \in {"image", "directory", "table", "block", "stack"} :
        Serves(w, s)' = Serves(w, s) \cup (IF w = what THEN ps ELSE {})
  BY <1>1, <1>2 DEF Serves
<1> QED BY <1>3, <1>4, <1>5, <1>6 DEF Spares

LEMMA RunFree ==
  ASSUME VSizes, NEW n \in Nat, NEW ps, ps = Spaces!Run(Spaces!Alloc(n), n)
  PROVE  ps \subseteq UnusedPages
<1>1. PICK p : p = Spaces!Alloc(n)
  OBVIOUS
<1>2. p = 0 \/ (p \in UnusedPages /\ p \in Nat \ {0} /\ p..(p + n - 1) \subseteq UnusedPages)
  BY <1>1, AllocIs
<1> QED BY <1>1, <1>2 DEF Spaces!Run, Spaces!NULL

-----------------------------------------------------------------------------
LEMMA ExecKeeps ==
  ASSUME VSizes, SInv, NEW s \in Virtual.space, NEW program \in Virtual.programs, v_machine = "up",
         Spaces!Exec(s, program)
  PROVE  SInv'
<1>1. PICK p : p = Spaces!Alloc(program.pages)
  OBVIOUS
<1>2. program.pages \in Nat \ {0}
  BY DEF VSizes
<1>3. p = 0 \/ (p \in UnusedPages /\ p \in Nat \ {0} /\ p..(p + program.pages - 1) \subseteq UnusedPages)
  BY <1>1, <1>2, AllocIs
<1>4. CASE p = 0
  <2>1. Stopped
    BY <1>1, <1>4 DEF Spaces!Exec, Spaces!NULL, Spaces!Stop, Stopped
  <2> QED BY <2>1, StoppedKeeps
<1>5. CASE p # 0
  <2>1. PICK ps : ps = p..(p + program.pages - 1)
    OBVIOUS
  <2>2. Spaces!Run(p, program.pages) = ps
    BY <1>5, <2>1 DEF Spaces!Run, Spaces!NULL
  <2>3. /\ pc[s][1] = "none"
        /\ use' = Spaces!Takes(ps, "image", s)
        /\ image' = [image EXCEPT ![s] = [program |-> program, page |-> p]]
        /\ pc' = [pc EXCEPT ![s] = IF program.elf THEN <<"construct">> ELSE <<"over">>]
        /\ v_blocks' = v_blocks /\ pte' = pte /\ threads' = threads /\ v_machine' = v_machine
    BY <1>1, <1>5, <2>2 DEF Spaces!Exec, Spaces!Place, Spaces!Goes, Spaces!NULL
  <2>4. /\ Spares(s)
        /\ \A w \in {"image", "directory", "table", "block", "stack"} :
             Serves(w, s)' = Serves(w, s) \cup (IF w = "image" THEN ps ELSE {})
    <3>1. ps \subseteq UnusedPages
      BY <1>3, <1>5, <2>1
    <3> QED BY <2>3, <3>1, TakesKeeps DEF SInv
  <2>5. StepOf(s)
    BY <2>3, <2>4 DEF StepOf, SInv, STypes
  <2>6. pc'[s][1] \in {"construct", "over"} /\ image'[s] = [program |-> program, page |-> p]
    BY <2>3 DEF SInv, STypes
  <2>7. Lives(s)'
    BY <2>3, <2>6 DEF SInv, Whole, Lives
  <2>8. Imaged(s)'
    <3>1. InFile(s)' = ps
      BY <2>1, <2>6 DEF InFile
    <3>2. ps \subseteq Serves("image", s)'
      BY <2>4
    <3>3. image'[s] \in [program : Virtual.programs, page : Nat]
      BY <1>3, <1>5, <2>6
    <3> QED BY <3>1, <3>2, <3>3 DEF Imaged
  <2>9. Bare(s)'
    <3>1. Bare(s)
      BY <2>3 DEF SInv, Whole, HasSpace
    <3> QED BY <2>3, <2>4, <3>1 DEF Bare
  <2>10. Whole(s)'
    BY <2>6, <2>7, <2>8, <2>9 DEF Whole, HasSpace
  <2> QED BY <2>5, <2>10, StepKeeps
<1> QED BY <1>4, <1>5

LEMMA ConstructKeeps ==
  ASSUME VSizes, SInv, NEW s \in Virtual.space, v_machine = "up", Spaces!Construct(s)
  PROVE  SInv'
<1>1. PICK p : p = Spaces!Alloc(1)
  OBVIOUS
<1>3. p = 0 \/ p \in UnusedPages
  BY <1>1, AllocIs
<1>4. CASE p = 0
  <2>1. Stopped
    BY <1>1, <1>4 DEF Spaces!Construct, Spaces!NULL, Spaces!Stop, Stopped
  <2> QED BY <2>1, StoppedKeeps
<1>5. CASE p # 0
  <2>1. PICK bs : bs = Spaces!Empty
    OBVIOUS
  <2>3. /\ pc[s][1] = "construct"
        /\ use' = Spaces!Takes({p}, "directory", s)
        /\ v_blocks' = [v_blocks EXCEPT ![s] = bs]
        /\ pc' = [pc EXCEPT ![s] = <<"segment", 1>>]
        /\ image' = image /\ pte' = pte /\ threads' = threads /\ v_machine' = v_machine
    BY <1>1, <1>5, <2>1 DEF Spaces!Construct, Spaces!Place, Spaces!Goes, Spaces!NULL
  <2>4. /\ Spares(s)
        /\ \A w \in {"image", "directory", "table", "block", "stack"} :
             Serves(w, s)' = Serves(w, s) \cup (IF w = "directory" THEN {p} ELSE {})
    <3>1. {p} \subseteq UnusedPages
      BY <1>3, <1>5
    <3> QED BY <2>3, <3>1, TakesKeeps DEF SInv
  <2>5. StepOf(s)
    BY <2>3, <2>4 DEF StepOf, SInv, STypes
  <2>6. pc'[s][1] = "segment" /\ v_blocks'[s] = bs
    BY <2>3 DEF SInv, STypes
  <2>7. Lives(s)'
    BY <2>3, <2>6 DEF SInv, Whole, Lives
  <2>8. Imaged(s)'
    BY <2>3, <2>4, <2>6 DEF SInv, Whole, Imaged, InFile
  <2>9. Upheld(s)'
    <3>1. Bare(s)
      BY <2>3 DEF SInv, Whole, HasSpace
    <3>2. bs = <<[first |-> 0, count |-> Virtual.start - 1, physical |-> 0, allocated |-> TRUE, reserved |-> TRUE],
                 [first |-> Virtual.start, count |-> Virtual.end - Virtual.start, physical |-> 0,
                  allocated |-> FALSE, reserved |-> FALSE]>>
      BY <2>1 DEF Spaces!Empty, Spaces!NULL
    <3>3. Virtual.start - 1 \in Nat /\ Virtual.end - Virtual.start \in Nat /\ Virtual.start \in Nat
      BY DEF VSizes
    <3>4. bs \in Seq(VBlock)
      BY <3>2, <3>3 DEF VBlock
    <3>5. Len(bs) = 2 /\ ~bs[2].allocated /\ bs[2].first = Virtual.start
          /\ bs[2].count = Virtual.end - Virtual.start
          /\ bs[1].allocated /\ bs[1].reserved /\ bs[1].first = 0 /\ bs[1].count = Virtual.start - 1
      BY <3>2
    <3>6. Allotted(bs) = {}
      BY <3>5 DEF Allotted
    <3>7. Listed(bs)
      <4>1. \A i \in 2..Len(bs) : i = 2
        BY <3>5
      <4>2. Virtual.start + (Virtual.end - Virtual.start) = Virtual.end
        BY DEF VSizes
      <4> QED BY <3>3, <3>5, <4>1, <4>2 DEF Listed, VSizes
    <3>8. Serves("block", s)' = {} /\ Serves("table", s)' = {} /\ DOMAIN pte'[s] = {}
      BY <2>3, <2>4, <3>1 DEF Bare
    <3>9. TablesOf(pte'[s]) = {}
      BY <3>8 DEF TablesOf
    <3> QED BY <2>6, <3>4, <3>6, <3>7, <3>8, <3>9 DEF Upheld, Maps, Listed, Allotted, TablesOf
  <2>10. Whole(s)'
    BY <2>6, <2>7, <2>8, <2>9 DEF Whole, HasSpace
  <2> QED BY <2>5, <2>10, StepKeeps
<1> QED BY <1>4, <1>5

\* A step of s that leaves it with a list and tables that agree.
LEMMA MappedStep ==
  ASSUME VSizes, SInv, NEW s \in Virtual.space, HasSpace(s), MappedWell(s),
         image' = image, threads' \in [Virtual.space -> Nat], DOMAIN pc' = Virtual.space,
         \A t \in Virtual.space \ {s} : threads'[t] = threads[t] /\ pc'[t] = pc[t],
         HasSpace(s)', Lives(s)'
  PROVE  SInv'
<1>1. StepOf(s)
  BY DEF StepOf, MappedWell, SInv, STypes
<1>2. Imaged(s)'
  <2>1. pc[s][1] # "none" /\ Imaged(s)
    BY DEF HasSpace, SInv, Whole
  <2> QED BY <2>1 DEF Imaged, InFile, MappedWell, Spares
<1>3. Whole(s)'
  BY <1>2 DEF Whole, MappedWell
<1> QED BY <1>1, <1>3, StepKeeps

LEMMA UnchangedWell ==
  ASSUME SInv, NEW s \in Virtual.space, Upheld(s),
         use' = use, v_blocks' = v_blocks, pte' = pte, v_machine' = v_machine
  PROVE  MappedWell(s)
<1>1. \A w : Serves(w, s)' = Serves(w, s)
  BY DEF Serves
<1>2. Upheld(s)'
  BY <1>1, UpheldStays
<1>3. Spares(s)
  BY <1>1 DEF Spares, SInv, STypes
<1> QED BY <1>2, <1>3 DEF MappedWell, SInv, STypes

\* alloc leaves a list and tables that agree, or the kernel stops.
LEMMA AllocatesKeeps ==
  ASSUME VSizes, SInv, NEW s \in Virtual.space, Upheld(s), NEW n \in Nat \ {0},
         Spaces!Allocates(s, n)
  PROVE  Stopped \/ MappedWell(s)
<1>1. PICK p : p = Spaces!Alloc(n)
  OBVIOUS
<1>2. p = 0 \/ (p \in UnusedPages /\ p \in Nat \ {0} /\ p..(p + n - 1) \subseteq UnusedPages)
  BY <1>1, AllocIs
<1>3. CASE Spaces!FirstFit(v_blocks[s], n) = {} \/ p = 0
  <2>1. use' = use /\ v_blocks' = v_blocks /\ pte' = pte /\ v_machine' = v_machine
    BY <1>1, <1>3 DEF Spaces!Allocates, Spaces!NULL
  <2> QED BY <2>1, UnchangedWell
<1>4. CASE Spaces!FirstFit(v_blocks[s], n) # {} /\ p # 0
  <2>1. PICK i : i = Spaces!Min(Spaces!FirstFit(v_blocks[s], n))
    OBVIOUS
  <2>2. PICK ps : ps = p..(p + n - 1)
    OBVIOUS
  <2>3. Spaces!MapBlock(s, i, n, p, ps, FALSE)
    BY <1>1, <1>4, <2>1, <2>2 DEF Spaces!Allocates, Spaces!NULL, Spaces!Run
  <2>4. v_blocks[s] \in Seq(VBlock) /\ Listed(v_blocks[s])
    BY DEF Upheld
  <2>5. i \in 2..Len(v_blocks[s]) /\ ~v_blocks[s][i].allocated /\ v_blocks[s][i].count >= n
    BY <1>4, <2>1, <2>4, FirstFitIs
  <2>6. v_blocks[s][i].count \in Nat
    <3>1. i \in 1..Len(v_blocks[s])
      BY <2>5
    <3> QED BY <2>4, <3>1, ListedTyped
  <2>7. n \in Nat /\ n >= 1 /\ n <= v_blocks[s][i].count
    BY <2>5, <2>6
  <2>8. Backs(s, n, p, ps, FALSE) /\ p \in Nat
    BY <1>2, <1>4, <2>2 DEF Backs
  <2> QED BY <2>3, <2>5, <2>7, <2>8, MapBlockKeeps DEF SInv
<1> QED BY <1>3, <1>4

-----------------------------------------------------------------------------
LEMMA KernelStackKeeps ==
  ASSUME VSizes, SInv, NEW s \in Virtual.space, Upheld(s), Spaces!KernelStack(s),
         v_blocks' = v_blocks, pte' = pte, v_machine' = v_machine
  PROVE  MappedWell(s)
<1>1. PICK ps : ps = Spaces!Run(Spaces!Alloc(Virtual.pl0), Virtual.pl0)
  OBVIOUS
<1>2. ps \subseteq UnusedPages
  BY <1>1, RunFree DEF VSizes
<1>3. use' = Spaces!Takes(ps, "stack", s)
  BY <1>1 DEF Spaces!KernelStack
<1>4. /\ Spares(s)
      /\ \A w \in {"image", "directory", "table", "block", "stack"} :
           Serves(w, s)' = Serves(w, s) \cup (IF w = "stack" THEN ps ELSE {})
  BY <1>2, <1>3, TakesKeeps DEF SInv
<1>5. Upheld(s)'
  BY <1>4, UpheldStays
<1> QED BY <1>4, <1>5 DEF MappedWell, SInv, STypes

LEMMA CreateKernelStackKeeps ==
  ASSUME VSizes, SInv, NEW s \in Virtual.space, Spaces!CreateKernelStack(s)
  PROVE  SInv'
<1>1. /\ pc[s][1] = "segment" /\ pc' = [pc EXCEPT ![s] = <<"stack">>]
      /\ v_blocks' = v_blocks /\ pte' = pte /\ image' = image /\ threads' = threads
      /\ v_machine' = v_machine /\ Spaces!KernelStack(s)
  BY DEF Spaces!CreateKernelStack, Spaces!Place, Spaces!Goes
<1>2. HasSpace(s) /\ Whole(s)
  BY <1>1 DEF HasSpace, SInv
<1>3. MappedWell(s)
  BY <1>1, <1>2, KernelStackKeeps DEF Whole
<1>4. pc'[s] = <<"stack">> /\ DOMAIN pc' = Virtual.space /\ threads' \in [Virtual.space -> Nat]
      /\ \A t \in Virtual.space \ {s} : threads'[t] = threads[t] /\ pc'[t] = pc[t]
  BY <1>1 DEF SInv, STypes
<1>5. HasSpace(s)' /\ Lives(s)'
  BY <1>1, <1>2, <1>4 DEF HasSpace, Lives, Whole
<1> QED BY <1>1, <1>2, <1>3, <1>4, <1>5, MappedStep

LEMMA StartThreadKeeps ==
  ASSUME VSizes, SInv, NEW s \in Virtual.space, Spaces!StartThread(s)
  PROVE  SInv'
<1>1. /\ pc[s][1] = "live" /\ threads[s] < Virtual.threads /\ pc' = [pc EXCEPT ![s] = <<"thread">>]
      /\ v_blocks' = v_blocks /\ pte' = pte /\ image' = image /\ threads' = threads
      /\ v_machine' = v_machine /\ Spaces!KernelStack(s)
  BY DEF Spaces!StartThread, Spaces!Running, Spaces!Place, Spaces!Goes
<1>2. HasSpace(s) /\ Whole(s)
  BY <1>1 DEF HasSpace, SInv
<1>3. MappedWell(s)
  BY <1>1, <1>2, KernelStackKeeps DEF Whole
<1>4. pc'[s] = <<"thread">> /\ DOMAIN pc' = Virtual.space /\ threads' \in [Virtual.space -> Nat]
      /\ \A t \in Virtual.space \ {s} : threads'[t] = threads[t] /\ pc'[t] = pc[t]
  BY <1>1 DEF SInv, STypes
<1>5. HasSpace(s)' /\ Lives(s)'
  BY <1>1, <1>2, <1>4 DEF HasSpace, Lives, Whole
<1> QED BY <1>1, <1>2, <1>3, <1>4, <1>5, MappedStep

\* A stack for a program's thread: it lives with one thread more.
LEMMA LivesNow ==
  ASSUME VSizes, SInv, NEW s \in Virtual.space, HasSpace(s), v_machine = "up",
         Stopped \/ MappedWell(s), NEW m \in 1..Virtual.threads,
         IF v_machine' = "up" THEN threads' = [threads EXCEPT ![s] = m] /\ pc' = [pc EXCEPT ![s] = <<"live">>]
         ELSE UNCHANGED <<threads, pc>>,
         image' = image
  PROVE  SInv'
<1>1. CASE Stopped
  BY <1>1, StoppedKeeps
<1>2. CASE MappedWell(s)
  <2>1. v_machine' = "up"
    BY <1>2 DEF MappedWell
  <2>2. threads' = [threads EXCEPT ![s] = m] /\ pc' = [pc EXCEPT ![s] = <<"live">>]
    BY <2>1
  <2>3. pc'[s] = <<"live">> /\ DOMAIN pc' = Virtual.space /\ threads' \in [Virtual.space -> Nat]
        /\ threads'[s] = m
        /\ \A t \in Virtual.space \ {s} : threads'[t] = threads[t] /\ pc'[t] = pc[t]
    BY <2>2 DEF SInv, STypes, VSizes
  <2>4. HasSpace(s)' /\ Lives(s)'
    BY <2>3 DEF HasSpace, Lives, VSizes
  <2> QED BY <1>2, <2>3, <2>4, MappedStep
<1> QED BY <1>1, <1>2

LEMMA CreateStackKeeps ==
  ASSUME VSizes, SInv, NEW s \in Virtual.space, v_machine = "up", Spaces!CreateStack(s)
  PROVE  SInv'
<1>1. pc[s][1] = "stack" /\ Spaces!Allocates(s, Virtual.pl3) /\ image' = image
  BY DEF Spaces!CreateStack, Spaces!Place
<1>2. IF v_machine' = "up" THEN threads' = [threads EXCEPT ![s] = 1] /\ pc' = [pc EXCEPT ![s] = <<"live">>]
      ELSE UNCHANGED <<threads, pc>>
  BY DEF Spaces!CreateStack, Spaces!Goes
<1>3. HasSpace(s) /\ Upheld(s)
  BY <1>1 DEF HasSpace, SInv, Whole
<1>4. Stopped \/ MappedWell(s)
  BY <1>1, <1>3, AllocatesKeeps DEF VSizes
<1>5. 1 \in 1..Virtual.threads
  BY DEF VSizes
<1> QED BY <1>1, <1>2, <1>3, <1>4, <1>5, LivesNow

LEMMA ThreadStackKeeps ==
  ASSUME VSizes, SInv, NEW s \in Virtual.space, v_machine = "up", Spaces!ThreadStack(s)
  PROVE  SInv'
<1>1. pc[s][1] = "thread" /\ Spaces!Allocates(s, Virtual.pl3) /\ image' = image
  BY DEF Spaces!ThreadStack, Spaces!Place
<1>2. PICK m : m = threads[s] + 1
  OBVIOUS
<1>3. IF v_machine' = "up" THEN threads' = [threads EXCEPT ![s] = m] /\ pc' = [pc EXCEPT ![s] = <<"live">>]
      ELSE UNCHANGED <<threads, pc>>
  BY <1>2 DEF Spaces!ThreadStack, Spaces!Goes
<1>4. HasSpace(s) /\ Upheld(s) /\ Lives(s)
  BY <1>1 DEF HasSpace, SInv, Whole
<1>5. Stopped \/ MappedWell(s)
  BY <1>1, <1>4, AllocatesKeeps DEF VSizes
<1>6. m \in 1..Virtual.threads
  BY <1>1, <1>2, <1>4 DEF VSizes, Lives
<1> QED BY <1>1, <1>3, <1>4, <1>5, <1>6, LivesNow

\* What a live program maps for itself.
LEMMA LiveMaps ==
  ASSUME VSizes, SInv, NEW s \in Virtual.space, pc[s][1] = "live", Stopped \/ MappedWell(s),
         image' = image, threads' = threads, pc' = pc
  PROVE  SInv'
<1>1. HasSpace(s) /\ HasSpace(s)' /\ Lives(s)'
  BY DEF HasSpace, SInv, Whole, Lives
<1>2. threads' \in [Virtual.space -> Nat] /\ DOMAIN pc' = Virtual.space
      /\ \A t \in Virtual.space \ {s} : threads'[t] = threads[t] /\ pc'[t] = pc[t]
  BY DEF SInv, STypes
<1> QED BY <1>1, <1>2, MappedStep, StoppedKeeps

LEMMA MorecoreKeeps ==
  ASSUME VSizes, SInv, NEW s \in Virtual.space, Spaces!Morecore(s)
  PROVE  SInv'
<1>1. pc[s][1] = "live" /\ Spaces!Allocates(s, 1) /\ image' = image /\ threads' = threads /\ pc' = pc
  BY DEF Spaces!Morecore, Spaces!Running, Spaces!Place
<1>2. Upheld(s)
  BY <1>1 DEF HasSpace, SInv, Whole
<1>3. Stopped \/ MappedWell(s)
  BY <1>1, <1>2, AllocatesKeeps
<1> QED BY <1>1, <1>3, LiveMaps

LEMMA AttachMemoryKeeps ==
  ASSUME VSizes, SInv, NEW s \in Virtual.space, NEW d \in Virtual.device, Spaces!AttachMemory(s, d)
  PROVE  SInv'
<1>1. PICK i : i = Spaces!Min(Spaces!FirstFit(v_blocks[s], 1))
  OBVIOUS
<1>2. /\ pc[s][1] = "live" /\ Spaces!FirstFit(v_blocks[s], 1) # {}
      /\ Spaces!MapBlock(s, i, 1, d, {}, FALSE)
      /\ image' = image /\ threads' = threads /\ pc' = pc
  BY <1>1 DEF Spaces!AttachMemory, Spaces!Running, Spaces!Place
<1>3. Upheld(s)
  BY <1>2 DEF HasSpace, SInv, Whole
<1>4. v_blocks[s] \in Seq(VBlock) /\ Listed(v_blocks[s])
  BY <1>3 DEF Upheld
<1>5. i \in 2..Len(v_blocks[s]) /\ ~v_blocks[s][i].allocated /\ v_blocks[s][i].count >= 1
  BY <1>1, <1>2, <1>4, FirstFitIs
<1>6. v_blocks[s][i].count \in Nat
  <2>1. i \in 1..Len(v_blocks[s])
    BY <1>5
  <2> QED BY <1>4, <2>1, ListedTyped
<1>7. 1 \in Nat /\ 1 >= 1 /\ 1 <= v_blocks[s][i].count
  BY <1>5, <1>6
<1>8. Backs(s, 1, d, {}, FALSE) /\ d \in Nat
  BY DEF Backs, VSizes
<1>9. Stopped \/ MappedWell(s)
  BY <1>2, <1>3, <1>5, <1>7, <1>8, MapBlockKeeps DEF SInv
<1> QED BY <1>2, <1>9, LiveMaps

\* Pages that n bytes take, when there are any.
LEMMA PagesOfIs ==
  ASSUME VSizes, NEW m \in Nat \ {0}, NEW n, n = Spaces!PagesOf(m)
  PROVE  n \in Nat /\ n >= 1
<1>1. PICK page \in Nat : page = Virtual.page /\ page >= 1
  BY DEF VSizes
<1>2. n = (m + page - 1) \div page
  BY <1>1 DEF Spaces!PagesOf
<1>3. m + page - 1 >= page /\ m + page - 1 \in Nat
  BY <1>1
<1>4. PICK a \in Nat : a = m + page - 1
  BY <1>3
<1>5. n \in Int /\ a < (n + 1) * page
  BY <1>1, <1>2, <1>4
<1>6. ASSUME n < 1 PROVE FALSE
  <2>1. n + 1 <= 1
    BY <1>5, <1>6
  <2>2. (n + 1) * page <= page
    BY <1>1, <1>5, <2>1
  <2>3. (n + 1) * page \in Int /\ a >= page
    BY <1>1, <1>3, <1>4, <1>5
  <2> QED BY <1>1, <1>5, <2>2, <2>3
<1> QED BY <1>5, <1>6

\* A segment lies in the pages of its program's file.
LEMMA SegmentInFile ==
  ASSUME VSizes, Spaces!WellLinked, NEW s \in Virtual.space, Imaged(s), pc[s][1] # "none",
         NEW k \in 1..Len(image[s].program.segments),
         NEW seg, seg = image[s].program.segments[k], Spaces!Loaded(seg),
         NEW n, n = Spaces!PagesOf(seg.memsz), NEW phys, phys = Spaces!FirstPage(s, seg)
  PROVE  /\ n \in Nat /\ n >= 1 /\ phys \in Nat
         /\ phys..(phys + n - 1) \subseteq Serves("image", s)
         /\ seg.vaddr \div Virtual.page \in Nat
<1>1. PICK program \in Virtual.programs : program = image[s].program
  BY DEF Imaged
<1>2. program.segments \in Seq(Spaces!Segment) /\ program.pages \in Nat
  BY DEF VSizes
<1>3. seg \in Spaces!Segment /\ k \in DOMAIN program.segments
  BY <1>1, <1>2
<1>4. seg.memsz \in Nat /\ seg.offset \in Nat /\ seg.vaddr \in Nat
  BY <1>3 DEF Spaces!Segment
<1>5. seg.memsz # 0 /\ seg.offset \div Virtual.page + n <= program.pages
  BY <1>1, <1>3 DEF Spaces!WellLinked
<1>6. n \in Nat /\ n >= 1
  BY <1>4, <1>5, PagesOfIs
<1>7. PICK o \in Nat : o = seg.offset \div Virtual.page
  <2>1. seg.offset \div Virtual.page \in 0..seg.offset
    BY <1>4, DividedIn DEF VSizes
  <2> QED BY <1>4, <2>1
<1>8. PICK f \in Nat : f = image[s].page
  BY DEF Imaged
<1>9. phys = f + o
  BY <1>7, <1>8 DEF Spaces!FirstPage
<1>10. PICK m \in Nat : m = program.pages
  BY <1>2
<1>11. o + n <= m
  BY <1>5, <1>7, <1>10
<1>12. phys..(phys + n - 1) \subseteq f..(f + m - 1)
  BY ONLY <1>9, <1>11, o \in Nat, f \in Nat, m \in Nat, <1>6
<1>13. f..(f + m - 1) \subseteq Serves("image", s)
  BY <1>1, <1>8, <1>10 DEF Imaged, InFile
<1>14. seg.vaddr \div Virtual.page \in Nat
  <2>1. seg.vaddr \div Virtual.page \in 0..seg.vaddr
    BY <1>4, DividedIn DEF VSizes
  <2> QED BY <1>4, <2>1
<1> QED BY <1>6, <1>9, <1>12, <1>13, <1>14

LEMMA LoadSegmentKeeps ==
  ASSUME VSizes, Spaces!WellLinked, SInv, NEW s \in Virtual.space, v_machine = "up",
         Spaces!LoadSegment(s)
  PROVE  SInv'
<1>1. PICK k : k = pc[s][2]
  OBVIOUS
<1>2. pc[s][1] = "segment" /\ k <= Len(image[s].program.segments)
  BY <1>1 DEF Spaces!LoadSegment, Spaces!Place, Spaces!Segments
<1>3. HasSpace(s) /\ Whole(s) /\ Upheld(s) /\ Lives(s) /\ Imaged(s) /\ pc[s][1] # "none"
  BY <1>2 DEF HasSpace, SInv, Whole
<1>4. k \in Nat \ {0} /\ image[s].program.segments \in Seq(Spaces!Segment)
  <2>1. image[s].program \in Virtual.programs
    BY <1>3 DEF Imaged
  <2> QED BY <1>1, <1>2, <1>3, <2>1 DEF Lives, VSizes
<1>5. k \in 1..Len(image[s].program.segments)
  BY <1>2, <1>4
<1>6. PICK seg : seg = image[s].program.segments[k]
  OBVIOUS
<1>7. PICK n : n = Spaces!PagesOf(seg.memsz)
  OBVIOUS
<1>8. PICK virt : virt = seg.vaddr \div Virtual.page
  OBVIOUS
<1>9. PICK phys : phys = Spaces!FirstPage(s, seg)
  OBVIOUS
<1>10. PICK fit : fit = Spaces!Covers(v_blocks[s], virt, n)
  OBVIOUS
<1>11. PICK i : i = Spaces!Max(fit)
  OBVIOUS
<1>12. PICK next : next = <<"segment", k + 1>>
  OBVIOUS
<1>13. \/ /\ ~Spaces!Loaded(seg) /\ pc' = [pc EXCEPT ![s] = next]
          /\ UNCHANGED <<use, v_blocks, pte, image, threads, v_machine>>
       \/ Spaces!Stop("panic")
       \/ /\ Spaces!Loaded(seg) /\ fit # {} /\ v_blocks[s][i].first = virt
          /\ Spaces!MapBlock(s, i, n, phys, {}, TRUE)
          /\ pc' = IF v_machine' = "up" THEN [pc EXCEPT ![s] = next] ELSE pc
          /\ UNCHANGED <<image, threads>>
  BY <1>1, <1>6, <1>7, <1>8, <1>9, <1>10, <1>11, <1>12
     DEF Spaces!LoadSegment, Spaces!Segments, Spaces!Goes
<1>14. ASSUME pc' = [pc EXCEPT ![s] = next], image' = image, threads' = threads, MappedWell(s)
       PROVE  SInv'
  <2>1. pc'[s] = next /\ DOMAIN pc' = Virtual.space /\ threads' \in [Virtual.space -> Nat]
        /\ \A t \in Virtual.space \ {s} : threads'[t] = threads[t] /\ pc'[t] = pc[t]
    BY <1>14 DEF SInv, STypes
  <2>2. next[1] = "segment" /\ next[2] \in Nat \ {0}
    BY <1>4, <1>12
  <2>3. HasSpace(s)' /\ Lives(s)'
    BY <1>3, <1>14, <2>1, <2>2 DEF HasSpace, Lives
  <2> QED BY <1>3, <1>14, <2>1, <2>3, MappedStep
<1>15. CASE /\ ~Spaces!Loaded(seg) /\ pc' = [pc EXCEPT ![s] = next]
            /\ UNCHANGED <<use, v_blocks, pte, image, threads, v_machine>>
  <2>1. MappedWell(s)
    BY <1>3, <1>15, UnchangedWell
  <2> QED BY <1>14, <1>15, <2>1
<1>16. CASE Spaces!Stop("panic")
  <2>1. Stopped
    BY <1>16 DEF Spaces!Stop, Stopped
  <2> QED BY <2>1, StoppedKeeps
<1>17. CASE /\ Spaces!Loaded(seg) /\ fit # {} /\ v_blocks[s][i].first = virt
            /\ Spaces!MapBlock(s, i, n, phys, {}, TRUE)
            /\ pc' = IF v_machine' = "up" THEN [pc EXCEPT ![s] = next] ELSE pc
            /\ UNCHANGED <<image, threads>>
  <2>1. /\ n \in Nat /\ n >= 1 /\ phys \in Nat
        /\ phys..(phys + n - 1) \subseteq Serves("image", s)
        /\ virt \in Nat
    BY <1>3, <1>5, <1>6, <1>7, <1>8, <1>9, <1>17, SegmentInFile
  <2>2. v_blocks[s] \in Seq(VBlock) /\ Listed(v_blocks[s])
    BY <1>3 DEF Upheld
  <2>3. i \in 2..Len(v_blocks[s]) /\ ~v_blocks[s][i].allocated
        /\ v_blocks[s][i].first + v_blocks[s][i].count >= virt + n
    BY <1>10, <1>11, <1>17, <2>2, CoverIs
  <2>4. v_blocks[s][i].count \in Nat
    <3>1. i \in 1..Len(v_blocks[s])
      BY <2>3
    <3> QED BY <2>2, <3>1, ListedTyped
  <2>5. n <= v_blocks[s][i].count
    BY <1>17, <2>1, <2>3, <2>4
  <2>6. Backs(s, n, phys, {}, TRUE)
    BY <2>1 DEF Backs
  <2>7. Stopped \/ MappedWell(s)
    BY <1>3, <1>17, <2>1, <2>3, <2>5, <2>6, MapBlockKeeps DEF SInv
  <2>8. MappedWell(s) => pc' = [pc EXCEPT ![s] = next]
    BY <1>17 DEF MappedWell
  <2> QED BY <1>14, <1>17, <2>7, <2>8, StoppedKeeps
<1> QED BY <1>13, <1>15, <1>16, <1>17

-----------------------------------------------------------------------------
\* What the last thread gives back is the space's own, and all of it but the file
\* and the kernel stacks.
LEMMA FreedAre ==
  ASSUME VSizes, NEW s \in Virtual.space, Upheld(s)
  PROVE  Spaces!FreedBy(s) \cap Virtual.pages = Serves("block", s)
<1>1. PICK bs : bs = v_blocks[s]
  OBVIOUS
<1>2. bs \in Seq(VBlock) /\ Listed(bs)
  BY <1>1 DEF Upheld
<1>3. Spaces!GivenUp(s) = {i \in 1..Len(bs) : bs[i].allocated /\ ~bs[i].reserved}
  BY <1>1, <1>2 DEF Spaces!GivenUp
<1>4. Spaces!GivenUp(s) = {i \in 2..Len(bs) : bs[i].allocated /\ ~bs[i].reserved}
  <2>1. bs[1].reserved
    BY <1>2 DEF Listed
  <2>2. \A i \in 1..Len(bs) : i = 1 \/ i \in 2..Len(bs)
    BY <1>2
  <2>3. \A i \in 2..Len(bs) : i \in 1..Len(bs)
    OBVIOUS
  <2> QED BY <1>3, <2>1, <2>2, <2>3
<1>5. Spaces!FreedBy(s) = UNION {Spaces!Run(b.physical, b.count) : b \in {c \in Allotted(bs) : ~c.reserved}}
  BY <1>1, <1>4 DEF Spaces!FreedBy, Allotted
<1>6. ASSUME NEW b \in Allotted(bs), ~b.reserved
      PROVE  Spaces!Run(b.physical, b.count) \cap Virtual.pages = Behind(b) \cap Serves("block", s)
  <2>1. b.physical \in Nat /\ b.count \in Nat /\ Backed(s, b)
    BY <1>1, UpheldTyped DEF Upheld
  <2>2. CASE Behind(b) \subseteq Serves("block", s)
    <3>1. b.physical \in Behind(b)
      BY <2>1 DEF Behind, Backed
    <3>2. b.physical # 0
      BY <2>2, <3>1 DEF Serves, VSizes
    <3>3. Spaces!Run(b.physical, b.count) = Behind(b)
      BY <3>2 DEF Spaces!Run, Spaces!NULL, Behind
    <3> QED BY <2>2, <3>3 DEF Serves
  <2>3. CASE b.count = 1 /\ b.physical \in Virtual.device
    <3>1. Behind(b) = {b.physical}
      BY <2>1, <2>3 DEF Behind
    <3>2. Behind(b) \cap Virtual.pages = {}
      BY <2>3, <3>1 DEF VSizes
    <3>3. Spaces!Run(b.physical, b.count) \subseteq Behind(b)
      BY DEF Spaces!Run, Spaces!NULL, Behind
    <3> QED BY <3>2, <3>3 DEF Serves
  <2> QED BY <1>6, <2>1, <2>2, <2>3 DEF Backed
<1>7. ASSUME NEW p \in Spaces!FreedBy(s) \cap Virtual.pages PROVE p \in Serves("block", s)
  <2>1. PICK b \in Allotted(bs) : ~b.reserved /\ p \in Spaces!Run(b.physical, b.count)
    BY <1>5, <1>7
  <2> QED BY <1>6, <2>1
<1>8. ASSUME NEW p \in Serves("block", s) PROVE p \in Spaces!FreedBy(s) \cap Virtual.pages
  <2>1. PICK b \in Allotted(bs) : ~b.reserved /\ p \in Behind(b)
    BY <1>1 DEF Upheld
  <2>2. p \in Spaces!Run(b.physical, b.count) /\ p \in Virtual.pages
    BY <1>6, <2>1
  <2> QED BY <1>5, <2>1, <2>2
<1> QED BY <1>7, <1>8

LEMMA DieKeeps ==
  ASSUME VSizes, SInv, NEW s \in Virtual.space, v_machine = "up", Spaces!Die(s)
  PROVE  SInv'
<1>1. PICK m : m = threads[s] - 1
  OBVIOUS
<1>2. /\ pc[s][1] = "live" /\ threads' = [threads EXCEPT ![s] = m]
      /\ image' = image /\ v_machine' = v_machine
  BY <1>1 DEF Spaces!Die, Spaces!Running, Spaces!Place
<1>3. HasSpace(s) /\ Upheld(s) /\ Lives(s) /\ Imaged(s)
  BY <1>2 DEF HasSpace, SInv, Whole
<1>4. m \in 0..Virtual.threads /\ (threads[s] # 1 => m >= 1)
  BY <1>1, <1>2, <1>3 DEF Lives, VSizes
<1>5. threads'[s] = m /\ threads' \in [Virtual.space -> Nat]
      /\ \A t \in Virtual.space \ {s} : threads'[t] = threads[t]
  BY <1>2, <1>4 DEF SInv, STypes, VSizes
<1>6. CASE threads[s] # 1
  <2>1. use' = use /\ v_blocks' = v_blocks /\ pte' = pte /\ pc' = pc
    BY <1>6 DEF Spaces!Die, Spaces!LastThread
  <2>2. MappedWell(s)
    BY <1>2, <1>3, <2>1, UnchangedWell
  <2>3. HasSpace(s)' /\ Lives(s)' /\ DOMAIN pc' = Virtual.space
    BY <1>2, <1>4, <1>5, <1>6, <2>1 DEF HasSpace, Lives, SInv, STypes
  <2>4. \A t \in Virtual.space \ {s} : pc'[t] = pc[t]
    BY <2>1
  <2> QED BY <1>2, <1>3, <1>5, <2>2, <2>3, <2>4, MappedStep
<1>7. CASE threads[s] = 1
  <2>1. PICK gone : gone = Spaces!FreedBy(s) \cup Spaces!Tables(s)
    OBVIOUS
  <2>2. /\ use' = [p \in Virtual.pages |-> IF p \in gone THEN [what |-> "free", of |-> 0] ELSE use[p]]
        /\ v_blocks' = [v_blocks EXCEPT ![s] = <<>>] /\ pte' = [pte EXCEPT ![s] = <<>>]
        /\ pc' = [pc EXCEPT ![s] = <<"over">>]
    BY <1>7, <2>1 DEF Spaces!Die, Spaces!LastThread, Spaces!Goes, Spaces!Unused, Spaces!NULL
  <2>3. gone \cap Virtual.pages = Serves("block", s) \cup Serves("table", s) \cup Serves("directory", s)
    <3>1. Spaces!Tables(s) = Serves("table", s) \cup Serves("directory", s)
      BY DEF Spaces!Tables, Spaces!Of, Serves
    <3>2. Spaces!FreedBy(s) \cap Virtual.pages = Serves("block", s)
      BY <1>3, FreedAre
    <3>3. Serves("table", s) \subseteq Virtual.pages /\ Serves("directory", s) \subseteq Virtual.pages
      BY DEF Serves
    <3> QED BY <2>1, <3>1, <3>2, <3>3
  <2>4. \A p \in Virtual.pages : p \in gone => use[p].of = s /\ use[p].what \in {"block", "table", "directory"}
    BY <2>3 DEF Serves
  <2>5. Spares(s)
    <3>1. use' \in [Virtual.pages -> Purpose]
      BY <2>2 DEF SInv, STypes, Purpose
    <3>2. \A p \in Virtual.pages : use'[p].what = "free" => use'[p].of = 0
      BY <2>2 DEF SInv, STypes
    <3>3. \A p \in Virtual.pages : use'[p] = use[p] \/ (use[p].of \in {0, s} /\ use'[p].of \in {0, s})
      BY <2>2, <2>4
    <3>4. Serves("image", s) \subseteq Serves("image", s)'
      BY <2>2, <2>4 DEF Serves
    <3> QED BY <3>1, <3>2, <3>3, <3>4 DEF Spares
  <2>6. StepOf(s)
    BY <1>2, <1>5, <2>2, <2>5 DEF StepOf, SInv, STypes
  <2>7. /\ v_blocks'[s] = <<>> /\ pte'[s] = <<>> /\ pc'[s] = <<"over">>
    BY <2>2 DEF SInv, STypes
  <2>8. Bare(s)'
    <3>1. s # 0
      BY DEF VSizes
    <3>2. \A what \in {"table", "directory", "block"} : Serves(what, s)' = {}
      BY <2>2, <2>3, <3>1 DEF Serves
    <3> QED BY <2>7, <3>2 DEF Bare
  <2>9. Lives(s)' /\ Imaged(s)' /\ ~HasSpace(s)'
    <3>1. Lives(s)' /\ ~HasSpace(s)'
      BY <1>4, <1>5, <2>7 DEF Lives, HasSpace
    <3>2. Imaged(s)'
      BY <1>2, <1>3, <2>5, <2>7 DEF Imaged, InFile, Spares
    <3> QED BY <3>1, <3>2
  <2>10. Whole(s)'
    BY <2>8, <2>9 DEF Whole
  <2> QED BY <2>6, <2>10, StepKeeps
<1> QED BY <1>6, <1>7

LEMMA SNext ==
  ASSUME VSizes, Spaces!WellLinked, SInv, Spaces!Next
  PROVE  SInv'
<1>1. v_machine = "up"
  BY DEF Spaces!Next
<1>2. PICK s \in Virtual.space :
        \/ \E program \in Virtual.programs : Spaces!Exec(s, program)
        \/ Spaces!Construct(s) \/ Spaces!LoadSegment(s) \/ Spaces!CreateKernelStack(s)
        \/ Spaces!CreateStack(s) \/ Spaces!StartThread(s) \/ Spaces!ThreadStack(s)
        \/ Spaces!Morecore(s)
        \/ \E device \in Virtual.device : Spaces!AttachMemory(s, device)
        \/ Spaces!Die(s)
  BY DEF Spaces!Next
<1>3. CASE \E program \in Virtual.programs : Spaces!Exec(s, program)
  BY <1>1, <1>3, ExecKeeps
<1>4. CASE Spaces!Construct(s)
  BY <1>1, <1>4, ConstructKeeps
<1>5. CASE Spaces!LoadSegment(s)
  BY <1>1, <1>5, LoadSegmentKeeps
<1>6. CASE Spaces!CreateKernelStack(s)
  BY <1>6, CreateKernelStackKeeps
<1>7. CASE Spaces!CreateStack(s)
  BY <1>1, <1>7, CreateStackKeeps
<1>8. CASE Spaces!StartThread(s)
  BY <1>8, StartThreadKeeps
<1>9. CASE Spaces!ThreadStack(s)
  BY <1>1, <1>9, ThreadStackKeeps
<1>10. CASE Spaces!Morecore(s)
  BY <1>10, MorecoreKeeps
<1>11. CASE \E device \in Virtual.device : Spaces!AttachMemory(s, device)
  BY <1>11, AttachMemoryKeeps
<1>12. CASE Spaces!Die(s)
  BY <1>1, <1>12, DieKeeps
<1> QED BY <1>2, <1>3, <1>4, <1>5, <1>6, <1>7, <1>8, <1>9, <1>10, <1>11, <1>12

LEMMA SInit == ASSUME VSizes, Spaces!Init PROVE SInv
<1>1. /\ use = [p \in Virtual.pages |-> [what |-> "free", of |-> 0]]
      /\ v_blocks = [s \in Virtual.space |-> <<>>] /\ pte = [s \in Virtual.space |-> <<>>]
      /\ image = [s \in Virtual.space |-> [page |-> 0]]
      /\ threads = [s \in Virtual.space |-> 0]
      /\ pc = [s \in Virtual.space |-> <<"none">>] /\ v_machine = "up"
  BY DEF Spaces!Init, Spaces!Unused, Spaces!NULL
<1>2. STypes
  BY <1>1 DEF STypes, Purpose
<1>3. ASSUME NEW s \in Virtual.space PROVE Whole(s)
  <2>1. v_blocks[s] = <<>> /\ pte[s] = <<>> /\ pc[s] = <<"none">> /\ threads[s] = 0
    BY <1>1
  <2>2. \A what \in {"table", "directory", "block"} : Serves(what, s) = {}
    BY <1>1 DEF Serves
  <2>3. Bare(s) /\ ~HasSpace(s)
    BY <2>1, <2>2 DEF Bare, HasSpace
  <2>4. Lives(s) /\ Imaged(s)
    BY <2>1 DEF Lives, Imaged, VSizes
  <2> QED BY <2>3, <2>4 DEF Whole
<1> QED BY <1>2, <1>3 DEF SInv

\* Steps of the other parts.
LEMMA SStutters == ASSUME SInv, UNCHANGED spaceVars PROVE SInv'
<1>1. /\ use' = use /\ v_blocks' = v_blocks /\ pte' = pte /\ image' = image
      /\ threads' = threads /\ pc' = pc /\ v_machine' = v_machine
  BY DEF spaceVars
<1>2. STypes'
  BY <1>1 DEF SInv, STypes
<1>3. ASSUME NEW s \in Virtual.space PROVE Whole(s)'
  <2>1. Whole(s)
    BY DEF SInv
  <2>2. Lives(s)' = Lives(s) /\ Imaged(s)' = Imaged(s) /\ HasSpace(s)' = HasSpace(s)
    BY <1>1 DEF Lives, Imaged, InFile, HasSpace, Serves
  <2>3. Bare(s)' = Bare(s)
    BY <1>1 DEF Bare, Serves
  <2>4. Upheld(s)' = Upheld(s)
    BY <1>1 DEF Upheld, Listed, Maps, Allotted, TablesOf, Backed, Behind, Serves
  <2> QED BY <2>1, <2>2, <2>3, <2>4 DEF Whole
<1> QED BY <1>2, <1>3 DEF SInv

-----------------------------------------------------------------------------
LEMMA BuiltUpheld ==
  ASSUME SInv, NEW s \in Virtual.space, v_blocks[s] # <<>> \/ DOMAIN pte[s] # {}
  PROVE  Upheld(s)
BY DEF SInv, Whole, Bare

LEMMA SaysSpaceTypes == ASSUME VSizes, SInv PROVE Spaces!TypeOK
<1>1. \A p \in Virtual.pages : use[p].what \in {"free", "image", "directory", "table", "block", "stack"}
  BY DEF SInv, STypes, Purpose
<1>2. ASSUME NEW s \in Virtual.space, NEW i \in DOMAIN v_blocks[s]
      PROVE  v_blocks[s][i].first \in 0..Virtual.end /\ v_blocks[s][i].count \in 0..Virtual.end
  <2>1. v_blocks[s] # <<>>
    OBVIOUS
  <2>2. v_blocks[s] \in Seq(VBlock) /\ Listed(v_blocks[s])
    BY <2>1, BuiltUpheld DEF Upheld
  <2>3. i \in 1..Len(v_blocks[s])
    BY <2>2
  <2>4. v_blocks[s][i].first \in Nat /\ v_blocks[s][i].count \in Nat
    BY <2>2, <2>3, ListedTyped
  <2>5. CASE i = 1
    BY <2>2, <2>4, <2>5 DEF Listed, VSizes
  <2>6. CASE i \in 2..Len(v_blocks[s])
    <3>1. v_blocks[s][i].first + v_blocks[s][i].count <= Virtual.end
      BY <2>2, <2>6 DEF Listed
    <3> QED BY <2>4, <3>1 DEF VSizes
  <2> QED BY <2>3, <2>5, <2>6
<1>3. ASSUME NEW s \in Virtual.space
      PROVE  threads[s] \in (IF Spaces!Running(s) THEN 1 ELSE 0)..Virtual.threads
  BY DEF SInv, Whole, Lives, Spaces!Running, Spaces!Place, VSizes
<1>4. v_machine \in {"up", "fault", "panic"}
  BY DEF SInv, STypes
<1> QED BY <1>1, <1>2, <1>3, <1>4 DEF Spaces!TypeOK

LEMMA SaysTiling == ASSUME SInv PROVE Spaces!Tiling
<1> SUFFICES ASSUME NEW s \in Virtual.space, v_blocks[s] # <<>>
             PROVE  /\ v_blocks[s][2].first = Virtual.start
                    /\ \A i \in 2..(Len(v_blocks[s]) - 1) :
                         v_blocks[s][i + 1].first = v_blocks[s][i].first + v_blocks[s][i].count
                    /\ Spaces!Last(v_blocks[s]).first + Spaces!Last(v_blocks[s]).count = Virtual.end
  BY DEF Spaces!Tiling, Spaces!Built
<1>1. Listed(v_blocks[s])
  BY BuiltUpheld DEF Upheld
<1>2. Spaces!Last(v_blocks[s]) = v_blocks[s][Len(v_blocks[s])]
  BY DEF Spaces!Last
<1> QED BY <1>1, <1>2 DEF Listed

LEMMA SaysTablesAgree == ASSUME VSizes, SInv PROVE Spaces!TablesAgree
<1> SUFFICES ASSUME NEW s \in Virtual.space, v_blocks[s] # <<>>
             PROVE  LET taken == {i \in 2..Len(v_blocks[s]) : v_blocks[s][i].allocated}
                    IN /\ DOMAIN pte[s] = UNION {v_blocks[s][i].first..(v_blocks[s][i].first + v_blocks[s][i].count - 1) :
                                                   i \in taken}
                       /\ \A i \in taken : \A k \in 0..(v_blocks[s][i].count - 1) :
                            pte[s][v_blocks[s][i].first + k] = v_blocks[s][i].physical + k
                       /\ Spaces!Cardinality(Spaces!Of(s, "table"))
                          = Spaces!Cardinality({v \div Virtual.table : v \in DOMAIN pte[s]})
  BY DEF Spaces!TablesAgree, Spaces!Built
<1> DEFINE taken == {i \in 2..Len(v_blocks[s]) : v_blocks[s][i].allocated}
<1>1. Upheld(s)
  BY BuiltUpheld
<1>2. Allotted(v_blocks[s]) = {v_blocks[s][i] : i \in taken}
  BY DEF Allotted
<1>3. DOMAIN pte[s] = UNION {v_blocks[s][i].first..(v_blocks[s][i].first + v_blocks[s][i].count - 1) :
                               i \in taken}
  <2> HIDE DEF taken
  <2>1. ASSUME NEW v \in DOMAIN pte[s]
        PROVE  \E i \in taken : v \in v_blocks[s][i].first..(v_blocks[s][i].first + v_blocks[s][i].count - 1)
    <3>1. PICK b \in Allotted(v_blocks[s]) : v \in b.first..(b.first + b.count - 1)
      BY <1>1 DEF Upheld, Maps
    <3> QED BY <1>2, <3>1
  <2>2. ASSUME NEW i \in taken,
               NEW v \in v_blocks[s][i].first..(v_blocks[s][i].first + v_blocks[s][i].count - 1)
        PROVE  v \in DOMAIN pte[s]
    <3>1. v_blocks[s][i] \in Allotted(v_blocks[s])
      BY <1>2
    <3> QED BY <1>1, <3>1 DEF Upheld, Maps
  <2> QED BY <2>1, <2>2
<1>4. ASSUME NEW i \in taken, NEW k \in 0..(v_blocks[s][i].count - 1)
      PROVE  pte[s][v_blocks[s][i].first + k] = v_blocks[s][i].physical + k
  <2>1. PICK b \in Allotted(v_blocks[s]) : b = v_blocks[s][i]
    BY <1>2
  <2>2. b.first \in Nat /\ b.count \in Nat /\ b.physical \in Nat
    BY <1>1, UpheldTyped
  <2>3. PICK v : v = b.first + k
    OBVIOUS
  <2>4. v \in b.first..(b.first + b.count - 1) /\ v - b.first = k
    <3>1. PICK first \in Nat, n \in Nat : first = b.first /\ n = b.count
      BY <2>2
    <3>2. k \in 0..(n - 1) /\ v = first + k
      BY <2>1, <2>3, <3>1
    <3>3. v \in first..(first + n - 1) /\ v - first = k
      BY ONLY <3>2, first \in Nat, n \in Nat
    <3> QED BY <3>1, <3>3
  <2>5. pte[s][v] = b.physical + (v - b.first)
    BY <1>1, <2>4 DEF Upheld, Maps
  <2> QED BY <2>1, <2>3, <2>4, <2>5
<1>5. Spaces!Cardinality(Spaces!Of(s, "table"))
      = Spaces!Cardinality({v \div Virtual.table : v \in DOMAIN pte[s]})
  <2>1. Spaces!Of(s, "table") = Serves("table", s)
    BY DEF Spaces!Of, Serves
  <2>2. Cardinality(Serves("table", s)) = Cardinality({v \div Virtual.table : v \in DOMAIN pte[s]})
    BY <1>1 DEF Upheld, TablesOf
  <2> QED BY <2>1, <2>2, OneCardinality
<1> QED BY <1>3, <1>4, <1>5

LEMMA SaysIsolated == ASSUME VSizes, SInv PROVE Spaces!Isolated
<1> SUFFICES ASSUME NEW s \in Virtual.space, NEW v \in DOMAIN pte[s]
             PROVE  pte[s][v] \in Virtual.device \/
                      (pte[s][v] \in Virtual.pages /\ use[pte[s][v]] \in
                         {[what |-> "block", of |-> s], [what |-> "image", of |-> s]})
  BY DEF Spaces!Isolated
<1>1. Upheld(s)
  BY BuiltUpheld
<1>2. PICK b \in Allotted(v_blocks[s]) : v \in b.first..(b.first + b.count - 1)
  BY <1>1 DEF Upheld, Maps
<1>3. PICK q : q = pte[s][v]
  OBVIOUS
<1>4. q = b.physical + (v - b.first)
  BY <1>1, <1>2, <1>3 DEF Upheld, Maps
<1>5. b.first \in Nat /\ b.count \in Nat /\ b.physical \in Nat
  BY <1>1, UpheldTyped
<1>6. q \in Behind(b) /\ (b.count = 1 => q = b.physical)
  <2>1. PICK first \in Nat, n \in Nat, phys \in Nat : first = b.first /\ n = b.count /\ phys = b.physical
    BY <1>5
  <2>2. v \in first..(first + n - 1) /\ q = phys + (v - first)
    BY <1>2, <1>4, <2>1
  <2>3. q \in phys..(phys + n - 1) /\ (n = 1 => q = phys)
    BY ONLY <2>2, first \in Nat, n \in Nat, phys \in Nat
  <2> QED BY <2>1, <2>3 DEF Behind
<1>7. Backed(s, b)
  BY <1>1 DEF Upheld
<1>8. q \in Serves("image", s) \/ q \in Serves("block", s) \/ q \in Virtual.device
  BY <1>6, <1>7 DEF Backed
<1> QED BY <1>3, <1>8 DEF Serves

LEMMA SaysGivenBack == ASSUME VSizes, SInv PROVE Spaces!GivenBack
<1> SUFFICES ASSUME NEW s \in Virtual.space, pc[s][1] = "over", NEW p \in Virtual.pages, use[p].of = s
             PROVE  use[p].what \in {"image", "stack"}
  BY DEF Spaces!GivenBack, Spaces!Place
<1>1. Bare(s)
  BY DEF SInv, Whole, HasSpace
<1>2. use[p] \in Purpose /\ use[p].what # "free"
  BY DEF SInv, STypes, VSizes
<1>3. use[p] = [what |-> use[p].what, of |-> s]
  BY <1>2 DEF Purpose
<1>4. use[p].what \notin {"table", "directory", "block"}
  BY <1>1, <1>3 DEF Bare, Serves
<1> QED BY <1>2, <1>4 DEF Purpose

\* What the runs memory and memory_mt check of virtual memory.
THEOREM SpacesAlwaysSound == ASSUME PartsAssumption PROVE AllSpec => []SpacesSound
<1>1. VSizes /\ Spaces!WellLinked
  BY VSizesHold DEF PartsAssumption
<1>2. AllInit => SInv
  BY <1>1, SInit DEF AllInit
<1>3. ASSUME SInv, [AllNext]_allVars PROVE SInv'
  <2>1. CASE Spaces!Next
    BY <1>1, <1>3, <2>1, SNext
  <2>2. CASE UNCHANGED spaceVars
    BY <1>3, <2>2, SStutters
  <2> QED BY <1>3, <2>1, <2>2 DEF AllNext, allVars, Pages, Heaps, Mallocs
<1>4. SInv => SpacesSound
  BY <1>1, SaysSpaceTypes, SaysTiling, SaysTablesAgree, SaysIsolated, SaysGivenBack DEF SpacesSound
<1> QED BY <1>2, <1>3, <1>4, PTL DEF AllSpec
=============================================================================
