------------------------------ MODULE FileTree ------------------------------
(***************************************************************************)
(* The file server, servers/fs.cpp: a tree of nodes, each with a list of   *)
(* children in the order of their creation, and the requests to create,    *)
(* resolve and mount a path.  A node is known by its id, which is unique   *)
(* and never given up.  Requests are served one at a time.                 *)
(***************************************************************************)
EXTENDS Integers, Sequences, SequencesExt, FiniteSets, FiniteSetsExt

CONSTANTS
  Name,       \* names between the slashes of a path
  MAX_PATH,   \* here: how many slashes and names a path may have
  Server,     \* tasks that mount, each with its parameter; task 0 mounts nothing
  MaxNode     \* bound of the runs: nodes in the tree

ASSUME FileTreeAssumption ==
  /\ "/" \notin Name /\ "" \notin Name /\ Server \subseteq Nat \X Nat
  /\ MAX_PATH \in Nat /\ MaxNode \in Nat \ {0}

VARIABLES
  node,    \* name, children, mounted_tid and mounted_parameter of each id
  answer   \* what the last request got: a reply or a forward

vars == <<node, answer>>

NULL == -1   \* no node
Current_id == Cardinality(DOMAIN node)
Fresh(name) == [name |-> name, children |-> <<>>, mounted |-> <<0, 0>>]

-----------------------------------------------------------------------------
(* Paths: a text is a sequence of slashes and names *)

Text == {t \in UNION {[1..n -> Name \cup {"/"}] : n \in 1..MAX_PATH} :
           \A i \in 2..Len(t) : t[i - 1] = "/" \/ t[i] = "/"}

\* strip_path: what stands in front of each slash, and what stands behind the
\* last.  A slash at the end adds nothing.
Before(text, i) == IF i = 1 \/ text[i - 1] = "/" THEN "" ELSE text[i - 1]
Cut(text) ==
  LET cut[i \in 0..Len(text)] ==
        IF i = 0 THEN <<>>
        ELSE IF text[i] = "/" THEN Append(cut[i - 1], Before(text, i))
        ELSE cut[i - 1]
  IN cut
Stripped(text) ==
  LET end == Len(text)
  IN IF text[end] = "/" THEN Cut(text)[end] ELSE Append(Cut(text)[end], text[end])

\* The children of a node that have a name.  Faulty: only the first child is
\* looked at.
ChildrenFirst(tree, id, name) ==
  {c \in Range(tree[id].children) : tree[c].name = name /\ c = tree[id].children[1]}
Children(tree, id, name) ==
  {c \in Range(tree[id].children) : tree[c].name = name}

\* resolve goes down from the root, whose name is empty, as long as it finds the
\* next name: the nodes a path passes, and NULL where it is lost.  Faulty: it
\* looks among all nodes.
StepAnywhere(tree, id, name) ==
  LET found == {c \in DOMAIN tree : tree[c].name = name}
  IN IF id = NULL \/ found = {} THEN NULL ELSE Min(found)
Step(tree, id, name) ==
  IF id = NULL \/ Children(tree, id, name) = {} THEN NULL
  ELSE Min(Children(tree, id, name))

Passed(tree, pieces) ==
  LET at[n \in 0..Len(pieces)] ==
        IF n = 0 THEN NULL
        ELSE IF n = 1 THEN 0
        ELSE Step(tree, at[n - 1], pieces[n])
  IN at

\* How many pieces of the path are found, and the last node passed.
Depth(tree, pieces) == Max({n \in 1..Len(pieces) : Passed(tree, pieces)[n] # NULL})
Deepest(tree, pieces) == Passed(tree, pieces)[Depth(tree, pieces)]
Mounted(tree, id) == tree[id].mounted[1] # 0

\* What resolve finds: the node itself, or the mounted one above it.  Faulty: a
\* node is found only when it is mounted.
FoundMounted(tree, pieces) == {id \in {Deepest(tree, pieces)} : Mounted(tree, id)}
Found(tree, pieces) ==
  {id \in {Deepest(tree, pieces)} :
     Depth(tree, pieces) = Len(pieces) \/ Mounted(tree, id)}

\* create goes down the same way from before the root: an existing child is
\* entered, a missing one is made at the end of the list and entered.  Faulty: it
\* is looked for among all nodes.
WithChild(tree, id, name) ==
  [i \in DOMAIN tree \cup {Cardinality(DOMAIN tree)} |->
     IF i = Cardinality(DOMAIN tree) THEN Fresh(name)
     ELSE IF i = id THEN [tree[i] EXCEPT !.children = Append(@, Cardinality(DOMAIN tree))]
     ELSE tree[i]]

EnteredAnywhere(at, name) ==
  LET found == {c \in DOMAIN at.tree : at.tree[c].name = name}
  IN IF at.id = NULL THEN [id |-> 0, tree |-> at.tree]
     ELSE IF found # {} THEN [id |-> Min(found), tree |-> at.tree]
     ELSE [id |-> Cardinality(DOMAIN at.tree), tree |-> WithChild(at.tree, at.id, name)]
Entered(at, name) ==
  LET found == Children(at.tree, at.id, name)
  IN IF at.id = NULL THEN [id |-> 0, tree |-> at.tree]
     ELSE IF found # {} THEN [id |-> Min(found), tree |-> at.tree]
     ELSE [id |-> Cardinality(DOMAIN at.tree), tree |-> WithChild(at.tree, at.id, name)]

Made(tree, pieces) ==
  LET at[n \in 0..Len(pieces)] ==
        IF n = 0 THEN [id |-> NULL, tree |-> tree] ELSE Entered(at[n - 1], pieces[n])
  IN at[Len(pieces)]

-----------------------------------------------------------------------------
(* Requests *)

Replied(op, pieces, what) == answer' = [op |-> op, asked |-> pieces, got |-> what]
Refused(why) == Replied("refused", <<>>, [type |-> why]) /\ UNCHANGED node

IsPath(text) == text[1] = "/"

TooLong == Refused("frPathTooLong")
NotAPath(text) == ~IsPath(text) /\ Refused("frFileNotFound")
Unsupported == Refused("frCommandNotSupported")

Create(text) ==
  LET pieces == Stripped(text)
      end == Made(node, pieces)
  IN /\ IsPath(text)
     /\ Cardinality(DOMAIN end.tree) <= MaxNode
     /\ node' = end.tree
     /\ Replied("create", pieces, [type |-> "frOk", id |-> end.id])

\* A mounted node's server gets what is left of the path.
Resolve(text) ==
  LET pieces == Stripped(text)
      found == Found(node, pieces)
      id == Deepest(node, pieces)
  IN /\ IsPath(text)
     /\ Replied("resolve", pieces,
          IF found = {} THEN [type |-> "frFileNotFound"]
          ELSE IF Mounted(node, id)
          THEN [forward |-> node[id].mounted,
                path |-> SubSeq(pieces, Depth(node, pieces) + 1, Len(pieces))]
          ELSE [type |-> "frOk", id |-> id])
     /\ UNCHANGED node

Mount(text, server) ==
  LET pieces == Stripped(text)
      found == Found(node, pieces)
      id == Deepest(node, pieces)
      Says(what) == Replied("mount", pieces, [type |-> what])
  IN /\ IsPath(text)
     /\ \/ found = {} /\ Says("frFileNotFound") /\ UNCHANGED node
        \/ found # {} /\ Mounted(node, id) /\ Says("frAlreadyMounted") /\ UNCHANGED node
        \/ /\ found # {} /\ ~Mounted(node, id)
           /\ Says("frOk") /\ node' = [node EXCEPT ![id].mounted = server]

\* main creates "/modules" and mounts the process manager, task 2, there; the
\* runs begin before that.
NoAnswer == [op |-> "none", asked |-> <<>>, got |-> [type |-> "none"]]
Init == /\ node = [id \in {0} |-> Fresh("")]
        /\ answer = NoAnswer

Next == \/ TooLong
        \/ Unsupported
        \/ \E text \in Text : NotAPath(text)
        \/ \E text \in Text : Create(text)
        \/ \E text \in Text : Resolve(text)
        \/ \E text \in Text, server \in Server : Mount(text, server)

Spec == Init /\ [][Next]_vars

-----------------------------------------------------------------------------
(* Properties *)

\* The path that leads to each node of a tree: a child has a larger id than its
\* parent.
PathsOf(tree) ==
  LET path[id \in DOMAIN tree] ==
        IF id = 0 THEN <<"">>
        ELSE Append(path[CHOOSE p \in DOMAIN tree : id \in Range(tree[p].children)],
                    tree[id].name)
  IN path
PathTo == PathsOf(node)

TypeOK ==
  /\ DOMAIN node = 0..(Current_id - 1) /\ Current_id \in 1..MaxNode
  /\ \A id \in DOMAIN node :
       /\ node[id].name \in Name \cup {""}
       /\ Range(node[id].children) \subseteq DOMAIN node
       /\ node[id].mounted \in Server \cup {<<0, 0>>}

\* Every node but the root is in one list, once, of an older node, and two
\* children of a node differ in name, so resolve ends and finds one node.
IsTree ==
  /\ \A p \in DOMAIN node : \A c \in Range(node[p].children) : p < c
  /\ \A id \in DOMAIN node \ {0} : \E p \in DOMAIN node : id \in Range(node[p].children)
  /\ \A p, q \in DOMAIN node :
       \A i \in DOMAIN node[p].children, j \in DOMAIN node[q].children :
         node[p].children[i] = node[q].children[j] => p = q /\ i = j
  /\ \A id \in DOMAIN node : \A c, d \in Range(node[id].children) :
       node[c].name = node[d].name => c = d

\* The server keeps the promises of FileMap: the tree holds the known paths and
\* each answer is the one the paths and mounts call for.
KnownPaths == {PathTo[id] : id \in DOMAIN node}
IdOf(path) == CHOOSE id \in DOMAIN node : PathTo[id] = path
MountPaths == {PathTo[id] : id \in {i \in DOMAIN node : Mounted(node, i)}}
Map == INSTANCE FileMap WITH
  Path <- {Stripped(t) : t \in {u \in Text : IsPath(u)}},
  known <- KnownPaths,
  number <- [p \in KnownPaths |-> IdOf(p)],
  mounts <- [p \in MountPaths |-> node[IdOf(p)].mounted]
ImplementsMap == Map!MapSpec
=============================================================================
