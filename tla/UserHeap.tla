----------------------------- MODULE UserHeap -----------------------------
(***************************************************************************)
(* The heap of a program, lib/malloc.cpp: first fit over the list of       *)
(* HeapList, grown by morecore, a message to the process manager.  The     *)
(* threads of a program share it and may be switched inside malloc;        *)
(* whoever allocates does so through calloc (api/stubs.cpp).               *)
(***************************************************************************)
EXTENDS HeapList, FiniteSetsExt

CONSTANTS
  Thread,
  Page,        \* bytes of a page, and of mblock0 with its header
  Pages,       \* page numbers morecore may be given, in this order
  Requests,    \* sizes that callers ask for
  MaxLive      \* bound of the runs: threads and blocks they hold

UserHeapAssumption ==
  /\ {Header, Page} \subseteq Nat \ {0}
  /\ Header <= Page
  /\ Pages \subseteq Nat \ {0} /\ Requests \subseteq Nat \ {0}

VARIABLES
  blocks,    \* the list first
  live,      \* what threads hold: <<thread, address>>
  at,        \* of each thread of the program: the block it has chosen inside
             \* malloc, or none
  taken,     \* pages the heap got
  machine    \* up, or how the program stopped

vars == <<blocks, live, at, taken, machine>>

-----------------------------------------------------------------------------
\* A block fits exactly, or leaves a header and something behind it.
Exact(b, n) == b.free /\ b.size = n
Larger(b, n) == b.free /\ b.size > n + Header

\* Faulty: a block that leaves a header and nothing is cut, and one that cannot
\* hold the header is.
FitsTight(bs, n) == {i \in DOMAIN bs : bs[i].free /\ bs[i].size >= n}
Fits(bs, n) == {i \in DOMAIN bs : Exact(bs[i], n) \/ Larger(bs[i], n)}

Stop(how) == machine' = how /\ UNCHANGED <<blocks, live, at, taken>>

\* The search of malloc ends at a block ...
Find(t, n) ==
  /\ at[t] = <<>> /\ Fits(blocks, n) # {}
  /\ LET b == blocks[Min(Fits(blocks, n))]
     IN at' = [at EXCEPT ![t] = <<[addr |-> b.addr, n |-> n, whole |-> b.size = n]>>]
  /\ UNCHANGED <<blocks, live, taken, machine>>

\* ... which is marked and cut, whatever other threads did with it meanwhile.
Take(t) ==
  LET c == at[t][1]
      intact == {i \in IndexAt(blocks, c.addr) :
                   c.whole \/ blocks[i].size >= c.n + Header}
  IN /\ at[t] # <<>>
     /\ \/ intact = {} /\ Stop("corrupt")
        \/ \E i \in intact :
             /\ blocks' = IF c.whole THEN Taken(blocks, i) ELSE Cut(blocks, i, c.n)
             /\ live' = live \cup {<<t, c.addr>>}
             /\ at' = [at EXCEPT ![t] = <<>>]
             /\ UNCHANGED <<taken, machine>>

\* Pages for the size alone: the two headers are taken from what is left of the
\* last page.  If that is too little the second header lies outside, and the
\* size in it wraps.
PagesFor(n) == (n + Page - 1) \div Page
Rest(n) == PagesFor(n) * Page - n - 2 * Header

Grow(t, n) ==
  /\ at[t] = <<>> /\ Fits(blocks, n) = {}
  /\ \/ \* calloc clears the block at address 0
        Stop("fault")
     \/ \E page \in Pages :
          /\ page..(page + PagesFor(n) - 1) \subseteq Pages \ taken
          /\ blocks' = blocks \o
               <<Block(page * Page, n, FALSE),
                 Block(page * Page + Header + n, Rest(n), TRUE)>>
          /\ live' = live \cup {<<t, page * Page>>}
          /\ taken' = taken \cup page..(page + PagesFor(n) - 1)
          /\ machine' = IF Rest(n) < 0 THEN "corrupt" ELSE "up"
          /\ UNCHANGED at

Malloc(t, n) == /\ machine = "up" /\ Cardinality(live) + Cardinality(DOMAIN at) < MaxLive
                /\ Find(t, n) \/ Grow(t, n)

\* free loops for ever when no block in use has the address.
Free(t, addr) ==
  /\ machine = "up" /\ at[t] = <<>>
  /\ \/ InUse(blocks, addr) = {} /\ Stop("hung")
     \/ /\ InUse(blocks, addr) # {}
        /\ blocks' = Freed(blocks, addr)
        /\ live' = live \ {<<t, addr>>}
        /\ UNCHANGED <<at, taken, machine>>

Init == /\ blocks = <<Block(0, Page - Header, TRUE)>>
        /\ live = {} /\ taken = {}
        /\ \E threads \in SUBSET Thread \ {{}} : at = [t \in threads |-> <<>>]
        /\ machine = "up"

Next == \E t \in DOMAIN at :
          \/ \E n \in Requests : Malloc(t, n)
          \/ machine = "up" /\ Take(t)
          \/ \E held \in live : held[1] = t /\ Free(t, held[2])

Spec == Init /\ [][Next]_vars

-----------------------------------------------------------------------------
(* Properties *)

\* Unless a growth has no room for its headers, every byte of the heap's memory,
\* its first block and the pages it was given, is in one block and no block reaches
\* out of it, whichever threads are switched inside malloc (malloc.cpp:51-58).
Sound == machine # "corrupt" =>
  Disjoint(blocks) /\ Bytes(blocks) = Memory({0} \cup taken, Page)

OneThread == \A t, u \in DOMAIN at : t = u

\* In a program with one thread free neighbours are one block.
Merged == OneThread /\ machine # "corrupt" => Coalesced(blocks)

\* It can free what it was given, and free finds it: the blocks in use are those
\* it holds.
Owned == OneThread => /\ machine # "hung"
                      /\ machine = "up" => Occupied(blocks) = {held[2] : held \in live}

\* The blocks are well formed until a header lies outside its page, and the
\* program stops in one of three ways.
TypeOK ==
  /\ \A i \in DOMAIN blocks : blocks[i].free \in BOOLEAN
  /\ machine # "corrupt" => \A i \in DOMAIN blocks : blocks[i].size \in Nat
  /\ live \subseteq Thread \X Nat /\ taken \subseteq Pages
  /\ machine \in {"up", "corrupt", "fault", "hung"}
=============================================================================
