------------------------------- MODULE KHeap -------------------------------
(***************************************************************************)
(* The kernel's heap, hal/kmalloc.cpp, with the operators new and delete   *)
(* of hal/stubs.cpp.  When no block fits it takes pages from the memory    *)
(* manager, whose alloc needs a descriptor from this same heap: for that   *)
(* kmorecore first releases a block kept in reserve.                       *)
(*                                                                         *)
(* System calls allocate with interrupts off.  The process manager runs    *)
(* with interrupts on, and the timer may switch to such a system call      *)
(* between its choice of a block and its writes to the list.               *)
(***************************************************************************)
EXTENDS HeapList, SequencesExt, FiniteSetsExt

CONSTANTS
  ALIGNMENT, RESERVED_BLOCK_SIZE,
  Page,         \* bytes of a page, and of the first block with its header
  Descriptor,   \* sizeof(MemoryBlock) of the memory manager
  Pages,        \* page numbers the memory manager may give the heap
  Requests,     \* sizes that callers ask for
  MaxLive       \* bound of the runs: blocks the callers hold

\* The size is rounded up to a multiple that is larger than it.
Aligned(size) == (size \div ALIGNMENT + 1) * ALIGNMENT

KHeapAssumption ==
  /\ {Header, ALIGNMENT, RESERVED_BLOCK_SIZE, Page, Descriptor} \subseteq Nat \ {0}
  /\ Pages \subseteq Nat \ {0} /\ Requests \subseteq Nat
  /\ Header + Aligned(RESERVED_BLOCK_SIZE) <= Page

VARIABLES
  blocks,    \* the list first
  reserved,  \* _reserved_block
  live,      \* what callers hold, <<owner, address>>: the process manager or a
             \* task in a system call
  descs,     \* addresses of the memory manager's descriptors
  pm,        \* the process manager inside kmalloc: the block it chose, the
             \* size, and how the block is to be used; or none
  taken,     \* pages the heap got
  lost,      \* a growth was not linked behind the last block
  machine    \* up, or how the kernel stopped

vars == <<blocks, reserved, live, descs, pm, taken, lost, machine>>

-----------------------------------------------------------------------------
\* Faulty: a block is cut when nothing would be left of it.
WholeNever(b, n) == FALSE
Whole(b, n) == b.size < n + Header + ALIGNMENT

Fits(bs, n) == {i \in DOMAIN bs : bs[i].free /\ bs[i].size >= n}
FirstFit(bs, n) == Min(Fits(bs, n))
Used(bs, i, n) == IF Whole(bs[i], n) THEN Taken(bs, i) ELSE Cut(bs, i, n)
Allocated(bs, n) == Used(bs, FirstFit(bs, n), n)

Stop(how) == /\ machine' = how
             /\ UNCHANGED <<blocks, reserved, live, descs, pm, taken, lost>>

\* A block is found.
AllocFound(n) ==
  /\ Fits(blocks, n) # {}
  /\ blocks' = Allocated(blocks, n)
  /\ live' = live \cup {<<"task", blocks[FirstFit(blocks, n)].addr>>}
  /\ UNCHANGED <<reserved, descs, pm, taken, lost, machine>>

-----------------------------------------------------------------------------
(* kmorecore *)

PagesFor(n) == (Header + n + Header + Page - 1) \div Page

\* The list after kmorecore has released the reserve and a merge of the memory
\* manager has deleted descriptors, in the order given, the first of them, the first
\* two and so on.  A descriptor that is not in use in the list stops the kernel.
Released == Freed(blocks, reserved)
Orders == UNION {{o \in [1..k -> descs] : IsInjective(o)} : k \in 0..Cardinality(descs)}
Deleting(order) ==
  LET after[i \in 0..Len(order)] ==
        IF i = 0 THEN Released
        ELSE IF InUse(after[i - 1], order[i]) = {} THEN after[i - 1]
        ELSE Freed(after[i - 1], order[i])
  IN after
DeletePanics(order) ==
  \E i \in 1..Len(order) : InUse(Deleting(order)[i - 1], order[i]) = {}

\* kmalloc remembers the last block before kmorecore changes the list, and
\* writes the new blocks behind it: what followed it is cut off, and if it is
\* no longer in the list the new ones are lost.  Faulty: the new blocks are
\* put in front of what they do not fit in.
Linked(bs, last, new) ==
  LET at == IndexAt(bs, last)
  IN IF at = {} THEN bs ELSE SubSeq(bs, 1, Min(at)) \o new

NewBlocks(page, n) ==
  <<Block(page * Page, n, FALSE),
    Block(page * Page + Header + n,
          PagesFor(n) * Page - Header - n - Header, TRUE)>>

\* A list that has no room for a descriptor or for the next reserve asks kmorecore
\* once more, in the middle of the first growth.  What that releases is a block that
\* is free already, or one that has become the descriptor of the memory manager.
Again(bs) == IF InUse(bs, reserved) = {} THEN Stop("panic") ELSE Stop("corrupt")

\* Afterwards a block in the old memory or the new is kept in reserve.
Grow(n, page, split, order) ==
  LET last == Last(blocks).addr
      d    == Aligned(Descriptor)
      r    == Aligned(RESERVED_BLOCK_SIZE)
      bs1  == Deleting(order)[Len(order)]
      bs2  == IF split THEN Allocated(bs1, d) ELSE bs1
      bs3  == Linked(bs2, last, NewBlocks(page, n))
  IN IF DeletePanics(order) THEN Stop("panic")
     ELSE IF split /\ Fits(bs1, d) = {} THEN Again(bs1)
     ELSE IF Fits(bs3, r) = {} THEN Again(bs3)
     ELSE /\ blocks' = Allocated(bs3, r)
          /\ reserved' = bs3[FirstFit(bs3, r)].addr
          /\ live' = live \cup {<<"task", page * Page>>}
          /\ descs' = (descs \ Range(order)) \cup
                      (IF split THEN {bs1[FirstFit(bs1, d)].addr} ELSE {})
          /\ taken' = taken \cup page..(page + PagesFor(n) - 1)
          /\ lost' = (lost \/ Last(bs2).addr # last)
          /\ UNCHANGED <<pm, machine>>

\* kmorecore cannot release the reserve, or operator new panics because the memory
\* manager has no page, or the heap grows.
AllocGrows(n) ==
  /\ Fits(blocks, n) = {}
  /\ IF InUse(blocks, reserved) = {} THEN Stop("panic")
     ELSE \/ Stop("no memory")
          \/ \E page \in Pages, split \in BOOLEAN, order \in Orders :
               /\ page..(page + PagesFor(n) - 1) \subseteq Pages \ taken
               /\ Grow(n, page, split, order)

Alloc(size) == /\ machine = "up" /\ Cardinality(live) < MaxLive
               /\ LET n == Aligned(size) IN AllocFound(n) \/ AllocGrows(n)

-----------------------------------------------------------------------------
(* The process manager, switched inside kmalloc *)

PmFinds(size) ==
  LET n == Aligned(size)
      i == FirstFit(blocks, n)
  IN /\ machine = "up" /\ pm = <<>> /\ Cardinality(live) < MaxLive
     /\ Fits(blocks, n) # {}
     /\ pm' = <<[addr |-> blocks[i].addr, n |-> n,
                 whole |-> Whole(blocks[i], n)]>>
     /\ UNCHANGED <<blocks, reserved, live, descs, taken, lost, machine>>

\* It writes to the block it chose, whatever has become of it: a block cut or
\* merged by others is written over.
PmTakes ==
  LET c == pm[1]
      intact == {i \in IndexAt(blocks, c.addr) :
                   c.whole \/ blocks[i].size >= c.n + Header}
  IN /\ machine = "up" /\ pm # <<>>
     /\ \/ intact = {} /\ Stop("corrupt")
        \/ \E i \in intact :
             /\ blocks' = IF c.whole THEN Taken(blocks, i) ELSE Cut(blocks, i, c.n)
             /\ live' = live \cup {<<"procman", c.addr>>}
             /\ pm' = <<>>
             /\ UNCHANGED <<reserved, descs, taken, lost, machine>>

-----------------------------------------------------------------------------
\* Every caller frees what it was given, once.
Free(owner, addr) ==
  /\ machine = "up"
  /\ \/ InUse(blocks, addr) = {} /\ Stop("panic")
     \/ /\ InUse(blocks, addr) # {}
        /\ blocks' = Freed(blocks, addr)
        /\ live' = live \ {<<owner, addr>>}
        /\ UNCHANGED <<reserved, descs, pm, taken, lost, machine>>

Init == /\ blocks = Allocated(<<Block(0, Page - Header, TRUE)>>,
                              Aligned(RESERVED_BLOCK_SIZE))
        /\ reserved = 0
        /\ live = {} /\ descs = {} /\ pm = <<>> /\ taken = {}
        /\ lost = FALSE
        /\ machine = "up"

\* Every caller runs to its end, or the process manager is switched in between.
Alone == \/ \E size \in Requests : Alloc(size)
         \/ \E held \in live : Free(held[1], held[2])
Next == \/ Alone
        \/ \E size \in Requests : PmFinds(size)
        \/ PmTakes

Spec == Init /\ [][Next]_vars

-----------------------------------------------------------------------------
(* Properties *)

TypeOK ==
  /\ \A i \in DOMAIN blocks : blocks[i].size >= 0 /\ blocks[i].free \in BOOLEAN
  /\ reserved \in Nat /\ live \subseteq {"task", "procman"} \X Nat /\ descs \subseteq Nat
  /\ taken \subseteq Pages
  /\ lost \in BOOLEAN
  /\ machine \in {"up", "panic", "no memory", "corrupt"}

\* No byte is in two blocks: a block cut, merged or grown never reaches into
\* another, though the list is not in the order of addresses.
Apart == Disjoint(blocks)

\* No two free neighbours stay apart when every caller runs to its end, so freeing
\* everything gives back the largest block.
Merged == Coalesced(blocks)

\* Blocks stay in the heap's memory, and until a growth is not linked every byte of
\* it is in a block: nothing leaks, even when the process manager and a system call
\* cut the same block.
Tiled ==
  LET memory == Memory({0} \cup taken, Page)
  IN Bytes(blocks) \subseteq memory /\ (~lost => Bytes(blocks) = memory)

\* The blocks in use are then those that somebody holds, so each can be freed, until
\* a growth is not linked.
Owned == ~lost /\ machine = "up" =>
  Occupied(blocks) = {held[2] : held \in live} \cup descs \cup {reserved}

\* kmalloc.cpp:103 panics with "Attempt to free unallocated address": it takes
\* every address it is given, by callers or from kmorecore, for a block in use.
NeverPanics == machine # "panic"
=============================================================================
