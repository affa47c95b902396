--------------------------- MODULE MemoryManager ---------------------------
(***************************************************************************)
(* The allocator of physical pages, hal/mm.cpp: a linked list of blocks in *)
(* the order of their addresses, first fit, blocks merged only when a      *)
(* search fails.                                                           *)
(*                                                                         *)
(* alloc and free run between mt(false) and mt(true), so each is one step. *)
(* The descriptor of the block that a split leaves over comes from the     *)
(* kernel heap, and a full heap asks this same allocator for a page, in    *)
(* the middle of the split.                                                *)
(***************************************************************************)
EXTENDS Integers, Sequences, FiniteSets, SequencesExt, FiniteSetsExt

CONSTANTS
  Reserved,    \* pages below first_accessible_address
  Count,       \* count_pages: those above it, as main.cpp:81 counts them
  Requests,    \* the sizes callers ask for, in pages
  Foreign,     \* pages that are no block's first: device memory a program
               \* attached, which its address space frees when it goes
  MaxDepth     \* bound of the runs: no_schedule stays below

ASSUME MemoryAssumption ==
  /\ Reserved \in Nat \ {0} /\ Count \in Nat /\ Count > Reserved
  /\ Requests \subseteq Nat \ {0}
  /\ Foreign \subseteq 1..Reserved
  /\ MaxDepth \in Nat

VARIABLES
  blocks,      \* the list mb
  free_pages,
  no_schedule, \* TaskManager::no_schedule
  taskman,     \* whether hal->taskman is set
  held,        \* the blocks callers were given and not yet freed: page |-> size
  heap,        \* the pages the kernel heap took; it never gives one back
  machine      \* up, or how the kernel stopped

vars == <<blocks, free_pages, no_schedule, taskman, held, heap, machine>>

-----------------------------------------------------------------------------
(* The list *)

Fits(bs, n) == {i \in DOMAIN bs : ~bs[i].allocated /\ bs[i].count >= n}
FirstFit(bs, n) == Min(Fits(bs, n))
Has(bs, page) == \E i \in DOMAIN bs : bs[i].first = page
At(bs, page) == CHOOSE i \in DOMAIN bs : bs[i].first = page

Mark(bs, i, used) == [bs EXCEPT ![i].allocated = used]

\* Shrink block i to n pages and insert a free block with the rest behind it.
\* Faulty: the rest begins one page late.
SplitLate(bs, i, n) ==
  InsertAt([bs EXCEPT ![i].count = n], i + 1,
           [first |-> bs[i].first + n + 1, count |-> bs[i].count - n,
            allocated |-> FALSE])
Split(bs, i, n) ==
  InsertAt([bs EXCEPT ![i].count = n], i + 1,
           [first |-> bs[i].first + n, count |-> bs[i].count - n,
            allocated |-> FALSE])

CutAlways(bs, i, n) == Split(bs, i, n)   \* faulty: an empty rest is kept
Cut(bs, i, n) == IF bs[i].count = n THEN bs ELSE Split(bs, i, n)

\* merge looks behind every free block, the last one of the list included; it
\* gets away with that only when the last one disappears into its predecessor.
MergeFaults(bs) == /\ ~Last(bs).allocated
                   /\ bs[Len(bs) - 1].allocated

\* Faulty: the pages of the block that disappears are forgotten.
AbsorbUncounted(bs, b) ==
  IF bs # <<>> /\ ~Last(bs).allocated /\ ~b.allocated THEN bs ELSE Append(bs, b)

Absorb(bs, b) ==
  IF bs # <<>> /\ ~Last(bs).allocated /\ ~b.allocated
  THEN [bs EXCEPT ![Len(bs)].count = @ + b.count]
  ELSE Append(bs, b)

MergeNot(bs) == bs   \* faulty: as VirtualMemoryManager::merge, it returns at once
Merge(bs) == FoldLeft(Absorb, <<>>, bs)

-----------------------------------------------------------------------------
(* alloc *)

Unbalance(n) == no_schedule' = no_schedule + (IF taskman THEN n ELSE 0)

\* A caller is given the block of n pages that begins with page.
Return(page, n) ==
  held' = [p \in DOMAIN held \cup {page} |-> IF p = page THEN n ELSE held[p]]

Stop(how) == /\ machine' = how
             /\ UNCHANGED <<blocks, free_pages, no_schedule, taskman, held, heap>>

\* What a search does: it finds a block in the list as it is, or in the list
\* merged and then one mt(false) is without its mt(true), or it returns NULL
\* and two are.
Direct(bs, n)   == Fits(bs, n) # {}
Fragmented(bs, n) == ~Direct(bs, n) /\ ~MergeFaults(bs)
Searched(bs, n) == IF Direct(bs, n) THEN bs ELSE Merge(bs)
Faults(bs, n)   == ~Direct(bs, n) /\ MergeFaults(bs)
Left(bs, n)     == IF Direct(bs, n) THEN 0
                   ELSE IF Direct(Merge(bs), n) THEN 1 ELSE 2

AllocFaults(n) == Faults(blocks, n) /\ Stop("fault")

AllocFails(n) ==
  /\ Fragmented(blocks, n) /\ ~Direct(Merge(blocks), n)
  /\ blocks' = Merge(blocks)
  /\ Unbalance(2)
  /\ UNCHANGED <<free_pages, taskman, held, heap, machine>>

\* The heap has room for the descriptor, or none is needed.
AllocPlain(n) ==
  /\ ~Faults(blocks, n)
  /\ LET bs == Searched(blocks, n)
         i  == FirstFit(bs, n)
     IN /\ Direct(bs, n)
        /\ blocks' = Cut(Mark(bs, i, TRUE), i, n)
        /\ Return(bs[i].first, n)
  /\ free_pages' = free_pages - n
  /\ Unbalance(Left(blocks, n))
  /\ UNCHANGED <<taskman, heap, machine>>

\* The heap is full and takes a page of its own while the block found is
\* marked allocated in its whole length.  kmorecore has released the reserved
\* block of the heap, so the descriptor of this inner split has room; a merge
\* has freed descriptors, so a search that merged does not come here.
MarkedLate(n) == blocks   \* faulty: it is marked only after the descriptor
Marked(n) == Mark(blocks, FirstFit(blocks, n), TRUE)
Splits(n) == Direct(blocks, n) /\ blocks[FirstFit(blocks, n)].count # n

AllocGrows(n) ==
  /\ Splits(n)
  /\ LET bs   == Searched(Marked(n), 1)
         i    == FirstFit(bs, 1)
         page == blocks[FirstFit(blocks, n)].first
         grown == Cut(Mark(bs, i, TRUE), i, 1)
     IN /\ ~Faults(Marked(n), 1) /\ Direct(bs, 1)
        /\ blocks' = Cut(grown, At(grown, page), n)
        /\ Return(page, n)
        /\ heap' = heap \cup {bs[i].first}
  /\ free_pages' = free_pages - n - 1
  /\ Unbalance(Left(Marked(n), 1))
  /\ UNCHANGED <<taskman, machine>>

AllocGrowFaults(n) == Splits(n) /\ Faults(Marked(n), 1) /\ Stop("fault")

\* operator new cannot allocate.
AllocGrowPanics(n) ==
  /\ Splits(n)
  /\ Fragmented(Marked(n), 1) /\ ~Direct(Merge(Marked(n)), 1)
  /\ Stop("panic")

Alloc(n) == /\ machine = "up" /\ no_schedule < MaxDepth
            /\ \/ AllocFaults(n) \/ AllocFails(n) \/ AllocPlain(n)
               \/ AllocGrows(n) \/ AllocGrowFaults(n) \/ AllocGrowPanics(n)

-----------------------------------------------------------------------------
(* free *)

\* An address that is no block's, or not an allocated one's, returns early.
FreeRefused(page) ==
  /\ Has(blocks, page) => ~blocks[At(blocks, page)].allocated
  /\ Unbalance(1)
  /\ UNCHANGED <<blocks, free_pages, taskman, held, heap, machine>>

FreeBlock(page) ==
  /\ Has(blocks, page)
  /\ LET i == At(blocks, page)
     IN /\ blocks[i].allocated
        /\ blocks' = Mark(blocks, i, FALSE)
        /\ free_pages' = free_pages + blocks[i].count
  /\ held' = [p \in DOMAIN held \ {page} |-> held[p]]
  /\ UNCHANGED <<no_schedule, taskman, heap, machine>>

Free(page) == /\ machine = "up" /\ no_schedule < MaxDepth
              /\ FreeRefused(page) \/ FreeBlock(page)

\* The constructor of HAL creates the task manager after some allocations.
StartTaskman == /\ machine = "up" /\ ~taskman
                /\ taskman' = TRUE
                /\ UNCHANGED <<blocks, free_pages, no_schedule, held, heap, machine>>

Init == /\ free_pages = Count - Reserved
        /\ blocks = <<[first |-> 0, count |-> Reserved, allocated |-> TRUE],
                      [first |-> Reserved + 1, count |-> Count - Reserved,
                       allocated |-> FALSE]>>
        /\ no_schedule = 0
        /\ taskman = FALSE
        /\ held = <<>>
        /\ heap = {}
        /\ machine = "up"

Next == \/ \E n \in Requests : Alloc(n)
        \/ \E page \in DOMAIN held \cup Foreign : Free(page)
        \/ StartTaskman

Spec == Init /\ [][Next]_vars

-----------------------------------------------------------------------------
\* The pages the machine has, and the end of the list.
Memory == 0..(Reserved + Count - 1)
Top == Count + 1

\* The pages in no block from the start: the free block begins one page late, and
\* it is as many pages shorter as are reserved, though they are not in count_pages.
LeftOut == {Reserved} \cup (Top..(Reserved + Count - 1))

TypeOK ==
  /\ blocks \in Seq([first : 0..Top, count : 1..Count, allocated : BOOLEAN])
  /\ free_pages \in 0..(Count - Reserved)
  /\ no_schedule \in 0..(MaxDepth + 1)
  /\ taskman \in BOOLEAN
  /\ DOMAIN held \subseteq 0..Top /\ heap \subseteq 0..Top
  /\ machine \in {"up", "fault", "panic"}

\* Every block begins where the one before it ends, whatever was split or merged and
\* even when the list changed under a split in progress.
Tiling ==
  /\ Len(blocks) >= 2
  /\ blocks[1] = [first |-> 0, count |-> Reserved, allocated |-> TRUE]
  /\ blocks[2].first = Reserved + 1
  /\ \A i \in 2..(Len(blocks) - 1) :
        blocks[i + 1].first = blocks[i].first + blocks[i].count
  /\ Last(blocks).first + Last(blocks).count = Top

\* A page of the machine is in one block, but for those left out at the start, which
\* no split or merge brings in; no block has a page the machine has not.
In(p, i) == blocks[i].first <= p /\ p < blocks[i].first + blocks[i].count
EachPageInOne ==
  /\ \A p \in Memory : p \in LeftOut <=> \A i \in DOMAIN blocks : ~In(p, i)
  /\ \A p \in Memory : \A i, j \in DOMAIN blocks : In(p, i) /\ In(p, j) => i = j
  /\ \A i \in DOMAIN blocks : blocks[i].first + blocks[i].count - 1 \in Memory

\* The allocated blocks are what was handed out, no more and no less: nobody
\* is given memory another one still holds, and a merge takes none away.
HandedOut ==
  /\ {<<blocks[i].first, blocks[i].count>> :
         i \in {j \in 2..Len(blocks) : blocks[j].allocated}}
       = {<<p, held[p]>> : p \in DOMAIN held} \cup {<<p, 1>> : p \in heap}
  /\ DOMAIN held \cap heap = {}

FreePages == UNION {blocks[i].first..(blocks[i].first + blocks[i].count - 1) :
                      i \in {j \in DOMAIN blocks : ~blocks[j].allocated}}

\* The counter that free_memory reports is the number of pages in free blocks.
FreeCounted == free_pages = Cardinality(FreePages)

\* Every page but those the constructor leaves out is in one block of the list, what
\* was handed out is what its holders have, and the count of free pages is right, after
\* every step of an allocation nested in the heap's growth (mm.cpp:43-93, 105-120).
PagesSound == TypeOK /\ Tiling /\ EachPageInOne /\ HandedOut /\ FreeCounted

\* alloc returns NULL only when no run of free pages is long enough: merging
\* once is enough, however fragmented the list was.
NullMeansNoRun ==
  [][\A n \in Requests : Alloc(n) /\ machine' = "up" /\ held' = held =>
       ~\E p \in FreePages : p..(p + n - 1) \subseteq FreePages]_vars

\* task.cpp:244 has "taskman: mismatching mt(false)/mt(true) call count": every
\* alloc and free gives back the preemption it holds off.
MtBalanced == no_schedule = 0
=============================================================================
