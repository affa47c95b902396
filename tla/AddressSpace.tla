---------------------------- MODULE AddressSpace ----------------------------
(***************************************************************************)
(* Address spaces, hal/vmm.cpp and hal/paging.cpp, and the loader that      *)
(* fills them, core/core.cpp: the list of virtual blocks, the page tables,  *)
(* and the physical pages taken for both.  A program is loaded by exec step *)
(* by step while other programs run, grow, start threads and die.           *)
(*                                                                         *)
(* Physical pages come from MemoryManager, here its promise: the first run  *)
(* of free pages, or NULL.                                                  *)
(***************************************************************************)
EXTENDS Integers, Sequences, FiniteSets, SequencesExt, FiniteSetsExt

CONSTANTS
  Space,             \* address spaces, each used once
  Programs,          \* files: [elf, pages, segments], segments in bytes
  PAGE_SIZE,         \* 4096
  TABLE,             \* pages one table maps, 1024
  Pages,             \* physical pages the manager has
  Device,            \* pages of devices, outside Pages
  USER_SPACE_START, USER_SPACE_END,   \* virtual pages
  PL0_STACK_SIZE, PL3_STACK_SIZE,
  MaxThreads         \* bound of the runs on the threads of a space

Segment == [type : {"PT_LOAD", "other"}, offset : Nat, vaddr : Nat, filesz : Nat, memsz : Nat]

NULL == 0
AddressSpaceAssumption ==
  /\ PAGE_SIZE \in Nat \ {0} /\ TABLE \in Nat \ {0}
  /\ 0 \notin Pages /\ Pages \cap Device = {} /\ Pages \cup Device \subseteq Nat
  /\ IsFiniteSet(Pages) /\ NULL \notin Space /\ MaxThreads \in Nat \ {0}
  /\ USER_SPACE_START \in Nat \ {0} /\ USER_SPACE_END \in Nat
  /\ USER_SPACE_START < USER_SPACE_END
  /\ PL0_STACK_SIZE \in Nat \ {0} /\ PL3_STACK_SIZE \in Nat \ {0}
  /\ \A p \in Programs : p.elf \in BOOLEAN /\ p.pages \in Nat \ {0} /\ p.segments \in Seq(Segment)

\* What the loader relies on and does not look at: a segment that is loaded has all
\* its pages in the file.
PagesOf(bytes) == (bytes + PAGE_SIZE - 1) \div PAGE_SIZE
Loaded(segment) == segment.type = "PT_LOAD" /\ segment.filesz # 0
WellLinked ==
  \A p \in Programs : \A i \in DOMAIN p.segments :
    LET segment == p.segments[i]
    IN Loaded(segment) =>
         /\ segment.memsz # 0
         /\ segment.offset \div PAGE_SIZE + PagesOf(segment.memsz) <= p.pages

VARIABLES
  use,       \* what each physical page serves for, and for whom
  blocks,    \* the list mb of each space
  pte,       \* its page tables: virtual page |-> physical page
  image,     \* its program and the first page of the file in memory
  threads,   \* how many run in it; it is deleted when none is left
  pc,        \* how far it is built
  machine    \* up, or how the kernel stopped

vars == <<use, blocks, pte, image, threads, pc, machine>>

-----------------------------------------------------------------------------
(* Physical pages *)

Unused == [what |-> "free", of |-> NULL]
Free == {p \in Pages : use[p] = Unused}
Runs(n) == {p \in Free : p..(p + n - 1) \subseteq Free}
Alloc(n) == IF Runs(n) = {} THEN NULL ELSE Min(Runs(n))
Takes(ps, what, s) == [p \in Pages |-> IF p \in ps THEN [what |-> what, of |-> s] ELSE use[p]]
Run(page, n) == IF page = NULL THEN {} ELSE page..(page + n - 1)
Of(s, what) == {p \in Pages : use[p] = [what |-> what, of |-> s]}

-----------------------------------------------------------------------------
(* The list of blocks *)

\* Faulty: the free rest begins one page early.
RestEarly(b, n) ==
  [first |-> b.first + n - 1, count |-> b.count - n,
   physical |-> NULL, allocated |-> FALSE, reserved |-> FALSE]
Rest(b, n) ==
  [first |-> b.first + n, count |-> b.count - n,
   physical |-> NULL, allocated |-> FALSE, reserved |-> FALSE]

\* alloc_at, which reserves, links what is left over even when it is empty.
Taken(bs, i, n, phys, reserved) ==
  LET used == [first |-> bs[i].first, count |-> n, physical |-> phys,
               allocated |-> TRUE, reserved |-> reserved]
      cut  == [bs EXCEPT ![i] = used]
  IN IF bs[i].count = n /\ ~reserved THEN cut ELSE InsertAt(cut, i + 1, Rest(bs[i], n))
FirstFit(bs, n) == {i \in DOMAIN bs : ~bs[i].allocated /\ bs[i].count >= n}

\* The tables map needs and does not find; each takes a page.
NewTables(s, first, n) ==
  {v \div TABLE : v \in first..(first + n - 1)} \ {v \div TABLE : v \in DOMAIN pte[s]}

\* Faulty: as the page after the first is mapped the first's page is used again.
MappedOnce(s, first, n, phys) ==
  [v \in DOMAIN pte[s] \cup first..(first + n - 1) |->
     IF v \in first..(first + n - 1) THEN phys ELSE pte[s][v]]
Mapped(s, first, n, phys) ==
  [v \in DOMAIN pte[s] \cup first..(first + n - 1) |->
     IF v \in first..(first + n - 1) THEN phys + (v - first) ELSE pte[s][v]]

\* Pages for n tables are taken one by one; when none is left set_pte writes
\* through a NULL table, as page 0 is not mapped.
TablePages(n, ps) ==
  {q \in Free \ ps : Cardinality({r \in Free \ ps : r <= q}) <= n}

Stop(how) == machine' = how /\ UNCHANGED <<use, blocks, pte, image, threads, pc>>

\* Block i of the list of s, n pages long from now on, backed by the pages ps
\* (none for a device or a file's own pages) that begin at phys.
MapBlock(s, i, n, phys, ps, reserved) ==
  LET first == blocks[s][i].first
      new   == NewTables(s, first, n)
      ts    == TablePages(Cardinality(new), ps)
  IN IF Cardinality(ts) < Cardinality(new) THEN Stop("fault")
     ELSE /\ use' = [p \in Pages |-> IF p \in ps THEN [what |-> "block", of |-> s]
                                     ELSE IF p \in ts THEN [what |-> "table", of |-> s]
                                     ELSE use[p]]
          /\ blocks' = [blocks EXCEPT ![s] = Taken(@, i, n, phys, reserved)]
          /\ pte' = [pte EXCEPT ![s] = Mapped(s, first, n, phys)]
          /\ UNCHANGED machine

\* VirtualMemoryManager::alloc: NULL when no block or no pages are found; its
\* merge returns at once, so free blocks side by side stay apart.
Allocates(s, n) ==
  IF FirstFit(blocks[s], n) = {} \/ Alloc(n) = NULL
  THEN UNCHANGED <<use, blocks, pte, machine>>
  ELSE MapBlock(s, Min(FirstFit(blocks[s], n)), n, Alloc(n), Run(Alloc(n), n), FALSE)

-----------------------------------------------------------------------------
(* exec and load_elf *)

Place(s) == pc[s][1]
Goes(s, to) == pc' = [pc EXCEPT ![s] = to]
Segments(s) == image[s].program.segments

\* The file is copied to pages of its own; without them, to page 0.  One that is
\* no executable of this machine is refused, and keeps its pages.
Exec(s, program) ==
  /\ Place(s) = "none"
  /\ IF Alloc(program.pages) = NULL THEN Stop("fault")
     ELSE /\ use' = Takes(Run(Alloc(program.pages), program.pages), "image", s)
          /\ image' = [image EXCEPT ![s] = [program |-> program, page |-> Alloc(program.pages)]]
          /\ Goes(s, IF program.elf THEN <<"construct">> ELSE <<"over">>)
          /\ UNCHANGED <<blocks, pte, threads, machine>>

Empty == <<[first |-> 0, count |-> USER_SPACE_START - 1, physical |-> NULL,
            allocated |-> TRUE, reserved |-> TRUE],
           [first |-> USER_SPACE_START, count |-> USER_SPACE_END - USER_SPACE_START,
            physical |-> NULL, allocated |-> FALSE, reserved |-> FALSE]>>

Construct(s) ==
  /\ Place(s) = "construct"
  /\ IF Alloc(1) = NULL THEN Stop("fault")
     ELSE /\ use' = Takes({Alloc(1)}, "directory", s)
          /\ blocks' = [blocks EXCEPT ![s] = Empty]
          /\ Goes(s, <<"segment", 1>>)
          /\ UNCHANGED <<pte, image, threads, machine>>

\* alloc_at takes the last free block that covers the segment, and stops the
\* kernel when there is none or the segment does not begin it.
Covers(bs, virt, n) ==
  {i \in DOMAIN bs : /\ ~bs[i].allocated /\ bs[i].first <= virt
                     /\ bs[i].first + bs[i].count >= virt + n}

\* Where the file holds the segment's first page.  Faulty: one page on.
FirstPageLater(s, segment) == image[s].page + segment.offset \div PAGE_SIZE + 1
FirstPage(s, segment) == image[s].page + segment.offset \div PAGE_SIZE
LoadSegment(s) ==
  /\ Place(s) = "segment" /\ pc[s][2] <= Len(Segments(s))
  /\ LET segment == Segments(s)[pc[s][2]]
         virt == segment.vaddr \div PAGE_SIZE
         n == PagesOf(segment.memsz)
         fit == Covers(blocks[s], virt, n)
     IN IF ~Loaded(segment)
        THEN /\ Goes(s, <<"segment", pc[s][2] + 1>>)
             /\ UNCHANGED <<use, blocks, pte, image, threads, machine>>
        ELSE IF fit = {} \/ blocks[s][Max(fit)].first # virt THEN Stop("panic")
        ELSE /\ MapBlock(s, Max(fit), n, FirstPage(s, segment), {}, TRUE)
             /\ pc' = IF machine' = "up" THEN [pc EXCEPT ![s] = <<"segment", pc[s][2] + 1>>] ELSE pc
             /\ UNCHANGED <<image, threads>>

\* create_task: a stack for the kernel, then one for the program, and nobody
\* looks whether there was memory for them.
KernelStack(s) ==
  LET page == Alloc(PL0_STACK_SIZE)
  IN use' = Takes(Run(page, PL0_STACK_SIZE), "stack", s)

CreateKernelStack(s) ==
  /\ Place(s) = "segment" /\ pc[s][2] > Len(Segments(s))
  /\ KernelStack(s)
  /\ Goes(s, <<"stack">>)
  /\ UNCHANGED <<blocks, pte, image, threads, machine>>

CreateStack(s) ==
  /\ Place(s) = "stack"
  /\ Allocates(s, PL3_STACK_SIZE)
  /\ IF machine' = "up"
     THEN threads' = [threads EXCEPT ![s] = 1] /\ Goes(s, <<"live">>)
     ELSE UNCHANGED <<threads, pc>>
  /\ UNCHANGED image

-----------------------------------------------------------------------------
(* What programs ask the process manager for *)

Running(s) == Place(s) = "live"

StartThread(s) ==
  /\ Running(s) /\ threads[s] < MaxThreads
  /\ KernelStack(s)
  /\ Goes(s, <<"thread">>)
  /\ UNCHANGED <<blocks, pte, image, threads, machine>>

ThreadStack(s) ==
  /\ Place(s) = "thread"
  /\ Allocates(s, PL3_STACK_SIZE)
  /\ IF machine' = "up"
     THEN threads' = [threads EXCEPT ![s] = @ + 1] /\ Goes(s, <<"live">>)
     ELSE UNCHANGED <<threads, pc>>
  /\ UNCHANGED image

Morecore(s) ==
  /\ Running(s)
  /\ Allocates(s, 1)
  /\ UNCHANGED <<image, threads, pc>>

AttachMemory(s, device) ==
  /\ Running(s) /\ FirstFit(blocks[s], 1) # {}
  /\ MapBlock(s, Min(FirstFit(blocks[s], 1)), 1, device, {}, FALSE)
  /\ UNCHANGED <<image, threads, pc>>

\* The destructor, when the last thread is killed: what is not reserved is
\* freed, then the tables and the directory.
GivenUp(s) == {i \in DOMAIN blocks[s] : blocks[s][i].allocated /\ ~blocks[s][i].reserved}
FreedBy(s) == UNION {Run(blocks[s][i].physical, blocks[s][i].count) : i \in GivenUp(s)}

TablesKept(s) == Of(s, "directory")   \* faulty: the tables stay
Tables(s) == Of(s, "table") \cup Of(s, "directory")

\* Faulty: the space is deleted only by a thread that finds none left before it.
LastAlready(s) == threads[s] = 0
LastThread(s) == threads[s] = 1

Die(s) ==
  /\ Running(s)
  /\ threads' = [threads EXCEPT ![s] = @ - 1]
  /\ IF ~LastThread(s) THEN UNCHANGED <<use, blocks, pte, pc>>
     ELSE /\ use' = [p \in Pages |-> IF p \in FreedBy(s) \cup Tables(s) THEN Unused ELSE use[p]]
          /\ blocks' = [blocks EXCEPT ![s] = <<>>]
          /\ pte' = [pte EXCEPT ![s] = <<>>]
          /\ Goes(s, <<"over">>)
  /\ UNCHANGED <<image, machine>>

Init == /\ use = [p \in Pages |-> Unused]
        /\ blocks = [s \in Space |-> <<>>]
        /\ pte = [s \in Space |-> <<>>]
        /\ image = [s \in Space |-> [page |-> NULL]]
        /\ threads = [s \in Space |-> 0]
        /\ pc = [s \in Space |-> <<"none">>]
        /\ machine = "up"

Next ==
  /\ machine = "up"
  /\ \E s \in Space :
       \/ \E program \in Programs : Exec(s, program)
       \/ Construct(s) \/ LoadSegment(s) \/ CreateKernelStack(s) \/ CreateStack(s)
       \/ StartThread(s) \/ ThreadStack(s) \/ Morecore(s)
       \/ \E device \in Device : AttachMemory(s, device)
       \/ Die(s)

Spec == Init /\ [][Next]_vars

-----------------------------------------------------------------------------
(* Properties *)

TypeOK ==
  /\ \A p \in Pages : use[p].what \in {"free", "image", "directory", "table", "block", "stack"}
  /\ \A s \in Space : \A i \in DOMAIN blocks[s] :
        blocks[s][i].first \in 0..USER_SPACE_END /\ blocks[s][i].count \in 0..USER_SPACE_END
  /\ \A s \in Space : threads[s] \in (IF Running(s) THEN 1 ELSE 0)..MaxThreads
  /\ machine \in {"up", "fault", "panic"}

Built(s) == blocks[s] # <<>>

\* The blocks of a space tile its virtual memory, whatever segments, stacks and
\* pages were cut out of it (vmm.cpp:96-108, 205-217).
Tiling ==
  \A s \in Space : Built(s) =>
    /\ blocks[s][2].first = USER_SPACE_START
    /\ \A i \in 2..(Len(blocks[s]) - 1) :
         blocks[s][i + 1].first = blocks[s][i].first + blocks[s][i].count
    /\ Last(blocks[s]).first + Last(blocks[s]).count = USER_SPACE_END

\* The list and the tables agree: exactly the pages of the allocated blocks are
\* mapped, each to its own physical page, and each table has a page.
TablesAgree ==
  \A s \in Space : Built(s) =>
    LET taken == {i \in 2..Len(blocks[s]) : blocks[s][i].allocated}
    IN /\ DOMAIN pte[s] = UNION {blocks[s][i].first..(blocks[s][i].first + blocks[s][i].count - 1) :
                                   i \in taken}
       /\ \A i \in taken : \A k \in 0..(blocks[s][i].count - 1) :
            pte[s][blocks[s][i].first + k] = blocks[s][i].physical + k
       /\ Cardinality(Of(s, "table")) = Cardinality({v \div TABLE : v \in DOMAIN pte[s]})

\* Programs are kept apart: a page that is mapped is a device's or was taken
\* for this very program, and stays so while the mapping lasts.
Isolated ==
  \A s \in Space : \A v \in DOMAIN pte[s] :
    pte[s][v] \in Device \/ (pte[s][v] \in Pages /\ use[pte[s][v]] \in
                               {[what |-> "block", of |-> s], [what |-> "image", of |-> s]})

\* When the last thread has died everything is given back that the space took,
\* except the file and the kernel stacks, which nothing ever frees.
GivenBack ==
  \A s \in Space : Place(s) = "over" =>
    \A p \in Pages : use[p].of = s => use[p].what \in {"image", "stack"}

\* "Segment size in memory" (core/include/elf.h:539): once a program is loaded,
\* all of every loadable segment is mapped.
SegmentsInMemory ==
  \A s \in Space : Running(s) =>
    \A i \in DOMAIN Segments(s) :
      LET segment == Segments(s)[i]
      IN segment.type = "PT_LOAD" =>
           \A a \in segment.vaddr..(segment.vaddr + segment.memsz - 1) :
             a \div PAGE_SIZE \in DOMAIN pte[s]

\* "Segment size in file" (core/include/elf.h:538): a segment's memory behind
\* what the file holds of it is no other program's.
WithinFile ==
  \A s \in Space : \A v \in DOMAIN pte[s] :
    \A t \in Space \ {s} : pte[s][v] \in Pages => use[pte[s][v]].of # t
=============================================================================
