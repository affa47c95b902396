------------------------------ MODULE MCMemory ------------------------------
(***************************************************************************)
(* The memory of the kernel and of programs.  A part of the run is one     *)
(* component; the parts share no state, so that a behaviour of one of them *)
(* at a time is all there is to see.                                       *)
(*   pages:         the memory manager                                     *)
(*   heap:          kmalloc, called by one task at a time                  *)
(*   heap_shared:   the same, the process manager switched in the middle   *)
(*   malloc:        a program's heap, with one thread or two               *)
(*   spaces:        virtual memory and what exec loads into it             *)
(*   buffers:       what a system call copies                              *)
(***************************************************************************)
EXTENDS MemoryManager, TLC

CONSTANTS
  Parts,
  Kernel,                                      \* of the kernel's heap: sizes and bounds
  User,                                        \* of malloc: sizes, threads and bounds
  Virtual, s1, s2,                             \* of spaces
  Server, Byte, Zero, MaxLength, MaxForwards   \* of buffers

VARIABLES
  part,
  k_blocks, reserved, k_live, descs, pm, k_taken, lost, k_machine,       \* of KHeap
  u_blocks, u_live, at, u_taken, u_machine,                              \* of UserHeap
  use, v_blocks, pte, image, threads, pc, v_machine,                     \* of AddressSpace
  client, msg, holder, umsg, least, warned, answer                       \* of Exchange

kheapVars == <<k_blocks, reserved, k_live, descs, pm, k_taken, lost, k_machine>>
userVars == <<u_blocks, u_live, at, u_taken, u_machine>>
spaceVars == <<use, v_blocks, pte, image, threads, pc, v_machine>>
exchangeVars == <<client, msg, holder, umsg, least, warned, answer>>
allVars == <<part, vars, kheapVars, userVars, spaceVars, exchangeVars>>

-----------------------------------------------------------------------------
\* A unit is four bytes: headers of four, sizes in multiples of four, a reserve
\* of 28 and descriptors of 8 as in the code; a page is smaller.  Kernel.shared bounds
\* what is held, and twice the pages taken, once the process manager is switched.
Heap == INSTANCE KHeap WITH
  Header <- Kernel.header, ALIGNMENT <- Kernel.alignment,
  RESERVED_BLOCK_SIZE <- Kernel.reserve, Descriptor <- Kernel.descriptor,
  Page <- Kernel.page, Pages <- Kernel.pages, Requests <- Kernel.requests,
  MaxLive <- Kernel.live,
  blocks <- k_blocks, live <- k_live, taken <- k_taken, machine <- k_machine

MCKernel == [header |-> 4, alignment |-> 4, reserve |-> 25, descriptor |-> 4, page |-> 80,
             pages |-> {1, 2}, requests |-> {1, 19, 71}, live |-> 3, shared |-> 4]

\* A header is three units of four bytes.
Malloc == INSTANCE UserHeap WITH
  Header <- User.header, Page <- User.page, Thread <- User.threads,
  Pages <- User.pages, Requests <- User.requests, MaxLive <- User.live,
  blocks <- u_blocks, live <- u_live, taken <- u_taken, machine <- u_machine

MCUser == [header |-> 3, page |-> 20, threads |-> {1, 2}, pages |-> {1, 2, 4},
           requests |-> {1, 14, 17, 22}, live |-> 4]

\* Files of the layouts that the linker makes, in pages of four bytes and tables
\* of three pages; user memory begins with page 4.
Load(offset, vaddr, filesz, memsz) ==
  [type |-> "PT_LOAD", offset |-> offset, vaddr |-> vaddr, filesz |-> filesz, memsz |-> memsz]
Note == [type |-> "other", offset |-> 0, vaddr |-> 0, filesz |-> 4, memsz |-> 4]
File(pages, segments) == [elf |-> TRUE, pages |-> pages, segments |-> segments]

\* Text and data in whole pages; a note and an empty segment besides; one segment
\* that fills the space; one that leaves a hole, which stops the kernel; and no program.
WellLaid == {File(2, <<Load(0, 16, 4, 4), Load(4, 20, 3, 4)>>),
             File(1, <<Note, Load(0, 16, 4, 3), Load(4, 28, 0, 4)>>),
             File(5, <<Load(0, 16, 20, 20)>>),
             File(1, <<Load(0, 20, 4, 4)>>),
             [elf |-> FALSE, pages |-> 1, segments |-> <<>>]}

Spaces == INSTANCE AddressSpace WITH
  Space <- Virtual.space, Programs <- Virtual.programs, PAGE_SIZE <- Virtual.page,
  TABLE <- Virtual.table, Pages <- Virtual.pages, Device <- Virtual.device,
  USER_SPACE_START <- Virtual.start, USER_SPACE_END <- Virtual.end,
  PL0_STACK_SIZE <- Virtual.pl0, PL3_STACK_SIZE <- Virtual.pl3,
  MaxThreads <- Virtual.threads, blocks <- v_blocks, machine <- v_machine

MCVirtual ==
  [space |-> {s1, s2}, programs |-> WellLaid, page |-> 4, table |-> 3, pages |-> 1..11,
   device |-> {20}, start |-> 4, end |-> 9, pl0 |-> 1, pl3 |-> 2, threads |-> 2]

Buffers == INSTANCE Exchange

PartsAssumption ==
  /\ Heap!KHeapAssumption
  /\ Malloc!UserHeapAssumption
  /\ Spaces!AddressSpaceAssumption /\ Spaces!WellLinked /\ Buffers!ExchangeAssumption
ASSUME PartsAssumption

Symmetric == Permutations({s1, s2})

-----------------------------------------------------------------------------
AllInit == /\ part \in Parts
           /\ Init /\ Heap!Init /\ Malloc!Init /\ Spaces!Init /\ Buffers!Init
           /\ part # "malloc" => DOMAIN at = User.threads

Pages == Next /\ UNCHANGED <<kheapVars, userVars, spaceVars, exchangeVars>>
Heaps == /\ \/ part = "heap" /\ Heap!Alone
            \/ /\ part = "heap_shared" /\ Heap!Next
               /\ Cardinality(k_live') + 2 * Cardinality(k_taken') + Len(pm') <= Kernel.shared
         /\ UNCHANGED <<vars, userVars, spaceVars, exchangeVars>>
Mallocs == /\ part = "malloc" /\ Malloc!Next
           /\ UNCHANGED <<vars, kheapVars, spaceVars, exchangeVars>>

AllNext == /\ \/ part = "pages" /\ Pages
              \/ Heaps
              \/ Mallocs
              \/ /\ part = "spaces" /\ Spaces!Next
                 /\ UNCHANGED <<vars, kheapVars, userVars, exchangeVars>>
              \/ /\ part = "buffers" /\ Buffers!Next
                 /\ UNCHANGED <<vars, kheapVars, userVars, spaceVars>>
           /\ UNCHANGED part

AllSpec == AllInit /\ [][AllNext]_allVars

-----------------------------------------------------------------------------
\* No byte of the kernel heap is in two blocks, and none is in no block until a
\* growth is not linked, even when the process manager and a system call cut
\* the same block (kmalloc.cpp:35-83, 98-127); and no block is outside of the memory
\* the heap was given.  Called by one at a time kmalloc and
\* kfree leave no two free neighbours apart, and the blocks in use are those
\* somebody holds, so that each can be freed (kmalloc.cpp:85-127).
HeapSound == /\ Heap!TypeOK /\ Heap!Apart /\ Heap!Tiled
             /\ part = "heap" => Heap!Merged /\ Heap!Owned

\* Unless a growth has no room for its headers every byte of malloc's memory is in
\* one block and no block reaches out of it, whichever threads are switched inside
\* malloc (malloc.cpp:51-58).  With one thread free neighbours become one block, and
\* the blocks in use are those the program holds (malloc.cpp:71-113).
MallocSound == Malloc!TypeOK /\ Malloc!Sound /\ Malloc!Merged /\ Malloc!Owned

\* The blocks of a space tile its virtual memory; exactly the pages of the allocated
\* blocks are mapped, each to its own physical page, and each table has a page; a
\* mapped page is a device's or was taken for this very program, and stays so while
\* the mapping lasts; and when the last thread has died everything is given back
\* but the file and the kernel stacks, which nothing ever frees (vmm.cpp:96-242).
SpacesSound == /\ Spaces!TypeOK /\ Spaces!Tiling /\ Spaces!TablesAgree
               /\ Spaces!Isolated /\ Spaces!GivenBack

\* Every server a request comes to reads the client's bytes at the front of its
\* buffer, as far as the shortest buffer on the way reaches, where a buffer was too
\* short a server was told of more than it holds, and the client that returns finds
\* the answer's bytes, or zeros (messages.cpp:73-74, 106-109, 132-134, 167-173).
BuffersSound == /\ Buffers!TypeOK
                /\ Buffers!Delivered /\ Buffers!LossSeen /\ Buffers!Returned

\* kmalloc.cpp:103 panics with "Attempt to free unallocated address": it takes
\* every address it is given, by callers or from kmorecore, for a block in use.
NeverPanics == Heap!NeverPanics
=============================================================================
