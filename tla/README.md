# Story OS 0.48: a verification project

Story OS is a small microkernel for one x86 processor. Programs and servers talk only by
synchronous messages; the kernel's process manager is itself a task that is spoken to by
messages. These modules model the kernel's messages, its process manager, its scheduler with the
hardware under it, its memory, the file server, the terminal, the formatted output every program
uses and the debugger's stub, with the wrong orders and missing checks the code has.

## The system

| Part | Code | State | Operations | Hard to test |
|---|---|---|---|---|
| Message system | `core/messages.cpp` | each task's `messages`, `reply`, `wait_reason`; the buffers copied | `send`, `receive`, `reply`, `forward` | two halves of `send` and `receive`, interleaved with everybody else's calls; lengths of three parties |
| Process manager | `core/core.cpp` 149-302 | its locals, `wait_object`, address space of each task | commands `pcDie` ... `pcWaitDie`, `exec` | preempted between any two statements |
| Task manager | `hal/task.cpp` | circular list, `current`, `ticks_remaining`, `no_schedule`, `scheduler_running` | scheduler, timer, `create_task`, `kill`, `mt` | fairness, flags shared by interrupt and scheduler |
| Hardware switch | `hal/gdt.cpp`, `hal/task.cpp`, `hal/main.cpp` | descriptor table, two TSS slots, task register | start, `ljmp` out and back | contexts saved where the task register points |
| System calls | `hal/syscall.cpp` | one global result word | dispatch | the result is read with interrupts on |
| Interrupts | `hal/handlers.cpp`, `hal/idt.cpp`, `hal/pic.cpp`, `core/core.cpp` | masks, lines in service, waiting drivers | handlers, end of interrupt, attach, messages | trap gates: handlers nest and are switched away from |
| Page allocator | `hal/mm.cpp` | block list, `free_pages` | `alloc`, `free`, `merge` | re-entered by the heap in the middle of a split |
| Kernel heap | `hal/kmalloc.cpp` | block list, reserved block | `kmalloc`, `kfree`, `kmorecore` | used with interrupts on by the process manager, off by system calls |
| Program heap | `lib/malloc.cpp` | block list | `malloc`, `free` | no lock between threads |
| Address spaces | `hal/vmm.cpp`, `hal/paging.cpp`, `core/core.cpp` 85-147 | block list, page tables, threads | loading, `alloc`, `map`, threads, destructor | what the destructor releases |
| File system server | `servers/fs.cpp` | tree of nodes, mounts | create, resolve, mount | nodes below a mount |
| File client library | `servers/api_file.cpp`, `servers/null.cpp` | server and number of a file | create, resolve, read, write, size | servers that come up while programs already ask |
| Terminal | `servers/tty.cpp` | consoles, decoder flags, keyboard buffer, threads and their list, two mutexes | print, switch, decode, read | threads created, found and switched while others print and read |
| Formatted output | `lib/vsprintf.cpp` | position in the format, the directive so far | one step per character | widths, precisions and the least number |
| Debugger's stub | `hal/gdb-stub.c` | registers, memory, trace bit, fault handler; packet buffers | exception, commands, packets | lost and repeated characters, faults inside the stub |
| File server's library | `servers/system_fs.cpp` | none | start-up, `die`, `morecore` and the system calls as functions | nothing of its own: what it calls is modelled where it is carried out |
| Other servers, programs | `servers/`, `apps/` | none of note | receive-reply loops; `exec` and `wait_die` | |
| Boot | `hal/main.cpp`, `hal/boot.S` | processor tables | set-up | |

How they interact: a program's library call is a message to the process manager (task 2), the
file system server or another server. `send` queues a copy at the receiver, readies it if it
sleeps in `receive`, and sleeps until its reply; `receive` reads the head of the queue and leaves
it there; `reply` turns the head into the caller's reply; `forward` moves it to another server.
System calls run with interrupts off. The process manager runs with interrupts on and writes
the wait of its callers directly. The timer counts delays down and switches to the scheduler's
own hardware task, which searches the list for a ready program. The file server keeps the paths
and hands each request for a mounted path on to the server mounted there; the terminal
starts a thread for each program that resolves its standard input.

What makes each part correct: no request is lost, doubled or answered out of order, and no
sleeper misses what it waits for (messages); dead tasks stay dead, an address space is deleted
with its last thread, delays and waits end and mean what they say (process manager); the
list stays a circle, ready programs run, `mt(false)` holds the processor (task manager); each
task goes on with the context it was left with (switch); a call returns its own result; a line
is ended by the handler it is for (interrupts); no page, byte or mapping is in two hands and none
is lost but what the constructors leave out (memory); the tree is the map of paths the requests describe (files); what is
typed is what is read, once and in order, and what is printed stays on its console (terminal);
fields are as wide as asked and read back as the number written (output); the program the stub
stopped goes on unchanged but for what was asked (debugger).

The hazards, each with the line where it bites and the property that watches it, are listed in
`PROJECT.json`.

## The modules

| Module | Models | State and actions |
|---|---|---|
| `Rpc` | what the message system promises | who waits, where its call is queued; Call, Pass, Answer, Return |
| `Messages` | `core/messages.cpp`: queues and waits | the fields of `Task` the calls use; one action per system call, two for those that sleep |
| `Exchange` | `core/messages.cpp`: buffers | one client's call, the kernel's copy of it and each server's buffer; one action per system call |
| `ProcMan` | `process_manager`, `exec_syscall`, `kill`, `create_task` | extends `Messages`; `pc` is the statement the process manager is at, one action per statement that other tasks can observe |
| `Sleepers` | whom the process manager ever put to sleep | extends `ProcMan` with the history `sleepers`, which no action reads |
| `Scheduler` | `hal/task.cpp` | `next`, `current` and the flags by their names; `cpu` tells the running hardware task |
| `Switching` | descriptor table, TSS slots and jumps | the table as it grows at boot, `tr` and the contexts kept in each TSS; one action per jump or timer |
| `Syscall` | `hal/syscall.cpp` | where each task is in the stub, `eax` and the global word; one action per instruction that matters |
| `Irqs` | interrupt lines and their messages | `imr`, `irr`, `isr`; each task's stack of handlers; one action per step of a handler |
| `MemoryManager` | `hal/mm.cpp` | the list as a sequence of blocks; one action per outcome of `alloc` and `free` |
| `HeapList` | the block list both heaps keep | operators only: search, cut, merge, and what both promise of a list |
| `KHeap` | `hal/kmalloc.cpp`, `hal/stubs.cpp` | the list, the reserved block, descriptors the memory manager holds; `pm` is where the process manager was interrupted |
| `UserHeap` | `lib/malloc.cpp` | the list, and for each thread where it is in `malloc` |
| `AddressSpace` | `hal/vmm.cpp`, `hal/paging.cpp`, `load_elf` | blocks and page tables of each space, who uses each page; loading is stepwise |
| `FileMap` | what the file server promises | known paths with their numbers and mounts |
| `FileTree` | `servers/fs.cpp` | the nodes; create, resolve, mount |
| `FileApi` | `servers/api_file.cpp`, `servers/null.cpp`, modules of the process manager | extends `FileTree`; each File's fields, how far each server has come up |
| `Console` | consoles of `servers/tty.cpp` | pictures and cursors; `pc` of each thread that prints or switches |
| `Keyboard` | scancode decoder of `servers/tty.cpp` | modifier flags and `escaped`; one action per key or byte |
| `Stdin` | standard input of `servers/tty.cpp` | the buffer, the list of threads, two mutexes; one action per step between which threads switch |
| `Printf` | `lib/vsprintf.cpp` | position in the format and the directive so far; one action per kind of character |
| `Packets` | packets of `hal/gdb-stub.c` | both directions of the line, the parser, an external host |
| `GdbStub` | exceptions and commands of `hal/gdb-stub.c` | processor, saved registers, stack, memory |
| `Induction` | induction over the natural numbers, as facts about sets | |
| `ProcManProofs` | inductive invariant of `Messages`, and that it implements `Rpc`; what the process manager keeps of both | |
| `MCSchedulerProofs` | who holds the processor, that the list of tasks is one circle, who gets whose result, which line an end of interrupt ends | |
| `SwitchingProofs` | jumps between contexts | |
| `MCMemoryProofs` | whose pages are whose, whose bytes arrive, lists of blocks that lose no byte, and address spaces whose tables and pages agree with their blocks | |
| `MCFilesProofs` | one path for each node, that the tree implements `FileMap`, and where a File's requests go | |
| `MCTerminalProofs` | cursors and pictures, what a byte on the keyboard's line means, what the readers get, and the fields of formatted output | |
| `MCGdbProofs` | the stopped program, and the stub's faults | |
| `MCMessages` ... `MCLiveness` | instances for the runs | |

`ProcMan` composes with `Messages`: its Receive and Reply are the system calls of that module, and
its other actions write the same `wait_reason`. `FileApi` composes with `FileTree`: the requests
of servers and programs are its actions. The other components are checked apart, each with what it
needs from its neighbours in the most general form. `Messages` and `ProcMan`
let any ready task run next, which is more than any scheduler does, so what holds there holds
under the real one; `Scheduler` reduces what tasks do to each other's wait to a few actions and
asks which task runs. `MemoryManager` stands apart because each of its operations runs
between `mt(false)` and `mt(true)`; what those keep out is the property MtHolds of `Scheduler`.
`KHeap` and `AddressSpace` use its promise, the first run of free pages or NULL, which is
NullMeansNoRun. `Stdin` and `FileApi` send messages in one step because `Messages` shows that each
is delivered and answered.

Definitions whose comment says "faulty" are what a mistake in the code would make of the
definition after them. No specification uses them; they serve to show that the properties can
fail.

Abstractions worth knowing:

- A message is its sender and an opaque payload; `ProcMan` gives the payload a type and a value;
  `Exchange` models its data.
- A NULL or deleted message is one value, and using it is the step Crash: page 0 is not mapped and
  the page fault handler does not return.
- `resume_reason` is left out: objects are zeroed on allocation, nobody stores `rrInterrupted`.
- Every task below `next_index` stays in the list for ever, as in the code; indices above are
  tasks not created yet.
- In `MemoryManager` the heap either has room for a descriptor or takes one page; a free of an
  address that is no block's models memory a program attached, which its address space gives
  back when it dies. Sizes and addresses are in pages.
- In the heaps a unit is a header's quarter or third, and a page is shorter than 4096 bytes; the
  conditions of the code that compare sizes are kept as they are.
- What runs after a fault or a wild jump is not followed: `Switching` stops in the handler, which
  does not return, and `Syscall` at a number past the table of handlers, behind which any word may lie.
- Names in paths are model values, and a path is the sequence of its slashes and names, so that
  doubled slashes, missing ones and limits of length keep their meaning.
- In `Console` what a write outside the screen changes is not followed, only that it happens.
- In `Stdin` a request has a file the terminal answers and a buffer: the library sends no other (`value1` is the number the
  terminal gave it), and `send` refuses a read without a length (`messages.cpp:21-27`).
- `PmReply` always succeeds: `messages.cpp:122-124` refuses a reply buffer without a length or a length without one,
  the library's requests to the process manager ask for no data (`api/system.cpp:49-166`), and a read of a module is
  answered from a buffer of the length asked for (`core.cpp:266-270`).
- In `GdbStub` the host leaves CS and SS alone, and the three words return_to_prog writes below SP are not followed.
- In `Packets` a command that lets the program go is answered by the next stop, sent when the program stops again.
  A digit has 3 values instead of 16, and sums are taken accordingly.
- `Printf` writes a field as a record of its parts; how each character is stored is left out. A word
  has any even number of values, `2 * HALF`, where the code has 2^32; a width or a precision that a format spells is
  not cut to a word.

## The runs

Every cfg gives the constants' values; the programs of a run are its Calls, Relays and Answers.
A run whose module has a variable `part` checks several components, or several instances of
one, side by side: the part is chosen in the initial state, and a step changes the
variables of its part only. Parts share no state, so one at a time is all there is to see. The
MC module names each part and gives it its constants. The properties of such a run are
conjunctions, defined and explained in the MC module, of properties of the components, which the
components' modules define each by itself: SwitchesSound is the TypeOK, FaultsAtFirst and
CurrentRuns of `Switching`, SpacesSound has Tiling, TablesAgree, Isolated and GivenBack of `AddressSpace`,
EverReady has ReadyRuns and SleepersWake of `Scheduler`, EveryWaitEnds has EveryCallReturns of
`Messages` and EveryRequestAnswered and EveryWaitEnds of `ProcMan`.

| Run | Bounds | Shows |
|---|---|---|
| `messages` | 3 clients, 4 servers, a dead and a missing task, refused calls of three kinds | all safety of the message system, and that it implements `Rpc` |
| `procman` | `life`: 6 tasks at boot, 2 created by thread or exec; `races`: 7 tasks, delays of 1 and 2 ticks, waits for a live, a dead and a missing task; `delays`, `waits`: one server, one program | deaths, thread counts, no resurrection, and what survives the races of pcDelay and pcWaitDie |
| `scheduler` | `tasks`: 5 tasks at boot, 1 created, delays of 0 and 2, words of 6 values; `tss`: 3 tasks; `lines`: 2 drivers of one line, 3 interrupts of it; `trap`: 2 programs | the list, who runs, mt; contexts; nested handlers; the trap's result; round robin and the ends of delays |
| `memory` | `pages`: 8 pages, 2 reserved, requests of 1 to 3, heap growth at every split, an attached device page; `heap`: 2 pages of growth, 3 live blocks; `heap_shared`: the same, of live blocks, choices of the process manager and twice the pages together 4; `malloc`: 1 or 2 threads, 3 pages of growth of which two are neighbours, 3 blocks live with one thread and 2 with two; `spaces`: 2 programs, 11 pages, 2 threads each; `buffers`: 2 servers, 2 bytes of 2 values, 2 forwards | tiling and ownership at every level of memory, page tables, what a dead program gives back, whose bytes arrive |
| `files` | `tree`: paths of up to 4 pieces, trees of 4 nodes; `programs`: 3 files, one of them below a mounted one, and 2 servers that come up meanwhile; `print`: 2 files and the 2 servers | the tree implements `FileMap`; numbers keep their meaning, writes reach their file; text gets out |
| `terminal` | `screen`: 2 consoles of 2 lines and 2 columns, 1 letter on the screen at a time, cursors up to 2 off either end, 2 printers and the switch; `keys`: 9 keys, 2 held at once; `characters`, `lines`: 2 programs, 4 characters typed, 2 reads each; `formats`: every string of up to 4 of 9 characters, and some 630 directives with every word | the screen, the decoder, the readers and vsprintf |
| `gdb` | `plain`: 2 commands, 1 fault that may garble; `numbered`: 2 commands, 2 losses; one command of each lets the program go; `registers`: 2 rings, 3 exceptions; `memory`: 4 addresses, one unmapped | commands executed once in order, registers and memory as left |
| `liveness` | `calls`: 7 tasks, no malformed call; `procman`: 7 tasks, one of them init; `irqs`: the keyboard's driver | every send returns, requests are answered, waits end, lines are handled |
| `delay_message` | part `delays` of `procman` | violation: "got message at this point" is not true |
| `wait_reply` | part `waits` of `procman` | violation: "got reply" is not true |
| `memory_mt` | part `pages` of `memory`, without the device page | violation: an alloc that fails leaves preemption off |
| `kernel_heap_grow` | part `heap` of `memory` | violation: a legal `kfree` panics |

Why the bounds are enough. Every send queues one message, so with three or four callers queues
reach the length where order and duplication show, and each caller makes its calls again and
again in any order. Two created tasks let an address space have a second thread, lose its first
and go with its last. Words of six to nine values make an unsigned counter wrap within the run.
The pages hold a list with allocated blocks on both sides of every kind of free block, three
fragments and a failing search. Three live blocks in a heap put a freed one between two others,
and the sizes asked for fit a block exactly, leave too little for a header, and leave enough. Two
programs in two spaces are what Isolated, in SpacesSound, compares; segments in whole pages, an empty one,
a hole and no program at all are the layouts the loader distinguishes. Four nodes give a
branch below a mounted node beside one that is not. Four typed characters fill the keyboard buffer of
four, wrap round in it, and hold two lines. Two screen lines of two columns scroll, and tell a newline from
a step to the right; a cursor two cells off the screen has passed both of its ends. A word of 16 values
(`HALF` is 8) has a least number and two digits in octal and decimal, wider than some of the widths and precisions and
narrower than the rest. Two commands show a reply taken for another's; the third fault adds none that two do not.

Bounds in guards: `MaxTask` (tasks ever created; no request for a thread is made, by `Room`, and none served
beyond it), `MaxDepth` (no_schedule may grow without bound in the code; the run stops
there), two levels of `mt` in `Scheduler`, `MaxLive` (blocks in use at once), `MaxThreads`,
`MaxForwards`, `MaxNode`, `TYPED`, `READS`, `FIRES`, `CALLS`, `HELD`, `LINE`, `FAULTS`, `DEPTH`, `BEHIND` (how far
off the screen a cursor is printed at) and `LETTERS` (letters on the screen when one more is printed).

Deadlock is checked in `messages` and `scheduler`. In the other runs the system may really stop:
programs die, the kernel crashes, memory is exhausted, a server hangs, all keys are typed, a format
ends.

### Fairness

- A task that is ready runs again: the scheduler goes round the list. This is what EverReady
  checks, and the weak fairness of SendReturn, of the process manager's statements, of the file
  server and of the programs of `FileApi` rests on it.
- A server's Receive and its answers are strongly fair: between them a server makes finitely many
  calls of its own, so the step it is on its way to is disabled now and then, but not for ever.
- The timer ticks for ever. In `Scheduler` its preempting tick is strongly fair, because the short
  stretches between `mt(false)` and `mt(true)` do not follow the clock; the process manager
  leaves each such stretch.
- One program never blocks. Without it the search for a ready task spins with interrupts
  off and no delay ends. In the system as shipped that program is `apps/init.cpp`.
- In `Stdin` the threads and the main thread are strongly fair: a thread that waits for a mutex
  finds it free again and again, and ticks fall at no fixed place in the holder's loop. The lock in
  `lib/include/mutex.h` is a loop of xchg and does not promise this by itself.
- In `Irqs` a handler goes on (weak); a task that was switched away from comes round, and a pending line
  gets through when the flag opens again and again (strong); the timer's line fires for ever.
- In `Packets` the stub reads what is there and the host reads, asks and waits out a silence (weak).
  Characters are lost a bounded number of times: the line errs, but not for ever. A program that was let go
  stops again some time (weak), which is the program's affair and not the stub's, and the host waits for it.

In the MC modules the fairness of a part is asked of its steps only. `liveness` states the strong
fairness of its parts together, a disjunction of one action of each: since a behaviour never
leaves its part, it is the fairness of each.

EveryCallReturns, in EveryWaitEnds, assumes that programs send well-formed buffers and that calls and forwards make
no cycle: the code does not help a server that calls its own client. EveryRequestAnswered is about
servers that do not die, because `kill` leaves the requests queued at a dead task unanswered.
TextGetsOut excepts a server that hangs on a read it cannot refuse. Served waits for the line to be
good.

### Disagreements between code and comments

Each of the first four has a run.

1. `core.cpp:230-232`: pcDelay replies before it puts its caller to sleep. The caller may by then
   sleep in `receive`, whose wait is overwritten; when the delay ends `receive` goes on without a
   message, against the comment at `messages.cpp:92`.
2. `core.cpp:238-239`: pcWaitDie sets the wait before its object. The scheduler may compare the
   object of an earlier wait, find it dead and ready the caller, whose `send` goes on without a
   reply, against the comment at `messages.cpp:64`.
3. `mm.cpp:55`: after a merge `alloc` calls itself and counts `mt(false)` twice, and `mt(true)` once
   or not at all. `task.cpp:244` panics on calls that do not match, but only in the other
   direction; preemption just stays off. The early returns of `free` do the same.
4. `kmalloc.cpp:74`: the new pages are linked behind what was the last block before `kmorecore` freed
   the reserved block; when that merged with the last block, the pages are out of the list, and a later
   free of them panics as "unallocated address".

The others, but for the last four, are predicates of their modules that no run lists; each fails in the module's
instance with the constants named.

5. `syscall.cpp:38`: interrupts are on before the stub reads the result, so `get_tid` may return
   another call's result (MyTid of `Syscall`; `hello.cpp:6` prints it as "my tid").
6. `kmalloc.cpp:45`: the process manager may be switched between finding and taking a block, and a
   system call gets the same one; the second free of it panics (NeverPanics in part `heap_shared` of `memory`, with no page to grow by).
7. `messages.cpp:168`: a forward without data keeps the pointer it deleted, and the next one deletes
   it again; `system.h:29` allows such a forward (ForwardsWithoutData of `Exchange`).
8. `messages.cpp:110, 122`: a server cannot refuse a read, since `reply` wants a buffer of the
   length the client asked for; it gets the request again and again, though `file.h:8` lists
   frCommandNotSupported for all commands (ServersAnswer of `FileApi`).
9. `api_file.cpp:45`: a refused resolve leaves the refusing server and number 0 in the File, and
   later calls use them (SendsFileId of `FileApi`).
10. `tty.cpp:224`: the shift codes are decoded before the prefix E0 and leave `escaped` set, so the fake
    shifts around arrows garble the next key (ArrowsTyped of `Keyboard`, FAKE TRUE).
11. `tty.cpp:332`: a full buffer leaves `kbd_mutex` locked, and reader and keyboard thread wait for
    each other (ReadsGetData of `Stdin`, TYPED above BUFFER).
12. `core.cpp:121, 126`: a segment that begins inside a page may reach one page further than mapped, and
    one longer in memory than in the file shows what lies behind the file
    (SegmentsInMemory and WithinFile of `AddressSpace`, with such Programs; WellLinked excludes the latter).
13. `gdb-stub.c:514, 556, 216`: a packet of one character is searched for a number, a late + is
    taken for the next reply's, and ESP is reported from the kernel's stack (NumberedWhenPresent
    of `Packets` with a numbered command before a plain one, Served of `Packets` with numbered
    commands and two characters lost, Reported of `GdbStub` with rings 0 and 3). A host that sets ESP of a
    ring 3 program moves the stub's stack pointer instead, and the program's is then sought
    where it points (`gdb-stub.c:811-829`, `150`): Misplaced of `GdbStub`, which TransparentStep excepts.
14. `handlers.cpp:296`: lines from 8 on end their interrupt at one controller, though `idt.h:31` says
    both need it; and `core.cpp:316` queues a message without waking the driver (Finished and
    WaitsForMessage of `Irqs`).
15. `vsprintf.cpp:144`: a star takes its argument but not its character, against the comment
    `vsprintf.cpp:143` (DirectiveRead of `Printf` with a star in Printed; PartsAssumption leaves stars out of the run and of the proof).

16. `task.cpp:56`: the scheduler's first instruction, its cli, runs with interrupts on (0x202 at
    `task.cpp:306`) after `scheduler_started` is set. A tick there jumps to the TSS that runs, which is busy, and
    faults before any task has run: the machine has to be started again. No comment
    denies it; SwitchesSound names it as the one fault there is.

17. `mm.cpp:36-37`: the free block begins at `reserved_pages + 1`, and is as many pages shorter as are reserved,
    though `main.cpp:81` passes the memory above them only. So the first page after the reserved ones and
    the last `reserved_pages - 1` of the machine are never given to anybody. EachPageInOne, in PagesSound, names
    them as the pages left out and says that there are no others. No comment
    denies it.

18. `tty.cpp:154-160`: nothing stops a backspace or a step to the left at the top left corner; the offset, a word,
    becomes 65535, and the blank goes to `lfb[65535]`. A program may print one at once, and the echo of
    standard input, which counts the characters of its own line, does it when the console is switched before the echo.
    `outside` and `crossed` of `Console` record it; OnScreen says that this and the last console's first
    offset (`tty.cpp:462`) are the only ways off the screen. No comment denies it.

19. `tty.cpp:386-397`: one sweep over the keyboard buffer stores what it finds, beyond the `reply_length` bytes that were
    allocated. The client gets the first `reply_length` (Fitting of `Stdin`); what the rest does to the terminal's heap is not
    modelled. No comment denies it.

Steps of the model that end in Crash or Stop without a finding, because no statement of the
repository denies them: waiting for a task that never existed (`core.cpp:236`), a merge whose last
block is free (`mm.cpp:109`), a heap that cannot grow while a split is marked
(`mm.cpp:63`, `stubs.cpp:35`), a system call's number past the table that holds another word than
NULL (`syscall.cpp:95`), a file whose segments leave a hole (`vmm.cpp:202`), a shared line
whose second driver's handler ends the first's service with two lines in use (`idt.h:20`).

## The proofs

The theorems hold for every value of the constants, under the modules' named assumptions only:
ConstantsAssumption (the boot tasks are tasks, the dead ones among them, calls and answers are
between tasks, NULL is no message), ProcManAssumption (tasks are numbers from 0 on, those at boot
come first, the process manager is one of them and makes no calls), SchedulerAssumption (the boot tasks
fit in the table, a delay in a word), MemoryAssumption (memory has pages beyond the reserved ones,
requests are positive, a program's foreign pages are among the reserved ones), PrintfAssumption (there is an
argument for every conversion), and PartsAssumption of
`MCScheduler`, `MCMemory` and `MCTerminal`, MachinesAssumption of `MCGdb` and TreeAssumption of `MCFiles`, the assumptions
of the modules those instantiate: no task is named like the kernel's or the scheduler's context, no server like
another place a message may be; the offset into a console is a word that reaches past the
consoles, keys have a code below 128 each, the programs that read are finitely many; memory has a byte, and a stack that
is pushed to has room. Of the files FileApiAssumption asks what the boot does: the file server, the process manager
and the servers that mount are different tasks, and each mounts at a path of its own that is not
`/modules`, with the number of its output (`tty.cpp:12`) or of one of its devices (`null.cpp:6-7`). Every
constant of those instances that a theorem is about is a constant of the MC module, so that the theorem says of
any number of tasks, drivers, programs, servers, consoles, keys, names and bytes what the run says of two or three.

`ProcManProofs`, first half. The safety properties of `messages` are not inductive one by one. A reply finds
its caller only because the head of a queue belongs to a task that awaits a reply
(OneRequestPerCall); a caller that wakes finds a reply only because it can be woken only by its
reply (GotReply, NoLostWakeup); and Continuations ties the half of the call a task sleeps in to
its wait reason. IInv is their conjunction with TypeOK and NeverCrashes. Each lemma
`...IInv` proves one action, and two lemmas about sequences, OnceAppend and OnceTail, carry the
part about queues. From InductiveInvariant follow TypeCorrect, RequestsKept, WakeupsKept,
CommentsHold, NoCrash and RequestHeld (an action property: an append leaves the head of a queue that
is not empty, and Continuations says the queue of a server at work is not). CommentsHold matters
together with the two violation runs: the message system alone keeps its comments' word, and it
is the process manager's direct writes that break it.

Refinement: every step maps to a step of `Rpc` or leaves its variables alone; a receive and
a refused call are stutters. All this takes from IInv is CallsInv, the part of it that says nothing of
waits. Refinement is the run's property ImplementsRpc for any set of tasks.

`ProcManProofs`, second half. The process manager breaks IInv: it writes the waits of its callers, and the kernel
may then follow a deleted message. What survives is CallsInv, whose lemmas `...KeepsCalls` are proved
for every caller of a system call. PmInv adds to it what ties the process manager to the callers:

- Indexed: the tasks are the indices below next_index, and what is above has never run.
- AtWork: from its receive to its reply the request at the head of its queue is the one in msg; the
  sender is not dead when its command is carried out or its delay written; the thread it creates
  is paused until it is made ready, and in the sender's space.
- Deaths: a dead task awaits nothing, but for the reply to its own pcDie. This is why nobody is killed
  between a request and its late assignments: a task dies by its own request only.
- WaitsKept: once a wait is answered, the task it names is dead, or its caller still sleeps for it.
- ThreadsCounted itself, which the other parts make inductive.

The steps of the programs, the clock and the scheduler are alike to the process manager: they kill
nobody and create nobody (Tame) and leave its request in front (Apart), and ApartKeeps proves all of
PmInv for such a step at once. The process manager's steps and exec have one lemma each. From
PmInvariant follow PmTypesKept (a count never falls below zero), ThreadsCountedAlways,
RequestsSurvive, the action properties DeadStayDead and WaitDieTrue, and ProcManRefinement:
ImplementsRpc holds with deaths, new tasks and a kernel that may stop. NoLostWakeup and NeverCrashes
are not among them, since they do not hold (see the disagreements). What holds instead is
LifeAlwaysSound, with the history of `Sleepers`: Steady is what Continuations, NoLostWakeup, GotReply
and GotMessage say of one task, and a step of anybody keeps it for every task that it does not put
to a delay or a wait itself (NextSteady). So a program that delays itself breaks nobody's calls but its
own, and the kernel stops only in a call of such a program, or at a wait for nobody (NextCrash).

`MCSchedulerProofs`, the task manager. While no_schedule is positive the process manager runs, and only the scheduler's
way out, which clears scheduler_running, leads back to a task. From this invariant follow
TimerStaysAlive and MtHoldsAlways. TypesKept says that a delay counted down past zero is an unsigned
int again; with it, RunsReadyOnly needs no strengthening: the search picks a ready program,
and the timer and the process manager change the wait of sleepers only. TasksAlwaysSound is the three
together, the run's TasksSound.

The list is a circle of `next` pointers, and what Nth says, the task that so many steps lead to, is a
recursion over them. The prover takes no induction over data from its library, so `Induction`
proves it anew as facts about sets: from the least element of a set of naturals (LeastNatural) a set
with 0 and with every successor holds all of them (Induct, UpTo). IterateExists and IteratesAgree use
it to say that the walk exists and is the only one, NthWalks unfolds it, and MetOnce says that a walk
that comes round meets nobody twice. RingAlwaysClosed follows: a task that is linked in between
the last one and the head (CreateRing) lengthens the walk by one, and no other action touches the list
(StillRing). SearchAlwaysEnds draws the conclusion for the scheduler's search.

`MCMemoryProofs`, the pages. The lemmas are about any list of blocks that tiles memory (Chain): Given and
Open are its allocated blocks and its free pages. MarkUsed, MarkFree and SplitUsed say what each step of
the code does to the two; MergeSound unfolds the fold in merge, block by block with UpTo, into lists that
are merged so far (Merged). Tiled, the inductive invariant, is PagesSound in these words: Given is
exactly what callers and the heap hold, no two of them the same page, and free_pages the size of Open. It needs
all its parts at once. A freed address is found only because what is held is in the list, and
device memory, freed with the space it was attached to, is refused only because no block begins among the reserved
pages; the counter is right only because no page is in two blocks (OneBlock). The case worth a proof is AllocGrows:
the heap asks for a page while a split is under way, and the list may be merged and cut before
the split goes on. SoundGrow proves it as what it amounts to: the whole block is given (it is marked), the heap takes
a page of what is left, and then the rest of the block is given back. With the mark set later the
proof fails, as the run does. From Tiled follow MemoryAlwaysSound and the action property
NullNeverHidesARun: a merged list has no free neighbours, so a run of free pages lies in one block
(RunInBlock), and that one the second search would have found.

`SwitchingProofs`. The invariant has two halves. While the table is built (Building), it knows only
that the kernel's slot is the last one, busy once the task register is loaded from it. Once it is
built (Built), the slot the task register points to is busy and names the TSS of whoever runs, the
other one is free and, if it is the scheduler's, names it; who runs is the kernel on its way, the
scheduler, or the task in current. Away says of every context that is not running that it is where
it was left, and that the scheduler's has interrupts off past its first instruction. Before it a tick may
find the scheduler running, whose slot is busy: Begun says that no task has run by then, and Stopped what
is left after the fault. JumpGoes follows one far jump
through the two slots, and IntoScheduler and SchedulerStep use it for the two directions.
The theorems hold for every set of tasks.

`MCSchedulerProofs`, the parts of the run. A behaviour of the whole run is one of each of its parts (PartsStep, TssSpec), so that what
`SwitchingProofs` shows of the switches becomes SwitchesAlwaysSound and OwnContextKept of the run. For the
traps, Carried follows a call's result from its register to the global word and back. For the lines, LinesInv
says what can lie on the stacks: the keyboard's handler before its cli with the timer's over it, or one
of the two alone (Nested); a task that was switched away from has the timer's finished on top (Left); the timer
is in service exactly while the current task's handler has not ended it, and the keyboard's line while some
task's handler has not. Only all of it together is inductive: the end of
interrupt names no line, and ends the keyboard's only because its handler, by then, has nothing of the
timer's in service above it, which depends on where every other task was left. StackStep
proves LinesInv for any step on the current stack; each handler's step has one lemma. EntriesAlwaysSound is about any number of
drivers that share the keyboard's line. With two lines in use EndsItsOwn does not hold (see the end of the disagreements).

`MCMemoryProofs`, the buffers. XInv says of the kernel's copy, and of the buffer of the server that has the request,
that each begins with the client's bytes as far as the shortest buffer on the way reaches, and with
all of them while no loss was told (Begins). CopiedBegins is what a copy of the shorter length does. RInv has the
types and the way back: the kernel's reply buffer is blank until it is answered, and then begins
with the answer (Answered), which the client still has after it returned. BuffersAlwaysSound follows for
buffers of any length and any number of servers and forwards.

MallocAlwaysSound, in the same module, begins with lists of blocks as such, for any size of a header (List): blocks that
share no byte (Well) are looked at byte by byte (Holds), since the list is in the order of cuts, not of
addresses. ReplacedKeeps says that a run of blocks may be replaced by any others over the same bytes;
a cut, a mark, a merge and a growth are cases of it (CutKeeps, MarkedKeeps, AbsorbedKeeps, FreedKeeps,
AppendedKeeps), each with what it does to the blocks in use and to free neighbours.
MergedBut names the places where two free neighbours may still meet: freeing a block opens two of
them, and the two merges close one each. UInv is then two invariants: UTiled, that the blocks are
the memory, byte for byte, which any number of threads keep, even one that takes a block which another cut or gave back in the
meantime; and UOne, for a program with one thread, that a block it has found is still free, that the
blocks in use are those it holds, each once, and that no free neighbours meet. A growth that has no
room for its two headers ends in the state corrupt, of which nothing is said: `malloc.cpp:51` asks for pages for the size alone.

HeapAlwaysSound, about the kernel's heap, uses the same lemmas. KBase, which every step keeps in both parts, is
that blocks share no byte, reach out of no page the heap got (KTiled), and fill these pages while no
growth was lost. It holds even for PmTakes, which writes to a block
chosen long before: the step either finds the block in the list, large enough for its writes, or corrupts the list, and
then nothing is said. KAlone, for one caller at a time, adds that no two free neighbours meet and, while the kernel is up
and no growth was lost, that the blocks in use are those of the callers, the
descriptors of the memory manager and the reserve, each held by one (KOwned). The case worth a proof is a growth: releasing the reserve and the
memory manager's deletions are a recursive function of the order, kept step by step with Induct
(DeletingKeeps); the descriptor is then cut from what these released (SplitKeeps); and the new blocks are put behind the
block that was last before all of it (LinkedKeeps), which is last still, or the growth is lost, since blocks behind it would
have come from cutting it, or it was merged away. EnoughPages says that the pages taken hold both new headers,
unlike in malloc. A growth that finds no room for the descriptor or for the next reserve stops the kernel (Again).

SpacesAlwaysSound is about any number of address spaces. While a space is built (HasSpace) Upheld says of its list that it
tiles the user's part and of its table that it maps exactly the allocated blocks (Maps); that each of them is backed by pages
of the program's file, by pages taken for this block, or by a device's page (Backed); that every page taken for a
block is behind one, which is why the destructor misses none; and that there are as many pages for tables as
tables. Before it is built, and once its last thread has died, it has nothing (Bare). TakenKeeps of the heaps has its counterpart in
PartTakenKeeps: cutting a block leaves the others apart, in order and without a gap, also where `alloc_at` links an
empty rest. MapBlockKeeps is the step all of loading, stacks, growth and attached memory come down to:
it either stops the kernel for want of a page or maps a block and keeps Upheld. Spares is what a step for one space must not touch,
and with it OtherWhole carries the rest over. Two facts are about counting: no more free pages are taken than tables are
needed (LeastAre), and the tables a block adds are none of those that were there (TablesBecome). Programs are assumed to be WellLinked: `load_elf` maps
the pages behind a segment unseen, so that a segment larger than its file would map another program's pages (disagreement 12).

`MCTerminalProofs`, the screen. ScreenInv has four parts. MutexInv ties the place of each thread to the lock, so that at most
one of them is between two statements of a character. CursorInv bounds every cursor: the ones that may be off the
screen are Astray, the last console's and those that were moved back over the top left corner; any other stands behind
its end just until the thread that put it there scrolls, which is why it is Size exactly when the test for scrolling asks
for that, and why no newline skips it. PictureInv says that the
saved pictures, with the screen's in place of the current console's, are what was printed, also at the three
points of a switch at which screen and `data` disagree. ScreenAlwaysSound
follows for any number of consoles, lines, columns and printing threads.

The keyboard's invariant, KeysInv, is about the bytes on their way, since a key is
pressed long before its byte is decoded. FlagsAt says which modifiers will be taken to be held once the bytes in front of one are
decoded; MeaningInv says that every byte then means what its key meant when it was pressed, and HeldInv that the flags, with
all bytes decoded, tell the modifiers that have moved. FlagsFirst, FlagsNext and FlagsRest relate FlagsAt of a line to that of a longer
one and of its tail, so that a press, a release and a decoding are one lemma each. Only
FlagsTrue needs that a prefix is followed by its code at once (PrefixesPaired).

Of the readers ReadersInv holds for reads of any lengths. LinksInv says that main links each program once and to the
thread it starts next, BornInv that exactly the threads up to that one are there, which together are
NotOrphaned: nobody is sent to a thread that is not in its loop or about to be. HoldersInv has the two locks and that who holds one has found
data; LinesInv that the line being gathered holds no backspace. Where programs read single
characters, OrderInv says that what was delivered, what a reader holds and what is in the buffer, one behind the other, is what was typed, in order, and that
nothing is missing unless the buffer has been full. ReadersAlwaysSound is for any number of programs
and any size of the buffer.

`MCGdbProofs` is about any machine m: the lemmas take the rings, vectors, addresses and bytes from it, and serve
both parts. RaiseSaves computes what an exception pushes in either ring and what the stub saves of
it, and Restored that the way out is its inverse unless the host has moved the stub's stack pointer of a program of ring 3,
which is why StoppedInv, that registers hold what the
host wants the program to have, and of ring 3 the kernel's stack its stack pointer, is enough for TransparentStep. GoingInv has the trace bit: it is set exactly while one instruction
is owed. AccessInv follows a memory command byte by byte; its clause that the handler is armed just while the
command has met no fault gives StopsSound, and with the bytes that are through it gives MemoryAsAskedStep.

`MCFilesProofs`. Shaped(tree, P, N, V, M) says that a tree of N nodes has one path P for each: a child has a larger number than its
parent and the parent's path with its name behind (Linked), every node but the root is some node's child and just once (Owned,
Once), and no two nodes have the same path (Apart). That is IsTree said of paths (ShapedIsTree),
and P is what PathsOf computes (PathsAre): PathsOf, the walk of resolve and that of create are recursive functions, and for each the
module proves that a solution of its equation exists (WalkExists, MakeExists, PathsSolve) before anything can be said of it.
For resolve, WalkLeads says that after n pieces the walk is at the node of the first n, or that no node has
that path, and DepthIs that it ends at the longest known beginning of the path. For create, MadeGrown says that the tree grows
by one node for each unknown beginning, in order, and that nobody else's path, number or mount changes (Grown). A
mount changes one node that was found (MountKeeps). StrippedIs says that every text that begins with a slash is cut into pieces of which
the first is empty, which is the root's name. TreesAlwaysSound follows for any names, lengths and numbers of nodes.

ServerAlwaysMaps is the refinement: KnownOf, NumberOf and MountsOf are what the map shows of a tree; CreateMapped, ResolveMapped and
MountMapped say what each request does to them in the words of FileMap, whose AboveIn, the longest known prefix, is
the end of the walk (LongestKnown).

ApiState adds what the programs keep. FileOk says that a File whose last create or resolve succeeded at the
file server has the number of its own path, and that a mounter it names is mounted on that path or above; both
hold for good only because paths are never given up and mounts never undone (LaterFile). MountOk says that nobody is mounted but the process
manager at `/modules` and the servers that got as far as to serve, each at its own path. So a server that creates its path
finds it, and finds nothing mounted there: MainOk, that no server fails, is not inductive without it, nor without the assumption that
no two mount at one path. From these follows FilesAlwaysSound.

Formatted output, again in `MCTerminalProofs`. FormatsInv has two halves that do not need each other. Every field written is a GoodField:
its paddings make up for what is left of its width, on one side only, and its value and sign are its argument (NumberGood,
TextGood). The sum is that of `number`, where size may be below zero when the loops begin (RoomIs); the least
word is its own negative, and read as an unsigned word it is its magnitude all the same (Negated). And the place of the reading is known: TakenInv, that no more arguments are taken
than there are conversions behind a percent sign so far, is why no argument is read that was not passed, and ShapeInv
that in a format which is one directive each part is read where it stands (Aligned). How many digits a number has and what a
numeral spells are recursive functions, whose equations are solved first (DigitsExist, ValueExists); that a numeral is read
to its end is AtoiIs. ShapeOf says that every directive of the reference has these parts. FormatsAlwaysSound follows for any
formats without a star, any arguments enough for them and any number of words.

Only model-checked: the packets
of the debugger's stub (PacketsSound), which is not true of any number of faults: enough of them make a wrong checksum
match; the bound on faults of the run is part of what it says. All liveness stays with TLC, TextGetsOut, Served and what the parts of EverReady
and EveryWaitEnds say among it, since the proof system does not reason about fairness and ENABLED.

## The plan

In this order; all but the last are done.

1. `Messages` with `Rpc`: the core of everything; proofs of safety and refinement.
2. `ProcMan`: the races of the process manager.
3. `Scheduler`, and `Switching` under it.
4. `MemoryManager`; `KHeap` over it, the process manager interrupted inside it.
5. `AddressSpace`: the blocks of a space, its tables and its destructor.
6. `FileTree`, the server's nodes and mounts, against `FileMap`; `FileApi` over it.
7. `Console`, `Keyboard`, `Stdin`: the terminal.
8. `Syscall`, `Exchange`, `Irqs`: the ways into the kernel and what they carry.
9. `UserHeap` and `Printf`: what every program links.
10. `Packets`, `GdbStub`: the debugger's stub.
11. Proofs about what the runs of 1 to 4, 8 and the heap of 9 check.
12. Proofs about the address spaces of 5.
13. Proofs about the files of 6, the terminal of 7, formatted output and the exceptions and memory commands of 10.
14. Left: proofs about the packets under a bound on their faults.

## Not modelled

Boot is straight-line set-up but for the descriptor table and the task register, which
`Switching` has; the process manager's own address space is built then, once. `kprintf.cpp` and
`backtrace.cpp` print and read, and nothing depends on them. `system_fs.cpp` answers with texts and
the tick count; the tick count of `clock.cpp` is read by nobody else. `init.cpp`, `slsh.cpp` and the
samples are sequential programs: what they call is the Calls of the runs, and the shell's exec and
wait is part `waits`. The string and memory functions are loops over bytes without a state, the
lists of `list.h` are sequences here, and the lock of `mutex.h` is one step that a second caller
waits for. Of the library only what waits or keeps state is modelled (printf's and getch's wait for their
file, malloc); its other calls fill in a message. The commands of the process manager for the
modules file server, I/O privileges and memory are one step that answers in `ProcMan`, and are
modelled by what they do where their effect matters (`AddressSpace`, `UserHeap`, `Irqs`, `FileApi`).
The debugger's stub is built only with `_ENABLE_GDB_STUB_`. `elf.h`, `stdint.h` and the like hold
declarations.
