---------------------------- MODULE MCScheduler -----------------------------
(***************************************************************************)
(* Who runs, and the ways into the kernel.  A part of the run is one       *)
(* component; the parts share no state, so that a behaviour of one of them *)
(* at a time is all there is to see.                                       *)
(*   tasks: the task manager, with the process manager, init and one       *)
(*          program at boot and room for one task more                     *)
(*   tss:   hardware task switches of three tasks that block, wake each    *)
(*          other and are interrupted in any order                         *)
(*   lines: the keyboard's line, which two drivers share                   *)
(*   trap:  the system calls of two programs; who else runs only stores    *)
(*          more often                                                     *)
(***************************************************************************)
EXTENDS Scheduler

CONSTANTS
  Runner,                                    \* tasks of tss
  Driver, FIRES, CALLS,                      \* of lines, with its bounds
  Program, Code, Unknown, Beyond, INVALID_SYSCALL    \* of trap

VARIABLES
  part,
  gdt, limit, installed, tr, cached, ctx, tss, t_current, ready, t_running,
  scheduler_started, left, faulted,                                     \* of Switching
  imr, irr, isr, stack, l_current, IRQs, messages, waiting, fired, called, \* of Irqs
  at, call, eax, word, returned, overtaken                              \* of Syscall

tssVars == <<gdt, limit, installed, tr, cached, ctx, tss, t_current, ready, t_running,
             scheduler_started, left, faulted>>
lineVars == <<imr, irr, isr, stack, l_current, IRQs, messages, waiting, fired, called>>
trapVars == <<at, call, eax, word, returned, overtaken>>
allVars == <<part, vars, tssVars, lineVars, trapVars>>

Tss == INSTANCE Switching WITH
  Task <- Runner, current <- t_current, scheduler_running <- t_running

\* The system as it comes has one driver, the keyboard's; others share its line.
KEYBOARD == 1
Lines == INSTANCE Irqs WITH
  Wants <- [d \in Driver |-> {KEYBOARD}], current <- l_current

\* The message codes are 0, 1 and 2 as in messages.h.
Trap == INSTANCE Syscall WITH Task <- Program

PartsAssumption == Tss!SwitchingAssumption /\ Lines!IrqsAssumption
ASSUME PartsAssumption

-----------------------------------------------------------------------------
AllInit == /\ part \in {"tasks", "tss", "lines", "trap"}
           /\ Init /\ Tss!Init /\ Lines!Init /\ Trap!Init

AllNext == /\ \/ part = "tasks" /\ Next /\ UNCHANGED <<tssVars, lineVars, trapVars>>
              \/ part = "tss" /\ Tss!Next /\ UNCHANGED <<vars, lineVars, trapVars>>
              \/ part = "lines" /\ Lines!Next /\ UNCHANGED <<vars, tssVars, trapVars>>
              \/ part = "trap" /\ Trap!Next /\ UNCHANGED <<vars, tssVars, lineVars>>
           /\ UNCHANGED part

\* The fairness of Scheduler, where its part runs.
OfTasks(A) == part = "tasks" /\ A /\ UNCHANGED <<part, tssVars, lineVars, trapVars>>
AllSpec == /\ AllInit /\ [][AllNext]_allVars
           /\ SF_allVars(OfTasks(Timer /\ MayPreempt))
           /\ WF_allVars(OfTasks(SchedulerCount \/ SchedulerPick))
           /\ WF_allVars(OfTasks(MtOn)) /\ SF_allVars(OfTasks(MtOn /\ no_schedule = 1))

-----------------------------------------------------------------------------
\* The numbers the code jumps to are slots of TSSs, the table is long enough for
\* them, and none of them is busy (task.cpp:249, 335, 351), but for one jump: a
\* tick may find the scheduler before its cli, and faults, always before any task
\* has run (task.cpp:56-58, 251, 306).  The kernel takes current for the caller of
\* a system call: it is the task whose context runs, and the slot names the TSS it
\* will be left in (task.cpp:34-49).
SwitchesSound == Tss!TypeOK /\ Tss!FaultsAtFirst /\ Tss!CurrentRuns

\* The task the scheduler chooses goes on with the context it was left with, and
\* so does the scheduler, however tasks wait, wake and are interrupted in between
\* (task.cpp:332-336).
OwnContext == Tss!OwnContext

\* However handlers nest and are switched away from, no line is handled twice at
\* a time, and the timer once a task; the end of interrupt, which names no line,
\* ends the line the handler is for (idt.h:16-27).  A program leaves the trap with
\* its own result unless another task stored one between its store and its load
\* (syscall.cpp:69-79).
EntriesSound == /\ Lines!TypeOK /\ Lines!OnceEach /\ Lines!EndsItsOwn
                /\ Trap!TypeOK /\ Trap!OwnResult

\* A ready task is run, whatever wakes, sleeps and creations happen meanwhile, and
\* a task that sleeps for a delay is made ready (task.cpp:34-49, 62-74).
EverReady == (part = "tasks") => ReadyRuns /\ SleepersWake
=============================================================================
