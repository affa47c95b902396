----------------------------- MODULE MCLiveness -----------------------------
(***************************************************************************)
(* What must happen in the end, under the fairness each module states.  A  *)
(* part of the run is one component; the parts share no state, and the     *)
(* fairness of one is asked of its own steps only.                         *)
(*   calls:   two clients, the file system server, the terminal with its   *)
(*            input thread and the process manager; no forward is refused  *)
(*   procman: a server, a task that waits for another, one that sleeps and *)
(*            dies, and init, which never blocks                           *)
(*   irqs:    the keyboard's driver                                        *)
(* The liveness of the other components is in their own runs.              *)
(***************************************************************************)
EXTENDS Integers, Sequences

CONSTANT NULL

VARIABLES
  part,
  tasks, wait_reason, messages, reply, syscall, serving, crashed,       \* of Messages
  wait_object, next_index, vmm, threads, fs_server_tid, pc, msg, thread, \* of ProcMan
  imr, irr, isr, stack, i_current, IRQs, i_messages, waiting, fired, called \* of Irqs

pmVars == <<tasks, wait_reason, messages, reply, syscall, serving, crashed,
            wait_object, next_index, vmm, threads, fs_server_tid, pc, msg, thread>>
irqVars == <<imr, irr, isr, stack, i_current, IRQs, i_messages, waiting, fired, called>>
allVars == <<part, pmVars, irqVars>>

-----------------------------------------------------------------------------
Request(s, d, p) == [from |-> s, to |-> d, payload |-> p]

\* Tasks 4 and 5 are clients, 3 is the file system server, 6 the terminal, 1 its
\* input thread, 2 the process manager and 0 the kernel, which is dead.
Plain == [type |-> "prOk", value |-> 0]
Ipc == INSTANCE Messages WITH
  Task <- 0..6, Boot <- 0..6, DeadAtBoot <- {0}, Servers <- {1, 2, 3, 6}, Payload <- {Plain},
  Calls <- {Request(4, 3, Plain), Request(5, 3, Plain), Request(5, 6, Plain),
            Request(6, 2, Plain), Request(4, 0, Plain)},
  Relays <- {Request(3, 6, Plain), Request(6, 1, Plain)},
  Answers <- [from : {1, 2, 3, 6}, payload : {Plain}], Malformed <- {}, NULL <- NULL

Command(from, type, value) == Request(from, 2, [type |-> type, value |-> value])
Pm == INSTANCE ProcMan WITH
  PROCMAN <- 2, MaxTask <- 6, Word <- 7, Launchers <- {}, Task <- 0..6, Boot <- 0..6,
  Payload <- [type : {"pcDie", "pcSetRootFS", "pcGetRootFS", "pcStartThread", "pcDelay",
                      "pcWaitDie", "pcMorecore", "prOk"}, value : 0..6],
  DeadAtBoot <- {0, 1}, Servers <- {3},
  Calls <- {Request(4, 3, [type |-> "pcMorecore", value |-> 0]), Command(4, "pcWaitDie", 5),
            Command(5, "pcDelay", 2), Command(5, "pcDie", 0)},
  Relays <- {}, Answers <- {[from |-> 3, payload |-> Plain]},
  Malformed <- {}, NULL <- NULL

Lined == INSTANCE Irqs WITH
  Driver <- {"d1"}, Wants <- [d \in {"d1"} |-> {1}], FIRES <- 3, CALLS <- 1,
  current <- i_current, messages <- i_messages

ASSUME Ipc!ConstantsAssumption /\ Pm!ProcManAssumption /\ Lined!IrqsAssumption

-----------------------------------------------------------------------------
\* In part "calls" nothing uses the variables that ProcMan adds.
AllInit ==
  /\ part \in {"calls", "procman", "irqs"}
  /\ IF part = "calls" THEN Ipc!IpcInit /\ Pm!AtRest ELSE Pm!PmInit
  /\ Lined!Init

\* A step of one part leaves what the others use alone.
rest == <<wait_object, next_index, vmm, threads, fs_server_tid, pc, msg, thread>>
OfCalls(A) == part = "calls" /\ A /\ UNCHANGED <<part, rest, irqVars>>
OfProcman(A) == part = "procman" /\ A /\ UNCHANGED <<part, irqVars>>
OfIrqs(A) == part = "irqs" /\ A /\ UNCHANGED <<part, pmVars>>

AllNext == OfCalls(Ipc!IpcNext) \/ OfProcman(Pm!Next) \/ OfIrqs(Lined!Next)

-----------------------------------------------------------------------------
(* The weak fairness of each module *)

CallsFair == \A t \in {4, 5, 6} : WF_allVars(OfCalls(Ipc!SendReturn(t)))

ProcmanFair == /\ WF_allVars(OfProcman(Pm!PmStep)) /\ WF_allVars(OfProcman(Pm!Tick))
               /\ \A t \in 0..6 : /\ WF_allVars(OfProcman(Pm!SendReturn(t) /\ UNCHANGED rest))
                                 /\ WF_allVars(OfProcman(Pm!SchedulerWake(t)))

IrqsFair == WF_allVars(OfIrqs(Lined!Closed)) /\ WF_allVars(OfIrqs(Lined!Fire(0)))

(* The strong fairness of each module.  Every part needs its own steps only, so that
   fairness of a disjunction with one action of each part is fairness of each. *)
Driver == <<"d1", "init">>
Serving == <<1, 2, 3, 6>>
Strong(i) ==
  \/ i \in 1..4 /\ OfCalls(Ipc!Receive(Serving[i]))
  \/ i \in 5..8 /\ OfCalls(Ipc!AnswerSteps(Serving[i - 4]))
  \/ i = 1 /\ OfProcman(Pm!Receive(3) /\ UNCHANGED rest)
  \/ i = 2 /\ OfProcman(Pm!AnswerSteps(3) /\ UNCHANGED rest)
  \/ i \in 1..2 /\ OfIrqs(i_current = Driver[i] /\ Lined!Cli)
  \/ i \in 3..4 /\ OfIrqs(Lined!Accept(i - 3))
  \/ i \in 5..6 /\ OfIrqs(Lined!Switch /\ i_current' = Driver[i - 4])

AllSpec == /\ AllInit /\ [][AllNext]_allVars
           /\ CallsFair /\ ProcmanFair /\ IrqsFair
           /\ \A i \in 1..8 : SF_allVars(Strong(i))

-----------------------------------------------------------------------------
\* Every send returns, when no program sends malformed buffers and calls and
\* forwards form no cycle (messages.cpp:56-64, 136-137); every request to the process
\* manager, and to any server, is answered while delays and deaths come in between
\* (core.cpp:164-292); and a delay ends, and a wait for a task that is dead
\* (task.cpp:40-43, 62-74).
EveryWaitEnds ==
  /\ (part = "calls") => Ipc!EveryCallReturns
  /\ (part = "procman") => Pm!EveryRequestAnswered /\ Pm!EveryWaitEnds

\* A line below 8 that fires is handled, whatever is in service (idt.h:16-27).
LowServed == (part = "irqs") => Lined!LowServed
=============================================================================
