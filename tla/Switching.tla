------------------------------ MODULE Switching ------------------------------
(***************************************************************************)
(* How the processor goes from one task to another, hal/gdt.cpp, main.cpp   *)
(* and task.cpp: the descriptor table as it is built, the two TSS slots it  *)
(* ends in, and the far jumps through them, with the processor's own rules  *)
(* (external): a jump leaves the context where the task register was loaded *)
(* from, and faults unless its target is there and not busy.                *)
(***************************************************************************)
EXTENDS Integers, Sequences, FiniteSets

CONSTANT Task    \* tasks of the system, all created

SwitchingAssumption == Task # {} /\ Task \cap {"kernel", "scheduler", "none"} = {}

\* A context: whose it is, where it is, whether interrupts are on, and how far
\* a task has got, modulo LAPS.
LAPS == 2
Owner == Task \cup {"kernel", "scheduler"}
Place == {"gdt", "core", "start", "halt", "wrapper", "loop", "program"}
Context == [whose : Owner, at : Place, if : BOOLEAN, lap : 0..(LAPS - 1)]

None == "none"
Descriptor == [kind : {"null", "code", "data", "tss"}, dpl : {0, 3},
               tss : Owner \cup {None}, busy : BOOLEAN]

VARIABLES
  gdt,               \* the descriptors, in order
  limit, installed,  \* what the processor knows of the table
  tr, cached,        \* the task register: its slot, and the TSS it was loaded from
  ctx,               \* the processor
  tss,               \* the contexts put away
  current, ready, scheduler_running, scheduler_started,
  left,              \* history: contexts as they were left
  faulted            \* history: a jump has faulted

vars == <<gdt, limit, installed, tr, cached, ctx, tss, current, ready,
          scheduler_running, scheduler_started, left, faulted>>
bootVars == <<limit, installed>>
schedVars == <<current, ready, scheduler_running, scheduler_started>>

-----------------------------------------------------------------------------
(* The table *)

Segment(kind, dpl) == [kind |-> kind, dpl |-> dpl, tss |-> None, busy |-> FALSE]
Tss(w) == [kind |-> "tss", dpl |-> 0, tss |-> w, busy |-> FALSE]

\* main.cpp and TaskManager add these, in this order.
Added == <<Segment("null", 0), Segment("code", 0), Segment("data", 0),
           Segment("code", 3), Segment("data", 3), Tss("kernel"), Tss("scheduler")>>

\* Slots are counted from 0, and the code has two of them for numbers.
APP == 5
SCHED == 6
SEGMENTS == 5

\* Faulty: a table in use is not installed again, or with one descriptor too many.
LimitKept(count) == limit
LimitOver(count) == IF installed THEN 8 * (count + 1) ELSE limit
LimitAfter(count) == IF installed THEN 8 * count ELSE limit

AddDescriptor ==
  /\ ctx.at = "gdt"
  /\ Len(gdt) < Len(Added) /\ (Len(gdt) = APP + 1 => tr = APP)
  /\ Len(gdt) = SEGMENTS => installed
  /\ gdt' = Append(gdt, Added[Len(gdt) + 1])
  /\ limit' = LimitAfter(Len(gdt) + 1)
  /\ ctx' = [ctx EXCEPT !.at = IF Len(gdt) = SCHED THEN "core" ELSE @]
  /\ UNCHANGED <<installed, tr, cached, tss, schedVars, left, faulted>>

Install ==
  /\ Len(gdt) = SEGMENTS /\ ~installed
  /\ limit' = 8 * Len(gdt) /\ installed' = TRUE
  /\ UNCHANGED <<gdt, tr, cached, ctx, tss, schedVars, left, faulted>>

\* ltr makes the descriptor busy.
LoadTr ==
  /\ Len(gdt) = APP + 1 /\ tr # APP
  /\ tr' = APP /\ cached' = gdt[APP + 1].tss
  /\ gdt' = [gdt EXCEPT ![APP + 1].busy = TRUE]
  /\ UNCHANGED <<bootVars, ctx, tss, schedVars, left, faulted>>

-----------------------------------------------------------------------------
(* Jumps *)

Allowed(table, slot) ==
  /\ 8 * slot + 7 <= limit /\ slot < Len(table)
  /\ table[slot + 1].kind = "tss" /\ ~table[slot + 1].busy

\* A far jump from the context here, over the table as it is by then.
Jump(table, slot, here) ==
  IF Allowed(table, slot)
  THEN LET to == table[slot + 1].tss
           put == [tss EXCEPT ![cached] = here]
       IN /\ gdt' = [[table EXCEPT ![tr + 1].busy = FALSE] EXCEPT ![slot + 1].busy = TRUE]
          /\ tr' = slot /\ cached' = to
          /\ tss' = put /\ ctx' = put[to]
          /\ left' = [left EXCEPT ![here.whose] = here]
          /\ faulted' = FALSE
  ELSE /\ gdt' = table /\ faulted' = TRUE
       /\ ctx' = [here EXCEPT !.at = "halt", !.if = FALSE]
       /\ UNCHANGED <<tr, cached, tss, left>>

\* Faulty: the slot keeps the descriptor of the first task put there.
SlotKept(t) == IF gdt[APP + 1].tss = "kernel" THEN [gdt EXCEPT ![APP + 1] = Tss(t)] ELSE gdt
SlotOf(t) == [gdt EXCEPT ![APP + 1] = Tss(t)]

\* main.cpp: interrupts on, the timer unmasked.
Sti ==
  /\ ctx.at = "core"
  /\ ctx' = [ctx EXCEPT !.at = "start", !.if = TRUE]
  /\ UNCHANGED <<gdt, bootVars, tr, cached, tss, schedVars, left, faulted>>

\* TaskManager::start.
Starting ==
  /\ ctx.at = "start" /\ ~scheduler_started
  /\ scheduler_started' = TRUE
  /\ UNCHANGED <<gdt, bootVars, tr, cached, ctx, tss, current, ready, scheduler_running,
                 left, faulted>>
Start ==
  /\ ctx.at = "start" /\ scheduler_started
  /\ Jump(gdt, SCHED, [ctx EXCEPT !.at = "halt"])
  /\ UNCHANGED <<bootVars, schedVars>>

\* scheduler_wrapper turns interrupts off for good.
Wrapper ==
  /\ ctx.at = "wrapper"
  /\ ctx' = [ctx EXCEPT !.at = "loop", !.if = FALSE]
  /\ UNCHANGED <<gdt, bootVars, tr, cached, tss, schedVars, left, faulted>>

\* scheduler and run_task: which ready task it is, module Scheduler says.
Run ==
  /\ ctx.at = "loop"
  /\ \E t \in Task :
       /\ ready[t]
       /\ current' = t
       /\ Jump(SlotOf(t), APP, ctx)
  /\ scheduler_running' = FALSE
  /\ UNCHANGED <<bootVars, ready, scheduler_started>>

-----------------------------------------------------------------------------
(* Tasks *)

Work ==
  /\ ctx.at = "program"
  /\ ctx' = [ctx EXCEPT !.lap = (@ + 1) % LAPS]
  /\ UNCHANGED <<gdt, bootVars, tr, cached, tss, schedVars, left, faulted>>

\* A system call, with interrupts off: the task waits, and current is who it is.
\* Some other task is ready: the clock does not go on with none.
Block ==
  /\ ctx.at = "program" /\ \E t \in Task \ {current} : ready[t]
  /\ ready' = [ready EXCEPT ![current] = FALSE]
  /\ Jump(gdt, SCHED, ctx)
  /\ UNCHANGED <<bootVars, current, scheduler_running, scheduler_started>>

\* A task's system call makes another ready.
Wake ==
  /\ ctx.at = "program"
  /\ \E t \in Task : ~ready[t] /\ ready' = [ready EXCEPT ![t] = TRUE]
  /\ UNCHANGED <<gdt, bootVars, tr, cached, ctx, tss, current, scheduler_running,
                 scheduler_started, left, faulted>>

\* A tick under mt(false) does nothing here: module Scheduler has those.
Switches == ~scheduler_running /\ scheduler_started

\* Whoever has interrupts on: the scheduler too, before its cli.
Tick ==
  /\ ctx.if
  /\ IF Switches
     THEN /\ scheduler_running' = TRUE
          /\ Jump(gdt, SCHED, ctx)
     ELSE UNCHANGED <<gdt, tr, cached, ctx, tss, left, faulted, scheduler_running>>
  /\ UNCHANGED <<bootVars, current, ready, scheduler_started>>

\* The fault's handler shows it and never returns.
Halted == faulted /\ UNCHANGED vars

Fresh(w) ==
  [whose |-> w, lap |-> 0, if |-> TRUE,
   at |-> IF w = "scheduler" THEN "wrapper" ELSE IF w = "kernel" THEN "halt" ELSE "program"]

Init ==
  /\ gdt = <<>> /\ limit = 0 /\ installed = FALSE /\ tr = -1 /\ cached = None
  /\ ctx = [whose |-> "kernel", at |-> "gdt", if |-> FALSE, lap |-> 0]
  /\ tss = [w \in Owner |-> Fresh(w)] /\ left = tss
  /\ current = "kernel" /\ ready = [t \in Task |-> TRUE]
  /\ scheduler_running = FALSE /\ scheduler_started = FALSE /\ faulted = FALSE

Next == \/ AddDescriptor \/ Install \/ LoadTr \/ Sti \/ Starting \/ Start
        \/ Wrapper \/ Run \/ Work \/ Block \/ Wake \/ Tick \/ Halted

Spec == Init /\ [][Next]_vars

-----------------------------------------------------------------------------
(* Properties *)

TypeOK ==
  /\ gdt \in Seq(Descriptor) /\ limit \in 0..(8 * Len(Added)) /\ tr \in -1..SCHED
  /\ cached \in Owner \cup {None} /\ ctx \in Context
  /\ tss \in [Owner -> Context] /\ left \in [Owner -> Context]
  /\ current \in Owner /\ ready \in [Task -> BOOLEAN]

\* The numbers the code jumps to are slots of TSSs, the table is long enough for
\* them, and none of them is busy (task.cpp:249, 335, 351): the one jump that
\* faults is the timer's out of the scheduler, before its cli and before any task
\* has run (task.cpp:56-58, 251, 306).
FaultsAtFirst == faulted => ctx.whose = "scheduler" /\ current = "kernel"

\* The task the scheduler chooses goes on with the context it was left with, and so
\* does the scheduler, however tasks wait, wake and are interrupted in between
\* (task.cpp:332-336).
OwnContext ==
  [][ctx'.whose # ctx.whose =>
       ctx' = left[IF ctx.whose = "scheduler" THEN current' ELSE "scheduler"]]_vars

\* The kernel takes current for the caller of a system call: it is the task whose
\* context runs, and the slot names the TSS it will be left in (task.cpp:34-49).
CurrentRuns ==
  ctx.at = "program" => /\ current = ctx.whose /\ cached = ctx.whose
                        /\ tr = APP /\ gdt[APP + 1].tss = ctx.whose
=============================================================================
