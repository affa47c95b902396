------------------------------ MODULE Scheduler ------------------------------
(***************************************************************************)
(* The task manager, hal/task.cpp: the circular task list, the round-robin *)
(* search of the scheduler task, the timer interrupt that preempts and     *)
(* counts delays, and the counter no_schedule that holds preemption off.   *)
(*                                                                         *)
(* Messages.tla and ProcMan.tla let any ready task take the next step; this *)
(* module is about which one does.  What the running task does to the wait *)
(* of others is reduced to the four things the kernel does: a system call  *)
(* blocks its caller or readies a sleeper, the process manager kills, puts *)
(* to sleep or creates.                                                    *)
(***************************************************************************)
EXTENDS Naturals, FiniteSets

CONSTANTS
  MaxTask,    \* bound of the runs: indices 0 .. MaxTask
  BootTasks,  \* how many tasks there are when the scheduler starts
  PROCMAN,    \* the task that runs process_manager
  Idle,       \* a program that never blocks (init); absent if not in Task
  Delays,     \* the delays programs ask for
  Word        \* an unsigned int holds 0 .. Word - 1

Task == 0..MaxTask

\* The kernel task and the scheduler's own have priority 0, all others 1.
Priority(t) == IF t \in {0, 1} THEN 0 ELSE 1

WaitReason == {"wrNone", "wrDead", "wrTaskDie", "wrDelay", "wrMessage",
               "wrPaused"}

ASSUME SchedulerAssumption ==
  /\ MaxTask \in Nat /\ BootTasks \in 3..(MaxTask + 1)
  /\ PROCMAN \in 2..(BootTasks - 1)
  /\ Word \in Nat /\ Word > MaxTask
  /\ Delays \subseteq 0..(Word - 1)

VARIABLES
  next,              \* Task::next of the tasks linked into the list
  next_index,        \* TaskManager::next_index: the indices below it are used
  current,           \* TaskManager::current
  wait_reason,       \* Task::wait_reason
  wait_object,       \* Task::wait_object
  ticks_remaining,   \* TaskManager::ticks_remaining
  no_schedule,       \* TaskManager::no_schedule
  scheduler_running, \* TaskManager::scheduler_running
  cpu                \* which hardware task runs: current's or the scheduler's

listVars == <<next, next_index>>
waitVars == <<wait_reason, wait_object>>
schedVars == <<current, ticks_remaining, no_schedule, scheduler_running, cpu>>
vars == <<listVars, waitVars, schedVars>>

Linked == 0..(next_index - 1)

\* The n-th task after current in the list.
Nth == [n \in 0..(MaxTask + 1) |->
          LET nth[k \in 0..n] == IF k = 0 THEN current ELSE next[nth[k - 1]]
          IN nth[n]]

-----------------------------------------------------------------------------
(* The running task *)

Executing == cpu = "task"

\* A system call that has to wait gives the processor away.  Nothing in the
\* kernel blocks between mt(false) and mt(true).
Block == /\ Executing
         /\ no_schedule = 0
         /\ current # Idle
         /\ wait_reason' = [wait_reason EXCEPT ![current] = "wrMessage"]
         /\ cpu' = "scheduler"
         /\ UNCHANGED <<listVars, wait_object, current, ticks_remaining,
                        no_schedule, scheduler_running>>

\* Send, reply or forward makes a sleeping task ready.
Wake(t) == /\ Executing
           /\ wait_reason[t] = "wrMessage"
           /\ wait_reason' = [wait_reason EXCEPT ![t] = "wrNone"]
           /\ UNCHANGED <<listVars, wait_object, schedVars>>

\* create_task links the new task behind the running one.  Faulty: the running
\* one is not linked to it.
LinkedHalf == [next EXCEPT ![next_index] = next[current]]
LinkedNew == [next EXCEPT ![next_index] = next[current],
                          ![current] = next_index]

CreateTask == /\ Executing
              /\ next_index <= MaxTask
              /\ next' = LinkedNew
              /\ next_index' = next_index + 1
              /\ wait_reason' = [wait_reason EXCEPT ![next_index] = "wrNone"]
              /\ UNCHANGED <<wait_object, schedVars>>

\* What only the process manager does, to tasks whose request it serves.
ByProcman(t) == /\ Executing /\ current = PROCMAN
                /\ wait_reason[t] = "wrMessage"

Kill(t) == /\ ByProcman(t)
           /\ no_schedule > 0
           /\ wait_reason' = [wait_reason EXCEPT ![t] = "wrDead"]
           /\ UNCHANGED <<listVars, wait_object, schedVars>>

Delay(t, ms) == /\ ByProcman(t)
                /\ no_schedule = 0
                /\ wait_reason' = [wait_reason EXCEPT ![t] = "wrDelay"]
                /\ wait_object' = [wait_object EXCEPT ![t] = ms]
                /\ UNCHANGED <<listVars, schedVars>>

WaitDie(t, u) == /\ ByProcman(t)
                 /\ no_schedule = 0
                 /\ u \in Linked
                 /\ wait_reason[u] # "wrDead"
                 /\ wait_reason' = [wait_reason EXCEPT ![t] = "wrTaskDie"]
                 /\ wait_object' = [wait_object EXCEPT ![t] = u]
                 /\ UNCHANGED <<listVars, schedVars>>

\* mt(false) and mt(true); two levels are nested when a kill frees memory.
MtOff == /\ Executing /\ current = PROCMAN
         /\ no_schedule < 2
         /\ no_schedule' = no_schedule + 1
         /\ UNCHANGED <<listVars, waitVars, current, ticks_remaining,
                        scheduler_running, cpu>>

MtOn == /\ Executing /\ current = PROCMAN
        /\ no_schedule > 0
        /\ no_schedule' = no_schedule - 1
        /\ UNCHANGED <<listVars, waitVars, current, ticks_remaining,
                       scheduler_running, cpu>>

-----------------------------------------------------------------------------
(* The timer interrupt *)

Delayed == {t \in Linked : wait_reason[t] = "wrDelay"}

Less1Signed(x) == x - 1   \* faulty: without the wrap of an unsigned int
Less1(x) == (x + Word - 1) % Word

CountDown ==
  /\ wait_object' = [t \in Task |-> IF t \in Delayed
                                    THEN Less1(wait_object[t])
                                    ELSE wait_object[t]]
  /\ wait_reason' = [t \in Task |-> IF t \in Delayed /\ wait_object'[t] = 0
                                    THEN "wrNone" ELSE wait_reason[t]]

MayPreemptAlways == ~scheduler_running   \* faulty: no_schedule is ignored
MayPreempt == ~scheduler_running /\ no_schedule = 0

\* The timer interrupts a program, or the process manager; a system call and
\* the scheduler run with interrupts off.
Timer == /\ Executing
         /\ CountDown
         /\ IF MayPreempt
            THEN scheduler_running' = TRUE /\ cpu' = "scheduler"
            ELSE UNCHANGED <<scheduler_running, cpu>>
         /\ UNCHANGED <<listVars, current, ticks_remaining, no_schedule>>

-----------------------------------------------------------------------------
(* The scheduler task *)

\* The search readies a task that waits for one that is dead ...
DeathFound(t) == /\ wait_reason[t] = "wrTaskDie"
                 /\ wait_object[t] \in Linked
                 /\ wait_reason[wait_object[t]] = "wrDead"

\* ... and stops at a ready task.  Faulty: "and" for "or" in the loop's
\* condition; the dead are not looked for.
EligibleEither(t) == Priority(t) > 0 \/ wait_reason[t] = "wrNone"
EligibleReady(t) == Priority(t) > 0 /\ wait_reason[t] = "wrNone"
Eligible(t) == Priority(t) > 0 /\ (wait_reason[t] = "wrNone" \/ DeathFound(t))

\* How far from current the search goes: at least one step, at most round the
\* list back to current.  Faulty: it starts at current.
FoundAtOnce == {n \in 0..next_index : Eligible(Nth[n])}
Found == {n \in 1..next_index : Eligible(Nth[n])}

SchedulerCount == /\ cpu = "scheduler"
                  /\ ticks_remaining > 0
                  /\ ticks_remaining' = ticks_remaining - 1
                  /\ UNCHANGED <<listVars, waitVars, current, no_schedule,
                                 scheduler_running, cpu>>

\* run_task gives the processor to current.  Faulty: scheduler_running stays.
RunTaskStill == cpu' = "task" /\ UNCHANGED scheduler_running
RunTask == cpu' = "task" /\ scheduler_running' = FALSE

\* With no eligible task the search goes round for ever, interrupts off.
SchedulerPick ==
  /\ cpu = "scheduler"
  /\ ticks_remaining = 0
  /\ \E n \in Found, t \in Task :
        /\ t = Nth[n] /\ \A m \in Found : n <= m
        /\ ticks_remaining' = Priority(current)
        /\ current' = t
        /\ wait_reason' = IF DeathFound(t) THEN [wait_reason EXCEPT ![t] = "wrNone"]
                          ELSE wait_reason
        /\ RunTask
        /\ UNCHANGED <<listVars, wait_object, no_schedule>>

-----------------------------------------------------------------------------
\* TaskManager::start: the list as the constructor and create_task left it,
\* with the kernel task current and the processor at the scheduler's entry.
Init == /\ next_index = BootTasks
        /\ next = [t \in Task |-> IF t \in 1..(BootTasks - 1) THEN t - 1
                                  ELSE IF t = 0 THEN BootTasks - 1 ELSE 0]
        /\ current = 0
        /\ wait_reason = [t \in Task |-> IF t \in {0, 1} THEN "wrDead"
                                         ELSE IF t \in Linked THEN "wrNone"
                                         ELSE "wrPaused"]
        /\ wait_object = [t \in Task |-> 0]
        /\ ticks_remaining = 0
        /\ no_schedule = 0
        /\ scheduler_running = FALSE
        /\ cpu = "scheduler"

ProcmanSteps == \/ \E t \in Task : Kill(t)
                \/ \E t \in Task, ms \in Delays : Delay(t, ms)
                \/ \E t, u \in Task : WaitDie(t, u)

Next == \/ Block \/ CreateTask
        \/ \E t \in Task : Wake(t)
        \/ ProcmanSteps
        \/ MtOff \/ MtOn
        \/ Timer
        \/ SchedulerCount \/ SchedulerPick

Spec == Init /\ [][Next]_vars

\* The timer keeps interrupting, and not only while the process manager holds
\* it off; the scheduler runs on; the process manager reaches every mt(true).
Fairness == /\ SF_vars(Timer /\ MayPreempt)
            /\ WF_vars(SchedulerCount \/ SchedulerPick)
            /\ WF_vars(MtOn)
            /\ SF_vars(MtOn /\ no_schedule = 1)

LiveSpec == Spec /\ Fairness

-----------------------------------------------------------------------------
TypeOK ==
  /\ next \in [Task -> Task] /\ next_index \in BootTasks..(MaxTask + 1)
  /\ current \in Task
  /\ wait_reason \in [Task -> WaitReason]
  /\ wait_object \in [Task -> 0..(Word - 1)]
  /\ ticks_remaining \in 0..1 /\ no_schedule \in 0..2
  /\ scheduler_running \in BOOLEAN
  /\ cpu \in {"task", "scheduler"}

\* The list is one circle through every task there ever was: the scheduler's
\* search, the timer's walk and TaskManager::task miss nobody and end.
RingClosed == /\ {Nth[n] : n \in 0..(next_index - 1)} = Linked
              /\ Nth[next_index] = current

\* Only a ready program runs: never a sleeping or dead one, and never the
\* kernel's or the scheduler's own entry of the list.
RunsReady == cpu = "task" => /\ wait_reason[current] = "wrNone"
                             /\ Priority(current) > 0

\* While a task runs, the timer may preempt it again: no path into the
\* scheduler and out leaves scheduler_running set.
TimerAlive == cpu = "task" => ~scheduler_running

\* The three together: the processor is always with a ready task that the timer
\* can take it from again, or with a search that will give it to one.
TasksSound == TypeOK /\ RunsReady /\ TimerAlive

\* Between mt(false) and the mt(true) that undoes it, the processor is not
\* taken from the process manager.
HoldsProcessor == no_schedule > 0 => cpu = "task" /\ current = PROCMAN
MtHolds == [][no_schedule > 0 => cpu' = "task" /\ current' = current]_vars

\* Round robin: every task that is ready runs, unless somebody takes its
\* readiness away first.
ReadyRuns == \A t \in Task \ {0, 1} :
               (t \in Linked /\ wait_reason[t] = "wrNone") ~>
               (Executing /\ current = t) \/ wait_reason[t] # "wrNone"

\* Every delay ends, the one that wraps included, and so does every wait for a
\* task that is dead: the search of the scheduler is what ends the second.
SleepersWake ==
  \A t \in Task \ {0, 1} :
    /\ wait_reason[t] = "wrDelay" ~> wait_reason[t] # "wrDelay"
    /\ DeathFound(t) ~> wait_reason[t] # "wrTaskDie"
=============================================================================
