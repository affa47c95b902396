-------------------------- MODULE MCSchedulerProofs --------------------------
(***************************************************************************)
(* What holds the processor, for every number of tasks and every delay:    *)
(* while a task runs the timer may preempt it again, and while the process *)
(* manager is between mt(false) and mt(true) nothing else runs.            *)
(*                                                                         *)
(* TimerAlive alone is not inductive for the second fact, nor the second   *)
(* without knowing that only the process manager raises no_schedule: the   *)
(* inductive invariant is their conjunction, with no_schedule a natural.   *)
(*                                                                         *)
(* That the task list stays one circle: RingClosed is inductive with the   *)
(* types once Nth, a recursive function, is known to be the walk along     *)
(* next, and the walk to meet each of the next_index tasks once.           *)
(*                                                                         *)
(* And what the runs of MCScheduler check of task switches, interrupts and *)
(* system calls, for any number of tasks, drivers and programs, and for    *)
(* the parts together.                                                     *)
(***************************************************************************)
EXTENDS MCScheduler, Induction, SequenceTheorems, FiniteSetTheorems, FunctionTheorems, TLAPS

-----------------------------------------------------------------------------
(* The scheduler *)

Inv == no_schedule \in Nat /\ TimerAlive /\ HoldsProcessor

\* At TaskManager::start nothing holds preemption off.
LEMMA InitInv == Init => Inv
BY DEF Init, Inv, TimerAlive, HoldsProcessor

\* The running task's steps leave scheduler_running alone; the ones that give
\* the processor away, Block and a preempting Timer, require no_schedule = 0.
LEMMA TaskInv ==
  ASSUME Inv,
         \/ Block \/ CreateTask \/ Timer \/ MtOff \/ MtOn
         \/ \E t \in Task : Wake(t)
         \/ ProcmanSteps
  PROVE  Inv'
<1> USE DEF Inv, TimerAlive, HoldsProcessor, Executing, listVars, waitVars,
            schedVars
<1>1. CASE Block
  BY <1>1 DEF Block
<1>2. CASE CreateTask
  BY <1>2 DEF CreateTask
<1>3. CASE Timer
  <2>1. CASE MayPreempt
    BY <1>3, <2>1 DEF Timer, MayPreempt
  <2>2. CASE ~MayPreempt
    BY <1>3, <2>2 DEF Timer
  <2> QED BY <2>1, <2>2
<1>4. CASE MtOff
  BY <1>4 DEF MtOff
<1>5. CASE MtOn
  BY <1>5 DEF MtOn
<1>6. CASE \E t \in Task : Wake(t)
  BY <1>6 DEF Wake
<1>7. CASE ProcmanSteps
  BY <1>7 DEF ProcmanSteps, Kill, Delay, WaitDie, ByProcman
<1> QED BY <1>1, <1>2, <1>3, <1>4, <1>5, <1>6, <1>7

\* The scheduler runs only when no_schedule is 0, and clears scheduler_running
\* on the way to the task it picks.
LEMMA SchedulerInv ==
  ASSUME Inv, SchedulerCount \/ SchedulerPick
  PROVE  Inv'
<1> USE DEF Inv, TimerAlive, HoldsProcessor, listVars, waitVars
<1>1. CASE SchedulerCount
  BY <1>1 DEF SchedulerCount
<1>2. CASE SchedulerPick
  BY <1>2 DEF SchedulerPick, RunTask
<1> QED BY <1>1, <1>2

LEMMA NextInv == ASSUME Inv, [Next]_vars PROVE Inv'
<1>1. CASE UNCHANGED vars
  BY <1>1 DEF vars, schedVars, Inv, TimerAlive, HoldsProcessor
<1>2. CASE Next
  BY <1>2, TaskInv, SchedulerInv DEF Next
<1> QED BY <1>1, <1>2

\* The conjunction holds in every reachable state.
THEOREM SchedulerInvariant == Spec => []Inv
BY InitInv, NextInv, PTL DEF Spec

\* task.cpp:79-83 and 49-50: scheduler_running is never left set, so the clock
\* can always preempt the running task.
THEOREM TimerStaysAlive == Spec => []TimerAlive
<1>1. Inv => TimerAlive
  BY DEF Inv
<1> QED BY <1>1, SchedulerInvariant, PTL

-----------------------------------------------------------------------------
(* Types, and who is run *)

\* A delay counted down is an unsigned int again.
LEMMA Less1Word == ASSUME NEW x \in 0..(Word - 1) PROVE Less1(x) \in 0..(Word - 1)
BY SchedulerAssumption DEF Less1

\* The program's and the process manager's steps keep the types.
LEMMA TaskTypes ==
  ASSUME TypeOK,
         \/ Block \/ CreateTask \/ Timer \/ MtOff \/ MtOn
         \/ \E t \in Task : Wake(t)
         \/ ProcmanSteps
  PROVE  TypeOK'
<1> USE SchedulerAssumption DEF TypeOK, WaitReason, Task, listVars, waitVars,
            schedVars, Executing, ByProcman
<1>1. CASE Block
  BY <1>1 DEF Block
<1>2. CASE CreateTask
  <2>1. next_index \in Task /\ next_index + 1 \in BootTasks..(MaxTask + 1)
    BY <1>2 DEF CreateTask
  <2>2. next' \in [Task -> Task]
    BY <1>2, <2>1 DEF CreateTask, LinkedNew
  <2>3. wait_reason' \in [Task -> WaitReason]
    BY <1>2, <2>1 DEF CreateTask
  <2> QED BY <1>2, <2>1, <2>2, <2>3 DEF CreateTask
<1>3. CASE Timer
  <2>1. wait_object' \in [Task -> 0..(Word - 1)]
    BY <1>3, Less1Word DEF Timer, CountDown
  <2>2. wait_reason' \in [Task -> WaitReason]
    BY <1>3 DEF Timer, CountDown
  <2> QED BY <1>3, <2>1, <2>2 DEF Timer
<1>4. CASE MtOff \/ MtOn
  <2>1. no_schedule' \in 0..2
    <3>1. CASE MtOff
      BY <3>1 DEF MtOff
    <3>2. CASE MtOn
      BY <3>2 DEF MtOn
    <3> QED BY <1>4, <3>1, <3>2
  <2> QED BY <1>4, <2>1 DEF MtOff, MtOn
<1>6. CASE \E t \in Task : Wake(t)
  BY <1>6 DEF Wake
<1>7. CASE ProcmanSteps
  <2>1. CASE \E t \in Task : Kill(t)
    BY <2>1 DEF Kill
  <2>2. CASE \E t \in Task, ms \in Delays : Delay(t, ms)
    BY <2>2 DEF Delay
  <2>3. CASE \E t, u \in Task : WaitDie(t, u)
    <3> PICK t \in Task, u \in Task : WaitDie(t, u)
      BY <2>3
    <3>1. wait_object' \in [Task -> 0..(Word - 1)]
      <4>1. u \in 0..(Word - 1)
        OBVIOUS
      <4>2. wait_object' = [wait_object EXCEPT ![t] = u]
        BY DEF WaitDie
      <4> QED BY <4>1, <4>2
    <3> QED BY <3>1 DEF WaitDie
  <2> QED BY <1>7, <2>1, <2>2, <2>3 DEF ProcmanSteps
<1> QED BY <1>1, <1>2, <1>3, <1>4, <1>6, <1>7

LEMMA SchedulerTypes ==
  ASSUME TypeOK, SchedulerCount \/ SchedulerPick
  PROVE  TypeOK'
<1> USE DEF TypeOK, WaitReason, listVars, waitVars
<1>1. CASE SchedulerCount
  BY <1>1 DEF SchedulerCount
<1>2. CASE SchedulerPick
  <2>1. PICK t \in Task :
          /\ current' = t
          /\ ticks_remaining' = Priority(current)
          /\ wait_reason' = IF DeathFound(t)
                            THEN [wait_reason EXCEPT ![t] = "wrNone"]
                            ELSE wait_reason
          /\ RunTask
          /\ UNCHANGED <<listVars, wait_object, no_schedule>>
    BY <1>2 DEF SchedulerPick
  <2>2. Priority(current) \in 0..1
    BY DEF Priority
  <2>3. wait_reason' \in [Task -> WaitReason]
    BY <2>1
  <2> QED BY <2>1, <2>2, <2>3 DEF RunTask
<1> QED BY <1>1, <1>2

LEMMA InitTypes == Init => TypeOK
<1> SUFFICES ASSUME Init PROVE TypeOK
  OBVIOUS
<1> USE SchedulerAssumption DEF Init, Task
<1>1. next \in [Task -> Task]
  <2>1. \A t \in 1..(BootTasks - 1) : t - 1 \in Task
    OBVIOUS
  <2>2. BootTasks - 1 \in Task /\ 0 \in Task
    OBVIOUS
  <2> QED BY <2>1, <2>2
<1>2. next_index \in BootTasks..(MaxTask + 1) /\ current \in Task
  OBVIOUS
<1>3. wait_reason \in [Task -> WaitReason]
  BY DEF WaitReason
<1>4. wait_object \in [Task -> 0..(Word - 1)]
  OBVIOUS
<1> HIDE DEF Init, Task
<1>5. ticks_remaining \in 0..1 /\ no_schedule \in 0..2
  BY DEF Init
<1>6. scheduler_running \in BOOLEAN /\ cpu \in {"task", "scheduler"}
  BY Zenon DEF Init
<1> QED BY <1>1, <1>2, <1>3, <1>4, <1>5, <1>6 DEF TypeOK

\* The list, the waits and the scheduler's counters keep their types; a delay that
\* wraps stays an unsigned int (task.cpp:71).
THEOREM TypesKept == Spec => []TypeOK
<1>1. TypeOK /\ [Next]_vars => TypeOK'
  <2> SUFFICES ASSUME TypeOK, [Next]_vars PROVE TypeOK'
    OBVIOUS
  <2>1. CASE UNCHANGED vars
    BY <2>1 DEF vars, listVars, waitVars, schedVars, TypeOK
  <2>2. CASE Next
    BY <2>2, TaskTypes, SchedulerTypes DEF Next
  <2> QED BY <2>1, <2>2
<1> QED BY <1>1, InitTypes, PTL DEF Spec

\* What runs, runs ready: the timer and the process manager change the wait of
\* sleepers only, and the scheduler readies what it runs.
LEMMA RunsReadyStep ==
  ASSUME TypeOK, RunsReady, Next
  PROVE  RunsReady'
<1> USE DEF RunsReady, listVars, waitVars, schedVars
<1>1. CASE Block \/ SchedulerCount
  BY <1>1 DEF Block, SchedulerCount
<1>2. CASE CreateTask
  BY <1>2 DEF CreateTask, Executing, TypeOK
<1>3. CASE Timer
  <2>1. ASSUME cpu' = "task" PROVE wait_reason'[current] = "wrNone"
    BY <1>3 DEF Timer, CountDown, Executing, Delayed, TypeOK
  <2> QED BY <1>3, <2>1 DEF Timer, Executing
<1>4. CASE MtOff \/ MtOn
  BY <1>4 DEF MtOff, MtOn, Executing
<1>5. CASE \E t \in Task : Wake(t)
  BY <1>5 DEF Wake, Executing, TypeOK
<1>6. CASE ProcmanSteps
  BY <1>6 DEF ProcmanSteps, Kill, Delay, WaitDie, ByProcman, Executing, TypeOK
<1>7. CASE SchedulerPick
  BY <1>7 DEF SchedulerPick, RunTask, Found, Eligible, TypeOK
<1> QED BY <1>1, <1>2, <1>3, <1>4, <1>5, <1>6, <1>7 DEF Next

\* task.cpp:34-50: the processor is given to no sleeping or dead task, and to
\* neither the kernel's nor the scheduler's own entry.
THEOREM RunsReadyOnly == Spec => []RunsReady
<1>1. Init => RunsReady
  BY DEF Init, RunsReady
<1>2. TypeOK /\ RunsReady /\ [Next]_vars => RunsReady'
  BY RunsReadyStep DEF vars, waitVars, schedVars, RunsReady
<1> QED BY <1>1, <1>2, TypesKept, PTL DEF Spec

\* Whatever wakes, sleeps, is killed or created, for any number of tasks and any
\* delays, the processor is with a ready task that the timer can take it from.
THEOREM TasksAlwaysSound == Spec => []TasksSound
BY TypesKept, RunsReadyOnly, TimerStaysAlive, PTL DEF TasksSound

-----------------------------------------------------------------------------
(* What mt holds off *)

\* A step taken between mt(false) and mt(true) keeps current and the processor:
\* what the process manager changes there, it changes without interleaving.
LEMMA HeldStep ==
  ASSUME Inv, [Next]_vars
  PROVE  [no_schedule > 0 => cpu' = "task" /\ current' = current]_vars
<1> SUFFICES ASSUME Next, no_schedule > 0
             PROVE  cpu' = "task" /\ current' = current
  BY DEF Inv
<1>1. cpu = "task"
  BY DEF Inv, HoldsProcessor
<1>2. CASE Block \/ SchedulerCount \/ SchedulerPick
  BY <1>1, <1>2 DEF Block, SchedulerCount, SchedulerPick, RunTask
<1>3. CASE Timer
  BY <1>1, <1>3 DEF Timer, MayPreempt, Executing
<1>4. CASE CreateTask \/ MtOff \/ MtOn \/ \E t \in Task : Wake(t)
  BY <1>1, <1>4 DEF CreateTask, MtOff, MtOn, Wake, schedVars
<1>5. CASE ProcmanSteps
  BY <1>1, <1>5 DEF ProcmanSteps, Kill, Delay, WaitDie, schedVars
<1> QED BY <1>2, <1>3, <1>4, <1>5 DEF Next

\* mt(false) keeps the processor until the mt(true) that undoes it.
THEOREM MtHoldsAlways == Spec => MtHolds
BY SchedulerInvariant, HeldStep, PTL DEF Spec, MtHolds

-----------------------------------------------------------------------------
(* The list is one circle *)

\* g is the function that Nth[n] computes.
IsIterate(g, n) == g = [k \in 0..n |-> IF k = 0 THEN current ELSE next[g[k - 1]]]

\* There is one: the one for n - 1 with one step more.
LEMMA IterateExists ==
  ASSUME NEW n \in Nat
  PROVE  \E g : IsIterate(g, n)
<1> DEFINE S == {m \in Nat : \E g : IsIterate(g, m)}
<1>1. 0 \in S
  <2>1. IsIterate([k \in 0..0 |-> current], 0)
    BY DEF IsIterate
  <2> QED BY <2>1
<1>2. ASSUME NEW m \in Nat, m \in S PROVE m + 1 \in S
  <2>1. PICK g : IsIterate(g, m)
    BY <1>2
  <2> DEFINE h == [k \in 0..(m + 1) |-> IF k = m + 1 THEN next[g[m]] ELSE g[k]]
  <2>2. ASSUME NEW k \in 0..(m + 1)
        PROVE  h[k] = IF k = 0 THEN current ELSE next[h[k - 1]]
    <3>1. CASE k = 0
      BY <2>1, <3>1 DEF IsIterate
    <3>2. CASE k = m + 1
      BY <3>2
    <3>3. CASE k \in 1..m
      <4>1. k - 1 \in 0..m /\ k - 1 # m + 1 /\ k # m + 1 /\ k # 0 /\ k \in 0..m
        BY <3>3
      <4>2. h[k - 1] = g[k - 1] /\ h[k] = g[k]
        BY <4>1
      <4>3. g[k] = next[g[k - 1]]
        BY <4>1, <2>1 DEF IsIterate
      <4> QED BY <4>1, <4>2, <4>3
    <3> QED BY <3>1, <3>2, <3>3
  <2>3. IsIterate(h, m + 1)
    BY <2>2 DEF IsIterate
  <2> QED BY <2>3
<1> HIDE DEF S
<1>3. n \in S
  BY <1>1, <1>2, Induct
<1> QED BY <1>3 DEF S

\* Nth is made of such functions, one for each n.
LEMMA NthIterate ==
  ASSUME NEW n \in 0..(MaxTask + 1)
  PROVE  \E g : IsIterate(g, n) /\ Nth[n] = g[n]
<1> DEFINE nth[k \in 0..n] == IF k = 0 THEN current ELSE next[nth[k - 1]]
<1>1. Nth[n] = nth[n]
  BY DEF Nth
<1>2. IsIterate(nth, n)
  <2>1. n \in Nat
    BY SchedulerAssumption
  <2>2. \E g : g = [k \in 0..n |-> IF k = 0 THEN current ELSE next[g[k - 1]]]
    BY <2>1, IterateExists DEF IsIterate
  <2> QED BY <2>2 DEF IsIterate
<1> HIDE DEF nth
<1> QED BY <1>1, <1>2

\* They agree as far as both go.
LEMMA IteratesAgree ==
  ASSUME NEW n \in Nat, NEW m \in Nat, n <= m,
         NEW g, IsIterate(g, n), NEW h, IsIterate(h, m)
  PROVE  \A k \in 0..n : g[k] = h[k]
<1> DEFINE S == {k \in 0..n : g[k] = h[k]}
<1>1. 0 \in S
  BY DEF IsIterate
<1>2. ASSUME NEW k \in 0..(n - 1), k \in S PROVE k + 1 \in S
  <2>1. k + 1 \in 0..n /\ k + 1 \in 0..m /\ k + 1 # 0 /\ (k + 1) - 1 = k
    OBVIOUS
  <2>2. g[k + 1] = next[g[k]] /\ h[k + 1] = next[h[k]]
    BY <2>1 DEF IsIterate
  <2> QED BY <1>2, <2>1, <2>2
<1>3. 0..n \subseteq S
  <2> HIDE DEF S
  <2> QED BY <1>1, <1>2, UpTo
<1> QED BY <1>3

\* The search goes from current along next, task by task (task.cpp:36).
Walk == /\ Nth[0] = current
        /\ \A k \in 0..MaxTask : Nth[k + 1] = next[Nth[k]]

\* Nth is the walk, in this state and in the next.
LEMMA NthWalks == Walk
<1>1. Nth[0] = current
  <2>1. PICK g : IsIterate(g, 0) /\ Nth[0] = g[0]
    BY NthIterate, SchedulerAssumption
  <2> QED BY <2>1 DEF IsIterate
<1>2. ASSUME NEW k \in 0..MaxTask PROVE Nth[k + 1] = next[Nth[k]]
  <2>1. /\ k \in 0..(MaxTask + 1) /\ k + 1 \in 0..(MaxTask + 1) /\ k \in Nat
        /\ k + 1 \in Nat /\ k <= k + 1 /\ k \in 0..k /\ k + 1 \in 0..(k + 1)
        /\ k + 1 # 0 /\ (k + 1) - 1 = k
    BY SchedulerAssumption
  <2>2. PICK g : IsIterate(g, k) /\ Nth[k] = g[k]
    BY <2>1, NthIterate
  <2>3. PICK h : IsIterate(h, k + 1) /\ Nth[k + 1] = h[k + 1]
    BY <2>1, NthIterate
  <2>4. g[k] = h[k]
    BY <2>1, <2>2, <2>3, IteratesAgree
  <2>5. h[k + 1] = next[h[k]]
    BY <2>1, <2>3 DEF IsIterate
  <2> QED BY <2>2, <2>3, <2>4, <2>5
<1> QED BY <1>1, <1>2 DEF Walk

LEMMA NthWalksNext == Walk'
BY NthWalks, PTL

\* A walk that meets all of the linked tasks in next_index steps meets each once.
LEMMA MetOnce ==
  ASSUME TypeOK, RingClosed
  PROVE  \A i, j \in 0..(next_index - 1) : Nth[i] = Nth[j] => i = j
<1> DEFINE D == 0..(next_index - 1)
           f == [n \in D |-> Nth[n]]
<1>1. f \in Surjection(D, Linked)
  <2>1. \A n \in D : Nth[n] \in Linked
    BY DEF RingClosed
  <2>2. \A t \in Linked : \E n \in D : Nth[n] = t
    BY DEF RingClosed
  <2> QED BY <2>1, <2>2, Fun_IsSurj
<1>2. IsFiniteSet(D)
  BY FS_Interval, SchedulerAssumption DEF TypeOK
<1>3. D = Linked
  BY DEF Linked
<1>4. f \in Injection(D, Linked)
  <2> HIDE DEF D, f
  <2> QED BY <1>1, <1>2, <1>3, FS_SurjSameCardinalityImpliesInj
<1>5. \A a, b \in D : f[a] = f[b] => a = b
  <2> HIDE DEF D, f
  <2> QED BY <1>4, Fun_InjectionProperties
<1> QED BY <1>5

\* create_task: the walk meets the new task first, and then as before.
LEMMA CreateRing ==
  ASSUME TypeOK, RingClosed, CreateTask
  PROVE  RingClosed'
<1> DEFINE N == next_index
<1>1. /\ N \in Nat /\ N >= 3 /\ N <= MaxTask /\ N \in Task /\ current \in Linked
      /\ current \in Task /\ N # current /\ Linked \subseteq Task
      /\ N \notin Linked /\ MaxTask \in Nat
  <2>1. N \in Nat /\ N >= 3 /\ N <= MaxTask /\ N \in Task
    BY SchedulerAssumption DEF TypeOK, CreateTask, Task
  <2>2. current = Nth[0] /\ 0 \in 0..(N - 1)
    BY <2>1, NthWalks DEF Walk
  <2>3. current \in Linked
    BY <2>2 DEF RingClosed
  <2> QED BY <2>1, <2>3, SchedulerAssumption DEF Linked, Task
<1>2. /\ current' = current /\ next_index' = N + 1
      /\ next'[current] = N /\ next'[N] = next[current]
      /\ \A t \in Linked : t # current => next'[t] = next[t]
  BY <1>1 DEF CreateTask, schedVars, LinkedNew, TypeOK
<1>3. Nth'[0] = current /\ Nth'[1] = N
  <2>1. 0 \in 0..MaxTask /\ 0 + 1 = 1
    BY <1>1
  <2> QED BY <1>2, <2>1, NthWalksNext DEF Walk
<1>4. \A j \in 0..(N - 1) : Nth[j] \in Linked /\ (j # 0 => Nth[j] # current)
  BY <1>1, MetOnce, NthWalks DEF RingClosed, Walk
<1>5. \A j \in 1..N : Nth'[j + 1] = Nth[j]
  <2> DEFINE S == {j \in 0..(N - 1) : Nth'[j + 2] = Nth[j + 1]}
  <2>1. 0 \in S
    <3>1. Nth'[2] = next'[N]
      <4>1. 1 \in 0..MaxTask /\ 1 + 1 = 2
        BY <1>1
      <4> QED BY <1>3, <4>1, NthWalksNext DEF Walk
    <3>2. Nth[1] = next[current]
      <4>1. 0 \in 0..MaxTask /\ 0 + 1 = 1
        BY <1>1
      <4> QED BY <4>1, NthWalks DEF Walk
    <3> QED BY <1>1, <1>2, <3>1, <3>2
  <2>2. ASSUME NEW j \in 0..((N - 1) - 1), j \in S PROVE j + 1 \in S
    <3>1. /\ j + 2 \in 0..MaxTask /\ j + 1 \in 0..MaxTask /\ j + 1 \in 0..(N - 1)
          /\ j + 1 # 0 /\ (j + 2) + 1 = (j + 1) + 2 /\ (j + 1) + 1 = j + 2
      BY <1>1
    <3>2. Nth'[(j + 1) + 2] = next'[Nth'[j + 2]]
      BY <3>1, NthWalksNext DEF Walk
    <3>3. Nth[(j + 1) + 1] = next[Nth[j + 1]]
      BY <3>1, NthWalks DEF Walk
    <3>4. Nth'[j + 2] = Nth[j + 1]
      BY <2>2
    <3>5. next'[Nth[j + 1]] = next[Nth[j + 1]]
      BY <3>1, <1>4, <1>2
    <3> QED BY <3>1, <3>2, <3>3, <3>4, <3>5
  <2>3. 0..(N - 1) \subseteq S
    <3>1. N - 1 \in Nat
      BY <1>1
    <3> HIDE DEF S
    <3> QED BY <3>1, <2>1, <2>2, UpTo
  <2>4. ASSUME NEW j \in 1..N PROVE Nth'[j + 1] = Nth[j]
    <3>1. j - 1 \in S /\ (j - 1) + 2 = j + 1 /\ (j - 1) + 1 = j
      BY <1>1, <2>3
    <3> QED BY <3>1
  <2> QED BY <2>4
<1>6. Nth'[next_index'] = current'
  BY <1>1, <1>2, <1>5 DEF RingClosed
<1>7. {Nth'[n] : n \in 0..(next_index' - 1)} = Linked'
  <2>1. Linked' = Linked \cup {N} /\ 0..(next_index' - 1) = 0..N
    BY <1>1, <1>2 DEF Linked
  <2>2. ASSUME NEW n \in 0..N PROVE Nth'[n] \in Linked \cup {N}
    <3>1. CASE n \in {0, 1}
      BY <3>1, <1>1, <1>3
    <3>2. CASE n \in 2..N
      <4>1. n - 1 \in 1..N /\ (n - 1) + 1 = n /\ n - 1 \in 0..(N - 1)
        BY <3>2, <1>1
      <4> QED BY <4>1, <1>4, <1>5
    <3> QED BY <3>1, <3>2, <1>1
  <2>3. ASSUME NEW t \in Linked \cup {N} PROVE \E n \in 0..N : Nth'[n] = t
    <3>1. CASE t = N
      BY <3>1, <1>1, <1>3
    <3>2. CASE t = current
      BY <3>2, <1>1, <1>3
    <3>3. CASE t \in Linked /\ t # current
      <4>1. PICK j \in 0..(N - 1) : Nth[j] = t
        BY <3>3 DEF RingClosed
      <4>2. j # 0
        BY <4>1, <3>3, NthWalks DEF Walk
      <4>3. j \in 1..N /\ j + 1 \in 0..N
        BY <4>2, <1>1
      <4> QED BY <4>1, <4>3, <1>5
    <3> QED BY <3>1, <3>2, <3>3
  <2> QED BY <2>1, <2>2, <2>3
<1> QED BY <1>6, <1>7 DEF RingClosed


\* The scheduler moves current along the list: the walk starts later and wraps.
LEMMA PickRing ==
  ASSUME TypeOK, RingClosed, SchedulerPick
  PROVE  RingClosed'
<1> DEFINE N == next_index
<1>1. /\ N \in Nat /\ N >= 3 /\ N <= MaxTask + 1 /\ MaxTask \in Nat
  BY SchedulerAssumption DEF TypeOK
<1>2. PICK m \in 1..N : /\ current' = Nth[m]
                        /\ next' = next /\ next_index' = next_index
  <2>1. PICK m \in Found, t \in Task :
          t = Nth[m] /\ current' = t /\ UNCHANGED listVars
    BY DEF SchedulerPick
  <2> QED BY <2>1 DEF Found, listVars
<1>3. Nth'[0] = Nth[m] /\ Nth[0] = current /\ Nth[N] = current
  BY <1>2, NthWalks, NthWalksNext DEF Walk, RingClosed
<1>4. \A k \in 0..MaxTask : /\ Nth'[k + 1] = next[Nth'[k]]
                            /\ Nth[k + 1] = next[Nth[k]]
  BY <1>2, NthWalks, NthWalksNext DEF Walk
<1>5. \A k \in 0..(N - m) : Nth'[k] = Nth[m + k]
  <2> DEFINE S == {k \in 0..(N - m) : Nth'[k] = Nth[m + k]}
  <2>1. 0 \in S
    BY <1>1, <1>3
  <2>2. ASSUME NEW k \in 0..((N - m) - 1), k \in S PROVE k + 1 \in S
    <3>1. k \in 0..MaxTask /\ m + k \in 0..MaxTask /\ (m + k) + 1 = m + (k + 1)
          /\ k + 1 \in 0..(N - m)
      BY <1>1
    <3> QED BY <2>2, <3>1, <1>4
  <2>3. N - m \in Nat
    BY <1>1
  <2>4. 0..(N - m) \subseteq S
    <3> HIDE DEF S
    <3> QED BY <2>3, <2>1, <2>2, UpTo
  <2> QED BY <2>4
<1>6. \A k \in 0..m : Nth'[(N - m) + k] = Nth[k]
  <2> DEFINE S == {k \in 0..m : Nth'[(N - m) + k] = Nth[k]}
  <2>1. 0 \in S
    <3>1. (N - m) + 0 = N - m /\ m + (N - m) = N /\ N - m \in 0..(N - m)
      BY <1>1
    <3> QED BY <1>3, <1>5, <3>1
  <2>2. ASSUME NEW k \in 0..(m - 1), k \in S PROVE k + 1 \in S
    <3>1. k \in 0..MaxTask /\ (N - m) + k \in 0..MaxTask
          /\ ((N - m) + k) + 1 = (N - m) + (k + 1) /\ k + 1 \in 0..m
      BY <1>1
    <3> QED BY <2>2, <3>1, <1>4
  <2>3. 0..m \subseteq S
    <3>1. m \in Nat
      OBVIOUS
    <3> HIDE DEF S
    <3> QED BY <3>1, <2>1, <2>2, UpTo
  <2> QED BY <2>3
<1>7. Nth'[next_index'] = current'
  <2>1. (N - m) + m = N /\ m \in 0..m
    BY <1>1
  <2> QED BY <1>2, <1>6, <2>1
<1>8. {Nth'[n] : n \in 0..(next_index' - 1)} = Linked'
  <2>1. Linked' = Linked /\ next_index' = N
    BY <1>2 DEF Linked
  <2>2. ASSUME NEW n \in 0..(N - 1) PROVE Nth'[n] \in Linked
    <3>1. CASE n < N - m
      <4>1. m + n \in 0..(N - 1) /\ n \in 0..(N - m)
        BY <3>1, <1>1
      <4> QED BY <4>1, <1>5 DEF RingClosed
    <3>2. CASE n >= N - m
      <4>1. PICK k \in 0..(m - 1) : n = (N - m) + k
        <5>1. n - (N - m) \in 0..(m - 1) /\ n = (N - m) + (n - (N - m))
          BY <3>2, <1>1
        <5> QED BY <5>1
      <4>2. k \in 0..m /\ k \in 0..(N - 1)
        BY <1>1
      <4> QED BY <4>1, <4>2, <1>6 DEF RingClosed
    <3> QED BY <3>1, <3>2, <1>1
  <2>3. ASSUME NEW t \in Linked PROVE \E n \in 0..(N - 1) : Nth'[n] = t
    <3>1. PICK j \in 0..(N - 1) : Nth[j] = t
      BY DEF RingClosed
    <3>2. CASE j < m
      <4>1. j \in 0..m /\ (N - m) + j \in 0..(N - 1)
        BY <3>2, <1>1
      <4> QED BY <3>1, <4>1, <1>6
    <3>3. CASE j >= m
      <4>1. j - m \in 0..(N - m) /\ j - m \in 0..(N - 1) /\ m + (j - m) = j
        BY <3>3, <1>1
      <4> QED BY <3>1, <4>1, <1>5
    <3> QED BY <3>2, <3>3, <1>1
  <2> QED BY <2>1, <2>2, <2>3
<1> QED BY <1>7, <1>8 DEF RingClosed

\* What changes neither the list nor current changes no walk.
LEMMA StillRing ==
  ASSUME RingClosed, UNCHANGED listVars, current' = current
  PROVE  RingClosed'
<1>1. next' = next /\ next_index' = next_index
  BY DEF listVars
<1>2. Nth' = Nth
  BY <1>1 DEF Nth
<1> QED BY <1>1, <1>2 DEF RingClosed, Linked

\* The list of the constructor and the boot tasks, walked from the kernel's own.
LEMMA InitRing == Init => RingClosed
<1> SUFFICES ASSUME Init PROVE RingClosed
  OBVIOUS
<1> DEFINE B == BootTasks
<1>1. /\ B \in Nat /\ B >= 3 /\ B <= MaxTask + 1 /\ MaxTask \in Nat
      /\ next_index = B /\ current = 0
  BY SchedulerAssumption DEF Init
<1>2. next[0] = B - 1 /\ \A t \in 1..(B - 1) : next[t] = t - 1
  <2>1. 0 \in Task /\ \A t \in 1..(B - 1) : t \in Task /\ t # 0
    BY <1>1 DEF Task
  <2>2. 0 \notin 1..(B - 1)
    OBVIOUS
  <2> QED BY <2>1, <2>2 DEF Init
<1>3. Nth[0] = 0
  BY <1>1, NthWalks DEF Walk
<1>4. \A k \in 1..B : Nth[k] = B - k
  <2> DEFINE S == {k \in 0..(B - 1) : Nth[k + 1] = B - (k + 1)}
  <2>1. 0 \in S
    <3>1. 0 \in 0..MaxTask /\ 0 + 1 = 1
      BY <1>1
    <3> QED BY <3>1, <1>1, <1>2, <1>3, NthWalks DEF Walk
  <2>2. ASSUME NEW k \in 0..((B - 1) - 1), k \in S PROVE k + 1 \in S
    <3>1. k + 1 \in 0..MaxTask /\ B - (k + 1) \in 1..(B - 1) /\ k + 1 \in 0..(B - 1)
          /\ (B - (k + 1)) - 1 = B - ((k + 1) + 1)
      BY <1>1
    <3>2. Nth[(k + 1) + 1] = next[Nth[k + 1]]
      BY <3>1, NthWalks DEF Walk
    <3> QED BY <2>2, <3>1, <3>2, <1>2
  <2>3. 0..(B - 1) \subseteq S
    <3>1. B - 1 \in Nat
      BY <1>1
    <3> HIDE DEF S
    <3> QED BY <3>1, <2>1, <2>2, UpTo
  <2>4. ASSUME NEW k \in 1..B PROVE Nth[k] = B - k
    <3>1. k - 1 \in S /\ (k - 1) + 1 = k
      BY <1>1, <2>3
    <3> QED BY <3>1
  <2> QED BY <2>4
<1>5. Nth[next_index] = current
  <2>1. B \in 1..B /\ B - B = 0
    BY <1>1
  <2> QED BY <2>1, <1>1, <1>4
<1>6. {Nth[n] : n \in 0..(next_index - 1)} = Linked
  <2>1. Linked = 0..(B - 1) /\ next_index = B
    BY <1>1 DEF Linked
  <2>2. ASSUME NEW n \in 0..(B - 1) PROVE Nth[n] \in 0..(B - 1)
    <3>1. CASE n = 0
      BY <3>1, <1>1, <1>3
    <3>2. CASE n # 0
      <4>1. n \in 1..B /\ B - n \in 0..(B - 1)
        BY <3>2, <1>1
      <4> QED BY <4>1, <1>4
    <3> QED BY <3>1, <3>2
  <2>3. ASSUME NEW t \in 0..(B - 1) PROVE \E n \in 0..(B - 1) : Nth[n] = t
    <3>1. CASE t = 0
      BY <3>1, <1>1, <1>3
    <3>2. CASE t # 0
      <4>1. B - t \in 1..B /\ B - (B - t) = t /\ B - t \in 0..(B - 1)
        BY <3>2, <1>1
      <4> QED BY <4>1, <1>4
    <3> QED BY <3>1, <3>2
  <2> QED BY <2>1, <2>2, <2>3
<1> QED BY <1>5, <1>6 DEF RingClosed

\* Only create_task writes next, and only the scheduler writes current.
LEMMA NextRing ==
  ASSUME TypeOK, RingClosed, [Next]_vars
  PROVE  RingClosed'
<1>1. CASE UNCHANGED vars
  BY <1>1, StillRing DEF vars, schedVars
<1>2. CASE CreateTask
  BY <1>2, CreateRing
<1>3. CASE SchedulerPick
  BY <1>3, PickRing
<1>4. CASE Block \/ Timer \/ MtOff \/ MtOn \/ SchedulerCount
  BY <1>4, StillRing DEF Block, Timer, MtOff, MtOn, SchedulerCount
<1>5. CASE (\E t \in Task : Wake(t)) \/ ProcmanSteps
  BY <1>5, StillRing DEF Wake, ProcmanSteps, Kill, Delay, WaitDie, schedVars
<1> QED BY <1>1, <1>2, <1>3, <1>4, <1>5 DEF Next

\* However many tasks are created, and whoever created them, the list stays one
\* circle through every task there ever was (task.cpp:142-143).
THEOREM RingAlwaysClosed == Spec => []RingClosed
<1>1. TypeOK /\ RingClosed /\ [Next]_vars => RingClosed'
  BY NextRing
<1> QED BY <1>1, InitRing, TypesKept, PTL DEF Spec

\* task.cpp:34-45: whenever some task but the kernel's own can run, the search
\* comes to one, and to a first one, within one round.
SearchEnds == (\E t \in Linked : Eligible(t)) => \E n \in Found : \A m \in Found : n <= m

\* The search goes round for ever only when nobody can run.
THEOREM SearchAlwaysEnds == Spec => []SearchEnds
<1>1. TypeOK /\ RingClosed => SearchEnds
  <2> SUFFICES ASSUME TypeOK, RingClosed, NEW t \in Linked, Eligible(t)
               PROVE  \E n \in Found : \A m \in Found : n <= m
    BY DEF SearchEnds
  <2>1. next_index \in Nat /\ next_index >= 3
    BY SchedulerAssumption DEF TypeOK
  <2>2. PICK n \in 0..(next_index - 1) : Nth[n] = t
    BY DEF RingClosed
  <2>3. Found # {}
    <3>1. CASE n = 0
      <4>1. next_index \in 1..next_index /\ Nth[next_index] = t
        BY <3>1, <2>1, <2>2, NthWalks DEF Walk, RingClosed
      <4> QED BY <4>1 DEF Found
    <3>2. CASE n # 0
      <4>1. n \in 1..next_index
        BY <3>2, <2>1
      <4> QED BY <4>1, <2>2 DEF Found
    <3> QED BY <3>1, <3>2
  <2>4. Found \subseteq Nat
    BY DEF Found
  <2> QED BY <2>3, <2>4, LeastNatural
<1> QED BY <1>1, TypesKept, RingAlwaysClosed, PTL

-----------------------------------------------------------------------------
(* The trap *)

\* The result of t is in its register, then in the word, then in its register
\* again, as long as nobody overtakes t.
Carried(t) == /\ at[t] = "store" => eax[t] = returned[t]
              /\ at[t] = "load" /\ ~overtaken[t] => word = returned[t]
              /\ at[t] = "program" /\ ~overtaken[t] => eax[t] = returned[t]

TrapInv == Trap!TypeOK /\ \A t \in Program : Carried(t)

\* A handler that ends leaves the invariant true.
LEMMA TrapHandled ==
  ASSUME TrapInv, NEW t \in Program, NEW n \in Trap!Number, Trap!Handled(t, n)
  PROVE  TrapInv'
<1>1. PICK v \in Trap!Invoked(t, n) : /\ eax' = [eax EXCEPT ![t] = v]
                                     /\ returned' = [returned EXCEPT ![t] = v]
  BY DEF Trap!Handled
<1>2. v \in Trap!Value
  BY DEF Trap!Invoked, Trap!Results, Trap!Value
<1>3. /\ at' = [at EXCEPT ![t] = "store"]
      /\ overtaken' = [overtaken EXCEPT ![t] = FALSE]
      /\ word' = word
      /\ call' = [call EXCEPT ![t] = n]
  BY DEF Trap!Handled
<1>4. Trap!TypeOK'
  BY <1>1, <1>2, <1>3 DEF TrapInv, Trap!TypeOK
<1>5. ASSUME NEW u \in Program PROVE Carried(u)'
  <2>1. CASE u = t
    BY <1>1, <1>3, <2>1 DEF TrapInv, Trap!TypeOK, Carried
  <2>2. CASE u # t
    BY <1>1, <1>3, <2>2 DEF TrapInv, Trap!TypeOK, Carried
  <2> QED BY <2>1, <2>2
<1> QED BY <1>4, <1>5 DEF TrapInv

\* The store of t keeps the invariant: whoever is before its load is overtaken.
LEMMA TrapStored == ASSUME TrapInv, NEW t \in Program, Trap!Store(t) PROVE TrapInv'
<1>1. Trap!TypeOK'
  BY DEF TrapInv, Trap!TypeOK, Trap!Store, Trap!Stored
<1>2. ASSUME NEW u \in Program PROVE Carried(u)'
  <2>1. CASE u = t
    BY <2>1 DEF TrapInv, Trap!TypeOK, Carried, Trap!Store, Trap!Stored
  <2>2. CASE u # t
    BY <2>2 DEF TrapInv, Trap!TypeOK, Carried, Trap!Store, Trap!Stored
  <2> QED BY <2>1, <2>2
<1> QED BY <1>1, <1>2 DEF TrapInv

\* The load of t keeps the invariant.
LEMMA TrapLoaded == ASSUME TrapInv, NEW t \in Program, Trap!Load(t) PROVE TrapInv'
<1>1. Trap!TypeOK'
  BY DEF TrapInv, Trap!TypeOK, Trap!Load
<1>2. ASSUME NEW u \in Program PROVE Carried(u)'
  BY DEF TrapInv, Trap!TypeOK, Carried, Trap!Load
<1> QED BY <1>1, <1>2 DEF TrapInv

LEMMA TrapNext == ASSUME TrapInv, [Trap!Next]_trapVars PROVE TrapInv'
<1>1. ASSUME NEW t \in Program, NEW n \in Trap!Number, Trap!Enter(t, n) PROVE TrapInv'
  BY <1>1, TrapHandled DEF Trap!Enter
<1>2. ASSUME NEW t \in Program, NEW n \in Trap!Number, Trap!EnterAsleep(t, n) PROVE TrapInv'
  BY <1>2 DEF Trap!EnterAsleep, TrapInv, Trap!TypeOK, Carried
<1>3. ASSUME NEW t \in Program, Trap!Wake(t) PROVE TrapInv'
  <2>1. call[t] \in Trap!Number
    BY DEF TrapInv, Trap!TypeOK
  <2> QED BY <1>3, <2>1, TrapHandled DEF Trap!Wake
<1>4. ASSUME NEW t \in Program, Trap!Store(t) PROVE TrapInv'
  BY <1>4, TrapStored
<1>5. ASSUME NEW t \in Program, Trap!Load(t) PROVE TrapInv'
  BY <1>5, TrapLoaded
<1>6. CASE Trap!Lost \/ UNCHANGED trapVars
  BY <1>6 DEF Trap!Lost, Trap!vars, trapVars, TrapInv, Trap!TypeOK, Carried
<1>7. ASSUME NEW t \in Program, NEW n \in Trap!Number, Trap!EnterWild(t, n) PROVE TrapInv'
  BY <1>7 DEF Trap!EnterWild, TrapInv, Trap!TypeOK, Carried
<1> QED BY <1>1, <1>2, <1>3, <1>4, <1>5, <1>6, <1>7 DEF Trap!Next

LEMMA TrapInit == Trap!Init => TrapInv
BY DEF Trap!Init, TrapInv, Trap!TypeOK, Carried, Trap!Value, Trap!Number, Trap!Registered

-----------------------------------------------------------------------------
(* The lines *)

\* What a task can have on its stack: the keyboard's handler, before its cli
\* interrupted by the timer's, or one of them alone.
Nested(s) ==
  /\ s \in Seq(Lines!Frame) /\ Len(s) \in 0..2
  /\ \A i \in 1..Len(s) : \/ s[i].line = 0 /\ s[i].at \in {"body", "eoi", "switch", "exit"}
                          \/ s[i].line = KEYBOARD /\ s[i].at \in {"entry", "body", "eoi", "exit"}
  /\ Len(s) = 2 => s[1].line = KEYBOARD /\ s[1].at = "entry" /\ s[2].line = 0

\* A task switched away from was interrupted by the timer, whose interrupt is over.
Left(s) == Len(s) > 0 => s[Len(s)].line = 0 /\ s[Len(s)].at = "exit"

\* The timer's interrupt is in service; the keyboard's handler is there; its
\* interrupt is in service.
TimerServed(s) == Len(s) > 0 /\ s[Len(s)].line = 0 /\ s[Len(s)].at \in {"body", "eoi"}
Handles(s) == Len(s) > 0 /\ s[1].line = KEYBOARD
Served(s) == Handles(s) /\ s[1].at # "exit"

Lists ==
  /\ imr \subseteq Lines!Line /\ irr \subseteq {0, KEYBOARD} /\ isr \subseteq {0, KEYBOARD}
  /\ IRQs \in [Lines!Line -> Seq(Driver)]
  /\ messages \in [Driver -> Seq(Lines!Line \cup {Lines!Call})]
  /\ waiting \in [Driver -> BOOLEAN]

LinesInv ==
  /\ Lists
  /\ l_current \in Lines!Task /\ stack \in [Lines!Task -> Seq(Lines!Frame)]
  /\ \A t \in Lines!Task : Nested(stack[t])
  /\ \A t \in Lines!Task \ {l_current} : Left(stack[t])
  /\ 0 \in isr <=> TimerServed(stack[l_current])
  /\ KEYBOARD \in isr <=> \E t \in Lines!Task : Served(stack[t])
  /\ \A t, u \in Lines!Task : Handles(stack[t]) /\ Handles(stack[u]) => t = u

\* A step makes r of the current task's stack s, after which isr says what it is to.
Restacked(s, r) ==
  /\ r \in Seq(Lines!Frame) /\ Nested(r)
  /\ stack' = [stack EXCEPT ![l_current] = r]
  /\ l_current' \in Lines!Task /\ (l_current' # l_current => Left(r))
  /\ Lists'
  /\ 0 \in isr' <=> l_current' = l_current /\ TimerServed(r)
  /\ KEYBOARD \in isr' <=> Served(r) \/ (KEYBOARD \in isr /\ ~Served(s))
  /\ Handles(r) => Handles(s) \/ \A t \in Lines!Task : ~Handles(stack[t])

LEMMA StackStep ==
  ASSUME LinesInv, NEW s, s = stack[l_current], NEW r, Restacked(s, r)
  PROVE  LinesInv'
<1> USE DEF Restacked
<1>1. /\ \A t \in Lines!Task : stack'[t] = IF t = l_current THEN r ELSE stack[t]
      /\ stack' \in [Lines!Task -> Seq(Lines!Frame)] /\ l_current \in Lines!Task
  BY DEF LinesInv
<1>2. \A t \in Lines!Task : Nested(stack'[t])
  BY <1>1, Zenon DEF LinesInv
<1>3. \A t \in Lines!Task \ {l_current'} : Left(stack'[t])
  BY <1>1, Zenon DEF LinesInv
<1>4. 0 \in isr' <=> TimerServed(stack'[l_current'])
  <2>1. CASE l_current' = l_current
    BY <1>1, <2>1, Zenon
  <2>2. CASE l_current' # l_current
    <3>1. stack'[l_current'] = stack[l_current'] /\ Left(stack[l_current'])
      BY <1>1, <2>2, Zenon DEF LinesInv
    <3>2. ~TimerServed(stack[l_current'])
      BY <3>1 DEF Left, TimerServed
    <3> QED BY <2>2, <3>1, <3>2, Zenon
  <2> QED BY <2>1, <2>2
<1>5. KEYBOARD \in isr' <=> \E t \in Lines!Task : Served(stack'[t])
  <2>1. KEYBOARD \in isr <=> \E t \in Lines!Task : Served(stack[t])
    BY Zenon DEF LinesInv
  <2>2. \A t \in Lines!Task : Served(s) /\ Served(stack[t]) => t = l_current
    BY <1>1, Zenon DEF LinesInv, Served
  <2> QED BY <1>1, <2>1, <2>2, Zenon
<1>6. \A t, u \in Lines!Task : Handles(stack'[t]) /\ Handles(stack'[u]) => t = u
  <2>1. \A t, u \in Lines!Task : Handles(stack[t]) /\ Handles(stack[u]) => t = u
    BY Zenon DEF LinesInv
  <2> QED BY <1>1, <2>1, Zenon
<1> QED BY <1>1, <1>2, <1>3, <1>4, <1>5, <1>6, Zenon DEF LinesInv

\* A handler goes on: the last frame gets a new place.
Moved(s, place, r) ==
  /\ r \in Seq(Lines!Frame) /\ Len(r) = Len(s)
  /\ \A i \in 1..Len(s) : r[i] = IF i = Len(s) THEN [s[i] EXCEPT !.at = place] ELSE s[i]

LEMMA MovedOn ==
  ASSUME NEW s \in Seq(Lines!Frame), s # <<>>, NEW place \in Lines!Place,
         NEW r, r = Lines!Front(s) \o <<[Lines!Last(s) EXCEPT !.at = place]>>
  PROVE  Moved(s, place, r)
<1>1. PICK f : f = SubSeq(s, 1, Len(s) - 1)
  OBVIOUS
<1>2. PICK e : e = [s[Len(s)] EXCEPT !.at = place]
  OBVIOUS
<1>3. Len(s) \in Nat \ {0}
  BY EmptySeq
<1>4. f \in Seq(Lines!Frame) /\ Len(f) = Len(s) - 1 /\ \A i \in 1..(Len(s) - 1) : f[i] = s[i]
  BY <1>1, <1>3, SubSeqProperties
<1>5. e \in Lines!Frame
  <2>1. s[Len(s)] \in Lines!Frame
    BY <1>3, ElementOfSeq
  <2> QED BY <1>2, <2>1 DEF Lines!Frame
<1>6. r = f \o <<e>>
  BY <1>1, <1>2 DEF Lines!Front, Lines!Last
<1>7. r \in Seq(Lines!Frame) /\ Len(r) = Len(s)
      /\ \A i \in 1..Len(s) : r[i] = IF i = Len(s) THEN e ELSE f[i]
  <2>1. PICK q : q = <<e>>
    OBVIOUS
  <2>2. q \in Seq(Lines!Frame) /\ Len(q) = 1 /\ q[1] = e
    BY <1>5, <2>1
  <2>3. /\ f \o q \in Seq(Lines!Frame) /\ Len(f \o q) = Len(f) + Len(q)
        /\ \A i \in 1..(Len(f) + Len(q)) :
             (f \o q)[i] = IF i <= Len(f) THEN f[i] ELSE q[i - Len(f)]
    BY <1>4, <2>2, ConcatProperties
  <2>4. PICK g : g = f \o q
    OBVIOUS
  <2>5. r = g /\ g \in Seq(Lines!Frame) /\ Len(g) = Len(s)
    BY ONLY <1>3, <1>4, <1>6, <2>1, <2>2, <2>3, <2>4
  <2>6. \A i \in 1..Len(s) : g[i] = IF i <= Len(f) THEN f[i] ELSE q[i - Len(f)]
    BY ONLY <1>3, <1>4, <2>2, <2>3, <2>4
  <2>7. ASSUME NEW i \in 1..Len(s) PROVE r[i] = IF i = Len(s) THEN e ELSE f[i]
    <3>1. CASE i = Len(s)
      BY ONLY <1>3, <1>4, <2>2, <2>5, <2>6, <3>1
    <3>2. CASE i # Len(s)
      <4>1. i <= Len(f)
        BY <1>3, <1>4, <3>2
      <4>2. g[i] = f[i]
        BY <2>6, <4>1, Zenon
      <4> QED BY <2>5, <3>2, <4>2, Zenon
    <3> QED BY <3>1, <3>2
  <2> QED BY <2>5, <2>7
<1> QED BY <1>2, <1>4, <1>7 DEF Moved

\* How a handler that goes on changes the stacks.
LEMMA Gone ==
  ASSUME LinesInv, NEW s, s = stack[l_current],
         NEW place, NEW to \in Lines!Place, Lines!At(place), Lines!Goto(to)
  PROVE  /\ s \in Seq(Lines!Frame) /\ Nested(s)
         /\ Len(s) \in 1..2 /\ s[Len(s)].at = place /\ s[Len(s)] = Lines!Top(l_current)
         /\ \E r : Moved(s, to, r) /\ stack' = [stack EXCEPT ![l_current] = r]
<1>1. s \in Seq(Lines!Frame) /\ Nested(s) /\ s # <<>>
  BY DEF LinesInv, Lines!At, Lines!Busy
<1>2. Len(s) \in 1..2
  BY <1>1, EmptySeq DEF Nested
<1>3. Lines!Top(l_current) = s[Len(s)] /\ s[Len(s)].at = place
  BY Zenon DEF Lines!At, Lines!Top, Lines!Last
<1>4. PICK r : r = Lines!Front(s) \o <<[Lines!Last(s) EXCEPT !.at = to]>>
  OBVIOUS
<1>5. Moved(s, to, r)
  BY <1>1, <1>4, MovedOn
<1>6. stack' = [stack EXCEPT ![l_current] = r]
  BY <1>4, Zenon DEF Lines!Goto
<1> QED BY <1>1, <1>2, <1>3, <1>5, <1>6, Zenon

\* A place a frame of the line may be at.
Fits(line, place) == \/ line = 0 /\ place \in {"body", "eoi", "switch", "exit"}
                     \/ line = KEYBOARD /\ place \in {"entry", "body", "eoi", "exit"}

\* What a handler that goes on leaves of its stack.
LEMMA MovedShape ==
  ASSUME NEW s, Nested(s), Len(s) > 0, NEW to, NEW r, Moved(s, to, r),
         Fits(s[Len(s)].line, to), to # "entry"
  PROVE  /\ Nested(r) /\ (Handles(r) <=> Handles(s))
         /\ r[Len(r)].line = s[Len(s)].line /\ r[Len(r)].at = to
         /\ s[Len(s)].line = 0 => (Served(r) <=> Served(s))
         /\ s[Len(s)].line = KEYBOARD => Len(s) = 1 /\ (Served(r) <=> to # "exit")
<1>1. /\ s \in Seq(Lines!Frame) /\ Len(s) \in 1..2
      /\ \A i \in 1..Len(s) : Fits(s[i].line, s[i].at)
      /\ Len(s) = 2 => s[1].line = KEYBOARD /\ s[1].at = "entry" /\ s[2].line = 0
  BY DEF Nested, Fits
<1>2. /\ r \in Seq(Lines!Frame) /\ Len(r) = Len(s)
      /\ \A i \in 1..Len(s) : r[i] = IF i = Len(s) THEN [s[i] EXCEPT !.at = to] ELSE s[i]
  BY DEF Moved
<1>3. s[Len(s)] \in Lines!Frame
  BY <1>1, ElementOfSeq
<1>4. r[Len(s)].line = s[Len(s)].line /\ r[Len(s)].at = to
  <2>1. r[Len(s)] = [s[Len(s)] EXCEPT !.at = to]
    BY <1>1, <1>2
  <2>2. PICK e : e = s[Len(s)]
    OBVIOUS
  <2> QED BY <1>3, <2>1, <2>2 DEF Lines!Frame
<1>5. CASE Len(s) = 1
  BY <1>1, <1>2, <1>4, <1>5 DEF Nested, Fits, Handles, Served, KEYBOARD
<1>6. CASE Len(s) = 2
  <2>1. r[1] = s[1]
    BY <1>2, <1>6
  <2> QED BY <1>1, <1>2, <1>4, <1>6, <2>1 DEF Nested, Fits, Handles, Served, KEYBOARD
<1> QED BY <1>1, <1>5, <1>6

\* The handlers' steps that leave the stack as high as it is.
LEMMA CliKeeps == ASSUME LinesInv, Lines!Cli PROVE LinesInv'
<1> PICK s : s = stack[l_current]
  OBVIOUS
<1>1. /\ s \in Seq(Lines!Frame) /\ Nested(s) /\ Len(s) \in 1..2 /\ s[Len(s)].at = "entry"
      /\ \E r : Moved(s, "body", r) /\ stack' = [stack EXCEPT ![l_current] = r]
  BY Gone DEF Lines!Cli, Lines!Place
<1>2. PICK r : Moved(s, "body", r) /\ stack' = [stack EXCEPT ![l_current] = r]
  BY <1>1
<1>3. s[Len(s)].line = KEYBOARD
  BY <1>1 DEF Nested
<1>4. /\ Nested(r) /\ (Handles(r) <=> Handles(s))
      /\ r[Len(r)].line = KEYBOARD /\ Served(r) /\ Len(s) = 1
  BY <1>1, <1>2, <1>3, MovedShape DEF Fits
<1>5. Served(s) /\ ~TimerServed(s) /\ ~TimerServed(r)
  BY <1>1, <1>3, <1>4 DEF Served, Handles, TimerServed, KEYBOARD
<1>6. KEYBOARD \in isr /\ 0 \notin isr
  BY <1>5 DEF LinesInv
<1>7. isr' = isr /\ l_current' = l_current /\ l_current \in Lines!Task /\ Lists'
  BY DEF Lines!Cli, Lines!picVars, Lines!taskVars, LinesInv, Lists
<1>8. r \in Seq(Lines!Frame)
  BY <1>2 DEF Moved
<1>9. Restacked(s, r)
  BY <1>2, <1>4, <1>5, <1>6, <1>7, <1>8, Zenon DEF Restacked
<1> QED BY <1>9, StackStep
LEMMA BodyKeeps == ASSUME Lines!IrqsAssumption, LinesInv, Lines!Body PROVE LinesInv'
<1> PICK s : s = stack[l_current]
  OBVIOUS
<1> DEFINE top == Lines!Top(l_current)
<1>1. Lines!At("body") /\ Lines!Goto("eoi")
  BY DEF Lines!Body, Lines!Goes, Lines!After
<1>2. /\ s \in Seq(Lines!Frame) /\ Nested(s) /\ Len(s) \in 1..2
      /\ s[Len(s)].at = "body" /\ s[Len(s)] = top
      /\ \E r : Moved(s, "eoi", r) /\ stack' = [stack EXCEPT ![l_current] = r]
  BY <1>1, Gone DEF Lines!Place
<1>3. PICK r : Moved(s, "eoi", r) /\ stack' = [stack EXCEPT ![l_current] = r]
  BY <1>2
<1>4. s[Len(s)].line \in {0, KEYBOARD} /\ Fits(s[Len(s)].line, "eoi")
  BY <1>2 DEF Nested, Fits
<1>5. /\ Nested(r) /\ (Handles(r) <=> Handles(s))
      /\ r[Len(r)].line = s[Len(s)].line /\ r[Len(r)].at = "eoi"
      /\ s[Len(s)].line = 0 => (Served(r) <=> Served(s))
      /\ s[Len(s)].line = KEYBOARD => Len(s) = 1 /\ Served(r)
  <2>1. Len(s) > 0 /\ "eoi" \notin {"entry", "exit"}
    <3>1. Len(s) \in 1..2
      BY <1>2, Zenon
    <3> QED BY <3>1
  <2> QED BY <1>2, <1>3, <1>4, <2>1, MovedShape
<1>6. r \in Seq(Lines!Frame) /\ Len(r) = Len(s)
  BY <1>3 DEF Moved
<1>7. TimerServed(s) <=> TimerServed(r)
  BY <1>2, <1>5, <1>6 DEF TimerServed
<1>8. Served(s) <=> Served(r)
  BY <1>2, <1>4, <1>5 DEF Served, Handles
<1>9. 0 \in isr <=> TimerServed(s)
  BY DEF LinesInv
<1>10. Served(s) => KEYBOARD \in isr
  BY DEF LinesInv
<1>11. messages' \in [Driver -> Seq(Lines!Line \cup {Lines!Call})]
  <2>1. CASE top.line \in {0, 7}
    BY <2>1 DEF Lines!Body, LinesInv, Lists
  <2>2. CASE top.line \notin {0, 7}
    <3>1. top.line = KEYBOARD /\ KEYBOARD \in Lines!Line
      BY <1>2, <1>4, <2>2 DEF Lines!Line, KEYBOARD
    <3>2. messages' = Lines!Told(KEYBOARD)
      BY <2>2, <3>1 DEF Lines!Body
    <3>3. ASSUME NEW d \in Driver
          PROVE  /\ Lines!Times(d, IRQs[KEYBOARD]) \in Nat
                 /\ messages[d] \in Seq(Lines!Line \cup {Lines!Call})
      <4>1. PICK S : S = {j \in DOMAIN IRQs[KEYBOARD] : IRQs[KEYBOARD][j] = d}
        OBVIOUS
      <4>2. IRQs[KEYBOARD] \in Seq(Driver)
        BY <3>1, Zenon DEF LinesInv, Lists
      <4>3. DOMAIN IRQs[KEYBOARD] = 1..Len(IRQs[KEYBOARD]) /\ Len(IRQs[KEYBOARD]) \in Int
        BY <4>2, LenProperties
      <4>4. S \in SUBSET (1..Len(IRQs[KEYBOARD])) /\ 1 \in Int
        BY <4>1, <4>3
      <4>5. IsFiniteSet(S)
        BY <4>3, <4>4, FS_Interval, FS_Subset
      <4>6. Cardinality(S) \in Nat
        BY <4>5, FS_CardinalityType
      <4>7. Lines!Times(d, IRQs[KEYBOARD]) = Cardinality(S)
        BY <4>1, Zenon DEF Lines!Times, Lines!Cardinality, Cardinality
      <4> QED BY <4>6, <4>7, Zenon DEF LinesInv, Lists
    <3>4. ASSUME NEW d \in Driver
          PROVE  messages[d] \o [i \in 1..Lines!Times(d, IRQs[KEYBOARD]) |-> KEYBOARD]
                   \in Seq(Lines!Line \cup {Lines!Call})
      <4>1. PICK n : n = Lines!Times(d, IRQs[KEYBOARD])
        OBVIOUS
      <4>2. [i \in 1..n |-> KEYBOARD] \in Seq(Lines!Line \cup {Lines!Call})
        BY <3>1, <3>3, <4>1
      <4> QED BY <3>3, <4>1, <4>2, ConcatProperties
    <3> QED BY <3>2, <3>4 DEF Lines!Told
  <2> QED BY <2>1, <2>2
<1>12. isr' = isr /\ l_current' = l_current /\ l_current \in Lines!Task /\ Lists'
  BY <1>11 DEF Lines!Body, Lines!picVars, LinesInv, Lists
<1>13. Restacked(s, r)
  BY <1>3, <1>5, <1>6, <1>7, <1>8, <1>9, <1>10, <1>12, Zenon DEF Restacked
<1> QED BY <1>13, StackStep
\* Of the two lines in service the timer's comes first.
LEMMA FirstServed ==
  ASSUME NEW S, S \subseteq {0, KEYBOARD}
  PROVE  /\ 0 \in S => Lines!First(S) = 0 /\ Lines!Ended(S) = S \ {0}
         /\ S = {KEYBOARD} => Lines!First(S) = KEYBOARD /\ Lines!Ended(S) = {}
         /\ S \cap Lines!Low = S
<1> USE DEF KEYBOARD
<1>1. S \cap Lines!Low = S
  <2>1. \A x \in S : x \in Lines!Low
    BY DEF Lines!Low
  <2> QED BY <2>1, Zenon
<1>2. Lines!Rank(0) = 0 /\ Lines!Rank(KEYBOARD) = 10
  BY DEF Lines!Rank, Lines!High, Lines!CASCADE
<1>3. ASSUME 0 \in S PROVE Lines!First(S) = 0
  <2>1. \A k \in S : Lines!Rank(0) <= Lines!Rank(k)
    BY <1>2
  <2>2. \A l \in S : (\A k \in S : Lines!Rank(l) <= Lines!Rank(k)) => l = 0
    BY <1>2, <1>3
  <2> QED BY <1>3, <2>1, <2>2 DEF Lines!First
<1>4. ASSUME S = {KEYBOARD} PROVE Lines!First(S) = KEYBOARD
  <2>1. \A k \in S : Lines!Rank(KEYBOARD) <= Lines!Rank(k)
    BY <1>2, <1>4
  <2> QED BY <1>4, <2>1, Zenon DEF Lines!First
<1>5. S # {} => Lines!Ended(S) = S \ {Lines!First(S)}
  BY <1>1, Zenon DEF Lines!Ended
<1> QED BY <1>1, <1>3, <1>4, <1>5

\* What is in service when a handler ends the interrupt is its own line's, first.
LEMMA EndsOwn ==
  ASSUME LinesInv, Lines!At("eoi"), NEW s, s = stack[l_current]
  PROVE  /\ Len(s) > 0 /\ s[Len(s)] = Lines!Top(l_current) /\ s[Len(s)].at = "eoi"
         /\ \/ s[Len(s)].line = 0 /\ 0 \in isr
            \/ s[Len(s)].line = KEYBOARD /\ Len(s) = 1 /\ isr = {KEYBOARD}
<1> USE DEF KEYBOARD
<1>1. s \in Seq(Lines!Frame) /\ Nested(s) /\ s # <<>>
  BY DEF LinesInv, Lines!At, Lines!Busy
<1>2. Len(s) \in 1..2
  BY <1>1, EmptySeq DEF Nested
<1>3. Lines!Top(l_current) = s[Len(s)] /\ s[Len(s)].at = "eoi"
  BY Zenon DEF Lines!At, Lines!Top, Lines!Last
<1>4. CASE s[Len(s)].line = 0
  <2>1. Len(s) > 0
    BY <1>2
  <2>2. TimerServed(s)
    BY <1>3, <1>4, <2>1 DEF TimerServed
  <2>3. 0 \in isr
    BY <2>2, Zenon DEF LinesInv
  <2> QED BY <1>3, <1>4, <2>1, <2>3
<1>5. CASE s[Len(s)].line # 0
  <2>1. s[Len(s)].line = KEYBOARD /\ Len(s) = 1
    BY <1>1, <1>2, <1>5 DEF Nested
  <2>2. Served(s) /\ ~TimerServed(s)
    BY <1>3, <2>1 DEF Served, Handles, TimerServed
  <2>3. KEYBOARD \in isr /\ 0 \notin isr /\ isr \subseteq {0, KEYBOARD}
    BY <2>2 DEF LinesInv, Lists
  <2>4. isr = {KEYBOARD}
    BY <2>3
  <2>5. Len(s) > 0
    BY <1>2
  <2> QED BY <1>3, <2>1, <2>4, <2>5
<1> QED BY <1>4, <1>5

LEMMA EoiKeeps == ASSUME LinesInv, Lines!Eoi PROVE LinesInv'
<1> PICK s : s = stack[l_current]
  OBVIOUS
<1> USE DEF KEYBOARD
<1>1. Lines!At("eoi") /\ isr \subseteq {0, KEYBOARD}
  BY DEF Lines!Eoi, Lines!Goes, LinesInv, Lists
<1>2. /\ Len(s) > 0 /\ s[Len(s)] = Lines!Top(l_current) /\ s[Len(s)].at = "eoi"
      /\ \/ s[Len(s)].line = 0 /\ 0 \in isr
         \/ s[Len(s)].line = KEYBOARD /\ Len(s) = 1 /\ isr = {KEYBOARD}
  BY <1>1, EndsOwn
<1>3. PICK to : to = Lines!After("eoi", Lines!Top(l_current).line)
  OBVIOUS
<1>4. Lines!Goto(to)
  BY <1>3 DEF Lines!Eoi, Lines!Goes
<1>5. /\ isr' = Lines!Ended(isr) /\ imr' = imr /\ irr' = irr /\ l_current' = l_current
      /\ IRQs' = IRQs /\ messages' = messages /\ waiting' = waiting
      /\ l_current \in Lines!Task /\ Lists
  BY DEF Lines!Eoi, Lines!taskVars, LinesInv
<1>6. CASE s[Len(s)].line = 0 /\ 0 \in isr
  <2>1. to = "switch" /\ to \in Lines!Place /\ Fits(0, to)
    BY <1>2, <1>3, <1>6 DEF Lines!After, Lines!Place, Fits
  <2>2. /\ s \in Seq(Lines!Frame) /\ Nested(s)
        /\ \E r : Moved(s, to, r) /\ stack' = [stack EXCEPT ![l_current] = r]
    BY <1>1, <1>4, <2>1, Gone
  <2>3. PICK r : Moved(s, to, r) /\ stack' = [stack EXCEPT ![l_current] = r]
    BY <2>2
  <2>4. /\ Nested(r) /\ (Handles(r) <=> Handles(s))
        /\ r[Len(r)].line = 0 /\ r[Len(r)].at = "switch"
        /\ Served(r) <=> Served(s)
    BY <1>2, <1>6, <2>1, <2>2, <2>3, MovedShape
  <2>5. isr' = isr \ {0}
    BY <1>1, <1>5, <1>6, FirstServed
  <2>6. 0 \notin isr' /\ (KEYBOARD \in isr' <=> KEYBOARD \in isr) /\ ~TimerServed(r)
    BY <2>4, <2>5 DEF TimerServed
  <2>7. Served(s) => KEYBOARD \in isr
    BY DEF LinesInv
  <2>8. Lists' /\ r \in Seq(Lines!Frame)
    BY <1>5, <2>3, <2>5 DEF Lists, Moved
  <2>9. Restacked(s, r)
    BY <1>5, <2>3, <2>4, <2>6, <2>7, <2>8, Zenon DEF Restacked
  <2> QED BY <2>9, StackStep
<1>7. CASE s[Len(s)].line = KEYBOARD /\ Len(s) = 1 /\ isr = {KEYBOARD}
  <2>1. to = "exit" /\ to \in Lines!Place /\ Fits(KEYBOARD, to)
    BY <1>2, <1>3, <1>7 DEF Lines!After, Lines!Place, Fits
  <2>2. /\ s \in Seq(Lines!Frame) /\ Nested(s)
        /\ \E r : Moved(s, to, r) /\ stack' = [stack EXCEPT ![l_current] = r]
    BY <1>1, <1>4, <2>1, Gone
  <2>3. PICK r : Moved(s, to, r) /\ stack' = [stack EXCEPT ![l_current] = r]
    BY <2>2
  <2>4. /\ Nested(r) /\ (Handles(r) <=> Handles(s)) /\ ~Served(r)
        /\ r[Len(r)].line = KEYBOARD /\ r[Len(r)].at = "exit"
    BY <1>2, <1>7, <2>1, <2>2, <2>3, MovedShape
  <2>5. isr' = {}
    BY <1>5, <1>7, FirstServed
  <2>6. ~TimerServed(r) /\ Served(s)
    BY <1>2, <1>7, <2>4 DEF TimerServed, Served, Handles
  <2>7. Lists' /\ r \in Seq(Lines!Frame)
    BY <1>5, <2>3, <2>5 DEF Lists, Moved
  <2>8. 0 \notin isr' /\ KEYBOARD \notin isr'
    BY <2>5
  <2>9. Restacked(s, r)
    BY <1>5, <2>3, <2>4, <2>6, <2>7, <2>8, Zenon DEF Restacked
  <2> QED BY <2>9, StackStep
<1> QED BY <1>2, <1>6, <1>7
LEMMA SwitchKeeps == ASSUME LinesInv, Lines!Switch PROVE LinesInv'
<1> PICK s : s = stack[l_current]
  OBVIOUS
<1> USE DEF KEYBOARD
<1>1. Lines!At("switch") /\ Lines!Goto("exit")
  BY DEF Lines!Switch, Lines!Goes, Lines!After
<1>2. /\ s \in Seq(Lines!Frame) /\ Nested(s) /\ Len(s) \in 1..2 /\ s[Len(s)].at = "switch"
      /\ \E r : Moved(s, "exit", r) /\ stack' = [stack EXCEPT ![l_current] = r]
  BY <1>1, Gone DEF Lines!Place
<1>3. PICK r : Moved(s, "exit", r) /\ stack' = [stack EXCEPT ![l_current] = r]
  BY <1>2
<1>4. s[Len(s)].line = 0 /\ Len(s) > 0
  <2>1. Len(s) \in 1..2 /\ Nested(s) /\ s[Len(s)].at = "switch"
    BY <1>2, Zenon
  <2> QED BY <2>1 DEF Nested
<1>5. /\ Nested(r) /\ (Handles(r) <=> Handles(s))
      /\ r[Len(r)].line = 0 /\ r[Len(r)].at = "exit"
      /\ Served(r) <=> Served(s)
  BY <1>2, <1>3, <1>4, MovedShape DEF Fits
<1>6. ~TimerServed(s) /\ ~TimerServed(r) /\ Left(r)
  BY <1>2, <1>4, <1>5 DEF TimerServed, Left
<1>7. 0 \notin isr /\ (Served(s) => KEYBOARD \in isr)
  BY <1>6 DEF LinesInv
<1>8. /\ isr' = isr /\ imr' = imr /\ irr' = irr
      /\ IRQs' = IRQs /\ messages' = messages /\ waiting' = waiting
      /\ l_current' \in Lines!Task
  BY DEF Lines!Switch, Lines!Others, Lines!picVars, Lines!taskVars, LinesInv
<1>9. Lists' /\ r \in Seq(Lines!Frame)
  BY <1>3, <1>8 DEF LinesInv, Lists, Moved
<1>10. Restacked(s, r)
  BY <1>3, <1>5, <1>6, <1>7, <1>8, <1>9, Zenon DEF Restacked
<1> QED BY <1>10, StackStep

LEMMA ExitKeeps == ASSUME LinesInv, Lines!Exit PROVE LinesInv'
<1> PICK s : s = stack[l_current]
  OBVIOUS
<1> USE DEF KEYBOARD
<1>1. s \in Seq(Lines!Frame) /\ Nested(s) /\ s # <<>> /\ s[Len(s)].at = "exit"
  BY DEF LinesInv, Lines!Exit, Lines!At, Lines!Busy, Lines!Top, Lines!Last
<1>2. Len(s) \in 1..2
  BY <1>1, EmptySeq DEF Nested
<1>3. PICK r : r = SubSeq(s, 1, Len(s) - 1)
  OBVIOUS
<1>4. /\ r \in Seq(Lines!Frame) /\ Len(r) = Len(s) - 1
      /\ \A i \in 1..(Len(s) - 1) : r[i] = s[i]
  BY <1>1, <1>2, <1>3, SubSeqProperties
<1>5. stack' = [stack EXCEPT ![l_current] = r]
  BY <1>3 DEF Lines!Exit, Lines!Front
<1>6. /\ Nested(r) /\ (Handles(r) => Handles(s)) /\ (Served(r) <=> Served(s))
      /\ ~TimerServed(r) /\ ~TimerServed(s)
  <2>1. CASE Len(s) = 1
    BY <1>1, <1>4, <2>1 DEF Nested, Handles, Served, TimerServed
  <2>2. CASE Len(s) = 2
    <3>1. /\ Len(r) = 1 /\ r[1] = s[1] /\ s[2].at = "exit" /\ s[2].line = 0
          /\ s[1].line = KEYBOARD /\ s[1].at = "entry"
      BY <1>1, <1>4, <2>2 DEF Nested
    <3> QED BY <1>4, <2>2, <3>1 DEF Nested, Handles, Served, TimerServed
  <2> QED BY <1>2, <2>1, <2>2
<1>7. 0 \notin isr /\ (Served(s) => KEYBOARD \in isr)
  BY <1>6 DEF LinesInv
<1>8. isr' = isr /\ l_current' = l_current /\ l_current \in Lines!Task /\ Lists'
  BY DEF Lines!Exit, Lines!picVars, Lines!taskVars, LinesInv, Lists
<1>9. Restacked(s, r)
  BY <1>4, <1>5, <1>6, <1>7, <1>8, Zenon DEF Restacked
<1> QED BY <1>9, StackStep

\* Nothing is accepted but by a program, or by the keyboard's handler before its cli.
LEMMA AcceptKeeps ==
  ASSUME LinesInv, NEW l \in {0, KEYBOARD}, Lines!Accept(l) PROVE LinesInv'
<1> PICK s : s = stack[l_current]
  OBVIOUS
<1> USE DEF KEYBOARD
<1>1. s \in Seq(Lines!Frame) /\ Nested(s) /\ Len(s) \in 0..2
  BY DEF LinesInv, Nested
<1>2. Len(s) = 0 \/ (Len(s) = 1 /\ s[1].at = "entry" /\ s[1].line = KEYBOARD)
  <2>1. Len(s) = 0 \/ s[Len(s)].at = "entry"
    BY <1>1, EmptySeq
       DEF Lines!Accept, Lines!On, Lines!Busy, Lines!Open, Lines!Top, Lines!Last
  <2> QED BY <1>1, <2>1 DEF Nested
<1>3. PICK e : e = [line |-> l, at |-> IF l = 0 THEN "body" ELSE "entry"]
  OBVIOUS
<1>4. PICK r : r = Append(s, e)
  OBVIOUS
<1>5. e \in Lines!Frame /\ e.line = l /\ e.at = (IF l = 0 THEN "body" ELSE "entry")
  BY <1>3 DEF Lines!Frame, Lines!Line, Lines!Place
<1>6. /\ r \in Seq(Lines!Frame) /\ Len(r) = Len(s) + 1 /\ r[Len(s) + 1] = e
      /\ \A i \in 1..Len(s) : r[i] = s[i]
  BY <1>1, <1>4, <1>5, AppendProperties
<1>7. stack' = [stack EXCEPT ![l_current] = r]
  <2>1. Lines!VectorOf(l) = 32 + l
    BY DEF Lines!VectorOf, Lines!High
  <2>2. Lines!HandlerOf(32 + l) = l /\ (32 + l = 32 <=> l = 0)
    BY DEF Lines!HandlerOf
  <2>3. Lines!Begins(32 + l) = IF l = 0 THEN "body" ELSE "entry"
    BY <2>2 DEF Lines!Begins, Lines!Gate
  <2>4. PICK v : v = Lines!VectorOf(l)
    OBVIOUS
  <2>5. e = [line |-> Lines!HandlerOf(v), at |-> Lines!Begins(v)]
    BY <1>3, <2>1, <2>2, <2>3, <2>4, Zenon
  <2>6. stack' = [stack EXCEPT ![l_current] =
                    Append(@, [line |-> Lines!HandlerOf(v), at |-> Lines!Begins(v)])]
    BY <2>4, Zenon DEF Lines!Accept
  <2> QED BY <1>4, <2>5, <2>6, Zenon
<1>8. /\ isr' = isr \cup {l} /\ irr' = irr \ {l} /\ imr' = imr
      /\ IRQs' = IRQs /\ messages' = messages /\ waiting' = waiting
      /\ l_current' = l_current /\ l_current \in Lines!Task
  <2>1. Lines!MasterLine(l) = l
    BY DEF Lines!MasterLine, Lines!High
  <2> QED BY <2>1 DEF Lines!Accept, Lines!taskVars, LinesInv
<1>9. Lists'
  BY <1>8 DEF LinesInv, Lists
<1>10. CASE l = 0
  <2>1. /\ Nested(r) /\ TimerServed(r) /\ (Handles(r) <=> Handles(s))
        /\ Served(r) <=> Served(s)
    <3>1. CASE Len(s) = 0
      BY <1>5, <1>6, <1>10, <3>1 DEF Nested, Handles, Served, TimerServed
    <3>2. CASE Len(s) = 1
      BY <1>2, <1>5, <1>6, <1>10, <3>2 DEF Nested, Handles, Served, TimerServed
    <3> QED BY <1>2, <3>1, <3>2
  <2>2. Served(s) => KEYBOARD \in isr
    BY DEF LinesInv
  <2>3. 0 \in isr' /\ (KEYBOARD \in isr' <=> KEYBOARD \in isr)
    BY <1>8, <1>10
  <2>4. Restacked(s, r)
    BY <1>6, <1>7, <1>8, <1>9, <2>1, <2>2, <2>3, Zenon DEF Restacked
  <2> QED BY <2>4, StackStep
<1>11. CASE l = KEYBOARD
  <2>1. Lines!Deliverable(KEYBOARD)
    BY <1>11 DEF Lines!Accept
  <2>2. KEYBOARD \notin isr
    BY <2>1 DEF Lines!Deliverable, Lines!MasterLine, Lines!High, Lines!InService, Lines!Low
  <2>3. ASSUME NEW t \in Lines!Task PROVE ~Handles(stack[t])
    <3>1. ~Served(stack[t]) /\ Nested(stack[t])
      BY <2>2, Zenon DEF LinesInv
    <3>2. CASE t = l_current
      BY <1>2, <3>1, <3>2 DEF Served, Handles
    <3>3. CASE t # l_current
      <4>1. Left(stack[t])
        BY <3>3 DEF LinesInv
      <4>2. PICK u : u = stack[t]
        OBVIOUS
      <4>3. Handles(u) => Len(u) = 2 /\ u[1].at = "entry"
        BY <3>1, <4>1, <4>2 DEF Nested, Left, Handles
      <4> QED BY <3>1, <4>2, <4>3 DEF Served
    <3> QED BY <3>2, <3>3
  <2>4. Len(s) = 0
    BY <1>2, <2>3, <1>8 DEF Handles
  <2>5. Nested(r) /\ ~TimerServed(r) /\ Served(r) /\ ~TimerServed(s) /\ ~Served(s)
    BY <1>5, <1>6, <1>11, <2>4 DEF Nested, Handles, Served, TimerServed
  <2>6. 0 \notin isr
    BY <2>5 DEF LinesInv
  <2>7. 0 \notin isr' /\ KEYBOARD \in isr'
    BY <1>8, <1>11, <2>6
  <2>8. Restacked(s, r)
    BY <1>6, <1>7, <1>8, <1>9, <2>3, <2>5, <2>7, Zenon DEF Restacked
  <2> QED BY <2>8, StackStep
<1> QED BY <1>10, <1>11
\* The devices and the programs leave the stacks alone; a driver that waits, with
\* nothing on its own, gives the processor to a task that was left in order.
LEMMA DevicesKeep ==
  ASSUME LinesInv, NEW l \in {0, KEYBOARD},
         Lines!Fire(l) \/ (l = KEYBOARD /\ (Lines!Attach(l) \/ Lines!Unmask(l)))
  PROVE  LinesInv'
<1> USE DEF Lines!picVars, Lines!taskVars, KEYBOARD
<1>1. /\ stack' = stack /\ l_current' = l_current /\ isr' = isr
      /\ messages' = messages /\ waiting' = waiting
  BY DEF Lines!Fire, Lines!Attach, Lines!Unmask
<1>2. Lists'
  <2>1. CASE Lines!Fire(l)
    BY <2>1 DEF Lines!Fire, LinesInv, Lists
  <2>2. CASE Lines!Unmask(l)
    BY <2>2 DEF Lines!Unmask, LinesInv, Lists
  <2>3. CASE Lines!Attach(l)
    <3>1. /\ l_current \in Driver /\ IRQs' = [IRQs EXCEPT ![l] = Append(@, l_current)]
          /\ imr' = imr /\ irr' = irr /\ Lists
      BY <2>3 DEF Lines!Attach, LinesInv
    <3>2. PICK q : q = Append(IRQs[l], l_current)
      OBVIOUS
    <3>3. IRQs[l] \in Seq(Driver) /\ IRQs \in [Lines!Line -> Seq(Driver)]
      <4>1. l \in Lines!Line
        BY DEF Lines!Line
      <4>2. IRQs \in [Lines!Line -> Seq(Driver)]
        BY <3>1, Zenon DEF Lists
      <4> QED BY <4>1, <4>2
    <3>4. q \in Seq(Driver)
      BY <3>1, <3>2, <3>3, AppendProperties
    <3>5. IRQs' \in [Lines!Line -> Seq(Driver)]
      BY <3>1, <3>2, <3>3, <3>4
    <3> QED BY <1>1, <3>1, <3>5 DEF Lists
  <2> QED BY <2>1, <2>2, <2>3
<1> QED BY <1>1, <1>2, Zenon DEF LinesInv

LEMMA ProgramsKeep ==
  ASSUME LinesInv, Lines!Receive \/ \E d \in Driver : Lines!Send(d) PROVE LinesInv'
<1> USE DEF Lines!picVars, KEYBOARD
<1>1. /\ stack' = stack /\ isr' = isr /\ imr' = imr /\ irr' = irr /\ IRQs' = IRQs
      /\ l_current \in Lines!Task /\ l_current' \in Lines!Task /\ stack[l_current] = <<>>
  BY DEF Lines!Receive, Lines!Send, Lines!Others, Lines!Busy, LinesInv
<1>2. messages' \in [Driver -> Seq(Lines!Line \cup {Lines!Call})]
  <2>1. CASE Lines!Receive
    <3>1. CASE messages[l_current] = <<>>
      BY <2>1, <3>1 DEF Lines!Receive, LinesInv, Lists
    <3>2. CASE messages[l_current] # <<>>
      <4>1. /\ messages' = [messages EXCEPT ![l_current] = Tail(@)] /\ l_current \in Driver
            /\ messages \in [Driver -> Seq(Lines!Line \cup {Lines!Call})]
        BY <2>1, <3>2 DEF Lines!Receive, LinesInv, Lists
      <4>2. PICK q : q = Tail(messages[l_current])
        OBVIOUS
      <4>3. q \in Seq(Lines!Line \cup {Lines!Call})
        BY <3>2, <4>1, <4>2, HeadTailProperties
      <4> QED BY <4>1, <4>2, <4>3
    <3> QED BY <3>1, <3>2
  <2>2. ASSUME NEW d \in Driver, Lines!Send(d)
        PROVE  messages' \in [Driver -> Seq(Lines!Line \cup {Lines!Call})]
    <3>1. /\ messages' = [messages EXCEPT ![d] = Append(@, Lines!Call)]
          /\ messages \in [Driver -> Seq(Lines!Line \cup {Lines!Call})]
      BY <2>2 DEF Lines!Send, LinesInv, Lists
    <3>2. PICK q : q = Append(messages[d], Lines!Call)
      OBVIOUS
    <3>3. q \in Seq(Lines!Line \cup {Lines!Call})
      BY <3>1, <3>2, AppendProperties
    <3> QED BY <3>1, <3>2, <3>3
  <2> QED BY <2>1, <2>2
<1>3. waiting' \in [Driver -> BOOLEAN]
  BY DEF Lines!Receive, Lines!Send, LinesInv, Lists
<1>4. Lists'
  BY <1>1, <1>2, <1>3 DEF LinesInv, Lists
<1>5. ~TimerServed(stack[l_current]) /\ Left(stack[l_current])
  <2>1. Len(stack[l_current]) = 0
    BY <1>1
  <2> QED BY <2>1 DEF TimerServed, Left
<1>6. \A t \in Lines!Task : Left(stack[t])
  BY <1>5, Zenon DEF LinesInv
<1>7. ~TimerServed(stack[l_current'])
  BY <1>1, <1>6 DEF TimerServed, Left
<1>8. 0 \in isr' <=> TimerServed(stack[l_current'])
  BY <1>1, <1>5, <1>7, Zenon DEF LinesInv
<1> QED BY <1>1, <1>4, <1>6, <1>8, Zenon DEF LinesInv

LEMMA LinesInit == Lines!Init => LinesInv
<1> SUFFICES ASSUME Lines!Init PROVE LinesInv
  OBVIOUS
<1>1. /\ \A t \in Lines!Task : stack[t] = <<>>
      /\ isr = {} /\ l_current \in Lines!Task /\ stack \in [Lines!Task -> Seq(Lines!Frame)]
  BY DEF Lines!Init, Lines!Task
<1>2. Lists
  BY DEF Lines!Init, Lists
<1>3. /\ Nested(<<>>) /\ Left(<<>>) /\ ~TimerServed(<<>>) /\ ~Handles(<<>>)
  BY DEF Nested, Left, TimerServed, Handles
<1> QED BY <1>1, <1>2, <1>3 DEF LinesInv, Served

LEMMA LinesNext ==
  ASSUME Lines!IrqsAssumption, LinesInv, [Lines!Next]_lineVars PROVE LinesInv'
<1>1. Lines!Wanted \subseteq {KEYBOARD}
  BY DEF Lines!Wanted
<1>2. CASE UNCHANGED lineVars
  BY <1>2 DEF lineVars, LinesInv, Lists
<1>3. CASE Lines!Next
  <2>1. ASSUME NEW l \in Lines!Wanted \cup {0}, Lines!Fire(l) \/ Lines!Accept(l)
        PROVE  LinesInv'
    BY <1>1, <2>1, DevicesKeep, AcceptKeeps
  <2>2. ASSUME NEW l \in Lines!Wanted, Lines!Attach(l) \/ Lines!Unmask(l) PROVE LinesInv'
    BY <1>1, <2>2, DevicesKeep
  <2> QED BY <1>3, <2>1, <2>2, CliKeeps, BodyKeeps, EoiKeeps, SwitchKeeps, ExitKeeps,
             ProgramsKeep DEF Lines!Next
<1> QED BY <1>2, <1>3
\* On one stack the keyboard's handler is the first, and each line is there once.
LEMMA NestedLines ==
  ASSUME NEW s, Nested(s), NEW i \in 1..Len(s)
  PROVE  /\ s[i].line \in {0, KEYBOARD}
         /\ s[i].line = KEYBOARD => i = 1 /\ Handles(s)
         /\ \A j \in 1..Len(s) : s[i].line = 0 /\ s[j].line = 0 => i = j
<1> USE DEF KEYBOARD
<1>1. Len(s) \in 1..2
  BY DEF Nested
<1>2. CASE Len(s) = 1
  BY <1>2 DEF Nested, Handles
<1>3. CASE Len(s) = 2
  BY <1>3 DEF Nested, Handles
<1> QED BY <1>1, <1>2, <1>3

\* No line is handled twice at a time, and the timer once a task.
LEMMA LinesOnce == LinesInv => Lines!OnceEach
<1> SUFFICES ASSUME LinesInv, NEW f \in Lines!Frames, NEW g \in Lines!Frames,
                    f # g, Lines!FrameAt(f).line = Lines!FrameAt(g).line
             PROVE  Lines!FrameAt(f).line = 0 /\ f[1] # g[1]
  BY DEF Lines!OnceEach
<1>1. PICK t \in Lines!Task, i \in 1..(3 + FIRES) : f = <<t, i>> /\ i <= Len(stack[t])
  BY DEF Lines!Frames
<1>2. PICK u \in Lines!Task, j \in 1..(3 + FIRES) : g = <<u, j>> /\ j <= Len(stack[u])
  BY DEF Lines!Frames
<1>3. PICK p, q : p = stack[t] /\ q = stack[u]
  OBVIOUS
<1>4. /\ Nested(p) /\ Nested(q) /\ (Handles(p) /\ Handles(q) => t = u)
      /\ p[i].line = q[j].line /\ Lines!FrameAt(f).line = p[i].line
  BY <1>1, <1>2, <1>3 DEF LinesInv, Lines!FrameAt
<1>5. i \in 1..Len(p) /\ j \in 1..Len(q)
  BY <1>1, <1>2, <1>3, <1>4 DEF Nested
<1>6. CASE p[i].line = KEYBOARD
  <2>1. i = 1 /\ j = 1 /\ Handles(p) /\ Handles(q)
    BY <1>4, <1>5, <1>6, NestedLines
  <2>2. t = u
    BY <1>4, <2>1
  <2> QED BY <1>1, <1>2, <2>1, <2>2
<1>7. CASE p[i].line = 0
  <2>1. ASSUME t = u PROVE FALSE
    <3>1. i # j /\ p = q
      BY <1>1, <1>2, <1>3, <2>1
    <3> QED BY <1>4, <1>5, <1>7, <3>1, NestedLines
  <2> QED BY <1>1, <1>2, <1>4, <1>7, <2>1
<1> QED BY <1>4, <1>5, <1>6, <1>7, NestedLines

LEMMA LinesEnd == LinesInv => Lines!EndsItsOwn
<1> SUFFICES ASSUME LinesInv, Lines!At("eoi")
             PROVE  /\ Lines!InService # {}
                    /\ Lines!First(Lines!InService) = Lines!MasterLine(Lines!Top(l_current).line)
  BY DEF Lines!EndsItsOwn
<1> PICK s : s = stack[l_current]
  OBVIOUS
<1> USE DEF KEYBOARD
<1>1. /\ s[Len(s)] = Lines!Top(l_current)
      /\ \/ s[Len(s)].line = 0 /\ 0 \in isr
         \/ s[Len(s)].line = KEYBOARD /\ isr = {KEYBOARD}
  BY EndsOwn
<1>2. isr \subseteq {0, KEYBOARD}
  BY DEF LinesInv, Lists
<1>3. /\ Lines!InService = isr
      /\ 0 \in isr => Lines!First(isr) = 0
      /\ isr = {KEYBOARD} => Lines!First(isr) = KEYBOARD
  BY <1>2, FirstServed DEF Lines!InService
<1>4. Lines!MasterLine(0) = 0 /\ Lines!MasterLine(KEYBOARD) = KEYBOARD
  BY DEF Lines!MasterLine, Lines!High
<1> QED BY <1>1, <1>3, <1>4

LEMMA LinesTypes == LinesInv => Lines!TypeOK
<1> SUFFICES ASSUME LinesInv PROVE Lines!TypeOK
  OBVIOUS
<1>1. 0 \in Lines!Line /\ KEYBOARD \in Lines!Line
  BY DEF Lines!Line, KEYBOARD
<1>2. irr \subseteq Lines!Line /\ isr \subseteq Lines!Line
  BY <1>1 DEF LinesInv, Lists
<1> QED BY <1>2, Zenon DEF LinesInv, Lists, Lines!TypeOK

-----------------------------------------------------------------------------
(* Task switches, proved in SwitchingProofs *)

Switched == INSTANCE SwitchingProofs WITH
  Task <- Runner, current <- t_current, scheduler_running <- t_running

-----------------------------------------------------------------------------
(* The parts together *)

\* A step of the whole is one of each part, or none.
LEMMA PartsStep ==
  ASSUME [AllNext]_allVars
  PROVE  /\ [Next]_vars
         /\ [Tss!Next]_tssVars /\ [Lines!Next]_lineVars /\ [Trap!Next]_trapVars
BY DEF AllNext, allVars

\* However handlers nest and are switched away from, no line is handled twice at a
\* time, and the end of an interrupt ends the handler's own; and a program leaves
\* the trap with its own result unless it was overtaken (idt.h:16-27,
\* syscall.cpp:69-79).  For any number of drivers of the keyboard's line and any
\* number of programs.
THEOREM EntriesAlwaysSound == ASSUME PartsAssumption PROVE AllSpec => []EntriesSound
<1>1. AllInit => LinesInv /\ TrapInv
  BY LinesInit, TrapInit DEF AllInit
<1>2. LinesInv /\ TrapInv /\ [AllNext]_allVars => (LinesInv /\ TrapInv)'
  BY PartsStep, LinesNext, TrapNext DEF PartsAssumption
<1>3. LinesInv /\ TrapInv => EntriesSound
  <2>1. TrapInv => Trap!TypeOK /\ Trap!OwnResult
    BY DEF TrapInv, Carried, Trap!OwnResult
  <2> QED BY <2>1, LinesOnce, LinesEnd, LinesTypes DEF EntriesSound
<1> QED BY <1>1, <1>2, <1>3, PTL DEF AllSpec
\* A behaviour of the whole is one of the task switches: the definitions of Tss are
\* those of Switched.
LEMMA TssSpec == AllSpec => Switched!Spec
<1>1. Tss!Init = Switched!Init
  BY DEF Tss!Init, Switched!Init, Tss!Fresh, Switched!Fresh, Tss!Owner, Switched!Owner,
         Tss!None, Switched!None
<1>2. Tss!Next = Switched!Next
  BY DEF Tss!Next, Switched!Next, Tss!bootVars, Switched!bootVars, Tss!schedVars,
         Switched!schedVars, Tss!None, Switched!None, Tss!Owner, Switched!Owner,
         Tss!LAPS, Switched!LAPS, Tss!Segment, Switched!Segment, Tss!Tss, Switched!Tss,
         Tss!Added, Switched!Added, Tss!APP, Switched!APP, Tss!SCHED, Switched!SCHED,
         Tss!SEGMENTS, Switched!SEGMENTS, Tss!LimitAfter, Switched!LimitAfter,
         Tss!AddDescriptor, Switched!AddDescriptor, Tss!Install, Switched!Install,
         Tss!LoadTr, Switched!LoadTr, Tss!Allowed, Switched!Allowed, Tss!Jump,
         Switched!Jump, Tss!SlotOf, Switched!SlotOf, Tss!Sti, Switched!Sti,
         Tss!Starting, Switched!Starting, Tss!Start, Switched!Start, Tss!Wrapper,
         Switched!Wrapper, Tss!Run, Switched!Run, Tss!Work, Switched!Work, Tss!Block,
         Switched!Block, Tss!Wake, Switched!Wake, Tss!Switches, Switched!Switches,
         Tss!Tick, Switched!Tick, Tss!Halted, Switched!Halted,
         Tss!vars, Switched!vars
<1>3. AllInit => Switched!Init
  BY <1>1 DEF AllInit
<1>4. [AllNext]_allVars => [Switched!Next]_(Switched!vars)
  BY <1>2, PartsStep DEF tssVars, Switched!vars
<1> QED BY <1>3, <1>4, PTL DEF AllSpec, Switched!Spec

\* The task that runs is current, and no jump faults but a tick's before the
\* scheduler's cli and any task's run, for any number of tasks that wait, wake each
\* other and are interrupted in any order (task.cpp:56-58, 249, 335, 351).
THEOREM SwitchesAlwaysSound == ASSUME PartsAssumption PROVE AllSpec => []SwitchesSound
<1>1. Switched!SwitchingAssumption
  BY DEF PartsAssumption, Tss!SwitchingAssumption, Switched!SwitchingAssumption
<1>2. Switched!TypeOK /\ Switched!FaultsAtFirst /\ Switched!CurrentRuns => SwitchesSound
  BY DEF SwitchesSound, Tss!TypeOK, Switched!TypeOK, Tss!FaultsAtFirst, Switched!FaultsAtFirst, Tss!CurrentRuns,
         Switched!CurrentRuns, Tss!Descriptor, Switched!Descriptor, Tss!Context,
         Switched!Context, Tss!Owner, Switched!Owner, Tss!Place, Switched!Place,
         Tss!LAPS, Switched!LAPS, Tss!None, Switched!None, Tss!Added, Switched!Added,
         Tss!Segment, Switched!Segment, Tss!Tss, Switched!Tss, Tss!APP, Switched!APP,
         Tss!SCHED, Switched!SCHED
<1>3. /\ Switched!Spec => []Switched!TypeOK
      /\ Switched!Spec => []Switched!FaultsAtFirst
      /\ Switched!Spec => []Switched!CurrentRuns
  BY <1>1, Switched!SwitchingTypes, Switched!FaultsOnlyAtFirst, Switched!CurrentAlwaysRuns
<1> QED BY <1>2, <1>3, TssSpec, PTL

\* Who is switched to goes on with the context it was left with (task.cpp:332-336).
THEOREM OwnContextKept == ASSUME PartsAssumption PROVE AllSpec => OwnContext
<1>1. Switched!SwitchingAssumption
  BY DEF PartsAssumption, Tss!SwitchingAssumption, Switched!SwitchingAssumption
<1>2. Switched!Spec => Switched!OwnContext
  BY <1>1, Switched!OwnContextAlways
<1>3. Switched!OwnContext => OwnContext
  BY PTL DEF OwnContext, Tss!OwnContext, Switched!OwnContext, Tss!vars, Switched!vars
<1> QED BY <1>2, <1>3, TssSpec, PTL
=============================================================================
