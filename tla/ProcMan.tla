------------------------------ MODULE ProcMan ------------------------------
(***************************************************************************)
(* The process manager of the kernel, process_manager in core/core.cpp,    *)
(* with the task list it works on, the exec system call and the two ways   *)
(* the clock and the scheduler end a wait.                                 *)
(*                                                                         *)
(* Unlike a system call the process manager is an ordinary task: it runs   *)
(* with interrupts on and the timer may switch to another task between any *)
(* two of its statements, except inside mt(false) ... mt(true).  Its       *)
(* actions are the statements that read or write what other tasks see.     *)
(***************************************************************************)
EXTENDS Messages

CONSTANTS
  PROCMAN,     \* PROCMAN_TID
  MaxTask,     \* bound of the runs: no task beyond this index is created
  Word,        \* an unsigned int holds 0 .. Word - 1 (2^32 in the code)
  Launchers    \* the tasks that call exec

\* A payload of the process manager's protocol: the fields type and value1.
Type == {"pcDie", "pcSetRootFS", "pcGetRootFS", "pcStartThread", "pcDelay",
         "pcWaitDie", "pcMorecore", "prOk"}

ASSUME ProcManAssumption ==
  /\ Word \in Nat \ {0} /\ MaxTask \in Nat /\ MaxTask < Word
  /\ Task = 0..MaxTask
  /\ Boot = 0..(Cardinality(Boot) - 1)
  /\ PROCMAN \in Boot \ (DeadAtBoot \cup Servers)
  /\ Payload = [type : Type, value : 0..(Word - 1)]
  /\ Launchers \subseteq Task
  /\ \A c \in Calls : c.from # PROCMAN

VARIABLES
  wait_object,   \* Task::wait_object
  next_index,    \* TaskManager::next_index
  vmm,           \* Task::vmm, named by the first task of the address space
  threads,       \* VirtualMemoryManager::threads; the space is deleted at 0
  fs_server_tid, \* local of process_manager
  pc,            \* the statement process_manager is at
  msg,           \* its local msg, once received
  thread         \* its local n

taskVars == <<wait_object, next_index, vmm, threads>>
pmVars == <<fs_server_tid, pc, msg, thread>>
vars == <<ipcVars, taskVars, pmVars>>

-----------------------------------------------------------------------------
\* Links a new task, all zero but for its index and space, into the list.
CreateTask(n, space, reason) ==
  /\ tasks' = tasks \cup {n}
  /\ next_index' = n + 1
  /\ wait_reason' = [wait_reason EXCEPT ![n] = reason]
  /\ vmm' = [vmm EXCEPT ![n] = space]
  /\ wait_object' = [wait_object EXCEPT ![n] = 0]

\* Bound of the runs: a task is asked for only if its index, after those asked
\* for already, is at most MaxTask.
Room == next_index + Cardinality({i \in 1..Len(messages[PROCMAN]) :
          messages[PROCMAN][i].payload.type = "pcStartThread"}) <= MaxTask

\* exec_syscall runs with interrupts off, from the load to the ready task.
Exec(t) ==
  /\ Running(t) /\ t \in Launchers
  /\ Room
  /\ CreateTask(next_index, next_index, "wrNone")
  /\ threads' = [threads EXCEPT ![next_index] = 1]
  /\ UNCHANGED <<messages, reply, syscall, serving, crashed,
                 pmVars>>

-----------------------------------------------------------------------------
(* process_manager *)

At(label) == pc = label /\ Running(PROCMAN)

\* The next statement.
Goto(label) == pc' = label

PmReceive ==
  /\ pc = "receive"
  /\ Receive(PROCMAN)
  /\ IF serving'[PROCMAN]
     THEN Goto("switch") /\ msg' = Head(messages[PROCMAN])
     ELSE UNCHANGED <<pc, msg>>
  /\ UNCHANGED <<taskVars, fs_server_tid, thread>>

Command(type) == At("switch") /\ msg.payload.type = type

\* The fields of msg that the reply will carry.
AnswerWith(v) == msg' = [msg EXCEPT !.payload = [type |-> "prOk", value |-> v]]

\* Commands that touch nothing another task of this model reads: morecore,
\* attaching memory and interrupts, I/O privileges, the modules file server.
PmPlain == /\ Command("pcMorecore")
           /\ AnswerWith(0)
           /\ Goto("reply")
           /\ UNCHANGED <<ipcVars, taskVars, fs_server_tid, thread>>

PmSetRootFS == /\ Command("pcSetRootFS")
               /\ IF fs_server_tid = 0
                  THEN fs_server_tid' = msg.sender /\ AnswerWith(msg.payload.value)
                  ELSE UNCHANGED <<fs_server_tid, msg>>
               /\ Goto("reply")
               /\ UNCHANGED <<ipcVars, taskVars, thread>>

PmGetRootFS == /\ Command("pcGetRootFS")
               /\ AnswerWith(fs_server_tid)
               /\ Goto("reply")
               /\ UNCHANGED <<ipcVars, taskVars, fs_server_tid, thread>>

\* Faulty variants of Kill: the thread stays counted; it is counted twice.
KillUncounted(t) == /\ wait_reason' = [wait_reason EXCEPT ![t] = "wrDead"]
                    /\ UNCHANGED threads
KillTwice(t) == /\ wait_reason' = [wait_reason EXCEPT ![t] = "wrDead"]
                /\ threads' = [threads EXCEPT ![vmm[t]] = @ - 2]

\* TaskManager::kill, between mt(false) and mt(true).
Kill(t) == /\ wait_reason' = [wait_reason EXCEPT ![t] = "wrDead"]
           /\ threads' = [threads EXCEPT ![vmm[t]] = @ - 1]

PmDie == /\ Command("pcDie")
         /\ Kill(msg.sender)
         /\ AnswerWith(msg.payload.value)
         /\ Goto("reply")
         /\ UNCHANGED <<tasks, messages, reply, syscall, serving,
                        crashed, wait_object, next_index, vmm, fs_server_tid,
                        thread>>

\* pcStartThread: create_task, then change_threads(+1), then the new thread
\* becomes ready.  Bound of the runs: Room has kept an index for it.
PmCreateThread ==
  /\ Command("pcStartThread")
  /\ next_index <= MaxTask
  /\ thread' = next_index
  /\ CreateTask(next_index, vmm[msg.sender], "wrPaused")
  /\ Goto("change_threads")
  /\ UNCHANGED <<messages, reply, syscall, serving, crashed,
                 threads, fs_server_tid, msg>>

PmChangeThreads ==
  /\ At("change_threads")
  /\ threads' = [threads EXCEPT ![vmm[msg.sender]] = @ + 1]
  /\ Goto("ready_thread")
  /\ UNCHANGED <<ipcVars, wait_object, next_index, vmm, fs_server_tid, msg,
                 thread>>

PmReadyThread ==
  /\ At("ready_thread")
  /\ wait_reason' = [wait_reason EXCEPT ![thread] = "wrNone"]
  /\ AnswerWith(thread)
  /\ Goto("reply")
  /\ UNCHANGED <<tasks, messages, reply, syscall, serving,
                 crashed, taskVars, fs_server_tid, thread>>

\* pcDelay replies first and puts the sender to sleep afterwards, in two
\* assignments.
PmDelay == /\ Command("pcDelay")
           /\ Reply([from |-> PROCMAN,
                     payload |-> [type |-> "prOk", value |-> msg.payload.value]])
           /\ Goto("delay_reason")
           /\ UNCHANGED <<taskVars, fs_server_tid, msg, thread>>

PmDelayReason ==
  /\ At("delay_reason")
  /\ wait_reason' = [wait_reason EXCEPT ![msg.sender] = "wrDelay"]
  /\ Goto("delay_object")
  /\ UNCHANGED <<tasks, messages, reply, syscall, serving,
                 crashed, taskVars, fs_server_tid, msg, thread>>

PmDelayObject ==
  /\ At("delay_object")
  /\ wait_object' = [wait_object EXCEPT ![msg.sender] = msg.payload.value]
  /\ Goto("receive")
  /\ msg' = NULL
  /\ UNCHANGED <<ipcVars, next_index, vmm, threads, fs_server_tid, thread>>

\* pcWaitDie looks the task up without checking that it exists, and sends the
\* caller to sleep before it says what for.
PmWaitDie ==
  /\ Command("pcWaitDie")
  /\ UNCHANGED <<taskVars, fs_server_tid, msg, thread>>
  /\ \/ msg.payload.value \notin tasks /\ Crash /\ UNCHANGED <<wait_reason, pc>>
     \/ /\ msg.payload.value \in tasks
        /\ UNCHANGED <<tasks, messages, reply, syscall, serving,
                       crashed>>
        /\ \/ /\ wait_reason[msg.payload.value] = "wrDead"
              /\ Goto("reply")
              /\ UNCHANGED wait_reason
           \/ /\ wait_reason[msg.payload.value] # "wrDead"
              /\ wait_reason' = [wait_reason EXCEPT ![msg.sender] = "wrTaskDie"]
              /\ Goto("wait_object")

PmWaitObject ==
  /\ At("wait_object")
  /\ wait_object' = [wait_object EXCEPT ![msg.sender] = msg.payload.value]
  /\ Goto("reply")
  /\ UNCHANGED <<ipcVars, next_index, vmm, threads, fs_server_tid, msg, thread>>

\* Never refused: the requests to the process manager ask for no reply data, and
\* a read of a module is answered with a buffer of the length asked for.
PmReply == /\ At("reply")
           /\ Reply([from |-> PROCMAN, payload |-> msg.payload])
           /\ Goto("receive")
           /\ msg' = NULL
           /\ thread' = 0
           /\ UNCHANGED <<taskVars, fs_server_tid>>

PmStep == \/ PmReceive \/ PmReply
          \/ PmPlain \/ PmSetRootFS \/ PmGetRootFS
          \/ PmDie
          \/ PmCreateThread \/ PmChangeThreads \/ PmReadyThread
          \/ PmDelay \/ PmDelayReason \/ PmDelayObject
          \/ PmWaitDie \/ PmWaitObject

-----------------------------------------------------------------------------
(* The clock and the scheduler *)

\* timer_handler counts every delay down.  It runs only while some task runs:
\* with none ready the scheduler searches on with interrupts off.
Minus1Signed(x) == x - 1   \* faulty: without the wrap of an unsigned int
Minus1(x) == (x + Word - 1) % Word

\* Faulty: the walk round the list ends where it begins.
DelayedFirst == {t \in tasks : wait_reason[t] = "wrDelay" /\ t = PROCMAN}

Delayed == {t \in tasks : wait_reason[t] = "wrDelay"}

Tick ==
  /\ ~crashed
  /\ \E t \in tasks : wait_reason[t] = "wrNone"
  /\ wait_object' = [t \in Task |-> IF t \in Delayed THEN Minus1(wait_object[t])
                                    ELSE wait_object[t]]
  /\ wait_reason' = [t \in Task |->
       IF t \in Delayed /\ wait_object'[t] = 0 THEN "wrNone" ELSE wait_reason[t]]
  /\ UNCHANGED <<tasks, messages, reply, syscall, serving,
                 crashed, next_index, vmm, threads, pmVars>>

\* A task that waits for a dead one is made ready by the scheduler's search,
\* which then runs it: it finishes its send before interrupts are on again.
\* Faulty: any waiter is made ready.
DieAssumed(t) == wait_reason[t] = "wrTaskDie"

DieObserved(t) == /\ wait_reason[t] = "wrTaskDie"
                  /\ wait_object[t] \in tasks
                  /\ wait_reason[wait_object[t]] = "wrDead"

SchedulerWake(t) ==
  /\ DieObserved(t)
  /\ wait_reason' = [wait_reason EXCEPT ![t] = "wrNone"]
  /\ FinishSend(t)
  /\ UNCHANGED <<taskVars, pmVars>>

-----------------------------------------------------------------------------
AtRest == /\ wait_object = [t \in Task |-> 0]
          /\ next_index = Cardinality(Boot)
          /\ vmm = [t \in Task |-> t]
          /\ threads = [t \in Task |-> IF t \in Boot \ DeadAtBoot THEN 1 ELSE 0]
          /\ fs_server_tid = 0
          /\ pc = "receive"
          /\ msg = NULL
          /\ thread = 0
PmInit == IpcInit /\ AtRest

Programs == \/ \E c \in Calls : /\ c.payload.type = "pcStartThread" => Room
                                /\ SendRefused(c) \/ SendBlock(c)
            \/ \E t \in Task : SendReturn(t)
            \/ \E t \in Servers : Receive(t) \/ AnswerSteps(t)

Next == \/ Programs /\ UNCHANGED <<taskVars, pmVars>>
        \/ PmStep
        \/ \E t \in Launchers : Exec(t)
        \/ Tick
        \/ \E t \in Task : SchedulerWake(t)

Spec == PmInit /\ [][Next]_vars

\* A ready process manager runs on, blocked calls and server loops go on as in
\* Messages.tla, the timer keeps interrupting and the scheduler's search passes
\* over every task again and again.
Fairness == /\ WF_vars(PmStep)
            /\ \A t \in Task : WF_vars(SendReturn(t) /\ UNCHANGED <<taskVars, pmVars>>)
            /\ \A t \in Servers :
                 /\ SF_vars(Receive(t) /\ UNCHANGED <<taskVars, pmVars>>)
                 /\ SF_vars(AnswerSteps(t) /\ UNCHANGED <<taskVars, pmVars>>)
            /\ WF_vars(Tick)
            /\ \A t \in Task : WF_vars(SchedulerWake(t))

LiveSpec == Spec /\ Fairness

-----------------------------------------------------------------------------
(* Properties *)

PmTypeOK == /\ TypeOK
            /\ wait_object \in [Task -> 0..(Word - 1)]
            /\ next_index \in 0..(MaxTask + 1)
            /\ vmm \in [Task -> Task]
            /\ threads \in [Task -> 0..(MaxTask + 1)]
            /\ fs_server_tid \in Task
            /\ pc \in {"receive", "switch", "reply", "change_threads",
                       "ready_thread", "delay_reason", "delay_object",
                       "wait_object"}
            /\ msg \in Message \cup {NULL}
            /\ thread \in Task

\* A task that was killed is never made ready or put to another wait: not by
\* the reply to its own pcDie (messages.cpp:136), by a message that arrives
\* later, by the timer or by the process manager's late assignments.
NoResurrection ==
  [][\A t \in tasks : wait_reason[t] = "wrDead" => wait_reason'[t] = "wrDead"]_vars

\* The tasks that still run, or wait, in an address space.
Residents(s) == {t \in tasks \ DeadAtBoot : vmm[t] = s /\ wait_reason[t] # "wrDead"}

\* The thread count of an address space is the number of its tasks that are
\* not dead, but for the thread that is being created: the space is deleted
\* (task.cpp:120) with its last task, neither before nor never.
ThreadsCounted ==
  \A s \in Task :
     threads[s] = Cardinality(Residents(s)
                    \ (IF pc = "change_threads" THEN {thread} ELSE {}))

\* wait_die returns only when the task it names is dead.
WaitDieMeansDead ==
  [][\A t \in Task :
        /\ syscall[t] = "send" /\ syscall'[t] = "none"
        /\ reply[t].sender = PROCMAN /\ reply[t].payload.type = "pcWaitDie"
        => wait_reason[reply[t].payload.value] = "wrDead"]_vars

\* Every request to the process manager, and to any server, is answered.
EveryRequestAnswered == \A t \in Task : Awaiting(t) ~> (~Awaiting(t) \/ crashed)

\* A delay ends, and a wait for a task that is dead ends.
EveryWaitEnds ==
  \A t \in Task :
     /\ wait_reason[t] = "wrDelay" ~> (wait_reason[t] # "wrDelay" \/ crashed)
     /\ DieObserved(t) ~> (~DieObserved(t) \/ crashed)
=============================================================================
