------------------------------ MODULE Sleepers ------------------------------
(***************************************************************************)
(* The process manager of ProcMan.tla with a history: whom it has ever put *)
(* to sleep.  pcDelay and pcWaitDie set the wait of a task that already    *)
(* sleeps in send, or that has its answer; what the message system         *)
(* promises its callers is promised to the others only.                    *)
(***************************************************************************)
EXTENDS ProcMan

VARIABLE sleepers   \* the tasks that were ever in a delay or a wait for a death

Asleep(t) == wait_reason[t] \in {"wrDelay", "wrTaskDie"}

SleepersInit == PmInit /\ sleepers = {}

\* Nobody reads the history: it follows every step of the system.
Recorded == sleepers' = sleepers \cup {t \in Task : Asleep(t)'}

SleepersSpec == SleepersInit /\ [][Next /\ Recorded]_<<vars, sleepers>>

-----------------------------------------------------------------------------
\* The call of t that is in progress lacks what it ends with: its reply, or a
\* message.
Lacking(t) == \/ Awaiting(t)
              \/ syscall[t] = "receive" /\ messages[t] = <<>>

\* The process manager is at a pcWaitDie for a task that was never created, whose
\* null pointer it follows (core.cpp:236-238).
AsksForNobody == /\ pc = "switch" /\ msg.payload.type = "pcWaitDie"
                 /\ msg.payload.value \notin tasks

\* Every call in progress is one request in one place.  Whatever starts, dies,
\* delays itself or waits meanwhile, a task that was never put to a delay or a wait
\* sleeps neither for a message nor for a reply that has come (messages.cpp:56-94),
\* and goes on from neither sleep too early; and the kernel follows a NULL or
\* deleted pointer only in a call of a task that was, or where a wait names nobody
\* (core.cpp:228-240).
LifeSound ==
  /\ OneRequestPerCall
  /\ \A t \in Task \ sleepers :
       /\ wait_reason[t] \in {"wrMessage", "wrReply"} => Lacking(t)
       /\ wait_reason[t] = "wrNone" => ~Lacking(t)
  /\ crashed => AsksForNobody \/ \E t \in sleepers : Lacking(t)
=============================================================================
