------------------------------ MODULE Messages ------------------------------
(***************************************************************************)
(* The message system of the kernel, core/messages.cpp: the system calls   *)
(* send, receive, reply and forward, the queue of every task and the wait  *)
(* reasons through which the callers sleep and are woken.                  *)
(*                                                                         *)
(* A system call runs with interrupts off, so it is one step; only send    *)
(* and a receive that finds no message give the processor away in the      *)
(* middle, and their second halves are the actions SendReturn and          *)
(* ReceiveResume.  Any ready task may take the next step: which one the    *)
(* scheduler picks is the subject of Scheduler.tla.                        *)
(***************************************************************************)
EXTENDS Naturals, Sequences, FiniteSets

CONSTANTS
  Task,        \* every task index the run may use
  Payload,     \* type and values of a message
  Boot,        \* the tasks linked into the task list at the start
  DeadAtBoot,  \* those of them that never run (the kernel and scheduler tasks)
  Servers,     \* the tasks whose program is a receive-reply loop
  Calls,       \* what programs send: records [from, to, payload]
  Relays,      \* what servers forward: records [from, to, payload]
  Answers,     \* what servers reply: records [from, payload]
  Malformed,   \* the calls programs make with a NULL buffer of nonzero length
  NULL         \* no message

Syscall == {"send", "receive", "reply", "forward"}

WaitReason == {"wrNone", "wrDead", "wrTaskDie", "wrDelay", "wrMessage",
               "wrReply", "wrPaused"}

\* A queued message, or a reply: who it comes from and what it says.
Message == [sender : Task, payload : Payload]

ASSUME ConstantsAssumption ==
  /\ DeadAtBoot \subseteq Boot
  /\ Boot \subseteq Task
  /\ Servers \subseteq Task
  /\ Calls \subseteq [from : Task, to : Task, payload : Payload]
  /\ Relays \subseteq [from : Task, to : Task, payload : Payload]
  /\ Answers \subseteq [from : Task, payload : Payload]
  /\ Malformed \subseteq Syscall
  /\ NULL \notin Message

VARIABLES
  tasks,          \* the indices found by TaskManager::task
  wait_reason,    \* Task::wait_reason; tasks not created yet are wrPaused
  messages,       \* Task::messages, the head first
  reply,          \* Task::reply; NULL also when it points to a deleted message
  syscall,        \* which system call the task is blocked in or "none"
  serving,        \* the program is past its receive and before its reply
  crashed         \* the kernel used a NULL or deleted message pointer

ipcVars == <<tasks, wait_reason, messages, reply, syscall, serving, crashed>>

-----------------------------------------------------------------------------
Running(t) == ~crashed /\ wait_reason[t] = "wrNone" /\ syscall[t] = "none"

\* The page fault handler of the kernel never returns: everything stops.
Crash == /\ crashed' = TRUE
         /\ UNCHANGED <<tasks, messages, reply, syscall, serving>>

\* What syscall_message_send checks of its receiver.
Refused(c) == \/ c.to \notin tasks
              \/ wait_reason[c.to] = "wrDead"
              \/ c.to = c.from

\* A queue d with the new message m; the queue of t without its head.  Faulty
\* variants: the newest message goes first; the answered message stays.
EnqueuedFirst(q, d, m) == [q EXCEPT ![d] = <<m>> \o @]
Enqueued(q, d, m) == [q EXCEPT ![d] = Append(@, m)]
DequeuedNot(t) == messages
Dequeued(t) == [messages EXCEPT ![t] = Tail(@)]

\* Faulty variants of Woken: nobody is woken; everybody is made ready.
WokenNever(d) == wait_reason
WokenAlways(d) == [wait_reason EXCEPT ![d] = "wrNone"]

\* A task that sleeps in receive is made ready by a new message.
Woken(d) == IF wait_reason[d] = "wrMessage"
            THEN [wait_reason EXCEPT ![d] = "wrNone"] ELSE wait_reason

-----------------------------------------------------------------------------
SendRefused(c) == /\ Running(c.from)
                  /\ Refused(c) \/ "send" \in Malformed
                  /\ UNCHANGED ipcVars

\* The first half of send: a copy of the message is queued and the caller
\* sleeps until its reply.
SendBlock(c) ==
  /\ Running(c.from)
  /\ ~Refused(c)
  /\ messages' = Enqueued(messages, c.to,
                          [sender |-> c.from, payload |-> c.payload])
  /\ wait_reason' = [Woken(c.to) EXCEPT ![c.from] = "wrReply"]
  /\ syscall' = [syscall EXCEPT ![c.from] = "send"]
  /\ UNCHANGED <<tasks, reply, serving, crashed>>

\* The second half of send reads and deletes the reply.
FinishSend(t) ==
  /\ ~crashed
  /\ syscall[t] = "send"
  /\ \/ reply[t] = NULL /\ Crash
     \/ /\ reply[t] # NULL
        /\ reply' = [reply EXCEPT ![t] = NULL]
        /\ syscall' = [syscall EXCEPT ![t] = "none"]
        /\ UNCHANGED <<tasks, messages, serving, crashed>>

SendReturn(t) == /\ wait_reason[t] = "wrNone"
                 /\ FinishSend(t)
                 /\ UNCHANGED wait_reason

\* Receive reads the message at the head and leaves it there.  It never returns
\* MSG_INTERRUPTED: a new task is zeroed, so its resume_reason is rrOk, and
\* nobody stores another value.  No server looks at what receive returns.
ReceiveNow(t) == /\ Running(t)
                 /\ ~serving[t]
                 /\ messages[t] # <<>>
                 /\ serving' = [serving EXCEPT ![t] = TRUE]
                 /\ UNCHANGED <<tasks, wait_reason, messages,
                                reply, syscall, crashed>>

ReceiveBlock(t) == /\ Running(t)
                   /\ ~serving[t]
                   /\ messages[t] = <<>>
                   /\ wait_reason' = [wait_reason EXCEPT ![t] = "wrMessage"]
                   /\ syscall' = [syscall EXCEPT ![t] = "receive"]
                   /\ UNCHANGED <<tasks, messages, reply,
                                  serving, crashed>>

ReceiveResume(t) ==
  /\ ~crashed
  /\ syscall[t] = "receive"
  /\ wait_reason[t] = "wrNone"
  /\ UNCHANGED wait_reason
  /\ \/ messages[t] = <<>> /\ Crash
     \/ /\ messages[t] # <<>>
        /\ syscall' = [syscall EXCEPT ![t] = "none"]
        /\ serving' = [serving EXCEPT ![t] = TRUE]
        /\ UNCHANGED <<tasks, messages, reply, crashed>>

Receive(t) == ReceiveNow(t) \/ ReceiveBlock(t) \/ ReceiveResume(t)

-----------------------------------------------------------------------------
Handled(t) == serving' = [serving EXCEPT ![t] = FALSE]

\* Faulty variants of Replied: the caller stays asleep; even a caller that
\* is not waiting for a reply is made ready.
RepliedAsleep(c) == wait_reason
RepliedAlways(c) == [wait_reason EXCEPT ![c] = "wrNone"]

Replied(c) == IF wait_reason[c] = "wrReply"
              THEN [wait_reason EXCEPT ![c] = "wrNone"] ELSE wait_reason

\* The message at the head becomes the reply of the task that sent it.
Reply(a) ==
  LET t == a.from
      caller == Head(messages[t]).sender
  IN /\ Running(t) /\ serving[t]
     /\ messages[t] # <<>>
     /\ reply' = [reply EXCEPT ![caller] = [sender |-> t,
                                            payload |-> a.payload]]
     /\ wait_reason' = Replied(caller)
     /\ messages' = Dequeued(t)
     /\ Handled(t)
     /\ UNCHANGED <<tasks, syscall, crashed>>

\* A refused reply or forward leaves the message where it is; the server
\* goes on to its next receive, which reads the same message again.
ReplyRefused(t) == /\ Running(t) /\ serving[t]
                   /\ messages[t] # <<>>
                   /\ "reply" \in Malformed
                   /\ Handled(t)
                   /\ UNCHANGED <<tasks, wait_reason, messages,
                                  reply, syscall, crashed>>

\* Forward moves the head to the queue of another task.  The sender stays
\* the first one, and the receiver may be dead.
Forward(f) ==
  LET t == f.from
  IN /\ Running(t) /\ serving[t]
     /\ messages[t] # <<>>
     /\ f.to \in tasks
     /\ messages' = Enqueued(Dequeued(t), f.to,
                             [sender |-> Head(messages[t]).sender,
                              payload |-> f.payload])
     /\ wait_reason' = Woken(f.to)
     /\ Handled(t)
     /\ UNCHANGED <<tasks, reply, syscall, crashed>>

ForwardRefused(f) == /\ Running(f.from) /\ serving[f.from]
                     /\ messages[f.from] # <<>>
                     /\ f.to \notin tasks \/ "forward" \in Malformed
                     /\ Handled(f.from)
                     /\ UNCHANGED <<tasks, wait_reason,
                                    messages, reply, syscall, crashed>>

-----------------------------------------------------------------------------
IpcInit ==
  /\ tasks = Boot
  /\ wait_reason = [t \in Task |-> IF t \in DeadAtBoot THEN "wrDead"
                                   ELSE IF t \in Boot THEN "wrNone"
                                   ELSE "wrPaused"]
  /\ messages = [t \in Task |-> <<>>]
  /\ reply = [t \in Task |-> NULL]
  /\ syscall = [t \in Task |-> "none"]
  /\ serving = [t \in Task |-> FALSE]
  /\ crashed = FALSE

SendSteps(C) == \E c \in C : SendRefused(c) \/ SendBlock(c)
AnswerSteps(t) == \/ \E a \in Answers : a.from = t /\ Reply(a)
                  \/ \E f \in Relays : f.from = t /\ Forward(f)
                  \/ \E f \in Relays : f.from = t /\ ForwardRefused(f)
                  \/ ReplyRefused(t)

IpcNext == \/ SendSteps(Calls)
           \/ \E t \in Task : SendReturn(t)
           \/ \E t \in Servers : Receive(t) \/ AnswerSteps(t)

IpcSpec == IpcInit /\ [][IpcNext]_ipcVars

\* A blocked system call whose wait is over goes on when the scheduler comes
\* to its task (weak fairness).  A server makes finitely many calls of its own
\* before it receives, and before it replies or forwards: the step it is on
\* its way to is disabled only while such a call is under way (strong
\* fairness).
IpcFairness == /\ \A t \in Task : WF_ipcVars(SendReturn(t))
               /\ \A t \in Servers : /\ SF_ipcVars(Receive(t))
                                     /\ SF_ipcVars(AnswerSteps(t))

IpcLiveSpec == IpcSpec /\ IpcFairness

-----------------------------------------------------------------------------
(* Properties *)

TypeOK == /\ tasks \subseteq Task
          /\ wait_reason \in [Task -> WaitReason]
          /\ messages \in [Task -> Seq(Message)]
          /\ reply \in [Task -> Message \cup {NULL}]
          /\ syscall \in [Task -> {"none", "send", "receive"}]
          /\ serving \in [Task -> BOOLEAN]
          /\ crashed \in BOOLEAN

\* The call of t has no reply yet.
Awaiting(t) == syscall[t] = "send" /\ reply[t] = NULL

\* Every message in the queues q is from a caller in W, every caller in W has
\* a message in some queue, and nobody has two.
Once(q, W) ==
  /\ \A d \in Task : \A i \in 1..Len(q[d]) : q[d][i].sender \in W
  /\ \A t \in W : \E d \in Task : \E i \in 1..Len(q[d]) : q[d][i].sender = t
  /\ \A d, e \in Task : \A i \in 1..Len(q[d]), j \in 1..Len(q[e]) :
        q[d][i].sender = q[e][j].sender => d = e /\ i = j

\* The messages in the queues are exactly the calls that have no reply yet,
\* each in one place: forwarding, refused replies and repeated receives
\* neither lose nor double a request (messages.cpp:52-55, 140-143, 175-182).
OneRequestPerCall == Once(messages, {t \in Task : Awaiting(t)})

\* No task sleeps for a message while one is queued for it, or for a reply
\* that has already come: the sleep of receive (messages.cpp:86) and of send
\* (messages.cpp:61) is never entered or kept after the event it is for.
NoLostWakeup ==
  \A t \in Task : /\ wait_reason[t] = "wrMessage" => messages[t] = <<>>
                  /\ wait_reason[t] = "wrReply" => Awaiting(t)

\* "got reply" (messages.cpp:64): a send that goes on after its sleep finds
\* its reply.
GotReply ==
  \A t \in Task :
     syscall[t] = "send" /\ wait_reason[t] = "wrNone" => reply[t] # NULL

\* "got message at this point" (messages.cpp:92): a receive that goes on
\* after its sleep finds a message.
GotMessage ==
  \A t \in Task :
     syscall[t] = "receive" /\ wait_reason[t] = "wrNone" => messages[t] # <<>>

\* The kernel never follows a NULL or deleted message pointer, in the second
\* half of send or receive or in reply and forward.
NeverCrashes == ~crashed

\* A request stays at the head of a server's queue from its receive to its
\* reply or forward, whatever other calls the server makes in between.
HeldUntilAnswered ==
  [][\A t \in Task : serving[t] /\ serving'[t] =>
        messages[t] # <<>> /\ Head(messages'[t]) = Head(messages[t])]_ipcVars

\* Every send returns, when no program sends malformed buffers and calls and
\* forwards form no cycle.
EveryCallReturns ==
  \A t \in Task : syscall[t] = "send" ~> syscall[t] = "none"

\* The message system implements the abstract calls of Rpc.tla: first come
\* first answered at every server, one answer for every call.
PhaseOf(t) == IF syscall[t] # "send" THEN "idle"
              ELSE IF reply[t] = NULL THEN "waiting" ELSE "answered"

Senders(q) == [i \in 1..Len(q) |-> q[i].sender]

Promise == INSTANCE Rpc WITH phase <- [t \in Task |-> PhaseOf(t)],
                             inbox <- [d \in Task |-> Senders(messages[d])]

ImplementsRpc == Promise!RpcSpec
=============================================================================
