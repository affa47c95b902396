---------------------------- MODULE ProcManProofs ----------------------------
(***************************************************************************)
(* Proofs about the message system and the process manager, for every set  *)
(* of tasks, calls, relays and programs.                                   *)
(*                                                                         *)
(* First Messages.tla.  The inductive invariant IInv says what a blocked   *)
(* system call waits for and where its message is; the kernel's            *)
(* assumptions "got reply" and "got message" follow from it, and with them *)
(* that the kernel never follows a bad message pointer; and every step of  *)
(* Messages.tla is a step of the abstract calls of Rpc.tla or changes      *)
(* nothing there.                                                          *)
(*                                                                         *)
(* Then ProcMan.tla.  The process manager breaks that invariant: it writes *)
(* the waits of its callers after it has answered them, and the kernel may *)
(* then follow a deleted message.  What survives is CallsInv, and on it    *)
(* rest the thread counts, the deaths, what wait_die means, and that the   *)
(* abstract calls are still implemented.                                   *)
(***************************************************************************)
EXTENDS Sleepers, Integers, SequenceTheorems, FiniteSetTheorems, TLAPS

-----------------------------------------------------------------------------
(* The message system *)

\* A blocked system call sleeps for its own event or is ready to go on; a
\* reply is kept only for a send under way; a server that has received still
\* has the request in its queue.
Continuations ==
  \A t \in Task :
     /\ syscall[t] = "send" => wait_reason[t] \in {"wrNone", "wrReply"}
     /\ syscall[t] = "receive" => wait_reason[t] \in {"wrNone", "wrMessage"}
     /\ syscall[t] = "none" => wait_reason[t] \notin {"wrReply", "wrMessage"}
     /\ syscall[t] # "send" => reply[t] = NULL
     /\ syscall[t] = "receive" /\ wait_reason[t] = "wrNone" =>
           messages[t] # <<>>
     /\ serving[t] => messages[t] # <<>>

IInv == /\ TypeOK
        /\ OneRequestPerCall
        /\ NoLostWakeup
        /\ GotReply
        /\ Continuations
        /\ NeverCrashes

-----------------------------------------------------------------------------
\* Queueing a message of a caller that has none queued adds that caller.
LEMMA OnceAppend ==
  ASSUME NEW q \in [Task -> Seq(Message)], NEW W \in SUBSET Task, Once(q, W),
         NEW d \in Task, NEW m \in Message, m.sender \notin W
  PROVE  Once([q EXCEPT ![d] = Append(@, m)], W \cup {m.sender})
<1> DEFINE r == [q EXCEPT ![d] = Append(@, m)]
<1>1. /\ Len(r[d]) = Len(q[d]) + 1
      /\ r[d][Len(q[d]) + 1] = m
      /\ \A i \in 1..Len(q[d]) : r[d][i] = q[d][i]
  OBVIOUS
<1>2. \A e \in Task : e # d => r[e] = q[e]
  OBVIOUS
<1>3. \A e \in Task : Len(q[e]) \in Nat
  OBVIOUS
<1>4. \A e \in Task : \A i \in 1..Len(r[e]) :
         \/ i \in 1..Len(q[e]) /\ r[e][i] = q[e][i]
         \/ e = d /\ i = Len(q[d]) + 1 /\ r[e][i] = m
  BY <1>1, <1>2, <1>3
<1>5. \A e \in Task : \A i \in 1..Len(q[e]) :
         i \in 1..Len(r[e]) /\ r[e][i] = q[e][i]
  BY <1>1, <1>2, <1>3
<1>6. Len(q[d]) + 1 \in 1..Len(r[d])
  BY <1>1, <1>3
<1> HIDE DEF r
<1>7. \A e \in Task : \A i \in 1..Len(r[e]) :
         r[e][i].sender \in W \cup {m.sender}
  BY <1>4 DEF Once
<1>8. \A t \in W \cup {m.sender} : \E e \in Task : \E i \in 1..Len(r[e]) :
         r[e][i].sender = t
  <2>1. \E e \in Task : \E i \in 1..Len(r[e]) : r[e][i].sender = m.sender
    BY <1>1, <1>6
  <2>2. ASSUME NEW t \in W
        PROVE  \E e \in Task : \E i \in 1..Len(r[e]) : r[e][i].sender = t
    <3>1. PICK e \in Task : \E i \in 1..Len(q[e]) : q[e][i].sender = t
      BY DEF Once
    <3>2. QED
      BY <3>1, <1>5
  <2>3. QED
    BY <2>1, <2>2
<1>9. \A e, f \in Task : \A i \in 1..Len(r[e]), j \in 1..Len(r[f]) :
         r[e][i].sender = r[f][j].sender => e = f /\ i = j
  <2>1. \A e \in Task : \A i \in 1..Len(q[e]) : q[e][i].sender # m.sender
    BY DEF Once
  <2> TAKE e, f \in Task
  <2> TAKE i \in 1..Len(r[e]), j \in 1..Len(r[f])
  <2> HAVE r[e][i].sender = r[f][j].sender
  <2>2. CASE r[e][i] = m
    <3>1. /\ e = d /\ i = Len(q[d]) + 1
          /\ f = d /\ j = Len(q[d]) + 1
      <4>1. /\ ~ (i \in 1..Len(q[e]) /\ r[e][i] = q[e][i])
            /\ ~ (j \in 1..Len(q[f]) /\ r[f][j] = q[f][j])
        BY ONLY <2>1, <2>2, r[e][i].sender = r[f][j].sender, e \in Task, f \in Task
      <4> QED BY ONLY <1>4, <4>1, e \in Task, f \in Task, i \in 1..Len(r[e]), j \in 1..Len(r[f])
    <3> QED BY <3>1
  <2>3. CASE r[e][i] # m
    <3>1. i \in 1..Len(q[e]) /\ r[e][i] = q[e][i]
      BY <1>4, <2>3
    <3>2. j \in 1..Len(q[f]) /\ r[f][j] = q[f][j]
      BY <1>4, <2>1, <3>1
    <3>3. QED
      BY <3>1, <3>2 DEF Once
  <2>4. QED
    BY <2>2, <2>3
<1>10. QED
  BY <1>7, <1>8, <1>9 DEF Once, r

\* Taking the head off a queue removes its caller and nobody else.
LEMMA OnceTail ==
  ASSUME NEW q \in [Task -> Seq(Message)], NEW W \in SUBSET Task, Once(q, W),
         NEW d \in Task, q[d] # <<>>
  PROVE  Once([q EXCEPT ![d] = Tail(@)], W \ {Head(q[d]).sender})
<1> DEFINE r == [q EXCEPT ![d] = Tail(@)]
           c == Head(q[d]).sender
<1>1. /\ Len(q[d]) \in Nat \ {0}
      /\ Len(r[d]) = Len(q[d]) - 1
      /\ \A i \in 1..Len(r[d]) : r[d][i] = q[d][i + 1]
      /\ c = q[d][1].sender
  OBVIOUS
<1>2. \A e \in Task : e # d => r[e] = q[e]
  OBVIOUS
<1>3. \A e \in Task : Len(q[e]) \in Nat
  OBVIOUS
<1> HIDE DEF r, c
<1>4. \A e \in Task : \A i \in 1..Len(r[e]) :
         \E k \in 1..Len(q[e]) : /\ r[e][i] = q[e][k]
                                 /\ k = IF e = d THEN i + 1 ELSE i
  BY <1>1, <1>2, <1>3
<1>5. \A e \in Task : \A k \in 1..Len(q[e]) :
         q[e][k].sender # c =>
           \E i \in 1..Len(r[e]) : r[e][i] = q[e][k]
  <2> TAKE e \in Task
  <2> TAKE k \in 1..Len(q[e])
  <2> HAVE q[e][k].sender # c
  <2>1. CASE e = d
    <3>1. k - 1 \in 1..Len(r[d]) /\ r[d][k - 1] = q[d][k]
      BY <1>1, <2>1
    <3>2. QED
      BY <3>1, <2>1
  <2>2. CASE e # d
    BY <1>2, <2>2
  <2>3. QED
    BY <2>1, <2>2
<1>6. \A e \in Task : \A i \in 1..Len(r[e]) : r[e][i].sender \in W \ {c}
  <2> TAKE e \in Task
  <2> TAKE i \in 1..Len(r[e])
  <2>1. PICK k \in 1..Len(q[e]) : /\ r[e][i] = q[e][k]
                                  /\ k = IF e = d THEN i + 1 ELSE i
    BY <1>4
  <2>2. ~(e = d /\ k = 1)
    BY <2>1, <1>1
  <2>3. 1 \in 1..Len(q[d])
    BY <1>1
  <2>4. q[e][k].sender # c
    BY <2>2, <2>3, <1>1 DEF Once
  <2>5. QED
    BY <2>1, <2>4 DEF Once
<1>7. \A t \in W \ {c} : \E e \in Task : \E i \in 1..Len(r[e]) :
         r[e][i].sender = t
  <2> TAKE t \in W \ {c}
  <2>1. PICK e \in Task : \E k \in 1..Len(q[e]) : q[e][k].sender = t
    BY DEF Once
  <2>2. QED
    BY <2>1, <1>5
<1>8. \A e, f \in Task : \A i \in 1..Len(r[e]), j \in 1..Len(r[f]) :
         r[e][i].sender = r[f][j].sender => e = f /\ i = j
  <2> TAKE e, f \in Task
  <2> TAKE i \in 1..Len(r[e]), j \in 1..Len(r[f])
  <2> HAVE r[e][i].sender = r[f][j].sender
  <2>1. PICK k \in 1..Len(q[e]) : /\ r[e][i] = q[e][k]
                                  /\ k = IF e = d THEN i + 1 ELSE i
    BY <1>4
  <2>2. PICK l \in 1..Len(q[f]) : /\ r[f][j] = q[f][l]
                                  /\ l = IF f = d THEN j + 1 ELSE j
    BY <1>4
  <2>3. e = f /\ k = l
    <3>1. q[e][k].sender = q[f][l].sender
      BY <2>1, <2>2
    <3>2. QED
      BY <3>1 DEF Once
  <2>4. i \in Int /\ j \in Int
    OBVIOUS
  <2>5. QED
    BY <2>1, <2>2, <2>3, <2>4
<1>9. QED
  BY <1>6, <1>7, <1>8 DEF Once, r, c

-----------------------------------------------------------------------------
LEMMA InitIInv == IpcInit => IInv
<1> SUFFICES ASSUME IpcInit PROVE IInv
  OBVIOUS
<1> USE ConstantsAssumption
<1>1. TypeOK
  <2>1. tasks \subseteq Task /\ crashed \in BOOLEAN
        /\ wait_reason \in [Task -> WaitReason]
    BY DEF IpcInit, WaitReason
  <2>2. messages \in [Task -> Seq(Message)]
    BY DEF IpcInit
  <2>3. /\ reply \in [Task -> Message \cup {NULL}]
        /\ syscall \in [Task -> {"none", "send", "receive"}]
        /\ serving \in [Task -> BOOLEAN]
    BY DEF IpcInit
  <2>4. QED
    BY <2>1, <2>2, <2>3 DEF TypeOK
<1>2. OneRequestPerCall
  BY DEF IpcInit, OneRequestPerCall, Once, Awaiting
<1>3. NoLostWakeup /\ GotReply /\ NeverCrashes
  BY DEF IpcInit, NoLostWakeup, GotReply, NeverCrashes
<1>4. Continuations
  BY DEF IpcInit, Continuations
<1>5. QED
  BY <1>1, <1>2, <1>3, <1>4 DEF IInv

\* The caller of a queued message waits for it: it has not got its reply, and
\* it is not the task that would get a second request into the queues.
LEMMA HeadAwaits ==
  ASSUME IInv, NEW t \in Task, messages[t] # <<>>
  PROVE  /\ Head(messages[t]) \in Message
         /\ Head(messages[t]).sender \in Task
         /\ syscall[Head(messages[t]).sender] = "send"
         /\ reply[Head(messages[t]).sender] = NULL
         /\ wait_reason[Head(messages[t]).sender] = "wrReply"
<1> DEFINE c == Head(messages[t]).sender
<1>1. messages[t] \in Seq(Message) /\ 1 \in 1..Len(messages[t])
      /\ Head(messages[t]) = messages[t][1]
  BY DEF IInv, TypeOK
<1>2. Head(messages[t]) \in Message
  BY <1>1
<1>3. c \in Task
  BY <1>2 DEF Message
<1>4. c \in {u \in Task : Awaiting(u)}
  BY <1>1 DEF IInv, OneRequestPerCall, Once
<1>5. syscall[c] = "send" /\ reply[c] = NULL
  BY <1>4 DEF Awaiting
<1>6. wait_reason[c] = "wrReply"
  BY <1>3, <1>5 DEF IInv, Continuations, GotReply
<1>7. QED
  BY <1>2, <1>3, <1>5, <1>6

LEMMA SendBlockIInv ==
  ASSUME IInv, NEW c \in Calls, SendBlock(c)
  PROVE  IInv'
<1> DEFINE s == c.from
           d == c.to
           m == [sender |-> s, payload |-> c.payload]
<1>1. s \in Task /\ d \in Task /\ m \in Message /\ m.sender = s
  BY ConstantsAssumption DEF Message
<1>2. s # d /\ wait_reason[s] = "wrNone" /\ syscall[s] = "none"
      /\ reply[s] = NULL /\ ~Awaiting(s)
  BY <1>1 DEF SendBlock, Enqueued, Refused, Running, IInv, Continuations, Awaiting
<1>3. messages' = [messages EXCEPT ![d] = Append(@, m)]
  BY DEF SendBlock, Enqueued
<1>4. TypeOK'
  <2>1. messages' \in [Task -> Seq(Message)]
    <3>1. messages[d] \in Seq(Message)
      BY <1>1 DEF IInv, TypeOK
    <3>2. Append(messages[d], m) \in Seq(Message)
      BY <1>1, <3>1
    <3> HIDE DEF m
    <3>3. QED
      BY <1>3, <3>2 DEF IInv, TypeOK
  <2>2. wait_reason' \in [Task -> WaitReason]
    BY DEF SendBlock, Enqueued, IInv, TypeOK, Woken, WaitReason
  <2>3. QED
    BY <2>1, <2>2 DEF SendBlock, Enqueued, IInv, TypeOK
<1>5. {t \in Task : Awaiting(t)}' = {t \in Task : Awaiting(t)} \cup {s}
  BY <1>1, <1>2 DEF SendBlock, Enqueued, Awaiting, IInv, TypeOK
<1>6. OneRequestPerCall'
  <2>1. messages \in [Task -> Seq(Message)]
        /\ Once(messages, {t \in Task : Awaiting(t)})
    BY DEF IInv, TypeOK, OneRequestPerCall
  <2> HIDE DEF m
  <2>2. m.sender \notin {t \in Task : Awaiting(t)}
    BY <1>1, <1>2
  <2>3. Once([messages EXCEPT ![d] = Append(@, m)],
             {t \in Task : Awaiting(t)} \cup {m.sender})
    BY <1>1, <2>1, <2>2, OnceAppend
  <2>4. QED
    BY <1>1, <1>3, <1>5, <2>3 DEF OneRequestPerCall
<1>7. messages'[d] # <<>> /\ \A t \in Task : t # d => messages'[t] = messages[t]
  <2>1. messages[d] \in Seq(Message) /\ messages'[d] = Append(messages[d], m)
    BY <1>1, <1>3 DEF IInv, TypeOK
  <2>2. messages'[d] # <<>>
    BY <1>1, <2>1
  <2>3. QED
    BY <1>3, <2>2 DEF IInv, TypeOK
<1>8. NoLostWakeup'
  BY <1>1, <1>2, <1>7 DEF SendBlock, Enqueued, IInv, TypeOK, NoLostWakeup, Woken, Awaiting
<1>9. GotReply' /\ NeverCrashes'
  BY <1>1, <1>2 DEF SendBlock, Enqueued, IInv, TypeOK, GotReply, NeverCrashes, Woken,
                    Continuations
<1>10. Continuations'
  BY <1>1, <1>2, <1>7 DEF SendBlock, Enqueued, IInv, TypeOK, Woken, Continuations
<1>11. QED
  BY <1>4, <1>6, <1>8, <1>9, <1>10 DEF IInv

LEMMA SendReturnIInv ==
  ASSUME IInv, NEW t \in Task, SendReturn(t)
  PROVE  IInv'
<1>1. /\ reply[t] # NULL
      /\ reply' = [reply EXCEPT ![t] = NULL]
      /\ syscall' = [syscall EXCEPT ![t] = "none"]
      /\ UNCHANGED <<tasks, wait_reason, messages, serving,
                     crashed>>
  BY DEF SendReturn, FinishSend, IInv, GotReply
<1>2. TypeOK'
  BY <1>1 DEF IInv, TypeOK
<1>3. {u \in Task : Awaiting(u)}' = {u \in Task : Awaiting(u)}
  BY <1>1 DEF Awaiting, IInv, TypeOK
<1>4. OneRequestPerCall'
  BY <1>1, <1>3 DEF IInv, OneRequestPerCall
<1>5. NoLostWakeup' /\ GotReply' /\ NeverCrashes' /\ Continuations'
  BY <1>1 DEF SendReturn, IInv, TypeOK, NoLostWakeup, GotReply, NeverCrashes,
              Continuations, Awaiting
<1>6. QED
  BY <1>2, <1>4, <1>5 DEF IInv

LEMMA ReceiveIInv ==
  ASSUME IInv, NEW t \in Servers, Receive(t)
  PROVE  IInv'
<1>1. t \in Task
  BY ConstantsAssumption
<1>2. /\ UNCHANGED <<tasks, messages, reply, crashed>>
      /\ {u \in Task : Awaiting(u)}' = {u \in Task : Awaiting(u)}
  BY <1>1 DEF Receive, ReceiveNow, ReceiveBlock, ReceiveResume, Awaiting, IInv,
              TypeOK, Continuations, Running
<1>3. OneRequestPerCall'
  BY <1>2 DEF IInv, OneRequestPerCall
<1>4. CASE ReceiveNow(t)
  BY <1>1, <1>3, <1>4 DEF ReceiveNow, IInv, TypeOK, NoLostWakeup, GotReply,
     NeverCrashes, Continuations, Awaiting
<1>5. CASE ReceiveBlock(t)
  <2>1. TypeOK'
    BY <1>1, <1>5 DEF ReceiveBlock, IInv, TypeOK, WaitReason
  <2>2. NoLostWakeup' /\ GotReply' /\ NeverCrashes' /\ Continuations'
    BY <1>1, <1>5 DEF ReceiveBlock, Running, IInv, TypeOK, NoLostWakeup,
       GotReply, NeverCrashes, Continuations, Awaiting
  <2>3. QED
    BY <1>3, <2>1, <2>2 DEF IInv
<1>6. CASE ReceiveResume(t)
  <2>1. messages[t] # <<>>
    BY <1>1, <1>6 DEF ReceiveResume, IInv, Continuations
  <2>2. /\ syscall[t] = "receive"
        /\ syscall' = [syscall EXCEPT ![t] = "none"]
        /\ serving' = [serving EXCEPT ![t] = TRUE]
        /\ wait_reason[t] = "wrNone"
        /\ UNCHANGED wait_reason
    BY <1>6, <2>1 DEF ReceiveResume
  <2>3. TypeOK'
    BY <1>1, <1>2, <2>2 DEF IInv, TypeOK
  <2>4. NoLostWakeup' /\ GotReply' /\ NeverCrashes' /\ Continuations'
    BY <1>1, <1>2, <2>1, <2>2 DEF IInv, TypeOK, NoLostWakeup, GotReply,
       NeverCrashes, Continuations, Awaiting
  <2>5. QED
    BY <1>3, <2>3, <2>4 DEF IInv
<1>7. QED
  BY <1>4, <1>5, <1>6 DEF Receive

LEMMA ReplyIInv ==
  ASSUME IInv, NEW a \in Answers, Reply(a)
  PROVE  IInv'
<1> DEFINE t == a.from
           c == Head(messages[t]).sender
           m == [sender |-> t, payload |-> a.payload]
<1>1. t \in Task /\ m \in Message /\ m # NULL
  BY ConstantsAssumption DEF Message
<1>2. messages[t] # <<>> /\ serving[t] /\ Running(t)
  BY DEF Reply, Dequeued
<1>3. c \in Task /\ syscall[c] = "send" /\ reply[c] = NULL
      /\ wait_reason[c] = "wrReply"
  BY <1>1, <1>2, HeadAwaits
<1>4. /\ reply' = [reply EXCEPT ![c] = m]
      /\ wait_reason' = [wait_reason EXCEPT ![c] = "wrNone"]
      /\ messages' = [messages EXCEPT ![t] = Tail(@)]
      /\ serving' = [serving EXCEPT ![t] = FALSE]
      /\ UNCHANGED <<tasks, syscall, crashed>>
  BY <1>3 DEF Reply, Dequeued, Replied, Handled
<1>5. messages[t] \in Seq(Message) /\ Tail(messages[t]) \in Seq(Message)
  BY <1>1, <1>2 DEF IInv, TypeOK
<1>6. TypeOK'
  BY <1>1, <1>3, <1>4, <1>5 DEF IInv, TypeOK, WaitReason
<1>7. {u \in Task : Awaiting(u)}' = {u \in Task : Awaiting(u)} \ {c}
  BY <1>1, <1>3, <1>4 DEF Awaiting, IInv, TypeOK
<1>8. OneRequestPerCall'
  <2>1. messages \in [Task -> Seq(Message)]
        /\ Once(messages, {u \in Task : Awaiting(u)})
    BY DEF IInv, TypeOK, OneRequestPerCall
  <2>2. Once([messages EXCEPT ![t] = Tail(@)],
             {u \in Task : Awaiting(u)} \ {c})
    BY <1>1, <1>2, <2>1, OnceTail
  <2>3. QED
    BY <1>4, <1>7, <2>2 DEF OneRequestPerCall
<1>9. t # c /\ \A u \in Task : u # t => messages'[u] = messages[u]
  BY <1>1, <1>2, <1>3, <1>4 DEF Running, IInv, TypeOK
<1>10. NoLostWakeup'
  BY <1>1, <1>2, <1>3, <1>4, <1>9 DEF IInv, TypeOK, NoLostWakeup, Awaiting, Running
<1>11. GotReply' /\ NeverCrashes'
  BY <1>1, <1>3, <1>4 DEF IInv, TypeOK, GotReply, NeverCrashes
<1>12. Continuations'
  BY <1>1, <1>2, <1>3, <1>4, <1>9 DEF IInv, TypeOK, Continuations, Running
<1>13. QED
  BY <1>6, <1>8, <1>10, <1>11, <1>12 DEF IInv

LEMMA ForwardIInv ==
  ASSUME IInv, NEW f \in Relays, Forward(f)
  PROVE  IInv'
<1> DEFINE t == f.from
           d == f.to
           c == Head(messages[t]).sender
           m == [sender |-> c, payload |-> f.payload]
           W == {u \in Task : Awaiting(u)}
           mid == [messages EXCEPT ![t] = Tail(@)]
<1>1. t \in Task /\ d \in Task /\ f.payload \in Payload
  BY ConstantsAssumption
<1>2. messages[t] # <<>> /\ serving[t] /\ Running(t)
  BY DEF Forward, Enqueued, Dequeued
<1>3. c \in Task /\ syscall[c] = "send" /\ reply[c] = NULL
  BY <1>1, <1>2, HeadAwaits
<1>4. m \in Message /\ m.sender = c
  BY <1>1, <1>3 DEF Message
<1>5. messages' = [mid EXCEPT ![d] = Append(@, m)]
  BY DEF Forward, Enqueued, Dequeued
<1>6. messages \in [Task -> Seq(Message)]
  BY DEF IInv, TypeOK
<1>7. mid \in [Task -> Seq(Message)]
  <2>1. Tail(messages[t]) \in Seq(Message)
    BY <1>1, <1>2, <1>6
  <2>2. QED
    BY <1>6, <2>1
<1>8. W' = W /\ c \in W
  BY <1>3 DEF Forward, Enqueued, Dequeued, Awaiting
<1>9. OneRequestPerCall'
  <2>1. Once(messages, W)
    BY DEF IInv, OneRequestPerCall
  <2>2. Once(mid, W \ {c})
    BY <1>1, <1>2, <1>6, <2>1, OnceTail
  <2> HIDE DEF mid, m
  <2>3. Once([mid EXCEPT ![d] = Append(@, m)], (W \ {c}) \cup {m.sender})
    BY <1>1, <1>4, <1>7, <2>2, OnceAppend
  <2>4. QED
    BY <1>4, <1>5, <1>8, <2>3 DEF OneRequestPerCall
<1>10. messages'[d] # <<>>
       /\ \A u \in Task : u # t /\ u # d => messages'[u] = messages[u]
       /\ messages'[d] \in Seq(Message)
  <2> HIDE DEF m
  <2>1. mid[d] \in Seq(Message) /\ messages'[d] = Append(mid[d], m)
    BY <1>1, <1>5, <1>7
  <2>2. messages'[d] # <<>> /\ messages'[d] \in Seq(Message)
    BY <1>4, <2>1
  <2>3. QED
    BY <1>5, <1>6, <2>2
<1>11. TypeOK'
  <2>1. messages' \in [Task -> Seq(Message)]
    <3> HIDE DEF mid, m
    <3>1. mid[d] \in Seq(Message)
      BY <1>1, <1>7
    <3>2. Append(mid[d], m) \in Seq(Message)
      BY <1>4, <3>1
    <3>3. QED
      BY <1>5, <1>7, <3>2
  <2>2. wait_reason' \in [Task -> WaitReason]
    BY DEF Forward, Enqueued, Dequeued, IInv, TypeOK, Woken, WaitReason
  <2>3. QED
    BY <1>1, <2>1, <2>2 DEF Forward, Enqueued, Dequeued, Handled, IInv, TypeOK
<1>12. NoLostWakeup' /\ GotReply' /\ NeverCrashes' /\ Continuations'
  BY <1>1, <1>2, <1>10 DEF Forward, Enqueued, Dequeued, Handled, Running, Woken, IInv,
     TypeOK, NoLostWakeup, GotReply, NeverCrashes, Continuations, Awaiting
<1>13. QED
  BY <1>9, <1>11, <1>12 DEF IInv

\* The refused calls change at most what the program does next.
LEMMA RefusedIInv ==
  ASSUME IInv, NEW t \in Task, Handled(t),
         UNCHANGED <<tasks, wait_reason, messages, reply, syscall, crashed>>
  PROVE  IInv'
<1>1. TypeOK'
  BY DEF Handled, IInv, TypeOK
<1>2. OneRequestPerCall' /\ NoLostWakeup' /\ GotReply' /\ NeverCrashes'
  BY DEF IInv, OneRequestPerCall, NoLostWakeup, GotReply, NeverCrashes, Awaiting
<1>3. Continuations'
  BY DEF Handled, IInv, TypeOK, Continuations
<1>4. QED
  BY <1>1, <1>2, <1>3 DEF IInv

LEMMA StutterIInv == IInv /\ UNCHANGED ipcVars => IInv'
BY DEF ipcVars, IInv, TypeOK, OneRequestPerCall, NoLostWakeup, GotReply,
       NeverCrashes, Continuations, Awaiting

LEMMA NextIInv == IInv /\ [IpcNext]_ipcVars => IInv'
<1> SUFFICES ASSUME IInv, [IpcNext]_ipcVars PROVE IInv'
  OBVIOUS
<1>1. ASSUME NEW c \in Calls, SendRefused(c) PROVE IInv'
  BY <1>1, StutterIInv DEF SendRefused
<1>2. ASSUME NEW c \in Calls, SendBlock(c) PROVE IInv'
  BY <1>2, SendBlockIInv
<1>3. ASSUME NEW t \in Task, SendReturn(t) PROVE IInv'
  BY <1>3, SendReturnIInv
<1>4. ASSUME NEW t \in Servers, Receive(t) PROVE IInv'
  BY <1>4, ReceiveIInv
<1>5. ASSUME NEW t \in Servers, AnswerSteps(t) PROVE IInv'
  <2>1. t \in Task
    BY ConstantsAssumption
  <2>2. ASSUME NEW a \in Answers, Reply(a) PROVE IInv'
    BY <2>2, ReplyIInv
  <2>3. ASSUME NEW f \in Relays, Forward(f) PROVE IInv'
    BY <2>3, ForwardIInv
  <2>4. ASSUME NEW f \in Relays, f.from = t, ForwardRefused(f) PROVE IInv'
    BY <2>1, <2>4, RefusedIInv DEF ForwardRefused, Handled
  <2>5. CASE ReplyRefused(t)
    BY <2>1, <2>5, RefusedIInv DEF ReplyRefused
  <2>6. QED
    BY <1>5, <2>2, <2>3, <2>4, <2>5 DEF AnswerSteps
<1>6. CASE UNCHANGED ipcVars
  BY <1>6, StutterIInv
<1>7. QED
  BY <1>1, <1>2, <1>3, <1>4, <1>5, <1>6 DEF IpcNext, SendSteps

\* IInv holds in every reachable state.
THEOREM InductiveInvariant == IpcSpec => []IInv
<1>1. IpcInit => IInv
  BY InitIInv
<1>2. IInv /\ [IpcNext]_ipcVars => IInv'
  BY NextIInv
<1>3. QED
  BY <1>1, <1>2, PTL DEF IpcSpec

-----------------------------------------------------------------------------
\* The variables of the message system keep their types.
THEOREM TypeCorrect == IpcSpec => []TypeOK
<1>1. IInv => TypeOK
  BY DEF IInv
<1>2. QED
  BY <1>1, InductiveInvariant, PTL

\* The queues hold exactly one message for every call without a reply.
THEOREM RequestsKept == IpcSpec => []OneRequestPerCall
<1>1. IInv => OneRequestPerCall
  BY DEF IInv
<1>2. QED
  BY <1>1, InductiveInvariant, PTL

\* No task sleeps through the message or the reply it sleeps for.
THEOREM WakeupsKept == IpcSpec => []NoLostWakeup
<1>1. IInv => NoLostWakeup
  BY DEF IInv
<1>2. QED
  BY <1>1, InductiveInvariant, PTL

\* What the comments "got reply" and "got message at this point" say of the
\* second halves of send and receive is true.
THEOREM CommentsHold == IpcSpec => [](GotReply /\ GotMessage)
<1>1. IInv => GotReply /\ GotMessage
  BY DEF IInv, Continuations, GotMessage
<1>2. QED
  BY <1>1, InductiveInvariant, PTL

\* The kernel never follows a NULL or deleted message pointer.
THEOREM NoCrash == IpcSpec => []NeverCrashes
<1>1. IInv => NeverCrashes
  BY DEF IInv
<1>2. QED
  BY <1>1, InductiveInvariant, PTL

-----------------------------------------------------------------------------
\* A message queued anywhere leaves the head of a queue that is not empty.
LEMMA EnqueuedKeepsHead ==
  ASSUME NEW q \in [Task -> Seq(Message)], NEW d \in Task, NEW m \in Message,
         NEW t \in Task, q[t] # <<>>
  PROVE  Head(Enqueued(q, d, m)[t]) = Head(q[t])
<1>1. CASE t = d
  <2>1. Enqueued(q, d, m)[t] = Append(q[t], m)
    BY <1>1 DEF Enqueued
  <2>2. q[t] \in Seq(Message)
    OBVIOUS
  <2>3. QED
    BY <2>1, <2>2
<1>2. CASE t # d
  BY <1>2 DEF Enqueued
<1>3. QED
  BY <1>1, <1>2

\* What a step does to the request that u is serving.
Holds(u) == serving[u] /\ serving'[u] =>
              messages[u] # <<>> /\ Head(messages'[u]) = Head(messages[u])

LEMMA StepHolds == ASSUME IInv, [IpcNext]_ipcVars, NEW u \in Task PROVE Holds(u)
<1> SUFFICES ASSUME serving[u], serving'[u]
             PROVE  Head(messages'[u]) = Head(messages[u])
  BY DEF Holds, IInv, Continuations
<1>1. messages[u] # <<>> /\ messages \in [Task -> Seq(Message)]
  BY DEF IInv, Continuations, TypeOK
<1>2. CASE UNCHANGED messages
  BY <1>2
<1>3. ASSUME NEW c \in Calls, SendBlock(c)
      PROVE  Head(messages'[u]) = Head(messages[u])
  <2>1. /\ c.to \in Task
        /\ [sender |-> c.from, payload |-> c.payload] \in Message
    BY ConstantsAssumption DEF Message
  <2> DEFINE m == [sender |-> c.from, payload |-> c.payload]
  <2>2. messages' = Enqueued(messages, c.to, m) /\ m \in Message
    BY <1>3, <2>1 DEF SendBlock
  <2> HIDE DEF m
  <2>3. Head(Enqueued(messages, c.to, m)[u]) = Head(messages[u])
    BY <1>1, <2>1, <2>2, EnqueuedKeepsHead
  <2>4. QED
    BY <2>2, <2>3
<1>4. ASSUME NEW a \in Answers, Reply(a)
      PROVE  Head(messages'[u]) = Head(messages[u])
  <2>1. u # a.from
    BY <1>4 DEF Reply, Handled, IInv, TypeOK
  <2>2. QED
    BY <1>1, <1>4, <2>1 DEF Reply, Dequeued
<1>5. ASSUME NEW f \in Relays, Forward(f)
      PROVE  Head(messages'[u]) = Head(messages[u])
  <2> DEFINE t == f.from
             m == [sender |-> Head(messages[t]).sender, payload |-> f.payload]
  <2>1. t \in Task /\ f.to \in Task /\ messages[t] # <<>> /\ u # t
    BY <1>5, ConstantsAssumption DEF Forward, Handled, IInv, TypeOK
  <2>2. Head(messages[t]) \in Message /\ Tail(messages[t]) \in Seq(Message)
    BY <1>1, <2>1
  <2>3. m \in Message
    BY <2>2, ConstantsAssumption DEF Message
  <2>4. /\ Dequeued(t) \in [Task -> Seq(Message)]
        /\ Dequeued(t)[u] = messages[u]
    BY <1>1, <2>1, <2>2 DEF Dequeued
  <2>5. messages' = Enqueued(Dequeued(t), f.to, m)
    BY <1>5 DEF Forward
  <2> DEFINE q == Dequeued(t)
  <2> HIDE DEF m, q
  <2>6. q \in [Task -> Seq(Message)] /\ q[u] # <<>>
    BY <1>1, <2>4 DEF q
  <2>7. Head(Enqueued(q, f.to, m)[u]) = Head(q[u])
    <3>1. f.to \in Task
      BY <2>1
    <3>2. QED
      BY <3>1, <2>3, <2>6, EnqueuedKeepsHead
  <2>8. messages' = Enqueued(q, f.to, m) /\ q[u] = messages[u]
    BY <2>4, <2>5 DEF q
  <2>9. QED
    BY <2>7, <2>8
<1>6. ASSUME NEW t \in Task, SendReturn(t) PROVE UNCHANGED messages
  BY <1>6 DEF SendReturn, FinishSend, Crash
<1>7. ASSUME NEW t \in Servers, Receive(t) PROVE UNCHANGED messages
  BY <1>7 DEF Receive, ReceiveNow, ReceiveBlock, ReceiveResume, Crash
<1>8. QED
  BY <1>2, <1>3, <1>4, <1>5, <1>6, <1>7
  DEF IpcNext, SendSteps, AnswerSteps, SendRefused, ReplyRefused,
      ForwardRefused, ipcVars

\* The reply or forward of a server is about the request its receive read,
\* whatever the server and others did in between.
THEOREM RequestHeld == IpcSpec => HeldUntilAnswered
<1>1. IInv /\ [IpcNext]_ipcVars =>
        [\A t \in Task : serving[t] /\ serving'[t] =>
            messages[t] # <<>> /\ Head(messages'[t]) = Head(messages[t])]_ipcVars
  BY StepHolds DEF Holds
<1>2. QED
  BY <1>1, InductiveInvariant, PTL DEF IpcSpec, HeldUntilAnswered

-----------------------------------------------------------------------------
(* The calls of Rpc *)

\* All of IInv that the refinement needs: it says nothing of waits, which the
\* process manager writes too.
CallsInv == /\ TypeOK
            /\ OneRequestPerCall
            /\ \A t \in Task : syscall[t] # "send" => reply[t] = NULL

LEMMA IInvCalls == IInv => CallsInv
BY DEF IInv, CallsInv, Continuations

\* The caller of a queued message has no reply yet.
LEMMA HeadCalls ==
  ASSUME CallsInv, NEW t \in Task, messages[t] # <<>>
  PROVE  /\ Head(messages[t]) \in Message
         /\ Head(messages[t]).sender \in Task
         /\ syscall[Head(messages[t]).sender] = "send"
         /\ reply[Head(messages[t]).sender] = NULL
<1> DEFINE c == Head(messages[t]).sender
<1>1. messages[t] \in Seq(Message) /\ 1 \in 1..Len(messages[t])
      /\ Head(messages[t]) = messages[t][1]
  BY DEF CallsInv, TypeOK
<1>2. Head(messages[t]) \in Message
  BY <1>1
<1>3. c \in {u \in Task : Awaiting(u)}
  BY <1>1 DEF CallsInv, OneRequestPerCall, Once
<1>4. QED
  BY <1>2, <1>3 DEF Awaiting, Message

-----------------------------------------------------------------------------
LEMMA SendersSeq ==
  ASSUME NEW q \in Seq(Message)
  PROVE  Senders(q) \in Seq(Task) /\ Len(Senders(q)) = Len(q)
<1>1. \A i \in 1..Len(q) : q[i] \in Message
  OBVIOUS
<1>2. \A i \in 1..Len(q) : q[i].sender \in Task
  BY <1>1 DEF Message
<1>3. Len(q) \in Nat
  OBVIOUS
<1>4. QED
  BY <1>2, <1>3 DEF Senders

\* Queueing a message queues its sender.
LEMMA SendersAppend ==
  ASSUME NEW q \in Seq(Message), NEW m \in Message
  PROVE  Senders(Append(q, m)) = Append(Senders(q), m.sender)
<1>1. /\ Append(q, m) \in Seq(Message)
      /\ Len(Append(q, m)) = Len(q) + 1
      /\ Len(q) \in Nat
  OBVIOUS
<1>2. m.sender \in Task
  BY DEF Message
<1>3. /\ Senders(q) \in Seq(Task)
      /\ Len(Senders(q)) = Len(q)
      /\ Senders(Append(q, m)) \in Seq(Task)
      /\ Len(Senders(Append(q, m))) = Len(q) + 1
  BY <1>1, SendersSeq
<1>4. \A i \in 1..Len(q) + 1 :
         Senders(Append(q, m))[i] = Append(Senders(q), m.sender)[i]
  <2> TAKE i \in 1..Len(q) + 1
  <2>1. CASE i \in 1..Len(q)
    <3>1. Append(q, m)[i] = q[i] /\ i \in 1..Len(Append(q, m))
      BY <1>1, <2>1
    <3>2. Append(Senders(q), m.sender)[i] = Senders(q)[i]
      BY <1>2, <1>3, <2>1
    <3>3. QED
      BY <2>1, <3>1, <3>2 DEF Senders
  <2>2. CASE i = Len(q) + 1
    BY <1>1, <1>3, <2>2 DEF Senders
  <2>3. i \in 1..Len(q) \/ i = Len(q) + 1
    <3>1. Len(q) \in Nat
      OBVIOUS
    <3>2. QED
      BY <3>1
  <2>4. QED
    BY <2>1, <2>2, <2>3
<1>5. /\ Append(Senders(q), m.sender) \in Seq(Task)
      /\ Len(Append(Senders(q), m.sender)) = Len(q) + 1
  BY <1>2, <1>3
<1>6. QED
  BY <1>1, <1>3, <1>4, <1>5, SeqEqual

\* Taking the head off a queue takes off its sender.
LEMMA SendersTail ==
  ASSUME NEW q \in Seq(Message), q # <<>>
  PROVE  /\ Senders(q) # <<>>
         /\ Head(Senders(q)) = Head(q).sender
         /\ Senders(Tail(q)) = Tail(Senders(q))
<1>1. /\ Tail(q) \in Seq(Message)
      /\ Len(Tail(q)) = Len(q) - 1
      /\ Len(q) \in Nat \ {0}
  OBVIOUS
<1>2. /\ Senders(q) \in Seq(Task)
      /\ Len(Senders(q)) = Len(q)
      /\ Senders(Tail(q)) \in Seq(Task)
      /\ Len(Senders(Tail(q))) = Len(q) - 1
  BY <1>1, SendersSeq
<1>3. /\ Senders(q) # <<>>
      /\ Tail(Senders(q)) \in Seq(Task)
      /\ Len(Tail(Senders(q))) = Len(q) - 1
  BY <1>1, <1>2
<1>4. \A i \in 1..Len(q) - 1 : Senders(Tail(q))[i] = Tail(Senders(q))[i]
  <2> TAKE i \in 1..Len(q) - 1
  <2>1. Tail(Senders(q))[i] = Senders(q)[i + 1] /\ Tail(q)[i] = q[i + 1]
    BY <1>1, <1>2, <1>3
  <2>2. i \in 1..Len(Tail(q)) /\ i + 1 \in 1..Len(q)
    BY <1>1
  <2>3. QED
    BY <2>1, <2>2 DEF Senders
<1>5. Head(Senders(q)) = Head(q).sender
  <2>1. Head(Senders(q)) = Senders(q)[1] /\ Head(q) = q[1] /\ 1 \in 1..Len(q)
    BY <1>1, <1>2, <1>3
  <2>2. QED
    BY <2>1 DEF Senders
<1>6. QED
  BY <1>1, <1>2, <1>3, <1>4, <1>5, SeqEqual

-----------------------------------------------------------------------------
\* The two variables of Rpc.tla as the message system implements them.
phaseBar == [t \in Task |-> PhaseOf(t)]
inboxBar == [d \in Task |-> Senders(messages[d])]

\* The steps of Rpc.tla under the refinement mapping, spelled out.
LEMMA PromiseSteps ==
  /\ Promise!RpcInit <=> /\ phaseBar = [t \in Task |-> "idle"]
                         /\ inboxBar = [t \in Task |-> <<>>]
  /\ \A t, d : Promise!Call(t, d) <=>
        /\ phaseBar[t] = "idle"
        /\ t # d
        /\ phaseBar' = [phaseBar EXCEPT ![t] = "waiting"]
        /\ inboxBar' = [inboxBar EXCEPT ![d] = Append(@, t)]
  /\ \A d : Promise!Answer(d) <=>
        /\ inboxBar[d] # <<>>
        /\ phaseBar' = [phaseBar EXCEPT ![Head(inboxBar[d])] = "answered"]
        /\ inboxBar' = [inboxBar EXCEPT ![d] = Tail(@)]
  /\ \A d, e : Promise!Pass(d, e) <=>
        /\ inboxBar[d] # <<>>
        /\ inboxBar' = [[inboxBar EXCEPT ![d] = Tail(@)] EXCEPT
                           ![e] = Append(@, Head(inboxBar[d]))]
        /\ phaseBar' = phaseBar
  /\ \A t : Promise!Return(t) <=>
        /\ phaseBar[t] = "answered"
        /\ phaseBar' = [phaseBar EXCEPT ![t] = "idle"]
        /\ inboxBar' = inboxBar
BY DEF Promise!RpcInit, Promise!Call, Promise!Answer, Promise!Pass,
       Promise!Return, phaseBar, inboxBar

LEMMA SendBlockCalls ==
  ASSUME CallsInv, NEW c \in Calls, SendBlock(c)
  PROVE  c.from \in Task /\ c.to \in Task /\ Promise!Call(c.from, c.to)
<1> DEFINE s == c.from
           d == c.to
           m == [sender |-> s, payload |-> c.payload]
<1>1. s \in Task /\ d \in Task /\ m \in Message /\ m.sender = s
  BY ConstantsAssumption DEF Message
<1>2. s # d /\ syscall[s] = "none" /\ reply[s] = NULL
  BY <1>1 DEF SendBlock, Enqueued, Refused, Running, CallsInv
<1>3. phaseBar[s] = "idle"
  BY <1>1, <1>2 DEF phaseBar, PhaseOf
<1>4. phaseBar' = [phaseBar EXCEPT ![s] = "waiting"]
  BY <1>1, <1>2 DEF SendBlock, Enqueued, phaseBar, PhaseOf, CallsInv, TypeOK
<1>5. inboxBar' = [inboxBar EXCEPT ![d] = Append(@, s)]
  <2>1. messages \in [Task -> Seq(Message)] /\ messages[d] \in Seq(Message)
    BY <1>1 DEF CallsInv, TypeOK
  <2>2. messages' = [messages EXCEPT ![d] = Append(@, m)]
    BY DEF SendBlock, Enqueued
  <2> HIDE DEF m
  <2>3. Senders(Append(messages[d], m)) = Append(Senders(messages[d]), s)
    BY <1>1, <2>1, SendersAppend
  <2>4. QED
    BY <1>1, <2>1, <2>2, <2>3 DEF inboxBar
<1>6. QED
  BY <1>1, <1>2, <1>3, <1>4, <1>5, PromiseSteps

LEMMA FinishSendReturns ==
  ASSUME CallsInv, NEW t \in Task, FinishSend(t), reply[t] # NULL
  PROVE  Promise!Return(t)
<1>1. /\ syscall[t] = "send"
      /\ reply[t] # NULL
      /\ syscall' = [syscall EXCEPT ![t] = "none"]
      /\ reply' = [reply EXCEPT ![t] = NULL]
      /\ messages' = messages
  BY DEF FinishSend
<1>2. phaseBar[t] = "answered"
  BY <1>1 DEF phaseBar, PhaseOf
<1>3. phaseBar' = [phaseBar EXCEPT ![t] = "idle"]
  BY <1>1 DEF phaseBar, PhaseOf, CallsInv, TypeOK
<1>4. inboxBar' = inboxBar
  BY <1>1 DEF inboxBar
<1>5. QED
  BY <1>2, <1>3, <1>4, PromiseSteps

LEMMA ReplyAnswers ==
  ASSUME CallsInv, NEW a, a.from \in Task, a.payload \in Payload, Reply(a)
  PROVE  Promise!Answer(a.from)
<1> DEFINE t == a.from
           c == Head(messages[t]).sender
           m == [sender |-> t, payload |-> a.payload]
<1>1. t \in Task /\ m \in Message /\ m # NULL
  BY ConstantsAssumption DEF Message
<1>2. messages[t] # <<>> /\ messages[t] \in Seq(Message)
  BY <1>1 DEF Reply, Dequeued, CallsInv, TypeOK
<1>3. c \in Task /\ syscall[c] = "send" /\ reply[c] = NULL
  BY <1>1, <1>2, HeadCalls
<1>4. /\ reply' = [reply EXCEPT ![c] = m]
      /\ messages' = [messages EXCEPT ![t] = Tail(@)]
      /\ syscall' = syscall
  BY DEF Reply, Dequeued
<1>5. inboxBar[t] # <<>> /\ Head(inboxBar[t]) = c
  BY <1>1, <1>2, SendersTail DEF inboxBar
<1>6. phaseBar' = [phaseBar EXCEPT ![c] = "answered"]
  <2> HIDE DEF m, c
  <2>1. QED
    BY <1>1, <1>3, <1>4 DEF phaseBar, PhaseOf, CallsInv, TypeOK
<1>7. inboxBar' = [inboxBar EXCEPT ![t] = Tail(@)]
  <2>1. Senders(Tail(messages[t])) = Tail(Senders(messages[t]))
    BY <1>2, SendersTail
  <2>2. QED
    BY <1>1, <1>4, <2>1 DEF inboxBar, CallsInv, TypeOK
<1>8. QED
  BY <1>1, <1>5, <1>6, <1>7, PromiseSteps

LEMMA ForwardPasses ==
  ASSUME CallsInv, NEW f \in Relays, Forward(f)
  PROVE  f.from \in Task /\ f.to \in Task /\ Promise!Pass(f.from, f.to)
<1> DEFINE t == f.from
           d == f.to
           c == Head(messages[t]).sender
           m == [sender |-> c, payload |-> f.payload]
           mid == [messages EXCEPT ![t] = Tail(@)]
<1>1. t \in Task /\ d \in Task /\ f.payload \in Payload
  BY ConstantsAssumption
<1>2. messages[t] # <<>> /\ messages[t] \in Seq(Message)
  BY <1>1 DEF Forward, Enqueued, Dequeued, CallsInv, TypeOK
<1>3. m \in Message /\ m.sender = c
  BY <1>1, <1>2, HeadCalls DEF Message
<1>4. messages' = [mid EXCEPT ![d] = Append(@, m)]
  BY DEF Forward, Enqueued, Dequeued
<1>5. phaseBar' = phaseBar
  BY DEF Forward, Enqueued, Dequeued, phaseBar, PhaseOf
<1>6. inboxBar[t] # <<>> /\ Head(inboxBar[t]) = c
  BY <1>1, <1>2, SendersTail DEF inboxBar
<1>7. inboxBar' = [[inboxBar EXCEPT ![t] = Tail(@)] EXCEPT ![d] = Append(@, c)]
  <2>1. /\ messages \in [Task -> Seq(Message)]
        /\ Tail(messages[t]) \in Seq(Message)
    BY <1>2 DEF CallsInv, TypeOK
  <2>2. mid \in [Task -> Seq(Message)] /\ mid[d] \in Seq(Message)
    BY <1>1, <2>1
  <2>3. Senders(Tail(messages[t])) = Tail(Senders(messages[t]))
    BY <1>2, SendersTail
  <2>4. [e \in Task |-> Senders(mid[e])] = [inboxBar EXCEPT ![t] = Tail(@)]
    BY <1>1, <2>1, <2>3 DEF inboxBar
  <2> HIDE DEF mid, m, c
  <2>5. Senders(Append(mid[d], m)) = Append(Senders(mid[d]), c)
    BY <1>3, <2>2, SendersAppend
  <2>6. inboxBar' = [[e \in Task |-> Senders(mid[e])] EXCEPT
                        ![d] = Append(@, c)]
    BY <1>1, <1>4, <2>2, <2>5 DEF inboxBar
  <2>7. QED
    BY <2>4, <2>6
<1>8. QED
  BY <1>1, <1>5, <1>6, <1>7, PromiseSteps

\* A step that leaves the queues, the replies and the blocked calls alone, or
\* only enters or leaves a receive, is no step of Rpc.tla.
LEMMA NoPromiseStep ==
  ASSUME messages' = messages, reply' = reply,
         \A t \in Task : syscall[t] = "send" <=> syscall'[t] = "send"
  PROVE  UNCHANGED Promise!rpcVars
<1>1. [t \in Task |-> PhaseOf(t)]' = [t \in Task |-> PhaseOf(t)]
  BY DEF PhaseOf
<1>2. [d \in Task |-> Senders(messages[d])]' = [d \in Task |-> Senders(messages[d])]
  OBVIOUS
<1>3. QED
  BY <1>1, <1>2 DEF Promise!rpcVars

LEMMA InitImplements == IpcInit => Promise!RpcInit
<1> SUFFICES ASSUME IpcInit PROVE Promise!RpcInit
  OBVIOUS
<1>1. phaseBar = [t \in Task |-> "idle"]
  BY DEF IpcInit, phaseBar, PhaseOf
<1>2. \A d \in Task : Senders(messages[d]) = <<>>
  <2> TAKE d \in Task
  <2>1. messages[d] = <<>>
    BY DEF IpcInit
  <2>2. Senders(<<>>) = <<>>
    BY DEF Senders
  <2>3. QED
    BY <2>1, <2>2
<1>3. inboxBar = [t \in Task |-> <<>>]
  BY <1>2 DEF inboxBar
<1>4. QED
  BY <1>1, <1>3, PromiseSteps

LEMMA NextImplements ==
  IInv /\ [IpcNext]_ipcVars => [Promise!RpcNext]_(Promise!rpcVars)
<1> SUFFICES ASSUME IInv, [IpcNext]_ipcVars
             PROVE  [Promise!RpcNext]_(Promise!rpcVars)
  OBVIOUS
<1>0. CallsInv
  BY IInvCalls
<1>1. ASSUME NEW c \in Calls, SendRefused(c)
      PROVE  UNCHANGED Promise!rpcVars
  BY <1>1, NoPromiseStep DEF SendRefused, ipcVars
<1>2. ASSUME NEW c \in Calls, SendBlock(c) PROVE Promise!RpcNext
  BY <1>0, <1>2, SendBlockCalls DEF Promise!RpcNext
<1>3. ASSUME NEW t \in Task, SendReturn(t) PROVE Promise!RpcNext
  <2>1. FinishSend(t) /\ reply[t] # NULL
    BY <1>3 DEF SendReturn, FinishSend, IInv, GotReply
  <2>2. QED
    BY <1>0, <2>1, FinishSendReturns DEF Promise!RpcNext
<1>4. ASSUME NEW t \in Servers, Receive(t)
      PROVE  UNCHANGED Promise!rpcVars
  <2>1. t \in Task
    BY ConstantsAssumption
  <2>2. /\ messages' = messages
        /\ reply' = reply
        /\ \A u \in Task : syscall[u] = "send" <=> syscall'[u] = "send"
    BY <1>4, <2>1 DEF Receive, ReceiveNow, ReceiveBlock, ReceiveResume, Crash,
       Running, IInv, TypeOK
  <2>3. QED
    BY <2>2, NoPromiseStep
<1>5. ASSUME NEW t \in Servers, AnswerSteps(t)
      PROVE  [Promise!RpcNext]_(Promise!rpcVars)
  <2>1. ASSUME NEW a \in Answers, Reply(a) PROVE Promise!RpcNext
    <3>1. a.from \in Task /\ a.payload \in Payload
      BY ConstantsAssumption
    <3>2. Promise!Answer(a.from)
      BY <1>0, <2>1, <3>1, ReplyAnswers
    <3>3. QED
      BY <3>1, <3>2 DEF Promise!RpcNext
  <2>2. ASSUME NEW f \in Relays, Forward(f) PROVE Promise!RpcNext
    BY <1>0, <2>2, ForwardPasses DEF Promise!RpcNext
  <2>3. ASSUME NEW f \in Relays, ForwardRefused(f)
        PROVE  UNCHANGED Promise!rpcVars
    BY <2>3, NoPromiseStep DEF ForwardRefused
  <2>4. ReplyRefused(t) => UNCHANGED Promise!rpcVars
    BY NoPromiseStep DEF ReplyRefused
  <2>5. QED
    BY <1>5, <2>1, <2>2, <2>3, <2>4 DEF AnswerSteps
<1>6. CASE UNCHANGED ipcVars
  BY <1>6, NoPromiseStep DEF ipcVars
<1>7. QED
  BY <1>1, <1>2, <1>3, <1>4, <1>5, <1>6 DEF IpcNext, SendSteps

\* Every behaviour of the message system is one the abstract calls allow:
\* a call is answered once, in the order of arrival at the server that
\* answers it, and returns only then.
THEOREM Refinement == IpcSpec => ImplementsRpc
<1>1. IpcInit => Promise!RpcInit
  BY InitImplements
<1>2. IInv /\ [IpcNext]_ipcVars => [Promise!RpcNext]_(Promise!rpcVars)
  BY NextImplements
<1>3. QED
  BY <1>1, <1>2, InductiveInvariant, PTL
     DEF IpcSpec, ImplementsRpc, Promise!RpcSpec

-----------------------------------------------------------------------------
(* The inductive invariant *)

\* A task is linked below next_index, in the address space of one that is; above
\* there are tasks that have not run.
Indexed ==
  /\ next_index \in 1..(MaxTask + 1)
  /\ tasks = 0..(next_index - 1)
  /\ DeadAtBoot \subseteq tasks
  /\ vmm \in [Task -> Task]
  /\ \A t \in tasks : vmm[t] \in tasks
  /\ \A t \in Task \ tasks : wait_reason[t] = "wrPaused" /\ syscall[t] = "none"

Label == {"receive", "switch", "reply", "change_threads", "ready_thread",
          "delay_reason", "delay_object", "wait_object"}

Locals == /\ wait_object \in [Task -> 0..(Word - 1)]
          /\ threads \in [Task -> Int]
          /\ fs_server_tid \in Task
          /\ pc \in Label
          /\ thread \in Task

\* Neither dead nor not yet ready for the first time.
Lively(t) == wait_reason[t] \notin {"wrDead", "wrPaused"}

\* The statements at which no request is in the process manager's hands.
Outside == {"receive", "delay_reason", "delay_object"}

\* The request at the head is the one in msg; who asked is not killed behind the
\* process manager's back, and the thread it creates is nobody else's.
AtWork ==
  /\ IF pc = "receive" THEN msg = NULL ELSE msg \in Message /\ msg.sender \in tasks
  /\ pc \in Outside => ~serving[PROCMAN]
  /\ pc \notin Outside =>
       messages[PROCMAN] # <<>> /\ Head(messages[PROCMAN]).sender = msg.sender
  /\ pc \in {"switch", "delay_reason"} => Lively(msg.sender)
  /\ pc \in {"change_threads", "ready_thread"} =>
       thread \in tasks \ DeadAtBoot /\ wait_reason[thread] = "wrPaused"
  /\ pc = "change_threads" => vmm[thread] = vmm[msg.sender]

\* A dead task has no call in progress, but for the one that pcDie is answering.
Deaths ==
  /\ \A t \in DeadAtBoot : wait_reason[t] = "wrDead"
  /\ \A t \in Task : Awaiting(t) /\ ~Lively(t) => pc = "reply" /\ t = msg.sender

\* What t waits for is dead, or t sleeps until it is.
Seen(t, v) == \/ v \in tasks /\ wait_reason[v] = "wrDead"
              \/ wait_reason[t] = "wrTaskDie" /\ wait_object[t] = v

\* The process manager has answered the wait of t.
Waited(t) == /\ reply[t] # NULL
             /\ reply[t].sender = PROCMAN /\ reply[t].payload.type = "pcWaitDie"

\* From the answer on, and from the late assignment on that comes before it, the
\* wait is the one that was asked for.
WaitsKept ==
  /\ \A t \in Task : Waited(t) => Seen(t, reply[t].payload.value)
  /\ pc = "wait_object" => crashed \/ wait_reason[msg.sender] = "wrTaskDie"
  /\ pc = "reply" /\ msg.payload.type = "pcWaitDie" =>
       crashed \/ Seen(msg.sender, msg.payload.value)
  /\ pc \in {"delay_reason", "delay_object"} => ~Waited(msg.sender)

PmInv == /\ CallsInv /\ Indexed /\ Locals /\ AtWork /\ Deaths /\ WaitsKept
         /\ ThreadsCounted

-----------------------------------------------------------------------------
(* The calls, whoever makes them *)

\* A step that touches neither queues nor replies, and ends no send.
LEMMA KeptCalls ==
  ASSUME CallsInv, UNCHANGED <<tasks, messages, reply, crashed>>,
         wait_reason' \in [Task -> WaitReason],
         syscall' \in [Task -> {"none", "send", "receive"}],
         serving' \in [Task -> BOOLEAN],
         \A t \in Task : syscall[t] = "send" <=> syscall'[t] = "send"
  PROVE  CallsInv'
<1>1. TypeOK'
  BY DEF CallsInv, TypeOK
<1>2. {u \in Task : Awaiting(u)}' = {u \in Task : Awaiting(u)}
  BY DEF Awaiting
<1>3. OneRequestPerCall'
  BY <1>2 DEF CallsInv, OneRequestPerCall
<1> QED BY <1>1, <1>3 DEF CallsInv

\* A step that touches the waits, and the list of tasks, only.
LEMMA WaitsCalls ==
  ASSUME CallsInv, UNCHANGED <<messages, reply, syscall, serving>>,
         tasks' \subseteq Task, crashed' \in BOOLEAN,
         wait_reason' \in [Task -> WaitReason]
  PROVE  CallsInv'
<1>1. TypeOK'
  BY DEF CallsInv, TypeOK
<1>2. {u \in Task : Awaiting(u)}' = {u \in Task : Awaiting(u)}
  BY DEF Awaiting
<1>3. OneRequestPerCall'
  BY <1>2 DEF CallsInv, OneRequestPerCall
<1> QED BY <1>1, <1>3 DEF CallsInv

LEMMA SendBlockKeepsCalls ==
  ASSUME CallsInv, NEW c \in Calls, SendBlock(c)
  PROVE  CallsInv'
<1> DEFINE s == c.from
           d == c.to
           m == [sender |-> s, payload |-> c.payload]
<1>1. s \in Task /\ d \in Task /\ m \in Message /\ m.sender = s
  BY ConstantsAssumption DEF Message
<1>2. syscall[s] = "none" /\ reply[s] = NULL /\ ~Awaiting(s)
  BY <1>1 DEF SendBlock, Running, CallsInv, Awaiting
<1>3. messages' = [messages EXCEPT ![d] = Append(@, m)]
  BY DEF SendBlock, Enqueued
<1>4. messages \in [Task -> Seq(Message)] /\ messages[d] \in Seq(Message)
  BY <1>1 DEF CallsInv, TypeOK
<1>5. {t \in Task : Awaiting(t)}' = {t \in Task : Awaiting(t)} \cup {s}
  BY <1>1, <1>2 DEF SendBlock, Awaiting, CallsInv, TypeOK
<1>6. wait_reason' \in [Task -> WaitReason]
  BY DEF SendBlock, CallsInv, TypeOK, Woken, WaitReason
<1>7. messages' \in [Task -> Seq(Message)]
  <2>1. Append(messages[d], m) \in Seq(Message)
    BY <1>1, <1>4
  <2> HIDE DEF m
  <2> QED BY <1>3, <1>4, <2>1
<1>8. TypeOK'
  BY <1>6, <1>7 DEF SendBlock, CallsInv, TypeOK
<1>9. OneRequestPerCall'
  <2>1. Once(messages, {t \in Task : Awaiting(t)})
    BY DEF CallsInv, OneRequestPerCall
  <2> HIDE DEF m
  <2>2. m.sender \notin {t \in Task : Awaiting(t)}
    BY <1>1, <1>2
  <2>3. Once([messages EXCEPT ![d] = Append(@, m)],
             {t \in Task : Awaiting(t)} \cup {m.sender})
    BY <1>1, <1>4, <2>1, <2>2, OnceAppend
  <2> QED BY <1>1, <1>3, <1>5, <2>3 DEF OneRequestPerCall
<1>10. \A t \in Task : syscall'[t] # "send" => reply'[t] = NULL
  BY <1>1, <1>2 DEF SendBlock, CallsInv, TypeOK
<1> QED BY <1>8, <1>9, <1>10 DEF CallsInv

LEMMA FinishSendKeepsCalls ==
  ASSUME CallsInv, NEW t \in Task, FinishSend(t), wait_reason' \in [Task -> WaitReason]
  PROVE  CallsInv'
<1>1. CASE reply[t] = NULL
  BY <1>1, WaitsCalls DEF FinishSend, Crash, CallsInv, TypeOK
<1>2. CASE reply[t] # NULL
  <2>1. /\ reply' = [reply EXCEPT ![t] = NULL]
        /\ syscall' = [syscall EXCEPT ![t] = "none"]
        /\ UNCHANGED <<tasks, messages, serving, crashed>>
    BY <1>2 DEF FinishSend
  <2>2. TypeOK'
    BY <2>1 DEF CallsInv, TypeOK
  <2>3. {u \in Task : Awaiting(u)}' = {u \in Task : Awaiting(u)}
    BY <1>2, <2>1 DEF Awaiting, CallsInv, TypeOK
  <2>4. OneRequestPerCall'
    BY <2>1, <2>3 DEF CallsInv, OneRequestPerCall
  <2>5. \A u \in Task : syscall'[u] # "send" => reply'[u] = NULL
    BY <2>1 DEF CallsInv, TypeOK
  <2> QED BY <2>2, <2>4, <2>5 DEF CallsInv
<1> QED BY <1>1, <1>2

LEMMA ReceiveKeepsCalls ==
  ASSUME CallsInv, NEW t \in Task, Receive(t)
  PROVE  CallsInv'
<1>1. CASE crashed' = crashed
  <2>1. UNCHANGED <<tasks, messages, reply>>
    BY DEF Receive, ReceiveNow, ReceiveBlock, ReceiveResume, Crash
  <2>2. wait_reason' \in [Task -> WaitReason]
    BY DEF Receive, ReceiveNow, ReceiveBlock, ReceiveResume, CallsInv, TypeOK, WaitReason
  <2>3. /\ syscall' \in [Task -> {"none", "send", "receive"}]
        /\ \A u \in Task : syscall[u] = "send" <=> syscall'[u] = "send"
    BY DEF Receive, ReceiveNow, ReceiveBlock, ReceiveResume, Crash, Running, CallsInv, TypeOK
  <2>4. serving' \in [Task -> BOOLEAN]
    BY DEF Receive, ReceiveNow, ReceiveBlock, ReceiveResume, Crash, CallsInv, TypeOK
  <2> QED BY <1>1, <2>1, <2>2, <2>3, <2>4, KeptCalls
<1>2. CASE crashed' # crashed
  <2>1. /\ UNCHANGED <<tasks, messages, reply, syscall, serving, wait_reason>>
        /\ crashed' = TRUE
    BY <1>2 DEF Receive, ReceiveNow, ReceiveBlock, ReceiveResume, Crash
  <2> QED BY <2>1, WaitsCalls DEF CallsInv, TypeOK
<1> QED BY <1>1, <1>2

LEMMA ReplyKeepsCalls ==
  ASSUME CallsInv, NEW a, a.from \in Task, a.payload \in Payload, Reply(a)
  PROVE  CallsInv'
<1> DEFINE t == a.from
           c == Head(messages[t]).sender
           m == [sender |-> t, payload |-> a.payload]
<1>1. t \in Task /\ m \in Message /\ m # NULL
  BY ConstantsAssumption DEF Message
<1>2. messages[t] # <<>> /\ messages[t] \in Seq(Message) /\ Tail(messages[t]) \in Seq(Message)
  BY <1>1 DEF Reply, CallsInv, TypeOK
<1>3. c \in Task /\ syscall[c] = "send" /\ reply[c] = NULL
  BY <1>1, <1>2, HeadCalls
<1>4. /\ reply' = [reply EXCEPT ![c] = m]
      /\ messages' = [messages EXCEPT ![t] = Tail(@)]
      /\ serving' = [serving EXCEPT ![t] = FALSE]
      /\ UNCHANGED <<tasks, syscall, crashed>>
  BY DEF Reply, Dequeued, Handled
<1>5. wait_reason' \in [Task -> WaitReason]
  <2>1. wait_reason' = Replied(c)
    BY DEF Reply
  <2> HIDE DEF c
  <2> QED BY <1>3, <2>1 DEF Replied, CallsInv, TypeOK, WaitReason
<1>6. TypeOK'
  <2> HIDE DEF c, m
  <2> QED BY <1>1, <1>2, <1>3, <1>4, <1>5 DEF CallsInv, TypeOK
<1>7. {u \in Task : Awaiting(u)}' = {u \in Task : Awaiting(u)} \ {c}
  BY <1>1, <1>3, <1>4 DEF Awaiting, CallsInv, TypeOK
<1>8. OneRequestPerCall'
  <2>1. messages \in [Task -> Seq(Message)] /\ Once(messages, {u \in Task : Awaiting(u)})
    BY DEF CallsInv, TypeOK, OneRequestPerCall
  <2>2. Once([messages EXCEPT ![t] = Tail(@)], {u \in Task : Awaiting(u)} \ {c})
    BY <1>1, <1>2, <2>1, OnceTail
  <2> QED BY <1>4, <1>7, <2>2 DEF OneRequestPerCall
<1>9. \A u \in Task : syscall'[u] # "send" => reply'[u] = NULL
  <2> HIDE DEF c, m
  <2> QED BY <1>3, <1>4 DEF CallsInv, TypeOK
<1> QED BY <1>6, <1>8, <1>9 DEF CallsInv

LEMMA ForwardKeepsCalls ==
  ASSUME CallsInv, NEW f \in Relays, Forward(f)
  PROVE  CallsInv'
<1> DEFINE t == f.from
           d == f.to
           c == Head(messages[t]).sender
           m == [sender |-> c, payload |-> f.payload]
           W == {u \in Task : Awaiting(u)}
           mid == [messages EXCEPT ![t] = Tail(@)]
<1>1. t \in Task /\ d \in Task /\ f.payload \in Payload
  BY ConstantsAssumption
<1>2. messages[t] # <<>> /\ messages \in [Task -> Seq(Message)]
  BY DEF Forward, CallsInv, TypeOK
<1>3. c \in Task /\ syscall[c] = "send" /\ reply[c] = NULL
  BY <1>1, <1>2, HeadCalls
<1>4. m \in Message /\ m.sender = c
  BY <1>1, <1>3 DEF Message
<1>5. messages' = [mid EXCEPT ![d] = Append(@, m)]
  BY DEF Forward, Enqueued, Dequeued
<1>6. mid \in [Task -> Seq(Message)]
  <2>1. Tail(messages[t]) \in Seq(Message)
    BY <1>1, <1>2
  <2> QED BY <1>2, <2>1
<1>7. W' = W /\ c \in W
  BY <1>3 DEF Forward, Awaiting
<1>8. OneRequestPerCall'
  <2>1. Once(messages, W)
    BY DEF CallsInv, OneRequestPerCall
  <2>2. Once(mid, W \ {c})
    BY <1>1, <1>2, <2>1, OnceTail
  <2> HIDE DEF mid, m
  <2>3. Once([mid EXCEPT ![d] = Append(@, m)], (W \ {c}) \cup {m.sender})
    BY <1>1, <1>4, <1>6, <2>2, OnceAppend
  <2> QED BY <1>4, <1>5, <1>7, <2>3 DEF OneRequestPerCall
<1>9. messages' \in [Task -> Seq(Message)]
  <2> HIDE DEF mid, m
  <2>1. mid[d] \in Seq(Message)
    BY <1>1, <1>6
  <2>2. Append(mid[d], m) \in Seq(Message)
    BY <1>4, <2>1
  <2> QED BY <1>5, <1>6, <2>2
<1>10. wait_reason' \in [Task -> WaitReason]
  BY DEF Forward, CallsInv, TypeOK, Woken, WaitReason
<1>11. TypeOK'
  BY <1>1, <1>9, <1>10 DEF Forward, Handled, CallsInv, TypeOK
<1>12. \A u \in Task : syscall'[u] # "send" => reply'[u] = NULL
  BY DEF Forward, CallsInv
<1> QED BY <1>8, <1>11, <1>12 DEF CallsInv

-----------------------------------------------------------------------------
(* Steps that kill nobody and create nobody *)

\* The dead and the paused stay so, and nobody joins them.
Tame == /\ UNCHANGED <<tasks, next_index, vmm>>
        /\ \A t \in Task : IF Lively(t) THEN Lively(t)'
                            ELSE wait_reason'[t] = wait_reason[t]

LEMMA TameIndexed ==
  ASSUME PmInv, Tame, \A t \in Task \ tasks : syscall'[t] = "none"
  PROVE  Indexed'
BY DEF PmInv, Tame, Indexed, Lively

LEMMA TasksInTask == ASSUME Indexed PROVE tasks \subseteq Task /\ IsFiniteSet(tasks)
<1>1. next_index \in Int /\ next_index - 1 <= MaxTask /\ MaxTask \in Int
  BY ProcManAssumption DEF Indexed
<1>2. tasks \subseteq Task
  BY <1>1, ProcManAssumption DEF Indexed
<1>3. IsFiniteSet(0..(next_index - 1))
  BY <1>1, FS_Interval
<1> QED BY <1>2, <1>3 DEF Indexed

LEMMA TameResidents ==
  ASSUME PmInv, Tame, NEW s
  PROVE  Residents(s)' = Residents(s)
<1>1. tasks \subseteq Task
  BY TasksInTask DEF PmInv
<1> QED BY <1>1 DEF Tame, Residents, Lively

LEMMA TameThreads ==
  ASSUME PmInv, Tame, UNCHANGED threads,
         pc' = "change_threads" <=> pc = "change_threads",
         pc = "change_threads" => thread' = thread
  PROVE  ThreadsCounted'
<1> SUFFICES ASSUME NEW s \in Task
             PROVE  threads'[s] = Cardinality(Residents(s)'
                          \ (IF pc' = "change_threads" THEN {thread'} ELSE {}))
  BY DEF ThreadsCounted
<1>1. Residents(s)' = Residents(s)
  BY TameResidents
<1>2. threads[s] = Cardinality(Residents(s)
                     \ (IF pc = "change_threads" THEN {thread} ELSE {}))
  BY DEF PmInv, ThreadsCounted
<1> QED BY <1>1, <1>2

LEMMA TameDeaths ==
  ASSUME PmInv, Tame, \A t \in Task : Awaiting(t)' => Awaiting(t) \/ Lively(t)',
         pc = "reply" => pc' = pc /\ msg' = msg
  PROVE  Deaths'
<1>1. DeadAtBoot \subseteq Task
  BY ConstantsAssumption
<1>2. \A t \in DeadAtBoot : wait_reason'[t] = "wrDead"
  BY <1>1 DEF PmInv, Deaths, Tame, Lively
<1>3. \A t \in Task : ~Lively(t)' => ~Lively(t)
  BY DEF Tame, Lively
<1> QED BY <1>2, <1>3 DEF PmInv, Deaths

\* What a step of the programs, the clock or the scheduler does to the rest.
Apart ==
  /\ UNCHANGED <<threads, pmVars>>
  /\ wait_object' \in [Task -> 0..(Word - 1)]
  /\ serving'[PROCMAN] = serving[PROCMAN]
  /\ messages[PROCMAN] # <<>> =>
       messages'[PROCMAN] # <<>> /\ Head(messages'[PROCMAN]) = Head(messages[PROCMAN])
  /\ crashed => crashed'
  /\ \A t \in Task \ tasks : syscall'[t] = "none"
  /\ \A t \in Task : Awaiting(t)' => Awaiting(t) \/ Lively(t)'
  /\ \A t \in Task : Waited(t)' => Waited(t) /\ reply'[t] = reply[t]
  /\ \A t \in Task : wait_reason[t] = "wrTaskDie" =>
       \/ wait_reason'[t] = "wrTaskDie" /\ wait_object'[t] = wait_object[t]
       \/ DieObserved(t) /\ (reply[t] = NULL => crashed')

LEMMA SenderAwaits ==
  ASSUME PmInv, pc \notin Outside
  PROVE  /\ msg \in Message /\ msg.sender \in tasks /\ msg.sender \in Task
         /\ syscall[msg.sender] = "send" /\ reply[msg.sender] = NULL
<1>1. PROCMAN \in Task
  BY ProcManAssumption, ConstantsAssumption
<1>2. messages[PROCMAN] # <<>> /\ Head(messages[PROCMAN]).sender = msg.sender
  BY DEF PmInv, AtWork
<1>3. msg \in Message /\ msg.sender \in tasks
  BY DEF PmInv, AtWork, Outside
<1> QED BY <1>1, <1>2, <1>3, HeadCalls DEF PmInv

\* A dead task is one of the tasks, and stays dead.
LEMMA SeenStays ==
  ASSUME PmInv, Tame, NEW t \in Task, NEW v, Seen(t, v),
         wait_reason[t] = "wrTaskDie" =>
           \/ wait_reason'[t] = "wrTaskDie" /\ wait_object'[t] = wait_object[t]
           \/ DieObserved(t)
  PROVE  Seen(t, v)'
<1>1. tasks \subseteq Task
  BY TasksInTask DEF PmInv
<1>2. \A u \in tasks : wait_reason[u] = "wrDead" => wait_reason'[u] = "wrDead"
  BY <1>1 DEF Tame, Lively
<1>3. tasks' = tasks
  BY DEF Tame
<1> QED BY <1>2, <1>3 DEF Seen, DieObserved

LEMMA ApartKeeps ==
  ASSUME PmInv, Tame, Apart, CallsInv'
  PROVE  PmInv'
<1>1. Indexed' /\ ThreadsCounted' /\ Deaths'
  BY TameIndexed, TameThreads, TameDeaths DEF Apart, pmVars
<1>2. Locals'
  BY DEF PmInv, Locals, Apart, pmVars
<1>3. tasks \subseteq Task
  BY TasksInTask DEF PmInv
<1>4. AtWork'
  <2>1. IF pc' = "receive" THEN msg' = NULL ELSE msg' \in Message /\ msg'.sender \in tasks'
    BY DEF PmInv, AtWork, Apart, pmVars, Tame
  <2>2. /\ pc' \in Outside => ~serving'[PROCMAN]
        /\ pc' \notin Outside =>
             messages'[PROCMAN] # <<>> /\ Head(messages'[PROCMAN]).sender = msg'.sender
    BY DEF PmInv, AtWork, Apart, pmVars
  <2>3. pc' \in {"switch", "delay_reason"} => Lively(msg.sender)'
    BY <1>3 DEF PmInv, AtWork, Apart, pmVars, Tame, Lively
  <2>4. /\ pc' \in {"change_threads", "ready_thread"} =>
             thread' \in tasks' \ DeadAtBoot /\ wait_reason'[thread'] = "wrPaused"
        /\ pc' = "change_threads" => vmm'[thread'] = vmm'[msg'.sender]
    BY <1>3 DEF PmInv, AtWork, Apart, pmVars, Tame, Lively
  <2> QED BY <2>1, <2>2, <2>3, <2>4 DEF AtWork
<1>5. WaitsKept'
  <2>1. ASSUME NEW t \in Task, Waited(t)' PROVE Seen(t, reply[t].payload.value)'
    <3>1. Waited(t) /\ reply'[t] = reply[t]
      BY <2>1 DEF Apart
    <3>2. Seen(t, reply[t].payload.value)
      BY <3>1 DEF PmInv, WaitsKept
    <3> DEFINE v == reply[t].payload.value
    <3>3. PICK w : w = v
      OBVIOUS
    <3>4. Seen(t, w)'
      BY <3>2, <3>3, SeenStays DEF Apart
    <3> QED BY <3>1, <3>3, <3>4 DEF Seen
  <2>2. ASSUME pc' = "wait_object" PROVE crashed' \/ wait_reason'[msg'.sender] = "wrTaskDie"
    <3>1. pc = "wait_object" /\ msg' = msg
      BY <2>2 DEF Apart, pmVars
    <3>2. msg.sender \in Task /\ reply[msg.sender] = NULL
      BY <3>1, SenderAwaits DEF Outside
    <3> QED BY <3>1, <3>2 DEF PmInv, WaitsKept, Apart
  <2>3. ASSUME pc' = "reply", msg'.payload.type = "pcWaitDie"
        PROVE  crashed' \/ Seen(msg.sender, msg.payload.value)'
    <3>1. pc = "reply" /\ msg' = msg
      BY <2>3 DEF Apart, pmVars
    <3>2. msg.sender \in Task
      BY <3>1, SenderAwaits DEF Outside
    <3>3. crashed \/ Seen(msg.sender, msg.payload.value)
      BY <2>3, <3>1 DEF PmInv, WaitsKept
    <3>4. PICK u, w : u = msg.sender /\ w = msg.payload.value
      OBVIOUS
    <3>5. Seen(u, w) => Seen(u, w)'
      BY <3>2, <3>4, SeenStays DEF Apart
    <3>6. crashed' \/ Seen(u, w)'
      BY <3>3, <3>4, <3>5 DEF Apart
    <3> QED BY <3>1, <3>4, <3>6 DEF Seen
  <2>4. pc' \in {"delay_reason", "delay_object"} => ~Waited(msg.sender)'
    <3>1. pc \in {"delay_reason", "delay_object"} => msg.sender \in tasks
      BY DEF PmInv, AtWork
    <3>2. UNCHANGED <<pc, msg>>
      BY DEF Apart, pmVars
    <3> QED BY <1>3, <3>1, <3>2 DEF PmInv, WaitsKept, Apart, Waited
  <2> QED BY <2>1, <2>2, <2>3, <2>4 DEF WaitsKept
<1> QED BY <1>1, <1>2, <1>4, <1>5 DEF PmInv

-----------------------------------------------------------------------------
(* The programs, the clock and the scheduler *)

LEMMA ProcmanApart == /\ PROCMAN \in Task /\ PROCMAN \notin Servers
                      /\ Servers \subseteq Task
BY ProcManAssumption, ConstantsAssumption

LEMMA AppendNonEmpty ==
  ASSUME NEW q \in Seq(Message), NEW m \in Message PROVE Append(q, m) # <<>>
<1>1. Len(Append(q, m)) = Len(q) + 1 /\ Len(q) \in Nat
  OBVIOUS
<1>2. Len(<<>>) = 0
  OBVIOUS
<1> QED BY <1>1, <1>2

\* A step that leaves everything but who serves, and the receives, alone.
LEMMA QuietKeeps ==
  ASSUME PmInv, CallsInv',
         UNCHANGED <<tasks, wait_reason, messages, reply, taskVars, pmVars>>,
         serving'[PROCMAN] = serving[PROCMAN],
         \A t \in Task : syscall[t] = "send" <=> syscall'[t] = "send",
         \A t \in Task \ tasks : syscall'[t] = "none",
         crashed => crashed'
  PROVE  PmInv'
<1>1. Tame
  BY DEF Tame, Lively, taskVars
<1>2. Apart
  <2>1. UNCHANGED <<threads, pmVars>> /\ wait_object' \in [Task -> 0..(Word - 1)]
    BY DEF taskVars, PmInv, Locals
  <2>2. \A t \in Task : Awaiting(t)' => Awaiting(t)
    BY DEF Awaiting
  <2>3. \A t \in Task : Waited(t)' => Waited(t) /\ reply'[t] = reply[t]
    BY DEF Waited
  <2>4. \A t \in Task : wait_reason[t] = "wrTaskDie" =>
            wait_reason'[t] = "wrTaskDie" /\ wait_object'[t] = wait_object[t]
    BY DEF taskVars
  <2> QED BY <2>1, <2>2, <2>3, <2>4 DEF Apart
<1> QED BY <1>1, <1>2, ApartKeeps

LEMMA SendBlockKeeps ==
  ASSUME PmInv, NEW c \in Calls, SendBlock(c), UNCHANGED <<taskVars, pmVars>>
  PROVE  PmInv'
<1> DEFINE s == c.from
           d == c.to
           m == [sender |-> s, payload |-> c.payload]
<1>1. s \in Task /\ d \in Task /\ m \in Message /\ PROCMAN \in Task
  BY ConstantsAssumption, ProcmanApart DEF Message
<1>2. wait_reason[s] = "wrNone" /\ syscall[s] = "none" /\ ~Refused(c)
  BY DEF SendBlock, Running
<1>3. wait_reason' = [Woken(d) EXCEPT ![s] = "wrReply"]
      /\ wait_reason \in [Task -> WaitReason]
  BY DEF SendBlock, PmInv, CallsInv, TypeOK
<1>4. \A t \in Task : IF t = s THEN wait_reason'[t] = "wrReply"
                      ELSE IF t = d /\ wait_reason[t] = "wrMessage"
                           THEN wait_reason'[t] = "wrNone"
                           ELSE wait_reason'[t] = wait_reason[t]
  BY <1>1, <1>3 DEF Woken
<1>5. Tame
  BY <1>1, <1>2, <1>4 DEF Tame, Lively, SendBlock, taskVars
<1>6. s \in tasks
  BY <1>1, <1>2 DEF PmInv, Indexed
<1>7. syscall' = [syscall EXCEPT ![s] = "send"] /\ UNCHANGED <<reply, serving, crashed>>
  BY DEF SendBlock
<1>8. messages[PROCMAN] # <<>> =>
        messages'[PROCMAN] # <<>> /\ Head(messages'[PROCMAN]) = Head(messages[PROCMAN])
  <2> HIDE DEF m
  <2>1. messages \in [Task -> Seq(Message)] /\ messages[d] \in Seq(Message)
    BY <1>1 DEF PmInv, CallsInv, TypeOK
  <2>2. messages' = Enqueued(messages, d, m)
    BY DEF SendBlock, m
  <2>3. messages[PROCMAN] # <<>> => messages'[PROCMAN] # <<>>
    <3>1. Append(messages[d], m) # <<>>
      BY <1>1, <2>1, AppendNonEmpty
    <3> QED BY <1>1, <2>1, <2>2, <3>1 DEF Enqueued
  <2> QED BY <1>1, <2>1, <2>2, <2>3, EnqueuedKeepsHead
<1>9. Apart
  <2>1. UNCHANGED <<threads, pmVars>> /\ wait_object' \in [Task -> 0..(Word - 1)]
    BY DEF taskVars, PmInv, Locals
  <2>2. \A t \in Task : Awaiting(t)' => Awaiting(t) \/ Lively(t)'
    BY <1>4, <1>7 DEF Awaiting, Lively, PmInv, CallsInv, TypeOK
  <2>3. \A t \in Task : Waited(t)' => Waited(t) /\ reply'[t] = reply[t]
    BY <1>7 DEF Waited
  <2>4. \A t \in Task : wait_reason[t] = "wrTaskDie" =>
            wait_reason'[t] = "wrTaskDie" /\ wait_object'[t] = wait_object[t]
    BY <1>2, <1>4 DEF taskVars
  <2>5. \A t \in Task \ tasks : syscall'[t] = "none"
    BY <1>6, <1>7 DEF PmInv, Indexed, CallsInv, TypeOK
  <2> QED BY <1>7, <1>8, <2>1, <2>2, <2>3, <2>4, <2>5 DEF Apart
<1>10. CallsInv'
  BY SendBlockKeepsCalls DEF PmInv
<1> QED BY <1>5, <1>9, <1>10, ApartKeeps

\* The second half of send, also when the scheduler's search lets it run.
LEMMA FinishSendKeeps ==
  ASSUME PmInv, NEW t \in Task, FinishSend(t), UNCHANGED <<taskVars, pmVars>>,
         \/ wait_reason' = wait_reason
         \/ DieObserved(t) /\ wait_reason' = [wait_reason EXCEPT ![t] = "wrNone"]
  PROVE  PmInv'
<1>1. wait_reason' \in [Task -> WaitReason]
  BY DEF PmInv, CallsInv, TypeOK, WaitReason
<1>2. CallsInv'
  BY <1>1, FinishSendKeepsCalls DEF PmInv
<1>3. UNCHANGED <<tasks, messages, serving>>
  BY DEF FinishSend, Crash
<1>4. \A u \in Task : \/ wait_reason'[u] = wait_reason[u]
                      \/ u = t /\ DieObserved(t) /\ wait_reason'[u] = "wrNone"
  BY DEF PmInv, CallsInv, TypeOK
<1>5. Tame
  BY <1>3, <1>4 DEF Tame, Lively, taskVars, DieObserved
<1>6. /\ crashed => crashed'
      /\ reply[t] = NULL => crashed'
      /\ \A u \in Task : syscall'[u] = syscall[u] \/ (u = t /\ reply[t] # NULL /\ syscall'[u] = "none")
      /\ \A u \in Task : reply'[u] = reply[u] \/ (u = t /\ reply'[u] = NULL /\ syscall'[u] = "none")
  BY DEF FinishSend, Crash, PmInv, CallsInv, TypeOK
<1>7. Apart
  <2>1. UNCHANGED <<threads, pmVars>> /\ wait_object' \in [Task -> 0..(Word - 1)]
    BY DEF taskVars, PmInv, Locals
  <2>2. \A u \in Task : Awaiting(u)' => Awaiting(u)
    BY <1>6 DEF Awaiting
  <2>3. \A u \in Task : Waited(u)' => Waited(u) /\ reply'[u] = reply[u]
    BY <1>6 DEF Waited
  <2>4. \A u \in Task : wait_reason[u] = "wrTaskDie" =>
            \/ wait_reason'[u] = "wrTaskDie" /\ wait_object'[u] = wait_object[u]
            \/ DieObserved(u) /\ (reply[u] = NULL => crashed')
    BY <1>4, <1>6 DEF taskVars
  <2>5. \A u \in Task \ tasks : syscall'[u] = "none"
    BY <1>6 DEF PmInv, Indexed
  <2> QED BY <1>3, <1>6, <2>1, <2>2, <2>3, <2>4, <2>5 DEF Apart
<1> QED BY <1>2, <1>5, <1>7, ApartKeeps

LEMMA ServerReceiveKeeps ==
  ASSUME PmInv, NEW t \in Servers, Receive(t), UNCHANGED <<taskVars, pmVars>>
  PROVE  PmInv'
<1>1. t \in Task /\ t # PROCMAN
  BY ProcmanApart
<1>2. CallsInv'
  BY <1>1, ReceiveKeepsCalls DEF PmInv
<1>3. UNCHANGED <<tasks, messages, reply>> /\ (crashed => crashed')
  BY DEF Receive, ReceiveNow, ReceiveBlock, ReceiveResume, Crash, Running
<1>4. \A u \in Task : \/ wait_reason'[u] = wait_reason[u]
                      \/ wait_reason[u] = "wrNone" /\ wait_reason'[u] = "wrMessage"
  BY DEF Receive, ReceiveNow, ReceiveBlock, ReceiveResume, Running, PmInv, CallsInv, TypeOK
<1>5. wait_reason[t] = "wrNone"
      /\ \A u \in Task : u # t => syscall'[u] = syscall[u] /\ serving'[u] = serving[u]
  BY <1>1 DEF Receive, ReceiveNow, ReceiveBlock, ReceiveResume, Running, Crash,
     PmInv, CallsInv, TypeOK
<1>6. \A u \in Task : syscall[u] = "send" <=> syscall'[u] = "send"
  BY DEF Receive, ReceiveNow, ReceiveBlock, ReceiveResume, Running, Crash,
     PmInv, CallsInv, TypeOK
<1>7. Tame
  BY <1>3, <1>4 DEF Tame, Lively, taskVars
<1>8. Apart
  <2>1. UNCHANGED <<threads, pmVars>> /\ wait_object' \in [Task -> 0..(Word - 1)]
    BY DEF taskVars, PmInv, Locals
  <2>2. \A u \in Task : Awaiting(u)' => Awaiting(u)
    BY <1>3, <1>6 DEF Awaiting
  <2>3. \A u \in Task : Waited(u)' => Waited(u) /\ reply'[u] = reply[u]
    BY <1>3 DEF Waited
  <2>4. \A u \in Task : wait_reason[u] = "wrTaskDie" =>
            wait_reason'[u] = "wrTaskDie" /\ wait_object'[u] = wait_object[u]
    BY <1>4 DEF taskVars
  <2>5. \A u \in Task \ tasks : syscall'[u] = "none"
    BY <1>1, <1>5 DEF PmInv, Indexed
  <2>6. serving'[PROCMAN] = serving[PROCMAN]
    BY <1>1, <1>5, ProcmanApart
  <2> QED BY <1>3, <2>1, <2>2, <2>3, <2>4, <2>5, <2>6 DEF Apart
<1> QED BY <1>2, <1>7, <1>8, ApartKeeps

LEMMA ServerReplyKeeps ==
  ASSUME PmInv, NEW a \in Answers, a.from \in Servers, Reply(a),
         UNCHANGED <<taskVars, pmVars>>
  PROVE  PmInv'
<1> DEFINE t == a.from
           c == Head(messages[t]).sender
<1>1. t \in Task /\ t # PROCMAN /\ a.payload \in Payload /\ PROCMAN \in Task
  BY ProcmanApart, ConstantsAssumption
<1>2. messages[t] # <<>>
  BY DEF Reply
<1>3. c \in Task /\ syscall[c] = "send"
  BY <1>1, <1>2, HeadCalls DEF PmInv
<1>4. CallsInv'
  BY <1>1, ReplyKeepsCalls DEF PmInv
<1>5. /\ reply' = [reply EXCEPT ![c] = [sender |-> t, payload |-> a.payload]]
      /\ messages' = [messages EXCEPT ![t] = Tail(@)]
      /\ serving' = [serving EXCEPT ![t] = FALSE]
      /\ wait_reason' = Replied(c)
      /\ UNCHANGED <<tasks, syscall, crashed>>
  BY DEF Reply, Dequeued, Handled
<1> HIDE DEF c
<1>6. \A u \in Task : \/ wait_reason'[u] = wait_reason[u]
                      \/ wait_reason[u] = "wrReply" /\ wait_reason'[u] = "wrNone"
  BY <1>5 DEF Replied, PmInv, CallsInv, TypeOK
<1>7. Tame
  BY <1>5, <1>6 DEF Tame, Lively, taskVars
<1>8. \A u \in Task : reply'[u] = reply[u] \/ (reply'[u] # NULL /\ reply'[u].sender = t)
  <2>1. [sender |-> t, payload |-> a.payload] \in Message
    BY <1>1 DEF Message
  <2>2. [sender |-> t, payload |-> a.payload] # NULL
    BY <2>1, ConstantsAssumption
  <2> QED BY <1>5, <2>2 DEF PmInv, CallsInv, TypeOK
<1>9. Apart
  <2>1. UNCHANGED <<threads, pmVars>> /\ wait_object' \in [Task -> 0..(Word - 1)]
    BY DEF taskVars, PmInv, Locals
  <2>2. \A u \in Task : Awaiting(u)' => Awaiting(u)
    BY <1>5, <1>8 DEF Awaiting
  <2>3. \A u \in Task : Waited(u)' => Waited(u) /\ reply'[u] = reply[u]
    BY <1>1, <1>8 DEF Waited
  <2>4. \A u \in Task : wait_reason[u] = "wrTaskDie" =>
            wait_reason'[u] = "wrTaskDie" /\ wait_object'[u] = wait_object[u]
    BY <1>6 DEF taskVars
  <2>5. \A u \in Task \ tasks : syscall'[u] = "none"
    BY <1>5 DEF PmInv, Indexed
  <2>6. serving'[PROCMAN] = serving[PROCMAN] /\ messages'[PROCMAN] = messages[PROCMAN]
    BY <1>1, <1>5 DEF PmInv, CallsInv, TypeOK
  <2> QED BY <1>5, <2>1, <2>2, <2>3, <2>4, <2>5, <2>6 DEF Apart
<1> QED BY <1>4, <1>7, <1>9, ApartKeeps

LEMMA ServerForwardKeeps ==
  ASSUME PmInv, NEW f \in Relays, f.from \in Servers, Forward(f),
         UNCHANGED <<taskVars, pmVars>>
  PROVE  PmInv'
<1> DEFINE t == f.from
           d == f.to
           m == [sender |-> Head(messages[t]).sender, payload |-> f.payload]
           mid == Dequeued(t)
<1>1. t \in Task /\ t # PROCMAN /\ d \in Task /\ PROCMAN \in Task
  BY ProcmanApart, ConstantsAssumption
<1>2. messages[t] # <<>> /\ messages[t] \in Seq(Message) /\ Tail(messages[t]) \in Seq(Message)
      /\ messages \in [Task -> Seq(Message)]
  BY <1>1 DEF Forward, PmInv, CallsInv, TypeOK
<1>3. m \in Message
  BY <1>1, <1>2, HeadCalls, ConstantsAssumption DEF PmInv, Message
<1>4. CallsInv'
  BY ForwardKeepsCalls DEF PmInv
<1>5. /\ messages' = Enqueued(mid, d, m)
      /\ serving' = [serving EXCEPT ![t] = FALSE]
      /\ wait_reason' = Woken(d)
      /\ UNCHANGED <<tasks, reply, syscall, crashed>>
  BY DEF Forward, Handled
<1>6. mid \in [Task -> Seq(Message)] /\ mid[PROCMAN] = messages[PROCMAN]
  BY <1>1, <1>2 DEF Dequeued
<1> HIDE DEF m, mid
<1>7. messages[PROCMAN] # <<>> =>
        messages'[PROCMAN] # <<>> /\ Head(messages'[PROCMAN]) = Head(messages[PROCMAN])
  <2>1. mid[d] \in Seq(Message) /\ Append(mid[d], m) # <<>>
    BY <1>1, <1>3, <1>6, AppendNonEmpty
  <2>2. messages[PROCMAN] # <<>> => messages'[PROCMAN] # <<>>
    BY <1>1, <1>5, <1>6, <2>1 DEF Enqueued
  <2> QED BY <1>1, <1>3, <1>5, <1>6, <2>2, EnqueuedKeepsHead
<1>8. \A u \in Task : \/ wait_reason'[u] = wait_reason[u]
                      \/ wait_reason[u] = "wrMessage" /\ wait_reason'[u] = "wrNone"
  BY <1>5 DEF Woken, PmInv, CallsInv, TypeOK
<1>9. Tame
  BY <1>5, <1>8 DEF Tame, Lively, taskVars
<1>10. Apart
  <2>1. UNCHANGED <<threads, pmVars>> /\ wait_object' \in [Task -> 0..(Word - 1)]
    BY DEF taskVars, PmInv, Locals
  <2>2. \A u \in Task : Awaiting(u)' => Awaiting(u)
    BY <1>5 DEF Awaiting
  <2>3. \A u \in Task : Waited(u)' => Waited(u) /\ reply'[u] = reply[u]
    BY <1>5 DEF Waited
  <2>4. \A u \in Task : wait_reason[u] = "wrTaskDie" =>
            wait_reason'[u] = "wrTaskDie" /\ wait_object'[u] = wait_object[u]
    BY <1>8 DEF taskVars
  <2>5. \A u \in Task \ tasks : syscall'[u] = "none"
    BY <1>5 DEF PmInv, Indexed
  <2>6. serving'[PROCMAN] = serving[PROCMAN]
    BY <1>1, <1>5 DEF PmInv, CallsInv, TypeOK
  <2> QED BY <1>5, <1>7, <2>1, <2>2, <2>3, <2>4, <2>5, <2>6 DEF Apart
<1> QED BY <1>4, <1>9, <1>10, ApartKeeps

\* A delay counted down is an unsigned int again.
LEMMA Minus1Word == ASSUME NEW x \in 0..(Word - 1) PROVE Minus1(x) \in 0..(Word - 1)
BY ProcManAssumption DEF Minus1

LEMMA TickKeeps == ASSUME PmInv, Tick PROVE PmInv'
<1>1. /\ wait_object' = [t \in Task |-> IF t \in Delayed THEN Minus1(wait_object[t])
                                        ELSE wait_object[t]]
      /\ wait_reason' = [t \in Task |->
            IF t \in Delayed /\ wait_object'[t] = 0 THEN "wrNone" ELSE wait_reason[t]]
      /\ UNCHANGED <<tasks, messages, reply, syscall, serving, crashed,
                     next_index, vmm, threads, pmVars>>
  BY DEF Tick
<1>2. \A t \in Delayed : wait_reason[t] = "wrDelay"
  BY DEF Delayed
<1> HIDE DEF Delayed
<1>3. wait_object' \in [Task -> 0..(Word - 1)]
  <2>1. \A t \in Task : wait_object[t] \in 0..(Word - 1) /\ Minus1(wait_object[t]) \in 0..(Word - 1)
    BY Minus1Word DEF PmInv, Locals
  <2> QED BY <1>1, <2>1
<1>4. \A t \in Task : \/ wait_reason'[t] = wait_reason[t]
                      \/ wait_reason[t] = "wrDelay" /\ wait_reason'[t] = "wrNone"
  BY <1>1, <1>2
<1>5. wait_reason' \in [Task -> WaitReason]
  <2>1. \A t \in Task : (IF t \in Delayed /\ wait_object'[t] = 0 THEN "wrNone" ELSE wait_reason[t])
                          \in WaitReason
    BY DEF PmInv, CallsInv, TypeOK, WaitReason
  <2> QED BY <1>1, <2>1
<1>6. CallsInv'
  BY <1>1, <1>5, WaitsCalls DEF PmInv, CallsInv, TypeOK
<1>7. Tame
  BY <1>1, <1>4 DEF Tame, Lively
<1>8. Apart
  <2>1. \A t \in Task : Awaiting(t)' => Awaiting(t)
    BY <1>1 DEF Awaiting
  <2>2. \A t \in Task : Waited(t)' => Waited(t) /\ reply'[t] = reply[t]
    BY <1>1 DEF Waited
  <2>3. \A t \in Task : wait_reason[t] = "wrTaskDie" =>
            wait_reason'[t] = "wrTaskDie" /\ wait_object'[t] = wait_object[t]
    BY <1>1, <1>2, <1>4
  <2>4. \A t \in Task \ tasks : syscall'[t] = "none"
    BY <1>1 DEF PmInv, Indexed
  <2> QED BY <1>1, <1>3, <2>1, <2>2, <2>3, <2>4 DEF Apart
<1> QED BY <1>6, <1>7, <1>8, ApartKeeps

LEMMA StutterKeeps == ASSUME PmInv, UNCHANGED <<ipcVars, taskVars, pmVars>> PROVE PmInv'
<1>1. CallsInv'
  BY WaitsCalls DEF ipcVars, PmInv, CallsInv, TypeOK
<1> QED BY <1>1, QuietKeeps DEF ipcVars, PmInv, Indexed

LEMMA ProgramsKeep ==
  ASSUME PmInv, Programs, UNCHANGED <<taskVars, pmVars>> PROVE PmInv'
<1>1. ASSUME NEW c \in Calls, SendRefused(c) PROVE PmInv'
  BY <1>1, StutterKeeps DEF SendRefused
<1>2. ASSUME NEW c \in Calls, SendBlock(c) PROVE PmInv'
  BY <1>2, SendBlockKeeps
<1>3. ASSUME NEW t \in Task, SendReturn(t) PROVE PmInv'
  BY <1>3, FinishSendKeeps DEF SendReturn
<1>4. ASSUME NEW t \in Servers, Receive(t) PROVE PmInv'
  BY <1>4, ServerReceiveKeeps
<1>5. ASSUME NEW t \in Servers, NEW a \in Answers, a.from = t, Reply(a) PROVE PmInv'
  BY <1>5, ServerReplyKeeps
<1>6. ASSUME NEW t \in Servers, NEW f \in Relays, f.from = t, Forward(f) PROVE PmInv'
  BY <1>6, ServerForwardKeeps
<1>7. ASSUME NEW t \in Servers, Handled(t),
             UNCHANGED <<tasks, wait_reason, messages, reply, syscall, crashed>>
      PROVE  PmInv'
  <2>1. t \in Task /\ t # PROCMAN
    BY ProcmanApart
  <2>2. serving' \in [Task -> BOOLEAN] /\ serving'[PROCMAN] = serving[PROCMAN]
    BY <1>7, <2>1, ProcmanApart DEF Handled, PmInv, CallsInv, TypeOK
  <2>3. CallsInv'
    BY <1>7, <2>2, KeptCalls DEF PmInv, CallsInv, TypeOK
  <2> QED BY <1>7, <2>2, <2>3, QuietKeeps DEF PmInv, Indexed
<1>8. ASSUME NEW t \in Servers, AnswerSteps(t) PROVE PmInv'
  BY <1>5, <1>6, <1>7, <1>8 DEF AnswerSteps, ForwardRefused, ReplyRefused
<1> QED BY <1>1, <1>2, <1>3, <1>4, <1>8 DEF Programs

LEMMA SchedulerWakeKeeps ==
  ASSUME PmInv, NEW t \in Task, SchedulerWake(t) PROVE PmInv'
BY FinishSendKeeps DEF SchedulerWake

-----------------------------------------------------------------------------
(* New tasks *)

LEMMA Created ==
  ASSUME PmInv, NEW space \in tasks \cup {next_index},
         NEW reason \in {"wrPaused", "wrNone"},
         next_index <= MaxTask, CreateTask(next_index, space, reason),
         UNCHANGED <<messages, reply, syscall, serving, crashed>>
  PROVE  /\ CallsInv' /\ Indexed'
         /\ next_index \in Task \ tasks
         /\ tasks' = tasks \cup {next_index} /\ tasks \subseteq Task
         /\ wait_object' \in [Task -> 0..(Word - 1)]
         /\ wait_reason[next_index] = "wrPaused"
         /\ wait_reason'[next_index] = reason /\ vmm'[next_index] = space
         /\ \A t \in Task : t # next_index =>
              /\ wait_reason'[t] = wait_reason[t] /\ vmm'[t] = vmm[t]
              /\ wait_object'[t] = wait_object[t]
<1> DEFINE n == next_index
<1>1. n \in Task /\ n \notin tasks /\ tasks \subseteq Task /\ n \in 1..MaxTask
      /\ MaxTask \in Nat /\ Task = 0..MaxTask /\ tasks = 0..(n - 1)
  BY TasksInTask, ProcManAssumption DEF PmInv, Indexed
<1>2. /\ tasks' = tasks \cup {n} /\ next_index' = n + 1
      /\ wait_reason' = [wait_reason EXCEPT ![n] = reason]
      /\ vmm' = [vmm EXCEPT ![n] = space]
      /\ wait_object' = [wait_object EXCEPT ![n] = 0]
  BY DEF CreateTask
<1>3. /\ wait_reason \in [Task -> WaitReason] /\ vmm \in [Task -> Task]
      /\ wait_object \in [Task -> 0..(Word - 1)] /\ 0 \in 0..(Word - 1)
      /\ wait_reason[n] = "wrPaused" /\ syscall[n] = "none"
  <2>1. 0 \in 0..(Word - 1)
    BY ProcManAssumption
  <2> QED BY <1>1, <2>1 DEF PmInv, CallsInv, TypeOK, Indexed, Locals
<1>4. wait_reason' \in [Task -> WaitReason] /\ wait_object' \in [Task -> 0..(Word - 1)]
      /\ vmm' \in [Task -> Task]
  BY <1>1, <1>2, <1>3 DEF WaitReason
<1>5. CallsInv'
  BY <1>1, <1>2, <1>4, WaitsCalls DEF PmInv, CallsInv, TypeOK
<1>6. Indexed'
  <2>1. next_index' \in 1..(MaxTask + 1) /\ tasks' = 0..(next_index' - 1)
    BY <1>1, <1>2
  <2>2. DeadAtBoot \subseteq tasks' /\ \A t \in tasks' : vmm'[t] \in tasks'
    BY <1>1, <1>2, <1>3 DEF PmInv, Indexed
  <2>3. \A t \in Task \ tasks' : wait_reason'[t] = "wrPaused" /\ syscall'[t] = "none"
    BY <1>1, <1>2, <1>3 DEF PmInv, Indexed
  <2> QED BY <1>4, <2>1, <2>2, <2>3 DEF Indexed
<1> QED BY <1>1, <1>2, <1>3, <1>4, <1>5, <1>6

\* What is true of the deaths and waits stays so beside the new task.
LEMMA CreatedWaits ==
  ASSUME PmInv, NEW space \in tasks \cup {next_index},
         NEW reason \in {"wrPaused", "wrNone"},
         next_index <= MaxTask, CreateTask(next_index, space, reason),
         UNCHANGED <<messages, reply, syscall, serving, crashed>>
  PROVE  /\ \A t \in DeadAtBoot : wait_reason'[t] = "wrDead"
         /\ \A t \in Task : Awaiting(t)' /\ ~Lively(t)' => Awaiting(t) /\ ~Lively(t)
         /\ \A t \in Task : \A v : Seen(t, v) => Seen(t, v)'
         /\ \A t \in Task : Waited(t)' => Waited(t)
<1>1. /\ CallsInv' /\ Indexed'
      /\ next_index \in Task \ tasks
      /\ tasks' = tasks \cup {next_index} /\ tasks \subseteq Task
      /\ wait_reason[next_index] = "wrPaused"
      /\ \A t \in Task : t # next_index =>
              /\ wait_reason'[t] = wait_reason[t]
              /\ wait_object'[t] = wait_object[t]
  BY Created
<1>2. \A t \in DeadAtBoot : wait_reason'[t] = "wrDead"
  BY <1>1 DEF PmInv, Deaths, Indexed
<1>3. \A t \in Task : Awaiting(t)' <=> Awaiting(t)
  BY DEF Awaiting
<1>4. syscall[next_index] = "none"
  BY <1>1 DEF PmInv, Indexed
<1>5. \A t \in Task : Awaiting(t)' /\ ~Lively(t)' => Awaiting(t) /\ ~Lively(t)
  BY <1>1, <1>3, <1>4 DEF Awaiting, Lively
<1>6. \A t \in Task : \A v : Seen(t, v) => Seen(t, v)'
  BY <1>1 DEF Seen
<1> QED BY <1>2, <1>5, <1>6 DEF Waited

LEMMA ExecKeeps ==
  ASSUME PmInv, NEW t \in Launchers, Exec(t) PROVE PmInv'
<1> DEFINE n == next_index
           Except(p, u) == IF p = "change_threads" THEN {u} ELSE {}
<1>1. n <= MaxTask
  <2> DEFINE q == messages[PROCMAN]
             A == {i \in 1..Len(q) : q[i].payload.type = "pcStartThread"}
  <2>1. q \in Seq(Message)
    BY ProcmanApart DEF PmInv, CallsInv, TypeOK
  <2>2. IsFiniteSet(1..Len(q))
    BY <2>1, FS_Interval
  <2>3. IsFiniteSet(A)
    BY <2>2, FS_Subset
  <2>4. Cardinality(A) \in Nat
    BY <2>3, FS_CardinalityType
  <2>5. n + Cardinality(A) <= MaxTask
    BY DEF Exec, Room
  <2>6. n \in Nat /\ MaxTask \in Nat
    BY ProcManAssumption DEF PmInv, Indexed
  <2> HIDE DEF A, n
  <2> QED BY <2>4, <2>5, <2>6
<1>2. CreateTask(n, n, "wrNone") /\ threads' = [threads EXCEPT ![n] = 1]
      /\ UNCHANGED <<messages, reply, syscall, serving, crashed, pmVars>>
  BY DEF Exec
<1>4. /\ CallsInv' /\ Indexed'
      /\ n \in Task \ tasks
      /\ tasks' = tasks \cup {n} /\ tasks \subseteq Task
      /\ wait_object' \in [Task -> 0..(Word - 1)]
      /\ wait_reason'[n] = "wrNone" /\ vmm'[n] = n
      /\ \A u \in Task : u # n =>
           /\ wait_reason'[u] = wait_reason[u] /\ vmm'[u] = vmm[u]
           /\ wait_object'[u] = wait_object[u]
  BY <1>1, <1>2, Created
<1>5. /\ \A u \in DeadAtBoot : wait_reason'[u] = "wrDead"
      /\ \A u \in Task : Awaiting(u)' /\ ~Lively(u)' => Awaiting(u) /\ ~Lively(u)
      /\ \A u \in Task : \A v : Seen(u, v) => Seen(u, v)'
      /\ \A u \in Task : Waited(u)' => Waited(u)
  BY <1>1, <1>2, CreatedWaits
<1>6. UNCHANGED <<pc, msg, thread, fs_server_tid>>
  BY <1>2 DEF pmVars
<1>7. Locals'
  <2>1. threads \in [Task -> Int] /\ fs_server_tid \in Task /\ pc \in Label /\ thread \in Task
    BY DEF PmInv, Locals
  <2>2. threads' \in [Task -> Int]
    BY <1>2, <1>4, <2>1, SMTT(20)
  <2> QED BY <1>4, <1>6, <2>1, <2>2 DEF Locals
<1>8. AtWork'
  BY <1>2, <1>4, <1>6 DEF PmInv, AtWork, Lively
<1>9. Deaths'
  BY <1>5, <1>6 DEF PmInv, Deaths
<1>10. WaitsKept'
  <2>1. \A u \in Task : Waited(u)' => Seen(u, reply[u].payload.value)'
    <3> SUFFICES ASSUME NEW u \in Task, Waited(u)' PROVE Seen(u, reply[u].payload.value)'
      OBVIOUS
    <3>1. PICK w : w = reply[u].payload.value
      OBVIOUS
    <3>2. Seen(u, w)'
      BY <1>5, <3>1 DEF PmInv, WaitsKept
    <3> QED BY <1>2, <3>1, <3>2 DEF Seen
  <2>2. pc # "receive" => msg.sender \in tasks
    BY DEF PmInv, AtWork
  <2>3. pc' = "wait_object" => crashed' \/ wait_reason'[msg'.sender] = "wrTaskDie"
    BY <1>2, <1>4, <1>6, <2>2 DEF PmInv, WaitsKept
  <2>4. pc' = "reply" /\ msg'.payload.type = "pcWaitDie" =>
          crashed' \/ Seen(msg.sender, msg.payload.value)'
    <3>1. PICK u, w : u = msg.sender /\ w = msg.payload.value
      OBVIOUS
    <3>2. u \in Task /\ Seen(u, w) => Seen(u, w)'
      BY <1>5
    <3> QED BY <1>2, <1>4, <1>6, <2>2, <3>1, <3>2 DEF PmInv, WaitsKept, Seen
  <2>5. pc' \in {"delay_reason", "delay_object"} => ~Waited(msg.sender)'
    BY <1>4, <1>5, <1>6, <2>2 DEF PmInv, WaitsKept
  <2> QED BY <1>6, <2>1, <2>3, <2>4, <2>5 DEF WaitsKept, Seen, Waited
<1>11. ThreadsCounted'
  <2> SUFFICES ASSUME NEW s \in Task
               PROVE  threads'[s] = Cardinality(Residents(s)' \ Except(pc, thread))
    BY <1>6 DEF ThreadsCounted
  <2>1. pc = "change_threads" => thread \in tasks
    BY DEF PmInv, AtWork
  <2>2. CASE s = n
    <3>1. \A u \in tasks : vmm[u] # n
      BY <1>4 DEF PmInv, Indexed
    <3>2. n \notin DeadAtBoot
      BY <1>4 DEF PmInv, Indexed
    <3>3. Residents(s)' = {n}
      BY <1>4, <2>2, <3>1, <3>2 DEF Residents
    <3>4. Residents(s)' \ Except(pc, thread) = {n}
      BY <1>4, <2>1, <3>3
    <3>5. threads'[s] = 1
      BY <1>2, <2>2 DEF PmInv, Locals
    <3> QED BY <3>4, <3>5, FS_Singleton
  <2>3. CASE s # n
    <3>1. Residents(s)' = Residents(s)
      BY <1>4, <2>3 DEF Residents
    <3>2. threads'[s] = threads[s]
      BY <1>2, <2>3 DEF PmInv, Locals
    <3> QED BY <3>1, <3>2 DEF PmInv, ThreadsCounted
  <2> QED BY <2>2, <2>3
<1> QED BY <1>4, <1>7, <1>8, <1>9, <1>10, <1>11 DEF PmInv

-----------------------------------------------------------------------------
(* The steps of the process manager *)

\* The waits that were answered, after a step that answers none.
LEMMA WaitsStay ==
  ASSUME PmInv, Tame,
         \A t \in Task : Waited(t)' => Waited(t) /\ reply'[t] = reply[t],
         \A t \in Task : Waited(t) /\ wait_reason[t] = "wrTaskDie" =>
            wait_reason'[t] = "wrTaskDie" /\ wait_object'[t] = wait_object[t]
  PROVE  \A t \in Task : Waited(t)' => Seen(t, reply[t].payload.value)'
<1> SUFFICES ASSUME NEW t \in Task, Waited(t)'
             PROVE  Seen(t, reply[t].payload.value)'
  OBVIOUS
<1>1. Waited(t) /\ reply'[t] = reply[t]
  OBVIOUS
<1>2. PICK w : w = reply[t].payload.value
  OBVIOUS
<1>3. Seen(t, w)
  BY <1>1, <1>2 DEF PmInv, WaitsKept
<1>4. Seen(t, w)'
  BY <1>1, <1>3, SeenStays
<1> QED BY <1>1, <1>2, <1>4 DEF Seen

\* A caller that still awaits its reply has not been answered.
LEMMA AwaitingNotWaited ==
  ASSUME NEW t, reply[t] = NULL PROVE ~Waited(t)
BY DEF Waited

LEMMA PmReceiveKeeps == ASSUME PmInv, PmReceive PROVE PmInv'
<1>1. /\ pc = "receive" /\ Receive(PROCMAN) /\ ~serving[PROCMAN] /\ PROCMAN \in Task
      /\ UNCHANGED <<taskVars, fs_server_tid, thread>>
      /\ IF serving'[PROCMAN] THEN pc' = "switch" /\ msg' = Head(messages[PROCMAN])
                              ELSE UNCHANGED <<pc, msg>>
  BY ProcmanApart DEF PmReceive, Goto, PmInv, AtWork, Outside
<1>2. CallsInv'
  BY <1>1, ReceiveKeepsCalls DEF PmInv
<1>3. UNCHANGED <<tasks, messages, reply>>
  BY <1>1 DEF Receive, ReceiveNow, ReceiveBlock, ReceiveResume, Crash, Running
<1>4. \A u \in Task : \/ wait_reason'[u] = wait_reason[u]
                      \/ wait_reason[u] = "wrNone" /\ wait_reason'[u] = "wrMessage"
  BY <1>1 DEF Receive, ReceiveNow, ReceiveBlock, ReceiveResume, Running, PmInv, CallsInv, TypeOK
<1>5. wait_reason[PROCMAN] = "wrNone"
      /\ \A u \in Task : u # PROCMAN => syscall'[u] = syscall[u]
  BY <1>1 DEF Receive, ReceiveNow, ReceiveBlock, ReceiveResume, Running, Crash,
     PmInv, CallsInv, TypeOK
<1>6. \A u \in Task : syscall[u] = "send" <=> syscall'[u] = "send"
  BY <1>1 DEF Receive, ReceiveNow, ReceiveBlock, ReceiveResume, Running, Crash,
     PmInv, CallsInv, TypeOK
<1>7. serving'[PROCMAN] => messages[PROCMAN] # <<>>
  BY <1>1 DEF Receive, ReceiveNow, ReceiveBlock, ReceiveResume, Crash
<1>8. Tame
  BY <1>1, <1>3, <1>4 DEF Tame, Lively, taskVars
<1>9. Indexed'
  BY <1>5, <1>8, TameIndexed DEF PmInv, Indexed
<1>10. Locals'
  BY <1>1 DEF PmInv, Locals, Label, taskVars
<1>11. AtWork'
  <2>1. CASE ~serving'[PROCMAN]
    BY <1>1, <2>1 DEF AtWork, PmInv, Outside
  <2>2. CASE serving'[PROCMAN]
    <3>0. PICK c : c = Head(messages[PROCMAN]).sender
      OBVIOUS
    <3>1. /\ Head(messages[PROCMAN]) \in Message /\ c \in Task
          /\ syscall[c] = "send" /\ reply[c] = NULL
      BY <1>1, <1>7, <2>2, <3>0, HeadCalls DEF PmInv
    <3>2. c \in tasks
      BY <3>1 DEF PmInv, Indexed
    <3>3. Lively(c)
      BY <1>1, <3>1 DEF PmInv, Deaths, Awaiting
    <3>4. Lively(c)'
      BY <1>8, <3>1, <3>3 DEF Tame, Lively
    <3>5. msg' = Head(messages[PROCMAN]) /\ pc' = "switch"
      BY <1>1, <2>2
    <3>6. Lively(msg.sender)'
      BY <3>0, <3>4, <3>5 DEF Lively
    <3> QED BY <1>3, <1>7, <2>2, <3>0, <3>1, <3>2, <3>5, <3>6 DEF AtWork, Outside
  <2> QED BY <2>1, <2>2
<1>12. Deaths'
  <2>1. \A u \in Task : Awaiting(u)' => Awaiting(u)
    BY <1>3, <1>6 DEF Awaiting
  <2> QED BY <1>1, <1>8, <2>1, TameDeaths
<1>13. WaitsKept'
  <2>1. \A t \in Task : Waited(t)' => Seen(t, reply[t].payload.value)'
    <3>1. \A t \in Task : Waited(t)' => Waited(t) /\ reply'[t] = reply[t]
      BY <1>3 DEF Waited
    <3>2. \A t \in Task : wait_reason[t] = "wrTaskDie" =>
              wait_reason'[t] = "wrTaskDie" /\ wait_object'[t] = wait_object[t]
      BY <1>1, <1>4 DEF taskVars
    <3> QED BY <1>8, <3>1, <3>2, WaitsStay
  <2>2. pc' \in {"receive", "switch"}
    BY <1>1
  <2> QED BY <2>1, <2>2 DEF WaitsKept
<1>14. ThreadsCounted'
  BY <1>1, <1>8, TameThreads DEF taskVars
<1> QED BY <1>2, <1>9, <1>10, <1>11, <1>12, <1>13, <1>14 DEF PmInv

LEMMA AnswerTyped ==
  ASSUME msg \in Message, NEW v \in 0..(Word - 1), AnswerWith(v)
  PROVE  msg' \in Message /\ msg'.sender = msg.sender /\ msg'.payload.type = "prOk"
<1>1. [type |-> "prOk", value |-> v] \in Payload
  BY ProcManAssumption DEF Type
<1> QED BY <1>1 DEF AnswerWith, Message

\* A command that only fills in its reply.
LEMMA AnsweredKeeps ==
  ASSUME PmInv, pc = "switch", UNCHANGED <<ipcVars, taskVars, thread>>,
         fs_server_tid' \in Task, pc' = "reply",
         msg' \in Message, msg'.sender = msg.sender, msg'.payload.type # "pcWaitDie"
  PROVE  PmInv'
<1>1. UNCHANGED <<tasks, wait_reason, messages, reply, syscall, serving, crashed,
                  wait_object, next_index, vmm, threads>>
  BY DEF ipcVars, taskVars
<1>2. CallsInv'
  BY <1>1, WaitsCalls DEF PmInv, CallsInv, TypeOK
<1>3. Tame
  BY <1>1 DEF Tame, Lively
<1>4. Indexed'
  BY <1>1 DEF PmInv, Indexed
<1>5. Locals'
  BY <1>1 DEF PmInv, Locals, Label
<1>6. AtWork'
  BY <1>1 DEF PmInv, AtWork, Outside
<1>7. Deaths'
  <2>1. \A u \in Task : Awaiting(u)' => Awaiting(u)
    BY <1>1 DEF Awaiting
  <2> QED BY <1>3, <2>1, TameDeaths
<1>8. WaitsKept'
  <2>1. \A t \in Task : Waited(t)' => Waited(t) /\ reply'[t] = reply[t]
    BY <1>1 DEF Waited
  <2>2. \A t \in Task : Waited(t)' => Seen(t, reply[t].payload.value)'
    BY <1>1, <1>3, <2>1, WaitsStay
  <2> QED BY <2>2 DEF WaitsKept
<1>9. ThreadsCounted'
  BY <1>1, <1>3, TameThreads
<1> QED BY <1>2, <1>4, <1>5, <1>6, <1>7, <1>8, <1>9 DEF PmInv

LEMMA PmAnswersKeep ==
  ASSUME PmInv, PmPlain \/ PmSetRootFS \/ PmGetRootFS PROVE PmInv'
<1>1. pc = "switch" /\ pc' = "reply" /\ UNCHANGED <<ipcVars, taskVars, thread>>
  BY DEF PmPlain, PmSetRootFS, PmGetRootFS, Command, At, Goto
<1>2. msg \in Message /\ fs_server_tid \in Task
  BY <1>1, SenderAwaits DEF PmInv, Locals, Outside
<1>3. 0 \in 0..(Word - 1) /\ msg.payload.value \in 0..(Word - 1)
      /\ fs_server_tid \in 0..(Word - 1) /\ msg.sender \in Task
  BY <1>2, ProcManAssumption DEF Message
<1>4. fs_server_tid' \in Task
  BY <1>2, <1>3 DEF PmPlain, PmSetRootFS, PmGetRootFS
<1>5. \/ \E v \in 0..(Word - 1) : AnswerWith(v)
      \/ msg' = msg /\ msg.payload.type = "pcSetRootFS"
  BY <1>3 DEF PmPlain, PmSetRootFS, PmGetRootFS, Command
<1>6. msg' \in Message /\ msg'.sender = msg.sender /\ msg'.payload.type # "pcWaitDie"
  BY <1>2, <1>5, AnswerTyped
<1> QED BY <1>1, <1>4, <1>6, AnsweredKeeps

LEMMA PmDieKeeps == ASSUME PmInv, PmDie PROVE PmInv'
<1>1. PICK s : s = msg.sender
  OBVIOUS
<1>2. /\ pc = "switch" /\ pc' = "reply"
      /\ wait_reason' = [wait_reason EXCEPT ![s] = "wrDead"]
      /\ threads' = [threads EXCEPT ![vmm[s]] = @ - 1]
      /\ AnswerWith(msg.payload.value)
      /\ UNCHANGED <<tasks, messages, reply, syscall, serving, crashed,
                     wait_object, next_index, vmm, fs_server_tid, thread>>
  BY <1>1 DEF PmDie, Command, At, Kill, Goto
<1>3. /\ msg \in Message /\ s \in tasks /\ s \in Task /\ tasks \subseteq Task
      /\ syscall[s] = "send" /\ reply[s] = NULL
  BY <1>1, <1>2, SenderAwaits, TasksInTask DEF Outside, PmInv
<1>4. Lively(s)
  BY <1>1, <1>2 DEF PmInv, AtWork
<1>5. msg' \in Message /\ msg'.sender = s /\ msg'.payload.type = "prOk"
  BY <1>1, <1>2, <1>3, AnswerTyped, ProcManAssumption DEF Message
<1>6. wait_reason \in [Task -> WaitReason] /\ wait_reason' \in [Task -> WaitReason]
      /\ wait_reason'[s] = "wrDead"
      /\ \A t \in Task : t # s => wait_reason'[t] = wait_reason[t]
  BY <1>2, <1>3 DEF PmInv, CallsInv, TypeOK, WaitReason
<1>7. CallsInv'
  BY <1>2, <1>6, WaitsCalls DEF PmInv, CallsInv, TypeOK
<1>8. Indexed'
  BY <1>2, <1>3, <1>6 DEF PmInv, Indexed
<1>9. vmm[s] \in Task /\ threads \in [Task -> Int]
  BY <1>3 DEF PmInv, Indexed, Locals
<1>10. Locals'
  <2>1. threads' \in [Task -> Int]
    BY <1>2, <1>9
  <2> QED BY <1>2, <2>1 DEF PmInv, Locals, Label
<1>11. AtWork'
  BY <1>1, <1>2, <1>3, <1>5 DEF PmInv, AtWork, Outside
<1>12. Deaths'
  <2>1. \A t \in DeadAtBoot : wait_reason'[t] = "wrDead"
    BY <1>3, <1>6 DEF PmInv, Deaths, Indexed
  <2>2. \A t \in Task : Awaiting(t)' /\ ~Lively(t)' => t = s
    BY <1>2, <1>6 DEF PmInv, Deaths, Awaiting, Lively
  <2> QED BY <1>2, <1>5, <2>1, <2>2 DEF Deaths
<1>13. WaitsKept'
  <2>1. ASSUME NEW t \in Task, Waited(t)' PROVE Seen(t, reply[t].payload.value)'
    <3>1. Waited(t) /\ reply'[t] = reply[t] /\ t # s
      BY <1>2, <1>3, <2>1 DEF Waited
    <3>2. PICK v : v = reply[t].payload.value
      OBVIOUS
    <3>3. Seen(t, v)
      BY <3>1, <3>2 DEF PmInv, WaitsKept
    <3>4. Seen(t, v)'
      BY <1>2, <1>3, <1>6, <3>1, <3>3 DEF Seen
    <3> QED BY <3>1, <3>2, <3>4 DEF Seen
  <2> QED BY <1>2, <1>5, <2>1 DEF WaitsKept
<1>14. ThreadsCounted'
  <2> SUFFICES ASSUME NEW x \in Task PROVE threads'[x] = Cardinality(Residents(x)')
    <3>1. \A R : R \ {} = R
      OBVIOUS
    <3> QED BY <1>2, <3>1 DEF ThreadsCounted
  <2>1. threads[x] = Cardinality(Residents(x))
    <3>1. Residents(x) \ {} = Residents(x)
      OBVIOUS
    <3> QED BY <1>2, <3>1 DEF PmInv, ThreadsCounted
  <2>2. CASE x = vmm[s]
    <3>1. s \notin DeadAtBoot
      BY <1>4 DEF PmInv, Deaths, Lively
    <3>2. s \in Residents(x)
      BY <1>3, <1>4, <2>2, <3>1 DEF Residents, Lively
    <3>3. Residents(x)' = Residents(x) \ {s}
      BY <1>2, <1>3, <1>6 DEF Residents
    <3>4. IsFiniteSet(tasks) /\ Residents(x) \subseteq tasks
      BY TasksInTask DEF PmInv, Residents
    <3>5. IsFiniteSet(Residents(x))
      BY <3>4, FS_Subset
    <3>6. Cardinality(Residents(x) \ {s}) = Cardinality(Residents(x)) - 1
      BY <3>2, <3>5, FS_RemoveElement
    <3>7. threads'[x] = threads[x] - 1
      BY <1>2, <1>9, <2>2
    <3> QED BY <2>1, <3>3, <3>6, <3>7
  <2>3. CASE x # vmm[s]
    <3>1. Residents(x)' = Residents(x)
      BY <1>2, <1>3, <1>6, <2>3 DEF Residents
    <3>2. threads'[x] = threads[x]
      BY <1>2, <1>9, <2>3
    <3> QED BY <2>1, <3>1, <3>2
  <2> QED BY <2>2, <2>3
<1> QED BY <1>7, <1>8, <1>10, <1>11, <1>12, <1>13, <1>14 DEF PmInv

LEMMA PmCreateThreadKeeps == ASSUME PmInv, PmCreateThread PROVE PmInv'
<1>1. PICK s, n, r : s = msg.sender /\ n = next_index /\ r = "wrPaused"
  OBVIOUS
<1>2. PICK v : v = vmm[s]
  OBVIOUS
<1>3. /\ pc = "switch" /\ pc' = "change_threads" /\ thread' = n
      /\ n <= MaxTask /\ next_index <= MaxTask
      /\ CreateTask(next_index, v, r)
      /\ UNCHANGED <<messages, reply, syscall, serving, crashed,
                     threads, fs_server_tid, msg>>
  BY <1>1, <1>2 DEF PmCreateThread, Command, At, Goto
<1>4. /\ msg \in Message /\ s \in tasks /\ s \in Task
  BY <1>1, <1>3, SenderAwaits DEF Outside
<1>5. v \in tasks
  BY <1>2, <1>4 DEF PmInv, Indexed
<1>6. v \in tasks \cup {next_index} /\ r \in {"wrPaused", "wrNone"}
  BY <1>1, <1>5
<1>7. /\ CallsInv' /\ Indexed'
      /\ n \in Task \ tasks
      /\ tasks' = tasks \cup {n} /\ tasks \subseteq Task
      /\ wait_object' \in [Task -> 0..(Word - 1)]
      /\ wait_reason[n] = "wrPaused"
      /\ wait_reason'[n] = "wrPaused" /\ vmm'[n] = v
      /\ \A u \in Task : u # n =>
           /\ wait_reason'[u] = wait_reason[u] /\ vmm'[u] = vmm[u]
           /\ wait_object'[u] = wait_object[u]
  BY <1>1, <1>3, <1>6, Created
<1>8. /\ \A u \in DeadAtBoot : wait_reason'[u] = "wrDead"
      /\ \A u \in Task : Awaiting(u)' /\ ~Lively(u)' => Awaiting(u) /\ ~Lively(u)
      /\ \A u \in Task : \A w : Seen(u, w) => Seen(u, w)'
      /\ \A u \in Task : Waited(u)' => Waited(u)
  BY <1>3, <1>6, CreatedWaits
<1>9. Locals'
  BY <1>3, <1>7 DEF PmInv, Locals, Label
<1>10. AtWork'
  <2>1. n \notin DeadAtBoot
    BY <1>7 DEF PmInv, Indexed
  <2>2. vmm'[n] = vmm'[s]
    BY <1>2, <1>4, <1>7
  <2> QED BY <1>1, <1>3, <1>4, <1>7, <2>1, <2>2 DEF PmInv, AtWork, Outside
<1>11. Deaths'
  BY <1>3, <1>8 DEF PmInv, Deaths
<1>12. WaitsKept'
  <2>1. \A u \in Task : Waited(u)' => Seen(u, reply[u].payload.value)'
    <3> SUFFICES ASSUME NEW u \in Task, Waited(u)' PROVE Seen(u, reply[u].payload.value)'
      OBVIOUS
    <3>1. PICK w : w = reply[u].payload.value
      OBVIOUS
    <3>2. Seen(u, w)'
      BY <1>8, <3>1 DEF PmInv, WaitsKept
    <3> QED BY <1>3, <3>1, <3>2 DEF Seen
  <2> QED BY <1>3, <2>1 DEF WaitsKept
<1>13. ThreadsCounted'
  <2> SUFFICES ASSUME NEW x \in Task PROVE threads'[x] = Cardinality(Residents(x)' \ {n})
    BY <1>3 DEF ThreadsCounted
  <2>1. threads[x] = Cardinality(Residents(x))
    <3>1. Residents(x) \ {} = Residents(x)
      OBVIOUS
    <3> QED BY <1>3, <3>1 DEF PmInv, ThreadsCounted
  <2>2. Residents(x)' \ {n} = Residents(x)
    BY <1>7 DEF Residents
  <2> QED BY <1>3, <2>1, <2>2
<1> QED BY <1>7, <1>9, <1>10, <1>11, <1>12, <1>13 DEF PmInv

LEMMA PmChangeThreadsKeeps == ASSUME PmInv, PmChangeThreads PROVE PmInv'
<1>1. PICK s, n : s = msg.sender /\ n = thread
  OBVIOUS
<1>2. /\ pc = "change_threads" /\ pc' = "ready_thread"
      /\ threads' = [threads EXCEPT ![vmm[s]] = @ + 1]
      /\ UNCHANGED <<tasks, wait_reason, messages, reply, syscall, serving, crashed,
                     wait_object, next_index, vmm, fs_server_tid, msg, thread>>
  BY <1>1 DEF PmChangeThreads, At, Goto, ipcVars
<1>3. /\ n \in tasks \ DeadAtBoot /\ wait_reason[n] = "wrPaused" /\ vmm[n] = vmm[s]
      /\ tasks \subseteq Task /\ IsFiniteSet(tasks)
  BY <1>1, <1>2, TasksInTask DEF PmInv, AtWork
<1>4. threads \in [Task -> Int] /\ vmm[n] \in Task
  BY <1>3 DEF PmInv, Indexed, Locals
<1>5. CallsInv'
  BY <1>2, WaitsCalls DEF PmInv, CallsInv, TypeOK
<1>6. Tame
  BY <1>2 DEF Tame, Lively
<1>7. Indexed'
  BY <1>2 DEF PmInv, Indexed
<1>8. Locals'
  <2>1. threads' \in [Task -> Int]
    BY <1>2, <1>3, <1>4
  <2> QED BY <1>2, <2>1 DEF PmInv, Locals, Label
<1>9. AtWork'
  BY <1>2 DEF PmInv, AtWork, Outside
<1>10. Deaths'
  BY <1>2, <1>6, TameDeaths DEF Awaiting
<1>11. WaitsKept'
  <2>1. \A t \in Task : Waited(t)' => Waited(t) /\ reply'[t] = reply[t]
    BY <1>2 DEF Waited
  <2>2. \A t \in Task : Waited(t)' => Seen(t, reply[t].payload.value)'
    BY <1>2, <1>6, <2>1, WaitsStay
  <2> QED BY <1>2, <2>2 DEF WaitsKept
<1>12. ThreadsCounted'
  <2> SUFFICES ASSUME NEW x \in Task PROVE threads'[x] = Cardinality(Residents(x)')
    <3>1. \A R : R \ {} = R
      OBVIOUS
    <3> QED BY <1>2, <3>1 DEF ThreadsCounted
  <2>1. threads[x] = Cardinality(Residents(x) \ {n})
    BY <1>1, <1>2 DEF PmInv, ThreadsCounted
  <2>2. Residents(x)' = Residents(x)
    BY <1>2 DEF Residents
  <2>3. CASE x = vmm[s]
    <3>1. n \in Residents(x)
      BY <1>3, <2>3 DEF Residents
    <3>2. IsFiniteSet(Residents(x))
      <4>1. Residents(x) \subseteq tasks
        BY DEF Residents
      <4> QED BY <1>3, <4>1, FS_Subset
    <3>3. Cardinality(Residents(x) \ {n}) = Cardinality(Residents(x)) - 1
      BY <3>1, <3>2, FS_RemoveElement
    <3>4. Cardinality(Residents(x)) \in Nat
      BY <3>2, FS_CardinalityType
    <3>5. threads'[x] = threads[x] + 1
      BY <1>2, <1>3, <1>4, <2>3
    <3> QED BY <2>1, <2>2, <3>3, <3>4, <3>5
  <2>4. CASE x # vmm[s]
    <3>1. Residents(x) \ {n} = Residents(x)
      BY <1>3, <2>4 DEF Residents
    <3>2. threads'[x] = threads[x]
      BY <1>2, <1>4, <2>4
    <3> QED BY <2>1, <2>2, <3>1, <3>2
  <2> QED BY <2>3, <2>4
<1> QED BY <1>5, <1>7, <1>8, <1>9, <1>10, <1>11, <1>12 DEF PmInv

LEMMA PmReadyThreadKeeps == ASSUME PmInv, PmReadyThread PROVE PmInv'
<1>1. PICK n : n = thread
  OBVIOUS
<1>2. /\ pc = "ready_thread" /\ pc' = "reply" /\ AnswerWith(n)
      /\ wait_reason' = [wait_reason EXCEPT ![n] = "wrNone"]
      /\ UNCHANGED <<tasks, messages, reply, syscall, serving, crashed,
                     wait_object, next_index, vmm, threads, fs_server_tid, thread>>
  BY <1>1 DEF PmReadyThread, At, Goto, taskVars
<1>3. /\ msg \in Message /\ n \in tasks \ DeadAtBoot /\ wait_reason[n] = "wrPaused"
      /\ tasks \subseteq Task
  BY <1>1, <1>2, SenderAwaits, TasksInTask DEF PmInv, AtWork, Outside
<1>4. n \in 0..(Word - 1)
  BY <1>3, ProcManAssumption
<1>5. msg' \in Message /\ msg'.sender = msg.sender /\ msg'.payload.type = "prOk"
  BY <1>2, <1>3, <1>4, AnswerTyped
<1>6. wait_reason' \in [Task -> WaitReason] /\ wait_reason'[n] = "wrNone"
      /\ \A t \in Task : t # n => wait_reason'[t] = wait_reason[t]
  BY <1>2, <1>3 DEF PmInv, CallsInv, TypeOK, WaitReason
<1>7. CallsInv'
  BY <1>2, <1>6, WaitsCalls DEF PmInv, CallsInv, TypeOK
<1>8. Indexed'
  BY <1>2, <1>3, <1>6 DEF PmInv, Indexed
<1>9. Locals'
  BY <1>2 DEF PmInv, Locals, Label
<1>10. AtWork'
  BY <1>2, <1>5 DEF PmInv, AtWork, Outside
<1>11. Deaths'
  <2>1. \A t \in DeadAtBoot : wait_reason'[t] = "wrDead"
    BY <1>3, <1>6 DEF PmInv, Deaths, Indexed
  <2>2. \A t \in Task : Awaiting(t)' /\ ~Lively(t)' => FALSE
    BY <1>2, <1>6 DEF PmInv, Deaths, Awaiting, Lively
  <2> QED BY <2>1, <2>2 DEF Deaths
<1>12. WaitsKept'
  <2>1. ASSUME NEW t \in Task, Waited(t)' PROVE Seen(t, reply[t].payload.value)'
    <3>1. Waited(t) /\ reply'[t] = reply[t]
      BY <1>2, <2>1 DEF Waited
    <3>2. PICK v : v = reply[t].payload.value
      OBVIOUS
    <3>3. Seen(t, v)
      BY <3>1, <3>2 DEF PmInv, WaitsKept
    <3>4. Seen(t, v)'
      BY <1>2, <1>3, <1>6, <3>3 DEF Seen
    <3> QED BY <3>1, <3>2, <3>4 DEF Seen
  <2> QED BY <1>2, <1>5, <2>1 DEF WaitsKept
<1>13. ThreadsCounted'
  <2> SUFFICES ASSUME NEW x \in Task PROVE threads'[x] = Cardinality(Residents(x)')
    <3>1. \A R : R \ {} = R
      OBVIOUS
    <3> QED BY <1>2, <3>1 DEF ThreadsCounted
  <2>1. threads[x] = Cardinality(Residents(x))
    <3>1. Residents(x) \ {} = Residents(x)
      OBVIOUS
    <3> QED BY <1>2, <3>1 DEF PmInv, ThreadsCounted
  <2>2. Residents(x)' = Residents(x)
    BY <1>2, <1>3, <1>6 DEF Residents
  <2> QED BY <1>2, <2>1, <2>2
<1> QED BY <1>7, <1>8, <1>9, <1>10, <1>11, <1>12, <1>13 DEF PmInv

\* The caller is answered and its request leaves the queue.
LEMMA PmAnswers ==
  ASSUME PmInv, pc \notin Outside, NEW p \in Payload,
         Reply([from |-> PROCMAN, payload |-> p]), UNCHANGED taskVars
  PROVE  /\ CallsInv' /\ Tame /\ Indexed' /\ ~crashed
         /\ UNCHANGED <<tasks, syscall, crashed>>
         /\ serving'[PROCMAN] = FALSE
         /\ reply'[msg.sender] = [sender |-> PROCMAN, payload |-> p]
         /\ reply'[msg.sender] # NULL
         /\ \A t \in Task : t # msg.sender => reply'[t] = reply[t]
         /\ \A t \in Task : wait_reason[t] = "wrTaskDie" => wait_reason'[t] = "wrTaskDie"
         /\ \A t \in Task : Awaiting(t)' => Awaiting(t) /\ t # msg.sender
<1> DEFINE a == [from |-> PROCMAN, payload |-> p]
           c == msg.sender
           m == [sender |-> PROCMAN, payload |-> p]
<1>1. PROCMAN \in Task /\ a.from = PROCMAN /\ a.payload = p
  BY ProcmanApart
<1>2. /\ c \in Task /\ c \in tasks /\ syscall[c] = "send" /\ reply[c] = NULL
  BY SenderAwaits
<1>3. c = Head(messages[PROCMAN]).sender
  BY DEF PmInv, AtWork
<1>4. /\ reply' = [reply EXCEPT ![c] = m]
      /\ serving' = [serving EXCEPT ![PROCMAN] = FALSE]
      /\ wait_reason' = Replied(c) /\ ~crashed
      /\ UNCHANGED <<tasks, syscall, crashed>>
  BY <1>3 DEF Reply, Handled, Running
<1>5. m \in Message /\ m # NULL
  BY <1>1, ConstantsAssumption DEF Message
<1>6. CallsInv'
  BY <1>1, ReplyKeepsCalls DEF PmInv
<1> HIDE DEF c, m, a
<1>7. \A u \in Task : \/ wait_reason'[u] = wait_reason[u]
                      \/ wait_reason[u] = "wrReply" /\ wait_reason'[u] = "wrNone"
  BY <1>4 DEF Replied, PmInv, CallsInv, TypeOK
<1>8. Tame
  BY <1>4, <1>7 DEF Tame, Lively, taskVars
<1>9. Indexed'
  BY <1>4, <1>8, TameIndexed DEF PmInv, Indexed
<1>10. serving'[PROCMAN] = FALSE /\ reply'[c] = m
       /\ \A t \in Task : t # c => reply'[t] = reply[t]
  BY <1>1, <1>2, <1>4 DEF PmInv, CallsInv, TypeOK
<1>11. \A t \in Task : Awaiting(t)' => Awaiting(t) /\ t # c
  BY <1>4, <1>5, <1>10 DEF Awaiting
<1>12. \A t \in Task : wait_reason[t] = "wrTaskDie" => wait_reason'[t] = "wrTaskDie"
  BY <1>7
<1> QED BY <1>4, <1>5, <1>6, <1>8, <1>9, <1>10, <1>11, <1>12 DEF c, m

LEMMA PmDelayKeeps == ASSUME PmInv, PmDelay PROVE PmInv'
<1>1. PICK p, s : p = [type |-> "prOk", value |-> msg.payload.value] /\ s = msg.sender
  OBVIOUS
<1>2. /\ pc = "switch" /\ pc' = "delay_reason"
      /\ Reply([from |-> PROCMAN, payload |-> p])
      /\ UNCHANGED <<taskVars, fs_server_tid, msg, thread>>
  BY <1>1 DEF PmDelay, Command, At, Goto
<1>3. /\ msg \in Message /\ s \in tasks /\ s \in Task
  BY <1>1, <1>2, SenderAwaits DEF Outside
<1>4. p \in Payload /\ p.type = "prOk"
  BY <1>1, <1>3, ProcManAssumption DEF Message, Type
<1>5. /\ CallsInv' /\ Tame /\ Indexed'
      /\ UNCHANGED <<tasks, syscall, crashed>>
      /\ serving'[PROCMAN] = FALSE
      /\ reply'[s] = [sender |-> PROCMAN, payload |-> p]
      /\ \A t \in Task : t # s => reply'[t] = reply[t]
      /\ \A t \in Task : wait_reason[t] = "wrTaskDie" => wait_reason'[t] = "wrTaskDie"
      /\ \A t \in Task : Awaiting(t)' => Awaiting(t)
  BY <1>1, <1>2, <1>4, PmAnswers DEF Outside
<1>6. Locals'
  BY <1>2 DEF PmInv, Locals, Label, taskVars
<1>7. Lively(s)'
  <2>1. Lively(s)
    BY <1>1, <1>2 DEF PmInv, AtWork
  <2> QED BY <1>3, <1>5, <2>1 DEF Tame, Lively
<1>8. AtWork'
  <2>1. Lively(msg.sender)'
    BY <1>1, <1>2, <1>7 DEF Lively
  <2> QED BY <1>1, <1>2, <1>3, <1>5, <2>1 DEF AtWork, Outside
<1>9. Deaths'
  BY <1>2, <1>5, TameDeaths
<1>10. ~Waited(s)'
  BY <1>4, <1>5 DEF Waited
<1>11. WaitsKept'
  <2>1. \A t \in Task : Waited(t)' => Waited(t) /\ reply'[t] = reply[t]
    BY <1>5, <1>10 DEF Waited
  <2>2. \A t \in Task : wait_reason[t] = "wrTaskDie" =>
            wait_reason'[t] = "wrTaskDie" /\ wait_object'[t] = wait_object[t]
    BY <1>2, <1>5 DEF taskVars
  <2>3. \A t \in Task : Waited(t)' => Seen(t, reply[t].payload.value)'
    BY <1>5, <2>1, <2>2, WaitsStay
  <2> QED BY <1>1, <1>2, <1>10, <2>3 DEF WaitsKept, Waited
<1>12. ThreadsCounted'
  BY <1>2, <1>5, TameThreads DEF taskVars
<1> QED BY <1>5, <1>6, <1>8, <1>9, <1>11, <1>12 DEF PmInv

\* A late assignment: the process manager writes the wait of its caller.
LEMMA LateKeeps ==
  ASSUME PmInv, NEW s \in tasks, msg.sender = s, ~Waited(s),
         pc \in {"switch", "delay_reason", "delay_object", "wait_object"},
         \/ Lively(s) /\ wait_reason'[s] \in {"wrDelay", "wrTaskDie"}
         \/ wait_reason'[s] = wait_reason[s],
         wait_reason' \in [Task -> WaitReason],
         wait_object' \in [Task -> 0..(Word - 1)],
         \A t \in Task : t # s =>
            wait_reason'[t] = wait_reason[t] /\ wait_object'[t] = wait_object[t],
         UNCHANGED <<tasks, messages, reply, syscall, serving, next_index, vmm,
                     threads, fs_server_tid, thread>>,
         crashed' \in BOOLEAN,
         pc' \in {"switch", "delay_object", "receive", "wait_object", "reply"}
  PROVE  /\ CallsInv' /\ Tame /\ Indexed' /\ Locals' /\ Deaths' /\ ThreadsCounted'
         /\ \A t \in Task : Waited(t)' => Seen(t, reply[t].payload.value)'
         /\ \A t \in Task : Waited(t)' => Waited(t)
<1>1. CallsInv'
  BY WaitsCalls, TasksInTask DEF PmInv
<1>2. Tame
  BY DEF Tame, Lively
<1>3. Indexed'
  BY <1>2, TameIndexed DEF PmInv, Indexed
<1>4. Locals'
  BY DEF PmInv, Locals, Label
<1>5. Deaths'
  BY <1>2, TameDeaths DEF Awaiting
<1>6. ThreadsCounted'
  BY <1>2, TameThreads
<1>7. \A t \in Task : Waited(t)' => Waited(t) /\ reply'[t] = reply[t]
  BY DEF Waited
<1>8. \A t \in Task : Waited(t)' => Seen(t, reply[t].payload.value)'
  BY <1>2, <1>7, WaitsStay
<1> QED BY <1>1, <1>2, <1>3, <1>4, <1>5, <1>6, <1>7, <1>8

LEMMA PmDelayReasonKeeps == ASSUME PmInv, PmDelayReason PROVE PmInv'
<1>1. PICK s : s = msg.sender
  OBVIOUS
<1>2. /\ pc = "delay_reason" /\ pc' = "delay_object"
      /\ wait_reason' = [wait_reason EXCEPT ![s] = "wrDelay"]
      /\ UNCHANGED <<tasks, messages, reply, syscall, serving, crashed, wait_object,
                     next_index, vmm, threads, fs_server_tid, msg, thread>>
  BY <1>1 DEF PmDelayReason, At, Goto, taskVars
<1>3. s \in tasks /\ msg \in Message /\ Lively(s) /\ ~Waited(s) /\ ~serving[PROCMAN]
  BY <1>1, <1>2 DEF PmInv, AtWork, WaitsKept, Outside
<1>4. s \in Task
  BY <1>3, TasksInTask DEF PmInv
<1>5. /\ wait_reason' \in [Task -> WaitReason] /\ wait_reason'[s] = "wrDelay"
      /\ \A t \in Task : t # s => wait_reason'[t] = wait_reason[t]
  BY <1>2, <1>4 DEF PmInv, CallsInv, TypeOK, WaitReason
<1>6. wait_object' \in [Task -> 0..(Word - 1)] /\ crashed' \in BOOLEAN
  BY <1>2 DEF PmInv, Locals, CallsInv, TypeOK
<1>7. /\ CallsInv' /\ Indexed' /\ Locals' /\ Deaths' /\ ThreadsCounted'
      /\ \A t \in Task : Waited(t)' => Seen(t, reply[t].payload.value)'
  BY <1>1, <1>2, <1>3, <1>5, <1>6, LateKeeps
<1>8. AtWork'
  BY <1>1, <1>2, <1>3 DEF AtWork, Outside
<1>9. WaitsKept'
  BY <1>1, <1>2, <1>3, <1>7 DEF WaitsKept, Waited
<1> QED BY <1>7, <1>8, <1>9 DEF PmInv

LEMMA PmDelayObjectKeeps == ASSUME PmInv, PmDelayObject PROVE PmInv'
<1>1. PICK s : s = msg.sender
  OBVIOUS
<1>2. /\ pc = "delay_object" /\ pc' = "receive" /\ msg' = NULL
      /\ wait_object' = [wait_object EXCEPT ![s] = msg.payload.value]
      /\ UNCHANGED <<tasks, wait_reason, messages, reply, syscall, serving, crashed,
                     next_index, vmm, threads, fs_server_tid, thread>>
  BY <1>1 DEF PmDelayObject, At, Goto, ipcVars
<1>3. s \in tasks /\ msg \in Message /\ ~Waited(s) /\ ~serving[PROCMAN]
  BY <1>1, <1>2 DEF PmInv, AtWork, WaitsKept, Outside
<1>4. msg.payload.value \in 0..(Word - 1) /\ s \in Task
  BY <1>3, ProcManAssumption, TasksInTask DEF Message, PmInv
<1>5. /\ wait_object' \in [Task -> 0..(Word - 1)]
      /\ \A t \in Task : t # s => wait_object'[t] = wait_object[t]
  BY <1>2, <1>4 DEF PmInv, Locals
<1>6. wait_reason' \in [Task -> WaitReason] /\ crashed' \in BOOLEAN
  BY <1>2 DEF PmInv, CallsInv, TypeOK
<1>7. /\ CallsInv' /\ Indexed' /\ Locals' /\ Deaths' /\ ThreadsCounted'
      /\ \A t \in Task : Waited(t)' => Seen(t, reply[t].payload.value)'
  BY <1>1, <1>2, <1>3, <1>5, <1>6, LateKeeps
<1>8. AtWork'
  BY <1>2, <1>3 DEF AtWork, Outside
<1>9. WaitsKept'
  BY <1>2, <1>7 DEF WaitsKept
<1> QED BY <1>7, <1>8, <1>9 DEF PmInv

LEMMA PmWaitDieKeeps == ASSUME PmInv, PmWaitDie PROVE PmInv'
<1>1. PICK s, v : s = msg.sender /\ v = msg.payload.value
  OBVIOUS
<1>2. /\ pc = "switch"
      /\ UNCHANGED <<tasks, messages, reply, syscall, serving, wait_object,
                     next_index, vmm, threads, fs_server_tid, msg, thread>>
      /\ \/ crashed' = TRUE /\ UNCHANGED <<wait_reason, pc>>
         \/ /\ v \in tasks /\ wait_reason[v] = "wrDead" /\ pc' = "reply"
            /\ UNCHANGED <<wait_reason, crashed>>
         \/ /\ wait_reason' = [wait_reason EXCEPT ![s] = "wrTaskDie"]
            /\ pc' = "wait_object" /\ UNCHANGED crashed
  BY <1>1 DEF PmWaitDie, Command, At, Goto, Crash, taskVars
<1>3. /\ msg \in Message /\ s \in tasks /\ s \in Task /\ reply[s] = NULL
      /\ messages[PROCMAN] # <<>> /\ Head(messages[PROCMAN]).sender = s
  BY <1>1, <1>2, SenderAwaits DEF Outside, PmInv, AtWork
<1>4. Lively(s) /\ ~Waited(s)
  BY <1>1, <1>2, <1>3 DEF PmInv, AtWork, Waited
<1>5. /\ wait_reason' \in [Task -> WaitReason]
      /\ wait_reason'[s] = "wrTaskDie" \/ wait_reason'[s] = wait_reason[s]
      /\ pc' = "wait_object" => wait_reason'[s] = "wrTaskDie"
      /\ \A t \in Task : t # s => wait_reason'[t] = wait_reason[t]
  BY <1>2, <1>3 DEF PmInv, CallsInv, TypeOK, WaitReason
<1>6. /\ wait_object' \in [Task -> 0..(Word - 1)] /\ crashed' \in BOOLEAN
      /\ pc' \in {"switch", "reply", "wait_object"}
  BY <1>2 DEF PmInv, Locals, CallsInv, TypeOK
<1>7. /\ CallsInv' /\ Tame /\ Indexed' /\ Locals' /\ Deaths' /\ ThreadsCounted'
      /\ \A t \in Task : Waited(t)' => Seen(t, reply[t].payload.value)'
  BY <1>1, <1>2, <1>4, <1>3, <1>5, <1>6, LateKeeps
<1>8. AtWork'
  <2>1. Lively(s)'
    BY <1>3, <1>4, <1>7 DEF Tame, Lively
  <2>2. Lively(msg.sender)'
    BY <1>1, <1>2, <2>1 DEF Lively
  <2> QED BY <1>1, <1>2, <1>3, <1>6, <2>2 DEF AtWork, Outside
<1>9. WaitsKept'
  <2>1. pc' = "reply" => Seen(s, v)'
    BY <1>2 DEF Seen
  <2>2. pc' = "reply" => Seen(msg.sender, msg.payload.value)'
    BY <1>1, <1>2, <2>1 DEF Seen
  <2> QED BY <1>1, <1>2, <1>5, <1>6, <1>7, <2>2 DEF WaitsKept
<1> QED BY <1>7, <1>8, <1>9 DEF PmInv

LEMMA PmWaitObjectKeeps == ASSUME PmInv, PmWaitObject PROVE PmInv'
<1>1. PICK s, v : s = msg.sender /\ v = msg.payload.value
  OBVIOUS
<1>2. /\ pc = "wait_object" /\ pc' = "reply" /\ ~crashed
      /\ wait_object' = [wait_object EXCEPT ![s] = v]
      /\ UNCHANGED <<tasks, wait_reason, messages, reply, syscall, serving, crashed,
                     next_index, vmm, threads, fs_server_tid, msg, thread>>
  BY <1>1 DEF PmWaitObject, At, Running, Goto, ipcVars
<1>3. /\ msg \in Message /\ s \in tasks /\ s \in Task /\ reply[s] = NULL
      /\ messages[PROCMAN] # <<>> /\ Head(messages[PROCMAN]).sender = s
  BY <1>1, <1>2, SenderAwaits DEF Outside, PmInv, AtWork
<1>4. v \in 0..(Word - 1) /\ ~Waited(s)
  BY <1>1, <1>3, ProcManAssumption DEF Message, Waited
<1>5. /\ wait_object' \in [Task -> 0..(Word - 1)] /\ wait_object'[s] = v
      /\ \A t \in Task : t # s => wait_object'[t] = wait_object[t]
  BY <1>2, <1>3, <1>4 DEF PmInv, Locals
<1>6. wait_reason' \in [Task -> WaitReason] /\ crashed' \in BOOLEAN
  BY <1>2 DEF PmInv, CallsInv, TypeOK
<1>7. /\ CallsInv' /\ Indexed' /\ Locals' /\ Deaths' /\ ThreadsCounted'
      /\ \A t \in Task : Waited(t)' => Seen(t, reply[t].payload.value)'
  BY <1>1, <1>2, <1>3, <1>4, <1>5, <1>6, LateKeeps
<1>8. AtWork'
  BY <1>1, <1>2, <1>3 DEF PmInv, AtWork, Outside
<1>9. WaitsKept'
  <2>1. wait_reason[s] = "wrTaskDie"
    BY <1>1, <1>2 DEF PmInv, WaitsKept
  <2>2. Seen(msg.sender, msg.payload.value)'
    BY <1>1, <1>2, <1>5, <2>1 DEF Seen
  <2> QED BY <1>2, <1>7, <2>2 DEF WaitsKept
<1> QED BY <1>7, <1>8, <1>9 DEF PmInv

LEMMA PmReplyKeeps == ASSUME PmInv, PmReply PROVE PmInv'
<1>1. PICK p, s : p = msg.payload /\ s = msg.sender
  OBVIOUS
<1>2. /\ pc = "reply" /\ pc' = "receive" /\ msg' = NULL /\ thread' = 0
      /\ Reply([from |-> PROCMAN, payload |-> p])
      /\ UNCHANGED <<taskVars, fs_server_tid>>
  BY <1>1 DEF PmReply, At, Goto
<1>3. /\ msg \in Message /\ s \in tasks /\ s \in Task
  BY <1>1, <1>2, SenderAwaits DEF Outside
<1>4. p \in Payload
  BY <1>1, <1>3 DEF Message
<1>5. /\ CallsInv' /\ Tame /\ Indexed' /\ ~crashed
      /\ UNCHANGED <<tasks, syscall, crashed>>
      /\ serving'[PROCMAN] = FALSE
      /\ reply'[s] = [sender |-> PROCMAN, payload |-> p]
      /\ \A t \in Task : t # s => reply'[t] = reply[t]
      /\ \A t \in Task : wait_reason[t] = "wrTaskDie" => wait_reason'[t] = "wrTaskDie"
      /\ \A t \in Task : Awaiting(t)' => Awaiting(t) /\ t # s
  BY <1>1, <1>2, <1>4, PmAnswers DEF Outside
<1>6. Locals'
  <2>1. 0 \in Task
    BY ProcManAssumption
  <2> QED BY <1>2, <2>1 DEF PmInv, Locals, Label, taskVars
<1>7. AtWork'
  BY <1>2, <1>5 DEF AtWork, Outside
<1>8. Deaths'
  <2>1. \A t \in DeadAtBoot : wait_reason'[t] = "wrDead"
    BY <1>5, ConstantsAssumption DEF PmInv, Deaths, Tame, Lively
  <2>2. \A t \in Task : Awaiting(t)' => Lively(t)'
    BY <1>1, <1>5 DEF PmInv, Deaths, Tame, Lively
  <2> QED BY <2>1, <2>2 DEF Deaths
<1>9. UNCHANGED wait_object
  BY <1>2 DEF taskVars
<1>10. WaitsKept'
  <2>1. ASSUME NEW t \in Task, Waited(t)' PROVE Seen(t, reply[t].payload.value)'
    <3>1. PICK v : v = reply'[t].payload.value
      OBVIOUS
    <3>2. Seen(t, v)
      <4>1. CASE t = s
        <5>1. p.type = "pcWaitDie" /\ v = p.value
          BY <1>5, <2>1, <3>1, <4>1 DEF Waited
        <5> QED BY <1>1, <1>2, <1>5, <4>1, <5>1 DEF PmInv, WaitsKept
      <4>2. CASE t # s
        BY <1>5, <2>1, <3>1, <4>2 DEF PmInv, WaitsKept, Waited
      <4> QED BY <4>1, <4>2
    <3>3. Seen(t, v)'
      BY <1>5, <1>9, <3>2, SeenStays
    <3> QED BY <3>1, <3>3 DEF Seen
  <2> QED BY <1>2, <2>1 DEF WaitsKept
<1>11. ThreadsCounted'
  BY <1>2, <1>5, TameThreads DEF taskVars
<1> QED BY <1>5, <1>6, <1>7, <1>8, <1>10, <1>11 DEF PmInv

-----------------------------------------------------------------------------
(* The invariant *)

LEMMA BootCount ==
  /\ Cardinality(Boot) \in 1..(MaxTask + 1)
  /\ Boot = 0..(Cardinality(Boot) - 1)
<1>1. Boot \subseteq Task /\ Task = 0..MaxTask /\ MaxTask \in Nat /\ PROCMAN \in Boot
      /\ Boot = 0..(Cardinality(Boot) - 1)
  BY ConstantsAssumption, ProcManAssumption
<1>2. IsFiniteSet(0..MaxTask)
  BY <1>1, FS_Interval
<1>3. IsFiniteSet(Boot)
  BY <1>1, <1>2, FS_Subset
<1>4. Cardinality(Boot) \in Nat
  BY <1>3, FS_CardinalityType
<1>5. PICK k : k = Cardinality(Boot)
  OBVIOUS
<1>6. k \in Nat /\ Boot = 0..(k - 1)
  BY <1>1, <1>4, <1>5
<1>7. k >= 1
  BY <1>1, <1>6
<1>8. k - 1 \in Boot
  BY <1>6, <1>7
<1>9. k <= MaxTask + 1
  BY <1>1, <1>6, <1>8
<1> QED BY <1>5, <1>6, <1>7, <1>9, <1>1

LEMMA InitPm == PmInit => PmInv
<1> SUFFICES ASSUME PmInit PROVE PmInv
  OBVIOUS
<1>1. IpcInit /\ AtRest
  BY DEF PmInit
<1>2. CallsInv
  BY <1>1, InitIInv, IInvCalls
<1>3. DeadAtBoot \subseteq Boot /\ Boot \subseteq Task /\ tasks = Boot /\ 0 \in Task
      /\ 0 \in 0..(Word - 1)
  BY <1>1, ConstantsAssumption, ProcManAssumption DEF IpcInit
<1>4. Indexed
  BY <1>1, <1>3, BootCount DEF IpcInit, AtRest, Indexed
<1>5. Locals
  BY <1>1, <1>3 DEF AtRest, Locals, Label
<1>6. AtWork
  BY <1>1, ProcmanApart DEF IpcInit, AtRest, AtWork, Outside
<1>7. Deaths
  BY <1>1, <1>3 DEF IpcInit, Deaths, Awaiting
<1>8. WaitsKept
  BY <1>1 DEF IpcInit, AtRest, WaitsKept, Waited
<1>9. ThreadsCounted
  <2> SUFFICES ASSUME NEW s \in Task PROVE threads[s] = Cardinality(Residents(s))
    <3>1. \A R : R \ {} = R
      OBVIOUS
    <3> QED BY <1>1, <3>1 DEF ThreadsCounted, AtRest
  <2>1. CASE s \in Boot \ DeadAtBoot
    <3>1. Residents(s) = {s}
      BY <1>1, <1>3, <2>1 DEF Residents, IpcInit, AtRest
    <3>2. threads[s] = 1
      BY <1>1, <2>1 DEF AtRest
    <3> QED BY <3>1, <3>2, FS_Singleton
  <2>2. CASE s \notin Boot \ DeadAtBoot
    <3>1. Residents(s) = {}
      BY <1>1, <1>3, <2>2 DEF Residents, AtRest
    <3>2. threads[s] = 0
      BY <1>1, <2>2 DEF AtRest
    <3> QED BY <3>1, <3>2, FS_EmptySet
  <2> QED BY <2>1, <2>2
<1> QED BY <1>2, <1>4, <1>5, <1>6, <1>7, <1>8, <1>9 DEF PmInv

LEMMA NextPm == PmInv /\ [Next]_vars => PmInv'
<1> SUFFICES ASSUME PmInv, [Next]_vars PROVE PmInv'
  OBVIOUS
<1>1. CASE Programs /\ UNCHANGED <<taskVars, pmVars>>
  BY <1>1, ProgramsKeep
<1>2. CASE PmStep
  BY <1>2, PmReceiveKeeps, PmReplyKeeps, PmAnswersKeep, PmDieKeeps,
     PmCreateThreadKeeps, PmChangeThreadsKeeps, PmReadyThreadKeeps,
     PmDelayKeeps, PmDelayReasonKeeps, PmDelayObjectKeeps,
     PmWaitDieKeeps, PmWaitObjectKeeps DEF PmStep
<1>3. CASE \E t \in Launchers : Exec(t)
  BY <1>3, ExecKeeps
<1>4. CASE Tick
  BY <1>4, TickKeeps
<1>5. CASE \E t \in Task : SchedulerWake(t)
  BY <1>5, SchedulerWakeKeeps
<1>6. CASE UNCHANGED vars
  BY <1>6, StutterKeeps DEF vars
<1> QED BY <1>1, <1>2, <1>3, <1>4, <1>5, <1>6 DEF Next

\* PmInv holds in every state the process manager, the programs, the clock and
\* the scheduler reach (core.cpp, task.cpp, messages.cpp).
THEOREM PmInvariant == Spec => []PmInv
BY InitPm, NextPm, PTL DEF Spec

\* Types: among them that a thread count never falls below 0 (task.cpp:120).
THEOREM PmTypesKept == Spec => []PmTypeOK
<1>1. ASSUME PmInv PROVE PmTypeOK
  <2>1. threads \in [Task -> 0..(MaxTask + 1)]
    <3>1. ASSUME NEW s \in Task PROVE threads[s] \in 0..(MaxTask + 1)
      <4> DEFINE R == Residents(s) \ (IF pc = "change_threads" THEN {thread} ELSE {})
      <4>1. threads[s] = Cardinality(R)
        BY <1>1 DEF PmInv, ThreadsCounted
      <4>2. R \subseteq 0..MaxTask
        BY <1>1, TasksInTask, ProcManAssumption DEF PmInv, Residents
      <4>3. IsFiniteSet(0..MaxTask) /\ Cardinality(0..MaxTask) = MaxTask + 1
        BY ProcManAssumption, FS_Interval
      <4>4. IsFiniteSet(R) /\ Cardinality(R) <= Cardinality(0..MaxTask)
        BY <4>2, <4>3, FS_Subset
      <4>5. Cardinality(R) \in Nat
        BY <4>4, FS_CardinalityType
      <4> HIDE DEF R
      <4> QED BY <4>1, <4>3, <4>4, <4>5, ProcManAssumption
    <3> QED BY <1>1, <3>1 DEF PmInv, Locals
  <2>2. next_index \in 0..(MaxTask + 1)
    BY <1>1, ProcManAssumption DEF PmInv, Indexed
  <2>3. msg \in Message \cup {NULL}
    BY <1>1 DEF PmInv, AtWork
  <2> QED BY <1>1, <2>1, <2>2, <2>3 DEF PmInv, CallsInv, Indexed, Locals, Label, PmTypeOK
<1> QED BY <1>1, PmInvariant, PTL

\* The thread count of an address space is the number of its live tasks but
\* for the thread under construction: kill deletes the space with its last
\* task (task.cpp:116-122, core.cpp:150-163).
THEOREM ThreadsCountedAlways == Spec => []ThreadsCounted
<1>1. PmInv => ThreadsCounted
  BY DEF PmInv
<1> QED BY <1>1, PmInvariant, PTL

\* Killing, creating and late assignments neither lose nor double a request.
THEOREM RequestsSurvive == Spec => []OneRequestPerCall
<1>1. PmInv => OneRequestPerCall
  BY DEF PmInv, CallsInv
<1> QED BY <1>1, PmInvariant, PTL

-----------------------------------------------------------------------------
(* Deaths *)

LEMMA NextDead ==
  ASSUME PmInv, [Next]_vars, NEW t \in tasks, wait_reason[t] = "wrDead"
  PROVE  wait_reason'[t] = "wrDead"
<1>1. t \in Task /\ tasks \subseteq Task /\ wait_reason \in [Task -> WaitReason]
  BY TasksInTask DEF PmInv, CallsInv, TypeOK
<1>2. \A d : Woken(d)[t] = "wrDead"
  BY <1>1 DEF Woken
<1>3. \A c : Replied(c)[t] = "wrDead"
  BY <1>1 DEF Replied
<1>4. CASE Programs
  <2>1. ASSUME NEW c \in Calls, SendBlock(c) PROVE wait_reason'[t] = "wrDead"
    <3>1. /\ wait_reason' = [Woken(c.to) EXCEPT ![c.from] = "wrReply"]
          /\ wait_reason[c.from] = "wrNone"
      BY <2>1 DEF SendBlock, Running
    <3>2. t # c.from
      BY <3>1
    <3> HIDE DEF Woken
    <3>3. Woken(c.to) \in [Task -> WaitReason]
      BY <1>1 DEF Woken, WaitReason
    <3> QED BY <1>1, <1>2, <3>1, <3>2, <3>3
  <2>2. ASSUME NEW u \in Servers, Receive(u) PROVE wait_reason'[t] = "wrDead"
    BY <1>1, <2>2 DEF Receive, ReceiveNow, ReceiveBlock, ReceiveResume, Running
  <2>3. ASSUME NEW u \in Servers, AnswerSteps(u) PROVE wait_reason'[t] = "wrDead"
    BY <1>2, <1>3, <2>3 DEF AnswerSteps, Reply, Forward, ForwardRefused, ReplyRefused
  <2>4. ASSUME NEW u \in Task, SendReturn(u) PROVE wait_reason'[t] = "wrDead"
    BY <2>4 DEF SendReturn
  <2>5. ASSUME NEW c \in Calls, SendRefused(c) PROVE wait_reason'[t] = "wrDead"
    BY <2>5 DEF SendRefused, ipcVars
  <2> QED BY <1>4, <2>1, <2>2, <2>3, <2>4, <2>5 DEF Programs
<1>5. CASE PmStep
  <2>1. CASE PmReceive
    BY <1>1, <2>1 DEF PmReceive, Receive, ReceiveNow, ReceiveBlock, ReceiveResume, Running
  <2>2. CASE PmReply \/ PmDelay
    BY <1>3, <2>2 DEF PmReply, PmDelay, Reply
  <2>3. CASE PmPlain \/ PmSetRootFS \/ PmGetRootFS \/ PmChangeThreads \/ PmDelayObject
             \/ PmWaitObject
    BY <2>3 DEF PmPlain, PmSetRootFS, PmGetRootFS, PmChangeThreads, PmDelayObject,
       PmWaitObject, ipcVars
  <2>4. CASE PmDie
    BY <1>1, <2>4 DEF PmDie, Kill
  <2>5. CASE PmCreateThread
    <3>1. next_index # t
      BY DEF PmInv, Indexed
    <3> QED BY <1>1, <2>5, <3>1 DEF PmCreateThread, CreateTask
  <2>6. CASE PmReadyThread
    <3>1. thread # t
      BY <2>6 DEF PmReadyThread, At, PmInv, AtWork
    <3> QED BY <1>1, <2>6, <3>1 DEF PmReadyThread
  <2>7. CASE PmDelayReason \/ PmWaitDie
    <3>1. msg.sender # t
      BY <2>7 DEF PmDelayReason, PmWaitDie, Command, At, PmInv, AtWork, Lively
    <3> QED BY <1>1, <2>7, <3>1 DEF PmDelayReason, PmWaitDie
  <2> QED BY <1>5, <2>1, <2>2, <2>3, <2>4, <2>5, <2>6, <2>7 DEF PmStep
<1>6. CASE \E u \in Launchers : Exec(u)
  <2>1. next_index # t
    BY DEF PmInv, Indexed
  <2> QED BY <1>1, <1>6, <2>1 DEF Exec, CreateTask
<1>7. CASE Tick
  BY <1>1, <1>7 DEF Tick, Delayed
<1>8. CASE \E u \in Task : SchedulerWake(u)
  BY <1>1, <1>8 DEF SchedulerWake, DieObserved
<1>9. CASE UNCHANGED vars
  BY <1>9 DEF vars, ipcVars
<1> QED BY <1>4, <1>5, <1>6, <1>7, <1>8, <1>9 DEF Next

\* A dead task stays dead: neither the reply to its own pcDie, nor a message,
\* nor the clock, nor a late assignment makes it ready (messages.cpp:136-137,
\* core.cpp:224-234).
THEOREM DeadStayDead == Spec => NoResurrection
<1>1. PmInv /\ [Next]_vars =>
        [\A t \in tasks : wait_reason[t] = "wrDead" => wait_reason'[t] = "wrDead"]_vars
  BY NextDead
<1> QED BY <1>1, PmInvariant, PTL DEF Spec, NoResurrection

-----------------------------------------------------------------------------
(* What wait_die means *)

\* Only the second half of send ends a send, and only for a caller that is
\* ready or that the scheduler's search has found to wait for a dead task.
LEMMA SendEnds ==
  ASSUME PmInv, [Next]_vars, NEW t \in Task, syscall[t] = "send", syscall'[t] = "none"
  PROVE  reply[t] # NULL /\ (wait_reason[t] = "wrNone" \/ DieObserved(t))
<1>0. syscall \in [Task -> {"none", "send", "receive"}]
  BY DEF PmInv, CallsInv, TypeOK
<1>1. ASSUME NEW u \in Task, FinishSend(u) PROVE t = u /\ reply[t] # NULL
  BY <1>0, <1>1 DEF FinishSend, Crash
<1>2. ASSUME NEW u \in Task, Receive(u) PROVE FALSE
  BY <1>0, <1>2 DEF Receive, ReceiveNow, ReceiveBlock, ReceiveResume, Crash, Running
<1>3. CASE Programs
  <2>1. ASSUME NEW u \in Task, SendReturn(u)
        PROVE  reply[t] # NULL /\ wait_reason[t] = "wrNone"
    BY <1>1, <2>1 DEF SendReturn
  <2>2. ASSUME NEW c \in Calls, SendRefused(c) \/ SendBlock(c) PROVE FALSE
    BY <1>0, <2>2 DEF SendRefused, SendBlock, Running, ipcVars
  <2>3. ASSUME NEW u \in Servers, Receive(u) \/ AnswerSteps(u) PROVE FALSE
    BY <1>2, <2>3, ProcmanApart
       DEF AnswerSteps, Reply, Forward, ForwardRefused, ReplyRefused
  <2> QED BY <1>3, <2>1, <2>2, <2>3 DEF Programs
<1>4. CASE PmStep
  <2>1. ~PmReceive
    BY <1>2, ProcmanApart DEF PmReceive
  <2> QED BY <1>4, <2>1 DEF PmStep, PmReply, PmPlain, PmSetRootFS, PmGetRootFS, PmDie,
         PmCreateThread, PmChangeThreads, PmReadyThread, PmDelay, PmDelayReason,
         PmDelayObject, PmWaitDie, PmWaitObject, Reply, Crash, ipcVars
<1>5. CASE \E u \in Launchers : Exec(u)
  BY <1>5 DEF Exec
<1>6. CASE Tick
  BY <1>6 DEF Tick
<1>7. CASE \E u \in Task : SchedulerWake(u)
  BY <1>1, <1>7 DEF SchedulerWake
<1>8. CASE UNCHANGED vars
  BY <1>8 DEF vars, ipcVars
<1> QED BY <1>3, <1>4, <1>5, <1>6, <1>7, <1>8 DEF Next

\* wait_die returns only when the task it names is dead, although the process
\* manager writes the reason of the wait, then its object, and answers before
\* the scheduler has looked at either (core.cpp:235-243, task.cpp:30-60).
THEOREM WaitDieTrue == Spec => WaitDieMeansDead
<1>1. ASSUME PmInv, [Next]_vars
      PROVE  [\A t \in Task :
                /\ syscall[t] = "send" /\ syscall'[t] = "none"
                /\ reply[t].sender = PROCMAN /\ reply[t].payload.type = "pcWaitDie"
                => wait_reason[reply[t].payload.value] = "wrDead"]_vars
  <2> SUFFICES ASSUME NEW t \in Task, syscall[t] = "send", syscall'[t] = "none",
                      reply[t].sender = PROCMAN, reply[t].payload.type = "pcWaitDie"
               PROVE  wait_reason[reply[t].payload.value] = "wrDead"
    OBVIOUS
  <2>1. reply[t] # NULL /\ (wait_reason[t] = "wrNone" \/ DieObserved(t))
    BY <1>1, SendEnds
  <2>2. Seen(t, reply[t].payload.value)
    BY <1>1, <2>1 DEF PmInv, WaitsKept, Waited
  <2> QED BY <2>1, <2>2 DEF Seen, DieObserved
<1> QED BY <1>1, PmInvariant, PTL DEF Spec, WaitDieMeansDead

-----------------------------------------------------------------------------
(* The abstract calls *)

LEMMA NextPmImplements ==
  PmInv /\ [Next]_vars => [Promise!RpcNext]_(Promise!rpcVars)
<1> SUFFICES ASSUME PmInv, [Next]_vars PROVE [Promise!RpcNext]_(Promise!rpcVars)
  OBVIOUS
<1>0. CallsInv
  BY DEF PmInv
<1>1. ASSUME NEW t \in Task, FinishSend(t) PROVE [Promise!RpcNext]_(Promise!rpcVars)
  <2>1. CASE reply[t] = NULL
    <3>1. UNCHANGED <<messages, reply, syscall>>
      BY <1>1, <2>1 DEF FinishSend, Crash
    <3> QED BY <3>1, NoPromiseStep
  <2>2. CASE reply[t] # NULL
    BY <1>0, <1>1, <2>2, FinishSendReturns DEF Promise!RpcNext
  <2> QED BY <2>1, <2>2
<1>2. ASSUME NEW t \in Task, Receive(t) PROVE UNCHANGED Promise!rpcVars
  <2>1. /\ messages' = messages
        /\ reply' = reply
        /\ \A u \in Task : syscall[u] = "send" <=> syscall'[u] = "send"
    BY <1>0, <1>2 DEF Receive, ReceiveNow, ReceiveBlock, ReceiveResume, Crash,
       Running, CallsInv, TypeOK
  <2> QED BY <2>1, NoPromiseStep
<1>3. ASSUME NEW a, a.from \in Task, a.payload \in Payload, Reply(a) PROVE Promise!RpcNext
  BY <1>0, <1>3, ReplyAnswers DEF Promise!RpcNext
<1>4. ASSUME UNCHANGED <<messages, reply, syscall>> PROVE UNCHANGED Promise!rpcVars
  BY <1>4, NoPromiseStep
<1>5. CASE Programs
  <2>1. ASSUME NEW c \in Calls, SendBlock(c) PROVE Promise!RpcNext
    BY <1>0, <2>1, SendBlockCalls DEF Promise!RpcNext
  <2>2. ASSUME NEW c \in Calls, SendRefused(c) PROVE UNCHANGED Promise!rpcVars
    BY <1>4, <2>2 DEF SendRefused, ipcVars
  <2>3. ASSUME NEW t \in Servers, AnswerSteps(t) PROVE [Promise!RpcNext]_(Promise!rpcVars)
    <3>1. ASSUME NEW a \in Answers, Reply(a) PROVE Promise!RpcNext
      BY <1>3, <3>1, ConstantsAssumption
    <3>2. ASSUME NEW f \in Relays, Forward(f) PROVE Promise!RpcNext
      BY <1>0, <3>2, ForwardPasses DEF Promise!RpcNext
    <3>3. ASSUME NEW f \in Relays, ForwardRefused(f) PROVE UNCHANGED Promise!rpcVars
      BY <1>4, <3>3 DEF ForwardRefused
    <3>4. ReplyRefused(t) => UNCHANGED Promise!rpcVars
      BY <1>4 DEF ReplyRefused
    <3> QED BY <2>3, <3>1, <3>2, <3>3, <3>4 DEF AnswerSteps
  <2> QED BY <1>1, <1>2, <1>5, <2>1, <2>2, <2>3, ProcmanApart DEF Programs, SendReturn
<1>6. CASE PmStep
  <2>1. CASE PmReceive
    BY <1>2, <2>1, ProcmanApart DEF PmReceive
  <2>2. CASE PmReply \/ PmDelay
    <3>1. PICK p : Reply([from |-> PROCMAN, payload |-> p])
                   /\ p \in {msg.payload, [type |-> "prOk", value |-> msg.payload.value]}
      BY <2>2 DEF PmReply, PmDelay
    <3>2. msg \in Message
      BY <2>2, SenderAwaits DEF PmReply, PmDelay, Command, At, Outside
    <3>3. p \in Payload
      BY <3>1, <3>2, ProcManAssumption DEF Message, Type
    <3> DEFINE a == [from |-> PROCMAN, payload |-> p]
    <3>4. a.from \in Task /\ a.payload \in Payload /\ Reply(a)
      BY <3>1, <3>3, ProcmanApart
    <3> HIDE DEF a
    <3> QED BY <1>3, <3>4
  <2>3. CASE PmPlain \/ PmSetRootFS \/ PmGetRootFS \/ PmDie \/ PmCreateThread
             \/ PmChangeThreads \/ PmReadyThread \/ PmDelayReason \/ PmDelayObject
             \/ PmWaitDie \/ PmWaitObject
    <3>1. UNCHANGED <<messages, reply, syscall>>
      BY <2>3 DEF PmPlain, PmSetRootFS, PmGetRootFS, PmDie, PmCreateThread,
         PmChangeThreads, PmReadyThread, PmDelayReason, PmDelayObject, PmWaitDie,
         PmWaitObject, Crash, ipcVars
    <3> QED BY <1>4, <3>1
  <2> QED BY <1>6, <2>1, <2>2, <2>3 DEF PmStep
<1>7. CASE (\E t \in Launchers : Exec(t)) \/ Tick \/ UNCHANGED vars
  BY <1>4, <1>7 DEF Exec, Tick, vars, ipcVars
<1>8. CASE \E t \in Task : SchedulerWake(t)
  BY <1>1, <1>8 DEF SchedulerWake
<1> QED BY <1>5, <1>6, <1>7, <1>8 DEF Next

\* With deaths, new tasks, delays and a kernel that may stop, the calls are
\* still the abstract ones: one answer each, in the order of arrival.
THEOREM ProcManRefinement == Spec => ImplementsRpc
<1>1. PmInit => Promise!RpcInit
  BY InitImplements DEF PmInit
<1>2. PmInv /\ [Next]_vars => [Promise!RpcNext]_(Promise!rpcVars)
  BY NextPmImplements
<1> QED BY <1>1, <1>2, PmInvariant, PTL DEF Spec, ImplementsRpc, Promise!RpcSpec

-----------------------------------------------------------------------------
(* Sleeps of the message system *)

\* A task that was never put to a delay or a wait sleeps in a call for its own
\* event, and only until it happens.
Steady(t) ==
  /\ ~Asleep(t)
  /\ wait_reason[t] = "wrMessage" => syscall[t] = "receive"
  /\ wait_reason[t] = "wrReply" => syscall[t] = "send"
  /\ wait_reason[t] = "wrPaused" => syscall[t] = "none"
  /\ wait_reason[t] \in {"wrMessage", "wrReply"} => Lacking(t)
  /\ wait_reason[t] = "wrNone" => ~Lacking(t)

SleepInv == /\ PmInv
            /\ \A t \in Task \ sleepers : Steady(t)
            /\ crashed => AsksForNobody \/ \E t \in sleepers : Lacking(t)

LEMMA SteadyStays ==
  ASSUME NEW t, Steady(t), wait_reason'[t] = wait_reason[t],
         syscall'[t] = syscall[t], reply'[t] = reply[t], messages'[t] = messages[t]
  PROVE  Steady(t)'
BY DEF Steady, Asleep, Lacking, Awaiting

\* A task outside every call that is ready, dead or not yet ready.
LEMMA SteadyOutside ==
  ASSUME NEW t, syscall'[t] = "none", wait_reason'[t] \in {"wrNone", "wrDead", "wrPaused"}
  PROVE  Steady(t)'
BY DEF Steady, Asleep, Lacking, Awaiting

\* A queue that grows wakes a task that sleeps for it, and no other.
LEMMA SteadyWoken ==
  ASSUME TypeOK, NEW d \in Task, Steady(d), wait_reason'[d] = Woken(d)[d],
         syscall'[d] = syscall[d], reply'[d] = reply[d], messages'[d] # <<>>
  PROVE  Steady(d)'
<1>1. wait_reason'[d] = IF wait_reason[d] = "wrMessage" THEN "wrNone" ELSE wait_reason[d]
  BY DEF Woken, TypeOK
<1> QED BY <1>1 DEF Steady, Asleep, Lacking, Awaiting

LEMMA SendBlockSteady ==
  ASSUME PmInv, NEW c \in Calls, SendBlock(c), NEW t \in Task, Steady(t)
  PROVE  Steady(t)'
<1> DEFINE s == c.from
           d == c.to
           m == [sender |-> s, payload |-> c.payload]
<1>1. s \in Task /\ d \in Task /\ s # d /\ m \in Message
  BY ConstantsAssumption DEF Message, SendBlock, Refused
<1>2. TypeOK /\ syscall[s] = "none" /\ reply[s] = NULL
  BY <1>1 DEF SendBlock, Running, PmInv, CallsInv
<1>3. /\ messages' = [messages EXCEPT ![d] = Append(@, m)]
      /\ wait_reason' = [Woken(d) EXCEPT ![s] = "wrReply"]
      /\ syscall' = [syscall EXCEPT ![s] = "send"] /\ reply' = reply
  BY DEF SendBlock, Enqueued
<1>4. messages'[d] # <<>> /\ \A u \in Task : u # d => messages'[u] = messages[u]
  <2>1. messages \in [Task -> Seq(Message)] /\ messages[d] \in Seq(Message)
    BY <1>1, <1>2 DEF TypeOK
  <2> HIDE DEF m, d
  <2>2. messages'[d] = Append(messages[d], m)
    BY <1>1, <1>3, <2>1
  <2> QED BY <1>1, <1>3, <2>1, <2>2, AppendNonEmpty
<1>5. /\ syscall'[s] = "send" /\ wait_reason'[s] = "wrReply"
      /\ \A u \in Task : u # s => /\ wait_reason'[u] = Woken(d)[u]
                                  /\ syscall'[u] = syscall[u]
      /\ \A u \in Task : u # d => Woken(d)[u] = wait_reason[u]
  BY <1>1, <1>2, <1>3 DEF TypeOK, Woken
<1>6. CASE t = s
  BY <1>2, <1>3, <1>5, <1>6 DEF Steady, Asleep, Lacking, Awaiting
<1>7. CASE t = d
  BY <1>1, <1>2, <1>3, <1>4, <1>5, <1>7, SteadyWoken
<1>8. CASE t # s /\ t # d
  BY <1>3, <1>4, <1>5, <1>8, SteadyStays
<1> QED BY <1>6, <1>7, <1>8

\* A send ends only with its reply, or stops the kernel.
LEMMA FinishSendSteady ==
  ASSUME PmInv, NEW u \in Task, FinishSend(u), NEW t \in Task, Steady(t),
         wait_reason'[t] = wait_reason[t], t = u => wait_reason[t] = "wrNone"
  PROVE  Steady(t)'
<1>1. CASE reply[u] = NULL
  BY <1>1, SteadyStays DEF FinishSend, Crash
<1>2. CASE reply[u] # NULL
  <2>1. /\ reply' = [reply EXCEPT ![u] = NULL]
        /\ syscall' = [syscall EXCEPT ![u] = "none"] /\ messages' = messages
    BY <1>2 DEF FinishSend
  <2>2. CASE t = u
    BY <2>1, <2>2, SteadyOutside DEF PmInv, CallsInv, TypeOK
  <2>3. CASE t # u
    BY <2>1, <2>3, SteadyStays DEF PmInv, CallsInv, TypeOK
  <2> QED BY <2>2, <2>3
<1> QED BY <1>1, <1>2

LEMMA ReceiveSteady ==
  ASSUME PmInv, NEW u \in Task, Receive(u), NEW t \in Task, Steady(t)
  PROVE  Steady(t)'
<1>1. /\ UNCHANGED <<messages, reply>>
      /\ t # u => wait_reason'[t] = wait_reason[t] /\ syscall'[t] = syscall[t]
  BY DEF Receive, ReceiveNow, ReceiveBlock, ReceiveResume, Crash, PmInv, CallsInv, TypeOK
<1>2. CASE t # u
  BY <1>1, <1>2, SteadyStays
<1>3. CASE t = u /\ ReceiveNow(u)
  BY <1>1, <1>3, SteadyStays DEF ReceiveNow
<1>4. CASE t = u /\ ReceiveBlock(u)
  <2>1. wait_reason'[t] = "wrMessage" /\ syscall'[t] = "receive" /\ messages'[t] = <<>>
    BY <1>1, <1>4 DEF ReceiveBlock, PmInv, CallsInv, TypeOK
  <2> QED BY <2>1 DEF Steady, Asleep, Lacking
<1>5. CASE t = u /\ ReceiveResume(u)
  <2>1. CASE messages[u] = <<>>
    BY <1>1, <1>5, <2>1, SteadyStays DEF ReceiveResume, Crash
  <2>2. CASE messages[u] # <<>>
    <3>1. wait_reason'[t] = "wrNone" /\ syscall'[t] = "none"
      BY <1>5, <2>2 DEF ReceiveResume, PmInv, CallsInv, TypeOK
    <3> QED BY <3>1, SteadyOutside
  <2> QED BY <2>1, <2>2
<1> QED BY <1>2, <1>3, <1>4, <1>5 DEF Receive

LEMMA ReplySteady ==
  ASSUME PmInv, NEW a, a.from \in Task, a.payload \in Payload, Reply(a),
         NEW t \in Task, Steady(t)
  PROVE  Steady(t)'
<1> DEFINE u == a.from
           c == Head(messages[u]).sender
           m == [sender |-> u, payload |-> a.payload]
<1>1. m \in Message /\ m # NULL
  BY ConstantsAssumption DEF Message
<1>2. messages[u] # <<>> /\ syscall[u] = "none" /\ wait_reason[u] = "wrNone"
  BY DEF Reply, Running
<1>3. c \in Task /\ syscall[c] = "send" /\ reply[c] = NULL
  BY <1>2, HeadCalls DEF PmInv
<1>4. /\ reply' = [reply EXCEPT ![c] = m] /\ wait_reason' = Replied(c)
      /\ messages' = [messages EXCEPT ![u] = Tail(@)] /\ syscall' = syscall
  BY DEF Reply, Dequeued
<1>5. PICK d, r : d = c /\ r = m
  OBVIOUS
<1> HIDE DEF c, m
<1>6. /\ reply'[d] # NULL /\ \A v \in Task : v # d => reply'[v] = reply[v]
      /\ \A v \in Task : v # u => messages'[v] = messages[v]
      /\ \A v \in Task : v # d => wait_reason'[v] = wait_reason[v]
      /\ wait_reason'[d] = IF wait_reason[d] = "wrReply" THEN "wrNone" ELSE wait_reason[d]
  BY <1>1, <1>3, <1>4, <1>5 DEF Replied, PmInv, CallsInv, TypeOK
<1>7. CASE t = d
  <2>1. syscall'[t] = "send" /\ reply'[t] # NULL /\ wait_reason[t] \in {"wrReply", "wrDead"}
    BY <1>3, <1>4, <1>5, <1>6, <1>7 DEF Steady, Asleep, Lacking, Awaiting, PmInv, CallsInv, TypeOK, WaitReason
  <2>2. wait_reason'[t] \in {"wrNone", "wrDead"}
    BY <1>6, <1>7, <2>1
  <2> QED BY <2>1, <2>2 DEF Steady, Asleep, Lacking, Awaiting
<1>8. CASE t = u /\ t # d
  BY <1>2, <1>4, <1>6, <1>8, SteadyOutside
<1>9. CASE t # u /\ t # d
  BY <1>4, <1>6, <1>9, SteadyStays
<1> QED BY <1>7, <1>8, <1>9

LEMMA ForwardSteady ==
  ASSUME PmInv, NEW f \in Relays, Forward(f), NEW t \in Task, Steady(t)
  PROVE  Steady(t)'
<1> DEFINE u == f.from
           d == f.to
           m == [sender |-> Head(messages[u]).sender, payload |-> f.payload]
           mid == [messages EXCEPT ![u] = Tail(@)]
<1>1. u \in Task /\ d \in Task /\ f.payload \in Payload
  BY ConstantsAssumption
<1>2. messages[u] # <<>> /\ syscall[u] = "none" /\ wait_reason[u] = "wrNone"
  BY DEF Forward, Running
<1>3. m \in Message
  BY <1>1, <1>2, HeadCalls DEF PmInv, Message
<1>4. /\ messages' = [mid EXCEPT ![d] = Append(@, m)] /\ wait_reason' = Woken(d)
      /\ UNCHANGED <<reply, syscall>>
  BY DEF Forward, Enqueued, Dequeued
<1>5. TypeOK /\ messages \in [Task -> Seq(Message)]
  BY DEF PmInv, CallsInv, TypeOK
<1>6. messages'[d] # <<>> /\ \A v \in Task : v # d /\ v # u => messages'[v] = messages[v]
  <2>1. Tail(messages[u]) \in Seq(Message)
    BY <1>1, <1>2, <1>5
  <2>2. mid \in [Task -> Seq(Message)] /\ \A v \in Task : v # u => mid[v] = messages[v]
    BY <1>5, <2>1
  <2> HIDE DEF mid, m
  <2>3. messages'[d] = Append(mid[d], m) /\ mid[d] \in Seq(Message)
    BY <1>1, <1>4, <2>2
  <2> QED BY <1>1, <1>3, <1>4, <2>2, <2>3, AppendNonEmpty
<1>7. \A v \in Task : v # d => wait_reason'[v] = wait_reason[v]
  BY <1>1, <1>4, <1>5 DEF Woken, TypeOK
<1>8. CASE t = d
  BY <1>4, <1>5, <1>6, <1>8, SteadyWoken
<1>9. CASE t = u /\ t # d
  BY <1>2, <1>4, <1>7, <1>9, SteadyOutside
<1>10. CASE t # u /\ t # d
  BY <1>4, <1>6, <1>7, <1>10, SteadyStays
<1> QED BY <1>8, <1>9, <1>10

\* The process manager ends a wait only of a task that has none, or has answered.
LEMMA PmStepSteady ==
  ASSUME PmInv, PmStep, NEW t \in Task, Steady(t), ~Asleep(t)'
  PROVE  Steady(t)'
<1>0. TypeOK /\ tasks \subseteq Task
  BY TasksInTask DEF PmInv, CallsInv
<1>1. CASE PmReceive
  BY <1>1, ReceiveSteady, ProcmanApart DEF PmReceive
<1>2. CASE PmReply \/ PmDelay
  <2>1. PICK p : Reply([from |-> PROCMAN, payload |-> p])
                 /\ p \in {msg.payload, [type |-> "prOk", value |-> msg.payload.value]}
    BY <1>2 DEF PmReply, PmDelay
  <2>2. msg \in Message
    BY <1>2, SenderAwaits DEF PmReply, PmDelay, Command, At, Outside
  <2>3. p \in Payload
    BY <2>1, <2>2, ProcManAssumption DEF Message, Type
  <2> DEFINE a == [from |-> PROCMAN, payload |-> p]
  <2>4. a.from \in Task /\ a.payload \in Payload /\ Reply(a)
    BY <2>1, <2>3, ProcmanApart
  <2> HIDE DEF a
  <2> QED BY <2>4, ReplySteady
<1>3. CASE \/ PmPlain \/ PmSetRootFS \/ PmGetRootFS \/ PmChangeThreads \/ PmDelayObject
           \/ PmWaitObject
  BY <1>3, SteadyStays DEF PmPlain, PmSetRootFS, PmGetRootFS, PmChangeThreads,
     PmDelayObject, PmWaitObject, ipcVars
<1>4. ASSUME NEW d, NEW reason, wait_reason' = [wait_reason EXCEPT ![d] = reason],
             UNCHANGED <<messages, reply, syscall>>,
             t = d => reason \in {"wrDead", "wrDelay", "wrTaskDie"} \/ syscall[t] = "none",
             reason \in WaitReason \ {"wrMessage", "wrReply"}
      PROVE  Steady(t)'
  <2>1. CASE t = d
    BY <1>0, <1>4, <2>1 DEF Steady, Asleep, Lacking, Awaiting, TypeOK, WaitReason
  <2>2. CASE t # d
    BY <1>0, <1>4, <2>2, SteadyStays DEF TypeOK
  <2> QED BY <2>1, <2>2
<1>5. CASE PmDie
  BY <1>4, <1>5 DEF PmDie, Kill, WaitReason
<1>6. CASE PmCreateThread
  <2>1. /\ wait_reason' = [wait_reason EXCEPT ![next_index] = "wrPaused"]
        /\ UNCHANGED <<messages, reply, syscall>>
    BY <1>6 DEF PmCreateThread, CreateTask
  <2>2. t = next_index => syscall[t] = "none"
    BY ProcManAssumption DEF PmInv, Indexed
  <2> QED BY <1>4, <2>1, <2>2 DEF WaitReason
<1>7. CASE PmReadyThread
  <2>1. t = thread => syscall[t] = "none"
    BY <1>7 DEF PmReadyThread, At, PmInv, AtWork, Steady
  <2> QED BY <1>4, <1>7, <2>1 DEF PmReadyThread, WaitReason
<1>8. CASE PmDelayReason
  BY <1>4, <1>8 DEF PmDelayReason, WaitReason
<1>9. CASE PmWaitDie
  <2>1. CASE UNCHANGED wait_reason
    BY <1>9, <2>1, SteadyStays DEF PmWaitDie, Crash
  <2>2. CASE ~UNCHANGED wait_reason
    <3>1. /\ wait_reason' = [wait_reason EXCEPT ![msg.sender] = "wrTaskDie"]
          /\ UNCHANGED <<messages, reply, syscall>>
      BY <1>9, <2>2 DEF PmWaitDie
    <3> QED BY <1>4, <3>1 DEF WaitReason
  <2> QED BY <2>1, <2>2
<1> QED BY <1>1, <1>2, <1>3, <1>5, <1>6, <1>7, <1>8, <1>9 DEF PmStep

LEMMA NextSteady ==
  ASSUME PmInv, [Next]_vars, NEW t \in Task, Steady(t), ~Asleep(t)'
  PROVE  Steady(t)'
<1>0. TypeOK
  BY DEF PmInv, CallsInv
<1>1. CASE Programs
  <2>1. ASSUME NEW c \in Calls, SendRefused(c) PROVE Steady(t)'
    BY <2>1, SteadyStays DEF SendRefused, ipcVars
  <2>2. ASSUME NEW u \in Task, SendReturn(u) PROVE Steady(t)'
    BY <2>2, FinishSendSteady DEF SendReturn
  <2>3. ASSUME NEW u \in Servers, AnswerSteps(u) PROVE Steady(t)'
    <3>1. ASSUME NEW a \in Answers, Reply(a) PROVE Steady(t)'
      BY <3>1, ReplySteady, ConstantsAssumption
    <3>2. ASSUME NEW f \in Relays, ForwardRefused(f) PROVE Steady(t)'
      BY <3>2, SteadyStays DEF ForwardRefused
    <3>3. ReplyRefused(u) => Steady(t)'
      BY SteadyStays DEF ReplyRefused
    <3> QED BY <2>3, <3>1, <3>2, <3>3, ForwardSteady DEF AnswerSteps
  <2> QED BY <1>1, <2>1, <2>2, <2>3, SendBlockSteady, ReceiveSteady, ProcmanApart DEF Programs
<1>2. CASE PmStep
  BY <1>2, PmStepSteady
<1>3. CASE \E u \in Launchers : Exec(u)
  <2>1. /\ wait_reason' = [wait_reason EXCEPT ![next_index] = "wrNone"]
        /\ UNCHANGED <<messages, reply, syscall>>
    BY <1>3 DEF Exec, CreateTask
  <2>2. CASE t = next_index
    <3>1. syscall[t] = "none"
      BY <2>2, ProcManAssumption DEF PmInv, Indexed
    <3> QED BY <1>0, <2>1, <2>2, <3>1, SteadyOutside DEF TypeOK
  <2>3. CASE t # next_index
    BY <1>0, <2>1, <2>3, SteadyStays DEF TypeOK
  <2> QED BY <2>2, <2>3
<1>4. CASE Tick
  BY <1>4, SteadyStays DEF Tick, Delayed, Steady, Asleep
<1>5. CASE \E u \in Task : SchedulerWake(u)
  <2>1. PICK u \in Task : SchedulerWake(u)
    BY <1>5
  <2>2. t # u /\ wait_reason'[t] = wait_reason[t]
    BY <1>0, <2>1 DEF SchedulerWake, DieObserved, Steady, Asleep, TypeOK
  <2> QED BY <2>1, <2>2, FinishSendSteady DEF SchedulerWake
<1>6. CASE UNCHANGED vars
  BY <1>6, SteadyStays DEF vars, ipcVars
<1> QED BY <1>1, <1>2, <1>3, <1>4, <1>5, <1>6 DEF Next

\* Nothing moves after the kernel has stopped, and it stops at a wait for nobody or
\* in a call that goes on too early.
LEMMA NextCrash ==
  ASSUME PmInv, Next, crashed'
  PROVE  /\ ~crashed
         /\ AsksForNobody' \/ \E t \in Task : ~Steady(t) /\ Lacking(t)'
<1>1. ASSUME NEW u \in Task, FinishSend(u), wait_reason[u] = "wrNone" \/ DieObserved(u)
      PROVE  ~crashed /\ ~Steady(u) /\ Lacking(u)'
  <2>1. ~crashed /\ Awaiting(u) /\ UNCHANGED <<reply, syscall>>
    BY <1>1 DEF FinishSend, Crash, Awaiting
  <2> QED BY <1>1, <2>1 DEF Steady, Asleep, Lacking, Awaiting, DieObserved
<1>2. ASSUME NEW u \in Task, Receive(u)
      PROVE  ~crashed /\ ~Steady(u) /\ Lacking(u)'
  BY <1>2 DEF Receive, ReceiveNow, ReceiveBlock, ReceiveResume, Crash, Running,
     Steady, Lacking, Awaiting
<1>3. CASE Programs
  <2>1. ASSUME NEW c \in Calls, SendRefused(c) \/ SendBlock(c) PROVE FALSE
    BY <2>1 DEF SendRefused, SendBlock, Running, ipcVars
  <2>2. ASSUME NEW u, AnswerSteps(u) PROVE FALSE
    BY <2>2 DEF AnswerSteps, Reply, Forward, ForwardRefused, ReplyRefused, Running
  <2> QED BY <1>1, <1>2, <1>3, <2>1, <2>2, ProcmanApart DEF Programs, SendReturn
<1>4. CASE PmStep
  <2>1. CASE PmReceive
    BY <1>2, <2>1, ProcmanApart DEF PmReceive
  <2>2. CASE PmWaitDie
    BY <2>2 DEF PmWaitDie, Command, At, Running, Crash, AsksForNobody
  <2>3. CASE ~PmReceive /\ ~PmWaitDie
    BY <1>4, <2>3 DEF PmStep, PmReply, PmPlain, PmSetRootFS, PmGetRootFS, PmDie,
         PmCreateThread, PmChangeThreads, PmReadyThread, PmDelay, PmDelayReason,
         PmDelayObject, PmWaitObject, Reply, Command, At, Running, ipcVars
  <2> QED BY <2>1, <2>2, <2>3
<1>5. CASE \/ \E u \in Launchers : Exec(u)
           \/ Tick
  BY <1>5 DEF Exec, Tick, Running
<1>6. CASE \E u \in Task : SchedulerWake(u)
  BY <1>1, <1>6 DEF SchedulerWake
<1> QED BY <1>3, <1>4, <1>5, <1>6 DEF Next

LEMMA InitSleep == SleepersInit => SleepInv
<1> SUFFICES ASSUME SleepersInit PROVE SleepInv
  OBVIOUS
<1>1. PmInv /\ ~crashed
  BY InitPm DEF SleepersInit, PmInit, IpcInit
<1>2. \A t \in Task : Steady(t)
  BY DEF SleepersInit, PmInit, IpcInit, Steady, Asleep, Lacking, Awaiting
<1> QED BY <1>1, <1>2 DEF SleepInv

LEMMA NextSleep == SleepInv /\ [Next /\ Recorded]_<<vars, sleepers>> => SleepInv'
<1> SUFFICES ASSUME SleepInv, [Next /\ Recorded]_<<vars, sleepers>> PROVE SleepInv'
  OBVIOUS
<1>1. PmInv /\ [Next]_vars /\ PmInv'
  BY NextPm DEF SleepInv
<1>2. CASE UNCHANGED <<vars, sleepers>>
  <2>1. \A t \in Task \ sleepers' : Steady(t)'
    BY <1>2, SteadyStays DEF SleepInv, vars, ipcVars
  <2>2. crashed' => AsksForNobody' \/ \E t \in sleepers' : Lacking(t)'
    BY <1>2 DEF SleepInv, vars, ipcVars, pmVars, AsksForNobody, Lacking, Awaiting
  <2> QED BY <1>1, <2>1, <2>2 DEF SleepInv
<1>3. CASE Next /\ Recorded
  <2>1. \A t \in Task \ sleepers' : Steady(t) /\ ~Asleep(t)'
    BY <1>3 DEF SleepInv, Recorded
  <2>2. \A t \in Task \ sleepers' : Steady(t)'
    BY <1>1, <2>1, NextSteady
  <2>3. crashed' => AsksForNobody' \/ \E t \in sleepers' : Lacking(t)'
    BY <1>1, <1>3, <2>1, NextCrash
  <2> QED BY <1>1, <2>2, <2>3 DEF SleepInv
<1> QED BY <1>2, <1>3

\* Whatever starts, dies, delays itself and waits, no request is lost or doubled, a
\* task that was never put to a delay or a wait misses nothing it sleeps for and
\* never goes on too early, and the kernel stops only for one that was, or at a
\* wait for a task that was never created (messages.cpp:56-94, core.cpp:228-240).
THEOREM LifeAlwaysSound == SleepersSpec => []LifeSound
<1>1. SleepInv => LifeSound
  BY DEF SleepInv, LifeSound, Steady, PmInv, CallsInv
<1> QED BY <1>1, InitSleep, NextSleep, PTL DEF SleepersSpec
=============================================================================
