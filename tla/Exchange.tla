------------------------------ MODULE Exchange ------------------------------
(***************************************************************************)
(* The buffers of a call, core/messages.cpp: what the system calls copy    *)
(* between the client, the kernel's message and the servers it passes      *)
(* through.  The queues, which Messages models, are left out: one client   *)
(* makes one call after another.                                           *)
(***************************************************************************)
EXTENDS Integers, Sequences, FiniteSets

CONSTANTS
  Server, Byte,
  Zero,        \* the byte new char[] fills the kernel's buffers with
  MaxLength,   \* bound of the runs: bytes in a buffer
  MaxForwards  \* bound of the runs: forwards of one call

ExchangeAssumption ==
  /\ Zero \in Byte /\ Byte # {Zero} /\ MaxLength \in Nat /\ MaxForwards \in Nat
  /\ Server \cap {"client", "answered", "panic", "overrun"} = {}

\* A buffer may be absent: NULL exactly when its length is 0.
Buffer == UNION {[1..n -> Byte] : n \in 0..MaxLength}

VARIABLES
  client,  \* the client's buffers, and whether its call has returned
  msg,     \* the kernel's message: data, whether its pointer dangles, reply,
           \* reply_sent, and how often it was forwarded
  holder,  \* where the message is: with the client, at a server, or answered;
           \* or how the kernel stopped
  umsg,    \* each server's message: its data buffer, data_received, and whether
           \* it has received the request
  least,   \* history: the shortest buffer the data passed through
  warned,  \* history: whether a server saw data_received > data_length
  answer   \* history: what the last server answered

vars == <<client, msg, holder, umsg, least, warned, answer>>

-----------------------------------------------------------------------------
\* What a client finds in its memory.
Other == CHOOSE b \in Byte : b # Zero

\* What a server's buffer holds matters from its receive to its reply only.
Empty == [data |-> <<>>, data_received |-> 0, holds |-> FALSE]

Shorter(m, n) == IF m < n THEN m ELSE n

\* The first n bytes of src over those of dst.  Faulty: in front of them.
CopiedLong(dst, src, n) == SubSeq(src, 1, n) \o dst
Copied(dst, src, n) == SubSeq(src, 1, n) \o SubSeq(dst, n + 1, Len(dst))

\* room is the length of the client's reply buffer.
Send(s, data, room) ==
  /\ holder = "client"
  /\ client' = [data |-> data, reply |-> [i \in 1..room |-> Other], returned |-> FALSE]
  /\ msg' = [data |-> data, dangling |-> FALSE, reply |-> [i \in 1..room |-> Zero],
             reply_sent |-> 0, forwards |-> 0]
  /\ holder' = s
  /\ least' = MaxLength /\ warned' = FALSE /\ answer' = <<>>
  /\ UNCHANGED umsg

\* As much is copied as both buffers hold, and the sender's length is told.
\* Faulty: what was copied is told.
ToldCopied(sent, room) == Shorter(sent, room)
Told(sent, room) == sent

Receive(s, buffer) ==
  LET told == Told(Len(msg.data), Len(buffer))
  IN /\ holder = s /\ ~umsg[s].holds
     /\ umsg' = [umsg EXCEPT ![s] =
          [data |-> Copied(buffer, msg.data, Shorter(Len(buffer), Len(msg.data))),
           data_received |-> told, holds |-> TRUE]]
     /\ least' = Shorter(least, Len(buffer))
     /\ warned' = (warned \/ told > Len(buffer))
     /\ UNCHANGED <<client, msg, holder, answer>>

\* The server's whole buffer goes on, whatever part of it was received.
\* Faulty: the kernel's new buffer is left as new[] made it.
ForwardedBlank(data) == [i \in 1..Len(data) |-> Zero]
Forwarded(data) == data

\* data is deleted before the new length is known, and keeps pointing to what
\* was deleted when that is 0.
ForwardPanics(s) ==
  /\ holder = s /\ umsg[s].holds /\ msg.dangling
  /\ holder' = "panic"
  /\ UNCHANGED <<client, msg, umsg, least, warned, answer>>

Forward(s, t) ==
  LET data == Forwarded(umsg[s].data)
  IN /\ holder = s /\ umsg[s].holds /\ ~msg.dangling
     /\ t # s /\ msg.forwards < MaxForwards
     /\ msg' = [msg EXCEPT !.data = data, !.forwards = @ + 1,
                           !.dangling = msg.data # <<>> /\ data = <<>>]
     /\ holder' = t
     /\ umsg' = [umsg EXCEPT ![s] = Empty]
     /\ UNCHANGED <<client, least, warned, answer>>

\* The longer of the two lengths is copied: what follows the answer in the
\* server's memory goes along, and an answer longer than the room is written
\* over what follows the kernel's buffer.  Faulty: the room is filled from its
\* end.
FilledBehind(reply, text) ==
  SubSeq(reply, 1, Len(reply) - Len(text)) \o text
Filled(reply, text) == Copied(reply, text, Len(text))

Reply(s, text) ==
  /\ holder = s /\ umsg[s].holds
  /\ umsg' = [umsg EXCEPT ![s] = Empty]
  /\ answer' = text
  /\ \/ /\ text = <<>> \/ msg.reply = <<>>
        /\ msg' = [msg EXCEPT !.reply_sent = Len(text)]
        /\ holder' = "answered"
     \/ /\ text # <<>> /\ msg.reply # <<>> /\ Len(text) <= Len(msg.reply)
        /\ \E behind \in [1..Len(msg.reply) -> Byte] :
             msg' = [msg EXCEPT !.reply = Filled(behind, text), !.reply_sent = Len(text)]
        /\ holder' = "answered"
     \/ /\ msg.reply # <<>> /\ Len(text) > Len(msg.reply)
        /\ holder' = "overrun" /\ UNCHANGED msg
  /\ UNCHANGED <<client, least, warned>>

\* send goes on.  The message is deleted, its buffers are not.
Return ==
  /\ holder = "answered"
  /\ client' = [client EXCEPT !.reply = msg.reply, !.returned = TRUE]
  /\ holder' = "client"
  /\ UNCHANGED <<msg, umsg, least, warned, answer>>

Init ==
  /\ client = [data |-> <<>>, reply |-> <<>>, returned |-> FALSE]
  /\ msg = [data |-> <<>>, dangling |-> FALSE, reply |-> <<>>, reply_sent |-> 0,
            forwards |-> 0]
  /\ holder = "client"
  /\ umsg = [s \in Server |-> Empty]
  /\ least = MaxLength /\ warned = FALSE /\ answer = <<>>

Next ==
  \/ \E s \in Server, data \in Buffer, room \in 0..MaxLength : Send(s, data, room)
  \/ \E s \in Server, buffer \in Buffer : Receive(s, buffer)
  \/ \E s \in Server : ForwardPanics(s)
  \/ \E s, t \in Server : Forward(s, t)
  \/ \E s \in Server, text \in Buffer : Reply(s, text)
  \/ Return

Spec == Init /\ [][Next]_vars

-----------------------------------------------------------------------------
(* Properties *)

TypeOK ==
  /\ client.data \in Buffer /\ client.reply \in Buffer /\ client.returned \in BOOLEAN
  /\ msg.data \in Buffer /\ msg.reply \in Buffer /\ msg.reply_sent \in 0..MaxLength
  /\ holder \in Server \cup {"client", "answered", "panic", "overrun"}
  /\ \A s \in Server : umsg[s].data \in Buffer /\ umsg[s].data_received \in 0..MaxLength

\* Whatever servers a request passes through and whatever their buffers held,
\* the one that has it reads the client's bytes, as far as the shortest buffer
\* on the way reaches (messages.cpp:106-107, 167-173).
Delivered ==
  \A s \in Server : holder = s /\ umsg[s].holds =>
    LET n == Shorter(least, Len(client.data))
    IN SubSeq(umsg[s].data, 1, n) = SubSeq(client.data, 1, n)

\* No byte is lost unseen: where a buffer was too short for the client's data,
\* a server was told data_received > data_length (fs.cpp:190).
LossSeen ==
  \A s \in Server :
    holder = s /\ umsg[s].holds /\ least < Len(client.data) => warned

\* A client that returns from send has the first reply_sent bytes of the answer
\* at the start of its buffer, as far as that reaches; where nothing was
\* answered it has zeros (messages.cpp:73-74, 132-134).
Returned ==
  client.returned =>
    LET n == Shorter(msg.reply_sent, Len(client.reply))
    IN /\ SubSeq(client.reply, 1, n) = SubSeq(answer, 1, n)
       /\ answer = <<>> => \A i \in DOMAIN client.reply : client.reply[i] = Zero

\* system.h:29 says "all buffers may be NULL, but only when _length is also 0":
\* a forward without data is allowed, and may be followed by another.
ForwardsWithoutData == holder # "panic"
=============================================================================
