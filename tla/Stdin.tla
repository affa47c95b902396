------------------------------- MODULE Stdin -------------------------------
(***************************************************************************)
(* The terminal's standard input, servers/tty.cpp: the keyboard thread puts *)
(* characters into the buffer of console 0, and every program that resolves *)
(* /dev/stdin gets a thread of its own that answers its reads from there.   *)
(* Threads may be switched between any two of the steps below.  Messages    *)
(* are delivered and answered as Messages shows.                            *)
(***************************************************************************)
EXTENDS Integers, Sequences, FiniteSets

CONSTANTS
  Client,        \* programs that read
  BUFFER,        \* KEYBOARD_BUFFER_SIZE
  Lengths,       \* how many characters a program asks for
  TYPED, READS   \* bounds on the characters typed and each program's reads

StdinAssumption ==
  /\ IsFiniteSet(Client) /\ BUFFER \in Nat \ {0} /\ Lengths \subseteq Nat \ {0}
  /\ TYPED \in Nat /\ READS \in Nat

MAIN == 0
KEYBOARD == -1
NONE == -2
Thread == 1..(Cardinality(Client) + 1)    \* numbered as start_thread makes them
Backspace == -1                           \* the other characters are numbered

VARIABLES
  threads,         \* what main's list says: [task, thread] in the order added
  threads_mutex, kbd_mutex, stdin_read,     \* who holds each
  started,         \* threads started so far
  kbd_buffer, count,           \* characters typed and not read, and how many ever
  pc,              \* what main, the keyboard and each thread are about to do
  requests,        \* what each receives: [from, length], 0 for a resolve
  reply,           \* what a thread has gathered so far
  server,          \* whom each program reads from, once it has resolved
  asked,           \* reads each program has begun
  waiting,         \* programs whose request is not answered
  delivered        \* history: what the answers held, in the order of the reads

vars == <<threads, threads_mutex, kbd_mutex, stdin_read, started, kbd_buffer, count,
          pc, requests, reply, server, asked, waiting, delivered>>
locks == <<threads_mutex, kbd_mutex, stdin_read>>
clients == <<server, asked, waiting>>
buffer == <<kbd_buffer, count>>

Process == {MAIN, KEYBOARD} \cup Thread
At(p, place) == pc[p] = place
Goes(p, place) == pc' = [pc EXCEPT ![p] = place]
Request(p) == Head(requests[p])
Sent(to, from, length) ==
  requests' = [requests EXCEPT ![to] = Append(@, [from |-> from, length |-> length])]

-----------------------------------------------------------------------------
(* Programs *)

Resolve(c) ==
  /\ server[c] = NONE /\ c \notin waiting
  /\ Sent(MAIN, c, 0) /\ waiting' = waiting \cup {c}
  /\ UNCHANGED <<threads, locks, started, buffer, pc, reply, server, asked, delivered>>

Read(c, length) ==
  /\ server[c] # NONE /\ c \notin waiting /\ asked[c] < READS
  /\ asked' = [asked EXCEPT ![c] = @ + 1]
  /\ Sent(server[c], c, length) /\ waiting' = waiting \cup {c}
  /\ UNCHANGED <<threads, locks, started, buffer, pc, reply, server, delivered>>

-----------------------------------------------------------------------------
(* The main thread: a resolve is forwarded to the program's thread. *)

Mine(c) == {i \in DOMAIN threads : threads[i].task = c}

MainFinds ==
  /\ At(MAIN, "idle") /\ requests[MAIN] # <<>>
  /\ Goes(MAIN, IF Mine(Request(MAIN).from) = {} THEN "add" ELSE "forward")
  /\ UNCHANGED <<threads, locks, started, buffer, requests, reply, clients, delivered>>

\* The thread's number is not known yet when the entry is linked.
MainAdds ==
  /\ At(MAIN, "add") /\ threads_mutex = NONE
  /\ threads_mutex' = MAIN
  /\ threads' = Append(threads, [task |-> Request(MAIN).from, thread |-> 0])
  /\ Goes(MAIN, "start")
  /\ UNCHANGED <<kbd_mutex, stdin_read, started, buffer, requests, reply, clients, delivered>>

\* Faulty: the mutex is given back before the thread is started and known.
GivenBackEarly == threads_mutex' = NONE
StillHeld == UNCHANGED threads_mutex

MainStarts ==
  /\ At(MAIN, "start")
  /\ started' = started + 1
  /\ StillHeld
  /\ pc' = [pc EXCEPT ![MAIN] = "assign", ![started + 1] = "new"]
  /\ UNCHANGED <<threads, kbd_mutex, stdin_read, buffer, requests, reply, clients, delivered>>

MainAssigns ==
  /\ At(MAIN, "assign")
  /\ threads' = [threads EXCEPT ![Len(threads)].thread = started]
  /\ threads_mutex' = NONE
  /\ Goes(MAIN, "forward")
  /\ UNCHANGED <<kbd_mutex, stdin_read, started, buffer, requests, reply, clients, delivered>>

MainForwards ==
  LET c == Request(MAIN).from
      th == threads[CHOOSE i \in Mine(c) : \A j \in Mine(c) : i <= j].thread
  IN /\ At(MAIN, "forward")
     /\ requests' = [requests EXCEPT ![MAIN] = Tail(@),
                                     ![th] = Append(@, [from |-> c, length |-> 0])]
     /\ Goes(MAIN, "idle")
     /\ UNCHANGED <<threads, locks, started, buffer, reply, clients, delivered>>

-----------------------------------------------------------------------------
(* The keyboard thread, once it has a character *)

\* Numbered from 1, every third a backspace; it waits for the mutex here.
Type ==
  /\ At(KEYBOARD, "idle") /\ count < TYPED /\ kbd_mutex = NONE
  /\ kbd_mutex' = KEYBOARD /\ count' = count + 1
  /\ Goes(KEYBOARD, "put")
  /\ UNCHANGED <<threads, threads_mutex, stdin_read, started, kbd_buffer, requests, reply, clients, delivered>>

Character == IF count % 3 = 0 THEN Backspace ELSE count

\* Faulty: the last place, too, is used.
RoomToTheEnd == Len(kbd_buffer) < BUFFER
Room == Len(kbd_buffer) < BUFFER - 1

Put ==
  /\ At(KEYBOARD, "put") /\ Room
  /\ kbd_buffer' = Append(kbd_buffer, Character)
  /\ kbd_mutex' = NONE /\ Goes(KEYBOARD, "idle")
  /\ UNCHANGED <<threads, threads_mutex, stdin_read, started, count, requests, reply, clients, delivered>>

\* A full buffer drops the character, and keeps the mutex.
Drop ==
  /\ At(KEYBOARD, "put") /\ ~Room
  /\ Goes(KEYBOARD, "idle")
  /\ UNCHANGED <<threads, locks, started, buffer, requests, reply, clients, delivered>>

-----------------------------------------------------------------------------
(* A stdin thread *)

ThreadLooks(t) ==
  /\ At(t, "new") /\ threads_mutex = NONE
  /\ Goes(t, IF \E i \in DOMAIN threads : threads[i].thread = t THEN "idle" ELSE "over")
  /\ UNCHANGED <<threads, locks, started, buffer, requests, reply, clients, delivered>>

Answer(t) ==
  /\ requests' = [requests EXCEPT ![t] = Tail(@)]
  /\ waiting' = waiting \ {Request(t).from}
  /\ Goes(t, "idle")

AnswerResolve(t) ==
  /\ At(t, "idle") /\ requests[t] # <<>> /\ Request(t).length = 0
  /\ Answer(t)
  /\ server' = [server EXCEPT ![Request(t).from] = t]
  /\ UNCHANGED <<threads, locks, started, buffer, reply, asked, delivered>>

\* Faulty: reads of two programs are not kept apart.
ReadAnyway(t) == stdin_read' = t
ReadLocked(t) == stdin_read = NONE /\ stdin_read' = t

ReadStarts(t) ==
  /\ At(t, "idle") /\ requests[t] # <<>> /\ Request(t).length > 0
  /\ ReadLocked(t)
  /\ reply' = [reply EXCEPT ![t] = <<>>]
  /\ Goes(t, "await")
  /\ UNCHANGED <<threads, threads_mutex, kbd_mutex, started, buffer, requests, clients, delivered>>

\* kbd_pointer is polled without the mutex, then the mutex is taken.
ReadAwaits(t) ==
  /\ At(t, "await") /\ kbd_buffer # <<>>
  /\ Goes(t, "lock")
  /\ UNCHANGED <<threads, locks, started, buffer, requests, reply, clients, delivered>>

ReadLocks(t) ==
  /\ At(t, "lock") /\ kbd_mutex = NONE /\ kbd_mutex' = t
  /\ Goes(t, "take")
  /\ UNCHANGED <<threads, threads_mutex, stdin_read, started, buffer, requests, reply, clients, delivered>>

\* One character, for a read of one: backspaces too.  Faulty: the rest is thrown
\* away with it.
RestCleared == <<>>
Rest == IF kbd_buffer = <<>> THEN <<>> ELSE Tail(kbd_buffer)
First == IF kbd_buffer = <<>> THEN 0 ELSE Head(kbd_buffer)

TakeOne(t) ==
  /\ At(t, "take") /\ Request(t).length = 1
  /\ reply' = [reply EXCEPT ![t] = <<First>>]
  /\ kbd_buffer' = Rest
  /\ kbd_mutex' = NONE /\ Goes(t, "finish")
  /\ UNCHANGED <<threads, threads_mutex, stdin_read, started, count, requests, clients, delivered>>

\* All that is there, for a longer read: a backspace takes back what came
\* before it.  Faulty: it also takes back one from in front of the line.
EditedBelow(line, ch) ==
  IF ch # Backspace THEN Append(line, ch)
  ELSE IF line = <<>> THEN <<Backspace>> ELSE SubSeq(line, 1, Len(line) - 1)
Edited(line, ch) ==
  IF ch # Backspace THEN Append(line, ch)
  ELSE IF line = <<>> THEN <<>> ELSE SubSeq(line, 1, Len(line) - 1)
Gathered(line) ==
  LET after[i \in 0..Len(kbd_buffer)] ==
        IF i = 0 THEN line ELSE Edited(after[i - 1], kbd_buffer[i])
  IN after[Len(kbd_buffer)]

\* The reply is as long as was asked.  What was typed beyond that is written behind
\* it, over what is next in the terminal's heap, and reaches nobody.
Fitting(line, length) == IF Len(line) > length THEN SubSeq(line, 1, length) ELSE line

TakeAll(t) ==
  /\ At(t, "take") /\ Request(t).length > 1
  /\ reply' = [reply EXCEPT ![t] = Fitting(Gathered(@), Request(t).length)]
  /\ kbd_buffer' = <<>>
  /\ kbd_mutex' = NONE
  /\ Goes(t, IF Len(Gathered(reply[t])) < Request(t).length THEN "await" ELSE "finish")
  /\ UNCHANGED <<threads, threads_mutex, stdin_read, started, count, requests, clients, delivered>>

ReadUnlocks(t) ==
  /\ At(t, "finish")
  /\ stdin_read' = NONE
  /\ delivered' = delivered \o reply[t]
  /\ Goes(t, "answer")
  /\ UNCHANGED <<threads, threads_mutex, kbd_mutex, started, buffer, requests, reply, clients>>

AnswerRead(t) ==
  /\ At(t, "answer")
  /\ Answer(t)
  /\ UNCHANGED <<threads, locks, started, buffer, reply, server, asked, delivered>>

\* main has started one thread already, which finds itself in no list.
Init == /\ threads = <<>> /\ threads_mutex = NONE
        /\ kbd_mutex = NONE /\ stdin_read = NONE
        /\ started = 1
        /\ kbd_buffer = <<>> /\ count = 0
        /\ pc = [p \in Process |-> CASE p = 1 -> "new" [] p \in Thread \ {1} -> "unborn" [] OTHER -> "idle"]
        /\ requests = [p \in Thread \cup {MAIN} |-> <<>>]
        /\ reply = [t \in Thread |-> <<>>]
        /\ server = [c \in Client |-> NONE]
        /\ asked = [c \in Client |-> 0]
        /\ waiting = {} /\ delivered = <<>>

MainStep == MainFinds \/ MainAdds \/ MainStarts \/ MainAssigns \/ MainForwards
KeyboardStep == Put \/ Drop
ThreadStep(t) ==
  \/ ThreadLooks(t) \/ AnswerResolve(t) \/ ReadStarts(t) \/ ReadAwaits(t)
  \/ ReadLocks(t) \/ TakeOne(t) \/ TakeAll(t) \/ ReadUnlocks(t) \/ AnswerRead(t)
Next == \/ \E c \in Client : Resolve(c)
        \/ \E c \in Client, length \in Lengths : Read(c, length)
        \/ MainStep
        \/ Type
        \/ KeyboardStep
        \/ \E t \in Thread : ThreadStep(t)

\* Threads are scheduled in turn; strong fairness also for who takes a mutex,
\* which the xchg loop of lock does not itself promise.
Fairness == /\ SF_vars(MainStep) /\ WF_vars(KeyboardStep)
            /\ \A t \in Thread : SF_vars(ThreadStep(t))
Spec == Init /\ [][Next]_vars
FairSpec == Spec /\ Fairness

-----------------------------------------------------------------------------
(* Properties *)

TypeOK ==
  /\ threads \in Seq([task : Client, thread : 0..Cardinality(Thread)])
  /\ threads_mutex \in {NONE, MAIN}
  /\ kbd_mutex \in {NONE, KEYBOARD} \cup Thread /\ stdin_read \in {NONE} \cup Thread
  /\ started \in Thread /\ count \in 0..TYPED
  /\ Len(kbd_buffer) < BUFFER
  /\ waiting \subseteq Client

\* A thread a program is sent to is, or will be, in its loop: it never returns
\* because it did not find itself in the list (tty.cpp:341-352, 509-518).
NotOrphaned ==
  /\ \A t \in Thread : At(t, "over") => requests[t] = <<>>
  /\ \A i \in DOMAIN threads : threads[i].thread # 0 => ~At(threads[i].thread, "over")

\* Programs that read one character at a time get what was typed, in the order
\* it was typed and nothing twice, however many of them read (tty.cpp:383-421).
InOrder ==
  Lengths = {1} =>
    \A i, j \in 1..Len(delivered) :
      i < j /\ delivered[i] # Backspace /\ delivered[j] # Backspace
        => delivered[i] < delivered[j]

\* Nothing typed gets lost while one character is read at a time: what is read,
\* gathered and waiting adds up to what was typed.
NothingLost ==
  Lengths = {1} /\ Len(kbd_buffer) < BUFFER - 1 =>
    LET gathered == {t \in Thread : At(t, "finish")}
        pending == IF At(KEYBOARD, "put") THEN 1 ELSE 0
    IN Len(delivered) + Cardinality(gathered) + Len(kbd_buffer) + pending = count

\* A line that is read ends without any backspace left in it (tty.cpp:399-405).
LinesEdited ==
  \A t \in Thread : ~At(t, "idle") /\ requests[t] # <<>> /\ Request(t).length > 1 =>
    \A i \in DOMAIN reply[t] : reply[t][i] # Backspace

\* "foRead (reply): d = data" (servers/include/file.h:26): while there are
\* characters in the buffer, a thread that waits for one gets to read.
ReadsGetData ==
  \A t \in Thread : At(t, "lock") ~> At(t, "finish") \/ kbd_buffer = <<>>

\* Every resolve of the standard input is answered.
ResolveAnswered == \A c \in Client : c \in waiting /\ server[c] = NONE ~> server[c] # NONE
=============================================================================
