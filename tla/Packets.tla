------------------------------- MODULE Packets -------------------------------
(***************************************************************************)
(* The packets between the debugger's stub, hal/gdb-stub.c, and its host    *)
(* over a serial line that loses and garbles characters.  A packet is       *)
(*   $ data # sum                                                           *)
(* and is answered by + or -.  The stub answers a command with a packet it  *)
(* repeats at every character but +; after one that lets the program go     *)
(* that is the packet that tells of its next exception.  The host,          *)
(* external, sends a command again when no + comes, asks for a reply again  *)
(* when none comes, and takes a packet that comes instead of a + for an old *)
(* reply, which it confirms.  A character is a number; BASE stands for the  *)
(* 16 of the digits.                                                        *)
(***************************************************************************)
EXTENDS Integers, Sequences, SequencesExt

CONSTANTS
  BASE,      \* digits of the checksum
  BUFMAX,    \* size of the stub's buffers
  Commands,  \* what the host asks, in order: [id : two characters or none, data]
  Going,     \* the data of those that let the program go: c, s
  STOP,      \* the packet that tells the host of an exception
  FAULTS,    \* bound on characters lost or garbled
  GARBLES,   \* whether characters are garbled too
  LINE       \* bound on the characters on their way to the host

Dollar == BASE
Hash == BASE + 1
Plus == BASE + 2
Minus == BASE + 3
Colon == BASE + 4
Character == 0..Colon
NUL == -1

Code(c) == c + 1
Hex(c) == IF c < BASE THEN c ELSE -1
SUMS == BASE * BASE

PacketsAssumption ==
  /\ BASE \in Nat /\ BUFMAX \in Nat /\ FAULTS \in Nat /\ LINE \in Nat /\ GARBLES \in BOOLEAN
  /\ \A k \in DOMAIN Commands : Commands[k].data \in Seq((0..(BASE - 1)) \cup {Colon})
  /\ Going \subseteq {Commands[k].data : k \in DOMAIN Commands}
  /\ Code(Colon) < SUMS

VARIABLES
  toStub, toHost,  \* characters on their way
  stub,            \* "get" a packet, "put" one until + comes, "run": the program
  in,              \* the stub's remcomInBuffer and how far getpacket is in it
  out,             \* the stub's remcomOutBuffer
  host,            \* "ack": waits for +, "reply": waits for a packet
  hin,             \* the host's buffer
  asked,           \* commands sent
  answers,         \* replies the host has taken
  executed,        \* history: commands the stub has executed, without repetitions
  faults,          \* characters lost or garbled
  hurt             \* since the host last spoke up

vars == <<toStub, toHost, stub, in, out, host, hin, asked, answers, executed, faults, hurt>>
stubVars == <<stub, in, out, executed>>
hostVars == <<host, hin, asked, answers>>

-----------------------------------------------------------------------------
(* Packets *)

SumOf(data) == FoldLeft(LAMBDA sum, c : (sum + Code(c)) % SUMS, 0, data)

Frame(data) ==
  <<Dollar>> \o data \o <<Hash, SumOf(data) \div BASE, SumOf(data) % BASE>>

Empty == [at |-> "skip", sum |-> 0, given |-> 0, count |-> 0,
          buffer |-> [k \in 1..BUFMAX |-> NUL]]

Restart(p) == [p EXCEPT !.at = "data", !.sum = 0, !.count = 0]

\* Faulty: a packet may fill the buffer to its end.
FilledOver(n) == n = BUFMAX
Filled(n) == n = BUFMAX - 1

\* One more character of data; a packet that fills the buffer is dropped.
Stored(p, c) ==
  LET n == p.count + 1
  IN [p EXCEPT !.sum = (@ + Code(c)) % SUMS, !.count = n,
               !.at = IF Filled(n) THEN "skip" ELSE "data",
               !.buffer = [@ EXCEPT ![n] = c]]

Parsed(p, c) ==
  CASE p.at = "skip" -> IF c = Dollar THEN Restart(p) ELSE p
    [] p.at = "data" /\ c = Dollar -> Restart(p)
    [] p.at = "data" /\ c = Hash ->
         [p EXCEPT !.at = "hi", !.buffer = [@ EXCEPT ![p.count + 1] = NUL]]
    [] p.at = "data" -> Stored(p, c)
    [] p.at = "hi" -> [p EXCEPT !.at = "lo", !.given = Hex(c) * BASE]
    [] p.at = "lo" -> [p EXCEPT !.at = "skip", !.given = (@ + Hex(c)) % SUMS]

Complete(p) == p.at = "lo"
\* Faulty: the high digit is not looked at.
SumsNearly(p, c) == (Parsed(p, c).given - p.sum) % BASE = 0
SumsAgree(p, c) == Parsed(p, c).given = p.sum

\* The characters from the k-th to the end of the string.
StringAt(buffer, k) ==
  LET ends == {n \in k..BUFMAX : buffer[n] = NUL}
      end == CHOOSE n \in ends : \A m \in ends : n <= m
  IN SubSeq(buffer, k, end - 1)
Numbered(buffer) == buffer[3] = Colon
CommandIn(buffer) == IF Numbered(buffer) THEN StringAt(buffer, 4) ELSE StringAt(buffer, 1)
Sequence(buffer) == IF Numbered(buffer) THEN SelectSeq(SubSeq(buffer, 1, 2), LAMBDA c : c # NUL)
                    ELSE <<>>

-----------------------------------------------------------------------------
(* The stub *)

\* What a command is answered with, at once or when the program has stopped again:
\* the stub's work is abstracted to an echo.
Reply(data) == IF data \in Going THEN STOP ELSE data

Room == Len(toHost) <= LINE

Put(data, before) == stub' = "put" /\ out' = data /\ toHost' = before \o Frame(data)

\* getpacket reads a character, the last of a command has it executed.
GetChar ==
  LET c == Head(toStub)
      data == CommandIn(in.buffer)
  IN /\ stub = "get" /\ toStub # <<>> /\ Room
     /\ toStub' = Tail(toStub)
     /\ in' = Parsed(in, c)
     /\ IF Complete(in) /\ SumsAgree(in, c)
        THEN /\ LET taken == toHost \o <<Plus>> \o Sequence(in.buffer)
                IN IF data \in Going
                   THEN stub' = "run" /\ toHost' = taken /\ out' = out
                   ELSE Put(Reply(data), taken)
             /\ executed' = IF executed # <<>> /\ executed[Len(executed)] = data
                            THEN executed ELSE Append(executed, data)
        ELSE /\ toHost' = IF Complete(in) THEN Append(toHost, Minus) ELSE toHost
             /\ UNCHANGED <<stub, out, executed>>
     /\ UNCHANGED <<hostVars, faults, hurt>>

\* The program that was let go stops: handle_exception tells the host.
Stop ==
  /\ stub = "run" /\ Room
  /\ Put(STOP, toHost)
  /\ UNCHANGED <<toStub, in, executed, hostVars, faults, hurt>>

\* Faulty: no reply is sent twice.
ConfirmedAtOnce(c) == TRUE
Confirmed(c) == c = Plus

\* putpacket reads a character.
PutWait ==
  LET c == Head(toStub)
  IN /\ stub = "put" /\ toStub # <<>> /\ Room
     /\ toStub' = Tail(toStub)
     /\ IF Confirmed(c) THEN stub' = "get" /\ toHost' = toHost
        ELSE stub' = "put" /\ toHost' = toHost \o Frame(out)
     /\ UNCHANGED <<in, out, executed, hostVars, faults, hurt>>

-----------------------------------------------------------------------------
(* The host and the line *)

Wire(k) ==
  LET c == Commands[k]
  IN Frame((IF c.id = <<>> THEN <<>> ELSE Append(c.id, Colon)) \o c.data)

Ask ==
  /\ host = "idle" /\ asked < Len(Commands)
  /\ asked' = asked + 1
  /\ toStub' = toStub \o Wire(asked + 1)
  /\ host' = "ack" /\ hin' = Empty /\ hurt' = FALSE
  /\ UNCHANGED <<toHost, answers, stubVars, faults>>

HostRead ==
  LET c == Head(toHost)
  IN /\ toHost # <<>>
     /\ toHost' = Tail(toHost)
     /\ hin' = Parsed(hin, c)
     /\ CASE Complete(hin) /\ host = "ack" ->
               toStub' = Append(toStub, Plus) /\ UNCHANGED <<host, answers>>
          [] Complete(hin) /\ host = "reply" /\ SumsAgree(hin, c) ->
               /\ toStub' = Append(toStub, Plus) /\ host' = "idle"
               /\ answers' = Append(answers, StringAt(hin.buffer, 1))
          [] Complete(hin) /\ host = "reply" /\ ~SumsAgree(hin, c) ->
               toStub' = Append(toStub, Minus) /\ UNCHANGED <<host, answers>>
          [] hin.at = "skip" /\ host = "ack" /\ c = Plus ->
               host' = "reply" /\ UNCHANGED <<toStub, answers>>
          [] hin.at = "skip" /\ host = "ack" /\ c = Minus ->
               toStub' = toStub \o Wire(asked) /\ UNCHANGED <<host, answers>>
          [] OTHER -> UNCHANGED <<toStub, host, answers>>
     /\ UNCHANGED <<asked, stubVars, faults, hurt>>

\* The host loses patience, long after the line has fallen silent; it waits for a
\* program that runs as long as that takes.
Timeout ==
  /\ toHost = <<>> /\ toStub = <<>>
  /\ hin' = Empty /\ hurt' = FALSE
  /\ \/ host = "ack" /\ toStub' = toStub \o Wire(asked)
     \/ host = "reply" /\ stub # "run" /\ toStub' = Append(toStub, Minus)
  /\ UNCHANGED <<toHost, host, asked, answers, stubVars, faults>>

\* The next character to arrive is lost, or becomes another.
Disturbed(line) ==
  {Tail(line)} \cup
  {<<c>> \o Tail(line) : c \in IF GARBLES THEN Character \ {Head(line)} ELSE {}}
Disturb ==
  /\ faults < FAULTS /\ ~hurt /\ faults' = faults + 1 /\ hurt' = TRUE
  /\ \/ toStub # <<>> /\ toStub' \in Disturbed(toStub) /\ toHost' = toHost
     \/ toHost # <<>> /\ toHost' \in Disturbed(toHost) /\ toStub' = toStub
  /\ UNCHANGED <<stubVars, hostVars>>

\* An exception has stopped the program that the host had let go.
Init ==
  /\ toStub = <<>> /\ toHost = Frame(STOP)
  /\ stub = "put" /\ in = Empty /\ out = STOP
  /\ host = "reply" /\ hin = Empty /\ asked = 0
  /\ answers = <<>> /\ executed = <<>> /\ faults = 0 /\ hurt = FALSE

\* All commands are answered: the host has nothing more to say.
Finished == host = "idle" /\ asked = Len(Commands)

Next == GetChar \/ Stop \/ PutWait \/ Ask \/ HostRead \/ Timeout \/ Disturb

Spec == Init /\ [][Next]_vars
LiveSpec == Spec /\ WF_vars(GetChar) /\ WF_vars(Stop) /\ WF_vars(PutWait)
                 /\ WF_vars(Ask) /\ WF_vars(HostRead) /\ WF_vars(Timeout)

-----------------------------------------------------------------------------
(* Properties *)

Parser == [at : {"skip", "data", "hi", "lo"}, sum : 0..(SUMS - 1),
           given : (-SUMS)..SUMS, count : 0..(BUFMAX - 1),
           buffer : [1..BUFMAX -> Character \cup {NUL}]]

TypeOK ==
  /\ toStub \in Seq(Character) /\ toHost \in Seq(Character)
  /\ stub \in {"get", "put", "run"} /\ host \in {"idle", "ack", "reply"}
  /\ in \in Parser /\ hin \in Parser
  /\ asked \in 0..Len(Commands) /\ faults \in 0..FAULTS /\ hurt \in BOOLEAN

Data == [k \in DOMAIN Commands |-> Commands[k].data]

\* However characters are lost and garbled, the stub executes what the host has
\* sent, in the order it was sent, and nothing else: a command may be executed
\* again at once, never mangled, late or left out (gdb-stub.c:458-528).
Intact == executed = SubSeq(Data, 1, Len(executed)) /\ Len(executed) <= asked

\* The n-th reply the host takes is the stub's reply to its n-th command, which of one
\* that lets the program go is the next stop, the one before all being the first stop
\* (gdb-stub.c:530-557, 885-901).
Answered ==
  \A n \in DOMAIN answers : answers[n] = IF n = 1 THEN STOP ELSE Reply(Data[n - 1])

\* "if a sequence char is present, reply the sequence ID" (gdb-stub.c:513): only a
\* command that was sent with a number is taken apart as one, any other is answered
\* for what it is.
NumberedWhenPresent ==
  \A n \in DOMAIN answers :
    n > 1 /\ Commands[n - 1].id = <<>> => answers[n] = Reply(Data[n - 1])

\* Once the line no longer errs, every command is answered: no loss leaves the host
\* and the stub waiting for one another (gdb-stub.c:458-557).
Served == <>(Finished /\ Len(answers) = Len(Commands) + 1)
=============================================================================
