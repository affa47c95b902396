------------------------------- MODULE MCGdb -------------------------------
(***************************************************************************)
(* The debugger's stub.  A part of the run is one component; the parts     *)
(* share no state, so that a behaviour of one of them at a time is all     *)
(* there is to see.                                                        *)
(*   plain:     two commands without a number, the first lets the program  *)
(*              go; characters garbled                                     *)
(*   numbered:  two commands with one, the second lets the program go;     *)
(*              characters lost                                            *)
(*   registers: exceptions of each kind: without an error code, with one,  *)
(*              and with one a memory command of the stub may raise too    *)
(*   memory:    memory commands at four addresses, one of them not mapped  *)
(***************************************************************************)
EXTENDS Integers, Sequences

CONSTANTS Exceptions, Accesses   \* the machine of part "registers", and of "memory"

VARIABLES
  part,
  toStub, toHost, stub, in, out, host, hin, asked, answers, executed, faults, hurt,
                                                                        \* of Packets
  mode, cpu, kstack, registers, report, mem, armed, mem_err, command, done, reply,
  want, stopped, resumed, ran, before, lost                             \* of GdbStub

packetVars == <<toStub, toHost, stub, in, out, host, hin, asked, answers, executed,
                faults, hurt>>
gdbVars == <<mode, cpu, kstack, registers, report, mem, armed, mem_err, command, done,
             reply, want, stopped, resumed, ran, before, lost>>
allVars == <<part, packetVars, gdbVars>>

-----------------------------------------------------------------------------
TwoPlain == <<[id |-> <<>>, data |-> <<0>>], [id |-> <<>>, data |-> <<1, 2, 0>>]>>
TwoNumbered == <<[id |-> <<0, 1>>, data |-> <<2>>], [id |-> <<0, 2>>, data |-> <<0>>]>>

Plain == INSTANCE Packets WITH
  BASE <- 3, BUFMAX <- 5, Commands <- TwoPlain, Going <- {<<0>>}, STOP <- <<2, 2>>,
  FAULTS <- 1, GARBLES <- TRUE, LINE <- 12
Numbered == INSTANCE Packets WITH
  BASE <- 3, BUFMAX <- 7, Commands <- TwoNumbered, Going <- {<<0>>}, STOP <- <<2, 2>>,
  FAULTS <- 2, GARBLES <- FALSE, LINE <- 12

\* A machine m: its program, its memory, and its stack.
Stub(m) == INSTANCE GdbStub WITH
  Ring <- m.rings, Vector <- m.vectors, Pc <- m.pcs, Ax <- m.axs, TOP <- m.top,
  Mapped <- m.mapped, Byte <- m.bytes, DEPTH <- m.depth

MCExceptions == [rings |-> {0, 3}, vectors |-> {3, 12, 14}, pcs |-> {0, 1}, axs |-> {0, 1},
                 top |-> 0, mapped |-> {}, bytes |-> {"b1"}, depth |-> 1]
MCAccesses == [rings |-> {0}, vectors |-> {3, 14}, pcs |-> {0}, axs |-> {0},
               top |-> 3, mapped |-> {0, 1, 3}, bytes |-> {"b1", "b2"}, depth |-> 0]

ASSUME MachinesAssumption ==
       /\ Plain!PacketsAssumption /\ Numbered!PacketsAssumption
       /\ Stub(Exceptions)!GdbStubAssumption /\ Stub(Accesses)!GdbStubAssumption

-----------------------------------------------------------------------------
\* In part "registers" the program may be anywhere.
AllInit ==
  /\ part \in {"plain", "numbered", "registers", "memory"}
  /\ IF part = "numbered" THEN Numbered!Init ELSE Plain!Init
  /\ IF part = "registers" THEN Stub(Exceptions)!Init ELSE Stub(Accesses)!Init

AllNext ==
  /\ \/ part = "plain" /\ Plain!Next /\ UNCHANGED gdbVars
     \/ part = "numbered" /\ Numbered!Next /\ UNCHANGED gdbVars
     \/ part = "registers" /\ Stub(Exceptions)!Next /\ UNCHANGED packetVars
     \/ part = "memory" /\ Stub(Accesses)!Next /\ UNCHANGED packetVars
  /\ UNCHANGED part

\* In part "plain" every read of the stub and of the host ends, a patient host asks
\* on, silence makes it send again, and a program it has let go stops some time.
OfPlain(A) == part = "plain" /\ A /\ UNCHANGED <<part, gdbVars>>
AllSpec == /\ AllInit /\ [][AllNext]_allVars
           /\ WF_allVars(OfPlain(Plain!GetChar)) /\ WF_allVars(OfPlain(Plain!Stop))
           /\ WF_allVars(OfPlain(Plain!PutWait))
           /\ WF_allVars(OfPlain(Plain!Ask)) /\ WF_allVars(OfPlain(Plain!HostRead))
           /\ WF_allVars(OfPlain(Plain!Timeout))

-----------------------------------------------------------------------------
\* However characters are lost, the stub executes what the host has sent, in the
\* order it was sent, and nothing else: a command may be executed again at once,
\* never mangled, late or left out (gdb-stub.c:458-528).  The n-th reply the host
\* takes is the stub's reply to its n-th command, which of one that lets the program
\* go is the next stop, the one before all being the first stop (gdb-stub.c:530-557,
\* 885-901).  A packet without an end does not overrun the buffer.
PacketsSound ==
  IF part = "numbered"
  THEN Numbered!TypeOK /\ Numbered!Intact /\ Numbered!Answered
  ELSE Plain!TypeOK

\* "s  Step one instruction" (gdb-stub.c:66): after one instruction the program
\* stops again, and a program let go with c is never stopped for having been
\* traced before (gdb-stub.c:884-902).  No fault of the program is taken for one of
\* the stub: the handler is set only in a memory command, however the last one ended
\* (gdb-stub.c:222-250, 601-652).
StopsSound ==
  /\ IF part = "registers" THEN Stub(Exceptions)!TypeOK ELSE Stub(Accesses)!TypeOK
  /\ Stub(Exceptions)!StepsOnce /\ Stub(Accesses)!FaultsTold

\* When the program goes on, in whichever ring and after whichever exception, the
\* processor is as it was when it stopped, but for what the host has changed, and for
\* SP of a program of ring 3 if the host has changed that, which is where the stub has
\* saved it (gdb-stub.c:145-172, 264-422).  A memory command that faults half-way says
\* so and has done the part before; one that does not has read or written all of it
\* (gdb-stub.c:832-881).
Transparent == [][/\ Stub(Exceptions)!TransparentStep
                  /\ part = "memory" => Stub(Accesses)!MemoryAsAskedStep]_gdbVars

\* Once the line no longer errs, every command is answered, one that lets the program
\* go by its next stop: no loss leaves the debugger and the stub waiting for one
\* another (gdb-stub.c:458-557, 885-901).
Served == (part = "plain") => Plain!Served
=============================================================================
