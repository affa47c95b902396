------------------------------- MODULE GdbStub -------------------------------
(***************************************************************************)
(* The debugger's stub, hal/gdb-stub.c, between the program and its host:   *)
(* an exception saves the processor in registers, tells the host, and       *)
(* commands read and change registers and memory until one lets the program *)
(* go on.  A memory access of the stub may fault itself.  The packets are   *)
(* module Packets; a command here is what one holds.  The kernel's stack    *)
(* is a sequence of numbers, its top last;  BP, SI, DI and the data         *)
(* segments are saved and restored as AX is.                                *)
(***************************************************************************)
EXTENDS Integers, Sequences, FiniteSets

CONSTANTS
  Ring,      \* the rings the program runs in: 0, 3
  Vector,    \* the exceptions it raises
  Pc,        \* its addresses
  TOP,       \* the last address of memory
  Mapped,    \* the addresses that can be accessed
  Byte, Ax,  \* contents of memory and of a register
  DEPTH      \* bound on the words of the program on a stack

\* set_debug_traps takes these.
Caught == (0..16) \ {2, 15}

GdbStubAssumption ==
  /\ Vector \subseteq Caught \ {1}
  /\ Ring \subseteq {0, 3} /\ Pc \subseteq Nat /\ Ax \subseteq Nat
  /\ TOP \in Nat /\ Mapped \subseteq 0..TOP /\ Byte # {} /\ DEPTH \in Nat
  \* below an exception of ring 3 one word stays on the kernel's stack
  /\ 3 \in Ring => DEPTH > 0

Processor == [ring : Ring, pc : Pc, ax : Ax, tf : {0, 1}, sp : 0..DEPTH]

VARIABLES
  mode,       \* "run": the program, "stub": waiting for a command, "m", "M": in one
  cpu,        \* the processor, while the program runs
  kstack,     \* the kernel's stack below what has been saved
  registers,  \* what the stub has saved
  report,     \* the T packet
  mem,        \* memory
  armed,      \* mem_fault_routine is set
  mem_err,
  command,    \* the memory command in work
  done,       \* bytes of it that are through
  reply,      \* what the host was last told
  want,       \* history: the program, as the host wants it to be
  stopped,    \* history: the program, as it was when it stopped
  resumed,    \* history: how it was let go: "s", "c"
  ran,        \* history: instructions since, at most 2
  before,     \* history: memory when the command began
  lost        \* history: a fault of the program was taken for one of the stub

vars == <<mode, cpu, kstack, registers, report, mem, armed, mem_err, command, done,
          reply, want, stopped, resumed, ran, before, lost>>
progVars == <<cpu, kstack, want, stopped, resumed, ran>>
memVars == <<mem, armed, mem_err, command, done, before>>

-----------------------------------------------------------------------------
(* Exceptions *)

\* The processor pushes an error code for these.
Coded == {8, 10, 11, 12, 13, 14, 17}

\* Faulty: a stack exception is saved as one without a code.
PopsCodeButStack == {8, 10, 11, 13, 14}
PopsCode == {8, 10, 11, 12, 13, 14}
ChecksFault == {11, 13, 14}

Signal(v) ==
  CASE v \in {0, 7} -> 8 [] v \in {1, 3} -> 5 [] v \in {4, 5} -> 16 [] v = 6 -> 4
    [] v \in 9..14 -> 11 [] OTHER -> 7

\* What the processor pushes, the error code on top.
Frame(p, v) ==
  (IF p.ring = 3 THEN <<p.sp>> ELSE <<>>) \o <<p.tf, p.ring, p.pc>>
  \o (IF v \in Coded THEN <<99>> ELSE <<>>)
\* The kernel's stack where an exception begins to push: the program's own words
\* are zeros.
Base(p) == IF p.ring = 3 THEN <<>> ELSE [i \in 1..p.sp |-> 0]

\* SAVE_REGISTERS and SAVE_ERRCODE: the frame is popped from the top.
Saved(p, v, stack) ==
  LET top == IF v \in PopsCode THEN Len(stack) - 1 ELSE Len(stack)
  IN [ring |-> stack[top - 1], pc |-> stack[top], ax |-> p.ax, tf |-> stack[top - 2],
      sp |-> top - 3]

\* The program p raises v.
Raise(p, v) ==
  LET stack == Base(p) \o Frame(p, v)
      saved == Saved(p, v, stack)
  IN /\ kstack' = SubSeq(stack, 1, saved.sp)
     /\ stopped' = p /\ want' = p
     /\ IF armed /\ v \in ChecksFault
        THEN /\ lost' = TRUE /\ armed' = FALSE
             /\ UNCHANGED <<mode, registers, report>>
        ELSE /\ registers' = saved
             /\ report' = [signal |-> Signal(v), pc |-> saved.pc, sp |-> saved.sp]
             /\ mode' = "stub" /\ UNCHANGED <<lost, armed>>
     /\ UNCHANGED <<mem, mem_err, command, done, before, reply, resumed>>

\* An instruction of the program; the processor raises 1 behind it if it traces.
Execute ==
  /\ mode = "run" /\ ~lost
  /\ \E pc \in Pc, ax \in Ax :
       LET p == [cpu EXCEPT !.pc = pc, !.ax = ax]
       IN /\ cpu' = p
          /\ ran' = IF ran = 2 THEN 2 ELSE ran + 1
          /\ IF cpu.tf = 1 THEN Raise(p, 1)
             ELSE UNCHANGED <<mode, kstack, registers, report, mem, armed, mem_err,
                              command, done, reply, want, stopped, resumed, before, lost>>

\* An instruction of the program that raises an exception.
Fault ==
  /\ mode = "run" /\ ~lost
  /\ \E v \in Vector : Raise(cpu, v)
  /\ UNCHANGED <<cpu, ran>>

-----------------------------------------------------------------------------
(* Commands *)

NoCommand == [addr |-> 0, len |-> 0, byte |-> CHOOSE b \in Byte : TRUE]
NoMemory == [a \in {} |-> a]

Answer(r) == reply' = r
Message(m) == [kind |-> m, bytes |-> <<>>]

\* G and P: the host writes registers back, one or more of them changed.  SP of a
\* program of ring 3 is not among them: what the stub has saved is where it lies.
SetRegisters ==
  /\ mode = "stub"
  /\ \E pc \in Pc, ax \in Ax, tf \in {0, 1}, sp \in 0..DEPTH :
       LET new == [registers EXCEPT !.pc = pc, !.ax = ax, !.tf = tf, !.sp = sp]
       IN /\ registers' = new
          /\ want' = [new EXCEPT !.sp = IF want.ring = 0 THEN sp ELSE want.sp]
  /\ Answer(Message("OK"))
  /\ UNCHANGED <<mode, cpu, kstack, report, stopped, resumed, ran, memVars, lost>>

\* ?, g, a command that cannot be parsed, or one the stub does not know.
Tell ==
  /\ mode = "stub"
  /\ \E m \in {"S", "registers", "E01", "E02", "empty"} : Answer(Message(m))
  /\ UNCHANGED <<mode, registers, report, progVars, memVars, lost>>

\* m and M arm the handler of memory faults.
Access ==
  /\ mode = "stub"
  /\ \E op \in {"m", "M"}, addr \in 0..TOP, len \in 0..(TOP + 1), b \in Byte :
       /\ addr + len <= TOP + 1
       /\ command' = [addr |-> addr, len |-> len, byte |-> b]
       /\ mode' = op
  /\ armed' = TRUE /\ mem_err' = FALSE /\ done' = 0 /\ before' = mem
  /\ Answer(Message("empty"))
  /\ UNCHANGED <<mem, registers, report, progVars, lost>>

Address == command.addr + done

\* get_char or set_char, of a byte that is there; the byte the host sends is the
\* same throughout.
AccessByte ==
  /\ mode \in {"m", "M"} /\ ~mem_err /\ done < command.len /\ Address \in Mapped
  /\ done' = done + 1
  /\ IF mode = "m"
     THEN /\ reply' = [reply EXCEPT !.bytes = Append(@, mem[Address])]
          /\ mem' = mem
     ELSE mem' = [mem EXCEPT ![Address] = command.byte] /\ reply' = reply
  /\ UNCHANGED <<mode, registers, report, armed, mem_err, command, before, progVars, lost>>

\* Faulty: the handler stays set.
StillArmed == TRUE
Disarmed == FALSE

\* It is not there: mem_fault goes on in set_mem_err.
AccessFault ==
  /\ mode \in {"m", "M"} /\ ~mem_err /\ done < command.len /\ Address \notin Mapped
  /\ mem_err' = TRUE /\ armed' = Disarmed
  /\ UNCHANGED <<mode, registers, report, mem, command, done, before, reply, progVars, lost>>

\* Faulty: what was read before the fault is the reply.
FinishedRead == IF mode = "M" THEN Message("OK")
                ELSE [reply EXCEPT !.kind = "data"]
Finished ==
  CASE mem_err -> Message("E03")
    [] ~mem_err /\ mode = "M" -> Message("OK")
    [] ~mem_err /\ mode = "m" -> [reply EXCEPT !.kind = "data"]

AccessDone ==
  /\ mode \in {"m", "M"} /\ (mem_err \/ done = command.len)
  /\ Answer(Finished)
  /\ armed' = (armed /\ mem_err)
  /\ mode' = "stub"
  /\ command' = NoCommand /\ done' = 0 /\ before' = NoMemory
  /\ UNCHANGED <<registers, report, mem, mem_err, progVars, lost>>

\* Faulty: the trace bit the program had is kept.
TracedStill(how, tf) == IF how = "s" THEN 1 ELSE tf
Traced(how, tf) == IF how = "s" THEN 1 ELSE 0

\* What iret makes SP: return_to_prog pushes flags, CS and IP where SP was, and a
\* return to ring 3 pops the word that lies there; beyond what the exception has
\* pushed that is any.
Restored(r) ==
  CASE r.ring = 0 -> {r.sp}
    [] r.ring = 3 /\ r.sp \in DOMAIN kstack -> {kstack[r.sp]}
    [] r.ring = 3 /\ r.sp \notin DOMAIN kstack -> 0..DEPTH

Resume ==
  /\ mode = "stub"
  /\ \E how \in {"s", "c"}, pc \in Pc \cup {registers.pc} :
       LET r == [registers EXCEPT !.pc = pc, !.tf = Traced(how, registers.tf)]
       IN /\ registers' = r
          /\ \E sp \in Restored(r) : cpu' = [r EXCEPT !.sp = sp]
          /\ kstack' = <<>>
          /\ want' = [want EXCEPT !.pc = pc, !.tf = IF how = "s" THEN 1 ELSE 0]
          /\ resumed' = how
  /\ ran' = 0 /\ mode' = "run"
  /\ Answer(Message("empty"))
  /\ UNCHANGED <<report, stopped, memVars, lost>>

Init ==
  /\ mode = "run" /\ cpu \in {p \in Processor : p.tf = 0}
  /\ kstack = <<>>
  /\ registers = cpu /\ want = cpu /\ stopped = cpu
  /\ report = [signal |-> 0, pc |-> cpu.pc, sp |-> cpu.sp]
  /\ mem = [a \in Mapped |-> CHOOSE b \in Byte : TRUE] /\ before = NoMemory
  /\ armed = FALSE /\ mem_err = FALSE /\ command = NoCommand /\ done = 0
  /\ reply = Message("empty") /\ resumed = "c" /\ ran = 0 /\ lost = FALSE

Next == \/ Execute \/ Fault
        \/ SetRegisters \/ Tell \/ Access \/ AccessByte \/ AccessFault \/ AccessDone
        \/ Resume

Spec == Init /\ [][Next]_vars

-----------------------------------------------------------------------------
(* Properties *)

TypeOK ==
  /\ mode \in {"run", "stub", "m", "M"} /\ cpu \in Processor /\ want \in Processor
  /\ registers \in [ring : Ring, pc : Pc, ax : Ax, tf : {0, 1}, sp : 0..DEPTH]
  /\ mem \in [Mapped -> Byte] /\ done \in 0..(TOP + 1) /\ ran \in 0..2

\* The host has moved SP of a program of ring 3, and with it where its SP is sought.
Misplaced == want.ring = 3 /\ registers.sp # report.sp

\* When the program goes on, in whichever ring and after whichever exception, the
\* processor is as it was when it stopped, but for what the host has changed, and
\* for SP of a program of ring 3 if the host has changed that
\* (gdb-stub.c:145-172, 264-422).
TransparentStep ==
  mode = "stub" /\ mode' = "run" =>
    cpu' = IF Misplaced THEN [want' EXCEPT !.sp = cpu'.sp] ELSE want'

\* "s  Step one instruction" (gdb-stub.c:66): after one instruction the program
\* stops again, and a program let go with c is never stopped for having been
\* traced before (gdb-stub.c:884-902).
StepsOnce ==
  /\ mode = "run" /\ resumed = "s" => ran = 0
  /\ mode = "run" /\ resumed = "c" => cpu.tf = 0

\* No fault of the program is taken for one of the stub: the handler is set only in
\* a memory command, however the last one ended (gdb-stub.c:222-250, 601-652).
FaultsTold == ~lost /\ (mode \in {"run", "stub"} => ~armed)

Asked == command.addr..(command.addr + command.len - 1)
Reached == {a \in Asked : command.addr..a \subseteq Mapped}

AsWritten == [a \in Mapped |-> IF a \in Reached THEN command.byte ELSE before[a]]
AsTold ==
  CASE ~(Asked \subseteq Mapped) -> Message("E03")
    [] Asked \subseteq Mapped /\ mode = "M" -> Message("OK")
    [] Asked \subseteq Mapped /\ mode = "m" ->
         [kind |-> "data", bytes |-> [k \in 1..command.len |-> before[command.addr + k - 1]]]

\* A memory command that faults half-way says so and has done the part before; one
\* that does not has read or written all of it (gdb-stub.c:832-881).
MemoryAsAskedStep ==
  mode' = "stub" /\ mode \in {"m", "M"} =>
    reply' = AsTold /\ mem' = IF mode = "m" THEN before ELSE AsWritten

\* "notify gdb with signo, PC, FP and SP" (gdb-stub.c:766): they are the program's.
Reported == mode = "stub" => report.pc = stopped.pc /\ report.sp = stopped.sp
=============================================================================
