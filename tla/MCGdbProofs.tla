---------------------------- MODULE MCGdbProofs ----------------------------
(***************************************************************************)
(* Proofs about the debugger's stub, for any machine: any rings, addresses, *)
(* exceptions and memory.  A stopped program is kept as it was but for what *)
(* the host changes, it is traced for exactly the instruction the host asks *)
(* for, and a memory command does what it says it has done.                 *)
(***************************************************************************)
EXTENDS MCGdb, SequenceTheorems, TLAPS

-----------------------------------------------------------------------------
(* What an exception pushes *)

\* Two parts make a whole.
Whole(a, b, c) ==
  /\ c \in Seq(Int) /\ Len(c) = Len(a) + Len(b)
  /\ \A i \in 1..(Len(a) + Len(b)) : c[i] = IF i <= Len(a) THEN a[i] ELSE b[i - Len(a)]

LEMMA TwoParts ==
  ASSUME NEW a \in Seq(Int), NEW b \in Seq(Int), NEW c, c = a \o b PROVE Whole(a, b, c)
BY ConcatProperties DEF Whole

\* Four parts of a stack, and where the second and the third lie in it.
LaidOut(b, h, f, e, s) ==
  /\ s \in Seq(Int) /\ Len(s) = Len(b) + Len(h) + Len(f) + Len(e)
  /\ \A i \in 1..Len(h) : s[Len(b) + i] = h[i]
  /\ \A i \in 1..Len(f) : s[Len(b) + Len(h) + i] = f[i]

LEMMA Stacked ==
  ASSUME NEW b \in Seq(Int), NEW h \in Seq(Int), NEW f \in Seq(Int), NEW e \in Seq(Int),
         NEW s, s = b \o ((h \o f) \o e)
  PROVE  LaidOut(b, h, f, e, s)
<1>1. PICK u : u = h \o f
  OBVIOUS
<1>2. PICK v : v = u \o e
  OBVIOUS
<1>3. /\ u \in Seq(Int) /\ Len(u) = Len(h) + Len(f)
      /\ \A i \in 1..(Len(h) + Len(f)) : u[i] = IF i <= Len(h) THEN h[i] ELSE f[i - Len(h)]
  BY <1>1, TwoParts DEF Whole
<1>4. /\ v \in Seq(Int) /\ Len(v) = Len(u) + Len(e)
      /\ \A i \in 1..(Len(u) + Len(e)) : v[i] = IF i <= Len(u) THEN u[i] ELSE e[i - Len(u)]
  <2>1. u \in Seq(Int)
    BY <1>3
  <2> QED BY <1>2, <2>1, TwoParts DEF Whole
<1>5. s = b \o v
  BY <1>1, <1>2
<1>6. /\ s \in Seq(Int) /\ Len(s) = Len(b) + Len(v)
      /\ \A i \in 1..(Len(b) + Len(v)) : s[i] = IF i <= Len(b) THEN b[i] ELSE v[i - Len(b)]
  <2>1. v \in Seq(Int)
    BY <1>4
  <2> QED BY <1>5, <2>1, TwoParts DEF Whole
<1>7. Len(b) \in Nat /\ Len(h) \in Nat /\ Len(f) \in Nat /\ Len(e) \in Nat
  OBVIOUS
<1>8. ASSUME NEW i \in 1..(Len(h) + Len(f)) PROVE s[Len(b) + i] = u[i]
  <2>1. PICK j : j = Len(b) + i
    OBVIOUS
  <2>2. /\ j \in 1..(Len(b) + Len(v)) /\ ~(j <= Len(b)) /\ j - Len(b) = i
        /\ i \in 1..(Len(u) + Len(e)) /\ i <= Len(u)
    <3>1. Len(v) = Len(h) + Len(f) + Len(e) /\ Len(u) = Len(h) + Len(f)
      BY <1>3, <1>4
    <3> QED BY <1>7, <2>1, <3>1
  <2>3. s[j] = v[i]
    BY <1>6, <2>2
  <2>4. v[i] = u[i]
    BY <1>4, <2>2
  <2> QED BY <2>1, <2>3, <2>4
<1>9. ASSUME NEW i \in 1..Len(h) PROVE s[Len(b) + i] = h[i]
  <2>1. i \in 1..(Len(h) + Len(f)) /\ i <= Len(h)
    BY <1>7
  <2> QED BY <1>3, <1>8, <2>1
<1>10. ASSUME NEW i \in 1..Len(f) PROVE s[Len(b) + Len(h) + i] = f[i]
  <2>1. PICK j \in 1..(Len(h) + Len(f)) : j = Len(h) + i /\ ~(j <= Len(h)) /\ j - Len(h) = i
    <3>1. PICK j : j = Len(h) + i
      OBVIOUS
    <3>2. j \in 1..(Len(h) + Len(f)) /\ ~(j <= Len(h)) /\ j - Len(h) = i
      BY <1>7, <3>1
    <3> QED BY <3>1, <3>2
  <2>2. Len(b) + Len(h) + i = Len(b) + j
    BY <1>7, <2>1
  <2> QED BY <1>3, <1>8, <2>1, <2>2
<1>11. Len(s) = Len(b) + Len(h) + Len(f) + Len(e)
  BY <1>3, <1>4, <1>6, <1>7
<1> QED BY <1>6, <1>9, <1>10, <1>11 DEF LaidOut

Machine(m) == Stub(m)!GdbStubAssumption

\* A program that stops is saved as it was, its stack pointer where its ring keeps it,
\* which the host is told.
SavedAs(r, p, stack, t) ==
  /\ r.ring = p.ring /\ r.pc = p.pc /\ r.ax = p.ax /\ r.tf = p.tf
  /\ p.ring = 3 => t.sp = 1 /\ DOMAIN stack = {1} /\ stack[1] = p.sp
  /\ p.ring = 0 => r.sp = p.sp

LEMMA RaiseSaves ==
  ASSUME NEW m, Machine(m), NEW p \in Stub(m)!Processor, NEW v \in Stub(m)!Caught,
         armed = FALSE, Stub(m)!Raise(p, v)
  PROVE  /\ mode' = "stub" /\ want' = p /\ SavedAs(registers', p, kstack', report')
         /\ registers' \in Stub(m)!Processor
         /\ UNCHANGED <<mem, mem_err, command, done, before, reply, resumed, lost, armed>>
<1>1. /\ p.ring \in m.rings /\ p.pc \in m.pcs /\ p.ax \in m.axs /\ p.tf \in {0, 1}
      /\ p.sp \in 0..m.depth
  BY DEF Stub!Processor
<1>2. /\ m.rings \subseteq {0, 3} /\ m.pcs \subseteq Nat /\ m.depth \in Nat
      /\ (3 \in m.rings => m.depth > 0)
  BY DEF Machine, Stub!GdbStubAssumption
<1>3. /\ p.ring \in {0, 3} /\ p.pc \in Int /\ p.tf \in Int /\ p.sp \in Nat /\ p.sp \in Int
      /\ (p.ring = 3 => m.depth \in Nat \ {0})
  BY <1>1, <1>2
<1>4. v \in Stub(m)!Coded <=> v \in Stub(m)!PopsCode
  BY DEF Stub!Coded, Stub!PopsCode, Stub!Caught
<1>5. PICK b : b = Stub(m)!Base(p)
  OBVIOUS
<1>6. PICK h : h = IF p.ring = 3 THEN <<p.sp>> ELSE <<>>
  OBVIOUS
<1>7. PICK f : f = <<p.tf, p.ring, p.pc>>
  OBVIOUS
<1>8. PICK e : e = IF v \in Stub(m)!PopsCode THEN <<99>> ELSE <<>>
  OBVIOUS
<1>9. PICK s : s = b \o ((h \o f) \o e)
  OBVIOUS
<1>10. s = Stub(m)!Base(p) \o Stub(m)!Frame(p, v)
  BY <1>4, <1>5, <1>6, <1>7, <1>8, <1>9 DEF Stub!Frame
<1>11. b \in Seq(Int) /\ Len(b) = IF p.ring = 3 THEN 0 ELSE p.sp
  <2>1. CASE p.ring = 3
    BY <1>5, <2>1 DEF Stub!Base
  <2>2. CASE p.ring # 3
    <3>1. b = [i \in 1..p.sp |-> 0]
      BY <1>5, <2>2 DEF Stub!Base
    <3> QED BY <1>3, <2>2, <3>1
  <2> QED BY <2>1, <2>2
<1>12. h \in Seq(Int) /\ Len(h) = (IF p.ring = 3 THEN 1 ELSE 0) /\ (p.ring = 3 => h[1] = p.sp)
  BY <1>3, <1>6
<1>13. f \in Seq(Int) /\ Len(f) = 3 /\ f[1] = p.tf /\ f[2] = p.ring /\ f[3] = p.pc
  BY <1>3, <1>7
<1>14. e \in Seq(Int) /\ Len(e) = IF v \in Stub(m)!PopsCode THEN 1 ELSE 0
  BY <1>8
<1>15. /\ s \in Seq(Int) /\ Len(s) = Len(b) + Len(h) + Len(f) + Len(e)
       /\ \A i \in 1..Len(h) : s[Len(b) + i] = h[i]
       /\ \A i \in 1..Len(f) : s[Len(b) + Len(h) + i] = f[i]
  <2>1. b \in Seq(Int) /\ h \in Seq(Int) /\ f \in Seq(Int) /\ e \in Seq(Int)
    BY <1>11, <1>12, <1>13, <1>14
  <2>2. LaidOut(b, h, f, e, s)
    BY <1>9, <2>1, Stacked
  <2> QED BY <2>2 DEF LaidOut
<1>16. PICK n \in Nat : n = Len(b) + Len(h) /\ n = IF p.ring = 3 THEN 1 ELSE p.sp
  BY <1>3, <1>11, <1>12
<1>17. s[n + 1] = p.tf /\ s[n + 2] = p.ring /\ s[n + 3] = p.pc
  <2>1. \A i \in 1..3 : s[n + i] = f[i]
    BY <1>13, <1>15, <1>16
  <2> QED BY <1>13, <2>1
<1>18. p.ring = 3 => s[1] = p.sp
  <2>1. ASSUME p.ring = 3 PROVE s[1] = p.sp
    <3>1. 1 \in 1..Len(h) /\ Len(b) + 1 = 1
      BY <1>11, <1>12, <2>1
    <3> QED BY <1>12, <1>15, <2>1, <3>1
  <2> QED BY <2>1
<1>19. PICK top : top = IF v \in Stub(m)!PopsCode THEN Len(s) - 1 ELSE Len(s)
  OBVIOUS
<1>20. top = n + 3 /\ top - 1 = n + 2 /\ top - 2 = n + 1 /\ top - 3 = n
  <2>1. Len(s) = n + 3 + Len(e)
    BY <1>11, <1>12, <1>13, <1>14, <1>15, <1>16
  <2>2. v \in Stub(m)!PopsCode => top = n + 3
    BY <1>14, <1>19, <2>1
  <2>3. v \notin Stub(m)!PopsCode => top = n + 3
    BY <1>14, <1>19, <2>1
  <2>4. top = n + 3
    BY <2>2, <2>3
  <2> QED BY <2>4
<1>21. PICK r : r = Stub(m)!Saved(p, v, s)
  OBVIOUS
<1>22. r = [ring |-> p.ring, pc |-> p.pc, ax |-> p.ax, tf |-> p.tf, sp |-> n]
  BY <1>17, <1>19, <1>20, <1>21 DEF Stub!Saved
<1>23. /\ mode' = "stub" /\ want' = p /\ registers' = r /\ kstack' = SubSeq(s, 1, r.sp)
       /\ report'.sp = r.sp
       /\ UNCHANGED <<mem, mem_err, command, done, before, reply, resumed, lost, armed>>
  BY <1>10, <1>21 DEF Stub!Raise
<1>24. p.ring = 3 => r.sp = 1 /\ DOMAIN kstack' = {1} /\ kstack'[1] = p.sp
  <2>1. ASSUME p.ring = 3 PROVE r.sp = 1 /\ DOMAIN kstack' = {1} /\ kstack'[1] = p.sp
    <3>1. n = 1 /\ r.sp = 1 /\ Len(s) >= 1
      BY <1>11, <1>12, <1>13, <1>14, <1>15, <1>16, <1>22, <2>1
    <3>2. kstack' = SubSeq(s, 1, 1)
      BY <1>23, <3>1
    <3> QED BY <1>15, <1>18, <2>1, <3>1, <3>2
  <2> QED BY <2>1
<1>25. SavedAs(registers', p, kstack', report')
  <2>1. p.ring = 0 => r.sp = p.sp
    BY <1>16, <1>22
  <2> QED BY <1>22, <1>23, <1>24, <2>1 DEF SavedAs
<1>26. registers' \in Stub(m)!Processor
  <2>1. n \in 0..m.depth
    BY <1>1, <1>3, <1>16
  <2> QED BY <1>1, <1>22, <1>23, <2>1 DEF Stub!Processor
<1> QED BY <1>23, <1>25, <1>26

-----------------------------------------------------------------------------
(* The invariant *)

\* What is stored is what it should be.
StoredInv(m) ==
  /\ mode \in {"run", "stub", "m", "M"} /\ cpu \in Stub(m)!Processor
  /\ want \in Stub(m)!Processor /\ registers \in Stub(m)!Processor
  /\ mem \in [m.mapped -> m.bytes] /\ ran \in 0..2 /\ resumed \in {"s", "c"}
  /\ armed \in BOOLEAN /\ mem_err \in BOOLEAN /\ lost = FALSE

\* A program that goes on is traced for exactly one instruction or not at all, and
\* the handler is not set.
GoingInv ==
  mode = "run" => /\ armed = FALSE
                  /\ resumed = "s" => cpu.tf = 1 /\ ran = 0
                  /\ resumed = "c" => cpu.tf = 0

\* While it is stopped, registers hold what the host wants.
StoppedInv == mode # "run" => SavedAs(registers, want, kstack, report)

\* The bytes of a memory command that are through.
Through == command.addr..(command.addr + done - 1)

\* What a memory command has done so far.
AccessInv(m) ==
  /\ done \in Nat
  /\ mode = "stub" => armed = FALSE /\ done = 0
  /\ mode = "run" => done = 0
  /\ mode \in {"m", "M"} =>
       /\ command \in [addr : Nat, len : Nat, byte : m.bytes]
       /\ command.addr + command.len <= m.top + 1
       /\ done <= command.len /\ Through \subseteq m.mapped
       /\ mem_err => done < command.len /\ command.addr + done \notin m.mapped
       /\ armed = ~mem_err
       /\ before \in [m.mapped -> m.bytes]
  /\ mode = "m" => /\ mem = before
                   /\ reply = [kind |-> "empty",
                               bytes |-> [k \in 1..done |-> before[command.addr + k - 1]]]
  /\ mode = "M" =>
       mem = [a \in m.mapped |-> IF a \in Through THEN command.byte ELSE before[a]]

StubInv(m) == StoredInv(m) /\ GoingInv /\ StoppedInv /\ AccessInv(m)

LEMMA MachineHas ==
  ASSUME NEW m, Machine(m)
  PROVE  /\ m.vectors \subseteq Stub(m)!Caught \ {1} /\ 1 \in Stub(m)!Caught
         /\ m.rings \subseteq {0, 3} /\ m.pcs \subseteq Nat
         /\ m.top \in Nat /\ m.mapped \subseteq 0..m.top /\ m.bytes # {} /\ m.depth \in Nat
         /\ (CHOOSE b \in m.bytes : TRUE) \in m.bytes
  BY DEF Machine, Stub!GdbStubAssumption, Stub!Caught

LEMMA StubInit == ASSUME NEW m, Machine(m), Stub(m)!Init PROVE StubInv(m)
<1>1. PICK b : b = CHOOSE c \in m.bytes : TRUE
  OBVIOUS
<1>2. b \in m.bytes
  BY <1>1, MachineHas
<1>3. /\ mode = "run" /\ cpu \in Stub(m)!Processor /\ cpu.tf = 0 /\ registers = cpu /\ want = cpu
      /\ mem = [a \in m.mapped |-> b] /\ armed = FALSE /\ mem_err = FALSE /\ done = 0
      /\ resumed = "c" /\ ran = 0 /\ lost = FALSE
  BY <1>1 DEF Stub!Init
<1>4. mem \in [m.mapped -> m.bytes]
  BY <1>2, <1>3
<1>5. StoredInv(m)
  <2>1. /\ mode \in {"run", "stub", "m", "M"} /\ ran \in 0..2 /\ resumed \in {"s", "c"}
        /\ want \in Stub(m)!Processor /\ registers \in Stub(m)!Processor
    BY <1>3
  <2>2. armed \in BOOLEAN /\ mem_err \in BOOLEAN /\ lost = FALSE
    BY <1>3
  <2> QED BY <1>3, <1>4, <2>1, <2>2 DEF StoredInv
<1>6. GoingInv
  BY <1>3 DEF GoingInv
<1>7. StoppedInv
  BY <1>3 DEF StoppedInv
<1>8. AccessInv(m)
  BY <1>3 DEF AccessInv
<1> QED BY <1>5, <1>6, <1>7, <1>8 DEF StubInv

\* The program runs.
LEMMA StubRaise ==
  ASSUME NEW m, Machine(m), StubInv(m), NEW p \in Stub(m)!Processor, NEW v \in Stub(m)!Caught,
         mode = "run", Stub(m)!Raise(p, v), cpu' \in Stub(m)!Processor, ran' \in 0..2
  PROVE  StubInv(m)'
<1>1. StoredInv(m) /\ GoingInv /\ AccessInv(m)
  BY DEF StubInv
<1>2. armed = FALSE /\ done = 0
  BY <1>1 DEF GoingInv, AccessInv
<1>3. /\ mode' = "stub" /\ want' = p /\ SavedAs(registers', p, kstack', report')
      /\ registers' \in Stub(m)!Processor
      /\ UNCHANGED <<mem, mem_err, command, done, before, reply, resumed, lost, armed>>
  BY <1>2, RaiseSaves
<1>4. StoredInv(m)'
  BY <1>1, <1>3 DEF StoredInv
<1>5. GoingInv'
  BY <1>3 DEF GoingInv
<1>6. StoppedInv'
  BY <1>3 DEF StoppedInv
<1>7. AccessInv(m)'
  BY <1>2, <1>3 DEF AccessInv
<1> QED BY <1>4, <1>5, <1>6, <1>7 DEF StubInv

LEMMA StubExecute == ASSUME NEW m, Machine(m), StubInv(m), Stub(m)!Execute PROVE StubInv(m)'
<1>1. StoredInv(m) /\ GoingInv /\ StoppedInv /\ AccessInv(m)
  BY DEF StubInv
<1>2. PICK pc \in m.pcs, ax \in m.axs :
        /\ mode = "run" /\ cpu' = [cpu EXCEPT !.pc = pc, !.ax = ax]
        /\ ran' = IF ran = 2 THEN 2 ELSE ran + 1
        /\ IF cpu.tf = 1 THEN Stub(m)!Raise([cpu EXCEPT !.pc = pc, !.ax = ax], 1)
           ELSE UNCHANGED <<mode, kstack, registers, report, mem, armed, mem_err,
                            command, done, reply, want, stopped, resumed, before, lost>>
  BY DEF Stub!Execute
<1>3. PICK p : p = [cpu EXCEPT !.pc = pc, !.ax = ax]
  OBVIOUS
<1>4. p \in Stub(m)!Processor /\ p.tf = cpu.tf /\ cpu.tf \in {0, 1}
  BY <1>1, <1>2, <1>3 DEF StoredInv, Stub!Processor
<1>5. cpu' = p /\ ran' \in 0..2
  BY <1>1, <1>2, <1>3 DEF StoredInv
<1>6. CASE cpu.tf = 1
  <2>1. Stub(m)!Raise(p, 1)
    BY <1>2, <1>3, <1>6
  <2> QED BY <1>2, <1>4, <1>5, <2>1, StubRaise, MachineHas
<1>7. CASE cpu.tf = 0
  <2>1. UNCHANGED <<mode, kstack, registers, report, mem, armed, mem_err,
                    command, done, reply, want, stopped, resumed, before, lost>>
    BY <1>2, <1>7
  <2>2. StoredInv(m)'
    BY <1>1, <1>4, <1>5, <2>1 DEF StoredInv
  <2>3. GoingInv'
    BY <1>1, <1>2, <1>4, <1>5, <1>7, <2>1 DEF GoingInv, StoredInv
  <2>4. StoppedInv' /\ AccessInv(m)'
    BY <1>1, <1>2, <2>1 DEF StoppedInv, AccessInv, Through
  <2> QED BY <2>2, <2>3, <2>4 DEF StubInv
<1> QED BY <1>4, <1>6, <1>7

LEMMA StubFault == ASSUME NEW m, Machine(m), StubInv(m), Stub(m)!Fault PROVE StubInv(m)'
<1>1. cpu \in Stub(m)!Processor /\ ran \in 0..2
  BY DEF StubInv, StoredInv
<1>2. PICK v \in m.vectors : mode = "run" /\ Stub(m)!Raise(cpu, v) /\ cpu' = cpu /\ ran' = ran
  BY DEF Stub!Fault
<1>3. v \in Stub(m)!Caught
  BY MachineHas
<1> QED BY <1>1, <1>2, <1>3, StubRaise

\* The host's commands.
LEMMA StubTell == ASSUME NEW m, StubInv(m), Stub(m)!Tell PROVE StubInv(m)'
<1>1. /\ mode = "stub"
      /\ UNCHANGED <<mode, registers, report, cpu, kstack, want, resumed, ran, mem, armed, mem_err,
                     command, done, before, lost>>
  BY DEF Stub!Tell, Stub!progVars, Stub!memVars
<1>2. StoredInv(m) /\ GoingInv /\ StoppedInv /\ AccessInv(m)
  BY DEF StubInv
<1>3. StoredInv(m)' /\ GoingInv'
  BY <1>1, <1>2 DEF StoredInv, GoingInv
<1>4. StoppedInv'
  BY <1>1, <1>2 DEF StoppedInv
<1>5. AccessInv(m)'
  BY <1>1, <1>2 DEF AccessInv
<1> QED BY <1>3, <1>4, <1>5 DEF StubInv

LEMMA StubSetRegisters ==
  ASSUME NEW m, Machine(m), StubInv(m), Stub(m)!SetRegisters PROVE StubInv(m)'
<1>1. StoredInv(m) /\ GoingInv /\ StoppedInv /\ AccessInv(m)
  BY DEF StubInv
<1>2. PICK pc \in m.pcs, ax \in m.axs, tf \in {0, 1}, sp \in 0..m.depth :
        LET new == [registers EXCEPT !.pc = pc, !.ax = ax, !.tf = tf, !.sp = sp]
        IN /\ registers' = new
           /\ want' = [new EXCEPT !.sp = IF want.ring = 0 THEN sp ELSE want.sp]
  BY DEF Stub!SetRegisters
<1>3. /\ mode = "stub"
      /\ UNCHANGED <<mode, cpu, kstack, report, resumed, ran, mem, armed, mem_err, command, done,
                     before, lost>>
  BY DEF Stub!SetRegisters, Stub!memVars
<1>4. PICK r : r = registers
  OBVIOUS
<1>5. PICK w : w = want
  OBVIOUS
<1>6. SavedAs(r, w, kstack, report) /\ r \in Stub(m)!Processor /\ w \in Stub(m)!Processor
  BY <1>1, <1>3, <1>4, <1>5 DEF StoppedInv, StoredInv
<1>7. /\ w.ring \in {0, 3} /\ r.ring = w.ring /\ w.sp \in 0..m.depth
      /\ (w.ring = 3 => report.sp = 1 /\ DOMAIN kstack = {1} /\ kstack[1] = w.sp)
  BY <1>6, MachineHas DEF SavedAs, Stub!Processor
<1>9. PICK n : n = [r EXCEPT !.pc = pc, !.ax = ax, !.tf = tf, !.sp = sp]
  OBVIOUS
<1>10. /\ n \in Stub(m)!Processor /\ n.ring = w.ring /\ n.pc = pc /\ n.ax = ax /\ n.tf = tf
       /\ n.sp = sp
  BY <1>2, <1>6, <1>7, <1>9 DEF Stub!Processor
<1>11. PICK x : x = IF w.ring = 0 THEN sp ELSE w.sp
  OBVIOUS
<1>12. PICK u : u = [n EXCEPT !.sp = x]
  OBVIOUS
<1>13. registers' = n /\ want' = u
  BY <1>2, <1>4, <1>5, <1>9, <1>11, <1>12
<1>14. x \in 0..m.depth
  BY <1>2, <1>7, <1>11
<1>15. /\ u \in Stub(m)!Processor /\ u.ring = n.ring /\ u.pc = n.pc /\ u.ax = n.ax /\ u.tf = n.tf
       /\ u.sp = x
  BY <1>10, <1>12, <1>14 DEF Stub!Processor
<1>16. SavedAs(n, u, kstack, report)
  BY <1>7, <1>10, <1>11, <1>15 DEF SavedAs
<1>17. StoredInv(m)' /\ GoingInv'
  BY <1>1, <1>3, <1>10, <1>13, <1>15 DEF StoredInv, GoingInv
<1>18. StoppedInv'
  BY <1>3, <1>13, <1>16 DEF StoppedInv
<1>19. AccessInv(m)'
  BY <1>1, <1>3 DEF AccessInv
<1> QED BY <1>17, <1>18, <1>19 DEF StubInv

\* What return_to_prog makes of saved registers is what the host wants, a stack
\* pointer excepted that it has moved from where it was saved.
AsWanted(c, u) == c = IF want.ring = 3 /\ registers.sp # report.sp
                      THEN [u EXCEPT !.sp = c.sp] ELSE u

LEMMA Restored ==
  ASSUME NEW m, Machine(m), StubInv(m), Stub(m)!Resume
  PROVE  /\ AsWanted(cpu', want') /\ cpu' \in Stub(m)!Processor
         /\ want' \in Stub(m)!Processor /\ registers' \in Stub(m)!Processor
         /\ resumed' \in {"s", "c"} /\ (resumed' = "s" => cpu'.tf = 1) /\ (resumed' = "c" => cpu'.tf = 0)
<1>1. StoredInv(m) /\ StoppedInv
  BY DEF StubInv
<1>2. PICK how \in {"s", "c"}, pc \in m.pcs \cup {registers.pc} :
        LET r == [registers EXCEPT !.pc = pc, !.tf = Stub(m)!Traced(how, registers.tf)]
        IN /\ registers' = r
           /\ \E sp \in Stub(m)!Restored(r) : cpu' = [r EXCEPT !.sp = sp]
           /\ want' = [want EXCEPT !.pc = pc, !.tf = IF how = "s" THEN 1 ELSE 0]
           /\ resumed' = how
  BY DEF Stub!Resume
<1>3. mode = "stub"
  BY DEF Stub!Resume
<1>4. PICK g : g = registers
  OBVIOUS
<1>5. PICK w : w = want
  OBVIOUS
<1>6. SavedAs(g, w, kstack, report) /\ g \in Stub(m)!Processor /\ w \in Stub(m)!Processor
  BY <1>1, <1>3, <1>4, <1>5 DEF StoppedInv, StoredInv
<1>7. pc \in m.pcs
  BY <1>2, <1>4, <1>6 DEF Stub!Processor
<1>8. PICK b : b = IF how = "s" THEN 1 ELSE 0
  OBVIOUS
<1>9. b \in {0, 1} /\ (how = "s" => b = 1) /\ (how = "c" => b = 0)
  BY <1>2, <1>8
<1>10. Stub(m)!Traced(how, g.tf) = b
  BY <1>8 DEF Stub!Traced
<1>11. PICK r : r = [g EXCEPT !.pc = pc, !.tf = b]
  OBVIOUS
<1>12. PICK u : u = [w EXCEPT !.pc = pc, !.tf = b]
  OBVIOUS
<1>13. /\ registers' = r /\ want' = u /\ resumed' = how
       /\ \E sp \in Stub(m)!Restored(r) : cpu' = [r EXCEPT !.sp = sp]
  BY <1>2, <1>4, <1>5, <1>8, <1>10, <1>11, <1>12
<1>14. /\ r \in Stub(m)!Processor /\ r.ring = g.ring /\ r.pc = pc /\ r.ax = g.ax /\ r.tf = b
       /\ r.sp = g.sp
  BY <1>6, <1>7, <1>9, <1>11 DEF Stub!Processor
<1>15. /\ u \in Stub(m)!Processor /\ u.ring = w.ring /\ u.pc = pc /\ u.ax = w.ax /\ u.tf = b
       /\ u.sp = w.sp
  BY <1>6, <1>7, <1>9, <1>12 DEF Stub!Processor
<1>16. PICK s : s \in Stub(m)!Restored(r) /\ cpu' = [r EXCEPT !.sp = s]
  BY <1>13
<1>17. /\ w.ring \in {0, 3} /\ r.ring = w.ring /\ w.sp \in 0..m.depth
       /\ (w.ring = 3 => report.sp = 1 /\ DOMAIN kstack = {1} /\ kstack[1] = w.sp)
       /\ (w.ring = 0 => r.sp = w.sp)
  BY <1>6, <1>14, MachineHas DEF SavedAs, Stub!Processor
<1>18. s \in 0..m.depth /\ (~(w.ring = 3 /\ g.sp # report.sp) => s = w.sp)
  <2>1. CASE w.ring = 0
    BY <1>16, <1>17, <2>1 DEF Stub!Restored
  <2>2. CASE w.ring = 3 /\ r.sp \in DOMAIN kstack
    BY <1>16, <1>17, <2>2 DEF Stub!Restored
  <2>3. CASE w.ring = 3 /\ r.sp \notin DOMAIN kstack
    <3>1. r.sp # report.sp
      BY <1>17, <2>3
    <3>2. s \in 0..m.depth
      BY <1>16, <1>17, <2>3 DEF Stub!Restored
    <3> QED BY <1>14, <2>3, <3>1, <3>2
  <2> QED BY <1>17, <2>1, <2>2, <2>3
<1>19. PICK c : c = [r EXCEPT !.sp = s]
  OBVIOUS
<1>20. cpu' = c
  BY <1>16, <1>19
<1>21. /\ c \in Stub(m)!Processor /\ c.ring = u.ring /\ c.pc = u.pc /\ c.ax = u.ax
       /\ c.tf = u.tf /\ c.tf = b /\ c.sp = s
  <2>1. r = [ring |-> r.ring, pc |-> r.pc, ax |-> r.ax, tf |-> r.tf, sp |-> r.sp]
    BY <1>14 DEF Stub!Processor
  <2>2. c = [ring |-> r.ring, pc |-> r.pc, ax |-> r.ax, tf |-> r.tf, sp |-> s]
    BY <1>19, <2>1
  <2>3. /\ r.ring \in m.rings /\ r.pc \in m.pcs /\ r.ax \in m.axs /\ r.tf \in {0, 1}
        /\ s \in 0..m.depth
    BY <1>14, <1>18 DEF Stub!Processor
  <2>4. c \in Stub(m)!Processor
    BY <2>2, <2>3 DEF Stub!Processor
  <2>5. g.ring = w.ring /\ g.ax = w.ax
    BY <1>6 DEF SavedAs
  <2> QED BY <1>14, <1>15, <2>2, <2>4, <2>5
<1>22. c = [u EXCEPT !.sp = c.sp]
  BY <1>15, <1>21 DEF Stub!Processor
<1>23. ~(w.ring = 3 /\ g.sp # report.sp) => c = u
  <2>1. ASSUME ~(w.ring = 3 /\ g.sp # report.sp) PROVE c = u
    <3>1. c.sp = u.sp
      BY <1>15, <1>18, <1>21, <2>1
    <3> QED BY <1>15, <1>21, <3>1 DEF Stub!Processor
  <2> QED BY <2>1
<1>24. AsWanted(c, u)
  BY <1>4, <1>5, <1>22, <1>23 DEF AsWanted
<1> QED BY <1>2, <1>9, <1>13, <1>14, <1>15, <1>20, <1>21, <1>24

LEMMA StubResume == ASSUME NEW m, Machine(m), StubInv(m), Stub(m)!Resume PROVE StubInv(m)'
<1>1. StoredInv(m) /\ AccessInv(m)
  BY DEF StubInv
<1>2. /\ mode = "stub" /\ mode' = "run" /\ ran' = 0
      /\ UNCHANGED <<mem, armed, mem_err, command, done, before, lost>>
  BY DEF Stub!Resume, Stub!memVars
<1>3. /\ cpu' \in Stub(m)!Processor /\ want' \in Stub(m)!Processor
      /\ registers' \in Stub(m)!Processor
      /\ resumed' \in {"s", "c"} /\ (resumed' = "s" => cpu'.tf = 1) /\ (resumed' = "c" => cpu'.tf = 0)
  BY Restored
<1>4. armed = FALSE /\ done = 0
  BY <1>1, <1>2 DEF AccessInv
<1>5. StoredInv(m)'
  BY <1>1, <1>2, <1>3 DEF StoredInv
<1>6. GoingInv'
  BY <1>2, <1>3, <1>4 DEF GoingInv
<1>7. StoppedInv'
  BY <1>2 DEF StoppedInv
<1>8. AccessInv(m)'
  BY <1>1, <1>2, <1>4 DEF AccessInv
<1> QED BY <1>5, <1>6, <1>7, <1>8 DEF StubInv

-----------------------------------------------------------------------------
(* Memory commands *)

LEMMA StubAccess == ASSUME NEW m, Machine(m), StubInv(m), Stub(m)!Access PROVE StubInv(m)'
<1>1. StoredInv(m) /\ StoppedInv
  BY DEF StubInv
<1>2. PICK op \in {"m", "M"}, a \in 0..m.top, n \in 0..(m.top + 1), b \in m.bytes :
        a + n <= m.top + 1 /\ command' = [addr |-> a, len |-> n, byte |-> b] /\ mode' = op
  BY DEF Stub!Access
<1>3. /\ mode = "stub" /\ armed' = TRUE /\ mem_err' = FALSE /\ done' = 0 /\ before' = mem
      /\ reply' = [kind |-> "empty", bytes |-> <<>>]
      /\ UNCHANGED <<mem, registers, report, cpu, kstack, want, resumed, ran, lost>>
  BY DEF Stub!Access, Stub!Answer, Stub!Message, Stub!progVars
<1>4. m.top \in Nat
  BY MachineHas
<1>5. StoredInv(m)'
  <2>1. mode' \in {"run", "stub", "m", "M"} /\ armed' \in BOOLEAN /\ mem_err' \in BOOLEAN
    BY <1>2, <1>3
  <2> QED BY <1>1, <1>3, <2>1 DEF StoredInv
<1>6. GoingInv'
  BY <1>2 DEF GoingInv
<1>7. StoppedInv'
  BY <1>1, <1>3 DEF StoppedInv
<1>8. /\ command' \in [addr : Nat, len : Nat, byte : m.bytes]
      /\ command'.addr = a /\ command'.len = n /\ command'.byte = b
      /\ a \in Nat /\ n \in Nat /\ a + n <= m.top + 1 /\ a + 0 - 1 = a - 1
  BY <1>2, <1>4
<1>9. Through' = {}
  <2>1. Through' = a..(a + 0 - 1)
    BY <1>3, <1>8 DEF Through
  <2> QED BY <1>8, <2>1
<1>10. AccessInv(m)'
  <2>1. done' \in Nat /\ done' <= command'.len
    BY <1>3, <1>8
  <2>2. mode' = "m" => /\ mem' = before'
                       /\ reply' = [kind |-> "empty",
                               bytes |-> [k \in 1..done' |-> before'[command'.addr + k - 1]]]
    <3>1. 1..0 = {}
      OBVIOUS
    <3>2. [k \in 1..done' |-> before'[command'.addr + k - 1]] = <<>>
      BY <1>3, <3>1
    <3> QED BY <1>3, <3>2
  <2>3. mem' = [x \in m.mapped |-> IF x \in Through' THEN command'.byte ELSE before'[x]]
    <3>1. mem \in [m.mapped -> m.bytes] /\ mem' = mem /\ before' = mem
      BY <1>1, <1>3 DEF StoredInv
    <3>2. mem = [x \in m.mapped |-> mem[x]]
      BY <3>1
    <3> QED BY <1>9, <3>1, <3>2
  <2>4. before' \in [m.mapped -> m.bytes]
    BY <1>1, <1>3 DEF StoredInv
  <2>5. armed' = ~mem_err' /\ mem_err' = FALSE
    BY <1>3
  <2> QED BY <1>2, <1>8, <1>9, <2>1, <2>2, <2>3, <2>4, <2>5 DEF AccessInv
<1> QED BY <1>5, <1>6, <1>7, <1>10 DEF StubInv

\* What stays while a memory command goes on.
LEMMA StubWorks ==
  ASSUME NEW m, StubInv(m), mode \in {"m", "M"}, mode' \in {"stub", "m", "M"},
         UNCHANGED <<registers, report, cpu, kstack, want, resumed, ran, lost>>,
         mem' \in [m.mapped -> m.bytes], armed' \in BOOLEAN, mem_err' \in BOOLEAN,
         AccessInv(m)'
  PROVE  StubInv(m)'
<1>1. StoredInv(m) /\ StoppedInv
  BY DEF StubInv
<1>2. StoredInv(m)'
  BY <1>1 DEF StoredInv
<1>3. GoingInv' /\ StoppedInv'
  BY <1>1 DEF GoingInv, StoppedInv
<1> QED BY <1>2, <1>3 DEF StubInv

\* One byte more is through.
LEMMA OneThrough ==
  ASSUME NEW m, StubInv(m), Stub(m)!AccessByte
  PROVE  /\ command.addr \in Nat /\ done \in Nat /\ command.len \in Nat /\ command.byte \in m.bytes
         /\ done' = done + 1 /\ done' <= command.len
         /\ command.addr + done \in m.mapped /\ command.addr + done \notin Through
         /\ Through' = Through \cup {command.addr + done} /\ Through' \subseteq m.mapped
<1>1. AccessInv(m)
  BY DEF StubInv
<1>2. /\ mode \in {"m", "M"} /\ done < command.len /\ done' = done + 1 /\ command' = command
      /\ command.addr + done \in m.mapped
  BY DEF Stub!AccessByte, Stub!Address
<1>3. /\ command.addr \in Nat /\ command.len \in Nat /\ command.byte \in m.bytes /\ done \in Nat
      /\ Through \subseteq m.mapped
  BY <1>1, <1>2 DEF AccessInv
<1>4. Through' = Through \cup {command.addr + done} /\ command.addr + done \notin Through
  BY <1>2, <1>3 DEF Through
<1> QED BY <1>2, <1>3, <1>4

LEMMA StubAccessByte ==
  ASSUME NEW m, Machine(m), StubInv(m), Stub(m)!AccessByte PROVE StubInv(m)'
<1>1. AccessInv(m) /\ StoredInv(m)
  BY DEF StubInv
<1>2. /\ mode \in {"m", "M"} /\ mem_err = FALSE
      /\ IF mode = "m"
         THEN /\ reply' = [reply EXCEPT !.bytes = Append(@, mem[command.addr + done])]
              /\ mem' = mem
         ELSE mem' = [mem EXCEPT ![command.addr + done] = command.byte] /\ reply' = reply
      /\ UNCHANGED <<mode, registers, report, armed, mem_err, command, before, cpu, kstack, want, resumed,
                     ran, lost>>
  BY DEF Stub!AccessByte, Stub!Address, Stub!progVars
<1>3. /\ command.addr \in Nat /\ done \in Nat /\ command.len \in Nat /\ command.byte \in m.bytes
      /\ done' = done + 1 /\ done' <= command.len
      /\ command.addr + done \in m.mapped /\ command.addr + done \notin Through
      /\ Through' = Through \cup {command.addr + done} /\ Through' \subseteq m.mapped
  BY OneThrough
<1>4. mem \in [m.mapped -> m.bytes] /\ before \in [m.mapped -> m.bytes] /\ armed = TRUE
  BY <1>1, <1>2 DEF StoredInv, AccessInv
<1>5. mem' \in [m.mapped -> m.bytes]
  BY <1>2, <1>3, <1>4
<1>6. mode = "m" => /\ mem' = before'
                    /\ reply' = [kind |-> "empty",
                          bytes |-> [k \in 1..done' |-> before'[command'.addr + k - 1]]]
  <2>1. ASSUME mode = "m"
        PROVE  /\ mem' = before'
               /\ reply' = [kind |-> "empty",
                     bytes |-> [k \in 1..done' |-> before'[command'.addr + k - 1]]]
    <3>1. PICK s : s = [k \in 1..done |-> before[command.addr + k - 1]]
      OBVIOUS
    <3>2. mem = before /\ reply = [kind |-> "empty", bytes |-> s]
      BY <1>1, <2>1, <3>1 DEF AccessInv
    <3>3. PICK x : x = before[command.addr + done]
      OBVIOUS
    <3>4. PICK u : u = [k \in 1..(done + 1) |-> before[command.addr + k - 1]]
      OBVIOUS
    <3>5. ASSUME NEW k \in 1..done PROVE command.addr + k - 1 \in Through
      BY <1>3 DEF Through
    <3>6. Through \subseteq m.mapped
      BY <1>3
    <3>7. s \in Seq(m.bytes) /\ Len(s) = done /\ x \in m.bytes
      <4>1. \A k \in 1..done : before[command.addr + k - 1] \in m.bytes
        BY <1>4, <3>5, <3>6
      <4>2. s \in [1..done -> m.bytes] /\ done \in Nat
        BY <1>3, <3>1, <4>1
      <4>3. s \in Seq(m.bytes) /\ Len(s) = done
        BY <4>2
      <4> QED BY <1>3, <1>4, <3>3, <4>3
    <3>8. Append(s, x) = u
      <4>1. /\ Len(Append(s, x)) = done + 1 /\ Append(s, x) \in Seq(m.bytes)
            /\ \A k \in 1..(done + 1) : Append(s, x)[k] = IF k <= done THEN s[k] ELSE x
        BY <1>3, <3>7, AppendProperties
      <4>2. ASSUME NEW k \in 1..(done + 1) PROVE Append(s, x)[k] = before[command.addr + k - 1]
        <5>1. CASE k <= done
          BY <1>3, <3>1, <4>1, <5>1
        <5>2. CASE ~(k <= done)
          <6>1. k = done + 1 /\ command.addr + k - 1 = command.addr + done
            BY <1>3, <5>2
          <6> QED BY <3>3, <4>1, <5>2, <6>1
        <5> QED BY <5>1, <5>2
      <4>3. u \in [1..(done + 1) -> m.bytes] /\ done + 1 \in Nat
        <5>1. ASSUME NEW k \in 1..(done + 1) PROVE before[command.addr + k - 1] \in m.bytes
          BY <3>7, <4>1, <4>2
        <5> QED BY <1>3, <3>4, <5>1
      <4>4. u \in Seq(m.bytes) /\ Len(u) = done + 1
        BY <4>3
      <4>5. \A k \in 1..(done + 1) : Append(s, x)[k] = u[k]
        BY <3>4, <4>2
      <4> QED BY <4>1, <4>4, <4>5, SeqEqual
    <3>9. reply' = [kind |-> "empty", bytes |-> Append(s, x)] /\ mem' = mem
      BY <1>2, <2>1, <3>2, <3>3
    <3> QED BY <1>2, <1>3, <3>2, <3>4, <3>8, <3>9
  <2> QED BY <2>1
<1>7. mode = "M" =>
        mem' = [a \in m.mapped |-> IF a \in Through' THEN command'.byte ELSE before'[a]]
  <2>1. ASSUME mode = "M"
        PROVE  mem' = [a \in m.mapped |-> IF a \in Through' THEN command'.byte ELSE before'[a]]
    <3>1. mem = [a \in m.mapped |-> IF a \in Through THEN command.byte ELSE before[a]]
      BY <1>1, <2>1 DEF AccessInv
    <3>2. PICK x : x = command.addr + done
      OBVIOUS
    <3>3. mem' = [mem EXCEPT ![x] = command.byte] /\ x \in m.mapped /\ Through' = Through \cup {x}
      BY <1>2, <1>3, <2>1, <3>2
    <3>4. mem' = [a \in m.mapped |-> IF a = x THEN command.byte ELSE mem[a]]
      BY <1>4, <3>3
    <3> QED BY <1>2, <3>1, <3>3, <3>4
  <2> QED BY <2>1
<1>8. AccessInv(m)'
  <2>1. done' \in Nat /\ armed' = ~mem_err' /\ mem_err' = FALSE
    <3>1. mem_err' = FALSE /\ armed' = TRUE
      BY <1>2, <1>4
    <3>2. done' \in Nat
      BY <1>3
    <3> QED BY <3>1, <3>2
  <2>2. /\ command' \in [addr : Nat, len : Nat, byte : m.bytes]
        /\ command'.addr + command'.len <= m.top + 1 /\ before' \in [m.mapped -> m.bytes]
    BY <1>1, <1>2 DEF AccessInv
  <2>3. done' <= command'.len /\ Through' \subseteq m.mapped
    BY <1>2, <1>3
  <2> QED BY <1>2, <1>6, <1>7, <2>1, <2>2, <2>3 DEF AccessInv
<1> QED BY <1>2, <1>4, <1>5, <1>8, StubWorks

LEMMA StubAccessFault ==
  ASSUME NEW m, Machine(m), StubInv(m), Stub(m)!AccessFault PROVE StubInv(m)'
<1>1. AccessInv(m) /\ StoredInv(m)
  BY DEF StubInv
<1>2. /\ mode \in {"m", "M"} /\ mem_err = FALSE /\ done < command.len
      /\ command.addr + done \notin m.mapped /\ mem_err' = TRUE /\ armed' = FALSE
      /\ UNCHANGED <<mode, registers, report, mem, command, done, before, reply, cpu, kstack, want,
                     resumed, ran, lost>>
  BY DEF Stub!AccessFault, Stub!Address, Stub!Disarmed, Stub!progVars
<1>3. Through' = Through
  BY <1>2 DEF Through
<1>4. armed' = ~mem_err'
  BY <1>2
<1>5. AccessInv(m)'
  BY <1>1, <1>2, <1>3, <1>4 DEF AccessInv
<1>6. mem' \in [m.mapped -> m.bytes]
  BY <1>1, <1>2 DEF StoredInv
<1> QED BY <1>2, <1>5, <1>6, StubWorks

LEMMA StubAccessDone ==
  ASSUME NEW m, Machine(m), StubInv(m), Stub(m)!AccessDone PROVE StubInv(m)'
<1>1. AccessInv(m) /\ StoredInv(m)
  BY DEF StubInv
<1>2. /\ mode \in {"m", "M"} /\ mode' = "stub" /\ armed' = (armed /\ mem_err) /\ done' = 0
      /\ UNCHANGED <<registers, report, mem, mem_err, cpu, kstack, want, resumed, ran, lost>>
  BY DEF Stub!AccessDone, Stub!progVars
<1>3. armed' = FALSE
  BY <1>1, <1>2 DEF AccessInv
<1>4. AccessInv(m)'
  BY <1>2, <1>3 DEF AccessInv
<1>5. mem' \in [m.mapped -> m.bytes] /\ mem_err' \in BOOLEAN
  BY <1>1, <1>2 DEF StoredInv
<1> QED BY <1>2, <1>3, <1>4, <1>5, StubWorks

-----------------------------------------------------------------------------
(* The debugger's stub *)

LEMMA StubKeeps == ASSUME NEW m, Machine(m), StubInv(m), Stub(m)!Next PROVE StubInv(m)'
<1>1. CASE Stub(m)!Execute
  BY <1>1, StubExecute
<1>2. CASE Stub(m)!Fault
  BY <1>2, StubFault
<1>3. CASE Stub(m)!SetRegisters
  BY <1>3, StubSetRegisters
<1>4. CASE Stub(m)!Tell
  BY <1>4, StubTell
<1>5. CASE Stub(m)!Access
  BY <1>5, StubAccess
<1>6. CASE Stub(m)!AccessByte
  BY <1>6, StubAccessByte
<1>7. CASE Stub(m)!AccessFault
  BY <1>7, StubAccessFault
<1>8. CASE Stub(m)!AccessDone
  BY <1>8, StubAccessDone
<1>9. CASE Stub(m)!Resume
  BY <1>9, StubResume
<1> QED BY <1>1, <1>2, <1>3, <1>4, <1>5, <1>6, <1>7, <1>8, <1>9 DEF Stub!Next

LEMMA StubStays == ASSUME NEW m, StubInv(m), UNCHANGED gdbVars PROVE StubInv(m)'
<1>1. StoredInv(m) /\ GoingInv /\ StoppedInv /\ AccessInv(m)
  BY DEF StubInv
<1>2. StoredInv(m)' /\ GoingInv' /\ StoppedInv'
  BY <1>1 DEF StoredInv, GoingInv, StoppedInv, gdbVars
<1>3. Through' = Through
  BY DEF Through, gdbVars
<1>4. AccessInv(m)'
  BY <1>1, <1>3 DEF AccessInv, gdbVars
<1> QED BY <1>2, <1>4 DEF StubInv

\* The machine of the part, and the invariant.
OfPart == IF part = "registers" THEN Exceptions ELSE Accesses
GdbInv == IF part = "registers" THEN StubInv(Exceptions) ELSE StubInv(Accesses)

LEMMA AreMachines == Machine(Exceptions) /\ Machine(Accesses)
BY MachinesAssumption DEF Machine

LEMMA GdbStarts == AllInit => GdbInv
<1> SUFFICES ASSUME AllInit PROVE GdbInv
  OBVIOUS
<1>1. CASE part = "registers"
  BY <1>1, AreMachines, StubInit DEF AllInit, GdbInv
<1>2. CASE part # "registers"
  BY <1>2, AreMachines, StubInit DEF AllInit, GdbInv
<1> QED BY <1>1, <1>2

LEMMA GdbKeeps == GdbInv /\ [AllNext]_allVars => GdbInv'
<1> SUFFICES ASSUME GdbInv, [AllNext]_allVars PROVE GdbInv'
  OBVIOUS
<1>1. PICK m : m = OfPart
  OBVIOUS
<1>2. StubInv(m) /\ Machine(m)
  BY <1>1, AreMachines DEF GdbInv, OfPart
<1>3. part' = part
  BY DEF AllNext, allVars
<1>4. m = OfPart'
  BY <1>1, <1>3 DEF OfPart
<1>5. StubInv(m)'
  <2>1. CASE UNCHANGED gdbVars
    BY <1>2, <2>1, StubStays
  <2>2. CASE part = "registers" /\ Stub(Exceptions)!Next
    <3>1. Stub(m)!Next
      BY <1>1, <2>2 DEF OfPart
    <3> QED BY <1>2, <3>1, StubKeeps
  <2>3. CASE part = "memory" /\ Stub(Accesses)!Next
    <3>1. Stub(m)!Next
      BY <1>1, <2>3 DEF OfPart
    <3> QED BY <1>2, <3>1, StubKeeps
  <2> QED BY <2>1, <2>2, <2>3 DEF AllNext, allVars
<1> QED BY <1>4, <1>5 DEF GdbInv, OfPart

LEMMA GdbAlways == AllSpec => []GdbInv
BY GdbStarts, GdbKeeps, PTL DEF AllSpec

\* "s  Step one instruction" (gdb-stub.c:66): for any machine, after one instruction
\* the program stops again, and a program let go with c is never stopped for having
\* been traced before; no fault of the program is taken for one of the stub
\* (gdb-stub.c:222-250, 601-652, 884-902).
THEOREM StopsAlwaysSound == AllSpec => []StopsSound
<1>1. GdbInv => StopsSound
  <2> SUFFICES ASSUME GdbInv PROVE StopsSound
    OBVIOUS
  <2>1. PICK m : m = OfPart
    OBVIOUS
  <2>2. /\ StoredInv(m) /\ GoingInv /\ AccessInv(m) /\ Machine(m)
    BY <2>1, AreMachines DEF GdbInv, OfPart, StubInv
  <2>3. done \in 0..(m.top + 1)
    <3>1. CASE mode \in {"run", "stub"}
      <4>1. done = 0
        BY <2>2, <3>1 DEF AccessInv
      <4>2. m.top \in Nat
        BY <2>2, MachineHas
      <4> QED BY <4>1, <4>2
    <3>2. CASE mode \in {"m", "M"}
      <4>1. /\ command.addr \in Nat /\ command.len \in Nat /\ done \in Nat /\ m.top \in Nat
            /\ command.addr + command.len <= m.top + 1 /\ done <= command.len
        BY <2>2, <3>2, MachineHas DEF AccessInv
      <4> QED BY <4>1
    <3> QED BY <2>2, <3>1, <3>2 DEF StoredInv
  <2>4. Stub(m)!TypeOK
    BY <2>2, <2>3 DEF StoredInv, Stub!TypeOK, Stub!Processor
  <2>5. IF part = "registers" THEN Stub(Exceptions)!TypeOK ELSE Stub(Accesses)!TypeOK
    BY <2>1, <2>4 DEF OfPart
  <2>6. Stub(Exceptions)!StepsOnce
    BY <2>2 DEF GoingInv, Stub!StepsOnce
  <2>7. Stub(Accesses)!FaultsTold
    BY <2>2 DEF GoingInv, AccessInv, StoredInv, Stub!FaultsTold
  <2> QED BY <2>5, <2>6, <2>7 DEF StopsSound
<1> QED BY <1>1, GdbAlways, PTL

\* What the host is told of a memory command, and what is left in memory.
LEMMA AccessTold ==
  ASSUME NEW m, Machine(m), StubInv(m), Stub(m)!AccessDone PROVE Stub(m)!MemoryAsAskedStep
<1>1. /\ mode \in {"m", "M"} /\ (mem_err \/ done = command.len)
      /\ reply' = Stub(m)!Finished /\ mem' = mem
  BY DEF Stub!AccessDone, Stub!Answer
<1>2. /\ command.addr \in Nat /\ command.len \in Nat /\ done \in Nat /\ done <= command.len
      /\ Through \subseteq m.mapped
      /\ (mem_err => done < command.len /\ command.addr + done \notin m.mapped)
      /\ mem_err \in BOOLEAN
  BY <1>1 DEF StubInv, StoredInv, AccessInv
<1>3. /\ mode = "m" => /\ mem = before
                       /\ reply = [kind |-> "empty",
                                   bytes |-> [k \in 1..done |-> before[command.addr + k - 1]]]
      /\ mode = "M" =>
           mem = [a \in m.mapped |-> IF a \in Through THEN command.byte ELSE before[a]]
  BY DEF StubInv, AccessInv
<1>4. Stub(m)!Asked = command.addr..(command.addr + command.len - 1)
  BY DEF Stub!Asked
<1>5. Stub(m)!Reached = Through
  <2>1. ASSUME NEW a \in Stub(m)!Asked, command.addr..a \subseteq m.mapped PROVE a \in Through
    <3>1. CASE mem_err
      <4>1. command.addr + done \notin command.addr..a
        BY <1>2, <2>1, <3>1
      <4> QED BY <1>2, <1>4, <4>1 DEF Through
    <3>2. CASE ~mem_err
      BY <1>1, <1>2, <1>4, <3>2 DEF Through
    <3> QED BY <3>1, <3>2
  <2>2. ASSUME NEW a \in Through PROVE a \in Stub(m)!Asked /\ command.addr..a \subseteq m.mapped
    <3>1. a \in command.addr..(command.addr + done - 1)
      BY DEF Through
    <3>2. a \in Stub(m)!Asked
      BY <1>2, <1>4, <3>1
    <3>3. command.addr..a \subseteq Through
      BY <1>2, <3>1 DEF Through
    <3> QED BY <1>2, <3>2, <3>3
  <2> QED BY <2>1, <2>2 DEF Stub!Reached
<1>6. mem' = IF mode = "m" THEN before ELSE Stub(m)!AsWritten
  <2>1. CASE mode = "m"
    BY <1>1, <1>3, <2>1
  <2>2. CASE mode = "M"
    BY <1>1, <1>3, <1>5, <2>2 DEF Stub!AsWritten
  <2> QED BY <1>1, <2>1, <2>2
<1>7. mem_err <=> ~(Stub(m)!Asked \subseteq m.mapped)
  <2>1. ASSUME mem_err PROVE ~(Stub(m)!Asked \subseteq m.mapped)
    <3>1. command.addr + done \in Stub(m)!Asked
      BY <1>2, <1>4, <2>1
    <3> QED BY <1>2, <2>1, <3>1
  <2>2. ASSUME ~mem_err PROVE Stub(m)!Asked \subseteq m.mapped
    <3>1. Stub(m)!Asked = Through
      BY <1>1, <1>4, <2>2 DEF Through
    <3> QED BY <1>2, <3>1
  <2> QED BY <2>1, <2>2
<1>8. reply' = Stub(m)!AsTold
  <2>1. CASE mem_err
    <3>1. Stub(m)!Finished = Stub(m)!Message("E03")
      BY <2>1 DEF Stub!Finished
    <3>2. Stub(m)!AsTold = Stub(m)!Message("E03")
      BY <1>7, <2>1 DEF Stub!AsTold
    <3> QED BY <1>1, <3>1, <3>2
  <2>2. CASE ~mem_err /\ mode = "M"
    <3>1. Stub(m)!Finished = Stub(m)!Message("OK")
      BY <2>2 DEF Stub!Finished
    <3>2. Stub(m)!AsTold = Stub(m)!Message("OK")
      BY <1>7, <2>2 DEF Stub!AsTold
    <3> QED BY <1>1, <3>1, <3>2
  <2>3. CASE ~mem_err /\ mode = "m"
    <3>1. Stub(m)!Finished = [reply EXCEPT !.kind = "data"]
      BY <2>3 DEF Stub!Finished
    <3>2. Stub(m)!AsTold = [kind |-> "data",
                            bytes |-> [k \in 1..command.len |-> before[command.addr + k - 1]]]
      BY <1>7, <2>3 DEF Stub!AsTold
    <3>3. done = command.len
      BY <1>1, <2>3
    <3>4. reply = [kind |-> "empty", bytes |-> [k \in 1..command.len |-> before[command.addr + k - 1]]]
      BY <1>3, <2>3, <3>3
    <3>5. PICK b : b = [k \in 1..command.len |-> before[command.addr + k - 1]]
      OBVIOUS
    <3>6. reply = [kind |-> "empty", bytes |-> b]
      BY <3>4, <3>5
    <3>7. [reply EXCEPT !.kind = "data"] = [kind |-> "data", bytes |-> b]
      BY <3>6
    <3> QED BY <1>1, <3>1, <3>2, <3>5, <3>7
  <2> QED BY <1>1, <2>1, <2>2, <2>3
<1> QED BY <1>6, <1>8 DEF Stub!MemoryAsAskedStep

\* A step of a machine leaves the processor as the host wants it, and memory as asked.
LEMMA StepsTransparent ==
  ASSUME NEW m, Machine(m), StubInv(m), Stub(m)!Next
  PROVE  /\ mode = "stub" /\ mode' = "run" => AsWanted(cpu', want')
         /\ Stub(m)!MemoryAsAskedStep
<1>1. CASE Stub(m)!Resume
  <2>1. AsWanted(cpu', want') /\ mode = "stub"
    BY <1>1, Restored DEF Stub!Resume
  <2> QED BY <2>1 DEF Stub!MemoryAsAskedStep
<1>2. CASE Stub(m)!AccessDone
  <2>1. mode \in {"m", "M"}
    BY <1>2 DEF Stub!AccessDone
  <2> QED BY <1>2, <2>1, AccessTold
<1>3. CASE Stub(m)!Execute \/ Stub(m)!Fault
  <2>1. mode = "run"
    BY <1>3 DEF Stub!Execute, Stub!Fault
  <2> QED BY <2>1 DEF Stub!MemoryAsAskedStep
<1>4. CASE Stub(m)!SetRegisters \/ Stub(m)!Tell
  <2>1. mode = "stub" /\ mode' = "stub"
    BY <1>4 DEF Stub!SetRegisters, Stub!Tell
  <2> QED BY <2>1 DEF Stub!MemoryAsAskedStep
<1>5. CASE Stub(m)!Access
  <2>1. mode = "stub" /\ mode' \in {"m", "M"}
    BY <1>5 DEF Stub!Access
  <2> QED BY <2>1 DEF Stub!MemoryAsAskedStep
<1>6. CASE Stub(m)!AccessByte \/ Stub(m)!AccessFault
  <2>1. mode \in {"m", "M"} /\ mode' = mode
    BY <1>6 DEF Stub!AccessByte, Stub!AccessFault
  <2> QED BY <2>1 DEF Stub!MemoryAsAskedStep
<1> QED BY <1>1, <1>2, <1>3, <1>4, <1>5, <1>6 DEF Stub!Next

\* For any machine: when the program goes on, in whichever ring and after whichever
\* exception, the processor is as it was when it stopped, but for what the host has
\* changed, and for SP of a program of ring 3 if the host has changed that; a memory
\* command that faults half-way says so and has done the part before, and one that
\* does not has read or written all of it (gdb-stub.c:145-172, 264-422, 832-881).
THEOREM AlwaysTransparent == AllSpec => Transparent
<1>1. GdbInv /\ [AllNext]_allVars =>
        [/\ Stub(Exceptions)!TransparentStep
         /\ part = "memory" => Stub(Accesses)!MemoryAsAskedStep]_gdbVars
  <2> SUFFICES ASSUME GdbInv, [AllNext]_allVars, ~UNCHANGED gdbVars
               PROVE  /\ mode = "stub" /\ mode' = "run" => AsWanted(cpu', want')
                      /\ part = "memory" => Stub(Accesses)!MemoryAsAskedStep
    BY DEF Stub!TransparentStep, Stub!Misplaced, AsWanted
  <2>1. PICK m : m = OfPart
    OBVIOUS
  <2>2. StubInv(m) /\ Machine(m)
    BY <2>1, AreMachines DEF GdbInv, OfPart
  <2>3. Stub(m)!Next
    BY <2>1 DEF OfPart, AllNext, allVars
  <2>4. /\ mode = "stub" /\ mode' = "run" => AsWanted(cpu', want')
        /\ Stub(m)!MemoryAsAskedStep
    BY <2>2, <2>3, StepsTransparent
  <2>5. part = "memory" => m = Accesses
    BY <2>1 DEF OfPart
  <2> QED BY <2>4, <2>5
<1> QED BY <1>1, GdbAlways, PTL DEF AllSpec, Transparent

=============================================================================
