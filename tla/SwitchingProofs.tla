--------------------------- MODULE SwitchingProofs ---------------------------
(***************************************************************************)
(* With every task of any set of them: the task that runs is current, who  *)
(* is switched to goes on as it was left, and no jump faults but the one a  *)
(* tick makes out of the scheduler before it has turned interrupts off,    *)
(* which is before any task has run.                                       *)
(***************************************************************************)
EXTENDS Switching, SequenceTheorems, TLAPS

\* What is put away for a task goes on in its program, and what is put away for
\* the scheduler has interrupts off once it is past its first instruction.
TaskContext(t, c) == c \in Context /\ c.whose = t /\ c.at = "program"
SchedulerContext(c) == /\ c \in Context /\ c.whose = "scheduler"
                       /\ c.at = "wrapper" \/ (c.at = "loop" /\ ~c.if)

Away == /\ tss \in [Owner -> Context] /\ left \in [Owner -> Context]
        /\ \A t \in Task : TaskContext(t, tss[t])
        /\ SchedulerContext(tss["scheduler"])
        /\ \A w \in Owner : w # ctx.whose => left[w] = tss[w]

\* The table while it is built: the kernel's slot is the last one, and busy once
\* the task register is loaded from it.
Building ==
  /\ ctx \in Context /\ ctx.at = "gdt" /\ ctx.whose = "kernel" /\ ~ctx.if
  /\ gdt \in Seq(Descriptor) /\ Len(gdt) \in 0..(APP + 1)
  /\ installed => limit = 8 * Len(gdt)
  /\ Len(gdt) = APP + 1 =>
       /\ installed
       /\ gdt[APP + 1].kind = "tss" /\ gdt[APP + 1].tss = "kernel"
       /\ gdt[APP + 1].busy <=> tr = APP
  /\ tr = APP => Len(gdt) = APP + 1 /\ cached = "kernel"
  /\ tr \in {-1, APP}

\* The table as built: the slot of whoever runs is busy, the other one is not.
Full(table) ==
  /\ table \in Seq(Descriptor) /\ Len(table) = SCHED + 1
  /\ table[APP + 1].kind = "tss" /\ table[SCHED + 1].kind = "tss"
  /\ table[SCHED + 1].tss = "scheduler"

Built ==
  /\ Full(gdt) /\ limit = 8 * (SCHED + 1)
  /\ gdt[APP + 1].busy <=> tr = APP
  /\ gdt[SCHED + 1].busy <=> tr = SCHED
  /\ cached = ctx.whose /\ gdt[tr + 1].tss = ctx.whose

KernelRuns == /\ ctx \in Context /\ ctx.whose = "kernel" /\ ctx.at \in {"core", "start"}
              /\ ctx.at = "core" => ~ctx.if
              /\ tr = APP

SchedulerRuns == SchedulerContext(ctx) /\ tr = SCHED

TaskRunning == /\ current \in Task /\ TaskContext(current, ctx)
               /\ tr = APP

Going == /\ Away /\ ~faulted
         /\ \/ Building
            \/ Built /\ (KernelRuns \/ SchedulerRuns \/ TaskRunning)

\* As long as the scheduler may have interrupts on no task has run.
Begun == ctx.at = "wrapper" \/ tss["scheduler"].at = "wrapper" => current = "kernel"

\* After the fault.
Stopped == /\ faulted /\ ctx \in Context /\ ctx.whose = "scheduler"
           /\ ctx.at = "halt" /\ ~ctx.if /\ current = "kernel"
           /\ Full(gdt) /\ limit = 8 * (SCHED + 1)
           /\ tr = SCHED /\ cached = "scheduler"
           /\ tss \in [Owner -> Context] /\ left \in [Owner -> Context]

SwInv == (Going /\ Begun) \/ Stopped

-----------------------------------------------------------------------------
(* Jumps *)

\* A descriptor put in the place of another leaves the others.
LEMMA Replaced ==
  ASSUME NEW s \in Seq(Descriptor), NEW n \in 1..Len(s), NEW d \in Descriptor,
         NEW r, r = [s EXCEPT ![n] = d]
  PROVE  /\ r \in Seq(Descriptor) /\ Len(r) = Len(s) /\ r[n] = d
         /\ \A i \in 1..Len(s) : i # n => r[i] = s[i]
<1>1. r \in Seq(Descriptor)
  BY ExceptSeq
<1>2. Len(r) = Len(s)
  BY ExceptSeq
<1>3. \A j \in 1..Len(s) : r[j] = IF j = n THEN d ELSE s[j]
  OBVIOUS
<1> QED BY <1>1, <1>2, <1>3

\* t is s with another descriptor for its n-th one, that differs in being busy or not
Marked(s, n, b, t) ==
  \E d \in Descriptor : /\ d.kind = s[n].kind /\ d.tss = s[n].tss /\ d.busy = b
                        /\ t = [s EXCEPT ![n] = d]

\* Marking a descriptor busy, or free, puts one in its place that differs in that
\* only.
LEMMA MarkedBusy ==
  ASSUME NEW s \in Seq(Descriptor), NEW n \in 1..Len(s), NEW b \in BOOLEAN,
         NEW t, t = [s EXCEPT ![n].busy = b]
  PROVE  Marked(s, n, b, t)
<1> DEFINE d == [s[n] EXCEPT !.busy = b]
<1>1. s[n] \in Descriptor
  OBVIOUS
<1>2. d \in Descriptor /\ d.kind = s[n].kind /\ d.tss = s[n].tss /\ d.busy = b
  BY <1>1 DEF Descriptor
<1>3. t = [s EXCEPT ![n] = d]
  OBVIOUS
<1> HIDE DEF d
<1> QED BY <1>2, <1>3, Zenon DEF Marked

\* A jump from one of the two slots to the other: it does not fault, leaves the
\* table full with the other slot busy, and puts the context here away where it
\* belongs.
LEMMA JumpGoes ==
  ASSUME Away, NEW table, Full(table), limit = 8 * (SCHED + 1),
         NEW slot \in {APP, SCHED}, tr = APP + SCHED - slot,
         ~table[slot + 1].busy, table[slot + 1].tss \in Owner,
         table[slot + 1].tss # ctx.whose, cached = ctx.whose, ctx.whose \in Owner,
         NEW here \in Context, here.whose = ctx.whose,
         Jump(table, slot, here)
  PROVE  /\ Full(gdt') /\ tr' = slot /\ ~faulted'
         /\ gdt'[slot + 1].busy /\ ~gdt'[tr + 1].busy
         /\ gdt'[slot + 1].tss = table[slot + 1].tss
         /\ cached' = table[slot + 1].tss
         /\ ctx' = tss[table[slot + 1].tss] /\ ctx' = left[table[slot + 1].tss]
         /\ tss' = [tss EXCEPT ![ctx.whose] = here]
         /\ left' = [left EXCEPT ![ctx.whose] = here]
<1> DEFINE to == table[slot + 1].tss
           freed == [table EXCEPT ![tr + 1].busy = FALSE]
<1> USE DEF APP, SCHED
<1>1. /\ table \in Seq(Descriptor) /\ Len(table) = 7
      /\ slot + 1 \in 1..7 /\ tr + 1 \in 1..7 /\ slot # tr
  BY DEF Full
<1>2. Allowed(table, slot)
  BY <1>1 DEF Full, Allowed
<1>3. /\ gdt' = [freed EXCEPT ![slot + 1].busy = TRUE]
      /\ tr' = slot /\ cached' = to /\ faulted' = FALSE
      /\ tss' = [tss EXCEPT ![ctx.whose] = here]
      /\ ctx' = [tss EXCEPT ![ctx.whose] = here][to]
      /\ left' = [left EXCEPT ![ctx.whose] = here]
  BY <1>2, Zenon DEF Jump
<1>4. ctx' = tss[to] /\ ctx' = left[to]
  BY <1>3 DEF Away
<1> HIDE DEF freed
<1>5. freed = [table EXCEPT ![tr + 1].busy = FALSE]
  BY DEF freed
<1>6. /\ freed \in Seq(Descriptor) /\ Len(freed) = Len(table)
      /\ freed[tr + 1].kind = table[tr + 1].kind /\ freed[tr + 1].tss = table[tr + 1].tss
      /\ ~freed[tr + 1].busy
      /\ \A i \in 1..Len(table) : i # tr + 1 => freed[i] = table[i]
  <2>1. table \in Seq(Descriptor) /\ tr + 1 \in 1..Len(table)
    BY <1>1
  <2>2. PICK d \in Descriptor :
          /\ d.kind = table[tr + 1].kind /\ d.tss = table[tr + 1].tss /\ ~d.busy
          /\ freed = [table EXCEPT ![tr + 1] = d]
    <3>1. Marked(table, tr + 1, FALSE, freed)
      BY ONLY <1>5, <2>1, MarkedBusy
    <3> QED BY <3>1 DEF Marked
  <2>3. /\ freed \in Seq(Descriptor) /\ Len(freed) = Len(table) /\ freed[tr + 1] = d
        /\ \A i \in 1..Len(table) : i # tr + 1 => freed[i] = table[i]
    BY <2>1, <2>2, Replaced
  <2> QED BY <2>2, <2>3
<1>7. /\ gdt' \in Seq(Descriptor) /\ Len(gdt') = Len(freed)
      /\ gdt'[slot + 1].kind = freed[slot + 1].kind
      /\ gdt'[slot + 1].tss = freed[slot + 1].tss
      /\ gdt'[slot + 1].busy
      /\ \A i \in 1..Len(freed) : i # slot + 1 => gdt'[i] = freed[i]
  <2>1. freed \in Seq(Descriptor) /\ slot + 1 \in 1..Len(freed)
    BY <1>1, <1>6
  <2>2. PICK d \in Descriptor :
          /\ d.kind = freed[slot + 1].kind /\ d.tss = freed[slot + 1].tss /\ d.busy
          /\ gdt' = [freed EXCEPT ![slot + 1] = d]
    <3>1. Marked(freed, slot + 1, TRUE, gdt')
      BY ONLY <1>3, <2>1, MarkedBusy
    <3> QED BY <3>1 DEF Marked
  <2>3. /\ gdt' \in Seq(Descriptor) /\ Len(gdt') = Len(freed) /\ gdt'[slot + 1] = d
        /\ \A i \in 1..Len(freed) : i # slot + 1 => gdt'[i] = freed[i]
    BY <2>1, <2>2, Replaced
  <2> QED BY <2>2, <2>3
<1>8. /\ gdt'[slot + 1].busy /\ gdt'[slot + 1].kind = table[slot + 1].kind
      /\ gdt'[slot + 1].tss = to
      /\ ~gdt'[tr + 1].busy /\ gdt'[tr + 1].kind = table[tr + 1].kind
      /\ gdt'[tr + 1].tss = table[tr + 1].tss
  BY <1>1, <1>6, <1>7
<1>10. Full(gdt')
  <2>1. CASE slot = APP
    BY <1>1, <1>6, <1>7, <1>8, <2>1 DEF Full
  <2>2. CASE slot = SCHED
    BY <1>1, <1>6, <1>7, <1>8, <2>2 DEF Full
  <2> QED BY <2>1, <2>2
<1> QED BY <1>3, <1>4, <1>8, <1>10

-----------------------------------------------------------------------------
(* The steps *)

\* A jump into the scheduler, from the kernel or from a task, puts it where it was.
LEMMA IntoScheduler ==
  ASSUME SwitchingAssumption, Away, Built, tr = APP,
         ctx.whose \in Owner, ctx.whose # "scheduler",
         NEW here \in Context, here.whose = ctx.whose,
         here.whose \in Task => here.at = "program",
         Jump(gdt, SCHED, here), UNCHANGED bootVars
  PROVE  Going' /\ ctx'.whose = "scheduler" /\ ctx' = left["scheduler"]
<1> USE DEF APP, SCHED
<1>1. ~gdt[SCHED + 1].busy /\ gdt[SCHED + 1].tss = "scheduler" /\ "scheduler" \in Owner
  BY DEF Built, Full, Owner
<1>2. /\ Full(gdt') /\ tr' = SCHED /\ ~faulted'
      /\ gdt'[SCHED + 1].busy /\ ~gdt'[APP + 1].busy
      /\ gdt'[SCHED + 1].tss = "scheduler" /\ cached' = "scheduler"
      /\ ctx' = tss["scheduler"] /\ ctx' = left["scheduler"]
      /\ tss' = [tss EXCEPT ![ctx.whose] = here]
      /\ left' = [left EXCEPT ![ctx.whose] = here]
  BY <1>1, JumpGoes DEF Built
<1>3. SchedulerContext(ctx')
  BY <1>2 DEF Away
<1>4. Away'
  <2>1. tss' \in [Owner -> Context] /\ left' \in [Owner -> Context]
    BY <1>2 DEF Away
  <2>2. \A t \in Task : TaskContext(t, tss'[t])
    BY <1>2 DEF Away, TaskContext, Owner
  <2>3. SchedulerContext(tss'["scheduler"])
    BY <1>1, <1>2 DEF Away
  <2>4. \A w \in Owner : w # ctx'.whose => left'[w] = tss'[w]
    BY <1>2, <1>3 DEF Away, SchedulerContext
  <2> QED BY <2>1, <2>2, <2>3, <2>4 DEF Away
<1>5. Built'
  BY <1>2, <1>3 DEF Built, SchedulerContext, bootVars
<1> QED BY <1>2, <1>3, <1>4, <1>5 DEF Going, SchedulerRuns, SchedulerContext

\* What the table's construction does.
LEMMA BuildingStep ==
  ASSUME SwitchingAssumption, Going, AddDescriptor \/ Install \/ LoadTr
  PROVE  Going' /\ ctx'.whose = ctx.whose
<1> USE DEF APP, SCHED, SEGMENTS
<1>1. CASE AddDescriptor
  <2>1. Building /\ Away /\ ~faulted
    BY <1>1 DEF Going, AddDescriptor, KernelRuns, SchedulerRuns, SchedulerContext,
                TaskRunning, TaskContext
  <2>2. PICK n \in 0..6 : n = Len(gdt)
    BY <2>1 DEF Building
  <2>3. /\ Len(Added) = 7 /\ \A i \in 1..7 : Added[i] \in Descriptor
        /\ Added[6] = Tss("kernel") /\ Added[7] = Tss("scheduler")
    BY DEF Added, Descriptor, Segment, Tss, Owner, None
  <2>4. /\ gdt' \in Seq(Descriptor) /\ Len(gdt') = n + 1
        /\ gdt'[n + 1] = Added[n + 1] /\ \A i \in 1..n : gdt'[i] = gdt[i]
    BY <1>1, <2>1, <2>2, <2>3 DEF AddDescriptor, Building
  <2>5. limit' = IF installed THEN 8 * (n + 1) ELSE limit
    BY <1>1, <2>2 DEF AddDescriptor, LimitAfter
  <2>6. /\ Tss("kernel").kind = "tss" /\ Tss("kernel").tss = "kernel"
        /\ ~Tss("kernel").busy /\ Tss("scheduler").kind = "tss"
        /\ Tss("scheduler").tss = "scheduler" /\ ~Tss("scheduler").busy
    BY DEF Tss
  <2>7. /\ ctx' = [ctx EXCEPT !.at = IF n = 6 THEN "core" ELSE @]
        /\ UNCHANGED <<installed, tr, cached, tss, left, faulted>>
    BY <1>1, <2>2 DEF AddDescriptor
  <2>8. ctx' \in Context /\ ctx'.whose = "kernel" /\ ctx'.if = ctx.if
        /\ ctx'.at = IF n = 6 THEN "core" ELSE "gdt"
    BY <2>1, <2>7 DEF Building, Context, Place
  <2>9. Away'
    BY <2>1, <2>7, <2>8 DEF Away, Building
  <2>10. CASE n < 5
    BY <2>1, <2>2, <2>4, <2>5, <2>7, <2>8, <2>9, <2>10 DEF Building, Going
  <2>11. CASE n = 5
    <3>1. installed /\ tr # APP
      BY <1>1, <2>1, <2>2, <2>11 DEF AddDescriptor, Building
    <3> QED BY <2>1, <2>2, <2>3, <2>4, <2>5, <2>6, <2>7, <2>8, <2>9, <2>11, <3>1
            DEF Building, Going
  <2>12. CASE n = 6
    <3>1. installed /\ tr = APP
      BY <1>1, <2>1, <2>2, <2>12 DEF AddDescriptor, Building
    <3>2. Built' /\ KernelRuns'
      BY <2>1, <2>2, <2>3, <2>4, <2>5, <2>6, <2>7, <2>8, <2>12, <3>1
      DEF Building, Built, Full, KernelRuns
    <3> QED BY <2>1, <2>7, <2>9, <3>2 DEF Going
  <2> QED BY <2>1, <2>2, <2>8, <2>10, <2>11, <2>12 DEF Building
<1>2. CASE Install
  <2>1. Building /\ Away /\ ~faulted
    BY <1>2 DEF Going, Install, Built, Full
  <2> QED BY <1>2, <2>1 DEF Install, Building, Away, Going
<1>3. CASE LoadTr
  <2>1. Building /\ Away /\ ~faulted
    BY <1>3 DEF Going, LoadTr, Built, Full
  <2>2. PICK d \in Descriptor :
          /\ d.kind = gdt[6].kind /\ d.tss = gdt[6].tss /\ d.busy
          /\ gdt' = [gdt EXCEPT ![6] = d]
    <3>1. gdt \in Seq(Descriptor) /\ 6 \in 1..Len(gdt) /\ gdt' = [gdt EXCEPT ![6].busy = TRUE]
      BY <1>3, <2>1 DEF LoadTr, Building
    <3>2. Marked(gdt, 6, TRUE, gdt')
      BY ONLY <3>1, MarkedBusy
    <3> QED BY <3>2 DEF Marked
  <2>3. /\ gdt' \in Seq(Descriptor) /\ Len(gdt') = Len(gdt) /\ gdt'[6] = d
    <3>1. gdt \in Seq(Descriptor) /\ 6 \in 1..Len(gdt)
      BY <1>3, <2>1 DEF LoadTr, Building
    <3> QED BY <2>2, <3>1, Replaced
  <2>4. /\ tr' = 5 /\ cached' = "kernel" /\ Len(gdt) = 6
        /\ UNCHANGED <<limit, installed, ctx, tss, left, faulted>>
    BY <1>3, <2>1 DEF LoadTr, Building, bootVars
  <2>5. gdt'[6].kind = "tss" /\ gdt'[6].tss = "kernel" /\ gdt'[6].busy
    BY <2>1, <2>2, <2>3, <2>4 DEF Building
  <2>6. Building'
    BY <2>1, <2>3, <2>4, <2>5 DEF Building
  <2> QED BY <2>1, <2>4, <2>6 DEF Away, Going
<1> QED BY <1>1, <1>2, <1>3

\* Who goes on after a step: the one who did before, or as it was left.
Goes == ctx'.whose # ctx.whose =>
          ctx' = left[IF ctx.whose = "scheduler" THEN current' ELSE "scheduler"]

\* The kernel on its way to the scheduler.
LEMMA KernelStep ==
  ASSUME SwitchingAssumption, Going, Sti \/ Starting \/ Start
  PROVE  Going' /\ Goes
<1> USE DEF Goes
<1>1. Away /\ ~faulted /\ Built /\ KernelRuns
  BY DEF Going, Sti, Starting, Start, Building, SchedulerRuns, SchedulerContext,
         TaskRunning, TaskContext
<1>2. CASE Sti
  <2>1. ctx' \in Context /\ ctx'.whose = "kernel" /\ ctx'.at = "start"
    BY <1>1, <1>2 DEF Sti, KernelRuns, Context, Place
  <2>2. UNCHANGED <<gdt, limit, installed, tr, cached, tss, current, left, faulted>>
    BY <1>2 DEF Sti, bootVars, schedVars
  <2> QED BY <1>1, <2>1, <2>2 DEF Going, Away, Built, KernelRuns
<1>3. CASE Starting
  BY <1>1, <1>3 DEF Starting, bootVars, Going, Away, Built, KernelRuns
<1>4. CASE Start
  <2> DEFINE here == [ctx EXCEPT !.at = "halt"]
  <2>1. /\ here \in Context /\ here.whose = "kernel" /\ ctx.whose = "kernel"
        /\ "kernel" \in Owner /\ "kernel" \notin Task
    BY <1>1 DEF KernelRuns, Context, Place, Owner, SwitchingAssumption
  <2>2. Jump(gdt, SCHED, here) /\ UNCHANGED bootVars /\ tr = APP
    BY <1>1, <1>4 DEF Start, KernelRuns
  <2> HIDE DEF here
  <2> QED BY <1>1, <2>1, <2>2, IntoScheduler
<1> QED BY <1>2, <1>3, <1>4

\* The scheduler turns interrupts off and gives the processor to a ready task.
LEMMA SchedulerStep ==
  ASSUME SwitchingAssumption, Going, Wrapper \/ Run
  PROVE  Going' /\ Goes
<1> USE DEF APP, SCHED, Goes
<1>1. Away /\ ~faulted /\ Built /\ SchedulerRuns
  BY DEF Going, Wrapper, Run, Building, KernelRuns, TaskRunning, TaskContext
<1>2. ctx.whose = "scheduler" /\ "scheduler" \in Owner /\ "scheduler" \notin Task
  BY <1>1 DEF SchedulerRuns, SchedulerContext, Owner, SwitchingAssumption
<1>3. CASE Wrapper
  <2>1. SchedulerContext(ctx')
    BY <1>1, <1>3 DEF Wrapper, SchedulerRuns, SchedulerContext, Context, Place
  <2>2. UNCHANGED <<gdt, limit, installed, tr, cached, tss, current, left, faulted>>
    BY <1>3 DEF Wrapper, bootVars, schedVars
  <2> QED BY <1>1, <1>2, <2>1, <2>2 DEF Going, Away, Built, SchedulerRuns, SchedulerContext
<1>4. CASE Run
  <2>1. PICK t \in Task : current' = t /\ Jump(SlotOf(t), APP, ctx)
    BY <1>4 DEF Run
  <2>2. ctx.at = "loop" /\ UNCHANGED bootVars
    BY <1>4 DEF Run
  <2>3. /\ t \in Owner /\ t # "scheduler"
        /\ Tss(t) \in Descriptor /\ Tss(t).kind = "tss" /\ Tss(t).tss = t /\ ~Tss(t).busy
    BY <1>2 DEF Tss, Descriptor, Owner
  <2>4. PICK table : table = SlotOf(t)
    OBVIOUS
  <2>5. /\ table \in Seq(Descriptor) /\ Len(table) = 7 /\ table[6] = Tss(t)
        /\ table[7] = gdt[7]
    <3>1. gdt \in Seq(Descriptor) /\ 6 \in 1..Len(gdt) /\ Len(gdt) = 7
      BY <1>1 DEF Built, Full
    <3>2. table = [gdt EXCEPT ![6] = Tss(t)]
      BY <2>4 DEF SlotOf
    <3>3. /\ table \in Seq(Descriptor) /\ Len(table) = Len(gdt) /\ table[6] = Tss(t)
          /\ \A i \in 1..Len(gdt) : i # 6 => table[i] = gdt[i]
      <4>1. PICK d \in Descriptor : d = Tss(t)
        BY <2>3
      <4>2. table = [gdt EXCEPT ![6] = d]
        BY <3>2, <4>1
      <4>3. /\ table \in Seq(Descriptor) /\ Len(table) = Len(gdt) /\ table[6] = d
            /\ \A i \in 1..Len(gdt) : i # 6 => table[i] = gdt[i]
        <5>1. gdt \in Seq(Descriptor) /\ 6 \in 1..Len(gdt)
          BY <3>1
        <5> QED BY <4>2, <5>1, Replaced
      <4> QED BY <4>1, <4>3
    <3> QED BY <3>1, <3>3
  <2>6. Full(table)
    BY <1>1, <2>3, <2>5 DEF Full, Built
  <2>7. /\ Full(gdt') /\ tr' = APP /\ ~faulted'
        /\ gdt'[APP + 1].busy /\ ~gdt'[SCHED + 1].busy
        /\ gdt'[APP + 1].tss = t /\ cached' = t
        /\ ctx' = tss[t] /\ ctx' = left[t]
        /\ tss' = [tss EXCEPT !["scheduler"] = ctx]
        /\ left' = [left EXCEPT !["scheduler"] = ctx]
    <3>1. Jump(table, APP, ctx) /\ tr = SCHED /\ cached = ctx.whose /\ ctx \in Context
      BY <1>1, <2>1, <2>4 DEF Built, SchedulerRuns, SchedulerContext
    <3>2. limit = 8 * (SCHED + 1) /\ ~table[APP + 1].busy /\ table[APP + 1].tss = t
      BY <1>1, <2>3, <2>5 DEF Built
    <3> QED BY <1>1, <1>2, <2>3, <2>6, <3>1, <3>2, JumpGoes
  <2>8. TaskContext(t, ctx') /\ ctx'.whose = t
    <3>1. TaskContext(t, tss[t])
      BY <1>1 DEF Away
    <3>2. ctx' = tss[t]
      BY <2>7
    <3> QED BY <3>1, <3>2 DEF TaskContext
  <2>9. Away'
    <3>1. tss' \in [Owner -> Context] /\ left' \in [Owner -> Context]
      BY <1>1, <2>7 DEF Away, SchedulerRuns, SchedulerContext
    <3>2. \A u \in Task : TaskContext(u, tss'[u])
      BY <1>1, <1>2, <2>7 DEF Away, Owner
    <3>3. SchedulerContext(tss'["scheduler"])
      BY <1>1, <1>2, <2>7 DEF Away, SchedulerRuns
    <3>4. \A w \in Owner : w # ctx'.whose => left'[w] = tss'[w]
      BY <1>1, <1>2, <2>7, <2>8 DEF Away
    <3> QED BY <3>1, <3>2, <3>3, <3>4 DEF Away
  <2>10. Built'
    BY <1>1, <2>2, <2>7, <2>8 DEF Built, bootVars
  <2>11. TaskRunning'
    BY <2>1, <2>7, <2>8 DEF TaskRunning
  <2> QED BY <1>2, <2>1, <2>7, <2>9, <2>10, <2>11 DEF Going
<1> QED BY <1>3, <1>4

\* What a task does: it goes on, readies another, or gives the processor away.
LEMMA TaskStep ==
  ASSUME SwitchingAssumption, Going, Work \/ Wake \/ Block
  PROVE  Going' /\ Goes
<1> USE DEF Goes
<1>1. Away /\ ~faulted /\ Built /\ TaskRunning
  BY DEF Going, Work, Wake, Block, Building, KernelRuns, SchedulerRuns, SchedulerContext
<1>2. ctx.whose \in Task /\ ctx.whose \in Owner /\ ctx.whose # "scheduler" /\ ctx \in Context
  BY <1>1 DEF TaskRunning, TaskContext, Owner, SwitchingAssumption
<1>3. CASE Work
  <2>1. ctx' \in Context /\ ctx'.whose = ctx.whose /\ ctx'.at = ctx.at
    BY <1>2, <1>3 DEF Work, Context, LAPS
  <2>2. UNCHANGED <<gdt, limit, installed, tr, cached, tss, current, left, faulted>>
    BY <1>3 DEF Work, bootVars, schedVars
  <2> QED BY <1>1, <2>1, <2>2 DEF Going, Away, Built, TaskRunning, TaskContext
<1>4. CASE Wake
  BY <1>1, <1>4 DEF Wake, bootVars, Going, Away, Built, TaskRunning, TaskContext
<1>5. CASE Block
  <2>1. Jump(gdt, SCHED, ctx) /\ UNCHANGED bootVars /\ tr = APP /\ ctx.at = "program"
    BY <1>1, <1>5 DEF Block, TaskRunning
  <2> QED BY <1>1, <1>2, <2>1, IntoScheduler
<1> QED BY <1>3, <1>4, <1>5

\* The timer: it finds the kernel on its way or a task, or the scheduler before
\* its cli.  There it goes on as it was, or faults.
LEMMA TickStep ==
  ASSUME SwitchingAssumption, Going, Begun, Tick
  PROVE  (Going' \/ Stopped') /\ Goes
<1> USE DEF Goes
<1>1. ctx.if /\ UNCHANGED bootVars /\ UNCHANGED current
  BY DEF Tick
<1>2. Away /\ ~faulted /\ Built /\ (KernelRuns \/ TaskRunning \/ SchedulerRuns)
  BY <1>1 DEF Going, Building
<1>3. CASE ~Switches
  <2>1. UNCHANGED <<gdt, tr, cached, ctx, tss, left, faulted, current>>
    BY <1>3 DEF Tick
  <2> QED BY <1>1, <1>2, <2>1 DEF bootVars, Going, Away, Built, KernelRuns, TaskRunning,
             TaskContext, SchedulerRuns, SchedulerContext
<1>4. CASE Switches /\ (KernelRuns \/ TaskRunning)
  <2>1. /\ ctx \in Context /\ ctx.whose \in Owner /\ ctx.whose # "scheduler"
        /\ tr = APP /\ (ctx.whose \in Task => ctx.at = "program")
    BY <1>4 DEF KernelRuns, TaskRunning, TaskContext, Owner, SwitchingAssumption
  <2>2. Jump(gdt, SCHED, ctx)
    BY <1>4 DEF Tick
  <2> QED BY <1>1, <1>2, <2>1, <2>2, IntoScheduler
<1>5. CASE Switches /\ SchedulerRuns
  <2>1. ctx \in Context /\ ctx.whose = "scheduler" /\ ctx.at = "wrapper" /\ tr = SCHED
    BY <1>1, <1>5 DEF SchedulerRuns, SchedulerContext
  <2>2. current = "kernel"
    BY <2>1 DEF Begun
  <2>3. ~Allowed(gdt, SCHED)
    BY <1>2, <2>1 DEF Built, Allowed
  <2>4. /\ gdt' = gdt /\ faulted' /\ ctx' = [ctx EXCEPT !.at = "halt", !.if = FALSE]
        /\ UNCHANGED <<tr, cached, tss, left>>
    BY <1>5, <2>3 DEF Tick, Jump
  <2>5. /\ ctx' \in Context /\ ctx'.whose = "scheduler"
        /\ ctx'.at = "halt" /\ ~ctx'.if
    BY <2>1, <2>4 DEF Context, Place
  <2>6. Stopped'
    BY <1>1, <1>2, <2>1, <2>2, <2>4, <2>5 DEF Stopped, Built, Away, bootVars
  <2> QED BY <2>1, <2>5, <2>6
<1> QED BY <1>2, <1>3, <1>4, <1>5

\* Once a task has run, the scheduler has left its first instruction for good.
LEMMA BegunStep ==
  ASSUME SwitchingAssumption, Going, Begun, Next, Going', Goes
  PROVE  Begun'
<1>1. ASSUME NEW table, NEW slot, NEW here, Jump(table, slot, here), here.at # "wrapper",
             tss["scheduler"].at # "wrapper", ~faulted'
      PROVE  tr' = slot /\ tss'["scheduler"].at # "wrapper"
  <2>1. tr' = slot /\ tss' = [tss EXCEPT ![cached] = here]
    BY <1>1 DEF Jump
  <2>2. tss \in [Owner -> Context] /\ "scheduler" \in Owner
    BY DEF Going, Away, Owner
  <2> QED BY <1>1, <2>1, <2>2
<1>2. ctx'.at = "wrapper" => ctx'.whose = "scheduler" /\ tr' = SCHED
  BY DEF Going, Building, KernelRuns, SchedulerRuns, SchedulerContext, TaskRunning, TaskContext
<1>3. ~faulted' /\ (Away \/ faulted)
  BY DEF Going
<1>4. CASE Run
  <2>1. PICK t \in Task : current' = t /\ Jump(SlotOf(t), APP, ctx)
    BY <1>4 DEF Run
  <2>2. ctx.at = "loop" /\ cached = "scheduler"
    BY <1>4 DEF Run, Going, Building, Built, KernelRuns, SchedulerRuns, SchedulerContext,
                TaskRunning, TaskContext
  <2>3. tr' = APP /\ tss' = [tss EXCEPT ![cached] = ctx]
    BY <1>3, <2>1 DEF Jump
  <2>4. tss'["scheduler"].at = "loop"
    BY <2>2, <2>3 DEF Going, Away, Owner
  <2> QED BY <1>2, <2>3, <2>4 DEF Begun, APP, SCHED
<1>5. CASE current = "kernel" /\ ~Run
  <2>1. UNCHANGED current
    BY <1>5 DEF Next, AddDescriptor, Install, LoadTr, Sti, Starting, Start, Wrapper, Work,
                Block, Wake, Tick, Halted, vars, schedVars
  <2> QED BY <1>5, <2>1 DEF Begun
<1>6. CASE current # "kernel" /\ ~Run
  <2>1. ctx.at # "wrapper" /\ tss["scheduler"].at # "wrapper"
    BY <1>6 DEF Begun
  <2>2. tss'["scheduler"].at # "wrapper"
    <3>1. CASE Start
      <4>1. Jump(gdt, SCHED, [ctx EXCEPT !.at = "halt"]) /\ ctx \in Context
        BY <3>1 DEF Start, Going, Building, KernelRuns, SchedulerRuns, SchedulerContext,
                    TaskRunning, TaskContext
      <4>2. [ctx EXCEPT !.at = "halt"].at # "wrapper"
        BY <4>1 DEF Context
      <4> QED BY <1>1, <1>3, <2>1, <4>1, <4>2
    <3>2. CASE Block \/ Tick
      <4>1. Jump(gdt, SCHED, ctx) \/ UNCHANGED tss
        BY <3>2 DEF Block, Tick
      <4> QED BY <1>1, <1>3, <2>1, <4>1
    <3>3. CASE ~(Start \/ Block \/ Tick)
      BY <1>6, <2>1, <3>3 DEF Next, AddDescriptor, Install, LoadTr, Sti, Starting, Wrapper,
                              Work, Wake, Halted, vars
    <3> QED BY <3>1, <3>2, <3>3
  <2>3. ctx'.at # "wrapper"
    <3>1. CASE ctx.whose = "scheduler"
      <4>1. ctx.at = "loop" /\ ~ctx.if
        BY <2>1, <3>1 DEF Going, Building, KernelRuns, SchedulerRuns, SchedulerContext,
                          TaskRunning, TaskContext, SwitchingAssumption
      <4>2. Halted \/ UNCHANGED ctx
        BY <1>6, <4>1 DEF Next, AddDescriptor, Install, LoadTr, Sti, Starting, Start, Wrapper,
                          Work, Block, Wake, Tick, Going, Built, Full, SEGMENTS, SCHED, Building
      <4> QED BY <2>1, <4>2 DEF Halted, vars
    <3>2. CASE ctx.whose # "scheduler"
      <4>1. left["scheduler"] = tss["scheduler"]
        BY <3>2 DEF Going, Away, Owner
      <4> QED BY <1>2, <2>1, <3>2, <4>1 DEF Goes
    <3> QED BY <3>1, <3>2
  <2> QED BY <2>2, <2>3 DEF Begun
<1> QED BY <1>4, <1>5, <1>6

LEMMA SwInit == SwitchingAssumption /\ Init => SwInv
<1> SUFFICES ASSUME SwitchingAssumption, Init PROVE SwInv
  OBVIOUS
<1>1. \A w \in Owner : Fresh(w) \in Context /\ Fresh(w).whose = w
  BY DEF Fresh, Context, Place, LAPS
<1>2. /\ tss = [w \in Owner |-> Fresh(w)] /\ left = tss /\ ~faulted
      /\ gdt = <<>> /\ ~installed /\ tr = -1
      /\ ctx = [whose |-> "kernel", at |-> "gdt", if |-> FALSE, lap |-> 0]
  BY DEF Init
<1>3. Away
  BY <1>1, <1>2 DEF Away, TaskContext, SchedulerContext, Fresh, Owner, SwitchingAssumption
<1>4. Building
  BY <1>2 DEF Building, Context, Owner, Place, LAPS, APP
<1>5. Begun
  BY DEF Init, Begun
<1> QED BY <1>2, <1>3, <1>4, <1>5 DEF SwInv, Going

\* What the types need besides: a table that is not installed has no limit yet, and
\* an empty task register no TSS.
Rest == /\ current \in Owner /\ ready \in [Task -> BOOLEAN]
        /\ ~installed => limit = 0
        /\ tr = -1 => cached = None

LEMMA RestNext == ASSUME Rest, [Next]_vars PROVE Rest'
<1> USE DEF Rest, bootVars, schedVars
<1>1. ASSUME NEW table, NEW slot \in {APP, SCHED}, NEW here, Jump(table, slot, here)
      PROVE  tr' = -1 => cached' = None
  BY <1>1 DEF Jump, APP, SCHED
<1>2. CASE AddDescriptor
  BY <1>2 DEF AddDescriptor, LimitAfter
<1>3. CASE Install
  BY <1>3 DEF Install
<1>4. CASE LoadTr
  BY <1>4 DEF LoadTr, APP
<1>5. CASE Sti \/ Starting \/ Wrapper \/ Work
  BY <1>5 DEF Sti, Starting, Wrapper, Work
<1>6. CASE Start
  BY <1>1, <1>6 DEF Start
<1>7. CASE Run
  BY <1>1, <1>7 DEF Run, Owner
<1>8. CASE Block
  BY <1>1, <1>8 DEF Block
<1>9. CASE Wake
  BY <1>9 DEF Wake
<1>10. CASE Tick
  BY <1>1, <1>10 DEF Tick
<1>11. CASE Halted \/ UNCHANGED vars
  BY <1>11 DEF Halted, vars
<1> QED BY <1>2, <1>3, <1>4, <1>5, <1>6, <1>7, <1>8, <1>9, <1>10, <1>11 DEF Next

LEMMA SwNext ==
  ASSUME SwitchingAssumption, SwInv, [Next]_vars
  PROVE  SwInv' /\ [Goes]_vars
<1>1. CASE UNCHANGED vars
  BY <1>1 DEF vars, bootVars, schedVars, SwInv, Stopped, Full, Begun, Going, Away, Building, Built,
              KernelRuns, SchedulerRuns, TaskRunning
<1>2. CASE Next /\ Going /\ Begun
  <2>1. CASE Halted
    BY <1>1, <2>1 DEF Halted
  <2>2. CASE ~Halted
    <3>1. (Going' \/ Stopped') /\ Goes
      BY <1>2, <2>2, BuildingStep, KernelStep, SchedulerStep, TaskStep, TickStep DEF Next, Goes
    <3> QED BY <1>2, <3>1, BegunStep DEF SwInv
  <2> QED BY <2>1, <2>2
<1>3. CASE Next /\ Stopped
  <2>1. ctx.at = "halt" /\ ~ctx.if /\ Len(gdt) = 7
    BY <1>3 DEF Stopped, Full, SCHED
  <2>2. ~AddDescriptor /\ ~Install /\ ~LoadTr
    BY <2>1 DEF AddDescriptor, Install, LoadTr, SEGMENTS, APP
  <2>3. ~Sti /\ ~Starting /\ ~Start /\ ~Wrapper
    BY <2>1 DEF Sti, Starting, Start, Wrapper
  <2>4. ~Run /\ ~Work /\ ~Block /\ ~Wake /\ ~Tick
    BY <2>1, Zenon DEF Run, Work, Block, Wake, Tick
  <2>5. Halted
    BY <1>3, <2>2, <2>3, <2>4, Zenon DEF Next
  <2> QED BY <1>1, <2>5 DEF Halted
<1> QED BY <1>1, <1>2, <1>3 DEF SwInv

-----------------------------------------------------------------------------
(* The theorems *)

\* What holds of the table, the register and the contexts at every step, a fault's
\* included.
THEOREM SwitchingInvariant ==
  ASSUME SwitchingAssumption PROVE Spec => []SwInv
BY SwInit, SwNext, PTL DEF Spec

\* However many tasks there are, no jump faults once one has run: the slots the
\* code has numbers for are there, TSSs, and free when they are jumped to.  The
\* one that faults is a tick's before the scheduler's cli (task.cpp:56-58, 249,
\* 335, 351).
THEOREM FaultsOnlyAtFirst ==
  ASSUME SwitchingAssumption PROVE Spec => []FaultsAtFirst
<1>1. SwInv => FaultsAtFirst
  BY DEF SwInv, Going, Stopped, FaultsAtFirst
<1> QED BY <1>1, SwitchingInvariant, PTL

\* The kernel may take current for the caller of a system call (task.cpp:34-49).
THEOREM CurrentAlwaysRuns ==
  ASSUME SwitchingAssumption PROVE Spec => []CurrentRuns
<1>1. SwInv => CurrentRuns
  BY DEF SwInv, Going, Stopped, CurrentRuns, Building, Built, KernelRuns, SchedulerRuns,
         SchedulerContext, TaskRunning, TaskContext
<1> QED BY <1>1, SwitchingInvariant, PTL

\* Who is switched to goes on with the context it was left with (task.cpp:332-336).
THEOREM OwnContextAlways ==
  ASSUME SwitchingAssumption PROVE Spec => OwnContext
<1>1. SwInv /\ [Next]_vars => [Goes]_vars
  BY SwNext
<1> QED BY <1>1, SwitchingInvariant, PTL DEF Spec, OwnContext, Goes

\* The table, the contexts and who runs keep their types, the limit within the table.
THEOREM SwitchingTypes ==
  ASSUME SwitchingAssumption PROVE Spec => []TypeOK
<1>1. SwitchingAssumption /\ Init => Rest
  BY DEF Init, Rest, Owner
<1>2. SwInv /\ Rest => TypeOK
  <2> SUFFICES ASSUME SwInv, Rest PROVE TypeOK
    OBVIOUS
  <2> USE DEF APP, SCHED
  <2>1. Len(Added) = 7
    BY DEF Added
  <2>2. CASE Stopped
    <3>1. limit \in 0..(8 * Len(Added)) /\ tr \in -1..SCHED /\ cached \in Owner \cup {None}
      BY <2>1, <2>2 DEF Stopped, Owner
    <3> QED BY <2>2, <3>1 DEF Stopped, Full, Rest, TypeOK
  <2>3. CASE Going /\ Building
    <3>1. gdt \in Seq(Descriptor) /\ ctx \in Context /\ tr \in -1..SCHED
      BY <2>3 DEF Building
    <3>2. limit \in 0..(8 * Len(Added))
      <4>1. PICK n : n = Len(gdt)
        OBVIOUS
      <4>2. n \in 0..6
        BY <2>3, <4>1 DEF Building
      <4>3. limit = 0 \/ limit = 8 * n
        <5>1. (installed => limit = 8 * Len(gdt)) /\ (~installed => limit = 0)
          BY <2>3 DEF Rest, Building
        <5> QED BY ONLY <4>1, <5>1
      <4>4. limit \in 0..56
        BY <4>2, <4>3
      <4>5. 8 * Len(Added) = 56
        BY <2>1
      <4> QED BY <4>4, <4>5, Zenon
    <3>3. cached \in Owner \cup {None}
      BY <2>3 DEF Rest, Building, Owner
    <3>4. tss \in [Owner -> Context] /\ left \in [Owner -> Context]
      BY <2>3, Zenon DEF Going, Away
    <3> QED BY <3>1, <3>2, <3>3, <3>4, Zenon DEF Rest, TypeOK
  <2>4. CASE Going /\ Built /\ (KernelRuns \/ SchedulerRuns \/ TaskRunning)
    <3>1. ctx \in Context /\ ctx.whose \in Owner /\ tr \in {APP, SCHED}
      BY <2>4 DEF KernelRuns, SchedulerRuns, TaskRunning, TaskContext, SchedulerContext, Context
    <3>2. gdt \in Seq(Descriptor) /\ limit \in 0..(8 * Len(Added)) /\ tr \in -1..SCHED
      BY <2>1, <2>4, <3>1 DEF Built, Full
    <3>3. cached \in Owner \cup {None}
      BY <2>4, <3>1, Zenon DEF Built
    <3>4. tss \in [Owner -> Context] /\ left \in [Owner -> Context]
      BY <2>4, Zenon DEF Going, Away
    <3> QED BY <3>1, <3>2, <3>3, <3>4, Zenon DEF Rest, TypeOK
  <2> QED BY <2>3, <2>4, <2>2 DEF SwInv, Going
<1> QED BY <1>1, <1>2, RestNext, SwitchingInvariant, PTL DEF Spec
=============================================================================
