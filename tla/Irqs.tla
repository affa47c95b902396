-------------------------------- MODULE Irqs --------------------------------
(***************************************************************************)
(* Interrupt lines, hal/handlers.cpp, idt.cpp, pic.cpp and process_irq of   *)
(* core.cpp: two cascaded controllers (external), the gates and handlers,   *)
(* which may nest and be switched away from, and the messages they leave to *)
(* drivers.  The kernel unmasks line 0 only; a driver has the I/O           *)
(* privileges to unmask the lines it attaches to (external).                *)
(***************************************************************************)
EXTENDS Integers, Sequences, FiniteSets, SequencesExt

CONSTANTS
  Driver,       \* programs that attach to lines
  Wants,        \* what lines each attaches to
  FIRES, CALLS  \* bounds on how often devices fire, and others call drivers

IrqsAssumption ==
  /\ Wants \in [Driver -> SUBSET (1..15 \ {2, 7})]
  /\ FIRES \in Nat /\ CALLS \in Nat

Line == 0..15
Low == 0..7
High == 8..15
CASCADE == 2
Call == 16           \* in a queue: another program's message

\* Some task is always ready; init is one that never waits.
Task == Driver \cup {"init"}
Place == {"entry", "body", "eoi", "switch", "exit"}
Frame == [line : Line, at : Place]

VARIABLES
  imr, irr, isr,     \* lines masked, raised, and in service
  stack,             \* handlers begun and not ended, by the task they interrupted
  current,
  IRQs,              \* drivers attached, by line
  messages, waiting, \* of each driver: its queue, and whether it waits in receive
  fired, called      \* history: counters for the bounds

vars == <<imr, irr, isr, stack, current, IRQs, messages, waiting, fired, called>>
picVars == <<imr, irr, isr>>
taskVars == <<IRQs, messages, waiting>>

-----------------------------------------------------------------------------
(* Controllers *)

\* Line 8 to 15 come in through line 2, between 1 and 3.
Rank(l) == IF l \in High THEN 20 + l ELSE IF l > CASCADE THEN 100 + l ELSE 10 * l
MasterLine(l) == IF l \in High THEN CASCADE ELSE l
InService == isr \cap Low
First(S) == CHOOSE l \in S : \A k \in S : Rank(l) <= Rank(k)

Deliverable(l) ==
  /\ l \in irr \ imr /\ MasterLine(l) \notin imr
  /\ \A k \in InService : MasterLine(l) < k
  /\ l \in High => \A k \in isr \cap High : l < k

\* PIC::remap moves the lines to these vectors, all masked.  Faulty: both controllers'
\* to the same.
VectorSame(l) == 40 + (l % 8)
VectorOf(l) == IF l \in High THEN 40 + l - 8 ELSE 32 + l

\* register_irqs: trap gates; TaskManager: an interrupt gate for the timer.
\* irq<n>_handler: behind vector 32 + n.  Faulty: as if nothing had been moved.
HandlerUnmoved(v) == v - 8
HandlerOf(v) == v - 32
Gate(v) == IF v = 32 THEN "interrupt" ELSE "trap"

\* outb(0x20, 0x20): the first line in service is done.
Ended(S) == IF S \cap Low = {} THEN S ELSE S \ {First(S \cap Low)}

-----------------------------------------------------------------------------
(* Handlers *)

Top(t) == Last(stack[t])
Busy(t) == stack[t] # <<>>

\* Until its cli a handler leaves interrupts on.  Faulty: and once it has ended them.
OpenEarly == {"entry", "exit"}
Open == {"entry"}
On == Busy(current) => Top(current).at \in Open

\* The handlers of all lines end the interrupt at the first controller only; the
\* timer's ends it before it switches.  Faulty: after.
AfterLate(place, l) ==
  CASE place = "body" /\ l = 0 -> "switch" [] place = "body" /\ l # 0 -> "eoi"
    [] place = "switch" -> "eoi" [] place = "eoi" -> "exit"
After(place, l) ==
  CASE place = "body" -> "eoi"
    [] place = "eoi" /\ l = 0 -> "switch"
    [] place = "eoi" /\ l # 0 -> "exit"
    [] place = "switch" -> "exit"
Goto(place) == stack' = [stack EXCEPT ![current] = Front(@) \o <<[Last(@) EXCEPT !.at = place]>>]
At(place) == Busy(current) /\ Top(current).at = place
Goes(place) == At(place) /\ Goto(After(place, Top(current).line))

Fire(l) ==
  /\ l \notin irr
  /\ IF l = 0 THEN On /\ fired' = fired   \* a tick is over before the next
              ELSE fired < FIRES /\ fired' = fired + 1
  /\ irr' = irr \cup {l}
  /\ UNCHANGED <<imr, isr, stack, current, taskVars, called>>

\* A trap gate leaves interrupts on.
Begins(v) == IF Gate(v) = "trap" THEN "entry" ELSE "body"
Accept(l) ==
  /\ On /\ Deliverable(l)
  /\ \A k \in Line : Deliverable(k) => Rank(l) <= Rank(k)
  /\ irr' = irr \ {l} /\ isr' = isr \cup {l, MasterLine(l)}
  /\ LET v == VectorOf(l)
     IN stack' = [stack EXCEPT ![current] =
                    Append(@, [line |-> HandlerOf(v), at |-> Begins(v)])]
  /\ UNCHANGED <<imr, current, taskVars, fired, called>>

\* The first instruction of a handler.
Cli ==
  /\ At("entry") /\ Goto("body")
  /\ UNCHANGED <<picVars, current, taskVars, fired, called>>

\* process_irq leaves a message to all attached; it wakes nobody.
Times(d, q) == Cardinality({j \in DOMAIN q : q[j] = d})
Told(l) == [d \in Driver |-> messages[d] \o [i \in 1..Times(d, IRQs[l]) |-> l]]
Body ==
  /\ Goes("body")
  /\ messages' = IF Top(current).line \in {0, 7} THEN messages ELSE Told(Top(current).line)
  /\ UNCHANGED <<picVars, current, IRQs, waiting, fired, called>>

Eoi ==
  /\ Goes("eoi")
  /\ isr' = Ended(isr)
  /\ UNCHANGED <<imr, irr, current, taskVars, fired, called>>

\* timer_handler: which ready task goes on, module Scheduler says.
Others == {t \in Task \ {current} : t \in Driver => ~waiting[t]}
Switch ==
  /\ Goes("switch")
  /\ current' \in Others \cup {current}
  /\ UNCHANGED <<picVars, taskVars, fired, called>>

Exit ==
  /\ At("exit")
  /\ stack' = [stack EXCEPT ![current] = Front(@)]
  /\ UNCHANGED <<picVars, current, taskVars, fired, called>>

-----------------------------------------------------------------------------
(* Drivers *)

\* attach_irq, by way of the process manager; lines above 15 it ignores.
Attach(l) ==
  /\ current \in Driver /\ ~Busy(current)
  /\ l \in Wants[current] /\ current \notin Range(IRQs[l])
  /\ IRQs' = [IRQs EXCEPT ![l] = Append(@, current)]
  /\ UNCHANGED <<picVars, stack, current, messages, waiting, fired, called>>

Unmask(l) ==
  /\ current \in Driver /\ ~Busy(current)
  /\ l \in imr /\ current \in Range(IRQs[l])
  /\ imr' = imr \ {l, MasterLine(l)}
  /\ UNCHANGED <<irr, isr, stack, current, taskVars, fired, called>>

\* syscall_message_receive, and the reply that takes the message off the queue.
Receive ==
  /\ current \in Driver /\ ~Busy(current)
  /\ IF messages[current] = <<>>
     THEN /\ waiting' = [waiting EXCEPT ![current] = TRUE]
          /\ current' \in Others
          /\ messages' = messages
     ELSE /\ messages' = [messages EXCEPT ![current] = Tail(@)]
          /\ UNCHANGED <<waiting, current>>
  /\ UNCHANGED <<picVars, stack, IRQs, fired, called>>

\* syscall_message_send: another program's call wakes the driver.
Send(d) ==
  /\ current = "init" /\ ~Busy(current) /\ called < CALLS
  /\ called' = called + 1
  /\ messages' = [messages EXCEPT ![d] = Append(@, Call)]
  /\ waiting' = [waiting EXCEPT ![d] = FALSE]
  /\ UNCHANGED <<picVars, stack, current, IRQs, fired>>

Init ==
  /\ imr = Line \ {0} /\ irr = {} /\ isr = {}
  /\ stack = [t \in Task |-> <<>>] /\ current = "init"
  /\ IRQs = [l \in Line |-> <<>>]
  /\ messages = [d \in Driver |-> <<>>] /\ waiting = [d \in Driver |-> FALSE]
  /\ fired = 0 /\ called = 0

Wanted == UNION {Wants[d] : d \in Driver}
Closed == Body \/ Eoi \/ Switch \/ Exit   \* with interrupts off
Next ==
  \/ \E l \in Wanted \cup {0} : Fire(l) \/ Accept(l)
  \/ Cli \/ Body \/ Eoi \/ Switch \/ Exit
  \/ \E l \in Wanted : Attach(l) \/ Unmask(l)
  \/ Receive
  \/ \E d \in Driver : Send(d)

\* A handler gets to its next instruction, at most a tick later, and a task switched
\* away from comes round again: the scheduler goes round all that are ready.
Fairness ==
  /\ WF_vars(Closed)
  /\ \A t \in Task : SF_vars(current = t /\ Cli)
  /\ \A l \in Wanted \cup {0} : SF_vars(Accept(l))
  /\ WF_vars(Fire(0))
  /\ \A t \in Task : SF_vars(Switch /\ current' = t)

Spec == Init /\ [][Next]_vars
LiveSpec == Spec /\ Fairness

-----------------------------------------------------------------------------
(* Properties *)

Frames == {f \in Task \X (1..(3 + FIRES)) : f[2] <= Len(stack[f[1]])}
FrameAt(f) == stack[f[1]][f[2]]

TypeOK ==
  /\ imr \subseteq Line /\ irr \subseteq Line /\ isr \subseteq Line
  /\ stack \in [Task -> Seq(Frame)] /\ current \in Task
  /\ IRQs \in [Line -> Seq(Driver)]
  /\ messages \in [Driver -> Seq(Line \cup {Call})] /\ waiting \in [Driver -> BOOLEAN]

\* Trap gates let handlers nest before their cli, and the timer may switch away
\* from one; still no line is handled twice at a time, and the timer once a task,
\* so that the stacks hold them all (idt.h:16-27).
OnceEach ==
  \A f, g \in Frames :
    (f # g /\ FrameAt(f).line = FrameAt(g).line) => (FrameAt(f).line = 0 /\ f[1] # g[1])

\* The end of interrupt, which names no line, ends the line the handler is for and
\* not one it interrupted, or one left unfinished by a task switched away from
\* (idt.h:23-24).
EndsItsOwn ==
  At("eoi") => /\ InService # {}
               /\ First(InService) = MasterLine(Top(current).line)

\* A line below 8 that fires is handled, whatever is in service (idt.h:16-27).
LowServed == \A l \in Wanted \cap Low : (l \in irr \ imr) ~> l \notin irr

\* Once its handler has ended, no line is in service any longer: idt.h:31 says what
\* lines above 7 need for that.
Finished ==
  \A l \in isr \cap High : \E f \in Frames : FrameAt(f).line = l

\* A driver waits for a message only while it has none (task.cpp:217-218).
WaitsForMessage == \A d \in Driver : waiting[d] => messages[d] = <<>>
=============================================================================
