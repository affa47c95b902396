------------------------------ MODULE Syscall ------------------------------
(***************************************************************************)
(* The way into the kernel and back, hal/syscall.cpp.  The stub of the     *)
(* trap turns interrupts off, calls syscall_handler, and carries the       *)
(* result back to the program through one global word,                     *)
(* _syscall_return_value.  syscall_handler turns interrupts on again       *)
(* before it returns, so another task may run between any two of the       *)
(* stub's remaining instructions.                                          *)
(***************************************************************************)
EXTENDS Naturals

CONSTANTS
  Task,        \* the index of every task
  Code,        \* MSG_OK, MSG_ERROR and MSG_INTERRUPTED
  Unknown,     \* numbers below 100 no handler is registered for
  Beyond,      \* numbers past the table of handlers, which has 100
  INVALID_SYSCALL

Registered == {"get_tid", "printf", "exec", "send", "receive", "reply", "forward"}
Sleeping == {"send", "receive"}
Number == Registered \cup Unknown \cup Beyond
Value == Task \cup Code \cup {INVALID_SYSCALL, 0}

VARIABLES
  at,        \* where each task is: in its program, asleep in a handler, or on
             \* its way out before the store or before the load of the word, or
             \* off into what a word past the table points to
  call,      \* the number of its last call
  eax,       \* the register of each task
  word,      \* _syscall_return_value
  returned,  \* what its last handler returned
  overtaken  \* another task has stored between its store and its load

vars == <<at, call, eax, word, returned, overtaken>>

-----------------------------------------------------------------------------
\* What the handlers return to t.  exec returns 0 or the new task.
Results(t, n) == CASE n = "get_tid" -> {t}
                   [] n = "printf" -> {0}
                   [] n = "exec" -> Task \cup {0}
                   [] OTHER -> Code

\* What invoke returns.
Invoked(t, n) == IF n \in Registered THEN Results(t, n) ELSE {INVALID_SYSCALL}

\* A handler ends with its result in eax; interrupts are on from here.
Handled(t, n) == /\ \E v \in Invoked(t, n) : /\ eax' = [eax EXCEPT ![t] = v]
                                           /\ returned' = [returned EXCEPT ![t] = v]
                 /\ call' = [call EXCEPT ![t] = n]
                 /\ at' = [at EXCEPT ![t] = "store"]
                 /\ overtaken' = [overtaken EXCEPT ![t] = FALSE]
                 /\ UNCHANGED word

Enter(t, n) == at[t] = "program" /\ Handled(t, n)

\* What follows the table in memory may be anything: not NULL, it is called.
\* Interrupts are off, and what happens from here on is not followed.
EnterWild(t, n) == /\ at[t] = "program" /\ n \in Beyond
                   /\ at' = [at EXCEPT ![t] = "wild"]
                   /\ call' = [call EXCEPT ![t] = n]
                   /\ UNCHANGED <<eax, word, returned, overtaken>>

EnterAsleep(t, n) == /\ at[t] = "program" /\ n \in Sleeping
                     /\ at' = [at EXCEPT ![t] = "asleep"]
                     /\ call' = [call EXCEPT ![t] = n]
                     /\ UNCHANGED <<eax, word, returned, overtaken>>

\* A task is woken in schedule() and its handler ends.
Wake(t) == at[t] = "asleep" /\ Handled(t, call[t])

\* What the stub stores.  Faulty: only the low bits of the register; nothing
\* while another result is in the word.
StoredShort(t) == eax[t] % 64
StoredFirst(t) == IF \E u \in Task \ {t} : at[u] = "load" THEN word ELSE eax[t]
Stored(t) == eax[t]

Store(t) == /\ at[t] = "store"
            /\ word' = Stored(t)
            /\ at' = [at EXCEPT ![t] = "load"]
            /\ overtaken' = [u \in Task |-> overtaken[u] \/ (u # t /\ at[u] = "load")]
            /\ UNCHANGED <<call, eax, returned>>

\* popal has restored the registers of the program, eax included.
Load(t) == /\ at[t] = "load"
           /\ eax' = [eax EXCEPT ![t] = word]
           /\ at' = [at EXCEPT ![t] = "program"]
           /\ UNCHANGED <<call, word, returned, overtaken>>

Init == /\ at = [t \in Task |-> "program"]
        /\ call = [t \in Task |-> "printf"]
        /\ eax = [t \in Task |-> 0]
        /\ word = 0
        /\ returned = [t \in Task |-> 0]
        /\ overtaken = [t \in Task |-> FALSE]

Wild == \E t \in Task : at[t] = "wild"

Lost == Wild /\ UNCHANGED vars

Next == \/ ~Wild /\ \E t \in Task :
             \/ \E n \in Number : Enter(t, n) \/ EnterWild(t, n) \/ EnterAsleep(t, n)
             \/ Wake(t) \/ Store(t) \/ Load(t)
        \/ Lost

Spec == Init /\ [][Next]_vars

-----------------------------------------------------------------------------
TypeOK == /\ at \in [Task -> {"program", "asleep", "store", "load", "wild"}]
          /\ call \in [Task -> Number]
          /\ eax \in [Task -> Value]
          /\ word \in Value
          /\ returned \in [Task -> Value]
          /\ overtaken \in [Task -> BOOLEAN]

\* A program leaves the trap with the result of its own call unless another
\* task stored a result in the few instructions between its store and its
\* load (syscall.cpp:69-79): no wait in a handler and no other interleaving
\* gives it a foreign result.
OwnResult == \A t \in Task :
               at[t] = "program" /\ ~overtaken[t] => eax[t] = returned[t]

\* apps/hello.cpp:6 prints get_tid() as "my tid is": the index a program gets
\* is its own.
MyTid == \A t \in Task :
           at[t] = "program" /\ call[t] = "get_tid" => eax[t] = t
=============================================================================
