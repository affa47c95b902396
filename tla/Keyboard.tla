------------------------------ MODULE Keyboard ------------------------------
(***************************************************************************)
(* The decoder of keyboard_thread, servers/tty.cpp: bytes from the keyboard *)
(* controller become characters, arrows and switches of the console.  The   *)
(* keyboard is external: a key sends its code when it goes down and while   *)
(* it is held, the code plus 128 when it comes up, some after a byte E0; a  *)
(* keyboard with fake shifts (FAKE) also takes a held shift back around the *)
(* code of an arrow.                                                        *)
(***************************************************************************)
EXTENDS Integers, Sequences, FiniteSets

CONSTANTS
  Key,         \* the keys: [code, extended]
  FAKE,        \* whether the keyboard sends fake shifts
  CONSOLES,    \* how many consoles there are to switch to
  HELD, LINE   \* bounds on the keys held and the bytes not yet decoded

KeyboardAssumption ==
  \* no key comes up with the prefix, and no shift has it: E0 2A is a fake shift
  /\ Key \subseteq [code : 1..127 \ {96}, extended : BOOLEAN]
  /\ \A k \in Key : k.extended => k.code \notin {42, 54}
  /\ FAKE \in BOOLEAN /\ HELD \in Nat /\ LINE \in Nat
  \* no key behind the tables switches
  /\ CONSOLES \in 0..50

Prefix == 224
Modifier == {"leftshift", "rightshift", "leftctrl", "rightctrl", "leftalt", "rightalt"}
Shifts == {"leftshift", "rightshift"}
Alts == {"leftalt", "rightalt"}
Arrow == {72, 75, 77, 80}
Switching == 59..(59 + CONSOLES - 1)   \* F1 and those after it

\* The codes the two tables have a character for, and those of them that print
\* the same with shift; behind the tables' end a code reads whatever lies there.
Printing == (2..53 \ {29, 42}) \cup {55, 57, 74, 78}
Shiftless == {14, 15, 28, 55, 57, 74, 78}
Behind == 109..127

VARIABLES
  held,        \* keys that are down
  line,        \* bytes sent and not decoded, each with what it ought to mean
  flags,       \* modifiers the thread takes to be held
  escaped,     \* the last byte was E0
  cleared,     \* history: a byte has been decoded that gives escaped a value
  touched,     \* history: modifiers moved since then
  mistyped     \* history: codes decoded as something else than was typed

vars == <<held, line, flags, escaped, cleared, touched, mistyped>>

-----------------------------------------------------------------------------
(* The keyboard *)

\* The modifier a code stands for, if any.
ModifierOf(code, extended) ==
  CASE code = 42 -> {"leftshift"}
    [] code = 54 -> {"rightshift"}
    [] code = 29 -> {IF extended THEN "rightctrl" ELSE "leftctrl"}
    [] code = 56 -> {IF extended THEN "rightalt" ELSE "leftalt"}
    [] OTHER -> {}
OfKey(k) == ModifierOf(k.code, k.extended)
Down == UNION {OfKey(k) : k \in held}

Meaning == [kind : {"nothing", "unknown", "char", "arrow", "console"},
            code : 0..127, shift : BOOLEAN]
Simply(kind, code) == [kind |-> kind, code |-> code, shift |-> FALSE]
Nothing == Simply("nothing", 0)
Unknown == Simply("unknown", 0)
Char(code, shift) ==
  [kind |-> "char", code |-> code, shift |-> shift /\ code \notin Shiftless]

\* What a key that goes down means to who types it.
Typed(k) ==
  CASE k.code \in Behind -> Unknown
    [] k.extended /\ k.code \in Arrow -> Simply("arrow", k.code)
    [] ~k.extended /\ Down \cap Alts # {} /\ k.code \in Switching ->
         Simply("console", k.code - 59)
    [] ~k.extended /\ Down \cap Alts = {} /\ k.code \in Printing ->
         Char(k.code, Down \cap Shifts # {})
    [] OTHER -> Nothing

\* The meaning can be told once all modifiers it depends on are known.
Sure == Shifts \cup Alts \subseteq touched
Bytes(k, code, means) ==
  LET ext == IF k.extended THEN <<[code |-> Prefix, means |-> Nothing]>> ELSE <<>>
  IN ext \o <<[code |-> code, means |-> means]>>
FakeShift(k, up) ==
  LET shift == {m \in held : m.code \in {42, 54}}
  IN IF FAKE /\ k.extended /\ k.code \in Arrow /\ shift # {}
     THEN LET m == CHOOSE m \in shift : TRUE
          IN Bytes([m EXCEPT !.extended = TRUE], IF up THEN m.code + 128 ELSE m.code, Nothing)
     ELSE <<>>
Moved(k) == touched' = IF cleared THEN touched \cup OfKey(k) ELSE touched

\* A key goes down, or repeats while it is held.
Press(k) ==
  /\ Len(line) < LINE /\ Cardinality(held \cup {k}) <= HELD
  /\ held' = held \cup {k}
  /\ line' = line \o FakeShift(k, TRUE)
                  \o Bytes(k, k.code, IF Sure THEN Typed(k) ELSE Unknown)
  /\ Moved(k)
  /\ UNCHANGED <<flags, escaped, cleared, mistyped>>

Release(k) ==
  /\ k \in held /\ Len(line) < LINE
  /\ held' = held \ {k}
  /\ line' = line \o Bytes(k, k.code + 128, Nothing) \o FakeShift(k, FALSE)
  /\ Moved(k)
  /\ UNCHANGED <<flags, escaped, cleared, mistyped>>

-----------------------------------------------------------------------------
(* The thread *)

IsShift(code) == code % 128 \in {42, 54}

\* Faulty: a key coming up types its character again.
DecodedUp(code) ==
  IF IsShift(code) \/ escaped THEN Nothing
  ELSE IF code % 128 \in Printing THEN Char(code % 128, flags \cap Shifts # {}) ELSE Nothing
Decoded(code) ==
  IF IsShift(code) THEN Nothing
  ELSE IF escaped THEN IF code \in Arrow THEN Simply("arrow", code) ELSE Nothing
  ELSE IF code >= 128 THEN Nothing
  ELSE IF flags \cap Alts # {}
       THEN IF code \in Switching THEN Simply("console", code - 59) ELSE Nothing
  ELSE IF code \in Behind THEN Unknown
  ELSE IF code \in Printing THEN Char(code, flags \cap Shifts # {}) ELSE Nothing

\* Faulty: E0 stays in force.
EscapedStill(code) == escaped \/ code = Prefix
Escaped(code) ==
  IF IsShift(code) THEN escaped ELSE ~escaped /\ code = Prefix

\* Faulty: a prefixed code moves the left key's flag.
ModifiersLeft(code) == IF code = Prefix THEN {} ELSE ModifierOf(code % 128, FALSE)
Modifiers(code) == IF code = Prefix THEN {} ELSE ModifierOf(code % 128, escaped)

Decode ==
  LET byte == Head(line)
      out == Decoded(byte.code)
  IN /\ line # <<>>
     /\ line' = Tail(line)
     /\ flags' = IF byte.code < 128 THEN flags \cup Modifiers(byte.code)
                 ELSE flags \ Modifiers(byte.code)
     /\ escaped' = Escaped(byte.code)
     /\ cleared' = (cleared \/ ~IsShift(byte.code))
     /\ mistyped' = IF byte.means = Unknown \/ out = byte.means THEN mistyped
                    ELSE mistyped \cup {byte.code}
     /\ UNCHANGED <<held, touched>>

\* Nothing gives the flags their first values.
Init == /\ held = {} /\ line = <<>>
        /\ flags \in SUBSET Modifier /\ escaped \in BOOLEAN
        /\ cleared = FALSE /\ touched = {} /\ mistyped = {}

Next == \/ \E k \in Key : Press(k)
        \/ \E k \in Key : Release(k)
        \/ Decode

Spec == Init /\ [][Next]_vars

-----------------------------------------------------------------------------
(* Properties *)

TypeOK ==
  /\ held \subseteq Key /\ flags \subseteq Modifier /\ touched \subseteq Modifier
  /\ line \in Seq([code : 1..255, means : Meaning])
  /\ escaped \in BOOLEAN /\ cleared \in BOOLEAN /\ mistyped \subseteq 1..127

\* Whatever the flags happened to be when the thread began, and in whatever
\* order keys go down, repeat and come up: once all bytes are decoded, every
\* modifier that has moved since the first prefix or letter is taken to be held
\* exactly when it is (tty.cpp:222-301).
FlagsTrue == line = <<>> => \A m \in touched : m \in flags <=> m \in Down

\* Once each shift and alt has moved, every key types the character, arrow or
\* switch it means with the modifiers held when it was pressed, and no byte types
\* anything by itself (tty.cpp:240-318).
AsTyped == mistyped = {}

\* "case 0x48: //up arrow" (tty.cpp:245): an arrow key types an arrow.
ArrowsTyped == mistyped \cap Arrow = {}
=============================================================================
