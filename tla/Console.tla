------------------------------ MODULE Console ------------------------------
(***************************************************************************)
(* The virtual consoles of the terminal, servers/tty.cpp: one screen, whose *)
(* picture is copied to and from the console that is shown.  The main      *)
(* thread and the stdin threads print, the keyboard thread switches; they  *)
(* exclude each other with console_mutex (lib/include/mutex.h), and may be *)
(* switched between any two of the statements below.                       *)
(***************************************************************************)
EXTENDS Integers, FiniteSets

CONSTANTS
  Printer,     \* threads that print
  Keyboard,    \* the thread that switches
  CONSOLES,    \* how many, numbered from 0
  COLUMNS, ROWS,
  BEHIND,      \* how far off the screen, at either end, the runs let a cursor go
  LETTERS,     \* how many letters they let stand on the screen
  Letter       \* what prints, besides newline and the cursor's moves

Wide == 65536   \* an offset has 16 bits

ConsoleAssumption ==
  /\ CONSOLES \in Nat \ {0} /\ COLUMNS \in Nat \ {0} /\ ROWS \in Nat \ {0}
  /\ BEHIND \in Nat /\ LETTERS \in Nat
  /\ Keyboard \notin Printer /\ "free" \notin Printer \cup {Keyboard}
  /\ Letter \cap {"newline", "backspace", "left", "right"} = {}
  \* an offset reaches every cell of the screen, and the line behind it
  /\ ROWS * COLUMNS + COLUMNS < Wide

Size == ROWS * COLUMNS
Blank == "blank"
Move == {"newline", "backspace", "left", "right"}
Console == 0..(CONSOLES - 1)
Last == CONSOLES - 1
Screen == [0..(Size - 1) -> Letter \cup {Blank}]

VARIABLES
  lfb,              \* the screen
  data, offset,     \* picture and cursor of each console
  current_console,
  console_mutex,    \* its locker
  pc,               \* what each thread is about to do
  outside,          \* history: the consoles that wrote outside the screen, no further
                    \* modelled: to the 48 cells left of its page, or to what lies there
  crossed,          \* history: those whose cursor was moved back over the top left corner
  image             \* history: what was printed on each console

vars == <<lfb, data, offset, current_console, console_mutex, pc, outside, crossed, image>>

Thread == Printer \cup {Keyboard}
Idle == <<"idle">>
At(t, what) == pc[t][1] = what
Goes(t, to) == pc' = [pc EXCEPT ![t] = to]

-----------------------------------------------------------------------------
\* A thread waits here for the mutex: lock exchanges until it gets a 0.  Faulty:
\* it goes on without.
LockedAnyway(t) == console_mutex' = t
Locked(t) == console_mutex = "free" /\ console_mutex' = t
Unlocked == console_mutex' = "free"

\* The runs' bounds: printing goes on while the cursor is on the screen or near it,
\* and letters are printed while there are few.
Near(at) == at < Size + BEHIND \/ at >= Wide - BEHIND
Few(screen) == Cardinality({i \in 0..(Size - 1) : screen[i] # Blank}) < LETTERS

PutcharStart(t, ch) ==
  /\ At(t, "idle") /\ t \in Printer
  /\ Near(offset[current_console]) /\ (ch \in Letter => Few(lfb))
  /\ Locked(t)
  /\ Goes(t, <<"put", ch>>)
  /\ UNCHANGED <<lfb, data, offset, current_console, outside, crossed, image>>

\* Where the cursor goes, and which cell of the screen is written on the way; at
\* the top left corner nothing stops a backspace.
NextLine(at) == LET below == (at + COLUMNS) % Wide IN below - (below % COLUMNS)
Cursor(at, ch) == CASE ch = "newline" -> NextLine(at)
                    [] ch \in {"backspace", "left"} -> (at - 1) % Wide
                    [] OTHER -> (at + 1) % Wide
Written(at, ch) == CASE ch = "backspace" -> {(at - 1) % Wide}
                     [] ch \in Letter -> {at}
                     [] OTHER -> {}
Drawn(screen, at, ch) ==
  [i \in 0..(Size - 1) |->
     IF i \notin Written(at, ch) THEN screen[i]
     ELSE IF ch = "backspace" THEN Blank ELSE ch]

\* The console shown is looked up once more for its cursor.
PutcharDraw(t) ==
  LET ch == pc[t][2]
      at == offset[current_console]
  IN /\ At(t, "put")
     /\ IF Written(at, ch) \subseteq 0..(Size - 1)
        THEN lfb' = Drawn(lfb, at, ch) /\ UNCHANGED outside
        ELSE outside' = outside \cup {current_console} /\ UNCHANGED lfb
     /\ image' = [image EXCEPT ![current_console] = Drawn(@, at, ch)]
     /\ offset' = [offset EXCEPT ![current_console] = Cursor(at, ch)]
     /\ crossed' = IF at = 0 /\ ch \in {"backspace", "left"}
                   THEN crossed \cup {current_console} ELSE crossed
     /\ Goes(t, <<"scroll">>)
     /\ UNCHANGED <<data, current_console, console_mutex>>

\* The screen moves up when the cursor stands exactly behind its end.  Faulty:
\* it does so one line late.
FullLate(at) == at = Size + COLUMNS
Full(at) == at = Size
\* Faulty: the last line is not blanked.
ScrolledShort(screen) == [i \in 0..(Size - COLUMNS - 1) |-> screen[i + COLUMNS]]
Scrolled(screen) ==
  [i \in 0..(Size - 1) |-> IF i + COLUMNS < Size THEN screen[i + COLUMNS] ELSE Blank]

PutcharScroll(t) ==
  LET c == current_console
  IN /\ At(t, "scroll")
     /\ IF Full(offset[c])
        THEN /\ offset' = [offset EXCEPT ![c] = @ - COLUMNS]
             /\ lfb' = Scrolled(lfb)
             /\ image' = [image EXCEPT ![c] = Scrolled(@)]
        ELSE UNCHANGED <<offset, lfb, image>>
     /\ Unlocked /\ Goes(t, Idle)
     /\ UNCHANGED <<data, current_console, outside, crossed>>

-----------------------------------------------------------------------------
SwitchStart(number) ==
  /\ At(Keyboard, "idle") /\ Locked(Keyboard)
  /\ Goes(Keyboard, <<"save", number>>)
  /\ UNCHANGED <<lfb, data, offset, current_console, outside, crossed, image>>

\* Faulty: the screen is not saved before it is overwritten.
SavedNot == data
Saved == [data EXCEPT ![current_console] = lfb]

SwitchSave ==
  /\ At(Keyboard, "save")
  /\ data' = Saved
  /\ Goes(Keyboard, <<"show", pc[Keyboard][2]>>)
  /\ UNCHANGED <<lfb, offset, current_console, console_mutex, outside, crossed, image>>

SwitchShow ==
  /\ At(Keyboard, "show")
  /\ lfb' = data[pc[Keyboard][2]]
  /\ Goes(Keyboard, <<"turn", pc[Keyboard][2]>>)
  /\ UNCHANGED <<data, offset, current_console, console_mutex, outside, crossed, image>>

\* An empty console gets a headline, printed like any text and here one newline.
SwitchTurn ==
  LET number == pc[Keyboard][2]
  IN /\ At(Keyboard, "turn")
     /\ current_console' = number
     /\ Unlocked
     /\ Goes(Keyboard, IF offset[number] = 0 THEN <<"head">> ELSE Idle)
     /\ UNCHANGED <<lfb, data, offset, outside, crossed, image>>

SwitchHead ==
  /\ At(Keyboard, "head") /\ Locked(Keyboard)
  /\ Goes(Keyboard, <<"put", "newline">>)
  /\ UNCHANGED <<lfb, data, offset, current_console, outside, crossed, image>>

-----------------------------------------------------------------------------
\* The last console keeps what the kernel had printed; its cursor stands behind
\* the end of the screen already.
Init == /\ lfb = [i \in 0..(Size - 1) |-> Blank]
        /\ data = [c \in Console |-> lfb]
        /\ offset = [c \in Console |-> IF c = Last THEN Size ELSE 0]
        /\ current_console = 0
        /\ console_mutex = "free"
        /\ pc = [t \in Thread |-> Idle]
        /\ outside = {} /\ crossed = {}
        /\ image = data

Next == \/ \E t \in Printer, ch \in Letter \cup Move : PutcharStart(t, ch)
        \/ \E t \in Thread : PutcharDraw(t)
        \/ \E t \in Thread : PutcharScroll(t)
        \/ \E number \in Console : SwitchStart(number)
        \/ SwitchSave
        \/ SwitchShow
        \/ SwitchTurn
        \/ SwitchHead

Spec == Init /\ [][Next]_vars

-----------------------------------------------------------------------------
(* Properties *)

TypeOK ==
  /\ lfb \in Screen /\ data \in [Console -> Screen]
  /\ offset \in [Console -> 0..(Wide - 1)] /\ current_console \in Console
  /\ console_mutex \in Thread \cup {"free"}
  /\ outside \subseteq Console /\ crossed \subseteq Console

\* A console writes outside the screen, or leaves its cursor there between two
\* characters, only once its cursor has been moved back over the top left corner
\* (tty.cpp:154-160), whichever threads print and switch at once (tty.cpp:147-177).
\* The last console is excepted: it starts behind the end (tty.cpp:462), and the
\* test for scrolling asks for the end exactly (:171).
OnScreen ==
  LET Astray == {Last} \cup crossed
  IN /\ outside \subseteq Astray
     /\ console_mutex = "free" => \A c \in Console \ Astray : offset[c] < Size

\* No picture is lost or mixed with another: when nobody is at it the screen
\* shows what was printed on the current console, and every other console keeps
\* what was printed on it (tty.cpp:196-201).
PicturesKept ==
  console_mutex = "free" =>
    \A c \in Console : image[c] = IF c = current_console THEN lfb ELSE data[c]
=============================================================================
