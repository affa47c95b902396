----------------------------- MODULE MCTerminal -----------------------------
(***************************************************************************)
(* What is typed and what is printed.  A part of the run is one component; *)
(* the parts share no state, so that a behaviour of one of them at a time  *)
(* is all there is to see.                                                 *)
(*   screen:     two consoles, two threads that print and the one that     *)
(*               switches, on a screen of two lines and columns            *)
(*   keys:       the keyboard's decoder, for keys of each kind: modifiers, *)
(*               a letter, an arrow and the key of the keypad that shares  *)
(*               its code, F1, and one behind the tables                   *)
(*   characters: two programs that read one character at a time            *)
(*   lines:      two programs that read characters or lines                *)
(*   formats:    vsprintf, with every short string as a format, and with   *)
(*               directives and every word as argument                     *)
(***************************************************************************)
EXTENDS Printf

CONSTANTS
  Printer, Keyboard, CONSOLES, COLUMNS, ROWS, BEHIND, LETTERS, Letter,  \* of screen
  Key, HELD, LINE,                                             \* of keys, as CONSOLES
  Client, BUFFER, Lengths, TYPED, READS                        \* of characters and lines

VARIABLES
  part,
  lfb, data, offset, current_console, console_mutex, s_pc, outside, crossed, image,  \* of Console
  held, line, k_flags, escaped, cleared, touched, mistyped,                   \* of Keyboard
  threads, threads_mutex, kbd_mutex, stdin_read, started, kbd_buffer, count, pc,
  requests, reply, server, asked, waiting, delivered                        \* of Stdin

screenVars == <<lfb, data, offset, current_console, console_mutex, s_pc, outside, crossed, image>>
keyVars == <<held, line, k_flags, escaped, cleared, touched, mistyped>>
stdinVars == <<threads, threads_mutex, kbd_mutex, stdin_read, started, kbd_buffer, count,
               pc, requests, reply, server, asked, waiting, delivered>>
allVars == <<part, screenVars, keyVars, stdinVars, vars>>

-----------------------------------------------------------------------------
Screen == INSTANCE Console WITH pc <- s_pc

Plain(code) == [code |-> code, extended |-> FALSE]
Grey(code) == [code |-> code, extended |-> TRUE]
MCKey == {Plain(42), Plain(54), Plain(56), Grey(56), Plain(30), Grey(72), Plain(72),
          Plain(59), Plain(125)}
Keys == INSTANCE Keyboard WITH FAKE <- FALSE, flags <- k_flags

\* The programs' reads are of these lengths.
Reads(lengths) == INSTANCE Stdin WITH Lengths <- lengths
One == {1}

Character == {"%", "-", "0", "3", ".", "l", "d", "s", "t"}
ShortFormats == UNION {[1..n -> Character] : n \in 0..4}
Directives == {<<"%">> \o f \o w \o p \o <<c>> :
  f \in {<<>>, <<"-">>, <<"0">>, <<"#">>, <<"+">>, <<"-", "0">>, <<" ", "#", "0">>},
  w \in {<<>>, <<"3">>, <<"1", "3">>}, p \in {<<>>, <<".">>, <<".", "3">>},
  c \in {"o", "p", "x", "X", "d", "i", "u", "c", "s", "n"}}
Words == {<<a>> : a \in -HALF..(HALF - 1)}
Few == {<<3, 2, -1>>, <<-3, 1, 7>>}
MCPrinted == (ShortFormats \X Few) \cup (Directives \X Words)

ASSUME PartsAssumption ==
       /\ Screen!ConsoleAssumption /\ Keys!KeyboardAssumption
       /\ Reads(One)!StdinAssumption /\ Reads(Lengths)!StdinAssumption
       /\ \A p \in Printed : \A i \in DOMAIN p[1] : p[1][i] # "*"

-----------------------------------------------------------------------------
\* A decoder may begin with any flags, and vsprintf with any format; where their
\* part does not run they are pinned to one.
AllInit ==
  /\ part \in {"screen", "keys", "characters", "lines", "formats"}
  /\ Screen!Init /\ Reads(One)!Init
  /\ Keys!Init /\ (part # "keys" => k_flags = {} /\ ~escaped)
  /\ IF part = "formats" THEN Init ELSE Called(<<<<>>, <<>>>>)

AllNext ==
  /\ \/ part = "screen" /\ Screen!Next /\ UNCHANGED <<keyVars, stdinVars, vars>>
     \/ part = "keys" /\ Keys!Next /\ UNCHANGED <<screenVars, stdinVars, vars>>
     \/ part = "characters" /\ Reads(One)!Next /\ UNCHANGED <<screenVars, keyVars, vars>>
     \/ part = "lines" /\ Reads(Lengths)!Next /\ UNCHANGED <<screenVars, keyVars, vars>>
     \/ /\ part = "formats" /\ Next
        /\ UNCHANGED <<screenVars, keyVars, stdinVars>>
  /\ UNCHANGED part

\* The fairness of Stdin, where two programs read lines.
OfLines(A) == part = "lines" /\ A /\ UNCHANGED <<part, screenVars, keyVars, vars>>
AllSpec == /\ AllInit /\ [][AllNext]_allVars
           /\ SF_allVars(OfLines(Reads(Lengths)!MainStep)) /\ WF_allVars(OfLines(Reads(Lengths)!KeyboardStep))
           /\ \A t \in Reads(Lengths)!Thread : SF_allVars(OfLines(Reads(Lengths)!ThreadStep(t)))

-----------------------------------------------------------------------------
\* A console writes outside the screen, or leaves its cursor there between two
\* characters, only once its cursor was moved back over the top left corner, whichever
\* threads print and switch at once (tty.cpp:147-177); the last console, which starts
\* behind the end, is excepted.  When nobody is at it the screen shows what was
\* printed on the current console, and every other console keeps what was printed
\* on it (tty.cpp:196-201).
ScreenSound == Screen!TypeOK /\ Screen!OnScreen /\ Screen!PicturesKept

\* Whatever the flags were when the thread began and in whatever order keys go
\* down, repeat and come up, a modifier that has moved is taken to be held exactly
\* when it is; once each shift and alt has moved, every key types what it means with
\* the modifiers held when it was pressed, and nothing else (tty.cpp:222-318).
KeysSound == Keys!TypeOK /\ Keys!FlagsTrue /\ Keys!AsTyped

\* A thread a program is sent to is, or will be, in its loop (tty.cpp:341-352,
\* 509-518).  Programs that read one character at a time get what was typed, in
\* order and nothing twice, and nothing is lost while the buffer does not fill
\* (tty.cpp:322-337, 383-421); a line that is read ends without a backspace left in
\* it (tty.cpp:399-405).
ReadersSound == /\ Reads(One)!TypeOK /\ Reads(One)!NotOrphaned /\ Reads(Lengths)!LinesEdited
                /\ part = "characters" => Reads(One)!InOrder /\ Reads(One)!NothingLost

\* A field is as wide as was asked or as what stands in it needs, filled on one side
\* only; its digits and sign are the argument, the least one included; and a
\* directive without a star takes all its arguments and leaves nothing of itself in
\* the text (vsprintf.cpp:48-91, 143-197).
FormatsSound == TypeOK /\ FieldsFit /\ ReadsBack /\ DirectiveRead

\* Every resolve of the standard input is answered (tty.cpp:488-536).
ResolveAnswered == (part = "lines") => Reads(Lengths)!ResolveAnswered
=============================================================================
