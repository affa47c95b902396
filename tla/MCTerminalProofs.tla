-------------------------- MODULE MCTerminalProofs --------------------------
(***************************************************************************)
(* Proofs about the terminal, for any screen, keys, programs and bounds:   *)
(* only a console that was moved back over its first cell, or the last,    *)
(* writes outside the screen, and every console keeps what was printed on  *)
(* it; the flags of the keyboard are true and keys are typed as they were  *)
(* meant; a thread a program is sent to is in its loop, reads return what  *)
(* was typed in order, and lines are edited; what is printed has the width *)
(* and the digits that were asked for.                                     *)
(***************************************************************************)
EXTENDS MCTerminal, Induction, SequenceTheorems, FiniteSetTheorems, TLAPS

-----------------------------------------------------------------------------
(* The screen *)

\* A newline takes the cursor to the next multiple of the columns.
Following(x, n) == x + n - ((x + n) % n)

LEMMA NextLine ==
  ASSUME NEW x \in Nat, NEW n \in Nat \ {0}
  PROVE  /\ Following(x, n) \in Nat /\ Following(x, n) <= x + n
         /\ \E q \in Int : Following(x, n) = q * n /\ q * n <= x + n
<1> DEFINE q == (x + n) \div n
           m == (x + n) % n
<1>1. /\ q \in Int /\ m \in 0..(n - 1) /\ x + n = q * n + m
  OBVIOUS
<1>2. Following(x, n) = x + n - m
  BY DEF Following
<1> HIDE DEF q, m
<1>3. q * n \in Int
  BY <1>1
<1>4. Following(x, n) = q * n
  BY <1>1, <1>2, <1>3
<1>5. Following(x, n) > x /\ Following(x, n) <= x + n
  BY <1>1, <1>2, <1>3
<1> QED BY <1>1, <1>3, <1>4, <1>5

\* It stays on a screen of whole lines.
LEMMA LineFits ==
  ASSUME NEW x \in Nat, NEW n \in Nat \ {0}, NEW r \in Nat, x < r * n
  PROVE  Following(x, n) <= r * n
<1>1. PICK q \in Int : Following(x, n) = q * n /\ q * n <= x + n
  BY NextLine
<1>2. q * n \in Int /\ r * n \in Int /\ (r + 1) * n = r * n + n
  OBVIOUS
<1>3. q * n < (r + 1) * n
  BY <1>1, <1>2
<1>4. q < r + 1
  BY <1>3
<1>5. q <= r
  BY <1>4
<1>6. q * n <= r * n
  BY <1>5
<1> QED BY <1>1, <1>6

LEMMA RestFits == ASSUME NEW n \in Nat, NEW m \in Nat \ {0} PROVE n % m \in Nat /\ n % m <= n
<1>1. n % m \in Nat /\ n % m <= m - 1
  OBVIOUS
<1>2. CASE n < m
  BY <1>1, <1>2
<1>3. CASE n >= m
  BY <1>1, <1>3
<1> QED BY <1>2, <1>3

LEMMA Wraps == ASSUME NEW y \in Nat, NEW w \in Nat, y < w PROVE y % w = y
OBVIOUS

-----------------------------------------------------------------------------
(* The screen *)

Within == {"put", "scroll", "save", "show", "turn"}

\* Where a thread of the terminal can be.
Place(t, where) ==
  \/ where = <<"idle">> \/ where = <<"scroll">>
  \/ \E ch \in Letter \cup Screen!Move : where = <<"put", ch>>
  \/ /\ t = Keyboard
     /\ \/ where = <<"head">>
        \/ \E what \in {"save", "show", "turn"}, number \in Screen!Console :
             where = <<what, number>>

\* The mutex is held by the thread that is between lock and unlock.
MutexInv ==
  /\ s_pc = [t \in Screen!Thread |-> s_pc[t]]
  /\ \A t \in Screen!Thread : /\ Place(t, s_pc[t])
                              /\ s_pc[t][1] \in Within <=> console_mutex = t

\* The consoles whose cursor may leave the screen; any other cursor stands behind
\* the end just until the screen is scrolled.
Astray == {Screen!Last} \cup crossed
CursorInv ==
  /\ \A c \in Screen!Console \ Astray : offset[c] <= Screen!Size
  /\ \A c \in Screen!Console \ Astray :
       offset[c] = Screen!Size =>
         c = current_console /\ \E t \in Screen!Thread : s_pc[t][1] = "scroll"
  /\ outside \subseteq Astray

\* Where the picture of each console is while the consoles are switched.
PictureInv ==
  /\ image \in [Screen!Console -> Screen!Screen]
  /\ IF s_pc[Keyboard][1] = "turn"
     THEN image = data /\ lfb = data[s_pc[Keyboard][2]]
     ELSE /\ image = [data EXCEPT ![current_console] = lfb]
          /\ s_pc[Keyboard][1] = "show" => data[current_console] = lfb

ScreenInv == Screen!TypeOK /\ MutexInv /\ CursorInv /\ PictureInv

LEMMA ScreenSizes ==
  /\ COLUMNS \in Nat \ {0} /\ ROWS \in Nat \ {0}
  /\ Screen!Size \in Nat /\ COLUMNS <= Screen!Size /\ Screen!Size = ROWS * COLUMNS
  /\ Screen!Wide \in Nat \ {0} /\ Screen!Size + COLUMNS < Screen!Wide
<1>1. /\ COLUMNS \in Nat \ {0} /\ ROWS \in Nat \ {0}
      /\ Screen!Size + COLUMNS < Screen!Wide /\ Screen!Size = ROWS * COLUMNS
  BY PartsAssumption DEF Screen!ConsoleAssumption, Screen!Size
<1>2. ROWS * COLUMNS \in Nat /\ COLUMNS <= ROWS * COLUMNS
  <2>1. PICK k \in Nat : ROWS = k + 1
    BY <1>1
  <2>2. ROWS * COLUMNS = k * COLUMNS + COLUMNS /\ k * COLUMNS \in Nat
    BY <2>1, <1>1
  <2> QED BY <2>2, <1>1
<1>3. Screen!Wide \in Nat \ {0}
  BY DEF Screen!Wide
<1> QED BY <1>1, <1>2, <1>3

LEMMA ScreenNames ==
  /\ Keyboard \in Screen!Thread /\ Keyboard \notin Printer /\ "free" \notin Screen!Thread
  /\ Screen!Thread = Printer \cup {Keyboard}
  /\ Screen!Last \in Screen!Console /\ 0 \in Screen!Console
BY PartsAssumption
   DEF Screen!ConsoleAssumption, Screen!Thread, Screen!Last, Screen!Console

\* Where the cursor goes, and what is written on the way: from the screen it leaves
\* it only backwards, from the top left corner.
LEMMA CursorMoves ==
  ASSUME NEW x \in 0..(Screen!Wide - 1), NEW ch \in Letter \cup Screen!Move
  PROVE  /\ Screen!Cursor(x, ch) \in 0..(Screen!Wide - 1)
         /\ x < Screen!Size /\ ~(x = 0 /\ ch \in {"backspace", "left"}) =>
              /\ Screen!Cursor(x, ch) <= Screen!Size
              /\ Screen!Written(x, ch) \subseteq 0..(Screen!Size - 1)
<1> DEFINE S == Screen!Size
           W == Screen!Wide
<1>0. S \in Nat /\ COLUMNS \in Nat \ {0} /\ x \in Nat /\ x < W /\ W \in Nat \ {0} /\ S + COLUMNS < W
  BY ScreenSizes
<1> HIDE DEF S, W
<1>1. Letter \cap Screen!Move = {}
  BY PartsAssumption DEF Screen!ConsoleAssumption, Screen!Move
<1>2. CASE ch = "newline"
  <2> DEFINE n == (x + COLUMNS) % W
  <2>1. Screen!Cursor(x, ch) = n - (n % COLUMNS)
    BY <1>2 DEF Screen!Cursor, Screen!NextLine, W
  <2>2. Screen!Written(x, ch) = {}
    BY <1>1, <1>2 DEF Screen!Written, Screen!Move
  <2>3. n \in 0..(W - 1)
    BY <1>0
  <2>4. x < S => n = x + COLUMNS
    <3>1. x < S => x + COLUMNS \in Nat /\ x + COLUMNS < W
      BY <1>0
    <3> QED BY ONLY <1>0, <3>1, Wraps
  <2> HIDE DEF n
  <2>5. n % COLUMNS \in Nat /\ n % COLUMNS <= n
    BY <1>0, <2>3, RestFits
  <2>6. Screen!Cursor(x, ch) \in 0..(W - 1)
    BY <1>0, <2>1, <2>3, <2>5
  <2>7. x < S => Screen!Cursor(x, ch) <= S
    <3>1. ROWS \in Nat /\ S = ROWS * COLUMNS
      BY ScreenSizes DEF S
    <3>2. x < ROWS * COLUMNS => Following(x, COLUMNS) <= ROWS * COLUMNS
      BY ONLY LineFits, <1>0, <3>1
    <3>3. x < S => Following(x, COLUMNS) <= S
      BY ONLY <3>1, <3>2
    <3>4. x < S => Screen!Cursor(x, ch) = Following(x, COLUMNS)
      <4>1. ASSUME x < S PROVE Screen!Cursor(x, ch) = Following(x, COLUMNS)
        <5>1. n = x + COLUMNS
          BY <4>1, <2>4
        <5>2. Following(x, COLUMNS) = n - (n % COLUMNS)
          BY <1>0, <2>3, <5>1 DEF Following
        <5> QED BY <2>1, <5>2
      <4> QED BY <4>1
    <3> QED BY ONLY <3>3, <3>4
  <2> QED BY <2>2, <2>6, <2>7 DEF S, W
<1>3. CASE ch \in {"backspace", "left"}
  <2>1. Screen!Cursor(x, ch) = (x - 1) % W /\ (x - 1) % W \in 0..(W - 1)
    BY <1>0, <1>3 DEF Screen!Cursor, W
  <2>2. x > 0 => (x - 1) % W = x - 1
    <3>1. x > 0 => x - 1 \in Nat /\ x - 1 < W
      BY <1>0
    <3> QED BY ONLY <1>0, <3>1, Wraps
  <2>3. Screen!Written(x, ch) \subseteq {(x - 1) % W}
    BY <1>1, <1>3 DEF Screen!Written, Screen!Move, W
  <2> QED BY <1>0, <1>3, <2>1, <2>2, <2>3 DEF S, W
<1>4. CASE ch \notin {"newline", "backspace", "left"}
  <2>1. Screen!Cursor(x, ch) = (x + 1) % W /\ (x + 1) % W \in 0..(W - 1)
    BY <1>0, <1>4 DEF Screen!Cursor, W
  <2>2. x < S => (x + 1) % W = x + 1
    <3>1. x < S => x + 1 \in Nat /\ x + 1 < W
      BY <1>0
    <3> QED BY ONLY <1>0, <3>1, Wraps
  <2>3. Screen!Written(x, ch) \subseteq {x}
    BY <1>4 DEF Screen!Written
  <2>4. x < S => {x} \subseteq 0..(S - 1) /\ (x + 1) % W <= S
    BY <1>0, <2>2
  <2> QED BY <2>1, <2>3, <2>4 DEF S, W
<1> QED BY <1>2, <1>3, <1>4

\* A thread moves; when it takes the mutex or has it, no other is within.
LEMMA MutexMoves ==
  ASSUME MutexInv, NEW t \in Screen!Thread, NEW where, Place(t, where),
         s_pc' = [s_pc EXCEPT ![t] = where],
         \/ where[1] \in Within /\ console_mutex \in {"free", t} /\ console_mutex' = t
         \/ where[1] \notin Within /\ console_mutex = t /\ console_mutex' = "free"
  PROVE  /\ MutexInv'
         /\ s_pc'[t] = where
         /\ \A u \in Screen!Thread \ {t} : s_pc'[u] = s_pc[u] /\ s_pc[u][1] \notin Within
<1>1. s_pc'[t] = where /\ \A u \in Screen!Thread \ {t} : s_pc'[u] = s_pc[u]
  BY DEF MutexInv
<1>2. s_pc' = [u \in Screen!Thread |-> s_pc'[u]]
  BY DEF MutexInv
<1>3. \A u \in Screen!Thread \ {t} : s_pc[u][1] \notin Within
  BY ScreenNames DEF MutexInv
<1>4. \A u \in Screen!Thread : Place(u, s_pc'[u])
  BY <1>1 DEF MutexInv
<1>5. \A u \in Screen!Thread : s_pc'[u][1] \in Within <=> console_mutex' = u
  BY <1>1, <1>3, ScreenNames
<1>6. MutexInv'
  BY <1>2, <1>4, <1>5 DEF MutexInv, Place
<1> QED BY <1>1, <1>3, <1>6

\* What a place's name says of it.
LEMMA PlaceNames ==
  ASSUME NEW t, NEW where, Place(t, where)
  PROVE  /\ where[1] = "put" => \E ch \in Letter \cup Screen!Move : where = <<"put", ch>>
         /\ \A what \in {"save", "show", "turn"} : where[1] = what =>
              t = Keyboard /\ \E number \in Screen!Console : where = <<what, number>>
         /\ where[1] = "head" => where = <<"head">>
BY DEF Place

\* Drawing a character and scrolling keep a screen a screen, and nothing is drawn
\* when the cell is outside.
LEMMA DrawnScreen ==
  ASSUME NEW screen \in Screen!Screen, NEW x, NEW ch \in Letter \cup Screen!Move
  PROVE  /\ Screen!Drawn(screen, x, ch) \in Screen!Screen
         /\ ~(Screen!Written(x, ch) \subseteq 0..(Screen!Size - 1)) =>
              Screen!Drawn(screen, x, ch) = screen
<1>1. Letter \cap Screen!Move = {}
  BY PartsAssumption DEF Screen!ConsoleAssumption, Screen!Move
<1>2. /\ Screen!Written(x, ch) # {} => ch = "backspace" \/ ch \in Letter
      /\ \E w : Screen!Written(x, ch) \subseteq {w}
  BY <1>1 DEF Screen!Written, Screen!Move
<1>3. screen = [i \in 0..(Screen!Size - 1) |-> screen[i]]
  BY DEF Screen!Screen
<1> DEFINE cells == 0..(Screen!Size - 1)
<1> HIDE DEF cells
<1>4. \A i \in cells : screen[i] \in Letter \cup {Screen!Blank}
  BY DEF Screen!Screen, cells
<1>5. Screen!Drawn(screen, x, ch) =
        [i \in cells |-> IF i \notin Screen!Written(x, ch) THEN screen[i]
                         ELSE IF ch = "backspace" THEN Screen!Blank ELSE ch]
  BY DEF Screen!Drawn, cells
<1>6. Screen!Drawn(screen, x, ch) \in Screen!Screen
  <2>1. Screen!Drawn(screen, x, ch) \in [cells -> Letter \cup {Screen!Blank}]
    BY <1>2, <1>4, <1>5
  <2> QED BY <2>1 DEF Screen!Screen, cells
<1>7. ASSUME ~(Screen!Written(x, ch) \subseteq cells) PROVE Screen!Drawn(screen, x, ch) = screen
  <2>1. \A i \in cells : i \notin Screen!Written(x, ch)
    BY <1>2, <1>7
  <2>2. Screen!Drawn(screen, x, ch) = [i \in cells |-> screen[i]]
    BY <2>1, <1>5
  <2> QED BY <2>2, <1>3 DEF cells
<1> QED BY <1>6, <1>7 DEF cells

LEMMA ScrolledScreen ==
  ASSUME NEW screen \in Screen!Screen
  PROVE  Screen!Scrolled(screen) \in Screen!Screen
<1>1. ASSUME NEW i \in 0..(Screen!Size - 1), i + COLUMNS < Screen!Size
      PROVE  screen[i + COLUMNS] \in Letter \cup {Screen!Blank}
  <2>1. i + COLUMNS \in 0..(Screen!Size - 1)
    BY <1>1, ScreenSizes
  <2> QED BY <2>1 DEF Screen!Screen
<1> QED BY <1>1 DEF Screen!Scrolled, Screen!Screen

\* What a console's picture is a picture of.
LEMMA PictureTypes ==
  ASSUME ScreenInv
  PROVE  /\ lfb \in Screen!Screen /\ current_console \in Screen!Console
         /\ data \in [Screen!Console -> Screen!Screen]
         /\ image \in [Screen!Console -> Screen!Screen]
         /\ offset \in [Screen!Console -> 0..(Screen!Wide - 1)]
BY DEF ScreenInv, Screen!TypeOK, PictureInv

\* Cursors stay where they are when nobody is about to scroll.
LEMMA StillCursors ==
  ASSUME ScreenInv, UNCHANGED <<offset, outside, crossed>>,
         \A t \in Screen!Thread : s_pc[t][1] # "scroll"
  PROVE  CursorInv'
<1>1. \A c \in Screen!Console \ Astray : offset[c] <= Screen!Size /\ offset[c] # Screen!Size
  BY DEF ScreenInv, CursorInv
<1> QED BY <1>1 DEF ScreenInv, CursorInv, Astray

LEMMA ScreenPutcharStart ==
  ASSUME ScreenInv, NEW t \in Printer, NEW ch \in Letter \cup Screen!Move,
         Screen!PutcharStart(t, ch)
  PROVE  ScreenInv'
<1> USE DEF ScreenInv
<1>1. /\ t \in Screen!Thread /\ t # Keyboard
      /\ s_pc' = [s_pc EXCEPT ![t] = <<"put", ch>>]
      /\ console_mutex = "free" /\ console_mutex' = t
      /\ UNCHANGED <<lfb, data, offset, current_console, outside, crossed, image>>
  BY ScreenNames DEF Screen!PutcharStart, Screen!Goes, Screen!Locked
<1>2. Place(t, <<"put", ch>>) /\ <<"put", ch>>[1] \in Within
  BY DEF Place, Within
<1>3. /\ MutexInv' /\ s_pc'[t] = <<"put", ch>>
      /\ \A u \in Screen!Thread \ {t} : s_pc'[u] = s_pc[u] /\ s_pc[u][1] \notin Within
  BY MutexMoves, <1>1, <1>2
<1>4. \A u \in Screen!Thread : s_pc[u][1] \notin Within
  BY <1>1, ScreenNames DEF MutexInv
<1>5. CursorInv'
  <2>1. \A u \in Screen!Thread : s_pc[u][1] # "scroll"
    BY <1>4 DEF Within
  <2> QED BY <1>1, <2>1, StillCursors
<1>6. PictureInv'
  <2>1. s_pc'[Keyboard] = s_pc[Keyboard]
    BY <1>1, <1>3, ScreenNames
  <2> QED BY <1>1, <2>1 DEF PictureInv
<1>7. Screen!TypeOK'
  BY <1>1 DEF Screen!TypeOK
<1> QED BY <1>3, <1>5, <1>6, <1>7

LEMMA ScreenPutcharDraw ==
  ASSUME ScreenInv, NEW t \in Screen!Thread, Screen!PutcharDraw(t)
  PROVE  ScreenInv'
<1> USE DEF ScreenInv
<1> DEFINE ch == s_pc[t][2]
           c == current_console
           x == offset[c]
           cells == 0..(Screen!Size - 1)
<1>1. /\ s_pc[t][1] = "put"
      /\ IF Screen!Written(x, ch) \subseteq cells
         THEN lfb' = Screen!Drawn(lfb, x, ch) /\ UNCHANGED outside
         ELSE outside' = outside \cup {c} /\ UNCHANGED lfb
      /\ image' = [image EXCEPT ![c] = Screen!Drawn(@, x, ch)]
      /\ offset' = [offset EXCEPT ![c] = Screen!Cursor(x, ch)]
      /\ crossed' = IF x = 0 /\ ch \in {"backspace", "left"} THEN crossed \cup {c} ELSE crossed
      /\ s_pc' = [s_pc EXCEPT ![t] = <<"scroll">>]
      /\ UNCHANGED <<data, current_console, console_mutex>>
  BY DEF Screen!PutcharDraw, Screen!At, Screen!Goes
<1>2. Place(t, s_pc[t])
  BY DEF MutexInv
<1>3. s_pc[t] = <<"put", ch>> /\ ch \in Letter \cup Screen!Move
  BY <1>1, <1>2, PlaceNames
<1>4. console_mutex = t
  BY <1>1 DEF MutexInv, Within
<1>5. /\ MutexInv' /\ s_pc'[t] = <<"scroll">>
      /\ \A u \in Screen!Thread \ {t} : s_pc'[u] = s_pc[u] /\ s_pc[u][1] \notin Within
  <2>1. Place(t, <<"scroll">>) /\ <<"scroll">>[1] \in Within
    BY DEF Place, Within
  <2> QED BY MutexMoves, <1>1, <1>4, <2>1
<1>6. c \in Screen!Console /\ x \in 0..(Screen!Wide - 1) /\ lfb \in Screen!Screen
  BY PictureTypes
<1>8. \A u \in Screen!Thread : s_pc[u][1] # "scroll"
  BY <1>1, <1>5 DEF Within
<1>7. crossed \subseteq crossed' /\ crossed' \subseteq crossed \cup {c}
  BY <1>1
<1>9. c \notin Astray => x < Screen!Size
  <2>1. c \notin Astray => x <= Screen!Size /\ x # Screen!Size
    BY <1>6, <1>8 DEF CursorInv
  <2> QED BY <2>1, <1>6, ScreenSizes
<1> DEFINE y == Screen!Cursor(x, ch)
<1>10. /\ y \in 0..(Screen!Wide - 1)
       /\ c \notin Astray' => y <= Screen!Size
       /\ c \notin Astray' => Screen!Written(x, ch) \subseteq cells
  <2>1. c \notin Astray' => c \notin Astray /\ ~(x = 0 /\ ch \in {"backspace", "left"})
    BY <1>1 DEF Astray
  <2> QED BY CursorMoves, <1>3, <1>6, <1>9, <2>1
<1> HIDE DEF ch, x, y, c, cells
<1>11. offset' \in [Screen!Console -> 0..(Screen!Wide - 1)]
  BY <1>1, <1>6, <1>10, PictureTypes DEF y
<1>12. /\ offset'[c] = y
       /\ \A d \in Screen!Console \ {c} : offset'[d] = offset[d]
  BY <1>1, <1>6, PictureTypes DEF y
<1>13. CursorInv'
  <2>1. \A d \in Screen!Console \ {c} : d \notin Astray' => d \notin Astray
    BY <1>7 DEF Astray
  <2>2. \A d \in Screen!Console \ Astray' : offset'[d] <= Screen!Size
    BY <2>1, <1>10, <1>12 DEF CursorInv
  <2>3. \A d \in Screen!Console \ Astray' : offset'[d] = Screen!Size => d = c
    BY <2>1, <1>12, <1>8 DEF CursorInv
  <2>4. Astray \subseteq Astray'
    BY <1>7 DEF Astray
  <2>5. outside' \subseteq Astray'
    <3>1. outside \subseteq Astray'
      BY <2>4 DEF CursorInv
    <3>2. c \notin Astray' => outside' = outside
      BY <1>1, <1>10
    <3>3. outside' \subseteq outside \cup {c}
      BY <1>1
    <3> QED BY <3>1, <3>2, <3>3
  <2>6. c = current_console' /\ s_pc'[t][1] = "scroll"
    BY <1>1, <1>5 DEF c
  <2> QED BY <2>2, <2>3, <2>5, <2>6 DEF CursorInv
<1>14. s_pc[Keyboard][1] \notin {"turn", "show"} /\ s_pc'[Keyboard][1] \notin {"turn", "show"}
  BY <1>1, <1>5, ScreenNames DEF Within
<1>15. lfb' = Screen!Drawn(lfb, x, ch) /\ lfb' \in Screen!Screen
  BY <1>1, <1>3, <1>6, DrawnScreen DEF cells
<1>16. PictureInv'
  <2>1. image = [data EXCEPT ![c] = lfb]
    BY <1>14 DEF PictureInv, c
  <2>2. image[c] = lfb
    BY <2>1, <1>6, PictureTypes
  <2>3. image' = [image EXCEPT ![c] = lfb']
    BY <1>1, <1>15, <2>2
  <2>4. image' = [data EXCEPT ![c] = lfb']
    BY <2>1, <2>3, <1>6, PictureTypes
  <2>5. image' \in [Screen!Console -> Screen!Screen]
    BY <2>4, <1>15, PictureTypes
  <2> QED BY <2>4, <2>5, <1>1, <1>14 DEF PictureInv, c, Screen!Screen
<1>17. Screen!TypeOK'
  BY <1>1, <1>6, <1>7, <1>11, <1>15 DEF Screen!TypeOK, Screen!Screen
<1> QED BY <1>5, <1>13, <1>16, <1>17

LEMMA ScreenPutcharScroll ==
  ASSUME ScreenInv, NEW t \in Screen!Thread, Screen!PutcharScroll(t)
  PROVE  ScreenInv'
<1> USE DEF ScreenInv
<1> DEFINE c == current_console
<1>1. /\ s_pc[t][1] = "scroll"
      /\ IF offset[c] = Screen!Size
         THEN /\ offset' = [offset EXCEPT ![c] = @ - COLUMNS]
              /\ lfb' = Screen!Scrolled(lfb)
              /\ image' = [image EXCEPT ![c] = Screen!Scrolled(@)]
         ELSE UNCHANGED <<offset, lfb, image>>
      /\ console_mutex' = "free" /\ s_pc' = [s_pc EXCEPT ![t] = <<"idle">>]
      /\ UNCHANGED <<data, current_console, outside, crossed>>
  BY DEF Screen!PutcharScroll, Screen!At, Screen!Goes, Screen!Unlocked, Screen!Idle,
         Screen!Full
<1>2. console_mutex = t
  BY <1>1 DEF MutexInv, Within
<1>3. /\ MutexInv' /\ s_pc'[t] = <<"idle">>
      /\ \A u \in Screen!Thread \ {t} : s_pc'[u] = s_pc[u] /\ s_pc[u][1] \notin Within
  <2>1. Place(t, <<"idle">>) /\ <<"idle">>[1] \notin Within
    BY DEF Place, Within
  <2> QED BY MutexMoves, <1>1, <1>2, <2>1
<1>4. c \in Screen!Console /\ offset[c] \in 0..(Screen!Wide - 1) /\ lfb \in Screen!Screen
  BY PictureTypes
<1> HIDE DEF c
<1>5. offset' \in [Screen!Console -> 0..(Screen!Wide - 1)]
      /\ \A d \in Screen!Console : offset'[d] <= offset[d]
  <2>1. CASE offset[c] = Screen!Size
    <3>1. offset[c] - COLUMNS \in 0..(Screen!Wide - 1) /\ offset[c] - COLUMNS <= offset[c]
      BY <1>4, <2>1, ScreenSizes
    <3>2. offset' = [offset EXCEPT ![c] = offset[c] - COLUMNS]
      BY <1>1, <2>1
    <3> QED BY <1>4, <3>1, <3>2, PictureTypes
  <2>2. CASE offset[c] # Screen!Size
    <3>1. offset' = offset
      BY <1>1, <2>2
    <3> QED BY <3>1, PictureTypes
  <2> QED BY <2>1, <2>2
<1>6. \A d \in Screen!Console \ Astray : offset'[d] # Screen!Size
  <2>1. CASE offset[c] = Screen!Size
    <3>1. offset'[c] # Screen!Size
      BY <1>1, <1>4, <2>1, PictureTypes, ScreenSizes
    <3>2. \A d \in Screen!Console \ {c} : offset'[d] = offset[d]
      BY <1>1, <1>4, <2>1, PictureTypes
    <3> QED BY <3>1, <3>2 DEF CursorInv, c
  <2>2. CASE offset[c] # Screen!Size
    <3>1. offset' = offset
      BY <1>1, <2>2
    <3> QED BY <3>1, <2>2 DEF CursorInv, c
  <2> QED BY <2>1, <2>2
<1>7. CursorInv'
  <2>1. \A d \in Screen!Console \ Astray : offset'[d] <= Screen!Size
    BY <1>5, PictureTypes, ScreenSizes DEF CursorInv
  <2>2. outside' = outside /\ Astray' = Astray
    BY <1>1 DEF Astray
  <2> QED BY <1>6, <2>1, <2>2 DEF CursorInv
<1>8. s_pc[Keyboard][1] \notin {"turn", "show"} /\ s_pc'[Keyboard][1] \notin {"turn", "show"}
  BY <1>1, <1>3, ScreenNames DEF Within
<1>9. image = [data EXCEPT ![c] = lfb]
  BY <1>8 DEF PictureInv, c
<1>10. PictureInv' /\ lfb' \in Screen!Screen
  <2>1. CASE offset[c] = Screen!Size
    <3>1. lfb' \in Screen!Screen
      BY <1>1, <1>4, <2>1, ScrolledScreen
    <3>2. image' = [data EXCEPT ![c] = lfb']
      BY <1>1, <1>4, <1>9, <2>1, PictureTypes
    <3>3. image' \in [Screen!Console -> Screen!Screen]
      BY <3>1, <3>2, PictureTypes
    <3> QED BY <1>1, <1>8, <3>1, <3>2, <3>3 DEF PictureInv, c, Screen!Screen
  <2>2. CASE offset[c] # Screen!Size
    <3>1. UNCHANGED <<lfb, image>>
      BY <1>1, <2>2
    <3> QED BY <1>1, <1>4, <1>8, <1>9, <3>1, PictureTypes DEF PictureInv, c, Screen!Screen
  <2> QED BY <2>1, <2>2
<1>11. Screen!TypeOK'
  BY <1>1, <1>4, <1>5, <1>10 DEF Screen!TypeOK, Screen!Screen
<1> QED BY <1>3, <1>7, <1>10, <1>11

LEMMA ScreenSwitchStart ==
  ASSUME ScreenInv, NEW number \in Screen!Console, Screen!SwitchStart(number)
  PROVE  ScreenInv'
<1> USE DEF ScreenInv
<1>1. /\ s_pc[Keyboard][1] = "idle"
      /\ s_pc' = [s_pc EXCEPT ![Keyboard] = <<"save", number>>]
      /\ console_mutex = "free" /\ console_mutex' = Keyboard
      /\ UNCHANGED <<lfb, data, offset, current_console, outside, crossed, image>>
  BY DEF Screen!SwitchStart, Screen!Goes, Screen!Locked, Screen!At
<1>2. Place(Keyboard, <<"save", number>>) /\ <<"save", number>>[1] \in Within
  BY DEF Place, Within
<1>3. /\ MutexInv' /\ s_pc'[Keyboard] = <<"save", number>>
      /\ \A u \in Screen!Thread \ {Keyboard} : s_pc'[u] = s_pc[u] /\ s_pc[u][1] \notin Within
  BY MutexMoves, <1>1, <1>2, ScreenNames
<1>4. CursorInv'
  <2>1. \A u \in Screen!Thread : s_pc[u][1] # "scroll"
    BY <1>1, <1>3 DEF Within
  <2> QED BY <1>1, <2>1, StillCursors
<1>5. PictureInv'
  <2>1. s_pc[Keyboard][1] \notin {"turn", "show"} /\ s_pc'[Keyboard][1] \notin {"turn", "show"}
    BY <1>1, <1>3
  <2> QED BY <1>1, <2>1 DEF PictureInv
<1>6. Screen!TypeOK'
  BY <1>1, ScreenNames DEF Screen!TypeOK
<1> QED BY <1>3, <1>4, <1>5, <1>6

LEMMA ScreenSwitchSave ==
  ASSUME ScreenInv, Screen!SwitchSave PROVE ScreenInv'
<1> USE DEF ScreenInv
<1>1. /\ s_pc[Keyboard][1] = "save"
      /\ data' = [data EXCEPT ![current_console] = lfb]
      /\ s_pc' = [s_pc EXCEPT ![Keyboard] = <<"show", s_pc[Keyboard][2]>>]
      /\ UNCHANGED <<lfb, offset, current_console, console_mutex, outside, crossed, image>>
  BY DEF Screen!SwitchSave, Screen!Saved, Screen!Goes, Screen!At
<1>2. PICK number \in Screen!Console : s_pc[Keyboard] = <<"save", number>>
  BY <1>1, ScreenNames, PlaceNames DEF MutexInv
<1>3. console_mutex = Keyboard
  BY <1>1, ScreenNames DEF MutexInv, Within
<1>4. s_pc' = [s_pc EXCEPT ![Keyboard] = <<"show", number>>]
  BY <1>1, <1>2
<1>5. Place(Keyboard, <<"show", number>>) /\ <<"show", number>>[1] \in Within
  BY DEF Place, Within
<1>6. /\ MutexInv' /\ s_pc'[Keyboard] = <<"show", number>>
      /\ \A u \in Screen!Thread \ {Keyboard} : s_pc'[u] = s_pc[u] /\ s_pc[u][1] \notin Within
  BY MutexMoves, <1>1, <1>3, <1>4, <1>5, ScreenNames
<1>7. CursorInv'
  <2>1. \A u \in Screen!Thread : s_pc[u][1] # "scroll"
    BY <1>1, <1>6 DEF Within
  <2> QED BY <1>1, <2>1, StillCursors
<1>8. image = data'
  BY <1>1 DEF PictureInv
<1>9. data' \in [Screen!Console -> Screen!Screen] /\ data'[current_console] = lfb
  BY <1>1, PictureTypes
<1>10. PictureInv'
  <2>1. image' = [data' EXCEPT ![current_console'] = lfb']
    BY <1>1, <1>8, PictureTypes
  <2>2. s_pc'[Keyboard][1] # "turn"
    BY <1>6
  <2>3. image' \in [Screen!Console -> Screen!Screen] /\ data'[current_console'] = lfb'
    BY <1>1, <1>9, PictureTypes
  <2> QED BY <2>1, <2>2, <2>3 DEF PictureInv, Screen!Screen
<1>11. Screen!TypeOK'
  BY <1>1, <1>9 DEF Screen!TypeOK, Screen!Screen
<1> QED BY <1>6, <1>7, <1>10, <1>11

LEMMA ScreenSwitchShow ==
  ASSUME ScreenInv, Screen!SwitchShow PROVE ScreenInv'
<1> USE DEF ScreenInv
<1>1. /\ s_pc[Keyboard][1] = "show"
      /\ lfb' = data[s_pc[Keyboard][2]]
      /\ s_pc' = [s_pc EXCEPT ![Keyboard] = <<"turn", s_pc[Keyboard][2]>>]
      /\ UNCHANGED <<data, offset, current_console, console_mutex, outside, crossed, image>>
  BY DEF Screen!SwitchShow, Screen!Goes, Screen!At
<1>2. PICK number \in Screen!Console : s_pc[Keyboard] = <<"show", number>>
  BY <1>1, ScreenNames, PlaceNames DEF MutexInv
<1>3. console_mutex = Keyboard
  BY <1>1, ScreenNames DEF MutexInv, Within
<1>4. s_pc' = [s_pc EXCEPT ![Keyboard] = <<"turn", number>>] /\ lfb' = data[number]
  BY <1>1, <1>2
<1>5. Place(Keyboard, <<"turn", number>>) /\ <<"turn", number>>[1] \in Within
  BY DEF Place, Within
<1>6. /\ MutexInv' /\ s_pc'[Keyboard] = <<"turn", number>>
      /\ \A u \in Screen!Thread \ {Keyboard} : s_pc'[u] = s_pc[u] /\ s_pc[u][1] \notin Within
  BY MutexMoves, <1>1, <1>3, <1>4, <1>5, ScreenNames
<1>7. CursorInv'
  <2>1. \A u \in Screen!Thread : s_pc[u][1] # "scroll"
    BY <1>1, <1>6 DEF Within
  <2> QED BY <1>1, <2>1, StillCursors
<1>8. image = data
  BY <1>1, PictureTypes DEF PictureInv
<1>9. PictureInv' /\ lfb' \in Screen!Screen
  BY <1>1, <1>4, <1>6, <1>8, PictureTypes DEF PictureInv, Screen!Screen
<1>10. Screen!TypeOK'
  BY <1>1, <1>9 DEF Screen!TypeOK, Screen!Screen
<1> QED BY <1>6, <1>7, <1>9, <1>10

LEMMA ScreenSwitchTurn ==
  ASSUME ScreenInv, Screen!SwitchTurn PROVE ScreenInv'
<1> USE DEF ScreenInv
<1>1. /\ s_pc[Keyboard][1] = "turn"
      /\ current_console' = s_pc[Keyboard][2]
      /\ console_mutex' = "free"
      /\ s_pc' = [s_pc EXCEPT ![Keyboard] = IF offset[s_pc[Keyboard][2]] = 0 THEN <<"head">>
                                           ELSE <<"idle">>]
      /\ UNCHANGED <<lfb, data, offset, outside, crossed, image>>
  BY DEF Screen!SwitchTurn, Screen!Goes, Screen!At, Screen!Unlocked, Screen!Idle
<1>2. PICK number \in Screen!Console : s_pc[Keyboard] = <<"turn", number>>
  BY <1>1, ScreenNames, PlaceNames DEF MutexInv
<1>3. console_mutex = Keyboard
  BY <1>1, ScreenNames DEF MutexInv, Within
<1>4. PICK where \in {<<"head">>, <<"idle">>} :
        /\ s_pc' = [s_pc EXCEPT ![Keyboard] = where]
        /\ where = <<"head">> => offset[number] = 0
  <2>1. s_pc' = [s_pc EXCEPT ![Keyboard] = IF offset[number] = 0 THEN <<"head">>
                                          ELSE <<"idle">>]
    BY <1>1, <1>2
  <2>2. CASE offset[number] = 0
    BY <2>1, <2>2
  <2>3. CASE offset[number] # 0
    <3>1. s_pc' = [s_pc EXCEPT ![Keyboard] = <<"idle">>] /\ <<"idle">> # <<"head">>
      BY <2>1, <2>3
    <3> QED BY <3>1
  <2> QED BY <2>2, <2>3
<1>5. Place(Keyboard, where) /\ where[1] \notin Within
  BY DEF Place, Within
<1>6. /\ MutexInv' /\ s_pc'[Keyboard] = where
      /\ \A u \in Screen!Thread \ {Keyboard} : s_pc'[u] = s_pc[u] /\ s_pc[u][1] \notin Within
  BY MutexMoves, <1>1, <1>3, <1>4, <1>5, ScreenNames
<1>7. \A u \in Screen!Thread : s_pc[u][1] # "scroll"
  BY <1>1, <1>6 DEF Within
<1>8. current_console' = number
  BY <1>1, <1>2
<1>9. CursorInv'
  BY <1>1, <1>7, StillCursors
<1>10. image = data /\ lfb = data[number]
  BY <1>1, <1>2 DEF PictureInv
<1>11. PictureInv'
  <2>1. image' = [data' EXCEPT ![current_console'] = lfb']
    BY <1>1, <1>8, <1>10, PictureTypes
  <2>2. s_pc'[Keyboard][1] \notin {"turn", "show"}
    BY <1>6
  <2> QED BY <1>1, <2>1, <2>2, PictureTypes DEF PictureInv, Screen!Screen
<1>12. Screen!TypeOK'
  BY <1>1, <1>8 DEF Screen!TypeOK
<1> QED BY <1>6, <1>9, <1>11, <1>12

LEMMA ScreenSwitchHead ==
  ASSUME ScreenInv, Screen!SwitchHead PROVE ScreenInv'
<1> USE DEF ScreenInv
<1>1. /\ s_pc[Keyboard][1] = "head"
      /\ s_pc' = [s_pc EXCEPT ![Keyboard] = <<"put", "newline">>]
      /\ console_mutex = "free" /\ console_mutex' = Keyboard
      /\ UNCHANGED <<lfb, data, offset, current_console, outside, crossed, image>>
  BY DEF Screen!SwitchHead, Screen!Goes, Screen!Locked, Screen!At
<1>2. Place(Keyboard, <<"put", "newline">>) /\ <<"put", "newline">>[1] \in Within
  BY DEF Place, Within, Screen!Move
<1>3. /\ MutexInv' /\ s_pc'[Keyboard] = <<"put", "newline">>
      /\ \A u \in Screen!Thread \ {Keyboard} : s_pc'[u] = s_pc[u] /\ s_pc[u][1] \notin Within
  BY MutexMoves, <1>1, <1>2, ScreenNames
<1>5. CursorInv'
  <2>1. \A u \in Screen!Thread : s_pc[u][1] # "scroll"
    BY <1>1, <1>3 DEF Within
  <2> QED BY <1>1, <2>1, StillCursors
<1>6. PictureInv'
  <2>1. s_pc[Keyboard][1] \notin {"turn", "show"} /\ s_pc'[Keyboard][1] \notin {"turn", "show"}
    BY <1>1, <1>3
  <2> QED BY <1>1, <2>1 DEF PictureInv
<1>7. Screen!TypeOK'
  BY <1>1, ScreenNames DEF Screen!TypeOK
<1> QED BY <1>3, <1>5, <1>6, <1>7

LEMMA ScreenStep == ASSUME ScreenInv, Screen!Next PROVE ScreenInv'
BY ScreenNames, ScreenPutcharStart, ScreenPutcharDraw, ScreenPutcharScroll, ScreenSwitchStart,
   ScreenSwitchSave, ScreenSwitchShow, ScreenSwitchTurn, ScreenSwitchHead DEF Screen!Next

LEMMA ScreenInit == ASSUME Screen!Init PROVE ScreenInv
<1>1. lfb \in Screen!Screen /\ data = [c \in Screen!Console |-> lfb] /\ image = data
      /\ current_console = 0 /\ outside = {} /\ crossed = {} /\ console_mutex = "free"
      /\ s_pc = [t \in Screen!Thread |-> <<"idle">>]
      /\ offset = [c \in Screen!Console |-> IF c = Screen!Last THEN Screen!Size ELSE 0]
  BY DEF Screen!Init, Screen!Screen, Screen!Idle
<1>2. Screen!TypeOK
  BY <1>1, ScreenNames, ScreenSizes DEF Screen!TypeOK
<1>3. MutexInv
  BY <1>1, ScreenNames DEF MutexInv, Place, Within
<1>4. CursorInv
  BY <1>1, ScreenNames, ScreenSizes DEF CursorInv, Astray
<1>5. PictureInv
  BY <1>1, ScreenNames DEF PictureInv
<1> QED BY <1>2, <1>3, <1>4, <1>5 DEF ScreenInv

LEMMA ScreenInvSound == ASSUME ScreenInv PROVE ScreenSound
<1>1. Screen!OnScreen
  <2>1. outside \subseteq Astray
    BY DEF ScreenInv, CursorInv
  <2>2. ASSUME console_mutex = "free", NEW c \in Screen!Console \ Astray
        PROVE  offset[c] < Screen!Size
    <3>1. \A t \in Screen!Thread : s_pc[t][1] # "scroll"
      BY <2>2, ScreenNames DEF ScreenInv, MutexInv, Within
    <3>2. offset[c] <= Screen!Size /\ offset[c] # Screen!Size
      BY <3>1 DEF ScreenInv, CursorInv
    <3> QED BY <3>2, PictureTypes, ScreenSizes
  <2> QED BY <2>1, <2>2 DEF Screen!OnScreen, Astray
<1>2. Screen!PicturesKept
  <2>1. ASSUME console_mutex = "free" PROVE image = [data EXCEPT ![current_console] = lfb]
    <3>1. s_pc[Keyboard][1] # "turn"
      BY <2>1, ScreenNames DEF ScreenInv, MutexInv, Within
    <3> QED BY <3>1 DEF ScreenInv, PictureInv
  <2> QED BY <2>1, PictureTypes DEF Screen!PicturesKept
<1> QED BY <1>1, <1>2 DEF ScreenInv, ScreenSound

\* The screen in a step of the run.
LEMMA ScreenAllNext == ASSUME ScreenInv, [AllNext]_allVars PROVE ScreenInv'
<1>1. CASE Screen!Next
  BY <1>1, ScreenStep
<1>2. CASE UNCHANGED screenVars
  BY <1>2 DEF screenVars, ScreenInv, Screen!TypeOK, MutexInv, CursorInv, Astray, PictureInv, Place
<1>3. Screen!Next \/ UNCHANGED screenVars
  BY DEF AllNext, allVars
<1> QED BY <1>1, <1>2, <1>3

\* Whatever is printed, and whichever threads print and switch at once: a console
\* writes outside the screen, or leaves its cursor there between two characters, only
\* once it has been moved back over the top left corner, but for the last one, which
\* starts behind the end; and no picture is lost or mixed with another's
\* (tty.cpp:147-177, 196-201).
THEOREM ScreenAlwaysSound == AllSpec => []ScreenSound
<1>1. AllInit => ScreenInv
  BY ScreenInit DEF AllInit
<1>2. ScreenInv /\ [AllNext]_allVars => ScreenInv'
  BY ScreenAllNext
<1>3. ScreenInv => ScreenSound
  BY ScreenInvSound
<1> QED BY <1>1, <1>2, <1>3, PTL DEF AllSpec

-----------------------------------------------------------------------------
(* The keys *)

\* What the bytes that are still to be decoded will do: which bytes are behind a
\* prefix, which modifiers each moves, and the flags when the i-th is decoded.
AfterPrefix(bytes, esc, i) == IF i = 1 THEN esc ELSE bytes[i - 1].code = Keys!Prefix
Moving(bytes, esc, i) ==
  IF bytes[i].code = Keys!Prefix THEN {}
  ELSE Keys!ModifierOf(bytes[i].code % 128, AfterPrefix(bytes, esc, i))
Kept(bytes, esc, m, i, j) == \A l \in i..(j - 1) : m \notin Moving(bytes, esc, l)
FlagsAt(bytes, esc, fl, i) ==
  {m \in Keys!Modifier :
     \/ m \in fl /\ Kept(bytes, esc, m, 1, i)
     \/ \E j \in 1..(i - 1) : /\ m \in Moving(bytes, esc, j) /\ bytes[j].code < 128
                              /\ Kept(bytes, esc, m, j + 1, i)}

\* What a code is decoded to.
Meant(code, esc, fl) ==
  IF Keys!IsShift(code) THEN Keys!Nothing
  ELSE IF esc THEN IF code \in Keys!Arrow THEN Keys!Simply("arrow", code) ELSE Keys!Nothing
  ELSE IF code >= 128 THEN Keys!Nothing
  ELSE IF fl \cap Keys!Alts # {}
       THEN IF code \in Keys!Switching THEN Keys!Simply("console", code - 59) ELSE Keys!Nothing
  ELSE IF code \in Keys!Behind THEN Keys!Unknown
  ELSE IF code \in Keys!Printing THEN Keys!Char(code, fl \cap Keys!Shifts # {})
  ELSE Keys!Nothing

\* A prefix is followed by the code it belongs to, which is not a shift's.
PrefixesPaired ==
  \A i \in 1..Len(line) : line[i].code = Keys!Prefix =>
    i < Len(line) /\ line[i + 1].code # Keys!Prefix /\ ~Keys!IsShift(line[i + 1].code)

\* From the first byte on that sets it, escaped says that the last byte was a prefix
\* whose code is still to come.
EscapedInv ==
  /\ ~cleared => touched = {}
  /\ cleared /\ escaped =>
       line # <<>> /\ line[1].code # Keys!Prefix /\ ~Keys!IsShift(line[1].code)

\* A byte that comes to be decoded means what its key meant.
MeaningInv ==
  \A i \in 1..Len(line) :
    \/ line[i].means = Keys!Unknown
    \/ line[i].means = Keys!Nothing /\ line[i].code >= 128
    \/ /\ cleared
       /\ line[i].means = Meant(line[i].code, AfterPrefix(line, escaped, i),
                               FlagsAt(line, escaped, k_flags, i))

\* The flags will tell which modifiers are held.
HeldInv ==
  \A m \in touched :
    m \in FlagsAt(line, escaped, k_flags, Len(line) + 1) <=> m \in Keys!Down

KeysInv == /\ Keys!TypeOK /\ Keys!AsTyped
           /\ PrefixesPaired /\ EscapedInv /\ MeaningInv /\ HeldInv

Byte == [code : 1..255, means : Keys!Meaning]

LEMMA KeyCodes ==
  ASSUME NEW k \in Key, NEW c \in {k.code, k.code + 128}
  PROVE  /\ k.code \in 1..127 /\ k.extended \in BOOLEAN
         /\ c \in 1..255 /\ c # Keys!Prefix /\ c % 128 = k.code
         /\ k.extended => ~Keys!IsShift(c)
         /\ Keys!IsShift(c) <=> k.code \in {42, 54}
<1>1. k \in [code : 1..127 \ {96}, extended : BOOLEAN]
      /\ (k.extended => k.code \notin {42, 54})
  BY PartsAssumption DEF Keys!KeyboardAssumption
<1>2. PICK n \in 1..127 : n = k.code /\ n # 96
  BY <1>1
<1>3. c \in {n, n + 128}
  BY <1>2
<1>4. c % 128 = n
  BY <1>3
<1> QED BY <1>1, <1>2, <1>3, <1>4 DEF Keys!Prefix, Keys!IsShift

\* Each modifier has one key.
LEMMA OneKey ==
  ASSUME NEW j \in Key, NEW k \in Key, Keys!OfKey(j) \cap Keys!OfKey(k) # {}
  PROVE  j = k
<1>1. /\ j \in [code : 1..127 \ {96}, extended : BOOLEAN]
      /\ k \in [code : 1..127 \ {96}, extended : BOOLEAN]
      /\ (j.extended => j.code \notin {42, 54}) /\ (k.extended => k.code \notin {42, 54})
  BY PartsAssumption DEF Keys!KeyboardAssumption
<1>2. j.code = k.code /\ j.extended = k.extended
  BY <1>1 DEF Keys!OfKey, Keys!ModifierOf
<1> QED BY <1>1, <1>2

LEMMA ModifiersAre ==
  ASSUME NEW c, NEW e \in BOOLEAN PROVE Keys!ModifierOf(c, e) \subseteq Keys!Modifier
BY DEF Keys!ModifierOf, Keys!Modifier

\* Before the first byte the flags are what they are.
LEMMA FlagsFirst ==
  ASSUME NEW bytes, NEW esc, NEW fl \in SUBSET Keys!Modifier
  PROVE  FlagsAt(bytes, esc, fl, 1) = fl
BY DEF FlagsAt, Kept

\* A byte sets the modifiers it moves, or takes them away.
LEMMA FlagsNext ==
  ASSUME NEW bytes, NEW esc, NEW fl, NEW i \in Nat \ {0},
         Moving(bytes, esc, i) \subseteq Keys!Modifier
  PROVE  FlagsAt(bytes, esc, fl, i + 1) =
           IF bytes[i].code < 128 THEN FlagsAt(bytes, esc, fl, i) \cup Moving(bytes, esc, i)
           ELSE FlagsAt(bytes, esc, fl, i) \ Moving(bytes, esc, i)
<1> DEFINE M(l) == Moving(bytes, esc, l)
           D(l) == bytes[l].code < 128
<1> HIDE DEF M, D
<1>1. \A m : \A j \in 1..(i + 1) : Kept(bytes, esc, m, j, i + 1) <=>
                (j = i + 1 \/ (Kept(bytes, esc, m, j, i) /\ m \notin M(i)))
  <2> TAKE m
  <2> TAKE j \in 1..(i + 1)
  <2>1. j..((i + 1) - 1) = (j..(i - 1)) \cup (IF j = i + 1 THEN {} ELSE {i})
    OBVIOUS
  <2>2. j = i + 1 => j..(i - 1) = {}
    OBVIOUS
  <2> QED BY <2>1, <2>2 DEF Kept, M
<1>2. \A m : m \in FlagsAt(bytes, esc, fl, i + 1) <=>
        /\ m \in Keys!Modifier
        /\ \/ m \in fl /\ Kept(bytes, esc, m, 1, i) /\ m \notin M(i)
           \/ \E j \in 1..i : m \in M(j) /\ D(j) /\ Kept(bytes, esc, m, j + 1, i + 1)
  BY <1>1 DEF FlagsAt, M, D
<1>3. \A m : (\E j \in 1..i : m \in M(j) /\ D(j) /\ Kept(bytes, esc, m, j + 1, i + 1)) <=>
             \/ m \in M(i) /\ D(i)
             \/ m \notin M(i) /\ \E j \in 1..(i - 1) : m \in M(j) /\ D(j) /\ Kept(bytes, esc, m, j + 1, i)
  <2> TAKE m
  <2>1. Kept(bytes, esc, m, i + 1, i + 1)
    BY DEF Kept
  <2>2. \A j \in 1..(i - 1) : j \in 1..i /\ j + 1 \in 1..(i + 1) /\ j + 1 # i + 1
    OBVIOUS
  <2>3. \A j \in 1..i : j = i \/ j \in 1..(i - 1)
    OBVIOUS
  <2>4. i \in 1..i
    OBVIOUS
  <2> QED BY <1>1, <2>1, <2>2, <2>3, <2>4
<1>4. \A m : m \in FlagsAt(bytes, esc, fl, i) <=>
        /\ m \in Keys!Modifier
        /\ \/ m \in fl /\ Kept(bytes, esc, m, 1, i)
           \/ \E j \in 1..(i - 1) : m \in M(j) /\ D(j) /\ Kept(bytes, esc, m, j + 1, i)
  BY DEF FlagsAt, M, D
<1>5. \A m : m \in FlagsAt(bytes, esc, fl, i + 1) <=>
             IF D(i) THEN m \in FlagsAt(bytes, esc, fl, i) \/ m \in M(i)
             ELSE m \in FlagsAt(bytes, esc, fl, i) /\ m \notin M(i)
  <2>1. M(i) \subseteq Keys!Modifier
    BY DEF M
  <2> QED BY <1>2, <1>3, <1>4, <2>1
<1> QED BY <1>5 DEF M, D

\* Once the first of the bytes is decoded, the rest does what it would have done.
Ahead(b1, e1, f1, b2, e2, f2, n) ==
  \A i \in 1..(n + 1) : FlagsAt(b2, e2, f2, i) = FlagsAt(b1, e1, f1, i + 1)
LEMMA FlagsRest ==
  ASSUME NEW b1, NEW e1, NEW f1 \in SUBSET Keys!Modifier,
         NEW b2, NEW e2, NEW f2 \in SUBSET Keys!Modifier, NEW n \in Nat,
         \A l \in 1..(n + 1) : Moving(b1, e1, l) \subseteq Keys!Modifier,
         \A l \in 1..n : Moving(b2, e2, l) = Moving(b1, e1, l + 1) /\ b2[l].code = b1[l + 1].code,
         f2 = IF b1[1].code < 128 THEN f1 \cup Moving(b1, e1, 1) ELSE f1 \ Moving(b1, e1, 1)
  PROVE  Ahead(b1, e1, f1, b2, e2, f2, n)
<1> DEFINE S == {k \in 0..n : FlagsAt(b2, e2, f2, k + 1) = FlagsAt(b1, e1, f1, k + 2)}
<1>1. 0 \in S
  <2>1. FlagsAt(b2, e2, f2, 1) = f2 /\ FlagsAt(b1, e1, f1, 1) = f1
    BY FlagsFirst
  <2>2. FlagsAt(b1, e1, f1, 1 + 1) = f2
    <3>1. 1 \in Nat \ {0} /\ 1 \in 1..(n + 1)
      OBVIOUS
    <3>2. Moving(b1, e1, 1) \subseteq Keys!Modifier
      BY <3>1
    <3>3. FlagsAt(b1, e1, f1, 1 + 1) =
            IF b1[1].code < 128 THEN FlagsAt(b1, e1, f1, 1) \cup Moving(b1, e1, 1)
            ELSE FlagsAt(b1, e1, f1, 1) \ Moving(b1, e1, 1)
      BY ONLY <3>1, <3>2, FlagsNext
    <3> QED BY <2>1, <3>3
  <2> QED BY <2>1, <2>2
<1>2. ASSUME NEW k \in 0..(n - 1), k \in S PROVE k + 1 \in S
  <2>1. PICK i \in Nat \ {0} : i = k + 1
    OBVIOUS
  <2>2. i \in 1..n /\ i \in 1..(n + 1) /\ i + 1 \in 1..(n + 1) /\ i + 1 \in Nat \ {0} /\ i \in 0..n
    BY <2>1
  <2>3. FlagsAt(b2, e2, f2, i) = FlagsAt(b1, e1, f1, i + 1)
    BY <1>2, <2>1
  <2>4. Moving(b2, e2, i) = Moving(b1, e1, i + 1) /\ b2[i].code = b1[i + 1].code
    BY <2>2
  <2>5. Moving(b2, e2, i) \subseteq Keys!Modifier /\ Moving(b1, e1, i + 1) \subseteq Keys!Modifier
    BY <2>2, <2>4
  <2>0. i \in Nat \ {0}
    OBVIOUS
  <2>6. FlagsAt(b2, e2, f2, i + 1) =
           IF b2[i].code < 128 THEN FlagsAt(b2, e2, f2, i) \cup Moving(b2, e2, i)
           ELSE FlagsAt(b2, e2, f2, i) \ Moving(b2, e2, i)
    BY ONLY <2>0, <2>5, FlagsNext
  <2>7. FlagsAt(b1, e1, f1, (i + 1) + 1) =
           IF b1[i + 1].code < 128 THEN FlagsAt(b1, e1, f1, i + 1) \cup Moving(b1, e1, i + 1)
           ELSE FlagsAt(b1, e1, f1, i + 1) \ Moving(b1, e1, i + 1)
    BY ONLY <2>2, <2>5, FlagsNext
  <2>8. FlagsAt(b2, e2, f2, i + 1) = FlagsAt(b1, e1, f1, (i + 1) + 1)
    BY <2>3, <2>4, <2>6, <2>7
  <2>9. i = k + 1 /\ (i + 1) + 1 = i + 2
    BY <2>1
  <2> QED BY <2>2, <2>8, <2>9
<1> HIDE DEF S
<1>3. 0..n \subseteq S
  BY <1>1, <1>2, UpTo
<1>4. ASSUME NEW i \in 1..(n + 1)
      PROVE  FlagsAt(b2, e2, f2, i) = FlagsAt(b1, e1, f1, i + 1)
  <2>1. PICK k \in 0..n : k + 1 = i /\ k + 2 = i + 1
    <3>1. i - 1 \in 0..n /\ (i - 1) + 1 = i /\ (i - 1) + 2 = i + 1
      OBVIOUS
    <3> QED BY <3>1
  <2> QED BY <1>3, <2>1 DEF S
<1> QED BY <1>4 DEF Ahead

\* More bytes change nothing for those that are there.
Longer(bytes, more, n) == \A i \in 1..n : more[i] = bytes[i]
LEMMA FlagsSame ==
  ASSUME NEW bytes, NEW more, NEW esc, NEW fl, NEW n \in Nat,
         Longer(bytes, more, n)
  PROVE  /\ \A i \in 1..(n + 1) : /\ AfterPrefix(more, esc, i) = AfterPrefix(bytes, esc, i)
                                  /\ FlagsAt(more, esc, fl, i) = FlagsAt(bytes, esc, fl, i)
         /\ \A i \in 1..n : Moving(more, esc, i) = Moving(bytes, esc, i)
<1>1. ASSUME NEW i \in 1..(n + 1)
      PROVE  AfterPrefix(more, esc, i) = AfterPrefix(bytes, esc, i)
  BY DEF AfterPrefix, Longer
<1>2. \A i \in 1..n : Moving(more, esc, i) = Moving(bytes, esc, i)
  BY <1>1 DEF Moving, Longer
<1>3. ASSUME NEW i \in 1..(n + 1)
      PROVE  FlagsAt(more, esc, fl, i) = FlagsAt(bytes, esc, fl, i)
  <2>1. \A l \in 1..(i - 1) : l \in 1..n
    OBVIOUS
  <2>2. ASSUME NEW m, NEW j \in 1..i
        PROVE  Kept(more, esc, m, j, i) = Kept(bytes, esc, m, j, i)
    <3>1. \A l \in j..(i - 1) : l \in 1..n
      OBVIOUS
    <3> QED BY <1>2, <3>1 DEF Kept
  <2>3. \A j \in 1..(i - 1) : j + 1 \in 1..i
    OBVIOUS
  <2>4. 1 \in 1..i
    OBVIOUS
  <2> QED BY <1>2, <2>1, <2>2, <2>3, <2>4 DEF FlagsAt, Longer
<1> QED BY <1>1, <1>2, <1>3

LEMMA KeyTypes ==
  ASSUME KeysInv
  PROVE  /\ line \in Seq(Byte) /\ Len(line) \in Nat
         /\ \A i \in 1..Len(line) : line[i] \in Byte
         /\ k_flags \in SUBSET Keys!Modifier /\ escaped \in BOOLEAN /\ cleared \in BOOLEAN
         /\ mistyped = {} /\ touched \subseteq Keys!Modifier /\ held \subseteq Key
<1>1. line \in Seq(Byte)
  BY DEF KeysInv, Keys!TypeOK, Byte
<1>2. Len(line) \in Nat /\ \A i \in 1..Len(line) : line[i] \in Byte
  BY <1>1
<1>3. /\ k_flags \in SUBSET Keys!Modifier /\ escaped \in BOOLEAN /\ cleared \in BOOLEAN
      /\ mistyped = {} /\ touched \subseteq Keys!Modifier /\ held \subseteq Key
  BY DEF KeysInv, Keys!TypeOK, Keys!AsTyped
<1> QED BY <1>1, <1>2, <1>3

LEMMA BytesMove ==
  ASSUME NEW bytes, NEW esc \in BOOLEAN, NEW i
  PROVE  Moving(bytes, esc, i) \subseteq Keys!Modifier
<1>1. AfterPrefix(bytes, esc, i) \in BOOLEAN
  BY DEF AfterPrefix
<1> QED BY <1>1, ModifiersAre DEF Moving

\* The bytes that a key sends.
LEMMA KeyBytes ==
  ASSUME KeysInv, NEW k \in Key, NEW c \in {k.code, k.code + 128}, NEW means \in Keys!Meaning,
         line' = line \o Keys!Bytes(k, c, means)
  PROVE  LET n == Len(line)
             p == IF k.extended THEN n + 2 ELSE n + 1
         IN /\ line' \in Seq(Byte) /\ Len(line') = p
            /\ \A i \in 1..n : line'[i] = line[i]
            /\ line'[p] = [code |-> c, means |-> means]
            /\ k.extended => line'[n + 1] = [code |-> Keys!Prefix, means |-> Keys!Nothing]
<1>1. /\ k.extended \in BOOLEAN /\ c \in 1..255
  <2>1. /\ k.code \in 1..127 /\ k.extended \in BOOLEAN
        /\ c \in 1..255 /\ c # Keys!Prefix /\ c % 128 = k.code
        /\ k.extended => ~Keys!IsShift(c)
        /\ Keys!IsShift(c) <=> k.code \in {42, 54}
    BY ONLY k \in Key, c \in {k.code, k.code + 128}, KeyCodes
  <2> QED BY ONLY <2>1
<1>2. Keys!Prefix \in 1..255 /\ Keys!Nothing \in Keys!Meaning
  BY DEF Keys!Prefix, Keys!Nothing, Keys!Simply, Keys!Meaning
<1> DEFINE b == [code |-> c, means |-> means]
           a == [code |-> Keys!Prefix, means |-> Keys!Nothing]
<1>3. a \in Byte /\ b \in Byte
  BY <1>1, <1>2 DEF Byte
<1>4. line \in Seq(Byte)
  BY KeyTypes
<1>5. Keys!Bytes(k, c, means) = (IF k.extended THEN <<a>> ELSE <<>>) \o <<b>>
  BY DEF Keys!Bytes
<1> HIDE DEF a, b
<1>8. ASSUME NEW x, NEW s \in Seq(Byte), s = x \o <<b>>, x = <<a>> \/ x = <<>>
      PROVE  Len(s) = Len(x) + 1 /\ s[Len(x) + 1] = b /\ Len(x) \in {0, 1}
             /\ (x = <<a>> => s[1] = a)
  BY ONLY <1>3, <1>8
<1>9. PICK x : Keys!Bytes(k, c, means) = x \o <<b>> /\ x = IF k.extended THEN <<a>> ELSE <<>>
  BY <1>5
<1>10. PICK s : s = x \o <<b>>
  OBVIOUS
<1>11. x \in Seq(Byte) /\ s \in Seq(Byte)
  <2>1. <<a>> \in Seq(Byte) /\ <<b>> \in Seq(Byte) /\ <<>> \in Seq(Byte)
    BY <1>3
  <2> QED BY <1>9, <1>10, <2>1
<1>12. Len(s) = Len(x) + 1 /\ s[Len(x) + 1] = b /\ (x = <<a>> => s[1] = a)
  BY <1>8, <1>9, <1>10, <1>11
<1>13. line' = line \o s
  BY <1>9, <1>10
<1>14. Len(line) \in Nat /\ (x = <<a>> => Len(x) = 1) /\ (x = <<>> => Len(x) = 0)
  BY <1>4
<1>15. /\ line' \in Seq(Byte) /\ Len(line') = Len(line) + Len(s)
       /\ \A i \in 1..(Len(line) + Len(s)) :
             line'[i] = IF i <= Len(line) THEN line[i] ELSE s[i - Len(line)]
  BY <1>4, <1>11, <1>13, ConcatProperties
<1>6. CASE k.extended
  <2>1. Len(s) = 2 /\ s[1] = a /\ s[2] = b
    BY <1>6, <1>9, <1>12, <1>14
  <2>2. line' \in Seq(Byte) /\ Len(line') = Len(line) + 2
        /\ (\A i \in 1..Len(line) : line'[i] = line[i])
        /\ line'[Len(line) + 1] = a /\ line'[Len(line) + 2] = b
    BY <1>14, <1>15, <2>1
  <2> QED BY <1>6, <2>2 DEF a, b
<1>7. CASE ~k.extended
  <2>1. Len(s) = 1 /\ s[1] = b
    BY <1>7, <1>9, <1>12, <1>14
  <2>2. line' \in Seq(Byte) /\ Len(line') = Len(line) + 1
        /\ (\A i \in 1..Len(line) : line'[i] = line[i])
        /\ line'[Len(line) + 1] = b
    BY <1>14, <1>15, <2>1
  <2> QED BY <1>7, <2>2 DEF b
<1> QED BY <1>1, <1>6, <1>7

\* A key that goes down, or up, sends bytes that mean what it does.
LEMMA KeyMoves ==
  ASSUME KeysInv, NEW k \in Key, NEW c \in {k.code, k.code + 128}, NEW means \in Keys!Meaning,
         line' = line \o Keys!Bytes(k, c, means),
         touched' = IF cleared THEN touched \cup Keys!OfKey(k) ELSE touched,
         UNCHANGED <<k_flags, escaped, cleared, mistyped>>, held' \subseteq Key,
         \/ c >= 128 /\ means = Keys!Nothing /\ Keys!Down' = Keys!Down \ Keys!OfKey(k)
         \/ /\ c < 128 /\ Keys!Down' = Keys!Down \cup Keys!OfKey(k)
            /\ \/ means = Keys!Unknown
               \/ cleared /\ means = Meant(c, k.extended,
                                           FlagsAt(line, escaped, k_flags, Len(line) + 1))
  PROVE  KeysInv'
<1>1. PICK n \in Nat, p \in Nat \ {0} :
        /\ n = Len(line) /\ p = IF k.extended THEN n + 2 ELSE n + 1
        /\ line' \in Seq(Byte) /\ Len(line') = p
        /\ \A i \in 1..n : line'[i] = line[i]
        /\ line'[p] = [code |-> c, means |-> means]
        /\ k.extended => line'[n + 1] = [code |-> Keys!Prefix, means |-> Keys!Nothing]
  <2>1. Len(line) \in Nat /\ k.extended \in BOOLEAN
    BY KeyTypes, KeyCodes
  <2>2. LET n == Len(line)
            p == IF k.extended THEN n + 2 ELSE n + 1
         IN /\ line' \in Seq(Byte) /\ Len(line') = p
            /\ \A i \in 1..n : line'[i] = line[i]
            /\ line'[p] = [code |-> c, means |-> means]
            /\ k.extended => line'[n + 1] = [code |-> Keys!Prefix, means |-> Keys!Nothing]
    BY KeyBytes
  <2>3. PICK n \in Nat : n = Len(line)
    BY <2>1
  <2>4. PICK p \in Nat \ {0} : p = IF k.extended THEN n + 2 ELSE n + 1
    BY <2>1
  <2> QED BY <2>2, <2>3, <2>4
<1>2. /\ Len(line) = n /\ Len(line') = p /\ \A i \in 1..n : line'[i] = line[i]
      /\ line'[p].code = c /\ line'[p].means = means
      /\ k.extended => line'[n + 1].code = Keys!Prefix /\ line'[n + 1].means = Keys!Nothing
      /\ n < p /\ n + 1 <= p
      /\ (k.extended => p = n + 2) /\ (~k.extended => p = n + 1)
  BY <1>1
<1>3. /\ c # Keys!Prefix /\ c % 128 = k.code /\ (k.extended => ~Keys!IsShift(c))
      /\ k.extended \in BOOLEAN /\ c \in 1..255
  <2>1. k \in Key /\ c \in {k.code, k.code + 128}
    OBVIOUS
  <2> QED BY ONLY <2>1, KeyCodes
<1>4. /\ k_flags \in SUBSET Keys!Modifier /\ escaped \in BOOLEAN /\ cleared \in BOOLEAN
      /\ mistyped = {} /\ touched \subseteq Keys!Modifier
  BY KeyTypes
<1>5. /\ k_flags' = k_flags /\ escaped' = escaped /\ cleared' = cleared /\ mistyped' = mistyped
  OBVIOUS
<1>6. Keys!OfKey(k) \subseteq Keys!Modifier
  BY <1>3, ModifiersAre DEF Keys!OfKey
<1>7. Keys!TypeOK' /\ Keys!AsTyped'
  <2>1. touched' \subseteq Keys!Modifier
    BY <1>4, <1>6
  <2> QED BY <1>1, <1>4, <1>5, <2>1 DEF Keys!TypeOK, Keys!AsTyped, Byte
<1>8. PrefixesPaired'
  <2>1. ASSUME NEW i \in 1..p, line'[i].code = Keys!Prefix
        PROVE  i < p /\ line'[i + 1].code # Keys!Prefix /\ ~Keys!IsShift(line'[i + 1].code)
    <3>1. CASE i \in 1..n
      <4>1. line[i].code = Keys!Prefix
        BY <1>2, <2>1, <3>1
      <4>2. i < n /\ line[i + 1].code # Keys!Prefix /\ ~Keys!IsShift(line[i + 1].code)
        BY <1>2, <3>1, <4>1 DEF KeysInv, PrefixesPaired
      <4>3. i + 1 \in 1..n
        BY <3>1, <4>2
      <4> QED BY <1>2, <4>2, <4>3
    <3>2. CASE i \notin 1..n
      <4>1. i # p
        BY <1>2, <1>3, <2>1
      <4>2. k.extended /\ i + 1 = p /\ i < p
        BY <1>2, <1>3, <3>2, <4>1
      <4> QED BY <1>2, <1>3, <4>2
    <3> QED BY <3>1, <3>2
  <2> QED BY <1>2, <2>1 DEF PrefixesPaired
<1>9. EscapedInv'
  <2>1. ASSUME cleared, escaped
        PROVE  line' # <<>> /\ line'[1].code # Keys!Prefix /\ ~Keys!IsShift(line'[1].code)
    <3>1. line # <<>> /\ line[1].code # Keys!Prefix /\ ~Keys!IsShift(line[1].code)
      BY <2>1 DEF KeysInv, EscapedInv
    <3>2. 1 \in 1..n
      BY <1>2, <3>1, KeyTypes
    <3>3. line' # <<>>
      BY <1>2
    <3> QED BY <1>2, <3>1, <3>2, <3>3
  <2>2. ~cleared => touched' = {}
    BY DEF KeysInv, EscapedInv
  <2> QED BY <1>5, <2>1, <2>2 DEF EscapedInv
<1>10. /\ \A i \in 1..(n + 1) : /\ AfterPrefix(line', escaped, i) = AfterPrefix(line, escaped, i)
                                /\ FlagsAt(line', escaped, k_flags, i) = FlagsAt(line, escaped, k_flags, i)
  <2>1. n \in Nat /\ \A i \in 1..n : line'[i] = line[i]
    BY <1>2
  <2>2. Longer(line, line', n)
    BY <2>1 DEF Longer
  <2>3. \A i \in 1..(n + 1) : AfterPrefix(line', escaped, i) = AfterPrefix(line, escaped, i)
    BY ONLY <2>1 DEF AfterPrefix
  <2>4. \A i \in 1..(n + 1) : FlagsAt(line', escaped, k_flags, i) = FlagsAt(line, escaped, k_flags, i)
    BY ONLY <2>1, <2>2, FlagsSame
  <2> QED BY <2>3, <2>4
<1>11. n + 1 \in 1..(n + 1) /\ n + 1 \in Nat \ {0}
  OBVIOUS
<1>12. ASSUME cleared PROVE ~AfterPrefix(line', escaped, n + 1)
  <2>1. CASE n = 0
    <3>1. ~escaped
      BY <1>2, <1>12, <2>1, KeyTypes DEF KeysInv, EscapedInv
    <3> QED BY <2>1, <3>1 DEF AfterPrefix
  <2>2. CASE n # 0
    <3>1. n \in 1..n /\ ~(n < n) /\ (n + 1) - 1 = n /\ n + 1 # 1
      BY <2>2
    <3>2. line[n].code # Keys!Prefix
      BY <1>2, <3>1 DEF KeysInv, PrefixesPaired
    <3> QED BY <1>2, <3>1, <3>2 DEF AfterPrefix
  <2> QED BY <2>1, <2>2
<1>13. cleared => AfterPrefix(line', escaped, p) = k.extended
  <2>1. CASE k.extended
    <3>1. p - 1 = n + 1 /\ p # 1
      BY <1>2, <2>1
    <3> QED BY <1>2, <2>1, <3>1 DEF AfterPrefix
  <2>2. CASE ~k.extended
    BY <1>2, <1>3, <1>4, <1>12, <2>2 DEF AfterPrefix
  <2> QED BY <1>3, <2>1, <2>2
<1>14. cleared => Moving(line', escaped, p) = Keys!OfKey(k)
  BY <1>2, <1>3, <1>13 DEF Moving, Keys!OfKey
<1>15. PICK F : F = FlagsAt(line, escaped, k_flags, n + 1)
  OBVIOUS
<1>16. FlagsAt(line', escaped, k_flags, p) = F
  <2>1. CASE k.extended
    <3>1. Moving(line', escaped, n + 1) = {}
      BY <1>2, <2>1 DEF Moving
    <3>2. FlagsAt(line', escaped, k_flags, (n + 1) + 1) = FlagsAt(line', escaped, k_flags, n + 1)
      <4>1. Moving(line', escaped, n + 1) \subseteq Keys!Modifier
        BY <3>1
      <4>2. FlagsAt(line', escaped, k_flags, (n + 1) + 1) =
              IF line'[n + 1].code < 128
              THEN FlagsAt(line', escaped, k_flags, n + 1) \cup Moving(line', escaped, n + 1)
              ELSE FlagsAt(line', escaped, k_flags, n + 1) \ Moving(line', escaped, n + 1)
        BY ONLY <1>11, <4>1, FlagsNext
      <4> QED BY <3>1, <4>2
    <3>3. (n + 1) + 1 = p
      BY <1>2, <2>1
    <3> QED BY <1>10, <1>11, <1>15, <3>2, <3>3
  <2>2. CASE ~k.extended
    BY <1>2, <1>10, <1>11, <1>15, <2>2
  <2> QED BY <1>3, <2>1, <2>2
<1>17. cleared => FlagsAt(line', escaped, k_flags, p + 1) =
                    IF c < 128 THEN F \cup Keys!OfKey(k) ELSE F \ Keys!OfKey(k)
  <2>1. Moving(line', escaped, p) \subseteq Keys!Modifier
    BY <1>4, BytesMove
  <2>2. FlagsAt(line', escaped, k_flags, p + 1) =
           IF line'[p].code < 128 THEN FlagsAt(line', escaped, k_flags, p) \cup Moving(line', escaped, p)
           ELSE FlagsAt(line', escaped, k_flags, p) \ Moving(line', escaped, p)
    BY <2>1, FlagsNext
  <2> QED BY <1>2, <1>14, <1>16, <2>2
<1>18. HeldInv'
  <2>1. ASSUME NEW m \in touched'
        PROVE  m \in FlagsAt(line', escaped, k_flags, p + 1) <=> m \in Keys!Down'
    <3>1. cleared /\ touched' = touched \cup Keys!OfKey(k)
      BY <2>1 DEF KeysInv, EscapedInv
    <3>2. m \in touched => (m \in F <=> m \in Keys!Down)
      BY <1>2, <1>15 DEF KeysInv, HeldInv
    <3>3. \/ ~(c < 128) /\ Keys!Down' = Keys!Down \ Keys!OfKey(k)
          \/ c < 128 /\ Keys!Down' = Keys!Down \cup Keys!OfKey(k)
      BY <1>3
    <3> QED BY <1>17, <2>1, <3>1, <3>2, <3>3
  <2> QED BY <1>2, <1>5, <2>1 DEF HeldInv
<1>19. MeaningInv'
  <2>1. ASSUME NEW i \in 1..p
        PROVE  \/ line'[i].means = Keys!Unknown
               \/ line'[i].means = Keys!Nothing /\ line'[i].code >= 128
               \/ /\ cleared
                  /\ line'[i].means = Meant(line'[i].code, AfterPrefix(line', escaped, i),
                                            FlagsAt(line', escaped, k_flags, i))
    <3>1. CASE i \in 1..n
      <4>1. i \in 1..(n + 1) /\ line'[i] = line[i]
        BY <1>2, <3>1
      <4>2. \/ line[i].means = Keys!Unknown
            \/ line[i].means = Keys!Nothing /\ line[i].code >= 128
            \/ /\ cleared
               /\ line[i].means = Meant(line[i].code, AfterPrefix(line, escaped, i),
                                        FlagsAt(line, escaped, k_flags, i))
        BY <1>2, <3>1 DEF KeysInv, MeaningInv
      <4> QED BY <1>10, <4>1, <4>2
    <3>2. CASE i = p
      BY <1>2, <1>13, <1>15, <1>16, <3>2
    <3>3. CASE i \notin 1..n /\ i # p
      <4>1. k.extended /\ i = n + 1
        BY <1>2, <1>3, <3>3
      <4>2. Keys!Prefix >= 128
        BY DEF Keys!Prefix
      <4> QED BY <1>2, <4>1, <4>2
    <3> QED BY <3>1, <3>2, <3>3
  <2> QED BY <1>2, <1>5, <2>1 DEF MeaningInv
<1> QED BY <1>7, <1>8, <1>9, <1>18, <1>19 DEF KeysInv

LEMMA NothingFaked ==
  ASSUME NEW k, NEW up PROVE Keys!FakeShift(k, up) = <<>>
BY DEF Keys!FakeShift

LEMMA KeyPress == ASSUME KeysInv, NEW k \in Key, Keys!Press(k) PROVE KeysInv'
<1> DEFINE means == IF Keys!Sure THEN Keys!Typed(k) ELSE Keys!Unknown
<1>1. /\ k.code \in 1..127 /\ k.extended \in BOOLEAN /\ k.code \in {k.code, k.code + 128}
      /\ k.extended => k.code \notin {42, 54}
      /\ Keys!IsShift(k.code) <=> k.code \in {42, 54}
  <2>1. k \in Key /\ k.code \in {k.code, k.code + 128}
    OBVIOUS
  <2>2. /\ k.code \in 1..127 /\ k.extended \in BOOLEAN
        /\ k.extended => ~Keys!IsShift(k.code)
        /\ Keys!IsShift(k.code) <=> k.code \in {42, 54}
    BY ONLY <2>1, KeyCodes
  <2> QED BY <2>1, <2>2
<1>2. means \in Keys!Meaning
  BY <1>1 DEF Keys!Typed, Keys!Meaning, Keys!Unknown, Keys!Nothing, Keys!Simply, Keys!Char,
     Keys!Switching
<1>3. line' = line \o Keys!Bytes(k, k.code, means)
  <2>1. line' = line \o <<>> \o Keys!Bytes(k, k.code, means)
    BY NothingFaked DEF Keys!Press
  <2>2. line \in Seq(Byte)
    BY KeyTypes
  <2> QED BY <2>1, <2>2, ConcatEmptySeq
<1>4. touched' = IF cleared THEN touched \cup Keys!OfKey(k) ELSE touched
  BY DEF Keys!Press, Keys!Moved
<1>5. UNCHANGED <<k_flags, escaped, cleared, mistyped>>
  BY DEF Keys!Press
<1>6. held' \subseteq Key
  BY KeyTypes DEF Keys!Press
<1>7. Keys!Down' = Keys!Down \cup Keys!OfKey(k)
  <2>1. held' = held \cup {k}
    BY DEF Keys!Press
  <2> QED BY <2>1 DEF Keys!Down
<1>8. k.code < 128
  BY <1>1
<1>9. \/ means = Keys!Unknown
      \/ cleared /\ means = Meant(k.code, k.extended, FlagsAt(line, escaped, k_flags, Len(line) + 1))
  <2> DEFINE F == FlagsAt(line, escaped, k_flags, Len(line) + 1)
  <2> SUFFICES ASSUME Keys!Sure, means # Keys!Unknown PROVE cleared /\ means = Meant(k.code, k.extended, F)
    OBVIOUS
  <2>1. cleared
    BY KeyTypes DEF KeysInv, EscapedInv, Keys!Sure, Keys!Shifts
  <2>2. \A m \in Keys!Shifts \cup Keys!Alts : m \in F <=> m \in Keys!Down
    BY DEF KeysInv, HeldInv, Keys!Sure
  <2>3. /\ Keys!Down \cap Keys!Alts = {} <=> F \cap Keys!Alts = {}
        /\ Keys!Down \cap Keys!Shifts = {} <=> F \cap Keys!Shifts = {}
    BY <2>2
  <2> HIDE DEF F
  <2>4. k.code \notin Keys!Behind
    <3>1. k.code \in Keys!Behind => Keys!Typed(k) = Keys!Unknown
      <4>1. k.code \in Keys!Behind =>
              k.code \notin Keys!Arrow /\ k.code \notin Keys!Switching /\ k.code \notin Keys!Printing
        BY <1>1, PartsAssumption
           DEF Keys!KeyboardAssumption, Keys!Behind, Keys!Arrow, Keys!Switching, Keys!Printing
      <4> QED BY <4>1 DEF Keys!Typed
    <3> QED BY <3>1
  <2>5. means = Keys!Typed(k)
    OBVIOUS
  <2> HIDE DEF means
  <2>6. CASE k.extended
    BY <1>1, <1>8, <2>1, <2>3, <2>4, <2>5, <2>6
       DEF Keys!Typed, Meant, Keys!Arrow, Keys!Nothing
  <2>7. CASE ~k.extended
    <3>1. Keys!Typed(k) =
            IF F \cap Keys!Alts # {}
            THEN IF k.code \in Keys!Switching THEN Keys!Simply("console", k.code - 59) ELSE Keys!Nothing
            ELSE IF k.code \in Keys!Printing THEN Keys!Char(k.code, F \cap Keys!Shifts # {}) ELSE Keys!Nothing
      BY <2>3, <2>4, <2>7 DEF Keys!Typed
    <3>2. k.code \in {42, 54} => k.code \notin Keys!Switching /\ k.code \notin Keys!Printing
      BY DEF Keys!Switching, Keys!Printing
    <3>3. ~(k.code >= 128)
      BY <1>1
    <3> QED BY <1>1, <2>1, <2>4, <2>5, <2>7, <3>1, <3>2, <3>3 DEF Meant
  <2> QED BY <1>1, <2>6, <2>7
<1> HIDE DEF means
<1> QED BY <1>1, <1>2, <1>3, <1>4, <1>5, <1>6, <1>7, <1>8, <1>9, KeyMoves

LEMMA KeyRelease == ASSUME KeysInv, NEW k \in Key, Keys!Release(k) PROVE KeysInv'
<1>1. k.code \in 1..127 /\ k.code + 128 \in {k.code, k.code + 128}
  BY PartsAssumption DEF Keys!KeyboardAssumption
<1>2. Keys!Nothing \in Keys!Meaning
  BY DEF Keys!Meaning, Keys!Nothing, Keys!Simply
<1>3. line' = line \o Keys!Bytes(k, k.code + 128, Keys!Nothing)
  <2>1. line' = line \o Keys!Bytes(k, k.code + 128, Keys!Nothing) \o <<>>
    BY NothingFaked DEF Keys!Release
  <2>2. line \o Keys!Bytes(k, k.code + 128, Keys!Nothing) \in Seq(Byte)
    <3>1. /\ k.code + 128 \in 1..255 /\ Keys!Prefix \in 1..255
      BY <1>1 DEF Keys!Prefix
    <3>2. [code |-> k.code + 128, means |-> Keys!Nothing] \in Byte
          /\ [code |-> Keys!Prefix, means |-> Keys!Nothing] \in Byte
      BY <1>2, <3>1 DEF Byte
    <3>3. Keys!Bytes(k, k.code + 128, Keys!Nothing) \in Seq(Byte)
      BY <3>2 DEF Keys!Bytes
    <3>4. line \in Seq(Byte)
      BY KeyTypes
    <3> QED BY <3>3, <3>4, ConcatProperties
  <2> QED BY <2>1, <2>2, ConcatEmptySeq
<1>4. touched' = IF cleared THEN touched \cup Keys!OfKey(k) ELSE touched
  BY DEF Keys!Release, Keys!Moved
<1>5. UNCHANGED <<k_flags, escaped, cleared, mistyped>>
  BY DEF Keys!Release
<1>6. held' = held \ {k} /\ k \in held /\ held \subseteq Key
  BY KeyTypes DEF Keys!Release
<1>7. Keys!Down' = Keys!Down \ Keys!OfKey(k)
  <2>1. \A j \in held : j # k => Keys!OfKey(j) \cap Keys!OfKey(k) = {}
    BY <1>6, OneKey
  <2> QED BY <1>6, <2>1 DEF Keys!Down
<1>8. k.code + 128 >= 128
  BY <1>1
<1>9. held' \subseteq Key
  BY <1>6
<1> QED BY <1>1, <1>2, <1>3, <1>4, <1>5, <1>7, <1>8, <1>9, KeyMoves

\* What the thread makes of a code.
LEMMA DecodedIs == ASSUME NEW code PROVE Keys!Decoded(code) = Meant(code, escaped, k_flags)
BY DEF Keys!Decoded, Meant

LEMMA UpMeansNothing ==
  ASSUME NEW code \in 128..255, NEW e \in BOOLEAN, NEW fl PROVE Meant(code, e, fl) = Keys!Nothing
<1>1. code >= 128 /\ code \notin Keys!Arrow
  BY DEF Keys!Arrow
<1> QED BY <1>1 DEF Meant

\* What decoding a byte leaves of the line.
LEMMA ByteGone ==
  ASSUME KeysInv, Keys!Decode
  PROVE  \E n \in Nat \ {0}, c \in 1..255 :
           /\ Len(line) = n /\ Len(line') = n - 1 /\ line' \in Seq(Byte)
           /\ line[1] \in Byte /\ line[1].code = c
           /\ \A i \in 1..(n - 1) : line'[i] = line[i + 1]
           /\ k_flags' = IF c < 128 THEN k_flags \cup Keys!Modifiers(c) ELSE k_flags \ Keys!Modifiers(c)
           /\ escaped' = Keys!Escaped(c)
           /\ cleared' = (cleared \/ ~Keys!IsShift(c))
           /\ mistyped' = IF line[1].means = Keys!Unknown \/ Keys!Decoded(c) = line[1].means
                          THEN mistyped ELSE mistyped \cup {c}
           /\ held' = held /\ touched' = touched
<1>1. line \in Seq(Byte) /\ line # <<>> /\ line' = Tail(line)
  BY KeyTypes DEF Keys!Decode
<1>2. PICK n : n = Len(line)
  OBVIOUS
<1>3. n \in Nat \ {0} /\ line[1] \in Byte /\ Head(line) = line[1]
  BY <1>1, <1>2
<1>4. line' \in Seq(Byte) /\ Len(line') = n - 1 /\ \A i \in 1..(n - 1) : line'[i] = line[i + 1]
  BY <1>1, <1>2
<1>5. PICK c \in 1..255 : c = line[1].code
  BY <1>3 DEF Byte
<1> QED BY <1>2, <1>3, <1>4, <1>5 DEF Keys!Decode

LEMMA KeyDecode == ASSUME KeysInv, Keys!Decode PROVE KeysInv'
<1>1. PICK n \in Nat \ {0}, c \in 1..255 :
           /\ Len(line) = n /\ Len(line') = n - 1 /\ line' \in Seq(Byte)
           /\ line[1] \in Byte /\ line[1].code = c
           /\ \A i \in 1..(n - 1) : line'[i] = line[i + 1]
           /\ k_flags' = IF c < 128 THEN k_flags \cup Keys!Modifiers(c) ELSE k_flags \ Keys!Modifiers(c)
           /\ escaped' = Keys!Escaped(c)
           /\ cleared' = (cleared \/ ~Keys!IsShift(c))
           /\ mistyped' = IF line[1].means = Keys!Unknown \/ Keys!Decoded(c) = line[1].means
                          THEN mistyped ELSE mistyped \cup {c}
           /\ held' = held /\ touched' = touched
  BY ByteGone
<1>2. /\ k_flags \in SUBSET Keys!Modifier /\ escaped \in BOOLEAN /\ cleared \in BOOLEAN
      /\ mistyped = {} /\ touched \subseteq Keys!Modifier /\ held \subseteq Key
  BY KeyTypes
<1>3. Keys!Modifiers(c) = Moving(line, escaped, 1) /\ Moving(line, escaped, 1) \subseteq Keys!Modifier
  <2>1. Keys!Modifiers(c) = Moving(line, escaped, 1)
    BY <1>1 DEF Keys!Modifiers, Moving, AfterPrefix
  <2> QED BY <1>2, <2>1, BytesMove
<1>4. PICK f \in SUBSET Keys!Modifier, e \in BOOLEAN : f = k_flags' /\ e = escaped'
  <2>1. escaped' \in BOOLEAN
    BY <1>1, <1>2 DEF Keys!Escaped
  <2> QED BY <1>1, <1>2, <1>3, <2>1
<1>5. PICK rest : rest = line'
  OBVIOUS
<1>6. 1 \in 1..n /\ (\A i \in 1..(n - 1) : i + 1 \in 1..n /\ rest[i] = line[i + 1])
  BY <1>1, <1>5
<1>7. PrefixesPaired'
  <2>1. ASSUME NEW i \in 1..(n - 1), rest[i].code = Keys!Prefix
        PROVE  i < n - 1 /\ rest[i + 1].code # Keys!Prefix /\ ~Keys!IsShift(rest[i + 1].code)
    <3>1. i + 1 < n /\ line[(i + 1) + 1].code # Keys!Prefix /\ ~Keys!IsShift(line[(i + 1) + 1].code)
      BY <1>1, <1>6, <2>1 DEF KeysInv, PrefixesPaired
    <3>2. i + 1 \in 1..(n - 1) /\ i < n - 1
      BY <3>1
    <3> QED BY <1>6, <3>1, <3>2
  <2> QED BY <1>1, <1>5, <2>1 DEF PrefixesPaired
<1>8. ~Keys!IsShift(Keys!Prefix)
  <2>1. 224 % 128 = 96
    OBVIOUS
  <2> QED BY <2>1 DEF Keys!IsShift, Keys!Prefix
<1>9. (cleared => (e <=> c = Keys!Prefix)) /\ (cleared' /\ e => c = Keys!Prefix)
  <2>1. cleared /\ escaped => c # Keys!Prefix /\ ~Keys!IsShift(c)
    BY <1>1 DEF KeysInv, EscapedInv
  <2>2. CASE Keys!IsShift(c)
    <3>1. e <=> escaped
      BY <1>1, <1>4, <2>2 DEF Keys!Escaped
    <3>2. c # Keys!Prefix
      BY <1>8, <2>2
    <3>3. cleared' <=> cleared
      BY <1>1, <2>2
    <3> QED BY <2>1, <2>2, <3>1, <3>2, <3>3
  <2>3. CASE ~Keys!IsShift(c)
    <3>1. e <=> ~escaped /\ c = Keys!Prefix
      BY <1>1, <1>4, <2>3 DEF Keys!Escaped
    <3> QED BY <2>1, <3>1
  <2> QED BY <2>2, <2>3
<1>10. EscapedInv'
  <2>1. ~cleared' => touched' = {}
    BY <1>1 DEF KeysInv, EscapedInv
  <2>2. ASSUME cleared', e
        PROVE  line' # <<>> /\ line'[1].code # Keys!Prefix /\ ~Keys!IsShift(line'[1].code)
    <3>1. c = Keys!Prefix
      BY <1>1, <1>9, <2>2
    <3>2. 1 < n /\ line[1 + 1].code # Keys!Prefix /\ ~Keys!IsShift(line[1 + 1].code)
      BY <1>1, <1>6, <3>1 DEF KeysInv, PrefixesPaired
    <3>3. 1 \in 1..(n - 1)
      BY <3>2
    <3>4. line' # <<>>
      BY <1>1, <3>2
    <3> QED BY <1>5, <1>6, <3>2, <3>3, <3>4
  <2> QED BY <1>4, <2>1, <2>2 DEF EscapedInv
<1>11. FlagsAt(line, escaped, k_flags, 1) = k_flags /\ AfterPrefix(line, escaped, 1) = escaped
  BY <1>2, FlagsFirst DEF AfterPrefix
<1>12. ASSUME cleared
       PROVE  \A i \in 1..n : /\ AfterPrefix(rest, e, i) = AfterPrefix(line, escaped, i + 1)
                              /\ FlagsAt(rest, e, f, i) = FlagsAt(line, escaped, k_flags, i + 1)
  <2>1. e <=> c = Keys!Prefix
    BY <1>9, <1>12
  <2>2. ASSUME NEW i \in 1..n PROVE AfterPrefix(rest, e, i) = AfterPrefix(line, escaped, i + 1)
    <3>1. CASE i = 1
      BY <1>1, <2>1, <3>1 DEF AfterPrefix
    <3>2. CASE i # 1
      <4>1. i - 1 \in 1..(n - 1) /\ (i - 1) + 1 = i /\ (i + 1) - 1 = i /\ i + 1 # 1
        BY <3>2
      <4>2. rest[i - 1] = line[i]
        BY <1>6, <4>1
      <4> QED BY <3>2, <4>1, <4>2 DEF AfterPrefix
    <3> QED BY <3>1, <3>2
  <2>3. ASSUME NEW l \in 1..(n - 1)
        PROVE  Moving(rest, e, l) = Moving(line, escaped, l + 1) /\ rest[l].code = line[l + 1].code
    <3>1. AfterPrefix(rest, e, l) = AfterPrefix(line, escaped, l + 1)
      BY <2>2
    <3> QED BY <1>6, <3>1 DEF Moving
  <2>4. PICK k \in Nat : k = n - 1 /\ k + 1 = n
    OBVIOUS
  <2>5. \A l \in 1..(k + 1) : Moving(line, escaped, l) \subseteq Keys!Modifier
    BY <1>2, BytesMove
  <2>6. \A l \in 1..k : Moving(rest, e, l) = Moving(line, escaped, l + 1) /\ rest[l].code = line[l + 1].code
    BY <2>3, <2>4
  <2>7. f = IF line[1].code < 128 THEN k_flags \cup Moving(line, escaped, 1)
            ELSE k_flags \ Moving(line, escaped, 1)
    BY <1>1, <1>3, <1>4
  <2>8. Ahead(line, escaped, k_flags, rest, e, f, k)
    BY <1>2, <2>5, <2>6, <2>7, FlagsRest
  <2> QED BY <2>2, <2>4, <2>8 DEF Ahead
<1>13. HeldInv'
  <2>1. ASSUME NEW m \in touched'
        PROVE  m \in FlagsAt(rest, e, f, (n - 1) + 1) <=> m \in Keys!Down'
    <3>1. m \in touched /\ cleared
      BY <1>1, <2>1 DEF KeysInv, EscapedInv
    <3>2. m \in FlagsAt(line, escaped, k_flags, n + 1) <=> m \in Keys!Down
      BY <1>1, <3>1 DEF KeysInv, HeldInv
    <3>3. n \in 1..n /\ (n - 1) + 1 = n
      OBVIOUS
    <3>4. Keys!Down' = Keys!Down
      BY <1>1 DEF Keys!Down
    <3> QED BY <1>12, <3>1, <3>2, <3>3, <3>4
  <2> QED BY <1>1, <1>4, <1>5, <2>1 DEF HeldInv
<1>14. MeaningInv'
  <2>1. ASSUME NEW i \in 1..(n - 1)
        PROVE  \/ rest[i].means = Keys!Unknown
               \/ rest[i].means = Keys!Nothing /\ rest[i].code >= 128
               \/ /\ cleared'
                  /\ rest[i].means = Meant(rest[i].code, AfterPrefix(rest, e, i), FlagsAt(rest, e, f, i))
    <3>1. i + 1 \in 1..n /\ rest[i] = line[i + 1] /\ i \in 1..n
      BY <1>6
    <3>2. \/ line[i + 1].means = Keys!Unknown
          \/ line[i + 1].means = Keys!Nothing /\ line[i + 1].code >= 128
          \/ /\ cleared
             /\ line[i + 1].means = Meant(line[i + 1].code, AfterPrefix(line, escaped, i + 1),
                                          FlagsAt(line, escaped, k_flags, i + 1))
      BY <1>1, <3>1 DEF KeysInv, MeaningInv
    <3> QED BY <1>1, <1>12, <3>1, <3>2
  <2> QED BY <1>1, <1>4, <1>5, <2>1 DEF MeaningInv
<1>15. mistyped' = {}
  <2>1. \/ line[1].means = Keys!Unknown
        \/ line[1].means = Keys!Nothing /\ line[1].code >= 128
        \/ line[1].means = Meant(line[1].code, escaped, k_flags)
    BY <1>1, <1>6, <1>11 DEF KeysInv, MeaningInv
  <2>2. Keys!Decoded(c) = Meant(c, escaped, k_flags)
    BY DecodedIs
  <2>3. c >= 128 => c \in 128..255
    OBVIOUS
  <2>4. c >= 128 => Meant(c, escaped, k_flags) = Keys!Nothing
    BY <1>2, <2>3, UpMeansNothing
  <2> QED BY <1>1, <1>2, <2>1, <2>2, <2>4
<1>16. Keys!TypeOK' /\ Keys!AsTyped'
  <2>1. cleared' \in BOOLEAN
    BY <1>1, <1>2 DEF Keys!IsShift
  <2> QED BY <1>1, <1>2, <1>4, <1>15, <2>1 DEF Keys!TypeOK, Keys!AsTyped, Byte
<1> QED BY <1>7, <1>10, <1>13, <1>14, <1>16 DEF KeysInv

LEMMA KeysInit == ASSUME Keys!Init PROVE KeysInv
<1>1. Keys!TypeOK /\ Keys!AsTyped
  <2>1. held = {} /\ line = <<>> /\ touched = {} /\ mistyped = {} /\ cleared = FALSE
        /\ k_flags \in SUBSET Keys!Modifier /\ escaped \in BOOLEAN
    BY DEF Keys!Init
  <2>2. line \in Seq([code : 1..255, means : Keys!Meaning])
    BY <2>1
  <2> QED BY <2>1, <2>2 DEF Keys!TypeOK, Keys!AsTyped
<1>2. Len(line) = 0 /\ touched = {} /\ cleared = FALSE
  BY DEF Keys!Init
<1> QED BY <1>1, <1>2 DEF KeysInv, PrefixesPaired, EscapedInv, MeaningInv, HeldInv

LEMMA KeysAllNext == ASSUME KeysInv, [AllNext]_allVars PROVE KeysInv'
<1>1. CASE Keys!Next
  BY <1>1, KeyPress, KeyRelease, KeyDecode DEF Keys!Next
<1>2. CASE UNCHANGED keyVars
  <2>1. /\ held' = held /\ line' = line /\ k_flags' = k_flags /\ escaped' = escaped
        /\ cleared' = cleared /\ touched' = touched /\ mistyped' = mistyped
    BY <1>2 DEF keyVars
  <2>2. Keys!Down' = Keys!Down
    BY <2>1 DEF Keys!Down
  <2> QED BY <2>1, <2>2 DEF KeysInv, Keys!TypeOK, Keys!AsTyped, PrefixesPaired, EscapedInv, MeaningInv, HeldInv
<1>3. Keys!Next \/ UNCHANGED keyVars
  BY DEF AllNext, allVars
<1> QED BY <1>1, <1>2, <1>3

LEMMA KeysInvSound == ASSUME KeysInv PROVE KeysSound
<1>1. Keys!TypeOK /\ Keys!AsTyped
  BY DEF KeysInv
<1>2. ASSUME line = <<>> PROVE \A m \in touched : m \in k_flags <=> m \in Keys!Down
  <2>1. Len(line) + 1 = 1
    BY <1>2
  <2>2. FlagsAt(line, escaped, k_flags, 1) = k_flags
    BY KeyTypes, FlagsFirst
  <2> QED BY <2>1, <2>2 DEF KeysInv, HeldInv
<1> QED BY <1>1, <1>2 DEF KeysSound, Keys!FlagsTrue

\* Whatever the flags were when the thread began and in whatever order keys go down,
\* repeat and come up: a modifier that has moved is taken to be held exactly when it is
\* once all is decoded, and every key types what it means with the modifiers held when
\* it was pressed (tty.cpp:222-318), for any set of keys of a keyboard that
\* sends no fake shifts.
THEOREM KeysAlwaysSound == AllSpec => []KeysSound
<1>1. AllInit => KeysInv
  BY KeysInit DEF AllInit
<1>2. KeysInv /\ [AllNext]_allVars => KeysInv'
  BY KeysAllNext
<1>3. KeysInv => KeysSound
  BY KeysInvSound
<1> QED BY <1>1, <1>2, <1>3, PTL DEF AllSpec

-----------------------------------------------------------------------------
(* The readers *)

\* The threads, and what each and main can be about to do.
Servers == 1..(Cardinality(Client) + 1)
Linking == {"start", "assign"}
MainPlaces == {"idle", "add", "forward"} \cup Linking
Reading == {"await", "lock", "take", "finish"}
ServerPlaces == {"unborn", "new", "over", "idle", "answer"} \cup Reading
Asking == [from : Client, length : Nat]
Linked == [task : Client, thread : 0..(Cardinality(Client) + 1)]

QueueTypes ==
  /\ pc \in [{0, -1} \cup Servers -> MainPlaces \cup ServerPlaces \cup {"put"}]
  /\ pc[0] \in MainPlaces /\ pc[-1] \in {"idle", "put"}
  /\ \A t \in Servers : pc[t] \in ServerPlaces
  /\ requests \in [Servers \cup {0} -> Seq(Asking)]
  /\ server \in [Client -> {-2} \cup (Servers \ {1})] /\ waiting \subseteq Client
DataTypes ==
  /\ reply \in [Servers -> Seq(Int)]
  /\ delivered \in Seq(Int) /\ kbd_buffer \in Seq(Int) /\ Len(kbd_buffer) < BUFFER
  /\ count \in 0..TYPED

\* Main links each program once, to the thread it starts next.
LinksInv ==
  /\ threads \in Seq(Linked)
  /\ started = IF pc[0] = "start" THEN Len(threads) ELSE Len(threads) + 1
  /\ threads_mutex = IF pc[0] \in Linking THEN 0 ELSE -2
  /\ \A i \in 1..Len(threads) :
       threads[i].thread = IF i = Len(threads) /\ pc[0] \in Linking THEN 0 ELSE i + 1
  /\ \A i, j \in 1..Len(threads) : threads[i].task = threads[j].task => i = j
  /\ pc[0] # "idle" => requests[0] # <<>>
  /\ pc[0] = "add" => \A i \in 1..Len(threads) : threads[i].task # Head(requests[0]).from
  /\ pc[0] \in Linking \cup {"forward"} =>
       \E i \in 1..Len(threads) : threads[i].task = Head(requests[0]).from

\* Only the thread main starts itself is in no list, and nobody sends to it.
BornInv ==
  /\ requests[1] = <<>>
  /\ \A t \in Servers : /\ pc[t] = "unborn" <=> t > started
                        /\ pc[t] = "over" => t = 1

\* The locks are held by who is at the places they protect.
HoldersInv ==
  /\ stdin_read \in {-2} \cup Servers /\ kbd_mutex \in {-2, -1} \cup Servers
  /\ pc[-1] = "put" => kbd_mutex = -1
  /\ \A t \in Servers : /\ pc[t] \in Reading <=> stdin_read = t
                        /\ pc[t] = "take" <=> kbd_mutex = t
                        /\ pc[t] \in {"lock", "take"} => kbd_buffer # <<>>
                        /\ pc[t] \in Reading \cup {"answer"} =>
                             requests[t] # <<>> /\ Head(requests[t]).length > 0

\* A line holds no backspace while it is gathered.
NoBackspace(s) == \A i \in 1..Len(s) : s[i] # -1
LinesInv ==
  \A t \in Servers :
    /\ pc[t] \in {"unborn", "new", "over"} => reply[t] = <<>>
    /\ pc[t] \in Reading \cup {"answer"} /\ Head(requests[t]).length > 1 => NoBackspace(reply[t])

\* What was delivered, what was gathered to be, and what waits is what was typed, in
\* order, unless the buffer is full for good.
Held == IF stdin_read \in Servers
        THEN IF pc[stdin_read] = "finish" THEN reply[stdin_read] ELSE <<>>
        ELSE <<>>
Flow == (delivered \o Held) \o kbd_buffer
Pending == IF pc[-1] = "put" THEN 1 ELSE 0
Rising(s) == \A i, j \in 1..Len(s) : i < j /\ s[i] # -1 /\ s[j] # -1 => s[i] < s[j]
AtMost(s, n) == \A i \in 1..Len(s) : s[i] <= n
Lost == kbd_mutex = -1 /\ pc[-1] = "idle" /\ Len(kbd_buffer) = BUFFER - 1
OrderInv ==
  /\ Rising(Flow) /\ AtMost(Flow, count - Pending)
  /\ \A t \in Servers : pc[t] = "finish" => Len(reply[t]) = 1
  /\ Len(Flow) + Pending = count \/ Lost

\* No program asks for more than a character.
Short(s) == \A i \in 1..Len(s) : s[i].length \in {0, 1}
ShortInv == \A p \in Servers \cup {0} : Short(requests[p])

ReadersInv == QueueTypes /\ DataTypes /\ LinksInv /\ BornInv /\ HoldersInv /\ LinesInv

LEMMA Programs == Cardinality(Client) \in Nat /\ IsFiniteSet(Client) /\ BUFFER \in Nat \ {0} /\ TYPED \in Nat
<1>1. IsFiniteSet(Client) /\ BUFFER \in Nat \ {0} /\ TYPED \in Nat
  BY PartsAssumption DEF Reads!StdinAssumption, Reads!IsFiniteSet, IsFiniteSet
<1> QED BY <1>1, FS_CardinalityType

\* What a request that is there looks like once another has come.
HeadKept(p) == requests[p] # <<>> => requests'[p] # <<>> /\ Head(requests'[p]) = Head(requests[p])

LEMMA HeadStays ==
  ASSUME NEW S, NEW s \in Seq(S), NEW x \in S, s # <<>>
  PROVE  Append(s, x) # <<>> /\ Head(Append(s, x)) = Head(s)
OBVIOUS

LEMMA LinksKept ==
  ASSUME LinksInv, UNCHANGED <<threads, started, threads_mutex>>, pc'[0] = pc[0], HeadKept(0)
  PROVE  LinksInv'
<1>1. threads' = threads /\ started' = started /\ threads_mutex' = threads_mutex
  OBVIOUS
<1>2. pc[0] # "idle" => requests'[0] # <<>> /\ Head(requests'[0]) = Head(requests[0])
  BY DEF LinksInv, HeadKept
<1>3. pc[0] \in Linking \cup {"forward", "add"} => pc[0] # "idle"
  BY DEF Linking
<1> QED BY <1>1, <1>2, <1>3 DEF LinksInv

Living == {"new", "idle", "answer"} \cup Reading
LEMMA BornKept ==
  ASSUME BornInv, started' = started, requests'[1] = requests[1],
         \A t \in Servers : pc'[t] = pc[t] \/ (pc[t] \in Living /\ pc'[t] \in Living)
  PROVE  BornInv'
<1>1. "unborn" \notin Living /\ "over" \notin Living
  BY DEF Living, Reading
<1> QED BY <1>1 DEF BornInv

LEMMA HoldersKept ==
  ASSUME HoldersInv, UNCHANGED <<stdin_read, kbd_mutex, kbd_buffer>>,
         pc'[-1] = "put" => pc[-1] = "put",
         \A t \in Servers : \/ pc'[t] = pc[t] /\ HeadKept(t)
                            \/ /\ pc[t] \in {"unborn", "new", "idle", "over", "answer"}
                               /\ pc'[t] \in {"unborn", "new", "idle", "over"}
  PROVE  HoldersInv'
<1>1. {"unborn", "new", "idle", "over"} \cap (Reading \cup {"answer"}) = {}
      /\ {"lock", "take"} \subseteq Reading /\ "answer" \notin Reading
  BY DEF Reading
<1>2. stdin_read' = stdin_read /\ kbd_mutex' = kbd_mutex /\ kbd_buffer' = kbd_buffer
  OBVIOUS
<1>3. ASSUME NEW t \in Servers
      PROVE  /\ pc'[t] \in Reading <=> stdin_read = t
             /\ pc'[t] = "take" <=> kbd_mutex = t
             /\ pc'[t] \in {"lock", "take"} => kbd_buffer # <<>>
             /\ pc'[t] \in Reading \cup {"answer"} =>
                  requests'[t] # <<>> /\ Head(requests'[t]).length > 0
  <2>1. CASE pc'[t] = pc[t] /\ HeadKept(t)
    BY <2>1 DEF HoldersInv, HeadKept
  <2>2. CASE ~(pc'[t] = pc[t] /\ HeadKept(t))
    <3>1. pc'[t] \notin Reading \cup {"answer"} /\ pc[t] \notin Reading
      BY <1>1, <2>2
    <3>2. pc'[t] \notin {"lock", "take"} /\ pc[t] \notin {"lock", "take"}
      BY <1>1, <3>1
    <3> QED BY <3>1, <3>2 DEF HoldersInv
  <2> QED BY <2>1, <2>2
<1> QED BY <1>2, <1>3 DEF HoldersInv

LEMMA LinesKept ==
  ASSUME HoldersInv, LinesInv, reply' = reply,
         \A t \in Servers :
           /\ pc'[t] \in {"unborn", "new", "over"} => pc[t] \in {"unborn", "new", "over"}
           /\ pc'[t] \in Reading \cup {"answer"} => pc[t] \in Reading \cup {"answer"} /\ HeadKept(t)
  PROVE  LinesInv'
<1>1. ASSUME NEW t \in Servers, pc'[t] \in Reading \cup {"answer"}
      PROVE  Head(requests'[t]) = Head(requests[t])
  BY <1>1 DEF HoldersInv, HeadKept
<1> QED BY <1>1 DEF LinesInv

\* As many entries as programs, at most.
LEMMA OneEach ==
  ASSUME NEW s \in Seq(Linked), \A i, j \in 1..Len(s) : s[i].task = s[j].task => i = j
  PROVE  Len(s) <= Cardinality(Client)
<1> DEFINE f == [i \in 1..Len(s) |-> s[i].task]
<1>1. Len(s) \in Nat /\ \A i \in 1..Len(s) : s[i].task \in Client
  <2>1. \A x \in Linked : x.task \in Client
    BY DEF Linked
  <2> QED BY <2>1
<1>2. f \in Injection(1..Len(s), Client)
  BY <1>1 DEF Injection, IsInjective
<1>3. IsFiniteSet(1..Len(s)) /\ Cardinality(1..Len(s)) = Len(s)
  <2>1. 1 <= Len(s) + 1
    BY <1>1
  <2> QED BY <1>1, FS_Interval
<1>4. Cardinality(1..Len(s)) <= Cardinality(Client)
  BY <1>2, <1>3, Programs, FS_Injection
<1> QED BY <1>3, <1>4

LEMMA ServersAre == ASSUME NEW L PROVE Reads(L)!Thread = Servers
BY DEF Reads!Thread, Reads!Cardinality, Cardinality, Servers

\* The number of programs.
LEMMA SomeServers == \E N \in Nat : N = Cardinality(Client) /\ Servers = 1..(N + 1)
BY Programs DEF Servers

\* A process goes to another place.
LEMMA Places ==
  ASSUME QueueTypes, NEW p \in {0, -1} \cup Servers, NEW place,
         pc' = [pc EXCEPT ![p] = place]
  PROVE  /\ pc'[p] = place
         /\ \A q \in {0, -1} \cup Servers : q # p => pc'[q] = pc[q]
         /\ \A t \in Servers : t \in Nat \ {0} /\ t # -1
BY DEF QueueTypes, Servers

LEMMA PlacesTyped ==
  ASSUME QueueTypes, NEW p \in {0, -1} \cup Servers,
         pc' = [pc EXCEPT ![p] = pc'[p]],
         \/ p = 0 /\ pc'[p] \in MainPlaces
         \/ p = -1 /\ pc'[p] \in {"idle", "put"}
         \/ p \in Servers /\ pc'[p] \in ServerPlaces
  PROVE  /\ pc' \in [{0, -1} \cup Servers -> MainPlaces \cup ServerPlaces \cup {"put"}]
         /\ pc'[0] \in MainPlaces /\ pc'[-1] \in {"idle", "put"}
         /\ \A t \in Servers : pc'[t] \in ServerPlaces
<1>1. pc'[p] \in MainPlaces \cup ServerPlaces \cup {"put"}
  BY DEF MainPlaces
<1>2. \A t \in Servers : t # 0 /\ t # -1
  BY DEF Servers
<1>3. pc \in [{0, -1} \cup Servers -> MainPlaces \cup ServerPlaces \cup {"put"}]
  BY DEF QueueTypes
<1>4. \A q \in {0, -1} \cup Servers : q # p => pc'[q] = pc[q]
  BY <1>3
<1>5. pc' \in [{0, -1} \cup Servers -> MainPlaces \cup ServerPlaces \cup {"put"}]
  BY <1>1, <1>3
<1>6. pc[0] \in MainPlaces /\ pc[-1] \in {"idle", "put"} /\ \A t \in Servers : pc[t] \in ServerPlaces
  BY DEF QueueTypes
<1>7. pc'[0] \in MainPlaces
  BY <1>2, <1>4, <1>6
<1>8. pc'[-1] \in {"idle", "put"}
  BY <1>2, <1>4, <1>6
<1>9. \A t \in Servers : pc'[t] \in ServerPlaces
  BY <1>2, <1>4, <1>6
<1> QED BY <1>5, <1>7, <1>8, <1>9

\* A program sends to a process.
LEMMA Sends ==
  ASSUME QueueTypes, NEW to \in Servers \cup {0}, NEW r \in Asking,
         requests' = [requests EXCEPT ![to] = Append(@, r)]
  PROVE  /\ requests' \in [Servers \cup {0} -> Seq(Asking)]
         /\ requests'[to] = Append(requests[to], r)
         /\ \A p \in Servers \cup {0} : HeadKept(p) /\ (p # to => requests'[p] = requests[p])
<1>1. requests \in [Servers \cup {0} -> Seq(Asking)]
  BY DEF QueueTypes
<1>2. requests[to] \in Seq(Asking) /\ Append(requests[to], r) \in Seq(Asking)
  BY <1>1
<1>3. /\ requests' \in [Servers \cup {0} -> Seq(Asking)]
      /\ requests'[to] = Append(requests[to], r)
      /\ \A p \in Servers \cup {0} : p # to => requests'[p] = requests[p]
  BY <1>1, <1>2
<1>4. HeadKept(to)
  BY <1>2, <1>3, HeadStays DEF HeadKept
<1>5. \A p \in Servers \cup {0} : p # to => HeadKept(p)
  BY <1>3 DEF HeadKept
<1> QED BY <1>3, <1>4, <1>5

LEMMA ReadersResolve ==
  ASSUME ReadersInv, NEW L, NEW c \in Client, Reads(L)!Resolve(c) PROVE ReadersInv'
<1>1. /\ requests' = [requests EXCEPT ![0] = Append(@, [from |-> c, length |-> 0])]
      /\ waiting' = waiting \cup {c}
      /\ UNCHANGED <<threads, threads_mutex, kbd_mutex, stdin_read, started, kbd_buffer, count,
                     pc, reply, server, delivered>>
  BY DEF Reads!Resolve, Reads!Sent, Reads!MAIN, Reads!locks, Reads!buffer
<1>2. QueueTypes /\ DataTypes /\ LinksInv /\ BornInv /\ HoldersInv /\ LinesInv
  BY DEF ReadersInv
<1>3. /\ requests' \in [Servers \cup {0} -> Seq(Asking)]
      /\ \A p \in Servers \cup {0} : HeadKept(p) /\ (p # 0 => requests'[p] = requests[p])
  <2>1. [from |-> c, length |-> 0] \in Asking
    BY DEF Asking
  <2> QED BY <1>1, <1>2, <2>1, Sends
<1>4. 0 \in Servers \cup {0} /\ 1 \in Servers
  BY SomeServers
<1>5. QueueTypes'
  BY <1>1, <1>2, <1>3 DEF QueueTypes
<1>6. DataTypes'
  BY <1>1, <1>2 DEF DataTypes
<1>7. LinksInv'
  BY <1>1, <1>2, <1>3, <1>4, LinksKept
<1>8. BornInv'
  <2>1. requests'[1] = requests[1]
    BY <1>3, <1>4
  <2>2. started' = started /\ \A t \in Servers : pc'[t] = pc[t]
    BY <1>1
  <2> QED BY ONLY <1>2, <2>1, <2>2, BornKept
<1>9. HoldersInv'
  BY <1>1, <1>2, <1>3, HoldersKept
<1>10. LinesInv'
  BY <1>1, <1>2, <1>3, LinesKept
<1> QED BY <1>5, <1>6, <1>7, <1>8, <1>9, <1>10 DEF ReadersInv

LEMMA ReadersRead ==
  ASSUME ReadersInv, NEW L, NEW c \in Client, NEW l \in Nat, Reads(L)!Read(c, l) PROVE ReadersInv'
<1>1. /\ server[c] # -2
      /\ requests' = [requests EXCEPT ![server[c]] = Append(@, [from |-> c, length |-> l])]
      /\ waiting' = waiting \cup {c}
      /\ UNCHANGED <<threads, threads_mutex, kbd_mutex, stdin_read, started, kbd_buffer, count,
                     pc, reply, server, delivered>>
  BY DEF Reads!Read, Reads!Sent, Reads!NONE, Reads!locks, Reads!buffer
<1>2. QueueTypes /\ DataTypes /\ LinksInv /\ BornInv /\ HoldersInv /\ LinesInv
  BY DEF ReadersInv
<1>3. PICK s \in Servers : s = server[c] /\ s # 1 /\ s # 0
  <2>1. server[c] \in {-2} \cup (Servers \ {1})
    BY <1>2 DEF QueueTypes
  <2>2. server[c] \in Servers \ {1}
    BY <1>1, <2>1
  <2>3. \A t \in Servers : t # 0
    BY SomeServers
  <2> QED BY <2>2, <2>3
<1>4. /\ requests' \in [Servers \cup {0} -> Seq(Asking)]
      /\ \A p \in Servers \cup {0} : HeadKept(p) /\ (p # s => requests'[p] = requests[p])
  <2>1. [from |-> c, length |-> l] \in Asking
    BY DEF Asking
  <2>2. s \in Servers \cup {0} /\ requests' = [requests EXCEPT ![s] = Append(@, [from |-> c, length |-> l])]
    BY <1>1, <1>3
  <2> QED BY <1>2, <2>1, <2>2, Sends
<1>5. 0 \in Servers \cup {0} /\ 1 \in Servers
  BY SomeServers
<1>6. QueueTypes'
  BY <1>1, <1>2, <1>4 DEF QueueTypes
<1>7. DataTypes'
  BY <1>1, <1>2 DEF DataTypes
<1>8. LinksInv'
  BY <1>1, <1>2, <1>4, <1>5, LinksKept
<1>9. BornInv'
  <2>1. requests'[1] = requests[1]
    BY <1>3, <1>4, <1>5
  <2> QED BY <1>1, <1>2, <2>1, BornKept
<1>10. HoldersInv'
  BY <1>1, <1>2, <1>4, HoldersKept
<1>11. LinesInv'
  BY <1>1, <1>2, <1>4, LinesKept
<1> QED BY <1>6, <1>7, <1>8, <1>9, <1>10, <1>11 DEF ReadersInv

\* A step of main that only goes on.
LEMMA MainGoes ==
  ASSUME ReadersInv, pc' = [pc EXCEPT ![0] = pc'[0]], pc'[0] \in MainPlaces,
         UNCHANGED <<kbd_mutex, stdin_read, started, kbd_buffer, count, requests, reply, server,
                     waiting, delivered>>, LinksInv'
  PROVE  ReadersInv'
<1>2. QueueTypes /\ DataTypes /\ LinksInv /\ BornInv /\ HoldersInv /\ LinesInv
  BY DEF ReadersInv
<1>3. /\ pc' \in [{0, -1} \cup Servers -> MainPlaces \cup ServerPlaces \cup {"put"}]
      /\ pc'[0] \in MainPlaces /\ pc'[-1] \in {"idle", "put"}
      /\ \A t \in Servers : pc'[t] \in ServerPlaces
  <2>1. 0 \in {0, -1} \cup Servers
    OBVIOUS
  <2> QED BY <1>2, <2>1, PlacesTyped
<1>4. \A q \in {0, -1} \cup Servers : q # 0 => pc'[q] = pc[q]
  BY <1>2 DEF QueueTypes
<1>5. pc'[-1] = pc[-1] /\ \A t \in Servers : pc'[t] = pc[t]
  <2>1. -1 # 0 /\ \A t \in Servers : t # 0
    BY SomeServers
  <2> QED BY <1>4, <2>1
<1>6. QueueTypes'
  BY <1>2, <1>3 DEF QueueTypes
<1>7. DataTypes'
  BY <1>2 DEF DataTypes
<1>8. \A p \in Servers \cup {0} : HeadKept(p)
  BY DEF HeadKept
<1>9. BornInv'
  <2>1. started' = started /\ requests'[1] = requests[1]
    OBVIOUS
  <2> QED BY <1>2, <1>5, <2>1, BornKept
<1>10. HoldersInv'
  BY <1>2, <1>5, <1>8, HoldersKept
<1>11. LinesInv'
  BY <1>2, <1>5, <1>8, LinesKept
<1> QED BY <1>6, <1>7, <1>9, <1>10, <1>11 DEF ReadersInv

LEMMA ReadersMainFinds == ASSUME ReadersInv, NEW L, Reads(L)!MainFinds PROVE ReadersInv'
<1> DEFINE Mine == {i \in DOMAIN threads : threads[i].task = Head(requests[0]).from}
<1>1. /\ pc[0] = "idle" /\ requests[0] # <<>>
      /\ pc' = [pc EXCEPT ![0] = IF Mine = {} THEN "add" ELSE "forward"]
      /\ UNCHANGED <<threads, threads_mutex, kbd_mutex, stdin_read, started, kbd_buffer, count,
                     requests, reply, server, waiting, delivered>>
  BY DEF Reads!MainFinds, Reads!At, Reads!Goes, Reads!Request, Reads!Mine, Reads!MAIN, Reads!locks,
    Reads!buffer, Reads!clients
<1>2. QueueTypes /\ LinksInv
  BY DEF ReadersInv
<1>3. DOMAIN threads = 1..Len(threads)
  BY <1>2 DEF LinksInv
<1> HIDE DEF Mine
<1>4. pc'[0] = IF Mine = {} THEN "add" ELSE "forward"
  BY <1>1, <1>2 DEF QueueTypes
<1>5. pc' = [pc EXCEPT ![0] = pc'[0]] /\ pc'[0] \in MainPlaces
  BY <1>1, <1>4 DEF MainPlaces
<1>6. LinksInv'
  <2>1. pc[0] \notin Linking /\ pc'[0] \notin Linking /\ pc'[0] # "start" /\ pc[0] # "start"
    BY <1>1, <1>4 DEF Linking
  <2>2. pc'[0] = "add" => \A i \in 1..Len(threads) : threads[i].task # Head(requests[0]).from
    BY <1>3, <1>4 DEF Mine
  <2>3. pc'[0] = "forward" => \E i \in 1..Len(threads) : threads[i].task = Head(requests[0]).from
    BY <1>3, <1>4 DEF Mine
  <2> QED BY <1>1, <1>2, <2>1, <2>2, <2>3 DEF LinksInv
<1> QED BY <1>1, <1>5, <1>6, MainGoes

LEMMA ReadersMainAdds == ASSUME ReadersInv, NEW L, Reads(L)!MainAdds PROVE ReadersInv'
<1>1. /\ pc[0] = "add" /\ threads_mutex = -2 /\ threads_mutex' = 0
      /\ threads' = Append(threads, [task |-> Head(requests[0]).from, thread |-> 0])
      /\ pc' = [pc EXCEPT ![0] = "start"]
      /\ UNCHANGED <<kbd_mutex, stdin_read, started, kbd_buffer, count, requests, reply, server,
                     waiting, delivered>>
  BY DEF Reads!MainAdds, Reads!At, Reads!Goes, Reads!Request, Reads!NONE, Reads!MAIN,
    Reads!buffer, Reads!clients
<1>2. QueueTypes /\ LinksInv
  BY DEF ReadersInv
<1>3. pc'[0] = "start" /\ pc' = [pc EXCEPT ![0] = pc'[0]] /\ pc'[0] \in MainPlaces
  BY <1>1, <1>2 DEF QueueTypes, MainPlaces, Linking
<1>4. PICK c \in Client : c = Head(requests[0]).from /\ requests[0] # <<>>
  <2>1. requests[0] \in Seq(Asking) /\ requests[0] # <<>>
    BY <1>1, <1>2 DEF QueueTypes, LinksInv
  <2>2. Head(requests[0]) \in Asking
    BY <2>1
  <2> QED BY <2>1, <2>2 DEF Asking
<1>5. PICK e \in Linked : e = [task |-> c, thread |-> 0] /\ e.task = c /\ e.thread = 0
  <2>1. 0 \in 0..(Cardinality(Client) + 1)
    BY Programs
  <2>2. [task |-> c, thread |-> 0] \in Linked
    BY <2>1 DEF Linked
  <2> QED BY <2>2
<1>6. PICK n \in Nat : /\ n = Len(threads) /\ Len(threads') = n + 1 /\ threads' \in Seq(Linked)
                       /\ \A i \in 1..n : threads'[i] = threads[i]
                       /\ threads'[n + 1] = e
  BY <1>1, <1>2, <1>4, <1>5 DEF LinksInv
<1>7. pc[0] \notin Linking /\ pc'[0] \in Linking /\ pc[0] # "start"
  BY <1>1, <1>3 DEF Linking
<1>8. LinksInv'
  <2>1. started' = Len(threads')
    BY <1>1, <1>2, <1>6, <1>7 DEF LinksInv
  <2>2. ASSUME NEW i \in 1..(n + 1)
        PROVE  threads'[i].thread = IF i = n + 1 THEN 0 ELSE i + 1
    <3>1. CASE i = n + 1
      BY <1>5, <1>6, <3>1
    <3>2. CASE i # n + 1
      <4>1. i \in 1..n
        BY <3>2
      <4>2. threads[i].thread = i + 1
        BY <1>2, <1>6, <1>7, <4>1 DEF LinksInv
      <4> QED BY <1>6, <3>2, <4>1, <4>2
    <3> QED BY <3>1, <3>2
  <2>3. \A i \in 1..n : threads'[i].task # c
    BY <1>1, <1>2, <1>4, <1>6 DEF LinksInv
  <2>4. ASSUME NEW i \in 1..(n + 1), NEW j \in 1..(n + 1), threads'[i].task = threads'[j].task
        PROVE  i = j
    <3>1. CASE i \in 1..n /\ j \in 1..n
      BY <1>2, <1>6, <2>4, <3>1 DEF LinksInv
    <3>2. CASE i = n + 1
      BY <1>5, <1>6, <2>3, <2>4, <3>2
    <3>3. CASE j = n + 1
      BY <1>5, <1>6, <2>3, <2>4, <3>3
    <3> QED BY <3>1, <3>2, <3>3
  <2>5. \E i \in 1..(n + 1) : threads'[i].task = c
    <3>1. n + 1 \in 1..(n + 1)
      OBVIOUS
    <3> QED BY <1>5, <1>6, <3>1
  <2>6. pc'[0] # "add"
    BY <1>3
  <2> QED BY <1>1, <1>3, <1>4, <1>6, <1>7, <2>1, <2>2, <2>4, <2>5, <2>6 DEF LinksInv
<1> QED BY <1>1, <1>3, <1>8, MainGoes

LEMMA ReadersMainAssigns == ASSUME ReadersInv, NEW L, Reads(L)!MainAssigns PROVE ReadersInv'
<1>1. /\ pc[0] = "assign" /\ threads_mutex' = -2
      /\ threads' = [threads EXCEPT ![Len(threads)].thread = started]
      /\ pc' = [pc EXCEPT ![0] = "forward"]
      /\ UNCHANGED <<kbd_mutex, stdin_read, started, kbd_buffer, count, requests, reply, server,
                     waiting, delivered>>
  BY DEF Reads!MainAssigns, Reads!At, Reads!Goes, Reads!NONE, Reads!MAIN, Reads!buffer, Reads!clients
<1>2. QueueTypes /\ LinksInv
  BY DEF ReadersInv
<1>3. pc'[0] = "forward" /\ pc' = [pc EXCEPT ![0] = pc'[0]] /\ pc'[0] \in MainPlaces
  BY <1>1, <1>2 DEF QueueTypes, MainPlaces
<1>4. pc[0] \in Linking /\ pc'[0] \notin Linking /\ pc[0] # "start" /\ pc'[0] # "start" /\ pc'[0] # "add"
  BY <1>1, <1>3 DEF Linking
<1>5. PICK N \in Nat : N = Cardinality(Client) /\ Servers = 1..(N + 1)
  BY SomeServers
<1>6. PICK n \in Nat : n = Len(threads) /\ started = n + 1 /\ n >= 1 /\ n <= N
  <2>1. Len(threads) \in Nat /\ started = Len(threads) + 1 /\ threads \in Seq(Linked)
    BY <1>2, <1>4 DEF LinksInv
  <2>2. Len(threads) <= N
    BY <1>2, <1>5, <2>1, OneEach DEF LinksInv
  <2>3. \E i \in 1..Len(threads) : threads[i].task = Head(requests[0]).from
    BY <1>2, <1>4 DEF LinksInv
  <2> QED BY <2>1, <2>2, <2>3
<1>7. \A i \in 1..n : threads[i] \in Linked
  BY <1>2, <1>6 DEF LinksInv
<1>8. PICK e \in Linked : e = [threads[n] EXCEPT !.thread = started] /\ e.task = threads[n].task
                          /\ e.thread = n + 1
  <2>1. n \in 1..n /\ n + 1 \in 0..(N + 1)
    BY <1>6
  <2>2. threads[n] \in Linked
    BY <1>7, <2>1
  <2>3. started \in 0..(Cardinality(Client) + 1)
    BY <1>5, <1>6, <2>1
  <2>4. PICK r : r = threads[n]
    OBVIOUS
  <2>5. r \in [task : Client, thread : 0..(Cardinality(Client) + 1)]
    BY <2>2, <2>4 DEF Linked
  <2>6. [r EXCEPT !.thread = started] \in Linked
    BY <2>3, <2>5 DEF Linked
  <2>7. [r EXCEPT !.thread = started].task = r.task /\ [r EXCEPT !.thread = started].thread = started
    BY <2>5
  <2> QED BY <1>6, <2>4, <2>6, <2>7
<1>9. /\ threads' \in Seq(Linked) /\ Len(threads') = n
      /\ \A i \in 1..n : threads'[i] = IF i = n THEN e ELSE threads[i]
  <2>1. threads' = [threads EXCEPT ![n] = e]
    BY <1>1, <1>6, <1>8
  <2>2. n \in 1..n /\ threads \in Seq(Linked)
    BY <1>2, <1>6 DEF LinksInv
  <2> QED BY <1>6, <2>1, <2>2
<1>10. \A i \in 1..n : threads'[i].task = threads[i].task
  BY <1>8, <1>9
<1>11. LinksInv'
  <2>1. \A i \in 1..n : threads'[i].thread = i + 1
    BY <1>2, <1>6, <1>8, <1>9 DEF LinksInv
  <2>2. \A i, j \in 1..n : threads'[i].task = threads'[j].task => i = j
    BY <1>2, <1>6, <1>10 DEF LinksInv
  <2>3. requests[0] # <<>> /\ \E i \in 1..n : threads'[i].task = Head(requests[0]).from
    BY <1>1, <1>2, <1>4, <1>6, <1>10 DEF LinksInv
  <2> QED BY <1>1, <1>4, <1>6, <1>9, <2>1, <2>2, <2>3 DEF LinksInv
<1> QED BY <1>1, <1>3, <1>11, MainGoes

LEMMA ReadersMainStarts == ASSUME ReadersInv, NEW L, Reads(L)!MainStarts PROVE ReadersInv'
<1>1. /\ pc[0] = "start" /\ started' = started + 1
      /\ pc' = [pc EXCEPT ![0] = "assign", ![started + 1] = "new"]
      /\ UNCHANGED <<threads, threads_mutex, kbd_mutex, stdin_read, kbd_buffer, count, requests,
                     reply, server, waiting, delivered>>
  BY DEF Reads!MainStarts, Reads!At, Reads!StillHeld, Reads!MAIN, Reads!buffer, Reads!clients
<1>2. QueueTypes /\ DataTypes /\ LinksInv /\ BornInv /\ HoldersInv /\ LinesInv
  BY DEF ReadersInv
<1>3. PICK N \in Nat : N = Cardinality(Client) /\ Servers = 1..(N + 1)
  BY SomeServers
<1>4. PICK n \in Nat : n = Len(threads) /\ started = n /\ n <= N
  <2>1. Len(threads) \in Nat /\ started = Len(threads) /\ threads \in Seq(Linked)
    BY <1>1, <1>2 DEF LinksInv
  <2>2. Len(threads) <= N
    BY <1>2, <1>3, <2>1, OneEach DEF LinksInv
  <2> QED BY <2>1, <2>2
<1>5. PICK s \in Servers : s = n + 1 /\ s # 0 /\ s # -1 /\ started' = s
  BY <1>1, <1>3, <1>4
<1>6. /\ pc'[0] = "assign" /\ pc'[s] = "new" /\ pc'[-1] = pc[-1]
      /\ \A t \in Servers : t # s => pc'[t] = pc[t]
      /\ pc' \in [{0, -1} \cup Servers -> MainPlaces \cup ServerPlaces \cup {"put"}]
  <2>1. pc \in [{0, -1} \cup Servers -> MainPlaces \cup ServerPlaces \cup {"put"}]
    BY <1>2 DEF QueueTypes
  <2>2. pc' = [pc EXCEPT ![0] = "assign", ![s] = "new"]
    BY <1>1, <1>4, <1>5
  <2>3. "assign" \in MainPlaces /\ "new" \in ServerPlaces
    BY DEF MainPlaces, Linking, ServerPlaces
  <2>4. \A t \in Servers : t # 0 /\ t # -1
    BY <1>3
  <2> QED BY <1>5, <2>1, <2>2, <2>3, <2>4
<1>7. pc[s] = "unborn"
  BY <1>2, <1>4, <1>5 DEF BornInv
<1>8. QueueTypes'
  <2>1. pc'[0] \in MainPlaces /\ pc'[-1] \in {"idle", "put"}
    BY <1>2, <1>6 DEF QueueTypes, MainPlaces, Linking
  <2>2. \A t \in Servers : pc'[t] \in ServerPlaces
    BY <1>2, <1>6 DEF QueueTypes, ServerPlaces
  <2> QED BY <1>1, <1>2, <1>6, <2>1, <2>2 DEF QueueTypes
<1>9. DataTypes'
  BY <1>1, <1>2 DEF DataTypes
<1>10. LinksInv'
  <2>1. pc[0] \in Linking /\ pc'[0] \in Linking /\ pc'[0] # "start" /\ pc'[0] # "idle" /\ pc'[0] # "add"
        /\ pc[0] # "idle"
    BY <1>1, <1>6 DEF Linking
  <2> QED BY <1>1, <1>2, <1>4, <1>5, <2>1 DEF LinksInv
<1>11. BornInv'
  <2>1. ASSUME NEW t \in Servers
        PROVE  (pc'[t] = "unborn" <=> t > s) /\ (pc'[t] = "over" => t = 1)
    <3>1. CASE t = s
      BY <1>3, <1>6, <3>1
    <3>2. CASE t # s
      <4>1. t > s <=> t > n
        BY <1>3, <1>5, <3>2
      <4> QED BY <1>2, <1>4, <1>6, <3>2, <4>1 DEF BornInv
    <3> QED BY <3>1, <3>2
  <2> QED BY <1>1, <1>2, <1>5, <2>1 DEF BornInv
<1>12. \A p \in Servers \cup {0} : HeadKept(p)
  BY <1>1 DEF HeadKept
<1>13. HoldersInv'
  BY <1>1, <1>2, <1>6, <1>7, <1>12, HoldersKept
<1>14. LinesInv'
  <2>1. "new" \notin Reading \cup {"answer"}
    BY DEF Reading
  <2>2. \A t \in Servers :
           /\ pc'[t] \in {"unborn", "new", "over"} => pc[t] \in {"unborn", "new", "over"}
           /\ pc'[t] \in Reading \cup {"answer"} => pc[t] \in Reading \cup {"answer"} /\ HeadKept(t)
    BY <1>6, <1>7, <1>12, <2>1
  <2> QED BY <1>1, <1>2, <2>2, LinesKept
<1> QED BY <1>8, <1>9, <1>10, <1>11, <1>13, <1>14 DEF ReadersInv

\* A resolve is forwarded to a thread that looks for its program.
LEMMA ForwardsTo ==
  ASSUME ReadersInv, NEW L, Reads(L)!MainForwards
  PROVE  \E s \in Servers, r \in Asking :
           /\ s # 1 /\ s # 0 /\ r.length = 0 /\ requests[0] # <<>>
           /\ requests' = [requests EXCEPT ![0] = Tail(@), ![s] = Append(@, r)]
<1> DEFINE c == Head(requests[0]).from
           Mine == {i \in DOMAIN threads : threads[i].task = c}
           i0 == CHOOSE i \in Mine : \A j \in Mine : i <= j
           th == threads[i0].thread
<1>1. /\ pc[0] = "forward"
      /\ requests' = [requests EXCEPT ![0] = Tail(@), ![th] = Append(@, [from |-> c, length |-> 0])]
  BY DEF Reads!MainForwards, Reads!At, Reads!Goes, Reads!Request, Reads!Mine, Reads!MAIN, Reads!locks,
    Reads!buffer, Reads!clients
<1>2. QueueTypes /\ LinksInv
  BY DEF ReadersInv
<1>3. PICK N \in Nat : N = Cardinality(Client) /\ Servers = 1..(N + 1)
  BY SomeServers
<1>4. PICK n \in Nat : n = Len(threads) /\ n <= N
  <2>1. Len(threads) \in Nat /\ threads \in Seq(Linked)
    BY <1>2 DEF LinksInv
  <2>2. Len(threads) <= N
    BY <1>2, <1>3, <2>1, OneEach DEF LinksInv
  <2> QED BY <2>1, <2>2
<1>5. pc[0] \notin Linking /\ pc[0] \in Linking \cup {"forward"} /\ pc[0] # "idle" /\ pc[0] # "start"
  BY <1>1 DEF Linking
<1>6. requests[0] \in Seq(Asking) /\ requests[0] # <<>> /\ c \in Client
  <2>1. requests[0] \in Seq(Asking) /\ requests[0] # <<>>
    BY <1>2, <1>5 DEF QueueTypes, LinksInv
  <2>2. Head(requests[0]) \in Asking
    BY <2>1
  <2> QED BY <2>1, <2>2 DEF Asking
<1>7. DOMAIN threads = 1..n
  BY <1>2, <1>4 DEF LinksInv
<1>8. i0 \in 1..n
  <2>1. Mine # {} /\ Mine \subseteq 1..n
    BY <1>2, <1>4, <1>5, <1>7 DEF LinksInv
  <2>2. Mine \subseteq Nat
    BY <2>1
  <2> HIDE DEF Mine
  <2>3. \E i \in Mine : \A j \in Mine : i <= j
    BY <2>1, <2>2, LeastNatural
  <2>4. i0 \in Mine
    BY <2>3
  <2> QED BY <2>1, <2>4
<1> HIDE DEF i0
<1>9. PICK s \in Servers : s = th /\ s # 1 /\ s # 0
  <2>1. threads[i0].thread = i0 + 1
    BY <1>2, <1>4, <1>5, <1>8 DEF LinksInv
  <2> QED BY <1>3, <1>4, <1>8, <2>1
<1> HIDE DEF th
<1>10. PICK r \in Asking : r = [from |-> c, length |-> 0] /\ r.length = 0
  <2>1. [from |-> c, length |-> 0] \in Asking
    BY <1>6 DEF Asking
  <2> QED BY <2>1
<1> HIDE DEF c
<1>11. requests' = [requests EXCEPT ![0] = Tail(@), ![s] = Append(@, r)]
  BY <1>1, <1>9, <1>10
<1> QED BY <1>6, <1>9, <1>10, <1>11

LEMMA ReadersMainForwards == ASSUME ReadersInv, NEW L, Reads(L)!MainForwards PROVE ReadersInv'
<1>1. /\ pc[0] = "forward" /\ pc' = [pc EXCEPT ![0] = "idle"]
      /\ UNCHANGED <<threads, threads_mutex, kbd_mutex, stdin_read, started, kbd_buffer, count,
                     reply, server, waiting, delivered>>
  BY DEF Reads!MainForwards, Reads!At, Reads!Goes, Reads!MAIN, Reads!locks, Reads!buffer, Reads!clients
<1>2. QueueTypes /\ DataTypes /\ LinksInv /\ BornInv /\ HoldersInv /\ LinesInv
  BY DEF ReadersInv
<1>3. PICK N \in Nat : N = Cardinality(Client) /\ Servers = 1..(N + 1)
  BY SomeServers
<1>5. pc[0] \notin Linking /\ pc[0] # "idle" /\ pc[0] # "start"
  BY <1>1 DEF Linking
<1>9. PICK s \in Servers, r \in Asking :
        /\ s # 1 /\ s # 0 /\ r.length = 0 /\ requests[0] # <<>>
        /\ requests' = [requests EXCEPT ![0] = Tail(@), ![s] = Append(@, r)]
  BY ForwardsTo
<1>12. /\ requests' \in [Servers \cup {0} -> Seq(Asking)]
       /\ \A t \in Servers : HeadKept(t) /\ (t # s => requests'[t] = requests[t])
  <2>1. requests \in [Servers \cup {0} -> Seq(Asking)]
    BY <1>2 DEF QueueTypes
  <2>2. requests[s] \in Seq(Asking) /\ Append(requests[s], r) \in Seq(Asking) /\ Tail(requests[0]) \in Seq(Asking)
    BY <1>9, <2>1
  <2>3. \A t \in Servers : t # 0
    BY <1>3
  <2>4. requests' = [[requests EXCEPT ![0] = Tail(requests[0])] EXCEPT ![s] = Append(requests[s], r)]
    BY <1>9, <2>1
  <2>5. /\ requests' \in [Servers \cup {0} -> Seq(Asking)]
        /\ requests'[s] = Append(requests[s], r)
        /\ \A t \in Servers : t # s => requests'[t] = requests[t]
    BY <2>1, <2>2, <2>3, <2>4
  <2>6. HeadKept(s)
    BY <2>2, <2>5, HeadStays DEF HeadKept
  <2>7. \A t \in Servers : t # s => HeadKept(t)
    BY <2>5 DEF HeadKept
  <2> QED BY <2>5, <2>6, <2>7
<1>13. pc'[0] = "idle" /\ pc' = [pc EXCEPT ![0] = pc'[0]] /\ pc'[0] \in MainPlaces
  BY <1>1, <1>2 DEF QueueTypes, MainPlaces
<1>14. \A t \in Servers : pc'[t] = pc[t]
  <2>1. \A t \in Servers : t # 0
    BY <1>3
  <2> QED BY <1>1, <1>2, <2>1 DEF QueueTypes
<1>15. pc'[-1] = pc[-1]
  BY <1>1, <1>2 DEF QueueTypes
<1>16. QueueTypes'
  <2>1. 0 \in {0, -1} \cup Servers
    OBVIOUS
  <2>2. /\ pc' \in [{0, -1} \cup Servers -> MainPlaces \cup ServerPlaces \cup {"put"}]
        /\ pc'[0] \in MainPlaces /\ pc'[-1] \in {"idle", "put"}
        /\ \A t \in Servers : pc'[t] \in ServerPlaces
    BY <1>2, <1>13, <2>1, PlacesTyped
  <2> QED BY <1>1, <1>2, <1>12, <2>2 DEF QueueTypes
<1>17. DataTypes'
  BY <1>1, <1>2 DEF DataTypes
<1>18. LinksInv'
  <2>1. pc'[0] \notin Linking /\ pc'[0] # "start" /\ pc'[0] # "add" /\ pc'[0] \notin Linking \cup {"forward"}
    BY <1>13 DEF Linking
  <2> QED BY <1>1, <1>2, <1>5, <1>13, <2>1 DEF LinksInv
<1>19. BornInv'
  <2>0. 1 \in Servers
    BY <1>3
  <2>1. requests'[1] = requests[1]
    BY <1>9, <1>12, <2>0
  <2>2. started' = started
    BY <1>1
  <2> QED BY <1>2, <1>14, <2>1, <2>2, BornKept
<1>20. HoldersInv'
  BY <1>1, <1>2, <1>12, <1>14, <1>15, HoldersKept
<1>21. LinesInv'
  BY <1>1, <1>2, <1>12, <1>14, LinesKept
<1> QED BY <1>16, <1>17, <1>18, <1>19, <1>20, <1>21 DEF ReadersInv

(* What a thread gathers *)

\* g is what is gathered after each of the first n characters of the buffer.
IsGathering(L, g, s, n) ==
  g = [i \in 0..n |-> IF i = 0 THEN s ELSE Reads(L)!Edited(g[i - 1], kbd_buffer[i])]

\* There is one: the one for n - 1 with one character more.
LEMMA GatheringExists ==
  ASSUME NEW L, NEW s, NEW n \in Nat
  PROVE  \E g : IsGathering(L, g, s, n)
<1> DEFINE S == {m \in Nat : \E g : IsGathering(L, g, s, m)}
<1>1. 0 \in S
  <2>1. IsGathering(L, [k \in 0..0 |-> s], s, 0)
    BY DEF IsGathering
  <2> QED BY <2>1
<1>2. ASSUME NEW m \in Nat, m \in S PROVE m + 1 \in S
  <2>1. PICK g : IsGathering(L, g, s, m)
    BY <1>2
  <2> DEFINE h == [k \in 0..(m + 1) |->
                     IF k = m + 1 THEN Reads(L)!Edited(g[m], kbd_buffer[m + 1]) ELSE g[k]]
  <2>2. ASSUME NEW k \in 0..(m + 1)
        PROVE  h[k] = IF k = 0 THEN s ELSE Reads(L)!Edited(h[k - 1], kbd_buffer[k])
    <3>1. CASE k = 0
      BY <2>1, <3>1 DEF IsGathering
    <3>2. CASE k = m + 1
      BY <3>2
    <3>3. CASE k \in 1..m
      <4>1. k - 1 \in 0..m /\ k - 1 # m + 1 /\ k # m + 1 /\ k # 0 /\ k \in 0..m
        BY <3>3
      <4>2. h[k - 1] = g[k - 1] /\ h[k] = g[k]
        BY <4>1
      <4>3. g[k] = Reads(L)!Edited(g[k - 1], kbd_buffer[k])
        BY <4>1, <2>1 DEF IsGathering
      <4> QED BY <4>1, <4>2, <4>3
    <3> QED BY <3>1, <3>2, <3>3
  <2>3. IsGathering(L, h, s, m + 1)
    BY <2>2 DEF IsGathering
  <2> QED BY <2>3
<1> HIDE DEF S
<1>3. n \in S
  BY <1>1, <1>2, Induct
<1> QED BY <1>3 DEF S

\* A character more leaves no backspace behind.
Line(s) == s \in Seq(Int) /\ NoBackspace(s)
LEMMA EditedLine ==
  ASSUME NEW L, NEW s, Line(s), NEW ch \in Int PROVE Line(Reads(L)!Edited(s, ch))
<1>1. s \in Seq(Int) /\ Len(s) \in Nat /\ \A i \in 1..Len(s) : s[i] # -1
  BY DEF Line, NoBackspace
<1>2. CASE ch # -1
  <2>1. Reads(L)!Edited(s, ch) = Append(s, ch)
    BY <1>2 DEF Reads!Edited, Reads!Backspace
  <2> QED BY <1>1, <1>2, <2>1 DEF Line, NoBackspace
<1>3. CASE ch = -1 /\ s = <<>>
  <2>1. Reads(L)!Edited(s, ch) = <<>>
    BY <1>3 DEF Reads!Edited, Reads!Backspace
  <2> QED BY <2>1 DEF Line, NoBackspace
<1>4. CASE ch = -1 /\ s # <<>>
  <2>1. Reads(L)!Edited(s, ch) = SubSeq(s, 1, Len(s) - 1)
    BY <1>4 DEF Reads!Edited, Reads!Backspace
  <2>2. PICK m \in Nat : m = Len(s) - 1 /\ Len(s) = m + 1
    BY <1>1, <1>4
  <2>3. PICK u : u = SubSeq(s, 1, m)
    OBVIOUS
  <2>4. u \in Seq(Int) /\ Len(u) = m /\ \A i \in 1..m : u[i] = s[i]
    BY <1>1, <2>2, <2>3
  <2>5. NoBackspace(u)
    BY <1>1, <2>2, <2>4 DEF NoBackspace
  <2> QED BY <2>1, <2>2, <2>3, <2>4, <2>5 DEF Line
<1> QED BY <1>2, <1>3, <1>4

\* Nor do all that are there.
LEMMA GatheredLine ==
  ASSUME NEW L, NEW s, Line(s), kbd_buffer \in Seq(Int) PROVE Line(Reads(L)!Gathered(s))
<1> DEFINE after[i \in 0..Len(kbd_buffer)] ==
             IF i = 0 THEN s ELSE Reads(L)!Edited(after[i - 1], kbd_buffer[i])
<1>1. PICK n \in Nat : n = Len(kbd_buffer)
  OBVIOUS
<1>2. Reads(L)!Gathered(s) = after[n]
  BY <1>1 DEF Reads!Gathered
<1>3. IsGathering(L, after, s, n)
  <2>1. \E g : g = [i \in 0..n |-> IF i = 0 THEN s ELSE Reads(L)!Edited(g[i - 1], kbd_buffer[i])]
    <3>1. \E g : IsGathering(L, g, s, n)
      BY GatheringExists
    <3> QED BY <3>1 DEF IsGathering
  <2> QED BY <1>1, <2>1 DEF IsGathering
<1> HIDE DEF after
<1> DEFINE S == {k \in 0..n : Line(after[k])}
<1>4. 0 \in S
  BY <1>3 DEF IsGathering
<1>5. ASSUME NEW k \in 0..(n - 1), k \in S PROVE k + 1 \in S
  <2>1. k + 1 \in 0..n /\ k + 1 # 0 /\ (k + 1) - 1 = k /\ k + 1 \in 1..n
    OBVIOUS
  <2>2. after[k + 1] = Reads(L)!Edited(after[k], kbd_buffer[k + 1])
    BY <1>3, <2>1 DEF IsGathering
  <2>3. kbd_buffer[k + 1] \in Int
    BY <1>1, <2>1
  <2> QED BY <1>5, <2>1, <2>2, <2>3, EditedLine
<1>6. 0..n \subseteq S
  <2> HIDE DEF S
  <2> QED BY <1>4, <1>5, UpTo
<1> QED BY <1>2, <1>6

-----------------------------------------------------------------------------
(* The keyboard *)

LEMMA KeyboardGoes ==
  ASSUME ReadersInv, pc' = [pc EXCEPT ![-1] = pc'[-1]], pc'[-1] \in {"idle", "put"},
         UNCHANGED <<threads, threads_mutex, stdin_read, started, requests, reply, server, waiting,
                     delivered>>
  PROVE  /\ QueueTypes' /\ LinksInv' /\ BornInv' /\ LinesInv'
         /\ \A t \in Servers : pc'[t] = pc[t]
<1>1. QueueTypes /\ LinksInv /\ BornInv /\ HoldersInv /\ LinesInv
  BY DEF ReadersInv
<1>2. /\ pc' \in [{0, -1} \cup Servers -> MainPlaces \cup ServerPlaces \cup {"put"}]
      /\ pc'[0] \in MainPlaces /\ pc'[-1] \in {"idle", "put"}
      /\ \A t \in Servers : pc'[t] \in ServerPlaces
  <2>1. -1 \in {0, -1} \cup Servers
    OBVIOUS
  <2> QED BY <1>1, <2>1, PlacesTyped
<1>3. pc'[0] = pc[0] /\ \A t \in Servers : pc'[t] = pc[t]
  <2>1. \A t \in Servers : t # -1
    BY SomeServers
  <2>2. \A q \in {0, -1} \cup Servers : q # -1 => pc'[q] = pc[q]
    BY <1>1 DEF QueueTypes
  <2>3. 0 # -1
    OBVIOUS
  <2> QED BY <2>1, <2>2, <2>3
<1>4. \A p \in Servers \cup {0} : HeadKept(p)
  BY DEF HeadKept
<1>5. QueueTypes'
  BY <1>1, <1>2 DEF QueueTypes
<1>6. LinksInv'
  BY <1>1, <1>3, <1>4, LinksKept
<1>7. BornInv'
  <2>1. started' = started /\ requests'[1] = requests[1]
    OBVIOUS
  <2> QED BY <1>1, <1>3, <2>1, BornKept
<1>8. LinesInv'
  BY <1>1, <1>3, <1>4, LinesKept
<1> QED BY <1>3, <1>5, <1>6, <1>7, <1>8

LEMMA ReadersType == ASSUME ReadersInv, NEW L, Reads(L)!Type PROVE ReadersInv'
<1>1. /\ pc[-1] = "idle" /\ count < TYPED /\ kbd_mutex = -2 /\ kbd_mutex' = -1
      /\ count' = count + 1 /\ pc' = [pc EXCEPT ![-1] = "put"]
      /\ UNCHANGED <<threads, threads_mutex, stdin_read, started, kbd_buffer, requests, reply,
                     server, waiting, delivered>>
  BY DEF Reads!Type, Reads!At, Reads!Goes, Reads!NONE, Reads!KEYBOARD, Reads!clients
<1>2. QueueTypes /\ DataTypes /\ HoldersInv
  BY DEF ReadersInv
<1>3. pc'[-1] = "put" /\ pc' = [pc EXCEPT ![-1] = pc'[-1]]
  BY <1>1, <1>2 DEF QueueTypes
<1>4. /\ QueueTypes' /\ LinksInv' /\ BornInv' /\ LinesInv'
      /\ \A t \in Servers : pc'[t] = pc[t]
  BY <1>1, <1>3, KeyboardGoes
<1>5. DataTypes'
  <2>1. count' \in 0..TYPED
    BY <1>1, <1>2, Programs DEF DataTypes
  <2> QED BY <1>1, <1>2, <2>1 DEF DataTypes
<1>6. HoldersInv'
  <2>1. \A t \in Servers : t # -1 /\ t # -2
    BY SomeServers
  <2> QED BY <1>1, <1>2, <1>4, <2>1 DEF HoldersInv
<1> QED BY <1>4, <1>5, <1>6 DEF ReadersInv

LEMMA ReadersPut == ASSUME ReadersInv, NEW L, Reads(L)!Put PROVE ReadersInv'
<1> DEFINE ch == IF count % 3 = 0 THEN -1 ELSE count
<1>1. /\ pc[-1] = "put" /\ Len(kbd_buffer) < BUFFER - 1
      /\ kbd_buffer' = Append(kbd_buffer, ch) /\ kbd_mutex' = -2 /\ pc' = [pc EXCEPT ![-1] = "idle"]
      /\ UNCHANGED <<threads, threads_mutex, stdin_read, started, count, requests, reply,
                     server, waiting, delivered>>
  BY DEF Reads!Put, Reads!Room, Reads!Character, Reads!Backspace, Reads!At, Reads!Goes, Reads!NONE,
    Reads!KEYBOARD, Reads!clients
<1>2. QueueTypes /\ DataTypes /\ HoldersInv
  BY DEF ReadersInv
<1>3. pc'[-1] = "idle" /\ pc' = [pc EXCEPT ![-1] = pc'[-1]]
  BY <1>1, <1>2 DEF QueueTypes
<1>4. /\ QueueTypes' /\ LinksInv' /\ BornInv' /\ LinesInv'
      /\ \A t \in Servers : pc'[t] = pc[t]
  BY <1>1, <1>3, KeyboardGoes
<1>5. ch \in Int
  BY <1>2 DEF DataTypes
<1> HIDE DEF ch
<1>6. kbd_buffer' \in Seq(Int) /\ Len(kbd_buffer') = Len(kbd_buffer) + 1 /\ kbd_buffer' # <<>>
  <2>1. kbd_buffer \in Seq(Int) /\ kbd_buffer' = Append(kbd_buffer, ch)
    BY <1>1, <1>2 DEF DataTypes
  <2>2. /\ kbd_buffer' \in Seq(Int) /\ Len(kbd_buffer') = Len(kbd_buffer) + 1
        /\ Len(kbd_buffer) \in Nat
    BY <1>5, <2>1, AppendProperties
  <2> QED BY <2>2
<1>7. DataTypes'
  <2>1. Len(kbd_buffer') < BUFFER
    <3>1. Len(kbd_buffer) < BUFFER - 1 /\ Len(kbd_buffer) \in Nat /\ BUFFER \in Nat
      BY <1>1, <1>2, Programs DEF DataTypes
    <3> QED BY <1>6, <3>1
  <2> QED BY <1>1, <1>2, <1>6, <2>1 DEF DataTypes
<1>8. HoldersInv'
  <2>1. \A t \in Servers : t # -1 /\ t # -2
    BY SomeServers
  <2> QED BY <1>1, <1>2, <1>3, <1>4, <1>6, <2>1 DEF HoldersInv
<1> QED BY <1>4, <1>7, <1>8 DEF ReadersInv

LEMMA ReadersDrop == ASSUME ReadersInv, NEW L, Reads(L)!Drop PROVE ReadersInv'
<1>1. /\ pc[-1] = "put" /\ pc' = [pc EXCEPT ![-1] = "idle"]
      /\ UNCHANGED <<threads, threads_mutex, kbd_mutex, stdin_read, started, kbd_buffer, count,
                     requests, reply, server, waiting, delivered>>
  BY DEF Reads!Drop, Reads!At, Reads!Goes, Reads!KEYBOARD, Reads!locks, Reads!buffer, Reads!clients
<1>2. QueueTypes /\ DataTypes /\ HoldersInv
  BY DEF ReadersInv
<1>3. pc'[-1] = "idle" /\ pc' = [pc EXCEPT ![-1] = pc'[-1]]
  BY <1>1, <1>2 DEF QueueTypes
<1>4. /\ QueueTypes' /\ LinksInv' /\ BornInv' /\ LinesInv'
      /\ \A t \in Servers : pc'[t] = pc[t]
  BY <1>1, <1>3, KeyboardGoes
<1>5. DataTypes'
  BY <1>1, <1>2 DEF DataTypes
<1>6. HoldersInv'
  BY <1>1, <1>2, <1>3, <1>4 DEF HoldersInv
<1> QED BY <1>4, <1>5, <1>6 DEF ReadersInv

(* A stdin thread *)

LEMMA LivingPlaces ==
  /\ Living \subseteq ServerPlaces \cap (MainPlaces \cup ServerPlaces \cup {"put"})
  /\ {"new", "idle", "answer", "await", "lock", "take", "finish"} \subseteq Living
  /\ {"await", "lock", "take", "finish"} \subseteq Reading
  /\ {"new", "idle", "answer", "unborn", "over"} \cap Reading = {}
  /\ {"unborn", "over"} \cap Living = {}
BY DEF Living, Reading, ServerPlaces

LEMMA ThreadGoes ==
  ASSUME ReadersInv, NEW t \in Servers, pc[t] \in Living, NEW place \in Living,
         pc' = [pc EXCEPT ![t] = place],
         UNCHANGED <<threads, threads_mutex, started>>,
         requests' \in [Servers \cup {0} -> Seq(Asking)],
         \A p \in Servers \cup {0} : p # t => requests'[p] = requests[p],
         requests'[1] = requests[1],
         server' \in [Client -> {-2} \cup (Servers \ {1})], waiting' \subseteq Client
  PROVE  /\ QueueTypes' /\ LinksInv' /\ BornInv'
         /\ pc'[t] = place /\ pc'[-1] = pc[-1]
         /\ \A u \in Servers : u # t => pc'[u] = pc[u]
<1>1. QueueTypes /\ LinksInv /\ BornInv
  BY DEF ReadersInv
<1>2. t # 0 /\ t # -1 /\ t \in {0, -1} \cup Servers
  BY SomeServers
<1>3. pc'[t] = place /\ (\A q \in {0, -1} \cup Servers : q # t => pc'[q] = pc[q])
      /\ pc' = [pc EXCEPT ![t] = pc'[t]]
  BY <1>1, <1>2 DEF QueueTypes
<1>4. place \in ServerPlaces
  BY LivingPlaces
<1>5. /\ pc' \in [{0, -1} \cup Servers -> MainPlaces \cup ServerPlaces \cup {"put"}]
      /\ pc'[0] \in MainPlaces /\ pc'[-1] \in {"idle", "put"}
      /\ \A u \in Servers : pc'[u] \in ServerPlaces
  BY <1>1, <1>2, <1>3, <1>4, PlacesTyped
<1>6. QueueTypes'
  BY <1>5 DEF QueueTypes
<1>7. pc'[-1] = pc[-1] /\ pc'[0] = pc[0] /\ \A u \in Servers : u # t => pc'[u] = pc[u]
  <2>1. 0 \in {0, -1} \cup Servers /\ -1 \in {0, -1} \cup Servers
    OBVIOUS
  <2> QED BY <1>2, <1>3, <2>1
<1>8. LinksInv'
  <2>1. HeadKept(0)
    BY <1>2 DEF HeadKept
  <2> QED BY <1>1, <1>7, <2>1, LinksKept
<1>9. BornInv'
  <2>1. \A u \in Servers : pc'[u] = pc[u] \/ (pc[u] \in Living /\ pc'[u] \in Living)
    BY <1>3, <1>7
  <2>2. started' = started
    OBVIOUS
  <2> QED BY <1>1, <2>1, <2>2, BornKept
<1> QED BY <1>3, <1>6, <1>7, <1>8, <1>9

LEMMA ReadersLook == ASSUME ReadersInv, NEW L, NEW t \in Servers, Reads(L)!ThreadLooks(t) PROVE ReadersInv'
<1> DEFINE found == \E i \in DOMAIN threads : threads[i].thread = t
<1>1. /\ pc[t] = "new" /\ threads_mutex = -2
      /\ pc' = [pc EXCEPT ![t] = IF found THEN "idle" ELSE "over"]
      /\ UNCHANGED <<threads, threads_mutex, kbd_mutex, stdin_read, started, kbd_buffer, count,
                     requests, reply, server, waiting, delivered>>
  BY DEF Reads!ThreadLooks, Reads!At, Reads!Goes, Reads!NONE, Reads!locks, Reads!buffer, Reads!clients
<1>2. QueueTypes /\ DataTypes /\ LinksInv /\ BornInv /\ HoldersInv /\ LinesInv
  BY DEF ReadersInv
<1>3. PICK N \in Nat : N = Cardinality(Client) /\ Servers = 1..(N + 1)
  BY SomeServers
<1>4. t # 1 => found
  <2>1. pc[0] \notin Linking
    BY <1>1, <1>2 DEF LinksInv
  <2>2. Len(threads) \in Nat /\ started = Len(threads) + 1 /\ DOMAIN threads = 1..Len(threads)
        /\ \A i \in 1..Len(threads) : threads[i].thread = i + 1
    BY <1>2, <2>1 DEF LinksInv, Linking
  <2>3. ~(t > started)
    BY <1>1, <1>2 DEF BornInv
  <2>4. t # 1 => t - 1 \in 1..Len(threads) /\ (t - 1) + 1 = t
    BY <1>3, <2>2, <2>3
  <2> QED BY <2>2, <2>4
<1> HIDE DEF found
<1>5. pc' = [pc EXCEPT ![t] = pc'[t]] /\ pc'[t] = IF found THEN "idle" ELSE "over"
  BY <1>1, <1>2 DEF QueueTypes
<1>6. \A q \in {0, -1} \cup Servers : q # t => pc'[q] = pc[q]
  BY <1>1, <1>2 DEF QueueTypes
<1>7. /\ pc' \in [{0, -1} \cup Servers -> MainPlaces \cup ServerPlaces \cup {"put"}]
      /\ pc'[0] \in MainPlaces /\ pc'[-1] \in {"idle", "put"}
      /\ \A u \in Servers : pc'[u] \in ServerPlaces
  <2>1. pc'[t] \in ServerPlaces
    BY <1>5 DEF ServerPlaces
  <2>2. t \in {0, -1} \cup Servers
    OBVIOUS
  <2> QED BY <1>2, <1>5, <2>1, <2>2, PlacesTyped
<1>8. QueueTypes'
  BY <1>1, <1>2, <1>7 DEF QueueTypes
<1>9. pc'[-1] = pc[-1] /\ pc'[0] = pc[0] /\ \A u \in Servers : u # t => pc'[u] = pc[u]
  <2>1. 0 \in {0, -1} \cup Servers /\ -1 \in {0, -1} \cup Servers /\ t # 0 /\ t # -1
    BY <1>3
  <2> QED BY <1>6, <2>1
<1>10. \A p \in Servers \cup {0} : HeadKept(p)
  BY <1>1 DEF HeadKept
<1>11. LinksInv'
  BY <1>1, <1>2, <1>9, <1>10, LinksKept
<1>12. BornInv'
  BY <1>1, <1>2, <1>4, <1>5, <1>9 DEF BornInv
<1>13. HoldersInv'
  BY <1>1, <1>2, <1>5, <1>9, <1>10, HoldersKept
<1>14. LinesInv'
  <2>1. {"idle", "over"} \cap (Reading \cup {"answer"}) = {}
    BY DEF Reading
  <2> QED BY <1>1, <1>2, <1>5, <1>9, <1>10, <2>1, LinesKept
<1>15. DataTypes'
  BY <1>1, <1>2 DEF DataTypes
<1> QED BY <1>8, <1>11, <1>12, <1>13, <1>14, <1>15 DEF ReadersInv

\* A thread answers: it takes the request from its queue and waits for the next.
LEMMA ReadersAnswer ==
  ASSUME ReadersInv, NEW L, NEW t \in Servers, pc[t] \in {"idle", "answer"}, requests[t] # <<>>,
         Reads(L)!Answer(t), server' = server \/ server' = [server EXCEPT ![Head(requests[t]).from] = t],
         UNCHANGED <<threads, threads_mutex, kbd_mutex, stdin_read, started, kbd_buffer, count,
                     reply, delivered>>
  PROVE  ReadersInv'
<1>1. /\ requests' = [requests EXCEPT ![t] = Tail(@)] /\ waiting' \subseteq waiting
      /\ pc' = [pc EXCEPT ![t] = "idle"]
  BY DEF Reads!Answer, Reads!Goes, Reads!Request
<1>2. QueueTypes /\ DataTypes /\ LinksInv /\ BornInv /\ HoldersInv /\ LinesInv
  BY DEF ReadersInv
<1>3. t # 1
  BY <1>2 DEF BornInv
<1>4. /\ requests \in [Servers \cup {0} -> Seq(Asking)] /\ requests[t] \in Seq(Asking)
      /\ Tail(requests[t]) \in Seq(Asking) /\ Head(requests[t]) \in Asking
  <2>1. requests \in [Servers \cup {0} -> Seq(Asking)] /\ requests[t] \in Seq(Asking)
    BY <1>2 DEF QueueTypes
  <2> QED BY <2>1
<1>5. /\ requests' \in [Servers \cup {0} -> Seq(Asking)]
      /\ \A p \in Servers \cup {0} : p # t => requests'[p] = requests[p]
      /\ requests'[1] = requests[1]
  <2>1. 1 \in Servers
    BY SomeServers
  <2> QED BY <1>1, <1>3, <1>4, <2>1
<1>6. server' \in [Client -> {-2} \cup (Servers \ {1})] /\ waiting' \subseteq Client
  <2>1. server \in [Client -> {-2} \cup (Servers \ {1})] /\ waiting \subseteq Client
    BY <1>2 DEF QueueTypes
  <2>2. Head(requests[t]).from \in Client
    BY <1>4 DEF Asking
  <2> QED BY <1>1, <1>3, <2>1, <2>2
<1>7. pc[t] \in Living /\ "idle" \in Living
  BY LivingPlaces
<1>8. /\ QueueTypes' /\ LinksInv' /\ BornInv'
      /\ pc'[t] = "idle" /\ pc'[-1] = pc[-1]
      /\ \A u \in Servers : u # t => pc'[u] = pc[u]
  BY <1>1, <1>5, <1>6, <1>7, ThreadGoes
<1>9. \A u \in Servers : u # t => HeadKept(u)
  BY <1>5 DEF HeadKept
<1>10. DataTypes'
  BY <1>2 DEF DataTypes
<1>11. HoldersInv'
  BY <1>2, <1>8, <1>9, HoldersKept
<1>12. LinesInv'
  <2>1. "idle" \notin Reading \cup {"answer"}
    BY LivingPlaces
  <2> QED BY <1>2, <1>8, <1>9, <2>1, LinesKept
<1> QED BY <1>8, <1>10, <1>11, <1>12 DEF ReadersInv

\* A step of a read.
LEMMA ReadGoes ==
  ASSUME ReadersInv, NEW t \in Servers, pc[t] \in Living, NEW place \in Living,
         pc' = [pc EXCEPT ![t] = place],
         UNCHANGED <<threads, threads_mutex, started, requests, server, waiting>>,
         DataTypes', HoldersInv', LinesInv'
  PROVE  ReadersInv'
<1>1. /\ requests' \in [Servers \cup {0} -> Seq(Asking)]
      /\ \A p \in Servers \cup {0} : p # t => requests'[p] = requests[p]
      /\ requests'[1] = requests[1]
      /\ server' \in [Client -> {-2} \cup (Servers \ {1})] /\ waiting' \subseteq Client
  BY DEF ReadersInv, QueueTypes
<1>2. QueueTypes' /\ LinksInv' /\ BornInv'
  BY <1>1, ThreadGoes
<1> QED BY <1>2 DEF ReadersInv

LEMMA ReadMoves ==
  ASSUME ReadersInv, NEW t \in Servers, NEW place, pc' = [pc EXCEPT ![t] = place]
  PROVE  /\ pc'[t] = place /\ pc'[-1] = pc[-1] /\ \A u \in Servers : u # t => pc'[u] = pc[u]
<1>1. t # -1
  BY SomeServers
<1> QED BY <1>1 DEF ReadersInv, QueueTypes

LEMMA ReadersStart == ASSUME ReadersInv, NEW L, NEW t \in Servers, Reads(L)!ReadStarts(t) PROVE ReadersInv'
<1>1. /\ pc[t] = "idle" /\ requests[t] # <<>> /\ Head(requests[t]).length > 0
      /\ stdin_read = -2 /\ stdin_read' = t
      /\ reply' = [reply EXCEPT ![t] = <<>>] /\ pc' = [pc EXCEPT ![t] = "await"]
      /\ UNCHANGED <<threads, threads_mutex, kbd_mutex, started, kbd_buffer, count, requests,
                     server, waiting, delivered>>
  BY DEF Reads!ReadStarts, Reads!At, Reads!Goes, Reads!Request, Reads!ReadLocked, Reads!NONE,
    Reads!buffer, Reads!clients
<1>2. DataTypes /\ HoldersInv /\ LinesInv
  BY DEF ReadersInv
<1>3. pc'[t] = "await" /\ pc'[-1] = pc[-1] /\ \A u \in Servers : u # t => pc'[u] = pc[u]
  BY <1>1, ReadMoves
<1>4. pc[t] \in Living /\ "await" \in Living /\ "await" \in Reading
      /\ "idle" \notin Reading /\ "await" \notin {"unborn", "new", "over"}
  BY <1>1, LivingPlaces
<1>5. reply \in [Servers -> Seq(Int)]
  BY <1>2 DEF DataTypes
<1>6. reply'[t] = <<>> /\ reply' \in [Servers -> Seq(Int)]
      /\ \A u \in Servers : u # t => reply'[u] = reply[u]
  BY <1>1, <1>5
<1>7. DataTypes'
  BY <1>1, <1>2, <1>6 DEF DataTypes
<1>8. HoldersInv'
  <2>1. ASSUME NEW u \in Servers
        PROVE  /\ pc'[u] \in Reading <=> stdin_read' = u
               /\ pc'[u] = "take" <=> kbd_mutex = u
               /\ pc'[u] \in {"lock", "take"} => kbd_buffer # <<>>
               /\ pc'[u] \in Reading \cup {"answer"} => requests[u] # <<>> /\ Head(requests[u]).length > 0
    <3>1. CASE u = t
      BY <1>1, <1>2, <1>3, <1>4, <3>1 DEF HoldersInv
    <3>2. CASE u # t
      <4>1. pc[u] \notin Reading
        <5>1. u # -2
          BY SomeServers
        <5> QED BY <1>1, <1>2, <5>1 DEF HoldersInv
      <4> QED BY <1>1, <1>2, <1>3, <3>2, <4>1 DEF HoldersInv
    <3> QED BY <3>1, <3>2
  <2> QED BY <1>1, <1>2, <1>3, <2>1 DEF HoldersInv
<1>9. LinesInv'
  <2>1. NoBackspace(<<>>)
    BY DEF NoBackspace
  <2> QED BY <1>1, <1>2, <1>3, <1>4, <1>6, <2>1 DEF LinesInv
<1> QED BY <1>1, <1>4, <1>7, <1>8, <1>9, ReadGoes

LEMMA ReadersAwait == ASSUME ReadersInv, NEW L, NEW t \in Servers, Reads(L)!ReadAwaits(t) PROVE ReadersInv'
<1>1. /\ pc[t] = "await" /\ kbd_buffer # <<>> /\ pc' = [pc EXCEPT ![t] = "lock"]
      /\ UNCHANGED <<threads, threads_mutex, kbd_mutex, stdin_read, started, kbd_buffer, count,
                     requests, reply, server, waiting, delivered>>
  BY DEF Reads!ReadAwaits, Reads!At, Reads!Goes, Reads!locks, Reads!buffer, Reads!clients
<1>2. DataTypes /\ HoldersInv /\ LinesInv
  BY DEF ReadersInv
<1>3. pc'[t] = "lock" /\ pc'[-1] = pc[-1] /\ \A u \in Servers : u # t => pc'[u] = pc[u]
  BY <1>1, ReadMoves
<1>4. pc[t] \in Living /\ pc[t] \in Reading /\ "lock" \in Living /\ "lock" \in Reading
      /\ "lock" \notin {"unborn", "new", "over"}
  BY <1>1, LivingPlaces
<1>5. DataTypes'
  BY <1>1, <1>2 DEF DataTypes
<1>6. HoldersInv'
  <2>1. ASSUME NEW u \in Servers
        PROVE  /\ pc'[u] \in Reading <=> stdin_read = u
               /\ pc'[u] = "take" <=> kbd_mutex = u
               /\ pc'[u] \in {"lock", "take"} => kbd_buffer # <<>>
               /\ pc'[u] \in Reading \cup {"answer"} => requests[u] # <<>> /\ Head(requests[u]).length > 0
    BY <1>1, <1>2, <1>3, <1>4 DEF HoldersInv
  <2> QED BY <1>1, <1>2, <1>3, <2>1 DEF HoldersInv
<1>7. LinesInv'
  BY <1>1, <1>2, <1>3, <1>4 DEF LinesInv
<1> QED BY <1>1, <1>4, <1>5, <1>6, <1>7, ReadGoes

LEMMA ReadersLock == ASSUME ReadersInv, NEW L, NEW t \in Servers, Reads(L)!ReadLocks(t) PROVE ReadersInv'
<1>1. /\ pc[t] = "lock" /\ kbd_mutex = -2 /\ kbd_mutex' = t /\ pc' = [pc EXCEPT ![t] = "take"]
      /\ UNCHANGED <<threads, threads_mutex, stdin_read, started, kbd_buffer, count,
                     requests, reply, server, waiting, delivered>>
  BY DEF Reads!ReadLocks, Reads!At, Reads!Goes, Reads!NONE, Reads!buffer, Reads!clients
<1>2. DataTypes /\ HoldersInv /\ LinesInv
  BY DEF ReadersInv
<1>3. pc'[t] = "take" /\ pc'[-1] = pc[-1] /\ \A u \in Servers : u # t => pc'[u] = pc[u]
  BY <1>1, ReadMoves
<1>4. pc[t] \in Living /\ pc[t] \in Reading /\ "take" \in Living /\ "take" \in Reading
      /\ "take" \notin {"unborn", "new", "over"}
  BY <1>1, LivingPlaces
<1>5. DataTypes'
  BY <1>1, <1>2 DEF DataTypes
<1>6. HoldersInv'
  <2>1. ASSUME NEW u \in Servers
        PROVE  /\ pc'[u] \in Reading <=> stdin_read = u
               /\ pc'[u] = "take" <=> kbd_mutex' = u
               /\ pc'[u] \in {"lock", "take"} => kbd_buffer # <<>>
               /\ pc'[u] \in Reading \cup {"answer"} => requests[u] # <<>> /\ Head(requests[u]).length > 0
    <3>1. u # -2 /\ u # -1
      BY SomeServers
    <3> QED BY <1>1, <1>2, <1>3, <1>4, <3>1 DEF HoldersInv
  <2>2. pc[-1] # "put"
    <3>1. kbd_mutex # -1
      BY <1>1
    <3> QED BY <1>2, <3>1 DEF HoldersInv
  <2> QED BY <1>1, <1>2, <1>3, <2>1, <2>2 DEF HoldersInv
<1>7. LinesInv'
  BY <1>1, <1>2, <1>3, <1>4 DEF LinesInv
<1> QED BY <1>1, <1>4, <1>5, <1>6, <1>7, ReadGoes

\* A thread takes characters from the buffer and gives it back.
LEMMA ReadersTake ==
  ASSUME ReadersInv, NEW t \in Servers, NEW place \in {"await", "finish"}, NEW s \in Seq(Int),
         pc[t] = "take", pc' = [pc EXCEPT ![t] = place], kbd_mutex' = -2,
         reply' = [reply EXCEPT ![t] = s], kbd_buffer' \in Seq(Int), Len(kbd_buffer') < BUFFER,
         Head(requests[t]).length > 1 => NoBackspace(s),
         UNCHANGED <<threads, threads_mutex, stdin_read, started, count, requests, server, waiting,
                     delivered>>
  PROVE  ReadersInv'
<1>2. DataTypes /\ HoldersInv /\ LinesInv
  BY DEF ReadersInv
<1>3. pc'[t] = place /\ pc'[-1] = pc[-1] /\ \A u \in Servers : u # t => pc'[u] = pc[u]
  BY ReadMoves
<1>4. /\ pc[t] \in Living /\ pc[t] \in Reading /\ place \in Living /\ place \in Reading
      /\ place \notin {"unborn", "new", "over", "lock", "take"} /\ {"lock", "take"} \subseteq Reading
  BY LivingPlaces
<1>5. reply \in [Servers -> Seq(Int)]
  BY <1>2 DEF DataTypes
<1>6. reply'[t] = s /\ reply' \in [Servers -> Seq(Int)] /\ \A u \in Servers : u # t => reply'[u] = reply[u]
  BY <1>5
<1>7. DataTypes'
  BY <1>2, <1>6 DEF DataTypes
<1>8. kbd_mutex = t /\ stdin_read = t /\ pc[-1] # "put"
  <2>1. kbd_mutex = t /\ stdin_read = t
    BY <1>2, <1>4 DEF HoldersInv
  <2>2. t # -1
    BY SomeServers
  <2> QED BY <1>2, <2>1, <2>2 DEF HoldersInv
<1>9. HoldersInv'
  <2>1. ASSUME NEW u \in Servers
        PROVE  /\ pc'[u] \in Reading <=> stdin_read = u
               /\ pc'[u] # "take" /\ u # -2
               /\ pc'[u] \notin {"lock", "take"}
               /\ pc'[u] \in Reading \cup {"answer"} => requests[u] # <<>> /\ Head(requests[u]).length > 0
    <3>1. u # -2
      BY SomeServers
    <3>2. CASE u = t
      BY <1>2, <1>3, <1>4, <1>8, <3>1, <3>2 DEF HoldersInv
    <3>3. CASE u # t
      <4>1. pc[u] \notin Reading
        BY <1>2, <1>8, <3>3 DEF HoldersInv
      <4> QED BY <1>2, <1>3, <1>4, <3>1, <3>3, <4>1 DEF HoldersInv
    <3> QED BY <3>2, <3>3
  <2> QED BY <1>2, <1>3, <1>8, <2>1 DEF HoldersInv
<1>10. LinesInv'
  BY <1>2, <1>3, <1>4, <1>6 DEF LinesInv
<1> QED BY <1>4, <1>7, <1>9, <1>10, ReadGoes

LEMMA ReadersTakeOne == ASSUME ReadersInv, NEW L, NEW t \in Servers, Reads(L)!TakeOne(t) PROVE ReadersInv'
<1> DEFINE first == IF kbd_buffer = <<>> THEN 0 ELSE Head(kbd_buffer)
           rest == IF kbd_buffer = <<>> THEN <<>> ELSE Tail(kbd_buffer)
<1>1. /\ pc[t] = "take" /\ Head(requests[t]).length = 1
      /\ reply' = [reply EXCEPT ![t] = <<first>>] /\ kbd_buffer' = rest
      /\ kbd_mutex' = -2 /\ pc' = [pc EXCEPT ![t] = "finish"]
      /\ UNCHANGED <<threads, threads_mutex, stdin_read, started, count, requests, server, waiting,
                     delivered>>
  BY DEF Reads!TakeOne, Reads!At, Reads!Goes, Reads!Request, Reads!First, Reads!Rest, Reads!NONE,
    Reads!clients
<1>2. kbd_buffer \in Seq(Int) /\ Len(kbd_buffer) < BUFFER
  BY DEF ReadersInv, DataTypes
<1>3. first \in Int /\ rest \in Seq(Int) /\ Len(rest) < BUFFER
  BY <1>2, Programs
<1> HIDE DEF first, rest
<1>4. <<first>> \in Seq(Int)
  BY <1>3
<1>5. ~(Head(requests[t]).length > 1)
  BY <1>1
<1>6. "finish" \in {"await", "finish"}
  OBVIOUS
<1> QED BY <1>1, <1>3, <1>4, <1>5, <1>6, ReadersTake

\* Nor does a line that is cut short.
LEMMA FittingLine ==
  ASSUME NEW L, NEW s, Line(s), NEW n \in Nat
  PROVE  Line(Reads(L)!Fitting(s, n))
<1>1. CASE Len(s) > n
  <2>1. s \in Seq(Int) /\ n <= Len(s) /\ Len(s) \in Nat
    BY <1>1 DEF Line
  <2>2. PICK u : u = SubSeq(s, 1, n)
    OBVIOUS
  <2>3. u \in Seq(Int) /\ Len(u) = n /\ \A i \in 1..n : u[i] = s[i]
    BY <2>1, <2>2
  <2>4. NoBackspace(s)
    BY DEF Line
  <2>5. Reads(L)!Fitting(s, n) = u
    BY <1>1, <2>2 DEF Reads!Fitting
  <2> QED BY <2>1, <2>3, <2>4, <2>5 DEF Line, NoBackspace
<1>2. CASE ~(Len(s) > n)
  BY <1>2 DEF Reads!Fitting
<1> QED BY <1>1, <1>2

LEMMA ReadersTakeAll == ASSUME ReadersInv, NEW L, NEW t \in Servers, Reads(L)!TakeAll(t) PROVE ReadersInv'
<1> DEFINE g == Reads(L)!Gathered(reply[t])
           n == Head(requests[t]).length
           s == Reads(L)!Fitting(g, n)
           place == IF Len(g) < n THEN "await" ELSE "finish"
<1>1. /\ pc[t] = "take" /\ n > 1
      /\ reply' = [reply EXCEPT ![t] = Reads(L)!Fitting(Reads(L)!Gathered(@), n)] /\ kbd_buffer' = <<>>
      /\ kbd_mutex' = -2 /\ pc' = [pc EXCEPT ![t] = place]
      /\ UNCHANGED <<threads, threads_mutex, stdin_read, started, count, requests, server, waiting,
                     delivered>>
  BY DEF Reads!TakeAll, Reads!At, Reads!Goes, Reads!Request, Reads!NONE, Reads!clients
<1>2. DataTypes /\ LinesInv /\ HoldersInv /\ QueueTypes
  BY DEF ReadersInv
<1>3. Line(reply[t])
  <2>1. pc[t] \in Reading \cup {"answer"}
    BY <1>1, LivingPlaces
  <2> QED BY <1>1, <1>2, <2>1 DEF Line, LinesInv, DataTypes
<1>4. Line(s)
  <2>1. kbd_buffer \in Seq(Int)
    BY <1>2 DEF DataTypes
  <2>2. Line(g)
    BY <1>3, <2>1, GatheredLine
  <2>3. n \in Nat
    <3>1. requests[t] # <<>>
      BY <1>1, <1>2, LivingPlaces DEF HoldersInv
    <3>2. requests[t] \in Seq(Asking)
      BY <1>2 DEF QueueTypes
    <3>3. Head(requests[t]) \in Asking
      BY <3>1, <3>2
    <3> QED BY <3>3 DEF Asking
  <2> QED BY <2>2, <2>3, FittingLine
<1>5. reply' = [reply EXCEPT ![t] = s]
  BY <1>1
<1>6. place \in {"await", "finish"}
  OBVIOUS
<1> HIDE DEF s, g, place
<1>7. kbd_buffer' \in Seq(Int) /\ Len(kbd_buffer') < BUFFER
  BY <1>1, Programs
<1> QED BY <1>1, <1>4, <1>5, <1>6, <1>7, ReadersTake DEF Line

LEMMA ReadersUnlock == ASSUME ReadersInv, NEW L, NEW t \in Servers, Reads(L)!ReadUnlocks(t) PROVE ReadersInv'
<1>1. /\ pc[t] = "finish" /\ stdin_read' = -2 /\ delivered' = delivered \o reply[t]
      /\ pc' = [pc EXCEPT ![t] = "answer"]
      /\ UNCHANGED <<threads, threads_mutex, kbd_mutex, started, kbd_buffer, count, requests, reply,
                     server, waiting>>
  BY DEF Reads!ReadUnlocks, Reads!At, Reads!Goes, Reads!NONE, Reads!buffer,
    Reads!clients
<1>2. DataTypes /\ HoldersInv /\ LinesInv
  BY DEF ReadersInv
<1>3. pc'[t] = "answer" /\ pc'[-1] = pc[-1] /\ \A u \in Servers : u # t => pc'[u] = pc[u]
  BY <1>1, ReadMoves
<1>4. /\ pc[t] \in Living /\ pc[t] \in Reading /\ "answer" \in Living /\ "answer" \notin Reading
      /\ {"lock", "take"} \subseteq Reading
  BY <1>1, LivingPlaces
<1>5. DataTypes'
  <2>1. delivered' \in Seq(Int)
    <3>1. delivered \in Seq(Int) /\ reply[t] \in Seq(Int)
      BY <1>2 DEF DataTypes
    <3> QED BY <1>1, <3>1, ConcatProperties
  <2> QED BY <1>1, <1>2, <2>1 DEF DataTypes
<1>6. stdin_read = t
  BY <1>2, <1>4 DEF HoldersInv
<1>7. HoldersInv'
  <2>1. ASSUME NEW u \in Servers
        PROVE  /\ pc'[u] \notin Reading /\ u # -2
               /\ pc'[u] = "take" <=> kbd_mutex = u
               /\ pc'[u] \notin {"lock", "take"}
               /\ pc'[u] \in Reading \cup {"answer"} => requests[u] # <<>> /\ Head(requests[u]).length > 0
    <3>1. u # -2
      BY SomeServers
    <3>2. CASE u = t
      BY <1>1, <1>2, <1>3, <1>4, <3>1, <3>2 DEF HoldersInv
    <3>3. CASE u # t
      <4>1. pc[u] \notin Reading
        BY <1>2, <1>6, <3>3 DEF HoldersInv
      <4> QED BY <1>2, <1>3, <1>4, <3>1, <3>3, <4>1 DEF HoldersInv
    <3> QED BY <3>2, <3>3
  <2> QED BY <1>1, <1>2, <1>3, <2>1 DEF HoldersInv
<1>8. LinesInv'
  BY <1>1, <1>2, <1>3, <1>4 DEF LinesInv
<1> QED BY <1>1, <1>4, <1>5, <1>7, <1>8, ReadGoes

LEMMA ReadersThread ==
  ASSUME ReadersInv, NEW L, NEW t \in Servers, Reads(L)!ThreadStep(t) PROVE ReadersInv'
<1>1. CASE Reads(L)!AnswerResolve(t)
  <2>1. /\ pc[t] = "idle" /\ requests[t] # <<>> /\ Reads(L)!Answer(t)
        /\ server' = [server EXCEPT ![Head(requests[t]).from] = t]
        /\ UNCHANGED <<threads, threads_mutex, kbd_mutex, stdin_read, started, kbd_buffer, count,
                       reply, delivered>>
    BY <1>1 DEF Reads!AnswerResolve, Reads!At, Reads!Request, Reads!locks, Reads!buffer
  <2> QED BY <2>1, ReadersAnswer
<1>2. CASE Reads(L)!AnswerRead(t)
  <2>1. /\ pc[t] = "answer" /\ Reads(L)!Answer(t) /\ server' = server
        /\ UNCHANGED <<threads, threads_mutex, kbd_mutex, stdin_read, started, kbd_buffer, count,
                       reply, delivered>>
    BY <1>2 DEF Reads!AnswerRead, Reads!At, Reads!locks, Reads!buffer
  <2>2. requests[t] # <<>>
    BY <2>1 DEF ReadersInv, HoldersInv
  <2> QED BY <2>1, <2>2, ReadersAnswer
<1>3. CASE Reads(L)!ThreadLooks(t)
  BY <1>3, ReadersLook
<1>4. CASE Reads(L)!ReadStarts(t)
  BY <1>4, ReadersStart
<1>5. CASE Reads(L)!ReadAwaits(t)
  BY <1>5, ReadersAwait
<1>6. CASE Reads(L)!ReadLocks(t)
  BY <1>6, ReadersLock
<1>7. CASE Reads(L)!TakeOne(t)
  BY <1>7, ReadersTakeOne
<1>8. CASE Reads(L)!TakeAll(t)
  BY <1>8, ReadersTakeAll
<1>9. CASE Reads(L)!ReadUnlocks(t)
  BY <1>9, ReadersUnlock
<1> QED BY <1>1, <1>2, <1>3, <1>4, <1>5, <1>6, <1>7, <1>8, <1>9 DEF Reads!ThreadStep

LEMMA ReadersNext ==
  ASSUME ReadersInv, NEW L \in SUBSET Nat, Reads(L)!Next PROVE ReadersInv'
<1>1. CASE \E c \in Client : Reads(L)!Resolve(c)
  BY <1>1, ReadersResolve
<1>2. CASE \E c \in Client, length \in L : Reads(L)!Read(c, length)
  BY <1>2, ReadersRead
<1>3. CASE Reads(L)!MainStep
  BY <1>3, ReadersMainFinds, ReadersMainAdds, ReadersMainStarts, ReadersMainAssigns,
    ReadersMainForwards DEF Reads!MainStep
<1>4. CASE Reads(L)!Type
  BY <1>4, ReadersType
<1>5. CASE Reads(L)!KeyboardStep
  BY <1>5, ReadersPut, ReadersDrop DEF Reads!KeyboardStep
<1>6. CASE \E t \in Reads(L)!Thread : Reads(L)!ThreadStep(t)
  BY <1>6, ServersAre, ReadersThread
<1> QED BY <1>1, <1>2, <1>3, <1>4, <1>5, <1>6 DEF Reads!Next

LEMMA ReadersInit == ASSUME NEW L, Reads(L)!Init PROVE ReadersInv
<1>1. /\ threads = <<>> /\ threads_mutex = -2 /\ kbd_mutex = -2 /\ stdin_read = -2
      /\ started = 1 /\ kbd_buffer = <<>> /\ count = 0 /\ waiting = {} /\ delivered = <<>>
      /\ requests = [p \in Servers \cup {0} |-> <<>>] /\ reply = [t \in Servers |-> <<>>]
      /\ server = [c \in Client |-> -2]
  BY ServersAre DEF Reads!Init, Reads!NONE, Reads!MAIN
<1>2. pc = [p \in {0, -1} \cup Servers |-> CASE p = 1 -> "new" [] p \in Servers \ {1} -> "unborn"
                                             [] OTHER -> "idle"]
  BY ServersAre DEF Reads!Init, Reads!Process, Reads!MAIN, Reads!KEYBOARD
<1>3. PICK N \in Nat : N = Cardinality(Client) /\ Servers = 1..(N + 1)
  BY SomeServers
<1>4. 1 \in Servers /\ \A t \in Servers : t # 0 /\ t # -1 /\ t # -2 /\ (t # 1 <=> t > 1)
  BY <1>3
<1>5. pc[0] = "idle" /\ pc[-1] = "idle"
  <2>1. 0 \notin Servers /\ -1 \notin Servers /\ 0 # 1 /\ -1 # 1
    BY <1>3
  <2> QED BY <1>2, <2>1
<1>6. \A t \in Servers : pc[t] = IF t = 1 THEN "new" ELSE "unborn"
  BY <1>2, <1>4
<1>7. \A t \in Servers : pc[t] \in {"new", "unborn"}
  BY <1>6
<1>8. QueueTypes
  <2>1. pc \in [{0, -1} \cup Servers -> MainPlaces \cup ServerPlaces \cup {"put"}]
    <3>1. {"new", "unborn", "idle"} \subseteq MainPlaces \cup ServerPlaces
      BY DEF MainPlaces, ServerPlaces
    <3>2. \A p \in {0, -1} \cup Servers : pc[p] \in {"new", "unborn", "idle"}
      BY <1>5, <1>7
    <3>3. DOMAIN pc = {0, -1} \cup Servers /\ pc = [p \in DOMAIN pc |-> pc[p]]
      BY <1>2
    <3> QED BY <3>1, <3>2, <3>3
  <2>2. \A t \in Servers : pc[t] \in ServerPlaces
    BY <1>7 DEF ServerPlaces
  <2>3. requests \in [Servers \cup {0} -> Seq(Asking)]
    BY <1>1
  <2> QED BY <1>1, <1>5, <2>1, <2>2, <2>3 DEF QueueTypes, MainPlaces
<1>9. DataTypes
  <2>1. BUFFER > 0 /\ 0 \in 0..TYPED
    BY Programs
  <2> QED BY <1>1, <2>1 DEF DataTypes
<1>10. LinksInv
  BY <1>1, <1>5 DEF LinksInv, Linking
<1>11. BornInv
  <2>1. requests[1] = <<>>
    BY <1>1, <1>4
  <2> QED BY <1>1, <1>4, <1>6, <2>1 DEF BornInv
<1>12. HoldersInv
  <2>1. {"new", "unborn"} \cap (Reading \cup {"answer", "lock", "take"}) = {}
    BY DEF Reading
  <2> QED BY <1>1, <1>4, <1>5, <1>7, <2>1 DEF HoldersInv
<1>13. LinesInv
  <2>1. {"new", "unborn"} \cap (Reading \cup {"answer"}) = {}
    BY DEF Reading
  <2> QED BY <1>1, <1>7, <2>1 DEF LinesInv
<1> QED BY <1>8, <1>9, <1>10, <1>11, <1>12, <1>13 DEF ReadersInv

\* What the run says of either part.
LEMMA ReadersInvSound ==
  ASSUME ReadersInv, NEW L, NEW M
  PROVE  Reads(L)!TypeOK /\ Reads(L)!NotOrphaned /\ Reads(M)!LinesEdited
<1>1. QueueTypes /\ DataTypes /\ LinksInv /\ BornInv /\ HoldersInv /\ LinesInv
  BY DEF ReadersInv
<1>2. PICK N \in Nat : N = Cardinality(Client) /\ Servers = 1..(N + 1)
  BY SomeServers
<1>3. Reads(L)!Thread = Servers /\ Reads(M)!Thread = Servers
  BY ServersAre
<1>4. Cardinality(Servers) = Cardinality(Client) + 1
  BY <1>2, FS_Interval
<1>5. Len(threads) \in Nat /\ threads \in Seq(Linked) /\ DOMAIN threads = 1..Len(threads)
  BY <1>1 DEF LinksInv
<1>6. Reads(L)!TypeOK
  <2>1. threads \in Seq([task : Client, thread : 0..Cardinality(Servers)])
    BY <1>4, <1>5 DEF Linked
  <2>2. started \in Servers
    <3>1. Len(threads) <= N
      BY <1>1, <1>2, <1>5, OneEach DEF LinksInv
    <3>2. pc[0] = "start" => Len(threads) # 0
      <4>1. pc[0] = "start" => pc[0] \in Linking
        BY DEF Linking
      <4> QED BY <1>1, <1>5, <4>1 DEF LinksInv
    <3>3. started = IF pc[0] = "start" THEN Len(threads) ELSE Len(threads) + 1
      BY <1>1 DEF LinksInv
    <3> QED BY <1>2, <1>5, <3>1, <3>2, <3>3
  <2>3. threads_mutex \in {-2, 0}
    BY <1>1 DEF LinksInv
  <2>4. /\ kbd_mutex \in {-2, -1} \cup Servers /\ stdin_read \in {-2} \cup Servers
        /\ count \in 0..TYPED /\ Len(kbd_buffer) < BUFFER /\ waiting \subseteq Client
    BY <1>1 DEF HoldersInv, DataTypes, QueueTypes
  <2>5. Reads(L)!Cardinality(Servers) = Cardinality(Servers)
    BY DEF Reads!Cardinality, Cardinality
  <2> QED BY <1>3, <2>1, <2>2, <2>3, <2>4, <2>5 DEF Reads!TypeOK, Reads!NONE, Reads!MAIN, Reads!KEYBOARD
<1>7. Reads(L)!NotOrphaned
  <2>1. \A t \in Servers : pc[t] = "over" => requests[t] = <<>>
    BY <1>1 DEF BornInv
  <2>2. ASSUME NEW i \in 1..Len(threads), threads[i].thread # 0 PROVE pc[threads[i].thread] # "over"
    <3>1. Len(threads) <= N
      BY <1>1, <1>2, <1>5, OneEach DEF LinksInv
    <3>2. PICK s \in Servers : threads[i].thread = s /\ s # 1
      <4>1. threads[i].thread = i + 1
        BY <1>1, <2>2 DEF LinksInv
      <4> QED BY <1>2, <1>5, <3>1, <4>1
    <3> QED BY <1>1, <3>2 DEF BornInv
  <2> QED BY <1>3, <1>5, <2>1, <2>2 DEF Reads!NotOrphaned, Reads!At
<1>8. Reads(M)!LinesEdited
  <2>1. ASSUME NEW t \in Servers, pc[t] # "idle", Head(requests[t]).length > 1
        PROVE  \A i \in DOMAIN reply[t] : reply[t][i] # -1
    <3>1. pc[t] \in {"unborn", "new", "over"} \/ pc[t] \in Reading \cup {"answer"}
      BY <1>1, <2>1 DEF QueueTypes, ServerPlaces
    <3>2. reply[t] \in Seq(Int)
      BY <1>1 DEF DataTypes
    <3>3. DOMAIN reply[t] = 1..Len(reply[t])
      BY <3>2
    <3>4. CASE pc[t] \in {"unborn", "new", "over"}
      <4>1. reply[t] = <<>>
        BY <1>1, <3>4 DEF LinesInv
      <4> QED BY <4>1
    <3>5. CASE pc[t] \in Reading \cup {"answer"}
      BY <1>1, <2>1, <3>3, <3>5 DEF LinesInv, NoBackspace
    <3> QED BY <3>1, <3>4, <3>5
  <2> QED BY <1>3, <2>1 DEF Reads!LinesEdited, Reads!At, Reads!Request, Reads!Backspace
<1> QED BY <1>6, <1>7, <1>8

(* One character at a time *)

LEMMA ShortAppend ==
  ASSUME NEW s \in Seq(Asking), NEW r \in Asking, Short(s), r.length \in {0, 1} PROVE Short(Append(s, r))
<1>1. PICK n \in Nat : n = Len(s)
  OBVIOUS
<1>2. Len(Append(s, r)) = n + 1 /\ (\A i \in 1..n : Append(s, r)[i] = s[i]) /\ Append(s, r)[n + 1] = r
  BY <1>1, AppendProperties
<1>3. \A i \in 1..(n + 1) : i \in 1..n \/ i = n + 1
  OBVIOUS
<1> QED BY <1>1, <1>2, <1>3 DEF Short

LEMMA ShortTail == ASSUME NEW s \in Seq(Asking), s # <<>>, Short(s) PROVE Short(Tail(s))
<1>1. Len(s) \in Nat /\ Len(Tail(s)) = Len(s) - 1 /\ \A i \in 1..Len(Tail(s)) : Tail(s)[i] = s[i + 1]
  BY HeadTailProperties
<1>2. \A i \in 1..(Len(s) - 1) : i + 1 \in 1..Len(s)
  BY <1>1
<1> QED BY <1>1, <1>2 DEF Short

LEMMA ShortSent ==
  ASSUME QueueTypes, ShortInv, NEW to, NEW r \in Asking, r.length \in {0, 1},
         requests' = [requests EXCEPT ![to] = Append(@, r)]
  PROVE  ShortInv'
<1>1. requests \in [Servers \cup {0} -> Seq(Asking)]
  BY DEF QueueTypes
<1>2. ASSUME NEW p \in Servers \cup {0} PROVE Short(requests'[p])
  <2>1. requests'[p] = IF p = to THEN Append(requests[p], r) ELSE requests[p]
    BY <1>1
  <2>2. requests[p] \in Seq(Asking) /\ Short(requests[p])
    BY <1>1 DEF ShortInv
  <2> QED BY <2>1, <2>2, ShortAppend
<1> QED BY <1>2 DEF ShortInv

LEMMA ShortTaken ==
  ASSUME QueueTypes, ShortInv, NEW t \in Servers \cup {0}, requests[t] # <<>>,
         requests' = [requests EXCEPT ![t] = Tail(@)]
  PROVE  ShortInv'
<1>1. requests \in [Servers \cup {0} -> Seq(Asking)]
  BY DEF QueueTypes
<1>2. ASSUME NEW p \in Servers \cup {0} PROVE Short(requests'[p])
  <2>1. requests'[p] = IF p = t THEN Tail(requests[p]) ELSE requests[p]
    BY <1>1
  <2>2. requests[p] \in Seq(Asking) /\ Short(requests[p])
    BY <1>1 DEF ShortInv
  <2> QED BY <2>1, <2>2, ShortTail
<1> QED BY <1>2 DEF ShortInv

LEMMA ShortForwarded ==
  ASSUME QueueTypes, ShortInv, requests[0] # <<>>, NEW th \in Servers, th # 0,
         NEW r \in Asking, r.length \in {0, 1},
         requests' = [requests EXCEPT ![0] = Tail(@), ![th] = Append(@, r)]
  PROVE  ShortInv'
<1>1. requests \in [Servers \cup {0} -> Seq(Asking)]
  BY DEF QueueTypes
<1> DEFINE q == [requests EXCEPT ![0] = Tail(requests[0])]
<1>2. ASSUME NEW p \in Servers \cup {0} PROVE q[p] \in Seq(Asking) /\ Short(q[p])
  <2>1. q[p] = IF p = 0 THEN Tail(requests[0]) ELSE requests[p]
    BY <1>1
  <2>2. requests[p] \in Seq(Asking) /\ Short(requests[p])
    BY <1>1 DEF ShortInv
  <2>3. requests[0] \in Seq(Asking) /\ Short(requests[0])
    BY <1>1 DEF ShortInv
  <2>4. Tail(requests[0]) \in Seq(Asking)
    BY <2>3, HeadTailProperties
  <2> QED BY <2>1, <2>2, <2>3, <2>4, ShortTail
<1>3. q \in [Servers \cup {0} -> Seq(Asking)]
  BY <1>1, <1>2
<1>4. requests' = [q EXCEPT ![th] = Append(q[th], r)]
  BY <1>1
<1> HIDE DEF q
<1>5. ASSUME NEW p \in Servers \cup {0} PROVE Short(requests'[p])
  <2>1. requests'[p] = IF p = th THEN Append(q[p], r) ELSE q[p]
    BY <1>3, <1>4
  <2> QED BY <1>2, <2>1, ShortAppend
<1> QED BY <1>5 DEF ShortInv

LEMMA ShortSame == ASSUME ShortInv, requests' = requests PROVE ShortInv'
BY DEF ShortInv

LEMMA ShortNext == ASSUME ReadersInv, ShortInv, Reads(One)!Next PROVE ShortInv'
<1>1. QueueTypes /\ LinksInv /\ HoldersInv
  BY DEF ReadersInv
<1>2. ASSUME NEW c \in Client, NEW l \in {0, 1}
      PROVE  [from |-> c, length |-> l] \in Asking /\ [from |-> c, length |-> l].length \in {0, 1}
  BY DEF Asking
<1>3. ASSUME NEW c \in Client, Reads(One)!Resolve(c) PROVE ShortInv'
  <2>1. requests' = [requests EXCEPT ![0] = Append(@, [from |-> c, length |-> 0])]
    BY <1>3 DEF Reads!Resolve, Reads!Sent, Reads!MAIN
  <2> QED BY <1>1, <1>2, <2>1, ShortSent
<1>4. ASSUME NEW c \in Client, NEW l \in One, Reads(One)!Read(c, l) PROVE ShortInv'
  <2>1. requests' = [requests EXCEPT ![server[c]] = Append(@, [from |-> c, length |-> l])]
    BY <1>4 DEF Reads!Read, Reads!Sent
  <2>2. l \in {0, 1}
    BY DEF One
  <2> QED BY <1>1, <1>2, <2>1, <2>2, ShortSent
<1>5. CASE Reads(One)!MainForwards
  <2>1. PICK s \in Servers, r \in Asking :
          /\ s # 1 /\ s # 0 /\ r.length = 0 /\ requests[0] # <<>>
          /\ requests' = [requests EXCEPT ![0] = Tail(@), ![s] = Append(@, r)]
    BY <1>5, ForwardsTo
  <2>2. r.length \in {0, 1}
    BY <2>1
  <2> QED BY <1>1, <2>1, <2>2, ShortForwarded
<1>6. ASSUME NEW t \in Servers, requests[t] # <<>>, Reads(One)!Answer(t) PROVE ShortInv'
  <2>1. requests' = [requests EXCEPT ![t] = Tail(@)]
    BY <1>6 DEF Reads!Answer
  <2> QED BY <1>1, <1>6, <2>1, ShortTaken
<1>7. ASSUME NEW t \in Servers, Reads(One)!ThreadStep(t) PROVE ShortInv'
  <2>1. CASE Reads(One)!AnswerResolve(t)
    BY <1>6, <2>1 DEF Reads!AnswerResolve
  <2>2. CASE Reads(One)!AnswerRead(t)
    <3>1. pc[t] = "answer" /\ Reads(One)!Answer(t)
      BY <2>2 DEF Reads!AnswerRead, Reads!At
    <3>2. requests[t] # <<>>
      BY <1>1, <3>1 DEF HoldersInv
    <3> QED BY <1>6, <3>1, <3>2
  <2>3. CASE \/ Reads(One)!ThreadLooks(t) \/ Reads(One)!ReadStarts(t) \/ Reads(One)!ReadAwaits(t)
             \/ Reads(One)!ReadLocks(t) \/ Reads(One)!TakeOne(t) \/ Reads(One)!TakeAll(t)
             \/ Reads(One)!ReadUnlocks(t)
    <3>1. requests' = requests
      BY <2>3 DEF Reads!ThreadLooks, Reads!ReadStarts, Reads!ReadAwaits, Reads!ReadLocks,
        Reads!TakeOne, Reads!TakeAll, Reads!ReadUnlocks
    <3> QED BY <3>1, ShortSame
  <2> QED BY <1>7, <2>1, <2>2, <2>3 DEF Reads!ThreadStep
<1>8. CASE \/ Reads(One)!MainFinds \/ Reads(One)!MainAdds \/ Reads(One)!MainStarts
           \/ Reads(One)!MainAssigns \/ Reads(One)!Type \/ Reads(One)!KeyboardStep
  <2>1. requests' = requests
    BY <1>8 DEF Reads!MainFinds, Reads!MainAdds, Reads!MainStarts, Reads!MainAssigns, Reads!Type,
      Reads!KeyboardStep, Reads!Put, Reads!Drop
  <2> QED BY <2>1, ShortSame
<1>9. CASE \E t \in Reads(One)!Thread : Reads(One)!ThreadStep(t)
  BY <1>7, <1>9, ServersAre
<1> QED BY <1>3, <1>4, <1>5, <1>8, <1>9 DEF Reads!Next, Reads!MainStep

\* What a sequence made of three holds.
LEMMA Parts ==
  ASSUME NEW s \in Seq(Int), NEW t \in Seq(Int), NEW u \in Seq(Int)
  PROVE  /\ (s \o t) \o u \in Seq(Int) /\ Len((s \o t) \o u) = Len(s) + Len(t) + Len(u)
         /\ \A i \in 1..Len(s) : ((s \o t) \o u)[i] = s[i]
<1>1. /\ s \o t \in Seq(Int) /\ Len(s \o t) = Len(s) + Len(t)
      /\ \A i \in 1..(Len(s) + Len(t)) : (s \o t)[i] = IF i <= Len(s) THEN s[i] ELSE t[i - Len(s)]
  BY ConcatProperties
<1>2. PICK v \in Seq(Int) : v = s \o t
  BY <1>1
<1>3. /\ v \o u \in Seq(Int) /\ Len(v \o u) = Len(v) + Len(u)
      /\ \A i \in 1..(Len(v) + Len(u)) : (v \o u)[i] = IF i <= Len(v) THEN v[i] ELSE u[i - Len(v)]
  BY ConcatProperties
<1>4. Len(s) \in Nat /\ Len(t) \in Nat /\ Len(u) \in Nat
  OBVIOUS
<1>5. ASSUME NEW i \in 1..Len(s) PROVE (v \o u)[i] = s[i]
  <2>1. i \in 1..(Len(s) + Len(t)) /\ i <= Len(s) /\ i \in 1..(Len(v) + Len(u)) /\ i <= Len(v)
    BY <1>1, <1>2, <1>4
  <2> QED BY <1>1, <1>2, <1>3, <2>1
<1> QED BY <1>1, <1>2, <1>3, <1>4, <1>5

LEMMA HeldTyped == ASSUME DataTypes PROVE Held \in Seq(Int)
<1>1. reply \in [Servers -> Seq(Int)]
  BY DEF DataTypes
<1>2. <<>> \in Seq(Int)
  OBVIOUS
<1> QED BY <1>1, <1>2 DEF Held

\* Only the thread that holds stdin_read can have gathered something.
LEMMA HeldIs ==
  ASSUME HoldersInv
  PROVE  /\ \A t \in Servers : pc[t] = "finish" => Held = reply[t]
         /\ (\A t \in Servers : pc[t] # "finish") => Held = <<>>
<1>1. ASSUME NEW t \in Servers, pc[t] = "finish" PROVE stdin_read = t
  <2>1. pc[t] \in Reading
    BY <1>1 DEF Reading
  <2> QED BY <2>1 DEF HoldersInv
<1> QED BY <1>1 DEF Held

LEMMA HeldIsThen ==
  ASSUME HoldersInv'
  PROVE  /\ \A t \in Servers : pc'[t] = "finish" => Held' = reply'[t]
         /\ (\A t \in Servers : pc'[t] # "finish") => Held' = <<>>
<1>1. ASSUME NEW t \in Servers, pc'[t] = "finish" PROVE stdin_read' = t
  <2>1. pc'[t] \in Reading
    BY <1>1 DEF Reading
  <2> QED BY <2>1 DEF HoldersInv
<1> QED BY <1>1 DEF Held

LEMMA HeldKept ==
  ASSUME HoldersInv, HoldersInv',
         \A t \in Servers : /\ pc'[t] = "finish" <=> pc[t] = "finish"
                            /\ pc[t] = "finish" => reply'[t] = reply[t]
  PROVE  Held' = Held
<1>1. CASE \E t \in Servers : pc[t] = "finish"
  BY <1>1, HeldIs, HeldIsThen
<1>2. CASE \A t \in Servers : pc[t] # "finish"
  BY <1>2, HeldIs, HeldIsThen
<1> QED BY <1>1, <1>2

LEMMA OrderKept ==
  ASSUME HoldersInv, HoldersInv', OrderInv, UNCHANGED <<delivered, kbd_buffer, count>>,
         pc'[-1] = pc[-1], kbd_mutex = -1 => kbd_mutex' = -1,
         \A t \in Servers : /\ pc'[t] = "finish" <=> pc[t] = "finish"
                            /\ pc[t] = "finish" => reply'[t] = reply[t]
  PROVE  OrderInv'
<1>1. Held' = Held
  BY HeldKept
<1>2. Flow' = Flow /\ Pending' = Pending /\ count' = count
  BY <1>1 DEF Flow, Pending
<1>3. Lost => Lost'
  BY DEF Lost
<1>4. \A t \in Servers : pc'[t] = "finish" => Len(reply'[t]) = 1
  BY DEF OrderInv
<1> QED BY <1>2, <1>3, <1>4 DEF OrderInv

LEMMA OrderType ==
  ASSUME ReadersInv, ReadersInv', OrderInv, Reads(One)!Type PROVE OrderInv'
<1>1. /\ pc[-1] = "idle" /\ kbd_mutex = -2 /\ count' = count + 1 /\ pc' = [pc EXCEPT ![-1] = "put"]
      /\ UNCHANGED <<stdin_read, kbd_buffer, reply, delivered>>
  BY DEF Reads!Type, Reads!At, Reads!Goes, Reads!NONE, Reads!KEYBOARD
<1>2. QueueTypes /\ DataTypes /\ HoldersInv /\ HoldersInv'
  BY DEF ReadersInv
<1>3. pc'[-1] = "put" /\ \A t \in Servers : pc'[t] = pc[t]
  <2>1. \A t \in Servers : t # -1
    BY SomeServers
  <2> QED BY <1>1, <1>2, <2>1 DEF QueueTypes
<1>4. Held' = Held
  BY <1>1, <1>2, <1>3, HeldKept
<1>5. Flow' = Flow
  BY <1>1, <1>4 DEF Flow
<1>6. Pending = 0 /\ Pending' = 1 /\ ~Lost
  BY <1>1, <1>3 DEF Pending, Lost
<1>7. count \in Nat
  BY <1>2, Programs DEF DataTypes
<1>8. count' - Pending' = count - Pending /\ (Len(Flow) + Pending = count => Len(Flow') + Pending' = count')
  <2>1. Len(Flow) \in Nat
    BY <1>2, HeldTyped, Parts DEF Flow, DataTypes
  <2> QED BY <1>1, <1>5, <1>6, <1>7, <2>1
<1>9. \A t \in Servers : pc'[t] = "finish" => Len(reply'[t]) = 1
  BY <1>1, <1>3 DEF OrderInv
<1> QED BY <1>5, <1>6, <1>8, <1>9 DEF OrderInv

LEMMA OrderDrop ==
  ASSUME ReadersInv, ReadersInv', OrderInv, Reads(One)!Drop PROVE OrderInv'
<1>1. /\ pc[-1] = "put" /\ ~(Len(kbd_buffer) < BUFFER - 1) /\ pc' = [pc EXCEPT ![-1] = "idle"]
      /\ UNCHANGED <<kbd_mutex, stdin_read, kbd_buffer, count, reply, delivered>>
  BY DEF Reads!Drop, Reads!Room, Reads!At, Reads!Goes, Reads!KEYBOARD, Reads!locks, Reads!buffer
<1>2. QueueTypes /\ DataTypes /\ HoldersInv /\ HoldersInv'
  BY DEF ReadersInv
<1>3. pc'[-1] = "idle" /\ \A t \in Servers : pc'[t] = pc[t]
  <2>1. \A t \in Servers : t # -1
    BY SomeServers
  <2> QED BY <1>1, <1>2, <2>1 DEF QueueTypes
<1>4. Held' = Held
  BY <1>1, <1>2, <1>3, HeldKept
<1>5. Flow' = Flow /\ count' = count
  BY <1>1, <1>4 DEF Flow
<1>6. Pending = 1 /\ Pending' = 0
  BY <1>1, <1>3 DEF Pending
<1>7. Lost'
  <2>1. Len(kbd_buffer) = BUFFER - 1
    BY <1>1, <1>2, Programs DEF DataTypes
  <2>2. kbd_mutex = -1
    BY <1>1, <1>2 DEF HoldersInv
  <2> QED BY <1>1, <1>3, <2>1, <2>2 DEF Lost
<1>8. AtMost(Flow', count' - Pending')
  <2>1. Flow \in Seq(Int)
    BY <1>2, HeldTyped, Parts DEF Flow, DataTypes
  <2>2. count \in Nat
    BY <1>2, Programs DEF DataTypes
  <2>3. \A i \in 1..Len(Flow) : Flow[i] \in Int /\ Flow[i] <= count - 1
    BY <1>6, <2>1 DEF OrderInv, AtMost
  <2> QED BY <1>5, <1>6, <2>2, <2>3 DEF AtMost
<1>9. \A t \in Servers : pc'[t] = "finish" => Len(reply'[t]) = 1
  BY <1>1, <1>3 DEF OrderInv
<1> QED BY <1>5, <1>7, <1>8, <1>9 DEF OrderInv

\* One more, that is above what is there or is a backspace.
LEMMA RisingAppend ==
  ASSUME NEW s \in Seq(Int), Rising(s), NEW n \in Nat, AtMost(s, n - 1), NEW x \in {-1, n}
  PROVE  Rising(Append(s, x)) /\ AtMost(Append(s, x), n)
<1>1. PICK m \in Nat : m = Len(s)
  OBVIOUS
<1>2. PICK r : r = Append(s, x)
  OBVIOUS
<1>3. /\ Len(r) = m + 1 /\ r[m + 1] = x /\ \A i \in 1..m : r[i] = s[i]
  BY <1>1, <1>2, AppendProperties
<1>4. \A i \in 1..m : s[i] \in Int /\ s[i] <= n - 1
  BY <1>1 DEF AtMost
<1>5. ASSUME NEW i \in 1..(m + 1), NEW j \in 1..(m + 1), i < j, r[i] # -1, r[j] # -1 PROVE r[i] < r[j]
  <2>1. i \in 1..m
    BY <1>5
  <2>2. CASE j \in 1..m
    BY <1>1, <1>3, <1>5, <2>1, <2>2 DEF Rising
  <2>3. CASE j = m + 1
    <3>1. r[j] = n
      BY <1>3, <1>5, <2>3
    <3> QED BY <1>3, <1>4, <2>1, <3>1
  <2> QED BY <1>5, <2>2, <2>3
<1>6. \A i \in 1..(m + 1) : r[i] <= n
  BY <1>3, <1>4
<1> QED BY <1>2, <1>3, <1>5, <1>6 DEF Rising, AtMost

\* Three parts make one whole, whichever two are put together first.
LEMMA Associates ==
  ASSUME NEW s \in Seq(Int), NEW t \in Seq(Int), NEW u \in Seq(Int)
  PROVE  (s \o t) \o u = s \o (t \o u)
BY ConcatAssociative, SMT

LEMMA AppendAfter ==
  ASSUME NEW s \in Seq(Int), NEW t \in Seq(Int), NEW x \in Int
  PROVE  s \o Append(t, x) = Append(s \o t, x)
<1>1. PICK h \in Seq(Int) : h = <<x>>
  <2>1. <<x>> \in Seq(Int)
    OBVIOUS
  <2> QED BY <2>1
<1>2. Append(t, x) = t \o h
  BY <1>1, AppendIsConcat
<1>3. PICK st \in Seq(Int) : st = s \o t
  BY ConcatProperties
<1>4. Append(st, x) = st \o h
  BY <1>1, AppendIsConcat
<1>5. (s \o t) \o h = s \o (t \o h)
  BY Associates
<1> QED BY <1>2, <1>3, <1>4, <1>5

LEMMA OrderPut ==
  ASSUME ReadersInv, ReadersInv', OrderInv, Reads(One)!Put PROVE OrderInv'
<1> DEFINE ch == IF count % 3 = 0 THEN -1 ELSE count
<1>1. /\ pc[-1] = "put" /\ pc' = [pc EXCEPT ![-1] = "idle"] /\ kbd_buffer' = Append(kbd_buffer, ch)
      /\ UNCHANGED <<stdin_read, count, reply, delivered>>
  BY DEF Reads!Put, Reads!Character, Reads!Backspace, Reads!At, Reads!Goes, Reads!KEYBOARD
<1>2. QueueTypes /\ DataTypes /\ HoldersInv /\ HoldersInv'
  BY DEF ReadersInv
<1>3. pc'[-1] = "idle" /\ \A t \in Servers : pc'[t] = pc[t]
  <2>1. \A t \in Servers : t # -1
    BY SomeServers
  <2> QED BY <1>1, <1>2, <2>1 DEF QueueTypes
<1>4. Held' = Held
  BY <1>1, <1>2, <1>3, HeldKept
<1>5. PICK n \in Nat : n = count
  BY <1>2, Programs DEF DataTypes
<1>6. PICK x \in {-1, n} : x = ch
  BY <1>5
<1> HIDE DEF ch
<1>7. x \in Int
  OBVIOUS
<1>8. PICK s \in Seq(Int) : s = Flow
  BY <1>2, HeldTyped, Parts DEF Flow, DataTypes
<1>9. Flow' = Append(s, x)
  <2>1. kbd_buffer \in Seq(Int) /\ delivered \in Seq(Int) /\ Held \in Seq(Int)
    BY <1>2, HeldTyped DEF DataTypes
  <2>2. PICK d \in Seq(Int) : d = delivered \o Held
    BY <2>1, ConcatProperties
  <2>3. Flow' = d \o Append(kbd_buffer, x)
    BY <1>1, <1>4, <1>6, <2>2 DEF Flow
  <2>4. s = d \o kbd_buffer
    BY <1>8, <2>2 DEF Flow
  <2> QED BY <1>7, <2>1, <2>3, <2>4, AppendAfter
<1>10. Pending = 1 /\ Pending' = 0 /\ ~Lost /\ count' = n
  BY <1>1, <1>3, <1>5 DEF Pending, Lost
<1>11. Rising(s) /\ AtMost(s, n - 1) /\ Len(s) + 1 = n
  BY <1>5, <1>8, <1>10 DEF OrderInv
<1>12. Rising(Append(s, x)) /\ AtMost(Append(s, x), n)
  BY <1>11, RisingAppend
<1>13. Len(Append(s, x)) = Len(s) + 1 /\ Len(s) \in Nat
  BY <1>7, AppendProperties
<1>14. \A t \in Servers : pc'[t] = "finish" => Len(reply'[t]) = 1
  BY <1>1, <1>3 DEF OrderInv
<1>15. n - 0 = n /\ Len(Append(s, x)) + 0 = n
  BY <1>11, <1>13
<1> QED BY <1>9, <1>10, <1>12, <1>14, <1>15 DEF OrderInv

\* The first of the last part goes over to the one before it.
LEMMA FirstOver ==
  ASSUME NEW s \in Seq(Int), NEW u \in Seq(Int), u # <<>>
  PROVE  (s \o <<Head(u)>>) \o Tail(u) = (s \o <<>>) \o u
<1>1. Head(u) \in Int /\ Tail(u) \in Seq(Int)
  BY HeadTailProperties
<1>2. PICK h : h = <<Head(u)>>
  OBVIOUS
<1>3. h \in Seq(Int) /\ Len(h) = 1 /\ h[1] = Head(u) /\ Head(u) = u[1]
  BY <1>1, <1>2
<1>4. PICK v : v = Tail(u)
  OBVIOUS
<1>5. v \in Seq(Int) /\ Len(v) = Len(u) - 1 /\ (\A i \in 1..Len(v) : v[i] = u[i + 1]) /\ Len(u) \in Nat
  BY <1>1, <1>4, HeadTailProperties
<1>9. h \in Seq(Int) /\ v \in Seq(Int)
  BY <1>3, <1>5
<1>6. h \o v = u
  <2>1. /\ h \o v \in Seq(Int) /\ Len(h \o v) = Len(h) + Len(v)
        /\ \A i \in 1..(Len(h) + Len(v)) : (h \o v)[i] = IF i <= Len(h) THEN h[i] ELSE v[i - Len(h)]
    BY ONLY <1>9, ConcatProperties
  <2>2. Len(h \o v) = Len(u)
    BY <1>3, <1>5, <2>1
  <2>3. ASSUME NEW i \in 1..Len(u) PROVE (h \o v)[i] = u[i]
    <3>1. CASE i = 1
      BY <1>3, <1>5, <2>1, <3>1
    <3>2. CASE i # 1
      <4>1. PICK l \in 1..Len(v) : l = i - 1 /\ i = l + 1
        <5>1. i \in 1..(Len(v) + 1) /\ Len(v) \in Nat
          BY <1>5
        <5> QED BY <3>2, <5>1
      <4>2. (h \o v)[i] = v[l]
        <5>1. i <= Len(h) <=> FALSE
          BY <1>3, <3>2
        <5>2. i \in 1..(Len(h) + Len(v)) /\ i - Len(h) = l
          BY <1>3, <1>5, <4>1
        <5> QED BY <2>1, <5>1, <5>2
      <4>3. v[l] = u[i]
        BY <1>5, <4>1
      <4> QED BY <4>2, <4>3
    <3> QED BY <3>1, <3>2
  <2> QED BY <2>1, <2>2, <2>3, SeqEqual
<1>7. (s \o h) \o v = s \o (h \o v)
  BY <1>9, Associates
<1>8. s \o <<>> = s
  BY ConcatEmptySeq
<1> QED BY <1>2, <1>4, <1>6, <1>7, <1>8

LEMMA OrderTakeOne ==
  ASSUME ReadersInv, ReadersInv', OrderInv, NEW t \in Servers, Reads(One)!TakeOne(t) PROVE OrderInv'
<1>1. /\ pc[t] = "take" /\ pc' = [pc EXCEPT ![t] = "finish"]
      /\ reply' = [reply EXCEPT ![t] = <<IF kbd_buffer = <<>> THEN 0 ELSE Head(kbd_buffer)>>]
      /\ kbd_buffer' = IF kbd_buffer = <<>> THEN <<>> ELSE Tail(kbd_buffer)
      /\ UNCHANGED <<stdin_read, count, delivered>>
  BY DEF Reads!TakeOne, Reads!At, Reads!Goes, Reads!First, Reads!Rest
<1>2. DataTypes /\ HoldersInv /\ HoldersInv'
  BY DEF ReadersInv
<1>3. pc'[t] = "finish" /\ pc'[-1] = pc[-1] /\ \A u \in Servers : u # t => pc'[u] = pc[u]
  BY <1>1, ReadMoves
<1>4. kbd_buffer \in Seq(Int) /\ kbd_buffer # <<>> /\ delivered \in Seq(Int)
  BY <1>1, <1>2 DEF HoldersInv, DataTypes
<1>5. reply'[t] = <<Head(kbd_buffer)>> /\ kbd_buffer' = Tail(kbd_buffer)
      /\ \A u \in Servers : u # t => reply'[u] = reply[u]
  <2>1. reply \in [Servers -> Seq(Int)]
    BY <1>2 DEF DataTypes
  <2> QED BY <1>1, <1>4, <2>1
<1>6. \A u \in Servers : pc[u] # "finish"
  <2>1. stdin_read = t
    <3>1. pc[t] \in Reading
      BY <1>1, LivingPlaces
    <3> QED BY <1>2, <3>1 DEF HoldersInv
  <2>2. ASSUME NEW u \in Servers, pc[u] = "finish" PROVE FALSE
    <3>1. pc[u] \in Reading
      BY <2>2, LivingPlaces
    <3>2. u = t
      BY <1>2, <2>1, <3>1 DEF HoldersInv
    <3> QED BY <1>1, <2>2, <3>2
  <2> QED BY <2>2
<1>7. Held = <<>> /\ Held' = <<Head(kbd_buffer)>>
  BY <1>2, <1>3, <1>5, <1>6, HeldIs, HeldIsThen
<1>8. Flow' = Flow
  BY <1>1, <1>4, <1>5, <1>7, FirstOver DEF Flow
<1>9. Pending' = Pending /\ count' = count
  BY <1>1, <1>3 DEF Pending
<1>10. ~Lost
  <2>1. kbd_mutex = t /\ t # -1
    BY <1>1, <1>2, SomeServers DEF HoldersInv
  <2> QED BY <2>1 DEF Lost
<1>11. \A u \in Servers : pc'[u] = "finish" => Len(reply'[u]) = 1
  <2>1. Len(<<Head(kbd_buffer)>>) = 1
    OBVIOUS
  <2> QED BY <1>3, <1>5, <1>6, <2>1
<1> QED BY <1>8, <1>9, <1>10, <1>11 DEF OrderInv

LEMMA OrderUnlock ==
  ASSUME ReadersInv, ReadersInv', OrderInv, NEW t \in Servers, Reads(One)!ReadUnlocks(t) PROVE OrderInv'
<1>1. /\ pc[t] = "finish" /\ pc' = [pc EXCEPT ![t] = "answer"] /\ delivered' = delivered \o reply[t]
      /\ UNCHANGED <<kbd_mutex, kbd_buffer, count, reply>>
  BY DEF Reads!ReadUnlocks, Reads!At, Reads!Goes, Reads!buffer
<1>2. DataTypes /\ HoldersInv /\ HoldersInv'
  BY DEF ReadersInv
<1>3. pc'[t] = "answer" /\ pc'[-1] = pc[-1] /\ \A u \in Servers : u # t => pc'[u] = pc[u]
  BY <1>1, ReadMoves
<1>4. \A u \in Servers : pc'[u] # "finish"
  <2>1. stdin_read = t
    <3>1. pc[t] \in Reading
      BY <1>1, LivingPlaces
    <3> QED BY <1>2, <3>1 DEF HoldersInv
  <2>2. ASSUME NEW u \in Servers, pc'[u] = "finish" PROVE FALSE
    <3>1. u # t
      BY <1>3, <2>2
    <3>2. pc[u] \in Reading
      BY <1>3, <2>2, <3>1, LivingPlaces
    <3> QED BY <1>2, <2>1, <3>1, <3>2 DEF HoldersInv
  <2> QED BY <2>2
<1>5. Held = reply[t] /\ Held' = <<>>
  BY <1>1, <1>2, <1>4, HeldIs, HeldIsThen
<1>6. Flow' = Flow
  <2>1. reply[t] \in Seq(Int) /\ delivered \in Seq(Int)
    BY <1>2 DEF DataTypes
  <2>2. (delivered \o reply[t]) \o <<>> = delivered \o reply[t]
    BY <2>1, ConcatProperties, ConcatEmptySeq
  <2> QED BY <1>1, <1>5, <2>2 DEF Flow
<1>7. Pending' = Pending /\ count' = count /\ (Lost => Lost')
  BY <1>1, <1>3 DEF Pending, Lost
<1>8. \A u \in Servers : pc'[u] = "finish" => Len(reply'[u]) = 1
  BY <1>4
<1> QED BY <1>6, <1>7, <1>8 DEF OrderInv

LEMMA OrderThread ==
  ASSUME ReadersInv, ReadersInv', ShortInv, OrderInv, NEW t \in Servers, Reads(One)!ThreadStep(t)
  PROVE  OrderInv'
<1>1. QueueTypes /\ DataTypes /\ HoldersInv /\ HoldersInv'
  BY DEF ReadersInv
<1>2. CASE Reads(One)!TakeOne(t)
  BY <1>2, OrderTakeOne
<1>3. CASE Reads(One)!ReadUnlocks(t)
  BY <1>3, OrderUnlock
<1>4. CASE Reads(One)!TakeAll(t)
  <2>1. pc[t] = "take" /\ Head(requests[t]).length > 1
    BY <1>4 DEF Reads!TakeAll, Reads!At, Reads!Request
  <2>2. requests[t] # <<>> /\ requests[t] \in Seq(Asking)
    <3>1. pc[t] \in Reading
      BY <2>1, LivingPlaces
    <3> QED BY <1>1, <3>1 DEF HoldersInv, QueueTypes
  <2>3. 1 \in 1..Len(requests[t]) /\ Head(requests[t]) = requests[t][1]
    BY <2>2
  <2>4. requests[t][1].length \in {0, 1}
    BY <2>3 DEF ShortInv, Short
  <2> QED BY <2>1, <2>3, <2>4
<1>5. CASE \/ Reads(One)!ThreadLooks(t) \/ Reads(One)!AnswerResolve(t) \/ Reads(One)!ReadStarts(t)
           \/ Reads(One)!ReadAwaits(t) \/ Reads(One)!ReadLocks(t) \/ Reads(One)!AnswerRead(t)
  <2>1. \E place \in {"idle", "over", "await", "lock", "take"} :
          pc' = [pc EXCEPT ![t] = place] /\ pc[t] # "finish"
    BY <1>5 DEF Reads!ThreadLooks, Reads!AnswerResolve, Reads!AnswerRead, Reads!Answer,
      Reads!ReadStarts, Reads!ReadAwaits, Reads!ReadLocks, Reads!At, Reads!Goes
  <2>2. PICK place \in {"idle", "over", "await", "lock", "take"} :
          pc' = [pc EXCEPT ![t] = place] /\ pc[t] # "finish"
    BY <2>1
  <2>3. pc'[t] = place /\ pc'[-1] = pc[-1] /\ \A u \in Servers : u # t => pc'[u] = pc[u]
    BY <2>2, ReadMoves
  <2>4. UNCHANGED <<delivered, kbd_buffer, count>>
    BY <1>5 DEF Reads!ThreadLooks, Reads!AnswerResolve, Reads!AnswerRead,
      Reads!ReadStarts, Reads!ReadAwaits, Reads!ReadLocks, Reads!buffer
  <2>5. kbd_mutex = -1 => kbd_mutex' = -1
    BY <1>5 DEF Reads!ThreadLooks, Reads!AnswerResolve, Reads!AnswerRead,
      Reads!ReadStarts, Reads!ReadAwaits, Reads!ReadLocks, Reads!locks, Reads!NONE
  <2>6. \A u \in Servers : u # t => reply'[u] = reply[u]
    <3>1. reply' = reply \/ reply' = [reply EXCEPT ![t] = <<>>]
      BY <1>5 DEF Reads!ThreadLooks, Reads!AnswerResolve, Reads!AnswerRead,
        Reads!ReadStarts, Reads!ReadAwaits, Reads!ReadLocks
    <3>2. reply \in [Servers -> Seq(Int)]
      BY <1>1 DEF DataTypes
    <3> QED BY <3>1, <3>2
  <2>7. \A u \in Servers : /\ pc'[u] = "finish" <=> pc[u] = "finish"
                           /\ pc[u] = "finish" => reply'[u] = reply[u]
    BY <2>2, <2>3, <2>6
  <2> QED BY <1>1, <2>3, <2>4, <2>5, <2>7, OrderKept
<1> QED BY <1>2, <1>3, <1>4, <1>5 DEF Reads!ThreadStep

LEMMA OrderNext ==
  ASSUME ReadersInv, ReadersInv', ShortInv, OrderInv, Reads(One)!Next PROVE OrderInv'
<1>1. QueueTypes /\ DataTypes /\ BornInv /\ LinksInv /\ HoldersInv /\ HoldersInv'
  BY DEF ReadersInv
<1>2. CASE Reads(One)!Type
  BY <1>2, OrderType
<1>3. CASE Reads(One)!KeyboardStep
  BY <1>3, OrderPut, OrderDrop DEF Reads!KeyboardStep
<1>4. CASE \E t \in Reads(One)!Thread : Reads(One)!ThreadStep(t)
  BY <1>4, ServersAre, OrderThread
<1>5. CASE (\E c \in Client : Reads(One)!Resolve(c)) \/ (\E c \in Client, l \in One : Reads(One)!Read(c, l))
  <2>1. UNCHANGED <<delivered, kbd_buffer, count, pc, kbd_mutex, reply>>
    BY <1>5 DEF Reads!Resolve, Reads!Read, Reads!buffer, Reads!locks
  <2> QED BY <1>1, <2>1, OrderKept
<1>6. CASE Reads(One)!MainStep
  <2>1. UNCHANGED <<delivered, kbd_buffer, count, kbd_mutex, reply>>
    BY <1>6 DEF Reads!MainStep, Reads!MainFinds, Reads!MainAdds, Reads!MainStarts, Reads!MainAssigns,
      Reads!MainForwards, Reads!buffer, Reads!locks
  <2>2. \/ \E place : pc' = [pc EXCEPT ![0] = place]
        \/ pc' = [pc EXCEPT ![0] = "assign", ![started + 1] = "new"] /\ pc[0] = "start"
    BY <1>6 DEF Reads!MainStep, Reads!MainFinds, Reads!MainAdds, Reads!MainStarts, Reads!MainAssigns,
      Reads!MainForwards, Reads!Goes, Reads!At, Reads!MAIN
  <2>3. PICK N \in Nat : N = Cardinality(Client) /\ Servers = 1..(N + 1)
    BY SomeServers
  <2>4. pc'[-1] = pc[-1] /\ \A t \in Servers : pc'[t] = pc[t] \/ (pc[t] = "unborn" /\ pc'[t] = "new")
    <3>1. CASE \E place : pc' = [pc EXCEPT ![0] = place]
      <4>1. \A q \in {0, -1} \cup Servers : q # 0 => pc'[q] = pc[q]
        BY <1>1, <3>1 DEF QueueTypes
      <4>2. -1 # 0 /\ \A t \in Servers : t # 0
        BY <2>3
      <4> QED BY <4>1, <4>2
    <3>2. CASE pc' = [pc EXCEPT ![0] = "assign", ![started + 1] = "new"] /\ pc[0] = "start"
      <4>1. started \in Nat /\ started + 1 # 0 /\ started + 1 # -1 /\ started + 1 > started
        BY <1>1, <3>2 DEF LinksInv
      <4>2. PICK s \in Nat : s = started + 1 /\ s # 0 /\ s # -1
        BY <4>1
      <4>3. \A q \in {0, -1} \cup Servers :
              q # 0 => pc'[q] = IF q = s THEN "new" ELSE pc[q]
        BY <1>1, <3>2, <4>2 DEF QueueTypes
      <4>4. s \in Servers => pc[s] = "unborn"
        BY <1>1, <4>1, <4>2 DEF BornInv
      <4>5. -1 # 0 /\ \A t \in Servers : t # 0
        BY <2>3
      <4> QED BY <4>2, <4>3, <4>4, <4>5
    <3> QED BY <2>2, <3>1, <3>2
  <2>5. \A t \in Servers : /\ pc'[t] = "finish" <=> pc[t] = "finish"
                           /\ pc[t] = "finish" => reply'[t] = reply[t]
    BY <2>1, <2>4
  <2> QED BY <1>1, <2>1, <2>4, <2>5, OrderKept
<1> QED BY <1>2, <1>3, <1>4, <1>5, <1>6 DEF Reads!Next

CharactersInv == part = "characters" => ShortInv /\ OrderInv

LEMMA OrderInit == ASSUME Reads(One)!Init PROVE ShortInv /\ OrderInv
<1>1. /\ stdin_read = -2 /\ kbd_buffer = <<>> /\ count = 0 /\ delivered = <<>>
      /\ requests = [p \in Servers \cup {0} |-> <<>>]
  BY ServersAre DEF Reads!Init, Reads!NONE, Reads!MAIN
<1>2. ReadersInv
  BY ReadersInit
<1>3. \A t \in Servers : pc[t] # "finish"
  <2>1. \A t \in Servers : pc[t] # "finish" \/ pc[t] \in Reading
    BY LivingPlaces
  <2>2. \A t \in Servers : t # -2
    BY SomeServers
  <2> QED BY <1>1, <1>2, <2>1, <2>2 DEF ReadersInv, HoldersInv
<1>4. Held = <<>>
  BY <1>2, <1>3, HeldIs DEF ReadersInv
<1>5. Flow = <<>>
  BY <1>1, <1>4 DEF Flow
<1>6. Pending = 0
  <2>1. pc[-1] # "put"
    <3>1. kbd_mutex = -2
      BY DEF Reads!Init, Reads!NONE
    <3> QED BY <1>2, <3>1 DEF ReadersInv, HoldersInv
  <2> QED BY <2>1 DEF Pending
<1>7. ShortInv
  BY <1>1 DEF ShortInv, Short
<1>8. OrderInv
  BY <1>1, <1>3, <1>5, <1>6 DEF OrderInv, Rising, AtMost
<1> QED BY <1>7, <1>8

LEMMA ReadersAllNext ==
  ASSUME ReadersInv /\ CharactersInv, [AllNext]_allVars PROVE ReadersInv' /\ CharactersInv'
<1>1. Lengths \in SUBSET Nat /\ One \in SUBSET Nat
  BY PartsAssumption DEF Reads!StdinAssumption, One
<1>2. CASE part = "characters" /\ Reads(One)!Next /\ part' = part
  <2>1. ReadersInv'
    BY <1>1, <1>2, ReadersNext
  <2> QED BY <1>2, <2>1, ShortNext, OrderNext DEF CharactersInv
<1>3. CASE part # "characters" /\ Reads(Lengths)!Next /\ part' = part
  <2>1. ReadersInv'
    BY <1>1, <1>3, ReadersNext
  <2> QED BY <1>3, <2>1 DEF CharactersInv
<1>4. CASE UNCHANGED stdinVars /\ part' = part
  <2>1. /\ threads' = threads /\ threads_mutex' = threads_mutex /\ kbd_mutex' = kbd_mutex
        /\ stdin_read' = stdin_read /\ started' = started /\ kbd_buffer' = kbd_buffer
        /\ count' = count /\ pc' = pc /\ requests' = requests /\ reply' = reply
        /\ server' = server /\ waiting' = waiting /\ delivered' = delivered
    BY <1>4 DEF stdinVars
  <2>2. ReadersInv'
    BY <2>1 DEF ReadersInv, QueueTypes, DataTypes, LinksInv, BornInv, HoldersInv, LinesInv
  <2>3. ShortInv /\ OrderInv => ShortInv' /\ OrderInv'
    <3>1. Flow' = Flow /\ Pending' = Pending /\ (Lost => Lost')
      BY <2>1 DEF Flow, Held, Pending, Lost
    <3>2. ShortInv => ShortInv'
      BY <2>1 DEF ShortInv
    <3>3. OrderInv => OrderInv'
      BY <2>1, <3>1 DEF OrderInv
    <3> QED BY <3>2, <3>3
  <2> QED BY <1>4, <2>2, <2>3 DEF CharactersInv
<1> QED BY <1>2, <1>3, <1>4 DEF AllNext, allVars

\* Nothing typed is lost or mixed up while one character is read at a time.
LEMMA OrderSound ==
  ASSUME ReadersInv, OrderInv PROVE Reads(One)!InOrder /\ Reads(One)!NothingLost
<1>1. DataTypes /\ HoldersInv
  BY DEF ReadersInv
<1>2. delivered \in Seq(Int) /\ Held \in Seq(Int) /\ kbd_buffer \in Seq(Int)
  BY <1>1, HeldTyped DEF DataTypes
<1>3. PICK f \in Seq(Int) : /\ f = Flow /\ Len(f) = Len(delivered) + Len(Held) + Len(kbd_buffer)
                            /\ \A i \in 1..Len(delivered) : f[i] = delivered[i]
  <2>1. PICK h : h = Held
    OBVIOUS
  <2>2. h \in Seq(Int) /\ delivered \in Seq(Int) /\ kbd_buffer \in Seq(Int)
    BY <1>2, <2>1
  <2>3. PICK f : f = (delivered \o h) \o kbd_buffer
    OBVIOUS
  <2>4. /\ f \in Seq(Int) /\ Len(f) = Len(delivered) + Len(h) + Len(kbd_buffer)
        /\ \A i \in 1..Len(delivered) : f[i] = delivered[i]
    BY <2>2, <2>3, Parts
  <2>5. f = Flow
    BY <2>1, <2>3 DEF Flow
  <2> QED BY <2>1, <2>4, <2>5
<1>4. Len(delivered) \in Nat /\ Len(Held) \in Nat /\ Len(kbd_buffer) \in Nat
  BY <1>2
<1>5. Reads(One)!InOrder
  <2>1. ASSUME NEW i \in 1..Len(delivered), NEW j \in 1..Len(delivered), i < j,
               delivered[i] # -1, delivered[j] # -1
        PROVE  delivered[i] < delivered[j]
    <3>1. i \in 1..Len(f) /\ j \in 1..Len(f)
      BY <1>3, <1>4
    <3> QED BY <1>3, <2>1, <3>1 DEF OrderInv, Rising
  <2> QED BY <2>1 DEF Reads!InOrder, Reads!Backspace
<1>6. Reads(One)!NothingLost
  <2> DEFINE g == {t \in Servers : pc[t] = "finish"}
  <2>1. Cardinality(g) = Len(Held)
    <3>1. CASE \E t \in Servers : pc[t] = "finish"
      <4>1. PICK t \in Servers : pc[t] = "finish"
        BY <3>1
      <4>2. \A u \in Servers : pc[u] = "finish" => stdin_read = u
        BY <1>1, LivingPlaces DEF HoldersInv
      <4>3. g = {t}
        BY <4>1, <4>2
      <4>4. Len(Held) = 1
        BY <1>1, <4>1, HeldIs DEF OrderInv
      <4> HIDE DEF g
      <4> QED BY <4>3, <4>4, FS_Singleton
    <3>2. CASE \A t \in Servers : pc[t] # "finish"
      <4>1. g = {}
        BY <3>2
      <4>2. Len(Held) = 0
        BY <1>1, <3>2, HeldIs
      <4> HIDE DEF g
      <4> QED BY <4>1, <4>2, FS_EmptySet
    <3> QED BY <3>1, <3>2
  <2>2. Len(kbd_buffer) < BUFFER - 1 => ~Lost
    BY <1>4, Programs DEF Lost
  <2>3. Len(kbd_buffer) < BUFFER - 1 =>
          Len(delivered) + Cardinality(g) + Len(kbd_buffer) + Pending = count
    BY <1>3, <2>1, <2>2 DEF OrderInv
  <2>4. Reads(One)!Cardinality(g) = Cardinality(g)
    BY DEF Reads!Cardinality, Cardinality
  <2>5. Reads(One)!Thread = Servers
    BY ServersAre
  <2> QED BY <2>3, <2>4, <2>5 DEF Reads!NothingLost, Reads!At, Reads!KEYBOARD, Pending
<1> QED BY <1>5, <1>6

\* However main, the keyboard, the programs' threads and the programs are interleaved:
\* no thread a program is sent to has left its loop, no line that is read holds a
\* backspace, and programs that read a character at a time get what was typed, in order,
\* nothing twice and, while the buffer does not fill, nothing lost (tty.cpp:322-421,
\* 488-536), for any number of programs and any size of the buffer.
THEOREM ReadersAlwaysSound == AllSpec => []ReadersSound
<1>1. AllInit => ReadersInv /\ CharactersInv
  BY ReadersInit, OrderInit DEF AllInit, CharactersInv
<1>2. ReadersInv /\ CharactersInv /\ [AllNext]_allVars => (ReadersInv /\ CharactersInv)'
  BY ReadersAllNext
<1>3. ReadersInv /\ CharactersInv => ReadersSound
  BY ReadersInvSound, OrderSound DEF CharactersInv, ReadersSound
<1> QED BY <1>1, <1>2, <1>3, PTL DEF AllSpec

-----------------------------------------------------------------------------
(* Formatted output: the digits of a number *)

Bases == {8, 10, 16}

LEMMA Divided ==
  ASSUME NEW m \in Nat, NEW base \in Bases, ~(m < base)
  PROVE  m \div base \in 0..(m - 1)
<1>1. CASE base = 8
  BY <1>1
<1>2. CASE base = 10
  BY <1>2
<1>3. CASE base = 16
  BY <1>3
<1> QED BY <1>1, <1>2, <1>3 DEF Bases

DigitsOn(d, m, base) == IF m < base THEN 1 ELSE 1 + d[m \div base]
DigitsEquation(d, N, base) == d = [m \in 0..N |-> DigitsOn(d, m, base)]

LEMMA DigitsExist ==
  ASSUME NEW N \in Nat, NEW base \in Bases
  PROVE  \E d : DigitsEquation(d, N, base)
<1> DEFINE Good(d, k) == /\ d \in [0..k -> Nat]
                         /\ \A m \in 0..k : d[m] = DigitsOn(d, m, base)
           T == {k \in 0..N : \E d : Good(d, k)}
<1>0. base \in Nat /\ 0 < base
  BY DEF Bases
<1>1. 0 \in T
  <2>1. PICK d : d = [m \in 0..0 |-> 1]
    OBVIOUS
  <2>2. \A m \in 0..0 : m < base
    BY <1>0
  <2>3. Good(d, 0)
    BY <2>1, <2>2 DEF DigitsOn
  <2> QED BY <2>3
<1>2. ASSUME NEW k \in 0..(N - 1), k \in T PROVE k + 1 \in T
  <2>1. PICK d : Good(d, k)
    BY <1>2
  <2>2. PICK v : v = DigitsOn(d, k + 1, base)
    OBVIOUS
  <2>3. v \in Nat
    <3>1. CASE k + 1 < base
      BY <3>1, <2>2 DEF DigitsOn
    <3>2. CASE ~(k + 1 < base)
      <4>1. (k + 1) \div base \in 0..((k + 1) - 1)
        BY <3>2, Divided
      <4>2. (k + 1) \div base \in 0..k
        BY <4>1
      <4> QED BY <4>2, <3>2, <2>1, <2>2 DEF DigitsOn
    <3> QED BY <3>1, <3>2
  <2>4. PICK e : e = [m \in 0..(k + 1) |-> IF m = k + 1 THEN v ELSE d[m]]
    OBVIOUS
  <2>5. /\ e \in [0..(k + 1) -> Nat] /\ e[k + 1] = v
        /\ \A m \in 0..k : e[m] = d[m]
    BY <2>1, <2>3, <2>4
  <2>6. ASSUME NEW m \in 0..(k + 1) PROVE e[m] = DigitsOn(e, m, base)
    <3>1. ASSUME ~(m < base) PROVE e[m \div base] = d[m \div base]
      <4>1. m \div base \in 0..(m - 1)
        BY <3>1, Divided
      <4>2. m \div base \in 0..k
        BY <4>1
      <4> QED BY <4>2, <2>5
    <3>2. DigitsOn(e, m, base) = DigitsOn(d, m, base)
      BY <3>1 DEF DigitsOn
    <3>3. CASE m = k + 1
      BY <3>2, <3>3, <2>2, <2>5
    <3>4. CASE m # k + 1
      <4>1. m \in 0..k
        BY <3>4
      <4> QED BY <4>1, <3>2, <2>1, <2>5
    <3> QED BY <3>3, <3>4
  <2>7. Good(e, k + 1)
    BY <2>5, <2>6
  <2> QED BY <2>7
<1>3. N \in T
  <2>1. 0..N \subseteq T
    <3> HIDE DEF T
    <3> QED BY <1>1, <1>2, UpTo
  <2> HIDE DEF T
  <2> QED BY <2>1
<1>4. PICK d : Good(d, N)
  BY <1>3
<1>5. DigitsEquation(d, N, base)
  BY <1>4 DEF DigitsEquation
<1> QED BY <1>5

LEMMA DigitsCount ==
  ASSUME NEW n \in 0..(2 * HALF - 1), NEW base \in Bases
  PROVE  Digits(n, base) \in Nat \ {0}
<1>0. HALF \in Nat \ {0}
  BY PrintfAssumption
<1>1. PICK N \in Nat : N = 2 * HALF - 1
  BY <1>0
<1> DEFINE digits == CHOOSE d : d = [m \in 0..N |-> IF m < base THEN 1 ELSE 1 + d[m \div base]]
<1>2. Digits(n, base) = digits[n]
  BY <1>1 DEF Digits
<1>3. DigitsEquation(digits, N, base)
  <2>1. \E d : d = [m \in 0..N |-> IF m < base THEN 1 ELSE 1 + d[m \div base]]
    BY DigitsExist DEF DigitsEquation, DigitsOn
  <2>2. digits = [m \in 0..N |-> IF m < base THEN 1 ELSE 1 + digits[m \div base]]
    BY <2>1
  <2> HIDE DEF digits
  <2> QED BY <2>2 DEF DigitsEquation, DigitsOn
<1> HIDE DEF digits
<1> DEFINE T == {k \in 0..N : \A m \in 0..k : digits[m] \in Nat \ {0}}
<1>4. \A m \in 0..N : digits[m] = DigitsOn(digits, m, base)
  BY <1>3 DEF DigitsEquation
<1>5. base \in Nat /\ 0 < base
  BY DEF Bases
<1>6. 0 \in T
  <2>1. \A m \in 0..0 : m \in 0..N /\ m < base
    BY <1>5
  <2> QED BY <2>1, <1>4 DEF DigitsOn
<1>7. ASSUME NEW k \in 0..(N - 1), k \in T PROVE k + 1 \in T
  <2>1. \A m \in 0..k : digits[m] \in Nat \ {0}
    BY <1>7
  <2>2. digits[k + 1] \in Nat \ {0}
    <3>1. digits[k + 1] = DigitsOn(digits, k + 1, base)
      BY <1>4
    <3>2. CASE k + 1 < base
      BY <3>1, <3>2 DEF DigitsOn
    <3>3. CASE ~(k + 1 < base)
      <4>1. (k + 1) \div base \in 0..((k + 1) - 1)
        BY <3>3, Divided
      <4>2. (k + 1) \div base \in 0..k
        BY <4>1
      <4> QED BY <4>2, <3>1, <3>3, <2>1 DEF DigitsOn
    <3> QED BY <3>2, <3>3
  <2>3. \A m \in 0..(k + 1) : digits[m] \in Nat \ {0}
    <3>1. \A m \in 0..(k + 1) : m \in 0..k \/ m = k + 1
      OBVIOUS
    <3> QED BY <3>1, <2>1, <2>2
  <2>4. k + 1 \in 0..N
    OBVIOUS
  <2> QED BY <2>3, <2>4
<1>8. N \in T
  <2>1. 0..N \subseteq T
    <3> HIDE DEF T
    <3> QED BY <1>6, <1>7, UpTo
  <2> HIDE DEF T
  <2> QED BY <2>1
<1> QED BY <1>1, <1>2, <1>8

-----------------------------------------------------------------------------
(* What a field holds *)

FieldRec == [kind : {"text", "signed", "unsigned", "char", "string"}, arg : Int, width : Int,
             precision : Int, left : BOOLEAN, lead : Nat, sign : {"", "-", "+", " "},
             prefix : Nat, pad : Nat, zeros : Nat, value : Int, len : Nat, trail : Nat]
Bare(f) == (IF f.sign = "" THEN 0 ELSE 1) + f.prefix + f.zeros + f.len
Fits(f) ==
  /\ f.lead + f.pad + f.trail + Bare(f) = Larger(f.width, Bare(f))
  /\ IF f.left THEN f.lead = 0 /\ f.pad = 0 ELSE f.trail = 0
  /\ f.kind \in {"signed", "unsigned"} => f.zeros + f.len >= f.precision
Reads2(f) ==
  /\ f.kind = "signed" => f.arg = (IF f.sign = "-" THEN -f.value ELSE f.value)
  /\ f.kind = "unsigned" => Unsigned(f.arg) = f.value /\ f.sign # "-"
GoodField(f) == f \in FieldRec /\ (f.kind # "text" => Fits(f) /\ Reads2(f))

\* A record of these parts.
FieldIs(f, kind, arg, wide, prec, left, lead, sign, prefix, pad, zeros, value, len, trail) ==
  f = [kind |-> kind, arg |-> arg, width |-> wide, precision |-> prec, left |-> left,
       lead |-> lead, sign |-> sign, prefix |-> prefix, pad |-> pad, zeros |-> zeros,
       value |-> value, len |-> len, trail |-> trail]

Parts13(f, kind, arg, wide, prec, left, lead, sign, prefix, pad, zeros, value, len, trail) ==
  /\ f.kind = kind /\ f.arg = arg /\ f.width = wide /\ f.precision = prec /\ f.left = left
  /\ f.lead = lead /\ f.sign = sign /\ f.prefix = prefix /\ f.pad = pad /\ f.zeros = zeros
  /\ f.value = value /\ f.len = len /\ f.trail = trail

LEMMA Words2 ==
  /\ HALF \in Nat \ {0}
  /\ \A n \in Int : Unsigned(n) \in 0..(2 * HALF - 1)
  /\ \A n \in 0..(2 * HALF - 1) : Unsigned(n) = n
<1>1. HALF \in Nat \ {0}
  BY PrintfAssumption
<1>2. PICK w \in Nat \ {0} : w = 2 * HALF
  BY <1>1
<1>3. \A n \in Int : n % w \in 0..(w - 1)
  BY ONLY <1>2
<1>4. \A n \in 0..(w - 1) : n % w = n
  BY Wraps
<1> QED BY <1>1, <1>2, <1>3, <1>4 DEF Unsigned

\* The magnitude of a negative word, the least one included.
LEMMA Negated ==
  ASSUME NEW n \in -HALF..(-1) PROVE Magnitude(n) = -n /\ -n \in 0..(2 * HALF - 1)
<1>1. HALF \in Nat \ {0}
  BY PrintfAssumption
<1>2. PICK w \in Nat \ {0} : w = 2 * HALF
  BY <1>1
<1>3. -n \in 1..HALF /\ n < 0 /\ -n \in 0..(w - 1)
  BY <1>1, <1>2
<1>4. CASE -n < HALF
  <2>1. (-n) + HALF \in Nat /\ (-n) + HALF < w
    BY ONLY <1>1, <1>2, <1>3, <1>4
  <2>2. ((-n) + HALF) % w = (-n) + HALF
    BY <2>1, Wraps
  <2>3. Word(-n) = -n
    BY <2>2, <1>1, <1>2, <1>3 DEF Word
  <2>4. Unsigned(-n) = -n
    BY <1>3, <1>2, Words2
  <2> QED BY <2>3, <2>4, <1>3, <1>2 DEF Magnitude
<1>5. CASE ~(-n < HALF)
  <2>1. -n = HALF
    BY ONLY <1>1, <1>3, <1>5
  <2>2. w % w = 0
    BY ONLY w \in Nat \ {0}
  <2>3. Word(-n) = -HALF
    <3>1. (-n) + HALF = w
      BY <2>1, <1>1, <1>2
    <3> QED BY <3>1, <2>2, <1>1, <1>2 DEF Word
  <2>4. (-HALF) % w = HALF
    <3>1. -HALF = w * (-1) + HALF /\ HALF \in 0..(w - 1)
      BY ONLY <1>1, <1>2
    <3> QED BY ONLY <3>1, <1>1, w \in Nat \ {0}
  <2>5. Unsigned(Word(-n)) = -n
    BY <2>1, <2>3, <2>4, <1>2 DEF Unsigned
  <2> QED BY <2>5, <1>3, <1>2 DEF Magnitude
<1> QED BY <1>4, <1>5, <1>3

\* The paddings of a field: what is left of its width goes to one side.
Padded(room, left, zero, lead, pad, trail) ==
  /\ lead = IF ~left /\ ~zero THEN room ELSE 0
  /\ pad = IF zero THEN room ELSE 0
  /\ trail = IF left THEN room ELSE 0

LEMMA PaddedIs ==
  ASSUME NEW room \in Nat, NEW left \in BOOLEAN, NEW zero \in BOOLEAN, ~(left /\ zero),
         NEW lead, NEW pad, NEW trail, Padded(room, left, zero, lead, pad, trail)
  PROVE  /\ lead \in Nat /\ pad \in Nat /\ trail \in Nat
         /\ lead + pad + trail = room
         /\ IF left THEN lead = 0 /\ pad = 0 ELSE trail = 0
<1>1. CASE left
  BY <1>1 DEF Padded
<1>2. CASE ~left /\ zero
  BY <1>2 DEF Padded
<1>3. CASE ~left /\ ~zero
  BY <1>3 DEF Padded
<1> QED BY <1>1, <1>2, <1>3

LEMMA RoomIs ==
  ASSUME NEW size \in Int, NEW s \in Nat, NEW prefix \in Nat, NEW many \in Nat,
         NEW room, room = Larger(0, SizeLeft(size, s, prefix, many))
  PROVE  room \in Nat /\ room + s + prefix + many = Larger(size, s + prefix + many)
BY DEF Larger, SizeLeft

SignOf(signed, arg, type) ==
  CASE signed /\ arg < 0 -> "-"
    [] ~(signed /\ arg < 0) /\ "+" \in type -> "+"
    [] ~(signed /\ arg < 0) /\ "+" \notin type /\ " " \in type -> " "
    [] OTHER -> ""

LEMMA SignIs ==
  ASSUME NEW signed \in BOOLEAN, NEW arg \in Int, NEW type
  PROVE  /\ SignOf(signed, arg, type) \in {"", "-", "+", " "}
         /\ SignOf(signed, arg, type) = "-" <=> signed /\ arg < 0
<1>1. CASE signed /\ arg < 0
  BY <1>1 DEF SignOf
<1>2. CASE ~(signed /\ arg < 0)
  <2>1. CASE "+" \in type
    BY <1>2, <2>1 DEF SignOf
  <2>2. CASE "+" \notin type /\ " " \in type
    BY <1>2, <2>2 DEF SignOf
  <2>3. CASE "+" \notin type /\ " " \notin type
    BY <1>2, <2>3 DEF SignOf
  <2> QED BY <2>1, <2>2, <2>3
<1> QED BY <1>1, <1>2

Arg == -HALF..(HALF - 1)

LEMMA ValueIs ==
  ASSUME NEW arg \in Arg, NEW signed \in BOOLEAN, NEW value,
         value = IF signed THEN Magnitude(arg) ELSE Unsigned(arg)
  PROVE  /\ value \in 0..(2 * HALF - 1)
         /\ signed => arg = IF arg < 0 THEN -value ELSE value
         /\ ~signed => Unsigned(arg) = value
<1>1. HALF \in Nat \ {0} /\ arg \in Int
  BY PrintfAssumption DEF Arg
<1>2. CASE ~signed
  BY <1>1, <1>2, Words2
<1>3. CASE signed /\ arg < 0
  <2>1. arg \in -HALF..(-1)
    BY <1>1, <1>3 DEF Arg
  <2>2. value = -arg /\ -arg \in 0..(2 * HALF - 1)
    BY <2>1, <1>3, Negated
  <2> QED BY <2>2, <1>1, <1>3
<1>4. CASE signed /\ ~(arg < 0)
  <2>1. value = arg
    BY <1>4 DEF Magnitude
  <2>2. arg \in 0..(2 * HALF - 1)
    BY <1>1, <1>4 DEF Arg
  <2> QED BY <2>1, <2>2, <1>1, <1>4
<1> QED BY <1>2, <1>3, <1>4

LEMMA NumberGood ==
  ASSUME NEW arg \in Arg, NEW conv \in Numbers, NEW size \in Int, NEW prec \in Int,
         NEW type \in SUBSET Flags
  PROVE  GoodField(Number(arg, conv, size, prec, type))
<1>0. HALF \in Nat \ {0} /\ arg \in Int
  BY PrintfAssumption DEF Arg
<1>1. PICK signed \in BOOLEAN : signed = (conv \in {"d", "i"})
  <2>1. (conv \in {"d", "i"}) \in BOOLEAN
    OBVIOUS
  <2> QED BY <2>1, Zenon
<1>2. PICK base \in Bases : base = Base(conv)
  <2>1. Base(conv) \in Bases
    BY DEF Base, Bases
  <2> QED BY <2>1
<1>3. PICK sign : sign = SignOf(signed, arg, type)
  OBVIOUS
<1>4. sign \in {"", "-", "+", " "} /\ (sign = "-" <=> signed /\ arg < 0)
  BY <1>0, <1>3, SignIs
<1>5. PICK prefix \in Nat :
        prefix = IF "#" \notin type THEN 0 ELSE IF base = 16 THEN 2 ELSE IF base = 8 THEN 1 ELSE 0
  OBVIOUS
<1>6. PICK value : value = IF signed THEN Magnitude(arg) ELSE Unsigned(arg)
  OBVIOUS
<1>7. /\ value \in 0..(2 * HALF - 1)
      /\ signed => arg = IF arg < 0 THEN -value ELSE value
      /\ ~signed => Unsigned(arg) = value
  BY <1>6, ValueIs
<1>8. PICK len \in Nat : len = Digits(value, base)
  BY <1>7, DigitsCount
<1>9. PICK many \in Nat : many = Larger(prec, len)
  BY DEF Larger
<1>10. many >= prec /\ many - len \in Nat
  BY <1>9 DEF Larger
<1>11. PICK s \in Nat : s = IF sign = "" THEN 0 ELSE 1
  OBVIOUS
<1>12. PICK room : room = Larger(0, SizeLeft(size, s, prefix, many))
  OBVIOUS
<1>13. room \in Nat /\ room + s + prefix + many = Larger(size, s + prefix + many)
  BY ONLY <1>12, RoomIs, s \in Nat, prefix \in Nat, many \in Nat, size \in Int
<1>14. PICK left \in BOOLEAN : left = ("-" \in type)
  <2>1. ("-" \in type) \in BOOLEAN
    OBVIOUS
  <2> QED BY <2>1, Zenon
<1>15. PICK zero \in BOOLEAN : zero = ("0" \in type /\ ~left)
  <2>1. ("0" \in type /\ ~left) \in BOOLEAN
    OBVIOUS
  <2> QED BY <2>1, Zenon
<1>16. PICK lead, pad, trail : Padded(room, left, zero, lead, pad, trail)
  BY DEF Padded
<1>17. /\ lead \in Nat /\ pad \in Nat /\ trail \in Nat
       /\ lead + pad + trail = room
       /\ IF left THEN lead = 0 /\ pad = 0 ELSE trail = 0
  <2>1. ~(left /\ zero)
    BY <1>15
  <2> QED BY ONLY <2>1, <1>13, <1>16, left \in BOOLEAN, zero \in BOOLEAN, PaddedIs
<1>18. PICK kind \in {"signed", "unsigned"} : kind = IF signed THEN "signed" ELSE "unsigned"
  OBVIOUS
<1>19. PICK zeros \in Nat : zeros = many - len
  BY <1>10
<1>20. PICK f : f = Number(arg, conv, size, prec, type)
  OBVIOUS
<1>21. FieldIs(f, kind, arg, size, prec, left, lead, sign, prefix, pad, zeros, value, len, trail)
  <2>1. f.kind = kind /\ f.arg = arg /\ f.width = size /\ f.precision = prec
    BY <1>1, <1>18, <1>20 DEF Number
  <2>2. f.left = left
    BY <1>14, <1>20 DEF Number
  <2>3. f.sign = sign
    BY <1>1, <1>3, <1>20 DEF Number, SignOf
  <2>4. f.prefix = prefix
    BY <1>2, <1>5, <1>20 DEF Number
  <2>5. f.value = value /\ f.len = len /\ f.zeros = zeros
    BY <1>1, <1>2, <1>6, <1>8, <1>9, <1>19, <1>20 DEF Number
  <2>6. PICK gap : gap = Larger(0, SizeLeft(size, IF f.sign = "" THEN 0 ELSE 1, f.prefix,
                                            Larger(prec, f.len)))
    OBVIOUS
  <2>7. gap = room
    BY <2>3, <2>4, <2>5, <2>6, <1>9, <1>11, <1>12
  <2>8. /\ f.lead = IF ~f.left /\ ~("0" \in type /\ ~f.left) THEN gap ELSE 0
        /\ f.pad = IF "0" \in type /\ ~f.left THEN gap ELSE 0
        /\ f.trail = IF f.left THEN gap ELSE 0
    BY <2>6, <1>20 DEF Number
  <2>9. f.lead = lead /\ f.pad = pad /\ f.trail = trail
    BY <2>2, <2>7, <2>8, <1>15, <1>16 DEF Padded
  <2>10. f = [kind |-> f.kind, arg |-> f.arg, width |-> f.width, precision |-> f.precision,
              left |-> f.left, lead |-> f.lead, sign |-> f.sign, prefix |-> f.prefix,
              pad |-> f.pad, zeros |-> f.zeros, value |-> f.value, len |-> f.len,
              trail |-> f.trail]
    BY <1>20 DEF Number
  <2> QED BY <2>1, <2>2, <2>3, <2>4, <2>5, <2>9, <2>10 DEF FieldIs
<1>22. /\ f \in FieldRec
       /\ Parts13(f, kind, arg, size, prec, left, lead, sign, prefix, pad, zeros, value, len, trail)
  <2>1. value \in Int
    BY <1>0, <1>7
  <2>2. /\ kind \in {"text", "signed", "unsigned", "char", "string"} /\ arg \in Int
        /\ sign \in {"", "-", "+", " "} /\ lead \in Nat /\ pad \in Nat /\ trail \in Nat
    BY <1>0, <1>4, <1>17
  <2>3. f \in FieldRec
    BY ONLY <2>1, <2>2, <1>21, size \in Int, prec \in Int, left \in BOOLEAN, prefix \in Nat,
            zeros \in Nat, len \in Nat DEF FieldIs, FieldRec
  <2>4. Parts13(f, kind, arg, size, prec, left, lead, sign, prefix, pad, zeros, value, len, trail)
    BY ONLY <1>21 DEF FieldIs, Parts13
  <2> QED BY <2>3, <2>4
<1>23. Bare(f) = s + prefix + many
  <2>1. Bare(f) = s + prefix + zeros + len
    BY <1>11, <1>22 DEF Bare, Parts13
  <2> QED BY ONLY <2>1, <1>19, many \in Nat, len \in Nat, s \in Nat, prefix \in Nat
<1>24. Fits(f)
  <2>1. f.lead + f.pad + f.trail + Bare(f) = Larger(f.width, Bare(f))
    <3>1. f.lead = lead /\ f.pad = pad /\ f.trail = trail /\ f.width = size
      BY <1>22 DEF Parts13
    <3>2. lead + pad + trail + (s + prefix + many) = Larger(size, s + prefix + many)
      <4>1. lead + pad + trail + (s + prefix + many) = room + s + prefix + many
        BY ONLY <1>17, <1>13, s \in Nat, prefix \in Nat, many \in Nat
      <4> QED BY <4>1, <1>13
    <3> QED BY <3>1, <3>2, <1>23
  <2>2. IF f.left THEN f.lead = 0 /\ f.pad = 0 ELSE f.trail = 0
    BY <1>17, <1>22 DEF Parts13
  <2>3. f.zeros + f.len >= f.precision
    <3>1. f.zeros = zeros /\ f.len = len /\ f.precision = prec
      BY <1>22 DEF Parts13
    <3>2. zeros + len >= prec
      BY ONLY <1>10, <1>19, many \in Nat, len \in Nat, prec \in Int
    <3> QED BY <3>1, <3>2
  <2> QED BY <2>1, <2>2, <2>3 DEF Fits
<1>25. Reads2(f)
  BY <1>0, <1>4, <1>7, <1>18, <1>22 DEF Reads2, Parts13
<1> QED BY <1>20, <1>22, <1>24, <1>25 DEF GoodField

LEMMA TextGood ==
  ASSUME NEW kind \in {"char", "string"}, NEW arg \in Int, NEW len \in Nat, width \in Int
  PROVE  GoodField(Text(kind, arg, len))
<1>1. PICK size \in Int : size = width
  OBVIOUS
<1>2. PICK room : room = Larger(0, size - len)
  OBVIOUS
<1>3. room \in Nat /\ room + len = Larger(size, len)
  BY ONLY <1>2, size \in Int, len \in Nat DEF Larger
<1>4. PICK left \in BOOLEAN : left = ("-" \in flags)
  <2>1. ("-" \in flags) \in BOOLEAN
    OBVIOUS
  <2> QED BY <2>1, Zenon
<1>5. PICK lead, trail : /\ lead = IF left THEN 0 ELSE room
                         /\ trail = IF left THEN room ELSE 0
  OBVIOUS
<1>6. /\ lead \in Nat /\ trail \in Nat /\ lead + trail = room
      /\ IF left THEN lead = 0 ELSE trail = 0
  BY <1>3, <1>5
<1>7. PICK f : f = Text(kind, arg, len)
  OBVIOUS
<1>8. FieldIs(f, kind, arg, size, -1, left, lead, "", 0, 0, 0, 0, len, trail)
  <2>1. /\ f.kind = kind /\ f.arg = arg /\ f.width = size /\ f.precision = -1 /\ f.left = left
        /\ f.sign = "" /\ f.prefix = 0 /\ f.pad = 0 /\ f.zeros = 0 /\ f.value = 0 /\ f.len = len
    BY <1>1, <1>4, <1>7 DEF Text, Blank
  <2>2. f.lead = lead /\ f.trail = trail
    BY <1>1, <1>2, <1>4, <1>5, <1>7 DEF Text, Blank
  <2>3. f = [kind |-> f.kind, arg |-> f.arg, width |-> f.width, precision |-> f.precision,
             left |-> f.left, lead |-> f.lead, sign |-> f.sign, prefix |-> f.prefix,
             pad |-> f.pad, zeros |-> f.zeros, value |-> f.value, len |-> f.len,
             trail |-> f.trail]
    BY <1>7 DEF Text, Blank
  <2> QED BY <2>1, <2>2, <2>3 DEF FieldIs
<1>9. f \in FieldRec
  <2>1. -1 \in Int /\ 0 \in Int /\ 0 \in Nat
    OBVIOUS
  <2> QED BY ONLY <2>1, <1>6, <1>8, kind \in {"char", "string"}, arg \in Int, size \in Int,
                  left \in BOOLEAN, len \in Nat DEF FieldIs, FieldRec
<1>10. Parts13(f, kind, arg, size, -1, left, lead, "", 0, 0, 0, 0, len, trail)
  BY ONLY <1>8 DEF FieldIs, Parts13
<1>11. Bare(f) = len
  <2>1. f.sign = "" /\ f.prefix = 0 /\ f.zeros = 0 /\ f.len = len
    BY <1>10 DEF Parts13
  <2>2. Bare(f) = 0 + 0 + 0 + len
    BY <2>1 DEF Bare
  <2> QED BY ONLY <2>2, len \in Nat
<1>12. Fits(f)
  <2>1. f.lead + f.pad + f.trail + Bare(f) = Larger(f.width, Bare(f))
    <3>1. f.lead = lead /\ f.pad = 0 /\ f.trail = trail /\ f.width = size
      BY <1>10 DEF Parts13
    <3>2. lead + 0 + trail + len = Larger(size, len)
      BY ONLY <1>3, <1>6, len \in Nat
    <3> QED BY ONLY <3>1, <3>2, <1>11
  <2> QED BY <2>1, <1>6, <1>10 DEF Fits, Parts13
<1>13. Reads2(f)
  BY <1>10 DEF Reads2, Parts13
<1> QED BY <1>7, <1>9, <1>12, <1>13 DEF GoodField

LEMMA StringIs ==
  ASSUME NEW arg \in Arg, precision \in Int PROVE StringLength(arg) \in Nat
<1>1. HALF \in Nat \ {0} /\ arg \in Int
  BY PrintfAssumption DEF Arg
<1>2. Unsigned(arg) \in 0..(2 * HALF - 1)
  BY <1>1, Words2
<1>3. PICK u \in Nat : u = Unsigned(arg)
  BY <1>2
<1> QED BY <1>3 DEF StringLength, NULLTEXT

LEMMA FieldGood ==
  ASSUME NEW conv \in Conversions, conv # "n", NEW arg \in Arg, width \in Int,
         precision \in Int, flags \subseteq Flags
  PROVE  GoodField(Field(conv, arg))
<1>0. arg \in Int
  BY PrintfAssumption DEF Arg
<1>1. CASE conv \in Numbers
  <2>1. GoodField(Number(arg, conv, width, precision, flags))
    BY <1>1, NumberGood
  <2>2. GoodField(Number(arg, conv, 8, precision, flags \cup {"0"}))
    <3>1. flags \cup {"0"} \in SUBSET Flags
      BY DEF Flags
    <3>2. 8 \in Int
      OBVIOUS
    <3> QED BY ONLY <1>1, <3>1, <3>2, NumberGood, arg \in Arg, precision \in Int
  <2>3. \/ Field(conv, arg) = Number(arg, conv, width, precision, flags)
        \/ Field(conv, arg) = Number(arg, conv, 8, precision, flags \cup {"0"})
    <3>1. conv # "c" /\ conv # "s"
      BY <1>1 DEF Numbers
    <3>2. CASE conv = "p" /\ width = -1
      BY <1>1, <3>1, <3>2 DEF Field
    <3>3. CASE ~(conv = "p" /\ width = -1)
      BY <1>1, <3>1, <3>3 DEF Field
    <3> QED BY <3>2, <3>3
  <2> QED BY ONLY <2>1, <2>2, <2>3
<1>2. CASE conv = "c"
  <2>1. GoodField(Text("char", arg, 1))
    BY <1>0, TextGood
  <2>2. Field(conv, arg) = Text("char", arg, 1)
    BY <1>2 DEF Field, Numbers
  <2> QED BY <2>1, <2>2
<1>3. CASE conv = "s"
  <2>1. StringLength(arg) \in Nat
    BY StringIs
  <2>2. GoodField(Text("string", arg, StringLength(arg)))
    BY <1>0, <2>1, TextGood
  <2>3. Field(conv, arg) = Text("string", arg, StringLength(arg))
    BY <1>3 DEF Field, Numbers
  <2> QED BY <2>2, <2>3
<1> QED BY <1>1, <1>2, <1>3 DEF Conversions

LEMMA BlankGood == GoodField(Blank)
BY DEF GoodField, Blank, FieldRec

-----------------------------------------------------------------------------
(* Formatted output: the numbers in a format *)

LEMMA Chars ==
  ASSUME fmt \in Seq(STRING), NEW i \in Nat \ {0}
  PROVE  /\ i \in 1..Len(fmt) => Ch(i) = fmt[i]
         /\ i \notin 1..Len(fmt) => Ch(i) = NUL
         /\ Ch(i) # NUL => i \in 1..Len(fmt)
         /\ Len(fmt) \in Nat
<1>1. PICK n \in Nat : n = Len(fmt)
  OBVIOUS
<1>2. i <= n <=> i \in 1..n
  BY ONLY n \in Nat, i \in Nat \ {0}
<1> QED BY <1>1, <1>2 DEF Ch

LEMMA NotDigital == /\ NUL \notin DOMAIN DigitValue
                    /\ "*" \notin DOMAIN DigitValue
                    /\ "." \notin DOMAIN DigitValue
                    /\ \A c \in DOMAIN DigitValue : DigitValue[c] \in Nat
BY DEF DigitValue, NUL

LEMMA AtoiEnds ==
  ASSUME fmt \in Seq(STRING), NEW i \in 1..(Len(fmt) + 1)
  PROVE  /\ Atoi(i).end \in i..(Len(fmt) + 1) /\ ~Digital(Atoi(i).end)
         /\ \A k \in i..(Atoi(i).end - 1) : Digital(k)
<1>1. PICK n \in Nat : n = Len(fmt)
  OBVIOUS
<1>2. i \in 1..(n + 1)
  BY <1>1
<1> DEFINE Q(j) == ~Digital(j) /\ \A k \in i..(j - 1) : Digital(k)
           T == {j \in i..(n + 1) : ~Digital(j)}
<1>3. n + 1 \in T
  <2>1. n + 1 \notin 1..n /\ n + 1 \in i..(n + 1) /\ n + 1 \in Nat \ {0}
    BY ONLY n \in Nat, <1>2
  <2>2. Ch(n + 1) = NUL
    BY ONLY <2>1, <1>1, Chars, fmt \in Seq(STRING)
  <2> QED BY <2>1, <2>2, NotDigital DEF Digital
<1>4. PICK m \in T : \A k \in T : m <= k
  <2>1. T \subseteq Nat /\ T # {}
    BY <1>2, <1>3
  <2> HIDE DEF T
  <2> QED BY <2>1, LeastNatural
<1>5. m \in i..(n + 1) /\ Q(m)
  <2>1. ASSUME NEW k \in i..(m - 1) PROVE Digital(k)
    <3>1. k \in i..(n + 1) /\ ~(m <= k)
      BY <1>2, <1>4
    <3> QED BY <3>1, <1>4
  <2> QED BY <2>1, <1>4
<1>6. PICK e : e = CHOOSE j \in i..(n + 1) : Q(j)
  OBVIOUS
<1>7. e \in i..(n + 1) /\ Q(e)
  <2>1. \E j \in i..(n + 1) : Q(j)
    BY <1>5
  <2> HIDE DEF Q
  <2> QED BY <2>1, <1>6, Zenon
<1>8. Atoi(i).end = e
  BY <1>1, <1>6 DEF Atoi
<1> QED BY <1>1, <1>7, <1>8

ValueEquation(v, n, g) ==
  v = [k \in 0..n |-> IF k = 0 THEN 0 ELSE 10 * v[k - 1] + g[k]]

LEMMA ValueExists ==
  ASSUME NEW n \in Nat, NEW g \in [1..n -> Nat]
  PROVE  \E v : ValueEquation(v, n, g)
<1> DEFINE h == [p \in Nat \X (1..n) |-> 10 * p[1] + g[p[2]]]
<1>1. h \in [Nat \X (1..n) -> Nat]
  OBVIOUS
<1>2. \A x \in Nat : \A k \in 1..n : h[<<x, k>>] = 10 * x + g[k]
  OBVIOUS
<1> HIDE DEF h
<1>3. PICK v : Iterated(v, 0, h, n, Nat)
  <2>1. 0 \in Nat
    OBVIOUS
  <2> QED BY <1>1, <2>1, Iterates
<1>4. v \in [0..n -> Nat] /\ v[0] = 0 /\ \A k \in 1..n : v[k] = h[<<v[k - 1], k>>]
  BY <1>3 DEF Iterated
<1>5. ASSUME NEW k \in 0..n PROVE v[k] = IF k = 0 THEN 0 ELSE 10 * v[k - 1] + g[k]
  <2>1. CASE k = 0
    BY <1>4, <2>1
  <2>2. CASE k # 0
    <3>1. k \in 1..n /\ k - 1 \in 0..n
      BY <2>2
    <3>2. v[k - 1] \in Nat
      BY <1>4, <3>1
    <3> QED BY <1>2, <1>4, <2>2, <3>1, <3>2
  <2> QED BY <2>1, <2>2
<1>6. v = [k \in 0..n |-> v[k]]
  BY <1>4
<1>7. ValueEquation(v, n, g)
  BY <1>5, <1>6 DEF ValueEquation
<1> QED BY <1>7

LEMMA ValueNat ==
  ASSUME NEW n \in Nat, NEW g \in [1..n -> Nat], NEW v, ValueEquation(v, n, g)
  PROVE  v[n] \in Nat
<1>1. \A k \in 0..n : v[k] = IF k = 0 THEN 0 ELSE 10 * v[k - 1] + g[k]
  BY DEF ValueEquation
<1> DEFINE T == {k \in 0..n : v[k] \in Nat}
<1>2. 0 \in T
  BY <1>1
<1>3. ASSUME NEW k \in 0..(n - 1), k \in T PROVE k + 1 \in T
  <2>1. k + 1 \in 1..n /\ (k + 1) - 1 = k /\ k + 1 # 0 /\ k + 1 \in 0..n
    OBVIOUS
  <2>2. v[k + 1] = 10 * v[k] + g[k + 1]
    BY <1>1, <2>1
  <2>3. v[k] \in Nat /\ g[k + 1] \in Nat
    BY <1>3, <2>1
  <2> QED BY <2>1, <2>2, <2>3
<1>4. 0..n \subseteq T
  <2> HIDE DEF T
  <2> QED BY <1>2, <1>3, UpTo
<1> QED BY <1>4

LEMMA AtoiCounts ==
  ASSUME fmt \in Seq(STRING), NEW i \in 1..(Len(fmt) + 1)
  PROVE  Atoi(i).value \in Nat
<1>1. PICK e : e = Atoi(i).end
  OBVIOUS
<1>2. e \in i..(Len(fmt) + 1) /\ \A k \in i..(e - 1) : Digital(k)
  BY <1>1, AtoiEnds
<1>3. PICK n \in Nat : n = e - i
  BY <1>2
<1>4. PICK g : g = [k \in 1..n |-> DigitValue[fmt[i + k - 1]]]
  OBVIOUS
<1>5. g \in [1..n -> Nat]
  <2>1. ASSUME NEW k \in 1..n PROVE DigitValue[fmt[i + k - 1]] \in Nat
    <3>1. i + k - 1 \in i..(e - 1) /\ i + k - 1 \in Nat \ {0} /\ i + k - 1 \in 1..Len(fmt)
      BY <1>2, <1>3
    <3>2. Digital(i + k - 1) /\ Ch(i + k - 1) = fmt[i + k - 1]
      BY <3>1, <1>2, Chars
    <3> QED BY <3>2, NotDigital DEF Digital
  <2> QED BY <2>1, <1>4
<1> DEFINE v == CHOOSE v : v = [k \in 0..n |->
                  IF k = 0 THEN 0 ELSE 10 * v[k - 1] + DigitValue[fmt[i + k - 1]]]
<1>6. ValueEquation(v, n, g)
  <2>1. PICK u : ValueEquation(u, n, g)
    BY <1>5, ValueExists
  <2>2. u = [k \in 0..n |-> IF k = 0 THEN 0 ELSE 10 * u[k - 1] + DigitValue[fmt[i + k - 1]]]
    <3>1. \A k \in 0..n : k # 0 => g[k] = DigitValue[fmt[i + k - 1]]
      BY <1>4
    <3> QED BY <2>1, <3>1 DEF ValueEquation
  <2>3. v = [k \in 0..n |-> IF k = 0 THEN 0 ELSE 10 * v[k - 1] + DigitValue[fmt[i + k - 1]]]
    BY <2>2
  <2> HIDE DEF v
  <2>4. \A k \in 0..n : k # 0 => g[k] = DigitValue[fmt[i + k - 1]]
    BY <1>4
  <2> QED BY <2>3, <2>4 DEF ValueEquation
<1>7. Atoi(i).value = v[n]
  BY <1>1, <1>3 DEF Atoi
<1> HIDE DEF v
<1> QED BY <1>5, <1>6, <1>7, ValueNat

-----------------------------------------------------------------------------
(* Formatted output: a format is read once *)

Behind(i) == {k \in Converted(fmt) : k < i}

CallTypes ==
  /\ fmt \in Seq(STRING) /\ args \in Seq(Arg)
  /\ \A i \in 1..Len(fmt) : fmt[i] # "*"
  /\ Cardinality(Converted(fmt)) <= Len(args)
ReadTypes ==
  /\ at \in 1..(Len(fmt) + 1) /\ step \in {"text", "flags", "width", "precision", "convert"}
  /\ flags \subseteq Flags /\ width \in Int /\ precision \in Int
\* An argument is taken for each conversion at most.
TakenInv ==
  /\ taken \in Nat /\ taken <= Cardinality(Behind(at))
  /\ step # "text" => \E j \in 1..(at - 1) : fmt[j] = "%"
GoodFields == {f \in FieldRec : GoodField(f)}
OutInv == out \in Seq(GoodFields)

\* A directive up to n: flags before a, a width before b, a precision before d.
Shape(f, a, b, d, n) ==
  /\ n = Len(f) /\ a \in 2..n /\ b \in a..n /\ d \in b..n
  /\ f[1] = "%"
  /\ \A i \in 2..(a - 1) : f[i] \in Flags
  /\ f[a] \notin Flags
  /\ \A i \in a..(b - 1) : f[i] \in DOMAIN DigitValue
  /\ f[b] \notin DOMAIN DigitValue
  /\ (b = d) <=> f[b] # "."
  /\ \A i \in (b + 1)..(d - 1) : f[i] \in DOMAIN DigitValue
  /\ f[d] \notin DOMAIN DigitValue
  /\ IF f[d] \in Qualifiers THEN d + 1 = n ELSE d = n
  /\ f[n] \in Conversions
\* Where the reading of one is.
Aligned(a, b, d, n) ==
  \/ step = "text" /\ at = 1 /\ taken = 0 /\ out = <<>>
  \/ step = "flags" /\ at \in 2..a /\ taken = 0 /\ out = <<>>
  \/ step = "width" /\ at = a /\ taken = 0 /\ out = <<>>
  \/ step = "precision" /\ at = b /\ taken = 0 /\ out = <<>>
  \/ step = "convert" /\ at = d /\ taken = 0 /\ out = <<>>
  \/ step = "text" /\ at = n + 1 /\ taken = 1 /\ Len(out) = (IF fmt[n] = "n" THEN 0 ELSE 1)
ShapeInv == \A a, b, d, n \in Nat : Shape(fmt, a, b, d, n) => Aligned(a, b, d, n)

FormatsInv == CallTypes /\ ReadTypes /\ TakenInv /\ OutInv /\ ShapeInv

LEMMA BehindIs ==
  ASSUME fmt \in Seq(STRING), NEW i \in Nat
  PROVE  /\ Behind(i) \subseteq Converted(fmt) /\ IsFiniteSet(Converted(fmt))
         /\ Cardinality(Behind(i)) \in Nat /\ Cardinality(Converted(fmt)) \in Nat
         /\ Cardinality(Behind(i)) <= Cardinality(Converted(fmt))
<1>1. PICK n \in Nat : n = Len(fmt) /\ DOMAIN fmt = 1..n
  OBVIOUS
<1>2. IsFiniteSet(1..n)
  BY FS_Interval
<1>3. Converted(fmt) \subseteq 1..n
  BY <1>1 DEF Converted
<1>4. IsFiniteSet(Converted(fmt))
  BY <1>2, <1>3, FS_Subset
<1>5. Behind(i) \subseteq Converted(fmt)
  BY DEF Behind
<1>6. IsFiniteSet(Behind(i)) /\ Cardinality(Behind(i)) <= Cardinality(Converted(fmt))
  BY <1>4, <1>5, FS_Subset
<1> QED BY <1>4, <1>5, <1>6, FS_CardinalityType

LEMMA BehindGrows ==
  ASSUME fmt \in Seq(STRING), NEW i \in Nat, NEW j \in Nat, i <= j
  PROVE  Cardinality(Behind(i)) <= Cardinality(Behind(j))
<1>1. Behind(i) \subseteq Behind(j)
  <2>1. \A k \in Converted(fmt) : k \in Nat
    BY DEF Converted
  <2> QED BY <2>1 DEF Behind
<1>2. IsFiniteSet(Behind(j))
  BY BehindIs, FS_Subset
<1> QED BY <1>1, <1>2, FS_Subset

LEMMA BehindOne ==
  ASSUME fmt \in Seq(STRING), NEW i \in Nat, i \in Converted(fmt)
  PROVE  Cardinality(Behind(i + 1)) >= Cardinality(Behind(i)) + 1
<1>1. i \notin Behind(i) /\ Behind(i) \cup {i} \subseteq Behind(i + 1)
  <2>1. \A k \in Converted(fmt) : k \in Nat
    BY DEF Converted
  <2>2. ~(i < i) /\ i < i + 1 /\ \A k \in Nat : k < i => k < i + 1
    OBVIOUS
  <2>3. \A k \in Behind(i) : k \in Converted(fmt) /\ k < i
    BY DEF Behind
  <2>4. \A k \in Converted(fmt) : k < i + 1 => k \in Behind(i + 1)
    BY DEF Behind
  <2> QED BY <2>1, <2>2, <2>3, <2>4
<1>2. IsFiniteSet(Behind(i)) /\ IsFiniteSet(Behind(i + 1))
  <2>1. i + 1 \in Nat
    OBVIOUS
  <2> QED BY <2>1, BehindIs, FS_Subset
<1>3. Cardinality(Behind(i) \cup {i}) = Cardinality(Behind(i)) + 1
  BY <1>1, <1>2, FS_AddElement
<1>4. Cardinality(Behind(i) \cup {i}) <= Cardinality(Behind(i + 1))
  BY <1>1, <1>2, FS_Subset
<1>5. Cardinality(Behind(i)) \in Nat /\ Cardinality(Behind(i + 1)) \in Nat
  BY <1>2, FS_CardinalityType
<1> QED BY <1>3, <1>4, <1>5

\* A step that takes nothing and only goes on.
GoesOn ==
  /\ fmt' = fmt /\ taken' = taken /\ at' \in Nat /\ at' >= at
  /\ \/ step # "text" \/ step' = "text"
     \/ fmt[at] = "%" /\ at' = at + 1

LEMMA TakenKept == ASSUME CallTypes, ReadTypes, TakenInv, GoesOn PROVE TakenInv'
<1>0. /\ fmt' = fmt /\ taken' = taken /\ at' \in Nat /\ at' >= at
      /\ \/ step # "text" \/ step' = "text"
         \/ fmt[at] = "%" /\ at' = at + 1
  BY DEF GoesOn
<1>1. fmt \in Seq(STRING) /\ at \in Nat /\ at \in 1..(Len(fmt) + 1)
  BY DEF CallTypes, ReadTypes
<1>2. Converted(fmt)' = Converted(fmt)
  BY <1>0 DEF Converted
<1>3. Behind(at)' = Behind(at')
  BY <1>2 DEF Behind
<1>4. PICK i \in Nat : i = at'
  BY <1>0
<1>5. /\ Cardinality(Behind(at)) <= Cardinality(Behind(i))
      /\ Cardinality(Behind(at)) \in Nat /\ Cardinality(Behind(i)) \in Nat
  BY <1>0, <1>1, <1>4, BehindGrows, BehindIs
<1>6. taken' \in Nat /\ taken' <= Cardinality(Behind(i))
  BY <1>0, <1>5 DEF TakenInv
<1>7. ASSUME step' # "text" PROVE \E j \in 1..(i - 1) : fmt[j] = "%"
  <2>1. CASE step # "text"
    <3>1. PICK j \in 1..(at - 1) : fmt[j] = "%"
      BY <2>1 DEF TakenInv
    <3>2. i >= at
      BY <1>0, <1>4
    <3>3. j \in 1..(i - 1)
      BY ONLY <1>1, <3>2, i \in Nat, j \in 1..(at - 1)
    <3> QED BY <3>1, <3>3
  <2>2. CASE fmt[at] = "%" /\ at' = at + 1
    <3>1. at \in 1..(i - 1)
      BY <1>1, <1>4, <2>2
    <3> QED BY <2>2, <3>1
  <2> QED BY <1>0, <1>7, <2>1, <2>2
<1> QED BY <1>0, <1>3, <1>4, <1>6, <1>7 DEF TakenInv

LEMMA CallKept == ASSUME CallTypes, fmt' = fmt, args' = args PROVE CallTypes'
BY DEF CallTypes, Converted

LEMMA ShapeChars ==
  ASSUME CallTypes, NEW a \in Nat, NEW b \in Nat, NEW d \in Nat, NEW n \in Nat, Shape(fmt, a, b, d, n)
  PROVE  /\ a \in 1..n /\ b \in 1..n /\ d \in 1..n /\ 1 \in 1..n /\ Len(fmt) = n
         /\ \A i \in 1..n : Ch(i) = fmt[i]
         /\ Ch(n + 1) = NUL
         /\ \A i \in 1..n : Ch(i) # "*"
<1>1. Len(fmt) = n /\ a \in 2..n /\ b \in a..n /\ d \in b..n
  BY DEF Shape
<1>2. a \in 1..n /\ b \in 1..n /\ d \in 1..n /\ 1 \in 1..n
  BY ONLY <1>1, n \in Nat
<1>3. \A i \in 1..n : Ch(i) = fmt[i]
  <2>1. ASSUME NEW i \in 1..n PROVE Ch(i) = fmt[i]
    BY <1>1, Chars DEF CallTypes
  <2> QED BY <2>1
<1>4. Ch(n + 1) = NUL
  <2>1. n + 1 \notin 1..n /\ n + 1 \in Nat \ {0}
    OBVIOUS
  <2> QED BY <2>1, <1>1, Chars DEF CallTypes
<1> QED BY <1>1, <1>2, <1>3, <1>4 DEF CallTypes

LEMMA FmtLiteral == ASSUME FormatsInv, Literal PROVE FormatsInv'
<1>1. /\ CallTypes /\ ReadTypes /\ fmt \in Seq(STRING) /\ at \in 1..(Len(fmt) + 1)
      /\ fmt' = fmt /\ args' = args /\ step' = step /\ at' = at + 1 /\ step = "text"
      /\ Ch(at) \notin {"%", NUL} /\ taken' = taken
  BY DEF FormatsInv, CallTypes, ReadTypes, Literal
<1>2. CallTypes'
  BY <1>1, CallKept
<1>3. at \in 1..Len(fmt) /\ at + 1 \in 1..(Len(fmt) + 1) /\ at \in Nat
  <2>1. at \in 1..Len(fmt)
    BY <1>1, Chars
  <2> QED BY <2>1, <1>1
<1>4. ReadTypes'
  BY <1>1, <1>3 DEF ReadTypes, Literal, dirVars
<1>5. TakenInv'
  <2>1. GoesOn
    BY <1>1, <1>3 DEF GoesOn
  <2> QED BY <1>1, <2>1, TakenKept DEF FormatsInv
<1>6. OutInv'
  BY BlankGood DEF FormatsInv, OutInv, Literal, GoodFields, GoodField
<1>7. ShapeInv'
  <2>1. ASSUME NEW a \in Nat, NEW b \in Nat, NEW d \in Nat, NEW n \in Nat, Shape(fmt, a, b, d, n)
        PROVE  FALSE
    <3>1. Aligned(a, b, d, n)
      BY <2>1 DEF FormatsInv, ShapeInv
    <3>2. at = 1 \/ at = n + 1
      BY <3>1, <1>1 DEF Aligned
    <3>3. Ch(1) = "%" /\ Ch(n + 1) = NUL
      BY <1>1, <2>1, ShapeChars DEF Shape
    <3> QED BY <1>1, <3>2, <3>3
  <2> QED BY <1>1, <2>1 DEF ShapeInv
<1> QED BY <1>2, <1>4, <1>5, <1>6, <1>7 DEF FormatsInv

LEMMA FmtBegin == ASSUME FormatsInv, Begin PROVE FormatsInv'
<1>1. /\ CallTypes /\ ReadTypes /\ fmt \in Seq(STRING) /\ at \in 1..(Len(fmt) + 1)
      /\ fmt' = fmt /\ args' = args /\ step' = "flags" /\ at' = at + 1 /\ step = "text"
      /\ Ch(at) = "%" /\ taken' = taken /\ out' = out
      /\ flags' = {} /\ width' = -1 /\ precision' = -1
  BY DEF FormatsInv, CallTypes, ReadTypes, Begin
<1>2. CallTypes'
  BY <1>1, CallKept
<1>3. at \in 1..Len(fmt) /\ at + 1 \in 1..(Len(fmt) + 1) /\ at \in Nat /\ fmt[at] = "%"
  <2>1. Ch(at) # NUL
    BY <1>1 DEF NUL
  <2>2. at \in 1..Len(fmt) /\ Ch(at) = fmt[at]
    BY <1>1, <2>1, Chars
  <2> QED BY <2>2, <1>1
<1>4. ReadTypes'
  BY <1>1, <1>3 DEF ReadTypes
<1>5. TakenInv'
  <2>1. GoesOn
    BY <1>1, <1>3 DEF GoesOn
  <2> QED BY <1>1, <2>1, TakenKept DEF FormatsInv
<1>6. OutInv'
  BY <1>1 DEF FormatsInv, OutInv
<1>7. ShapeInv'
  <2>1. ASSUME NEW a \in Nat, NEW b \in Nat, NEW d \in Nat, NEW n \in Nat, Shape(fmt, a, b, d, n)
        PROVE  Aligned(a, b, d, n)'
    <3>1. Aligned(a, b, d, n)
      BY <2>1 DEF FormatsInv, ShapeInv
    <3>2. Ch(n + 1) = NUL
      BY <1>1, <2>1, ShapeChars
    <3>3. at = 1 /\ taken = 0 /\ out = <<>>
      BY <3>1, <3>2, <1>1 DEF Aligned, NUL
    <3>4. 2 \in 2..a
      BY <2>1 DEF Shape
    <3> QED BY <3>3, <3>4, <1>1 DEF Aligned
  <2> QED BY <1>1, <2>1 DEF ShapeInv
<1> QED BY <1>2, <1>4, <1>5, <1>6, <1>7 DEF FormatsInv

LEMMA FmtFlag == ASSUME FormatsInv, Flag PROVE FormatsInv'
<1>1. /\ CallTypes /\ ReadTypes /\ fmt \in Seq(STRING) /\ at \in 1..(Len(fmt) + 1)
      /\ fmt' = fmt /\ args' = args /\ step = "flags" /\ taken' = taken /\ out' = out
      /\ width' = width /\ precision' = precision
  BY DEF FormatsInv, CallTypes, ReadTypes, Flag
<1>2. CallTypes'
  BY <1>1, CallKept
<1>3. \/ Ch(at) \in Flags /\ at' = at + 1 /\ flags' = flags \cup {Ch(at)} /\ step' = "flags"
      \/ Ch(at) \notin Flags /\ at' = at /\ flags' = flags /\ step' = "width"
  BY <1>1 DEF Flag
<1>4. at' \in 1..(Len(fmt) + 1) /\ at' \in Nat /\ at' >= at
  <2>1. CASE Ch(at) \in Flags
    <3>1. Ch(at) # NUL
      BY <2>1 DEF NUL, Flags
    <3>2. at \in 1..Len(fmt) /\ Len(fmt) \in Nat
      BY <3>1, <1>1, Chars
    <3> QED BY <3>2, <1>3, <2>1
  <2>2. CASE Ch(at) \notin Flags
    BY <1>1, <1>3, <2>2
  <2> QED BY <2>1, <2>2
<1>5. ReadTypes'
  <2>1. flags' \subseteq Flags /\ step' \in {"flags", "width"}
    BY <1>1, <1>3 DEF ReadTypes
  <2> QED BY <1>1, <1>4, <2>1 DEF ReadTypes
<1>6. TakenInv'
  <2>1. step # "text"
    BY <1>1
  <2>2. TakenInv
    BY DEF FormatsInv
  <2>3. GoesOn
    BY <1>1, <1>4, <2>1 DEF GoesOn
  <2> QED BY <1>1, <2>2, <2>3, TakenKept
<1>7. OutInv'
  BY <1>1 DEF FormatsInv, OutInv
<1>8. ShapeInv'
  <2>1. ASSUME NEW a \in Nat, NEW b \in Nat, NEW d \in Nat, NEW n \in Nat, Shape(fmt, a, b, d, n)
        PROVE  Aligned(a, b, d, n)'
    <3>1. Aligned(a, b, d, n)
      BY <2>1 DEF FormatsInv, ShapeInv
    <3>2. at \in 2..a /\ taken = 0 /\ out = <<>>
      BY <3>1, <1>1 DEF Aligned
    <3>3. a \in 1..n /\ at \in 1..n
      <4>1. a \in 1..n
        BY <1>1, <2>1, ShapeChars
      <4> QED BY <4>1, <3>2
    <3>4. Ch(at) = fmt[at]
      BY <1>1, <2>1, <3>3, ShapeChars
    <3>5. CASE Ch(at) \in Flags
      <4>1. at # a
        BY <2>1, <3>4, <3>5 DEF Shape
      <4>2. at + 1 \in 2..a
        BY <3>2, <4>1
      <4> QED BY <4>2, <1>1, <1>3, <3>2, <3>5 DEF Aligned
    <3>6. CASE Ch(at) \notin Flags
      <4>1. at \notin 2..(a - 1)
        BY <2>1, <3>4, <3>6 DEF Shape
      <4>2. at = a
        BY <3>2, <4>1
      <4> QED BY <4>2, <1>1, <1>3, <3>2, <3>6 DEF Aligned
    <3> QED BY <3>5, <3>6
  <2> QED BY <1>1, <2>1 DEF ShapeInv
<1> QED BY <1>2, <1>5, <1>6, <1>7, <1>8 DEF FormatsInv

\* A number in a directive ends where the digits do.
LEMMA AtoiIs ==
  ASSUME CallTypes, NEW i \in 1..(Len(fmt) + 1), NEW m \in i..Len(fmt),
         \A k \in i..(m - 1) : fmt[k] \in DOMAIN DigitValue, fmt[m] \notin DOMAIN DigitValue
  PROVE  Atoi(i).end = m
<1>1. fmt \in Seq(STRING) /\ Len(fmt) \in Nat
  BY DEF CallTypes
<1>2. PICK e : e = Atoi(i).end
  OBVIOUS
<1>3. e \in i..(Len(fmt) + 1) /\ ~Digital(e) /\ \A k \in i..(e - 1) : Digital(k)
  BY <1>1, <1>2, AtoiEnds
<1>4. \A k \in i..m : Ch(k) = fmt[k]
  <2>1. ASSUME NEW k \in i..m PROVE Ch(k) = fmt[k]
    <3>1. k \in 1..Len(fmt) /\ k \in Nat \ {0}
      BY <1>1
    <3> QED BY <1>1, <3>1, Chars
  <2> QED BY <2>1
<1>5. ~(e < m)
  <2>1. SUFFICES ASSUME e < m PROVE FALSE
    OBVIOUS
  <2>2. e \in i..(m - 1) /\ e \in i..m
    BY <1>1, <1>3, <2>1
  <2> QED BY <1>3, <1>4, <2>2 DEF Digital
<1>6. ~(m < e)
  <2>1. SUFFICES ASSUME m < e PROVE FALSE
    OBVIOUS
  <2>2. m \in i..(e - 1) /\ m \in i..m
    BY <1>1, <1>3, <2>1
  <2> QED BY <1>3, <1>4, <2>2 DEF Digital
<1> QED BY <1>1, <1>2, <1>3, <1>5, <1>6

LEMMA NoStars == ASSUME CallTypes, NEW i \in Nat \ {0} PROVE Ch(i) # "*"
<1>1. fmt \in Seq(STRING)
  BY DEF CallTypes
<1>2. CASE i \in 1..Len(fmt)
  BY <1>1, <1>2, Chars DEF CallTypes
<1>3. CASE i \notin 1..Len(fmt)
  BY <1>1, <1>3, Chars DEF NUL
<1> QED BY <1>2, <1>3

LEMMA FmtWidth == ASSUME FormatsInv, Width PROVE FormatsInv'
<1>1. /\ CallTypes /\ ReadTypes /\ fmt \in Seq(STRING) /\ at \in 1..(Len(fmt) + 1)
      /\ Len(fmt) \in Nat /\ fmt' = fmt /\ args' = args /\ step = "width"
      /\ step' = "precision" /\ out' = out /\ precision' = precision
  BY DEF FormatsInv, CallTypes, ReadTypes, Width
<1>2. CallTypes'
  BY <1>1, CallKept
<1>3. \/ Digital(at) /\ width' = Atoi(at).value /\ at' = Atoi(at).end
      \/ ~Digital(at) /\ width' = width /\ at' = at
  <2>1. Ch(at) # "*"
    <3>1. at \in Nat \ {0}
      BY <1>1
    <3> QED BY <1>1, <3>1, NoStars
  <2> QED BY <2>1 DEF Width
<1>4. flags' = flags /\ taken' = taken
  <2>1. Ch(at) # "*"
    <3>1. at \in Nat \ {0}
      BY <1>1
    <3> QED BY <1>1, <3>1, NoStars
  <2> QED BY <2>1 DEF Width
<1>5. at' \in 1..(Len(fmt) + 1) /\ at' \in Nat /\ at' >= at /\ width' \in Int
  <2>1. CASE Digital(at)
    <3>1. PICK e : e = Atoi(at).end
      OBVIOUS
    <3>2. e \in at..(Len(fmt) + 1) /\ Atoi(at).value \in Nat
      BY <1>1, <3>1, AtoiEnds, AtoiCounts
    <3>3. at' = e /\ width' \in Nat
      BY <1>3, <2>1, <3>1, <3>2
    <3> QED BY <1>1, <3>2, <3>3
  <2>2. CASE ~Digital(at)
    <3>1. width' = width /\ at' = at
      BY <1>3, <2>2
    <3>2. width \in Int
      BY <1>1 DEF ReadTypes
    <3> QED BY <1>1, <3>1, <3>2
  <2> QED BY <2>1, <2>2
<1>6. ReadTypes'
  BY <1>1, <1>4, <1>5 DEF ReadTypes
<1>7. TakenInv'
  <2>1. step # "text" /\ taken' = taken
    BY <1>1, <1>4
  <2>2. TakenInv
    BY DEF FormatsInv
  <2>3. GoesOn
    BY <1>1, <1>5, <2>1 DEF GoesOn
  <2> QED BY <1>1, <2>2, <2>3, TakenKept
<1>8. OutInv'
  BY <1>1 DEF FormatsInv, OutInv
<1>9. ShapeInv'
  <2>1. ASSUME NEW a \in Nat, NEW b \in Nat, NEW d \in Nat, NEW n \in Nat, Shape(fmt, a, b, d, n)
        PROVE  Aligned(a, b, d, n)'
    <3>1. Aligned(a, b, d, n)
      BY <2>1 DEF FormatsInv, ShapeInv
    <3>2. at = a /\ taken = 0 /\ out = <<>>
      BY <3>1, <1>1 DEF Aligned
    <3>3. a \in 1..n /\ Ch(a) = fmt[a] /\ Len(fmt) = n /\ b \in a..n
      <4>1. a \in 1..n /\ Ch(a) = fmt[a] /\ Len(fmt) = n
        BY <1>1, <2>1, ShapeChars
      <4> QED BY <4>1, <2>1 DEF Shape
    <3>4. at' = b
      <4>1. CASE Digital(at)
        <5>1. Atoi(a).end = b
          <6>1. /\ \A k \in a..(b - 1) : fmt[k] \in DOMAIN DigitValue
                /\ fmt[b] \notin DOMAIN DigitValue
            BY <2>1 DEF Shape
          <6>2. a \in 1..(Len(fmt) + 1) /\ b \in a..Len(fmt)
            BY <3>3
          <6> QED BY ONLY <1>1, <6>1, <6>2, AtoiIs
        <5> QED BY <1>3, <3>2, <4>1, <5>1
      <4>2. CASE ~Digital(at)
        <5>1. a \notin a..(b - 1)
          BY <2>1, <3>2, <3>3, <4>2 DEF Shape, Digital
        <5>2. a = b
          BY <3>3, <5>1
        <5> QED BY <1>3, <3>2, <4>2, <5>2
      <4> QED BY <4>1, <4>2
    <3> QED BY <1>1, <1>4, <3>2, <3>4 DEF Aligned
  <2> QED BY <1>1, <2>1 DEF ShapeInv
<1> QED BY <1>2, <1>6, <1>7, <1>8, <1>9 DEF FormatsInv

LEMMA FmtPrecision == ASSUME FormatsInv, Precision PROVE FormatsInv'
<1>1. /\ CallTypes /\ ReadTypes /\ fmt \in Seq(STRING) /\ at \in 1..(Len(fmt) + 1)
      /\ Len(fmt) \in Nat /\ fmt' = fmt /\ args' = args /\ step = "precision"
      /\ step' = "convert" /\ out' = out /\ width' = width /\ flags' = flags
  BY DEF FormatsInv, CallTypes, ReadTypes, Precision
<1>2. CallTypes'
  BY <1>1, CallKept
<1>3. /\ \/ /\ Ch(at) = "." /\ Digital(at + 1)
            /\ precision' = Atoi(at + 1).value /\ at' = Atoi(at + 1).end
         \/ Ch(at) = "." /\ ~Digital(at + 1) /\ precision' = 0 /\ at' = at + 1
         \/ Ch(at) # "." /\ at' = at /\ precision' = precision
      /\ taken' = taken
  <2>1. Ch(at + 1) # "*"
    <3>1. at + 1 \in Nat \ {0}
      BY <1>1
    <3> QED BY <1>1, <3>1, NoStars
  <2> QED BY <2>1 DEF Precision
<1>4. at' \in 1..(Len(fmt) + 1) /\ at' \in Nat /\ at' >= at /\ precision' \in Int
  <2>1. CASE Ch(at) = "."
    <3>1. at + 1 \in 1..(Len(fmt) + 1)
      <4>1. Ch(at) # NUL /\ at \in Nat \ {0}
        BY <1>1, <2>1 DEF NUL
      <4>2. at \in 1..Len(fmt)
        BY <1>1, <4>1, Chars
      <4> QED BY <1>1, <4>2
    <3>2. PICK i \in 1..(Len(fmt) + 1) : i = at + 1
      BY <3>1
    <3>3. CASE Digital(at + 1)
      <4>1. PICK e : e = Atoi(i).end
        OBVIOUS
      <4>2. e \in i..(Len(fmt) + 1) /\ Atoi(i).value \in Nat
        BY <1>1, <4>1, AtoiEnds, AtoiCounts
      <4>3. at' = e /\ precision' \in Nat
        BY <1>3, <2>1, <3>2, <3>3, <4>1, <4>2
      <4> QED BY <1>1, <3>2, <4>2, <4>3
    <3>4. CASE ~Digital(at + 1)
      <4>1. at' = i /\ precision' = 0
        BY <1>3, <2>1, <3>2, <3>4
      <4> QED BY <1>1, <3>2, <4>1
    <3> QED BY <3>3, <3>4
  <2>2. CASE Ch(at) # "."
    <3>1. precision' = precision /\ at' = at
      BY <1>3, <2>2
    <3>2. precision \in Int
      BY <1>1 DEF ReadTypes
    <3> QED BY <1>1, <3>1, <3>2
  <2> QED BY <2>1, <2>2
<1>5. ReadTypes'
  BY <1>1, <1>3, <1>4 DEF ReadTypes
<1>6. TakenInv'
  <2>1. step # "text" /\ taken' = taken
    BY <1>1, <1>3
  <2>2. TakenInv
    BY DEF FormatsInv
  <2>3. GoesOn
    BY <1>1, <1>4, <2>1 DEF GoesOn
  <2> QED BY <1>1, <2>2, <2>3, TakenKept
<1>7. OutInv'
  BY <1>1 DEF FormatsInv, OutInv
<1>8. ShapeInv'
  <2>1. ASSUME NEW a \in Nat, NEW b \in Nat, NEW d \in Nat, NEW n \in Nat, Shape(fmt, a, b, d, n)
        PROVE  Aligned(a, b, d, n)'
    <3>1. Aligned(a, b, d, n)
      BY <2>1 DEF FormatsInv, ShapeInv
    <3>2. at = b /\ taken = 0 /\ out = <<>>
      BY <3>1, <1>1 DEF Aligned
    <3>3. b \in 1..n /\ Ch(b) = fmt[b] /\ Len(fmt) = n /\ d \in b..n
      <4>1. b \in 1..n /\ Ch(b) = fmt[b] /\ Len(fmt) = n
        BY <1>1, <2>1, ShapeChars
      <4> QED BY <4>1, <2>1 DEF Shape
    <3>4. at' = d
      <4>1. CASE Ch(at) # "."
        <5>1. b = d
          BY <2>1, <3>2, <3>3, <4>1 DEF Shape
        <5> QED BY <1>3, <3>2, <4>1, <5>1
      <4>2. CASE Ch(at) = "."
        <5>1. b # d
          BY <2>1, <3>2, <3>3, <4>2 DEF Shape
        <5>2. PICK i \in 1..(Len(fmt) + 1) : i = b + 1 /\ d \in i..Len(fmt)
          BY <3>3, <5>1
        <5>3. /\ \A k \in i..(d - 1) : fmt[k] \in DOMAIN DigitValue
              /\ fmt[d] \notin DOMAIN DigitValue
          BY <2>1, <5>2 DEF Shape
        <5>4. CASE Digital(at + 1)
          <6>1. Atoi(i).end = d
            BY ONLY <1>1, <5>2, <5>3, AtoiIs
          <6> QED BY <1>3, <3>2, <4>2, <5>2, <5>4, <6>1
        <5>5. CASE ~Digital(at + 1)
          <6>1. at' = i
            BY <1>3, <3>2, <4>2, <5>2, <5>5
          <6>2. i \notin i..(d - 1)
            <7>1. SUFFICES ASSUME i \in i..(d - 1) PROVE FALSE
              OBVIOUS
            <7>2. i \in 1..n
              BY <3>3, <5>2, <7>1
            <7>3. Ch(i) = fmt[i]
              BY <1>1, <2>1, <7>2, ShapeChars
            <7>4. fmt[i] \in DOMAIN DigitValue
              BY <5>3, <7>1
            <7> QED BY <3>2, <5>2, <5>5, <7>3, <7>4 DEF Digital
          <6>3. i = d
            BY <3>3, <5>2, <6>2
          <6> QED BY <6>1, <6>3
        <5> QED BY <5>4, <5>5
      <4> QED BY <4>1, <4>2
    <3> QED BY <1>1, <1>3, <3>2, <3>4 DEF Aligned
  <2> QED BY <1>1, <2>1 DEF ShapeInv
<1> QED BY <1>2, <1>5, <1>6, <1>7, <1>8 DEF FormatsInv

LEMMA FmtConvert == ASSUME FormatsInv, Convert PROVE FormatsInv'
<1>1. /\ CallTypes /\ ReadTypes /\ fmt \in Seq(STRING) /\ at \in 1..(Len(fmt) + 1)
      /\ Len(fmt) \in Nat /\ fmt' = fmt /\ args' = args /\ step = "convert"
      /\ step' = "text" /\ flags' = flags /\ width' = width /\ precision' = precision
      /\ out \in Seq(GoodFields)
  BY DEF FormatsInv, CallTypes, ReadTypes, OutInv, Convert, dirVars
<1>2. PICK i : i = IF Ch(at) \in Qualifiers THEN at + 1 ELSE at
  OBVIOUS
<1>3. PICK c : c = Ch(i)
  OBVIOUS
<1>4. /\ at' = AfterConversion(i)
      /\ \/ /\ c \in Conversions /\ taken' = taken + 1
            /\ out' = IF c = "n" THEN out ELSE Append(out, Field(c, NextArg))
         \/ /\ c \notin Conversions /\ taken' = taken
            /\ out' = out \o (IF c # "%" THEN <<Blank>> ELSE <<>>)
                          \o (IF c # NUL THEN <<Blank>> ELSE <<>>)
  BY <1>2, <1>3 DEF Convert
<1>5. i \in 1..(Len(fmt) + 1) /\ i \in Nat \ {0} /\ i >= at
  <2>1. CASE Ch(at) \in Qualifiers
    <3>1. Ch(at) # NUL /\ at \in Nat \ {0}
      BY <1>1, <2>1 DEF Qualifiers, NUL
    <3>2. at \in 1..Len(fmt)
      BY <1>1, <3>1, Chars
    <3> QED BY <1>1, <1>2, <2>1, <3>2
  <2>2. CASE Ch(at) \notin Qualifiers
    BY <1>1, <1>2, <2>2
  <2> QED BY <2>1, <2>2
<1>6. \/ c = NUL /\ at' = i
      \/ c # NUL /\ at' = i + 1 /\ i \in 1..Len(fmt) /\ c = fmt[i]
  BY <1>1, <1>3, <1>4, <1>5, Chars DEF AfterConversion
<1>7. at' \in 1..(Len(fmt) + 1) /\ at' \in Nat /\ at' >= at
  <2>1. CASE at' = i
    BY <1>5, <2>1
  <2>2. CASE at' = i + 1 /\ i \in 1..Len(fmt)
    BY <1>1, <1>5, <2>2
  <2> QED BY <1>6, <2>1, <2>2
<1>8. CallTypes'
  BY <1>1, CallKept
<1>9. ReadTypes'
  BY <1>1, <1>7 DEF ReadTypes
<1>10. ASSUME c \in Conversions
       PROVE  NextArg \in Arg /\ taken + 1 <= Cardinality(Behind(i + 1)) /\ taken \in Nat
  <2>1. at' = i + 1 /\ i \in 1..Len(fmt) /\ c = fmt[i]
    BY <1>6, <1>10 DEF Conversions, Numbers, NUL
  <2>2. i \in Converted(fmt)
    <3>1. PICK j \in 1..(at - 1) : fmt[j] = "%"
      BY <1>1 DEF FormatsInv, TakenInv
    <3>2. j \in 1..(i - 1)
      BY <1>1, <1>5
    <3> QED BY <1>1, <1>10, <2>1, <3>1, <3>2 DEF Converted
  <2>3. at \in Nat /\ i \in Nat /\ i + 1 \in Nat /\ at <= i
    BY <1>1, <1>5
  <2>4. PICK x, y, z, w : /\ x = Cardinality(Behind(at)) /\ y = Cardinality(Behind(i))
                          /\ z = Cardinality(Behind(i + 1)) /\ w = Cardinality(Converted(fmt))
    OBVIOUS
  <2>5. x \in Nat /\ y \in Nat /\ z \in Nat /\ w \in Nat /\ x <= y /\ z >= y + 1 /\ z <= w
    BY <1>1, <2>2, <2>3, <2>4, BehindIs, BehindGrows, BehindOne
  <2>6. taken \in Nat /\ taken <= x /\ w <= Len(args) /\ args \in Seq(Arg)
    BY <1>1, <2>4 DEF FormatsInv, TakenInv, CallTypes
  <2>7. taken + 1 <= z /\ taken + 1 \in 1..Len(args)
    <3>1. Len(args) \in Nat
      BY <2>6
    <3> QED BY ONLY <2>5, <2>6, <3>1
  <2>8. args[taken + 1] \in Arg
    BY <2>6, <2>7
  <2> QED BY <2>4, <2>6, <2>7, <2>8 DEF NextArg
<1>11. TakenInv'
  <2>1. CASE c \in Conversions
    <3>1. at' = i + 1
      BY <1>6, <2>1 DEF Conversions, Numbers, NUL
    <3>2. Converted(fmt)' = Converted(fmt)
      BY <1>1 DEF Converted
    <3>3. Behind(at)' = Behind(i + 1)
      BY <3>1, <3>2 DEF Behind
    <3>4. taken' = taken + 1
      BY <1>4, <2>1
    <3> QED BY <1>1, <1>10, <2>1, <3>3, <3>4 DEF TakenInv
  <2>2. CASE c \notin Conversions
    <3>1. GoesOn
      BY <1>1, <1>4, <1>7, <2>2 DEF GoesOn
    <3> QED BY <1>1, <3>1, TakenKept DEF FormatsInv
  <2> QED BY <2>1, <2>2
<1>12. OutInv'
  <2>1. Blank \in GoodFields
    BY BlankGood DEF GoodFields, GoodField
  <2>2. CASE c \in Conversions /\ c # "n"
    <3>1. GoodField(Field(c, NextArg))
      BY <1>1, <1>10, <2>2, FieldGood DEF ReadTypes
    <3>2. PICK f : f = Field(c, NextArg)
      OBVIOUS
    <3>3. f \in GoodFields
      BY <3>1, <3>2 DEF GoodFields, GoodField
    <3>4. out' = Append(out, f)
      BY <1>4, <2>2, <3>2
    <3> QED BY ONLY <1>1, <3>3, <3>4 DEF OutInv
  <2>3. CASE c = "n"
    <3>1. out' = out
      BY <1>4, <2>3 DEF Conversions
    <3> QED BY ONLY <1>1, <3>1 DEF OutInv
  <2>4. CASE c \notin Conversions
    <3>1. PICK u, v : /\ u = IF c # "%" THEN <<Blank>> ELSE <<>>
                      /\ v = IF c # NUL THEN <<Blank>> ELSE <<>>
      OBVIOUS
    <3>2. u \in Seq(GoodFields) /\ v \in Seq(GoodFields)
      BY <2>1, <3>1
    <3>3. out' = (out \o u) \o v
      BY <1>4, <2>4, <3>1
    <3>4. PICK w \in Seq(GoodFields) : w = out \o u
      BY ONLY <1>1, <3>2, ConcatProperties
    <3>5. w \o v \in Seq(GoodFields)
      BY ONLY <3>2, w \in Seq(GoodFields), ConcatProperties
    <3> QED BY ONLY <3>3, <3>4, <3>5 DEF OutInv
  <2> QED BY <2>2, <2>3, <2>4
<1>13. ShapeInv'
  <2>1. ASSUME NEW a \in Nat, NEW b \in Nat, NEW d \in Nat, NEW n \in Nat, Shape(fmt, a, b, d, n)
        PROVE  Aligned(a, b, d, n)'
    <3>1. Aligned(a, b, d, n)
      BY <2>1 DEF FormatsInv, ShapeInv
    <3>2. at = d /\ taken = 0 /\ out = <<>>
      BY <3>1, <1>1 DEF Aligned
    <3>3. d \in 1..n /\ Ch(d) = fmt[d] /\ n \in 1..n /\ Ch(n) = fmt[n]
      <4>1. d \in 1..n /\ 1 \in 1..n
        BY <1>1, <2>1, ShapeChars
      <4>2. n \in 1..n
        BY <4>1
      <4> QED BY <1>1, <2>1, <4>1, <4>2, ShapeChars
    <3>4. i = n /\ c = fmt[n] /\ c \in Conversions
      BY <1>2, <1>3, <2>1, <3>2, <3>3 DEF Shape
    <3>5. at' = n + 1 /\ taken' = 1
      BY <1>4, <1>6, <3>2, <3>4 DEF Conversions, Numbers, NUL
    <3>6. Len(out') = IF fmt[n] = "n" THEN 0 ELSE 1
      <4>1. CASE c = "n"
        BY <1>4, <3>2, <3>4, <4>1
      <4>2. CASE c # "n"
        <5>1. PICK f : f = Field(c, NextArg)
          OBVIOUS
        <5>2. out' = Append(<<>>, f)
          BY <1>4, <3>2, <3>4, <4>2, <5>1
        <5>3. Len(Append(<<>>, f)) = 1
          OBVIOUS
        <5> QED BY <3>4, <4>2, <5>2, <5>3
      <4> QED BY <4>1, <4>2
    <3> QED BY <1>1, <3>5, <3>6 DEF Aligned
  <2> QED BY <1>1, <2>1 DEF ShapeInv
<1> QED BY <1>8, <1>9, <1>11, <1>12, <1>13 DEF FormatsInv

LEMMA FormatsNext == ASSUME FormatsInv, [Next]_vars PROVE FormatsInv'
<1>1. CASE UNCHANGED vars
  <2>1. /\ fmt' = fmt /\ args' = args /\ at' = at /\ step' = step /\ flags' = flags
        /\ width' = width /\ precision' = precision /\ taken' = taken /\ out' = out
    BY <1>1 DEF vars
  <2>2. CallTypes' /\ Converted(fmt)' = Converted(fmt)
    BY <2>1, CallKept DEF FormatsInv, Converted
  <2>3. ReadTypes' /\ OutInv'
    BY <2>1 DEF FormatsInv, ReadTypes, OutInv
  <2>4. TakenInv'
    <3>1. Behind(at)' = Behind(at)
      BY <2>1, <2>2 DEF Behind
    <3> QED BY <2>1, <3>1 DEF FormatsInv, TakenInv
  <2>5. ShapeInv'
    <3>1. ASSUME NEW a \in Nat, NEW b \in Nat, NEW d \in Nat, NEW n \in Nat, Shape(fmt, a, b, d, n)
          PROVE  Aligned(a, b, d, n)'
      <4>1. Aligned(a, b, d, n)
        BY <3>1 DEF FormatsInv, ShapeInv
      <4> QED BY <2>1, <4>1 DEF Aligned
    <3> QED BY <2>1, <3>1 DEF ShapeInv
  <2> QED BY <2>2, <2>3, <2>4, <2>5 DEF FormatsInv
<1>2. CASE Finish
  BY <1>1, <1>2 DEF Finish
<1> QED BY <1>1, <1>2, FmtLiteral, FmtBegin, FmtFlag, FmtWidth, FmtPrecision, FmtConvert DEF Next

LEMMA FormatsStart == ASSUME NEW p, Called(p), p[1] \in Seq(STRING), p[2] \in Seq(Arg),
                             \A i \in DOMAIN p[1] : p[1][i] # "*",
                             Cardinality(Converted(p[1])) <= Len(p[2])
                      PROVE  FormatsInv
<1>1. /\ fmt = p[1] /\ args = p[2] /\ at = 1 /\ step = "text" /\ flags = {} /\ width = -1
      /\ precision = -1 /\ taken = 0 /\ out = <<>>
  BY DEF Called
<1>2. CallTypes
  BY <1>1 DEF CallTypes
<1>3. Len(fmt) \in Nat /\ 1 \in 1..(Len(fmt) + 1)
  BY <1>2 DEF CallTypes
<1>4. ReadTypes
  BY <1>1, <1>3 DEF ReadTypes
<1>5. TakenInv
  <2>1. Cardinality(Behind(1)) \in Nat
    BY <1>2, BehindIs DEF CallTypes
  <2> QED BY <1>1, <2>1 DEF TakenInv
<1>6. OutInv
  BY <1>1 DEF OutInv
<1>7. ShapeInv
  BY <1>1 DEF ShapeInv, Aligned
<1> QED BY <1>2, <1>4, <1>5, <1>6, <1>7 DEF FormatsInv

LEMMA FormatsInit == ASSUME AllInit PROVE FormatsInv
<1>1. CASE part = "formats"
  <2>1. PICK p \in Printed : Called(p)
    BY <1>1 DEF AllInit, Init
  <2>2. /\ p[1] \in Seq(STRING) /\ p[2] \in Seq(Arg)
        /\ Cardinality(Converted(p[1])) <= Len(p[2])
    BY PrintfAssumption DEF Arg
  <2>3. \A i \in DOMAIN p[1] : p[1][i] # "*"
    BY PartsAssumption
  <2> QED BY <2>1, <2>2, <2>3, FormatsStart
<1>2. CASE part # "formats"
  <2>1. PICK p : p = << <<>>, <<>> >>
    OBVIOUS
  <2>2. Called(p)
    BY <1>2, <2>1 DEF AllInit
  <2>3. p[1] = <<>> /\ p[2] = <<>>
    BY <2>1
  <2>4. Converted(<<>>) = {}
    BY DEF Converted
  <2>5. Cardinality(Converted(p[1])) = 0 /\ Len(p[2]) = 0
    BY <2>3, <2>4, FS_EmptySet
  <2>6. p[1] \in Seq(STRING) /\ p[2] \in Seq(Arg) /\ DOMAIN p[1] = {}
    BY <2>3
  <2> QED BY <2>2, <2>5, <2>6, FormatsStart
<1> QED BY <1>1, <1>2

LEMMA FormatsAllNext == ASSUME FormatsInv, [AllNext]_allVars PROVE FormatsInv'
<1>1. [Next]_vars
  <2>1. CASE UNCHANGED allVars
    BY <2>1 DEF allVars, vars
  <2>2. CASE AllNext
    BY <2>2 DEF AllNext
  <2> QED BY <2>1, <2>2
<1> QED BY <1>1, FormatsNext

\* The reference: a directive is a percent sign, flags, a width, a precision, a qualifier
\* and a conversion, and every part of it has its place.
LEMMA Joined ==
  ASSUME NEW C, NEW s \in Seq(C), NEW t \in Seq(C)
  PROVE  /\ s \o t \in Seq(C) /\ Len(s \o t) = Len(s) + Len(t)
         /\ \A i \in 1..Len(s) : (s \o t)[i] = s[i]
         /\ \A i \in 1..Len(t) : (s \o t)[Len(s) + i] = t[i]
<1>1. /\ s \o t \in Seq(C) /\ Len(s \o t) = Len(s) + Len(t)
      /\ \A i \in 1..(Len(s) + Len(t)) : (s \o t)[i] = IF i <= Len(s) THEN s[i] ELSE t[i - Len(s)]
  BY ConcatProperties
<1>2. PICK m \in Nat, n \in Nat : m = Len(s) /\ n = Len(t)
  OBVIOUS
<1>3. \A i \in 1..m : i \in 1..(m + n) /\ i <= m
  OBVIOUS
<1>4. \A i \in 1..n : m + i \in 1..(m + n) /\ ~(m + i <= m) /\ (m + i) - m = i
  OBVIOUS
<1> QED BY <1>1, <1>2, <1>3, <1>4

\* t stands in s behind the first k.
Stands(t, s, k) == \A i \in 1..Len(t) : s[k + i] = t[i]

\* r is made of s and t, f of six parts.
Glued(r, s, t) == r = s \o t
Six(f, h, fl, w, p, q, z) == f = h \o fl \o w \o p \o q \o z
Inside(t, s, k) == Stands(t, s, k) /\ k + Len(t) <= Len(s)
Laid(f, h, fl, w, p, q, z) ==
  \E a, b, c, d, e \in Nat :
      /\ Len(f) \in Nat /\ Len(h) \in Nat /\ Len(fl) \in Nat /\ Len(w) \in Nat
      /\ Len(p) \in Nat /\ Len(q) \in Nat /\ Len(z) \in Nat
      /\ a = Len(h) /\ b = a + Len(fl) /\ c = b + Len(w) /\ d = c + Len(p)
      /\ e = d + Len(q) /\ Len(f) = e + Len(z)
      /\ Inside(h, f, 0) /\ Inside(fl, f, a) /\ Inside(w, f, b) /\ Inside(p, f, c)
      /\ Inside(q, f, d) /\ Inside(z, f, e)

LEMMA InsideOn ==
  ASSUME NEW C, NEW s \in Seq(C), NEW t \in Seq(C), NEW r, Glued(r, s, t), NEW u \in Seq(C),
         NEW k \in Nat, Inside(u, s, k)
  PROVE  Inside(u, r, k)
<1>1. ASSUME NEW i \in 1..Len(u) PROVE r[k + i] = u[i]
  <2>1. k + i \in 1..Len(s)
    BY Len(u) \in Nat, Len(s) \in Nat DEF Inside
  <2> QED BY <2>1, Joined DEF Inside, Stands, Glued
<1>2. Len(r) = Len(s) + Len(t)
  BY Joined DEF Glued
<1>3. k + Len(u) <= Len(r)
  BY <1>2, Len(u) \in Nat, Len(s) \in Nat, Len(t) \in Nat DEF Inside
<1> QED BY <1>1, <1>3 DEF Stands, Inside

LEMMA InsideEnds ==
  ASSUME NEW C, NEW s \in Seq(C), NEW t \in Seq(C), NEW r, Glued(r, s, t)
  PROVE  /\ r \in Seq(C) /\ Len(r) = Len(s) + Len(t) /\ Len(s) \in Nat /\ Len(t) \in Nat
         /\ Inside(t, r, Len(s))
<1>1. r \in Seq(C) /\ Len(r) = Len(s) + Len(t) /\ \A i \in 1..Len(t) : r[Len(s) + i] = t[i]
  BY Joined DEF Glued
<1>2. Len(s) \in Nat /\ Len(t) \in Nat
  OBVIOUS
<1> QED BY <1>1, <1>2 DEF Inside, Stands

\* Six parts make a sequence in which each has its place.
LEMMA SixParts ==
  ASSUME NEW C, NEW h \in Seq(C), NEW fl \in Seq(C), NEW w \in Seq(C), NEW p \in Seq(C),
         NEW q \in Seq(C), NEW z \in Seq(C),
         NEW f, Six(f, h, fl, w, p, q, z)
  PROVE  Laid(f, h, fl, w, p, q, z)
<1>0. PICK s1, s2, s3, s4 : /\ Glued(s1, h, fl) /\ Glued(s2, s1, w) /\ Glued(s3, s2, p)
                            /\ Glued(s4, s3, q) /\ Glued(f, s4, z)
  BY DEF Glued, Six
<1>6. /\ s1 \in Seq(C) /\ Len(s1) = Len(h) + Len(fl) /\ Len(h) \in Nat
      /\ Len(fl) \in Nat /\ Inside(fl, s1, Len(h))
  BY ONLY <1>0, h \in Seq(C), fl \in Seq(C), InsideEnds
<1>7. /\ s2 \in Seq(C) /\ Len(s2) = Len(s1) + Len(w) /\ Len(s1) \in Nat
      /\ Len(w) \in Nat /\ Inside(w, s2, Len(s1))
  <2>1. Glued(s2, s1, w)
    BY ONLY <1>0
  <2>2. s1 \in Seq(C)
    BY ONLY <1>6
  <2> QED BY ONLY <2>1, <2>2, w \in Seq(C), InsideEnds
<1>8. /\ s3 \in Seq(C) /\ Len(s3) = Len(s2) + Len(p) /\ Len(s2) \in Nat
      /\ Len(p) \in Nat /\ Inside(p, s3, Len(s2))
  <2>1. Glued(s3, s2, p)
    BY ONLY <1>0
  <2>2. s2 \in Seq(C)
    BY ONLY <1>7
  <2> QED BY ONLY <2>1, <2>2, p \in Seq(C), InsideEnds
<1>9. /\ s4 \in Seq(C) /\ Len(s4) = Len(s3) + Len(q) /\ Len(s3) \in Nat
      /\ Len(q) \in Nat /\ Inside(q, s4, Len(s3))
  <2>1. Glued(s4, s3, q)
    BY ONLY <1>0
  <2>2. s3 \in Seq(C)
    BY ONLY <1>8
  <2> QED BY ONLY <2>1, <2>2, q \in Seq(C), InsideEnds
<1>10. /\ f \in Seq(C) /\ Len(f) = Len(s4) + Len(z) /\ Len(s4) \in Nat
      /\ Len(z) \in Nat /\ Inside(z, f, Len(s4))
  BY ONLY <1>0, z \in Seq(C), <1>9, InsideEnds
<1>11. Len(f) \in Nat
  BY ONLY <1>10
<1>12. 0 \in Nat /\ Inside(h, h, 0)
  BY Len(h) \in Nat DEF Inside, Stands
<1>13. Inside(h, f, 0)
  <2>1. Inside(h, s1, 0)
    BY ONLY <1>12, h \in Seq(C), <1>0, fl \in Seq(C), InsideOn
  <2>2. Inside(h, s2, 0)
    BY ONLY <2>1, <1>12, <1>6, <1>0, h \in Seq(C), w \in Seq(C), InsideOn
  <2>3. Inside(h, s3, 0)
    BY ONLY <2>2, <1>12, <1>7, <1>0, h \in Seq(C), p \in Seq(C), InsideOn
  <2>4. Inside(h, s4, 0)
    BY ONLY <2>3, <1>12, <1>8, <1>0, h \in Seq(C), q \in Seq(C), InsideOn
  <2> QED BY ONLY <2>4, <1>12, <1>9, <1>0, h \in Seq(C), z \in Seq(C), InsideOn
<1>14. Inside(fl, f, Len(h))
  <2>1. Inside(fl, s2, Len(h))
    BY ONLY <1>6, <1>0, fl \in Seq(C), w \in Seq(C), InsideOn
  <2>2. Inside(fl, s3, Len(h))
    BY ONLY <2>1, <1>6, <1>7, <1>0, fl \in Seq(C), p \in Seq(C), InsideOn
  <2>3. Inside(fl, s4, Len(h))
    BY ONLY <2>2, <1>6, <1>8, <1>0, fl \in Seq(C), q \in Seq(C), InsideOn
  <2> QED BY ONLY <2>3, <1>6, <1>9, <1>0, fl \in Seq(C), z \in Seq(C), InsideOn
<1>15. Inside(w, f, Len(s1))
  <2>1. Inside(w, s3, Len(s1))
    BY ONLY <1>7, <1>0, w \in Seq(C), p \in Seq(C), InsideOn
  <2>2. Inside(w, s4, Len(s1))
    BY ONLY <2>1, <1>7, <1>8, <1>0, w \in Seq(C), q \in Seq(C), InsideOn
  <2> QED BY ONLY <2>2, <1>7, <1>9, <1>0, w \in Seq(C), z \in Seq(C), InsideOn
<1>16. Inside(p, f, Len(s2))
  <2>1. Inside(p, s4, Len(s2))
    BY ONLY <1>8, <1>0, p \in Seq(C), q \in Seq(C), InsideOn
  <2> QED BY ONLY <2>1, <1>8, <1>9, <1>0, p \in Seq(C), z \in Seq(C), InsideOn
<1>17. Inside(q, f, Len(s3))
  <2> QED BY ONLY <1>9, <1>0, q \in Seq(C), z \in Seq(C), InsideOn
<1>18. PICK a \in Nat, b \in Nat, c \in Nat, d \in Nat, e \in Nat :
        a = Len(h) /\ b = Len(s1) /\ c = Len(s2) /\ d = Len(s3) /\ e = Len(s4)
  BY ONLY <1>6, <1>7, <1>8, <1>9, <1>10
<1> QED BY ONLY <1>18, <1>6, <1>7, <1>8, <1>9, <1>10, <1>11, <1>13, <1>14, <1>15, <1>16, <1>17 DEF Laid

\* What the directives without a star are made of.
Letters == {"%", ".", "l", "*"} \cup Flags \cup DOMAIN DigitValue \cup Conversions
Width0 == {<<>>, <<"3">>, <<"1", "3">>}
Precision0 == {<<>>} \cup {<<".">> \o w : w \in Width0}
Made(fl, w, p, q, c) ==
  /\ fl \in FlagRun /\ w \in Width0 /\ p \in Precision0
  /\ q \in {<<>>, <<"l">>} /\ c \in Conversions
  /\ fmt = <<"%">> \o fl \o w \o p \o q \o <<c>>

\* A part with nothing but digits in it, but for a point before them.
Digits0(t, first) == \A i \in first..Len(t) : t[i] \in DOMAIN DigitValue

LEMMA LettersAre ==
  /\ "%" \in Letters /\ "." \in Letters /\ "l" \in Letters /\ "*" \in Letters
  /\ "1" \in Letters /\ "3" \in Letters
  /\ "1" \in DOMAIN DigitValue /\ "3" \in DOMAIN DigitValue
  /\ Flags \subseteq Letters /\ Conversions \subseteq Letters
  /\ \A c \in Conversions : c \notin Flags \cup DOMAIN DigitValue \cup Qualifiers \cup {"."}
  /\ "." \notin Flags \cup DOMAIN DigitValue \cup Qualifiers
  /\ "l" \notin Flags \cup DOMAIN DigitValue \cup {"."} /\ "l" \in Qualifiers
BY DEF Letters, Flags, DigitValue, Conversions, Numbers, Qualifiers

LEMMA WidthsAre ==
  ASSUME NEW w \in Width0 PROVE w \in Seq(Letters) /\ Digits0(w, 1)
<1>1. CASE w = <<>>
  BY <1>1 DEF Digits0
<1>2. CASE w = <<"3">>
  <2>1. w \in Seq(Letters) /\ Len(w) = 1 /\ w[1] = "3"
    BY <1>2, LettersAre
  <2> QED BY <2>1, LettersAre DEF Digits0
<1>3. CASE w = <<"1", "3">>
  <2>1. w \in Seq(Letters) /\ Len(w) = 2 /\ w[1] = "1" /\ w[2] = "3"
    BY <1>3, LettersAre
  <2> QED BY <2>1, LettersAre DEF Digits0
<1> QED BY <1>1, <1>2, <1>3 DEF Width0

LEMMA SingleIs ==
  ASSUME NEW c \in Letters PROVE <<c>> \in Seq(Letters) /\ Len(<<c>>) = 1 /\ <<c>>[1] = c
OBVIOUS

LEMMA PrecisionsAre ==
  ASSUME NEW p \in Precision0
  PROVE  p \in Seq(Letters) /\ Digits0(p, 2) /\ (Len(p) # 0 => p[1] = ".")
<1>1. CASE p = <<>>
  BY <1>1 DEF Digits0
<1>2. CASE p # <<>>
  <2>1. PICK w \in Width0 : p = <<".">> \o w
    BY <1>2 DEF Precision0
  <2>2. PICK u : u = <<".">>
    OBVIOUS
  <2>3. u \in Seq(Letters) /\ Len(u) = 1 /\ u[1] = "."
    BY <2>2, SingleIs, LettersAre
  <2>4. w \in Seq(Letters) /\ Digits0(w, 1) /\ Len(w) \in Nat
    BY WidthsAre
  <2>5. /\ p \in Seq(Letters) /\ Len(p) = 1 + Len(w) /\ p[1] = u[1]
        /\ \A i \in 1..Len(w) : p[1 + i] = w[i]
    <3>1. /\ p \in Seq(Letters) /\ Len(p) = Len(u) + Len(w)
          /\ \A i \in 1..Len(u) : p[i] = u[i]
          /\ \A i \in 1..Len(w) : p[Len(u) + i] = w[i]
      BY <2>1, <2>2, <2>3, <2>4, Joined
    <3>2. 1 \in 1..Len(u)
      BY <2>3
    <3> QED BY <3>1, <3>2, <2>3
  <2>6. ASSUME NEW i \in 2..Len(p) PROVE p[i] \in DOMAIN DigitValue
    <3>1. i - 1 \in 1..Len(w) /\ 1 + (i - 1) = i
      BY <2>4, <2>5
    <3> QED BY <2>4, <2>5, <3>1 DEF Digits0
  <2> QED BY <2>3, <2>5, <2>6 DEF Digits0
<1> QED BY <1>1, <1>2

LEMMA FlagsAre ==
  ASSUME NEW fl \in FlagRun
  PROVE  fl \in Seq(Letters) /\ \A i \in 1..Len(fl) : fl[i] \in Flags
<1>1. PICK n \in 0..2 : fl \in [1..n -> Flags]
  BY DEF FlagRun
<1>2. n \in Nat /\ fl \in [1..n -> Letters]
  BY <1>1, LettersAre
<1>3. fl \in Seq(Letters) /\ Len(fl) = n
  BY <1>2
<1> QED BY <1>1, <1>3

LEMMA NumeralsAre == ASSUME NEW w \in Numeral PROVE w \in Seq(Letters)
<1>1. w \in Width0 \/ w = <<"*">>
  BY DEF Numeral, Width0
<1> QED BY <1>1, WidthsAre, SingleIs, LettersAre

Put(h, f, w, p, q, c) == h \o f \o w \o p \o q \o c

LEMMA MadeOf ==
  ASSUME fmt \in Directive, \A i \in 1..Len(fmt) : fmt[i] # "*"
  PROVE  \E fl, w, p, q, c : Made(fl, w, p, q, c)
<1>a. PICK H, Q, Z : H = Single({"%"}) /\ Q = Some({"l"}) /\ Z = Single(Conversions)
  OBVIOUS
<1>b. fmt \in {Put(h, f, w, p, q, c) : h \in H, f \in FlagRun, w \in Numeral,
                 p \in Precise, q \in Q, c \in Z}
  BY <1>a DEF Directive, Put
<1>d. PICK h \in H, fl \in FlagRun, w \in Numeral, p \in Precise, q \in Q, z \in Z :
        fmt = Put(h, fl, w, p, q, z)
  BY ONLY <1>b
<1>0. fmt = h \o fl \o w \o p \o q \o z
  BY ONLY <1>d DEF Put
<1>1. PICK c \in Conversions : z = <<c>> /\ h = <<"%">>
  BY <1>a DEF Single
<1>2. q \in {<<>>, <<"l">>}
  BY <1>a DEF Some, Single
<1>3. PICK m \in Numeral : p = <<>> \/ p = <<".">> \o m
  BY DEF Numeral, Precise
<1>4. /\ <<"*">> \in Seq(Letters) /\ Len(<<"*">>) = 1 /\ <<"*">>[1] = "*"
      /\ <<".">> \in Seq(Letters) /\ Len(<<".">>) = 1
  BY SingleIs, LettersAre
<1>5. /\ fl \in Seq(Letters) /\ w \in Seq(Letters) /\ p \in Seq(Letters) /\ q \in Seq(Letters)
      /\ <<c>> \in Seq(Letters) /\ <<"%">> \in Seq(Letters) /\ m \in Seq(Letters)
  <2>1. fl \in Seq(Letters)
    BY FlagsAre
  <2>2. w \in Seq(Letters) /\ m \in Seq(Letters)
    BY NumeralsAre
  <2>3. p \in Seq(Letters)
    <3>1. CASE p = <<>>
      BY <3>1
    <3>2. CASE p = <<".">> \o m
      BY <1>4, <2>2, <3>2, Joined
    <3> QED BY <1>3, <3>1, <3>2
  <2>4. q \in Seq(Letters)
    <3>1. CASE q = <<>>
      BY <3>1
    <3>2. CASE q = <<"l">>
      BY <3>2, SingleIs, LettersAre
    <3> QED BY <1>2, <3>1, <3>2
  <2>5. <<c>> \in Seq(Letters) /\ <<"%">> \in Seq(Letters)
    <3>1. c \in Letters /\ "%" \in Letters
      BY LettersAre
    <3> QED BY <3>1, SingleIs
  <2> QED BY <2>1, <2>2, <2>3, <2>4, <2>5
<1>6. Six(fmt, h, fl, w, p, q, z)
  BY <1>0 DEF Six
<1>7. PICK a, b, d, e, g \in Nat :
        /\ Len(fmt) \in Nat /\ Len(w) \in Nat /\ Len(p) \in Nat
        /\ Inside(w, fmt, b) /\ Inside(p, fmt, d)
  <2>1. h \in Seq(Letters) /\ z \in Seq(Letters)
    BY <1>1, <1>5
  <2>2. fl \in Seq(Letters) /\ w \in Seq(Letters) /\ p \in Seq(Letters) /\ q \in Seq(Letters)
    BY <1>5
  <2>3. Laid(fmt, h, fl, w, p, q, z)
    BY ONLY <2>1, <2>2, <1>6, SixParts
  <2> QED BY ONLY <2>3 DEF Laid
<1>8. w # <<"*">>
  <2>1. SUFFICES ASSUME w = <<"*">> PROVE FALSE
    OBVIOUS
  <2>2. Len(w) = 1 /\ w[1] = "*"
    BY <1>4, <2>1
  <2>3. fmt[b + 1] = "*"
    BY <1>7, <2>2 DEF Inside, Stands
  <2>4. b + 1 \in 1..Len(fmt)
    BY <1>7, <2>2 DEF Inside
  <2> QED BY <2>3, <2>4
<1>9. p = <<".">> \o m => m # <<"*">>
  <2>1. SUFFICES ASSUME p = <<".">> \o m, m = <<"*">> PROVE FALSE
    OBVIOUS
  <2>2. Len(p) = 2 /\ p[2] = "*"
    <3>1. /\ Len(p) = Len(<<".">>) + Len(<<"*">>)
          /\ \A i \in 1..Len(<<"*">>) : p[Len(<<".">>) + i] = <<"*">>[i]
      BY <1>4, <2>1, Joined
    <3> QED BY <1>4, <3>1
  <2>3. fmt[d + 2] = "*"
    BY <1>7, <2>2 DEF Inside, Stands
  <2>4. d + 2 \in 1..Len(fmt)
    BY <1>7, <2>2 DEF Inside
  <2> QED BY <2>3, <2>4
<1>10. w \in Width0
  BY <1>8 DEF Numeral, Width0
<1>11. p \in Precision0
  <2>1. CASE p = <<>>
    BY <2>1 DEF Precision0
  <2>2. CASE p = <<".">> \o m
    <3>1. m \in Width0
      BY <1>9, <2>2 DEF Numeral, Width0
    <3> QED BY <2>2, <3>1 DEF Precision0
  <2> QED BY <1>3, <2>1, <2>2
<1>12. Made(fl, w, p, q, c)
  BY <1>0, <1>1, <1>2, <1>10, <1>11 DEF Made
<1> QED BY <1>12

LEMMA ShapeOf ==
  ASSUME fmt \in Directive, \A i \in 1..Len(fmt) : fmt[i] # "*"
  PROVE  \E a, b, d, n \in Nat : Shape(fmt, a, b, d, n)
<1>1. PICK fl, w, p, q, c : Made(fl, w, p, q, c)
  BY MadeOf
<1>2. /\ fl \in FlagRun /\ w \in Width0 /\ p \in Precision0 /\ q \in {<<>>, <<"l">>}
      /\ c \in Conversions /\ fmt = <<"%">> \o fl \o w \o p \o q \o <<c>>
  BY <1>1 DEF Made
<1>3. PICK h, z : h = <<"%">> /\ z = <<c>>
  OBVIOUS
<1>4. /\ h \in Seq(Letters) /\ Len(h) = 1 /\ h[1] = "%"
      /\ z \in Seq(Letters) /\ Len(z) = 1 /\ z[1] = c
  <2>1. c \in Letters /\ "%" \in Letters
    BY <1>2, LettersAre
  <2> QED BY <1>3, <2>1, SingleIs
<1>5. /\ fl \in Seq(Letters) /\ \A i \in 1..Len(fl) : fl[i] \in Flags
      /\ w \in Seq(Letters) /\ Digits0(w, 1)
      /\ p \in Seq(Letters) /\ Digits0(p, 2) /\ (Len(p) # 0 => p[1] = ".")
  BY <1>2, FlagsAre, WidthsAre, PrecisionsAre
<1>6. q \in Seq(Letters) /\ (Len(q) = 0 \/ (Len(q) = 1 /\ q[1] = "l"))
  <2>1. CASE q = <<>>
    BY <2>1
  <2>2. CASE q = <<"l">>
    BY <2>2, SingleIs, LettersAre
  <2> QED BY <1>2, <2>1, <2>2
<1>7. PICK o, a0, b0, d0, n0 \in Nat :
        /\ Len(fmt) \in Nat /\ Len(fl) \in Nat /\ Len(w) \in Nat /\ Len(p) \in Nat
        /\ Len(q) \in Nat
        /\ o = 1 /\ a0 = o + Len(fl) /\ b0 = a0 + Len(w) /\ d0 = b0 + Len(p)
        /\ n0 = d0 + Len(q) /\ Len(fmt) = n0 + 1
        /\ Inside(h, fmt, 0) /\ Inside(fl, fmt, o) /\ Inside(w, fmt, a0) /\ Inside(p, fmt, b0)
        /\ Inside(q, fmt, d0) /\ Inside(z, fmt, n0)
  <2>1. Six(fmt, h, fl, w, p, q, z)
    BY <1>2, <1>3 DEF Six
  <2>2. h \in Seq(Letters) /\ z \in Seq(Letters)
    BY <1>4
  <2>3. fl \in Seq(Letters) /\ w \in Seq(Letters) /\ p \in Seq(Letters) /\ q \in Seq(Letters)
    BY <1>5, <1>6
  <2>4. Laid(fmt, h, fl, w, p, q, z)
    BY ONLY <2>1, <2>2, <2>3, SixParts
  <2>5. Len(h) = 1 /\ Len(z) = 1
    BY <1>4
  <2> QED BY ONLY <2>4, <2>5 DEF Laid
<1>8. PICK a \in Nat, b \in Nat, d \in Nat, n \in Nat :
        /\ a = 2 + Len(fl) /\ b = a + Len(w) /\ d = b + Len(p) /\ n = d + Len(q) /\ n = Len(fmt)
        /\ Stands(h, fmt, 0) /\ Stands(fl, fmt, 1) /\ Stands(w, fmt, a - 1)
        /\ Stands(p, fmt, b - 1) /\ Stands(q, fmt, d - 1) /\ Stands(z, fmt, n - 1)
        /\ Len(fl) \in Nat /\ Len(w) \in Nat /\ Len(p) \in Nat /\ Len(q) \in Nat
  <2>1. PICK a \in Nat, b \in Nat, d \in Nat, n \in Nat :
          a = a0 + 1 /\ b = b0 + 1 /\ d = d0 + 1 /\ n = n0 + 1
    OBVIOUS
  <2>2. a0 = a - 1 /\ b0 = b - 1 /\ d0 = d - 1 /\ n0 = n - 1
    BY <2>1
  <2>3. /\ a = 2 + Len(fl) /\ b = a + Len(w) /\ d = b + Len(p) /\ n = d + Len(q)
        /\ n = Len(fmt)
    BY <1>7, <2>1
  <2>4. /\ Stands(h, fmt, 0) /\ Stands(fl, fmt, 1) /\ Stands(w, fmt, a - 1)
        /\ Stands(p, fmt, b - 1) /\ Stands(q, fmt, d - 1) /\ Stands(z, fmt, n - 1)
    BY <1>7, <2>2 DEF Inside
  <2> QED BY <1>7, <2>3, <2>4
<1>9. n = Len(fmt) /\ a \in 2..n /\ b \in a..n /\ d \in b..n
  BY <1>8
<1>10. fmt[1] = "%"
  <2>1. 1 \in 1..Len(h) /\ 0 + 1 = 1
    BY <1>4
  <2> QED BY <1>4, <1>8, <2>1 DEF Stands
<1>11. \A i \in 2..(a - 1) : fmt[i] \in Flags
  <2>1. ASSUME NEW i \in 2..(a - 1) PROVE fmt[i] \in Flags
    <3>1. PICK k : k \in 1..Len(fl) /\ 1 + k = i
      <4>1. i - 1 \in 1..Len(fl) /\ 1 + (i - 1) = i
        BY <1>8
      <4> QED BY ONLY <4>1
    <3>2. Stands(fl, fmt, 1)
      BY <1>8
    <3>3. fmt[i] = fl[k]
      BY ONLY <3>1, <3>2 DEF Stands
    <3> QED BY <1>5, <3>1, <3>3
  <2> QED BY <2>1
<1>12. fmt[n] = c
  <2>1. 1 \in 1..Len(z) /\ (n - 1) + 1 = n
    BY <1>4, <1>8
  <2> QED BY <1>4, <1>8, <2>1 DEF Stands
<1>13. IF Len(q) = 0 THEN d = n ELSE d + 1 = n /\ fmt[d] = "l"
  <2>1. CASE Len(q) = 0
    BY <1>8, <2>1
  <2>2. CASE Len(q) = 1 /\ q[1] = "l"
    <3>1. 1 \in 1..Len(q) /\ (d - 1) + 1 = d
      BY <1>8, <2>2
    <3> QED BY <1>8, <2>2, <3>1 DEF Stands
  <2> QED BY <1>6, <2>1, <2>2
<1>14. /\ fmt[d] \notin Flags \cup DOMAIN DigitValue \cup {"."}
       /\ IF fmt[d] \in Qualifiers THEN d + 1 = n ELSE d = n
  <2>1. CASE Len(q) = 0
    <3>1. fmt[d] = c /\ d = n
      BY <1>12, <1>13, <2>1
    <3>2. c \notin Flags \cup DOMAIN DigitValue \cup Qualifiers \cup {"."}
      BY <1>2, LettersAre
    <3> QED BY <3>1, <3>2
  <2>2. CASE Len(q) # 0
    BY <1>13, <2>2, LettersAre
  <2> QED BY <2>1, <2>2
<1>15. /\ fmt[b] \notin Flags \cup DOMAIN DigitValue
       /\ (b = d) <=> fmt[b] # "."
       /\ \A i \in (b + 1)..(d - 1) : fmt[i] \in DOMAIN DigitValue
  <2>1. CASE Len(p) = 0
    <3>1. b = d
      BY <1>8, <2>1
    <3> QED BY <1>14, <3>1
  <2>2. CASE Len(p) # 0
    <3>1. b # d /\ fmt[b] = "."
      <4>1. 1 \in 1..Len(p) /\ (b - 1) + 1 = b /\ b # d
        BY <1>8, <2>2
      <4> QED BY <1>5, <1>8, <2>2, <4>1 DEF Stands
    <3>2. ASSUME NEW i \in (b + 1)..(d - 1) PROVE fmt[i] \in DOMAIN DigitValue
      <4>1. PICK k \in Nat : k = i - b + 1
        BY ONLY b \in Nat, i \in (b + 1)..(d - 1), d \in Nat
      <4>0. d = b + Len(p) /\ Len(p) \in Nat
        BY <1>8
      <4>2. k \in 1..Len(p) /\ k \in 2..Len(p) /\ (b - 1) + k = i
        BY ONLY b \in Nat, i \in (b + 1)..(d - 1), d \in Nat, <4>0, <4>1
      <4> QED BY <1>5, <1>8, <4>2 DEF Stands, Digits0
    <3> QED BY <3>1, <3>2, LettersAre
  <2> QED BY <2>1, <2>2
<1>16. /\ fmt[a] \notin Flags
       /\ \A i \in a..(b - 1) : fmt[i] \in DOMAIN DigitValue
  <2>1. CASE Len(w) = 0
    <3>1. a = b
      BY <1>8, <2>1
    <3> QED BY <1>15, <3>1
  <2>2. CASE Len(w) # 0
    <3>1. ASSUME NEW i \in a..(b - 1) PROVE fmt[i] = w[i - a + 1] /\ i - a + 1 \in 1..Len(w)
      <4>1. PICK k \in Nat : k = i - a + 1
        BY ONLY a \in Nat, b \in Nat, i \in a..(b - 1)
      <4>2. k \in 1..Len(w) /\ (a - 1) + k = i
        BY <1>8, <4>1
      <4> QED BY <1>8, <4>1, <4>2 DEF Stands
    <3>2. \A i \in a..(b - 1) : fmt[i] \in DOMAIN DigitValue
      BY <1>5, <3>1 DEF Digits0
    <3>3. fmt[a] = w[1]
      <4>1. a \in a..(b - 1) /\ a - a + 1 = 1
        BY <1>8, <2>2
      <4> QED BY <3>1, <4>1
    <3>4. w[1] \notin Flags
      <4>1. CASE w = <<"3">>
        BY <4>1 DEF Flags
      <4>2. CASE w = <<"1", "3">>
        BY <4>2 DEF Flags
      <4>3. CASE w = <<>>
        BY <2>2, <4>3
      <4> QED BY <1>2, <4>1, <4>2, <4>3 DEF Width0
    <3> QED BY <3>2, <3>3, <3>4
  <2> QED BY <2>1, <2>2
<1>17. Shape(fmt, a, b, d, n)
  BY <1>2, <1>9, <1>10, <1>11, <1>12, <1>14, <1>15, <1>16 DEF Shape
<1> QED BY <1>17

LEMMA FieldFits ==
  ASSUME NEW f \in FieldRec, Fits(f)
  PROVE  Length(f) = Larger(f.width, Length([f EXCEPT !.lead = 0, !.pad = 0, !.trail = 0]))
<1>1. /\ f.lead \in Nat /\ f.pad \in Nat /\ f.trail \in Nat /\ f.prefix \in Nat
      /\ f.zeros \in Nat /\ f.len \in Nat /\ f.width \in Int
  BY DEF FieldRec
<1>2. PICK s \in Nat : s = IF f.sign = "" THEN 0 ELSE 1
  OBVIOUS
<1>3. PICK g : g = [f EXCEPT !.lead = 0, !.pad = 0, !.trail = 0]
  OBVIOUS
<1>4. /\ g.lead = 0 /\ g.pad = 0 /\ g.trail = 0 /\ g.sign = f.sign /\ g.prefix = f.prefix
      /\ g.zeros = f.zeros /\ g.len = f.len
  BY <1>3 DEF FieldRec
<1>5. Length(g) = 0 + s + f.prefix + 0 + f.zeros + f.len + 0
  BY <1>2, <1>4 DEF Length
<1>6. Bare(f) = s + f.prefix + f.zeros + f.len
  BY <1>2 DEF Bare
<1>7. Length(g) = Bare(f)
  BY ONLY <1>1, <1>5, <1>6, s \in Nat
<1>8. Length(f) = f.lead + s + f.prefix + f.pad + f.zeros + f.len + f.trail
  BY <1>2 DEF Length
<1>9. Length(f) = f.lead + f.pad + f.trail + Bare(f)
  BY ONLY <1>1, <1>6, <1>8, s \in Nat
<1> QED BY <1>3, <1>7, <1>9 DEF Fits

LEMMA FormatsInvSound == ASSUME FormatsInv PROVE FormatsSound
<1>1. CallTypes /\ ReadTypes /\ TakenInv /\ OutInv /\ ShapeInv /\ fmt \in Seq(STRING)
  BY DEF FormatsInv, CallTypes
<1>2. TypeOK
  <2>1. taken \in 0..Len(args)
    <3>1. at \in Nat
      BY <1>1 DEF ReadTypes
    <3>2. PICK x, y : x = Cardinality(Behind(at)) /\ y = Cardinality(Converted(fmt))
      OBVIOUS
    <3>3. x \in Nat /\ y \in Nat /\ x <= y
      BY <1>1, <3>1, <3>2, BehindIs
    <3>4. taken \in Nat /\ taken <= x /\ y <= Len(args) /\ Len(args) \in Nat
      BY <1>1, <3>2 DEF TakenInv, CallTypes
    <3> QED BY ONLY <3>3, <3>4
  <2> QED BY <1>1, <2>1 DEF TypeOK, ReadTypes
<1>3. \A f \in Fields : f \in FieldRec /\ Fits(f) /\ Reads2(f)
  <2>1. ASSUME NEW i \in DOMAIN out, out[i].kind # "text"
        PROVE  out[i] \in FieldRec /\ Fits(out[i]) /\ Reads2(out[i])
    <3>1. out[i] \in GoodFields
      BY <1>1 DEF OutInv
    <3> QED BY <2>1, <3>1 DEF GoodFields, GoodField
  <2> QED BY <2>1 DEF Fields
<1>4. FieldsFit
  <2>1. ASSUME NEW f \in Fields
        PROVE  /\ Length(f) = Larger(f.width, Length([f EXCEPT !.lead = 0, !.pad = 0, !.trail = 0]))
               /\ IF f.left THEN f.lead = 0 /\ f.pad = 0 ELSE f.trail = 0
               /\ f.kind \in {"signed", "unsigned"} => f.zeros + f.len >= f.precision
    <3>1. f \in FieldRec /\ Fits(f)
      BY <1>3
    <3>2. Length(f) = Larger(f.width, Length([f EXCEPT !.lead = 0, !.pad = 0, !.trail = 0]))
      BY <3>1, FieldFits
    <3> QED BY <3>1, <3>2 DEF Fits
  <2> QED BY <2>1 DEF FieldsFit
<1>5. ReadsBack
  BY <1>3 DEF ReadsBack, Reads2
<1>6. DirectiveRead
  <2>1. SUFFICES ASSUME step = "text", Ch(at) = NUL, fmt \in Directive
                 PROVE  /\ taken = Takes(fmt)
                        /\ Len(out) = (IF Ch(Len(fmt)) = "n" THEN 0 ELSE 1)
    BY DEF DirectiveRead
  <2>2. \A i \in 1..Len(fmt) : fmt[i] # "*"
    BY <1>1 DEF CallTypes
  <2>3. PICK a, b, d, n \in Nat : Shape(fmt, a, b, d, n)
    BY <2>1, <2>2, ShapeOf
  <2>4. Aligned(a, b, d, n)
    BY <1>1, <2>3 DEF ShapeInv
  <2>5. /\ 1 \in 1..n /\ Len(fmt) = n /\ Ch(1) = "%" /\ Ch(n) = fmt[n]
    <3>1. 1 \in 1..n /\ Len(fmt) = n /\ \A i \in 1..n : Ch(i) = fmt[i]
      BY <1>1, <2>3, ShapeChars
    <3>2. n \in 1..n
      BY <3>1
    <3> QED BY <2>3, <3>1, <3>2 DEF Shape
  <2>6. at # 1
    BY <2>1, <2>5 DEF NUL
  <2>7. taken = 1 /\ Len(out) = (IF fmt[n] = "n" THEN 0 ELSE 1)
    BY <2>1, <2>4, <2>6 DEF Aligned
  <2>8. Takes(fmt) = 1
    <3>1. {i \in DOMAIN fmt : fmt[i] = "*"} = {}
      BY <1>1, <2>2
    <3>2. Cardinality({i \in DOMAIN fmt : fmt[i] = "*"}) = 0
      BY <3>1, FS_EmptySet
    <3> QED BY <3>2 DEF Takes
  <2> QED BY <2>5, <2>7, <2>8
<1> QED BY <1>2, <1>4, <1>5, <1>6 DEF FormatsSound

\* Whatever is printed, with arguments for the conversions in it and no star, every field
\* has the width and the digits that were asked for and shows its argument, the least word
\* included, and each directive takes its argument and leaves nothing of itself in the
\* text (vsprintf.cpp:48-91, 143-197), for any width of a word.
THEOREM FormatsAlwaysSound == AllSpec => []FormatsSound
<1>1. AllInit => FormatsInv
  BY FormatsInit
<1>2. FormatsInv /\ [AllNext]_allVars => FormatsInv'
  BY FormatsAllNext
<1>3. FormatsInv => FormatsSound
  BY FormatsInvSound
<1> QED BY <1>1, <1>2, <1>3, PTL DEF AllSpec
=============================================================================
