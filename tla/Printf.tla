------------------------------- MODULE Printf -------------------------------
(***************************************************************************)
(* vsprintf and number of lib/vsprintf.cpp, which every program prints      *)
(* through: a format is read character by character, and what a directive   *)
(* writes is a field, a record of how much of what stands in it.            *)
(***************************************************************************)
EXTENDS Integers, Sequences, FiniteSets, SequencesExt

CONSTANTS
  Printed,  \* what is printed: a format, which is a sequence of characters, and arguments
  HALF      \* a word is one of -HALF..HALF - 1

\* "t" is a character of no meaning; NUL ends a format.
Flags == {"-", "+", " ", "#", "0"}
DigitValue == [c \in {"0", "1", "3"} |-> CASE c = "0" -> 0 [] c = "1" -> 1 [] c = "3" -> 3]
Qualifiers == {"h", "l", "L"}
Numbers == {"o", "p", "x", "X", "d", "i", "u"}
Conversions == Numbers \cup {"c", "s", "n"}
NUL == "NUL"

\* There is an argument for each conversion that may be behind a percent sign.
Converted(f) ==
  {i \in DOMAIN f : f[i] \in Conversions /\ \E j \in 1..(i - 1) : f[j] = "%"}
ASSUME PrintfAssumption ==
  /\ HALF \in Nat \ {0}
  /\ \A p \in Printed : /\ p[1] \in Seq(STRING) /\ p[2] \in Seq(-HALF..(HALF - 1))
                       /\ Cardinality(Converted(p[1])) <= Len(p[2])

VARIABLES fmt, at,     \* the format and where it is read
          step,        \* which part of a directive comes next
          flags, width, precision,
          args, taken, \* the arguments, and how many have been taken
          out          \* what has been written

vars == <<fmt, at, step, flags, width, precision, args, taken, out>>
dirVars == <<flags, width, precision>>

Ch(i) == IF i <= Len(fmt) THEN fmt[i] ELSE NUL
Larger(a, b) == IF a > b THEN a ELSE b

-----------------------------------------------------------------------------
(* Fields *)

Word(n) == ((n + HALF) % (2 * HALF)) - HALF
Unsigned(n) == n % (2 * HALF)
Digits(n, base) ==
  LET digits[m \in 0..(2 * HALF - 1)] == IF m < base THEN 1 ELSE 1 + digits[m \div base]
  IN digits[n]

Blank == [kind |-> "text", arg |-> 0, width |-> -1, precision |-> -1, left |-> FALSE,
          lead |-> 0, sign |-> "", prefix |-> 0, pad |-> 0, zeros |-> 0,
          value |-> 0, len |-> 1, trail |-> 0]
Length(f) == f.lead + (IF f.sign = "" THEN 0 ELSE 1) + f.prefix + f.pad + f.zeros + f.len + f.trail

Base(conv) == CASE conv = "o" -> 8 [] conv \in {"p", "x", "X"} -> 16 [] OTHER -> 10

\* number: the size left once sign, prefix and digits have their place.  Faulty: the
\* prefix has none.
SizeNoPrefix(size, sign, prefix, count) == size - sign - count
SizeLeft(size, sign, prefix, count) == size - sign - prefix - count

\* Faulty: the least word is not negated as an unsigned one.
MagnitudeWord(n) == IF n < 0 THEN -(n + 1) ELSE n
Magnitude(n) == IF n < 0 THEN Unsigned(Word(-n)) ELSE n

Number(arg, conv, size, prec, type) ==
  LET signed == conv \in {"d", "i"}
      base == Base(conv)
      sign == CASE signed /\ arg < 0 -> "-"
                [] ~(signed /\ arg < 0) /\ "+" \in type -> "+"
                [] ~(signed /\ arg < 0) /\ "+" \notin type /\ " " \in type -> " "
                [] OTHER -> ""
      prefix == IF "#" \notin type THEN 0 ELSE IF base = 16 THEN 2 ELSE IF base = 8 THEN 1 ELSE 0
      value == IF signed THEN Magnitude(arg) ELSE Unsigned(arg)
      count == Larger(prec, Digits(value, base))
      room == Larger(0, SizeLeft(size, IF sign = "" THEN 0 ELSE 1, prefix, count))
      left == "-" \in type
      zero == "0" \in type /\ ~left
  IN [kind |-> IF signed THEN "signed" ELSE "unsigned", arg |-> arg, width |-> size,
      precision |-> prec, left |-> left,
      lead |-> IF ~left /\ ~zero THEN room ELSE 0, sign |-> sign, prefix |-> prefix,
      pad |-> IF zero THEN room ELSE 0, zeros |-> count - Digits(value, base),
      value |-> value, len |-> Digits(value, base), trail |-> IF left THEN room ELSE 0]

\* %c and %s; an argument stands for a string of that many characters, 0 for a null
\* pointer.
NULLTEXT == 6   \* "(null)"
Text(kind, arg, len) ==
  LET room == Larger(0, width - len)
      left == "-" \in flags
  IN [[Blank EXCEPT !.kind = kind, !.arg = arg, !.width = width, !.left = left]
        EXCEPT !.lead = IF left THEN 0 ELSE room, !.len = len,
               !.trail = IF left THEN room ELSE 0]
StringLength(arg) ==
  LET len == IF arg = 0 THEN NULLTEXT ELSE Unsigned(arg)
  IN IF precision >= 0 /\ len > precision THEN precision ELSE len

Field(conv, arg) ==
  CASE conv \in Numbers ->
         IF conv = "p" /\ width = -1 THEN Number(arg, conv, 8, precision, flags \cup {"0"})
         ELSE Number(arg, conv, width, precision, flags)
    [] conv = "c" -> Text("char", arg, 1)
    [] conv = "s" -> Text("string", arg, StringLength(arg))

-----------------------------------------------------------------------------
(* The format *)

NextArg == args[taken + 1]

Literal ==
  /\ step = "text" /\ Ch(at) \notin {"%", NUL}
  /\ out' = Append(out, Blank) /\ at' = at + 1
  /\ UNCHANGED <<fmt, step, dirVars, args, taken>>

Begin ==
  /\ step = "text" /\ Ch(at) = "%"
  /\ at' = at + 1 /\ step' = "flags" /\ flags' = {} /\ width' = -1 /\ precision' = -1
  /\ UNCHANGED <<fmt, args, taken, out>>

Flag ==
  /\ step = "flags"
  /\ IF Ch(at) \in Flags
     THEN at' = at + 1 /\ flags' = flags \cup {Ch(at)} /\ step' = step
     ELSE step' = "width" /\ UNCHANGED <<at, flags>>
  /\ UNCHANGED <<fmt, width, precision, args, taken, out>>

\* skip_atoi, from i: the number there and where it ends.  Faulty: one digit only.
Digital(i) == Ch(i) \in DOMAIN DigitValue
AtoiOnce(i) == [value |-> DigitValue[Ch(i)], end |-> i + 1]
Atoi(i) ==
  LET end == CHOOSE j \in i..(Len(fmt) + 1) : ~Digital(j) /\ \A k \in i..(j - 1) : Digital(k)
      value[k \in 0..(end - i)] ==
        IF k = 0 THEN 0 ELSE 10 * value[k - 1] + DigitValue[fmt[i + k - 1]]
  IN [value |-> value[end - i], end |-> end]

\* A star takes an argument and stays: nothing goes on past it.
Width ==
  /\ step = "width" /\ step' = "precision"
  /\ \/ /\ Digital(at)
        /\ width' = Atoi(at).value /\ at' = Atoi(at).end
        /\ UNCHANGED <<flags, taken>>
     \/ /\ Ch(at) = "*"
        /\ taken' = taken + 1
        /\ width' = IF NextArg < 0 THEN Word(-NextArg) ELSE NextArg
        /\ flags' = IF NextArg < 0 THEN flags \cup {"-"} ELSE flags
        /\ at' = at
     \/ /\ ~Digital(at) /\ Ch(at) # "*"
        /\ UNCHANGED <<at, flags, width, taken>>
  /\ UNCHANGED <<fmt, precision, args, out>>

Precision ==
  /\ step = "precision" /\ step' = "convert"
  /\ \/ /\ Ch(at) = "." /\ Digital(at + 1)
        /\ precision' = Atoi(at + 1).value /\ at' = Atoi(at + 1).end
        /\ taken' = taken
     \/ /\ Ch(at) = "." /\ Ch(at + 1) = "*"
        /\ taken' = taken + 1 /\ precision' = Larger(0, NextArg) /\ at' = at + 1
     \/ /\ Ch(at) = "." /\ ~Digital(at + 1) /\ Ch(at + 1) # "*"
        /\ precision' = 0 /\ at' = at + 1 /\ taken' = taken
     \/ /\ Ch(at) # "." /\ UNCHANGED <<at, precision, taken>>
  /\ UNCHANGED <<fmt, flags, width, args, out>>

\* A character of no meaning is printed behind a percent sign.  At the end of the
\* format the reading stays in front of it.  Faulty: it goes past.
PastEnd(i) == i + 1
AfterConversion(i) == IF Ch(i) = NUL THEN i ELSE i + 1

\* The qualifier is read and changes nothing.
Convert ==
  LET i == IF Ch(at) \in Qualifiers THEN at + 1 ELSE at
      c == Ch(i)
  IN /\ step = "convert" /\ step' = "text"
     /\ at' = AfterConversion(i)
     /\ \/ /\ c \in Conversions /\ taken' = taken + 1
           /\ out' = IF c = "n" THEN out ELSE Append(out, Field(c, NextArg))
        \/ /\ c \notin Conversions /\ taken' = taken
           /\ out' = out \o (IF c # "%" THEN <<Blank>> ELSE <<>>)
                         \o (IF c # NUL THEN <<Blank>> ELSE <<>>)
     /\ UNCHANGED <<fmt, dirVars, args>>

Finish == step = "text" /\ Ch(at) = NUL /\ UNCHANGED vars

Called(p) ==
  /\ fmt = p[1] /\ args = p[2]
  /\ at = 1 /\ step = "text" /\ flags = {} /\ width = -1 /\ precision = -1
  /\ taken = 0 /\ out = <<>>

Init == \E p \in Printed : Called(p)

Next == Literal \/ Begin \/ Flag \/ Width \/ Precision \/ Convert \/ Finish

Spec == Init /\ [][Next]_vars

-----------------------------------------------------------------------------
(* Properties *)

TypeOK ==
  /\ at \in 1..(Len(fmt) + 1) /\ taken \in 0..Len(args)
  /\ step \in {"text", "flags", "width", "precision", "convert"}
  /\ flags \subseteq Flags /\ width \in Int /\ precision \in Int

Fields == {out[i] : i \in {j \in DOMAIN out : out[j].kind # "text"}}

\* A field is as wide as was asked, or as what stands in it, whichever is more; it is
\* filled on one side only, on the right if that was asked, and a number has the
\* digits asked for (vsprintf.cpp:52-91, 174-197).
FieldsFit ==
  \A f \in Fields :
    /\ Length(f) = Larger(f.width, Length([f EXCEPT !.lead = 0, !.pad = 0, !.trail = 0]))
    /\ IF f.left THEN f.lead = 0 /\ f.pad = 0 ELSE f.trail = 0
    /\ f.kind \in {"signed", "unsigned"} => f.zeros + f.len >= f.precision

\* The digits of a number and its sign are the argument, the least one included
\* (vsprintf.cpp:48-66).
ReadsBack ==
  \A f \in Fields :
    /\ f.kind = "signed" => f.arg = (IF f.sign = "-" THEN -f.value ELSE f.value)
    /\ f.kind = "unsigned" => Unsigned(f.arg) = f.value /\ f.sign # "-"

\* A reference: what the format's directives are, each with the arguments it takes.
Single(S) == {<<c>> : c \in S}
Some(S) == {<<>>} \cup Single(S)
Numeral == {<<>>, <<"3">>, <<"1", "3">>, <<"*">>}
FlagRun == UNION {[1..n -> Flags] : n \in 0..2}
Precise == {<<>>} \cup {<<".">> \o n : n \in Numeral}
Directive == {h \o f \o w \o p \o q \o c : h \in Single({"%"}), f \in FlagRun, w \in Numeral,
                p \in Precise, q \in Some({"l"}), c \in Single(Conversions)}
Takes(d) == 1 + Cardinality({i \in DOMAIN d : d[i] = "*"})

\* A directive takes all its arguments and leaves nothing of itself in the text: one
\* in a format writes one field (vsprintf.cpp:143, 158).
DirectiveRead ==
  (step = "text" /\ Ch(at) = NUL /\ fmt \in Directive) =>
    /\ taken = Takes(fmt)
    /\ Len(out) = (IF Ch(Len(fmt)) = "n" THEN 0 ELSE 1)
=============================================================================
