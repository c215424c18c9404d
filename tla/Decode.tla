------------------------------- MODULE Decode -------------------------------
(* js_decode and css_decode (src/decode.c), which the transforms of the same *)
(* names call.  Both replace the escapes of a buffer in place.  A buffer is a *)
(* sequence of bytes; positions count from 0; the byte behind it is NUL.     *)
(* A step is one round of the loop: how many bytes it takes from position i  *)
(* on, and what it emits for them.                                           *)
EXTENDS Integers, Sequences, SequencesExt

Backslash == 92

Byte_(x, i) == IF i < Len(x) THEN x[i + 1] ELSE 0

HexDigits  == 48..57 \union 65..70 \union 97..102   \* VALID_HEX
OctDigits  == 48..55                                \* ISODIGIT
IsF(c)     == c \in {70, 102}
IsSpace(c) == c \in 9..13 \union {32}

HexDigit(c) == IF c <= 57 THEN c - 48 ELSE IF c <= 70 THEN c - 55 ELSE c - 87

\* x2c.
X2c(high, low) == 16 * HexDigit(high) + HexDigit(low)

\* The number of bytes of a class from i on, at most max.
Run(x, i, class, max) ==
    LET k == SelectInSubSeq(x, i + 1, Len(x), LAMBDA c : c \notin class)
        n == IF k = 0 THEN Len(x) - i ELSE k - 1 - i
    IN  IF n < max THEN n ELSE max

\* Full width ASCII, ff01 to ff5e, becomes ASCII.
Narrow(v, full) == IF full /\ v \in 1..94 THEN v + 32 ELSE v

Step(take, emit) == [take |-> take, emit |-> emit]

\* \a \b \f \n \r \t \v; others stand for themselves.
ControlOf == [c \in {97, 98, 102, 110, 114, 116, 118} |->
    CASE c = 97 -> 7 [] c = 98 -> 8 [] c = 102 -> 12 [] c = 110 -> 10
      [] c = 114 -> 13 [] c = 116 -> 9 [] c = 118 -> 11]

\* Of three octal digits the last is left alone if the first exceeds 3.
OctalEscape(x, i) ==
    LET read == Run(x, i + 1, OctDigits, 3)
        j    == IF read = 3 /\ x[i + 2] > 51 THEN 2 ELSE read
    IN  Step(1 + j, <<FoldLeft(LAMBDA v, c : 8 * v + c - 48, 0, SubSeq(x, i + 2, i + 1 + j))>>)

JsStep(x, i) ==
    LET b(k) == Byte_(x, i + k)
        hex  == Run(x, i + 2, HexDigits, 4)
    IN  IF b(0) # Backslash THEN Step(1, <<b(0)>>)
        ELSE IF b(1) = 117 /\ hex = 4                                    \* \uHHHH
          THEN Step(6, <<Narrow(X2c(b(4), b(5)), IsF(b(2)) /\ IsF(b(3)))>>)
        ELSE IF b(1) = 120 /\ hex >= 2 THEN Step(4, <<X2c(b(2), b(3))>>)  \* \xHH
        ELSE IF b(1) \in OctDigits THEN OctalEscape(x, i)                \* \OOO
        ELSE IF i + 1 = Len(x) THEN Step(1, <<Backslash>>)
        ELSE Step(2, <<IF b(1) \in DOMAIN ControlOf THEN ControlOf[b(1)] ELSE b(1)>>)

\* One to six hexadecimal digits, of which the last two count, and a white
\* character after them.
CssStep(x, i) ==
    LET b(k) == Byte_(x, i + k)
        j    == Run(x, i + 1, HexDigits, 6)
        full == /\ \/ j = 4
                   \/ j = 5 /\ b(1) = 48
                   \/ j = 6 /\ b(1) = 48 /\ b(2) = 48
                /\ IsF(b(j - 2)) /\ IsF(b(j - 3))
        value == IF j = 1 THEN HexDigit(b(1)) ELSE Narrow(X2c(b(j - 1), b(j)), full)
    IN  IF b(0) # Backslash THEN Step(1, <<b(0)>>)
        ELSE IF i + 1 = Len(x) THEN Step(1, <<>>)
        ELSE IF j > 0 THEN Step(1 + j + (IF IsSpace(b(1 + j)) THEN 1 ELSE 0), <<value>>)
        ELSE IF b(1) = 10 THEN Step(2, <<>>)
        ELSE Step(2, <<b(1)>>)

DecodeBy(NextStep(_, _), x) ==
    LET rest[i \in 0..Len(x)] ==
            IF i = Len(x) THEN <<>>
            ELSE LET step == NextStep(x, i) IN step.emit \o rest[i + step.take]
    IN  rest[0]

js_decode(x)  == DecodeBy(JsStep, x)
css_decode(x) == DecodeBy(CssStep, x)

-----------------------------------------------------------------------------
(* The escapes of a byte that a decoder is to undo.                        *)

Hex(d) == IF d < 10 THEN 48 + d ELSE 87 + d
HexOf(c) == <<Hex(c \div 16), Hex(c % 16)>>

JsEscapes == [
    unicode |-> [c \in 0..255 |-> <<Backslash, 117, 48, 48>> \o HexOf(c)],
    hex     |-> [c \in 0..255 |-> <<Backslash, 120>> \o HexOf(c)],
    octal   |-> [c \in 0..255 |-> <<Backslash, 48 + c \div 64, 48 + ((c \div 8) % 8), 48 + (c % 8)>>]]

CssEscapes == [
    spaced |-> [c \in 0..255 |-> <<Backslash>> \o HexOf(c) \o <<32>>],
    padded |-> [c \in 0..255 |-> <<Backslash, 48, 48, 48, 48>> \o HexOf(c)]]

Escaped(escape, x) == FlattenSeq([k \in DOMAIN x |-> escape[x[k]]])

\* Whatever text is written in escapes of one form, also next to text that
\* reads on like an escape, is what the decoder returns; and no round of its
\* loop writes more than it has read, so it can work in place (decode.c:29).
UndoesEscapes(x) ==
    /\ \A form \in DOMAIN JsEscapes : js_decode(Escaped(JsEscapes[form], x)) = x
    /\ \A form \in DOMAIN CssEscapes : css_decode(Escaped(CssEscapes[form], x)) = x
    /\ \A form \in DOMAIN JsEscapes, k \in DOMAIN x :
          js_decode(JsEscapes[form][x[k]] \o x) = <<x[k]>> \o js_decode(x)
    /\ \A i \in 0..Len(x) - 1 : \A step \in {JsStep(x, i), CssStep(x, i)} :
          Len(step.emit) <= step.take /\ i + step.take <= Len(x)
=============================================================================
