-------------------------------- MODULE Text --------------------------------
(* Texts as sequences of characters.  Positions count from 0 as in the C   *)
(* code; the byte at the length of a text is the NUL that ends it.         *)
EXTENDS Integers, Sequences, SequencesExt

NUL  == "nul"
HIGH == "0xff"
TICK == "tick"   \* a back quote

SmallLetters   == <<"a","b","c","d","e","f","g","h","i","j","k","l","m",
                    "n","o","p","q","r","s","t","u","v","w","x","y","z">>
CapitalLetters == <<"A","B","C","D","E","F","G","H","I","J","K","L","M",
                    "N","O","P","Q","R","S","T","U","V","W","X","Y","Z">>
Capitals == ToSet(CapitalLetters)
Letters == ToSet(SmallLetters) \union Capitals

CapitalOf ==
    [a |-> "A", b |-> "B", c |-> "C", d |-> "D", e |-> "E", f |-> "F",
     g |-> "G", h |-> "H", i |-> "I", j |-> "J", k |-> "K", l |-> "L",
     m |-> "M", n |-> "N", o |-> "O", p |-> "P", q |-> "Q", r |-> "R",
     s |-> "S", t |-> "T", u |-> "U", v |-> "V", w |-> "W", x |-> "X",
     y |-> "Y", z |-> "Z"]
Upper(c) == IF c \in DOMAIN CapitalOf THEN CapitalOf[c] ELSE c
Uppered(w) == [k \in DOMAIN w |-> Upper(w[k])]

At(s, p) == IF p < Len(s) THEN s[p + 1] ELSE NUL

\* The first position from p on with a character of the set, else the end.
First(s, chars, p) ==
    LET k == SelectInSubSeq(s, p + 1, Len(s), LAMBDA c : c \in chars)
    IN  IF k = 0 THEN Len(s) ELSE k - 1

WordAt(s, p, n) == SubSeq(s, p + 1, IF p + n < Len(s) THEN p + n ELSE Len(s))

\* The first position from p on at which one of the words begins, else -1.
FirstWord(s, words, p) ==
    LET begins(k) == \E w \in words : WordAt(s, k - 1, Len(w)) = w
    IN  SelectInSeq([k \in 1..Len(s) |-> k > p /\ begins(k)], LAMBDA b : b) - 1
=============================================================================
