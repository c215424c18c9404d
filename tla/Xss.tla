-------------------------------- MODULE Xss --------------------------------
(* libinjection_xss(): the input is tokenized in five contexts, one after  *)
(* the other, until a token is found that is banned.                       *)
EXTENDS Html5

CONSTANT Inputs

ASSUME InputsAssumption == \A text \in Inputs : text \in Seq(STRING)

VARIABLES s,         \* the input
          context,   \* the context it is tokenized in
          h5,        \* the tokenizer
          attr,      \* what the attribute name before a value calls for
          verdict

vars == <<s, context, h5, attr, verdict>>

ContextOrder == <<"DATA_STATE", "VALUE_NO_QUOTE", "VALUE_SINGLE_QUOTE",
                  "VALUE_DOUBLE_QUOTE", "VALUE_BACK_QUOTE">>

-----------------------------------------------------------------------------
(* Character codes, as far as the decoder of references tells them apart.  *)

Digits == <<"0", "1", "2", "3", "4", "5", "6", "7", "8", "9">>
Signs  == <<"!", "\"", "#", "$", "%", "&", "'", "(", ")", "*", "+", ",", "-", ".", "/">>

IndexIn(seq, c) == SelectInSeq(seq, LAMBDA e : e = c)

Code(c) ==
    CASE c = NUL  -> 0
      [] c = "\n" -> 10
      [] c = " "  -> 32
      [] c = HIGH -> 255
      [] c = TICK -> 96
      [] Contains(Signs, c)  -> 32 + IndexIn(Signs, c)
      [] Contains(Digits, c) -> 47 + IndexIn(Digits, c)
      [] c \in Letters -> IF Upper(c) = c THEN 64 + IndexIn(CapitalLetters, c)
                          ELSE 96 + IndexIn(SmallLetters, c)
      [] OTHER -> CASE c = ";" -> 59 [] c = "<" -> 60 [] c = "=" -> 61 [] c = ">" -> 62
                    [] c = "?" -> 63 [] c = "[" -> 91 [] c = "\\" -> 92 [] c = "]" -> 93

\* gsHexDecodeMap; 256 is no digit.
HexValue(c) == IF Contains(Digits, c) THEN IndexIn(Digits, c) - 1
               ELSE IF Upper(c) \in {"A", "B", "C", "D", "E", "F"}
                 THEN 9 + IndexIn(CapitalLetters, Upper(c))
               ELSE 256

MaxReference == 1048831   \* 0x1000FF

\* html_decode_char_at: the character at p, of n that are left of the value.
\* The bytes after "&#" are read without a look at n; a reference without
\* digits, or too large, is only its "&".
HtmlDecodeCharAt(p, n) ==
    LET hex     == Upper(At(s, p + 2)) = "X"
        base    == IF hex THEN 16 ELSE 10
        start   == IF hex THEN 3 ELSE 2
        isDigit(k) == HexValue(At(s, p + k)) < base
        end     == CHOOSE e \in start + 1..n + start + 1 :
                      /\ e >= n \/ ~isDigit(e)
                      /\ \A k \in start + 1..e - 1 : k < n /\ isDigit(k)
        value   == FoldLeft(LAMBDA v, k : IF v > MaxReference THEN v
                                          ELSE base * v + HexValue(At(s, p + k)),
                            0, [k \in 1..end - start |-> start + k - 1])
        plain   == [val |-> Code(At(s, p)), consumed |-> 1]
    IN  IF At(s, p) # "&" \/ n < 2 \/ At(s, p + 1) # "#" \/ ~isDigit(start) THEN plain
        ELSE IF value > MaxReference THEN plain
        ELSE [val |-> value,
              consumed |-> IF end < n /\ At(s, p + end) = ";" THEN end + 1 ELSE end]

UpperCode(v) == IF v \in 97..122 THEN v - 32 ELSE v

HtmlencodeStartswithSkips(word, p, n) ==
    LET c(o) == HtmlDecodeCharAt(p + o, n - o)
        next(o) == o + c(o).consumed
        compare[o \in 0..n] ==
            [k \in 0..Len(word) |->
                IF o >= n \/ k = Len(word) THEN k = Len(word)
                ELSE IF c(o).val <= 32 THEN compare[next(o)][k]
                ELSE /\ UpperCode(c(o).val) % 256 = Code(word[k + 1])
                     /\ compare[next(o)][k + 1]]
    IN  compare[0][0]

\* htmlencode_startswith: does the value from p on, n bytes, start with the
\* word, in spite of references, case, and the characters 0 and 10?  What is
\* compared is a char.
HtmlencodeStartswith(word, p, n) ==
    LET c(o) == HtmlDecodeCharAt(p + o, n - o)
        next(o) == o + c(o).consumed
        compare[o \in 0..n] ==
            [k \in 0..Len(word) |->
                IF o >= n \/ k = Len(word) THEN k = Len(word)
                ELSE IF c(o).val \in {0, 10} THEN compare[next(o)][k]
                ELSE /\ UpperCode(c(o).val) % 256 = Code(word[k + 1])
                     /\ compare[next(o)][k + 1]]
        first[o \in 0..n] ==
            IF o < n /\ c(o).val <= 32 THEN first[next(o)] ELSE compare[o][0]
    IN  first[0]

-----------------------------------------------------------------------------
(* The black lists.                                                        *)

\* cstrcasecmp_with_null: NULs are not compared.
Name(w) == FoldLeft(LAMBDA a, c : a \o c, "", SelectSeq(Uppered(w), LAMBDA c : c # NUL))

BLACKTAG == {"APPLET", "BASE", "COMMENT", "EMBED", "FRAME", "FRAMESET", "HANDLER",
    "IFRAME", "IMPORT", "ISINDEX", "LINK", "LISTENER", "META", "NOSCRIPT", "OBJECT",
    "SCRIPT", "STYLE", "VMLFRAME", "XML", "XSS"}

BLACKATTR(name) ==
    CASE name \in {"ACTION", "BY", "BACKGROUND", "DYNSRC", "FORMACTION", "FOLDER", "FROM",
                   "HANDLER", "HREF", "LOWSRC", "POSTER", "SRC", "TO", "VALUES",
                   "XLINK:HREF"} -> "TYPE_ATTR_URL"
      [] name \in {"DATAFORMATAS", "DATASRC"} -> "TYPE_BLACK"
      [] name \in {"FILTER", "STYLE"}         -> "TYPE_STYLE"
      [] name = "ATTRIBUTENAME"               -> "TYPE_ATTR_INDIRECT"
      [] OTHER -> "TYPE_NONE"

\* The text of the token h, its first n characters.
Text(h)     == WordAt(s, h.token_start, h.token_len)
Start(h, n) == WordAt(s, h.token_start, n)

IsBlackTag(h) ==
    /\ h.token_len >= 3
    /\ \/ Name(Text(h)) \in BLACKTAG
       \/ Uppered(Start(h, 3)) \in {<<"S", "V", "G">>, <<"X", "S", "L">>}

IsBlackAttr(h) ==
    IF h.token_len < 2 THEN "TYPE_NONE"
    ELSE IF Uppered(Start(h, 2)) = <<"O", "N">> THEN "TYPE_BLACK"
    ELSE IF h.token_len >= 5 /\ Name(Start(h, 5)) \in {"XMLNS", "XLINK"} THEN "TYPE_BLACK"
    ELSE BLACKATTR(Name(Text(h)))

UrlWords == {<<"D","A","T","A">>, <<"V","I","E","W","-","S","O","U","R","C","E">>,
             <<"J","A","V","A">>, <<"V","B","S","C","R","I","P","T">>}

\* White characters and bytes above 126, which are negative, are skipped.
IsBlackUrl(h) ==
    LET skipped == SelectInSeq(Text(h), LAMBDA c : Code(c) \in 33..126)
        o == IF skipped = 0 THEN h.token_len ELSE skipped - 1
    IN  \E w \in UrlWords : HtmlencodeStartswith(w, h.token_start + o, h.token_len - o)

IsBlackComment(h) ==
    \/ Contains(Text(h), TICK)
    \/ h.token_len > 3 /\ Uppered(Start(h, 3)) \in {<<"[", "I", "F">>, <<"X", "M", "L">>}
    \/ h.token_len > 5 /\ Name(Start(h, 6)) \in {"IMPORT", "ENTITY"}

Banned(h) ==
    CASE h.token_type = "DOCTYPE"       -> TRUE
      [] h.token_type = "TAG_NAME_OPEN" -> IsBlackTag(h)
      [] h.token_type = "TAG_COMMENT"   -> IsBlackComment(h)
      [] h.token_type = "ATTR_VALUE"    ->
            \/ attr \in {"TYPE_BLACK", "TYPE_STYLE"}
            \/ attr = "TYPE_ATTR_URL" /\ IsBlackUrl(h)
            \/ attr = "TYPE_ATTR_INDIRECT" /\ IsBlackAttr(h) # "TYPE_NONE"
      [] OTHER -> FALSE

-----------------------------------------------------------------------------
Init ==
    /\ s \in Inputs
    /\ context = 1 /\ h5 = H5Init(ContextOrder[1]) /\ attr = "TYPE_NONE"
    /\ verdict = "none"

Running == verdict = "none" /\ h5.more

\* libinjection_is_xss, for one token.
TokenBanned ==
    /\ Running
    /\ h5' = H5Next(s, h5)
    /\ h5'.more /\ Banned(h5')
    /\ verdict' = "xss"
    /\ UNCHANGED <<s, context, attr>>

TokenPasses ==
    /\ Running
    /\ h5' = H5Next(s, h5)
    /\ ~(h5'.more /\ Banned(h5'))
    /\ attr' = IF h5'.more /\ h5'.token_type = "ATTR_NAME" THEN IsBlackAttr(h5')
               ELSE "TYPE_NONE"
    /\ UNCHANGED <<s, context, verdict>>

\* libinjection_xss: the next context, or the end.
NextContext ==
    /\ verdict = "none" /\ ~h5.more /\ context < Len(ContextOrder)
    /\ context' = context + 1
    /\ h5' = H5Init(ContextOrder[context + 1])
    /\ attr' = "TYPE_NONE"
    /\ UNCHANGED <<s, verdict>>

Benign ==
    /\ verdict = "none" /\ ~h5.more /\ context = Len(ContextOrder)
    /\ verdict' = "benign"
    /\ UNCHANGED <<s, context, h5, attr>>

Next == TokenBanned \/ TokenPasses \/ NextContext \/ Benign

Spec == Init /\ [][Next]_vars

-----------------------------------------------------------------------------
\* Tokens and positions lie within the input, though the byte behind it is
\* read and skips go past quotes without a look at the length.
TypeOK ==
    /\ s \in Inputs /\ context \in DOMAIN ContextOrder
    /\ verdict \in {"none", "xss", "benign"}
    /\ attr \in {"TYPE_NONE", "TYPE_BLACK", "TYPE_ATTR_URL", "TYPE_STYLE", "TYPE_ATTR_INDIRECT"}
    /\ h5.state \in StateNames /\ h5.token_type \in TokenTypes
    /\ h5.pos \in 0..Len(s) /\ h5.token_start \in 0..Len(s)
    /\ h5.token_len \in 0..Len(s) - h5.token_start

\* The tokens of a context follow each other without overlap, whatever the
\* states hand over and step back, and every token takes the tokenizer on
\* or changes its state.
TokensInOrder ==
    [][context' = context /\ h5'.more /\ h5' # h5 =>
          /\ h5'.token_start >= h5.token_start + h5.token_len
          /\ h5'.pos >= h5.token_start + h5.token_len
          /\ h5'.pos > h5.pos \/ h5'.state # h5.state]_vars

\* The characters of a value, one after the other.
Decoded(p, n) ==
    LET from[o \in 0..n] ==
            IF o >= n THEN <<>>
            ELSE LET c == HtmlDecodeCharAt(p + o, n - o) IN <<c.val>> \o from[o + c.consumed]
    IN  from[0]

\* What is seen of them from each on: in capitals, without 0 and 10.
Seen(codes) ==
    LET seen[i \in 1..Len(codes) + 1] ==
            IF i > Len(codes) THEN <<>>
            ELSE IF codes[i] \in {0, 10} THEN seen[i + 1]
            ELSE <<UpperCode(codes[i]) % 256>> \o seen[i + 1]
    IN  seen

\* Does a decoded value start with the word, behind its leading white and control
\* characters?
DecodedStart(word, codes) ==
    LET first == SelectInSeq(codes, LAMBDA v : ~(v <= 32))
    IN  IsPrefix([k \in DOMAIN word |-> Code(word[k])],
                 IF first = 0 THEN <<>> ELSE Seen(codes)[first])

\* A value is decoded within its bounds (xss.c:263 counts n down without
\* a sign, and xss.c:81-112 read on without a look at it), because what ends
\* a value is no digit; and the words are found by their definition.
UrlStartsRight ==
    h5.more /\ h5.token_type = "ATTR_VALUE" =>
        /\ \A o \in 0..h5.token_len - 1 :
              HtmlDecodeCharAt(h5.token_start + o, h5.token_len - o).consumed
                  <= h5.token_len - o
        /\ \A w \in UrlWords :
              HtmlencodeStartswith(w, h5.token_start, h5.token_len)
                  = DecodedStart(w, Decoded(h5.token_start, h5.token_len))
=============================================================================
