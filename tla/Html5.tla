------------------------------- MODULE Html5 -------------------------------
(* The HTML tokenizer of libinjection (libinjection_html5.c).  The input   *)
(* is a sequence of characters, " " standing for every white one but the   *)
(* newline, which values skip (Xss), and NUL.                              *)
(* Positions count from 0 as in the code; the byte at the length of the    *)
(* input is the NUL that ends it.  Each operator is a function of the      *)
(* code: it takes the input and the tokenizer h, and returns h with the    *)
(* next token, or with more = FALSE where the code returns 0.              *)
EXTENDS Integers, Sequences, SequencesExt, Text

\* h5_is_white: strchr finds the terminator, so NUL is white.
White == {" ", "\n", NUL}

Contexts == {"DATA_STATE", "VALUE_NO_QUOTE", "VALUE_SINGLE_QUOTE",
             "VALUE_DOUBLE_QUOTE", "VALUE_BACK_QUOTE"}
StateNames ==
    {"eof", "data", "tag_open", "tag_name_close", "self_closing_start_tag",
     "after_attribute_name", "before_attribute_name", "before_attribute_value",
     "attribute_value_double_quote", "attribute_value_single_quote",
     "attribute_value_back_quote", "after_attribute_value_quoted_state"}
TokenTypes ==
    {"DATA_TEXT", "TAG_NAME_OPEN", "TAG_NAME_CLOSE", "TAG_NAME_SELFCLOSE", "TAG_CLOSE",
     "ATTR_NAME", "ATTR_VALUE", "TAG_COMMENT", "DOCTYPE"}

\* libinjection_h5_init.
H5Init(flags) ==
    [pos |-> 0, is_close |-> FALSE, more |-> TRUE,
     state |-> CASE flags = "DATA_STATE"         -> "data"
                 [] flags = "VALUE_NO_QUOTE"     -> "before_attribute_name"
                 [] flags = "VALUE_SINGLE_QUOTE" -> "attribute_value_single_quote"
                 [] flags = "VALUE_DOUBLE_QUOTE" -> "attribute_value_double_quote"
                 [] flags = "VALUE_BACK_QUOTE"   -> "attribute_value_back_quote",
     token_start |-> 0, token_len |-> 0, token_type |-> "DATA_TEXT"]

\* The token from start to end; the tokenizer goes on at pos in the state.
Token(h, type, start, end, pos, state) ==
    [h EXCEPT !.token_type = type, !.token_start = start, !.token_len = end - start,
              !.pos = pos, !.state = state]

Goto(h, pos) == [h EXCEPT !.pos = pos]
Nothing(h) == [h EXCEPT !.more = FALSE]

\* h5_skip_white returns a char: 0xff is taken for CHAR_EOF.
SkipWhite(s, h) == LET p == h.pos + 1
                       k == SelectInSubSeq(s, p, Len(s), LAMBDA c : c \notin White)
                   IN  IF k = 0 THEN Len(s) ELSE k - 1
IsEOF(s, p) == p = Len(s) \/ At(s, p) = HIGH

DataTextAtBracket(s, h) ==
    LET lt == First(s, {"<"}, h.pos)
    IN  IF lt = Len(s)
          THEN [Token(h, "DATA_TEXT", h.pos, lt, h.pos, "eof") EXCEPT !.more = h.pos < lt]
          ELSE Token(h, "DATA_TEXT", h.pos, lt, lt, "tag_open")

DataText(s, h) ==
    LET lt == First(s, {"<"}, h.pos)
    IN  IF lt = Len(s)
          THEN [Token(h, "DATA_TEXT", h.pos, lt, h.pos, "eof") EXCEPT !.more = h.pos < lt]
          ELSE Token(h, "DATA_TEXT", h.pos, lt, lt + 1, "tag_open")

-----------------------------------------------------------------------------
(* Tags and attributes.                                                    *)

TagNameClose(s, h) ==
    [Token(h, "TAG_NAME_CLOSE", h.pos, h.pos + 1, h.pos + 1,
           IF h.pos + 1 < Len(s) THEN "data" ELSE "eof") EXCEPT !.is_close = FALSE]

\* NULs belong to the name.
TagName(s, h) ==
    LET e == First(s, (White \ {NUL}) \union {"/", ">"}, h.pos)
        name(pos, state) == Token(h, "TAG_NAME_OPEN", h.pos, e, pos, state)
    IN  IF e = Len(s) THEN name(h.pos, "eof")
        ELSE IF At(s, e) \in White THEN name(e + 1, "before_attribute_name")
        ELSE IF At(s, e) = "/" THEN name(e + 1, "self_closing_start_tag")
        ELSE IF h.is_close
          THEN [Token(h, "TAG_CLOSE", h.pos, e, e + 1, "data") EXCEPT !.is_close = FALSE]
        ELSE name(e, "tag_name_close")

\* Whatever its first character, an attribute name is not empty.
AttributeName(s, h) ==
    LET e == First(s, White \union {"/", "=", ">"}, h.pos + 1)
        name(pos, state) == Token(h, "ATTR_NAME", h.pos, e, pos, state)
    IN  IF e = Len(s) THEN name(e, "eof")
        ELSE IF At(s, e) \in White THEN name(e + 1, "after_attribute_name")
        ELSE IF At(s, e) = "/" THEN name(e + 1, "self_closing_start_tag")
        ELSE IF At(s, e) = "=" THEN name(e + 1, "before_attribute_value")
        ELSE name(e, "tag_name_close")

\* A ">" that is found here leaves is_close as it is.
CloseTag(s, h) == Token(h, "TAG_NAME_CLOSE", h.pos, h.pos + 1, h.pos + 1, "data")

SelfClose(s, h) == Token(h, "TAG_NAME_SELFCLOSE", h.pos - 1, h.pos + 1, h.pos + 1, "data")

\* before_attribute_name; slash is what self_closing_start_tag returns at each
\* position.
InTag(s, h, slash) ==
    LET q == SkipWhite(s, h)
    IN  IF IsEOF(s, q) THEN Nothing(Goto(h, q))
        ELSE IF At(s, q) = "/" THEN slash[q + 1]
        ELSE IF At(s, q) = ">" THEN CloseTag(s, Goto(h, q))
        ELSE AttributeName(s, Goto(h, q))

\* The two call each other over white characters and slashes.
BehindSlash(s, h) ==
    LET slash[p \in h.pos..Len(s)] ==
            IF p = Len(s) THEN Nothing(Goto(h, p))
            ELSE IF At(s, p) = ">" THEN SelfClose(s, Goto(h, p))
            ELSE InTag(s, Goto(h, p), slash)
    IN  slash

BeforeAttributeName(s, h) == InTag(s, h, BehindSlash(s, h))
SelfClosingStartTag(s, h) == BehindSlash(s, h)[h.pos]

AttributeValueQuoteSkipsFirst(s, h, quote) ==
    LET start == h.pos + 1
        end   == First(s, {quote}, start)
    IN  IF end = Len(s) THEN Token(h, "ATTR_VALUE", start, end, start, "eof")
        ELSE Token(h, "ATTR_VALUE", start, end, end + 1, "after_attribute_value_quoted_state")

\* The opening quote is skipped except at 0, where the input begins within
\* the value.
AttributeValueQuote(s, h, quote) ==
    LET start == IF h.pos > 0 THEN h.pos + 1 ELSE 0
        end   == First(s, {quote}, start)
    IN  IF end = Len(s) THEN Token(h, "ATTR_VALUE", start, end, start, "eof")
        ELSE Token(h, "ATTR_VALUE", start, end, end + 1, "after_attribute_value_quoted_state")

AttributeValueNoQuote(s, h) ==
    LET e == First(s, White \union {">"}, h.pos)
        value(pos, state) == Token(h, "ATTR_VALUE", h.pos, e, pos, state)
    IN  IF e = Len(s) THEN value(h.pos, "eof")
        ELSE IF At(s, e) = ">" THEN value(e, "tag_name_close")
        ELSE value(e + 1, "before_attribute_name")

BeforeAttributeValue(s, h) ==
    LET p == SkipWhite(s, h)
        c == At(s, p)
    IN  IF IsEOF(s, p) THEN Nothing([h EXCEPT !.pos = p, !.state = "eof"])
        ELSE IF c \in {"\"", "'", TICK} THEN AttributeValueQuote(s, Goto(h, p), c)
        ELSE AttributeValueNoQuote(s, Goto(h, p))

AfterAttributeName(s, h) ==
    LET p == SkipWhite(s, h)
    IN  IF IsEOF(s, p) THEN Nothing(Goto(h, p))
        ELSE CASE At(s, p) = "/" -> SelfClosingStartTag(s, Goto(h, p + 1))
               [] At(s, p) = "=" -> BeforeAttributeValue(s, Goto(h, p + 1))
               [] At(s, p) = ">" -> TagNameClose(s, Goto(h, p))
               [] OTHER -> AttributeName(s, Goto(h, p))

AfterAttributeValueQuoted(s, h) ==
    IF h.pos = Len(s) THEN Nothing(h)
    ELSE CASE At(s, h.pos) \in White -> BeforeAttributeName(s, Goto(h, h.pos + 1))
           [] At(s, h.pos) = "/" -> SelfClosingStartTag(s, Goto(h, h.pos + 1))
           [] At(s, h.pos) = ">" -> CloseTag(s, h)
           [] OTHER -> BeforeAttributeName(s, h)

-----------------------------------------------------------------------------
(* Comments and declarations.  Each ends at the first of its terminators,  *)
(* or with the input; in the state eof the position is not read again.     *)

Until(s, h, type, end, width) ==
    IF end < 0 THEN Token(h, type, h.pos, Len(s), Len(s), "eof")
    ELSE Token(h, type, h.pos, end, end + width, "data")

BogusComment(s, h)  == Until(s, h, "TAG_COMMENT", FirstWord(s, {<<">">>}, h.pos), 1)
BogusComment2(s, h) == Until(s, h, "TAG_COMMENT", FirstWord(s, {<<"%", ">">>}, h.pos), 2)
CData(s, h) == Until(s, h, "DATA_TEXT", FirstWord(s, {<<"]", "]", ">">>}, h.pos), 3)
Doctype(s, h) == Until(s, h, "DOCTYPE", FirstWord(s, {<<">">>}, h.pos), 1)

\* The end of a comment is --> or -!>, with NULs after the first dash.
Comment(s, h) ==
    LET mark(p) == First(s, ToSet(s) \ {NUL}, p + 1)
        ends(p) == /\ At(s, p) = "-" /\ mark(p) < Len(s)
                   /\ At(s, mark(p)) \in {"-", "!"} /\ At(s, mark(p) + 1) = ">"
        p == SelectInSeq([k \in 1..Len(s) |-> k > h.pos /\ ends(k - 1)], LAMBDA b : b) - 1
    IN  Until(s, h, "TAG_COMMENT", p, mark(p) + 2 - p)

MarkupDeclarationOpen(s, h) ==
    IF Uppered(WordAt(s, h.pos, 7)) = <<"D","O","C","T","Y","P","E">> THEN Doctype(s, h)
    ELSE IF WordAt(s, h.pos, 7) = <<"[","C","D","A","T","A","[">> THEN CData(s, Goto(h, h.pos + 7))
    ELSE IF WordAt(s, h.pos, 2) = <<"-","-">> THEN Comment(s, Goto(h, h.pos + 2))
    ELSE BogusComment(s, h)

\* "</>" is text from its ">" on, and leaves is_close set.
EndTagOpen(s, h) ==
    IF h.pos = Len(s) THEN Nothing(h)
    ELSE IF At(s, h.pos) = ">" THEN DataText(s, h)
    ELSE IF At(s, h.pos) \in Letters THEN TagName(s, h)
    ELSE BogusComment(s, [h EXCEPT !.is_close = FALSE])

\* A "<" that ends the input opens a tag without a name: the NUL behind the
\* input is read.
TagOpen(s, h) ==
    LET c == At(s, h.pos)
        next == Goto(h, h.pos + 1)
    IN  CASE c = "!" -> MarkupDeclarationOpen(s, next)
          [] c = "/" -> EndTagOpen(s, [next EXCEPT !.is_close = TRUE])
          [] c = "?" -> BogusComment(s, next)
          [] c = "%" -> BogusComment2(s, next)
          [] c \in Letters \union {NUL} -> TagName(s, h)
          [] OTHER -> Token(h, "DATA_TEXT", h.pos - 1, h.pos, h.pos, "data")

Data(s, h) ==
    LET text == DataText(s, h)
    IN  IF text.state = "tag_open" /\ text.token_len = 0 THEN TagOpen(s, text) ELSE text

\* libinjection_h5_next.
H5Next(s, h) ==
    CASE h.state = "eof" -> Nothing(h)
      [] h.state = "data" -> Data(s, h)
      [] h.state = "tag_open" -> TagOpen(s, h)
      [] h.state = "tag_name_close" -> TagNameClose(s, h)
      [] h.state = "self_closing_start_tag" -> SelfClosingStartTag(s, h)
      [] h.state = "after_attribute_name" -> AfterAttributeName(s, h)
      [] h.state = "before_attribute_name" -> BeforeAttributeName(s, h)
      [] h.state = "before_attribute_value" -> BeforeAttributeValue(s, h)
      [] h.state = "attribute_value_double_quote" -> AttributeValueQuote(s, h, "\"")
      [] h.state = "attribute_value_single_quote" -> AttributeValueQuote(s, h, "'")
      [] h.state = "attribute_value_back_quote" -> AttributeValueQuote(s, h, TICK)
      [] h.state = "after_attribute_value_quoted_state" -> AfterAttributeValueQuoted(s, h)
=============================================================================
