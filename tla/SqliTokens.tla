----------------------------- MODULE SqliTokens -----------------------------
(* The SQL tokenizer of libinjection (libinjection_sqli.c).  Each operator  *)
(* parse_x is the parser of that name: it takes the text, the position and, *)
(* where it reads them, the flags, and returns the token, the position it   *)
(* goes on from and what it adds to the statistics.  A token keeps at most  *)
(* the 31 characters that fit in its val; here in capitals, for a val is    *)
(* never compared with regard to case.                                      *)
EXTENDS SqliData

NONE == ""          \* CHAR_NULL, TYPE_NONE
MaxVal == 31        \* LIBINJECTION_SQLI_TOKEN_SIZE without its final NUL

TokenTypes == WordTypes \union
    {"s", "c", "(", ")", "{", "}", ".", ",", ":", ";", "?", "X", "\\"}
char_is_white == {" ", "\n", NBSP, NUL}

\* The first position from p on with a character not in the set.
Span(s, p, chars) ==
    LET k == SelectInSubSeq(s, p + 1, Len(s), LAMBDA c : c \notin chars)
    IN  IF k = 0 THEN Len(s) ELSE k - 1

\* Where the characters accepted end: strchr finds its terminator, so a NUL
\* is always accepted.
strlenspn(s, p, accept) == Span(s, p, accept \union {NUL})

String(s, p, n) == FoldLeft(LAMBDA v, c : v \o Upper(c), "", SubSeq(s, p + 1, p + n))

is_keyword(word) ==
    LET types == {p \in (1..Len(sql_keywords)) \X WordTypes :
                     p[2] \in DOMAIN sql_keywords[p[1]] /\ word \in sql_keywords[p[1]][p[2]]}
    IN  IF types = {} THEN NONE ELSE (CHOOSE p \in types : TRUE)[2]

st_clear == [type |-> NONE, pos |-> 0, len |-> 0, val |-> "", str_open |-> NONE, str_close |-> NONE]

\* st_assign: the token of n characters from p.
st_assign(type, s, p, n) ==
    LET len == IF n > MaxVal THEN MaxVal ELSE n
    IN  [st_clear EXCEPT !.type = type, !.pos = p, !.len = len, !.val = String(s, p, len)]

Result(token, next) == [current |-> token, pos |-> next, ddx |-> 0, hash |-> 0]

\* The token from p to next, of which the parser takes every character.
Whole(type, s, p, next) == Result(st_assign(type, s, p, next - p), next)
parse_one(type, s, p) == Whole(type, s, p, p + 1)

parse_operator1(s, p) == parse_one("o", s, p)
parse_other(s, p) == parse_one("?", s, p)
parse_char(s, p) == parse_one(At(s, p), s, p)

-----------------------------------------------------------------------------
(* Comments and operators.                                                 *)

parse_eol_comment(s, p) ==
    LET e == First(s, {"\n"}, p)
    IN  Result(st_assign("c", s, p, e - p), IF e = Len(s) THEN e ELSE e + 1)

\* In MySQL a hash is counted twice.
parse_hash(s, p, flags) ==
    IF flags.sql = "MYSQL" THEN [parse_eol_comment(s, p) EXCEPT !.hash = 2]
    ELSE [parse_operator1(s, p) EXCEPT !.hash = 1]

parse_dash(s, p, flags) ==
    IF At(s, p + 1) # "-" THEN parse_operator1(s, p)
    ELSE IF p + 2 = Len(s) \/ At(s, p + 2) \in char_is_white THEN parse_eol_comment(s, p)
    ELSE IF flags.sql = "ANSI" THEN [parse_eol_comment(s, p) EXCEPT !.ddx = 1]
    ELSE parse_operator1(s, p)

\* A comment that is not closed is never searched for one inside it: the
\* length of that search is counted from a null pointer.
parse_slash(s, p) ==
    LET close  == FirstWord(s, {<<"*", "/">>}, p + 2)
        end    == IF close = -1 THEN Len(s) ELSE close + 2
        nested == FirstWord(s, {<<"/", "*">>}, p + 2) \in 0..(close - 1)
        is_mysql_comment == At(s, p + 2) = "!"
    IN  IF At(s, p + 1) # "*" THEN parse_operator1(s, p)
        ELSE Whole(IF nested \/ is_mysql_comment THEN "X" ELSE "c", s, p, end)

parse_backslash(s, p) ==
    IF At(s, p + 1) = "N" THEN Whole("1", s, p, p + 2) ELSE parse_one("\\", s, p)

parse_operator2(s, p) ==
    LET ch == is_keyword(String(s, p, 2))
    IN  IF p + 1 = Len(s) THEN parse_operator1(s, p)
        ELSE IF WordAt(s, p, 3) = <<"<", "=", ">">> THEN Whole("o", s, p, p + 3)
        ELSE IF ch # NONE THEN Whole(ch, s, p, p + 2)
        ELSE IF At(s, p) = ":" THEN parse_one(":", s, p)
        ELSE parse_operator1(s, p)

-----------------------------------------------------------------------------
(* Words, backquoted ones, bracketed ones and variables.                   *)

VarEnds == {" ", "<", ">", ":", "\\", "?", "=", "@", "!", "#", "~", "+", "-", "*", "/", "&",
            "|", "^", "%", "(", ")", ",", "'", ";", "\n", TICK, "\"", NUL}
WordEnds == (VarEnds \ {TICK}) \union {"[", "]", "{", "}", NBSP}

\* A keyword that ends at a dot or a back quote is a token of its own.
parse_word(s, p) ==
    LET end == First(s, WordEnds, p)
        len == st_assign("n", s, p, end - p).len
        before(i) == is_keyword(String(s, p, i))
        splits == {i \in 0..(len - 1) : At(s, p + i) \in {".", TICK} /\ before(i) \notin {NONE, "n"}}
        ch == IF end - p > MaxVal THEN NONE ELSE before(end - p)
    IN  IF splits # {} THEN Whole(before(Min(splits)), s, p, p + Min(splits))
        ELSE Whole(IF ch = NONE THEN "n" ELSE ch, s, p, end)

\* An odd number of backslashes ends at the position end.
is_backslash_escaped(s, end, start) ==
    Max({n \in 0..(end - start + 1) : \A k \in 0..(n - 1) : At(s, end - k) = "\\"}) % 2 = 1
is_double_delim_escaped(s, p) == p + 1 < Len(s) /\ At(s, p + 1) = At(s, p)

ClosingFromOne(s, delim, start) ==
    LET next(p) == First(s, {delim}, p)
        closing[q \in start..Len(s)] ==
            IF q = Len(s) THEN q
            ELSE IF is_backslash_escaped(s, q - 1, start) THEN closing[next(q + 1)]
            ELSE IF is_double_delim_escaped(s, q) THEN closing[next(q + 1)]
            ELSE q
    IN  closing[next(start)]

\* The closing delimiter of a string that starts at start, else the end:
\* q is the next delimiter.
ClosingFrom(s, delim, start) ==
    LET next(p) == First(s, {delim}, p)
        closing[q \in start..Len(s)] ==
            IF q = Len(s) THEN q
            ELSE IF is_backslash_escaped(s, q - 1, start) THEN closing[next(q + 1)]
            ELSE IF is_double_delim_escaped(s, q) THEN closing[next(q + 2)]
            ELSE q
    IN  closing[next(start)]

parse_string_core(s, p, delim, offset) ==
    LET start  == p + offset
        end    == ClosingFrom(s, delim, start)
        closed == end < Len(s)
    IN  Result([st_assign("s", s, start, end - start) EXCEPT
                   !.str_open  = IF offset > 0 THEN delim ELSE NONE,
                   !.str_close = IF closed THEN delim ELSE NONE],
               IF closed THEN end + 1 ELSE end)

parse_string(s, p) == parse_string_core(s, p, At(s, p), 1)

parse_tick(s, p) ==
    LET r == parse_string_core(s, p, TICK, 1)
    IN  [r EXCEPT !.current.type = IF is_keyword(r.current.val) = "f" THEN "f" ELSE "n"]

parse_bword(s, p) ==
    LET e == First(s, {"]"}, p) IN Whole("n", s, p, IF e = Len(s) THEN e ELSE e + 1)

\* The token's count of "@" is read by no one.
parse_var(s, p) ==
    LET q == IF At(s, p + 1) = "@" THEN p + 2 ELSE p + 1
        variable(r) == [r EXCEPT !.current.type = "v"]
    IN  IF At(s, q) = TICK THEN variable(parse_tick(s, q))
        ELSE IF At(s, q) \in {"'", "\""} THEN variable(parse_string(s, q))
        ELSE Whole("v", s, q, First(s, VarEnds, q))

-----------------------------------------------------------------------------
(* Strings with a prefix.                                                  *)

\* What comes two characters after p, if a quote comes before it.
Quoted(s, p) == p + 2 < Len(s) /\ At(s, p + 1) = "'"

parse_estring(s, p) == IF Quoted(s, p) THEN parse_string_core(s, p, "'", 2) ELSE parse_word(s, p)

parse_ustring(s, p) ==
    LET r == parse_string(s, p + 2)
    IN  IF At(s, p + 1) = "&" /\ At(s, p + 2) = "'"
        THEN [r EXCEPT !.current.str_open = "u",
                       !.current.str_close = IF @ = "'" THEN "u" ELSE @]
        ELSE parse_word(s, p)

\* The delimiter that closes a string opened by ch: a char is signed, so
\* that the ones from 128 on open none.
ClosingOf(ch) == LET k == SelectInSeq(<<"(", "[", "{", "<">>, LAMBDA c : c = ch)
                 IN  IF k = 0 THEN ch ELSE <<")", "]", "}", ">">>[k]
NotGraphic == char_is_white \union {CTRL, HIGH}

\* The string from start to the first closing word, or to the end.
Bracketed(s, start, closing, kind) ==
    LET e == FirstWord(s, {closing}, start)
        end == IF e = -1 THEN Len(s) ELSE e
    IN  Result([st_assign("s", s, start, end - start) EXCEPT
                   !.str_open = kind, !.str_close = IF e = -1 THEN NONE ELSE kind],
               IF e = -1 THEN end ELSE e + Len(closing))

parse_qstring_core(s, p, offset) ==
    LET q  == p + offset
        ch == At(s, q + 2)
    IN  IF Upper(At(s, q)) # "Q" \/ ~Quoted(s, q) \/ ch \in NotGraphic THEN parse_word(s, p)
        ELSE Bracketed(s, q + 3, <<ClosingOf(ch), "'">>, "q")
parse_qstring(s, p) == parse_qstring_core(s, p, 0)
parse_nqstring(s, p) == IF Quoted(s, p) THEN parse_estring(s, p) ELSE parse_qstring_core(s, p, 1)

Literal(s, p, digits) ==
    LET e == strlenspn(s, p + 2, digits)
    IN  IF Quoted(s, p) /\ At(s, e) = "'" THEN Whole("1", s, p, e + 1) ELSE parse_word(s, p)
parse_bstring(s, p) == Literal(s, p, {"0", "1"})
parse_xstring(s, p) == Literal(s, p, HexDigits)

\* The tag $foo$ is searched from its own length on, in as many characters
\* as follow it: unless it is the first thing in the text, its closing one
\* may be out of the search, or the tag itself be found.
parse_money(s, p) ==
    LET number == strlenspn(s, p + 1, Digits \union {".", ","})
        tag    == strlenspn(s, p + 1, Letters)
        len    == tag + 1 - p
        after  == tag + 1
        found  == LET rest == SubSeq(s, 1, Len(s) - p)
                      m    == FirstWord(rest, {SubSeq(s, p + 1, after)}, len)
                  IN  IF m < after THEN Len(s) ELSE m
        closed == found < Len(s)
    IN  IF number > p + 1
          THEN IF number = p + 2 /\ At(s, p + 1) = "." THEN parse_word(s, p)
               ELSE Whole("1", s, p, number)
        ELSE IF At(s, p + 1) = "$" THEN Bracketed(s, p + 2, <<"$", "$">>, "$")
        ELSE IF tag = p + 1 \/ At(s, tag) # "$" THEN parse_one("n", s, p)
        ELSE Result([st_assign("s", s, after, found - after) EXCEPT
                        !.str_open = "$", !.str_close = IF closed THEN "$" ELSE NONE],
                    IF closed THEN found + len ELSE found)

parse_number(s, p) ==
    LET radix == IF At(s, p) # "0" THEN {}
                 ELSE IF Upper(At(s, p + 1)) = "X" THEN HexDigits
                 ELSE IF Upper(At(s, p + 1)) = "B" THEN {"0", "1"} ELSE {}
        int   == Span(s, p, Digits)
        frac  == IF At(s, int) = "." THEN Span(s, int + 1, Digits) ELSE int
        e     == Upper(At(s, frac)) = "E"
        exp   == IF At(s, frac + 1) \in {"+", "-"} THEN frac + 2 ELSE frac + 1
        num   == IF e THEN Span(s, exp, Digits) ELSE frac
        float == /\ Upper(At(s, num)) \in {"D", "F"}
                 /\ Upper(At(s, num + 1)) \in char_is_white \union {";", "U"}
    IN  IF radix # {}
          THEN LET end == strlenspn(s, p + 2, radix)
               IN  Whole(IF end = p + 2 THEN "n" ELSE "1", s, p, end)
        ELSE IF At(s, p) = "." /\ frac = p + 1 THEN parse_one(".", s, p)
        ELSE Whole(IF e /\ num = exp THEN "n" ELSE "1", s, p, IF float THEN num + 1 ELSE num)

-----------------------------------------------------------------------------

parse(s, p, flags) ==
    LET parser == char_parse_map[Upper(At(s, p))]
    IN  CASE parser = "operator1" -> parse_operator1(s, p)
          [] parser = "operator2" -> parse_operator2(s, p)
          [] parser = "other"     -> parse_other(s, p)
          [] parser = "char"      -> parse_char(s, p)
          [] parser = "hash"      -> parse_hash(s, p, flags)
          [] parser = "dash"      -> parse_dash(s, p, flags)
          [] parser = "slash"     -> parse_slash(s, p)
          [] parser = "backslash" -> parse_backslash(s, p)
          [] parser = "string"    -> parse_string(s, p)
          [] parser = "word"      -> parse_word(s, p)
          [] parser = "bword"     -> parse_bword(s, p)
          [] parser = "tick"      -> parse_tick(s, p)
          [] parser = "var"       -> parse_var(s, p)
          [] parser = "money"     -> parse_money(s, p)
          [] parser = "number"    -> parse_number(s, p)
          [] parser = "estring"   -> parse_estring(s, p)
          [] parser = "ustring"   -> parse_ustring(s, p)
          [] parser = "qstring"   -> parse_qstring(s, p)
          [] parser = "nqstring"  -> parse_nqstring(s, p)
          [] parser = "bstring"   -> parse_bstring(s, p)
          [] parser = "xstring"   -> parse_xstring(s, p)

\* libinjection_sqli_tokenize: at the end of the text there is no token, and
\* in a quoted context the text starts inside a string.
tokenize(s, flags, pos) ==
    LET p == Span(s, pos, Blanks)
    IN  IF pos = 0 /\ flags.quote # NONE THEN parse_string_core(s, 0, flags.quote, 0)
        ELSE IF p = Len(s) THEN Result(st_clear, p)
        ELSE parse(s, p, flags)
=============================================================================
