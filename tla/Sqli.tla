-------------------------------- MODULE Sqli --------------------------------
(* libinjection_is_sqli (libinjection_sqli.c): the text is read in up to    *)
(* five contexts.  Each pass folds the tokens into five at most, whose      *)
(* types are the fingerprint, and looks it up.  vec is tokenvec: the tokens *)
(* below left are done with, the ones below pos are read.  A step is a      *)
(* token that is read, or a rule that is applied.                           *)
EXTENDS SqliTokens, FiniteSets
CONSTANT Inputs   \* texts
ASSUME InputsAssumption == \A text \in Inputs : text \in Seq(Char)

VARIABLES s,             \* the text
          reads,         \* what tokenize returns in it, by dialect and position, and by open quote
          pass,          \* the context it is read in, an index of Passes
          at,            \* where the tokenizer is (sf->pos)
          stats,         \* the tokens it read, and the comments that MySQL reads otherwise
          vec, left, pos, more, last_comment,   \* the variables of fold
          fingerprint,
          pc, verdict
foldVars == <<vec, left, pos, more, last_comment>>
vars == <<s, reads, pass, at, stats, vec, left, pos, more, last_comment, fingerprint, pc, verdict>>

MaxTokens == 5   \* LIBINJECTION_SQLI_MAX_TOKENS
Passes == << [quote |-> NONE, sql |-> "ANSI"], [quote |-> NONE, sql |-> "MYSQL"],
             [quote |-> "'",  sql |-> "ANSI"], [quote |-> "'",  sql |-> "MYSQL"],
             [quote |-> "\"", sql |-> "MYSQL"] >>

\* libinjection_sqli_init, and libinjection_sqli_reset at the start of each pass.
NoStats  == [tokens |-> 0, ddx |-> 0, hash |-> 0]
NoTokens == [i \in 0..MaxTokens |-> st_clear]
Init == /\ s \in Inputs /\ pass = 1 /\ at = 0 /\ stats = NoStats
        /\ vec = NoTokens /\ left = 0 /\ pos = 0 /\ more = TRUE /\ last_comment = st_clear
        /\ fingerprint = <<>> /\ verdict = FALSE
        /\ reads = [at |-> [d \in {"ANSI", "MYSQL"} |->
                              [q \in 0..Len(s) |-> tokenize(s, [quote |-> NONE, sql |-> d], q)]],
                    open |-> [d \in {"'", "\""} |-> tokenize(s, [quote |-> d, sql |-> "ANSI"], 0)]]
        /\ pc = IF s = <<>> THEN "done" ELSE "skip"

-----------------------------------------------------------------------------
(* Tokens.                                                                 *)

Begins(t, chars) == t.len > 0 /\ SubSeq(t.val, 1, 1) \in chars
st_is_arithmetic_op(t) == t.type = "o" /\ t.val \in {"*", "/", "-", "+", "%"}
st_is_unary_op(t) == t.type = "o" /\ t.val \in {"+", "-", "!", "~", "!!", "NOT"}

\* syntax_merge_words: the two words as one, if that is a keyword.
Merges == {"k", "n", "o", "U", "f", "E", "T", "t"}
Merged(a, b) == a.val \o " " \o b.val
syntax_merge_words(a, b) ==
    /\ a.type \in Merges /\ b.type \in Merges \union {"&"}
    /\ a.len + b.len + 1 <= MaxVal
    /\ is_keyword(Merged(a, b)) # NONE

\* The next token of the text, and what becomes of it in vec[i].
Read == {IF at = 0 /\ Passes[pass].quote # NONE THEN reads.open[Passes[pass].quote]
         ELSE reads.at[Passes[pass].sql][at]}
Put(r, i) ==
    /\ at' = r.pos
    /\ more' = (r.current.type # NONE)
    /\ stats' = [tokens |-> IF more' THEN stats.tokens + 1 ELSE stats.tokens,
                 ddx |-> stats.ddx + r.ddx, hash |-> stats.hash + r.hash]
    /\ vec' = [vec EXCEPT ![i] = r.current]

-----------------------------------------------------------------------------
(* Folding.  The rules are tried in the order of the code; the outcome of   *)
(* the first one that applies is what it makes of vec, left and pos, and    *)
(* where fold goes on.                                                      *)

Outcome(tokens, from, to, goto) == [vec |-> tokens, left |-> from, pos |-> to, goto |-> goto]
Typed(i, type)  == [vec EXCEPT ![i].type = type]
Moved(i)        == [vec EXCEPT ![i] = vec[i + 1]]   \* the token of i goes
Drop(n)         == Outcome(vec, 0, pos - n, "five")
Retype(i, type) == Outcome(Typed(i, type), left, pos, "five")
Replace(i)      == Outcome(Moved(i), 0, pos - 1, "five")
StepBack == IF left > 0 THEN left - 1 ELSE 0
Fold(outcome) ==
    \E o \in {outcome} :
        /\ vec' = o.vec /\ left' = o.left /\ pos' = o.pos /\ pc' = o.goto
        /\ UNCHANGED <<s, reads, pass, at, stats, more, last_comment, fingerprint, verdict>>

\* Repeated tokens, signs after operators, and words that make a phrase.
MergeRules(a, b, otherwise) ==
    IF a.type = b.type /\ a.type \in {"s", ";"} THEN Outcome(vec, left, pos - 1, "five")
    ELSE IF a.type = ";" /\ b.type = "f" /\ b.val = "IF"
      THEN Outcome(Typed(left + 1, "T"), left + 2, pos, "five")
    ELSE IF a.type \in {"o", "&"} /\ (st_is_unary_op(b) \/ b.type = "t") THEN Drop(1)
    ELSE IF a.type = "(" /\ st_is_unary_op(b) THEN Outcome(vec, StepBack, pos - 1, "five")
    ELSE IF syntax_merge_words(a, b)
      THEN Outcome([vec EXCEPT ![left].type = is_keyword(Merged(a, b)), ![left].val = Merged(a, b),
                               ![left].len = a.len + b.len + 1], StepBack, pos - 1, "five")
    ELSE otherwise

\* Words that what follows makes a function, an operator or a bare word.
FunctionNames == {"USER_ID", "USER_NAME", "DATABASE", "PASSWORD", "USER", "CURRENT_USER", "CURRENT_DATE",
                  "CURRENT_TIME", "CURRENT_TIMESTAMP", "LOCALTIME", "LOCALTIMESTAMP"}
RetypeRulesKeepIn(a, b, otherwise) ==
    IF a.type \in {"n", "v"} /\ b.type = "(" /\ a.val \in FunctionNames THEN Retype(left, "f")
    ELSE IF a.type = "k" /\ a.val \in {"IN", "NOT IN"} THEN Retype(left, IF b.type = "(" THEN "o" ELSE "k")
    ELSE otherwise
RetypeRules(a, b, otherwise) ==
    IF a.type \in {"n", "v"} /\ b.type = "(" /\ a.val \in FunctionNames THEN Retype(left, "f")
    ELSE IF a.type = "k" /\ a.val \in {"IN", "NOT IN"} THEN Retype(left, IF b.type = "(" THEN "o" ELSE "n")
    ELSE IF a.type = "o" /\ a.val \in {"LIKE", "NOT LIKE"}
      THEN Outcome(Typed(left, IF b.type = "(" THEN "f" ELSE "o"), left, pos, "three")
    ELSE otherwise

\* Tokens that the fingerprint does without.
HasUnderscore(t) == \E k \in 1..Len(t.val) : SubSeq(t.val, k, k) = "_"
DropRules(a, b, otherwise) ==
    IF a.type = "t" /\ b.type \in {"n", "1", "t", "(", "f", "v", "s"} THEN Replace(left)
    ELSE IF a.type = "A" /\ b.type = "n"
      THEN IF HasUnderscore(b) THEN Outcome(Typed(left + 1, "t"), 0, pos, "three") ELSE otherwise
    ELSE IF a.type = "\\" /\ st_is_arithmetic_op(b) THEN Outcome(Typed(left, "1"), 0, pos, "five")
    ELSE IF a.type = "\\" THEN Replace(left)
    ELSE IF a.type = b.type /\ a.type \in {"(", ")"} THEN Drop(1)
    ELSE IF a.type = "{" /\ b.type = "n" /\ b.len = 0
      THEN Outcome(Typed(left + 1, "X"), left + 2, pos, "fingerprint")
    ELSE IF a.type = "{" /\ b.type = "n" THEN Drop(2)
    ELSE IF b.type = "}" THEN Drop(1)
    ELSE otherwise

\* An expression of three tokens is its first one, and a sign goes.
ThreeTokenRules(a, b, c, otherwise) ==
    LET operand == {"n", "1", "v", "s"}
        sign == st_is_unary_op(b)
    IN  IF \/ b.type = "o" /\ \/ a.type \in {"n", "1"} /\ c.type \in {"n", "1"}
                              \/ a.type = "v" /\ c.type \in {"v", "1", "n"}
                              \/ a.type \in operand /\ b.val = "::" /\ c.type = "t"
           \/ a.type = "o" /\ b.type # "(" /\ c.type = "o"
           \/ a.type = "&" /\ c.type = "&"
           \/ b.type = "," /\ a.type \in operand /\ c.type \in operand
           \/ b.type = "." /\ a.type = "n" /\ c.type = "n"
          THEN Drop(2)
        ELSE IF \/ sign /\ \/ a.type \in {"E", "B", ","} /\ c.type = "("
                           \/ a.type \in {"k", "E", "B"} /\ c.type \in operand \union {"f"}
                           \/ a.type = "," /\ c.type = "f"
                \/ a.type = "E" /\ b.type = "." /\ c.type = "n"
          THEN Replace(left + 1)
        ELSE IF a.type = "," /\ sign /\ c.type \in operand THEN Outcome(Moved(left + 1), 0, pos - 3, "five")
        ELSE IF a.type = "f" /\ b.type = "(" /\ c.type # ")" /\ a.val = "USER"
          THEN Outcome(Typed(left, "n"), left + 1, pos, "five")
        ELSE otherwise

-----------------------------------------------------------------------------
(* The steps.                                                              *)

\* The comments, parentheses, types and signs that the text starts with.
Skip ==
    /\ pc = "skip"
    /\ \E r \in Read :
        /\ Put(r, 0)
        /\ IF r.current.type \in {"c", "(", "t"} \/ st_is_unary_op(r.current) THEN pc' = "skip" /\ pos' = pos
           ELSE IF more' THEN pc' = "five" /\ pos' = 1
           ELSE pc' = "fingerprint" /\ pos' = pos
    /\ UNCHANGED <<s, reads, pass, left, last_comment, fingerprint, verdict>>

\* Five tokens that stand for a value in parentheses: only the first one is kept.
FiveAreOne ==
    LET t(i) == vec[i].type
    IN  \/ t(0) = "1" /\ t(1) \in {"o", ","} /\ t(2) = "(" /\ t(3) = "1" /\ t(4) = ")"
        \/ t(0) = "n" /\ t(1) = "o" /\ t(2) = "(" /\ t(3) \in {"n", "1"} /\ t(4) = ")"
        \/ t(0) = "1" /\ t(1) = ")" /\ t(2) = "," /\ t(3) = "(" /\ t(4) = "1"
        \/ t(0) = "n" /\ t(1) = ")" /\ t(2) = "o" /\ t(3) = "(" /\ t(4) = "n"

FoldFive ==
    LET ends(l) == ~more \/ l >= MaxTokens
    IN  /\ pc = "five"
        /\ IF pos >= MaxTokens /\ FiveAreOne
             THEN /\ vec' = IF pos > MaxTokens THEN [vec EXCEPT ![1] = vec[MaxTokens]] ELSE vec
                  /\ pos' = IF pos > MaxTokens THEN 2 ELSE 1
                  /\ left' = IF more THEN 0 ELSE pos'
             ELSE /\ left' = IF ends(left) THEN pos ELSE left
                  /\ UNCHANGED <<vec, pos>>
        /\ pc' = IF ends(IF pos >= MaxTokens /\ FiveAreOne THEN 0 ELSE left) THEN "finish" ELSE "two"
        /\ UNCHANGED <<s, reads, pass, at, stats, more, last_comment, fingerprint, verdict>>

\* The last comment is remembered while no other token follows it.
CommentEver(t) == IF t.type = "c" THEN t ELSE last_comment
CommentAfter(t) == IF t.type = "c" THEN t
                   ELSE IF t.type = NONE THEN last_comment ELSE [last_comment EXCEPT !.type = NONE]
WantedOneMore(n) == more /\ pos <= MaxTokens + 1 /\ pos - left < n
Wanted(n) == more /\ pos <= MaxTokens /\ pos - left < n
Fetch(n) ==
    /\ Wanted(n)
    /\ \E r \in Read :
        /\ Put(r, pos)
        /\ last_comment' = CommentAfter(r.current)
        /\ pos' = IF r.current.type \in {NONE, "c"} THEN pos ELSE pos + 1
    /\ UNCHANGED <<s, reads, pass, left, fingerprint, pc, verdict>>

\* There are not n tokens left: the ones there are stay.
Settle(n) == ~Wanted(n) /\ pos - left < n /\ Fold(Outcome(vec, pos, pos, "five"))

FetchTwo   == pc = "two" /\ Fetch(2)
SettleTwo  == pc = "two" /\ Settle(2)
FoldTwo    == /\ pc = "two" /\ pos - left >= 2
              /\ LET a == vec[left]  b == vec[left + 1]
                     none == Outcome(vec, left, pos, "three")
                 IN  Fold(MergeRules(a, b, RetypeRules(a, b, DropRules(a, b, none))))
FetchThree  == pc = "three" /\ Fetch(3)
SettleThree == pc = "three" /\ Settle(3)
FoldThree   == /\ pc = "three" /\ pos - left >= 3
               /\ Fold(ThreeTokenRules(vec[left], vec[left + 1], vec[left + 2], Outcome(vec, left + 1, pos, "five")))

\* A comment that ends the text is added to fewer than five tokens.
Finish ==
    /\ pc = "finish"
    /\ LET comment == left < MaxTokens /\ last_comment.type = "c"
       IN  /\ vec' = IF comment THEN [vec EXCEPT ![left] = last_comment] ELSE vec
           /\ left' = Min({MaxTokens, IF comment THEN left + 1 ELSE left})
    /\ pc' = "fingerprint"
    /\ UNCHANGED <<s, reads, pass, at, stats, pos, more, last_comment, fingerprint, verdict>>

\* libinjection_sqli_fingerprint: an open, empty back quote at the end is a
\* comment; what could not be parsed is the fingerprint "X".
Fingerprint ==
    LET last == vec[left - 1]
        php  == left > 2 /\ last.type = "n" /\ last.str_open = TICK /\ last.len = 0 /\ last.str_close = NONE
        v    == IF php THEN [vec EXCEPT ![left - 1].type = "c"] ELSE vec
        fp   == [i \in 1..left |-> v[i - 1].type]
        evil == Contains(fp, "X")
    IN  /\ pc = "fingerprint"
        /\ fingerprint' = IF evil THEN <<"X">> ELSE fp
        /\ vec' = IF evil THEN [v EXCEPT ![0].type = "X", ![0].val = "X", ![1].type = NONE] ELSE v
        /\ pc' = "check"
        /\ UNCHANGED <<s, reads, pass, at, stats, left, pos, more, last_comment, verdict>>

-----------------------------------------------------------------------------
(* The verdict.                                                            *)

UpperType(t) == LET upper == [k |-> "K", t |-> "T", f |-> "F", n |-> "N", v |-> "V", s |-> "S", o |-> "O", c |-> "C"]
                IN  IF t \in DOMAIN upper THEN upper[t] ELSE t
blacklist(fp) == FoldLeft(LAMBDA w, t : w \o UpperType(t), "0", fp) \in FINGERPRINTS

\* What follows the number that the text starts with, in "1c": the position
\* is counted from the start of the text, which the number may not be at.
NumberThenComment(v) ==
    LET ch == At(s, v[0].len)
    IN  \/ ch \in char_is_white \union {CTRL, HIGH}
        \/ WordAt(s, v[0].len, 2) \in {<<"/", "*">>, <<"-", "-">>}

SmallIsSqli(fp, v, tokens) ==
    IF fp[2] = "U" THEN tokens # 2
    ELSE IF Begins(v[1], {"#"}) THEN FALSE
    ELSE IF v[0].type = "n" /\ v[1].type = "c" /\ ~Begins(v[1], {"/"}) THEN FALSE
    ELSE IF v[0].type = "1" /\ v[1].type = "c"
      THEN Begins(v[1], {"/"}) \/ tokens > 2 \/ NumberThenComment(v)
    ELSE ~(v[1].len > 2 /\ Begins(v[1], {"-"}))

ThreeAreSqli(fp, v, tokens) ==
    IF fp \in {<<"s", "o", "s">>, <<"s", "&", "s">>}
      THEN v[0].str_open = NONE /\ v[2].str_close = NONE /\ v[0].str_close = v[2].str_open
    ELSE IF fp \in {<<"s", "&", "n">>, <<"n", "&", "1">>, <<"1", "&", "1">>, <<"1", "&", "v">>, <<"1", "&", "s">>}
      THEN tokens # 3
    ELSE v[1].type = "k" => v[1].len >= 5 /\ SubSeq(v[1].val, 1, 4) = "INTO"

\* libinjection_sqli_not_whitelist: memmem minds the case.
SpPassword == <<"s", "p", "_", "p", "a", "s", "s", "w", "o", "r", "d">>
not_whitelist(fp, v, tokens) ==
    \/ Len(fp) > 1 /\ fp[Len(fp)] = "c" /\ FirstWord(s, {SpPassword}, 0) # -1
    \/ /\ Len(fp) = 2 => SmallIsSqli(fp, v, tokens)
       /\ Len(fp) = 3 => ThreeAreSqli(fp, v, tokens)

check_fingerprint == blacklist(fingerprint) /\ not_whitelist(fingerprint, vec, stats.tokens)
reparse_as_mysql == stats.ddx + stats.hash > 0

NextPasses == {p \in (pass + 1)..Len(Passes) :
    /\ p \in {2, 4} => p = pass + 1 /\ reparse_as_mysql
    /\ p \in {3, 5} => Contains(s, Passes[p].quote)}

Check ==
    /\ pc = "check"
    /\ verdict' = check_fingerprint
    /\ IF verdict' \/ NextPasses = {}
         THEN pc' = "done" /\ UNCHANGED <<pass, at, stats, fingerprint, foldVars>>
         ELSE /\ pc' = "skip" /\ pass' = Min(NextPasses) /\ at' = 0 /\ stats' = NoStats
              /\ vec' = NoTokens /\ left' = 0 /\ pos' = 0 /\ more' = TRUE /\ last_comment' = st_clear
              /\ fingerprint' = <<>>
    /\ UNCHANGED <<s, reads>>

Next == \/ Skip \/ FoldFive \/ FetchTwo \/ SettleTwo \/ FoldTwo \/ FetchThree \/ SettleThree \/ FoldThree
        \/ Finish \/ Fingerprint \/ Check
Spec == Init /\ [][Next]_vars /\ WF_vars(Next)

-----------------------------------------------------------------------------

\* The window of fold, vec[left] to vec[pos - 1], stays inside tokenvec.
Window ==
    /\ pc \in {"skip", "five", "two", "three", "finish", "fingerprint", "check", "done"}
    /\ left \in Nat /\ pos \in Nat /\ pos <= MaxTokens + 1
    /\ left <= IF pc \in {"five", "two", "three"} THEN pos ELSE pos + 1

\* Whatever the rules drop, the window stays where it may be, and every token
\* inside the text.
TypeOK ==
    /\ Window
    /\ pass \in DOMAIN Passes /\ at \in 0..Len(s) /\ more \in BOOLEAN /\ verdict \in BOOLEAN
    /\ \A i \in 0..MaxTokens : /\ vec[i].type \in TokenTypes \union {NONE}
                               /\ vec[i].len <= MaxVal /\ vec[i].pos <= Len(s)
    /\ Len(fingerprint) <= MaxTokens

\* The tokens that fold keeps begin in the order of the text, and the comment
\* that it remembers for the end before none of them: whatever a rule drops,
\* merges or moves (fold). They may overlap: a rule that applies only when fold
\* comes back to tokens below others drops the wrong one and leaves another
\* twice, as in "1 INT IN A+1+B".
TokensInOrder ==
    \A j \in 0..(pos - 1) : /\ \A i \in 0..j : vec[i].pos <= vec[j].pos
                            /\ last_comment.type = "c" => vec[j].pos <= last_comment.pos

\* A string ends at the last delimiter of the first odd run of those that no
\* backslash escapes, or at the end of the text when there is none
\* (parse_string_core).
Delimiter(t) == IF t.str_open = NONE THEN Passes[pass].quote ELSE IF t.str_open = "u" THEN "'" ELSE t.str_open
Closings(t) ==
    LET d == Delimiter(t)
        slashes(q) == CHOOSE n \in 0..(q - t.pos) :
                        /\ \A k \in 1..n : At(s, q - k) = "\\"
                        /\ n < q - t.pos => At(s, q - n - 1) # "\\"
        free == {q \in t.pos..(Len(s) - 1) : At(s, q) = d /\ slashes(q) % 2 = 0}
        run(q) == {r \in free : r <= q /\ r..q \subseteq free}
    IN  {q \in free : q + 1 \notin free /\ Cardinality(run(q)) % 2 = 1}
StringsCloseRight ==
    \A i \in 0..(pos - 1) :
        LET t == vec[i]
        IN  t.type = "s" /\ t.str_open \notin {"q", "$"} /\ t.len < MaxVal =>
            IF t.str_close = NONE THEN Closings(t) = {} /\ t.pos + t.len = Len(s)
            ELSE Closings(t) # {} /\ t.pos + t.len = Min(Closings(t))

\* Every text gets a verdict: neither the tokenizer nor fold, which goes
\* back each time a rule applies, runs for ever.
Decided == <>(pc = "done")
=============================================================================
