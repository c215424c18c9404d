------------------------------- MODULE MCSqli -------------------------------
(* Every text of up to three of the characters that the parsers tell apart, *)
(* every short string of quotes and backslashes, sentences of pieces that   *)
(* meet in the rules of fold, and one text for each of its other rules.     *)
EXTENDS Sqli

Chars(w) == [k \in 1..Len(w) |-> SubSeq(w, k, k)]
Sentences(pieces, n) == {FlattenSeq(q) : q \in [1..n -> {Chars(w) : w \in pieces}]}

Alphabet == {"'", "\\", "-", "/", "*", "1", "E", "#", "$", ";", "@", "[", " ", NBSP, "N"}
Short  == UNION {[1..k -> Alphabet] : k \in 0..3}
Quotes == [1..6 -> {"'", "\\", "1"}]

Values == {"1 ", "' ", "OR ", "+", ",", "("}
Words  == {"UNION ", "ALL ", "SELECT ", "NOT ", "-", "1 ", "USER(", "--"}
Places == {"(", ")", "A", "=", "1", ",", ";", "LIKE ", "--1\n"}

OfTheRules == {
    "1;IF(1", "A IN (1", "A NOT IN(1,2)", "A IN BOOLEAN MODE", "A IN B", "A LIKE B", "SELECT.A", "SELECT .A", "SELECT +(1", "1,-SIN(1)",
    "1,-A", "1 LIMIT -1", "\\%1", "1,\\%1", "1(\\A", "{A B}", "1}", "A COLLATE A_B", "1,A COLLATE A_B", "COLLATE A", "1 INT(1)",
    "A::INT", "1+(1)", "1+(1)+1", "A=(B)", "1),(1", "1),(1)", "A)=(B", "INSERT INTO A", "A INTO OUTFILE", "A INTO B",
    "1;;1", "A.B", "A;;B", "1 OR 1 OR 1", "CURRENT_USER(", "1 UNION", "1UNION SELECT", "1 UNION ALL SELECT",
    "1))", "((1", "1--", "1-- A", "1--A", "1/**/", "1 /*A", "1#A\n1", "A-- ", "A/*A*/", "1A--", "1+1--",
    "A--sp_password", "A--SP_PASSWORD", "/*!1*/", "/*/*/", "1/*A*/1", "A OR 1<1", "A\" OR \"B", "\"\"1",
    "1 OR 1", "A' OR 'B", "' OR 1<A", "'+1", "A OR 1<A;", "1 'A' 'B'", "-1", "+(INT 1", "!!1", "A!!1", "NOT NOT 1", "1 NOT LIKE(1", "1 INT IN A+1+B" }
OfTheParsers == {
    "$A$B$A$", "1$A$B$A$1", "$AB$C$AB$D $AB$C$AB$", "$$A$$1", "$$A", "$1,0.0", "$.A", "$A", "$A$", "$$",
    "Q'(A)'1", "NQ'[A]", "NQ'[A]'", "Q'1A1'", "Q' A", "N'A'1", "E'A\\'1", "U&'A'1", "U&'A", "U&\"A", "B'01'", "B'2'", "X'0F'", "X'G",
    "0X1F", "0X", "0B1", "0BA", "1.E+2", "1.5E", "1E+ ", "1.5D", "1FUNION", "1FROM", "1D;", ".5", ".", "1.A",
    "@'A'", "@@A", "@\"A", "[A]1", "[A", "A.SELECT.1", "SELECT.1", "A.B.C", "\\N", "A:B", "A:=1", "A<=>1", "A||B", "?A]", "{", "^1", "%", "~1", ":", "\\n", "q'(a)'", "nq'(a)'", "x'fA'", "b'1'", "e'a'", "u&'a'", "0xfG", "0b2", "1e+1", "1.5d;", "1f union sElect", "$a$B$a$", "1 or Not a like(1",
    "ABCDEFGHIJKLMNOPQRSTUVWXYZABCDEFGHIJ", "SELECT ABCDEFGHIJKLMNOPQRSTUVWXYZ", "'ABCDEFGHIJKLMNOPQRSTUVWXYZABCDEFGHIJ'", "_A" }
OfTheRest == {
    <<TICK>> \o Chars("SIN") \o <<TICK>> \o Chars("(1"), <<TICK>> \o Chars("A"), Chars("1 OR ") \o <<TICK>>, Chars("1 OR A ") \o <<TICK>> \o <<TICK>>, Chars("SELECT") \o <<TICK>> \o Chars("A"),
    Chars("@@") \o <<TICK>> \o Chars("A") \o <<TICK>>, Chars("{") \o <<TICK>> \o <<TICK>>, Chars("1{") \o <<TICK>> \o <<TICK>> \o Chars("}"), Chars("A") \o <<TICK>> \o Chars("B"),
    <<"1", NUL, "-", "-">>, <<"A", CTRL, "B">>, <<CTRL, "1">>, <<HIGH, "1">>, <<"Q", "'", HIGH>>, <<"1", NBSP, "O", "R">>, <<"1", HIGH, "-", "-">>,
    <<"0", "X", NUL, "F", "-", "-">>, <<"0", "B", NUL>>, <<"X", "'", NUL, "A", "'", "1">>, <<"B", "'", NUL, "2", "'">>,
    <<"$", NUL, "1">>, <<"$", "A", NUL, "$", "1", "$", "A", NUL, "$", "1">>, <<"1", NUL, "2">>, <<TICK, NUL, "L", "I", "F", TICK>> }
MCInputs == Short \union Quotes \union Sentences(Values, 4) \union Sentences(Words, 4)
            \union Sentences(Places, 3) \union {Chars(w) : w \in OfTheRules \union OfTheParsers} \union OfTheRest
=============================================================================
