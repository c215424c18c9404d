------------------------------- MODULE MCXss -------------------------------
(* Every input of up to three characters that the tokenizer tells apart,   *)
(* and sentences of up to four pieces of tags, attributes and references.  *)
EXTENDS Xss

D == INSTANCE Decode
E == INSTANCE Entities

Chars(w) == [k \in 1..Len(w) |-> SubSeq(w, k, k)]

Alphabet == {"<", ">", "/", " ", NUL, HIGH, "=", "'", "a", "!", "-", "?", "%"}
Pieces == {Chars("<a"), Chars("</"), <<" ">>, Chars("hrEf"), Chars("="), <<"'">>, <<">">>,
           Chars("&#x6a;ava"), Chars("&#"), Chars("on")}
Escapes == {"\\", "u", "x", "f", "1", "4", "&", "#", ";", " ", "\n"}
Short == UNION {[1..k -> Alphabet] : k \in 0..3}
Sentences == {FlattenSeq(q) : q \in [1..4 -> Pieces]}
MCInputs == Short \union [1..3 -> Escapes] \union Sentences \union {
    Chars("<!doctype"), Chars("<!--<script-->"), Chars("<!-- -!><svg"), Chars("<![CDATA[>]]><xss>"),
    Chars("<%import%><object>"), Chars("<!entity"), Chars("<?xml >"), Chars("<![if"), Chars("<a xmlns=x"),
    Chars("<a attributename=src>"), Chars("<a attributename=b/>"), Chars("<a style = b>"),
    Chars("<a src='&#1048832;data'"), Chars("<a src=&#321;vbscript>"), Chars("<a src=&#68ata>"), Chars("<a src=da&#9;ta>"),
    Chars("<a\nsrc='\nda\nta'"), Chars("<a src='da\n\n ta'"), Chars("<a src=&#10;java\nx>"), Chars("<svg\n/\n>"),
    <<"<", "!", "-", "-", NUL, "-", NUL, NUL, "-", ">", "<">>,
    <<"<", "!", "-", "-", "-", NUL, TICK>>, <<"<", "a", " ", "b", "=", TICK, "c", TICK, "d", "/", ">">> }

CodePoints == {0, 38, 127, 128, 2047, 2048, 65535, 65536, 1114111}

\* The decoders of the transforms return what a text stood for before it was
\* escaped, in each form of escape (Decode, Entities), for the short inputs.
DecodersUndoEscapes ==
    context = 1 /\ h5 = H5Init(ContextOrder[1]) /\ Len(s) <= 3 =>
        LET x == [k \in DOMAIN s |-> Code(s[k])]
        IN  /\ D!UndoesEscapes(x)
            /\ E!NeverGrows(x)
            /\ \A cp \in CodePoints : E!DecodesReferences(cp, x)
            /\ x = <<>> => E!DecodesNames(<<Code("a")>>)
=============================================================================
