------------------------------ MODULE Entities ------------------------------
(* entities_decode_html (lua-resty-htmlentities/entities.c), which the       *)
(* transform html_decode calls.  Bytes and positions as in Decode.           *)
EXTENDS Integers, Sequences, SequencesExt, TLC

UNICODE_MAX == 1114111

\* The names of the table and the characters they stand for, as code points:
\* in the source each value is the UTF-8 encoding that putc_utf8 computes.
NAMED_ENTITIES_1 ==
    [AElig |-> 198, Aacute |-> 193, Acirc |-> 194, Agrave |-> 192,
     Alpha |-> 913, Aring |-> 197, Atilde |-> 195, Auml |-> 196,
     Beta |-> 914, Ccedil |-> 199, Chi |-> 935, Dagger |-> 8225,
     Delta |-> 916, ETH |-> 208, Eacute |-> 201, Ecirc |-> 202,
     Egrave |-> 200, Epsilon |-> 917, Eta |-> 919, Euml |-> 203,
     Gamma |-> 915, Iacute |-> 205, Icirc |-> 206, Igrave |-> 204,
     Iota |-> 921, Iuml |-> 207, Kappa |-> 922, Lambda |-> 923, Mu |-> 924,
     Ntilde |-> 209, Nu |-> 925, OElig |-> 338, Oacute |-> 211,
     Ocirc |-> 212, Ograve |-> 210, Omega |-> 937, Omicron |-> 927,
     Oslash |-> 216, Otilde |-> 213, Ouml |-> 214, Phi |-> 934, Pi |-> 928,
     Prime |-> 8243, Psi |-> 936, Rho |-> 929, Scaron |-> 352, Sigma |-> 931,
     THORN |-> 222, Tau |-> 932, Theta |-> 920, Uacute |-> 218,
     Ucirc |-> 219, Ugrave |-> 217, Upsilon |-> 933, Uuml |-> 220,
     Xi |-> 926, Yacute |-> 221, Yuml |-> 376, Zeta |-> 918, aacute |-> 225,
     acirc |-> 226, acute |-> 180, aelig |-> 230, agrave |-> 224,
     alefsym |-> 8501, alpha |-> 945, amp |-> 38, and |-> 8743, ang |-> 8736,
     apos |-> 39, aring |-> 229, asymp |-> 8776, atilde |-> 227,
     auml |-> 228, bdquo |-> 8222, beta |-> 946, brvbar |-> 166,
     bull |-> 8226, cap |-> 8745, ccedil |-> 231, cedil |-> 184,
     cent |-> 162, chi |-> 967, circ |-> 710, clubs |-> 9827, cong |-> 8773,
     copy |-> 169, crarr |-> 8629, cup |-> 8746, curren |-> 164,
     dArr |-> 8659, dagger |-> 8224, darr |-> 8595, deg |-> 176,
     delta |-> 948, diams |-> 9830, divide |-> 247, eacute |-> 233,
     ecirc |-> 234, egrave |-> 232, empty |-> 8709, emsp |-> 8195,
     ensp |-> 8194, epsilon |-> 949, equiv |-> 8801, eta |-> 951,
     eth |-> 240, euml |-> 235, euro |-> 8364, exist |-> 8707, fnof |-> 402,
     forall |-> 8704, frac12 |-> 189, frac14 |-> 188, frac34 |-> 190,
     frasl |-> 8260, gamma |-> 947, ge |-> 8805, gt |-> 62, hArr |-> 8660,
     harr |-> 8596, hearts |-> 9829, hellip |-> 8230, iacute |-> 237,
     icirc |-> 238, iexcl |-> 161, igrave |-> 236]

NAMED_ENTITIES_2 ==
    [image |-> 8465, infin |-> 8734, int |-> 8747, iota |-> 953,
     iquest |-> 191, isin |-> 8712, iuml |-> 239, kappa |-> 954,
     lArr |-> 8656, lambda |-> 955, lang |-> 12296, laquo |-> 171,
     larr |-> 8592, lceil |-> 8968, ldquo |-> 8220, le |-> 8804,
     lfloor |-> 8970, lowast |-> 8727, loz |-> 9674, lrm |-> 8206,
     lsaquo |-> 8249, lsquo |-> 8216, lt |-> 60, macr |-> 175,
     mdash |-> 8212, micro |-> 181, middot |-> 183, minus |-> 8722,
     mu |-> 956, nabla |-> 8711, nbsp |-> 160, ndash |-> 8211, ne |-> 8800,
     ni |-> 8715, not |-> 172, notin |-> 8713, nsub |-> 8836, ntilde |-> 241,
     nu |-> 957, oacute |-> 243, ocirc |-> 244, oelig |-> 339,
     ograve |-> 242, oline |-> 8254, omega |-> 969, omicron |-> 959,
     oplus |-> 8853, or |-> 8744, ordf |-> 170, ordm |-> 186, oslash |-> 248,
     otilde |-> 245, otimes |-> 8855, ouml |-> 246, para |-> 182,
     part |-> 8706, permil |-> 8240, perp |-> 8869, phi |-> 966, pi |-> 960,
     piv |-> 982, plusmn |-> 177, pound |-> 163, prime |-> 8242,
     prod |-> 8719, prop |-> 8733, psi |-> 968, quot |-> 34, rArr |-> 8658,
     radic |-> 8730, rang |-> 12297, raquo |-> 187, rarr |-> 8594,
     rceil |-> 8969, rdquo |-> 8221, real |-> 8476, reg |-> 174,
     rfloor |-> 8971, rho |-> 961, rlm |-> 8207, rsaquo |-> 8250,
     rsquo |-> 8217, sbquo |-> 8218, scaron |-> 353, sdot |-> 8901,
     sect |-> 167, shy |-> 173, sigma |-> 963, sigmaf |-> 962, sim |-> 8764,
     spades |-> 9824, sub |-> 8834, sube |-> 8838, sum |-> 8721,
     sup1 |-> 185, sup2 |-> 178, sup3 |-> 179, sup |-> 8835, supe |-> 8839,
     szlig |-> 223, tau |-> 964, there4 |-> 8756, theta |-> 952,
     thetasym |-> 977, thinsp |-> 8201, thorn |-> 254, tilde |-> 732,
     times |-> 215, trade |-> 8482, uArr |-> 8657, uacute |-> 250,
     uarr |-> 8593, ucirc |-> 251, ugrave |-> 249, uml |-> 168,
     upsih |-> 978, upsilon |-> 965, uuml |-> 252, weierp |-> 8472,
     xi |-> 958, yacute |-> 253, yen |-> 165, yuml |-> 255, zeta |-> 950,
     zwj |-> 8205, zwnj |-> 8204]

NAMED_ENTITIES == NAMED_ENTITIES_1 @@ NAMED_ENTITIES_2

PutcUtf8Short(cp) ==
    IF cp <= 127 THEN <<cp>>
    ELSE IF cp <= 2047 THEN <<192 + cp \div 64, 128 + (cp % 64)>>
    ELSE <<224 + ((cp \div 4096) % 16), 128 + ((cp \div 64) % 64), 128 + (cp % 64)>>

PutcUtf8(cp) ==
    IF cp <= 127 THEN <<cp>>
    ELSE IF cp <= 2047 THEN <<192 + cp \div 64, 128 + (cp % 64)>>
    ELSE IF cp <= 65535
      THEN <<224 + cp \div 4096, 128 + ((cp \div 64) % 64), 128 + (cp % 64)>>
    ELSE <<240 + cp \div 262144, 128 + ((cp \div 4096) % 64), 128 + ((cp \div 64) % 64), 128 + (cp % 64)>>

Semicolon == 59
Ampersand == 38
Spaces    == 9..13 \union {32}

DigitOf(c) == CASE c \in 48..57  -> c - 48
                [] c \in 65..70  -> c - 55
                [] c \in 97..102 -> c - 87
                [] OTHER         -> 99

\* The 64 bits of an unsigned long, in limbs of 16, 24 and 24.
Limb == 16777216
MulAdd(base, v, digit) ==
    LET low == base * v[3] + digit
        mid == base * v[2] + low \div Limb
    IN  <<base * v[1] + mid \div Limb, mid % Limb, low % Limb>>
OutOfRange(v) == v[1] > 65535

\* A number as far as it has 24 bits, which is more than UNICODE_MAX has; a
\* sign negates it modulo 2^64.
Positive(v) == IF v[1] = 0 /\ v[2] = 0 THEN v[3] ELSE Limb
Negative(v) == IF v = <<0, 0, 0>> THEN 0
               ELSE IF v[1] = 65535 /\ v[2] = Limb - 1 THEN Limb - v[3] ELSE Limb

\* strtoul over all of the text: no value if it stops before the end or is
\* out of range.  White characters and a sign may come first, 0x before
\* hexadecimal digits; without any text it stops where it began, at the end.
Strtoul(text, base) ==
    LET at(k)  == IF k <= Len(text) THEN text[k] ELSE 0
        sign   == SelectInSeq(text, LAMBDA c : c \notin Spaces)
        prefix(k) == base = 16 /\ at(k) = 48 /\ at(k + 1) \in {88, 120} /\ k + 2 <= Len(text)
        signed == {IF at(k) \in {43, 45} THEN k + 1 ELSE k : k \in {sign} \ {0}}
        starts == {IF prefix(k) THEN k + 2 ELSE k : k \in signed} \ {Len(text) + 1}
        whole  == {k \in starts : \A q \in k..Len(text) : DigitOf(text[q]) < base}
        values == {FoldLeft(LAMBDA v, c : IF OutOfRange(v) THEN v ELSE MulAdd(base, v, DigitOf(c)),
                            <<0, 0, 0>>, SubSeq(text, k, Len(text))) : k \in whole}
    IN  IF text = <<>> THEN {0}
        ELSE {IF at(sign) = 45 THEN Negative(v) ELSE Positive(v) : v \in {w \in values : ~OutOfRange(w)}}

\* The bytes of a name, as the table's strings are compared with them.
Spelled(name) == [k \in 1..Len(name) |-> SubSeq(name, k, k)]
DIGITS  == <<"0", "1", "2", "3", "4", "5", "6", "7", "8", "9">>
CAPITALS == <<"A","B","C","D","E","F","G","H","I","J","K","L","M",
                "N","O","P","Q","R","S","T","U","V","W","X","Y","Z">>
SMALL    == <<"a","b","c","d","e","f","g","h","i","j","k","l","m",
                "n","o","p","q","r","s","t","u","v","w","x","y","z">>
AsciiOf(c) ==
    LET at(seq) == SelectInSeq(seq, LAMBDA e : e = c)
    IN  IF at(DIGITS) > 0 THEN 47 + at(DIGITS)
        ELSE IF at(CAPITALS) > 0 THEN 64 + at(CAPITALS) ELSE 96 + at(SMALL)
Ascii(name) == LET letters == Spelled(name) IN [k \in DOMAIN letters |-> AsciiOf(letters[k])]

\* The names of the table that are the text: one or none.  The table is
\* sorted by its bytes and every name in it ends with a ";", so the binary
\* search for a name that begins the rest of the buffer finds the same.
get_named_entity(text) ==
    {name \in DOMAIN NAMED_ENTITIES : Len(name) = Len(text) /\ Ascii(name) = text}

\* parse_entity at the "&" of position i: the code point that the text before
\* the next ";" stands for, if it does, and the position behind that.  Names
\* carry their ";" in the table, so only the whole text before it can be one.
ParseEntity(x, i) ==
    LET text(end, from) == SubSeq(x, from, end - 1)
        named(end) == {NAMED_ENTITIES[name] : name \in get_named_entity(text(end, i + 2))}
        number(end) == IF i + 2 < Len(x) /\ x[i + 3] \in {88, 120} THEN Strtoul(text(end, i + 4), 16)
                       ELSE Strtoul(text(end, i + 3), 10)
        found(end) == IF x[i + 2] = 35 THEN {cp \in number(end) : cp <= UNICODE_MAX} ELSE named(end)
        next == SelectInSubSeq(x, i + 1, Len(x), LAMBDA c : c = Semicolon)
    IN  UNION {{[next |-> end, emit |-> PutcUtf8(cp)] : cp \in found(end)} : end \in {next} \ {0}}

\* What is no entity is copied, its "&" alone.
EntitySteps(x, i) ==
    IF x[i + 1] = Ampersand /\ ParseEntity(x, i) # {} THEN ParseEntity(x, i)
    ELSE {[next |-> i + 1, emit |-> <<x[i + 1]>>]}

The(S) == CHOOSE e \in S : TRUE
entities_decode_html(x) ==
    LET rest[i \in 0..Len(x)] ==
            IF i = Len(x) THEN <<>>
            ELSE The({step.emit \o rest[step.next] : step \in EntitySteps(x, i)})
    IN  rest[0]

-----------------------------------------------------------------------------
\* A number in decimal or hexadecimal digits.
Numeral(n, base) ==
    LET low(d) == IF d < 10 THEN 48 + d ELSE 87 + d
        write[m \in 0..n] == IF m < base THEN <<low(m)>>
                             ELSE write[m \div base] \o <<low(m % base)>>
    IN  write[n]

\* The numbers a code point is written with: decimal, hexadecimal and, where
\* strtoul wraps around, -(2^64 - cp).
References(cp) ==
    {<<38, 35>> \o Numeral(cp, 10) \o <<59>>,
     <<38, 35, 120>> \o Numeral(cp, 16) \o <<59>>}
    \union {<<38, 35, 120, 45>> \o [k \in 1..10 |-> 102] \o Numeral(Limb - c, 16) \o <<59>> :
               c \in {cp} \ {0}}

\* The UTF-8 decoder: the code point that some bytes encode.
Utf8Value(bytes) ==
    LET lead == CASE Len(bytes) = 1 -> bytes[1] [] Len(bytes) = 2 -> bytes[1] - 192
                  [] Len(bytes) = 3 -> bytes[1] - 224 [] Len(bytes) = 4 -> bytes[1] - 240
    IN  FoldLeft(LAMBDA v, b : 64 * v + b - 128, lead, Tail(bytes))

\* A character is decoded from its name and from each kind of number to the
\* same bytes, which encode it, whatever surrounds it; and what is written
\* for a reference is never longer than it, so the buffer can be decoded in
\* place (entities.c:399).
DecodesReferences(cp, around) ==
    /\ Utf8Value(PutcUtf8(cp)) = cp
    /\ \A ref \in References(cp) :
          /\ entities_decode_html(around \o ref) = entities_decode_html(around) \o PutcUtf8(cp)
          /\ Len(PutcUtf8(cp)) <= Len(ref)
DecodesNames(around) ==
    \A name \in DOMAIN NAMED_ENTITIES :
        LET ref == <<Ampersand>> \o Ascii(name) \o <<Semicolon>>
        IN  /\ entities_decode_html(ref \o around)
                   = PutcUtf8(NAMED_ENTITIES[name]) \o entities_decode_html(around)
            /\ Len(PutcUtf8(NAMED_ENTITIES[name])) <= Len(ref)
NeverGrows(x) == \A i \in 0..Len(x) - 1 :
    \A step \in EntitySteps(x, i) : i + Len(step.emit) <= step.next
=============================================================================
