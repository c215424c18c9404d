----------------------------- MODULE Xss_proofs -----------------------------
(* Proofs about Xss, whatever the input.  Every function of the tokenizer    *)
(* returns a token of the text behind the ones before it, hands over to a    *)
(* state that finds what it counts on (Ready), and goes on or changes its    *)
(* state (Returns); so does each step, and the tokens of a context follow    *)
(* each other.  Behind a value is a character that ends a reference          *)
(* (EndsValue): so it is decoded within its bounds, and the loop of          *)
(* htmlencode_startswith yields at each of its places what the codes that    *)
(* follow determine (Recursion, Descent).                                    *)
EXTENDS Xss, FiniteSetsExt, SequenceTheorems, WellFoundedInduction, TLAPS

-----------------------------------------------------------------------------
(* Where characters and words are found.                                   *)

\* A set of numbers has a least one.
LEMMA LeastOf ==
    ASSUME NEW S \in SUBSET Nat, S # {}
    PROVE  Min(S) \in S /\ \A j \in S : Min(S) <= j
<1> DEFINE R == OpToRel(<, Nat)
<1>1. IsWellFoundedOn(R, Nat)
  BY NatLessThanWellFounded
<1> HIDE DEF R
<1>2. PICK k \in S : \A j \in S : ~(<<j, k>> \in R)
  BY <1>1, WFMin
<1>3. ASSUME NEW j \in S PROVE k <= j
  <2>1. j < k => <<j, k>> \in R
    BY DEF R, OpToRel
  <2> QED BY <2>1, <1>2
<1> QED BY <1>3 DEF Min

\* First: the position it finds, which is the end when there is none.
LEMMA FirstIn ==
    ASSUME NEW u, Len(u) \in Nat, NEW p \in 0..Len(u), NEW chars
    PROVE  LET q == First(u, chars, p)
           IN  /\ q \in p..Len(u)
               /\ q < Len(u) => At(u, q) \in chars
               /\ \A k \in p..(q - 1) : At(u, k) \notin chars
<1> DEFINE I == {i \in (p + 1)..Len(u) : u[i] \in chars}
           k == IF I # {} THEN Min(I) ELSE 0
<1>1. First(u, chars, p) = IF k = 0 THEN Len(u) ELSE k - 1
  BY DEF First, SelectInSubSeq
<1>2. I # {} => Min(I) \in I /\ \A j \in I : Min(I) <= j
  BY LeastOf
<1>3. CASE I = {}
  <2>1. First(u, chars, p) = Len(u)
    BY <1>1, <1>3
  <2>2. \A j \in p..(Len(u) - 1) : At(u, j) \notin chars
    BY <1>3 DEF At
  <2> QED BY <2>1, <2>2
<1>4. CASE I # {}
  <2> DEFINE m == Min(I)
  <2>0. m \in I /\ \A j \in I : m <= j
    BY <1>2, <1>4
  <2>1. m \in (p + 1)..Len(u) /\ u[m] \in chars
    BY <2>0
  <2> HIDE DEF m
  <2>2. First(u, chars, p) = m - 1
    BY <1>1, <1>4, <2>1 DEF m
  <2>3. \A j \in p..(m - 2) : At(u, j) \notin chars
    BY <2>0, <2>1 DEF At
  <2>4. m - 1 < Len(u) /\ At(u, m - 1) \in chars
    BY <2>1 DEF At
  <2> QED BY <2>1, <2>2, <2>3, <2>4
<1> QED BY <1>3, <1>4

\* FirstWord: where it finds a word, the word is.
LEMMA FirstWordIn ==
    ASSUME NEW u, Len(u) \in Nat, NEW p \in Nat, NEW words
    PROVE  LET q == FirstWord(u, words, p)
           IN  \/ q = -1
               \/ q \in p..(Len(u) - 1) /\ \E w \in words : WordAt(u, q, Len(w)) = w
<1> DEFINE begins(k) == \E w \in words : WordAt(u, k - 1, Len(w)) = w
           f == [k \in 1..Len(u) |-> k > p /\ begins(k)]
           I == {i \in 1..Len(f) : f[i]}
<1>1. FirstWord(u, words, p) = (IF I # {} THEN Min(I) ELSE 0) - 1
  BY DEF FirstWord, SelectInSeq
<1>2. Len(f) = Len(u)
  <2>1. f \in [1..Len(u) -> BOOLEAN]
    OBVIOUS
  <2> HIDE DEF f
  <2>2. f \in Seq(BOOLEAN) /\ DOMAIN f = 1..Len(u)
    BY <2>1
  <2>3. DOMAIN f = 1..Len(f) /\ Len(f) \in Nat
    BY <2>2, LenProperties
  <2> QED BY <2>2, <2>3
<1>0. I \in SUBSET Nat
  OBVIOUS
<1>3. CASE I = {}
  <2> HIDE DEF I
  <2>1. FirstWord(u, words, p) = 0 - 1
    BY <1>1, <1>3
  <2>2. FirstWord(u, words, p) = -1
    BY <2>1
  <2> QED BY <2>2
<1>4. CASE I # {}
  <2> DEFINE m == Min(I)
  <2>1. m \in I
    BY <1>0, <1>4, LeastOf
  <2>2. m \in 1..Len(u) /\ m > p /\ begins(m)
    BY <2>1, <1>2
  <2> HIDE DEF m, f
  <2>3. FirstWord(u, words, p) = m - 1
    BY <1>1, <1>4 DEF m
  <2> QED BY <2>2, <2>3
<1> QED BY <1>3, <1>4

\* A word that is found ends in the text.
LEMMA WordFits ==
    ASSUME NEW u \in Seq(STRING), NEW q \in 0..Len(u), NEW n \in Nat, Len(WordAt(u, q, n)) = n
    PROVE  q + n <= Len(u)
<1>1. Len(u) \in Nat
  BY LenProperties
<1>2. CASE q + n < Len(u)
  BY <1>1, <1>2
<1>3. CASE ~(q + n < Len(u))
  <2>1. WordAt(u, q, n) = SubSeq(u, q + 1, Len(u))
    BY <1>3 DEF WordAt
  <2>2. Len(SubSeq(u, q + 1, Len(u))) = IF q + 1 <= Len(u) THEN Len(u) - (q + 1) + 1 ELSE 0
    BY <1>1, SubSeqProperties
  <2> QED BY <1>1, <2>1, <2>2
<1> QED BY <1>2, <1>3

\* A character other than the NUL is inside the text.
LEMMA AtInside == \A u, q : At(u, q) # NUL => q < Len(u)
  BY DEF At

-----------------------------------------------------------------------------
(* The tokenizer, and the token it is at.                                  *)

\* A tokenizer whose position is in the text, and whose token is.
Tokenizers(u) ==
    [pos : 0..Len(u), is_close : BOOLEAN, more : BOOLEAN, state : StateNames,
     token_start : 0..Len(u), token_len : 0..Len(u), token_type : TokenTypes]
InText(u, h) == h \in Tokenizers(u) /\ h.token_start + h.token_len <= Len(u)

\* The states that are entered only at the start of the text, inside a quote.
InQuote == {"attribute_value_double_quote", "attribute_value_single_quote", "attribute_value_back_quote"}

\* What a state may count on when it is entered: nothing that was read is part of
\* the token, and the character before the position is not where the code steps back
\* to it.
Ready(u, state, end, pos) ==
    /\ state # "eof" => end <= pos
    /\ state \in {"tag_open", "self_closing_start_tag"} => end + 1 <= pos
    /\ state = "tag_name_close" => At(u, pos) = ">"
    /\ state \in InQuote => pos = 0

\* What ends the value of an attribute.
Quotes == {"\"", "'", TICK}
Enders == Quotes \union White \union {">"}
EndsValue(u, type, end) == type = "ATTR_VALUE" => At(u, end) \in Enders

\* The end of the text does, and white characters.
LEMMA TextEnds ==
    /\ \A u, end : \A type \in TokenTypes \ {"ATTR_VALUE"} : EndsValue(u, type, end)
    /\ \A u, end, type : At(u, end) \in White \union {">"} => EndsValue(u, type, end)
    /\ \A u, type : Len(u) \in Nat => EndsValue(u, type, Len(u))
<1>1. NUL \in White /\ \A u : Len(u) \in Nat => At(u, Len(u)) = NUL
  BY DEF At, White
<1> QED BY <1>1 DEF EndsValue, Enders

\* What a function of the code returns that was entered in the state at from, with
\* all tokens before low.
Returns(u, low, from, state, h) ==
    /\ InText(u, h)
    /\ h.more => /\ h.token_start >= low /\ h.pos >= low
                 /\ Ready(u, h.state, h.token_start + h.token_len, h.pos)
                 /\ EndsValue(u, h.token_type, h.token_start + h.token_len)
                 /\ h.pos > from \/ h.state # state

\* A tokenizer without its token.
LEMMA GotoIs ==
    ASSUME NEW u, Len(u) \in Nat, NEW h, InText(u, h), NEW p \in 0..Len(u)
    PROVE  /\ InText(u, Goto(h, p)) /\ Goto(h, p).pos = p /\ Goto(h, p).more = h.more
           /\ Goto(h, p).state = h.state
           /\ Goto(h, p).token_start = h.token_start /\ Goto(h, p).token_len = h.token_len
           /\ Goto(h, p).is_close = h.is_close
  BY DEF Goto, InText, Tokenizers

\* The end of the input.
LEMMA NothingReturns ==
    ASSUME NEW u, Len(u) \in Nat, NEW h, InText(u, h), NEW low, NEW from, NEW state
    PROVE  Returns(u, low, from, state, Nothing(h))
  BY DEF Nothing, Returns, InText, Tokenizers

\* A token of the text, with which a state goes on that may count on what it does.
LEMMA TokenReturns ==
    ASSUME NEW u, Len(u) \in Nat, NEW h, InText(u, h), NEW type \in TokenTypes,
           NEW start \in 0..Len(u), NEW end \in start..Len(u), NEW pos \in 0..Len(u),
           NEW next \in StateNames, NEW low \in Nat, NEW from \in Nat, NEW state,
           low <= start, low <= pos, Ready(u, next, end, pos), EndsValue(u, type, end),
           pos > from \/ next # state
    PROVE  /\ Returns(u, low, from, state, Token(h, type, start, end, pos, next))
           /\ \A b \in BOOLEAN :
                /\ Returns(u, low, from, state, [Token(h, type, start, end, pos, next) EXCEPT !.is_close = b])
                /\ Returns(u, low, from, state, [Token(h, type, start, end, pos, next) EXCEPT !.more = b])
<1>1. end - start \in 0..Len(u) /\ start + (end - start) = end
  OBVIOUS
<1> DEFINE t == Token(h, type, start, end, pos, next)
<1>2. /\ t \in Tokenizers(u)
      /\ t.token_start = start /\ t.token_len = end - start /\ t.pos = pos /\ t.state = next
      /\ t.token_type = type
  BY <1>1 DEF Token, InText, Tokenizers
<1> HIDE DEF t
<1>3. Returns(u, low, from, state, t)
  BY <1>1, <1>2 DEF Returns, InText
<1>4. ASSUME NEW b \in BOOLEAN
      PROVE  /\ Returns(u, low, from, state, [t EXCEPT !.is_close = b])
             /\ Returns(u, low, from, state, [t EXCEPT !.more = b])
  BY <1>1, <1>2 DEF Returns, InText, Tokenizers
<1> QED BY <1>3, <1>4 DEF t

-----------------------------------------------------------------------------
(* Text, tags and attributes.                                              *)

\* Where a function is entered: behind all tokens, no earlier than the state was.
Entered(u, h, low, from) ==
    InText(u, h) /\ low \in Nat /\ from \in Nat /\ low <= h.pos /\ from <= h.pos

\* Moving on, a function is still behind all tokens.
LEMMA MovedOn ==
    ASSUME NEW u, Len(u) \in Nat, NEW h, NEW low, NEW from, Entered(u, h, low, from),
           NEW p \in h.pos..Len(u)
    PROVE  Entered(u, Goto(h, p), low, from) /\ Goto(h, p).pos = p
<1>1. p \in 0..Len(u) /\ h.pos \in Nat
  BY DEF Entered, InText, Tokenizers
<1> QED BY <1>1, GotoIs DEF Entered

\* The names of the states and of the tokens.
LEMMA Names ==
    /\ {"eof", "data", "tag_open", "tag_name_close", "self_closing_start_tag", "after_attribute_name",
        "before_attribute_name", "before_attribute_value", "after_attribute_value_quoted_state"} \subseteq StateNames
    /\ TokenTypes = {"DATA_TEXT", "TAG_NAME_OPEN", "TAG_NAME_CLOSE", "TAG_NAME_SELFCLOSE", "TAG_CLOSE",
        "ATTR_NAME", "ATTR_VALUE", "TAG_COMMENT", "DOCTYPE"}
    /\ \A u, end : \A type \in {"DATA_TEXT", "TAG_NAME_OPEN", "TAG_NAME_CLOSE", "TAG_NAME_SELFCLOSE",
        "TAG_CLOSE", "ATTR_NAME", "TAG_COMMENT", "DOCTYPE"} : EndsValue(u, type, end)
<1>1. {"DATA_TEXT", "TAG_NAME_OPEN", "TAG_NAME_CLOSE", "TAG_NAME_SELFCLOSE", "TAG_CLOSE", "ATTR_NAME",
       "TAG_COMMENT", "DOCTYPE"} \subseteq TokenTypes \ {"ATTR_VALUE"}
  BY DEF TokenTypes
<1> QED BY <1>1, TextEnds DEF StateNames, TokenTypes

\* The states that count on nothing but that the token is behind them.
Plain == {"data", "after_attribute_name", "before_attribute_name", "before_attribute_value",
          "after_attribute_value_quoted_state"}
LEMMA PlainReady ==
    /\ Plain \subseteq StateNames
    /\ \A u, end, pos : Ready(u, "eof", end, pos)
    /\ \A u, state, end, pos : state \in Plain /\ end <= pos => Ready(u, state, end, pos)
  BY DEF Plain, StateNames, Ready, InQuote

\* h5_state_data, but for the tag that follows.
LEMMA DataTextReturns ==
    ASSUME NEW u, Len(u) \in Nat, NEW h, NEW low, NEW from, Entered(u, h, low, from),
           NEW state, state # "eof"
    PROVE  Returns(u, low, from, state, DataText(u, h))
<1> DEFINE lt == First(u, {"<"}, h.pos)
<1>1. h.pos \in 0..Len(u) /\ low \in Nat /\ from \in Nat /\ low <= h.pos /\ from <= h.pos /\ InText(u, h)
  BY DEF Entered, InText, Tokenizers
<1>2. lt \in h.pos..Len(u)
  BY <1>1, FirstIn
<1>3. (h.pos < lt) \in BOOLEAN
  OBVIOUS
<1> HIDE DEF lt
<1>4. CASE lt = Len(u)
  <2>1. Returns(u, low, from, state, [Token(h, "DATA_TEXT", h.pos, lt, h.pos, "eof") EXCEPT !.more = h.pos < lt])
    BY <1>1, <1>2, <1>3, Names, PlainReady, TokenReturns
  <2> QED BY <1>4, <2>1 DEF DataText, lt
<1>5. CASE lt # Len(u)
  <2>1. lt + 1 \in 0..Len(u) /\ lt + 1 > from /\ low <= lt + 1
    BY <1>1, <1>2, <1>5
  <2>2. Ready(u, "tag_open", lt, lt + 1)
    BY <1>2 DEF Ready, InQuote
  <2>3. Returns(u, low, from, state, Token(h, "DATA_TEXT", h.pos, lt, lt + 1, "tag_open"))
    BY <1>1, <1>2, <2>1, <2>2, Names, TokenReturns
  <2> QED BY <1>5, <2>3 DEF DataText, lt
<1> QED BY <1>4, <1>5

\* h5_state_tag_name_close and the other ways to a ">".
LEMMA CloseReturns ==
    ASSUME NEW u, Len(u) \in Nat, NEW h, NEW low, NEW from, Entered(u, h, low, from),
           NEW state, At(u, h.pos) = ">"
    PROVE  /\ Returns(u, low, from, state, TagNameClose(u, h))
           /\ Returns(u, low, from, state, CloseTag(u, h))
           /\ low + 1 <= h.pos => Returns(u, low, from, state, SelfClose(u, h))
<1>1. h.pos \in 0..Len(u) /\ low \in Nat /\ from \in Nat /\ low <= h.pos /\ from <= h.pos /\ InText(u, h)
  BY DEF Entered, InText, Tokenizers
<1>2. h.pos + 1 \in 0..Len(u) /\ h.pos + 1 \in h.pos..Len(u) /\ h.pos + 1 > from /\ low <= h.pos + 1
  BY <1>1, AtInside DEF NUL
<1>3. "data" \in Plain /\ h.pos + 1 <= h.pos + 1 /\ FALSE \in BOOLEAN
  BY <1>1 DEF Plain
<1>4. Returns(u, low, from, state, TagNameClose(u, h))
  <2> DEFINE next == IF h.pos + 1 < Len(u) THEN "data" ELSE "eof"
  <2>1. next \in StateNames /\ Ready(u, next, h.pos + 1, h.pos + 1)
    BY <1>3, Names, PlainReady
  <2> HIDE DEF next
  <2>2. Returns(u, low, from, state, [Token(h, "TAG_NAME_CLOSE", h.pos, h.pos + 1, h.pos + 1, next) EXCEPT !.is_close = FALSE])
    BY <1>1, <1>2, <1>3, <2>1, Names, TokenReturns
  <2> QED BY <2>2 DEF TagNameClose, next
<1>5. Returns(u, low, from, state, CloseTag(u, h))
  <2>1. Returns(u, low, from, state, Token(h, "TAG_NAME_CLOSE", h.pos, h.pos + 1, h.pos + 1, "data"))
    BY <1>1, <1>2, <1>3, Names, PlainReady, TokenReturns
  <2> QED BY <2>1 DEF CloseTag
<1>6. ASSUME low + 1 <= h.pos PROVE Returns(u, low, from, state, SelfClose(u, h))
  <2>1. h.pos - 1 \in 0..Len(u) /\ h.pos + 1 \in (h.pos - 1)..Len(u) /\ low <= h.pos - 1
    BY <1>1, <1>2, <1>6
  <2>2. Returns(u, low, from, state, Token(h, "TAG_NAME_SELFCLOSE", h.pos - 1, h.pos + 1, h.pos + 1, "data"))
    BY <1>1, <1>2, <1>3, <2>1, Names, PlainReady, TokenReturns
  <2> QED BY <2>2 DEF SelfClose
<1> QED BY <1>4, <1>5, <1>6

\* h5_state_tag_name.
LEMMA TagNameReturns ==
    ASSUME NEW u, Len(u) \in Nat, NEW h, NEW low, NEW from, Entered(u, h, low, from),
           NEW state, state \notin {"eof", "tag_name_close"}
    PROVE  Returns(u, low, from, state, TagName(u, h))
<1> DEFINE chars == (White \ {NUL}) \union {"/", ">"}
           e == First(u, chars, h.pos)
<1>1. h.pos \in 0..Len(u) /\ low \in Nat /\ from \in Nat /\ low <= h.pos /\ from <= h.pos /\ InText(u, h)
  BY DEF Entered, InText, Tokenizers
<1>2. e \in h.pos..Len(u) /\ (e < Len(u) => At(u, e) \in chars)
  BY <1>1, FirstIn
<1> HIDE DEF e, chars
<1>3. CASE e = Len(u)
  <2>1. Returns(u, low, from, state, Token(h, "TAG_NAME_OPEN", h.pos, e, h.pos, "eof"))
    BY <1>1, <1>2, Names, PlainReady, TokenReturns
  <2> QED BY <1>3, <2>1 DEF TagName, e, chars
<1>4. CASE e # Len(u)
  <2>1. e + 1 \in 0..Len(u) /\ e + 1 > from /\ low <= e + 1 /\ e <= e + 1 /\ e \in 0..Len(u) /\ low <= e
    BY <1>1, <1>2, <1>4
  <2>2. {"before_attribute_name", "data"} \subseteq Plain /\ FALSE \in BOOLEAN
    BY DEF Plain
  <2>3. Ready(u, "self_closing_start_tag", e, e + 1)
    BY <2>1 DEF Ready, InQuote
  <2>4. At(u, e) = ">" => Ready(u, "tag_name_close", e, e)
    BY <2>1 DEF Ready, InQuote
  <2>5. Returns(u, low, from, state, Token(h, "TAG_NAME_OPEN", h.pos, e, e + 1, "before_attribute_name"))
    BY <1>1, <1>2, <2>1, <2>2, Names, PlainReady, TokenReturns
  <2>6. Returns(u, low, from, state, Token(h, "TAG_NAME_OPEN", h.pos, e, e + 1, "self_closing_start_tag"))
    BY <1>1, <1>2, <2>1, <2>3, Names, TokenReturns
  <2>7. Returns(u, low, from, state, [Token(h, "TAG_CLOSE", h.pos, e, e + 1, "data") EXCEPT !.is_close = FALSE])
    BY <1>1, <1>2, <2>1, <2>2, Names, PlainReady, TokenReturns
  <2>8. At(u, e) = ">" => Returns(u, low, from, state, Token(h, "TAG_NAME_OPEN", h.pos, e, e, "tag_name_close"))
    BY <1>1, <1>2, <2>1, <2>4, Names, TokenReturns
  <2>9. At(u, e) \in chars
    BY <1>2, <1>4, <2>1
  <2> QED BY <1>4, <2>5, <2>6, <2>7, <2>8, <2>9 DEF TagName, e, chars
<1> QED BY <1>3, <1>4

\* h5_state_attribute_name.
LEMMA AttributeNameReturns ==
    ASSUME NEW u, Len(u) \in Nat, NEW h, NEW low, NEW from, Entered(u, h, low, from), h.pos # Len(u),
           NEW state
    PROVE  Returns(u, low, from, state, AttributeName(u, h))
<1> DEFINE chars == White \union {"/", "=", ">"}
           e == First(u, chars, h.pos + 1)
<1>1. /\ h.pos \in 0..Len(u) /\ low \in Nat /\ from \in Nat /\ low <= h.pos /\ from <= h.pos /\ InText(u, h)
      /\ h.pos + 1 \in 0..Len(u)
  BY DEF Entered, InText, Tokenizers
<1>2. e \in (h.pos + 1)..Len(u) /\ (e < Len(u) => At(u, e) \in chars)
  BY <1>1, FirstIn
<1> HIDE DEF e
<1>3. e \in h.pos..Len(u) /\ e \in 0..Len(u) /\ e > from /\ low <= e
  BY <1>1, <1>2
<1>4. CASE e = Len(u)
  <2>1. Returns(u, low, from, state, Token(h, "ATTR_NAME", h.pos, e, e, "eof"))
    BY <1>1, <1>3, Names, PlainReady, TokenReturns
  <2> QED BY <1>4, <2>1 DEF AttributeName, e
<1>5. CASE e # Len(u)
  <2>1. e + 1 \in 0..Len(u) /\ e + 1 > from /\ low <= e + 1 /\ e <= e + 1
    BY <1>1, <1>3, <1>5
  <2>2. {"after_attribute_name", "before_attribute_value"} \subseteq Plain
    BY DEF Plain
  <2>3. Ready(u, "self_closing_start_tag", e, e + 1)
    BY <2>1 DEF Ready, InQuote
  <2>4. At(u, e) = ">" => Ready(u, "tag_name_close", e, e)
    BY <1>3 DEF Ready, InQuote
  <2>5. Returns(u, low, from, state, Token(h, "ATTR_NAME", h.pos, e, e + 1, "after_attribute_name"))
    BY <1>1, <1>3, <2>1, <2>2, Names, PlainReady, TokenReturns
  <2>6. Returns(u, low, from, state, Token(h, "ATTR_NAME", h.pos, e, e + 1, "self_closing_start_tag"))
    BY <1>1, <1>3, <2>1, <2>3, Names, TokenReturns
  <2>7. Returns(u, low, from, state, Token(h, "ATTR_NAME", h.pos, e, e + 1, "before_attribute_value"))
    BY <1>1, <1>3, <2>1, <2>2, Names, PlainReady, TokenReturns
  <2>8. At(u, e) = ">" => Returns(u, low, from, state, Token(h, "ATTR_NAME", h.pos, e, e, "tag_name_close"))
    BY <1>1, <1>3, <2>4, Names, TokenReturns
  <2>9. At(u, e) \in White \/ At(u, e) = "/" \/ At(u, e) = "=" \/ At(u, e) = ">"
    BY <1>2, <1>3, <1>5
  <2> QED BY <1>5, <2>5, <2>6, <2>7, <2>8, <2>9 DEF AttributeName, e
<1> QED BY <1>4, <1>5

\* h5_skip_white stays in the text, and what it stops at is not white.
LEMMA SkipWhiteIn ==
    ASSUME NEW u, Len(u) \in Nat, NEW h, h.pos \in 0..Len(u)
    PROVE  LET q == SkipWhite(u, h)
           IN  q \in h.pos..Len(u) /\ (q < Len(u) => At(u, q) \notin White)
<1> DEFINE p == h.pos
           I == {i \in (p + 1)..Len(u) : u[i] \notin White}
           k == IF I # {} THEN Min(I) ELSE 0
<1>1. SkipWhite(u, h) = IF k = 0 THEN Len(u) ELSE k - 1
  BY DEF SkipWhite, SelectInSubSeq
<1>a. \A i \in I : i \in Nat
  OBVIOUS
<1>2. I # {} => Min(I) \in I
  <2> HIDE DEF I
  <2> QED BY <1>a, LeastOf
<1>3. CASE I = {}
  <2>1. SkipWhite(u, h) = Len(u)
    BY <1>1, <1>3
  <2> QED BY <2>1
<1>4. CASE I # {}
  <2> DEFINE m == Min(I)
  <2>1. m \in (p + 1)..Len(u) /\ u[m] \notin White
    BY <1>2, <1>4
  <2> HIDE DEF m
  <2>2. SkipWhite(u, h) = m - 1
    BY <1>1, <1>4, <2>1 DEF m
  <2>3. m - 1 < Len(u) /\ At(u, m - 1) \notin White
    BY <2>1 DEF At
  <2> QED BY <2>1, <2>2, <2>3
<1> QED BY <1>3, <1>4

\* h5_state_before_attribute_name, if what follows a slash returns what it should.
LEMMA InTagReturns ==
    ASSUME NEW u, Len(u) \in Nat, NEW h, NEW low, NEW from, Entered(u, h, low, from), NEW state, NEW slash,
           \A q \in (h.pos + 1)..Len(u) : Returns(u, low, from, state, slash[q])
    PROVE  Returns(u, low, from, state, InTag(u, h, slash))
<1> DEFINE q == SkipWhite(u, h)
<1>1. h.pos \in 0..Len(u) /\ InText(u, h)
  BY DEF Entered, InText, Tokenizers
<1>2. q \in h.pos..Len(u)
  BY <1>1, SkipWhiteIn
<1> HIDE DEF q
<1>3. Entered(u, Goto(h, q), low, from) /\ Goto(h, q).pos = q
  BY <1>2, MovedOn
<1>4. CASE IsEOF(u, q)
  <2>1. Returns(u, low, from, state, Nothing(Goto(h, q)))
    BY <1>3, NothingReturns DEF Entered
  <2> QED BY <1>4, <2>1 DEF InTag, q
<1>5. CASE ~IsEOF(u, q) /\ At(u, q) = "/"
  <2>1. q + 1 \in (h.pos + 1)..Len(u)
    BY <1>1, <1>2, <1>5 DEF IsEOF
  <2> QED BY <1>5, <2>1 DEF InTag, q
<1>6. CASE ~IsEOF(u, q) /\ At(u, q) = ">"
  <2>1. Returns(u, low, from, state, CloseTag(u, Goto(h, q)))
    BY <1>3, <1>6, CloseReturns
  <2> QED BY <1>6, <2>1 DEF InTag, q
<1>7. CASE ~IsEOF(u, q) /\ At(u, q) # ">" /\ At(u, q) # "/"
  <2>1. q # Len(u)
    BY <1>7 DEF IsEOF
  <2>2. Returns(u, low, from, state, AttributeName(u, Goto(h, q)))
    BY <1>3, <2>1, AttributeNameReturns
  <2> QED BY <1>7, <2>2 DEF InTag, q
<1> QED BY <1>4, <1>5, <1>6, <1>7

\* What self_closing_start_tag returns at the positions from p on.
IsSlash(u, h, slash, p) ==
    slash = [q \in p..Len(u) |-> IF q = Len(u) THEN Nothing(Goto(h, q))
                                 ELSE IF At(u, q) = ">" THEN SelfClose(u, Goto(h, q))
                                 ELSE InTag(u, Goto(h, q), slash)]

\* At each position it depends only on later ones.
LEMMA InTagLooksOn ==
    ASSUME NEW u, Len(u) \in Nat, NEW h, NEW p \in 0..(Len(u) - 1), h.pos = p, NEW f, NEW g,
           \A q \in (p + 1)..Len(u) : f[q] = g[q]
    PROVE  InTag(u, h, f) = InTag(u, h, g)
<1> DEFINE q == SkipWhite(u, h)
<1>1. q \in p..Len(u)
  BY SkipWhiteIn
<1> HIDE DEF q
<1>2. ~IsEOF(u, q) => q + 1 \in (p + 1)..Len(u)
  BY <1>1 DEF IsEOF
<1>3. ~IsEOF(u, q) => f[q + 1] = g[q + 1]
  BY <1>2
<1> QED BY <1>3 DEF InTag, q

\* So it is a function on all of them.
LEMMA SlashIs ==
    ASSUME NEW u, Len(u) \in Nat, NEW h, InText(u, h)
    PROVE  IsSlash(u, h, BehindSlash(u, h), h.pos)
<1> DEFINE N == Len(u)
           K == {k \in 0..(N - h.pos) : ~\E f : IsSlash(u, h, f, N - k)}
<1>1. K \in SUBSET Nat /\ h.pos \in 0..N
  BY DEF InText, Tokenizers
<1>2. CASE K = {}
  <2>1. N - h.pos \in 0..(N - h.pos) /\ N - (N - h.pos) = h.pos
    BY <1>1
  <2>2. \E f : IsSlash(u, h, f, N - (N - h.pos))
    BY <1>2, <2>1
  <2>3. \E f : IsSlash(u, h, f, h.pos)
    BY <2>1, <2>2
  <2> QED BY <2>3 DEF BehindSlash, IsSlash
<1>3. ASSUME K # {} PROVE FALSE
  <2> DEFINE k == Min(K)
  <2>1. k \in K /\ \A j \in K : k <= j
    BY <1>1, <1>3, LeastOf
  <2> HIDE DEF k
  <2> DEFINE p == N - k
  <2>2. k \in 0..(N - h.pos) /\ ~\E f : IsSlash(u, h, f, p)
    BY <2>1
  <2>3. p \in 0..N
    BY <1>1, <2>2
  <2>4. \E g : p # N => IsSlash(u, h, g, p + 1)
    <3>1. CASE p = N
      BY <3>1
    <3>2. CASE p # N
      <4>1. k - 1 \in 0..(N - h.pos) /\ ~(k <= k - 1) /\ N - (k - 1) = p + 1
        BY <1>1, <2>2, <3>2
      <4>2. k - 1 \notin K
        <5> HIDE DEF K
        <5> QED BY <2>1, <4>1
      <4>3. \E g : IsSlash(u, h, g, N - (k - 1))
        BY <4>1, <4>2
      <4> QED BY <4>1, <4>3
    <3> QED BY <3>1, <3>2
  <2>5. PICK g : p # N => IsSlash(u, h, g, p + 1)
    BY <2>4
  <2> HIDE DEF p
  <2> DEFINE body(f, q) == IF q = N THEN Nothing(Goto(h, q))
                           ELSE IF At(u, q) = ">" THEN SelfClose(u, Goto(h, q))
                           ELSE InTag(u, Goto(h, q), f)
             f == [q \in p..N |-> IF q = p THEN body(g, q) ELSE g[q]]
  <2>6. \A q \in (p + 1)..N : p # N /\ q \in p..N /\ f[q] = g[q]
    BY <2>3
  <2>7. ASSUME NEW q \in p..N PROVE f[q] = body(f, q)
    <3>1. q = p \/ q \in (p + 1)..N
      BY <2>3
    <3>2. q # N => body(f, q) = body(g, q)
      <4>1. ASSUME q # N PROVE InTag(u, Goto(h, q), f) = InTag(u, Goto(h, q), g)
        <5>1. q \in 0..(Len(u) - 1) /\ Goto(h, q).pos = q
          BY <2>3, <4>1, GotoIs
        <5>2. \A j \in (q + 1)..Len(u) : f[j] = g[j]
          BY <2>3, <2>6, <5>1
        <5> HIDE DEF f
        <5> QED BY <5>1, <5>2, InTagLooksOn
      <4> QED BY <4>1
    <3>3. body(f, N) = body(g, N)
      OBVIOUS
    <3>4. CASE q = p
      BY <3>2, <3>3, <3>4
    <3>5. CASE q \in (p + 1)..N
      <4>1. f[q] = g[q] /\ p # N
        BY <2>6, <3>5
      <4>2. g[q] = body(g, q)
        BY <2>5, <3>5, <4>1 DEF IsSlash
      <4> QED BY <3>2, <3>3, <4>1, <4>2
    <3> QED BY <3>1, <3>4, <3>5
  <2>8. DOMAIN f = p..N /\ f = [q \in p..N |-> f[q]]
    OBVIOUS
  <2> HIDE DEF f
  <2>9. f = [q \in p..N |-> body(f, q)]
    <3> HIDE DEF body
    <3> QED BY <2>7, <2>8
  <2>10. IsSlash(u, h, f, p)
    BY <2>9 DEF IsSlash
  <2> QED BY <2>2, <2>10 DEF p
<1> QED BY <1>2, <1>3

\* h5_state_self_closing_start_tag, behind a slash.
LEMMA SlashReturns ==
    ASSUME NEW u, Len(u) \in Nat, NEW h, NEW low, NEW from, Entered(u, h, low, from), NEW state
    PROVE  \A q \in h.pos..Len(u) : low + 1 <= q => Returns(u, low, from, state, BehindSlash(u, h)[q])
<1> DEFINE N == Len(u)
           slash == BehindSlash(u, h)
           K == {k \in 0..(N - h.pos) : low + 1 <= N - k /\ ~Returns(u, low, from, state, slash[N - k])}
<1>1. K \in SUBSET Nat /\ h.pos \in 0..N /\ low \in Nat /\ InText(u, h)
  BY DEF Entered, InText, Tokenizers
<1>2. IsSlash(u, h, slash, h.pos)
  BY <1>1, SlashIs
<1> HIDE DEF slash
<1>3. CASE K = {}
  <2> SUFFICES ASSUME NEW q \in h.pos..N, low + 1 <= q PROVE Returns(u, low, from, state, slash[q])
    BY DEF slash
  <2>1. N - q \in 0..(N - h.pos) /\ N - (N - q) = q
    BY <1>1
  <2>2. low + 1 <= N - (N - q) => Returns(u, low, from, state, slash[N - (N - q)])
    BY <1>3, <2>1
  <2> QED BY <2>1, <2>2
<1>4. ASSUME K # {} PROVE FALSE
  <2> DEFINE k == Min(K)
  <2>1. k \in K /\ \A j \in K : k <= j
    BY <1>1, <1>4, LeastOf
  <2> HIDE DEF k
  <2> DEFINE p == N - k
  <2>2. k \in 0..(N - h.pos) /\ low + 1 <= p /\ ~Returns(u, low, from, state, slash[p])
    BY <2>1
  <2>3. p \in h.pos..N
    BY <1>1, <2>2
  <2>4. ASSUME NEW q \in (p + 1)..N PROVE Returns(u, low, from, state, slash[q])
    <3>1. N - q \in 0..(N - h.pos) /\ N - (N - q) = q /\ ~(k <= N - q) /\ low + 1 <= q
      BY <1>1, <2>2, <2>3
    <3>2. N - q \notin K
      <4> HIDE DEF K
      <4> QED BY <2>1, <3>1
    <3>3. low + 1 <= N - (N - q) => Returns(u, low, from, state, slash[N - (N - q)])
      BY <3>1, <3>2
    <3> QED BY <3>1, <3>3
  <2> HIDE DEF p
  <2>5. Entered(u, Goto(h, p), low, from) /\ Goto(h, p).pos = p
    BY <2>3, MovedOn
  <2>6. slash[p] = IF p = N THEN Nothing(Goto(h, p))
                   ELSE IF At(u, p) = ">" THEN SelfClose(u, Goto(h, p))
                   ELSE InTag(u, Goto(h, p), slash)
    BY <1>2, <2>3 DEF IsSlash
  <2>7. Returns(u, low, from, state, Nothing(Goto(h, p)))
    BY <2>5, NothingReturns DEF Entered
  <2>8. At(u, p) = ">" => Returns(u, low, from, state, SelfClose(u, Goto(h, p)))
    BY <2>2, <2>5, CloseReturns DEF p
  <2>9. Returns(u, low, from, state, InTag(u, Goto(h, p), slash))
    BY <2>4, <2>5, InTagReturns
  <2>10. Returns(u, low, from, state, slash[p])
    BY <2>6, <2>7, <2>8, <2>9
  <2> QED BY <2>2, <2>10 DEF p
<1> QED BY <1>3, <1>4

\* Both states.
LEMMA TagReturns ==
    ASSUME NEW u, Len(u) \in Nat, NEW h, NEW low, NEW from, Entered(u, h, low, from), NEW state
    PROVE  /\ Returns(u, low, from, state, BeforeAttributeName(u, h))
           /\ low + 1 <= h.pos => Returns(u, low, from, state, SelfClosingStartTag(u, h))
<1>1. h.pos \in h.pos..Len(u) /\ low \in Nat /\ low <= h.pos /\ h.pos \in Nat
  BY DEF Entered, InText, Tokenizers
<1>2. \A q \in (h.pos + 1)..Len(u) : q \in h.pos..Len(u) /\ low + 1 <= q
  BY <1>1
<1>3. \A q \in (h.pos + 1)..Len(u) : Returns(u, low, from, state, BehindSlash(u, h)[q])
  BY <1>2, SlashReturns
<1>4. Returns(u, low, from, state, BeforeAttributeName(u, h))
  BY <1>3, InTagReturns DEF BeforeAttributeName
<1>5. low + 1 <= h.pos => Returns(u, low, from, state, SelfClosingStartTag(u, h))
  BY <1>1, SlashReturns DEF SelfClosingStartTag
<1> QED BY <1>4, <1>5

-----------------------------------------------------------------------------
(* The values of attributes.                                               *)

\* h5_state_attribute_value_quote: the value starts behind the quote, or at 0.
LEMMA QuotedValueReturns ==
    ASSUME NEW u, Len(u) \in Nat, NEW h, NEW low, NEW from, Entered(u, h, low, from),
           NEW state, state # "eof", h.pos < Len(u) \/ h.pos = 0, NEW quote \in Quotes
    PROVE  Returns(u, low, from, state, AttributeValueQuote(u, h, quote))
<1> DEFINE start == IF h.pos > 0 THEN h.pos + 1 ELSE 0
           e == First(u, {quote}, start)
<1>1. h.pos \in 0..Len(u) /\ low \in Nat /\ from \in Nat /\ low <= h.pos /\ from <= h.pos /\ InText(u, h)
  BY DEF Entered, InText, Tokenizers
<1>2. start \in h.pos..Len(u) /\ start \in 0..Len(u)
  BY <1>1
<1> HIDE DEF start
<1>3. e \in start..Len(u) /\ (e < Len(u) => At(u, e) \in {quote})
  BY <1>2, FirstIn
<1> HIDE DEF e
<1>4. low <= start
  BY <1>1, <1>2
<1>5. CASE e = Len(u)
  <2>1. Returns(u, low, from, state, Token(h, "ATTR_VALUE", start, e, start, "eof"))
    BY <1>1, <1>2, <1>3, <1>4, <1>5, Names, TextEnds, PlainReady, TokenReturns
  <2> QED BY <1>5, <2>1 DEF AttributeValueQuote, e, start
<1>6. CASE e # Len(u)
  <2>1. e + 1 \in 0..Len(u) /\ e + 1 > from /\ low <= e + 1 /\ e <= e + 1
    BY <1>1, <1>2, <1>3, <1>6
  <2>2. "after_attribute_value_quoted_state" \in Plain
    BY DEF Plain
  <2>3. Returns(u, low, from, state, Token(h, "ATTR_VALUE", start, e, e + 1, "after_attribute_value_quoted_state"))
    <3>1. EndsValue(u, "ATTR_VALUE", e)
      BY <1>3, <1>6 DEF EndsValue, Enders
    <3> QED BY <1>1, <1>2, <1>3, <1>4, <2>1, <2>2, <3>1, Names, PlainReady, TokenReturns
  <2> QED BY <1>6, <2>3 DEF AttributeValueQuote, e, start
<1> QED BY <1>5, <1>6

\* h5_state_attribute_value_no_quote.
LEMMA BareValueReturns ==
    ASSUME NEW u, Len(u) \in Nat, NEW h, NEW low, NEW from, Entered(u, h, low, from),
           NEW state, state \notin {"eof", "tag_name_close"}
    PROVE  Returns(u, low, from, state, AttributeValueNoQuote(u, h))
<1> DEFINE chars == White \union {">"}
           e == First(u, chars, h.pos)
<1>1. h.pos \in 0..Len(u) /\ low \in Nat /\ from \in Nat /\ low <= h.pos /\ from <= h.pos /\ InText(u, h)
  BY DEF Entered, InText, Tokenizers
<1>2. e \in h.pos..Len(u) /\ e \in 0..Len(u) /\ low <= e /\ (e < Len(u) => At(u, e) \in chars)
  BY <1>1, FirstIn
<1>a. EndsValue(u, "ATTR_VALUE", e)
  <2> HIDE DEF e
  <2> QED BY <1>2, TextEnds
<1> HIDE DEF e, chars
<1>3. CASE e = Len(u)
  <2>1. Returns(u, low, from, state, Token(h, "ATTR_VALUE", h.pos, e, h.pos, "eof"))
    BY <1>1, <1>2, <1>a, Names, PlainReady, TokenReturns
  <2> QED BY <1>3, <2>1 DEF AttributeValueNoQuote, e, chars
<1>4. CASE e # Len(u)
  <2>1. e + 1 \in 0..Len(u) /\ e + 1 > from /\ low <= e + 1 /\ e <= e + 1
    BY <1>1, <1>2, <1>4
  <2>2. "before_attribute_name" \in Plain
    BY DEF Plain
  <2>3. At(u, e) = ">" => Ready(u, "tag_name_close", e, e)
    BY <1>2 DEF Ready, InQuote
  <2>4. At(u, e) = ">" => Returns(u, low, from, state, Token(h, "ATTR_VALUE", h.pos, e, e, "tag_name_close"))
    BY <1>1, <1>2, <1>a, <2>3, Names, TokenReturns
  <2>5. Returns(u, low, from, state, Token(h, "ATTR_VALUE", h.pos, e, e + 1, "before_attribute_name"))
    BY <1>1, <1>2, <1>a, <2>1, <2>2, Names, PlainReady, TokenReturns
  <2> QED BY <1>4, <2>4, <2>5 DEF AttributeValueNoQuote, e, chars
<1> QED BY <1>3, <1>4

\* h5_state_before_attribute_value.
LEMMA ValueReturns ==
    ASSUME NEW u, Len(u) \in Nat, NEW h, NEW low, NEW from, Entered(u, h, low, from),
           NEW state, state \notin {"eof", "tag_name_close"}
    PROVE  Returns(u, low, from, state, BeforeAttributeValue(u, h))
<1> DEFINE p == SkipWhite(u, h)
<1>1. h.pos \in 0..Len(u) /\ InText(u, h)
  BY DEF Entered, InText, Tokenizers
<1>2. p \in h.pos..Len(u) /\ p \in 0..Len(u)
  BY <1>1, SkipWhiteIn
<1> HIDE DEF p
<1>3. Entered(u, Goto(h, p), low, from) /\ Goto(h, p).pos = p
  BY <1>2, MovedOn
<1>4. CASE IsEOF(u, p)
  <2>1. [h EXCEPT !.pos = p, !.state = "eof"] \in Tokenizers(u)
    BY <1>1, <1>2, Names DEF InText, Tokenizers
  <2>2. InText(u, [h EXCEPT !.pos = p, !.state = "eof"])
    BY <1>1, <2>1 DEF InText, Tokenizers
  <2>3. Returns(u, low, from, state, Nothing([h EXCEPT !.pos = p, !.state = "eof"]))
    BY <2>2, NothingReturns
  <2> QED BY <1>4, <2>3 DEF BeforeAttributeValue, p
<1>5. CASE ~IsEOF(u, p)
  <2>1. p < Len(u)
    BY <1>2, <1>5 DEF IsEOF
  <2>2. \A quote \in Quotes : Returns(u, low, from, state, AttributeValueQuote(u, Goto(h, p), quote))
    BY <1>3, <2>1, QuotedValueReturns
  <2>3. Returns(u, low, from, state, AttributeValueNoQuote(u, Goto(h, p)))
    BY <1>3, BareValueReturns
  <2>4. \/ At(u, p) \in Quotes /\ BeforeAttributeValue(u, h) = AttributeValueQuote(u, Goto(h, p), At(u, p))
        \/ BeforeAttributeValue(u, h) = AttributeValueNoQuote(u, Goto(h, p))
    BY ONLY <1>5, Zenon DEF BeforeAttributeValue, Quotes, p
  <2> QED BY <2>2, <2>3, <2>4
<1> QED BY <1>4, <1>5

\* h5_state_after_attribute_name.
LEMMA AfterNameReturns ==
    ASSUME NEW u, Len(u) \in Nat, NEW h, NEW low, NEW from, Entered(u, h, low, from),
           NEW state, state \notin {"eof", "tag_name_close"}
    PROVE  Returns(u, low, from, state, AfterAttributeName(u, h))
<1> DEFINE p == SkipWhite(u, h)
<1>1. h.pos \in 0..Len(u) /\ low \in Nat /\ low <= h.pos
  BY DEF Entered, InText, Tokenizers
<1>2. p \in h.pos..Len(u)
  BY <1>1, SkipWhiteIn
<1> HIDE DEF p
<1>3. Entered(u, Goto(h, p), low, from) /\ Goto(h, p).pos = p
  BY <1>2, MovedOn
<1>4. CASE IsEOF(u, p)
  <2>1. Returns(u, low, from, state, Nothing(Goto(h, p)))
    BY <1>3, NothingReturns DEF Entered
  <2> QED BY <1>4, <2>1 DEF AfterAttributeName, p
<1>5. CASE ~IsEOF(u, p)
  <2>1. p + 1 \in h.pos..Len(u) /\ low + 1 <= p + 1 /\ p # Len(u)
    BY <1>1, <1>2, <1>5 DEF IsEOF
  <2>2. Entered(u, Goto(h, p + 1), low, from) /\ Goto(h, p + 1).pos = p + 1
    BY <2>1, MovedOn
  <2>3. Returns(u, low, from, state, SelfClosingStartTag(u, Goto(h, p + 1)))
    BY <2>1, <2>2, TagReturns
  <2>4. Returns(u, low, from, state, BeforeAttributeValue(u, Goto(h, p + 1)))
    BY <2>2, ValueReturns
  <2>5. At(u, p) = ">" => Returns(u, low, from, state, TagNameClose(u, Goto(h, p)))
    BY <1>3, CloseReturns
  <2>6. Returns(u, low, from, state, AttributeName(u, Goto(h, p)))
    BY <1>3, <2>1, AttributeNameReturns
  <2> QED BY <1>5, <2>3, <2>4, <2>5, <2>6 DEF AfterAttributeName, p
<1> QED BY <1>4, <1>5

\* h5_state_after_attribute_value_quoted_state.
LEMMA AfterValueReturns ==
    ASSUME NEW u, Len(u) \in Nat, NEW h, NEW low, NEW from, Entered(u, h, low, from), NEW state
    PROVE  Returns(u, low, from, state, AfterAttributeValueQuoted(u, h))
<1>1. h.pos \in 0..Len(u) /\ InText(u, h) /\ low \in Nat /\ low <= h.pos
  BY DEF Entered, InText, Tokenizers
<1>2. CASE h.pos = Len(u)
  BY <1>1, <1>2, NothingReturns DEF AfterAttributeValueQuoted
<1>3. CASE h.pos # Len(u)
  <2>1. h.pos + 1 \in h.pos..Len(u) /\ low + 1 <= h.pos + 1
    BY <1>1, <1>3
  <2>2. Entered(u, Goto(h, h.pos + 1), low, from) /\ Goto(h, h.pos + 1).pos = h.pos + 1
    BY <2>1, MovedOn
  <2>3. /\ Returns(u, low, from, state, BeforeAttributeName(u, Goto(h, h.pos + 1)))
        /\ Returns(u, low, from, state, SelfClosingStartTag(u, Goto(h, h.pos + 1)))
        /\ Returns(u, low, from, state, BeforeAttributeName(u, h))
    BY <2>1, <2>2, TagReturns
  <2>4. At(u, h.pos) = ">" => Returns(u, low, from, state, CloseTag(u, h))
    BY CloseReturns
  <2> QED BY <1>3, <2>3, <2>4 DEF AfterAttributeValueQuoted
<1> QED BY <1>2, <1>3

-----------------------------------------------------------------------------
(* Comments and declarations.                                              *)

\* A token that ends at a terminator in the text, or with the text.
LEMMA UntilReturns ==
    ASSUME NEW u, Len(u) \in Nat, NEW h, NEW low, NEW from, Entered(u, h, low, from),
           NEW state, state # "eof", NEW type \in TokenTypes \ {"ATTR_VALUE"}, NEW end \in Int, NEW width \in Nat \ {0},
           end >= 0 => h.pos <= end /\ end + width <= Len(u)
    PROVE  Returns(u, low, from, state, Until(u, h, type, end, width))
<1>1. h.pos \in 0..Len(u) /\ low \in Nat /\ from \in Nat /\ low <= h.pos /\ from <= h.pos /\ InText(u, h)
  BY DEF Entered, InText, Tokenizers
<1>2. CASE end < 0
  <2>1. Len(u) \in h.pos..Len(u) /\ Len(u) \in 0..Len(u) /\ low <= Len(u)
    BY <1>1
  <2>2. Returns(u, low, from, state, Token(h, type, h.pos, Len(u), Len(u), "eof"))
    BY <1>1, <2>1, Names, TextEnds, PlainReady, TokenReturns
  <2> QED BY <1>2, <2>2 DEF Until
<1>3. CASE ~(end < 0)
  <2>1. /\ end \in h.pos..Len(u) /\ end + width \in 0..Len(u) /\ low <= end + width /\ end + width > from
        /\ end <= end + width
    BY <1>1, <1>3
  <2>2. "data" \in Plain
    BY DEF Plain
  <2>3. Returns(u, low, from, state, Token(h, type, h.pos, end, end + width, "data"))
    BY <1>1, <2>1, <2>2, Names, TextEnds, PlainReady, TokenReturns
  <2> QED BY <1>3, <2>3 DEF Until
<1> QED BY <1>2, <1>3

\* Where one word ends a token.
LEMMA WordUntil ==
    ASSUME NEW u \in Seq(STRING), NEW h, NEW low, NEW from, Entered(u, h, low, from),
           NEW state, state # "eof", NEW type \in TokenTypes \ {"ATTR_VALUE"}, NEW word, Len(word) \in Nat \ {0}
    PROVE  Returns(u, low, from, state, Until(u, h, type, FirstWord(u, {word}, h.pos), Len(word)))
<1> DEFINE q == FirstWord(u, {word}, h.pos)
           words == {word}
<1>1. Len(u) \in Nat
  BY LenProperties
<1>2. h.pos \in Nat
  BY <1>1 DEF Entered, InText, Tokenizers
<1> HIDE DEF words
<1>3. q = -1 \/ (q \in h.pos..(Len(u) - 1) /\ \E w \in words : WordAt(u, q, Len(w)) = w)
  BY <1>1, <1>2, FirstWordIn DEF words
<1> HIDE DEF q
<1>4. q = -1 \/ (q \in h.pos..(Len(u) - 1) /\ WordAt(u, q, Len(word)) = word)
  BY <1>3 DEF words
<1>5. ASSUME q # -1 PROVE q \in Nat /\ h.pos <= q /\ q + Len(word) <= Len(u)
  <2>1. q \in 0..Len(u) /\ Len(WordAt(u, q, Len(word))) = Len(word) /\ h.pos <= q
    BY <1>1, <1>2, <1>4, <1>5
  <2> QED BY <1>1, <2>1, WordFits
<1>6. q \in Int /\ (q >= 0 => h.pos <= q /\ q + Len(word) <= Len(u))
  BY <1>5
<1>7. Returns(u, low, from, state, Until(u, h, type, q, Len(word)))
  BY <1>1, <1>6, UntilReturns
<1> QED BY <1>7 DEF q

\* The declarations that one word ends.
LEMMA DeclarationReturns ==
    ASSUME NEW u \in Seq(STRING), NEW h, NEW low, NEW from, Entered(u, h, low, from),
           NEW state, state # "eof"
    PROVE  /\ Returns(u, low, from, state, BogusComment(u, h))
           /\ Returns(u, low, from, state, BogusComment2(u, h))
           /\ Returns(u, low, from, state, CData(u, h))
           /\ Returns(u, low, from, state, Doctype(u, h))
<1>1. Len(<<">">>) = 1 /\ Len(<<"%", ">">>) = 2 /\ Len(<<"]", "]", ">">>) = 3
  OBVIOUS
<1>2. 1 \in Nat \ {0} /\ 2 \in Nat \ {0} /\ 3 \in Nat \ {0}
  OBVIOUS
<1> DEFINE w1 == <<">">>
           w2 == <<"%", ">">>
           w3 == <<"]", "]", ">">>
<1>3. Len(w1) \in Nat \ {0} /\ Len(w2) \in Nat \ {0} /\ Len(w3) \in Nat \ {0}
  BY <1>1, <1>2
<1> HIDE DEF w1, w2, w3
<1>4. \A type \in TokenTypes \ {"ATTR_VALUE"} :
        /\ Returns(u, low, from, state, Until(u, h, type, FirstWord(u, {w1}, h.pos), Len(w1)))
        /\ Returns(u, low, from, state, Until(u, h, type, FirstWord(u, {w2}, h.pos), Len(w2)))
        /\ Returns(u, low, from, state, Until(u, h, type, FirstWord(u, {w3}, h.pos), Len(w3)))
  BY <1>3, WordUntil
<1>5. {"TAG_COMMENT", "DATA_TEXT", "DOCTYPE"} \subseteq TokenTypes \ {"ATTR_VALUE"}
  BY Names
<1>6. \A type \in {"TAG_COMMENT", "DATA_TEXT", "DOCTYPE"} :
        /\ Returns(u, low, from, state, Until(u, h, type, FirstWord(u, {w1}, h.pos), 1))
        /\ Returns(u, low, from, state, Until(u, h, type, FirstWord(u, {w2}, h.pos), 2))
        /\ Returns(u, low, from, state, Until(u, h, type, FirstWord(u, {w3}, h.pos), 3))
  <2>1. Len(w1) = 1 /\ Len(w2) = 2 /\ Len(w3) = 3
    BY <1>1 DEF w1, w2, w3
  <2> QED BY <1>4, <1>5, <2>1
<1> QED BY <1>6 DEF BogusComment, BogusComment2, CData, Doctype, w1, w2, w3

\* h5_state_comment: what ends it is in the text, behind its dash.
LEMMA CommentReturns ==
    ASSUME NEW u, Len(u) \in Nat, NEW h, NEW low, NEW from, Entered(u, h, low, from),
           NEW state, state # "eof"
    PROVE  Returns(u, low, from, state, Comment(u, h))
<1> DEFINE mark(p) == First(u, ToSet(u) \ {NUL}, p + 1)
           ends(p) == /\ At(u, p) = "-" /\ mark(p) < Len(u)
                      /\ At(u, mark(p)) \in {"-", "!"} /\ At(u, mark(p) + 1) = ">"
           f == [k \in 1..Len(u) |-> k > h.pos /\ ends(k - 1)]
           I == {i \in 1..Len(f) : f[i]}
           m == IF I # {} THEN Min(I) ELSE 0
<1>1. Comment(u, h) = Until(u, h, "TAG_COMMENT", m - 1, mark(m - 1) + 2 - (m - 1))
  BY DEF Comment, SelectInSeq
<1>2. h.pos \in 0..Len(u)
  BY DEF Entered, InText, Tokenizers
<1>3. Len(f) = Len(u)
  <2>1. f \in [1..Len(u) -> BOOLEAN]
    OBVIOUS
  <2> HIDE DEF f
  <2>2. f \in Seq(BOOLEAN) /\ DOMAIN f = 1..Len(u)
    BY <2>1
  <2>3. DOMAIN f = 1..Len(f) /\ Len(f) \in Nat
    BY <2>2, LenProperties
  <2> QED BY <2>2, <2>3
<1>a. \A k \in 1..Len(u) : f[k] => k > h.pos /\ ends(k - 1)
  OBVIOUS
<1>4. \A i \in I : i \in Nat /\ i \in 1..Len(u) /\ i > h.pos /\ ends(i - 1)
  <2> TAKE i \in I
  <2>1. i \in 1..Len(u) /\ f[i]
    BY <1>3
  <2>2. i > h.pos /\ ends(i - 1)
    <3> HIDE DEF f, ends
    <3> QED BY <1>a, <2>1
  <2>3. i \in Nat
    BY <2>1
  <2> HIDE DEF f, I, ends
  <2> QED BY <2>1, <2>2, <2>3
<1>5. m = 0 \/ m \in I
  <2> HIDE DEF I
  <2> QED BY <1>4, LeastOf
<1>6. m = 0 \/ (m \in 1..Len(u) /\ m > h.pos /\ ends(m - 1))
  <2> HIDE DEF I, ends
  <2> QED BY <1>4, <1>5
<1>7. m - 1 + 1 \in 0..Len(u) /\ m \in 0..Len(u)
  <2> HIDE DEF m, ends
  <2> QED BY <1>6
<1> HIDE DEF m
<1> DEFINE p == m - 1
           e == mark(p)
<1>8. e \in (p + 1)..Len(u)
  <2> DEFINE chars == ToSet(u) \ {NUL}
  <2> HIDE DEF chars
  <2>1. First(u, chars, p + 1) \in (p + 1)..Len(u)
    BY <1>7, FirstIn
  <2> QED BY <2>1 DEF chars
<1>9. p = -1 \/ (p \in h.pos..(Len(u) - 1) /\ e < Len(u) /\ At(u, e + 1) = ">")
  BY <1>2, <1>6, <1>7
<1> HIDE DEF e
<1>10. At(u, e + 1) = ">" => e + 1 < Len(u)
  BY AtInside DEF NUL
<1>11. e + 2 - p \in Nat \ {0} /\ p \in Int /\ (p >= 0 => h.pos <= p /\ p + (e + 2 - p) <= Len(u))
  BY <1>2, <1>7, <1>8, <1>9, <1>10
<1>12. "TAG_COMMENT" \in TokenTypes \ {"ATTR_VALUE"}
  BY Names
<1> HIDE DEF p
<1>13. Returns(u, low, from, state, Until(u, h, "TAG_COMMENT", p, e + 2 - p))
  BY <1>11, <1>12, UntilReturns
<1> QED BY <1>1, <1>13 DEF p, e

\* h5_state_markup_declaration_open.
LEMMA MarkupReturns ==
    ASSUME NEW u \in Seq(STRING), NEW h, NEW low, NEW from, Entered(u, h, low, from),
           NEW state, state # "eof"
    PROVE  Returns(u, low, from, state, MarkupDeclarationOpen(u, h))
<1> DEFINE cdata == <<"[", "C", "D", "A", "T", "A", "[">>
           dashes == <<"-", "-">>
<1>1. Len(cdata) = 7 /\ Len(dashes) = 2 /\ 7 \in Nat /\ 2 \in Nat
  OBVIOUS
<1>2. Len(u) \in Nat /\ h.pos \in 0..Len(u)
  BY LenProperties DEF Entered, InText, Tokenizers
<1> HIDE DEF cdata, dashes
<1>3. ASSUME WordAt(u, h.pos, 7) = cdata PROVE Returns(u, low, from, state, CData(u, Goto(h, h.pos + 7)))
  <2>1. h.pos + 7 <= Len(u)
    BY <1>1, <1>2, <1>3, WordFits
  <2>2. h.pos + 7 \in h.pos..Len(u)
    BY <1>2, <2>1
  <2> QED BY <1>2, <2>2, MovedOn, DeclarationReturns
<1>4. ASSUME WordAt(u, h.pos, 2) = dashes PROVE Returns(u, low, from, state, Comment(u, Goto(h, h.pos + 2)))
  <2>1. h.pos + 2 <= Len(u)
    BY <1>1, <1>2, <1>4, WordFits
  <2>2. h.pos + 2 \in h.pos..Len(u)
    BY <1>2, <2>1
  <2> QED BY <1>2, <2>2, MovedOn, CommentReturns
<1>5. Returns(u, low, from, state, Doctype(u, h)) /\ Returns(u, low, from, state, BogusComment(u, h))
  BY DeclarationReturns
<1> DEFINE doctype == Uppered(WordAt(u, h.pos, 7)) = <<"D", "O", "C", "T", "Y", "P", "E">>
<1>6. MarkupDeclarationOpen(u, h)
        = IF doctype THEN Doctype(u, h)
          ELSE IF WordAt(u, h.pos, 7) = cdata THEN CData(u, Goto(h, h.pos + 7))
          ELSE IF WordAt(u, h.pos, 2) = dashes THEN Comment(u, Goto(h, h.pos + 2))
          ELSE BogusComment(u, h)
  BY DEF MarkupDeclarationOpen, cdata, dashes
<1> HIDE DEF doctype
<1> QED BY <1>3, <1>4, <1>5, <1>6

\* h5_state_end_tag_open.
LEMMA EndTagReturns ==
    ASSUME NEW u \in Seq(STRING), NEW h, NEW low, NEW from, Entered(u, h, low, from),
           NEW state, state \notin {"eof", "tag_name_close"}
    PROVE  Returns(u, low, from, state, EndTagOpen(u, h))
<1>1. Len(u) \in Nat /\ InText(u, h)
  BY LenProperties DEF Entered
<1>2. Entered(u, [h EXCEPT !.is_close = FALSE], low, from)
  BY DEF Entered, InText, Tokenizers
<1>3. Returns(u, low, from, state, BogusComment(u, [h EXCEPT !.is_close = FALSE]))
  BY <1>2, DeclarationReturns
<1>4. Returns(u, low, from, state, DataText(u, h)) /\ Returns(u, low, from, state, TagName(u, h))
  BY <1>1, DataTextReturns, TagNameReturns
<1>5. Returns(u, low, from, state, Nothing(h))
  BY <1>1, NothingReturns
<1> QED BY <1>3, <1>4, <1>5 DEF EndTagOpen

\* h5_state_tag_open, behind a "<".
LEMMA TagOpenReturns ==
    ASSUME NEW u \in Seq(STRING), NEW h, NEW low, NEW from, Entered(u, h, low, from), low + 1 <= h.pos,
           NEW state, state = "tag_open" \/ (state = "data" /\ from < h.pos)
    PROVE  Returns(u, low, from, state, TagOpen(u, h))
<1> DEFINE c == At(u, h.pos)
           next == Goto(h, h.pos + 1)
           close == [next EXCEPT !.is_close = TRUE]
<1>1. /\ Len(u) \in Nat /\ InText(u, h) /\ h.pos \in 0..Len(u) /\ low \in Nat /\ from \in Nat
      /\ low <= h.pos /\ from <= h.pos
  BY LenProperties DEF Entered, InText, Tokenizers
<1>2. state \notin {"eof", "tag_name_close"} /\ (h.pos > from \/ "data" # state)
  BY <1>1
<1>3. ASSUME h.pos < Len(u) PROVE Entered(u, next, low, from) /\ Entered(u, close, low, from)
  <2>1. h.pos + 1 \in h.pos..Len(u)
    BY <1>1, <1>3
  <2>2. Entered(u, next, low, from)
    BY <1>1, <2>1, MovedOn
  <2> HIDE DEF next
  <2>3. Entered(u, [next EXCEPT !.is_close = TRUE], low, from)
    BY <2>2 DEF Entered, InText, Tokenizers
  <2> QED BY <2>2, <2>3
<1> HIDE DEF next
<1>4. ASSUME h.pos < Len(u)
      PROVE  /\ Returns(u, low, from, state, MarkupDeclarationOpen(u, next))
             /\ Returns(u, low, from, state, EndTagOpen(u, close))
             /\ Returns(u, low, from, state, BogusComment(u, next))
             /\ Returns(u, low, from, state, BogusComment2(u, next))
  <2> HIDE DEF close
  <2> QED BY <1>2, <1>3, <1>4, MarkupReturns, EndTagReturns, DeclarationReturns
<1>5. Returns(u, low, from, state, TagName(u, h))
  BY <1>1, <1>2, TagNameReturns
<1>6. Returns(u, low, from, state, Token(h, "DATA_TEXT", h.pos - 1, h.pos, h.pos, "data"))
  <2>1. h.pos - 1 \in 0..Len(u) /\ h.pos \in (h.pos - 1)..Len(u) /\ low <= h.pos - 1 /\ h.pos <= h.pos
    BY <1>1
  <2>2. "data" \in Plain
    BY DEF Plain
  <2> QED BY <1>1, <1>2, <2>1, <2>2, Names, PlainReady, TokenReturns
<1>7. c \in {"!", "/", "?", "%"} => h.pos < Len(u)
  BY AtInside DEF NUL
<1>8. TagOpen(u, h) = CASE c = "!" -> MarkupDeclarationOpen(u, next)
                        [] c = "/" -> EndTagOpen(u, close)
                        [] c = "?" -> BogusComment(u, next)
                        [] c = "%" -> BogusComment2(u, next)
                        [] c \in Letters \union {NUL} -> TagName(u, h)
                        [] OTHER -> Token(h, "DATA_TEXT", h.pos - 1, h.pos, h.pos, "data")
  BY DEF TagOpen, next
<1>9. /\ "!" \notin Letters \union {NUL} /\ "/" \notin Letters \union {NUL}
      /\ "?" \notin Letters \union {NUL} /\ "%" \notin Letters \union {NUL}
  BY DEF Letters, NUL, ToSet, SmallLetters, CapitalLetters, Capitals
<1> HIDE DEF c, close
<1> QED BY <1>4, <1>5, <1>6, <1>7, <1>8, <1>9

\* h5_state_data, and the tag behind an empty text.
LEMMA DataReturns ==
    ASSUME NEW u \in Seq(STRING), NEW h, NEW low, Entered(u, h, low, h.pos)
    PROVE  Returns(u, low, h.pos, "data", Data(u, h))
<1> DEFINE text == DataText(u, h)
           lt == First(u, {"<"}, h.pos)
<1>1. Len(u) \in Nat /\ h.pos \in 0..Len(u) /\ low \in Nat /\ low <= h.pos
  BY LenProperties DEF Entered, InText, Tokenizers
<1>2. Returns(u, low, h.pos, "data", text)
  BY <1>1, DataTextReturns
<1>3. ASSUME text.state = "tag_open" PROVE Returns(u, low, h.pos, "data", TagOpen(u, text))
  <2>1. lt \in h.pos..Len(u)
    BY <1>1, FirstIn
  <2>2. h \in Tokenizers(u)
    BY DEF Entered, InText
  <2>3. text.pos = lt + 1
    BY <1>3, <2>2 DEF DataText, Token, Tokenizers
  <2> HIDE DEF lt, text
  <2>4. Entered(u, text, low, h.pos) /\ low + 1 <= text.pos /\ h.pos < text.pos
    BY <1>1, <1>2, <2>1, <2>3 DEF Entered, Returns
  <2> QED BY <2>4, TagOpenReturns
<1> QED BY <1>2, <1>3 DEF Data

-----------------------------------------------------------------------------
(* libinjection_h5_next.                                                   *)

\* Each of its states, entered where it may count on what it does.
LEMMA NextReturns ==
    ASSUME NEW u \in Seq(STRING), NEW h, InText(u, h), NEW end, end = h.token_start + h.token_len,
           Ready(u, h.state, end, h.pos)
    PROVE  Returns(u, end, h.pos, h.state, H5Next(u, h))
<1>1. Len(u) \in Nat /\ h.pos \in 0..Len(u) /\ end \in Nat /\ h.state \in StateNames
  BY LenProperties DEF InText, Tokenizers
<1>2. Returns(u, end, h.pos, h.state, Nothing(h))
  BY <1>1, NothingReturns
<1>3. ASSUME h.state # "eof" PROVE Entered(u, h, end, h.pos)
  BY <1>1, <1>3 DEF Entered, Ready
<1>4. CASE h.state = "eof"
  BY <1>2, <1>4 DEF H5Next
<1>5. CASE h.state = "data"
  <2>1. Returns(u, end, h.pos, h.state, Data(u, h))
    BY <1>3, <1>5, DataReturns
  <2> QED BY <1>5, <2>1 DEF H5Next
<1>6. CASE h.state = "tag_open"
  <2>1. end + 1 <= h.pos
    BY <1>6 DEF Ready
  <2>2. Returns(u, end, h.pos, h.state, TagOpen(u, h))
    BY <1>3, <1>6, <2>1, TagOpenReturns
  <2> QED BY <1>6, <2>2 DEF H5Next
<1>7. CASE h.state = "tag_name_close"
  <2>1. At(u, h.pos) = ">"
    BY <1>7 DEF Ready
  <2>2. Returns(u, end, h.pos, h.state, TagNameClose(u, h))
    BY <1>1, <1>3, <1>7, <2>1, CloseReturns
  <2> QED BY <1>7, <2>2 DEF H5Next
<1>8. CASE h.state = "self_closing_start_tag"
  <2>1. end + 1 <= h.pos
    BY <1>8 DEF Ready
  <2>2. Returns(u, end, h.pos, h.state, SelfClosingStartTag(u, h))
    BY <1>1, <1>3, <1>8, <2>1, TagReturns
  <2> QED BY <1>8, <2>2 DEF H5Next
<1>9. CASE h.state = "after_attribute_name"
  <2>1. Returns(u, end, h.pos, h.state, AfterAttributeName(u, h))
    BY <1>1, <1>3, <1>9, AfterNameReturns
  <2> QED BY <1>9, <2>1 DEF H5Next
<1>10. CASE h.state = "before_attribute_name"
  <2>1. Returns(u, end, h.pos, h.state, BeforeAttributeName(u, h))
    BY <1>1, <1>3, <1>10, TagReturns
  <2> QED BY <1>10, <2>1 DEF H5Next
<1>11. CASE h.state = "before_attribute_value"
  <2>1. Returns(u, end, h.pos, h.state, BeforeAttributeValue(u, h))
    BY <1>1, <1>3, <1>11, ValueReturns
  <2> QED BY <1>11, <2>1 DEF H5Next
<1>12. CASE h.state = "after_attribute_value_quoted_state"
  <2>1. Returns(u, end, h.pos, h.state, AfterAttributeValueQuoted(u, h))
    BY <1>1, <1>3, <1>12, AfterValueReturns
  <2> QED BY <1>12, <2>1 DEF H5Next
<1>13. CASE h.state \in InQuote
  <2>1. h.state # "eof" /\ h.pos = 0
    BY <1>13 DEF InQuote, Ready
  <2>2. \A quote \in Quotes : Returns(u, end, h.pos, h.state, AttributeValueQuote(u, h, quote))
    BY <1>1, <1>3, <2>1, QuotedValueReturns
  <2>3. \E quote \in Quotes : H5Next(u, h) = AttributeValueQuote(u, h, quote)
    BY <1>13, Zenon DEF H5Next, InQuote, Quotes
  <2> QED BY <2>2, <2>3
<1> QED BY <1>1, <1>4, <1>5, <1>6, <1>7, <1>8, <1>9, <1>10, <1>11, <1>12, <1>13 DEF StateNames, InQuote

-----------------------------------------------------------------------------
(* libinjection_xss: the contexts, one after the other.                    *)

\* What is_black_attr tells of an attribute.
AttrTypes == {"TYPE_NONE", "TYPE_BLACK", "TYPE_ATTR_URL", "TYPE_STYLE", "TYPE_ATTR_INDIRECT"}

\* The tokenizer stands where its state may count on it, and behind a value is
\* what ended it.
IInv ==
    /\ s \in Inputs /\ context \in 1..5
    /\ verdict \in {"none", "xss", "benign"}
    /\ attr \in AttrTypes
    /\ InText(s, h5)
    /\ h5.more => /\ Ready(s, h5.state, h5.token_start + h5.token_len, h5.pos)
                  /\ EndsValue(s, h5.token_type, h5.token_start + h5.token_len)

\* The inputs are texts.
LEMMA TextOf == \A u \in Inputs : u \in Seq(STRING) /\ Len(u) \in Nat
  BY InputsAssumption, LenProperties

\* libinjection_h5_init, for each of the contexts.
LEMMA InitReady ==
    ASSUME NEW u, Len(u) \in Nat, NEW i \in 1..5
    PROVE  LET h == H5Init(ContextOrder[i])
           IN  /\ InText(u, h) /\ Ready(u, h.state, h.token_start + h.token_len, h.pos)
               /\ EndsValue(u, h.token_type, h.token_start + h.token_len)
<1> DEFINE starts == {"data", "before_attribute_name"} \union InQuote
           h(state) == [pos |-> 0, is_close |-> FALSE, more |-> TRUE, state |-> state,
                        token_start |-> 0, token_len |-> 0, token_type |-> "DATA_TEXT"]
<1>1. \E state \in starts : H5Init(ContextOrder[i]) = h(state)
  <2>1. i = 1 \/ i = 2 \/ i = 3 \/ i = 4 \/ i = 5
    OBVIOUS
  <2>2. CASE i = 1
    <3>1. H5Init(ContextOrder[i]) = h("data")
      BY <2>2 DEF H5Init, ContextOrder
    <3> QED BY <3>1
  <2>3. CASE i = 2
    <3>1. H5Init(ContextOrder[i]) = h("before_attribute_name")
      BY <2>3 DEF H5Init, ContextOrder
    <3> QED BY <3>1
  <2>4. CASE i = 3
    <3>1. H5Init(ContextOrder[i]) = h("attribute_value_single_quote")
      BY <2>4 DEF H5Init, ContextOrder
    <3> QED BY <3>1 DEF InQuote
  <2>5. CASE i = 4
    <3>1. H5Init(ContextOrder[i]) = h("attribute_value_double_quote")
      BY <2>5 DEF H5Init, ContextOrder
    <3> QED BY <3>1 DEF InQuote
  <2>6. CASE i = 5
    <3>1. H5Init(ContextOrder[i]) = h("attribute_value_back_quote")
      BY <2>6 DEF H5Init, ContextOrder
    <3> QED BY <3>1 DEF InQuote
  <2> QED BY <2>1, <2>2, <2>3, <2>4, <2>5, <2>6
<1>2. starts \subseteq StateNames /\ "DATA_TEXT" \in TokenTypes
  BY DEF StateNames, TokenTypes, InQuote
<1>3. ASSUME NEW state \in starts
      PROVE  /\ InText(u, h(state)) /\ Ready(u, h(state).state, h(state).token_start + h(state).token_len, h(state).pos)
             /\ EndsValue(u, h(state).token_type, h(state).token_start + h(state).token_len)
  <2>1. h(state) \in Tokenizers(u)
    BY <1>2 DEF Tokenizers
  <2>2. InText(u, h(state))
    BY <2>1 DEF InText
  <2>3. Ready(u, state, 0, 0)
    BY DEF Ready, InQuote
  <2>4. EndsValue(u, "DATA_TEXT", 0)
    BY Names
  <2> QED BY <2>2, <2>3, <2>4
<1> HIDE DEF starts, h
<1> QED BY <1>1, <1>3

\* is_black_attr returns one of the types.
LEMMA AttrType == \A h : IsBlackAttr(h) \in AttrTypes
<1>1. \A name : BLACKATTR(name) \in AttrTypes
  BY DEF BLACKATTR, AttrTypes
<1>2. {"TYPE_NONE", "TYPE_BLACK"} \subseteq AttrTypes
  BY DEF AttrTypes
<1> QED BY ONLY <1>1, <1>2 DEF IsBlackAttr

\* It holds when the input is given.
LEMMA InitIInv == Init => IInv
<1> SUFFICES ASSUME Init PROVE IInv
  OBVIOUS
<1>1. /\ InText(s, h5) /\ Ready(s, h5.state, h5.token_start + h5.token_len, h5.pos)
      /\ EndsValue(s, h5.token_type, h5.token_start + h5.token_len)
  <2>1. 1 \in 1..5
    OBVIOUS
  <2> QED BY <2>1, TextOf, InitReady DEF Init
<1> QED BY <1>1 DEF Init, IInv, AttrTypes

\* A step of the tokenizer.
LEMMA TokenStep ==
    ASSUME IInv, Running, h5' = H5Next(s, h5)
    PROVE  Returns(s, h5.token_start + h5.token_len, h5.pos, h5.state, h5')
<1> DEFINE end == h5.token_start + h5.token_len
<1>1. s \in Seq(STRING) /\ InText(s, h5) /\ Ready(s, h5.state, end, h5.pos)
  BY TextOf DEF IInv, Running
<1> HIDE DEF end
<1>2. Returns(s, end, h5.pos, h5.state, H5Next(s, h5))
  BY <1>1, NextReturns DEF end
<1> QED BY <1>2 DEF end

\* Every action keeps the invariant.
LEMMA NextIInv == IInv /\ [Next]_vars => IInv'
<1> SUFFICES ASSUME IInv, [Next]_vars PROVE IInv'
  OBVIOUS
<1>1. CASE TokenBanned
  <2>1. /\ InText(s, h5')
        /\ h5'.more => /\ Ready(s, h5'.state, h5'.token_start + h5'.token_len, h5'.pos)
                       /\ EndsValue(s, h5'.token_type, h5'.token_start + h5'.token_len)
    BY <1>1, TokenStep DEF TokenBanned, Returns
  <2> QED BY <1>1, <2>1 DEF IInv, TokenBanned
<1>2. CASE TokenPasses
  <2>1. /\ InText(s, h5')
        /\ h5'.more => /\ Ready(s, h5'.state, h5'.token_start + h5'.token_len, h5'.pos)
                       /\ EndsValue(s, h5'.token_type, h5'.token_start + h5'.token_len)
    BY <1>2, TokenStep DEF TokenPasses, Returns
  <2>2. IsBlackAttr(h5') \in AttrTypes /\ "TYPE_NONE" \in AttrTypes
    BY AttrType DEF AttrTypes
  <2>3. attr' \in AttrTypes
    BY ONLY <1>2, <2>2 DEF TokenPasses
  <2> QED BY <1>2, <2>1, <2>3 DEF IInv, TokenPasses
<1>3. CASE NextContext
  <2>1. context + 1 \in 1..5
    BY <1>3 DEF NextContext, IInv, ContextOrder
  <2>2. /\ InText(s, h5') /\ Ready(s, h5'.state, h5'.token_start + h5'.token_len, h5'.pos)
        /\ EndsValue(s, h5'.token_type, h5'.token_start + h5'.token_len)
    <3>1. Len(s) \in Nat
      BY TextOf DEF IInv
    <3> QED BY <1>3, <2>1, <3>1, InitReady DEF NextContext
  <2> QED BY <1>3, <2>1, <2>2 DEF IInv, NextContext, AttrTypes
<1>4. CASE Benign
  BY <1>4 DEF IInv, Benign
<1>5. CASE UNCHANGED vars
  BY <1>5 DEF IInv, vars
<1> QED BY <1>1, <1>2, <1>3, <1>4, <1>5 DEF Next

\* So it always holds.
LEMMA Invariance == Spec => []IInv
  BY InitIInv, NextIInv, PTL DEF Spec

\* Tokens and positions lie within the input, in each of the contexts.
THEOREM TypeCorrect == Spec => []TypeOK
<1>1. IInv => TypeOK
  <2> SUFFICES ASSUME IInv PROVE TypeOK
    OBVIOUS
  <2>1. DOMAIN ContextOrder = 1..5
    BY DEF ContextOrder
  <2>2. Len(s) \in Nat /\ h5 \in Tokenizers(s) /\ h5.token_start + h5.token_len <= Len(s)
    BY TextOf DEF IInv, InText
  <2>3. h5.token_len \in 0..Len(s) - h5.token_start
    BY <2>2 DEF Tokenizers
  <2> QED BY <2>1, <2>2, <2>3 DEF IInv, TypeOK, Tokenizers, AttrTypes
<1> QED BY <1>1, Invariance, PTL

\* The tokens of a context follow each other, and each takes the tokenizer on.
THEOREM TokensFollow == Spec => TokensInOrder
<1> DEFINE A == context' = context /\ h5'.more /\ h5' # h5 =>
                  /\ h5'.token_start >= h5.token_start + h5.token_len
                  /\ h5'.pos >= h5.token_start + h5.token_len
                  /\ h5'.pos > h5.pos \/ h5'.state # h5.state
<1>1. IInv /\ [Next]_vars => A
  <2> SUFFICES ASSUME IInv, [Next]_vars, context' = context, h5'.more, h5' # h5
               PROVE  /\ h5'.token_start >= h5.token_start + h5.token_len
                      /\ h5'.pos >= h5.token_start + h5.token_len
                      /\ h5'.pos > h5.pos \/ h5'.state # h5.state
    OBVIOUS
  <2>1. ~NextContext /\ ~Benign /\ ~UNCHANGED vars
    BY DEF NextContext, Benign, vars, IInv
  <2>2. Running /\ h5' = H5Next(s, h5)
    BY <2>1 DEF Next, TokenBanned, TokenPasses
  <2>3. Returns(s, h5.token_start + h5.token_len, h5.pos, h5.state, h5')
    BY <2>2, TokenStep
  <2> QED BY <2>3 DEF Returns
<1>2. IInv /\ [Next]_vars => [A]_vars
  BY <1>1
<1> QED BY <1>2, Invariance, PTL DEF Spec, TokensInOrder

-----------------------------------------------------------------------------
(* References in a value.                                                  *)

\* What ends a value is no digit, nor the x before hexadecimal ones.
LEMMA NoDigit == \A c \in Enders : HexValue(c) = 256 /\ Upper(c) # "X"
<1> DEFINE small == {"a", "b", "c", "d", "e", "f", "g", "h", "i", "j", "k", "l", "m",
                     "n", "o", "p", "q", "r", "s", "t", "u", "v", "w", "x", "y", "z"}
           digits == {"0", "1", "2", "3", "4", "5", "6", "7", "8", "9"}
           capitals == {"A", "B", "C", "D", "E", "F", "X"}
<1>1. DOMAIN CapitalOf = small
  BY DEF CapitalOf
<1>2. \A c \in Enders : c \notin small /\ c \notin digits /\ c \notin capitals
  BY Zenon DEF Enders, Quotes, White, NUL, TICK
<1>3. \A c : Contains(Digits, c) => c \in digits
  BY DEF Contains, Digits
<1> HIDE DEF small, digits
<1>4. \A c \in Enders : Upper(c) = c /\ ~Contains(Digits, c)
  BY <1>1, <1>2, <1>3 DEF Upper
<1> QED BY <1>2, <1>4 DEF HexValue

\* html_decode_char_at stays in a value, for what ends the value ends a number: it
\* consumes a character at least, and none behind the value.
LEMMA DecodeIn ==
    \A p, n \in Nat : Len(s) \in Nat /\ n > 0 /\ At(s, p + n) \in Enders =>
        HtmlDecodeCharAt(p, n).consumed \in 1..n
<1> SUFFICES ASSUME NEW p \in Nat, NEW n \in Nat, Len(s) \in Nat, n > 0, At(s, p + n) \in Enders
             PROVE  HtmlDecodeCharAt(p, n).consumed \in 1..n
  OBVIOUS
<1> DEFINE hex     == Upper(At(s, p + 2)) = "X"
           base    == IF hex THEN 16 ELSE 10
           start   == IF hex THEN 3 ELSE 2
           isDigit(k) == HexValue(At(s, p + k)) < base
           Stops(e) == /\ e >= n \/ ~isDigit(e)
                       /\ \A k \in start + 1..e - 1 : k < n /\ isDigit(k)
           end     == CHOOSE e \in start + 1..n + start + 1 : Stops(e)
           plain   == At(s, p) # "&" \/ n < 2 \/ At(s, p + 1) # "#" \/ ~isDigit(start)
<1>1. HexValue(At(s, p + n)) = 256 /\ Upper(At(s, p + n)) # "X"
  BY NoDigit
<1>2. ~isDigit(n) /\ (n = 2 => ~hex)
  BY <1>1
<1>3. \/ HtmlDecodeCharAt(p, n).consumed = 1
      \/ ~plain /\ HtmlDecodeCharAt(p, n).consumed = end
      \/ ~plain /\ HtmlDecodeCharAt(p, n).consumed = end + 1 /\ end < n
  <2> HIDE DEF hex, base, start, isDigit
  <2> QED BY DEF HtmlDecodeCharAt, hex, base, start, isDigit
<1> HIDE DEF isDigit
<1>4. ~plain => start + 1 <= n /\ start \in {2, 3}
  BY <1>2
<1> HIDE DEF start
<1>5. ~plain => end \in start + 1..n
  <2> SUFFICES ASSUME ~plain PROVE end \in start + 1..n
    OBVIOUS
  <2> DEFINE E == {e \in start + 1..n : e >= n \/ ~isDigit(e)}
             m == Min(E)
  <2>1. \A e \in E : e \in Nat
    BY <1>4
  <2>2. n \in E
    BY <1>4
  <2>3. m \in E /\ \A e \in E : m <= e
    <3> HIDE DEF E
    <3> QED BY <2>1, <2>2, LeastOf
  <2> HIDE DEF m
  <2>4. m \in start + 1..n /\ Stops(m)
    BY <1>4, <2>3
  <2>5. m \in start + 1..n + start + 1
    BY <1>4, <2>4
  <2>6. end \in start + 1..n + start + 1 /\ Stops(end)
    <3> HIDE DEF Stops
    <3> QED BY <2>4, <2>5
  <2> HIDE DEF end
  <2>7. end <= n
    BY <1>4, <2>6
  <2> QED BY <1>4, <2>6, <2>7
<1> HIDE DEF end, plain
<1> QED BY <1>3, <1>4, <1>5

-----------------------------------------------------------------------------
(* Recursion over places, and the codes of a value.                        *)

\* A function whose value at each place but the last, b, depends on that at a later one.
Later(a, b, nxt) == \A o \in a..(b - 1) : nxt[o] \in (o + 1)..b
Within(a, b, V, G) == \A o \in a..(b - 1) : \A v \in V : G[o][v] \in V
Follows(a, b, V, base, nxt, G, f) ==
    f \in [a..b -> V] /\ f[b] = base /\ \A o \in a..(b - 1) : f[o] = G[o][f[nxt[o]]]

\* There is one.
LEMMA Recursion ==
    ASSUME NEW a \in Int, NEW b \in Int, a <= b, NEW V, NEW base, base \in V,
           NEW nxt, Later(a, b, nxt), NEW G, Within(a, b, V, G)
    PROVE  \E f : Follows(a, b, V, base, nxt, G, f)
<1>a. \A o \in a..(b - 1) : nxt[o] \in (o + 1)..b
  BY DEF Later
<1>b. \A o \in a..(b - 1) : \A v \in V : G[o][v] \in V
  BY DEF Within
<1> DEFINE Good(f, p) == f[b] = base /\ \A o \in p..(b - 1) : f[o] = G[o][f[nxt[o]]]
           K == {k \in 0..(b - a) : ~\E f \in [(b - k)..b -> V] : Good(f, b - k)}
<1>1. \A k \in K : k \in Nat
  OBVIOUS
<1>2. CASE K = {}
  <2>1. b - a \in 0..(b - a) /\ b - (b - a) = a
    OBVIOUS
  <2>2. \E f \in [(b - (b - a))..b -> V] : Good(f, b - (b - a))
    <3> HIDE DEF Good
    <3> QED BY <1>2, <2>1
  <2> QED BY <2>1, <2>2 DEF Follows
<1>3. ASSUME K # {} PROVE FALSE
  <2> DEFINE k == Min(K)
  <2>1. k \in K /\ \A j \in K : k <= j
    <3> HIDE DEF K
    <3> QED BY <1>1, <1>3, LeastOf
  <2> HIDE DEF k
  <2> DEFINE p == b - k
  <2>2. k \in 0..(b - a) /\ ~\E f \in [p..b -> V] : Good(f, p)
    BY <2>1
  <2>3. p \in a..b
    BY <2>2
  <2>4. CASE k = 0
    <3> DEFINE f == [o \in p..b |-> base]
    <3>1. f \in [p..b -> V] /\ Good(f, p)
      BY <2>3, <2>4
    <3> QED BY <2>2, <3>1
  <2>5. CASE k # 0
    <3>1. k - 1 \in 0..(b - a) /\ ~(k <= k - 1) /\ b - (k - 1) = p + 1
      BY <2>2, <2>5
    <3>2. k - 1 \notin K
      <4> HIDE DEF K
      <4> QED BY <2>1, <3>1
    <3>3. \E g \in [(b - (k - 1))..b -> V] : Good(g, b - (k - 1))
      <4> HIDE DEF Good
      <4> QED BY <3>1, <3>2
    <3>4. PICK g \in [p + 1..b -> V] : Good(g, p + 1)
      BY <3>1, <3>3
    <3>a. k \in 0..(b - a)
      BY <2>2
    <3>b. p \in a..(b - 1) /\ p # b
      BY <2>5, <3>a
    <3>5. p \in a..(b - 1) /\ nxt[p] \in p + 1..b /\ p # b
      <4> HIDE DEF p
      <4> QED BY <1>a, <3>b
    <3> HIDE DEF p
    <3> DEFINE f == [o \in p..b |-> IF o = p THEN G[p][g[nxt[p]]] ELSE g[o]]
    <3>6. G[p][g[nxt[p]]] \in V
      BY <1>b, <3>4, <3>5
    <3>7. \A o \in p..b : o = p \/ o \in p + 1..b
      BY <3>5
    <3>8. f \in [p..b -> V] /\ f[b] = base /\ f[p] = G[p][g[nxt[p]]] /\ \A o \in p + 1..b : f[o] = g[o]
      BY <3>4, <3>5, <3>6, <3>7
    <3> HIDE DEF f
    <3>9. ASSUME NEW o \in p..(b - 1) PROVE f[o] = G[o][f[nxt[o]]]
      <4>1. o = p \/ o \in p + 1..(b - 1)
        BY <3>5
      <4>2. CASE o = p
        BY <3>5, <3>8, <4>2
      <4>3. CASE o \in p + 1..(b - 1)
        <5>1. o \in p + 1..b /\ nxt[o] \in p + 1..b
          BY <1>a, <3>5, <4>3
        <5> QED BY <3>4, <3>8, <4>3, <5>1
      <4> QED BY <4>1, <4>2, <4>3
    <3> QED BY <2>2, <3>8, <3>9
  <2> QED BY <2>4, <2>5
<1> QED BY <1>2, <1>3

\* What holds at the last place, and at each if it does at the later one, holds at all.
LEMMA Descent ==
    ASSUME NEW a \in Int, NEW b \in Int, NEW nxt, Later(a, b, nxt), NEW P, b \in P,
           \A o \in a..(b - 1) : nxt[o] \in P => o \in P
    PROVE  \A o \in a..b : o \in P
<1> SUFFICES ASSUME NEW q \in a..b, q \notin P PROVE FALSE
  OBVIOUS
<1> DEFINE K == {k \in 0..(b - a) : b - k \notin P}
           k == Min(K)
<1>1. \A j \in K : j \in Nat
  OBVIOUS
<1>2. b - q \in K
  <2>1. b - q \in 0..(b - a) /\ b - (b - q) = q
    OBVIOUS
  <2> QED BY <2>1
<1>3. k \in K /\ \A j \in K : k <= j
  <2> HIDE DEF K
  <2> QED BY <1>1, <1>2, LeastOf
<1> HIDE DEF k
<1>4. k \in 0..(b - a) /\ b - k \notin P
  BY <1>3
<1>5. b - k \in a..(b - 1)
  <2>1. k # 0
    BY <1>4
  <2> QED BY <1>4, <2>1
<1> DEFINE m == nxt[b - k]
<1>6. m \in (b - k) + 1..b /\ m \notin P
  BY <1>4, <1>5 DEF Later
<1> HIDE DEF m
<1>7. b - m \in 0..(b - a) /\ b - (b - m) = m /\ ~(k <= b - m)
  BY <1>4, <1>6
<1>8. b - m \in K
  BY <1>6, <1>7
<1> QED BY <1>3, <1>7, <1>8

\* Sequences of whatever they are.
IsSeq(t) == \E W : t \in Seq(W)

\* The empty sequence.
LEMMA EmptyIs == IsSeq(<<>>) /\ Len(<<>>) = 0
  BY DEF IsSeq

\* A sequence with one more in front.
LEMMA ConsIs ==
    ASSUME NEW t, IsSeq(t), NEW x
    PROVE  /\ IsSeq(<<x>> \o t) /\ Len(t) \in Nat /\ Len(<<x>> \o t) = Len(t) + 1
           /\ (<<x>> \o t)[1] = x
           /\ \A k \in 1..Len(t) : (<<x>> \o t)[k + 1] = t[k]
<1>1. PICK W : t \in Seq(W)
  BY DEF IsSeq
<1> DEFINE U == W \union {x}
<1>2. <<x>> \in Seq(U) /\ t \in Seq(U) /\ Len(<<x>>) = 1 /\ <<x>>[1] = x
  BY <1>1
<1> HIDE DEF U
<1>3. Len(t) \in Nat
  BY <1>2
<1>4. <<x>> \o t \in Seq(U) /\ Len(<<x>> \o t) = 1 + Len(t)
  BY <1>2, ConcatProperties
<1>5. \A k \in 1..(1 + Len(t)) : (<<x>> \o t)[k] = IF k <= 1 THEN <<x>>[k] ELSE t[k - 1]
  BY <1>2, ConcatProperties
<1>6. (<<x>> \o t)[1] = x
  BY <1>2, <1>3, <1>5
<1>7. ASSUME NEW k \in 1..Len(t) PROVE (<<x>> \o t)[k + 1] = t[k]
  <2>1. k + 1 \in 1..(1 + Len(t)) /\ ~(k + 1 <= 1) /\ k + 1 - 1 = k
    BY <1>3
  <2>2. (<<x>> \o t)[k + 1] = t[k + 1 - 1]
    BY <1>5, <2>1
  <2> QED BY <2>1, <2>2
<1>8. IsSeq(<<x>> \o t)
  BY <1>4 DEF IsSeq
<1> QED BY <1>3, <1>4, <1>6, <1>7, <1>8

\* The places at which the characters of a value begin, and their values.
Behind(p, n, o) == o + HtmlDecodeCharAt(p + o, n - o).consumed
Val(p, n, o) == HtmlDecodeCharAt(p + o, n - o).val

InValue(p, n) == Len(s) \in Nat /\ p \in Nat /\ n \in Nat /\ At(s, p + n) \in Enders

\* The next character begins behind this one, and not behind the value.
LEMMA BehindIn == \A p, n : InValue(p, n) => \A o \in 0..(n - 1) : Behind(p, n, o) \in (o + 1)..n
<1> SUFFICES ASSUME NEW p, NEW n, InValue(p, n), NEW o \in 0..(n - 1) PROVE Behind(p, n, o) \in (o + 1)..n
  OBVIOUS
<1>1. p + o \in Nat /\ n - o \in Nat /\ n - o > 0 /\ (p + o) + (n - o) = p + n
  BY DEF InValue
<1>2. HtmlDecodeCharAt(p + o, n - o).consumed \in 1..(n - o)
  BY <1>1, DecodeIn DEF InValue
<1> QED BY <1>2 DEF Behind, InValue

\* Decoded, at each place.
DecodedFrom(p, n) ==
    LET from[o \in 0..n] ==
            IF o >= n THEN <<>>
            ELSE LET c == HtmlDecodeCharAt(p + o, n - o) IN <<c.val>> \o from[o + c.consumed]
    IN  from

\* The codes of a value from each of its characters on.
LEMMA DecodedIs ==
    ASSUME NEW p, NEW n, InValue(p, n)
    PROVE  LET f == DecodedFrom(p, n)
           IN  /\ Decoded(p, n) = f[0] /\ f[n] = <<>>
               /\ \A o \in 0..n : IsSeq(f[o])
               /\ \A o \in 0..(n - 1) : f[o] = <<Val(p, n, o)>> \o f[Behind(p, n, o)]
<1> DEFINE V == Seq({Val(p, n, o) : o \in 0..(n - 1)})
           nxt == [o \in 0..(n - 1) |-> Behind(p, n, o)]
           G == [o \in 0..(n - 1) |-> [v \in V |-> <<Val(p, n, o)>> \o v]]
           body(f, o) == IF o >= n THEN <<>> ELSE <<Val(p, n, o)>> \o f[Behind(p, n, o)]
           Is(f) == f = [o \in 0..n |-> body(f, o)]
<1>1. n \in Nat /\ 0 <= n /\ 0 \in Int /\ n \in Int
  BY DEF InValue
<1>2. \E f : Is(f)
  <2>1. <<>> \in V
    OBVIOUS
  <2>2. \A o \in 0..(n - 1) : nxt[o] \in (o + 1)..n
    BY BehindIn
  <2>3. \A o \in 0..(n - 1), v \in V : G[o][v] \in V
    OBVIOUS
  <2>a. \A o \in 0..(n - 1), v \in V : G[o][v] = <<Val(p, n, o)>> \o v
    OBVIOUS
  <2>4. \A o \in 0..(n - 1) : nxt[o] = Behind(p, n, o)
    OBVIOUS
  <2> HIDE DEF G, nxt, V
  <2>b. Later(0, n, nxt) /\ Within(0, n, V, G)
    BY <2>2, <2>3 DEF Later, Within
  <2>c. PICK f : Follows(0, n, V, <<>>, nxt, G, f)
    BY <1>1, <2>1, <2>b, Recursion
  <2>5. f \in [0..n -> V] /\ f[n] = <<>> /\ \A o \in 0..(n - 1) : f[o] = G[o][f[nxt[o]]]
    BY <2>c DEF Follows
  <2>6. ASSUME NEW o \in 0..n PROVE f[o] = body(f, o)
    <3>1. CASE o = n
      BY <1>1, <2>5, <3>1
    <3>2. CASE o # n
      <4>1. o \in 0..(n - 1) /\ ~(o >= n)
        BY <1>1, <3>2
      <4>2. nxt[o] \in 0..n
        BY <1>1, <2>2, <4>1
      <4>3. f[nxt[o]] \in V
        BY <2>5, <4>2
      <4>4. f[o] = <<Val(p, n, o)>> \o f[nxt[o]]
        BY <2>a, <2>5, <4>1, <4>3
      <4>5. body(f, o) = <<Val(p, n, o)>> \o f[Behind(p, n, o)]
        BY <4>1
      <4> QED BY <2>4, <4>1, <4>4, <4>5
    <3> QED BY <3>1, <3>2
  <2>7. DOMAIN f = 0..n /\ f = [o \in 0..n |-> f[o]]
    BY <2>5
  <2>8. f = [o \in 0..n |-> body(f, o)]
    <3> HIDE DEF body
    <3> QED BY <2>6, <2>7
  <2> QED BY <2>8
<1>3. Is(DecodedFrom(p, n))
  <2>1. DecodedFrom(p, n) = CHOOSE f : Is(f)
    BY DEF DecodedFrom, Val, Behind
  <2> HIDE DEF Is
  <2> QED BY <1>2, <2>1
<1>4. Decoded(p, n) = DecodedFrom(p, n)[0]
  BY DEF Decoded, DecodedFrom
<1> DEFINE f == DecodedFrom(p, n)
<1> HIDE DEF f
<1>5. \A o \in 0..n : f[o] = body(f, o)
  BY <1>3 DEF f
<1>6. f[n] = <<>>
  <2>1. n \in 0..n /\ body(f, n) = <<>>
    BY <1>1
  <2> HIDE DEF body
  <2> QED BY <1>5, <2>1
<1>7. \A o \in 0..(n - 1) : f[o] = <<Val(p, n, o)>> \o f[Behind(p, n, o)]
  <2> TAKE o \in 0..(n - 1)
  <2>1. o \in 0..n /\ ~(o >= n)
    BY <1>1
  <2>2. body(f, o) = <<Val(p, n, o)>> \o f[Behind(p, n, o)]
    BY <2>1
  <2> HIDE DEF body
  <2> QED BY <1>5, <2>1, <2>2
<1>8. \A o \in 0..n : IsSeq(f[o])
  <2> DEFINE P == {o \in 0..n : IsSeq(f[o])}
  <2>1. n \in P
    BY <1>1, <1>6, EmptyIs
  <2>2. Later(0, n, nxt)
    BY BehindIn DEF Later
  <2>3. \A o \in 0..(n - 1) : nxt[o] = Behind(p, n, o)
    OBVIOUS
  <2>4. ASSUME NEW o \in 0..(n - 1), nxt[o] \in P PROVE o \in P
    <3>1. IsSeq(f[Behind(p, n, o)])
      BY <2>3, <2>4
    <3>2. IsSeq(<<Val(p, n, o)>> \o f[Behind(p, n, o)])
      BY <3>1, ConsIs
    <3>3. IsSeq(f[o])
      BY <1>7, <3>2
    <3> QED BY <1>1, <3>3
  <2> HIDE DEF P, nxt
  <2>5. \A o \in 0..n : o \in P
    BY <1>1, <2>1, <2>2, <2>4, Descent
  <2> QED BY <2>5 DEF P
<1> QED BY <1>4, <1>6, <1>7, <1>8 DEF f

-----------------------------------------------------------------------------
(* What is seen of the codes of a value.                                   *)

\* What is compared of a character.
Shown(v) == UpperCode(v) % 256

\* Seen, at each place.
LEMMA SeenIs ==
    ASSUME NEW codes, Len(codes) \in Nat
    PROVE  LET S == Seen(codes)
           IN  /\ S[Len(codes) + 1] = <<>>
               /\ \A i \in 1..Len(codes) : S[i] = IF codes[i] \in {0, 10} THEN S[i + 1]
                                                  ELSE <<Shown(codes[i])>> \o S[i + 1]
               /\ \A i \in 1..(Len(codes) + 1) : IsSeq(S[i])
<1> DEFINE L == Len(codes)
           b == L + 1
           V == Seq({Shown(codes[i]) : i \in 1..L})
           nxt == [i \in 1..L |-> i + 1]
           rest(i, v) == IF codes[i] \in {0, 10} THEN v ELSE <<Shown(codes[i])>> \o v
           G == [i \in 1..L |-> [v \in V |-> rest(i, v)]]
           body(f, i) == IF i > L THEN <<>> ELSE IF codes[i] \in {0, 10} THEN f[i + 1]
                         ELSE <<Shown(codes[i])>> \o f[i + 1]
           Is(f) == f = [i \in 1..b |-> body(f, i)]
<1>1. 1 \in Int /\ b \in Int /\ 1 <= b /\ b - 1 = L /\ b > L /\ b \in 1..b /\ b \in Nat
  OBVIOUS
<1>2. \A i \in 1..L : i \in 1..b /\ i + 1 \in 1..b /\ ~(i > L) /\ i # b
  OBVIOUS
<1>3. \A i \in 1..b : i = b \/ i \in 1..L
  OBVIOUS
<1>4. Later(1, b, nxt)
  BY DEF Later
<1>5. \A f : \A i \in 1..L : body(f, i) = rest(i, f[i + 1])
  BY <1>2
<1>6. \A f : body(f, b) = <<>>
  BY <1>1
<1>7. \A i \in 1..L : nxt[i] = i + 1
  OBVIOUS
<1>8. \E f : Is(f)
  <2>1. <<>> \in V
    OBVIOUS
  <2>2. \A i \in 1..L, v \in V : G[i][v] = rest(i, v)
    OBVIOUS
  <2>3. \A i \in 1..L, v \in V : rest(i, v) \in V
    <3> TAKE i \in 1..L, v \in V
    <3>1. <<Shown(codes[i])>> \o v \in V
      OBVIOUS
    <3> HIDE DEF V
    <3> QED BY <3>1
  <2> HIDE DEF V, G, rest, body, nxt, b, L
  <2>4. Within(1, b, V, G)
    BY <1>1, <2>2, <2>3 DEF Within
  <2>5. PICK f : Follows(1, b, V, <<>>, nxt, G, f)
    BY <1>1, <1>4, <2>1, <2>4, Recursion
  <2>6. ASSUME NEW i \in 1..b PROVE f[i] = body(f, i)
    <3>1. CASE i = b
      BY <1>6, <2>5, <3>1 DEF Follows
    <3>2. CASE i \in 1..L
      <4>1. f[i + 1] \in V
        BY <1>2, <2>5, <3>2 DEF Follows
      <4>2. f[i] = G[i][f[i + 1]]
        BY <1>1, <1>7, <2>5, <3>2 DEF Follows
      <4> QED BY <1>5, <2>2, <3>2, <4>1, <4>2
    <3> QED BY <1>3, <3>1, <3>2
  <2>7. DOMAIN f = 1..b /\ f = [i \in 1..b |-> f[i]]
    BY <2>5 DEF Follows
  <2>8. f = [i \in 1..b |-> body(f, i)]
    BY <2>6, <2>7
  <2> QED BY <2>8
<1>9. Is(Seen(codes))
  <2>1. Seen(codes) = CHOOSE f : Is(f)
    BY DEF Seen, Shown
  <2> HIDE DEF Is
  <2> QED BY <1>8, <2>1
<1> DEFINE S == Seen(codes)
<1> HIDE DEF S
<1>10. \A i \in 1..b : S[i] = body(S, i)
  <2> HIDE DEF body
  <2> QED BY <1>9 DEF S
<1>11. S[b] = <<>>
  <2> HIDE DEF body
  <2> QED BY <1>1, <1>6, <1>10
<1>12. \A i \in 1..L : S[i] = rest(i, S[i + 1])
  <2> HIDE DEF body, rest
  <2> QED BY <1>2, <1>5, <1>10
<1>13. \A i \in 1..b : IsSeq(S[i])
  <2> DEFINE P == {i \in 1..b : IsSeq(S[i])}
  <2>1. b \in P
    BY <1>1, <1>11, EmptyIs
  <2>2. ASSUME NEW i \in 1..L, nxt[i] \in P PROVE i \in P
    <3>1. IsSeq(S[i + 1])
      BY <1>7, <2>2
    <3>2. IsSeq(<<Shown(codes[i])>> \o S[i + 1])
      BY <3>1, ConsIs
    <3>3. IsSeq(rest(i, S[i + 1]))
      BY <3>1, <3>2
    <3>4. IsSeq(S[i])
      <4> HIDE DEF rest
      <4> QED BY <1>12, <3>3
    <3> QED BY <1>2, <3>4
  <2> HIDE DEF P, nxt, b, L
  <2>3. \A i \in 1..b : i \in P
    BY <1>1, <1>4, <2>1, <2>2, Descent
  <2> QED BY <2>3 DEF P
<1> QED BY <1>11, <1>12, <1>13 DEF S

\* What is seen from a character on is the same behind another one.
LEMMA SeenBehind ==
    ASSUME NEW codes, IsSeq(codes), NEW v
    PROVE  \A i \in 1..(Len(codes) + 1) : Seen(<<v>> \o codes)[i + 1] = Seen(codes)[i]
<1> DEFINE more == <<v>> \o codes
           L == Len(codes)
           b == L + 1
           M == Seen(more)
           S == Seen(codes)
           nxt == [i \in 1..L |-> i + 1]
           P == {i \in 1..b : M[i + 1] = S[i]}
<1>1. L \in Nat /\ Len(more) = b /\ \A k \in 1..L : more[k + 1] = codes[k]
  BY ConsIs
<1> HIDE DEF more
<1>2. S[b] = <<>> /\ \A i \in 1..L : S[i] = IF codes[i] \in {0, 10} THEN S[i + 1]
                                              ELSE <<Shown(codes[i])>> \o S[i + 1]
  BY <1>1, SeenIs
<1>a. Len(more) \in Nat
  BY <1>1
<1>3. M[b + 1] = <<>> /\ \A i \in 1..b : M[i] = IF more[i] \in {0, 10} THEN M[i + 1]
                                              ELSE <<Shown(more[i])>> \o M[i + 1]
  BY <1>1, <1>a, SeenIs
<1> HIDE DEF M, S
<1>4. 1 \in Int /\ b \in Int /\ b - 1 = L /\ b \in 1..b /\ b \in Nat /\ \A i \in 1..L : i \in 1..b /\ i + 1 \in 1..b
  BY <1>1
<1>5. Later(1, b, nxt) /\ \A i \in 1..L : nxt[i] = i + 1
  BY <1>1 DEF Later
<1>6. b \in P
  BY <1>2, <1>3, <1>4
<1>7. ASSUME NEW i \in 1..L, nxt[i] \in P PROVE i \in P
  <2>1. M[i + 1 + 1] = S[i + 1] /\ more[i + 1] = codes[i]
    BY <1>1, <1>5, <1>7
  <2> HIDE DEF b, L
  <2>2. M[i + 1] = IF codes[i] \in {0, 10} THEN M[i + 1 + 1] ELSE <<Shown(codes[i])>> \o M[i + 1 + 1]
    BY <1>3, <1>4, <2>1
  <2>3. M[i + 1] = S[i]
    BY <1>2, <2>1, <2>2
  <2> QED BY <1>4, <2>3
<1> HIDE DEF P, nxt, b, L
<1>8. \A i \in 1..b : i \in P
  BY <1>4, <1>5, <1>6, <1>7, Descent
<1> QED BY <1>8 DEF P, b, L, M, S, more

-----------------------------------------------------------------------------
(* htmlencode_startswith, and the words that begin a value.                *)

\* The loop of htmlencode_startswith, at each place of the value and of the word, and
\* from each place on while it is at the first character.
CompareFrom(word, p, n) ==
    LET compare[o \in 0..n] ==
            [k \in 0..Len(word) |->
                IF o >= n \/ k = Len(word) THEN k = Len(word)
                ELSE IF Val(p, n, o) \in {0, 10} THEN compare[Behind(p, n, o)][k]
                ELSE /\ Shown(Val(p, n, o)) = Code(word[k + 1])
                     /\ compare[Behind(p, n, o)][k + 1]]
    IN  compare

FirstFrom(word, p, n) ==
    LET first[o \in 0..n] ==
            IF o < n /\ Val(p, n, o) <= 32 THEN first[Behind(p, n, o)] ELSE CompareFrom(word, p, n)[o][0]
    IN  first

\* They are what htmlencode_startswith computes.
LEMMA StartswithIs == \A word, p, n : HtmlencodeStartswith(word, p, n) = FirstFrom(word, p, n)[0]
  BY DEF HtmlencodeStartswith, FirstFrom, CompareFrom, Val, Behind, Shown

\* What the comparison yields at each place, from what it does at the next.
LEMMA CompareIs ==
    ASSUME NEW word, NEW p, NEW n, InValue(p, n), Len(word) \in Nat
    PROVE  LET C == CompareFrom(word, p, n)
               L == Len(word)
           IN  /\ \A o \in 0..n : \A k \in 0..L : o = n \/ k = L => C[o][k] = (k = L)
               /\ \A o \in 0..(n - 1) : \A k \in 0..(L - 1) : C[o][k] =
                     IF Val(p, n, o) \in {0, 10} THEN C[Behind(p, n, o)][k]
                     ELSE Shown(Val(p, n, o)) = Code(word[k + 1]) /\ C[Behind(p, n, o)][k + 1]
<1> DEFINE L == Len(word)
           V == [0..L -> BOOLEAN]
           base == [k \in 0..L |-> k = L]
           nxt == [o \in 0..(n - 1) |-> Behind(p, n, o)]
           entry(o, k, v) == IF o >= n \/ k = L THEN k = L
                             ELSE IF Val(p, n, o) \in {0, 10} THEN v[k]
                             ELSE Shown(Val(p, n, o)) = Code(word[k + 1]) /\ v[k + 1]
           row(o, v) == [k \in 0..L |-> entry(o, k, v)]
           G == [o \in 0..(n - 1) |-> [v \in V |-> row(o, v)]]
           Is(f) == f = [o \in 0..n |-> row(o, f[Behind(p, n, o)])]
<1>1. n \in Nat /\ 0 <= n /\ 0 \in Int /\ n \in Int /\ n \in 0..n /\ L \in Nat /\ n >= n
  BY DEF InValue
<1>2. \A v : \A k \in 0..L : entry(n, k, v) = (k = L)
  BY <1>1
<1>3. \A v : row(n, v) = base
  <2> HIDE DEF entry
  <2> QED BY <1>2
<1>4. Later(0, n, nxt) /\ \A o \in 0..(n - 1) : nxt[o] = Behind(p, n, o)
  BY BehindIn DEF Later
<1>5. \A o \in 0..(n - 1) : o \in 0..n /\ o # n /\ ~(o >= n) /\ Behind(p, n, o) \in 0..n
  BY <1>1, BehindIn
<1>6. \E f : Is(f)
  <2>1. base \in V
    OBVIOUS
  <2>2. \A o \in 0..(n - 1), v \in V : row(o, v) \in V
    <3> TAKE o \in 0..(n - 1), v \in V
    <3>1. ASSUME NEW k \in 0..L PROVE entry(o, k, v) \in BOOLEAN
      <4>1. k # L => k \in 0..L /\ k + 1 \in 0..L
        BY <1>1
      <4>2. \A j \in 0..L : v[j] \in BOOLEAN
        OBVIOUS
      <4> HIDE DEF V
      <4> QED BY <4>1, <4>2
    <3> HIDE DEF entry
    <3> QED BY <3>1
  <2>3. \A o \in 0..(n - 1), v \in V : G[o][v] = row(o, v)
    <3> HIDE DEF row, V
    <3> QED OBVIOUS
  <2> HIDE DEF V, G, row, nxt, base, entry
  <2>4. Within(0, n, V, G)
    BY <2>2, <2>3 DEF Within
  <2>5. PICK f : Follows(0, n, V, base, nxt, G, f)
    BY <1>1, <1>4, <2>1, <2>4, Recursion
  <2>6. ASSUME NEW o \in 0..n PROVE f[o] = row(o, f[Behind(p, n, o)])
    <3>1. CASE o = n
      <4>1. f[n] = base
        BY <2>5 DEF Follows
      <4> QED BY <1>3, <3>1, <4>1
    <3>2. CASE o \in 0..(n - 1)
      <4>1. f[Behind(p, n, o)] \in V
        BY <1>5, <2>5, <3>2 DEF Follows
      <4>2. f[o] = G[o][f[Behind(p, n, o)]]
        BY <1>4, <2>5, <3>2 DEF Follows
      <4> QED BY <2>3, <3>2, <4>1, <4>2
    <3>3. o = n \/ o \in 0..(n - 1)
      BY <1>1
    <3> QED BY <3>1, <3>2, <3>3
  <2>7. DOMAIN f = 0..n /\ f = [o \in 0..n |-> f[o]]
    BY <2>5 DEF Follows
  <2>8. f = [o \in 0..n |-> row(o, f[Behind(p, n, o)])]
    BY <2>6, <2>7
  <2> QED BY <2>8
<1>7. Is(CompareFrom(word, p, n))
  <2>1. CompareFrom(word, p, n) = CHOOSE f : Is(f)
    BY DEF CompareFrom
  <2> HIDE DEF Is
  <2> QED BY <1>6, <2>1
<1> DEFINE C == CompareFrom(word, p, n)
<1> HIDE DEF C
<1>8. \A o \in 0..n : C[o] = row(o, C[Behind(p, n, o)])
  <2> HIDE DEF row
  <2> QED BY <1>7 DEF C
<1>9. \A o \in 0..n : \A k \in 0..L : C[o][k] = entry(o, k, C[Behind(p, n, o)])
  <2> HIDE DEF entry
  <2> QED BY <1>8
<1>10. \A o \in 0..n : \A k \in 0..L : o = n \/ k = L => C[o][k] = (k = L)
  <2>1. \A o \in 0..n : \A k \in 0..L : \A v : o = n \/ k = L => entry(o, k, v) = (k = L)
    BY <1>1
  <2> HIDE DEF entry
  <2> QED BY <1>9, <2>1
<1>11. ASSUME NEW o \in 0..(n - 1)
       PROVE  \A k \in 0..(L - 1) : C[o][k] =
                    IF Val(p, n, o) \in {0, 10} THEN C[Behind(p, n, o)][k]
                    ELSE Shown(Val(p, n, o)) = Code(word[k + 1]) /\ C[Behind(p, n, o)][k + 1]
  <2>1. \A k \in 0..(L - 1) : k \in 0..L /\ k # L
    BY <1>1
  <2>2. \A k \in 0..(L - 1) : entry(o, k, C[Behind(p, n, o)]) =
                    IF Val(p, n, o) \in {0, 10} THEN C[Behind(p, n, o)][k]
                    ELSE Shown(Val(p, n, o)) = Code(word[k + 1]) /\ C[Behind(p, n, o)][k + 1]
    BY <1>5, <2>1
  <2> HIDE DEF entry
  <2> QED BY <1>5, <1>9, <2>1, <2>2
<1> QED BY <1>10, <1>11 DEF C

\* And what it yields from each place on while white is skipped.
LEMMA FirstIs ==
    ASSUME NEW word, NEW p, NEW n, InValue(p, n)
    PROVE  LET F == FirstFrom(word, p, n)
               C == CompareFrom(word, p, n)
           IN  /\ F[n] = C[n][0]
               /\ \A o \in 0..(n - 1) : F[o] = IF Val(p, n, o) <= 32 THEN F[Behind(p, n, o)] ELSE C[o][0]
<1> DEFINE C == CompareFrom(word, p, n)
           V == {C[o][0] : o \in 0..n}
           nxt == [o \in 0..(n - 1) |-> Behind(p, n, o)]
           step(o, v) == IF Val(p, n, o) <= 32 THEN v ELSE C[o][0]
           G == [o \in 0..(n - 1) |-> [v \in V |-> step(o, v)]]
           body(f, o) == IF o < n /\ Val(p, n, o) <= 32 THEN f[Behind(p, n, o)] ELSE C[o][0]
           Is(f) == f = [o \in 0..n |-> body(f, o)]
<1>1. n \in Nat /\ 0 <= n /\ 0 \in Int /\ n \in Int /\ n \in 0..n /\ ~(n < n)
  BY DEF InValue
<1> HIDE DEF C
<1>2. \A f : body(f, n) = C[n][0]
  BY <1>1
<1>3. \A f : \A o \in 0..(n - 1) : body(f, o) = step(o, f[Behind(p, n, o)])
  BY <1>1
<1>4. Later(0, n, nxt) /\ \A o \in 0..(n - 1) : nxt[o] = Behind(p, n, o)
  BY BehindIn DEF Later
<1>5. \A o \in 0..(n - 1) : o \in 0..n /\ Behind(p, n, o) \in 0..n
  BY <1>1, BehindIn
<1>6. \E f : Is(f)
  <2>1. C[n][0] \in V
    BY <1>1
  <2>2. \A o \in 0..(n - 1), v \in V : step(o, v) \in V
    <3> TAKE o \in 0..(n - 1), v \in V
    <3>1. C[o][0] \in V
      BY <1>5
    <3> HIDE DEF V
    <3> QED BY <3>1
  <2>3. \A o \in 0..(n - 1), v \in V : G[o][v] = step(o, v)
    <3> HIDE DEF step, V
    <3> QED OBVIOUS
  <2> HIDE DEF V, G, step, body, nxt
  <2>4. Within(0, n, V, G)
    BY <2>2, <2>3 DEF Within
  <2>5. PICK f : Follows(0, n, V, C[n][0], nxt, G, f)
    BY <1>1, <1>4, <2>1, <2>4, Recursion
  <2>6. ASSUME NEW o \in 0..n PROVE f[o] = body(f, o)
    <3>1. CASE o = n
      <4>1. f[n] = C[n][0]
        BY <2>5 DEF Follows
      <4> QED BY <1>2, <3>1, <4>1
    <3>2. CASE o \in 0..(n - 1)
      <4>1. f[Behind(p, n, o)] \in V
        BY <1>5, <2>5, <3>2 DEF Follows
      <4>2. f[o] = G[o][f[Behind(p, n, o)]]
        BY <1>4, <2>5, <3>2 DEF Follows
      <4> QED BY <1>3, <2>3, <3>2, <4>1, <4>2
    <3>3. o = n \/ o \in 0..(n - 1)
      BY <1>1
    <3> QED BY <3>1, <3>2, <3>3
  <2>7. DOMAIN f = 0..n /\ f = [o \in 0..n |-> f[o]]
    BY <2>5 DEF Follows
  <2>8. f = [o \in 0..n |-> body(f, o)]
    BY <2>6, <2>7
  <2> QED BY <2>8
<1>7. Is(FirstFrom(word, p, n))
  <2>1. FirstFrom(word, p, n) = CHOOSE f : Is(f)
    BY DEF FirstFrom, C
  <2> HIDE DEF Is
  <2> QED BY <1>6, <2>1
<1> DEFINE F == FirstFrom(word, p, n)
<1> HIDE DEF F
<1>8. \A o \in 0..n : F[o] = body(F, o)
  <2> HIDE DEF body
  <2> QED BY <1>7 DEF F
<1>9. F[n] = C[n][0] /\ \A o \in 0..(n - 1) : F[o] = step(o, F[Behind(p, n, o)])
  <2> HIDE DEF body, step
  <2> QED BY <1>1, <1>2, <1>3, <1>5, <1>8
<1> QED BY <1>9 DEF F, C

\* Do the characters of a word behind the first k begin the text t?
Matches(word, k, t) ==
    \A j \in 1..(Len(word) - k) : j <= Len(t) /\ t[j] = Code(word[k + j])

\* Nothing is left to match.
LEMMA MatchesEnd == \A word, t : Len(word) \in Nat => Matches(word, Len(word), t)
  BY DEF Matches

\* The empty text matches that only.
LEMMA MatchesEmpty ==
    \A word : Len(word) \in Nat => \A k \in 0..Len(word) : Matches(word, k, <<>>) <=> k = Len(word)
<1> SUFFICES ASSUME NEW word, Len(word) \in Nat, NEW k \in 0..Len(word)
             PROVE  Matches(word, k, <<>>) <=> k = Len(word)
  OBVIOUS
<1>1. CASE k = Len(word)
  BY <1>1, MatchesEnd
<1>2. CASE k # Len(word)
  <2>1. 1 \in 1..(Len(word) - k) /\ ~(1 <= Len(<<>>))
    BY <1>2, EmptyIs
  <2> QED BY <1>2, <2>1 DEF Matches
<1> QED BY <1>1, <1>2

\* One more character in front of the text.
LEMMA MatchesCons ==
    ASSUME NEW word, Len(word) \in Nat, NEW k \in 0..(Len(word) - 1), NEW t, IsSeq(t), NEW x
    PROVE  Matches(word, k, <<x>> \o t) <=> x = Code(word[k + 1]) /\ Matches(word, k + 1, t)
<1> DEFINE r == <<x>> \o t
           L == Len(word)
<1>1. Len(t) \in Nat /\ Len(r) = Len(t) + 1 /\ r[1] = x /\ \A j \in 1..Len(t) : r[j + 1] = t[j]
  BY ConsIs
<1> HIDE DEF r
<1>2. ASSUME Matches(word, k, r) PROVE x = Code(word[k + 1]) /\ Matches(word, k + 1, t)
  <2>1. 1 \in 1..(L - k)
    OBVIOUS
  <2>2. x = Code(word[k + 1])
    BY <1>1, <1>2, <2>1 DEF Matches
  <2>3. ASSUME NEW j \in 1..(L - (k + 1)) PROVE j <= Len(t) /\ t[j] = Code(word[k + 1 + j])
    <3>1. j + 1 \in 1..(L - k) /\ k + (j + 1) = k + 1 + j
      OBVIOUS
    <3>2. j + 1 <= Len(r) /\ r[j + 1] = Code(word[k + (j + 1)])
      BY <1>2, <3>1 DEF Matches
    <3>3. j \in 1..Len(t)
      BY <1>1, <3>2
    <3> QED BY <1>1, <3>1, <3>2, <3>3
  <2> QED BY <2>2, <2>3 DEF Matches
<1>3. ASSUME x = Code(word[k + 1]), Matches(word, k + 1, t) PROVE Matches(word, k, r)
  <2>1. ASSUME NEW j \in 1..(L - k) PROVE j <= Len(r) /\ r[j] = Code(word[k + j])
    <3>1. CASE j = 1
      BY <1>1, <1>3, <3>1
    <3>2. CASE j # 1
      <4> DEFINE i == j - 1
      <4>1. i \in 1..(L - (k + 1)) /\ i + 1 = j /\ k + 1 + i = k + j
        BY <3>2
      <4> HIDE DEF i
      <4>2. i <= Len(t) /\ t[i] = Code(word[k + 1 + i])
        BY <1>3, <4>1 DEF Matches
      <4>3. i \in 1..Len(t)
        BY <1>1, <4>1, <4>2
      <4>4. r[i + 1] = t[i]
        BY <1>1, <4>3
      <4>5. j <= Len(r)
        BY <1>1, <4>1, <4>2
      <4> QED BY <4>1, <4>2, <4>4, <4>5
    <3> QED BY <3>1, <3>2
  <2> QED BY <2>1 DEF Matches
<1> QED BY <1>2, <1>3 DEF r

\* A prefix is one character by character.
LEMMA PrefixIs ==
    ASSUME NEW w, IsSeq(w), NEW t, IsSeq(t)
    PROVE  IsPrefix(w, t) <=> \A j \in 1..Len(w) : j <= Len(t) /\ t[j] = w[j]
<1>1. PICK W : w \in Seq(W)
  BY DEF IsSeq
<1>2. PICK T : t \in Seq(T)
  BY DEF IsSeq
<1>3. Len(w) \in Nat /\ Len(t) \in Nat /\ DOMAIN w = 1..Len(w)
  BY <1>1, <1>2
<1>4. ASSUME IsPrefix(w, t) PROVE \A j \in 1..Len(w) : j <= Len(t) /\ t[j] = w[j]
  <2>1. Len(w) <= Len(t) /\ SubSeq(w, 1, Len(w)) = SubSeq(t, 1, Len(w))
    BY <1>4 DEF IsPrefix
  <2>2. \A j \in 1..Len(w) : SubSeq(w, 1, Len(w))[j] = w[j] /\ SubSeq(t, 1, Len(w))[j] = t[j]
    BY <1>1, <1>2, <1>3, <2>1, SubSeqProperties
  <2> QED BY <1>3, <2>1, <2>2
<1>5. ASSUME \A j \in 1..Len(w) : j <= Len(t) /\ t[j] = w[j] PROVE IsPrefix(w, t)
  <2>1. Len(w) <= Len(t)
    BY <1>3, <1>5
  <2> DEFINE U == W \union T
             l == Len(w)
  <2>2. \A j \in 1..l : w[j] \in U /\ t[j] \in U
    BY <1>1, <1>2, <1>3, <2>1
  <2> HIDE DEF U
  <2>3. /\ SubSeq(w, 1, l) \in Seq(U) /\ Len(SubSeq(w, 1, l)) = l
        /\ \A j \in 1..l : SubSeq(w, 1, l)[j] = w[j]
    BY <1>3, <2>2, SubSeqProperties
  <2>4. /\ SubSeq(t, 1, l) \in Seq(U) /\ Len(SubSeq(t, 1, l)) = l
        /\ \A j \in 1..l : SubSeq(t, 1, l)[j] = t[j]
    BY <1>3, <2>2, SubSeqProperties
  <2> DEFINE a == SubSeq(w, 1, l)
             b == SubSeq(t, 1, l)
  <2>5. a \in Seq(U) /\ b \in Seq(U) /\ Len(a) = Len(b) /\ \A j \in 1..Len(a) : a[j] = b[j]
    BY <1>5, <2>3, <2>4
  <2> HIDE DEF a, b
  <2>6. a = b
    BY <2>5, SeqEqual
  <2> QED BY <2>1, <2>6 DEF IsPrefix, a, b
<1> QED BY <1>4, <1>5

\* The codes of a word are a prefix of what it matches.
LEMMA PrefixMatches ==
    ASSUME NEW word, IsSeq(word), NEW t, IsSeq(t)
    PROVE  IsPrefix([k \in DOMAIN word |-> Code(word[k])], t) <=> Matches(word, 0, t)
<1>1. PICK W : word \in Seq(W)
  BY DEF IsSeq
<1> DEFINE w == [k \in DOMAIN word |-> Code(word[k])]
           L == Len(word)
<1>2. L \in Nat /\ DOMAIN word = 1..L
  BY <1>1
<1>3. w \in Seq({Code(word[k]) : k \in 1..L}) /\ Len(w) = L /\ \A k \in 1..L : w[k] = Code(word[k])
  BY <1>2
<1> HIDE DEF w
<1>4. IsPrefix(w, t) <=> \A j \in 1..L : j <= Len(t) /\ t[j] = Code(word[j])
  <2>1. IsSeq(w)
    BY <1>3 DEF IsSeq
  <2> HIDE DEF L
  <2>2. IsPrefix(w, t) <=> \A j \in 1..Len(w) : j <= Len(t) /\ t[j] = w[j]
    BY <2>1, PrefixIs
  <2> QED BY <1>3, <2>2
<1>5. Matches(word, 0, t) <=> \A j \in 1..L : j <= Len(t) /\ t[j] = Code(word[j])
  BY <1>2 DEF Matches
<1> QED BY <1>4, <1>5 DEF w

\* What is seen from the first code on.
LEMMA SeenFirst ==
    ASSUME NEW t, IsSeq(t), NEW v
    PROVE  /\ IsSeq(Seen(t)[1])
           /\ Seen(<<v>> \o t)[1] = IF v \in {0, 10} THEN Seen(t)[1] ELSE <<Shown(v)>> \o Seen(t)[1]
<1> DEFINE more == <<v>> \o t
<1>1. Len(t) \in Nat /\ Len(more) = Len(t) + 1 /\ more[1] = v
  BY ConsIs
<1>2. Seen(more)[1 + 1] = Seen(t)[1]
  <2>1. 1 \in 1..(Len(t) + 1)
    BY <1>1
  <2> QED BY <2>1, SeenBehind
<1> HIDE DEF more
<1>3. Len(more) \in Nat /\ 1 \in 1..Len(more) /\ 1 \in 1..(Len(t) + 1)
  BY <1>1
<1>4. IsSeq(Seen(t)[1])
  BY <1>1, <1>3, SeenIs
<1>5. Seen(more)[1] = IF more[1] \in {0, 10} THEN Seen(more)[1 + 1]
                      ELSE <<Shown(more[1])>> \o Seen(more)[1 + 1]
  BY <1>3, SeenIs
<1>6. Seen(more)[1] = IF v \in {0, 10} THEN Seen(t)[1] ELSE <<Shown(v)>> \o Seen(t)[1]
  BY <1>1, <1>2, <1>5
<1> QED BY <1>4, <1>6 DEF more

\* What is seen of codes from the first on that is above 32.
Behind32(codes) ==
    LET first == SelectInSeq(codes, LAMBDA v : ~(v <= 32))
    IN  IF first = 0 THEN <<>> ELSE Seen(codes)[first]

\* The places of those codes.
Above(codes) == {i \in 1..Len(codes) : ~(codes[i] <= 32)}

\* The first of those places is the least one.
LEMMA Behind32Is ==
    \A codes : Behind32(codes) = IF Above(codes) = {} THEN <<>> ELSE Seen(codes)[Min(Above(codes))]
<1> SUFFICES ASSUME NEW codes
             PROVE  Behind32(codes) = IF Above(codes) = {} THEN <<>> ELSE Seen(codes)[Min(Above(codes))]
  OBVIOUS
<1> DEFINE first == SelectInSeq(codes, LAMBDA v : ~(v <= 32))
<1>1. first = IF Above(codes) # {} THEN Min(Above(codes)) ELSE 0
  BY DEF SelectInSeq, Above
<1>2. Behind32(codes) = IF first = 0 THEN <<>> ELSE Seen(codes)[first]
  BY DEF Behind32
<1> HIDE DEF first
<1>3. CASE Above(codes) = {}
  BY <1>1, <1>2, <1>3
<1>4. CASE Above(codes) # {}
  <2>1. \A i \in Above(codes) : i \in Nat /\ i # 0
    BY DEF Above
  <2>2. Min(Above(codes)) \in Above(codes)
    BY <1>4, <2>1, LeastOf
  <2> QED BY <1>1, <1>2, <1>4, <2>1, <2>2
<1> QED BY <1>3, <1>4

\* One more code in front: it is skipped, or all is seen from it on.
LEMMA Behind32Cons ==
    ASSUME NEW t, IsSeq(t), NEW v
    PROVE  /\ v <= 32 => Behind32(<<v>> \o t) = Behind32(t)
           /\ ~(v <= 32) => Behind32(<<v>> \o t) = Seen(<<v>> \o t)[1]
           /\ IsSeq(Behind32(t))
<1> DEFINE more == <<v>> \o t
           A == Above(t)
           B == Above(more)
<1>1. /\ Len(t) \in Nat /\ Len(more) = Len(t) + 1 /\ more[1] = v
      /\ \A k \in 1..Len(t) : more[k + 1] = t[k]
  BY ConsIs
<1>2. \A i \in 1..(Len(t) + 1) : Seen(more)[i + 1] = Seen(t)[i]
  BY SeenBehind
<1> HIDE DEF more
<1>3. \A i \in A : i \in Nat /\ i \in 1..Len(t) /\ i + 1 \in B
  BY <1>1 DEF Above
<1>4. \A i \in B : i \in Nat /\ i >= 1 /\ (i # 1 => i - 1 \in A)
  <2> TAKE i \in B
  <2>1. i \in 1..(Len(t) + 1) /\ ~(more[i] <= 32)
    BY <1>1 DEF Above
  <2>2. CASE i = 1
    BY <2>2
  <2>3. CASE i # 1
    <3> DEFINE k == i - 1
    <3>1. k \in 1..Len(t) /\ k + 1 = i
      BY <1>1, <2>1, <2>3
    <3> HIDE DEF k
    <3>2. ~(t[k] <= 32)
      BY <1>1, <2>1, <3>1
    <3>3. k \in A
      BY <3>1, <3>2 DEF Above
    <3> QED BY <2>1, <3>3 DEF k
  <2> QED BY <2>2, <2>3
<1>5. 1 \in B <=> ~(v <= 32)
  BY <1>1 DEF Above
<1> HIDE DEF A, B
<1>6. Behind32(t) = IF A = {} THEN <<>> ELSE Seen(t)[Min(A)]
  BY Behind32Is DEF A
<1>7. Behind32(more) = IF B = {} THEN <<>> ELSE Seen(more)[Min(B)]
  BY Behind32Is DEF B
<1>8. A # {} => Min(A) \in A /\ \A j \in A : Min(A) <= j
  BY <1>3, LeastOf
<1>9. B # {} => Min(B) \in B /\ \A j \in B : Min(B) <= j
  BY <1>4, LeastOf
<1>10. v <= 32 => Behind32(more) = Behind32(t)
  <2> SUFFICES ASSUME v <= 32 PROVE Behind32(more) = Behind32(t)
    OBVIOUS
  <2>1. CASE A = {}
    <3>1. B = {}
      BY <1>4, <1>5, <2>1
    <3> QED BY <1>6, <1>7, <2>1, <3>1
  <2>2. CASE A # {}
    <3>1. Min(A) \in A /\ Min(A) + 1 \in B /\ B # {} /\ Min(A) \in 1..Len(t)
      BY <1>3, <1>8, <2>2
    <3>2. Min(B) \in B /\ Min(B) # 1 /\ Min(B) - 1 \in A
      BY <1>4, <1>5, <1>9, <3>1
    <3>3. Min(B) \in Nat /\ Min(A) \in Nat /\ Min(B) <= Min(A) + 1 /\ Min(A) <= Min(B) - 1
      BY <1>3, <1>4, <1>8, <1>9, <3>1, <3>2
    <3>4. Min(B) = Min(A) + 1 /\ Min(A) \in 1..(Len(t) + 1)
      BY <1>1, <3>1, <3>3
    <3> QED BY <1>2, <1>6, <1>7, <2>2, <3>1, <3>4
  <2> QED BY <2>1, <2>2
<1>11. ~(v <= 32) => Behind32(more) = Seen(more)[1]
  <2> SUFFICES ASSUME ~(v <= 32) PROVE Behind32(more) = Seen(more)[1]
    OBVIOUS
  <2>1. 1 \in B /\ B # {} /\ Min(B) \in B /\ Min(B) <= 1
    BY <1>5, <1>9
  <2>2. Min(B) = 1
    BY <1>4, <2>1
  <2> QED BY <1>7, <2>1, <2>2
<1>12. IsSeq(Behind32(t))
  <2>1. CASE A = {}
    BY <1>6, <2>1, EmptyIs
  <2>2. CASE A # {}
    <3>1. Min(A) \in 1..(Len(t) + 1)
      BY <1>1, <1>3, <1>8, <2>2
    <3>2. IsSeq(Seen(t)[Min(A)])
      BY <1>1, <3>1, SeenIs
    <3> QED BY <1>6, <2>2, <3>2
  <2> QED BY <2>1, <2>2
<1> QED BY <1>10, <1>11, <1>12 DEF more

\* DecodedStart, character by character.
LEMMA StartIs ==
    ASSUME NEW word, IsSeq(word), NEW codes, IsSeq(codes)
    PROVE  DecodedStart(word, codes) <=> Matches(word, 0, Behind32(codes))
<1>1. DecodedStart(word, codes) <=> IsPrefix([k \in DOMAIN word |-> Code(word[k])], Behind32(codes))
  BY DEF DecodedStart, Behind32
<1>2. IsSeq(Behind32(codes))
  BY Behind32Cons
<1> HIDE DEF Behind32
<1> QED BY <1>1, <1>2, PrefixMatches

\* The loop compares the rest of the word with what is seen of the rest of the value.
LEMMA CompareMatches ==
    ASSUME NEW word, Len(word) \in Nat, NEW p, NEW n, InValue(p, n)
    PROVE  \A o \in 0..n : \A k \in 0..Len(word) :
              CompareFrom(word, p, n)[o][k] = Matches(word, k, Seen(DecodedFrom(p, n)[o])[1])
<1> DEFINE C == CompareFrom(word, p, n)
           f == DecodedFrom(p, n)
           L == Len(word)
           P == {o \in 0..n : \A k \in 0..L : C[o][k] = Matches(word, k, Seen(f[o])[1])}
           nxt == [o \in 0..(n - 1) |-> Behind(p, n, o)]
<1>1. /\ \A o \in 0..n : \A k \in 0..L : o = n \/ k = L => C[o][k] = (k = L)
      /\ \A o \in 0..(n - 1) : \A k \in 0..(L - 1) : C[o][k] =
            IF Val(p, n, o) \in {0, 10} THEN C[Behind(p, n, o)][k]
            ELSE Shown(Val(p, n, o)) = Code(word[k + 1]) /\ C[Behind(p, n, o)][k + 1]
  BY CompareIs
<1>2. /\ f[n] = <<>> /\ \A o \in 0..n : IsSeq(f[o])
      /\ \A o \in 0..(n - 1) : f[o] = <<Val(p, n, o)>> \o f[Behind(p, n, o)]
  BY DecodedIs
<1> HIDE DEF C, f
<1>3. n \in Nat /\ 0 \in Int /\ n \in Int /\ n \in 0..n /\ L \in Nat
  BY DEF InValue
<1>4. Later(0, n, nxt) /\ \A o \in 0..(n - 1) : nxt[o] = Behind(p, n, o)
  BY BehindIn DEF Later
<1>5. \A o \in 0..(n - 1) : o \in 0..n /\ Behind(p, n, o) \in 0..n
  BY <1>3, BehindIn
<1>6. n \in P
  <2>1. Seen(f[n])[1] = <<>>
    <3>1. Seen(<<>>)[Len(<<>>) + 1] = <<>>
      BY EmptyIs, SeenIs
    <3>2. Len(<<>>) + 1 = 1
      BY EmptyIs
    <3> QED BY <1>2, <3>1, <3>2
  <2>2. \A k \in 0..L : C[n][k] = Matches(word, k, <<>>)
    <3>1. \A k \in 0..L : Matches(word, k, <<>>) = (k = L)
      BY <1>3, MatchesEmpty DEF Matches
    <3> QED BY <1>1, <1>3, <3>1
  <2> QED BY <1>3, <2>1, <2>2
<1>7. ASSUME NEW o \in 0..(n - 1), nxt[o] \in P PROVE o \in P
  <2> DEFINE v == Val(p, n, o)
             b == Behind(p, n, o)
             t == f[b]
             S == Seen(t)[1]
  <2>1. \A k \in 0..L : C[b][k] = Matches(word, k, S)
    BY <1>4, <1>7
  <2>2. IsSeq(t) /\ f[o] = <<v>> \o t
    BY <1>2, <1>5
  <2> HIDE DEF t
  <2>3. /\ IsSeq(S) /\ Seen(f[o])[1] = IF v \in {0, 10} THEN S ELSE <<Shown(v)>> \o S
    BY <2>2, SeenFirst
  <2> HIDE DEF S, b, v
  <2>4. ASSUME NEW k \in 0..L PROVE C[o][k] = Matches(word, k, Seen(f[o])[1])
    <3>1. CASE k = L
      <4>1. Matches(word, k, Seen(f[o])[1])
        BY <1>3, <3>1, MatchesEnd
      <4>2. C[o][k] = (k = L)
        BY <1>1, <1>5, <3>1
      <4> QED BY <3>1, <4>1, <4>2 DEF Matches
    <3>2. CASE k # L
      <4>1. k \in 0..(L - 1) /\ k + 1 \in 0..L
        BY <1>3, <3>2
      <4>2. C[o][k] = IF v \in {0, 10} THEN C[b][k] ELSE Shown(v) = Code(word[k + 1]) /\ C[b][k + 1]
        BY <1>1, <4>1 DEF v, b
      <4>3. CASE v \in {0, 10}
        BY <2>1, <2>3, <4>1, <4>2, <4>3
      <4>4. CASE v \notin {0, 10}
        <5>1. Seen(f[o])[1] = <<Shown(v)>> \o S
          BY <2>3, <4>4
        <5>2. C[o][k] = (Shown(v) = Code(word[k + 1]) /\ Matches(word, k + 1, S))
          BY <2>1, <4>1, <4>2, <4>4
        <5>3. Matches(word, k, <<Shown(v)>> \o S) <=> Shown(v) = Code(word[k + 1]) /\ Matches(word, k + 1, S)
          BY <1>3, <2>3, <4>1, MatchesCons
        <5> QED BY <5>1, <5>2, <5>3 DEF Matches
      <4> QED BY <4>3, <4>4
    <3> QED BY <3>1, <3>2
  <2> QED BY <1>5, <2>4
<1> HIDE DEF P, nxt
<1>8. \A o \in 0..n : o \in P
  BY <1>3, <1>4, <1>6, <1>7, Descent
<1> QED BY <1>8 DEF P, C, f

\* htmlencode_startswith finds the word a decoded value starts with.
LEMMA WordFound ==
    ASSUME NEW word, IsSeq(word), NEW p, NEW n, InValue(p, n)
    PROVE  HtmlencodeStartswith(word, p, n) = DecodedStart(word, Decoded(p, n))
<1> DEFINE F == FirstFrom(word, p, n)
           C == CompareFrom(word, p, n)
           f == DecodedFrom(p, n)
           P == {o \in 0..n : F[o] = Matches(word, 0, Behind32(f[o]))}
           nxt == [o \in 0..(n - 1) |-> Behind(p, n, o)]
<1>0. Len(word) \in Nat
  BY DEF IsSeq
<1>1. /\ F[n] = C[n][0]
      /\ \A o \in 0..(n - 1) : F[o] = IF Val(p, n, o) <= 32 THEN F[Behind(p, n, o)] ELSE C[o][0]
  BY FirstIs
<1>2. /\ Decoded(p, n) = f[0] /\ f[n] = <<>> /\ \A o \in 0..n : IsSeq(f[o])
      /\ \A o \in 0..(n - 1) : f[o] = <<Val(p, n, o)>> \o f[Behind(p, n, o)]
  BY DecodedIs
<1>3. \A o \in 0..n : C[o][0] = Matches(word, 0, Seen(f[o])[1])
  BY <1>0, CompareMatches
<1> HIDE DEF F, C, f
<1>4. n \in Nat /\ 0 \in Int /\ n \in Int /\ n \in 0..n /\ 0 \in 0..n
  BY DEF InValue
<1>5. Later(0, n, nxt) /\ \A o \in 0..(n - 1) : nxt[o] = Behind(p, n, o)
  BY BehindIn DEF Later
<1>6. \A o \in 0..(n - 1) : o \in 0..n /\ Behind(p, n, o) \in 0..n
  BY <1>4, BehindIn
<1>7. n \in P
  <2>1. Seen(f[n])[1] = <<>>
    <3>1. Seen(<<>>)[Len(<<>>) + 1] = <<>>
      BY EmptyIs, SeenIs
    <3>2. Len(<<>>) + 1 = 1
      BY EmptyIs
    <3> QED BY <1>2, <3>1, <3>2
  <2>2. Behind32(<<>>) = <<>>
    <3>1. Above(<<>>) = {}
      BY EmptyIs DEF Above
    <3> QED BY <3>1, Behind32Is
  <2> QED BY <1>1, <1>2, <1>3, <1>4, <2>1, <2>2
<1>8. ASSUME NEW o \in 0..(n - 1), nxt[o] \in P PROVE o \in P
  <2> DEFINE v == Val(p, n, o)
             b == Behind(p, n, o)
             t == f[b]
  <2>1. F[b] = Matches(word, 0, Behind32(t))
    BY <1>5, <1>8
  <2>2. IsSeq(t) /\ f[o] = <<v>> \o t
    BY <1>2, <1>6
  <2>3. F[o] = IF v <= 32 THEN F[b] ELSE C[o][0]
    BY <1>1
  <2> HIDE DEF t, b, v
  <2>4. /\ v <= 32 => Behind32(f[o]) = Behind32(t)
        /\ ~(v <= 32) => Behind32(f[o]) = Seen(f[o])[1]
    BY <2>2, Behind32Cons
  <2>5. F[o] = Matches(word, 0, Behind32(f[o]))
    BY <1>3, <1>6, <2>1, <2>3, <2>4
  <2> QED BY <1>6, <2>5
<1> HIDE DEF P, nxt
<1>9. \A o \in 0..n : o \in P
  BY <1>4, <1>5, <1>7, <1>8, Descent
<1>10. F[0] = Matches(word, 0, Behind32(f[0]))
  BY <1>4, <1>9 DEF P
<1>11. DecodedStart(word, f[0]) = Matches(word, 0, Behind32(f[0]))
  BY <1>2, <1>4, StartIs DEF DecodedStart, Matches, IsPrefix
<1> QED BY <1>2, <1>10, <1>11, StartswithIs DEF F

-----------------------------------------------------------------------------
(* The URLs of the values.                                                *)

\* A value is decoded within its bounds, and htmlencode_startswith finds the words that
\* begin it.
THEOREM UrlsFound == Spec => []UrlStartsRight
<1>1. IInv => UrlStartsRight
  <2> SUFFICES ASSUME IInv, h5.more, h5.token_type = "ATTR_VALUE"
               PROVE  /\ \A o \in 0..h5.token_len - 1 :
                            HtmlDecodeCharAt(h5.token_start + o, h5.token_len - o).consumed
                                <= h5.token_len - o
                      /\ \A w \in UrlWords :
                            HtmlencodeStartswith(w, h5.token_start, h5.token_len)
                                = DecodedStart(w, Decoded(h5.token_start, h5.token_len))
    BY DEF UrlStartsRight
  <2> DEFINE p == h5.token_start
             n == h5.token_len
  <2>1. Len(s) \in Nat /\ p \in Nat /\ n \in Nat
    BY TextOf DEF IInv, InText, Tokenizers
  <2>2. At(s, p + n) \in Enders
    BY DEF IInv, EndsValue
  <2> HIDE DEF p, n
  <2>3. InValue(p, n)
    BY <2>1, <2>2 DEF InValue
  <2>4. ASSUME NEW o \in 0..n - 1 PROVE HtmlDecodeCharAt(p + o, n - o).consumed <= n - o
    <3>1. p + o \in Nat /\ n - o \in Nat /\ n - o > 0 /\ (p + o) + (n - o) = p + n
      BY <2>1
    <3>2. HtmlDecodeCharAt(p + o, n - o).consumed \in 1..(n - o)
      BY <2>1, <2>2, <3>1, DecodeIn
    <3> QED BY <3>1, <3>2
  <2>5. ASSUME NEW w \in UrlWords PROVE HtmlencodeStartswith(w, p, n) = DecodedStart(w, Decoded(p, n))
    <3> DEFINE W == {"A", "B", "C", "D", "E", "I", "J", "O", "P", "R", "S", "T", "U", "V", "W", "-"}
    <3>1. w \in Seq(W)
      <4>1. <<"D", "A", "T", "A">> \in Seq(W) /\ <<"J", "A", "V", "A">> \in Seq(W)
        OBVIOUS
      <4>2. <<"V", "B", "S", "C", "R", "I", "P", "T">> \in Seq(W)
        OBVIOUS
      <4>3. <<"V", "I", "E", "W", "-", "S", "O", "U", "R", "C", "E">> \in Seq(W)
        OBVIOUS
      <4> HIDE DEF W
      <4> QED BY <4>1, <4>2, <4>3 DEF UrlWords
    <3>2. IsSeq(w)
      BY <3>1 DEF IsSeq
    <3> QED BY <2>3, <3>2, WordFound
  <2> QED BY <2>4, <2>5 DEF p, n
<1> QED BY <1>1, Invariance, PTL
=============================================================================
