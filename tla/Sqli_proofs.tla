---------------------------- MODULE Sqli_proofs ----------------------------
(* For every text of Inputs, fold works inside tokenvec, what it keeps there *)
(* are tokens of the text, and they stand in the order of the text.          *)
(*                                                                           *)
(* The window holds whatever tokenize returns: the rules differ in how far   *)
(* they take left and pos back, so each set of rules is shown to keep it     *)
(* (OutcomeOK) where at least two or three tokens are in it, and the steps   *)
(* follow.  For the tokens each parser is shown to return one between where  *)
(* it started and where it stops (ReadOK), and each rule to leave only       *)
(* tokens of the window, in their order (KeptOK).  Where strings end: the    *)
(* search for the closing quote finds the first odd run of free delimiters   *)
(* (ClosingIs), each parser returns a string that ends there or none         *)
(* (ClosesRight), and no rule leaves one that does not (ClosedInv).          *)
EXTENDS Sqli, SequenceTheorems, WellFoundedInduction, TLAPS, FiniteSetTheorems

\* What a rule may leave behind: a window that fold goes on with.
OutcomeOK(o) ==
    /\ o.left \in Nat /\ o.pos \in Nat /\ o.pos <= MaxTokens + 1 /\ o.left <= o.pos
    /\ o.goto \in {"five", "two", "three", "fingerprint"}

\* The window is inductive with where the other steps leave it: it is empty at
\* the start, and closed when fold is done.
IInv == /\ Window
        /\ pc = "skip" => left = 0 /\ pos = 0
        /\ pc = "finish" => left <= pos

\* The window in the loop of fold, with n tokens in it.
Holds(n) == left \in Nat /\ pos \in Nat /\ pos <= MaxTokens + 1 /\ left + n <= pos

-----------------------------------------------------------------------------
(* The rules.                                                              *)

\* An outcome is its window.
LEMMA OutcomeOf ==
    ASSUME NEW tokens, NEW l \in Nat, NEW p \in Nat, l <= p, p <= MaxTokens + 1,
           NEW goto \in {"five", "two", "three", "fingerprint"}
    PROVE  OutcomeOK(Outcome(tokens, l, p, goto))
  BY DEF OutcomeOK, Outcome

\* The rules that drop, retype or replace a token keep the window.
LEMMA BasicOK ==
    ASSUME Holds(2)
    PROVE  /\ OutcomeOK(Drop(1)) /\ OutcomeOK(Drop(2))
           /\ \A i, type : OutcomeOK(Retype(i, type))
           /\ \A i : OutcomeOK(Replace(i))
  BY OutcomeOf DEF Holds, Drop, Retype, Replace, MaxTokens

\* A rule that merges two tokens keeps the window.
LEMMA MergeOK ==
    ASSUME NEW a, NEW b, NEW otherwise, Holds(2), OutcomeOK(otherwise)
    PROVE  OutcomeOK(MergeRules(a, b, otherwise))
<1>1. /\ left + 2 \in Nat /\ left + 2 <= pos /\ pos <= MaxTokens + 1 /\ pos \in Nat /\ left \in Nat
      /\ pos - 1 \in Nat /\ left <= pos - 1 /\ pos - 1 <= MaxTokens + 1
      /\ StepBack \in Nat /\ StepBack <= pos - 1
  BY DEF Holds, StepBack, MaxTokens
<1>2. \A tokens : /\ OutcomeOK(Outcome(tokens, left, pos - 1, "five"))
                  /\ OutcomeOK(Outcome(tokens, left + 2, pos, "five"))
                  /\ OutcomeOK(Outcome(tokens, StepBack, pos - 1, "five"))
  BY <1>1, OutcomeOf
<1> QED
  BY <1>2, BasicOK DEF MergeRules

\* A rule that changes the type of a word keeps the window.
LEMMA RetypeOK ==
    ASSUME NEW a, NEW b, NEW otherwise, Holds(2), OutcomeOK(otherwise)
    PROVE  OutcomeOK(RetypeRules(a, b, otherwise))
<1>1. \A tokens : OutcomeOK(Outcome(tokens, left, pos, "three"))
  BY OutcomeOf DEF Holds, MaxTokens
<1> QED
  BY <1>1, BasicOK DEF RetypeRules

\* A rule that leaves tokens out keeps the window.
LEMMA LeaveOutOK ==
    ASSUME NEW a, NEW b, NEW otherwise, Holds(2), OutcomeOK(otherwise)
    PROVE  OutcomeOK(DropRules(a, b, otherwise))
<1>1. \A tokens : /\ OutcomeOK(Outcome(tokens, 0, pos, "three"))
                  /\ OutcomeOK(Outcome(tokens, 0, pos, "five"))
                  /\ OutcomeOK(Outcome(tokens, left + 2, pos, "fingerprint"))
  BY OutcomeOf DEF Holds, MaxTokens
<1> QED
  BY <1>1, BasicOK DEF DropRules

\* A rule about three tokens keeps the window.
LEMMA ThreeOK ==
    ASSUME NEW a, NEW b, NEW c, NEW otherwise, Holds(3), OutcomeOK(otherwise)
    PROVE  OutcomeOK(ThreeTokenRules(a, b, c, otherwise))
<1>1. Holds(2)
  BY DEF Holds, MaxTokens
<1>2. \A tokens : /\ OutcomeOK(Outcome(tokens, 0, pos - 3, "five"))
                  /\ OutcomeOK(Outcome(tokens, left + 1, pos, "five"))
  BY OutcomeOf DEF Holds, MaxTokens
<1> QED
  BY <1>1, <1>2, BasicOK DEF ThreeTokenRules

-----------------------------------------------------------------------------
(* The steps.                                                              *)

\* A step that takes over the outcome of a rule.
LEMMA FoldKeeps ==
    ASSUME NEW outcome, OutcomeOK(outcome), Fold(outcome)
    PROVE  IInv'
  BY DEF Fold, OutcomeOK, IInv, Window, MaxTokens

\* A token that is read is put inside tokenvec.
LEMMA FetchKeeps ==
    ASSUME NEW n \in 2..3, IInv, pc \in {"two", "three"}, Fetch(n)
    PROVE  IInv' /\ pos \in 0..MaxTokens
  BY DEF Fetch, Wanted, IInv, Window, MaxTokens

\* When fewer tokens are left than a rule needs, they are done with.
LEMMA SettleKeeps ==
    ASSUME NEW n \in 2..3, IInv, pc \in {"two", "three"}, Settle(n)
    PROVE  IInv'
<1>1. OutcomeOK(Outcome(vec, pos, pos, "five"))
  BY OutcomeOf DEF IInv, Window, MaxTokens
<1> QED
  BY <1>1, FoldKeeps DEF Settle

\* A rule on two tokens.
LEMMA FoldTwoKeeps == IInv /\ FoldTwo => IInv'
<1> SUFFICES ASSUME IInv, FoldTwo PROVE IInv'
  OBVIOUS
<1> DEFINE a == vec[left]
           b == vec[left + 1]
           none == Outcome(vec, left, pos, "three")
<1>1. Holds(2)
  BY DEF FoldTwo, IInv, Window, Holds
<1>2. OutcomeOK(none)
  BY <1>1, OutcomeOf DEF Holds, MaxTokens
<1> HIDE DEF a, b, none
<1>3. OutcomeOK(MergeRules(a, b, RetypeRules(a, b, DropRules(a, b, none))))
  BY <1>1, <1>2, MergeOK, RetypeOK, LeaveOutOK
<1>4. Fold(MergeRules(a, b, RetypeRules(a, b, DropRules(a, b, none))))
  BY DEF FoldTwo, a, b, none
<1> QED
  BY <1>3, <1>4, FoldKeeps

\* A rule on three tokens.
LEMMA FoldThreeKeeps == IInv /\ FoldThree => IInv'
<1> SUFFICES ASSUME IInv, FoldThree PROVE IInv'
  OBVIOUS
<1>1. Holds(3)
  BY DEF FoldThree, IInv, Window, Holds
<1>2. OutcomeOK(Outcome(vec, left + 1, pos, "five"))
  BY <1>1, OutcomeOf DEF Holds, MaxTokens
<1> DEFINE outcome == ThreeTokenRules(vec[left], vec[left + 1], vec[left + 2],
                                      Outcome(vec, left + 1, pos, "five"))
<1>3. OutcomeOK(outcome)
  BY <1>1, <1>2, ThreeOK
<1>4. Fold(outcome)
  BY DEF FoldThree
<1> HIDE DEF outcome
<1> QED
  BY <1>3, <1>4, FoldKeeps

\* The comment that is added at the end fits.
LEMMA FinishKeeps == IInv /\ Finish => IInv'
<1> SUFFICES ASSUME IInv, Finish PROVE IInv'
  OBVIOUS
<1>1. ASSUME NEW k \in Nat, k <= MaxTokens + 1
      PROVE  Min({MaxTokens, k}) \in Nat /\ Min({MaxTokens, k}) <= k
  <2>1. \E x \in {MaxTokens, k} : \A y \in {MaxTokens, k} : x <= y
    BY <1>1 DEF MaxTokens
  <2> QED
    BY <1>1, <2>1 DEF Min, MaxTokens
<1>2. left \in Nat /\ pos \in Nat /\ pos <= MaxTokens + 1 /\ left <= pos
  BY DEF Finish, IInv, Window
<1>3. left' \in Nat /\ left' <= pos + 1 /\ pos' = pos /\ pc' = "fingerprint"
  <2> DEFINE comment == left < MaxTokens /\ last_comment.type = "c"
             k == IF comment THEN left + 1 ELSE left
  <2>1. k \in Nat /\ k <= MaxTokens + 1 /\ k <= pos + 1
    BY <1>2 DEF MaxTokens
  <2>2. left' = Min({MaxTokens, k}) /\ pos' = pos /\ pc' = "fingerprint"
    BY DEF Finish
  <2> HIDE DEF k
  <2>3. Min({MaxTokens, k}) \in Nat /\ Min({MaxTokens, k}) <= k
    BY <1>1, <2>1
  <2> QED
    BY <1>2, <2>1, <2>2, <2>3
<1> QED
  BY <1>2, <1>3 DEF IInv, Window

\* The steps that apply no rule.
LEMMA OthersKeep == IInv /\ (Skip \/ FoldFive \/ Fingerprint \/ Check) => IInv'
<1> SUFFICES ASSUME IInv PROVE Skip \/ FoldFive \/ Fingerprint \/ Check => IInv'
  OBVIOUS
<1>1. CASE Skip
  BY <1>1 DEF Skip, IInv, Window, MaxTokens
<1>2. CASE FoldFive
  BY <1>2 DEF FoldFive, IInv, Window, MaxTokens
<1>3. CASE Fingerprint
  BY <1>3 DEF Fingerprint, IInv, Window
<1>4. CASE Check
  BY <1>4 DEF Check, foldVars, IInv, Window, MaxTokens
<1> QED
  BY <1>1, <1>2, <1>3, <1>4

\* The window of fold stays inside tokenvec, for all texts and whatever tokens
\* tokenize returns (fold).
THEOREM WindowKept == Spec => []Window
<1>1. Init => IInv
  <2> SUFFICES ASSUME Init PROVE IInv
    OBVIOUS
  <2>1. left = 0 /\ pos = 0
    BY Zenon DEF Init
  <2>2. pc = "done" \/ pc = "skip"
    <3>1. pc = IF s = <<>> THEN "done" ELSE "skip"
      BY Zenon DEF Init
    <3> QED
      BY <3>1
  <2> QED
    BY <2>1, <2>2 DEF IInv, Window, MaxTokens
<1>2. IInv /\ [Next]_vars => IInv'
  <2> SUFFICES ASSUME IInv, [Next]_vars PROVE IInv'
    OBVIOUS
  <2>1. CASE FetchTwo \/ FetchThree
    BY <2>1, FetchKeeps DEF FetchTwo, FetchThree
  <2>2. CASE SettleTwo \/ SettleThree
    BY <2>2, SettleKeeps DEF SettleTwo, SettleThree
  <2>3. CASE UNCHANGED vars
    BY <2>3 DEF vars, IInv, Window
  <2> QED
    BY <2>1, <2>2, <2>3, FoldTwoKeeps, FoldThreeKeeps, FinishKeeps, OthersKeep DEF Next
<1>3. IInv => Window
  BY DEF IInv
<1> QED
  BY <1>1, <1>2, <1>3, PTL DEF Spec

-----------------------------------------------------------------------------
(* Characters.                                                             *)

\* A letter is a small or a capital one, and any other character is its own
\* capital.
LEMMA CapitalIs ==
    \A c : \/ Upper(c) = c /\ c \notin DOMAIN CapitalOf
           \/ c \in DOMAIN CapitalOf /\ Upper(c) \in Capitals
<1>1. \A c \in DOMAIN CapitalOf : CapitalOf[c] \in Capitals
  <2>1. Capitals = {"A","B","C","D","E","F","G","H","I","J","K","L","M",
                    "N","O","P","Q","R","S","T","U","V","W","X","Y","Z"}
    BY DEF Capitals, ToSet, CapitalLetters
  <2> QED BY <2>1 DEF CapitalOf
<1> QED BY <1>1 DEF Upper

\* What the parsers compare is no letter.
Signs == {"(", ")", ",", ";", "{", "}", "_", "$", ".", "'", "\"", "[", "\\", "#", "-", "/", "@"}
    \union Digits \union Blanks \union {TICK, HIGH} \union AsciiParsers["operator1"] \union AsciiParsers["operator2"]
    \union AsciiParsers["other"]

\* No sign is a letter, so none is changed by Upper.
LEMMA SignsAreNone == Signs \cap Letters = {} /\ Signs \cap Capitals = {} /\ Signs \cap DOMAIN CapitalOf = {}
<1>1. Capitals = {"A","B","C","D","E","F","G","H","I","J","K","L","M",
                    "N","O","P","Q","R","S","T","U","V","W","X","Y","Z"}
    BY DEF Capitals, ToSet, CapitalLetters
<1>2. Letters = Capitals \union {"a","b","c","d","e","f","g","h","i","j","k","l","m",
                    "n","o","p","q","r","s","t","u","v","w","x","y","z"}
    BY DEF Letters, ToSet, SmallLetters
<1> QED BY <1>1, <1>2 DEF Signs, Digits, Blanks, AsciiParsers, CapitalOf, NUL, CTRL, NBSP, TICK, HIGH

-----------------------------------------------------------------------------
(* Looking for a character or a word in the text.                          *)

\* A set of numbers has a least one.
LEMMA LeastOf ==
    ASSUME NEW S \in SUBSET Nat, S # {}
    PROVE  Min(S) \in S /\ \A j \in S : Min(S) <= j
<1> DEFINE R == OpToRel(<, Nat)
<1>1. IsWellFoundedOn(R, Nat)
  BY NatLessThanWellFounded
<1> HIDE DEF R
<1>2. PICK k \in S : \A j \in S : ~(<<j, k>> \in R)
  BY <1>1, WFMin
<1>3. ASSUME NEW j \in S PROVE k <= j
  <2>1. j < k => <<j, k>> \in R
    BY DEF R, OpToRel
  <2> QED BY <2>1, <1>2
<1> QED BY <1>3 DEF Min

\* First: the position it finds, which is the end when there is none.
LEMMA FirstIn ==
    ASSUME NEW u, Len(u) \in Nat, NEW p \in 0..Len(u), NEW chars
    PROVE  LET q == First(u, chars, p)
           IN  /\ q \in p..Len(u)
               /\ q < Len(u) => At(u, q) \in chars
               /\ \A k \in p..(q - 1) : At(u, k) \notin chars
<1> DEFINE I == {i \in (p + 1)..Len(u) : u[i] \in chars}
           k == IF I # {} THEN Min(I) ELSE 0
<1>1. First(u, chars, p) = IF k = 0 THEN Len(u) ELSE k - 1
  BY DEF First, SelectInSubSeq
<1>2. I # {} => Min(I) \in I /\ \A j \in I : Min(I) <= j
  BY LeastOf
<1>3. CASE I = {}
  <2>1. First(u, chars, p) = Len(u)
    BY <1>1, <1>3
  <2>2. \A j \in p..(Len(u) - 1) : At(u, j) \notin chars
    BY <1>3 DEF At
  <2> QED BY <2>1, <2>2
<1>4. CASE I # {}
  <2> DEFINE m == Min(I)
  <2>0. m \in I /\ \A j \in I : m <= j
    BY <1>2, <1>4
  <2>1. m \in (p + 1)..Len(u) /\ u[m] \in chars
    BY <2>0
  <2> HIDE DEF m
  <2>2. First(u, chars, p) = m - 1
    BY <1>1, <1>4, <2>1 DEF m
  <2>3. \A j \in p..(m - 2) : At(u, j) \notin chars
    BY <2>0, <2>1 DEF At
  <2>4. m - 1 < Len(u) /\ At(u, m - 1) \in chars
    BY <2>1 DEF At
  <2> QED BY <2>1, <2>2, <2>3, <2>4
<1> QED BY <1>3, <1>4

\* Span: where the characters of the set end.
LEMMA SpanIn ==
    ASSUME NEW u, Len(u) \in Nat, NEW p \in 0..Len(u), NEW chars
    PROVE  LET q == Span(u, p, chars)
           IN  /\ q \in p..Len(u)
               /\ q < Len(u) => At(u, q) \notin chars
               /\ \A k \in p..(q - 1) : At(u, k) \in chars
<1> DEFINE I == {i \in (p + 1)..Len(u) : u[i] \notin chars}
           k == IF I # {} THEN Min(I) ELSE 0
<1>1. Span(u, p, chars) = IF k = 0 THEN Len(u) ELSE k - 1
  BY DEF Span, SelectInSubSeq
<1>2. I # {} => Min(I) \in I /\ \A j \in I : Min(I) <= j
  BY LeastOf
<1>3. CASE I = {}
  <2>1. Span(u, p, chars) = Len(u)
    BY <1>1, <1>3
  <2>2. \A j \in p..(Len(u) - 1) : At(u, j) \in chars
    BY <1>3 DEF At
  <2> QED BY <2>1, <2>2
<1>4. CASE I # {}
  <2> DEFINE m == Min(I)
  <2>0. m \in I /\ \A j \in I : m <= j
    BY <1>2, <1>4
  <2>1. m \in (p + 1)..Len(u) /\ u[m] \notin chars
    BY <2>0
  <2> HIDE DEF m
  <2>2. Span(u, p, chars) = m - 1
    BY <1>1, <1>4, <2>1 DEF m
  <2>3. \A j \in p..(m - 2) : At(u, j) \in chars
    BY <2>0, <2>1 DEF At
  <2>4. m - 1 < Len(u) /\ At(u, m - 1) \notin chars
    BY <2>1 DEF At
  <2> QED BY <2>1, <2>2, <2>3, <2>4
<1> QED BY <1>3, <1>4

\* strlenspn: the same, past NULs as well.
LEMMA AcceptedIn ==
    ASSUME NEW u, Len(u) \in Nat, NEW p \in 0..Len(u), NEW accept
    PROVE  strlenspn(u, p, accept) \in p..Len(u)
  BY SpanIn DEF strlenspn

\* FirstWord: where it finds a word, the word is.
LEMMA FirstWordIn ==
    ASSUME NEW u, Len(u) \in Nat, NEW p \in Nat, NEW words
    PROVE  LET q == FirstWord(u, words, p)
           IN  \/ q = -1
               \/ q \in p..(Len(u) - 1) /\ \E w \in words : WordAt(u, q, Len(w)) = w
<1> DEFINE begins(k) == \E w \in words : WordAt(u, k - 1, Len(w)) = w
           f == [k \in 1..Len(u) |-> k > p /\ begins(k)]
           I == {i \in 1..Len(f) : f[i]}
<1>1. FirstWord(u, words, p) = (IF I # {} THEN Min(I) ELSE 0) - 1
  BY DEF FirstWord, SelectInSeq
<1>2. Len(f) = Len(u)
  <2>1. f \in [1..Len(u) -> BOOLEAN]
    OBVIOUS
  <2> HIDE DEF f
  <2>2. f \in Seq(BOOLEAN) /\ DOMAIN f = 1..Len(u)
    BY <2>1
  <2>3. DOMAIN f = 1..Len(f) /\ Len(f) \in Nat
    BY <2>2, LenProperties
  <2> QED BY <2>2, <2>3
<1>0. I \in SUBSET Nat
  OBVIOUS
<1>3. CASE I = {}
  <2> HIDE DEF I
  <2>1. FirstWord(u, words, p) = 0 - 1
    BY <1>1, <1>3
  <2>2. FirstWord(u, words, p) = -1
    BY <2>1
  <2> QED BY <2>2
<1>4. CASE I # {}
  <2> DEFINE m == Min(I)
  <2>1. m \in I
    BY <1>0, <1>4, LeastOf
  <2>2. m \in 1..Len(u) /\ m > p /\ begins(m)
    BY <2>1, <1>2
  <2> HIDE DEF m, f
  <2>3. FirstWord(u, words, p) = m - 1
    BY <1>1, <1>4 DEF m
  <2> QED BY <2>2, <2>3
<1> QED BY <1>3, <1>4

-----------------------------------------------------------------------------
(* A token, and what a parser returns.                                     *)

\* A token that the tokenizer makes (struct libinjection_sqli_token).
IsToken(t) ==
    t \in [type : TokenTypes, pos : Nat, len : 0..MaxVal, val : {t.val},
           str_open : {t.str_open}, str_close : {t.str_close}]

\* What a parser returns that reads the text u from p on.
ReadOK(u, p, r) ==
    /\ r \in [current : {r.current}, pos : (p + 1)..Len(u), ddx : Nat, hash : Nat]
    /\ IsToken(r.current) /\ r.current.pos \in p..Len(u)
    /\ r.current.pos + r.current.len <= r.pos

\* is_keyword answers with the type of a word, or with none.
LEMMA KeywordType == \A word : is_keyword(word) \in WordTypes \union {NONE}
<1> TAKE word
<1> DEFINE types == {p \in (1..Len(sql_keywords)) \X WordTypes :
                     p[2] \in DOMAIN sql_keywords[p[1]] /\ word \in sql_keywords[p[1]][p[2]]}
<1>1. is_keyword(word) = IF types = {} THEN NONE ELSE (CHOOSE p \in types : TRUE)[2]
  BY DEF is_keyword
<1>2. \A q \in types : q[2] \in WordTypes
  OBVIOUS
<1> HIDE DEF types
<1>3. types # {} => (CHOOSE p \in types : TRUE) \in types
  OBVIOUS
<1> QED BY <1>1, <1>2, <1>3

\* st_assign makes a token where it is told to, no longer than it is told.
LEMMA AssignIs ==
    ASSUME NEW type \in TokenTypes, NEW u, NEW p \in Nat, NEW n \in Nat
    PROVE  LET t == st_assign(type, u, p, n)
           IN  IsToken(t) /\ t.type = type /\ t.pos = p /\ t.len <= n
<1> DEFINE l == IF n > MaxVal THEN MaxVal ELSE n
           v == String(u, p, l)
<1>1. st_assign(type, u, p, n) = [st_clear EXCEPT !.type = type, !.pos = p, !.len = l, !.val = v]
  BY DEF st_assign
<1>2. l \in 0..MaxVal /\ l <= n
  BY DEF MaxVal
<1> HIDE DEF l, v
<1>3. st_assign(type, u, p, n) =
        [type |-> type, pos |-> p, len |-> l, val |-> v, str_open |-> NONE, str_close |-> NONE]
  BY <1>1 DEF st_clear
<1> HIDE DEF st_assign
<1> QED BY <1>2, <1>3 DEF IsToken

\* The numbers of a token.
LEMMA TokenFacts ==
    \A t : IsToken(t) => t.type \in TokenTypes /\ t.pos \in Nat /\ t.len \in Nat /\ t.len <= MaxVal
  BY DEF IsToken, MaxVal

\* A token that is all of the text a parser went over.
LEMMA WholeOK ==
    ASSUME NEW u, Len(u) \in Nat, NEW type \in TokenTypes, NEW p \in Nat,
           NEW q \in p..Len(u), NEW next \in q..Len(u), next > p
    PROVE  ReadOK(u, p, Whole(type, u, q, next))
<1> DEFINE t == st_assign(type, u, q, next - q)
<1>0. next - q \in Nat /\ q \in Nat
  OBVIOUS
<1>1. IsToken(t) /\ t.pos = q /\ t.len <= next - q
  BY <1>0, AssignIs
<1>2. Whole(type, u, q, next) = [current |-> t, pos |-> next, ddx |-> 0, hash |-> 0]
  BY DEF Whole, Result
<1> HIDE DEF t
<1>3. t.len \in Nat
  BY <1>1, TokenFacts
<1>4. ReadOK(u, p, [current |-> t, pos |-> next, ddx |-> 0, hash |-> 0])
  BY <1>1, <1>3 DEF ReadOK
<1> QED BY <1>2, <1>4

-----------------------------------------------------------------------------
(* The parsers of signs, operators and comments.                           *)

\* Where a parser is called: at a character of the text.
Place(u, p) == u \in Seq(Char) /\ Len(u) \in Nat /\ p \in 0..(Len(u) - 1)

\* The types that the parsers name are types of tokens.
LEMMA Types ==
    /\ WordTypes \subseteq TokenTypes
    /\ {"s", "c", ".", ":", "?", "X", "\\", "o", "1", "n", "v", "f"} \subseteq TokenTypes
    /\ AsciiParsers["char"] \subseteq TokenTypes
    /\ NONE \notin TokenTypes
  BY DEF TokenTypes, WordTypes, AsciiParsers, NONE

\* A character other than the NUL is inside the text.
LEMMA AtInside == \A u, q : At(u, q) # NUL => q < Len(u)
  BY DEF At

\* A word that is found ends in the text.
LEMMA WordFits ==
    ASSUME NEW u \in Seq(Char), NEW q \in 0..Len(u), NEW n \in Nat, Len(WordAt(u, q, n)) = n
    PROVE  q + n <= Len(u)
<1>1. Len(u) \in Nat
  BY LenProperties
<1>2. CASE q + n < Len(u)
  BY <1>1, <1>2
<1>3. CASE ~(q + n < Len(u))
  <2>1. WordAt(u, q, n) = SubSeq(u, q + 1, Len(u))
    BY <1>3 DEF WordAt
  <2>2. Len(SubSeq(u, q + 1, Len(u))) = IF q + 1 <= Len(u) THEN Len(u) - (q + 1) + 1 ELSE 0
    BY <1>1, SubSeqProperties
  <2> QED BY <1>1, <2>1, <2>2
<1> QED BY <1>2, <1>3

\* Where a word of two characters is found.
LEMMA PairFits ==
    ASSUME NEW u \in Seq(Char), NEW p \in Nat, NEW c, NEW d
    PROVE  LET q == FirstWord(u, {<<c, d>>}, p)
           IN  q = -1 \/ q \in p..(Len(u) - 2)
<1> DEFINE words == {<<c, d>>}
           q == FirstWord(u, words, p)
<1>1. Len(u) \in Nat
  BY LenProperties
<1> HIDE DEF words
<1>a. q = -1 \/ (q \in p..(Len(u) - 1) /\ \E w \in words : WordAt(u, q, Len(w)) = w)
  BY <1>1, FirstWordIn
<1> HIDE DEF q
<1>2. q = -1 \/ (q \in p..(Len(u) - 1) /\ WordAt(u, q, Len(<<c, d>>)) = <<c, d>>)
  BY <1>a DEF words
<1>3. ASSUME q \in p..(Len(u) - 1), WordAt(u, q, Len(<<c, d>>)) = <<c, d>> PROVE q + 2 <= Len(u)
  <2>1. Len(<<c, d>>) = 2
    OBVIOUS
  <2>2. Len(WordAt(u, q, 2)) = 2 /\ q \in 0..Len(u)
    BY <1>1, <1>3, <2>1
  <2> QED BY <2>2, WordFits
<1>4. q = -1 \/ q \in p..(Len(u) - 2)
  BY <1>1, <1>2, <1>3
<1> QED BY <1>4 DEF q, words

\* parse_one moves on by the character it reads.
LEMMA OneOK ==
    ASSUME NEW u, NEW p, Place(u, p)
    PROVE  \A type \in TokenTypes : ReadOK(u, p, parse_one(type, u, p))
  BY WholeOK DEF parse_one, Place

\* What a parser counts leaves its token alone.
LEMMA CountOK ==
    ASSUME NEW u, NEW p, NEW r, ReadOK(u, p, r), NEW n \in Nat
    PROVE  ReadOK(u, p, [r EXCEPT !.ddx = n]) /\ ReadOK(u, p, [r EXCEPT !.hash = n])
  BY DEF ReadOK

\* So does the type a parser gives its token afterwards, for the place of the token.
LEMMA TypedOK ==
    ASSUME NEW u, NEW p, NEW r, ReadOK(u, p, r), NEW type \in TokenTypes
    PROVE  ReadOK(u, p, [r EXCEPT !.current.type = type])
<1> DEFINE t == [r.current EXCEPT !.type = type]
<1>1. IsToken(t) /\ t.pos = r.current.pos /\ t.len = r.current.len
  BY DEF ReadOK, IsToken
<1>2. [r EXCEPT !.current.type = type] = [r EXCEPT !.current = t]
  BY DEF ReadOK
<1> HIDE DEF t
<1> QED BY <1>1, <1>2 DEF ReadOK

\* A comment to the end of the line, and one that is closed or runs to the end.
LEMMA CommentOK ==
    ASSUME NEW u, NEW p, Place(u, p)
    PROVE  ReadOK(u, p, parse_eol_comment(u, p))
<1> DEFINE e == First(u, {"\n"}, p)
           next == IF e = Len(u) THEN e ELSE e + 1
           t == st_assign("c", u, p, e - p)
<1>1. e \in p..Len(u)
  BY FirstIn DEF Place
<1> HIDE DEF e
<1>2. IsToken(t) /\ t.pos = p /\ t.len <= e - p
  BY <1>1, AssignIs, Types DEF Place
<1> HIDE DEF t
<1>3. next \in (p + 1)..Len(u) /\ e <= next
  BY <1>1 DEF Place
<1>4. parse_eol_comment(u, p) = [current |-> t, pos |-> next, ddx |-> 0, hash |-> 0]
  BY DEF parse_eol_comment, Result, t, e
<1> HIDE DEF next
<1>5. t.len \in Nat
  BY <1>2, TokenFacts
<1>6. ReadOK(u, p, [current |-> t, pos |-> next, ddx |-> 0, hash |-> 0])
  BY <1>1, <1>2, <1>3, <1>5 DEF ReadOK, Place
<1> QED BY <1>4, <1>6

\* The parsers of one sign, of the hash and of the dash.
LEMMA SignsOK ==
    ASSUME NEW u, NEW p, Place(u, p), NEW flags
    PROVE  /\ ReadOK(u, p, parse_operator1(u, p))
           /\ ReadOK(u, p, parse_other(u, p))
           /\ At(u, p) \in AsciiParsers["char"] => ReadOK(u, p, parse_char(u, p))
           /\ ReadOK(u, p, parse_hash(u, p, flags))
           /\ ReadOK(u, p, parse_dash(u, p, flags))
           /\ ReadOK(u, p, parse_backslash(u, p))
<1>1. ReadOK(u, p, parse_operator1(u, p)) /\ ReadOK(u, p, parse_other(u, p))
  BY OneOK, Types DEF parse_operator1, parse_other
<1>2. At(u, p) \in AsciiParsers["char"] => ReadOK(u, p, parse_char(u, p))
  BY OneOK, Types DEF parse_char
<1>3. ReadOK(u, p, parse_hash(u, p, flags))
  BY <1>1, CommentOK, CountOK DEF parse_hash
<1>4. ReadOK(u, p, parse_dash(u, p, flags))
  BY <1>1, CommentOK, CountOK DEF parse_dash
<1>5. ReadOK(u, p, parse_backslash(u, p))
  <2>1. CASE At(u, p + 1) = "N"
    <3>1. p + 1 < Len(u)
      BY <2>1, AtInside DEF NUL
    <3>2. ReadOK(u, p, Whole("1", u, p, p + 2))
      BY <3>1, WholeOK, Types DEF Place
    <3> QED BY <2>1, <3>2 DEF parse_backslash
  <2>2. CASE At(u, p + 1) # "N"
    BY <2>2, OneOK, Types DEF parse_backslash
  <2> QED BY <2>1, <2>2
<1> QED BY <1>1, <1>2, <1>3, <1>4, <1>5

\* The parser of the slash.
LEMMA SlashOK ==
    ASSUME NEW u, NEW p, Place(u, p)
    PROVE  ReadOK(u, p, parse_slash(u, p))
<1> DEFINE close  == FirstWord(u, {<<"*", "/">>}, p + 2)
           end    == IF close = -1 THEN Len(u) ELSE close + 2
<1>1. CASE At(u, p + 1) # "*"
  BY <1>1, SignsOK DEF parse_slash
<1>2. CASE At(u, p + 1) = "*"
  <2>1. p + 1 < Len(u)
    BY <1>2, AtInside DEF NUL
  <2>0. u \in Seq(Char) /\ p + 2 \in Nat
    BY DEF Place
  <2>2. close = -1 \/ close \in (p + 2)..(Len(u) - 2)
    BY <2>0, PairFits
  <2> HIDE DEF close
  <2>3. end \in p..Len(u) /\ end > p
    BY <2>1, <2>2 DEF Place
  <2> HIDE DEF end
  <2>4. \A type \in {"X", "c"} : ReadOK(u, p, Whole(type, u, p, end))
    BY <2>3, WholeOK, Types DEF Place
  <2> QED BY <1>2, <2>4 DEF parse_slash, end, close
<1> QED BY <1>1, <1>2

\* The parsers of the operators and of the backslash.
LEMMA OperatorOK ==
    ASSUME NEW u, NEW p, Place(u, p)
    PROVE  ReadOK(u, p, parse_operator2(u, p))
<1> DEFINE ch == is_keyword(String(u, p, 2))
<1>1. ch \in WordTypes \union {NONE}
  BY KeywordType
<1> HIDE DEF ch
<1>2. CASE p + 1 # Len(u) /\ WordAt(u, p, 3) = <<"<", "=", ">">>
  <2>1. Len(<<"<", "=", ">">>) = 3
    OBVIOUS
  <2>a. Len(WordAt(u, p, 3)) = 3
    BY <1>2, <2>1
  <2>0. u \in Seq(Char) /\ p \in 0..Len(u) /\ 3 \in Nat
    BY DEF Place
  <2>2. p + 3 <= Len(u)
    BY ONLY <2>0, <2>a, WordFits
  <2>3. ReadOK(u, p, Whole("o", u, p, p + 3))
    BY <2>2, WholeOK, Types DEF Place
  <2> QED BY <1>2, <2>3 DEF parse_operator2
<1>3. p + 1 # Len(u) /\ ch # NONE => ReadOK(u, p, Whole(ch, u, p, p + 2))
  BY <1>1, WholeOK, Types DEF Place
<1>4. ReadOK(u, p, parse_one(":", u, p)) /\ ReadOK(u, p, parse_operator1(u, p))
  BY OneOK, SignsOK, Types
<1> QED BY <1>2, <1>3, <1>4 DEF parse_operator2, ch

-----------------------------------------------------------------------------
(* The quote that closes a string (parse_string_core).                     *)

\* A function that goes on from a later number until it stops.
Onward(N, b, stop, h) == \A q \in b..N : q \notin stop => h[q] \in (q + 1)..N
Follows(f, N, b, stop, h) == f = [q \in b..N |-> IF q \in stop THEN q ELSE f[h[q]]]

\* There is such a function, by the greatest number at which it would be missing.
LEMMA GoesOn ==
    ASSUME NEW N \in Nat, NEW b \in 0..N, NEW stop, NEW h,
           Onward(N, b, stop, h)
    PROVE  \E f : Follows(f, N, b, stop, h)
<1> USE DEF Onward, Follows
<1> DEFINE Is(f, k) == f = [q \in (N - k)..N |-> IF q \in stop THEN q ELSE f[h[q]]]
           K == {k \in 0..(N - b) : ~\E f : Is(f, k)}
<1>1. K \in SUBSET Nat
  OBVIOUS
<1>2. CASE K = {}
  <2>1. N - b \in 0..(N - b) /\ N - (N - b) = b
    OBVIOUS
  <2>2. \E f : Is(f, N - b)
    BY <1>2, <2>1
  <2> QED BY <2>1, <2>2
<1>3. ASSUME K # {} PROVE FALSE
  <2> DEFINE k == Min(K)
  <2>1. k \in K /\ \A j \in K : k <= j
    BY <1>1, <1>3, LeastOf
  <2> HIDE DEF k
  <2>2. k \in 0..(N - b) /\ ~\E f : Is(f, k)
    BY <2>1
  <2>3. CASE k = 0
    <3>1. N \in stop
      OBVIOUS
    <3> DEFINE f == [q \in N..N |-> N]
    <3>2. Is(f, 0)
      BY <3>1
    <3> QED BY <2>2, <2>3, <3>2
  <2>4. CASE k # 0
    <3>1. k - 1 \in 0..(N - b) /\ ~(k <= k - 1)
      BY <2>2, <2>4
    <3>a. k - 1 \notin K
      <4> HIDE DEF K
      <4> QED BY <2>1, <3>1
    <3>b. \E g : Is(g, k - 1)
      <4> HIDE DEF Is
      <4> QED BY <3>1, <3>a
    <3>2. PICK g : Is(g, k - 1)
      BY <3>b
    <3> DEFINE m == N - k
               f == [q \in m..N |-> IF q = m THEN (IF q \in stop THEN q ELSE g[h[q]]) ELSE g[q]]
    <3>3. m \in b..N /\ N - (k - 1) = m + 1 /\ m \in Nat /\ m < N
      BY <2>2, <2>4
    <3>4. g = [q \in (m + 1)..N |-> IF q \in stop THEN q ELSE g[h[q]]]
      BY <3>2, <3>3
    <3> HIDE DEF m
    <3>5. ASSUME NEW q \in m..N PROVE f[q] = IF q \in stop THEN q ELSE f[h[q]]
      <4>1. q \notin stop => h[q] \in (m + 1)..N /\ h[q] \in m..N /\ h[q] # m
        BY <3>3
      <4>2. q \notin stop => f[h[q]] = g[h[q]]
        BY <4>1
      <4>3. CASE q = m
        BY <4>2, <4>3
      <4>4. CASE q # m
        <5>1. q \in (m + 1)..N
          BY <3>3, <4>4
        <5>2. f[q] = g[q] /\ g[q] = IF q \in stop THEN q ELSE g[h[q]]
          BY <3>4, <4>4, <5>1
        <5> QED BY <4>2, <5>2
      <4> QED BY <4>3, <4>4
    <3>6. DOMAIN f = m..N /\ f = [q \in m..N |-> f[q]]
      OBVIOUS
    <3> HIDE DEF f
    <3>7. f = [q \in m..N |-> IF q \in stop THEN q ELSE f[h[q]]]
      BY <3>5, <3>6
    <3>8. Is(f, k)
      BY <3>7 DEF m
    <3> QED BY <2>2, <3>8
  <2> QED BY <2>3, <2>4
<1> QED BY <1>2, <1>3

\* It stops where it was or later.
LEMMA StopsLater ==
    ASSUME NEW N \in Nat, NEW b \in 0..N, NEW stop, NEW h, NEW f,
           Onward(N, b, stop, h), Follows(f, N, b, stop, h)
    PROVE  \A q \in b..N : f[q] \in q..N
<1> USE DEF Onward, Follows
<1> DEFINE K == {k \in 0..(N - b) : f[N - k] \notin (N - k)..N}
<1>1. K \in SUBSET Nat
  OBVIOUS
<1>2. CASE K = {}
  <2> SUFFICES ASSUME NEW q \in b..N PROVE f[q] \in q..N
    OBVIOUS
  <2>1. N - q \in 0..(N - b) /\ N - (N - q) = q
    OBVIOUS
  <2>2. f[N - (N - q)] \in (N - (N - q))..N
    BY <1>2, <2>1
  <2> QED BY <2>1, <2>2
<1>3. ASSUME K # {} PROVE FALSE
  <2> DEFINE k == Min(K)
  <2>1. k \in K /\ \A j \in K : k <= j
    BY <1>1, <1>3, LeastOf
  <2> HIDE DEF k
  <2> DEFINE q == N - k
  <2>2. q \in b..N /\ f[q] \notin q..N
    BY <2>1
  <2>3. f[q] = IF q \in stop THEN q ELSE f[h[q]]
    BY <2>2
  <2>4. q \notin stop /\ h[q] \in (q + 1)..N
    BY <2>2, <2>3
  <2> DEFINE j == N - h[q]
  <2>5. j \in 0..(N - b) /\ j < k /\ N - j = h[q]
    BY <2>1, <2>2, <2>4
  <2>6. f[N - j] \in (N - j)..N
    <3> HIDE DEF j
    <3>1. j \notin K
      <4> HIDE DEF K
      <4>1. ~(k <= j) /\ k \in Nat /\ j \in Nat
        BY <2>1, <2>5 DEF K
      <4> QED BY <2>1, <4>1
    <3> QED BY <2>5, <3>1
  <2>7. f[h[q]] \in h[q]..N
    BY <2>5, <2>6
  <2> QED BY <2>2, <2>3, <2>4, <2>7
<1> QED BY <1>2, <1>3

\* Where the search for the quote that closes a string stops, and where it goes on
\* from a quote that is escaped or doubled.
CloseStops(u, delim, b) ==
    {q \in b..Len(u) : q = Len(u) \/ (~is_backslash_escaped(u, q - 1, b) /\ ~is_double_delim_escaped(u, q))}
CloseGoes(u, delim, b) ==
    [q \in b..Len(u) |-> IF is_backslash_escaped(u, q - 1, b) THEN First(u, {delim}, q + 1)
                         ELSE First(u, {delim}, q + 2)]

\* The search is a function that goes on in this way.
LEMMA ClosingFollows ==
    ASSUME NEW u, Len(u) \in Nat, NEW delim, NEW b \in 0..Len(u)
    PROVE  /\ Onward(Len(u), b, CloseStops(u, delim, b), CloseGoes(u, delim, b))
           /\ \E f : /\ Follows(f, Len(u), b, CloseStops(u, delim, b), CloseGoes(u, delim, b))
                     /\ ClosingFrom(u, delim, b) = f[First(u, {delim}, b)]
<1> DEFINE next(p) == First(u, {delim}, p)
           esc(q) == is_backslash_escaped(u, q - 1, b)
           dbl(q) == is_double_delim_escaped(u, q)
           N == Len(u)
           stop == CloseStops(u, delim, b)
           h == CloseGoes(u, delim, b)
           IsClosing(f) == f = [q \in b..N |-> IF q = N THEN q
                                  ELSE IF esc(q) THEN f[next(q + 1)]
                                  ELSE IF dbl(q) THEN f[next(q + 2)] ELSE q]
<1>1. \A p \in 0..N : next(p) \in p..N
  BY FirstIn
<1>2. N \in Nat /\ b \in 0..N
  OBVIOUS
<1>3. \A q : dbl(q) => q + 1 < N
  BY DEF is_double_delim_escaped
<1>0. /\ stop = {q \in b..N : q = N \/ (~esc(q) /\ ~dbl(q))}
      /\ h = [q \in b..N |-> IF esc(q) THEN next(q + 1) ELSE next(q + 2)]
  BY DEF CloseStops, CloseGoes
<1> HIDE DEF next, N, esc, dbl, stop, h
<1>4. ASSUME NEW q \in b..N, q \notin stop PROVE h[q] \in (q + 1)..N
  <2>1. q # N /\ (esc(q) \/ dbl(q))
    BY <1>0, <1>4
  <2>2. CASE esc(q)
    <3>1. q + 1 \in 0..N
      BY <1>2, <2>1
    <3> QED BY <1>0, <1>1, <2>2, <3>1
  <2>3. CASE ~esc(q)
    <3>1. q + 2 \in 0..N
      BY <1>2, <1>3, <2>1, <2>3
    <3>2. next(q + 2) \in (q + 2)..N
      BY <1>1, <3>1
    <3> QED BY <1>0, <1>2, <2>3, <3>2
  <2> QED BY <2>2, <2>3
<1>a. Onward(N, b, stop, h)
  BY <1>4 DEF Onward
<1>5. \A f : IsClosing(f) <=> Follows(f, N, b, stop, h)
  <2> TAKE f
  <2>1. \A q \in b..N : (IF q = N THEN q ELSE IF esc(q) THEN f[next(q + 1)]
                         ELSE IF dbl(q) THEN f[next(q + 2)] ELSE q)
                        = IF q \in stop THEN q ELSE f[h[q]]
    BY <1>0
  <2> QED BY <2>1 DEF Follows
<1>6. \E f : IsClosing(f)
  <2>1. \E f : Follows(f, N, b, stop, h)
    BY ONLY <1>2, <1>a, GoesOn
  <2> HIDE DEF IsClosing
  <2> QED BY <1>5, <2>1
<1> DEFINE closing == CHOOSE f : IsClosing(f)
<1>7. IsClosing(closing)
  BY <1>6
<1> HIDE DEF IsClosing
<1>8. ClosingFrom(u, delim, b) = closing[next(b)]
  BY Zenon DEF ClosingFrom, closing, IsClosing, next, esc, dbl, N
<1> HIDE DEF closing
<1>9. Follows(closing, N, b, stop, h)
  BY <1>5, <1>7
<1> QED BY <1>a, <1>8, <1>9 DEF N, stop, h, next

\* The quote that closes a string is after the one that opens it, or is the end.
LEMMA ClosingIn ==
    ASSUME NEW u, Len(u) \in Nat, NEW delim, NEW b \in 0..Len(u)
    PROVE  ClosingFrom(u, delim, b) \in b..Len(u)
<1> DEFINE N == Len(u)
           stop == CloseStops(u, delim, b)
           h == CloseGoes(u, delim, b)
           start == First(u, {delim}, b)
<1>1. PICK f : Follows(f, N, b, stop, h) /\ ClosingFrom(u, delim, b) = f[start]
  BY ClosingFollows
<1>2. Onward(N, b, stop, h) /\ start \in b..N
  BY ClosingFollows, FirstIn
<1> HIDE DEF stop, h, start
<1>3. f[start] \in start..N
  BY <1>1, <1>2, StopsLater
<1> QED BY <1>1, <1>2, <1>3

-----------------------------------------------------------------------------
(* The parsers of strings, words and variables.                            *)

\* The quotes of a string are written beside its place.
LEMMA TagOK ==
    ASSUME NEW t, IsToken(t), NEW a, NEW b
    PROVE  LET v == [t EXCEPT !.str_open = a, !.str_close = b]
           IN  IsToken(v) /\ v.pos = t.pos /\ v.len = t.len
  BY DEF IsToken

\* A token that a later position starts.
LEMMA LaterOK ==
    ASSUME NEW u, NEW p, Place(u, p), NEW q \in p..(Len(u) - 1), NEW r, ReadOK(u, q, r)
    PROVE  ReadOK(u, p, r)
  BY DEF ReadOK, Place

\* A string from b to e, after which the text goes on from next.
LEMMA TaggedOK ==
    ASSUME NEW u, NEW p, Place(u, p), NEW b \in p..Len(u), NEW e \in b..Len(u),
           NEW next \in e..Len(u), next > p, NEW c, NEW d
    PROVE  ReadOK(u, p, Result([st_assign("s", u, b, e - b) EXCEPT !.str_open = c, !.str_close = d], next))
<1> DEFINE t == st_assign("s", u, b, e - b)
           v == [t EXCEPT !.str_open = c, !.str_close = d]
<1>0. b \in Nat /\ e - b \in Nat /\ "s" \in TokenTypes
  BY Types DEF Place
<1>1. IsToken(t) /\ t.pos = b /\ t.len <= e - b
  BY <1>0, AssignIs
<1> HIDE DEF t
<1>2. IsToken(v) /\ v.pos = b /\ v.len = t.len
  BY <1>1, TagOK
<1>3. t.len \in Nat
  BY <1>1, TokenFacts
<1> HIDE DEF v
<1>4. ReadOK(u, p, [current |-> v, pos |-> next, ddx |-> 0, hash |-> 0])
  BY <1>1, <1>2, <1>3 DEF ReadOK, Place
<1>5. Result(v, next) = [current |-> v, pos |-> next, ddx |-> 0, hash |-> 0]
  BY DEF Result
<1>6. ReadOK(u, p, Result(v, next))
  BY <1>4, <1>5
<1> QED BY <1>6 DEF v, t

\* parse_string_core, from its opening quote on.
LEMMA StringCoreOK ==
    ASSUME NEW u, NEW p, Place(u, p), NEW delim, NEW offset \in Nat, p + offset <= Len(u)
    PROVE  ReadOK(u, p, parse_string_core(u, p, delim, offset))
<1> DEFINE b == p + offset
           e == ClosingFrom(u, delim, b)
           next == IF e < Len(u) THEN e + 1 ELSE e
<1>1. b \in p..Len(u) /\ b \in 0..Len(u) /\ Len(u) \in Nat
  BY DEF Place
<1> HIDE DEF b
<1>2. e \in b..Len(u)
  BY <1>1, ClosingIn
<1> HIDE DEF e
<1>3. next \in e..Len(u) /\ next > p
  BY <1>1, <1>2 DEF Place
<1> HIDE DEF next
<1>4. \A c, d : ReadOK(u, p, Result([st_assign("s", u, b, e - b) EXCEPT !.str_open = c, !.str_close = d], next))
  BY <1>1, <1>2, <1>3, TaggedOK
<1> QED BY <1>4 DEF parse_string_core, b, e, next

\* A string in quotes or in backticks.
LEMMA StringOK ==
    ASSUME NEW u, NEW p, Place(u, p)
    PROVE  ReadOK(u, p, parse_string(u, p)) /\ ReadOK(u, p, parse_tick(u, p))
<1>1. p + 1 <= Len(u)
  BY DEF Place
<1>2. \A delim : ReadOK(u, p, parse_string_core(u, p, delim, 1))
  BY <1>1, StringCoreOK
<1> DEFINE r == parse_string_core(u, p, TICK, 1)
<1>3. ReadOK(u, p, r)
  BY <1>2
<1> HIDE DEF r
<1>4. \A type \in {"f", "n"} : ReadOK(u, p, [r EXCEPT !.current.type = type])
  BY <1>3, TypedOK, Types
<1>5. parse_tick(u, p) = [r EXCEPT !.current.type = IF is_keyword(r.current.val) = "f" THEN "f" ELSE "n"]
  BY DEF parse_tick, r
<1> QED BY <1>2, <1>4, <1>5 DEF parse_string

\* A string that two characters close (q'[...]' and the like).
LEMMA BracketedOK ==
    ASSUME NEW u, NEW p, Place(u, p), NEW b \in (p + 1)..Len(u), NEW c, NEW d, NEW kind
    PROVE  ReadOK(u, p, Bracketed(u, b, <<c, d>>, kind))
<1> DEFINE e == FirstWord(u, {<<c, d>>}, b)
           end == IF e = -1 THEN Len(u) ELSE e
           next == IF e = -1 THEN end ELSE e + 2
<1>0. u \in Seq(Char) /\ b \in Nat
  BY DEF Place
<1>1. e = -1 \/ e \in b..(Len(u) - 2)
  BY <1>0, PairFits
<1>2. Len(<<c, d>>) = 2
  OBVIOUS
<1> HIDE DEF e
<1>3. end \in b..Len(u) /\ next \in end..Len(u) /\ next > p /\ b \in p..Len(u)
  BY <1>1 DEF Place
<1> HIDE DEF end, next
<1>4. \A x, y : ReadOK(u, p, Result([st_assign("s", u, b, end - b) EXCEPT !.str_open = x, !.str_close = y], next))
  BY <1>3, TaggedOK
<1>5. Bracketed(u, b, <<c, d>>, kind) =
        Result([st_assign("s", u, b, end - b) EXCEPT
                   !.str_open = kind, !.str_close = IF e = -1 THEN NONE ELSE kind], next)
  BY <1>2 DEF Bracketed, next, end, e
<1> QED BY <1>4, <1>5

\* A character that does not end a word at once.
WordStart(c) == c \notin WordEnds /\ c \notin {".", TICK}

\* A word, which may be cut at a dot or a backtick behind a keyword.
LEMMA WordOK ==
    ASSUME NEW u, NEW p, Place(u, p), WordStart(At(u, p))
    PROVE  ReadOK(u, p, parse_word(u, p))
<1> DEFINE end == First(u, WordEnds, p)
           len == st_assign("n", u, p, end - p).len
           before(i) == is_keyword(String(u, p, i))
           splits == {i \in 0..(len - 1) : At(u, p + i) \in {".", TICK} /\ before(i) \notin {NONE, "n"}}
           ch == IF end - p > MaxVal THEN NONE ELSE before(end - p)
<1>1. end \in p..Len(u) /\ end # p
  <2>1. p \in 0..Len(u) /\ p < Len(u)
    BY DEF Place
  <2>2. end \in p..Len(u) /\ (end < Len(u) => At(u, end) \in WordEnds)
    BY <2>1, FirstIn DEF Place
  <2> HIDE DEF end
  <2> QED BY <2>1, <2>2 DEF WordStart
<1> HIDE DEF end
<1>2. len \in Nat /\ len <= end - p
  <2>0. p \in Nat /\ end - p \in Nat /\ "n" \in TokenTypes
    BY <1>1, Types DEF Place
  <2>1. IsToken(st_assign("n", u, p, end - p)) /\ len <= end - p
    BY <2>0, AssignIs
  <2> QED BY <2>1, TokenFacts
<1> HIDE DEF len
<1>3. \A i : before(i) \in WordTypes \union {NONE}
  BY KeywordType
<1> HIDE DEF before
<1>4. CASE splits # {}
  <2> DEFINE m == Min(splits)
  <2>1. splits \in SUBSET Nat
    BY <1>2
  <2>2. m \in splits
    BY <1>4, <2>1, LeastOf
  <2> HIDE DEF m
  <2>3. m \in 0..(len - 1) /\ At(u, p + m) \in {".", TICK} /\ before(m) \in TokenTypes
    BY <1>3, <2>2, Types
  <2>4. m # 0
    BY <2>3 DEF WordStart, Place
  <2>5. p + m \in p..Len(u) /\ p + m > p
    BY <1>1, <1>2, <2>3, <2>4 DEF Place
  <2>6. ReadOK(u, p, Whole(before(m), u, p, p + m))
    BY <2>3, <2>5, WholeOK DEF Place
  <2>7. parse_word(u, p) = Whole(before(m), u, p, p + m)
    BY <1>4 DEF parse_word, m, len, end, before
  <2> QED BY <2>6, <2>7
<1>5. CASE splits = {}
  <2> DEFINE type == IF ch = NONE THEN "n" ELSE ch
  <2>1. type \in TokenTypes
    BY <1>3, Types
  <2>2. parse_word(u, p) = Whole(type, u, p, end)
    BY <1>5 DEF parse_word, len, end, before
  <2> HIDE DEF type
  <2>3. ReadOK(u, p, Whole(type, u, p, end))
    BY <1>1, <2>1, WholeOK DEF Place
  <2> QED BY <2>2, <2>3
<1> QED BY <1>4, <1>5

\* A word in brackets.
LEMMA BwordOK ==
    ASSUME NEW u, NEW p, Place(u, p)
    PROVE  ReadOK(u, p, parse_bword(u, p))
<1> DEFINE e == First(u, {"]"}, p)
           next == IF e = Len(u) THEN e ELSE e + 1
<1>1. e \in p..Len(u)
  BY FirstIn DEF Place
<1> HIDE DEF e
<1>2. next \in p..Len(u) /\ next > p
  BY <1>1 DEF Place
<1> HIDE DEF next
<1>3. ReadOK(u, p, Whole("n", u, p, next))
  BY <1>2, WholeOK, Types DEF Place
<1> QED BY <1>3 DEF parse_bword, next, e

\* A variable, whose name may be a string.
LEMMA VarOK ==
    ASSUME NEW u, NEW p, Place(u, p)
    PROVE  ReadOK(u, p, parse_var(u, p))
<1> DEFINE q == IF At(u, p + 1) = "@" THEN p + 2 ELSE p + 1
           variable(r) == [r EXCEPT !.current.type = "v"]
<1>1. q \in (p + 1)..Len(u)
  BY AtInside DEF Place, NUL
<1> HIDE DEF q
<1>2. ASSUME At(u, q) # NUL
      PROVE  ReadOK(u, p, variable(parse_tick(u, q))) /\ ReadOK(u, p, variable(parse_string(u, q)))
  <2>1. q < Len(u)
    BY <1>2, AtInside
  <2>2. Place(u, q) /\ q \in p..(Len(u) - 1)
    BY <1>1, <2>1 DEF Place
  <2>3. ReadOK(u, q, parse_tick(u, q)) /\ ReadOK(u, q, parse_string(u, q))
    BY <2>2, StringOK
  <2>4. ReadOK(u, q, variable(parse_tick(u, q))) /\ ReadOK(u, q, variable(parse_string(u, q)))
    BY <2>3, TypedOK, Types
  <2> QED BY <2>2, <2>4, LaterOK
<1>3. ReadOK(u, p, Whole("v", u, q, First(u, VarEnds, q)))
  <2>1. First(u, VarEnds, q) \in q..Len(u)
    BY <1>1, FirstIn DEF Place
  <2> QED BY <1>1, <2>1, WholeOK, Types DEF Place
<1>4. TICK # NUL /\ "'" # NUL /\ "\"" # NUL
  BY DEF TICK, NUL
<1> QED BY <1>2, <1>3, <1>4 DEF parse_var, q

-----------------------------------------------------------------------------
(* The parsers of literals, money and numbers.                             *)

\* A character that is read as a sign is that sign.
LEMMA UpperIs ==
    \A c, d : Upper(c) = d /\ d \in Signs \union {NUL} => c = d
  BY CapitalIs, SignsAreNone DEF Signs, Blanks

\* A character other than the NUL is inside the text in either case.
LEMMA UpperInside ==
    \A u, q : Upper(At(u, q)) # NUL => q < Len(u)
<1>1. Upper(NUL) = NUL
  <2>1. NUL \in Signs
    BY DEF Signs, Blanks
  <2> QED BY <2>1, SignsAreNone DEF Upper
<1> QED BY <1>1, AtInside

\* A quoted literal has its quote and one character more in the text.
LEMMA QuotedIs == \A u, q : Quoted(u, q) => q + 2 < Len(u)
  BY DEF Quoted

\* An E'...' string, or a word.
LEMMA EstringOK ==
    ASSUME NEW u, NEW p, Place(u, p), WordStart(At(u, p))
    PROVE  ReadOK(u, p, parse_estring(u, p))
<1>1. CASE Quoted(u, p)
  <2>1. p + 2 <= Len(u)
    BY <1>1, QuotedIs DEF Place
  <2>2. ReadOK(u, p, parse_string_core(u, p, "'", 2))
    BY <2>1, StringCoreOK
  <2> QED BY <1>1, <2>2 DEF parse_estring
<1>2. CASE ~Quoted(u, p)
  BY <1>2, WordOK DEF parse_estring
<1> QED BY <1>1, <1>2

\* The quotes of a string that a parser has returned.
LEMMA RetaggedOK ==
    ASSUME NEW u, NEW p, NEW r, ReadOK(u, p, r), NEW a, NEW b
    PROVE  ReadOK(u, p, [r EXCEPT !.current.str_open = a, !.current.str_close = b])
<1> DEFINE v == [r.current EXCEPT !.str_open = a, !.str_close = b]
<1>1. IsToken(v) /\ v.pos = r.current.pos /\ v.len = r.current.len
  BY DEF ReadOK, IsToken
<1>2. [r EXCEPT !.current.str_open = a, !.current.str_close = b] = [r EXCEPT !.current = v]
  BY DEF ReadOK, IsToken
<1> HIDE DEF v
<1> QED BY <1>1, <1>2 DEF ReadOK

\* A U&'...' string, or a word.
LEMMA UstringOK ==
    ASSUME NEW u, NEW p, Place(u, p), WordStart(At(u, p))
    PROVE  ReadOK(u, p, parse_ustring(u, p))
<1>1. CASE At(u, p + 1) = "&" /\ At(u, p + 2) = "'"
  <2> DEFINE r == parse_string(u, p + 2)
             c == IF r.current.str_close = "'" THEN "u" ELSE r.current.str_close
  <2>1. p + 2 < Len(u)
    BY <1>1, AtInside DEF NUL
  <2>2. Place(u, p + 2) /\ p + 2 \in p..(Len(u) - 1)
    BY <2>1 DEF Place
  <2>3. ReadOK(u, p + 2, r)
    BY <2>2, StringOK
  <2>0. parse_ustring(u, p) = [r EXCEPT !.current.str_open = "u", !.current.str_close = IF @ = "'" THEN "u" ELSE @]
    BY <1>1 DEF parse_ustring
  <2> HIDE DEF r
  <2>4. ReadOK(u, p, r)
    BY <2>2, <2>3, LaterOK
  <2>5. ReadOK(u, p, [r EXCEPT !.current.str_open = "u", !.current.str_close = c])
    <3> HIDE DEF c
    <3> QED BY <2>4, RetaggedOK
  <2>6. parse_ustring(u, p) = [r EXCEPT !.current.str_open = "u", !.current.str_close = c]
    BY <2>0, <2>4 DEF ReadOK, IsToken
  <2> QED BY <2>5, <2>6
<1>2. CASE ~(At(u, p + 1) = "&" /\ At(u, p + 2) = "'")
  BY <1>2, WordOK DEF parse_ustring
<1> QED BY <1>1, <1>2

\* The q'[...]' and nq'[...]' strings, or words.
LEMMA QstringOK ==
    ASSUME NEW u, NEW p, Place(u, p), WordStart(At(u, p))
    PROVE  ReadOK(u, p, parse_qstring(u, p)) /\ ReadOK(u, p, parse_nqstring(u, p))
<1>1. ASSUME NEW offset \in {0, 1} PROVE ReadOK(u, p, parse_qstring_core(u, p, offset))
  <2> DEFINE q == p + offset
             ch == At(u, q + 2)
  <2>1. CASE Quoted(u, q)
    <3>1. q + 3 \in (p + 1)..Len(u)
      BY <2>1, QuotedIs DEF Place
    <3>2. ReadOK(u, p, Bracketed(u, q + 3, <<ClosingOf(ch), "'">>, "q"))
      BY <3>1, BracketedOK
    <3> QED BY <3>2, WordOK DEF parse_qstring_core
  <2>2. CASE ~Quoted(u, q)
    BY <2>2, WordOK DEF parse_qstring_core
  <2> QED BY <2>1, <2>2
<1> QED BY <1>1, EstringOK DEF parse_qstring, parse_nqstring

\* A literal in digits (b'01', x'0F'), or a word.
LEMMA LiteralOK ==
    ASSUME NEW u, NEW p, Place(u, p), WordStart(At(u, p)), NEW digits
    PROVE  ReadOK(u, p, Literal(u, p, digits))
<1> DEFINE e == strlenspn(u, p + 2, digits)
<1>1. CASE Quoted(u, p) /\ At(u, e) = "'"
  <2>1. p + 2 \in 0..Len(u)
    BY <1>1, QuotedIs DEF Place
  <2>2. e \in (p + 2)..Len(u)
    BY <2>1, AcceptedIn DEF Place
  <2>3. e < Len(u)
    BY <1>1, AtInside DEF NUL
  <2>4. Literal(u, p, digits) = Whole("1", u, p, e + 1)
    BY <1>1 DEF Literal
  <2> HIDE DEF e
  <2>5. e + 1 \in p..Len(u) /\ e + 1 > p
    BY <2>2, <2>3 DEF Place
  <2>6. ReadOK(u, p, Whole("1", u, p, e + 1))
    BY <2>5, WholeOK, Types DEF Place
  <2> QED BY <2>4, <2>6
<1>2. CASE ~(Quoted(u, p) /\ At(u, e) = "'")
  BY <1>2, WordOK DEF Literal
<1> QED BY <1>1, <1>2

\* The parser of the dollar: an amount, a string between tags, or a word.
LEMMA MoneyOK ==
    ASSUME NEW u, NEW p, Place(u, p), WordStart(At(u, p))
    PROVE  ReadOK(u, p, parse_money(u, p))
<1> DEFINE number == strlenspn(u, p + 1, Digits \union {".", ","})
           tag    == strlenspn(u, p + 1, Letters)
           len    == tag + 1 - p
           after  == tag + 1
           rest == SubSeq(u, 1, Len(u) - p)
           word == SubSeq(u, p + 1, after)
           m    == FirstWord(rest, {word}, len)
           found  == IF m < after THEN Len(u) ELSE m
           closed == found < Len(u)
           next == IF closed THEN found + len ELSE found
<1>1. p + 1 \in 0..Len(u) /\ Len(u) \in Nat /\ p \in Nat /\ u \in Seq(Char)
  BY DEF Place
<1>2. number \in (p + 1)..Len(u) /\ tag \in (p + 1)..Len(u)
  BY <1>1, AcceptedIn
<1> HIDE DEF number, tag
<1>3. CASE number > p + 1
  <2>1. ReadOK(u, p, Whole("1", u, p, number))
    BY <1>2, <1>3, WholeOK, Types DEF Place
  <2>2. parse_money(u, p) \in {parse_word(u, p), Whole("1", u, p, number)}
    BY <1>3 DEF parse_money, number
  <2> QED BY <2>1, <2>2, WordOK
<1>4. CASE ~(number > p + 1) /\ At(u, p + 1) = "$"
  <2>1. p + 2 \in (p + 1)..Len(u)
    BY <1>1, <1>4, AtInside DEF NUL
  <2>2. ReadOK(u, p, Bracketed(u, p + 2, <<"$", "$">>, "$"))
    BY <2>1, BracketedOK
  <2>3. parse_money(u, p) = Bracketed(u, p + 2, <<"$", "$">>, "$")
    BY <1>4 DEF parse_money, number
  <2> QED BY <2>2, <2>3
<1>5. CASE ~(number > p + 1) /\ At(u, p + 1) # "$" /\ (tag = p + 1 \/ At(u, tag) # "$")
  <2>1. parse_money(u, p) = parse_one("n", u, p)
    BY <1>5 DEF parse_money, number, tag
  <2> QED BY <2>1, OneOK, Types
<1>6. CASE ~(number > p + 1) /\ At(u, p + 1) # "$" /\ ~(tag = p + 1 \/ At(u, tag) # "$")
  <2>1. tag < Len(u)
    BY <1>6, AtInside DEF NUL
  <2>2. after \in (p + 1)..Len(u) /\ len \in Nat /\ len = after - p
    BY <1>1, <1>2, <2>1
  <2>3. rest \in Seq(Char) /\ Len(rest) = Len(u) - p
    <3>1. \A i \in 1..(Len(u) - p) : u[i] \in Char
      BY <1>1
    <3>2. Len(u) - p \in Int /\ 1 <= Len(u) - p
      BY <1>1
    <3> QED BY <3>1, <3>2, SubSeqProperties
  <2>4. Len(word) = len
    <3>1. \A i \in (p + 1)..after : u[i] \in Char
      BY <1>1, <2>2
    <3>2. p + 1 \in Int /\ after \in Int /\ p + 1 <= after
      BY <1>1, <2>2
    <3>3. Len(word) = after - (p + 1) + 1
      BY <3>1, <3>2, SubSeqProperties
    <3> QED BY <1>1, <2>2, <3>3
  <2>0. parse_money(u, p) =
          Result([st_assign("s", u, after, found - after) EXCEPT
                        !.str_open = "$", !.str_close = IF closed THEN "$" ELSE NONE], next)
    BY <1>6 DEF parse_money, number, tag
  <2> HIDE DEF rest, word, after, len
  <2>5. m = -1 \/ (m \in len..(Len(rest) - 1) /\ m + len <= Len(rest))
    <3> DEFINE words == {word}
    <3> HIDE DEF words
    <3>1. FirstWord(rest, words, len) = -1
          \/ (FirstWord(rest, words, len) \in len..(Len(rest) - 1)
              /\ \E w \in words : WordAt(rest, FirstWord(rest, words, len), Len(w)) = w)
      BY <1>1, <2>2, <2>3, FirstWordIn
    <3>2. m = -1 \/ (m \in len..(Len(rest) - 1) /\ WordAt(rest, m, len) = word)
      BY <2>4, <3>1 DEF words
    <3> HIDE DEF m
    <3>3. ASSUME m \in len..(Len(rest) - 1), WordAt(rest, m, len) = word PROVE m + len <= Len(rest)
      <4>1. m \in 0..Len(rest) /\ Len(WordAt(rest, m, len)) = len
        BY <1>1, <2>2, <2>3, <2>4, <3>3
      <4> QED BY ONLY <2>2, <2>3, <4>1, WordFits
    <3> QED BY <3>2, <3>3
  <2> HIDE DEF m
  <2>6. found \in after..Len(u) /\ next \in found..Len(u) /\ next > p
    BY <1>1, <2>2, <2>3, <2>5
  <2> HIDE DEF found, next, closed
  <2>7. after \in p..Len(u)
    BY <1>1, <2>2
  <2>8. \A x, y : ReadOK(u, p, Result([st_assign("s", u, after, found - after) EXCEPT !.str_open = x, !.str_close = y], next))
    BY <2>6, <2>7, TaggedOK
  <2> QED BY <2>0, <2>8
<1> QED BY <1>3, <1>4, <1>5, <1>6

\* A number, with its radix, fraction, exponent and suffix.
LEMMA NumberOK ==
    ASSUME NEW u, NEW p, Place(u, p), At(u, p) \in Digits \union {"."}
    PROVE  ReadOK(u, p, parse_number(u, p))
<1> DEFINE radix == IF At(u, p) # "0" THEN {}
                 ELSE IF Upper(At(u, p + 1)) = "X" THEN HexDigits
                 ELSE IF Upper(At(u, p + 1)) = "B" THEN {"0", "1"} ELSE {}
           int   == Span(u, p, Digits)
           frac  == IF At(u, int) = "." THEN Span(u, int + 1, Digits) ELSE int
           e     == Upper(At(u, frac)) = "E"
           exp   == IF At(u, frac + 1) \in {"+", "-"} THEN frac + 2 ELSE frac + 1
           num   == IF e THEN Span(u, exp, Digits) ELSE frac
           float == /\ Upper(At(u, num)) \in {"D", "F"}
                    /\ Upper(At(u, num + 1)) \in char_is_white \union {";", "U"}
           end == strlenspn(u, p + 2, radix)
           next == IF float THEN num + 1 ELSE num
<1>0. Len(u) \in Nat /\ p \in Nat /\ p < Len(u)
  BY DEF Place
<1>1. CASE radix # {}
  <2>1. Upper(At(u, p + 1)) \in {"X", "B"}
    BY <1>1
  <2>2. p + 1 < Len(u)
    BY <2>1, UpperInside DEF NUL
  <2>3. p + 2 \in 0..Len(u)
    BY <1>0, <2>2
  <2>4. end \in (p + 2)..Len(u)
    BY <1>0, <2>3, AcceptedIn
  <2>5. parse_number(u, p) = Whole(IF end = p + 2 THEN "n" ELSE "1", u, p, end)
    BY <1>1 DEF parse_number
  <2> HIDE DEF end
  <2>6. \A type \in {"n", "1"} : ReadOK(u, p, Whole(type, u, p, end))
    BY <1>0, <2>4, WholeOK, Types
  <2> QED BY <2>5, <2>6
<1>2. CASE radix = {}
  <2>1. int \in p..Len(u) /\ (int = p => At(u, p) = ".")
    <3>1. int \in p..Len(u) /\ (int < Len(u) => At(u, int) \notin Digits)
      BY <1>0, SpanIn
    <3> HIDE DEF int
    <3> QED BY <1>0, <3>1
  <2>0. parse_number(u, p) =
          IF At(u, p) = "." /\ frac = p + 1 THEN parse_one(".", u, p)
          ELSE Whole(IF e /\ num = exp THEN "n" ELSE "1", u, p, next)
    BY <1>2 DEF parse_number
  <2> HIDE DEF int
  <2>2. frac \in (p + 1)..Len(u)
    <3>1. CASE At(u, int) = "."
      <4>1. int + 1 \in 0..Len(u)
        BY <1>0, <2>1, <3>1, AtInside DEF NUL
      <4>2. Span(u, int + 1, Digits) \in (int + 1)..Len(u)
        BY <1>0, <4>1, SpanIn
      <4> QED BY <1>0, <2>1, <3>1, <4>2
    <3>2. CASE At(u, int) # "."
      BY <1>0, <2>1, <3>2
    <3> QED BY <3>1, <3>2
  <2> HIDE DEF frac
  <2>3. num \in (p + 1)..Len(u)
    <3>1. CASE e
      <4>1. frac < Len(u)
        BY <3>1, UpperInside DEF NUL
      <4>2. exp \in (p + 1)..Len(u)
        BY <1>0, <2>2, <4>1, AtInside DEF NUL
      <4> HIDE DEF exp
      <4>3. Span(u, exp, Digits) \in exp..Len(u)
        BY <1>0, <4>2, SpanIn
      <4> QED BY <1>0, <3>1, <4>2, <4>3
    <3>2. CASE ~e
      BY <2>2, <3>2
    <3> QED BY <3>1, <3>2
  <2> HIDE DEF num, exp, e
  <2>4. next \in p..Len(u) /\ next > p
    <3>1. float => num < Len(u)
      BY UpperInside DEF NUL
    <3> HIDE DEF float
    <3> QED BY <1>0, <2>3, <3>1
  <2> HIDE DEF next
  <2>5. \A type \in {"n", "1"} : ReadOK(u, p, Whole(type, u, p, next))
    BY <1>0, <2>4, WholeOK, Types
  <2>6. ReadOK(u, p, parse_one(".", u, p))
    BY OneOK, Types
  <2> QED BY <2>0, <2>5, <2>6
<1> QED BY <1>1, <1>2

-----------------------------------------------------------------------------
(* The parser of a character, and tokenize.                                *)

\* The capital letters, and the letters of both cases.
LEMMA CapitalsAre ==
    /\ Capitals = {"A","B","C","D","E","F","G","H","I","J","K","L","M",
                   "N","O","P","Q","R","S","T","U","V","W","X","Y","Z"}
    /\ Letters = Capitals \union DOMAIN CapitalOf
<1>1. Capitals = {"A","B","C","D","E","F","G","H","I","J","K","L","M",
                    "N","O","P","Q","R","S","T","U","V","W","X","Y","Z"}
    BY DEF Capitals, ToSet, CapitalLetters
<1>2. ToSet(SmallLetters) = DOMAIN CapitalOf
    BY DEF ToSet, SmallLetters, CapitalOf
<1> QED BY <1>1, <1>2 DEF Letters

\* What the parsers of words start at.
LEMMA WordParsersAre ==
    /\ AsciiParsers["bstring"] = {"B"} /\ AsciiParsers["estring"] = {"E"} /\ AsciiParsers["nqstring"] = {"N"}
    /\ AsciiParsers["qstring"] = {"Q"} /\ AsciiParsers["ustring"] = {"U"} /\ AsciiParsers["xstring"] = {"X"}
    /\ AsciiParsers["word"] = (Capitals \ {"B", "E", "N", "Q", "U", "X"}) \union {"_"}
    /\ AsciiParsers["money"] = {"$"}
  BY DEF AsciiParsers

\* Every character has a parser, a letter that of the capital one.
LEMMA ParserIs ==
    ASSUME NEW c \in Char
    PROVE  LET parser == char_parse_map[Upper(c)]
           IN  parser \in DOMAIN AsciiParsers /\ Upper(c) \in Parsed(parser)
<1> DEFINE All == UNION {Parsed(parser) : parser \in DOMAIN AsciiParsers}
<1>1. \A d \in Capitals : \E parser \in DOMAIN AsciiParsers : d \in Parsed(parser)
  <2> SUFFICES ASSUME NEW d \in Capitals PROVE \E parser \in DOMAIN AsciiParsers : d \in Parsed(parser)
    OBVIOUS
  <2>1. \E parser \in {"bstring", "estring", "nqstring", "qstring", "ustring", "xstring", "word"} : d \in AsciiParsers[parser]
    BY WordParsersAre
  <2>2. {"bstring", "estring", "nqstring", "qstring", "ustring", "xstring", "word"} \subseteq DOMAIN AsciiParsers
    BY DEF AsciiParsers
  <2> QED BY <2>1, <2>2 DEF Parsed
<1>2. Upper(c) \in All
  <2>1. CASE Upper(c) \in Capitals
    BY <1>1, <2>1
  <2>2. CASE Upper(c) \notin Capitals
    <3>1. Upper(c) = c /\ c \notin DOMAIN CapitalOf /\ c \notin Capitals
      BY <2>2, CapitalIs
    <3>2. c \in DOMAIN char_parse_map
      BY <3>1, CapitalsAre DEF Char
    <3> QED BY <3>1, <3>2 DEF char_parse_map
  <2> QED BY <2>1, <2>2
<1>3. char_parse_map[Upper(c)] = CHOOSE parser \in DOMAIN AsciiParsers : Upper(c) \in Parsed(parser)
  BY <1>2 DEF char_parse_map
<1>4. \E parser \in DOMAIN AsciiParsers : Upper(c) \in Parsed(parser)
  BY <1>2
<1> QED BY <1>3, <1>4

\* A character that starts a word does not end it.
LEMMA WordStarts ==
    ASSUME NEW c, Upper(c) \in Capitals \union {"_", "$", HIGH}
    PROVE  WordStart(c)
<1>1. \A d \in WordEnds \union {".", TICK} : d \in Signs
  BY DEF WordEnds, VarEnds, Signs, Blanks, AsciiParsers
<1>2. \A d \in Signs : Upper(d) = d /\ d \notin Capitals
  BY SignsAreNone DEF Upper
<1>3. {"_", "$", HIGH} \cap (WordEnds \union {".", TICK}) = {}
  BY DEF WordEnds, VarEnds, HIGH, NUL, TICK, NBSP
<1> QED BY <1>1, <1>2, <1>3 DEF WordStart

\* The parsers, and the characters of each.
LEMMA ParsersAre ==
    /\ DOMAIN AsciiParsers = {"white", "operator1", "operator2", "char", "other", "string", "tick", "number",
           "hash", "money", "dash", "slash", "var", "bword", "backslash", "bstring", "estring",
           "nqstring", "qstring", "ustring", "xstring", "word"}
    /\ Parsed("white") = Blanks
    /\ Parsed("char") = AsciiParsers["char"]
    /\ Parsed("number") = Digits \union {"."}
    /\ Parsed("string") = {"'", "\""}
    /\ \A parser \in {"word", "money", "bstring", "estring", "nqstring", "qstring", "ustring", "xstring"} :
          Parsed(parser) \subseteq Capitals \union {"_", "$", HIGH}
<1>1. \A parser \in {"word", "bstring", "estring", "nqstring", "qstring", "ustring", "xstring"} :
          AsciiParsers[parser] \subseteq Capitals \union {"_", "$", HIGH}
  <2>1. {"B", "E", "N", "Q", "U", "X"} \subseteq Capitals
    BY CapitalsAre
  <2> SUFFICES ASSUME NEW parser \in {"word", "bstring", "estring", "nqstring", "qstring", "ustring", "xstring"},
                      NEW d \in AsciiParsers[parser]
               PROVE  d \in Capitals \union {"_", "$", HIGH}
    OBVIOUS
  <2> QED BY <2>1, WordParsersAre
<1>2. AsciiParsers["money"] = {"$"}
  BY WordParsersAre
<1>3. \A parser : HighParsers(parser) \subseteq {NBSP, HIGH} /\ (parser # "white" => HighParsers(parser) \subseteq {HIGH})
  BY DEF HighParsers
<1>4. HighParsers("white") = {NBSP} /\ HighParsers("char") = {} /\ HighParsers("number") = {} /\ HighParsers("string") = {}
  BY DEF HighParsers
<1>7. AsciiParsers["string"] = {"'", "\""}
  BY DEF AsciiParsers
<1>8. Parsed("string") = {"'", "\""}
  BY <1>4, <1>7 DEF Parsed
<1>5. NBSP \in Blanks /\ AsciiParsers["white"] = Blanks \ {NBSP} /\ AsciiParsers["number"] = Digits \union {"."}
  BY DEF AsciiParsers, Blanks
<1>6. DOMAIN AsciiParsers = {"white", "operator1", "operator2", "char", "other", "string", "tick", "number",
           "hash", "money", "dash", "slash", "var", "bword", "backslash", "bstring", "estring",
           "nqstring", "qstring", "ustring", "xstring", "word"}
  BY DEF AsciiParsers
<1>9. /\ Parsed("white") = Blanks
      /\ Parsed("char") = AsciiParsers["char"]
      /\ Parsed("number") = Digits \union {"."}
  BY <1>4, <1>5 DEF Parsed
<1>10. \A parser \in {"word", "money", "bstring", "estring", "nqstring", "qstring", "ustring", "xstring"} :
          Parsed(parser) \subseteq Capitals \union {"_", "$", HIGH}
  BY <1>1, <1>2, <1>3 DEF Parsed
<1> QED BY <1>6, <1>8, <1>9, <1>10

\* What a parser returns.
Parses(parser, u, p, flags, r) ==
    \/ parser = "operator1" /\ r = parse_operator1(u, p)
    \/ parser = "operator2" /\ r = parse_operator2(u, p)
    \/ parser = "other" /\ r = parse_other(u, p)
    \/ parser = "char" /\ r = parse_char(u, p)
    \/ parser = "hash" /\ r = parse_hash(u, p, flags)
    \/ parser = "dash" /\ r = parse_dash(u, p, flags)
    \/ parser = "slash" /\ r = parse_slash(u, p)
    \/ parser = "backslash" /\ r = parse_backslash(u, p)
    \/ parser = "string" /\ r = parse_string(u, p)
    \/ parser = "word" /\ r = parse_word(u, p)
    \/ parser = "bword" /\ r = parse_bword(u, p)
    \/ parser = "tick" /\ r = parse_tick(u, p)
    \/ parser = "var" /\ r = parse_var(u, p)
    \/ parser = "money" /\ r = parse_money(u, p)
    \/ parser = "number" /\ r = parse_number(u, p)
    \/ parser = "estring" /\ r = parse_estring(u, p)
    \/ parser = "ustring" /\ r = parse_ustring(u, p)
    \/ parser = "qstring" /\ r = parse_qstring(u, p)
    \/ parser = "nqstring" /\ r = parse_nqstring(u, p)
    \/ parser = "bstring" /\ r = parse_bstring(u, p)
    \/ parser = "xstring" /\ r = parse_xstring(u, p)

\* The parser of the character at p, and what it is called for.
LEMMA ParseIs ==
    ASSUME NEW u, NEW p, Place(u, p), At(u, p) \notin Blanks, NEW flags
    PROVE  LET a == At(u, p)
               parser == char_parse_map[Upper(a)]
           IN  /\ Parses(parser, u, p, flags, parse(u, p, flags))
               /\ parser = "char" => a \in AsciiParsers["char"]
               /\ parser = "number" => a \in Digits \union {"."}
               /\ parser = "string" => a \in {"'", "\""}
               /\ parser \in {"word", "money", "bstring", "estring", "nqstring", "qstring", "ustring", "xstring"} => WordStart(a)
<1> DEFINE a == At(u, p)
           c == Upper(a)
           parser == char_parse_map[c]
<1>1. a \in Char
  BY DEF Place, At
<1>2. parser \in DOMAIN AsciiParsers /\ c \in Parsed(parser)
  BY <1>1, ParserIs
<1>3. c \in Signs => a = c
  BY UpperIs
<1>4. parser # "white"
  <2>1. Blanks \subseteq Signs
    BY DEF Signs
  <2> QED BY <1>2, <1>3, <2>1, ParsersAre
<1>5. parser = "char" => a \in AsciiParsers["char"]
  <2>1. AsciiParsers["char"] \subseteq Signs
    BY DEF AsciiParsers, Signs
  <2> QED BY <1>2, <1>3, <2>1, ParsersAre
<1>6. parser = "number" => a \in Digits \union {"."}
  <2>1. Digits \union {"."} \subseteq Signs
    BY DEF Signs
  <2> QED BY <1>2, <1>3, <2>1, ParsersAre
<1>7. parser \in {"word", "money", "bstring", "estring", "nqstring", "qstring", "ustring", "xstring"} => WordStart(a)
  BY <1>2, ParsersAre, WordStarts
<1>9. parser = "string" => a \in {"'", "\""}
  <2>1. {"'", "\""} \subseteq Signs
    BY DEF Signs
  <2> QED BY <1>2, <1>3, <2>1, ParsersAre
<1> DEFINE b == parse(u, p, flags)
<1>8. Parses(parser, u, p, flags, b)
  <2>1. parser \in DOMAIN AsciiParsers \ {"white"}
    BY <1>2, <1>4
  <2>2. b = CASE parser = "operator1" -> parse_operator1(u, p)
              [] parser = "operator2" -> parse_operator2(u, p)
              [] parser = "other"     -> parse_other(u, p)
              [] parser = "char"      -> parse_char(u, p)
              [] parser = "hash"      -> parse_hash(u, p, flags)
              [] parser = "dash"      -> parse_dash(u, p, flags)
              [] parser = "slash"     -> parse_slash(u, p)
              [] parser = "backslash" -> parse_backslash(u, p)
              [] parser = "string"    -> parse_string(u, p)
              [] parser = "word"      -> parse_word(u, p)
              [] parser = "bword"     -> parse_bword(u, p)
              [] parser = "tick"      -> parse_tick(u, p)
              [] parser = "var"       -> parse_var(u, p)
              [] parser = "money"     -> parse_money(u, p)
              [] parser = "number"    -> parse_number(u, p)
              [] parser = "estring"   -> parse_estring(u, p)
              [] parser = "ustring"   -> parse_ustring(u, p)
              [] parser = "qstring"   -> parse_qstring(u, p)
              [] parser = "nqstring"  -> parse_nqstring(u, p)
              [] parser = "bstring"   -> parse_bstring(u, p)
              [] parser = "xstring"   -> parse_xstring(u, p)
    BY Zenon DEF parse
  <2> HIDE DEF parser, b
  <2>3. \/ parser \in {"operator1", "operator2", "other", "char", "hash", "dash", "slash", "backslash", "string", "word"}
        \/ parser \in {"bword", "tick", "var", "money", "number", "estring", "ustring", "qstring", "nqstring", "bstring", "xstring"}
    BY <2>1, ParsersAre
  <2>4. CASE parser \in {"operator1", "operator2", "other", "char", "hash", "dash", "slash", "backslash", "string", "word"}
    BY <2>2, <2>4 DEF Parses
  <2>5. CASE parser \in {"bword", "tick", "var", "money", "number", "estring", "ustring", "qstring", "nqstring", "bstring", "xstring"}
    BY <2>2, <2>5 DEF Parses
  <2> QED BY <2>3, <2>4, <2>5
<1> QED BY <1>5, <1>6, <1>7, <1>8, <1>9

\* Whatever parser the character has, it returns a token of the text and moves on.
LEMMA ParseOK ==
    ASSUME NEW u, NEW p, Place(u, p), At(u, p) \notin Blanks, NEW flags
    PROVE  ReadOK(u, p, parse(u, p, flags))
<1> DEFINE a == At(u, p)
           parser == char_parse_map[Upper(a)]
           b == parse(u, p, flags)
<1>5. parser = "char" => a \in AsciiParsers["char"]
  BY ParseIs
<1>6. parser = "number" => a \in Digits \union {"."}
  BY ParseIs
<1>7. parser \in {"word", "money", "bstring", "estring", "nqstring", "qstring", "ustring", "xstring"} => WordStart(a)
  BY ParseIs
<1>8. Parses(parser, u, p, flags, b)
  BY ParseIs
<1> HIDE DEF b, parser, a
<1>9. \/ parser \in {"operator1", "operator2", "other", "hash", "dash", "slash", "backslash", "string", "bword", "tick", "var"}
      \/ parser = "char" \/ parser = "number"
      \/ parser \in {"word", "money", "bstring", "estring", "nqstring", "qstring", "ustring", "xstring"}
  BY <1>8 DEF Parses
<1>10. CASE parser \in {"operator1", "operator2", "other", "hash", "dash", "slash", "backslash", "string", "bword", "tick", "var"}
  <2>1. ReadOK(u, p, b)
    BY <1>8, <1>10, SignsOK, OperatorOK, SlashOK, StringOK, BwordOK, VarOK DEF Parses
  <2> QED BY <2>1 DEF b
<1>11. CASE parser = "char"
  BY <1>5, <1>8, <1>11, SignsOK DEF a, b, Parses
<1>12. CASE parser = "number"
  BY <1>6, <1>8, <1>12, NumberOK DEF a, b, Parses
<1>13. CASE parser \in {"word", "money", "bstring", "estring", "nqstring", "qstring", "ustring", "xstring"}
  <2>1. WordStart(At(u, p))
    BY <1>7, <1>13 DEF a
  <2>2. ReadOK(u, p, parse_bstring(u, p)) /\ ReadOK(u, p, parse_xstring(u, p))
    BY <2>1, LiteralOK DEF parse_bstring, parse_xstring
  <2>3. ReadOK(u, p, b)
    BY <1>8, <1>13, <2>1, <2>2, WordOK, MoneyOK, EstringOK, UstringOK, QstringOK DEF Parses
  <2> QED BY <2>3 DEF b
<1> QED BY <1>9, <1>10, <1>11, <1>12, <1>13

\* tokenize: a token between where it started and where it stops, or the end of
\* the text (libinjection_sqli_tokenize).
LEMMA TokenizeOK ==
    ASSUME NEW u \in Seq(Char), NEW q \in 0..Len(u), NEW flags,
           flags.quote # NONE => u # <<>>
    PROVE  LET r == tokenize(u, flags, q)
           IN  ReadOK(u, q, r) \/ (r = Result(st_clear, Len(u)))
<1> DEFINE p == Span(u, q, Blanks)
<1>0. Len(u) \in Nat
  BY LenProperties
<1>1. p \in q..Len(u) /\ (p < Len(u) => At(u, p) \notin Blanks)
  BY <1>0, SpanIn
<1>2. CASE q = 0 /\ flags.quote # NONE
  <2>1. Len(u) # 0
    BY <1>2, EmptySeq
  <2>2. Place(u, 0)
    BY <1>0, <2>1 DEF Place
  <2>a. 0 + 0 <= Len(u) /\ 0 \in Nat
    BY <1>0
  <2>3. ReadOK(u, 0, parse_string_core(u, 0, flags.quote, 0))
    BY ONLY <2>2, <2>a, StringCoreOK
  <2> QED BY <1>2, <2>3 DEF tokenize
<1>3. CASE ~(q = 0 /\ flags.quote # NONE) /\ p = Len(u)
  BY <1>3 DEF tokenize
<1>4. CASE ~(q = 0 /\ flags.quote # NONE) /\ p # Len(u)
  <2>0. tokenize(u, flags, q) = parse(u, p, flags)
    BY <1>4 DEF tokenize
  <2> HIDE DEF p
  <2>1. Place(u, p) /\ p \in q..Len(u) /\ At(u, p) \notin Blanks
    BY <1>0, <1>1, <1>4 DEF Place
  <2>2. ReadOK(u, p, parse(u, p, flags))
    BY <2>1, ParseOK
  <2>3. Place(u, q) /\ p \in q..(Len(u) - 1)
    BY <1>0, <2>1 DEF Place
  <2> QED BY <2>0, <2>2, <2>3, LaterOK
<1> QED BY <1>2, <1>3, <1>4

-----------------------------------------------------------------------------
(* The tokens that fold keeps.                                             *)

\* What tokenvec holds: a token, or none.
IsSlot(t) ==
    t \in [type : TokenTypes \union {NONE}, pos : 0..Len(s), len : 0..MaxVal, val : {t.val},
           str_open : {t.str_open}, str_close : {t.str_close}]
\* The eight places of tokenvec.
Slots(v) == /\ DOMAIN v = 0..MaxTokens /\ v = [i \in 0..MaxTokens |-> v[i]]
            /\ \A i \in 0..MaxTokens : IsSlot(v[i])

\* The text, what is read of it and where the tokenizer is.
TextInv ==
    /\ s \in Inputs /\ (s = <<>> => pc = "done")
    /\ reads = [at |-> [d \in {"ANSI", "MYSQL"} |->
                              [q \in 0..Len(s) |-> tokenize(s, [quote |-> NONE, sql |-> d], q)]],
                open |-> [d \in {"'", "\""} |-> tokenize(s, [quote |-> d, sql |-> "ANSI"], 0)]]
    /\ pass \in DOMAIN Passes /\ at \in 0..Len(s) /\ more \in BOOLEAN /\ verdict \in BOOLEAN

\* What fold keeps are tokens.
SlotsInv == Slots(vec) /\ IsSlot(last_comment)

\* The fingerprint fits in its array, unless it was replaced by a bare X.
FingerprintInv ==
    /\ Len(fingerprint) <= MaxTokens
    /\ pc = "fingerprint" => left <= MaxTokens \/ (left > 0 /\ vec[left - 1].type = "X")

\* The tokens of the window stand in the order of the text, and the comment kept
\* aside behind them.
OrderInv ==
    /\ \A j \in 0..(pos - 1) : vec[j].pos <= at /\ \A i \in 0..j : vec[i].pos <= vec[j].pos
    /\ last_comment.type = "c" => /\ last_comment.pos <= at
                                  /\ \A j \in 0..(pos - 1) : vec[j].pos <= last_comment.pos
    /\ pc = "skip" => last_comment.type = NONE
    /\ pc = "finish" => left = pos

\* The invariant of the tokens, inductive with that of the window.
TokensInv == IInv /\ TextInv /\ SlotsInv /\ FingerprintInv /\ OrderInv

\* The text is a sequence of characters, and the tokenizer is in it.
LEMMA TextIs == TextInv => s \in Seq(Char) /\ Len(s) \in Nat /\ at \in Nat /\ at <= Len(s)
<1> SUFFICES ASSUME TextInv PROVE s \in Seq(Char) /\ Len(s) \in Nat /\ at \in Nat /\ at <= Len(s)
  OBVIOUS
<1>1. s \in Seq(Char) /\ Len(s) \in Nat
  BY InputsAssumption, LenProperties DEF TextInv
<1>2. at \in 0..Len(s)
  BY DEF TextInv
<1>3. at \in Nat /\ at <= Len(s)
  BY ONLY <1>1, <1>2
<1> QED BY <1>1, <1>3

\* The contexts of libinjection_is_sqli.
LEMMA PassesAre == \A p \in DOMAIN Passes : Passes[p].quote \in {NONE, "'", "\""} /\ Passes[p].sql \in {"ANSI", "MYSQL"}
<1>1. DOMAIN Passes = 1..5
  BY DEF Passes
<1>2. \A p \in 1..5 : p = 1 \/ p = 2 \/ p = 3 \/ p = 4 \/ p = 5
  OBVIOUS
<1>3. /\ Passes[1].quote = NONE /\ Passes[2].quote = NONE /\ Passes[3].quote = "'" /\ Passes[4].quote = "'"
      /\ Passes[5].quote = "\""
  BY DEF Passes
<1>5. /\ Passes[1].sql = "ANSI" /\ Passes[2].sql = "MYSQL" /\ Passes[3].sql = "ANSI" /\ Passes[4].sql = "MYSQL"
      /\ Passes[5].sql = "MYSQL"
  BY DEF Passes
<1>4. /\ \A p \in 1..5 : Passes[p].quote \in {NONE, "'", "\""}
      /\ \A p \in 1..5 : Passes[p].sql \in {"ANSI", "MYSQL"}
  BY <1>2, <1>3, <1>5
<1> QED BY <1>1, <1>4

\* The empty token (st_clear).
LEMMA NoneIsSlot == Len(s) \in Nat => IsSlot(st_clear) /\ st_clear.type = NONE /\ st_clear.pos = 0
  BY DEF IsSlot, st_clear, NONE, MaxVal

\* What the next token of the text is.
LEMMA ReadIs ==
    ASSUME TextInv, s # <<>>, NEW r \in Read
    PROVE  ReadOK(s, at, r) \/ r = Result(st_clear, Len(s))
<1> DEFINE quote == Passes[pass].quote
           sql == Passes[pass].sql
<1>1. s \in Seq(Char) /\ Len(s) \in Nat /\ at \in 0..Len(s)
  BY TextIs DEF TextInv
<1>2. quote \in {NONE, "'", "\""} /\ sql \in {"ANSI", "MYSQL"}
  BY PassesAre DEF TextInv
<1>3. CASE at = 0 /\ quote # NONE
  <2>1. r = reads.open[quote]
    BY <1>3 DEF Read
  <2> HIDE DEF quote
  <2>2. r = tokenize(s, [quote |-> quote, sql |-> "ANSI"], 0)
    BY <1>2, <1>3, <2>1 DEF TextInv
  <2> QED BY <1>1, <1>3, <2>2, TokenizeOK
<1>4. CASE ~(at = 0 /\ quote # NONE)
  <2>1. r = reads.at[sql][at]
    BY <1>4 DEF Read
  <2> HIDE DEF sql
  <2>2. r = tokenize(s, [quote |-> NONE, sql |-> sql], at)
    BY <1>1, <1>2, <2>1 DEF TextInv
  <2> QED BY <1>1, <2>2, TokenizeOK
<1> QED BY <1>3, <1>4

\* A token that is read fits in tokenvec, and starts and ends where the tokenizer was and is.
LEMMA PutIs ==
    ASSUME TextInv, s # <<>>, NEW r \in Read
    PROVE  /\ IsSlot(r.current) /\ r.pos \in at..Len(s)
           /\ r.current.type # NONE => at <= r.current.pos /\ r.current.pos <= r.pos
<1>1. Len(s) \in Nat /\ at \in 0..Len(s)
  BY TextIs DEF TextInv
<1>2. CASE r = Result(st_clear, Len(s))
  <2>1. r.current = st_clear /\ r.pos = Len(s)
    BY <1>2 DEF Result
  <2> QED BY <1>1, <2>1, NoneIsSlot
<1>3. CASE ReadOK(s, at, r)
  <2>1. IsToken(r.current) /\ r.current.pos \in at..Len(s) /\ r.pos \in (at + 1)..Len(s)
        /\ r.current.pos + r.current.len <= r.pos
    BY <1>3 DEF ReadOK
  <2>2. r.current.len \in Nat
    BY <2>1, TokenFacts
  <2>3. IsSlot(r.current)
    BY <1>1, <2>1 DEF IsToken, IsSlot
  <2> QED BY <1>1, <2>1, <2>2, <2>3
<1> QED BY <1>2, <1>3, ReadIs

-----------------------------------------------------------------------------
(* What a rule leaves of the tokens.                                       *)

\* Tokens that a rule may leave in the place of vec.
WellKept(v) ==
    /\ Slots(v)
    /\ \A j \in 0..(pos - 1) : /\ \A i \in 0..j : v[i].pos <= v[j].pos
                               /\ \E k \in 0..(pos - 1) : v[j].pos = vec[k].pos
\* An outcome whose tokens are kept.
KeptOK(o) ==
    /\ WellKept(o.vec) /\ o.pos <= pos
    /\ o.goto = "fingerprint" => o.left > 0 /\ o.vec[o.left - 1].type = "X"

\* A rule is applied to n tokens at least.
Applies(n) ==
    /\ Holds(n) /\ SlotsInv /\ Len(s) \in Nat
    /\ \A j \in 0..(pos - 1) : \A i \in 0..j : vec[i].pos <= vec[j].pos

\* An outcome whose tokens are kept, wherever fold goes on.
LEMMA KeptOf ==
    ASSUME NEW v, WellKept(v), NEW l, NEW p, p <= pos, NEW goto, goto # "fingerprint"
    PROVE  KeptOK(Outcome(v, l, p, goto))
  BY DEF KeptOK, Outcome

\* The numbers of a place of tokenvec.
LEMMA SlotFacts ==
    ASSUME Len(s) \in Nat
    PROVE  \A t : IsSlot(t) => /\ t.type \in TokenTypes \union {NONE} /\ t.len \in Nat /\ t.len <= MaxVal
                               /\ t.pos \in Nat /\ t.pos <= Len(s)
<1> SUFFICES ASSUME NEW t, IsSlot(t)
             PROVE  /\ t.type \in TokenTypes \union {NONE} /\ t.len \in Nat /\ t.len <= MaxVal
                    /\ t.pos \in Nat /\ t.pos <= Len(s)
  OBVIOUS
<1>1. t.type \in TokenTypes \union {NONE}
  BY DEF IsSlot
<1>2. t.len \in Nat /\ t.len <= MaxVal
  <2>1. t.len \in 0..MaxVal
    BY DEF IsSlot
  <2> QED BY ONLY <2>1 DEF MaxVal
<1>3. t.pos \in Nat /\ t.pos <= Len(s)
  <2>1. t.pos \in 0..Len(s)
    BY DEF IsSlot
  <2> QED BY ONLY <2>1, Len(s) \in Nat
<1> QED BY <1>1, <1>2, <1>3

\* A token that is retyped stays where it is.
LEMMA SlotTyped ==
    ASSUME NEW t, IsSlot(t), NEW type \in TokenTypes \union {NONE}
    PROVE  LET v == [t EXCEPT !.type = type] IN IsSlot(v) /\ v.pos = t.pos /\ v.type = type
  BY DEF IsSlot

\* One token of vec in the place of another.
LEMMA SlotPut ==
    ASSUME NEW v, Slots(v), NEW i \in 0..MaxTokens, NEW t, IsSlot(t)
    PROVE  Slots([v EXCEPT ![i] = t])
  BY DEF Slots

\* Retyping a token of the window keeps the others and the order.
LEMMA TypedKept ==
    ASSUME Applies(2), NEW i \in 0..MaxTokens, NEW type \in TokenTypes \union {NONE}
    PROVE  WellKept(Typed(i, type)) /\ Typed(i, type)[i].type = type
<1> DEFINE t == [vec[i] EXCEPT !.type = type]
           v == [vec EXCEPT ![i] = t]
<1>1. Slots(vec) /\ IsSlot(vec[i]) /\ DOMAIN vec = 0..MaxTokens
  BY DEF Applies, SlotsInv, Slots
<1>2. IsSlot(t) /\ t.pos = vec[i].pos /\ t.type = type
  BY <1>1, SlotTyped
<1>3. Typed(i, type) = v
  BY <1>1 DEF Typed
<1> HIDE DEF t
<1>4. Slots(v)
  BY <1>1, <1>2, SlotPut
<1>5. \A j \in 0..(pos - 1) : v[j].pos = vec[j].pos
  BY <1>1, <1>2 DEF Applies, Holds, MaxTokens
<1>6. v[i].type = type
  BY <1>1, <1>2
<1> HIDE DEF v
<1>7. WellKept(v)
  BY <1>4, <1>5 DEF WellKept, Applies, Holds
<1> QED BY <1>3, <1>6, <1>7

\* So does copying a token over the one before it.
LEMMA MovedKept ==
    ASSUME Applies(2), NEW i \in 0..(pos - 2)
    PROVE  WellKept(Moved(i))
<1> DEFINE v == [vec EXCEPT ![i] = vec[i + 1]]
<1>0. pos \in Nat /\ pos <= 6 /\ i \in 0..MaxTokens /\ i + 1 \in 0..MaxTokens /\ i + 1 \in 0..(pos - 1)
  BY DEF Applies, Holds, MaxTokens
<1>1. Slots(vec) /\ IsSlot(vec[i + 1]) /\ DOMAIN vec = 0..MaxTokens
  BY <1>0 DEF Applies, SlotsInv, Slots
<1>2. Slots(v)
  BY <1>0, <1>1, SlotPut
<1>3. \A j \in 0..(pos - 1) : v[j] = IF j = i THEN vec[i + 1] ELSE vec[j]
  BY <1>0, <1>1 DEF MaxTokens
<1> HIDE DEF v
<1>4. \A j \in 0..(pos - 1) : \A k \in 0..j : v[k].pos <= v[j].pos
  <2> SUFFICES ASSUME NEW j \in 0..(pos - 1), NEW k \in 0..j PROVE v[k].pos <= v[j].pos
    OBVIOUS
  <2>1. k \in 0..(pos - 1)
    BY <1>0
  <2>2. v[k] = (IF k = i THEN vec[i + 1] ELSE vec[k]) /\ v[j] = (IF j = i THEN vec[i + 1] ELSE vec[j])
    BY <1>3, <2>1
  <2>3. CASE k = i /\ j = i
    BY <1>0, <2>2, <2>3 DEF Applies
  <2>4. CASE k = i /\ j # i
    <3>1. i + 1 \in 0..j
      BY <1>0, <2>4
    <3> QED BY <2>2, <2>4, <3>1 DEF Applies
  <2>5. CASE k # i /\ j = i
    <3>1. k \in 0..(i + 1)
      BY <1>0, <2>5
    <3> QED BY <1>0, <2>2, <2>5, <3>1 DEF Applies
  <2>6. CASE k # i /\ j # i
    BY <2>2, <2>6 DEF Applies
  <2> QED BY <2>3, <2>4, <2>5, <2>6
<1>5. \A j \in 0..(pos - 1) : \E k \in 0..(pos - 1) : v[j].pos = vec[k].pos
  BY <1>0, <1>3
<1> QED BY <1>2, <1>4, <1>5 DEF WellKept, Moved, v

\* A rule may leave tokenvec as it is.
LEMMA VecKept == Applies(2) => WellKept(vec)
  BY DEF Applies, WellKept, SlotsInv

\* Two words that are merged stand where the first one did.
LEMMA MergedKept ==
    ASSUME Applies(2), syntax_merge_words(vec[left], vec[left + 1])
    PROVE  LET a == vec[left]
               b == vec[left + 1]
           IN  WellKept([vec EXCEPT ![left].type = is_keyword(Merged(a, b)), ![left].val = Merged(a, b),
                                    ![left].len = a.len + b.len + 1])
<1> DEFINE a == vec[left]
           b == vec[left + 1]
           type == is_keyword(Merged(a, b))
           val == Merged(a, b)
           len == a.len + b.len + 1
           t == [a EXCEPT !.type = type, !.val = val, !.len = len]
           v == [vec EXCEPT ![left] = t]
           w == [vec EXCEPT ![left].type = type, ![left].val = val, ![left].len = len]
<1>0. left \in 0..MaxTokens /\ left + 1 \in 0..MaxTokens /\ left \in 0..(pos - 1) /\ pos <= 6 /\ pos \in Nat
  BY DEF Applies, Holds, MaxTokens
<1>1. Slots(vec) /\ IsSlot(a) /\ IsSlot(b) /\ DOMAIN vec = 0..MaxTokens
  BY <1>0 DEF Applies, SlotsInv, Slots
<1>2. type \in TokenTypes \union {NONE}
  BY KeywordType, Types
<1>3. a.len \in Nat /\ b.len \in Nat /\ len <= MaxVal
  <2>1. len <= MaxVal
    BY DEF syntax_merge_words
  <2> QED BY <1>1, <2>1, SlotFacts DEF Applies
<1>4. len \in 0..MaxVal
  BY <1>3 DEF MaxVal
<1> HIDE DEF type, val, len, a, b
<1>5. IsSlot(t) /\ t.pos = a.pos
  BY <1>1, <1>2, <1>4 DEF IsSlot
<1>6. w = v
  BY <1>0, <1>1 DEF a, IsSlot
<1> HIDE DEF t, w
<1>7. Slots(v)
  BY <1>0, <1>1, <1>5, SlotPut
<1>8. \A j \in 0..(pos - 1) : v[j].pos = vec[j].pos
  BY <1>0, <1>1, <1>5 DEF MaxTokens, a
<1> HIDE DEF v
<1>9. WellKept(v)
  BY <1>7, <1>8 DEF WellKept, Applies, Holds
<1> QED BY <1>6, <1>9 DEF w, type, val, len, a, b

-----------------------------------------------------------------------------
(* The rules and the tokens.                                               *)

\* What any rule may leave.
LEMMA RulesKept ==
    ASSUME Applies(2)
    PROVE  /\ \A l, goto : goto # "fingerprint" => /\ KeptOK(Outcome(vec, l, pos, goto))
                                                   /\ KeptOK(Outcome(vec, l, pos - 1, goto))
           /\ KeptOK(Drop(1)) /\ KeptOK(Drop(2))
           /\ \A i \in {left, left + 1}, type \in {"T", "f", "n", "k", "o", "t", "1"} : \A l, goto :
                 goto # "fingerprint" => KeptOK(Outcome(Typed(i, type), l, pos, goto))
           /\ \A type \in {"f", "n", "o"} : KeptOK(Retype(left, type))
           /\ KeptOK(Replace(left))
<1>0. pos \in Nat /\ pos <= pos /\ pos - 1 <= pos /\ pos - 2 <= pos
      /\ left \in 0..MaxTokens /\ left + 1 \in 0..MaxTokens /\ left \in 0..(pos - 2)
  BY DEF Applies, Holds, MaxTokens
<1>1. WellKept(vec)
  BY VecKept
<1>2. WellKept(Moved(left))
  BY <1>0, MovedKept
<1>3. {"T", "f", "n", "k", "o", "t", "1"} \subseteq TokenTypes \union {NONE}
  BY DEF TokenTypes, WordTypes
<1>4. \A i \in {left, left + 1}, type \in {"T", "f", "n", "k", "o", "t", "1"} : WellKept(Typed(i, type))
  BY <1>0, <1>3, TypedKept
<1>5. \A l, goto : goto # "fingerprint" => /\ KeptOK(Outcome(vec, l, pos, goto))
                                           /\ KeptOK(Outcome(vec, l, pos - 1, goto))
                                           /\ KeptOK(Outcome(vec, l, pos - 2, goto))
  BY <1>0, <1>1, KeptOf
<1>6. \A i \in {left, left + 1}, type \in {"T", "f", "n", "k", "o", "t", "1"} : \A l, goto :
         goto # "fingerprint" => KeptOK(Outcome(Typed(i, type), l, pos, goto))
  BY <1>0, <1>4, KeptOf
<1>7. KeptOK(Replace(left))
  BY <1>0, <1>2, KeptOf DEF Replace
<1> QED BY <1>5, <1>6, <1>7 DEF Drop, Retype

\* The rules that merge two words.
LEMMA MergeKept ==
    ASSUME Applies(2), NEW otherwise, KeptOK(otherwise)
    PROVE  KeptOK(MergeRules(vec[left], vec[left + 1], otherwise))
<1> DEFINE a == vec[left]
           b == vec[left + 1]
           v == [vec EXCEPT ![left].type = is_keyword(Merged(a, b)), ![left].val = Merged(a, b),
                            ![left].len = a.len + b.len + 1]
<1>1. syntax_merge_words(a, b) => KeptOK(Outcome(v, StepBack, pos - 1, "five"))
  <2> SUFFICES ASSUME syntax_merge_words(a, b) PROVE KeptOK(Outcome(v, StepBack, pos - 1, "five"))
    OBVIOUS
  <2>1. WellKept(v)
    BY MergedKept
  <2>2. pos - 1 <= pos
    BY DEF Applies, Holds
  <2> HIDE DEF v
  <2> QED BY <2>1, <2>2, KeptOf
<1>2. KeptOK(Outcome(Typed(left + 1, "T"), left + 2, pos, "five"))
  BY RulesKept
<1>3. /\ KeptOK(Outcome(vec, left, pos - 1, "five")) /\ KeptOK(Outcome(vec, StepBack, pos - 1, "five"))
      /\ KeptOK(Drop(1))
  BY RulesKept
<1>4. MergeRules(a, b, otherwise) \in
        {Outcome(vec, left, pos - 1, "five"), Outcome(Typed(left + 1, "T"), left + 2, pos, "five"), Drop(1),
         Outcome(vec, StepBack, pos - 1, "five"), otherwise}
      \/ (syntax_merge_words(a, b) /\ MergeRules(a, b, otherwise) = Outcome(v, StepBack, pos - 1, "five"))
  BY DEF MergeRules
<1> HIDE DEF a, b, v
<1>5. KeptOK(MergeRules(a, b, otherwise))
  BY <1>1, <1>2, <1>3, <1>4
<1> QED BY <1>5 DEF a, b

\* The rules that retype a word.
LEMMA RetypeKept ==
    ASSUME Applies(2), NEW a, NEW b, NEW otherwise, KeptOK(otherwise)
    PROVE  KeptOK(RetypeRules(a, b, otherwise))
<1>1. \A type \in {"f", "o"} : KeptOK(Outcome(Typed(left, type), left, pos, "three"))
  BY RulesKept
<1>2. \A type \in {"f", "n", "o"} : KeptOK(Retype(left, type))
  BY RulesKept
<1> QED BY <1>1, <1>2 DEF RetypeRules

\* The rules that drop a token of two.
LEMMA LeaveOutKept ==
    ASSUME Applies(2), NEW a, NEW b, NEW otherwise, KeptOK(otherwise)
    PROVE  KeptOK(DropRules(a, b, otherwise))
<1>1. /\ KeptOK(Outcome(Typed(left + 1, "t"), 0, pos, "three"))
      /\ KeptOK(Outcome(Typed(left, "1"), 0, pos, "five"))
  BY RulesKept
<1>2. KeptOK(Replace(left)) /\ KeptOK(Drop(1)) /\ KeptOK(Drop(2))
  BY RulesKept
<1>3. KeptOK(Outcome(Typed(left + 1, "X"), left + 2, pos, "fingerprint"))
  <2>1. left + 1 \in 0..MaxTokens /\ left + 2 > 0 /\ (left + 2) - 1 = left + 1 /\ pos <= pos
    BY DEF Applies, Holds, MaxTokens
  <2>2. "X" \in TokenTypes \union {NONE}
    BY Types
  <2>3. WellKept(Typed(left + 1, "X")) /\ Typed(left + 1, "X")[left + 1].type = "X"
    BY <2>1, <2>2, TypedKept
  <2> QED BY <2>1, <2>3 DEF KeptOK, Outcome
<1> QED BY <1>1, <1>2, <1>3 DEF DropRules

\* The rules of three tokens.
LEMMA ThreeKept ==
    ASSUME Applies(3), NEW a, NEW b, NEW c, NEW otherwise, KeptOK(otherwise)
    PROVE  KeptOK(ThreeTokenRules(a, b, c, otherwise))
<1>1. Applies(2)
  BY DEF Applies, Holds, MaxTokens
<1>2. left + 1 \in 0..(pos - 2) /\ pos - 1 <= pos /\ pos - 3 <= pos
  BY DEF Applies, Holds, MaxTokens
<1>3. WellKept(Moved(left + 1))
  BY <1>1, <1>2, MovedKept
<1>4. KeptOK(Replace(left + 1)) /\ KeptOK(Outcome(Moved(left + 1), 0, pos - 3, "five"))
  BY <1>2, <1>3, KeptOf DEF Replace
<1>5. KeptOK(Drop(2)) /\ KeptOK(Outcome(Typed(left, "n"), left + 1, pos, "five"))
  BY <1>1, RulesKept
<1> QED BY <1>4, <1>5 DEF ThreeTokenRules

-----------------------------------------------------------------------------
(* The steps of fold that apply them.                                      *)

\* The places below a smaller number are places below a larger one.
LEMMA FewerBelow == \A m, n \in Nat : m <= n => \A j \in 0..(m - 1) : j \in 0..(n - 1)
  OBVIOUS

\* In the loop of fold the rules apply.
LEMMA LoopApplies ==
    ASSUME TokensInv, NEW n \in {2, 3}, pc \in {"two", "three"}, pos - left >= n
    PROVE  Applies(n) /\ Holds(n) /\ s # <<>>
<1>1. Holds(n)
  BY DEF TokensInv, IInv, Window, Holds
<1>2. Len(s) \in Nat
  BY TextIs DEF TokensInv
<1>3. \A j \in 0..(pos - 1) : \A i \in 0..j : vec[i].pos <= vec[j].pos
  BY DEF TokensInv, OrderInv
<1>4. s # <<>>
  BY DEF TokensInv, TextInv
<1> QED BY <1>1, <1>2, <1>3, <1>4 DEF Applies, TokensInv

\* A step that takes over the outcome of a rule.
LEMMA FoldKeepsTokens ==
    ASSUME TokensInv, s # <<>>, NEW o, OutcomeOK(o), KeptOK(o), Fold(o)
    PROVE  TokensInv'
<1>1. IInv'
  BY FoldKeeps
<1>2. /\ vec' = o.vec /\ left' = o.left /\ pos' = o.pos /\ pc' = o.goto
      /\ UNCHANGED <<s, reads, pass, at, stats, more, last_comment, fingerprint, verdict>>
  BY DEF Fold
<1>3. TextInv'
  BY <1>2 DEF TokensInv, TextInv
<1>4. SlotsInv'
  <2>1. Slots(vec')
    BY <1>2 DEF KeptOK, WellKept
  <2> QED BY <1>2, <2>1 DEF TokensInv, SlotsInv, Slots, IsSlot
<1>5. FingerprintInv'
  BY <1>2 DEF TokensInv, FingerprintInv, KeptOK
<1>6. OrderInv'
  <2>0. pc' \in {"five", "two", "three", "fingerprint"}
    BY <1>2 DEF OutcomeOK
  <2>1. pos' \in Nat /\ pos' <= pos /\ pos \in Nat
    BY <1>2 DEF OutcomeOK, KeptOK, TokensInv, IInv, Window
  <2>2. \A j \in 0..(pos' - 1) : j \in 0..(pos - 1)
    BY ONLY <2>1, FewerBelow
  <2>3. \A j \in 0..(pos' - 1) : /\ \A i \in 0..j : vec'[i].pos <= vec'[j].pos
                                 /\ \E k \in 0..(pos - 1) : vec'[j].pos = vec[k].pos
    BY <1>2, <2>2 DEF KeptOK, WellKept
  <2>4. /\ \A j \in 0..(pos - 1) : vec[j].pos <= at
        /\ last_comment.type = "c" => /\ last_comment.pos <= at
                                      /\ \A j \in 0..(pos - 1) : vec[j].pos <= last_comment.pos
    BY DEF TokensInv, OrderInv
  <2> QED BY <1>2, <2>0, <2>3, <2>4 DEF OrderInv
<1> QED BY <1>1, <1>3, <1>4, <1>5, <1>6 DEF TokensInv

\* The rules of two tokens.
LEMMA FoldTwoKeepsTokens == TokensInv /\ FoldTwo => TokensInv'
<1> SUFFICES ASSUME TokensInv, FoldTwo PROVE TokensInv'
  OBVIOUS
<1> DEFINE none == Outcome(vec, left, pos, "three")
           drop == DropRules(vec[left], vec[left + 1], none)
           retype == RetypeRules(vec[left], vec[left + 1], drop)
           o == MergeRules(vec[left], vec[left + 1], retype)
<1>1. Applies(2) /\ Holds(2) /\ s # <<>>
  BY LoopApplies DEF FoldTwo
<1>2. OutcomeOK(none)
  BY <1>1, OutcomeOf DEF Holds, MaxTokens
<1>3. KeptOK(none)
  BY <1>1, RulesKept
<1>4. Fold(o)
  BY DEF FoldTwo
<1> HIDE DEF none
<1>5. OutcomeOK(drop) /\ KeptOK(drop)
  BY <1>1, <1>2, <1>3, LeaveOutOK, LeaveOutKept
<1> HIDE DEF drop
<1>6. OutcomeOK(retype) /\ KeptOK(retype)
  BY <1>1, <1>5, RetypeOK, RetypeKept
<1> HIDE DEF retype
<1>7. OutcomeOK(o) /\ KeptOK(o)
  BY <1>1, <1>6, MergeOK, MergeKept
<1> HIDE DEF o
<1> QED BY <1>1, <1>4, <1>7, FoldKeepsTokens

\* The rules of three tokens.
LEMMA FoldThreeKeepsTokens == TokensInv /\ FoldThree => TokensInv'
<1> SUFFICES ASSUME TokensInv, FoldThree PROVE TokensInv'
  OBVIOUS
<1> DEFINE none == Outcome(vec, left + 1, pos, "five")
           o == ThreeTokenRules(vec[left], vec[left + 1], vec[left + 2], none)
<1>1. Applies(3) /\ Holds(3) /\ s # <<>>
  BY LoopApplies DEF FoldThree
<1>2. Applies(2)
  BY <1>1 DEF Applies, Holds, MaxTokens
<1>3. OutcomeOK(none)
  BY <1>1, OutcomeOf DEF Holds, MaxTokens
<1>4. KeptOK(none)
  BY <1>2, RulesKept
<1>5. Fold(o)
  BY DEF FoldThree
<1> HIDE DEF none
<1>6. OutcomeOK(o) /\ KeptOK(o)
  BY <1>1, <1>3, <1>4, ThreeOK, ThreeKept
<1> HIDE DEF o
<1> QED BY <1>1, <1>5, <1>6, FoldKeepsTokens

\* When nothing is left to read the window moves to its end.
LEMMA SettleKeepsTokens ==
    ASSUME TokensInv, NEW n \in 2..3, pc \in {"two", "three"}, Settle(n)
    PROVE  TokensInv'
<1> DEFINE o == Outcome(vec, pos, pos, "five")
<1>1. OutcomeOK(o)
  BY OutcomeOf DEF TokensInv, IInv, Window, MaxTokens
<1>2. KeptOK(o)
  BY DEF KeptOK, WellKept, Outcome, TokensInv, OrderInv, SlotsInv, IInv, Window
<1>3. Fold(o) /\ s # <<>>
  BY DEF Settle, TokensInv, TextInv
<1> HIDE DEF o
<1> QED BY <1>1, <1>2, <1>3, FoldKeepsTokens

-----------------------------------------------------------------------------
(* The steps of fold that read.                                            *)

\* A token that is read, in vec[i].
LEMMA PutKeeps ==
    ASSUME TokensInv, pc # "done", NEW r \in Read, NEW i \in 0..MaxTokens, Put(r, i),
           UNCHANGED <<s, reads, pass, verdict>>, pc' # "done"
    PROVE  /\ TextInv' /\ Slots(vec)' /\ IsSlot(r.current) /\ at' \in at..Len(s)
           /\ vec' = [vec EXCEPT ![i] = r.current]
           /\ r.current.type # NONE => r.current.pos \in at..at'
<1>1. TextInv /\ s # <<>> /\ Len(s) \in Nat /\ at \in 0..Len(s) /\ Slots(vec)
  BY TextIs DEF TokensInv, TextInv, SlotsInv
<1>2. /\ IsSlot(r.current) /\ r.pos \in at..Len(s)
      /\ r.current.type # NONE => at <= r.current.pos /\ r.current.pos <= r.pos
  BY <1>1, PutIs
<1>3. vec' = [vec EXCEPT ![i] = r.current] /\ at' = r.pos /\ more' = (r.current.type # NONE)
  BY DEF Put
<1>4. at' \in at..Len(s) /\ at' \in 0..Len(s)
  BY <1>1, <1>2, <1>3
<1>5. TextInv'
  <2>1. more' \in BOOLEAN
    BY <1>3
  <2> QED BY <1>1, <1>4, <2>1 DEF TextInv
<1>6. Slots(vec)'
  <2>1. Slots(vec')
    BY <1>1, <1>2, <1>3, SlotPut
  <2> QED BY <2>1 DEF Slots, IsSlot
<1>7. r.current.type # NONE => r.current.pos \in at..at'
  <2>1. r.current.pos \in Nat
    BY <1>1, <1>2, SlotFacts
  <2> QED BY <1>1, <1>2, <1>3, <1>4, <2>1
<1> QED BY <1>2, <1>3, <1>4, <1>5, <1>6, <1>7

\* The comments, parentheses and signs that fold skips at the start.
LEMMA SkipKeepsTokens == TokensInv /\ Skip => TokensInv'
<1> SUFFICES ASSUME TokensInv, Skip PROVE TokensInv'
  OBVIOUS
<1>1. IInv'
  BY OthersKeep DEF TokensInv
<1>2. PICK r \in Read :
        /\ Put(r, 0)
        /\ IF r.current.type \in {"c", "(", "t"} \/ st_is_unary_op(r.current) THEN pc' = "skip" /\ pos' = pos
           ELSE IF more' THEN pc' = "five" /\ pos' = 1
           ELSE pc' = "fingerprint" /\ pos' = pos
  BY DEF Skip
<1>3. pc = "skip" /\ UNCHANGED <<s, reads, pass, left, last_comment, fingerprint, verdict>>
  BY DEF Skip
<1>4. left = 0 /\ pos = 0 /\ last_comment.type = NONE
  BY <1>3 DEF TokensInv, IInv, OrderInv
<1>5. \/ pos' = 0 /\ pc' \in {"skip", "fingerprint"}
      \/ pos' = 1 /\ pc' = "five" /\ r.current.type # NONE
  <2>1. more' = (r.current.type # NONE)
    BY <1>2 DEF Put
  <2> QED BY <1>2, <1>4, <2>1
<1>6. /\ TextInv' /\ Slots(vec)' /\ at' \in at..Len(s)
      /\ vec' = [vec EXCEPT ![0] = r.current]
      /\ r.current.type # NONE => r.current.pos \in at..at'
  <2>1. 0 \in 0..MaxTokens /\ pc # "done" /\ pc' # "done"
    BY <1>3, <1>5 DEF MaxTokens
  <2> QED BY <1>2, <1>3, <2>1, PutKeeps
<1>7. SlotsInv'
  BY <1>3, <1>6 DEF TokensInv, SlotsInv, IsSlot
<1>8. FingerprintInv'
  BY <1>3, <1>4 DEF TokensInv, FingerprintInv, MaxTokens
<1>9. OrderInv'
  <2>1. last_comment'.type # "c" /\ last_comment'.type = NONE /\ pc' # "finish"
    BY <1>3, <1>4, <1>5 DEF NONE
  <2>2. \A j \in 0..(pos' - 1) : vec'[j].pos <= at' /\ \A i \in 0..j : vec'[i].pos <= vec'[j].pos
    <3>1. CASE pos' = 0
      BY <3>1
    <3>2. CASE pos' = 1 /\ r.current.type # NONE
      <4>1. vec'[0] = r.current /\ r.current.pos \in at..at'
        BY <1>6, <3>2 DEF TokensInv, SlotsInv, Slots, MaxTokens
      <4>a. at \in Nat /\ Len(s) \in Nat /\ at' \in at..Len(s)
        BY <1>6, TextIs DEF TokensInv
      <4>2. at \in Nat /\ at' \in Nat
        BY ONLY <4>a
      <4>3. r.current.pos \in Int /\ r.current.pos <= at'
        BY ONLY <4>1, <4>2
      <4>4. \A j \in 0..(pos' - 1) : j = 0 /\ \A i \in 0..j : i = 0
        BY ONLY <3>2
      <4> QED BY <4>1, <4>3, <4>4
    <3> QED BY <1>5, <3>1, <3>2
  <2> QED BY <2>1, <2>2 DEF OrderInv
<1> QED BY <1>1, <1>6, <1>7, <1>8, <1>9 DEF TokensInv

\* Reading until there are enough tokens for the rules.
LEMMA FetchKeepsTokens ==
    ASSUME TokensInv, NEW n \in 2..3, pc \in {"two", "three"}, Fetch(n)
    PROVE  TokensInv'
<1>1. IInv' /\ pos \in 0..MaxTokens
  BY FetchKeeps DEF TokensInv
<1>2. PICK r \in Read :
        /\ Put(r, pos)
        /\ last_comment' = CommentAfter(r.current)
        /\ pos' = IF r.current.type \in {NONE, "c"} THEN pos ELSE pos + 1
  BY DEF Fetch
<1>3. UNCHANGED <<s, reads, pass, left, fingerprint, pc, verdict>>
  BY DEF Fetch
<1>4. /\ TextInv' /\ Slots(vec)' /\ IsSlot(r.current) /\ at' \in at..Len(s)
      /\ vec' = [vec EXCEPT ![pos] = r.current]
      /\ r.current.type # NONE => r.current.pos \in at..at'
  BY <1>1, <1>2, <1>3, PutKeeps
<1>5. SlotsInv'
  <2>1. IsSlot(CommentAfter(r.current))
    BY <1>4 DEF CommentAfter, TokensInv, SlotsInv, IsSlot
  <2> QED BY <1>2, <1>3, <1>4, <2>1 DEF SlotsInv, IsSlot
<1>6. FingerprintInv'
  BY <1>3 DEF TokensInv, FingerprintInv
<1>7. OrderInv'
  <2>0. at \in Nat /\ at' \in Nat /\ at <= at' /\ pos \in Nat /\ Len(s) \in Nat
    <3>1. at \in Nat /\ Len(s) \in Nat
      BY TextIs DEF TokensInv
    <3> QED BY <1>1, <1>4, <3>1
  <2>1. \A j \in 0..(pos - 1) : vec'[j] = vec[j] /\ vec[j].pos \in Nat /\ vec[j].pos <= at
                               /\ \A i \in 0..j : vec[i].pos <= vec[j].pos
    <3> SUFFICES ASSUME NEW j \in 0..(pos - 1)
                 PROVE  vec'[j] = vec[j] /\ vec[j].pos \in Nat /\ vec[j].pos <= at
                        /\ \A i \in 0..j : vec[i].pos <= vec[j].pos
      OBVIOUS
    <3>1. j \in 0..MaxTokens /\ j # pos
      BY <1>1 DEF MaxTokens
    <3>2. DOMAIN vec = 0..MaxTokens /\ IsSlot(vec[j])
      BY <3>1 DEF TokensInv, SlotsInv, Slots
    <3>3. vec'[j] = vec[j]
      BY <1>4, <3>1, <3>2
    <3>4. vec[j].pos \in Nat
      BY <2>0, <3>2, SlotFacts
    <3> QED BY <3>3, <3>4 DEF TokensInv, OrderInv
  <2>2. vec'[pos] = r.current
    BY <1>1, <1>4 DEF TokensInv, SlotsInv, Slots
  <2>3. last_comment.type = "c" => last_comment.pos \in Nat /\ last_comment.pos <= at
                                   /\ \A j \in 0..(pos - 1) : vec[j].pos <= last_comment.pos
    <3>1. last_comment.pos \in Nat
      BY <2>0, SlotFacts DEF TokensInv, SlotsInv
    <3> QED BY <3>1 DEF TokensInv, OrderInv
  <2>4. pc' # "skip" /\ pc' # "finish"
    BY <1>3
  <2>5. CASE r.current.type = NONE
    <3>1. pos' = pos /\ last_comment' = last_comment
      BY <1>2, <2>5 DEF CommentAfter, NONE
    <3>2. \A j \in 0..(pos' - 1) : vec'[j].pos <= at' /\ \A i \in 0..j : vec'[i].pos <= vec'[j].pos
      BY <2>0, <2>1, <3>1
    <3>3. last_comment'.type = "c" => last_comment'.pos <= at' /\ \A j \in 0..(pos' - 1) : vec'[j].pos <= last_comment'.pos
      BY <2>0, <2>1, <2>3, <3>1
    <3> QED BY <2>4, <3>2, <3>3 DEF OrderInv
  <2>6. CASE r.current.type = "c"
    <3>0. r.current.pos \in Nat /\ at <= r.current.pos /\ r.current.pos <= at'
      BY <1>4, <2>0, <2>6 DEF NONE
    <3>1. pos' = pos /\ last_comment' = r.current
      BY <1>2, <2>6 DEF CommentAfter
    <3>2. \A j \in 0..(pos' - 1) : vec'[j].pos <= at' /\ \A i \in 0..j : vec'[i].pos <= vec'[j].pos
      BY <2>0, <2>1, <3>1
    <3>3. last_comment'.pos <= at' /\ \A j \in 0..(pos' - 1) : vec'[j].pos <= last_comment'.pos
      BY <2>0, <2>1, <3>0, <3>1
    <3> QED BY <2>4, <3>2, <3>3 DEF OrderInv
  <2>7. CASE r.current.type \notin {NONE, "c"}
    <3>0. r.current.pos \in Nat /\ at <= r.current.pos /\ r.current.pos <= at'
      BY <1>4, <2>0, <2>7
    <3>1. pos' = pos + 1 /\ last_comment' = [last_comment EXCEPT !.type = NONE]
      BY <1>2, <2>7 DEF CommentAfter
    <3>2. last_comment'.type # "c"
      BY <3>1 DEF TokensInv, SlotsInv, IsSlot, NONE
    <3>3. \A j \in 0..(pos' - 1) : j \in 0..(pos - 1) \/ j = pos
      BY <2>0, <3>1
    <3>4. ASSUME NEW j \in 0..(pos' - 1)
          PROVE  vec'[j].pos <= at' /\ \A i \in 0..j : vec'[i].pos <= vec'[j].pos
      <4>1. CASE j \in 0..(pos - 1)
        BY <2>0, <2>1, <4>1
      <4>2. CASE j = pos
        <5>1. \A i \in 0..j : i \in 0..(pos - 1) \/ i = pos
          BY <2>0, <4>2
        <5>2. \A i \in 0..(pos - 1) : vec'[i].pos <= r.current.pos
          BY <2>0, <2>1, <3>0
        <5> QED BY <2>2, <3>0, <4>2, <5>1, <5>2
      <4> QED BY <3>3, <4>1, <4>2
    <3> QED BY <2>4, <3>2, <3>4 DEF OrderInv
  <2> QED BY <2>5, <2>6, <2>7
<1> QED BY <1>1, <1>4, <1>5, <1>6, <1>7 DEF TokensInv

-----------------------------------------------------------------------------
(* The steps that end fold.                                                *)

\* Five tokens: the two cases that fold cuts short.
LEMMA FoldFiveKeepsTokens == TokensInv /\ FoldFive => TokensInv'
<1> SUFFICES ASSUME TokensInv, FoldFive PROVE TokensInv'
  OBVIOUS
<1> DEFINE ends(l) == ~more \/ l >= MaxTokens
           one == pos >= MaxTokens /\ FiveAreOne
<1>1. IInv'
  BY OthersKeep DEF TokensInv
<1>2. /\ pc = "five"
      /\ IF one
           THEN /\ vec' = IF pos > MaxTokens THEN [vec EXCEPT ![1] = vec[MaxTokens]] ELSE vec
                /\ pos' = IF pos > MaxTokens THEN 2 ELSE 1
                /\ left' = IF more THEN 0 ELSE pos'
           ELSE /\ left' = IF ends(left) THEN pos ELSE left
                /\ UNCHANGED <<vec, pos>>
      /\ pc' = IF ends(IF one THEN 0 ELSE left) THEN "finish" ELSE "two"
      /\ UNCHANGED <<s, reads, pass, at, stats, more, last_comment, fingerprint, verdict>>
  BY DEF FoldFive
<1> HIDE DEF one
<1>3. TextInv'
  BY <1>2 DEF TokensInv, TextInv
<1>4. FingerprintInv'
  BY <1>2 DEF TokensInv, FingerprintInv
<1>0. pos \in Nat /\ pos <= 6 /\ DOMAIN vec = 0..MaxTokens /\ Slots(vec) /\ Len(s) \in Nat /\ MaxTokens = 5
  BY TextIs DEF TokensInv, IInv, Window, SlotsInv, Slots, MaxTokens
<1>5. Slots(vec')
  <2>1. 1 \in 0..MaxTokens /\ IsSlot(vec[MaxTokens])
    BY <1>0 DEF Slots
  <2>2. Slots([vec EXCEPT ![1] = vec[MaxTokens]])
    BY <1>0, <2>1, SlotPut
  <2>3. vec' \in {vec, [vec EXCEPT ![1] = vec[MaxTokens]]}
    BY <1>2
  <2> QED BY <1>0, <2>2, <2>3
<1>6. SlotsInv'
  BY <1>2, <1>5 DEF TokensInv, SlotsInv, Slots, IsSlot
<1>7. pc' = "finish" => left' = pos'
  BY <1>2 DEF MaxTokens
<1>8. pc' # "skip"
  BY <1>2
<1>9. \A j \in 0..(pos' - 1) : /\ \A i \in 0..j : vec'[i].pos <= vec'[j].pos
                               /\ \E k \in 0..(pos - 1) : vec'[j].pos = vec[k].pos
  <2>1. CASE ~one
    <3>1. vec' = vec /\ pos' = pos
      BY <1>2, <2>1
    <3> QED BY <3>1 DEF TokensInv, OrderInv
  <2>2. CASE one /\ pos <= 5
    <3>1. vec' = vec /\ pos' = 1 /\ pos = 5
      BY <1>0, <1>2, <2>2 DEF one
    <3>2. \A j \in 0..(pos' - 1) : j \in 0..(pos - 1)
      BY <3>1
    <3> QED BY <3>1, <3>2 DEF TokensInv, OrderInv
  <2>3. CASE one /\ pos > 5
    <3>1. pos' = 2 /\ vec' = [vec EXCEPT ![1] = vec[5]] /\ pos = 6
      BY <1>0, <1>2, <2>3
    <3>2. vec'[0] = vec[0] /\ vec'[1] = vec[5]
      BY <1>0, <3>1
    <3>3. vec[0].pos <= vec[5].pos /\ vec[0].pos <= vec[0].pos /\ vec[5].pos <= vec[5].pos
      <4>1. 0 \in 0..5 /\ 5 \in 0..5 /\ 0 \in 0..0 /\ 5 \in 0..(pos - 1) /\ 0 \in 0..(pos - 1)
        BY <3>1
      <4> QED BY <4>1 DEF TokensInv, OrderInv
    <3>4. \A j \in 0..(pos' - 1) : j = 0 \/ j = 1
      BY <3>1
    <3>5. 0 \in 0..(pos - 1) /\ 5 \in 0..(pos - 1)
      BY <3>1
    <3>6. \A i \in 0..0 : i = 0
      OBVIOUS
    <3>7. \A i \in 0..1 : i = 0 \/ i = 1
      OBVIOUS
    <3> QED BY <3>2, <3>3, <3>4, <3>5, <3>6, <3>7
  <2> QED BY <1>0, <2>1, <2>2, <2>3
<1>10. OrderInv'
  <2>1. /\ \A j \in 0..(pos - 1) : vec[j].pos <= at
        /\ last_comment.type = "c" => /\ last_comment.pos <= at
                                      /\ \A j \in 0..(pos - 1) : vec[j].pos <= last_comment.pos
    BY DEF TokensInv, OrderInv
  <2>2. at' = at /\ last_comment' = last_comment
    BY <1>2
  <2> QED BY <1>7, <1>8, <1>9, <2>1, <2>2 DEF OrderInv
<1> QED BY <1>1, <1>3, <1>4, <1>6, <1>10 DEF TokensInv

\* The last comment is put behind the tokens, where there is room.
LEMMA FinishKeepsTokens == TokensInv /\ Finish => TokensInv'
<1> SUFFICES ASSUME TokensInv, Finish PROVE TokensInv'
  OBVIOUS
<1> DEFINE comment == left < MaxTokens /\ last_comment.type = "c"
<1>1. IInv'
  BY FinishKeeps DEF TokensInv
<1>2. /\ pc = "finish" /\ pc' = "fingerprint"
      /\ vec' = IF comment THEN [vec EXCEPT ![left] = last_comment] ELSE vec
      /\ left' = Min({MaxTokens, IF comment THEN left + 1 ELSE left})
      /\ UNCHANGED <<s, reads, pass, at, stats, pos, more, last_comment, fingerprint, verdict>>
  BY DEF Finish
<1>0. left \in Nat /\ left = pos /\ pos <= 6 /\ DOMAIN vec = 0..MaxTokens /\ Slots(vec) /\ IsSlot(last_comment)
  BY <1>2 DEF TokensInv, IInv, Window, SlotsInv, Slots, OrderInv, MaxTokens
<1>3. TextInv'
  BY <1>2 DEF TokensInv, TextInv
<1>4. left' <= MaxTokens
  <2> DEFINE k == IF comment THEN left + 1 ELSE left
             S == {MaxTokens, k}
  <2>1. k \in Nat /\ MaxTokens \in Nat
    BY <1>0 DEF MaxTokens
  <2> HIDE DEF k
  <2>2. S \in SUBSET Nat /\ S # {} /\ MaxTokens \in S
    BY <2>1
  <2> HIDE DEF S
  <2>3. Min(S) <= MaxTokens
    BY <2>2, LeastOf
  <2> QED BY <1>2, <2>3 DEF S, k
<1>5. FingerprintInv'
  BY <1>2, <1>4 DEF TokensInv, FingerprintInv
<1>6. SlotsInv'
  <2>1. comment => left \in 0..MaxTokens
    BY <1>0 DEF MaxTokens
  <2>2. comment => Slots([vec EXCEPT ![left] = last_comment])
    BY <1>0, <2>1, SlotPut
  <2>3. Slots(vec')
    BY <1>0, <1>2, <2>2
  <2> QED BY <1>2, <2>3 DEF TokensInv, SlotsInv, Slots, IsSlot
<1>7. OrderInv'
  <2>1. \A j \in 0..(pos - 1) : vec'[j] = vec[j]
    BY <1>0, <1>2 DEF MaxTokens
  <2>2. \A j \in 0..(pos - 1) : \A i \in 0..j : i \in 0..(pos - 1)
    BY <1>0
  <2>3. pos' = pos /\ at' = at /\ last_comment' = last_comment /\ pc' # "skip" /\ pc' # "finish"
    BY <1>2
  <2>4. /\ \A j \in 0..(pos - 1) : vec[j].pos <= at /\ \A i \in 0..j : vec[i].pos <= vec[j].pos
        /\ last_comment.type = "c" => /\ last_comment.pos <= at
                                      /\ \A j \in 0..(pos - 1) : vec[j].pos <= last_comment.pos
    BY DEF TokensInv, OrderInv
  <2> QED BY <2>1, <2>2, <2>3, <2>4 DEF OrderInv
<1> QED BY <1>1, <1>3, <1>5, <1>6, <1>7 DEF TokensInv

\* The fingerprint, which an evil token replaces by an X.
LEMMA FingerprintKeepsTokens == TokensInv /\ Fingerprint => TokensInv'
<1> SUFFICES ASSUME TokensInv, Fingerprint PROVE TokensInv'
  OBVIOUS
<1> DEFINE last == vec[left - 1]
           php  == left > 2 /\ last.type = "n" /\ last.str_open = TICK /\ last.len = 0 /\ last.str_close = NONE
           v    == IF php THEN [vec EXCEPT ![left - 1].type = "c"] ELSE vec
           fp   == [i \in 1..left |-> v[i - 1].type]
           evil == Contains(fp, "X")
           w == IF evil THEN [v EXCEPT ![0].type = "X", ![0].val = "X", ![1].type = NONE] ELSE v
<1>1. IInv'
  BY OthersKeep DEF TokensInv
<1>2. /\ pc = "fingerprint" /\ pc' = "check"
      /\ fingerprint' = IF evil THEN <<"X">> ELSE fp
      /\ vec' = w
      /\ UNCHANGED <<s, reads, pass, at, stats, left, pos, more, last_comment, verdict>>
  BY DEF Fingerprint
<1>0. left \in Nat /\ left <= 7 /\ pos \in Nat /\ pos <= 6 /\ MaxTokens = 5 /\ left <= pos + 1
      /\ DOMAIN vec = 0..MaxTokens /\ Slots(vec) /\ Len(s) \in Nat
  BY <1>2, TextIs DEF TokensInv, IInv, Window, SlotsInv, Slots, MaxTokens
<1>3. TextInv'
  BY <1>2 DEF TokensInv, TextInv
<1>a. left <= 5 \/ vec[left - 1].type = "X"
  BY <1>0, <1>2 DEF TokensInv, FingerprintInv
<1>b. php => left - 1 \in 0..MaxTokens
  <2>1. left <= 5 /\ left > 2 => left - 1 \in 0..MaxTokens
    BY <1>0
  <2>2. vec[left - 1].type = "X" => ~php
    OBVIOUS
  <2> QED BY <1>a, <2>1, <2>2
<1>4. Slots(v) /\ \A j \in 0..MaxTokens : v[j].pos = vec[j].pos
  <2>1. CASE php
    <3>1. IsSlot(last) /\ "c" \in TokenTypes \union {NONE}
      BY <1>0, <1>b, <2>1, Types DEF Slots
    <3> DEFINE t == [last EXCEPT !.type = "c"]
    <3>2. IsSlot(t) /\ t.pos = last.pos
      BY <3>1, SlotTyped
    <3>3. v = [vec EXCEPT ![left - 1] = t]
      BY <1>0, <1>b, <2>1
    <3> HIDE DEF t, php, v
    <3>4. Slots(v)
      BY <1>0, <1>b, <2>1, <3>2, <3>3, SlotPut
    <3>5. \A j \in 0..MaxTokens : v[j].pos = vec[j].pos
      BY <1>0, <1>b, <2>1, <3>2, <3>3
    <3> QED BY <3>4, <3>5
  <2>2. CASE ~php
    BY <1>0, <2>2
  <2> QED BY <2>1, <2>2
<1>5. Len(fingerprint') <= MaxTokens
  <2>1. CASE evil
    BY <1>2, <2>1 DEF MaxTokens
  <2>2. CASE ~evil
    <3>0. fingerprint' = fp
      BY <1>2, <2>2
    <3>1. Len(fp) = left
      BY <1>0
    <3>2. left <= 5
      <4> SUFFICES ASSUME ~(left <= 5) PROVE FALSE
        BY <1>0
      <4>1. vec[left - 1].type = "X" /\ left \in 1..left
        BY <1>0, <1>a
      <4>2. ~php
        BY <4>1
      <4>3. fp[left] = "X"
        BY <4>1, <4>2
      <4> QED BY <2>2, <3>1, <4>1, <4>3 DEF Contains
    <3> HIDE DEF fp
    <3> QED BY <1>0, <3>0, <3>1, <3>2
  <2> QED BY <2>1, <2>2
<1> HIDE DEF v, evil, fp
<1>6. Slots(w) /\ \A j \in 0..MaxTokens : w[j].pos = vec[j].pos
  <2>1. CASE evil
    <3> DEFINE t == [v[0] EXCEPT !.type = "X", !.val = "X"]
               n == [v[1] EXCEPT !.type = NONE]
    <3>1. IsSlot(v[0]) /\ IsSlot(v[1]) /\ DOMAIN v = 0..MaxTokens /\ 0 \in 0..MaxTokens /\ 1 \in 0..MaxTokens
      BY <1>0, <1>4 DEF Slots
    <3>2. IsSlot(t) /\ t.pos = v[0].pos
      BY <3>1, Types DEF IsSlot
    <3>3. IsSlot(n) /\ n.pos = v[1].pos
      BY <3>1, SlotTyped
    <3>4. w = [[v EXCEPT ![0] = t] EXCEPT ![1] = n]
      <4>1. w = [v EXCEPT ![0].type = "X", ![0].val = "X", ![1].type = NONE]
        BY <2>1
      <4> HIDE DEF w
      <4>2. [v EXCEPT ![0].type = "X", ![0].val = "X"] = [v EXCEPT ![0] = t]
        BY <3>1 DEF IsSlot
      <4> DEFINE z == [v EXCEPT ![0] = t]
      <4>3. z[1] = v[1] /\ DOMAIN z = 0..MaxTokens
        BY <3>1
      <4>4. [v EXCEPT ![0].type = "X", ![0].val = "X", ![1].type = NONE] = [z EXCEPT ![1].type = NONE]
        BY <4>2
      <4> HIDE DEF z, t
      <4>5. [z EXCEPT ![1].type = NONE] = [z EXCEPT ![1] = n]
        BY <3>1, <4>3
      <4> QED BY <4>1, <4>4, <4>5 DEF z
    <3> HIDE DEF t, n, w
    <3>5. Slots([v EXCEPT ![0] = t])
      BY <1>4, <3>1, <3>2, SlotPut
    <3>6. Slots(w)
      BY <3>1, <3>3, <3>4, <3>5, SlotPut
    <3>7. \A j \in 0..MaxTokens : w[j].pos = v[j].pos
      BY <3>1, <3>2, <3>3, <3>4
    <3> QED BY <1>4, <3>6, <3>7
  <2>2. CASE ~evil
    BY <1>4, <2>2
  <2> QED BY <2>1, <2>2
<1>7. FingerprintInv'
  BY <1>2, <1>5 DEF FingerprintInv
<1>8. SlotsInv'
  <2>1. Slots(vec')
    BY <1>2, <1>6
  <2> QED BY <1>2, <2>1 DEF TokensInv, SlotsInv, Slots, IsSlot
<1> HIDE DEF w
<1>9. OrderInv'
  <2>1. \A j \in 0..(pos - 1) : j \in 0..MaxTokens
    BY <1>0
  <2>2. \A j \in 0..(pos - 1) : \A i \in 0..j : i \in 0..(pos - 1)
    BY <1>0
  <2>3. pos' = pos /\ at' = at /\ last_comment' = last_comment /\ pc' # "skip" /\ pc' # "finish"
    BY <1>2
  <2>4. /\ \A j \in 0..(pos - 1) : vec[j].pos <= at /\ \A i \in 0..j : vec[i].pos <= vec[j].pos
        /\ last_comment.type = "c" => /\ last_comment.pos <= at
                                      /\ \A j \in 0..(pos - 1) : vec[j].pos <= last_comment.pos
    BY DEF TokensInv, OrderInv
  <2>5. \A j \in 0..MaxTokens : vec'[j].pos = vec[j].pos
    BY <1>2, <1>6
  <2> QED BY <2>1, <2>2, <2>3, <2>4, <2>5 DEF OrderInv
<1> QED BY <1>1, <1>3, <1>7, <1>8, <1>9 DEF TokensInv

-----------------------------------------------------------------------------
(* The tokens stay in the text and in its order.                           *)

\* The state of a context that starts anew.
LEMMA ClearIs == Len(s) \in Nat => Slots(NoTokens) /\ IsSlot(st_clear) /\ st_clear.type = NONE
  BY NoneIsSlot DEF Slots, NoTokens

\* The verdict on a fingerprint, and the next context.
LEMMA CheckKeepsTokens == TokensInv /\ Check => TokensInv'
<1> SUFFICES ASSUME TokensInv, Check PROVE TokensInv'
  OBVIOUS
<1> DEFINE over == verdict' \/ NextPasses = {}
<1>1. IInv'
  BY OthersKeep DEF TokensInv
<1>2. pc = "check" /\ UNCHANGED <<s, reads>> /\ verdict' = check_fingerprint
  BY DEF Check
<1>3. over => pc' = "done" /\ UNCHANGED <<pass, at, stats, fingerprint, foldVars>>
  BY DEF Check
<1>4. ~over => /\ pc' = "skip" /\ pass' = Min(NextPasses) /\ at' = 0 /\ stats' = NoStats
               /\ vec' = NoTokens /\ left' = 0 /\ pos' = 0 /\ more' = TRUE /\ last_comment' = st_clear
               /\ fingerprint' = <<>>
  BY DEF Check
<1>5. verdict' \in BOOLEAN
  BY <1>2 DEF check_fingerprint
<1>0. Len(s) \in Nat /\ s # <<>>
  BY <1>2, TextIs DEF TokensInv, TextInv
<1>6. ~over => pass' \in DOMAIN Passes
  <2>1. DOMAIN Passes = 1..5 /\ Len(Passes) = 5
    BY DEF Passes
  <2>2. pass \in 1..5
    BY <2>1 DEF TokensInv, TextInv
  <2>3. NextPasses \subseteq 1..5
    <3>1. NextPasses \subseteq (pass + 1)..Len(Passes)
      BY DEF NextPasses
    <3> HIDE DEF NextPasses
    <3> QED BY <2>1, <2>2, <3>1
  <2> HIDE DEF NextPasses
  <2>4. NextPasses # {} => Min(NextPasses) \in NextPasses
    <3>1. NextPasses \in SUBSET Nat
      BY <2>3
    <3> QED BY <3>1, LeastOf
  <2> QED BY <1>4, <2>1, <2>3, <2>4
<1> HIDE DEF over
<1>7. CASE over
  <2>1. pc' = "done" /\ UNCHANGED <<s, reads, pass, at, stats, fingerprint, vec, left, pos, more, last_comment>>
    BY <1>2, <1>3, <1>7 DEF foldVars
  <2>2. TextInv'
    BY <1>5, <2>1 DEF TokensInv, TextInv
  <2>3. SlotsInv' /\ FingerprintInv'
    BY <2>1 DEF TokensInv, SlotsInv, Slots, IsSlot, FingerprintInv
  <2>4. OrderInv'
    BY <2>1 DEF TokensInv, OrderInv
  <2> QED BY <1>1, <2>2, <2>3, <2>4 DEF TokensInv
<1>8. CASE ~over
  <2>1. TextInv'
    <3>1. at' \in 0..Len(s) /\ more' \in BOOLEAN
      BY <1>0, <1>4, <1>8
    <3> QED BY <1>0, <1>2, <1>5, <1>6, <1>8, <3>1 DEF TokensInv, TextInv
  <2>2. SlotsInv'
    <3>1. Slots(vec') /\ IsSlot(last_comment')
      BY <1>0, <1>4, <1>8, ClearIs
    <3> QED BY <1>2, <3>1 DEF SlotsInv, Slots, IsSlot
  <2>3. FingerprintInv'
    BY <1>4, <1>8 DEF FingerprintInv, MaxTokens
  <2>4. OrderInv'
    <3>1. last_comment'.type = NONE /\ last_comment'.type # "c" /\ pos' = 0 /\ pc' = "skip"
      BY <1>0, <1>4, <1>8, ClearIs DEF NONE
    <3> QED BY <3>1 DEF OrderInv
  <2> QED BY <1>1, <2>1, <2>2, <2>3, <2>4 DEF TokensInv
<1> QED BY <1>7, <1>8

\* The start.
LEMMA InitTokens == Init => TokensInv
<1> SUFFICES ASSUME Init PROVE TokensInv
  OBVIOUS
<1>1. /\ s \in Inputs /\ pass = 1 /\ at = 0 /\ vec = NoTokens /\ left = 0 /\ pos = 0 /\ more = TRUE
      /\ last_comment = st_clear /\ fingerprint = <<>> /\ verdict = FALSE
      /\ pc = IF s = <<>> THEN "done" ELSE "skip"
  BY Zenon DEF Init
<1>2. reads = [at |-> [d \in {"ANSI", "MYSQL"} |->
                              [q \in 0..Len(s) |-> tokenize(s, [quote |-> NONE, sql |-> d], q)]],
               open |-> [d \in {"'", "\""} |-> tokenize(s, [quote |-> d, sql |-> "ANSI"], 0)]]
  BY Zenon DEF Init
<1>3. s \in Seq(Char) /\ Len(s) \in Nat
  BY <1>1, InputsAssumption, LenProperties
<1>4. IInv
  BY <1>1 DEF IInv, Window, MaxTokens
<1>5. TextInv
  <2>1. 1 \in DOMAIN Passes
    BY DEF Passes
  <2>2. 0 \in 0..Len(s)
    BY <1>3
  <2> QED BY <1>1, <1>2, <2>1, <2>2 DEF TextInv
<1>6. SlotsInv
  BY <1>1, <1>3, ClearIs DEF SlotsInv
<1>7. FingerprintInv
  BY <1>1 DEF FingerprintInv, MaxTokens
<1>8. OrderInv
  <2>1. last_comment.type = NONE /\ last_comment.type # "c" /\ pos = 0 /\ pc # "finish"
    BY <1>1, <1>3, ClearIs DEF NONE
  <2> QED BY <2>1 DEF OrderInv
<1> QED BY <1>4, <1>5, <1>6, <1>7, <1>8 DEF TokensInv

\* Every step keeps the tokens.
LEMMA TokensKept == Spec => []TokensInv
<1>1. TokensInv /\ [Next]_vars => TokensInv'
  <2> SUFFICES ASSUME TokensInv, [Next]_vars PROVE TokensInv'
    OBVIOUS
  <2>1. CASE FetchTwo \/ FetchThree
    <3>1. ASSUME FetchTwo PROVE TokensInv'
      <4>1. pc \in {"two", "three"} /\ Fetch(2) /\ 2 \in 2..3
        BY <3>1 DEF FetchTwo
      <4> QED BY <4>1, FetchKeepsTokens
    <3>2. ASSUME FetchThree PROVE TokensInv'
      <4>1. pc \in {"two", "three"} /\ Fetch(3) /\ 3 \in 2..3
        BY <3>2 DEF FetchThree
      <4> QED BY <4>1, FetchKeepsTokens
    <3> QED BY <2>1, <3>1, <3>2
  <2>2. CASE SettleTwo \/ SettleThree
    <3>1. ASSUME SettleTwo PROVE TokensInv'
      <4>1. pc \in {"two", "three"} /\ Settle(2) /\ 2 \in 2..3
        BY <3>1 DEF SettleTwo
      <4> QED BY <4>1, SettleKeepsTokens
    <3>2. ASSUME SettleThree PROVE TokensInv'
      <4>1. pc \in {"two", "three"} /\ Settle(3) /\ 3 \in 2..3
        BY <3>2 DEF SettleThree
      <4> QED BY <4>1, SettleKeepsTokens
    <3> QED BY <2>2, <3>1, <3>2
  <2>3. CASE UNCHANGED vars
    <3>1. UNCHANGED <<s, reads, pass, at, vec, left, pos, more, last_comment, fingerprint, pc, verdict>>
      BY <2>3 DEF vars
    <3>2. IInv' /\ TextInv' /\ FingerprintInv'
      BY <3>1 DEF TokensInv, IInv, Window, TextInv, FingerprintInv
    <3>3. SlotsInv'
      BY <3>1 DEF TokensInv, SlotsInv, Slots, IsSlot
    <3>4. OrderInv'
      BY <3>1 DEF TokensInv, OrderInv
    <3> QED BY <3>2, <3>3, <3>4 DEF TokensInv
  <2> QED BY <2>1, <2>2, <2>3, SkipKeepsTokens, FoldFiveKeepsTokens, FoldTwoKeepsTokens, FoldThreeKeepsTokens,
             FinishKeepsTokens, FingerprintKeepsTokens, CheckKeepsTokens DEF Next
<1> QED BY <1>1, InitTokens, PTL DEF Spec

\* The numbers of the fold stay in the ranges of their arrays, and every token it
\* keeps starts in the text and is no longer than its buffer (token_t.val).
THEOREM TypeCorrect == Spec => []TypeOK
<1>1. TokensInv => TypeOK
  <2> SUFFICES ASSUME TokensInv PROVE TypeOK
    OBVIOUS
  <2>1. Len(s) \in Nat
    BY TextIs DEF TokensInv
  <2>2. \A i \in 0..MaxTokens : /\ vec[i].type \in TokenTypes \union {NONE}
                                /\ vec[i].len <= MaxVal /\ vec[i].pos <= Len(s)
    BY <2>1, SlotFacts DEF TokensInv, SlotsInv, Slots
  <2> QED BY <2>2 DEF TokensInv, IInv, TextInv, FingerprintInv, TypeOK
<1> QED BY <1>1, TokensKept, PTL

\* The tokens of the window stand in the order of the text: whatever the rules drop,
\* merge and copy, no token comes to stand before one that was read earlier.
THEOREM Order == Spec => []TokensInOrder
<1>1. TokensInv => TokensInOrder
  <2> SUFFICES ASSUME TokensInv PROVE TokensInOrder
    OBVIOUS
  <2>1. OrderInv
    BY DEF TokensInv
  <2> QED BY <2>1 DEF OrderInv, TokensInOrder
<1> QED BY <1>1, TokensKept, PTL

-----------------------------------------------------------------------------
\* Where strings end. The property speaks of runs of delimiters that are not escaped; the
\* code steps from one delimiter to the next.

\* The parity of a count: of the backslashes before a delimiter, of the delimiters in a row.
Odd(n) == n % 2 = 1
Even(n) == n % 2 = 0

\* Every number is odd or even, and the next one is the other.
LEMMA Parity ==
    /\ Odd(1) /\ Even(0)
    /\ \A n \in Nat : (Odd(n) <=> ~Even(n)) /\ (Odd(n) <=> ~Odd(n + 1))
  BY DEF Odd, Even

\* n backslashes stand before place q; they are all of those behind place b; and their
\* number (is_backslash_escaped).
Backslashes(u, q, n) == \A k \in 1..n : At(u, q - k) = "\\"
IsSlashes(u, b, q, n) == Backslashes(u, q, n) /\ (n < q - b => At(u, q - n - 1) # "\\")
Slashes(u, b, q) == CHOOSE n \in 0..(q - b) : IsSlashes(u, b, q, n)

\* A bounded set of numbers has a greatest one.
LEMMA GreatestOf ==
    ASSUME NEW N \in Nat, NEW S \in SUBSET (0..N), S # {}
    PROVE  Max(S) \in S /\ \A j \in S : j <= Max(S)
<1> DEFINE T == {n \in 0..N : N - n \in S}
<1>1. PICK j \in S : TRUE
  OBVIOUS
<1>2. N - j \in T /\ T \in SUBSET Nat
  BY <1>1
<1>3. Min(T) \in T /\ \A k \in T : Min(T) <= k
  BY <1>2, LeastOf
<1> DEFINE m == N - Min(T)
<1>4. m \in S
  BY <1>3
<1>5. \A k \in S : k <= m
  <2> SUFFICES ASSUME NEW k \in S PROVE k <= m
    OBVIOUS
  <2>1. N - k \in T /\ k \in 0..N
    OBVIOUS
  <2>2. Min(T) <= N - k /\ Min(T) \in 0..N
    BY <1>3, <2>1
  <2> QED BY <2>1, <2>2
<1> HIDE DEF m, T
<1> QED BY <1>4, <1>5 DEF Max

\* A delimiter is escaped when an odd number of backslashes stands before it, and after
\* another character it is not (is_backslash_escaped).
LEMMA SlashesAre ==
    ASSUME NEW u, NEW b \in Nat, NEW q \in Nat, b <= q
    PROVE  /\ Slashes(u, b, q) \in 0..(q - b)
           /\ is_backslash_escaped(u, q - 1, b) <=> Odd(Slashes(u, b, q))
           /\ b < q /\ At(u, q - 1) # "\\" => Slashes(u, b, q) = 0
<1> DEFINE D == q - b
           S == {n \in 0..((q - 1) - b + 1) : \A k \in 0..(n - 1) : At(u, (q - 1) - k) = "\\"}
           m == Max(S)
<1>1. D \in Nat /\ (q - 1) - b + 1 = D
  OBVIOUS
<1>2. \A n \in 0..D : n \in S <=> Backslashes(u, q, n)
  <2> SUFFICES ASSUME NEW n \in 0..D PROVE n \in S <=> Backslashes(u, q, n)
    OBVIOUS
  <2>1. ASSUME n \in S PROVE Backslashes(u, q, n)
    <3> SUFFICES ASSUME NEW k \in 1..n PROVE At(u, q - k) = "\\"
      BY DEF Backslashes
    <3>1. k - 1 \in 0..(n - 1) /\ (q - 1) - (k - 1) = q - k
      OBVIOUS
    <3>2. At(u, (q - 1) - (k - 1)) = "\\"
      BY <2>1, <3>1
    <3> QED BY <3>1, <3>2
  <2>2. ASSUME Backslashes(u, q, n) PROVE n \in S
    <3> SUFFICES ASSUME NEW k \in 0..(n - 1) PROVE At(u, (q - 1) - k) = "\\"
      BY <1>1
    <3>1. k + 1 \in 1..n /\ q - (k + 1) = (q - 1) - k
      OBVIOUS
    <3>2. At(u, q - (k + 1)) = "\\"
      BY <2>2, <3>1 DEF Backslashes
    <3> QED BY <3>1, <3>2
  <2> QED BY <2>1, <2>2
<1>3. 0 \in S /\ S \in SUBSET (0..D)
  BY <1>1
<1>4. is_backslash_escaped(u, q - 1, b) <=> Odd(m)
  BY DEF is_backslash_escaped, Odd
<1> HIDE DEF S, D
<1>5. m \in S /\ \A j \in S : j <= m
  BY <1>1, <1>3, GreatestOf
<1> HIDE DEF m
<1>6. m \in 0..D /\ IsSlashes(u, b, q, m)
  <2>1. m \in 0..D /\ Backslashes(u, q, m)
    BY <1>2, <1>3, <1>5
  <2>2. ASSUME m < D, At(u, q - m - 1) = "\\" PROVE FALSE
    <3>1. m + 1 \in 0..D /\ ~(m + 1 <= m)
      BY <1>1, <2>1, <2>2
    <3>2. Backslashes(u, q, m + 1)
      <4> SUFFICES ASSUME NEW k \in 1..(m + 1) PROVE At(u, q - k) = "\\"
        BY DEF Backslashes
      <4>1. k \in 1..m \/ (k = m + 1 /\ q - (m + 1) = q - m - 1)
        BY <1>1, <2>1 DEF D
      <4> QED BY <2>1, <2>2, <4>1 DEF Backslashes
    <3> QED BY <1>2, <1>5, <3>1, <3>2
  <2> QED BY <2>1, <2>2 DEF IsSlashes, D
<1>7. ASSUME NEW n \in 0..D, IsSlashes(u, b, q, n) PROVE n = m
  <2>1. n \in S
    BY <1>2, <1>7 DEF IsSlashes
  <2>2. n <= m
    BY <1>5, <2>1
  <2>3. ASSUME n < m PROVE FALSE
    <3>1. n + 1 \in 1..m /\ q - (n + 1) = q - n - 1 /\ n < q - b
      BY <1>6, <2>3 DEF D
    <3>2. At(u, q - n - 1) = "\\"
      BY <1>6, <3>1 DEF IsSlashes, Backslashes
    <3> QED BY <1>7, <3>1, <3>2 DEF IsSlashes
  <2> QED BY <1>6, <2>2, <2>3
<1>8. Slashes(u, b, q) = m
  BY <1>6, <1>7 DEF Slashes, D
<1>9. ASSUME b < q, At(u, q - 1) # "\\" PROVE m = 0
  <2>1. 0 \in 0..D /\ IsSlashes(u, b, q, 0)
    BY <1>1, <1>9 DEF IsSlashes, Backslashes
  <2> QED BY <1>7, <2>1
<1> QED BY <1>4, <1>6, <1>8, <1>9 DEF D

\* What holds of the numbers it comes past holds where it stops.
LEMMA Carried ==
    ASSUME NEW N \in Nat, NEW b \in 0..N, NEW stop, NEW h, NEW f, NEW J, NEW R,
           Onward(N, b, stop, h), Follows(f, N, b, stop, h),
           \A q \in J \cap (b..N) : q \in stop => q \in R,
           \A q \in J \cap (b..N) : q \notin stop => h[q] \in J
    PROVE  \A q \in J \cap (b..N) : f[q] \in R
<1> USE DEF Onward, Follows
<1> DEFINE K == {k \in 0..(N - b) : N - k \in J /\ f[N - k] \notin R}
<1>1. K \in SUBSET Nat
  OBVIOUS
<1>2. CASE K = {}
  <2> SUFFICES ASSUME NEW q \in J \cap (b..N) PROVE f[q] \in R
    OBVIOUS
  <2>1. N - q \in 0..(N - b) /\ N - (N - q) = q
    OBVIOUS
  <2>2. N - (N - q) \in J => f[N - (N - q)] \in R
    BY <1>2, <2>1
  <2> QED BY <2>1, <2>2
<1>3. ASSUME K # {} PROVE FALSE
  <2> DEFINE k == Min(K)
  <2>1. k \in K /\ \A j \in K : k <= j
    BY <1>1, <1>3, LeastOf
  <2> HIDE DEF k
  <2> DEFINE q == N - k
  <2>2. q \in J \cap (b..N) /\ f[q] \notin R
    BY <2>1
  <2>3. f[q] = IF q \in stop THEN q ELSE f[h[q]]
    BY <2>2
  <2>4. q \notin stop /\ h[q] \in (q + 1)..N /\ h[q] \in J
    BY <2>2, <2>3
  <2> DEFINE j == N - h[q]
  <2>5. j \in 0..(N - b) /\ j < k /\ N - j = h[q]
    BY <2>1, <2>2, <2>4
  <2>6. f[N - j] \in R
    <3> HIDE DEF j
    <3>1. j \notin K
      <4> HIDE DEF K
      <4>1. ~(k <= j) /\ k \in Nat /\ j \in Nat
        BY <2>1, <2>5 DEF K
      <4> QED BY <2>1, <4>1
    <3> QED BY <2>4, <2>5, <3>1
  <2> QED BY <2>2, <2>3, <2>4, <2>5, <2>6
<1> QED BY <1>2, <1>3

-----------------------------------------------------------------------------

\* The delimiters d behind b that no backslash escapes, the part up to q of a run of them,
\* and the ends of the runs of odd length: where a string may end.
Free(u, b, d) == {q \in b..(Len(u) - 1) : At(u, q) = d /\ Even(Slashes(u, b, q))}
Run(F, q) == {r \in F : r <= q /\ r..q \subseteq F}
Ends(F) == {q \in F : q + 1 \notin F /\ Odd(Cardinality(Run(F, q)))}

\* The first of a run is the first delimiter in it.
LEMMA RunAlone ==
    ASSUME NEW F \in SUBSET Nat, NEW q \in F, q - 1 \notin F
    PROVE  Odd(Cardinality(Run(F, q)))
<1>1. Run(F, q) = {q}
  <2>1. q \in Run(F, q)
    <3>1. q..q \subseteq {q}
      OBVIOUS
    <3> QED BY <3>1 DEF Run
  <2>2. ASSUME NEW r \in Run(F, q) PROVE r = q
    <3>1. r \in Nat /\ q \in Nat /\ r <= q /\ r..q \subseteq F
      BY DEF Run
    <3>2. r < q => q - 1 \in r..q
      BY <3>1
    <3> QED BY <3>1, <3>2
  <2> QED BY <2>1, <2>2
<1>2. Cardinality({q}) = 1
  BY FS_Singleton
<1> QED BY <1>1, <1>2, Parity

\* Each further delimiter of a run makes an odd number even and an even one odd.
LEMMA RunNext ==
    ASSUME NEW F \in SUBSET Nat, NEW q \in F, q + 1 \in F
    PROVE  Odd(Cardinality(Run(F, q + 1))) <=> ~Odd(Cardinality(Run(F, q)))
<1>0. q \in Nat
  OBVIOUS
<1>1. Run(F, q + 1) = Run(F, q) \union {q + 1}
  <2>1. ASSUME NEW r \in Run(F, q + 1), r # q + 1 PROVE r \in Run(F, q)
    <3>1. r \in F /\ r \in Nat /\ r <= q + 1 /\ r..(q + 1) \subseteq F
      BY DEF Run
    <3>2. r <= q /\ r..q \subseteq r..(q + 1)
      BY <1>0, <2>1, <3>1
    <3> QED BY <3>1, <3>2 DEF Run
  <2>2. ASSUME NEW r \in Run(F, q) PROVE r \in Run(F, q + 1)
    <3>1. r \in F /\ r \in Nat /\ r <= q /\ r..q \subseteq F
      BY DEF Run
    <3>2. r <= q + 1 /\ r..(q + 1) \subseteq (r..q) \union {q + 1}
      BY <1>0, <3>1
    <3> QED BY <3>1, <3>2 DEF Run
  <2>3. q + 1 \in Run(F, q + 1)
    <3>1. (q + 1)..(q + 1) \subseteq {q + 1}
      BY <1>0
    <3> QED BY <1>0, <3>1 DEF Run
  <2> QED BY <2>1, <2>2, <2>3
<1>2. Run(F, q) \subseteq 0..q
  <2> SUFFICES ASSUME NEW r \in Run(F, q) PROVE r \in 0..q
    OBVIOUS
  <2>1. r \in F /\ r <= q
    BY DEF Run
  <2> QED BY <1>0, <2>1
<1>3. IsFiniteSet(Run(F, q))
  <2>1. IsFiniteSet(0..q)
    BY <1>0, FS_Interval
  <2> QED BY <1>2, <2>1, FS_Subset
<1>4. q + 1 \notin Run(F, q)
  BY <1>0 DEF Run
<1>5. Cardinality(Run(F, q)) \in Nat /\ Cardinality(Run(F, q + 1)) = Cardinality(Run(F, q)) + 1
  BY <1>1, <1>3, <1>4, FS_AddElement, FS_CardinalityType
<1> QED BY <1>5, Parity

\* Behind a delimiter, another one is free.
LEMMA FreeNext ==
    ASSUME NEW u, Len(u) \in Nat, NEW d, d # "\\", d # NUL, NEW b \in Nat,
           NEW q \in b..(Len(u) - 1), At(u, q) = d
    PROVE  q + 1 \in Free(u, b, d) <=> is_double_delim_escaped(u, q)
<1>1. q + 1 \in Nat /\ b <= q + 1 /\ b < q + 1 /\ (q + 1) - 1 = q
  OBVIOUS
<1>2. At(u, (q + 1) - 1) # "\\"
  BY <1>1
<1>3. Slashes(u, b, q + 1) = 0
  BY <1>1, <1>2, SlashesAre
<1>4. q + 1 \in Free(u, b, d) <=> q + 1 \in b..(Len(u) - 1) /\ At(u, q + 1) = d
  BY <1>3, Parity DEF Free
<1> QED BY <1>1, <1>4 DEF is_double_delim_escaped

\* A delimiter is free unless the code finds it escaped (is_backslash_escaped).
LEMMA FreeIs ==
    ASSUME NEW u, Len(u) \in Nat, NEW d, NEW b \in Nat, NEW q \in b..(Len(u) - 1), At(u, q) = d
    PROVE  q \in Free(u, b, d) <=> ~is_backslash_escaped(u, q - 1, b)
<1>1. q \in Nat /\ b <= q
  OBVIOUS
<1>2. Slashes(u, b, q) \in Nat /\ (is_backslash_escaped(u, q - 1, b) <=> Odd(Slashes(u, b, q)))
  BY <1>1, SlashesAre
<1>3. Even(Slashes(u, b, q)) <=> ~Odd(Slashes(u, b, q))
  BY <1>2, Parity
<1> QED BY <1>2, <1>3 DEF Free

\* The search ends at the first end of a run of odd length, or at the end of the text when
\* there is none (parse_string_core): it steps over escaped delimiters one by one and over
\* the others in pairs, and so comes past no end of an odd run and into every first one.
LEMMA ClosingIs ==
    ASSUME NEW u, Len(u) \in Nat, NEW d, d # "\\", d # NUL, NEW b \in 0..Len(u)
    PROVE  LET e == ClosingFrom(u, d, b)
               F == Free(u, b, d)
           IN  IF e = Len(u) THEN Ends(F) = {} ELSE e \in Ends(F) /\ \A c \in Ends(F) : e <= c
<1> DEFINE N == Len(u)
           F == Free(u, b, d)
           stop == CloseStops(u, d, b)
           h == CloseGoes(u, d, b)
           next(p) == First(u, {d}, p)
           esc(q) == is_backslash_escaped(u, q - 1, b)
           dbl(q) == is_double_delim_escaped(u, q)
           J == {q \in b..N : /\ q = N \/ At(u, q) = d
                              /\ \A c \in Ends(F) : q <= c
                              /\ q \in F => Odd(Cardinality(Run(F, q)))}
           R == {q \in b..N : IF q = N THEN Ends(F) = {} ELSE q \in Ends(F) /\ \A c \in Ends(F) : q <= c}
<1>0. N \in Nat /\ b \in 0..N /\ b \in Nat /\ F \in SUBSET Nat
  <2>1. \A q \in F : q \in Nat
    BY DEF Free
  <2> QED BY <2>1
<1>1. \A q \in F : q \in b..(N - 1) /\ q \in Nat /\ q < N /\ At(u, q) = d
  BY DEF Free
<1>2. \A c \in Ends(F) : c \in F /\ c + 1 \notin F /\ Odd(Cardinality(Run(F, c)))
  BY DEF Ends
<1>3. \A q \in F : q + 1 \notin F /\ Odd(Cardinality(Run(F, q))) => q \in Ends(F)
  BY DEF Ends
<1>4. \A q \in b..(N - 1) : At(u, q) = d => (q \in F <=> ~esc(q)) /\ (q + 1 \in F <=> dbl(q))
  BY <1>0, FreeIs, FreeNext
<1>5. \A p \in 0..N : /\ next(p) \in p..N /\ (next(p) < N => At(u, next(p)) = d)
                      /\ \A k \in p..(next(p) - 1) : At(u, k) # d
  BY FirstIn
<1>6. /\ stop = {q \in b..N : q = N \/ (~esc(q) /\ ~dbl(q))}
      /\ h = [q \in b..N |-> IF esc(q) THEN next(q + 1) ELSE next(q + 2)]
  BY DEF CloseStops, CloseGoes
<1>7. \A q : dbl(q) => q + 1 < N
  BY DEF is_double_delim_escaped
<1>8. Onward(N, b, stop, h) /\ \E f : Follows(f, N, b, stop, h) /\ ClosingFrom(u, d, b) = f[next(b)]
  BY ClosingFollows
<1> HIDE DEF F, stop, h, next, esc, dbl, N
\* What next finds behind what is no longer free.
<1>9. ASSUME NEW p \in b..N, p = b \/ p - 1 \notin F, \A c \in Ends(F) : p <= c PROVE next(p) \in J
  <2> DEFINE q == next(p)
  <2>1. q \in p..N /\ (q < N => At(u, q) = d) /\ \A k \in p..(q - 1) : At(u, k) # d
    BY <1>0, <1>5
  <2> HIDE DEF q
  <2>2. \A c \in Ends(F) : q <= c
    <3> SUFFICES ASSUME NEW c \in Ends(F), ~(q <= c) PROVE FALSE
      OBVIOUS
    <3>1. c \in Nat /\ p <= c /\ At(u, c) = d
      BY <1>1, <1>2, <1>9
    <3>2. c \in p..(q - 1)
      BY <1>0, <2>1, <3>1
    <3> QED BY <2>1, <3>1, <3>2
  <2>3. q \in F => q - 1 \notin F
    <3> SUFFICES ASSUME q \in F, q - 1 \in F PROVE FALSE
      OBVIOUS
    <3>1. q - 1 \in b..(N - 1) /\ At(u, q - 1) = d
      BY <1>1
    <3>2. q = p \/ q - 1 \in p..(q - 1)
      BY <1>0, <2>1
    <3>3. q = p
      BY <2>1, <3>1, <3>2
    <3>4. p = b => ~(q - 1 \in b..(N - 1))
      BY <1>0, <3>3
    <3> QED BY <1>9, <3>1, <3>3, <3>4
  <2>4. q \in F => Odd(Cardinality(Run(F, q)))
    BY <1>0, <2>3, RunAlone
  <2>5. q \in b..N /\ (q = N \/ At(u, q) = d)
    BY <1>0, <2>1
  <2> QED BY <2>2, <2>4, <2>5 DEF q
<1>10. next(b) \in J
  <2>1. b \in b..N
    BY <1>0
  <2>2. ASSUME NEW c \in Ends(F) PROVE b <= c
    <3>1. c \in b..(N - 1)
      BY <1>1, <1>2
    <3> QED BY <1>0, <3>1
  <2> QED BY <1>9, <2>1, <2>2
<1>11. ASSUME NEW q \in J, q \in stop PROVE q \in R
  <2>1. q \in b..N /\ (q = N \/ At(u, q) = d) /\ (\A c \in Ends(F) : q <= c)
        /\ (q \in F => Odd(Cardinality(Run(F, q))))
    OBVIOUS
  <2>2. CASE q = N
    <3>1. ASSUME NEW c \in Ends(F) PROVE FALSE
      <4>1. c \in Nat /\ c < N /\ q <= c
        BY <1>1, <1>2, <2>1
      <4> QED BY <1>0, <2>2, <4>1
    <3> QED BY <2>1, <2>2, <3>1
  <2>3. CASE q # N
    <3>1. q \in b..(N - 1) /\ ~esc(q) /\ ~dbl(q)
      BY <1>0, <1>6, <1>11, <2>1, <2>3
    <3>2. q \in F /\ q + 1 \notin F
      BY <1>4, <2>1, <2>3, <3>1
    <3> QED BY <1>3, <2>1, <2>3, <3>2
  <2> QED BY <2>2, <2>3
<1>12. ASSUME NEW q \in J, q \notin stop PROVE h[q] \in J
  <2>1. q \in b..N /\ (q = N \/ At(u, q) = d) /\ (\A c \in Ends(F) : q <= c)
        /\ (q \in F => Odd(Cardinality(Run(F, q))))
    OBVIOUS
  <2> HIDE DEF J, R
  <2>2. q \in b..(N - 1) /\ q # N /\ (esc(q) \/ dbl(q)) /\ At(u, q) = d
    BY <1>0, <1>6, <1>12, <2>1
  <2>3. \A c \in Ends(F) : c \in Nat
    BY <1>1, <1>2
  <2>4. CASE esc(q)
    <3>1. q \notin F
      BY <1>4, <2>2, <2>4
    <3>2. q + 1 \in b..N /\ (q + 1) - 1 = q
      BY <1>0, <2>2
    <3>3. \A c \in Ends(F) : q + 1 <= c
      <4> SUFFICES ASSUME NEW c \in Ends(F) PROVE q + 1 <= c
        OBVIOUS
      <4>1. q <= c /\ c # q /\ c \in Nat
        BY <1>2, <2>1, <2>3, <3>1
      <4> QED BY <1>0, <2>2, <4>1
    <3>4. next(q + 1) \in J
      BY <1>9, <3>1, <3>2, <3>3
    <3>5. h[q] = next(q + 1)
      BY <1>6, <2>1, <2>4
    <3> QED BY <3>4, <3>5
  <2>5. CASE ~esc(q)
    <3>1. q \in F /\ q + 1 \in F /\ dbl(q)
      BY <1>4, <2>2, <2>5
    <3>2. q + 2 \in b..N /\ q + 2 \in 0..N /\ (q + 2) - 1 = q + 1 /\ (q + 1) + 1 = q + 2
      BY <1>0, <1>7, <2>2, <3>1
    <3>3. Odd(Cardinality(Run(F, q))) /\ ~Odd(Cardinality(Run(F, q + 1)))
      BY <1>0, <2>1, <3>1, RunNext
    <3>4. \A c \in Ends(F) : q + 2 <= c
      <4> SUFFICES ASSUME NEW c \in Ends(F) PROVE q + 2 <= c
        OBVIOUS
      <4>1. q <= c /\ c # q /\ c # q + 1 /\ c \in Nat
        BY <1>2, <2>1, <2>3, <3>1, <3>3
      <4> QED BY <1>0, <2>2, <4>1
    <3>5. h[q] = next(q + 2)
      BY <1>6, <2>1, <2>5
    <3> DEFINE r == next(q + 2)
    <3>6. r \in (q + 2)..N /\ (r < N => At(u, r) = d) /\ \A k \in (q + 2)..(r - 1) : At(u, k) # d
      BY <1>5, <3>2
    <3> HIDE DEF r
    <3>7. \A c \in Ends(F) : r <= c
      <4> SUFFICES ASSUME NEW c \in Ends(F), ~(r <= c) PROVE FALSE
        OBVIOUS
      <4>1. c \in Nat /\ q + 2 <= c /\ At(u, c) = d
        BY <1>1, <1>2, <3>4
      <4>2. c \in (q + 2)..(r - 1)
        BY <1>0, <3>2, <3>6, <4>1
      <4> QED BY <3>6, <4>1, <4>2
    <3>8. r \in F => Odd(Cardinality(Run(F, r)))
      <4> SUFFICES ASSUME r \in F PROVE Odd(Cardinality(Run(F, r)))
        OBVIOUS
      <4>1. CASE r = q + 2
        <5>1. Odd(Cardinality(Run(F, (q + 1) + 1))) <=> ~Odd(Cardinality(Run(F, q + 1)))
          <6>1. (q + 1) + 1 \in F
            BY <3>2, <4>1
          <6> HIDE DEF r
          <6> QED BY <1>0, <3>1, <6>1, RunNext
        <5> QED BY <3>2, <3>3, <4>1, <5>1
      <4>2. CASE r # q + 2
        <5>1. r - 1 \in (q + 2)..(r - 1)
          BY <1>0, <2>2, <3>6, <4>2
        <5>2. r - 1 \notin F
          BY <1>1, <3>6, <5>1
        <5> QED BY <1>0, <5>2, RunAlone
      <4> QED BY <4>1, <4>2
    <3>9. r \in b..N /\ (r = N \/ At(u, r) = d)
      BY <1>0, <3>2, <3>6
    <3>10. r \in J
      BY <3>7, <3>8, <3>9 DEF J
    <3> QED BY <3>5, <3>10 DEF r
  <2> QED BY <2>4, <2>5
<1>13. PICK f : Follows(f, N, b, stop, h) /\ ClosingFrom(u, d, b) = f[next(b)]
  BY <1>8
<1>14. next(b) \in J \cap (b..N)
  BY <1>10
<1> HIDE DEF J, R
<1>15. f[next(b)] \in R
  BY <1>0, <1>8, <1>11, <1>12, <1>13, <1>14, Carried
<1>16. ClosingFrom(u, d, b) \in R
  BY <1>13, <1>15
<1> QED BY <1>16 DEF R, N, F

\* The delimiter of a string in a text that is read from inside such a quote.
DelimiterIn(t, quote) == IF t.str_open = NONE THEN quote ELSE IF t.str_open = "u" THEN "'" ELSE t.str_open
\* The token ends where a string of the text ends: what StringsCloseRight says of one token.
ClosesRight(u, quote, t) ==
    LET closings == Ends(Free(u, t.pos, DelimiterIn(t, quote)))
    IN  t.type = "s" /\ t.str_open \notin {"q", "$"} /\ t.len < MaxVal =>
        IF t.str_close = NONE THEN closings = {} /\ t.pos + t.len = Len(u)
        ELSE closings # {} /\ t.pos + t.len = Min(closings)
\* What is no string, or one between words.
Unquoted(t) == t.type # "s" \/ t.str_open \in {"q", "$"}

\* Of what is no string in quotes there is nothing to say.
LEMMA UnquotedCloses ==
    ASSUME NEW t, Unquoted(t)
    PROVE  \A u, quote : ClosesRight(u, quote, t)
  BY DEF Unquoted, ClosesRight

\* What st_assign leaves in a token.
LEMMA AssignWas ==
    ASSUME NEW type, NEW u, NEW p, NEW n
    PROVE  LET t == st_assign(type, u, p, n)
           IN  /\ t.type = type /\ t.pos = p /\ t.str_open = NONE /\ t.str_close = NONE
               /\ t.len = IF n > MaxVal THEN MaxVal ELSE n
               /\ t = [type |-> type, pos |-> p, len |-> t.len, val |-> t.val, str_open |-> NONE, str_close |-> NONE]
<1> DEFINE l == IF n > MaxVal THEN MaxVal ELSE n
           v == String(u, p, l)
<1>1. st_assign(type, u, p, n) = [st_clear EXCEPT !.type = type, !.pos = p, !.len = l, !.val = v]
  BY DEF st_assign
<1> HIDE DEF l, v
<1>2. st_assign(type, u, p, n) =
        [type |-> type, pos |-> p, len |-> l, val |-> v, str_open |-> NONE, str_close |-> NONE]
  BY <1>1 DEF st_clear
<1> HIDE DEF st_assign
<1>3. st_assign(type, u, p, n).len = l
  BY <1>2
<1> QED BY <1>2, <1>3 DEF l

\* A member that is at most every other is the least.
LEMMA LeastIs ==
    ASSUME NEW S \in SUBSET Nat, NEW e \in S, \A c \in S : e <= c
    PROVE  Min(S) = e
<1>1. Min(S) \in S /\ \A j \in S : Min(S) <= j
  BY LeastOf
<1>2. e \in Nat /\ Min(S) \in Nat /\ Min(S) <= e /\ e <= Min(S)
  BY <1>1
<1> QED BY <1>2

\* The string in quotes from b to e.
StringToken(u, b, e, open, close, t) ==
    /\ t.type = "s" /\ t.pos = b /\ t.len = (IF e - b > MaxVal THEN MaxVal ELSE e - b)
    /\ t.str_open = open /\ t.str_close = close

\* The quotes of a string.
Quotes == {"'", "\""}

\* The quotes are no backslash and no mark of another kind of string.
LEMMA QuotesAre == \A d \in Quotes : d # "\\" /\ d # NUL /\ d # NONE /\ d # TICK /\ d \notin {"q", "$", "u"}
  BY DEF Quotes, NUL, NONE, TICK

\* A token from behind the opening quote to where the search ends closes right.
LEMMA StringCloses ==
    ASSUME NEW u, Len(u) \in Nat, NEW d \in Quotes, NEW b \in 0..Len(u), NEW t, NEW quote,
           NEW open, NEW close, NEW e, e = ClosingFrom(u, d, b), close = NONE <=> e = Len(u),
           StringToken(u, b, e, open, close, t), DelimiterIn(t, quote) = d
    PROVE  ClosesRight(u, quote, t)
<1> DEFINE E == Ends(Free(u, b, d))
<1>1. d # "\\" /\ d # NUL
  BY QuotesAre
<1>2. /\ e = Len(u) => E = {}
      /\ e # Len(u) => e \in E /\ \A c \in E : e <= c
  BY <1>1, ClosingIs
<1>3. e \in b..Len(u)
  BY ClosingIn
<1>4. \A c \in E : c \in Nat
  BY DEF Ends, Free
<1>5. t.pos = b /\ t.str_close = close /\ t.len = IF e - b > MaxVal THEN MaxVal ELSE e - b
  BY DEF StringToken
<1>6. E = Ends(Free(u, t.pos, DelimiterIn(t, quote)))
  BY <1>5
<1> HIDE DEF E
<1>7. SUFFICES ASSUME t.len < MaxVal
               PROVE  /\ t.str_close = NONE => E = {} /\ t.pos + t.len = Len(u)
                      /\ t.str_close # NONE => E # {} /\ t.pos + t.len = Min(E)
  BY <1>6 DEF ClosesRight
<1>8. t.pos + t.len = e
  BY <1>3, <1>5, <1>7 DEF MaxVal
<1>9. CASE e = Len(u)
  BY <1>2, <1>5, <1>8, <1>9
<1>10. CASE e # Len(u)
  <2>1. e \in E /\ \A c \in E : e <= c
    BY <1>2, <1>10
  <2>2. E \in SUBSET Nat
    BY <1>4
  <2>3. Min(E) = e
    BY <2>1, <2>2, LeastIs
  <2> QED BY <1>5, <1>8, <1>10, <2>1, <2>3
<1> QED BY <1>9, <1>10

\* The token of parse_string_core: from behind the quote to where the search ends.
LEMMA CoreIs ==
    ASSUME NEW u, NEW p \in Nat, NEW d, NEW offset \in Nat
    PROVE  LET r == parse_string_core(u, p, d, offset)
               e == ClosingFrom(u, d, p + offset)
           IN  /\ StringToken(u, p + offset, e, IF offset > 0 THEN d ELSE NONE, IF e < Len(u) THEN d ELSE NONE, r.current)
               /\ DOMAIN r = {"current", "pos", "ddx", "hash"}
               /\ DOMAIN r.current = {"type", "pos", "len", "val", "str_open", "str_close"}
<1> DEFINE b == p + offset
           e == ClosingFrom(u, d, b)
           next == IF e < Len(u) THEN e + 1 ELSE e
           a == st_assign("s", u, b, e - b)
           open == IF offset > 0 THEN d ELSE NONE
           close == IF e < Len(u) THEN d ELSE NONE
           t == [a EXCEPT !.str_open = open, !.str_close = close]
<1>1. parse_string_core(u, p, d, offset) = [current |-> t, pos |-> next, ddx |-> 0, hash |-> 0]
  BY DEF parse_string_core, Result
<1>2. /\ a.type = "s" /\ a.pos = b /\ a.len = IF e - b > MaxVal THEN MaxVal ELSE e - b
      /\ a = [type |-> "s", pos |-> b, len |-> a.len, val |-> a.val, str_open |-> NONE, str_close |-> NONE]
  BY AssignWas
<1> HIDE DEF a, open, close, next, e, b
<1>3. StringToken(u, b, e, open, close, t) /\ DOMAIN t = {"type", "pos", "len", "val", "str_open", "str_close"}
  BY <1>2 DEF StringToken
<1> HIDE DEF t
<1>4. /\ parse_string_core(u, p, d, offset).current = t
      /\ DOMAIN parse_string_core(u, p, d, offset) = {"current", "pos", "ddx", "hash"}
  BY <1>1
<1> QED BY <1>3, <1>4 DEF b, e, open, close

-----------------------------------------------------------------------------
\* What each parser of the tokenizer returns: a string in quotes that closes right, or none.

\* A string in quotes ends where it should: at the start of the text, in the quote
\* that the text is read in, or behind its own.
LEMMA CoreCloses ==
    ASSUME NEW u, Len(u) \in Nat, NEW p \in Nat, NEW d \in Quotes, NEW offset \in Nat, p + offset <= Len(u),
           NEW quote, offset > 0 \/ quote = d
    PROVE  ClosesRight(u, quote, parse_string_core(u, p, d, offset).current)
<1> DEFINE b == p + offset
           e == ClosingFrom(u, d, b)
           t == parse_string_core(u, p, d, offset).current
           open == IF offset > 0 THEN d ELSE NONE
           close == IF e < Len(u) THEN d ELSE NONE
<1>1. b \in 0..Len(u)
  OBVIOUS
<1>2. StringToken(u, b, e, open, close, t)
  BY CoreIs
<1> HIDE DEF b, t
<1>3. e \in b..Len(u)
  BY <1>1, ClosingIn
<1>4. close = NONE <=> e = Len(u)
  <2>1. d # NONE
    BY QuotesAre
  <2> HIDE DEF e
  <2> QED BY <1>1, <1>3, <2>1
<1>5. t.str_open = open
  BY <1>2 DEF StringToken
<1>6. DelimiterIn(t, quote) = d
  <2>1. d # NONE /\ d # "u"
    BY QuotesAre
  <2> QED BY <1>5, <2>1 DEF DelimiterIn
<1> HIDE DEF open, close
<1> QED BY <1>1, <1>2, <1>4, <1>6, StringCloses DEF b, t

\* A token that is all of the text a parser goes over has the type it is given.
LEMMA WholeIs ==
    ASSUME NEW type, NEW u, NEW p, NEW next
    PROVE  Whole(type, u, p, next).current.type = type
  BY AssignWas DEF Whole, Result

\* No word of the table is a string, nor is what has another type.
LEMMA NoString ==
    /\ \A word : is_keyword(word) # "s"
    /\ \A t : t.type \in WordTypes \union {NONE, "X", "c", "?", "\\", ":"} => Unquoted(t)
<1>1. "s" \notin WordTypes \union {NONE, "X", "c", "?", "\\", ":"}
  BY DEF WordTypes, NONE
<1> QED BY <1>1, KeywordType DEF Unquoted

\* A word is no string (parse_word).
LEMMA WordUnquoted ==
    ASSUME NEW u, NEW p
    PROVE  Unquoted(parse_word(u, p).current)
<1> DEFINE types == WordTypes \union {NONE}
<1>1. \A word : is_keyword(word) \in types
  BY KeywordType
<1>2. "n" \in types
  BY DEF WordTypes
<1> HIDE DEF types
<1>3. \A type \in types : \A q : Unquoted(Whole(type, u, p, q).current)
  <2> SUFFICES ASSUME NEW type \in types, NEW q PROVE Unquoted(Whole(type, u, p, q).current)
    OBVIOUS
  <2>1. Whole(type, u, p, q).current.type = type
    BY WholeIs
  <2> QED BY <2>1, NoString DEF types
<1>4. \E type \in types : \E q : parse_word(u, p) = Whole(type, u, p, q)
  BY <1>1, <1>2 DEF parse_word
<1> QED BY <1>3, <1>4

\* The types of the tokens that are no strings.
Plain == WordTypes \union {NONE, "X", "c", "?", "\\", ":", ".", "(", ")", "{", "}", ",", ";"}

\* They are not, and every word of the table has one of them.
LEMMA PlainAre ==
    /\ \A t : t.type \in Plain => Unquoted(t)
    /\ \A word : is_keyword(word) \in Plain
    /\ {"o", "?", "c", "X", "1", "\\", ":", "n", "v", "f", "."} \subseteq Plain
<1>1. "s" \notin Plain /\ {"o", "?", "c", "X", "1", "\\", ":", "n", "v", "f", "."} \subseteq Plain
  BY DEF Plain, WordTypes, NONE
<1> QED BY <1>1, KeywordType DEF Plain, Unquoted

\* A token that is given such a type is no string.
LEMMA WholePlain ==
    \A type \in Plain : \A u, p, next : Unquoted(Whole(type, u, p, next).current)
  BY WholeIs, PlainAre

\* Nor is one that is given it later.
LEMMA RetypePlain ==
    ASSUME NEW r, "current" \in DOMAIN r, "type" \in DOMAIN r.current, NEW type \in Plain
    PROVE  Unquoted([r EXCEPT !.current.type = type].current)
<1>1. [r EXCEPT !.current.type = type].current.type = type
  OBVIOUS
<1> QED BY <1>1, PlainAre

\* A comment is no string (parse_eol_comment).
LEMMA CommentPlain ==
    ASSUME NEW u, NEW p
    PROVE  Unquoted(parse_eol_comment(u, p).current)
<1> DEFINE e == First(u, {"\n"}, p)
           t == st_assign("c", u, p, e - p)
<1>1. t.type = "c"
  BY AssignWas
<1> HIDE DEF t
<1>2. \A next : Result(t, next).current = t
  BY DEF Result
<1>3. parse_eol_comment(u, p).current = t
  BY <1>2 DEF parse_eol_comment, t
<1> QED BY <1>1, <1>3, PlainAre

\* The parsers of signs, numbers and comments return no string.
LEMMA SignsPlain ==
    ASSUME NEW u, NEW p, NEW flags
    PROVE  /\ Unquoted(parse_operator1(u, p).current) /\ Unquoted(parse_other(u, p).current)
           /\ Unquoted(parse_hash(u, p, flags).current) /\ Unquoted(parse_dash(u, p, flags).current)
           /\ Unquoted(parse_slash(u, p).current) /\ Unquoted(parse_backslash(u, p).current)
           /\ Unquoted(parse_operator2(u, p).current) /\ Unquoted(parse_bword(u, p).current)
           /\ Unquoted(parse_number(u, p).current)
           /\ At(u, p) \in AsciiParsers["char"] => Unquoted(parse_char(u, p).current)
<1>1. \A type \in {"o", "?", "c", "X", "1", "\\", ":", "n", "v", "f", "."} : \A q, next : Unquoted(Whole(type, u, q, next).current)
  BY WholePlain, PlainAre
<1>2. \A word : \A next : Unquoted(Whole(is_keyword(word), u, p, next).current)
  BY WholePlain, PlainAre
<1>3. \A type : \A q : parse_one(type, u, q) = Whole(type, u, q, q + 1)
  BY DEF parse_one
<1>4. \A type \in {"o", "?", "\\", ":", "."} : Unquoted(parse_one(type, u, p).current)
  BY <1>1, <1>3
<1>5. Unquoted(parse_operator1(u, p).current)
  BY <1>4 DEF parse_operator1
<1>6. Unquoted(parse_other(u, p).current)
  BY <1>4 DEF parse_other
<1>7. Unquoted(parse_hash(u, p, flags).current)
  <2>1. \A n : [parse_eol_comment(u, p) EXCEPT !.hash = n].current = parse_eol_comment(u, p).current
    BY DEF parse_eol_comment, Result
  <2>2. \A n : [parse_operator1(u, p) EXCEPT !.hash = n].current = parse_operator1(u, p).current
    BY DEF parse_operator1, parse_one, Whole, Result
  <2> QED BY <2>1, <2>2, <1>5, CommentPlain DEF parse_hash
<1>8. Unquoted(parse_dash(u, p, flags).current)
  <2>1. \A n : [parse_eol_comment(u, p) EXCEPT !.ddx = n].current = parse_eol_comment(u, p).current
    BY DEF parse_eol_comment, Result
  <2> QED BY <2>1, <1>5, CommentPlain DEF parse_dash
<1>9. Unquoted(parse_slash(u, p).current)
  <2>1. \E type \in {"X", "c"} : \E next : parse_slash(u, p) = parse_operator1(u, p) \/ parse_slash(u, p) = Whole(type, u, p, next)
    BY DEF parse_slash
  <2> QED BY <2>1, <1>1, <1>5
<1>10. Unquoted(parse_backslash(u, p).current)
  BY <1>1, <1>4 DEF parse_backslash
<1>11. Unquoted(parse_operator2(u, p).current)
  BY <1>1, <1>2, <1>4, <1>5 DEF parse_operator2
<1>12. Unquoted(parse_bword(u, p).current)
  <2>1. \E next : parse_bword(u, p) = Whole("n", u, p, next)
    BY DEF parse_bword
  <2> QED BY <2>1, <1>1
<1>13. Unquoted(parse_number(u, p).current)
  <2>1. \/ \E type \in {"n", "1"} : \E next : parse_number(u, p) = Whole(type, u, p, next)
        \/ parse_number(u, p) = parse_one(".", u, p)
    BY DEF parse_number
  <2> QED BY <2>1, <1>1, <1>4
<1>14. ASSUME At(u, p) \in AsciiParsers["char"] PROVE Unquoted(parse_char(u, p).current)
  <2>1. AsciiParsers["char"] \subseteq Plain
    BY DEF AsciiParsers, Plain
  <2>2. At(u, p) \in Plain
    BY <1>14, <2>1
  <2>3. Unquoted(Whole(At(u, p), u, p, p + 1).current)
    BY <2>2, WholePlain
  <2> QED BY <1>3, <2>3 DEF parse_char
<1> QED BY <1>5, <1>6, <1>7, <1>8, <1>9, <1>10, <1>11, <1>12, <1>13, <1>14

\* What a parser returns holds a token with a type.
CoreRecord(r) == "current" \in DOMAIN r /\ "type" \in DOMAIN r.current

\* parse_string_core returns one.
LEMMA CoreRecords ==
    ASSUME NEW u, NEW p \in Nat, NEW d, NEW offset \in Nat
    PROVE  CoreRecord(parse_string_core(u, p, d, offset))
  BY CoreIs DEF CoreRecord

\* A name in ticks is no string (parse_tick).
LEMMA TickPlain ==
    ASSUME NEW u, NEW p \in Nat
    PROVE  Unquoted(parse_tick(u, p).current) /\ CoreRecord(parse_tick(u, p))
<1> DEFINE r == parse_string_core(u, p, TICK, 1)
           type == IF is_keyword(r.current.val) = "f" THEN "f" ELSE "n"
<1>1. CoreRecord(r)
  BY CoreRecords
<1>2. type \in Plain
  BY PlainAre
<1>3. parse_tick(u, p) = [r EXCEPT !.current.type = type]
  BY DEF parse_tick
<1> HIDE DEF r, type
<1>4. Unquoted([r EXCEPT !.current.type = type].current)
  BY <1>1, <1>2, RetypePlain DEF CoreRecord
<1>5. CoreRecord([r EXCEPT !.current.type = type])
  BY <1>1 DEF CoreRecord
<1> QED BY <1>3, <1>4, <1>5

\* A variable is no string, even when its name stands in quotes (parse_var).
LEMMA VarPlain ==
    ASSUME NEW u, NEW p \in Nat
    PROVE  Unquoted(parse_var(u, p).current)
<1> DEFINE q == IF At(u, p + 1) = "@" THEN p + 2 ELSE p + 1
           variable(r) == [r EXCEPT !.current.type = "v"]
<1>1. q \in Nat
  OBVIOUS
<1> HIDE DEF q
<1>2. "v" \in Plain
  BY PlainAre
<1>3. \A r : CoreRecord(r) => Unquoted(variable(r).current)
  BY <1>2, RetypePlain DEF CoreRecord
<1>4. CoreRecord(parse_tick(u, q)) /\ CoreRecord(parse_string(u, q))
  BY <1>1, TickPlain, CoreRecords DEF parse_string
<1>5. \A next : Unquoted(Whole("v", u, q, next).current)
  BY <1>2, WholePlain
<1>6. parse_var(u, p) \in {variable(parse_tick(u, q)), variable(parse_string(u, q)), Whole("v", u, q, First(u, VarEnds, q))}
  BY DEF parse_var, q
<1> HIDE DEF variable
<1> QED BY <1>3, <1>4, <1>5, <1>6

\* A string between words.
LEMMA TaggedPlain ==
    ASSUME NEW u, NEW b, NEW n, NEW kind \in {"q", "$"}, NEW d, NEW next
    PROVE  Unquoted(Result([st_assign("s", u, b, n) EXCEPT !.str_open = kind, !.str_close = d], next).current)
<1> DEFINE a == st_assign("s", u, b, n)
           t == [a EXCEPT !.str_open = kind, !.str_close = d]
<1>1. a = [type |-> "s", pos |-> b, len |-> a.len, val |-> a.val, str_open |-> NONE, str_close |-> NONE]
  BY AssignWas
<1> HIDE DEF a
<1>2. t.str_open = kind
  BY <1>1
<1> HIDE DEF t
<1>3. Result(t, next).current = t
  BY DEF Result
<1>4. Unquoted(Result(t, next).current)
  BY <1>2, <1>3 DEF Unquoted
<1> QED BY <1>4 DEF t, a

\* A string between brackets of its choice is none in quotes (parse_qstring_core).
LEMMA BracketedPlain ==
    ASSUME NEW u, NEW b, NEW closing, NEW kind \in {"q", "$"}
    PROVE  Unquoted(Bracketed(u, b, closing, kind).current)
<1> DEFINE R(n, d, next) == Result([st_assign("s", u, b, n) EXCEPT !.str_open = kind, !.str_close = d], next)
<1>1. \A n, d, next : Unquoted(R(n, d, next).current)
  BY TaggedPlain
<1>2. \E n, d, next : Bracketed(u, b, closing, kind) = R(n, d, next)
  BY DEF Bracketed
<1> HIDE DEF R
<1> QED BY <1>1, <1>2

\* Nor is any other that parse_qstring_core returns.
LEMMA QstringPlain ==
    ASSUME NEW u, NEW p, NEW offset
    PROVE  Unquoted(parse_qstring_core(u, p, offset).current)
<1>1. \A b, closing : Unquoted(Bracketed(u, b, closing, "q").current)
  BY BracketedPlain
<1>2. \/ parse_qstring_core(u, p, offset) = parse_word(u, p)
      \/ \E b, closing : parse_qstring_core(u, p, offset) = Bracketed(u, b, closing, "q")
  BY DEF parse_qstring_core
<1> QED BY <1>1, <1>2, WordUnquoted

\* A literal in digits is a number or a word (parse_bstring, parse_xstring).
LEMMA LiteralPlain ==
    ASSUME NEW u, NEW p, NEW digits
    PROVE  Unquoted(Literal(u, p, digits).current)
<1>1. \A next : Unquoted(Whole("1", u, p, next).current)
  BY WholePlain, PlainAre
<1>2. \/ Literal(u, p, digits) = parse_word(u, p)
      \/ \E next : Literal(u, p, digits) = Whole("1", u, p, next)
  BY DEF Literal
<1> QED BY <1>1, <1>2, WordUnquoted

\* What follows a dollar sign is a number, a word or a string between tags (parse_money).
LEMMA MoneyPlain ==
    ASSUME NEW u, NEW p
    PROVE  Unquoted(parse_money(u, p).current)
<1> DEFINE R(b, n, d, next) == Result([st_assign("s", u, b, n) EXCEPT !.str_open = "$", !.str_close = d], next)
<1>1. \A b, n, d, next : Unquoted(R(b, n, d, next).current)
  BY TaggedPlain
<1>2. \A b, closing : Unquoted(Bracketed(u, b, closing, "$").current)
  BY BracketedPlain
<1>3. \A type \in {"1", "n"} : \A next : Unquoted(Whole(type, u, p, next).current)
  BY WholePlain, PlainAre
<1>4. \/ parse_money(u, p) = parse_word(u, p)
      \/ \E type \in {"1", "n"} : \E next : parse_money(u, p) = Whole(type, u, p, next)
      \/ \E b, closing : parse_money(u, p) = Bracketed(u, b, closing, "$")
      \/ \E b, n, d, next : parse_money(u, p) = R(b, n, d, next)
  BY DEF parse_money, parse_one
<1> HIDE DEF R
<1> QED BY <1>1, <1>2, <1>3, <1>4, WordUnquoted

-----------------------------------------------------------------------------

\* The three parsers of strings in quotes return what closes right (parse_string,
\* parse_estring, parse_ustring).
LEMMA QuotedStrings ==
    ASSUME NEW u, NEW p, Place(u, p), NEW quote
    PROVE  /\ At(u, p) \in Quotes => ClosesRight(u, quote, parse_string(u, p).current)
           /\ ClosesRight(u, quote, parse_estring(u, p).current)
           /\ ClosesRight(u, quote, parse_ustring(u, p).current)
<1>0. Len(u) \in Nat /\ p \in Nat /\ p < Len(u) /\ "'" \in Quotes
  BY DEF Place, Quotes
<1>1. ASSUME At(u, p) \in Quotes PROVE ClosesRight(u, quote, parse_string(u, p).current)
  <2>1. p + 1 <= Len(u)
    BY <1>0
  <2>2. ClosesRight(u, quote, parse_string_core(u, p, At(u, p), 1).current)
    <3>1. 1 \in Nat /\ 1 > 0
      OBVIOUS
    <3> QED BY ONLY <1>0, <1>1, <2>1, <3>1, CoreCloses
  <2> QED BY <2>2 DEF parse_string
<1>2. ClosesRight(u, quote, parse_word(u, p).current)
  BY WordUnquoted, UnquotedCloses
<1>3. ClosesRight(u, quote, parse_estring(u, p).current)
  <2>1. CASE Quoted(u, p)
    <3>1. p + 2 <= Len(u)
      BY <1>0, <2>1 DEF Quoted
    <3>2. ClosesRight(u, quote, parse_string_core(u, p, "'", 2).current)
      <4>1. 2 \in Nat /\ 2 > 0
        OBVIOUS
      <4> QED BY ONLY <1>0, <3>1, <4>1, CoreCloses
    <3> QED BY <2>1, <3>2 DEF parse_estring
  <2>2. CASE ~Quoted(u, p)
    BY <1>2, <2>2 DEF parse_estring
  <2> QED BY <2>1, <2>2
<1>4. ClosesRight(u, quote, parse_ustring(u, p).current)
  <2>1. CASE At(u, p + 1) = "&" /\ At(u, p + 2) = "'"
    <3> DEFINE q == p + 2
               e == ClosingFrom(u, "'", q + 1)
               r == parse_string_core(u, q, "'", 1)
               t == parse_ustring(u, p).current
               close == IF e < Len(u) THEN "u" ELSE NONE
    <3>0. At(u, q) # NUL
      BY <2>1 DEF NUL
    <3>1. q < Len(u)
      BY <3>0, AtInside
    <3>2. q + 1 \in 0..Len(u) /\ q \in Nat
      BY <1>0, <3>1
    <3>3. parse_string(u, q) = r
      BY <2>1 DEF parse_string
    <3>4. /\ StringToken(u, q + 1, e, "'", IF e < Len(u) THEN "'" ELSE NONE, r.current)
          /\ DOMAIN r = {"current", "pos", "ddx", "hash"}
          /\ DOMAIN r.current = {"type", "pos", "len", "val", "str_open", "str_close"}
      BY <3>2, CoreIs
    <3>5. parse_ustring(u, p) = [r EXCEPT !.current.str_open = "u", !.current.str_close = IF @ = "'" THEN "u" ELSE @]
      BY <2>1, <3>3 DEF parse_ustring
    <3> HIDE DEF q, r
    <3>6. /\ t.type = r.current.type /\ t.pos = r.current.pos /\ t.len = r.current.len /\ t.str_open = "u"
          /\ t.str_close = IF r.current.str_close = "'" THEN "u" ELSE r.current.str_close
      BY <3>4, <3>5
    <3> HIDE DEF t
    <3>7. "'" # NONE /\ "u" # NONE
      BY DEF NONE
    <3>8. e \in (q + 1)..Len(u)
      BY <1>0, <3>2, ClosingIn
    <3> HIDE DEF e
    <3>9. StringToken(u, q + 1, e, "u", close, t)
      BY <3>4, <3>6, <3>7 DEF StringToken
    <3>10. close = NONE <=> e = Len(u)
      BY <1>0, <3>7, <3>8
    <3> HIDE DEF close
    <3>11. DelimiterIn(t, quote) = "'"
      BY <3>6, <3>7 DEF DelimiterIn
    <3> QED BY <1>0, <3>2, <3>9, <3>10, <3>11, StringCloses DEF t, e
  <2>2. CASE ~(At(u, p + 1) = "&" /\ At(u, p + 2) = "'")
    BY <1>2, <2>2 DEF parse_ustring
  <2> QED BY <2>1, <2>2
<1> QED BY <1>1, <1>3, <1>4

\* So does every parser that the table of characters names.
LEMMA ParseCloses ==
    ASSUME NEW u, NEW p, Place(u, p), At(u, p) \notin Blanks, NEW flags, NEW quote
    PROVE  ClosesRight(u, quote, parse(u, p, flags).current)
<1> DEFINE a == At(u, p)
           parser == char_parse_map[Upper(a)]
           b == parse(u, p, flags)
<1>0. p \in Nat
  BY DEF Place
<1>1. Parses(parser, u, p, flags, b) /\ (parser = "char" => a \in AsciiParsers["char"])
  BY ParseIs
<1>2. parser = "string" => a \in Quotes
  BY Zenon, ParseIs DEF Quotes
<1> HIDE DEF parser, b
<1>3. \/ Unquoted(b.current)
      \/ b = parse_string(u, p) /\ a \in Quotes
      \/ b = parse_estring(u, p) \/ b = parse_ustring(u, p)
  <2>1. \A offset : Unquoted(parse_qstring_core(u, p, offset).current)
    BY QstringPlain
  <2>2. \A digits : Unquoted(Literal(u, p, digits).current)
    BY LiteralPlain
  <2>3. Unquoted(parse_word(u, p).current) /\ Unquoted(parse_money(u, p).current)
        /\ Unquoted(parse_tick(u, p).current) /\ Unquoted(parse_var(u, p).current)
    BY <1>0, WordUnquoted, MoneyPlain, TickPlain, VarPlain
  <2>4. /\ Unquoted(parse_bstring(u, p).current) /\ Unquoted(parse_xstring(u, p).current)
        /\ Unquoted(parse_qstring(u, p).current)
        /\ parse_nqstring(u, p) = parse_estring(u, p) \/ Unquoted(parse_nqstring(u, p).current)
    BY <2>1, <2>2 DEF parse_bstring, parse_xstring, parse_qstring, parse_nqstring
  <2>5. /\ Unquoted(parse_operator1(u, p).current) /\ Unquoted(parse_other(u, p).current)
        /\ Unquoted(parse_hash(u, p, flags).current) /\ Unquoted(parse_dash(u, p, flags).current)
        /\ Unquoted(parse_slash(u, p).current) /\ Unquoted(parse_backslash(u, p).current)
        /\ Unquoted(parse_operator2(u, p).current) /\ Unquoted(parse_bword(u, p).current)
        /\ Unquoted(parse_number(u, p).current)
        /\ a \in AsciiParsers["char"] => Unquoted(parse_char(u, p).current)
    BY SignsPlain
  <2> HIDE DEF a
  <2> QED BY <1>1, <1>2, <2>3, <2>4, <2>5 DEF Parses
<1>4. ClosesRight(u, quote, b.current)
  BY <1>3, QuotedStrings, UnquotedCloses
<1> QED BY <1>4 DEF b

\* The tokenizer returns what closes right: the text is read from its start as if inside a
\* quote when the pass says so (libinjection_sqli_tokenize).
LEMMA TokenizeCloses ==
    ASSUME NEW u \in Seq(Char), NEW q \in 0..Len(u), NEW flags, NEW quote,
           q = 0 /\ flags.quote # NONE => u # <<>> /\ flags.quote \in Quotes /\ quote = flags.quote
    PROVE  ClosesRight(u, quote, tokenize(u, flags, q).current)
<1> DEFINE p == Span(u, q, Blanks)
<1>0. Len(u) \in Nat
  BY LenProperties
<1>1. p \in q..Len(u) /\ (p < Len(u) => At(u, p) \notin Blanks)
  BY <1>0, SpanIn
<1>2. CASE q = 0 /\ flags.quote # NONE
  <2>a. 0 + 0 <= Len(u) /\ 0 \in Nat
    BY <1>0
  <2>b. flags.quote \in Quotes /\ quote = flags.quote
    BY <1>2
  <2>3. ClosesRight(u, quote, parse_string_core(u, 0, flags.quote, 0).current)
    BY ONLY <1>0, <2>a, <2>b, CoreCloses
  <2> QED BY <1>2, <2>3 DEF tokenize
<1>3. CASE ~(q = 0 /\ flags.quote # NONE) /\ p = Len(u)
  <2>1. tokenize(u, flags, q) = Result(st_clear, p)
    BY <1>3 DEF tokenize
  <2>2. tokenize(u, flags, q).current = st_clear
    BY <2>1 DEF Result
  <2>3. Unquoted(st_clear)
    BY PlainAre DEF Plain, st_clear
  <2> QED BY <2>2, <2>3, UnquotedCloses
<1>4. CASE ~(q = 0 /\ flags.quote # NONE) /\ p # Len(u)
  <2>0. tokenize(u, flags, q) = parse(u, p, flags)
    BY <1>4 DEF tokenize
  <2> HIDE DEF p
  <2>1. Place(u, p) /\ At(u, p) \notin Blanks
    BY <1>0, <1>1, <1>4 DEF Place
  <2> QED BY <2>0, <2>1, ParseCloses
<1> QED BY <1>2, <1>3, <1>4

\* What the tokenizer returns next closes right in the context at hand.
LEMMA ReadCloses ==
    ASSUME TextInv, s # <<>>, NEW r \in Read
    PROVE  ClosesRight(s, Passes[pass].quote, r.current)
<1> DEFINE quote == Passes[pass].quote
           sql == Passes[pass].sql
<1>1. s \in Seq(Char) /\ Len(s) \in Nat /\ at \in 0..Len(s)
  BY TextIs DEF TextInv
<1>2. (quote # NONE => quote \in Quotes) /\ sql \in {"ANSI", "MYSQL"}
  BY Zenon, PassesAre DEF TextInv, Quotes
<1>3. CASE at = 0 /\ quote # NONE
  <2>1. r = reads.open[quote]
    BY <1>3 DEF Read
  <2> HIDE DEF quote
  <2>2. r = tokenize(s, [quote |-> quote, sql |-> "ANSI"], 0)
    BY Zenon, <1>2, <1>3, <2>1 DEF TextInv, Quotes
  <2>3. ClosesRight(s, quote, r.current)
    BY <1>1, <1>2, <1>3, <2>2, TokenizeCloses
  <2> QED BY <2>3 DEF quote
<1>4. CASE ~(at = 0 /\ quote # NONE)
  <2>1. r = reads.at[sql][at]
    BY <1>4 DEF Read
  <2> HIDE DEF sql, quote
  <2>2. r = tokenize(s, [quote |-> NONE, sql |-> sql], at)
    BY <1>1, <1>2, <2>1 DEF TextInv
  <2>3. ClosesRight(s, quote, r.current)
    BY <1>1, <2>2, TokenizeCloses
  <2> QED BY <2>3 DEF quote
<1> QED BY <1>3, <1>4

-----------------------------------------------------------------------------
\* Every string that fold holds closes right.

\* A token closes right in the context of the pass, and all of a vector do.
Right(t) == ClosesRight(s, Passes[pass].quote, t)
AllRight(v) == \A i \in 0..MaxTokens : Right(v[i])
\* Every string of tokenvec closes right, and what is kept aside is no string.
ClosedInv == AllRight(vec)

\* A token that is given the type of no string does.
LEMMA RightTypes ==
    /\ \A t : t.type \in Plain => Right(t)
    /\ {"T", "f", "n", "k", "o", "t", "1", "X", "c", NONE} \subseteq Plain
<1>1. {"T", "f", "n", "k", "o", "t", "1", "X", "c", NONE} \subseteq Plain
  BY DEF Plain, WordTypes
<1> QED BY <1>1, PlainAre, UnquotedCloses DEF Right

\* One more token that does may be put anywhere.
LEMMA PutRight ==
    ASSUME Slots(vec), AllRight(vec), NEW i \in 0..MaxTokens, NEW t, Right(t)
    PROVE  AllRight([vec EXCEPT ![i] = t])
<1>1. DOMAIN vec = 0..MaxTokens
  BY DEF Slots
<1> QED BY <1>1 DEF AllRight

\* A rule may give a token another type.
LEMMA TypedRight ==
    ASSUME Slots(vec), AllRight(vec), NEW i \in 0..MaxTokens, NEW type \in Plain
    PROVE  AllRight(Typed(i, type))
<1> DEFINE t == [vec[i] EXCEPT !.type = type]
<1>1. DOMAIN vec = 0..MaxTokens /\ IsSlot(vec[i])
  BY DEF Slots
<1>2. t.type = type
  BY <1>1 DEF IsSlot
<1>3. Typed(i, type) = [vec EXCEPT ![i] = t]
  BY <1>1 DEF Typed
<1> HIDE DEF t
<1>4. Right(t)
  BY <1>2, RightTypes
<1> QED BY <1>3, <1>4, PutRight

\* A rule may copy a token over an earlier one.
LEMMA MovedRight ==
    ASSUME Applies(2), AllRight(vec), NEW i \in 0..(pos - 2)
    PROVE  AllRight(Moved(i))
<1>1. i \in 0..MaxTokens /\ i + 1 \in 0..MaxTokens
  BY DEF Applies, Holds, MaxTokens
<1>2. Right(vec[i + 1]) /\ Slots(vec)
  BY <1>1 DEF AllRight, Applies, SlotsInv
<1> QED BY <1>1, <1>2, PutRight DEF Moved

\* A phrase of two words is no string.
LEMMA MergedRight ==
    ASSUME Applies(2), AllRight(vec)
    PROVE  LET a == vec[left]
               b == vec[left + 1]
           IN  AllRight([vec EXCEPT ![left].type = is_keyword(Merged(a, b)), ![left].val = Merged(a, b),
                                    ![left].len = a.len + b.len + 1])
<1> DEFINE a == vec[left]
           b == vec[left + 1]
           type == is_keyword(Merged(a, b))
           val == Merged(a, b)
           len == a.len + b.len + 1
           t == [a EXCEPT !.type = type, !.val = val, !.len = len]
           w == [vec EXCEPT ![left].type = type, ![left].val = val, ![left].len = len]
<1>0. left \in 0..MaxTokens
  BY DEF Applies, Holds, MaxTokens
<1>1. Slots(vec) /\ IsSlot(a) /\ DOMAIN vec = 0..MaxTokens
  BY <1>0 DEF Applies, SlotsInv, Slots
<1>2. type \in Plain
  BY PlainAre
<1> HIDE DEF type, val, len, a, b
<1>5. t.type = type
  BY <1>1 DEF IsSlot
<1>6. w = [vec EXCEPT ![left] = t]
  BY <1>0, <1>1 DEF a, IsSlot
<1> HIDE DEF t, w
<1>7. Right(t)
  BY <1>2, <1>5, RightTypes
<1>8. AllRight(w)
  BY <1>0, <1>1, <1>6, <1>7, PutRight
<1> QED BY <1>8 DEF w, type, val, len, a, b

-----------------------------------------------------------------------------

\* What any rule may leave.
LEMMA RulesRight ==
    ASSUME Applies(2), AllRight(vec)
    PROVE  /\ \A l, p, goto : AllRight(Outcome(vec, l, p, goto).vec)
           /\ AllRight(Drop(1).vec) /\ AllRight(Drop(2).vec)
           /\ \A i \in {left, left + 1}, type \in {"T", "f", "n", "k", "o", "t", "1", "X"} : \A l, p, goto :
                 AllRight(Outcome(Typed(i, type), l, p, goto).vec)
           /\ \A type \in {"f", "n", "k", "o"} : AllRight(Retype(left, type).vec)
           /\ AllRight(Replace(left).vec)
<1>0. left \in 0..MaxTokens /\ left + 1 \in 0..MaxTokens /\ left \in 0..(pos - 2)
  BY DEF Applies, Holds, MaxTokens
<1>1. \A v, l, p, goto : Outcome(v, l, p, goto).vec = v
  BY DEF Outcome
<1>2. AllRight(Moved(left))
  BY <1>0, MovedRight
<1>4. \A i \in {left, left + 1}, type \in {"T", "f", "n", "k", "o", "t", "1", "X"} : AllRight(Typed(i, type))
  BY <1>0, RightTypes, TypedRight DEF Applies, SlotsInv
<1> QED BY <1>0, <1>1, <1>2, <1>4 DEF Drop, Retype, Replace

\* The rules that merge keep every string closed right.
LEMMA MergeRight ==
    ASSUME Applies(2), AllRight(vec), NEW otherwise, AllRight(otherwise.vec)
    PROVE  AllRight(MergeRules(vec[left], vec[left + 1], otherwise).vec)
<1> DEFINE a == vec[left]
           b == vec[left + 1]
           v == [vec EXCEPT ![left].type = is_keyword(Merged(a, b)), ![left].val = Merged(a, b),
                            ![left].len = a.len + b.len + 1]
<1>1. AllRight(Outcome(v, StepBack, pos - 1, "five").vec)
  <2>1. AllRight(v)
    BY MergedRight
  <2> HIDE DEF v
  <2> QED BY <2>1 DEF Outcome
<1>2. AllRight(Outcome(Typed(left + 1, "T"), left + 2, pos, "five").vec)
  BY RulesRight
<1>3. /\ AllRight(Outcome(vec, left, pos - 1, "five").vec) /\ AllRight(Outcome(vec, StepBack, pos - 1, "five").vec)
      /\ AllRight(Drop(1).vec)
  BY RulesRight
<1>4. MergeRules(a, b, otherwise) \in
        {Outcome(vec, left, pos - 1, "five"), Outcome(Typed(left + 1, "T"), left + 2, pos, "five"), Drop(1),
         Outcome(vec, StepBack, pos - 1, "five"), otherwise, Outcome(v, StepBack, pos - 1, "five")}
  BY DEF MergeRules
<1> HIDE DEF a, b, v
<1>5. AllRight(MergeRules(a, b, otherwise).vec)
  BY <1>1, <1>2, <1>3, <1>4
<1> QED BY <1>5 DEF a, b

\* So do those that give another type,
LEMMA RetypeRight ==
    ASSUME Applies(2), AllRight(vec), NEW a, NEW b, NEW otherwise, AllRight(otherwise.vec)
    PROVE  AllRight(RetypeRules(a, b, otherwise).vec)
<1>1. \A type \in {"f", "o"} : AllRight(Outcome(Typed(left, type), left, pos, "three").vec)
  BY RulesRight
<1>2. \A type \in {"f", "n", "k", "o"} : AllRight(Retype(left, type).vec)
  BY RulesRight
<1> QED BY <1>1, <1>2 DEF RetypeRules

\* those that drop a token,
LEMMA LeaveOutRight ==
    ASSUME Applies(2), AllRight(vec), NEW a, NEW b, NEW otherwise, AllRight(otherwise.vec)
    PROVE  AllRight(DropRules(a, b, otherwise).vec)
<1>1. /\ AllRight(Outcome(Typed(left + 1, "t"), 0, pos, "three").vec)
      /\ AllRight(Outcome(Typed(left, "1"), 0, pos, "five").vec)
      /\ AllRight(Outcome(Typed(left + 1, "X"), left + 2, pos, "fingerprint").vec)
  BY RulesRight
<1>2. AllRight(Replace(left).vec) /\ AllRight(Drop(1).vec) /\ AllRight(Drop(2).vec)
  BY RulesRight
<1> QED BY <1>1, <1>2 DEF DropRules

\* and those of three tokens.
LEMMA ThreeRight ==
    ASSUME Applies(3), AllRight(vec), NEW a, NEW b, NEW c, NEW otherwise, AllRight(otherwise.vec)
    PROVE  AllRight(ThreeTokenRules(a, b, c, otherwise).vec)
<1>1. Applies(2)
  BY DEF Applies, Holds, MaxTokens
<1>2. left + 1 \in 0..(pos - 2)
  BY DEF Applies, Holds, MaxTokens
<1>3. AllRight(Moved(left + 1))
  BY <1>1, <1>2, MovedRight
<1>4. AllRight(Replace(left + 1).vec) /\ AllRight(Outcome(Moved(left + 1), 0, pos - 3, "five").vec)
  BY <1>3 DEF Replace, Outcome
<1>5. AllRight(Drop(2).vec) /\ AllRight(Outcome(Typed(left, "n"), left + 1, pos, "five").vec)
  BY <1>1, RulesRight
<1> QED BY <1>4, <1>5 DEF ThreeTokenRules

\* The steps of fold, one by one, keep every string closed right: the two-token rules,
LEMMA FoldTwoRight == TokensInv /\ ClosedInv /\ FoldTwo => ClosedInv'
<1> SUFFICES ASSUME TokensInv, ClosedInv, FoldTwo PROVE ClosedInv'
  OBVIOUS
<1> DEFINE none == Outcome(vec, left, pos, "three")
           drop == DropRules(vec[left], vec[left + 1], none)
           retype == RetypeRules(vec[left], vec[left + 1], drop)
           o == MergeRules(vec[left], vec[left + 1], retype)
<1>1. Applies(2) /\ AllRight(vec)
  BY LoopApplies DEF FoldTwo, ClosedInv
<1>2. AllRight(none.vec)
  BY <1>1, RulesRight
<1>4. vec' = o.vec /\ UNCHANGED <<s, pass>>
  BY DEF FoldTwo, Fold
<1> HIDE DEF none
<1>5. AllRight(drop.vec)
  BY <1>1, <1>2, LeaveOutRight
<1> HIDE DEF drop
<1>6. AllRight(retype.vec)
  BY <1>1, <1>5, RetypeRight
<1> HIDE DEF retype
<1>7. AllRight(o.vec)
  BY <1>1, <1>6, MergeRight
<1> HIDE DEF o
<1>8. AllRight(vec')
  BY <1>4, <1>7
<1> QED BY <1>4, <1>8 DEF ClosedInv, AllRight, Right

\* the three-token rules,
LEMMA FoldThreeRight == TokensInv /\ ClosedInv /\ FoldThree => ClosedInv'
<1> SUFFICES ASSUME TokensInv, ClosedInv, FoldThree PROVE ClosedInv'
  OBVIOUS
<1> DEFINE none == Outcome(vec, left + 1, pos, "five")
           o == ThreeTokenRules(vec[left], vec[left + 1], vec[left + 2], none)
<1>1. Applies(3) /\ AllRight(vec)
  BY LoopApplies DEF FoldThree, ClosedInv
<1>2. AllRight(none.vec)
  BY <1>1 DEF Outcome
<1>3. vec' = o.vec /\ UNCHANGED <<s, pass>>
  BY DEF FoldThree, Fold
<1> HIDE DEF none
<1>4. AllRight(o.vec)
  BY <1>1, <1>2, ThreeRight
<1> HIDE DEF o
<1>5. AllRight(vec')
  BY <1>3, <1>4
<1> QED BY <1>3, <1>5 DEF ClosedInv, AllRight, Right

\* the end of the text,
LEMMA SettleRight ==
    ASSUME ClosedInv, NEW n, Settle(n)
    PROVE  ClosedInv'
<1>1. vec' = vec /\ UNCHANGED <<s, pass>>
  BY DEF Settle, Fold, Outcome
<1> QED BY <1>1 DEF ClosedInv, AllRight, Right

\* a token read into the vector,
LEMMA PutsRight ==
    ASSUME TokensInv, ClosedInv, pc # "done", NEW r \in Read, NEW i \in 0..MaxTokens, Put(r, i),
           UNCHANGED <<s, pass>>
    PROVE  ClosedInv'
<1>1. TextInv /\ s # <<>> /\ Slots(vec)
  BY DEF TokensInv, TextInv, SlotsInv
<1>2. Right(r.current)
  BY <1>1, ReadCloses DEF Right
<1>3. AllRight([vec EXCEPT ![i] = r.current])
  BY <1>1, <1>2, PutRight DEF ClosedInv
<1>4. AllRight(vec')
  BY <1>3 DEF Put
<1> QED BY <1>4 DEF ClosedInv, AllRight, Right

\* the tokens skipped at the start,
LEMMA SkipRight == TokensInv /\ ClosedInv /\ Skip => ClosedInv'
<1> SUFFICES ASSUME TokensInv, ClosedInv, Skip PROVE ClosedInv'
  OBVIOUS
<1>1. PICK r \in Read : Put(r, 0)
  BY DEF Skip
<1>2. pc # "done" /\ UNCHANGED <<s, pass>> /\ 0 \in 0..MaxTokens
  BY DEF Skip, MaxTokens
<1> QED BY <1>1, <1>2, PutsRight

\* the tokens fetched for the rules,
LEMMA FetchRight ==
    ASSUME TokensInv, ClosedInv, NEW n \in 2..3, pc \in {"two", "three"}, Fetch(n)
    PROVE  ClosedInv'
<1>1. PICK r \in Read : Put(r, pos)
  BY DEF Fetch
<1>2. pc # "done" /\ UNCHANGED <<s, pass>>
  BY DEF Fetch
<1>3. pos \in 0..MaxTokens
  BY FetchKeeps DEF TokensInv
<1> QED BY <1>1, <1>2, <1>3, PutsRight

\* the five tokens that are one,
LEMMA FoldFiveRight == TokensInv /\ ClosedInv /\ FoldFive => ClosedInv'
<1> SUFFICES ASSUME TokensInv, ClosedInv, FoldFive PROVE ClosedInv'
  OBVIOUS
<1>1. UNCHANGED <<s, pass>> /\ vec' \in {vec, [vec EXCEPT ![1] = vec[MaxTokens]]}
  BY DEF FoldFive
<1>2. 1 \in 0..MaxTokens /\ MaxTokens \in 0..MaxTokens
  BY DEF MaxTokens
<1>3. Right(vec[MaxTokens]) /\ Slots(vec)
  BY <1>2 DEF ClosedInv, AllRight, TokensInv, SlotsInv
<1>4. AllRight([vec EXCEPT ![1] = vec[MaxTokens]])
  BY <1>2, <1>3, PutRight DEF ClosedInv
<1>5. AllRight(vec')
  BY <1>1, <1>4 DEF ClosedInv
<1> QED BY <1>1, <1>5 DEF ClosedInv, AllRight, Right

\* the comment at the end,
LEMMA FinishRight == TokensInv /\ ClosedInv /\ Finish => ClosedInv'
<1> SUFFICES ASSUME TokensInv, ClosedInv, Finish PROVE ClosedInv'
  OBVIOUS
<1>1. UNCHANGED <<s, pass>>
  BY DEF Finish
<1>2. vec' = vec \/ (left < MaxTokens /\ last_comment.type = "c" /\ vec' = [vec EXCEPT ![left] = last_comment])
  BY DEF Finish
<1>3. CASE left < MaxTokens /\ last_comment.type = "c" /\ vec' = [vec EXCEPT ![left] = last_comment]
  <2>1. left \in 0..MaxTokens
    BY <1>3 DEF TokensInv, IInv, Window, MaxTokens
  <2>2. Right(last_comment)
    BY <1>3, RightTypes
  <2>3. AllRight(vec')
    BY <1>3, <2>1, <2>2, PutRight DEF TokensInv, SlotsInv, ClosedInv
  <2> QED BY <1>1, <2>3 DEF ClosedInv, AllRight, Right
<1>4. CASE vec' = vec
  BY <1>1, <1>4 DEF ClosedInv, AllRight, Right
<1> QED BY <1>2, <1>3, <1>4

\* the next pass over the text, which starts with an empty vector,
LEMMA CheckRight == TokensInv /\ ClosedInv /\ Check => ClosedInv'
<1> SUFFICES ASSUME TokensInv, ClosedInv, Check PROVE ClosedInv'
  OBVIOUS
<1>1. s' = s /\ (vec' = NoTokens \/ UNCHANGED <<pass, vec>>)
  BY DEF Check, foldVars
<1>2. CASE UNCHANGED <<pass, vec>>
  BY <1>1, <1>2 DEF ClosedInv, AllRight, Right
<1>3. CASE vec' = NoTokens
  <2>1. Unquoted(st_clear)
    BY PlainAre DEF Plain, st_clear
  <2>2. \A i \in 0..MaxTokens : vec'[i] = st_clear
    BY <1>3 DEF NoTokens
  <2> QED BY <2>1, <2>2, UnquotedCloses DEF ClosedInv, AllRight, Right
<1> QED BY <1>1, <1>2, <1>3

\* and the first one.
LEMMA InitRight == Init => ClosedInv
<1>1. Unquoted(st_clear)
  BY PlainAre DEF Plain, st_clear
<1> SUFFICES ASSUME Init PROVE ClosedInv
  OBVIOUS
<1>2. vec = NoTokens
  BY DEF Init
<1>3. \A i \in 0..MaxTokens : vec[i] = st_clear
  BY <1>2 DEF NoTokens
<1> QED BY <1>1, <1>3, UnquotedCloses DEF ClosedInv, AllRight, Right

\* The fingerprint turns tokens into comments or evil ones, never into strings.
LEMMA FingerprintRight == TokensInv /\ ClosedInv /\ Fingerprint => ClosedInv'
<1> SUFFICES ASSUME TokensInv, ClosedInv, Fingerprint PROVE ClosedInv'
  OBVIOUS
<1> DEFINE php == left > 2 /\ vec[left - 1].type = "n" /\ vec[left - 1].str_open = TICK
                  /\ vec[left - 1].len = 0 /\ vec[left - 1].str_close = NONE
           v == IF php THEN [vec EXCEPT ![left - 1].type = "c"] ELSE vec
           w == [v EXCEPT ![0].type = "X", ![0].val = "X", ![1].type = NONE]
<1>1. UNCHANGED <<s, pass>> /\ vec' \in {v, w}
  BY DEF Fingerprint
<1>2. DOMAIN vec = 0..MaxTokens /\ \A i \in 0..MaxTokens : DOMAIN vec[i] = {"type", "pos", "len", "val", "str_open", "str_close"}
  BY DEF TokensInv, SlotsInv, Slots, IsSlot
<1>3. /\ DOMAIN v = 0..MaxTokens
      /\ \A i \in 0..MaxTokens : /\ DOMAIN v[i] = {"type", "pos", "len", "val", "str_open", "str_close"}
                                 /\ v[i] = vec[i] \/ v[i].type = "c"
  <2> HIDE DEF php
  <2> QED BY <1>2
<1> HIDE DEF v
<1>4. \A i \in 0..MaxTokens : w[i] = v[i] \/ w[i].type \in {"X", NONE}
  <2>1. 0 \in 0..MaxTokens /\ 1 \in 0..MaxTokens
    BY DEF MaxTokens
  <2>2. w[0].type = "X"
    BY <1>3, <2>1
  <2>3. w[1].type = NONE
    BY <1>3, <2>1
  <2>4. \A i \in 0..MaxTokens : i # 0 /\ i # 1 => w[i] = v[i]
    BY <1>3
  <2> QED BY <2>2, <2>3, <2>4
<1> HIDE DEF w
<1>5. \A i \in 0..MaxTokens : Right(v[i])
  BY <1>3, RightTypes DEF ClosedInv, AllRight
<1>6. \A i \in 0..MaxTokens : Right(w[i])
  BY <1>4, <1>5, RightTypes
<1>7. \A i \in 0..MaxTokens : Right(vec'[i])
  BY <1>1, <1>5, <1>6
<1> QED BY <1>1, <1>7 DEF ClosedInv, AllRight, Right

\* Every string in the vector ends where a string ends.
LEMMA ClosedKept == Spec => []ClosedInv
<1>1. TokensInv /\ ClosedInv /\ [Next]_vars => ClosedInv'
  <2> SUFFICES ASSUME TokensInv, ClosedInv, [Next]_vars PROVE ClosedInv'
    OBVIOUS
  <2>1. CASE FetchTwo \/ FetchThree
    <3>1. ASSUME FetchTwo PROVE ClosedInv'
      <4>1. pc \in {"two", "three"} /\ Fetch(2) /\ 2 \in 2..3
        BY <3>1 DEF FetchTwo
      <4> QED BY <4>1, FetchRight
    <3>2. ASSUME FetchThree PROVE ClosedInv'
      <4>1. pc \in {"two", "three"} /\ Fetch(3) /\ 3 \in 2..3
        BY <3>2 DEF FetchThree
      <4> QED BY <4>1, FetchRight
    <3> QED BY <2>1, <3>1, <3>2
  <2>2. CASE SettleTwo \/ SettleThree
    BY <2>2, SettleRight DEF SettleTwo, SettleThree
  <2>3. CASE UNCHANGED vars
    BY <2>3 DEF vars, ClosedInv, AllRight, Right
  <2> QED BY <2>1, <2>2, <2>3, SkipRight, FoldFiveRight, FoldTwoRight, FoldThreeRight,
             FinishRight, FingerprintRight, CheckRight DEF Next
<1> QED BY <1>1, InitRight, TokensKept, PTL DEF Spec

\* The ends of strings that the property speaks of are those of the lemmas.
LEMMA ClosingsAre == \A t : Closings(t) = Ends(Free(s, t.pos, DelimiterIn(t, Passes[pass].quote)))
<1> SUFFICES ASSUME NEW t
             PROVE  Closings(t) = Ends(Free(s, t.pos, DelimiterIn(t, Passes[pass].quote)))
  OBVIOUS
<1>1. Delimiter(t) = DelimiterIn(t, Passes[pass].quote)
  BY DEF Delimiter, DelimiterIn
<1> QED BY <1>1 DEF Closings, Ends, Free, Run, Odd, Even, Slashes, IsSlashes, Backslashes

\* Every string that fold holds ends where the tokenizer says strings end, at the last
\* delimiter of the first odd run that no backslash escapes or at the end of the text:
\* escapes and doubled quotes do not move the end, and no rule of fold stretches,
\* retypes or copies a string so that its end is another's (parse_string_core,
\* libinjection_sqli_fold).
THEOREM StringsClose == Spec => []StringsCloseRight
<1>1. TokensInv /\ ClosedInv => StringsCloseRight
  <2> SUFFICES ASSUME TokensInv, ClosedInv, NEW i \in 0..(pos - 1)
               PROVE  LET t == vec[i]
                      IN  t.type = "s" /\ t.str_open \notin {"q", "$"} /\ t.len < MaxVal =>
                          IF t.str_close = NONE THEN Closings(t) = {} /\ t.pos + t.len = Len(s)
                          ELSE Closings(t) # {} /\ t.pos + t.len = Min(Closings(t))
    BY DEF StringsCloseRight
  <2>1. i \in 0..MaxTokens
    BY DEF TokensInv, IInv, Window, MaxTokens
  <2>2. Right(vec[i])
    BY <2>1 DEF ClosedInv, AllRight
  <2> QED BY <2>2, ClosingsAre DEF Right, ClosesRight
<1> QED BY <1>1, ClosedKept, TokensKept, PTL

=============================================================================
