------------------------ MODULE AhoCorasick_proofs ------------------------
(***************************************************************************)
(* Proofs about the matcher: for every set of patterns, over any bytes, any  *)
(* subject, and whatever number of inputs is searched one by one.            *)
(*                                                                         *)
(* Most of it is about what the recursive functions compute: the words of     *)
(* the slow graph and their fail links, which are shorter ends of them; the   *)
(* work list of AC_Converter, in which every state comes once and its kids   *)
(* next to each other; the length of the buffer as a sum; the search by      *)
(* halves. From these follows what a state of the buffer is    *)
(* (NodeIs), and what each turn of the loop of Match_Tmpl comes to.          *)
(*                                                                         *)
(* The invariant (IInv) relates the walk to the graph: its state is a word    *)
(* that ends where the subject was read up to, a pattern that this word is    *)
(* was reported already, and as long as nothing is, the slow matcher finds   *)
(* the same from the start as from the place and the state of the walk.      *)
(***************************************************************************)
EXTENDS AhoCorasick, FiniteSetTheorems, SequenceTheorems, WellFoundedInduction, TLAPS

-----------------------------------------------------------------------------
(* Numbers, and functions that end in a call of themselves.                *)

\* A set of numbers has a least one.
LEMMA LeastOf ==
    ASSUME NEW S \in SUBSET Nat, S # {}
    PROVE  Min(S) \in S /\ \A j \in S : Min(S) <= j
<1> DEFINE R == OpToRel(<, Nat)
<1>1. IsWellFoundedOn(R, Nat)
  BY NatLessThanWellFounded
<1> HIDE DEF R
<1>2. PICK k \in S : \A j \in S : ~(<<j, k>> \in R)
  BY <1>1, WFMin
<1>3. ASSUME NEW j \in S PROVE k <= j
  <2>1. j < k => <<j, k>> \in R
    BY DEF R, OpToRel
  <2> QED BY <2>1, <1>2
<1> QED BY <1>3 DEF Min

\* A bounded one has a greatest.
LEMMA GreatestOf ==
    ASSUME NEW S \in SUBSET Nat, S # {}, NEW b \in Nat, \A j \in S : j <= b
    PROVE  Max(S) \in S /\ \A j \in S : Max(S) >= j
<1> DEFINE D == {k \in Nat : \E j \in S : k = b - j}
<1>1. D \in SUBSET Nat /\ D # {}
  <2>1. \A j \in S : b - j \in D
    OBVIOUS
  <2> QED BY <2>1
<1>2. PICK k \in D : \A d \in D : k <= d
  BY <1>1, LeastOf
<1>3. PICK i \in S : k = b - i
  BY <1>2
<1>4. ASSUME NEW j \in S PROVE i >= j
  <2>1. b - j \in D
    OBVIOUS
  <2> HIDE DEF D
  <2> QED BY <1>2, <1>3, <2>1
<1> QED BY <1>3, <1>4 DEF Max

\* A function that is base where it stops, and elsewhere its own value further on.
TailCalls(D, stop, base, nxt, f) ==
    f = [x \in D |-> IF x \in stop THEN base[x] ELSE f[nxt[x]]]
\* Further on, m is less.
GoesOn(D, stop, nxt, m) ==
    \A x \in D : m[x] \in Nat /\ (x \notin stop => nxt[x] \in D /\ m[nxt[x]] < m[x])

\* There is one.
LEMMA Recursion ==
    ASSUME NEW D, NEW stop, NEW base, NEW nxt, NEW m, GoesOn(D, stop, nxt, m),
           NEW b \in Nat, \A x \in D : m[x] <= b
    PROVE  \E f : TailCalls(D, stop, base, nxt, f)
<1> DEFINE Good(f, k) == \A x \in D : m[x] <= k => f[x] = IF x \in stop THEN base[x] ELSE f[nxt[x]]
           K == {k \in Nat : ~\E f : Good(f, k)}
<1>1. CASE K = {}
  <2>1. PICK g : Good(g, b)
    BY <1>1
  <2> DEFINE f == [x \in D |-> g[x]]
  <2>2. ASSUME NEW x \in D PROVE f[x] = IF x \in stop THEN base[x] ELSE f[nxt[x]]
    <3>1. x \notin stop => nxt[x] \in D
      BY DEF GoesOn
    <3> QED BY <2>1, <3>1
  <2>3. f = [x \in D |-> IF x \in stop THEN base[x] ELSE f[nxt[x]]]
    <3>1. f = [x \in D |-> f[x]]
      OBVIOUS
    <3> HIDE DEF f
    <3> QED BY <2>2, <3>1
  <2> HIDE DEF f
  <2> QED BY <2>3 DEF TailCalls
<1>2. ASSUME K # {} PROVE FALSE
  <2>1. PICK k \in K : \A j \in K : k <= j
    <3>1. K \in SUBSET Nat
      OBVIOUS
    <3> HIDE DEF K
    <3> QED BY <1>2, <3>1, LeastOf
  <2>2. k \in Nat /\ ~\E f : Good(f, k)
    BY <2>1
  <2>3. CASE k = 0
    <3> DEFINE f == [x \in D |-> base[x]]
    <3>1. ASSUME NEW x \in D, m[x] <= 0 PROVE x \in stop
      BY <3>1 DEF GoesOn
    <3>2. Good(f, k)
      BY <2>3, <3>1
    <3> QED BY <2>2, <3>2
  <2>4. CASE k # 0
    <3>1. k - 1 \in Nat /\ ~(k <= k - 1)
      BY <2>2, <2>4
    <3>2. k - 1 \notin K
      <4> HIDE DEF K
      <4> QED BY <2>1, <3>1
    <3>3. PICK g : Good(g, k - 1)
      BY <3>1, <3>2
    <3> DEFINE f == [x \in D |-> IF m[x] = k THEN IF x \in stop THEN base[x] ELSE g[nxt[x]] ELSE g[x]]
    <3>4. ASSUME NEW x \in D, m[x] <= k
          PROVE  f[x] = IF x \in stop THEN base[x] ELSE f[nxt[x]]
      <4>1. m[x] \in Nat /\ (x \notin stop => nxt[x] \in D /\ m[nxt[x]] \in Nat /\ m[nxt[x]] < m[x])
        BY DEF GoesOn
      <4>2. x \notin stop => f[nxt[x]] = g[nxt[x]]
        BY <2>2, <3>4, <4>1
      <4>3. CASE m[x] = k
        BY <4>2, <4>3
      <4>4. CASE m[x] # k
        <5>1. m[x] <= k - 1
          BY <2>2, <3>4, <4>1, <4>4
        <5>2. g[x] = IF x \in stop THEN base[x] ELSE g[nxt[x]]
          BY <3>3, <5>1
        <5> QED BY <4>2, <4>4, <5>2
      <4> QED BY <4>3, <4>4
    <3> QED BY <2>2, <3>4
  <2> QED BY <2>3, <2>4
<1> QED BY <1>1, <1>2

\* What holds where it stops, and elsewhere if it does further on, holds everywhere.
LEMMA Descent ==
    ASSUME NEW D, NEW stop, NEW nxt, NEW m, GoesOn(D, stop, nxt, m), NEW P,
           \A x \in D : x \in stop => x \in P,
           \A x \in D : x \notin stop /\ nxt[x] \in P => x \in P
    PROVE  D \subseteq P
<1> SUFFICES ASSUME NEW y \in D, y \notin P PROVE FALSE
  OBVIOUS
<1> DEFINE K == {k \in Nat : \E x \in D : x \notin P /\ m[x] = k}
<1>1. K \in SUBSET Nat /\ K # {}
  BY DEF GoesOn
<1>2. PICK k \in K : \A j \in K : k <= j
  BY <1>1, LeastOf
<1>3. PICK x \in D : x \notin P /\ m[x] = k
  BY <1>2
<1>4. nxt[x] \in D /\ nxt[x] \notin P /\ m[nxt[x]] \in Nat /\ m[nxt[x]] < k
  BY <1>3 DEF GoesOn
<1>5. m[nxt[x]] \in K
  BY <1>4
<1> HIDE DEF K
<1> QED BY <1>1, <1>2, <1>4, <1>5

\* A set of numbers with the least, and with each the one above, up to a bound.
LEMMA Upwards ==
    ASSUME NEW a \in Int, NEW b \in Int, NEW P, a \in P,
           \A i \in a..(b - 1) : i \in P => i + 1 \in P
    PROVE  a..b \subseteq P
<1> SUFFICES ASSUME NEW q \in a..b, q \notin P PROVE FALSE
  OBVIOUS
<1> DEFINE K == {k \in Nat : k <= b - a /\ a + k \notin P}
<1>1. K \in SUBSET Nat /\ K # {}
  <2>1. q - a \in Nat /\ q - a <= b - a /\ a + (q - a) = q
    OBVIOUS
  <2>2. q - a \in K
    BY <2>1
  <2> QED BY <2>2
<1>2. PICK k \in K : \A j \in K : k <= j
  BY <1>1, LeastOf
<1>3. k \in Nat /\ k <= b - a /\ a + k \notin P
  BY <1>2
<1>4. k # 0
  BY <1>3
<1>5. k - 1 \in Nat /\ k - 1 <= b - a /\ ~(k <= k - 1) /\ a + (k - 1) \in a..(b - 1) /\ (a + (k - 1)) + 1 = a + k
  BY <1>3, <1>4
<1>6. a + (k - 1) \in P
  <2>1. a + (k - 1) \notin P => k - 1 \in K
    BY <1>5
  <2> HIDE DEF K
  <2> QED BY <1>2, <1>5, <2>1
<1> QED BY <1>3, <1>5, <1>6

-----------------------------------------------------------------------------
(* The words of the slow graph.                                            *)

\* A word is its last byte behind the ones in front.
LEMMA FrontIs ==
    ASSUME NEW s \in Seq(Byte), s # Root
    PROVE  /\ Front(s) \in Seq(Byte) /\ Len(Front(s)) = Len(s) - 1 /\ Len(s) \in Nat /\ Len(s) >= 1
           /\ \A k \in 1..(Len(s) - 1) : Front(s)[k] = s[k]
           /\ Last(s) \in Byte /\ Last(s) = s[Len(s)]
<1>1. Len(s) \in Nat \ {0} /\ s \in [1..Len(s) -> Byte]
  BY EmptySeq, LenProperties DEF Root
<1>2. \A k \in 1..(Len(s) - 1) : s[k] \in Byte
  BY <1>1
<1>3. /\ Front(s) \in Seq(Byte) /\ Len(Front(s)) = IF 1 <= Len(s) - 1 THEN Len(s) - 1 - 1 + 1 ELSE 0
      /\ \A k \in 1..(Len(s) - 1 - 1 + 1) : Front(s)[k] = s[1 + k - 1]
  BY <1>1, <1>2, SubSeqProperties DEF Front
<1>4. \A k \in 1..(Len(s) - 1) : k \in 1..(Len(s) - 1 - 1 + 1) /\ 1 + k - 1 = k
  BY <1>1
<1>5. Len(s) \in 1..Len(s) /\ (IF 1 <= Len(s) - 1 THEN Len(s) - 1 - 1 + 1 ELSE 0) = Len(s) - 1
  BY <1>1
<1>6. \A k \in 1..(Len(s) - 1) : Front(s)[k] = s[k]
  BY <1>3, <1>4
<1>7. s[Len(s)] \in Byte
  BY <1>1, <1>5
<1>8. Len(Front(s)) = Len(s) - 1 /\ Front(s) \in Seq(Byte)
  BY <1>3, <1>5
<1>9. Len(s) \in Nat /\ Len(s) >= 1
  BY <1>1
<1> QED BY <1>6, <1>7, <1>8, <1>9 DEF Last

\* A word with a byte behind it.
LEMMA AppendIs ==
    ASSUME NEW s \in Seq(Byte), NEW c \in Byte
    PROVE  /\ Append(s, c) \in Seq(Byte) /\ Len(Append(s, c)) = Len(s) + 1 /\ Len(s) \in Nat
           /\ \A k \in 1..Len(s) : Append(s, c)[k] = s[k]
           /\ Append(s, c)[Len(s) + 1] = c
           /\ Append(s, c) # Root
           /\ Front(Append(s, c)) = s /\ Last(Append(s, c)) = c
<1> DEFINE a == Append(s, c)
<1>1. /\ a \in Seq(Byte) /\ Len(a) = Len(s) + 1 /\ Len(s) \in Nat
      /\ \A k \in 1..Len(s) : a[k] = s[k]
      /\ a[Len(s) + 1] = c
  OBVIOUS
<1>2. a # Root
  BY <1>1, EmptySeq DEF Root
<1> HIDE DEF a
<1>3. Front(a) \in Seq(Byte) /\ Len(Front(a)) = Len(s) /\ \A k \in 1..Len(s) : Front(a)[k] = s[k]
  BY <1>1, <1>2, FrontIs
<1>4. Front(a) = s
  BY <1>3, SeqEqual
<1>5. Last(a) = c
  BY <1>1, <1>2, FrontIs
<1> QED BY <1>1, <1>2, <1>4, <1>5 DEF a

\* Two words are equal when they are in front and at the end.
LEMMA SameWord ==
    ASSUME NEW s \in Seq(Byte), s # Root, NEW t \in Seq(Byte), t # Root,
           Front(s) = Front(t), Last(s) = Last(t)
    PROVE  s = t
<1>1. Len(s) = Len(t)
  BY FrontIs
<1>2. ASSUME NEW k \in 1..Len(s) PROVE s[k] = t[k]
  <2>1. CASE k = Len(s)
    BY <1>1, <2>1, FrontIs
  <2>2. CASE k # Len(s)
    <3>1. k \in 1..(Len(s) - 1)
      BY <2>2, FrontIs
    <3> QED BY <1>1, <3>1, FrontIs
  <2> QED BY <2>1, <2>2
<1> QED BY <1>1, <1>2, SeqEqual

\* A word is its front and its last byte.
LEMMA AppendFront ==
    ASSUME NEW s \in Seq(Byte), s # Root
    PROVE  s = Append(Front(s), Last(s))
<1>1. Front(s) \in Seq(Byte) /\ Last(s) \in Byte
  BY FrontIs
<1> QED BY <1>1, AppendIs, SameWord

\* The states of a graph: with each word the one in front of its last byte.
IsGraph(states) ==
    /\ states \in SUBSET Seq(Byte) /\ IsFiniteSet(states)
    /\ Root \in states
    /\ \A s \in states : s # Root => Front(s) \in states
Bounded(states) == \E b \in Nat : \A s \in states : Len(s) <= b

\* The prefixes of a word are such states.
LEMMA PrefixGraph ==
    ASSUME NEW t \in Seq(Byte)
    PROVE  /\ IsGraph(Prefixes(t)) /\ t \in Prefixes(t)
           /\ \A s \in Prefixes(t) : Len(s) <= Len(t)
<1>1. Len(t) \in Nat /\ t \in [1..Len(t) -> Byte]
  BY LenProperties
<1> DEFINE p(l) == SubSeq(t, 1, l)
<1>2. ASSUME NEW l \in 0..Len(t)
      PROVE  /\ p(l) \in Seq(Byte) /\ Len(p(l)) = l
             /\ \A k \in 1..l : p(l)[k] = t[k]
  <2>1. \A k \in 1..l : t[k] \in Byte
    BY <1>1
  <2>2. /\ p(l) \in Seq(Byte) /\ Len(p(l)) = IF 1 <= l THEN l - 1 + 1 ELSE 0
        /\ \A k \in 1..(l - 1 + 1) : p(l)[k] = t[1 + k - 1]
    BY <1>1, <2>1, SubSeqProperties
  <2>3. \A k \in 1..l : k \in 1..(l - 1 + 1) /\ 1 + k - 1 = k
    OBVIOUS
  <2> HIDE DEF p
  <2> QED BY <1>1, <2>2, <2>3
<1>3. Prefixes(t) = {p(l) : l \in 0..Len(t)}
  BY DEF Prefixes
<1> HIDE DEF p
<1>4. Prefixes(t) \in SUBSET Seq(Byte) /\ \A s \in Prefixes(t) : Len(s) <= Len(t)
  BY <1>2, <1>3
<1>5. IsFiniteSet(Prefixes(t))
  <2> DEFINE f == [l \in 0..Len(t) |-> p(l)]
  <2>1. f \in Surjection(0..Len(t), Prefixes(t))
    BY <1>3 DEF Surjection
  <2>2. IsFiniteSet(0..Len(t))
    BY <1>1, FS_Interval
  <2> QED BY <2>1, <2>2, FS_Surjection
<1>6. Root \in Prefixes(t) /\ t \in Prefixes(t)
  <2>1. p(0) = Root
    BY <1>1, <1>2, EmptySeq, SeqEqual DEF Root
  <2>2. p(Len(t)) = t
    BY <1>1, <1>2, SeqEqual
  <2> QED BY <1>1, <1>3, <2>1, <2>2
<1>7. ASSUME NEW s \in Prefixes(t), s # Root PROVE Front(s) \in Prefixes(t)
  <2>1. PICK l \in 0..Len(t) : s = p(l)
    BY <1>3
  <2>2. s \in Seq(Byte) /\ Len(s) = l /\ \A k \in 1..l : s[k] = t[k]
    BY <1>2, <2>1
  <2>3. /\ Front(s) \in Seq(Byte) /\ Len(Front(s)) = l - 1 /\ l >= 1
        /\ \A k \in 1..(l - 1) : Front(s)[k] = s[k]
    BY <1>7, <2>2, FrontIs
  <2>a. l - 1 \in 0..Len(t)
    BY <1>1, <2>3
  <2>4. /\ l - 1 \in 0..Len(t) /\ p(l - 1) \in Seq(Byte) /\ Len(p(l - 1)) = l - 1
        /\ \A k \in 1..(l - 1) : p(l - 1)[k] = t[k]
    BY <1>2, <2>a
  <2>5. \A k \in 1..(l - 1) : Front(s)[k] = p(l - 1)[k]
    <3>1. \A k \in 1..(l - 1) : k \in 1..l
      OBVIOUS
    <3> QED BY <2>2, <2>3, <2>4, <3>1
  <2>6. Front(s) = p(l - 1)
    BY <2>3, <2>4, <2>5, SeqEqual
  <2> QED BY <1>3, <2>4, <2>6
<1> QED BY <1>4, <1>5, <1>6, <1>7 DEF IsGraph

\* So are the states of a set of patterns.
LEMMA GraphOf ==
    ASSUME NEW patterns \in Seq(Seq(Byte) \ {<<>>})
    PROVE  IsGraph(States(patterns)) /\ Bounded(States(patterns))
<1> DEFINE n == Len(patterns)
           upTo(j) == {Root} \union UNION {Prefixes(patterns[k]) : k \in 1..j}
           Good(j) == IsGraph(upTo(j)) /\ Bounded(upTo(j))
<1>1. n \in Nat /\ DOMAIN patterns = 1..n /\ \A k \in 1..n : patterns[k] \in Seq(Byte)
  BY LenProperties
<1>2. upTo(n) = States(patterns)
  BY <1>1 DEF States
<1>3. Good(0)
  <2>1. upTo(0) = {Root}
    OBVIOUS
  <2>2. Root \in Seq(Byte) /\ Len(Root) = 0
    BY EmptySeq DEF Root
  <2>3. IsFiniteSet({Root})
    BY FS_Singleton
  <2> HIDE DEF upTo
  <2>4. IsGraph(upTo(0))
    BY <2>1, <2>2, <2>3 DEF IsGraph
  <2>5. \A s \in upTo(0) : Len(s) <= 0
    BY <2>1, <2>2
  <2>6. 0 \in Nat
    OBVIOUS
  <2> QED BY <2>4, <2>5, <2>6 DEF Bounded
<1>4. ASSUME NEW j \in 0..(n - 1), Good(j) PROVE Good(j + 1)
  <2> DEFINE t == patterns[j + 1]
  <2>1. j + 1 \in 1..n /\ t \in Seq(Byte) /\ Len(t) \in Nat
    BY <1>1, LenProperties
  <2>2. upTo(j + 1) = upTo(j) \union Prefixes(t)
    <3>1. 1..(j + 1) = (1..j) \union {j + 1}
      OBVIOUS
    <3> QED BY <3>1
  <2> HIDE DEF upTo, t
  <2>3. IsGraph(Prefixes(t)) /\ \A s \in Prefixes(t) : Len(s) <= Len(t)
    BY <2>1, PrefixGraph
  <2>4. IsFiniteSet(upTo(j) \union Prefixes(t))
    BY <1>4, <2>3, FS_Union DEF IsGraph
  <2>5. IsGraph(upTo(j + 1))
    BY <1>4, <2>2, <2>3, <2>4 DEF IsGraph
  <2>6. PICK b \in Nat : \A s \in upTo(j) : Len(s) <= b
    BY <1>4 DEF Bounded
  <2>7. ASSUME NEW s \in upTo(j + 1) PROVE Len(s) <= b + Len(t)
    <3>1. s \in Seq(Byte) /\ Len(s) \in Nat
      BY <2>5, LenProperties DEF IsGraph
    <3>2. Len(s) <= b \/ Len(s) <= Len(t)
      BY <2>2, <2>3, <2>6
    <3> QED BY <2>1, <3>1, <3>2
  <2>8. b + Len(t) \in Nat
    BY <2>1
  <2> QED BY <2>5, <2>7, <2>8 DEF Bounded
<1> DEFINE P == {j \in 0..n : Good(j)}
<1> HIDE DEF Good
<1>5. \A j \in 0..(n - 1) : j \in P => j + 1 \in P
  BY <1>1, <1>4
<1>6. 0 \in P
  BY <1>1, <1>3
<1>a. 0 \in Int /\ n \in Int
  BY <1>1
<1> HIDE DEF P, n
<1>7. 0..n \subseteq P
  BY <1>a, <1>5, <1>6, Upwards
<1>8. Good(n)
  <2>1. n \in P
    BY <1>1, <1>7 DEF n
  <2> QED BY <2>1 DEF P
<1> QED BY <1>2, <1>8 DEF Good

\* A pattern is a state, and the root is none.
LEMMA PatternStates ==
    ASSUME NEW patterns \in Seq(Seq(Byte) \ {<<>>})
    PROVE  /\ \A s : PatternIdx(patterns, s) \in Int /\ PatternIdx(patterns, s) >= -1
           /\ \A s : PatternIdx(patterns, s) >= 0 =>
                /\ PatternIdx(patterns, s) + 1 \in DOMAIN patterns
                /\ patterns[PatternIdx(patterns, s) + 1] = s
           /\ PatternIdx(patterns, Root) = -1
<1>1. Len(patterns) \in Nat /\ DOMAIN patterns = 1..Len(patterns)
  BY LenProperties
<1>2. ASSUME NEW s
      PROVE  /\ PatternIdx(patterns, s) \in Int /\ PatternIdx(patterns, s) >= -1
             /\ PatternIdx(patterns, s) >= 0 =>
                  /\ PatternIdx(patterns, s) + 1 \in DOMAIN patterns
                  /\ patterns[PatternIdx(patterns, s) + 1] = s
  <2> DEFINE equal == {k \in DOMAIN patterns : patterns[k] = s}
             p == PatternIdx(patterns, s)
  <2>1. p = IF equal = {} THEN -1 ELSE Max(equal) - 1
    BY DEF PatternIdx
  <2>2. CASE equal = {}
    <3>1. p = -1
      BY <2>1, <2>2
    <3> HIDE DEF p
    <3> QED BY <3>1 DEF p
  <2>3. CASE equal # {}
    <3>1. equal \in SUBSET Nat /\ \A k \in equal : k <= Len(patterns)
      BY <1>1
    <3>2. Max(equal) \in equal
      <4> HIDE DEF equal
      <4> QED BY <1>1, <2>3, <3>1, GreatestOf
    <3> DEFINE k == Max(equal)
    <3>3. k \in 1..Len(patterns) /\ patterns[k] = s
      BY <1>1, <3>2
    <3>4. p = k - 1
      <4> HIDE DEF equal
      <4> QED BY <2>1, <2>3
    <3> HIDE DEF k, p
    <3>5. p + 1 = k /\ p \in Int /\ p >= -1
      BY <1>1, <3>3, <3>4
    <3> QED BY <1>1, <3>3, <3>5 DEF p
  <2> QED BY <2>2, <2>3
<1>3. PatternIdx(patterns, Root) = -1
  <2>1. \A k \in DOMAIN patterns : patterns[k] # Root
    BY <1>1 DEF Root
  <2>2. {k \in DOMAIN patterns : patterns[k] = Root} = {}
    BY <2>1
  <2> QED BY <2>2 DEF PatternIdx
<1> QED BY <1>2, <1>3

-----------------------------------------------------------------------------
(* The fail links.                                                         *)

\* t is the end of s.
EndOf(s, t) == Len(t) <= Len(s) /\ \A k \in 1..Len(t) : t[k] = s[Len(s) - Len(t) + k]

\* Ends of words.
LEMMA EndsAre ==
    ASSUME NEW s \in Seq(Byte)
    PROVE  /\ EndOf(s, Root) /\ EndOf(s, s)
           /\ \A t, u \in Seq(Byte) : EndOf(s, t) /\ EndOf(t, u) => EndOf(s, u)
           /\ \A t \in Seq(Byte) : \A c \in Byte : EndOf(s, t) => EndOf(Append(s, c), Append(t, c))
<1>1. Len(s) \in Nat
  BY LenProperties
<1>2. EndOf(s, Root)
  <2>1. Len(Root) = 0
    BY DEF Root
  <2> QED BY <1>1, <2>1 DEF EndOf
<1>3. EndOf(s, s)
  BY <1>1 DEF EndOf
<1>4. ASSUME NEW t \in Seq(Byte), NEW u \in Seq(Byte), EndOf(s, t), EndOf(t, u) PROVE EndOf(s, u)
  <2>1. Len(t) \in Nat /\ Len(u) \in Nat
    BY LenProperties
  <2>2. Len(u) <= Len(s)
    BY <1>1, <1>4, <2>1 DEF EndOf
  <2>3. ASSUME NEW k \in 1..Len(u) PROVE u[k] = s[Len(s) - Len(u) + k]
    <3>1. Len(t) - Len(u) + k \in 1..Len(t) /\ Len(s) - Len(t) + (Len(t) - Len(u) + k) = Len(s) - Len(u) + k
      BY <1>1, <1>4, <2>1 DEF EndOf
    <3>2. u[k] = t[Len(t) - Len(u) + k]
      BY <1>4 DEF EndOf
    <3> QED BY <1>4, <3>1, <3>2 DEF EndOf
  <2> QED BY <2>2, <2>3 DEF EndOf
<1>5. ASSUME NEW t \in Seq(Byte), NEW c \in Byte, EndOf(s, t) PROVE EndOf(Append(s, c), Append(t, c))
  <2> DEFINE a == Append(s, c)
             e == Append(t, c)
  <2>1. /\ Len(a) = Len(s) + 1 /\ a[Len(s) + 1] = c /\ \A k \in 1..Len(s) : a[k] = s[k]
        /\ Len(e) = Len(t) + 1 /\ e[Len(t) + 1] = c /\ \A k \in 1..Len(t) : e[k] = t[k]
        /\ Len(t) \in Nat
    BY AppendIs
  <2> HIDE DEF a, e
  <2>2. Len(t) <= Len(s)
    BY <1>5 DEF EndOf
  <2>3. ASSUME NEW k \in 1..Len(e) PROVE e[k] = a[Len(a) - Len(e) + k]
    <3>1. Len(a) - Len(e) + k = Len(s) - Len(t) + k
      BY <1>1, <2>1
    <3>2. CASE k = Len(e)
      <4>1. Len(s) - Len(t) + k = Len(s) + 1
        BY <1>1, <2>1, <3>2
      <4> QED BY <2>1, <3>1, <3>2, <4>1
    <3>3. CASE k # Len(e)
      <4>1. k \in 1..Len(t) /\ Len(s) - Len(t) + k \in 1..Len(s)
        BY <1>1, <2>1, <2>2, <3>3
      <4>2. t[k] = s[Len(s) - Len(t) + k]
        BY <1>5, <4>1 DEF EndOf
      <4> QED BY <2>1, <3>1, <4>1, <4>2
    <3> QED BY <3>2, <3>3
  <2>4. Len(e) <= Len(a)
    BY <1>1, <2>1, <2>2
  <2> QED BY <2>3, <2>4 DEF EndOf, a, e
<1> QED BY <1>2, <1>3, <1>4, <1>5

\* Each link leads to a shorter state, the end of the one it comes from.
Linked(states, f) ==
    /\ f \in [states -> states]
    /\ \A s \in states : s # Root => Len(f[s]) < Len(s) /\ EndOf(s, f[s])

\* Following such links leads to the root or takes the byte.
LEMMA FollowIs ==
    ASSUME NEW states, IsGraph(states), Bounded(states), NEW f, Linked(states, f), NEW c \in Byte
    PROVE  LET w == FollowFails(states, f, c)
           IN  \A s \in states : /\ w[s] \in states
                                 /\ w[s] # Root => \E t \in states : EndOf(s, t) /\ w[s] = Append(t, c)
<1> DEFINE stop == {s \in states : c \in Inputs(states, s) \/ s = Root}
           base == [s \in states |-> IF c \in Inputs(states, s) THEN Append(s, c) ELSE Root]
           m == [s \in states |-> Len(s)]
           w == FollowFails(states, f, c)
           Def(g) == g = [s \in states |-> IF c \in Inputs(states, s) THEN Append(s, c)
                                           ELSE IF s = Root THEN Root ELSE g[f[s]]]
<1>1. states \in SUBSET Seq(Byte) /\ Root \in states
  BY DEF IsGraph
<1>2. \A s \in states : Len(s) \in Nat
  BY <1>1, LenProperties
<1>3. GoesOn(states, stop, f, m)
  BY <1>2 DEF GoesOn, Linked
<1>4. PICK b \in Nat : \A s \in states : m[s] <= b
  BY DEF Bounded
<1>5. \E g : TailCalls(states, stop, base, f, g)
  <2> HIDE DEF stop, base, m
  <2> QED BY <1>3, <1>4, Recursion
<1>6. \A g : TailCalls(states, stop, base, f, g) <=> Def(g)
  <2> SUFFICES ASSUME NEW g PROVE TailCalls(states, stop, base, f, g) <=> Def(g)
    OBVIOUS
  <2>1. \A s \in states : (IF s \in stop THEN base[s] ELSE g[f[s]])
                          = (IF c \in Inputs(states, s) THEN Append(s, c) ELSE IF s = Root THEN Root ELSE g[f[s]])
    OBVIOUS
  <2>2. [s \in states |-> IF s \in stop THEN base[s] ELSE g[f[s]]]
        = [s \in states |-> IF c \in Inputs(states, s) THEN Append(s, c) ELSE IF s = Root THEN Root ELSE g[f[s]]]
    <3> HIDE DEF stop, base
    <3> QED BY <2>1
  <2> HIDE DEF stop, base
  <2> QED BY <2>2 DEF TailCalls
<1>7. w = CHOOSE g : Def(g)
  BY DEF FollowFails
<1>8. Def(w)
  <2> HIDE DEF Def, w
  <2> QED BY <1>5, <1>6, <1>7
<1> DEFINE P == {s \in states : /\ w[s] \in states
                                /\ w[s] # Root => \E t \in states : EndOf(s, t) /\ w[s] = Append(t, c)}
<1>9. ASSUME NEW s \in states, s \in stop PROVE s \in P
  <2>1. CASE c \in Inputs(states, s)
    <3>1. w[s] = Append(s, c)
      <4> HIDE DEF w
      <4> QED BY <1>8, <2>1
    <3>2. w[s] \in states
      BY <2>1, <3>1 DEF Inputs
    <3>3. EndOf(s, s)
      BY <1>1, EndsAre
    <3> HIDE DEF w
    <3> QED BY <3>1, <3>2, <3>3
  <2>2. CASE c \notin Inputs(states, s)
    <3>1. s = Root
      BY <1>9, <2>2
    <3>2. w[s] = Root
      <4> HIDE DEF w
      <4> QED BY <1>8, <2>2, <3>1
    <3> HIDE DEF w
    <3> QED BY <1>1, <3>2
  <2> QED BY <2>1, <2>2
<1>10. ASSUME NEW s \in states, s \notin stop, f[s] \in P PROVE s \in P
  <2>1. c \notin Inputs(states, s) /\ s # Root
    BY <1>10
  <2>2. w[s] = w[f[s]]
    <3> HIDE DEF w
    <3> QED BY <1>8, <2>1
  <2>3. f[s] \in states /\ EndOf(s, f[s])
    BY <2>1 DEF Linked
  <2>4. ASSUME NEW t \in states, EndOf(f[s], t) PROVE EndOf(s, t)
    BY <1>1, <2>3, <2>4, EndsAre
  <2> HIDE DEF w
  <2> QED BY <1>10, <2>2, <2>4
<1>11. states \subseteq P
  <2> HIDE DEF stop, P, m
  <2> QED BY <1>3, <1>9, <1>10, Descent
<1> QED BY <1>11

\* A function that is made step by step, from v.
Steps(b, V, v, G, f) == f \in [0..b -> V] /\ f[0] = v /\ \A i \in 1..b : f[i] = G[i][f[i - 1]]
Keeps(b, V, G) == \A i \in 1..b : \A x \in V : G[i][x] \in V

\* There is one.
LEMMA Iteration ==
    ASSUME NEW b \in Nat, NEW V, NEW v \in V, NEW G, Keeps(b, V, G)
    PROVE  \E f : Steps(b, V, v, G, f)
<1> DEFINE Good(j) == \E f \in [0..j -> V] : f[0] = v /\ \A i \in 1..j : f[i] = G[i][f[i - 1]]
           P == {j \in 0..b : Good(j)}
<1>1. 0 \in P
  <2> DEFINE f == [i \in 0..0 |-> v]
  <2>1. f \in [0..0 -> V] /\ f[0] = v /\ \A i \in 1..0 : f[i] = G[i][f[i - 1]]
    OBVIOUS
  <2> HIDE DEF f
  <2>2. Good(0)
    BY <2>1
  <2> QED BY <2>2
<1>2. ASSUME NEW j \in 0..(b - 1), j \in P PROVE j + 1 \in P
  <2>1. PICK g \in [0..j -> V] : g[0] = v /\ \A i \in 1..j : g[i] = G[i][g[i - 1]]
    BY <1>2
  <2> DEFINE f == [i \in 0..(j + 1) |-> IF i = j + 1 THEN G[j + 1][g[j]] ELSE g[i]]
  <2>2. G[j + 1][g[j]] \in V
    BY <2>1 DEF Keeps
  <2>3. f \in [0..(j + 1) -> V] /\ f[0] = v
    BY <2>1, <2>2
  <2>4. ASSUME NEW i \in 1..(j + 1) PROVE f[i] = G[i][f[i - 1]]
    <3>1. CASE i = j + 1
      <4>1. f[i - 1] = g[j] /\ f[i] = G[i][g[j]]
        BY <3>1
      <4> QED BY <4>1
    <3>2. CASE i # j + 1
      <4>1. i \in 1..j /\ f[i - 1] = g[i - 1] /\ f[i] = g[i]
        BY <3>2
      <4> QED BY <2>1, <4>1
    <3> QED BY <3>1, <3>2
  <2>5. Good(j + 1)
    <3> HIDE DEF f
    <3> QED BY <2>3, <2>4
  <2> QED BY <2>5
<1>3. 0..b \subseteq P
  <2>1. 0 \in Int /\ b \in Int /\ \A j \in 0..(b - 1) : j \in P => j + 1 \in P
    BY <1>2
  <2> HIDE DEF P
  <2> QED BY <1>1, <2>1, Upwards
<1>4. b \in P
  <2> HIDE DEF P
  <2> QED BY <1>3
<1> QED BY <1>4 DEF Steps

\* Propagate_faillink makes such links.
LEMMA LinksAre ==
    ASSUME NEW states, IsGraph(states), Bounded(states)
    PROVE  Linked(states, FailLinks(states)) /\ FailLinks(states)[Root] = Root
<1> DEFINE V == {f \in [states -> states] : Linked(states, f) /\ f[Root] = Root}
           v == [s \in states |-> Root]
           Next1(d, f) == [s \in states |-> IF Len(s) # d THEN f[s]
                                            ELSE FollowFails(states, f, Last(s))[f[Front(s)]]]
           deepest == Max({Len(s) : s \in states})
<1>1. states \in SUBSET Seq(Byte) /\ Root \in states /\ \A s \in states : s # Root => Front(s) \in states
  BY DEF IsGraph
<1>2. \A s \in states : Len(s) \in Nat /\ s \in Seq(Byte)
  BY <1>1, LenProperties
<1>3. deepest \in Nat
  <2>1. PICK b \in Nat : \A s \in states : Len(s) <= b
    BY DEF Bounded
  <2> DEFINE lens == {Len(s) : s \in states}
  <2>2. lens \in SUBSET Nat /\ lens # {} /\ \A l \in lens : l <= b
    BY <1>1, <1>2, <2>1
  <2> HIDE DEF lens
  <2>3. Max(lens) \in lens
    BY <2>2, GreatestOf
  <2>4. Max(lens) \in Nat
    BY <2>2, <2>3
  <2> QED BY <2>4 DEF lens
<1>4. v \in V
  BY <1>1, <1>2, EndsAre DEF Linked, Root
<1>5. ASSUME NEW d \in 2..deepest, NEW f \in V PROVE Next1(d, f) \in V
  <2> DEFINE g == Next1(d, f)
  <2>1. Linked(states, f) /\ f[Root] = Root
    OBVIOUS
  <2>2. ASSUME NEW s \in states
        PROVE  g[s] \in states /\ (s # Root => Len(g[s]) < Len(s) /\ EndOf(s, g[s]))
    <3>1. CASE Len(s) # d
      <4>1. g[s] = f[s]
        BY <3>1
      <4> HIDE DEF g
      <4> QED BY <2>1, <4>1 DEF Linked
    <3>2. CASE Len(s) = d
      <4> DEFINE w == FollowFails(states, f, Last(s))
                 t == Front(s)
      <4>1. g[s] = w[f[t]]
        BY <3>2
      <4> HIDE DEF g, V, v
      <4>2. s \in Seq(Byte) /\ s # Root /\ Len(Root) = 0
        BY <1>2, <3>2 DEF Root
      <4>3. /\ t \in Seq(Byte) /\ Len(t) = Len(s) - 1 /\ Last(s) \in Byte /\ s = Append(t, Last(s))
            /\ Len(s) \in Nat
        BY <4>2, FrontIs, AppendFront
      <4>4. t \in states /\ t # Root
        BY <1>1, <3>2, <4>2, <4>3
      <4>5. f[t] \in states /\ Len(f[t]) < Len(t) /\ EndOf(t, f[t])
        BY <2>1, <4>4 DEF Linked
      <4>6. /\ w[f[t]] \in states
            /\ w[f[t]] # Root => \E u \in states : EndOf(f[t], u) /\ w[f[t]] = Append(u, Last(s))
        BY <2>1, <4>3, <4>5, FollowIs
      <4> HIDE DEF w, t
      <4>7. CASE g[s] = Root
        BY <1>1, <3>2, <4>2, <4>7, EndsAre
      <4>8. CASE g[s] # Root
        <5>1. PICK u \in states : EndOf(f[t], u) /\ g[s] = Append(u, Last(s))
          BY <4>1, <4>6, <4>8
        <5>2. u \in Seq(Byte) /\ f[t] \in Seq(Byte) /\ Len(u) \in Nat /\ Len(f[t]) \in Nat
          BY <1>2, <4>5
        <5>3. EndOf(t, u)
          BY <4>3, <4>5, <5>1, <5>2, EndsAre
        <5>4. EndOf(s, g[s])
          <6>1. EndOf(Append(t, Last(s)), Append(u, Last(s)))
            BY <4>3, <5>2, <5>3, EndsAre
          <6> QED BY <4>3, <5>1, <6>1
        <5>5. Len(u) <= Len(f[t])
          BY <5>1 DEF EndOf
        <5>6. Len(g[s]) = Len(u) + 1
          BY <4>3, <5>1, <5>2, AppendIs
        <5>7. Len(g[s]) < Len(s)
          BY <4>3, <4>5, <5>2, <5>5, <5>6
        <5> QED BY <4>1, <4>6, <5>4, <5>7
      <4> QED BY <4>7, <4>8
    <3> QED BY <3>1, <3>2
  <2>3. g[Root] = Root
    <3>1. Len(Root) # d
      BY DEF Root
    <3> QED BY <1>1, <2>1, <3>1
  <2>4. DOMAIN g = states
    OBVIOUS
  <2>5. g = [s \in states |-> g[s]]
    OBVIOUS
  <2> HIDE DEF g
  <2>6. g \in [states -> states]
    BY <2>2, <2>5
  <2>7. Linked(states, g)
    BY <2>2, <2>6 DEF Linked
  <2> QED BY <2>3, <2>6, <2>7 DEF g
<1> DEFINE G == [d \in 1..deepest |-> [f \in V |-> IF d <= 1 THEN v ELSE Next1(d, f)]]
           Def(links) == links = [d \in 0..deepest |-> IF d <= 1 THEN v ELSE Next1(d, links[d - 1])]
           links == CHOOSE f : Def(f)
<1>6. \A d \in 1..deepest : \A f \in V : G[d][f] = IF d <= 1 THEN v ELSE Next1(d, f)
  <2> HIDE DEF V, v, Next1
  <2> QED OBVIOUS
<1>7. FailLinks(states) = links[deepest]
  BY DEF FailLinks
<1> HIDE DEF V, v, Next1, G, deepest
<1>8. Keeps(deepest, V, G)
  <2> SUFFICES ASSUME NEW d \in 1..deepest, NEW f \in V PROVE G[d][f] \in V
    BY DEF Keeps
  <2>1. CASE d <= 1
    BY <1>4, <1>6, <2>1
  <2>2. CASE ~(d <= 1)
    <3>1. d \in 2..deepest
      BY <1>3, <2>2
    <3> QED BY <1>5, <1>6, <2>2, <3>1
  <2> QED BY <2>1, <2>2
<1>9. PICK h : Steps(deepest, V, v, G, h)
  BY <1>3, <1>4, <1>8, Iteration
<1>10. Def(h)
  <2>1. ASSUME NEW d \in 0..deepest PROVE h[d] = IF d <= 1 THEN v ELSE Next1(d, h[d - 1])
    <3>1. CASE d = 0
      BY <1>9, <3>1 DEF Steps
    <3>2. CASE d # 0
      <4>1. d \in 1..deepest /\ d - 1 \in 0..deepest
        BY <1>3, <3>2
      <4>2. h[d - 1] \in V
        BY <1>9, <4>1 DEF Steps
      <4>3. h[d] = G[d][h[d - 1]]
        BY <1>9, <4>1 DEF Steps
      <4> QED BY <1>6, <4>1, <4>2, <4>3
    <3> QED BY <3>1, <3>2
  <2>2. h = [d \in 0..deepest |-> h[d]]
    BY <1>9 DEF Steps
  <2> QED BY <2>1, <2>2
<1>11. Def(links)
  <2> HIDE DEF Def
  <2> QED BY <1>10
<1> DEFINE P == {d \in 0..deepest : links[d] \in V}
<1> HIDE DEF links
<1>12. 0 \in P
  BY <1>3, <1>4, <1>11
<1>13. ASSUME NEW d \in 0..(deepest - 1), d \in P PROVE d + 1 \in P
  <2>1. d + 1 \in 1..deepest /\ links[d + 1] = IF d + 1 <= 1 THEN v ELSE Next1(d + 1, links[(d + 1) - 1])
    BY <1>3, <1>11
  <2>2. (d + 1) - 1 = d /\ links[d] \in V
    BY <1>3, <1>13
  <2>3. links[d + 1] \in V
    BY <1>4, <1>5, <2>1, <2>2
  <2> QED BY <1>3, <2>1, <2>3
<1>14. 0..deepest \subseteq P
  <2>1. 0 \in Int /\ deepest \in Int /\ \A d \in 0..(deepest - 1) : d \in P => d + 1 \in P
    BY <1>3, <1>13
  <2> HIDE DEF P
  <2> QED BY <1>12, <2>1, Upwards
<1>15. links[deepest] \in V
  BY <1>3, <1>14
<1> QED BY <1>7, <1>15 DEF V

-----------------------------------------------------------------------------
(* The order of the states.                                                *)

\* Bytes are numbers.
LEMMA Bytes == \A c \in Byte : c \in Nat /\ c <= 255
<1>1. \A c \in Byte : c \in 0..255
  BY ByteAssumption, Zenon
<1> QED BY <1>1

Sorts(q, S) == q \in [1..Cardinality(S) -> S] /\ Range(q) = S /\ Increasing(q)

\* One more number, lower than all others, goes in front.
LEMMA SortedInFront ==
    ASSUME NEW S \in SUBSET Nat, IsFiniteSet(S), NEW m \in S, \A n \in S : m <= n,
           NEW t, Sorts(t, S \ {m})
    PROVE  \E q : Sorts(q, S)
<1> DEFINE k == Cardinality(S)
           q == [i \in 1..k |-> IF i = 1 THEN m ELSE t[i - 1]]
<1>1. k \in Nat /\ Cardinality(S \ {m}) = k - 1
  BY FS_CardinalityType, FS_RemoveElement
<1>2. k # 0
  BY FS_EmptySet
<1> HIDE DEF k
<1>3. t \in [1..(k - 1) -> S \ {m}] /\ Range(t) = S \ {m} /\ Increasing(t)
  BY <1>1 DEF Sorts
<1>4. ASSUME NEW i \in 1..k, i # 1 PROVE i - 1 \in 1..(k - 1) /\ t[i - 1] \in S \ {m}
  <2>1. i - 1 \in 1..(k - 1)
    BY <1>1, <1>4
  <2> QED BY <1>3, <2>1
<1>5. q \in [1..k -> S]
  BY <1>4
<1>6. ASSUME NEW n \in S PROVE n \in Range(q)
  <2>1. CASE n = m
    <3>1. 1 \in DOMAIN q /\ q[1] = m
      BY <1>1, <1>2
    <3> QED BY <2>1, <3>1 DEF Range
  <2>2. CASE n # m
    <3>1. PICK i \in 1..(k - 1) : t[i] = n
      BY <1>3, <2>2 DEF Range
    <3>2. i + 1 \in DOMAIN q /\ q[i + 1] = t[i]
      BY <1>1
    <3> QED BY <3>1, <3>2 DEF Range
  <2> QED BY <2>1, <2>2
<1>7. Range(q) = S
  BY <1>5, <1>6 DEF Range
<1>8. ASSUME NEW i \in 1..k, NEW j \in 1..k, i < j PROVE q[i] < q[j]
  <2>1. j # 1 /\ q[j] = t[j - 1]
    BY <1>1, <1>8
  <2>2. CASE i = 1
    <3>1. t[j - 1] \in S /\ t[j - 1] # m
      BY <1>4, <2>1
    <3>2. \A n \in S : n # m => m < n
      OBVIOUS
    <3>3. q[i] = m
      BY <2>2
    <3> HIDE DEF q
    <3> QED BY <2>1, <3>1, <3>2, <3>3
  <2>3. CASE i # 1
    <3>1. i - 1 \in 1..(k - 1) /\ j - 1 \in 1..(k - 1) /\ i - 1 < j - 1
      BY <1>1, <1>4, <1>8, <2>1, <2>3
    <3>2. t[i - 1] < t[j - 1]
      BY <1>3, <3>1 DEF Increasing
    <3> QED BY <2>1, <2>3, <3>2
  <2> QED BY <2>2, <2>3
<1>9. Sorts(q, S)
  BY <1>5, <1>7, <1>8 DEF Sorts, Increasing, k
<1> QED BY <1>9

\* A finite set of numbers can be sorted: there is no smallest set that cannot.
LEMMA SortedIs ==
    ASSUME NEW S \in SUBSET Nat, IsFiniteSet(S)
    PROVE  Sorts(Sorted(S), S)
<1> DEFINE Bad(T) == T \in SUBSET Nat /\ IsFiniteSet(T) /\ ~\E q : Sorts(q, T)
           sizes == {k \in Nat : \E T : Bad(T) /\ Cardinality(T) = k}
<1>1. SUFFICES \E q : Sorts(q, S)
  BY <1>1 DEF Sorted, Sorts
<1> SUFFICES ASSUME Bad(S) PROVE FALSE
  OBVIOUS
<1>2. Cardinality(S) \in sizes
  BY FS_CardinalityType
<1>3. PICK k \in sizes : \A j \in sizes : k <= j
  <2>1. sizes \in SUBSET Nat /\ sizes # {}
    BY <1>2
  <2> HIDE DEF sizes
  <2> QED BY <2>1, LeastOf
<1>4. PICK T : Bad(T) /\ Cardinality(T) = k
  BY <1>3
<1>5. CASE T = {}
  <2>1. Cardinality(T) = 0
    BY <1>5, FS_EmptySet
  <2>2. Sorts(<<>>, T)
    BY <1>5, <2>1 DEF Sorts, Range, Increasing
  <2> QED BY <1>4, <2>2
<1>6. CASE T # {}
  <2>1. PICK m \in T : \A n \in T : m <= n
    BY <1>4, <1>6, LeastOf
  <2>2. /\ IsFiniteSet(T \ {m}) /\ Cardinality(T \ {m}) = k - 1
        /\ Cardinality(T \ {m}) \in Nat
    BY <1>4, <2>1, FS_RemoveElement, FS_CardinalityType
  <2>3. k - 1 \notin sizes
    BY <1>3
  <2>4. ~Bad(T \ {m})
    BY <2>2, <2>3
  <2>5. PICK t : Sorts(t, T \ {m})
    BY <1>4, <2>2, <2>4
  <2> QED BY <1>4, <2>1, <2>5, SortedInFront
<1> QED BY <1>5, <1>6

\* The inputs of a state, in the order of their numbers.
LEMMA InputsAre ==
    ASSUME NEW states, NEW s
    PROVE  LET v == SortedInputs(states, s)
           IN  /\ v \in Seq(Byte) /\ Increasing(v) /\ DOMAIN v = 1..Len(v) /\ Len(v) \in Nat
               /\ \A k \in 1..Len(v) : v[k] \in Byte /\ Append(s, v[k]) \in states
               /\ \A c \in Byte : Append(s, c) \in states => \E k \in 1..Len(v) : v[k] = c
               /\ Len(v) = Cardinality(Inputs(states, s))
<1> DEFINE v == SortedInputs(states, s)
           I == Inputs(states, s)
<1>1. I \in SUBSET Nat /\ I \subseteq Byte /\ \A c \in I : c <= 255
  BY Bytes DEF Inputs
<1>2. IsFiniteSet(I)
  BY <1>1, FS_BoundedSetOfNaturals
<1>3. Sorts(v, I)
  BY <1>1, <1>2, SortedIs DEF SortedInputs
<1>4. Cardinality(I) \in Nat
  BY <1>2, FS_CardinalityType
<1> HIDE DEF v
<1>5. v \in Seq(Byte) /\ v \in Seq(I)
  BY <1>1, <1>3, <1>4 DEF Sorts
<1>6. DOMAIN v = 1..Len(v) /\ Len(v) \in Nat /\ v \in [1..Len(v) -> I]
  BY <1>5, LenProperties
<1>7. \A c \in I : \E k \in 1..Len(v) : v[k] = c
  BY <1>3, <1>6 DEF Sorts, Range
<1>8. Len(v) = Cardinality(I)
  BY <1>3, <1>4 DEF Sorts
<1> QED BY <1>3, <1>5, <1>6, <1>7, <1>8 DEF Sorts, Inputs, v

\* The kids of a state are the states it is in front of.
LEMMA KidsAre ==
    ASSUME NEW states, IsGraph(states), NEW s \in states
    PROVE  LET v == SortedInputs(states, s)
               q == Kids(states, s)
           IN  /\ q \in Seq(states \ {Root}) /\ Len(q) = Len(v)
               /\ \A k \in 1..Len(q) : q[k] = Append(s, v[k]) /\ Front(q[k]) = s
               /\ \A j, k \in 1..Len(q) : q[j] = q[k] => j = k
               /\ \A t \in states : t # Root /\ Front(t) = s => \E k \in 1..Len(q) : q[k] = t
<1> DEFINE v == SortedInputs(states, s)
           q == Kids(states, s)
<1>0. states \in SUBSET Seq(Byte)
  BY DEF IsGraph
<1>1. /\ v \in Seq(Byte) /\ Increasing(v) /\ DOMAIN v = 1..Len(v) /\ Len(v) \in Nat
      /\ \A k \in 1..Len(v) : v[k] \in Byte /\ Append(s, v[k]) \in states
      /\ \A c \in Byte : Append(s, c) \in states => \E k \in 1..Len(v) : v[k] = c
  BY InputsAre
<1>2. q = [k \in DOMAIN v |-> Append(s, v[k])]
  BY DEF Kids
<1> HIDE DEF v, q
<1>3. ASSUME NEW k \in 1..Len(v)
      PROVE  /\ q[k] = Append(s, v[k]) /\ q[k] \in states \ {Root}
             /\ Front(q[k]) = s /\ Last(q[k]) = v[k]
  <2>1. q[k] = Append(s, v[k]) /\ v[k] \in Byte /\ Append(s, v[k]) \in states
    BY <1>1, <1>2
  <2> QED BY <1>0, <2>1, AppendIs
<1>4. q \in [1..Len(v) -> states \ {Root}]
  <2>1. q = [k \in 1..Len(v) |-> q[k]]
    BY <1>1, <1>2
  <2> QED BY <1>3, <2>1
<1>5. q \in Seq(states \ {Root}) /\ Len(q) = Len(v)
  BY <1>1, <1>4
<1>6. ASSUME NEW j \in 1..Len(v), NEW k \in 1..Len(v), q[j] = q[k] PROVE j = k
  <2>1. v[j] = v[k]
    BY <1>3, <1>6
  <2>2. v[j] \in Nat
    BY <1>1, Bytes
  <2>3. ~(j < k) /\ ~(k < j)
    BY <1>1, <2>1, <2>2 DEF Increasing
  <2> QED BY <2>3
<1>7. ASSUME NEW t \in states, t # Root, Front(t) = s PROVE \E k \in 1..Len(v) : q[k] = t
  <2>1. t = Append(s, Last(t)) /\ Last(t) \in Byte
    BY <1>0, <1>7, AppendFront, FrontIs
  <2>2. PICK k \in 1..Len(v) : v[k] = Last(t)
    BY <1>1, <2>1
  <2> QED BY <1>3, <2>1, <2>2
<1> QED BY <1>3, <1>5, <1>6, <1>7 DEF v, q

\* The work list, as it is made.
Listed(states, n, w) ==
    /\ w[0] = Kids(states, Root)
    /\ \A i \in 1..n : i <= Len(w[i - 1]) => w[i] = w[i - 1] \o Kids(states, w[i - 1][i])

\* What is on it before state number i + 1 is converted: no state twice, the kids of
\* the root and of the states converted, and more than were converted.
Lists(states, q, i) ==
    /\ q \in Seq(states \ {Root}) /\ i <= Len(q)
    /\ \A j, k \in 1..Len(q) : q[j] = q[k] => j = k
    /\ \A j \in 1..Len(q) : Front(q[j]) = Root \/ \E k \in 1..i : q[k] = Front(q[j])
    /\ \A t \in states : t # Root /\ (Front(t) = Root \/ \E k \in 1..i : q[k] = Front(t))
                           => \E j \in 1..Len(q) : q[j] = t

\* A graph without its root.
LEMMA WithoutRoot ==
    ASSUME NEW states, IsGraph(states)
    PROVE  /\ IsFiniteSet(states \ {Root}) /\ Cardinality(states \ {Root}) = Cardinality(states) - 1
           /\ Cardinality(states) - 1 \in Nat
<1>1. IsFiniteSet(states) /\ Root \in states
  BY DEF IsGraph
<1>2. /\ IsFiniteSet(states \ {Root})
      /\ Cardinality(states \ {Root}) = IF Root \in states THEN Cardinality(states) - 1 ELSE Cardinality(states)
  BY <1>1, FS_RemoveElement
<1>3. Cardinality(states \ {Root}) \in Nat
  BY <1>2, FS_CardinalityType
<1> QED BY <1>1, <1>2, <1>3

\* There is always one more until all states were converted.
LEMMA OneMore ==
    ASSUME NEW states, IsGraph(states), NEW i \in Nat, i < Cardinality(states) - 1,
           NEW q, Lists(states, q, i)
    PROVE  i + 1 \in 1..Len(q)
<1>1. states \in SUBSET Seq(Byte) /\ \A s \in states : s # Root => Front(s) \in states
  BY DEF IsGraph
<1>2. q \in Seq(states \ {Root}) /\ i <= Len(q) /\ Len(q) \in Nat /\ q \in [1..Len(q) -> states \ {Root}]
  BY LenProperties DEF Lists
<1>0. i <= Len(q) /\ Len(q) \in Nat
  BY <1>2
<1> SUFFICES ASSUME Len(q) = i PROVE FALSE
  BY <1>0
<1> DEFINE stop == {Root}
           nxt == [s \in states |-> Front(s)]
           m == [s \in states |-> Len(s)]
           P == {s \in states : s = Root \/ \E k \in 1..i : q[k] = s}
<1>3. ASSUME NEW s \in states
      PROVE  m[s] \in Nat /\ (s \notin stop => nxt[s] \in states /\ m[nxt[s]] < m[s])
  <2>1. s \in Seq(Byte) /\ Len(s) \in Nat
    BY <1>1, LenProperties
  <2>2. CASE s # Root
    <3>1. Front(s) \in states /\ Len(Front(s)) = Len(s) - 1
      BY <1>1, <2>1, <2>2, FrontIs
    <3> QED BY <2>1, <3>1
  <2> QED BY <2>1, <2>2
<1>4. GoesOn(states, stop, nxt, m)
  BY <1>3 DEF GoesOn
<1>5. \A s \in states : s \in stop => s \in P
  OBVIOUS
<1>6. ASSUME NEW s \in states, s \notin stop, nxt[s] \in P PROVE s \in P
  <2>1. s # Root /\ (Front(s) = Root \/ \E k \in 1..i : q[k] = Front(s))
    BY <1>6
  <2>2. \E k \in 1..i : q[k] = s
    BY <2>1 DEF Lists
  <2> QED BY <2>2
<1>7. states \subseteq P
  <2> HIDE DEF stop, nxt, m, P
  <2> QED BY <1>4, <1>5, <1>6, Descent
<1>8. q \in Surjection(1..i, states \ {Root})
  BY <1>2, <1>7 DEF Surjection
<1>9. Cardinality(states \ {Root}) <= i
  <2>1. ExistsSurjection(1..i, states \ {Root})
    BY <1>8 DEF ExistsSurjection
  <2> QED BY <2>1, FS_SurjCardinalityBound
<1>10. Cardinality(states \ {Root}) = Cardinality(states) - 1 /\ Cardinality(states) - 1 \in Nat
  BY WithoutRoot
<1> HIDE DEF stop, nxt, m, P
<1> QED BY <1>9, <1>10

\* The root's kids are on it first.
LEMMA FirstList ==
    ASSUME NEW states, IsGraph(states)
    PROVE  Lists(states, Kids(states, Root), 0)
<1> DEFINE q == Kids(states, Root)
<1>0. Root \in states
  BY DEF IsGraph
<1>1. /\ q \in Seq(states \ {Root})
      /\ \A k \in 1..Len(q) : Front(q[k]) = Root
      /\ \A j, k \in 1..Len(q) : q[j] = q[k] => j = k
      /\ \A t \in states : t # Root /\ Front(t) = Root => \E k \in 1..Len(q) : q[k] = t
  BY <1>0, KidsAre
<1> HIDE DEF q
<1>2. Len(q) \in Nat
  BY <1>1, LenProperties
<1> QED BY <1>1, <1>2 DEF Lists, q

\* Then those of one state after the other.
LEMMA NextList ==
    ASSUME NEW states, IsGraph(states), NEW i \in Nat, NEW q, Lists(states, q, i), i + 1 \in 1..Len(q)
    PROVE  Lists(states, q \o Kids(states, q[i + 1]), i + 1)
<1> DEFINE s == q[i + 1]
           d == Kids(states, s)
           p == q \o d
           l == Len(q)
<1>1. /\ q \in Seq(states \ {Root}) /\ l \in Nat /\ q \in [1..l -> states \ {Root}] /\ i + 1 \in 1..l
      /\ s \in states /\ s # Root
  BY LenProperties DEF Lists
<1>2. /\ d \in Seq(states \ {Root})
      /\ \A k \in 1..Len(d) : Front(d[k]) = s
      /\ \A j, k \in 1..Len(d) : d[j] = d[k] => j = k
      /\ \A t \in states : t # Root /\ Front(t) = s => \E k \in 1..Len(d) : d[k] = t
  BY <1>1, KidsAre
<1> HIDE DEF d
<1>3. Len(d) \in Nat
  BY <1>2, LenProperties
<1>4. /\ p \in Seq(states \ {Root}) /\ Len(p) = l + Len(d)
      /\ \A k \in 1..(l + Len(d)) : p[k] = IF k <= l THEN q[k] ELSE d[k - l]
  BY <1>1, <1>2, ConcatProperties
<1>5. /\ \A k \in 1..l : k \in 1..(l + Len(d)) /\ p[k] = q[k]
      /\ \A k \in 1..Len(d) : k + l \in 1..(l + Len(d)) /\ p[k + l] = d[k]
  <2>1. \A k \in 1..l : k \in 1..(l + Len(d)) /\ k <= l
    BY <1>1, <1>3
  <2>2. \A k \in 1..Len(d) : k + l \in 1..(l + Len(d)) /\ ~(k + l <= l) /\ (k + l) - l = k
    BY <1>1, <1>3
  <2> HIDE DEF p, l
  <2> QED BY <1>4, <2>1, <2>2
<1>6. \A k \in 1..(l + Len(d)) : k \in 1..l \/ (k - l \in 1..Len(d) /\ k = (k - l) + l)
  BY <1>1, <1>3
<1> HIDE DEF p, l, s
<1>7. ASSUME NEW k \in 1..(l + Len(d))
      PROVE  \/ k \in 1..l /\ p[k] = q[k]
             \/ \E j \in 1..Len(d) : k = j + l /\ p[k] = d[j]
  BY <1>5, <1>6
<1>8. \A j \in 1..Len(d) : \A k \in 1..l : q[k] # d[j]
  <2> SUFFICES ASSUME NEW j \in 1..Len(d), NEW k \in 1..l, q[k] = d[j] PROVE FALSE
    OBVIOUS
  <2>1. Front(q[k]) = s
    BY <1>2
  <2>2. PICK o \in 1..i : q[o] = s
    BY <1>1, <2>1 DEF Lists, l
  <2>3. o \in 1..l /\ i + 1 \in 1..l /\ o # i + 1 /\ q[o] = q[i + 1]
    BY <1>1, <2>2 DEF s
  <2> QED BY <2>3 DEF Lists, l
<1>9. ASSUME NEW j \in 1..(l + Len(d)), NEW k \in 1..(l + Len(d)), p[j] = p[k] PROVE j = k
  <2>1. CASE j \in 1..l /\ p[j] = q[j]
    <3>1. CASE k \in 1..l /\ p[k] = q[k]
      BY <1>9, <2>1, <3>1 DEF Lists, l
    <3>2. CASE \E o \in 1..Len(d) : k = o + l /\ p[k] = d[o]
      BY <1>8, <1>9, <2>1, <3>2
    <3> QED BY <1>7, <3>1, <3>2
  <2>2. CASE \E o \in 1..Len(d) : j = o + l /\ p[j] = d[o]
    <3>1. CASE k \in 1..l /\ p[k] = q[k]
      BY <1>8, <1>9, <2>2, <3>1
    <3>2. CASE \E o \in 1..Len(d) : k = o + l /\ p[k] = d[o]
      BY <1>2, <1>9, <2>2, <3>2
    <3> QED BY <1>7, <3>1, <3>2
  <2> QED BY <1>7, <2>1, <2>2
<1>a. \A o \in 1..(i + 1) : o \in 1..l /\ p[o] = q[o]
  <2>1. \A o \in 1..(i + 1) : o \in 1..l
    BY <1>1
  <2> QED BY <1>5, <2>1
<1>b. i + 1 \in 1..(i + 1) /\ p[i + 1] = s /\ \A o \in 1..i : o \in 1..(i + 1)
  BY <1>a DEF s
<1>10. ASSUME NEW j \in 1..(l + Len(d))
       PROVE  Front(p[j]) = Root \/ \E o \in 1..(i + 1) : p[o] = Front(p[j])
  <2>1. CASE j \in 1..l /\ p[j] = q[j]
    <3>1. Front(q[j]) = Root \/ \E o \in 1..i : q[o] = Front(q[j])
      BY <2>1 DEF Lists, l
    <3> QED BY <1>a, <1>b, <2>1, <3>1
  <2>2. CASE \E o \in 1..Len(d) : j = o + l /\ p[j] = d[o]
    BY <1>2, <1>b, <2>2
  <2> QED BY <1>7, <2>1, <2>2
<1>11. ASSUME NEW t \in states, t # Root, Front(t) = Root \/ \E o \in 1..(i + 1) : p[o] = Front(t)
       PROVE  \E j \in 1..(l + Len(d)) : p[j] = t
  <2>1. CASE Front(t) = Root \/ \E o \in 1..i : q[o] = Front(t)
    <3>1. \E j \in 1..l : q[j] = t
      BY <1>11, <2>1 DEF Lists, l
    <3> QED BY <1>5, <3>1
  <2>2. CASE Front(t) = s
    <3>1. \E j \in 1..Len(d) : d[j] = t
      BY <1>2, <1>11, <2>2
    <3> QED BY <1>5, <3>1
  <2>3. \A o \in 1..(i + 1) : o \in 1..i \/ o = i + 1
    OBVIOUS
  <2> QED BY <1>11, <1>a, <1>b, <2>1, <2>2, <2>3
<1>12. i + 1 <= l + Len(d)
  BY <1>1, <1>3
<1>13. Lists(states, p, i + 1)
  <2> HIDE DEF Lists
  <2>1. Len(p) = l + Len(d)
    BY <1>4
  <2> QED BY <1>4, <1>9, <1>10, <1>11, <1>12, <2>1 DEF Lists
<1> QED BY <1>13 DEF p, d, s

\* So at each step.
LEMMA ListsAre ==
    ASSUME NEW states, IsGraph(states), NEW w, NEW n \in Nat, n = Cardinality(states) - 1,
           Listed(states, n, w)
    PROVE  \A i \in 0..n : Lists(states, w[i], i) /\ (i < n => i + 1 \in 1..Len(w[i]))
<1> DEFINE P == {i \in 0..n : Lists(states, w[i], i) /\ (i < n => i + 1 \in 1..Len(w[i]))}
<1>1. ASSUME NEW i \in 0..n, Lists(states, w[i], i) PROVE i \in P
  BY <1>1, OneMore
<1>2. 0 \in P
  BY <1>1, FirstList DEF Listed
<1>3. ASSUME NEW i \in 0..(n - 1), i \in P PROVE i + 1 \in P
  <2>1. Lists(states, w[i], i) /\ i + 1 \in 1..Len(w[i]) /\ i + 1 \in 1..n /\ (i + 1) - 1 = i /\ i + 1 \in 0..n
    BY <1>3
  <2>2. w[i + 1] = w[i] \o Kids(states, w[i][i + 1])
    <3>1. i + 1 <= Len(w[(i + 1) - 1])
      <4>1. Len(w[i]) \in Nat
        BY <2>1, LenProperties DEF Lists
      <4> QED BY <2>1, <4>1
    <3> HIDE DEF P
    <3>2. w[i + 1] = w[(i + 1) - 1] \o Kids(states, w[(i + 1) - 1][i + 1])
      BY <2>1, <3>1 DEF Listed
    <3> QED BY <2>1, <3>2
  <2>3. Lists(states, w[i + 1], i + 1)
    BY <2>1, <2>2, NextList
  <2> QED BY <1>1, <2>1, <2>3
<1>4. 0..n \subseteq P
  <2>1. 0 \in Int /\ n \in Int /\ \A i \in 0..(n - 1) : i \in P => i + 1 \in P
    BY <1>3
  <2> HIDE DEF P
  <2> QED BY <1>2, <2>1, Upwards
<1> QED BY <1>4

\* The work list of a graph is made so.
LEMMA WorkListIs ==
    ASSUME NEW states, IsGraph(states), NEW n \in Nat, n = Cardinality(states) - 1
    PROVE  Listed(states, n, WorkList(states))
<1> DEFINE V == Seq(states \ {Root})
           v == Kids(states, Root)
           G == [i \in 1..n |-> [q \in V |-> IF i <= Len(q) THEN q \o Kids(states, q[i]) ELSE q]]
           Def(w) == w = [i \in 0..n |-> IF i = 0 THEN Kids(states, Root)
                                         ELSE w[i - 1] \o Kids(states, w[i - 1][i])]
           w == WorkList(states)
<1>1. w = CHOOSE f : Def(f)
  BY DEF WorkList
<1>2. v \in V
  <2>1. Root \in states
    BY DEF IsGraph
  <2> QED BY <2>1, KidsAre
<1>3. \A i \in 1..n : \A q \in V : G[i][q] = IF i <= Len(q) THEN q \o Kids(states, q[i]) ELSE q
  <2> HIDE DEF V
  <2> QED OBVIOUS
<1>4. Keeps(n, V, G)
  <2> SUFFICES ASSUME NEW i \in 1..n, NEW q \in V PROVE G[i][q] \in V
    BY DEF Keeps
  <2>1. CASE i <= Len(q)
    <3>1. Len(q) \in Nat /\ q \in [1..Len(q) -> states \ {Root}]
      BY LenProperties
    <3>2. i \in 1..Len(q)
      BY <2>1, <3>1
    <3>3. q[i] \in states
      BY <3>1, <3>2
    <3>4. Kids(states, q[i]) \in V
      BY <3>3, KidsAre
    <3>5. q \o Kids(states, q[i]) \in V
      BY <3>4, ConcatProperties
    <3> HIDE DEF V, G
    <3> QED BY <1>3, <2>1, <3>5
  <2>2. CASE ~(i <= Len(q))
    <3> HIDE DEF V, G
    <3> QED BY <1>3, <2>2
  <2> QED BY <2>1, <2>2
<1>5. PICK f : Steps(n, V, v, G, f)
  <2> HIDE DEF V, G, v
  <2> QED BY <1>2, <1>4, Iteration
<1>6. \A i \in 1..n : f[i - 1] \in V /\ f[i] = G[i][f[i - 1]]
  <2>1. \A i \in 1..n : i - 1 \in 0..n
    OBVIOUS
  <2> HIDE DEF V, G
  <2> QED BY <1>5, <2>1 DEF Steps
<1>7. Listed(states, n, f)
  <2>1. f[0] = Kids(states, Root)
    BY <1>5 DEF Steps
  <2>2. ASSUME NEW i \in 1..n, i <= Len(f[i - 1]) PROVE f[i] = f[i - 1] \o Kids(states, f[i - 1][i])
    <3> HIDE DEF V, G
    <3> QED BY <1>3, <1>6, <2>2
  <2> QED BY <2>1, <2>2 DEF Listed
<1>8. \A i \in 0..n : Lists(states, f[i], i) /\ (i < n => i + 1 \in 1..Len(f[i]))
  BY <1>7, ListsAre
<1>9. ASSUME NEW i \in 0..n
      PROVE  f[i] = IF i = 0 THEN Kids(states, Root) ELSE f[i - 1] \o Kids(states, f[i - 1][i])
  <2>1. CASE i = 0
    BY <1>7, <2>1 DEF Listed
  <2>2. CASE i # 0
    <3>1. i \in 1..n /\ i - 1 \in 0..n /\ i - 1 < n /\ (i - 1) + 1 = i
      BY <2>2
    <3>2. Len(f[i - 1]) \in Nat
      BY <1>6, <3>1, LenProperties
    <3>3. i \in 1..Len(f[i - 1])
      BY <1>8, <3>1
    <3>4. i <= Len(f[i - 1])
      BY <3>2, <3>3
    <3>5. f[i] = f[i - 1] \o Kids(states, f[i - 1][i])
      BY <1>7, <3>1, <3>4 DEF Listed
    <3> QED BY <2>2, <3>5
  <2> QED BY <2>1, <2>2
<1>10. Def(f)
  <2>1. f = [i \in 0..n |-> f[i]]
    <3> HIDE DEF V, G
    <3> QED BY <1>5 DEF Steps
  <2> QED BY <1>9, <2>1
<1>11. Def(w)
  <2> HIDE DEF Def, w
  <2> QED BY <1>1, <1>10
<1> HIDE DEF w
<1>12. w[0] = Kids(states, Root)
  BY <1>11
<1>13. ASSUME NEW i \in 1..n PROVE w[i] = w[i - 1] \o Kids(states, w[i - 1][i])
  BY <1>11
<1> QED BY <1>12, <1>13 DEF Listed, w

\* What it is made of, in one sequence.
LEMMA Concatenated ==
    ASSUME NEW S, NEW a \in Seq(S), NEW e \in Seq(S), NEW p, p = a \o e
    PROVE  /\ Len(a) \in Nat /\ Len(e) \in Nat /\ Len(p) = Len(a) + Len(e) /\ Len(a) <= Len(p)
           /\ \A k \in 1..Len(a) : k \in 1..Len(p) /\ p[k] = a[k]
           /\ \A k \in 1..Len(e) : Len(a) + k \in 1..Len(p) /\ p[Len(a) + k] = e[k]
<1>1. Len(a) \in Nat /\ Len(e) \in Nat
  BY LenProperties
<1>2. /\ Len(p) = Len(a) + Len(e)
      /\ \A k \in 1..Len(a) + Len(e) : p[k] = IF k <= Len(a) THEN a[k] ELSE e[k - Len(a)]
  BY ConcatProperties
<1>3. \A k \in 1..Len(a) : k \in 1..Len(a) + Len(e) /\ k <= Len(a)
  BY <1>1
<1>4. \A k \in 1..Len(e) : /\ Len(a) + k \in 1..Len(a) + Len(e) /\ ~(Len(a) + k <= Len(a))
                           /\ (Len(a) + k) - Len(a) = k
  BY <1>1
<1>5. Len(a) <= Len(a) + Len(e)
  BY <1>1
<1> QED BY <1>1, <1>2, <1>3, <1>4, <1>5

\* The state of each number.
Order(states) == WorkList(states)[Cardinality(states) - 1]
Vect(states, id) == SortedInputs(states, Order(states)[id])

\* Each state but the root has a number of its own, up to that of the last, and the
\* kids of a state follow the ones that were on the work list when it was converted.
LEMMA OrderIs ==
    ASSUME NEW states, IsGraph(states)
    PROVE  LET n == Cardinality(states) - 1
               q == Order(states)
               first(id) == Len(WorkList(states)[id - 1])
           IN  /\ n \in Nat /\ q \in [1..n -> states \ {Root}] /\ Len(q) = n
               /\ \A j, k \in 1..n : q[j] = q[k] => j = k
               /\ \A t \in states : t # Root => \E id \in 1..n : q[id] = t
               /\ \A id \in 1..n : \A k \in 1..Len(Vect(states, id)) :
                    first(id) \in Nat /\ first(id) + k \in 1..n /\ q[first(id) + k] = Append(q[id], Vect(states, id)[k])
<1> DEFINE n == Cardinality(states) - 1
           w == WorkList(states)
           q == Order(states)
           kids(id) == Kids(states, w[id - 1][id])
<1>1. n \in Nat /\ IsFiniteSet(states \ {Root}) /\ Cardinality(states \ {Root}) = n
  BY WithoutRoot
<1>2. q = w[n]
  BY DEF Order
<1> HIDE DEF q, n, w
<1>3. Listed(states, n, w)
  BY <1>1, WorkListIs DEF n, w
<1>4. \A i \in 0..n : Lists(states, w[i], i) /\ (i < n => i + 1 \in 1..Len(w[i]))
  BY <1>1, <1>3, ListsAre DEF n
<1>5. \A i \in 0..n : /\ w[i] \in Seq(states \ {Root}) /\ Len(w[i]) \in Nat
                      /\ w[i] \in [1..Len(w[i]) -> states \ {Root}] /\ i <= Len(w[i])
  BY <1>4, LenProperties DEF Lists
<1>6. Lists(states, q, n) /\ q \in Seq(states \ {Root}) /\ Len(q) \in Nat
      /\ q \in [1..Len(q) -> states \ {Root}] /\ n <= Len(q)
  <2>1. n \in 0..n
    BY <1>1
  <2> QED BY <1>2, <1>4, <1>5, <2>1
<1>7. Len(q) = n /\ q \in Surjection(1..Len(q), states \ {Root})
  <2>1. q \in Injection(1..Len(q), states \ {Root})
    BY <1>6 DEF Lists, Injection, IsInjective
  <2>2. /\ Cardinality(1..Len(q)) <= n
        /\ Cardinality(1..Len(q)) = n <=> q \in Surjection(1..Len(q), states \ {Root})
    BY <1>1, <2>1, FS_Injection
  <2>3. Cardinality(1..Len(q)) = Len(q)
    <3>1. Cardinality(1..Len(q)) = IF 1 > Len(q) THEN 0 ELSE Len(q) - 1 + 1
      BY <1>6, FS_Interval
    <3> QED BY <1>6, <3>1
  <2>4. Len(q) = n
    <3>1. Len(q) <= n
      BY <2>2, <2>3
    <3>2. n \in Nat /\ Len(q) \in Nat /\ n <= Len(q)
      BY <1>1, <1>6
    <3> QED BY <3>1, <3>2
  <2> QED BY <2>2, <2>3, <2>4
<1>8. ASSUME NEW id \in 1..n
      PROVE  /\ id - 1 \in 0..n /\ id \in 0..n /\ id \in 1..Len(w[id - 1]) /\ w[id - 1][id] \in states
             /\ w[id] = w[id - 1] \o kids(id) /\ kids(id) \in Seq(states \ {Root})
             /\ \A k \in 1..Len(kids(id)) : kids(id)[k] = Append(w[id - 1][id], SortedInputs(states, w[id - 1][id])[k])
             /\ Len(kids(id)) = Len(SortedInputs(states, w[id - 1][id]))
  <2>1. id - 1 \in 0..n /\ id - 1 < n /\ (id - 1) + 1 = id /\ id \in 0..n
    BY <1>1
  <2>2. id \in 1..Len(w[id - 1])
    BY <1>4, <2>1
  <2>3. w[id - 1][id] \in states
    BY <1>5, <2>1, <2>2
  <2>4. id <= Len(w[id - 1])
    BY <1>5, <2>1, <2>2
  <2>5. w[id] = w[id - 1] \o kids(id)
    BY <1>3, <2>4 DEF Listed
  <2> QED BY <2>1, <2>2, <2>3, <2>5, KidsAre
<1>9. ASSUME NEW i \in 0..n, NEW j \in i..n
      PROVE  Len(w[i]) <= Len(w[j]) /\ \A k \in 1..Len(w[i]) : w[j][k] = w[i][k]
  <2> DEFINE P == {o \in i..n : Len(w[i]) <= Len(w[o]) /\ \A k \in 1..Len(w[i]) : w[o][k] = w[i][k]}
  <2>1. i \in P
    BY <1>1, <1>5
  <2>2. ASSUME NEW o \in i..(n - 1), o \in P PROVE o + 1 \in P
    <3>1. o + 1 \in 1..n /\ (o + 1) - 1 = o /\ o \in 0..n /\ o + 1 \in i..n /\ o + 1 \in 0..n
      BY <1>1
    <3>2. w[o + 1] = w[o] \o kids(o + 1) /\ kids(o + 1) \in Seq(states \ {Root})
      BY <1>8, <3>1
    <3> HIDE DEF kids
    <3>4. w[o] \in Seq(states \ {Root}) /\ Len(w[o]) \in Nat /\ Len(w[i]) \in Nat /\ Len(w[o + 1]) \in Nat
      BY <1>5, <3>1
    <3>5. Len(w[o]) <= Len(w[o + 1]) /\ \A k \in 1..Len(w[o]) : w[o + 1][k] = w[o][k]
      <4> DEFINE a == w[o]
                 e == kids(o + 1)
                 p == w[o + 1]
      <4>1. a \in Seq(states \ {Root}) /\ e \in Seq(states \ {Root}) /\ p = a \o e
        BY <3>2, <3>4
      <4> HIDE DEF a, e, p
      <4>2. Len(a) <= Len(p) /\ \A k \in 1..Len(a) : p[k] = a[k]
        BY <4>1, Concatenated
      <4> QED BY <4>2 DEF a, p
    <3>6. Len(w[i]) <= Len(w[o]) /\ \A k \in 1..Len(w[i]) : w[o][k] = w[i][k]
      BY <2>2
    <3> HIDE DEF P
    <3>7. Len(w[i]) <= Len(w[o + 1])
      BY <3>4, <3>5, <3>6
    <3>8. ASSUME NEW k \in 1..Len(w[i]) PROVE w[o + 1][k] = w[i][k]
      <4>1. k \in 1..Len(w[o])
        BY <3>4, <3>6
      <4> QED BY <3>5, <3>6, <4>1
    <3> QED BY <3>1, <3>7, <3>8 DEF P
  <2>3. i..n \subseteq P
    <3>1. i \in Int /\ n \in Int
      BY <1>1
    <3> HIDE DEF P
    <3> QED BY <2>1, <2>2, <3>1, Upwards
  <2> QED BY <2>3
<1>10. ASSUME NEW id \in 1..n, NEW k \in 1..Len(Vect(states, id))
       PROVE  /\ Len(w[id - 1]) \in Nat /\ Len(w[id - 1]) + k \in 1..n
              /\ q[Len(w[id - 1]) + k] = Append(q[id], Vect(states, id)[k])
  <2> DEFINE l == Len(w[id - 1])
             d == kids(id)
  <2>1. /\ id - 1 \in 0..n /\ id \in 0..n /\ id \in 1..l /\ w[id - 1][id] \in states
        /\ w[id] = w[id - 1] \o d /\ d \in Seq(states \ {Root})
        /\ \A o \in 1..Len(d) : d[o] = Append(w[id - 1][id], SortedInputs(states, w[id - 1][id])[o])
        /\ Len(d) = Len(SortedInputs(states, w[id - 1][id]))
    BY <1>8
  <2>2. n \in (id - 1)..n /\ n \in id..n
    BY <1>1
  <2>3. q[id] = w[id - 1][id]
    BY <1>2, <1>9, <2>1, <2>2
  <2>4. Vect(states, id) = SortedInputs(states, w[id - 1][id])
    BY <2>3 DEF Vect, q
  <2> HIDE DEF d
  <2>5. l \in Nat /\ w[id - 1] \in Seq(states \ {Root}) /\ Len(w[id]) \in Nat
    BY <1>5, <2>1
  <2>7. /\ \A o \in 1..Len(d) : l + o \in 1..Len(w[id]) /\ w[id][l + o] = d[o]
    BY <2>1, <2>5, Concatenated
  <2>8. k \in 1..Len(d)
    BY <2>1, <2>4
  <2>9. Len(w[id]) <= n
    BY <1>2, <1>7, <1>9, <2>1, <2>2
  <2> HIDE DEF l
  <2>11. l + k \in 1..Len(w[id]) /\ w[id][l + k] = d[k]
    BY <2>7, <2>8
  <2>10. l + k \in 1..n
    BY <1>1, <2>5, <2>9, <2>11
  <2>12. q[l + k] = w[id][l + k]
    BY <1>2, <1>9, <2>1, <2>2, <2>11
  <2>13. d[k] = Append(w[id - 1][id], SortedInputs(states, w[id - 1][id])[k])
    BY <2>1, <2>8
  <2>14. q[l + k] = Append(q[id], Vect(states, id)[k])
    BY <2>3, <2>4, <2>11, <2>12, <2>13
  <2> QED BY <2>5, <2>10, <2>14 DEF l
<1>11. \A j, k \in 1..n : q[j] = q[k] => j = k
  BY <1>6, <1>7 DEF Lists
<1>12. \A t \in states : t # Root => \E id \in 1..n : q[id] = t
  BY <1>7 DEF Surjection
<1> QED BY <1>1, <1>6, <1>7, <1>10, <1>11, <1>12 DEF n, w, q

-----------------------------------------------------------------------------
(* The inputs of a state are searched.                                     *)

\* What a search has found, or not.
Finds(v, c, k) == \/ k = -1 /\ \A j \in 1..Len(v) : v[j] # c
                  \/ k \in 0..(Len(v) - 1) /\ v[k + 1] = c

\* One by one.
Scan(v, c) == SelectInSeq(v, LAMBDA x : x = c) - 1

\* What the search one by one finds.
LEMMA ScanIs ==
    ASSUME NEW v, Len(v) \in Nat, NEW c
    PROVE  Finds(v, c, Scan(v, c))
<1> DEFINE I == {i \in 1..Len(v) : v[i] = c}
<1>1. Scan(v, c) = (IF I # {} THEN Min(I) ELSE 0) - 1
  BY DEF SelectInSeq, Scan
<1>2. CASE I = {}
  <2>1. Scan(v, c) = -1
    BY <1>1, <1>2
  <2> QED BY <1>2, <2>1 DEF Finds
<1>3. CASE I # {}
  <2>1. Min(I) \in I
    <3>1. I \in SUBSET Nat
      OBVIOUS
    <3> HIDE DEF I
    <3> QED BY <1>3, <3>1, LeastOf
  <2> DEFINE k == Min(I)
  <2>2. k \in 1..Len(v) /\ v[k] = c
    BY <2>1
  <2>3. Scan(v, c) = k - 1
    BY <1>1, <1>3
  <2> HIDE DEF k
  <2>4. k - 1 \in 0..(Len(v) - 1) /\ (k - 1) + 1 = k
    BY <2>2
  <2> QED BY <2>2, <2>3, <2>4 DEF Finds
<1> QED BY <1>2, <1>3

\* The middle of two numbers.
LEMMA MiddleIs ==
    ASSUME NEW low \in Int, NEW high \in Int, low <= high
    PROVE  (low + high) \div 2 \in low..high
  OBVIOUS

\* By halves.
LEMMA SearchIs ==
    ASSUME NEW v \in Seq(Byte), Increasing(v), NEW c \in Byte
    PROVE  Finds(v, c, SearchInput(v, c))
<1> DEFINE n == Len(v)
           D == (0..n) \X (-1..n - 1)
           mid(x) == (x[1] + x[2]) \div 2
           stop == {x \in D : x[1] > x[2] \/ v[mid(x) + 1] = c}
           base == [x \in D |-> IF x[1] > x[2] THEN -1 ELSE mid(x)]
           nxt == [x \in D |-> IF c < v[mid(x) + 1] THEN <<x[1], mid(x) - 1>> ELSE <<mid(x) + 1, x[2]>>]
           m == [x \in D |-> IF x[1] > x[2] THEN 0 ELSE x[2] - x[1] + 1]
           Value(x, f) == IF x[1] > x[2] THEN -1
                          ELSE IF c < v[mid(x) + 1] THEN f[<<x[1], mid(x) - 1>>]
                          ELSE IF c > v[mid(x) + 1] THEN f[<<mid(x) + 1, x[2]>>]
                          ELSE mid(x)
           Def(f) == f = [x \in D |-> Value(x, f)]
           search == CHOOSE f : Def(f)
<1>1. /\ n \in Nat /\ v \in [1..n -> Byte] /\ DOMAIN v = 1..n /\ c \in Int
      /\ \A k \in 1..n : v[k] \in Int
      /\ \A j, k \in 1..n : j < k => v[j] < v[k]
  BY LenProperties, Bytes DEF Increasing
<1>2. SearchInput(v, c) = IF n <= LinearMax THEN Scan(v, c) ELSE search[<<0, n - 1>>]
  BY DEF SearchInput, Scan
<1>3. \A x \in D : x = <<x[1], x[2]>> /\ x[1] \in 0..n /\ x[2] \in -1..n - 1
  OBVIOUS
<1>4. ASSUME NEW x \in D, x[1] <= x[2]
      PROVE  /\ mid(x) \in x[1]..x[2] /\ mid(x) + 1 \in 1..n /\ v[mid(x) + 1] \in Int
             /\ mid(x) \in 0..(n - 1)
             /\ <<x[1], mid(x) - 1>> \in D /\ <<mid(x) + 1, x[2]>> \in D
  <2>0. x[1] \in 0..n /\ x[2] \in -1..n - 1
    BY <1>3
  <2>1. mid(x) \in x[1]..x[2]
    BY <1>4, <2>0, MiddleIs
  <2> HIDE DEF mid, n
  <2>3. n \in Nat
    BY <1>1
  <2>2. mid(x) + 1 \in 1..n /\ mid(x) \in 0..(n - 1) /\ mid(x) - 1 \in -1..(n - 1) /\ mid(x) + 1 \in 0..n
    BY <2>0, <2>1, <2>3
  <2>4. v[mid(x) + 1] \in Int
    BY <1>1, <2>2
  <2> QED BY <2>0, <2>1, <2>2, <2>4
<1> HIDE DEF mid, D, n
<1>5. ASSUME NEW x \in D
      PROVE  m[x] \in Nat /\ (x \notin stop => nxt[x] \in D /\ m[nxt[x]] < m[x])
  <2>1. x[1] \in Int /\ x[2] \in Int
    BY <1>1, <1>3
  <2>2. CASE x[1] > x[2]
    BY <2>2
  <2>3. CASE ~(x[1] > x[2])
    <3>1. /\ mid(x) \in x[1]..x[2] /\ <<x[1], mid(x) - 1>> \in D /\ <<mid(x) + 1, x[2]>> \in D
      BY <1>4, <2>1, <2>3
    <3>2. m[x] = x[2] - x[1] + 1
      BY <2>3
    <3>3. m[<<x[1], mid(x) - 1>>] = IF x[1] > mid(x) - 1 THEN 0 ELSE (mid(x) - 1) - x[1] + 1
      BY <3>1
    <3>4. m[<<mid(x) + 1, x[2]>>] = IF mid(x) + 1 > x[2] THEN 0 ELSE x[2] - (mid(x) + 1) + 1
      BY <3>1
    <3>5. nxt[x] \in {<<x[1], mid(x) - 1>>, <<mid(x) + 1, x[2]>>}
      OBVIOUS
    <3> HIDE DEF m, nxt
    <3>6. m[<<x[1], mid(x) - 1>>] < m[x] /\ m[<<mid(x) + 1, x[2]>>] < m[x] /\ m[x] \in Nat
      BY <2>1, <2>3, <3>1, <3>2, <3>3, <3>4
    <3> QED BY <3>1, <3>5, <3>6
  <2> QED BY <2>2, <2>3
<1>6. GoesOn(D, stop, nxt, m)
  <2> HIDE DEF stop, nxt, m
  <2> QED BY <1>5 DEF GoesOn
<1>7. \A x \in D : m[x] <= n + 1
  <2> SUFFICES ASSUME NEW x \in D PROVE m[x] <= n + 1
    OBVIOUS
  <2>1. x[1] \in 0..n /\ x[2] \in -1..n - 1
    BY <1>3
  <2> QED BY <1>1, <2>1
<1>8. PICK g : TailCalls(D, stop, base, nxt, g)
  <2>1. n + 1 \in Nat
    BY <1>1
  <2> HIDE DEF stop, base, nxt, m
  <2> QED BY <1>6, <1>7, <2>1, Recursion
<1>9. Def(g)
  <2>1. ASSUME NEW x \in D PROVE (IF x \in stop THEN base[x] ELSE g[nxt[x]]) = Value(x, g)
    <3>1. CASE x[1] > x[2]
      BY <3>1
    <3>2. CASE ~(x[1] > x[2])
      <4>0. x[1] <= x[2]
        <5>1. x[1] \in 0..n /\ x[2] \in -1..n - 1
          BY <1>3
        <5> QED BY <1>1, <3>2, <5>1
      <4>1. v[mid(x) + 1] \in Int /\ c \in Int
        BY <1>1, <1>4, <4>0
      <4>2. CASE v[mid(x) + 1] = c
        BY <3>2, <4>1, <4>2
      <4>3. CASE c < v[mid(x) + 1]
        BY <3>2, <4>1, <4>3
      <4>4. CASE c > v[mid(x) + 1]
        BY <3>2, <4>1, <4>4
      <4> QED BY <4>1, <4>2, <4>3, <4>4
    <3> QED BY <3>1, <3>2
  <2> HIDE DEF Value, stop, base, nxt
  <2>2. [x \in D |-> IF x \in stop THEN base[x] ELSE g[nxt[x]]] = [x \in D |-> Value(x, g)]
    BY <2>1
  <2> QED BY <1>8, <2>2 DEF TailCalls
<1>10. Def(search)
  <2> HIDE DEF Def
  <2> QED BY <1>9
<1> HIDE DEF search
<1>11. \A x \in D : search[x] = Value(x, search)
  <2> HIDE DEF Value
  <2> QED BY <1>10
<1> DEFINE P == {x \in D : \/ search[x] = -1 /\ \A j \in 1..n : x[1] < j /\ j <= x[2] + 1 => v[j] # c
                           \/ search[x] \in 0..(n - 1) /\ v[search[x] + 1] = c}
<1>12. ASSUME NEW x \in D, x \in stop PROVE x \in P
  <2>0. x[1] \in Int /\ x[2] \in Int
    BY <1>1, <1>3
  <2>1. CASE x[1] > x[2]
    <3>1. search[x] = -1
      BY <1>11, <2>1
    <3>2. \A j \in 1..n : ~(x[1] < j /\ j <= x[2] + 1)
      BY <2>0, <2>1
    <3> QED BY <3>1, <3>2
  <2>2. CASE ~(x[1] > x[2])
    <3>0. x[1] <= x[2]
      BY <2>0, <2>2
    <3>4. v[mid(x) + 1] = c
      BY <1>12, <2>2
    <3>1. v[mid(x) + 1] = c /\ mid(x) \in 0..(n - 1)
      BY <1>4, <3>0, <3>4
    <3>2. ~(c < v[mid(x) + 1]) /\ ~(c > v[mid(x) + 1])
      BY <1>1, <3>1
    <3>3. search[x] = mid(x)
      BY <1>11, <2>2, <3>2
    <3> QED BY <3>1, <3>3
  <2> QED BY <2>1, <2>2
<1>13. ASSUME NEW x \in D, x \notin stop, nxt[x] \in P PROVE x \in P
  <2>0. x[1] \in Int /\ x[2] \in Int /\ ~(x[1] > x[2]) /\ v[mid(x) + 1] # c
    BY <1>1, <1>3, <1>13
  <2>1. /\ mid(x) \in x[1]..x[2] /\ mid(x) + 1 \in 1..n /\ v[mid(x) + 1] \in Int
        /\ <<x[1], mid(x) - 1>> \in D /\ <<mid(x) + 1, x[2]>> \in D
    BY <1>4, <2>0
  <2>2. CASE c < v[mid(x) + 1]
    <3> DEFINE y == <<x[1], mid(x) - 1>>
    <3>1. nxt[x] = y /\ search[x] = search[y] /\ y[1] = x[1] /\ y[2] = mid(x) - 1
      BY <1>11, <2>0, <2>2
    <3>2. y \in P
      BY <1>13, <3>1
    <3>3. CASE search[y] = -1 /\ \A j \in 1..n : y[1] < j /\ j <= y[2] + 1 => v[j] # c
      <4>1. ASSUME NEW j \in 1..n, x[1] < j, j <= x[2] + 1 PROVE v[j] # c
        <5>1. CASE j <= y[2] + 1
          BY <3>1, <3>3, <4>1, <5>1
        <5>2. CASE ~(j <= y[2] + 1)
          <6>1. j = mid(x) + 1 \/ mid(x) + 1 < j
            BY <2>1, <3>1, <5>2
          <6>2. v[j] = v[mid(x) + 1] \/ v[mid(x) + 1] < v[j]
            BY <1>1, <2>1, <6>1
          <6>3. v[j] \in Int
            BY <1>1
          <6> QED BY <1>1, <2>1, <2>2, <6>2, <6>3
        <5> QED BY <5>1, <5>2
      <4> QED BY <3>1, <3>3, <4>1
    <3>4. CASE search[y] \in 0..(n - 1) /\ v[search[y] + 1] = c
      BY <3>1, <3>4
    <3> QED BY <3>2, <3>3, <3>4
  <2>3. CASE ~(c < v[mid(x) + 1])
    <3> DEFINE y == <<mid(x) + 1, x[2]>>
    <3>0. c > v[mid(x) + 1]
      BY <1>1, <2>0, <2>1, <2>3
    <3>1. nxt[x] = y /\ search[x] = search[y] /\ y[1] = mid(x) + 1 /\ y[2] = x[2]
      BY <1>11, <2>0, <2>3, <3>0
    <3>2. y \in P
      BY <1>13, <3>1
    <3>3. CASE search[y] = -1 /\ \A j \in 1..n : y[1] < j /\ j <= y[2] + 1 => v[j] # c
      <4>1. ASSUME NEW j \in 1..n, x[1] < j, j <= x[2] + 1 PROVE v[j] # c
        <5>1. CASE y[1] < j
          BY <3>1, <3>3, <4>1, <5>1
        <5>2. CASE ~(y[1] < j)
          <6>1. j = mid(x) + 1 \/ j < mid(x) + 1
            BY <2>1, <3>1, <5>2
          <6>2. v[j] = v[mid(x) + 1] \/ v[j] < v[mid(x) + 1]
            BY <1>1, <2>1, <6>1
          <6>3. v[j] \in Int
            BY <1>1
          <6> QED BY <1>1, <2>1, <3>0, <6>2, <6>3
        <5> QED BY <5>1, <5>2
      <4> QED BY <3>1, <3>3, <4>1
    <3>4. CASE search[y] \in 0..(n - 1) /\ v[search[y] + 1] = c
      BY <3>1, <3>4
    <3> QED BY <3>2, <3>3, <3>4
  <2> QED BY <2>2, <2>3
<1>14. D \subseteq P
  <2> HIDE DEF stop, nxt, m, P
  <2> QED BY <1>6, <1>12, <1>13, Descent
<1>15. CASE n <= LinearMax
  <2>1. SearchInput(v, c) = Scan(v, c)
    BY <1>2, <1>15
  <2>2. Len(v) \in Nat
    BY <1>1 DEF n
  <2> QED BY <2>1, <2>2, ScanIs
<1>16. CASE ~(n <= LinearMax)
  <2> DEFINE x == <<0, n - 1>>
  <2>1. n >= 1 /\ SearchInput(v, c) = search[x]
    BY <1>1, <1>2, <1>16, LinearMaxAssumption
  <2>2. x \in D /\ x[1] = 0 /\ x[2] = n - 1
    BY <1>1, <2>1 DEF D
  <2>3. x \in P
    BY <1>14, <2>2
  <2>4. \A j \in 1..n : x[1] < j /\ j <= x[2] + 1
    BY <1>1, <2>2
  <2> QED BY <2>1, <2>2, <2>3, <2>4 DEF Finds, n
<1> QED BY <1>15, <1>16

-----------------------------------------------------------------------------
(* The length of the buffer is a sum over the states.                      *)

\* f sums up sizes over the subsets of S, taking one element after the other.
SumDef(S, size, f) ==
    f = [s \in SUBSET S |-> IF s = {} THEN 0
                            ELSE size[CHOOSE x \in s : TRUE] + f[s \ {CHOOSE x \in s : TRUE}]]

\* A subset without its first element.
LEMMA OneLess ==
    ASSUME NEW S, IsFiniteSet(S), NEW s \in SUBSET S, NEW k \in Nat
    PROVE  /\ Cardinality(s) \in Nat
           /\ Cardinality(s) <= 0 => s = {}
           /\ \A x \in s : Cardinality(s) <= k + 1 => Cardinality(s \ {x}) <= k
           /\ Cardinality(s) <= Cardinality(S)
<1>1. IsFiniteSet(s) /\ Cardinality(s) <= Cardinality(S) /\ Cardinality(s) \in Nat
  BY FS_Subset, FS_CardinalityType
<1>2. \A x \in s : Cardinality(s \ {x}) = Cardinality(s) - 1
  BY <1>1, FS_RemoveElement
<1>3. Cardinality(s) = 0 => s = {}
  BY <1>1, FS_EmptySet
<1> QED BY <1>1, <1>2, <1>3

\* There is such a function.
LEMMA SumExists ==
    ASSUME NEW S, IsFiniteSet(S), NEW size \in [S -> Nat]
    PROVE  \E f : SumDef(S, size, f)
<1> DEFINE fst(s) == CHOOSE x \in s : TRUE
           Val(s, f) == IF s = {} THEN 0 ELSE size[fst(s)] + f[s \ {fst(s)}]
           Good(k) == \E f \in [SUBSET S -> Nat] :
                        \A s \in SUBSET S : Cardinality(s) <= k => f[s] = Val(s, f)
           P == {k \in 0..Cardinality(S) : Good(k)}
<1>1. \A s \in SUBSET S : s # {} => fst(s) \in s /\ fst(s) \in S /\ s \ {fst(s)} \in SUBSET S
  OBVIOUS
<1>2. \A f \in [SUBSET S -> Nat] : \A s \in SUBSET S : Val(s, f) \in Nat
  BY <1>1
<1> HIDE DEF fst
<1>3. Good(0)
  <2> DEFINE f == [s \in SUBSET S |-> 0]
  <2>1. f \in [SUBSET S -> Nat]
    OBVIOUS
  <2>2. ASSUME NEW s \in SUBSET S, Cardinality(s) <= 0 PROVE f[s] = Val(s, f)
    <3>1. s = {}
      BY <2>2, OneLess
    <3> QED BY <3>1
  <2> HIDE DEF f, Val
  <2> QED BY <2>1, <2>2
<1>4. ASSUME NEW k \in 0..(Cardinality(S) - 1), Good(k) PROVE Good(k + 1)
  <2>1. PICK g \in [SUBSET S -> Nat] : \A s \in SUBSET S : Cardinality(s) <= k => g[s] = Val(s, g)
    BY <1>4
  <2> DEFINE f == [s \in SUBSET S |-> Val(s, g)]
  <2>2. f \in [SUBSET S -> Nat]
    <3> HIDE DEF Val
    <3> QED BY <1>2
  <2>3. ASSUME NEW s \in SUBSET S, Cardinality(s) <= k + 1 PROVE f[s] = Val(s, f)
    <3>1. CASE s = {}
      BY <3>1
    <3>2. CASE s # {}
      <4> DEFINE t == s \ {fst(s)}
      <4>1. fst(s) \in s /\ t \in SUBSET S
        BY <1>1, <3>2
      <4>2. Cardinality(t) <= k
        BY <2>3, <4>1, OneLess
      <4>3. f[t] = g[t]
        <5> HIDE DEF Val, t
        <5> QED BY <2>1, <4>1, <4>2
      <4>4. f[s] = size[fst(s)] + g[t]
        BY <3>2
      <4> HIDE DEF f
      <4> QED BY <3>2, <4>3, <4>4
    <3> QED BY <3>1, <3>2
  <2> HIDE DEF f, Val
  <2> QED BY <2>2, <2>3
<1>5. Cardinality(S) \in Nat
  BY FS_CardinalityType
<1>6. Cardinality(S) \in P
  <2>1. 0 \in P
    BY <1>3, <1>5
  <2>2. \A k \in 0..(Cardinality(S) - 1) : k \in P => k + 1 \in P
    <3> HIDE DEF Good
    <3> QED BY <1>4, <1>5
  <2>3. 0 \in Int /\ Cardinality(S) \in Int
    BY <1>5
  <2> HIDE DEF P
  <2>4. 0..Cardinality(S) \subseteq P
    BY <2>1, <2>2, <2>3, Upwards
  <2> QED BY <1>5, <2>4
<1>7. PICK f \in [SUBSET S -> Nat] : \A s \in SUBSET S : Cardinality(s) <= Cardinality(S) => f[s] = Val(s, f)
  BY <1>6
<1>8. \A s \in SUBSET S : f[s] = Val(s, f)
  <2> HIDE DEF Val
  <2> QED BY <1>7, OneLess
<1>9. f = [s \in SUBSET S |-> Val(s, f)]
  <2> HIDE DEF Val
  <2> QED BY <1>8
<1> QED BY <1>9 DEF SumDef, fst

\* Any element can be taken first.
AnyFirst(S, size, f) ==
    /\ f[{}] = 0
    /\ \A s \in SUBSET S : f[s] \in Nat /\ \A x \in s : f[s] = size[x] + f[s \ {x}]

\* So it is, by least counterexample on the size of the set.
LEMMA SumOne ==
    ASSUME NEW S, IsFiniteSet(S), NEW size \in [S -> Nat], NEW f, SumDef(S, size, f)
    PROVE  AnyFirst(S, size, f)
<1> DEFINE fst(s) == CHOOSE x \in s : TRUE
           One(s) == f[s] \in Nat /\ \A x \in s : f[s] = size[x] + f[s \ {x}]
           Good(k) == \A s \in SUBSET S : Cardinality(s) <= k => One(s)
           P == {k \in 0..Cardinality(S) : Good(k)}
<1>1. \A s \in SUBSET S : s # {} => fst(s) \in s /\ fst(s) \in S /\ s \ {fst(s)} \in SUBSET S
  OBVIOUS
<1>2. /\ f[{}] = 0
      /\ \A s \in SUBSET S : s # {} => f[s] = size[fst(s)] + f[s \ {fst(s)}]
  BY DEF SumDef
<1> HIDE DEF fst
<1>3. Good(0)
  <2> SUFFICES ASSUME NEW s \in SUBSET S, Cardinality(s) <= 0 PROVE One(s)
    OBVIOUS
  <2>1. s = {}
    BY OneLess
  <2> QED BY <1>2, <2>1
<1>4. ASSUME NEW k \in 0..(Cardinality(S) - 1), Good(k) PROVE Good(k + 1)
  <2> SUFFICES ASSUME NEW s \in SUBSET S, Cardinality(s) <= k + 1 PROVE One(s)
    OBVIOUS
  <2>1. CASE s = {}
    BY <1>2, <2>1
  <2>2. CASE s # {}
    <3> DEFINE y == fst(s)
    <3>1. y \in s /\ size[y] \in Nat /\ f[s] = size[y] + f[s \ {y}]
      BY <1>1, <1>2, <2>2
    <3> HIDE DEF y
    <3>2. \A x \in s : s \ {x} \in SUBSET S /\ One(s \ {x})
      <4> SUFFICES ASSUME NEW x \in s PROVE s \ {x} \in SUBSET S /\ One(s \ {x})
        OBVIOUS
      <4>1. Cardinality(s \ {x}) <= k
        BY OneLess
      <4> HIDE DEF One
      <4> QED BY <1>4, <4>1
    <3>3. f[s] \in Nat
      <4>1. One(s \ {y})
        <5> HIDE DEF One
        <5> QED BY <3>1, <3>2
      <4>2. f[s \ {y}] \in Nat
        BY <4>1
      <4> QED BY <3>1, <4>2
    <3>4. ASSUME NEW x \in s, x # y PROVE f[s] = size[x] + f[s \ {x}]
      <4>1. f[s \ {y}] = size[x] + f[(s \ {y}) \ {x}]
        BY <3>1, <3>2, <3>4
      <4>2. f[s \ {x}] = size[y] + f[(s \ {x}) \ {y}]
        BY <3>1, <3>2, <3>4
      <4>3. (s \ {y}) \ {x} = (s \ {x}) \ {y}
        OBVIOUS
      <4>4. size[x] \in Nat /\ f[s \ {x}] \in Nat /\ f[s \ {y}] \in Nat
        BY <3>1, <3>2
      <4>5. f[(s \ {x}) \ {y}] \in Nat
        <5>1. Cardinality(s \ {x}) \in Nat /\ Cardinality(s \ {x}) <= k
          BY OneLess
        <5>2. (s \ {x}) \ {y} \in SUBSET S /\ y \in s \ {x}
          BY <3>1, <3>4
        <5>3. Cardinality(s \ {x}) <= k + 1
          BY <5>1
        <5>4. Cardinality((s \ {x}) \ {y}) <= k
          <6> DEFINE t == s \ {x}
          <6>1. t \in SUBSET S /\ Cardinality(t) <= k + 1 /\ y \in t
            BY <5>2, <5>3
          <6> HIDE DEF t
          <6>2. Cardinality(t \ {y}) <= k
            BY <6>1, OneLess
          <6> QED BY <6>2 DEF t
        <5> QED BY <1>4, <5>2, <5>4
      <4> DEFINE a == f[s \ {x}]
                 b == f[s \ {y}]
                 c == f[(s \ {x}) \ {y}]
      <4>6. f[s] = size[y] + b /\ b = size[x] + c /\ a = size[y] + c
        BY <3>1, <4>1, <4>2, <4>3
      <4>7. a \in Nat /\ b \in Nat /\ c \in Nat
        BY <4>4, <4>5
      <4> HIDE DEF a, b, c
      <4>8. f[s] = size[x] + a
        BY <3>1, <4>4, <4>6, <4>7
      <4> QED BY <4>8 DEF a
    <3> QED BY <3>1, <3>3, <3>4
  <2> QED BY <2>1, <2>2
<1>5. Cardinality(S) \in Nat
  BY FS_CardinalityType
<1>6. Cardinality(S) \in P
  <2>1. 0 \in P
    BY <1>3, <1>5
  <2>2. \A k \in 0..(Cardinality(S) - 1) : k \in P => k + 1 \in P
    <3> HIDE DEF Good
    <3> QED BY <1>4, <1>5
  <2>3. 0 \in Int /\ Cardinality(S) \in Int
    BY <1>5
  <2> HIDE DEF P
  <2>4. 0..Cardinality(S) \subseteq P
    BY <2>1, <2>2, <2>3, Upwards
  <2> QED BY <1>5, <2>4
<1>7. \A s \in SUBSET S : One(s)
  <2> HIDE DEF One
  <2> QED BY <1>6, OneLess
<1> QED BY <1>2, <1>7 DEF AnyFirst

-----------------------------------------------------------------------------
(* The buffer that AC_Converter makes.                                     *)

\* The size of a state is a number.
LEMMA SizeIs ==
    ASSUME NEW k \in Nat
    PROVE  StateSize(k) \in Nat
<1> DEFINE a == (StateFixed + k + 3) \div 4
           S == {4, a}
<1>1. a \in Nat
  BY DEF StateFixed
<1> HIDE DEF a
<1>2. S \in SUBSET Nat /\ S # {} /\ 4 + a \in Nat /\ \A j \in S : j <= 4 + a
  BY <1>1
<1> HIDE DEF S
<1>3. Max(S) \in Nat
  BY <1>2, GreatestOf
<1> QED BY <1>3 DEF StateSize, S, a

\* The offset behind the last of n states is the first one and all their sizes.
OffsetDef(first, n, size, f) ==
    f = [id \in 1..(n + 1) |-> IF id = 1 THEN first ELSE f[id - 1] + size[id - 1]]

\* The offsets of the states are defined,
LEMMA OffsetExists ==
    ASSUME NEW n \in Nat, NEW first \in Nat, NEW size \in [1..n -> Nat]
    PROVE  \E f : OffsetDef(first, n, size, f)
<1> DEFINE G == [i \in 1..n |-> [x \in Nat |-> x + size[i]]]
<1>0. \A i \in 1..n : \A x \in Nat : G[i][x] = x + size[i] /\ size[i] \in Nat
  OBVIOUS
<1> HIDE DEF G
<1>1. Keeps(n, Nat, G)
  <2>1. \A i \in 1..n : \A x \in Nat : G[i][x] \in Nat
    <3> SUFFICES ASSUME NEW i \in 1..n, NEW x \in Nat PROVE G[i][x] \in Nat
      OBVIOUS
    <3>1. G[i][x] = x + size[i] /\ size[i] \in Nat
      BY <1>0
    <3> QED BY <3>1
  <2> QED BY <2>1 DEF Keeps
<1>2. PICK g : Steps(n, Nat, first, G, g)
  BY <1>1, Iteration
<1> DEFINE f == [id \in 1..(n + 1) |-> g[id - 1]]
<1>3. ASSUME NEW id \in 1..(n + 1)
      PROVE  f[id] = IF id = 1 THEN first ELSE f[id - 1] + size[id - 1]
  <2>1. CASE id = 1
    <3>1. f[1] = g[0]
      OBVIOUS
    <3> QED BY <1>2, <2>1, <3>1 DEF Steps
  <2>2. CASE id # 1
    <3>1. id - 1 \in 1..n /\ id - 1 \in 1..(n + 1) /\ (id - 1) - 1 \in 0..n
      BY <2>2
    <3>2. f[id] = g[id - 1] /\ f[id - 1] = g[(id - 1) - 1]
      BY <3>1
    <3>3. g[id - 1] = G[id - 1][g[(id - 1) - 1]] /\ g[(id - 1) - 1] \in Nat
      BY <1>2, <3>1 DEF Steps
    <3> HIDE DEF f
    <3>4. g[id - 1] = g[(id - 1) - 1] + size[id - 1]
      BY <1>0, <3>1, <3>3
    <3> QED BY <2>2, <3>2, <3>4
  <2> QED BY <2>1, <2>2
<1>4. f = [id \in 1..(n + 1) |-> f[id]]
  OBVIOUS
<1> HIDE DEF f
<1> QED BY <1>3, <1>4 DEF OffsetDef

\* and that behind the last state is the sum of the sizes.
LEMMA OffsetIs ==
    ASSUME NEW n \in Nat, NEW first \in Nat, NEW size \in [1..n -> Nat],
           NEW f, OffsetDef(first, n, size, f), NEW sum, SumDef(1..n, size, sum)
    PROVE  f[n + 1] = first + sum[1..n]
<1>1. IsFiniteSet(1..n)
  BY FS_Interval
<1>2. /\ sum[{}] = 0
      /\ \A s \in SUBSET (1..n) : sum[s] \in Nat /\ \A x \in s : sum[s] = size[x] + sum[s \ {x}]
  <2> DEFINE S == 1..n
  <2>1. IsFiniteSet(S) /\ size \in [S -> Nat] /\ SumDef(S, size, sum)
    BY <1>1
  <2> HIDE DEF S
  <2>2. AnyFirst(S, size, sum)
    BY <2>1, SumOne
  <2> QED BY <2>2 DEF S, AnyFirst
<1> DEFINE P == {id \in 1..(n + 1) : f[id] = first + sum[1..(id - 1)]}
<1>3. 1 \in P
  <2>1. 1..(1 - 1) = {}
    OBVIOUS
  <2>2. f[1] = first
    BY DEF OffsetDef
  <2> QED BY <1>2, <2>1, <2>2
<1>4. ASSUME NEW id \in 1..((n + 1) - 1), id \in P PROVE id + 1 \in P
  <2>1. id + 1 \in 1..(n + 1) /\ id \in 1..n /\ id + 1 # 1 /\ (id + 1) - 1 = id /\ id \in 1..id
    OBVIOUS
  <2>2. f[id + 1] = f[id] + size[id]
    BY <2>1 DEF OffsetDef
  <2>3. (1..id) \ {id} = 1..(id - 1) /\ 1..id \in SUBSET (1..n) /\ 1..(id - 1) \in SUBSET (1..n)
    BY <2>1
  <2>4. sum[1..id] = size[id] + sum[1..(id - 1)] /\ sum[1..(id - 1)] \in Nat /\ size[id] \in Nat
    <3> DEFINE t == 1..id
               u == 1..(id - 1)
               S == 1..n
    <3>1. t \in SUBSET S /\ u \in SUBSET S /\ id \in t /\ t \ {id} = u
      BY <2>1, <2>3
    <3>2. \A s \in SUBSET S : sum[s] \in Nat /\ \A x \in s : sum[s] = size[x] + sum[s \ {x}]
      BY <1>2
    <3> HIDE DEF t, u, S
    <3>3. sum[t] = size[id] + sum[u] /\ sum[u] \in Nat
      BY <3>1, <3>2
    <3>4. size[id] \in Nat
      BY <2>1
    <3> QED BY <3>3, <3>4 DEF t, u
  <2>5. f[id] = first + sum[1..(id - 1)]
    BY <1>4
  <2>6. f[id + 1] = first + sum[1..id]
    BY <2>2, <2>4, <2>5
  <2> QED BY <2>1, <2>6
<1>5. n + 1 \in P
  <2>1. 1 \in Int /\ n + 1 \in Int /\ n + 1 \in 1..(n + 1)
    OBVIOUS
  <2> HIDE DEF P
  <2>2. 1..(n + 1) \subseteq P
    BY <1>3, <1>4, <2>1, Upwards
  <2> QED BY <2>1, <2>2
<1> QED BY <1>5

\* The state of number id, 0 that of the root.
At(q, id) == IF id = 0 THEN Root ELSE q[id]

\* The number of a state is that of its place in the order.
LEMMA IdIs ==
    ASSUME NEW states, IsGraph(states), NEW s \in states
    PROVE  /\ IdIn(Order(states), s) \in 0..(Cardinality(states) - 1)
           /\ At(Order(states), IdIn(Order(states), s)) = s
           /\ IdIn(Order(states), s) = 0 <=> s = Root
<1> DEFINE n == Cardinality(states) - 1
           q == Order(states)
<1>1. /\ n \in Nat /\ q \in [1..n -> states \ {Root}]
      /\ \A t \in states : t # Root => \E id \in 1..n : q[id] = t
  BY OrderIs
<1> HIDE DEF n, q
<1>2. CASE s = Root
  <2>1. IdIn(q, s) = 0
    BY <1>2 DEF IdIn
  <2> QED BY <1>1, <1>2, <2>1 DEF At, n, q
<1>3. CASE s # Root
  <2>1. IdIn(q, s) = CHOOSE id \in 1..n : q[id] = s
    BY <1>1, <1>3 DEF IdIn
  <2>2. IdIn(q, s) \in 1..n /\ q[IdIn(q, s)] = s
    BY <1>1, <1>3, <2>1
  <2>3. IdIn(q, s) # 0 /\ IdIn(q, s) \in 0..n
    BY <1>1, <2>2
  <2> QED BY <1>1, <1>3, <2>2, <2>3 DEF At, n, q
<1> QED BY <1>2, <1>3

\* A state in the buffer is what the one of its number is in the slow graph.
NodeIs(states, graph, id, node) ==
    LET q == Order(states)
    IN  /\ node.input_vect = Vect(states, id)
        /\ node.goto_num = Len(Vect(states, id)) % 256
        /\ \A k \in 1..Len(node.input_vect) :
             /\ node.first_kid \in Nat
             /\ node.first_kid + k - 1 \in 1..(Cardinality(states) - 1)
             /\ q[node.first_kid + k - 1] = Append(q[id], node.input_vect[k])
        /\ node.fail_link \in 0..(Cardinality(states) - 1)
        /\ At(q, node.fail_link) = graph.fail[q[id]]
        /\ node.fail_link = 0 <=> graph.fail[q[id]] = Root
        /\ node.depth = Len(q[id])
        /\ node.is_term = graph.pattern[q[id]] + 1

\* The buffer of a graph.
IsBuffer(states, graph, b) ==
    /\ b.end = b.buf_len
    /\ \A c \in Byte : IF <<c>> \in states THEN /\ b.root_goto[c] \in 1..(Cardinality(states) - 1)
                                                /\ Order(states)[b.root_goto[c]] = <<c>>
                       ELSE b.root_goto[c] = 0
    /\ DOMAIN b.states = 1..(Cardinality(states) - 1) /\ Len(b.states) = Cardinality(states) - 1
    /\ \A id \in 1..(Cardinality(states) - 1) : NodeIs(states, graph, id, b.states[id])

\* AC_Converter turns every graph with links into such a buffer.
LEMMA BufferIs ==
    ASSUME NEW graph, IsGraph(graph.states), Linked(graph.states, graph.fail)
    PROVE  IsBuffer(graph.states, graph, Convert(graph))
<1> DEFINE states == graph.states
           n == Cardinality(states) - 1
           wl == WorkList(states)
           q == Order(states)
           first == FirstStateOfst(n + 1)
           size == [id \in 1..n |-> StateSize(Len(Vect(states, id)))]
           ODef(f) == f = [id \in 1..n + 1 |-> IF id = 1 THEN first
                                               ELSE f[id - 1] + StateSize(Len(Vect(states, id - 1)))]
           SDef(f) == f = [s \in SUBSET (1..n) |->
                              IF s = {} THEN 0 ELSE StateSize(Len(Vect(states, CHOOSE x \in s : TRUE)))
                                                    + f[s \ {CHOOSE x \in s : TRUE}]]
           ofst == CHOOSE f : ODef(f)
           sum == CHOOSE f : SDef(f)
           b == Convert(graph)
           node(id) == [first_kid  |-> FirstKid(wl, id),
                        goto_num   |-> Len(Vect(states, id)) % 256,
                        input_vect |-> Vect(states, id),
                        fail_link  |-> IdIn(q, graph.fail[q[id]]),
                        depth      |-> Len(q[id]),
                        is_term    |-> graph.pattern[q[id]] + 1]
<1>1. /\ n \in Nat /\ q \in [1..n -> states \ {Root}]
      /\ \A id \in 1..n : \A k \in 1..Len(Vect(states, id)) :
           /\ Len(wl[id - 1]) \in Nat /\ Len(wl[id - 1]) + k \in 1..n
           /\ q[Len(wl[id - 1]) + k] = Append(q[id], Vect(states, id)[k])
  BY OrderIs
<1>2. /\ b.root_goto = [c \in Byte |-> IF <<c>> \in states THEN IdIn(q, <<c>>) ELSE 0]
      /\ b.buf_len = first + MapThenSumSet(LAMBDA id : StateSize(Len(Vect(states, id))), 1..n)
      /\ b.end = ofst[n + 1]
      /\ b.states = [id \in 1..n |-> node(id)]
  BY DEF Convert, Order, Vect
<1>3. MapThenSumSet(LAMBDA id : StateSize(Len(Vect(states, id))), 1..n) = sum[1..n]
  BY DEF MapThenSumSet, MapThenFoldSet
<1>4. \A id \in 1..n : Len(Vect(states, id)) \in Nat
  BY InputsAre DEF Vect
<1> HIDE DEF b, states, n, wl, q, node
<1>5. size \in [1..n -> Nat] /\ \A id \in 1..n : size[id] = StateSize(Len(Vect(states, id)))
  <2>1. \A id \in 1..n : StateSize(Len(Vect(states, id))) \in Nat
    BY <1>4, SizeIs
  <2> QED BY <2>1
<1>6. first \in Nat
  <2>1. n \in Nat
    BY <1>1
  <2> HIDE DEF n
  <2> QED BY <2>1 DEF FirstStateOfst, HeaderSize
<1> HIDE DEF first, size
<1>7. \A f : OffsetDef(first, n, size, f) <=> ODef(f)
  <2> SUFFICES ASSUME NEW f PROVE OffsetDef(first, n, size, f) <=> ODef(f)
    OBVIOUS
  <2>1. ASSUME NEW id \in 1..(n + 1)
        PROVE  (IF id = 1 THEN first ELSE f[id - 1] + size[id - 1])
               = (IF id = 1 THEN first ELSE f[id - 1] + StateSize(Len(Vect(states, id - 1))))
    <3>1. CASE id = 1
      BY <3>1
    <3>2. CASE id # 1
      <4>1. id - 1 \in 1..n
        <5>1. n \in Nat
          BY <1>1
        <5> QED BY <3>2, <5>1
      <4>2. size[id - 1] = StateSize(Len(Vect(states, id - 1)))
        BY <1>5, <4>1
      <4> QED BY <4>2
    <3> QED BY <3>1, <3>2
  <2>2. [id \in 1..(n + 1) |-> IF id = 1 THEN first ELSE f[id - 1] + size[id - 1]]
        = [id \in 1..n + 1 |-> IF id = 1 THEN first ELSE f[id - 1] + StateSize(Len(Vect(states, id - 1)))]
    BY <2>1
  <2> QED BY <2>2 DEF OffsetDef
<1>8. \A f : SumDef(1..n, size, f) <=> SDef(f)
  <2> SUFFICES ASSUME NEW f PROVE SumDef(1..n, size, f) <=> SDef(f)
    OBVIOUS
  <2> DEFINE fst(s) == CHOOSE x \in s : TRUE
             A(s) == IF s = {} THEN 0 ELSE size[fst(s)] + f[s \ {fst(s)}]
             B(s) == IF s = {} THEN 0 ELSE StateSize(Len(Vect(states, fst(s)))) + f[s \ {fst(s)}]
  <2>1. ASSUME NEW s \in SUBSET (1..n) PROVE A(s) = B(s)
    <3>1. CASE s = {}
      BY <3>1
    <3>2. CASE s # {}
      <4>1. fst(s) \in 1..n
        BY <3>2
      <4> HIDE DEF fst
      <4>2. size[fst(s)] = StateSize(Len(Vect(states, fst(s))))
        BY <1>5, <4>1
      <4> QED BY <4>2
    <3> QED BY <3>1, <3>2
  <2>2. [s \in SUBSET (1..n) |-> A(s)] = [s \in SUBSET (1..n) |-> B(s)]
    <3> HIDE DEF A, B
    <3> QED BY <2>1
  <2>3. SumDef(1..n, size, f) <=> f = [s \in SUBSET (1..n) |-> A(s)]
    BY DEF SumDef
  <2>4. SDef(f) <=> f = [s \in SUBSET (1..n) |-> B(s)]
    OBVIOUS
  <2> HIDE DEF A, B, SDef
  <2> QED BY <2>2, <2>3, <2>4
<1>9. b.end = b.buf_len
  <2>1. n \in Nat /\ IsFiniteSet(1..n)
    BY <1>1, FS_Interval
  <2> HIDE DEF ODef, SDef
  <2>2. ODef(ofst)
    BY <1>5, <1>6, <1>7, <2>1, OffsetExists
  <2>3. SDef(sum)
    <3> DEFINE S == 1..n
    <3>1. IsFiniteSet(S) /\ size \in [S -> Nat] /\ \A f : SumDef(S, size, f) <=> SDef(f)
      BY <1>5, <1>8, <2>1
    <3> HIDE DEF S
    <3>2. \E f : SDef(f)
      BY <3>1, SumExists
    <3> QED BY <3>2
  <2> HIDE DEF ofst, sum
  <2>4. OffsetDef(first, n, size, ofst) /\ SumDef(1..n, size, sum)
    BY <1>7, <1>8, <2>2, <2>3
  <2>5. ofst[n + 1] = first + sum[1..n]
    BY <1>5, <1>6, <2>1, <2>4, OffsetIs
  <2> QED BY <1>2, <1>3, <2>5
<1>10. /\ states \in SUBSET Seq(Byte)
       /\ \A s \in states : /\ IdIn(q, s) \in 0..n /\ At(q, IdIn(q, s)) = s
                            /\ IdIn(q, s) = 0 <=> s = Root
  <2>1. IsGraph(states)
    BY DEF states
  <2>2. states \in SUBSET Seq(Byte)
    BY <2>1 DEF IsGraph
  <2>3. \A s \in states : /\ IdIn(q, s) \in 0..n /\ At(q, IdIn(q, s)) = s
                          /\ IdIn(q, s) = 0 <=> s = Root
    BY <2>1, IdIs DEF q, n
  <2> QED BY <2>2, <2>3
<1>11. ASSUME NEW c \in Byte
       PROVE  IF <<c>> \in states THEN b.root_goto[c] \in 1..n /\ q[b.root_goto[c]] = <<c>>
              ELSE b.root_goto[c] = 0
  <2>1. CASE <<c>> \in states
    <3>1. b.root_goto[c] = IdIn(q, <<c>>)
      BY <1>2, <2>1
    <3>2. <<c>> # Root
      BY DEF Root
    <3>3. IdIn(q, <<c>>) \in 0..n /\ At(q, IdIn(q, <<c>>)) = <<c>> /\ IdIn(q, <<c>>) # 0
      BY <1>10, <2>1, <3>2
    <3>4. IdIn(q, <<c>>) \in 1..n
      <4>1. n \in Nat
        BY <1>1
      <4> QED BY <3>3, <4>1
    <3> QED BY <2>1, <3>1, <3>3, <3>4 DEF At
  <2>2. CASE <<c>> \notin states
    BY <1>2, <2>2
  <2> QED BY <2>1, <2>2
<1>12. ASSUME NEW id \in 1..n PROVE NodeIs(states, graph, id, b.states[id])
  <2>1. b.states[id] = node(id)
    BY <1>2
  <2>2. /\ node(id).first_kid = Len(wl[id - 1]) + 1 /\ node(id).input_vect = Vect(states, id)
        /\ node(id).goto_num = Len(Vect(states, id)) % 256
        /\ node(id).fail_link = IdIn(q, graph.fail[q[id]])
        /\ node(id).depth = Len(q[id]) /\ node(id).is_term = graph.pattern[q[id]] + 1
    BY DEF node, FirstKid
  <2>3. q[id] \in states
    BY <1>1
  <2>4. graph.fail[q[id]] \in states
    BY <2>3 DEF Linked, states
  <2>5. ASSUME NEW k \in 1..Len(Vect(states, id))
        PROVE  /\ node(id).first_kid \in Nat
               /\ node(id).first_kid + k - 1 \in 1..n
               /\ q[node(id).first_kid + k - 1] = Append(q[id], Vect(states, id)[k])
    <3> DEFINE l == Len(wl[id - 1])
    <3>1. l \in Nat /\ l + k \in 1..n /\ q[l + k] = Append(q[id], Vect(states, id)[k])
      BY <1>1
    <3>2. node(id).first_kid = l + 1
      BY <2>2
    <3>4. k \in Nat
      BY <1>4
    <3> HIDE DEF l
    <3>3. (l + 1) + k - 1 = l + k /\ l + 1 \in Nat
      BY <3>1, <3>4
    <3> QED BY <3>1, <3>2, <3>3
  <2> HIDE DEF NodeIs
  <2>6. NodeIs(states, graph, id, node(id))
    BY <1>10, <2>2, <2>4, <2>5 DEF NodeIs, q, n
  <2> QED BY <2>1, <2>6
<1>13. DOMAIN b.states = 1..n /\ Len(b.states) = n
  <2> DEFINE S == {node(id) : id \in 1..n}
  <2>1. [id \in 1..n |-> node(id)] \in [1..n -> S]
    OBVIOUS
  <2>2. n \in Nat
    BY <1>1
  <2> HIDE DEF S
  <2>3. b.states \in [1..n -> S]
    BY <1>2, <2>1
  <2> QED BY <2>2, <2>3
<1>14. /\ b.end = b.buf_len
       /\ \A c \in Byte : IF <<c>> \in states THEN b.root_goto[c] \in 1..n /\ q[b.root_goto[c]] = <<c>>
                           ELSE b.root_goto[c] = 0
       /\ DOMAIN b.states = 1..n /\ Len(b.states) = n
       /\ \A id \in 1..n : NodeIs(states, graph, id, b.states[id])
  BY <1>9, <1>11, <1>12, <1>13
<1> QED BY <1>14 DEF IsBuffer, b, states, n, q

-----------------------------------------------------------------------------
(* The slow matcher.                                                       *)

\* Skipping stops behind the first byte that begins a pattern, or at the end.
LEMMA SkipIs ==
    ASSUME NEW starts, NEW subject, Len(subject) \in Nat, NEW i \in 0..(Len(subject) - 1)
    PROVE  LET k == SkipTo(starts, subject, i)
           IN  /\ k \in (i + 1)..Len(subject)
               /\ subject[k] \notin starts => k = Len(subject)
               /\ subject[i + 1] \in starts => k = i + 1
<1> DEFINE I == {j \in (i + 1)..Len(subject) : subject[j] \in starts}
           k == SkipTo(starts, subject, i)
           first == IF I # {} THEN Min(I) ELSE 0
<1>1. k = IF first = 0 THEN Len(subject) ELSE first
  BY DEF SkipTo, SelectInSubSeq
<1>2. CASE I = {}
  <2>1. first = 0
    BY <1>2
  <2> HIDE DEF first
  <2>2. k = Len(subject)
    BY <1>1, <2>1
  <2>3. i + 1 \in (i + 1)..Len(subject) /\ Len(subject) \in (i + 1)..Len(subject)
    OBVIOUS
  <2>4. subject[i + 1] \notin starts
    BY <1>2, <2>3
  <2> HIDE DEF I, k
  <2> QED BY <2>2, <2>3, <2>4 DEF k
<1>3. CASE I # {}
  <2>1. first = Min(I)
    BY <1>3
  <2>2. I \in SUBSET Nat
    OBVIOUS
  <2>3. Min(I) \in I /\ \A j \in I : Min(I) <= j
    <3> HIDE DEF I
    <3> QED BY <1>3, <2>2, LeastOf
  <2> DEFINE p == Min(I)
  <2>4. p \in (i + 1)..Len(subject) /\ subject[p] \in starts
    BY <2>3
  <2> HIDE DEF first, p
  <2>5. first = p
    BY <2>1 DEF p
  <2>6. p # 0
    BY <2>4
  <2>7. k = p
    BY <1>1, <2>5, <2>6
  <2>8. subject[i + 1] \in starts => p = i + 1
    <3>1. ASSUME subject[i + 1] \in starts PROVE i + 1 \in I
      BY <3>1
    <3>2. i + 1 \in I => p <= i + 1
      BY <2>3 DEF p
    <3> HIDE DEF I
    <3> QED BY <2>4, <3>1, <3>2
  <2> HIDE DEF k
  <2> QED BY <2>4, <2>7, <2>8 DEF k
<1> QED BY <1>2, <1>3

\* A graph whose links lead to ends of words.
Slow(graph) == /\ IsGraph(graph.states) /\ Bounded(graph.states)
               /\ Linked(graph.states, graph.fail) /\ graph.fail[Root] = Root

\* The word of one byte.
LEMMA OneByte ==
    ASSUME NEW graph, Slow(graph), NEW c
    PROVE  /\ Append(Root, c) = <<c>> /\ Len(<<c>>) = 1 /\ Len(Root) = 0
           /\ c \in Inputs(graph.states, Root) => <<c>> \in graph.states
<1>1. Append(Root, c) = <<c>> /\ Len(<<c>>) = 1 /\ Len(Root) = 0
  BY DEF Root
<1> QED BY <1>1 DEF Inputs

\* What the loop of MatchHelper does.
MatchStep(graph, subject, x, run) ==
    LET i == x[1]
        s == x[2]
    IN  IF graph.pattern[s] >= 0 THEN Result(i, Len(s), graph.pattern[s])
        ELSE IF i = Len(subject) THEN NoMatch
        ELSE IF subject[i + 1] \in Inputs(graph.states, s)
               THEN run[<<i + 1, Append(s, subject[i + 1])>>]
        ELSE IF graph.fail[s] = Root
               THEN run[Skipped(Inputs(graph.states, Root), subject, i, s)]
        ELSE run[<<i, graph.fail[s]>>]

\* It always ends.
LEMMA MatchIs ==
    ASSUME NEW graph, Slow(graph), NEW subject \in Seq(Byte)
    PROVE  \A x \in (0..Len(subject)) \X graph.states :
             MatchFrom(graph, subject)[x] = MatchStep(graph, subject, x, MatchFrom(graph, subject))
<1> DEFINE n == Len(subject)
           states == graph.states
           D == (0..n) \X states
           starts == Inputs(states, Root)
           stop == {x \in D : graph.pattern[x[2]] >= 0 \/ x[1] = n}
           base == [x \in D |-> IF graph.pattern[x[2]] >= 0 THEN Result(x[1], Len(x[2]), graph.pattern[x[2]])
                                ELSE NoMatch]
           nxt == [x \in D |->
                      IF subject[x[1] + 1] \in Inputs(states, x[2])
                        THEN <<x[1] + 1, Append(x[2], subject[x[1] + 1])>>
                      ELSE IF graph.fail[x[2]] = Root THEN Skipped(starts, subject, x[1], x[2])
                      ELSE <<x[1], graph.fail[x[2]]>>]
           m == [x \in D |-> 2 * (n - x[1]) + Len(x[2])]
           run == MatchFrom(graph, subject)
           Def(f) == f = [x \in D |-> MatchStep(graph, subject, x, f)]
<1>1. n \in Nat /\ subject \in [1..n -> Byte]
  BY LenProperties
<1>2. states \in SUBSET Seq(Byte) /\ Root \in states
  BY DEF Slow, IsGraph
<1>3. \A s \in states : s \in Seq(Byte) /\ Len(s) \in Nat
  BY <1>2, LenProperties
<1>4. \A x \in D : x = <<x[1], x[2]>> /\ x[1] \in 0..n /\ x[2] \in states
  OBVIOUS
<1>a. \A i \in 0..n : \A s \in states : <<i, s>> \in D /\ m[<<i, s>>] = 2 * (n - i) + Len(s)
  OBVIOUS
<1>b. \A s \in states : s # Root => graph.fail[s] \in states /\ Len(graph.fail[s]) < Len(s)
  BY DEF Slow, Linked
<1>5. ASSUME NEW x \in D, x \notin stop PROVE nxt[x] \in D /\ m[nxt[x]] < m[x]
  <2> DEFINE i == x[1]
             s == x[2]
             c == subject[i + 1]
  <2>1. i \in 0..(n - 1) /\ s \in states /\ Len(s) \in Nat
    <3>1. i \in 0..n /\ s \in states /\ i # n
      BY <1>4, <1>5
    <3> QED BY <1>1, <1>3, <3>1
  <2>2. m[x] = 2 * (n - i) + Len(s) /\ i \in 0..n /\ i + 1 \in 0..n
    <3>1. n \in Nat
      BY <1>1
    <3>2. m[x] = 2 * (n - i) + Len(s)
      OBVIOUS
    <3> HIDE DEF m, n, i, s
    <3> QED BY <2>1, <3>1, <3>2
  <2>3. nxt[x] = IF c \in Inputs(states, s) THEN <<i + 1, Append(s, c)>>
                 ELSE IF graph.fail[s] = Root THEN Skipped(starts, subject, i, s)
                 ELSE <<i, graph.fail[s]>>
    OBVIOUS
  <2> HIDE DEF i, s, nxt, m, D, n, states, stop
  <2>4. CASE c \in Inputs(states, s)
    <3> DEFINE t == Append(s, c)
    <3>1. t \in states /\ c \in Byte
      BY <2>4 DEF Inputs
    <3>2. Len(t) = Len(s) + 1
      BY <1>3, <2>1, <3>1, AppendIs
    <3> HIDE DEF t, c
    <3>3. <<i + 1, t>> \in D /\ m[<<i + 1, t>>] = 2 * (n - (i + 1)) + Len(t)
      BY <1>a, <2>2, <3>1
    <3>4. 2 * (n - (i + 1)) + Len(t) < 2 * (n - i) + Len(s)
      <4>1. n \in Nat
        BY <1>1
      <4> QED BY <2>1, <3>2, <4>1
    <3> QED BY <2>2, <2>3, <2>4, <3>3, <3>4 DEF t
  <2>5. CASE c \notin Inputs(states, s) /\ graph.fail[s] = Root
    <3> DEFINE k == SkipTo(starts, subject, i)
               t == IF subject[k] \in starts THEN <<subject[k]>> ELSE s
    <3>1. n \in Nat /\ Len(subject) \in Nat /\ i \in 0..(Len(subject) - 1)
      BY <1>1, <2>1 DEF n
    <3>2. k \in (i + 1)..n /\ (subject[k] \notin starts => k = n)
      BY <3>1, SkipIs DEF n
    <3>3. nxt[x] = <<k, t>>
      BY <2>3, <2>5, <3>1 DEF Skipped
    <3>4. t \in states /\ (t = s \/ Len(t) = 1)
      BY <2>1, OneByte DEF states
    <3>5. subject[k] \notin starts => t = s
      OBVIOUS
    <3>5a. subject[k] \in starts => Len(t) = 1
      BY OneByte
    <3> HIDE DEF k, t, starts
    <3>6. k \in 0..n
      BY <2>2, <3>1, <3>2
    <3>7. <<k, t>> \in D /\ m[<<k, t>>] = 2 * (n - k) + Len(t)
      BY <1>a, <3>4, <3>6
    <3>8. 2 * (n - k) + Len(t) < 2 * (n - i) + Len(s)
      <4>1. CASE subject[k] \in starts
        <5>1. Len(t) = 1
          BY <3>5a, <4>1
        <5> QED BY <2>1, <3>1, <3>2, <5>1
      <4>2. CASE subject[k] \notin starts
        <5>1. k = n /\ t = s
          BY <3>2, <3>5, <4>2
        <5> QED BY <2>1, <3>1, <5>1
      <4> QED BY <4>1, <4>2
    <3> QED BY <2>2, <3>3, <3>7, <3>8
  <2>6. CASE c \notin Inputs(states, s) /\ graph.fail[s] # Root
    <3>1. s # Root
      BY <2>6 DEF Slow
    <3>2. graph.fail[s] \in states /\ Len(graph.fail[s]) < Len(s)
      BY <1>b, <2>1, <3>1
    <3>3. <<i, graph.fail[s]>> \in D /\ m[<<i, graph.fail[s]>>] = 2 * (n - i) + Len(graph.fail[s])
      BY <1>a, <2>2, <3>2
    <3>4. Len(graph.fail[s]) \in Nat /\ n \in Nat
      BY <1>1, <1>3, <3>2
    <3>5. 2 * (n - i) + Len(graph.fail[s]) < 2 * (n - i) + Len(s)
      <4> DEFINE a == Len(graph.fail[s])
                 d == Len(s)
      <4>1. a \in Nat /\ d \in Nat /\ a < d /\ n \in Nat /\ i \in 0..(n - 1)
        BY <2>1, <3>2, <3>4
      <4> HIDE DEF a, d
      <4>2. 2 * (n - i) + a < 2 * (n - i) + d
        BY <4>1
      <4> QED BY <4>2 DEF a, d
    <3> QED BY <2>2, <2>3, <2>6, <3>3, <3>5
  <2> QED BY <2>4, <2>5, <2>6
<1>6. \A x \in D : m[x] \in Nat
  <2> SUFFICES ASSUME NEW x \in D PROVE m[x] \in Nat
    OBVIOUS
  <2>1. x[1] \in 0..n /\ Len(x[2]) \in Nat /\ n \in Nat
    BY <1>1, <1>3, <1>4
  <2> QED BY <2>1
<1>7. GoesOn(D, stop, nxt, m)
  <2> HIDE DEF D, stop, nxt, m
  <2> QED BY <1>5, <1>6 DEF GoesOn
<1>8. \E b \in Nat : \A x \in D : m[x] <= b
  <2>1. PICK l \in Nat : \A s \in states : Len(s) <= l
    BY DEF Slow, Bounded
  <2>2. 2 * n + l \in Nat
    BY <1>1
  <2>3. ASSUME NEW x \in D PROVE m[x] <= 2 * n + l
    <3>1. x[1] \in 0..n /\ Len(x[2]) \in Nat /\ Len(x[2]) <= l /\ n \in Nat
      BY <1>1, <1>3, <1>4, <2>1
    <3>2. m[x] = 2 * (n - x[1]) + Len(x[2])
      OBVIOUS
    <3> HIDE DEF m, D, n
    <3> QED BY <3>1, <3>2
  <2> HIDE DEF m, D
  <2> QED BY <2>2, <2>3
<1>9. PICK g : TailCalls(D, stop, base, nxt, g)
  <2> HIDE DEF D, stop, base, nxt, m
  <2> QED BY <1>7, <1>8, Recursion
<1>10. Def(g)
  <2>1. ASSUME NEW x \in D
        PROVE  (IF x \in stop THEN base[x] ELSE g[nxt[x]]) = MatchStep(graph, subject, x, g)
    <3> DEFINE term == graph.pattern[x[2]] >= 0
               takes == subject[x[1] + 1] \in Inputs(states, x[2])
               toRoot == graph.fail[x[2]] = Root
               y == <<x[1] + 1, Append(x[2], subject[x[1] + 1])>>
               z == Skipped(starts, subject, x[1], x[2])
               u == <<x[1], graph.fail[x[2]]>>
               rs == Result(x[1], Len(x[2]), graph.pattern[x[2]])
    <3>1. MatchStep(graph, subject, x, g) =
            IF term THEN rs ELSE IF x[1] = n THEN NoMatch ELSE IF takes THEN g[y] ELSE IF toRoot THEN g[z] ELSE g[u]
      BY DEF MatchStep
    <3>2. x \in stop <=> term \/ x[1] = n
      OBVIOUS
    <3>3. base[x] = IF term THEN rs ELSE NoMatch
      OBVIOUS
    <3>4. nxt[x] = IF takes THEN y ELSE IF toRoot THEN z ELSE u
      OBVIOUS
    <3> HIDE DEF term, takes, toRoot, y, z, u, rs, stop, base, nxt, D, n
    <3> QED BY <3>1, <3>2, <3>3, <3>4
  <2>2. [x \in D |-> IF x \in stop THEN base[x] ELSE g[nxt[x]]] = [x \in D |-> MatchStep(graph, subject, x, g)]
    <3> HIDE DEF D, stop, base, nxt
    <3> QED BY <2>1
  <2> HIDE DEF D, stop, base, nxt
  <2> QED BY <1>9, <2>2 DEF TailCalls
<1>11. run = CHOOSE f : Def(f)
  BY DEF MatchFrom, MatchStep
<1>12. Def(run)
  <2> HIDE DEF Def, run
  <2> QED BY <1>10, <1>11
<1> HIDE DEF run
<1> QED BY <1>12 DEF run

-----------------------------------------------------------------------------
(* The inductive invariant.                                                *)

\* The state of the slow graph that the walk is in.
Word == At(Order(slow.states), state)

\* It is the end of what was read up to i.
ReadsWord(i, s) == Len(s) <= i /\ \A k \in 1..Len(s) : s[k] = str[(i - Len(s)) + k]

\* A pattern of the dictionary, from begin to end.
Reported(f) ==
    /\ f.begin \in 0..(Len(str) - 1) /\ f.end \in f.begin..(Len(str) - 1)
    /\ f.pattern_idx + 1 \in DOMAIN dict
    /\ SubSeq(str, f.begin + 1, f.end + 1) = dict[f.pattern_idx + 1]

\* It is longer than another one, or that one.
Covers(f, e) == /\ f.begin >= 0 /\ e.begin >= 0 /\ e.begin \in Int /\ e.end \in Int
                /\ f.end - f.begin >= e.end - e.begin
                /\ f.end - f.begin = e.end - e.begin => f = e

\* The graphs are made once, from the patterns.
Made == pc # "create" => slow = Construct(dict) /\ buf = Convert(Construct(dict))

Idle == pc \in {"create", "idle"} =>
            variant = "none" /\ str = <<>> /\ idx = 0 /\ state = 0 /\ r = NoMatch

Called == pc \in {"match", "done"} =>
            /\ variant \in {"first", "longest"} /\ str \in Subjects
            /\ idx \in 0..Len(str) /\ state \in 0..(Cardinality(slow.states) - 1)
            /\ r = NoMatch \/ Reported(r)

\* During the walk: its state is the end of what was read, but for the state kept
\* when the rest of the subject is skipped; a pattern it is the end of was reported,
\* which ends a search for the first; and before anything is reported the slow
\* matcher would go on from here.
Walks == pc = "match" =>
            /\ idx < Len(str) => ReadsWord(idx, Word)
            /\ slow.pattern[Word] >= 0 =>
                 variant = "longest" /\ r # NoMatch /\ r.end - r.begin >= Len(Word) - 1
            /\ r = NoMatch => MatchHelper(slow, str) = MatchFrom(slow, str)[<<idx, Word>>]
            /\ r # NoMatch => variant = "longest" /\ Covers(r, MatchHelper(slow, str))

Ended == pc = "done" =>
            IF variant = "first" \/ r = NoMatch THEN r = MatchHelper(slow, str)
            ELSE Covers(r, MatchHelper(slow, str))

IInv ==
    /\ dict \in Dictionaries /\ pc \in {"create", "idle", "match", "done"}
    /\ Made /\ Idle /\ Called /\ Walks /\ Ended

\* What is known of the graphs that were made.
Patterned(graph) ==
    /\ \A s \in graph.states :
         /\ graph.pattern[s] \in Int /\ graph.pattern[s] >= -1
         /\ graph.pattern[s] >= 0 => /\ graph.pattern[s] + 1 \in DOMAIN dict
                                     /\ dict[graph.pattern[s] + 1] = s
    /\ graph.pattern[Root] = -1

\* The inputs of a state other than the root can be counted in 8 bits.
FansOut(states) == \A s \in states \ {Root} : Cardinality(Inputs(states, s)) < 256

Graphs ==
    Slow(slow) /\ Patterned(slow) /\ IsBuffer(slow.states, slow, buf) /\ FansOut(slow.states)

\* The graphs that ac_create makes are of this kind.
LEMMA MadeIs ==
    ASSUME dict \in Dictionaries, pc # "create", Made
    PROVE  Graphs
<1> DEFINE g == Construct(dict)
<1>1. slow = g /\ buf = Convert(g)
  BY DEF Made
<1>2. dict \in Seq(Seq(Byte) \ {<<>>})
  BY TextAssumption
<1>3. /\ g.states = States(dict) /\ g.fail = FailLinks(States(dict))
      /\ g.pattern = [s \in States(dict) |-> PatternIdx(dict, s)]
  BY DEF Construct
<1> HIDE DEF g
<1>4. IsGraph(g.states) /\ Bounded(g.states)
  BY <1>2, <1>3, GraphOf
<1>5. Linked(g.states, g.fail) /\ g.fail[Root] = Root
  BY <1>2, <1>3, GraphOf, LinksAre
<1>6. Patterned(g)
  <2>1. Root \in g.states
    BY <1>4 DEF IsGraph
  <2>2. \A s \in g.states : g.pattern[s] = PatternIdx(dict, s)
    BY <1>3
  <2> QED BY <1>2, <2>1, <2>2, PatternStates DEF Patterned
<1>7. IsBuffer(g.states, g, Convert(g))
  BY <1>4, <1>5, BufferIs
<1>8. FansOut(g.states)
  BY <1>3, FanOutAssumption DEF FansOut
<1> QED BY <1>1, <1>4, <1>5, <1>6, <1>7, <1>8 DEF Graphs, Slow

\* The states of the slow graph and their numbers.
LEMMA StateIs ==
    ASSUME Graphs, NEW id \in 0..(Cardinality(slow.states) - 1)
    PROVE  LET t == At(Order(slow.states), id)
               node == buf.states[id]
           IN  /\ t \in slow.states /\ t \in Seq(Byte) /\ Len(t) \in Nat
               /\ id = 0 => t = Root
               /\ id # 0 => /\ t # Root /\ Len(t) >= 1
                            /\ id \in 1..(Cardinality(slow.states) - 1)
                            /\ t = Order(slow.states)[id]
                            /\ NodeIs(slow.states, slow, id, node)
<1> DEFINE states == slow.states
           n == Cardinality(states) - 1
           q == Order(states)
           t == At(q, id)
<1>1. IsGraph(states)
  BY DEF Graphs, Slow
<1>2. n \in Nat /\ q \in [1..n -> states \ {Root}]
  BY <1>1, OrderIs
<1>3. Root \in states /\ states \in SUBSET Seq(Byte)
  BY <1>1 DEF IsGraph
<1>4. CASE id = 0
  <2>1. t = Root
    BY <1>4 DEF At
  <2>2. Len(t) \in Nat /\ t \in Seq(Byte)
    BY <1>3, <2>1, LenProperties
  <2> QED BY <1>3, <1>4, <2>1, <2>2
<1>5. CASE id # 0
  <2>1. id \in 1..n
    BY <1>2, <1>5
  <2>2. t = q[id]
    BY <1>5 DEF At
  <2> HIDE DEF t, q, n
  <2>3. t \in states /\ t # Root /\ t \in Seq(Byte)
    BY <1>2, <1>3, <2>1, <2>2
  <2>4. Len(t) \in Nat /\ Len(t) >= 1
    BY <2>3, FrontIs
  <2>5. NodeIs(states, slow, id, buf.states[id])
    BY <2>1 DEF Graphs, IsBuffer, n
  <2> QED BY <1>5, <2>1, <2>2, <2>3, <2>4, <2>5 DEF t, q, n
<1> QED BY <1>4, <1>5

\* A state that ends what was read up to i, and a pattern, is that pattern.
LEMMA ReportIs ==
    ASSUME str \in Seq(Byte), NEW i \in 0..Len(str), NEW t \in Seq(Byte), t # Root, ReadsWord(i, t),
           NEW p \in Int, p + 1 \in DOMAIN dict, dict[p + 1] = t
    PROVE  Reported(Result(i, Len(t), p))
<1> DEFINE l == Len(t)
           n == Len(str)
           f == Result(i, l, p)
           u == SubSeq(str, (i - l) + 1, i)
<1>1. /\ n \in Nat /\ \A k \in 1..n : str[k] \in Byte
  BY LenProperties
<1>2. l \in Nat /\ l >= 1
  BY FrontIs
<1>3. l <= i /\ \A k \in 1..l : t[k] = str[(i - l) + k]
  BY DEF ReadsWord
<1>4. f.begin = i - l /\ f.end = i - 1 /\ f.pattern_idx = p
  BY DEF Result
<1> HIDE DEF l, n, f
<1>i. i \in 0..n
  BY DEF n
<1>5. /\ (i - l) + 1 \in 1..n /\ i \in 1..n /\ (i - l) + 1 <= i /\ i - ((i - l) + 1) + 1 = l
      /\ i - l \in 0..(n - 1) /\ i - 1 \in (i - l)..(n - 1) /\ (i - 1) + 1 = i
      /\ \A k \in 1..l : (i - l) + 1 + k - 1 = (i - l) + k
  BY <1>1, <1>2, <1>3, <1>i
<1>6. u = t
  <2>1. \A k \in ((i - l) + 1)..i : str[k] \in Byte
    BY <1>1, <1>5
  <2> DEFINE a == (i - l) + 1
  <2>2. a \in Int /\ i \in Int /\ a <= i
    BY <1>5
  <2> HIDE DEF a
  <2>3. /\ SubSeq(str, a, i) \in Seq(Byte) /\ Len(SubSeq(str, a, i)) = IF a <= i THEN i - a + 1 ELSE 0
        /\ \A k \in 1..(i - a + 1) : SubSeq(str, a, i)[k] = str[a + k - 1]
    BY <2>1, <2>2, SubSeqProperties DEF a
  <2>4. u \in Seq(Byte) /\ Len(u) = l /\ \A k \in 1..l : u[k] = str[(i - l) + k]
    BY <1>5, <2>2, <2>3 DEF a
  <2> HIDE DEF u
  <2>5. \A k \in 1..l : u[k] = t[k]
    BY <1>3, <2>4
  <2> QED BY <2>4, <2>5, SeqEqual DEF l
<1>7. Reported(f)
  BY <1>4, <1>5, <1>6 DEF Reported, n
<1> QED BY <1>7 DEF f, l

\* What is reported is not NoMatch.
LEMMA ReportsAre ==
    ASSUME NEW n \in Nat, n = Len(str), r = NoMatch \/ Reported(r)
    PROVE  /\ r = NoMatch <=> r.begin = -1
           /\ r # NoMatch => r.begin \in Nat /\ r.begin >= 0
           /\ r.begin \in -1..(n - 1) /\ r.end \in -1..(n - 1)
<1>1. NoMatch.begin = -1 /\ NoMatch.end = -1
  BY DEF NoMatch
<1>2. CASE r = NoMatch
  BY <1>1, <1>2
<1>3. CASE r # NoMatch
  <2>1. r.begin \in 0..(n - 1) /\ r.end \in r.begin..(n - 1)
    BY <1>3 DEF Reported
  <2> QED BY <1>3, <2>1
<1> QED BY <1>2, <1>3

-----------------------------------------------------------------------------
(* What the loop does with the state it has come to.                       *)

\* The slow matcher from a position and a state on.
From(x) == MatchFrom(slow, str)[x]

\* The walk keeps the invariant when the state it comes to is the end of what was
\* read, or the one it was in and all is read, and the slow matcher goes there too.
LEMMA Settles ==
    ASSUME IInv, Graphs, pc = "match", idx < Len(str),
           NEW i \in 0..Len(str), NEW id \in 0..(Cardinality(slow.states) - 1),
           ReadsWord(i, At(Order(slow.states), id)) \/ (i = Len(str) /\ id = state),
           r = NoMatch => From(<<idx, Word>>) = From(<<i, At(Order(slow.states), id)>>),
           Settle(i, id), UNCHANGED <<dict, slow, buf, variant, str>>
    PROVE  IInv'
<1> DEFINE n == Len(str)
           t == At(Order(slow.states), id)
           p == slow.pattern[t]
           node == buf.states[id]
           found == Result(i, Len(t), p)
           MH == MatchHelper(slow, str)
<1>1. /\ variant \in {"first", "longest"} /\ str \in Subjects /\ str \in Seq(Byte)
      /\ idx \in 0..n /\ n \in Nat /\ dict \in Dictionaries
      /\ r = NoMatch \/ Reported(r)
  <2>1. /\ variant \in {"first", "longest"} /\ str \in Subjects /\ idx \in 0..n
        /\ r = NoMatch \/ Reported(r)
        /\ dict \in Dictionaries
    BY DEF IInv, Called
  <2>2. str \in Seq(Byte)
    BY <2>1, TextAssumption
  <2> QED BY <2>1, <2>2, LenProperties
<1>2. /\ slow.pattern[Word] >= 0 =>
           variant = "longest" /\ r # NoMatch /\ r.end - r.begin >= Len(Word) - 1
      /\ r = NoMatch => MH = From(<<idx, Word>>)
      /\ r # NoMatch => variant = "longest" /\ Covers(r, MH)
  BY DEF IInv, Walks, From
<1>3. /\ t \in slow.states /\ t \in Seq(Byte) /\ Len(t) \in Nat
      /\ id = 0 => t = Root
      /\ id # 0 => /\ t # Root /\ Len(t) >= 1 /\ t = Order(slow.states)[id]
                   /\ NodeIs(slow.states, slow, id, node)
  BY StateIs
<1>4. /\ p \in Int /\ p >= -1
      /\ t = Root => p = -1
      /\ p >= 0 => p + 1 \in DOMAIN dict /\ dict[p + 1] = t
  <2>1. Patterned(slow)
    BY DEF Graphs
  <2> QED BY <1>3, <2>1 DEF Patterned
<1> HIDE DEF t, node
<1>5. id # 0 => node.is_term = p + 1 /\ node.depth = Len(t)
  <2> SUFFICES ASSUME id # 0 PROVE node.is_term = p + 1 /\ node.depth = Len(t)
    OBVIOUS
  <2>1. t = Order(slow.states)[id] /\ NodeIs(slow.states, slow, id, node)
    BY <1>3
  <2> QED BY <2>1 DEF NodeIs
<1> HIDE DEF p
<1>6. (id = 0 \/ node.is_term = 0) <=> ~(p >= 0)
  <2>1. CASE id = 0
    <3>1. p = -1
      BY <1>3, <1>4, <2>1
    <3> QED BY <2>1, <3>1
  <2>2. CASE id # 0
    <3>1. p \in Int /\ p >= -1 /\ node.is_term = p + 1
      BY <1>4, <1>5, <2>2
    <3> QED BY <2>2, <3>1
  <2> QED BY <2>1, <2>2
<1>7. p >= 0 => id # 0 /\ Found(i, node) = found
  <2>1. p >= 0 => id # 0
    <3>1. id = 0 => p = -1
      BY <1>3, <1>4
    <3> QED BY <3>1
  <2>2. id # 0 => Found(i, node) = found
    <3>1. ASSUME id # 0 PROVE node.is_term - 1 = p
      <4>1. p \in Int /\ node.is_term = p + 1
        BY <1>4, <1>5, <3>1
      <4> QED BY <4>1
    <3> QED BY <1>5, <3>1 DEF Found
  <2> QED BY <2>1, <2>2
<1>8. /\ idx' = i /\ state' = id
      /\ ~(p >= 0) => r' = r /\ pc' = pc
      /\ p >= 0 /\ variant = "first" => r' = found /\ pc' = "done"
      /\ p >= 0 /\ variant # "first" =>
           /\ pc' = pc
           /\ r' = IF r.begin = -1 \/ found.end - found.begin > r.end - r.begin THEN found ELSE r
  <2> HIDE DEF found
  <2> QED BY <1>6, <1>7 DEF Settle, node
<1>9. Word' = t /\ slow' = slow /\ str' = str /\ dict' = dict /\ variant' = variant /\ buf' = buf
  BY <1>8 DEF Word, t
<1>10. From(<<i, t>>) = MatchStep(slow, str, <<i, t>>, MatchFrom(slow, str))
  <2>1. <<i, t>> \in (0..Len(str)) \X slow.states
    BY <1>3
  <2> QED BY <1>1, <2>1, MatchIs DEF From, Graphs
<1>11. p >= 0 => From(<<i, t>>) = found
  BY <1>10 DEF MatchStep, p
<1>12. p >= 0 /\ ReadsWord(i, t) => Reported(found)
  <2> SUFFICES ASSUME p >= 0, ReadsWord(i, t) PROVE Reported(found)
    OBVIOUS
  <2>1. p \in Int /\ p + 1 \in DOMAIN dict /\ dict[p + 1] = t
    BY <1>4
  <2>2. t \in Seq(Byte) /\ t # Root
    <3>1. p # -1
      BY <2>1
    <3> QED BY <1>3, <1>4, <3>1
  <2>3. str \in Seq(Byte)
    BY <1>1
  <2> HIDE DEF n
  <2> QED BY <2>1, <2>2, <2>3, ReportIs
<1>13. found.begin = i - Len(t) /\ found.end = i - 1
  BY DEF Result
<1> HIDE DEF t, p, node, found, n, MH
<1>14. found.begin \in Int /\ found.end \in Int /\ found.end - found.begin = Len(t) - 1
  BY <1>1, <1>3, <1>13 DEF n
<1>15. /\ r = NoMatch <=> r.begin = -1
       /\ r.begin \in Int /\ r.end \in Int
       /\ r # NoMatch => r.begin >= 0
  <2>1. /\ r = NoMatch <=> r.begin = -1
        /\ r # NoMatch => r.begin >= 0
        /\ r.begin \in -1..(n - 1) /\ r.end \in -1..(n - 1)
    BY <1>1, ReportsAre DEF n
  <2> QED BY <2>1
<1>16. p >= 0 /\ ~ReadsWord(i, t) =>
         variant = "longest" /\ r # NoMatch /\ r.end - r.begin >= Len(t) - 1
  <2>1. ~ReadsWord(i, t) => id = state
    BY DEF t
  <2>2. id = state => t = Word
    BY DEF t, Word
  <2> QED BY <1>2, <2>1, <2>2 DEF p
<1>17. r = NoMatch => MH = From(<<i, t>>)
  BY <1>2 DEF t
\* What is left to show.
<1>18. ASSUME r' = NoMatch \/ Reported(r'), pc' \in {"match", "done"},
              pc' = "match" =>
                /\ i < n => ReadsWord(i, t)
                /\ p >= 0 => variant = "longest" /\ r' # NoMatch /\ r'.end - r'.begin >= Len(t) - 1
                /\ r' = NoMatch => MH = From(<<i, t>>)
                /\ r' # NoMatch => variant = "longest" /\ Covers(r', MH),
              pc' = "done" => variant = "first" /\ r' = MH
       PROVE  IInv'
  <2>1. Made'
    <3>1. slow = Construct(dict) /\ buf = Convert(Construct(dict))
      BY DEF IInv, Made
    <3> QED BY <1>9, <3>1 DEF Made
  <2>2. Idle'
    BY <1>18 DEF Idle
  <2>3. Called'
    <3>1. Reported(r') => Reported(r)'
      BY <1>9 DEF Reported
    <3> QED BY <1>1, <1>8, <1>9, <1>18, <3>1 DEF Called, n
  <2>4. Walks'
    <3> SUFFICES ASSUME pc' = "match" PROVE Walks'
      BY DEF Walks
    <3>1. i < n => ReadsWord(idx, Word)'
      <4>1. ReadsWord(i, t) => ReadsWord(idx, Word)'
        BY <1>8, <1>9 DEF ReadsWord
      <4> QED BY <1>18, <4>1
    <3>2. slow'.pattern[Word'] = p
      BY <1>9 DEF p
    <3>3. MatchHelper(slow', str') = MH /\ MatchFrom(slow', str')[<<idx', Word'>>] = From(<<i, t>>)
      BY <1>8, <1>9 DEF MH, From
    <3> QED BY <1>8, <1>9, <1>18, <3>1, <3>2, <3>3 DEF Walks, n
  <2>5. Ended'
    <3>1. MatchHelper(slow', str') = MH
      BY <1>9 DEF MH
    <3> QED BY <1>9, <1>18, <3>1 DEF Ended
  <2> QED BY <1>1, <1>9, <1>18, <2>1, <2>2, <2>3, <2>4, <2>5 DEF IInv
<1>19. i < n => ReadsWord(i, t)
  <2>1. i < n => i # n
    BY <1>1
  <2> QED BY <2>1 DEF n, t
<1>20. CASE ~(p >= 0)
  <2>1. r' = r /\ pc' = "match"
    BY <1>8, <1>20
  <2> QED BY <1>1, <1>2, <1>17, <1>18, <1>19, <1>20, <2>1
<1>21. CASE p >= 0 /\ ~ReadsWord(i, t)
  <2>1. variant = "longest" /\ r # NoMatch /\ r.end - r.begin >= Len(t) - 1 /\ r.begin # -1
    BY <1>15, <1>16, <1>21
  <2>2. ~(found.end - found.begin > r.end - r.begin)
    BY <1>3, <1>14, <1>15, <2>1
  <2>3. r' = r /\ pc' = "match"
    BY <1>8, <1>21, <2>1, <2>2
  <2> QED BY <1>1, <1>2, <1>18, <1>19, <2>1, <2>3
<1>22. CASE p >= 0 /\ ReadsWord(i, t) /\ variant = "first"
  <2>1. r = NoMatch
    BY <1>2, <1>22
  <2>2. r' = found /\ pc' = "done" /\ Reported(found)
    BY <1>8, <1>12, <1>22
  <2>3. MH = found
    BY <1>11, <1>17, <1>22, <2>1
  <2> QED BY <1>18, <1>22, <2>2, <2>3
<1>23. CASE p >= 0 /\ ReadsWord(i, t) /\ variant # "first"
  <2>1. Reported(found) /\ pc' = "match" /\ variant = "longest"
    BY <1>1, <1>8, <1>12, <1>23
  <2>0. found.begin >= 0 /\ found # NoMatch
    <3>1. found.begin \in 0..(Len(str) - 1)
      BY <2>1 DEF Reported
    <3>2. found.begin >= 0
      BY <3>1
    <3>3. NoMatch.begin = -1
      BY DEF NoMatch
    <3> QED BY <3>2, <3>3
  <2>2. CASE r = NoMatch
    <3>1. r' = found
      BY <1>8, <1>15, <1>23, <2>2
    <3>2. MH = found
      BY <1>11, <1>17, <1>23, <2>2
    <3>3. Covers(found, MH)
      BY <1>14, <2>0, <3>2 DEF Covers
    <3>4. found.end - found.begin >= Len(t) - 1
      BY <1>3, <1>14
    <3> QED BY <1>18, <1>19, <2>0, <2>1, <3>1, <3>3, <3>4
  <2>3. CASE r # NoMatch /\ found.end - found.begin > r.end - r.begin
    <3>1. r' = found
      BY <1>8, <1>23, <2>3
    <3>2. Covers(r, MH)
      BY <1>2, <2>3
    <3>3. Covers(found, MH)
      <4>1. /\ MH.begin >= 0 /\ MH.begin \in Int /\ MH.end \in Int
            /\ r.end - r.begin >= MH.end - MH.begin
        BY <3>2 DEF Covers
      <4>2. found.end - found.begin > MH.end - MH.begin
        BY <1>14, <1>15, <2>3, <4>1
      <4>3. found.end - found.begin >= MH.end - MH.begin /\ found.end - found.begin # MH.end - MH.begin
        BY <1>14, <4>1, <4>2
      <4> QED BY <2>0, <4>1, <4>3 DEF Covers
    <3>4. found.end - found.begin >= Len(t) - 1
      BY <1>3, <1>14
    <3> QED BY <1>18, <1>19, <2>0, <2>1, <3>1, <3>3, <3>4
  <2>4. CASE r # NoMatch /\ ~(found.end - found.begin > r.end - r.begin)
    <3>1. r' = r
      BY <1>8, <1>15, <1>23, <2>4
    <3>2. Covers(r, MH)
      BY <1>2, <2>4
    <3>3. r.end - r.begin >= Len(t) - 1
      BY <1>3, <1>14, <1>15, <2>4
    <3> QED BY <1>1, <1>18, <1>19, <2>1, <2>4, <3>1, <3>2, <3>3
  <2> QED BY <2>2, <2>3, <2>4
<1> QED BY <1>20, <1>21, <1>22, <1>23

-----------------------------------------------------------------------------
(* The steps of the walk.                                                  *)

\* What the invariant says during the walk.
LEMMA InWalk ==
    ASSUME IInv, InLoop
    PROVE  /\ Graphs /\ pc = "match" /\ idx < Len(str) /\ idx \in Nat /\ Len(str) \in Nat
           /\ str \in Seq(Byte) /\ str[idx + 1] \in Byte /\ idx + 1 \in 1..Len(str) /\ idx \in 0..(Len(str) - 1)
           /\ state \in 0..(Cardinality(slow.states) - 1)
           /\ ReadsWord(idx, Word)
           /\ Word \in slow.states /\ Word \in Seq(Byte) /\ Len(Word) \in Nat
           /\ state = 0 => Word = Root
           /\ state # 0 => Word = Order(slow.states)[state] /\ Word # Root /\ NodeIs(slow.states, slow, state, Node)
<1>1. pc = "match" /\ idx < Len(str)
  BY DEF InLoop
<1>2. /\ str \in Subjects /\ idx \in 0..Len(str) /\ state \in 0..(Cardinality(slow.states) - 1)
      /\ dict \in Dictionaries
  BY <1>1 DEF IInv, Called
<1>3. Graphs
  BY <1>1, MadeIs DEF IInv
<1>4. str \in Seq(Byte) /\ Len(str) \in Nat /\ \A k \in 1..Len(str) : str[k] \in Byte
  <2>1. str \in Seq(Byte)
    BY <1>2, TextAssumption
  <2> QED BY <2>1, LenProperties
<1>5. idx \in Nat /\ idx + 1 \in 1..Len(str) /\ idx \in 0..(Len(str) - 1)
  <2> DEFINE n == Len(str)
  <2>1. n \in Nat /\ idx \in 0..n /\ idx < n
    BY <1>1, <1>2, <1>4
  <2> HIDE DEF n
  <2>2. idx \in Nat /\ idx + 1 \in 1..n /\ idx \in 0..(n - 1)
    BY <2>1
  <2> QED BY <2>2 DEF n
<1>6. ReadsWord(idx, Word)
  BY <1>1 DEF IInv, Walks
<1>7. /\ Word \in slow.states /\ Word \in Seq(Byte) /\ Len(Word) \in Nat
      /\ state = 0 => Word = Root
      /\ state # 0 => Word = Order(slow.states)[state] /\ Word # Root /\ NodeIs(slow.states, slow, state, Node)
  BY <1>2, <1>3, StateIs DEF Word, Node
<1> QED BY <1>1, <1>2, <1>3, <1>4, <1>5, <1>6, <1>7

\* Where the slow matcher goes on as long as nothing is reported.
LEMMA GoesTo ==
    ASSUME IInv, InLoop, r = NoMatch
    PROVE  From(<<idx, Word>>) =
             IF str[idx + 1] \in Inputs(slow.states, Word)
               THEN From(<<idx + 1, Append(Word, str[idx + 1])>>)
             ELSE IF slow.fail[Word] = Root
               THEN From(Skipped(Inputs(slow.states, Root), str, idx, Word))
             ELSE From(<<idx, slow.fail[Word]>>)
<1>1. /\ Graphs /\ str \in Seq(Byte) /\ Word \in slow.states /\ pc = "match" /\ idx \in Nat
      /\ Len(str) \in Nat /\ idx < Len(str)
  BY InWalk
<1>2. From(<<idx, Word>>) = MatchStep(slow, str, <<idx, Word>>, MatchFrom(slow, str))
  <2>1. idx \in 0..Len(str)
    BY <1>1
  <2>2. <<idx, Word>> \in (0..Len(str)) \X slow.states
    BY <1>1, <2>1
  <2> QED BY <1>1, <2>2, MatchIs DEF From, Graphs
<1>3. ~(slow.pattern[Word] >= 0)
  BY <1>1 DEF IInv, Walks
<1>4. idx # Len(str)
  BY <1>1
<1> QED BY <1>2, <1>3, <1>4 DEF MatchStep, From

\* The root goes on where a pattern begins.
LEMMA StartsAre ==
    ASSUME Graphs
    PROVE  /\ Starts = Inputs(slow.states, Root)
           /\ \A c \in Starts : /\ buf.root_goto[c] \in 1..(Cardinality(slow.states) - 1)
                                /\ buf.root_goto[c] # 0
                                /\ Order(slow.states)[buf.root_goto[c]] = <<c>>
<1> DEFINE n == Cardinality(slow.states) - 1
<1>1. \A c \in Byte : IF <<c>> \in slow.states
                      THEN buf.root_goto[c] \in 1..n /\ Order(slow.states)[buf.root_goto[c]] = <<c>>
                      ELSE buf.root_goto[c] = 0
  BY DEF Graphs, IsBuffer
<1>2. \A c \in Byte : c \in Inputs(slow.states, Root) <=> <<c>> \in slow.states
  <2>1. \A c : Append(Root, c) = <<c>>
    BY OneByte DEF Graphs
  <2> QED BY <2>1 DEF Inputs
<1>3. n \in Int
  <2>1. IsGraph(slow.states)
    BY DEF Graphs, Slow
  <2>2. Cardinality(slow.states) - 1 \in Nat
    BY <2>1, WithoutRoot
  <2> QED BY <2>2
<1> HIDE DEF n
<1>4. \A c \in Byte : buf.root_goto[c] \in 1..n => buf.root_goto[c] # 0
  BY <1>3
<1>5. \A c \in Byte : buf.root_goto[c] # 0 <=> <<c>> \in slow.states
  BY <1>1, <1>4
<1>6. Starts = Inputs(slow.states, Root)
  <2>1. \A c : c \in Starts <=> c \in Byte /\ buf.root_goto[c] # 0
    BY DEF Starts
  <2>2. \A c : c \in Inputs(slow.states, Root) => c \in Byte
    BY DEF Inputs
  <2> QED BY <1>2, <1>5, <2>1, <2>2
<1>7. \A c \in Starts : c \in Byte /\ buf.root_goto[c] # 0 /\ <<c>> \in slow.states
  BY <1>5 DEF Starts
<1> QED BY <1>1, <1>6, <1>7 DEF n

\* Skipping, when the slow matcher skips too.
LEMMA Skips ==
    ASSUME IInv, InLoop, Skip, UNCHANGED <<dict, slow, buf, variant, str>>,
           r = NoMatch => From(<<idx, Word>>) = From(Skipped(Inputs(slow.states, Root), str, idx, Word))
    PROVE  IInv'
<1> DEFINE n == Len(str)
           i == SkipTo(Starts, str, idx)
           id == IF str[i] \in Starts THEN buf.root_goto[str[i]] ELSE state
           t == At(Order(slow.states), id)
<1>1. /\ Graphs /\ pc = "match" /\ idx < Len(str) /\ idx \in 0..(Len(str) - 1)
      /\ str \in Seq(Byte) /\ state \in 0..(Cardinality(slow.states) - 1) /\ Len(str) \in Nat
  BY InWalk
<1>2. Starts = Inputs(slow.states, Root)
  BY <1>1, StartsAre
<1>3. i \in (idx + 1)..n /\ (str[i] \notin Starts => i = n)
  BY <1>1, SkipIs
<1>4. Settle(i, id)
  BY DEF Skip
<1>5. Skipped(Inputs(slow.states, Root), str, idx, Word) = <<i, IF str[i] \in Starts THEN <<str[i]>> ELSE Word>>
  BY <1>1, <1>2 DEF Skipped
<1> HIDE DEF i
<1>6. i \in 0..n /\ i \in 1..n
  BY <1>1, <1>3
<1>7. CASE str[i] \in Starts
  <2>1. /\ id = buf.root_goto[str[i]] /\ id \in 1..(Cardinality(slow.states) - 1)
        /\ id # 0 /\ Order(slow.states)[id] = <<str[i]>>
    BY <1>1, <1>7, StartsAre
  <2> HIDE DEF id
  <2>2. t = <<str[i]>> /\ id \in 0..(Cardinality(slow.states) - 1)
    BY <2>1 DEF At
  <2>3. ReadsWord(i, t)
    <3>1. Len(t) = 1 /\ t[1] = str[i]
      BY <2>2
    <3>2. (i - 1) + 1 = i /\ 1 <= i
      BY <1>6
    <3> HIDE DEF t
    <3> QED BY <3>1, <3>2 DEF ReadsWord
  <2>4. r = NoMatch => From(<<idx, Word>>) = From(<<i, t>>)
    BY <1>5, <1>7, <2>2
  <2> QED BY <1>1, <1>4, <1>6, <2>2, <2>3, <2>4, Settles
<1>8. CASE str[i] \notin Starts
  <2>1. id = state /\ i = Len(str)
    BY <1>3, <1>8
  <2> HIDE DEF id
  <2>2. t = Word
    BY <2>1 DEF Word
  <2>3. r = NoMatch => From(<<idx, Word>>) = From(<<i, t>>)
    BY <1>5, <1>8, <2>2
  <2> QED BY <1>1, <1>4, <1>6, <2>1, <2>3, Settles
<1> QED BY <1>7, <1>8

\* What is read with the next byte.
LEMMA ReadsMore ==
    ASSUME NEW i \in Nat, NEW t \in Seq(Byte), ReadsWord(i, t), NEW c \in Byte, c = str[i + 1]
    PROVE  ReadsWord(i + 1, Append(t, c))
<1> DEFINE a == Append(t, c)
<1>1. /\ Len(a) = Len(t) + 1 /\ Len(t) \in Nat /\ \A k \in 1..Len(t) : a[k] = t[k]
      /\ a[Len(t) + 1] = c
  BY AppendIs
<1>2. Len(t) <= i /\ \A k \in 1..Len(t) : t[k] = str[(i - Len(t)) + k]
  BY DEF ReadsWord
<1> DEFINE l == Len(t)
<1> HIDE DEF a, l
<1>3. l \in Nat /\ l <= i /\ Len(a) = l + 1 /\ a[l + 1] = c
  BY <1>1, <1>2 DEF l
<1>4. \A k \in 1..l : a[k] = str[(i - l) + k]
  BY <1>1, <1>2 DEF l
<1>5. ASSUME NEW k \in 1..(l + 1) PROVE a[k] = str[((i + 1) - (l + 1)) + k]
  <2>1. (i + 1) - (l + 1) = i - l
    BY <1>3
  <2>2. CASE k = l + 1
    <3>1. (i - l) + k = i + 1
      BY <1>3, <2>2
    <3> QED BY <1>3, <2>1, <2>2, <3>1
  <2>3. CASE k # l + 1
    <3>1. k \in 1..l
      BY <1>3, <2>3
    <3> QED BY <1>4, <2>1, <3>1
  <2> QED BY <2>2, <2>3
<1>6. Len(a) <= i + 1
  BY <1>3
<1> QED BY <1>3, <1>5, <1>6 DEF ReadsWord, a

\* An end of a word that was read was read.
LEMMA ReadsEnd ==
    ASSUME NEW i \in Nat, NEW t \in Seq(Byte), ReadsWord(i, t), NEW u \in Seq(Byte), EndOf(t, u)
    PROVE  ReadsWord(i, u)
<1> DEFINE l == Len(t)
           e == Len(u)
<1>1. l \in Nat /\ e \in Nat
  BY LenProperties
<1>2. l <= i /\ \A k \in 1..l : t[k] = str[(i - l) + k]
  BY DEF ReadsWord
<1>3. e <= l /\ \A k \in 1..e : u[k] = t[l - e + k]
  BY DEF EndOf
<1> HIDE DEF l, e
<1>4. ASSUME NEW k \in 1..e PROVE u[k] = str[(i - e) + k]
  <2>1. l - e + k \in 1..l /\ (i - l) + (l - e + k) = (i - e) + k
    BY <1>1, <1>2, <1>3
  <2> QED BY <1>2, <1>3, <2>1
<1>5. e <= i
  BY <1>1, <1>2, <1>3
<1> QED BY <1>4, <1>5 DEF ReadsWord, e

\* From the root the walk skips to the next byte that begins a pattern.
LEMMA SkipToFirstKeeps == IInv /\ SkipToFirst => IInv'
<1> SUFFICES ASSUME IInv, SkipToFirst PROVE IInv'
  OBVIOUS
<1>1. InLoop /\ state = 0 /\ Skip /\ UNCHANGED <<dict, slow, buf, variant, str>>
  BY DEF SkipToFirst
<1>2. /\ Graphs /\ Word = Root /\ idx \in 0..(Len(str) - 1) /\ Len(str) \in Nat /\ str[idx + 1] \in Byte
  BY <1>1, InWalk
<1> DEFINE starts == Inputs(slow.states, Root)
           c == str[idx + 1]
           k == SkipTo(starts, str, idx)
<1>3. r = NoMatch => From(<<idx, Word>>) = From(Skipped(starts, str, idx, Word))
  <2> SUFFICES ASSUME r = NoMatch PROVE From(<<idx, Word>>) = From(Skipped(starts, str, idx, Word))
    OBVIOUS
  <2>1. CASE c \in starts
    <3>1. k = idx + 1
      BY <1>2, <2>1, SkipIs
    <3>2. idx < Len(str)
      BY <1>2
    <3>3. Skipped(starts, str, idx, Word) = <<idx + 1, <<c>> >>
      BY <2>1, <3>1, <3>2 DEF Skipped
    <3>4. Append(Root, c) = <<c>>
      BY <1>2, OneByte DEF Graphs
    <3>5. From(<<idx, Word>>) = From(<<idx + 1, Append(Word, c)>>)
      BY <1>1, <1>2, <2>1, GoesTo
    <3> QED BY <1>2, <3>3, <3>4, <3>5
  <2>2. CASE c \notin starts
    <3>1. slow.fail[Word] = Root
      BY <1>2 DEF Graphs, Slow
    <3> QED BY <1>1, <1>2, <2>2, <3>1, GoesTo
  <2> QED BY <2>1, <2>2
<1> QED BY <1>1, <1>3, Skips

\* The kid on the next byte, or none.
LEMMA KidIs ==
    ASSUME IInv, InLoop, state # 0
    PROVE  /\ Kid = -1 => str[idx + 1] \notin Inputs(slow.states, Word)
           /\ Kid # -1 =>
                LET kid == Node.first_kid + Kid
                IN  /\ str[idx + 1] \in Inputs(slow.states, Word)
                    /\ kid \in 1..(Cardinality(slow.states) - 1)
                    /\ At(Order(slow.states), kid) = Append(Word, str[idx + 1])
<1> DEFINE v == Node.input_vect
           c == str[idx + 1]
           n == Cardinality(slow.states) - 1
           q == Order(slow.states)
<1>1. /\ Graphs /\ c \in Byte /\ Word = q[state] /\ NodeIs(slow.states, slow, state, Node)
  BY InWalk
<1>2. v = SortedInputs(slow.states, Word)
  BY <1>1 DEF NodeIs, Vect
<1>3. /\ v \in Seq(Byte) /\ Increasing(v) /\ Len(v) \in Nat
      /\ \A k \in 1..Len(v) : v[k] \in Byte /\ Append(Word, v[k]) \in slow.states
      /\ \A e \in Byte : Append(Word, e) \in slow.states => \E k \in 1..Len(v) : v[k] = e
  BY <1>2, InputsAre
<1>4. \A k \in 1..Len(v) : /\ Node.first_kid \in Nat /\ Node.first_kid + k - 1 \in 1..n
                           /\ q[Node.first_kid + k - 1] = Append(q[state], v[k])
  BY <1>1 DEF NodeIs
<1>5. Finds(v, c, Kid)
  <2>0. SubSeq(v, 1, Node.goto_num) = v
    <3> DEFINE all == Cardinality(Inputs(slow.states, Word))
    <3>1. Word \in slow.states /\ Word # Root
      BY InWalk
    <3>2. all < 256
      BY <1>1, <3>1 DEF Graphs, FansOut
    <3>3. Len(v) = all /\ all \in Nat
      BY <1>2, InputsAre
    <3>4. Node.goto_num = all % 256
      BY <1>1, <1>2, <3>3 DEF NodeIs, Vect
    <3> HIDE DEF all, v
    <3>5. all % 256 = all
      BY <3>2, <3>3
    <3>6. SubSeq(v, 1, Len(v)) = v
      BY <1>3
    <3> QED BY <3>3, <3>4, <3>5, <3>6
  <2>1. Kid = SearchInput(v, c)
    BY <2>0 DEF Kid
  <2> HIDE DEF v, c
  <2> QED BY <1>1, <1>3, <2>1, SearchIs
<1> HIDE DEF v, c, q, n
<1>6. CASE Kid = -1
  <2>1. \A j \in 1..Len(v) : v[j] # c
    BY <1>3, <1>5, <1>6 DEF Finds
  <2>2. c \notin Inputs(slow.states, Word)
    BY <1>3, <2>1 DEF Inputs
  <2> QED BY <1>6, <2>2 DEF c
<1>7. CASE Kid # -1
  <2>1. Kid \in 0..(Len(v) - 1) /\ v[Kid + 1] = c
    BY <1>5, <1>7 DEF Finds
  <2>2. Kid + 1 \in 1..Len(v) /\ Kid \in Int
    BY <1>3, <2>1
  <2> DEFINE k == Kid + 1
             kid == Node.first_kid + Kid
  <2>3. /\ Node.first_kid \in Nat /\ Node.first_kid + k - 1 \in 1..n
        /\ q[Node.first_kid + k - 1] = Append(q[state], v[k])
    <3> HIDE DEF k
    <3>1. k \in 1..Len(v)
      BY <2>2 DEF k
    <3> QED BY <1>4, <3>1
  <2>4. Node.first_kid + k - 1 = kid
    BY <2>2, <2>3
  <2>5. n \in Int
    <3>1. IsGraph(slow.states)
      BY <1>1 DEF Graphs, Slow
    <3>2. Cardinality(slow.states) - 1 \in Nat
      BY <3>1, WithoutRoot
    <3> QED BY <3>2 DEF n
  <2> HIDE DEF kid
  <2>6. kid \in 1..n /\ q[kid] = Append(Word, c) /\ kid # 0
    <3>1. kid \in 1..n /\ q[kid] = Append(Word, c)
      BY <1>1, <2>1, <2>3, <2>4
    <3> QED BY <2>5, <3>1
  <2>7. At(q, kid) = Append(Word, c)
    BY <2>6 DEF At
  <2>8. c \in Inputs(slow.states, Word)
    <3>1. Append(Word, c) \in slow.states
      BY <1>3, <2>1, <2>2
    <3> QED BY <1>1, <3>1 DEF Inputs
  <2> QED BY <1>7, <2>6, <2>7, <2>8 DEF kid, n, q, c
<1> QED BY <1>6, <1>7

\* A kid is the word with the byte that is read.
LEMMA AdvanceKeeps == IInv /\ Advance => IInv'
<1> SUFFICES ASSUME IInv, Advance PROVE IInv'
  OBVIOUS
<1> DEFINE kid == Node.first_kid + Kid
           c == str[idx + 1]
           n == Cardinality(slow.states) - 1
<1>1. /\ InLoop /\ state # 0 /\ Kid # -1 /\ Settle(idx + 1, kid)
      /\ UNCHANGED <<dict, slow, buf, variant, str>>
  BY DEF Advance
<1>2. /\ Graphs /\ pc = "match" /\ idx < Len(str) /\ idx \in Nat /\ Len(str) \in Nat /\ c \in Byte
      /\ idx + 1 \in 1..Len(str) /\ ReadsWord(idx, Word) /\ Word \in Seq(Byte)
  BY <1>1, InWalk
<1>3. /\ c \in Inputs(slow.states, Word) /\ kid \in 1..n
      /\ At(Order(slow.states), kid) = Append(Word, c)
  BY <1>1, KidIs
<1> HIDE DEF kid
<1>4. ReadsWord(idx + 1, At(Order(slow.states), kid))
  BY <1>2, <1>3, ReadsMore
<1>5. r = NoMatch => From(<<idx, Word>>) = From(<<idx + 1, At(Order(slow.states), kid)>>)
  BY <1>1, <1>3, GoesTo
<1>6. idx + 1 \in 0..Len(str) /\ kid \in 0..n
  <2>1. idx + 1 \in 0..Len(str)
    BY <1>2
  <2>2. n \in Nat
    BY <1>2, WithoutRoot DEF Graphs, Slow
  <2> HIDE DEF n
  <2> QED BY <1>3, <2>1, <2>2
<1> QED BY <1>1, <1>2, <1>4, <1>5, <1>6, Settles

\* A fail link is an end of the word, which the slow matcher goes to as well.
LEMMA FollowFailKeeps == IInv /\ FollowFail => IInv'
<1> SUFFICES ASSUME IInv, FollowFail PROVE IInv'
  OBVIOUS
<1> DEFINE id == Node.fail_link
           n == Cardinality(slow.states) - 1
           u == slow.fail[Word]
<1>1. /\ InLoop /\ state # 0 /\ Kid = -1 /\ id # 0 /\ Settle(idx, id)
      /\ UNCHANGED <<dict, slow, buf, variant, str>>
  BY DEF FollowFail
<1>2. /\ Graphs /\ pc = "match" /\ idx < Len(str) /\ idx \in Nat /\ Len(str) \in Nat
      /\ idx \in 0..(Len(str) - 1) /\ ReadsWord(idx, Word)
      /\ Word \in Seq(Byte) /\ Word \in slow.states
      /\ Word = Order(slow.states)[state] /\ Word # Root /\ NodeIs(slow.states, slow, state, Node)
  BY <1>1, InWalk
<1>3. id \in 0..n /\ At(Order(slow.states), id) = u /\ (id = 0 <=> u = Root)
  BY <1>2 DEF NodeIs
<1>4. u \in slow.states /\ EndOf(Word, u) /\ u # Root
  BY <1>1, <1>2, <1>3 DEF Graphs, Slow, Linked
<1>5. u \in Seq(Byte)
  BY <1>2, <1>4 DEF Graphs, Slow, IsGraph
<1>6. str[idx + 1] \notin Inputs(slow.states, Word)
  BY <1>1, KidIs
<1> HIDE DEF id, u
<1>7. ReadsWord(idx, At(Order(slow.states), id))
  BY <1>2, <1>3, <1>4, <1>5, ReadsEnd
<1>8. r = NoMatch => From(<<idx, Word>>) = From(<<idx, At(Order(slow.states), id)>>)
  BY <1>1, <1>3, <1>4, <1>6, GoesTo DEF u
<1>9. idx \in 0..Len(str)
  BY <1>2
<1> QED BY <1>1, <1>2, <1>3, <1>7, <1>8, <1>9, Settles

\* From the root on the walk skips; if there is nothing to skip to it keeps its state.
LEMMA FailToRootKeeps == IInv /\ FailToRoot => IInv'
<1> SUFFICES ASSUME IInv, FailToRoot PROVE IInv'
  OBVIOUS
<1>1. /\ InLoop /\ state # 0 /\ Kid = -1 /\ Node.fail_link = 0 /\ Skip
      /\ UNCHANGED <<dict, slow, buf, variant, str>>
  BY DEF FailToRoot
<1>2. Word = Order(slow.states)[state] /\ NodeIs(slow.states, slow, state, Node)
  BY <1>1, InWalk
<1>3. slow.fail[Word] = Root
  BY <1>1, <1>2 DEF NodeIs
<1>4. str[idx + 1] \notin Inputs(slow.states, Word)
  BY <1>1, KidIs
<1>5. r = NoMatch => From(<<idx, Word>>) = From(Skipped(Inputs(slow.states, Root), str, idx, Word))
  BY <1>1, <1>3, <1>4, GoesTo
<1> QED BY <1>1, <1>5, Skips

-----------------------------------------------------------------------------
(* The other steps.                                                        *)

\* The first skip leads where the loop would from the root.
LEMMA FromRoot ==
    ASSUME NEW graph, Slow(graph), graph.pattern[Root] = -1, NEW subject \in Seq(Byte)
    PROVE  MatchHelper(graph, subject) = MatchFrom(graph, subject)[<<0, Root>>]
<1> DEFINE n == Len(subject)
           starts == Inputs(graph.states, Root)
           run == MatchFrom(graph, subject)
           k == SkipTo(starts, subject, 0)
           x == <<0, Root>>
<1>1. n \in Nat
  BY LenProperties
<1>2. Root \in graph.states /\ graph.fail[Root] = Root
  BY DEF Slow, IsGraph
<1>3. MatchHelper(graph, subject) = run[Skipped(starts, subject, 0, Root)]
  BY DEF MatchHelper
<1>4. run[x] = MatchStep(graph, subject, x, run)
  <2>1. x \in (0..n) \X graph.states
    BY <1>1, <1>2
  <2> QED BY <2>1, MatchIs
<1>5. run[x] = IF 0 = n THEN NoMatch
               ELSE IF subject[1] \in starts THEN run[<<1, Append(Root, subject[1])>>]
               ELSE run[Skipped(starts, subject, 0, Root)]
  BY <1>2, <1>4 DEF MatchStep
<1> HIDE DEF run, x
<1>6. CASE n = 0
  <2>1. {j \in 1..0 : subject[j] \in starts} = {}
    OBVIOUS
  <2>2. k = 0
    BY <1>6, <2>1 DEF SkipTo, SelectInSubSeq
  <2>3. Skipped(starts, subject, 0, Root) = <<0, Root>>
    BY <1>6, <2>2 DEF Skipped
  <2> QED BY <1>3, <2>3 DEF run
<1>7. CASE n # 0 /\ subject[1] \in starts
  <2>1. 0 \in 0..(n - 1) /\ 0 < n
    BY <1>1, <1>7
  <2>2. k = 1
    BY <1>1, <1>7, <2>1, SkipIs
  <2>3. Skipped(starts, subject, 0, Root) = <<1, <<subject[1]>> >>
    BY <1>7, <2>1, <2>2 DEF Skipped
  <2>4. Append(Root, subject[1]) = <<subject[1]>>
    BY OneByte
  <2> QED BY <1>3, <1>5, <1>7, <2>3, <2>4 DEF run, x
<1>8. CASE n # 0 /\ subject[1] \notin starts
  BY <1>3, <1>5, <1>8 DEF run, x
<1> QED BY <1>6, <1>7, <1>8

\* The initial states.
LEMMA InitHolds == Init => IInv
<1> SUFFICES ASSUME Init PROVE IInv
  OBVIOUS
<1>1. Made /\ Idle /\ Called /\ Walks /\ Ended
  BY DEF Init, Made, Idle, Called, Walks, Ended
<1> QED BY <1>1 DEF Init, IInv

LEMMA CreateKeeps == IInv /\ Create => IInv'
<1> SUFFICES ASSUME IInv, Create PROVE IInv'
  OBVIOUS
<1>1. /\ pc = "create" /\ slow' = Construct(dict) /\ buf' = Convert(Construct(dict)) /\ pc' = "idle"
      /\ UNCHANGED <<dict, variant, str, idx, state, r>>
  BY DEF Create
<1>2. variant = "none" /\ str = <<>> /\ idx = 0 /\ state = 0 /\ r = NoMatch /\ dict \in Dictionaries
  BY <1>1 DEF IInv, Idle
<1>3. Made'
  BY <1>1 DEF Made
<1>4. Idle' /\ Called' /\ Walks' /\ Ended'
  BY <1>1, <1>2 DEF Idle, Called, Walks, Ended
<1> QED BY <1>1, <1>2, <1>3, <1>4 DEF IInv

LEMMA CallKeeps == IInv /\ Call => IInv'
<1> SUFFICES ASSUME IInv, Call PROVE IInv'
  OBVIOUS
<1>1. /\ pc = "idle" /\ pc' = "match" /\ str' \in Subjects /\ variant' \in {"first", "longest"}
      /\ idx' = 0 /\ state' = 0 /\ r' = NoMatch /\ dict' = dict /\ slow' = slow /\ buf' = buf
  BY DEF Call
<1>2. Graphs /\ dict \in Dictionaries
  BY <1>1, MadeIs DEF IInv
<1>3. str' \in Seq(Byte) /\ Len(str') \in Nat
  <2>1. str' \in Seq(Byte)
    BY <1>1, TextAssumption
  <2> QED BY <2>1, LenProperties
<1>4. Word' = Root /\ slow.pattern[Root] = -1 /\ Cardinality(slow.states) - 1 \in Nat
  <2>1. Word' = Root
    BY <1>1 DEF Word, At
  <2> QED BY <1>2, <2>1, WithoutRoot DEF Graphs, Slow, Patterned
<1>5. MatchHelper(slow, str') = MatchFrom(slow, str')[<<0, Root>>]
  BY <1>2, <1>3, <1>4, FromRoot DEF Graphs
<1>6. Made' /\ Idle' /\ Ended'
  <2>1. slow = Construct(dict) /\ buf = Convert(Construct(dict))
    BY <1>1 DEF IInv, Made
  <2> QED BY <1>1, <2>1 DEF Made, Idle, Ended
<1>7. Called'
  <2>1. 0 \in 0..Len(str') /\ 0 \in 0..(Cardinality(slow.states) - 1)
    BY <1>3, <1>4
  <2> QED BY <1>1, <2>1 DEF Called
<1>8. Walks'
  <2>1. ReadsWord(idx, Word)'
    <3>1. Len(Root) = 0
      BY DEF Root
    <3>2. Len(Word') <= idx' /\ \A k \in 1..Len(Word') : FALSE
      BY <1>1, <1>4, <3>1
    <3> QED BY <3>2 DEF ReadsWord
  <2>2. ~(slow'.pattern[Word'] >= 0)
    BY <1>1, <1>4
  <2>3. MatchHelper(slow', str') = MatchFrom(slow', str')[<<idx', Word'>>]
    BY <1>1, <1>4, <1>5
  <2> QED BY <1>1, <2>1, <2>2, <2>3 DEF Walks
<1> QED BY <1>1, <1>2, <1>6, <1>7, <1>8 DEF IInv

LEMMA LoopEndsKeeps == IInv /\ LoopEnds => IInv'
<1> SUFFICES ASSUME IInv, LoopEnds PROVE IInv'
  OBVIOUS
<1>1. /\ pc = "match" /\ idx = Len(str) /\ pc' = "done"
      /\ UNCHANGED <<dict, slow, buf, variant, str, idx, state, r>>
  BY DEF LoopEnds
<1>2. /\ variant \in {"first", "longest"} /\ str \in Subjects /\ idx \in 0..Len(str)
      /\ state \in 0..(Cardinality(slow.states) - 1) /\ dict \in Dictionaries
      /\ r = NoMatch \/ Reported(r)
  BY <1>1 DEF IInv, Called
<1>3. /\ slow.pattern[Word] >= 0 => r # NoMatch
      /\ r = NoMatch => MatchHelper(slow, str) = MatchFrom(slow, str)[<<idx, Word>>]
      /\ r # NoMatch => variant = "longest" /\ Covers(r, MatchHelper(slow, str))
  BY <1>1 DEF IInv, Walks
<1>4. Graphs
  BY <1>1, <1>2, MadeIs DEF IInv
<1>5. str \in Seq(Byte)
  BY <1>2, TextAssumption
<1>6. r = NoMatch => MatchHelper(slow, str) = NoMatch
  <2> SUFFICES ASSUME r = NoMatch PROVE MatchHelper(slow, str) = NoMatch
    OBVIOUS
  <2>1. Word \in slow.states
    BY <1>2, <1>4, StateIs DEF Word
  <2>2. <<idx, Word>> \in (0..Len(str)) \X slow.states
    BY <1>2, <2>1
  <2>3. MatchFrom(slow, str)[<<idx, Word>>] = MatchStep(slow, str, <<idx, Word>>, MatchFrom(slow, str))
    BY <1>4, <1>5, <2>2, MatchIs DEF Graphs
  <2> QED BY <1>1, <1>3, <2>3 DEF MatchStep
<1>7. Made' /\ Idle' /\ Walks'
  <2>1. slow = Construct(dict) /\ buf = Convert(Construct(dict))
    BY <1>1 DEF IInv, Made
  <2> QED BY <1>1, <2>1 DEF Made, Idle, Walks
<1>8. Called'
  <2>1. Reported(r) => Reported(r)'
    BY <1>1 DEF Reported
  <2> QED BY <1>1, <1>2, <2>1 DEF Called
<1>9. Ended'
  BY <1>1, <1>3, <1>6 DEF Ended
<1> QED BY <1>1, <1>2, <1>7, <1>8, <1>9 DEF IInv

LEMMA ReturnKeeps == IInv /\ Return => IInv'
<1> SUFFICES ASSUME IInv, Return PROVE IInv'
  OBVIOUS
<1>1. /\ pc = "done" /\ pc' = "idle" /\ variant' = "none" /\ str' = <<>> /\ idx' = 0 /\ state' = 0
      /\ r' = NoMatch /\ UNCHANGED <<dict, slow, buf>>
  BY DEF Return
<1>2. Made' /\ Idle' /\ Called' /\ Walks' /\ Ended'
  <2>1. slow = Construct(dict) /\ buf = Convert(Construct(dict))
    BY <1>1 DEF IInv, Made
  <2> QED BY <1>1, <2>1 DEF Made, Idle, Called, Walks, Ended
<1> QED BY <1>1, <1>2 DEF IInv

LEMMA StutterKeeps == IInv /\ UNCHANGED vars => IInv'
<1> SUFFICES ASSUME IInv, UNCHANGED vars PROVE IInv'
  OBVIOUS
<1>1. Word' = Word
  BY DEF Word, vars
<1>2. Made' /\ Idle'
  BY DEF IInv, Made, Idle, vars
<1>3. Called'
  <2>1. Reported(r) => Reported(r)'
    BY DEF Reported, vars
  <2> QED BY <2>1 DEF IInv, Called, vars
<1>4. Walks'
  <2>1. ReadsWord(idx, Word) => ReadsWord(idx, Word)'
    BY <1>1 DEF ReadsWord, vars
  <2> QED BY <1>1, <2>1 DEF IInv, Walks, vars
<1>5. Ended'
  BY DEF IInv, Ended, vars
<1> QED BY <1>2, <1>3, <1>4, <1>5 DEF IInv, vars

\* The inductive invariant holds of every behaviour: in the walk over the buffer that
\* ac_create made, the state is what was read last, and nothing it has passed is missed.
THEOREM InvHolds == Spec => []IInv
<1>1. IInv /\ [Next]_vars => IInv'
  BY CreateKeeps, CallKeeps, SkipToFirstKeeps, AdvanceKeeps, FollowFailKeeps, FailToRootKeeps,
     LoopEndsKeeps, ReturnKeeps, StutterKeeps DEF Next
<1> QED BY InitHolds, <1>1, PTL DEF Spec

\* The states in the buffer.
LEMMA NodesAre ==
    ASSUME Graphs
    PROVE  NodesInPlace
<1> DEFINE n == Cardinality(slow.states) - 1
           q == Order(slow.states)
<1>1. n \in Nat /\ q \in [1..n -> slow.states \ {Root}]
  BY OrderIs DEF Graphs, Slow
<1>2. DOMAIN buf.states = 1..n /\ \A id \in 1..n : NodeIs(slow.states, slow, id, buf.states[id])
  BY DEF Graphs, IsBuffer
<1>3. slow.states \in SUBSET Seq(Byte)
  BY DEF Graphs, Slow, IsGraph
<1> HIDE DEF n, q
<1>4. \A id \in 1..n : buf.states[id].depth = Len(q[id])
  BY <1>2 DEF NodeIs, q
<1> SUFFICES ASSUME NEW id \in 1..n
             PROVE  LET node == buf.states[id]
                    IN  /\ node.fail_link = 0 \/ buf.states[node.fail_link].depth < node.depth
                        /\ \A k \in DOMAIN node.input_vect :
                             buf.states[node.first_kid + k - 1].depth = node.depth + 1
  BY <1>2 DEF NodesInPlace
<1> DEFINE node == buf.states[id]
           fl == node.fail_link
<1>5. /\ node.input_vect = SortedInputs(slow.states, q[id])
      /\ \A k \in 1..Len(node.input_vect) :
           /\ node.first_kid + k - 1 \in 1..n
           /\ q[node.first_kid + k - 1] = Append(q[id], node.input_vect[k])
      /\ fl \in 0..n /\ At(q, fl) = slow.fail[q[id]]
  BY <1>2 DEF NodeIs, n, q, Vect
<1>6. q[id] \in slow.states /\ q[id] # Root /\ q[id] \in Seq(Byte)
  BY <1>1, <1>3
<1> HIDE DEF node, fl
<1>7. fl = 0 \/ buf.states[fl].depth < node.depth
  <2> SUFFICES ASSUME fl # 0 PROVE buf.states[fl].depth < node.depth
    OBVIOUS
  <2>1. fl \in 1..n
    BY <1>1, <1>5
  <2>2. q[fl] = slow.fail[q[id]]
    BY <1>5 DEF At
  <2>3. Len(q[fl]) < Len(q[id])
    BY <1>6, <2>2 DEF Graphs, Slow, Linked
  <2> QED BY <1>4, <2>1, <2>3 DEF node
<1>8. ASSUME NEW k \in DOMAIN node.input_vect
      PROVE  buf.states[node.first_kid + k - 1].depth = node.depth + 1
  <2>1. k \in 1..Len(node.input_vect) /\ node.input_vect[k] \in Byte
    BY <1>5, InputsAre
  <2>2. /\ node.first_kid + k - 1 \in 1..n
        /\ q[node.first_kid + k - 1] = Append(q[id], node.input_vect[k])
    BY <1>5, <2>1
  <2>3. Len(Append(q[id], node.input_vect[k])) = Len(q[id]) + 1
    BY <1>6, <2>1, AppendIs
  <2> QED BY <1>4, <2>2, <2>3 DEF node
<1> QED BY <1>7, <1>8 DEF node, fl

\* Where the walk and the buffer are: the walk stays in the subject and in the buffer,
\* which the states fill exactly, whatever the patterns are (ac_fast.cxx).
THEOREM TypeCorrect == Spec => []TypeOK
<1>1. IInv => TypeOK
  <2> SUFFICES ASSUME IInv PROVE TypeOK
    OBVIOUS
  <2>1. /\ dict \in Dictionaries /\ pc \in {"create", "idle", "match", "done"}
        /\ variant \in {"none", "first", "longest"} /\ str \in Subjects \union {<<>>}
        /\ idx \in 0..Len(str)
        /\ r = NoMatch \/ Reported(r)
    <3>1. CASE pc \in {"create", "idle"}
      <4>1. variant = "none" /\ str = <<>> /\ idx = 0 /\ r = NoMatch
        BY <3>1 DEF IInv, Idle
      <4>2. Len(str) = 0
        BY <4>1
      <4> QED BY <4>1, <4>2 DEF IInv
    <3>2. CASE pc \in {"match", "done"}
      BY <3>2 DEF IInv, Called
    <3> QED BY <3>1, <3>2 DEF IInv
  <2>2. Len(str) \in Nat
    <3>1. str \in Seq(Byte)
      BY <2>1, TextAssumption, EmptySeq
    <3> QED BY <3>1, LenProperties
  <2>3. r.begin \in -1..Len(str) - 1 /\ r.end \in -1..Len(str) - 1
    BY <2>1, <2>2, ReportsAre
  <2>4. pc # "create" =>
               buf.end = buf.buf_len /\ state \in 0..Len(buf.states) /\ NodesInPlace
    <3> HAVE pc # "create"
    <3>1. Graphs
      BY <2>1, MadeIs DEF IInv
    <3>2. buf.end = buf.buf_len /\ Len(buf.states) = Cardinality(slow.states) - 1
      BY <3>1 DEF Graphs, IsBuffer
    <3>3. Cardinality(slow.states) - 1 \in Nat
      BY <3>1, WithoutRoot DEF Graphs, Slow
    <3>4. state \in 0..(Cardinality(slow.states) - 1)
      <4>1. CASE pc = "idle"
        <5>1. state = 0
          BY <4>1 DEF IInv, Idle
        <5> QED BY <3>3, <5>1
      <4>2. CASE pc \in {"match", "done"}
        BY <4>2 DEF IInv, Called
      <4> QED BY <2>1, <4>1, <4>2
    <3> QED BY <3>1, <3>2, <3>4, NodesAre
  <2> QED BY <2>1, <2>3, <2>4 DEF TypeOK
<1> QED BY <1>1, InvHolds, PTL

\* What ac_match and ac_match2 return is what the slow graph finds, as a VERIFY build
\* asserts, for every set of patterns and every subject.
THEOREM FastFindsTheSame == Spec => []FastIsSlow
<1>1. IInv => FastIsSlow
  BY DEF IInv, Ended, FastIsSlow
<1> QED BY <1>1, InvHolds, PTL

\* What is returned from begin to end is the pattern of that index.
THEOREM MatchesArePatterns == Spec => []MatchIsPattern
<1>1. IInv => MatchIsPattern
  <2> SUFFICES ASSUME IInv, pc = "done", r.begin >= 0
               PROVE  SubSeq(str, r.begin + 1, r.end + 1) = dict[r.pattern_idx + 1]
    BY DEF MatchIsPattern
  <2>1. r = NoMatch \/ Reported(r)
    BY DEF IInv, Called
  <2>2. NoMatch.begin = -1
    BY DEF NoMatch
  <2>3. r # NoMatch
    BY <2>2
  <2> QED BY <2>1, <2>3 DEF Reported
<1> QED BY <1>1, InvHolds, PTL

\* ac_match_longest_l finds something when ac_match does, and never less of it.
THEOREM LongestCovers == Spec => []LongestCoversFirst
<1>1. IInv => LongestCoversFirst
  <2> SUFFICES ASSUME IInv, pc = "done", variant = "longest"
               PROVE  LET first == MatchHelper(slow, str)
                      IN  /\ (r.begin >= 0) = (first.begin >= 0)
                          /\ r.end - r.begin >= first.end - first.begin
                          /\ r.end - r.begin = first.end - first.begin => r = first
    BY DEF LongestCoversFirst
  <2> DEFINE first == MatchHelper(slow, str)
  <2>1. IF r = NoMatch THEN r = first ELSE Covers(r, first)
    BY DEF IInv, Ended
  <2> HIDE DEF first
  <2>2. CASE r = NoMatch
    <3>1. r = first /\ r.begin = -1 /\ r.end = -1
      BY <2>1, <2>2 DEF NoMatch
    <3>2. r.end - r.begin >= first.end - first.begin
      BY <3>1
    <3> QED BY <3>1, <3>2 DEF first
  <2>3. CASE r # NoMatch
    BY <2>1, <2>3 DEF Covers, first
  <2> QED BY <2>2, <2>3
<1> QED BY <1>1, InvHolds, PTL
=============================================================================
