------------------------- MODULE Collections_proofs -------------------------
(***************************************************************************)
(* Theorems about Collections, for any deployments, requests and sieves that  *)
(* the assumptions on the constants admit.                                  *)
(*                                                                         *)
(* What is kept under a key is what the key's variable and transform give    *)
(* (CacheInv): the key has all of them, and a collection, once provided, stays *)
(* as it is. For a sieved rule this needs that the variables in the map are    *)
(* those of this very rule, after one call that names it (MapInv), which is   *)
(* where Orderly and SievesApart come in. What the sieves of one call leave    *)
(* of variables (SievedIs) is by induction on their number, as an argument    *)
(* about the least number for which it fails.                               *)
(***************************************************************************)
EXTENDS Collections, SequenceTheorems, WellFoundedInduction, TLAPS

\* A variable and a sequence of them, in a rule or in the map.
IsVar(v) ==
    /\ {"type", "parse", "arg", "ignore", "storage", "length", "collection_key"} \subseteq DOMAIN v
    /\ v.type \in Types /\ v.parse \in Parses /\ v.ignore \in Seq(Ignore)

IsVars(vs) == /\ Len(vs) \in Nat /\ DOMAIN vs = 1..Len(vs)
              /\ \A n \in DOMAIN vs : IsVar(vs[n])

\* Every variable has the key of what it is now.
AreKeyed(vs, t) == \A n \in DOMAIN vs : vs[n].collection_key = CollectionKey(vs[n], t)

LoadedRule(x) ==
    /\ x.id \in RuleIds /\ x.skip \in Nat \cup {NoSkip}
    /\ IsVars(x.vars) /\ 1 \in DOMAIN x.vars /\ AreKeyed(x.vars, x.transform)

LoadedRules(rs) == /\ Len(rs) \in Nat /\ DOMAIN rs = 1..Len(rs)
                   /\ \A n \in DOMAIN rs : LoadedRule(rs[n])

RulesetsInv ==
    /\ Len(rulesets) \in Nat /\ DOMAIN rulesets = 1..Len(rulesets) /\ 1 \in DOMAIN rulesets
    /\ \A n \in DOMAIN rulesets :
          /\ rulesets[n].name # NoKey
          /\ \A p \in Range(Phases) : LoadedRules(rulesets[n].rules[p])
    /\ \A n, m \in DOMAIN rulesets : rulesets[n].name = rulesets[m].name => rulesets[n] = rulesets[m]

\* A call sieves with sieves there are.
IsCall(call) == call.sieves \in Seq(Sieve)

TypeInv ==
    /\ RulesetsInv
    /\ request \in [Types -> Collection] /\ collections \in [Types -> Collection]
    /\ stage \in 1..5 /\ pc \in {"enter", "rules", "failed"}
    /\ pc = "rules" => stage <= 4
    /\ active \in DOMAIN rulesets /\ r \in DOMAIN rulesets /\ r \in 1..active
    /\ offset \in Nat /\ k \in Nat \ {0}
    /\ AtRule => k \in DOMAIN rule.vars
    /\ \A id \in DOMAIN target_update_map : id \in RuleIds /\ IsVars(target_update_map[id])
    /\ \A key \in DOMAIN transform : transform[key].entries \subseteq Entry
    /\ calls \in Seq(Range(calls))
    /\ \A c \in DOMAIN calls : IsCall(calls[c])

-----------------------------------------------------------------------------
(* Chains, skips and offsets (Rules).                                      *)

\* The number of rules a skip passes over is a natural number.
LEMMA SkipCountNat ==
    ASSUME NEW rs, Len(rs) \in Nat, NEW n \in 1..Len(rs),
           rs[n].skip \in Nat \cup {NoSkip}
    PROVE  SkipCount(rs, n) \in Nat
<1>1. CASE rs[n].skip # NoSkip
  BY <1>1 DEF SkipCount
<1>2. CASE rs[n].skip = NoSkip
  <2>1. CASE \E j \in n..Len(rs) : IsFirstWithId(rs, n, rs[n].skip_after, j)
    <3> DEFINE j == CHOOSE m \in n..Len(rs) : IsFirstWithId(rs, n, rs[n].skip_after, m)
    <3>1. j \in n..Len(rs)
      BY <2>1
    <3>2. SkipCount(rs, n) = j - n
      BY <1>2, <2>1 DEF SkipCount
    <3> HIDE DEF j
    <3> QED BY <3>1, <3>2
  <2>2. CASE ~ \E j \in n..Len(rs) : IsFirstWithId(rs, n, rs[n].skip_after, j)
    BY <1>2, <2>2 DEF SkipCount
  <2> QED BY <2>1, <2>2
<1> QED BY <1>1, <1>2

\* The offsets a chain end calls for are a pair of numbers.
LEMMA OffsetOfType ==
    ASSUME NEW rs, Len(rs) \in Nat, NEW n \in 1..Len(rs), NEW e \in n..Len(rs),
           rs[n].skip \in Nat \cup {NoSkip}
    PROVE  OffsetOf(rs, n, e) \in Offset
<1>1. SkipCount(rs, n) \in Nat
  BY SkipCountNat
<1> QED BY <1>1 DEF OffsetOf, SkipOffset, ChainOffset, Offset, Nil

\* So are the offsets a rule is given, whether or not its chain ends.
LEMMA OffsetsType ==
    ASSUME NEW rs, Len(rs) \in Nat, NEW n \in 1..Len(rs),
           rs[n].skip \in Nat \cup {NoSkip}
    PROVE  Offsets(rs)[n] \in Offset
<1>1. CASE \E e \in n..Len(rs) : IsChainEnd(rs, n, e)
  <2> DEFINE last == CHOOSE e \in n..Len(rs) : IsChainEnd(rs, n, e)
  <2>1. last \in n..Len(rs)
    BY <1>1
  <2>2. Offsets(rs)[n] = OffsetOf(rs, n, last)
    BY <1>1 DEF Offsets
  <2> HIDE DEF last
  <2> QED BY <2>1, <2>2, OffsetOfType
<1>2. CASE ~ \E e \in n..Len(rs) : IsChainEnd(rs, n, e)
  BY <1>2 DEF Offsets, Unset, Offset, Nil
<1> QED BY <1>1, <1>2

-----------------------------------------------------------------------------

\* A rule that a call names is in the map, with its own variables after that call's
\* sieves, and no other call names it.
MapInv ==
    /\ DOMAIN calls = {} => DOMAIN target_update_map = {}
    /\ \A place \in Places, c \in DOMAIN calls :
          Names(calls[c], place) => At(place).id \in DOMAIN target_update_map
    /\ Orderly /\ SievesApart =>
          \A place \in Places : At(place).id \in DOMAIN target_update_map =>
              \E c \in DOMAIN calls :
                  /\ Names(calls[c], place)
                  /\ \A d \in DOMAIN calls : Names(calls[d], place) => d = c
                  /\ target_update_map[At(place).id] =
                         Sieved(At(place).vars, calls[c].sieves, At(place).transform)

VarsInTime ==
    \A s \in DOMAIN rulesets, n \in DOMAIN Phases :
        \A m \in DOMAIN rulesets[s].rules[Phases[n]] :
            LET vs == rulesets[s].rules[Phases[n]][m].vars
            IN  \A j \in DOMAIN vs : ReadInTime(vs[j], n)

\* What a rule reads of a variable with this key.
VarOf(key) == [type |-> key[1], parse |-> key[2], arg |-> key[3], ignore |-> key[4]]
OfKey(key) == Transformed(Parsed(collections[key[1]], VarOf(key)), key[5])

CacheInv ==
    Orderly /\ SievesApart /\ pc # "failed" =>
        \A key \in DOMAIN transform :
            \/ key[1] = "MATCHED_VAR"
            \/ /\ key[1] \in ProvidedBy(IF pc = "enter" THEN stage - 1 ELSE stage) \ {"TX"}
               /\ transform[key] = OfKey(key)

IInv == TypeInv /\ MapInv /\ VarsInTime /\ CacheInv

-----------------------------------------------------------------------------
(* Sieves.                                                                   *)

LEMMA LeastExists ==
    ASSUME NEW S \in SUBSET Nat, S # {}
    PROVE  \E n \in S : \A m \in S : n <= m
<1> DEFINE R == OpToRel(<, Nat)
<1>1. IsWellFoundedOn(R, Nat)
  BY NatLessThanWellFounded
<1> HIDE DEF R
<1>2. \E n \in S : \A m \in S : ~(<<m, n>> \in R)
  BY <1>1, WFMin
<1>3. PICK n \in S : \A m \in S : ~(<<m, n>> \in R)
  BY <1>2
<1>4. ASSUME NEW m \in S PROVE n <= m
  <2>1. m < n => <<m, n>> \in R
    BY DEF R, OpToRel
  <2> QED BY <2>1, <1>3
<1> QED BY <1>4

\* A set of places in a sequence has a last one.
LEMMA LargestExists ==
    ASSUME NEW n \in Nat, NEW S \in SUBSET (1..n), S # {}
    PROVE  \E k1 \in S : \A j \in S : j <= k1
<1> DEFINE T == {n - j : j \in S}
<1>1. T \in SUBSET Nat /\ T # {}
  <2>1. PICK j \in S : TRUE
    OBVIOUS
  <2>2. n - j \in T
    BY <2>1
  <2>3. \A x \in T : x \in Nat
    OBVIOUS
  <2> QED BY <2>2, <2>3
<1>2. \E m \in T : \A x \in T : m <= x
  <2> HIDE DEF T
  <2> QED BY <1>1, LeastExists
<1>3. PICK k1 \in S : \A j \in S : n - k1 <= n - j
  <2>1. PICK m \in T : \A x \in T : m <= x
    BY <1>2
  <2>2. PICK k1 \in S : m = n - k1
    BY <2>1
  <2> QED BY <2>1, <2>2
<1>4. ASSUME NEW j \in S PROVE j <= k1
  BY <1>3
<1> QED BY <1>4

\* What variables are after the first n sieves.
After(f, vs, sieves, t) ==
    /\ f[0] = vs
    /\ \A n \in 1..Len(sieves) : f[n] = OnceSieved(f[n - 1], sieves[n], t)

\* The recursive function of Sieved is there: a shortest sequence without one has one.
LEMMA SievedUnfolds ==
    ASSUME NEW vs, NEW sieves, Len(sieves) \in Nat, NEW t
    PROVE  \E f : After(f, vs, sieves, t) /\ Sieved(vs, sieves, t) = f[Len(sieves)]
<1> DEFINE N == Len(sieves)
           Step(f, n) == IF n = 0 THEN vs ELSE OnceSieved(f[n - 1], sieves[n], t)
           Upto(f, m) == f = [n \in 0..m |-> Step(f, n)]
           S == {m \in 0..N : ~\E f : Upto(f, m)}
<1>1. S = {}
  <2> SUFFICES ASSUME S # {} PROVE FALSE
    OBVIOUS
  <2>1. S \in SUBSET Nat
    OBVIOUS
  <2>2. PICK m \in S : \A j \in S : m <= j
    <3> HIDE DEF S
    <3> QED BY <2>1, LeastExists
  <2>3. CASE m = 0
    <3> DEFINE f == [n \in 0..0 |-> vs]
    <3>1. Upto(f, 0)
      OBVIOUS
    <3> QED BY <2>2, <2>3, <3>1
  <2>4. CASE m # 0
    <3>1. m - 1 \in 0..N /\ m - 1 \notin S
      BY <2>2, <2>4
    <3>2. PICK f : Upto(f, m - 1)
      BY <3>1
    <3> DEFINE g == [n \in 0..m |-> IF n < m THEN f[n] ELSE Step(f, m)]
    <3>3. ASSUME NEW n \in 0..m PROVE g[n] = Step(g, n)
      <4>1. CASE n = 0
        BY <2>2, <2>4, <3>2, <4>1
      <4>2. CASE n # 0
        <5>1. n - 1 \in 0..(m - 1) /\ g[n - 1] = f[n - 1]
          BY <2>2, <4>2
        <5>2. n < m => n \in 0..(m - 1)
          BY <2>2
        <5>3. n < m => f[n] = Step(f, n)
          BY <3>2, <5>2
        <5> QED BY <4>2, <5>1, <5>3
      <4> QED BY <4>1, <4>2
    <3>4. Upto(g, m)
      <4>1. g = [n \in 0..m |-> g[n]]
        OBVIOUS
      <4> HIDE DEF g, Step
      <4> QED BY <3>3, <4>1
    <3> QED BY <2>2, <3>4
  <2> QED BY <2>3, <2>4
<1>2. N \in 0..N
  OBVIOUS
<1>3. \E f : Upto(f, N)
  BY <1>1, <1>2
<1> DEFINE after == CHOOSE f : Upto(f, N)
<1>4. Upto(after, N)
  <2> HIDE DEF Upto
  <2> QED BY <1>3
<1>5. Sieved(vs, sieves, t) = after[N]
  BY DEF Sieved
<1>6. \A n \in 0..N : after[n] = Step(after, n)
  <2> HIDE DEF after, Step
  <2> QED BY <1>4
<1> HIDE DEF after
<1>7. After(after, vs, sieves, t)
  BY <1>6, <1>2 DEF After
<1> QED BY <1>5, <1>7

\* What is written over the first exclusions leaves those behind them.
LEMMA OverwrittenIs ==
    ASSUME NEW ignore \in Seq(Ignore), NEW sieve \in Sieve
    PROVE  /\ Overwritten(ignore, sieve) \in Seq(Ignore)
           /\ \A keys \in Range(sieve.elts) :
                 \E j \in DOMAIN Overwritten(ignore, sieve) :
                     Overwritten(ignore, sieve)[j].keys = keys
           /\ \A j \in DOMAIN Overwritten(ignore, sieve) :
                 \/ Overwritten(ignore, sieve)[j].keys \in Range(sieve.elts)
                 \/ \E i \in DOMAIN ignore : Overwritten(ignore, sieve)[j] = ignore[i]
<1> DEFINE n == Len(sieve.elts)
           new == [j \in DOMAIN sieve.elts |-> [action |-> sieve.action, keys |-> sieve.elts[j]]]
           old == SubSeq(ignore, n + 1, Len(ignore))
<1>1. sieve.elts \in Seq(SUBSET STRING) /\ sieve.action \in STRING
  BY DEF Sieve
<1>2. n \in Nat /\ DOMAIN sieve.elts = 1..n
  BY <1>1
<1>3. \A j \in 1..n : [action |-> sieve.action, keys |-> sieve.elts[j]] \in Ignore
  BY <1>1, <1>2 DEF Ignore
<1>4. new \in Seq(Ignore) /\ Len(new) = n /\ \A j \in 1..n : new[j].keys = sieve.elts[j]
  BY <1>2, <1>3
<1>5. /\ old \in Seq(Ignore) /\ Len(old) \in Nat
      /\ \A j \in 1..Len(old) : \E i \in DOMAIN ignore : old[j] = ignore[i]
  <2> DEFINE from == n + 1
             last == Len(ignore)
  <2>1. last \in Nat /\ DOMAIN ignore = 1..last /\ from \in Nat \ {0}
    BY <1>2, LenProperties
  <2>2. \A i \in from..last : ignore[i] \in Ignore
    BY <2>1
  <2>3. old = SubSeq(ignore, from, last)
    OBVIOUS
  <2> HIDE DEF from, last, old
  <2>4. /\ SubSeq(ignore, from, last) \in Seq(Ignore)
        /\ Len(SubSeq(ignore, from, last)) = IF from <= last THEN last - from + 1 ELSE 0
        /\ \A j \in 1..(last - from + 1) : SubSeq(ignore, from, last)[j] = ignore[from + j - 1]
    <3>1. from \in Int /\ last \in Int
      BY <2>1
    <3> QED BY <2>2, <3>1, SubSeqProperties
  <2>5. ASSUME NEW j \in 1..Len(old) PROVE \E i \in DOMAIN ignore : old[j] = ignore[i]
    <3>1. from + j - 1 \in 1..last /\ j \in 1..(last - from + 1)
      BY <2>1, <2>3, <2>4
    <3> QED BY <2>1, <2>3, <2>4, <3>1
  <2> QED BY <2>3, <2>4, <2>5, LenProperties
<1>6. Overwritten(ignore, sieve) = new \o old
  BY DEF Overwritten
<1> HIDE DEF n, new, old
<1>7. /\ new \o old \in Seq(Ignore) /\ DOMAIN (new \o old) = 1..(n + Len(old))
      /\ \A j \in 1..n : (new \o old)[j] = new[j]
      /\ \A j \in (n + 1)..(n + Len(old)) : (new \o old)[j] = old[j - n]
  <2>1. /\ new \o old \in Seq(Ignore) /\ Len(new \o old) = n + Len(old)
        /\ \A j \in 1..(n + Len(old)) : (new \o old)[j] = IF j <= n THEN new[j] ELSE old[j - n]
    BY <1>4, <1>5, ConcatProperties
  <2>2. DOMAIN (new \o old) = 1..(n + Len(old))
    BY <2>1, LenProperties
  <2> QED BY <1>2, <1>5, <2>1, <2>2
<1>8. ASSUME NEW keys \in Range(sieve.elts)
      PROVE  \E j \in DOMAIN (new \o old) : (new \o old)[j].keys = keys
  <2>1. PICK j \in 1..n : keys = sieve.elts[j]
    BY <1>2 DEF Range
  <2>2. j \in 1..(n + Len(old))
    BY <1>2, <1>5, <2>1
  <2> QED BY <1>4, <1>7, <2>1, <2>2
<1>9. ASSUME NEW j \in 1..(n + Len(old))
      PROVE  \/ (new \o old)[j].keys \in Range(sieve.elts)
             \/ \E i \in DOMAIN ignore : (new \o old)[j] = ignore[i]
  <2>1. CASE j \in 1..n
    <3>1. (new \o old)[j].keys = sieve.elts[j]
      BY <1>4, <1>7, <2>1
    <3> QED BY <1>2, <2>1, <3>1 DEF Range
  <2>2. CASE j \notin 1..n
    <3>1. j \in (n + 1)..(n + Len(old)) /\ j - n \in 1..Len(old)
      BY <1>2, <1>5, <2>2
    <3>2. (new \o old)[j] = old[j - n]
      BY <1>7, <3>1
    <3> QED BY <1>5, <3>1, <3>2
  <2> QED BY <2>1, <2>2
<1> QED BY <1>6, <1>7, <1>8, <1>9

\* A sieve leaves everything of variables as it is but exclusions and keys.
Same(v, w) == /\ w.type = v.type /\ w.parse = v.parse /\ w.arg = v.arg
              /\ w.storage = v.storage /\ w.length = v.length

Like(vs, ws) == /\ IsVars(ws) /\ DOMAIN ws = DOMAIN vs
                /\ \A n \in DOMAIN vs : Same(vs[n], ws[n])

LEMMA SameTargets ==
    ASSUME NEW vs, IsVars(vs), NEW ws, Like(vs, ws), NEW sieve, NEW n
    PROVE  IsTarget(sieve, ws, n) = IsTarget(sieve, vs, n)
<1>1. \A m \in DOMAIN vs : AimsAt(sieve, ws[m]) = AimsAt(sieve, vs[m])
  BY DEF Like, Same, AimsAt
<1>2. n \in DOMAIN vs => \A m \in 1..(n - 1) : m \in DOMAIN vs
  BY DEF IsVars
<1> QED BY <1>1, <1>2 DEF IsTarget, Like

LEMMA OnceSievedIs ==
    ASSUME NEW vs, IsVars(vs), NEW sieve \in Sieve, NEW t
    PROVE  /\ Like(vs, OnceSieved(vs, sieve, t))
           /\ AreKeyed(vs, t) => AreKeyed(OnceSieved(vs, sieve, t), t)
           /\ \A n \in DOMAIN vs :
                 OnceSieved(vs, sieve, t)[n].ignore =
                     IF IsTarget(sieve, vs, n) THEN Overwritten(vs[n].ignore, sieve)
                     ELSE vs[n].ignore
<1> DEFINE ws == OnceSieved(vs, sieve, t)
<1>1. ASSUME NEW v, IsVar(v)
      PROVE  LET w == SievedVar(v, sieve, t)
             IN  /\ IsVar(w) /\ Same(v, w) /\ w.ignore = Overwritten(v.ignore, sieve)
                 /\ w.collection_key = CollectionKey(w, t)
  <2> DEFINE u == [v EXCEPT !.ignore = Overwritten(v.ignore, sieve)]
             w == [u EXCEPT !.collection_key = CollectionKey(u, t)]
  <2>1. SievedVar(v, sieve, t) = w
    BY DEF SievedVar
  <2>2. /\ DOMAIN u = DOMAIN v /\ u.ignore = Overwritten(v.ignore, sieve)
        /\ u.type = v.type /\ u.parse = v.parse /\ u.arg = v.arg
        /\ u.storage = v.storage /\ u.length = v.length
    BY <1>1 DEF IsVar
  <2> HIDE DEF u
  <2>3. /\ DOMAIN w = DOMAIN v /\ w.ignore = Overwritten(v.ignore, sieve)
        /\ w.type = v.type /\ w.parse = v.parse /\ w.arg = v.arg
        /\ w.storage = v.storage /\ w.length = v.length /\ w.collection_key = CollectionKey(u, t)
    BY <1>1, <2>2 DEF IsVar
  <2>4. CollectionKey(u, t) = CollectionKey(w, t)
    BY <2>2, <2>3 DEF CollectionKey
  <2>5. Overwritten(v.ignore, sieve) \in Seq(Ignore)
    BY <1>1, OverwrittenIs DEF IsVar
  <2> HIDE DEF w
  <2> QED BY <1>1, <2>1, <2>3, <2>4, <2>5 DEF IsVar, Same
<1>2. ws = [n \in DOMAIN vs |-> IF IsTarget(sieve, vs, n) THEN SievedVar(vs[n], sieve, t) ELSE vs[n]]
  BY DEF OnceSieved
<1>3. DOMAIN ws = DOMAIN vs /\ Len(ws) = Len(vs)
  BY <1>2 DEF IsVars
<1>4. \A n \in DOMAIN vs : ws[n] = IF IsTarget(sieve, vs, n) THEN SievedVar(vs[n], sieve, t) ELSE vs[n]
  BY <1>2
<1> HIDE DEF ws
<1>5. \A n \in DOMAIN vs : IsVar(vs[n])
  BY DEF IsVars
<1>6. \A n \in DOMAIN vs : /\ IsVar(ws[n]) /\ Same(vs[n], ws[n])
                           /\ ws[n].ignore = IF IsTarget(sieve, vs, n)
                                             THEN Overwritten(vs[n].ignore, sieve) ELSE vs[n].ignore
                           /\ ws[n] = vs[n] \/ ws[n].collection_key = CollectionKey(ws[n], t)
  BY <1>1, <1>4, <1>5 DEF Same
<1>7. Like(vs, ws)
  BY <1>3, <1>6 DEF Like, IsVars
<1>8. AreKeyed(vs, t) => AreKeyed(ws, t)
  BY <1>3, <1>6 DEF AreKeyed
<1> QED BY <1>6, <1>7, <1>8 DEF ws

\* What variables ws are, as the first n sieves leave them of vs: their exclusions are
\* those of vs, or of a sieve that aims at the variable, and of the last such sieve all.
SievedBy(vs, ws, sieves, n, t) ==
    /\ Like(vs, ws)
    /\ AreKeyed(vs, t) => AreKeyed(ws, t)
    /\ \A v \in DOMAIN vs : \A j \in DOMAIN ws[v].ignore :
          \/ \E i \in DOMAIN vs[v].ignore : ws[v].ignore[j] = vs[v].ignore[i]
          \/ \E m \in 1..n : /\ IsTarget(sieves[m], vs, v)
                             /\ ws[v].ignore[j].keys \in Range(sieves[m].elts)
    /\ \A v \in DOMAIN vs, m \in 1..n :
          /\ IsTarget(sieves[m], vs, v)
          /\ \A i \in (m + 1)..n : ~IsTarget(sieves[i], vs, v)
          => \A keys \in Range(sieves[m].elts) :
                \E j \in DOMAIN ws[v].ignore : ws[v].ignore[j].keys = keys

LEMMA SievedIs ==
    ASSUME NEW vs, IsVars(vs), NEW sieves \in Seq(Sieve), NEW t
    PROVE  SievedBy(vs, Sieved(vs, sieves, t), sieves, Len(sieves), t)
<1> DEFINE N == Len(sieves)
<1>1. N \in Nat /\ \A n \in 1..N : sieves[n] \in Sieve
  BY LenProperties
<1>2. PICK f : After(f, vs, sieves, t) /\ Sieved(vs, sieves, t) = f[N]
  BY <1>1, SievedUnfolds
<1> HIDE DEF N
<1>3. f[0] = vs /\ \A n \in 1..N : f[n] = OnceSieved(f[n - 1], sieves[n], t)
  BY <1>2 DEF After, N
<1>4. SievedBy(vs, f[0], sieves, 0, t)
  <2>1. Like(vs, vs)
    BY DEF Like, Same
  <2> QED BY <1>3, <2>1 DEF SievedBy
<1>5. ASSUME NEW n \in 1..N, SievedBy(vs, f[n - 1], sieves, n - 1, t)
      PROVE  SievedBy(vs, f[n], sieves, n, t)
  <2> DEFINE us == f[n - 1]
             ws == f[n]
             sieve == sieves[n]
  <2>1. ws = OnceSieved(us, sieve, t) /\ sieve \in Sieve /\ n \in Nat \ {0}
    BY <1>1, <1>3
  <2>2. Like(vs, us)
    BY <1>5 DEF SievedBy
  <2>3. IsVars(us) /\ DOMAIN us = DOMAIN vs
    BY <2>2 DEF Like
  <2>4. \A v : IsTarget(sieve, us, v) = IsTarget(sieve, vs, v)
    BY <2>2, SameTargets
  <2>5. /\ Like(us, ws) /\ (AreKeyed(us, t) => AreKeyed(ws, t))
        /\ \A v \in DOMAIN vs : ws[v].ignore = IF IsTarget(sieve, vs, v)
                                               THEN Overwritten(us[v].ignore, sieve) ELSE us[v].ignore
    <3> HIDE DEF us, ws, sieve
    <3> QED BY <2>1, <2>3, <2>4, OnceSievedIs
  <2>6. Like(vs, ws)
    BY <2>2, <2>5 DEF Like, Same
  <2>7. AreKeyed(vs, t) => AreKeyed(ws, t)
    BY <1>5, <2>5 DEF SievedBy
  <2>8. \A v \in DOMAIN vs : us[v].ignore \in Seq(Ignore)
    BY <2>3 DEF IsVars, IsVar
  <2>9. ASSUME NEW v \in DOMAIN vs, NEW j \in DOMAIN us[v].ignore
        PROVE  \/ \E i \in DOMAIN vs[v].ignore : us[v].ignore[j] = vs[v].ignore[i]
               \/ \E m \in 1..n : /\ IsTarget(sieves[m], vs, v)
                                  /\ us[v].ignore[j].keys \in Range(sieves[m].elts)
    <3>1. \A m \in 1..(n - 1) : m \in 1..n
      BY <2>1
    <3> QED BY <1>5, <3>1 DEF SievedBy
  <2>10. ASSUME NEW v \in DOMAIN vs, NEW j \in DOMAIN ws[v].ignore
         PROVE  \/ \E i \in DOMAIN vs[v].ignore : ws[v].ignore[j] = vs[v].ignore[i]
                \/ \E m \in 1..n : /\ IsTarget(sieves[m], vs, v)
                                   /\ ws[v].ignore[j].keys \in Range(sieves[m].elts)
    <3>1. CASE IsTarget(sieve, vs, v)
      <4>1. ws[v].ignore = Overwritten(us[v].ignore, sieve)
        BY <2>5, <3>1
      <4>2. \/ ws[v].ignore[j].keys \in Range(sieve.elts)
            \/ \E i \in DOMAIN us[v].ignore : ws[v].ignore[j] = us[v].ignore[i]
        <5> DEFINE old == us[v].ignore
                   new == ws[v].ignore
        <5>1. new = Overwritten(old, sieve) /\ old \in Seq(Ignore) /\ j \in DOMAIN new
          BY <2>8, <2>10, <4>1
        <5> HIDE DEF old, new, sieve
        <5>2. new[j].keys \in Range(sieve.elts) \/ \E i \in DOMAIN old : new[j] = old[i]
          BY <2>1, <5>1, OverwrittenIs
        <5> QED BY <5>2 DEF old, new
      <4>3. n \in 1..n
        BY <2>1
      <4> QED BY <2>9, <3>1, <4>2, <4>3
    <3>2. CASE ~IsTarget(sieve, vs, v)
      <4>1. ws[v].ignore = us[v].ignore
        BY <2>5, <3>2
      <4> QED BY <2>9, <2>10, <4>1
    <3> QED BY <3>1, <3>2
  <2>11. ASSUME NEW v \in DOMAIN vs, NEW m \in 1..n, IsTarget(sieves[m], vs, v),
                \A i \in (m + 1)..n : ~IsTarget(sieves[i], vs, v),
                NEW keys \in Range(sieves[m].elts)
         PROVE  \E j \in DOMAIN ws[v].ignore : ws[v].ignore[j].keys = keys
    <3>1. CASE m = n
      <4>1. ws[v].ignore = Overwritten(us[v].ignore, sieve)
        BY <2>5, <2>11, <3>1
      <4>2. keys \in Range(sieve.elts)
        BY <2>11, <3>1
      <4> DEFINE old == us[v].ignore
                 new == ws[v].ignore
      <4>3. new = Overwritten(old, sieve) /\ old \in Seq(Ignore)
        BY <2>8, <4>1
      <4> HIDE DEF old, new, sieve
      <4>4. \E j \in DOMAIN new : new[j].keys = keys
        BY <2>1, <4>2, <4>3, OverwrittenIs
      <4> QED BY <4>4 DEF new
    <3>2. CASE m # n
      <4>1. m \in 1..(n - 1) /\ n \in (m + 1)..n /\ \A i \in (m + 1)..(n - 1) : i \in (m + 1)..n
        BY <2>1, <3>2
      <4>2. ws[v].ignore = us[v].ignore
        BY <2>5, <2>11, <4>1
      <4>3. \E j \in DOMAIN us[v].ignore : us[v].ignore[j].keys = keys
        BY <1>5, <2>11, <4>1 DEF SievedBy
      <4> QED BY <4>2, <4>3
    <3> QED BY <3>1, <3>2
  <2> HIDE DEF us
  <2> QED BY <2>6, <2>7, <2>10, <2>11 DEF SievedBy
<1> DEFINE S == {n \in 0..N : ~SievedBy(vs, f[n], sieves, n, t)}
<1>6. S = {}
  <2> SUFFICES ASSUME S # {} PROVE FALSE
    OBVIOUS
  <2>1. S \in SUBSET Nat
    BY <1>1
  <2>2. PICK n \in S : \A m \in S : n <= m
    <3> HIDE DEF S
    <3> QED BY <2>1, LeastExists
  <2>3. n # 0 /\ n \in 1..N
    BY <1>1, <1>4, <2>2
  <2>4. n - 1 \in 0..N /\ n - 1 \notin S
    BY <1>1, <2>2, <2>3
  <2>5. SievedBy(vs, f[n - 1], sieves, n - 1, t)
    BY <2>4
  <2> QED BY <1>5, <2>2, <2>3, <2>5
<1>7. N \in 0..N
  BY <1>1
<1>8. SievedBy(vs, f[N], sieves, N, t)
  BY <1>6, <1>7
<1> QED BY <1>2, <1>8 DEF N

-----------------------------------------------------------------------------
(* Types.                                                                    *)

ResultFields == {"some", "entries", "transform", "count"}

LEMMA ParsedType ==
    ASSUME NEW c \in Collection, NEW v, IsVar(v)
    PROVE  DOMAIN Parsed(c, v) = ResultFields /\ Parsed(c, v).entries \subseteq Entry
<1>1. c.entries \subseteq Entry
  BY DEF Collection
<1>2. DOMAIN Nothing = ResultFields /\ Nothing.entries = {}
  BY DEF Nothing, ResultFields
<1>3. ASSUME NEW es PROVE DOMAIN Some(es) = ResultFields /\ Some(es).entries = es
  BY DEF Some, Nothing, ResultFields
<1>4. Kept(c.entries, v.ignore) \subseteq Entry
  BY <1>1 DEF Kept
<1>5. ASSUME NEW es, es \subseteq Entry, v.parse # NoParse
      PROVE  DOMAIN Selected(es, v) = ResultFields /\ Selected(es, v).entries \subseteq Entry
  <2> DEFINE named == {e \in es : e.key \in v.arg}
             keys  == {[key |-> e.key, value |-> e.key] : e \in es}
  <2>1. named \subseteq Entry /\ keys \subseteq Entry
    BY <1>5 DEF Entry
  <2>2. Selected(es, v) = CASE v.parse = "specific" -> IF named = {} THEN Nothing ELSE Some(named)
                            [] v.parse = "regex"    -> Some(named)
                            [] v.parse = "keys"     -> Some(keys)
                            [] v.parse = "values"   -> Some(es)
                            [] v.parse = "all"      -> Some(keys \cup es)
    BY DEF Selected
  <2> HIDE DEF named, keys
  <2>3. CASE v.parse = "specific"
    BY <1>2, <1>3, <2>1, <2>2, <2>3
  <2>4. CASE v.parse = "regex"
    BY <1>3, <2>1, <2>2, <2>4
  <2>5. CASE v.parse = "keys"
    BY <1>3, <2>1, <2>2, <2>5
  <2>6. CASE v.parse = "values"
    BY <1>3, <1>5, <2>2, <2>6
  <2>7. CASE v.parse = "all"
    BY <1>3, <1>5, <2>1, <2>2, <2>7
  <2> QED BY <1>5, <2>3, <2>4, <2>5, <2>6, <2>7 DEF IsVar, Parses
<1> QED BY <1>1, <1>2, <1>3, <1>4, <1>5 DEF Parsed

LEMMA PhasesAre == /\ Range(Phases) = {"access", "header_filter", "body_filter", "log"}
                   /\ DOMAIN Phases = 1..4 /\ \A n \in 1..4 : Phases[n] \in Range(Phases)
BY DEF Phases, Range

\* calculate() adds its key to every variable of a rule.
LEMMA KeyedIs ==
    ASSUME NEW x, IsRule(x)
    PROVE  /\ LoadedRule(Keyed(x)) /\ DOMAIN Keyed(x).vars = DOMAIN x.vars
           /\ \A n \in DOMAIN x.vars : Keyed(x).vars[n].type = x.vars[n].type
                                       /\ Keyed(x).vars[n].storage = x.vars[n].storage
<1> DEFINE vs == [n \in DOMAIN x.vars |-> WithKey(x.vars[n], x.transform)]
<1>1. Keyed(x) = [x EXCEPT !.vars = vs]
  BY DEF Keyed
<1>2. x.vars \in Seq(Variable) /\ x.vars # <<>> /\ x.id \in RuleIds /\ x.skip \in Nat \cup {NoSkip}
      /\ {"id", "skip", "transform", "vars"} \subseteq DOMAIN x
  BY DEF IsRule
<1>3. Len(x.vars) \in Nat /\ DOMAIN x.vars = 1..Len(x.vars) /\ 1 \in DOMAIN x.vars
  BY <1>2, LenProperties
<1>4. ASSUME NEW n \in DOMAIN x.vars
      PROVE  LET w == WithKey(x.vars[n], x.transform)
             IN  /\ IsVar(w) /\ w.collection_key = CollectionKey(w, x.transform)
                 /\ w.type = x.vars[n].type /\ w.storage = x.vars[n].storage
  <2>1. x.vars[n] \in Variable
    BY <1>2, <1>3, LenProperties
  <2> QED BY <2>1 DEF IsVar, Variable, WithKey, CollectionKey
<1>5. DOMAIN vs = DOMAIN x.vars /\ Len(vs) = Len(x.vars)
      /\ \A n \in DOMAIN x.vars : vs[n] = WithKey(x.vars[n], x.transform)
  BY <1>3
<1> HIDE DEF vs
<1>6. IsVars(vs) /\ AreKeyed(vs, x.transform)
  BY <1>3, <1>4, <1>5 DEF IsVars, AreKeyed
<1>7. Keyed(x).vars = vs /\ Keyed(x).id = x.id /\ Keyed(x).skip = x.skip /\ Keyed(x).transform = x.transform
  BY <1>1, <1>2
<1> QED BY <1>2, <1>3, <1>4, <1>5, <1>6, <1>7 DEF LoadedRule

LEMMA LoadedIs ==
    ASSUME NEW s, IsRuleset(s)
    PROVE  /\ Loaded(s).name # NoKey /\ Loaded(s).name = s.name
           /\ \A p \in Range(Phases) :
                 /\ LoadedRules(Loaded(s).rules[p])
                 /\ DOMAIN Loaded(s).rules[p] = DOMAIN s.rules[p]
                 /\ \A n \in DOMAIN s.rules[p] :
                       s.rules[p][n] \in Range(s.rules[p])
                       /\ Loaded(s).rules[p][n] = Keyed(s.rules[p][n])
<1> DEFINE rs == [p \in DOMAIN s.rules |-> [n \in DOMAIN s.rules[p] |-> Keyed(s.rules[p][n])]]
<1>1. Loaded(s) = [s EXCEPT !.rules = rs]
  BY DEF Loaded
<1>2. Loaded(s).rules = rs /\ Loaded(s).name = s.name
  BY <1>1 DEF IsRuleset
<1>3. ASSUME NEW p \in Range(Phases)
      PROVE  /\ LoadedRules(rs[p]) /\ DOMAIN rs[p] = DOMAIN s.rules[p]
             /\ \A n \in DOMAIN s.rules[p] : s.rules[p][n] \in Range(s.rules[p])
                                             /\ rs[p][n] = Keyed(s.rules[p][n])
  <2> DEFINE old == s.rules[p]
  <2>1. old \in Seq(Range(old)) /\ \A x \in Range(old) : IsRule(x)
    BY DEF IsRuleset
  <2>2. rs[p] = [n \in DOMAIN old |-> Keyed(old[n])]
    BY DEF IsRuleset
  <2> HIDE DEF old, rs
  <2>3. Len(old) \in Nat /\ DOMAIN old = 1..Len(old)
    BY <2>1, LenProperties
  <2>4. \A n \in DOMAIN old : old[n] \in Range(old)
    BY DEF Range
  <2>5. DOMAIN rs[p] = DOMAIN old /\ Len(rs[p]) = Len(old)
        /\ \A n \in DOMAIN old : rs[p][n] = Keyed(old[n])
    BY <2>2, <2>3
  <2>6. LoadedRules(rs[p])
    BY <2>1, <2>3, <2>4, <2>5, KeyedIs DEF LoadedRules
  <2> QED BY <2>4, <2>5, <2>6 DEF old
<1> QED BY <1>2, <1>3 DEF IsRuleset

LEMMA RulesetsInit ==
    ASSUME NEW d \in Deployments, rulesets = [n \in DOMAIN d |-> Loaded(d[n])]
    PROVE  /\ RulesetsInv /\ DOMAIN rulesets = DOMAIN d
           /\ \A n \in DOMAIN d : rulesets[n] = Loaded(d[n]) /\ d[n] \in Range(d) /\ IsRuleset(d[n])
<1>1. d \in Seq(Range(d)) /\ d # <<>> /\ \A s \in Range(d) : IsRuleset(s)
  BY DeploymentsAssumption
<1>2. Len(d) \in Nat /\ DOMAIN d = 1..Len(d) /\ 1 \in DOMAIN d
  BY <1>1, LenProperties
<1>3. \A n \in DOMAIN d : d[n] \in Range(d)
  BY DEF Range
<1>4. DOMAIN rulesets = DOMAIN d /\ Len(rulesets) = Len(d)
  BY <1>2
<1>5. \A n \in DOMAIN d : IsRuleset(d[n])
  BY <1>1, <1>3
<1>6. ASSUME NEW n \in DOMAIN d, NEW m \in DOMAIN d, rulesets[n].name = rulesets[m].name
      PROVE  rulesets[n] = rulesets[m]
  <2>1. d[n].name = d[m].name
    BY <1>5, <1>6, LoadedIs
  <2> QED BY <1>3, <2>1, DeploymentsAssumption
<1>7. \A n \in DOMAIN d : /\ rulesets[n].name # NoKey
                          /\ \A p \in Range(Phases) : LoadedRules(rulesets[n].rules[p])
  BY <1>5, LoadedIs
<1> QED BY <1>2, <1>3, <1>4, <1>5, <1>6, <1>7 DEF RulesetsInv

LEMMA TypeInit == Init => TypeInv
<1> SUFFICES ASSUME Init PROVE TypeInv
  OBVIOUS
<1>1. PICK d \in Deployments : rulesets = [n \in DOMAIN d |-> Loaded(d[n])]
  BY DEF Init
<1>2. RulesetsInv
  BY <1>1, RulesetsInit
<1>3. request \in [Types -> Collection]
  BY RequestsAssumption DEF Init
<1>4. NoCollection \in Collection
  BY DEF NoCollection, Collection
<1>5. collections \in [Types -> Collection]
  BY <1>4 DEF Init
<1>6. DOMAIN target_update_map = {} /\ DOMAIN transform = {} /\ calls \in Seq(Range(calls)) /\ DOMAIN calls = {}
  BY DEF Init
<1>7. pc = "enter" /\ stage = 1 /\ r = 1 /\ offset = 1 /\ k = 1
  BY DEF Init
<1>8. active \in DOMAIN rulesets /\ 1 \in DOMAIN rulesets /\ 1 \in 1..active
  BY <1>2 DEF Init, RulesetsInv
<1> QED BY <1>2, <1>3, <1>5, <1>6, <1>7, <1>8 DEF TypeInv, AtRule, RulesetsInv

\* The rule at hand is one of a ruleset.
LEMMA AtRuleIs ==
    ASSUME TypeInv, AtRule
    PROVE  LoadedRules(rules) /\ LoadedRule(rule) /\ phase \in Range(Phases) /\ stage \in 1..4
<1>1. stage \in 1..4 /\ pc = "rules"
  BY DEF TypeInv, AtRule
<1>2. phase \in Range(Phases)
  BY <1>1, PhasesAre DEF phase
<1>3. LoadedRules(rules)
  BY <1>2 DEF TypeInv, RulesetsInv, rules
<1> QED BY <1>1, <1>2, <1>3 DEF LoadedRules, rule, AtRule

LEMMA VarIs ==
    ASSUME TypeInv, AtVar
    PROVE  IsVar(var)
<1>1. LoadedRule(rule) /\ k \in DOMAIN Vars
  BY AtRuleIs DEF AtVar
<1>2. IsVars(Vars)
  BY <1>1 DEF Vars, LoadedRule, TypeInv
<1> QED BY <1>1, <1>2 DEF IsVars, var

LEMMA FreshType ==
    ASSUME TypeInv, NEW v, IsVar(v), NEW t
    PROVE  DOMAIN Fresh(v, t) = ResultFields /\ Fresh(v, t).entries \subseteq Entry
<1> DEFINE p == Parsed(collections[v.type], v)
<1>1. collections[v.type] \in Collection
  BY DEF TypeInv, IsVar
<1>2. DOMAIN p = ResultFields /\ p.entries \subseteq Entry
  BY <1>1, ParsedType
<1> HIDE DEF p
<1>3. DOMAIN Transformed(p, t) = ResultFields /\ Transformed(p, t).entries = p.entries
  BY <1>2 DEF Transformed, ResultFields
<1> QED BY <1>2, <1>3 DEF Fresh, p

LEMMA ReadType ==
    ASSUME TypeInv, AtVar
    PROVE  Read.entries \subseteq Entry
BY VarIs, FreshType DEF Read, TypeInv

\* A match or its lack leads to a rule with a first variable, or out of the ruleset.
LEMMA MovesType ==
    ASSUME TypeInv, AtRule, NEW distance \in Nat, Moves(distance),
           UNCHANGED <<rulesets, active, stage, pc, r>>
    PROVE  offset' \in Nat /\ k' = 1 /\ (AtRule' => k' \in DOMAIN rule'.vars)
<1>1. /\ rules' = rules /\ phase' = phase
      /\ rule' = rules[offset'] /\ (AtRule' => offset' \in DOMAIN rules)
  BY DEF rules, phase, rule, AtRule
<1>2. LoadedRules(rules)
  BY AtRuleIs
<1>3. offset' \in Nat /\ k' = 1
  BY DEF Moves, TypeInv, Nil
<1>4. offset' \in DOMAIN rules => 1 \in DOMAIN rule'.vars
  BY <1>1, <1>2 DEF LoadedRules, LoadedRule
<1>5. AtRule' => k' \in DOMAIN rule'.vars
  BY <1>1, <1>3, <1>4
<1> HIDE DEF rule, AtRule
<1> QED BY <1>3, <1>5

\* So does the distance to the next rule, whether a rule matches or not.
LEMMA OffsetsAre ==
    ASSUME TypeInv, AtRule
    PROVE  Offsets(rules)[offset].match \in Nat /\ Offsets(rules)[offset].nomatch \in Nat
<1>1. LoadedRules(rules) /\ LoadedRule(rule) /\ offset \in DOMAIN rules
  BY AtRuleIs DEF AtRule
<1>2. Len(rules) \in Nat /\ offset \in 1..Len(rules) /\ rules[offset].skip \in Nat \cup {NoSkip}
  BY <1>1 DEF LoadedRules, LoadedRule, rule
<1>3. Offsets(rules)[offset] \in Offset
  BY <1>2, OffsetsType
<1> QED BY <1>3 DEF Offset

\* What is kept after a variable was read.
LEMMA BuildType ==
    ASSUME TypeInv, Build
    PROVE  \A key \in DOMAIN transform' : transform'[key].entries \subseteq Entry
<1>1. AtVar
  BY DEF Build
<1>2. Read.entries \subseteq Entry
  BY <1>1, ReadType
<1> DEFINE read == Read
           at == var.collection_key
<1>3. transform' = IF var.storage THEN transform
                   ELSE [key \in {at} \cup DOMAIN transform |-> IF key = at THEN read ELSE transform[key]]
  BY DEF Build
<1> HIDE DEF read, at
<1>4. \A key \in DOMAIN transform : transform[key].entries \subseteq Entry
  BY DEF TypeInv
<1> QED BY <1>2, <1>3, <1>4 DEF read

\* What a match writes is a collection.
LEMMA MatchType ==
    ASSUME TypeInv, Match
    PROVE  collections' \in [Types -> Collection]
<1>1. AtVar
  BY DEF Match, Build
<1>2. Read.entries \subseteq Entry
  BY <1>1, ReadType
<1> DEFINE values == IF rule.op_negated THEN {""}
                     ELSE IF var.length THEN {"count"}
                     ELSE {e.value : e \in Read.entries}
           Tx(v) == IF rule.op_negated THEN collections["TX"]
                    ELSE Tab({e \in collections["TX"].entries : e.key # "0"}
                                \cup {[key |-> "0", value |-> v]})
<1>3. PICK v \in values :
          collections' = [collections EXCEPT !["MATCHED_VAR"] = Str(v), !["TX"] = Tx(v)]
  BY DEF Match, TypeInv, Types
<1>4. v \in Text
  <2>1. \A e \in Read.entries : e.value \in Text
    BY <1>2 DEF Entry
  <2>2. "" \in Text /\ "count" \in Text
    BY DEF Text
  <2> QED BY <1>3, <2>1, <2>2
<1>5. Str(v) \in Collection
  <2>1. NoKey \in Text
    BY DEF Text
  <2>2. [key |-> NoKey, value |-> v] \in Entry
    BY <1>4, <2>1 DEF Entry
  <2> QED BY <2>2 DEF Str, Collection
<1>6. collections["TX"] \in Collection
  BY DEF TypeInv, Types
<1>7. Tx(v) \in Collection
  <2>1. "0" \in Text
    BY DEF Text
  <2> DEFINE old == {e \in collections["TX"].entries : e.key # "0"}
  <2>2. old \cup {[key |-> "0", value |-> v]} \subseteq Entry
    <3>1. [key |-> "0", value |-> v] \in Entry
      BY <1>4, <2>1 DEF Entry
    <3>2. old \subseteq Entry
      BY <1>6 DEF Collection
    <3> QED BY <3>1, <3>2
  <2> HIDE DEF old
  <2>3. \A es \in SUBSET Entry : Tab(es) \in Collection
    BY DEF Tab, Collection
  <2> QED BY <1>6, <2>2, <2>3 DEF old
<1> HIDE DEF Tx
<1> QED BY <1>3, <1>5, <1>7 DEF TypeInv, Types

\* The rules of a ruleset are at its places.
LEMMA RulesOfAre ==
    ASSUME RulesetsInv, NEW x \in UNION {RulesOf(s) : s \in Range(rulesets)}
    PROVE  \E n \in DOMAIN rulesets, p \in Range(Phases) : \E m \in DOMAIN rulesets[n].rules[p] :
               x = rulesets[n].rules[p][m] /\ LoadedRule(x)
<1>1. PICK n \in DOMAIN rulesets, p \in Range(Phases) : \E m \in DOMAIN rulesets[n].rules[p] :
          x = rulesets[n].rules[p][m]
  BY DEF RulesOf, Range
<1>2. LoadedRules(rulesets[n].rules[p])
  BY DEF RulesetsInv
<1> QED BY <1>1, <1>2 DEF LoadedRules

LEMMA SievesAre ==
    ASSUME NEW sieves \in Sieves
    PROVE  sieves \in Seq(Sieve)
BY SievesAssumption

LEMMA SievedVars ==
    ASSUME NEW vs, IsVars(vs), NEW sieves \in Sieves, NEW t
    PROVE  IsVars(Sieved(vs, sieves, t))
BY SievesAre, SievedIs DEF SievedBy, Like

\* The call that a sieve of a rule or a ruleset adds.
LEMMA CallsAre ==
    ASSUME TypeInv, NEW call, IsCall(call), calls' = Append(calls, call)
    PROVE  /\ Len(calls) \in Nat /\ DOMAIN calls = 1..Len(calls)
           /\ calls' \in Seq(Range(calls'))
           /\ Len(calls') = Len(calls) + 1 /\ DOMAIN calls' = 1..Len(calls')
           /\ \A c \in DOMAIN calls : calls'[c] = calls[c]
           /\ calls'[Len(calls')] = call
           /\ \A c \in DOMAIN calls' : IsCall(calls'[c])
<1> DEFINE S == Range(calls) \cup {call}
<1>1. calls \in Seq(S)
  <2>1. calls \in Seq(Range(calls)) /\ Range(calls) \subseteq S
    BY DEF TypeInv
  <2> HIDE DEF S
  <2> QED BY <2>1
<1>2. /\ calls' \in Seq(S) /\ Len(calls') = Len(calls) + 1
      /\ \A c \in 1..Len(calls) : calls'[c] = calls[c]
      /\ calls'[Len(calls) + 1] = call
  <2>1. call \in S
    OBVIOUS
  <2> HIDE DEF S
  <2> QED BY <1>1, <2>1, AppendProperties
<1>3. Len(calls) \in Nat /\ DOMAIN calls = 1..Len(calls) /\ DOMAIN calls' = 1..Len(calls')
  BY <1>1, <1>2, LenProperties
<1>4. calls' \in Seq(Range(calls'))
  <2>1. \A c \in 1..Len(calls') : calls'[c] \in Range(calls')
    BY <1>3 DEF Range
  <2> QED BY <1>2, <2>1
<1> QED BY <1>2, <1>3, <1>4 DEF TypeInv

LEMMA TypeSieveRule ==
    ASSUME TypeInv, NEW sieves \in Sieves, NEW id \in SieveIds, SieveRule(id, sieves)
    PROVE  TypeInv'
<1>1. PICK x \in UNION {RulesOf(s) : s \in Range(rulesets)} :
          target_update_map' = [y \in {id} \cup DOMAIN target_update_map |->
                                   IF y = id THEN Sieved(x.vars, sieves, x.transform)
                                   ELSE target_update_map[y]]
  BY DEF SieveRule
<1>2. IsVars(x.vars)
  BY RulesOfAre DEF LoadedRule, TypeInv
<1> DEFINE new == Sieved(x.vars, sieves, x.transform)
<1>3. IsVars(new)
  BY <1>2, SievedVars
<1>4. id \in RuleIds
  BY SievesAssumption
<1> HIDE DEF new
<1>5. \A y \in DOMAIN target_update_map' : y \in RuleIds /\ IsVars(target_update_map'[y])
  BY <1>1, <1>3, <1>4 DEF TypeInv, new
<1>6. UNCHANGED <<rulesets, active, request, stage, collections, transform, r, offset, k, pc>> /\ pc = "enter"
  BY DEF SieveRule, SieveCall
<1> DEFINE call == [ruleset |-> NoKey, id |-> id, sieves |-> sieves]
<1>7. IsCall(call)
  BY SievesAre DEF IsCall
<1>8. calls' = Append(calls, call)
  BY DEF SieveRule
<1> HIDE DEF call
<1>9. calls' \in Seq(Range(calls')) /\ \A c \in DOMAIN calls' : IsCall(calls'[c])
  BY <1>7, <1>8, CallsAre
<1> QED BY <1>5, <1>6, <1>9 DEF TypeInv, RulesetsInv, AtRule

\* Of the rules of a ruleset with an id there is one whose variables are copied.
LEMMA LastRuleIs ==
    ASSUME RulesetsInv, NEW n \in DOMAIN rulesets, NEW id, id \in {x.id : x \in RulesOf(rulesets[n])}
    PROVE  LET x == LastRule(rulesets[n], id)
           IN  /\ x \in RulesOf(rulesets[n]) /\ IsLastWithId(rulesets[n], id, x)
               /\ LoadedRule(x)
<1> DEFINE s == rulesets[n]
           x == LastRule(s, id)
<1>1. PICK p \in Range(Phases) : \E m \in DOMAIN s.rules[p] : s.rules[p][m].id = id
  BY DEF RulesOf, Range
<1> DEFINE rs == s.rules[p]
           S == {m \in DOMAIN rs : rs[m].id = id}
           N == Len(rs)
<1>2. LoadedRules(rs)
  BY DEF RulesetsInv
<1>3. N \in Nat /\ S \in SUBSET (1..N) /\ S # {}
  BY <1>1, <1>2 DEF LoadedRules
<1>4. PICK m \in S : \A j \in S : j <= m
  <2> HIDE DEF S, N
  <2> QED BY <1>3, LargestExists
<1>5. \A j \in (m + 1)..N : rs[j].id # id
  <2> SUFFICES ASSUME NEW j \in (m + 1)..N, rs[j].id = id PROVE FALSE
    OBVIOUS
  <2>1. j \in S
    BY <1>2, <1>3 DEF LoadedRules
  <2> QED BY <1>3, <1>4, <2>1
<1>6. IsLastWithId(s, id, rs[m]) /\ rs[m] \in RulesOf(s)
  <2> HIDE DEF s
  <2>1. rs[m] \in RulesOf(s)
    BY <1>4 DEF RulesOf, Range
  <2> QED BY <1>4, <1>5, <2>1 DEF IsLastWithId
<1>7. x \in RulesOf(s) /\ IsLastWithId(s, id, x)
  BY <1>6 DEF LastRule
<1>8. s \in Range(rulesets)
  BY DEF Range
<1>9. LoadedRule(x)
  <2>1. x \in UNION {RulesOf(t) : t \in Range(rulesets)}
    BY <1>7, <1>8
  <2> HIDE DEF x
  <2> QED BY <2>1, RulesOfAre
<1> QED BY <1>7, <1>9

LEMMA TypeSieveRuleset ==
    ASSUME TypeInv, NEW sieves \in Sieves, NEW s \in Range(rulesets), SieveRuleset(s, sieves)
    PROVE  TypeInv'
<1>1. PICK n \in DOMAIN rulesets : s = rulesets[n]
  BY DEF Range
<1> DEFINE ids == {x.id : x \in RulesOf(s)}
           New(id) == Sieved(LastRule(s, id).vars, sieves, LastRule(s, id).transform)
           Old(id) == Sieved(target_update_map[id], sieves, <<>>)
<1>2. target_update_map' = [id \in ids \cup DOMAIN target_update_map |->
                               IF id \in ids THEN New(id) ELSE Old(id)]
  BY DEF SieveRuleset
<1>3. ASSUME NEW id \in ids PROVE id \in RuleIds /\ IsVars(New(id))
  <2> DEFINE x == LastRule(s, id)
  <2>1. LoadedRule(x) /\ x.id = id
    BY <1>1, LastRuleIs DEF TypeInv, IsLastWithId
  <2> HIDE DEF x
  <2> QED BY <2>1, SievedVars DEF LoadedRule, x
<1>4. ASSUME NEW id \in DOMAIN target_update_map PROVE id \in RuleIds /\ IsVars(Old(id))
  BY SievedVars DEF TypeInv
<1> HIDE DEF ids, New, Old
<1>5. \A y \in DOMAIN target_update_map' : y \in RuleIds /\ IsVars(target_update_map'[y])
  BY <1>2, <1>3, <1>4
<1>6. UNCHANGED <<rulesets, active, request, stage, collections, transform, r, offset, k, pc>> /\ pc = "enter"
  BY DEF SieveRuleset, SieveCall
<1> DEFINE call == [ruleset |-> s.name, id |-> NoRuleId, sieves |-> sieves]
<1>7. IsCall(call)
  BY SievesAre DEF IsCall
<1>8. calls' = Append(calls, call)
  BY DEF SieveRuleset
<1> HIDE DEF call
<1>9. calls' \in Seq(Range(calls')) /\ \A c \in DOMAIN calls' : IsCall(calls'[c])
  BY <1>7, <1>8, CallsAre
<1> QED BY <1>5, <1>6, <1>9 DEF TypeInv, RulesetsInv, AtRule

LEMMA TypeExec == ASSUME TypeInv, Exec PROVE TypeInv'
<1>1. collections' = [t \in Types |-> IF t \in Provided(phase) THEN request[t] ELSE collections[t]]
  BY DEF Exec
<1>2. collections' \in [Types -> Collection]
  BY <1>1 DEF TypeInv
<1>3. \A n \in 1..Len(rulesets) : Len(rulesets[n].rules[phase]) \in Nat /\ LoadedRules(rulesets[n].rules[phase])
  <2>1. stage \in 1..4
    BY DEF TypeInv, Exec, Over
  <2>2. phase \in Range(Phases)
    BY <2>1, PhasesAre DEF phase
  <2> QED BY <2>2 DEF TypeInv, RulesetsInv, LoadedRules
<1>4. UNCHANGED <<rulesets, active, request, stage, target_update_map, transform, calls>>
      /\ pc' = "rules" /\ r' = 1 /\ offset' = 1 /\ k' = 1 /\ stage \in 1..4
  BY DEF Exec, Over, TypeInv
<1>5. AtRule' => k' \in DOMAIN rule'.vars
  <2>1. phase' = phase /\ rules' = rulesets[1].rules[phase]
    BY <1>4 DEF phase, rules
  <2>2. LoadedRules(rules')
    BY <1>3, <2>1 DEF TypeInv, RulesetsInv
  <2> QED BY <1>4, <2>2 DEF AtRule, rule, LoadedRules, LoadedRule
<1> HIDE DEF AtRule, rule
<1> QED BY <1>2, <1>4, <1>5 DEF TypeInv, RulesetsInv

\* Reading a variable changes only what is kept.
LEMMA BuildKeeps ==
    ASSUME TypeInv, Build
    PROVE  /\ AtVar /\ AtRule /\ pc = "rules" /\ stage \in 1..4
           /\ UNCHANGED <<rulesets, active, request, stage, pc, target_update_map, r, calls>>
BY DEF Build, AtVar, AtRule, TypeInv

LEMMA TypeMatch == ASSUME TypeInv, Match PROVE TypeInv'
<1>1. Build
  BY DEF Match
<1>2. /\ AtVar /\ AtRule /\ pc = "rules" /\ stage \in 1..4
      /\ UNCHANGED <<rulesets, active, request, stage, pc, target_update_map, r, calls>>
  BY <1>1, BuildKeeps
<1>3. collections' \in [Types -> Collection]
  BY MatchType
<1>4. \A key \in DOMAIN transform' : transform'[key].entries \subseteq Entry
  BY <1>1, BuildType
<1>5. offset' \in Nat /\ k' = 1 /\ (AtRule' => k' \in DOMAIN rule'.vars)
  <2>1. Moves(Offsets(rules)[offset].match) /\ Offsets(rules)[offset].match \in Nat
    BY <1>2, OffsetsAre DEF Match
  <2> QED BY <1>2, <2>1, MovesType
<1> HIDE DEF AtRule, rule
<1> QED BY <1>2, <1>3, <1>4, <1>5 DEF TypeInv, RulesetsInv

LEMMA TypeNoMatch == ASSUME TypeInv, NoMatch PROVE TypeInv'
<1>1. Build
  BY DEF NoMatch
<1>2. /\ AtVar /\ AtRule /\ pc = "rules" /\ stage \in 1..4
      /\ UNCHANGED <<rulesets, active, request, stage, pc, target_update_map, r, calls>>
  BY <1>1, BuildKeeps
<1>3. collections' = collections
  BY DEF NoMatch
<1>4. \A key \in DOMAIN transform' : transform'[key].entries \subseteq Entry
  BY <1>1, BuildType
<1>5. offset' \in Nat /\ k' \in Nat \ {0} /\ (AtRule' => k' \in DOMAIN rule'.vars)
  <2>1. CASE k < Len(rule.vars)
    <3>1. k' = k + 1 /\ offset' = offset
      BY <2>1 DEF NoMatch
    <3>2. rule' = rule
      BY <1>2, <3>1 DEF rule, rules, phase
    <3>3. LoadedRule(rule) /\ k \in Nat \ {0}
      BY <1>2, AtRuleIs DEF TypeInv
    <3>4. k + 1 \in DOMAIN rule.vars
      BY <2>1, <3>3 DEF LoadedRule, IsVars
    <3> HIDE DEF AtRule, rule
    <3> QED BY <3>1, <3>2, <3>3, <3>4 DEF TypeInv
  <2>2. CASE ~(k < Len(rule.vars))
    <3>1. Moves(Offsets(rules)[offset].nomatch) /\ Offsets(rules)[offset].nomatch \in Nat
      BY <1>2, <2>2, OffsetsAre DEF NoMatch
    <3>2. offset' \in Nat /\ k' = 1 /\ (AtRule' => k' \in DOMAIN rule'.vars)
      BY <1>2, <3>1, MovesType
    <3> QED BY <3>2
  <2> QED BY <2>1, <2>2
<1> HIDE DEF AtRule, rule
<1> QED BY <1>2, <1>3, <1>4, <1>5 DEF TypeInv, RulesetsInv

LEMMA TypeNextRuleset == ASSUME TypeInv, NextRuleset PROVE TypeInv'
<1>1. /\ UNCHANGED <<rulesets, active, request, stage, pc, collections, target_update_map, transform, calls>>
      /\ pc = "rules" /\ stage \in 1..4 /\ r' = r + 1 /\ offset' = 1 /\ k' = 1
  BY DEF NextRuleset, RulesetDone, TypeInv
<1>2. r' \in DOMAIN rulesets /\ r' \in 1..active
  BY <1>1 DEF NextRuleset, TypeInv, RulesetsInv
<1>3. AtRule' => k' \in DOMAIN rule'.vars
  <2>1. phase \in Range(Phases)
    BY <1>1, PhasesAre DEF phase
  <2>2. phase' = phase /\ rules' = rulesets[r'].rules[phase]
    BY <1>1 DEF phase, rules
  <2>3. LoadedRules(rules')
    BY <1>2, <2>1, <2>2 DEF TypeInv, RulesetsInv
  <2> QED BY <1>1, <2>3 DEF AtRule, rule, LoadedRules, LoadedRule
<1> HIDE DEF AtRule, rule
<1> QED BY <1>1, <1>2, <1>3 DEF TypeInv, RulesetsInv

LEMMA TypeExecEnds == ASSUME TypeInv, ExecEnds PROVE TypeInv'
<1>1. UNCHANGED <<rulesets, active, request, collections, target_update_map, transform, r, offset, k, calls>>
      /\ pc' = "enter" /\ stage' = stage + 1 /\ stage' \in 1..5
  BY DEF ExecEnds, RulesetDone, TypeInv
<1>2. ~AtRule'
  BY <1>1 DEF AtRule
<1> HIDE DEF AtRule, rule
<1> QED BY <1>1, <1>2 DEF TypeInv, RulesetsInv

\* An error changes nothing but pc.
LEMMA TypeDies ==
    ASSUME TypeInv, pc' = "failed",
           UNCHANGED <<rulesets, active, request, stage, collections, target_update_map, transform,
                       r, offset, k, calls>>
    PROVE  TypeInv'
<1>1. ~AtRule'
  BY DEF AtRule
<1> HIDE DEF AtRule, rule
<1> QED BY <1>1 DEF TypeInv, RulesetsInv

LEMMA TypeStutters ==
    ASSUME TypeInv, UNCHANGED vars
    PROVE  TypeInv'
<1>1. AtRule' = AtRule /\ rule' = rule
  BY DEF vars, AtRule, rule, rules, phase
<1> HIDE DEF AtRule, rule
<1> QED BY <1>1 DEF TypeInv, RulesetsInv, vars

LEMMA TypeStep == TypeInv /\ [Next]_vars => TypeInv'
<1> SUFFICES ASSUME TypeInv, [Next]_vars PROVE TypeInv'
  OBVIOUS
<1>1. ASSUME NEW sieves \in Sieves, NEW id \in SieveIds, SieveRule(id, sieves) PROVE TypeInv'
  BY <1>1, TypeSieveRule
<1>2. ASSUME NEW sieves \in Sieves, NEW id \in SieveIds, SieveRuleDies(id, sieves) PROVE TypeInv'
  BY <1>2, TypeDies DEF SieveRuleDies, SieveCall
<1>3. ASSUME NEW sieves \in Sieves, NEW s \in Range(rulesets), SieveRuleset(s, sieves) PROVE TypeInv'
  BY <1>3, TypeSieveRuleset
<1>4. CASE Exec
  BY <1>4, TypeExec
<1>5. CASE Match
  BY <1>5, TypeMatch
<1>6. CASE NoMatch
  BY <1>6, TypeNoMatch
<1>7. CASE VarDies
  BY <1>7, TypeDies DEF VarDies
<1>8. CASE NextRuleset
  BY <1>8, TypeNextRuleset
<1>9. CASE ExecEnds
  BY <1>9, TypeExecEnds
<1>10. CASE Finished
  BY <1>10, TypeStutters DEF Finished
<1>11. CASE UNCHANGED vars
  BY <1>11, TypeStutters
<1> QED BY <1>1, <1>2, <1>3, <1>4, <1>5, <1>6, <1>7, <1>8, <1>9, <1>10, <1>11 DEF Next

-----------------------------------------------------------------------------

\* Type correctness: whatever the rulesets, responses and sieves, the rule and the
\* variable at hand are there, a ruleset's run is in one of the active rulesets, and
\* what is kept is made of entries of collections.
THEOREM TypeCorrect == Spec => []TypeOK
<1>1. Spec => []TypeInv
  BY TypeInit, TypeStep, PTL DEF Spec
<1>2. TypeInv => TypeOK
  BY DEF TypeInv, TypeOK, Collection
<1> QED BY <1>1, <1>2, PTL

-----------------------------------------------------------------------------
(* What the map has for the rules that calls name.                           *)

LEMMA PlaceOf ==
    ASSUME NEW x \in DOMAIN rulesets, NEW p \in Range(Phases),
           NEW m \in DOMAIN rulesets[x].rules[p]
    PROVE  /\ <<x, p, m>> \in Places /\ <<x, p, m>>[1] = x
           /\ At(<<x, p, m>>) = rulesets[x].rules[p][m]
<1> DEFINE these == {x} \X {p} \X DOMAIN rulesets[x].rules[p]
<1>1. <<x, p, m>> \in these
  OBVIOUS
<1>2. these \in {{y} \X {q} \X DOMAIN rulesets[y].rules[q] :
                    y \in DOMAIN rulesets, q \in Range(Phases)}
  OBVIOUS
<1> HIDE DEF these
<1>3. <<x, p, m>> \in Places
  BY <1>1, <1>2 DEF Places
<1> QED BY <1>3 DEF At

LEMMA PlaceIs ==
    ASSUME NEW place \in Places
    PROVE  /\ place[1] \in DOMAIN rulesets /\ place[2] \in Range(Phases)
           /\ place[3] \in DOMAIN rulesets[place[1]].rules[place[2]]
           /\ At(place) = rulesets[place[1]].rules[place[2]][place[3]]
           /\ At(place) \in RulesOf(rulesets[place[1]])
BY DEF Places, At, RulesOf, Range

LEMMA PlacesKeep ==
    ASSUME rulesets' = rulesets
    PROVE  /\ Places' = Places
           /\ \A place : At(place)' = At(place)
           /\ \A call, place : Names(call, place)' = Names(call, place)
BY DEF Places, At, Names

LEMMA MapInit == Init => MapInv
BY DEF Init, MapInv

\* Calls that name no rule together name none without the last of them.
LEMMA CallsBefore ==
    ASSUME TypeInv, rulesets' = rulesets, NEW call, IsCall(call), calls' = Append(calls, call)
    PROVE  /\ Orderly' => Orderly
           /\ SievesApart' => SievesApart
<1>1. /\ Len(calls) \in Nat /\ DOMAIN calls = 1..Len(calls) /\ Len(calls') = Len(calls) + 1
      /\ DOMAIN calls' = 1..Len(calls')
      /\ \A c \in DOMAIN calls : calls'[c] = calls[c]
  BY CallsAre
<1>2. Orderly' => Orderly
  BY <1>1 DEF Orderly
<1>3. \A c \in Range(calls) : c \in Range(calls')
  BY <1>1 DEF Range
<1>4. SievesApart' => SievesApart
  BY <1>3, PlacesKeep DEF SievesApart
<1> QED BY <1>2, <1>4

\* Two places whose rules share an id, or the number of it, are one where a call
\* names either.
LEMMA ApartAre ==
    ASSUME SievesApart, NEW c \in DOMAIN calls, NEW place \in Places, NEW other \in Places,
           Names(calls[c], place), At(place).id.n = At(other).id.n
    PROVE  place = other
<1>1. calls[c] \in Range(calls)
  BY DEF Range
<1> QED BY <1>1 DEF SievesApart

LEMMA MapSieveRule ==
    ASSUME TypeInv, MapInv, NEW sieves \in Sieves, NEW id \in SieveIds, SieveRule(id, sieves)
    PROVE  MapInv'
<1> DEFINE call == [ruleset |-> NoKey, id |-> id, sieves |-> sieves]
           N == Len(calls')
<1>1. IsCall(call) /\ calls' = Append(calls, call) /\ rulesets' = rulesets
  BY SievesAre DEF IsCall, SieveRule, SieveCall
<1>2. /\ Len(calls) \in Nat /\ DOMAIN calls = 1..Len(calls) /\ N = Len(calls) + 1
      /\ DOMAIN calls' = 1..N /\ N \in DOMAIN calls'
      /\ \A c \in DOMAIN calls : calls'[c] = calls[c]
      /\ calls'[N] = call
  <2> HIDE DEF call
  <2> QED BY <1>1, CallsAre
<1> HIDE DEF N
<1>3. PICK x \in UNION {RulesOf(s) : s \in Range(rulesets)} :
          /\ FirstWithId(id, x)
          /\ target_update_map' = [y \in {id} \cup DOMAIN target_update_map |->
                                      IF y = id THEN Sieved(x.vars, sieves, x.transform)
                                      ELSE target_update_map[y]]
  BY DEF SieveRule
<1> DEFINE new == Sieved(x.vars, sieves, x.transform)
<1>4. /\ DOMAIN target_update_map' = {id} \cup DOMAIN target_update_map
      /\ target_update_map'[id] = new
      /\ \A y \in DOMAIN target_update_map : y # id => target_update_map'[y] = target_update_map[y]
      /\ id \notin DOMAIN target_update_map
  <2> HIDE DEF new
  <2> QED BY <1>3 DEF SieveRule, new
<1>5. /\ Places' = Places /\ \A place : At(place)' = At(place)
      /\ \A c, place : Names(c, place)' = Names(c, place)
  BY <1>1, PlacesKeep
<1>6. \A place : Names(calls'[N], place) = (id = At(place).id)
  BY <1>2 DEF Names
<1>7. \A c \in DOMAIN calls' : c \in DOMAIN calls \/ c = N
  BY <1>2
<1>8. \A place \in Places, c \in DOMAIN calls :
          Names(calls'[c], place) => At(place).id \in DOMAIN target_update_map
  BY <1>2 DEF MapInv
<1>9. ASSUME NEW place \in Places, NEW c \in DOMAIN calls', Names(calls'[c], place)
      PROVE  At(place).id \in DOMAIN target_update_map'
  BY <1>4, <1>6, <1>7, <1>8, <1>9
<1>10. ASSUME Orderly', SievesApart', NEW place \in Places, At(place).id \in DOMAIN target_update_map'
       PROVE  \E c \in DOMAIN calls' :
                  /\ Names(calls'[c], place)
                  /\ \A d \in DOMAIN calls' : Names(calls'[d], place) => d = c
                  /\ target_update_map'[At(place).id] =
                         Sieved(At(place).vars, calls'[c].sieves, At(place).transform)
  <2>1. CASE At(place).id = id
    <3>1. N \in DOMAIN calls' /\ Names(calls'[N], place)
      BY <1>2, <1>6, <2>1
    <3>2. \A d \in DOMAIN calls' : Names(calls'[d], place) => d = N
      BY <1>4, <1>7, <1>8, <2>1
    <3>3. x = At(place)
      <4>1. PICK n \in DOMAIN rulesets, p \in Range(Phases) : \E m \in DOMAIN rulesets[n].rules[p] :
                x = rulesets[n].rules[p][m] /\ x.id.n = id.n
        BY <1>3 DEF FirstWithId, Range
      <4>2. PICK m \in DOMAIN rulesets[n].rules[p] : x = rulesets[n].rules[p][m] /\ x.id.n = id.n
        BY <4>1
      <4> DEFINE other == <<n, p, m>>
      <4>3. other \in Places /\ At(other) = x
        BY <4>2, PlaceOf
      <4> HIDE DEF other
      <4>4. calls'[N] \in Range(calls')
        BY <3>1 DEF Range
      <4>5. place = other
        BY <1>5, <1>10, <2>1, <3>1, <4>2, <4>3, <4>4 DEF SievesApart
      <4> QED BY <4>3, <4>5
    <3>4. target_update_map'[At(place).id] = Sieved(At(place).vars, calls'[N].sieves, At(place).transform)
      BY <1>2, <1>4, <2>1, <3>3
    <3> QED BY <3>1, <3>2, <3>4
  <2>2. CASE At(place).id # id
    <3>1. At(place).id \in DOMAIN target_update_map
      BY <1>4, <1>10, <2>2
    <3>2. Orderly /\ SievesApart
      BY <1>1, <1>10, CallsBefore
    <3>3. PICK c \in DOMAIN calls :
              /\ Names(calls[c], place)
              /\ \A d \in DOMAIN calls : Names(calls[d], place) => d = c
              /\ target_update_map[At(place).id] =
                     Sieved(At(place).vars, calls[c].sieves, At(place).transform)
      BY <3>1, <3>2 DEF MapInv
    <3>4. c \in DOMAIN calls' /\ calls'[c] = calls[c]
      BY <1>2
    <3>5. \A d \in DOMAIN calls' : Names(calls'[d], place) => d = c
      BY <1>2, <1>6, <1>7, <2>2, <3>3
    <3>6. target_update_map'[At(place).id] = target_update_map[At(place).id]
      BY <1>4, <2>2, <3>1
    <3> QED BY <3>3, <3>4, <3>5, <3>6
  <2> QED BY <2>1, <2>2
<1>11. DOMAIN calls' # {}
  BY <1>2
<1> QED BY <1>5, <1>9, <1>10, <1>11 DEF MapInv

LEMMA MapSieveRuleset ==
    ASSUME TypeInv, MapInv, NEW sieves \in Sieves, NEW s \in Range(rulesets),
           SieveRuleset(s, sieves)
    PROVE  MapInv'
<1> DEFINE call == [ruleset |-> s.name, id |-> NoRuleId, sieves |-> sieves]
           N == Len(calls')
           ids == {x.id : x \in RulesOf(s)}
           New(id) == Sieved(LastRule(s, id).vars, sieves, LastRule(s, id).transform)
           Old(id) == Sieved(target_update_map[id], sieves, <<>>)
<1>1. IsCall(call) /\ calls' = Append(calls, call) /\ rulesets' = rulesets
  BY SievesAre DEF IsCall, SieveRuleset, SieveCall
<1>2. /\ Len(calls) \in Nat /\ DOMAIN calls = 1..Len(calls) /\ N = Len(calls) + 1
      /\ DOMAIN calls' = 1..N /\ N \in DOMAIN calls'
      /\ \A c \in DOMAIN calls : calls'[c] = calls[c]
      /\ calls'[N] = call
  <2> HIDE DEF call
  <2> QED BY <1>1, CallsAre
<1> HIDE DEF N
<1>3. PICK n \in DOMAIN rulesets : s = rulesets[n]
  BY DEF Range
<1>4. target_update_map' = [id \in ids \cup DOMAIN target_update_map |->
                               IF id \in ids THEN New(id) ELSE Old(id)]
  BY DEF SieveRuleset
<1>5. /\ DOMAIN target_update_map' = ids \cup DOMAIN target_update_map
      /\ \A id \in ids : target_update_map'[id] = New(id)
  <2> HIDE DEF ids, New, Old
  <2> QED BY <1>4
<1>6. /\ Places' = Places /\ \A place : At(place)' = At(place)
      /\ \A c, place : Names(c, place)' = Names(c, place)
  BY <1>1, PlacesKeep
<1>7. s.name # NoKey
  BY <1>3 DEF TypeInv, RulesetsInv
<1>8. \A place : Names(calls'[N], place) = (s.name = rulesets[place[1]].name)
  BY <1>2, <1>7 DEF Names
<1>9. \A c \in DOMAIN calls' : c \in DOMAIN calls \/ c = N
  BY <1>2
<1>10. ASSUME NEW place \in Places, Names(calls'[N], place)
       PROVE  At(place).id \in ids
  <2>1. rulesets[place[1]] = s
    BY <1>3, <1>8, <1>10, PlaceIs DEF TypeInv, RulesetsInv
  <2> QED BY <2>1, PlaceIs
<1>11. ASSUME NEW place \in Places, NEW c \in DOMAIN calls', Names(calls'[c], place)
       PROVE  At(place).id \in DOMAIN target_update_map'
  <2>1. CASE c = N
    BY <1>5, <1>10, <1>11, <2>1
  <2>2. CASE c \in DOMAIN calls
    <3>1. At(place).id \in DOMAIN target_update_map
      BY <1>2, <1>11, <2>2 DEF MapInv
    <3> QED BY <1>5, <3>1
  <2> QED BY <1>9, <2>1, <2>2
<1>12. ASSUME Orderly', SievesApart', NEW place \in Places, At(place).id \in DOMAIN target_update_map'
       PROVE  \E c \in DOMAIN calls' :
                  /\ Names(calls'[c], place)
                  /\ \A d \in DOMAIN calls' : Names(calls'[d], place) => d = c
                  /\ target_update_map'[At(place).id] =
                         Sieved(At(place).vars, calls'[c].sieves, At(place).transform)
  <2>1. N = 1 /\ DOMAIN target_update_map = {}
    <3>1. calls'[N].ruleset # NoKey
      BY <1>2, <1>7
    <3>2. ~(N \in 2..N)
      <4>1. \A m \in 2..N : calls'[m].ruleset = NoKey
        BY <1>12 DEF Orderly, N
      <4> QED BY <3>1, <4>1
    <3>3. N = 1
      BY <1>2, <3>2
    <3>4. DOMAIN calls = {}
      BY <1>2, <3>3
    <3> QED BY <3>3, <3>4 DEF MapInv
  <2> DEFINE id == At(place).id
             x == LastRule(s, id)
  <2>2. id \in ids
    BY <1>5, <1>12, <2>1
  <2>3. x \in RulesOf(s) /\ IsLastWithId(s, id, x)
    BY <1>3, <2>2, LastRuleIs DEF TypeInv
  <2>4. PICK p \in Range(Phases) : \E m \in DOMAIN s.rules[p] : x = s.rules[p][m] /\ x.id = id
    BY <2>3 DEF IsLastWithId
  <2>5. PICK m \in DOMAIN rulesets[n].rules[p] : x = rulesets[n].rules[p][m] /\ x.id = id
    BY <1>3, <2>4
  <2> DEFINE other == <<n, p, m>>
  <2>6. other \in Places /\ At(other) = x /\ other[1] = n
    BY <2>5, PlaceOf
  <2> HIDE DEF other, x, id
  <2>7. Names(calls'[N], other) /\ N \in DOMAIN calls'
    BY <1>2, <1>3, <1>8, <2>6
  <2>8. place = other
    <3>1. calls'[N] \in Range(calls')
      BY <2>7 DEF Range
    <3> QED BY <1>6, <1>12, <2>5, <2>6, <2>7, <3>1 DEF SievesApart, id
  <2>9. \A d \in DOMAIN calls' : d = N
    BY <1>2, <2>1
  <2>10. target_update_map'[id] = Sieved(x.vars, calls'[N].sieves, x.transform)
    <3>1. calls'[N].sieves = sieves
      BY <1>2
    <3> QED BY <1>5, <2>2, <3>1 DEF x
  <2> QED BY <2>6, <2>7, <2>8, <2>9, <2>10 DEF id
<1>13. DOMAIN calls' # {}
  BY <1>2
<1> QED BY <1>6, <1>11, <1>12, <1>13 DEF MapInv

\* Nothing else changes the map, or is a call.
LEMMA MapKeeps ==
    ASSUME MapInv, UNCHANGED <<rulesets, active, target_update_map, calls>>
    PROVE  MapInv'
BY PlacesKeep DEF MapInv, Orderly, SievesApart

LEMMA MapStep == TypeInv /\ MapInv /\ [Next]_vars => MapInv'
<1> SUFFICES ASSUME TypeInv, MapInv, [Next]_vars PROVE MapInv'
  OBVIOUS
<1>1. ASSUME NEW sieves \in Sieves, NEW id \in SieveIds, SieveRule(id, sieves) PROVE MapInv'
  BY <1>1, MapSieveRule
<1>2. ASSUME NEW sieves \in Sieves, NEW s \in Range(rulesets), SieveRuleset(s, sieves) PROVE MapInv'
  BY <1>2, MapSieveRuleset
<1>3. ASSUME NEW sieves \in Sieves, NEW id \in SieveIds, SieveRuleDies(id, sieves) PROVE MapInv'
  BY <1>3, MapKeeps DEF SieveRuleDies, SieveCall
<1>4. ASSUME Exec \/ Match \/ NoMatch \/ VarDies \/ NextRuleset \/ ExecEnds \/ Finished \/ UNCHANGED vars
      PROVE  MapInv'
  <2>1. UNCHANGED <<rulesets, active, target_update_map, calls>>
    BY <1>4 DEF Exec, Match, NoMatch, Build, VarDies, NextRuleset, ExecEnds, Finished, vars
  <2> QED BY <2>1, MapKeeps
<1> QED BY <1>1, <1>2, <1>3, <1>4 DEF Next

-----------------------------------------------------------------------------
(* What is kept of the collections.                                          *)

LEMMA InTimeInit == RulesInTime /\ Init => VarsInTime
<1> SUFFICES ASSUME RulesInTime, Init PROVE VarsInTime
  OBVIOUS
<1>1. PICK d \in Deployments : rulesets = [n \in DOMAIN d |-> Loaded(d[n])]
  BY DEF Init
<1>2. ASSUME NEW i \in DOMAIN rulesets, NEW n \in DOMAIN Phases,
             NEW m \in DOMAIN rulesets[i].rules[Phases[n]],
             NEW j \in DOMAIN rulesets[i].rules[Phases[n]][m].vars
      PROVE  ReadInTime(rulesets[i].rules[Phases[n]][m].vars[j], n)
  <2> DEFINE s == d[i]
             p == Phases[n]
             x == s.rules[p][m]
             y == rulesets[i].rules[p][m]
  <2>1. i \in DOMAIN d /\ rulesets[i] = Loaded(s) /\ s \in Range(d) /\ IsRuleset(s)
    BY <1>1, RulesetsInit
  <2>2. p \in Range(Phases)
    BY PhasesAre
  <2>3. m \in DOMAIN s.rules[p] /\ x \in Range(s.rules[p]) /\ y = Keyed(x)
    BY <2>1, <2>2, LoadedIs
  <2>4. IsRule(x)
    BY <2>1, <2>2, <2>3 DEF IsRuleset
  <2>5. j \in DOMAIN x.vars /\ y.vars[j].type = x.vars[j].type /\ y.vars[j].storage = x.vars[j].storage
    <3> HIDE DEF x, y
    <3>1. j \in DOMAIN y.vars
      BY DEF y
    <3> QED BY <2>3, <2>4, <3>1, KeyedIs
  <2>6. ReadInTime(x.vars[j], n)
    BY <2>1, <2>3, <2>5 DEF RulesInTime
  <2>7. ReadInTime(y.vars[j], n)
    <3> HIDE DEF x, y
    <3> QED BY <2>5, <2>6 DEF ReadInTime
  <2> QED BY <2>7
<1> QED BY <1>2 DEF VarsInTime

LEMMA RulesetsKept == [Next]_vars => rulesets' = rulesets
BY DEF Next, vars, SieveRule, SieveRuleDies, SieveRuleset, SieveCall, Exec, Match, NoMatch,
       Build, VarDies, NextRuleset, ExecEnds, Finished

LEMMA InTimeStep == VarsInTime /\ [Next]_vars => VarsInTime'
BY RulesetsKept DEF VarsInTime

LEMMA ProvidedIs ==
    /\ ProvidedBy(0) = {}
    /\ \A n \in 1..4 : /\ ProvidedBy(n - 1) \subseteq ProvidedBy(n)
                       /\ \A t \in ProvidedBy(n - 1) : t \notin Provided(Phases[n])
<1>1. ProvidedBy(0) = {}
  BY DEF ProvidedBy
<1>2. ASSUME NEW n \in 1..4
      PROVE  ProvidedBy(n) = ProvidedBy(n - 1) \cup Provided(Phases[n])
  <2> DEFINE P(m) == Provided(Phases[m])
  <2>1. \A m : m \in 1..n <=> m \in 1..(n - 1) \/ m = n
    OBVIOUS
  <2> HIDE DEF P
  <2>2. UNION {P(m) : m \in 1..n} = (UNION {P(m) : m \in 1..(n - 1)}) \cup P(n)
    BY <2>1
  <2> QED BY <2>2 DEF ProvidedBy, P
<1>3. /\ Provided(Phases[1]) = {"REQUEST_ARGS", "REQUEST_URI", "TX"}
      /\ Provided(Phases[2]) = {"RESPONSE_HEADERS"}
      /\ Provided(Phases[3]) = {} /\ Provided(Phases[4]) = {}
  BY DEF Provided, Phases
<1>4. ProvidedBy(1) = {"REQUEST_ARGS", "REQUEST_URI", "TX"}
  BY <1>1, <1>2, <1>3
<1>5. ASSUME NEW n \in 1..4, NEW t \in ProvidedBy(n - 1) PROVE t \notin Provided(Phases[n])
  <2>1. CASE n = 1
    BY <1>1, <1>5, <2>1
  <2>2. CASE n = 2
    BY <1>3, <1>4, <1>5, <2>2
  <2>3. CASE n \in {3, 4}
    BY <1>3, <2>3
  <2> QED BY <2>1, <2>2, <2>3
<1> QED BY <1>1, <1>2, <1>5

\* The rule at hand is at a place.
LEMMA HereIs ==
    ASSUME TypeInv, AtRule
    PROVE  Here \in Places /\ At(Here) = rule /\ Here[1] = r
<1>1. phase \in Range(Phases) /\ r \in DOMAIN rulesets /\ offset \in DOMAIN rulesets[r].rules[phase]
  BY AtRuleIs DEF AtRule, TypeInv, rules
<1> QED BY <1>1, PlaceOf DEF Here, rule, rules

\* A sieved rule's variables are its own after one call that names it.
LEMMA SievedHere ==
    ASSUME TypeInv, MapInv, AtRule, Orderly, SievesApart, rule.id \in DOMAIN target_update_map
    PROVE  \E c \in DOMAIN calls :
               /\ Naming(calls[c]) /\ calls[c].sieves \in Seq(Sieve)
               /\ \A d \in DOMAIN calls : Naming(calls[d]) => d = c
               /\ Vars = Sieved(rule.vars, calls[c].sieves, rule.transform)
               /\ SievedBy(rule.vars, Vars, calls[c].sieves, Len(calls[c].sieves), rule.transform)
<1>1. Here \in Places /\ At(Here) = rule
  BY HereIs
<1>2. PICK c \in DOMAIN calls :
          /\ Names(calls[c], Here)
          /\ \A d \in DOMAIN calls : Names(calls[d], Here) => d = c
          /\ target_update_map[rule.id] = Sieved(rule.vars, calls[c].sieves, rule.transform)
  BY <1>1 DEF MapInv
<1>3. calls[c].sieves \in Seq(Sieve)
  BY DEF TypeInv, IsCall
<1>4. Vars = Sieved(rule.vars, calls[c].sieves, rule.transform)
  BY <1>2 DEF Vars
<1>5. IsVars(rule.vars)
  BY AtRuleIs DEF LoadedRule
<1>6. SievedBy(rule.vars, Vars, calls[c].sieves, Len(calls[c].sieves), rule.transform)
  BY <1>3, <1>4, <1>5, SievedIs
<1> QED BY <1>2, <1>3, <1>4, <1>6 DEF Naming

\* The variables at hand are like the rule's own, sieved or not, and have their keys.
LEMMA VarsAtHand ==
    ASSUME TypeInv, MapInv, AtRule, Orderly, SievesApart
    PROVE  Like(rule.vars, Vars) /\ AreKeyed(Vars, rule.transform)
<1>1. LoadedRule(rule)
  BY AtRuleIs
<1>2. CASE rule.id \in DOMAIN target_update_map
  BY <1>1, <1>2, SievedHere DEF LoadedRule, SievedBy
<1>3. CASE rule.id \notin DOMAIN target_update_map
  <2>1. Vars = rule.vars
    BY <1>3 DEF Vars
  <2> QED BY <1>1, <2>1 DEF LoadedRule, Like, Same
<1> QED BY <1>2, <1>3

LEMMA VarAtHand ==
    ASSUME TypeInv, MapInv, VarsInTime, AtVar, Orderly, SievesApart
    PROVE  /\ var.collection_key = CollectionKey(var, rule.transform)
           /\ ReadInTime(var, stage)
<1>1. AtRule /\ k \in DOMAIN Vars /\ Like(rule.vars, Vars) /\ AreKeyed(Vars, rule.transform)
  BY VarsAtHand DEF AtVar
<1>2. Same(rule.vars[k], var) /\ k \in DOMAIN rule.vars
  BY <1>1 DEF Like, var
<1>3. r \in DOMAIN rulesets /\ stage \in DOMAIN Phases /\ offset \in DOMAIN rulesets[r].rules[Phases[stage]]
  BY <1>1, AtRuleIs, PhasesAre DEF TypeInv, AtRule, rules, phase
<1>4. rule = rulesets[r].rules[Phases[stage]][offset]
  BY DEF rule, rules, phase
<1>5. ReadInTime(rule.vars[k], stage)
  <2> HIDE DEF rule
  <2> QED BY <1>2, <1>3, <1>4 DEF VarsInTime
<1>6. ReadInTime(var, stage)
  BY <1>2, <1>5 DEF ReadInTime, Same
<1> QED BY <1>1, <1>6 DEF AreKeyed, var

\* A key has all that what is read of a variable depends on.
LEMMA FreshOfKey ==
    ASSUME NEW v, IsVar(v), ~v.storage, NEW t
    PROVE  /\ Fresh(v, t) = OfKey(CollectionKey(v, t))
           /\ CollectionKey(v, t)[1] = v.type
<1> DEFINE key == CollectionKey(v, t)
           w == VarOf(key)
           c == collections[v.type]
<1>1. key[1] = v.type /\ key[5] = t
  BY DEF CollectionKey
<1>2. w.parse = v.parse /\ w.arg = v.arg /\ w.ignore = v.ignore
  BY DEF CollectionKey, VarOf
<1> HIDE DEF key, w
<1>3. \A es : Selected(es, w) = Selected(es, v)
  BY <1>2 DEF Selected
<1>4. Parsed(c, w) = Parsed(c, v)
  BY <1>2, <1>3 DEF Parsed
<1> QED BY <1>1, <1>4 DEF Fresh, OfKey, key, w

\* What a rule is shown of a variable is what it would read itself.
LEMMA ReadIsFresh ==
    ASSUME TypeInv, MapInv, VarsInTime, CacheInv, AtVar, Orderly, SievesApart,
           var.type # "MATCHED_VAR"
    PROVE  Read = Fresh(var, rule.transform)
<1> DEFINE key == var.collection_key
<1>1. CASE ~var.storage /\ key \in DOMAIN transform
  <2>1. key = CollectionKey(var, rule.transform)
    BY VarAtHand
  <2>2. Fresh(var, rule.transform) = OfKey(key) /\ key[1] = var.type
    BY <1>1, <2>1, VarIs, FreshOfKey
  <2>3. transform[key] = OfKey(key)
    BY <1>1, <2>2 DEF CacheInv, AtVar, AtRule
  <2> QED BY <1>1, <2>2, <2>3 DEF Read
<1>2. CASE ~(~var.storage /\ key \in DOMAIN transform)
  BY <1>2 DEF Read
<1> QED BY <1>1, <1>2

\* What is kept stays right as long as its collection stays as it is.
LEMMA OfKeyKeeps ==
    ASSUME NEW key, collections'[key[1]] = collections[key[1]]
    PROVE  OfKey(key)' = OfKey(key)
BY DEF OfKey

LEMMA CacheInit == Init => CacheInv
BY DEF Init, CacheInv

LEMMA CacheSieve ==
    ASSUME TypeInv, CacheInv, UNCHANGED <<rulesets, active, pc, stage, collections, transform>>,
           NEW call, IsCall(call), calls' = Append(calls, call)
    PROVE  CacheInv'
<1>1. (Orderly' => Orderly) /\ (SievesApart' => SievesApart)
  BY CallsBefore
<1>2. \A key : OfKey(key)' = OfKey(key)
  BY OfKeyKeeps
<1> HIDE DEF Orderly, SievesApart
<1> QED BY <1>1, <1>2 DEF CacheInv

\* The calls and the rulesets alone tell whether they are orderly and apart.
LEMMA ApartKeeps ==
    ASSUME UNCHANGED <<rulesets, active, calls>>
    PROVE  Orderly' = Orderly /\ SievesApart' = SievesApart
BY PlacesKeep DEF Orderly, SievesApart

LEMMA CacheExec == ASSUME TypeInv, CacheInv, Exec PROVE CacheInv'
<1>1. /\ pc = "enter" /\ pc' = "rules" /\ stage' = stage /\ stage \in 1..4
      /\ UNCHANGED <<rulesets, active, calls, transform>>
      /\ collections' = [t \in Types |-> IF t \in Provided(phase) THEN request[t] ELSE collections[t]]
  BY DEF Exec, Over, TypeInv
<1>2. SUFFICES ASSUME Orderly', SievesApart', NEW key \in DOMAIN transform, key[1] # "MATCHED_VAR"
               PROVE  /\ key[1] \in ProvidedBy(stage) \ {"TX"}
                      /\ transform[key] = OfKey(key)'
  BY <1>1 DEF CacheInv
<1>3. key[1] \in ProvidedBy(stage - 1) \ {"TX"} /\ transform[key] = OfKey(key)
  BY <1>1, <1>2, ApartKeeps DEF CacheInv
<1>4. key[1] \in ProvidedBy(stage) /\ key[1] \notin Provided(phase)
  BY <1>1, <1>3, ProvidedIs DEF phase
<1>5. key[1] \in Types
  <2>1. \A p : Provided(p) \subseteq Types
    BY DEF Provided, Types
  <2> QED BY <1>4, <2>1 DEF ProvidedBy
<1>6. collections'[key[1]] = collections[key[1]]
  BY <1>1, <1>4, <1>5
<1> QED BY <1>3, <1>4, <1>6, OfKeyKeeps

\* Reading adds what the variable's key gives.
LEMMA CacheBuild ==
    ASSUME TypeInv, MapInv, VarsInTime, CacheInv, Build,
           \A t \in Types \ {"TX", "MATCHED_VAR"} : collections'[t] = collections[t]
    PROVE  CacheInv'
<1>1. /\ AtVar /\ AtRule /\ pc = "rules" /\ stage \in 1..4
      /\ UNCHANGED <<rulesets, active, stage, pc, calls>>
  BY BuildKeeps
<1>2. SUFFICES ASSUME Orderly', SievesApart', NEW key \in DOMAIN transform', key[1] # "MATCHED_VAR"
               PROVE  /\ key[1] \in ProvidedBy(stage) \ {"TX"}
                      /\ transform'[key] = OfKey(key)'
  BY <1>1 DEF CacheInv
<1>3. Orderly /\ SievesApart
  BY <1>1, <1>2, ApartKeeps
<1> DEFINE at == var.collection_key
           read == Read
<1>4. transform' = IF var.storage THEN transform
                   ELSE [x \in {at} \cup DOMAIN transform |-> IF x = at THEN read ELSE transform[x]]
  BY DEF Build
<1>5. key[1] \in ProvidedBy(stage) \ {"TX"} /\ transform'[key] = OfKey(key)
  <2>1. CASE ~var.storage /\ key = at
    <3>1. at = CollectionKey(var, rule.transform) /\ ReadInTime(var, stage)
      BY <1>1, <1>3, VarAtHand
    <3>2. Fresh(var, rule.transform) = OfKey(key) /\ key[1] = var.type
      BY <1>1, <2>1, <3>1, VarIs, FreshOfKey
    <3>3. read = OfKey(key)
      BY <1>1, <1>2, <1>3, <3>2, ReadIsFresh
    <3>4. transform'[key] = read
      <4> HIDE DEF at, read
      <4> QED BY <1>4, <2>1
    <3> QED BY <1>2, <2>1, <3>1, <3>2, <3>3, <3>4 DEF ReadInTime
  <2>2. CASE ~(~var.storage /\ key = at)
    <3>1. key \in DOMAIN transform /\ transform'[key] = transform[key]
      <4> HIDE DEF at, read
      <4> QED BY <1>2, <1>4, <2>2
    <3> QED BY <1>1, <1>2, <1>3, <3>1 DEF CacheInv
  <2> QED BY <2>1, <2>2
<1>6. key[1] \in Types
  <2>1. \A p : Provided(p) \subseteq Types
    BY DEF Provided, Types
  <2> QED BY <1>5, <2>1 DEF ProvidedBy
<1>7. collections'[key[1]] = collections[key[1]]
  BY <1>2, <1>5, <1>6
<1> QED BY <1>5, <1>7, OfKeyKeeps

LEMMA CacheKeeps ==
    ASSUME CacheInv, UNCHANGED <<rulesets, active, calls, stage, pc, collections, transform>>
    PROVE  CacheInv'
BY ApartKeeps, OfKeyKeeps DEF CacheInv

LEMMA CacheExecEnds == ASSUME TypeInv, CacheInv, ExecEnds PROVE CacheInv'
<1>1. /\ UNCHANGED <<rulesets, active, calls, collections, transform>>
      /\ pc = "rules" /\ pc' = "enter" /\ stage' = stage + 1 /\ stage' - 1 = stage
  BY DEF ExecEnds, RulesetDone, TypeInv
<1> QED BY <1>1, ApartKeeps, OfKeyKeeps DEF CacheInv

LEMMA CacheStep == TypeInv /\ MapInv /\ VarsInTime /\ CacheInv /\ [Next]_vars => CacheInv'
<1> SUFFICES ASSUME TypeInv, MapInv, VarsInTime, CacheInv, [Next]_vars PROVE CacheInv'
  OBVIOUS
<1>1. ASSUME NEW sieves \in Sieves, NEW id \in SieveIds, SieveRule(id, sieves) PROVE CacheInv'
  <2>1. IsCall([ruleset |-> NoKey, id |-> id, sieves |-> sieves])
    BY SievesAre DEF IsCall
  <2> QED BY <1>1, <2>1, CacheSieve DEF SieveRule, SieveCall
<1>2. ASSUME NEW sieves \in Sieves, NEW s \in Range(rulesets), SieveRuleset(s, sieves) PROVE CacheInv'
  <2>1. IsCall([ruleset |-> s.name, id |-> NoRuleId, sieves |-> sieves])
    BY SievesAre DEF IsCall
  <2> QED BY <1>2, <2>1, CacheSieve DEF SieveRuleset, SieveCall
<1>3. ASSUME pc' = "failed" PROVE CacheInv'
  BY <1>3 DEF CacheInv
<1>4. ASSUME NEW sieves \in Sieves, NEW id \in SieveIds, SieveRuleDies(id, sieves) PROVE CacheInv'
  BY <1>3, <1>4 DEF SieveRuleDies
<1>5. CASE Exec
  BY <1>5, CacheExec
<1>6. CASE Match
  <2>1. \A t \in Types \ {"TX", "MATCHED_VAR"} : collections'[t] = collections[t]
    BY <1>6 DEF Match, TypeInv
  <2> QED BY <1>6, <2>1, CacheBuild DEF Match
<1>7. CASE NoMatch
  BY <1>7, CacheBuild DEF NoMatch
<1>8. CASE VarDies
  BY <1>3, <1>8 DEF VarDies
<1>9. CASE NextRuleset
  BY <1>9, CacheKeeps DEF NextRuleset
<1>10. CASE ExecEnds
  BY <1>10, CacheExecEnds
<1>11. CASE Finished \/ UNCHANGED vars
  BY <1>11, CacheKeeps DEF Finished, vars
<1> QED BY <1>1, <1>2, <1>4, <1>5, <1>6, <1>7, <1>8, <1>9, <1>10, <1>11 DEF Next

LEMMA Inductive == RulesInTime => (Spec => []IInv)
<1>1. RulesInTime /\ Init => IInv
  BY TypeInit, MapInit, InTimeInit, CacheInit DEF IInv
<1>2. IInv /\ [Next]_vars => IInv'
  BY TypeStep, MapStep, InTimeStep, CacheStep DEF IInv
<1> QED BY <1>1, <1>2, PTL DEF Spec

-----------------------------------------------------------------------------
(* What rules see.                                                           *)

\* What is kept of a transaction's collections under the key of a variable is what the
\* rule at hand would read itself, for all rulesets whose rules read what their phase or
\* one before it provides. The kept value never is one that another variable, other
\* exclusions or another transform gave.
THEOREM ReadsAreFresh == RulesInTime => (Spec => []ReadsFresh)
<1>1. IInv => ReadsFresh
  BY ReadIsFresh DEF IInv, ReadsFresh
<1> QED BY <1>1, Inductive, PTL

\* Exclusions leave nothing of what they name.
LEMMA ParsedIsKept ==
    ASSUME NEW c, NEW v, IsVar(v), v.parse # NoParse, NEW e \in Parsed(c, v).entries
    PROVE  \A j \in DOMAIN v.ignore : e.key \notin v.ignore[j].keys
<1> DEFINE es == Kept(c.entries, v.ignore)
<1>1. Nothing.entries = {} /\ \A s : Some(s).entries = s
  BY DEF Nothing, Some
<1>2. e \in Selected(es, v).entries
  BY <1>1 DEF Parsed
<1>3. \E f \in es : f.key = e.key
  <2> DEFINE named == {f \in es : f.key \in v.arg}
             keys  == {[key |-> f.key, value |-> f.key] : f \in es}
  <2>1. e \in named \/ e \in keys \/ e \in es
    <3>1. Selected(es, v) = CASE v.parse = "specific" -> IF named = {} THEN Nothing ELSE Some(named)
                              [] v.parse = "regex"    -> Some(named)
                              [] v.parse = "keys"     -> Some(keys)
                              [] v.parse = "values"   -> Some(es)
                              [] v.parse = "all"      -> Some(keys \cup es)
      BY DEF Selected
    <3>2. v.parse \in {"specific", "regex", "keys", "values", "all"}
      BY DEF IsVar, Parses
    <3> HIDE DEF named, keys, es
    <3> QED BY <1>1, <1>2, <3>1, <3>2
  <2> QED BY <2>1
<1> QED BY <1>3 DEF Kept

\* Of two variables that differ in their exclusions one sees what the other, without any,
\* does, but for what its exclusions name.
LEMMA OnlyExcluded ==
    ASSUME NEW c, NEW v, IsVar(v), NEW w, w.ignore = <<>>, w.parse = v.parse, w.arg = v.arg,
           NEW e \in Parsed(c, w).entries, e \notin Parsed(c, v).entries
    PROVE  \E j \in DOMAIN v.ignore : e.key \in v.ignore[j].keys
<1> SUFFICES ASSUME \A j \in DOMAIN v.ignore : e.key \notin v.ignore[j].keys PROVE FALSE
  OBVIOUS
<1> DEFINE es == Kept(c.entries, v.ignore)
           all == Kept(c.entries, w.ignore)
<1>1. Nothing.entries = {} /\ \A s : Some(s).entries = s
  BY DEF Nothing, Some
<1>2. \A f \in all : f.key = e.key => f \in es
  BY DEF Kept
<1>3. e \in Selected(all, w).entries /\ e \notin Selected(es, v).entries
  BY <1>1 DEF Parsed
<1>4. ASSUME NEW s, NEW x, x.parse = v.parse, x.arg = v.arg
      PROVE  e \in Selected(s, x).entries <=>
                \/ v.parse \in {"specific", "regex"} /\ e \in s /\ e.key \in v.arg
                \/ v.parse \in {"keys", "all"} /\ \E f \in s : e = [key |-> f.key, value |-> f.key]
                \/ v.parse \in {"values", "all"} /\ e \in s
  <2> DEFINE named == {f \in s : f.key \in x.arg}
             keys  == {[key |-> f.key, value |-> f.key] : f \in s}
  <2>1. Selected(s, x) = CASE x.parse = "specific" -> IF named = {} THEN Nothing ELSE Some(named)
                           [] x.parse = "regex"    -> Some(named)
                           [] x.parse = "keys"     -> Some(keys)
                           [] x.parse = "values"   -> Some(s)
                           [] x.parse = "all"      -> Some(keys \cup s)
    BY DEF Selected
  <2>2. (e \in named <=> e \in s /\ e.key \in v.arg)
        /\ (e \in keys <=> \E f \in s : e = [key |-> f.key, value |-> f.key])
    BY <1>4
  <2>3. v.parse \in {"none", "specific", "regex", "keys", "values", "all"}
    BY DEF IsVar, Parses, NoParse
  <2>4. v.parse # "none"
    BY <1>1, <1>3 DEF Parsed, NoParse
  <2> HIDE DEF named, keys
  <2>5. CASE v.parse = "specific"
    BY <1>1, <1>4, <2>1, <2>2, <2>5
  <2>6. CASE v.parse = "regex"
    BY <1>1, <1>4, <2>1, <2>2, <2>6
  <2>7. CASE v.parse = "keys"
    BY <1>1, <1>4, <2>1, <2>2, <2>7
  <2>8. CASE v.parse = "values"
    BY <1>1, <1>4, <2>1, <2>2, <2>8
  <2>9. CASE v.parse = "all"
    BY <1>1, <1>4, <2>1, <2>2, <2>9
  <2> QED BY <2>3, <2>4, <2>5, <2>6, <2>7, <2>8, <2>9
<1> HIDE DEF es, all
<1>5. ASSUME NEW f \in all, e = [key |-> f.key, value |-> f.key] PROVE f \in es
  BY <1>2, <1>5
<1> QED BY <1>2, <1>3, <1>4, <1>5

LEMMA UnseenHolds ==
    ASSUME IInv, Orderly, SievesApart, AtVar,
           NEW c \in DOMAIN calls, NEW m \in DOMAIN calls[c].sieves,
           Naming(calls[c]), IsTarget(calls[c].sieves[m], rule.vars, k),
           \A j \in DOMAIN calls[c].sieves : j > m => ~IsTarget(calls[c].sieves[j], rule.vars, k),
           NEW e \in Read.entries, NEW keys \in Range(calls[c].sieves[m].elts)
    PROVE  e.key \notin keys
<1> DEFINE sieves == calls[c].sieves
           N == Len(sieves)
<1>1. TypeInv /\ MapInv /\ VarsInTime /\ CacheInv /\ AtRule /\ k \in DOMAIN Vars
  BY DEF IInv, AtVar
<1>2. rule.id \in DOMAIN target_update_map
  BY <1>1, HereIs DEF MapInv, Naming
<1>3. sieves \in Seq(Sieve) /\ SievedBy(rule.vars, Vars, sieves, N, rule.transform)
  BY <1>1, <1>2, SievedHere
<1>4. N \in Nat /\ m \in 1..N /\ \A j \in (m + 1)..N : j \in DOMAIN sieves /\ j > m
  <2>1. N \in Nat /\ DOMAIN sieves = 1..N
    BY <1>3, LenProperties
  <2> QED BY <2>1
<1>5. Like(rule.vars, Vars)
  BY <1>3 DEF SievedBy
<1>6. k \in DOMAIN rule.vars /\ Same(rule.vars[k], var)
  BY <1>1, <1>5 DEF Like, var
<1>7. PICK i \in DOMAIN var.ignore : var.ignore[i].keys = keys
  BY <1>3, <1>4, <1>6 DEF SievedBy, var
<1>8. var.type # "MATCHED_VAR" /\ var.parse # NoParse
  <2>1. sieves[m] \in Sieve
    BY <1>3, <1>4, LenProperties
  <2>2. sieves[m].type \in DOMAIN ValidVars /\ AimsAt(sieves[m], rule.vars[k])
    BY <2>1 DEF Sieve, IsTarget
  <2> QED BY <1>6, <2>2 DEF AimsAt, ValidVars, Same, NoParse
<1>9. Read = Fresh(var, rule.transform)
  BY <1>1, <1>8, ReadIsFresh
<1> DEFINE parsed == Parsed(collections[var.type], var)
<1>10. IsVar(var) /\ DOMAIN parsed = ResultFields
  BY <1>1, VarIs, ParsedType DEF TypeInv, IsVar
<1>11. Read.entries = parsed.entries
  <2> HIDE DEF parsed
  <2>1. Transformed(parsed, rule.transform).entries = parsed.entries
    BY <1>10 DEF Transformed, ResultFields
  <2> QED BY <1>9, <2>1 DEF Fresh, parsed
<1>12. \A j \in DOMAIN var.ignore : e.key \notin var.ignore[j].keys
  BY <1>8, <1>10, <1>11, ParsedIsKept
<1> QED BY <1>7, <1>12

\* What a sieve excludes from a variable of a rule, the rule is not shown, in no phase and
\* for all rulesets and sieves: not even where other rules have read, and ctx has kept,
\* the collection without the exclusions.
THEOREM SievedAreUnseen == RulesInTime => (Spec => []SievedUnseen)
<1>1. ASSUME IInv, Orderly, SievesApart PROVE Unseen
  <2>1. SUFFICES ASSUME AtVar, NEW c \in DOMAIN calls, NEW m \in DOMAIN calls[c].sieves,
                        Naming(calls[c]), IsTarget(calls[c].sieves[m], rule.vars, k),
                        \A i \in c..Len(calls) : \A j \in DOMAIN calls[i].sieves :
                            i > c \/ j > m => ~(/\ Naming(calls[i])
                                                /\ IsTarget(calls[i].sieves[j], rule.vars, k))
                 PROVE  \A e \in Read.entries, keys \in Range(calls[c].sieves[m].elts) : e.key \notin keys
    BY DEF Unseen
  <2>2. c \in c..Len(calls)
    <3>1. Len(calls) \in Nat /\ DOMAIN calls = 1..Len(calls)
      BY <1>1, LenProperties DEF IInv, TypeInv
    <3> QED BY <3>1
  <2>3. \A j \in DOMAIN calls[c].sieves : j > m => ~IsTarget(calls[c].sieves[j], rule.vars, k)
    BY <2>1, <2>2
  <2> QED BY <1>1, <2>1, <2>3, UnseenHolds
<1>2. IInv => SievedUnseen
  BY <1>1 DEF SievedUnseen
<1> QED BY <1>2, Inductive, PTL

LEMMA ExplainedHolds ==
    ASSUME IInv, Orderly, SievesApart, AtVar, k \in DOMAIN rule.vars, var.type # "MATCHED_VAR",
           NEW e \in Fresh([rule.vars[k] EXCEPT !.ignore = <<>>], rule.transform).entries,
           e \notin Read.entries
    PROVE  \/ e \notin Kept({e}, rule.vars[k].ignore)
           \/ \E call \in Range(calls) :
                 /\ Naming(call)
                 /\ \E sieve \in Range(call.sieves) :
                        /\ IsTarget(sieve, rule.vars, k)
                        /\ \E keys \in Range(sieve.elts) : e.key \in keys
<1> DEFINE own == rule.vars[k]
           bare == [own EXCEPT !.ignore = <<>>]
           c == collections[own.type]
<1>1. TypeInv /\ MapInv /\ VarsInTime /\ CacheInv /\ AtRule /\ k \in DOMAIN Vars
  BY DEF IInv, AtVar
<1>2. IsVars(rule.vars) /\ IsVar(own)
  BY <1>1, AtRuleIs DEF LoadedRule, IsVars
<1>3. IsVar(var) /\ Same(own, var)
  BY <1>1, VarIs, VarsAtHand DEF Like, var
<1>4. /\ bare.ignore = <<>> /\ bare.type = own.type /\ bare.parse = own.parse
      /\ bare.arg = own.arg /\ bare.storage = own.storage /\ IsVar(bare)
  <2>1. <<>> \in Seq(Ignore)
    OBVIOUS
  <2> HIDE DEF own
  <2>2. /\ DOMAIN bare = DOMAIN own /\ bare.ignore = <<>> /\ bare.type = own.type
        /\ bare.parse = own.parse /\ bare.arg = own.arg /\ bare.storage = own.storage
    BY <1>2 DEF IsVar
  <2> HIDE DEF bare
  <2> QED BY <1>2, <2>1, <2>2 DEF IsVar
<1> HIDE DEF own, bare
<1>5. c \in Collection
  BY <1>1, <1>2 DEF TypeInv, IsVar
<1>6. ASSUME NEW v, IsVar(v), v.type = own.type
      PROVE  Fresh(v, rule.transform).entries = Parsed(c, v).entries
  <2> DEFINE parsed == Parsed(c, v)
  <2>1. DOMAIN parsed = ResultFields
    BY <1>5, <1>6, ParsedType
  <2> HIDE DEF parsed
  <2>2. Transformed(parsed, rule.transform).entries = parsed.entries
    BY <2>1 DEF Transformed, ResultFields
  <2> QED BY <1>6, <2>2 DEF Fresh, parsed
<1>7. e \in Parsed(c, bare).entries
  BY <1>4, <1>6 DEF own, bare
<1>8. Read = Fresh(var, rule.transform)
  BY <1>1, ReadIsFresh
<1>9. e \notin Parsed(c, var).entries
  BY <1>3, <1>6, <1>8 DEF Same
<1>10. PICK j \in DOMAIN var.ignore : e.key \in var.ignore[j].keys
  BY <1>3, <1>4, <1>7, <1>9, OnlyExcluded DEF Same
<1>11. CASE \E i \in DOMAIN own.ignore : var.ignore[j] = own.ignore[i]
  BY <1>10, <1>11 DEF Kept, own
<1>12. CASE rule.id \notin DOMAIN target_update_map
  <2>1. var = own
    BY <1>12 DEF var, Vars, own
  <2> QED BY <1>10, <1>11, <2>1
<1>13. CASE rule.id \in DOMAIN target_update_map
  <2>1. PICK n \in DOMAIN calls :
            /\ Naming(calls[n]) /\ calls[n].sieves \in Seq(Sieve)
            /\ SievedBy(rule.vars, Vars, calls[n].sieves, Len(calls[n].sieves), rule.transform)
    BY <1>1, <1>13, SievedHere
  <2> DEFINE sieves == calls[n].sieves
  <2>2. \/ \E i \in DOMAIN own.ignore : var.ignore[j] = own.ignore[i]
        \/ \E m \in 1..Len(sieves) : /\ IsTarget(sieves[m], rule.vars, k)
                                     /\ var.ignore[j].keys \in Range(sieves[m].elts)
    BY <1>10, <2>1 DEF SievedBy, own, var
  <2>3. ASSUME NEW m \in 1..Len(sieves), IsTarget(sieves[m], rule.vars, k),
               var.ignore[j].keys \in Range(sieves[m].elts)
        PROVE  \E call \in Range(calls) :
                 /\ Naming(call)
                 /\ \E sieve \in Range(call.sieves) :
                        /\ IsTarget(sieve, rule.vars, k)
                        /\ \E keys \in Range(sieve.elts) : e.key \in keys
    <3>1. calls[n] \in Range(calls)
      BY DEF Range
    <3>2. sieves[m] \in Range(sieves)
      <4>1. DOMAIN sieves = 1..Len(sieves)
        BY <2>1, LenProperties
      <4> QED BY <4>1 DEF Range
    <3> QED BY <1>10, <2>1, <2>3, <3>1, <3>2
  <2> QED BY <1>11, <2>2, <2>3
<1> QED BY <1>12, <1>13

\* Sieves hide nothing from the rules and the variables they do not name, for all rulesets
\* and sieves: what a rule is not shown of a collection, an exclusion of its own keeps from
\* it, or one of a sieve asked for this rule and this variable.
THEOREM SievesHideOnlyTheirs == RulesInTime => (Spec => []SievesOnlyTheirs)
<1>1. IInv => SievesOnlyTheirs
  BY ExplainedHolds DEF SievesOnlyTheirs, Explained
<1> QED BY <1>1, Inductive, PTL
=============================================================================
