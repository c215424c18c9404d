------------------------ MODULE RulesetDefs_proofs ------------------------
(***************************************************************************)
(* Proofs about the rulesets of a worker: for every deployment that the      *)
(* assumptions admit, any number of requests and every order in which they   *)
(* load.                                                                     *)
(*                                                                         *)
(* ExceptionsBuilt speaks of what the table should be; the code computes it  *)
(* from lookup tables that are filled piece by piece. So its invariant says  *)
(* that the lookup tables hold just the metas of the rulesets that are       *)
(* registered (MetasInv). That is so because nothing registered is replaced  *)
(* by something else, which while the worker starts is due to what is yet to *)
(* be called: the translated rules have names that nothing registered has,   *)
(* and what init() loads again is the same file (StartInv).                  *)
(*                                                                         *)
(* The rest of what a worker promises is LoadsInv, which leans on Inv and on  *)
(* nothing being replaced: what is registered comes from where its name says *)
(* (SourcesInv), the distributed rulesets that validate() is past are sound   *)
(* and share no id (GuardInv), what could be translated is there when         *)
(* requests come (TranslatedInv), and a handler is through with just the      *)
(* names before its place, or died of what its own site names (HandlersInv). *)
(***************************************************************************)
EXTENDS RulesetDefs, FiniteSetTheorems, SequenceTheorems, WellFoundedInduction, TLAPS

MetasInv == metas = UNION {Metas(ruleset_defs[n]) : n \in DOMAIN ruleset_defs}

IsCall(s) == InitCall(s) \/ (SecrulesCall(s) /\ IsRuleset(s.rules))

StartInv ==
    /\ calls \in Seq(Range(cfg.start))
    /\ \A k \in DOMAIN calls : IsCall(calls[k])
    /\ \A k \in DOMAIN calls : SecrulesCall(calls[k]) =>
          /\ calls[k].name \notin DOMAIN ruleset_defs \cup Range(cfg.global)
          /\ \A j \in DOMAIN calls \ {k} : SecrulesCall(calls[j]) => calls[j].name # calls[k].name
    /\ status = "starting" =>
          \A n \in Range(cfg.global) \cap DOMAIN ruleset_defs : ruleset_defs[n] = LoadFile(n)
    /\ status = "up" => calls = <<>>

IsHandler(h) ==
    \/ h = NoHandler
    \/ \E site : h = [pc |-> "died", site |-> site]
    \/ \E pc \in {"running", "done"}, k \in Nat \ {0} : \E site, active, ran :
          h = [pc |-> pc, site |-> site, active |-> active, at |-> k, ran |-> ran]

ControlInv ==
    /\ cfg \in Configs
    /\ status \in {"starting", "up", "refused"} /\ errors \in BOOLEAN
    /\ at \in 1..(Len(cfg.global) + 1)
    /\ handler = [q \in Requests |-> handler[q]]
    /\ \A q \in Requests : IsHandler(handler[q]) /\ (handler[q] # NoHandler => status = "up")

TablesInv ==
    /\ unbuilt \subseteq DOMAIN ruleset_defs
    /\ \A n \in DOMAIN ruleset_defs : ruleset_defs[n] # Unparsable /\ IsRuleset(ruleset_defs[n])
    /\ \A e \in metas : e[2] # NoId
    /\ \A id \in DOMAIN meta_ids : id # NoId /\ meta_ids[id] # {}

DefsInv == TablesInv /\ MetasInv /\ ExceptionsBuilt

Inv == ControlInv /\ DefsInv /\ StartInv

\* Everything that is registered came from where its name says.
SourcesInv == \A n \in DOMAIN ruleset_defs : ruleset_defs[n] \in Sources(n)

\* What the distributed rulesets up to a place are when none of them failed.
Passed(to) ==
    /\ \A i \in 1..to : /\ cfg.global[i] \in DOMAIN ruleset_defs
                        /\ UniqueIds(LoadFile(cfg.global[i]))
    /\ \A i, j \in 1..to :
          i # j => Ids(LoadFile(cfg.global[i])) \cap Ids(LoadFile(cfg.global[j])) = {}

Guarded == /\ Passed(Len(cfg.global))
           /\ \A n \in Range(cfg.global) : ruleset_defs[n] = LoadFile(n)

GuardInv ==
    /\ status # "refused" /\ ~errors =>
          /\ Passed(at - 1)
          /\ \A i \in 1..(at - 1) : Ids(LoadFile(cfg.global[i])) \subseteq id_registry
    /\ Inits => \/ status = "refused"
                \/ \E k \in DOMAIN calls : InitCall(calls[k])
                \/ Guarded

\* What could be translated is registered, or has its call to come.
TranslatedInv ==
    \A n : Translated(n) =>
        \/ n \in DOMAIN ruleset_defs \/ status = "refused"
        \/ \E k \in DOMAIN calls : SecrulesCall(calls[k]) /\ calls[k].name = n /\ Loads(calls[k].rules, {})

\* What a handler is through with.
RanInv(h) ==
    /\ h.active \in Seq(Names)
    /\ h.active = Merged(h.site) \/ (h.active = cfg.global /\ ~Optional(h.site))
    /\ h.at \in 1..(Len(h.active) + 1)
    /\ h.ran \in Seq(Range(h.ran)) /\ Len(h.ran) = h.at - 1
    /\ \A k \in 1..(h.at - 1) :
          h.ran[k][1] = h.active[k] /\ h.ran[k][2] \in Sources(h.active[k])
    /\ h.pc = "done" => h.at = Len(h.active) + 1

HandlersInv ==
    \A q \in Requests : LET h == handler[q] IN
        /\ h.pc # "new" => h.site \in cfg.sites
        /\ h.pc \in {"running", "done"} =>
              RanInv(h) /\ DOMAIN h.site.strings \subseteq DOMAIN ruleset_defs
        /\ h.pc = "died" => OwnFault(h.site) \/ Nameless

LoadsInv == SourcesInv /\ GuardInv /\ TranslatedInv /\ HandlersInv

-----------------------------------------------------------------------------

\* A set of numbers has a least one.
LEMMA LeastNumber ==
    ASSUME NEW S \in SUBSET Nat, S # {}
    PROVE  \E k \in S : \A j \in S : k <= j
<1> DEFINE R == OpToRel(<, Nat)
<1>1. IsWellFoundedOn(R, Nat)
  BY NatLessThanWellFounded
<1> HIDE DEF R
<1>2. PICK k \in S : \A j \in S : ~(<<j, k>> \in R)
  BY <1>1, WFMin
<1>3. ASSUME NEW j \in S PROVE k <= j
  <2>1. j < k => <<j, k>> \in R
    BY DEF R, OpToRel
  <2> QED BY <2>1, <1>2
<1> QED BY <1>3

IsSorted(s, names) == /\ s \in [1..Cardinality(names) -> names]
                      /\ Range(s) = names /\ Increasing(s)

\* One more name, lower than all others, goes in front.
LEMMA SortedInFront ==
    ASSUME NEW names \in SUBSET Nat, IsFiniteSet(names), NEW m \in names,
           \A n \in names : m <= n,
           NEW t, IsSorted(t, names \ {m})
    PROVE  \E s : IsSorted(s, names)
<1> DEFINE k == Cardinality(names)
           s == [i \in 1..k |-> IF i = 1 THEN m ELSE t[i - 1]]
<1>1. k \in Nat /\ Cardinality(names \ {m}) = k - 1
  BY FS_CardinalityType, FS_RemoveElement
<1>2. k # 0
  BY FS_EmptySet
<1> HIDE DEF k
<1>3. t \in [1..(k - 1) -> names \ {m}] /\ Range(t) = names \ {m} /\ Increasing(t)
  BY <1>1 DEF IsSorted
<1>4. ASSUME NEW i \in 1..k, i # 1 PROVE i - 1 \in 1..(k - 1) /\ t[i - 1] \in names \ {m}
  <2>1. i - 1 \in 1..(k - 1)
    BY <1>1, <1>4
  <2> QED BY <1>3, <2>1
<1>5. s \in [1..k -> names]
  BY <1>4
<1>6. ASSUME NEW n \in names PROVE n \in Range(s)
  <2>1. CASE n = m
    <3>1. 1 \in DOMAIN s /\ s[1] = m
      BY <1>1, <1>2
    <3> QED BY <2>1, <3>1 DEF Range
  <2>2. CASE n # m
    <3>1. PICK i \in 1..(k - 1) : t[i] = n
      BY <1>3, <2>2 DEF Range
    <3>2. i + 1 \in DOMAIN s /\ s[i + 1] = t[i]
      BY <1>1
    <3> QED BY <3>1, <3>2 DEF Range
  <2> QED BY <2>1, <2>2
<1>7. Range(s) = names
  BY <1>5, <1>6 DEF Range
<1>8. ASSUME NEW i \in 1..k, NEW j \in 1..k, i < j PROVE s[i] < s[j]
  <2>1. j # 1 /\ s[j] = t[j - 1]
    BY <1>1, <1>8
  <2>2. CASE i = 1
    <3>1. t[j - 1] \in names /\ t[j - 1] # m
      BY <1>4, <2>1
    <3>2. m < t[j - 1]
      <4>1. \A n \in names : n # m => m < n
        OBVIOUS
      <4> HIDE DEF s
      <4> QED BY <3>1, <4>1
    <3>3. s[i] = m
      BY <2>2
    <3> QED BY <2>1, <3>2, <3>3
  <2>3. CASE i # 1
    <3>1. i - 1 \in 1..(k - 1) /\ j - 1 \in 1..(k - 1) /\ i - 1 < j - 1
      BY <1>1, <1>4, <1>8, <2>1, <2>3
    <3>2. t[i - 1] < t[j - 1]
      BY <1>3, <3>1 DEF Increasing
    <3> QED BY <2>1, <2>3, <3>2
  <2> QED BY <2>2, <2>3
<1>9. IsSorted(s, names)
  BY <1>5, <1>7, <1>8 DEF IsSorted, Increasing, k
<1> QED BY <1>9

\* The names of a finite set can be sorted: there is no smallest set of which they cannot.
LEMMA SortedIs ==
    ASSUME NEW names \in SUBSET Nat, IsFiniteSet(names)
    PROVE  IsSorted(Sorted(names), names)
<1> DEFINE Bad(S) == S \in SUBSET Nat /\ IsFiniteSet(S) /\ ~\E s : IsSorted(s, S)
           sizes == {k \in Nat : \E S : Bad(S) /\ Cardinality(S) = k}
<1>1. SUFFICES \E s : IsSorted(s, names)
  BY <1>1 DEF Sorted, IsSorted
<1> SUFFICES ASSUME Bad(names) PROVE FALSE
  OBVIOUS
<1>2. Cardinality(names) \in sizes
  BY FS_CardinalityType
<1>3. PICK k \in sizes : \A j \in sizes : k <= j
  BY <1>2, LeastNumber
<1>4. PICK S : Bad(S) /\ Cardinality(S) = k
  BY <1>3
<1>5. CASE S = {}
  <2>1. Cardinality(S) = 0
    BY <1>5, FS_EmptySet
  <2>2. IsSorted(<<>>, S)
    BY <1>5, <2>1 DEF IsSorted, Range, Increasing
  <2> QED BY <1>4, <2>2
<1>6. CASE S # {}
  <2>1. PICK m \in S : \A n \in S : m <= n
    BY <1>4, <1>6, LeastNumber
  <2>2. /\ IsFiniteSet(S \ {m}) /\ Cardinality(S \ {m}) = k - 1
        /\ Cardinality(S \ {m}) \in Nat
    BY <1>4, <2>1, FS_RemoveElement, FS_CardinalityType
  <2>3. k - 1 \notin sizes
    BY <1>3
  <2>4. ~Bad(S \ {m})
    BY <2>2, <2>3
  <2>5. PICK t : IsSorted(t, S \ {m})
    BY <1>4, <2>2, <2>4
  <2> QED BY <1>4, <2>1, <2>5, SortedInFront
<1> QED BY <1>5, <1>6

\* What _merge_rulesets makes active, for a site.
LEMMA MergedIs ==
    ASSUME cfg \in Configs, NEW site \in cfg.sites
    PROVE  /\ Merged(site) \in Seq(Names) /\ Increasing(Merged(site))
           /\ Range(Merged(site))
                 = (Range(cfg.global) \cup site.added \cup DOMAIN site.strings) \ site.ignored
<1> DEFINE global == Range(cfg.global)
           names == (global \cup site.added \cup DOMAIN site.strings) \ site.ignored
<1>1. /\ cfg.global \in Seq(Names)
      /\ site.added \subseteq Names /\ IsFiniteSet(site.added)
      /\ DOMAIN site.strings \subseteq Names /\ IsFiniteSet(DOMAIN site.strings)
  BY ConfigsAssumption
<1>2. global \subseteq Names /\ IsFiniteSet(global)
  <2>1. /\ Len(cfg.global) \in Nat /\ DOMAIN cfg.global = 1..Len(cfg.global)
        /\ cfg.global \in [1..Len(cfg.global) -> Names]
    BY <1>1
  <2>2. cfg.global \in [1..Len(cfg.global) -> global]
    BY <2>1 DEF Range
  <2>3. cfg.global \in Surjection(1..Len(cfg.global), global)
    BY <2>1, <2>2 DEF Surjection, Range
  <2>4. IsFiniteSet(1..Len(cfg.global))
    BY <2>1, FS_Interval
  <2>5. global \subseteq Names
    BY <2>1 DEF Range
  <2> QED BY <2>3, <2>4, <2>5, FS_Surjection
<1> HIDE DEF global
<1>3. names \in SUBSET Names /\ IsFiniteSet(names)
  <2>1. IsFiniteSet(global \cup site.added)
    BY <1>1, <1>2, FS_Union
  <2>2. IsFiniteSet((global \cup site.added) \cup DOMAIN site.strings)
    BY <1>1, <2>1, FS_Union
  <2>3. names \subseteq (global \cup site.added) \cup DOMAIN site.strings
    OBVIOUS
  <2>4. IsFiniteSet(names)
    BY <2>2, <2>3, FS_Subset
  <2> QED BY <1>1, <1>2, <2>4
<1>4. Merged(site) = Sorted(names)
  BY DEF Merged, global
<1> HIDE DEF names
<1>5. IsSorted(Sorted(names), names)
  BY <1>3, SortedIs, NamesAssumption
<1>6. Cardinality(names) \in Nat
  BY <1>3, FS_CardinalityType
<1>7. Sorted(names) \in [1..Cardinality(names) -> Names]
  BY <1>3, <1>5 DEF IsSorted
<1>8. Sorted(names) \in Seq(Names)
  BY <1>6, <1>7
<1> QED BY <1>4, <1>5, <1>8 DEF IsSorted, names, global

\* Every rule with an id has a head, at its place or before it in a chain, that the
\* id is registered for.
LEMMA HeadOf ==
    ASSUME NEW rs, IsRuleset(rs), NEW p \in DOMAIN rs, NEW k \in DOMAIN rs[p], rs[p][k].id # NoId
    PROVE  \E h \in 1..k :
              /\ <<p, h>> \in Heads(rs) /\ rs[p][h].id = rs[p][k].id
              /\ \A i \in h..(k - 1) : rs[p][i].chain
<1> DEFINE rules == rs[p]
           S == {h \in 1..k : \A i \in h..(k - 1) : rules[i].chain /\ rules[i].id = rules[k].id}
<1>1. rules \in Seq(Range(rules))
  BY DEF IsRuleset
<1>2. DOMAIN rules = 1..Len(rules) /\ Len(rules) \in Nat /\ k \in 1..Len(rules)
  BY <1>1
<1>3. k \in S /\ S \in SUBSET Nat
  BY <1>2
<1>4. PICK h \in S : \A j \in S : h <= j
  <2> HIDE DEF S
  <2> QED BY <1>3, LeastNumber
<1>5. h \in 1..k /\ \A i \in h..(k - 1) : rules[i].chain /\ rules[i].id = rules[k].id
  OBVIOUS
<1> HIDE DEF rules
<1>6. rules[h].id = rules[k].id
  BY <1>2, <1>5
<1>7. ~IsChainLink(rules, h)
  <2> SUFFICES ASSUME IsChainLink(rules, h) PROVE FALSE
    OBVIOUS
  <2>1. h - 1 \in 1..k /\ rules[h - 1].id = rules[k].id /\ rules[h - 1].chain
    BY <1>2, <1>5, <1>6 DEF IsChainLink
  <2>2. ASSUME NEW i \in (h - 1)..(k - 1) PROVE rules[i].chain /\ rules[i].id = rules[k].id
    <3>1. i = h - 1 \/ i \in h..(k - 1)
      BY <1>2, <1>5
    <3> QED BY <1>5, <2>1, <3>1
  <2>3. h - 1 \in S
    BY <2>1, <2>2
  <2> QED BY <1>2, <1>4, <1>5, <2>3
<1>8. h \in DOMAIN rules
  BY <1>2, <1>5
<1>9. <<p, h>> \in Heads(rs)
  BY <1>6, <1>7, <1>8 DEF Heads, IdAt, rules
<1> QED BY <1>5, <1>6, <1>9 DEF rules

\* A set of places in a sequence has a last one.
LEMMA LastPlace ==
    ASSUME NEW n \in Nat, NEW S \in SUBSET (1..n), S # {}
    PROVE  \E k \in S : \A j \in S : j <= k
<1> DEFINE R == OpToRel(<, Nat)
           T == {n - k : k \in S}
<1>1. IsWellFoundedOn(R, Nat)
  BY NatLessThanWellFounded
<1>2. T \subseteq Nat
  OBVIOUS
<1>3. T # {}
  <2>1. PICK k \in S : TRUE
    OBVIOUS
  <2> QED BY <2>1
<1> HIDE DEF R
<1>4. \E x \in T : \A y \in T : ~(<<y, x>> \in R)
  <2> HIDE DEF T
  <2> QED BY <1>1, <1>2, <1>3, WFMin
<1>5. PICK k \in S : \A j \in S : ~(<<n - j, n - k>> \in R)
  BY <1>4
<1>6. ASSUME NEW j \in S PROVE j <= k
  <2>1. n - j \in Nat /\ n - k \in Nat
    OBVIOUS
  <2>2. (n - j < n - k) => <<n - j, n - k>> \in R
    BY <2>1 DEF R, OpToRel
  <2> QED BY <2>2, <1>5
<1> QED BY <1>6

\* What rule_exception finds in the lookup tables are the rules that have the metas.
LEMMA NamedIsRemovable ==
    ASSUME MetasInv', NEW x
    PROVE  Named(x, metas') = Removable(x, DOMAIN ruleset_defs)'
<1> DEFINE removable == {y.id : y \in {z \in UNION {Rules(ruleset_defs'[n]) : n \in DOMAIN ruleset_defs'} :
                                 z.metas \cap x.exceptions # {}}} \ {NoId}
<1>1. metas' = UNION {Metas(ruleset_defs'[n]) : n \in DOMAIN ruleset_defs'}
  BY DEF MetasInv
<1>2. ASSUME NEW i \in Named(x, metas') PROVE i \in removable
  <2>1. PICK d \in metas' : d[1] \in x.exceptions /\ i = d[2]
    BY <1>2 DEF Named
  <2>2. PICK n \in DOMAIN ruleset_defs' : d \in Metas(ruleset_defs'[n])
    BY <1>1, <2>1
  <2>3. PICK y \in Rules(ruleset_defs'[n]) : y.id # NoId /\ d \in y.metas \X {y.id}
    BY <2>2 DEF Metas
  <2>4. d[1] \in y.metas \cap x.exceptions /\ i = y.id
    BY <2>1, <2>3
  <2> QED BY <2>2, <2>3, <2>4
<1>3. ASSUME NEW i \in removable PROVE i \in Named(x, metas')
  <2>1. PICK n \in DOMAIN ruleset_defs' : \E y \in Rules(ruleset_defs'[n]) :
            i = y.id /\ i # NoId /\ y.metas \cap x.exceptions # {}
    BY <1>3
  <2>2. PICK y \in Rules(ruleset_defs'[n]) : i = y.id /\ i # NoId /\ y.metas \cap x.exceptions # {}
    BY <2>1
  <2>3. PICK m : m \in y.metas /\ m \in x.exceptions
    BY <2>2
  <2>4. <<m, i>> \in Metas(ruleset_defs'[n])
    BY <2>2, <2>3 DEF Metas
  <2>5. <<m, i>> \in metas'
    BY <1>1, <2>4
  <2> QED BY <2>3, <2>5 DEF Named
<1>4. Removable(x, DOMAIN ruleset_defs)' = removable
  BY DEF Removable, RulesOf
<1> QED BY <1>2, <1>3, <1>4

\* A rule whose exceptions name any makes its entry, or one behind it with its id does.
LEMMA Enters ==
    ASSUME NEW defs, NEW table, NEW n \in DOMAIN defs, IsRuleset(defs[n]),
           NEW x \in Rules(defs[n]), Named(x, table) # {}
    PROVE  \E y \in Entries(defs, table) : y.id = x.id
<1>1. PICK p \in DOMAIN defs[n] : x \in Range(defs[n][p])
  BY DEF Rules
<1> DEFINE rules == defs[n][p]
           S == {k \in DOMAIN rules : rules[k].id = x.id /\ Named(rules[k], table) # {}}
<1>2. rules \in Seq(Range(rules))
  BY DEF IsRuleset
<1>3. PICK i \in DOMAIN rules : rules[i] = x
  BY <1>1 DEF Range
<1>4. S # {} /\ S \in SUBSET (1..Len(rules)) /\ Len(rules) \in Nat
  <2>1. i \in S
    BY <1>3
  <2>2. DOMAIN rules = 1..Len(rules) /\ Len(rules) \in Nat
    BY <1>2
  <2> QED BY <2>1, <2>2
<1>5. PICK k \in S : \A j \in S : j <= k
  <2> HIDE DEF S
  <2> QED BY <1>4, LastPlace
<1>6. \A m \in DOMAIN rules : m > k /\ rules[m].id = rules[k].id => Named(rules[m], table) = {}
  <2> SUFFICES ASSUME NEW m \in DOMAIN rules, m > k, rules[m].id = rules[k].id,
                      Named(rules[m], table) # {}
               PROVE  FALSE
    OBVIOUS
  <2>1. m \in S
    OBVIOUS
  <2>2. m <= k
    BY <2>1, <1>5
  <2> QED BY <2>2, <1>2
<1>7. rules[k] \in Entering(rules, table)
  BY <1>5, <1>6 DEF Entering
<1> QED BY <1>5, <1>7 DEF Entries

\* A rule that makes an entry is one of a ruleset, and its exceptions name some.
LEMMA EntryIsRule ==
    ASSUME NEW defs, NEW table, NEW y \in Entries(defs, table)
    PROVE  /\ \E n \in DOMAIN defs : y \in Rules(defs[n])
           /\ Named(y, table) # {} /\ y.exceptions # {}
  BY DEF Entries, Entering, Rules, Range, Named

-----------------------------------------------------------------------------

\* Registering what is new, or what is there already, loses nothing.
LEMMA Registered ==
    ASSUME MetasInv, NEW new, Register(new),
           \A n \in DOMAIN new \cap DOMAIN ruleset_defs : new[n] = ruleset_defs[n]
    PROVE  /\ MetasInv'
           /\ DOMAIN ruleset_defs' = DOMAIN ruleset_defs \cup DOMAIN new
           /\ \A n \in DOMAIN ruleset_defs : ruleset_defs'[n] = ruleset_defs[n]
           /\ \A n \in DOMAIN new : ruleset_defs'[n] = new[n]
<1>1. /\ DOMAIN ruleset_defs' = DOMAIN ruleset_defs \cup DOMAIN new
      /\ \A n \in DOMAIN ruleset_defs : ruleset_defs'[n] = ruleset_defs[n]
      /\ \A n \in DOMAIN new : ruleset_defs'[n] = new[n]
  BY DEF Register, With
<1>2. metas' = (UNION {Metas(ruleset_defs[n]) : n \in DOMAIN ruleset_defs})
                \cup (UNION {Metas(new[n]) : n \in DOMAIN new})
  BY DEF MetasInv, Register
<1>3. metas' = UNION {Metas(ruleset_defs'[n]) : n \in DOMAIN ruleset_defs'}
  <2>1. ASSUME NEW e \in metas' PROVE \E n \in DOMAIN ruleset_defs' : e \in Metas(ruleset_defs'[n])
    BY <1>1, <1>2
  <2>2. ASSUME NEW n \in DOMAIN ruleset_defs', NEW e \in Metas(ruleset_defs'[n]) PROVE e \in metas'
    BY <1>1, <1>2
  <2> QED BY <2>1, <2>2
<1> QED BY <1>1, <1>3 DEF MetasInv

\* In the new tables, a rule that alone has its id and whose entry is made has the
\* ids of the rules that its exceptions name.
LEMMA EntryOfAlone ==
    ASSUME MetasInv', NEW ids \in SUBSET EntryIds(ruleset_defs', metas'),
           Entered(ids, ruleset_defs', metas', meta_ids'),
           NEW x, Alone(x)', x.id \in ids
    PROVE  x.id \in DOMAIN meta_ids' /\ meta_ids'[x.id] = Removable(x, DOMAIN ruleset_defs)'
<1>1. PICK from \in [ids -> Entries(ruleset_defs', metas')] :
          /\ \A id \in ids : from[id].id = id
          /\ meta_ids' = [id \in DOMAIN meta_ids \cup ids |->
                             IF id \in ids THEN Named(from[id], metas') ELSE meta_ids[id]]
  BY DEF Entered
<1> DEFINE y == from[x.id]
<1>2. y \in Entries(ruleset_defs', metas') /\ y.id = x.id
  BY <1>1
<1>3. y.exceptions # {} /\ \E n \in DOMAIN ruleset_defs' : y \in Rules(ruleset_defs'[n])
  BY <1>2, EntryIsRule
<1>4. y = x
  BY <1>2, <1>3 DEF Alone, RulesOf
<1>5. x.id \in DOMAIN meta_ids' /\ meta_ids'[x.id] = Named(x, metas')
  BY <1>1, <1>4
<1>6. Named(x, metas') = Removable(x, DOMAIN ruleset_defs)'
  BY NamedIsRemovable
<1> QED BY <1>5, <1>6

\* What is entered is not empty, and nothing is entered for no id.
LEMMA EnteredType ==
    ASSUME NEW defs, NEW table, NEW ids \in SUBSET EntryIds(defs, table), NEW new,
           Entered(ids, defs, table, new),
           \A id \in DOMAIN meta_ids : id # NoId /\ meta_ids[id] # {}
    PROVE  \A id \in DOMAIN new : id # NoId /\ new[id] # {}
<1>1. PICK from \in [ids -> Entries(defs, table)] :
          new = [id \in DOMAIN meta_ids \cup ids |->
                    IF id \in ids THEN Named(from[id], table) ELSE meta_ids[id]]
  BY DEF Entered
<1>2. \A id \in ids : id # NoId /\ Named(from[id], table) # {}
  BY <1>1, EntryIsRule DEF EntryIds
<1> QED BY <1>1, <1>2

\* When the table is built to its end, it has all exceptions.
LEMMA Rebuilt ==
    ASSUME MetasInv', build_exception_table(ruleset_defs', metas'),
           \A n \in DOMAIN ruleset_defs' : IsRuleset(ruleset_defs'[n])
    PROVE  ExceptionsBuilt'
<1> SUFFICES ASSUME NEW x \in RulesOf(DOMAIN ruleset_defs)', x.id # NoId, Alone(x)',
                    Removable(x, DOMAIN ruleset_defs)' # {}
             PROVE  /\ x.id \in DOMAIN meta_ids'
                    /\ meta_ids'[x.id] = Removable(x, DOMAIN ruleset_defs)'
  BY DEF ExceptionsBuilt, build_exception_table
<1>1. Named(x, metas') # {}
  BY NamedIsRemovable
<1>2. PICK n \in DOMAIN ruleset_defs' : x \in Rules(ruleset_defs'[n])
  BY DEF RulesOf
<1>3. x.id \in EntryIds(ruleset_defs', metas')
  BY <1>1, <1>2, Enters DEF EntryIds
<1> QED BY <1>3, EntryOfAlone DEF build_exception_table

\* When it is not, or not to its end, what was built still holds.
LEMMA BuiltKept ==
    ASSUME ExceptionsBuilt,
           DOMAIN ruleset_defs \subseteq DOMAIN ruleset_defs',
           \A n \in DOMAIN ruleset_defs : ruleset_defs'[n] = ruleset_defs[n],
           DOMAIN ruleset_defs' \ unbuilt' \subseteq DOMAIN ruleset_defs \ unbuilt,
           \A x \in RulesOf(DOMAIN ruleset_defs) : x.id \in DOMAIN meta_ids /\ Alone(x)' =>
               /\ x.id \in DOMAIN meta_ids'
               /\ meta_ids'[x.id] \in {meta_ids[x.id], Removable(x, DOMAIN ruleset_defs)'}
    PROVE  ExceptionsBuilt'
<1> DEFINE built == DOMAIN ruleset_defs \ unbuilt
<1> SUFFICES ASSUME NEW x \in RulesOf(DOMAIN ruleset_defs \ unbuilt)', x.id # NoId, Alone(x)',
                    Removable(x, DOMAIN ruleset_defs \ unbuilt)' # {}
             PROVE  /\ x.id \in DOMAIN meta_ids'
                    /\ Removable(x, DOMAIN ruleset_defs \ unbuilt)' \subseteq meta_ids'[x.id]
                    /\ meta_ids'[x.id] \subseteq Removable(x, DOMAIN ruleset_defs)'
  BY DEF ExceptionsBuilt
<1>1. RulesOf(DOMAIN ruleset_defs \ unbuilt)' \subseteq RulesOf(built)
  BY DEF RulesOf
<1>2. RulesOf(DOMAIN ruleset_defs) \subseteq RulesOf(DOMAIN ruleset_defs)'
  BY DEF RulesOf
<1>3. Alone(x)
  BY <1>2 DEF Alone
<1>4. /\ Removable(x, DOMAIN ruleset_defs \ unbuilt)' \subseteq Removable(x, built)
      /\ Removable(x, DOMAIN ruleset_defs) \subseteq Removable(x, DOMAIN ruleset_defs)'
      /\ Removable(x, DOMAIN ruleset_defs \ unbuilt)' \subseteq Removable(x, DOMAIN ruleset_defs)'
  <2>1. RulesOf(DOMAIN ruleset_defs \ unbuilt)' \subseteq RulesOf(DOMAIN ruleset_defs)'
    BY DEF RulesOf
  <2> QED BY <1>1, <1>2, <2>1 DEF Removable
<1>5. /\ x.id \in DOMAIN meta_ids
      /\ Removable(x, built) \subseteq meta_ids[x.id]
      /\ meta_ids[x.id] \subseteq Removable(x, DOMAIN ruleset_defs)
  BY <1>1, <1>3, <1>4 DEF ExceptionsBuilt
<1>6. x \in RulesOf(DOMAIN ruleset_defs)
  BY <1>1 DEF RulesOf
<1>7. /\ x.id \in DOMAIN meta_ids'
      /\ meta_ids'[x.id] \in {meta_ids[x.id], Removable(x, DOMAIN ruleset_defs)'}
  BY <1>5, <1>6
<1> QED BY <1>4, <1>5, <1>7

-----------------------------------------------------------------------------

Same(new)   == \A n \in DOMAIN new \cap DOMAIN ruleset_defs : new[n] = ruleset_defs[n]
Sound(new)  == \A n \in DOMAIN new : new[n] # Unparsable /\ IsRuleset(new[n])
Builds(new) == \/ build_exception_table(ruleset_defs', metas')
               \/ BuildRaises(ruleset_defs', metas', DOMAIN new)
               \/ meta_ids' = meta_ids /\ unbuilt' = unbuilt \cup DOMAIN new

\* Loading rulesets that are new, or the same, with all that may come of the table.
LEMMA Loading ==
    ASSUME DefsInv, NEW new, Register(new), Same(new), Sound(new), Builds(new)
    PROVE  /\ DefsInv' /\ Kept
           /\ DOMAIN ruleset_defs' = DOMAIN ruleset_defs \cup DOMAIN new
           /\ \A n \in DOMAIN new : ruleset_defs'[n] = new[n]
<1> USE DEF DefsInv
<1>1. /\ MetasInv' /\ Kept
      /\ DOMAIN ruleset_defs' = DOMAIN ruleset_defs \cup DOMAIN new
      /\ \A n \in DOMAIN new : ruleset_defs'[n] = new[n]
  BY Registered DEF Same, Kept
<1>2. \A n \in DOMAIN ruleset_defs' : ruleset_defs'[n] # Unparsable /\ IsRuleset(ruleset_defs'[n])
  BY <1>1 DEF TablesInv, Sound, Kept
<1>3. \A e \in metas' : e[2] # NoId
  <2> SUFFICES ASSUME NEW e \in metas' PROVE e[2] # NoId
    OBVIOUS
  <2>1. PICK n \in DOMAIN ruleset_defs' : e \in Metas(ruleset_defs'[n])
    BY <1>1 DEF MetasInv
  <2>2. PICK y \in Rules(ruleset_defs'[n]) : y.id # NoId /\ e \in y.metas \X {y.id}
    BY <2>1 DEF Metas
  <2> QED BY <2>2
<1>4. CASE build_exception_table(ruleset_defs', metas')
  <2>1. ExceptionsBuilt'
    BY <1>1, <1>2, <1>4, Rebuilt
  <2>2. \A id \in DOMAIN meta_ids' : id # NoId /\ meta_ids'[id] # {}
    BY <1>4, EnteredType DEF build_exception_table, TablesInv
  <2>3. unbuilt' = {}
    BY <1>4 DEF build_exception_table
  <2> QED BY <1>1, <1>2, <1>3, <2>1, <2>2, <2>3 DEF TablesInv
<1>5. CASE BuildRaises(ruleset_defs', metas', DOMAIN new)
  <2>1. PICK ids \in SUBSET EntryIds(ruleset_defs', metas') :
            Entered(ids, ruleset_defs', metas', meta_ids')
    BY <1>5 DEF BuildRaises
  <2>2. unbuilt' = unbuilt \cup DOMAIN new
    BY <1>5 DEF BuildRaises
  <2>3. \A id \in DOMAIN meta_ids' : id # NoId /\ meta_ids'[id] # {}
    BY <2>1, EnteredType DEF TablesInv
  <2>4. ASSUME NEW x \in RulesOf(DOMAIN ruleset_defs), x.id \in DOMAIN meta_ids, Alone(x)'
        PROVE  /\ x.id \in DOMAIN meta_ids'
               /\ meta_ids'[x.id] \in {meta_ids[x.id], Removable(x, DOMAIN ruleset_defs)'}
    <3>1. CASE x.id \in ids
      BY <1>1, <2>1, <2>4, <3>1, EntryOfAlone
    <3>2. CASE x.id \notin ids
      BY <2>1, <2>4, <3>2 DEF Entered
    <3> QED BY <3>1, <3>2
  <2>5. DOMAIN ruleset_defs' \ unbuilt' \subseteq DOMAIN ruleset_defs \ unbuilt
    BY <1>1, <2>2
  <2>6. ExceptionsBuilt'
    BY <1>1, <2>4, <2>5, BuiltKept DEF Kept
  <2> QED BY <1>1, <1>2, <1>3, <2>2, <2>3, <2>6 DEF TablesInv
<1>6. CASE meta_ids' = meta_ids /\ unbuilt' = unbuilt \cup DOMAIN new
  <2>1. DOMAIN ruleset_defs' \ unbuilt' \subseteq DOMAIN ruleset_defs \ unbuilt
    BY <1>1, <1>6
  <2>2. ExceptionsBuilt'
    BY <1>1, <1>6, <2>1, BuiltKept DEF Kept
  <2> QED BY <1>1, <1>2, <1>3, <1>6, <2>2 DEF TablesInv
<1> QED BY <1>1, <1>4, <1>5, <1>6 DEF Builds

LEMMA NotLoading ==
    ASSUME DefsInv, UNCHANGED tables
    PROVE  DefsInv' /\ Kept
  BY DEF DefsInv, TablesInv, MetasInv, ExceptionsBuilt, RulesOf, Removable, Alone, Kept, tables

\* One ruleset, which is not there yet or is the same.
LEMMA LoadingOne ==
    ASSUME DefsInv, NEW name, NEW rs, rs # Unparsable, IsRuleset(rs),
           name \in DOMAIN ruleset_defs => ruleset_defs[name] = rs,
           Register(Only(name, rs)),
           \/ build_exception_table(ruleset_defs', metas')
           \/ BuildRaises(ruleset_defs', metas', {name})
           \/ meta_ids' = meta_ids /\ unbuilt' = unbuilt \cup {name}
    PROVE  /\ DefsInv' /\ Kept
           /\ DOMAIN ruleset_defs' = DOMAIN ruleset_defs \cup {name}
           /\ ruleset_defs'[name] = rs
<1> DEFINE new == Only(name, rs)
<1>1. DOMAIN new = {name} /\ new[name] = rs
  BY DEF Only
<1>2. Same(new) /\ Sound(new) /\ Builds(new)
  BY <1>1 DEF Same, Sound, Builds
<1> HIDE DEF new
<1> QED BY <1>1, <1>2, Loading DEF new

\* What the files hold is a ruleset.
LEMMA FilesSound ==
    ASSUME cfg \in Configs, NEW n, LoadFile(n) # Unparsable
    PROVE  IsRuleset(LoadFile(n))
  BY ConfigsAssumption DEF LoadFile, IsSource

-----------------------------------------------------------------------------

LEMMA InitInv ==
    ASSUME Init PROVE Inv
<1> USE DEF Init
<1>1. cfg \in Configs /\ cfg.global \in Seq(Names)
  BY ConfigsAssumption
<1>2. ControlInv
  <2>1. at \in 1..(Len(cfg.global) + 1)
    BY <1>1
  <2>2. handler = [q \in Requests |-> handler[q]] /\ \A q \in Requests : handler[q] = NoHandler
    OBVIOUS
  <2> QED BY <1>1, <2>1, <2>2 DEF ControlInv, IsHandler
<1>3. DefsInv
  BY DEF DefsInv, TablesInv, MetasInv, ExceptionsBuilt, RulesOf
<1>4. StartInv
  <2>1. calls \in Seq(Range(cfg.start))
    BY <1>1, ConfigsAssumption
  <2>2. ASSUME NEW k \in DOMAIN calls
        PROVE  /\ IsCall(calls[k])
               /\ SecrulesCall(calls[k]) =>
                     /\ calls[k].name \notin Range(cfg.global)
                     /\ \A j \in DOMAIN calls \ {k} : SecrulesCall(calls[j]) => calls[j].name # calls[k].name
    BY <1>1, ConfigsAssumption DEF IsCall, InitCall, SecrulesCall
  <2> QED BY <2>1, <2>2 DEF StartInv
<1> QED BY <1>2, <1>3, <1>4 DEF Inv

\* What init_by_lua has yet to call, when a ruleset is there that it does not name.
LEMMA StartKept ==
    ASSUME StartInv, UNCHANGED <<cfg, calls>>,
           NEW new, DOMAIN ruleset_defs' = DOMAIN ruleset_defs \cup new, Kept,
           status' \in {status, "refused"},
           calls = <<>> \/ new \subseteq Range(cfg.global),
           status = "starting" => \A n \in new \cap Range(cfg.global) : ruleset_defs'[n] = LoadFile(n)
    PROVE  StartInv'
<1>1. status' = "starting" =>
          \A n \in Range(cfg.global) \cap DOMAIN ruleset_defs' : ruleset_defs'[n] = LoadFile(n)'
  BY DEF StartInv, Kept, LoadFile
<1>2. \A k \in DOMAIN calls : SecrulesCall(calls[k]) => calls[k].name \notin DOMAIN ruleset_defs'
  BY DEF StartInv
<1>3. status' = "up" => calls = <<>>
  BY DEF StartInv
<1> QED BY <1>1, <1>2, <1>3 DEF StartInv

\* init_by_lua has called what is first.
LEMMA CallsShrink ==
    ASSUME StartInv, UNCHANGED cfg, calls # <<>>, calls' = Tail(calls), Kept,
           status' \in {status, "refused"},
           \A n \in DOMAIN ruleset_defs' \ DOMAIN ruleset_defs :
               SecrulesCall(Head(calls)) /\ n = Head(calls).name
    PROVE  StartInv'
<1>1. calls \in Seq(Range(cfg.start))
  BY DEF StartInv
<1>2. /\ Len(calls) \in Nat \ {0} /\ DOMAIN calls = 1..Len(calls)
      /\ DOMAIN calls' = 1..(Len(calls) - 1)
      /\ \A k \in DOMAIN calls' : k + 1 \in DOMAIN calls /\ calls'[k] = calls[k + 1]
      /\ Head(calls) = calls[1] /\ 1 \in DOMAIN calls
  BY <1>1
<1>3. calls' \in Seq(Range(cfg'.start))
  BY <1>1
<1>4. \A k \in DOMAIN calls' : IsCall(calls'[k])
  BY <1>2 DEF StartInv
<1>5. ASSUME NEW k \in DOMAIN calls', SecrulesCall(calls'[k])
      PROVE  /\ calls'[k].name \notin DOMAIN ruleset_defs' \cup Range(cfg.global)
             /\ \A j \in DOMAIN calls' \ {k} : SecrulesCall(calls'[j]) => calls'[j].name # calls'[k].name
  <2>1. k + 1 \in DOMAIN calls /\ k + 1 # 1 /\ calls'[k] = calls[k + 1]
    BY <1>2
  <2>2. calls'[k].name \notin DOMAIN ruleset_defs \cup Range(cfg.global)
    BY <1>5, <2>1 DEF StartInv
  <2>3. SecrulesCall(calls[1]) => calls[1].name # calls'[k].name
    BY <1>2, <1>5, <2>1 DEF StartInv
  <2>4. ASSUME NEW j \in DOMAIN calls' \ {k}, SecrulesCall(calls'[j])
        PROVE  calls'[j].name # calls'[k].name
    <3>1. j + 1 \in DOMAIN calls \ {k + 1} /\ calls'[j] = calls[j + 1]
      BY <1>2
    <3> QED BY <1>5, <2>1, <2>4, <3>1 DEF StartInv
  <2> QED BY <1>2, <2>2, <2>3, <2>4
<1>6. ASSUME status' = "starting", NEW n \in Range(cfg.global) \cap DOMAIN ruleset_defs'
      PROVE  ruleset_defs'[n] = LoadFile(n)'
  <2>1. SecrulesCall(Head(calls)) => Head(calls).name \notin Range(cfg.global)
    BY <1>2 DEF StartInv
  <2>2. n \in DOMAIN ruleset_defs
    BY <2>1, <1>6
  <2> QED BY <1>6, <2>2 DEF StartInv, Kept, LoadFile
<1>7. status' # "up"
  BY DEF StartInv
<1> QED BY <1>3, <1>4, <1>5, <1>6, <1>7 DEF StartInv

-----------------------------------------------------------------------------

\* The steps of init_by_lua.

LEMMA ValidateLoadsInv ==
    ASSUME Inv, ValidateLoads PROVE Inv' /\ Kept
<1> USE DEF Inv
<1> DEFINE name == cfg.global[at]  rs == LoadFile(name)
<1>1. /\ status = "starting" /\ name \in Range(cfg.global) /\ at \in DOMAIN cfg.global
      /\ UNCHANGED <<cfg, calls, errors, handler>> /\ status' \in {status, "refused"}
      /\ at' \in {at, at + 1}
      /\ rs # Unparsable /\ Register(Only(name, rs))
      /\ \/ build_exception_table(ruleset_defs', metas')
         \/ BuildRaises(ruleset_defs', metas', {name})
  BY DEF ValidateLoads, Validating, Starting, Loads, Range
<1>2. IsRuleset(rs)
  BY <1>1, FilesSound DEF ControlInv
<1>3. name \in DOMAIN ruleset_defs => ruleset_defs[name] = rs
  BY <1>1 DEF StartInv
<1> HIDE DEF name, rs
<1>4. /\ DefsInv' /\ Kept
      /\ DOMAIN ruleset_defs' = DOMAIN ruleset_defs \cup {name} /\ ruleset_defs'[name] = rs
  BY <1>1, <1>2, <1>3, LoadingOne
<1>5. StartInv'
  <2>1. \A n \in {name} \cap Range(cfg.global) : ruleset_defs'[n] = LoadFile(n)
    BY <1>4 DEF rs
  <2> QED BY <1>1, <1>4, <2>1, StartKept
<1>6. ControlInv'
  <2>1. cfg.global \in Seq(Names)
    BY ConfigsAssumption DEF ControlInv
  <2>2. at' \in 1..(Len(cfg.global) + 1)
    BY <1>1, <2>1
  <2> QED BY <1>1, <2>2 DEF ControlInv
<1> QED BY <1>4, <1>5, <1>6

LEMMA ValidateFailsInv ==
    ASSUME Inv, ValidateFails PROVE Inv' /\ Kept
<1> USE DEF Inv
<1>1. /\ at \in DOMAIN cfg.global /\ at' = at + 1 /\ errors' = TRUE
      /\ UNCHANGED <<cfg, status, calls, tables, handler>>
  BY DEF ValidateFails, Validating
<1>2. DefsInv' /\ Kept
  BY <1>1, NotLoading
<1>3. StartInv'
  BY <1>1 DEF StartInv, LoadFile, tables
<1>4. ControlInv'
  <2>1. cfg.global \in Seq(Names)
    BY ConfigsAssumption DEF ControlInv
  <2>2. at' \in 1..(Len(cfg.global) + 1)
    BY <1>1, <2>1
  <2> QED BY <1>1, <2>2 DEF ControlInv
<1> QED BY <1>2, <1>3, <1>4

LEMMA InitEndsInv ==
    ASSUME Inv, InitEnds PROVE Inv' /\ Kept
<1> USE DEF Inv
<1>1. /\ status = "starting" /\ status' \in {status, "refused"}
      /\ calls # <<>> /\ calls' = Tail(calls) /\ at' = 1 /\ errors' = FALSE
      /\ UNCHANGED <<cfg, tables, handler>>
  BY DEF InitEnds, Starting
<1>2. DefsInv' /\ Kept
  BY <1>1, NotLoading
<1>3. StartInv'
  BY <1>1, <1>2, CallsShrink DEF tables
<1>4. ControlInv'
  <2>1. cfg.global \in Seq(Names)
    BY ConfigsAssumption DEF ControlInv
  <2>2. at' \in 1..(Len(cfg.global) + 1)
    BY <1>1, <2>1
  <2> QED BY <1>1, <2>2 DEF ControlInv
<1> QED BY <1>2, <1>3, <1>4

LEMMA LoadSecrulesInv ==
    ASSUME Inv, LoadSecrules PROVE Inv' /\ Kept
<1> USE DEF Inv
<1> DEFINE s == Head(calls)
<1>1. /\ status = "starting" /\ calls # <<>> /\ SecrulesCall(s) /\ calls' = Tail(calls)
      /\ UNCHANGED <<cfg, status, at, errors, handler>>
  BY DEF LoadSecrules, Starting, SecrulesCall
<1>2. /\ s.name \notin DOMAIN ruleset_defs /\ IsRuleset(s.rules)
  BY <1>1 DEF StartInv, IsCall, InitCall, SecrulesCall
<1>3. ControlInv'
  BY <1>1 DEF ControlInv
<1>4. CASE Loads(s.rules, {})
  <2>1. /\ s.rules # Unparsable /\ Register(Only(s.name, s.rules))
        /\ meta_ids' = meta_ids /\ unbuilt' = unbuilt \cup {s.name}
    BY <1>4 DEF LoadSecrules, Loads
  <2>2. DefsInv' /\ Kept /\ DOMAIN ruleset_defs' = DOMAIN ruleset_defs \cup {s.name}
    BY <1>2, <2>1, LoadingOne
  <2>3. StartInv'
    BY <1>1, <2>2, CallsShrink
  <2> QED BY <1>3, <2>2, <2>3
<1>5. CASE ~Loads(s.rules, {})
  <2>1. UNCHANGED tables
    BY <1>5 DEF LoadSecrules
  <2>2. DefsInv' /\ Kept
    BY <2>1, NotLoading
  <2>3. StartInv'
    BY <1>1, <2>1, <2>2, CallsShrink DEF tables
  <2> QED BY <1>3, <2>2, <2>3
<1> QED BY <1>4, <1>5

LEMMA WorkerStartsInv ==
    ASSUME Inv, WorkerStarts PROVE Inv' /\ Kept
<1> USE DEF Inv
<1>1. DefsInv' /\ Kept
  BY NotLoading DEF WorkerStarts
<1>2. StartInv' /\ ControlInv'
  BY DEF WorkerStarts, StartInv, ControlInv, start, tables, LoadFile
<1> QED BY <1>1, <1>2

-----------------------------------------------------------------------------

\* The steps of handlers.

LEMMA HandlerSteps ==
    ASSUME ControlInv, StartInv, Kept, NEW q \in Requests, NEW h, IsHandler(h),
           handler' = [handler EXCEPT ![q] = h],
           UNCHANGED <<cfg, status, start>>, status = "up"
    PROVE  ControlInv' /\ StartInv'
<1>1. ControlInv'
  BY DEF ControlInv, start
<1>2. StartInv'
  BY DEF StartInv, start, LoadFile, Kept
<1> QED BY <1>1, <1>2

LEMMA Handlers ==
    ASSUME NEW site, NEW names, NEW k \in Nat, NEW ran
    PROVE  /\ IsHandler(Running(site, names, k + 1, ran))
           /\ IsHandler([pc |-> "died", site |-> site])
<1>1. k + 1 \in Nat \ {0}
  OBVIOUS
<1> QED BY <1>1 DEF IsHandler, Running

LEMMA FirstPlace ==
    ASSUME NEW site, NEW names PROVE IsHandler(Running(site, names, 1, <<>>))
<1>1. 1 = 0 + 1
  OBVIOUS
<1> QED BY <1>1, Handlers

LEMMA ExecGlobalInv ==
    ASSUME Inv, NEW q \in Requests, ExecGlobal(q) PROVE Inv' /\ Kept
<1> USE DEF Inv
<1>1. PICK site \in cfg.sites : Runs(q, site, cfg.global)
  BY DEF ExecGlobal
<1>2. status = "up" /\ UNCHANGED <<cfg, status, start, tables>>
  BY DEF ExecGlobal, Begins
<1>3. DefsInv' /\ Kept
  BY <1>2, NotLoading
<1>4. ControlInv' /\ StartInv'
  BY <1>1, <1>2, <1>3, HandlerSteps, FirstPlace DEF Runs
<1> QED BY <1>3, <1>4

LEMMA ExecMergesInv ==
    ASSUME Inv, NEW q \in Requests, ExecMerges(q) PROVE Inv' /\ Kept
<1> USE DEF Inv
<1>1. PICK site \in cfg.sites :
          /\ Begins(q) /\ Broken(site) = {} /\ Register(Strings(site, NewStrings(site)))
          /\ Runs(q, site, Merged(site)) \/ Dies(q, site)
          /\ \/ meta_ids' = meta_ids /\ unbuilt' = unbuilt /\ NewStrings(site) = {}
             \/ build_exception_table(ruleset_defs', metas')
             \/ BuildRaises(ruleset_defs', metas', NewStrings(site))
  BY DEF ExecMerges
<1> DEFINE new == Strings(site, NewStrings(site))
<1>2. DOMAIN new = NewStrings(site) /\ \A n \in NewStrings(site) : new[n] = site.strings[n]
  BY DEF Strings
<1>3. Same(new)
  BY <1>2 DEF Same, NewStrings
<1>4. Sound(new)
  BY <1>1, <1>2, ConfigsAssumption DEF Sound, ControlInv, Broken, NewStrings, Loads, IsSource
<1>5. Builds(new)
  BY <1>1, <1>2 DEF Builds
<1> HIDE DEF new
<1>6. DefsInv' /\ Kept
  BY <1>1, <1>3, <1>4, <1>5, Loading DEF new
<1>7. UNCHANGED <<cfg, status, start>> /\ status = "up"
  BY DEF ExecMerges, Begins
<1>8. ControlInv' /\ StartInv'
  BY <1>1, <1>6, <1>7, HandlerSteps, FirstPlace, Handlers DEF Runs, Dies
<1> QED BY <1>6, <1>8

LEMMA ExecMergeFailsInv ==
    ASSUME Inv, NEW q \in Requests, ExecMergeFails(q) PROVE Inv' /\ Kept
<1> USE DEF Inv
<1>1. PICK site \in cfg.sites : \E loaded \in SUBSET (NewStrings(site) \ Broken(site)) :
          Register(Strings(site, loaded)) /\ unbuilt' = unbuilt \cup loaded /\ Dies(q, site)
  BY DEF ExecMergeFails
<1>2. PICK loaded \in SUBSET (NewStrings(site) \ Broken(site)) :
          Register(Strings(site, loaded)) /\ unbuilt' = unbuilt \cup loaded /\ Dies(q, site)
  BY <1>1
<1> DEFINE new == Strings(site, loaded)
<1>3. DOMAIN new = loaded /\ \A n \in loaded : new[n] = site.strings[n]
  BY DEF Strings
<1>4. Same(new)
  BY <1>3 DEF Same, NewStrings
<1>5. Sound(new)
  BY <1>3, ConfigsAssumption DEF Sound, ControlInv, Broken, NewStrings, Loads, IsSource
<1>6. UNCHANGED <<cfg, status, start, meta_ids>> /\ status = "up"
  BY DEF ExecMergeFails, Begins
<1>7. Builds(new)
  BY <1>2, <1>3, <1>6 DEF Builds
<1> HIDE DEF new
<1>8. DefsInv' /\ Kept
  BY <1>2, <1>4, <1>5, <1>7, Loading DEF new
<1>9. ControlInv' /\ StartInv'
  BY <1>2, <1>6, <1>8, HandlerSteps DEF Dies, IsHandler
<1> QED BY <1>8, <1>9

\* A handler in its loop is in a worker that is up; it stays in the loop, or returns.
LEMMA InTheLoop ==
    ASSUME ControlInv, NEW q \in Requests, handler[q].pc = "running"
    PROVE  /\ status = "up" /\ handler[q].at \in Nat \ {0}
           /\ IsHandler([handler[q] EXCEPT !.pc = "done"])
<1>1. handler[q] # NoHandler /\ \A site : handler[q] # [pc |-> "died", site |-> site]
  BY DEF NoHandler
<1>2. PICK pc \in {"running", "done"}, k \in Nat \ {0} : \E site, active, ran :
          handler[q] = [pc |-> pc, site |-> site, active |-> active, at |-> k, ran |-> ran]
  BY <1>1 DEF ControlInv, IsHandler
<1>3. PICK site, active, ran :
          handler[q] = [pc |-> pc, site |-> site, active |-> active, at |-> k, ran |-> ran]
  BY <1>2
<1>4. IsHandler([handler[q] EXCEPT !.pc = "done"])
  <2>1. [handler[q] EXCEPT !.pc = "done"]
            = [pc |-> "done", site |-> site, active |-> active, at |-> k, ran |-> ran]
    BY <1>3
  <2> QED BY <2>1 DEF IsHandler
<1> QED BY <1>1, <1>3, <1>4 DEF ControlInv

LEMMA RunsRulesetInv ==
    ASSUME Inv, NEW q \in Requests, RunsRuleset(q) PROVE Inv' /\ Kept
<1> USE DEF Inv
<1>1. /\ handler[q].pc = "running" /\ UNCHANGED <<cfg, status, start, tables>>
      /\ Run(q, ruleset_defs[Name(q)])
  BY DEF RunsRuleset, InLoop
<1>2. DefsInv' /\ Kept
  BY <1>1, NotLoading
<1>3. ControlInv' /\ StartInv'
  BY <1>1, <1>2, HandlerSteps, InTheLoop, Handlers DEF Run
<1> QED BY <1>2, <1>3

LEMMA LoadsRulesetInv ==
    ASSUME Inv, NEW q \in Requests, LoadsRuleset(q) PROVE Inv' /\ Kept
<1> USE DEF Inv
<1> DEFINE rs == LoadFile(Name(q))
<1>1. /\ handler[q].pc = "running" /\ Name(q) \notin DOMAIN ruleset_defs
      /\ UNCHANGED <<cfg, status, start>>
      /\ rs # Unparsable /\ Register(Only(Name(q), rs))
      /\ \/ build_exception_table(ruleset_defs', metas') /\ Run(q, rs)
         \/ BuildRaises(ruleset_defs', metas', {Name(q)}) /\ Dies(q, handler[q].site)
  BY DEF LoadsRuleset, InLoop, Loads
<1>2. IsRuleset(rs)
  BY <1>1, FilesSound DEF ControlInv
<1> HIDE DEF rs
<1>3. DefsInv' /\ Kept
  BY <1>1, <1>2, LoadingOne
<1>4. ControlInv' /\ StartInv'
  <2>1. CASE Run(q, rs)
    BY <1>1, <1>3, <2>1, HandlerSteps, InTheLoop, Handlers DEF Run
  <2>2. CASE Dies(q, handler[q].site)
    BY <1>1, <1>3, <2>2, HandlerSteps, InTheLoop DEF Dies, IsHandler
  <2> QED BY <1>1, <2>1, <2>2
<1> QED BY <1>3, <1>4

LEMMA LoadFailsInv ==
    ASSUME Inv, NEW q \in Requests, LoadFails(q) PROVE Inv' /\ Kept
<1> USE DEF Inv
<1>1. /\ handler[q].pc = "running" /\ UNCHANGED <<cfg, status, start, tables>>
      /\ Dies(q, handler[q].site)
  BY DEF LoadFails, InLoop
<1>2. DefsInv' /\ Kept
  BY <1>1, NotLoading
<1>3. ControlInv' /\ StartInv'
  BY <1>1, <1>2, HandlerSteps, InTheLoop DEF Dies, IsHandler
<1> QED BY <1>2, <1>3

LEMMA ExecReturnsInv ==
    ASSUME Inv, NEW q \in Requests, ExecReturns(q) PROVE Inv' /\ Kept
<1> USE DEF Inv
<1>1. /\ handler[q].pc = "running" /\ UNCHANGED <<cfg, status, start, tables>>
      /\ handler' = [handler EXCEPT ![q].pc = "done"]
  BY DEF ExecReturns
<1>2. DefsInv' /\ Kept
  BY <1>1, NotLoading
<1>3. ControlInv' /\ StartInv'
  BY <1>1, <1>2, HandlerSteps, InTheLoop
<1> QED BY <1>2, <1>3

-----------------------------------------------------------------------------

LEMMA Steps ==
    ASSUME Inv, [Next]_vars PROVE Inv' /\ Kept
<1>1. CASE ValidateLoads
  BY <1>1, ValidateLoadsInv
<1>2. CASE ValidateFails
  BY <1>2, ValidateFailsInv
<1>3. CASE InitEnds
  BY <1>3, InitEndsInv
<1>4. CASE LoadSecrules
  BY <1>4, LoadSecrulesInv
<1>5. CASE WorkerStarts
  BY <1>5, WorkerStartsInv
<1>6. ASSUME NEW q \in Requests,
             \/ ExecGlobal(q) \/ ExecMerges(q) \/ ExecMergeFails(q)
             \/ RunsRuleset(q) \/ LoadsRuleset(q) \/ LoadFails(q) \/ ExecReturns(q)
      PROVE  Inv' /\ Kept
  BY <1>6, ExecGlobalInv, ExecMergesInv, ExecMergeFailsInv, RunsRulesetInv, LoadsRulesetInv,
     LoadFailsInv, ExecReturnsInv
<1>7. CASE UNCHANGED vars
  <2>1. DefsInv' /\ Kept
    BY <1>7, NotLoading DEF Inv, vars, tables
  <2>2. ControlInv' /\ StartInv'
    BY <1>7 DEF Inv, ControlInv, StartInv, LoadFile, vars
  <2> QED BY <2>1, <2>2 DEF Inv
<1> QED BY <1>1, <1>2, <1>3, <1>4, <1>5, <1>6, <1>7 DEF Next

-----------------------------------------------------------------------------

\* Where rulesets come from, what init() lets pass, and what handlers are through
\* with. The steps of LoadsInv lean on those of Inv.

LEMMA SourcesKept ==
    ASSUME SourcesInv, UNCHANGED <<cfg, tables>> PROVE SourcesInv'
<1>1. \A n : Sources(n)' = Sources(n)
  BY DEF Sources, SecrulesCall
<1> QED BY <1>1 DEF SourcesInv, tables

LEMMA SourcesLoaded ==
    ASSUME SourcesInv, UNCHANGED cfg, NEW new, Register(new),
           \A n \in DOMAIN new : new[n] \in Sources(n)
    PROVE  SourcesInv'
<1>1. \A n : Sources(n)' = Sources(n)
  BY DEF Sources, SecrulesCall
<1>2. /\ DOMAIN ruleset_defs' = DOMAIN ruleset_defs \cup DOMAIN new
      /\ \A n \in DOMAIN new : ruleset_defs'[n] = new[n]
      /\ \A n \in DOMAIN ruleset_defs \ DOMAIN new : ruleset_defs'[n] = ruleset_defs[n]
  BY DEF Register, With
<1> QED BY <1>1, <1>2 DEF SourcesInv

\* A file that is there and the strings of a site are sources.
LEMMA FileIsSource ==
    ASSUME NEW n, LoadFile(n) # Unparsable PROVE LoadFile(n) \in Sources(n)
  BY DEF LoadFile, Sources

LEMMA StringIsSource ==
    ASSUME NEW site \in cfg.sites, NEW n \in DOMAIN site.strings PROVE site.strings[n] \in Sources(n)
  BY DEF Sources

LEMMA CallIsSource ==
    ASSUME NEW k \in DOMAIN cfg.start, SecrulesCall(cfg.start[k])
    PROVE  cfg.start[k].rules \in Sources(cfg.start[k].name)
  BY DEF Sources

LEMMA PassedKept ==
    ASSUME UNCHANGED cfg, Kept, NEW to, Passed(to) PROVE Passed(to)'
  BY DEF Passed, Kept, LoadFile

LEMMA GuardedKept ==
    ASSUME UNCHANGED cfg, Kept, Guarded, cfg.global \in Seq(Names) PROVE Guarded'
<1>1. Passed(Len(cfg.global))'
  BY PassedKept DEF Guarded, Passed, Kept, LoadFile
<1>2. \A n \in Range(cfg.global) : n \in DOMAIN ruleset_defs
  BY DEF Guarded, Passed, Range
<1>3. \A n \in Range(cfg.global) : ruleset_defs'[n] = LoadFile(n)
  BY <1>2 DEF Guarded, Kept
<1> QED BY <1>1, <1>3 DEF Guarded, LoadFile

\* Steps that are none of validate() and call nothing.
LEMMA GuardKept ==
    ASSUME GuardInv, cfg.global \in Seq(Names), Kept, UNCHANGED <<cfg, start>>,
           status' = "refused" => status = "refused", status = "refused" => status' = "refused"
    PROVE  GuardInv'
<1>1. ASSUME status' # "refused", ~errors'
      PROVE  Passed(at - 1)' /\ \A i \in 1..(at - 1)' : (Ids(LoadFile(cfg.global[i])) \subseteq id_registry)'
  <2>1. /\ Passed(at - 1) /\ \A i \in 1..(at - 1) : Ids(LoadFile(cfg.global[i])) \subseteq id_registry
        /\ at' = at /\ id_registry' = id_registry
    BY <1>1 DEF GuardInv, start
  <2>2. \A n : LoadFile(n)' = LoadFile(n)
    BY DEF LoadFile
  <2>3. Passed(at - 1)'
    BY <2>1, <2>2 DEF Passed, Kept
  <2> QED BY <2>1, <2>2, <2>3
<1>2. ASSUME Inits'
      PROVE  status' = "refused" \/ (\E k \in DOMAIN calls' : InitCall(calls'[k])) \/ Guarded'
  <2>1. Inits
    BY <1>2 DEF Inits
  <2> QED BY <2>1, GuardedKept DEF GuardInv, start
<1> QED BY <1>1, <1>2 DEF GuardInv

LEMMA TranslatedKept ==
    ASSUME TranslatedInv, Kept, UNCHANGED <<cfg, calls>>,
           status = "refused" => status' = "refused"
    PROVE  TranslatedInv'
<1>1. \A n : Translated(n)' => Translated(n)
  BY DEF Translated
<1> QED BY <1>1 DEF TranslatedInv, Kept

LEMMA NamelessKept == ASSUME Nameless, Kept PROVE Nameless'
  BY DEF Nameless, RulesOf, Kept

LEMMA RanKept == ASSUME UNCHANGED cfg PROVE \A h : RanInv(h) => RanInv(h)'
<1>1. \A n : Sources(n)' = Sources(n)
  BY DEF Sources, SecrulesCall
<1> QED BY <1>1 DEF RanInv, Merged, Optional

LEMMA FaultKept == ASSUME UNCHANGED cfg PROVE \A site : OwnFault(site) => OwnFault(site)'
<1>1. \A n : Translated(n)' <=> Translated(n)
  BY DEF Translated
<1>2. \A n : LoadFile(n)' = LoadFile(n)
  BY DEF LoadFile
<1>3. Inits' <=> Inits
  BY DEF Inits
<1> QED BY <1>1, <1>2, <1>3 DEF OwnFault

\* A handler comes to h, the others are where they were.
LEMMA HandlerChanges ==
    ASSUME ControlInv, HandlersInv, Kept, UNCHANGED cfg, NEW q \in Requests, NEW h,
           handler' = [handler EXCEPT ![q] = h],
           h.pc # "new" => h.site \in cfg.sites,
           h.pc \in {"running", "done"} =>
               RanInv(h) /\ DOMAIN h.site.strings \subseteq DOMAIN ruleset_defs',
           h.pc = "died" => OwnFault(h.site) \/ Nameless'
    PROVE  HandlersInv'
<1> SUFFICES ASSUME NEW r \in Requests, NEW g, g = handler'[r]
             PROVE  /\ g.pc # "new" => g.site \in cfg.sites
                    /\ g.pc \in {"running", "done"} =>
                          RanInv(g)' /\ DOMAIN g.site.strings \subseteq DOMAIN ruleset_defs'
                    /\ g.pc = "died" => OwnFault(g.site)' \/ Nameless'
  BY DEF HandlersInv
<1>1. handler'[q] = h /\ (r # q => handler'[r] = handler[r])
  BY DEF ControlInv
<1>2. CASE r = q
  BY <1>1, <1>2, RanKept, FaultKept
<1>3. CASE r # q
  <2>1. g = handler[r]
    BY <1>1, <1>3
  <2>2. /\ g.pc # "new" => g.site \in cfg.sites
        /\ g.pc \in {"running", "done"} => RanInv(g) /\ DOMAIN g.site.strings \subseteq DOMAIN ruleset_defs
        /\ g.pc = "died" => OwnFault(g.site) \/ Nameless
    BY <2>1 DEF HandlersInv
  <2>3. DOMAIN ruleset_defs \subseteq DOMAIN ruleset_defs'
    BY DEF Kept
  <2> QED BY <2>2, <2>3, RanKept, FaultKept, NamelessKept
<1> QED BY <1>2, <1>3

LEMMA HandlersKept ==
    ASSUME HandlersInv, Kept, UNCHANGED <<cfg, handler>> PROVE HandlersInv'
<1> SUFFICES ASSUME NEW r \in Requests, NEW g, g = handler'[r]
             PROVE  /\ g.pc # "new" => g.site \in cfg.sites
                    /\ g.pc \in {"running", "done"} =>
                          RanInv(g)' /\ DOMAIN g.site.strings \subseteq DOMAIN ruleset_defs'
                    /\ g.pc = "died" => OwnFault(g.site)' \/ Nameless'
  BY DEF HandlersInv
<1>1. /\ g.pc # "new" => g.site \in cfg.sites
      /\ g.pc \in {"running", "done"} => RanInv(g) /\ DOMAIN g.site.strings \subseteq DOMAIN ruleset_defs
      /\ g.pc = "died" => OwnFault(g.site) \/ Nameless
  BY DEF HandlersInv
<1>2. DOMAIN ruleset_defs \subseteq DOMAIN ruleset_defs'
  BY DEF Kept
<1> QED BY <1>1, <1>2, RanKept, FaultKept, NamelessKept

-----------------------------------------------------------------------------

\* The steps of init_by_lua.

LEMMA GlobalIs ==
    ASSUME ControlInv PROVE cfg.global \in Seq(Names) /\ DOMAIN cfg.global = 1..Len(cfg.global)
                            /\ Len(cfg.global) \in Nat
  BY ConfigsAssumption DEF ControlInv

LEMMA ValidateLoadsLoads ==
    ASSUME Inv, LoadsInv, Kept, ValidateLoads PROVE LoadsInv'
<1> USE DEF Inv, LoadsInv
<1> DEFINE name == cfg.global[at]  rs == LoadFile(name)
<1>1. /\ at \in DOMAIN cfg.global /\ UNCHANGED <<cfg, calls, errors, handler>>
      /\ status = "starting" /\ Loads(rs, id_registry) /\ Register(Only(name, rs))
      /\ \/ at' = at + 1 /\ id_registry' = id_registry \cup Ids(rs) /\ status' = status
         \/ status' = "refused" /\ at' = at /\ id_registry' = id_registry
  BY DEF ValidateLoads, Validating, Starting, Loads, Seen
<1>2. cfg.global \in Seq(Names) /\ DOMAIN cfg.global = 1..Len(cfg.global) /\ Len(cfg.global) \in Nat
  BY GlobalIs
<1>3. at \in 1..Len(cfg.global)
  BY <1>1, <1>2
<1>4. \A n : LoadFile(n)' = LoadFile(n)
  BY <1>1 DEF LoadFile
<1>5. rs # Unparsable /\ UniqueIds(rs) /\ Ids(rs) \cap id_registry = {}
  BY <1>1 DEF Loads, check_duplicate_ids
<1>6. SourcesInv'
  <2>1. rs \in Sources(name)
    BY <1>5, FileIsSource
  <2> HIDE DEF rs, name
  <2>2. DOMAIN Only(name, rs) = {name} /\ Only(name, rs)[name] = rs
    BY DEF Only
  <2> QED BY <1>1, <2>1, <2>2, SourcesLoaded
<1>7. name \in DOMAIN ruleset_defs'
  <2> HIDE DEF rs, name
  <2> QED BY <1>1 DEF Register, With, Only
<1>8. ASSUME status' # "refused", ~errors'
      PROVE  Passed(at - 1)' /\ \A i \in 1..(at - 1)' : (Ids(LoadFile(cfg.global[i])) \subseteq id_registry)'
  <2>1. /\ Passed(at - 1) /\ \A i \in 1..(at - 1) : Ids(LoadFile(cfg.global[i])) \subseteq id_registry
        /\ at' = at + 1 /\ id_registry' = id_registry \cup Ids(rs)
    BY <1>1, <1>8 DEF GuardInv
  <2>2. \A i \in 1..(at' - 1) : i \in 1..(at - 1) \/ i = at
    BY <1>3, <2>1
  <2>3. cfg'.global = cfg.global /\ at' - 1 = at
    BY <1>1, <1>3, <2>1
  <2> DEFINE ids(i) == Ids(LoadFile(cfg.global[i]))
  <2>4. \A i \in 1..(at - 1) : ids(i) \subseteq id_registry
    BY <2>1
  <2>5. ids(at) \cap id_registry = {}
    BY <1>5
  <2>6. \A i, j \in 1..(at - 1) : i # j => ids(i) \cap ids(j) = {}
    BY <2>1 DEF Passed
  <2>7. \A i, j \in 1..(at' - 1) : i # j => ids(i) \cap ids(j) = {}
    <3> HIDE DEF ids
    <3>1. ASSUME NEW i \in 1..(at' - 1), NEW j \in 1..(at' - 1), i # j PROVE ids(i) \cap ids(j) = {}
      <4>1. CASE i \in 1..(at - 1) /\ j \in 1..(at - 1)
        BY <2>6, <3>1, <4>1
      <4>2. CASE i = at /\ j \in 1..(at - 1)
        BY <2>4, <2>5, <4>2
      <4>3. CASE j = at /\ i \in 1..(at - 1)
        BY <2>4, <2>5, <4>3
      <4> QED BY <2>2, <3>1, <4>1, <4>2, <4>3
    <3> QED BY <3>1
  <2>8. \A i \in 1..(at' - 1) : cfg.global[i] \in DOMAIN ruleset_defs' /\ UniqueIds(LoadFile(cfg.global[i]))
    <3>1. \A i \in 1..(at - 1) : cfg.global[i] \in DOMAIN ruleset_defs' /\ UniqueIds(LoadFile(cfg.global[i]))
      BY <2>1 DEF Passed, Kept
    <3> QED BY <1>5, <1>7, <2>2, <3>1
  <2>9. Passed(at - 1)'
    BY <1>4, <2>3, <2>7, <2>8 DEF Passed
  <2>10. \A i \in 1..(at' - 1) : ids(i) \subseteq id_registry'
    BY <2>1, <2>2, <2>4
  <2> QED BY <1>4, <2>3, <2>9, <2>10
<1>9. GuardInv'
  <2>1. Inits' => status' = "refused" \/ (\E k \in DOMAIN calls' : InitCall(calls'[k])) \/ Guarded'
    BY <1>1, <1>2, GuardedKept DEF GuardInv, Inits
  <2> QED BY <1>8, <2>1 DEF GuardInv
<1>10. TranslatedInv' /\ HandlersInv'
  BY <1>1, TranslatedKept, HandlersKept
<1> QED BY <1>6, <1>9, <1>10

LEMMA ValidateFailsLoads ==
    ASSUME Inv, LoadsInv, Kept, ValidateFails PROVE LoadsInv'
<1> USE DEF Inv, LoadsInv
<1>1. /\ errors' = TRUE /\ UNCHANGED <<cfg, status, calls, tables, handler>>
  BY DEF ValidateFails
<1>2. GuardInv'
  BY <1>1, GlobalIs, GuardedKept DEF GuardInv, Inits
<1> QED BY <1>1, <1>2, SourcesKept, TranslatedKept, HandlersKept

\* What is called next, and what is called after that.
LEMMA TailOfCalls ==
    ASSUME StartInv, calls # <<>>, calls' = Tail(calls)
    PROVE  /\ Head(calls) = calls[1] /\ Head(calls) \in Range(cfg.start)
           /\ \A k \in DOMAIN calls \ {1} : \E j \in DOMAIN calls' : calls'[j] = calls[k]
<1>1. calls \in Seq(Range(cfg.start))
  BY DEF StartInv
<1>2. /\ Len(calls) \in Nat /\ DOMAIN calls = 1..Len(calls)
      /\ DOMAIN calls' = 1..(Len(calls) - 1)
      /\ \A j \in DOMAIN calls' : calls'[j] = calls[j + 1]
      /\ Head(calls) = calls[1] /\ Head(calls) \in Range(cfg.start)
  BY <1>1
<1>3. ASSUME NEW k \in DOMAIN calls \ {1} PROVE \E j \in DOMAIN calls' : calls'[j] = calls[k]
  <2>1. k - 1 \in DOMAIN calls' /\ (k - 1) + 1 = k
    BY <1>2
  <2> QED BY <1>2, <2>1
<1> QED BY <1>2, <1>3

LEMMA InitEndsLoads ==
    ASSUME Inv, LoadsInv, Kept, InitEnds PROVE LoadsInv'
<1> USE DEF Inv, LoadsInv
<1>1. /\ status = "starting" /\ calls # <<>> /\ Head(calls).call = "init" /\ at \notin DOMAIN cfg.global
      /\ status' = IF errors THEN "refused" ELSE status
      /\ calls' = Tail(calls) /\ at' = 1 /\ id_registry' = {} /\ errors' = FALSE
      /\ UNCHANGED <<cfg, tables, handler>>
  BY DEF InitEnds, Starting
<1>2. cfg.global \in Seq(Names) /\ DOMAIN cfg.global = 1..Len(cfg.global) /\ Len(cfg.global) \in Nat
  BY GlobalIs
<1>3. CASE errors
  <2>1. status' = "refused"
    BY <1>1, <1>3
  <2>2. GuardInv' /\ TranslatedInv'
    BY <2>1 DEF GuardInv, TranslatedInv
  <2> QED BY <1>1, <2>2, SourcesKept, HandlersKept
<1>4. CASE ~errors
  <2>1. at - 1 = Len(cfg.global)
    BY <1>1, <1>2 DEF ControlInv
  <2>2. Passed(Len(cfg.global))
    BY <1>1, <1>4, <2>1 DEF GuardInv
  <2>3. \A n \in Range(cfg.global) : n \in DOMAIN ruleset_defs
    BY <1>2, <2>2 DEF Passed, Range
  <2>4. Guarded
    BY <1>1, <2>2, <2>3 DEF Guarded, StartInv
  <2>5. Guarded'
    BY <1>1, <1>2, <2>4, GuardedKept
  <2>6. \A i \in 1..(at - 1)' : FALSE
    BY <1>1
  <2>7. Passed(at - 1)'
    BY <2>6 DEF Passed
  <2>8. GuardInv'
    BY <2>5, <2>6, <2>7 DEF GuardInv
  <2>9. TranslatedInv'
    <3> SUFFICES ASSUME NEW n, Translated(n)', n \notin DOMAIN ruleset_defs'
                 PROVE  \E k \in DOMAIN calls' : SecrulesCall(calls'[k]) /\ calls'[k].name = n
                                                   /\ Loads(calls'[k].rules, {})
      BY DEF TranslatedInv
    <3>1. Translated(n) /\ n \notin DOMAIN ruleset_defs /\ status # "refused"
      BY <1>1 DEF Translated, tables
    <3>2. PICK k \in DOMAIN calls : SecrulesCall(calls[k]) /\ calls[k].name = n /\ Loads(calls[k].rules, {})
      BY <3>1 DEF TranslatedInv
    <3>3. k # 1
      BY <1>1, <3>2, TailOfCalls DEF SecrulesCall
    <3> QED BY <1>1, <3>2, <3>3, TailOfCalls
  <2> QED BY <1>1, <2>8, <2>9, SourcesKept, HandlersKept
<1> QED BY <1>3, <1>4

LEMMA LoadSecrulesLoads ==
    ASSUME Inv, LoadsInv, Kept, LoadSecrules PROVE LoadsInv'
<1> USE DEF Inv, LoadsInv
<1> DEFINE s == Head(calls)
<1>1. /\ status = "starting" /\ calls # <<>> /\ s.call = "load_secrules" /\ calls' = Tail(calls)
      /\ UNCHANGED <<cfg, status, at, id_registry, errors, handler>>
      /\ IF Loads(s.rules, {}) THEN Register(Only(s.name, s.rules)) ELSE UNCHANGED tables
  BY DEF LoadSecrules, Starting
<1>2. s = calls[1] /\ s \in Range(cfg.start)
  BY <1>1, TailOfCalls
<1> HIDE DEF s
<1>3. SourcesInv'
  <2>1. PICK k \in DOMAIN cfg.start : cfg.start[k] = s
    BY <1>2 DEF Range
  <2>2. s.rules \in Sources(s.name)
    BY <1>1, <2>1, CallIsSource DEF SecrulesCall
  <2>3. DOMAIN Only(s.name, s.rules) = {s.name} /\ Only(s.name, s.rules)[s.name] = s.rules
    BY DEF Only
  <2> QED BY <1>1, <2>2, <2>3, SourcesLoaded, SourcesKept
<1>4. ASSUME Loads(s.rules, {}) PROVE s.name \in DOMAIN ruleset_defs'
  BY <1>1, <1>4 DEF Register, With, Only
<1>5. TranslatedInv'
  <2> SUFFICES ASSUME NEW n, Translated(n)', n \notin DOMAIN ruleset_defs'
               PROVE  \E k \in DOMAIN calls' : SecrulesCall(calls'[k]) /\ calls'[k].name = n
                                                 /\ Loads(calls'[k].rules, {})
    BY DEF TranslatedInv
  <2>1. Translated(n) /\ n \notin DOMAIN ruleset_defs /\ status # "refused"
    BY <1>1 DEF Translated, Kept
  <2>2. PICK k \in DOMAIN calls : SecrulesCall(calls[k]) /\ calls[k].name = n /\ Loads(calls[k].rules, {})
    BY <2>1 DEF TranslatedInv
  <2>3. k # 1
    BY <1>2, <1>4, <2>2
  <2> QED BY <1>1, <2>2, <2>3, TailOfCalls
<1>6. GuardInv'
  <2>1. ASSUME status' # "refused", ~errors'
        PROVE  Passed(at - 1)' /\ \A i \in 1..(at - 1)' : (Ids(LoadFile(cfg.global[i])) \subseteq id_registry)'
    <3>1. Passed(at - 1) /\ (\A i \in 1..(at - 1) : Ids(LoadFile(cfg.global[i])) \subseteq id_registry)
      BY <1>1, <2>1 DEF GuardInv
    <3>2. \A n : LoadFile(n)' = LoadFile(n)
      BY <1>1 DEF LoadFile
    <3>3. Passed(at - 1)'
      BY <1>1, <3>1, <3>2 DEF Passed, Kept
    <3> QED BY <1>1, <3>1, <3>2, <3>3
  <2>2. ASSUME Inits' PROVE status' = "refused" \/ (\E k \in DOMAIN calls' : InitCall(calls'[k])) \/ Guarded'
    <3>1. status = "refused" \/ (\E k \in DOMAIN calls : InitCall(calls[k])) \/ Guarded
      BY <1>1, <2>2 DEF GuardInv, Inits
    <3>2. ASSUME NEW k \in DOMAIN calls, InitCall(calls[k]) PROVE \E j \in DOMAIN calls' : InitCall(calls'[j])
      <4>1. k # 1
        BY <1>1, <1>2, <3>2 DEF InitCall
      <4> QED BY <1>1, <3>2, <4>1, TailOfCalls
    <3> QED BY <1>1, <3>1, <3>2, GlobalIs, GuardedKept
  <2> QED BY <2>1, <2>2 DEF GuardInv
<1> QED BY <1>1, <1>3, <1>5, <1>6, HandlersKept

LEMMA WorkerStartsLoads ==
    ASSUME Inv, LoadsInv, Kept, WorkerStarts PROVE LoadsInv'
<1> USE DEF Inv, LoadsInv
<1>1. status = "starting" /\ status' = "up" /\ UNCHANGED <<cfg, start, tables, handler>>
  BY DEF WorkerStarts
<1>2. GuardInv'
  BY <1>1, GlobalIs, GuardKept
<1>3. TranslatedInv'
  BY <1>1, TranslatedKept DEF start
<1> QED BY <1>1, <1>2, <1>3, SourcesKept, HandlersKept

-----------------------------------------------------------------------------

\* The steps of handlers.

\* While the worker is up, nothing but the tables and the handlers changes.
LEMMA UpKept ==
    ASSUME Inv, LoadsInv, Kept, status = "up", UNCHANGED <<cfg, status, start>>
    PROVE  GuardInv' /\ TranslatedInv'
<1>1. GuardInv'
  BY GlobalIs, GuardKept DEF Inv, LoadsInv
<1>2. TranslatedInv'
  BY TranslatedKept DEF LoadsInv, start
<1> QED BY <1>1, <1>2

\* What init() and load_secrules() have seen to when requests come.
LEMMA Started ==
    ASSUME Inv, LoadsInv, status = "up"
    PROVE  /\ Inits => Guarded
           /\ \A n : Translated(n) => n \in DOMAIN ruleset_defs
  BY DEF Inv, StartInv, LoadsInv, GuardInv, TranslatedInv

\* When the exception table cannot be built, a rule without id removes others.
LEMMA RaisesNameless ==
    ASSUME NEW new, BuildRaises(ruleset_defs', metas', new) PROVE Nameless'
<1>1. PICK x \in Entries(ruleset_defs', metas') : x.id = NoId
  BY DEF BuildRaises, Raises
<1>2. x.exceptions # {} /\ \E n \in DOMAIN ruleset_defs' : x \in Rules(ruleset_defs'[n])
  BY <1>1, EntryIsRule
<1> QED BY <1>1, <1>2 DEF Nameless, RulesOf

LEMMA RanNothing ==
    ASSUME NEW site, NEW names \in Seq(Names),
           names = Merged(site) \/ (names = cfg.global /\ ~Optional(site))
    PROVE  RanInv(Running(site, names, 1, <<>>))
<1> DEFINE h == Running(site, names, 1, <<>>)
<1>1. h.site = site /\ h.active = names /\ h.at = 1 /\ h.ran = <<>> /\ h.pc = "running"
  BY DEF Running
<1> HIDE DEF h
<1>2. Len(names) \in Nat /\ h.at \in 1..(Len(h.active) + 1)
  BY <1>1
<1>3. h.ran \in Seq(Range(h.ran)) /\ Len(h.ran) = h.at - 1
  BY <1>1
<1>4. \A k \in 1..(h.at - 1) : FALSE
  BY <1>1
<1>5. RanInv(h)
  BY <1>1, <1>2, <1>3, <1>4 DEF RanInv
<1> QED BY <1>5 DEF h

\* A handler has run one ruleset more.
LEMMA RanOneMore ==
    ASSUME NEW h, RanInv(h), h.at \in DOMAIN h.active,
           NEW rs \in Sources(h.active[h.at])
    PROVE  RanInv(Running(h.site, h.active, h.at + 1, Append(h.ran, <<h.active[h.at], rs>>)))
<1> DEFINE e == <<h.active[h.at], rs>>
           g == Running(h.site, h.active, h.at + 1, Append(h.ran, e))
<1>1. /\ g.site = h.site /\ g.active = h.active /\ g.at = h.at + 1
      /\ g.ran = Append(h.ran, e) /\ g.pc = "running"
  BY DEF Running
<1>2. /\ h.active \in Seq(Names) /\ h.ran \in Seq(Range(h.ran)) /\ Len(h.ran) = h.at - 1
      /\ h.at \in 1..(Len(h.active) + 1)
  BY DEF RanInv
<1>3. e[1] = h.active[h.at] /\ e[2] = rs
  OBVIOUS
<1> HIDE DEF g, e
<1>4. Len(h.active) \in Nat /\ DOMAIN h.active = 1..Len(h.active) /\ h.at \in 1..Len(h.active)
  BY <1>2
<1> DEFINE S == Range(h.ran) \cup {e}
<1>5. h.ran \in Seq(S) /\ e \in S
  BY <1>2
<1>6. /\ Append(h.ran, e) \in Seq(S) /\ Len(Append(h.ran, e)) = Len(h.ran) + 1
      /\ \A k \in 1..Len(h.ran) : Append(h.ran, e)[k] = h.ran[k]
      /\ Append(h.ran, e)[Len(h.ran) + 1] = e
  <2> HIDE DEF S
  <2> QED BY <1>5, AppendProperties
<1> HIDE DEF S
<1>7. Len(g.ran) = h.at /\ Len(g.ran) = g.at - 1 /\ g.at \in 1..(Len(g.active) + 1)
  BY <1>1, <1>2, <1>4, <1>6
<1>8. g.ran \in Seq(Range(g.ran))
  <2>1. g.ran \in Seq(S)
    BY <1>1, <1>6
  <2>2. g.ran \in [1..Len(g.ran) -> S] /\ Len(g.ran) \in Nat
    BY <2>1, LenProperties
  <2>3. g.ran \in [1..Len(g.ran) -> Range(g.ran)]
    BY <2>2 DEF Range
  <2> QED BY <2>2, <2>3
<1>9. ASSUME NEW k \in 1..(g.at - 1)
      PROVE  g.ran[k][1] = g.active[k] /\ g.ran[k][2] \in Sources(g.active[k])
  <2>1. CASE k = h.at
    <3>1. g.ran[k] = e
      BY <1>1, <1>2, <1>4, <1>6, <2>1
    <3> QED BY <1>1, <1>3, <2>1, <3>1
  <2>2. CASE k # h.at
    <3>1. k \in 1..(h.at - 1)
      BY <1>1, <1>4, <2>2
    <3>2. g.ran[k] = h.ran[k]
      BY <1>1, <1>2, <1>6, <3>1
    <3> QED BY <1>1, <3>1, <3>2 DEF RanInv
  <2> QED BY <2>1, <2>2
<1>10. g.active = Merged(g.site) \/ (g.active = cfg.global /\ ~Optional(g.site))
  BY <1>1 DEF RanInv
<1>11. RanInv(g)
  BY <1>1, <1>2, <1>7, <1>8, <1>9, <1>10 DEF RanInv
<1> QED BY <1>11 DEF g, e

\* The fields of a handler that runs.
LEMMA RunningIs ==
    ASSUME ControlInv, HandlersInv, NEW q \in Requests, handler[q].pc = "running"
    PROVE  /\ status = "up" /\ handler[q].site \in cfg.sites /\ RanInv(handler[q])
           /\ DOMAIN handler[q].site.strings \subseteq DOMAIN ruleset_defs
  BY InTheLoop DEF HandlersInv

LEMMA ExecGlobalLoads ==
    ASSUME Inv, LoadsInv, Kept, NEW q \in Requests, ExecGlobal(q) PROVE LoadsInv'
<1> USE DEF Inv, LoadsInv
<1>1. PICK site \in cfg.sites : ~NeedsMerge(site) /\ Runs(q, site, cfg.global)
  BY DEF ExecGlobal
<1>2. status = "up" /\ UNCHANGED <<cfg, status, start, tables>>
  BY DEF ExecGlobal, Begins
<1> DEFINE h == Running(site, cfg.global, 1, <<>>)
<1>3. ~Optional(site) /\ DOMAIN site.strings = {}
  BY <1>1 DEF NeedsMerge, Optional
<1>4. RanInv(h)
  BY <1>3, GlobalIs, RanNothing
<1>5. h.pc = "running" /\ h.site = site /\ handler' = [handler EXCEPT ![q] = h]
  BY <1>1 DEF Runs, Running
<1> HIDE DEF h
<1>6. HandlersInv'
  BY <1>2, <1>3, <1>4, <1>5, HandlerChanges
<1> QED BY <1>2, <1>6, SourcesKept, UpKept

LEMMA ExecMergesLoads ==
    ASSUME Inv, LoadsInv, Kept, NEW q \in Requests, ExecMerges(q) PROVE LoadsInv'
<1> USE DEF Inv, LoadsInv
<1>1. PICK site \in cfg.sites :
          /\ Register(Strings(site, NewStrings(site)))
          /\ \/ Runs(q, site, Merged(site))
             \/ BuildRaises(ruleset_defs', metas', NewStrings(site)) /\ Dies(q, site)
  BY DEF ExecMerges
<1>2. status = "up" /\ UNCHANGED <<cfg, status, start>>
  BY DEF ExecMerges, Begins
<1> DEFINE new == Strings(site, NewStrings(site))
<1>3. /\ DOMAIN new = DOMAIN site.strings \ DOMAIN ruleset_defs
      /\ \A n \in DOMAIN new : new[n] = site.strings[n]
  BY DEF Strings, NewStrings
<1> HIDE DEF new
<1>4. SourcesInv'
  BY <1>1, <1>2, <1>3, StringIsSource, SourcesLoaded DEF new
<1>5. DOMAIN site.strings \subseteq DOMAIN ruleset_defs'
  BY <1>1, <1>3 DEF new, Register, With
<1>6. HandlersInv'
  <2>1. CASE Runs(q, site, Merged(site))
    <3> DEFINE h == Running(site, Merged(site), 1, <<>>)
    <3>1. RanInv(h)
      BY MergedIs, RanNothing DEF ControlInv
    <3>2. h.pc = "running" /\ h.site = site /\ handler' = [handler EXCEPT ![q] = h]
      BY <2>1 DEF Runs, Running
    <3> HIDE DEF h
    <3> QED BY <1>2, <1>5, <3>1, <3>2, HandlerChanges
  <2>2. CASE BuildRaises(ruleset_defs', metas', NewStrings(site)) /\ Dies(q, site)
    <3>1. Nameless'
      BY <2>2, RaisesNameless
    <3> DEFINE h == [pc |-> "died", site |-> site]
    <3>2. h.pc = "died" /\ h.site = site /\ handler' = [handler EXCEPT ![q] = h]
      BY <2>2 DEF Dies
    <3> HIDE DEF h
    <3> QED BY <1>2, <3>1, <3>2, HandlerChanges
  <2> QED BY <1>1, <2>1, <2>2
<1> QED BY <1>2, <1>4, <1>6, UpKept

LEMMA ExecMergeFailsLoads ==
    ASSUME Inv, LoadsInv, Kept, NEW q \in Requests, ExecMergeFails(q) PROVE LoadsInv'
<1> USE DEF Inv, LoadsInv
<1>1. PICK site \in cfg.sites :
          /\ Broken(site) # {} /\ Dies(q, site)
          /\ \E loaded \in SUBSET (NewStrings(site) \ Broken(site)) : Register(Strings(site, loaded))
  BY DEF ExecMergeFails
<1>2. status = "up" /\ UNCHANGED <<cfg, status, start>>
  BY DEF ExecMergeFails, Begins
<1>3. PICK loaded \in SUBSET (NewStrings(site) \ Broken(site)) : Register(Strings(site, loaded))
  BY <1>1
<1> DEFINE new == Strings(site, loaded)
<1>4. DOMAIN new \subseteq DOMAIN site.strings /\ \A n \in DOMAIN new : new[n] = site.strings[n]
  BY DEF Strings, NewStrings
<1> HIDE DEF new
<1>5. SourcesInv'
  BY <1>2, <1>3, <1>4, StringIsSource, SourcesLoaded DEF new
<1>6. OwnFault(site)
  BY <1>1 DEF OwnFault, Broken, NewStrings
<1> DEFINE h == [pc |-> "died", site |-> site]
<1>7. h.pc = "died" /\ h.site = site /\ handler' = [handler EXCEPT ![q] = h]
  BY <1>1 DEF Dies
<1> HIDE DEF h
<1>8. HandlersInv'
  BY <1>2, <1>6, <1>7, HandlerChanges
<1> QED BY <1>2, <1>5, <1>8, UpKept

LEMMA RunsRulesetLoads ==
    ASSUME Inv, LoadsInv, Kept, NEW q \in Requests, RunsRuleset(q) PROVE LoadsInv'
<1> USE DEF Inv, LoadsInv
<1> DEFINE g == handler[q]
<1>1. /\ g.pc = "running" /\ g.at \in DOMAIN g.active /\ Name(q) = g.active[g.at]
      /\ Name(q) \in DOMAIN ruleset_defs /\ UNCHANGED <<cfg, status, start, tables>>
      /\ Run(q, ruleset_defs[Name(q)])
  BY DEF RunsRuleset, InLoop, Name
<1>2. /\ status = "up" /\ g.site \in cfg.sites /\ RanInv(g)
      /\ DOMAIN g.site.strings \subseteq DOMAIN ruleset_defs
  BY <1>1, RunningIs
<1>3. ruleset_defs[Name(q)] \in Sources(Name(q))
  BY <1>1 DEF SourcesInv
<1> DEFINE h == Running(g.site, g.active, g.at + 1, Append(g.ran, <<Name(q), ruleset_defs[Name(q)]>>))
<1>4. RanInv(h)
  BY <1>1, <1>2, <1>3, RanOneMore
<1>5. h.pc = "running" /\ h.site = g.site /\ handler' = [handler EXCEPT ![q] = h]
  BY <1>1 DEF Run, Running
<1> HIDE DEF h, g
<1>6. DOMAIN h.site.strings \subseteq DOMAIN ruleset_defs'
  BY <1>2, <1>5 DEF Kept
<1>7. HandlersInv'
  BY <1>1, <1>2, <1>4, <1>5, <1>6, HandlerChanges
<1> QED BY <1>1, <1>2, <1>7, SourcesKept, UpKept

LEMMA LoadsRulesetLoads ==
    ASSUME Inv, LoadsInv, Kept, NEW q \in Requests, LoadsRuleset(q) PROVE LoadsInv'
<1> USE DEF Inv, LoadsInv
<1> DEFINE g == handler[q]  rs == LoadFile(Name(q))
<1>1. /\ g.pc = "running" /\ g.at \in DOMAIN g.active /\ Name(q) = g.active[g.at]
      /\ rs # Unparsable /\ UNCHANGED <<cfg, status, start>> /\ Register(Only(Name(q), rs))
      /\ Run(q, rs) \/ (BuildRaises(ruleset_defs', metas', {Name(q)}) /\ Dies(q, g.site))
  BY DEF LoadsRuleset, InLoop, Name, Loads
<1>2. /\ status = "up" /\ g.site \in cfg.sites /\ RanInv(g)
      /\ DOMAIN g.site.strings \subseteq DOMAIN ruleset_defs
  BY <1>1, RunningIs
<1>3. rs \in Sources(Name(q))
  BY <1>1, FileIsSource
<1> HIDE DEF rs
<1>4. SourcesInv'
  <2>1. DOMAIN Only(Name(q), rs) = {Name(q)} /\ Only(Name(q), rs)[Name(q)] = rs
    BY DEF Only
  <2> QED BY <1>1, <1>3, <2>1, SourcesLoaded
<1>5. HandlersInv'
  <2>1. CASE Run(q, rs)
    <3> DEFINE h == Running(g.site, g.active, g.at + 1, Append(g.ran, <<Name(q), rs>>))
    <3>1. RanInv(h)
      BY <1>1, <1>2, <1>3, RanOneMore
    <3>2. h.pc = "running" /\ h.site = g.site /\ handler' = [handler EXCEPT ![q] = h]
      BY <2>1 DEF Run, Running
    <3> HIDE DEF h, g
    <3>3. DOMAIN h.site.strings \subseteq DOMAIN ruleset_defs'
      BY <1>2, <3>2 DEF Kept
    <3> QED BY <1>1, <1>2, <3>1, <3>2, <3>3, HandlerChanges
  <2>2. CASE BuildRaises(ruleset_defs', metas', {Name(q)}) /\ Dies(q, g.site)
    <3>1. Nameless'
      BY <2>2, RaisesNameless
    <3> DEFINE h == [pc |-> "died", site |-> g.site]
    <3>2. h.pc = "died" /\ h.site = g.site /\ handler' = [handler EXCEPT ![q] = h]
      BY <2>2 DEF Dies
    <3> HIDE DEF h, g
    <3> QED BY <1>1, <1>2, <3>1, <3>2, HandlerChanges
  <2> QED BY <1>1, <2>1, <2>2
<1> QED BY <1>1, <1>2, <1>4, <1>5, UpKept

LEMMA LoadFailsLoads ==
    ASSUME Inv, LoadsInv, Kept, NEW q \in Requests, LoadFails(q) PROVE LoadsInv'
<1> USE DEF Inv, LoadsInv
<1> DEFINE g == handler[q]  n == Name(q)
<1>1. /\ g.pc = "running" /\ g.at \in DOMAIN g.active /\ n = g.active[g.at]
      /\ n \notin DOMAIN ruleset_defs /\ ~Loads(LoadFile(n), {})
      /\ UNCHANGED <<cfg, status, start, tables>> /\ Dies(q, g.site)
  BY DEF LoadFails, InLoop, Name
<1>2. /\ status = "up" /\ g.site \in cfg.sites /\ RanInv(g)
      /\ DOMAIN g.site.strings \subseteq DOMAIN ruleset_defs
  BY <1>1, RunningIs
<1> HIDE DEF g, n
<1>3. n \in Range(g.active)
  BY <1>1 DEF Range
<1>4. Inits => n \notin Range(cfg.global)
  <2>1. cfg.global \in Seq(Names) /\ DOMAIN cfg.global = 1..Len(cfg.global)
    BY GlobalIs
  <2> QED BY <1>1, <1>2, <2>1, Started DEF Guarded, Passed, Range
<1>5. ~Translated(n) /\ n \notin DOMAIN g.site.strings
  BY <1>1, <1>2, Started
<1>6. n \notin g.site.ignored /\ n \in g.site.added \cup Range(cfg.global)
  <2>1. CASE g.active = Merged(g.site)
    BY <1>2, <1>3, <1>5, <2>1, MergedIs DEF ControlInv
  <2>2. CASE g.active = cfg.global /\ ~Optional(g.site)
    BY <1>3, <2>2 DEF Optional
  <2> QED BY <1>2, <2>1, <2>2 DEF RanInv
<1>7. OwnFault(g.site)
  BY <1>1, <1>4, <1>5, <1>6 DEF OwnFault
<1> DEFINE h == [pc |-> "died", site |-> g.site]
<1>8. h.pc = "died" /\ h.site = g.site /\ handler' = [handler EXCEPT ![q] = h]
  BY <1>1 DEF Dies
<1> HIDE DEF h
<1>9. HandlersInv'
  BY <1>1, <1>2, <1>7, <1>8, HandlerChanges
<1> QED BY <1>1, <1>2, <1>9, SourcesKept, UpKept

LEMMA ExecReturnsLoads ==
    ASSUME Inv, LoadsInv, Kept, NEW q \in Requests, ExecReturns(q) PROVE LoadsInv'
<1> USE DEF Inv, LoadsInv
<1> DEFINE g == handler[q]  h == [g EXCEPT !.pc = "done"]
<1>1. /\ g.pc = "running" /\ g.at \notin DOMAIN g.active
      /\ UNCHANGED <<cfg, status, start, tables>> /\ handler' = [handler EXCEPT ![q] = h]
  BY DEF ExecReturns, InLoop
<1>2. /\ status = "up" /\ g.site \in cfg.sites /\ RanInv(g)
      /\ DOMAIN g.site.strings \subseteq DOMAIN ruleset_defs
  BY <1>1, RunningIs
<1>3. h.pc = "done" /\ h.site = g.site /\ h.active = g.active /\ h.at = g.at /\ h.ran = g.ran
  <2>1. g # NoHandler /\ \A site : g # [pc |-> "died", site |-> site]
    BY <1>1 DEF NoHandler
  <2>2. PICK pc \in {"running", "done"}, k \in Nat \ {0} : \E site, active, ran :
            g = [pc |-> pc, site |-> site, active |-> active, at |-> k, ran |-> ran]
    BY <2>1 DEF ControlInv, IsHandler
  <2>3. PICK site, active, ran :
            g = [pc |-> pc, site |-> site, active |-> active, at |-> k, ran |-> ran]
    BY <2>2
  <2> HIDE DEF g
  <2> QED BY <2>3
<1> HIDE DEF g, h
<1>4. g.at = Len(g.active) + 1
  <2>1. g.active \in Seq(Names) /\ g.at \in 1..(Len(g.active) + 1)
    BY <1>2 DEF RanInv
  <2> QED BY <1>1, <2>1
<1>5. RanInv(h)
  BY <1>2, <1>3, <1>4 DEF RanInv
<1>6. DOMAIN h.site.strings \subseteq DOMAIN ruleset_defs'
  BY <1>2, <1>3 DEF Kept
<1>7. HandlersInv'
  BY <1>1, <1>2, <1>3, <1>5, <1>6, HandlerChanges
<1> QED BY <1>1, <1>2, <1>7, SourcesKept, UpKept

-----------------------------------------------------------------------------

LEMMA LoadsInit ==
    ASSUME Init, Inv PROVE LoadsInv
<1>1. SourcesInv
  BY DEF Init, SourcesInv
<1>2. GuardInv
  <2>1. \A i \in 1..(at - 1) : FALSE
    BY DEF Init
  <2>2. Passed(at - 1)
    BY <2>1 DEF Passed
  <2>3. Inits => \E k \in DOMAIN calls : InitCall(calls[k])
    BY DEF Init, Inits
  <2> QED BY <2>1, <2>2, <2>3 DEF GuardInv
<1>3. TranslatedInv
  BY DEF Init, TranslatedInv, Translated
<1>4. HandlersInv
  <2>1. \A q \in Requests : handler[q].pc = "new"
    BY DEF Init, NoHandler
  <2> QED BY <2>1 DEF HandlersInv
<1> QED BY <1>1, <1>2, <1>3, <1>4 DEF LoadsInv

LEMMA LoadsSteps ==
    ASSUME Inv, LoadsInv, [Next]_vars PROVE LoadsInv'
<1>1. Kept
  BY Steps
<1>2. CASE ValidateLoads
  BY <1>1, <1>2, ValidateLoadsLoads
<1>3. CASE ValidateFails
  BY <1>1, <1>3, ValidateFailsLoads
<1>4. CASE InitEnds
  BY <1>1, <1>4, InitEndsLoads
<1>5. CASE LoadSecrules
  BY <1>1, <1>5, LoadSecrulesLoads
<1>6. CASE WorkerStarts
  BY <1>1, <1>6, WorkerStartsLoads
<1>7. ASSUME NEW q \in Requests,
             \/ ExecGlobal(q) \/ ExecMerges(q) \/ ExecMergeFails(q)
             \/ RunsRuleset(q) \/ LoadsRuleset(q) \/ LoadFails(q) \/ ExecReturns(q)
      PROVE  LoadsInv'
  BY <1>1, <1>7, ExecGlobalLoads, ExecMergesLoads, ExecMergeFailsLoads, RunsRulesetLoads,
     LoadsRulesetLoads, LoadFailsLoads, ExecReturnsLoads
<1>8. CASE UNCHANGED vars
  <2>1. UNCHANGED <<cfg, status, start, tables, handler>>
    BY <1>8 DEF vars, start, tables
  <2>2. GuardInv' /\ TranslatedInv'
    BY <1>1, <2>1, GlobalIs, GuardKept, TranslatedKept DEF Inv, LoadsInv, start
  <2> QED BY <1>1, <2>1, <2>2, SourcesKept, HandlersKept DEF LoadsInv
<1> QED BY <1>2, <1>3, <1>4, <1>5, <1>6, <1>7, <1>8 DEF Next

LEMMA Invariant == Spec => []Inv
<1>1. Init => Inv
  BY InitInv
<1>2. Inv /\ [Next]_vars => Inv'
  BY Steps
<1> QED BY <1>1, <1>2, PTL DEF Spec

LEMMA LoadsInvariant == Spec => [](Inv /\ LoadsInv)
<1>1. Init => Inv /\ LoadsInv
  BY InitInv, LoadsInit
<1>2. Inv /\ LoadsInv /\ [Next]_vars => (Inv /\ LoadsInv)'
  BY Steps, LoadsSteps
<1> QED BY <1>1, <1>2, PTL DEF Spec

\* Whatever the files, the strings of the sites and the calls of init_by_lua are,
\* no handler's place is lost, nothing unparsable is registered and no entry of the
\* exception table is empty or for a rule without id.
THEOREM TypeCorrect == Spec => []TypeOK
<1>1. Inv => TypeOK
  <2> SUFFICES ASSUME Inv PROVE TypeOK
    OBVIOUS
  <2>1. \A q \in Requests :
            /\ handler[q].pc \in {"new", "running", "done", "died"}
            /\ handler[q].pc = "running" => handler[q].at \in Nat \ {0}
    BY DEF Inv, ControlInv, IsHandler, NoHandler
  <2> QED BY <2>1 DEF Inv, ControlInv, DefsInv, TablesInv, TypeOK
<1> QED BY <1>1, Invariant, PTL

\* _build_exception_table, which goes over lookup tables that calculate() fills
\* ruleset by ruleset, leaves every rule that alone has its id with the ids that
\* its exceptions name, in whichever order init(), the merges and the loop of
\* exec() load the rulesets.
THEOREM Exceptions == Spec => []ExceptionsBuilt
<1>1. Inv => ExceptionsBuilt
  BY DEF Inv, DefsInv
<1> QED BY <1>1, Invariant, PTL

\* No merge and no load of exec() replaces a ruleset that is registered: handlers
\* that wait in a rule find the ruleset they were in.
THEOREM NothingReplaced == Spec => DefsKept
<1>1. Inv /\ [Next]_vars => [status = "up" => Kept]_vars
  BY Steps
<1> QED BY <1>1, Invariant, PTL DEF Spec, DefsKept


\* In rulesets that validate() let pass, two rules with one id are links of a chain.
LEMMA OneIdOneChain ==
    ASSUME Guarded, cfg.global \in Seq(Names),
           NEW m \in Range(cfg.global), NEW n \in Range(cfg.global),
           IsRuleset(ruleset_defs[m]), IsRuleset(ruleset_defs[n]),
           NEW p \in DOMAIN ruleset_defs[m], NEW s \in DOMAIN ruleset_defs[n],
           NEW j \in DOMAIN ruleset_defs[m][p], NEW k \in DOMAIN ruleset_defs[n][s],
           ruleset_defs[m][p][j].id = ruleset_defs[n][s][k].id,
           ruleset_defs[m][p][j].id # NoId
    PROVE  /\ m = n /\ p = s
           /\ \A i \in j..(k - 1) \cup k..(j - 1) : ruleset_defs[m][p][i].chain
<1> DEFINE a == ruleset_defs[m]  b == ruleset_defs[n]
<1>1. a = LoadFile(m) /\ b = LoadFile(n)
  BY DEF Guarded
<1>2. PICK u \in 1..Len(cfg.global), v \in 1..Len(cfg.global) : cfg.global[u] = m /\ cfg.global[v] = n
  BY DEF Range
<1>3. UniqueIds(a) /\ (u # v => Ids(a) \cap Ids(b) = {})
  BY <1>1, <1>2 DEF Guarded, Passed
<1> HIDE DEF a, b
<1>4. PICK g \in 1..j : /\ <<p, g>> \in Heads(a) /\ a[p][g].id = a[p][j].id
                        /\ \A i \in g..(j - 1) : a[p][i].chain
  BY HeadOf DEF a
<1>5. PICK h \in 1..k : /\ <<s, h>> \in Heads(b) /\ b[s][h].id = b[s][k].id
                        /\ \A i \in h..(k - 1) : b[s][i].chain
  BY HeadOf DEF b
<1>6. IdAt(a, <<p, g>>) = IdAt(b, <<s, h>>)
  BY <1>4, <1>5 DEF IdAt, a, b
<1>7. IdAt(a, <<p, g>>) \in Ids(a) \cap Ids(b)
  BY <1>4, <1>5, <1>6 DEF Ids
<1>8. u = v
  BY <1>3, <1>7
<1>9. m = n /\ a = b
  BY <1>2, <1>8 DEF a, b
<1>10. <<p, g>> = <<s, h>>
  BY <1>3, <1>4, <1>5, <1>6, <1>9 DEF UniqueIds
<1>11. p = s /\ g = h
  BY <1>10
<1>12. ASSUME NEW i \in j..(k - 1) PROVE a[p][i].chain
  <2>1. i \in h..(k - 1)
    <3>1. j \in Nat /\ k \in Nat
      BY DEF IsRuleset
    <3> QED BY <1>4, <1>11, <3>1
  <2> QED BY <1>5, <1>9, <1>11, <2>1
<1>13. ASSUME NEW i \in k..(j - 1) PROVE a[p][i].chain
  <2>1. i \in g..(j - 1)
    <3>1. j \in Nat /\ k \in Nat
      BY DEF IsRuleset
    <3> QED BY <1>5, <1>11, <3>1
  <2> QED BY <1>4, <2>1
<1> QED BY <1>9, <1>11, <1>12, <1>13 DEF a

\* init() lets no worker start in which a distributed ruleset is missing or an id
\* stands for two rules, whatever the files, and whatever is called and loaded
\* before and after it: ids that a ruleset shares with one that validate() comes
\* to later are found, and what failed is not forgotten.
THEOREM InitIsAGuard == Spec => []InitGuards
<1>1. Inv /\ LoadsInv => InitGuards
  <2> SUFFICES ASSUME Inv, LoadsInv, status = "up", Inits PROVE InitGuards
    BY DEF InitGuards
  <2>1. Guarded
    BY Started
  <2>2. cfg.global \in Seq(Names)
    BY GlobalIs DEF Inv
  <2>3. Range(cfg.global) \subseteq DOMAIN ruleset_defs
    BY <2>1, <2>2 DEF Guarded, Passed, Range
  <2>4. \A n \in Range(cfg.global) : IsRuleset(ruleset_defs[n])
    BY <2>3 DEF Inv, DefsInv, TablesInv
  <2>5. ASSUME NEW m \in Range(cfg.global), NEW n \in Range(cfg.global),
               NEW p \in DOMAIN ruleset_defs[m], NEW s \in DOMAIN ruleset_defs[n],
               NEW j \in DOMAIN ruleset_defs[m][p], NEW k \in DOMAIN ruleset_defs[n][s],
               ruleset_defs[m][p][j].id = ruleset_defs[n][s][k].id,
               ruleset_defs[m][p][j].id # NoId
        PROVE  /\ m = n /\ p = s
               /\ \A i \in j..(k - 1) \cup k..(j - 1) : ruleset_defs[m][p][i].chain
    BY <2>1, <2>2, <2>4, <2>5, OneIdOneChain
  <2> QED BY <2>3, <2>5 DEF InitGuards
<1> QED BY <1>1, LoadsInvariant, PTL

\* exec() runs what its own options and the distributed rulesets call for, each
\* from a source of its name, however many other requests load in between.
THEOREM RunsWhatItShould == Spec => []RunsItsRulesets
<1>1. Inv /\ LoadsInv => RunsItsRulesets
  <2> SUFFICES ASSUME Inv, LoadsInv, NEW q \in Requests, handler[q].pc = "done"
               PROVE  LET site == handler[q].site
                          ran  == [k \in DOMAIN handler[q].ran |-> handler[q].ran[k][1]]
                      IN  /\ Range(ran) = (Range(cfg.global) \cup site.added \cup DOMAIN site.strings)
                                             \ site.ignored
                          /\ IsInjective(cfg.global) \/ Optional(site) => IsInjective(ran)
                          /\ Increasing(cfg.global) \/ Optional(site) => Increasing(ran)
                          /\ \A k \in DOMAIN ran : handler[q].ran[k][2] \in Sources(ran[k])
    BY DEF RunsItsRulesets
  <2> DEFINE h == handler[q]
             ran == [k \in DOMAIN h.ran |-> h.ran[k][1]]
  <2>1. RanInv(h) /\ h.site \in cfg.sites /\ cfg \in Configs
    BY DEF LoadsInv, HandlersInv, Inv, ControlInv
  <2> HIDE DEF h
  <2>2. /\ h.active \in Seq(Names) /\ h.ran \in Seq(Range(h.ran)) /\ Len(h.ran) = Len(h.active)
        /\ \A k \in 1..Len(h.active) :
              h.ran[k][1] = h.active[k] /\ h.ran[k][2] \in Sources(h.active[k])
    <3>1. h.at = Len(h.active) + 1 /\ h.active \in Seq(Names)
      BY <2>1 DEF RanInv, h
    <3>2. h.at - 1 = Len(h.active)
      BY <3>1
    <3> QED BY <2>1, <3>1, <3>2 DEF RanInv
  <2>3. DOMAIN h.ran = 1..Len(h.active) /\ DOMAIN h.active = 1..Len(h.active)
    BY <2>2
  <2>4. ran = h.active
    BY <2>2, <2>3
  <2>5. \A k \in DOMAIN ran : h.ran[k][2] \in Sources(ran[k])
    BY <2>2, <2>3, <2>4
  <2> HIDE DEF ran
  <2>6. CASE ran = Merged(h.site)
    <3>1. /\ Increasing(ran)
          /\ Range(ran) = (Range(cfg.global) \cup h.site.added \cup DOMAIN h.site.strings) \ h.site.ignored
      BY <2>1, <2>6, MergedIs
    <3>2. IsInjective(ran)
      <4> SUFFICES ASSUME NEW i \in DOMAIN ran, NEW j \in DOMAIN ran, ran[i] = ran[j] PROVE i = j
        BY DEF IsInjective
      <4>1. i \in Nat /\ j \in Nat /\ ran[i] \in Nat /\ ran[j] \in Nat
        <5>1. h.active \in [1..Len(h.active) -> Names] /\ Len(h.active) \in Nat
          BY <2>2, LenProperties
        <5>2. i \in 1..Len(h.active) /\ j \in 1..Len(h.active)
          BY <2>3, <2>4
        <5>3. ran[i] \in Names /\ ran[j] \in Names
          BY <2>4, <5>1, <5>2
        <5>4. ran[i] \in Nat /\ ran[j] \in Nat
          BY <5>3, NamesAssumption DEF NamesAssumption
        <5> QED BY <5>1, <5>2, <5>4
      <4>2. ~(i < j) /\ ~(j < i)
        BY <3>1, <4>1 DEF Increasing
      <4> QED BY <4>1, <4>2
    <3> QED BY <2>5, <3>1, <3>2 DEF h, ran
  <2>7. CASE ran = cfg.global /\ ~Optional(h.site)
    <3>1. Range(ran) = (Range(cfg.global) \cup h.site.added \cup DOMAIN h.site.strings) \ h.site.ignored
      BY <2>7 DEF Optional
    <3> QED BY <2>5, <2>7, <3>1 DEF h, ran
  <2> QED BY <2>1, <2>4, <2>6, <2>7 DEF RanInv
<1> QED BY <1>1, LoadsInvariant, PTL

\* No site makes a request to another one fail: a handler that dies has an option of
\* its own to blame, a distributed ruleset that no init() checked, or a rule without id.
THEOREM FailuresAreOnesOwn == Spec => []DiesOfItsOwn
<1>1. Inv /\ LoadsInv => DiesOfItsOwn
  BY DEF LoadsInv, HandlersInv, DiesOfItsOwn
<1> QED BY <1>1, LoadsInvariant, PTL
=============================================================================
