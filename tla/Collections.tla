---------------------------- MODULE Collections ----------------------------
(***************************************************************************)
(* What the rules of lua-resty-waf look at (src/lib/resty/waf.lua): a rule's  *)
(* variables name collections of the request, of which they take a part; the  *)
(* rule transforms what it takes, and the result is kept in ctx for the other  *)
(* rules of the transaction, under a key that rule_calc has built from         *)
(* variable and transform. sieve_rule and sieve_ruleset take elements away     *)
(* from the variables of some rules, for one transaction.                     *)
(*                                                                         *)
(* Which of its elements makes a rule match is left open. A collection is a   *)
(* set of entries, each of a key (of none in a plain string), and the         *)
(* patterns of regex parsers and sieves are the sets of keys they find.       *)
(* A transform is its name. What else a match does is in Transaction and       *)
(* Storage: here every handler runs to its end and saves ctx.                 *)
(***************************************************************************)
EXTENDS Rules, Functions, FiniteSets

CONSTANTS
    Deployments,   \* the rulesets a worker has loaded: [name, rules: by phase]
    Requests,      \* requests and their responses: collections by type
    Sieves,        \* sieves an access or later handler may ask for
    SieveIds,      \* the ids it may ask for them with
    MaxCalls       \* bound: the sieve calls of a transaction

Phases == <<"access", "header_filter", "body_filter", "log">>

\* A rule id is a number in rulesets of JSON, and a string in translated ones.
Id(n, form) == [n |-> n, form |-> form]
NoRuleId    == Id(0, "none")
RuleIds     == [n : Nat, form : STRING]

Types == {"REQUEST_ARGS", "REQUEST_URI", "TX", "RESPONSE_HEADERS", "MATCHED_VAR"}

NoKey   == "no key"
NoParse == "none"

\* Strings: those that the model writes are named, since no prover knows that a
\* string it is shown is one.
Text       == STRING \cup {NoKey, "0", "", "count"}
Entry      == [key : Text, value : Text]
Collection == [table : BOOLEAN, entries : SUBSET Entry]

Tab(entries) == [table |-> TRUE, entries |-> entries]
Str(v)       == [table |-> FALSE, entries |-> {[key |-> NoKey, value |-> v]}]
NoCollection == [table |-> FALSE, entries |-> {}]

\* What an operator is handed: nil, entries and their transforms, or a count.
Nothing  == [some |-> FALSE, entries |-> {}, transform |-> <<>>, count |-> 0]
Some(es) == [Nothing EXCEPT !.some = TRUE, !.entries = es]

-----------------------------------------------------------------------------
(* Variables of rules: [type, parse, arg, ignore, storage, length, and, once   *)
(* the ruleset is loaded, collection_key].                                    *)

Parses   == {NoParse, "specific", "regex", "keys", "values", "all"}
Ignore   == [action : STRING, keys : SUBSET STRING]
Variable == [type : Types, parse : Parses, arg : SUBSET STRING, ignore : Seq(Ignore),
             storage : BOOLEAN, length : BOOLEAN]

\* A rule has at least one variable, if only one that is always there.
IsRule(rule) ==
    /\ {"id", "disrupt", "skip", "skip_after", "transform", "vars", "op_negated"}
           \subseteq DOMAIN rule
    /\ rule.id \in RuleIds /\ rule.skip \in Nat \cup {NoSkip}
    /\ rule.vars \in Seq(Variable) \ {<<>>}

IsRuleset(s) ==
    /\ DOMAIN s = {"name", "rules"}
    /\ s.name # NoKey /\ DOMAIN s.rules = Range(Phases)
    /\ \A p \in Range(Phases) : /\ s.rules[p] \in Seq(Range(s.rules[p]))
                                /\ \A rule \in Range(s.rules[p]) : IsRule(rule)

ASSUME DeploymentsAssumption ==
    \A d \in Deployments : /\ d \in Seq(Range(d)) \ {<<>>}
                           /\ \A s \in Range(d) : IsRuleset(s)
                           /\ \A s, q \in Range(d) : s.name = q.name => s = q
ASSUME RequestsAssumption == Requests \subseteq [Types -> Collection]

\* Mutant: the exclusions are left out of the key.
CollectionKeyOfAll(var, transform) == <<var.type, var.parse, var.arg, transform>>

\* build_collection_key
CollectionKey(var, transform) ==
    <<var.type, var.parse, var.arg, var.ignore, transform>>

\* What calculate() adds to the variables of a rule.
WithKey(var, transform) ==
    [type |-> var.type, parse |-> var.parse, arg |-> var.arg, ignore |-> var.ignore,
     storage |-> var.storage, length |-> var.length,
     collection_key |-> CollectionKey(var, transform)]

Keyed(rule) == [rule EXCEPT !.vars = [n \in DOMAIN @ |-> WithKey(@[n], rule.transform)]]

\* Mutant: the first exclusion alone.
KeptFirst(entries, ignore) ==
    {e \in entries : \A j \in DOMAIN ignore : j = 1 => e.key \notin ignore[j].keys}

\* sieve_collection: the entries no exclusion names.
Kept(entries, ignore) ==
    {e \in entries : \A j \in DOMAIN ignore : e.key \notin ignore[j].keys}

\* parse_collection
Selected(entries, var) ==
    LET named == {e \in entries : e.key \in var.arg}
        keys  == {[key |-> e.key, value |-> e.key] : e \in entries}
    IN  CASE var.parse = "specific" -> IF named = {} THEN Nothing ELSE Some(named)
          [] var.parse = "regex"    -> Some(named)
          [] var.parse = "keys"     -> Some(keys)
          [] var.parse = "values"   -> Some(entries)
          [] var.parse = "all"      -> Some(keys \cup entries)

\* _parse_collection: exclusions count only where there is something to parse.
Parsed(c, var) ==
    CASE var.parse = NoParse /\ c = NoCollection -> Nothing
      [] var.parse = NoParse /\ c # NoCollection -> Some(c.entries)
      [] var.parse # NoParse /\ ~c.table         -> Nothing
      [] OTHER -> Selected(Kept(c.entries, var.ignore), var)

\* _do_transform
Transformed(read, transform) ==
    IF read.some THEN [read EXCEPT !.transform = transform] ELSE read

\* The length of what was read, in its place: none of a table that is not a list.
Counted(read, var) ==
    IF ~var.length THEN read
    ELSE [Nothing EXCEPT !.some = TRUE,
                         !.count = IF var.parse = NoParse /\ var.storage THEN 0
                                   ELSE Cardinality(read.entries)]

-----------------------------------------------------------------------------
(* Sieves: [type, action, elts], elts a sequence of sets of keys.             *)

\* translate.valid_vars, those that sieves are used with.
ValidVars == [ARGS             |-> [type |-> "REQUEST_ARGS", parse |-> "values"],
              ARGS_NAMES       |-> [type |-> "REQUEST_ARGS", parse |-> "keys"],
              RESPONSE_HEADERS |-> [type |-> "RESPONSE_HEADERS", parse |-> "values"]]

Sieve == [type : DOMAIN ValidVars, action : STRING, elts : Seq(SUBSET STRING)]

ASSUME SievesAssumption ==
    Sieves \subseteq Seq(Sieve) /\ SieveIds \subseteq RuleIds /\ MaxCalls \in Nat

\* _sieve_parse_matches, for the variables of the sieve's type.
AimsAt(sieve, var) ==
    /\ ValidVars[sieve.type].type = var.type
    /\ \/ ValidVars[sieve.type].parse = var.parse
       \/ var.parse = "all"

IsTarget(sieve, vars, n) == /\ n \in DOMAIN vars /\ AimsAt(sieve, vars[n])
                            /\ \A m \in 1..(n - 1) : ~AimsAt(sieve, vars[m])

HasTarget(sieve, vars) == \E n \in DOMAIN vars : AimsAt(sieve, vars[n])

\* The exclusions are written from the first place on, over those there are.
Overwritten(ignore, sieve) ==
    [j \in DOMAIN sieve.elts |-> [action |-> sieve.action, keys |-> sieve.elts[j]]]
        \o SubSeq(ignore, Len(sieve.elts) + 1, Len(ignore))

\* Mutant: the key is not renewed.
SievedVarKeyKept(var, sieve, transform) ==
    [var EXCEPT !.ignore = Overwritten(@, sieve)]

SievedVar(var, sieve, transform) ==
    LET sieved == [var EXCEPT !.ignore = Overwritten(@, sieve)]
    IN  [sieved EXCEPT !.collection_key = CollectionKey(sieved, transform)]

\* A sieve changes the first variable it aims at.
OnceSieved(vars, sieve, transform) ==
    [n \in DOMAIN vars |-> IF IsTarget(sieve, vars, n)
                           THEN SievedVar(vars[n], sieve, transform) ELSE vars[n]]

\* Sieves follow one another.
Sieved(vars, sieves, transform) ==
    LET after[n \in 0..Len(sieves)] ==
            IF n = 0 THEN vars ELSE OnceSieved(after[n - 1], sieves[n], transform)
    IN  after[Len(sieves)]

-----------------------------------------------------------------------------

VARIABLES
    rulesets,          \* _ruleset_defs: those that are active come first, in the
                       \* order they run
    active,            \* how many of them the request's waf runs
    request,
    stage,             \* the phase nginx is in, 1 .. 4, or 5: request over
    pc,                \* "enter": the next handler is due; "rules"; "failed": an
                       \* error, after which the transaction is not followed
    collections,
    target_update_map, \* the sieved variables, by rule id
    transform,         \* ctx.transform: what has been read, by collection_key
    r, offset, k,      \* the ruleset, the rule in it and the variable at hand
    calls              \* ghost: the sieve calls so far

vars == <<rulesets, active, request, stage, pc, collections, target_update_map, transform,
          r, offset, k, calls>>

phase == Phases[stage]
Over  == stage = 5 \/ pc = "failed"

\* collections.lookup: what a phase provides.
Provided(p) == CASE p = "access"        -> {"REQUEST_ARGS", "REQUEST_URI", "TX"}
                 [] p = "header_filter" -> {"RESPONSE_HEADERS"}
                 [] OTHER               -> {}

RulesOf(ruleset) == UNION {Range(ruleset.rules[p]) : p \in Range(Phases)}

Loaded(ruleset) ==
    [ruleset EXCEPT !.rules = [p \in DOMAIN @ |-> [n \in DOMAIN @[p] |-> Keyed(@[p][n])]]]

Init == /\ \E d \in Deployments : rulesets = [n \in DOMAIN d |-> Loaded(d[n])]
        /\ active \in DOMAIN rulesets
        /\ request \in Requests
        /\ stage = 1 /\ pc = "enter"
        /\ collections = [t \in Types |-> NoCollection]
        /\ target_update_map = <<>> /\ transform = <<>>
        /\ r = 1 /\ offset = 1 /\ k = 1
        /\ calls = <<>>

-----------------------------------------------------------------------------
(* sieve_rule and sieve_ruleset, in a handler before exec().                  *)

SieveCall == /\ pc = "enter" /\ ~Over
             /\ Len(calls) < MaxCalls
             /\ UNCHANGED <<rulesets, active, request, stage, collections, transform, r, offset, k>>

\* Ids are compared as strings, but the sieved variables are kept under the id
\* of the call. The first rule found is the one whose variables are copied, be its
\* ruleset active or not.
FirstWithId(id, rule) ==
    \E s \in Range(rulesets), p \in Range(Phases) : \E n \in DOMAIN s.rules[p] :
        /\ rule = s.rules[p][n] /\ rule.id.n = id.n
        /\ \A m \in 1..(n - 1) : s.rules[p][m].id.n # id.n

SieveRule(id, sieves) ==
    /\ SieveCall
    /\ id \notin DOMAIN target_update_map
    /\ \E rule \in UNION {RulesOf(s) : s \in Range(rulesets)} :
           /\ FirstWithId(id, rule)
           /\ target_update_map' =
                  [x \in {id} \cup DOMAIN target_update_map |->
                      IF x = id THEN Sieved(rule.vars, sieves, rule.transform)
                      ELSE target_update_map[x]]
    /\ calls' = Append(calls, [ruleset |-> NoKey, id |-> id, sieves |-> sieves])
    /\ UNCHANGED pc

\* A rule that was sieved before is not looked for again, and its transform is
\* then taken from nil: an error, at the first variable the sieves aim at.
SieveRuleDies(id, sieves) ==
    /\ SieveCall
    /\ id \in DOMAIN target_update_map
    /\ \E sieve \in Range(sieves) : HasTarget(sieve, target_update_map[id])
    /\ pc' = "failed"
    /\ UNCHANGED <<target_update_map, calls>>

IsLastWithId(s, id, rule) ==
    \E p \in Range(Phases) : \E n \in DOMAIN s.rules[p] :
        /\ rule = s.rules[p][n] /\ rule.id = id
        /\ \A m \in (n + 1)..Len(s.rules[p]) : s.rules[p][m].id # id

LastRule(s, id) == CHOOSE rule \in RulesOf(s) : IsLastWithId(s, id, rule)

\* sieve_ruleset copies the variables of all rules of the ruleset (of those that
\* share an id, the last one's) and then sieves everything that is in the map;
\* the transforms it knows are those of the ruleset. Its phases come in no order:
\* which rule is last is left to CHOOSE where an id is in several.
SieveRuleset(s, sieves) ==
    LET ids == {rule.id : rule \in RulesOf(s)}
    IN  /\ SieveCall
        /\ target_update_map' =
               [id \in ids \cup DOMAIN target_update_map |->
                   IF id \in ids
                   THEN Sieved(LastRule(s, id).vars, sieves, LastRule(s, id).transform)
                   ELSE Sieved(target_update_map[id], sieves, <<>>)]
        /\ calls' = Append(calls, [ruleset |-> s.name, id |-> NoRuleId, sieves |-> sieves])
        /\ UNCHANGED pc

-----------------------------------------------------------------------------
(* exec()                                                                    *)

Exec == /\ pc = "enter" /\ ~Over
        /\ pc' = "rules"
        /\ collections' = [t \in Types |-> IF t \in Provided(phase) THEN request[t]
                                           ELSE collections[t]]
        /\ r' = 1 /\ offset' = 1 /\ k' = 1
        /\ UNCHANGED <<rulesets, active, request, stage, target_update_map, transform, calls>>

rules == rulesets[r].rules[phase]
rule  == rules[offset]

AtRule == pc = "rules" /\ offset \in DOMAIN rules

\* The variable at hand: the rule's, or what sieves have put in its place.
Vars   == IF rule.id \in DOMAIN target_update_map THEN target_update_map[rule.id]
          ELSE rule.vars
AtVar  == AtRule /\ k \in DOMAIN Vars
var    == Vars[k]

\* What the variable would be if nothing were kept.
Fresh(v, t) == IF v.storage THEN Parsed(collections[v.type], v)
               ELSE Transformed(Parsed(collections[v.type], v), t)

\* _build_collection: TX and the persistent collections are not kept, nor are they
\* transformed.
Read == IF ~var.storage /\ var.collection_key \in DOMAIN transform
        THEN transform[var.collection_key]
        ELSE Fresh(var, rule.transform)

Build == /\ AtVar
         /\ transform' = IF var.storage THEN transform
                         ELSE [key \in {var.collection_key} \cup DOMAIN transform |->
                                  IF key = var.collection_key THEN Read ELSE transform[key]]
         /\ UNCHANGED <<rulesets, active, request, stage, pc, target_update_map, r, calls>>

\* Mutant: the variables are counted on.
MovesOn(distance) == /\ offset' = IF distance = Nil THEN Nil ELSE offset + distance
                     /\ k' = k

\* The next rule, by an offset; the loop leaves a ruleset by nil or past its end.
Moves(distance) == /\ offset' = IF distance = Nil THEN Nil ELSE offset + distance
                   /\ k' = 1

\* An operator matches on one entry, or on a count; a negated one on none.
Match ==
    /\ Build
    /\ Counted(Read, var).some
    /\ \E v \in IF rule.op_negated THEN {""}
                ELSE IF var.length THEN {"count"}
                ELSE {e.value : e \in Read.entries} :
           collections' =
               [collections EXCEPT
                   !["MATCHED_VAR"] = Str(v),
                   !["TX"] = IF rule.op_negated THEN @
                             ELSE Tab({e \in @.entries : e.key # "0"}
                                         \cup {[key |-> "0", value |-> v]})]
    /\ Moves(Offsets(rules)[offset].match)

\* No match, or nothing to match on: the next variable.
NoMatch ==
    /\ Build
    /\ UNCHANGED collections
    /\ IF k < Len(rule.vars) THEN k' = k + 1 /\ UNCHANGED offset
       ELSE Moves(Offsets(rules)[offset].nomatch)

\* The rule has more variables than what sieves have put in their place.
VarDies == /\ AtRule /\ k \notin DOMAIN Vars
           /\ pc' = "failed"
           /\ UNCHANGED <<rulesets, active, request, stage, collections, target_update_map,
                          transform, r, offset, k, calls>>

RulesetDone == pc = "rules" /\ offset \notin DOMAIN rules

NextRuleset == /\ RulesetDone
               /\ r < active
               /\ r' = r + 1 /\ offset' = 1 /\ k' = 1
               /\ UNCHANGED <<rulesets, active, request, stage, pc, collections, target_update_map,
                              transform, calls>>

ExecEnds == /\ RulesetDone
            /\ r = active
            /\ pc' = "enter" /\ stage' = stage + 1
            /\ UNCHANGED <<rulesets, active, request, collections, target_update_map, transform,
                           r, offset, k, calls>>

Finished == Over /\ UNCHANGED vars

Next == \/ \E sieves \in Sieves :
               \/ \E id \in SieveIds : SieveRule(id, sieves) \/ SieveRuleDies(id, sieves)
               \/ \E s \in Range(rulesets) : SieveRuleset(s, sieves)
        \/ Exec \/ Match \/ NoMatch \/ VarDies
        \/ NextRuleset \/ ExecEnds \/ Finished

Spec == Init /\ [][Next]_vars

-----------------------------------------------------------------------------

TypeOK == /\ stage \in 1..5 /\ pc \in {"enter", "rules", "failed"}
          /\ \A t \in Types : collections[t].entries \subseteq Entry
          /\ \A key \in DOMAIN transform : transform[key].entries \subseteq Entry
          /\ \A id \in DOMAIN target_update_map : id \in RuleIds
          /\ active \in DOMAIN rulesets /\ r \in 1..active
          /\ offset \in Nat /\ k \in Nat \ {0}
          /\ AtRule => k \in DOMAIN rule.vars

Places == UNION {{x} \X {p} \X DOMAIN rulesets[x].rules[p] :
                    x \in DOMAIN rulesets, p \in Range(Phases)}
At(place) == rulesets[place[1]].rules[place[2]][place[3]]

\* A call that names a rule, by its id or its ruleset.
Names(call, place) == IF call.ruleset = NoKey THEN call.id = At(place).id
                      ELSE call.ruleset = rulesets[place[1]].name
Here == <<r, phase, offset>>
Naming(call) == Names(call, Here)

\* sieve_ruleset comes before the calls for single rules, once.
Orderly == \A n \in 2..Len(calls) : calls[n].ruleset = NoKey

\* No sieve names the links of a chain, which share their id: what the map has
\* for one of them replaces the variables of all.
SievesApart ==
    \A place, other \in Places :
        (\E call \in Range(calls) : Names(call, place)) /\ At(place).id.n = At(other).id.n
            => place = other

\* What is kept in ctx is what the rule would read itself: the key tells apart
\* all that makes a difference, sieves included, whichever rules of whichever
\* phases have read before. (The last match is another matter.)
ReadsFresh ==
    AtVar /\ var.type # "MATCHED_VAR" /\ Orderly /\ SievesApart
        => Read = Fresh(var, rule.transform)

\* No sieve that names the rule at hand excludes what it is shown of its
\* variable, unless a later sieve of the same variable takes its place.
Unseen ==
    AtVar => \A c \in DOMAIN calls : \A m \in DOMAIN calls[c].sieves :
        LET Aims(i, j) == /\ Naming(calls[i])
                          /\ IsTarget(calls[i].sieves[j], rule.vars, k)
            last == \A i \in c..Len(calls) : \A j \in DOMAIN calls[i].sieves :
                        i > c \/ j > m => ~Aims(i, j)
        IN  Aims(c, m) /\ last =>
                \A e \in Read.entries, keys \in Range(calls[c].sieves[m].elts) :
                    e.key \notin keys

\* What a sieve excludes from a rule's variable the rule does not see, in no
\* phase, though other rules read the same collection unsieved before it.
SievedUnseen == Orderly /\ SievesApart => Unseen

\* What a rule does not see of a collection, an exclusion of its own keeps from
\* it, or one that was asked for this rule and this variable.
Explained ==
    AtVar /\ k \in DOMAIN rule.vars /\ var.type # "MATCHED_VAR" =>
        LET own == rule.vars[k]
            all == Fresh([own EXCEPT !.ignore = <<>>], rule.transform).entries
        IN  \A e \in all \ Read.entries :
                \/ e \notin Kept({e}, own.ignore)
                \/ \E call \in Range(calls) : /\ Naming(call)
                      /\ \E sieve \in Range(call.sieves) :
                             /\ IsTarget(sieve, rule.vars, k)
                             /\ \E keys \in Range(sieve.elts) : e.key \in keys

\* A sieve hides nothing from the rules and variables it does not name, though
\* they share collections and what is kept of them.
SievesOnlyTheirs == Orderly /\ SievesApart => Explained

-----------------------------------------------------------------------------
(* What the proofs suppose of rulesets. A variable that is read before its phase  *)
(* provides it is kept as nil, and is nil to all rules of later phases too.      *)

\* What phases up to the n-th provide.
ProvidedBy(n) == UNION {Provided(Phases[m]) : m \in 1..n}

\* A rule reads what its phase or one before it provides, or the last match, and what
\* rules may change is not kept.
ReadInTime(v, n) == \/ v.type = "MATCHED_VAR"
                    \/ v.type \in ProvidedBy(n) /\ (v.type = "TX" => v.storage)

\* Every rule of the rulesets that may be loaded reads what its phase or one before it
\* provides.
RulesInTime ==
    \A d \in Deployments : \A s \in Range(d) : \A n \in DOMAIN Phases :
        \A x \in Range(s.rules[Phases[n]]) : \A j \in DOMAIN x.vars : ReadInTime(x.vars[j], n)

=============================================================================
