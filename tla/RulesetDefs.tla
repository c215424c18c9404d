----------------------------- MODULE RulesetDefs -----------------------------
(***************************************************************************)
(* How rulesets get into a worker of lua-resty-waf, and to its handlers:      *)
(* src/lib/resty/waf.lua with check_duplicate_ids and rule_exception of       *)
(* src/lib/resty/waf/util.lua. init() validates the distributed rulesets and  *)
(* load_secrules() translates others before requests come. exec() merges what *)
(* the options of its site add and ignore, and loads what is not there yet.   *)
(* Whatever is loaded stays in _ruleset_defs, which all requests of the       *)
(* worker share, and makes entries in _meta_exception: which rules have which *)
(* msg or tag, and which rules a rule with exceptions removes.               *)
(*                                                                         *)
(* A handler loads without waiting, but the rules it runs may wait, so other   *)
(* handlers load between two of its rulesets.                               *)
(*                                                                         *)
(* A ruleset is a function from phases to sequences of rules. Of a rule there *)
(* is its id, whether the next rule of its chain follows, its msg and tags    *)
(* (metas), and the metas that its exceptions are found in. What a handler     *)
(* does with the rules is in Transaction, their offsets are in RuleCalc.      *)
(***************************************************************************)
EXTENDS Integers, FiniteSets, Sequences, Functions

CONSTANTS
    Requests,
    Names,             \* names of rulesets, as their place in the order of strings
    Configs            \* deployments

ASSUME NamesAssumption == Names \subseteq Nat

\* What stands for a file that is not there or that cannot be parsed, and for
\* a string that cannot be parsed; and for the id of a rule without one.
Unparsable == [error |-> "could not decode"]
NoId       == 0

Rules(rs) == UNION {Range(rs[p]) : p \in DOMAIN rs}

IsRule(x) == x.id \in Nat /\ x.chain \in BOOLEAN
IsRuleset(rs) == \A p \in DOMAIN rs : rs[p] \in Seq(Range(rs[p])) /\ \A x \in Range(rs[p]) : IsRule(x)
IsSource(rs) == rs # Unparsable => IsRuleset(rs)

InitCall(c)  == c.call = "init"
SecrulesCall(c) == c.call = "load_secrules"

\* A site is a location and the options its access handler sets. The files that
\* load_secrules() reads have names of their own.
ASSUME ConfigsAssumption ==
    \A c \in Configs :
        /\ c.global \in Seq(Names)
        /\ c.start \in Seq(Range(c.start))
        /\ \A k \in DOMAIN c.start : LET s == c.start[k] IN
              \/ InitCall(s)
              \/ /\ SecrulesCall(s) /\ s.name \in Names \ Range(c.global) /\ IsRuleset(s.rules)
                 /\ \A j \in DOMAIN c.start \ {k} : SecrulesCall(c.start[j]) => c.start[j].name # s.name
        /\ DOMAIN c.files \subseteq Names /\ \A n \in DOMAIN c.files : IsSource(c.files[n])
        /\ \A s \in c.sites :
              /\ s.added \subseteq Names /\ IsFiniteSet(s.added) /\ s.ignored \subseteq Names
              /\ DOMAIN s.strings \subseteq Names /\ IsFiniteSet(DOMAIN s.strings)
              /\ \A n \in DOMAIN s.strings : IsSource(s.strings[n])

VARIABLES
    cfg,
    status,            \* of the worker: "starting", "up", or "refused" by init()
    calls,             \* what init_by_lua has yet to call
    at, id_registry, errors,    \* validate()'s loop: place in global_rulesets, ids seen
    ruleset_defs,      \* _ruleset_defs
    metas,             \* _meta_exception.msgs and .tags: pairs of a meta and a rule's id
    meta_ids,          \* _meta_exception.meta_ids
    handler,           \* the exec() of each request
    unbuilt            \* history: what was loaded since the exception table was built

tables == <<ruleset_defs, metas, meta_ids, unbuilt>>
start  == <<calls, at, id_registry, errors>>
vars   == <<cfg, status, calls, at, id_registry, errors, ruleset_defs, metas, meta_ids, handler, unbuilt>>

-----------------------------------------------------------------------------

(* check_duplicate_ids, calculate()'s lookup tables, the exception table.    *)

IsChainLink(rules, k) == /\ k - 1 \in DOMAIN rules
                         /\ rules[k - 1].id = rules[k].id /\ rules[k - 1].chain

IdAt(rs, place) == rs[place[1]][place[2]].id

\* The places whose ids are registered: links of a chain repeat its head's id.
Heads(rs) == {h \in UNION {{p} \X DOMAIN rs[p] : p \in DOMAIN rs} :
                 IdAt(rs, h) # NoId /\ ~IsChainLink(rs[h[1]], h[2])}
Ids(rs)   == {IdAt(rs, h) : h \in Heads(rs)}

UniqueIds(rs) == \A g, h \in Heads(rs) : IdAt(rs, g) = IdAt(rs, h) => g = h

check_duplicate_ids(rs, registry) == UniqueIds(rs) /\ Ids(rs) \cap registry = {}

Loads(rs, registry) == rs # Unparsable /\ check_duplicate_ids(rs, registry)

LoadFile(name) == IF name \in DOMAIN cfg.files THEN cfg.files[name] ELSE Unparsable

Metas(rs) == UNION {x.metas \X {x.id} : x \in {y \in Rules(rs) : y.id # NoId}}

\* util.rule_exception: the ids that the exceptions of a rule name.
Named(x, table) == {e[2] : e \in {d \in table : d[1] \in x.exceptions}}

\* The rules whose entry stays when all rules of a phase were gone through, in order.
Entering(rules, table) ==
    {rules[k] : k \in {n \in DOMAIN rules :
        /\ Named(rules[n], table) # {}
        /\ \A m \in DOMAIN rules : m > n /\ rules[m].id = rules[n].id => Named(rules[m], table) = {}}}

Entries(defs, table) ==
    UNION {UNION {Entering(defs[n][p], table) : p \in DOMAIN defs[n]} : n \in DOMAIN defs}

\* meta_ids cannot be indexed with the id of a rule that has none.
Raises(defs, table) == \E x \in Entries(defs, table) : x.id = NoId

\* What _build_exception_table makes of meta_ids for some ids: pairs() goes over
\* rulesets and phases in any order, and the last rule with an id stays.
Entered(ids, defs, table, new) ==
    \E from \in [ids -> Entries(defs, table)] :
        /\ \A id \in ids : from[id].id = id
        /\ new = [id \in DOMAIN meta_ids \cup ids |->
                     IF id \in ids THEN Named(from[id], table) ELSE meta_ids[id]]

EntryIds(defs, table) == {x.id : x \in Entries(defs, table)} \ {NoId}

\* Mutant: the table is built before the new rulesets are registered.
build_before_register(defs, table) ==
    /\ ~Raises(defs, table)
    /\ Entered(EntryIds(ruleset_defs, metas), ruleset_defs, metas, meta_ids')
    /\ unbuilt' = {}

\* It goes over all rules, or ends at one that raises an error, some entries made.
build_exception_table(defs, table) ==
    /\ ~Raises(defs, table)
    /\ Entered(EntryIds(defs, table), defs, table, meta_ids')
    /\ unbuilt' = {}
BuildRaises(defs, table, new) ==
    /\ Raises(defs, table)
    /\ \E ids \in SUBSET EntryIds(defs, table) : Entered(ids, defs, table, meta_ids')
    /\ unbuilt' = unbuilt \cup new

\* Rulesets that are loaded: their offsets are calculated, which fills the lookup
\* tables, and they are registered.
With(new) == [n \in DOMAIN ruleset_defs \cup DOMAIN new |->
                 IF n \in DOMAIN new THEN new[n] ELSE ruleset_defs[n]]
Register(new) ==
    /\ ruleset_defs' = With(new)
    /\ metas' = metas \cup (UNION {Metas(new[n]) : n \in DOMAIN new})

Only(name, rs) == [n \in {name} |-> rs]

-----------------------------------------------------------------------------

(* init_by_lua. *)

Starting(call) == status = "starting" /\ calls # <<>> /\ Head(calls).call = call

\* validate(), ruleset by ruleset.
Validating == Starting("init") /\ at \in DOMAIN cfg.global

\* Mutant: every ruleset is checked against its own ids only.
SeenApart(rs) == {}

Seen(rs) == IF rs = Unparsable THEN {} ELSE Ids(rs)

ValidateLoads ==
    /\ Validating
    /\ LET name == cfg.global[at]  rs == LoadFile(name) IN
          /\ Loads(rs, id_registry)
          /\ Register(Only(name, rs))
          /\ \/ /\ build_exception_table(ruleset_defs', metas')
                /\ at' = at + 1 /\ id_registry' = id_registry \cup Seen(rs)
                /\ UNCHANGED status
             \/ /\ BuildRaises(ruleset_defs', metas', {name})
                /\ status' = "refused"
                /\ UNCHANGED <<at, id_registry>>
    /\ UNCHANGED <<cfg, calls, errors, handler>>

\* A ruleset that fails has its ids seen, too.
ValidateFails ==
    /\ Validating
    /\ LET rs == LoadFile(cfg.global[at]) IN
          /\ ~Loads(rs, id_registry)
          /\ id_registry' = id_registry \cup Seen(rs)
    /\ errors' = TRUE
    /\ at' = at + 1
    /\ UNCHANGED <<cfg, status, calls, tables, handler>>

\* Mutant: errors are reported, and the worker starts.
InitWarns == /\ Starting("init") /\ at \notin DOMAIN cfg.global
             /\ calls' = Tail(calls)
             /\ at' = 1 /\ id_registry' = {} /\ errors' = FALSE
             /\ UNCHANGED <<cfg, status, tables, handler>>

\* init() returns, or refuses to start.
InitEnds ==
    /\ Starting("init") /\ at \notin DOMAIN cfg.global
    /\ status' = IF errors THEN "refused" ELSE status
    /\ calls' = Tail(calls)
    /\ at' = 1 /\ id_registry' = {} /\ errors' = FALSE
    /\ UNCHANGED <<cfg, tables, handler>>

\* The translated rules are registered, or there is an error, which is caught
\* as in the example of the README.
LoadSecrules ==
    /\ Starting("load_secrules")
    /\ LET s == Head(calls) IN
          IF Loads(s.rules, {})
          THEN /\ Register(Only(s.name, s.rules))
               /\ unbuilt' = unbuilt \cup {s.name}
               /\ UNCHANGED meta_ids
          ELSE UNCHANGED tables
    /\ calls' = Tail(calls)
    /\ UNCHANGED <<cfg, status, at, id_registry, errors, handler>>

WorkerStarts ==
    /\ status = "starting" /\ calls = <<>>
    /\ status' = "up"
    /\ UNCHANGED <<cfg, start, tables, handler>>

-----------------------------------------------------------------------------

(* Handlers: new(), options, exec(). *)

NoHandler == [pc |-> "new"]

Begins(q) == status = "up" /\ handler[q].pc = "new"

\* need_merge, which new() and the options set.
NeedsMerge(site) == \/ DOMAIN ruleset_defs = {}
                    \/ site.added # {} \/ site.ignored # {} \/ DOMAIN site.strings # {}

Increasing(s) == \A j, k \in DOMAIN s : j < k => s[j] < s[k]

\* The keys of a table, sorted.
Sorted(names) == CHOOSE s \in [1..Cardinality(names) -> names] : Range(s) = names /\ Increasing(s)

\* Mutant: what a site adds cannot be ignored.
MergedAddingLast(site) ==
    Sorted((Range(cfg.global) \ site.ignored) \cup site.added \cup DOMAIN site.strings)

\* What _merge_rulesets makes active.
Merged(site) ==
    Sorted((Range(cfg.global) \cup site.added \cup DOMAIN site.strings) \ site.ignored)

\* In the loop, which goes over the active rulesets.
Running(site, names, place, ran) ==
    [pc |-> "running", site |-> site, active |-> names, at |-> place, ran |-> ran]

Runs(q, site, names) == handler' = [handler EXCEPT ![q] = Running(site, names, 1, <<>>)]

\* An error leaves exec().
Dies(q, site) == handler' = [handler EXCEPT ![q] = [pc |-> "died", site |-> site]]

ExecGlobal(q) ==
    \E site \in cfg.sites :
        /\ Begins(q) /\ ~NeedsMerge(site)
        /\ Runs(q, site, cfg.global)
        /\ UNCHANGED <<cfg, status, start, tables>>

\* Mutant: a string is loaded whether or not its name is registered.
AllStrings(site) == DOMAIN site.strings

\* The strings of a site whose names are not registered yet.
NewStrings(site) == DOMAIN site.strings \ DOMAIN ruleset_defs
Broken(site)     == {n \in NewStrings(site) : ~Loads(site.strings[n], {})}

Strings(site, names) == [n \in names |-> site.strings[n]]

ExecMerges(q) ==
    \E site \in cfg.sites :
        /\ Begins(q) /\ NeedsMerge(site) /\ Broken(site) = {}
        /\ Register(Strings(site, NewStrings(site)))
        /\ IF NewStrings(site) = {}
           THEN UNCHANGED <<meta_ids, unbuilt>> /\ Runs(q, site, Merged(site))
           ELSE \/ /\ build_exception_table(ruleset_defs', metas')
                   /\ Runs(q, site, Merged(site))
                \/ /\ BuildRaises(ruleset_defs', metas', NewStrings(site))
                   /\ Dies(q, site)
        /\ UNCHANGED <<cfg, status, start>>

\* A string that fails ends the merge. Those that pairs() came to before stay.
ExecMergeFails(q) ==
    \E site \in cfg.sites :
        /\ Begins(q) /\ Broken(site) # {}
        /\ \E loaded \in SUBSET (NewStrings(site) \ Broken(site)) :
              /\ Register(Strings(site, loaded))
              /\ unbuilt' = unbuilt \cup loaded
        /\ Dies(q, site)
        /\ UNCHANGED <<cfg, status, start, meta_ids>>

InLoop(q) == handler[q].pc = "running" /\ handler[q].at \in DOMAIN handler[q].active

Name(q) == handler[q].active[handler[q].at]

Run(q, rs) ==
    LET h == handler[q] IN
    handler' = [handler EXCEPT ![q] = Running(h.site, h.active, h.at + 1, Append(h.ran, <<Name(q), rs>>))]

RunsRuleset(q) ==
    /\ InLoop(q) /\ Name(q) \in DOMAIN ruleset_defs
    /\ Run(q, ruleset_defs[Name(q)])
    /\ UNCHANGED <<cfg, status, start, tables>>

LoadsRuleset(q) ==
    /\ InLoop(q) /\ Name(q) \notin DOMAIN ruleset_defs
    /\ LET rs == LoadFile(Name(q)) IN
          /\ Loads(rs, {})
          /\ Register(Only(Name(q), rs))
          /\ \/ build_exception_table(ruleset_defs', metas') /\ Run(q, rs)
             \/ BuildRaises(ruleset_defs', metas', {Name(q)}) /\ Dies(q, handler[q].site)
    /\ UNCHANGED <<cfg, status, start>>

LoadFails(q) ==
    /\ InLoop(q) /\ Name(q) \notin DOMAIN ruleset_defs
    /\ ~Loads(LoadFile(Name(q)), {})
    /\ Dies(q, handler[q].site)
    /\ UNCHANGED <<cfg, status, start, tables>>

ExecReturns(q) ==
    /\ handler[q].pc = "running" /\ ~InLoop(q)
    /\ handler' = [handler EXCEPT ![q].pc = "done"]
    /\ UNCHANGED <<cfg, status, start, tables>>

Init ==
    /\ cfg \in Configs
    /\ status = "starting"
    /\ calls = cfg.start
    /\ at = 1 /\ id_registry = {} /\ errors = FALSE
    /\ ruleset_defs = [n \in {} |-> {}] /\ metas = {} /\ meta_ids = [id \in {} |-> {}]
    /\ unbuilt = {}
    /\ handler = [q \in Requests |-> NoHandler]

Next == \/ ValidateLoads \/ ValidateFails \/ InitEnds \/ LoadSecrules \/ WorkerStarts
        \/ \E q \in Requests : \/ ExecGlobal(q) \/ ExecMerges(q) \/ ExecMergeFails(q)
                               \/ RunsRuleset(q) \/ LoadsRuleset(q) \/ LoadFails(q) \/ ExecReturns(q)

Spec == Init /\ [][Next]_vars

-----------------------------------------------------------------------------

(* Properties. *)

TypeOK ==
    /\ status \in {"starting", "up", "refused"} /\ errors \in BOOLEAN
    /\ at \in 1..(Len(cfg.global) + 1)
    /\ unbuilt \subseteq DOMAIN ruleset_defs
    /\ \A n \in DOMAIN ruleset_defs : ruleset_defs[n] # Unparsable /\ IsRuleset(ruleset_defs[n])
    /\ \A e \in metas : e[2] # NoId
    /\ \A id \in DOMAIN meta_ids : id # NoId /\ meta_ids[id] # {}
    /\ \A q \in Requests :
          /\ handler[q].pc \in {"new", "running", "done", "died"}
          /\ handler[q].pc = "running" => handler[q].at \in Nat \ {0}

RulesOf(names) == UNION {Rules(ruleset_defs[n]) : n \in names}

\* The ids of the rules of some rulesets that the exceptions of a rule name.
Removable(x, names) == {y.id : y \in {z \in RulesOf(names) : z.metas \cap x.exceptions # {}}} \ {NoId}

\* No other rule that has exceptions has the id of this one.
Alone(x) == \A y \in RulesOf(DOMAIN ruleset_defs) : y.id = x.id /\ y.exceptions # {} => y = x

\* A rule with exceptions removes the rules they name in every ruleset that is
\* loaded, whichever came first, and no others. Rulesets that were loaded
\* without building the table, by load_secrules(), a merge that failed later or a
\* build that failed, are the exception, until it is built again; so are rules
\* that share their id, one of which gets the entry.
ExceptionsBuilt ==
    LET built == DOMAIN ruleset_defs \ unbuilt IN
    \A x \in RulesOf(built) :
        x.id # NoId /\ Alone(x) /\ Removable(x, built) # {} =>
            /\ x.id \in DOMAIN meta_ids
            /\ Removable(x, built) \subseteq meta_ids[x.id]
            /\ meta_ids[x.id] \subseteq Removable(x, DOMAIN ruleset_defs)

Inits == \E k \in DOMAIN cfg.start : InitCall(cfg.start[k])

\* In a worker that init() let start, every distributed ruleset is loaded, and no
\* id stands for two rules of them, other than links of one chain: ids are what
\* rules are ignored and removed by.
InitGuards ==
    status = "up" /\ Inits =>
        /\ Range(cfg.global) \subseteq DOMAIN ruleset_defs
        /\ \A m, n \in Range(cfg.global) :
              \A p \in DOMAIN ruleset_defs[m], s \in DOMAIN ruleset_defs[n] :
                  \A j \in DOMAIN ruleset_defs[m][p], k \in DOMAIN ruleset_defs[n][s] :
                      LET x == ruleset_defs[m][p][j]  y == ruleset_defs[n][s][k] IN
                      x.id = y.id /\ x.id # NoId /\ <<m, p, j>> # <<n, s, k>> =>
                          /\ m = n /\ p = s
                          /\ \A i \in j..(k - 1) \cup k..(j - 1) : ruleset_defs[m][p][i].chain

\* What a ruleset of a name can be: a file, a string of a site, a translation.
Sources(n) ==
    {cfg.files[m] : m \in {n} \cap DOMAIN cfg.files}
    \cup (UNION {{s.strings[m] : m \in {n} \cap DOMAIN s.strings} : s \in cfg.sites})
    \cup {cfg.start[k].rules : k \in {j \in DOMAIN cfg.start :
              SecrulesCall(cfg.start[j]) /\ cfg.start[j].name = n}}

Optional(site) == site.added # {} \/ site.ignored # {} \/ DOMAIN site.strings # {}

\* A handler that returns has run the distributed rulesets and those its site
\* adds, but for those it ignores, each once, whether they were loaded by init(),
\* by another request or on the way; and from low to high. Only a list of distributed
\* rulesets that was appended to may differ, in its order and what it repeats.
RunsItsRulesets ==
    \A q \in Requests : handler[q].pc = "done" =>
        LET site == handler[q].site
            ran  == [k \in DOMAIN handler[q].ran |-> handler[q].ran[k][1]]
        IN  /\ Range(ran) = (Range(cfg.global) \cup site.added \cup DOMAIN site.strings)
                                \ site.ignored
            /\ IsInjective(cfg.global) \/ Optional(site) => IsInjective(ran)
            /\ Increasing(cfg.global) \/ Optional(site) => Increasing(ran)
            /\ \A k \in DOMAIN ran : handler[q].ran[k][2] \in Sources(ran[k])

Kept == \A n \in DOMAIN ruleset_defs :
            n \in DOMAIN ruleset_defs' /\ ruleset_defs'[n] = ruleset_defs[n]

\* While requests are served no ruleset is replaced or dropped: not under a
\* handler that waits in one of its rules either.
DefsKept == [][status = "up" => Kept]_vars

Translated(n) == \E k \in DOMAIN cfg.start :
    SecrulesCall(cfg.start[k]) /\ cfg.start[k].name = n /\ Loads(cfg.start[k].rules, {})

\* What a site's own options name that is not there or is not sound. Distributed
\* rulesets are its own when no init() looked at them.
OwnFault(site) ==
    \/ \E n \in DOMAIN site.strings : ~Loads(site.strings[n], {})
    \/ \E n \in (site.added \cup (IF Inits THEN {} ELSE Range(cfg.global)))
                  \ (DOMAIN site.strings \cup site.ignored) :
          ~Translated(n) /\ ~Loads(LoadFile(n), {})

\* A rule without id that removes others.
Nameless == \E x \in RulesOf(DOMAIN ruleset_defs) : x.id = NoId /\ x.exceptions # {}

\* A handler only fails to load what its own site adds, or, without init(), a
\* distributed ruleset: never for what another site adds, and never for a file
\* whose name it ignores, has a string for, or finds translated. Or the exception
\* table cannot be built.
DiesOfItsOwn ==
    \A q \in Requests : handler[q].pc = "died" => OwnFault(handler[q].site) \/ Nameless

=============================================================================
