--------------------------- MODULE MCRulesetDefs ---------------------------
(* Instances of RulesetDefs: up to three files, one set of translated rules, and *)
(* two sites that two requests go to.                                         *)
EXTENDS RulesetDefs, TLC

CONSTANTS q1, q2

Rule(id, tags, removes) == [id |-> id, chain |-> FALSE, metas |-> tags, exceptions |-> removes]
Link(id) == [Rule(id, {}, {}) EXCEPT !.chain = TRUE]

Access(rules) == [access |-> rules]

Tagged   == Access(<<Rule(1, {"a"}, {})>>)
Removing == Access(<<Rule(2, {}, {"a"})>>)
Both     == [access |-> <<Rule(2, {"b"}, {"b"}), Rule(3, {"a"}, {})>>, log |-> <<Rule(4, {"b"}, {})>>]
Chained  == Access(<<Link(3), Rule(3, {"b"}, {"a", "b"})>>)
Twice    == Access(<<Rule(1, {}, {"b"}), Link(5), Rule(1, {"a"}, {})>>)
Nobody   == Access(<<Rule(NoId, {"a"}, {})>>)
Remover  == Access(<<Rule(NoId, {}, {"a"})>>)

Site(added, strings, ignored) == [added |-> added, strings |-> strings, ignored |-> ignored]
NoStrings == [n \in {} |-> {}]
Plain     == Site({}, NoStrings, {})

MCNames == 1..5

DoInit      == [call |-> "init"]
Secrules(rs) == [call |-> "load_secrules", name |-> 4, rules |-> rs]

Files == UNION {[S -> {Tagged, Removing, Both, Chained, Twice, Unparsable}] : S \in {{1, 2}, {1, 2, 3}}}

Starts == {<<>>, <<DoInit>>} \cup {<<Secrules(rs), DoInit>> : rs \in {Removing, Twice, Nobody}}
             \cup {<<DoInit, Secrules(rs)>> : rs \in {Removing, Chained}}

MCSites ==
    {{Plain, Site({3}, NoStrings, {1})},
     {Site({4, 5}, NoStrings, {}), Site({}, 5 :> Removing, {})},
     {Site({3}, 4 :> Tagged @@ 5 :> Both, {2}), Site({}, 4 :> Chained @@ 5 :> Twice, {})},
     {Site({}, 5 :> Removing, {5}), Site({}, 5 :> Unparsable, {})}}

Sound == {[files |-> f, global |-> g, start |-> s, sites |-> t] :
             f \in Files, g \in {<<1, 2>>, <<2, 1>>}, s \in Starts, t \in MCSites}

\* A rule without id that removes others, translated and in a string; and a
\* distributed ruleset that is named twice.
WithRemover ==
    {[files |-> 1 :> Tagged @@ 2 :> Removing @@ 3 :> Both, global |-> g, start |-> s, sites |-> t] :
        g \in {<<1, 2>>, <<1, 2, 1>>},
        s \in {<<>>, <<Secrules(Remover), DoInit>>, <<DoInit, Secrules(Remover)>>},
        t \in {{Site({3, 4}, NoStrings, {}), Plain}, {Site({3}, 5 :> Remover, {}), Plain}}}

MCConfigs == Sound \cup WithRemover
=============================================================================
