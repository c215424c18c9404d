--------------------------- MODULE MCCollections ---------------------------
(* Instances of Collections: a translated ruleset and one of JSON, whose rules *)
(* take different parts of the same collections.                              *)
EXTENDS Collections

Var(type, parse, arg, ignore) == [type |-> type, parse |-> parse, arg |-> arg,
                                  ignore |-> ignore, storage |-> type = "TX",
                                  length |-> FALSE]

Args     == Var("REQUEST_ARGS", "values", {}, <<>>)
NotBar   == Var("REQUEST_ARGS", "values", {}, <<[action |-> "ignore", keys |-> {"bar"}]>>)
ArgNames == Var("REQUEST_ARGS", "keys", {}, <<>>)
AllArgs  == Var("REQUEST_ARGS", "all", {}, <<>>)
ArgFoo   == Var("REQUEST_ARGS", "specific", {"foo"}, <<>>)
BaArgs   == Var("REQUEST_ARGS", "regex", {"bar"}, <<>>)
ArgCount == [Args EXCEPT !.length = TRUE]
Uri      == Var("REQUEST_URI", NoParse, {}, <<>>)
Headers  == Var("RESPONSE_HEADERS", "values", {}, <<>>)
Matched  == Var("MATCHED_VAR", NoParse, {}, <<>>)
Last0    == Var("TX", "specific", {"0"}, <<>>)

Rule(n, form, disrupt, tr, vs) ==
    [id |-> Id(n, form), disrupt |-> disrupt, skip |-> NoSkip, skip_after |-> NoId,
     transform |-> tr, vars |-> vs, op_negated |-> FALSE]

Lower == <<"lowercase">>

Ruleset(name, access, header_filter) ==
    [name |-> name,
     rules |-> [p \in Range(Phases) |-> CASE p = "access" -> access
                                          [] p = "header_filter" -> header_filter
                                          [] OTHER -> <<>>]]

Translated == Ruleset("sieve.rules",
    <<Rule(1, "string", "DENY", <<>>, <<Args, ArgNames>>),
      Rule(2, "string", "DENY", Lower, <<NotBar>>)>>,
    <<Rule(3, "string", "DENY", <<>>, <<ArgCount, Headers>>)>>)

Default == Ruleset("42000_xss",
    <<Rule(4, "number", "SCORE", Lower, <<AllArgs, Args>>),
      Rule(5, "number", "SCORE", <<>>, <<BaArgs, ArgFoo>>)>>,
    <<>>)

\* A chain, whose links share their id.
Chained == Ruleset("chain.rules",
    <<Rule(6, "string", "CHAIN", <<>>, <<Args>>),
      [Rule(6, "string", "DENY", Lower, <<Uri, Last0>>) EXCEPT !.op_negated = TRUE]>>,
    <<Rule(7, "string", "DENY", <<>>, <<Args>>)>>)

Matching == Ruleset("matched.rules",
    <<Rule(8, "string", "CHAIN", <<>>, <<Args>>),
      Rule(8, "string", "IGNORE", <<>>, <<Matched>>)>>,
    <<Rule(9, "string", "DENY", <<>>, <<Headers, Matched>>)>>)

MCDeployments == {<<Default, Translated>>, <<Chained>>, <<Matching>>}

Pair(key, value) == [key |-> key, value |-> value]

MCRequests ==
    {[t \in Types |-> CASE t = "REQUEST_ARGS" -> Tab(args)
                        [] t = "REQUEST_URI" -> Str("/")
                        [] t = "TX" -> Tab({})
                        [] t = "RESPONSE_HEADERS" -> Tab({Pair("foo", "z")})
                        [] OTHER -> NoCollection] :
        args \in {{Pair("foo", "x"), Pair("bar", "y")},
                  {Pair("foo", "x"), Pair("foo", "y"), Pair("baz", "x")}}}

OneSieve(type, action, elts) == [type |-> type, action |-> action, elts |-> elts]

MCSieves == {<<OneSieve("ARGS", "ignore", <<{"foo"}>>)>>,
             <<OneSieve("ARGS", "ignore", <<{"foo"}, {"bar"}>>),
               OneSieve("ARGS_NAMES", "regex", <<{"bar", "baz"}>>)>>,
             <<OneSieve("RESPONSE_HEADERS", "ignore", <<{"foo"}>>)>>}

MCSieveIds == {Id(1, "string"), Id(2, "string"), Id(3, "string"), Id(4, "number"),
               Id(6, "string")}

\* The instances are among those the theorems are about.
ASSUME InstancesInTime == RulesInTime
=============================================================================
