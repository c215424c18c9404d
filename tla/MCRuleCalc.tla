----------------------------- MODULE MCRuleCalc -----------------------------
(***************************************************************************)
(* Every ruleset of up to MaxRules rules over two ids: chains of every      *)
(* length, skips of 0, 1 and 3 rules, skips to either id, chain links that   *)
(* share an id and rules that repeat one.                                   *)
(***************************************************************************)
EXTENDS RuleCalc

CONSTANT MaxRules

Ids == {1, 2}

Links == [id : Ids, disrupt : {"CHAIN"}, skip : {NoSkip}, skip_after : {NoId},
          labels : {<<"tag">>}]
Plain == [id : Ids, disrupt : {"DENY"}, skip : {NoSkip, 0, 1, 3}, skip_after : {NoId},
          labels : {<<>>}]
Jumps == [id : Ids, disrupt : {"IGNORE"}, skip : {NoSkip}, skip_after : Ids,
          labels : {<<"msg", "tag">>}]

MCRulesets == UNION {[1..n -> Links \cup Plain \cup Jumps] : n \in 0..MaxRules}
=============================================================================
