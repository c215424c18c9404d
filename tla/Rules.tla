------------------------------- MODULE Rules -------------------------------
(***************************************************************************)
(* Rulesets of lua-resty-waf, as the rule engine and the offset            *)
(* calculation see them: a ruleset (of one phase) is a sequence of rules.   *)
(* A rule whose disruptive action is CHAIN is continued by the next rule;   *)
(* a chain is a maximal run of CHAIN rules and the rule that ends it.       *)
(*                                                                         *)
(* A rule is a record with at least                                        *)
(*    id          the rule's id, which the links of a chain may share       *)
(*    disrupt     actions.disrupt                                          *)
(*    skip        rule.skip, or NoSkip                                     *)
(*    skip_after  rule.skip_after, or NoId                                 *)
(* What a rule matches on is left to the modules that evaluate rules.      *)
(***************************************************************************)
EXTENDS Integers, Sequences

Nil    == 0     \* a nil offset: the code never writes an offset below 1
NoSkip == -1    \* rule.skip absent (0 is present: every number is true in Lua)
NoId   == 0     \* rule.skip_after absent

Offset == [match : Nat, nomatch : Nat]

Continues(rs, k) == rs[k].disrupt = "CHAIN"

\* Rule k starts a chain: no rule before it continues into it.
IsHead(rs, k) == k = 1 \/ ~Continues(rs, k - 1)

\* e is the rule that ends the chain rule k belongs to.
IsChainEnd(rs, k, e) == /\ e \in k..Len(rs)
                        /\ ~Continues(rs, e)
                        /\ \A m \in k..(e - 1) : Continues(rs, m)

\* The first rule at or after k that has the given id.
IsFirstWithId(rs, k, id, j) == /\ j \in k..Len(rs)
                               /\ rs[j].id = id
                               /\ \A m \in k..(j - 1) : rs[m].id # id

HasSkip(rs, k) == rs[k].skip # NoSkip \/ rs[k].skip_after # NoId

\* How many rules a match of rule k skips. rule.skip wins over skip_after; a
\* skip_after whose target does not follow skips all that is left.
SkipCount(rs, k) ==
    IF rs[k].skip # NoSkip
    THEN rs[k].skip
    ELSE IF \E j \in k..Len(rs) : IsFirstWithId(rs, k, rs[k].skip_after, j)
         THEN (CHOOSE j \in k..Len(rs) :
                  IsFirstWithId(rs, k, rs[k].skip_after, j)) - k
         ELSE Len(rs) - k

-----------------------------------------------------------------------------
(***************************************************************************)
(* The offsets calculate() is to attach to the rules, without its loop:    *)
(* RuleCalc models the loop and shows that this is what it computes.        *)
(***************************************************************************)

\* Offsets of the rules of a chain that ends at e.
ChainOffset(rs, k, e) ==
    [match   |-> IF e < Len(rs) \/ Continues(rs, k) THEN 1 ELSE Nil,
     nomatch |-> IF e < Len(rs) THEN e - k + 1 ELSE Nil]

\* Offsets of a chain's last rule when that rule skips.
SkipOffset(rs, k, count) ==
    [match   |-> IF k + count + 1 > Len(rs) THEN Nil ELSE count + 1,
     nomatch |-> 1]

OffsetOf(rs, k, e) == IF k = e /\ HasSkip(rs, k)
                      THEN SkipOffset(rs, k, SkipCount(rs, k))
                      ELSE ChainOffset(rs, k, e)

\* A chain the ruleset ends in the middle of gets no offsets at all.
Unset == [match |-> Nil, nomatch |-> Nil]

Offsets(rs) ==
    [k \in 1..Len(rs) |->
        IF \E e \in k..Len(rs) : IsChainEnd(rs, k, e)
        THEN OffsetOf(rs, k, CHOOSE e \in k..Len(rs) : IsChainEnd(rs, k, e))
        ELSE Unset]
=============================================================================
