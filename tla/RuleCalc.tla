------------------------------ MODULE RuleCalc ------------------------------
(***************************************************************************)
(* calculate() of src/lib/resty/waf/rule_calc.lua: one pass over a ruleset  *)
(* that attaches to every rule the distances the engine moves by when the   *)
(* rule matches and when it does not, and lists under each msg and tag the   *)
(* rules that carry it. One action is one iteration of the loop. (The        *)
(* collection key the loop also writes depends on the one rule alone.)      *)
(*                                                                         *)
(* The loop gathers the rules of a chain and writes their offsets when the   *)
(* chain ends; the offsets it has not yet written are those of the rules     *)
(* i - chain .. i - 1, where chain is the length of what it has gathered.     *)
(***************************************************************************)
EXTENDS Rules

CONSTANT Rulesets      \* the rulesets calculate() may be given

\* A ruleset is a finite sequence of rules. Offsets are counted in rules:
\* skip is a number of rules to pass over.
ASSUME RulesetsAssumption ==
    \A rs \in Rulesets : /\ Len(rs) \in Nat
                         /\ \A k \in 1..Len(rs) : rs[k].skip \in Nat \cup {NoSkip}

VARIABLES ruleset,     \* the ruleset being calculated
          i,           \* the rule the loop is at
          chain,       \* number of rules in the chain gathered so far
          offsets,     \* rule.offset_match, rule.offset_nomatch
          skip,        \* rule.skip, which a skip_after is resolved into
          meta         \* meta_lookup: the (label, rule id) pairs, as listed

calc_vars == <<ruleset, i, chain, offsets, skip, meta>>

max == Len(ruleset)

CalcInit == /\ ruleset \in Rulesets
            /\ i = 1
            /\ chain = 0
            /\ offsets = [k \in 1..Len(ruleset) |-> Unset]
            /\ skip = [k \in 1..Len(ruleset) |-> ruleset[k].skip]
            /\ meta = <<>>

\* Mutant: the comparison with the ruleset's end is off by one.
WriteLinkPastEnd(k, offset, cur) ==
    IF offset + cur > max
    THEN [match   |-> IF Continues(ruleset, k) THEN 1 ELSE Nil, nomatch |-> Nil]
    ELSE [match |-> 1, nomatch |-> offset]

\* What _write_chain_offsets gives rule k, at `offset` rules from the one
\* that follows the chain, `cur` rules into the ruleset.
WriteLink(k, offset, cur) ==
    IF offset + cur >= max
    THEN [match   |-> IF Continues(ruleset, k) THEN 1 ELSE Nil, nomatch |-> Nil]
    ELSE [match |-> 1, nomatch |-> offset]

\* _write_chain_offsets: the chain's rules are those after cur_offset. From one
\* to the next, offset counts down from the chain's length and cur_offset up.
WriteChainOffsets(offs, length, cur_offset) ==
    [k \in DOMAIN offs |->
        IF k \in (cur_offset + 1)..(cur_offset + length)
        THEN WriteLink(k, length - (k - cur_offset - 1),
                          cur_offset + (k - cur_offset - 1))
        ELSE offs[k]]

\* _write_skip_offset
WriteSkipOffset(count, cur_offset) ==
    LET offset == count + 1
    IN  [match   |-> IF offset + cur_offset > max THEN Nil ELSE offset,
         nomatch |-> 1]

\* The msg and tag entries of the rule, appended to the exception lookup.
Listed == [n \in 1..Len(ruleset[i].labels) |-> <<ruleset[i].labels[n], ruleset[i].id>>]

Step == /\ i <= max
        /\ i' = i + 1
        /\ meta' = meta \o Listed
        /\ UNCHANGED ruleset

\* The rule continues its chain: nothing to write yet.
Gather == /\ Step
          /\ Continues(ruleset, i)
          /\ chain' = chain + 1
          /\ UNCHANGED <<offsets, skip>>

\* Mutant: the chain is not emptied.
CloseKeepsChain ==
    /\ Step
    /\ ~Continues(ruleset, i)
    /\ ~HasSkip(ruleset, i)
    /\ offsets' = WriteChainOffsets(offsets, chain + 1, i - (chain + 1))
    /\ chain' = chain + 1
    /\ UNCHANGED skip

\* The rule ends its chain, and does not skip.
Close == /\ Step
         /\ ~Continues(ruleset, i)
         /\ ~HasSkip(ruleset, i)
         /\ offsets' = WriteChainOffsets(offsets, chain + 1, i - (chain + 1))
         /\ chain' = 0
         /\ UNCHANGED skip

\* The rule ends its chain, and a match of it skips.
CloseWithSkip ==
    /\ Step
    /\ ~Continues(ruleset, i)
    /\ HasSkip(ruleset, i)
    /\ skip' = [skip EXCEPT ![i] = SkipCount(ruleset, i)]
    /\ offsets' = [WriteChainOffsets(offsets, chain + 1, i - (chain + 1))
                      EXCEPT ![i] = WriteSkipOffset(SkipCount(ruleset, i), i)]
    /\ chain' = 0

\* The loop has ended.
Calculated == i > max /\ UNCHANGED calc_vars

CalcNext == Gather \/ Close \/ CloseWithSkip \/ Calculated

CalcSpec == CalcInit /\ [][CalcNext]_calc_vars

-----------------------------------------------------------------------------

\* The type invariant: the loop stays in the ruleset, every rule has a pair of
\* offsets and the chain gathered lies behind the rule the loop is at.
CalcTypeOK == /\ max \in Nat
              /\ i \in 1..(max + 1)
              /\ chain \in 0..(i - 1)
              /\ offsets \in [1..max -> Offset]
              /\ skip \in [1..max -> Nat \cup {NoSkip}]

\* When the loop is over every rule carries the offsets that the chain it
\* is in calls for (Offsets, in Rules): the one pass, which decides on a
\* chain's offsets only when it reaches the chain's end, misses none and
\* writes none twice differently.
CalculatesOffsets == i > max => offsets = Offsets(ruleset)

\* A failed match never enters the middle of a chain and never jumps over
\* the head of one: it moves to the first head after the rule. (The engine
\* follows offset_nomatch for a rule that is ignored, too.)
NoMatchReachesNextHead ==
    \A k \in 1..max : offsets[k].nomatch # Nil =>
        LET t == k + offsets[k].nomatch
        IN  /\ t = max + 1 \/ (t <= max /\ IsHead(ruleset, t))
            /\ \A m \in (k + 1)..(t - 1) : ~IsHead(ruleset, m)

\* A nil offset_nomatch ends the phase, so only a rule no chain follows may
\* be left with one.
NilOnlyWhenNothingFollows ==
    i > max => \A k \in 1..max : offsets[k].nomatch = Nil =>
        \A m \in (k + 1)..max : ~IsHead(ruleset, m)

\* A skip lands where a skip of that many rules says, and past the end only
\* by ending the phase. skip_after lands on the rule after the first rule with
\* its id, so it enters a chain when it names the head of one.
SkipLandsAfterTarget ==
    \A k \in 1..max : k < i /\ ~Continues(ruleset, k) /\ HasSkip(ruleset, k) =>
        LET t == k + offsets[k].match
        IN  IF offsets[k].match = Nil
            THEN k + skip[k] >= max
            ELSE /\ t <= max
                 /\ ruleset[k].skip = NoSkip => ruleset[t - 1].id = ruleset[k].skip_after
                 /\ ruleset[k].skip # NoSkip => t - k - 1 = ruleset[k].skip
=============================================================================
