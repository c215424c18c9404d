------------------------ MODULE Transaction_proofs ------------------------
(***************************************************************************)
(* Proofs about the engine, for every deployment and every request that the  *)
(* assumption on Configs admits: any number of rulesets, rules and chunks.   *)
(* First come those about the offsets it moves by (RuleCalc), for every       *)
(* ruleset; the two modules share Rules and the lemmas about it.              *)
(*                                                                         *)
(* A property of the engine relates handlers that run one after another, and *)
(* what one hands on to the next depends on saved: the next handler reads    *)
(* new and newCtx, which are what was saved, or what new() makes. So each     *)
(* invariant has a part for a handler that runs (pc = "rules", about waf and  *)
(* ctx) and one for between handlers (pc = "enter", about new and newCtx):    *)
(*   TypeInv      the types, and where stage and chunk are (TypeOK);          *)
(*   DenyInv      what a recorded denial has left behind (DeniedStops);       *)
(*   StatusInv    the statuses recorded with denials (StatusOfDenyingRule);   *)
(*   IgnoreInv    where ids that were removed are kept (IgnoredStaysIgnored); *)
(*   ResponseInv  which chunks are sent, held or at hand (ResponseIntact).    *)
(* Then comes what a transaction has done when it is over: in SIMULATE mode it  *)
(* got through the rulesets of all its phases, and its event logs tell of every  *)
(* match that was logged; and that the engine implements ChainWalk. Last, that *)
(* no chain fires of which a rule is ignored by an option (SilentInv).         *)
(***************************************************************************)
EXTENDS Transaction, RuleCalc, WellFoundedInduction, TLAPS

WafFields == {"mode", "altered_only", "ignore", "hooked"}
CtxFields == {"altered", "log_entries", "short_circuit", "buffers", "headers", "rule_status"}

\* The types, with the fields of the two records, which TypeOK gives as sets of
\* records, and the bounds of stage and chunk that the actions' guards imply.
TypeInv == /\ cfg \in Configs
           /\ TypeOK
           /\ DOMAIN waf = WafFields
           /\ DOMAIN ctx = CtxFields
           /\ pc = "rules" => stage <= 4
           /\ stage <= 2 => chunk = 0
           /\ stage = 3 /\ pc = "enter" => chunk < cfg.chunks

-----------------------------------------------------------------------------
(* Chains, skips and offsets (Rules).                                      *)

\* A rule has at most one chain end.
LEMMA ChainEndUnique ==
    ASSUME NEW rs, Len(rs) \in Nat, NEW k \in Nat,
           NEW e \in Nat, IsChainEnd(rs, k, e),
           NEW f \in Nat, IsChainEnd(rs, k, f)
    PROVE  e = f
  BY DEF IsChainEnd

\* The number of rules a skip passes over is a natural number.
LEMMA SkipCountNat ==
    ASSUME NEW rs, Len(rs) \in Nat, NEW k \in 1..Len(rs),
           rs[k].skip \in Nat \cup {NoSkip}
    PROVE  SkipCount(rs, k) \in Nat
<1>1. CASE rs[k].skip # NoSkip
  BY <1>1 DEF SkipCount
<1>2. CASE rs[k].skip = NoSkip
  <2>1. CASE \E j \in k..Len(rs) : IsFirstWithId(rs, k, rs[k].skip_after, j)
    <3> DEFINE j == CHOOSE n \in k..Len(rs) : IsFirstWithId(rs, k, rs[k].skip_after, n)
    <3>1. j \in k..Len(rs)
      BY <2>1
    <3>2. SkipCount(rs, k) = j - k
      BY <1>2, <2>1 DEF SkipCount
    <3> HIDE DEF j
    <3> QED BY <3>1, <3>2
  <2>2. CASE ~ \E j \in k..Len(rs) : IsFirstWithId(rs, k, rs[k].skip_after, j)
    BY <1>2, <2>2 DEF SkipCount
  <2> QED BY <2>1, <2>2
<1> QED BY <1>1, <1>2

\* The offsets a chain end calls for are a pair of numbers.
LEMMA OffsetOfType ==
    ASSUME NEW rs, Len(rs) \in Nat, NEW k \in 1..Len(rs), NEW e \in k..Len(rs),
           rs[k].skip \in Nat \cup {NoSkip}
    PROVE  OffsetOf(rs, k, e) \in Offset
<1>1. SkipCount(rs, k) \in Nat
  BY SkipCountNat
<1> QED BY <1>1 DEF OffsetOf, SkipOffset, ChainOffset, Offset, Nil

\* So are the offsets a rule is given, whether or not its chain ends.
LEMMA OffsetsType ==
    ASSUME NEW rs, Len(rs) \in Nat, NEW k \in 1..Len(rs),
           rs[k].skip \in Nat \cup {NoSkip}
    PROVE  Offsets(rs)[k] \in Offset
<1>1. CASE \E e \in k..Len(rs) : IsChainEnd(rs, k, e)
  <2> DEFINE last == CHOOSE e \in k..Len(rs) : IsChainEnd(rs, k, e)
  <2>1. last \in k..Len(rs)
    BY <1>1
  <2>2. Offsets(rs)[k] = OffsetOf(rs, k, last)
    BY <1>1 DEF Offsets
  <2> HIDE DEF last
  <2> QED BY <2>1, <2>2, OffsetOfType
<1>2. CASE ~ \E e \in k..Len(rs) : IsChainEnd(rs, k, e)
  BY <1>2 DEF Offsets, Unset, Offset, Nil
<1> QED BY <1>1, <1>2

-----------------------------------------------------------------------------
(* The offsets calculate() attaches (RuleCalc): for every ruleset, of any     *)
(* length, the one pass of its loop attaches the offsets that Rules defines   *)
(* from the chains, which are those the engine of Transaction moves by.       *)
(*                                                                         *)
(* The invariant that carries the argument (CalcInv) splits the ruleset at    *)
(* the start of the chain being gathered: before it every rule has a chain    *)
(* end before it too, and the offsets that chain end calls for; from it on,    *)
(* no offset is written, and the rules already passed all continue.          *)

\* The first rule whose offsets are not written yet.
start == i - chain

Closed(k) == \E e \in k..(start - 1) :
                /\ IsChainEnd(ruleset, k, e)
                /\ offsets[k] = OffsetOf(ruleset, k, e)
                /\ k = e /\ HasSkip(ruleset, k) => skip[k] = SkipCount(ruleset, k)

CalcTypeInv == /\ ruleset \in Rulesets
               /\ CalcTypeOK

CalcInv == /\ CalcTypeInv
           /\ IsHead(ruleset, start)
           /\ \A k \in start..(i - 1) : Continues(ruleset, k)
           /\ \A k \in start..max : offsets[k] = Unset
           /\ \A k \in 1..(start - 1) : Closed(k)

LEMMA CalcInitInv == CalcInit => CalcInv
<1> SUFFICES ASSUME CalcInit PROVE CalcInv
  OBVIOUS
<1>1. max \in Nat /\ \A k \in 1..max : ruleset[k].skip \in Nat \cup {NoSkip}
  BY RulesetsAssumption DEF CalcInit, max
<1>2. start = 1
  BY DEF CalcInit, start
<1>3. Unset \in Offset
  BY DEF Unset, Offset, Nil
<1> QED BY <1>1, <1>2, <1>3 DEF CalcInit, CalcInv, CalcTypeInv, CalcTypeOK, IsHead, max

\* What WriteChainOffsets gives one rule of the chain.
LEMMA WriteChainOffsetsAt ==
    ASSUME NEW offs, NEW length \in Int, NEW cur_offset \in Int,
           NEW k \in DOMAIN offs, k \in (cur_offset + 1)..(cur_offset + length)
    PROVE  WriteChainOffsets(offs, length, cur_offset)[k]
             = WriteLink(k, length - (k - cur_offset - 1), cur_offset + (k - cur_offset - 1))
  BY Zenon DEF WriteChainOffsets

\* The offsets written when the loop reaches the end of a chain, at rule i.
LEMMA WrittenOffsets ==
    ASSUME CalcInv, i <= max, ~Continues(ruleset, i)
    PROVE  LET w == WriteChainOffsets(offsets, chain + 1, i - (chain + 1))
           IN  /\ w \in [1..max -> Offset]
               /\ \A k \in 1..(start - 1) : w[k] = offsets[k]
               /\ \A k \in start..i : /\ IsChainEnd(ruleset, k, i)
                                      /\ w[k] = ChainOffset(ruleset, k, i)
               /\ \A k \in (i + 1)..max : w[k] = Unset
<1> DEFINE w == WriteChainOffsets(offsets, chain + 1, i - (chain + 1))
<1>0. /\ max \in Nat /\ i \in 1..max /\ chain \in 0..(i - 1) /\ start \in 1..i
      /\ max = Len(ruleset)
  BY DEF CalcInv, CalcTypeInv, CalcTypeOK, start, max
<1>1. DOMAIN offsets = 1..max
  BY DEF CalcInv, CalcTypeInv, CalcTypeOK
<1>2. (i - (chain + 1) + 1)..(i - (chain + 1) + (chain + 1)) = start..i
  BY <1>0 DEF start
<1>3. ASSUME NEW k \in 1..max, k \notin start..i PROVE w[k] = offsets[k]
  BY <1>1, <1>2, <1>3 DEF WriteChainOffsets
<1>4. ASSUME NEW k \in start..i PROVE w[k] = ChainOffset(ruleset, k, i)
  <2>1. k \in 1..max /\ k \in Nat
    BY <1>0
  <2> DEFINE length == chain + 1
             cur    == i - (chain + 1)
  <2>2. /\ length \in Int /\ cur \in Int
        /\ length - (k - cur - 1) = i - k + 1
        /\ cur + (k - cur - 1) = k - 1
        /\ k \in (cur + 1)..(cur + length)
    BY <1>0, <1>2, <2>1
  <2>3. k \in DOMAIN offsets /\ w = WriteChainOffsets(offsets, length, cur)
    BY <1>1, <2>1
  <2> HIDE DEF length, cur, w
  <2>4. w[k] = WriteLink(k, length - (k - cur - 1), cur + (k - cur - 1))
    BY <2>2, <2>3, WriteChainOffsetsAt, Zenon
  <2>6. w[k] = WriteLink(k, i - k + 1, k - 1)
    BY <2>2, <2>4
  <2>5. (i - k + 1) + (k - 1) >= max <=> i = max
    BY <1>0, <2>1
  <2> QED BY <1>0, <2>5, <2>6 DEF WriteLink, ChainOffset
<1> HIDE DEF w
<1>5. ASSUME NEW k \in start..i PROVE IsChainEnd(ruleset, k, i)
  BY <1>0 DEF IsChainEnd, CalcInv
<1>6. w \in [1..max -> Offset]
  <2>1. w = [k \in 1..max |-> w[k]]
    BY <1>1 DEF WriteChainOffsets, w
  <2>2. ASSUME NEW k \in 1..max PROVE w[k] \in Offset
    <3>1. CASE k \in start..i
      <4>1. w[k] = ChainOffset(ruleset, k, i)
        BY <1>4, <3>1
      <4>2. i - k + 1 \in Nat
        BY <1>0, <3>1
      <4> QED BY <4>1, <4>2 DEF ChainOffset, Offset, Nil
    <3>2. CASE k \notin start..i
      BY <1>3, <3>2 DEF CalcInv, CalcTypeInv, CalcTypeOK
    <3> QED BY <3>1, <3>2
  <2> QED BY <2>1, <2>2
<1>7. ASSUME NEW k \in (i + 1)..max PROVE w[k] = Unset
  <2>1. k \in 1..max /\ k \in start..max /\ k \notin start..i
    BY <1>0
  <2>2. w[k] = offsets[k]
    BY <1>3, <2>1
  <2> QED BY <2>1, <2>2 DEF CalcInv
<1>8. \A k \in 1..(start - 1) : w[k] = offsets[k]
  BY <1>0, <1>3
<1> QED BY <1>4, <1>5, <1>6, <1>7, <1>8 DEF w

\* A rule whose offsets are written keeps them, whatever the step.
LEMMA ClosedKept ==
    ASSUME NEW k \in 1..(start - 1), Closed(k), CalcTypeInv, start' \in Nat,
           start <= start', ruleset' = ruleset,
           offsets'[k] = offsets[k], skip'[k] = skip[k]
    PROVE  Closed(k)'
<1>1. PICK e \in k..(start - 1) :
         /\ IsChainEnd(ruleset, k, e)
         /\ offsets[k] = OffsetOf(ruleset, k, e)
         /\ k = e /\ HasSkip(ruleset, k) => skip[k] = SkipCount(ruleset, k)
  BY DEF Closed
<1>2. e \in k..(start' - 1)
  BY DEF CalcTypeInv, CalcTypeOK, start
<1> QED BY <1>1, <1>2 DEF Closed

LEMMA CalcGatherInv == CalcInv /\ Gather => CalcInv'
<1> SUFFICES ASSUME CalcInv, Gather PROVE CalcInv'
  OBVIOUS
<1>0. /\ max \in Nat /\ i \in 1..max /\ chain \in 0..(i - 1) /\ start \in 1..i
      /\ max = Len(ruleset)
  BY DEF CalcInv, CalcTypeInv, CalcTypeOK, start, max, Gather, Step
<1>1. /\ i' = i + 1 /\ chain' = chain + 1 /\ ruleset' = ruleset
      /\ offsets' = offsets /\ skip' = skip /\ max' = max
  BY DEF Gather, Step, max
<1>2. start' = start
  BY <1>0, <1>1 DEF start
<1>3. CalcTypeInv'
  BY <1>0, <1>1 DEF CalcInv, CalcTypeInv, CalcTypeOK
<1>4. (\A k \in start..(i - 1) : Continues(ruleset, k))'
  BY <1>0, <1>1, <1>2 DEF CalcInv, Gather
<1>5. (\A k \in start..max : offsets[k] = Unset)'
  BY <1>1, <1>2 DEF CalcInv
<1>6. (\A k \in 1..(start - 1) : Closed(k))'
  BY <1>0, <1>1, <1>2, ClosedKept DEF CalcInv
<1>7. IsHead(ruleset, start)'
  BY <1>1, <1>2 DEF CalcInv
<1> QED BY <1>3, <1>4, <1>5, <1>6, <1>7 DEF CalcInv

\* The two ways a chain ends: only what the rule that ends it gets differs.
LEMMA CalcCloseInv ==
    ASSUME CalcInv, Step, ~Continues(ruleset, i), chain' = 0,
           offsets' \in [1..max -> Offset],
           skip' \in [1..max -> Nat \cup {NoSkip}],
           \A k \in 1..max : k # i => skip'[k] = skip[k],
           HasSkip(ruleset, i) => skip'[i] = SkipCount(ruleset, i),
           LET w == WriteChainOffsets(offsets, chain + 1, i - (chain + 1))
           IN  \A k \in 1..max : k # i => offsets'[k] = w[k],
           offsets'[i] = OffsetOf(ruleset, i, i)
    PROVE  CalcInv'
<1> DEFINE w == WriteChainOffsets(offsets, chain + 1, i - (chain + 1))
<1>0. /\ max \in Nat /\ i \in 1..max /\ chain \in 0..(i - 1) /\ start \in 1..i
      /\ max = Len(ruleset)
  BY DEF CalcInv, CalcTypeInv, CalcTypeOK, start, max, Step
<1>1. /\ i' = i + 1 /\ ruleset' = ruleset /\ max' = max /\ start' = i + 1
  BY <1>0 DEF Step, max, start
<1>2. /\ \A k \in 1..(start - 1) : w[k] = offsets[k]
      /\ \A k \in start..i : /\ IsChainEnd(ruleset, k, i)
                             /\ w[k] = ChainOffset(ruleset, k, i)
      /\ \A k \in (i + 1)..max : w[k] = Unset
  BY <1>0, WrittenOffsets
<1>w. \A k \in 1..max : k # i => offsets'[k] = w[k]
  OBVIOUS
<1> HIDE DEF w
<1>3. CalcTypeInv'
  BY <1>0, <1>1 DEF CalcInv, CalcTypeInv, CalcTypeOK
<1>4. IsHead(ruleset, start)'
  BY <1>0, <1>1 DEF IsHead, Continues
<1>5. (\A k \in start..(i - 1) : Continues(ruleset, k))'
  BY <1>0, <1>1
<1>6. (\A k \in start..max : offsets[k] = Unset)'
  BY <1>0, <1>1, <1>2, <1>w
<1>7. ASSUME NEW k \in 1..i PROVE Closed(k)'
  <2>1. CASE k \in 1..(start - 1)
    <3>1. offsets'[k] = offsets[k] /\ skip'[k] = skip[k]
      BY <1>0, <1>2, <1>w, <2>1
    <3>2. Closed(k) /\ CalcTypeInv
      BY <2>1 DEF CalcInv
    <3> QED BY <1>0, <1>1, <2>1, <3>1, <3>2, ClosedKept
  <2>2. CASE k \in start..i
    <3>1. IsChainEnd(ruleset, k, i) /\ i \in k..(start' - 1)
      BY <1>0, <1>1, <1>2, <2>2
    <3>2. offsets'[k] = OffsetOf(ruleset, k, i)
      <4>1. CASE k = i
        BY <4>1
      <4>2. CASE k # i
        BY <1>0, <1>2, <1>w, <2>2, <4>2 DEF OffsetOf
      <4> QED BY <4>1, <4>2
    <3>3. k = i /\ HasSkip(ruleset, k) => skip'[k] = SkipCount(ruleset, k)
      OBVIOUS
    <3> QED BY <1>1, <3>1, <3>2, <3>3 DEF Closed
  <2> QED BY <1>0, <2>1, <2>2
<1>8. (\A k \in 1..(start - 1) : Closed(k))'
  BY <1>0, <1>1, <1>7
<1> QED BY <1>3, <1>4, <1>5, <1>6, <1>8 DEF CalcInv

LEMMA CalcStepInv == CalcInv /\ [CalcNext]_calc_vars => CalcInv'
<1> SUFFICES ASSUME CalcInv, [CalcNext]_calc_vars PROVE CalcInv'
  OBVIOUS
<1> DEFINE w == WriteChainOffsets(offsets, chain + 1, i - (chain + 1))
<1>1. CASE Gather
  BY <1>1, CalcGatherInv
<1>2. CASE Close
  <2>1. Step /\ i \in 1..max /\ i <= max /\ ~Continues(ruleset, i) /\ max = Len(ruleset)
    BY <1>2 DEF Close, Step, CalcInv, CalcTypeInv, CalcTypeOK, max
  <2>2. w \in [1..max -> Offset] /\ w[i] = ChainOffset(ruleset, i, i)
    <3>1. i \in start..i
      BY DEF CalcInv, CalcTypeInv, CalcTypeOK, start
    <3> QED BY <2>1, <3>1, WrittenOffsets
  <2>3. offsets' = w /\ skip' = skip /\ chain' = 0 /\ ~HasSkip(ruleset, i)
    BY <1>2 DEF Close
  <2>4. offsets'[i] = OffsetOf(ruleset, i, i)
    BY <2>2, <2>3 DEF OffsetOf
  <2>5. skip' \in [1..max -> Nat \cup {NoSkip}]
    BY <2>3 DEF CalcInv, CalcTypeInv, CalcTypeOK
  <2> HIDE DEF w
  <2> QED BY <2>1, <2>2, <2>3, <2>4, <2>5, CalcCloseInv DEF w
<1>3. CASE CloseWithSkip
  <2>1. /\ Step /\ i \in 1..max /\ i <= max /\ ~Continues(ruleset, i)
        /\ HasSkip(ruleset, i) /\ chain' = 0 /\ max = Len(ruleset) /\ max \in Nat
    BY <1>3 DEF CloseWithSkip, Step, CalcInv, CalcTypeInv, CalcTypeOK, max
  <2>2. w \in [1..max -> Offset]
    BY <2>1, WrittenOffsets
  <2>3. SkipCount(ruleset, i) \in Nat
    BY <2>1, RulesetsAssumption, SkipCountNat DEF CalcInv, CalcTypeInv
  <2>4. WriteSkipOffset(SkipCount(ruleset, i), i) = SkipOffset(ruleset, i, SkipCount(ruleset, i))
    BY <2>1, <2>3 DEF WriteSkipOffset, SkipOffset
  <2>5. SkipOffset(ruleset, i, SkipCount(ruleset, i)) = OffsetOf(ruleset, i, i)
    BY <2>1 DEF OffsetOf
  <2>6. OffsetOf(ruleset, i, i) \in Offset
    BY <2>1, RulesetsAssumption, OffsetOfType DEF CalcInv, CalcTypeInv
  <2>7. /\ offsets' = [w EXCEPT ![i] = OffsetOf(ruleset, i, i)]
        /\ skip' = [skip EXCEPT ![i] = SkipCount(ruleset, i)]
    BY <1>3, <2>4, <2>5 DEF CloseWithSkip
  <2> HIDE DEF w
  <2>8. /\ offsets' \in [1..max -> Offset]
        /\ offsets'[i] = OffsetOf(ruleset, i, i)
        /\ \A k \in 1..max : k # i => offsets'[k] = w[k]
    BY <2>1, <2>2, <2>6, <2>7
  <2>9. skip \in [1..max -> Nat \cup {NoSkip}]
    BY DEF CalcInv, CalcTypeInv, CalcTypeOK
  <2>10. /\ skip' \in [1..max -> Nat \cup {NoSkip}]
         /\ skip'[i] = SkipCount(ruleset, i)
         /\ \A k \in 1..max : k # i => skip'[k] = skip[k]
    BY <2>1, <2>3, <2>7, <2>9
  <2> QED BY <2>1, <2>8, <2>10, CalcCloseInv DEF w
<1>4. CASE Calculated \/ UNCHANGED calc_vars
  <2>1. /\ ruleset' = ruleset /\ i' = i /\ chain' = chain
        /\ offsets' = offsets /\ skip' = skip
    BY <1>4 DEF Calculated, calc_vars
  <2>2. max' = max /\ start' = start
    BY <2>1 DEF max, start
  <2>3. CalcTypeInv'
    BY <2>1, <2>2 DEF CalcInv, CalcTypeInv, CalcTypeOK
  <2>4. ASSUME NEW k \in 1..(start - 1) PROVE Closed(k)'
    BY <2>1, <2>2 DEF CalcInv, Closed
  <2> QED BY <2>1, <2>2, <2>3, <2>4 DEF CalcInv
<1> QED BY <1>1, <1>2, <1>3, <1>4 DEF CalcNext

\* The inductive invariant holds of every behaviour, for every set of
\* rulesets: calculate() keeps the ruleset split into the chains whose offsets
\* it has written, each by its own end, and the one chain it is gathering.
THEOREM CalcInvariance == CalcSpec => []CalcInv
<1>1. CalcInit => CalcInv
  BY CalcInitInv
<1>2. CalcInv /\ [CalcNext]_calc_vars => CalcInv'
  BY CalcStepInv
<1> QED BY <1>1, <1>2, PTL DEF CalcSpec

\* The loop of calculate() stays in the ruleset and gives every rule a pair of
\* offsets, for rulesets of any length.
THEOREM CalcTypeCorrect == CalcSpec => []CalcTypeOK
<1>1. CalcInv => CalcTypeOK
  BY DEF CalcInv, CalcTypeInv
<1> QED BY <1>1, CalcInvariance, PTL

\* The loop of calculate() computes the offsets that the chains of the ruleset
\* call for: one pass that decides at the end of each chain is enough.
THEOREM OffsetsCorrect == CalcSpec => []CalculatesOffsets
<1>1. ASSUME CalcInv, i > max PROVE offsets = Offsets(ruleset)
  <2>1. /\ max \in Nat /\ i = max + 1 /\ chain \in 0..(i - 1) /\ start \in 1..i
        /\ max = Len(ruleset)
    BY <1>1 DEF CalcInv, CalcTypeInv, CalcTypeOK, start, max
  <2>2. ASSUME NEW k \in 1..max PROVE offsets[k] = Offsets(ruleset)[k]
    <3> DEFINE ends == {e \in k..Len(ruleset) : IsChainEnd(ruleset, k, e)}
    <3>1. Offsets(ruleset)[k] =
            IF \E e \in k..Len(ruleset) : IsChainEnd(ruleset, k, e)
            THEN OffsetOf(ruleset, k, CHOOSE e \in k..Len(ruleset) : IsChainEnd(ruleset, k, e))
            ELSE Unset
      BY <2>1 DEF Offsets
    <3>2. CASE k < start
      <4>1. PICK e \in k..(start - 1) : /\ IsChainEnd(ruleset, k, e)
                                        /\ offsets[k] = OffsetOf(ruleset, k, e)
        BY <1>1, <2>1, <3>2 DEF CalcInv, Closed
      <4> DEFINE f == CHOOSE x \in k..Len(ruleset) : IsChainEnd(ruleset, k, x)
      <4>2. \E x \in k..Len(ruleset) : IsChainEnd(ruleset, k, x)
        BY <2>1, <4>1
      <4>3. f \in k..Len(ruleset) /\ IsChainEnd(ruleset, k, f)
        BY <4>2
      <4>4. Offsets(ruleset)[k] = OffsetOf(ruleset, k, f)
        BY <3>1, <4>2
      <4> HIDE DEF f
      <4>5. e = f
        BY <2>1, <4>1, <4>3, ChainEndUnique
      <4> QED BY <4>1, <4>4, <4>5
    <3>3. CASE k >= start
      <4>1. \A e \in k..Len(ruleset) : Continues(ruleset, e)
        BY <1>1, <2>1, <3>3 DEF CalcInv
      <4>2. ~ \E e \in k..Len(ruleset) : IsChainEnd(ruleset, k, e)
        BY <4>1 DEF IsChainEnd
      <4>3. offsets[k] = Unset
        BY <1>1, <2>1, <3>3 DEF CalcInv
      <4> QED BY <3>1, <4>2, <4>3
    <3> QED BY <2>1, <3>2, <3>3
  <2>3. offsets = [k \in 1..max |-> offsets[k]]
    BY <1>1 DEF CalcInv, CalcTypeInv, CalcTypeOK
  <2>4. Offsets(ruleset) = [k \in 1..max |-> Offsets(ruleset)[k]]
    BY <2>1 DEF Offsets
  <2> QED BY <2>2, <2>3, <2>4
<1>2. CalcInv => CalculatesOffsets
  BY <1>1 DEF CalculatesOffsets
<1> QED BY <1>2, CalcInvariance, PTL

\* Following offset_nomatch, in any ruleset, the engine moves to the head of the
\* next chain: never into a chain, never past one.
THEOREM NoMatchSafe == CalcSpec => []NoMatchReachesNextHead
<1>1. ASSUME CalcInv PROVE NoMatchReachesNextHead
  <2>1. /\ max \in Nat /\ i \in 1..(max + 1) /\ chain \in 0..(i - 1) /\ start \in 1..i
        /\ max = Len(ruleset)
    BY <1>1 DEF CalcInv, CalcTypeInv, CalcTypeOK, start, max
  <2> SUFFICES ASSUME NEW k \in 1..max, offsets[k].nomatch # Nil
               PROVE  LET t == k + offsets[k].nomatch
                      IN  /\ t = max + 1 \/ (t <= max /\ IsHead(ruleset, t))
                          /\ \A m \in (k + 1)..(t - 1) : ~IsHead(ruleset, m)
    BY DEF NoMatchReachesNextHead
  <2>2. k < start
    BY <1>1, <2>1 DEF CalcInv, Unset
  <2>3. PICK e \in k..(start - 1) : /\ IsChainEnd(ruleset, k, e)
                                    /\ offsets[k] = OffsetOf(ruleset, k, e)
    BY <1>1, <2>1, <2>2 DEF CalcInv, Closed
  <2>4. offsets[k].nomatch = e - k + 1
    <3>1. offsets[k].nomatch = IF k = e /\ HasSkip(ruleset, k) THEN 1
                               ELSE IF e < max THEN e - k + 1 ELSE Nil
      BY <2>1, <2>3 DEF OffsetOf, ChainOffset, SkipOffset
    <3>2. k \in Int /\ e \in Int
      BY <2>1, <2>3
    <3>3. CASE k = e /\ HasSkip(ruleset, k)
      <4>1. e - k + 1 = 1
        BY <3>2, <3>3
      <4> QED BY <3>1, <3>3, <4>1
    <3>4. CASE ~(k = e /\ HasSkip(ruleset, k))
      BY <3>1, <3>4
    <3> QED BY <3>3, <3>4
  <2>5. /\ e \in k..max /\ ~Continues(ruleset, e)
        /\ \A m \in k..(e - 1) : Continues(ruleset, m)
    BY <2>1, <2>3 DEF IsChainEnd
  <2>6. k + offsets[k].nomatch = e + 1
    BY <2>1, <2>4, <2>5
  <2>7. IsHead(ruleset, e + 1)
    BY <2>1, <2>5 DEF IsHead
  <2>8. \A m \in (k + 1)..e : ~IsHead(ruleset, m)
    BY <2>1, <2>5 DEF IsHead
  <2> QED BY <2>1, <2>5, <2>6, <2>7, <2>8
<1> QED BY <1>1, CalcInvariance, PTL

\* The engine stops for a nil offset_nomatch: in no ruleset does that leave a
\* chain unreached.
THEOREM NilIsFinal == CalcSpec => []NilOnlyWhenNothingFollows
<1>1. ASSUME CalcInv, i > max, NEW k \in 1..max, offsets[k].nomatch = Nil,
             NEW m \in (k + 1)..max
      PROVE  ~IsHead(ruleset, m)
  <2>1. /\ max \in Nat /\ i = max + 1 /\ chain \in 0..(i - 1) /\ start \in 1..i
        /\ max = Len(ruleset)
    BY <1>1 DEF CalcInv, CalcTypeInv, CalcTypeOK, start, max
  <2>2. CASE k < start
    <3>1. PICK e \in k..(start - 1) : /\ IsChainEnd(ruleset, k, e)
                                      /\ offsets[k] = OffsetOf(ruleset, k, e)
      BY <1>1, <2>1, <2>2 DEF CalcInv, Closed
    <3>2. e = max
      <4>1. offsets[k].nomatch = IF k = e /\ HasSkip(ruleset, k) THEN 1
                                 ELSE IF e < max THEN e - k + 1 ELSE Nil
        BY <2>1, <3>1 DEF OffsetOf, ChainOffset, SkipOffset
      <4> QED BY <1>1, <2>1, <3>1, <4>1 DEF Nil
    <3>3. Continues(ruleset, m - 1)
      BY <2>1, <3>1, <3>2 DEF IsChainEnd
    <3> QED BY <3>3 DEF IsHead
  <2>3. CASE k >= start
    <3>1. Continues(ruleset, m - 1)
      BY <1>1, <2>1, <2>3 DEF CalcInv
    <3> QED BY <3>1 DEF IsHead
  <2> QED BY <2>1, <2>2, <2>3
<1>2. CalcInv => NilOnlyWhenNothingFollows
  BY <1>1 DEF NilOnlyWhenNothingFollows
<1> QED BY <1>2, CalcInvariance, PTL

\* For every ruleset a match of a rule that skips lands where its skip or skip_after
\* says: behind that many rules, or behind the rule with that id, and nowhere
\* else than past the end if there is none (_write_skip_offset and its callers).
THEOREM SkipsLand == CalcSpec => []SkipLandsAfterTarget
<1>1. CalcInv => SkipLandsAfterTarget
  <2> SUFFICES ASSUME CalcInv, NEW k \in 1..max, k < i, ~Continues(ruleset, k), HasSkip(ruleset, k)
               PROVE  IF offsets[k].match = Nil
                      THEN k + skip[k] >= max
                      ELSE LET t == k + offsets[k].match
                           IN  /\ t <= max
                               /\ ruleset[k].skip = NoSkip => ruleset[t - 1].id = ruleset[k].skip_after
                               /\ ruleset[k].skip # NoSkip => t - k - 1 = ruleset[k].skip
    BY DEF SkipLandsAfterTarget
  <2>1. max \in Nat /\ max = Len(ruleset) /\ start \in Int /\ i \in Int /\ ruleset \in Rulesets
    BY DEF CalcInv, CalcTypeInv, CalcTypeOK, start, max
  <2>2. k \in 1..(start - 1)
    BY <2>1 DEF CalcInv
  <2>3. PICK e \in k..(start - 1) :
            /\ IsChainEnd(ruleset, k, e)
            /\ offsets[k] = OffsetOf(ruleset, k, e)
            /\ k = e /\ HasSkip(ruleset, k) => skip[k] = SkipCount(ruleset, k)
    BY <2>2 DEF CalcInv, Closed
  <2>4. k = e
    BY <2>1, <2>3 DEF IsChainEnd
  <2> DEFINE count == SkipCount(ruleset, k)
  <2>5. skip[k] = count /\ offsets[k] = SkipOffset(ruleset, k, count)
    BY <2>3, <2>4 DEF OffsetOf
  <2>6. count \in Nat
    BY <2>1, RulesetsAssumption, SkipCountNat DEF max
  <2>7. CASE ruleset[k].skip # NoSkip
    <3>1. count = ruleset[k].skip
      BY <2>7 DEF SkipCount
    <3> HIDE DEF count
    <3> QED BY <2>1, <2>5, <2>6, <2>7, <3>1 DEF SkipOffset, Nil
  <2>8. CASE ruleset[k].skip = NoSkip
    <3>1. CASE \E j \in k..Len(ruleset) : IsFirstWithId(ruleset, k, ruleset[k].skip_after, j)
      <4>1. PICK j \in k..Len(ruleset) :
                IsFirstWithId(ruleset, k, ruleset[k].skip_after, j) /\ count = j - k
        BY <2>8, <3>1 DEF SkipCount
      <4>2. ruleset[j].id = ruleset[k].skip_after
        BY <4>1 DEF IsFirstWithId
      <4> HIDE DEF count
      <4>3. k + (count + 1) - 1 = j
        BY <2>1, <4>1
      <4> QED BY <2>1, <2>5, <2>6, <2>8, <4>1, <4>2, <4>3 DEF SkipOffset, Nil
    <3>2. CASE ~\E j \in k..Len(ruleset) : IsFirstWithId(ruleset, k, ruleset[k].skip_after, j)
      <4>1. count = max - k
        BY <2>1, <2>8, <3>2 DEF SkipCount
      <4> HIDE DEF count
      <4> QED BY <2>1, <2>5, <2>6, <4>1 DEF SkipOffset, Nil
    <3> QED BY <3>1, <3>2
  <2> QED BY <2>7, <2>8
<1> QED BY <1>1, CalcInvariance, PTL

-----------------------------------------------------------------------------

\* A set of places in a sequence has a last one.
LEMMA LargestExists ==
    ASSUME NEW n \in Nat, NEW S \in SUBSET (1..n), S # {}
    PROVE  \E k \in S : \A j \in S : j <= k
<1> DEFINE R == OpToRel(<, Nat)
           T == {n - k : k \in S}
<1>1. IsWellFoundedOn(R, Nat)
  BY NatLessThanWellFounded
<1>2. T \subseteq Nat
  OBVIOUS
<1>3. T # {}
  <2>1. PICK k \in S : TRUE
    OBVIOUS
  <2> QED BY <2>1
<1> HIDE DEF R
<1>4. \E x \in T : \A y \in T : ~(<<y, x>> \in R)
  <2> HIDE DEF T
  <2> QED BY <1>1, <1>2, <1>3, WFMin
<1>5. PICK k \in S : \A j \in S : ~(<<n - j, n - k>> \in R)
  BY <1>4
<1>6. ASSUME NEW j \in S PROVE j <= k
  <2>1. n - j \in Nat /\ n - k \in Nat
    OBVIOUS
  <2>2. (n - j < n - k) => <<n - j, n - k>> \in R
    BY <2>1 DEF R, OpToRel
  <2> QED BY <2>2, <1>5
<1> QED BY <1>6

\* What the actions of a name leave is the data of one of them, or what was there.
LEMMA LatestOf ==
    ASSUME IsSequence(rule.nondisrupt), NEW name, NEW before
    PROVE  \/ Latest(name, before) = before
           \/ \E k \in DOMAIN rule.nondisrupt :
                 /\ rule.nondisrupt[k].action = name
                 /\ Latest(name, before) = rule.nondisrupt[k].data
<1> DEFINE named == {k \in DOMAIN rule.nondisrupt : rule.nondisrupt[k].action = name}
           last  == CHOOSE k \in named : \A j \in named : j <= k
<1>1. CASE named = {}
  BY <1>1 DEF Latest
<1>2. CASE named # {}
  <2>1. named \in SUBSET (1..Len(rule.nondisrupt)) /\ Len(rule.nondisrupt) \in Nat
    BY DEF IsSequence
  <2>2. last \in named
    <3> HIDE DEF named
    <3> QED BY <1>2, <2>1, LargestExists
  <2>3. Latest(name, before) = rule.nondisrupt[last].data
    BY <1>2 DEF Latest
  <2> HIDE DEF last
  <2> QED BY <2>2, <2>3
<1> QED BY <1>1, <1>2

\* The phase is told from the stage.
LEMMA PhaseOfStage ==
    ASSUME stage \in 1..4
    PROVE  /\ phase = "header_filter" <=> stage = 2
           /\ phase = "body_filter" <=> stage = 3
           /\ phase = "log" <=> stage = 4
           /\ stage \in 1..Len(Phases)
  BY DEF phase, Phases

\* The rules the loop walks through are a sequence of rules.
LEMMA RulesOK ==
    ASSUME TypeInv, pc = "rules"
    PROVE  IsSequence(rules) /\ \A k \in DOMAIN rules : RuleOK(rules[k])
<1>1. stage \in 1..4 /\ r \in DOMAIN cfg.rulesets /\ ConfigOK(cfg)
  BY ConfigsAssumption DEF TypeInv, TypeOK
<1>2. stage \in 1..Len(Phases)
  BY <1>1, PhaseOfStage
<1> QED BY <1>1, <1>2 DEF ConfigOK, rules, phase

LEMMA RuleTyped ==
    ASSUME TypeInv, AtRule
    PROVE  /\ RuleOK(rule)
           /\ Offsets(rules)[offset].match \in Nat
           /\ Offsets(rules)[offset].nomatch \in Nat
<1>1. IsSequence(rules) /\ RuleOK(rule) /\ offset \in 1..Len(rules)
  BY RulesOK DEF AtRule, rule, IsSequence
<1>2. Len(rules) \in Nat /\ rules[offset].skip \in Nat \cup {NoSkip}
  BY <1>1 DEF IsSequence, RuleOK, rule
<1>3. Offsets(rules)[offset] \in Offset
  BY <1>1, <1>2, OffsetsType
<1> QED BY <1>1, <1>3 DEF Offset

\* Where a handler's end leads.
LEMMA EndsType ==
    ASSUME TypeInv, cfg' = cfg, stage \in 1..4, NEW passed_on, HandlerEnds(passed_on),
           chunk' \in 0..cfg.chunks, stage # 3 => chunk' = chunk
    PROVE  /\ stage' \in 1..5 /\ pc' = "enter"
           /\ stage' \in {stage, stage + 1}
           /\ stage' = stage => stage = 3
           /\ stage' <= 2 => chunk' = 0
           /\ stage' = 3 => chunk' < cfg'.chunks
<1>1. cfg.chunks \in Nat \ {0}
  BY ConfigsAssumption DEF TypeInv, ConfigOK
<1>2. phase = "body_filter" <=> stage = 3
  BY PhaseOfStage
<1> QED BY <1>1, <1>2 DEF HandlerEnds, TypeInv, TypeOK

\* What a handler that calls exec() starts from.
LEMMA EntryType ==
    ASSUME TypeInv, Execs
    PROVE  /\ stage \in 1..4 /\ cfg' = cfg /\ cfg.chunks \in Nat \ {0} /\ saved' = saved
           /\ chunk' = IF stage = 3 THEN chunk + 1 ELSE chunk
           /\ chunk' \in 0..cfg.chunks
           /\ new.mode \in Modes /\ new.altered_only \in BOOLEAN /\ DOMAIN new = WafFields
           /\ newCtx.altered \in BOOLEAN /\ newCtx.short_circuit \in BOOLEAN
           /\ newCtx.headers \in BOOLEAN /\ DOMAIN newCtx = CtxFields
<1>1. stage \in 1..4 /\ cfg' = cfg /\ saved' = saved
  BY DEF TypeInv, TypeOK, Execs, Over
<1>2. cfg.chunks \in Nat \ {0} /\ cfg.mode \in Modes /\ cfg.altered_only \in BOOLEAN
  BY ConfigsAssumption DEF TypeInv, ConfigOK
<1>3. chunk' = IF stage = 3 THEN chunk + 1 ELSE chunk
  BY <1>1, PhaseOfStage DEF Execs, NextChunk
<1>4. chunk' \in 0..cfg.chunks
  BY <1>2, <1>3 DEF TypeInv, TypeOK, Execs
<1>5. new.mode \in Modes /\ new.altered_only \in BOOLEAN /\ DOMAIN new = WafFields
  BY <1>2 DEF new, TypeInv, TypeOK, DefaultWaf, ConfiguredWaf, Modes, WafFields
<1>6. /\ newCtx.altered \in BOOLEAN /\ newCtx.short_circuit \in BOOLEAN
      /\ newCtx.headers \in BOOLEAN /\ DOMAIN newCtx = CtxFields
  BY DEF newCtx, TypeInv, TypeOK, FreshCtx, CtxFields
<1> QED BY <1>1, <1>2, <1>3, <1>4, <1>5, <1>6

\* The collections leave the rest of ctx alone.
LEMMA CollectedCtx ==
    ASSUME NEW c, DOMAIN c = CtxFields
    PROVE  /\ DOMAIN Collected(c) = CtxFields
           /\ Collected(c).altered = c.altered
           /\ Collected(c).log_entries = c.log_entries
           /\ Collected(c).rule_status = c.rule_status
           /\ c.headers \in BOOLEAN => Collected(c).headers \in BOOLEAN
           /\ c.short_circuit \in BOOLEAN => Collected(c).short_circuit \in BOOLEAN
  BY DEF Collected, CtxFields, Eof

LEMMA CollectsType ==
    ASSUME TypeInv, ExecCollects
    PROVE  /\ waf'.mode \in Modes /\ waf'.altered_only \in BOOLEAN /\ DOMAIN waf' = WafFields
           /\ ctx'.altered \in BOOLEAN /\ ctx'.short_circuit \in BOOLEAN
           /\ ctx'.headers \in BOOLEAN /\ DOMAIN ctx' = CtxFields
  BY EntryType, CollectedCtx DEF ExecCollects

\* What a match leaves in waf and ctx.
LEMMA MatchType ==
    ASSUME TypeInv, Match
    PROVE  /\ waf'.mode \in Modes /\ waf'.altered_only = waf.altered_only
           /\ waf'.hooked = waf.hooked /\ DOMAIN waf' = WafFields
           /\ waf'.ignore = waf.ignore \cup RuleRemoves
           /\ ctx'.altered = (ctx.altered \/ Alters) /\ ctx'.short_circuit = ctx.short_circuit
           /\ ctx'.headers = ctx.headers /\ ctx'.buffers = ctx.buffers
           /\ DOMAIN ctx' = CtxFields
           /\ ctx'.rule_status = Latest("status", NoStatus)
           /\ saved' = (saved \/ Alters)
<1>1. RuleOK(rule) /\ IsSequence(rule.nondisrupt)
  BY RuleTyped DEF Match, Process, RuleOK
<1>2. Latest("mode_update", waf.mode) \in Modes
  BY <1>1, LatestOf DEF RuleOK, TypeInv, TypeOK
<1>3. /\ waf' = [waf EXCEPT !.mode = Latest("mode_update", @), !.ignore = @ \cup RuleRemoves]
      /\ ctx' = [ctx EXCEPT !.rule_status = Latest("status", NoStatus),
                            !.log_entries = IF Logs THEN Append(@, rule.id) ELSE @,
                            !.altered = @ \/ Alters]
  BY DEF Match, Acted, TypeInv, CtxFields
<1>4. saved' = (saved \/ Alters)
  BY DEF Match, Finalize, TypeInv, TypeOK
<1> QED BY <1>2, <1>3, <1>4 DEF TypeInv, TypeOK, WafFields, CtxFields

-----------------------------------------------------------------------------

LEMMA TypeInit == Init => TypeInv
<1> SUFFICES ASSUME Init PROVE TypeInv
  OBVIOUS
<1>1. cfg \in Configs /\ ConfigOK(cfg)
  BY ConfigsAssumption DEF Init
<1>2. cfg.chunks \in Nat \ {0} /\ 1 \in DOMAIN cfg.rulesets
  BY <1>1 DEF ConfigOK, IsSequence
<1>3. DOMAIN waf = WafFields /\ waf.mode \in Modes /\ waf.altered_only \in BOOLEAN
  BY DEF Init, DefaultWaf, WafFields, Modes
<1>4. /\ DOMAIN ctx = CtxFields /\ ctx.altered \in BOOLEAN
      /\ ctx.short_circuit \in BOOLEAN /\ ctx.headers \in BOOLEAN
  BY DEF Init, FreshCtx, CtxFields
<1>5. saved \in BOOLEAN
  BY DEF Init
<1>6. stage = 1 /\ chunk = 0 /\ pc = "enter" /\ r = 1 /\ offset = 0
  BY DEF Init, Nil
<1> QED BY <1>1, <1>2, <1>3, <1>4, <1>5, <1>6 DEF TypeInv, TypeOK

\* What nearly every step keeps, put together.
LEMMA TypeKept ==
    ASSUME TypeInv, cfg' = cfg, r' \in DOMAIN cfg.rulesets, offset' \in Nat, saved' \in BOOLEAN,
           stage' \in 1..5, chunk' \in 0..cfg.chunks, pc' \in {"enter", "rules"},
           waf'.mode \in Modes, waf'.altered_only \in BOOLEAN, DOMAIN waf' = WafFields,
           ctx'.altered \in BOOLEAN, ctx'.short_circuit \in BOOLEAN, ctx'.headers \in BOOLEAN,
           DOMAIN ctx' = CtxFields,
           pc' = "rules" => stage' <= 4, stage' <= 2 => chunk' = 0,
           stage' = 3 /\ pc' = "enter" => chunk' < cfg.chunks
    PROVE  TypeInv'
  BY DEF TypeInv, TypeOK

LEMMA TypeStep == TypeInv /\ [Next]_vars => TypeInv'
<1> SUFFICES ASSUME TypeInv, [Next]_vars PROVE TypeInv'
  OBVIOUS
<1> USE DEF TypeInv, TypeOK
<1>0. 1 \in DOMAIN cfg.rulesets /\ IsSequence(cfg.rulesets)
  <2>1. ConfigOK(cfg)
    BY ConfigsAssumption
  <2> QED BY <2>1 DEF ConfigOK, IsSequence
<1>1. CASE ExecInactive \/ ExecAltered
  <2>1. Execs /\ \E s \in {<<chunk + 1>>, <<>>} : HandlerEnds(s)
    BY <1>1 DEF ExecInactive, ExecAltered
  <2>2. UNCHANGED <<waf, ctx, r, offset, saved>>
    BY <1>1 DEF ExecInactive, ExecAltered, Execs
  <2>3. stage' \in 1..5 /\ pc' = "enter" /\ (stage' <= 2 => chunk' = 0)
        /\ (stage' = 3 => chunk' < cfg'.chunks)
    BY <2>1, EntryType, EndsType
  <2> QED BY <2>1, <2>2, <2>3, EntryType
<1>2. CASE ExecRuns
  <2>1. ExecCollects /\ Execs
    BY <1>2 DEF ExecRuns, ExecCollects
  <2>2. pc' = "rules" /\ r' = 1 /\ offset' = 1 /\ stage' = stage
    BY <1>2 DEF ExecRuns
  <2>3. stage' <= 2 => chunk' = 0
    BY <2>1, <2>2, EntryType
  <2> QED BY <1>0, <2>1, <2>2, <2>3, EntryType, CollectsType, TypeKept
<1>3. CASE ExecShortCircuits
  <2>1. ExecCollects /\ Execs /\ HandlerEnds(PassedOn(newCtx)) /\ UNCHANGED <<r, offset>>
    BY <1>3 DEF ExecShortCircuits, ExecCollects
  <2>2. stage' \in 1..5 /\ pc' = "enter" /\ (stage' <= 2 => chunk' = 0)
        /\ (stage' = 3 => chunk' < cfg'.chunks)
    BY <2>1, EntryType, EndsType
  <2> QED BY <2>1, <2>2, EntryType, CollectsType, TypeKept
<1>4. CASE ExecBodyFails
  <2>1. Execs /\ stage = 3 /\ stage' = 4 /\ UNCHANGED <<pc, waf, ctx, r, offset>>
    BY <1>4, EntryType, PhaseOfStage DEF ExecBodyFails
  <2> QED BY <2>1, EntryType, TypeKept
<1>5. CASE LogHandlerWrites
  <2>1. stage = 4
    BY <1>5, PhaseOfStage DEF LogHandlerWrites, Over
  <2> QED BY <1>5, <2>1 DEF LogHandlerWrites
<1>6. CASE Ignore
  BY <1>6, RuleTyped DEF Ignore, Moves, Nil
<1>7. CASE NoMatch
  <2>1. DOMAIN ctx' = CtxFields /\ ctx'.altered = ctx.altered /\ ctx'.headers = ctx.headers
        /\ ctx'.short_circuit = ctx.short_circuit
    BY <1>7 DEF NoMatch, CtxFields
  <2> QED BY <1>7, <2>1, RuleTyped DEF NoMatch, Process, Moves, Nil
<1>8. CASE MatchContinues
  <2>1. Match /\ AtRule /\ Moves(Offsets(rules)[offset].match)
    BY <1>8 DEF MatchContinues, Match, Process
  <2>2. /\ UNCHANGED <<cfg, stage, chunk, pc, r>> /\ offset' \in Nat /\ pc = "rules"
    BY <2>1, RuleTyped DEF Moves, Nil, AtRule
  <2> QED BY <2>1, <2>2, MatchType, TypeKept DEF Alters
<1>9. CASE MatchExits
  <2>1. Match /\ AtRule /\ UNCHANGED <<cfg, chunk, r, offset>> /\ HandlerEnds(<<>>)
    BY <1>9 DEF MatchExits, Match, Process
  <2>2. stage' \in 1..5 /\ pc' = "enter" /\ (stage' <= 2 => chunk' = 0)
        /\ (stage' = 3 => chunk' < cfg'.chunks)
    BY <2>1, EndsType DEF AtRule
  <2> QED BY <2>1, <2>2, MatchType, TypeKept DEF Alters
<1>10. CASE NextRuleset
  BY <1>0, <1>10 DEF NextRuleset, RulesetDone, IsSequence
<1>11. CASE ExecFinalizes
  <2>1. /\ UNCHANGED <<cfg, chunk, waf, ctx, r, offset>> /\ HandlerEnds(arg) /\ saved' = TRUE
        /\ pc = "rules"
    BY <1>11 DEF ExecFinalizes, Finalize, RulesetDone
  <2>2. stage' \in 1..5 /\ pc' = "enter" /\ (stage' <= 2 => chunk' = 0)
        /\ (stage' = 3 => chunk' < cfg'.chunks)
    BY <2>1, EndsType
  <2> QED BY <2>1, <2>2
<1>12. CASE UNCHANGED vars
  BY <1>12 DEF vars
<1> QED
  BY <1>1, <1>2, <1>3, <1>4, <1>5, <1>6, <1>7, <1>8, <1>9, <1>10, <1>11, <1>12
  DEF Next, Finished

\* Whatever the handlers of waf.lua do in a transaction, its tables waf and ctx keep the
\* types that new() gave them, the ruleset at hand is one that is loaded, and no offset
\* leads back before the rules.
THEOREM TypeCorrect == Spec => []TypeOK
<1>1. Spec => []TypeInv
  BY TypeInit, TypeStep, PTL DEF Spec
<1>2. TypeInv => TypeOK
  BY DEF TypeInv
<1> QED BY <1>1, <1>2, PTL

-----------------------------------------------------------------------------

\* ngx.exit is recorded, and what was recorded before stays.
LEMMA RangeAppend ==
    ASSUME NEW S, NEW q \in Seq(S), NEW x
    PROVE  /\ Range(Append(q, x)) = Range(q) \cup {x}
           /\ Append(q, x) \in Seq(S \cup {x})
<1>1. q \in Seq(S \cup {x})
  OBVIOUS
<1>2. Append(q, x) \in Seq(S \cup {x})
  BY <1>1
<1>3. DOMAIN Append(q, x) = DOMAIN q \cup {Len(q) + 1}
  BY <1>1, <1>2
<1>4. Append(q, x)[Len(q) + 1] = x /\ \A k \in DOMAIN q : Append(q, x)[k] = q[k]
  BY <1>1
<1> QED BY <1>2, <1>3, <1>4 DEF Range

\* What is recorded of the rule at hand when it ends the handler.
ExitOf == [action |-> rule.disrupt, rule |-> rule, phase |-> phase,
           status |-> Latest("status", NoStatus), kept |-> (saved \/ Alters)]

ExitsInv == exits \in Seq(Range(exits))

LEMMA MatchRecords ==
    ASSUME TypeInv, ExitsInv, Match
    PROVE  /\ ExitsInv'
           /\ exits' = exits \/ Exits
           /\ Range(exits') = IF Exits THEN Range(exits) \cup {ExitOf} ELSE Range(exits)
<1>1. exits' = IF Exits THEN Append(exits, ExitOf) ELSE exits
  <2>1. ctx'.rule_status = Latest("status", NoStatus) /\ saved' = (saved \/ Alters)
    BY MatchType
  <2> QED BY <2>1 DEF Match, ExitOf
<1>2. CASE Exits
  <2>1. exits' = Append(exits, ExitOf)
    BY <1>1, <1>2
  <2>2. /\ Range(exits') = Range(exits) \cup {ExitOf}
        /\ exits' \in Seq(Range(exits) \cup {ExitOf})
    BY <2>1, RangeAppend DEF ExitsInv
  <2>3. ExitsInv'
    BY <2>2 DEF ExitsInv
  <2> QED BY <1>2, <2>2, <2>3
<1>3. CASE ~Exits
  BY <1>1, <1>3 DEF ExitsInv
<1> QED BY <1>2, <1>3

\* A step either matches a rule, or fills the collections, or leaves the exits
\* and the options alone.
LEMMA StepKinds ==
    ASSUME TypeInv, [Next]_vars
    PROVE  \/ Match /\ (MatchContinues \/ MatchExits)
           \/ ExecCollects /\ UNCHANGED <<cfg, exits, saved, logged, removed>>
           \/ /\ UNCHANGED <<cfg, exits, waf, logged, removed>>
              /\ ctx'.altered = ctx.altered
              /\ saved' = saved \/ saved' = TRUE
              /\ (pc' = pc /\ stage' = stage) \/ pc' = "enter"
<1>1. CASE ExecInactive \/ ExecAltered \/ ExecBodyFails \/ LogHandlerWrites
  BY <1>1 DEF ExecInactive, ExecAltered, ExecBodyFails, LogHandlerWrites, Execs, HandlerEnds
<1>2. CASE ExecRuns \/ ExecShortCircuits
  BY <1>2 DEF ExecRuns, ExecShortCircuits, ExecCollects, Execs
<1>3. CASE Ignore
  BY <1>3 DEF Ignore, Moves
<1>4. CASE NoMatch
  BY <1>4 DEF NoMatch, Process, Moves, TypeInv, CtxFields
<1>5. CASE MatchContinues \/ MatchExits
  BY <1>5 DEF MatchContinues, MatchExits
<1>6. CASE NextRuleset
  BY <1>6 DEF NextRuleset
<1>7. CASE ExecFinalizes
  BY <1>7 DEF ExecFinalizes, Finalize, HandlerEnds
<1>8. CASE UNCHANGED vars
  BY <1>8 DEF vars
<1> QED BY <1>1, <1>2, <1>3, <1>4, <1>5, <1>6, <1>7, <1>8 DEF Next, Finished

\* A mode_update of a rule of the configuration is one of ModeUpdates.
LEMMA ModeAfterMatch ==
    ASSUME TypeInv, Match
    PROVE  /\ waf'.mode = waf.mode \/ waf'.mode \in ModeUpdates
           /\ Acted.waf.mode = waf'.mode /\ Acted.waf.hooked = waf.hooked
<1>1. waf' = [waf EXCEPT !.mode = Latest("mode_update", @), !.ignore = @ \cup RuleRemoves]
      /\ waf' = Acted.waf
  BY DEF Match, Acted
<1>2. waf'.mode = Latest("mode_update", waf.mode) /\ waf'.hooked = waf.hooked
  BY <1>1 DEF TypeInv, WafFields
<1>3. AtRule /\ RuleOK(rule) /\ IsSequence(rule.nondisrupt)
  BY RuleTyped DEF Match, Process, RuleOK
<1>4. ASSUME NEW k \in DOMAIN rule.nondisrupt, rule.nondisrupt[k].action = "mode_update"
      PROVE  rule.nondisrupt[k].data \in ModeUpdates
  <2>1. stage \in 1..Len(Phases) /\ r \in DOMAIN cfg.rulesets
    BY <1>3, PhaseOfStage DEF TypeInv, TypeOK, AtRule
  <2>2. rule = cfg.rulesets[r][Phases[stage]][offset]
        /\ offset \in DOMAIN cfg.rulesets[r][Phases[stage]]
    BY <1>3 DEF AtRule, rule, rules, phase
  <2>3. rule.nondisrupt[k].data \in Modes
    BY <1>3, <1>4 DEF RuleOK
  <2> QED BY <1>4, <2>1, <2>2, <2>3 DEF ModeUpdates
<1> QED BY <1>1, <1>2, <1>3, <1>4, LatestOf

-----------------------------------------------------------------------------

\* A denial sets ctx.altered, and saved it: the handler ended in _finalize. So the
\* handlers that follow find it, unless one of them was running already, which is
\* header_filter, where ngx.exit returns. And the converse: without mode_update and
\* hooks, only a denial alters.
DenyInv ==
    /\ ExitsInv
    /\ Denials # {} => /\ saved /\ ctx.altered
                       /\ ModeUpdates \subseteq {"ACTIVE"} => waf.mode = "ACTIVE"
    /\ \A x \in Denials : pc = "rules" /\ ModeUpdates \subseteq {"ACTIVE"}
                          => stage = 2 /\ x.phase = "header_filter"
    /\ waf.hooked \in {{}, cfg.hooked}
    /\ ctx.altered => saved
    /\ ctx.altered /\ waf.mode = "ACTIVE" /\ cfg.hooked = {} /\ ~UsesModeUpdate => Denials # {}

LEMMA DenyInit == Init => DenyInv
  BY DEF Init, DenyInv, ExitsInv, Denials, DefaultWaf, FreshCtx, Range

LEMMA MatchDenials ==
    ASSUME TypeInv, ExitsInv, Match
    PROVE  Denials' = IF Exits /\ Alters THEN Denials \cup {ExitOf} ELSE Denials
<1>1. ExitOf.action = rule.disrupt
  BY DEF ExitOf
<1> QED BY <1>1, MatchRecords DEF Denials, Alters

LEMMA DenyMatch ==
    ASSUME TypeInv, DenyInv, Match, cfg' = cfg,
           \/ pc' = "enter"
           \/ pc' = pc /\ stage' = stage /\ (~Exits \/ MayReturn)
    PROVE  DenyInv'
<1>1. ExitsInv' /\ ModeUpdates' = ModeUpdates /\ UsesModeUpdate' = UsesModeUpdate
  <2>1. ExitsInv'
    BY MatchRecords DEF DenyInv
  <2>2. ModeUpdates' = ModeUpdates
    BY DEF ModeUpdates
  <2> QED BY <2>1, <2>2 DEF UsesModeUpdate
<1>2. Denials' = IF Exits /\ Alters THEN Denials \cup {ExitOf} ELSE Denials
  BY MatchDenials DEF DenyInv
<1>3. waf'.mode = waf.mode \/ waf'.mode \in ModeUpdates
  BY ModeAfterMatch
<1>4. Exits => waf'.mode = "ACTIVE"
  BY ModeAfterMatch DEF Exits
<1>5. ctx'.altered = (ctx.altered \/ Alters) /\ saved' = (saved \/ Alters)
  BY MatchType
<1>6. pc = "rules"
  BY DEF Match, Process, AtRule
<1>7. Denials' # {} => /\ saved' /\ ctx'.altered
                       /\ ModeUpdates \subseteq {"ACTIVE"} => waf'.mode = "ACTIVE"
  BY <1>2, <1>3, <1>4, <1>5 DEF DenyInv
<1>8. ASSUME NEW x \in Denials', pc' = "rules", ModeUpdates \subseteq {"ACTIVE"}
      PROVE  stage' = 2 /\ x.phase = "header_filter"
  <2>1. CASE x \in Denials
    BY <1>6, <1>8, <2>1 DEF DenyInv
  <2>2. CASE x \notin Denials
    <3>1. x = ExitOf /\ Exits /\ x.phase = phase
      BY <1>2, <1>8, <2>2 DEF ExitOf
    <3>2. phase = "header_filter" /\ stage' = stage
      BY <1>8, <3>1 DEF MayReturn
    <3> QED BY <1>6, <3>1, <3>2, PhaseOfStage DEF TypeInv, TypeOK
  <2> QED BY <2>1, <2>2
<1>9. waf'.hooked = waf.hooked
  BY MatchType
<1>10. ASSUME ctx'.altered, waf'.mode = "ACTIVE", cfg.hooked = {}, ~UsesModeUpdate
       PROVE  Denials' # {}
  <2>1. waf.mode = "ACTIVE"
    BY <1>3, <1>10 DEF UsesModeUpdate
  <2>2. CASE ctx.altered
    BY <1>2, <1>10, <2>1, <2>2 DEF DenyInv
  <2>3. CASE Alters
    <3>1. Acted.waf.hooked = {} /\ Acted.waf.mode = "ACTIVE"
      BY <1>10, ModeAfterMatch DEF DenyInv
    <3>2. Exits
      BY <2>3, <3>1 DEF Exits, Alters, AlterActions, ExitActions
    <3> QED BY <1>2, <2>3, <3>2
  <2> QED BY <1>5, <1>10, <2>2, <2>3
<1> QED BY <1>1, <1>5, <1>7, <1>8, <1>9, <1>10 DEF DenyInv

LEMMA DenyCollects ==
    ASSUME TypeInv, DenyInv, ExecCollects, UNCHANGED <<cfg, exits, saved>>
    PROVE  DenyInv'
<1>1. Execs /\ waf' = new /\ ~Altered /\ ctx'.altered = newCtx.altered
  BY EntryType, CollectedCtx DEF ExecCollects
<1>2. Denials' = Denials /\ ModeUpdates' = ModeUpdates /\ UsesModeUpdate' = UsesModeUpdate
      /\ Range(exits') = Range(exits)
  BY DEF Denials, ModeUpdates, UsesModeUpdate
<1>3. CASE saved
  <2>1. new = waf /\ newCtx = ctx
    BY <1>3 DEF new, newCtx
  <2>2. ~(waf.mode = "ACTIVE" /\ ctx.altered)
    BY <1>1, <2>1 DEF Altered
  <2> QED BY <1>1, <1>2, <1>3, <2>1, <2>2 DEF DenyInv, ExitsInv
<1>4. CASE ~saved
  <2>1. newCtx = FreshCtx /\ new \in {ConfiguredWaf, DefaultWaf}
    BY <1>4 DEF new, newCtx
  <2>2. ~newCtx.altered /\ new.hooked \in {{}, cfg.hooked}
    BY <2>1 DEF FreshCtx, ConfiguredWaf, DefaultWaf
  <2> QED BY <1>1, <1>2, <1>4, <2>2 DEF DenyInv, ExitsInv
<1> QED BY <1>3, <1>4

LEMMA DenyStep == TypeInv /\ DenyInv /\ [Next]_vars => DenyInv'
<1> SUFFICES ASSUME TypeInv, DenyInv, [Next]_vars PROVE DenyInv'
  OBVIOUS
<1>1. CASE Match /\ (MatchContinues \/ MatchExits)
  BY <1>1, DenyMatch DEF MatchContinues, MatchExits, Moves, HandlerEnds
<1>2. CASE ExecCollects /\ UNCHANGED <<cfg, exits, saved, logged, removed>>
  BY <1>2, DenyCollects
<1>3. CASE /\ UNCHANGED <<cfg, exits, waf, logged, removed>>
           /\ ctx'.altered = ctx.altered
           /\ saved' = saved \/ saved' = TRUE
           /\ (pc' = pc /\ stage' = stage) \/ pc' = "enter"
  <2>1. Denials' = Denials /\ ModeUpdates' = ModeUpdates /\ UsesModeUpdate' = UsesModeUpdate
        /\ Range(exits') = Range(exits)
    BY <1>3 DEF Denials, ModeUpdates, UsesModeUpdate
  <2>2. saved => saved'
    BY <1>3
  <2> QED BY <1>3, <2>1, <2>2 DEF DenyInv, ExitsInv
<1> QED BY <1>1, <1>2, <1>3, StepKinds

\* After a rule's DENY has ended a handler in mode ACTIVE, exec() runs no rule of any
\* later phase (in header_filter ngx.exit returns, and the handler goes on). And where
\* exec() returns at once because of ctx.altered, without hooks and mode updates, some
\* rule did deny.
THEOREM Denied == Spec => []DeniedStops
<1>1. Spec => [](TypeInv /\ DenyInv)
  BY TypeInit, TypeStep, DenyInit, DenyStep, PTL DEF Spec
<1>2. TypeInv /\ DenyInv => DeniedStops
  <2> SUFFICES ASSUME TypeInv, DenyInv PROVE DeniedStops
    OBVIOUS
  <2>1. ASSUME NEW x \in Denials, pc = "rules", ModeUpdates \subseteq {"ACTIVE"}
        PROVE  phase = "header_filter" /\ x.phase = phase
    BY <2>1, PhaseOfStage DEF DenyInv, TypeInv, TypeOK
  <2>2. ASSUME Altered, cfg.hooked = {}, ~UsesModeUpdate
        PROVE  Denials # {}
    <3>1. saved
      BY <2>2 DEF Altered, newCtx, FreshCtx
    <3> QED BY <2>2, <3>1 DEF DenyInv, Altered, new, newCtx
  <2> QED BY <2>1, <2>2 DEF DeniedStops
<1> QED BY <1>1, <1>2, PTL

-----------------------------------------------------------------------------

\* The property is inductive with the type of exits: what a denial sends is put
\* together in the step that records it.
StatusInv == ExitsInv /\ StatusOfDenyingRule

LEMMA StatusMatch == TypeInv /\ StatusInv /\ Match => StatusInv'
<1> SUFFICES ASSUME TypeInv, StatusInv, Match PROVE StatusInv'
  OBVIOUS
<1>1. ExitsInv' /\ Denials' \subseteq Denials \cup {ExitOf}
  BY MatchRecords, MatchDenials DEF StatusInv
<1>2. ASSUME ExitOf.status # NoStatus
      PROVE  \E a \in Range(ExitOf.rule.nondisrupt) :
                a.action = "status" /\ a.data = ExitOf.status
  <2>1. IsSequence(rule.nondisrupt)
    BY RuleTyped DEF Match, Process, RuleOK
  <2>2. ExitOf.rule = rule /\ ExitOf.status = Latest("status", NoStatus)
    BY DEF ExitOf
  <2> QED BY <1>2, <2>1, <2>2, LatestOf DEF Range
<1> QED BY <1>1, <1>2 DEF StatusInv, StatusOfDenyingRule

LEMMA StatusStep == TypeInv /\ StatusInv /\ [Next]_vars => StatusInv'
<1> SUFFICES ASSUME TypeInv, StatusInv, [Next]_vars PROVE StatusInv'
  OBVIOUS
<1>1. CASE exits' = exits
  <2>1. Range(exits') = Range(exits) /\ Denials' = Denials
    BY <1>1 DEF Denials
  <2> QED BY <1>1, <2>1 DEF StatusInv, ExitsInv, StatusOfDenyingRule
<1> QED BY <1>1, StatusMatch, StepKinds

\* ctx.rule_status, which a rule's action status sets, does not outlive the rule: a
\* denial is sent with the status of the rule that denied, or with the default.
THEOREM StatusCorrect == Spec => []StatusOfDenyingRule
<1>1. Init => StatusInv
  BY DEF Init, StatusInv, ExitsInv, StatusOfDenyingRule, Denials, Range
<1>2. StatusInv => StatusOfDenyingRule
  BY DEF StatusInv
<1> QED BY <1>1, <1>2, TypeInit, TypeStep, StatusStep, PTL DEF Spec

-----------------------------------------------------------------------------

\* The ids removed so far are in the waf of a handler that runs, and in what the next
\* one is made of. For the second, there must be something saved from access on.
IgnoreInv ==
    /\ ExitsInv
    /\ Inherits =>
          /\ pc = "rules" => removed \subseteq waf.ignore
          /\ pc = "enter" /\ ~Over => removed \subseteq new.ignore
          /\ stage >= 2 => saved

LEMMA IgnoreInit == Init => IgnoreInv
<1> SUFFICES ASSUME Init PROVE IgnoreInv
  OBVIOUS
<1>1. new.ignore = cfg.ignore
  BY DEF Init, new, ConfiguredWaf
<1> QED BY <1>1 DEF Init, IgnoreInv, ExitsInv, Range

\* What an earlier handler left is still there when a later one is entered.
LEMMA IgnoreHandedOn ==
    ASSUME saved', removed' \subseteq waf'.ignore
    PROVE  removed' \subseteq new'.ignore
  BY DEF new

\* A match that ends the handler has saved the options, unless the exit is one of
\* those after which they are forgotten.
LEMMA IgnoreMatch ==
    ASSUME TypeInv, IgnoreInv, Match, MatchContinues \/ MatchExits
    PROVE  IgnoreInv'
<1>1. ExitsInv' /\ cfg' = cfg /\ (Forgotten => Forgotten')
  BY MatchRecords DEF IgnoreInv, Forgotten, MatchContinues, MatchExits, Moves
<1>2. Inherits' => Inherits
  BY <1>1 DEF Inherits
<1>3. pc = "rules" /\ (Inherits => removed \subseteq waf.ignore)
  BY DEF IgnoreInv, Match, Process, AtRule
<1>4. Inherits' => removed' \subseteq waf'.ignore
  BY <1>2, <1>3, MatchType DEF Match
<1>5. saved' = (saved \/ Alters)
  BY MatchType
<1>6. CASE MatchContinues
  <2>1. pc' = "rules" /\ stage' = stage
    BY <1>3, <1>6 DEF MatchContinues, Moves
  <2> QED BY <1>1, <1>2, <1>4, <1>5, <2>1 DEF IgnoreInv
<1>7. CASE MatchExits
  <2>1. pc' = "enter" /\ Exits
    BY <1>7 DEF MatchExits, HandlerEnds
  <2>2. Inherits' => saved'
    <3>1. ExitOf \in Range(exits') /\ ExitOf.kept = (saved \/ Alters)
      BY <2>1, MatchRecords DEF IgnoreInv, ExitOf
    <3> QED BY <1>5, <3>1 DEF Inherits, Forgotten
  <2> QED BY <1>1, <1>4, <2>1, <2>2, IgnoreHandedOn DEF IgnoreInv
<1> QED BY <1>6, <1>7

LEMMA IgnoreStep == TypeInv /\ IgnoreInv /\ [Next]_vars => IgnoreInv'
<1> SUFFICES ASSUME TypeInv, IgnoreInv, [Next]_vars PROVE IgnoreInv'
  OBVIOUS
<1>1. CASE Match /\ (MatchContinues \/ MatchExits)
  BY <1>1, IgnoreMatch
<1> SUFFICES ASSUME UNCHANGED <<cfg, exits, removed>> PROVE IgnoreInv'
  BY <1>1, StepKinds
<1>2. ExitsInv' /\ (Inherits' <=> Inherits)
  <2>1. Range(exits') = Range(exits)
    OBVIOUS
  <2> QED BY <2>1 DEF IgnoreInv, ExitsInv, Inherits, Forgotten
<1> SUFFICES ASSUME Inherits
             PROVE  /\ pc' = "rules" => removed \subseteq waf'.ignore
                    /\ pc' = "enter" /\ ~Over' => removed \subseteq new'.ignore
                    /\ stage' >= 2 => saved'
  BY <1>2 DEF IgnoreInv
<1>3. stage \in 1..5 /\ (pc = "rules" => removed \subseteq waf.ignore)
      /\ (pc = "enter" /\ ~Over => removed \subseteq new.ignore)
      /\ (stage >= 2 => saved)
  BY DEF IgnoreInv, TypeInv, TypeOK
<1>4. Execs => /\ pc = "enter" /\ ~Over /\ stage \in 1..4 /\ saved' = saved
               /\ removed \subseteq new.ignore
               /\ ~saved => stage = 1 /\ new.mode # "INACTIVE" /\ ~newCtx.altered
                            /\ ~newCtx.short_circuit
  <2> SUFFICES ASSUME Execs
               PROVE  /\ pc = "enter" /\ ~Over /\ stage \in 1..4 /\ saved' = saved
                      /\ removed \subseteq new.ignore
                      /\ ~saved => stage = 1 /\ new.mode # "INACTIVE" /\ ~newCtx.altered
                                   /\ ~newCtx.short_circuit
    OBVIOUS
  <2>1. pc = "enter" /\ ~Over /\ stage \in 1..4 /\ saved' = saved
    BY EntryType DEF Execs
  <2>2. ASSUME ~saved
        PROVE  stage = 1 /\ new.mode # "INACTIVE" /\ ~newCtx.altered /\ ~newCtx.short_circuit
    <3>1. stage = 1 /\ cfg.mode # "INACTIVE"
      BY <1>3, <2>1, <2>2 DEF Inherits
    <3>2. new = ConfiguredWaf /\ newCtx = FreshCtx
      BY <2>2, <3>1 DEF new, newCtx
    <3> QED BY <3>1, <3>2 DEF ConfiguredWaf, FreshCtx
  <2> QED BY <1>3, <2>1, <2>2
<1>5. CASE ExecInactive \/ ExecAltered
  <2>1. Execs /\ UNCHANGED waf /\ saved
    BY <1>4, <1>5 DEF ExecInactive, ExecAltered, Altered
  <2>2. pc' = "enter"
    BY <1>5 DEF ExecInactive, ExecAltered, HandlerEnds
  <2> QED BY <1>4, <2>1, <2>2, IgnoreHandedOn DEF new
<1>6. CASE ExecRuns
  BY <1>3, <1>4, <1>6 DEF ExecRuns, ExecCollects
<1>7. CASE ExecShortCircuits
  <2>1. Execs /\ waf' = new /\ pc' = "enter" /\ Collected(newCtx).short_circuit
    BY <1>7 DEF ExecShortCircuits, ExecCollects, HandlerEnds
  <2>2. saved
    BY <1>4, <2>1, PhaseOfStage DEF Collected
  <2> QED BY <1>4, <2>1, <2>2, IgnoreHandedOn
<1>8. CASE ExecBodyFails
  <2>1. Execs /\ UNCHANGED <<waf, pc>> /\ stage = 3
    BY <1>4, <1>8, PhaseOfStage DEF ExecBodyFails, Execs
  <2> QED BY <1>3, <1>4, <2>1, IgnoreHandedOn DEF new
<1>9. CASE LogHandlerWrites
  <2>1. stage = 4
    BY <1>3, <1>9, PhaseOfStage DEF LogHandlerWrites, Over
  <2>2. stage' = 5 /\ saved' = saved /\ pc' = "enter"
    BY <1>9, <2>1 DEF LogHandlerWrites
  <2> QED BY <1>3, <2>1, <2>2 DEF Over
<1>10. CASE Ignore \/ NoMatch \/ NextRuleset
  <2>1. pc = "rules" /\ UNCHANGED <<pc, stage, waf, saved>>
    BY <1>10 DEF Ignore, NoMatch, NextRuleset, Process, AtRule, RulesetDone, Moves
  <2> QED BY <1>3, <2>1
<1>11. CASE ExecFinalizes
  <2>1. pc = "rules" /\ pc' = "enter" /\ UNCHANGED waf /\ saved'
    BY <1>11 DEF ExecFinalizes, Finalize, RulesetDone, HandlerEnds
  <2> QED BY <1>3, <2>1, IgnoreHandedOn
<1>12. CASE UNCHANGED vars
  <2>1. new' = new /\ Over' = Over
    BY <1>12 DEF vars, new, Over, ConfiguredWaf
  <2> QED BY <1>3, <1>12, <2>1 DEF vars
<1>13. CASE MatchContinues \/ MatchExits
  <2>1. IgnoreInv'
    BY <1>13, IgnoreMatch DEF MatchContinues, MatchExits
  <2> QED BY <1>2, <2>1 DEF IgnoreInv
<1> QED
  BY <1>5, <1>6, <1>7, <1>8, <1>9, <1>10, <1>11, <1>12, <1>13 DEF Next, Finished

\* A rule that rule_remove_id or rule_remove_by_meta has put on the list of ignored
\* rules is not processed again, in this handler or, through ctx.opts, a later one.
THEOREM IgnoresKept == Spec => IgnoredStaysIgnored
<1>1. Spec => [](TypeInv /\ IgnoreInv)
  BY TypeInit, TypeStep, IgnoreInit, IgnoreStep, PTL DEF Spec
<1>2. TypeInv /\ IgnoreInv /\ [Next]_vars
      => [AtRule /\ (NoMatch \/ Match) /\ Inherits => ran' \notin removed]_vars
  BY DEF IgnoreInv, AtRule, NoMatch, Match, Process
<1> QED BY <1>1, <1>2, PTL DEF Spec, IgnoredStaysIgnored

-----------------------------------------------------------------------------

\* The first n chunks.
UpTo(n) == [m \in 1..n |-> m]

LEMMA UpToNone == UpTo(0) = <<>>
  BY DEF UpTo

LEMMA UpToFacts ==
    ASSUME NEW n \in Nat
    PROVE  /\ UpTo(n) \in Seq(Nat) /\ Len(UpTo(n)) = n
           /\ UpTo(0) = <<>> /\ <<1>> = UpTo(1)
           /\ Append(UpTo(n), n + 1) = UpTo(n + 1)
           /\ UpTo(n) \o <<n + 1>> = UpTo(n + 1)
           /\ UpTo(n) \o <<>> = UpTo(n) /\ <<>> \o UpTo(n) = UpTo(n)
<1>1. \A k \in Nat : UpTo(k) \in Seq(Nat) /\ Len(UpTo(k)) = k
  BY DEF UpTo
<1>2. UpTo(0) = <<>> /\ <<1>> = UpTo(1)
  BY DEF UpTo
<1>3. Append(UpTo(n), n + 1) = UpTo(n + 1)
  BY <1>1 DEF UpTo
<1>4. UpTo(n) \o <<n + 1>> = Append(UpTo(n), n + 1)
  BY <1>1
<1>5. UpTo(n) \o <<>> = UpTo(n) /\ <<>> \o UpTo(n) = UpTo(n)
  BY <1>1
<1> QED BY <1>1, <1>2, <1>3, <1>4, <1>5

LEMMA UpToPrefix ==
    ASSUME NEW n \in Nat, NEW k \in 0..n
    PROVE  IsPrefix(UpTo(k), UpTo(n))
<1>1. \A j \in Nat : UpTo(j) \in Seq(Nat) /\ Len(UpTo(j)) = j
  BY UpToFacts
<1>2. k \in Nat /\ k <= n
  OBVIOUS
<1>3. SubSeq(UpTo(k), 1, k) = SubSeq(UpTo(n), 1, k)
  BY <1>2 DEF UpTo
<1> QED BY <1>1, <1>2, <1>3 DEF IsPrefix

\* What may keep chunks from the client: an ACCEPT, or an exit at the response body.
Excused == Accepted \/ \E x \in Range(exits) : x.phase = "body_filter"

\* The handlers of body_filter do not hold chunks back.
PassesAsTheyCome == ~cfg.buffered \/ new.mode = "INACTIVE" \/ Altered

\* Before body_filter nothing is sent or held back.
BeforeBody == sent = <<>> /\ ctx.buffers = <<>> /\ ~ctx.short_circuit

\* Between two chunks: those so far were all sent, or are all in ctx.buffers. Unless
\* no rules are to run, or there was an ACCEPT, the header_filter handler has set
\* ctx.headers, without which lookup.body_filter raises an error.
BetweenChunks ==
    /\ Accepted \/ new.mode = "INACTIVE" \/ Altered \/ newCtx.headers
    /\ PassesAsTheyCome => sent = UpTo(chunk)
    /\ ~PassesAsTheyCome => sent = <<>> /\ newCtx.buffers = UpTo(chunk)

\* The rules of body_filter run at the last chunk; with it the response is complete.
InBodyRules ==
    /\ chunk = cfg.chunks
    /\ sent \in {<<>>, UpTo(cfg.chunks - 1)}
    /\ sent \o arg = UpTo(cfg.chunks)

\* The response is sent, or there is an excuse, and what is sent is its beginning.
AfterBody == \/ sent = UpTo(cfg.chunks)
             \/ Excused /\ \E n \in 0..cfg.chunks : sent = UpTo(n)

\* The parts of the invariant by stage and point of control.
ResponseInv ==
    /\ ExitsInv
    /\ stage <= 2 => BeforeBody
    /\ stage = 3 /\ pc = "enter" => BetweenChunks
    /\ stage = 3 /\ pc = "rules" => InBodyRules
    /\ stage > 3 => AfterBody
    /\ stage # 3 /\ pc = "rules" => arg = <<>>
    /\ stage = 2 /\ pc = "rules" => ctx.headers

LEMMA ResponseInit == Init => ResponseInv
  BY DEF Init, ResponseInv, ExitsInv, BeforeBody, FreshCtx, Range

\* An exit is not taken back.
LEMMA ExcusedStays ==
    ASSUME Range(exits) \subseteq Range(exits')
    PROVE  (Accepted => Accepted') /\ (Excused => Excused')
  BY DEF Accepted, Excused

LEMMA SentTyped ==
    ASSUME TypeInv, AfterBody
    PROVE  sent \in Seq(Nat) /\ sent \o <<>> = sent /\ cfg.chunks \in Nat \ {0}
<1>1. cfg.chunks \in Nat \ {0}
  BY ConfigsAssumption DEF TypeInv, ConfigOK
<1>2. PICK n \in Nat : sent = UpTo(n)
  BY <1>1 DEF AfterBody
<1> QED BY <1>1, <1>2, UpToFacts

\* Before the response body nothing has been sent.
LEMMA EntersBody ==
    ASSUME sent' = <<>>, ctx'.buffers = <<>>, chunk' = 0,
           Accepted' \/ new'.mode = "INACTIVE" \/ Altered' \/ newCtx'.headers
    PROVE  BetweenChunks'
<1>1. newCtx'.buffers = <<>>
  BY DEF newCtx, FreshCtx
<1> QED BY <1>1, UpToFacts DEF BetweenChunks

LEMMA EntryOrder ==
    ASSUME TypeInv, ResponseInv, Execs
    PROVE  /\ stage <= 2 => BeforeBody /\ newCtx.buffers = <<>> /\ ~newCtx.short_circuit
           /\ stage = 3 => BetweenChunks
           /\ stage = 4 => AfterBody
           /\ newCtx.headers => saved
           /\ Altered => saved
           /\ new.mode = "INACTIVE" /\ stage # 1 => saved
<1>1. pc = "enter"
  BY DEF Execs
<1>2. stage <= 2 => newCtx.buffers = <<>> /\ ~newCtx.short_circuit
  BY DEF newCtx, FreshCtx, ResponseInv, BeforeBody
<1>3. (newCtx.headers => saved) /\ (Altered => saved)
      /\ (new.mode = "INACTIVE" /\ stage # 1 => saved)
  BY DEF Altered, newCtx, FreshCtx, new, DefaultWaf
<1> QED BY <1>1, <1>2, <1>3 DEF ResponseInv

LEMMA ResponsePasses == TypeInv /\ ResponseInv /\ (ExecInactive \/ ExecAltered) => ResponseInv'
<1> SUFFICES ASSUME TypeInv, ResponseInv, ExecInactive \/ ExecAltered PROVE ResponseInv'
  OBVIOUS
<1> DEFINE passed_on == IF stage = 3 THEN <<chunk + 1>> ELSE <<>>
<1>1. /\ Execs /\ UNCHANGED <<cfg, waf, ctx, saved, exits>>
      /\ new.mode = "INACTIVE" \/ Altered
  BY DEF ExecInactive, ExecAltered, Execs
<1>2. stage \in 1..4 /\ HandlerEnds(passed_on)
  BY <1>1, EntryType, PhaseOfStage DEF ExecInactive, ExecAltered
<1>3. /\ stage' \in {stage, stage + 1} /\ pc' = "enter"
      /\ stage' = stage => stage = 3
      /\ sent' = sent \o passed_on
  BY <1>1, <1>2, EntryType, EndsType DEF HandlerEnds
<1>4. ExitsInv' /\ Accepted' = Accepted /\ Excused' = Excused
  <2>1. Range(exits') = Range(exits)
    BY <1>1
  <2> QED BY <1>1, <2>1 DEF ResponseInv, ExitsInv, Accepted, Excused
<1>5. stage # 1 => new' = new /\ newCtx' = newCtx /\ (Altered' <=> Altered)
  <2> SUFFICES ASSUME stage # 1 PROVE new' = new /\ newCtx' = newCtx /\ (Altered' <=> Altered)
    OBVIOUS
  <2>1. saved /\ saved'
    BY <1>1, EntryOrder
  <2> QED BY <1>1, <2>1 DEF new, newCtx, Altered
<1>6. CASE stage = 1
  <2>1. BeforeBody' /\ stage' = 2
    BY <1>1, <1>3, <1>6 DEF ResponseInv, BeforeBody
  <2> QED BY <1>3, <1>4, <2>1 DEF ResponseInv
<1>7. CASE stage = 2
  <2>1. stage' = 3 /\ sent' = <<>> /\ ctx'.buffers = <<>> /\ chunk' = 0
    BY <1>1, <1>3, <1>7, EntryType DEF ResponseInv, BeforeBody, TypeInv
  <2>2. BetweenChunks'
    BY <1>1, <1>5, <1>7, <2>1, EntersBody
  <2> QED BY <1>3, <1>4, <2>1, <2>2 DEF ResponseInv
<1>8. CASE stage = 3
  <2>1. chunk' = chunk + 1 /\ chunk \in Nat /\ cfg.chunks \in Nat \ {0} /\ chunk < cfg.chunks
    BY <1>1, <1>8, EntryType DEF TypeInv, TypeOK, Execs
  <2>2. sent = UpTo(chunk)
    BY <1>1, <1>8, EntryOrder DEF BetweenChunks, PassesAsTheyCome
  <2>3. sent' = UpTo(chunk')
    BY <1>3, <1>8, <2>1, <2>2, UpToFacts
  <2>4. BetweenChunks'
    BY <1>1, <1>5, <1>8, <2>3 DEF BetweenChunks, PassesAsTheyCome
  <2>5. stage' = 4 => chunk' = cfg.chunks
    BY <1>2, <1>8, <2>1, PhaseOfStage, EntryType, <1>1 DEF HandlerEnds
  <2>6. stage' = 4 => AfterBody'
    BY <1>1, <2>3, <2>5 DEF AfterBody
  <2> QED BY <1>3, <1>4, <1>8, <2>4, <2>6 DEF ResponseInv
<1>9. CASE stage = 4
  <2>1. AfterBody /\ sent' = sent
    BY <1>1, <1>3, <1>9, EntryOrder, SentTyped
  <2>2. AfterBody' /\ stage' = 5
    BY <1>1, <1>3, <1>4, <1>9, <2>1 DEF AfterBody
  <2> QED BY <1>3, <1>4, <2>2 DEF ResponseInv
<1> QED BY <1>2, <1>6, <1>7, <1>8, <1>9

\* What the collections do at the response body.
LEMMA BodyCollected ==
    ASSUME TypeInv, ResponseInv, ExecCollects, stage = 3
    PROVE  /\ cfg.chunks \in Nat \ {0} /\ chunk \in Nat /\ chunk < cfg.chunks
           /\ chunk' = chunk + 1
           /\ saved /\ newCtx = ctx /\ new = waf /\ ctx.headers /\ ctx'.headers
           /\ waf' = new /\ ~Altered /\ new.mode # "INACTIVE" /\ ctx'.altered = ctx.altered
           /\ cfg.buffered => /\ sent = <<>> /\ ctx.buffers = UpTo(chunk)
                              /\ ctx'.buffers = UpTo(chunk')
                              /\ PassedOn(newCtx) = IF Eof THEN UpTo(chunk') ELSE <<>>
           /\ ~cfg.buffered => sent = UpTo(chunk) /\ PassedOn(newCtx) = <<chunk + 1>>
           /\ ~Collected(newCtx).short_circuit => Eof
<1>1. /\ Execs /\ ~Altered /\ new.mode # "INACTIVE" /\ newCtx.headers
      /\ waf' = new /\ ctx' = Collected(newCtx) /\ phase = "body_filter"
  BY PhaseOfStage DEF ExecCollects
<1>2. saved /\ newCtx = ctx /\ new = waf
  <2>1. saved
    BY <1>1, EntryOrder
  <2> QED BY <2>1 DEF newCtx, new
<1>3. cfg.chunks \in Nat \ {0} /\ chunk \in Nat /\ chunk < cfg.chunks /\ chunk' = chunk + 1
  BY <1>1, EntryType DEF TypeInv, TypeOK, Execs
<1>4. BetweenChunks /\ (PassesAsTheyCome <=> ~cfg.buffered)
  BY <1>1, EntryOrder DEF PassesAsTheyCome
<1>5. ctx'.headers = ctx.headers /\ ctx'.altered = ctx.altered
  BY <1>1, <1>2 DEF Collected, TypeInv, CtxFields
<1>6. CASE cfg.buffered
  <2>1. sent = <<>> /\ ctx.buffers = UpTo(chunk)
    BY <1>2, <1>4, <1>6 DEF BetweenChunks
  <2>2. Collected(ctx).buffers = Append(ctx.buffers, chunk + 1)
        /\ (~Collected(ctx).short_circuit => Eof)
    BY <1>1, <1>6 DEF Collected, TypeInv, CtxFields
  <2>3. Collected(ctx).buffers = UpTo(chunk')
    BY <1>3, <2>1, <2>2, UpToFacts
  <2>4. PassedOn(newCtx) = IF Eof THEN UpTo(chunk') ELSE <<>>
    BY <1>1, <1>2, <1>6, <2>3 DEF PassedOn
  <2> QED BY <1>1, <1>2, <1>3, <1>5, <1>6, <2>1, <2>2, <2>3, <2>4
<1>7. CASE ~cfg.buffered
  <2>1. sent = UpTo(chunk)
    BY <1>4, <1>7 DEF BetweenChunks
  <2>2. PassedOn(newCtx) = <<chunk + 1>>
    BY <1>1, <1>7 DEF PassedOn
  <2>3. Collected(ctx).short_circuit = ~Eof
    BY <1>1, <1>7 DEF Collected, TypeInv, CtxFields
  <2> QED BY <1>1, <1>2, <1>3, <1>5, <1>7, <2>1, <2>2, <2>3
<1> QED BY <1>6, <1>7

\* The collections of the other phases hold nothing back.
LEMMA OtherCollected ==
    ASSUME TypeInv, ResponseInv, ExecCollects, stage # 3
    PROVE  /\ ctx'.buffers = newCtx.buffers /\ ctx'.short_circuit = newCtx.short_circuit
           /\ stage = 2 => ctx'.headers
           /\ PassedOn(newCtx) = <<>>
<1>1. Execs /\ ctx' = Collected(newCtx) /\ DOMAIN newCtx = CtxFields
  BY EntryType DEF ExecCollects
<1>2. phase # "body_filter" /\ (stage = 2 <=> phase = "header_filter")
  BY <1>1, EntryType, PhaseOfStage
<1>3. PassedOn(newCtx) = <<>>
  BY <1>2 DEF PassedOn
<1>4. CASE stage = 2
  BY <1>1, <1>2, <1>4, <1>3 DEF Collected, CtxFields
<1>5. CASE stage # 2
  <2>1. Collected(newCtx) = newCtx
    BY <1>2, <1>5 DEF Collected
  <2> QED BY <1>1, <1>3, <1>5, <2>1
<1> QED BY <1>4, <1>5

LEMMA ResponseRuns == TypeInv /\ ResponseInv /\ ExecRuns => ResponseInv'
<1> SUFFICES ASSUME TypeInv, ResponseInv, ExecRuns PROVE ResponseInv'
  OBVIOUS
<1>1. /\ Execs /\ ExecCollects /\ ~Collected(newCtx).short_circuit
      /\ pc' = "rules" /\ arg' = PassedOn(newCtx) /\ UNCHANGED <<cfg, stage, sent, exits>>
      /\ ctx' = Collected(newCtx)
  BY DEF ExecRuns, ExecCollects, Execs
<1>2. ExitsInv' /\ Excused' = Excused /\ stage \in 1..4
  <2>1. Range(exits') = Range(exits)
    BY <1>1
  <2> QED BY <1>1, <2>1, EntryType DEF ResponseInv, ExitsInv, Accepted, Excused
<1>3. CASE stage <= 2
  <2>1. BeforeBody' /\ arg' = <<>> /\ (stage = 2 => ctx'.headers)
    BY <1>1, <1>3, EntryOrder, OtherCollected DEF BeforeBody
  <2> QED BY <1>1, <1>2, <1>3, <2>1 DEF ResponseInv
<1>4. CASE stage = 3
  <2>1. chunk' = cfg.chunks /\ cfg.chunks \in Nat \ {0} /\ chunk = cfg.chunks - 1 /\ Eof
    BY <1>1, <1>4, BodyCollected DEF Eof
  <2>2. CASE cfg.buffered
    <3>1. sent = <<>> /\ arg' = UpTo(cfg.chunks)
      BY <1>1, <1>4, <2>1, <2>2, BodyCollected
    <3> QED BY <1>1, <1>2, <1>4, <2>1, <3>1, UpToFacts DEF ResponseInv, InBodyRules
  <2>3. CASE ~cfg.buffered
    <3>1. sent = UpTo(cfg.chunks - 1) /\ arg' = <<cfg.chunks>>
      BY <1>1, <1>4, <2>1, <2>3, BodyCollected
    <3>2. sent \o arg' = UpTo(cfg.chunks)
      <4>1. (cfg.chunks - 1) \in Nat /\ (cfg.chunks - 1) + 1 = cfg.chunks
        BY <2>1
      <4> QED BY <3>1, <4>1, UpToFacts
    <3> QED BY <1>1, <1>2, <1>4, <2>1, <3>1, <3>2 DEF ResponseInv, InBodyRules
  <2> QED BY <2>2, <2>3
<1>5. CASE stage = 4
  <2>1. AfterBody /\ arg' = <<>>
    BY <1>1, <1>5, EntryOrder, OtherCollected
  <2> QED BY <1>1, <1>2, <1>5, <2>1 DEF ResponseInv, AfterBody
<1> QED BY <1>2, <1>3, <1>4, <1>5

\* Between two chunks the next handler finds what this one left.
LEMMA BodyHandsOn ==
    ASSUME TypeInv, ResponseInv, ExecShortCircuits, stage = 3
    PROVE  /\ new' = new /\ newCtx' = ctx' /\ ctx' = Collected(newCtx) /\ newCtx'.headers
           /\ ~Altered' /\ new'.mode # "INACTIVE" /\ pc' = "enter"
           /\ stage' = IF Eof THEN 4 ELSE 3
           /\ Eof <=> chunk' = cfg.chunks
<1>1. /\ ExecCollects /\ HandlerEnds(PassedOn(newCtx)) /\ UNCHANGED <<cfg, saved>>
      /\ ctx' = Collected(newCtx)
  BY DEF ExecShortCircuits, ExecCollects, Execs
<1>2. /\ saved /\ newCtx = ctx /\ new = waf /\ ctx'.headers /\ waf' = waf
      /\ ~Altered /\ new.mode # "INACTIVE" /\ ctx'.altered = ctx.altered
      /\ chunk' = chunk + 1 /\ chunk \in Nat /\ cfg.chunks \in Nat /\ chunk < cfg.chunks
  BY <1>1, BodyCollected
<1>3. new' = waf' /\ newCtx' = ctx'
  BY <1>1, <1>2 DEF new, newCtx
<1>4. Eof <=> chunk' = cfg.chunks
  BY <1>2 DEF Eof
<1>5. stage' = IF Eof THEN 4 ELSE 3
  BY <1>1, <1>2, <1>4, PhaseOfStage DEF HandlerEnds
<1>6. pc' = "enter"
  BY <1>1 DEF HandlerEnds
<1> QED BY <1>1, <1>2, <1>3, <1>4, <1>5, <1>6 DEF Altered

LEMMA ResponseShortCircuits == TypeInv /\ ResponseInv /\ ExecShortCircuits => ResponseInv'
<1> SUFFICES ASSUME TypeInv, ResponseInv, ExecShortCircuits PROVE ResponseInv'
  OBVIOUS
<1>1. /\ Execs /\ ExecCollects /\ Collected(newCtx).short_circuit
      /\ HandlerEnds(PassedOn(newCtx)) /\ UNCHANGED <<cfg, saved, exits>>
      /\ ctx' = Collected(newCtx)
  BY DEF ExecShortCircuits, ExecCollects, Execs
<1>2. ExitsInv' /\ Excused' = Excused /\ Accepted' = Accepted /\ stage \in 1..4
  <2>1. Range(exits') = Range(exits)
    BY <1>1
  <2> QED BY <1>1, <2>1, EntryType DEF ResponseInv, ExitsInv, Accepted, Excused
<1>3. /\ stage' \in {stage, stage + 1} /\ pc' = "enter"
      /\ stage' = stage => stage = 3
      /\ sent' = sent \o PassedOn(newCtx)
  BY <1>1, <1>2, EntryType, EndsType DEF HandlerEnds
<1>4. stage > 2
  BY <1>1, <1>2, EntryOrder, OtherCollected
<1>5. CASE stage = 3
  <2>1. chunk' = chunk + 1 /\ chunk \in Nat /\ cfg.chunks \in Nat \ {0} /\ chunk < cfg.chunks
    BY <1>1, <1>5, BodyCollected
  <2>2. /\ new' = new /\ newCtx' = ctx' /\ ~Altered' /\ new'.mode # "INACTIVE"
        /\ newCtx'.headers
    BY <1>5, BodyHandsOn
  <2>3. PassesAsTheyCome' <=> ~cfg.buffered
    BY <1>1, <2>2 DEF PassesAsTheyCome
  <2>4. stage' = 4 <=> chunk' = cfg.chunks
    BY <1>5, BodyHandsOn
  <2>5. Eof <=> chunk' = cfg.chunks
    BY <1>5, BodyHandsOn
  <2>6. CASE cfg.buffered
    <3>1. ctx'.buffers = UpTo(chunk') /\ sent' = IF Eof THEN UpTo(chunk') ELSE <<>>
      <4>1. /\ sent = <<>> /\ ctx'.buffers = UpTo(chunk')
            /\ PassedOn(newCtx) = IF Eof THEN UpTo(chunk') ELSE <<>>
        BY <1>1, <1>5, <2>6, BodyCollected
      <4>2. <<>> \o UpTo(chunk') = UpTo(chunk')
        BY <2>1, UpToFacts
      <4> QED BY <1>3, <4>1, <4>2
    <3>2. stage' = 4 => AfterBody'
      BY <1>1, <2>4, <2>5, <3>1 DEF AfterBody
    <3>3. stage' = 3 => BetweenChunks'
      BY <1>1, <2>1, <2>2, <2>3, <2>4, <2>5, <2>6, <3>1, <1>3, <1>5 DEF BetweenChunks
    <3> QED BY <1>2, <1>3, <1>5, <3>2, <3>3 DEF ResponseInv
  <2>7. CASE ~cfg.buffered
    <3>1. sent' = UpTo(chunk')
      BY <1>1, <1>3, <1>5, <2>1, <2>7, BodyCollected, UpToFacts
    <3>2. stage' = 4 => AfterBody'
      BY <1>1, <2>4, <3>1 DEF AfterBody
    <3>3. stage' = 3 => BetweenChunks'
      BY <2>2, <2>3, <2>7, <3>1 DEF BetweenChunks
    <3> QED BY <1>2, <1>3, <1>5, <3>2, <3>3 DEF ResponseInv
  <2> QED BY <2>6, <2>7
<1>6. CASE stage = 4
  <2>1. AfterBody /\ sent' = sent
    BY <1>1, <1>3, <1>6, EntryOrder, OtherCollected, SentTyped
  <2>2. AfterBody' /\ stage' = 5
    BY <1>1, <1>2, <1>3, <1>6, <2>1 DEF AfterBody
  <2> QED BY <1>2, <1>3, <2>2 DEF ResponseInv
<1> QED BY <1>2, <1>4, <1>5, <1>6

\* The response fails only when a header_filter handler was left by an ACCEPT.
LEMMA ResponseFails == TypeInv /\ ResponseInv /\ ExecBodyFails => ResponseInv'
<1> SUFFICES ASSUME TypeInv, ResponseInv, ExecBodyFails PROVE ResponseInv'
  OBVIOUS
<1>1. /\ Execs /\ stage = 3 /\ stage' = 4 /\ pc' = pc /\ pc = "enter"
      /\ new.mode # "INACTIVE" /\ ~Altered /\ ~newCtx.headers
      /\ UNCHANGED <<cfg, sent, exits>>
  BY EntryType, PhaseOfStage DEF ExecBodyFails, Execs
<1>2. BetweenChunks /\ Accepted /\ cfg.chunks \in Nat \ {0} /\ chunk \in 0..cfg.chunks
  BY <1>1, EntryOrder, EntryType DEF BetweenChunks, TypeInv, TypeOK
<1>3. ExitsInv' /\ Excused'
  <2>1. Range(exits') = Range(exits)
    BY <1>1
  <2> QED BY <1>1, <1>2, <2>1 DEF ResponseInv, ExitsInv, Accepted, Excused
<1>4. \E n \in 0..cfg.chunks : sent = UpTo(n)
  <2>1. CASE PassesAsTheyCome
    BY <1>2, <2>1 DEF BetweenChunks
  <2>2. CASE ~PassesAsTheyCome
    BY <1>2, <2>2, UpToNone DEF BetweenChunks
  <2> QED BY <2>1, <2>2
<1>5. AfterBody'
  BY <1>1, <1>3, <1>4 DEF AfterBody
<1> QED BY <1>1, <1>3, <1>5 DEF ResponseInv

\* A step of the loop that does not end the handler.
LEMMA ResponseLoops ==
    ASSUME TypeInv, ResponseInv, pc = "rules", ExitsInv', Range(exits) \subseteq Range(exits'),
           UNCHANGED <<cfg, stage, chunk, pc, arg, sent>>,
           ctx'.buffers = ctx.buffers, ctx'.short_circuit = ctx.short_circuit,
           ctx'.headers = ctx.headers
    PROVE  ResponseInv'
<1>1. Excused => Excused'
  BY ExcusedStays
<1> QED BY <1>1 DEF ResponseInv, BeforeBody, InBodyRules, AfterBody

\* A handler that ends in its rules: at their end, or by ngx.exit.
LEMMA ResponseEnds ==
    ASSUME TypeInv, ResponseInv, pc = "rules", ExitsInv', Range(exits) \subseteq Range(exits'),
           UNCHANGED <<cfg, chunk>>, NEW passed_on \in {arg, <<>>}, HandlerEnds(passed_on),
           ctx'.buffers = ctx.buffers, ctx'.short_circuit = ctx.short_circuit,
           ctx'.headers = ctx.headers,
           saved' \/ Accepted',
           stage = 3 => passed_on = arg \/ Excused'
    PROVE  ResponseInv'
<1>1. /\ stage \in 1..4 /\ stage' \in {stage, stage + 1} /\ pc' = "enter"
      /\ stage' = stage => stage = 3
      /\ sent' = sent \o passed_on
      /\ cfg.chunks \in Nat \ {0}
  BY EndsType, ConfigsAssumption DEF HandlerEnds, TypeInv, TypeOK, ConfigOK
<1>2. Excused => Excused'
  BY ExcusedStays
<1>3. CASE stage <= 2
  <2>1. sent' = <<>> /\ BeforeBody' /\ chunk' = 0
    BY <1>1, <1>3 DEF ResponseInv, BeforeBody, TypeInv
  <2>2. stage = 2 => Accepted' \/ newCtx'.headers
    <3>1. stage = 2 => ctx'.headers
      BY DEF ResponseInv
    <3> QED BY <3>1 DEF newCtx
  <2>3. stage' = 3 => BetweenChunks'
    BY <1>1, <2>1, <2>2, <1>3, EntersBody DEF BeforeBody
  <2> QED BY <1>1, <1>3, <2>1, <2>3 DEF ResponseInv
<1>4. CASE stage = 3
  <2>1. InBodyRules /\ stage' = 4
    BY <1>1, <1>4, PhaseOfStage DEF ResponseInv, HandlerEnds, InBodyRules
  <2>2. CASE passed_on = arg
    <3>1. sent' = UpTo(cfg.chunks)
      BY <1>1, <2>1, <2>2 DEF InBodyRules
    <3> QED BY <1>1, <2>1, <3>1 DEF ResponseInv, AfterBody
  <2>3. CASE passed_on = <<>> /\ Excused'
    <3>1. PICK n \in 0..cfg.chunks : sent = UpTo(n)
      BY <1>1, <2>1, UpToNone DEF InBodyRules
    <3>2. sent' = UpTo(n)
      BY <1>1, <2>3, <3>1, UpToFacts
    <3> QED BY <1>1, <2>1, <2>3, <3>2 DEF ResponseInv, AfterBody
  <2> QED BY <1>4, <2>2, <2>3
<1>5. CASE stage = 4
  <2>1. AfterBody /\ passed_on = <<>>
    BY <1>5 DEF ResponseInv
  <2>2. AfterBody' /\ stage' = 5
    BY <1>1, <1>2, <1>5, <2>1, SentTyped DEF AfterBody
  <2> QED BY <1>1, <2>2 DEF ResponseInv
<1> QED BY <1>1, <1>3, <1>4, <1>5

LEMMA ResponseMatch == TypeInv /\ ResponseInv /\ (MatchContinues \/ MatchExits) => ResponseInv'
<1> SUFFICES ASSUME TypeInv, ResponseInv, MatchContinues \/ MatchExits PROVE ResponseInv'
  OBVIOUS
<1>1. /\ Match /\ pc = "rules" /\ ExitsInv' /\ Range(exits) \subseteq Range(exits')
      /\ ctx'.buffers = ctx.buffers /\ ctx'.short_circuit = ctx.short_circuit
      /\ ctx'.headers = ctx.headers /\ saved' = (saved \/ Alters)
  BY MatchRecords, MatchType
     DEF MatchContinues, MatchExits, Match, Process, AtRule, ResponseInv
<1>2. CASE MatchContinues
  BY <1>1, <1>2, ResponseLoops DEF MatchContinues, Moves
<1>3. CASE MatchExits
  <2>1. Exits /\ UNCHANGED <<cfg, chunk>> /\ HandlerEnds(<<>>)
    BY <1>3 DEF MatchExits
  <2>2. ExitOf \in Range(exits') /\ ExitOf.action = rule.disrupt /\ ExitOf.phase = phase
    BY <1>1, <2>1, MatchRecords DEF ResponseInv, ExitOf
  <2>3. saved' \/ Accepted'
    BY <1>1, <2>1, <2>2 DEF Exits, Alters, ExitActions, AlterActions, Accepted
  <2>4. stage = 3 => Excused'
    BY <2>2, PhaseOfStage DEF Excused
  <2> QED BY <1>1, <2>1, <2>3, <2>4, ResponseEnds
<1> QED BY <1>2, <1>3

LEMMA ResponseStep == TypeInv /\ ResponseInv /\ [Next]_vars => ResponseInv'
<1> SUFFICES ASSUME TypeInv, ResponseInv, [Next]_vars PROVE ResponseInv'
  OBVIOUS
<1>1. CASE exits' = exits
  <2>1. Range(exits') = Range(exits) /\ ExitsInv' /\ Accepted' = Accepted /\ Excused' = Excused
    <3>1. Range(exits') = Range(exits)
      BY <1>1
    <3> QED BY <1>1, <3>1 DEF ResponseInv, ExitsInv, Accepted, Excused
  <2>2. CASE Ignore \/ NoMatch \/ NextRuleset
    <3>1. pc = "rules" /\ UNCHANGED <<cfg, stage, chunk, pc, arg, sent>>
      BY <2>2 DEF Ignore, NoMatch, NextRuleset, Process, AtRule, RulesetDone, Moves
    <3>2. ctx'.buffers = ctx.buffers /\ ctx'.short_circuit = ctx.short_circuit
          /\ ctx'.headers = ctx.headers
      BY <2>2 DEF Ignore, NoMatch, NextRuleset, TypeInv, CtxFields
    <3> QED BY <2>1, <3>1, <3>2, ResponseLoops
  <2>3. CASE ExecFinalizes
    BY <2>1, <2>3, ResponseEnds DEF ExecFinalizes, RulesetDone, Finalize
  <2>4. CASE LogHandlerWrites
    <3>1. /\ pc' = "enter" /\ stage = 4 /\ stage' = 5 /\ UNCHANGED <<cfg, sent>>
      BY <2>4, PhaseOfStage DEF LogHandlerWrites, Over, TypeInv, TypeOK
    <3> QED BY <2>1, <3>1 DEF ResponseInv, AfterBody
  <2>5. CASE UNCHANGED vars
    <3>1. /\ new' = new /\ newCtx' = newCtx /\ UNCHANGED <<cfg, stage, chunk, pc, arg, sent, ctx>>
      BY <2>5 DEF vars, new, newCtx, ConfiguredWaf
    <3> QED BY <2>1, <3>1 DEF ResponseInv, BeforeBody, BetweenChunks, PassesAsTheyCome,
                              Altered, InBodyRules, AfterBody
  <2> QED BY <2>2, <2>3, <2>4, <2>5, ResponsePasses, ResponseRuns, ResponseShortCircuits,
             ResponseFails, ResponseMatch DEF Next, Finished
<1>2. CASE MatchContinues \/ MatchExits
  BY <1>2, ResponseMatch
<1>3. MatchContinues \/ MatchExits \/ exits' = exits
  BY StepKinds
<1> QED BY <1>1, <1>2, <1>3

\* Although lookup.body_filter empties ngx.arg for all chunks but the last and sends the
\* buffers with it, the client gets the chunks in order and each once: all of them, unless
\* an ACCEPT or an exit from the rules of body_filter has cut the response short.
THEOREM Response == Spec => []ResponseIntact
<1>1. Spec => [](TypeInv /\ ResponseInv)
  BY TypeInit, TypeStep, ResponseInit, ResponseStep, PTL DEF Spec
<1>2. TypeInv /\ ResponseInv => ResponseIntact
  <2> SUFFICES ASSUME TypeInv, ResponseInv PROVE ResponseIntact
    OBVIOUS
  <2>1. cfg.chunks \in Nat \ {0} /\ chunk \in 0..cfg.chunks
    BY ConfigsAssumption DEF TypeInv, TypeOK, ConfigOK
  <2>2. \E n \in 0..cfg.chunks : sent = UpTo(n)
    <3>1. CASE stage <= 2
      BY <2>1, <3>1, UpToNone DEF ResponseInv, BeforeBody
    <3>2. CASE stage = 3 /\ pc = "enter"
      BY <2>1, <3>2, UpToNone DEF ResponseInv, BetweenChunks
    <3>3. CASE stage = 3 /\ pc = "rules"
      BY <2>1, <3>3, UpToNone DEF ResponseInv, InBodyRules
    <3>4. CASE stage > 3
      BY <2>1, <3>4 DEF ResponseInv, AfterBody
    <3> QED BY <3>1, <3>2, <3>3, <3>4 DEF TypeInv, TypeOK
  <2>3. AllChunks = UpTo(cfg.chunks)
    BY DEF AllChunks, UpTo
  <2>4. \A n \in 0..cfg.chunks : IsPrefix(UpTo(n), UpTo(cfg.chunks))
    BY <2>1, UpToPrefix
  <2>5. Over /\ ~Excused => sent = AllChunks
    BY <2>3 DEF Over, ResponseInv, AfterBody
  <2> QED BY <2>2, <2>3, <2>4, <2>5 DEF ResponseIntact, Excused
<1> QED BY <1>1, <1>2, PTL

-----------------------------------------------------------------------------
(* The end of a transaction.                                                 *)

\* No chunk of the response leaves short_circuit set for the last one.
OneGo == ~(cfg.buffered /\ cfg.chunks > 1)

\* ctx.short_circuit is false for the last chunk of such a response, and after it.
ShortInv ==
    OneGo =>
       /\ pc = "rules" => ~ctx.short_circuit
       /\ stage = 3 /\ pc = "enter" /\ newCtx.short_circuit
             => ~cfg.buffered /\ newCtx.headers /\ new.mode # "INACTIVE" /\ ~Altered
       /\ stage = 4 /\ pc = "enter" => ~newCtx.short_circuit

\* All the theorems below start from this.
Base == TypeInv /\ ResponseInv /\ IgnoreInv /\ ShortInv

-----------------------------------------------------------------------------

LEMMA CfgKept == [Next]_vars => cfg' = cfg
  BY DEF Next, vars, Finished, ExecInactive, ExecAltered, ExecRuns, ExecShortCircuits,
         ExecBodyFails, ExecCollects, Execs, LogHandlerWrites, Ignore, NoMatch, Moves,
         MatchContinues, MatchExits, NextRuleset, ExecFinalizes

LEMMA ShortHandedOn ==
    ASSUME ~ctx'.short_circuit
    PROVE  ~newCtx'.short_circuit
  BY DEF newCtx, FreshCtx

LEMMA ShortInit == Init => ShortInv
  BY DEF Init, ShortInv

\* Under OneGo a handler that is short-circuited is not the last of its phase.
LEMMA ShortCircuitsEarly ==
    ASSUME Base, OneGo, ExecShortCircuits
    PROVE  stage = 3 /\ stage' = 3 /\ ~cfg.buffered
<1>1. Execs /\ ExecCollects /\ Collected(newCtx).short_circuit /\ ctx' = Collected(newCtx)
  BY DEF ExecShortCircuits, ExecCollects
<1>2. stage \in 1..4 /\ pc = "enter"
  BY <1>1, EntryType DEF Base, Execs
<1>3. stage = 3
  <2>1. stage # 4
    BY <1>1, <1>2, OtherCollected DEF Base, ShortInv
  <2>2. stage > 2
    BY <1>1, <1>2, EntryOrder, OtherCollected DEF Base
  <2> QED BY <1>2, <2>1, <2>2
<1>4. phase = "body_filter" /\ DOMAIN newCtx = CtxFields
  BY <1>1, <1>2, <1>3, PhaseOfStage, EntryType DEF Base
<1>5. CASE cfg.buffered
  <2>1. cfg.chunks = 1 /\ Eof
    <3>1. cfg.chunks \in Nat \ {0} /\ chunk \in Nat /\ chunk < cfg.chunks
      BY <1>1, <1>3, BodyCollected DEF Base
    <3> QED BY <1>5, <3>1 DEF OneGo, Eof
  <2>2. Collected(newCtx).short_circuit = newCtx.short_circuit
    BY <1>4, <1>5, <2>1 DEF Collected, CtxFields
  <2> QED BY <1>1, <1>2, <1>3, <1>5, <2>2 DEF Base, ShortInv
<1>6. CASE ~cfg.buffered
  <2>1. Collected(newCtx).short_circuit = ~Eof
    BY <1>4, <1>6 DEF Collected, CtxFields
  <2> QED BY <1>1, <1>3, <1>6, <2>1, BodyHandsOn DEF Base
<1> QED BY <1>5, <1>6

\* A step between handlers that leaves waf and ctx alone.
LEMMA ShortLeft ==
    ASSUME Base, OneGo, UNCHANGED <<cfg, waf, ctx, saved>>, pc = "enter", pc' = "enter",
           stage \in 1..4, stage' \in {stage, stage + 1}, stage' = stage => stage = 3,
           stage = 3 /\ newCtx.short_circuit => new.mode = "INACTIVE" \/ Altered \/ ~newCtx.headers
    PROVE  ShortInv'
<1>1. newCtx' = newCtx
  BY DEF newCtx
<1>2. stage = 3 => ~newCtx.short_circuit
  BY DEF Base, ShortInv
<1>3. stage <= 2 => ~newCtx.short_circuit
  BY DEF Base, ResponseInv, BeforeBody, newCtx, FreshCtx
<1> QED BY <1>1, <1>2, <1>3 DEF ShortInv

LEMMA ShortStep == Base /\ [Next]_vars => ShortInv'
<1> SUFFICES ASSUME Base, [Next]_vars, OneGo PROVE ShortInv'
  <2>1. cfg' = cfg => (OneGo' <=> OneGo)
    BY DEF OneGo
  <2>2. [Next]_vars => cfg' = cfg
    BY CfgKept
  <2> QED BY <2>1, <2>2 DEF ShortInv
<1>1. CASE ExecInactive \/ ExecAltered
  <2> DEFINE passed_on == IF phase = "body_filter" THEN <<chunk + 1>> ELSE <<>>
  <2>1. /\ Execs /\ UNCHANGED <<cfg, waf, ctx, saved>> /\ HandlerEnds(passed_on)
        /\ pc = "enter" /\ (new.mode = "INACTIVE" \/ Altered)
    BY <1>1 DEF ExecInactive, ExecAltered, Execs
  <2> QED BY <2>1, EntryType, EndsType, ShortLeft DEF Base
<1>2. CASE ExecRuns
  BY <1>2 DEF ExecRuns, ExecCollects, ShortInv
<1>3. CASE ExecShortCircuits
  <2>1. stage = 3 /\ stage' = 3 /\ ~cfg.buffered /\ cfg' = cfg
    BY <1>3, ShortCircuitsEarly DEF ExecShortCircuits, ExecCollects, Execs
  <2>2. newCtx'.headers /\ ~Altered' /\ new'.mode # "INACTIVE" /\ pc' = "enter"
    BY <1>3, <2>1, BodyHandsOn DEF Base
  <2> QED BY <2>1, <2>2 DEF ShortInv
<1>4. CASE ExecBodyFails
  <2>1. /\ Execs /\ UNCHANGED <<cfg, waf, ctx, saved, pc>> /\ stage = 3 /\ stage' = 4
        /\ pc = "enter" /\ ~newCtx.headers
    BY <1>4, EntryType, PhaseOfStage DEF ExecBodyFails, Execs, Base
  <2> QED BY <2>1, ShortLeft
<1>5. CASE LogHandlerWrites
  <2>1. stage = 4
    BY <1>5, PhaseOfStage DEF LogHandlerWrites, Over, Base, TypeInv, TypeOK
  <2>2. stage' = 5 /\ pc' = "enter"
    BY <1>5, <2>1 DEF LogHandlerWrites
  <2> QED BY <2>2 DEF ShortInv
<1>6. CASE pc = "rules" /\ ctx'.short_circuit = ctx.short_circuit
  <2>1. ~ctx'.short_circuit
    BY <1>6 DEF Base, ShortInv
  <2> QED BY <2>1, ShortHandedOn DEF ShortInv
<1>7. CASE Ignore \/ NoMatch \/ NextRuleset \/ ExecFinalizes
  <2>1. pc = "rules" /\ ctx'.short_circuit = ctx.short_circuit
    BY <1>7 DEF Ignore, NoMatch, NextRuleset, ExecFinalizes, Process, AtRule, RulesetDone,
                Base, TypeInv, CtxFields
  <2> QED BY <1>6, <2>1
<1>8. CASE MatchContinues \/ MatchExits
  <2>1. pc = "rules" /\ ctx'.short_circuit = ctx.short_circuit
    BY <1>8, MatchType DEF MatchContinues, MatchExits, Match, Process, AtRule, Base
  <2> QED BY <1>6, <2>1
<1>9. CASE UNCHANGED vars
  <2>1. UNCHANGED <<cfg, stage, pc, ctx, newCtx, new, Altered>>
    BY <1>9 DEF vars, newCtx, new, Altered, ConfiguredWaf
  <2> QED BY <2>1 DEF Base, ShortInv
<1> QED BY <1>1, <1>2, <1>3, <1>4, <1>5, <1>7, <1>8, <1>9 DEF Next, Finished

LEMMA Basis == Spec => []Base
<1>1. Init => Base
  BY TypeInit, ResponseInit, IgnoreInit, ShortInit DEF Base
<1>2. Base /\ [Next]_vars => Base'
  BY TypeStep, ResponseStep, IgnoreStep, ShortStep DEF Base
<1> QED BY <1>1, <1>2, PTL DEF Spec

-----------------------------------------------------------------------------

\* The conditions under which RunsAllPhases promises something.
Simulated == cfg.mode = "SIMULATE" /\ ~UsesModeUpdate /\ OneGo

\* The last ruleset of phase n was begun; a log handler may be without rules.
Walked(n) == \/ Phases[n] = "log" /\ ~cfg.log_execs
             \/ <<n, Len(cfg.rulesets)>> \in Range(walks)

\* In SIMULATE mode no rule has ended a handler, the mode has stayed, and the phases
\* before the present one are through.
WalkedInv ==
    /\ walks \in Seq(Range(walks))
    /\ Simulated =>
          /\ waf.mode = "SIMULATE" /\ exits = <<>>
          /\ pc = "rules" => <<stage, r>> \in Range(walks)
          /\ \A n \in 1..4 : n < stage => Walked(n)

LEMMA WalkedInit == Init => WalkedInv
  BY DEF Init, WalkedInv, Range, DefaultWaf

LEMMA WalksAppended ==
    ASSUME WalkedInv, NEW w, walks' = Append(walks, w)
    PROVE  /\ walks' \in Seq(Range(walks'))
           /\ Range(walks) \subseteq Range(walks') /\ w \in Range(walks')
<1>1. Range(walks') = Range(walks) \cup {w} /\ walks' \in Seq(Range(walks) \cup {w})
  BY RangeAppend DEF WalkedInv
<1> QED BY <1>1

\* In SIMULATE mode nothing ends a handler early.
LEMMA SimulatedSteps ==
    ASSUME Base, WalkedInv, Simulated, Next
    PROVE  /\ ~ExecInactive /\ ~ExecAltered /\ ~ExecBodyFails /\ ~MatchExits
           /\ waf'.mode = "SIMULATE" /\ exits' = <<>>
<1>1. waf.mode = "SIMULATE" /\ exits = <<>> /\ ModeUpdates = {} /\ cfg.mode = "SIMULATE"
  BY DEF WalkedInv, Simulated, UsesModeUpdate
<1>2. new.mode = "SIMULATE" /\ ~Altered
  BY <1>1 DEF new, ConfiguredWaf, DefaultWaf, Altered
<1>3. ~ExecInactive /\ ~ExecAltered
  BY <1>2 DEF ExecInactive, ExecAltered
<1>4. ~ExecBodyFails
  <2> SUFFICES ASSUME ExecBodyFails PROVE FALSE
    OBVIOUS
  <2>1. Execs /\ stage = 3 /\ ~newCtx.headers
    BY EntryType, PhaseOfStage DEF ExecBodyFails, Base
  <2>2. ~Accepted
    BY <1>1 DEF Accepted, Range
  <2> QED BY <1>2, <2>1, <2>2, EntryOrder DEF Base, BetweenChunks
<1>5. Match => waf'.mode = "SIMULATE" /\ ~Exits /\ exits' = exits
  <2> SUFFICES ASSUME Match PROVE waf'.mode = "SIMULATE" /\ ~Exits /\ exits' = exits
    OBVIOUS
  <2>1. waf'.mode = "SIMULATE" /\ Acted.waf.mode = "SIMULATE"
    BY <1>1, ModeAfterMatch DEF Base
  <2>2. ~Exits
    BY <2>1 DEF Exits
  <2> QED BY <2>1, <2>2 DEF Match
<1>6. ~MatchExits
  BY <1>5 DEF MatchExits
<1>7. ExecCollects => waf'.mode = "SIMULATE"
  BY <1>2 DEF ExecCollects
<1> QED BY <1>1, <1>3, <1>4, <1>5, <1>6, <1>7, StepKinds DEF Base

LEMMA WalkedStep == Base /\ WalkedInv /\ [Next]_vars => WalkedInv'
<1> SUFFICES ASSUME Base, WalkedInv, [Next]_vars PROVE WalkedInv'
  OBVIOUS
<1>0. CASE UNCHANGED vars
  <2>1. UNCHANGED <<cfg, waf, walks, exits, pc, stage, r>> /\ Range(walks') = Range(walks)
    BY <1>0 DEF vars
  <2>2. (Simulated' <=> Simulated) /\ \A n \in 1..4 : Walked(n)' <=> Walked(n)
    BY <2>1 DEF Simulated, OneGo, UsesModeUpdate, ModeUpdates, Walked
  <2> QED BY <2>1, <2>2 DEF WalkedInv
<1> SUFFICES ASSUME Next PROVE WalkedInv'
  BY <1>0
<1>1. cfg' = cfg
  BY CfgKept
<1>2. Simulated' <=> Simulated
  <2>1. ModeUpdates' = ModeUpdates
    BY <1>1 DEF ModeUpdates
  <2> QED BY <1>1, <2>1 DEF Simulated, OneGo, UsesModeUpdate
<1>3. walks' \in Seq(Range(walks')) /\ Range(walks) \subseteq Range(walks')
  <2>1. walks' = walks \/ \E w : walks' = Append(walks, w)
    BY DEF Next, vars, Finished, ExecInactive, ExecAltered, ExecRuns, ExecShortCircuits,
           ExecBodyFails, LogHandlerWrites, Ignore, NoMatch, Moves,
           MatchContinues, MatchExits, NextRuleset, ExecFinalizes
  <2>2. CASE walks' = walks
    <3>1. Range(walks') = Range(walks)
      BY <2>2
    <3> QED BY <2>2, <3>1 DEF WalkedInv
  <2> QED BY <2>1, <2>2, WalksAppended
<1> SUFFICES ASSUME Simulated
             PROVE  /\ pc' = "rules" => <<stage', r'>> \in Range(walks')
                    /\ \A n \in 1..4 : n < stage' => Walked(n)'
  BY <1>2, <1>3, SimulatedSteps DEF WalkedInv
<1>4. \A n \in 1..4 : Walked(n) => Walked(n)'
  BY <1>1, <1>3 DEF Walked
<1>5. CASE stage' = stage
  <2>1. \A n \in 1..4 : n < stage' => Walked(n)'
    BY <1>4, <1>5 DEF WalkedInv
  <2>2. CASE pc' = "rules"
    <3>1. CASE pc = "rules" /\ r' = r
      BY <1>3, <1>5, <2>1, <3>1 DEF WalkedInv
    <3>2. CASE walks' = Append(walks, <<stage', r'>>)
      BY <2>1, <3>2, WalksAppended
    <3>3. (pc = "rules" /\ r' = r) \/ walks' = Append(walks, <<stage', r'>>)
      BY <1>5, <2>2, SimulatedSteps
         DEF Next, Finished, vars, Over, ExecRuns, ExecShortCircuits, HandlerEnds, LogHandlerWrites,
             Ignore, NoMatch, Moves, MatchContinues, NextRuleset, RulesetDone, ExecFinalizes
    <3> QED BY <3>1, <3>2, <3>3
  <2> QED BY <2>1, <2>2
<1>6. CASE stage' # stage
  <2>1. ExecShortCircuits \/ LogHandlerWrites \/ ExecFinalizes
    BY <1>6, SimulatedSteps
       DEF Next, Finished, vars, ExecRuns, Ignore, NoMatch, Moves, MatchContinues, NextRuleset
  <2>2. ~ExecShortCircuits
    BY <1>6, ShortCircuitsEarly DEF Simulated
  <2>3. stage \in 1..4 /\ stage' = stage + 1 /\ pc' = "enter"
    BY <1>1, <1>6, <2>1, <2>2, EndsType, PhaseOfStage
       DEF LogHandlerWrites, ExecFinalizes, RulesetDone, Over, Base, TypeInv, TypeOK, HandlerEnds
  <2>4. ASSUME NEW n \in 1..4, n = stage
        PROVE  Walked(n)'
    <3>1. CASE LogHandlerWrites
      BY <1>1, <2>4, <3>1 DEF LogHandlerWrites, Walked, phase
    <3>2. CASE ExecFinalizes
      BY <1>1, <1>3, <2>4, <3>2 DEF ExecFinalizes, RulesetDone, WalkedInv, Walked
    <3> QED BY <2>1, <2>2, <3>1, <3>2
  <2>5. ASSUME NEW n \in 1..4, n < stage'
        PROVE  Walked(n)'
    <3>1. n < stage \/ n = stage
      BY <2>3, <2>5
    <3>2. n < stage => Walked(n)
      BY DEF WalkedInv
    <3> QED BY <1>4, <2>4, <3>1, <3>2
  <2> QED BY <2>3, <2>5
<1> QED BY <1>5, <1>6

\* In SIMULATE mode, where DENY and DROP do not alter the request, exec() gets to the last
\* ruleset of every phase, whatever matches.
THEOREM AllPhases == Spec => []RunsAllPhases
<1>1. Spec => [](Base /\ WalkedInv)
  BY Basis, WalkedInit, WalkedStep, PTL DEF Spec
<1>2. Base /\ WalkedInv => RunsAllPhases
  <2> SUFFICES ASSUME Base, WalkedInv, Over, Simulated
               PROVE  \A n \in 1..4 : Walked(n)
    BY DEF RunsAllPhases, Walked, Simulated, OneGo
  <2> QED BY DEF WalkedInv, Over
<1> QED BY <1>1, <1>2, PTL

-----------------------------------------------------------------------------

\* A rule with an altering action has matched.
HasAltered == acted \cap AlterActions # {}

\* The condition under which EventsReported has the events complete at the end.
Reports == /\ logged # <<>>
           /\ ~cfg.altered_only \/ HasAltered
           /\ LogCompletes

Reported == written # <<>> /\ Last(written) = logged

\* ctx.log_entries is what was logged, while a handler runs and in what the next one
\* gets; once over, it is written.
EntriesInv ==
    /\ written \in Seq(Range(written))
    /\ Inherits =>
          /\ pc = "rules" => ctx.log_entries = logged
          /\ pc = "enter" /\ ~Over => newCtx.log_entries = logged
          /\ pc = "rules" \/ saved => waf.altered_only = cfg.altered_only
          /\ Over /\ Reports => Reported

LEMMA EntriesInit == Init => EntriesInv
  BY DEF Init, EntriesInv, newCtx, FreshCtx, Range, Over

LEMMA WrittenTyped ==
    ASSUME EntriesInv, NEW c, NEW w
    PROVE  /\ WriteLogEvents(c, w) \in Seq(Range(WriteLogEvents(c, w)))
           /\ (c.altered \/ ~w.altered_only) /\ c.log_entries # <<>>
                 => /\ WriteLogEvents(c, w) # <<>>
                    /\ Last(WriteLogEvents(c, w)) = c.log_entries
<1> DEFINE q == Append(written, c.log_entries)
<1>1. q \in Seq(Range(q))
  <2>1. /\ Range(q) = Range(written) \cup {c.log_entries}
        /\ q \in Seq(Range(written) \cup {c.log_entries})
    BY RangeAppend DEF EntriesInv
  <2> HIDE DEF q
  <2> QED BY <2>1
<1>2. q # <<>> /\ Last(q) = c.log_entries
  BY DEF EntriesInv, Last
<1>3. \/ WriteLogEvents(c, w) = q
      \/ /\ WriteLogEvents(c, w) = written
         /\ ~((c.altered \/ ~w.altered_only) /\ c.log_entries # <<>>)
  BY DEF WriteLogEvents
<1>4. CASE WriteLogEvents(c, w) = q
  <2> HIDE DEF q
  <2> QED BY <1>1, <1>2, <1>4
<1>5. CASE /\ WriteLogEvents(c, w) = written
           /\ ~((c.altered \/ ~w.altered_only) /\ c.log_entries # <<>>)
  BY <1>5 DEF EntriesInv
<1> QED BY <1>3, <1>4, <1>5

\* What is written is a sequence after every step.
LEMMA WrittenStep == EntriesInv /\ [Next]_vars => written' \in Seq(Range(written'))
<1> SUFFICES ASSUME EntriesInv, [Next]_vars PROVE written' \in Seq(Range(written'))
  OBVIOUS
<1>1. written' = written \/ \E c, w : written' = WriteLogEvents(c, w)
  BY DEF Next, vars, Finished, ExecInactive, ExecAltered, ExecRuns, ExecShortCircuits,
         ExecBodyFails, ExecCollects, LogHandlerWrites, Ignore, NoMatch, Match,
         MatchContinues, MatchExits, NextRuleset, ExecFinalizes, Finalize
<1>2. CASE written' = written
  <2>1. Range(written') = Range(written)
    BY <1>2
  <2> QED BY <1>2, <2>1 DEF EntriesInv
<1> QED BY <1>1, <1>2, WrittenTyped

\* A match logs in ctx what the transaction is to report.
LEMMA MatchLogs ==
    ASSUME TypeInv, Match, ctx.log_entries = logged
    PROVE  ctx'.log_entries = logged'
<1>1. Acted.ctx.log_entries = ctx.log_entries /\ DOMAIN Acted.ctx = CtxFields
  BY DEF Acted, TypeInv, CtxFields
<1>2. ctx'.log_entries = IF Logs THEN Append(ctx.log_entries, rule.id) ELSE ctx.log_entries
  BY <1>1 DEF Match, CtxFields
<1> QED BY <1>2 DEF Match

\* What is not inherited now was not inherited before; and a handler that ends
\* has saved what it leaves, if that is to be inherited.
LEMMA InheritsBack ==
    ASSUME Base, [Next]_vars, Inherits'
    PROVE  /\ Inherits
           /\ stage' >= 2 => saved'
<1>1. IgnoreInv'
  BY IgnoreStep DEF Base
<1>2. Range(exits) \subseteq Range(exits')
  <2>1. CASE exits' = exits
    BY <2>1
  <2> QED BY <2>1, StepKinds, MatchRecords DEF Base, ResponseInv
<1>3. cfg' = cfg /\ (Forgotten => Forgotten')
  BY <1>2, CfgKept DEF Forgotten
<1> QED BY <1>1, <1>3 DEF Inherits, IgnoreInv

\* Once a rule with an altering action has matched, the handler that runs has altered
\* set, and so has the next one.
AlteredInv ==
    Inherits /\ HasAltered => /\ pc = "rules" => ctx.altered
                              /\ pc = "enter" /\ ~Over => newCtx.altered

LEMMA AlteredInit == Init => AlteredInv
  BY DEF Init, AlteredInv, HasAltered

LEMMA AlteredStep == Base /\ AlteredInv /\ [Next]_vars => AlteredInv'
<1> SUFFICES ASSUME Base, AlteredInv, [Next]_vars, Inherits', HasAltered'
             PROVE  /\ pc' = "rules" => ctx'.altered
                    /\ pc' = "enter" /\ ~Over' => newCtx'.altered
  BY DEF AlteredInv
<1>0. /\ HasAltered => /\ pc = "rules" => ctx.altered
                       /\ pc = "enter" /\ ~Over => newCtx.altered
      /\ stage' >= 2 => saved'
  BY InheritsBack DEF AlteredInv
<1>1. CASE Match /\ (MatchContinues \/ MatchExits)
  <2>1. pc = "rules" /\ acted' = acted \cup {rule.disrupt}
        /\ ctx'.altered = (ctx.altered \/ Alters)
    BY <1>1, MatchType DEF Match, Process, AtRule, Base
  <2>2. HasAltered' => HasAltered \/ Alters
    BY <2>1 DEF HasAltered, Alters
  <2>3. ctx'.altered
    BY <1>0, <2>1, <2>2
  <2>4. pc' = "enter" => saved'
    <3> SUFFICES ASSUME pc' = "enter" PROVE saved'
      OBVIOUS
    <3>1. MatchExits /\ Exits
      BY <1>1, <2>1 DEF MatchContinues, Moves, MatchExits
    <3>2. ExitOf \in Range(exits') /\ ExitOf.kept = (saved \/ Alters)
      BY <1>1, <3>1, MatchRecords DEF Base, IgnoreInv, ExitOf
    <3>3. saved' = (saved \/ Alters)
      BY <1>1, MatchType DEF Base
    <3> QED BY <3>2, <3>3 DEF Inherits, Forgotten
  <2> QED BY <2>3, <2>4 DEF newCtx
<1>2. CASE ExecRuns \/ ExecShortCircuits
  <2>1. /\ Execs /\ pc = "enter" /\ ~Over /\ ctx' = Collected(newCtx)
        /\ UNCHANGED <<saved, acted>>
    BY <1>2 DEF ExecRuns, ExecShortCircuits, ExecCollects, Execs
  <2>2. HasAltered /\ newCtx.altered
    BY <1>0, <2>1 DEF HasAltered
  <2>3. ctx'.altered
    BY <2>1, <2>2, EntryType, CollectedCtx DEF Base
  <2>4. saved'
    BY <2>1, <2>2 DEF newCtx, FreshCtx
  <2> QED BY <2>3, <2>4 DEF newCtx
<1>3. CASE ExecInactive \/ ExecAltered \/ ExecBodyFails \/ LogHandlerWrites
  <2>1. pc = "enter" /\ ~Over /\ pc' = "enter" /\ UNCHANGED <<ctx, saved, acted>>
    BY <1>3 DEF ExecInactive, ExecAltered, ExecBodyFails, LogHandlerWrites, Execs, HandlerEnds
  <2> QED BY <1>0, <2>1 DEF newCtx, HasAltered
<1>4. CASE Ignore \/ NoMatch \/ NextRuleset
  <2>1. pc = "rules" /\ pc' = pc /\ acted' = acted /\ ctx'.altered = ctx.altered
    BY <1>4 DEF Ignore, NoMatch, NextRuleset, Process, AtRule, RulesetDone, Moves,
                Base, TypeInv, CtxFields
  <2> QED BY <1>0, <2>1 DEF HasAltered
<1>5. CASE ExecFinalizes
  <2>1. pc = "rules" /\ pc' = "enter" /\ saved' /\ UNCHANGED <<ctx, acted>>
    BY <1>5 DEF ExecFinalizes, RulesetDone, HandlerEnds, Finalize
  <2> QED BY <1>0, <2>1 DEF newCtx, HasAltered
<1>6. CASE UNCHANGED vars
  <2>1. UNCHANGED <<pc, stage, ctx, acted, saved>>
    BY <1>6 DEF vars
  <2> QED BY <1>0, <2>1 DEF newCtx, HasAltered, Over
<1>7. CASE MatchContinues \/ MatchExits
  BY <1>1, <1>7 DEF MatchContinues, MatchExits
<1> QED BY <1>2, <1>3, <1>4, <1>5, <1>6, <1>7 DEF Next, Finished

LEMMA EntriesStep == Base /\ AlteredInv /\ EntriesInv /\ [Next]_vars => EntriesInv'
<1> SUFFICES ASSUME Base, AlteredInv, EntriesInv, [Next]_vars PROVE EntriesInv'
  OBVIOUS
<1> SUFFICES ASSUME Inherits'
             PROVE  /\ pc' = "rules" => ctx'.log_entries = logged'
                    /\ pc' = "enter" /\ ~Over' => newCtx'.log_entries = logged'
                    /\ pc' = "rules" \/ saved' => waf'.altered_only = cfg'.altered_only
                    /\ Over' /\ Reports' => Reported'
  BY WrittenStep DEF EntriesInv
<1>0. /\ Inherits /\ cfg' = cfg /\ stage \in 1..5
      /\ stage' >= 2 => saved'
      /\ stage >= 2 => saved
      /\ pc = "rules" => ctx.log_entries = logged
      /\ pc = "enter" /\ ~Over => newCtx.log_entries = logged
      /\ pc = "rules" \/ saved => waf.altered_only = cfg.altered_only
      /\ Over /\ Reports => Reported
      /\ HasAltered => /\ pc = "rules" => ctx.altered
                       /\ pc = "enter" /\ ~Over => newCtx.altered
  BY InheritsBack, CfgKept DEF EntriesInv, AlteredInv, Base, IgnoreInv, TypeInv, TypeOK
<1>1. OneGo' <=> OneGo
  BY <1>0 DEF OneGo
<1>2. CASE ExecInactive \/ ExecAltered
  <2> DEFINE passed_on == IF phase = "body_filter" THEN <<chunk + 1>> ELSE <<>>
  <2>1. /\ Execs /\ UNCHANGED <<cfg, waf, ctx, saved, acted, logged>> /\ HandlerEnds(passed_on)
        /\ pc = "enter" /\ ~Over /\ pc' = "enter"
    BY <1>2 DEF ExecInactive, ExecAltered, Execs, HandlerEnds
  <2>2. stage \in 1..4 /\ stage' \in {stage, stage + 1} /\ (stage' = stage => stage = 3)
    BY <2>1, EntryType, EndsType DEF Base
  <2>3. newCtx' = newCtx
    BY <2>1 DEF newCtx
  <2>4. ASSUME Over', Reports' PROVE Reported'
    <3>1. stage = 4 /\ saved /\ phase = "log" /\ new = waf /\ newCtx = ctx
      BY <1>0, <2>2, <2>4, PhaseOfStage DEF Over, new, newCtx
    <3>2. waf.mode # "INACTIVE"
      BY <2>1, <2>4, <3>1 DEF Reports, LogCompletes, Execs
    <3>3. written' = WriteLogEvents(ctx, waf)
      BY <1>2, <3>1, <3>2 DEF ExecInactive, ExecAltered
    <3>4. (ctx.altered \/ ~waf.altered_only) /\ ctx.log_entries = logged /\ logged # <<>>
      BY <1>0, <2>1, <2>4, <3>1 DEF Reports, HasAltered
    <3> QED BY <2>1, <3>3, <3>4, WrittenTyped DEF Reported
  <2> QED BY <1>0, <2>1, <2>3, <2>4
<1>3. CASE ExecRuns
  <2>1. /\ Execs /\ waf' = new /\ ctx' = Collected(newCtx) /\ pc' = "rules"
        /\ UNCHANGED <<stage, saved, logged>> /\ pc = "enter" /\ ~Over
    BY <1>3 DEF ExecRuns, ExecCollects, Execs
  <2>2. ctx'.log_entries = newCtx.log_entries
    BY <2>1, EntryType, CollectedCtx DEF Base
  <2>3. waf'.altered_only = cfg.altered_only
    <3>1. saved \/ stage = 1
      BY <1>0, <2>1, EntryType DEF Base
    <3> QED BY <1>0, <2>1, <3>1 DEF new, ConfiguredWaf
  <2> QED BY <1>0, <2>1, <2>2, <2>3 DEF Over
<1>4. CASE ExecShortCircuits
  <2>1. /\ Execs /\ ExecCollects /\ waf' = new /\ ctx' = Collected(newCtx) /\ pc' = "enter"
        /\ HandlerEnds(PassedOn(newCtx)) /\ UNCHANGED <<cfg, saved, logged, written>>
        /\ pc = "enter" /\ ~Over
    BY <1>4 DEF ExecShortCircuits, ExecCollects, Execs, HandlerEnds
  <2>2. ctx'.log_entries = newCtx.log_entries
    BY <2>1, EntryType, CollectedCtx DEF Base
  <2>3. /\ stage \in 1..4 /\ stage' \in {stage, stage + 1} /\ (stage' = stage => stage = 3)
    BY <2>1, EntryType, EndsType DEF Base
  <2>4. saved /\ saved'
    BY <1>0, <2>1, <2>3
  <2>5. waf' = waf /\ newCtx'.log_entries = newCtx.log_entries
    BY <2>1, <2>2, <2>4 DEF new, newCtx
  <2>6. Over' => ~Reports'
    <3> SUFFICES ASSUME Over', OneGo, ~cfg.log_execs \/ OneGo PROVE FALSE
      <4>1. Over' => stage = 4 /\ cfg.log_execs
        BY <2>1, <2>3, PhaseOfStage DEF Over, Execs
      <4> QED BY <1>0, <1>1, <4>1 DEF Reports, LogCompletes, OneGo
    <3> QED BY <1>4, ShortCircuitsEarly DEF Over
  <2> QED BY <1>0, <2>1, <2>4, <2>5, <2>6
<1>5. CASE ExecBodyFails
  <2>1. /\ Execs /\ UNCHANGED <<waf, ctx, saved, pc, logged>> /\ stage' = 4 /\ pc = "enter"
        /\ ~Over
    BY <1>5, EntryType, PhaseOfStage DEF ExecBodyFails, Execs, Base
  <2>2. newCtx' = newCtx
    BY <2>1 DEF newCtx
  <2> QED BY <1>0, <2>1, <2>2 DEF Over
<1>6. CASE LogHandlerWrites
  <2>1. /\ stage = 4 /\ stage' = 5 /\ pc' = "enter" /\ pc = "enter" /\ ~Over /\ saved
        /\ written' = WriteLogEvents(ctx, waf) /\ UNCHANGED <<cfg, waf, ctx, saved, acted, logged>>
    BY <1>0, <1>6, PhaseOfStage DEF LogHandlerWrites, Over
  <2>2. newCtx = ctx
    BY <2>1 DEF newCtx
  <2>3. Reports' => Reported'
    <3>1. Reports' => (ctx.altered \/ ~waf.altered_only) /\ logged # <<>>
      BY <1>0, <2>1, <2>2 DEF Reports, HasAltered
    <3> QED BY <1>0, <2>1, <2>2, <3>1, WrittenTyped DEF Reported
  <2> QED BY <1>0, <2>1, <2>3 DEF Over
<1>7. CASE Ignore \/ NoMatch \/ NextRuleset
  <2>1. /\ pc = "rules" /\ UNCHANGED <<pc, stage, waf, saved, logged>>
        /\ ctx'.log_entries = ctx.log_entries
    BY <1>7 DEF Ignore, NoMatch, NextRuleset, Process, AtRule, RulesetDone, Moves,
                Base, TypeInv, CtxFields
  <2>2. ~Over
    BY <2>1 DEF Base, TypeInv, Over
  <2> QED BY <1>0, <2>1, <2>2 DEF Over
<1>8. CASE MatchContinues
  <2>1. Match /\ pc = "rules" /\ UNCHANGED <<pc, stage>>
    BY <1>8 DEF MatchContinues, Match, Process, AtRule, Moves
  <2>2. ~Over /\ ctx'.log_entries = logged' /\ waf'.altered_only = waf.altered_only
    BY <1>0, <2>1, MatchLogs, MatchType DEF Base, TypeInv, Over
  <2> QED BY <1>0, <2>1, <2>2 DEF Over
<1>9. CASE MatchExits
  <2>1. Match /\ Exits /\ pc = "rules" /\ HandlerEnds(<<>>) /\ pc' = "enter" /\ chunk' = chunk
    BY <1>9 DEF MatchExits, Match, Process, AtRule, HandlerEnds
  <2>2. /\ ctx'.log_entries = logged' /\ waf'.altered_only = waf.altered_only
        /\ ctx'.altered = (ctx.altered \/ Alters)
    BY <1>0, <2>1, MatchLogs, MatchType DEF Base
  <2>3. /\ stage \in 1..4 /\ stage' \in {stage, stage + 1} /\ (stage' = stage => stage = 3)
    BY <1>0, <2>1, EndsType DEF Base, TypeInv, TypeOK
  <2>4. saved'
    BY <1>0, <2>3
  <2>5. newCtx' = ctx'
    BY <2>4 DEF newCtx
  <2>6. Over' /\ LogCompletes' => Alters
    <3> SUFFICES ASSUME Over', LogCompletes' PROVE Alters
      OBVIOUS
    <3>1. phase = "log"
      BY <2>3, PhaseOfStage DEF Over
    <3>2. ExitOf \in Range(exits') /\ ExitOf.action = rule.disrupt /\ ExitOf.phase = phase
      BY <2>1, MatchRecords DEF Base, IgnoreInv, ExitOf
    <3>3. rule.disrupt # "ACCEPT"
      BY <3>1, <3>2 DEF LogCompletes
    <3> QED BY <2>1, <3>3 DEF Exits, ExitActions, Alters, AlterActions
  <2>7. ASSUME Over', Reports' PROVE Reported'
    <3>1. Alters /\ phase = "log"
      BY <2>3, <2>6, <2>7, PhaseOfStage DEF Reports, Over
    <3>2. written' = WriteLogEvents(ctx', waf')
      BY <2>1, <3>1 DEF Match, Finalize
    <3> QED BY <2>2, <2>7, <3>1, <3>2, WrittenTyped DEF Reports, Reported
  <2> QED BY <1>0, <2>1, <2>2, <2>5, <2>7
<1>10. CASE ExecFinalizes
  <2>1. /\ pc = "rules" /\ HandlerEnds(arg) /\ pc' = "enter" /\ saved'
        /\ Finalize(ctx, waf) /\ UNCHANGED <<cfg, chunk, waf, ctx, acted, logged>>
    BY <1>10 DEF ExecFinalizes, RulesetDone, HandlerEnds, Finalize
  <2>2. /\ stage \in 1..4 /\ stage' \in {stage, stage + 1} /\ (stage' = stage => stage = 3)
    BY <1>0, <2>1, EndsType DEF Base, TypeInv, TypeOK
  <2>3. newCtx' = ctx'
    BY <2>1 DEF newCtx
  <2>4. Over' /\ Reports' => Reported'
    <3>1. Over' => written' = WriteLogEvents(ctx, waf)
      BY <2>1, <2>2, PhaseOfStage DEF Finalize, Over
    <3>2. Reports' => (ctx.altered \/ ~waf.altered_only) /\ logged # <<>>
      BY <1>0, <2>1 DEF Reports, HasAltered
    <3> QED BY <1>0, <2>1, <3>1, <3>2, WrittenTyped DEF Reported
  <2> QED BY <1>0, <2>1, <2>3, <2>4
<1>11. CASE UNCHANGED vars
  <2>1. /\ UNCHANGED <<pc, ctx, logged, waf, saved, written>>
        /\ newCtx' = newCtx /\ (Over' <=> Over) /\ (Reports' <=> Reports)
    BY <1>11 DEF vars, newCtx, Over, Reports, HasAltered, LogCompletes
  <2> QED BY <1>0, <2>1 DEF Reported
<1> QED
  BY <1>2, <1>3, <1>4, <1>5, <1>6, <1>7, <1>8, <1>9, <1>10, <1>11 DEF Next, Finished

-----------------------------------------------------------------------------

\* What EventsReported asks for to say that events are written once: a DENY in the log
\* phase would have _finalize called twice there.
LogNeverAlters ==
    \A s \in Range(cfg.rulesets) : \A rl \in Range(s["log"]) : rl.disrupt \notin AlterActions

OnceInv == LogNeverAlters => /\ ~Over => written = <<>>
                             /\ Len(written) <= 1

LEMMA OnceInit == Init => OnceInv
  BY DEF Init, OnceInv

\* No rule before the log phase writes, and none of it that alters nothing.
LEMMA MatchWritesNothing ==
    ASSUME Base, LogNeverAlters, Match
    PROVE  written' = written
<1>1. AtRule /\ stage \in 1..4 /\ r \in DOMAIN cfg.rulesets
  BY DEF Match, Process, AtRule, Base, TypeInv, TypeOK
<1>2. phase = "log" => ~Alters
  <2> SUFFICES ASSUME phase = "log" PROVE ~Alters
    OBVIOUS
  <2>1. rule = cfg.rulesets[r]["log"][offset] /\ offset \in DOMAIN cfg.rulesets[r]["log"]
    BY <1>1 DEF AtRule, rule, rules
  <2>2. cfg.rulesets[r] \in Range(cfg.rulesets) /\ rule \in Range(cfg.rulesets[r]["log"])
    BY <1>1, <2>1 DEF Range
  <2> QED BY <2>2 DEF LogNeverAlters, Alters
<1> QED BY <1>2 DEF Match, Finalize

LEMMA OnceStep == Base /\ EntriesInv /\ OnceInv /\ [Next]_vars => OnceInv'
<1> SUFFICES ASSUME Base, EntriesInv, OnceInv, [Next]_vars PROVE OnceInv'
  OBVIOUS
<1> SUFFICES ASSUME LogNeverAlters
             PROVE  (~Over' => written' = <<>>) /\ Len(written') <= 1
  <2>1. LogNeverAlters' <=> LogNeverAlters
    BY CfgKept DEF LogNeverAlters
  <2> QED BY <2>1 DEF OnceInv
<1>1. ~Over => /\ Len(WriteLogEvents(ctx, waf)) <= 1
               /\ Len(WriteLogEvents(newCtx, new)) <= 1
  BY DEF OnceInv, WriteLogEvents
<1>2. CASE written' = written /\ (~Over' => ~Over)
  BY <1>2 DEF OnceInv
<1>3. CASE ~Over /\ written' \in {WriteLogEvents(ctx, waf), WriteLogEvents(newCtx, new)} /\ Over'
  BY <1>1, <1>3
<1>4. CASE ExecInactive \/ ExecAltered
  <2> DEFINE passed_on == IF phase = "body_filter" THEN <<chunk + 1>> ELSE <<>>
  <2>1. /\ Execs /\ HandlerEnds(passed_on) /\ ~Over
        /\ written' = written \/ (phase = "log" /\ written' = WriteLogEvents(newCtx, new))
    BY <1>4 DEF ExecInactive, ExecAltered, Execs
  <2>2. stage \in 1..4 /\ (phase = "log" <=> stage = 4) /\ (stage = 4 => Over')
    BY <2>1, EntryType, EndsType, PhaseOfStage DEF Base, Over
  <2> QED BY <1>2, <1>3, <2>1, <2>2
<1>5. CASE ExecRuns \/ ExecShortCircuits \/ ExecBodyFails
  BY <1>2, <1>5 DEF ExecRuns, ExecShortCircuits, ExecBodyFails, ExecCollects, Execs, Over
<1>6. CASE LogHandlerWrites
  <2>1. stage = 4 /\ ~Over
    BY <1>6, PhaseOfStage DEF LogHandlerWrites, Over, Base, TypeInv, TypeOK
  <2> QED BY <1>3, <1>6, <2>1, <1>2 DEF LogHandlerWrites, Over
<1>7. CASE Ignore \/ NoMatch \/ NextRuleset
  BY <1>2, <1>7 DEF Ignore, NoMatch, NextRuleset, Moves, Process, Over
<1>8. CASE MatchContinues \/ MatchExits
  <2>1. Match /\ pc = "rules" /\ written' = written
    BY <1>8, MatchWritesNothing DEF MatchContinues, MatchExits, Match, Process, AtRule
  <2>2. ~Over
    BY <2>1 DEF Base, TypeInv, Over
  <2> QED BY <1>2, <2>1, <2>2
<1>9. CASE ExecFinalizes
  <2>1. pc = "rules" /\ HandlerEnds(arg) /\ Finalize(ctx, waf) /\ UNCHANGED <<cfg, chunk>>
    BY <1>9 DEF ExecFinalizes, RulesetDone
  <2>2. stage \in 1..4 /\ (phase = "log" <=> stage = 4) /\ (stage = 4 => Over') /\ ~Over
    BY <2>1, EndsType, PhaseOfStage DEF Base, Over, TypeInv, TypeOK
  <2> QED BY <1>2, <1>3, <2>1, <2>2 DEF Finalize
<1>10. CASE UNCHANGED vars
  BY <1>2, <1>10 DEF vars, Over
<1> QED BY <1>4, <1>5, <1>6, <1>7, <1>8, <1>9, <1>10 DEF Next, Finished

\* write_log_events in the log phase writes all events that _process_rule logged in the
\* transaction, in order, and is called once.
THEOREM Events == Spec => []EventsReported
<1>1. Spec => [](Base /\ AlteredInv /\ EntriesInv /\ OnceInv)
  BY Basis, AlteredInit, AlteredStep, EntriesInit, EntriesStep, OnceInit, OnceStep, PTL DEF Spec
<1>2. EntriesInv /\ OnceInv => EventsReported
  BY DEF EventsReported, EntriesInv, Reports, Reported, HasAltered, OnceInv, LogNeverAlters
<1> QED BY <1>1, <1>2, PTL

-----------------------------------------------------------------------------
(* The engine implements ChainWalk: through offsets, ignored rules, skips,    *)
(* handlers that end early and phases, it walks over whole chains, in rulesets *)
(* whose skips lead to heads of chains.                                       *)

\* What the walk is at: the head of the chain that is next.
next_head == IF AtRule THEN HeadOf(rules, offset) ELSE Nil

\* The walks recorded are in the order nginx's phases and the rulesets have.
WalkInv == /\ pc = "rules" => walks # <<>> /\ Last(walks) = <<stage, r>>
           /\ pc = "enter" /\ walks # <<>> => Last(walks)[1] \in 1..(stage - 1)

-----------------------------------------------------------------------------

(* Heads of chains. *)

LEMMA HeadOfIs ==
    ASSUME NEW rs, NEW k \in Nat \ {0}
    PROVE  /\ HeadOf(rs, k) \in 1..k
           /\ IsHead(rs, HeadOf(rs, k))
           /\ \A m \in (HeadOf(rs, k) + 1)..k : ~IsHead(rs, m)
<1> DEFINE heads == {h \in 1..k : IsHead(rs, h)}
<1>1. 1 \in heads
  BY DEF IsHead
<1>2. heads \in SUBSET (1..k)
  OBVIOUS
<1>3. \E h \in heads : \A j \in heads : j <= h
  <2> HIDE DEF heads
  <2> QED BY <1>1, <1>2, LargestExists
<1>4. \E h \in 1..k : IsHead(rs, h) /\ \A m \in (h + 1)..k : ~IsHead(rs, m)
  <2>1. PICK h \in heads : \A j \in heads : j <= h
    BY <1>3
  <2>2. \A m \in (h + 1)..k : m \in 1..k /\ ~(m <= h)
    OBVIOUS
  <2> QED BY <2>1, <2>2
<1> QED BY <1>4 DEF HeadOf

LEMMA HeadOfUnique ==
    ASSUME NEW rs, NEW k \in Nat \ {0}, NEW h \in 1..k, IsHead(rs, h),
           \A m \in (h + 1)..k : ~IsHead(rs, m)
    PROVE  HeadOf(rs, k) = h
<1>1. /\ HeadOf(rs, k) \in 1..k /\ IsHead(rs, HeadOf(rs, k))
      /\ \A m \in (HeadOf(rs, k) + 1)..k : ~IsHead(rs, m)
  BY HeadOfIs
<1> DEFINE g == HeadOf(rs, k)
<1> HIDE DEF g
<1>2. g \in 1..k /\ IsHead(rs, g) /\ \A m \in (g + 1)..k : ~IsHead(rs, m)
  BY <1>1 DEF g
<1>3. ~(g < h) /\ ~(h < g)
  BY <1>2
<1> QED BY <1>2, <1>3 DEF g

\* A rule that continues has the head of the rule after it.
LEMMA HeadOfNext ==
    ASSUME NEW rs, NEW k \in Nat \ {0}, Continues(rs, k)
    PROVE  HeadOf(rs, k + 1) = HeadOf(rs, k)
<1> DEFINE h == HeadOf(rs, k)
<1>1. h \in 1..k /\ IsHead(rs, h) /\ \A m \in (h + 1)..k : ~IsHead(rs, m)
  BY HeadOfIs
<1> HIDE DEF h
<1>2. ~IsHead(rs, k + 1)
  BY DEF IsHead
<1>3. \A m \in (h + 1)..(k + 1) : ~IsHead(rs, m)
  BY <1>1, <1>2
<1>4. h \in 1..(k + 1) /\ k + 1 \in Nat \ {0}
  BY <1>1
<1>5. HeadOf(rs, k + 1) = h
  BY <1>1, <1>3, <1>4, HeadOfUnique
<1> QED BY <1>5 DEF h

\* From the head of its chain up to a rule, every rule continues.
LEMMA ContinuesFromHead ==
    ASSUME NEW rs, NEW k \in Nat \ {0}, NEW m \in HeadOf(rs, k)..(k - 1)
    PROVE  Continues(rs, m)
<1> DEFINE h == HeadOf(rs, k)
<1>1. h \in 1..k /\ \A j \in (h + 1)..k : ~IsHead(rs, j)
  BY HeadOfIs
<1>2. m \in h..(k - 1)
  OBVIOUS
<1> HIDE DEF h
<1>3. m + 1 \in (h + 1)..k /\ (m + 1) - 1 = m
  BY <1>1, <1>2
<1> QED BY <1>1, <1>3 DEF IsHead

\* The chain of a rule ends where the chain of its head ends.
LEMMA EndOfHead ==
    ASSUME NEW rs, Len(rs) \in Nat, NEW k \in 1..Len(rs), NEW e \in Int
    PROVE  IsChainEnd(rs, HeadOf(rs, k), e) <=> IsChainEnd(rs, k, e)
<1> DEFINE h == HeadOf(rs, k)
<1>1. h \in 1..k /\ \A m \in h..(k - 1) : Continues(rs, m)
  BY HeadOfIs, ContinuesFromHead
<1> HIDE DEF h
<1>2. IsChainEnd(rs, h, e) => IsChainEnd(rs, k, e)
  BY <1>1 DEF IsChainEnd
<1>3. IsChainEnd(rs, k, e) => IsChainEnd(rs, h, e)
  BY <1>1 DEF IsChainEnd
<1> QED BY <1>2, <1>3 DEF h

\* The offsets of a rule whose chain ends at e.
LEMMA OffsetsAt ==
    ASSUME NEW rs, Len(rs) \in Nat, NEW k \in 1..Len(rs),
           NEW e \in k..Len(rs), IsChainEnd(rs, k, e)
    PROVE  Offsets(rs)[k] = OffsetOf(rs, k, e)
<1> DEFINE f == CHOOSE n \in k..Len(rs) : IsChainEnd(rs, k, n)
<1>1. f \in k..Len(rs) /\ IsChainEnd(rs, k, f)
  OBVIOUS
<1>2. Offsets(rs)[k] = OffsetOf(rs, k, f)
  BY DEF Offsets
<1> HIDE DEF f
<1>3. e \in Nat /\ f \in Nat /\ k \in Nat
  BY <1>1
<1>4. f = e
  BY <1>1, <1>3, ChainEndUnique
<1> QED BY <1>2, <1>4

-----------------------------------------------------------------------------

(* ChainWalk has its own copy of Rules. *)

LEMMA SameRules ==
    /\ \A rs, k, e : Walk!IsChainEnd(rs, k, e) <=> IsChainEnd(rs, k, e)
    /\ \A rs, k : Walk!IsHead(rs, k) <=> IsHead(rs, k)
    /\ \A rs, k : Walk!HasSkip(rs, k) <=> HasSkip(rs, k)
    /\ \A rs, k : Walk!Continues(rs, k) <=> Continues(rs, k)
    /\ \A rs, k : Walk!SkipCount(rs, k) = SkipCount(rs, k)
    /\ Walk!Nil = 0 /\ Nil = 0
  BY DEF Walk!IsChainEnd, IsChainEnd, Walk!IsHead, IsHead, Walk!HasSkip, HasSkip,
         Walk!Continues, Continues, Walk!SkipCount, SkipCount, Walk!Nil, Nil,
         Walk!NoSkip, NoSkip, Walk!NoId, NoId, Walk!IsFirstWithId, IsFirstWithId

\* The chain of a rule has the one end the walk knows, and what follows it.
LEMMA ChainWithEnd ==
    ASSUME NEW rs, Len(rs) \in Nat, NEW k \in 1..Len(rs),
           NEW e \in k..Len(rs), IsChainEnd(rs, k, e)
    PROVE  /\ Walk!Ends(rs, HeadOf(rs, k)) = {e}
           /\ Walk!After(rs, HeadOf(rs, k)) = Walk!Place(rs, e + 1)
<1> DEFINE h == HeadOf(rs, k)
<1>1. h \in 1..k
  BY HeadOfIs
<1>2. \A f \in Int : IsChainEnd(rs, h, f) <=> IsChainEnd(rs, k, f)
  BY EndOfHead
<1> HIDE DEF h
<1>3. e \in h..Len(rs) /\ IsChainEnd(rs, h, e)
  BY <1>1, <1>2
<1>4. ASSUME NEW f \in h..Len(rs), IsChainEnd(rs, h, f)
      PROVE  f = e
  <2>1. IsChainEnd(rs, k, f) /\ f \in Nat /\ e \in Nat /\ k \in Nat
    BY <1>1, <1>2, <1>4
  <2> QED BY <2>1, ChainEndUnique
<1>5. Walk!Ends(rs, h) = {e}
  BY <1>3, <1>4, SameRules DEF Walk!Ends
<1>6. Walk!After(rs, h) = Walk!Place(rs, e + 1)
  BY <1>5 DEF Walk!After
<1> QED BY <1>5, <1>6 DEF h

LEMMA ChainWithoutEnd ==
    ASSUME NEW rs, Len(rs) \in Nat, NEW k \in 1..Len(rs),
           ~ \E e \in k..Len(rs) : IsChainEnd(rs, k, e)
    PROVE  Walk!After(rs, HeadOf(rs, k)) = 0
<1> DEFINE h == HeadOf(rs, k)
<1>1. h \in 1..k
  BY HeadOfIs
<1>2. \A f \in Int : IsChainEnd(rs, h, f) <=> IsChainEnd(rs, k, f)
  BY EndOfHead
<1> HIDE DEF h
<1>3. ASSUME NEW f \in h..Len(rs), IsChainEnd(rs, h, f)
      PROVE  FALSE
  <2>1. IsChainEnd(rs, k, f)
    BY <1>1, <1>2, <1>3
  <2> QED BY <2>1 DEF IsChainEnd
<1>4. Walk!Ends(rs, h) = {}
  BY <1>3, SameRules DEF Walk!Ends
<1>5. Walk!After(rs, h) = 0
  BY <1>4, SameRules DEF Walk!After
<1> QED BY <1>5 DEF h

\* Where the loop is when it moves to a head, or past the end.
LEMMA AtHead ==
    ASSUME NEW rs, IsSequence(rs), NEW j \in Nat \ {0}, j \in 1..Len(rs) => IsHead(rs, j)
    PROVE  (IF j \in DOMAIN rs THEN HeadOf(rs, j) ELSE Nil) = Walk!Place(rs, j)
<1>1. CASE j \in 1..Len(rs)
  <2>1. HeadOf(rs, j) = j
    BY <1>1, HeadOfUnique
  <2> QED BY <1>1, <2>1 DEF IsSequence, Walk!Place
<1>2. CASE j \notin 1..Len(rs)
  BY <1>2, SameRules DEF IsSequence, Walk!Place
<1> QED BY <1>1, <1>2

\* Moving within the rules of a phase.
LEMMA HeadAfterMove ==
    ASSUME UNCHANGED <<cfg, stage, pc, r>>, AtRule
    PROVE  /\ rules' = rules /\ next_head = HeadOf(rules, offset)
           /\ next_head' = IF offset' \in DOMAIN rules THEN HeadOf(rules, offset') ELSE Nil
<1>1. rules' = rules /\ pc' = "rules"
  BY DEF rules, phase, AtRule
<1> QED BY <1>1 DEF next_head, AtRule, HeadOf

\* A rule that does not match passes over its chain, to the next or past the end.
LEMMA NoMatchPasses ==
    ASSUME TypeInv, AtRule, Moves(Offsets(rules)[offset].nomatch)
    PROVE  /\ next_head' = Walk!After(rules, next_head)
           /\ offset' \in DOMAIN rules => IsHead(rules, offset')
<1> DEFINE nomatch == Offsets(rules)[offset].nomatch
<1>1. IsSequence(rules) /\ Len(rules) \in Nat /\ offset \in 1..Len(rules)
  BY RulesOK DEF AtRule, IsSequence
<1>2. /\ next_head = HeadOf(rules, offset)
      /\ next_head' = IF offset' \in DOMAIN rules THEN HeadOf(rules, offset') ELSE Nil
      /\ offset' = IF nomatch = Nil THEN Nil ELSE offset + nomatch
  BY HeadAfterMove DEF Moves
<1>3. Nil \notin DOMAIN rules
  BY <1>1 DEF Nil, IsSequence
<1>4. CASE \E e \in offset..Len(rules) : IsChainEnd(rules, offset, e)
  <2>1. PICK e \in offset..Len(rules) : IsChainEnd(rules, offset, e)
    BY <1>4
  <2>2. Walk!After(rules, next_head) = Walk!Place(rules, e + 1)
    BY <1>1, <1>2, <2>1, ChainWithEnd
  <2>3. nomatch = OffsetOf(rules, offset, e).nomatch
    BY <1>1, <2>1, OffsetsAt
  <2>4. /\ e + 1 \in Nat \ {0} /\ ~Continues(rules, e)
        /\ e + 1 \in 1..Len(rules) => IsHead(rules, e + 1)
    BY <1>1, <2>1 DEF IsChainEnd, IsHead
  <2>5. \/ offset' = e + 1
        \/ offset' = Nil /\ e + 1 \notin DOMAIN rules
    BY <1>1, <1>2, <2>1, <2>3
       DEF OffsetOf, SkipOffset, ChainOffset, Nil, IsSequence
  <2>6. (IF e + 1 \in DOMAIN rules THEN HeadOf(rules, e + 1) ELSE Nil) = Walk!Place(rules, e + 1)
    BY <1>1, <2>4, AtHead
  <2>7. offset' \in DOMAIN rules => IsHead(rules, offset')
    BY <1>1, <1>3, <2>4, <2>5 DEF IsSequence
  <2> QED BY <1>2, <1>3, <2>2, <2>5, <2>6, <2>7
<1>5. CASE ~ \E e \in offset..Len(rules) : IsChainEnd(rules, offset, e)
  <2>1. Walk!After(rules, next_head) = 0
    BY <1>1, <1>2, <1>5, ChainWithoutEnd
  <2>2. Offsets(rules)[offset] = Unset
    BY <1>1, <1>5 DEF Offsets
  <2>3. offset' = Nil
    BY <1>2, <2>2 DEF Unset
  <2> QED BY <1>2, <1>3, <2>1, <2>3, SameRules
<1> QED BY <1>4, <1>5

\* A match of a rule that continues goes on to the next rule of the chain; when
\* the ruleset ends in the middle of the chain, the loop ends.
LEMMA LinkMatches ==
    ASSUME TypeInv, AtRule, Continues(rules, offset), Moves(Offsets(rules)[offset].match)
    PROVE  /\ \/ next_head' = next_head
              \/ next_head' = Walk!After(rules, next_head)
           /\ offset' \in DOMAIN rules => offset' = offset + 1
<1> DEFINE match == Offsets(rules)[offset].match
<1>1. IsSequence(rules) /\ Len(rules) \in Nat /\ offset \in 1..Len(rules)
  BY RulesOK DEF AtRule, IsSequence
<1>2. /\ next_head = HeadOf(rules, offset)
      /\ next_head' = IF offset' \in DOMAIN rules THEN HeadOf(rules, offset') ELSE Nil
      /\ offset' = IF match = Nil THEN Nil ELSE offset + match
  BY HeadAfterMove DEF Moves
<1>3. Nil \notin DOMAIN rules
  BY <1>1 DEF Nil, IsSequence
<1>4. CASE \E e \in offset..Len(rules) : IsChainEnd(rules, offset, e)
  <2>1. PICK e \in offset..Len(rules) : IsChainEnd(rules, offset, e)
    BY <1>4
  <2>2. e # offset /\ offset + 1 \in 1..Len(rules)
    BY <1>1, <2>1 DEF IsChainEnd
  <2>3. match = 1
    <3>1. match = OffsetOf(rules, offset, e).match
      BY <1>1, <2>1, OffsetsAt
    <3> QED BY <2>2, <3>1 DEF OffsetOf, ChainOffset
  <2>4. offset' = offset + 1 /\ offset' \in DOMAIN rules
    BY <1>1, <1>2, <2>2, <2>3 DEF Nil, IsSequence
  <2>5. HeadOf(rules, offset + 1) = HeadOf(rules, offset)
    BY <1>1, HeadOfNext
  <2> QED BY <1>2, <2>4, <2>5
<1>5. CASE ~ \E e \in offset..Len(rules) : IsChainEnd(rules, offset, e)
  <2>1. Walk!After(rules, next_head) = 0
    BY <1>1, <1>2, <1>5, ChainWithoutEnd
  <2>2. Offsets(rules)[offset] = Unset
    BY <1>1, <1>5 DEF Offsets
  <2>3. offset' = Nil
    BY <1>2, <2>2 DEF Unset
  <2> QED BY <1>2, <1>3, <2>1, <2>3, SameRules
<1> QED BY <1>4, <1>5

\* A match of the last rule of a chain goes on behind the rules it skips.
LEMMA EndMatches ==
    ASSUME TypeInv, AtRule, ~Continues(rules, offset), Moves(Offsets(rules)[offset].match),
           Walk!SkipsToHeads(rules)
    PROVE  /\ next_head' = Walk!Place(rules, offset + 1 + IF HasSkip(rules, offset)
                                                          THEN SkipCount(rules, offset) ELSE 0)
           /\ offset' \in DOMAIN rules => IsHead(rules, offset')
<1> DEFINE match == Offsets(rules)[offset].match
           count == IF HasSkip(rules, offset) THEN SkipCount(rules, offset) ELSE 0
           target == offset + 1 + count
<1>1. /\ IsSequence(rules) /\ Len(rules) \in Nat /\ offset \in 1..Len(rules)
      /\ RuleOK(rules[offset])
  BY RulesOK DEF AtRule, IsSequence
<1>2. /\ next_head' = IF offset' \in DOMAIN rules THEN HeadOf(rules, offset') ELSE Nil
      /\ offset' = IF match = Nil THEN Nil ELSE offset + match
  BY HeadAfterMove DEF Moves
<1>3. Nil \notin DOMAIN rules
  BY <1>1 DEF Nil, IsSequence
<1>4. IsChainEnd(rules, offset, offset)
  BY <1>1 DEF IsChainEnd
<1>5. match = OffsetOf(rules, offset, offset).match
  BY <1>1, <1>4, OffsetsAt
<1>6. SkipCount(rules, offset) \in Nat
  BY <1>1, SkipCountNat DEF RuleOK
<1>7. target \in Nat \ {0}
  BY <1>1, <1>6
<1>8. \/ offset' = target
      \/ offset' = Nil /\ target \notin DOMAIN rules
  <2>1. CASE HasSkip(rules, offset)
    <3>1. match = IF target > Len(rules) THEN Nil ELSE SkipCount(rules, offset) + 1
      BY <1>1, <1>5, <1>6, <2>1 DEF OffsetOf, SkipOffset
    <3> QED BY <1>1, <1>2, <1>6, <2>1, <3>1 DEF Nil, IsSequence
  <2>2. CASE ~HasSkip(rules, offset)
    <3>1. match = IF offset < Len(rules) THEN 1 ELSE Nil
      BY <1>1, <1>5, <2>2 DEF OffsetOf, ChainOffset
    <3> QED BY <1>1, <1>2, <2>2, <3>1 DEF Nil, IsSequence
  <2> QED BY <2>1, <2>2
<1>9. target \in 1..Len(rules) => IsHead(rules, target)
  <2> SUFFICES ASSUME target \in 1..Len(rules) PROVE IsHead(rules, target)
    OBVIOUS
  <2>1. CASE HasSkip(rules, offset)
    <3>1. Walk!Place(rules, target) = target /\ target # 0
      BY DEF Walk!Place
    <3> QED BY <1>1, <2>1, <3>1, SameRules DEF Walk!SkipsToHeads
  <2>2. CASE ~HasSkip(rules, offset)
    BY <1>1, <2>2 DEF IsHead
  <2> QED BY <2>1, <2>2
<1>10. (IF target \in DOMAIN rules THEN HeadOf(rules, target) ELSE Nil) = Walk!Place(rules, target)
  <2> HIDE DEF target
  <2> QED BY <1>1, <1>7, <1>9, AtHead
<1>11. next_head' = Walk!Place(rules, target)
  <2> HIDE DEF target
  <2> QED BY <1>2, <1>3, <1>8, <1>10
<1>12. offset' \in DOMAIN rules => IsHead(rules, offset')
  <2> HIDE DEF target
  <2> QED BY <1>1, <1>3, <1>8, <1>9 DEF IsSequence
<1> QED BY <1>11, <1>12

-----------------------------------------------------------------------------

(* The order of the walks. *)

\* All that was proved of the engine, with the order of the walks.
WalkBase == Base /\ WalkedInv /\ WalkInv

LEMMA LastAppended ==
    ASSUME WalkedInv, NEW w
    PROVE  Append(walks, w) # <<>> /\ Last(Append(walks, w)) = w
  BY DEF WalkedInv, Last

\* A handler that ends in its rules is the last of its phase.
LEMMA RulesEndPhase ==
    ASSUME Base, pc = "rules", UNCHANGED <<cfg, chunk>>, NEW passed_on, HandlerEnds(passed_on)
    PROVE  stage \in 1..4 /\ stage' = stage + 1 /\ pc' = "enter"
<1>1. stage \in 1..4 /\ chunk \in 0..cfg.chunks /\ (stage = 3 => chunk = cfg.chunks)
      /\ cfg.chunks \in Nat
  <2>1. stage \in 1..4 /\ chunk \in 0..cfg.chunks /\ (stage = 3 => chunk = cfg.chunks)
    BY DEF Base, TypeInv, TypeOK, ResponseInv, InBodyRules
  <2>2. cfg.chunks \in Nat
    BY ConfigsAssumption DEF Base, TypeInv, ConfigOK
  <2> QED BY <2>1, <2>2
<1> QED BY <1>1, PhaseOfStage DEF HandlerEnds

\* The step kinds the walk tells apart.
LEMMA WalkSteps ==
    ASSUME Base, [Next]_vars
    PROVE  \/ /\ pc = "enter" /\ pc' = "enter" /\ UNCHANGED <<cfg, walks>>
              /\ stage' \in {stage, stage + 1}
              /\ ctx'.log_entries \in {ctx.log_entries, <<>>}
           \/ /\ pc = "enter" /\ stage \in 1..4 /\ ExecRuns
              /\ ctx'.log_entries \in {ctx.log_entries, <<>>}
           \/ Ignore \/ NoMatch \/ MatchContinues \/ MatchExits \/ NextRuleset
           \/ ExecFinalizes
           \/ UNCHANGED vars
<1>1. CASE ExecInactive \/ ExecAltered
  <2> DEFINE passed_on == IF phase = "body_filter" THEN <<chunk + 1>> ELSE <<>>
  <2>1. Execs /\ HandlerEnds(passed_on) /\ UNCHANGED <<walks, ctx>> /\ pc = "enter"
    BY <1>1 DEF ExecInactive, ExecAltered, Execs
  <2> QED BY <2>1, EntryType, EndsType DEF Base
<1>2. CASE ExecRuns \/ ExecShortCircuits
  <2>1. Execs /\ ctx' = Collected(newCtx) /\ pc = "enter"
    BY <1>2 DEF ExecRuns, ExecShortCircuits, ExecCollects, Execs
  <2>2. ctx'.log_entries = newCtx.log_entries
    BY <2>1, EntryType, CollectedCtx DEF Base
  <2>3. ctx'.log_entries \in {ctx.log_entries, <<>>}
    BY <2>2 DEF newCtx, FreshCtx
  <2>4. CASE ExecShortCircuits
    <3>1. HandlerEnds(PassedOn(newCtx)) /\ walks' = walks
      BY <2>4 DEF ExecShortCircuits
    <3> QED BY <2>1, <2>3, <3>1, EntryType, EndsType DEF Base
  <2> QED BY <1>2, <2>1, <2>3, <2>4, EntryType DEF Base
<1>3. CASE ExecBodyFails
  BY <1>3 DEF ExecBodyFails, Execs
<1>4. CASE LogHandlerWrites
  BY <1>4 DEF LogHandlerWrites
<1> QED BY <1>1, <1>2, <1>3, <1>4 DEF Next, Finished

LEMMA WalkInit == Init => WalkInv
  BY DEF Init, WalkInv

LEMMA WalkStep == WalkBase /\ [Next]_vars => WalkInv'
<1> SUFFICES ASSUME WalkBase, [Next]_vars PROVE WalkInv'
  OBVIOUS
<1> USE DEF WalkBase
<1>0. stage \in 1..5
  BY DEF Base, TypeInv, TypeOK
<1>1. CASE /\ pc = "enter" /\ pc' = "enter" /\ UNCHANGED <<cfg, walks>>
           /\ stage' \in {stage, stage + 1}
           /\ ctx'.log_entries \in {ctx.log_entries, <<>>}
  <2>1. CASE walks = <<>>
    BY <1>1, <2>1 DEF WalkInv
  <2>2. CASE walks # <<>>
    <3>1. Last(walks)[1] \in 1..(stage' - 1)
      BY <1>0, <1>1, <2>2 DEF WalkInv
    <3> QED BY <1>1, <3>1 DEF WalkInv
  <2> QED BY <2>1, <2>2
<1>2. CASE ExecRuns
  BY <1>2, LastAppended DEF ExecRuns, WalkInv
<1>3. CASE Ignore \/ NoMatch \/ MatchContinues
  <2>1. UNCHANGED <<pc, stage, r, walks>>
    BY <1>3 DEF Ignore, NoMatch, MatchContinues, Moves
  <2> QED BY <2>1 DEF WalkInv
<1>4. CASE MatchExits \/ ExecFinalizes
  <2>1. pc = "rules" /\ UNCHANGED <<cfg, chunk, walks>> /\ \E s : HandlerEnds(s)
    BY <1>4 DEF MatchExits, ExecFinalizes, Match, Process, AtRule, RulesetDone
  <2>2. stage' = stage + 1 /\ pc' = "enter"
    BY <2>1, RulesEndPhase
  <2>3. Last(walks)[1] = stage
    BY <2>1 DEF WalkInv
  <2> QED BY <1>0, <2>1, <2>2, <2>3 DEF WalkInv
<1>5. CASE NextRuleset
  BY <1>5, LastAppended DEF NextRuleset, RulesetDone, WalkInv
<1>6. CASE UNCHANGED vars
  BY <1>6 DEF vars, WalkInv
<1> QED BY <1>1, <1>2, <1>3, <1>4, <1>5, <1>6, WalkSteps

-----------------------------------------------------------------------------

(* The refinement. *)

\* The refinement's Last is the engine's: both are the community module's.
LEMMA SameLast == \A q : Walk!Last(q) = Last(q)
  BY DEF Walk!Last, Last

\* The rules the engine walks through are those the walk is in.
LEMMA WalkRules ==
    ASSUME WalkBase, pc = "rules"
    PROVE  Walk!rules = rules
  BY SameLast DEF WalkBase, WalkInv, Walk!rules, rules, phase

LEMMA WalkPasses ==
    ASSUME WalkBase, AtRule, next_head' = Walk!After(rules, next_head),
           UNCHANGED <<cfg, walks>>, ctx'.log_entries = ctx.log_entries
    PROVE  Walk!Pass
<1>1. next_head # Nil
  <2>1. offset \in Nat \ {0}
    BY RulesOK DEF AtRule, IsSequence, WalkBase, Base
  <2> QED BY <2>1, HeadOfIs DEF next_head, Nil
<1>2. Walk!rules = rules
  BY WalkRules DEF AtRule
<1>3. next_head # Walk!Nil
  BY <1>1, SameRules
<1> QED BY <1>2, <1>3 DEF next_head, Walk!Pass

\* A handler, or the next ruleset, begins a walk.
LEMMA WalkBegins ==
    ASSUME WalkBase, next_head = Nil, NEW p \in 1..4, NEW n \in DOMAIN cfg.rulesets,
           walks = <<>> \/ Walk!Follows(<<p, n>>, Last(walks)),
           walks' = Append(walks, <<p, n>>), cfg' = cfg,
           next_head' = Walk!Place(cfg.rulesets[n][Phases[p]], 1),
           ctx'.log_entries \in {ctx.log_entries, <<>>}
    PROVE  Walk!Begin
<1>1. next_head = Walk!Nil
  BY SameRules
<1>2. <<p, n>> \in (DOMAIN Phases) \X (DOMAIN cfg.rulesets)
  BY DEF Phases
<1>3. /\ <<p, n>>[1] = p /\ <<p, n>>[2] = n
  OBVIOUS
<1> QED BY <1>1, <1>2, <1>3, SameLast DEF next_head, Walk!Begin

\* Where a walk that begins is: at the first rule, if there is one.
LEMMA FirstPlace ==
    ASSUME NEW rs, IsSequence(rs)
    PROVE  (IF 1 \in DOMAIN rs THEN HeadOf(rs, 1) ELSE Nil) = Walk!Place(rs, 1)
<1>1. IsHead(rs, 1)
  BY DEF IsHead
<1> QED BY <1>1, AtHead

LEMMA RulesetOK ==
    ASSUME Base, NEW p \in 1..4, NEW n \in DOMAIN cfg.rulesets
    PROVE  IsSequence(cfg.rulesets[n][Phases[p]])
<1>1. ConfigOK(cfg) /\ p \in 1..Len(Phases)
  BY ConfigsAssumption DEF Base, TypeInv, Phases
<1> QED BY <1>1 DEF ConfigOK

LEMMA MatchWalks ==
    ASSUME WalkBase, MatchContinues \/ MatchExits, Walk!SkipsToHeads(rules)
    PROVE  [Walk!Next]_(Walk!vars)
<1> USE DEF WalkBase
<1>1. /\ Match /\ AtRule /\ UNCHANGED <<cfg, walks>> /\ TypeInv
      /\ Walk!rules = rules
  BY WalkRules DEF MatchContinues, MatchExits, Match, Process, Moves, AtRule, Base
<1>2. ctx'.log_entries = IF Logs THEN Append(ctx.log_entries, rule.id) ELSE ctx.log_entries
  <2>1. Acted.ctx.log_entries = ctx.log_entries /\ DOMAIN Acted.ctx = CtxFields
    BY <1>1 DEF Acted, TypeInv, CtxFields
  <2> QED BY <1>1, <2>1 DEF Match, CtxFields
<1>3. offset \in 1..Len(rules) /\ Len(rules) \in Nat /\ rule = rules[offset]
  BY <1>1, RulesOK DEF AtRule, IsSequence, rule
<1>4. CASE Continues(rules, offset)
  <2>1. rule.disrupt = "CHAIN"
    BY <1>3, <1>4 DEF Continues
  <2>2. MatchContinues /\ ctx'.log_entries = ctx.log_entries
    BY <1>2, <2>1 DEF MatchExits, Exits, ExitActions, Logs
  <2>3. Moves(Offsets(rules)[offset].match)
    BY <2>2 DEF MatchContinues
  <2>4. CASE next_head' = next_head
    BY <1>1, <2>2, <2>4 DEF next_head, Walk!vars
  <2>5. CASE next_head' = Walk!After(rules, next_head)
    BY <1>1, <2>2, <2>5, WalkPasses DEF Walk!Next
  <2> QED BY <1>1, <1>4, <2>3, <2>4, <2>5, LinkMatches
<1>5. CASE ~Continues(rules, offset)
  <2>1. IsChainEnd(rules, offset, offset)
    BY <1>3, <1>5 DEF IsChainEnd
  <2>2. next_head = HeadOf(rules, offset) /\ offset \in Walk!Ends(rules, next_head)
    BY <1>1, <1>3, <2>1, ChainWithEnd DEF next_head
  <2>3. next_head # Walk!Nil
    BY <1>3, <2>2, HeadOfIs, SameRules
  <2>4. ctx'.log_entries = IF rules[offset].nolog THEN ctx.log_entries
                           ELSE Append(ctx.log_entries, rules[offset].id)
    BY <1>2, <1>3, <1>5 DEF Logs, Continues
  <2>5. \/ next_head' = Walk!Place(rules, offset + 1 + IF Walk!HasSkip(rules, offset)
                                                       THEN Walk!SkipCount(rules, offset) ELSE 0)
        \/ rules[offset].disrupt \in {"ACCEPT", "DENY", "DROP"} /\ next_head' = Walk!Nil
    <3>1. CASE MatchContinues
      BY <1>1, <1>5, <3>1, EndMatches, SameRules DEF MatchContinues
    <3>2. CASE MatchExits
      <4>1. Exits /\ pc' = "enter"
        BY <3>2 DEF MatchExits, HandlerEnds
      <4>2. next_head' = Nil
        BY <4>1 DEF next_head, AtRule
      <4> QED BY <1>3, <4>1, <4>2, SameRules DEF Exits, ExitActions
    <3> QED BY <3>1, <3>2
  <2>6. Walk!Fire
    BY <1>1, <2>2, <2>3, <2>4, <2>5 DEF next_head, Walk!Fire
  <2> QED BY <2>6 DEF Walk!Next
<1> QED BY <1>4, <1>5

LEMMA StepWalks ==
    ASSUME SkipsLeadToHeads, WalkBase, [Next]_vars
    PROVE  [Walk!Next]_(Walk!vars)
<1> USE DEF WalkBase
<1>1. CASE /\ pc = "enter" /\ pc' = "enter" /\ UNCHANGED <<cfg, walks>>
           /\ stage' \in {stage, stage + 1}
           /\ ctx'.log_entries \in {ctx.log_entries, <<>>}
  <2>1. next_head = Nil /\ next_head' = Nil /\ Nil = Walk!Nil
    BY <1>1, SameRules DEF next_head, AtRule
  <2>2. CASE ctx'.log_entries = ctx.log_entries
    BY <1>1, <2>1, <2>2 DEF next_head, Walk!vars
  <2>3. CASE ctx'.log_entries = <<>>
    <3>1. Walk!Lose
      BY <1>1, <2>1, <2>3 DEF next_head, Walk!Lose
    <3> QED BY <3>1 DEF Walk!Next
  <2> QED BY <1>1, <2>2, <2>3
<1>2. CASE /\ pc = "enter" /\ stage \in 1..4 /\ ExecRuns
           /\ ctx'.log_entries \in {ctx.log_entries, <<>>}
  <2>1. /\ cfg' = cfg /\ walks' = Append(walks, <<stage, 1>>)
        /\ stage' = stage /\ pc' = "rules" /\ r' = 1 /\ offset' = 1
    BY <1>2 DEF ExecRuns, ExecCollects, Execs
  <2>2. 1 \in DOMAIN cfg.rulesets
    <3>1. ConfigOK(cfg)
      BY ConfigsAssumption DEF Base, TypeInv
    <3> QED BY <3>1 DEF ConfigOK, IsSequence
  <2>3. next_head = Nil
    BY <1>2 DEF next_head, AtRule
  <2>4. next_head' = Walk!Place(cfg.rulesets[1][Phases[stage]], 1)
    <3>1. rules' = cfg.rulesets[1][Phases[stage]]
      BY <2>1 DEF rules, phase
    <3>2. next_head' = IF 1 \in DOMAIN rules' THEN HeadOf(rules', 1) ELSE Nil
      BY <2>1 DEF next_head, AtRule, HeadOf
    <3>3. IsSequence(cfg.rulesets[1][Phases[stage]])
      BY <1>2, <2>2, RulesetOK
    <3> QED BY <3>1, <3>2, <3>3, FirstPlace
  <2>5. walks = <<>> \/ Walk!Follows(<<stage, 1>>, Last(walks))
    BY <1>2 DEF WalkInv, Walk!Follows
  <2>6. Walk!Begin
    BY <1>2, <2>1, <2>2, <2>3, <2>4, <2>5, WalkBegins
  <2> QED BY <2>6 DEF Walk!Next
<1>3. CASE Ignore \/ NoMatch
  <2>1. /\ AtRule /\ Moves(Offsets(rules)[offset].nomatch) /\ UNCHANGED <<cfg, walks>>
        /\ TypeInv /\ ctx'.log_entries = ctx.log_entries
    BY <1>3 DEF Ignore, NoMatch, Process, Moves, Base, TypeInv, CtxFields
  <2>2. Walk!Pass
    BY <2>1, NoMatchPasses, WalkPasses
  <2> QED BY <2>2 DEF Walk!Next
<1>4. CASE MatchContinues \/ MatchExits
  <2>1. AtRule /\ stage \in 1..Len(Phases) /\ r \in DOMAIN cfg.rulesets /\ cfg \in Configs
    BY <1>4, PhaseOfStage DEF MatchContinues, MatchExits, Match, Process, AtRule,
                              Base, TypeInv, TypeOK
  <2>2. Walk!SkipsToHeads(rules)
    BY <2>1 DEF SkipsLeadToHeads, rules, phase
  <2> QED BY <1>4, <2>2, MatchWalks
<1>5. CASE NextRuleset
  <2>1. /\ cfg' = cfg /\ walks' = Append(walks, <<stage, r + 1>>) /\ ctx' = ctx
        /\ stage' = stage /\ pc = "rules" /\ pc' = "rules" /\ r' = r + 1 /\ offset' = 1
        /\ offset \notin DOMAIN rules /\ r < Len(cfg.rulesets)
    BY <1>5 DEF NextRuleset, RulesetDone
  <2>2. stage \in 1..4 /\ r + 1 \in DOMAIN cfg.rulesets /\ r \in Nat
    <3>1. IsSequence(cfg.rulesets)
      <4>1. ConfigOK(cfg)
        BY ConfigsAssumption DEF Base, TypeInv
      <4> QED BY <4>1 DEF ConfigOK
    <3> QED BY <2>1, <3>1 DEF Base, TypeInv, TypeOK, IsSequence
  <2>3. next_head = Nil
    BY <2>1 DEF next_head, AtRule
  <2>4. next_head' = Walk!Place(cfg.rulesets[r + 1][Phases[stage]], 1)
    <3>1. rules' = cfg.rulesets[r + 1][Phases[stage]]
      BY <2>1 DEF rules, phase
    <3>2. next_head' = IF 1 \in DOMAIN rules' THEN HeadOf(rules', 1) ELSE Nil
      BY <2>1 DEF next_head, AtRule, HeadOf
    <3>3. IsSequence(cfg.rulesets[r + 1][Phases[stage]])
      BY <2>2, RulesetOK
    <3> QED BY <3>1, <3>2, <3>3, FirstPlace
  <2>5. Walk!Follows(<<stage, r + 1>>, Last(walks))
    BY <2>1, <2>2 DEF WalkInv, Walk!Follows
  <2>6. Walk!Begin
    BY <2>1, <2>2, <2>3, <2>4, <2>5, WalkBegins
  <2> QED BY <2>6 DEF Walk!Next
<1>6. CASE ExecFinalizes
  <2>1. /\ UNCHANGED <<cfg, walks, ctx>> /\ offset \notin DOMAIN rules /\ pc' = "enter"
    BY <1>6 DEF ExecFinalizes, RulesetDone, HandlerEnds
  <2>2. next_head = Nil /\ next_head' = Nil
    BY <2>1 DEF next_head, AtRule
  <2> QED BY <2>1, <2>2 DEF next_head, Walk!vars
<1>7. CASE UNCHANGED vars
  <2>1. UNCHANGED <<cfg, walks, ctx>> /\ next_head' = next_head
    BY <1>7 DEF vars, next_head, AtRule, rules, phase, HeadOf
  <2> QED BY <2>1 DEF next_head, Walk!vars
<1> QED BY <1>1, <1>2, <1>3, <1>4, <1>5, <1>6, <1>7, WalkSteps

LEMMA InitWalks == Init => Walk!Init
<1> SUFFICES ASSUME Init PROVE Walk!Init
  OBVIOUS
<1>1. next_head = Nil /\ Nil = Walk!Nil
  BY SameRules DEF Init, next_head, AtRule
<1> QED BY <1>1 DEF Init, FreshCtx, next_head, Walk!Init

\* _process_rule and exec() know offsets only. Whatever the rulesets, as long as their
\* skips lead to heads of chains, following those offsets is a walk over whole chains:
\* each step of Transaction is a step of ChainWalk or changes nothing there.
THEOREM Refinement == SkipsLeadToHeads => (Spec => WalksChains)
<1> SUFFICES ASSUME SkipsLeadToHeads PROVE Spec => WalksChains
  OBVIOUS
<1>1. Spec => []WalkBase
  <2>1. Init => WalkedInv /\ WalkInv
    BY WalkedInit, WalkInit
  <2>2. Base /\ WalkedInv /\ WalkInv /\ [Next]_vars => WalkedInv' /\ WalkInv'
    BY WalkedStep, WalkStep DEF WalkBase
  <2>3. Base /\ WalkedInv /\ WalkInv => WalkBase
    BY DEF WalkBase
  <2> QED BY Basis, <2>1, <2>2, <2>3, PTL DEF Spec
<1>2. WalkBase /\ [Next]_vars => [Walk!Next]_(Walk!vars)
  BY StepWalks
<1> QED BY <1>1, <1>2, InitWalks, PTL DEF Spec, WalksChains, Walk!Spec

-----------------------------------------------------------------------------

(* No chain fires of which a rule is ignored by an option.                    *)

\* None of the rules of k's chain, up to the one given, is ignored by an option.
Unignored(rs, k, last) == \A m \in HeadOf(rs, k)..last : rs[m].id \notin cfg.ignore

\* The id is that of the end of such a chain.
EndsUnignored(id) ==
    \E s \in Range(cfg.rulesets), p \in Range(Phases) :
        \E e \in DOMAIN s[p] : /\ s[p][e].id = id
                               /\ ~Continues(s[p], e)
                               /\ Unignored(s[p], e, e)

\* A rule is only reached through the rules of its chain before it, and those
\* were not ignored; a match is logged at the end of such a chain.
SilentInv ==
    /\ logged \in Seq(Range(logged))
    /\ cfg.ignore \subseteq removed
    /\ Inherits => /\ AtRule => Unignored(rules, offset, offset - 1)
                   /\ \A id \in Range(logged) : EndsUnignored(id)

LEMMA SilentInit == Init => SilentInv
<1> SUFFICES ASSUME Init PROVE SilentInv
  OBVIOUS
<1>1. logged = <<>> /\ removed = cfg.ignore /\ ~AtRule
  BY DEF Init, AtRule
<1>2. Range(logged) = {} /\ logged \in Seq(Range(logged))
  BY <1>1 DEF Range
<1> QED BY <1>1, <1>2 DEF SilentInv

\* At a head there is no rule of the chain before.
LEMMA HeadUnignored ==
    ASSUME NEW rs, NEW k \in Nat \ {0}, IsHead(rs, k)
    PROVE  Unignored(rs, k, k - 1)
<1>1. HeadOf(rs, k) = k
  BY HeadOfUnique
<1> QED BY <1>1 DEF Unignored

\* A rule that is processed is not one that an option ignores.
LEMMA ProcessedUnignored ==
    ASSUME Base, SilentInv, Inherits, Process
    PROVE  Unignored(rules, offset, offset)
<1>1. rule.id \notin cfg.ignore
  BY DEF Base, IgnoreInv, SilentInv, Process, AtRule
<1>2. Unignored(rules, offset, offset - 1) /\ rule = rules[offset] /\ offset \in Nat \ {0}
  BY RulesOK DEF SilentInv, Process, AtRule, rule, Base, IsSequence
<1>3. HeadOf(rules, offset) \in 1..offset
  BY <1>2, HeadOfIs
<1>4. ASSUME NEW m \in HeadOf(rules, offset)..offset
      PROVE  rules[m].id \notin cfg.ignore
  <2>1. CASE m = offset
    BY <1>1, <1>2, <2>1
  <2>2. CASE m # offset
    <3> DEFINE h == HeadOf(rules, offset)
    <3>1. h \in 1..offset /\ m \in h..offset
      BY <1>3, <1>4
    <3> HIDE DEF h
    <3>2. m \in h..(offset - 1)
      BY <1>2, <2>2, <3>1
    <3> QED BY <1>2, <3>2 DEF Unignored, h
  <2> QED BY <2>1, <2>2
<1> QED BY <1>4 DEF Unignored

\* Where a step leads within the rules of a phase.
LEMMA StaysUnignored ==
    ASSUME Base, SilentInv, Inherits, SkipsLeadToHeads, AtRule,
           Ignore \/ NoMatch \/ MatchContinues
    PROVE  AtRule' => Unignored(rules, offset', offset' - 1)
<1> SUFFICES ASSUME AtRule' PROVE Unignored(rules, offset', offset' - 1)
  OBVIOUS
<1>1. /\ UNCHANGED <<cfg, stage, pc, r>> /\ TypeInv /\ rules' = rules
      /\ cfg \in Configs /\ r \in DOMAIN cfg.rulesets /\ stage \in 1..Len(Phases)
  BY RulesOK, PhaseOfStage
     DEF Ignore, NoMatch, MatchContinues, Moves, rules, phase, Base, TypeInv, TypeOK, AtRule
<1>2. IsSequence(rules) /\ offset' \in DOMAIN rules /\ offset' \in Nat \ {0}
      /\ offset \in Nat \ {0}
  <2>1. IsSequence(rules) /\ offset' \in DOMAIN rules
    BY <1>1, RulesOK DEF AtRule
  <2> QED BY <2>1 DEF IsSequence, AtRule
<1>3. CASE Ignore \/ NoMatch
  <2>1. Moves(Offsets(rules)[offset].nomatch)
    BY <1>3 DEF Ignore, NoMatch
  <2>2. IsHead(rules, offset')
    BY <1>1, <1>2, <2>1, NoMatchPasses
  <2> QED BY <1>2, <2>2, HeadUnignored
<1>4. CASE MatchContinues /\ Continues(rules, offset)
  <2>1. Process /\ Moves(Offsets(rules)[offset].match)
    BY <1>4 DEF MatchContinues, Match
  <2>2. offset' = offset + 1
    BY <1>1, <1>2, <1>4, <2>1, LinkMatches
  <2>3. HeadOf(rules, offset') = HeadOf(rules, offset) /\ offset' - 1 = offset
    BY <1>2, <1>4, <2>2, HeadOfNext
  <2> QED BY <2>1, <2>3, ProcessedUnignored DEF Unignored
<1>5. CASE MatchContinues /\ ~Continues(rules, offset)
  <2>1. Moves(Offsets(rules)[offset].match)
    BY <1>5 DEF MatchContinues
  <2>2. Walk!SkipsToHeads(rules)
    BY <1>1 DEF SkipsLeadToHeads, rules, phase
  <2>3. IsHead(rules, offset')
    BY <1>1, <1>2, <1>5, <2>1, <2>2, EndMatches
  <2> QED BY <1>2, <2>3, HeadUnignored
<1> QED BY <1>3, <1>4, <1>5

\* A match is logged of the last rule of a chain none of whose rules is ignored.
LEMMA LogsUnignored ==
    ASSUME Base, SilentInv, Inherits, Match, Logs
    PROVE  EndsUnignored(rule.id)
<1>1. /\ Process /\ AtRule /\ stage \in 1..Len(Phases) /\ r \in DOMAIN cfg.rulesets
      /\ rule = rules[offset] /\ offset \in DOMAIN rules
  BY PhaseOfStage DEF Match, Process, AtRule, rule, Base, TypeInv, TypeOK
<1>2. rules = cfg.rulesets[r][phase] /\ cfg.rulesets[r] \in Range(cfg.rulesets)
      /\ phase \in Range(Phases)
  BY <1>1 DEF rules, phase, Range, Phases
<1>3. ~Continues(rules, offset)
  BY <1>1 DEF Logs, Continues
<1>4. Unignored(rules, offset, offset)
  BY <1>1, ProcessedUnignored
<1> QED BY <1>1, <1>2, <1>3, <1>4 DEF EndsUnignored

LEMMA SilentStep == SkipsLeadToHeads /\ Base /\ SilentInv /\ [Next]_vars => SilentInv'
<1> SUFFICES ASSUME SkipsLeadToHeads, Base, SilentInv, [Next]_vars PROVE SilentInv'
  OBVIOUS
<1>0. cfg' = cfg
  BY CfgKept
<1>a. \A id : EndsUnignored(id)' <=> EndsUnignored(id)
  BY <1>0 DEF EndsUnignored, Unignored, HeadOf
<1>b. Inherits' => Inherits
  BY InheritsBack
<1>1. CASE MatchContinues \/ MatchExits
  <2>1. Match /\ AtRule /\ removed \subseteq removed'
    BY <1>1 DEF MatchContinues, MatchExits, Match, Process
  <2>2. logged' = IF Logs THEN Append(logged, rule.id) ELSE logged
    BY <2>1 DEF Match
  <2>3. /\ logged' \in Seq(Range(logged'))
        /\ Range(logged') = IF Logs THEN Range(logged) \cup {rule.id} ELSE Range(logged)
    <3>1. CASE Logs
      <4>1. /\ Range(Append(logged, rule.id)) = Range(logged) \cup {rule.id}
            /\ Append(logged, rule.id) \in Seq(Range(logged) \cup {rule.id})
        BY RangeAppend DEF SilentInv
      <4> QED BY <2>2, <3>1, <4>1
    <3>2. CASE ~Logs
      BY <2>2, <3>2 DEF SilentInv
    <3> QED BY <3>1, <3>2
  <2>4. Inherits' => \A id \in Range(logged') : EndsUnignored(id)
    BY <1>b, <2>1, <2>3, LogsUnignored DEF SilentInv
  <2>5. Inherits' /\ AtRule' => Unignored(rules, offset, offset - 1)'
    <3> SUFFICES ASSUME Inherits', AtRule' PROVE Unignored(rules, offset, offset - 1)'
      OBVIOUS
    <3>1. MatchContinues
      BY <1>1 DEF MatchExits, HandlerEnds, AtRule
    <3>2. Unignored(rules, offset', offset' - 1) /\ rules' = rules
      BY <1>b, <2>1, <3>1, StaysUnignored DEF MatchContinues, Moves, rules, phase
    <3> QED BY <1>0, <3>2 DEF Unignored, HeadOf
  <2>6. cfg'.ignore \subseteq removed'
    BY <1>0, <2>1 DEF SilentInv
  <2> QED BY <1>a, <2>3, <2>4, <2>5, <2>6 DEF SilentInv
<1> SUFFICES ASSUME UNCHANGED <<logged, removed>>,
                    ~(MatchContinues \/ MatchExits)
             PROVE  SilentInv'
  BY <1>1, StepKinds DEF Base, Next, Finished, vars, ExecInactive, ExecAltered, ExecRuns,
     ExecShortCircuits, ExecCollects, Execs, ExecBodyFails, LogHandlerWrites, Ignore, NoMatch,
     NextRuleset, ExecFinalizes
<1>2. /\ logged' \in Seq(Range(logged')) /\ cfg'.ignore \subseteq removed'
      /\ Inherits' => \A id \in Range(logged') : EndsUnignored(id)'
  <2>1. Range(logged') = Range(logged)
    OBVIOUS
  <2> QED BY <1>0, <1>a, <1>b, <2>1 DEF SilentInv
<1>3. Inherits' /\ AtRule' => Unignored(rules, offset, offset - 1)'
  <2> SUFFICES ASSUME Inherits', AtRule' PROVE Unignored(rules, offset, offset - 1)'
    OBVIOUS
  <2>1. CASE pc' = "enter"
    BY <2>1 DEF AtRule
  <2>2. CASE Ignore \/ NoMatch
    <3>1. AtRule /\ rules' = rules
      BY <2>2 DEF Ignore, NoMatch, Process, Moves, rules, phase
    <3>2. Unignored(rules, offset', offset' - 1)
      BY <1>b, <2>2, <3>1, StaysUnignored
    <3> QED BY <1>0, <3>1, <3>2 DEF Unignored, HeadOf
  <2>3. CASE offset' = 1
    <3>1. IsHead(rules', 1) /\ 1 \in Nat \ {0}
      BY DEF IsHead
    <3>2. Unignored(rules', 1, 1 - 1)
      BY <3>1, HeadUnignored
    <3> QED BY <1>0, <2>3, <3>2 DEF Unignored, HeadOf
  <2>4. CASE UNCHANGED vars
    <3>1. AtRule /\ rules' = rules /\ offset' = offset
      BY <2>4 DEF vars, AtRule, rules, phase
    <3>2. Unignored(rules, offset, offset - 1)
      BY <1>b, <3>1 DEF SilentInv
    <3> QED BY <1>0, <3>1, <3>2 DEF Unignored, HeadOf
  <2>5. pc' = "enter" \/ Ignore \/ NoMatch \/ offset' = 1 \/ UNCHANGED vars
    BY WalkSteps DEF ExecRuns, NextRuleset, ExecFinalizes, HandlerEnds
  <2> QED BY <2>1, <2>2, <2>3, <2>4, <2>5
<1> QED BY <1>2, <1>3 DEF SilentInv

\* A chain ends where the rules from its head on lead.
LEMMA InChain ==
    ASSUME NEW rs, NEW e \in Nat \ {0}, NEW k \in 1..e, IsChainEnd(rs, k, e)
    PROVE  k \in HeadOf(rs, e)..e
<1> DEFINE h == HeadOf(rs, e)
<1>1. h \in 1..e /\ IsHead(rs, h)
  BY HeadOfIs
<1> HIDE DEF h
<1>2. ASSUME k < h PROVE FALSE
  <2>1. h - 1 \in k..(e - 1) /\ h # 1
    BY <1>1, <1>2
  <2>2. Continues(rs, h - 1)
    BY <2>1 DEF IsChainEnd
  <2> QED BY <1>1, <2>1, <2>2 DEF IsHead
<1>3. k \in h..e
  BY <1>1, <1>2
<1> QED BY <1>3 DEF h

LEMMA SilentEnds ==
    ASSUME OneEndPerId, Base, SilentInv
    PROVE  IgnoredChainSilent
<1> SUFFICES ASSUME Inherits, NEW s \in Range(cfg.rulesets), NEW p \in Range(Phases),
                    NEW e \in DOMAIN s[p], s[p][e].id \in Range(logged),
                    NEW k \in 1..e, IsChainEnd(s[p], k, e)
             PROVE  s[p][k].id \notin cfg.ignore
  BY DEF IgnoredChainSilent
<1>1. EndsUnignored(s[p][e].id) /\ cfg \in Configs
  BY DEF SilentInv, Base, TypeInv
<1>2. PICK t \in Range(cfg.rulesets), q \in Range(Phases) : \E f \in DOMAIN t[q] :
          t[q][f].id = s[p][e].id /\ ~Continues(t[q], f) /\ Unignored(t[q], f, f)
  BY <1>1 DEF EndsUnignored
<1>3. PICK f \in DOMAIN t[q] :
          t[q][f].id = s[p][e].id /\ ~Continues(t[q], f) /\ Unignored(t[q], f, f)
  BY <1>2
<1>4. ~Continues(s[p], e)
  BY DEF IsChainEnd
<1>5. t[q] = s[p] /\ f = e
  BY <1>1, <1>3, <1>4 DEF OneEndPerId
<1>6. e \in Nat \ {0}
  <2>1. PICK n \in DOMAIN cfg.rulesets, m \in 1..4 : s = cfg.rulesets[n] /\ p = Phases[m]
    BY DEF Range, Phases
  <2> QED BY <2>1, RulesetOK DEF IsSequence
<1> QED BY <1>3, <1>5, <1>6, InChain DEF Unignored

\* "ignoring a rule in a chain will result in the entire chain being ignored": when
\* ignore_rule names a rule of a chain, _process_rule logs no match of that chain, in
\* any phase, where skips lead to heads of chains and an id to one end of a chain.
THEOREM IgnoredChains == SkipsLeadToHeads /\ OneEndPerId => (Spec => []IgnoredChainSilent)
<1> SUFFICES ASSUME SkipsLeadToHeads, OneEndPerId PROVE Spec => []IgnoredChainSilent
  OBVIOUS
<1>1. Base /\ SilentInv /\ [Next]_vars => SilentInv'
  BY SilentStep
<1>2. Base /\ SilentInv => IgnoredChainSilent
  BY SilentEnds
<1> QED BY Basis, SilentInit, <1>1, <1>2, PTL DEF Spec
=============================================================================
