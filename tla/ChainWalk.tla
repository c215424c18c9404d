----------------------------- MODULE ChainWalk -----------------------------
(***************************************************************************)
(* What the rule engine promises, without offsets: the rules of a phase are  *)
(* taken chain by chain, ruleset after ruleset and phase after phase. A chain *)
(* as a whole fires or does not. One that does not fire has no effect and is  *)
(* followed by the next chain. One that fires logs, at most, its last rule;    *)
(* it is followed by the next chain, by the rule a skip leads to, or, when it  *)
(* ends the handler, by no other.                                           *)
(*                                                                         *)
(* It speaks of rulesets whose skips lead to heads of chains: SkipsToHeads.   *)
(***************************************************************************)
EXTENDS Rules, SequencesExt

CONSTANT Phases

VARIABLES cfg,      \* the configuration: see Transaction
          walks,    \* the walks begun: <<phase number, ruleset number>>
          at,       \* the head of the chain that is next, or Nil: no walk goes on
          events    \* the alerts logged

vars == <<cfg, walks, at, events>>

rules == cfg.rulesets[Last(walks)[2]][Phases[Last(walks)[1]]]

\* The place k, if the ruleset has a rule there.
Place(rs, k) == IF k \in 1..Len(rs) THEN k ELSE Nil

Ends(rs, k) == {e \in k..Len(rs) : IsChainEnd(rs, k, e)}

\* The chain that follows the one at k.
After(rs, k) == IF Ends(rs, k) = {} THEN Nil
                ELSE Place(rs, (CHOOSE e \in Ends(rs, k) : TRUE) + 1)

SkipsToHeads(rs) ==
    \A k \in 1..Len(rs) : HasSkip(rs, k) /\ ~Continues(rs, k) =>
        LET t == Place(rs, k + 1 + SkipCount(rs, k)) IN t = Nil \/ IsHead(rs, t)

Follows(p, q) == p[1] > q[1] \/ (p[1] = q[1] /\ p[2] > q[2])

Init == /\ walks = <<>>
        /\ at = Nil
        /\ events = <<>>

\* A handler, or the next ruleset of one, begins; alerts may have been lost with
\* the ctx of a handler that did not finalize.
Begin == /\ at = Nil
         /\ \E p \in (DOMAIN Phases) \X (DOMAIN cfg.rulesets) :
               /\ walks = <<>> \/ Follows(p, Last(walks))
               /\ walks' = Append(walks, p)
               /\ at' = Place(cfg.rulesets[p[2]][Phases[p[1]]], 1)
         /\ events' \in {events, <<>>}
         /\ UNCHANGED cfg

Lose == /\ at = Nil
        /\ events' = <<>>
        /\ UNCHANGED <<cfg, walks, at>>

\* The chain does not fire.
Pass == /\ at # Nil
        /\ at' = After(rules, at)
        /\ UNCHANGED <<cfg, walks, events>>

\* The chain fires.
Fire == /\ at # Nil
        /\ \E e \in Ends(rules, at) :
              /\ events' = IF rules[e].nolog THEN events ELSE Append(events, rules[e].id)
              /\ \/ at' = Place(rules, e + 1 + IF HasSkip(rules, e) THEN SkipCount(rules, e) ELSE 0)
                 \/ rules[e].disrupt \in {"ACCEPT", "DENY", "DROP"} /\ at' = Nil
        /\ UNCHANGED <<cfg, walks>>

Next == Begin \/ Lose \/ Pass \/ Fire

Spec == Init /\ [][Next]_vars
=============================================================================
