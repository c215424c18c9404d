--------------------------- MODULE MCTransaction ---------------------------
(***************************************************************************)
(* Instances of Transaction. The rules are told apart by what they do to the *)
(* engine; the id of a rule is its phase and its place in it.                *)
(***************************************************************************)
EXTENDS Transaction

Rule(disrupt, nolog, skip, skip_after, nondisrupt) ==
    [disrupt |-> disrupt, nolog |-> nolog, skip |-> skip, skip_after |-> skip_after,
     nondisrupt |-> nondisrupt]

Plain(disrupt) == Rule(disrupt, FALSE, NoSkip, NoId, <<>>)
Doing(disrupt, actions) == Rule(disrupt, FALSE, NoSkip, NoId, actions)

Link    == Plain("CHAIN")
Log     == Plain("IGNORE")
Silent  == Rule("SCORE", TRUE, NoSkip, NoId, <<>>)
Deny    == Plain("DENY")
Accept  == Plain("ACCEPT")
Skip(n) == Rule("IGNORE", TRUE, n, NoId, <<>>)
SkipTo(id) == Rule("IGNORE", FALSE, NoSkip, id, <<>>)
Status(disrupt, s) == Doing(disrupt, <<[action |-> "status", data |-> s]>>)
Mode(m) == Doing("IGNORE", <<[action |-> "mode_update", data |-> m]>>)
RemoveId(id) == Doing("IGNORE", <<[action |-> "rule_remove_id", data |-> id]>>)
RemoveByMeta == Doing("IGNORE", <<[action |-> "rule_remove_by_meta", data |-> "tag"]>>)

\* The rules of a phase, given their ids: 10 * the phase + the place.
Numbered(p, rls) == [k \in DOMAIN rls |-> [id |-> 10 * p + k] @@ rls[k]]

Ruleset(a, h, b, l) == [access |-> Numbered(1, a), header_filter |-> Numbered(2, h),
                        body_filter |-> Numbered(3, b), log |-> Numbered(4, l)]

SeqsUpTo(n, S) == UNION {[1..m -> S] : m \in 0..n}

Config(rulesets, mode, altered_only, hooked, log_execs, chunks, buffered) ==
    [rulesets |-> rulesets, mode |-> mode, altered_only |-> altered_only,
     ignore |-> {}, hooked |-> hooked, log_execs |-> log_execs, chunks |-> chunks,
     buffered |-> buffered, meta_ids |-> [id \in 10..49 |-> {21, 41}]]

-----------------------------------------------------------------------------

(* Walks: every access ruleset of up to four rules whose skips lead to heads  *)
(* of chains, with a second ruleset after it.                                *)
W == INSTANCE ChainWalk WITH at <- Nil, events <- ctx.log_entries

\* The second ruleset's ids are others.
Second == [p \in Range(Phases) |-> CASE p = "access" -> Numbered(6, <<Log>>)
                                     [] p = "log"    -> Numbered(9, <<Link>>)
                                     [] OTHER        -> <<>>]

WalkRules == {Link, Log, Deny, Skip(1), SkipTo(13)}

WalkConfigs ==
    {[Config(<<Ruleset(a, <<>>, <<Link, Log>>, <<>>), Second>>,
             m, FALSE, {}, TRUE, 1, FALSE) EXCEPT !.ignore = i] :
        a \in {s \in SeqsUpTo(4, WalkRules) : W!SkipsToHeads(Numbered(1, s))},
        m \in {"ACTIVE", "SIMULATE"}, i \in {{}, {12}}}

(* Phases: what the rules of one phase do to the later ones.                 *)
AccessRules == {Log, Status("DENY", 404), Status("IGNORE", 503), Accept,
                Mode("ACTIVE"), Mode("INACTIVE"), RemoveByMeta, RemoveId(41)}

Responses == {[chunks |-> 1, buffered |-> TRUE], [chunks |-> 2, buffered |-> TRUE],
              [chunks |-> 2, buffered |-> FALSE]}

Options == {[altered_only |-> TRUE, hooked |-> {}], [altered_only |-> FALSE, hooked |-> {}],
            [altered_only |-> FALSE, hooked |-> {"DENY"}]}

PhaseConfigs ==
    {Config(<<Ruleset(a, t[1], t[2], t[3])>>, m, o.altered_only, o.hooked, e,
            n.chunks, n.buffered) :
        a \in SeqsUpTo(2, AccessRules),
        t \in {<<<<Silent>>, <<Log>>, <<Log>>>>,
               <<<<Deny, Mode("SIMULATE")>>, <<Log>>, <<Deny>>>>,
               <<<<Mode("ACTIVE"), Accept>>, <<Deny>>, <<Log, Accept>>>>},
        m \in Modes, o \in Options, e \in BOOLEAN, n \in Responses}

MCConfigs == WalkConfigs \cup PhaseConfigs

(* Small instances for what the documentation says of events: each of the     *)
(* three kinds has its own reason for none being written.                     *)

\* Responses of one and two chunks, buffered or not.
Buffering ==
    {Config(<<Ruleset(<<Log>>, <<>>, <<>>, <<>>)>>, "SIMULATE", FALSE, {}, TRUE, n, f) :
        n \in {1, 2}, f \in BOOLEAN}

\* An access rule that accepts, or one that denies: in SIMULATE with
\* event_log_altered_only, and in ACTIVE without.
Simulated ==
    {Config(<<Ruleset(<<a>>, <<>>, <<>>, <<>>)>>, "SIMULATE", TRUE, {}, e, 1, FALSE) :
        a \in {Accept, Deny}, e \in BOOLEAN}
Enforced ==
    {Config(<<Ruleset(<<Log, a>>, <<>>, <<>>, <<>>)>>, "ACTIVE", FALSE, {}, e, 1, FALSE) :
        a \in {Accept, Deny}, e \in BOOLEAN}

EventsWrittenConfigs == Buffering \cup Simulated \cup Enforced

\* The rulesets are of the kind WalksChains and IgnoredChainSilent speak of.
ASSUME InstancesWalkable == SkipsLeadToHeads /\ OneEndPerId

=============================================================================
