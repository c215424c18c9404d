---------------------------- MODULE Transaction ----------------------------
(***************************************************************************)
(* One request's way through lua-resty-waf (src/lib/resty/waf.lua): nginx    *)
(* calls a handler in each of the phases access, header_filter, body_filter  *)
(* (once for every chunk of the response) and log. A handler does new() and   *)
(* exec(): it restores what an earlier handler left in ngx.ctx, fills the     *)
(* collections of its phase, runs the rules of the phase and finalizes.       *)
(*                                                                         *)
(* What a handler leaves for the next one is the ctx table and, in it, the    *)
(* waf object with its options. Only _finalize stores ctx in ngx.ctx: a       *)
(* handler that ends without it leaves what was there before, or nothing.     *)
(*                                                                         *)
(* Whether a rule matches is left open: Process allows both. So is what is    *)
(* in the collections, which only the operators read. Persistent storage is   *)
(* not touched here.                                                         *)
(***************************************************************************)
EXTENDS Rules, SequencesExt

CONSTANT Configs     \* deployments and requests: see ConfigOK

Phases == <<"access", "header_filter", "body_filter", "log">>

AlterActions == {"DENY", "DROP"}                 \* actions.alter_actions
ExitActions  == {"ACCEPT", "DENY", "DROP"}       \* those that call ngx.exit
DisruptActions == ExitActions \cup {"CHAIN", "IGNORE", "SCORE"}
Modes == {"ACTIVE", "SIMULATE", "INACTIVE"}
NoStatus == 0                                    \* ctx.rule_status = nil

IsSequence(q) == Len(q) \in Nat /\ DOMAIN q = 1..Len(q)

\* What the engine reads of a rule.
RuleOK(rl) ==
    /\ rl.disrupt \in DisruptActions
    /\ rl.skip \in Nat \cup {NoSkip}
    /\ IsSequence(rl.nondisrupt)
    /\ \A k \in DOMAIN rl.nondisrupt :
           rl.nondisrupt[k].action = "mode_update" => rl.nondisrupt[k].data \in Modes

\* A configuration: the rulesets in the order they run, by phase; the options
\* the access handler sets; what the log handler calls; the response.
ConfigOK(c) ==
    /\ IsSequence(c.rulesets) /\ Len(c.rulesets) > 0
    /\ \A n \in DOMAIN c.rulesets, p \in 1..Len(Phases) :
           LET rs == c.rulesets[n][Phases[p]]
           IN  IsSequence(rs) /\ \A k \in DOMAIN rs : RuleOK(rs[k])
    /\ c.mode \in Modes /\ c.altered_only \in BOOLEAN
    /\ c.hooked \subseteq DisruptActions
    /\ c.log_execs \in BOOLEAN        \* log_by_lua calls exec(), or else write_log_events()
    /\ c.chunks \in Nat \ {0}         \* body_filter runs once for each
    /\ c.buffered \in BOOLEAN         \* has a length below the limit and a listed type

ASSUME ConfigsAssumption == \A c \in Configs : ConfigOK(c)

VARIABLES cfg,       \* the configuration
          stage,     \* the phase nginx is in, 1 .. 4, or 5: request over
          chunk,     \* the last response chunk handed to body_filter
          pc,        \* "enter": the next handler is due; "rules": exec's rule loop
          waf,       \* the waf object: its options
          ctx,       \* the ctx table
          saved,     \* ngx.ctx.lua_resty_waf is ctx, and ctx.opts is waf
          r, offset, \* the ruleset being run and the place in it, or Nil
          arg,       \* ngx.arg[1]: chunks the running body_filter passes on
          sent,      \* chunks passed on to the client
          written,   \* the event logs written, each the ids of its alerts
          exits,     \* the calls of ngx.exit: action, rule, phase, status, and
                     \* whether what the handler did is kept for the next one
          walks,     \* ghost: the phases and rulesets run: <<stage, r>>
          ran,       \* ghost: the id of the last rule processed
          acted,     \* ghost: the actions of the rules that have matched
          logged,    \* ghost: every rule match logged in the transaction
          removed    \* ghost: every rule id that was to be ignored from then on

vars == <<cfg, stage, chunk, pc, waf, ctx, saved, r, offset, arg, sent, written,
          exits, walks, ran, acted, logged, removed>>

phase == Phases[stage]
Over  == stage = 5

\* The rules that exec() is walking through: rs[phase].
rules == cfg.rulesets[r][phase]

-----------------------------------------------------------------------------

\* new(), for a transaction no handler has saved: the access handler sets the
\* configured options, the later handlers set none.
DefaultWaf == [mode |-> "SIMULATE", altered_only |-> TRUE, ignore |-> {}, hooked |-> {}]

ConfiguredWaf == [mode |-> cfg.mode, altered_only |-> cfg.altered_only,
                  ignore |-> cfg.ignore, hooked |-> cfg.hooked]

FreshCtx == [altered |-> FALSE, log_entries |-> <<>>, short_circuit |-> FALSE,
             buffers |-> <<>>, headers |-> FALSE, rule_status |-> NoStatus]

\* Mutant: new() does not look for what an earlier handler has left.
NewEachTime == IF stage = 1 THEN ConfiguredWaf ELSE DefaultWaf

new == CASE saved                -> waf
         [] ~saved /\ stage = 1  -> ConfiguredWaf
         [] OTHER                -> DefaultWaf

\* Mutant: each handler starts with no log entries.
NewCtxNoEntries == [IF saved THEN ctx ELSE FreshCtx EXCEPT !.log_entries = <<>>]

newCtx == IF saved THEN ctx ELSE FreshCtx

\* write_log_events: what is written when it is called with c and w.
WriteLogEvents(c, w) ==
    IF (~c.altered /\ w.altered_only) \/ c.log_entries = <<>>
    THEN written
    ELSE Append(written, c.log_entries)

\* Mutant: ctx is not saved.
FinalizeUnsaved(c, w) ==
    /\ saved' = saved
    /\ written' = IF phase = "log" THEN WriteLogEvents(c, w) ELSE written

\* _finalize: saves ctx and the options in it; in the log phase writes the events.
Finalize(c, w) ==
    /\ saved' = TRUE
    /\ written' = IF phase = "log" THEN WriteLogEvents(c, w) ELSE written

\* A handler's end: nginx passes on what ngx.arg[1] holds and turns to the next
\* chunk of the response or to the next phase.
HandlerEnds(passed_on) ==
    /\ pc' = "enter"
    /\ sent' = sent \o passed_on
    /\ arg' = <<>>
    /\ stage' = IF phase = "body_filter" /\ chunk' < cfg.chunks THEN stage ELSE stage + 1

NextChunk == IF phase = "body_filter" THEN chunk + 1 ELSE chunk
Eof       == chunk + 1 = cfg.chunks

\* Mutant: exec() is to return early at every chunk.
CollectedNeverDone(c) ==
    CASE phase = "header_filter" -> [c EXCEPT !.headers = TRUE]
      [] phase = "body_filter"   -> [c EXCEPT !.short_circuit = TRUE]
      [] OTHER -> c

\* collections.lookup[phase]: body_filter keeps the chunks of a response it
\* buffers, and has exec() return early while there are more to come.
Collected(c) ==
    CASE phase = "header_filter" -> [c EXCEPT !.headers = TRUE]
      [] phase = "body_filter" /\ cfg.buffered ->
             [c EXCEPT !.buffers = Append(@, chunk + 1),
                       !.short_circuit = IF Eof THEN @ ELSE TRUE]
      [] phase = "body_filter" /\ ~cfg.buffered -> [c EXCEPT !.short_circuit = ~Eof]
      [] OTHER -> c

\* Mutant: the last chunk alone is passed on.
PassedOnLast(c) == IF phase = "body_filter" /\ (Eof \/ ~cfg.buffered)
                   THEN <<chunk + 1>>
                   ELSE <<>>

\* ngx.arg[1] then: nothing until the response is complete, if it is buffered.
PassedOn(c) == IF phase # "body_filter" \/ (cfg.buffered /\ ~Eof)
               THEN <<>>
               ELSE IF cfg.buffered THEN Collected(c).buffers ELSE <<chunk + 1>>

-----------------------------------------------------------------------------

Init == /\ cfg \in Configs
        /\ stage = 1 /\ chunk = 0 /\ pc = "enter"
        /\ waf = DefaultWaf /\ ctx = FreshCtx /\ saved = FALSE
        /\ r = 1 /\ offset = Nil
        /\ arg = <<>> /\ sent = <<>> /\ written = <<>> /\ exits = <<>>
        /\ walks = <<>> /\ ran = NoId /\ acted = {} /\ logged = <<>>
        /\ removed = cfg.ignore

\* A handler that calls exec().
Execs == /\ pc = "enter" /\ ~Over
         /\ phase = "log" => cfg.log_execs
         /\ chunk' = NextChunk
         /\ UNCHANGED <<cfg, saved, exits, ran, acted, logged, removed>>

Altered == new.mode = "ACTIVE" /\ newCtx.altered

\* exec() that runs no rules and leaves the response as it is: in mode INACTIVE,
\* and for a transaction already altered (in the log phase its events are
\* written).
ExecInactive == /\ Execs
                /\ new.mode = "INACTIVE"
                /\ HandlerEnds(IF phase = "body_filter" THEN <<chunk + 1>> ELSE <<>>)
                /\ UNCHANGED <<waf, ctx, r, offset, written, walks>>

ExecAltered ==
    /\ Execs
    /\ Altered
    /\ HandlerEnds(IF phase = "body_filter" THEN <<chunk + 1>> ELSE <<>>)
    /\ written' = IF phase = "log" THEN WriteLogEvents(newCtx, new) ELSE written
    /\ UNCHANGED <<waf, ctx, r, offset, walks>>

ExecCollects == /\ Execs
                /\ new.mode # "INACTIVE" /\ ~Altered
                /\ phase = "body_filter" => newCtx.headers
                /\ waf' = new
                /\ ctx' = Collected(newCtx)
                /\ UNCHANGED written

\* exec() that goes on to the rules of the phase.
ExecRuns == /\ ExecCollects
            /\ ~Collected(newCtx).short_circuit
            /\ pc' = "rules" /\ r' = 1 /\ offset' = 1
            /\ walks' = Append(walks, <<stage, 1>>)
            /\ arg' = PassedOn(newCtx)
            /\ UNCHANGED <<stage, sent>>

\* exec() that returns once the collections are filled.
ExecShortCircuits == /\ ExecCollects
                     /\ Collected(newCtx).short_circuit
                     /\ HandlerEnds(PassedOn(newCtx))
                     /\ UNCHANGED <<r, offset, walks>>

\* body_filter indexes RESPONSE_HEADERS, which no header_filter handler has left
\* for it: the handler fails, and with it the response.
ExecBodyFails == /\ Execs
                 /\ phase = "body_filter"
                 /\ new.mode # "INACTIVE" /\ ~Altered
                 /\ ~newCtx.headers
                 /\ stage' = stage + 1
                 /\ UNCHANGED <<pc, waf, ctx, r, offset, arg, sent, written, walks>>

\* A log handler that calls write_log_events() instead of exec().
LogHandlerWrites ==
    /\ pc = "enter" /\ ~Over /\ phase = "log" /\ ~cfg.log_execs
    /\ stage' = stage + 1
    /\ written' = IF saved THEN WriteLogEvents(ctx, waf) ELSE written
    /\ UNCHANGED <<cfg, chunk, pc, waf, ctx, saved, r, offset, arg, sent, exits,
                   walks, ran, acted, logged, removed>>

-----------------------------------------------------------------------------

rule == rules[offset]

AtRule == pc = "rules" /\ offset \in DOMAIN rules

\* Mutant: the offset is taken from the rule before.
MovesShort(distance) == /\ offset' = IF distance = Nil THEN Nil ELSE offset + distance - 1
                        /\ UNCHANGED <<cfg, stage, chunk, pc, r, arg, sent, walks>>

\* The loop moves on by an offset, or ends with this ruleset.
Moves(distance) == /\ offset' = IF distance = Nil THEN Nil ELSE offset + distance
                   /\ UNCHANGED <<cfg, stage, chunk, pc, r, arg, sent, walks>>

\* Mutant: a rule that is ignored counts as a match.
IgnoreAsMatch == /\ AtRule
                 /\ rule.id \in waf.ignore
                 /\ Moves(Offsets(rules)[offset].match)
                 /\ UNCHANGED <<waf, ctx, saved, written, exits, ran, acted, logged, removed>>

\* A rule that is ignored counts as one that does not match.
Ignore == /\ AtRule
          /\ rule.id \in waf.ignore
          /\ Moves(Offsets(rules)[offset].nomatch)
          /\ UNCHANGED <<waf, ctx, saved, written, exits, ran, acted, logged, removed>>

Process == /\ AtRule
           /\ rule.id \notin waf.ignore
           /\ ran' = rule.id

NoMatch == /\ Process
           /\ ctx' = [ctx EXCEPT !.rule_status = NoStatus]
           /\ Moves(Offsets(rules)[offset].nomatch)
           /\ UNCHANGED <<waf, saved, written, exits, acted, logged, removed>>

\* The ids a nondisruptive action has ignored from then on.
Removes(a) == CASE a.action = "rule_remove_id" -> {a.data}
                [] a.action = "rule_remove_by_meta" -> cfg.meta_ids[rule.id]
                [] OTHER -> {}
RuleRemoves == UNION {Removes(rule.nondisrupt[k]) : k \in DOMAIN rule.nondisrupt}

\* What the rule's actions of that name leave: the data of the last one.
Latest(name, before) ==
    LET named == {k \in DOMAIN rule.nondisrupt : rule.nondisrupt[k].action = name}
    IN  IF named = {} THEN before
        ELSE rule.nondisrupt[CHOOSE k \in named : \A j \in named : j <= k].data

\* Mutant: rule_status is not reset.
ActedOnStatus ==
    [waf |-> [waf EXCEPT !.mode = Latest("mode_update", @), !.ignore = @ \cup RuleRemoves],
     ctx |-> [ctx EXCEPT !.rule_status = Latest("status", @)]]

\* waf and ctx once the nondisruptive actions of a match have run, in order:
\* those that the engine itself reads again.
Acted ==
    [waf |-> [waf EXCEPT !.mode = Latest("mode_update", @), !.ignore = @ \cup RuleRemoves],
     ctx |-> [ctx EXCEPT !.rule_status = Latest("status", NoStatus)]]

Logs   == rule.disrupt # "CHAIN" /\ ~rule.nolog
Alters == rule.disrupt \in AlterActions
Exits  == /\ rule.disrupt \in ExitActions
          /\ rule.disrupt \notin Acted.waf.hooked
          /\ Acted.waf.mode = "ACTIVE"

\* A match: the nondisruptive actions, the log entry, then _rule_action, which
\* finalizes before it disrupts.
Match ==
    /\ Process
    /\ waf' = Acted.waf
    /\ ctx' = [Acted.ctx EXCEPT !.log_entries = IF Logs THEN Append(@, rule.id) ELSE @,
                                !.altered = @ \/ Alters]
    /\ IF Alters THEN Finalize(ctx', waf') ELSE UNCHANGED <<saved, written>>
    /\ exits' = IF Exits
                THEN Append(exits, [action |-> rule.disrupt, rule |-> rule, phase |-> phase,
                                    status |-> ctx'.rule_status, kept |-> saved'])
                ELSE exits
    /\ acted' = acted \cup {rule.disrupt}
    /\ logged' = IF Logs THEN Append(logged, rule.id) ELSE logged
    /\ removed' = removed \cup RuleRemoves

\* ngx.exit is nginx's. It ends the handler it is called in; in header_filter it
\* may also return, as nginx cannot stop there, and the loop goes on.
MayReturn == phase = "header_filter"

MatchContinues == /\ Match
                  /\ ~Exits \/ MayReturn
                  /\ Moves(Offsets(rules)[offset].match)

\* The handler ends where it is; what it would have passed on is dropped.
MatchExits == /\ Match
              /\ Exits
              /\ UNCHANGED <<cfg, chunk, r, offset, walks>>
              /\ HandlerEnds(<<>>)

RulesetDone == pc = "rules" /\ offset \notin DOMAIN rules

\* The next of the rulesets, from its first rule.
NextRuleset == /\ RulesetDone
               /\ r < Len(cfg.rulesets)
               /\ r' = r + 1 /\ offset' = 1
               /\ walks' = Append(walks, <<stage, r + 1>>)
               /\ UNCHANGED <<cfg, stage, chunk, pc, waf, ctx, saved, arg, sent, written,
                              exits, ran, acted, logged, removed>>

\* The last ruleset is through: _finalize, and exec() returns.
ExecFinalizes == /\ RulesetDone
                 /\ r = Len(cfg.rulesets)
                 /\ Finalize(ctx, waf)
                 /\ UNCHANGED <<cfg, chunk, waf, ctx, r, offset, exits, walks, ran,
                                acted, logged, removed>>
                 /\ HandlerEnds(arg)

Finished == Over /\ UNCHANGED vars

Next == \/ ExecInactive \/ ExecAltered \/ ExecRuns \/ ExecShortCircuits
        \/ ExecBodyFails \/ LogHandlerWrites
        \/ Ignore \/ NoMatch \/ MatchContinues \/ MatchExits
        \/ NextRuleset \/ ExecFinalizes \/ Finished

Spec == Init /\ [][Next]_vars

\* nginx runs every handler to its end: a request does not stop half way.
FairSpec == Spec /\ WF_vars(Next)

-----------------------------------------------------------------------------

TypeOK == /\ stage \in 1..5 /\ chunk \in 0..cfg.chunks
          /\ pc \in {"enter", "rules"}
          /\ waf.mode \in Modes /\ waf.altered_only \in BOOLEAN
          /\ ctx.altered \in BOOLEAN /\ ctx.short_circuit \in BOOLEAN
          /\ ctx.headers \in BOOLEAN /\ saved \in BOOLEAN
          /\ r \in DOMAIN cfg.rulesets
          /\ offset \in Nat

AllChunks == [n \in 1..cfg.chunks |-> n]

Denials  == {x \in Range(exits) : x.action \in AlterActions}
Accepted == \E x \in Range(exits) : x.action = "ACCEPT"

\* A handler left the transaction before anything of it was saved: an ACCEPT
\* calls ngx.exit, and only DENY and DROP finalize before they do.
Forgotten == \E x \in Range(exits) : ~x.kept

\* Every handler has what the earlier ones have left.
Inherits == cfg.mode # "INACTIVE" /\ ~Forgotten

ModeUpdates ==
    {m \in Modes : \E n \in DOMAIN cfg.rulesets, p \in 1..Len(Phases) :
        \E k \in DOMAIN cfg.rulesets[n][Phases[p]] :
            \E a \in DOMAIN cfg.rulesets[n][Phases[p]][k].nondisrupt :
                /\ cfg.rulesets[n][Phases[p]][k].nondisrupt[a].action = "mode_update"
                /\ cfg.rulesets[n][Phases[p]][k].nondisrupt[a].data = m}
UsesModeUpdate == ModeUpdates # {}

\* A request that is denied is left alone from then on, and no other is. Unless
\* a mode_update takes ACTIVE back, no handler after the one that denied it
\* runs rules, because _rule_action saves that the transaction was altered
\* before ngx.exit leaves the handler. And exec() does not skip the rules of a
\* transaction whose DENY only altered it, as in SIMULATE mode. (A hook in place
\* of the DENY, or a mode_update after it, does let exec() skip the rest.)
DeniedStops ==
    /\ \A x \in Denials : pc = "rules" /\ ModeUpdates \subseteq {"ACTIVE"}
                          => phase = "header_filter" /\ x.phase = phase
    /\ pc = "enter" /\ ~Over /\ Altered /\ cfg.hooked = {} /\ ~UsesModeUpdate
          => Denials # {}

\* The log handler, or the exec() it calls, comes to where the events are
\* written: the mode is not INACTIVE then, no ACCEPT has ended the handler, and
\* no buffered response of several chunks has left short_circuit set.
LogCompletes ==
    /\ cfg.log_execs => waf.mode # "INACTIVE" /\ ~(cfg.buffered /\ cfg.chunks > 1)
    /\ \A x \in Range(exits) : x.phase = "log" => x.action # "ACCEPT"

\* The events are complete when they are written: every match logged in any of
\* the handlers is reported at the end, in order, if the option asks for all
\* events or a rule with an altering action has matched. The code's altering
\* actions are DENY and DROP. The documentation's are DENY and ACCEPT, and it knows
\* no exception for a handler left by ACCEPT or a large response: EventsWritten.
\* And the events are written once. (A DENY of a log rule that does not end the
\* handler finalizes the log phase twice, and writes them twice.)
EventsReported ==
    /\ /\ Over /\ logged # <<>>
       /\ Inherits /\ LogCompletes
       /\ ~cfg.altered_only \/ acted \cap AlterActions # {}
       => written # <<>> /\ Last(written) = logged
    /\ (\A s \in Range(cfg.rulesets) : \A rl \in Range(s["log"]) : rl.disrupt \notin AlterActions)
          => Len(written) <= 1

\* The client gets the chunks of the response in order, each once, whether they
\* are buffered or passed on as they come: all of them, unless a rule of
\* body_filter ends its handler or no header_filter handler prepared for it.
ResponseIntact ==
    /\ IsPrefix(sent, AllChunks)
    /\ Over /\ ~Accepted /\ (\A x \in Range(exits) : x.phase # "body_filter")
          => sent = AllChunks

\* A denied request gets the status of the rule that denied it, or the default:
\* never one that an earlier match has left.
StatusOfDenyingRule ==
    \A x \in Denials :
        x.status # NoStatus =>
            \E a \in Range(x.rule.nondisrupt) : a.action = "status" /\ a.data = x.status

\* A rule ignored by an option, or by a match of this or an earlier phase, does
\* not run again in the transaction: the saved options carry it along.
IgnoredStaysIgnored ==
    [][AtRule /\ (NoMatch \/ Match) /\ Inherits => ran' \notin removed]_vars

\* In SIMULATE mode a request gets through all its phases, whatever matches. A
\* buffered response of several chunks is the exception: what short_circuit
\* keeps its first chunk from, it keeps the last from, too.
RunsAllPhases ==
    /\ Over /\ cfg.mode = "SIMULATE" /\ ~UsesModeUpdate
    /\ ~(cfg.buffered /\ cfg.chunks > 1)
    => \A n \in 1..4 : \/ Phases[n] = "log" /\ ~cfg.log_execs
                       \/ <<n, Len(cfg.rulesets)>> \in Range(walks)

\* "ignoring a rule in a chain will result in the entire chain being ignored":
\* whichever of its rules ignore_rule names, the chain never fires. (Where skips
\* lead to heads of chains and ids to ends: SkipsLeadToHeads, OneEndPerId.)
IgnoredChainSilent ==
    Inherits =>
        \A s \in Range(cfg.rulesets), p \in Range(Phases) :
            \A e \in DOMAIN s[p] : s[p][e].id \in Range(logged) =>
                \A k \in 1..e : IsChainEnd(s[p], k, e) => s[p][k].id \notin cfg.ignore

\* Every request comes to its end: the offsets only ever lead forward.
Ends == <>Over

\* The engine walks chain by chain.
HeadOf(rs, k) == CHOOSE h \in 1..k : /\ IsHead(rs, h)
                                     /\ \A m \in (h + 1)..k : ~IsHead(rs, m)

Walk == INSTANCE ChainWalk WITH at <- IF AtRule THEN HeadOf(rules, offset) ELSE Nil,
                                events <- ctx.log_entries

\* Through offsets, ignored rules, skips, handlers that end early and phases,
\* what the engine does is a walk over whole chains: none is entered in its
\* middle, none is left out, and a chain fires only if all its rules match.
WalksChains == Walk!Spec

\* Every skip of every ruleset leads to the head of a chain, or past the end.
SkipsLeadToHeads ==
    \A c \in Configs : \A n \in DOMAIN c.rulesets, p \in 1..Len(Phases) :
        Walk!SkipsToHeads(c.rulesets[n][Phases[p]])

\* An id names one end of a chain: no two rules that end chains share theirs,
\* unless one ruleset runs twice. (The links of a chain may share its end's.)
OneEndPerId ==
    \A c \in Configs : \A s, t \in Range(c.rulesets), p, q \in Range(Phases) :
        \A e \in DOMAIN s[p], f \in DOMAIN t[q] :
            ~Continues(s[p], e) /\ ~Continues(t[q], f) /\ s[p][e].id = t[q][f].id
                => s[p] = t[q] /\ e = f

-----------------------------------------------------------------------------

(* What the documentation says, and the code does not do.                    *)

\* "log: Event logs are automatically written at the completion of this phase"
\* (README.md:1413): all of them if event_log_altered_only is unset or the
\* transaction "was altered (e.g. a rule matched with an ACCEPT or DENY action)"
\* (waf.lua:139-142), on which "mode will not have an effect" (README.md:732).
EventsWritten ==
    /\ Over /\ logged # <<>>
    /\ cfg.mode # "INACTIVE" /\ ~UsesModeUpdate
    /\ ~cfg.altered_only \/ acted \cap {"ACCEPT", "DENY"} # {}
    => written # <<>>

=============================================================================
