# TLA+ models of lua-resty-waf

Specifications, model-checking runs and machine-checked proofs for
lua-resty-waf, the web application firewall in Lua for nginx/OpenResty, and for the
C and C++ libraries that it detects attacks with. Paths
are relative to the repository; `waf.lua` stands for `lib/resty/waf.lua`,
`socket.lua` for `lib/resty/logger/socket.lua`, the other Lua modules are in
`lib/resty/waf/`; `sqli.c`, `sqli_data.h`, `html5.c` and `xss.c` stand for
`libinjection/src/libinjection_*`, `ac_*.cxx` are in `lua-aho-corasick/`,
`entities.c` in `lua-resty-htmlentities/` and `decode.c` in `src/`.

To check one module: `tlc -config MCStorage.cfg MCStorage`; to check one proof
module: `tlapm Transaction_proofs.tla`. `PROJECT.json` lists the runs, the
definitions with the source lines they model, the hazards, the findings, the
theorems, and for each property a fault of the code that violates it.

## 1. The system

nginx calls Lua handlers in the phases of a request: `access`,
`header_filter`, `body_filter` (once for each chunk of the response) and `log`.
Each handler does `waf = lua_resty_waf:new()`, may set options, and calls
`waf:exec()`. All requests of a worker share one Lua state; a request gives way to
others only where it waits for a socket or sleeps.

| component | state | operations | talks to |
|---|---|---|---|
| offset calculation (`rule_calc.lua`) | offsets, `collection_key`s and meta lookup, written into the shared rules when a ruleset is loaded | `calculate` | the engine follows its offsets |
| rule engine (`waf.lua`, `actions.lua`, `phase.lua`) | `ctx` and the `waf` object of the transaction, saved in `ngx.ctx` | `new`, `exec`, `_process_rule`, `_rule_action`, `_finalize`, `write_log_events` | everything |
| response collections (`collections.lua`) | `ctx.buffers`, `ctx.short_circuit`, `ngx.arg` | `lookup[phase]` | filled by `exec`, read by rules |
| sieves and transform cache (`waf.lua`, `util.lua`) | `target_update_map`, `ctx.transform`, `ctx.transform_key` | `sieve_rule`, `sieve_ruleset`, `_build_collection` | called before `exec`, used by every rule |
| persistent storage (`storage.lua`, `storage/*.lua`) | a request's copies in `ctx.storage`, the flag `__altered`, tables of changed keys, and the store itself | `initialize`, `set_var`, `expire_var`, `delete_var`, `persist` | actions of rules change copies, `_finalize` persists |
| socket logger (`logger/socket.lua`) | buffers, locks, retry counters of the worker | `log`, `_flush`, `_periodic_flush` | called by `write_log_events`, runs in timers |
| ruleset loading (`waf.lua`, `util.lua`) | `_ruleset_defs`, `_meta_exception`, `_global_rulesets` of the worker | `init`, `validate`, `load_secrules`, `_merge_rulesets`, lazy loading in `exec` | calls `calculate` |
| SecRule translation (`translate.lua`) | none | `translate` | used by `load_secrules` |
| SQL injection detector (`sqli.c`, `sqli_data.h`) | `sfilter`: position, window of tokens, fingerprint, counters | `libinjection_sqli` | called by the operator DETECT_SQLI |
| XSS detector (`html5.c`, `xss.c`) | `h5_state`: state function, position, last token | `libinjection_xss` | called by the operator DETECT_XSS |
| Aho-Corasick matcher (`ac_slow.cxx`, `ac_fast.cxx`, `ac.cxx`) | the graph in one buffer, kept for the life of the worker | `ac_create`, `ac_match`, `ac_match2`, `ac_match_longest_l` | called by the operator PM, which keeps an instance for each list of patterns |
| decoders (`decode.c`, `entities.c`) | the buffer they decode in place | `js_decode`, `css_decode`, `entities_decode_html` | called by the transforms of the same names |
| operators, transforms, request parsing, address arithmetic | none, but for the Aho-Corasick cache | pure functions | called by the engine |

What makes it hard:

- **Control by offsets.** The engine has no notion of a chain. It adds offsets
  that were computed when the ruleset was loaded, through ignored rules, skips
  and chains that share ids.
- **State between handlers.** `_finalize` saves `ctx`, and `ctx.opts` in it. What
  ends a handler without `_finalize` (an ACCEPT, an error, the mode INACTIVE)
  loses or keeps older state, four to many times in one request.
- **Caching by a key.** What one rule has read of a collection is served to other
  rules, in later phases as well, if a string built from their variables agrees.
- **Copies without locks.** Two requests read a collection, change their copies
  and write them back, as a whole or by what they tracked of the changes.
- **Loading at any time.** A ruleset is loaded by `init()`, by `load_secrules()`, by the merge of
  any site's options, or when a handler first comes to it; what is loaded, and the tables
  made from it, are shared by all requests, and what failed half way stays.
- **Cooperative concurrency.** `log()` and timer callbacks run while a flush waits
  in connect, send or sleep, over module variables they all share, with nested
  retry loops, and a worker that may be told to exit.
- **Positions by hand.** The detectors in C walk over bytes with indices of their own:
  tokenizers whose states call each other and step back, a window of tokens
  that some forty rules shrink and move back, a graph whose states are found
  by adding the place of a byte among its siblings to a number, decoders that write
  over what they read.

What makes it correct is stated component by component in section 3.

## 2. Plan

| order | modules | state |
|---|---|---|
| 1 | `Rules`, `RuleCalc` | modelled, checked, proved (in `Transaction_proofs`) |
| 2 | `ChainWalk` (abstract), `Transaction`, `Transaction_proofs` | modelled, checked, all proved but for liveness; refinement proved |
| 3 | `LogChannel` (abstract), `SocketLogger`, `SocketLogger_proofs` | modelled, checked, proved; refinement proved |
| 4 | `Storage`, `Storage_proofs` | modelled, checked, proved |
| 5 | `Collections`, `Collections_proofs` | modelled, checked, proved |
| 6 | `AhoCorasick`, `AhoCorasick_proofs` | modelled, checked, proved |
| 7 | `Text`, `Html5`, `Xss`, `Xss_proofs` | modelled, checked, proved |
| 8 | `Decode`, `Entities` | modelled, checked, with the run of `Xss` |
| 9 | `SqliData`, `SqliTokens`, `Sqli`, `Sqli_proofs` | modelled, checked, all proved but for liveness |
| 10 | `RulesetDefs`, `RulesetDefs_proofs` | modelled, checked, proved |

`RulesetDefs` ends where `Transaction` begins: with the rulesets that a handler goes over. It
does not `INSTANCE` `Transaction`: what the two share is an id that is removed, which
is the configuration's choice there, and the table's contents here.

What is composed: `RuleCalc` and `Transaction` share `Rules`, the engine following the
offsets that the loop is shown to compute; `Transaction` implements `ChainWalk` and `SocketLogger`
`LogChannel`; `Xss` runs `Html5`, `Sqli` runs `SqliTokens`, which reads `SqliData`.
`Transaction` leaves open what a rule matches, so the detectors are not composed with it: nothing
in the engine depends on more of them than their verdict.

## 3. The modules

### Rules, RuleCalc: offset calculation

`Rules` says what a ruleset is (a sequence of rules; a chain is a run of
`CHAIN` rules and the rule that ends it) and defines, without a loop, the offsets
a rule should have: `Offsets`. `RuleCalc` is the loop of `calculate()`: `Step` for a
rule that continues a chain (`Gather`) or ends one (`Close`, `CloseWithSkip`), which
writes the offsets of the whole chain (`_write_chain_offsets`, then
`_write_skip_offset`).

- `CalculatesOffsets`: when the loop is done, the offsets are `Offsets`.
- `NoMatchReachesNextHead`: from any rule of a chain a failed match leads to the
  head of the next chain, or out of the ruleset if none follows. (Not for the
  skips at the end of a ruleset: see the property.)
- `SkipLandsAfterTarget` (proved, not run): a skip lands where the rules of skip and
  skip_after say.

Run `rule_calc`: every ruleset of up to four rules (the bound in `MCRuleCalc.cfg`) over
two ids, chain links, plain rules with skips of 0, 1 and 3, and skip_after to ids
before, after and absent, and to the rule itself. Four rules hold two chains, a chain of
two in the middle, and skips across, into and past a chain; what depends on more is
proved.

### ChainWalk, Transaction: the rule engine

`Transaction` is one request: `stage` is the phase nginx is in, `chunk` the chunk of
the response, `waf` and `ctx` the two tables, `saved` whether `ngx.ctx` refers to
them. A handler starts in one of the actions `Exec...` (`ExecInactive`,
`ExecAltered`, `ExecShortCircuits`, `ExecBodyFails`, or `ExecRuns` into the rule loop)
or `LogHandlerWrites`. The loop does `Ignore`, `NoMatch`, `MatchContinues` or
`MatchExits` at each rule, and ends in `NextRuleset` or `ExecFinalizes`. Whether a rule
matches is a free choice. Rules differ in what the engine reads again: the
disruptive action, skips, `nolog`, and the nondisruptive actions `status`,
`mode_update`, `rule_remove_id`, `rule_remove_by_meta`.

`ChainWalk` is the abstract view: a position at heads of chains only; each step takes
a chain or leaves it. `WalksChains` is the refinement: `Transaction` implements it
with the position mapped to the head of the chain at hand.

- `DeniedStops`: after a DENY no later handler runs rules, and no transaction is left
  alone that was not denied.
- `EventsReported`: what was logged over four handlers is written in the last,
  complete, in order and once, if the option asks for all events or a rule with one of the code's
  altering actions, DENY and DROP, has matched (`acted`: what matched, and not the flag
  `ctx.altered`, which has to come through all handlers). It excepts a transaction that a handler
  left before anything of it was saved (`Forgotten`; each exit records in `kept` whether it did),
  and a log handler that does not come to where events are written (`LogCompletes`). The
  documentation knows none of these exceptions, and has ACCEPT among the altering actions: the
  run `events_written` (section 4) checks what it says.
- `ResponseIntact`: the client gets every chunk once and in order.
- `StatusOfDenyingRule`: no earlier rule's status is sent with a denial.
- `RunsAllPhases`: in SIMULATE mode all phases run, whatever matches.
- `IgnoredStaysIgnored`: ignored rules stay so over handlers.
- `IgnoredChainSilent`: ignoring any rule of a chain silences the chain. This is said of
  rulesets whose skips lead to heads of chains (`SkipsLeadToHeads`: a skip into the middle of a
  chain starts behind the ignored rule) and in which an id names one end of a chain
  (`OneEndPerId`: what is logged is an id, and another chain may end in the same; `validate()`
  is what keeps them apart, see `InitGuards`). `MCTransaction` assumes both of its rulesets, and
  TLC evaluates that.
- `WalksChains` (refinement) and `Ends` (liveness).

What is proved about it, for every deployment, is in section 5.

Run `transaction` joins two families of configurations. *Walks*: every access
ruleset of up to four rules (chain link, logging, denying, skip, skip_after), of those
whose skips lead to heads of chains, followed by a second ruleset, with and
without an ignored rule, in ACTIVE and SIMULATE. *Phases*: up to two access rules out of
eight that affect later phases, three sets of rules for the later phases, all
modes, three settings of options, log handlers that exec and that only write
events, and responses of one chunk, of two buffered and two unbuffered. Two chunks
show both what `short_circuit` holds back and what it lets through; a third would repeat
the first.

Fairness: `WF_vars(Next)`. nginx runs a handler to its end, and the engine waits for
nothing that may stay away. `Ends` then says that offsets lead out of the
rules.

Assumed: handlers as in the synopsis of the README (lines 225-270), options set in
access only; `exec()` without `opts.phase` and `opts.collections`; `ngx.exit` ends the
handler, except in header_filter, where it may return. A rule without a
disruptive action behaves as one with `IGNORE`.

### RulesetDefs: loading rulesets

A worker and its requests. `init_by_lua` makes the calls of the deployment in their order:
`ValidateLoads`, `ValidateFails` (one ruleset of `validate()`'s loop each) and `InitEnds` are
`init()`, `LoadSecrules` the other call; then `WorkerStarts`. A handler's `exec()` begins
with `ExecGlobal`, or with a merge of what its site adds, defines and ignores
(`ExecMerges`, `ExecMergeFails`), and takes its active rulesets one by one: `RunsRuleset`,
`LoadsRuleset` at first use, `LoadFails`. Between two rulesets a handler may
wait in a rule, so that others load. `metas` stands for the tables of msgs and tags that
`calculate()` fills, `meta_ids` for the exceptions made from them: `build_exception_table` says
which rule's entry stays where several have an id, and `BuildRaises` that a rule without id
raises an error, after part of the entries. `unbuilt` remembers what was loaded without the
table being built.

- `ExceptionsBuilt`: a rule's exceptions remove what they name in every ruleset that is
  loaded, whichever came first.
- `InitGuards`: in a worker that `init()` let start, all distributed rulesets are there, and no
  id stands for two rules, but for links of one chain.
- `RunsItsRulesets`: a handler that returns ran the rulesets of its site, in order and
  as one of the sources of that name has it, each once unless the distributed list names one twice.
- `DiesOfItsOwn`: a handler fails only for what its own site adds, for a distributed ruleset
  when no `init()` has looked at them, or for a rule without id that removes others. A file
  that is missing or unsound is not a site's fault if the site ignores the name or has a string
  for it, or if a translation has the name.
- `DefsKept`: no ruleset is replaced under a handler.

Run `ruleset_defs`: two or three files, each of six kinds (with a tag, removing by tag, both in
two phases, a chain, an id that two rules have, unparsable) or missing; no calls, `init()`, and
`load_secrules()` before or after it; four pairs of sites, in which a site adds what it ignores, or a
name that another defines in a string, or that one file and one string have; a distributed list that names a ruleset twice; two requests that go to either. Two
requests are the least for which one loads while the other runs, and two phases, two rules
and two tags for the order of entries to matter. The worker may stop: nothing has to come to
it.

Assumed: `load_secrules()` in init_by_lua, with its errors caught, as in the README (lines
279-301), and with names that no distributed ruleset has, each once; `init()` as it is called
there. Files do not change while the worker runs. Names are numbers, in the order in which
`table.sort` has the names; a site adds and defines finitely many.

### LogChannel, SocketLogger: the socket logger

One worker. A coroutine of `Timers` runs `_flush` for a timer, `Ticker` runs
`_periodic_flush`. An action is what a coroutine does between two waits: `TimerFires`
and `PeriodicFlushes` up to the first connect (with `_prepare_stream_buffer`),
`ConnectFails`, `Connected`, `SendFails`, `Sent`, and the ends of the two
sleeps. `LogBuffers`, `LogFlushes`, `LogDrops` and `LogExiting` are the branches of
`log()`. `timer_at` may fail, and `WorkerExits` at any time.

- `OneFlusher`: one flush at a time, and the `connecting` flag never refuses one.
- `NothingLost` (proved, not run): accepted = confirmed, then send buffer, then log buffer.
- `BufferAccounted`: `buffer_size` is the size of both buffers.
- `WithinDropLimit`: bounded memory while the worker does not exit.
- `IsChannel`: the logger implements `LogChannel`, a queue that takes messages, and
  confirms a prefix.
- `EverythingArrives` (liveness): with a periodic flush, what was accepted is confirmed
  in the end.

Run `socket_logger`: messages of one and two bytes against a flush limit of 2
and a drop limit of 3, three calls of `log()`, two timers and the periodic one, one
retry. So a message can fall short of, meet and pass each limit; two timers are needed
for a flush that finds another; one retry for both sides of each retry loop; and the
third call comes at any point of the flush that the second began.

Fairness: timers fire, sleeps end, and connect and send return (all have
timeouts). `timer_at` is never *due* to fail. `EverythingArrives` adds `SF` on
`Connected` and `Sent`: a server that can be reached again and again. It excepts
a worker whose periodic timer could not be set again.

Left out: the checks of options in `init`, TLS sessions, udp, `last_error`,
`flush()` called from outside; a send that reaches the server in part counts as
failed, and what the server receives twice is not in the model.

### Storage: persistent collections

Requests that share collections, over one backend chosen at the start. `InitCol`
reads a collection (`InitColFails`: the read fails and the copy is empty);
`SetVar`, `IncVar`, `SetMacroVar`, `ExpireVar`, `DeleteVar` change copies
(`SetMacroVarNowhere` only the rule: setvar expands its key before it is asked whether the collection is
there); `Begin`, `Exits`,
`Finalize`, `FinalizeEnds` are the handler around them; `PersistWhole` is what dict
and memcached do, `SendPipeline`, `RunHdel`, `RunHmset` what redis does, one
command at a time between those of others. Connections fail at every one of these steps.
`InitColDies` and `PersistDies` are the errors of a handler without sockets. A shared dict that needs
room drops a collection at any time (`Evict`).

- `CopiesPersisted`: at the end of a handler, what a request has is what is
  stored, unless another has written since or the dict has evicted it, a connection failed, or redis
  is not sent it (`Unsent`, which spells out what that is).
- `KeepsOthersKeys`: a field that a request's rules did not touch changes only where
  a stale or unread copy is written back whole (dict, memcached), or a key of the same
  name in another collection was touched (redis), or as the dict evicts it.

Run `storage`: two requests, one with two handlers and three actions, one with one and
two; one collection beside TX; two keys; all backends; every failure. One shared
collection suffices: what is mixed up on redis is shown with TX. The two requests'
rules differ, so that one sets, expires and deletes what the other counts.

Assumed: a collection is initialized once a request; setvar with inc adds a number;
the requests run in one worker, as far as shared rules are concerned. The
`set_var` option and keepalive are not modelled.

### Collections: sieves and the transform cache

One transaction: sieve calls before any of the handlers' `exec()`, then the rules,
variable by variable. `rulesets` are all that the worker has loaded, which is where `sieve_rule`
looks for a rule; the first `active` of them are run. `SieveRule`, `SieveRuleset` (and `SieveRuleDies`) change
`target_update_map`; `Exec` fills the collections of the phase; `Match` and `NoMatch` read
a variable through the cache (`Read`) and move on by `Offsets`; `VarDies` is a variable
that sieves have left nil. A collection is a set of entries of key and value; a
pattern is the set of keys it finds; a transform is its name. What else a match
does is in `Transaction` and `Storage`.

- `ReadsFresh`: what is served from the cache is what the rule would read itself.
- `SievedUnseen`: what a sieve excludes is not shown to the rules it names.
- `SievesOnlyTheirs`: nothing else is hidden from any rule.

Assumed: rules as the loader leaves them, each with a variable and with the keys that
`calculate()` gave, and rulesets of one name are one (`ConfigsAssumption` and the others).
`RulesInTime` is what the theorems suppose beside that: a rule reads what its phase, or one
before it, provides. The code does not check it, and needs it: a variable that is read too early
is kept as nil, and is nil to all rules of the later phases as well.

The properties except what the code does not support (section 4):
sieve_ruleset after other calls (`Orderly`), and sieves of chains, whose links
share their id (`SievesApart`). `MATCHED_VAR` is excepted too.

Run `collections`: any two sieve calls out of three lists of sieves, five ids and four
rulesets, before any handler; rules in two phases that read the same collection in
seven ways (all, values, keys, a key, a pattern, a count, with an exclusion of
their own), transformed and not. Two calls are the least that can get in each other's
way.

### AhoCorasick: the multi-pattern matcher

`Construct` is the graph of `ac_slow.cxx`: states are the prefixes of patterns,
a byte leads from one to the word with it behind, and `FailLinks` makes the links depth by depth,
as the queue of `Propagate_faillink` does. `Convert` is the buffer of `ac_fast.cxx`: states numbered in
breadth-first order, of which only the first kid's number is kept, the table of the
root, and the sizes that place the states in the buffer. The actions are the
calls, on an instance that is kept, and the turns of the loop of `Match_Tmpl`:
`SkipToFirst`, `Advance`, `FollowFail`, `FailToRoot`, `LoopEnds`; `Settle` is what the end
of each turn does with the state it has come to. `SearchInput` is the binary search, over as many inputs
as `goto_num` says, an unsigned char: `FanOutAssumption` is that no state has 256 inputs, and the
root, whose table has 255 as a case of its own, fewer than that.

- `FastIsSlow`: the buffer finds what the graph finds, which is what a VERIFY build asserts.
- `MatchIsPattern`: what is reported is the pattern of the index reported.
- `LongestCoversFirst`: the longest variant finds something whenever the first does, and
  never less.
- `TypeOK` has the assertion at `ac_fast.cxx`:171, that the states fill the buffer.

Run `ac`: every dictionary of two patterns of up to three of two bytes, and some more
of up to five patterns over three bytes and the empty one, over every subject of up to four of three bytes,
called again and again. Two patterns show every way of sharing a prefix, of one within
the other, and of fail links of depth 1 and 2. `LinearMax`, 8 in the code, is 1, so
that the binary search is what most states use; 8 only moves that border.

### Text, Html5, Xss: the XSS detector

`Text` has what both detectors do with characters: a text is a sequence of them, the end
of which reads as NUL; bytes from 128 on are one, `HIGH`. The detector's white characters are a blank, the newline, which values
skip, and NUL. `Html5` is the tokenizer, one
operator for each state function, from a text and an `h5` to the next `h5`; a state that
calls another is an operator that uses another. `before_attribute_name` and
`self_closing_start_tag` call each other, over white characters and slashes, as often as the
text has them: `BehindSlash` is what the second returns at each position, `InTag` the first, given
that. `Xss` runs the tokenizer in the five contexts:
`TokenBanned` and `TokenPasses` for each token, `NextContext` and `Benign`. Its operators are
the black lists and the decoder of character references. `HtmlencodeStartswith` is a function of
the position in the value, to what the loop returns with each number of characters of the word
behind it.

- `TokensInOrder`: tokens follow each other without overlap, and the tokenizer moves on
  or changes its state with each.
- `UrlStartsRight`: values are decoded within their bounds, though the count `n` is
  unsigned and the decoder does not look at it; and the words for URLs are found
  exactly where the decoded value starts with them, by a definition (`DecodedStart`) that takes
  the codes of the whole value (`Decoded`), those left from the first above 32 on, in capitals
  and without 0 and 10 (`Seen`), and asks whether the word is a prefix of them.
- `TypeOK`: no position or length leaves the text.

Run `xss`: every input of up to three of thirteen characters, those the states tell apart;
every sentence of four out of ten pieces, which reaches each state of a tag and its
attributes from each other; and one input for each of the longer constructs
(comments with NULs, CDATA, doctype, references at the limits of their range, newlines in and
around values). On all of these texts, 13,733, the verdict of the model is the compiled library's.

### Decode, Entities: decoders in place

`js_decode`, `css_decode` and `entities_decode_html` as functions of a sequence of bytes:
`JsStep`, `CssStep` and `EntityStep` say how many bytes a turn of the loop takes and
which it emits. `Entities` has the table of names, UTF-8, and `strtoul` with its 64 bits, which takes white
characters, a sign and `0x`, and negates modulo 2^64: `&#x-fffffffffffffff6;` is a newline. The
table is sorted by its bytes and each name in it ends with a `;`, so that the binary search for a name the rest
of the buffer begins with finds what `get_named_entity` says.

- `DecodersUndoEscapes` (`MCXss`): in each form of escape, what was escaped comes back; a
  reference is decoded to the UTF-8 of its code point from decimal and hexadecimal
  numbers, from those that wrap around to it, and from each name of the table; the output never gets ahead of the input.

It is checked in run `xss` for its inputs of up to three characters, so with every
three of eleven characters that belong to escapes, or are white, around every reference; the code points are the
limits of each length of UTF-8.

### SqliData, SqliTokens, Sqli: the SQL injection detector

`SqliData` is the table of parsers by character (`AsciiParsers`, the characters of each
parser, and `HighParsers`; `char_parse_map` is the inverse), and the keywords. `SqliTokens` has one
operator for each `parse_...` function, from the text, the position and the flags to
a token, the next position and the two counters of comments. `Sqli` is what runs them: a
pass in each context reads the text (`tokenize`), folds the tokens and looks up their
fingerprint. `Skip`, `FoldFive`, `FetchTwo`, `SettleTwo`, `FoldTwo`, `FetchThree`, `SettleThree`,
`FoldThree`, `Finish` are the parts of the loop of `libinjection_sqli_fold`, one step for
each token read or rule applied; `left`, `pos`, `more`, `last_comment` are its variables. The
rules stand in their order, as chains of alternatives (`MergeRules`, `RetypeRules`,
`DropRules`, `ThreeTokenRules`); an `Outcome` is the window a rule leaves behind. `Fingerprint`
and `Check` are the verdict of a pass and the choice of the next.
The tokens at each position are computed once, in `reads`, since they depend on the text
alone.

- `TypeOK`, with `Window`: fold never reads or writes outside its array, and every token starts
  in the text and fits its buffer.
- `TokensInOrder`: tokens begin in the order of the text, and the comment that is
  remembered for the end begins before none of them. Nothing is said of where they end: a rule
  that drops one of two tokens copies the second over the first and takes the last token off,
  which are the same only at the end of the window. In `1 INT IN A+1+B` the pair `INT IN` has been
  passed by when `IN` is retyped before `A`; a later rule takes `left` back to 0, the rule for a type and
  a bare word now applies with `A` behind the pair, and what is left is `1`, `IN`, `IN`. The library
  does the same.
- `StringsCloseRight`: a string ends where its definition says, which counts runs of
  delimiters and backslashes, not as the code does it.
- `Decided` (liveness): every text gets a verdict; no rule undoes another for ever.

Run `sqli`: every text of up to three of fifteen characters, one for each parser and
context; every six of a quote, a backslash and a digit, for strings; sentences of
four out of two sets of pieces and of three out of a third, for what rules do to what
others have left; and one text for each rule and parser these do not reach, in both
cases of letters where the parsers mind it. Fairness: `WF_vars(Next)`, a call runs on.

Numbers, dollar tags and the like end where `strlenspn` says, and that goes on over NULs
(`strchr` finds the end of the characters accepted); the run has a text for each parser that uses it.

The operators and the loop were compared with the compiled library: on all texts of the
run, 10,425, the model gives the library's fingerprint and verdict.

## 4. What the source says and does not do

Each is shown by a run that is expected to find a violation. `events_written` joins three sets of
configurations (`MCTransaction`), of which each by itself violates `EventsWritten`, for its own reason;
TLC stops at the first it finds.

| run | the source says | what happens |
|---|---|---|
| `events_written`, set `Simulated` | a transaction is altered by "acting on a rule whose action is `ACCEPT` or `DENY`", the mode has no effect on it, and its events are written (README:720, 732; `waf.lua`:141) | only DENY and DROP alter (`actions.lua`:10): in SIMULATE mode, with `event_log_altered_only`, no event is written after an ACCEPT |
| `events_written`, set `Enforced` | all events are written if the transaction was altered or the option is unset (`waf.lua`:139) | an ACCEPT ends its handler without `_finalize` (`waf.lua`:208): what it has logged is lost, and so are the options |
| `events_written`, set `Buffering` | events are written at the completion of the log phase (README:1413) | `short_circuit` of a buffered response's first chunk is never taken back: neither the body_filter rules nor the log phase run |
| `keys_of_the_request` | dynamic data is picked out of storage key definitions (`util.lua`:123) | setvar writes the expanded key into the shared rule |
| `ac_finds_matches` | a negative begin means that the subject matches none of the patterns (`ac.h`:9) | a pattern inside the beginning of another is passed by: the loop looks at the state it is in, and not along its fail links |

Behaviour of the same kind without a run of its own, named where the model has it.
The properties of the passing runs except it, in the definitions given.

- `MATCHED_VAR` is "the most recent match" (`waf.lua`:339), and is kept in `ctx.transform` like
  the collections of the request (`waf.lua`:261): the first one read is what all later rules of
  the transaction are given (`Read` in `Collections`).
- The exception table is built "when a new ruleset has been introduced to _ruleset_defs"
  (`waf.lua`:83); `load_secrules()` introduces one and does not build it (`waf.lua`:853,
  `unbuilt` in `RulesetDefs`).
- A rule without an id "is not an error" (`util.lua`:220); if its exceptions name a rule,
  `meta_ids[rule.id]` is assigned with the id nil (`util.lua`:494), and whatever builds the
  table raises an error (`BuildRaises`, `Nameless`).
- `add_ruleset_string` adds the ruleset in the string (README:578); when its name is registered
  already, by another site or a file, that is what runs (`waf.lua`:455, `NewStrings`).
- Ids may be reused "across independent, mutually exclusive locations" (`waf.lua`:417); the
  exception table has one entry for an id, that of the rule it comes to last (`Alone`).

Smaller ones: the comment at `xss.c`:278 says that vertical tabs are ignored, the code skips 10, the
newline (`HtmlencodeStartswith` in `Xss`); `strlenspn` is described as the pattern of its accepted characters
(`sqli.c`:155), and goes on over NULs, too (`strlenspn` in `SqliTokens`); in mode
INACTIVE no options are saved (`Inherits` in `Transaction`); without
`periodic_flush` a flush that failed is not made up for (`socket.lua`:265); on redis an
expirevar alone is not sent, and a key set and then deleted is set (`Unsent` in `Storage`); a
negative counter on redis comes back as a string (`AsRead`, `IncVarDies` in
`Storage`); the map of sieved variables is indexed with the caller's id, and looked up with
the rule's, which may differ in kind (`Id` in `Collections`, `waf.lua`:888);
sieve_ruleset goes over all rules sieved before (`Orderly`, `waf.lua`:967); a
second `sieve_rule` for a rule raises an error (`SieveRuleDies`), and sieves
overwrite the rule's own exclusions (`Overwritten` in `Collections`).

## 5. What is proved

Theorems, for every value of the constants, are in `Transaction_proofs`,
`RulesetDefs_proofs`, `SocketLogger_proofs`, `Storage_proofs`, `Collections_proofs`,
`AhoCorasick_proofs`, `Sqli_proofs` and `Xss_proofs`. Those of the first and of `Collections_proofs`
begin with the lemmas on chains and offsets that they use. Where a lemma is by induction, it is an argument about the least number
for which it fails, a position, a length or a cardinality (`NatLessThanWellFounded`).

**RuleCalc** (in `Transaction_proofs`, with which it shares the lemmas on chains and offsets), for
every set of finite rulesets. The inductive invariant, `CalcInv`, says, beside the types,
that `chain` is the run of links before the rule at hand, that the offsets of all
chains closed so far are those of `Offsets`, and that those not yet closed are
unset. It is needed because `calculate()` writes a chain's offsets only when it ends: in
between, nothing about its rules holds that the final property could be read
off. A step either extends the run, or closes it and writes the offsets of exactly
the rules in it. At the end nothing is open but a chain the ruleset breaks off in,
which is to have none. `NoMatchReachesNextHead` and `NilOnlyWhenNothingFollows` follow from
`CalculatesOffsets` and lemmas on chains and their ends, `SkipLandsAfterTarget` from the
invariant itself: it also has what `rule.skip` is once skip_after was resolved. Assumed: `RuleCalc`'s
assumption on rulesets, that they are sequences of rules.

**Transaction**, for every deployment: any number of rulesets, rules, chunks and options that
the assumption `ConfigsAssumption` admits (the shape of a configuration, nothing about what
rules do). The properties relate handlers that run one after the other, and what one
hands to the next depends on whether it has saved its tables. So each invariant has two
parts, one for a handler in its rules and one for between handlers, about the tables that the
next handler will read. `TypeInv` adds to the types where stage and chunk may be; `DenyInv` what a
recorded denial has left in the saved context; `StatusInv` that each denial has its own rule's
status; `IgnoreInv` in which of the two tables removed ids are; `ResponseInv` which chunks
are sent, held, or at hand. From them follow `DeniedStops`, `StatusOfDenyingRule`,
`IgnoredStaysIgnored` and `ResponseIntact`. A second layer is about the end of the
transaction: `ShortInv` says when `short_circuit` can be left set (which is why
the set `Buffering` of `events_written` needs more than one chunk), `WalkedInv` which phases have been gone
through, `EntriesInv` and `OnceInv` where the entries of the event log are; from them follow
`RunsAllPhases` and `EventsReported`, with `AlteredInv`: that a rule with an altering action has matched
is in the tables the next handler will read, unless an exit has left them behind. A third is the refinement, `WalksChains`: under
`SkipsLeadToHeads`, that each skip leads to a head or past the end, which the
theorem has as its hypothesis, every step is one of `ChainWalk` or a stutter. The lemmas on
offsets say where offsets lead from a link and from the end of a chain; `WalkInv` keeps
the walks in the order of phases and rulesets. `IgnoredChainSilent` needs that a rule is
only reached through the rules of its chain before it, and that none of these was ignored, and that
what is logged are ends of such chains (`SilentInv`); from the id that was logged to the
chain that logged it leads `OneEndPerId`, the theorem's other hypothesis. Both are properties of
rulesets that `MCTransaction` shows to be satisfied by all of its own.

**RulesetDefs**, for every deployment that the assumption on `Configs` admits (the ones named
in section 3), any number of requests and any order of loading. `ExceptionsBuilt`
is about what the table should hold, and the code computes it from lookup tables that grow
ruleset by ruleset and are never emptied. So `MetasInv` says that they hold exactly the metas of
what is registered. That holds only if nothing registered is replaced by something else,
which during init_by_lua depends on what is yet to be called (`StartInv`): translated
rules have new names, and `init()` loads the same files again. `Loading` is the lemma that all ways
of loading use, with its three outcomes: the table built to its end, broken off by an error,
and not built. `Enters` finds, for a rule whose exceptions name something, the last rule with its
id that makes an entry.

The others follow from a second invariant, `LoadsInv`. `SourcesInv`: what is registered under a name
is one of the things that name can stand for. `GuardInv`: what `validate()` has gone over
without an error is registered, has ids of its own, and they are in its registry; `InitGuards` then
is about rules of which one ends a chain (`OneIdOneChain`: two rules of one id in a ruleset that
passed are links of one chain, since each chain has its id checked once). `TranslatedInv`: a translation
that can be loaded is registered, or has its call to come. `HandlersInv`: a running handler has come as far in
its list as it has run rulesets of that name, and a dead one had a reason. `SortedIs` says what
sorting the merged list gives, by least counterexample on the number of names. The proof found
that `DiesOfItsOwn`, as it was stated and checked before, did not hold of all deployments: a site
that adds a name which another site defines, or which `load_secrules()` could not translate, was not
covered. Its definition of a site's own fault now is, and the run has such sites.

**SocketLogger**, for any limits, messages, number of timers and retries, with
and without periodic flush and failing timers. None of the safety properties is
inductive by itself: that bytes are not lost depends on the packet being the
send buffer, this on there being one flusher, and this on where each
coroutine waits and on the two flags. The invariant is their conjunction, with
what the retry counters and the periodic timer may be while a coroutine runs. Every
action is a step of the proof. `Refinement` then shows that each step is one of
`LogChannel`: `Sent` confirms a prefix, `log()` accepts, all others stutter. Assumed: the
constants' assumptions, which `init()` checks in the code.

`PacketStable`, that the send buffer does not change while its packet is sent, is a part of
the invariant that is worth a theorem of its own.

**Storage**, for any number of requests, collections, keys, actions and handlers, on each backend. The
invariant is, beside the types, of each request by itself (`CopyInv`), since all that a request learns of the others
is that its copy is stale: `ReqInv`, that it sends what it has changed; `WholeInv`, that on dict and
memcached an up-to-date copy differs from the store only in what the request changed and flagged;
`TrackInv` and `SentInv`, that on redis the tables of set and deleted keys say what became of
each changed field, and how far a pipeline that is half way has brought it. A request's own steps are gone
through one by one. Those of all others are one lemma (`OthersKeep`): they leave the copy alone, and make it
stale where they write what it has read. `CopiesPersisted` is what the invariant says at the end of a
handler, `KeepsOthersKeys` is proved for each command that writes.

**Collections**, for any deployments, responses and sieves that the assumptions admit. `CacheInv`
says that what is kept under a key is what the variable spelled out in the key gives now, with the key's
transform: the key has everything that matters, and a collection stays as it is once its phase
has provided it. That the rule at hand has the key of its variable is in the types of loaded
rules, and for a sieved rule in `MapInv`: its entry in the map is its own variables
after the sieves of the one call that names it, which is where `Orderly` and `SievesApart`
are needed. `SievedIs` says what the sieves of a call leave of each variable, by least counterexample
on their number. The theorems on reading and sieving have the hypothesis `RulesInTime` (section 3),
which the rulesets of the run satisfy. Without it `ReadsFresh` is
false, and no run with rules in time would have shown it.

**Sqli.** `WindowKept`, for every text and whatever tokenize returns, so for every fingerprint and
keyword too: the window of fold stays in its array. That is what makes the array of
eight tokens enough in `sqli.c`, where nothing checks an index. The window alone is not
inductive: fold starts with an empty one (`skip`), and ends with a closed one (`finish`).
Each group of rules is a lemma, that with the two or three tokens it is tried on it
leaves an `OutcomeOK`, a window that the loop goes on with; the steps follow from that.

`TypeCorrect` and `Order` are for every text of characters, of any length. They need what tokenize
returns. For each parser there is a lemma that it returns a token which starts where the parser
was called or later, ends where it stops or earlier, and that it stops further on, in the text
(`ReadOK`); `ParserIs` that every character has a parser, so that `ParseOK` and `TokenizeOK` hold. The loops of
the parsers are searches, of which `FirstIn`, `SpanIn` and `FirstWordIn` say what they find, but for
the one that looks for the quote which closes a string: it goes on from quote to quote, past those that are
escaped or doubled, as a recursive function. `GoesOn` shows that there is one and `StopsLater` where it stops,
both by least counterexample. Then `TokensInv`: what `tokenvec` holds are tokens of the text
(`SlotsInv`), in its order up to `pos` and not behind the tokenizer (`OrderInv`), and the fingerprint
fits (`FingerprintInv`). Each group of rules is a lemma again: it leaves in the window only tokens
that were in it, in their order (`KeptOK`). The proof found that tokens may overlap: until then
`TokensInOrder` said that they do not, and the run had no text in which they do. It has one now
(section 3), and the property says what holds.

`StringsClose` is `StringsCloseRight` for every text. The code finds the end of a string by stepping
from delimiter to delimiter, over escaped ones one by one and over others in pairs; the property counts
backslashes and runs. `ClosingIs` shows that the two agree, by least counterexample on where the
search goes on: it passes no end of a run of odd length, and comes into each first one at its
beginning. With it each parser returns a string that closes right, or no string (`ClosesRight`), and no
rule of fold leaves one that does not (`ClosedInv`): a rule copies whole tokens, or gives one a type
that is not a string's, and no merged word has one.

**Xss**, for all sets of finite texts (`InputsAssumption`). `TypeCorrect` and `TokensFollow` need
an invariant about what a state counts on when it is entered (`Ready`): `tag_open` and
`self_closing_start_tag` step back to the character before the position, `tag_name_close` takes it that it
is at a bracket, and a quoted value is skipped a character ahead unless the text begins in it. For each
function of the tokenizer a lemma says (`Returns`) that it returns a token behind all those before, in the text, goes on
or changes its state, and hands over to a state that is ready. `SlashIs` shows that the two functions which
call each other have a value at each position. A step then is one of these functions, and the
invariant holds in all five contexts.

`UrlsFound` is `UrlStartsRight`. That a value is decoded within its bounds is not a matter of the
decoder, which does not look at them, but of the tokenizer: behind each value stands a quote, a white
character, a bracket or the end of the text (`EndsValue`, a part of `Returns`), and none of these is a digit
or the `x` of a reference (`DecodeIn`). Words need the loop of `htmlencode_startswith` and the definition to agree, both
recursive, over places that the loop comes to in steps of the length of a reference. `Recursion` says that a
function which is defined at each place from its value at a later one exists, and `Descent` that what holds at
the last place, and at each when it does at the later one, holds at all; both by least counterexample.
From them follow `DecodedIs`, `SeenIs`, `CompareIs` and `FirstIs`, the recursive definitions as
equations, then `CompareMatches`, what the loop returns at each place, and `WordFound`.

**AhoCorasick**, for all sets of non-empty patterns and all subjects over any bytes, and any border
between the two searches (`ByteAssumption`, `TextAssumption`, `LinearMaxAssumption`), provided no state has more inputs than its
counter holds (`FanOutAssumption`). Most of the work is in
what the recursive functions compute, each by least counterexample:

- `LinksAre`: the fail links, made depth by depth, lead from a state to a shorter end of it that is
  a state. `FollowIs` is the walk down the chain of links.
- `OrderIs`: the work list, which grows as it is read, has each state but the root once, and the kids of
  a state next to each other from `FirstKid` on. A set of bytes has one enumeration in order (`Sorted`).
- The length that `Alloc_Buffer` is given is a sum over the states in no order, the end of the last
  state one in the order of the list; `SumOne` says that the sum may begin with any summand, and `OffsetIs`
  that the two agree.
- `SearchIs`: the search by halves finds what the search one by one does, the place of the byte or none.
- `MatchIs`: what the slow matcher finds from a place in the subject and a state. The graph that it goes
  through is that of the walk, so that its turns are equations.

From these follows what each state of the buffer is (`NodeIs`, `BufferIs`), and `TypeCorrect`. The
invariant, `IInv`, says of a walk which word of the slow graph its state is, and that this
word is the end of what was read (`ReadsWord`); that a pattern this word is was reported already;
and that until something is reported the slow matcher finds the same from the place and the
state of the walk as from the start of the subject. The one exception it needs is in the
code, too: when no byte is left that begins a pattern the state stays as it was though the subject was skipped, so
that the word is then not what was read. `Settle` looks at that state again; it reports nothing, because its pattern,
if it has one, was reported at the latest when the state was entered, and is no longer than what is kept. Hence
`MatchesArePatterns`, `FastFindsTheSame`, and `LongestCovers`.

Proved and in no run: `SkipLandsAfterTarget`, `NothingLost`, and the type invariants of
`RuleCalc`, `Transaction`, `SocketLogger` and `RulesetDefs`. The type invariants of the other
modules are checked.

Only model-checked: liveness (`Ends`, `EverythingArrives`, `Decided`), which needs `ENABLED`, that
the provers cannot treat; and the decoders (`DecodersUndoEscapes`), whose property is about finitely many
code points and every name of the table, all of which the run evaluates.

## 6. Not modelled

- `operators.lua`, `transform.lua`, `request.lua`, the parsers: pure functions over
  strings and tables; what they return is left open where it matters (a rule matches or
  not). What the operators and transforms call in C is modelled.
- Of ruleset loading: JSON and the search for files, the warnings about rules without id, and
  exceptions as patterns (an exception is found in a msg or tag, or not).
- SecRule translation: a compiler without state, whose output is what `RulesetDefs` loads;
  to check it would take a model of ModSecurity's language to check against. Address
  arithmetic: bit operations on strings.
- Of the matcher: empty patterns, 255 and more bytes that begin a pattern, 256 that lead on from
  another state (its counter would be 0), more than 2^16 patterns or states, allocation, the Lua binding (`ac_lua.cxx`), dumps.
- Of sieves: rulesets that are loaded after the sieve calls.
- Of the SQL injection detector: fingerprints that the inputs do not have, most bytes from 128
  on, the count of `@`, `stats_folds` and `reason`, which nothing reads, a lookup function
  set by the caller.
- The command lines and test drivers of the C libraries (`reader.c`, `*_cli.c`), rule files,
  tools and vendored libraries.
- Error and file targets of event logs, audit fields, headers with the transaction id,
  debug output: written once, read by nothing.
