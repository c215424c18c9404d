------------------------------ MODULE Storage ------------------------------
(***************************************************************************)
(* Persistent collections of lua-resty-waf: src/lib/resty/waf/storage.lua    *)
(* and its backends dict, memcached and redis. A request's rules work on the  *)
(* request's own copy of a collection, read by initcol. At the end of a       *)
(* handler _finalize persists every copy that was altered: dict and memcached  *)
(* replace the whole collection, redis sends what it tracked of the changes.   *)
(* Requests interleave: nothing is locked between initcol and persist.        *)
(*                                                                         *)
(* A copy lives as long as the request, through all its handlers. The access  *)
(* handler alone can reach memcached and redis: nginx has no sockets for Lua   *)
(* in the later phases, and the attempt is an error.                          *)
(*                                                                         *)
(* A collection is a function from its fields to values: of a key, the key    *)
(* itself and __expire_<key>. Rules initialize a collection once a request.   *)
(***************************************************************************)
EXTENDS Integers, FiniteSets

CONSTANTS
    Requests, Collections, Keys,
    Backends,          \* the backends to choose from
    Actions,           \* by request: the actions of the rules that may match it
    MacroKey,          \* what the key of the one setvar with a macro expands to, by request
    LinkFails,         \* connections break, and a shared dict runs short of memory
    MaxHandlers, MaxActions,    \* bounds, by request
    MaxNow             \* bound: the clock

ASSUME BackendsAssumption == Backends \subseteq {"dict", "memcached", "redis"}
ASSUME TXAssumption == "TX" \notin Collections
ASSUME BoundsAssumption ==
    /\ MaxHandlers \in [Requests -> Nat] /\ MaxActions \in [Requests -> Nat]
    /\ MaxNow \in Nat
ASSUME MacroAssumption == MacroKey \in [Requests -> Keys] /\ LinkFails \in BOOLEAN

Cols == Collections \cup {"TX"}

\* setvar without and with inc, and with a macro for its key; expirevar; deletevar.
\* n is what it sets, adds, or the time it gives.
Action == [action : {"setvar", "incvar", "setmacro", "expirevar", "deletevar"},
           col : Cols, key : Keys, n : Int]

ASSUME ActionsAssumption == Actions \in [Requests -> SUBSET Action]

Number(n) == [type |-> "number", n |-> n]
Text(n)   == [type |-> "string", n |-> n]    \* a string of digits
None      == [type |-> "nil", n |-> 0]
Value     == [type : {"number", "string", "nil"}, n : Int]

Key(k)    == <<"key", k>>
Expire(k) == <<"expire", k>>
Fields    == {"key", "expire"} \X Keys
Table     == [Fields -> Value]
Empty     == [f \in Fields |-> None]

NoPipeline == [col |-> "TX", hdel |-> {}, hmset |-> Empty]

VARIABLES
    backend,           \* _storage_backend
    store,             \* the collections in the backend
    now,               \* ngx.now()
    rule_key,          \* the key that macro has become in the shared rule: none yet, or one
    pc,                \* "idle": between two handlers, "rules", "persist", "pipeline", "over"
    handlers, acts,    \* handlers begun, actions run
    saved,             \* the request's ctx is in ngx.ctx
    col_lookup,        \* the collections the request has initialized
    storage,           \* ctx.storage: its copies
    altered,           \* the copies flagged __altered
    delkey, setkey, setkey_t,    \* what is tracked for redis
    pipeline,          \* the redis commands sent that have not run
    touched,           \* ghost: the fields the request has changed, by collection
    stale,             \* ghost: collections that were changed by another request, or evicted,
                       \* since they were read
    unread,            \* ghost: collections whose read has failed
    cut,               \* ghost: a persist has failed, or a handler was left without one
    expanded           \* ghost: the keys that setvar has set for the request

tracked == <<delkey, setkey, setkey_t>>
ghosts  == <<touched, stale, unread, cut, expanded>>
vars == <<backend, store, now, rule_key, pc, handlers, acts, saved, col_lookup, storage,
          altered, tracked, pipeline, ghosts>>

Remote == backend # "dict"
Redis  == backend = "redis"

Init == /\ backend \in Backends
        /\ store = [c \in Collections |-> Empty]
        /\ now = 0 /\ rule_key = {}
        /\ pc = [r \in Requests |-> "idle"]
        /\ handlers = [r \in Requests |-> 0] /\ acts = [r \in Requests |-> 0]
        /\ saved = [r \in Requests |-> FALSE]
        /\ col_lookup = [r \in Requests |-> {"TX"}]
        /\ storage = [r \in Requests |-> [c \in Cols |-> Empty]]
        /\ altered = [r \in Requests |-> {}]
        /\ delkey = [r \in Requests |-> {}]
        /\ setkey = [r \in Requests |-> Empty]
        /\ setkey_t = [r \in Requests |-> FALSE]
        /\ pipeline = [r \in Requests |-> NoPipeline]
        /\ touched = [r \in Requests |-> [c \in Cols |-> {}]]
        /\ stale = [r \in Requests |-> {}]
        /\ unread = [r \in Requests |-> {}]
        /\ cut = [r \in Requests |-> FALSE]
        /\ expanded = [r \in Requests |-> {}]

-----------------------------------------------------------------------------
(* What rules do to a request's copies.                                       *)

\* Redis holds strings: of what it returns, digits alone become a number again.
AsRead(v) == IF Redis /\ v.type = "number" /\ v.n < 0 THEN Text(v.n) ELSE v

\* The fields of the keys that have expired.
Expired(t) == {"key", "expire"} \X
              {k \in Keys : /\ t[Key(k)] # None
                            /\ t[Expire(k)] # None /\ t[Expire(k)].n < now}

\* A rule's action, in a handler that runs rules.
Acts(r) == /\ pc[r] = "rules"
           /\ acts[r] < MaxActions[r]
           /\ acts' = [acts EXCEPT ![r] = @ + 1]
           /\ UNCHANGED <<backend, store, now, handlers, saved, pipeline, stale>>

\* A handler that is left without _finalize. What it has changed is still in ctx,
\* if an earlier handler has saved that.
Leaves(r) == /\ pc' = [pc EXCEPT ![r] = IF saved[r] THEN "idle" ELSE "over"]
             /\ cut' = [cut EXCEPT ![r] = TRUE]

\* A backend is out of reach for this handler.
NoSockets(r) == Remote /\ handlers[r] > 1

\* initcol: the collection is read, without what has expired, which is to be
\* deleted when the copy is persisted.
InitCol(r, c) ==
    LET t == [f \in Fields |-> AsRead(store[c][f])]
    IN  /\ Acts(r)
        /\ c \notin col_lookup[r] /\ ~NoSockets(r)
        /\ col_lookup' = [col_lookup EXCEPT ![r] = @ \cup {c}]
        /\ storage' = [storage EXCEPT ![r][c] =
               [f \in Fields |-> IF f \in Expired(t) THEN None ELSE t[f]]]
        /\ altered' = [altered EXCEPT ![r] = IF Expired(t) = {} THEN @ ELSE @ \cup {c}]
        /\ delkey' = [delkey EXCEPT ![r] = IF Redis THEN @ \cup Expired(t) ELSE @]
        /\ touched' = [touched EXCEPT ![r][c] = @ \cup Expired(t)]
        /\ UNCHANGED <<rule_key, pc, setkey, setkey_t, unread, cut, expanded>>

\* Mutant: the copy is not made empty.
InitColFailsUnset(r, c) ==
    /\ Acts(r)
    /\ LinkFails /\ Remote /\ ~NoSockets(r) /\ c \notin col_lookup[r]
    /\ col_lookup' = [col_lookup EXCEPT ![r] = @ \cup {c}]
    /\ storage' = [storage EXCEPT ![r][c] = None]
    /\ unread' = [unread EXCEPT ![r] = @ \cup {c}]
    /\ UNCHANGED <<rule_key, pc, altered, tracked, touched, cut, expanded>>

\* The connection or the read fails: the copy is empty.
InitColFails(r, c) ==
    /\ Acts(r)
    /\ LinkFails /\ Remote /\ ~NoSockets(r) /\ c \notin col_lookup[r]
    /\ col_lookup' = [col_lookup EXCEPT ![r] = @ \cup {c}]
    /\ unread' = [unread EXCEPT ![r] = @ \cup {c}]
    /\ UNCHANGED <<rule_key, pc, storage, altered, tracked, touched, cut, expanded>>

InitColDies(r, c) ==
    /\ Acts(r)
    /\ NoSockets(r) /\ c \notin col_lookup[r]
    /\ Leaves(r)
    /\ UNCHANGED <<rule_key, col_lookup, storage, altered, tracked, touched, unread,
                   expanded>>

\* A field of a copy is changed.
Changes(r, c, f, v) ==
    /\ c \in col_lookup[r]
    /\ storage' = [storage EXCEPT ![r][c][f] = v]
    /\ altered' = [altered EXCEPT ![r] = @ \cup {c}]
    /\ touched' = [touched EXCEPT ![r][c] = @ \cup {f}]
    /\ UNCHANGED <<pc, col_lookup, unread, cut>>

Tracks(r, f, v) == setkey' = [setkey EXCEPT ![r][f] = IF Redis THEN v ELSE @]

\* set_var
Sets(r, c, k, v) == /\ Acts(r)
                    /\ Changes(r, c, Key(k), v)
                    /\ Tracks(r, Key(k), v)
                    /\ setkey_t' = [setkey_t EXCEPT ![r] = @ \/ Redis]
                    /\ UNCHANGED delkey

SetVar(r, a) == /\ a.action = "setvar"
                /\ Sets(r, a.col, a.key, Number(a.n))
                /\ UNCHANGED <<rule_key, expanded>>

Existing(r, a) == storage[r][a.col][Key(a.key)]

IncVar(r, a) == /\ a.action = "incvar"
                /\ Existing(r, a).type # "string"
                /\ Sets(r, a.col, a.key, Number(a.n + Existing(r, a).n))
                /\ UNCHANGED <<rule_key, expanded>>

\* "Cannot increment a value that was not previously a number": fatal_fail. On
\* redis a number below zero gets here, too.
IncVarDies(r, a) ==
    /\ Acts(r)
    /\ a.action = "incvar"
    /\ a.col \in col_lookup[r]
    /\ Existing(r, a).type = "string"
    /\ Leaves(r)
    /\ UNCHANGED <<rule_key, col_lookup, storage, altered, tracked, touched, unread, expanded>>

\* setvar whose key has a macro: the rule, which all requests of a worker share,
\* keeps the first expansion. The key is expanded first; whether the collection is
\* initialized set_var asks then.
KeyOfRule(r) == IF rule_key = {} THEN {MacroKey[r]} ELSE rule_key

SetMacroVar(r, a) ==
    \E k \in KeyOfRule(r) :
        /\ a.action = "setmacro"
        /\ Sets(r, a.col, k, Number(a.n))
        /\ rule_key' = {k}
        /\ expanded' = [expanded EXCEPT ![r] = @ \cup {k}]

SetMacroVarNowhere(r, a) ==
    /\ Acts(r)
    /\ a.action = "setmacro"
    /\ a.col \notin col_lookup[r]
    /\ rule_key' = KeyOfRule(r)
    /\ UNCHANGED <<pc, col_lookup, storage, altered, tracked, touched, unread, cut, expanded>>

ExpireVar(r, a) == /\ Acts(r)
                   /\ a.action = "expirevar"
                   /\ Changes(r, a.col, Expire(a.key), Number(now + a.n))
                   /\ Tracks(r, Expire(a.key), Number(now + a.n))
                   /\ UNCHANGED <<rule_key, delkey, setkey_t, expanded>>

\* Mutant: the copy is not flagged.
DeleteVarUnflagged(r, a) ==
    /\ Acts(r)
    /\ a.action = "deletevar"
    /\ a.col \in col_lookup[r] /\ Existing(r, a) # None
    /\ storage' = [storage EXCEPT ![r][a.col][Key(a.key)] = None]
    /\ touched' = [touched EXCEPT ![r][a.col] = @ \cup {Key(a.key)}]
    /\ delkey' = [delkey EXCEPT ![r] = IF Redis THEN @ \cup {Key(a.key)} ELSE @]
    /\ UNCHANGED <<rule_key, pc, col_lookup, altered, setkey, setkey_t, unread, cut,
                   expanded>>

\* delete_var: the key alone, not its expiry.
DeleteVar(r, a) ==
    /\ Acts(r)
    /\ a.action = "deletevar"
    /\ Existing(r, a) # None
    /\ Changes(r, a.col, Key(a.key), None)
    /\ delkey' = [delkey EXCEPT ![r] = IF Redis THEN @ \cup {Key(a.key)} ELSE @]
    /\ UNCHANGED <<rule_key, setkey, setkey_t, expanded>>

-----------------------------------------------------------------------------
(* exec() and _finalize                                                      *)

\* The next handler's exec(); what was tracked is forgotten.
Begin(r) == /\ pc[r] = "idle" /\ handlers[r] < MaxHandlers[r]
            /\ pc' = [pc EXCEPT ![r] = "rules"]
            /\ handlers' = [handlers EXCEPT ![r] = @ + 1]
            /\ delkey' = [delkey EXCEPT ![r] = {}]
            /\ setkey' = [setkey EXCEPT ![r] = Empty]
            /\ setkey_t' = [setkey_t EXCEPT ![r] = FALSE]
            /\ UNCHANGED <<backend, store, now, rule_key, acts, saved, col_lookup, storage,
                           altered, pipeline, ghosts>>

\* An ACCEPT, or an error: the handler is left as it is.
Exits(r) == /\ pc[r] = "rules"
            /\ Leaves(r)
            /\ UNCHANGED <<backend, store, now, rule_key, handlers, acts, saved, col_lookup,
                           storage, altered, tracked, pipeline, touched, stale, unread,
                           expanded>>

\* _finalize, after the rules or before an action that alters the transaction.
Finalize(r) == /\ pc[r] = "rules"
               /\ pc' = [pc EXCEPT ![r] = "persist"]
               /\ UNCHANGED <<backend, store, now, rule_key, handlers, acts, saved, col_lookup,
                              storage, altered, tracked, pipeline, ghosts>>

\* storage.persist: the flagged copies one after the other, TX excepted.
Persists(r, c) ==
    /\ pc[r] = "persist"
    /\ c \in altered[r] \ {"TX"}
    /\ altered' = [altered EXCEPT ![r] = @ \ {c}]
    /\ UNCHANGED <<backend, now, rule_key, handlers, acts, saved, col_lookup, storage,
                   tracked, touched, unread, expanded>>

\* The others' copies of a collection no longer show what is stored.
Outdates(r, c) == stale' = [q \in Requests |->
                      IF q # r /\ c \in col_lookup[q] /\ store'[c] # store[c]
                      THEN stale[q] \cup {c} ELSE stale[q]]

\* dict and memcached
PersistWhole(r, c) == /\ Persists(r, c)
                      /\ ~Redis /\ ~NoSockets(r)
                      /\ store' = [store EXCEPT ![c] = storage[r][c]]
                      /\ Outdates(r, c)
                      /\ UNCHANGED <<pc, pipeline, cut>>

\* Mutant: the whole copy is sent.
SendPipelineWhole(r, c) ==
    /\ Persists(r, c)
    /\ Redis /\ ~NoSockets(r)
    /\ pipeline' = [pipeline EXCEPT ![r] =
           [col |-> c, hdel |-> delkey[r], hmset |-> storage[r][c]]]
    /\ pc' = [pc EXCEPT ![r] = "pipeline"]
    /\ UNCHANGED <<store, stale, cut>>

\* redis: HDELs and an HMSET, for the one collection, of all that was tracked.
SendPipeline(r, c) ==
    /\ Persists(r, c)
    /\ Redis /\ ~NoSockets(r)
    /\ pipeline' = [pipeline EXCEPT ![r] =
           [col |-> c, hdel |-> delkey[r], hmset |-> IF setkey_t[r] THEN setkey[r] ELSE Empty]]
    /\ pc' = [pc EXCEPT ![r] = "pipeline"]
    /\ UNCHANGED <<store, stale, cut>>

\* The connection or the write fails. It is not tried again.
PersistFails(r, c) == /\ Persists(r, c)
                      /\ LinkFails /\ ~NoSockets(r)
                      /\ cut' = [cut EXCEPT ![r] = TRUE]
                      /\ UNCHANGED <<store, pc, pipeline, stale>>

PersistDies(r, c) == /\ Persists(r, c)
                     /\ NoSockets(r)
                     /\ Leaves(r)
                     /\ UNCHANGED <<store, pipeline, stale>>

\* The redis server runs the commands one by one, between those of others.
InPipeline(r) == /\ pc[r] = "pipeline"
                 /\ UNCHANGED <<backend, now, rule_key, handlers, acts, saved, col_lookup,
                                storage, altered, tracked, touched, unread, expanded>>

RunHdel(r, f) == LET c == pipeline[r].col
                 IN  /\ InPipeline(r)
                     /\ f \in pipeline[r].hdel
                     /\ store' = [store EXCEPT ![c][f] = None]
                     /\ pipeline' = [pipeline EXCEPT ![r].hdel = @ \ {f}]
                     /\ Outdates(r, c)
                     /\ UNCHANGED <<pc, cut>>

RunHmset(r) == LET c == pipeline[r].col
                   set == pipeline[r].hmset
               IN  /\ InPipeline(r)
                   /\ pipeline[r].hdel = {}
                   /\ store' = [store EXCEPT ![c] =
                                   [f \in Fields |-> IF set[f] # None THEN set[f] ELSE @[f]]]
                   /\ pipeline' = [pipeline EXCEPT ![r] = NoPipeline]
                   /\ pc' = [pc EXCEPT ![r] = "persist"]
                   /\ Outdates(r, c)
                   /\ UNCHANGED cut

PipelineBreaks(r) == /\ InPipeline(r)
                     /\ LinkFails
                     /\ pipeline' = [pipeline EXCEPT ![r] = NoPipeline]
                     /\ pc' = [pc EXCEPT ![r] = "persist"]
                     /\ cut' = [cut EXCEPT ![r] = TRUE]
                     /\ UNCHANGED <<store, stale>>

\* All copies are persisted.
Persisted(r) == pc[r] = "persist" /\ altered[r] \subseteq {"TX"}

\* ctx is saved, and the handler ends or its rules go on.
FinalizeEnds(r) == /\ Persisted(r)
                   /\ saved' = [saved EXCEPT ![r] = TRUE]
                   /\ \E next \in {"rules", "idle"} : pc' = [pc EXCEPT ![r] = next]
                   /\ UNCHANGED <<backend, store, now, rule_key, handlers, acts, col_lookup,
                                  storage, altered, tracked, pipeline, ghosts>>

\* A shared dict that needs room for something else drops the collection that was
\* used least.
Evict(c) == /\ backend = "dict" /\ LinkFails
            /\ store[c] # Empty
            /\ store' = [store EXCEPT ![c] = Empty]
            /\ stale' = [q \in Requests |-> IF c \in col_lookup[q] THEN stale[q] \cup {c}
                                            ELSE stale[q]]
            /\ UNCHANGED <<backend, now, rule_key, pc, handlers, acts, saved, col_lookup,
                           storage, altered, tracked, pipeline, touched, unread, cut,
                           expanded>>

Tick == /\ now < MaxNow
        /\ now' = now + 1
        /\ UNCHANGED <<backend, store, rule_key, pc, handlers, acts, saved, col_lookup,
                       storage, altered, tracked, pipeline, ghosts>>

-----------------------------------------------------------------------------

Rule(r) == \/ \E c \in Collections : InitCol(r, c) \/ InitColFails(r, c) \/ InitColDies(r, c)
           \/ \E a \in Actions[r] : \/ SetVar(r, a) \/ IncVar(r, a) \/ IncVarDies(r, a)
                                    \/ SetMacroVar(r, a) \/ SetMacroVarNowhere(r, a)
                                    \/ ExpireVar(r, a) \/ DeleteVar(r, a)

Persist(r) == \/ \E c \in Collections : \/ PersistWhole(r, c) \/ SendPipeline(r, c)
                                        \/ PersistFails(r, c) \/ PersistDies(r, c)
              \/ \E f \in Fields : RunHdel(r, f)
              \/ RunHmset(r) \/ PipelineBreaks(r)

Next == \/ \E r \in Requests : \/ Begin(r) \/ Rule(r) \/ Exits(r)
                               \/ Finalize(r) \/ Persist(r) \/ FinalizeEnds(r)
        \/ \E c \in Collections : Evict(c)
        \/ Tick

Spec == Init /\ [][Next]_vars

-----------------------------------------------------------------------------

TypeOK == /\ backend \in Backends
          /\ store \in [Collections -> Table]
          /\ now \in 0..MaxNow /\ rule_key \subseteq Keys
          /\ pc \in [Requests -> {"idle", "rules", "persist", "pipeline", "over"}]
          /\ handlers \in [Requests -> Nat] /\ acts \in [Requests -> Nat]
          /\ saved \in [Requests -> BOOLEAN]
          /\ col_lookup \in [Requests -> SUBSET Cols]
          /\ storage \in [Requests -> [Cols -> Table]]
          /\ altered \in [Requests -> SUBSET Cols]
          /\ delkey \in [Requests -> SUBSET Fields]
          /\ setkey \in [Requests -> Table] /\ setkey_t \in [Requests -> BOOLEAN]
          /\ pipeline \in [Requests -> [col : Cols, hdel : SUBSET Fields, hmset : Table]]
          /\ touched \in [Requests -> [Cols -> SUBSET Fields]]
          /\ stale \in [Requests -> SUBSET Cols] /\ unread \in [Requests -> SUBSET Cols]
          /\ cut \in [Requests -> BOOLEAN] /\ expanded \in [Requests -> SUBSET Keys]

\* The copies that should be what is stored: read, and changed by no other since.
Current(r) == (col_lookup[r] \ {"TX"}) \ (stale[r] \cup unread[r])

Stored(r, c, f) == AsRead(store[c][f]) = AsRead(storage[r][c][f])

\* What redis is not sent as it is in the copy: a key set and then deleted, which
\* HMSET sets again; expiries, as long as no key was set; and keys that were
\* changed in another collection, for all share the tables that track them.
Unsent(r, c) ==
    IF Redis
    THEN {f \in delkey[r] : setkey[r][f] # None}
           \cup (IF setkey_t[r] THEN {} ELSE {f \in Fields : f[1] = "expire"})
           \cup UNION {touched[r][d] : d \in Cols \ {c}}
    ELSE {}

\* At the end of a handler, what a request has in its copies is what is stored,
\* though redis is only sent the changes: unless another has written meanwhile,
\* or the backend could not be reached. (On redis, of the first finalize of a
\* handler.)
CopiesPersisted ==
    \A r \in Requests : Persisted(r) /\ ~cut[r] /\ (Redis => ~saved[r]) =>
        \A c \in Current(r), f \in Fields : f \in Unsent(r, c) \/ Stored(r, c, f)

\* What is not its own a request leaves as it is. It changes no field that its
\* rules have not changed, or found expired, except by writing back a copy that
\* had become stale, or that could not be read: whole copies lose the updates of
\* other requests, and after a failed read everything. Redis does neither, but
\* mixes up the collections. (What a dict evicts is gone by no request's doing.)
KeepsOthersKeys ==
    [][\A c \in Collections, f \in Fields : store'[c][f] # store[c][f] /\ ~Evict(c) =>
          \E r \in Requests :
              /\ pc[r] \in {"persist", "pipeline"}
              /\ \/ f \in touched[r][c]
                 \/ Redis /\ \E d \in Cols : f \in touched[r][d]
                 \/ ~Redis /\ c \in altered[r] /\ c \in stale[r] \cup unread[r]]_vars

-----------------------------------------------------------------------------

(* What the source says, and does not do.                                     *)

\* parse_dynamic_value is to "pick out dynamic data from storage key definitions"
\* (util.lua:123): a key with a macro is the key of the request at hand.
KeysOfTheRequest == \A r \in Requests : expanded[r] \subseteq {MacroKey[r]}
=============================================================================
