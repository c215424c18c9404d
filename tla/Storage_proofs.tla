--------------------------- MODULE Storage_proofs ---------------------------
(***************************************************************************)
(* Theorems about Storage, for any number of requests, collections, keys,    *)
(* actions and handlers, over each of the backends.                         *)
(*                                                                         *)
(* What is in a request's copy and what is stored are related through what   *)
(* the request knows to have changed: WholeInv says how on dict and          *)
(* memcached, which write the copy; TrackInv and SentInv on redis, which is   *)
(* sent what was tracked. Others' writes are known by stale alone: so each    *)
(* is an invariant of one request, which its own steps keep one by one, and    *)
(* those of others all in the same way (OthersKeep).                         *)
(***************************************************************************)
EXTENDS Storage, TLAPS

\* The fields a request has changed, of whichever collection.
AllTouched(q) == UNION {touched[q][d] : d \in Cols}

\* The fields it has changed of other collections than c.
Elsewhere(q, c) == UNION {touched[q][d] : d \in Cols \ {c}}

\* What a request has changed are copies it has, and what it is about to send are
\* fields it has changed.
ReqInv(q) ==
    /\ "TX" \in col_lookup[q]
    /\ altered[q] \subseteq col_lookup[q]
    /\ \A c \in Cols : c \notin col_lookup[q] => touched[q][c] = {}
    /\ Redis => /\ delkey[q] \subseteq AllTouched(q)
                /\ \A f \in Fields : setkey[q][f] # None => f \in AllTouched(q)
    /\ pc[q] = "pipeline" =>
          /\ Redis
          /\ pipeline[q].col \in col_lookup[q] \ {"TX"}
          /\ pipeline[q].hdel \subseteq AllTouched(q)
          /\ \A f \in Fields : pipeline[q].hmset[f] # None => f \in AllTouched(q)

\* On dict and memcached a copy that is up to date differs from what is stored in
\* what the request has changed, and only as long as it is flagged.
WholeInv(q) ==
    ~Redis => \A c \in Current(q), f \in Fields :
        storage[q][c][f] # store[c][f] =>
            /\ f \in touched[q][c]
            /\ c \in altered[q] \/ cut[q]

\* In the first handler, up to its first finalize, and as long as nothing fails.
First(q) == Redis /\ ~saved[q] /\ ~cut[q] /\ pc[q] # "over"

\* What is tracked of a field that was changed in one collection alone: it was set
\* last, or it was deleted, or (Unsent) it was set and then deleted.
Tracked(q, c, f) ==
    \/ f \in delkey[q] /\ setkey[q][f] # None
    \/ f \in delkey[q] /\ storage[q][c][f] = None
    \/ f \notin delkey[q] /\ setkey[q][f] # None /\ storage[q][c][f] = setkey[q][f]

TrackInv(q) ==
    First(q) =>
        /\ pc[q] = "idle" => \A c \in Cols : touched[q][c] = {}
        /\ pc[q] = "rules" => \A c \in Cols : touched[q][c] # {} => c \in altered[q]
        /\ \A k \in Keys : setkey[q][Key(k)] # None => setkey_t[q]
        /\ \A c \in Cols : \A f \in Fields :
              f \in touched[q][c] /\ f \notin Elsewhere(q, c) => Tracked(q, c, f)

\* What is stored of a collection that is being sent, or has been.
Unchanged(q, c, f) == f \notin touched[q][c] => Stored(q, c, f)

Sending(q, c, f) ==
    /\ pipeline[q].hmset = IF setkey_t[q] THEN setkey[q] ELSE Empty
    /\ pipeline[q].hdel \subseteq delkey[q]
    /\ f \in delkey[q] \ pipeline[q].hdel => store[c][f] = None

SentInv(q) ==
    First(q) => \A c \in Current(q) : \A f \in Fields \ Elsewhere(q, c) :
        /\ Unchanged(q, c, f)
        /\ c \notin altered[q] =>
              IF pc[q] = "pipeline" /\ pipeline[q].col = c THEN Sending(q, c, f)
              ELSE f \in Unsent(q, c) \/ Stored(q, c, f)

CopyInv(q) == ReqInv(q) /\ WholeInv(q) /\ TrackInv(q) /\ SentInv(q)

IInv == TypeOK /\ \A q \in Requests : CopyInv(q)

-----------------------------------------------------------------------------
(* Types.                                                                    *)

LEMMA Values ==
  /\ None \in Value /\ Empty \in Table
  /\ \A n \in Int : Number(n) \in Value /\ Text(n) \in Value /\ Number(n) # None
  /\ \A k \in Keys : Key(k) \in Fields /\ Expire(k) \in Fields
  /\ \A v \in Value : AsRead(v) \in Value /\ AsRead(AsRead(v)) = AsRead(v)
BY DEF None, Empty, Table, Value, Fields, Number, Text, Key, Expire, AsRead

LEMMA ActsType == ASSUME TypeOK, NEW q \in Requests, Acts(q)
                  PROVE  acts' \in [Requests -> Nat]
BY DEF TypeOK, Acts

\* A field of a copy gets a value.
LEMMA ChangesType ==
  ASSUME TypeOK, NEW q \in Requests, NEW c \in Cols, NEW f \in Fields, NEW v \in Value,
         Changes(q, c, f, v)
  PROVE  /\ storage' \in [Requests -> [Cols -> Table]]
         /\ altered' \in [Requests -> SUBSET Cols]
         /\ touched' \in [Requests -> [Cols -> SUBSET Fields]]
<1>1. /\ storage' = [storage EXCEPT ![q] = [storage[q] EXCEPT ![c] = [storage[q][c] EXCEPT ![f] = v]]]
      /\ altered' = [altered EXCEPT ![q] = altered[q] \cup {c}]
      /\ touched' = [touched EXCEPT ![q] = [touched[q] EXCEPT ![c] = touched[q][c] \cup {f}]]
  BY DEF Changes
<1>2. storage \in [Requests -> [Cols -> Table]] /\ altered \in [Requests -> SUBSET Cols]
      /\ touched \in [Requests -> [Cols -> SUBSET Fields]]
  BY DEF TypeOK
<1>3. [storage[q][c] EXCEPT ![f] = v] \in Table
  BY <1>2 DEF Table
<1>4. [storage[q] EXCEPT ![c] = [storage[q][c] EXCEPT ![f] = v]] \in [Cols -> Table]
  BY <1>2, <1>3
<1> QED BY <1>1, <1>2, <1>4

LEMMA TypeInit == Init => TypeOK
<1> SUFFICES ASSUME Init PROVE TypeOK
  OBVIOUS
<1>1. "TX" \in Cols /\ \A c \in Cols : c \in Cols
  BY DEF Cols
<1>2. store \in [Collections -> Table] /\ storage \in [Requests -> [Cols -> Table]]
  BY Values DEF Init
<1>3. setkey \in [Requests -> Table] /\ delkey \in [Requests -> SUBSET Fields]
      /\ setkey_t \in [Requests -> BOOLEAN]
  BY Values DEF Init
<1>4. pipeline \in [Requests -> [col : Cols, hdel : SUBSET Fields, hmset : Table]]
  BY Values, <1>1 DEF Init, NoPipeline
<1>5. now \in 0..MaxNow
  BY BoundsAssumption DEF Init
<1> QED BY <1>1, <1>2, <1>3, <1>4, <1>5 DEF Init, TypeOK

LEMMA TypeLeaves == ASSUME TypeOK, NEW q \in Requests, Leaves(q)
                    PROVE  /\ pc' \in [Requests -> {"idle", "rules", "persist", "pipeline", "over"}]
                           /\ cut' \in [Requests -> BOOLEAN]
BY DEF TypeOK, Leaves

LEMMA TypeSets ==
  ASSUME TypeOK, NEW q \in Requests, NEW c \in Cols, NEW k \in Keys, NEW n \in Int,
         Sets(q, c, k, Number(n)), rule_key' \subseteq Keys, expanded' \in [Requests -> SUBSET Keys]
  PROVE  TypeOK'
<1>1. Number(n) \in Value /\ Key(k) \in Fields
  BY Values
<1>2. Acts(q) /\ Changes(q, c, Key(k), Number(n))
  BY DEF Sets
<1>3. setkey' \in [Requests -> Table]
  BY <1>1 DEF Sets, Tracks, TypeOK, Table
<1>4. setkey_t' \in [Requests -> BOOLEAN] /\ delkey' = delkey
  BY DEF Sets, TypeOK
<1>5. acts' \in [Requests -> Nat]
  BY <1>2, ActsType
<1> QED BY <1>1, <1>2, <1>3, <1>4, <1>5, ChangesType DEF Acts, Changes, TypeOK

LEMMA TypeRule == ASSUME TypeOK, NEW q \in Requests, Rule(q) PROVE TypeOK'
<1>1. Acts(q) => acts' \in [Requests -> Nat]
  BY ActsType
<1>2. ASSUME NEW c \in Collections, InitCol(q, c) PROVE TypeOK'
  <2> DEFINE t == [f \in Fields |-> AsRead(store[c][f])]
             u == [f \in Fields |-> IF f \in Expired(t) THEN None ELSE t[f]]
  <2>1. c \in Cols /\ store[c] \in Table
    BY DEF Cols, TypeOK
  <2>2. u \in Table /\ Expired(t) \subseteq Fields
    BY <2>1, Values DEF Table, Expired, Fields
  <2>3. /\ storage' = [storage EXCEPT ![q] = [storage[q] EXCEPT ![c] = u]]
        /\ altered' = [altered EXCEPT ![q] = IF Expired(t) = {} THEN @ ELSE @ \cup {c}]
        /\ delkey' = [delkey EXCEPT ![q] = IF Redis THEN @ \cup Expired(t) ELSE @]
        /\ touched' = [touched EXCEPT ![q] = [touched[q] EXCEPT ![c] = touched[q][c] \cup Expired(t)]]
        /\ col_lookup' = [col_lookup EXCEPT ![q] = @ \cup {c}]
        /\ Acts(q) /\ UNCHANGED <<rule_key, pc, setkey, setkey_t, unread, cut, expanded>>
    BY <1>2 DEF InitCol
  <2> HIDE DEF t, u
  <2>4. [storage[q] EXCEPT ![c] = u] \in [Cols -> Table]
        /\ [touched[q] EXCEPT ![c] = touched[q][c] \cup Expired(t)] \in [Cols -> SUBSET Fields]
    BY <2>1, <2>2 DEF TypeOK
  <2>5. /\ storage' \in [Requests -> [Cols -> Table]]
        /\ touched' \in [Requests -> [Cols -> SUBSET Fields]]
    BY <2>3, <2>4 DEF TypeOK
  <2>6. /\ altered' \in [Requests -> SUBSET Cols] /\ delkey' \in [Requests -> SUBSET Fields]
        /\ col_lookup' \in [Requests -> SUBSET Cols]
    BY <2>1, <2>2, <2>3 DEF TypeOK
  <2> QED BY <1>1, <2>3, <2>5, <2>6 DEF Acts, TypeOK
<1>3. ASSUME NEW c \in Collections, InitColFails(q, c) PROVE TypeOK'
  <2>1. c \in Cols
    BY DEF Cols
  <2> QED BY <1>1, <1>3, <2>1 DEF InitColFails, Acts, TypeOK, tracked
<1>4. ASSUME NEW c \in Collections, InitColDies(q, c) PROVE TypeOK'
  BY <1>1, <1>4, TypeLeaves DEF InitColDies, Acts, TypeOK, tracked
<1>5. ASSUME NEW a \in Actions[q] PROVE a.col \in Cols /\ a.key \in Keys /\ a.n \in Int
  BY ActionsAssumption DEF Action
<1>6. ASSUME NEW a \in Actions[q], SetVar(q, a) PROVE TypeOK'
  BY <1>5, <1>6, TypeSets DEF SetVar, TypeOK
<1>7. ASSUME NEW a \in Actions[q], IncVar(q, a) PROVE TypeOK'
  <2>1. Existing(q, a) \in Value
    BY <1>5, Values DEF Existing, TypeOK, Table
  <2>2. a.n + Existing(q, a).n \in Int
    BY <1>5, <2>1 DEF Value
  <2>3. Sets(q, a.col, a.key, Number(a.n + Existing(q, a).n)) /\ UNCHANGED <<rule_key, expanded>>
    BY <1>7 DEF IncVar
  <2> QED BY <1>5, <2>2, <2>3, TypeSets DEF TypeOK
<1>8. ASSUME NEW a \in Actions[q], IncVarDies(q, a) PROVE TypeOK'
  BY <1>1, <1>8, TypeLeaves DEF IncVarDies, Acts, TypeOK, tracked
<1>9. ASSUME NEW a \in Actions[q], SetMacroVar(q, a) PROVE TypeOK'
  <2>1. PICK k \in KeyOfRule(q) :
          /\ Sets(q, a.col, k, Number(a.n))
          /\ rule_key' = {k}
          /\ expanded' = [expanded EXCEPT ![q] = @ \cup {k}]
    BY <1>9 DEF SetMacroVar
  <2>2. k \in Keys
    BY MacroAssumption DEF TypeOK, KeyOfRule
  <2>3. rule_key' \subseteq Keys /\ expanded' \in [Requests -> SUBSET Keys]
    BY <2>1, <2>2 DEF TypeOK
  <2> QED BY <1>5, <2>1, <2>2, <2>3, TypeSets
<1>10. ASSUME NEW a \in Actions[q], ExpireVar(q, a) PROVE TypeOK'
  <2>1. now + a.n \in Int /\ Expire(a.key) \in Fields
    BY <1>5, Values, BoundsAssumption DEF TypeOK
  <2>2. Number(now + a.n) \in Value
    BY <2>1, Values
  <2>3. /\ Acts(q) /\ Changes(q, a.col, Expire(a.key), Number(now + a.n))
        /\ Tracks(q, Expire(a.key), Number(now + a.n))
        /\ UNCHANGED <<rule_key, delkey, setkey_t, expanded>>
    BY <1>10 DEF ExpireVar
  <2>4. setkey' \in [Requests -> Table]
    BY <2>1, <2>2, <2>3 DEF Tracks, TypeOK, Table
  <2> QED BY <1>1, <1>5, <2>1, <2>2, <2>3, <2>4, ChangesType DEF Acts, Changes, TypeOK
<1>11. ASSUME NEW a \in Actions[q], DeleteVar(q, a) PROVE TypeOK'
  <2>1. Key(a.key) \in Fields /\ None \in Value
    BY <1>5, Values
  <2>2. /\ Acts(q) /\ Changes(q, a.col, Key(a.key), None)
        /\ delkey' = [delkey EXCEPT ![q] = IF Redis THEN @ \cup {Key(a.key)} ELSE @]
        /\ UNCHANGED <<rule_key, setkey, setkey_t, expanded>>
    BY <1>11 DEF DeleteVar
  <2>3. delkey' \in [Requests -> SUBSET Fields]
    BY <2>1, <2>2 DEF TypeOK
  <2> QED BY <1>1, <1>5, <2>1, <2>2, <2>3, ChangesType DEF Acts, Changes, TypeOK
<1>12. ASSUME NEW a \in Actions[q], SetMacroVarNowhere(q, a) PROVE TypeOK'
  <2>1. KeyOfRule(q) \subseteq Keys
    BY MacroAssumption DEF KeyOfRule, TypeOK
  <2> QED BY <1>1, <1>12, <2>1 DEF SetMacroVarNowhere, Acts, TypeOK, tracked
<1> QED BY <1>2, <1>3, <1>4, <1>6, <1>7, <1>8, <1>9, <1>10, <1>11, <1>12 DEF Rule

\* Whether or not something is written, every request's stale is a set of collections.
LEMMA TypeOutdates == ASSUME TypeOK, NEW q \in Requests, NEW c \in Cols, Outdates(q, c)
                      PROVE  stale' \in [Requests -> SUBSET Cols]
BY DEF TypeOK, Outdates

LEMMA TypePersist == ASSUME TypeOK, NEW q \in Requests, Persist(q) PROVE TypeOK'
<1>1. ASSUME NEW c, Persists(q, c) PROVE altered' \in [Requests -> SUBSET Cols]
  BY <1>1 DEF Persists, TypeOK
<1>2. ASSUME NEW c \in Collections, PersistWhole(q, c) PROVE TypeOK'
  <2>1. c \in Cols
    BY DEF Cols
  <2>2. store' \in [Collections -> Table]
    BY <1>2, <2>1 DEF PersistWhole, TypeOK
  <2>3. stale' \in [Requests -> SUBSET Cols]
    BY <1>2, <2>1, TypeOutdates DEF PersistWhole
  <2> QED BY <1>1, <1>2, <2>2, <2>3 DEF PersistWhole, Persists, TypeOK, tracked
<1>3. ASSUME NEW c \in Collections, SendPipeline(q, c) PROVE TypeOK'
  <2> DEFINE p == [col |-> c, hdel |-> delkey[q],
                   hmset |-> IF setkey_t[q] THEN setkey[q] ELSE Empty]
  <2>1. p \in [col : Cols, hdel : SUBSET Fields, hmset : Table]
    BY Values DEF Cols, TypeOK
  <2>2. pipeline' = [pipeline EXCEPT ![q] = p] /\ pc' = [pc EXCEPT ![q] = "pipeline"]
    BY <1>3 DEF SendPipeline
  <2> HIDE DEF p
  <2>3. pipeline' \in [Requests -> [col : Cols, hdel : SUBSET Fields, hmset : Table]]
    BY <2>1, <2>2 DEF TypeOK
  <2> QED BY <1>1, <1>3, <2>2, <2>3 DEF SendPipeline, Persists, TypeOK, tracked
<1>4. ASSUME NEW c \in Collections, PersistFails(q, c) PROVE TypeOK'
  BY <1>1, <1>4 DEF PersistFails, Persists, TypeOK, tracked
<1>5. ASSUME NEW c \in Collections, PersistDies(q, c) PROVE TypeOK'
  BY <1>1, <1>5, TypeLeaves DEF PersistDies, Persists, TypeOK, tracked
<1>6. pipeline[q] \in [col : Cols, hdel : SUBSET Fields, hmset : Table]
  BY DEF TypeOK
<1>7. ASSUME NEW f \in Fields, RunHdel(q, f) PROVE TypeOK'
  <2> DEFINE c == pipeline[q].col
  <2>1. store' = [store EXCEPT ![c] = [store[c] EXCEPT ![f] = None]]
        /\ pipeline' = [pipeline EXCEPT ![q] = [pipeline[q] EXCEPT !.hdel = pipeline[q].hdel \ {f}]]
        /\ InPipeline(q) /\ Outdates(q, c) /\ UNCHANGED <<pc, cut>>
    BY <1>7 DEF RunHdel
  <2>2. c \in Collections => [store[c] EXCEPT ![f] = None] \in Table
    BY Values DEF TypeOK, Table
  <2>3. store' \in [Collections -> Table]
    BY <2>1, <2>2 DEF TypeOK
  <2>4. [pipeline[q] EXCEPT !.hdel = pipeline[q].hdel \ {f}]
          \in [col : Cols, hdel : SUBSET Fields, hmset : Table]
    BY <1>6
  <2>5. pipeline' \in [Requests -> [col : Cols, hdel : SUBSET Fields, hmset : Table]]
    BY <2>1, <2>4 DEF TypeOK
  <2>6. stale' \in [Requests -> SUBSET Cols]
    BY <1>6, <2>1, TypeOutdates
  <2> QED BY <2>1, <2>3, <2>5, <2>6 DEF InPipeline, TypeOK, tracked
<1>8. CASE RunHmset(q)
  <2> DEFINE c   == pipeline[q].col
             set == pipeline[q].hmset
             new == [f \in Fields |-> IF set[f] # None THEN set[f] ELSE store[c][f]]
  <2>1. /\ store' = [store EXCEPT ![c] = new]
        /\ pipeline' = [pipeline EXCEPT ![q] = NoPipeline]
        /\ pc' = [pc EXCEPT ![q] = "persist"]
        /\ InPipeline(q) /\ Outdates(q, c) /\ UNCHANGED cut
    BY <1>8 DEF RunHmset
  <2>2. c \in Collections => new \in Table
    BY <1>6 DEF TypeOK, Table
  <2>3. store' \in [Collections -> Table]
    BY <2>1, <2>2 DEF TypeOK
  <2>4. NoPipeline \in [col : Cols, hdel : SUBSET Fields, hmset : Table]
    BY Values DEF NoPipeline, Cols
  <2>5. stale' \in [Requests -> SUBSET Cols]
    BY <1>6, <2>1, TypeOutdates
  <2> QED BY <2>1, <2>3, <2>4, <2>5 DEF InPipeline, TypeOK, tracked
<1>9. CASE PipelineBreaks(q)
  <2>1. NoPipeline \in [col : Cols, hdel : SUBSET Fields, hmset : Table]
    BY Values DEF NoPipeline, Cols
  <2> QED BY <1>9, <2>1 DEF PipelineBreaks, InPipeline, TypeOK, tracked
<1> QED BY <1>2, <1>3, <1>4, <1>5, <1>7, <1>8, <1>9 DEF Persist

LEMMA TypeStep == ASSUME TypeOK, [Next]_vars PROVE TypeOK'
<1>1. ASSUME NEW q \in Requests, Begin(q) PROVE TypeOK'
  BY <1>1, Values DEF Begin, TypeOK, ghosts
<1>2. ASSUME NEW q \in Requests, Exits(q) PROVE TypeOK'
  BY <1>2, TypeLeaves DEF Exits, TypeOK, tracked
<1>3. ASSUME NEW q \in Requests, Finalize(q) PROVE TypeOK'
  BY <1>3 DEF Finalize, TypeOK, tracked, ghosts
<1>4. ASSUME NEW q \in Requests, FinalizeEnds(q) PROVE TypeOK'
  BY <1>4 DEF FinalizeEnds, TypeOK, tracked, ghosts
<1>5. CASE Tick
  BY <1>5, BoundsAssumption DEF Tick, TypeOK, tracked, ghosts
<1>6. CASE UNCHANGED vars
  BY <1>6 DEF vars, TypeOK, tracked, ghosts
<1>7. ASSUME NEW c \in Collections, Evict(c) PROVE TypeOK'
  BY <1>7, Values DEF Evict, TypeOK, tracked, Cols
<1> QED BY <1>1, <1>2, <1>3, <1>4, <1>5, <1>6, <1>7, TypeRule, TypePersist DEF Next
-----------------------------------------------------------------------------
(* What the steps of others do to a request.                                 *)

\* Everything of the request is as it was, except that a copy may be stale: it is, if
\* what is stored of the collection has changed.
OthersStep(q) ==
    /\ UNCHANGED backend
    /\ pc'[q] = pc[q] /\ saved'[q] = saved[q] /\ cut'[q] = cut[q]
    /\ col_lookup'[q] = col_lookup[q] /\ storage'[q] = storage[q]
    /\ altered'[q] = altered[q] /\ touched'[q] = touched[q] /\ unread'[q] = unread[q]
    /\ delkey'[q] = delkey[q] /\ setkey'[q] = setkey[q] /\ setkey_t'[q] = setkey_t[q]
    /\ pipeline'[q] = pipeline[q]
    /\ stale[q] \subseteq stale'[q]
    /\ \A c \in Collections \cap col_lookup[q] : store'[c] # store[c] => c \in stale'[q]

LEMMA OthersKeep == ASSUME TypeOK, NEW q \in Requests, CopyInv(q), OthersStep(q)
                    PROVE  CopyInv(q)'
<1>1. /\ AllTouched(q)' = AllTouched(q) /\ \A c : Elsewhere(q, c)' = Elsewhere(q, c)
      /\ First(q)' = First(q) /\ Redis' = Redis
  BY DEF OthersStep, AllTouched, Elsewhere, First, Redis
<1>2. Current(q)' \subseteq Current(q)
      /\ \A c \in Current(q)' : c \in Collections /\ store'[c] = store[c]
  BY DEF OthersStep, Current, TypeOK, Cols
<1>3. ReqInv(q)'
  BY <1>1 DEF CopyInv, ReqInv, OthersStep
<1>4. WholeInv(q)'
  BY <1>1, <1>2 DEF CopyInv, WholeInv, OthersStep
<1>5. TrackInv(q)'
  BY <1>1 DEF CopyInv, TrackInv, OthersStep, Tracked
<1>6. SentInv(q)'
  <2> SUFFICES ASSUME First(q), NEW c \in Current(q)', NEW f \in Fields \ Elsewhere(q, c)
               PROVE  /\ Unchanged(q, c, f)'
                      /\ c \notin altered[q] =>
                            IF pc[q] = "pipeline" /\ pipeline[q].col = c THEN Sending(q, c, f)'
                            ELSE f \in Unsent(q, c)' \/ Stored(q, c, f)'
    BY <1>1 DEF SentInv, OthersStep
  <2>1. store'[c] = store[c] /\ c \in Current(q)
    BY <1>2
  <2>2. /\ Stored(q, c, f)' = Stored(q, c, f) /\ Unsent(q, c)' = Unsent(q, c)
        /\ Unchanged(q, c, f)' = Unchanged(q, c, f) /\ Sending(q, c, f)' = Sending(q, c, f)
    BY <1>1, <2>1 DEF OthersStep, Stored, AsRead, Unsent, Unchanged, Sending
  <2> QED BY <2>1, <2>2 DEF CopyInv, SentInv
<1> QED BY <1>3, <1>4, <1>5, <1>6 DEF CopyInv

LEMMA OthersRules ==
  ASSUME TypeOK, NEW p \in Requests, Rule(p), NEW q \in Requests \ {p}
  PROVE  OthersStep(q)
<1>1. Acts(p)
  BY DEF Rule, InitCol, InitColFails, InitColDies, SetVar, IncVar, IncVarDies, SetMacroVar,
         SetMacroVarNowhere, ExpireVar, DeleteVar, Sets
<1>2. UNCHANGED <<backend, store, saved, pipeline, stale>>
  BY <1>1 DEF Acts
<1>3. pc'[q] = pc[q] /\ cut'[q] = cut[q]
  BY DEF Rule, InitCol, InitColFails, InitColDies, SetVar, IncVar, IncVarDies, SetMacroVar,
         SetMacroVarNowhere, ExpireVar, DeleteVar, Sets, Changes, Leaves, TypeOK
<1>4. /\ col_lookup'[q] = col_lookup[q] /\ storage'[q] = storage[q]
      /\ altered'[q] = altered[q] /\ touched'[q] = touched[q] /\ unread'[q] = unread[q]
  <2> DEFINE Same == /\ col_lookup'[q] = col_lookup[q] /\ storage'[q] = storage[q]
                     /\ altered'[q] = altered[q] /\ touched'[q] = touched[q]
                     /\ unread'[q] = unread[q]
  <2>1. ASSUME NEW c \in Collections, InitCol(p, c) PROVE Same
    BY <2>1 DEF InitCol, TypeOK
  <2>2. ASSUME NEW c \in Collections, InitColFails(p, c) \/ InitColDies(p, c) PROVE Same
    BY <2>2 DEF InitColFails, InitColDies, TypeOK
  <2>3. ASSUME NEW c, NEW f, NEW v, Changes(p, c, f, v) PROVE Same
    BY <2>3 DEF Changes, TypeOK
  <2>4. ASSUME NEW a \in Actions[p], SetVar(p, a) \/ IncVar(p, a) \/ SetMacroVar(p, a) PROVE Same
    BY <2>3, <2>4 DEF SetVar, IncVar, SetMacroVar, Sets
  <2>5. ASSUME NEW a \in Actions[p], ExpireVar(p, a) \/ DeleteVar(p, a) PROVE Same
    BY <2>3, <2>5 DEF ExpireVar, DeleteVar
  <2>6. ASSUME NEW a \in Actions[p], IncVarDies(p, a) \/ SetMacroVarNowhere(p, a) PROVE Same
    BY <2>6 DEF IncVarDies, SetMacroVarNowhere
  <2> QED BY <2>1, <2>2, <2>4, <2>5, <2>6 DEF Rule
<1>5. delkey'[q] = delkey[q] /\ setkey'[q] = setkey[q] /\ setkey_t'[q] = setkey_t[q]
  BY DEF Rule, InitCol, InitColFails, InitColDies, SetVar, IncVar, IncVarDies, SetMacroVar,
         SetMacroVarNowhere, ExpireVar, DeleteVar, Sets, Tracks, TypeOK, tracked
<1> QED BY <1>2, <1>3, <1>4, <1>5 DEF OthersStep

LEMMA OthersPersist ==
  ASSUME TypeOK, NEW p \in Requests, Persist(p), NEW q \in Requests \ {p}
  PROVE  OthersStep(q)
<1> DEFINE Frame == /\ UNCHANGED <<backend, saved, col_lookup, storage, tracked, touched, unread>>
                    /\ altered'[q] = altered[q]
<1>1. ASSUME NEW c, Persists(p, c) PROVE Frame
  BY <1>1 DEF Persists, TypeOK
<1>2. ASSUME NEW c \in Collections, PersistFails(p, c) \/ PersistDies(p, c) \/ SendPipeline(p, c)
      PROVE  OthersStep(q)
  BY <1>1, <1>2 DEF PersistFails, PersistDies, SendPipeline, Leaves, OthersStep, TypeOK, tracked
<1>3. CASE PipelineBreaks(p)
  BY <1>3 DEF PipelineBreaks, InPipeline, OthersStep, TypeOK, tracked
<1>4. ASSUME NEW c, Outdates(p, c), \A d \in Collections : d # c => store'[d] = store[d]
      PROVE  /\ stale[q] \subseteq stale'[q]
             /\ \A d \in Collections \cap col_lookup[q] : store'[d] # store[d] => d \in stale'[q]
  BY <1>4 DEF Outdates
<1>5. ASSUME NEW c \in Collections, PersistWhole(p, c) PROVE OthersStep(q)
  <2>1. Outdates(p, c) /\ \A d \in Collections : d # c => store'[d] = store[d]
    BY <1>5 DEF PersistWhole, TypeOK
  <2> QED BY <1>1, <1>4, <1>5, <2>1 DEF PersistWhole, OthersStep, tracked
<1>6. ASSUME NEW f \in Fields, RunHdel(p, f) PROVE OthersStep(q)
  <2> DEFINE c == pipeline[p].col
  <2>1. Outdates(p, c) /\ \A d \in Collections : d # c => store'[d] = store[d]
    BY <1>6 DEF RunHdel, TypeOK
  <2>2. pipeline'[q] = pipeline[q] /\ UNCHANGED <<pc, cut>> /\ InPipeline(p)
    BY <1>6 DEF RunHdel, TypeOK
  <2> QED BY <1>4, <2>1, <2>2 DEF InPipeline, OthersStep, tracked
<1>7. CASE RunHmset(p)
  <2> DEFINE c == pipeline[p].col
  <2>1. Outdates(p, c) /\ \A d \in Collections : d # c => store'[d] = store[d]
    BY <1>7 DEF RunHmset, TypeOK
  <2>2. pipeline'[q] = pipeline[q] /\ pc'[q] = pc[q] /\ UNCHANGED cut /\ InPipeline(p)
    BY <1>7 DEF RunHmset, TypeOK
  <2> QED BY <1>4, <2>1, <2>2 DEF InPipeline, OthersStep, tracked
<1> QED BY <1>2, <1>3, <1>5, <1>6, <1>7 DEF Persist
-----------------------------------------------------------------------------
(* What a request's own steps do to it.                                      *)

\* A rule changes the fields F of copy c, which it may just have read: some it sets,
\* the others it deletes.
RuleStep(q, c, F) ==
    /\ UNCHANGED backend
    /\ pc[q] = "rules" /\ pc'[q] = "rules"
    /\ store' = store /\ stale'[q] = stale[q]
    /\ saved'[q] = saved[q] /\ cut'[q] = cut[q] /\ unread'[q] = unread[q]
    /\ col_lookup'[q] = col_lookup[q] \cup {c}
    /\ altered'[q] = altered[q] \cup (IF F = {} THEN {} ELSE {c})
    /\ touched'[q] = [touched[q] EXCEPT ![c] = touched[q][c] \cup F]
    /\ \A d \in Cols \ {c} : storage'[q][d] = storage[q][d]
    /\ \A f \in Fields \ F : storage'[q][c][f] = IF c \in col_lookup[q] THEN storage[q][c][f]
                                                  ELSE AsRead(store[c][f])
    /\ delkey[q] \subseteq delkey'[q] /\ delkey'[q] \subseteq delkey[q] \cup F
    /\ setkey_t[q] => setkey_t'[q]
    /\ Redis => /\ \A f \in F :
                       \/ f \in delkey'[q] /\ storage'[q][c][f] = None /\ setkey'[q][f] = setkey[q][f]
                       \/ setkey'[q][f] # None /\ storage'[q][c][f] = setkey'[q][f]
                /\ \A f \in Fields \ F : setkey'[q][f] = setkey[q][f]
                /\ \A k \in Keys : setkey'[q][Key(k)] # None => setkey_t'[q] \/ setkey[q][Key(k)] # None

LEMMA RuleKeeps ==
  ASSUME TypeOK, NEW q \in Requests, CopyInv(q), NEW c \in Cols, NEW F \in SUBSET Fields,
         RuleStep(q, c, F)
  PROVE  CopyInv(q)'
<1>1. touched[q] \in [Cols -> SUBSET Fields]
  BY DEF TypeOK
<1>2. /\ touched'[q][c] = touched[q][c] \cup F
      /\ \A d \in Cols \ {c} : touched'[q][d] = touched[q][d]
  BY <1>1 DEF RuleStep
<1>3. /\ AllTouched(q)' = AllTouched(q) \cup F
      /\ \A d : Elsewhere(q, d)' = Elsewhere(q, d) \cup (IF d = c THEN {} ELSE F)
  BY <1>2 DEF AllTouched, Elsewhere
<1>4. First(q)' = First(q) /\ Redis' = Redis /\ \A v : AsRead(v)' = AsRead(v)
  BY DEF RuleStep, First, Redis, AsRead
<1>5. Current(q)' = IF c \in Collections /\ c \notin stale[q] \cup unread[q]
                    THEN Current(q) \cup {c} ELSE Current(q)
  BY TXAssumption DEF RuleStep, Current, Cols
<1>6. ReqInv(q)'
  BY <1>2, <1>3, <1>4 DEF CopyInv, ReqInv, RuleStep
<1>7. WholeInv(q)'
  <2> SUFFICES ASSUME ~Redis, NEW d \in Current(q)', NEW f \in Fields,
                      storage'[q][d][f] # store[d][f]
               PROVE  f \in touched'[q][d] /\ (d \in altered'[q] \/ cut'[q])
    BY <1>4 DEF WholeInv, RuleStep
  <2>1. d \in Cols /\ \A v : AsRead(v) = v
    BY <1>5 DEF Current, TypeOK, Cols, AsRead
  <2>2. CASE d = c /\ f \in F
    BY <1>2, <2>1, <2>2 DEF RuleStep
  <2>3. CASE d # c \/ f \notin F
    <3>1. d \in Current(q) /\ storage'[q][d][f] = storage[q][d][f]
      BY <1>5, <2>1, <2>3, TXAssumption DEF RuleStep, Current
    <3>2. f \in touched[q][d] /\ (d \in altered[q] \/ cut[q])
      BY <3>1 DEF CopyInv, WholeInv
    <3> QED BY <1>2, <2>1, <3>2 DEF RuleStep
  <2> QED BY <2>2, <2>3
<1>8. TrackInv(q)'
  <2> SUFFICES ASSUME First(q)
               PROVE  /\ \A d \in Cols : touched'[q][d] # {} => d \in altered'[q]
                      /\ \A k \in Keys : setkey'[q][Key(k)] # None => setkey_t'[q]
                      /\ \A d \in Cols : \A f \in Fields :
                            f \in touched'[q][d] /\ f \notin Elsewhere(q, d)' => Tracked(q, d, f)'
    BY <1>4 DEF TrackInv, RuleStep
  <2>1. TrackInv(q) /\ Redis /\ pc[q] = "rules"
    BY DEF CopyInv, First, RuleStep
  <2>2. \A d \in Cols : touched'[q][d] # {} => d \in altered'[q]
    BY <1>2, <2>1 DEF TrackInv, RuleStep
  <2>3. \A k \in Keys : setkey'[q][Key(k)] # None => setkey_t'[q]
    BY <2>1 DEF TrackInv, RuleStep
  <2>4. ASSUME NEW d \in Cols, NEW f \in Fields, f \in touched'[q][d], f \notin Elsewhere(q, d)'
        PROVE  Tracked(q, d, f)'
    <3>1. CASE f \in F
      BY <1>3, <2>1, <2>4, <3>1 DEF RuleStep, Tracked
    <3>2. CASE f \notin F
      <4>1. f \in touched[q][d] /\ f \notin Elsewhere(q, d) /\ d \in col_lookup[q]
        BY <1>2, <1>3, <2>4, <3>2 DEF CopyInv, ReqInv
      <4>2. Tracked(q, d, f)
        BY <2>1, <4>1 DEF TrackInv
      <4> QED BY <2>1, <3>2, <4>1, <4>2 DEF RuleStep, Tracked
    <3> QED BY <3>1, <3>2
  <2> QED BY <2>2, <2>3, <2>4
<1>9. SentInv(q)'
  <2> SUFFICES ASSUME First(q), NEW d \in Current(q)', NEW f \in Fields, f \notin Elsewhere(q, d)'
               PROVE  /\ Unchanged(q, d, f)'
                      /\ d \notin altered'[q] => Stored(q, d, f)'
    BY <1>4 DEF SentInv, RuleStep
  <2>1. Unchanged(q, d, f)'
    <3> SUFFICES ASSUME f \notin touched'[q][d] PROVE Stored(q, d, f)'
      BY DEF Unchanged
    <3>1. f \notin touched[q][d] /\ f \notin Elsewhere(q, d) /\ d \in Cols /\ d \in Collections
      BY <1>2, <1>3, <1>5 DEF Current, TypeOK, Cols
    <3>2. CASE d \in col_lookup[q]
      <4>1. d \in Current(q)
        BY <1>5, <3>2, TXAssumption DEF Current
      <4>2. Stored(q, d, f)
        BY <3>1, <4>1 DEF CopyInv, SentInv, Unchanged
      <4>3. storage'[q][d][f] = storage[q][d][f]
        BY <1>2, <3>1, <3>2 DEF RuleStep
      <4> QED BY <1>4, <4>2, <4>3 DEF Stored, RuleStep
    <3>3. CASE d \notin col_lookup[q]
      <4>1. d = c /\ f \notin F
        BY <1>2, <1>5, <3>3 DEF Current
      <4>2. storage'[q][d][f] = AsRead(store[d][f]) /\ store[d][f] \in Value
        BY <3>1, <3>3, <4>1 DEF RuleStep, TypeOK, Table
      <4> QED BY <1>4, <4>2, Values DEF Stored, RuleStep
    <3> QED BY <3>2, <3>3
  <2>2. ASSUME d \notin altered'[q] PROVE Stored(q, d, f)'
    <3>1. d \in Cols
      BY <1>5 DEF Current, TypeOK, Cols
    <3>2. touched'[q][d] = {}
      BY <1>4, <1>8, <2>2, <3>1 DEF TrackInv, RuleStep
    <3> QED BY <2>1, <3>2 DEF Unchanged
  <2> QED BY <2>1, <2>2
<1> QED BY <1>6, <1>7, <1>8, <1>9 DEF CopyInv

\* A handler that is left without _finalize is over, or its successor has all
\* that the request changed, and cut is set.
LEMMA LeavesKeep ==
  ASSUME TypeOK, NEW q \in Requests, CopyInv(q), Leaves(q),
         UNCHANGED <<backend, store, col_lookup, storage, touched, unread, tracked>>,
         altered'[q] \subseteq altered[q], stale' = stale
  PROVE  CopyInv(q)'
<1>1. cut'[q] = TRUE /\ pc'[q] # "pipeline" /\ Redis' = Redis
  BY DEF Leaves, TypeOK, Redis
<1>2. ~First(q)'
  BY <1>1 DEF First
<1>3. ReqInv(q)'
  BY <1>1 DEF CopyInv, ReqInv, AllTouched, tracked
<1>4. WholeInv(q)'
  BY <1>1 DEF CopyInv, WholeInv, Current
<1> QED BY <1>2, <1>3, <1>4 DEF CopyInv, TrackInv, SentInv
\* A field of a copy that is there is changed.
LEMMA ChangesStep ==
  ASSUME TypeOK, NEW q \in Requests, NEW c \in Cols, NEW f \in Fields, NEW v \in Value,
         Acts(q), Changes(q, c, f, v),
         delkey[q] \subseteq delkey'[q], delkey'[q] \subseteq delkey[q] \cup {f},
         setkey_t[q] => setkey_t'[q],
         Redis => \/ v = None /\ f \in delkey'[q] /\ setkey'[q] = setkey[q]
                  \/ /\ v # None /\ setkey'[q] = [setkey[q] EXCEPT ![f] = v]
                     /\ f[1] = "key" => setkey_t'[q]
  PROVE  RuleStep(q, c, {f})
<1>1. /\ storage'[q] = [storage[q] EXCEPT ![c] = [storage[q][c] EXCEPT ![f] = v]]
      /\ touched'[q] = [touched[q] EXCEPT ![c] = touched[q][c] \cup {f}]
      /\ altered'[q] = altered[q] \cup {c}
      /\ c \in col_lookup[q] /\ UNCHANGED <<pc, col_lookup, unread, cut>>
  BY DEF Changes, TypeOK
<1>2. storage[q] \in [Cols -> Table] /\ storage[q][c] \in [Fields -> Value]
  BY DEF TypeOK, Table
<1>3. storage'[q][c][f] = v /\ \A g \in Fields \ {f} : storage'[q][c][g] = storage[q][c][g]
  BY <1>1, <1>2
<1>4. \A d \in Cols \ {c} : storage'[q][d] = storage[q][d]
  BY <1>1, <1>2
<1>5. setkey[q] \in [Fields -> Value]
  BY DEF TypeOK, Table
<1>6. /\ \A k \in Keys : Key(k) \in Fields
      /\ \A k \in Keys : Key(k) = f => f[1] = "key"
  <2>1. \A k \in Keys : Key(k)[1] = "key"
    BY DEF Key
  <2> QED BY <2>1, Values
<1>7. Redis => /\ \/ f \in delkey'[q] /\ storage'[q][c][f] = None /\ setkey'[q][f] = setkey[q][f]
                  \/ setkey'[q][f] # None /\ storage'[q][c][f] = setkey'[q][f]
               /\ \A g \in Fields \ {f} : setkey'[q][g] = setkey[q][g]
               /\ \A k \in Keys : setkey'[q][Key(k)] # None => setkey_t'[q] \/ setkey[q][Key(k)] # None
  BY <1>3, <1>5, <1>6
<1>8. /\ pc[q] = "rules" /\ UNCHANGED <<backend, store, saved, stale>>
  BY DEF Acts
<1> QED BY <1>1, <1>3, <1>4, <1>7, <1>8 DEF RuleStep

LEMMA SetsStep ==
  ASSUME TypeOK, NEW q \in Requests, NEW c \in Cols, NEW k \in Keys, NEW n \in Int,
         Sets(q, c, k, Number(n))
  PROVE  RuleStep(q, c, {Key(k)})
<1>1. Number(n) \in Value /\ Number(n) # None /\ Key(k) \in Fields
  BY Values
<1>2. Acts(q) /\ Changes(q, c, Key(k), Number(n)) /\ UNCHANGED delkey
  BY DEF Sets
<1>3. (setkey_t[q] => setkey_t'[q])
      /\ (Redis => setkey'[q] = [setkey[q] EXCEPT ![Key(k)] = Number(n)] /\ setkey_t'[q])
  BY DEF Sets, Tracks, TypeOK
<1> QED BY <1>1, <1>2, <1>3, ChangesStep

LEMMA RulesKeep ==
  ASSUME TypeOK, NEW q \in Requests, CopyInv(q), Rule(q) PROVE CopyInv(q)'
<1>1. ASSUME NEW a \in Actions[q] PROVE a.col \in Cols /\ a.key \in Keys /\ a.n \in Int
  BY ActionsAssumption DEF Action
<1>2. ASSUME NEW c \in Collections, InitCol(q, c) PROVE CopyInv(q)'
  <2> DEFINE t == [f \in Fields |-> AsRead(store[c][f])]
             F == Expired(t)
  <2>1. c \in Cols /\ F \subseteq Fields
    BY DEF Cols, Expired, Fields
  <2>2. /\ storage' = [storage EXCEPT ![q][c] = [f \in Fields |-> IF f \in F THEN None ELSE t[f]]]
        /\ altered' = [altered EXCEPT ![q] = IF F = {} THEN @ ELSE @ \cup {c}]
        /\ delkey' = [delkey EXCEPT ![q] = IF Redis THEN @ \cup F ELSE @]
        /\ touched' = [touched EXCEPT ![q][c] = touched[q][c] \cup F]
        /\ col_lookup' = [col_lookup EXCEPT ![q] = @ \cup {c}]
        /\ c \notin col_lookup[q] /\ Acts(q)
        /\ UNCHANGED <<rule_key, pc, setkey, setkey_t, unread, cut, expanded>>
    BY <1>2 DEF InitCol
  <2>3. \A f \in Fields \ F : storage'[q][c][f] = AsRead(store[c][f])
    BY <2>1, <2>2 DEF TypeOK
  <2>4. \A f \in F : storage'[q][c][f] = None
    BY <2>1, <2>2 DEF TypeOK
  <2> HIDE DEF F
  <2>5. RuleStep(q, c, F)
    BY <2>1, <2>2, <2>3, <2>4 DEF RuleStep, Acts, TypeOK
  <2> QED BY <2>1, <2>5, RuleKeeps
<1>3. ASSUME NEW c \in Collections, InitColFails(q, c) PROVE CopyInv(q)'
  <2>1. /\ UNCHANGED <<backend, store, pc, saved, storage, altered, delkey, setkey, setkey_t, pipeline,
                       touched, stale, cut>>
        /\ col_lookup'[q] = col_lookup[q] \cup {c} /\ unread'[q] = unread[q] \cup {c}
        /\ c \notin col_lookup[q] /\ pc[q] = "rules"
    BY <1>3 DEF InitColFails, Acts, TypeOK, tracked
  <2>2. Current(q)' \subseteq Current(q) /\ First(q)' = First(q) /\ Redis' = Redis
    BY <2>1 DEF Current, First, Redis
  <2>3. ReqInv(q)'
    BY <2>1, <2>2 DEF CopyInv, ReqInv, AllTouched
  <2>4. WholeInv(q)'
    BY <2>1, <2>2 DEF CopyInv, WholeInv
  <2>5. TrackInv(q)'
    BY <2>1, <2>2 DEF CopyInv, TrackInv, Tracked, Elsewhere
  <2>6. SentInv(q)'
    BY <2>1, <2>2 DEF CopyInv, SentInv, Elsewhere, Unchanged, Stored, AsRead, Unsent, Redis, Sending
  <2> QED BY <2>3, <2>4, <2>5, <2>6 DEF CopyInv
<1>4. ASSUME NEW c \in Collections, InitColDies(q, c) PROVE CopyInv(q)'
  BY <1>4, LeavesKeep DEF InitColDies, Acts
<1>5. ASSUME NEW a \in Actions[q], SetVar(q, a) PROVE CopyInv(q)'
  <2>1. RuleStep(q, a.col, {Key(a.key)})
    BY <1>1, <1>5, SetsStep DEF SetVar
  <2> QED BY <1>1, <2>1, RuleKeeps, Values
<1>6. ASSUME NEW a \in Actions[q], IncVar(q, a) PROVE CopyInv(q)'
  <2>1. Existing(q, a) \in Value
    BY <1>1, Values DEF Existing, TypeOK, Table
  <2>2. a.n + Existing(q, a).n \in Int
    BY <1>1, <2>1 DEF Value
  <2>3. RuleStep(q, a.col, {Key(a.key)})
    BY <1>1, <1>6, <2>2, SetsStep DEF IncVar
  <2> QED BY <1>1, <2>3, RuleKeeps, Values
<1>7. ASSUME NEW a \in Actions[q], IncVarDies(q, a) PROVE CopyInv(q)'
  BY <1>7, LeavesKeep DEF IncVarDies, Acts
<1>8. ASSUME NEW a \in Actions[q], SetMacroVar(q, a) PROVE CopyInv(q)'
  <2>1. PICK k \in KeyOfRule(q) :
          Sets(q, a.col, k, Number(a.n))
    BY <1>8 DEF SetMacroVar
  <2>2. k \in Keys
    BY MacroAssumption DEF TypeOK, KeyOfRule
  <2>3. RuleStep(q, a.col, {Key(k)})
    BY <1>1, <2>1, <2>2, SetsStep
  <2> QED BY <1>1, <2>2, <2>3, RuleKeeps, Values
<1>9. ASSUME NEW a \in Actions[q], ExpireVar(q, a) PROVE CopyInv(q)'
  <2> DEFINE f == Expire(a.key)
  <2>1. now + a.n \in Int /\ f \in Fields /\ f[1] # "key"
    BY <1>1, Values, BoundsAssumption DEF TypeOK, Expire
  <2>2. Number(now + a.n) \in Value /\ Number(now + a.n) # None
    BY <2>1, Values
  <2>3. /\ Acts(q) /\ Changes(q, a.col, f, Number(now + a.n)) /\ UNCHANGED <<delkey, setkey_t>>
        /\ Redis => setkey'[q] = [setkey[q] EXCEPT ![f] = Number(now + a.n)]
    BY <1>9 DEF ExpireVar, Tracks, TypeOK
  <2>4. RuleStep(q, a.col, {f})
    BY <1>1, <2>1, <2>2, <2>3, ChangesStep
  <2> QED BY <1>1, <2>1, <2>4, RuleKeeps
<1>10. ASSUME NEW a \in Actions[q], DeleteVar(q, a) PROVE CopyInv(q)'
  <2>1. Key(a.key) \in Fields /\ None \in Value
    BY <1>1, Values
  <2>2. /\ Acts(q) /\ Changes(q, a.col, Key(a.key), None) /\ UNCHANGED <<setkey, setkey_t>>
        /\ delkey'[q] = IF Redis THEN delkey[q] \cup {Key(a.key)} ELSE delkey[q]
    BY <1>10 DEF DeleteVar, TypeOK
  <2>3. RuleStep(q, a.col, {Key(a.key)})
    BY <1>1, <2>1, <2>2, ChangesStep
  <2> QED BY <1>1, <2>1, <2>3, RuleKeeps
<1>11. ASSUME NEW a \in Actions[q], SetMacroVarNowhere(q, a) PROVE CopyInv(q)'
  <2>1. OthersStep(q)
    BY <1>11 DEF SetMacroVarNowhere, Acts, OthersStep, tracked
  <2> QED BY <2>1, OthersKeep
<1> QED BY <1>2, <1>3, <1>4, <1>5, <1>6, <1>7, <1>8, <1>9, <1>10, <1>11 DEF Rule

\* Nothing of a request but where it is, what of its copies it has flagged and what is
\* being sent.
OwnFrame(q) ==
    /\ UNCHANGED <<backend, saved, col_lookup, storage, tracked, touched, unread>>
    /\ stale'[q] = stale[q] /\ altered'[q] \subseteq altered[q]

LEMMA OwnFrames ==
  ASSUME NEW q \in Requests, OwnFrame(q)
  PROVE  /\ Redis' = Redis /\ \A v : AsRead(v)' = AsRead(v)
         /\ Current(q)' = Current(q)
         /\ AllTouched(q)' = AllTouched(q) /\ \A c : Elsewhere(q, c)' = Elsewhere(q, c)
         /\ \A c : Unsent(q, c)' = Unsent(q, c)
         /\ \A c, f : Tracked(q, c, f)' = Tracked(q, c, f)
BY DEF OwnFrame, Redis, AsRead, Current, AllTouched, Elsewhere, Unsent, Tracked, tracked

\* A persist that fails: cut is set, and what was flagged stays as it is.
LEMMA CutKeeps ==
  ASSUME TypeOK, NEW q \in Requests, CopyInv(q), OwnFrame(q), store' = store,
         cut'[q] = TRUE, pc'[q] # "pipeline"
  PROVE  CopyInv(q)'
<1>1. ReqInv(q)'
  BY OwnFrames DEF CopyInv, ReqInv, OwnFrame, tracked
<1>2. WholeInv(q)'
  BY OwnFrames DEF CopyInv, WholeInv, OwnFrame
<1> QED BY <1>1, <1>2 DEF CopyInv, TrackInv, SentInv, First

LEMMA PersistKeeps ==
  ASSUME TypeOK, NEW q \in Requests, CopyInv(q), Persist(q) PROVE CopyInv(q)'
<1>1. ASSUME NEW c \in Collections, Persists(q, c), stale'[q] = stale[q]
      PROVE  /\ OwnFrame(q) /\ altered'[q] = altered[q] \ {c}
             /\ pc[q] = "persist" /\ c \in altered[q] \ {"TX"}
  BY <1>1 DEF Persists, OwnFrame, TypeOK, tracked
<1>2. ASSUME NEW c, Outdates(q, c) PROVE stale'[q] = stale[q]
  BY <1>2 DEF Outdates
<1>3. ASSUME NEW c \in Collections, PersistWhole(q, c) PROVE CopyInv(q)'
  <2>1. /\ OwnFrame(q) /\ altered'[q] = altered[q] \ {c} /\ pc[q] = "persist" /\ pc' = pc
        /\ store' = [store EXCEPT ![c] = storage[q][c]] /\ ~Redis /\ cut' = cut
    BY <1>1, <1>2, <1>3 DEF PersistWhole
  <2>2. ReqInv(q)'
    BY <2>1, OwnFrames DEF CopyInv, ReqInv, OwnFrame, tracked
  <2>3. WholeInv(q)'
    <3> SUFFICES ASSUME NEW d \in Current(q), NEW f \in Fields, storage[q][d][f] # store'[d][f]
                 PROVE  f \in touched[q][d] /\ (d \in altered'[q] \/ cut'[q])
      BY <2>1, OwnFrames DEF WholeInv, OwnFrame
    <3>1. d \in Collections
      BY DEF Current, TypeOK, Cols
    <3>2. d # c /\ store'[d] = store[d]
      BY <2>1, <3>1 DEF TypeOK
    <3> QED BY <2>1, <3>2 DEF CopyInv, WholeInv
  <2>4. ~First(q)'
    BY <2>1, OwnFrames DEF First
  <2> QED BY <2>2, <2>3, <2>4 DEF CopyInv, TrackInv, SentInv
<1>4. ASSUME NEW c \in Collections, SendPipeline(q, c) PROVE CopyInv(q)'
  <2>1. /\ OwnFrame(q) /\ altered'[q] = altered[q] \ {c} /\ pc[q] = "persist" /\ pc'[q] = "pipeline"
        /\ pipeline'[q] = [col |-> c, hdel |-> delkey[q],
                           hmset |-> IF setkey_t[q] THEN setkey[q] ELSE Empty]
        /\ Redis /\ store' = store /\ cut' = cut /\ c \in altered[q] \ {"TX"}
    BY <1>1, <1>4 DEF SendPipeline, TypeOK
  <2>2. pipeline'[q].col = c /\ pipeline'[q].hdel = delkey[q]
        /\ pipeline'[q].hmset = IF setkey_t[q] THEN setkey[q] ELSE Empty
    BY <2>1
  <2>3. ReqInv(q)'
    <3>1. \A f \in Fields : pipeline'[q].hmset[f] # None => f \in AllTouched(q)
      BY <2>1, <2>2 DEF CopyInv, ReqInv, Empty
    <3>2. c \in col_lookup[q] \ {"TX"} /\ delkey[q] \subseteq AllTouched(q)
      BY <2>1 DEF CopyInv, ReqInv
    <3> QED BY <2>1, <2>2, <3>1, <3>2, OwnFrames DEF CopyInv, ReqInv, OwnFrame, tracked
  <2>4. WholeInv(q)'
    BY <2>1, OwnFrames DEF WholeInv
  <2>5. First(q)' => First(q)
    BY <2>1, OwnFrames DEF First, OwnFrame
  <2>6. TrackInv(q)'
    BY <2>1, <2>5, OwnFrames DEF CopyInv, TrackInv, OwnFrame, tracked
  <2>7. SentInv(q)'
    <3> SUFFICES ASSUME First(q), NEW d \in Current(q), NEW f \in Fields \ Elsewhere(q, d)
                 PROVE  /\ Unchanged(q, d, f)'
                        /\ d \notin altered'[q] =>
                              IF d = c THEN Sending(q, d, f)'
                              ELSE f \in Unsent(q, d) \/ Stored(q, d, f)'
      BY <2>1, <2>2, <2>5, OwnFrames DEF SentInv
    <3>1. Unchanged(q, d, f)' = Unchanged(q, d, f) /\ Stored(q, d, f)' = Stored(q, d, f)
      BY <2>1, OwnFrames DEF OwnFrame, Unchanged, Stored
    <3>2. Sending(q, d, f)'
      BY <2>1, <2>2 DEF Sending, OwnFrame, tracked
    <3> QED BY <2>1, <3>1, <3>2 DEF CopyInv, SentInv
  <2> QED BY <2>3, <2>4, <2>6, <2>7 DEF CopyInv
<1>5. ASSUME NEW c \in Collections, PersistFails(q, c) PROVE CopyInv(q)'
  BY <1>1, <1>5, CutKeeps DEF PersistFails, TypeOK
<1>6. ASSUME NEW c \in Collections, PersistDies(q, c) PROVE CopyInv(q)'
  BY <1>1, <1>6, LeavesKeep DEF PersistDies, OwnFrame
<1>7. ASSUME InPipeline(q), stale'[q] = stale[q]
      PROVE  /\ OwnFrame(q) /\ altered' = altered /\ pc[q] = "pipeline" /\ Redis
             /\ pipeline[q].col \in Collections
             /\ pipeline[q].hdel \subseteq AllTouched(q)
             /\ \A f \in Fields : pipeline[q].hmset[f] # None => f \in AllTouched(q)
  BY <1>7 DEF InPipeline, OwnFrame, CopyInv, ReqInv, TypeOK, Cols, tracked
<1>8. ASSUME NEW c, NEW f, f \notin Elsewhere(q, c), f \notin touched[q][c]
      PROVE  f \notin AllTouched(q)
  BY <1>8 DEF AllTouched, Elsewhere
<1>9. ASSUME NEW g \in Fields, RunHdel(q, g) PROVE CopyInv(q)'
  <2> DEFINE c == pipeline[q].col
  <2>1. InPipeline(q) /\ stale'[q] = stale[q] /\ UNCHANGED <<pc, cut>> /\ g \in pipeline[q].hdel
    BY <1>2, <1>9 DEF RunHdel
  <2>2. /\ OwnFrame(q) /\ altered' = altered /\ pc[q] = "pipeline" /\ Redis /\ c \in Collections
        /\ g \in AllTouched(q)
    BY <1>7, <2>1
  <2>3. /\ pipeline'[q].col = c /\ pipeline'[q].hdel = pipeline[q].hdel \ {g}
        /\ pipeline'[q].hmset = pipeline[q].hmset
    BY <1>9 DEF RunHdel, TypeOK
  <2>4. /\ \A d \in Collections \ {c} : store'[d] = store[d]
        /\ store'[c][g] = None /\ \A f \in Fields \ {g} : store'[c][f] = store[c][f]
    BY <1>9, <2>2 DEF RunHdel, TypeOK, Table
  <2>5. ReqInv(q)'
    BY <2>1, <2>2, <2>3, OwnFrames DEF CopyInv, ReqInv, OwnFrame, tracked
  <2>6. WholeInv(q)'
    BY <2>2, OwnFrames DEF WholeInv
  <2>7. First(q)' = First(q)
    BY <2>1, <2>2, OwnFrames DEF First, OwnFrame
  <2>8. TrackInv(q)'
    BY <2>1, <2>2, <2>7, OwnFrames DEF CopyInv, TrackInv, OwnFrame, tracked
  <2>9. SentInv(q)'
    <3> SUFFICES ASSUME First(q), NEW d \in Current(q), NEW f \in Fields \ Elsewhere(q, d)
                 PROVE  /\ Unchanged(q, d, f)'
                        /\ d \notin altered[q] =>
                              IF d = c THEN Sending(q, d, f)'
                              ELSE f \in Unsent(q, d) \/ Stored(q, d, f)'
      BY <2>1, <2>2, <2>3, <2>7, OwnFrames DEF SentInv
    <3>1. /\ Unchanged(q, d, f)
          /\ d \notin altered[q] => IF d = c THEN Sending(q, d, f)
                                    ELSE f \in Unsent(q, d) \/ Stored(q, d, f)
      BY <2>2 DEF CopyInv, SentInv
    <3>2. CASE d # c
      <4>1. store'[d] = store[d]
        BY <2>4, <3>2 DEF Current, TypeOK, Cols
      <4>2. Unchanged(q, d, f)' = Unchanged(q, d, f) /\ Stored(q, d, f)' = Stored(q, d, f)
        BY <2>2, <4>1, OwnFrames DEF OwnFrame, Unchanged, Stored
      <4> QED BY <3>1, <3>2, <4>2
    <3>3. CASE d = c
      <4>1. Unchanged(q, d, f)'
        <5> SUFFICES ASSUME f \notin touched[q][d] PROVE Stored(q, d, f)'
          BY <2>2 DEF Unchanged, OwnFrame
        <5>1. f # g
          BY <1>8, <2>2
        <5>2. store'[d][f] = store[d][f] /\ Stored(q, d, f)
          BY <2>4, <3>1, <3>3, <5>1 DEF Unchanged
        <5> QED BY <2>2, <5>2, OwnFrames DEF Stored, OwnFrame
      <4>2. Sending(q, d, f) => Sending(q, d, f)'
        BY <2>2, <2>3, <2>4, <3>3 DEF Sending, OwnFrame, tracked
      <4> QED BY <3>1, <3>3, <4>1, <4>2
    <3> QED BY <3>2, <3>3
  <2> QED BY <2>5, <2>6, <2>8, <2>9 DEF CopyInv
<1>10. CASE RunHmset(q)
  <2> DEFINE c   == pipeline[q].col
             set == pipeline[q].hmset
  <2>1. InPipeline(q) /\ stale'[q] = stale[q] /\ cut' = cut /\ pipeline[q].hdel = {}
    BY <1>2, <1>10 DEF RunHmset
  <2>2. /\ OwnFrame(q) /\ altered' = altered /\ pc[q] = "pipeline" /\ Redis /\ c \in Collections
        /\ \A f \in Fields : set[f] # None => f \in AllTouched(q)
    BY <1>7, <2>1
  <2>3. pc'[q] = "persist"
    BY <1>10 DEF RunHmset, TypeOK
  <2>4. /\ \A d \in Collections \ {c} : store'[d] = store[d]
        /\ \A f \in Fields : store'[c][f] = IF set[f] # None THEN set[f] ELSE store[c][f]
    BY <1>10, <2>2 DEF RunHmset, TypeOK, Table
  <2> HIDE DEF c, set
  <2>5. ReqInv(q)'
    BY <2>2, <2>3, OwnFrames DEF CopyInv, ReqInv, OwnFrame, tracked
  <2>6. WholeInv(q)'
    BY <2>2, OwnFrames DEF WholeInv
  <2>7. First(q)' => First(q)
    BY <2>1, <2>2, OwnFrames DEF First, OwnFrame
  <2>8. TrackInv(q)'
    BY <2>2, <2>3, <2>7, OwnFrames DEF CopyInv, TrackInv, OwnFrame, tracked
  <2>9. SentInv(q)'
    <3> SUFFICES ASSUME First(q), NEW d \in Current(q), NEW f \in Fields \ Elsewhere(q, d)
                 PROVE  /\ Unchanged(q, d, f)'
                        /\ d \notin altered[q] => f \in Unsent(q, d) \/ Stored(q, d, f)'
      BY <2>2, <2>3, <2>7, OwnFrames DEF SentInv
    <3>1. /\ Unchanged(q, d, f)
          /\ d \notin altered[q] => IF d = c THEN Sending(q, d, f)
                                    ELSE f \in Unsent(q, d) \/ Stored(q, d, f)
      BY <2>2 DEF CopyInv, SentInv, c
    <3>2. CASE d # c
      <4>1. store'[d] = store[d]
        BY <2>4, <3>2 DEF Current, TypeOK, Cols
      <4>2. Unchanged(q, d, f)' = Unchanged(q, d, f) /\ Stored(q, d, f)' = Stored(q, d, f)
        BY <2>2, <4>1, OwnFrames DEF OwnFrame, Unchanged, Stored
      <4> QED BY <3>1, <3>2, <4>2
    <3>3. CASE d = c /\ f \notin touched[q][d]
      <4>1. store'[d][f] = store[d][f] /\ Stored(q, d, f)
        BY <1>8, <2>2, <2>4, <3>1, <3>3 DEF Unchanged
      <4>2. Stored(q, d, f)'
        BY <2>2, <4>1, OwnFrames DEF Stored, OwnFrame
      <4> QED BY <4>2 DEF Unchanged
    <3>4. CASE d = c /\ f \in touched[q][d]
      <4>1. Unchanged(q, d, f)'
        BY <2>2, <3>4 DEF Unchanged, OwnFrame
      <4>2. ASSUME d \notin altered[q], f \notin Unsent(q, d) PROVE Stored(q, d, f)'
        <5>1. /\ set = IF setkey_t[q] THEN setkey[q] ELSE Empty
              /\ f \in delkey[q] => store[c][f] = None
          BY <2>1, <3>1, <3>4, <4>2 DEF Sending, set
        <5>2. ~(f \in delkey[q] /\ setkey[q][f] # None) /\ (setkey_t[q] \/ f[1] # "expire")
          BY <2>2, <4>2 DEF Unsent
        <5>3. Tracked(q, d, f)
          BY <3>4 DEF CopyInv, TrackInv, Current, TypeOK
        <5>4. f[1] # "expire" => \E k \in Keys : f = Key(k)
          BY DEF Fields, Key
        <5>5. setkey_t[q] \/ setkey[q][f] = None
          BY <5>2, <5>4 DEF CopyInv, TrackInv
        <5>6. store'[c][f] = storage[q][c][f]
          BY <2>4, <3>4, <5>1, <5>2, <5>3, <5>5 DEF Tracked, Empty
        <5> QED BY <2>2, <3>4, <5>6 DEF Stored, OwnFrame
      <4> QED BY <4>1, <4>2
    <3> QED BY <3>2, <3>3, <3>4
  <2> QED BY <2>5, <2>6, <2>8, <2>9 DEF CopyInv
<1>11. CASE PipelineBreaks(q)
  BY <1>7, <1>11, CutKeeps DEF PipelineBreaks, TypeOK
<1> QED BY <1>3, <1>4, <1>5, <1>6, <1>9, <1>10, <1>11 DEF Persist

\* The steps of exec() and _finalize.
LEMMA HandlerKeeps ==
  ASSUME TypeOK, NEW q \in Requests, CopyInv(q),
         Begin(q) \/ Exits(q) \/ Finalize(q) \/ FinalizeEnds(q)
  PROVE  CopyInv(q)'
<1>1. CASE Begin(q)
  <2>1. /\ UNCHANGED <<backend, store, saved, col_lookup, storage, altered, pipeline, touched, stale,
                       unread, cut>>
        /\ pc[q] = "idle" /\ pc'[q] = "rules"
        /\ delkey'[q] = {} /\ setkey'[q] = Empty /\ setkey_t'[q] = FALSE
    BY <1>1 DEF Begin, ghosts, TypeOK
  <2>2. /\ First(q)' = First(q) /\ Redis' = Redis /\ Current(q)' = Current(q)
        /\ AllTouched(q)' = AllTouched(q) /\ \A c : Elsewhere(q, c)' = Elsewhere(q, c)
    BY <2>1 DEF First, Redis, Current, AllTouched, Elsewhere
  <2>3. ReqInv(q)'
    BY <2>1, <2>2 DEF CopyInv, ReqInv, Empty
  <2>4. WholeInv(q)'
    BY <2>1, <2>2 DEF CopyInv, WholeInv
  <2>5. First(q) => \A c \in Cols : touched[q][c] = {}
    BY <2>1 DEF CopyInv, TrackInv
  <2>6. TrackInv(q)'
    <3>1. \A k \in Keys : setkey'[q][Key(k)] = None
      BY <2>1, Values DEF Empty
    <3> QED BY <2>1, <2>2, <2>5, <3>1 DEF TrackInv
  <2>7. SentInv(q)'
    <3> SUFFICES ASSUME First(q), NEW c \in Current(q), NEW f \in Fields
                 PROVE  Stored(q, c, f)
      BY <2>1, <2>2 DEF SentInv, Unchanged, Stored, AsRead, Redis
    <3>1. c \in Cols /\ f \notin Elsewhere(q, c) /\ f \notin touched[q][c]
      BY <2>5 DEF Elsewhere, Current, TypeOK
    <3> QED BY <3>1 DEF CopyInv, SentInv, Unchanged
  <2> QED BY <2>3, <2>4, <2>6, <2>7 DEF CopyInv
<1>2. CASE Exits(q)
  BY <1>2, LeavesKeep DEF Exits
<1>3. CASE Finalize(q)
  <2>1. /\ OwnFrame(q) /\ UNCHANGED <<store, altered, pipeline, cut>>
        /\ pc[q] = "rules" /\ pc'[q] = "persist"
    BY <1>3 DEF Finalize, OwnFrame, ghosts, TypeOK
  <2>2. First(q)' = First(q)
    BY <2>1, OwnFrames DEF First, OwnFrame
  <2>3. ReqInv(q)'
    BY <2>1, OwnFrames DEF CopyInv, ReqInv, OwnFrame, tracked
  <2>4. WholeInv(q)'
    BY <2>1, OwnFrames DEF CopyInv, WholeInv, OwnFrame
  <2>5. TrackInv(q)'
    BY <2>1, <2>2, OwnFrames DEF CopyInv, TrackInv, OwnFrame, tracked
  <2>6. \A c, f : Stored(q, c, f)' = Stored(q, c, f) /\ Unchanged(q, c, f)' = Unchanged(q, c, f)
    BY <2>1, OwnFrames DEF Stored, Unchanged, OwnFrame
  <2>7. SentInv(q)'
    BY <2>1, <2>2, <2>6, OwnFrames DEF CopyInv, SentInv
  <2> QED BY <2>3, <2>4, <2>5, <2>7 DEF CopyInv
<1>4. CASE FinalizeEnds(q)
  <2>1. /\ UNCHANGED <<backend, store, col_lookup, storage, altered, tracked, pipeline, touched,
                       stale, unread, cut>>
        /\ saved'[q] = TRUE /\ pc'[q] # "pipeline"
    BY <1>4 DEF FinalizeEnds, ghosts, TypeOK
  <2>2. ReqInv(q)'
    BY <2>1 DEF CopyInv, ReqInv, AllTouched, Redis, tracked
  <2>3. WholeInv(q)'
    BY <2>1 DEF CopyInv, WholeInv, Current, Redis
  <2> QED BY <2>1, <2>2, <2>3 DEF CopyInv, TrackInv, SentInv, First
<1> QED BY <1>1, <1>2, <1>3, <1>4

\* To any other request these steps, and the clock, are nothing.
LEMMA OthersHandler ==
  ASSUME TypeOK, NEW p \in Requests, NEW q \in Requests \ {p},
         Begin(p) \/ Exits(p) \/ Finalize(p) \/ FinalizeEnds(p)
  PROVE  OthersStep(q)
BY DEF Begin, Exits, Finalize, FinalizeEnds, Leaves, OthersStep, TypeOK, tracked, ghosts

-----------------------------------------------------------------------------
(* The theorems.                                                             *)

LEMMA InitInv == Init => IInv
<1> SUFFICES ASSUME Init PROVE IInv
  OBVIOUS
<1>1. ASSUME NEW q \in Requests PROVE CopyInv(q)
  <2>1. col_lookup[q] = {"TX"} /\ Current(q) = {} /\ pc[q] = "idle" /\ altered[q] = {}
    BY DEF Init, Current
  <2>2. delkey[q] = {} /\ setkey[q] = Empty /\ \A c \in Cols : touched[q][c] = {}
    BY DEF Init
  <2>3. \A k \in Keys : setkey[q][Key(k)] = None
    BY <2>2, Values DEF Empty
  <2> QED BY <2>1, <2>2, <2>3 DEF CopyInv, ReqInv, WholeInv, TrackInv, SentInv, Empty
<1> QED BY <1>1, TypeInit DEF IInv

LEMMA StepInv == IInv /\ [Next]_vars => IInv'
<1> SUFFICES ASSUME IInv, [Next]_vars, NEW q \in Requests PROVE CopyInv(q)'
  BY TypeStep DEF IInv
<1>1. TypeOK /\ CopyInv(q)
  BY DEF IInv
<1>2. OthersStep(q) => CopyInv(q)'
  BY <1>1, OthersKeep
<1>3. ASSUME NEW p \in Requests,
             Begin(p) \/ Exits(p) \/ Finalize(p) \/ FinalizeEnds(p) \/ Rule(p) \/ Persist(p)
      PROVE  CopyInv(q)'
  <2>1. CASE p = q
    BY <1>1, <1>3, <2>1, HandlerKeeps, RulesKeep, PersistKeeps
  <2>2. CASE p # q
    BY <1>1, <1>2, <1>3, <2>2, OthersHandler, OthersRules, OthersPersist
  <2> QED BY <2>1, <2>2
<1>4. CASE Tick \/ UNCHANGED vars
  BY <1>2, <1>4 DEF Tick, vars, OthersStep, tracked, ghosts
<1>5. ASSUME NEW c \in Collections, Evict(c) PROVE CopyInv(q)'
  BY <1>1, <1>2, <1>5 DEF Evict, OthersStep, tracked, TypeOK
<1> QED BY <1>3, <1>4, <1>5 DEF Next

THEOREM Invariance == Spec => []IInv
BY InitInv, StepInv, PTL DEF Spec

\* Each request keeps its own copies, its tables of what is tracked and its pipeline;
\* nothing but values is stored.
THEOREM TypeCorrect == Spec => []TypeOK
<1>1. IInv => TypeOK
  BY DEF IInv
<1> QED BY <1>1, Invariance, PTL

\* persist: at the end of a handler that reached its backend, a copy that no other
\* request has outdated is what is stored, field by field, except for what redis is
\* known not to be sent.
THEOREM CopiesArrive == Spec => []CopiesPersisted
<1>1. IInv => CopiesPersisted
  <2> SUFFICES ASSUME IInv, NEW r \in Requests, Persisted(r), ~cut[r], Redis => ~saved[r],
                      NEW c \in Current(r), NEW f \in Fields
               PROVE  f \in Unsent(r, c) \/ Stored(r, c, f)
    BY DEF CopiesPersisted
  <2>1. CopyInv(r) /\ c \notin altered[r] /\ pc[r] = "persist"
    BY DEF IInv, Persisted, Current
  <2>2. CASE Redis
    <3>1. f \in Elsewhere(r, c) => f \in Unsent(r, c)
      BY <2>2 DEF Elsewhere, Unsent
    <3> QED BY <2>1, <2>2, <3>1 DEF CopyInv, SentInv, First
  <2>3. CASE ~Redis
    BY <2>1, <2>3 DEF CopyInv, WholeInv, Stored
  <2> QED BY <2>2, <2>3
<1> QED BY <1>1, Invariance, PTL

\* persist: who changes a field that is stored has changed it in a copy, of that
\* collection or on redis of any, unless it writes back a whole copy that was stale or
\* had never been read.
THEOREM OthersAreKept == Spec => KeepsOthersKeys
<1> DEFINE Own(c, f, r) ==
        /\ pc[r] \in {"persist", "pipeline"}
        /\ \/ f \in touched[r][c]
           \/ Redis /\ \E d \in Cols : f \in touched[r][d]
           \/ ~Redis /\ c \in altered[r] /\ c \in stale[r] \cup unread[r]
<1>1. ASSUME IInv, [Next]_vars, NEW c \in Collections, NEW f \in Fields,
             store'[c][f] # store[c][f], ~Evict(c)
      PROVE  \E r \in Requests : Own(c, f, r)
  <2>1. TypeOK /\ \A r \in Requests : CopyInv(r)
    BY <1>1 DEF IInv
  <2>9. ASSUME NEW e \in Collections, Evict(e) PROVE FALSE
    <3>1. store' = [store EXCEPT ![e] = Empty] /\ e # c
      BY <1>1, <2>9 DEF Evict
    <3> QED BY <1>1, <2>1, <3>1 DEF TypeOK
  <2>2. PICK r \in Requests : Persist(r)
    BY <1>1, <2>9 DEF Next, Begin, Exits, Finalize, FinalizeEnds, Tick, vars, Rule, InitCol, InitColFails,
                InitColDies, SetVar, IncVar, IncVarDies, SetMacroVar, SetMacroVarNowhere, ExpireVar,
                DeleteVar, Sets, Acts
  <2>3. ASSUME NEW e \in Collections, PersistWhole(r, e) PROVE Own(c, f, r)
    <3>1. store' = [store EXCEPT ![e] = storage[r][e]] /\ ~Redis /\ pc[r] = "persist"
          /\ e \in altered[r] \ {"TX"}
      BY <2>3 DEF PersistWhole, Persists
    <3>2. c = e /\ storage[r][c][f] # store[c][f]
      BY <1>1, <2>1, <3>1 DEF TypeOK
    <3>3. c \in col_lookup[r]
      BY <2>1, <3>1, <3>2 DEF CopyInv, ReqInv
    <3>4. c \in Current(r) => f \in touched[r][c]
      BY <2>1, <3>1, <3>2 DEF CopyInv, WholeInv
    <3> QED BY <3>1, <3>2, <3>3, <3>4 DEF Current
  <2>4. ASSUME pc[r] = "pipeline", f \in AllTouched(r), Redis PROVE Own(c, f, r)
    BY <2>4 DEF AllTouched
  <2>5. ASSUME InPipeline(r)
        PROVE  /\ pc[r] = "pipeline" /\ Redis /\ pipeline[r].col \in Collections
               /\ pipeline[r].hdel \subseteq AllTouched(r)
               /\ \A g \in Fields : pipeline[r].hmset[g] # None => g \in AllTouched(r)
    BY <2>1, <2>5 DEF InPipeline, CopyInv, ReqInv, TypeOK, Cols
  <2>6. ASSUME NEW g \in Fields, RunHdel(r, g) PROVE Own(c, f, r)
    <3>1. InPipeline(r) /\ g \in pipeline[r].hdel
      BY <2>6 DEF RunHdel
    <3>2. f = g
      BY <1>1, <2>1, <2>6 DEF RunHdel, TypeOK, Table
    <3> QED BY <2>4, <2>5, <3>1, <3>2
  <2>7. CASE RunHmset(r)
    <3>1. InPipeline(r)
      BY <2>7 DEF RunHmset
    <3>2. pipeline[r].hmset[f] # None
      BY <1>1, <2>1, <2>7 DEF RunHmset, TypeOK, Table
    <3> QED BY <2>4, <2>5, <3>1, <3>2
  <2>8. CASE store' = store
    BY <1>1, <2>8
  <2> QED BY <2>2, <2>3, <2>6, <2>7, <2>8 DEF Persist, SendPipeline, PersistFails, PersistDies,
                                              PipelineBreaks
<1>2. IInv /\ [Next]_vars => \A c \in Collections, f \in Fields : store'[c][f] # store[c][f] /\ ~Evict(c) =>
                                 \E r \in Requests : Own(c, f, r)
  BY <1>1
<1> HIDE DEF Own
<1>3. IInv /\ [Next]_vars =>
        [\A c \in Collections, f \in Fields : store'[c][f] # store[c][f] /\ ~Evict(c) =>
            \E r \in Requests : Own(c, f, r)]_vars
  BY <1>2
<1>4. Spec => [][\A c \in Collections, f \in Fields : store'[c][f] # store[c][f] /\ ~Evict(c) =>
                    \E r \in Requests : Own(c, f, r)]_vars
  BY <1>3, Invariance, PTL DEF Spec
<1> QED BY <1>4 DEF KeepsOthersKeys, Own
=============================================================================
