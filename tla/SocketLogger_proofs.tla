------------------------ MODULE SocketLogger_proofs ------------------------
(***************************************************************************)
(* Theorems about SocketLogger, for every set of messages and of coroutines, *)
(* every limit and any number of calls.                                     *)
(*                                                                         *)
(* The inductive invariant is the conjunction of the module's invariants:    *)
(* none of them is inductive alone. That a send lets go of just what it sent  *)
(* (NothingLost) needs PacketIsBuffer; that the buffer a coroutine is sending *)
(* from does not change under it needs OneFlusher; and the limit on the       *)
(* buffers is one on their size only by BufferAccounted.                     *)
(***************************************************************************)
EXTENDS SocketLogger, SequenceTheorems, TLAPS

Stored == NothingLost /\ BufferAccounted /\ WithinDropLimit

IInv == TypeOK /\ OneFlusher /\ PacketIsBuffer /\ Stored

\* What no step of _flush but the last, successful one touches.
Frame == UNCHANGED <<need_periodic_flush, pending, callers, confirmed>>

LEMMA InitInv == Init => IInv
<1> SUFFICES ASSUME Init PROVE IInv
  OBVIOUS
<1>1. <<>> \in Seq(Byte) /\ Len(<<>>) = 0
  BY EmptySeq
<1>2. TypeOK
  BY <1>1, SettingsAssumption DEF Init, TypeOK
<1>3. OneFlusher /\ PacketIsBuffer
  BY DEF Init, OneFlusher, PacketIsBuffer
<1>4. Stored
  <2>1. accepted = confirmed \o send_buffer \o log_buffer
    BY <1>1, ConcatEmptySeq DEF Init
  <2> QED BY <1>1, <2>1, LimitsAssumption
          DEF Init, Stored, NothingLost, BufferAccounted, WithinDropLimit
<1> QED BY <1>2, <1>3, <1>4 DEF IInv

\* Lines moved from the one buffer to the other, or left alone, stay stored.
LEMMA MoveStored ==
  ASSUME TypeOK, Stored, UNCHANGED <<callers, confirmed>>,
         \/ UNCHANGED buffers
         \/ /\ send_buffer' = send_buffer \o log_buffer
            /\ log_buffer' = <<>>
            /\ UNCHANGED buffer_size
  PROVE  Stored'
<1>1. CASE UNCHANGED buffers
  BY <1>1 DEF Stored, NothingLost, BufferAccounted, WithinDropLimit, buffers, callers
<1>2. CASE /\ send_buffer' = send_buffer \o log_buffer
           /\ log_buffer' = <<>>
           /\ UNCHANGED buffer_size
  <2>1. /\ log_buffer \in Seq(Byte) /\ send_buffer \in Seq(Byte)
        /\ confirmed \in Seq(Byte) /\ accepted \in Seq(Byte)
    BY DEF TypeOK
  <2>2. /\ send_buffer' \in Seq(Byte)
        /\ Len(send_buffer') = Len(send_buffer) + Len(log_buffer)
    BY <1>2, <2>1, ConcatProperties
  <2>3. confirmed \o send_buffer' \in Seq(Byte)
    BY <2>1, <2>2, ConcatProperties
  <2>4. confirmed' \o send_buffer' \o log_buffer' = confirmed \o send_buffer'
    BY <1>2, <2>3, ConcatEmptySeq
  <2>5. @ = (confirmed \o send_buffer) \o log_buffer
    BY <1>2, <2>1, ConcatAssociative
  <2>6. NothingLost'
    BY <2>4, <2>5 DEF Stored, NothingLost, callers
  <2>7. Len(log_buffer') = 0
    BY <1>2, EmptySeq
  <2>8. /\ Len(send_buffer) \in Nat /\ Len(log_buffer) \in Nat
    BY <2>1, LenProperties
  <2> QED BY <1>2, <2>2, <2>6, <2>7, <2>8
          DEF Stored, BufferAccounted, WithinDropLimit, callers
<1> QED BY <1>1, <1>2

\* An attempt of a coroutine that nobody else keeps from it.
LEMMA AttemptInv ==
  ASSUME IInv, NEW c \in Coroutines, NEW n \in Nat,
         \A d \in Coroutines : pc[d] # "idle" => d = c,
         Attempt(c, n, FALSE), flushing' = TRUE,
         tick' \in {"set", "running", "off"}, pending' \in Nat,
         UNCHANGED <<need_periodic_flush, callers, confirmed>>
  PROVE  IInv'
<1>1. /\ TypeOK /\ Stored
      /\ send_buffer \in Seq(Byte) /\ log_buffer \in Seq(Byte)
  BY DEF IInv, TypeOK
<1>2. send_buffer' \in Seq(Byte) /\ log_buffer' \in Seq(Byte)
  BY <1>1, ConcatProperties, EmptySeq DEF Attempt
<1>3. TypeOK'
  BY <1>1, <1>2 DEF TypeOK, Attempt, callers
<1>4. Stored'
  BY <1>1, MoveStored DEF Attempt
<1>5. pc' = [pc EXCEPT ![c] = "connect"] /\ connecting' = TRUE
  BY DEF Attempt
<1>6. \A d \in Coroutines : IF d = c THEN pc'[d] = "connect" ELSE pc'[d] = "idle"
  BY <1>1, <1>5 DEF TypeOK
<1>7. OneFlusher'
  BY <1>5, <1>6 DEF OneFlusher
<1>8. PacketIsBuffer'
  BY <1>1, <1>6 DEF PacketIsBuffer, Attempt, TypeOK
<1> QED BY <1>3, <1>4, <1>7, <1>8 DEF IInv

\* A coroutine that flushes is the only one, and holds the lock.
LEMMA Alone ==
  ASSUME IInv, NEW c \in Coroutines, pc[c] # "idle"
  PROVE  /\ flushing
         /\ \A d \in Coroutines : pc[d] # "idle" => d = c
         /\ pc[c] \in {"send", "send_sleep"} => ~connecting
         /\ pc[c] # "refused"
BY DEF IInv, OneFlusher

LEMMA EndsType ==
  ASSUME TypeOK, NEW c \in Coroutines, Ends(c)
  PROVE  tick' \in {"set", "running", "off"}
BY DEF TypeOK, Ends

LEMMA SendAgainInv ==
  ASSUME IInv, NEW c \in Coroutines, pc[c] # "idle", SendAgain(c, FALSE), Frame
  PROVE  IInv'
<1>1. /\ TypeOK /\ Stored
      /\ flushing /\ \A d \in Coroutines : pc[d] # "idle" => d = c
  BY Alone DEF IInv
<1>2. CASE retry_send < max_retry_times
  <2>1. /\ Attempt(c, retry_send + 1, FALSE) /\ UNCHANGED <<flushing, tick>>
    BY <1>2 DEF SendAgain
  <2> DEFINE n == retry_send + 1
  <2>2. Attempt(c, n, FALSE)
    BY <2>1
  <2>4. n \in Nat
    BY <1>1 DEF TypeOK
  <2>3. /\ flushing' = TRUE /\ tick' \in {"set", "running", "off"}
        /\ pending' \in Nat
        /\ UNCHANGED <<need_periodic_flush, callers, confirmed>>
    BY <1>1, <2>1 DEF TypeOK, Frame
  <2> HIDE DEF n
  <2> QED BY <1>1, <2>2, <2>3, <2>4, AttemptInv
<1>3. CASE ~(retry_send < max_retry_times)
  <2>1. /\ retry_send' = retry_send + 1
        /\ flushing' = FALSE /\ connecting' = FALSE
        /\ pc' = [pc EXCEPT ![c] = "idle"]
        /\ packet' = [packet EXCEPT ![c] = <<>>]
        /\ Ends(c)
        /\ UNCHANGED <<buffers, retry_connect>>
    BY <1>3 DEF SendAgain
  <2>2. tick' \in {"set", "running", "off"}
    BY <1>1, <2>1, EndsType
  <2>7. /\ pc' \in [Coroutines -> {"idle", "connect", "connect_sleep", "refused",
                                   "send", "send_sleep"}]
        /\ packet' \in [Coroutines -> Seq(Byte)]
        /\ retry_send' \in Nat
    BY <1>1, <2>1, EmptySeq DEF TypeOK
  <2>3. TypeOK'
    BY <1>1, <2>1, <2>2, <2>7 DEF TypeOK, Frame, callers, buffers
  <2>4. Stored'
    BY <1>1, <2>1, MoveStored DEF Frame
  <2>5. \A d \in Coroutines : pc'[d] = "idle"
    BY <1>1, <2>1 DEF TypeOK
  <2>6. OneFlusher' /\ PacketIsBuffer'
    BY <2>1, <2>5 DEF OneFlusher, PacketIsBuffer
  <2> QED BY <2>3, <2>4, <2>6 DEF IInv
<1> QED BY <1>2, <1>3

LEMMA AttemptFailsInv ==
  ASSUME IInv, NEW c \in Coroutines, pc[c] # "idle", AttemptFails(c, FALSE), Frame
  PROVE  IInv'
<1>1. /\ TypeOK /\ Stored
      /\ flushing /\ \A d \in Coroutines : pc[d] # "idle" => d = c
  BY Alone DEF IInv
<1>2. CASE exiting
  BY <1>2, SendAgainInv DEF AttemptFails
<1>3. CASE ~exiting
  <2>1. /\ pc' = [pc EXCEPT ![c] = "send_sleep"]
        /\ packet' = [packet EXCEPT ![c] = <<>>]
        /\ connecting' = FALSE
        /\ UNCHANGED <<buffers, flushing, retries, tick>>
    BY <1>3 DEF AttemptFails
  <2>2. TypeOK'
    BY <1>1, <2>1, EmptySeq DEF TypeOK, Frame, callers, buffers, retries
  <2>3. Stored'
    BY <1>1, <2>1, MoveStored DEF Frame
  <2>4. \A d \in Coroutines : IF d = c THEN pc'[d] = "send_sleep" ELSE pc'[d] = "idle"
    BY <1>1, <2>1 DEF TypeOK
  <2>5. OneFlusher' /\ PacketIsBuffer'
    BY <1>1, <2>1, <2>4 DEF OneFlusher, PacketIsBuffer
  <2> QED BY <2>2, <2>3, <2>5 DEF IInv
<1> QED BY <1>2, <1>3

\* A step within the same connect: nothing moves but the coroutine.
LEMMA ConnectStepInv ==
  ASSUME IInv, NEW c \in Coroutines, pc[c] \in {"connect", "connect_sleep"},
         NEW where \in {"connect", "connect_sleep", "send"},
         pc' = [pc EXCEPT ![c] = where],
         connecting' = (where # "send"),
         retry_connect' \in Nat,
         UNCHANGED <<buffers, flushing, retry_send, packet, tick>>, Frame
  PROVE  IInv'
<1>1. /\ TypeOK /\ Stored
      /\ flushing /\ \A d \in Coroutines : pc[d] # "idle" => d = c
  BY Alone DEF IInv
<1>2. TypeOK'
  BY <1>1 DEF TypeOK, Frame, callers, buffers
<1>3. Stored'
  BY <1>1, MoveStored DEF Frame
<1>4. \A d \in Coroutines : IF d = c THEN pc'[d] = where ELSE pc'[d] = "idle"
  BY <1>1 DEF TypeOK
<1>5. OneFlusher'
  BY <1>1, <1>4 DEF OneFlusher
<1>6. PacketIsBuffer'
  BY <1>4 DEF PacketIsBuffer, IInv, buffers
<1> QED BY <1>2, <1>3, <1>5, <1>6 DEF IInv

LEMMA ConnectAgainInv ==
  ASSUME IInv, NEW c \in Coroutines, pc[c] \in {"connect", "connect_sleep"},
         ConnectAgain(c), Frame
  PROVE  IInv'
<1>1. CASE retry_connect < max_retry_times
  <2>1. /\ retry_connect' = retry_connect + 1
        /\ pc' = [pc EXCEPT ![c] = "connect"]
        /\ UNCHANGED <<buffers, flushing, connecting, retry_send, packet, tick>>
    BY <1>1 DEF ConnectAgain
  <2>2. retry_connect' \in Nat /\ connecting' = TRUE
    BY <2>1 DEF IInv, TypeOK, OneFlusher
  <2> QED BY <2>1, <2>2, ConnectStepInv
<1>2. CASE ~(retry_connect < max_retry_times)
  BY <1>2, AttemptFailsInv DEF ConnectAgain
<1> QED BY <1>1, <1>2

\* Bytes that are put at the end of a sequence of buffers go to the last of them.
LEMMA Regroup ==
  \A f, l, m \in Seq(Byte) : (f \o l) \o m = f \o (l \o m)
BY ConcatAssociative

\* Accepting a message.
LEMMA WriteStored ==
  ASSUME IInv, NEW msg \in Messages, Write(msg), UNCHANGED confirmed,
         exiting' \/ (exiting' = exiting /\ buffer_size + Len(msg) <= drop_limit)
  PROVE  /\ log_buffer' \in Seq(Byte) /\ accepted' \in Seq(Byte) /\ buffer_size' \in Nat
         /\ Stored'
<1>1. /\ msg \in Seq(Byte) /\ log_buffer \in Seq(Byte) /\ send_buffer \in Seq(Byte)
      /\ confirmed \in Seq(Byte) /\ accepted \in Seq(Byte)
      /\ buffer_size = Len(send_buffer) + Len(log_buffer) /\ buffer_size \in Nat
      /\ accepted = confirmed \o send_buffer \o log_buffer
  BY MessagesAssumption DEF IInv, TypeOK, Stored, NothingLost, BufferAccounted
<1>2. /\ Len(msg) \in Nat /\ Len(send_buffer) \in Nat /\ Len(log_buffer) \in Nat
  BY <1>1, LenProperties
<1>3. /\ log_buffer' \in Seq(Byte) /\ accepted' \in Seq(Byte)
      /\ Len(log_buffer') = Len(log_buffer) + Len(msg)
  BY <1>1, ConcatProperties DEF Write
<1>4. /\ buffer_size' \in Nat
      /\ buffer_size' = Len(send_buffer') + Len(log_buffer')
  BY <1>1, <1>2, <1>3 DEF Write
<1>5. NothingLost'
  <2>1. confirmed \o send_buffer \in Seq(Byte)
    BY <1>1, ConcatProperties
  <2>2. accepted' = ((confirmed \o send_buffer) \o log_buffer) \o msg
    BY <1>1 DEF Write
  <2>3. @ = (confirmed \o send_buffer) \o (log_buffer \o msg)
    BY <1>1, <2>1, Regroup
  <2> QED BY <2>2, <2>3 DEF NothingLost, Write
<1>6. WithinDropLimit'
  BY <1>2, <1>4, LimitsAssumption DEF WithinDropLimit, Write
<1> QED BY <1>3, <1>4, <1>5, <1>6 DEF Stored, BufferAccounted

\* What log() does to the coroutines: nothing.
LEMMA LogInv ==
  ASSUME IInv, NEW msg \in Messages, Log(msg)
  PROVE  IInv'
<1>1. /\ UNCHANGED <<flushing, connecting, retries, pc, packet, tick, worker_exiting,
                     confirmed>>
      /\ UNCHANGED send_buffer
      /\ calls' = calls + 1
  BY DEF Log, LogExiting, LogBuffers, LogFlushes, LogDrops, Called, Write, buffers
<1>2. /\ pending' \in Nat /\ need_periodic_flush' \in BOOLEAN /\ exiting' \in BOOLEAN
      /\ calls' \in Nat
  <2>1. /\ pending \in Nat /\ calls \in Nat
        /\ need_periodic_flush \in BOOLEAN /\ exiting \in BOOLEAN
    BY DEF IInv, TypeOK
  <2>2. CASE LogBuffers(msg)
    BY <1>1, <2>1, <2>2 DEF LogBuffers
  <2>3. CASE FlushBuffer /\ exiting' \in BOOLEAN
    <3>1. pending' = pending + 1 \/ pending' = pending
      BY <2>3 DEF FlushBuffer
    <3>2. pending' \in Nat
      BY <2>1, <3>1
    <3>3. need_periodic_flush' \in BOOLEAN
      BY <2>3 DEF FlushBuffer
    <3> QED BY <1>1, <2>1, <2>3, <3>2, <3>3
  <2>4. CASE LogExiting(msg)
    BY <2>3, <2>4 DEF LogExiting
  <2>5. CASE LogFlushes(msg)
    BY <2>1, <2>3, <2>5 DEF LogFlushes
  <2>6. CASE LogDrops(msg)
    BY <2>1, <2>3, <2>6 DEF LogDrops
  <2> QED BY <2>2, <2>4, <2>5, <2>6 DEF Log
<1>3. /\ log_buffer' \in Seq(Byte) /\ accepted' \in Seq(Byte) /\ buffer_size' \in Nat
      /\ Stored'
  <2>1. CASE LogDrops(msg)
    BY <2>1 DEF LogDrops, Called, buffers, IInv, TypeOK, Stored, NothingLost,
                BufferAccounted, WithinDropLimit
  <2>2. CASE LogExiting(msg)
    BY <2>2, WriteStored DEF LogExiting, Called
  <2>3. CASE LogBuffers(msg) \/ LogFlushes(msg)
    <3>1. /\ msg \in Seq(Byte) /\ buffer_size \in Nat
      BY MessagesAssumption DEF IInv, TypeOK
    <3>2. Len(msg) \in Nat
      BY <3>1, LenProperties
    <3>3. buffer_size + Len(msg) <= drop_limit
      BY <2>3, <3>1, <3>2, LimitsAssumption DEF LogBuffers, LogFlushes
    <3>4. Write(msg) /\ exiting' = exiting /\ confirmed' = confirmed
      BY <2>3 DEF LogBuffers, LogFlushes, Called
    <3> QED BY <3>3, <3>4, WriteStored
  <2> QED BY <2>1, <2>2, <2>3 DEF Log
<1>4. TypeOK'
  BY <1>1, <1>2, <1>3 DEF IInv, TypeOK, retries
<1>5. OneFlusher' /\ PacketIsBuffer'
  BY <1>1 DEF IInv, OneFlusher, PacketIsBuffer
<1> QED BY <1>3, <1>4, <1>5 DEF IInv

LEMMA FlushInv ==
  ASSUME IInv, NEW c \in Coroutines, Flush(c), pending' \in Nat,
         UNCHANGED <<need_periodic_flush, callers, confirmed>>
  PROVE  IInv'
<1>1. TypeOK /\ Stored
  BY DEF IInv
<1>2. CASE flushing \/ buffer_size = 0
  <2>1. /\ Ends(c)
        /\ UNCHANGED <<buffers, flushing, connecting, retries, pc, packet>>
    BY <1>2 DEF Flush
  <2>2. tick' \in {"set", "running", "off"}
    BY <1>1, <2>1, EndsType
  <2>3. TypeOK'
    BY <1>1, <2>1, <2>2 DEF TypeOK, callers, buffers, retries
  <2>4. Stored'
    BY <1>1, <2>1, MoveStored
  <2>5. OneFlusher' /\ PacketIsBuffer'
    BY <2>1 DEF IInv, OneFlusher, PacketIsBuffer, buffers
  <2> QED BY <2>3, <2>4, <2>5 DEF IInv
<1>3. CASE ~(flushing \/ buffer_size = 0)
  <2>1. /\ flushing' = TRUE /\ Attempt(c, 0, connecting)
        /\ tick' = IF c = Ticker THEN "running" ELSE tick
    BY <1>3 DEF Flush
  <2>2. \A d \in Coroutines : pc[d] = "idle"
    BY <1>3 DEF IInv, OneFlusher
  <2>3. connecting = FALSE
    BY <2>2 DEF IInv, OneFlusher, TypeOK
  <2>4. tick' \in {"set", "running", "off"}
    BY <1>1, <2>1 DEF TypeOK
  <2> QED BY <2>1, <2>2, <2>3, <2>4, AttemptInv
<1> QED BY <1>2, <1>3

\* The packet has arrived: it leaves the buffer.
LEMMA SentInv ==
  ASSUME IInv, NEW c \in Coroutines, Sent(c)
  PROVE  IInv'
<1>1. /\ TypeOK /\ Stored
      /\ flushing /\ \A d \in Coroutines : pc[d] # "idle" => d = c
      /\ ~connecting
  BY Alone DEF IInv, Sent
<1>2. /\ log_buffer \in Seq(Byte) /\ send_buffer \in Seq(Byte)
      /\ confirmed \in Seq(Byte)
      /\ buffer_size = Len(send_buffer) + Len(log_buffer)
      /\ accepted = confirmed \o send_buffer \o log_buffer
  BY <1>1 DEF TypeOK, Stored, NothingLost, BufferAccounted
<1>3. /\ Len(send_buffer) \in Nat /\ Len(log_buffer) \in Nat
      /\ <<>> \in Seq(Byte) /\ Len(<<>>) = 0
  BY <1>2, LenProperties, EmptySeq
<1>4. confirmed' = confirmed \o send_buffer /\ confirmed' \in Seq(Byte)
  <2>1. packet[c] = send_buffer
    BY DEF Sent, IInv, PacketIsBuffer
  <2> QED BY <1>2, <2>1, ConcatProperties DEF Sent
<1>5. tick' \in {"set", "running", "off"}
  BY <1>1, EndsType DEF Sent
<1>6. /\ pc' \in [Coroutines -> {"idle", "connect", "connect_sleep", "refused",
                                 "send", "send_sleep"}]
      /\ packet' \in [Coroutines -> Seq(Byte)]
  BY <1>1, <1>3 DEF TypeOK, Sent
<1>7. buffer_size' = Len(log_buffer) /\ buffer_size' \in Nat
  BY <1>2, <1>3 DEF Sent
<1>8. TypeOK'
  BY <1>1, <1>3, <1>4, <1>5, <1>6, <1>7 DEF TypeOK, Sent, callers, retries
<1>9. Stored'
  <2>1. confirmed' \o send_buffer' = confirmed'
    BY <1>4, ConcatEmptySeq DEF Sent
  <2>2. NothingLost'
    BY <1>2, <1>4, <2>1 DEF NothingLost, Sent, callers
  <2>3. BufferAccounted'
    BY <1>3, <1>7 DEF BufferAccounted, Sent
  <2>4. WithinDropLimit'
    <3>1. exiting' = exiting /\ Len(send_buffer') = 0 /\ log_buffer' = log_buffer
      BY <1>3 DEF Sent, callers
    <3>2. ~exiting => Len(send_buffer) + Len(log_buffer) <= drop_limit
      BY <1>1 DEF Stored, WithinDropLimit
    <3> QED BY <1>3, <3>1, <3>2, LimitsAssumption DEF WithinDropLimit
  <2> QED BY <2>2, <2>3, <2>4 DEF Stored
<1>10. \A d \in Coroutines : pc'[d] = "idle"
  BY <1>1 DEF TypeOK, Sent
<1>11. OneFlusher' /\ PacketIsBuffer'
  BY <1>1, <1>10 DEF OneFlusher, PacketIsBuffer, Sent
<1> QED BY <1>8, <1>9, <1>11 DEF IInv

-----------------------------------------------------------------------------

LEMMA StepInv == IInv /\ [Next]_vars => IInv'
<1> SUFFICES ASSUME IInv, [Next]_vars PROVE IInv'
  OBVIOUS
<1> USE DEF IInv
<1>1. ASSUME NEW msg \in Messages, Log(msg) PROVE IInv'
  BY <1>1, LogInv
<1>2. ASSUME NEW c \in Timers, TimerFires(c) PROVE IInv'
  <2>1. pending' \in Nat
    BY <1>2 DEF TimerFires, TypeOK
  <2> QED BY <1>2, <2>1, FlushInv DEF TimerFires, Coroutines
<1>3. CASE PeriodicFlushes
  <2>1. pending' \in Nat
    BY <1>3 DEF PeriodicFlushes, TypeOK
  <2> QED BY <1>3, <2>1, FlushInv DEF PeriodicFlushes, Coroutines
<1>4. CASE PeriodicSkips
  <2>1. tick' \in {"set", "running", "off"}
    BY <1>4, EndsType DEF PeriodicSkips, Coroutines
  <2>2. TypeOK'
    BY <1>4, <2>1 DEF PeriodicSkips, TypeOK, callers, buffers, retries
  <2>3. Stored'
    BY <1>4, MoveStored DEF PeriodicSkips
  <2>4. OneFlusher' /\ PacketIsBuffer'
    BY <1>4 DEF PeriodicSkips, OneFlusher, PacketIsBuffer, buffers
  <2> QED BY <2>2, <2>3, <2>4
<1>5. ASSUME NEW c \in Coroutines, ConnectFails(c) PROVE IInv'
  <2>1. pc[c] = "connect" /\ Frame
    BY <1>5 DEF ConnectFails, Waits, Frame
  <2>2. CASE exiting
    BY <1>5, <2>1, <2>2, ConnectAgainInv DEF ConnectFails
  <2>3. CASE ~exiting
    <3>1. /\ pc' = [pc EXCEPT ![c] = "connect_sleep"]
          /\ UNCHANGED <<buffers, flushing, connecting, retries, packet, tick>>
      BY <1>5, <2>3 DEF ConnectFails
    <3>2. retry_connect' \in Nat /\ connecting' = TRUE /\ retry_send' = retry_send
      BY <2>1, <3>1 DEF TypeOK, OneFlusher, retries
    <3> QED BY <2>1, <3>1, <3>2, ConnectStepInv
  <2> QED BY <2>2, <2>3
<1>6. ASSUME NEW c \in Coroutines, ConnectSleepEnds(c) PROVE IInv'
  BY <1>6, ConnectAgainInv DEF ConnectSleepEnds, Waits, Frame
<1>7. ASSUME NEW c \in Coroutines, Connected(c) PROVE IInv'
  <2>1. retry_connect' \in Nat /\ retry_send' = retry_send
    BY <1>7 DEF Connected, TypeOK, retries
  <2> QED BY <1>7, <2>1, ConnectStepInv DEF Connected, Waits, Frame
<1>8. ASSUME NEW c \in Coroutines, SendFails(c) PROVE IInv'
  <2>1. pc[c] = "send" /\ connecting = FALSE
    BY <1>8, Alone DEF SendFails, Waits, TypeOK
  <2> QED BY <1>8, <2>1, AttemptFailsInv DEF SendFails, Waits, Frame
<1>9. ASSUME NEW c \in Coroutines, SendSleepEnds(c) PROVE IInv'
  <2>1. pc[c] = "send_sleep" /\ connecting = FALSE
    BY <1>9, Alone DEF SendSleepEnds, Waits, TypeOK
  <2> QED BY <1>9, <2>1, SendAgainInv DEF SendSleepEnds, Waits, Frame
<1>10. ASSUME NEW c \in Coroutines, Sent(c) PROVE IInv'
  BY <1>10, SentInv
<1>11. CASE WorkerExits
  <2>1. TypeOK'
    BY <1>11 DEF WorkerExits, TypeOK, buffers, retries
  <2>2. Stored' /\ OneFlusher' /\ PacketIsBuffer'
    BY <1>11 DEF WorkerExits, Stored, NothingLost, BufferAccounted, WithinDropLimit,
                 OneFlusher, PacketIsBuffer, buffers
  <2> QED BY <2>1, <2>2
<1>12. CASE UNCHANGED vars
  <2>1. TypeOK'
    BY <1>12 DEF vars, TypeOK, buffers, retries, callers
  <2>2. Stored' /\ OneFlusher' /\ PacketIsBuffer'
    BY <1>12 DEF vars, Stored, NothingLost, BufferAccounted, WithinDropLimit,
                 OneFlusher, PacketIsBuffer, buffers, callers
  <2> QED BY <2>1, <2>2
<1> QED BY <1>1, <1>2, <1>3, <1>4, <1>5, <1>6, <1>7, <1>8, <1>9, <1>10, <1>11, <1>12
        DEF Next, Answers, Wakes

\* All that follows rests on this: the conjunction of the invariants is kept.
THEOREM Invariance == Spec => []IInv
BY InitInv, StepInv, PTL DEF Spec

\* Every variable stays in its type: above all, buffer_size, which is only ever
\* added to and subtracted from, never becomes negative.
THEOREM TypeCorrect == Spec => []TypeOK
<1>1. IInv => TypeOK
  BY DEF IInv
<1> QED BY <1>1, Invariance, PTL

\* However many timers fire, one coroutine at a time flushes, and the "previous
\* connection not finished" of _connect is never reached.
THEOREM FlushLock == Spec => []OneFlusher
<1>1. IInv => OneFlusher
  BY DEF IInv
<1> QED BY <1>1, Invariance, PTL

\* What a successful send lets go of is what it has sent.
THEOREM PacketStable == Spec => []PacketIsBuffer
<1>1. IInv => PacketIsBuffer
  BY DEF IInv
<1> QED BY <1>1, Invariance, PTL

\* Of what log() took nothing is lost, doubled or reordered on its way through
\* the two buffers.
THEOREM LosesNothing == Spec => []NothingLost
<1>1. IInv => NothingLost
  BY DEF IInv, Stored
<1> QED BY <1>1, Invariance, PTL

\* buffer_size is the size of the two buffers whenever log() or _flush reads it.
THEOREM SizeCorrect == Spec => []BufferAccounted
<1>1. IInv => BufferAccounted
  BY DEF IInv, Stored
<1> QED BY <1>1, Invariance, PTL

\* A log server that is out of reach costs a worker drop_limit bytes at most.
THEOREM MemoryBounded == Spec => []WithinDropLimit
<1>1. IInv => WithinDropLimit
  BY DEF IInv, Stored
<1> QED BY <1>1, Invariance, PTL

-----------------------------------------------------------------------------
(* The logger implements the channel.                                        *)

LEMMA FrontOfConcat ==
  \A s, t \in Seq(Byte) : SubSeq(s \o t, 1, Len(s)) = s
<1> SUFFICES ASSUME NEW s \in Seq(Byte), NEW t \in Seq(Byte)
             PROVE  SubSeq(s \o t, 1, Len(s)) = s
  OBVIOUS
<1>1. Len(s) \in Nat
  BY LenProperties
<1>2. CASE Len(s) = 0
  <2>1. s = <<>>
    BY <1>2, EmptySeq
  <2>2. SubSeq(s \o t, 1, 0) = <<>>
    BY SubSeqEmpty
  <2> QED BY <1>2, <2>1, <2>2
<1>3. CASE Len(s) # 0
  <2>1. 1 \in 1..Len(s) /\ Len(s) \in 1..Len(s)
    BY <1>1, <1>3
  <2>2. SubSeq(s \o t, 1, Len(s)) = SubSeq(s, 1, Len(s))
    BY <2>1, SubSeqOfConcat1
  <2> QED BY <2>2, SubSeqFull
<1> QED BY <1>2, <1>3

\* A successful send confirms a longer part of what was accepted.
LEMMA SentConfirms ==
  ASSUME IInv, NEW c \in Coroutines, Sent(c)
  PROVE  Channel!Confirm
<1>1. /\ confirmed \in Seq(Byte) /\ send_buffer \in Seq(Byte)
      /\ log_buffer \in Seq(Byte)
      /\ accepted = (confirmed \o send_buffer) \o log_buffer
      /\ packet[c] = send_buffer
  BY DEF IInv, TypeOK, Stored, NothingLost, PacketIsBuffer, Sent
<1>2. /\ confirmed' = confirmed \o send_buffer
      /\ UNCHANGED accepted
  BY <1>1 DEF Sent, callers
<1>3. /\ confirmed' \in Seq(Byte)
      /\ Len(confirmed') = Len(confirmed) + Len(send_buffer)
      /\ Len(accepted) = Len(confirmed') + Len(log_buffer)
  BY <1>1, <1>2, ConcatProperties
<1>4. /\ Len(confirmed) \in Nat /\ Len(send_buffer) \in Nat /\ Len(log_buffer) \in Nat
  BY <1>1, LenProperties
<1>5. Len(confirmed') \in Len(confirmed)..Len(accepted)
  BY <1>3, <1>4
<1>6. confirmed' = SubSeq(accepted, 1, Len(confirmed'))
  <2>1. \A s \in Seq(Byte) : SubSeq(s \o log_buffer, 1, Len(s)) = s
    BY <1>1, FrontOfConcat
  <2>2. accepted = confirmed' \o log_buffer
    BY <1>1, <1>2
  <2> QED BY <1>3, <2>1, <2>2
<1> QED BY <1>2, <1>5, <1>6 DEF Channel!Confirm

LEMMA StepRefines == IInv /\ [Next]_vars => [Channel!Next]_(Channel!vars)
<1> SUFFICES ASSUME IInv, [Next]_vars PROVE [Channel!Next]_(Channel!vars)
  OBVIOUS
<1>1. ASSUME NEW msg \in Messages, Log(msg) PROVE [Channel!Next]_(Channel!vars)
  <2>1. confirmed' = confirmed
    BY <1>1 DEF Log, LogExiting, LogBuffers, LogFlushes, LogDrops, Called
  <2>2. CASE LogDrops(msg)
    BY <2>1, <2>2 DEF LogDrops, Channel!vars
  <2>3. CASE Write(msg)
    BY <2>1, <2>3 DEF Write, Channel!Next, Channel!Accept
  <2> QED BY <1>1, <2>2, <2>3 DEF Log, LogExiting, LogBuffers, LogFlushes
<1>2. ASSUME NEW c \in Coroutines, Sent(c) PROVE [Channel!Next]_(Channel!vars)
  BY <1>2, SentConfirms DEF Channel!Next
<1>3. CASE UNCHANGED <<accepted, confirmed>>
  BY <1>3 DEF Channel!vars
<1>4. ASSUME NEW c \in Timers, TimerFires(c) PROVE UNCHANGED <<accepted, confirmed>>
  BY <1>4 DEF TimerFires, callers
<1>5. PeriodicFlushes \/ PeriodicSkips => UNCHANGED <<accepted, confirmed>>
  BY DEF PeriodicFlushes, PeriodicSkips, callers
<1>6. ASSUME NEW c \in Coroutines,
             ConnectFails(c) \/ Connected(c) \/ SendFails(c) \/ Wakes(c)
      PROVE  UNCHANGED <<accepted, confirmed>>
  BY <1>6 DEF ConnectFails, Connected, SendFails, Wakes, ConnectSleepEnds, SendSleepEnds,
              Waits, callers
<1>7. WorkerExits \/ UNCHANGED vars => UNCHANGED <<accepted, confirmed>>
  BY DEF WorkerExits, vars, callers
<1> QED BY <1>1, <1>2, <1>3, <1>4, <1>5, <1>6, <1>7 DEF Next, Answers

\* Whatever connections, timers and the end of the worker do, the logger is a
\* channel that confirms what it has accepted, in order and without a gap.
THEOREM Refinement == Spec => IsChannel
<1>1. Init => Channel!Init
  BY DEF Init, Channel!Init
<1> QED BY <1>1, StepRefines, Invariance, PTL DEF Spec, IsChannel, Channel!Spec
=============================================================================
