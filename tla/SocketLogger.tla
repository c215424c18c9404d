---------------------------- MODULE SocketLogger ----------------------------
(***************************************************************************)
(* The buffered log writer of one nginx worker, src/lib/resty/logger/        *)
(* socket.lua, which sends the event logs to a log server. log() is called    *)
(* by requests; _flush runs in timer callbacks. Callbacks are coroutines that *)
(* share the module's variables and give way to each other only where they   *)
(* wait: for connect (and the TLS handshake), for send, and in ngx.sleep. An  *)
(* action here is what one coroutine does between two such points.            *)
(*                                                                         *)
(* A buffer is the sequence of its bytes; log_buffer stands for the lines     *)
(* log_buffer_data[1 .. log_buffer_index], which are only ever joined.        *)
(***************************************************************************)
EXTENDS Integers, Sequences

CONSTANTS
    Byte,
    Messages,          \* what may be logged
    flush_limit, drop_limit, max_retry_times,
    Periodic,          \* periodic_flush is set
    TimersFail,        \* timer_at may fail: nginx has too many timers pending
    Timers,            \* coroutines for the callbacks of timer_at(0, _flush)
    Ticker,            \* the coroutine of _periodic_flush
    MaxLogs            \* bound: calls of log()

Coroutines == Timers \cup {Ticker}

ASSUME MessagesAssumption == Messages \subseteq Seq(Byte) \ {<<>>}
ASSUME LimitsAssumption ==           \* checked in init()
    /\ flush_limit \in Nat /\ drop_limit \in Nat /\ flush_limit < drop_limit
    /\ max_retry_times \in Nat
ASSUME SettingsAssumption == Periodic \in BOOLEAN /\ TimersFail \in BOOLEAN
ASSUME TickerAssumption == Ticker \notin Timers

VARIABLES
    log_buffer, send_buffer, buffer_size,
    flushing, connecting, exiting, retry_connect, retry_send,
    need_periodic_flush,
    pc,                \* where a coroutine waits; "idle": it does not run
    packet,            \* _do_flush's local: what the coroutine is sending
    pending,           \* timers set for _flush that have not fired
    tick,              \* the periodic timer: "set", "running" (its callback is), "off"
    worker_exiting,    \* ngx.worker.exiting()
    calls,             \* calls of log() so far
    accepted,          \* ghost: every byte taken into the buffers
    confirmed          \* ghost: every byte sent without an error

buffers == <<log_buffer, send_buffer, buffer_size>>
retries == <<retry_connect, retry_send>>
callers == <<exiting, worker_exiting, calls, accepted>>
vars == <<buffers, flushing, connecting, retries, need_periodic_flush, pc, packet,
          pending, tick, callers, confirmed>>

Init == /\ log_buffer = <<>> /\ send_buffer = <<>> /\ buffer_size = 0
        /\ flushing = FALSE /\ connecting = FALSE /\ exiting = FALSE
        /\ retry_connect = 0 /\ retry_send = 0
        /\ need_periodic_flush = Periodic
        /\ pc = [c \in Coroutines |-> "idle"]
        /\ packet = [c \in Coroutines |-> <<>>]
        /\ pending = 0
        /\ tick = IF Periodic THEN "set" ELSE "off"
        /\ worker_exiting = FALSE
        /\ calls = 0 /\ accepted = <<>> /\ confirmed = <<>>

-----------------------------------------------------------------------------
(* log()                                                                    *)

\* _write_buffer
Write(msg) == /\ log_buffer' = log_buffer \o msg
              /\ buffer_size' = buffer_size + Len(msg)
              /\ accepted' = accepted \o msg
              /\ UNCHANGED send_buffer

\* _flush_buffer: a timer for _flush; the next periodic flush is not needed.
FlushBuffer == /\ \/ pending' = pending + 1
                  \/ TimersFail /\ pending' = pending
               /\ need_periodic_flush' = FALSE

Called == /\ calls < MaxLogs
          /\ calls' = calls + 1
          /\ UNCHANGED <<flushing, connecting, retries, pc, packet, tick,
                         worker_exiting, confirmed>>

\* While the worker exits every message is to be sent at once.
LogExiting(msg) == /\ Called
                   /\ worker_exiting
                   /\ exiting' = TRUE
                   /\ Write(msg)
                   /\ FlushBuffer

LogBuffers(msg) == /\ Called
                   /\ ~worker_exiting
                   /\ Len(msg) + buffer_size < flush_limit
                   /\ Write(msg)
                   /\ UNCHANGED <<exiting, need_periodic_flush, pending>>

\* Mutant: the length of the message is not counted.
LogFlushesLate(msg) == /\ Called
                       /\ ~worker_exiting
                       /\ Len(msg) + buffer_size >= flush_limit
                       /\ buffer_size <= drop_limit
                       /\ Write(msg)
                       /\ FlushBuffer
                       /\ UNCHANGED exiting

LogFlushes(msg) == /\ Called
                   /\ ~worker_exiting
                   /\ Len(msg) + buffer_size \in flush_limit..drop_limit
                   /\ Write(msg)
                   /\ FlushBuffer
                   /\ UNCHANGED exiting

\* The message does not fit in the buffer.
LogDrops(msg) == /\ Called
                 /\ ~worker_exiting
                 /\ Len(msg) + buffer_size > drop_limit
                 /\ FlushBuffer
                 /\ UNCHANGED <<buffers, exiting, accepted>>

-----------------------------------------------------------------------------
(* _flush, in the coroutine c                                               *)

\* Mutant: the new lines replace what is in the send buffer.
AttemptOverwrites(c, n, busy) ==
    /\ retry_send' = n
    /\ send_buffer' = log_buffer
    /\ log_buffer' = <<>>
    /\ packet' = [packet EXCEPT ![c] = send_buffer']
    /\ pc' = [pc EXCEPT ![c] = IF busy THEN "refused" ELSE "connect"]
    /\ connecting' = TRUE
    /\ retry_connect' = IF busy THEN retry_connect ELSE 0
    /\ UNCHANGED buffer_size

\* _prepare_stream_buffer, and _do_flush as far as the first connect; `busy` is
\* what connecting is by then. A connect that is refused (another coroutine is
\* connecting) is an attempt that fails.
Attempt(c, n, busy) ==
    /\ retry_send' = n
    /\ send_buffer' = send_buffer \o log_buffer
    /\ log_buffer' = <<>>
    /\ packet' = [packet EXCEPT ![c] = send_buffer']
    /\ pc' = [pc EXCEPT ![c] = IF busy THEN "refused" ELSE "connect"]
    /\ connecting' = TRUE
    /\ retry_connect' = IF busy THEN retry_connect ELSE 0
    /\ UNCHANGED buffer_size

\* The callback ends. That of the periodic timer sets the timer again, which
\* nginx refuses when the worker exits.
Ends(c) == IF c = Ticker
           THEN \/ ~worker_exiting /\ tick' = "set"
                \/ (worker_exiting \/ TimersFail) /\ tick' = "off"
           ELSE UNCHANGED tick

\* Mutant: the lock is not looked at.
FlushUnlocked(c) == IF buffer_size = 0
                    THEN /\ Ends(c)
                         /\ UNCHANGED <<buffers, flushing, connecting, retries, pc, packet>>
                    ELSE /\ flushing' = TRUE
                         /\ Attempt(c, 0, connecting)
                         /\ tick' = IF c = Ticker THEN "running" ELSE tick

\* _flush, to its first wait: it leaves at once if another flush goes on ("do
\* this later") or there is nothing to flush.
Flush(c) ==
    IF flushing \/ buffer_size = 0
    THEN /\ Ends(c)
         /\ UNCHANGED <<buffers, flushing, connecting, retries, pc, packet>>
    ELSE /\ flushing' = TRUE
         /\ Attempt(c, 0, connecting)
         /\ tick' = IF c = Ticker THEN "running" ELSE tick

TimerFires(c) == /\ pending > 0
                 /\ pc[c] = "idle"
                 /\ pending' = pending - 1
                 /\ Flush(c)
                 /\ UNCHANGED <<need_periodic_flush, callers, confirmed>>

\* _periodic_flush, when no flush was asked for since the timer was set.
PeriodicFlushes == /\ tick = "set"
                   /\ need_periodic_flush
                   /\ Flush(Ticker)
                   /\ UNCHANGED <<need_periodic_flush, pending, callers, confirmed>>

\* Mutant: the flag is not set again.
PeriodicSkipsForGood == /\ tick = "set"
                        /\ ~need_periodic_flush
                        /\ Ends(Ticker)
                        /\ UNCHANGED <<buffers, flushing, connecting, retries, pc, packet,
                                       need_periodic_flush, pending, callers, confirmed>>

PeriodicSkips == /\ tick = "set"
                 /\ ~need_periodic_flush
                 /\ need_periodic_flush' = TRUE
                 /\ Ends(Ticker)
                 /\ UNCHANGED <<buffers, flushing, connecting, retries, pc, packet,
                                pending, callers, confirmed>>

\* The next attempt to send, with what has been logged by now, or the end of
\* _flush after the last: what is in the buffers stays there.
SendAgain(c, busy) ==
    IF retry_send < max_retry_times
    THEN Attempt(c, retry_send + 1, busy) /\ UNCHANGED <<flushing, tick>>
    ELSE /\ retry_send' = retry_send + 1
         /\ flushing' = FALSE
         /\ connecting' = busy
         /\ pc' = [pc EXCEPT ![c] = "idle"]
         /\ packet' = [packet EXCEPT ![c] = <<>>]
         /\ Ends(c)
         /\ UNCHANGED <<buffers, retry_connect>>

\* An attempt has failed; nobody sleeps in a worker that exits.
AttemptFails(c, busy) ==
    IF exiting
    THEN SendAgain(c, busy)
    ELSE /\ pc' = [pc EXCEPT ![c] = "send_sleep"]
         /\ packet' = [packet EXCEPT ![c] = <<>>]
         /\ connecting' = busy
         /\ UNCHANGED <<buffers, flushing, retries, tick>>

ConnectAgain(c) ==
    IF retry_connect < max_retry_times
    THEN /\ retry_connect' = retry_connect + 1
         /\ pc' = [pc EXCEPT ![c] = "connect"]
         /\ UNCHANGED <<buffers, flushing, connecting, retry_send, packet, tick>>
    ELSE AttemptFails(c, FALSE)

Waits(c, where) == /\ pc[c] = where
                   /\ UNCHANGED <<need_periodic_flush, pending, callers, confirmed>>

ConnectFails(c) ==
    /\ Waits(c, "connect")
    /\ IF exiting
       THEN ConnectAgain(c)
       ELSE /\ pc' = [pc EXCEPT ![c] = "connect_sleep"]
            /\ UNCHANGED <<buffers, flushing, connecting, retries, packet, tick>>

ConnectSleepEnds(c) == Waits(c, "connect_sleep") /\ ConnectAgain(c)

Connected(c) == /\ Waits(c, "connect")
                /\ connecting' = FALSE
                /\ pc' = [pc EXCEPT ![c] = "send"]
                /\ UNCHANGED <<buffers, flushing, retries, packet, tick>>

\* send or setkeepalive fails: the server may have got the packet, or not.
SendFails(c) == /\ Waits(c, "send") \/ Waits(c, "refused")
                /\ AttemptFails(c, connecting)

SendSleepEnds(c) == Waits(c, "send_sleep") /\ SendAgain(c, connecting)

\* Mutant: the size is set to 0, although lines may have been logged meanwhile.
SentResetsSize(c) ==
    /\ pc[c] = "send"
    /\ flushing' = FALSE
    /\ confirmed' = confirmed \o packet[c]
    /\ buffer_size' = 0
    /\ send_buffer' = <<>>
    /\ pc' = [pc EXCEPT ![c] = "idle"]
    /\ packet' = [packet EXCEPT ![c] = <<>>]
    /\ Ends(c)
    /\ UNCHANGED <<log_buffer, connecting, retries, need_periodic_flush, pending,
                   callers>>

\* What is let go of is what the send buffer holds by now.
Sent(c) == /\ pc[c] = "send"
           /\ flushing' = FALSE
           /\ confirmed' = confirmed \o packet[c]
           /\ buffer_size' = buffer_size - Len(send_buffer)
           /\ send_buffer' = <<>>
           /\ pc' = [pc EXCEPT ![c] = "idle"]
           /\ packet' = [packet EXCEPT ![c] = <<>>]
           /\ Ends(c)
           /\ UNCHANGED <<log_buffer, connecting, retries, need_periodic_flush, pending,
                          callers>>

-----------------------------------------------------------------------------

\* nginx tells the worker to exit, once its requests are done.
WorkerExits == /\ ~worker_exiting
               /\ worker_exiting' = TRUE
               /\ UNCHANGED <<buffers, flushing, connecting, retries, need_periodic_flush,
                              pc, packet, pending, tick, exiting, calls, accepted,
                              confirmed>>

Log(msg) == LogExiting(msg) \/ LogBuffers(msg) \/ LogFlushes(msg) \/ LogDrops(msg)

Answers(c) == ConnectFails(c) \/ Connected(c) \/ SendFails(c) \/ Sent(c)
Wakes(c)   == ConnectSleepEnds(c) \/ SendSleepEnds(c)

Next == \/ \E msg \in Messages : Log(msg)
        \/ \E c \in Timers : TimerFires(c)
        \/ PeriodicFlushes \/ PeriodicSkips
        \/ \E c \in Coroutines : Answers(c) \/ Wakes(c)
        \/ WorkerExits

Spec == Init /\ [][Next]_vars

\* Timers fire, sleeps end, and every connect and send is answered (they have a
\* timeout). That timer_at fails is possible but never due, unless nginx refuses.
FairSpec == /\ Spec
            /\ WF_vars(\E c \in Timers : TimerFires(c))
            /\ WF_vars(/\ PeriodicFlushes \/ PeriodicSkips
                       /\ worker_exiting \/ tick' # "off")
            /\ \A c \in Coroutines : WF_vars(Answers(c)) /\ WF_vars(Wakes(c))

\* The log server is not out of reach for good.
ServedSpec == /\ FairSpec
              /\ \A c \in Coroutines : SF_vars(Connected(c)) /\ SF_vars(Sent(c))

-----------------------------------------------------------------------------

TypeOK == /\ log_buffer \in Seq(Byte) /\ send_buffer \in Seq(Byte)
          /\ accepted \in Seq(Byte) /\ confirmed \in Seq(Byte)
          /\ buffer_size \in Nat /\ pending \in Nat /\ calls \in Nat
          /\ retry_connect \in Nat /\ retry_send \in Nat
          /\ flushing \in BOOLEAN /\ connecting \in BOOLEAN /\ exiting \in BOOLEAN
          /\ worker_exiting \in BOOLEAN /\ need_periodic_flush \in BOOLEAN
          /\ pc \in [Coroutines -> {"idle", "connect", "connect_sleep", "refused",
                                    "send", "send_sleep"}]
          /\ packet \in [Coroutines -> Seq(Byte)]
          /\ tick \in {"set", "running", "off"}

\* The flush lock admits one coroutine, and only it connects: no connect is ever
\* refused, and the retry counters, which all coroutines share, are its own.
OneFlusher ==
    /\ \A c, d \in Coroutines : pc[c] # "idle" /\ pc[d] # "idle" => c = d
    /\ flushing <=> \E c \in Coroutines : pc[c] # "idle"
    /\ connecting <=> \E c \in Coroutines : pc[c] \in {"connect", "connect_sleep"}
    /\ \A c \in Coroutines : pc[c] # "refused"

\* What is let go of when a send succeeds is what was sent: the send buffer has
\* not changed since _do_flush took its packet, before it waited.
PacketIsBuffer == \A c \in Coroutines :
    pc[c] \in {"connect", "connect_sleep", "send"} => packet[c] = send_buffer

\* No byte that was accepted is lost, doubled or moved, though log() goes on
\* while _flush waits: what has been sent, what is to be sent and what is still
\* in lines make up what was logged.
NothingLost == accepted = confirmed \o send_buffer \o log_buffer

\* buffer_size, which decides what is flushed and what is dropped, is the size of
\* both buffers, though it is kept by addition and subtraction.
BufferAccounted == buffer_size = Len(send_buffer) + Len(log_buffer)

\* The memory held is bounded, however long the server is out of reach; only a
\* worker that exits goes beyond.
WithinDropLimit == ~exiting => Len(send_buffer) + Len(log_buffer) <= drop_limit

Channel == INSTANCE LogChannel

\* The logger is a channel that loses and reorders nothing it has accepted.
IsChannel == Channel!Spec

\* With periodic_flush set, every byte accepted gets to a server that is not out
\* of reach for good, although log() cancels periodic flushes and a flush that
\* comes while another is going on is not made up for: unless the periodic timer
\* could not be set again.
EverythingArrives ==
    \A n \in 1..MaxLogs : Len(accepted) >= n ~> (Len(confirmed) >= n \/ tick = "off")

=============================================================================
