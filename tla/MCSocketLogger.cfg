CONSTANTS
    Byte <- MCBytes
    Messages <- MCMessages
    flush_limit = 2
    drop_limit = 3
    max_retry_times = 1
    Periodic = TRUE
    TimersFail = TRUE
    Timers = {t1, t2}
    Ticker = p
    MaxLogs = 3
SPECIFICATION ServedSpec
INVARIANTS
    OneFlusher
    BufferAccounted
    WithinDropLimit
PROPERTIES
    IsChannel
    EverythingArrives
CHECK_DEADLOCK FALSE
