CONSTANTS
    q1 = q1
    q2 = q2
    ip = ip
    k1 = k1
    k2 = k2
    Requests = {q1, q2}
    Collections = {ip}
    Keys = {k1, k2}
    Backends = {"dict", "memcached", "redis"}
    Actions <- MCActions
    MacroKey <- MCMacroKey
    LinkFails = TRUE
    MaxHandlers <- MCMaxHandlers
    MaxActions <- MCMaxActions
    MaxNow = 1
SPECIFICATION Spec
INVARIANTS
    TypeOK
    CopiesPersisted
PROPERTY KeepsOthersKeys
CHECK_DEADLOCK FALSE
