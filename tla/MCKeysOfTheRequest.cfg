CONSTANTS
    q1 = q1
    q2 = q2
    ip = ip
    k1 = k1
    k2 = k2
    Requests = {q1, q2}
    Collections = {ip}
    Keys = {k1, k2}
    Backends = {"dict"}
    Actions <- MacroActions
    MacroKey <- MCMacroKey
    LinkFails = FALSE
    MaxHandlers <- MCMaxHandlers
    MaxActions <- MCMaxActions
    MaxNow = 1
SPECIFICATION Spec
INVARIANT KeysOfTheRequest
CHECK_DEADLOCK FALSE
