\* The gateway process from New to exit: five option lists, transports for
\* two names with up to one register function, one route, two requests
\* and two signals.  The process really stops (exit, Fatal, panic, kill),
\* so deadlock is not checked.
SPECIFICATION Spec
CONSTANTS
    Configs <- MCConfigs
    ServerNames = {"svcA", "svcC"}
    MaxFuncs = 1
    MaxHandlers = 1
    Requests = {r1, r2}
    MaxSignals = 2
    None = None
INVARIANT NoRequestCut
CHECK_DEADLOCK FALSE
