\* Two workers: requests of one client may be handled in two threads at
\* once, and a ConnectionLost may overtake the request ahead of it.
CONSTANTS
    c1 = c1
    c2 = c2
    Conns <- TwoConns
    Cmds <- SampleCmds
    UsingTimeout = TRUE
    ListenSock = ListenSock
    NumWorkers = 2
    ShutdownReq = ShutdownReq
    NoRequest = NoRequest
SPECIFICATION Spec
INVARIANT ConnectionAliveWhileInUse
CHECK_DEADLOCK FALSE
