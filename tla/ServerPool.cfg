\* TCP server whose handler is a one-worker WorkerPool around MyHandler,
\* two clients, a select timeout.
CONSTANTS
    c1 = c1
    c2 = c2
    Conns <- TwoConns
    Cmds <- SampleCmds
    UsingTimeout = TRUE
    ListenSock = ListenSock
    NumWorkers = 1
    ShutdownReq = ShutdownReq
    NoRequest = NoRequest
SPECIFICATION FairSpec
INVARIANT TypeOK
INVARIANT ConnectionAliveWhileInUse
PROPERTY ShutdownStopsListener
