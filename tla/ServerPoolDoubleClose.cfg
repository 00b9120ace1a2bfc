\* One worker: the worker 0 that WorkerPool::shutdown never joins still
\* handles a "quit" while ServerListener::shutdown closes the connections.
CONSTANTS
    c1 = c1
    c2 = c2
    Conns <- TwoConns
    Cmds <- SampleCmds
    UsingTimeout = TRUE
    ListenSock = ListenSock
    NumWorkers = 1
    ShutdownReq = ShutdownReq
    NoRequest = NoRequest
SPECIFICATION Spec
INVARIANT SocketClosedOnce
