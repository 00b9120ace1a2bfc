\* Safety of the worker pool: types, the links of the queue and the refinement of Dispatcher, with threads that may fail to start.
CONSTANTS
    NumWorkers = 2
    r1 = r1
    r2 = r2
    r3 = r3
    Requests <- MCRequests
    ShutdownReq = ShutdownReq
    NoRequest = NoRequest
    CreateMayFail = TRUE
SPECIFICATION Spec
INVARIANT TypeOK
INVARIANT QueueLinked
PROPERTY DispatcherRefinement
