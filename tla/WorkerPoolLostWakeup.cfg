\* Fair workers and caller; wakeups of the condition variable may find no waiter.
CONSTANTS
    NumWorkers = 2
    r1 = r1
    r2 = r2
    r3 = r3
    Requests <- MCRequests
    ShutdownReq = ShutdownReq
    NoRequest = NoRequest
    CreateMayFail = FALSE
SPECIFICATION FairSpec
PROPERTY WakeupsNotLost
