\* A log file two threads use while it may be renamed, closed and reopened, on a disk that may refuse writes.
CONSTANTS
    t1 = t1
    t2 = t2
    Threads <- TwoThreads
    NoThread = NoThread
    MaxMessages = 2
    CanFail = TRUE
    Reopen = TRUE
    LogName = "log"
    Filenames = {"-", "log"}
    BadArgs = FALSE
SPECIFICATION Spec
INVARIANT LockFreeWhenIdle
