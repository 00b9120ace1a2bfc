\* The sample's log, LogFile ("-") on stdout: two threads log and write, one may close, reopen and rename it.
CONSTANTS
    t1 = t1
    t2 = t2
    Threads <- TwoThreads
    NoThread = NoThread
    MaxMessages = 2
    CanFail = FALSE
    Reopen = TRUE
    LogName = "-"
    Filenames = {"-", "log"}
    BadArgs = FALSE
SPECIFICATION FairSpec
INVARIANT TypeOK
INVARIANT LinesWhole
PROPERTY CallsReturn
