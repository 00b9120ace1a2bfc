\* select() failures separated by timeouts.
CONSTANTS
    c1 = c1
    c2 = c2
    c3 = c3
    Conns <- NoConns
    Configs <- TcpDefault
    UsingTimeout = TRUE
    MaxSelectErrors = 10
    ListenSock = ListenSock
    Garbage = Garbage
    NoConn = NoConn
    NoReq = NoReq
SPECIFICATION Spec
INVARIANT EscalationOnlyOnConsecutiveFailures
