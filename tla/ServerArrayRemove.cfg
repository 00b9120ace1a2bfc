\* Three clients: Array::remove leaves a slot uninitialised.
CONSTANTS
    c1 = c1
    c2 = c2
    c3 = c3
    Conns <- ThreeConns
    Configs <- TcpDefault
    UsingTimeout = FALSE
    MaxSelectErrors = 2
    ListenSock = ListenSock
    Garbage = Garbage
    NoConn = NoConn
    NoReq = NoReq
SPECIFICATION Spec
INVARIANT ConnectionReachable
