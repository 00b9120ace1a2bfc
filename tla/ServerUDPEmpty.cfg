\* UDP server receiving a zero-length datagram.
CONSTANTS
    c1 = c1
    c2 = c2
    c3 = c3
    Conns <- NoConns
    Configs <- UdpDefault
    UsingTimeout = TRUE
    MaxSelectErrors = 2
    ListenSock = ListenSock
    Garbage = Garbage
    NoConn = NoConn
    NoReq = NoReq
SPECIFICATION Spec
INVARIANT ListenerWatched
