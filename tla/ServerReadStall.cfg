\* One client, TCP: a read burst that ends on a full 1024-byte block.
CONSTANTS
    c1 = c1
    c2 = c2
    c3 = c3
    Conns <- OneConn
    Configs <- TcpDefault
    UsingTimeout = FALSE
    MaxSelectErrors = 2
    ListenSock = ListenSock
    Garbage = Garbage
    NoConn = NoConn
    NoReq = NoReq
SPECIFICATION Spec
PROPERTY ReadBurstEnds
