\* Direct handler: a TCP server with two clients and the default request
\* mask, or a UDP server with ConnectionLost disabled and timeouts enabled.
CONSTANTS
    c1 = c1
    c2 = c2
    c3 = c3
    Conns <- TwoConns
    Configs <- TcpOrUdp
    UsingTimeout = TRUE
    MaxSelectErrors = 2
    ListenSock = ListenSock
    Garbage = Garbage
    NoConn = NoConn
    NoReq = NoReq
SPECIFICATION Spec
INVARIANT MaskFiltering
INVARIANT ConnectionReachable
PROPERTY DataEventuallyReadOrClosed
INVARIANT TypeOK
PROPERTY PeerEndEventuallyClosed
