------------------------------ MODULE MCServer ------------------------------
(* Model-checking instances of Server.                                      *)
EXTENDS Server

CONSTANTS c1, c2, c3

NoConns    == {}
OneConn    == {c1}
TwoConns   == {c1, c2}
ThreeConns == {c1, c2, c3}

\* Everything, Timeout included.
FullMask == Kinds
\* A UDP handler that wants timeouts and no ConnectionLost requests.
UdpMask == Kinds \ {"ConnectionLost"}

\* bind() configurations: a TCP server with the default mask, a UDP server
\* with UdpMask, a UDP server with the default mask.
TcpDefault == {<<"TCP", DefaultRequestMask>>}
TcpOrUdp   == {<<"TCP", DefaultRequestMask>>, <<"UDP", UdpMask>>}
UdpDefault == {<<"UDP", DefaultRequestMask>>}
=============================================================================
