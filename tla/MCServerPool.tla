---------------------------- MODULE MCServerPool ----------------------------
(* Model-checking instances of ServerPool.                                  *)
EXTENDS ServerPool

CONSTANTS c1, c2

TwoConns == {c1, c2}

\* The lines MyHandler tells apart: the two commands and one to echo.
SampleCmds == {"quit", "shutdown", "echo"}
=============================================================================
