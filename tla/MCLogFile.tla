----------------------------- MODULE MCLogFile ------------------------------
(* Model-checking instances of LogFile.                                     *)
EXTENDS LogFile

CONSTANTS t1, t2

TwoThreads == {t1, t2}
=============================================================================
