---------------------------- MODULE MCFileTransfer ----------------------------
EXTENDS FileTransfer
CONSTANTS t1, t2, r1, r2

\* A transfer to one viewer beside a broadcast to both.
MCTarget == [t \in Transfer |-> IF t = t1 THEN {r1} ELSE {r1, r2}]
=============================================================================
