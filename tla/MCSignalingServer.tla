-------------------------- MODULE MCSignalingServer --------------------------
EXTENDS SignalingServer, TLC
CONSTANTS s1, s2, s3, c1, c2, a1

MCSymmetry == Permutations(Socket)
MCAddrOf == [s \in Socket |-> a1]
=============================================================================
