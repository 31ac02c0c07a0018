----------------------------- MODULE MCHostAccess -----------------------------
EXTENDS HostAccess
CONSTANTS v1, v2, a1

\* Both ids come from one address: a reconnect, or two viewers behind a NAT.
MCAddrOf == [v \in Viewer |-> a1]
MCModes == {"prompt", "pin", "pin-and-prompt", "refuse"}
=============================================================================
