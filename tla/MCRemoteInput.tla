---------------------------- MODULE MCRemoteInput ----------------------------
\* A human and an agent, or a human alone, at one host.
EXTENDS RemoteInput
CONSTANTS h1, a1
PlainAndShifted == {{}, {"ctrl", "shift"}}
=============================================================================
