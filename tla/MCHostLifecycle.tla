--------------------------- MODULE MCHostLifecycle ---------------------------
EXTENDS HostLifecycle

CONSTANTS h1, h2, h3
=============================================================================
