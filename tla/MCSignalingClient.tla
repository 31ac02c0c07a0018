-------------------------- MODULE MCSignalingClient --------------------------
EXTENDS SignalingClient
CONSTANTS k1, k2, offer, ice
=============================================================================
