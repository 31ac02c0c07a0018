----------------------------- MODULE MCAiSession -----------------------------
\* Two connects to one code on two servers, and two monitor requests.
EXTENDS AiSession
CONSTANTS c1, c2, a1, a2, e1, e2, k1
=============================================================================
