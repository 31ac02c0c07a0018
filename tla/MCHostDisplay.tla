---------------------------- MODULE MCHostDisplay ----------------------------
\* A secondary display at 150% beside a primary one at 100%, and a window.
EXTENDS HostDisplay
CONSTANTS v1, v2, v3, w1, w2, w3, left, right, monitor, window

MCLayout ==
  left :> [scale |-> 100, x |-> [extent |-> 4, origin |-> 0],
                          y |-> [extent |-> 3, origin |-> 0]] @@
  right :> [scale |-> 150, x |-> [extent |-> 5, origin |-> 4],
                           y |-> [extent |-> 2, origin |-> -2]]

MCDisplayOf == monitor :> right @@ window :> Nothing

Symmetry == Permutations(Viewer) \cup Permutations(Pick)
=============================================================================
