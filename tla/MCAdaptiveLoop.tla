--------------------------- MODULE MCAdaptiveLoop ---------------------------
EXTENDS AdaptiveLoop
CONSTANTS v1, v2, t1, auto, low

MCCeiling == [p \in Preset |-> IF p = auto THEN 2 ELSE 1]

\* Latencies in units of 60 ms, so the target is 2 and the budget between 3
\* and 4.
Path(rtt, playout, noise, room) ==
  [rtt |-> rtt, playout |-> playout, noise |-> noise, headroom |-> room,
   flows |-> rtt > 0]

Fine     == Path(1, 0, 0, 9)
Queueing == Path(1, 3, 0, 1)
MCLink == {Fine, Queueing}
MCClimate == {{Fine}, {Queueing}}
=============================================================================
