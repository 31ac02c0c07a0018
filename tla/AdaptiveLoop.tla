------------------------------ MODULE AdaptiveLoop ------------------------------
(***************************************************************************)
(* How a running host session fits its stream to the links of its viewers: *)
(* the controller (packages/core/src/adaptive.ts), the loop that feeds it  *)
(* (HostSession.tick(), applyQualityPreset(), the latency reports and the  *)
(* gate in packages/host/src/host-session.ts), and the statistics and the  *)
(* encodings of a Peer (getStats(), applyDecision() in peer.ts).           *)
(*                                                                         *)
(* A tick gives up the event loop between asking for statistics and using  *)
(* them, for as long as getStats() takes; the timer does not wait for it.  *)
(* In between viewers come, leave, report, and choose a preset.            *)
(*                                                                         *)
(* A bitrate is a level: 0 is minKbps and every level is one increase, 8%, *)
(* above the one below.  In levels a back-off takes away from 2 (x 0.85)   *)
(* to 7 (x 0.60), and twice minKbps is 9.                                  *)
(***************************************************************************)
EXTENDS Integers, FiniteSetsExt

CONSTANTS Viewer,     \* viewer ids; signaling mints a fresh one per join
          Tick,       \* ticks that may wait for getStats() at the same time
          Preset, Unlimited,
          Ceiling,    \* preset -> the level of its maxKbps
          Start,      \* the level of 2 x minKbps
          Confirm,    \* INCREASE_CONFIRM_TICKS
          Backoff,    \* levels a DECREASE may take away
          Latency,    \* round trips and playout delays, 0 for none measured
          Target,     \* targetRttMs
          Hard,       \* 1.6 x targetRttMs
          Headroom,   \* levels of availableKbps
          Ample,      \* the one that stands for no estimate, above every ceiling
          Link,       \* what the path of a viewer may be like
          Climate,    \* sets of links the paths may settle in
          Idle, NoReport, Uncapped

(***************************************************************************)
(* noise is 0 for loss and jitter that are low, 2 for one that is high     *)
(* (LOSS_HIGH, 1.5 x JITTER_HIGH), 1 between; flows says that a frame rate  *)
(* or a headroom is reported.                                              *)
(***************************************************************************)
Sample == [rtt : Latency, noise : 0..2, headroom : Headroom, flows : BOOLEAN]
Report == [rtt : Latency, playout : Latency]

ASSUME LoopAssumption ==
  /\ Unlimited \in Preset /\ Ceiling \in [Preset -> Nat]
  /\ Start \in Nat
  /\ Confirm \in Nat \ {0}
  /\ Backoff \subseteq Nat
  /\ Latency \subseteq Nat /\ 0 \in Latency
  /\ Headroom \subseteq Nat /\ Ample \in Headroom
  /\ \A p \in Preset : Ceiling[p] <= Ample
  /\ Target \in Nat /\ Hard \in Nat
  /\ Link \subseteq [rtt : Latency, playout : Latency, noise : 0..2,
                     headroom : Headroom, flows : BOOLEAN]
  /\ Climate \subseteq (SUBSET Link) \ {{}}
  /\ Idle \notin Sample /\ NoReport \notin Report /\ Uncapped \notin Nat

VARIABLES
  up,         \* this.peer is not null
  conns,      \* viewers with a connection
  sender,     \* viewer -> its video sender: "none" as long as it has no access,
              \*  "fresh" until it is negotiated, then "ready"
  denied,     \* viewers that were denied after they had been admitted: they keep
              \*  their sender, and the host no longer listens to them
  paths,      \* what the paths of all viewers may be like at present
  report,     \* viewerLatency
  preset,     \* qualityPreset
  current,    \* the controller's bitrate
  count,      \* consecutiveIncreases
  pending,    \* tick -> what its getStats() has measured
  enc,        \* viewer -> the level its encoder has been given
  synced      \* observation: viewers whose encoder took the last decision
              \*  that was applied, and took it from the present controller

viewers == <<conns, sender, denied, report>>
control == <<preset, current, count>>
encoders == <<enc, synced>>
vars == <<up, viewers, paths, control, pending, encoders>>

Senders == {v \in conns : sender[v] # "none"}
Admitted == Senders \ denied

TypeOK ==
  /\ up \in BOOLEAN
  /\ conns \subseteq Viewer
  /\ sender \in [Viewer -> {"none", "fresh", "ready"}]
  /\ denied \subseteq Senders
  /\ paths \subseteq Link
  /\ report \in [Viewer -> Report \cup {NoReport}]
  /\ preset \in Preset
  /\ current \in 0..Ceiling[preset]
  /\ count \in 0..(Confirm - 1)
  /\ pending \in [Tick -> Sample \cup {Idle}]
  /\ enc \in [Viewer -> Nat \cup {Uncapped}]
  /\ synced \subseteq Senders

\* clamp(), of a level.
Lower(a, b) == IF a < b THEN a ELSE b
Higher(a, b) == IF a > b THEN a ELSE b
Clamp(p, level) == Lower(Ceiling[p], Higher(0, level))

\* start() has resolved: a controller at its baseline, and nobody there yet.
Init ==
  /\ up = TRUE
  /\ conns = {}
  /\ sender = [v \in Viewer |-> "none"]
  /\ denied = {}
  /\ paths = Link
  /\ report = [v \in Viewer |-> NoReport]
  /\ preset = Unlimited
  /\ current = Clamp(Unlimited, Start)
  /\ count = 0
  /\ pending = [t \in Tick |-> Idle]
  /\ enc = [v \in Viewer |-> Uncapped]
  /\ synced = {}

----------------------------------------------------------------------------
(* Viewers *)

\* ensureConnection(): an `open' session attaches its stream at once.  An id
\* is free again when all that was recorded of it has been dropped.
Joins(v) ==
  /\ up /\ v \notin conns
  /\ conns' = conns \cup {v}
  /\ \E st \in {"none", "fresh"} : sender' = [sender EXCEPT ![v] = st]
  /\ UNCHANGED <<up, denied, report, paths, control, pending, encoders>>

\* authorizeViewer(), with its attachStreamTo(), which finds the track there
\* already when the viewer had been admitted before.
Authorize(v) ==
  /\ v \in conns /\ v \notin Admitted
  /\ sender' = [sender EXCEPT ![v] = IF @ = "none" THEN "fresh" ELSE @]
  /\ denied' = denied \ {v}
  /\ UNCHANGED <<up, conns, report, paths, control, pending, encoders>>

\* denyViewer(): the access goes, what is attached and reported stays.
Deny(v) ==
  /\ v \in Admitted
  /\ denied' = denied \cup {v}
  /\ UNCHANGED <<up, conns, sender, report, paths, control, pending, encoders>>

\* A sender that has been negotiated accepts parameters.
Negotiated(v) ==
  /\ v \in conns /\ sender[v] = "fresh"
  /\ sender' = [sender EXCEPT ![v] = "ready"]
  /\ UNCHANGED <<up, conns, denied, report, paths, control,
                 pending, encoders>>

\* Mutant of Forget: viewerLatency keeps what a viewer reported.
ForgetKeepsReports(vs) ==
  /\ conns' = conns \ vs
  /\ sender' = [v \in Viewer |-> IF v \in vs THEN "none" ELSE sender[v]]
  /\ enc' = [v \in Viewer |-> IF v \in vs THEN Uncapped ELSE enc[v]]
  /\ synced' = synced \ vs
  /\ denied' = denied \ vs
  /\ UNCHANGED report

\* The connections of vs are closed and what is recorded of them is dropped.
Forget(vs) ==
  /\ conns' = conns \ vs
  /\ sender' = [v \in Viewer |-> IF v \in vs THEN "none" ELSE sender[v]]
  /\ report' = [v \in Viewer |-> IF v \in vs THEN NoReport ELSE report[v]]
  /\ enc' = [v \in Viewer |-> IF v \in vs THEN Uncapped ELSE enc[v]]
  /\ synced' = synced \ vs
  /\ denied' = denied \ vs

\* peer-left
Leaves(v) ==
  /\ v \in conns
  /\ Forget({v})
  /\ UNCHANGED <<up, paths, control, pending>>

\* The paths stop changing from good to bad and back.
Settle(c) ==
  /\ paths = Link
  /\ paths' = c
  /\ UNCHANGED <<up, viewers, control, pending, encoders>>

Seen(l) == [rtt |-> l.rtt, playout |-> l.playout]

\* pollStats() of a viewer, and its `latency' frame in handleControl().
Reports(v) ==
  /\ v \in Admitted
  /\ \E l \in paths : report' = [report EXCEPT ![v] = Seen(l)]
  /\ UNCHANGED <<up, conns, sender, denied, paths, control,
                 pending, encoders>>

\* A `quality' frame: applyQualityPreset() makes a new controller and leaves
\* the count alone.
Quality(v, p) ==
  /\ v \in Admitted
  /\ preset' = p
  /\ current' = Clamp(p, Start)
  /\ synced' = {}
  /\ UNCHANGED <<up, viewers, paths, count, pending, enc>>

----------------------------------------------------------------------------
(* The controller *)

\* statsFor(): what a host measures of a connection.  The playout delay is the
\* receiver's to measure.
Snapshot(l) == [rtt |-> l.rtt, noise |-> l.noise, headroom |-> l.headroom,
                flows |-> l.flows]

\* aggregateStats(): over all connections, whoever has access, the worst of
\* each.
Worst(ls) ==
  IF ls = {}
  THEN [rtt |-> 0, noise |-> 0, headroom |-> Ample, flows |-> FALSE]
  ELSE [rtt      |-> Max({l.rtt : l \in ls}),
        noise    |-> Max({l.noise : l \in ls}),
        headroom |-> Min({l.headroom : l \in ls}),
        flows    |-> \E l \in ls : l.flows]

\* Mutant of WithReports: the playout delay is not folded in.
WithReportsOfRtt(s, rs) == [rtt |-> Max({s.rtt} \cup {r.rtt : r \in rs}), playout |-> 0]

\* worstReportedLatency(), and its fold into what was measured.
WithReports(s, rs) == [rtt     |-> Max({s.rtt} \cup {r.rtt : r \in rs}),
                       playout |-> Max({0} \cup {r.playout : r \in rs})]

Reported == {report[v] : v \in Viewer} \ {NoReport}

\* classify(), of what was measured and the worst latency.
Congested(s, r) == s.noise = 2 \/ r.rtt + r.playout > Hard
Clean(s, r) == s.noise = 0 /\ r.rtt + r.playout < Target /\ (r.rtt > 0 \/ s.flows)
Phase(s, r) == IF Congested(s, r) THEN "DECREASE"
               ELSE IF Clean(s, r) THEN "INCREASE" ELSE "HOLD"

\* update(): the levels that may come next.
Levels(ph, headroom) ==
  CASE ph = "INCREASE" -> {Lower(current + 1, Higher(current, headroom))}
    [] ph = "DECREASE" -> {Lower(Higher(0, current - k), headroom) : k \in Backoff}
    [] ph = "HOLD"     -> {current}

----------------------------------------------------------------------------
(* The loop *)

\* The timer: tick() asks for statistics.
TickStarts(t) ==
  /\ up /\ pending[t] = Idle
  /\ \E f \in [conns -> paths] : LET s == Worst({Snapshot(f[v]) : v \in conns}) IN
       s \in Sample /\ pending' = [pending EXCEPT ![t] = s]
  /\ UNCHANGED <<up, viewers, paths, control, encoders>>

\* getStats() rejects, as it may when a connection was closed meanwhile.
TickFails(t) ==
  /\ pending[t] # Idle
  /\ pending' = [pending EXCEPT ![t] = Idle]
  /\ UNCHANGED <<up, viewers, paths, control, encoders>>

\* applyDecision(): every sender that accepts it is given the level.
Apply(level) ==
  \E refused \in SUBSET {v \in Senders : sender[v] = "fresh"} :
    /\ enc' = [v \in Viewer |-> IF v \in Senders \ refused THEN level ELSE enc[v]]
    /\ synced' = Senders \ refused

\* Mutant of Gate: whatever the decision, it takes Confirm of them.
GateOfAll(ph, level) ==
  IF count + 1 < Confirm
  THEN count' = count + 1 /\ UNCHANGED encoders
  ELSE count' = 0 /\ Apply(level)

\* The gate: what is not an increase is applied at once, an increase when it
\* is the last of Confirm in a row.
Gate(ph, level) ==
  IF ph = "INCREASE" /\ count + 1 < Confirm
  THEN count' = count + 1 /\ UNCHANGED encoders
  ELSE count' = 0 /\ Apply(level)

\* getStats() resolves: the reports, the preset and the senders of now.
Decides(t, ph) ==
  /\ pending[t] # Idle
  /\ pending' = [pending EXCEPT ![t] = Idle]
  /\ ph = Phase(pending[t], WithReports(pending[t], Reported))
  /\ \E level \in Levels(ph, pending[t].headroom) :
       /\ current' = Clamp(preset, level)
       /\ Gate(ph, Clamp(preset, level))
  /\ UNCHANGED <<up, viewers, paths, preset>>

\* stop(): a tick that waits goes on afterwards, and finds no connection.
Stop ==
  /\ up
  /\ up' = FALSE
  /\ Forget(conns)
  /\ count' = 0
  /\ UNCHANGED <<paths, preset, current, pending>>

Next ==
  \/ \E v \in Viewer : \/ Joins(v) \/ Authorize(v) \/ Deny(v) \/ Negotiated(v)
                       \/ Leaves(v) \/ Reports(v)
                       \/ \E p \in Preset : Quality(v, p)
  \/ \E t \in Tick : \/ TickStarts(t) \/ TickFails(t)
                     \/ \E ph \in {"INCREASE", "HOLD", "DECREASE"} : Decides(t, ph)
  \/ \E c \in Climate : Settle(c)
  \/ Stop

Spec == Init /\ [][Next]_vars

----------------------------------------------------------------------------
(* Properties *)

(***************************************************************************)
(* No stale back-off: the loop heeds reports of connected viewers only.    *)
(***************************************************************************)
ReportsAreOfConnected == \A v \in Viewer : report[v] # NoReport => v \in conns

(***************************************************************************)
(* An encoder never runs above the controller, and the gate holds back no  *)
(* more increases than it has counted.                                     *)
(***************************************************************************)
EncodersKeepUp ==
  \A v \in synced : enc[v] \in Nat /\ enc[v] <= current /\ current <= enc[v] + count

LoopInv == TypeOK /\ ReportsAreOfConnected /\ EncodersKeepUp

(***************************************************************************)
(* The viewer that is worst off governs: while the latency it reported is  *)
(* over the hard budget, no decision raises the bitrate, and every one     *)
(* that is taken reaches the negotiated encoders at once.                  *)
(***************************************************************************)
OverBudget(v) == report[v] # NoReport /\ report[v].rtt + report[v].playout > Hard

WorstViewerGoverns ==
  [][\A t \in Tick :
       (\E v \in conns : OverBudget(v))
         /\ (\E ph \in {"INCREASE", "HOLD", "DECREASE"} : Decides(t, ph))
       => /\ current' <= current
          /\ \A v \in conns : sender[v] = "ready" => enc'[v] = current']_vars

----------------------------------------------------------------------------
(* Liveness *)

(***************************************************************************)
(* The timer fires, getStats() answers again and again, viewers poll, and  *)
(* what was attached is negotiated.                                        *)
(***************************************************************************)
Fairness ==
  /\ \A t \in Tick : /\ WF_vars(TickStarts(t))
                     /\ SF_vars(\E ph \in {"INCREASE", "HOLD", "DECREASE"} : Decides(t, ph))
  /\ \A v \in Viewer : WF_vars(Reports(v)) /\ WF_vars(Negotiated(v))

FairSpec == Spec /\ Fairness

\* Whatever is measured and reported on the present paths, it is clean, with
\* what a denied viewer reported last; or it is congested, which a host that
\* measures no playout has to be told by somebody it listens to.
Pristine ==
  /\ \A l \in paths : l.noise = 0 /\ l.rtt > 0 /\ l.headroom >= Ceiling[preset]
  /\ \A l, m \in paths \cup ({report[v] : v \in denied} \ {NoReport}) :
       l.rtt + m.playout < Target
Hopeless == \/ \A l \in paths : l.noise = 2
            \/ Admitted # {} /\ \A l \in paths : l.rtt + l.playout > Hard

(***************************************************************************)
(* The stream follows the links: when the viewers stop coming, going,      *)
(* being denied and choosing presets, every encoder ends at the ceiling of *)
(* the preset if the paths stay clean, and at the floor if they stay       *)
(* congested.  What a viewer reported before it was denied counts for      *)
(* ever: with a bad report left the paths are never clean.                 *)
(***************************************************************************)
Settled ==
  [][UNCHANGED <<conns, denied>> /\ \A v \in Viewer, p \in Preset : ~Quality(v, p)]_vars

AllAt(level) == \A v \in Senders : enc[v] = level

FollowsTheLinks ==
  <>Settled /\ <>[](conns # {}) =>
    /\ <>[]Pristine => <>[]AllAt(Ceiling[preset])
    /\ <>[]Hopeless => <>[]AllAt(0)

=============================================================================
