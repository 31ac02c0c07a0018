------------------------------ MODULE HostCapture ------------------------------
(***************************************************************************)
(* What a running host session captures and sends: the video tracks of its *)
(* stream, the senders that carry them to the viewers, and the switch to   *)
(* another monitor (HostSession.switchMonitor() and switchSource() in      *)
(* packages/host/src/host-session.ts, Peer.replaceVideoTrack(), attach-    *)
(* Stream() and attachStreamTo() in packages/core/src/peer.ts).            *)
(*                                                                         *)
(* A switch gives up the event loop while it captures and once per sender  *)
(* it replaces a track on; nothing keeps two switches, of two viewers or   *)
(* of a viewer and the operator, from overlapping.  A connection runs its  *)
(* replaceTrack() calls one after the other; closing it, a pending call    *)
(* never returns to its caller normally, and the switch stops there.       *)
(***************************************************************************)
EXTENDS Naturals, Sequences, SequencesExt

CONSTANTS Viewer,    \* viewer ids; signaling mints a fresh one per join
          Switch,    \* calls of switchMonitor(), each naming what it captures
          Pick,      \* those the operator makes, through switchSource()
          Source,    \* monitors and windows
          First,     \* the track start() captured
          Initial    \* its source

ASSUME CaptureAssumption ==
  First \notin Switch /\ Initial \in Source /\ Pick \subseteq Switch

VARIABLES
  protected,  \* the access mode is not `open'
  up,         \* the session runs: this.peer is not null
  joined,     \* viewers that have had a connection
  conns,      \* the keys of the Peer's connections Map, in its order
  senders,    \* viewer -> the tracks of its video senders
  queue,      \* viewer -> the switches that wait for its replaceTrack()
  phase,      \* switch -> "new" | "capture" | "swap" | "done" | "abandoned"
  chosen,     \* switch -> the source it was asked for
  old,        \* switch -> its oldVideoTracks
  stream,     \* video tracks of this.stream; in `open' mode the Peer's
              \*  localStream is the same object
  live,       \* tracks captured and not stopped
  active      \* activeSourceId

session == <<protected, up>>
viewers == <<joined, conns>>
vars == <<session, viewers, senders, queue, phase, chosen, old, stream, live,
          active>>

Track == Switch \cup {First}

SourceOf(t) == IF t = First THEN Initial ELSE chosen[t]

TypeOK ==
  /\ protected \in BOOLEAN
  /\ up \in BOOLEAN
  /\ joined \subseteq Viewer
  /\ conns \in Seq(joined) /\ IsInjective(conns)
  /\ senders \in [Viewer -> Seq(Track)]
  /\ \A v \in Viewer : senders[v] # <<>> => v \in ToSet(conns)
  /\ queue \in [Viewer -> Seq(Switch)]
  /\ \A v \in Viewer : queue[v] # <<>> => senders[v] # <<>>
  /\ phase \in [Switch -> {"new", "capture", "swap", "done", "abandoned"}]
  /\ \A w \in Switch : phase[w] = "swap" <=> \E v \in Viewer : w \in ToSet(queue[v])
  /\ chosen \in [Switch -> Source]
  /\ old \in [Switch -> SUBSET Track]
  /\ stream \subseteq Track
  /\ live \subseteq Track
  /\ active \in Source

\* start() has resolved, and nobody has joined yet.
Init ==
  /\ protected \in BOOLEAN
  /\ up = TRUE
  /\ joined = {}
  /\ conns = <<>>
  /\ senders = [v \in Viewer |-> <<>>]
  /\ queue = [v \in Viewer |-> <<>>]
  /\ phase = [w \in Switch |-> "new"]
  /\ chosen = [w \in Switch |-> Initial]
  /\ old = [w \in Switch |-> {}]
  /\ stream = {First}
  /\ live = {First}
  /\ active = Initial

----------------------------------------------------------------------------
(* Viewers come and go *)

\* addTrack() for every video track of the stream.
Attach(v) == \E q \in SetToSeqs(stream) : senders' = [senders EXCEPT ![v] = q]

\* ensureConnection(): an `open' session replays its stream to the newcomer.
ViewerJoins(v) ==
  /\ up /\ v \notin joined
  /\ joined' = joined \cup {v}
  /\ conns' = Append(conns, v)
  /\ IF protected THEN UNCHANGED senders ELSE Attach(v)
  /\ UNCHANGED <<session, queue, phase, chosen, old, stream, live, active>>

\* authorizeViewer(), of a viewer that has no media yet.
Authorize(v) ==
  /\ protected /\ v \in ToSet(conns) /\ senders[v] = <<>>
  /\ Attach(v)
  /\ UNCHANGED <<session, viewers, queue, phase, chosen, old, stream, live, active>>

\* The connections of vs are closed, those of rest stay, and the switches
\* that wait at the closed ones end.
CloseConnections(vs, rest) ==
  /\ conns' = rest
  /\ senders' = [v \in Viewer |-> IF v \in vs THEN <<>> ELSE senders[v]]
  /\ queue' = [v \in Viewer |-> IF v \in vs THEN <<>> ELSE queue[v]]
  /\ phase' = [w \in Switch |-> IF \E v \in vs : w \in ToSet(queue[v])
                                THEN "abandoned" ELSE phase[w]]
  /\ UNCHANGED <<joined, chosen, old, active>>

ViewerLeaves(v) ==
  /\ \E i \in DOMAIN conns : conns[i] = v /\ CloseConnections({v}, RemoveAt(conns, i))
  /\ UNCHANGED <<session, stream, live>>

\* stop(): a switch that is still capturing is not told.
Stop ==
  /\ up
  /\ up' = FALSE
  /\ CloseConnections(Viewer, <<>>)
  /\ live' = live \ stream
  /\ stream' = {}
  /\ UNCHANGED protected

----------------------------------------------------------------------------
(* Switching *)

\* A viewer's `switch-monitor' frame has to come from a viewer with access; the
\* operator's pick goes through switchSource(), which ignores the active source.
Allowed(w, s) ==
  IF w \in Pick
  THEN s # active
  ELSE \E v \in ToSet(conns) : ~protected \/ senders[v] # <<>>

RequestSwitch(w, s) ==
  /\ up /\ phase[w] = "new"
  /\ Allowed(w, s)
  /\ phase' = [phase EXCEPT ![w] = "capture"]
  /\ chosen' = [chosen EXCEPT ![w] = s]
  /\ UNCHANGED <<session, viewers, senders, queue, old, stream, live, active>>

PickAgain(w) ==
  /\ up /\ phase[w] = "new" /\ w \in Pick
  /\ phase' = [phase EXCEPT ![w] = "done"]
  /\ chosen' = [chosen EXCEPT ![w] = active]
  /\ UNCHANGED <<session, viewers, senders, queue, old, stream, live, active>>

CaptureFails(w) ==
  /\ phase[w] = "capture"
  /\ phase' = [phase EXCEPT ![w] = "done"]
  /\ UNCHANGED <<session, viewers, senders, queue, chosen, old, stream, live, active>>

\* Mutant: without a sender to swap, the switch is a no-op.
FinishIfReplaced(w, captured, before, replaced) ==
  /\ phase' = [phase EXCEPT ![w] = "done"]
  /\ IF replaced
     THEN /\ stream' = IF protected THEN (stream \ before) \cup {w} ELSE {w}
          /\ live' = captured \ before
     ELSE live' = captured \ {w} /\ UNCHANGED stream
  /\ active' = chosen[w]

\* From the end of the loop over the connections on: Peer.replaceVideoTrack()
\* adopts the track into localStream if a sender carries it, switchMonitor()
\* into this.stream, where it replaces the tracks found before the swap.
Finish(w, captured, before, replaced) ==
  /\ phase' = [phase EXCEPT ![w] = "done"]
  /\ stream' = IF replaced /\ ~protected THEN {w} ELSE (stream \ before) \cup {w}
  /\ live' = captured \ before
  /\ active' = chosen[w]

\* Mutant: one sender is enough.
TargetsOnce(i) == {j \in DOMAIN conns : i = 0 /\ senders[conns[j]] # <<>>}

\* What the loop over the connections has before it at place i, those that
\* joined since included: connections with a video sender.
Targets(i) == {j \in DOMAIN conns : i < j /\ senders[conns[j]] # <<>>}

\* The nearest of them, where the loop stops next.
IsNext(i, j) == j \in Targets(i) /\ \A k \in Targets(i) : j <= k

\* getUserMedia() resolves.  Without a sender the whole rest runs at once, on
\* a session that stop() has ended as well.
Captured(w) ==
  /\ phase[w] = "capture"
  /\ old' = [old EXCEPT ![w] = stream]
  /\ \/ /\ Targets(0) = {}
        /\ Finish(w, live \cup {w}, stream, FALSE)
        /\ UNCHANGED queue
     \/ /\ \E j \in DOMAIN conns :
             IsNext(0, j) /\ queue' = [queue EXCEPT ![conns[j]] = Append(@, w)]
        /\ phase' = [phase EXCEPT ![w] = "swap"]
        /\ live' = live \cup {w}
        /\ UNCHANGED <<stream, active>>
  /\ UNCHANGED <<session, viewers, senders, chosen>>

\* The oldest replaceTrack() of v resolves; its loop goes on to the next one.
Swapped(v) ==
  /\ queue[v] # <<>>
  /\ senders' = [senders EXCEPT ![v][1] = Head(queue[v])]
  /\ \E i \in DOMAIN conns :
       /\ conns[i] = v
       /\ \/ /\ Targets(i) = {}
             /\ Finish(Head(queue[v]), live, old[Head(queue[v])], TRUE)
             /\ queue' = [queue EXCEPT ![v] = Tail(@)]
          \/ /\ \E j \in DOMAIN conns :
                  /\ IsNext(i, j)
                  /\ queue' = [queue EXCEPT ![v] = Tail(@),
                                            ![conns[j]] = Append(@, Head(queue[v]))]
             /\ UNCHANGED <<phase, stream, live, active>>
  /\ UNCHANGED <<session, viewers, chosen, old>>

Next ==
  \/ \E v \in Viewer :
       \/ ViewerJoins(v) \/ Authorize(v) \/ ViewerLeaves(v) \/ Swapped(v)
  \/ \E w \in Switch :
       \/ Captured(w) \/ CaptureFails(w) \/ PickAgain(w)
       \/ \E s \in Source : RequestSwitch(w, s)
  \/ Stop

Spec == Init /\ [][Next]_vars

----------------------------------------------------------------------------
(* Safety *)

(***************************************************************************)
(* ARCHITECTURE.md:500, "only the previous tracks are stopped; the newly   *)
(* swapped-in track is kept live, so the viewer sees the new monitor       *)
(* instead of a frozen" one: nobody is left with a track that was stopped. *)
(***************************************************************************)
NobodyIsFrozen == \A v \in Viewer : ToSet(senders[v]) \subseteq live

(***************************************************************************)
(* The same where everyone is attached on joining: it holds for any number *)
(* of overlapping switches, and for viewers that join in the middle.       *)
(***************************************************************************)
NobodyIsFrozenInOpenMode == ~protected => NobodyIsFrozen

(***************************************************************************)
(* host-session.ts:1070, "the NEXT viewer to connect ... gets the CHOSEN   *)
(* source": at any moment the stream a newcomer would get is live and has  *)
(* a track of the active source, and in `open' mode no other.              *)
(***************************************************************************)
NewcomersGetChosen ==
  up => /\ stream \subseteq live
        /\ \E t \in stream : SourceOf(t) = active
        /\ ~protected => \E t \in Track : stream = {t}

(***************************************************************************)
(* The shape of the state (a queue exists only where there is a sender, a  *)
(* switch is in one queue as long as it swaps), what a newcomer gets, and  *)
(* what those who are there are left with.                                 *)
(***************************************************************************)
CaptureInv == TypeOK /\ NewcomersGetChosen /\ NobodyIsFrozenInOpenMode

(***************************************************************************)
(* Switches that overlap agree in the end: once none is under way and none *)
(* was cut short, every viewer of an `open' session sees the track that a  *)
(* newcomer would see.                                                     *)
(***************************************************************************)
ViewersAgree ==
  ~protected /\ (\A w \in Switch : phase[w] \notin {"swap", "abandoned"}) =>
    \A v \in ToSet(conns) : stream = ToSet(senders[v])

=============================================================================
