---------------------------- MODULE ViewerSession ----------------------------
(***************************************************************************)
(* The viewer's session (packages/viewer/src/viewer-session.ts): the       *)
(* connect and rebuild attempts, each an async function that waits for its *)
(* signaling socket and for the server's `joined', the recovery of a lost  *)
(* media path, the access gate as the viewer sees it, and teardown.        *)
(*                                                                         *)
(* Around it, as far as the session can tell: its SignalingClient, which   *)
(* reopens a socket that drops and replays the join (SignalingClient.tla); *)
(* the server, which ends a session with its host (SignalingServer.tla);   *)
(* one host session whose access mode does not change (HostAccess.tla);    *)
(* and the RTCPeerConnection to that host.  `closed' of that connection is *)
(* not modelled: closing it locally fires no event.                        *)
(***************************************************************************)
EXTENDS Naturals, Sequences

CONSTANTS MaxFrames    \* bound: control frames in flight

ASSUME SessionAssumption == MaxFrames \in Nat

VARIABLES
  state,      \* SessionState, as last told to the UI
  closed,
  attempt,    \* the async call under way, and what it awaits
  client,     \* this.signaling: "none" | "opening": no open socket | "joining":
              \*  join sent, no answer | "joined" | "refused" | "evicting": the
              \*  host left, peer-left is on its way | "evicted"
  peer,       \* "none" | "idle": built, no connection | connection state
  graceTimer, \* reconnectTimer
  statsTimer,
  authRequired,
  authorized,
  challenge,  \* pendingChallenge is set
  screen,     \* the connection's stream: "none" | "held" | "shown"
  gated,      \* the host's access mode asks for authorization
  host,       \* the host is in the room
  link,       \* the host has a connection to this peer: "none" | "offered" |
              \*  "up" (negotiated) | "gone"
  gate,       \* the host's view of that connection: "closed" | "asked" |
              \*  "judging" | "granted" | "locked"
  frames      \* control frames on their way to the viewer

vars == <<state, closed, attempt, client, peer, graceTimer, statsTimer,
          authRequired, authorized, challenge, screen, gated, host, link, gate,
          frames>>

auth    == <<authRequired, authorized, challenge>>
hosting == <<gated, host>>
path    == <<link, gate, frames>>
timers  == <<graceTimer, statsTimer>>

Attempts == {"none", "connect-socket", "connect-ack", "rebuild-socket", "rebuild-ack"}

TypeOK ==
  /\ state \in {"idle", "connecting", "waiting-for-host", "authenticating",
                "connected", "reconnecting", "denied", "error", "disconnected"}
  /\ closed \in BOOLEAN
  /\ attempt \in Attempts
  /\ attempt \in {"connect-socket", "rebuild-socket"} /\ ~closed => client = "opening"
  /\ client \in {"none", "opening", "joining", "joined", "refused", "evicting",
                 "evicted"}
  /\ peer \in {"none", "idle", "connecting", "connected", "disconnected"}
  /\ graceTimer \in BOOLEAN
  /\ statsTimer \in BOOLEAN
  /\ authRequired \in BOOLEAN
  /\ authorized \in BOOLEAN
  /\ challenge \in BOOLEAN
  /\ screen \in {"none", "held", "shown"}
  /\ gated \in BOOLEAN
  /\ host \in BOOLEAN
  /\ link \in {"none", "offered", "up", "gone"}
  /\ gate \in {"closed", "asked", "judging", "granted", "locked"}
  /\ frames \in Seq({"challenge", "ok", "denied"})

Init ==
  /\ state = "idle"
  /\ closed = FALSE
  /\ attempt = "none"
  /\ client = "none"
  /\ peer = "none"
  /\ graceTimer = FALSE
  /\ statsTimer = FALSE
  /\ authRequired = FALSE
  /\ authorized = FALSE
  /\ challenge = FALSE
  /\ screen = "none"
  /\ gated \in BOOLEAN
  /\ host \in BOOLEAN
  /\ link = "none"
  /\ gate = "closed"
  /\ frames = <<>>

----------------------------------------------------------------------------

Gated == authRequired /\ ~authorized

\* setState(): silent once the session is closed, unless forced.
setState(s) == state' = IF closed THEN state ELSE s

Unlinked == link' = "none" /\ gate' = "closed" /\ frames' = <<>>

\* The host hears peer-left: it closes its connection to this viewer.
HostDropsLink == /\ link' = IF link = "none" THEN "none" ELSE "gone"
                 /\ gate' = "closed"
                 /\ frames' = <<>>

\* disconnect() and teardownForError(), which differ in the state they end in.
Teardown ==
  /\ closed' = TRUE
  /\ graceTimer' = FALSE
  /\ statsTimer' = FALSE
  /\ peer' = "none"
  /\ client' = "none"
  /\ screen' = "none"
  /\ challenge' = FALSE
  /\ Unlinked
  /\ UNCHANGED <<authRequired, authorized>>

Connect ==
  /\ state = "idle"
  /\ setState("connecting")
  /\ attempt' = "connect-socket"
  /\ client' = "opening"
  /\ UNCHANGED <<closed, peer, timers, auth, screen, hosting, path>>

Disconnect ==
  /\ ~closed /\ state # "idle"
  /\ Teardown
  /\ state' = "disconnected"
  /\ UNCHANGED <<attempt, hosting>>

----------------------------------------------------------------------------
(* Recovery *)

\* rebuildPeer() up to its first await.
rebuildPeer ==
  /\ attempt' = "rebuild-socket"
  /\ graceTimer' = FALSE
  /\ setState("reconnecting")
  /\ authRequired' = FALSE
  /\ authorized' = FALSE
  /\ challenge' = FALSE
  /\ screen' = "none"
  /\ peer' = "none"
  /\ client' = "opening"
  /\ Unlinked
  /\ UNCHANGED <<closed, statsTimer, hosting>>

\* onPeerState("disconnected").
PathDrops ==
  /\ peer = "connected"
  /\ peer' = "disconnected"
  /\ setState("reconnecting")
  /\ graceTimer' = TRUE
  /\ UNCHANGED <<closed, attempt, client, statsTimer, auth, screen, hosting, path>>

\* onPeerState("failed"): ICE gives up.
PathFails ==
  /\ peer \in {"connecting", "disconnected"}
  /\ rebuildPeer

GraceTimer ==
  /\ graceTimer
  /\ rebuildPeer

\* Mutant: the gate is not looked at when the path comes up.
PathUpUngated ==
  /\ peer \in {"connecting", "disconnected"} /\ link = "up"
  /\ peer' = "connected"
  /\ graceTimer' = FALSE
  /\ setState("connected")
  /\ UNCHANGED <<closed, attempt, client, statsTimer, auth, screen, hosting, path>>

\* onPeerState("connected").
PathUp ==
  /\ peer \in {"connecting", "disconnected"} /\ link = "up"
  /\ peer' = "connected"
  /\ graceTimer' = FALSE
  /\ setState(IF Gated THEN "authenticating" ELSE "connected")
  /\ UNCHANGED <<closed, attempt, client, statsTimer, auth, screen, hosting, path>>

----------------------------------------------------------------------------
(* Signaling *)

\* The socket opens and the join goes out: the session's own in an attempt,
\* the replayed one after an outage.
SocketOpens ==
  /\ client = "opening"
  /\ client' = "joining"
  /\ attempt' = CASE attempt = "connect-socket" -> "connect-ack"
                  [] attempt = "rebuild-socket" -> "rebuild-ack"
                  [] OTHER -> attempt
  /\ UNCHANGED <<state, closed, peer, timers, auth, screen, hosting, path>>

\* The socket drops, or the server closes it: after an eviction, or because
\* the join deadline of an unjoined connection passed.
SocketDrops ==
  /\ client \in {"joining", "joined", "refused", "evicting", "evicted"}
  /\ client' = "opening"
  /\ HostDropsLink
  /\ UNCHANGED <<state, closed, attempt, peer, timers, auth, screen, hosting>>

\* `joined' arrives: the attempt, if there is one, builds and starts its Peer,
\* and the host offers to the newcomer.
Joined ==
  /\ client = "joining" /\ host
  /\ client' = "joined"
  /\ link' = "offered" /\ gate' = "closed" /\ frames' = <<>>
  /\ attempt' = "none"
  /\ peer' = IF attempt = "none" THEN peer ELSE "idle"
  /\ statsTimer' = (statsTimer \/ attempt # "none")
  /\ IF attempt = "connect-ack" THEN setState("waiting-for-host")
     ELSE UNCHANGED state
  /\ UNCHANGED <<closed, graceTimer, auth, screen, hosting>>

\* Mutant: a refused rebuild reports the error and leaves everything running.
AttemptFailsOpen ==
  /\ attempt' = "none"
  /\ state' = "error"
  /\ UNCHANGED <<closed, client, peer, timers, auth, screen, hosting, path>>

\* Mutant: the terminal error of a teardown is not forced.
AttemptFailsMute ==
  /\ attempt' = "none"
  /\ \/ closed /\ UNCHANGED <<closed, client, peer, timers, auth, screen, path>>
     \/ ~closed /\ Teardown
  /\ UNCHANGED <<state, hosting>>

\* The catch clauses of connect() and rebuildPeer().  connect() looks whether
\* it was superseded, rebuildPeer() does not.
AttemptFails ==
  /\ attempt' = "none"
  /\ \/ /\ attempt \in {"connect-socket", "connect-ack"} /\ closed
        /\ UNCHANGED <<state, closed, client, peer, timers, auth, screen, path>>
     \/ /\ attempt \in {"connect-socket", "connect-ack"} /\ ~closed
        /\ Teardown
        /\ state' = "error"
     \/ /\ attempt \in {"rebuild-socket", "rebuild-ack"}
        /\ Teardown
        /\ state' = "error"
  /\ UNCHANGED hosting

\* connect() of the client rejects: the socket never opened, or disconnect()
\* closed it before it did.
SocketFails ==
  /\ attempt \in {"connect-socket", "rebuild-socket"}
  /\ AttemptFails

\* The server refuses the join: no such session, room full, throttled.
Refused ==
  /\ client = "joining"
  /\ \/ /\ attempt # "none"
        /\ AttemptFails
     \/ /\ attempt = "none"
        /\ client' = "refused"
        /\ setState("error")
        /\ UNCHANGED <<closed, attempt, peer, timers, auth, screen, hosting, path>>

AckTimeout ==
  /\ attempt \in {"connect-ack", "rebuild-ack"}
  /\ AttemptFails

----------------------------------------------------------------------------
(* The host *)

HostArrives ==
  /\ ~host
  /\ host' = TRUE
  /\ UNCHANGED <<state, closed, attempt, client, peer, timers, auth, screen,
                 gated, path>>

\* The host's signaling presence ends, and the server evicts its viewers.
HostLeaves ==
  /\ host
  /\ host' = FALSE
  /\ client' = IF client = "joined" THEN "evicting" ELSE client
  /\ HostDropsLink
  /\ UNCHANGED <<state, closed, attempt, peer, timers, auth, screen, gated>>

\* peer-left of the host: Peer closes the connection, the session waits.
PeerLeft ==
  /\ client = "evicting"
  /\ client' = "evicted"
  /\ setState("waiting-for-host")
  /\ peer' = "idle"
  /\ screen' = "none"
  /\ Unlinked
  /\ UNCHANGED <<closed, attempt, timers, auth, hosting>>

\* The offer arrives.  If a connection to this host is left over from before
\* the socket dropped, the offer meets that one: it renegotiates it or fails.
Offer ==
  /\ link = "offered" /\ client = "joined" /\ peer # "none"
  /\ link' \in IF peer = "idle" THEN {"up"} ELSE {"up", "gone"}
  /\ peer' = IF peer = "idle" THEN "connecting" ELSE peer
  /\ UNCHANGED <<state, closed, attempt, client, timers, auth, screen, hosting,
                 gate, frames>>

\* The viewer answers an offer whose sender is gone by then: its connection
\* looks for a path that no longer exists.
StaleAnswer ==
  /\ peer = "idle" /\ link \in {"offered", "gone"}
  /\ peer' = "connecting"
  /\ UNCHANGED <<state, closed, attempt, client, timers, auth, screen, hosting,
                 path>>

\* beginAuth() at the host, when its control channel opens.
ControlOpens ==
  /\ link = "up" /\ peer = "connected" /\ gate = "closed"
  /\ \/ /\ gated
        /\ gate' = "asked"
        /\ frames' = Append(frames, "challenge")
     \/ /\ ~gated
        /\ gate' = "granted"
        /\ UNCHANGED frames
  /\ UNCHANGED <<state, closed, attempt, client, peer, timers, auth, screen,
                 hosting, link>>

\* The human decides (`prompt' mode) or the proof does; a denial is followed
\* by a fresh challenge unless the address is locked out.
Verdict ==
  /\ gate \in {"asked", "judging"} /\ Len(frames) < MaxFrames
  /\ \/ gate' = "granted" /\ frames' = Append(frames, "ok")
     \/ gate' = "asked"   /\ frames' = frames \o <<"denied", "challenge">>
     \/ gate' = "locked"  /\ frames' = Append(frames, "denied")
  /\ UNCHANGED <<state, closed, attempt, client, peer, timers, auth, screen,
                 hosting, link>>

----------------------------------------------------------------------------
(* Control frames and the stream *)

\* submitPin(): consumes the challenge and answers it.
SubmitPin ==
  /\ challenge /\ peer = "connected"
  /\ challenge' = FALSE
  /\ gate' = IF gate = "asked" THEN "judging" ELSE gate
  /\ UNCHANGED <<state, closed, attempt, client, peer, timers, authRequired,
                 authorized, screen, hosting, link, frames>>

onAuthChallenge ==
  /\ authRequired' = TRUE
  /\ authorized' = FALSE
  /\ challenge' = TRUE
  /\ setState("authenticating")
  /\ UNCHANGED screen

\* Mutant: the verdict is noted, the stream that waited for it is not released.
onAuthResultHolds(ok) ==
  /\ authorized' = ok
  /\ challenge' = FALSE
  /\ setState(IF ok THEN "connected" ELSE "denied")
  /\ UNCHANGED <<authRequired, screen>>

onAuthResult(ok) ==
  /\ authorized' = ok
  /\ challenge' = FALSE
  /\ setState(IF ok THEN "connected" ELSE "denied")
  /\ screen' = IF ok /\ screen = "held" THEN "shown" ELSE screen
  /\ UNCHANGED authRequired

\* A frame is read; one that had arrived may be read just after a drop.
ReadFrame ==
  /\ frames # <<>> /\ peer \in {"connected", "disconnected"}
  /\ frames' = Tail(frames)
  /\ \/ Head(frames) = "challenge" /\ onAuthChallenge
     \/ Head(frames) = "ok" /\ onAuthResult(TRUE)
     \/ Head(frames) = "denied" /\ onAuthResult(FALSE)
  /\ UNCHANGED <<closed, attempt, client, peer, timers, hosting, link, gate>>

\* The `track' event: media travels beside the control channel, and may come
\* before the verdict that released it.
Track ==
  /\ gate = "granted" /\ peer = "connected" /\ screen = "none"
  /\ screen' = IF Gated THEN "held" ELSE "shown"
  /\ UNCHANGED <<state, closed, attempt, client, peer, timers, auth, hosting, path>>

Next ==
  \/ Connect \/ Disconnect
  \/ PathDrops \/ PathFails \/ PathUp \/ GraceTimer
  \/ SocketOpens \/ SocketDrops \/ SocketFails \/ Joined \/ Refused \/ AckTimeout
  \/ HostArrives \/ HostLeaves \/ PeerLeft \/ Offer \/ StaleAnswer \/ ControlOpens \/ Verdict
  \/ SubmitPin \/ ReadFrame \/ Track

Spec == Init /\ [][Next]_vars

----------------------------------------------------------------------------
(* Safety *)

(***************************************************************************)
(* A session that was torn down has let go of everything, whichever await  *)
(* it was in: no socket that would replay its join, no connection, no      *)
(* timer, no challenge.  And the other way round: a session that is still  *)
(* open after its connect() has a client that keeps it in the room.        *)
(***************************************************************************)
ClosedHoldsNothing ==
  /\ closed => /\ client = "none" /\ peer = "none" /\ ~challenge
               /\ ~graceTimer /\ ~statsTimer
  /\ ~closed /\ state # "idle" =>
       client # "none" /\ (statsTimer \/ attempt # "none")

(***************************************************************************)
(* A lost path is always being recovered: the grace timer is armed for as  *)
(* long as the connection is `disconnected'.                               *)
(***************************************************************************)
DropIsTimed == peer = "disconnected" => graceTimer

(***************************************************************************)
(* viewer-session.ts:242, once the host has required authorization the     *)
(* session is "never `connected'" before it is given, and a stream is      *)
(* withheld for that reason only: reconnects, late tracks and repeated     *)
(* challenges included.                                                    *)
(***************************************************************************)
GateHolds == /\ Gated => state # "connected"
             /\ screen = "held" => Gated

----------------------------------------------------------------------------
(* Liveness *)

(***************************************************************************)
(* Timers fire, sockets open or fail, the server answers, the host offers  *)
(* and its channel opens, frames and tracks arrive.  The network is not    *)
(* always usable, but a connection attempt succeeds again and again.       *)
(***************************************************************************)
Fairness ==
  /\ WF_vars(SocketOpens \/ SocketFails)
  /\ SF_vars(Joined \/ Refused)
  /\ WF_vars(client \in {"refused", "evicted"} /\ SocketDrops)
  /\ WF_vars(AckTimeout)
  /\ WF_vars(GraceTimer)
  /\ WF_vars(PeerLeft)
  /\ SF_vars(Offer)
  /\ WF_vars(PathUp \/ PathFails)
  /\ WF_vars(link = "gone" /\ PathDrops)
  /\ SF_vars(PathUp)
  /\ WF_vars(ControlOpens)
  /\ WF_vars(ReadFrame)
  /\ SF_vars(Track)

FairSpec == Spec /\ Fairness

(***************************************************************************)
(* "Reconnecting" is not where a session ends: it recovers, waits for its  *)
(* host or gives up with an error.                                         *)
(***************************************************************************)
RecoveryEnds == state = "reconnecting" ~> state # "reconnecting"

(***************************************************************************)
(* A viewer the host has granted access sees the screen, whichever of the  *)
(* verdict and the stream arrives first, unless the connection is lost.    *)
(***************************************************************************)
GrantShowsScreen ==
  gate = "granted" ~> (screen = "shown" \/ gate # "granted")

=============================================================================
