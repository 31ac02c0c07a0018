------------------------ MODULE ViewerConnectionProofs ------------------------
(***************************************************************************)
(* The safety invariants of ViewerSession.tla, with any number of control  *)
(* frames in flight; and that the session beneath which the Peers          *)
(* negotiate (ViewerConnection.tla) is that session: the negotiation adds  *)
(* no step to it and what it guarantees carries over.                      *)
(*                                                                         *)
(* Then that the Peers never glare, by an invariant of the negotiation: an *)
(* offer and its answer are one token, which is at the host, on one of the *)
(* wires or at the viewer, and the host makes no other while there is one. *)
(*                                                                         *)
(* And that no candidate is lost beside it: one that was sent is behind    *)
(* the description it belongs to, or with the connection that has that.    *)
(***************************************************************************)
EXTENDS ViewerConnection, SequenceTheorems, TLAPS

(***************************************************************************)
(* What the invariants rest on: before connect() the session has nothing,  *)
(* and disconnect() does nothing to a session that has not started.        *)
(***************************************************************************)
IdleHoldsNothing ==
  state = "idle" => /\ ~closed /\ attempt = "none" /\ client = "none"
                    /\ peer = "none" /\ ~graceTimer /\ ~Gated

\* The two-valued part of the type, which the leaves below establish first.
FlagsOK == /\ closed \in BOOLEAN /\ graceTimer \in BOOLEAN /\ statsTimer \in BOOLEAN
           /\ authRequired \in BOOLEAN /\ authorized \in BOOLEAN
           /\ challenge \in BOOLEAN /\ gated \in BOOLEAN /\ host \in BOOLEAN

SessionInv == /\ TypeOK
              /\ IdleHoldsNothing
              /\ ClosedHoldsNothing
              /\ DropIsTimed
              /\ GateHolds

LEMMA FlagsType == SessionInv => FlagsOK
  BY DEF SessionInv, TypeOK, FlagsOK

LEMMA InitSessionInv == Init => SessionInv
  <1>. SUFFICES ASSUME Init PROVE SessionInv
    OBVIOUS
  <1>1. FlagsOK
    BY Zenon DEF Init, FlagsOK
  <1>. QED
    BY <1>1 DEF FlagsOK, Init, SessionInv, TypeOK, IdleHoldsNothing,
       ClosedHoldsNothing, DropIsTimed, GateHolds, Gated, Attempts

----------------------------------------------------------------------------
(* Starting and ending *)

LEMMA ConnectStep == SessionInv /\ Connect => SessionInv'
  BY DEF Connect, setState, SessionInv, TypeOK, IdleHoldsNothing,
         ClosedHoldsNothing, DropIsTimed, GateHolds, Gated, Attempts, timers,
         auth, hosting, path

(***************************************************************************)
(* Whatever was under way, a session that is torn down in a terminal state *)
(* satisfies the invariants.                                               *)
(***************************************************************************)
LEMMA TeardownStep ==
  ASSUME SessionInv, Teardown, UNCHANGED hosting,
         state' \in {"error", "disconnected"}, attempt' \in {attempt, "none"}
  PROVE  SessionInv'
  <1>1. FlagsOK'
    BY FlagsType, Zenon DEF FlagsOK, Teardown, hosting
  <1>. QED
    BY <1>1 DEF FlagsOK, Teardown, Unlinked, SessionInv, TypeOK,
       IdleHoldsNothing, ClosedHoldsNothing, DropIsTimed, GateHolds, Gated,
       Attempts, hosting

LEMMA DisconnectStep == SessionInv /\ Disconnect => SessionInv'
  BY TeardownStep DEF Disconnect

LEMMA AttemptFailsStep ==
  ASSUME SessionInv, attempt # "none", AttemptFails
  PROVE  SessionInv'
  <1>1. CASE attempt \in {"connect-socket", "connect-ack"} /\ closed
    <2>1. /\ attempt' = "none"
          /\ UNCHANGED <<state, closed, client, peer, timers, auth, screen,
                         path, hosting>>
      BY <1>1 DEF AttemptFails
    <2>2. FlagsOK'
      BY <2>1, FlagsType DEF FlagsOK, timers, auth, hosting
    <2>. QED
      BY <1>1, <2>1, <2>2 DEF FlagsOK, SessionInv, TypeOK, IdleHoldsNothing,
         ClosedHoldsNothing, DropIsTimed, GateHolds, Gated, Attempts, timers,
         auth, hosting, path
  <1>2. CASE ~(attempt \in {"connect-socket", "connect-ack"} /\ closed)
    <2>1. Teardown /\ state' = "error" /\ attempt' = "none" /\ UNCHANGED hosting
      BY <1>2 DEF AttemptFails
    <2>. QED
      BY <2>1, TeardownStep
  <1>. QED
    BY <1>1, <1>2

----------------------------------------------------------------------------
(* Recovery *)

(***************************************************************************)
(* A rebuild starts from any session that is open and under way.           *)
(***************************************************************************)
LEMMA rebuildPeerStep ==
  ASSUME SessionInv, rebuildPeer, ~closed, state # "idle"
  PROVE  SessionInv'
  <1>1. FlagsOK'
    BY FlagsType, Zenon DEF FlagsOK, rebuildPeer, hosting
  <1>. QED
    BY <1>1 DEF FlagsOK, rebuildPeer, setState, Unlinked, SessionInv, TypeOK,
       IdleHoldsNothing, ClosedHoldsNothing, DropIsTimed, GateHolds, Gated,
       Attempts, hosting

LEMMA RecoveryStep ==
  ASSUME SessionInv, PathDrops \/ PathFails \/ PathUp \/ GraceTimer
  PROVE  SessionInv'
  <1>1. CASE PathFails \/ GraceTimer
    BY <1>1, rebuildPeerStep DEF PathFails, GraceTimer, SessionInv,
       IdleHoldsNothing, ClosedHoldsNothing
  <1>2. CASE PathDrops
    BY <1>2 DEF PathDrops, setState, SessionInv, TypeOK, IdleHoldsNothing,
       ClosedHoldsNothing, DropIsTimed, GateHolds, Gated, Attempts, timers,
       auth, hosting, path
  <1>3. CASE PathUp
    <2>1. FlagsOK'
      BY <1>3, FlagsType, Zenon DEF FlagsOK, PathUp, auth, hosting
    <2>. QED
      BY <1>3, <2>1 DEF FlagsOK, PathUp, setState, SessionInv, TypeOK,
         IdleHoldsNothing, ClosedHoldsNothing, DropIsTimed, GateHolds, Gated,
         Attempts, timers, auth, hosting, path
  <1>. QED
    BY <1>1, <1>2, <1>3

----------------------------------------------------------------------------
(* Signaling *)

LEMMA SocketStep ==
  ASSUME SessionInv, SocketOpens \/ SocketDrops
  PROVE  SessionInv'
  <1>1. CASE SocketOpens
    BY <1>1 DEF SocketOpens, SessionInv, TypeOK, IdleHoldsNothing,
       ClosedHoldsNothing, DropIsTimed, GateHolds, Gated, Attempts, timers,
       auth, hosting, path
  <1>2. CASE SocketDrops
    BY <1>2 DEF SocketDrops, HostDropsLink, SessionInv, TypeOK,
       IdleHoldsNothing, ClosedHoldsNothing, DropIsTimed, GateHolds, Gated,
       Attempts, timers, auth, hosting
  <1>. QED
    BY <1>1, <1>2

LEMMA JoinedStep ==
  ASSUME SessionInv, Joined
  PROVE  SessionInv'
  <1>1. FlagsOK'
    BY FlagsType, Zenon DEF FlagsOK, Joined, auth, hosting
  <1>2. statsTimer' <=> statsTimer \/ attempt # "none"
    BY Zenon DEF Joined
  <1>3. /\ client = "joining" /\ client' = "joined"
        /\ link' = "offered" /\ gate' = "closed" /\ frames' = <<>>
        /\ attempt' = "none"
        /\ peer' = IF attempt = "none" THEN peer ELSE "idle"
        /\ state' = IF attempt = "connect-ack" /\ ~closed
                    THEN "waiting-for-host" ELSE state
        /\ UNCHANGED <<closed, graceTimer, auth, screen, hosting>>
    BY DEF Joined, setState
  <1>. QED
    BY <1>1, <1>2, <1>3 DEF FlagsOK, SessionInv, TypeOK, IdleHoldsNothing,
       ClosedHoldsNothing, DropIsTimed, GateHolds, Gated, Attempts, auth, hosting

LEMMA RefusalStep ==
  ASSUME SessionInv, SocketFails \/ Refused \/ AckTimeout
  PROVE  SessionInv'
  <1>1. CASE attempt # "none"
    BY <1>1, AttemptFailsStep DEF SocketFails, Refused, AckTimeout
  <1>2. CASE attempt = "none"
    <2>1. /\ client = "joining" /\ client' = "refused" /\ setState("error")
          /\ UNCHANGED <<closed, attempt, peer, timers, auth, screen, hosting,
                         path>>
      BY <1>2 DEF SocketFails, Refused, AckTimeout
    <2>2. FlagsOK'
      BY <2>1, FlagsType DEF FlagsOK, timers, auth, hosting
    <2>. QED
      BY <1>2, <2>1, <2>2 DEF FlagsOK, setState, SessionInv, TypeOK,
         IdleHoldsNothing, ClosedHoldsNothing, DropIsTimed, GateHolds, Gated,
         Attempts, timers, auth, hosting, path
  <1>. QED
    BY <1>1, <1>2

----------------------------------------------------------------------------
(* The host, and what it sends *)

LEMMA HostStep ==
  ASSUME SessionInv, HostArrives \/ HostLeaves \/ PeerLeft \/ Offer \/ StaleAnswer
  PROVE  SessionInv'
  <1>1. CASE HostArrives
    BY <1>1 DEF HostArrives, SessionInv, TypeOK, IdleHoldsNothing,
       ClosedHoldsNothing, DropIsTimed, GateHolds, Gated, Attempts, timers,
       auth, path
  <1>2. CASE HostLeaves
    <2>1. FlagsOK'
      BY <1>2, FlagsType, Zenon DEF FlagsOK, HostLeaves, timers, auth
    <2>. QED
      BY <1>2, <2>1 DEF FlagsOK, HostLeaves, HostDropsLink, SessionInv, TypeOK,
         IdleHoldsNothing, ClosedHoldsNothing, DropIsTimed, GateHolds, Gated,
         Attempts, timers, auth
  <1>3. CASE PeerLeft
    BY <1>3 DEF PeerLeft, setState, Unlinked, SessionInv, TypeOK,
       IdleHoldsNothing, ClosedHoldsNothing, DropIsTimed, GateHolds, Gated,
       Attempts, timers, auth, hosting
  <1>4. CASE Offer
    BY <1>4 DEF Offer, SessionInv, TypeOK, IdleHoldsNothing,
       ClosedHoldsNothing, DropIsTimed, GateHolds, Gated, Attempts, timers,
       auth, hosting
  <1>5. CASE StaleAnswer
    BY <1>5 DEF StaleAnswer, SessionInv, TypeOK, IdleHoldsNothing,
       ClosedHoldsNothing, DropIsTimed, GateHolds, Gated, Attempts, timers,
       auth, hosting, path
  <1>. QED
    BY <1>1, <1>2, <1>3, <1>4, <1>5

(***************************************************************************)
(* Sending frames, and reading them, keeps the type of what is in flight.  *)
(***************************************************************************)
LEMMA FramesType ==
  ASSUME NEW S, NEW a \in S, NEW b \in S, NEW q \in Seq(S)
  PROVE  /\ Append(q, a) \in Seq(S)
         /\ q \o <<a, b>> \in Seq(S)
         /\ q # <<>> => Tail(q) \in Seq(S)
  <1>1. <<a, b>> \in Seq(S)
    OBVIOUS
  <1>. QED
    BY <1>1

LEMMA ChannelStep ==
  ASSUME SessionInv, ControlOpens \/ Verdict
  PROVE  SessionInv'
  <1>1. TypeOK'
    <2>1. frames' \in Seq({"challenge", "ok", "denied"})
      BY FramesType DEF ControlOpens, Verdict, SessionInv, TypeOK
    <2>. QED
      BY <2>1 DEF ControlOpens, Verdict, SessionInv, TypeOK, Attempts, timers,
         auth, hosting
  <1>2. UNCHANGED <<state, closed, attempt, client, peer, timers, auth, screen>>
    BY DEF ControlOpens, Verdict
  <1>. QED
    BY <1>1, <1>2 DEF SessionInv, IdleHoldsNothing, ClosedHoldsNothing,
       DropIsTimed, GateHolds, Gated, timers, auth

LEMMA SubmitPinStep ==
  ASSUME SessionInv, SubmitPin
  PROVE  SessionInv'
  <1>1. FlagsOK'
    BY FlagsType, Zenon DEF FlagsOK, SubmitPin, timers, hosting
  <1>. QED
    BY <1>1 DEF FlagsOK, SubmitPin, SessionInv, TypeOK, IdleHoldsNothing,
       ClosedHoldsNothing, DropIsTimed, GateHolds, Gated, Attempts, timers,
       hosting

LEMMA TrackStep == SessionInv /\ Track => SessionInv'
  BY DEF Track, SessionInv, TypeOK, IdleHoldsNothing, ClosedHoldsNothing,
         DropIsTimed, GateHolds, Gated, Attempts, timers, auth, hosting, path

LEMMA ReadFrameStep ==
  ASSUME SessionInv, ReadFrame
  PROVE  SessionInv'
  <1>1. frames' \in Seq({"challenge", "ok", "denied"})
    BY FramesType DEF ReadFrame, SessionInv, TypeOK
  <1>2. ~closed /\ state # "idle"
    BY DEF ReadFrame, SessionInv, ClosedHoldsNothing, IdleHoldsNothing
  <1>3. CASE onAuthChallenge
    <2>1. FlagsOK'
      BY <1>3, FlagsType, Zenon DEF FlagsOK, ReadFrame, onAuthChallenge, timers,
         hosting
    <2>. QED
      BY <1>1, <1>2, <1>3, <2>1 DEF FlagsOK, ReadFrame, onAuthChallenge,
         setState, SessionInv, TypeOK, IdleHoldsNothing, ClosedHoldsNothing,
         DropIsTimed, GateHolds, Gated, Attempts, timers, hosting
  <1>4. ASSUME NEW ok \in BOOLEAN, onAuthResult(ok)
        PROVE  SessionInv'
    <2>1. FlagsOK'
      BY <1>4, FlagsType, Zenon DEF FlagsOK, ReadFrame, onAuthResult, timers,
         hosting
    <2>. QED
      BY <1>1, <1>2, <1>4, <2>1 DEF FlagsOK, ReadFrame, onAuthResult, setState,
         SessionInv, TypeOK, IdleHoldsNothing, ClosedHoldsNothing, DropIsTimed,
         GateHolds, Gated, Attempts, timers, hosting
  <1>. QED
    BY <1>3, <1>4 DEF ReadFrame

----------------------------------------------------------------------------

LEMMA NextSessionInv == SessionInv /\ [Next]_vars => SessionInv'
  <1>. SUFFICES ASSUME SessionInv, [Next]_vars PROVE SessionInv'
    OBVIOUS
  <1>1. CASE UNCHANGED vars
    BY <1>1 DEF vars, SessionInv, TypeOK, IdleHoldsNothing, ClosedHoldsNothing,
       DropIsTimed, GateHolds, Gated
  <1>2. CASE Next
    BY <1>2, ConnectStep, DisconnectStep, RecoveryStep, SocketStep, JoinedStep,
       RefusalStep, HostStep, ChannelStep, SubmitPinStep, TrackStep,
       ReadFrameStep DEF Next
  <1>. QED
    BY <1>1, <1>2

(***************************************************************************)
(* A client that is in no attempt has the Peer its room needs, and so has  *)
(* one the host keeps a connection to.                                     *)
(***************************************************************************)
PeerHeld ==
  /\ client # "none" /\ attempt = "none" => peer # "none"
  /\ link \in {"offered", "up"} => peer # "none"

LEMMA PeerHeldStep == SessionInv /\ PeerHeld /\ [Next]_vars => PeerHeld'
  <1>. SUFFICES ASSUME SessionInv, PeerHeld, [Next]_vars PROVE PeerHeld'
    OBVIOUS
  <1>1. closed => client = "none"
    BY DEF SessionInv, ClosedHoldsNothing
  <1>2. CASE UNCHANGED vars
    BY <1>2 DEF vars, PeerHeld
  <1>3. CASE Connect \/ Disconnect
    BY <1>3 DEF Connect, Disconnect, Teardown, Unlinked, path, PeerHeld, SessionInv,
                IdleHoldsNothing
  <1>4. CASE PathDrops \/ PathFails \/ GraceTimer \/ PathUp
    BY <1>4 DEF PathDrops, PathFails, GraceTimer, PathUp, rebuildPeer, Unlinked, path, PeerHeld
  <1>5. CASE SocketOpens \/ SocketDrops
    BY <1>5 DEF SocketOpens, SocketDrops, HostDropsLink, path, PeerHeld
  <1>6. CASE SocketFails \/ Refused \/ AckTimeout
    BY <1>1, <1>6 DEF SocketFails, Refused, AckTimeout, AttemptFails, Teardown, Unlinked, path,
                      PeerHeld
  <1>7. CASE HostArrives \/ HostLeaves \/ PeerLeft
    BY <1>7 DEF HostArrives, HostLeaves, PeerLeft, HostDropsLink, Unlinked, path, PeerHeld
  <1>8. CASE Offer \/ StaleAnswer \/ Joined
    BY <1>8 DEF Offer, StaleAnswer, Joined, path, PeerHeld
  <1>9. CASE ControlOpens \/ Verdict
    BY <1>9 DEF ControlOpens, Verdict, PeerHeld
  <1>10. CASE SubmitPin \/ ReadFrame \/ Track
    BY <1>10 DEF SubmitPin, ReadFrame, Track, path, PeerHeld
  <1>. QED
    BY <1>2, <1>3, <1>4, <1>5, <1>6, <1>7, <1>8, <1>9, <1>10 DEF Next

LEMMA SessionInvariant == Spec => []SessionInv
  BY InitSessionInv, NextSessionInv, PTL DEF Spec

(***************************************************************************)
(* Every variable of the session keeps its type, and an attempt that waits *)
(* for its socket has a client that is opening one.                        *)
(***************************************************************************)
THEOREM SessionTypeCorrect == Spec => []TypeOK
  <1>1. SessionInv => TypeOK
    BY DEF SessionInv
  <1>. QED
    BY <1>1, SessionInvariant, PTL

(***************************************************************************)
(* disconnect() and teardownForError() leave nothing behind, whichever     *)
(* await of connect() or rebuildPeer() they interrupt, and an open session *)
(* never loses its client.                                                 *)
(***************************************************************************)
THEOREM SessionTeardownIsTotal == Spec => []ClosedHoldsNothing
  <1>1. SessionInv => ClosedHoldsNothing
    BY DEF SessionInv
  <1>. QED
    BY <1>1, SessionInvariant, PTL

(***************************************************************************)
(* onPeerState() arms the grace timer whenever the path is lost, and       *)
(* nothing disarms it while the path is still lost.                        *)
(***************************************************************************)
THEOREM SessionDropIsTimed == Spec => []DropIsTimed
  <1>1. SessionInv => DropIsTimed
    BY DEF SessionInv
  <1>. QED
    BY <1>1, SessionInvariant, PTL

(***************************************************************************)
(* The viewer's gate: a session that was asked for authorization never     *)
(* shows `connected' before the host has given it, through every           *)
(* reconnect, late track and repeated challenge.                           *)
(***************************************************************************)
THEOREM SessionGateHolds == Spec => []GateHolds
  <1>1. SessionInv => GateHolds
    BY DEF SessionInv
  <1>. QED
    BY <1>1, SessionInvariant, PTL

----------------------------------------------------------------------------
(* The negotiation beneath the session *)

LEMMA SessionStepMaps == SessionStep => Next
  BY Zenon DEF SessionStep, Next

LEMMA ViewerAnswersMaps == ViewerAnswers => [Next]_vars
  BY Zenon DEF ViewerAnswers, Next

LEMMA ViewerRejectsMaps == ViewerRejects => [Next]_vars
  BY Zenon DEF ViewerRejects, Next

LEMMA NegotiationStepMaps == NegotiationStep => UNCHANGED vars
  BY Zenon DEF NegotiationStep

(***************************************************************************)
(* Every step of the two Peers and the session together is a step of the   *)
(* session or leaves it alone: an answer is an Offer that was taken, a     *)
(* rejected description one that was not, all else goes on beneath.        *)
(***************************************************************************)
LEMMA ConnectionNextMaps == [ConnectionNext]_allVars => [Next]_vars
  <1>. SUFFICES ASSUME [ConnectionNext]_allVars PROVE [Next]_vars
    OBVIOUS
  <1>1. CASE UNCHANGED allVars
    BY <1>1, Zenon DEF allVars
  <1>2. CASE ConnectionNext
    BY <1>2, SessionStepMaps, ViewerAnswersMaps, ViewerRejectsMaps,
       NegotiationStepMaps, Zenon DEF ConnectionNext
  <1>. QED
    BY <1>1, <1>2

(***************************************************************************)
(* peer.ts and viewer-session.ts together do nothing that the session by   *)
(* itself, with an offer that is answered or fails at will, could not.     *)
(***************************************************************************)
THEOREM ConnectionImplementsSession == ConnectionSpec => Spec
  <1>1. ConnectionInit => Init
    BY DEF ConnectionInit
  <1>. QED
    BY <1>1, ConnectionNextMaps, PTL DEF ConnectionSpec, Spec

(***************************************************************************)
(* Teardown leaves nothing behind whatever the negotiation was doing.      *)
(***************************************************************************)
THEOREM ConnectionTeardownIsTotal == ConnectionSpec => []ClosedHoldsNothing
  BY ConnectionImplementsSession, SessionTeardownIsTotal, PTL

(***************************************************************************)
(* The gate of the viewer holds whatever the negotiation brings up, and in *)
(* whichever order.                                                        *)
(***************************************************************************)
THEOREM ConnectionGateHolds == ConnectionSpec => []GateHolds
  BY ConnectionImplementsSession, SessionGateHolds, PTL

----------------------------------------------------------------------------
(* Queues: which of their elements are in a set, and in what order *)

Has(q, D)      == \E i \in DOMAIN q : q[i] \in D
Once(q, D)     == \A i, j \in DOMAIN q : q[i] \in D /\ q[j] \in D => i = j
Last(q, D, E)  == \A i, j \in DOMAIN q : q[i] \in D /\ q[j] \in E => j <= i

LEMMA EmptyQueue ==
  ASSUME NEW D, NEW E
  PROVE  ~Has(<<>>, D) /\ Once(<<>>, D) /\ Last(<<>>, D, E)
  BY DEF Has, Once, Last

LEMMA AppendShape ==
  ASSUME NEW S, NEW q \in Seq(S), NEW x \in S
  PROVE  /\ Append(q, x) \in Seq(S) /\ Append(q, x) # <<>>
         /\ DOMAIN Append(q, x) = DOMAIN q \cup {Len(q) + 1}
         /\ DOMAIN q = 1 .. Len(q) /\ Len(q) \in Nat
         /\ \A i \in DOMAIN q : Append(q, x)[i] = q[i]
         /\ Append(q, x)[Len(q) + 1] = x
  <1>1. /\ Append(q, x) \in Seq(S) /\ Append(q, x) # <<>>
        /\ Len(Append(q, x)) = Len(q) + 1
        /\ \A i \in 1 .. Len(q) : Append(q, x)[i] = q[i]
        /\ Append(q, x)[Len(q) + 1] = x
    BY AppendProperties
  <1>2. DOMAIN q = 1 .. Len(q) /\ Len(q) \in Nat /\ DOMAIN Append(q, x) = 1 .. Len(q) + 1
    BY <1>1
  <1>3. 1 .. Len(q) + 1 = 1 .. Len(q) \cup {Len(q) + 1}
    BY <1>2
  <1>. QED
    BY <1>1, <1>2, <1>3

LEMMA AppendHas ==
  ASSUME NEW S, NEW q \in Seq(S), NEW x \in S, NEW D
  PROVE  /\ Has(Append(q, x), D) <=> Has(q, D) \/ x \in D
         /\ Once(q, D) /\ (x \in D => ~Has(q, D)) => Once(Append(q, x), D)
  <1>. DEFINE r == Append(q, x)
              n == Len(q) + 1
  <1>1. /\ DOMAIN r = DOMAIN q \cup {n} /\ r[n] = x /\ n \notin DOMAIN q
        /\ \A i \in DOMAIN q : r[i] = q[i]
    BY AppendShape
  <1>. HIDE DEF r, n
  <1>2. Has(r, D) <=> Has(q, D) \/ x \in D
    BY <1>1 DEF Has
  <1>3. Once(q, D) /\ (x \in D => ~Has(q, D)) => Once(r, D)
    BY <1>1 DEF Has, Once
  <1>. QED
    BY <1>2, <1>3 DEF r

LEMMA AppendLast ==
  ASSUME NEW S, NEW q \in Seq(S), NEW x \in S, NEW D, NEW E,
         Last(q, D, E), x \in E => ~Has(q, D)
  PROVE  Last(Append(q, x), D, E)
  <1>. DEFINE r == Append(q, x)
              n == Len(q) + 1
  <1>1. /\ DOMAIN r = DOMAIN q \cup {n} /\ r[n] = x
        /\ n \in Nat /\ \A i \in DOMAIN q : i \in Nat /\ i <= n
        /\ \A i \in DOMAIN q : r[i] = q[i]
    BY AppendShape
  <1>. HIDE DEF r, n
  <1>2. SUFFICES ASSUME NEW i \in DOMAIN r, NEW j \in DOMAIN r, r[i] \in D, r[j] \in E
                 PROVE  j <= i
    BY DEF Last, r
  <1>3. CASE i = n
    BY <1>1, <1>3
  <1>4. CASE i # n /\ j = n
    BY <1>1, <1>2, <1>4 DEF Has
  <1>5. CASE i # n /\ j # n
    BY <1>1, <1>2, <1>5 DEF Last
  <1>. QED
    BY <1>3, <1>4, <1>5

LEMMA TailShape ==
  ASSUME NEW S, NEW q \in Seq(S), q # <<>>
  PROVE  /\ Head(q) \in S /\ Tail(q) \in Seq(S)
         /\ 1 \in DOMAIN q /\ Head(q) = q[1]
         /\ \A i \in DOMAIN Tail(q) : /\ i \in Nat /\ i + 1 \in DOMAIN q /\ i + 1 # 1
                                      /\ Tail(q)[i] = q[i + 1]
         /\ \A i \in DOMAIN q : /\ i \in Nat /\ i >= 1
                                /\ i = 1 \/ (i - 1 \in DOMAIN Tail(q) /\ i - 1 + 1 = i)
  <1>1. /\ Head(q) \in S /\ Tail(q) \in Seq(S) /\ Len(Tail(q)) = Len(q) - 1
        /\ \A i \in 1 .. Len(Tail(q)) : Tail(q)[i] = q[i + 1]
    BY HeadTailProperties
  <1>2. DOMAIN q = 1 .. Len(q) /\ Len(q) \in Nat \ {0} /\ DOMAIN Tail(q) = 1 .. Len(q) - 1
        /\ Head(q) = q[1]
    BY <1>1
  <1>. QED
    BY <1>1, <1>2

LEMMA TailHas ==
  ASSUME NEW S, NEW q \in Seq(S), q # <<>>, NEW D
  PROVE  /\ Has(q, D) <=> Head(q) \in D \/ Has(Tail(q), D)
         /\ Once(q, D) => /\ Once(Tail(q), D)
                          /\ Head(q) \in D => ~Has(Tail(q), D)
  <1>. DEFINE r == Tail(q)
  <1>1. /\ 1 \in DOMAIN q /\ Head(q) = q[1]
        /\ \A i \in DOMAIN r : /\ i \in Nat /\ i + 1 \in DOMAIN q /\ i + 1 # 1
                               /\ r[i] = q[i + 1]
        /\ \A i \in DOMAIN q : i = 1 \/ (i - 1 \in DOMAIN r /\ i - 1 + 1 = i)
    BY TailShape
  <1>. HIDE DEF r
  <1>2. Has(q, D) <=> Head(q) \in D \/ Has(r, D)
    BY <1>1 DEF Has
  <1>3. Once(q, D) => Once(r, D)
    <2>. SUFFICES ASSUME Once(q, D), NEW i \in DOMAIN r, NEW j \in DOMAIN r,
                         r[i] \in D, r[j] \in D
                  PROVE  i = j
      BY DEF Once
    <2>1. i + 1 = j + 1 /\ i \in Nat /\ j \in Nat
      BY <1>1 DEF Once
    <2>. QED
      BY <2>1
  <1>4. Once(q, D) /\ Head(q) \in D => ~Has(r, D)
    BY <1>1 DEF Has, Once
  <1>. QED
    BY <1>2, <1>3, <1>4 DEF r

LEMMA TailLast ==
  ASSUME NEW S, NEW q \in Seq(S), q # <<>>, NEW D, NEW E, Last(q, D, E)
  PROVE  /\ Last(Tail(q), D, E)
         /\ Head(q) \in D => ~Has(Tail(q), E)
  <1>. DEFINE r == Tail(q)
  <1>1. /\ 1 \in DOMAIN q /\ Head(q) = q[1]
        /\ \A i \in DOMAIN r : i \in Nat /\ i >= 1 /\ i + 1 \in DOMAIN q /\ r[i] = q[i + 1]
    <2>1. \A i \in DOMAIN r : i \in Nat /\ i + 1 \in DOMAIN q /\ i + 1 # 1 /\ r[i] = q[i + 1]
      BY TailShape
    <2>. QED
      BY <2>1, TailShape
  <1>. HIDE DEF r
  <1>2. ASSUME NEW i \in DOMAIN r, NEW j \in DOMAIN r, r[i] \in D, r[j] \in E
        PROVE  j <= i
    <2>1. j + 1 <= i + 1 /\ i \in Nat /\ j \in Nat
      BY <1>1, <1>2 DEF Last
    <2>. QED
      BY <2>1
  <1>3. ASSUME Head(q) \in D, NEW j \in DOMAIN r, r[j] \in E PROVE FALSE
    <2>1. j + 1 <= 1 /\ j \in Nat /\ j >= 1
      BY <1>1, <1>3 DEF Last
    <2>. QED
      BY <2>1
  <1>. QED
    BY <1>2, <1>3 DEF Last, Has, r

----------------------------------------------------------------------------
(* What the two connections and the frames between them may be *)

AnOffer  == [type : {"offer"}, age : Ages, level : Levels]
AnAnswer == [type : {"answer"}, age : Ages, level : Levels]
Present == {d \in Description : d.age = "present"}

\* Candidates are handed over one after the other.
Batches == Seq(Candidate) \ {<<>>}

HostOps == {<<"offer">>}
             \cup ({"remote"} \X AnAnswer)
             \cup ({"candidates"} \X Batches \X ({None} \cup AnAnswer))

ViewerOps == {<<"answer">>}
               \cup ({"remote"} \X AnOffer)
               \cup ({"candidates"} \X Batches \X ({None} \cup AnOffer))

\* Which operations of the host ask, take the answer to what it asked last, and
\* take any answer.
Asking   == {op \in HostOps : op[1] = "offer"}
Answered == {op \in HostOps : op[1] = "remote" /\ op[2].age = "present"}
Outdated == {op \in HostOps : op[1] = "remote" /\ op[2].age # "present"}

\* Which operations of the viewer stand between an offer and its answer; those
\* that come when the offer is set; and offers of an earlier connection.
Past  == {op \in ViewerOps : \/ op[1] = "answer"
                             \/ op[1] = "candidates" /\ op[3].type = "offer"}
Turns == {op \in ViewerOps : op[1] = "remote"} \cup Past
Bygone == {op \in ViewerOps : op[1] = "remote" /\ op[2].age # "present"}

IceFrames    == [type : {"ice"}, body : Candidate]
OfferFrames  == [type : {"offer"}, body : AnOffer \cap Present]
FreshAnswers == [type : {"answer"}, body : AnAnswer \cap Present]
StaleAnswers == [type : {"answer"}, body : AnAnswer \ Present]

ToViewer == IceFrames \cup OfferFrames
ToHost   == IceFrames \cup FreshAnswers \cup StaleAnswers

Connection(states, ops, making, wants, locals, remotes) ==
  [open : {TRUE}, signalingState : states, chain : Seq(ops),
   makingOffer : making, remoteDescriptionSet : BOOLEAN,
   pendingCandidates : Seq(Candidate), want : wants, agreed : Levels,
   fired : BOOLEAN, local : locals, remote : remotes,
   gather : {"no", "due", "sent"}, got : BOOLEAN]

HostConns == Connection({"stable", "have-local-offer"}, HostOps, BOOLEAN, {1, 2},
                        {None} \cup (AnOffer \cap Present), {None} \cup AnAnswer)

ViewerConns == Connection({"stable", "have-remote-offer"}, ViewerOps, {FALSE}, {0},
                          {None} \cup AnAnswer, {None} \cup AnOffer)

(***************************************************************************)
(* An offer and its answer are one token: the host has it from the moment  *)
(* it begins an offer until that has left, and again when the answer is in *)
(* its chain; then it is on the wire, or the viewer's.  There is never a   *)
(* second one, and the host takes none out while there is one.             *)
(***************************************************************************)
AtHost(h)   == h.open /\ Has(h.chain, Asking \cup Answered)
AtViewer(v) == v.open /\ Has(v.chain, Turns)
ToTheViewer(x) == Has(x, OfferFrames)
ToTheHost(y)   == Has(y, FreshAnswers)

Typed(h, v, x, y) == /\ h \in HostConns \cup {NoConn} /\ v \in ViewerConns \cup {NoConn}
                     /\ x \in Seq(ToViewer) /\ y \in Seq(ToHost)

OneToken(h, v, x, y) ==
  /\ h.open => Once(h.chain, Asking \cup Answered)
  /\ v.open => Once(v.chain, Turns)
  /\ Once(x, OfferFrames) /\ Once(y, FreshAnswers)
  /\ AtHost(h) => ~AtViewer(v) /\ ~ToTheViewer(x) /\ ~ToTheHost(y)
  /\ AtViewer(v) => ~ToTheViewer(x) /\ ~ToTheHost(y)
  /\ ToTheViewer(x) => ~ToTheHost(y)

Nowhere(h, v, x, y) == ~AtHost(h) /\ ~AtViewer(v) /\ ~ToTheViewer(x) /\ ~ToTheHost(y)

\* What the host's fields say of its chain, and when it asks again.
HostKeeps(h) ==
  h.open =>
    /\ h.makingOffer <=> Has(h.chain, Asking)
    /\ h.makingOffer => h.signalingState = "stable"
    /\ h.signalingState = "have-local-offer" => h.local # None
    /\ h.signalingState = "stable" /\ h.local # None => h.agreed = h.local.level
    /\ h.local # None /\ h.want > h.local.level => h.remote.age = "present"

\* A token is out only while the host has an offer that is not answered.
HostWaits(h, v, x, y) ==
  h.open /\ h.signalingState = "stable" /\ ~h.makingOffer
    /\ (h.local = None \/ h.remote.age = "present") => Nowhere(h, v, x, y)

\* Answers to an earlier connection come before the one to the present.
InOrder(h, y) ==
  h.open =>
    /\ Last(y, FreshAnswers, StaleAnswers)
    /\ Last(h.chain, Answered, Outdated)
    /\ Has(h.chain, Answered) => ~Has(y, StaleAnswers)
    /\ h.remote.age = "present" => ~Has(y, StaleAnswers) /\ ~Has(h.chain, Outdated)

ViewerKeeps(h, v) ==
  v.open =>
    /\ v.signalingState = "have-remote-offer" <=> Has(v.chain, Past)
    /\ v.signalingState = "have-remote-offer" => v.remote # None
    /\ h.open => ~Has(v.chain, Bygone)
    /\ h.open /\ v.signalingState = "have-remote-offer" => v.remote.age = "present"

Exchange(h, v, x, y) ==
  /\ Typed(h, v, x, y)
  /\ OneToken(h, v, x, y)
  /\ HostKeeps(h)
  /\ HostWaits(h, v, x, y)
  /\ InOrder(h, y)
  /\ ViewerKeeps(h, v)

----------------------------------------------------------------------------
(* The operations and frames by their kind *)

LEMMA HostOpFacts ==
  /\ <<"offer">> \in Asking /\ <<"offer">> \notin Answered /\ <<"offer">> \notin Outdated
  /\ \A d \in AnAnswer : /\ <<"remote", d>> \in HostOps /\ <<"remote", d>> \notin Asking
                         /\ <<"remote", d>> \in Answered <=> d.age = "present"
                         /\ <<"remote", d>> \in Outdated <=> d.age # "present"
  /\ \A l \in Batches, d \in {None} \cup AnAnswer :
       /\ <<"candidates", l, d>> \in HostOps
       /\ <<"candidates", l, d>> \notin Asking \cup Answered \cup Outdated
  <1>1. <<"offer">> \in HostOps
    BY DEF HostOps
  <1>2. ASSUME NEW d \in AnAnswer PROVE <<"remote", d>> \in HostOps
    BY DEF HostOps
  <1>3. ASSUME NEW l \in Batches, NEW d \in {None} \cup AnAnswer
        PROVE  <<"candidates", l, d>> \in HostOps
    BY DEF HostOps
  <1>. QED
    BY <1>1, <1>2, <1>3 DEF Asking, Answered, Outdated

LEMMA HostOpKinds ==
  ASSUME NEW op \in HostOps
  PROVE  /\ op[1] \in {"offer", "remote", "candidates"}
         /\ op[1] = "offer" => op = <<"offer">>
         /\ op[1] = "remote" => op[2] \in AnAnswer /\ op = <<"remote", op[2]>>
         /\ op[1] = "candidates" => /\ op[2] \in Batches /\ op[3] \in {None} \cup AnAnswer
                                    /\ op = <<"candidates", op[2], op[3]>>
  <1>1. CASE op = <<"offer">>
    BY <1>1
  <1>2. CASE op \in {"remote"} \X AnAnswer
    BY <1>2
  <1>3. CASE op \in {"candidates"} \X Batches \X ({None} \cup AnAnswer)
    BY <1>3
  <1>. QED
    BY <1>1, <1>2, <1>3 DEF HostOps

LEMMA ViewerOpFacts ==
  /\ <<"answer">> \in ViewerOps /\ <<"answer">> \in Past /\ <<"answer">> \notin Bygone
  /\ \A d \in AnOffer : /\ <<"remote", d>> \in ViewerOps
                        /\ <<"remote", d>> \in Turns /\ <<"remote", d>> \notin Past
                        /\ <<"remote", d>> \in Bygone <=> d.age # "present"
  /\ \A l \in Batches, d \in {None} \cup AnOffer :
       /\ <<"candidates", l, d>> \in ViewerOps /\ <<"candidates", l, d>> \notin Bygone
       /\ <<"candidates", l, d>> \in Past <=> d \in AnOffer
       /\ <<"candidates", l, d>> \in Turns <=> d \in AnOffer
  /\ Past \subseteq Turns
  <1>1. <<"answer">> \in ViewerOps
    BY DEF ViewerOps
  <1>2. ASSUME NEW d \in AnOffer PROVE <<"remote", d>> \in ViewerOps
    BY DEF ViewerOps
  <1>3. ASSUME NEW l \in Batches, NEW d \in {None} \cup AnOffer
        PROVE  <<"candidates", l, d>> \in ViewerOps
    BY DEF ViewerOps
  <1>4. \A d \in {None} \cup AnOffer : d.type = "offer" <=> d \in AnOffer
    BY DEF AnOffer, None
  <1>. QED
    BY <1>1, <1>2, <1>3, <1>4 DEF Past, Turns, Bygone

LEMMA ViewerOpKinds ==
  ASSUME NEW op \in ViewerOps
  PROVE  /\ op[1] \in {"answer", "remote", "candidates"}
         /\ op[1] = "answer" => op = <<"answer">>
         /\ op[1] = "remote" => op[2] \in AnOffer /\ op = <<"remote", op[2]>>
         /\ op[1] = "candidates" => /\ op[2] \in Batches /\ op[3] \in {None} \cup AnOffer
                                    /\ op = <<"candidates", op[2], op[3]>>
  <1>1. CASE op = <<"answer">>
    BY <1>1
  <1>2. CASE op \in {"remote"} \X AnOffer
    BY <1>2
  <1>3. CASE op \in {"candidates"} \X Batches \X ({None} \cup AnOffer)
    BY <1>3
  <1>. QED
    BY <1>1, <1>2, <1>3 DEF ViewerOps

LEMMA Descriptions ==
  /\ \A d \in AnOffer : d.type = "offer" /\ d.age \in Ages /\ d.level \in Levels /\ d # None
  /\ \A d \in AnAnswer : d.type = "answer" /\ d.age \in Ages /\ d.level \in Levels /\ d # None
  /\ None.type = "none" /\ None.age = "earlier" /\ None.level = 0
  BY DEF AnOffer, AnAnswer, None

LEMMA FrameFacts ==
  /\ \A c \in Candidate : LET f == [type |-> "ice", body |-> c]
                          IN /\ f \in ToViewer /\ f \notin OfferFrames
                             /\ f \in ToHost /\ f \notin FreshAnswers /\ f \notin StaleAnswers
  /\ \A d \in AnOffer : d.age = "present" => [type |-> "offer", body |-> d] \in OfferFrames
  /\ \A d \in AnAnswer : LET f == [type |-> "answer", body |-> d]
                         IN /\ f \in ToHost
                            /\ f \in FreshAnswers <=> d.age = "present"
                            /\ f \in StaleAnswers <=> d.age # "present"
  /\ OfferFrames \subseteq ToViewer /\ FreshAnswers \subseteq ToHost
  <1>1. \A d \in AnOffer : d \in Present <=> d.age = "present"
    BY DEF AnOffer, Present, Description
  <1>2. \A d \in AnAnswer : d \in Present <=> d.age = "present"
    BY DEF AnAnswer, Present, Description
  <1>. QED
    BY <1>1, <1>2 DEF ToViewer, ToHost, IceFrames, OfferFrames, FreshAnswers, StaleAnswers

LEMMA FrameKinds ==
  /\ \A m \in ToViewer : \/ m.type = "ice" /\ m.body \in Candidate /\ m \notin OfferFrames
                         \/ m.type = "offer" /\ m.body \in AnOffer /\ m.body.age = "present"
                            /\ m \in OfferFrames
  /\ \A m \in ToHost : \/ /\ m.type = "ice" /\ m.body \in Candidate
                          /\ m \notin FreshAnswers /\ m \notin StaleAnswers
                       \/ /\ m.type = "answer" /\ m.body \in AnAnswer
                          /\ m \in FreshAnswers <=> m.body.age = "present"
                          /\ m \in StaleAnswers <=> m.body.age # "present"
  <1>1. \A d \in AnOffer \cap Present : d.age = "present"
    BY DEF Present
  <1>2. \A d \in AnAnswer : d \in Present <=> d.age = "present"
    BY DEF AnAnswer, Present, Description
  <1>. QED
    BY <1>1, <1>2 DEF ToViewer, ToHost, IceFrames, OfferFrames, FreshAnswers, StaleAnswers

----------------------------------------------------------------------------
(* Steps beside the token *)

\* A queue that has no token it did not have, and the others it had.
HostChainKept(p, q) ==
  /\ q \in Seq(HostOps)
  /\ Has(q, Asking) <=> Has(p, Asking)
  /\ Has(q, Asking \cup Answered) => Has(p, Asking \cup Answered)
  /\ Once(p, Asking \cup Answered) => Once(q, Asking \cup Answered)
  /\ Has(q, Answered) => Has(p, Answered)
  /\ Has(q, Outdated) => Has(p, Outdated)
  /\ Last(p, Answered, Outdated) => Last(q, Answered, Outdated)

ViewerChainKept(p, q) ==
  /\ q \in Seq(ViewerOps)
  /\ Has(q, Past) <=> Has(p, Past)
  /\ Has(q, Turns) => Has(p, Turns)
  /\ Once(p, Turns) => Once(q, Turns)
  /\ Has(q, Bygone) => Has(p, Bygone)

ToViewerKept(p, q) ==
  /\ q \in Seq(ToViewer)
  /\ Has(q, OfferFrames) => Has(p, OfferFrames)
  /\ Once(p, OfferFrames) => Once(q, OfferFrames)

ToHostKept(p, q) ==
  /\ q \in Seq(ToHost)
  /\ Has(q, FreshAnswers) => Has(p, FreshAnswers)
  /\ Once(p, FreshAnswers) => Once(q, FreshAnswers)
  /\ Has(q, StaleAnswers) => Has(p, StaleAnswers)
  /\ Last(p, FreshAnswers, StaleAnswers) => Last(q, FreshAnswers, StaleAnswers)

SameState(c, k) ==
  /\ k.open = c.open /\ k.signalingState = c.signalingState /\ k.makingOffer = c.makingOffer
  /\ k.want = c.want /\ k.agreed = c.agreed /\ k.local = c.local /\ k.remote = c.remote

HostAside(h, k) == \/ k = h
                   \/ h \in HostConns /\ k \in HostConns /\ SameState(h, k)
                      /\ HostChainKept(h.chain, k.chain)

ViewerAside(v, k) == \/ k = v
                     \/ v \in ViewerConns /\ k \in ViewerConns
                        /\ k.signalingState = v.signalingState /\ k.remote = v.remote
                        /\ ViewerChainKept(v.chain, k.chain)

LEMMA OpenConns ==
  /\ \A c \in HostConns : /\ c.open /\ c.chain \in Seq(HostOps) /\ c.makingOffer \in BOOLEAN
                          /\ c.signalingState \in {"stable", "have-local-offer"}
                          /\ c.want \in {1, 2} /\ c.agreed \in Levels
                          /\ c.local \in {None} \cup AnOffer /\ c.remote \in {None} \cup AnAnswer
                          /\ c.local # None => c.local.age = "present"
                          /\ c.pendingCandidates \in Seq(Candidate)
                          /\ c.remoteDescriptionSet \in BOOLEAN
  /\ \A c \in ViewerConns : /\ c.open /\ c.chain \in Seq(ViewerOps) /\ ~c.makingOffer
                            /\ c.signalingState \in {"stable", "have-remote-offer"}
                            /\ c.want = 0 /\ c.agreed \in Levels
                            /\ c.local \in {None} \cup AnAnswer /\ c.remote \in {None} \cup AnOffer
                            /\ c.pendingCandidates \in Seq(Candidate)
                            /\ c.remoteDescriptionSet \in BOOLEAN
  /\ ~NoConn.open
  BY DEF HostConns, ViewerConns, Connection, NoConn, Present

LEMMA Aside ==
  ASSUME NEW h, NEW v, NEW x, NEW y, NEW h2, NEW v2, NEW x2, NEW y2,
         Exchange(h, v, x, y), HostAside(h, h2), ViewerAside(v, v2),
         x2 = x \/ ToViewerKept(x, x2), y2 = y \/ ToHostKept(y, y2)
  PROVE  Exchange(h2, v2, x2, y2)
  <1>1. /\ h2.open <=> h.open
        /\ v2.open <=> v.open
    BY OpenConns DEF HostAside, ViewerAside
  <1>2. Typed(h2, v2, x2, y2)
    BY DEF Exchange, Typed, HostAside, ViewerAside, ToViewerKept, ToHostKept
  <1>3. /\ AtHost(h2) => AtHost(h)
        /\ AtViewer(v2) => AtViewer(v)
        /\ ToTheViewer(x2) => ToTheViewer(x)
        /\ ToTheHost(y2) => ToTheHost(y)
    BY <1>1 DEF AtHost, AtViewer, ToTheViewer, ToTheHost, HostAside, ViewerAside,
                HostChainKept, ViewerChainKept, ToViewerKept, ToHostKept
  <1>4. OneToken(h2, v2, x2, y2)
    BY <1>1, <1>3 DEF Exchange, OneToken, HostAside, ViewerAside,
                HostChainKept, ViewerChainKept, ToViewerKept, ToHostKept
  <1>5. HostKeeps(h2)
    BY <1>1 DEF Exchange, HostKeeps, HostAside, SameState, HostChainKept
  <1>6. HostWaits(h2, v2, x2, y2)
    BY <1>1, <1>3 DEF Exchange, HostWaits, Nowhere, HostAside, SameState
  <1>7. InOrder(h2, y2)
    BY <1>1 DEF Exchange, InOrder, HostAside, SameState, HostChainKept, ToHostKept
  <1>8. ViewerKeeps(h2, v2)
    BY <1>1 DEF Exchange, ViewerKeeps, ViewerAside, ViewerChainKept
  <1>. QED
    BY <1>2, <1>4, <1>5, <1>6, <1>7, <1>8 DEF Exchange

LEMMA HostChainAppend ==
  ASSUME NEW p \in Seq(HostOps), NEW op \in HostOps, op \notin Asking \cup Answered \cup Outdated
  PROVE  HostChainKept(p, Append(p, op))
  <1>1. Append(p, op) \in Seq(HostOps)
    BY AppendShape
  <1>2. \A D : op \notin D => /\ Has(Append(p, op), D) <=> Has(p, D)
                              /\ Once(p, D) => Once(Append(p, op), D)
    BY AppendHas
  <1>3. Last(p, Answered, Outdated) => Last(Append(p, op), Answered, Outdated)
    BY AppendLast
  <1>. QED
    BY <1>1, <1>2, <1>3 DEF HostChainKept

LEMMA HostChainTail ==
  ASSUME NEW p \in Seq(HostOps), p # <<>>, Head(p) \notin Asking
  PROVE  HostChainKept(p, Tail(p))
  <1>1. Tail(p) \in Seq(HostOps)
    BY TailShape
  <1>2. \A D : /\ Has(p, D) <=> Head(p) \in D \/ Has(Tail(p), D)
               /\ Once(p, D) => Once(Tail(p), D)
    BY TailHas
  <1>3. Last(p, Answered, Outdated) => Last(Tail(p), Answered, Outdated)
    BY TailLast
  <1>. QED
    BY <1>1, <1>2, <1>3 DEF HostChainKept

LEMMA HostChainTrans ==
  ASSUME NEW p, NEW q, NEW r, HostChainKept(p, q), HostChainKept(q, r)
  PROVE  HostChainKept(p, r)
  BY DEF HostChainKept

LEMMA ViewerChainAppend ==
  ASSUME NEW p \in Seq(ViewerOps), NEW op \in ViewerOps, op \notin Turns \cup Bygone
  PROVE  ViewerChainKept(p, Append(p, op))
  <1>1. Append(p, op) \in Seq(ViewerOps)
    BY AppendShape
  <1>2. \A D : op \notin D => /\ Has(Append(p, op), D) <=> Has(p, D)
                              /\ Once(p, D) => Once(Append(p, op), D)
    BY AppendHas
  <1>. QED
    BY <1>1, <1>2, ViewerOpFacts DEF ViewerChainKept

LEMMA ViewerChainTail ==
  ASSUME NEW p \in Seq(ViewerOps), p # <<>>, Head(p) \notin Past
  PROVE  ViewerChainKept(p, Tail(p))
  <1>1. Tail(p) \in Seq(ViewerOps)
    BY TailShape
  <1>2. \A D : /\ Has(p, D) <=> Head(p) \in D \/ Has(Tail(p), D)
               /\ Once(p, D) => Once(Tail(p), D)
    BY TailHas
  <1>. QED
    BY <1>1, <1>2 DEF ViewerChainKept

LEMMA ViewerChainTrans ==
  ASSUME NEW p, NEW q, NEW r, ViewerChainKept(p, q), ViewerChainKept(q, r)
  PROVE  ViewerChainKept(p, r)
  BY DEF ViewerChainKept

\* The viewer's turn goes from one operation to the next.
LEMMA ViewerChainPasses ==
  ASSUME NEW p \in Seq(ViewerOps), p # <<>>, Head(p) \in Past, Once(p, Turns),
         NEW op \in ViewerOps, op \in Past, op \notin Bygone
  PROVE  ViewerChainKept(p, Append(Tail(p), op))
  <1>. DEFINE q == Tail(p)
  <1>1. q \in Seq(ViewerOps) /\ Head(p) \in Turns /\ op \in Turns
    BY TailShape, ViewerOpFacts
  <1>2. /\ Has(p, Past) /\ Has(p, Turns) /\ Once(q, Turns) /\ ~Has(q, Turns)
        /\ Has(q, Bygone) => Has(p, Bygone)
    BY <1>1, TailHas
  <1>. HIDE DEF q
  <1>3. /\ Has(Append(q, op), Past)
        /\ Has(Append(q, op), Bygone) => Has(q, Bygone)
        /\ Once(Append(q, op), Turns)
    BY <1>1, <1>2, AppendHas
  <1>4. Append(q, op) \in Seq(ViewerOps)
    BY <1>1, AppendShape
  <1>. QED
    BY <1>2, <1>3, <1>4 DEF ViewerChainKept, q

LEMMA WireSent ==
  ASSUME NEW S, NEW q \in Seq(S), NEW m \in S
  PROVE  q \o <<m>> = Append(q, m)
  BY AppendIsConcat

LEMMA ToViewerIce ==
  ASSUME NEW p \in Seq(ToViewer), NEW m \in ToViewer, m \notin OfferFrames
  PROVE  ToViewerKept(p, p \o <<m>>)
  <1>1. Append(p, m) \in Seq(ToViewer) /\ p \o <<m>> = Append(p, m)
    BY AppendShape, WireSent
  <1>2. /\ Has(Append(p, m), OfferFrames) <=> Has(p, OfferFrames)
        /\ Once(p, OfferFrames) => Once(Append(p, m), OfferFrames)
    BY AppendHas
  <1>. QED
    BY <1>1, <1>2 DEF ToViewerKept

LEMMA ToViewerTail ==
  ASSUME NEW p \in Seq(ToViewer), p # <<>>
  PROVE  ToViewerKept(p, Tail(p))
  <1>1. Tail(p) \in Seq(ToViewer)
    BY TailShape
  <1>2. /\ Has(p, OfferFrames) <=> Head(p) \in OfferFrames \/ Has(Tail(p), OfferFrames)
        /\ Once(p, OfferFrames) => Once(Tail(p), OfferFrames)
    BY TailHas
  <1>. QED
    BY <1>1, <1>2 DEF ToViewerKept

LEMMA ToHostIce ==
  ASSUME NEW p \in Seq(ToHost), NEW m \in ToHost, m \notin FreshAnswers \cup StaleAnswers
  PROVE  ToHostKept(p, p \o <<m>>)
  <1>1. Append(p, m) \in Seq(ToHost) /\ p \o <<m>> = Append(p, m)
    BY AppendShape, WireSent
  <1>2. \A D : m \notin D => /\ Has(Append(p, m), D) <=> Has(p, D)
                             /\ Once(p, D) => Once(Append(p, m), D)
    BY AppendHas
  <1>3. Last(p, FreshAnswers, StaleAnswers) => Last(Append(p, m), FreshAnswers, StaleAnswers)
    BY AppendLast
  <1>. QED
    BY <1>1, <1>2, <1>3 DEF ToHostKept

LEMMA ToHostTail ==
  ASSUME NEW p \in Seq(ToHost), p # <<>>
  PROVE  ToHostKept(p, Tail(p))
  <1>1. Tail(p) \in Seq(ToHost)
    BY TailShape
  <1>2. \A D : /\ Has(p, D) <=> Head(p) \in D \/ Has(Tail(p), D)
               /\ Once(p, D) => Once(Tail(p), D)
    BY TailHas
  <1>3. Last(p, FreshAnswers, StaleAnswers) => Last(Tail(p), FreshAnswers, StaleAnswers)
    BY TailLast
  <1>. QED
    BY <1>1, <1>2, <1>3 DEF ToHostKept

----------------------------------------------------------------------------
(* What the functions of a Peer do to a connection *)

LEMMA HostThen ==
  ASSUME NEW c \in HostConns, NEW op \in HostOps
  PROVE  Then(c, op) \in HostConns /\ SameState(c, Then(c, op))
         /\ Then(c, op).chain = Append(c.chain, op)
  <1>1. Append(c.chain, op) \in Seq(HostOps)
    BY OpenConns, AppendShape
  <1>. QED
    BY <1>1 DEF Then, SameState, HostConns, Connection

LEMMA ViewerThen ==
  ASSUME NEW c \in ViewerConns, NEW op \in ViewerOps
  PROVE  Then(c, op) \in ViewerConns /\ SameState(c, Then(c, op))
         /\ Then(c, op).chain = Append(c.chain, op)
  <1>1. Append(c.chain, op) \in Seq(ViewerOps)
    BY OpenConns, AppendShape
  <1>. QED
    BY <1>1 DEF Then, SameState, ViewerConns, Connection

\* One operation has ended.
LEMMA HostTook ==
  ASSUME NEW c \in HostConns, c.chain # <<>>
  PROVE  LET k == [c EXCEPT !.chain = Tail(@)]
         IN /\ k \in HostConns /\ SameState(c, k) /\ k.chain = Tail(c.chain)
            /\ k.pendingCandidates = c.pendingCandidates
  <1>1. Tail(c.chain) \in Seq(HostOps)
    BY OpenConns, TailShape
  <1>. QED
    BY <1>1 DEF SameState, HostConns, Connection

LEMMA ViewerTook ==
  ASSUME NEW c \in ViewerConns, c.chain # <<>>
  PROVE  LET k == [c EXCEPT !.chain = Tail(@)]
         IN /\ k \in ViewerConns /\ SameState(c, k) /\ k.chain = Tail(c.chain)
            /\ k.pendingCandidates = c.pendingCandidates
  <1>1. Tail(c.chain) \in Seq(ViewerOps)
    BY OpenConns, TailShape
  <1>. QED
    BY <1>1 DEF SameState, ViewerConns, Connection

LEMMA HostTakesCandidate ==
  ASSUME NEW c \in HostConns, NEW cand \in Candidate
  PROVE  HostAside(c, handleCandidate(c, cand))
  <1>1. <<cand>> \in Batches /\ Append(c.pendingCandidates, cand) \in Seq(Candidate)
    BY OpenConns, AppendShape DEF Batches
  <1>2. CASE c.remoteDescriptionSet
    <2>. DEFINE op == <<"candidates", <<cand>>, None>>
    <2>1. op \in HostOps /\ op \notin Asking \cup Answered \cup Outdated
      BY <1>1, HostOpFacts
    <2>2. handleCandidate(c, cand) = Then(c, op)
      BY <1>2 DEF handleCandidate
    <2>. HIDE DEF op
    <2>3. HostChainKept(c.chain, Append(c.chain, op))
      BY <2>1, HostChainAppend, OpenConns
    <2>. QED
      BY <2>1, <2>2, <2>3, HostThen DEF HostAside
  <1>3. CASE ~c.remoteDescriptionSet
    <2>. DEFINE k == [c EXCEPT !.pendingCandidates = Append(@, cand)]
    <2>1. k \in HostConns /\ SameState(c, k) /\ k.chain = c.chain
      BY <1>1 DEF SameState, HostConns, Connection
    <2>2. HostChainKept(c.chain, c.chain)
      BY OpenConns DEF HostChainKept
    <2>3. handleCandidate(c, cand) = k
      BY <1>3 DEF handleCandidate
    <2>. HIDE DEF k
    <2>. QED
      BY <2>1, <2>2, <2>3 DEF HostAside
  <1>. QED
    BY <1>2, <1>3

LEMMA ViewerTakesCandidate ==
  ASSUME NEW c \in ViewerConns, NEW cand \in Candidate
  PROVE  ViewerAside(c, handleCandidate(c, cand))
  <1>1. <<cand>> \in Batches /\ Append(c.pendingCandidates, cand) \in Seq(Candidate)
    BY OpenConns, AppendShape DEF Batches
  <1>2. CASE c.remoteDescriptionSet
    <2>. DEFINE op == <<"candidates", <<cand>>, None>>
    <2>1. op \in ViewerOps /\ op \notin Turns \cup Bygone
      BY <1>1, ViewerOpFacts, Descriptions
    <2>2. handleCandidate(c, cand) = Then(c, op)
      BY <1>2 DEF handleCandidate
    <2>. HIDE DEF op
    <2>3. ViewerChainKept(c.chain, Append(c.chain, op))
      BY <2>1, ViewerChainAppend, OpenConns
    <2>4. Then(c, op) \in ViewerConns /\ SameState(c, Then(c, op))
          /\ Then(c, op).chain = Append(c.chain, op)
      BY <2>1, ViewerThen
    <2>. QED
      BY <2>2, <2>3, <2>4 DEF ViewerAside, SameState
  <1>3. CASE ~c.remoteDescriptionSet
    <2>. DEFINE k == [c EXCEPT !.pendingCandidates = Append(@, cand)]
    <2>1. k \in ViewerConns /\ SameState(c, k) /\ k.chain = c.chain
      BY <1>1 DEF SameState, ViewerConns, Connection
    <2>2. ViewerChainKept(c.chain, c.chain)
      BY OpenConns DEF ViewerChainKept
    <2>3. handleCandidate(c, cand) = k
      BY <1>3 DEF handleCandidate
    <2>. HIDE DEF k
    <2>. QED
      BY <2>1, <2>2, <2>3 DEF ViewerAside, SameState
  <1>. QED
    BY <1>2, <1>3

\* With the candidates that waited, the host is done with an answer, and the
\* viewer has still to answer an offer.
LEMMA HostDrains ==
  ASSUME NEW c \in HostConns, NEW d \in AnAnswer
  PROVE  /\ drain(c, d) \in HostConns /\ SameState(c, drain(c, d))
         /\ \/ drain(c, d).chain = c.chain
            \/ \E op \in HostOps : /\ op \notin Asking \cup Answered \cup Outdated
                                   /\ drain(c, d).chain = Append(c.chain, op)
  <1>. DEFINE e == [c EXCEPT !.remoteDescriptionSet = TRUE, !.pendingCandidates = <<>>]
              op == <<"candidates", c.pendingCandidates, d>>
  <1>1. e \in HostConns /\ SameState(c, e) /\ e.chain = c.chain
    BY EmptySeq DEF SameState, HostConns, Connection
  <1>2. c.pendingCandidates # <<>> => op \in HostOps /\ op \notin Asking \cup Answered \cup Outdated
    BY HostOpFacts, OpenConns DEF Batches
  <1>3. drain(c, d) = IF c.pendingCandidates = <<>> THEN e ELSE Then(e, op)
    BY Descriptions DEF drain, Answer
  <1>. HIDE DEF e, op
  <1>. QED
    BY <1>1, <1>2, <1>3, HostThen DEF SameState

LEMMA ViewerDrains ==
  ASSUME NEW c \in ViewerConns, NEW d \in AnOffer
  PROVE  /\ drain(c, d) \in ViewerConns /\ SameState(c, drain(c, d))
         /\ \E op \in Past \cap ViewerOps : /\ op \notin Bygone
                                            /\ drain(c, d).chain = Append(c.chain, op)
  <1>. DEFINE e == [c EXCEPT !.remoteDescriptionSet = TRUE, !.pendingCandidates = <<>>]
              op == <<"candidates", c.pendingCandidates, d>>
              an == <<"answer">>
  <1>1. e \in ViewerConns /\ SameState(c, e) /\ e.chain = c.chain
    BY EmptySeq DEF SameState, ViewerConns, Connection
  <1>2. /\ c.pendingCandidates # <<>> => op \in ViewerOps /\ op \in Past /\ op \notin Bygone
        /\ an \in ViewerOps /\ an \in Past /\ an \notin Bygone
    BY ViewerOpFacts, OpenConns DEF Batches
  <1>3. drain(c, d) = IF c.pendingCandidates = <<>> THEN Then(e, an) ELSE Then(e, op)
    BY Descriptions DEF drain, Answer
  <1>. HIDE DEF e, op, an
  <1>4. PICK o \in Past \cap ViewerOps : o \notin Bygone /\ drain(c, d) = Then(e, o)
    BY <1>2, <1>3
  <1>5. Then(e, o) \in ViewerConns /\ SameState(e, Then(e, o))
        /\ Then(e, o).chain = Append(c.chain, o)
    BY <1>1, <1>4, ViewerThen
  <1>. QED
    BY <1>1, <1>4, <1>5 DEF SameState

----------------------------------------------------------------------------
(* The token's way *)

LEMMA HostAsks ==
  ASSUME NEW h \in HostConns, NEW v, NEW x, NEW y, Exchange(h, v, x, y),
         h.chain = <<>>, h.signalingState = "stable", h.want > h.agreed
  PROVE  LET k == negotiate([h EXCEPT !.fired = TRUE])
         IN Exchange(k, v, x, y) /\ k.open /\ k.remote = h.remote
  <1>. DEFINE f == [h EXCEPT !.fired = TRUE, !.makingOffer = TRUE]
              op == <<"offer">>
              k == Then(f, op)
  <1>1. ~h.makingOffer /\ h.open
    BY EmptyQueue, OpenConns DEF Exchange, HostKeeps
  <1>2. negotiate([h EXCEPT !.fired = TRUE]) = k
    BY <1>1 DEF negotiate, HostConns, Connection
  <1>3. f \in HostConns /\ f.chain = <<>> /\ f.makingOffer /\ f.signalingState = "stable"
        /\ f.local = h.local /\ f.remote = h.remote /\ f.want = h.want /\ f.agreed = h.agreed
    BY DEF HostConns, Connection
  <1>4. h.local = None \/ h.remote.age = "present"
    BY <1>1, OpenConns DEF Exchange, HostKeeps
  <1>5. Nowhere(h, v, x, y)
    BY <1>1, <1>4 DEF Exchange, HostWaits
  <1>6. op \in HostOps /\ op \in Asking /\ op \notin Answered /\ op \notin Outdated
    BY HostOpFacts DEF Asking
  <1>. HIDE DEF f, op
  <1>7. /\ k \in HostConns /\ k.makingOffer /\ k.signalingState = "stable" /\ k.open
        /\ k.local = h.local /\ k.remote = h.remote /\ k.want = h.want /\ k.agreed = h.agreed
        /\ k.chain = Append(<<>>, op)
    BY <1>3, <1>6, HostThen, OpenConns DEF SameState
  <1>8. <<>> \in Seq(HostOps)
    BY EmptySeq
  <1>. DEFINE q == k.chain
  <1>9. /\ Has(q, Asking) /\ ~Has(q, Answered) /\ ~Has(q, Outdated)
        /\ Once(q, Asking \cup Answered) /\ Last(q, Answered, Outdated)
    <2>1. \A D : ~Has(<<>>, D) /\ Once(<<>>, D)
      BY EmptyQueue
    <2>2. Last(<<>>, Answered, Outdated)
      BY EmptyQueue
    <2>3. \A D : /\ Has(Append(<<>>, op), D) <=> Has(<<>>, D) \/ op \in D
                 /\ Once(<<>>, D) /\ (op \in D => ~Has(<<>>, D)) => Once(Append(<<>>, op), D)
      BY <1>6, <1>8, AppendHas
    <2>4. Last(q, Answered, Outdated)
      BY <1>6, <1>7, <1>8, <2>2, AppendLast
    <2>5. q = Append(<<>>, op)
      BY <1>7
    <2>. HIDE DEF q
    <2>. QED
      BY <1>6, <2>1, <2>3, <2>4, <2>5
  <1>. HIDE DEF k
  <1>10. Typed(k, v, x, y)
    BY <1>7 DEF Exchange, Typed
  <1>11. OneToken(k, v, x, y)
    BY <1>5, <1>9 DEF Exchange, OneToken, Nowhere, AtHost
  <1>12. HostKeeps(k) /\ HostWaits(k, v, x, y)
    BY <1>1, <1>7, <1>9 DEF Exchange, HostKeeps, HostWaits
  <1>13. InOrder(k, y) /\ ViewerKeeps(k, v)
    BY <1>1, <1>7, <1>9 DEF Exchange, InOrder, ViewerKeeps
  <1>. QED
    BY <1>2, <1>7, <1>10, <1>11, <1>12, <1>13 DEF Exchange

\* The host's offer is made and sent.
LEMMA HostOffers ==
  ASSUME NEW h \in HostConns, NEW v, NEW x, NEW y, Exchange(h, v, x, y),
         h.chain # <<>>, Head(h.chain) = <<"offer">>
  PROVE  LET c == setLocalDescription("host", [h EXCEPT !.chain = Tail(@)])
             k == [c EXCEPT !.makingOffer = FALSE]
         IN /\ Exchange(k, v, x \o <<[type |-> "offer", body |-> c.local]>>, y)
            /\ k.open /\ k.remote = h.remote
  <1>. DEFINE c == setLocalDescription("host", [h EXCEPT !.chain = Tail(@)])
              k == [c EXCEPT !.makingOffer = FALSE]
              offer == [type |-> "offer", age |-> "present", level |-> h.want]
              m == [type |-> "offer", body |-> offer]
              q == Tail(h.chain)
              AA == Asking \cup Answered
  <1>1. h.chain \in Seq(HostOps) /\ q \in Seq(HostOps)
    BY OpenConns, TailShape
  <1>2. offer \in AnOffer \cap Present
    BY OpenConns DEF AnOffer, Present, Description, Ages, Levels
  <1>3. m \in OfferFrames /\ m \in ToViewer
    BY <1>2, FrameFacts DEF Present
  <1>4. h.signalingState # "have-remote-offer"
    BY OpenConns
  <1>5. /\ k \in HostConns /\ c.local = offer /\ k.chain = q /\ ~k.makingOffer
        /\ k.signalingState = "have-local-offer" /\ k.local = offer
        /\ k.remote = h.remote /\ k.want = h.want /\ k.open
    <2>. DEFINE c0 == [h EXCEPT !.chain = Tail(@)]
                g  == IF c0.local = None \/ c0.local.age # "present" THEN "due" ELSE c0.gather
    <2>1. /\ c0 \in HostConns /\ SameState(h, c0) /\ c0.chain = q
      BY HostTook
    <2>. HIDE DEF c0
    <2>2. c0.signalingState # "have-remote-offer" /\ offer = [offer EXCEPT !.level = c0.want]
      BY <1>4, <2>1 DEF SameState
    <2>3. setLocalDescription("host", c0) =
            [c0 EXCEPT !.local = offer, !.signalingState = "have-local-offer",
                       !.agreed = @, !.fired = @, !.gather = g]
      BY <2>1, <2>2 DEF setLocalDescription, SameState
    <2>4. g \in {"no", "due", "sent"} /\ c0.agreed \in Levels /\ c0.fired \in BOOLEAN
      BY <2>1 DEF HostConns, Connection
    <2>. HIDE DEF g, offer
    <2>. DEFINE r == [c0 EXCEPT !.local = offer, !.signalingState = "have-local-offer",
                                !.agreed = @, !.fired = @, !.gather = g]
    <2>5. r \in HostConns
      BY <1>2, <2>1, <2>4 DEF HostConns, Connection
    <2>6. /\ r.chain = c0.chain /\ r.signalingState = "have-local-offer"
          /\ r.local = offer /\ r.remote = c0.remote /\ r.want = c0.want
      BY <2>1 DEF HostConns, Connection
    <2>7. k = [r EXCEPT !.makingOffer = FALSE] /\ c.local = r.local
      BY <2>3 DEF c0
    <2>. HIDE DEF k, c, r
    <2>8. /\ k \in HostConns /\ ~k.makingOffer
          /\ k.chain = r.chain /\ k.signalingState = r.signalingState
          /\ k.local = r.local /\ k.remote = r.remote /\ k.want = r.want
      BY <2>5, <2>7 DEF HostConns, Connection
    <2>. QED
      BY <2>1, <2>6, <2>7, <2>8, OpenConns DEF SameState
  <1>6. AtHost(h) /\ ~Has(q, AA) /\ Once(q, AA)
    <2>1. Head(h.chain) \in AA
      BY HostOpFacts
    <2>2. Once(h.chain, AA)
      BY OpenConns DEF Exchange, OneToken
    <2>. HIDE DEF AA
    <2>3. Has(h.chain, AA) /\ ~Has(q, AA) /\ Once(q, AA)
      BY <1>1, <2>1, <2>2, TailHas
    <2>. QED
      BY <2>3, OpenConns DEF AtHost, AA
  <1>7. ~Has(q, Asking) /\ ~Has(q, Answered)
    BY <1>6 DEF Has
  <1>8. /\ Last(q, Answered, Outdated)
        /\ Has(q, Outdated) => Has(h.chain, Outdated)
    <2>1. Last(h.chain, Answered, Outdated)
      BY OpenConns DEF Exchange, InOrder
    <2>. QED
      BY <1>1, <2>1, TailLast, TailHas
  <1>9. x \in Seq(ToViewer) /\ x \o <<m>> = Append(x, m) /\ Append(x, m) \in Seq(ToViewer)
    BY <1>3, AppendShape, WireSent DEF Exchange, Typed
  <1>10. Once(Append(x, m), OfferFrames)
    <2>1. Once(x, OfferFrames) /\ ~Has(x, OfferFrames)
      BY <1>6 DEF Exchange, OneToken, ToTheViewer
    <2>. QED
      BY <1>3, <1>9, <2>1, AppendHas
  <1>. HIDE DEF c, k, m, q, AA, offer
  <1>11. Typed(k, v, Append(x, m), y)
    BY <1>5, <1>9 DEF Exchange, Typed
  <1>12. OneToken(k, v, Append(x, m), y)
    <2>1. ~AtViewer(v) /\ ~ToTheHost(y) /\ ~AtHost(k)
      BY <1>5, <1>6 DEF Exchange, OneToken, AtHost, AA
    <2>. QED
      BY <1>5, <1>6, <1>10, <2>1 DEF Exchange, OneToken, AA
  <1>13. HostKeeps(k) /\ HostWaits(k, v, Append(x, m), y)
    <2>1. offer # None /\ offer.level = h.want /\ h.want \in {1, 2}
      BY <1>2, Descriptions, OpenConns DEF offer
    <2>. QED
      BY <1>5, <1>7, <2>1 DEF HostKeeps, HostWaits
  <1>14. InOrder(k, y) /\ ViewerKeeps(k, v)
    BY <1>5, <1>7, <1>8, OpenConns DEF Exchange, InOrder, ViewerKeeps
  <1>15. Exchange(k, v, x \o <<m>>, y)
    BY <1>9, <1>11, <1>12, <1>13, <1>14 DEF Exchange
  <1>16. m = [type |-> "offer", body |-> c.local]
    BY <1>5 DEF m
  <1>. QED
    BY <1>5, <1>15, <1>16 DEF c, k

\* The viewer hears it: it has nothing under way that the offer could meet.
LEMMA OfferMeetsNothing ==
  ASSUME NEW h, NEW v \in ViewerConns, NEW x, NEW y, Exchange(h, v, x, y),
         x # <<>>, Head(x) \in OfferFrames
  PROVE  v.signalingState = "stable" /\ ~v.makingOffer /\ ~Has(v.chain, Turns)
  <1>1. ToTheViewer(x)
    BY TailHas DEF Exchange, Typed, ToTheViewer
  <1>2. ~Has(v.chain, Turns)
    BY <1>1, OpenConns DEF Exchange, OneToken, AtViewer
  <1>3. ~Has(v.chain, Past)
    BY <1>2, ViewerOpFacts DEF Has
  <1>. QED
    BY <1>2, <1>3, OpenConns DEF Exchange, ViewerKeeps

LEMMA ViewerHearsOffer ==
  ASSUME NEW h, NEW v \in ViewerConns, NEW x, NEW y, Exchange(h, v, x, y),
         x # <<>>, Head(x) \in OfferFrames
  PROVE  Exchange(h, handleDescription("viewer", v, Head(x).body), Tail(x), y)
  <1>. DEFINE d == Head(x).body
              op == <<"remote", d>>
              k == Then(v, op)
              q == k.chain
  <1>1. d \in AnOffer /\ d.age = "present"
    <2>1. Head(x) \in ToViewer
      BY TailShape DEF Exchange, Typed
    <2>. QED
      BY <2>1, FrameKinds
  <1>2. /\ op \in ViewerOps /\ op \in Turns /\ op \notin Past /\ op \notin Bygone
    BY <1>1, ViewerOpFacts
  <1>3. v.signalingState = "stable" /\ ~v.makingOffer /\ ~Has(v.chain, Turns) /\ v.open
    BY OfferMeetsNothing, OpenConns
  <1>4. handleDescription("viewer", v, d) = k
    BY <1>3, <1>1, Descriptions DEF handleDescription, offerCollision
  <1>. HIDE DEF d, op
  <1>5. k \in ViewerConns /\ SameState(v, k) /\ k.chain = Append(v.chain, op) /\ k.open
    BY <1>2, ViewerThen, OpenConns
  <1>6. v.chain \in Seq(ViewerOps) /\ Once(v.chain, Turns)
    BY <1>3, OpenConns DEF Exchange, OneToken
  <1>7. /\ Has(q, Past) <=> Has(v.chain, Past)
        /\ Has(q, Bygone) <=> Has(v.chain, Bygone)
        /\ Once(q, Turns)
    BY <1>2, <1>3, <1>5, <1>6, AppendHas
  <1>8. x \in Seq(ToViewer) /\ Once(x, OfferFrames) /\ ToTheViewer(x)
    BY TailHas DEF Exchange, Typed, OneToken, ToTheViewer
  <1>9. Tail(x) \in Seq(ToViewer) /\ Once(Tail(x), OfferFrames) /\ ~Has(Tail(x), OfferFrames)
    BY <1>8, TailShape, TailHas
  <1>. HIDE DEF k
  <1>10. OneToken(h, k, Tail(x), y) /\ ~Nowhere(h, v, x, y)
    BY <1>7, <1>8, <1>9, <1>5 DEF Exchange, OneToken, ToTheViewer, Nowhere
  <1>11. HostWaits(h, k, Tail(x), y)
    BY <1>10 DEF Exchange, HostWaits
  <1>12. ViewerKeeps(h, k)
    BY <1>3, <1>5, <1>7 DEF Exchange, ViewerKeeps, SameState
  <1>. QED
    BY <1>4, <1>5, <1>9, <1>10, <1>11, <1>12 DEF Exchange, Typed, d

\* The viewer sets it.
LEMMA ViewerSets ==
  ASSUME NEW h, NEW v \in ViewerConns, NEW x, NEW y, Exchange(h, v, x, y),
         v.chain # <<>>, Head(v.chain)[1] = "remote"
  PROVE  LET d == Head(v.chain)[2]
         IN Exchange(h, drain(setRemoteDescription([v EXCEPT !.chain = Tail(@)], d), d), x, y)
  <1>. DEFINE d == Head(v.chain)[2]
              c == [v EXCEPT !.chain = Tail(@)]
              s == setRemoteDescription(c, d)
              k == drain(s, d)
              q == Tail(v.chain)
  <1>1. v.chain \in Seq(ViewerOps) /\ q \in Seq(ViewerOps) /\ Head(v.chain) \in ViewerOps /\ v.open
    BY OpenConns, TailShape
  <1>2. d \in AnOffer /\ Head(v.chain) = <<"remote", d>> /\ Head(v.chain) \in Turns
    BY <1>1, ViewerOpKinds, ViewerOpFacts
  <1>3. s \in ViewerConns /\ s.chain = q /\ s.signalingState = "have-remote-offer" /\ s.remote = d
    <2>1. c \in ViewerConns /\ c.chain = q
      BY <1>1, ViewerTook
    <2>2. d.type = "offer"
      BY <1>2, Descriptions
    <2>. HIDE DEF c, d
    <2>3. s = [c EXCEPT !.signalingState = "have-remote-offer", !.remote = d]
      BY <2>2 DEF setRemoteDescription
    <2>. HIDE DEF s
    <2>4. s \in ViewerConns
      BY <1>2, <2>1, <2>3 DEF ViewerConns, Connection
    <2>. QED
      BY <2>1, <2>3, <2>4 DEF ViewerConns, Connection
  <1>4. PICK op \in Past \cap ViewerOps :
          op \notin Bygone /\ k.chain = Append(q, op) /\ k \in ViewerConns /\ SameState(s, k)
    <2>. HIDE DEF s
    <2>. QED
      BY <1>2, <1>3, ViewerDrains
  <1>5. AtViewer(v) /\ Once(q, Turns) /\ ~Has(q, Turns)
    <2>1. Once(v.chain, Turns)
      BY <1>1 DEF Exchange, OneToken
    <2>2. Has(v.chain, Turns) /\ Once(q, Turns) /\ ~Has(q, Turns)
      BY <1>1, <1>2, <2>1, TailHas
    <2>. QED
      BY <1>1, <2>2 DEF AtViewer
  <1>6. h.open => d.age = "present" /\ ~Has(q, Bygone)
    <2>1. h.open => ~Has(v.chain, Bygone)
      BY <1>1 DEF Exchange, ViewerKeeps
    <2>2. Has(v.chain, Bygone) <=> Head(v.chain) \in Bygone \/ Has(q, Bygone)
      BY <1>1, TailHas
    <2>. QED
      BY <1>2, <2>1, <2>2, ViewerOpFacts
  <1>. HIDE DEF d, c, s, k, q
  <1>7. /\ Has(k.chain, Past) /\ Once(k.chain, Turns)
        /\ Has(k.chain, Bygone) => Has(q, Bygone)
    <2>1. op \in Turns
      BY <1>4, ViewerOpFacts
    <2>. QED
      BY <1>1, <1>4, <1>5, <2>1, AppendHas
  <1>8. OneToken(h, k, x, y) /\ ~Nowhere(h, v, x, y)
    BY <1>5, <1>7 DEF Exchange, OneToken, Nowhere
  <1>9. HostWaits(h, k, x, y)
    BY <1>8 DEF Exchange, HostWaits
  <1>10. ViewerKeeps(h, k)
    BY <1>2, <1>3, <1>4, <1>6, <1>7, Descriptions DEF ViewerKeeps, SameState
  <1>11. Exchange(h, k, x, y)
    BY <1>4, <1>8, <1>9, <1>10 DEF Exchange, Typed
  <1>. QED
    BY <1>11 DEF k, s, c, d

\* The viewer's answer is made; to a host that is there it is not outdated.
LEMMA ViewerMakesAnswer ==
  ASSUME NEW h, NEW v \in ViewerConns, NEW x, NEW y, Exchange(h, v, x, y),
         v.chain # <<>>, Head(v.chain) = <<"answer">>
  PROVE  LET k == setLocalDescription("viewer", [v EXCEPT !.chain = Tail(@)])
             m == [type |-> "answer", body |-> k.local]
         IN /\ Exchange(h, k, x, y \o <<m>>)
            /\ ~h.open => Exchange(h, k, x, y)
            /\ m \in ToHost
            /\ v.signalingState = "have-remote-offer"
  <1>. DEFINE k == setLocalDescription("viewer", [v EXCEPT !.chain = Tail(@)])
              answer == [type |-> "answer", age |-> v.remote.age, level |-> v.remote.level]
              m == [type |-> "answer", body |-> answer]
              q == Tail(v.chain)
  <1>1. v.chain \in Seq(ViewerOps) /\ q \in Seq(ViewerOps) /\ v.open
    BY OpenConns, TailShape
  <1>2. Head(v.chain) \in Past /\ Head(v.chain) \in Turns
    BY ViewerOpFacts
  <1>3. AtViewer(v) /\ Has(v.chain, Past) /\ Once(q, Turns) /\ ~Has(q, Turns) /\ ~Has(q, Past)
        /\ (Has(q, Bygone) => Has(v.chain, Bygone))
    <2>1. Once(v.chain, Turns)
      BY <1>1 DEF Exchange, OneToken
    <2>2. Has(v.chain, Turns) /\ Has(v.chain, Past) /\ Once(q, Turns) /\ ~Has(q, Turns)
          /\ (Has(q, Bygone) => Has(v.chain, Bygone))
      BY <1>1, <1>2, <2>1, TailHas
    <2>3. ~Has(q, Past)
      BY <2>2, ViewerOpFacts DEF Has
    <2>. QED
      BY <1>1, <2>2, <2>3 DEF AtViewer
  <1>4. v.signalingState = "have-remote-offer" /\ v.remote \in AnOffer
        /\ (h.open => v.remote.age = "present")
    BY <1>1, <1>3, OpenConns DEF Exchange, ViewerKeeps
  <1>5. answer \in AnAnswer /\ answer.age = v.remote.age
    BY <1>4, Descriptions DEF AnAnswer
  <1>6. /\ k \in ViewerConns /\ k.local = answer /\ k.chain = q /\ k.open
        /\ k.signalingState = "stable"
    <2>. DEFINE c == [v EXCEPT !.chain = Tail(@)]
    <2>1. c \in ViewerConns /\ SameState(v, c) /\ c.chain = q
      BY <1>1, ViewerTook DEF AtViewer, Has
    <2>. HIDE DEF c
    <2>2. c.signalingState = "have-remote-offer" /\ c.remote = v.remote /\ c.remote # None
      BY <1>4, <2>1, Descriptions DEF SameState
    <2>3. v.remote.level \in Levels
      BY <1>4, Descriptions
    <2>. DEFINE g == IF c.local = None \/ c.local.age # v.remote.age THEN "due" ELSE c.gather
    <2>4. setLocalDescription("viewer", c) =
            [c EXCEPT !.local = answer, !.signalingState = "stable",
                      !.agreed = v.remote.level, !.fired = FALSE, !.gather = g]
      BY <2>2 DEF setLocalDescription
    <2>5. g \in {"no", "due", "sent"}
      BY <2>1 DEF ViewerConns, Connection
    <2>6. k = [c EXCEPT !.local = answer, !.signalingState = "stable",
                        !.agreed = v.remote.level, !.fired = FALSE, !.gather = g]
      BY <2>4 DEF c
    <2>. HIDE DEF g, answer, k
    <2>7. k \in ViewerConns
      BY <1>5, <2>1, <2>3, <2>5, <2>6 DEF ViewerConns, Connection
    <2>8. k.local = answer /\ k.chain = c.chain /\ k.signalingState = "stable"
      BY <2>1, <2>6 DEF ViewerConns, Connection
    <2>. QED
      BY <2>1, <2>7, <2>8, OpenConns
  <1>7. m \in ToHost /\ (m \in FreshAnswers <=> answer.age = "present")
        /\ (m \in StaleAnswers <=> answer.age # "present")
    BY <1>5, FrameFacts
  <1>8. y \in Seq(ToHost) /\ y \o <<m>> = Append(y, m) /\ Append(y, m) \in Seq(ToHost)
    BY <1>7, AppendShape, WireSent DEF Exchange, Typed
  <1>. HIDE DEF k, answer, m, q
  <1>9. ~AtHost(h) /\ ~ToTheViewer(x) /\ ~ToTheHost(y) /\ ~AtViewer(k) /\ ~Nowhere(h, v, x, y)
    BY <1>3, <1>6 DEF Exchange, OneToken, AtViewer, Nowhere
  <1>10. /\ Once(Append(y, m), FreshAnswers)
         /\ h.open => Has(Append(y, m), StaleAnswers) <=> Has(y, StaleAnswers)
    <2>1. Once(y, FreshAnswers) /\ ~Has(y, FreshAnswers)
      BY <1>9 DEF Exchange, OneToken, ToTheHost
    <2>. QED
      BY <1>4, <1>5, <1>7, <1>8, <2>1, AppendHas
  <1>11. h.open => Last(Append(y, m), FreshAnswers, StaleAnswers)
    <2>1. ~Has(y, FreshAnswers)
      BY <1>9 DEF ToTheHost
    <2>2. h.open => Last(y, FreshAnswers, StaleAnswers)
      BY DEF Exchange, InOrder
    <2>. QED
      BY <1>7, <1>8, <2>1, <2>2, AppendLast
  <1>12. ViewerKeeps(h, k)
    BY <1>1, <1>3, <1>6 DEF Exchange, ViewerKeeps
  <1>13. /\ Typed(h, k, x, Append(y, m)) /\ OneToken(h, k, x, Append(y, m))
         /\ HostWaits(h, k, x, Append(y, m)) /\ InOrder(h, Append(y, m))
    <2>1. Typed(h, k, x, Append(y, m)) /\ OneToken(h, k, x, Append(y, m))
      BY <1>3, <1>6, <1>8, <1>9, <1>10 DEF Exchange, Typed, OneToken
    <2>2. HostWaits(h, k, x, Append(y, m))
      BY <1>9 DEF Exchange, HostWaits
    <2>3. InOrder(h, Append(y, m))
      BY <1>10, <1>11 DEF Exchange, InOrder
    <2>. QED
      BY <2>1, <2>2, <2>3
  <1>14. Exchange(h, k, x, y \o <<m>>)
    BY <1>8, <1>12, <1>13 DEF Exchange
  <1>15. ~h.open => Exchange(h, k, x, y)
    BY <1>3, <1>6, <1>9, <1>12 DEF Exchange, Typed, OneToken, HostWaits
  <1>16. m = [type |-> "answer", body |-> k.local]
    BY <1>6 DEF m
  <1>. QED
    BY <1>4, <1>7, <1>14, <1>15, <1>16 DEF k

\* The answer is back at the host.
LEMMA HostHearsAnswer ==
  ASSUME NEW h \in HostConns, NEW v, NEW x, NEW y, Exchange(h, v, x, y),
         y # <<>>, Head(y) \in FreshAnswers \cup StaleAnswers
  PROVE  LET k == handleDescription("host", h, Head(y).body)
         IN Exchange(k, v, x, Tail(y)) /\ k.open /\ k.remote = h.remote
  <1>. DEFINE d == Head(y).body
              op == <<"remote", d>>
              k == Then(h, op)
              q == k.chain
              r == Tail(y)
              AA == Asking \cup Answered
  <1>1. /\ y \in Seq(ToHost) /\ r \in Seq(ToHost) /\ d \in AnAnswer
        /\ Head(y) \in FreshAnswers <=> d.age = "present"
        /\ Head(y) \in StaleAnswers <=> d.age # "present"
    <2>1. Head(y) \in ToHost /\ y \in Seq(ToHost) /\ r \in Seq(ToHost)
      BY TailShape DEF Exchange, Typed
    <2>. QED
      BY <2>1, FrameKinds
  <1>2. /\ op \in HostOps /\ op \notin Asking
        /\ op \in Answered <=> d.age = "present"
        /\ op \in Outdated <=> d.age # "present"
    BY <1>1, HostOpFacts
  <1>3. handleDescription("host", h, d) = k
    BY <1>1, Descriptions DEF handleDescription, offerCollision
  <1>4. k \in HostConns /\ SameState(h, k) /\ q = Append(h.chain, op) /\ k.open /\ h.open
    <2>. HIDE DEF op
    <2>. QED
      BY <1>2, HostThen, OpenConns
  <1>5. /\ ToTheHost(r) => ToTheHost(y)
        /\ d.age = "present" => ToTheHost(y) /\ ~ToTheHost(r) /\ ~Has(r, StaleAnswers)
        /\ d.age # "present" => Has(y, StaleAnswers)
        /\ Once(r, FreshAnswers)
        /\ Has(r, StaleAnswers) => Has(y, StaleAnswers)
        /\ Last(r, FreshAnswers, StaleAnswers)
    <2>1. Once(y, FreshAnswers) /\ Last(y, FreshAnswers, StaleAnswers)
      BY <1>4 DEF Exchange, OneToken, InOrder
    <2>2. \A D : /\ Has(y, D) <=> Head(y) \in D \/ Has(r, D)
                 /\ Once(y, D) => Once(r, D) /\ (Head(y) \in D => ~Has(r, D))
      BY <1>1, TailHas
    <2>3. /\ Last(r, FreshAnswers, StaleAnswers)
          /\ Head(y) \in FreshAnswers => ~Has(r, StaleAnswers)
      BY <1>1, <2>1, TailLast
    <2>. QED
      BY <1>1, <2>1, <2>2, <2>3 DEF ToTheHost
  <1>. HIDE DEF op, d, k, q, r
  <1>6. h.chain \in Seq(HostOps) /\ Once(h.chain, AA) /\ Last(h.chain, Answered, Outdated)
    BY <1>4, OpenConns DEF Exchange, OneToken, InOrder
  <1>7. d.age = "present" => ~AtHost(h) /\ ~AtViewer(v) /\ ~ToTheViewer(x) /\ ~Has(h.chain, AA)
    BY <1>4, <1>5 DEF Exchange, OneToken, AtHost
  <1>8. /\ Has(q, Asking) <=> Has(h.chain, Asking)
        /\ Has(q, AA) <=> Has(h.chain, AA) \/ d.age = "present"
        /\ Has(q, Answered) <=> Has(h.chain, Answered) \/ d.age = "present"
        /\ Has(q, Outdated) <=> Has(h.chain, Outdated) \/ d.age # "present"
        /\ Once(q, AA)
    <2>1. op \in AA <=> d.age = "present"
      BY <1>2
    <2>. HIDE DEF AA
    <2>. QED
      BY <1>2, <1>4, <1>6, <1>7, <2>1, AppendHas
  <1>9. Has(h.chain, Answered) => ~Has(y, StaleAnswers)
    BY <1>4 DEF Exchange, InOrder
  <1>10. Last(q, Answered, Outdated)
    BY <1>2, <1>4, <1>5, <1>6, <1>9, AppendLast
  <1>11. OneToken(k, v, x, r)
    <2>1. AtHost(k) <=> Has(q, AA)
      BY <1>4 DEF AtHost, q
    <2>2. AtHost(h) <=> Has(h.chain, AA)
      BY <1>4 DEF AtHost
    <2>. QED
      BY <1>4, <1>5, <1>7, <1>8, <2>1, <2>2 DEF Exchange, OneToken, q
  <1>12. HostKeeps(k)
    BY <1>4, <1>8 DEF Exchange, HostKeeps, SameState, q
  <1>13. HostWaits(k, v, x, r)
    <2>1. d.age = "present" => ~Nowhere(h, v, x, y)
      BY <1>5 DEF Nowhere
    <2>2. d.age # "present" /\ Nowhere(h, v, x, y) => Nowhere(k, v, x, r)
      BY <1>4, <1>5, <1>8 DEF Nowhere, AtHost, q
    <2>. QED
      BY <1>4, <2>1, <2>2 DEF Exchange, HostWaits, SameState
  <1>14. InOrder(k, r)
    <2>1. h.remote.age = "present" => ~Has(y, StaleAnswers) /\ ~Has(h.chain, Outdated)
      BY <1>4 DEF Exchange, InOrder
    <2>. QED
      BY <1>4, <1>5, <1>8, <1>9, <1>10, <2>1 DEF InOrder, SameState, q
  <1>15. ViewerKeeps(k, v) /\ Typed(k, v, x, r)
    BY <1>1, <1>4 DEF Exchange, ViewerKeeps, Typed
  <1>. QED
    BY <1>3, <1>4, <1>11, <1>12, <1>13, <1>14, <1>15 DEF Exchange, SameState, d, r

\* The host sets it.
LEMMA HostSets ==
  ASSUME NEW h \in HostConns, NEW v, NEW x, NEW y, Exchange(h, v, x, y),
         h.chain # <<>>, Head(h.chain)[1] = "remote", Applicable(h, Head(h.chain)[2])
  PROVE  LET d == Head(h.chain)[2]
             k == drain(setRemoteDescription([h EXCEPT !.chain = Tail(@)], d), d)
         IN /\ Exchange(k, v, x, y) /\ k.open
            /\ h.remote.age = "present" => k.remote.age = "present"
  <1>. DEFINE d == Head(h.chain)[2]
              c == [h EXCEPT !.chain = Tail(@)]
              s == setRemoteDescription(c, d)
              k == drain(s, d)
              q == Tail(h.chain)
              AA == Asking \cup Answered
  <1>1. h.chain \in Seq(HostOps) /\ q \in Seq(HostOps) /\ Head(h.chain) \in HostOps /\ h.open
    BY OpenConns, TailShape
  <1>2. /\ d \in AnAnswer /\ Head(h.chain) \notin Asking
        /\ Head(h.chain) \in Answered <=> d.age = "present"
        /\ Head(h.chain) \in Outdated <=> d.age # "present"
    BY <1>1, HostOpKinds, HostOpFacts
  <1>3. h.signalingState = "have-local-offer" /\ h.local # None /\ ~h.makingOffer
    BY <1>1, <1>2, Descriptions DEF Applicable, Exchange, HostKeeps
  <1>4. /\ s \in HostConns /\ s.chain = q /\ s.signalingState = "stable" /\ s.remote = d
        /\ s.agreed = h.local.level /\ s.local = h.local /\ s.want = h.want /\ ~s.makingOffer
    <2>1. c \in HostConns /\ SameState(h, c) /\ c.chain = q
      BY HostTook
    <2>2. h.local.level \in Levels /\ d.type # "offer"
      BY <1>2, <1>3, OpenConns, Descriptions
    <2>3. s = [c EXCEPT !.signalingState = "stable", !.remote = d,
                        !.agreed = c.local.level, !.fired = FALSE]
      BY <2>2 DEF setRemoteDescription
    <2>4. c.local.level \in Levels /\ c.local = h.local /\ ~c.makingOffer /\ c.want = h.want
      BY <1>3, <2>1, <2>2 DEF SameState
    <2>. HIDE DEF c, s, d, q
    <2>. QED
      BY <1>2, <2>1, <2>3, <2>4 DEF HostConns, Connection
  <1>5. k \in HostConns /\ SameState(s, k) /\ HostChainKept(q, k.chain)
    <2>1. /\ k \in HostConns /\ SameState(s, k)
          /\ \/ k.chain = q
             \/ \E op \in HostOps : /\ op \notin Asking \cup Answered \cup Outdated
                                    /\ k.chain = Append(q, op)
      <3>. HIDE DEF s
      <3>. QED
        BY <1>2, <1>4, HostDrains
    <2>2. HostChainKept(q, q)
      BY <1>1 DEF HostChainKept
    <2>. HIDE DEF k, q
    <2>. QED
      BY <1>1, <2>1, <2>2, HostChainAppend
  <1>6. HostChainKept(h.chain, q)
    BY <1>1, <1>2, HostChainTail
  <1>7. /\ d.age = "present" => AtHost(h) /\ ~Has(q, AA) /\ ~Has(q, Outdated)
        /\ d.age # "present" => h.remote.age # "present"
    <2>1. /\ Once(h.chain, AA) /\ Last(h.chain, Answered, Outdated)
          /\ h.remote.age = "present" => ~Has(h.chain, Outdated)
      BY <1>1 DEF Exchange, OneToken, InOrder
    <2>2. d.age = "present" => Has(h.chain, AA) /\ ~Has(q, AA)
      BY <1>1, <1>2, <2>1, TailHas
    <2>3. d.age # "present" => Has(h.chain, Outdated)
      BY <1>1, <1>2, TailHas
    <2>4. d.age = "present" => ~Has(q, Outdated)
      BY <1>1, <1>2, <2>1, TailLast
    <2>. QED
      BY <1>1, <2>1, <2>2, <2>3, <2>4 DEF AtHost
  <1>. HIDE DEF d, c, s, k, q, AA
  <1>8. HostChainKept(h.chain, k.chain)
    BY <1>5, <1>6, HostChainTrans
  <1>9. /\ k.open /\ k.chain \in Seq(HostOps) /\ k.signalingState = "stable" /\ k.remote = d
        /\ k.agreed = h.local.level /\ k.local = h.local /\ k.want = h.want /\ ~k.makingOffer
    BY <1>4, <1>5, OpenConns DEF SameState
  <1>10. AtHost(k) => AtHost(h)
    BY <1>1, <1>8 DEF AtHost, HostChainKept
  <1>11. OneToken(k, v, x, y)
    BY <1>1, <1>8, <1>9, <1>10 DEF Exchange, OneToken, HostChainKept
  <1>12. HostKeeps(k)
    BY <1>1, <1>3, <1>7, <1>8, <1>9 DEF Exchange, HostKeeps, HostChainKept
  <1>13. HostWaits(k, v, x, y)
    <2>1. d.age = "present" => ~AtViewer(v) /\ ~ToTheViewer(x) /\ ~ToTheHost(y)
      BY <1>7 DEF Exchange, OneToken
    <2>2. d.age = "present" => ~AtHost(k)
      BY <1>5, <1>7, <1>9 DEF AtHost, HostChainKept, AA
    <2>. QED
      BY <1>3, <1>9, <2>1, <2>2 DEF HostWaits, Nowhere
  <1>14. InOrder(k, y)
    <2>1. d.age = "present" => ~Has(y, StaleAnswers)
      BY <1>1, <1>2 , TailHas DEF Exchange, InOrder
    <2>2. d.age = "present" => ~Has(k.chain, Outdated)
      BY <1>5, <1>7 DEF HostChainKept
    <2>. QED
      BY <1>1, <1>8, <1>9, <2>1, <2>2 DEF Exchange, InOrder, HostChainKept
  <1>15. ViewerKeeps(k, v) /\ Typed(k, v, x, y)
    BY <1>1, <1>5, <1>9 DEF Exchange, ViewerKeeps, Typed
  <1>16. Exchange(k, v, x, y)
    BY <1>11, <1>12, <1>13, <1>14, <1>15 DEF Exchange
  <1>. QED
    BY <1>7, <1>9, <1>16 DEF k, s, c, d

----------------------------------------------------------------------------
(* Steps that leave the token where it is, or lose it *)

LEMMA HostGathers ==
  ASSUME NEW h \in HostConns
  PROVE  /\ HostAside(h, [h EXCEPT !.gather = "sent"])
         /\ [age |-> h.local.age] \in Candidate
  <1>. DEFINE k == [h EXCEPT !.gather = "sent"]
  <1>1. k \in HostConns /\ SameState(h, k) /\ k.chain = h.chain
    BY DEF SameState, HostConns, Connection
  <1>2. HostChainKept(h.chain, h.chain)
    BY OpenConns DEF HostChainKept
  <1>3. h.local.age \in Ages
    BY OpenConns, Descriptions DEF Ages
  <1>. QED
    BY <1>1, <1>2, <1>3 DEF HostAside, Candidate

LEMMA ViewerGathers ==
  ASSUME NEW v \in ViewerConns
  PROVE  /\ ViewerAside(v, [v EXCEPT !.gather = "sent"])
         /\ [age |-> v.local.age] \in Candidate
  <1>. DEFINE k == [v EXCEPT !.gather = "sent"]
  <1>1. k \in ViewerConns /\ SameState(v, k) /\ k.chain = v.chain
    BY DEF SameState, ViewerConns, Connection
  <1>2. ViewerChainKept(v.chain, v.chain)
    BY OpenConns DEF ViewerChainKept
  <1>3. v.local.age \in Ages
    BY OpenConns, Descriptions DEF Ages
  <1>. QED
    BY <1>1, <1>2, <1>3 DEF ViewerAside, SameState, Candidate

LEMMA HostRefuses ==
  ASSUME NEW h \in HostConns, h.chain # <<>>, Head(h.chain)[1] = "remote"
  PROVE  HostAside(h, [h EXCEPT !.chain = Tail(@)])
  <1>1. h.chain \in Seq(HostOps) /\ Head(h.chain) \in HostOps
    BY OpenConns, TailShape
  <1>2. Head(h.chain) \notin Asking
    BY <1>1, HostOpKinds, HostOpFacts
  <1>. QED
    BY <1>1, <1>2, HostTook, HostChainTail DEF HostAside

LEMMA ViewerRefuses ==
  ASSUME NEW v \in ViewerConns, v.chain # <<>>, Head(v.chain)[1] = "remote"
  PROVE  ViewerAside(v, [v EXCEPT !.chain = Tail(@)])
  <1>1. v.chain \in Seq(ViewerOps) /\ Head(v.chain) \in ViewerOps
    BY OpenConns, TailShape
  <1>2. Head(v.chain) \notin Past
    BY <1>1, ViewerOpKinds, ViewerOpFacts
  <1>. QED
    BY <1>1, <1>2, ViewerTook, ViewerChainTail DEF ViewerAside, SameState

LEMMA RestOfBatch ==
  ASSUME NEW l \in Batches
  PROVE  Tail(l) \in Seq(Candidate) /\ (Tail(l) # <<>> => Tail(l) \in Batches)
  <1>1. Tail(l) \in Seq(Candidate)
    BY TailShape DEF Batches
  <1>. QED
    BY <1>1 DEF Batches

LEMMA HostAddsCandidate ==
  ASSUME NEW h \in HostConns, h.chain # <<>>, Head(h.chain)[1] = "candidates"
  PROVE  LET op   == Head(h.chain)
             c    == addIceCandidate([h EXCEPT !.chain = Tail(@)], Head(op[2]))
             rest == Tail(op[2])
         IN HostAside(h, IF rest = <<>> THEN Answer(c, op[3])
                         ELSE Then(c, <<"candidates", rest, op[3]>>))
  <1>. DEFINE op   == Head(h.chain)
              e    == [h EXCEPT !.chain = Tail(@)]
              c    == addIceCandidate(e, Head(op[2]))
              rest == Tail(op[2])
              q    == Tail(h.chain)
              next == <<"candidates", rest, op[3]>>
              k    == IF rest = <<>> THEN Answer(c, op[3]) ELSE Then(c, next)
  <1>1. h.chain \in Seq(HostOps) /\ op \in HostOps
    BY OpenConns, TailShape
  <1>2. op[2] \in Batches /\ op[3] \in {None} \cup AnAnswer
        /\ op \notin Asking \cup Answered \cup Outdated
    BY <1>1, HostOpKinds, HostOpFacts
  <1>3. rest # <<>> => next \in HostOps /\ next \notin Asking \cup Answered \cup Outdated
    BY <1>2, RestOfBatch, HostOpFacts
  <1>4. c \in HostConns /\ SameState(h, c) /\ c.chain = q
    <2>1. e \in HostConns /\ SameState(h, e) /\ e.chain = q
      BY HostTook
    <2>. HIDE DEF e, op, q
    <2>. QED
      BY <2>1 DEF addIceCandidate, SameState, HostConns, Connection
  <1>5. HostChainKept(h.chain, q) /\ q \in Seq(HostOps)
    BY <1>1, <1>2, HostChainTail, TailShape
  <1>6. Answer(c, op[3]) = c
    BY <1>2, Descriptions DEF Answer
  <1>. HIDE DEF c, e, op, q, next, rest
  <1>7. ASSUME rest = <<>> PROVE HostAside(h, k)
    BY <1>4, <1>5, <1>6, <1>7 DEF HostAside
  <1>8. ASSUME rest # <<>> PROVE HostAside(h, k)
    <2>1. Then(c, next) \in HostConns /\ SameState(c, Then(c, next))
          /\ Then(c, next).chain = Append(q, next)
      BY <1>3, <1>4, <1>8, HostThen
    <2>2. HostChainKept(q, Append(q, next))
      BY <1>3, <1>5, <1>8, HostChainAppend
    <2>3. HostChainKept(h.chain, Append(q, next))
      BY <1>5, <2>2, HostChainTrans
    <2>4. SameState(h, Then(c, next))
      BY <1>4, <2>1 DEF SameState
    <2>. QED
      BY <1>8, <2>1, <2>3, <2>4 DEF HostAside
  <1>9. HostAside(h, k)
    BY <1>7, <1>8
  <1>. QED
    BY <1>9 DEF c, e, op, next, rest

LEMMA ViewerAddsCandidate ==
  ASSUME NEW v \in ViewerConns, v.chain # <<>>, Head(v.chain)[1] = "candidates",
         Once(v.chain, Turns)
  PROVE  LET op   == Head(v.chain)
             c    == addIceCandidate([v EXCEPT !.chain = Tail(@)], Head(op[2]))
             rest == Tail(op[2])
         IN ViewerAside(v, IF rest = <<>> THEN Answer(c, op[3])
                           ELSE Then(c, <<"candidates", rest, op[3]>>))
  <1>. DEFINE op   == Head(v.chain)
              e    == [v EXCEPT !.chain = Tail(@)]
              c    == addIceCandidate(e, Head(op[2]))
              rest == Tail(op[2])
              q    == Tail(v.chain)
              next == IF rest = <<>> THEN <<"answer">> ELSE <<"candidates", rest, op[3]>>
              k    == IF rest = <<>> THEN Answer(c, op[3])
                      ELSE Then(c, <<"candidates", rest, op[3]>>)
  <1>1. v.chain \in Seq(ViewerOps) /\ op \in ViewerOps /\ q \in Seq(ViewerOps)
    BY OpenConns, TailShape
  <1>2. op[2] \in Batches /\ op[3] \in {None} \cup AnOffer /\ op = <<"candidates", op[2], op[3]>>
    BY <1>1, ViewerOpKinds
  <1>3. op \in Past <=> op[3] \in AnOffer
    BY <1>2, ViewerOpFacts
  <1>4. c \in ViewerConns /\ SameState(v, c) /\ c.chain = q
    <2>1. e \in ViewerConns /\ SameState(v, e) /\ e.chain = q
      BY ViewerTook
    <2>. HIDE DEF e, op, q
    <2>. QED
      BY <2>1 DEF addIceCandidate, SameState, ViewerConns, Connection
  <1>5. op[3] \in AnOffer => next \in ViewerOps /\ next \in Past /\ next \notin Bygone
    BY <1>2, RestOfBatch, ViewerOpFacts
  <1>6. op[3] = None /\ rest # <<>> => next \in ViewerOps /\ next \notin Turns \cup Bygone
    BY <1>2, RestOfBatch, ViewerOpFacts, Descriptions
  <1>7. k = IF op[3] \in AnOffer \/ rest # <<>> THEN Then(c, next) ELSE c
    BY <1>2, Descriptions DEF Answer
  <1>. HIDE DEF c, e, op, q, next, rest, k
  <1>8. ASSUME op[3] \in AnOffer \/ rest # <<>> PROVE ViewerAside(v, k)
    <2>1. next \in ViewerOps /\ k = Then(c, next)
      BY <1>2, <1>5, <1>6, <1>7, <1>8
    <2>2. k \in ViewerConns /\ SameState(c, k) /\ k.chain = Append(q, next)
      BY <1>4, <2>1, ViewerThen
    <2>3. ViewerChainKept(v.chain, Append(q, next))
      <3>1. CASE op[3] \in AnOffer
        BY <1>1, <1>3, <1>5, <3>1, ViewerChainPasses DEF op, q
      <3>2. CASE op[3] \notin AnOffer
        <4>1. ViewerChainKept(v.chain, q)
          BY <1>1, <1>3, <3>2, ViewerChainTail DEF op, q
        <4>2. ViewerChainKept(q, Append(q, next))
          BY <1>1, <1>2, <1>6, <1>8, <3>2, <2>1, ViewerChainAppend
        <4>. QED
          BY <4>1, <4>2, ViewerChainTrans
      <3>. QED
        BY <3>1, <3>2
    <2>. QED
      BY <1>4, <2>2, <2>3 DEF ViewerAside, SameState
  <1>9. ASSUME ~(op[3] \in AnOffer \/ rest # <<>>) PROVE ViewerAside(v, k)
    <2>1. ViewerChainKept(v.chain, q)
      BY <1>1, <1>3, <1>9, ViewerChainTail DEF op, q
    <2>. QED
      BY <1>4, <1>7, <1>9, <2>1 DEF ViewerAside, SameState
  <1>10. ViewerAside(v, k)
    BY <1>8, <1>9
  <1>. QED
    BY <1>10 DEF k, c, e, op, rest

\* A connection that has begun nothing stands beside any exchange.
LEMMA IdleViewer ==
  ASSUME NEW v \in ViewerConns, v.chain = <<>>, v.signalingState = "stable", NEW h
  PROVE  ViewerKeeps(h, v) /\ Once(v.chain, Turns) /\ ~AtViewer(v)
  BY EmptyQueue DEF ViewerKeeps, AtViewer

LEMMA ViewerConnIdle ==
  ViewerConn \in ViewerConns /\ ViewerConn.chain = <<>> /\ ViewerConn.signalingState = "stable"
  BY EmptySeq DEF ViewerConn, Conn, ViewerConns, Connection, Levels

LEMMA FreshViewer ==
  ASSUME NEW h, NEW v, NEW x, NEW y, Exchange(h, v, x, y), ~v.open
  PROVE  ViewerConn \in ViewerConns /\ Exchange(h, ViewerConn, x, y)
  <1>. DEFINE k == ViewerConn
  <1>1. k \in ViewerConns /\ ViewerKeeps(h, k) /\ Once(k.chain, Turns) /\ ~AtViewer(k)
    BY ViewerConnIdle, IdleViewer
  <1>2. ~AtViewer(v)
    BY DEF AtViewer
  <1>. HIDE DEF k
  <1>3. Typed(h, k, x, y) /\ OneToken(h, k, x, y) /\ HostWaits(h, k, x, y)
    BY <1>1, <1>2 DEF Exchange, Typed, OneToken, HostWaits, Nowhere
  <1>4. Exchange(h, k, x, y)
    BY <1>1, <1>3 DEF Exchange
  <1>. QED
    BY <1>1, <1>4 DEF k

----------------------------------------------------------------------------
(* What becomes of the candidates *)

Behind(q, D, E) == \A i \in DOMAIN q : q[i] \in D => \E j \in DOMAIN q : i < j /\ q[j] \in E

PresentIce   == {m \in IceFrames : m.body.age = "present"}
PresentCands == {c \in Candidate : c.age = "present"}
Carrying == {op \in HostOps \cup ViewerOps : op[1] = "candidates" /\ Has(op[2], PresentCands)}

\* The offers of the host that has its connection now.
Offered == {op \in ViewerOps : op[1] = "remote" /\ op[2].age = "present"}

(***************************************************************************)
(* Where the candidate of the other end is, once that has sent it: applied,*)
(* on its way or with the connection, if this end has the description it   *)
(* belongs to; and otherwise behind that description, wherever that is.    *)
(***************************************************************************)
Reaches(c, q, descriptions, ops) ==
  /\ c.open /\ c.remote.age = "present" =>
       c.got \/ Has(q, PresentIce) \/ Has(c.chain, Carrying)
  /\ ~c.open \/ c.remote.age # "present" => Behind(q, descriptions, PresentIce)
  /\ c.open /\ c.remote.age # "present" /\ Has(c.chain, ops) =>
       \/ Has(q, PresentIce)
       \/ Behind(c.chain, ops, Carrying)
       \/ Has(c.pendingCandidates, PresentCands)

\* A connection queues candidates until it has a description, and no longer.
Emptied(c) ==
  c.open => /\ c.remoteDescriptionSet => c.pendingCandidates = <<>>
            /\ c.remote # None => c.remoteDescriptionSet

SentBy(c) == c.open /\ c.gather = "sent" /\ c.local.age = "present"

\* The host offers again only when it has the answer to its first offer, and
\* has an answer only of a viewer that took the offer.
OffersAgain(h) == h.open /\ h.makingOffer /\ h.local # None => h.remote.age = "present"

Taken(h, v, y) ==
  h.open /\ (h.remote.age = "present" \/ Has(h.chain, Answered) \/ Has(y, FreshAnswers)) =>
    v.open /\ v.remote.age = "present"

\* A viewer whose answer the host never took is not asked for another.
AnswersOnce(h, v, x) ==
  h.open /\ v.open /\ v.local.age = "present" /\ h.remote.age # "present" =>
    ~Has(v.chain, Turns) /\ ~Has(x, OfferFrames) /\ ~h.makingOffer /\ h.local # None

Candidates(h, v, x, y) ==
  /\ Emptied(h) /\ Emptied(v)
  /\ OffersAgain(h)
  /\ Taken(h, v, y)
  /\ AnswersOnce(h, v, x)
  /\ SentBy(h) => Reaches(v, x, OfferFrames, Offered)
  /\ h.open /\ SentBy(v) => Reaches(h, y, FreshAnswers, Answered)

LEMMA BehindTail ==
  ASSUME NEW S, NEW q \in Seq(S), q # <<>>, NEW D, NEW E, Behind(q, D, E)
  PROVE  /\ Behind(Tail(q), D, E)
         /\ Head(q) \in D => Has(Tail(q), E)
  <1>. DEFINE r == Tail(q)
  <1>1. /\ 1 \in DOMAIN q /\ Head(q) = q[1]
        /\ \A i \in DOMAIN r : i \in Nat /\ i + 1 \in DOMAIN q /\ r[i] = q[i + 1]
        /\ \A i \in DOMAIN q : /\ i \in Nat /\ i >= 1
                               /\ i = 1 \/ (i - 1 \in DOMAIN r /\ i - 1 + 1 = i)
    BY TailShape
  <1>. HIDE DEF r
  <1>2. ASSUME NEW i \in DOMAIN r, r[i] \in D
        PROVE  \E j \in DOMAIN r : i < j /\ r[j] \in E
    <2>1. PICK j \in DOMAIN q : i + 1 < j /\ q[j] \in E
      BY <1>1, <1>2 DEF Behind
    <2>2. i \in Nat /\ j \in Nat /\ j # 1
      BY <1>1, <2>1
    <2>3. j - 1 \in DOMAIN r /\ j - 1 + 1 = j /\ i < j - 1
      BY <1>1, <2>1, <2>2
    <2>. QED
      BY <1>1, <2>1, <2>3
  <1>3. ASSUME Head(q) \in D PROVE Has(r, E)
    <2>1. PICK j \in DOMAIN q : 1 < j /\ q[j] \in E
      BY <1>1, <1>3 DEF Behind
    <2>2. j - 1 \in DOMAIN r /\ r[j - 1] = q[j]
      BY <1>1, <2>1
    <2>. QED
      BY <2>1, <2>2 DEF Has
  <1>. QED
    BY <1>2, <1>3 DEF Behind, r

LEMMA BehindAppend ==
  ASSUME NEW S, NEW q \in Seq(S), NEW x \in S, NEW D, NEW E, x \notin D
  PROVE  Behind(q, D, E) \/ x \in E => Behind(Append(q, x), D, E)
  <1>. DEFINE r == Append(q, x)
              n == Len(q) + 1
  <1>1. /\ DOMAIN r = DOMAIN q \cup {n} /\ r[n] = x /\ n \in Nat
        /\ \A i \in DOMAIN q : i \in Nat /\ i < n /\ r[i] = q[i]
    BY AppendShape
  <1>. HIDE DEF r, n
  <1>. QED
    BY <1>1 DEF Behind, r

\* Frames that are sent.
LEMMA ReachesSent ==
  ASSUME NEW c, NEW S, NEW q \in Seq(S), NEW m \in S, NEW D, NEW O,
         \/ Reaches(c, q, D, O) /\ (m \notin D \/ (c.open /\ c.remote.age = "present"))
         \/ m \in PresentIce \ D
  PROVE  Reaches(c, Append(q, m), D, O)
  <1>1. /\ Has(Append(q, m), PresentIce) <=> Has(q, PresentIce) \/ m \in PresentIce
    BY AppendHas
  <1>2. m \notin D => (Behind(q, D, PresentIce) \/ m \in PresentIce
                         => Behind(Append(q, m), D, PresentIce))
    BY BehindAppend
  <1>. QED
    BY <1>1, <1>2 DEF Reaches

\* A frame that finds no connection.
LEMMA ReachesNobody ==
  ASSUME NEW c, ~c.open, NEW S, NEW q \in Seq(S), q # <<>>, NEW D, NEW O, Reaches(c, q, D, O)
  PROVE  Reaches(c, Tail(q), D, O)
  BY BehindTail DEF Reaches

\* What a connection has besides its chain, and what its chain keeps.
Rest(c, k) ==
  /\ k.got = c.got /\ k.gather = c.gather
  /\ k.pendingCandidates = c.pendingCandidates
  /\ k.remoteDescriptionSet = c.remoteDescriptionSet

ChainCarries(p, r, O) ==
  /\ Has(p, Carrying) => Has(r, Carrying)
  /\ Has(r, O) => Has(p, O)
  /\ Behind(p, O, Carrying) => Behind(r, O, Carrying)

LEMMA ReachesAside ==
  ASSUME NEW c, NEW k, NEW q, NEW D, NEW O, Reaches(c, q, D, O),
         k.open = c.open, k.remote = c.remote, k.got = c.got,
         k.pendingCandidates = c.pendingCandidates, ChainCarries(c.chain, k.chain, O)
  PROVE  Reaches(k, q, D, O)
  BY DEF Reaches, ChainCarries

LEMMA CarriesTail ==
  ASSUME NEW S, NEW p \in Seq(S), p # <<>>, Head(p) \notin Carrying, NEW O
  PROVE  ChainCarries(p, Tail(p), O)
  BY TailHas, BehindTail DEF ChainCarries

LEMMA CarriesAppend ==
  ASSUME NEW S, NEW p \in Seq(S), NEW op \in S, NEW O, op \notin O
  PROVE  ChainCarries(p, Append(p, op), O)
  <1>1. Has(Append(p, op), Carrying) <=> Has(p, Carrying) \/ op \in Carrying
    BY AppendHas
  <1>2. Has(Append(p, op), O) <=> Has(p, O) \/ op \in O
    BY AppendHas
  <1>3. Behind(p, O, Carrying) => Behind(Append(p, op), O, Carrying)
    BY BehindAppend
  <1>. QED
    BY <1>1, <1>2, <1>3 DEF ChainCarries

LEMMA CarriesTrans ==
  ASSUME NEW p, NEW r, NEW s, NEW O, ChainCarries(p, r, O), ChainCarries(r, s, O)
  PROVE  ChainCarries(p, s, O)
  BY DEF ChainCarries

\* A description is heard: it goes into the chain.
LEMMA ReachesHears ==
  ASSUME NEW c, NEW k, NEW S, NEW q \in Seq(S), q # <<>>, NEW T, NEW op \in T,
         c.chain \in Seq(T), k.chain = Append(c.chain, op),
         NEW D, NEW O, Reaches(c, q, D, O), Head(q) \notin PresentIce, op \in O => Head(q) \in D,
         k.open = c.open, k.remote = c.remote, k.got = c.got,
         k.pendingCandidates = c.pendingCandidates
  PROVE  Reaches(k, Tail(q), D, O)
  <1>1. Has(q, PresentIce) => Has(Tail(q), PresentIce)
    BY TailHas
  <1>2. Has(k.chain, Carrying) <=> Has(c.chain, Carrying) \/ op \in Carrying
    BY AppendHas
  <1>3. Has(k.chain, O) <=> Has(c.chain, O) \/ op \in O
    BY AppendHas
  <1>4. Behind(q, D, PresentIce) => /\ Behind(Tail(q), D, PresentIce)
                                    /\ Head(q) \in D => Has(Tail(q), PresentIce)
    BY BehindTail
  <1>5. op \notin O /\ Behind(c.chain, O, Carrying) => Behind(k.chain, O, Carrying)
    BY BehindAppend
  <1>. HIDE DEF Carrying, PresentIce
  <1>6. ASSUME k.open, k.remote.age = "present"
        PROVE  k.got \/ Has(Tail(q), PresentIce) \/ Has(k.chain, Carrying)
    BY <1>1, <1>2, <1>6 DEF Reaches
  <1>7. ASSUME ~k.open \/ k.remote.age # "present"
        PROVE  Behind(Tail(q), D, PresentIce)
    BY <1>4, <1>7 DEF Reaches
  <1>8. ASSUME k.open, k.remote.age # "present", Has(k.chain, O)
        PROVE  \/ Has(Tail(q), PresentIce) \/ Behind(k.chain, O, Carrying)
               \/ Has(k.pendingCandidates, PresentCands)
    <2>1. CASE op \in O
      BY <1>4, <1>8, <2>1 DEF Reaches
    <2>2. CASE op \notin O
      BY <1>1, <1>3, <1>5, <1>8, <2>2 DEF Reaches
    <2>. QED
      BY <2>1, <2>2
  <1>. QED
    BY <1>6, <1>7, <1>8 DEF Reaches

\* A candidate is taken: into the chain, or into the queue if there is no
\* description yet.
LEMMA ReachesTakes ==
  ASSUME NEW c, NEW k, NEW S, NEW q \in Seq(S), q # <<>>, NEW T, c.chain \in Seq(T),
         NEW D, NEW O, Reaches(c, q, D, O),
         k.open = c.open, k.remote = c.remote, k.got = c.got, c.open,
         NEW op \in T, k.chain = Append(c.chain, op), op \notin O,
         Head(q) \in PresentIce => op \in Carrying,
         k.pendingCandidates = c.pendingCandidates
  PROVE  Reaches(k, Tail(q), D, O)
  <1>1. Has(q, PresentIce) => Head(q) \in PresentIce \/ Has(Tail(q), PresentIce)
    BY TailHas
  <1>2. Behind(q, D, PresentIce) => Behind(Tail(q), D, PresentIce)
    BY BehindTail
  <1>3. ChainCarries(c.chain, k.chain, O)
    BY CarriesAppend
  <1>4. op \in Carrying => Has(k.chain, Carrying) /\ Behind(k.chain, O, Carrying)
    BY AppendHas, BehindAppend
  <1>. QED
    BY <1>1, <1>2, <1>3, <1>4 DEF Reaches, ChainCarries

LEMMA ReachesQueues ==
  ASSUME NEW c, NEW k, NEW S, NEW q \in Seq(S), q # <<>>,
         NEW D, NEW O, Reaches(c, q, D, O),
         k.open = c.open, k.remote = c.remote, k.got = c.got, c.open,
         k.chain = c.chain, c.remote.age # "present",
         Head(q) \in PresentIce \/ Has(c.pendingCandidates, PresentCands)
           => Has(k.pendingCandidates, PresentCands)
  PROVE  Reaches(k, Tail(q), D, O)
  <1>1. Has(q, PresentIce) => Head(q) \in PresentIce \/ Has(Tail(q), PresentIce)
    BY TailHas
  <1>2. Behind(q, D, PresentIce) => Behind(Tail(q), D, PresentIce)
    BY BehindTail
  <1>. QED
    BY <1>1, <1>2 DEF Reaches

\* A description is set, and what was queued for it is handed over.
LEMMA ReachesSets ==
  ASSUME NEW c, NEW k, NEW T, c.chain \in Seq(T), c.chain # <<>>, NEW q, NEW D, NEW O,
         Reaches(c, q, D, O), c.open, k.open, k.got = c.got, Head(c.chain) \notin Carrying,
         k.remote.age = "present" => Head(c.chain) \in O,
         k.remote.age # "present" => c.remote.age # "present",
         \/ k.chain = Tail(c.chain) /\ ~Has(c.pendingCandidates, PresentCands)
         \/ \E op \in T : /\ k.chain = Append(Tail(c.chain), op) /\ op \notin O
                          /\ Has(c.pendingCandidates, PresentCands) => op \in Carrying
  PROVE  Reaches(k, q, D, O)
  <1>. DEFINE p == c.chain
              r == Tail(p)
              waits == Has(c.pendingCandidates, PresentCands)
  <1>1. /\ r \in Seq(T) /\ ChainCarries(p, r, O)
        /\ Behind(p, O, Carrying) /\ Head(p) \in O => Has(r, Carrying)
        /\ Head(p) \in O => Has(p, O)
    BY TailShape, TailHas, CarriesTail, BehindTail
  <1>2. /\ ChainCarries(p, k.chain, O)
        /\ Has(r, Carrying) => Has(k.chain, Carrying)
        /\ waits => Has(k.chain, Carrying) /\ Behind(k.chain, O, Carrying)
    <2>1. CASE k.chain = r /\ ~waits
      BY <1>1, <2>1
    <2>2. ASSUME NEW op \in T, k.chain = Append(r, op), op \notin O, waits => op \in Carrying
          PROVE  /\ ChainCarries(p, k.chain, O)
                 /\ Has(r, Carrying) => Has(k.chain, Carrying)
                 /\ waits => Has(k.chain, Carrying) /\ Behind(k.chain, O, Carrying)
      <3>1. ChainCarries(r, k.chain, O)
        BY <1>1, <2>2, CarriesAppend
      <3>2. ChainCarries(p, k.chain, O)
        BY <1>1, <3>1, CarriesTrans
      <3>3. op \in Carrying => Has(k.chain, Carrying) /\ Behind(k.chain, O, Carrying)
        <4>. HIDE DEF r
        <4>1. Has(k.chain, Carrying) <=> Has(r, Carrying) \/ op \in Carrying
          BY <1>1, <2>2, AppendHas
        <4>2. op \in Carrying => Behind(k.chain, O, Carrying)
          BY <1>1, <2>2, BehindAppend
        <4>. QED
          BY <4>1, <4>2
      <3>. QED
        BY <2>2, <3>1, <3>2, <3>3 DEF ChainCarries
    <2>. QED
      BY <2>1, <2>2
  <1>. HIDE DEF r, waits
  <1>3. CASE k.remote.age = "present"
    <2>1. Head(p) \in O /\ Has(p, O)
      BY <1>1, <1>3
    <2>2. c.got \/ Has(q, PresentIce) \/ Has(p, Carrying) \/ Has(r, Carrying) \/ waits
      BY <1>1, <2>1 DEF Reaches, waits
    <2>. QED
      BY <1>2, <1>3, <2>2 DEF Reaches, ChainCarries
  <1>4. CASE k.remote.age # "present"
    <2>1. c.remote.age # "present"
      BY <1>4
    <2>. QED
      BY <1>2, <1>4, <2>1 DEF Reaches, ChainCarries, waits
  <1>. QED
    BY <1>3, <1>4

\* A candidate has been added or rejected; the rest of its batch follows.
LEMMA ReachesAdds ==
  ASSUME NEW c, NEW k, NEW T, c.chain \in Seq(T), c.chain # <<>>, NEW q, NEW D, NEW O,
         Reaches(c, q, D, O), k.open = c.open, k.remote = c.remote,
         k.pendingCandidates = c.pendingCandidates, c.got => k.got,
         \/ k.chain = Tail(c.chain)
              /\ (Head(c.chain) \in Carrying /\ c.remote.age = "present" => k.got)
         \/ \E op \in T : /\ k.chain = Append(Tail(c.chain), op) /\ op \notin O
                          /\ Head(c.chain) \in Carrying /\ c.remote.age = "present" =>
                               k.got \/ op \in Carrying
  PROVE  Reaches(k, q, D, O)
  <1>. DEFINE p == c.chain
              r == Tail(p)
  <1>1. /\ r \in Seq(T)
        /\ Has(p, Carrying) => Head(p) \in Carrying \/ Has(r, Carrying)
        /\ Has(r, O) => Has(p, O)
        /\ Behind(p, O, Carrying) => Behind(r, O, Carrying)
    BY TailShape, TailHas, BehindTail
  <1>. HIDE DEF r
  <1>2. CASE k.chain = r /\ (Head(p) \in Carrying /\ c.remote.age = "present" => k.got)
    BY <1>1, <1>2 DEF Reaches
  <1>3. ASSUME NEW op \in T, k.chain = Append(r, op), op \notin O,
               Head(p) \in Carrying /\ c.remote.age = "present" => k.got \/ op \in Carrying
        PROVE  Reaches(k, q, D, O)
    <2>1. ChainCarries(r, k.chain, O)
      BY <1>1, <1>3, CarriesAppend
    <2>2. op \in Carrying => Has(k.chain, Carrying)
      BY <1>1, <1>3, AppendHas
    <2>. QED
      BY <1>1, <1>3, <2>1, <2>2 DEF Reaches, ChainCarries
  <1>. QED
    BY <1>2, <1>3 DEF r

----------------------------------------------------------------------------
(* The functions of Peer and the candidates of one connection *)

Conns == HostConns \cup ViewerConns

LEMMA ConnFacts ==
  ASSUME NEW c \in Conns
  PROVE  /\ c.open /\ c.remote \in {None} \cup AnAnswer \cup AnOffer
         /\ c.pendingCandidates \in Seq(Candidate) /\ c.remoteDescriptionSet \in BOOLEAN
         /\ c.got \in BOOLEAN
         /\ c.remote.age = "present" => c.remote # None
  <1>1. c \in HostConns => c.got \in BOOLEAN
    BY DEF HostConns, Connection
  <1>2. c \in ViewerConns => c.got \in BOOLEAN
    BY DEF ViewerConns, Connection
  <1>. QED
    BY <1>1, <1>2, OpenConns, Descriptions DEF Conns

\* All of a connection but its chain.
Same(c, k) == SameState(c, k) /\ Rest(c, k)

LEMMA ThenSame ==
  ASSUME NEW c \in Conns, NEW op
  PROVE  Same(c, Then(c, op)) /\ Then(c, op).chain = Append(c.chain, op)
  <1>1. ASSUME c \in HostConns
        PROVE  Same(c, Then(c, op)) /\ Then(c, op).chain = Append(c.chain, op)
    BY <1>1 DEF Then, Same, SameState, Rest, HostConns, Connection
  <1>2. ASSUME c \in ViewerConns
        PROVE  Same(c, Then(c, op)) /\ Then(c, op).chain = Append(c.chain, op)
    BY <1>2 DEF Then, Same, SameState, Rest, ViewerConns, Connection
  <1>. QED
    BY <1>1, <1>2 DEF Conns

LEMMA TookSame ==
  ASSUME NEW c \in Conns
  PROVE  LET k == [c EXCEPT !.chain = Tail(@)]
         IN Same(c, k) /\ k.chain = Tail(c.chain)
  <1>. DEFINE k == [c EXCEPT !.chain = Tail(@)]
  <1>1. ASSUME c \in HostConns
        PROVE  Same(c, k) /\ k.chain = Tail(c.chain)
    BY <1>1 DEF Same, SameState, Rest, HostConns, Connection
  <1>2. ASSUME c \in ViewerConns
        PROVE  Same(c, k) /\ k.chain = Tail(c.chain)
    BY <1>2 DEF Same, SameState, Rest, ViewerConns, Connection
  <1>. QED
    BY <1>1, <1>2 DEF Conns

\* handleCandidate().
LEMMA CandidateTaken ==
  ASSUME NEW c \in Conns, NEW cand
  PROVE  LET k == handleCandidate(c, cand)
         IN /\ SameState(c, k) /\ k.got = c.got /\ k.gather = c.gather
            /\ k.remoteDescriptionSet = c.remoteDescriptionSet
            /\ c.remoteDescriptionSet =>
                 /\ k.chain = Append(c.chain, <<"candidates", <<cand>>, None>>)
                 /\ k.pendingCandidates = c.pendingCandidates
            /\ ~c.remoteDescriptionSet =>
                 /\ k.chain = c.chain
                 /\ k.pendingCandidates = Append(c.pendingCandidates, cand)
  <1>1. CASE c.remoteDescriptionSet
    BY <1>1, ThenSame DEF handleCandidate, Same, Rest
  <1>2. CASE ~c.remoteDescriptionSet
    <2>. DEFINE k == [c EXCEPT !.pendingCandidates = Append(@, cand)]
    <2>1. /\ SameState(c, k) /\ k.got = c.got /\ k.gather = c.gather
          /\ k.remoteDescriptionSet = c.remoteDescriptionSet /\ k.chain = c.chain
          /\ k.pendingCandidates = Append(c.pendingCandidates, cand)
      <3>1. CASE c \in HostConns
        BY <3>1 DEF SameState, HostConns, Connection
      <3>2. CASE c \in ViewerConns
        BY <3>2 DEF SameState, ViewerConns, Connection
      <3>. QED
        BY <3>1, <3>2 DEF Conns
    <2>. QED
      BY <1>2, <2>1 DEF handleCandidate
  <1>. QED
    BY <1>1, <1>2

\* drain(), and what follows it: the candidates that were queued, if there are
\* any, or the answer.
LEMMA Drained ==
  ASSUME NEW c \in Conns, NEW d
  PROVE  LET k == drain(c, d)
         IN /\ SameState(c, k) /\ k.got = c.got /\ k.gather = c.gather
            /\ k.remoteDescriptionSet /\ k.pendingCandidates = <<>>
            /\ \/ k.chain = c.chain /\ c.pendingCandidates = <<>> /\ d.type # "offer"
               \/ k.chain = Append(c.chain, <<"answer">>) /\ c.pendingCandidates = <<>>
                    /\ d.type = "offer"
               \/ k.chain = Append(c.chain, <<"candidates", c.pendingCandidates, d>>)
                    /\ c.pendingCandidates # <<>>
  <1>. DEFINE e == [c EXCEPT !.remoteDescriptionSet = TRUE, !.pendingCandidates = <<>>]
              k == drain(c, d)
  <1>1. /\ e \in Conns /\ SameState(c, e) /\ e.got = c.got /\ e.gather = c.gather
        /\ e.remoteDescriptionSet /\ e.pendingCandidates = <<>> /\ e.chain = c.chain
    <2>1. <<>> \in Seq(Candidate)
      OBVIOUS
    <2>2. CASE c \in HostConns
      BY <2>1, <2>2 DEF Conns, SameState, HostConns, Connection
    <2>3. CASE c \in ViewerConns
      BY <2>1, <2>3 DEF Conns, SameState, ViewerConns, Connection
    <2>. QED
      BY <2>2, <2>3 DEF Conns
  <1>2. k = IF c.pendingCandidates = <<>> THEN Answer(e, d)
            ELSE Then(e, <<"candidates", c.pendingCandidates, d>>)
    BY DEF drain
  <1>. HIDE DEF e, k
  <1>3. k = e \/ Same(e, k)
    BY <1>1, <1>2, ThenSame DEF Answer
  <1>4. /\ SameState(c, k) /\ k.got = c.got /\ k.gather = c.gather
        /\ k.remoteDescriptionSet /\ k.pendingCandidates = <<>>
    BY <1>1, <1>3 DEF Same, SameState, Rest
  <1>5. \/ k.chain = c.chain /\ c.pendingCandidates = <<>> /\ d.type # "offer"
        \/ k.chain = Append(c.chain, <<"answer">>) /\ c.pendingCandidates = <<>>
             /\ d.type = "offer"
        \/ k.chain = Append(c.chain, <<"candidates", c.pendingCandidates, d>>)
             /\ c.pendingCandidates # <<>>
    <2>1. CASE c.pendingCandidates # <<>>
      BY <1>1, <1>2, <2>1, ThenSame
    <2>2. CASE c.pendingCandidates = <<>> /\ d.type = "offer"
      BY <1>1, <1>2, <2>2, ThenSame DEF Answer
    <2>3. CASE c.pendingCandidates = <<>> /\ d.type # "offer"
      BY <1>1, <1>2, <2>3 DEF Answer
    <2>. QED
      BY <2>1, <2>2, <2>3
  <1>. QED
    BY <1>4, <1>5 DEF k

LEMMA SameOpen ==
  ASSUME NEW c \in Conns, NEW k, SameState(c, k)
  PROVE  /\ k.open = c.open /\ k.remote = c.remote /\ k.local = c.local
         /\ k.makingOffer = c.makingOffer
  BY DEF SameState

\* Which operations carry a candidate.
LEMMA CarryingFacts ==
  /\ \A l \in Batches, d \in {None} \cup AnAnswer \cup AnOffer :
       <<"candidates", l, d>> \in Carrying <=> Has(l, PresentCands)
  /\ \A op \in HostOps \cup ViewerOps : op[1] # "candidates" => op \notin Carrying
  /\ \A d : <<"candidates", <<>>, d>> \notin Offered
  /\ \A op \in Carrying : op \notin Answered /\ op \notin Offered
  /\ Offered \subseteq Turns /\ Offered \subseteq ViewerOps
  /\ \A op \in ViewerOps : op \in Offered <=> op[1] = "remote" /\ op[2].age = "present"
  <1>1. ASSUME NEW l \in Batches, NEW d \in {None} \cup AnAnswer \cup AnOffer
        PROVE  <<"candidates", l, d>> \in Carrying <=> Has(l, PresentCands)
    <2>1. <<"candidates", l, d>> \in HostOps \cup ViewerOps
      BY HostOpFacts, ViewerOpFacts
    <2>. QED
      BY <2>1 DEF Carrying
  <1>2. ASSUME NEW op \in ViewerOps, op[1] = "remote" PROVE op \in Turns
    BY <1>2 DEF Turns
  <1>. QED
    BY <1>1, <1>2 DEF Carrying, Offered, Answered

LEMMA IceFacts ==
  /\ \A m \in ToViewer : m.type = "ice" => (m \in PresentIce <=> m.body.age = "present")
  /\ \A m \in ToHost : m.type = "ice" => (m \in PresentIce <=> m.body.age = "present")
  /\ \A m : m \in PresentIce => m \notin OfferFrames /\ m \notin FreshAnswers
                                /\ m \notin StaleAnswers
                                /\ m = [type |-> "ice", body |-> [age |-> "present"]]
  /\ \A c \in Candidate : c \in PresentCands <=> c.age = "present"
  /\ \A c \in Candidate : [type |-> "ice", body |-> c] \in PresentIce <=> c.age = "present"
  BY DEF ToViewer, ToHost, IceFrames, OfferFrames, FreshAnswers, StaleAnswers, PresentIce,
         PresentCands, Candidate

LEMMA CandidateReaches ==
  ASSUME NEW c \in Conns, Emptied(c), NEW T, c.chain \in Seq(T), NEW S, NEW q \in Seq(S), q # <<>>,
         NEW D, NEW O, Reaches(c, q, D, O), NEW cand \in Candidate,
         Head(q) \in PresentIce <=> cand.age = "present",
         <<"candidates", <<cand>>, None>> \in T, <<"candidates", <<cand>>, None>> \notin O
  PROVE  LET k == handleCandidate(c, cand)
         IN Reaches(k, Tail(q), D, O)
  <1>. DEFINE k == handleCandidate(c, cand)
              op == <<"candidates", <<cand>>, None>>
  <1>1. /\ SameState(c, k) /\ k.got = c.got
        /\ c.remoteDescriptionSet =>
             /\ k.chain = Append(c.chain, op)
             /\ k.pendingCandidates = c.pendingCandidates
        /\ ~c.remoteDescriptionSet =>
             /\ k.chain = c.chain
             /\ k.pendingCandidates = Append(c.pendingCandidates, cand)
    BY CandidateTaken
  <1>2. k.open = c.open /\ k.remote = c.remote /\ c.open
    BY <1>1, SameOpen, ConnFacts
  <1>3. cand.age = "present" => op \in Carrying
    <2>1. <<cand>> \in Batches
      BY DEF Batches
    <2>2. cand.age = "present" => Has(<<cand>>, PresentCands)
      BY IceFacts DEF Has
    <2>. QED
      BY <2>1, <2>2, CarryingFacts
  <1>4. ~c.remoteDescriptionSet => c.remote.age # "present"
    BY <1>2, Descriptions DEF Emptied
  <1>5. Has(Append(c.pendingCandidates, cand), PresentCands)
          <=> Has(c.pendingCandidates, PresentCands) \/ cand \in PresentCands
    BY ConnFacts, AppendHas
  <1>6. cand \in PresentCands <=> cand.age = "present"
    BY IceFacts
  <1>. HIDE DEF k, op
  <1>7. ASSUME c.remoteDescriptionSet PROVE Reaches(k, Tail(q), D, O)
    <2>1. /\ k.chain = Append(c.chain, op) /\ k.pendingCandidates = c.pendingCandidates
          /\ op \in T /\ op \notin O /\ k.got = c.got
          /\ Head(q) \in PresentIce => op \in Carrying
      <3>1. op \in T /\ op \notin O
        BY DEF op
      <3>2. k.chain = Append(c.chain, op)
        BY <1>1, <1>7 DEF op
      <3>. QED
        BY <1>1, <1>3, <1>7, <3>1, <3>2
    <2>. QED
      BY <1>2, <2>1, ReachesTakes
  <1>8. ASSUME ~c.remoteDescriptionSet PROVE Reaches(k, Tail(q), D, O)
    <2>1. /\ k.chain = c.chain /\ c.remote.age # "present" /\ k.got = c.got
          /\ Head(q) \in PresentIce \/ Has(c.pendingCandidates, PresentCands)
               => Has(k.pendingCandidates, PresentCands)
      <3>1. k.pendingCandidates = Append(c.pendingCandidates, cand)
        BY <1>1, <1>8
      <3>2. Has(k.pendingCandidates, PresentCands)
              <=> Has(c.pendingCandidates, PresentCands) \/ cand \in PresentCands
        BY <1>5, <3>1
      <3>. QED
        BY <1>1, <1>4, <1>6, <1>8, <3>2
    <2>. QED
      BY <1>2, <2>1, ReachesQueues
  <1>9. Reaches(k, Tail(q), D, O)
    BY <1>7, <1>8
  <1>. QED
    BY <1>9 DEF k

LEMMA CandidateEmptied ==
  ASSUME NEW c \in Conns, Emptied(c), NEW cand
  PROVE  Emptied(handleCandidate(c, cand))
  BY CandidateTaken, SameOpen DEF Emptied

\* What is left of a connection when one candidate of a batch is added.
LEMMA Added ==
  ASSUME NEW c \in Conns, c.chain # <<>>, NEW l, NEW d
  PROVE  LET a    == addIceCandidate([c EXCEPT !.chain = Tail(@)], Head(l))
             rest == Tail(l)
             k    == IF rest = <<>> THEN Answer(a, d)
                     ELSE Then(a, <<"candidates", rest, d>>)
         IN /\ SameState(c, k) /\ k.gather = c.gather
            /\ k.pendingCandidates = c.pendingCandidates
            /\ k.remoteDescriptionSet = c.remoteDescriptionSet
            /\ k.got = (c.got \/ (Head(l).age = "present" /\ c.remote.age = "present"))
            /\ \/ k.chain = Tail(c.chain) /\ rest = <<>>
               \/ k.chain = Append(Tail(c.chain), <<"answer">>) /\ rest = <<>>
                    /\ d.type = "offer"
               \/ k.chain = Append(Tail(c.chain), <<"candidates", rest, d>>) /\ rest # <<>>
  <1>. DEFINE e    == [c EXCEPT !.chain = Tail(@)]
              a    == addIceCandidate(e, Head(l))
              rest == Tail(l)
              k    == IF rest = <<>> THEN Answer(a, d)
                      ELSE Then(a, <<"candidates", rest, d>>)
              got  == c.got \/ (Head(l).age = "present" /\ c.remote.age = "present")
  <1>1. Same(c, e) /\ e.chain = Tail(c.chain)
    BY TookSame
  <1>2. e \in Conns
    BY HostTook, ViewerTook DEF Conns
  <1>. HIDE DEF e
  <1>3. /\ a \in Conns /\ SameState(e, a) /\ a.gather = e.gather
        /\ a.pendingCandidates = e.pendingCandidates
        /\ a.remoteDescriptionSet = e.remoteDescriptionSet /\ a.chain = e.chain
        /\ a.got = (e.got \/ (Head(l).age = "present" /\ e.remote.age = "present"))
    <2>1. CASE e \in HostConns
      BY <2>1 DEF addIceCandidate, Conns, SameState, HostConns, Connection
    <2>2. CASE e \in ViewerConns
      BY <2>2 DEF addIceCandidate, Conns, SameState, ViewerConns, Connection
    <2>. QED
      BY <1>2, <2>1, <2>2 DEF Conns
  <1>. HIDE DEF a
  <1>4. k = a \/ Same(a, k)
    BY <1>3, ThenSame DEF Answer
  <1>5. \/ k.chain = a.chain /\ rest = <<>>
        \/ k.chain = Append(a.chain, <<"answer">>) /\ rest = <<>> /\ d.type = "offer"
        \/ k.chain = Append(a.chain, <<"candidates", rest, d>>) /\ rest # <<>>
    BY <1>3, ThenSame DEF Answer
  <1>. HIDE DEF k, rest
  <1>6. /\ SameState(c, k) /\ k.gather = c.gather
        /\ k.pendingCandidates = c.pendingCandidates
        /\ k.remoteDescriptionSet = c.remoteDescriptionSet
        /\ k.got = a.got
    BY <1>1, <1>3, <1>4 DEF Same, SameState, Rest
  <1>7. k.got = got
    BY <1>1, <1>3, <1>6 DEF Same, SameState, Rest
  <1>. QED
    BY <1>1, <1>3, <1>5, <1>6, <1>7 DEF k, rest, a, e

LEMMA AddedReaches ==
  ASSUME NEW c \in Conns, NEW T, c.chain \in Seq(T), c.chain # <<>>, Emptied(c),
         NEW l \in Batches, NEW d \in {None} \cup AnAnswer \cup AnOffer,
         Head(c.chain) = <<"candidates", l, d>>,
         NEW q, NEW D, NEW O,
         d.type = "offer" => <<"answer">> \in T /\ <<"answer">> \notin O,
         \A b \in Batches : <<"candidates", b, d>> \in T /\ <<"candidates", b, d>> \notin O
  PROVE  LET a    == addIceCandidate([c EXCEPT !.chain = Tail(@)], Head(l))
             rest == Tail(l)
             k    == IF rest = <<>> THEN Answer(a, d) ELSE Then(a, <<"candidates", rest, d>>)
         IN /\ SameState(c, k) /\ k.gather = c.gather /\ Emptied(k)
            /\ Reaches(c, q, D, O) => Reaches(k, q, D, O)
  <1>. DEFINE a    == addIceCandidate([c EXCEPT !.chain = Tail(@)], Head(l))
              rest == Tail(l)
              k    == IF rest = <<>> THEN Answer(a, d) ELSE Then(a, <<"candidates", rest, d>>)
  <1>1. /\ SameState(c, k) /\ k.gather = c.gather
        /\ k.pendingCandidates = c.pendingCandidates
        /\ k.remoteDescriptionSet = c.remoteDescriptionSet
        /\ k.got = (c.got \/ (Head(l).age = "present" /\ c.remote.age = "present"))
        /\ \/ k.chain = Tail(c.chain) /\ rest = <<>>
           \/ k.chain = Append(Tail(c.chain), <<"answer">>) /\ rest = <<>> /\ d.type = "offer"
           \/ k.chain = Append(Tail(c.chain), <<"candidates", rest, d>>) /\ rest # <<>>
    BY Added
  <1>. HIDE DEF k
  <1>2. k.open = c.open /\ k.remote = c.remote
    BY <1>1 DEF SameState
  <1>3. Head(c.chain) \in Carrying => Has(l, PresentCands)
    BY CarryingFacts
  <1>4. Has(l, PresentCands) => Head(l).age = "present" \/ Has(rest, PresentCands)
    <2>1. l \in Seq(Candidate) /\ l # <<>>
      BY DEF Batches
    <2>. QED
      BY <2>1, TailHas DEF PresentCands
  <1>5. rest # <<>> => /\ rest \in Batches
                       /\ <<"candidates", rest, d>> \in Carrying <=> Has(rest, PresentCands)
    BY RestOfBatch, CarryingFacts
  <1>6. rest = <<>> => ~Has(rest, PresentCands)
    BY EmptyQueue
  <1>7. c.got \in BOOLEAN
    BY ConnFacts
  <1>. HIDE DEF rest
  <1>8. c.got => k.got
    BY <1>1
  <1>9. Head(c.chain) \in Carrying /\ c.remote.age = "present" /\ rest = <<>> => k.got
    BY <1>1, <1>3, <1>4, <1>6
  <1>10. Head(c.chain) \in Carrying /\ c.remote.age = "present" /\ rest # <<>> =>
           k.got \/ <<"candidates", rest, d>> \in Carrying
    BY <1>1, <1>3, <1>4, <1>5
  <1>11. ASSUME Reaches(c, q, D, O) PROVE Reaches(k, q, D, O)
    <2>1. CASE k.chain = Tail(c.chain) /\ rest = <<>>
      BY <1>1, <1>2, <1>8, <1>9, <1>11, <2>1, ReachesAdds
    <2>2. CASE k.chain = Append(Tail(c.chain), <<"answer">>) /\ rest = <<>> /\ d.type = "offer"
      BY <1>1, <1>2, <1>8, <1>9, <1>11, <2>2, ReachesAdds
    <2>3. CASE k.chain = Append(Tail(c.chain), <<"candidates", rest, d>>) /\ rest # <<>>
      <3>. DEFINE op == <<"candidates", rest, d>>
      <3>1. op \in T /\ op \notin O
        BY <1>5, <2>3
      <3>2. Head(c.chain) \in Carrying /\ c.remote.age = "present" => k.got \/ op \in Carrying
        BY <1>10, <2>3
      <3>3. k.chain = Append(Tail(c.chain), op)
        BY <2>3
      <3>. HIDE DEF op
      <3>. QED
        BY <1>1, <1>2, <1>8, <1>11, <3>1, <3>2, <3>3, ReachesAdds
    <2>. QED
      BY <1>1, <2>1, <2>2, <2>3
  <1>12. Emptied(k)
    BY <1>1, <1>2 DEF Emptied
  <1>. QED
    BY <1>1, <1>11, <1>12 DEF k, rest

LEMMA RemoteSet ==
  ASSUME NEW e \in Conns, NEW d
  PROVE  LET s == setRemoteDescription(e, d)
         IN /\ s.remote = d /\ s.local = e.local /\ s.makingOffer = e.makingOffer
            /\ s.got = e.got /\ s.gather = e.gather
            /\ s.pendingCandidates = e.pendingCandidates /\ s.chain = e.chain
  <1>1. CASE e \in HostConns
    BY <1>1 DEF setRemoteDescription, HostConns, Connection
  <1>2. CASE e \in ViewerConns
    BY <1>2 DEF setRemoteDescription, ViewerConns, Connection
  <1>. QED
    BY <1>1, <1>2 DEF Conns

\* A description is taken out of the chain and set.
LEMMA SetFields ==
  ASSUME NEW c \in Conns, NEW e \in Conns, Same(c, e), e.chain = Tail(c.chain),
         NEW d, NEW s \in Conns, s = setRemoteDescription(e, d)
  PROVE  LET k == drain(s, d)
             b == c.pendingCandidates
         IN /\ k.open /\ k.remote = d /\ k.local = c.local /\ k.makingOffer = c.makingOffer
            /\ k.gather = c.gather /\ k.got = c.got /\ Emptied(k)
            /\ \/ k.chain = Tail(c.chain) /\ b = <<>> /\ d.type # "offer"
               \/ k.chain = Append(Tail(c.chain), <<"answer">>) /\ b = <<>> /\ d.type = "offer"
               \/ k.chain = Append(Tail(c.chain), <<"candidates", b, d>>) /\ b \in Batches
  <1>. DEFINE k == drain(s, d)
  <1>1. /\ s.remote = d /\ s.local = e.local /\ s.makingOffer = e.makingOffer
        /\ s.got = e.got /\ s.gather = e.gather
        /\ s.pendingCandidates = e.pendingCandidates /\ s.chain = e.chain
    BY RemoteSet
  <1>2. /\ SameState(s, k) /\ k.got = s.got /\ k.gather = s.gather
        /\ k.remoteDescriptionSet /\ k.pendingCandidates = <<>>
        /\ \/ k.chain = s.chain /\ s.pendingCandidates = <<>> /\ d.type # "offer"
           \/ k.chain = Append(s.chain, <<"answer">>) /\ s.pendingCandidates = <<>>
                /\ d.type = "offer"
           \/ k.chain = Append(s.chain, <<"candidates", s.pendingCandidates, d>>)
                /\ s.pendingCandidates # <<>>
    BY Drained
  <1>. HIDE DEF k
  <1>3. /\ k.open /\ k.remote = d /\ k.local = c.local /\ k.makingOffer = c.makingOffer
        /\ k.gather = c.gather /\ k.got = c.got
        /\ s.pendingCandidates = c.pendingCandidates /\ s.chain = Tail(c.chain)
    BY <1>1, <1>2, ConnFacts DEF Same, SameState, Rest
  <1>4. Emptied(k)
    BY <1>2 DEF Emptied
  <1>5. c.pendingCandidates # <<>> => c.pendingCandidates \in Batches
    BY ConnFacts DEF Batches
  <1>. QED
    BY <1>2, <1>3, <1>4, <1>5 DEF k

----------------------------------------------------------------------------
(* No step loses a candidate *)

LEMMA NobodySends ==
  ASSUME NEW h, ~h.open, NEW v, Emptied(v), NEW x, NEW y
  PROVE  Candidates(h, v, x, y)
  BY DEF Candidates, Emptied, OffersAgain, Taken, AnswersOnce, SentBy

\* A step of one end that leaves its descriptions as they are.
LEMMA HostBeside ==
  ASSUME NEW h, NEW k, NEW v, NEW x, NEW y, NEW r, Candidates(h, v, x, y),
         SameState(h, k), k.gather = h.gather, Emptied(k),
         Has(k.chain, Answered) \/ Has(r, FreshAnswers)
           => Has(h.chain, Answered) \/ Has(y, FreshAnswers),
         Reaches(h, y, FreshAnswers, Answered) => Reaches(k, r, FreshAnswers, Answered)
  PROVE  Candidates(k, v, x, r)
  <1>1. OffersAgain(k) /\ Taken(k, v, r) /\ AnswersOnce(k, v, x) /\ (SentBy(k) <=> SentBy(h))
    BY DEF SameState, Candidates, OffersAgain, Taken, AnswersOnce, SentBy
  <1>. QED
    BY <1>1 DEF SameState, Candidates

LEMMA ViewerBeside ==
  ASSUME NEW h, NEW v, NEW k, NEW x, NEW y, NEW q, Candidates(h, v, x, y),
         SameState(v, k), k.gather = v.gather, Emptied(k),
         Has(k.chain, Turns) \/ Has(q, OfferFrames) => Has(v.chain, Turns) \/ Has(x, OfferFrames),
         Reaches(v, x, OfferFrames, Offered) => Reaches(k, q, OfferFrames, Offered)
  PROVE  Candidates(h, k, q, y)
  <1>1. Taken(h, k, y) /\ AnswersOnce(h, k, q) /\ (SentBy(k) <=> SentBy(v))
    BY DEF SameState, Candidates, Taken, AnswersOnce, SentBy
  <1>. QED
    BY <1>1 DEF Candidates

\* What setLocalDescription() leaves to the candidates.
LEMMA HostLocal ==
  ASSUME NEW h \in HostConns, h.chain # <<>>
  PROVE  LET c == setLocalDescription("host", [h EXCEPT !.chain = Tail(@)])
             k == [c EXCEPT !.makingOffer = FALSE]
         IN /\ k.open /\ k.remote = h.remote /\ k.chain = Tail(h.chain) /\ ~k.makingOffer
            /\ k.got = h.got /\ k.pendingCandidates = h.pendingCandidates
            /\ k.remoteDescriptionSet = h.remoteDescriptionSet
            /\ c.local = [type |-> "offer", age |-> "present", level |-> h.want]
            /\ k.gather = IF h.local = None THEN "due" ELSE h.gather
  <1>. DEFINE e == [h EXCEPT !.chain = Tail(@)]
              c == setLocalDescription("host", e)
              k == [c EXCEPT !.makingOffer = FALSE]
              offer == [type |-> "offer", age |-> "present", level |-> h.want]
              g == IF h.local = None THEN "due" ELSE h.gather
  <1>1. e \in HostConns /\ Same(h, e) /\ e.chain = Tail(h.chain)
    BY HostTook, TookSame DEF Conns
  <1>. HIDE DEF e
  <1>2. /\ e.signalingState # "have-remote-offer" /\ e.want = h.want /\ e.local = h.local
        /\ e.gather = h.gather /\ (h.local # None => h.local.age = "present")
    BY <1>1, OpenConns DEF Same, SameState, Rest
  <1>3. c = [e EXCEPT !.local = offer, !.signalingState = "have-local-offer",
                      !.agreed = @, !.fired = @, !.gather = g]
    BY <1>2 DEF setLocalDescription
  <1>. HIDE DEF c, offer, g
  <1>4. /\ c.open /\ c.remote = e.remote /\ c.chain = e.chain /\ c.got = e.got
        /\ c.pendingCandidates = e.pendingCandidates
        /\ c.remoteDescriptionSet = e.remoteDescriptionSet
        /\ c.local = offer /\ c.gather = g /\ DOMAIN c = DOMAIN e
    BY <1>1, <1>3 DEF HostConns, Connection
  <1>5. "makingOffer" \in DOMAIN e
    BY <1>1 DEF HostConns, Connection
  <1>. HIDE DEF k
  <1>6. /\ k.open /\ k.remote = c.remote /\ k.chain = c.chain /\ k.got = c.got
        /\ k.pendingCandidates = c.pendingCandidates /\ ~k.makingOffer
        /\ k.remoteDescriptionSet = c.remoteDescriptionSet /\ k.gather = c.gather
    BY <1>4, <1>5 DEF k
  <1>7. /\ k.open /\ k.remote = h.remote /\ k.chain = Tail(h.chain) /\ ~k.makingOffer
        /\ k.got = h.got /\ k.pendingCandidates = h.pendingCandidates
        /\ k.remoteDescriptionSet = h.remoteDescriptionSet
        /\ c.local = offer /\ k.gather = g
    BY <1>1, <1>4, <1>6 DEF Same, SameState, Rest
  <1>. QED
    BY <1>7 DEF k, c, e, offer, g

LEMMA ViewerLocal ==
  ASSUME NEW v \in ViewerConns, v.chain # <<>>, v.signalingState = "have-remote-offer",
         v.remote # None
  PROVE  LET k == setLocalDescription("viewer", [v EXCEPT !.chain = Tail(@)])
         IN /\ k.open /\ k.remote = v.remote /\ k.chain = Tail(v.chain)
            /\ k.got = v.got /\ k.pendingCandidates = v.pendingCandidates
            /\ k.remoteDescriptionSet = v.remoteDescriptionSet
            /\ k.local.age = v.remote.age
            /\ k.gather = IF v.local = None \/ v.local.age # v.remote.age
                          THEN "due" ELSE v.gather
  <1>. DEFINE e == [v EXCEPT !.chain = Tail(@)]
              k == setLocalDescription("viewer", e)
              answer == [type |-> "answer", age |-> v.remote.age, level |-> v.remote.level]
              g == IF v.local = None \/ v.local.age # v.remote.age THEN "due" ELSE v.gather
  <1>1. e \in ViewerConns /\ Same(v, e) /\ e.chain = Tail(v.chain)
    BY ViewerTook, TookSame DEF Conns
  <1>. HIDE DEF e
  <1>2. /\ e.signalingState = "have-remote-offer" /\ e.remote = v.remote /\ e.local = v.local
        /\ e.gather = v.gather
    BY <1>1 DEF Same, SameState, Rest
  <1>3. k = [e EXCEPT !.local = answer, !.signalingState = "stable",
                      !.agreed = v.remote.level, !.fired = FALSE, !.gather = g]
    BY <1>2 DEF setLocalDescription
  <1>. HIDE DEF k, g
  <1>4. /\ k.open /\ k.remote = e.remote /\ k.chain = e.chain /\ k.got = e.got
        /\ k.pendingCandidates = e.pendingCandidates
        /\ k.remoteDescriptionSet = e.remoteDescriptionSet
        /\ k.local = answer /\ k.gather = g
    BY <1>1, <1>3 DEF ViewerConns, Connection
  <1>5. /\ k.open /\ k.remote = v.remote /\ k.chain = Tail(v.chain)
        /\ k.got = v.got /\ k.pendingCandidates = v.pendingCandidates
        /\ k.remoteDescriptionSet = v.remoteDescriptionSet
        /\ k.local.age = v.remote.age /\ k.gather = g
    BY <1>1, <1>4 DEF Same, SameState, Rest
  <1>. QED
    BY <1>5 DEF k, e, g

\* The host's steps.
LEMMA HostAsksKeeping ==
  ASSUME NEW h \in HostConns, NEW v, NEW x, NEW y, Exchange(h, v, x, y), Candidates(h, v, x, y),
         h.chain = <<>>, h.signalingState = "stable", h.want > h.agreed
  PROVE  Candidates(negotiate([h EXCEPT !.fired = TRUE]), v, x, y)
  <1>. DEFINE f  == [h EXCEPT !.fired = TRUE, !.makingOffer = TRUE]
              op == <<"offer">>
              k  == Then(f, op)
  <1>1. ~h.makingOffer /\ h.open
    BY EmptyQueue, OpenConns DEF Exchange, HostKeeps
  <1>2. negotiate([h EXCEPT !.fired = TRUE]) = k
    BY <1>1 DEF negotiate, HostConns, Connection
  <1>3. /\ f \in HostConns /\ f.local = h.local /\ f.remote = h.remote /\ f.chain = h.chain
        /\ f.open /\ Rest(h, f)
    BY DEF HostConns, Connection, Rest
  <1>. HIDE DEF f
  <1>4. Same(f, k) /\ k.chain = Append(h.chain, op)
    BY <1>3, ThenSame DEF Conns
  <1>. HIDE DEF k
  <1>5. /\ k.open /\ k.local = h.local /\ k.remote = h.remote /\ Rest(h, k)
    BY <1>3, <1>4 DEF Same, SameState, Rest
  <1>6. h.local # None => h.remote.age = "present"
    BY <1>1, OpenConns DEF Exchange, HostKeeps
  <1>7. op \in HostOps /\ op \notin Answered
    BY HostOpFacts, HostOpKinds DEF Asking
  <1>. HIDE DEF op
  <1>8. /\ ~Has(k.chain, Answered)
        /\ ChainCarries(h.chain, k.chain, Answered)
    <2>1. ~Has(<<>>, Answered)
      BY EmptyQueue
    <2>2. h.chain \in Seq(HostOps) /\ ~Has(h.chain, Answered)
      BY <2>1, OpenConns
    <2>3. Has(Append(h.chain, op), Answered) <=> Has(h.chain, Answered) \/ op \in Answered
      BY <1>7, <2>2, AppendHas
    <2>4. ChainCarries(h.chain, Append(h.chain, op), Answered)
      BY <1>7, <2>2, CarriesAppend
    <2>. QED
      BY <1>4, <1>7, <2>2, <2>3, <2>4
  <1>9. Emptied(k) /\ OffersAgain(k) /\ Taken(k, v, y) /\ (SentBy(k) <=> SentBy(h))
    BY <1>1, <1>5, <1>6, <1>8 DEF Candidates, Emptied, OffersAgain, Taken, SentBy, Rest
  <1>10. AnswersOnce(k, v, x)
    BY <1>1, <1>5, <1>6 DEF Candidates, AnswersOnce
  <1>11. SentBy(v) => Reaches(k, y, FreshAnswers, Answered)
    BY <1>1, <1>5, <1>8, ReachesAside DEF Candidates, Rest
  <1>12. Candidates(k, v, x, y)
    BY <1>9, <1>10, <1>11 DEF Candidates
  <1>. QED
    BY <1>2, <1>12

LEMMA HostOffersKeeping ==
  ASSUME NEW h \in HostConns, NEW v, NEW x, NEW y, Exchange(h, v, x, y), Candidates(h, v, x, y),
         h.chain # <<>>, Head(h.chain) = <<"offer">>
  PROVE  LET c == setLocalDescription("host", [h EXCEPT !.chain = Tail(@)])
             k == [c EXCEPT !.makingOffer = FALSE]
         IN Candidates(k, v, x \o <<[type |-> "offer", body |-> c.local]>>, y)
  <1>. DEFINE c == setLocalDescription("host", [h EXCEPT !.chain = Tail(@)])
              k == [c EXCEPT !.makingOffer = FALSE]
              m == [type |-> "offer", body |-> c.local]
  <1>1. /\ k.open /\ k.remote = h.remote /\ k.chain = Tail(h.chain) /\ ~k.makingOffer
        /\ k.got = h.got /\ k.pendingCandidates = h.pendingCandidates
        /\ k.remoteDescriptionSet = h.remoteDescriptionSet
        /\ c.local = [type |-> "offer", age |-> "present", level |-> h.want]
        /\ k.gather = IF h.local = None THEN "due" ELSE h.gather
    BY HostLocal
  <1>. HIDE DEF k
  <1>2. /\ h.chain \in Seq(HostOps) /\ h.open /\ x \in Seq(ToViewer) /\ h.want \in {1, 2}
        /\ h.local # None => h.local.age = "present"
    BY OpenConns DEF Exchange, Typed
  <1>3. m \in ToViewer
    <2>1. c.local \in AnOffer /\ c.local.age = "present"
      BY <1>1, <1>2 DEF AnOffer, Ages, Levels
    <2>. HIDE DEF c
    <2>. QED
      BY <2>1, FrameFacts
  <1>. HIDE DEF c, m
  <1>4. h.makingOffer
    <2>1. Head(h.chain) \in Asking
      BY HostOpFacts
    <2>2. Has(h.chain, Asking)
      BY <1>2, <2>1, TailHas
    <2>. QED
      BY <1>2, <2>2 DEF Exchange, HostKeeps
  <1>5. /\ ChainCarries(h.chain, k.chain, Answered)
        /\ Has(k.chain, Answered) => Has(h.chain, Answered)
    <2>1. Head(h.chain) \notin Carrying
      <3>1. Head(h.chain)[1] # "candidates" /\ Head(h.chain) \in HostOps
        BY <1>2, TailShape
      <3>. QED
        BY <3>1, CarryingFacts
    <2>. QED
      BY <1>1, <1>2, <2>1, CarriesTail DEF ChainCarries
  <1>6. h.local # None => h.remote.age = "present" /\ v.open /\ v.remote.age = "present"
    BY <1>2, <1>4 DEF Candidates, OffersAgain, Taken
  <1>7. Emptied(k) /\ OffersAgain(k) /\ Taken(k, v, y)
    BY <1>1, <1>2, <1>5 DEF Candidates, Emptied, OffersAgain, Taken
  <1>8. AnswersOnce(k, v, Append(x, m))
    BY <1>1, <1>2, <1>4 DEF Candidates, AnswersOnce
  <1>9. SentBy(k) => Reaches(v, Append(x, m), OfferFrames, Offered)
    <2>. SUFFICES ASSUME SentBy(k) PROVE Reaches(v, Append(x, m), OfferFrames, Offered)
      OBVIOUS
    <2>1. h.local # None /\ h.gather = "sent"
      BY <1>1 DEF SentBy
    <2>2. Reaches(v, x, OfferFrames, Offered)
      BY <1>2, <2>1 DEF Candidates, SentBy
    <2>. QED
      BY <1>2, <1>3, <1>6, <2>1, <2>2, ReachesSent
  <1>10. SentBy(v) => Reaches(k, y, FreshAnswers, Answered)
    BY <1>1, <1>2, <1>5, ReachesAside DEF Candidates
  <1>11. x \o <<m>> = Append(x, m)
    BY <1>2, <1>3, WireSent
  <1>12. Candidates(k, v, x \o <<m>>, y)
    BY <1>7, <1>8, <1>9, <1>10, <1>11 DEF Candidates
  <1>. QED
    BY <1>12 DEF k, m, c

LEMMA HostHearsKeeping ==
  ASSUME NEW h \in HostConns, NEW v, NEW x, NEW y, Exchange(h, v, x, y), Candidates(h, v, x, y),
         y # <<>>, Head(y) \in FreshAnswers \cup StaleAnswers
  PROVE  Candidates(handleDescription("host", h, Head(y).body), v, x, Tail(y))
  <1>. DEFINE d  == Head(y).body
              op == <<"remote", d>>
              k  == Then(h, op)
  <1>1. /\ y \in Seq(ToHost) /\ d \in AnAnswer
        /\ Head(y) \in FreshAnswers <=> d.age = "present"
    <2>1. Head(y) \in ToHost /\ y \in Seq(ToHost)
      BY TailShape DEF Exchange, Typed
    <2>. QED
      BY <2>1, FrameKinds
  <1>2. op \in HostOps /\ (op \in Answered <=> d.age = "present")
    BY <1>1, HostOpFacts
  <1>3. handleDescription("host", h, d) = k
    BY <1>1, Descriptions DEF handleDescription, offerCollision
  <1>4. Same(h, k) /\ k.chain = Append(h.chain, op)
    BY ThenSame DEF Conns
  <1>5. h.chain \in Seq(HostOps)
    BY OpenConns
  <1>6. Head(y) \notin PresentIce
    BY IceFacts
  <1>. HIDE DEF k, op, d
  <1>7. /\ k.open = h.open /\ k.remote = h.remote /\ k.got = h.got
        /\ k.pendingCandidates = h.pendingCandidates
    BY <1>4 DEF Same, SameState, Rest
  <1>8. Reaches(h, y, FreshAnswers, Answered) => Reaches(k, Tail(y), FreshAnswers, Answered)
    BY <1>1, <1>2, <1>4, <1>5, <1>6, <1>7, ReachesHears
  <1>9. /\ Has(k.chain, Answered) <=> Has(h.chain, Answered) \/ op \in Answered
        /\ Has(y, FreshAnswers) <=> Head(y) \in FreshAnswers \/ Has(Tail(y), FreshAnswers)
    BY <1>1, <1>2, <1>4, <1>5, AppendHas, TailHas
  <1>10. Emptied(k)
    BY <1>4 DEF Candidates, Emptied, Same, SameState, Rest
  <1>11. SameState(h, k) /\ k.gather = h.gather
    BY <1>4 DEF Same, Rest
  <1>12. Candidates(k, v, x, Tail(y))
    BY <1>1, <1>2, <1>8, <1>9, <1>10, <1>11, HostBeside
  <1>. QED
    BY <1>3, <1>12 DEF d

LEMMA HostSetsKeeping ==
  ASSUME NEW h \in HostConns, NEW v, NEW x, NEW y, Exchange(h, v, x, y), Candidates(h, v, x, y),
         h.chain # <<>>, Head(h.chain)[1] = "remote", Applicable(h, Head(h.chain)[2])
  PROVE  LET d == Head(h.chain)[2]
         IN Candidates(drain(setRemoteDescription([h EXCEPT !.chain = Tail(@)], d), d), v, x, y)
  <1>. DEFINE d == Head(h.chain)[2]
              e == [h EXCEPT !.chain = Tail(@)]
              s == setRemoteDescription(e, d)
              k == drain(s, d)
  <1>1. /\ h.chain \in Seq(HostOps) /\ Head(h.chain) \in HostOps /\ h.open
        /\ d \in AnAnswer /\ Head(h.chain) = <<"remote", d>>
        /\ Head(h.chain) \in Answered <=> d.age = "present"
        /\ Head(h.chain) \in Outdated <=> d.age # "present"
    <2>1. h.chain \in Seq(HostOps) /\ Head(h.chain) \in HostOps /\ h.open
      BY OpenConns, TailShape
    <2>. QED
      BY <2>1, HostOpKinds, HostOpFacts
  <1>2. h.signalingState = "have-local-offer" /\ ~h.makingOffer /\ h.local # None
        /\ h.local.level \in Levels
    <2>1. h.signalingState = "have-local-offer" /\ ~h.makingOffer /\ h.local # None
      BY <1>1, Descriptions DEF Applicable, Exchange, HostKeeps
    <2>. QED
      BY <2>1, OpenConns, Descriptions
  <1>3. s \in Conns
    <2>1. e \in HostConns /\ SameState(h, e)
      BY HostTook
    <2>2. d.type # "offer"
      BY <1>1, Descriptions
    <2>3. s = [e EXCEPT !.signalingState = "stable", !.remote = d,
                        !.agreed = e.local.level, !.fired = FALSE]
      BY <2>2 DEF setRemoteDescription
    <2>4. e.local.level \in Levels
      BY <1>2, <2>1 DEF SameState
    <2>. HIDE DEF e, d, s
    <2>. QED
      BY <1>1, <2>1, <2>3, <2>4 DEF Conns, HostConns, Connection
  <1>4. /\ d.age = "present" => Has(h.chain, Answered)
        /\ d.age # "present" => h.remote.age # "present"
    <2>1. d.age = "present" => Has(h.chain, Answered)
      BY <1>1, TailHas
    <2>2. d.age # "present" => Has(h.chain, Outdated)
      BY <1>1, TailHas
    <2>. QED
      BY <1>1, <2>1, <2>2 DEF Exchange, InOrder
  <1>. DEFINE b  == h.pendingCandidates
              op == <<"candidates", b, d>>
  <1>5. /\ k.open /\ k.remote = d /\ k.local = h.local /\ k.makingOffer = h.makingOffer
        /\ k.gather = h.gather /\ k.got = h.got /\ Emptied(k)
        /\ \/ k.chain = Tail(h.chain) /\ b = <<>>
           \/ k.chain = Append(Tail(h.chain), op) /\ b \in Batches
    <2>1. /\ s = setRemoteDescription(e, d) /\ d.type # "offer" /\ h \in Conns
          /\ Same(h, e) /\ e.chain = Tail(h.chain) /\ e \in Conns
      BY <1>1, HostTook, TookSame, Descriptions DEF Conns
    <2>. HIDE DEF d, s, e, op
    <2>2. /\ k.open /\ k.remote = d /\ k.local = h.local /\ k.makingOffer = h.makingOffer
          /\ k.gather = h.gather /\ k.got = h.got /\ Emptied(k)
          /\ \/ k.chain = Tail(h.chain) /\ b = <<>> /\ d.type # "offer"
             \/ k.chain = Append(Tail(h.chain), <<"answer">>) /\ b = <<>> /\ d.type = "offer"
             \/ k.chain = Append(Tail(h.chain), <<"candidates", b, d>>) /\ b \in Batches
      BY <1>3, <2>1, SetFields
    <2>. QED
      BY <2>1, <2>2 DEF op
  <1>6. b \in Batches => op \in HostOps /\ op \notin Answered
                         /\ (op \in Carrying <=> Has(b, PresentCands))
    BY <1>1, HostOpFacts, CarryingFacts
  <1>7. ~Has(<<>>, PresentCands)
    BY EmptyQueue
  <1>8. Head(h.chain) \notin Carrying
    <2>1. Head(h.chain)[1] # "candidates"
      BY <1>1
    <2>. QED
      BY <1>1, <2>1, CarryingFacts
  <1>. HIDE DEF k, s, e, d, op
  <1>9. Reaches(h, y, FreshAnswers, Answered) => Reaches(k, y, FreshAnswers, Answered)
    <2>. SUFFICES ASSUME Reaches(h, y, FreshAnswers, Answered)
                  PROVE  Reaches(k, y, FreshAnswers, Answered)
      OBVIOUS
    <2>1. /\ k.remote.age = "present" => Head(h.chain) \in Answered
          /\ k.remote.age # "present" => h.remote.age # "present"
          /\ h.open /\ k.open /\ k.got = h.got
      BY <1>1, <1>4, <1>5
    <2>2. CASE k.chain = Tail(h.chain) /\ b = <<>>
      BY <1>1, <1>7, <1>8, <2>1, <2>2, ReachesSets
    <2>3. CASE k.chain = Append(Tail(h.chain), op) /\ b \in Batches
      BY <1>1, <1>6, <1>8, <2>1, <2>3, ReachesSets
    <2>. QED
      BY <1>5, <2>2, <2>3
  <1>10. Has(k.chain, Answered) => Has(h.chain, Answered)
    <2>. DEFINE r == Tail(h.chain)
    <2>1. r \in Seq(HostOps) /\ (Has(r, Answered) => Has(h.chain, Answered))
      BY <1>1, TailShape, TailHas
    <2>. HIDE DEF r
    <2>2. op \in HostOps => (Has(Append(r, op), Answered) <=> Has(r, Answered) \/ op \in Answered)
      BY <2>1, AppendHas
    <2>. QED
      BY <1>5, <1>6, <2>1, <2>2 DEF r
  <1>11. Taken(k, v, y) /\ OffersAgain(k) /\ (SentBy(k) <=> SentBy(h)) /\ AnswersOnce(k, v, x)
    <2>1. Taken(k, v, y)
      BY <1>1, <1>4, <1>5, <1>10 DEF Candidates, Taken
    <2>2. OffersAgain(k) /\ (SentBy(k) <=> SentBy(h))
      BY <1>1, <1>2, <1>5 DEF OffersAgain, SentBy
    <2>3. AnswersOnce(k, v, x)
      BY <1>1, <1>4, <1>5 DEF Candidates, AnswersOnce, OneToken
    <2>. QED
      BY <2>1, <2>2, <2>3
  <1>12. Candidates(k, v, x, y)
    BY <1>1, <1>5, <1>9, <1>11 DEF Candidates
  <1>. QED
    BY <1>12 DEF k, s, e, d

LEMMA HostRefusesKeeping ==
  ASSUME NEW h \in HostConns, NEW v, NEW x, NEW y, Candidates(h, v, x, y),
         h.chain # <<>>, Head(h.chain)[1] = "remote"
  PROVE  Candidates([h EXCEPT !.chain = Tail(@)], v, x, y)
  <1>. DEFINE k == [h EXCEPT !.chain = Tail(@)]
  <1>1. Same(h, k) /\ k.chain = Tail(h.chain)
    BY TookSame DEF Conns
  <1>2. h.chain \in Seq(HostOps) /\ Head(h.chain) \in HostOps
    BY OpenConns, TailShape
  <1>3. Head(h.chain) \notin Carrying
    BY <1>2, CarryingFacts
  <1>. HIDE DEF k
  <1>4. ChainCarries(h.chain, k.chain, Answered)
    BY <1>1, <1>2, <1>3, CarriesTail
  <1>5. Has(k.chain, Answered) => Has(h.chain, Answered)
    BY <1>4 DEF ChainCarries
  <1>6. /\ SameState(h, k) /\ k.gather = h.gather /\ k.open = h.open /\ k.remote = h.remote
        /\ k.got = h.got /\ k.pendingCandidates = h.pendingCandidates /\ Emptied(k)
    BY <1>1 DEF Same, SameState, Rest, Candidates, Emptied
  <1>7. Reaches(h, y, FreshAnswers, Answered) => Reaches(k, y, FreshAnswers, Answered)
    BY <1>4, <1>6, ReachesAside
  <1>8. Candidates(k, v, x, y)
    BY <1>5, <1>6, <1>7, HostBeside
  <1>. QED
    BY <1>8 DEF k

LEMMA HostAddsKeeping ==
  ASSUME NEW h \in HostConns, NEW v, NEW x, NEW y, Candidates(h, v, x, y),
         h.chain # <<>>, Head(h.chain)[1] = "candidates"
  PROVE  LET op   == Head(h.chain)
             c    == addIceCandidate([h EXCEPT !.chain = Tail(@)], Head(op[2]))
             rest == Tail(op[2])
         IN Candidates(IF rest = <<>> THEN Answer(c, op[3])
                       ELSE Then(c, <<"candidates", rest, op[3]>>), v, x, y)
  <1>. DEFINE op == Head(h.chain)
              l  == op[2]
              d  == op[3]
              a  == addIceCandidate([h EXCEPT !.chain = Tail(@)], Head(l))
              k  == IF Tail(l) = <<>> THEN Answer(a, d) ELSE Then(a, <<"candidates", Tail(l), d>>)
  <1>1. h.chain \in Seq(HostOps) /\ op \in HostOps
    BY OpenConns, TailShape
  <1>2. l \in Batches /\ d \in {None} \cup AnAnswer /\ op = <<"candidates", l, d>>
    BY <1>1, HostOpKinds
  <1>3. /\ d.type # "offer" /\ h \in Conns /\ Emptied(h) /\ op \notin Answered
        /\ \A b \in Batches : /\ <<"candidates", b, d>> \in HostOps
                              /\ <<"candidates", b, d>> \notin Answered
    BY <1>2, HostOpFacts, Descriptions DEF Conns, Candidates
  <1>. HIDE DEF k
  <1>4. /\ SameState(h, k) /\ k.gather = h.gather /\ Emptied(k)
        /\ Reaches(h, y, FreshAnswers, Answered) => Reaches(k, y, FreshAnswers, Answered)
    BY <1>1, <1>2, <1>3, AddedReaches DEF k
  <1>5. HostAside(h, k)
    BY HostAddsCandidate DEF k
  <1>6. Has(k.chain, Answered) => Has(h.chain, Answered)
    BY <1>5 DEF HostAside, HostChainKept
  <1>7. Candidates(k, v, x, y)
    BY <1>4, <1>6, HostBeside
  <1>. QED
    BY <1>7 DEF k

LEMMA HostGathersKeeping ==
  ASSUME NEW h \in HostConns, NEW v, NEW x \in Seq(ToViewer), NEW y, Candidates(h, v, x, y)
  PROVE  Candidates([h EXCEPT !.gather = "sent"], v,
                    x \o <<[type |-> "ice", body |-> [age |-> h.local.age]]>>, y)
  <1>. DEFINE k == [h EXCEPT !.gather = "sent"]
              c == [age |-> h.local.age]
              m == [type |-> "ice", body |-> c]
  <1>1. /\ SameState(h, k) /\ k.chain = h.chain /\ k.got = h.got
        /\ k.pendingCandidates = h.pendingCandidates
        /\ k.remoteDescriptionSet = h.remoteDescriptionSet
    BY DEF SameState, HostConns, Connection
  <1>2. c \in Candidate
    BY HostGathers
  <1>3. m \in ToViewer /\ m \notin OfferFrames /\ (m \in PresentIce <=> h.local.age = "present")
    BY <1>2, FrameFacts, IceFacts
  <1>. HIDE DEF k, m
  <1>4. x \o <<m>> = Append(x, m) /\ (Has(Append(x, m), OfferFrames) <=> Has(x, OfferFrames))
    BY <1>3, WireSent, AppendHas
  <1>5. SentBy(k) => Reaches(v, Append(x, m), OfferFrames, Offered)
    <2>. SUFFICES ASSUME SentBy(k) PROVE Reaches(v, Append(x, m), OfferFrames, Offered)
      OBVIOUS
    <2>1. m \in PresentIce \ OfferFrames
      BY <1>1, <1>3 DEF SentBy, SameState
    <2>. QED
      BY <1>3, <2>1, ReachesSent
  <1>6. Emptied(k) /\ OffersAgain(k) /\ Taken(k, v, y)
    BY <1>1 DEF SameState, Candidates, Emptied, OffersAgain, Taken
  <1>7. AnswersOnce(k, v, Append(x, m))
    BY <1>1, <1>4 DEF SameState, Candidates, AnswersOnce
  <1>8. SentBy(v) => Reaches(k, y, FreshAnswers, Answered)
    BY <1>1, OpenConns DEF SameState, Candidates, Reaches
  <1>9. Candidates(k, v, x \o <<m>>, y)
    BY <1>1, <1>4, <1>5, <1>6, <1>7, <1>8 DEF Candidates, SameState
  <1>. QED
    BY <1>9 DEF k, m

LEMMA HostTakesKeeping ==
  ASSUME NEW h \in HostConns, NEW v, NEW x, NEW y \in Seq(ToHost), Candidates(h, v, x, y),
         y # <<>>, Head(y).type = "ice", Head(y).body \in Candidate
  PROVE  Candidates(handleCandidate(h, Head(y).body), v, x, Tail(y))
  <1>. DEFINE cand == Head(y).body
              op == <<"candidates", <<cand>>, None>>
              k == handleCandidate(h, cand)
  <1>1. Head(y) \in ToHost /\ Tail(y) \in Seq(ToHost)
    BY TailShape
  <1>2. Head(y) \in PresentIce <=> cand.age = "present"
    BY <1>1, IceFacts
  <1>3. op \in HostOps /\ op \notin Answered
    <2>1. <<cand>> \in Batches
      BY DEF Batches
    <2>. QED
      BY <2>1, HostOpFacts
  <1>4. h \in Conns /\ h.chain \in Seq(HostOps) /\ Emptied(h)
    BY OpenConns DEF Conns, Candidates
  <1>. HIDE DEF k, cand
  <1>5. /\ SameState(h, k) /\ k.gather = h.gather /\ Emptied(k)
        /\ Has(k.chain, Answered) => Has(h.chain, Answered)
    <2>1. /\ SameState(h, k) /\ k.gather = h.gather
          /\ k.chain = h.chain \/ k.chain = Append(h.chain, op)
      BY <1>4, CandidateTaken DEF k
    <2>2. Emptied(k)
      BY <1>4, CandidateEmptied DEF k
    <2>. HIDE DEF op
    <2>3. Has(Append(h.chain, op), Answered) => Has(h.chain, Answered)
      BY <1>3, <1>4, AppendHas
    <2>. QED
      BY <2>1, <2>2, <2>3
  <1>6. Reaches(h, y, FreshAnswers, Answered) => Reaches(k, Tail(y), FreshAnswers, Answered)
    BY <1>2, <1>3, <1>4, CandidateReaches DEF k, cand
  <1>7. Has(Tail(y), FreshAnswers) => Has(y, FreshAnswers)
    BY TailHas
  <1>8. Candidates(k, v, x, Tail(y))
    BY <1>5, <1>6, <1>7, HostBeside
  <1>. QED
    BY <1>8 DEF k, cand

\* The viewer's steps.
LEMMA ViewerHearsKeeping ==
  ASSUME NEW h, NEW v \in ViewerConns, NEW x, NEW y, Exchange(h, v, x, y),
         Candidates(h, v, x, y), x # <<>>, Head(x) \in OfferFrames
  PROVE  Candidates(h, handleDescription("viewer", v, Head(x).body), Tail(x), y)
  <1>. DEFINE d  == Head(x).body
              op == <<"remote", d>>
              k  == Then(v, op)
  <1>1. x \in Seq(ToViewer) /\ d \in AnOffer
    <2>1. Head(x) \in ToViewer /\ x \in Seq(ToViewer)
      BY TailShape DEF Exchange, Typed
    <2>. QED
      BY <2>1, FrameKinds
  <1>2. op \in ViewerOps
    BY <1>1, ViewerOpFacts
  <1>3. handleDescription("viewer", v, d) = k
    <2>1. v.signalingState = "stable" /\ ~v.makingOffer
      BY OfferMeetsNothing
    <2>. QED
      BY <2>1 DEF handleDescription, offerCollision
  <1>4. Same(v, k) /\ k.chain = Append(v.chain, op)
    BY ThenSame DEF Conns
  <1>5. v.chain \in Seq(ViewerOps)
    BY OpenConns
  <1>6. Head(x) \notin PresentIce
    BY IceFacts
  <1>. HIDE DEF k, op, d
  <1>7. /\ k.open = v.open /\ k.remote = v.remote /\ k.got = v.got
        /\ k.pendingCandidates = v.pendingCandidates
    BY <1>4 DEF Same, SameState, Rest
  <1>8. Reaches(v, x, OfferFrames, Offered) => Reaches(k, Tail(x), OfferFrames, Offered)
    BY <1>1, <1>2, <1>4, <1>5, <1>6, <1>7, ReachesHears
  <1>9. Has(x, OfferFrames)
    BY <1>1, TailHas
  <1>10. SameState(v, k) /\ k.gather = v.gather /\ Emptied(k)
    BY <1>4 DEF Candidates, Emptied, Same, SameState, Rest
  <1>11. Candidates(h, k, Tail(x), y)
    BY <1>8, <1>9, <1>10, ViewerBeside
  <1>. QED
    BY <1>3, <1>11 DEF d

LEMMA ViewerSetsKeeping ==
  ASSUME NEW h, NEW v \in ViewerConns, NEW x, NEW y, Exchange(h, v, x, y),
         Candidates(h, v, x, y), v.chain # <<>>, Head(v.chain)[1] = "remote"
  PROVE  LET d == Head(v.chain)[2]
         IN Candidates(h, drain(setRemoteDescription([v EXCEPT !.chain = Tail(@)], d), d), x, y)
  <1>. DEFINE d == Head(v.chain)[2]
              e == [v EXCEPT !.chain = Tail(@)]
              s == setRemoteDescription(e, d)
              k == drain(s, d)
              b == v.pendingCandidates
              op == <<"candidates", b, d>>
              an == <<"answer">>
  <1>1. /\ v.chain \in Seq(ViewerOps) /\ Head(v.chain) \in ViewerOps /\ v.open
        /\ d \in AnOffer /\ Head(v.chain) = <<"remote", d>> /\ d.type = "offer"
        /\ Head(v.chain) \in Bygone <=> d.age # "present"
        /\ Head(v.chain) \in Offered <=> d.age = "present"
        /\ Head(v.chain) \in Turns
    <2>1. v.chain \in Seq(ViewerOps) /\ Head(v.chain) \in ViewerOps /\ v.open
      BY OpenConns, TailShape
    <2>2. d \in AnOffer /\ Head(v.chain) = <<"remote", d>>
      BY <2>1, ViewerOpKinds
    <2>3. Head(v.chain) \in Offered <=> Head(v.chain)[1] = "remote" /\ Head(v.chain)[2].age = "present"
      BY <2>1, CarryingFacts
    <2>. QED
      BY <2>1, <2>2, <2>3, ViewerOpFacts, Descriptions
  <1>2. s \in Conns
    <2>1. e \in ViewerConns
      BY ViewerTook
    <2>2. s = [e EXCEPT !.signalingState = "have-remote-offer", !.remote = d]
      BY <1>1 DEF setRemoteDescription
    <2>. HIDE DEF e, d, s
    <2>. QED
      BY <1>1, <2>1, <2>2 DEF Conns, ViewerConns, Connection
  <1>3. h.open => d.age = "present"
    <2>1. Has(v.chain, Bygone) <=> Head(v.chain) \in Bygone \/ Has(Tail(v.chain), Bygone)
      BY <1>1, TailHas
    <2>. QED
      BY <1>1, <2>1 DEF Exchange, ViewerKeeps
  <1>4. Has(v.chain, Turns)
    BY <1>1, TailHas
  <1>5. /\ k.open /\ k.remote = d /\ k.local = v.local /\ k.makingOffer = v.makingOffer
        /\ k.gather = v.gather /\ k.got = v.got /\ Emptied(k)
        /\ \/ k.chain = Append(Tail(v.chain), an) /\ b = <<>>
           \/ k.chain = Append(Tail(v.chain), op) /\ b \in Batches
    <2>1. /\ s = setRemoteDescription(e, d) /\ v \in Conns
          /\ Same(v, e) /\ e.chain = Tail(v.chain) /\ e \in Conns
      BY <1>1, ViewerTook, TookSame DEF Conns
    <2>. HIDE DEF d, s, e, op
    <2>2. /\ k.open /\ k.remote = d /\ k.local = v.local /\ k.makingOffer = v.makingOffer
          /\ k.gather = v.gather /\ k.got = v.got /\ Emptied(k)
          /\ \/ k.chain = Tail(v.chain) /\ b = <<>> /\ d.type # "offer"
             \/ k.chain = Append(Tail(v.chain), <<"answer">>) /\ b = <<>> /\ d.type = "offer"
             \/ k.chain = Append(Tail(v.chain), <<"candidates", b, d>>) /\ b \in Batches
      BY <1>2, <2>1, SetFields
    <2>3. d.type = "offer"
      BY <1>1 DEF d
    <2>. QED
      BY <2>2, <2>3 DEF op
  <1>6. /\ b \in Batches => op \in ViewerOps /\ op \notin Offered
                            /\ (op \in Carrying <=> Has(b, PresentCands))
        /\ an \in ViewerOps /\ an \notin Offered
    <2>1. an \in ViewerOps /\ (b \in Batches => op \in ViewerOps)
      BY <1>1, ViewerOpFacts
    <2>2. \A o \in ViewerOps : o \in Offered => o[1] = "remote"
      BY CarryingFacts
    <2>3. b \in Batches => (op \in Carrying <=> Has(b, PresentCands))
      BY <1>1, CarryingFacts
    <2>. QED
      BY <2>1, <2>2, <2>3
  <1>7. ~Has(<<>>, PresentCands)
    BY EmptyQueue
  <1>8. Head(v.chain) \notin Carrying
    <2>1. Head(v.chain)[1] # "candidates"
      BY <1>1
    <2>. QED
      BY <1>1, <2>1, CarryingFacts
  <1>. HIDE DEF k, s, e, d, op, an
  <1>9. SentBy(h) => Reaches(k, x, OfferFrames, Offered)
    <2>. SUFFICES ASSUME SentBy(h) PROVE Reaches(k, x, OfferFrames, Offered)
      OBVIOUS
    <2>1. Reaches(v, x, OfferFrames, Offered)
      BY DEF Candidates
    <2>2. /\ k.remote.age = "present" => Head(v.chain) \in Offered
          /\ k.remote.age # "present" => v.remote.age # "present"
          /\ v.open /\ k.open /\ k.got = v.got
      BY <1>1, <1>3, <1>5 DEF SentBy
    <2>3. CASE k.chain = Append(Tail(v.chain), an) /\ b = <<>>
      BY <1>1, <1>6, <1>7, <1>8, <2>1, <2>2, <2>3, ReachesSets
    <2>4. CASE k.chain = Append(Tail(v.chain), op) /\ b \in Batches
      BY <1>1, <1>6, <1>8, <2>1, <2>2, <2>4, ReachesSets
    <2>. QED
      BY <1>5, <2>3, <2>4
  <1>10. Taken(h, k, y) /\ AnswersOnce(h, k, x) /\ (SentBy(k) <=> SentBy(v))
    <2>1. Taken(h, k, y)
      BY <1>3, <1>5 DEF Taken
    <2>2. AnswersOnce(h, k, x)
      BY <1>1, <1>4, <1>5 DEF Candidates, AnswersOnce
    <2>3. SentBy(k) <=> SentBy(v)
      BY <1>1, <1>5 DEF SentBy
    <2>. QED
      BY <2>1, <2>2, <2>3
  <1>11. Candidates(h, k, x, y)
    BY <1>5, <1>9, <1>10 DEF Candidates
  <1>. QED
    BY <1>11 DEF k, s, e, d

LEMMA ViewerRefusesKeeping ==
  ASSUME NEW h, NEW v \in ViewerConns, NEW x, NEW y, Candidates(h, v, x, y),
         v.chain # <<>>, Head(v.chain)[1] = "remote"
  PROVE  Candidates(h, [v EXCEPT !.chain = Tail(@)], x, y)
  <1>. DEFINE k == [v EXCEPT !.chain = Tail(@)]
  <1>1. Same(v, k) /\ k.chain = Tail(v.chain)
    BY TookSame DEF Conns
  <1>2. v.chain \in Seq(ViewerOps) /\ Head(v.chain) \in ViewerOps
    BY OpenConns, TailShape
  <1>3. Head(v.chain) \notin Carrying
    BY <1>2, CarryingFacts
  <1>. HIDE DEF k
  <1>4. ChainCarries(v.chain, k.chain, Offered)
    BY <1>1, <1>2, <1>3, CarriesTail
  <1>5. Has(k.chain, Turns) => Has(v.chain, Turns)
    BY <1>1, <1>2, TailHas
  <1>6. /\ SameState(v, k) /\ k.gather = v.gather /\ k.open = v.open /\ k.remote = v.remote
        /\ k.got = v.got /\ k.pendingCandidates = v.pendingCandidates /\ Emptied(k)
    BY <1>1 DEF Same, SameState, Rest, Candidates, Emptied
  <1>7. Reaches(v, x, OfferFrames, Offered) => Reaches(k, x, OfferFrames, Offered)
    BY <1>4, <1>6, ReachesAside
  <1>8. Candidates(h, k, x, y)
    BY <1>5, <1>6, <1>7, ViewerBeside
  <1>. QED
    BY <1>8 DEF k

LEMMA ViewerAddsKeeping ==
  ASSUME NEW h, NEW v \in ViewerConns, NEW x, NEW y, Candidates(h, v, x, y),
         v.chain # <<>>, Head(v.chain)[1] = "candidates", Once(v.chain, Turns)
  PROVE  LET op   == Head(v.chain)
             c    == addIceCandidate([v EXCEPT !.chain = Tail(@)], Head(op[2]))
             rest == Tail(op[2])
         IN Candidates(h, IF rest = <<>> THEN Answer(c, op[3])
                          ELSE Then(c, <<"candidates", rest, op[3]>>), x, y)
  <1>. DEFINE op == Head(v.chain)
              l  == op[2]
              d  == op[3]
              a  == addIceCandidate([v EXCEPT !.chain = Tail(@)], Head(l))
              k  == IF Tail(l) = <<>> THEN Answer(a, d) ELSE Then(a, <<"candidates", Tail(l), d>>)
  <1>1. v.chain \in Seq(ViewerOps) /\ op \in ViewerOps
    BY OpenConns, TailShape
  <1>2. l \in Batches /\ d \in {None} \cup AnOffer /\ op = <<"candidates", l, d>>
    BY <1>1, ViewerOpKinds
  <1>3. /\ v \in Conns /\ Emptied(v)
        /\ <<"answer">> \in ViewerOps /\ <<"answer">> \notin Offered
        /\ \A b \in Batches : /\ <<"candidates", b, d>> \in ViewerOps
                              /\ <<"candidates", b, d>> \notin Offered
    <2>1. \A o \in ViewerOps : o \in Offered => o[1] = "remote"
      BY CarryingFacts
    <2>2. <<"answer">> \in ViewerOps /\ \A b \in Batches : <<"candidates", b, d>> \in ViewerOps
      BY <1>2, ViewerOpFacts
    <2>. QED
      BY <2>1, <2>2 DEF Conns, Candidates
  <1>. HIDE DEF k
  <1>4. /\ SameState(v, k) /\ k.gather = v.gather /\ Emptied(k)
        /\ Reaches(v, x, OfferFrames, Offered) => Reaches(k, x, OfferFrames, Offered)
    BY <1>1, <1>2, <1>3, AddedReaches DEF k
  <1>5. ViewerAside(v, k)
    BY ViewerAddsCandidate DEF k
  <1>6. Has(k.chain, Turns) => Has(v.chain, Turns)
    BY <1>5 DEF ViewerAside, ViewerChainKept
  <1>7. Candidates(h, k, x, y)
    BY <1>4, <1>6, ViewerBeside
  <1>. QED
    BY <1>7 DEF k

LEMMA ViewerGathersKeeping ==
  ASSUME NEW h, NEW v \in ViewerConns, NEW x, NEW y \in Seq(ToHost), Candidates(h, v, x, y)
  PROVE  LET k == [v EXCEPT !.gather = "sent"]
         IN /\ Emptied(k)
            /\ Candidates(h, k, x, y \o <<[type |-> "ice", body |-> [age |-> v.local.age]]>>)
  <1>. DEFINE k == [v EXCEPT !.gather = "sent"]
              c == [age |-> v.local.age]
              m == [type |-> "ice", body |-> c]
  <1>1. /\ SameState(v, k) /\ k.chain = v.chain /\ k.got = v.got
        /\ k.pendingCandidates = v.pendingCandidates
        /\ k.remoteDescriptionSet = v.remoteDescriptionSet
    BY DEF SameState, ViewerConns, Connection
  <1>2. c \in Candidate
    BY ViewerGathers
  <1>3. m \in ToHost /\ m \notin FreshAnswers /\ (m \in PresentIce <=> v.local.age = "present")
    BY <1>2, FrameFacts, IceFacts
  <1>. HIDE DEF k, m
  <1>4. y \o <<m>> = Append(y, m) /\ (Has(Append(y, m), FreshAnswers) <=> Has(y, FreshAnswers))
    BY <1>3, WireSent, AppendHas
  <1>5. SentBy(k) => Reaches(h, Append(y, m), FreshAnswers, Answered)
    <2>. SUFFICES ASSUME SentBy(k) PROVE Reaches(h, Append(y, m), FreshAnswers, Answered)
      OBVIOUS
    <2>1. m \in PresentIce \ FreshAnswers
      BY <1>1, <1>3 DEF SentBy, SameState
    <2>. QED
      BY <1>3, <2>1, ReachesSent
  <1>6. Emptied(k) /\ Taken(h, k, Append(y, m))
    BY <1>1, <1>4 DEF SameState, Candidates, Emptied, Taken
  <1>7. AnswersOnce(h, k, x)
    BY <1>1 DEF SameState, Candidates, AnswersOnce
  <1>8. SentBy(h) => Reaches(k, x, OfferFrames, Offered)
    BY <1>1 DEF SameState, Candidates, Reaches
  <1>9. Candidates(h, k, x, y \o <<m>>)
    BY <1>4, <1>5, <1>6, <1>7, <1>8 DEF Candidates
  <1>. QED
    BY <1>6, <1>9 DEF k, m

LEMMA ViewerTakesKeeping ==
  ASSUME NEW h, NEW v \in ViewerConns, NEW x \in Seq(ToViewer), NEW y, Candidates(h, v, x, y),
         x # <<>>, Head(x).type = "ice", Head(x).body \in Candidate
  PROVE  Candidates(h, handleCandidate(v, Head(x).body), Tail(x), y)
  <1>. DEFINE cand == Head(x).body
              op == <<"candidates", <<cand>>, None>>
              k == handleCandidate(v, cand)
  <1>1. Head(x) \in ToViewer /\ Tail(x) \in Seq(ToViewer)
    BY TailShape
  <1>2. Head(x) \in PresentIce <=> cand.age = "present"
    BY <1>1, IceFacts
  <1>3. op \in ViewerOps /\ op \notin Offered /\ op \notin Turns
    <2>1. <<cand>> \in Batches
      BY DEF Batches
    <2>2. op \in ViewerOps /\ op \notin Turns
      BY <2>1, ViewerOpFacts, Descriptions
    <2>. QED
      BY <2>2, CarryingFacts
  <1>4. v \in Conns /\ v.chain \in Seq(ViewerOps) /\ Emptied(v)
    BY OpenConns DEF Conns, Candidates
  <1>. HIDE DEF k, cand
  <1>5. /\ SameState(v, k) /\ k.gather = v.gather /\ Emptied(k)
        /\ Has(k.chain, Turns) => Has(v.chain, Turns)
    <2>1. /\ SameState(v, k) /\ k.gather = v.gather
          /\ k.chain = v.chain \/ k.chain = Append(v.chain, op)
      BY <1>4, CandidateTaken DEF k
    <2>2. Emptied(k)
      BY <1>4, CandidateEmptied DEF k
    <2>. HIDE DEF op
    <2>3. Has(Append(v.chain, op), Turns) => Has(v.chain, Turns)
      BY <1>3, <1>4, AppendHas
    <2>. QED
      BY <2>1, <2>2, <2>3
  <1>6. Reaches(v, x, OfferFrames, Offered) => Reaches(k, Tail(x), OfferFrames, Offered)
    BY <1>2, <1>3, <1>4, CandidateReaches DEF k, cand
  <1>7. Has(Tail(x), OfferFrames) => Has(x, OfferFrames)
    BY TailHas
  <1>8. Candidates(h, k, Tail(x), y)
    BY <1>5, <1>6, <1>7, ViewerBeside
  <1>. QED
    BY <1>8 DEF k, cand

\* A viewer without a connection: it makes one for an offer, and no other
\* frame is heard.
LEMMA FreshViewerKeeping ==
  ASSUME NEW h, NEW v, NEW x, NEW y, Candidates(h, v, x, y), ~v.open
  PROVE  Candidates(h, ViewerConn, x, y)
  <1>. DEFINE k == ViewerConn
  <1>1. /\ k.open /\ k.local = None /\ k.remote = None /\ k.chain = <<>>
        /\ k.pendingCandidates = <<>> /\ ~k.remoteDescriptionSet
    BY DEF ViewerConn, Conn
  <1>2. None.age # "present" /\ ~Has(<<>>, Offered)
    BY Descriptions, EmptyQueue
  <1>. HIDE DEF k
  <1>3. /\ Emptied(k) /\ Taken(h, k, y) /\ AnswersOnce(h, k, x) /\ ~SentBy(k)
    BY <1>1, <1>2 DEF Candidates, Emptied, Taken, AnswersOnce, SentBy
  <1>4. Reaches(v, x, OfferFrames, Offered) => Reaches(k, x, OfferFrames, Offered)
    BY <1>1, <1>2 DEF Reaches
  <1>5. Candidates(h, k, x, y)
    BY <1>3, <1>4 DEF Candidates
  <1>. QED
    BY <1>5 DEF k

LEMMA NobodyHears ==
  ASSUME NEW h, NEW v, NEW x \in Seq(ToViewer), NEW y, Candidates(h, v, x, y), ~v.open, x # <<>>
  PROVE  Candidates(h, v, Tail(x), y)
  <1>1. Reaches(v, x, OfferFrames, Offered) => Reaches(v, Tail(x), OfferFrames, Offered)
    BY ReachesNobody
  <1>2. AnswersOnce(h, v, Tail(x))
    BY DEF AnswersOnce
  <1>. QED
    BY <1>1, <1>2 DEF Candidates

LEMMA ViewerAnswersKeeping ==
  ASSUME NEW h, NEW v \in ViewerConns, NEW x, NEW y, Exchange(h, v, x, y),
         h.open => h \in HostConns,
         Candidates(h, v, x, y), v.chain # <<>>, Head(v.chain) = <<"answer">>
  PROVE  LET k == setLocalDescription("viewer", [v EXCEPT !.chain = Tail(@)])
             m == [type |-> "answer", body |-> k.local]
         IN /\ Emptied(k)
            /\ Candidates(h, k, x, y \o <<m>>)
  <1>. DEFINE k == setLocalDescription("viewer", [v EXCEPT !.chain = Tail(@)])
              m == [type |-> "answer", body |-> k.local]
  <1>1. /\ v.open /\ v.chain \in Seq(ViewerOps) /\ y \in Seq(ToHost)
        /\ Head(v.chain) \in Past /\ Head(v.chain) \in Turns /\ Head(v.chain) \notin Carrying
    <2>1. /\ v.open /\ v.chain \in Seq(ViewerOps) /\ y \in Seq(ToHost)
          /\ Head(v.chain) \in Past /\ Head(v.chain) \in Turns /\ Head(v.chain) \in ViewerOps
      BY OpenConns, ViewerOpFacts DEF Exchange, Typed
    <2>. QED
      BY <2>1, CarryingFacts
  <1>2. /\ v.signalingState = "have-remote-offer" /\ v.remote # None
        /\ h.open => v.remote.age = "present"
        /\ Has(v.chain, Turns)
    <2>1. Has(v.chain, Past) /\ Has(v.chain, Turns)
      BY <1>1, TailHas
    <2>. QED
      BY <1>1, <2>1 DEF Exchange, ViewerKeeps
  <1>3. /\ k.open /\ k.remote = v.remote /\ k.chain = Tail(v.chain)
        /\ k.got = v.got /\ k.pendingCandidates = v.pendingCandidates
        /\ k.remoteDescriptionSet = v.remoteDescriptionSet
        /\ k.local.age = v.remote.age
        /\ k.gather = IF v.local = None \/ v.local.age # v.remote.age
                      THEN "due" ELSE v.gather
    BY <1>2, ViewerLocal
  <1>4. m \in ToHost
    BY ViewerMakesAnswer
  <1>. HIDE DEF k, m
  <1>5. Emptied(k)
    BY <1>1, <1>3 DEF Candidates, Emptied
  <1>6. ASSUME h.open PROVE Candidates(h, k, x, Append(y, m))
    <2>1. Taken(h, k, Append(y, m))
      BY <1>2, <1>3, <1>6 DEF Taken
    <2>2. ~Has(k.chain, Turns) /\ ~Has(x, OfferFrames) /\ ~AtHost(h)
      <3>1. Once(v.chain, Turns) /\ ~ToTheViewer(x) /\ ~AtHost(h)
        BY <1>1, <1>2 DEF Exchange, OneToken, AtViewer
      <3>. QED
        BY <1>1, <1>3, <3>1, TailHas DEF ToTheViewer
    <2>3. ~h.makingOffer
      BY <1>6, <2>2 DEF Exchange, HostKeeps, AtHost, Has
    <2>4. h.remote.age # "present" => h.local # None
      <3>1. h.signalingState \in {"stable", "have-local-offer"}
        BY <1>6, OpenConns
      <3>2. ~Nowhere(h, v, x, y)
        BY <1>1, <1>2 DEF Nowhere, AtViewer
      <3>. QED
        BY <1>6, <2>3, <3>1, <3>2 DEF Exchange, HostWaits, HostKeeps
    <2>5. AnswersOnce(h, k, x)
      BY <2>2, <2>3, <2>4 DEF AnswersOnce
    <2>6. SentBy(h) => Reaches(k, x, OfferFrames, Offered)
      <3>1. ChainCarries(v.chain, k.chain, Offered)
        BY <1>1, <1>3, CarriesTail
      <3>. QED
        BY <1>1, <1>3, <3>1, ReachesAside DEF Candidates
    <2>7. SentBy(k) => Reaches(h, Append(y, m), FreshAnswers, Answered)
      <3>. SUFFICES ASSUME SentBy(k) PROVE Reaches(h, Append(y, m), FreshAnswers, Answered)
        OBVIOUS
      <3>1. v.local.age = "present" /\ v.gather = "sent"
        BY <1>2, <1>3, <1>6 DEF SentBy
      <3>2. h.remote.age = "present"
        BY <1>1, <1>2, <1>6, <3>1 DEF Candidates, AnswersOnce
      <3>3. Reaches(h, y, FreshAnswers, Answered)
        BY <1>1, <1>6, <3>1 DEF Candidates, SentBy
      <3>. QED
        BY <1>1, <1>4, <1>6, <3>2, <3>3, ReachesSent
    <2>. QED
      BY <1>5, <2>1, <2>5, <2>6, <2>7 DEF Candidates
  <1>7. ~h.open => Candidates(h, k, x, Append(y, m))
    BY <1>5, NobodySends
  <1>8. Candidates(h, k, x, y \o <<m>>)
    BY <1>1, <1>4, <1>6, <1>7, WireSent
  <1>. QED
    BY <1>5, <1>8 DEF k, m

----------------------------------------------------------------------------
(* The negotiation keeps the exchange, and the candidates *)

PeersOK == /\ DOMAIN pc = End /\ DOMAIN wire = End
           /\ Exchange(pc["host"], pc["viewer"], wire["viewer"], wire["host"])
           /\ Candidates(pc["host"], pc["viewer"], wire["viewer"], wire["host"])
           /\ outbox \in Seq(ToHost)

\* The host has a connection only to a viewer that is in the room, and the
\* channel is open only to one that took its answer.
LinkOK == /\ pc["host"].open => client = "joined"
          /\ client = "joined" => line = "room"
          /\ link \in {"offered", "up"} => client = "joined" /\ pc["host"].open
          /\ ~pc["host"].open => wire["viewer"] = <<>>
          /\ pc["host"].open /\ gate # "closed" => pc["host"].remote.age = "present"

NegotiationInv == PeersOK /\ LinkOK

\* What a step of the Peers leaves true, and to the session.
Beneath ==
  /\ PeersOK'
  /\ line' = line
  /\ pc'["host"].open <=> pc["host"].open
  /\ pc["host"].open /\ pc["host"].remote.age = "present" => pc'["host"].remote.age = "present"
  /\ ~pc["host"].open => wire'["viewer"] = wire["viewer"]

LEMMA PcUpdated ==
  ASSUME DOMAIN pc = End, NEW k
  PROVE  /\ pc' = [pc EXCEPT !["host"] = k] =>
              pc'["host"] = k /\ pc'["viewer"] = pc["viewer"] /\ DOMAIN pc' = End
         /\ pc' = [pc EXCEPT !["viewer"] = k] =>
              pc'["viewer"] = k /\ pc'["host"] = pc["host"] /\ DOMAIN pc' = End
  BY DEF End

LEMMA WireUpdated ==
  ASSUME DOMAIN wire = End, NEW q
  PROVE  /\ wire' = [wire EXCEPT !["host"] = q] =>
              wire'["host"] = q /\ wire'["viewer"] = wire["viewer"] /\ DOMAIN wire' = End
         /\ wire' = [wire EXCEPT !["viewer"] = q] =>
              wire'["viewer"] = q /\ wire'["host"] = wire["host"] /\ DOMAIN wire' = End
  BY DEF End

LEMMA PeersNext ==
  ASSUME DOMAIN pc' = End, DOMAIN wire' = End, outbox' \in Seq(ToHost),
         Exchange(pc'["host"], pc'["viewer"], wire'["viewer"], wire'["host"]),
         Candidates(pc'["host"], pc'["viewer"], wire'["viewer"], wire'["host"])
  PROVE  PeersOK'
  BY DEF PeersOK

LEMMA OpenTyped ==
  ASSUME PeersOK
  PROVE  /\ pc["host"].open => pc["host"] \in HostConns
         /\ pc["viewer"].open => pc["viewer"] \in ViewerConns
         /\ wire["viewer"] \in Seq(ToViewer) /\ wire["host"] \in Seq(ToHost)
  BY OpenConns DEF PeersOK, Exchange, Typed

LEMMA NegotiationNeededKeeps ==
  ASSUME NegotiationInv, NEW e \in End, NegotiationNeeded(e)
  PROVE  Beneath
  <1>. DEFINE h == pc["host"]
              k == negotiate([h EXCEPT !.fired = TRUE])
  <1>1. /\ pc[e].open /\ pc[e].signalingState = "stable" /\ pc[e].chain = <<>>
        /\ pc[e].want > pc[e].agreed
        /\ UNCHANGED <<wire, outbox, line>>
    BY DEF NegotiationNeeded
  <1>2. PeersOK /\ DOMAIN pc = End
    BY DEF NegotiationInv, PeersOK
  <1>3. e = "host"
    <2>1. ASSUME e = "viewer" PROVE FALSE
      <3>1. pc["viewer"].want = 0 /\ pc["viewer"].agreed \in Levels
        BY <1>1, <1>2, <2>1, OpenTyped, OpenConns
      <3>. QED
        BY <1>1, <2>1, <3>1 DEF Levels
    <2>. QED
      BY <2>1 DEF End
  <1>4. pc' = [pc EXCEPT !["host"] = k]
    BY <1>2, <1>3 DEF NegotiationNeeded, End
  <1>5. h \in HostConns /\ Exchange(h, pc["viewer"], wire["viewer"], wire["host"])
        /\ Candidates(h, pc["viewer"], wire["viewer"], wire["host"])
    BY <1>1, <1>2, <1>3, OpenTyped DEF PeersOK
  <1>6. Exchange(k, pc["viewer"], wire["viewer"], wire["host"]) /\ k.open /\ k.remote = h.remote
    BY <1>1, <1>3, <1>5, HostAsks
  <1>7. Candidates(k, pc["viewer"], wire["viewer"], wire["host"])
    BY <1>1, <1>3, <1>5, HostAsksKeeping
  <1>. HIDE DEF k
  <1>8. pc'["host"] = k /\ pc'["viewer"] = pc["viewer"] /\ DOMAIN pc' = End
    BY <1>2, <1>4, PcUpdated
  <1>9. PeersOK'
    BY <1>1, <1>2, <1>6, <1>8, <1>7, PeersNext DEF PeersOK
  <1>. QED
    BY <1>1, <1>3, <1>6, <1>8, <1>9 DEF Beneath

LEMMA GatherKeeps ==
  ASSUME NegotiationInv, NEW e \in End, Gather(e)
  PROVE  Beneath
  <1>. DEFINE h == pc["host"]
              v == pc["viewer"]
              x == wire["viewer"]
              y == wire["host"]
              k == [pc[e] EXCEPT !.gather = "sent"]
              m == [type |-> "ice", body |-> [age |-> pc[e].local.age]]
  <1>1. PeersOK /\ DOMAIN pc = End /\ DOMAIN wire = End /\ outbox \in Seq(ToHost) /\ pc[e].open
        /\ Exchange(h, v, x, y) /\ Candidates(h, v, x, y)
        /\ x \in Seq(ToViewer) /\ y \in Seq(ToHost)
    BY OpenTyped DEF NegotiationInv, PeersOK, Gather
  <1>2. DOMAIN pc = End /\ DOMAIN wire = End
    BY <1>1
  <1>3. pc' = [pc EXCEPT ![e] = k] /\ Put(e, <<m>>) /\ line' = line
    BY DEF Gather
  <1>4. CASE e = "host"
    <2>1. h \in HostConns /\ h.open
      BY <1>1, <1>4, OpenTyped
    <2>2. HostAside(h, k) /\ [age |-> h.local.age] \in Candidate
      BY <1>4, <2>1, HostGathers
    <2>3. m \in ToViewer /\ m \notin OfferFrames
      BY <1>4, <2>2, FrameFacts
    <2>4. wire' = [wire EXCEPT !["viewer"] = x \o <<m>>] /\ outbox' = outbox
      BY <1>3, <1>4 DEF Put
    <2>5. ToViewerKept(x, x \o <<m>>)
      BY <1>1, <2>3, ToViewerIce
    <2>6. pc' = [pc EXCEPT !["host"] = k]
      BY <1>3, <1>4
    <2>7. Candidates(k, v, x \o <<m>>, y)
      BY <1>1, <1>4, <2>1, HostGathersKeeping
    <2>. HIDE DEF k, m
    <2>8. k.open /\ k.remote = h.remote
      BY <2>1, <2>2 DEF HostAside, SameState
    <2>9. pc'["host"] = k /\ pc'["viewer"] = v /\ DOMAIN pc' = End
      BY <1>2, <2>6, PcUpdated
    <2>10. wire'["viewer"] = x \o <<m>> /\ wire'["host"] = y /\ DOMAIN wire' = End
      BY <1>2, <2>4, WireUpdated
    <2>11. Exchange(k, v, x \o <<m>>, y)
      BY <1>1, <2>2, <2>5, Aside DEF ViewerAside
    <2>12. PeersOK'
      BY <1>1, <2>4, <2>9, <2>10, <2>11, <2>7, PeersNext
    <2>. QED
      BY <1>3, <2>1, <2>8, <2>9, <2>12 DEF Beneath
  <1>5. CASE e = "viewer"
    <2>1. v \in ViewerConns
      BY <1>1, <1>5, OpenTyped
    <2>2. ViewerAside(v, k) /\ [age |-> v.local.age] \in Candidate
      BY <1>5, <2>1, ViewerGathers
    <2>3. m \in ToHost /\ m \notin FreshAnswers \cup StaleAnswers
      BY <1>5, <2>2, FrameFacts
    <2>4. \/ /\ wire' = [wire EXCEPT !["host"] = y \o <<m>>]
             /\ outbox' = outbox
          \/ wire' = wire /\ (outbox' = outbox \/ outbox' = outbox \o <<m>>)
      BY <1>3, <1>5 DEF Put
    <2>5. ToHostKept(y, y \o <<m>>)
      BY <1>1, <2>3, ToHostIce
    <2>6. outbox \o <<m>> \in Seq(ToHost)
      BY <1>1, <2>3, WireSent, AppendShape
    <2>7. pc' = [pc EXCEPT !["viewer"] = k]
      BY <1>3, <1>5
    <2>8. Emptied(k) /\ Candidates(h, k, x, y \o <<m>>)
      BY <1>1, <1>5, <2>1, ViewerGathersKeeping
    <2>. HIDE DEF k, m
    <2>9. pc'["viewer"] = k /\ pc'["host"] = h /\ DOMAIN pc' = End
      BY <1>2, <2>7, PcUpdated
    <2>10. Exchange(h, k, x, y) /\ Exchange(h, k, x, y \o <<m>>)
      BY <1>1, <2>2, <2>5, Aside DEF HostAside
    <2>11. /\ wire'["viewer"] = x /\ DOMAIN wire' = End /\ outbox' \in Seq(ToHost)
           /\ (wire'["host"] = y /\ ~h.open) \/ wire'["host"] = y \o <<m>>
      <3>1. ASSUME wire' = [wire EXCEPT !["host"] = y \o <<m>>]
            PROVE  wire'["viewer"] = x /\ DOMAIN wire' = End /\ wire'["host"] = y \o <<m>>
        BY <1>2, <3>1, WireUpdated
      <3>2. h.open => wire' = [wire EXCEPT !["host"] = y \o <<m>>]
        BY <1>3, <1>5 DEF NegotiationInv, LinkOK, Put
      <3>. QED
        BY <1>1, <2>4, <2>6, <3>1, <3>2
    <2>12. Candidates(h, k, x, wire'["host"])
      BY <2>11, <2>8, NobodySends
    <2>13. PeersOK'
      BY <2>9, <2>10, <2>11, <2>12, PeersNext
    <2>. QED
      BY <1>3, <2>9, <2>11, <2>13 DEF Beneath
  <1>. QED
    BY <1>4, <1>5 DEF End

LEMMA ReceiveKeeps ==
  ASSUME NegotiationInv, NEW e \in End, Receive(e)
  PROVE  Beneath
  <1>. DEFINE h == pc["host"]
              v == pc["viewer"]
              x == wire["viewer"]
              y == wire["host"]
  <1>1. /\ PeersOK /\ DOMAIN pc = End /\ DOMAIN wire = End /\ outbox \in Seq(ToHost)
        /\ Exchange(h, v, x, y) /\ Candidates(h, v, x, y)
        /\ x \in Seq(ToViewer) /\ y \in Seq(ToHost)
        /\ ~h.open => x = <<>>
    BY OpenTyped DEF NegotiationInv, PeersOK, LinkOK
  <1>2. wire[e] # <<>> /\ wire' = [wire EXCEPT ![e] = Tail(wire[e])] /\ UNCHANGED <<outbox, line>>
    BY <1>1 DEF Receive, End
  <1>3. CASE e = "host"
    <2>. DEFINE m == Head(y)
                k == IF ~h.open THEN h
                     ELSE IF m.type = "ice" THEN handleCandidate(h, m.body)
                     ELSE handleDescription("host", h, m.body)
    <2>1. /\ \/ m.type = "ice" /\ m.body \in Candidate
             \/ m.type = "answer" /\ m \in FreshAnswers \cup StaleAnswers
      <3>1. m \in ToHost
        BY <1>1, <1>2, <1>3, TailShape
      <3>. QED
        BY <3>1, FrameKinds
    <2>2. pc' = [pc EXCEPT !["host"] = k]
      BY <1>3, <2>1 DEF Receive
    <2>3. ToHostKept(y, Tail(y))
      BY <1>1, <1>2, <1>3, ToHostTail
    <2>4. /\ Exchange(k, v, x, Tail(y)) /\ Candidates(k, v, x, Tail(y))
          /\ k.open <=> h.open
          /\ h.open /\ h.remote.age = "present" => k.remote.age = "present"
      <3>1. ASSUME ~h.open
            PROVE  k = h /\ Exchange(h, v, x, Tail(y)) /\ Candidates(h, v, x, Tail(y))
        <4>1. Exchange(h, v, x, Tail(y))
          BY <1>1, <2>3, <3>1, Aside DEF HostAside, ViewerAside
        <4>2. Emptied(v)
          BY <1>1 DEF Candidates
        <4>. QED
          BY <3>1, <4>1, <4>2, NobodySends
      <3>2. ASSUME h.open, m.type = "ice"
            PROVE  /\ Exchange(k, v, x, Tail(y)) /\ Candidates(k, v, x, Tail(y))
                   /\ k.open /\ k.remote = h.remote
        <4>1. h \in HostConns /\ m.body \in Candidate /\ k = handleCandidate(h, m.body)
          BY <1>1, <2>1, <3>2, OpenTyped
        <4>2. HostAside(h, k)
          BY <4>1, HostTakesCandidate
        <4>3. Candidates(k, v, x, Tail(y))
          BY <1>1, <1>2, <1>3, <3>2, <4>1, HostTakesKeeping
        <4>. HIDE DEF k
        <4>4. k.open /\ k.remote = h.remote
          BY <3>2, <4>2, OpenConns DEF HostAside, SameState
        <4>. QED
          BY <1>1, <2>3, <4>2, <4>4, <4>3, Aside DEF ViewerAside
      <3>3. ASSUME h.open, m.type # "ice"
            PROVE  /\ Exchange(k, v, x, Tail(y)) /\ Candidates(k, v, x, Tail(y))
                   /\ k.open /\ k.remote = h.remote
        <4>1. h \in HostConns /\ m \in FreshAnswers \cup StaleAnswers
          BY <1>1, <2>1, <3>3, OpenTyped
        <4>2. Candidates(k, v, x, Tail(y))
          BY <1>1, <1>2, <1>3, <3>3, <4>1, HostHearsKeeping
        <4>3. Exchange(k, v, x, Tail(y)) /\ k.open /\ k.remote = h.remote
          BY <1>1, <1>2, <1>3, <3>3, <4>1, HostHearsAnswer
        <4>. QED
          BY <4>2, <4>3
      <3>. HIDE DEF k
      <3>. QED
        BY <3>1, <3>2, <3>3
    <2>. HIDE DEF k, m
    <2>5. /\ pc'["host"] = k /\ pc'["viewer"] = v /\ DOMAIN pc' = End
          /\ wire'["viewer"] = x /\ wire'["host"] = Tail(y) /\ DOMAIN wire' = End
      BY <1>1, <1>2, <1>3, <2>2, PcUpdated, WireUpdated
    <2>6. PeersOK'
      BY <1>1, <1>2, <2>4, <2>5, PeersNext
    <2>. QED
      BY <1>2, <2>4, <2>5, <2>6 DEF Beneath
  <1>4. CASE e = "viewer"
    <2>. DEFINE m == Head(x)
                c == IF ~v.open /\ m.type = "offer" THEN ViewerConn ELSE v
                k == IF ~c.open THEN c
                     ELSE IF m.type = "ice" THEN handleCandidate(c, m.body)
                     ELSE handleDescription("viewer", c, m.body)
    <2>1. /\ \/ m.type = "ice" /\ m.body \in Candidate
             \/ m.type = "offer" /\ m \in OfferFrames
          /\ h.open
      <3>1. m \in ToViewer
        BY <1>1, <1>2, <1>4, TailShape
      <3>. QED
        BY <1>1, <1>2, <1>4, <3>1, FrameKinds
    <2>2. pc' = [pc EXCEPT !["viewer"] = k]
      BY <1>4 DEF Receive
    <2>3. ToViewerKept(x, Tail(x))
      BY <1>1, <1>2, <1>4, ToViewerTail
    <2>4. Exchange(h, k, Tail(x), y) /\ Candidates(h, k, Tail(x), y)
      <3>1. ASSUME ~c.open PROVE Exchange(h, k, Tail(x), y) /\ Candidates(h, k, Tail(x), y)
        <4>1. k = v /\ ~v.open
          BY <3>1 DEF ViewerConn, Conn
        <4>. HIDE DEF c, k
        <4>2. Candidates(h, v, Tail(x), y)
          BY <1>1, <1>2, <1>4, <4>1, NobodyHears
        <4>3. Exchange(h, v, Tail(x), y)
          BY <1>1, <2>3, Aside DEF HostAside, ViewerAside
        <4>. QED
          BY <4>1, <4>2, <4>3
      <3>2. ASSUME c.open, m.type = "ice"
            PROVE  Exchange(h, k, Tail(x), y) /\ Candidates(h, k, Tail(x), y)
        <4>1. v \in ViewerConns /\ m.body \in Candidate /\ k = handleCandidate(v, m.body)
          BY <1>1, <2>1, <3>2, OpenTyped
        <4>2. ViewerAside(v, k)
          BY <4>1, ViewerTakesCandidate
        <4>3. Candidates(h, k, Tail(x), y)
          BY <1>1, <1>2, <1>4, <3>2, <4>1, ViewerTakesKeeping
        <4>. HIDE DEF k
        <4>. QED
          BY <1>1, <2>3, <4>2, <4>3, Aside DEF HostAside
      <3>3. ASSUME c.open, m.type = "offer"
            PROVE  Exchange(h, k, Tail(x), y) /\ Candidates(h, k, Tail(x), y)
        <4>1. c \in ViewerConns /\ Exchange(h, c, x, y) /\ Candidates(h, c, x, y)
          <5>1. CASE v.open
            BY <1>1, <5>1, OpenTyped
          <5>2. CASE ~v.open
            <6>1. c = ViewerConn
              BY <3>3, <5>2
            <6>. QED
              BY <1>1, <5>2, <6>1, FreshViewer, FreshViewerKeeping
          <5>. QED
            BY <5>1, <5>2
        <4>2. k = handleDescription("viewer", c, m.body) /\ m \in OfferFrames
          BY <2>1, <3>3
        <4>. HIDE DEF c, k
        <4>. QED
          BY <1>2, <1>4, <4>1, <4>2, ViewerHearsOffer, ViewerHearsKeeping
      <3>. QED
        BY <2>1, <3>1, <3>2, <3>3
    <2>. HIDE DEF k, c, m
    <2>5. /\ pc'["viewer"] = k /\ pc'["host"] = h /\ DOMAIN pc' = End
          /\ wire'["viewer"] = Tail(x) /\ wire'["host"] = y /\ DOMAIN wire' = End
      BY <1>1, <1>2, <1>4, <2>2, PcUpdated, WireUpdated
    <2>6. PeersOK'
      BY <1>1, <1>2, <2>4, <2>5, PeersNext
    <2>. QED
      BY <1>2, <2>1, <2>5, <2>6 DEF Beneath
  <1>. QED
    BY <1>3, <1>4 DEF End

\* A step that changes one connection only.
LEMMA HostConnStep ==
  ASSUME PeersOK, NEW k, pc' = [pc EXCEPT !["host"] = k], UNCHANGED <<wire, outbox, line>>,
         pc["host"].open, k.open,
         pc["host"].remote.age = "present" => k.remote.age = "present",
         Exchange(k, pc["viewer"], wire["viewer"], wire["host"]),
         Candidates(k, pc["viewer"], wire["viewer"], wire["host"])
  PROVE  Beneath
  <1>1. DOMAIN pc = End /\ DOMAIN wire = End /\ outbox \in Seq(ToHost)
    BY DEF PeersOK
  <1>2. pc'["host"] = k /\ pc'["viewer"] = pc["viewer"] /\ DOMAIN pc' = End
    BY <1>1, PcUpdated
  <1>3. PeersOK'
    BY <1>1, <1>2, PeersNext
  <1>. QED
    BY <1>2, <1>3 DEF Beneath

LEMMA ViewerConnStep ==
  ASSUME PeersOK, NEW k, pc' = [pc EXCEPT !["viewer"] = k], UNCHANGED <<wire, outbox, line>>,
         Exchange(pc["host"], k, wire["viewer"], wire["host"]),
         Candidates(pc["host"], k, wire["viewer"], wire["host"])
  PROVE  Beneath
  <1>1. DOMAIN pc = End /\ DOMAIN wire = End /\ outbox \in Seq(ToHost)
    BY DEF PeersOK
  <1>2. pc'["host"] = pc["host"] /\ pc'["viewer"] = k /\ DOMAIN pc' = End
    BY <1>1, PcUpdated
  <1>3. PeersOK'
    BY <1>1, <1>2, PeersNext
  <1>. QED
    BY <1>2, <1>3 DEF Beneath

LEMMA Beginning ==
  ASSUME NegotiationInv
  PROVE  /\ PeersOK
         /\ Exchange(pc["host"], pc["viewer"], wire["viewer"], wire["host"])
         /\ Candidates(pc["host"], pc["viewer"], wire["viewer"], wire["host"])
         /\ pc["host"].open => pc["host"] \in HostConns
         /\ pc["viewer"].open => pc["viewer"] \in ViewerConns
  BY OpenTyped DEF NegotiationInv, PeersOK

LEMMA RemoteDoneKeeps ==
  ASSUME NegotiationInv, NEW e \in End, RemoteDone(e)
  PROVE  Beneath
  <1>. DEFINE d == Op(e)[2]
              k == drain(setRemoteDescription(Ended(e), d), d)
  <1>1. /\ pc[e].open /\ pc[e].chain # <<>> /\ Op(e)[1] = "remote" /\ Applicable(pc[e], d)
        /\ pc' = [pc EXCEPT ![e] = k] /\ UNCHANGED <<wire, outbox, line>>
    BY DEF RemoteDone, Ending, Op
  <1>2. CASE e = "host"
    <2>1. /\ Exchange(k, pc["viewer"], wire["viewer"], wire["host"]) /\ k.open
          /\ pc["host"].remote.age = "present" => k.remote.age = "present"
      BY <1>1, <1>2, Beginning, HostSets DEF Op, Ended
    <2>2. pc' = [pc EXCEPT !["host"] = k]
      BY <1>1, <1>2
    <2>3. Candidates(k, pc["viewer"], wire["viewer"], wire["host"])
      BY <1>1, <1>2, Beginning, HostSetsKeeping DEF Op, Ended
    <2>. HIDE DEF k
    <2>. QED
      BY <1>1, <1>2, <2>1, <2>2, <2>3, Beginning, HostConnStep
  <1>3. CASE e = "viewer"
    <2>1. Exchange(pc["host"], k, wire["viewer"], wire["host"])
      BY <1>1, <1>3, Beginning, ViewerSets DEF Op, Ended
    <2>2. pc' = [pc EXCEPT !["viewer"] = k]
      BY <1>1, <1>3
    <2>3. Candidates(pc["host"], k, wire["viewer"], wire["host"])
      BY <1>1, <1>3, Beginning, ViewerSetsKeeping DEF Op, Ended
    <2>. HIDE DEF k
    <2>. QED
      BY <1>1, <2>1, <2>2, <2>3, Beginning, ViewerConnStep
  <1>. QED
    BY <1>2, <1>3 DEF End

LEMMA RemoteRejectedKeeps ==
  ASSUME NegotiationInv, NEW e \in End, RemoteRejected(e)
  PROVE  Beneath
  <1>. DEFINE k == Ended(e)
  <1>1. /\ pc[e].open /\ pc[e].chain # <<>> /\ Head(pc[e].chain)[1] = "remote"
        /\ pc' = [pc EXCEPT ![e] = k] /\ UNCHANGED <<wire, outbox, line>>
    BY DEF RemoteRejected, Ending
  <1>2. CASE e = "host"
    <2>1. HostAside(pc["host"], k)
      BY <1>1, <1>2, Beginning, HostRefuses DEF Ended
    <2>2. pc' = [pc EXCEPT !["host"] = k]
      BY <1>1, <1>2
    <2>3. Candidates(k, pc["viewer"], wire["viewer"], wire["host"])
      BY <1>1, <1>2, Beginning, HostRefusesKeeping DEF Ended
    <2>. HIDE DEF k
    <2>4. k.open /\ k.remote = pc["host"].remote
      BY <1>1, <1>2, <2>1, OpenConns DEF HostAside, SameState
    <2>5. Exchange(k, pc["viewer"], wire["viewer"], wire["host"])
      BY <2>1, Beginning, Aside DEF ViewerAside
    <2>. QED
      BY <1>1, <1>2, <2>2, <2>4, <2>5, <2>3, Beginning, HostConnStep
  <1>3. CASE e = "viewer"
    <2>1. ViewerAside(pc["viewer"], k)
      BY <1>1, <1>3, Beginning, ViewerRefuses DEF Ended
    <2>2. pc' = [pc EXCEPT !["viewer"] = k]
      BY <1>1, <1>3
    <2>3. Candidates(pc["host"], k, wire["viewer"], wire["host"])
      BY <1>1, <1>3, Beginning, ViewerRefusesKeeping DEF Ended
    <2>. HIDE DEF k
    <2>4. Exchange(pc["host"], k, wire["viewer"], wire["host"])
      BY <2>1, Beginning, Aside DEF HostAside
    <2>. QED
      BY <1>1, <2>2, <2>4, <2>3, Beginning, ViewerConnStep
  <1>. QED
    BY <1>2, <1>3 DEF End

LEMMA CandidateDoneKeeps ==
  ASSUME NegotiationInv, NEW e \in End, CandidateDone(e)
  PROVE  Beneath
  <1>. DEFINE op   == Op(e)
              c    == addIceCandidate(Ended(e), Head(op[2]))
              rest == Tail(op[2])
              k    == IF rest = <<>> THEN Answer(c, op[3])
                      ELSE Then(c, <<"candidates", rest, op[3]>>)
  <1>1. /\ pc[e].open /\ pc[e].chain # <<>> /\ Head(pc[e].chain)[1] = "candidates"
        /\ pc' = [pc EXCEPT ![e] = k] /\ UNCHANGED <<wire, outbox, line>>
    BY DEF CandidateDone, Ending
  <1>2. CASE e = "host"
    <2>1. HostAside(pc["host"], k)
      BY <1>1, <1>2, Beginning, HostAddsCandidate DEF Ended, Op
    <2>2. pc' = [pc EXCEPT !["host"] = k]
      BY <1>1, <1>2
    <2>3. Candidates(k, pc["viewer"], wire["viewer"], wire["host"])
      BY <1>1, <1>2, Beginning, HostAddsKeeping DEF Ended, Op
    <2>. HIDE DEF k
    <2>4. k.open /\ k.remote = pc["host"].remote
      BY <1>1, <1>2, <2>1, OpenConns DEF HostAside, SameState
    <2>5. Exchange(k, pc["viewer"], wire["viewer"], wire["host"])
      BY <2>1, Beginning, Aside DEF ViewerAside
    <2>. QED
      BY <1>1, <1>2, <2>2, <2>4, <2>5, <2>3, Beginning, HostConnStep
  <1>3. CASE e = "viewer"
    <2>1. Once(pc["viewer"].chain, Turns)
      BY <1>1, <1>3, Beginning DEF Exchange, OneToken
    <2>2. ViewerAside(pc["viewer"], k)
      BY <1>1, <1>3, <2>1, Beginning, ViewerAddsCandidate DEF Ended, Op
    <2>3. pc' = [pc EXCEPT !["viewer"] = k]
      BY <1>1, <1>3
    <2>4. Candidates(pc["host"], k, wire["viewer"], wire["host"])
      BY <1>1, <1>3, <2>1, Beginning, ViewerAddsKeeping DEF Ended, Op
    <2>. HIDE DEF k
    <2>5. Exchange(pc["host"], k, wire["viewer"], wire["host"])
      BY <2>2, Beginning, Aside DEF HostAside
    <2>. QED
      BY <1>1, <2>3, <2>5, <2>4, Beginning, ViewerConnStep
  <1>. QED
    BY <1>2, <1>3 DEF End

LEMMA HostSends ==
  ASSUME NegotiationInv, LocalDone("host")
  PROVE  Beneath
  <1>. DEFINE h == pc["host"]
              v == pc["viewer"]
              x == wire["viewer"]
              y == wire["host"]
              c == setLocalDescription("host", [h EXCEPT !.chain = Tail(@)])
              k == [c EXCEPT !.makingOffer = FALSE]
              m == [type |-> "offer", body |-> c.local]
  <1>1. h.open /\ h.chain # <<>> /\ Head(h.chain)[1] \in {"offer", "answer"}
    BY DEF LocalDone, Ending
  <1>2. h \in HostConns /\ Exchange(h, v, x, y) /\ Candidates(h, v, x, y)
    BY <1>1, Beginning
  <1>3. Head(h.chain) = <<"offer">>
    BY <1>1, <1>2, OpenConns, TailShape, HostOpKinds
  <1>4. pc' = [pc EXCEPT !["host"] = k] /\ wire' = [wire EXCEPT !["viewer"] = x \o <<m>>]
        /\ UNCHANGED <<outbox, line>>
    <2>1. Op("host")[1] = "offer"
      BY <1>3 DEF Op
    <2>2. c = setLocalDescription("host", Ended("host"))
      BY DEF Ended
    <2>. HIDE DEF c
    <2>. QED
      BY <2>1, <2>2 DEF LocalDone, Put
  <1>5. Exchange(k, v, x \o <<m>>, y) /\ k.open /\ k.remote = h.remote
    BY <1>1, <1>2, <1>3, HostOffers
  <1>6. Candidates(k, v, x \o <<m>>, y)
    BY <1>1, <1>2, <1>3, HostOffersKeeping
  <1>7. DOMAIN pc = End /\ DOMAIN wire = End
    BY DEF NegotiationInv, PeersOK
  <1>8. outbox \in Seq(ToHost)
    BY DEF NegotiationInv, PeersOK
  <1>. HIDE DEF k, m
  <1>9. pc'["host"] = k /\ pc'["viewer"] = v /\ DOMAIN pc' = End
    BY <1>4, <1>7, PcUpdated
  <1>10. wire'["viewer"] = x \o <<m>> /\ wire'["host"] = y /\ DOMAIN wire' = End
    BY <1>4, <1>7, WireUpdated
  <1>11. PeersOK'
    BY <1>4, <1>5, <1>8, <1>9, <1>10, <1>6, PeersNext
  <1>. QED
    BY <1>1, <1>4, <1>5, <1>9, <1>11 DEF Beneath

LEMMA ViewerSends ==
  ASSUME NegotiationInv, LocalDone("viewer")
  PROVE  Beneath
  <1>. DEFINE h == pc["host"]
              v == pc["viewer"]
              x == wire["viewer"]
              y == wire["host"]
              k == setLocalDescription("viewer", [v EXCEPT !.chain = Tail(@)])
              m == [type |-> "answer", body |-> k.local]
  <1>1. v.open /\ v.chain # <<>> /\ Head(v.chain)[1] \in {"offer", "answer"}
    BY DEF LocalDone, Ending
  <1>2. v \in ViewerConns /\ Exchange(h, v, x, y) /\ Candidates(h, v, x, y)
        /\ (h.open => h \in HostConns)
    BY <1>1, Beginning
  <1>3. Head(v.chain) = <<"answer">>
    BY <1>1, <1>2, OpenConns, TailShape, ViewerOpKinds
  <1>4. pc' = [pc EXCEPT !["viewer"] = k] /\ Put("viewer", <<m>>) /\ line' = line
    <2>1. Op("viewer")[1] = "answer"
      BY <1>3 DEF Op
    <2>2. k = setLocalDescription("viewer", Ended("viewer"))
      BY DEF Ended
    <2>. HIDE DEF k
    <2>. QED
      BY <2>1, <2>2 DEF LocalDone
  <1>5. /\ Exchange(h, k, x, y \o <<m>>)
        /\ ~h.open => Exchange(h, k, x, y)
        /\ m \in ToHost
    BY <1>1, <1>2, <1>3, ViewerMakesAnswer
  <1>6. Emptied(k) /\ Candidates(h, k, x, y \o <<m>>)
    BY <1>1, <1>2, <1>3, ViewerAnswersKeeping
  <1>7. DOMAIN pc = End /\ DOMAIN wire = End
    BY DEF NegotiationInv, PeersOK
  <1>8. outbox \in Seq(ToHost) /\ (h.open => line = "room")
    BY DEF NegotiationInv, PeersOK, LinkOK
  <1>. HIDE DEF k, m
  <1>9. pc'["viewer"] = k /\ pc'["host"] = h /\ DOMAIN pc' = End
    BY <1>4, <1>7, PcUpdated
  <1>10. CASE line = "room"
    <2>1. wire' = [wire EXCEPT !["host"] = y \o <<m>>] /\ outbox' = outbox
      BY <1>4, <1>10 DEF Put
    <2>2. wire'["viewer"] = x /\ wire'["host"] = y \o <<m>> /\ DOMAIN wire' = End
      BY <1>7, <2>1, WireUpdated
    <2>3. PeersOK'
      BY <1>5, <1>8, <1>9, <1>6, <2>1, <2>2, PeersNext
    <2>. QED
      BY <1>4, <1>9, <2>2, <2>3 DEF Beneath
  <1>11. CASE line # "room"
    <2>1. wire' = wire /\ (outbox' = outbox \/ outbox' = outbox \o <<m>>)
      BY <1>4, <1>11 DEF Put
    <2>2. outbox' \in Seq(ToHost)
      BY <1>5, <1>8, <2>1, WireSent, AppendShape
    <2>3. Candidates(h, k, x, y)
      BY <1>8, <1>11, <1>6, NobodySends
    <2>4. PeersOK'
      BY <1>5, <1>7, <1>8, <1>9, <1>11, <2>1, <2>2, <2>3, PeersNext
    <2>. QED
      BY <1>4, <1>9, <2>1, <2>4 DEF Beneath
  <1>. QED
    BY <1>10, <1>11

LEMMA BeneathKeeps ==
  ASSUME NegotiationInv, Beneath, UNCHANGED <<client, gate>>,
         link' \in {"offered", "up"} => link \in {"offered", "up"}
  PROVE  NegotiationInv'
  BY DEF NegotiationInv, Beneath, LinkOK

LEMMA NegotiationStepKeeps ==
  ASSUME NegotiationInv, NegotiationStep
  PROVE  NegotiationInv'
  <1>1. UNCHANGED <<client, gate, link>>
    BY DEF NegotiationStep, vars
  <1>2. Beneath
    <2>1. ASSUME NEW e \in End, \/ NegotiationNeeded(e) \/ Gather(e) \/ Receive(e)
                                \/ RemoteDone(e) \/ CandidateDone(e)
          PROVE  Beneath
      BY <2>1, NegotiationNeededKeeps, GatherKeeps, ReceiveKeeps, RemoteDoneKeeps,
         CandidateDoneKeeps
    <2>2. ASSUME RemoteRejected("host") PROVE Beneath
      BY <2>2, RemoteRejectedKeeps DEF End
    <2>. QED
      BY <2>1, <2>2, HostSends, ViewerSends DEF NegotiationStep
  <1>. QED
    BY <1>1, <1>2, BeneathKeeps

LEMMA ViewerAnswersKeeps ==
  ASSUME NegotiationInv, ViewerAnswers
  PROVE  NegotiationInv'
  <1>1. Beneath
    BY ViewerSends DEF ViewerAnswers
  <1>2. /\ UNCHANGED <<client, gate>>
        /\ link' \in {"offered", "up"} => link \in {"offered", "up"}
    BY DEF ViewerAnswers, Offer, StaleAnswer, vars, path
  <1>. QED
    BY <1>1, <1>2, BeneathKeeps

LEMMA ViewerRejectsKeeps ==
  ASSUME NegotiationInv, ViewerRejects
  PROVE  NegotiationInv'
  <1>1. Beneath
    BY RemoteRejectedKeeps DEF ViewerRejects, End
  <1>2. /\ UNCHANGED <<client, gate>>
        /\ link' \in {"offered", "up"} => link \in {"offered", "up"}
    BY DEF ViewerRejects, Offer, vars
  <1>. QED
    BY <1>1, <1>2, BeneathKeeps

----------------------------------------------------------------------------
(* The session keeps it as well *)

\* What the session does to the connection of the host: it is made when the
\* viewer is back in the room, and for as long as it is there the viewer stays.
LEMMA SessionFacts ==
  ASSUME SessionStep, LinkOK,
         state = "idle" => client = "none", link \in {"none", "offered", "up", "gone"}
  PROVE  /\ HostGetsConnection => /\ Quiet /\ ~HostKeepsConnection
                                  /\ gate' = "closed" /\ link' = "offered"
         /\ HostKeepsConnection => client' = "joined" /\ pc["host"].open
         /\ ~HostGetsConnection /\ ~HostKeepsConnection => link' \notin {"offered", "up"}
         /\ gate' # "closed" => gate # "closed" \/ Paired
  <1>1. link \in {"offered", "up"} => client = "joined" /\ pc["host"].open
    BY DEF LinkOK
  <1>. HIDE DEF LinkOK
  <1>2. CASE Joined /\ Quiet
    BY <1>1, <1>2 DEF Joined, HostGetsConnection, HostKeepsConnection
  <1>3. CASE Connect \/ Disconnect
    BY <1>1, <1>3 DEF Connect, Disconnect, Teardown, Unlinked, path,
                      HostGetsConnection, HostKeepsConnection
  <1>4. CASE PathDrops \/ PathFails \/ GraceTimer \/ PathUp
    BY <1>1, <1>4 DEF PathDrops, PathFails, GraceTimer, PathUp, rebuildPeer, Unlinked, path,
                      HostGetsConnection, HostKeepsConnection
  <1>5. CASE SocketOpens \/ SocketDrops
    BY <1>1, <1>5 DEF SocketOpens, SocketDrops, HostDropsLink, path,
                      HostGetsConnection, HostKeepsConnection
  <1>6. CASE SocketFails \/ Refused \/ AckTimeout
    BY <1>1, <1>6 DEF SocketFails, Refused, AckTimeout, AttemptFails, Teardown, Unlinked, path,
                      HostGetsConnection, HostKeepsConnection
  <1>7. CASE HostArrives \/ HostLeaves \/ PeerLeft
    BY <1>1, <1>7 DEF HostArrives, HostLeaves, PeerLeft, HostDropsLink, Unlinked, path,
                      HostGetsConnection, HostKeepsConnection
  <1>8. CASE (ControlOpens /\ Paired) \/ Verdict
    BY <1>1, <1>8 DEF ControlOpens, Verdict, HostGetsConnection, HostKeepsConnection
  <1>9. CASE SubmitPin \/ ReadFrame \/ Track
    BY <1>1, <1>9 DEF SubmitPin, ReadFrame, Track, path, HostGetsConnection, HostKeepsConnection
  <1>. QED
    BY <1>2, <1>3, <1>4, <1>5, <1>6, <1>7, <1>8, <1>9 DEF SessionStep

LEMMA ViewerCloses ==
  ASSUME NEW h, NEW v, NEW x, NEW y, Exchange(h, v, x, y)
  PROVE  Exchange(h, NoConn, x, y)
  <1>1. ~NoConn.open
    BY OpenConns
  <1>. QED
    BY <1>1 DEF Exchange, Typed, OneToken, HostWaits, Nowhere, AtViewer, ViewerKeeps

LEMMA HostCloses ==
  ASSUME NEW h, NEW v, NEW x, NEW y, Exchange(h, v, x, y)
  PROVE  Exchange(NoConn, v, <<>>, <<>>)
  <1>1. ~NoConn.open
    BY OpenConns
  <1>2. <<>> \in Seq(ToViewer) /\ <<>> \in Seq(ToHost)
    OBVIOUS
  <1>. QED
    BY <1>1, <1>2, EmptyQueue DEF Exchange, Typed, OneToken, HostKeeps, HostWaits, InOrder,
       AtHost, ToTheViewer, ToTheHost, ViewerKeeps

LEMMA HostAttaches ==
  ASSUME NEW h \in HostConns, NEW v, NEW x, NEW y, Exchange(h, v, x, y), Candidates(h, v, x, y),
         h.remote.age = "present"
  PROVE  /\ Exchange(Attached(h), v, x, y) /\ Candidates(Attached(h), v, x, y)
         /\ Attached(h).open /\ Attached(h).remote = h.remote
  <1>. DEFINE k == Attached(h)
  <1>1. k \in HostConns /\ k.want = 2
    BY OpenConns DEF Attached, HostConns, Connection
  <1>2. /\ k.open = h.open /\ k.signalingState = h.signalingState /\ k.chain = h.chain
        /\ k.makingOffer = h.makingOffer /\ k.agreed = h.agreed
        /\ k.local = h.local /\ k.remote = h.remote
        /\ k.pendingCandidates = h.pendingCandidates /\ k.got = h.got /\ k.gather = h.gather
        /\ k.remoteDescriptionSet = h.remoteDescriptionSet
    BY DEF Attached, HostConns, Connection
  <1>. HIDE DEF k
  <1>3. h.open
    BY OpenConns
  <1>4. Typed(k, v, x, y)
    BY <1>1 DEF Exchange, Typed
  <1>5. OneToken(k, v, x, y) /\ HostKeeps(k) /\ HostWaits(k, v, x, y)
    BY <1>2, <1>3 DEF Exchange, OneToken, AtHost, HostKeeps, HostWaits, Nowhere
  <1>6. InOrder(k, y) /\ ViewerKeeps(k, v)
    BY <1>2, <1>3 DEF Exchange, InOrder, ViewerKeeps
  <1>7. Reaches(h, y, FreshAnswers, Answered) => Reaches(k, y, FreshAnswers, Answered)
    BY <1>2 DEF Reaches
  <1>8. Candidates(k, v, x, y)
    BY <1>2, <1>7 DEF Candidates, Emptied, OffersAgain, Taken, AnswersOnce, SentBy
  <1>. QED
    BY <1>2, <1>3, <1>4, <1>5, <1>6, <1>8 DEF Exchange, k

LEMMA FramesAge ==
  ASSUME NEW q \in Seq(ToHost)
  PROVE  /\ AgedFrames(q) \in Seq(ToHost)
         /\ ~Has(AgedFrames(q), FreshAnswers)
  <1>. DEFINE r == AgedFrames(q)
  <1>1. \A i \in DOMAIN q : q[i] \in ToHost
    BY ElementOfSeq
  <1>2. ASSUME NEW m \in ToHost
        PROVE  [m EXCEPT !.body.age = "earlier"] \in ToHost \ FreshAnswers
    BY DEF ToHost, IceFrames, FreshAnswers, StaleAnswers, Candidate, AnAnswer, Present, Ages,
           Description
  <1>3. DOMAIN q = 1 .. Len(q) /\ Len(q) \in Nat
    OBVIOUS
  <1>4. /\ r = [i \in 1 .. Len(q) |-> [q[i] EXCEPT !.body.age = "earlier"]]
        /\ DOMAIN r = DOMAIN q
    BY <1>3 DEF AgedFrames
  <1>5. \A i \in DOMAIN r : r[i] \in ToHost \ FreshAnswers
    BY <1>1, <1>2, <1>3, <1>4
  <1>6. r \in Seq(ToHost)
    BY <1>3, <1>4, <1>5
  <1>. QED
    BY <1>5, <1>6 DEF Has

LEMMA ViewerConnEmpty == Emptied(ViewerConn) /\ ViewerConn.local.age = "earlier"
  BY DEF ViewerConn, Conn, Emptied, None

LEMMA ViewerAges ==
  ASSUME NEW v \in ViewerConns, v.chain = <<>>, Emptied(v)
  PROVE  /\ Aged(v) \in ViewerConns /\ Aged(v).chain = <<>>
         /\ Aged(v).signalingState = v.signalingState
         /\ Emptied(Aged(v)) /\ Aged(v).local.age = "earlier"
  <1>1. /\ v.open /\ v.pendingCandidates \in Seq(Candidate)
        /\ v.local \in {None} \cup AnAnswer /\ v.remote \in {None} \cup AnOffer
    BY OpenConns
  <1>2. AgedBodies(v.pendingCandidates) \in Seq(Candidate)
    <2>. DEFINE q == v.pendingCandidates
    <2>1. \A i \in DOMAIN q : q[i] \in Candidate
      BY <1>1, ElementOfSeq
    <2>2. ASSUME NEW c \in Candidate PROVE [c EXCEPT !.age = "earlier"] \in Candidate
      BY DEF Candidate, Ages
    <2>3. DOMAIN q = 1 .. Len(q) /\ Len(q) \in Nat
      BY <1>1
    <2>. QED
      BY <2>1, <2>2, <2>3 DEF AgedBodies
  <1>3. /\ [v.local EXCEPT !.age = "earlier"] \in {None} \cup AnAnswer
        /\ [v.remote EXCEPT !.age = "earlier"] \in {None} \cup AnOffer
    BY <1>1 DEF None, AnAnswer, AnOffer, Ages
  <1>4. [i \in DOMAIN v.chain |-> AgedOp(v.chain[i])] = <<>>
    OBVIOUS
  <1>5. <<>> \in Seq(ViewerOps)
    OBVIOUS
  <1>6. Aged(v) = [v EXCEPT !.chain = <<>>, !.pendingCandidates = AgedBodies(v.pendingCandidates),
                            !.local = [v.local EXCEPT !.age = "earlier"],
                            !.remote = [v.remote EXCEPT !.age = "earlier"],
                            !.got = FALSE]
    BY <1>1, <1>4 DEF Aged, ViewerConns, Connection
  <1>. DEFINE pending == AgedBodies(v.pendingCandidates)
              local   == [v.local EXCEPT !.age = "earlier"]
              remote  == [v.remote EXCEPT !.age = "earlier"]
              k == Aged(v)
  <1>7. k = [v EXCEPT !.chain = <<>>, !.pendingCandidates = pending, !.local = local,
                      !.remote = remote, !.got = FALSE]
    BY <1>6
  <1>. HIDE DEF pending, local, remote, k
  <1>8. k \in ViewerConns
    BY <1>2, <1>3, <1>5, <1>7 DEF ViewerConns, Connection, pending, local, remote
  <1>9. /\ k.chain = <<>> /\ k.signalingState = v.signalingState
        /\ k.remoteDescriptionSet = v.remoteDescriptionSet
        /\ k.pendingCandidates = pending /\ k.local = local /\ k.remote = remote
    BY <1>7 DEF ViewerConns, Connection
  <1>10. v.pendingCandidates = <<>> => pending = <<>>
    BY DEF pending, AgedBodies
  <1>11. local.age = "earlier" /\ (v.remote = None => remote = None)
    BY <1>1 DEF local, remote, None, AnAnswer
  <1>12. Emptied(k)
    BY <1>1, <1>9, <1>10, <1>11 DEF Emptied
  <1>. QED
    BY <1>8, <1>9, <1>11, <1>12 DEF k

\* A connection the host has just made: without an answer to an earlier offer
\* and without any exchange but the one it begins itself.
LEMMA HostBegins ==
  ASSUME NEW stream \in BOOLEAN, NEW v, v \in ViewerConns \cup {NoConn},
         v.open => /\ v.chain = <<>> /\ v.signalingState = "stable"
                   /\ Emptied(v) /\ v.local.age = "earlier",
         NEW y \in Seq(ToHost), ~Has(y, FreshAnswers)
  PROVE  /\ Exchange(HostConnection(stream), v, <<>>, y)
         /\ Candidates(HostConnection(stream), v, <<>>, y)
         /\ HostConnection(stream).open
  <1>. DEFINE h == HostConnection(stream)
  <1>1. Conn(2) \in HostConns /\ Conn(1) \in HostConns
    BY DEF Conn, HostConns, Connection, Levels, None
  <1>2. /\ h \in HostConns /\ h.signalingState = "stable" /\ h.local = None
        /\ h.remote = None /\ h.makingOffer = stream /\ h.pendingCandidates = <<>>
        /\ h.chain = IF stream THEN Append(<<>>, <<"offer">>) ELSE <<>>
    <2>1. CASE stream
      <3>. DEFINE c == [Conn(2) EXCEPT !.makingOffer = TRUE]
      <3>1. h = Then(c, <<"offer">>)
        BY <2>1 DEF HostConnection, negotiate, Conn
      <3>2. /\ c \in HostConns /\ c.signalingState = "stable" /\ c.local = None
            /\ c.remote = None /\ c.makingOffer = TRUE /\ c.chain = <<>>
            /\ c.pendingCandidates = <<>>
        BY <1>1 DEF HostConns, Connection, Conn
      <3>3. <<"offer">> \in HostOps
        BY HostOpFacts DEF Asking
      <3>. HIDE DEF c, h
      <3>4. h \in HostConns /\ SameState(c, h) /\ h.chain = Append(c.chain, <<"offer">>)
        BY <3>1, <3>2, <3>3, HostThen
      <3>5. h.pendingCandidates = c.pendingCandidates
        BY <3>1, <3>2, ThenSame DEF Conns, Same, Rest
      <3>. QED
        BY <2>1, <3>2, <3>4, <3>5 DEF SameState
    <2>2. CASE ~stream
      BY <1>1, <2>2 DEF HostConnection, Conn
    <2>. QED
      BY <2>1, <2>2
  <1>. HIDE DEF h
  <1>3. /\ Once(h.chain, Asking \cup Answered)
        /\ Has(h.chain, Asking) <=> stream
        /\ ~Has(h.chain, Answered) /\ ~Has(h.chain, Outdated)
        /\ Has(h.chain, Asking \cup Answered) => stream
    <2>1. CASE ~stream
      BY <1>2, <2>1, EmptyQueue
    <2>2. CASE stream
      <3>1. h.chain = <<<<"offer">>>>
        BY <1>2, <2>2
      <3>2. DOMAIN h.chain = {1} /\ h.chain[1] = <<"offer">>
        BY <3>1
      <3>3. ASSUME NEW D
            PROVE  (Has(h.chain, D) <=> <<"offer">> \in D) /\ Once(h.chain, D)
        BY <3>2 DEF Has, Once
      <3>. QED
        BY <2>2, <3>3, HostOpFacts
    <2>. QED
      BY <2>1, <2>2
  <1>4. h.open /\ ~NoConn.open
    BY <1>2, OpenConns
  <1>5. Once(v.chain, Turns) \/ ~v.open
    BY EmptyQueue
  <1>6. ~AtViewer(v) /\ ViewerKeeps(h, v)
    BY <1>4, EmptyQueue, IdleViewer DEF ViewerKeeps, AtViewer
  <1>7. ~ToTheViewer(<<>>) /\ ~ToTheHost(y) /\ Once(<<>>, OfferFrames) /\ Once(y, FreshAnswers)
    BY EmptyQueue DEF ToTheViewer, ToTheHost, Has, Once
  <1>8. Typed(h, v, <<>>, y)
    BY <1>2 DEF Typed
  <1>9. OneToken(h, v, <<>>, y)
    BY <1>3, <1>5, <1>6, <1>7 DEF OneToken
  <1>10. HostKeeps(h)
    BY <1>2, <1>3 DEF HostKeeps
  <1>11. HostWaits(h, v, <<>>, y)
    BY <1>2, <1>3, <1>6, <1>7 DEF HostWaits, Nowhere, AtHost
  <1>12. InOrder(h, y)
    BY <1>2, <1>3, Descriptions DEF InOrder, Has, Last
  <1>13. h.remote.age # "present" /\ ~SentBy(h) /\ ~SentBy(v) /\ Emptied(h) /\ Emptied(v)
    BY <1>2, Descriptions DEF SentBy, Emptied
  <1>14. Candidates(h, v, <<>>, y)
    BY <1>2, <1>3, <1>13 DEF Candidates, OffersAgain, Taken, AnswersOnce
  <1>. QED
    BY <1>4, <1>6, <1>8, <1>9, <1>10, <1>11, <1>12, <1>14 DEF Exchange, h

LEMMA SessionStepKeeps ==
  ASSUME NegotiationInv, SessionStep,
         state = "idle" => client = "none", link \in {"none", "offered", "up", "gone"},
         PeerHeld'
  PROVE  NegotiationInv'
  <1>. DEFINE h == pc["host"]
              v == pc["viewer"]
              x == wire["viewer"]
              y == wire["host"]
  <1>1. /\ HostGetsConnection => /\ Quiet /\ ~HostKeepsConnection
                                 /\ gate' = "closed" /\ link' = "offered"
        /\ HostKeepsConnection => client' = "joined" /\ h.open
        /\ ~HostGetsConnection /\ ~HostKeepsConnection => link' \notin {"offered", "up"}
        /\ gate' # "closed" => gate # "closed" \/ Paired
    BY SessionFacts DEF NegotiationInv
  <1>2. Exchange(h, v, x, y) /\ Candidates(h, v, x, y)
    BY Beginning
  <1>3. DOMAIN wire = End /\ outbox \in Seq(ToHost) /\ LinkOK
    BY DEF NegotiationInv, PeersOK
  <1>4. Follow
    BY DEF SessionStep
  <1>5. /\ DOMAIN pc' = End /\ DOMAIN wire' = End
        /\ pc'["host"] = HostsOwn /\ pc'["viewer"] = ViewersOwn
        /\ HostKeepsConnection => wire' = wire
        /\ ~HostKeepsConnection =>
             /\ wire'["viewer"] = <<>>
             /\ wire'["host"] = IF HostGetsConnection THEN AgedFrames(outbox) ELSE <<>>
    BY <1>3, <1>4 DEF Follow, End
  <1>6. outbox' \in Seq(ToHost)
    BY <1>3, <1>4 DEF Follow
  <1>7. client' = "joined" => line' = "room"
    BY <1>4 DEF Follow
  <1>8. CASE HostGetsConnection
    <2>. DEFINE w == pc'["viewer"]
                q == AgedFrames(outbox)
    <2>1. /\ pc'["host"] = HostConnection(~gated)
          /\ w = NoConn \/ w = ViewerConn \/ (v.open /\ w = Aged(v))
      BY <1>5, <1>8 DEF HostsOwn, ViewersOwn
    <2>2. /\ w \in ViewerConns \cup {NoConn}
          /\ w.open => /\ w.chain = <<>> /\ w.signalingState = "stable"
                       /\ Emptied(w) /\ w.local.age = "earlier"
      <3>1. ASSUME v.open
            PROVE  Aged(v) \in ViewerConns /\ Aged(v).chain = <<>>
                   /\ Aged(v).signalingState = "stable"
                   /\ Emptied(Aged(v)) /\ Aged(v).local.age = "earlier"
        <4>1. v \in ViewerConns /\ v.chain = <<>> /\ Emptied(v)
          BY <1>1, <1>8, <3>1, Beginning DEF Quiet, Candidates
        <4>2. v.signalingState = "stable"
          BY <1>2, <3>1, <4>1, OpenConns, EmptyQueue DEF Exchange, ViewerKeeps
        <4>. QED
          BY <4>1, <4>2, ViewerAges
      <3>. QED
        BY <2>1, <3>1, ViewerConnIdle, ViewerConnEmpty, OpenConns
    <2>3. q \in Seq(ToHost) /\ ~Has(q, FreshAnswers)
      BY <1>3, FramesAge
    <2>4. wire'["viewer"] = <<>> /\ wire'["host"] = q
      BY <1>1, <1>5, <1>8
    <2>. HIDE DEF w, q
    <2>5. /\ Exchange(HostConnection(~gated), w, <<>>, q)
          /\ Candidates(HostConnection(~gated), w, <<>>, q)
          /\ HostConnection(~gated).open
      BY <2>2, <2>3, HostBegins
    <2>6. PeersOK'
      BY <1>5, <1>6, <2>1, <2>4, <2>5, PeersNext DEF w
    <2>7. LinkOK'
      BY <1>1, <1>7, <1>8, <2>1, <2>5 DEF LinkOK, HostGetsConnection
    <2>. QED
      BY <2>6, <2>7 DEF NegotiationInv
  <1>9. CASE HostKeepsConnection
    <2>1. h \in HostConns /\ h.open /\ ~HostGetsConnection
      BY <1>1, <1>9, Beginning
    <2>2. link \in {"offered", "up"} /\ client = "joined" /\ peer' # "none"
      BY <1>3, <1>9 DEF HostKeepsConnection, LinkOK, PeerHeld
    <2>3. /\ pc'["viewer"] = v
          /\ \/ pc'["host"] = h
             \/ pc'["host"] = Attached(h) /\ gate' = "granted" /\ gate # "granted"
      BY <1>5, <1>9, <2>1, <2>2 DEF HostsOwn, ViewersOwn, ViewerLosesConnection
    <2>4. gate' # "closed" => h.remote.age = "present"
      BY <1>1, <1>3, <2>1 DEF LinkOK, Paired
    <2>5. /\ Exchange(pc'["host"], pc'["viewer"], x, y)
          /\ Candidates(pc'["host"], pc'["viewer"], x, y)
          /\ pc'["host"].open /\ pc'["host"].remote = h.remote
      BY <1>2, <2>1, <2>3, <2>4, HostAttaches
    <2>6. PeersOK'
      BY <1>5, <1>6, <1>9, <2>5, PeersNext
    <2>7. LinkOK'
      BY <1>1, <1>7, <1>9, <2>4, <2>5 DEF LinkOK
    <2>. QED
      BY <2>6, <2>7 DEF NegotiationInv
  <1>10. CASE ~HostGetsConnection /\ ~HostKeepsConnection
    <2>1. /\ pc'["viewer"] = NoConn \/ pc'["viewer"] = v
          /\ pc'["host"] = NoConn
          /\ wire'["viewer"] = <<>> /\ wire'["host"] = <<>>
      BY <1>5, <1>10 DEF HostsOwn, ViewersOwn
    <2>2. Exchange(NoConn, pc'["viewer"], <<>>, <<>>)
      BY <1>2, <2>1, HostCloses, ViewerCloses
    <2>3. Emptied(pc'["viewer"])
      BY <1>2, <2>1, OpenConns DEF Candidates, Emptied
    <2>4. Candidates(NoConn, pc'["viewer"], <<>>, <<>>)
      BY <2>3, OpenConns, NobodySends
    <2>5. PeersOK'
      BY <1>5, <1>6, <2>1, <2>2, <2>4, PeersNext
    <2>6. LinkOK'
      BY <1>1, <1>7, <1>10, <2>1, OpenConns DEF LinkOK
    <2>. QED
      BY <2>5, <2>6 DEF NegotiationInv
  <1>. QED
    BY <1>8, <1>9, <1>10

LEMMA InitNegotiation == ConnectionInit => NegotiationInv
  <1>. SUFFICES ASSUME ConnectionInit PROVE NegotiationInv
    OBVIOUS
  <1>1. /\ DOMAIN pc = End /\ DOMAIN wire = End /\ outbox = <<>>
        /\ pc["host"] = NoConn /\ pc["viewer"] = NoConn
        /\ wire["viewer"] = <<>> /\ wire["host"] = <<>>
    BY DEF ConnectionInit, PeersInit, End
  <1>2. client = "none" /\ link = "none" /\ ~NoConn.open
    BY OpenConns DEF ConnectionInit, Init
  <1>3. Exchange(NoConn, NoConn, <<>>, <<>>)
    BY <1>2, EmptyQueue DEF Exchange, Typed, OneToken, HostKeeps, HostWaits, InOrder,
       AtHost, AtViewer, ToTheViewer, ToTheHost, ViewerKeeps
  <1>4. Candidates(NoConn, NoConn, <<>>, <<>>)
    BY <1>2, NobodySends DEF Emptied
  <1>5. PeersOK
    BY <1>1, <1>3, <1>4 DEF PeersOK
  <1>. QED
    BY <1>1, <1>2, <1>5 DEF NegotiationInv, LinkOK

LEMMA NextNegotiation ==
  NegotiationInv /\ (state = "idle" => client = "none")
    /\ link \in {"none", "offered", "up", "gone"} /\ PeerHeld' /\ [ConnectionNext]_allVars
    => NegotiationInv'
  <1>. SUFFICES ASSUME NegotiationInv, state = "idle" => client = "none",
                       link \in {"none", "offered", "up", "gone"}, PeerHeld',
                       [ConnectionNext]_allVars
                PROVE  NegotiationInv'
    OBVIOUS
  <1>1. CASE UNCHANGED allVars
    BY <1>1 DEF allVars, vars, peers, NegotiationInv, PeersOK, LinkOK
  <1>2. CASE ConnectionNext
    BY <1>2, SessionStepKeeps, ViewerAnswersKeeps, ViewerRejectsKeeps, NegotiationStepKeeps
       DEF ConnectionNext
  <1>. QED
    BY <1>1, <1>2

LEMMA NegotiationNoGlare == NegotiationInv => NoGlare
  <1>. SUFFICES ASSUME NegotiationInv PROVE NoGlare
    OBVIOUS
  <1>1. /\ Exchange(pc["host"], pc["viewer"], wire["viewer"], wire["host"])
        /\ wire["viewer"] \in Seq(ToViewer) /\ wire["host"] \in Seq(ToHost)
        /\ pc["viewer"].open => pc["viewer"] \in ViewerConns
    BY Beginning, OpenTyped
  <1>2. ASSUME NEW i \in DOMAIN wire["host"], wire["host"][i].type # "ice"
        PROVE  wire["host"][i].body.type = "answer"
    <2>1. wire["host"][i] \in ToHost
      BY <1>1, ElementOfSeq
    <2>. QED
      BY <1>2, <2>1, FrameKinds, Descriptions
  <1>3. ASSUME wire["viewer"] # <<>>, pc["viewer"].open, Head(wire["viewer"]).type # "ice"
        PROVE  ~offerCollision(pc["viewer"], Head(wire["viewer"]).body)
    <2>1. Head(wire["viewer"]) \in OfferFrames
      BY <1>1, <1>3, TailShape, FrameKinds
    <2>. QED
      BY <1>1, <1>3, <2>1, OfferMeetsNothing DEF offerCollision
  <1>. QED
    BY <1>2, <1>3 DEF NoGlare

LEMMA NextNegotiationInv ==
  SessionInv /\ PeerHeld /\ NegotiationInv /\ [ConnectionNext]_allVars
    => PeerHeld' /\ NegotiationInv'
  <1>1. SessionInv => /\ state = "idle" => client = "none"
                      /\ link \in {"none", "offered", "up", "gone"}
    BY DEF SessionInv, IdleHoldsNothing, TypeOK
  <1>2. SessionInv /\ PeerHeld /\ [ConnectionNext]_allVars => PeerHeld'
    BY ConnectionNextMaps, PeerHeldStep
  <1>. QED
    BY <1>1, <1>2, NextNegotiation

LEMMA NegotiationInvariant == ConnectionSpec => []NegotiationInv
  <1>1. ConnectionSpec => []SessionInv
    BY ConnectionImplementsSession, SessionInvariant, PTL
  <1>2. ConnectionInit => PeerHeld
    BY DEF ConnectionInit, Init, PeerHeld
  <1>. QED
    BY <1>1, <1>2, InitNegotiation, NextNegotiationInv, PTL DEF ConnectionSpec

(***************************************************************************)
(* peer.ts:351, "exactly one offer per connection (single offer path, no   *)
(* glare)": an offer never meets an exchange under way, and the host is    *)
(* never sent one, however many reconnects, rebuilds, late grants and      *)
(* stale answers lie behind it and however many frames are on their way.   *)
(***************************************************************************)
THEOREM ConnectionNoGlare == ConnectionSpec => []NoGlare
  BY NegotiationInvariant, NegotiationNoGlare, PTL

LEMMA ReachedIsKept ==
  ASSUME NEW c, NEW S \in {ToHost, ToViewer}, NEW q \in Seq(S), NEW D, NEW O,
         Reaches(c, q, D, O), c.open, c.remote.age = "present", ~c.got
  PROVE  \/ \E i \in DOMAIN q : q[i] = [type |-> "ice", body |-> [age |-> "present"]]
         \/ \E i \in DOMAIN c.chain : c.chain[i][1] = "candidates"
  <1>1. Has(q, PresentIce) \/ Has(c.chain, Carrying)
    BY DEF Reaches
  <1>2. ASSUME NEW m \in PresentIce
        PROVE  m = [type |-> "ice", body |-> [age |-> "present"]]
    BY DEF PresentIce, IceFrames, Candidate
  <1>3. \A op \in Carrying : op[1] = "candidates"
    BY DEF Carrying
  <1>. QED
    BY <1>1, <1>2, <1>3 DEF Has

LEMMA NegotiationCandidates == NegotiationInv => CandidatesKept
  <1>. SUFFICES ASSUME NegotiationInv PROVE CandidatesKept
    OBVIOUS
  <1>. DEFINE Ice == [type |-> "ice", body |-> [age |-> "present"]]
              Arrives(from, to, q) ==
                /\ to.open /\ to.remoteDescriptionSet => to.pendingCandidates = <<>>
                /\ from.open /\ to.open /\ from.gather = "sent"
                   /\ from.local.age = "present" /\ to.remote.age = "present" =>
                     \/ to.got
                     \/ \E i \in DOMAIN q : q[i] = Ice
                     \/ \E i \in DOMAIN to.chain : to.chain[i][1] = "candidates"
              h == pc["host"]
              v == pc["viewer"]
              x == wire["viewer"]
              y == wire["host"]
  <1>1. Candidates(h, v, x, y) /\ x \in Seq(ToViewer) /\ y \in Seq(ToHost)
    BY Beginning, OpenTyped
  <1>2. Arrives(v, h, y)
    <2>1. ASSUME v.open, h.open, v.gather = "sent", v.local.age = "present",
                 h.remote.age = "present", ~h.got
          PROVE  \/ \E i \in DOMAIN y : y[i] = Ice
                 \/ \E i \in DOMAIN h.chain : h.chain[i][1] = "candidates"
      <3>1. Reaches(h, y, FreshAnswers, Answered)
        BY <1>1, <2>1 DEF Candidates, SentBy
      <3>. QED
        BY <1>1, <2>1, <3>1, ReachedIsKept
    <2>. QED
      BY <1>1, <2>1 DEF Candidates, Emptied
  <1>3. Arrives(h, v, x)
    <2>1. ASSUME h.open, v.open, h.gather = "sent", h.local.age = "present",
                 v.remote.age = "present", ~v.got
          PROVE  \/ \E i \in DOMAIN x : x[i] = Ice
                 \/ \E i \in DOMAIN v.chain : v.chain[i][1] = "candidates"
      <3>1. Reaches(v, x, OfferFrames, Offered)
        BY <1>1, <2>1 DEF Candidates, SentBy
      <3>. QED
        BY <1>1, <2>1, <3>1, ReachedIsKept
    <2>. QED
      BY <1>1, <2>1 DEF Candidates, Emptied
  <1>4. \A e \in End : Arrives(pc[Other(e)], pc[e], wire[e])
    BY <1>2, <1>3 DEF End, Other
  <1>. HIDE DEF h, v, x, y
  <1>. QED
    BY <1>4 DEF CandidatesKept

(***************************************************************************)
(* peer.ts:441, early candidates: trickled before the description they     *)
(* belong to, queued, drained, or lost with the connection they were for,  *)
(* no candidate of the other end is missing once its description is here.  *)
(***************************************************************************)
THEOREM ConnectionCandidatesKept == ConnectionSpec => []CandidatesKept
  BY NegotiationInvariant, NegotiationCandidates, PTL

=============================================================================
