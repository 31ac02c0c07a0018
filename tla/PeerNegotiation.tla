--------------------------- MODULE PeerNegotiation ---------------------------
(***************************************************************************)
(* The negotiation between the host's Peer and one viewer's                *)
(* (packages/core/src/peer.ts): negotiate(), handleDescription() and       *)
(* handleCandidate() at both ends, which are the same code with another    *)
(* role, over the frames the signaling server relays.                      *)
(*                                                                         *)
(* An RTCPeerConnection takes its operations one after the other; `chain'  *)
(* holds those that have been called and not finished, each with what the  *)
(* code does after it.  A description is its type, the connection of the   *)
(* host it belongs to (the present one or an earlier one) and what it      *)
(* carries; a candidate is the connection it belongs to.                   *)
(*                                                                         *)
(* When the host gets and loses its connection, when the viewer closes its *)
(* own and what becomes of the frames it sends is decided by the sessions  *)
(* (ViewerConnection.tla), through the operators of the last section.      *)
(***************************************************************************)
EXTENDS Naturals, Sequences

CONSTANTS Trickling    \* bound: the ends whose candidates are followed

ASSUME TricklingAssumption == Trickling \subseteq {"host", "viewer"}

VARIABLES
  pc,      \* per end: its RemoteConnection with the RTCPeerConnection in it
  wire,    \* per end: frames on their way to it
  outbox,  \* frames of the viewer that wait for its socket
  line     \* a frame the viewer sends: "room": is relayed | "queue": waits | "lost"

peers == <<pc, wire, outbox, line>>

End      == {"host", "viewer"}
Other(e) == IF e = "host" THEN "viewer" ELSE "host"
polite(e) == e = "viewer"

Levels == 0..2     \* nothing, the data channels, the screen as well
Ages   == {"present", "earlier"}

Description == [type : {"offer", "answer"}, age : Ages, level : Levels]
None        == [type |-> "none", age |-> "earlier", level |-> 0]
Candidate   == [age : Ages]

NoConn == [open |-> FALSE]

\* ensureConnection(): `want' is what was added to the connection, `agreed'
\* what an exchange has carried, `fired' the browser's [[NegotiationNeeded]].
Conn(want) ==
  [open |-> TRUE, signalingState |-> "stable", chain |-> <<>>,
   makingOffer |-> FALSE, remoteDescriptionSet |-> FALSE,
   pendingCandidates |-> <<>>, want |-> want, agreed |-> 0, fired |-> FALSE,
   local |-> None, remote |-> None, gather |-> "no", got |-> FALSE]

\* Mutant: both ends create the channels.
ViewerConnWithChannels == Conn(1)

\* The channels are the host's to create.
ViewerConn == Conn(0)

Then(c, op) == [c EXCEPT !.chain = Append(@, op)]

----------------------------------------------------------------------------
(* The functions of Peer *)

negotiate(c) ==
  IF c.makingOffer \/ c.signalingState # "stable" THEN c
  ELSE Then([c EXCEPT !.makingOffer = TRUE], <<"offer">>)

offerCollision(c, d) ==
  d.type = "offer" /\ (c.makingOffer \/ c.signalingState # "stable")

\* An offer in collision is ignored by the host and rolled back for by the
\* viewer.  What follows that rollback is left out: NoGlare.
handleDescription(e, c, d) ==
  IF ~offerCollision(c, d) THEN Then(c, <<"remote", d>>)
  ELSE IF polite(e) THEN Then(c, <<"rollback", d>>)
  ELSE c

handleCandidate(c, cand) ==
  IF c.remoteDescriptionSet THEN Then(c, <<"candidates", <<cand>>, None>>)
  ELSE [c EXCEPT !.pendingCandidates = Append(@, cand)]

\* The rest of handleDescription() after the candidates.
Answer(c, d) == IF d.type = "offer" THEN Then(c, <<"answer">>) ELSE c

\* Mutant: what was queued is forgotten.
drainForgets(c, d) ==
  Answer([c EXCEPT !.remoteDescriptionSet = TRUE, !.pendingCandidates = <<>>], d)

\* drainPendingCandidates(), with the lines around it.
drain(c, d) ==
  LET queued  == c.pendingCandidates
      emptied == [c EXCEPT !.remoteDescriptionSet = TRUE,
                           !.pendingCandidates = <<>>]
  IN IF queued = <<>> THEN Answer(emptied, d)
     ELSE Then(emptied, <<"candidates", queued, d>>)

----------------------------------------------------------------------------
(* The RTCPeerConnection *)

\* setLocalDescription() without an argument answers a pending offer and
\* offers otherwise.  A new pair of ends gathers candidates anew.
setLocalDescription(e, c) ==
  LET answering == c.signalingState = "have-remote-offer"
      age == IF e = "host" \/ c.remote = None THEN "present" ELSE c.remote.age
      new == IF answering
             THEN [type |-> "answer", age |-> age, level |-> c.remote.level]
             ELSE [type |-> "offer", age |-> age, level |-> c.want]
  IN [c EXCEPT !.local = new,
               !.signalingState = IF answering THEN "stable" ELSE "have-local-offer",
               !.agreed = IF answering THEN c.remote.level ELSE @,
               !.fired = IF answering THEN FALSE ELSE @,
               !.gather = IF c.local = None \/ c.local.age # age THEN "due" ELSE @]

\* A description of another connection than the one this end is paired with:
\* the browser may take it, if its sections match, or reject it.
Foreign(e, c, d) ==
  IF e = "host" THEN d.age # "present"
  ELSE c.remote # None /\ c.remote.age # d.age

setRemoteDescription(c, d) ==
  IF d.type = "offer"
  THEN [c EXCEPT !.signalingState = "have-remote-offer", !.remote = d]
  ELSE [c EXCEPT !.signalingState = "stable", !.remote = d,
                 !.agreed = c.local.level, !.fired = FALSE]

\* addIceCandidate() rejects what belongs to no remote description it has.
addIceCandidate(c, cand) ==
  [c EXCEPT !.got = @ \/ (cand.age = "present" /\ c.remote.age = "present")]

Put(e, frames) ==
  CASE e = "host" -> /\ wire' = [wire EXCEPT !["viewer"] = @ \o frames]
                     /\ UNCHANGED outbox
    [] e = "viewer" /\ line = "room" -> /\ wire' = [wire EXCEPT !["host"] = @ \o frames]
                                        /\ UNCHANGED outbox
    [] e = "viewer" /\ line = "queue" -> /\ outbox' = outbox \o frames
                                         /\ UNCHANGED wire
    [] OTHER -> UNCHANGED <<wire, outbox>>

----------------------------------------------------------------------------
(* One operation of the chain ends, and the code that awaited it goes on *)

Ending(e, kind) ==
  pc[e].open /\ pc[e].chain # <<>> /\ Head(pc[e].chain)[1] = kind

Ended(e) == [pc[e] EXCEPT !.chain = Tail(@)]
Op(e)    == Head(pc[e].chain)

\* setLocalDescription() of negotiate() or of handleDescription(); what it made
\* is sent under the type of the function, whatever it is.
LocalDone(e) ==
  /\ Ending(e, "offer") \/ Ending(e, "answer")
  /\ LET c == setLocalDescription(e, Ended(e))
     IN /\ pc' = [pc EXCEPT ![e] =
                    IF Op(e)[1] = "offer" THEN [c EXCEPT !.makingOffer = FALSE] ELSE c]
        /\ Put(e, <<[type |-> Op(e)[1], body |-> c.local]>>)
  /\ UNCHANGED line

Applicable(c, d) == d.type = "offer" \/ c.signalingState = "have-local-offer"

RemoteDone(e) ==
  /\ Ending(e, "remote")
  /\ Applicable(pc[e], Op(e)[2])
  /\ pc' = [pc EXCEPT ![e] = drain(setRemoteDescription(Ended(e), Op(e)[2]), Op(e)[2])]
  /\ UNCHANGED <<wire, outbox, line>>

RemoteRejected(e) ==
  /\ Ending(e, "remote")
  /\ ~Applicable(pc[e], Op(e)[2]) \/ Foreign(e, pc[e], Op(e)[2])
  /\ pc' = [pc EXCEPT ![e] = Ended(e)]
  /\ UNCHANGED <<wire, outbox, line>>

CandidateDone(e) ==
  /\ Ending(e, "candidates")
  /\ LET c    == addIceCandidate(Ended(e), Head(Op(e)[2]))
         rest == Tail(Op(e)[2])
     IN pc' = [pc EXCEPT ![e] = IF rest = <<>> THEN Answer(c, Op(e)[3])
                                ELSE Then(c, <<"candidates", rest, Op(e)[3]>>)]
  /\ UNCHANGED <<wire, outbox, line>>

----------------------------------------------------------------------------
(* Events *)

\* The browser fires negotiationneeded once until an exchange has ended.
NegotiationNeeded(e) ==
  /\ pc[e].open /\ pc[e].signalingState = "stable" /\ pc[e].chain = <<>>
  /\ pc[e].want > pc[e].agreed /\ ~pc[e].fired
  /\ pc' = [pc EXCEPT ![e] = negotiate([@ EXCEPT !.fired = TRUE])]
  /\ UNCHANGED <<wire, outbox, line>>

\* onicecandidate.
Gather(e) ==
  /\ e \in Trickling /\ pc[e].open /\ pc[e].gather = "due"
  /\ pc' = [pc EXCEPT ![e].gather = "sent"]
  /\ Put(e, <<[type |-> "ice", body |-> [age |-> pc[e].local.age]]>>)
  /\ UNCHANGED line

\* A frame arrives: an offer makes the connection it is for, anything else for
\* a connection that does not exist is dropped.
Receive(e) ==
  /\ wire[e] # <<>>
  /\ LET m == Head(wire[e])
         c == IF ~pc[e].open /\ m.type = "offer" THEN ViewerConn ELSE pc[e]
     IN pc' = [pc EXCEPT ![e] = IF ~c.open THEN c
                                ELSE IF m.type = "ice" THEN handleCandidate(c, m.body)
                                ELSE handleDescription(e, c, m.body)]
  /\ wire' = [wire EXCEPT ![e] = Tail(@)]
  /\ UNCHANGED <<outbox, line>>

----------------------------------------------------------------------------
(* What the sessions do to the connections *)

PeersInit ==
  /\ pc = [e \in End |-> NoConn]
  /\ wire = [e \in End |-> <<>>]
  /\ outbox = <<>>
  /\ line = "lost"

AgedBodies(s) == [i \in DOMAIN s |-> [s[i] EXCEPT !.age = "earlier"]]
AgedFrames(s) == [i \in DOMAIN s |-> [s[i] EXCEPT !.body.age = "earlier"]]

AgedOp(op) ==
  CASE op[1] = "candidates" -> <<op[1], AgedBodies(op[2]), [op[3] EXCEPT !.age = "earlier"]>>
    [] op[1] = "remote" -> <<op[1], [op[2] EXCEPT !.age = "earlier"]>>
    [] OTHER -> op

\* The host has a new connection: all there is belongs to an earlier one.
Aged(c) ==
  IF ~c.open THEN c
  ELSE [c EXCEPT !.chain = [i \in DOMAIN @ |-> AgedOp(@[i])],
                 !.pendingCandidates = AgedBodies(@),
                 !.local.age = "earlier", !.remote.age = "earlier",
                 !.got = FALSE]

\* peer-joined at the host: a connection with its channels, and the stream if
\* it is for everybody; with a stream it offers at once.
HostConnection(stream) == IF stream THEN negotiate(Conn(2)) ELSE Conn(1)

\* attachStreamTo().
Attached(c) == IF c.open THEN [c EXCEPT !.want = 2] ELSE c
=============================================================================
