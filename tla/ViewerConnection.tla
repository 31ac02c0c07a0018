--------------------------- MODULE ViewerConnection ---------------------------
(***************************************************************************)
(* A viewer's session together with the negotiation beneath it: every step *)
(* of ViewerSession.tla does to the connections of PeerNegotiation.tla     *)
(* what the code does, and what the session takes for granted there, that  *)
(* an offer is answered and that the stream arrives, is now the work of    *)
(* the two Peers.                                                          *)
(***************************************************************************)
EXTENDS ViewerSession, PeerNegotiation

allVars == <<vars, peers>>

ConnectionInit == Init /\ PeersInit

----------------------------------------------------------------------------
(* Steps of the session *)

HostGetsConnection == client = "joining" /\ client' = "joined"
HostKeepsConnection == link' \in {"offered", "up"} /\ link # "none" /\ link # "gone"

\* teardown, rebuild and peer-left close the viewer's connection.  One to a
\* host whose departure was not heard is never addressed again.
ViewerLosesConnection ==
  \/ peer' = "none"
  \/ client = "evicting" /\ client' # "evicting"
  \/ host /\ ~host' /\ client # "joined"

\* peer-joined of the host makes a connection, if the Peer was there to hear it.
ViewersOwn ==
  IF ViewerLosesConnection THEN NoConn
  ELSE IF ~HostGetsConnection THEN pc["viewer"]
  ELSE IF pc["viewer"].open THEN Aged(pc["viewer"])
  ELSE IF peer # "none" THEN ViewerConn
  ELSE NoConn

HostsOwn ==
  IF HostGetsConnection THEN HostConnection(~gated)
  ELSE IF ~HostKeepsConnection THEN NoConn
  ELSE IF gate' = "granted" /\ gate # "granted" THEN Attached(pc["host"])
  ELSE pc["host"]

\* Frames in flight are lost with the socket; those that wait for it follow
\* the replayed join.
Follow ==
  /\ pc' = [e \in End |-> IF e = "host" THEN HostsOwn ELSE ViewersOwn]
  /\ wire' = IF HostKeepsConnection THEN wire
             ELSE [e \in End |-> IF e = "host" /\ HostGetsConnection
                                 THEN AgedFrames(outbox) ELSE <<>>]
  /\ outbox' = IF client' \in {"opening", "joining"} /\ peer' # "none"
               THEN outbox ELSE <<>>
  /\ line' = CASE client' = "joined" -> "room"
               [] client' \in {"opening", "joining"} -> "queue"
               [] OTHER -> "lost"

\* ICE connects what was exchanged between the two present connections.
Paired == /\ pc["host"].open /\ pc["viewer"].open
          /\ pc["host"].remote.age = "present"
          /\ pc["viewer"].remote.age = "present"
          /\ pc["viewer"].local.type = "answer"

\* Assumption: what the viewer has begun for an earlier connection of the host
\* is done when it is back in the room, a reconnect delay later.
Quiet == pc["viewer"].open => pc["viewer"].chain = <<>>

SessionStep ==
  /\ \/ Connect \/ Disconnect
     \/ PathDrops \/ PathFails \/ GraceTimer
     \/ PathUp /\ Paired
     \/ SocketOpens \/ SocketDrops \/ SocketFails \/ (Joined /\ Quiet) \/ Refused \/ AckTimeout
     \/ HostArrives \/ HostLeaves \/ PeerLeft \/ (ControlOpens /\ Paired) \/ Verdict
     \/ SubmitPin \/ ReadFrame
     \/ Track /\ pc["viewer"].remote.level = 2
  /\ Follow

----------------------------------------------------------------------------
(* Steps of the negotiation *)

\* The viewer's answer starts ICE at its end.
Answers == /\ Ending("viewer", "answer") \/ Ending("viewer", "offer")
           /\ pc["viewer"].signalingState = "have-remote-offer"

ViewerAnswers ==
  /\ Answers
  /\ LocalDone("viewer")
  /\ IF link = "offered" /\ pc["viewer"].remote.age = "present"
     THEN Offer /\ link' = "up"
     ELSE IF peer = "idle" THEN StaleAnswer
     ELSE UNCHANGED vars

ViewerRejects ==
  /\ RemoteRejected("viewer")
  /\ IF link = "offered" /\ peer # "idle" /\ Op("viewer")[2].age = "present"
     THEN Offer /\ link' = "gone"
     ELSE UNCHANGED vars

NegotiationStep ==
  /\ \/ \E e \in End : \/ NegotiationNeeded(e) \/ Gather(e) \/ Receive(e)
                       \/ RemoteDone(e) \/ CandidateDone(e)
     \/ LocalDone("host") \/ RemoteRejected("host")
     \/ ~Answers /\ LocalDone("viewer")
  /\ UNCHANGED vars

ConnectionNext ==
  \/ SessionStep
  \/ ViewerAnswers
  \/ ViewerRejects
  \/ NegotiationStep

ConnectionSpec == ConnectionInit /\ [][ConnectionNext]_allVars

----------------------------------------------------------------------------
(* Safety *)

(***************************************************************************)
(* peer.ts:351, "exactly one offer per connection (single offer path, no   *)
(* glare)": whatever drops, is rebuilt or granted, no offer meets an       *)
(* exchange under way, and none is ever on its way to the host.            *)
(***************************************************************************)
NoGlare ==
  /\ \A i \in DOMAIN wire["host"] :
       wire["host"][i].type # "ice" => wire["host"][i].body.type = "answer"
  /\ wire["viewer"] # <<>> /\ pc["viewer"].open =>
       LET m == Head(wire["viewer"])
       IN m.type # "ice" => ~offerCollision(pc["viewer"], m.body)

(***************************************************************************)
(* peer.ts:441, early candidates: once an end has the description they     *)
(* belong to, every candidate the other end has sent for it is applied, on *)
(* its way or in the hands of the connection, and none stays in the queue. *)
(***************************************************************************)
CandidatesKept ==
  \A e \in End :
    LET from == pc[Other(e)]
        to   == pc[e]
    IN /\ to.open /\ to.remoteDescriptionSet => to.pendingCandidates = <<>>
       /\ from.open /\ to.open /\ from.gather = "sent"
          /\ from.local.age = "present" /\ to.remote.age = "present" =>
            \/ to.got
            \/ \E i \in DOMAIN wire[e] :
                 wire[e][i] = [type |-> "ice", body |-> [age |-> "present"]]
            \/ \E i \in DOMAIN to.chain : to.chain[i][1] = "candidates"

----------------------------------------------------------------------------
(* Liveness *)

(***************************************************************************)
(* The fairness of the session, except that an offer is answered and a     *)
(* stream arrives only by what the Peers do, who take their steps.  A path *)
(* whose other end was closed drops.                                       *)
(***************************************************************************)
ConnectionFairness ==
  /\ WF_allVars((SocketOpens \/ SocketFails) /\ Follow)
  /\ WF_allVars(((Joined /\ Quiet) \/ Refused) /\ Follow)
  /\ WF_allVars(client \in {"refused", "evicted"} /\ SocketDrops /\ Follow)
  /\ WF_allVars(AckTimeout /\ Follow)
  /\ WF_allVars(GraceTimer /\ Follow)
  /\ WF_allVars(PeerLeft /\ Follow)
  /\ WF_allVars(((PathUp /\ Paired) \/ PathFails) /\ Follow)
  /\ WF_allVars(~Paired /\ PathDrops /\ Follow)
  /\ SF_allVars(PathUp /\ Paired /\ Follow)
  /\ WF_allVars(ControlOpens /\ Paired /\ Follow)
  /\ WF_allVars(ReadFrame /\ Follow)
  /\ SF_allVars(Track /\ pc["viewer"].remote.level = 2 /\ Follow)
  /\ WF_allVars(NegotiationStep \/ ViewerAnswers \/ ViewerRejects)

Exchanging == \E e \in End : wire[e] # <<>> \/ (pc[e].open /\ pc[e].chain # <<>>)

\* What a network that holds does not do: take a socket from its room, take
\* the host, or let ICE give up before the ends have told each other all they
\* have to.
Disturbance ==
  \/ client \in {"joining", "joined"} /\ SocketDrops
  \/ HostLeaves
  \/ peer = "connecting" /\ Exchanging /\ ~graceTimer /\ PathFails

\* The network holds in the end, however long it did not.
ConnectionFairSpec ==
  ConnectionSpec /\ ConnectionFairness /\ <>[][~Disturbance]_allVars
=============================================================================
