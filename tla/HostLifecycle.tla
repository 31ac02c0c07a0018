---------------------------- MODULE HostLifecycle ----------------------------
(***************************************************************************)
(* The life of a host session: SessionController (packages/host/src/       *)
(* renderer/renderer.ts), the phases of HostSession.start() and stop()     *)
(* (packages/host/src/host-session.ts), the client that keeps the host in  *)
(* its room (SignalingClient.tla), and the room of the session code as the *)
(* server keeps it (SignalingServer.tla).                                  *)
(*                                                                         *)
(* Nothing keeps the operator from picking another source while a start    *)
(* awaits its capture, its socket or its acknowledgement.  What a switch   *)
(* of a live session's source does is in HostCapture.tla.                  *)
(***************************************************************************)
EXTENDS FiniteSets

CONSTANTS Session,  \* HostSession objects, one per startSession()
          None,     \* this.session is null
          Free,     \* no room has the code
          Other     \* another host's room has it

ASSUME LifecycleAssumption ==
  /\ None \notin Session
  /\ Free # Other /\ {Free, Other} \cap Session = {}

VARIABLES
  phase,      \* of a start(): "unused" | "capture" | "socket" | "ack" |
              \*  "live": it resolved | "failed" | "stopped"
  stream,     \* sessions whose capture runs
  client,     \* their SignalingClient: "none" | "opening" | "open" | "closed"
  asked,      \* the join of the open socket: "none" | "sent" | "joined" | "refused"
  currentSession, \* SessionController.session
  holder,     \* who has the room of the code
  fresh,      \* the holder's connection is the open socket of its client
  overlapped, \* history: a start was called while another was under way
  gone        \* the window was unloaded

session == <<phase, stream, currentSession, overlapped, gone>>
lifecycleVars == <<session, client, asked, holder, fresh>>

LifecycleInit ==
  /\ phase = [j \in Session |-> "unused"]
  /\ stream = {}
  /\ client = [j \in Session |-> "none"]
  /\ asked = [j \in Session |-> "none"]
  /\ currentSession = None
  /\ holder \in {Free, Other}
  /\ fresh = FALSE
  /\ overlapped = FALSE
  /\ gone = FALSE

Starting(j) == phase[j] \in {"capture", "socket", "ack"}

(***************************************************************************)
(* The server's end of a connection that ended: it does not know yet, and  *)
(* a join on its way may still be accepted.                                *)
(***************************************************************************)
HangUp(j) ==
  \/ /\ UNCHANGED holder
     /\ fresh' = (fresh /\ holder # j)
  \/ /\ asked[j] = "sent" /\ holder = Free
     /\ holder' = j
     /\ fresh' = FALSE

\* Mutant: stop() forgets the client.
StopKeepsClient(j) ==
  /\ stream' = stream \ {j}
  /\ UNCHANGED <<client, asked, holder, fresh>>

\* HostSession.stop().
StopSession(j) ==
  /\ stream' = stream \ {j}
  /\ client' = [client EXCEPT ![j] = IF @ = "none" THEN "none" ELSE "closed"]
  /\ asked' = [asked EXCEPT ![j] = "none"]
  /\ HangUp(j)

\* Mutant: start() passes the error on, and leaves the rest to the caller,
\* who only drops its reference.
StartFailsOpen(j) ==
  /\ phase' = [phase EXCEPT ![j] = "failed"]
  /\ currentSession' = None
  /\ UNCHANGED <<stream, client, asked, holder, fresh, overlapped, gone>>

\* start() rejects: its catch clause stops the session, and the controller's
\* drops the reference, whichever session that refers to.
StartFails(j) ==
  /\ StopSession(j)
  /\ phase' = [phase EXCEPT ![j] = "failed"]
  /\ currentSession' = None
  /\ UNCHANGED <<overlapped, gone>>

(***************************************************************************)
(* startSession(), at boot and by changeSource() while there is no session *)
(* to switch in place.                                                     *)
(***************************************************************************)
StartSession(j) ==
  /\ ~gone /\ currentSession = None
  /\ phase[j] = "unused"
  /\ phase' = [phase EXCEPT ![j] = "capture"]
  /\ overlapped' = (overlapped \/ \E k \in Session : Starting(k))
  /\ UNCHANGED <<stream, client, asked, currentSession, holder, fresh, gone>>

\* The capture comes first: nobody is told of a room without a screen.
Captured(j) ==
  /\ phase[j] = "capture"
  /\ phase' = [phase EXCEPT ![j] = "socket"]
  /\ stream' = stream \cup {j}
  /\ client' = [client EXCEPT ![j] = "opening"]
  /\ UNCHANGED <<asked, currentSession, holder, fresh, overlapped, gone>>

CaptureFails(j) ==
  /\ phase[j] = "capture"
  /\ StartFails(j)

(***************************************************************************)
(* A socket opens, the first or a later one, and the join is written.      *)
(***************************************************************************)
SocketOpens(j) ==
  /\ client[j] = "opening"
  /\ client' = [client EXCEPT ![j] = "open"]
  /\ asked' = [asked EXCEPT ![j] = "sent"]
  /\ phase' = [phase EXCEPT ![j] = IF @ = "socket" THEN "ack" ELSE @]
  /\ UNCHANGED <<stream, currentSession, holder, fresh, overlapped, gone>>

SocketFails(j) ==
  /\ phase[j] = "socket"
  /\ StartFails(j)

SocketDrops(j) ==
  /\ client[j] = "open"
  /\ client' = [client EXCEPT ![j] = "opening"]
  /\ asked' = [asked EXCEPT ![j] = "none"]
  /\ HangUp(j)
  /\ UNCHANGED session

(***************************************************************************)
(* The server answers a join: a code has one host, and it may be an        *)
(* earlier connection of the same session.                                 *)
(***************************************************************************)
ServerJoin(j) ==
  /\ asked[j] = "sent"
  /\ asked' = [asked EXCEPT ![j] = IF holder = Free THEN "joined" ELSE "refused"]
  /\ IF holder = Free THEN holder' = j /\ fresh' = TRUE
                      ELSE UNCHANGED <<holder, fresh>>
  /\ UNCHANGED <<session, client>>

\* Mutant: the deadline is for sockets that have not asked.
JoinDeadlineOfTheSilent(j) ==
  /\ client[j] = "open" /\ asked[j] = "none"
  /\ client' = [client EXCEPT ![j] = "opening"]
  /\ UNCHANGED <<session, asked, holder, fresh>>

\* The join deadline ends a connection that was refused.
JoinDeadline(j) ==
  /\ client[j] = "open" /\ asked[j] = "refused"
  /\ client' = [client EXCEPT ![j] = "opening"]
  /\ asked' = [asked EXCEPT ![j] = "none"]
  /\ UNCHANGED <<session, holder, fresh>>

\* The `close' of an old connection arrives, or the heartbeat finds it dead.
ServerReaps ==
  /\ holder \in Session /\ ~fresh
  /\ holder' = Free
  /\ UNCHANGED <<session, client, asked, fresh>>

OtherHost ==
  /\ \/ holder = Free /\ holder' = Other
     \/ holder = Other /\ holder' = Free
  /\ UNCHANGED <<session, client, asked, fresh>>

(***************************************************************************)
(* awaitHostJoinAck().  Whichever socket of the client the acknowledgement *)
(* comes on, it resolves the start; nobody listens for one afterwards.     *)
(***************************************************************************)
Joined(j) ==
  /\ phase[j] = "ack" /\ asked[j] = "joined"
  /\ phase' = [phase EXCEPT ![j] = "live"]
  /\ currentSession' = j
  /\ UNCHANGED <<stream, client, asked, holder, fresh, overlapped, gone>>

Refused(j) ==
  /\ phase[j] = "ack" /\ asked[j] = "refused"
  /\ StartFails(j)

AckTimeout(j) ==
  /\ phase[j] = "ack"
  /\ StartFails(j)

(***************************************************************************)
(* onLifecycle('unload') stops the session that is current, if any, and    *)
(* the window's page ends with what else it holds.                         *)
(***************************************************************************)
Unload ==
  /\ ~gone
  /\ gone' = TRUE
  /\ phase' = [j \in Session |-> IF phase[j] \in {"unused", "failed"} THEN phase[j]
                                 ELSE "stopped"]
  /\ stream' = {}
  /\ client' = [j \in Session |-> IF client[j] = "none" THEN "none" ELSE "closed"]
  /\ asked' = [j \in Session |-> "none"]
  /\ fresh' = FALSE
  /\ UNCHANGED <<currentSession, holder, overlapped>>

LifecycleNext ==
  \/ \E j \in Session :
       \/ StartSession(j) \/ Captured(j) \/ CaptureFails(j)
       \/ SocketOpens(j) \/ SocketFails(j) \/ SocketDrops(j)
       \/ ServerJoin(j) \/ JoinDeadline(j)
       \/ Joined(j) \/ Refused(j) \/ AckTimeout(j)
  \/ ServerReaps \/ OtherHost \/ Unload

LifecycleSpec == LifecycleInit /\ [][LifecycleNext]_lifecycleVars

-----------------------------------------------------------------------------

LifecycleTypeOK ==
  /\ phase \in [Session -> {"unused", "capture", "socket", "ack", "live",
                            "failed", "stopped"}]
  /\ stream \subseteq Session
  /\ client \in [Session -> {"none", "opening", "open", "closed"}]
  /\ asked \in [Session -> {"none", "sent", "joined", "refused"}]
  /\ \A j \in Session : client[j] = "open" <=> asked[j] # "none"
  /\ currentSession \in Session \cup {None}
  /\ holder \in Session \cup {Free, Other}
  /\ fresh \in BOOLEAN /\ overlapped \in BOOLEAN /\ gone \in BOOLEAN

(***************************************************************************)
(* A room that viewers can join has a screen: no dead room is listed, by a *)
(* start that failed half way or by a session that was stopped             *)
(* (host-session.ts:480); and whenever the server takes the host's         *)
(* connection for the present one, it has answered that connection's join. *)
(***************************************************************************)
AdvertisedHasScreen ==
  fresh => /\ holder \in stream
           /\ client[holder] = "open" /\ asked[holder] = "joined"

(***************************************************************************)
(* Whatever runs can be stopped: a capture or a client belongs to the      *)
(* session the controller knows, or to a start under way.  While starts    *)
(* do not overlap, nothing escapes.                                        *)
(***************************************************************************)
Runs(j) == j \in stream \/ client[j] \in {"opening", "open"}

NothingOrphaned ==
  ~overlapped => \A j \in Session : Runs(j) => j = currentSession \/ Starting(j)

-----------------------------------------------------------------------------
(***************************************************************************)
(* Fairness.  Sockets are retried for ever, the server answers, its        *)
(* deadline and its heartbeat tick, and a join gets through to a code that *)
(* is free again and again.                                                *)
(***************************************************************************)
LifecycleFairness ==
  /\ WF_lifecycleVars(ServerReaps)
  /\ \A j \in Session : /\ WF_lifecycleVars(SocketOpens(j))
                        /\ WF_lifecycleVars(ServerJoin(j))
                        /\ SF_lifecycleVars(holder = Free /\ ServerJoin(j))
                        /\ WF_lifecycleVars(JoinDeadline(j))

LifecycleFairSpec == LifecycleSpec /\ LifecycleFairness

(***************************************************************************)
(* A live host that lost its connection gets its room back, although the   *)
(* code is taken at first, by its own earlier connection: it is refused,   *)
(* nobody tells it, and what helps is that the server ends connections     *)
(* that did not join and the client opens another.                         *)
(***************************************************************************)
InRoom(j) == holder = j /\ fresh

HostComesBack ==
  \A j \in Session :
    phase[j] = "live" ~>
      InRoom(j) \/ phase[j] # "live" \/ holder \notin {j, Free}
=============================================================================
