--------------------------- MODULE SignalingServer ---------------------------
(***************************************************************************)
(* The LAN signaling server (packages/signaling/src/server.ts) with the    *)
(* discovery advertisements that follow its `sessions-changed' event       *)
(* (index.ts, discovery.ts).                                               *)
(*                                                                         *)
(* The server is one Node.js event loop: every handler below runs to       *)
(* completion, so a handler is one action.  What interleaves is the order  *)
(* of socket events, timer ticks and frames.  A socket slot is accepted    *)
(* again after its `close' event: the peer id is a fresh UUID and no event *)
(* of the earlier connection can follow, so the slot itself is the id.     *)
(***************************************************************************)
EXTENDS Naturals, FiniteSets

CONSTANTS Socket,           \* connection slots; also the ids of joined peers
          Code,             \* session codes
          AdvertisableCode, \* the codes of six to nine digits
          Addr,             \* source addresses
          AddrOf,           \* slot -> its source address
          MaxViewers,       \* maxViewersPerRoom; 0 is "no cap"
          MaxJoinFailures,  \* 0 disables the throttle
          MayCrash,         \* slots whose remote end may vanish silently
          NoCode            \* a join frame without a code

ASSUME ServerAssumption ==
  /\ AdvertisableCode \subseteq Code
  /\ NoCode \notin Code
  /\ AddrOf \in [Socket -> Addr]
  /\ MaxViewers \in Nat
  /\ MaxJoinFailures \in Nat
  /\ MayCrash \subseteq Socket
  /\ IsFiniteSet(Socket)

VARIABLES
  sock,        \* "absent" | "open" | "closing": close() called, frames still
               \*  read until the peer answers | "dead": only `close' is left
  mute,        \* the remote end is gone and nobody has noticed
  peer,        \* the `peer' variable of each connection's closure
  alive,       \* heartbeat flag of a joined peer
  joinTimer,   \* is the join deadline of the connection armed?
  rooms,       \* the keys of this.rooms
  members,     \* code -> the peers of its Room
  failures,    \* address -> joinFailures record
  roster,      \* slot -> the peers its client was told of and not told left
  relayed,     \* the <<from, to>> pairs the latest step relayed
  advertised,  \* codes published by discovery
  up           \* close() has not been called

vars == <<sock, mute, peer, alive, joinTimer, rooms, members, failures,
          roster, relayed, advertised, up>>

NoPeer    == [role |-> "none", room |-> NoCode]
NoFailure == [count |-> 0, expired |-> FALSE]

TypeOK ==
  /\ sock \in [Socket -> {"absent", "open", "closing", "dead"}]
  /\ mute \in [Socket -> BOOLEAN]
  /\ peer \in [Socket -> [role : {"none", "host", "viewer"},
                          room : Code \cup {NoCode}]]
  /\ alive \in [Socket -> BOOLEAN]
  /\ joinTimer \in [Socket -> BOOLEAN]
  /\ rooms \subseteq Code
  /\ members \in [Code -> SUBSET Socket]
  /\ failures \in [Addr -> [count : Nat, expired : BOOLEAN]]
  /\ roster \in [Socket -> SUBSET Socket]
  /\ relayed \subseteq Socket \X Socket
  /\ advertised \subseteq AdvertisableCode
  /\ up \in BOOLEAN

Init ==
  /\ sock = [s \in Socket |-> "absent"]
  /\ mute = [s \in Socket |-> FALSE]
  /\ peer = [s \in Socket |-> NoPeer]
  /\ alive = [s \in Socket |-> FALSE]
  /\ joinTimer = [s \in Socket |-> FALSE]
  /\ rooms = {}
  /\ members = [c \in Code |-> {}]
  /\ failures = [a \in Addr |-> NoFailure]
  /\ roster = [s \in Socket |-> {}]
  /\ relayed = {}
  /\ advertised = {}
  /\ up = TRUE

----------------------------------------------------------------------------
(* Rooms *)

Hosts(c)   == {s \in members[c] : peer[s].role = "host"}
Viewers(c) == {s \in members[c] : peer[s].role = "viewer"}
HasHost(c) == Hosts(c) # {}
Joined(s)  == peer[s].role # "none"
InRoom(s)  == \E c \in rooms : s \in members[c]

\* listSessions(): the rooms somebody can join right now.
Listed == {c \in rooms : HasHost(c)}

\* A frame of s reaches the `message' listener: ws keeps reading while the
\* closing handshake is under way.
Speaks(s) == sock[s] \in {"open", "closing"} /\ ~mute[s]

\* `sessions-changed' is synchronous: discovery re-syncs inside the handler
\* for as long as index.ts keeps the listener attached.
EmitSessionsChanged ==
  advertised' = IF up' THEN Listed' \cap AdvertisableCode ELSE {}

----------------------------------------------------------------------------
(* The brute-force throttle on viewer joins *)

\* Mutant: one failure too many.
isJoinThrottledLate(a) == /\ MaxJoinFailures > 0
                          /\ failures[a].count > MaxJoinFailures
                          /\ ~failures[a].expired

\* An expired record no longer counts: isJoinThrottled() drops it on its way.
isJoinThrottled(a) == /\ MaxJoinFailures > 0
                      /\ failures[a].count >= MaxJoinFailures
                      /\ ~failures[a].expired

Refreshed(a) == IF failures[a].expired THEN NoFailure ELSE failures[a]

recordJoinFailure(a) ==
  failures' = [failures EXCEPT ![a] =
                 IF MaxJoinFailures = 0 THEN @
                 ELSE [Refreshed(a) EXCEPT !.count = @ + 1]]

WindowExpires(a) ==
  /\ failures[a].count > 0 /\ ~failures[a].expired
  /\ failures' = [failures EXCEPT ![a].expired = TRUE]
  /\ relayed' = {}
  /\ UNCHANGED <<sock, mute, peer, alive, joinTimer, rooms, members, roster,
                 advertised, up>>

----------------------------------------------------------------------------
(* Connecting and joining *)

Accept(s) ==
  /\ up
  /\ sock[s] = "absent"
  /\ sock' = [sock EXCEPT ![s] = "open"]
  /\ joinTimer' = [joinTimer EXCEPT ![s] = TRUE]
  /\ relayed' = {}
  /\ UNCHANGED <<mute, peer, alive, rooms, members, failures, roster,
                 advertised, up>>

\* Mutant: the deadline closes the peers that joined instead of the others.
JoinTimeoutOfPeers(s) ==
  /\ joinTimer[s]
  /\ joinTimer' = [joinTimer EXCEPT ![s] = FALSE]
  /\ sock' = IF Joined(s) /\ sock[s] = "open"
             THEN [sock EXCEPT ![s] = "closing"] ELSE sock
  /\ relayed' = {}
  /\ UNCHANGED <<mute, peer, alive, rooms, members, failures, roster,
                 advertised, up>>

JoinTimeout(s) ==
  /\ joinTimer[s]
  /\ joinTimer' = [joinTimer EXCEPT ![s] = FALSE]
  /\ sock' = IF ~Joined(s) /\ sock[s] = "open"
             THEN [sock EXCEPT ![s] = "closing"] ELSE sock
  /\ relayed' = {}
  /\ UNCHANGED <<mute, peer, alive, rooms, members, failures, roster,
                 advertised, up>>

\* Mutant: the newcomer is announced but not told who was there already.
AnnounceOneWay(s, c) ==
  [t \in Socket |-> IF sock[t] = "open" /\ t \in members[c]
                    THEN roster[t] \cup {s} ELSE roster[t]]

\* What the open clients know once s is in room c: the others hear of s, and
\* s of the others.  send() drops what is addressed to a socket not open.
Announce(s, c) ==
  [t \in Socket |->
     IF sock[t] # "open" THEN roster[t]
     ELSE IF t = s THEN members[c]
     ELSE IF t \in members[c] THEN roster[t] \cup {s}
     ELSE roster[t]]

\* The common end of handleJoin(): the closure learns its peer only here.
Register(s, role, c) ==
  /\ rooms' = rooms \cup {c}
  /\ members' = [members EXCEPT ![c] = @ \cup {s}]
  /\ peer' = [peer EXCEPT ![s] = [role |-> role, room |-> c]]
  /\ alive' = [alive EXCEPT ![s] = TRUE]
  /\ joinTimer' = [joinTimer EXCEPT ![s] = FALSE]
  /\ roster' = Announce(s, c)
  /\ relayed' = {}
  /\ UNCHANGED <<sock, mute, up>>

\* Mutant: handleJoin() without its one-host check.
HostJoinUnchecked(s, c) ==
  /\ Speaks(s) /\ ~Joined(s)
  /\ Register(s, "host", c)
  /\ EmitSessionsChanged
  /\ UNCHANGED failures

\* The code is the client's own or freshly minted: mintCode() only returns a
\* code without a room, which is one of the codes this accepts.
HostJoin(s, c) ==
  /\ Speaks(s) /\ ~Joined(s)
  /\ ~HasHost(c)                               \* else `host-exists'
  /\ Register(s, "host", c)
  /\ EmitSessionsChanged
  /\ UNCHANGED failures

HasSeat(c) == MaxViewers > 0 => Cardinality(Viewers(c)) < MaxViewers

ViewerJoin(s, c) ==
  /\ Speaks(s) /\ ~Joined(s)
  /\ ~isJoinThrottled(AddrOf[s])               \* else `too-many-attempts'
  /\ failures' = [failures EXCEPT ![AddrOf[s]] = Refreshed(AddrOf[s])]
  /\ c \in rooms /\ HasHost(c)
  /\ \/ /\ HasSeat(c)
        /\ Register(s, "viewer", c)
     \/ /\ ~HasSeat(c)                         \* `room-full'
        /\ relayed' = {}
        /\ UNCHANGED <<sock, mute, peer, alive, joinTimer, rooms, members,
                       roster, up>>
  /\ UNCHANGED advertised

\* `missing-code' and `no-such-session' count against the source address.
ViewerJoinFails(s, c) ==
  /\ Speaks(s) /\ ~Joined(s)
  /\ ~isJoinThrottled(AddrOf[s])
  /\ c \in rooms => ~HasHost(c)
  /\ recordJoinFailure(AddrOf[s])
  /\ relayed' = {}
  /\ UNCHANGED <<sock, mute, peer, alive, joinTimer, rooms, members, roster,
                 advertised, up>>

----------------------------------------------------------------------------
(* Relaying *)

\* relay(): the room is looked up by the sender's code, not its membership.
Deliver(s, targets) ==
  /\ Speaks(s) /\ Joined(s)
  /\ peer[s].room \in rooms
  /\ relayed' = {s} \X {t \in targets : sock[t] = "open"}
  /\ UNCHANGED <<sock, mute, peer, alive, joinTimer, rooms, members,
                 failures, roster, advertised, up>>

\* Mutant: the target of `to' is looked up among all peers of the server.
RelayToAnyone(s, t) == Deliver(s, {x \in {t} : InRoom(x)})

RelayTo(s, t) == Deliver(s, members[peer[s].room] \cap {t})

Broadcast(s) == Deliver(s, members[peer[s].room] \ {s})

Pong(s) ==
  /\ Speaks(s) /\ Joined(s)
  /\ alive' = [alive EXCEPT ![s] = TRUE]
  /\ relayed' = {}
  /\ UNCHANGED <<sock, mute, peer, joinTimer, rooms, members, failures,
                 roster, advertised, up>>

----------------------------------------------------------------------------
(* Leaving *)

IsMember(s) == Joined(s) /\ peer[s].room \in rooms /\ s \in members[peer[s].room]

\* Mutant: the host's departure leaves its viewers in the room.
EvictedNobody(s) == {}

\* The peers handleLeave() disconnects when s goes: everyone, if s is the host.
Evicted(s) == IF IsMember(s) /\ peer[s].role = "host"
              THEN members[peer[s].room] \ {s} ELSE {}

\* The room of s once s has left: reaped when empty or when s was its host.
Remaining(s) == members[peer[s].room] \ ({s} \cup Evicted(s))

\* Everyone handleLeave() evicts gets a closing handshake.
Disconnect(s, end) ==
  [t \in Socket |-> IF t = s THEN end
                    ELSE IF t \in Evicted(s) /\ sock[t] = "open" THEN "closing"
                    ELSE sock[t]]

AnnounceDeparture(s) ==
  IF peer[s].role = "host" \/ Remaining(s) = {}
  THEN EmitSessionsChanged ELSE UNCHANGED advertised

\* handleLeave(), with the socket itself going to state `end'.  A second call
\* for the same peer finds it deleted and returns.
handleLeave(s, end) ==
  LET c == peer[s].room
  IN /\ relayed' = {}
     /\ UNCHANGED <<failures, up>>
     /\ sock' = Disconnect(s, end)
     /\ roster' = [t \in Socket |->
                     IF t = s THEN IF end = "absent" THEN {} ELSE roster[t]
                     ELSE IF IsMember(s) /\ t \in members[c] /\ sock[t] = "open"
                     THEN roster[t] \ {s} ELSE roster[t]]
     /\ IF IsMember(s)
        THEN /\ members' = [members EXCEPT ![c] = Remaining(s)]
             /\ rooms' = IF Remaining(s) = {} THEN rooms \ {c} ELSE rooms
             /\ AnnounceDeparture(s)
        ELSE UNCHANGED <<members, rooms, advertised>>

\* The `close' event, after which the connection's closure is garbage.
SocketClosed(s) ==
  /\ \/ sock[s] \in {"closing", "dead"}
     \/ sock[s] = "open" /\ ~mute[s]
  /\ peer' = [peer EXCEPT ![s] = NoPeer]
  /\ mute' = [mute EXCEPT ![s] = FALSE]
  /\ alive' = [alive EXCEPT ![s] = FALSE]
  /\ joinTimer' = [joinTimer EXCEPT ![s] = FALSE]
  /\ handleLeave(s, "absent")

\* The `error' event (a frame ws cannot accept): ws reads no further frame,
\* and a `close' event follows.
SocketError(s) ==
  /\ Speaks(s)
  /\ joinTimer' = [joinTimer EXCEPT ![s] = FALSE]
  /\ UNCHANGED <<peer, mute, alive>>
  /\ handleLeave(s, "dead")

\* The remote end disappears: no frame, no pong and no closing handshake.
Crash(s) ==
  /\ s \in MayCrash /\ sock[s] = "open" /\ ~mute[s]
  /\ mute' = [mute EXCEPT ![s] = TRUE]
  /\ relayed' = {}
  /\ UNCHANGED <<sock, peer, alive, joinTimer, rooms, members, failures,
                 roster, advertised, up>>

\* Mutant: a tick pings but does not take the flag back.
HeartbeatTrusting ==
  /\ up
  /\ sock' = [s \in Socket |-> IF InRoom(s) /\ ~alive[s] THEN "dead" ELSE sock[s]]
  /\ failures' = [a \in Addr |-> Refreshed(a)]
  /\ relayed' = {}
  /\ UNCHANGED <<mute, peer, alive, joinTimer, rooms, members, roster,
                 advertised, up>>

\* One tick of the heartbeat interval, over every member of every room.
Heartbeat ==
  /\ up
  /\ sock' = [s \in Socket |-> IF InRoom(s) /\ ~alive[s] THEN "dead" ELSE sock[s]]
  /\ alive' = [s \in Socket |-> IF InRoom(s) THEN FALSE ELSE alive[s]]
  /\ failures' = [a \in Addr |-> Refreshed(a)]
  /\ relayed' = {}
  /\ UNCHANGED <<mute, peer, joinTimer, rooms, members, roster, advertised,
                 up>>

\* close() of the server, called by close() in index.ts after it detached the
\* listener and destroyed discovery.  Only sockets in rooms are closed.
Shutdown ==
  /\ up
  /\ up' = FALSE
  /\ sock' = [s \in Socket |-> IF InRoom(s) /\ sock[s] = "open"
                               THEN "closing" ELSE sock[s]]
  /\ rooms' = {}
  /\ members' = [c \in Code |-> {}]
  /\ advertised' = {}
  /\ relayed' = {}
  /\ UNCHANGED <<mute, peer, alive, joinTimer, failures, roster>>

Next ==
  \/ \E s \in Socket :
       \/ Accept(s) \/ JoinTimeout(s) \/ Pong(s) \/ Broadcast(s)
       \/ SocketClosed(s) \/ SocketError(s) \/ Crash(s)
       \/ \E c \in Code : HostJoin(s, c) \/ ViewerJoin(s, c)
       \/ \E c \in Code \cup {NoCode} : ViewerJoinFails(s, c)
       \/ \E t \in Socket : RelayTo(s, t)
  \/ \E a \in Addr : WindowExpires(a)
  \/ Heartbeat
  \/ Shutdown

Spec == Init /\ [][Next]_vars

----------------------------------------------------------------------------
(* Safety *)

(***************************************************************************)
(* A room in the map has exactly one host, whatever order joins, leaves,   *)
(* socket errors and heartbeat kills come in: the "hostless room" branches *)
(* of handleJoin() are never taken and listSessions() lists every room.    *)
(***************************************************************************)
OneHostPerRoom ==
  \A c \in Code : /\ c \in rooms => \E h \in members[c] : Hosts(c) = {h}
                  /\ c \notin rooms => members[c] = {}

(***************************************************************************)
(* What others are told is true.  A peer whose socket is open is a member  *)
(* of the room it was told it joined; the joined / peer-joined / peer-left *)
(* messages it has received describe that room exactly, and HostSession    *)
(* and ViewerSession build their peer tables from nothing else; the codes  *)
(* on the LAN are those of the rooms a viewer could join at this moment    *)
(* (index.ts, "truthful discovery").                                       *)
(***************************************************************************)
OpenPeersAreMembers ==
  \A s \in Socket : sock[s] = "open" /\ Joined(s) => IsMember(s)

RosterExact ==
  \A s \in Socket : sock[s] = "open" /\ IsMember(s) =>
                      roster[s] = members[peer[s].room] \ {s}

AdvertisedExact ==
  advertised = IF up THEN Listed \cap AdvertisableCode ELSE {}

ToldTheTruth == OpenPeersAreMembers /\ RosterExact /\ AdvertisedExact

(***************************************************************************)
(* Within one window a source address gets at most maxJoinFailures answers *)
(* that tell an unused code from a used one.                               *)
(***************************************************************************)
FailureBudget ==
  MaxJoinFailures > 0 => \A a \in Addr : failures[a].count <= MaxJoinFailures

(***************************************************************************)
(* Signals travel within a room: what a connected sender has relayed       *)
(* reaches only members of the room it is a member of.                     *)
(***************************************************************************)
ConnectedRelayStaysInRoom ==
  [][\A pair \in relayed' : sock[pair[1]] = "open" =>
       \E c \in rooms : {pair[1], pair[2]} \subseteq members[c]]_vars

(***************************************************************************)
(* The server implements SessionDirectory: one host for as long as a       *)
(* session lasts, and a session ends as a whole.                           *)
(***************************************************************************)
Directory == INSTANCE SessionDirectory WITH
               Member  <- Socket,
               hosts   <- [c \in Code |-> Hosts(c)],
               viewers <- [c \in Code |-> Viewers(c)]

ImplementsDirectory == Directory!DirSpec

----------------------------------------------------------------------------
(* Liveness *)

(***************************************************************************)
(* setInterval() keeps ticking, an armed setTimeout() fires, and ws ends   *)
(* every closing handshake (30 s at most) with a `close' event.            *)
(***************************************************************************)
CloseCompletes(s) == sock[s] \in {"closing", "dead"} /\ SocketClosed(s)

Fairness ==
  /\ WF_vars(Heartbeat)
  /\ \A s \in Socket : WF_vars(JoinTimeout(s)) /\ WF_vars(CloseCompletes(s))

FairSpec == Spec /\ Fairness

(***************************************************************************)
(* A peer that vanished without a word is taken out of its room while the  *)
(* server runs, so its session does not stay listed.                       *)
(***************************************************************************)
VanishedPeersAreReaped ==
  \A s \in Socket : (mute[s] /\ InRoom(s)) ~> (~InRoom(s) \/ ~up)

(***************************************************************************)
(* A connection cannot be parked: it joins a room or ends.                 *)
(***************************************************************************)
NoParkedSocket ==
  \A s \in Socket : (sock[s] # "absent" /\ ~Joined(s)) ~>
                      (sock[s] = "absent" \/ Joined(s))

=============================================================================
