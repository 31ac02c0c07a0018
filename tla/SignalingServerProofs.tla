------------------------ MODULE SignalingServerProofs ------------------------
(***************************************************************************)
(* Type correctness and the room invariants of SignalingServer.tla, for    *)
(* every number of sockets, codes and source addresses; what its clients   *)
(* were told, whom it relays to and how many failures an address has; and  *)
(* that it implements SessionDirectory.tla.                                *)
(***************************************************************************)
EXTENDS SignalingServer, TLAPS

(***************************************************************************)
(* OneHostPerRoom is not inductive alone: it speaks of the role of each    *)
(* member, and only the agreement between a room's table and the `peer'    *)
(* variable of each connection's closure keeps a socket out of two rooms   *)
(* and a leaving peer inside the one room handleLeave() looks at.          *)
(***************************************************************************)
MembersAgree ==
  \A c \in Code : \A s \in members[c] : Joined(s) /\ peer[s].room = c

RoomInv == TypeOK /\ MembersAgree /\ OneHostPerRoom

----------------------------------------------------------------------------

LEMMA InitRoomInv == Init => RoomInv
  BY ServerAssumption
  DEF Init, RoomInv, TypeOK, MembersAgree, OneHostPerRoom, NoPeer, NoFailure, Hosts

LEMMA RefreshedType ==
  ASSUME TypeOK, NEW a \in Addr
  PROVE  Refreshed(a) \in [count : Nat, expired : BOOLEAN]
  BY DEF TypeOK, Refreshed, NoFailure

(***************************************************************************)
(* The room invariants depend on three variables only.                     *)
(***************************************************************************)
LEMMA RoomsUnchanged ==
  ASSUME RoomInv, UNCHANGED <<peer, rooms, members>>
  PROVE  MembersAgree' /\ OneHostPerRoom'
  BY DEF RoomInv, MembersAgree, OneHostPerRoom, Hosts, Joined

LEMMA AcceptStep ==
  ASSUME RoomInv, NEW s \in Socket, Accept(s)
  PROVE  RoomInv'
  <1>1. TypeOK'
    BY DEF RoomInv, TypeOK, Accept
  <1>. QED
    BY <1>1, RoomsUnchanged DEF RoomInv, Accept

LEMMA JoinTimeoutStep ==
  ASSUME RoomInv, NEW s \in Socket, JoinTimeout(s)
  PROVE  RoomInv'
  <1>1. TypeOK'
    BY DEF RoomInv, TypeOK, JoinTimeout
  <1>. QED
    BY <1>1, RoomsUnchanged DEF RoomInv, JoinTimeout

LEMMA PongStep ==
  ASSUME RoomInv, NEW s \in Socket, Pong(s)
  PROVE  RoomInv'
  <1>1. TypeOK'
    BY DEF RoomInv, TypeOK, Pong
  <1>. QED
    BY <1>1, RoomsUnchanged DEF RoomInv, Pong

LEMMA CrashStep ==
  ASSUME RoomInv, NEW s \in Socket, Crash(s)
  PROVE  RoomInv'
  <1>1. TypeOK'
    BY DEF RoomInv, TypeOK, Crash
  <1>. QED
    BY <1>1, RoomsUnchanged DEF RoomInv, Crash

LEMMA DeliverStep ==
  ASSUME RoomInv, NEW s \in Socket, NEW targets \in SUBSET Socket,
         Deliver(s, targets)
  PROVE  RoomInv'
  <1>1. TypeOK'
    BY DEF RoomInv, TypeOK, Deliver
  <1>. QED
    BY <1>1, RoomsUnchanged DEF RoomInv, Deliver

LEMMA WindowExpiresStep ==
  ASSUME RoomInv, NEW a \in Addr, WindowExpires(a)
  PROVE  RoomInv'
  <1>1. TypeOK'
    BY DEF RoomInv, TypeOK, WindowExpires
  <1>. QED
    BY <1>1, RoomsUnchanged DEF RoomInv, WindowExpires

LEMMA HeartbeatStep ==
  ASSUME RoomInv, Heartbeat
  PROVE  RoomInv'
  <1>1. TypeOK'
    BY RefreshedType DEF RoomInv, TypeOK, Heartbeat
  <1>. QED
    BY <1>1, RoomsUnchanged DEF RoomInv, Heartbeat

LEMMA ShutdownStep ==
  ASSUME RoomInv, Shutdown
  PROVE  RoomInv'
  <1>1. TypeOK'
    BY DEF RoomInv, TypeOK, Shutdown
  <1>2. MembersAgree' /\ OneHostPerRoom'
    BY DEF Shutdown, MembersAgree, OneHostPerRoom
  <1>. QED
    BY <1>1, <1>2 DEF RoomInv

LEMMA ViewerJoinFailsStep ==
  ASSUME RoomInv, NEW s \in Socket, NEW c, ViewerJoinFails(s, c)
  PROVE  RoomInv'
  <1>. DEFINE a == AddrOf[s]
  <1>1. a \in Addr
    BY ServerAssumption
  <1>a. Refreshed(a) \in [count : Nat, expired : BOOLEAN]
    BY <1>1, RefreshedType DEF RoomInv
  <1>b. [Refreshed(a) EXCEPT !.count = @ + 1] \in [count : Nat, expired : BOOLEAN]
    BY <1>a
  <1>2. failures' \in [Addr -> [count : Nat, expired : BOOLEAN]]
    BY <1>1, <1>b DEF RoomInv, TypeOK, ViewerJoinFails, recordJoinFailure
  <1>3. TypeOK'
    BY <1>2 DEF RoomInv, TypeOK, ViewerJoinFails
  <1>. QED
    BY <1>3, RoomsUnchanged DEF RoomInv, ViewerJoinFails

----------------------------------------------------------------------------
(* Joining *)

LEMMA RegisterType ==
  ASSUME TypeOK, NEW s \in Socket, NEW c \in Code,
         NEW role \in {"host", "viewer"}, Register(s, role, c),
         failures' \in [Addr -> [count : Nat, expired : BOOLEAN]],
         advertised' \subseteq AdvertisableCode
  PROVE  TypeOK'
  <1>1. roster' \in [Socket -> SUBSET Socket]
    BY DEF TypeOK, Register, Announce
  <1>2. peer' \in [Socket -> [role : {"none", "host", "viewer"},
                              room : Code \cup {NoCode}]]
    BY DEF TypeOK, Register
  <1>. QED
    BY <1>1, <1>2 DEF TypeOK, Register

(***************************************************************************)
(* A newcomer was in no room, so only room c changes, and it gains exactly *)
(* the newcomer in its role.                                               *)
(***************************************************************************)
LEMMA RegisterRooms ==
  ASSUME RoomInv, NEW s \in Socket, NEW c \in Code,
         NEW role \in {"host", "viewer"}, ~Joined(s), Register(s, role, c)
  PROVE  /\ MembersAgree'
         /\ \A d \in Code \ {c} : Hosts(d)' = Hosts(d) /\ members'[d] = members[d]
         /\ members'[c] = members[c] \cup {s}
         /\ Hosts(c)' = Hosts(c) \cup (IF role = "host" THEN {s} ELSE {})
  <1>1. \A d \in Code : s \notin members[d]
    BY DEF RoomInv, MembersAgree
  <1>2. \A d \in Code : members'[d] = IF d = c THEN members[c] \cup {s} ELSE members[d]
    BY DEF RoomInv, TypeOK, Register
  <1>3. \A t \in Socket : peer'[t] = IF t = s THEN [role |-> role, room |-> c] ELSE peer[t]
    BY DEF RoomInv, TypeOK, Register
  <1>4. \A d \in Code : members[d] \subseteq Socket
    BY DEF RoomInv, TypeOK
  <1>5. MembersAgree'
    BY <1>1, <1>2, <1>3, <1>4 DEF RoomInv, MembersAgree, Joined
  <1>. QED
    BY <1>1, <1>2, <1>3, <1>4, <1>5 DEF Hosts

LEMMA HostJoinStep ==
  ASSUME RoomInv, NEW s \in Socket, NEW c \in Code, HostJoin(s, c)
  PROVE  RoomInv'
  <1>1. rooms' \subseteq Code
    BY DEF HostJoin, Register, RoomInv, TypeOK
  <1>2. advertised' \subseteq AdvertisableCode
    BY <1>1 DEF HostJoin, EmitSessionsChanged, Listed
  <1>3. TypeOK'
    BY <1>2, RegisterType DEF HostJoin, RoomInv, TypeOK
  <1>4. members[c] = {} /\ Hosts(c) = {}
    BY DEF HostJoin, HasHost, RoomInv, OneHostPerRoom
  <1>5. /\ \A d \in Code \ {c} : Hosts(d)' = Hosts(d) /\ members'[d] = members[d]
        /\ members'[c] = {s} /\ Hosts(c)' = {s} /\ rooms' = rooms \cup {c}
    <2>1. /\ \A d \in Code \ {c} : Hosts(d)' = Hosts(d) /\ members'[d] = members[d]
          /\ members'[c] = members[c] \cup {s}
          /\ Hosts(c)' = Hosts(c) \cup (IF "host" = "host" THEN {s} ELSE {})
      BY RegisterRooms DEF HostJoin
    <2>2. rooms' = rooms \cup {c}
      BY DEF HostJoin, Register
    <2>. QED
      BY <1>4, <2>1, <2>2
  <1>6. OneHostPerRoom'
    <2>. SUFFICES ASSUME NEW d \in Code
                  PROVE  /\ d \in rooms' => \E h \in members'[d] : Hosts(d)' = {h}
                         /\ d \notin rooms' => members'[d] = {}
      BY DEF OneHostPerRoom
    <2>. QED
      BY <1>5 DEF RoomInv, OneHostPerRoom
  <1>. QED
    BY <1>3, <1>6, RegisterRooms DEF HostJoin, RoomInv

LEMMA ViewerJoinStep ==
  ASSUME RoomInv, NEW s \in Socket, NEW c \in Code, ViewerJoin(s, c)
  PROVE  RoomInv'
  <1>1. failures' \in [Addr -> [count : Nat, expired : BOOLEAN]]
    BY RefreshedType, ServerAssumption DEF ViewerJoin, RoomInv, TypeOK
  <1>2. advertised' \subseteq AdvertisableCode
    BY DEF ViewerJoin, RoomInv, TypeOK
  <1>3. CASE Register(s, "viewer", c)
    <2>1. TypeOK'
      BY <1>1, <1>2, <1>3, RegisterType DEF RoomInv
    <2>2. /\ \A d \in Code : Hosts(d)' = Hosts(d) /\ members[d] \subseteq members'[d]
          /\ \A d \in Code \ {c} : members'[d] = members[d]
          /\ c \in rooms /\ rooms' = rooms \cup {c}
      BY <1>3, RegisterRooms DEF ViewerJoin, Register
    <2>3. OneHostPerRoom'
      <3>. SUFFICES ASSUME NEW d \in Code
                    PROVE  /\ d \in rooms' => \E h \in members'[d] : Hosts(d)' = {h}
                           /\ d \notin rooms' => members'[d] = {}
        BY DEF OneHostPerRoom
      <3>. QED
        BY <2>2 DEF RoomInv, OneHostPerRoom
    <2>. QED
      BY <1>3, <2>1, <2>3, RegisterRooms DEF ViewerJoin, RoomInv
  <1>4. CASE /\ relayed' = {}
             /\ UNCHANGED <<sock, mute, peer, alive, joinTimer, rooms, members,
                            roster, up>>
    <2>1. TypeOK'
      BY <1>1, <1>2, <1>4 DEF RoomInv, TypeOK
    <2>. QED
      BY <2>1, <1>4, RoomsUnchanged DEF RoomInv
  <1>. QED
    BY <1>3, <1>4 DEF ViewerJoin

----------------------------------------------------------------------------
(* Leaving *)

LEMMA LeaveType ==
  ASSUME TypeOK, NEW s \in Socket, NEW end \in {"absent", "dead"},
         handleLeave(s, end),
         peer' \in [Socket -> [role : {"none", "host", "viewer"},
                               room : Code \cup {NoCode}]],
         mute' \in [Socket -> BOOLEAN],
         alive' \in [Socket -> BOOLEAN],
         joinTimer' \in [Socket -> BOOLEAN]
  PROVE  TypeOK'
  <1>1. sock' \in [Socket -> {"absent", "open", "closing", "dead"}]
    BY DEF TypeOK, handleLeave, Disconnect
  <1>2. roster' \in [Socket -> SUBSET Socket]
    BY DEF TypeOK, handleLeave
  <1>3. members' \in [Code -> SUBSET Socket] /\ rooms' \subseteq Code
    <2>1. CASE IsMember(s)
      <3>1. peer[s].room \in Code
        BY <2>1 DEF IsMember, TypeOK
      <3>2. Remaining(s) \subseteq Socket
        BY <3>1 DEF Remaining, TypeOK
      <3>3. /\ members' = [members EXCEPT ![peer[s].room] = Remaining(s)]
            /\ rooms' = IF Remaining(s) = {} THEN rooms \ {peer[s].room} ELSE rooms
        BY <2>1 DEF handleLeave
      <3>4. rooms' \subseteq Code
        BY <3>3 DEF TypeOK
      <3>. QED
        BY <3>1, <3>2, <3>3, <3>4 DEF TypeOK
    <2>2. CASE ~IsMember(s)
      BY <2>2 DEF TypeOK, handleLeave
    <2>. QED
      BY <2>1, <2>2
  <1>4. advertised' \subseteq AdvertisableCode
    BY <1>3 DEF TypeOK, handleLeave, AnnounceDeparture, EmitSessionsChanged, Listed
  <1>. QED
    BY <1>1, <1>2, <1>3, <1>4 DEF TypeOK, handleLeave

(***************************************************************************)
(* A socket that is a member of no room leaves every room as it was; a     *)
(* member leaves its own, which empties if it was the host and keeps its   *)
(* host otherwise.                                                         *)
(***************************************************************************)
LEMMA LeaveRooms ==
  ASSUME RoomInv, NEW s \in Socket, NEW end \in {"absent", "dead"},
         handleLeave(s, end),
         \A t \in Socket \ {s} : peer'[t] = peer[t]
  PROVE  MembersAgree' /\ OneHostPerRoom'
  <1>. PICK c : c = peer[s].room
    OBVIOUS
  <1>0. /\ \A d \in Code : members[d] \subseteq Socket
        /\ \A d \in Code : s \in members[d] => IsMember(s) /\ d = c
    BY DEF RoomInv, TypeOK, MembersAgree, OneHostPerRoom, IsMember
  <1>1. CASE ~IsMember(s)
    <2>1. \A d \in Code : s \notin members[d]
      BY <1>0, <1>1
    <2>2. UNCHANGED <<members, rooms>>
      BY <1>1 DEF handleLeave
    <2>3. \A d \in Code : Hosts(d)' = Hosts(d)
      BY <1>0, <2>1, <2>2 DEF Hosts
    <2>4. MembersAgree'
      BY <1>0, <2>1, <2>2 DEF RoomInv, MembersAgree, Joined
    <2>. QED
      BY <2>2, <2>3, <2>4 DEF RoomInv, OneHostPerRoom
  <1>2. CASE IsMember(s)
    <2>1. /\ c \in rooms /\ c \in Code /\ s \in members[c] /\ peer[s].role # "none"
          /\ \A d \in Code : members'[d] = IF d = c THEN Remaining(s) ELSE members[d]
          /\ rooms' = IF Remaining(s) = {} THEN rooms \ {c} ELSE rooms
      BY <1>2 DEF IsMember, Joined, RoomInv, TypeOK, handleLeave
    <2>2. Remaining(s) \subseteq members[c] \ {s}
      BY DEF Remaining
    <2>3. MembersAgree'
      BY <1>0, <2>1, <2>2 DEF RoomInv, MembersAgree, Joined
    <2>4. \A d \in Code \ {c} : Hosts(d)' = Hosts(d)
      BY <1>0, <2>1 DEF Hosts
    <2>5. CASE peer[s].role = "host"
      <3>1. Remaining(s) = {}
        BY <1>2, <2>5 DEF Remaining, Evicted
      <3>. QED
        BY <2>1, <2>3, <2>4, <3>1 DEF RoomInv, OneHostPerRoom
    <2>6. CASE peer[s].role # "host"
      <3>1. Remaining(s) = members[c] \ {s}
        BY <2>6 DEF Remaining, Evicted
      <3>2. s \notin Hosts(c)
        BY <2>6 DEF Hosts
      <3>3. Hosts(c)' = Hosts(c)
        BY <1>0, <2>1, <3>1, <3>2 DEF Hosts
      <3>4. PICK h \in members[c] : Hosts(c) = {h}
        BY <2>1 DEF RoomInv, OneHostPerRoom
      <3>5. h \in Remaining(s)
        BY <3>1, <3>2, <3>4
      <3>. QED
        BY <2>1, <2>3, <2>4, <3>3, <3>4, <3>5 DEF RoomInv, OneHostPerRoom
    <2>. QED
      BY <2>5, <2>6
  <1>. QED
    BY <1>1, <1>2

LEMMA SocketClosedStep ==
  ASSUME RoomInv, NEW s \in Socket, SocketClosed(s)
  PROVE  RoomInv'
  <1>1. TypeOK'
    BY LeaveType DEF RoomInv, TypeOK, SocketClosed, NoPeer
  <1>2. \A t \in Socket \ {s} : peer'[t] = peer[t]
    BY DEF RoomInv, TypeOK, SocketClosed
  <1>. QED
    BY <1>1, <1>2, LeaveRooms DEF RoomInv, SocketClosed

LEMMA SocketErrorStep ==
  ASSUME RoomInv, NEW s \in Socket, SocketError(s)
  PROVE  RoomInv'
  <1>1. TypeOK'
    BY LeaveType DEF RoomInv, TypeOK, SocketError
  <1>. QED
    BY <1>1, LeaveRooms DEF RoomInv, SocketError

----------------------------------------------------------------------------

LEMMA NextRoomInv == RoomInv /\ [Next]_vars => RoomInv'
  <1>. SUFFICES ASSUME RoomInv, [Next]_vars PROVE RoomInv'
    OBVIOUS
  <1>1. CASE UNCHANGED vars
    BY <1>1 DEF vars, RoomInv, TypeOK, MembersAgree, OneHostPerRoom, Hosts, Joined
  <1>2. ASSUME NEW s \in Socket,
               \/ Accept(s) \/ JoinTimeout(s) \/ Pong(s) \/ Broadcast(s)
               \/ SocketClosed(s) \/ SocketError(s) \/ Crash(s)
        PROVE  RoomInv'
    <2>1. CASE Broadcast(s)
      <3>1. peer[s].room \in Code
        BY <2>1 DEF Broadcast, Deliver, RoomInv, TypeOK
      <3>. QED
        BY <2>1, <3>1, DeliverStep DEF Broadcast, RoomInv, TypeOK
    <2>. QED
      BY <1>2, <2>1, AcceptStep, JoinTimeoutStep, PongStep, SocketClosedStep,
         SocketErrorStep, CrashStep
  <1>3. ASSUME NEW s \in Socket, NEW c \in Code, HostJoin(s, c) \/ ViewerJoin(s, c)
        PROVE  RoomInv'
    BY <1>3, HostJoinStep, ViewerJoinStep
  <1>4. ASSUME NEW s \in Socket, NEW c \in Code \cup {NoCode}, ViewerJoinFails(s, c)
        PROVE  RoomInv'
    BY <1>4, ViewerJoinFailsStep
  <1>5. ASSUME NEW s \in Socket, NEW t \in Socket, RelayTo(s, t)
        PROVE  RoomInv'
    BY <1>5, DeliverStep DEF RelayTo
  <1>6. ASSUME NEW a \in Addr, WindowExpires(a)
        PROVE  RoomInv'
    BY <1>6, WindowExpiresStep
  <1>. QED
    BY <1>1, <1>2, <1>3, <1>4, <1>5, <1>6, HeartbeatStep, ShutdownStep DEF Next

LEMMA RoomInvariant == Spec => []RoomInv
  BY InitRoomInv, NextRoomInv, PTL DEF Spec

(***************************************************************************)
(* Every variable of the server keeps its type.                            *)
(***************************************************************************)
THEOREM ServerTypeCorrect == Spec => []TypeOK
  <1>1. RoomInv => TypeOK
    BY DEF RoomInv
  <1>. QED
    BY <1>1, RoomInvariant, PTL

(***************************************************************************)
(* Every room of the server has exactly one host at all times: the         *)
(* comments of handleJoin() and handleLeave() (one host per room, host     *)
(* departure reaps the room) hold for any number of sockets.               *)
(***************************************************************************)
THEOREM ServerOneHostPerRoom == Spec => []OneHostPerRoom
  <1>1. RoomInv => OneHostPerRoom
    BY DEF RoomInv
  <1>. QED
    BY <1>1, RoomInvariant, PTL

----------------------------------------------------------------------------
(* The failure budget *)

BudgetInv == TypeOK /\ FailureBudget

LEMMA RefreshedBudget ==
  ASSUME BudgetInv, NEW a \in Addr, MaxJoinFailures > 0
  PROVE  Refreshed(a).count <= MaxJoinFailures
  BY ServerAssumption DEF BudgetInv, TypeOK, FailureBudget, Refreshed, NoFailure

(***************************************************************************)
(* A failure is recorded only for an address the throttle lets through:    *)
(* its record is expired, and starts over, or below the limit.             *)
(***************************************************************************)
LEMMA FailureKeepsBudget ==
  ASSUME BudgetInv, NEW s \in Socket, NEW c, ViewerJoinFails(s, c)
  PROVE  FailureBudget'
  <1>. SUFFICES ASSUME MaxJoinFailures > 0, NEW b \in Addr
                PROVE  failures'[b].count <= MaxJoinFailures
    BY DEF FailureBudget
  <1>. DEFINE a == AddrOf[s]
  <1>1. a \in Addr /\ Refreshed(a) \in [count : Nat, expired : BOOLEAN]
    BY ServerAssumption, RefreshedType DEF BudgetInv
  <1>2. Refreshed(a).count + 1 <= MaxJoinFailures
    BY <1>1, ServerAssumption
    DEF ViewerJoinFails, isJoinThrottled, Refreshed, NoFailure, BudgetInv, TypeOK
  <1>3. failures'[b] = IF b = a THEN [Refreshed(a) EXCEPT !.count = @ + 1] ELSE failures[b]
    BY <1>1, ServerAssumption DEF ViewerJoinFails, recordJoinFailure, BudgetInv, TypeOK
  <1>4. [Refreshed(a) EXCEPT !.count = @ + 1].count = Refreshed(a).count + 1
    BY <1>1
  <1>. QED
    BY <1>2, <1>3, <1>4 DEF BudgetInv, FailureBudget

LEMMA NextBudget ==
  ASSUME BudgetInv, [Next]_vars
  PROVE  FailureBudget'
  <1>1. CASE UNCHANGED failures
    BY <1>1 DEF BudgetInv, FailureBudget
  <1>2. ASSUME NEW s \in Socket, NEW c \in Code, ViewerJoin(s, c)
        PROVE  FailureBudget'
    BY <1>2, RefreshedBudget, ServerAssumption
    DEF ViewerJoin, BudgetInv, TypeOK, FailureBudget
  <1>3. ASSUME NEW a \in Addr, WindowExpires(a)
        PROVE  FailureBudget'
    BY <1>3 DEF WindowExpires, BudgetInv, TypeOK, FailureBudget
  <1>4. CASE Heartbeat
    BY <1>4, RefreshedBudget DEF Heartbeat, FailureBudget
  <1>. QED
    BY <1>1, <1>2, <1>3, <1>4, FailureKeepsBudget
    DEF Next, vars, Accept, JoinTimeout, Pong, Broadcast, Deliver, SocketClosed,
        SocketError, handleLeave, Crash, HostJoin, RelayTo, Shutdown

(***************************************************************************)
(* The join throttle of the server (isJoinThrottled(), recordJoinFailure() *)
(* and the refresh of both) never lets an address learn of more than       *)
(* maxJoinFailures unused codes in a window, whichever sockets it uses and *)
(* however its joins, expiries and heartbeats interleave.                  *)
(***************************************************************************)
THEOREM ServerFailureBudget == Spec => []FailureBudget
  <1>1. Init => FailureBudget
    BY ServerAssumption DEF Init, FailureBudget, NoFailure
  <1>2. TypeOK /\ FailureBudget /\ [Next]_vars => FailureBudget'
    BY NextBudget DEF BudgetInv
  <1>. QED
    BY <1>1, <1>2, ServerTypeCorrect, PTL DEF Spec

----------------------------------------------------------------------------
(* What the clients and the LAN are told *)

(***************************************************************************)
(* A slot is accepted again only after its closure is gone, so an accepted *)
(* connection has no peer that others could already know of.               *)
(***************************************************************************)
AbsentUnjoined == \A s \in Socket : sock[s] = "absent" => ~Joined(s)

TruthInv == AbsentUnjoined /\ ToldTheTruth

LEMMA InitTruth == Init => TruthInv
  BY DEF Init, TruthInv, AbsentUnjoined, ToldTheTruth, OpenPeersAreMembers, RosterExact,
         AdvertisedExact, Listed, HasHost, Hosts, IsMember, Joined, NoPeer

\* What every formula above says of the rooms depends on these variables.
LEMMA SameRooms ==
  ASSUME UNCHANGED <<peer, rooms, members>>
  PROVE  /\ \A s \in Socket : (Joined(s)' <=> Joined(s)) /\ (IsMember(s)' <=> IsMember(s))
         /\ Listed' = Listed
  BY DEF Joined, IsMember, Listed, HasHost, Hosts

(***************************************************************************)
(* A step that leaves rooms and tables alone tells no lie: a socket opens  *)
(* only for a connection without a peer.                                   *)
(***************************************************************************)
LEMMA QuietTruth ==
  ASSUME TruthInv, UNCHANGED <<peer, rooms, members, roster, advertised, up>>,
         \A s \in Socket : /\ sock'[s] = "open" => sock[s] \in {"open", "absent"}
                           /\ sock'[s] = "absent" => sock[s] = "absent"
  PROVE  TruthInv'
  <1>. USE SameRooms
  <1>1. AbsentUnjoined'
    BY DEF TruthInv, AbsentUnjoined
  <1>2. OpenPeersAreMembers'
    BY DEF TruthInv, AbsentUnjoined, ToldTheTruth, OpenPeersAreMembers
  <1>3. RosterExact'
    BY DEF TruthInv, AbsentUnjoined, ToldTheTruth, RosterExact, IsMember
  <1>4. AdvertisedExact'
    BY DEF TruthInv, ToldTheTruth, AdvertisedExact
  <1>. QED
    BY <1>1, <1>2, <1>3, <1>4 DEF TruthInv, ToldTheTruth

(***************************************************************************)
(* Steps that change sockets and timers only.                              *)
(***************************************************************************)
LEMMA QuietSteps ==
  ASSUME RoomInv, TruthInv, NEW s \in Socket,
         \/ Accept(s) \/ JoinTimeout(s) \/ Pong(s) \/ Crash(s) \/ Heartbeat
         \/ (\E targets : Deliver(s, targets)) \/ (\E c : ViewerJoinFails(s, c))
         \/ (\E a : WindowExpires(a)) \/ UNCHANGED vars
  PROVE  TruthInv'
  <1>1. UNCHANGED <<peer, rooms, members, roster, advertised, up>>
    BY DEF Accept, JoinTimeout, Pong, Crash, Heartbeat, Deliver, ViewerJoinFails,
           WindowExpires, vars
  <1>2. \A t \in Socket : /\ sock'[t] = "open" => sock[t] \in {"open", "absent"}
                          /\ sock'[t] = "absent" => sock[t] = "absent"
    BY DEF Accept, JoinTimeout, Pong, Crash, Heartbeat, Deliver, ViewerJoinFails,
           WindowExpires, vars, RoomInv, TypeOK
  <1>. QED
    BY <1>1, <1>2, QuietTruth

(***************************************************************************)
(* handleJoin() announces the newcomer to the room and the room to it.     *)
(***************************************************************************)
LEMMA RegisterTruth ==
  ASSUME RoomInv, TruthInv, NEW s \in Socket, NEW c \in Code,
         NEW role \in {"host", "viewer"}, Speaks(s), ~Joined(s), Register(s, role, c)
  PROVE  AbsentUnjoined' /\ OpenPeersAreMembers' /\ RosterExact'
  <1>0. \A d \in Code : s \notin members[d] /\ members[d] \subseteq Socket
    BY DEF RoomInv, TypeOK, MembersAgree
  <1>1. /\ \A t \in Socket :
             peer'[t] = IF t = s THEN [role |-> role, room |-> c] ELSE peer[t]
        /\ \A d \in Code : members'[d] = IF d = c THEN members[c] \cup {s} ELSE members[d]
        /\ rooms' = rooms \cup {c} /\ sock' = sock
        /\ rooms \subseteq Code
    BY DEF RoomInv, TypeOK, Register
  <1>2. IsMember(s)' /\ Joined(s)' /\ peer'[s].room = c
    BY <1>1 DEF IsMember, Joined
  <1>3. \A t \in Socket \ {s} : /\ Joined(t)' <=> Joined(t)
                                /\ IsMember(t)' <=> IsMember(t)
                                /\ peer'[t] = peer[t]
    <2>. SUFFICES ASSUME NEW t \in Socket \ {s}
                  PROVE  /\ Joined(t)' <=> Joined(t)
                         /\ IsMember(t)' <=> IsMember(t)
                         /\ peer'[t] = peer[t]
      OBVIOUS
    <2>1. peer'[t] = peer[t]
      BY <1>1
    <2>2. CASE peer[t].room = c
      BY <1>1, <2>1, <2>2 DEF RoomInv, OneHostPerRoom, IsMember, Joined
    <2>3. CASE peer[t].room # c
      BY <1>1, <2>1, <2>3 DEF IsMember, Joined
    <2>. QED
      BY <2>1, <2>2, <2>3 DEF Joined
  <1>4. AbsentUnjoined' /\ OpenPeersAreMembers'
    BY <1>1, <1>2, <1>3
    DEF Speaks, TruthInv, AbsentUnjoined, ToldTheTruth, OpenPeersAreMembers
  <1>5. RosterExact'
    <2>. SUFFICES ASSUME NEW t \in Socket, sock[t] = "open", IsMember(t)'
                  PROVE  roster'[t] = members'[peer'[t].room] \ {t}
      BY <1>1 DEF RosterExact
    <2>1. roster'[t] = IF t = s THEN members[c]
                       ELSE IF t \in members[c] THEN roster[t] \cup {s} ELSE roster[t]
      BY DEF Register, Announce
    <2>2. CASE t = s
      BY <1>0, <1>1, <1>2, <2>1, <2>2
    <2>3. CASE t # s
      <3>1. /\ IsMember(t) /\ peer'[t] = peer[t]
            /\ roster[t] = members[peer[t].room] \ {t} /\ peer[t].room \in Code
        BY <1>1, <1>3, <2>3 DEF TruthInv, ToldTheTruth, RosterExact, IsMember
      <3>2. t \in members[c] <=> peer[t].room = c
        BY <3>1 DEF IsMember, RoomInv, MembersAgree
      <3>. QED
        BY <1>1, <2>1, <2>3, <3>1, <3>2
    <2>. QED
      BY <2>2, <2>3
  <1>. QED
    BY <1>4, <1>5

LEMMA HostJoinTruth ==
  ASSUME RoomInv, TruthInv, NEW s \in Socket, NEW c \in Code, HostJoin(s, c)
  PROVE  TruthInv'
  <1>1. AbsentUnjoined' /\ OpenPeersAreMembers' /\ RosterExact'
    BY RegisterTruth DEF HostJoin
  <1>2. AdvertisedExact'
    BY DEF HostJoin, EmitSessionsChanged, AdvertisedExact
  <1>. QED
    BY <1>1, <1>2 DEF TruthInv, ToldTheTruth

\* A viewer changes no host, and a code is listed for its host alone.
LEMMA ViewerJoinTruth ==
  ASSUME RoomInv, TruthInv, NEW s \in Socket, NEW c \in Code, ViewerJoin(s, c)
  PROVE  TruthInv'
  <1>1. CASE Register(s, "viewer", c)
    <2>1. AbsentUnjoined' /\ OpenPeersAreMembers' /\ RosterExact'
      BY <1>1, RegisterTruth DEF ViewerJoin
    <2>2. \A d \in Code : Hosts(d)' = Hosts(d)
      BY <1>1, RegisterRooms DEF ViewerJoin
    <2>3. rooms' = rooms /\ rooms \subseteq Code /\ up' = up /\ advertised' = advertised
      BY <1>1 DEF ViewerJoin, Register, RoomInv, TypeOK
    <2>4. AdvertisedExact'
      BY <2>2, <2>3 DEF TruthInv, ToldTheTruth, AdvertisedExact, Listed, HasHost
    <2>. QED
      BY <2>1, <2>4 DEF TruthInv, ToldTheTruth
  <1>2. CASE /\ relayed' = {}
             /\ UNCHANGED <<sock, mute, peer, alive, joinTimer, rooms, members,
                            roster, up>>
    BY <1>2, QuietTruth DEF ViewerJoin
  <1>. QED
    BY <1>1, <1>2 DEF ViewerJoin

----------------------------------------------------------------------------

(***************************************************************************)
(* handleLeave(): whoever stays in the room is told, whoever is evicted    *)
(* gets a closing handshake, and nobody else was told of the leaver.       *)
(***************************************************************************)
LEMMA LeaveTruth ==
  ASSUME RoomInv, TruthInv, NEW s \in Socket, NEW end \in {"absent", "dead"},
         handleLeave(s, end),
         \A t \in Socket \ {s} : peer'[t] = peer[t],
         end = "absent" => peer'[s] = NoPeer
  PROVE  TruthInv'
  <1>. PICK c : c = peer[s].room
    OBVIOUS
  <1>0. /\ \A d \in Code : members[d] \subseteq Socket
        /\ \A d \in Code : s \in members[d] => IsMember(s) /\ d = c
    BY DEF RoomInv, TypeOK, MembersAgree, OneHostPerRoom, IsMember
  <1>1. /\ \A d \in Code : members'[d] = IF IsMember(s) /\ d = c THEN Remaining(s)
                                                                  ELSE members[d]
        /\ IsMember(s) => c \in Code /\ c \in rooms
        /\ rooms' = IF IsMember(s) /\ Remaining(s) = {} THEN rooms \ {c} ELSE rooms
        /\ rooms \subseteq Code
    BY DEF IsMember, RoomInv, TypeOK, handleLeave
  <1>2. /\ \A t \in Socket : sock'[t] = IF t = s THEN end
                                        ELSE IF t \in Evicted(s) /\ sock[t] = "open"
                                        THEN "closing" ELSE sock[t]
        /\ Evicted(s) \in {{}, members[c] \ {s}}
        /\ Remaining(s) = members[c] \ ({s} \cup Evicted(s))
    BY DEF handleLeave, Disconnect, Evicted, Remaining
  <1>3. AbsentUnjoined'
    BY <1>2 DEF TruthInv, AbsentUnjoined, Joined, NoPeer
  <1>4. \A t \in Socket : sock'[t] = "open" =>
          /\ t # s /\ sock[t] = "open" /\ peer'[t] = peer[t]
          /\ t \in members[c] /\ IsMember(s) => t \in Remaining(s)
    BY <1>2
  <1>5. OpenPeersAreMembers'
    <2>. SUFFICES ASSUME NEW t \in Socket, sock'[t] = "open", Joined(t)'
                  PROVE  IsMember(t)'
      BY DEF OpenPeersAreMembers
    <2>1. IsMember(t) /\ peer'[t] = peer[t]
      BY <1>4 DEF Joined, TruthInv, ToldTheTruth, OpenPeersAreMembers
    <2>2. CASE IsMember(s) /\ peer[t].room = c
      BY <1>1, <1>4, <2>1, <2>2 DEF IsMember, Joined
    <2>3. CASE ~(IsMember(s) /\ peer[t].room = c)
      BY <1>1, <2>1, <2>3 DEF IsMember, Joined
    <2>. QED
      BY <2>2, <2>3
  <1>6. RosterExact'
    <2>. SUFFICES ASSUME NEW t \in Socket, sock'[t] = "open", IsMember(t)'
                  PROVE  roster'[t] = members'[peer'[t].room] \ {t}
      BY DEF RosterExact
    <2>1. /\ IsMember(t) /\ peer'[t] = peer[t] /\ t # s /\ sock[t] = "open"
          /\ roster[t] = members[peer[t].room] \ {t} /\ peer[t].room \in Code
      BY <1>1, <1>4
      DEF IsMember, Joined, TruthInv, ToldTheTruth, OpenPeersAreMembers, RosterExact
    <2>2. roster'[t] = IF IsMember(s) /\ t \in members[c] THEN roster[t] \ {s} ELSE roster[t]
      BY <2>1 DEF handleLeave
    <2>3. CASE IsMember(s) /\ peer[t].room = c
      <3>1. t \in members[c] /\ t \in Remaining(s) /\ c \in Code
        BY <1>1, <1>4, <2>1, <2>3 DEF IsMember
      <3>2. Evicted(s) = {}
        BY <1>2, <2>1, <3>1
      <3>. QED
        BY <1>1, <1>2, <2>1, <2>2, <2>3, <3>1, <3>2
    <2>4. CASE ~(IsMember(s) /\ peer[t].room = c)
      <3>1. IsMember(s) => t \notin members[c]
        BY <1>1, <2>4 DEF RoomInv, MembersAgree
      <3>. QED
        BY <1>1, <2>1, <2>2, <2>4, <3>1
    <2>. QED
      BY <2>3, <2>4
  <1>7. AdvertisedExact'
    <2>1. CASE IsMember(s) /\ (peer[s].role = "host" \/ Remaining(s) = {})
      BY <2>1 DEF handleLeave, AnnounceDeparture, EmitSessionsChanged, AdvertisedExact
    <2>2. CASE ~(IsMember(s) /\ (peer[s].role = "host" \/ Remaining(s) = {}))
      <3>1. advertised' = advertised /\ rooms' = rooms /\ up' = up
        BY <1>1, <2>2 DEF handleLeave, AnnounceDeparture
      <3>2. \A d \in Code : Hosts(d)' = Hosts(d)
        <4>. SUFFICES ASSUME NEW d \in Code PROVE Hosts(d)' = Hosts(d)
          OBVIOUS
        <4>1. CASE IsMember(s) /\ d = c
          <5>1. Remaining(s) = members[c] \ {s} /\ s \notin Hosts(c)
            BY <2>2, <4>1 DEF Remaining, Evicted, Hosts
          <5>. QED
            BY <1>0, <1>1, <4>1, <5>1 DEF Hosts
        <4>2. CASE ~(IsMember(s) /\ d = c)
          BY <1>0, <1>1, <4>2 DEF Hosts
        <4>. QED
          BY <4>1, <4>2
      <3>. QED
        BY <1>1, <3>1, <3>2 DEF TruthInv, ToldTheTruth, AdvertisedExact, Listed, HasHost
    <2>. QED
      BY <2>1, <2>2
  <1>. QED
    BY <1>3, <1>5, <1>6, <1>7 DEF TruthInv, ToldTheTruth

LEMMA ShutdownTruth ==
  ASSUME RoomInv, TruthInv, Shutdown
  PROVE  TruthInv'
  <1>1. \A s \in Socket : IsMember(s) => InRoom(s)
    BY DEF IsMember, InRoom
  <1>2. \A s \in Socket : /\ sock'[s] = "open" => sock[s] = "open" /\ ~InRoom(s)
                          /\ sock'[s] = "absent" => sock[s] = "absent"
    BY DEF Shutdown
  <1>3. AbsentUnjoined' /\ OpenPeersAreMembers'
    BY <1>1, <1>2 DEF Shutdown, Joined, TruthInv, AbsentUnjoined, ToldTheTruth,
                      OpenPeersAreMembers
  <1>4. RosterExact' /\ AdvertisedExact'
    BY DEF Shutdown, RosterExact, AdvertisedExact, IsMember
  <1>. QED
    BY <1>3, <1>4 DEF TruthInv, ToldTheTruth

LEMMA NextTruth == RoomInv /\ TruthInv /\ [Next]_vars => TruthInv'
  <1>. SUFFICES ASSUME RoomInv, TruthInv, [Next]_vars PROVE TruthInv'
    OBVIOUS
  <1>1. ASSUME NEW s \in Socket,
               SocketClosed(s) \/ SocketError(s) \/ Accept(s) \/ JoinTimeout(s)
               \/ Pong(s) \/ Crash(s) \/ Broadcast(s)
        PROVE  TruthInv'
    <2>1. CASE SocketClosed(s)
      <3>1. peer'[s] = NoPeer /\ \A t \in Socket \ {s} : peer'[t] = peer[t]
        BY <2>1 DEF SocketClosed, RoomInv, TypeOK
      <3>. QED
        BY <2>1, <3>1, LeaveTruth DEF SocketClosed
    <2>2. CASE SocketError(s)
      BY <2>2, LeaveTruth DEF SocketError
    <2>. QED
      BY <1>1, <2>1, <2>2, QuietSteps DEF Broadcast
  <1>2. ASSUME NEW s \in Socket, NEW c \in Code, HostJoin(s, c) \/ ViewerJoin(s, c)
        PROVE  TruthInv'
    BY <1>2, HostJoinTruth, ViewerJoinTruth
  <1>3. ASSUME NEW s \in Socket,
               (\E c : ViewerJoinFails(s, c)) \/ (\E t : RelayTo(s, t))
        PROVE  TruthInv'
    BY <1>3, QuietSteps DEF RelayTo
  <1>4. CASE Heartbeat \/ (\E a \in Addr : WindowExpires(a)) \/ UNCHANGED vars
    <2>1. UNCHANGED <<peer, rooms, members, roster, advertised, up>>
      BY <1>4 DEF Heartbeat, WindowExpires, vars
    <2>2. \A t \in Socket : /\ sock'[t] = "open" => sock[t] \in {"open", "absent"}
                            /\ sock'[t] = "absent" => sock[t] = "absent"
      BY <1>4 DEF Heartbeat, WindowExpires, vars, RoomInv, TypeOK
    <2>. QED
      BY <2>1, <2>2, QuietTruth
  <1>. QED
    BY <1>1, <1>2, <1>3, <1>4, ShutdownTruth DEF Next

(***************************************************************************)
(* Clients and the LAN are told the truth, for any number of sockets,      *)
(* codes and addresses: a connected peer knows exactly the others of its   *)
(* room, and the codes advertised are those a viewer could join.           *)
(***************************************************************************)
THEOREM ServerToldTheTruth == Spec => []ToldTheTruth
  <1>1. TruthInv => ToldTheTruth
    BY DEF TruthInv
  <1>. QED
    BY <1>1, InitTruth, NextTruth, RoomInvariant, PTL DEF Spec

(***************************************************************************)
(* relay() trusts the room its sender joined; because a connected peer is  *)
(* a member of that room, what it sends stays among the members.           *)
(***************************************************************************)
THEOREM ServerRelayStaysInRoom == Spec => ConnectedRelayStaysInRoom
  <1>. DEFINE Stays == \A pair \in relayed' : sock[pair[1]] = "open" =>
                         \E c \in rooms : {pair[1], pair[2]} \subseteq members[c]
  <1>1. ASSUME RoomInv, TruthInv, NEW s \in Socket, NEW targets \in SUBSET members[peer[s].room],
               Deliver(s, targets)
        PROVE  Stays
    BY <1>1 DEF Deliver, TruthInv, ToldTheTruth, OpenPeersAreMembers, IsMember
  <1>2. RoomInv /\ TruthInv /\ [Next]_vars => [Stays]_vars
    <2>. SUFFICES ASSUME RoomInv, TruthInv, Next PROVE Stays
      OBVIOUS
    <2>1. CASE relayed' = {}
      BY <2>1
    <2>2. ASSUME NEW s \in Socket, Broadcast(s) PROVE Stays
      BY <1>1, <2>2 DEF Broadcast
    <2>3. ASSUME NEW s \in Socket, NEW t \in Socket, RelayTo(s, t) PROVE Stays
      BY <1>1, <2>3 DEF RelayTo
    <2>. QED
      BY <2>1, <2>2, <2>3
      DEF Next, Accept, JoinTimeout, Pong, SocketClosed, SocketError, handleLeave, Crash,
          HostJoin, ViewerJoin, Register, ViewerJoinFails, WindowExpires, Heartbeat, Shutdown
  <1>. QED
    BY <1>2, InitTruth, NextTruth, RoomInvariant, PTL DEF Spec, ConnectedRelayStaysInRoom

----------------------------------------------------------------------------
(* The session directory *)

hostsOf   == [c \in Code |-> Hosts(c)]
viewersOf == [c \in Code |-> Viewers(c)]

\* The directory sees the members of the rooms and their roles, no more.
LEMMA DirectoryStutters ==
  ASSUME UNCHANGED <<peer, members>>
  PROVE  UNCHANGED <<hostsOf, viewersOf>>
  BY DEF hostsOf, viewersOf, Hosts, Viewers

\* Who is in no room takes no part in a session.
LEMMA NotTaken ==
  ASSUME RoomInv, NEW s \in Socket, ~Joined(s)
  PROVE  ~Directory!Taken(s)
  BY DEF RoomInv, MembersAgree, Directory!Taken, Hosts, Viewers

(***************************************************************************)
(* A registration adds the newcomer to its side of one room.               *)
(***************************************************************************)
LEMMA RegisterSeats ==
  ASSUME RoomInv, NEW s \in Socket, NEW c \in Code,
         NEW role \in {"host", "viewer"}, ~Joined(s), Register(s, role, c)
  PROVE  /\ hostsOf' = [hostsOf EXCEPT ![c] = @ \cup (IF role = "host" THEN {s} ELSE {})]
         /\ viewersOf' = [viewersOf EXCEPT ![c] = @ \cup (IF role = "viewer" THEN {s} ELSE {})]
  <1>1. \A d \in Code : s \notin members[d] /\ members[d] \subseteq Socket
    BY DEF RoomInv, MembersAgree, TypeOK
  <1>2. \A d \in Code : members'[d] = IF d = c THEN members[c] \cup {s} ELSE members[d]
    BY DEF RoomInv, TypeOK, Register
  <1>3. \A t \in Socket : peer'[t] = IF t = s THEN [role |-> role, room |-> c] ELSE peer[t]
    BY DEF RoomInv, TypeOK, Register
  <1>4. \A d \in Code : Viewers(d)' = IF d = c /\ role = "viewer" THEN Viewers(d) \cup {s}
                                                                 ELSE Viewers(d)
    BY <1>1, <1>2, <1>3 DEF Viewers
  <1>5. \A d \in Code : Hosts(d)' = IF d = c /\ role = "host" THEN Hosts(d) \cup {s}
                                                             ELSE Hosts(d)
    BY <1>1, <1>2, <1>3 DEF Hosts
  <1>. QED
    BY <1>4, <1>5 DEF hostsOf, viewersOf

LEMMA HostJoinOpens ==
  ASSUME RoomInv, NEW s \in Socket, NEW c \in Code, HostJoin(s, c)
  PROVE  Directory!Open(c, s)
  <1>1. Hosts(c) = {} /\ members[c] = {}
    BY DEF HostJoin, HasHost, RoomInv, OneHostPerRoom
  <1>2. Viewers(c) = {} /\ ~Directory!Taken(s)
    BY <1>1, NotTaken DEF HostJoin, Viewers
  <1>3. /\ hostsOf' = [hostsOf EXCEPT ![c] = @ \cup {s}]
        /\ viewersOf' = [viewersOf EXCEPT ![c] = @ \cup {}]
    BY RegisterSeats DEF HostJoin
  <1>4. hostsOf' = [hostsOf EXCEPT ![c] = {s}] /\ viewersOf' = viewersOf
    BY <1>1, <1>3 DEF hostsOf, viewersOf
  <1>. QED
    BY <1>1, <1>2, <1>4 DEF Directory!Open, hostsOf, viewersOf

\* ... and a viewer that finds the room full is not noticed.
LEMMA ViewerJoinEnters ==
  ASSUME RoomInv, NEW s \in Socket, NEW c \in Code, ViewerJoin(s, c)
  PROVE  Directory!Enter(c, s) \/ UNCHANGED <<hostsOf, viewersOf>>
  <1>1. CASE HasSeat(c) /\ Register(s, "viewer", c)
    <2>1. Hosts(c) # {} /\ ~Directory!Taken(s)
      BY NotTaken DEF ViewerJoin, HasHost
    <2>2. /\ hostsOf' = [hostsOf EXCEPT ![c] = @ \cup {}]
          /\ viewersOf' = [viewersOf EXCEPT ![c] = @ \cup {s}]
      BY <1>1, RegisterSeats DEF ViewerJoin
    <2>3. hostsOf' = hostsOf
      BY <2>2 DEF hostsOf
    <2>4. Directory!Cardinality(Viewers(c)) = Cardinality(Viewers(c))
      BY DEF Directory!Cardinality, Cardinality
    <2>. QED
      BY <1>1, <2>1, <2>2, <2>3, <2>4 DEF Directory!Enter, HasSeat, hostsOf, viewersOf
  <1>2. CASE UNCHANGED <<peer, members>>
    BY <1>2, DirectoryStutters
  <1>. QED
    BY <1>1, <1>2 DEF ViewerJoin

(***************************************************************************)
(* A departure is a viewer leaving its seat, the end of a session, or no   *)
(* business of the directory.                                              *)
(***************************************************************************)
LEMMA LeaveIsLeaveOrEnd ==
  ASSUME RoomInv, NEW s \in Socket, NEW end \in {"absent", "dead"},
         handleLeave(s, end),
         \A t \in Socket \ {s} : peer'[t] = peer[t]
  PROVE  \/ \E c \in Code : Directory!Leave(c, s) \/ Directory!End(c)
         \/ UNCHANGED <<hostsOf, viewersOf>>
  <1>. PICK c : c = peer[s].room
    OBVIOUS
  <1>0. /\ \A d \in Code : members[d] \subseteq Socket
        /\ \A d \in Code : s \in members[d] => IsMember(s) /\ d = c
    BY DEF RoomInv, TypeOK, MembersAgree, OneHostPerRoom, IsMember
  <1>1. CASE ~IsMember(s)
    <2>1. members' = members /\ \A d \in Code : s \notin members[d]
      BY <1>0, <1>1 DEF handleLeave
    <2>2. \A d \in Code : Hosts(d)' = Hosts(d) /\ Viewers(d)' = Viewers(d)
      BY <1>0, <2>1 DEF Hosts, Viewers
    <2>. QED
      BY <2>2 DEF hostsOf, viewersOf
  <1>2. CASE IsMember(s)
    <2>1. /\ c \in rooms /\ c \in Code /\ s \in members[c] /\ peer[s].role \in {"host", "viewer"}
          /\ \A d \in Code : members'[d] = IF d = c THEN Remaining(s) ELSE members[d]
      BY <1>2 DEF IsMember, Joined, RoomInv, TypeOK, handleLeave
    <2>2. \A d \in Code \ {c} : Hosts(d)' = Hosts(d) /\ Viewers(d)' = Viewers(d)
      BY <1>0, <2>1 DEF Hosts, Viewers
    <2>3. CASE peer[s].role = "host"
      <3>1. Remaining(s) = {} /\ Hosts(c) # {}
        BY <1>2, <2>1, <2>3 DEF Remaining, Evicted, Hosts
      <3>2. Hosts(c)' = {} /\ Viewers(c)' = {}
        BY <2>1, <3>1 DEF Hosts, Viewers
      <3>3. /\ hostsOf' = [hostsOf EXCEPT ![c] = {}]
            /\ viewersOf' = [viewersOf EXCEPT ![c] = {}]
        BY <2>1, <2>2, <3>2 DEF hostsOf, viewersOf
      <3>4. Directory!End(c)
        BY <2>1, <3>1, <3>3 DEF Directory!End, hostsOf, viewersOf
      <3>. QED
        BY <2>1, <3>4
    <2>4. CASE peer[s].role = "viewer"
      <3>1. Remaining(s) = members[c] \ {s}
        BY <2>4 DEF Remaining, Evicted
      <3>2. Hosts(c)' = Hosts(c) /\ Viewers(c)' = Viewers(c) \ {s} /\ s \in Viewers(c)
        BY <1>0, <2>1, <2>4, <3>1 DEF Hosts, Viewers
      <3>3. hostsOf' = hostsOf /\ viewersOf' = [viewersOf EXCEPT ![c] = @ \ {s}]
        BY <2>1, <2>2, <3>2 DEF hostsOf, viewersOf
      <3>4. Directory!Leave(c, s)
        BY <2>1, <3>2, <3>3 DEF Directory!Leave, hostsOf, viewersOf
      <3>. QED
        BY <2>1, <3>4
    <2>. QED
      BY <2>1, <2>3, <2>4
  <1>. QED
    BY <1>1, <1>2

LEMMA StepImplementsDirectory ==
  ASSUME RoomInv, [Next]_vars
  PROVE  [Directory!DirNext]_(Directory!dirVars)
  <1>. SUFFICES Directory!DirNext \/ UNCHANGED <<hostsOf, viewersOf>>
    BY DEF Directory!dirVars, hostsOf, viewersOf
  <1>1. CASE UNCHANGED <<peer, members>>
    BY <1>1, DirectoryStutters
  <1>2. ASSUME NEW s \in Socket, NEW c \in Code, HostJoin(s, c)
        PROVE  Directory!DirNext
    BY <1>2, HostJoinOpens DEF Directory!DirNext
  <1>3. ASSUME NEW s \in Socket, NEW c \in Code, ViewerJoin(s, c)
        PROVE  Directory!DirNext \/ UNCHANGED <<hostsOf, viewersOf>>
    BY <1>3, ViewerJoinEnters DEF Directory!DirNext
  <1>4. ASSUME NEW s \in Socket, SocketClosed(s) \/ SocketError(s)
        PROVE  Directory!DirNext \/ UNCHANGED <<hostsOf, viewersOf>>
    <2>1. \A t \in Socket \ {s} : peer'[t] = peer[t]
      BY <1>4 DEF SocketClosed, SocketError, RoomInv, TypeOK
    <2>2. \E end \in {"absent", "dead"} : handleLeave(s, end)
      BY <1>4 DEF SocketClosed, SocketError
    <2>. QED
      BY <2>1, <2>2, LeaveIsLeaveOrEnd DEF Directory!DirNext
  <1>5. CASE Shutdown
    <2>1. \A c \in Code : Hosts(c)' = {} /\ Viewers(c)' = {}
      BY <1>5 DEF Shutdown, Hosts, Viewers
    <2>. QED
      BY <2>1 DEF Directory!DirNext, Directory!EndAll
  <1>. QED
    BY <1>1, <1>2, <1>3, <1>4, <1>5
    DEF Next, vars, Accept, JoinTimeout, Pong, Broadcast, RelayTo, Deliver, Crash,
        ViewerJoinFails, WindowExpires, Heartbeat

(***************************************************************************)
(* The server implements the directory of sessions: underneath sockets,    *)
(* timers, evictions and errors, a code is free or names one session with  *)
(* one host, seats are capped, and a session ends as a whole.              *)
(***************************************************************************)
THEOREM ServerImplementsDirectory == Spec => ImplementsDirectory
  <1>1. Init => Directory!DirInit
    BY DEF Init, Directory!DirInit, Hosts, Viewers
  <1>2. RoomInv /\ [Next]_vars => [Directory!DirNext]_(Directory!dirVars)
    BY StepImplementsDirectory
  <1>. QED
    BY <1>1, <1>2, RoomInvariant, PTL DEF Spec, ImplementsDirectory, Directory!DirSpec

=============================================================================
