------------------------ MODULE SignalingClientProofs ------------------------
(***************************************************************************)
(* What SignalingClient.tla guarantees for any number of sockets, frame    *)
(* types, frames sent and received, and for every size of the buffer of    *)
(* unclaimed frames.                                                       *)
(***************************************************************************)
EXTENDS SignalingClient, SequenceTheorems, TLAPS

(***************************************************************************)
(* OneConnection says nothing once close() was called, and a socket that   *)
(* was then still alive would bring the client back.                       *)
(***************************************************************************)
Unused == connection = "none" =>
            /\ ~closedByUser /\ ~timer /\ ws = NoSlot
            /\ \A s \in Slot : sock[s] = "closed"

Silenced == closedByUser => /\ ~timer /\ ws = NoSlot
                            /\ \A s \in Slot : ~Alive(s)

ConnectionInv == TypeOK /\ OneConnection /\ Unused /\ Silenced

(***************************************************************************)
(* A frame is numbered when it is sent, so the order of the frames follows *)
(* from where they may be: nothing is written before `open' fires, a Peer  *)
(* starts only in a room, and the outbox is empty while a socket is open.  *)
(***************************************************************************)
JoinedFirst == /\ lastJoin <=> connection = "resolved"
               /\ started => lastJoin
               /\ sent > 0 => started

OpenWires == \A s \in Slot :
               /\ sock[s] = "connecting" => wire[s] = <<>>
               /\ sock[s] = "open" => outbox = <<>> /\ (lastJoin => wire[s] # <<>>)

Numbered == /\ \A s \in Slot : \A i \in DOMAIN wire[s] : wire[s][i] <= sent
            /\ \A i \in DOMAIN outbox : outbox[i] <= sent

WireInv == JoinedFirst /\ OpenWires /\ Numbered /\ WrittenOnceInOrder

(***************************************************************************)
(* Frames are numbered on arrival too: a handler that registers late has   *)
(* heard nothing yet, and what is held for it is of the live session.      *)
(***************************************************************************)
HeardInOrder == \A k \in Type :
                  /\ Increasing(heard[k])
                  /\ \A i \in DOMAIN heard[k] : heard[k][i] <= arrived
                  /\ ~started => heard[k] = <<>>

HeldFresh == \A k \in Type :
               /\ Increasing(pending[k])
               /\ \A i \in DOMAIN pending[k] : stale < pending[k][i] /\ pending[k][i] <= arrived

HeardInv == HeardInOrder /\ HeldFresh /\ stale <= arrived

----------------------------------------------------------------------------
(* Queues of frames *)

LEMMA AppendIncreasing ==
  ASSUME NEW q \in Seq(Int), NEW n \in Int,
         Increasing(q), \A i \in DOMAIN q : q[i] < n
  PROVE  Increasing(Append(q, n))
  BY DEF Increasing

\* The oldest frame of a queue goes, the order of the others stays.
LEMMA TailOfQueue ==
  ASSUME NEW S, NEW q \in Seq(S), q # <<>>
  PROVE  /\ Tail(q) \in Seq(S) /\ Len(Tail(q)) = Len(q) - 1
         /\ \A i \in DOMAIN Tail(q) : i + 1 \in DOMAIN q /\ Tail(q)[i] = q[i + 1]
  BY HeadTailProperties, LenProperties

LEMMA HoldKeepsOrder ==
  ASSUME NEW m \in Nat, NEW q \in Seq(1 .. m), NEW n \in 1 .. m, NEW low \in Int,
         Len(q) <= BufferCap, Increasing(q), low < n,
         \A i \in DOMAIN q : low < q[i] /\ q[i] < n
  PROVE  /\ Hold(q, n) \in Seq(1 .. m) /\ Len(Hold(q, n)) <= BufferCap
         /\ Increasing(Hold(q, n))
         /\ \A i \in DOMAIN Hold(q, n) : low < Hold(q, n)[i] /\ Hold(q, n)[i] <= n
  <1>0. BufferCap \in Nat \ {0} /\ Len(q) \in Nat /\ m \in Nat /\ DOMAIN q = 1 .. Len(q)
    BY ClientAssumption
  <1>1. ASSUME NEW r \in Seq(1 .. m), Increasing(r), Len(r) < BufferCap,
               \A i \in DOMAIN r : low < r[i] /\ r[i] < n
        PROVE  /\ Append(r, n) \in Seq(1 .. m) /\ Len(Append(r, n)) <= BufferCap
               /\ Increasing(Append(r, n))
               /\ \A i \in DOMAIN Append(r, n) : low < Append(r, n)[i] /\ Append(r, n)[i] <= n
    <2>1. /\ DOMAIN r = 1 .. Len(r) /\ Len(r) \in Nat
          /\ \A i \in DOMAIN r : r[i] \in 1 .. m
      BY <1>1
    <2>2. /\ DOMAIN Append(r, n) = 1 .. Len(r) + 1
          /\ Len(Append(r, n)) = Len(r) + 1
          /\ Append(r, n)[Len(r) + 1] = n
          /\ \A i \in DOMAIN r : Append(r, n)[i] = r[i]
      BY <2>1
    <2>3. Increasing(Append(r, n))
      BY <1>1, <2>1, <2>2 DEF Increasing
    <2>. QED
      BY <1>0, <1>1, <2>1, <2>2, <2>3
  <1>2. CASE Len(q) < BufferCap
    BY <1>1, <1>2 DEF Hold
  <1>3. CASE ~(Len(q) < BufferCap)
    <2>1. q # <<>>
      BY <1>0, <1>3
    <2>2. /\ Tail(q) \in Seq(1 .. m) /\ Len(Tail(q)) < BufferCap
          /\ Increasing(Tail(q))
          /\ \A i \in DOMAIN Tail(q) : low < Tail(q)[i] /\ Tail(q)[i] < n
      <3>1. /\ Tail(q) \in Seq(1 .. m) /\ Len(Tail(q)) = Len(q) - 1
            /\ \A i \in DOMAIN Tail(q) : i + 1 \in DOMAIN q /\ Tail(q)[i] = q[i + 1]
        BY <2>1, TailOfQueue
      <3>2. Increasing(Tail(q))
        BY <3>1, <1>0 DEF Increasing
      <3>. QED
        BY <3>1, <3>2, <1>0
    <2>. QED
      BY <1>1, <1>3, <2>2 DEF Hold
  <1>. QED
    BY <1>2, <1>3

----------------------------------------------------------------------------
(* One connection *)

LEMMA Numbers == MaxSends \in Nat /\ MaxArrivals \in Nat /\ BufferCap \in Nat \ {0}
  BY ClientAssumption

LEMMA QueueTypes ==
  ASSUME NEW S
  PROVE  /\ <<>> \in Seq(S)
         /\ \A x \in S : \A q \in Seq(S) : Append(q, x) \in Seq(S)
         /\ \A q, r \in Seq(S) : q \o r \in Seq(S)
  OBVIOUS

LEMMA UpdateTyped ==
  ASSUME NEW D, NEW S, NEW f \in [D -> S], NEW d \in D, NEW v \in S
  PROVE  [f EXCEPT ![d] = v] \in [D -> S]
  OBVIOUS

LEMMA InitConnection == Init => ConnectionInv
  <1>. SUFFICES ASSUME Init PROVE ConnectionInv
    OBVIOUS
  <1>1. /\ wire \in [Slot -> Seq(0 .. MaxSends)]
        /\ outbox \in Seq(1 .. MaxSends)
        /\ pending \in [Type -> Seq(1 .. MaxArrivals)]
        /\ heard \in [Type -> Seq(1 .. MaxArrivals)]
    BY QueueTypes, Zenon DEF Init
  <1>2. /\ sent \in 0 .. MaxSends /\ arrived \in 0 .. MaxArrivals /\ stale \in 0 .. MaxArrivals
        /\ \A k \in Type : Len(pending[k]) <= BufferCap
    BY Numbers DEF Init
  <1>3. TypeOK
    BY <1>1, <1>2 DEF Init, TypeOK
  <1>. QED
    BY <1>3, ClientAssumption DEF Init, ConnectionInv, OneConnection, Unused, Silenced, Alive

LEMMA SocketsTyped ==
  ASSUME TypeOK, [Next]_vars
  PROVE  /\ sock' \in [Slot -> {"closed", "connecting", "open", "closing"}]
         /\ ws' \in Slot \cup {NoSlot}
         /\ connection' \in {"none", "pending", "resolved", "rejected"}
         /\ timer' \in BOOLEAN
         /\ closedByUser' \in BOOLEAN
  BY DEF TypeOK, Next, vars, Connect, ReconnectTimer, openSocket, SocketOpen,
         SocketClose, scheduleReconnect, ServerCloses, Receive, Close, Closing, Send,
         PeerStart

\* What a socket that opens is written first.
LEMMA FlushTyped ==
  ASSUME TypeOK
  PROVE  Flush \in Seq(0 .. MaxSends) /\ Append(Flush, 0) \in Seq(0 .. MaxSends)
  <1>1. 0 \in 0 .. MaxSends /\ 1 .. MaxSends \subseteq 0 .. MaxSends
    BY Numbers
  <1>2. outbox \in Seq(0 .. MaxSends)
    BY <1>1, SeqMonotonic DEF TypeOK
  <1>3. <<0>> \in Seq(0 .. MaxSends)
    BY <1>1
  <1>4. Join \in Seq(0 .. MaxSends)
    BY <1>3, QueueTypes DEF Join
  <1>. QED
    BY <1>1, <1>2, <1>4, QueueTypes DEF Flush

LEMMA OutboundTyped ==
  ASSUME TypeOK, [Next]_vars
  PROVE  /\ wire' \in [Slot -> Seq(0 .. MaxSends)]
         /\ lastJoin' \in BOOLEAN
         /\ outbox' \in Seq(1 .. MaxSends)
         /\ sent' \in 0 .. MaxSends
  <1>. DEFINE Wire == Seq(0 .. MaxSends)
              Box == Seq(1 .. MaxSends)
              Goal == wire' \in [Slot -> Wire] /\ lastJoin' \in BOOLEAN
                      /\ outbox' \in Box /\ sent' \in 0 .. MaxSends
  <1>0. wire \in [Slot -> Wire] /\ lastJoin \in BOOLEAN /\ outbox \in Box /\ sent \in 0 .. MaxSends
    BY DEF TypeOK
  <1>e. <<>> \in Wire /\ <<>> \in Box
    BY QueueTypes
  <1>f. Flush \in Wire /\ Append(Flush, 0) \in Wire
    BY FlushTyped
  <1>a. ASSUME sent < MaxSends, ws \in Slot
        PROVE  Append(wire[ws], sent + 1) \in Wire
    <2>1. sent + 1 \in 0 .. MaxSends /\ wire[ws] \in Wire
      BY <1>0, <1>a, Numbers
    <2>. QED
      BY <2>1, QueueTypes
  <1>b. ASSUME sent < MaxSends
        PROVE  Append(outbox, sent + 1) \in Box /\ sent + 1 \in 0 .. MaxSends
    <2>1. sent + 1 \in 1 .. MaxSends /\ sent + 1 \in 0 .. MaxSends
      BY <1>0, <1>b, Numbers
    <2>. QED
      BY <2>1, <1>0, QueueTypes
  <1>. HIDE DEF Wire, Box
  <1>1. ASSUME NEW s \in Slot, Connect(s) \/ ReconnectTimer(s) PROVE Goal
    BY <1>0, <1>1, <1>e DEF Connect, ReconnectTimer, openSocket, outbound
  <1>2. ASSUME NEW s \in Slot, SocketOpen(s) PROVE Goal
    BY <1>0, <1>2, <1>e, <1>f DEF SocketOpen
  <1>3. ASSUME Send PROVE Goal
    BY <1>0, <1>3, <1>a, <1>b DEF Send, TypeOK
  <1>4. ASSUME UNCHANGED <<wire, outbound>> PROVE Goal
    BY <1>0, <1>4 DEF outbound
  <1>5. Goal
    BY <1>1, <1>2, <1>3, <1>4
    DEF Next, vars, SocketClose, ServerCloses, Receive, Close, PeerStart, outbound
  <1>. QED
    BY <1>5 DEF Wire, Box

\* What is held stays within the cap.
LEMMA HoldTyped ==
  ASSUME NEW S, NEW q \in Seq(S), NEW n \in S, Len(q) <= BufferCap
  PROVE  Hold(q, n) \in Seq(S) /\ Len(Hold(q, n)) <= BufferCap
  <1>1. CASE Len(q) < BufferCap
    BY <1>1, Numbers DEF Hold
  <1>2. CASE ~(Len(q) < BufferCap)
    <2>1. q # <<>> /\ Len(q) \in Nat
      BY <1>2, Numbers
    <2>2. Tail(q) \in Seq(S) /\ Len(Tail(q)) = Len(q) - 1
      BY <2>1, TailOfQueue
    <2>. QED
      BY <1>2, <2>1, <2>2, Numbers DEF Hold
  <1>. QED
    BY <1>1, <1>2

LEMMA InboundTyped ==
  ASSUME TypeOK, [Next]_vars
  PROVE  /\ started' \in BOOLEAN
         /\ pending' \in [Type -> Seq(1 .. MaxArrivals)]
         /\ \A k \in Type : Len(pending'[k]) <= BufferCap
         /\ arrived' \in 0 .. MaxArrivals
         /\ stale' \in 0 .. MaxArrivals
         /\ heard' \in [Type -> Seq(1 .. MaxArrivals)]
  <1>. DEFINE In == Seq(1 .. MaxArrivals)
              Goal == /\ started' \in BOOLEAN
                      /\ pending' \in [Type -> In]
                      /\ \A k \in Type : Len(pending'[k]) <= BufferCap
                      /\ arrived' \in 0 .. MaxArrivals
                      /\ stale' \in 0 .. MaxArrivals
                      /\ heard' \in [Type -> In]
  <1>0. /\ started \in BOOLEAN
        /\ pending \in [Type -> In]
        /\ \A k \in Type : Len(pending[k]) <= BufferCap
        /\ arrived \in 0 .. MaxArrivals
        /\ stale \in 0 .. MaxArrivals
        /\ heard \in [Type -> In]
    BY DEF TypeOK
  <1>e. <<>> \in In /\ Len(<<>>) <= BufferCap
    BY QueueTypes, Numbers
  <1>o. \A k \in Type : heard[k] \o pending[k] \in In
    BY <1>0, QueueTypes
  <1>a. ASSUME NEW k \in Type, arrived < MaxArrivals
        PROVE  /\ arrived + 1 \in 0 .. MaxArrivals
               /\ Append(heard[k], arrived + 1) \in In
               /\ Hold(pending[k], arrived + 1) \in In
               /\ Len(Hold(pending[k], arrived + 1)) <= BufferCap
    <2>1. arrived + 1 \in 1 .. MaxArrivals /\ arrived + 1 \in 0 .. MaxArrivals
      BY <1>0, <1>a, Numbers
    <2>. QED
      BY <2>1, <1>0, QueueTypes, HoldTyped
  <1>. HIDE DEF In
  <1>1. ASSUME NEW s \in Slot, NEW k \in Type, Receive(s, k) PROVE Goal
    BY <1>0, <1>1, <1>a DEF Receive
  <1>2. ASSUME PeerStart PROVE Goal
    BY <1>0, <1>2, <1>e, <1>o DEF PeerStart
  <1>3. ASSUME UNCHANGED <<started, arrived, heard>>, dropPending, stale' \in {stale, arrived}
        PROVE  Goal
    BY <1>0, <1>3, <1>e DEF dropPending
  <1>4. ASSUME UNCHANGED inbound PROVE Goal
    BY <1>0, <1>4 DEF inbound
  <1>5. Goal
    BY <1>1, <1>2, <1>3, <1>4
    DEF Next, vars, Connect, ReconnectTimer, SocketOpen, SocketClose, ServerCloses,
        Close, Send, inbound
  <1>. QED
    BY <1>5 DEF In

LEMMA TypeStep == TypeOK /\ [Next]_vars => TypeOK'
  BY SocketsTyped, OutboundTyped, InboundTyped DEF TypeOK

\* The sockets, the timer and what close() and connect() have done.
socketVars == <<sock, ws, connection, timer, closedByUser>>

LEMMA SocketsUnchanged ==
  ASSUME ConnectionInv, UNCHANGED socketVars
  PROVE  (OneConnection /\ Unused /\ Silenced)'
  BY DEF ConnectionInv, OneConnection, Unused, Silenced, Alive, socketVars

(***************************************************************************)
(* A timer that fires, and the first connect(), find every socket closed:  *)
(* the new one is the only one.                                            *)
(***************************************************************************)
LEMMA OpeningConnection ==
  ASSUME ConnectionInv, NEW s \in Slot, Connect(s) \/ ReconnectTimer(s)
  PROVE  (OneConnection /\ Unused /\ Silenced)'
  <1>1. /\ ~closedByUser /\ ~closedByUser' /\ ~timer' /\ connection' # "none"
        /\ \A t \in Slot : sock[t] = "closed"
    BY DEF ConnectionInv, TypeOK, OneConnection, Unused, Silenced, Connect, ReconnectTimer
  <1>2. ws' = s /\ sock' = [sock EXCEPT ![s] = "connecting"]
    BY DEF Connect, ReconnectTimer, openSocket
  <1>3. {t \in Slot : sock'[t] # "closed"} = {s}
    BY <1>1, <1>2 DEF ConnectionInv, TypeOK
  <1>. QED
    BY <1>1, <1>2, <1>3, ClientAssumption DEF OneConnection, Unused, Silenced

\* A socket in use changes its state: connecting, open, closing.
LEMMA MovingConnection ==
  ASSUME ConnectionInv, NEW s \in Slot, SocketOpen(s) \/ ServerCloses(s)
  PROVE  (OneConnection /\ Unused /\ Silenced)'
  <1>1. /\ ~closedByUser /\ connection # "none"
        /\ closedByUser' = closedByUser /\ connection' # "none" /\ ws' = ws /\ timer' = timer
    BY DEF ConnectionInv, TypeOK, Unused, Silenced, Alive, SocketOpen, ServerCloses
  <1>2. \A t \in Slot : sock'[t] # "closed" <=> sock[t] # "closed"
    BY DEF ConnectionInv, TypeOK, SocketOpen, ServerCloses
  <1>. QED
    BY <1>1, <1>2 DEF ConnectionInv, OneConnection, Unused, Silenced

(***************************************************************************)
(* The socket that closes was the only one, so that nothing is left but    *)
(* the timer, or nothing at all.                                           *)
(***************************************************************************)
LEMMA LosingConnection ==
  ASSUME ConnectionInv, NEW s \in Slot, SocketClose(s)
  PROVE  (OneConnection /\ Unused /\ Silenced)'
  <1>1. connection # "none" /\ connection' # "none" /\ ws' = NoSlot
        /\ sock' = [sock EXCEPT ![s] = "closed"]
    BY DEF ConnectionInv, TypeOK, Unused, SocketClose
  <1>2. CASE closedByUser
    <2>1. closedByUser' /\ ~timer'
      BY <1>2 DEF SocketClose, scheduleReconnect
    <2>2. \A t \in Slot : sock'[t] = "closed" \/ sock'[t] = sock[t]
      BY <1>1 DEF ConnectionInv, TypeOK
    <2>3. \A t \in Slot : ~Alive(t)'
      BY <1>2, <2>2 DEF ConnectionInv, Silenced, Alive
    <2>. QED
      BY <1>1, <2>1, <2>3 DEF OneConnection, Unused, Silenced
  <1>3. CASE ~closedByUser
    <2>1. \A t \in Slot : sock'[t] = "closed"
      BY <1>1, <1>3 DEF ConnectionInv, TypeOK, OneConnection, SocketClose
    <2>0. CASE timer' = ~closedByUser /\ closedByUser' = closedByUser
      BY <1>1, <1>3, <2>0, <2>1, ClientAssumption
      DEF OneConnection, Unused, Silenced
    <2>2. CASE timer' = FALSE /\ closedByUser' = TRUE
      BY <1>1, <2>1, <2>2, ClientAssumption
      DEF OneConnection, Unused, Silenced, Alive
    <2>. QED
      BY <2>0, <2>2, Zenon DEF SocketClose, scheduleReconnect
  <1>. QED
    BY <1>2, <1>3 DEF ConnectionInv, TypeOK

LEMMA ClosingConnection ==
  ASSUME ConnectionInv, Close
  PROVE  (OneConnection /\ Unused /\ Silenced)'
  <1>1. \A s \in Slot : sock'[s] = Closing(s)
    BY DEF Close
  <1>2. \A s \in Slot : Alive(s) => ws = s
    BY DEF ConnectionInv, OneConnection, Close, Alive
  <1>3. \A s \in Slot : ~Alive(s)'
    BY <1>1, <1>2 DEF Closing, Alive
  <1>. QED
    BY <1>3 DEF Close, OneConnection, Unused, Silenced

LEMMA ConnectionStep == ConnectionInv /\ [Next]_vars => ConnectionInv'
  <1>. SUFFICES ASSUME ConnectionInv, [Next]_vars
                PROVE  (OneConnection /\ Unused /\ Silenced)'
    BY TypeStep DEF ConnectionInv
  <1>1. ASSUME NEW s \in Slot, Connect(s) \/ ReconnectTimer(s) \/ SocketOpen(s)
                               \/ ServerCloses(s) \/ SocketClose(s)
        PROVE  (OneConnection /\ Unused /\ Silenced)'
    BY <1>1, OpeningConnection, MovingConnection, LosingConnection
  <1>2. CASE UNCHANGED socketVars
    BY <1>2, SocketsUnchanged
  <1>. QED
    BY <1>1, <1>2, ClosingConnection
    DEF Next, vars, socketVars, Receive, Send, PeerStart

LEMMA ConnectionInvariant == Spec => []ConnectionInv
  BY InitConnection, ConnectionStep, PTL DEF Spec

(***************************************************************************)
(* Whatever the order of timers, closes, failed retries and close(): until *)
(* close() the client has one socket or an armed timer that will open one, *)
(* never two sockets and never neither, and what it holds has its caps.    *)
(***************************************************************************)
THEOREM ClientOneConnection == Spec => []ClientInv
  BY ConnectionInvariant, PTL DEF ConnectionInv, ClientInv

(***************************************************************************)
(* What close() ends stays ended: no timer opens another socket, nothing   *)
(* more is written, and no frame of a socket that is still closing reaches *)
(* a handler.                                                              *)
(***************************************************************************)
THEOREM ClientSilentAfterClose == Spec => SilentAfterClose
  <1>. DEFINE Silent == closedByUser =>
                /\ closedByUser' /\ ~timer' /\ ws' = NoSlot
                /\ wire' = wire
                /\ \A s \in Slot : Alive(s)' => Alive(s)
                /\ started => heard' = heard
  <1>1. ConnectionInv /\ [Next]_vars => [Silent]_vars
    <2>. SUFFICES ASSUME ConnectionInv, Next, closedByUser PROVE Silent
      OBVIOUS
    <2>1. connection # "none" /\ ~timer /\ ws = NoSlot /\ \A s \in Slot : ~Alive(s)
      BY DEF ConnectionInv, Unused, Silenced
    <2>2. ASSUME NEW s \in Slot, SocketClose(s) PROVE Silent
      BY <2>1, <2>2 DEF SocketClose, scheduleReconnect, Alive, ConnectionInv, TypeOK
    <2>3. CASE Send
      BY <2>1, <2>3 DEF Send, Alive, inbound
    <2>. QED
      BY <2>1, <2>2, <2>3
      DEF Next, Connect, ReconnectTimer, SocketOpen, ServerCloses, Receive, Close, PeerStart, Alive
  <1>. QED
    BY <1>1, ConnectionInvariant, PTL DEF Spec, SilentAfterClose

----------------------------------------------------------------------------
(* What is written *)

LEMMA InitWires == Init => WireInv
  BY DEF Init, WireInv, JoinedFirst, OpenWires, Numbered, WrittenOnceInOrder, Increasing, ToSet

\* A join is remembered once connect() has resolved, and a Peer starts later.
LEMMA JoinedFirstStep ==
  ASSUME ConnectionInv, JoinedFirst, [Next]_vars
  PROVE  JoinedFirst'
  <1>1. ASSUME NEW s \in Slot, SocketOpen(s) PROVE JoinedFirst'
    BY <1>1, Zenon DEF JoinedFirst, SocketOpen, inbound
  <1>2. ASSUME NEW s \in Slot, SocketClose(s) PROVE JoinedFirst'
    BY <1>2 DEF JoinedFirst, SocketClose, outbound
  <1>3. ASSUME NEW s \in Slot, Connect(s) PROVE JoinedFirst'
    BY <1>3 DEF JoinedFirst, Connect, inbound, outbound
  <1>4. CASE Send
    BY <1>4 DEF JoinedFirst, Send, inbound
  <1>5. CASE PeerStart
    BY <1>5 DEF JoinedFirst, PeerStart, outbound
  <1>6. CASE UNCHANGED <<connection, lastJoin, started, sent>>
    BY <1>6 DEF JoinedFirst
  <1>. QED
    BY <1>1, <1>2, <1>3, <1>4, <1>5, <1>6
    DEF Next, vars, ReconnectTimer, ServerCloses, Receive, Close, inbound, outbound

\* The wires stay as they are, and no socket becomes one that is written to.
LEMMA WiresUnchanged ==
  ASSUME ConnectionInv, WireInv, UNCHANGED <<wire, outbox, lastJoin, sent>>,
         \A s \in Slot : Alive(s)' => sock'[s] = sock[s]
  PROVE  (OpenWires /\ Numbered /\ WrittenOnceInOrder)'
  <1>1. OpenWires'
    BY DEF WireInv, OpenWires, Alive
  <1>2. Numbered'
    BY DEF WireInv, Numbered
  <1>3. WrittenOnceInOrder'
    BY DEF WireInv, WrittenOnceInOrder
  <1>. QED
    BY <1>1, <1>2, <1>3

LEMMA OpeningWires ==
  ASSUME ConnectionInv, WireInv, NEW s \in Slot, Connect(s) \/ ReconnectTimer(s)
  PROVE  (OpenWires /\ Numbered /\ WrittenOnceInOrder)'
  <1>1. /\ UNCHANGED <<outbox, lastJoin, sent>>
        /\ \A t \in Slot : wire'[t] = IF t = s THEN <<>> ELSE wire[t]
        /\ \A t \in Slot : sock'[t] = IF t = s THEN "connecting" ELSE sock[t]
    BY DEF Connect, ReconnectTimer, openSocket, outbound, ConnectionInv, TypeOK
  <1>2. OpenWires'
    BY <1>1 DEF WireInv, OpenWires
  <1>3. Numbered'
    BY <1>1 DEF WireInv, Numbered
  <1>4. WrittenOnceInOrder'
    <2>1. \A t \in Slot : wire'[t] = wire[t] \/ (wire'[t] = <<>> /\ DOMAIN wire'[t] = {})
      BY <1>1
    <2>2. \A t \in Slot : ToSet(wire'[t]) \subseteq ToSet(wire[t])
      BY <2>1 DEF ToSet
    <2>3. \A t \in Slot : Increasing(wire'[t])
      BY <2>1 DEF WireInv, WrittenOnceInOrder, Increasing
    <2>4. /\ \A t \in Slot : \A i \in DOMAIN wire'[t] : wire'[t][i] = 0 <=> i = 1
          /\ \A t \in Slot : \A i \in DOMAIN wire'[t], j \in DOMAIN outbox : wire'[t][i] < outbox[j]
      BY <2>1 DEF WireInv, WrittenOnceInOrder
    <2>5. \A t, u \in Slot : t # u => ToSet(wire'[t]) \cap ToSet(wire'[u]) \subseteq {0}
      BY <2>2 DEF WireInv, WrittenOnceInOrder
    <2>. QED
      BY <1>1, <2>3, <2>4, <2>5 DEF WireInv, WrittenOnceInOrder
  <1>. QED
    BY <1>2, <1>3, <1>4

(***************************************************************************)
(* The first socket to open has nothing to write but the join connect()    *)
(* resolves into, and nothing is queued by who has not joined.             *)
(***************************************************************************)
LEMMA WhatIsFlushed ==
  ASSUME ConnectionInv, WireInv, NEW s \in Slot, SocketOpen(s)
  PROVE  wire'[s] = IF lastJoin' THEN <<0>> \o outbox ELSE <<>>
  <1>1. CASE lastJoin
    BY <1>1 DEF SocketOpen, Flush, Join, WireInv, JoinedFirst, ConnectionInv, TypeOK
  <1>2. CASE ~lastJoin
    <2>1. outbox = <<>>
      <3>1. \A i \in DOMAIN outbox : outbox[i] <= 0 /\ outbox[i] \in 1 .. MaxSends
        BY <1>2, Numbers DEF ConnectionInv, TypeOK, WireInv, JoinedFirst, Numbered
      <3>2. outbox \in Seq(1 .. MaxSends) /\ DOMAIN outbox = 1 .. Len(outbox) /\ Len(outbox) \in Nat
        BY Numbers DEF ConnectionInv, TypeOK
      <3>3. 1 \notin DOMAIN outbox
        BY <3>1, Numbers
      <3>. QED
        BY <3>2, <3>3, EmptySeq
    <2>2. Flush = <<>>
      BY <1>2, <2>1 DEF Flush, Join
    <2>3. CASE connection = "pending"
      <3>1. wire'[s] = Append(<<>>, 0) /\ lastJoin'
        BY <2>2, <2>3 DEF SocketOpen, ConnectionInv, TypeOK
      <3>. QED
        BY <2>1, <3>1
    <2>4. CASE connection # "pending"
      <3>1. wire'[s] = <<>> /\ ~lastJoin'
        BY <1>2, <2>2, <2>4 DEF SocketOpen, ConnectionInv, TypeOK
      <3>. QED
        BY <3>1
    <2>. QED
      BY <2>3, <2>4
  <1>. QED
    BY <1>1, <1>2

LEMMA FlushingWires ==
  ASSUME ConnectionInv, WireInv, NEW s \in Slot, SocketOpen(s)
  PROVE  (OpenWires /\ Numbered /\ WrittenOnceInOrder)'
  <1>1. /\ outbox' = <<>> /\ sent' = sent
        /\ \A t \in Slot \ {s} : wire'[t] = wire[t]
        /\ \A t \in Slot \ {s} : sock'[t] = sock[t]
        /\ sock'[s] = "open"
    BY DEF SocketOpen, ConnectionInv, TypeOK
  <1>2. \A t \in Slot \ {s} : sock[t] = "closed"
    BY DEF SocketOpen, ConnectionInv, OneConnection, Unused, Silenced, Alive
  <1>3. wire'[s] = IF lastJoin' THEN <<0>> \o outbox ELSE <<>>
    BY WhatIsFlushed
  <1>4. /\ lastJoin' => DOMAIN wire'[s] = 1 .. Len(outbox) + 1
        /\ ~lastJoin' => DOMAIN wire'[s] = {}
        /\ \A i \in DOMAIN wire'[s] : wire'[s][i] = IF i = 1 THEN 0 ELSE outbox[i - 1]
        /\ DOMAIN outbox = 1 .. Len(outbox) /\ Len(outbox) \in Nat
        /\ \A i \in DOMAIN outbox : outbox[i] \in 1 .. MaxSends
    BY <1>3, Numbers DEF ConnectionInv, TypeOK
  <1>5. OpenWires'
    BY <1>1, <1>2, <1>4 DEF OpenWires
  <1>6. Numbered'
    <2>1. sent \in Nat /\ \A i \in DOMAIN outbox : outbox[i] <= sent
      BY Numbers DEF WireInv, Numbered, ConnectionInv, TypeOK
    <2>2. \A i \in DOMAIN wire'[s] : wire'[s][i] <= sent
      BY <1>4, <2>1
    <2>. QED
      BY <1>1, <2>2 DEF WireInv, Numbered
  <1>7. WrittenOnceInOrder'
    <2>. USE <1>1, <1>4, Numbers DEF WireInv, WrittenOnceInOrder
    <2>1. \A t \in Slot : \A i \in DOMAIN wire'[t] : wire'[t][i] = 0 <=> i = 1
      OBVIOUS
    <2>2. Increasing(outbox') /\ \A t \in Slot : Increasing(wire'[t])
      BY DEF Increasing
    <2>3. \A t \in Slot : \A i \in DOMAIN wire'[t], j \in DOMAIN outbox' : wire'[t][i] < outbox'[j]
      OBVIOUS
    <2>4. ASSUME NEW t \in Slot \ {s}, NEW i \in DOMAIN wire'[t], NEW j \in DOMAIN wire'[s],
                 wire'[t][i] = wire'[s][j]
          PROVE  wire'[t][i] = 0
      <3>1. wire'[t] = wire[t] /\ (j = 1 \/ j - 1 \in DOMAIN outbox)
        OBVIOUS
      <3>2. CASE j = 1
        BY <2>4, <3>2
      <3>3. CASE j # 1
        <4>1. wire[t][i] < outbox[j - 1] /\ wire[t][i] = outbox[j - 1] /\ outbox[j - 1] \in Int
          BY <2>4, <3>1, <3>3
        <4>. QED
          BY <4>1
      <3>. QED
        BY <3>2, <3>3
    <2>5. \A t, u \in Slot : t # u => ToSet(wire'[t]) \cap ToSet(wire'[u]) \subseteq {0}
      BY <2>4 DEF ToSet
    <2>. QED
      BY <2>1, <2>2, <2>3, <2>5
  <1>. QED
    BY <1>5, <1>6, <1>7

\* The frame goes to the socket in use, whose wire begins with the join.
LEMMA WritingToSocket ==
  ASSUME ConnectionInv, WireInv, Send, ws \in Slot, sock[ws] = "open"
  PROVE  (OpenWires /\ Numbered /\ WrittenOnceInOrder)'
  <1>0. sent \in Nat /\ wire[ws] \in Seq(0 .. MaxSends) /\ wire[ws] # <<>> /\ outbox = <<>>
    BY Numbers DEF ConnectionInv, TypeOK, WireInv, OpenWires, JoinedFirst, Send
  <1>1. /\ UNCHANGED <<sock, lastJoin, outbox>> /\ sent' = sent + 1
        /\ \A t \in Slot \ {ws} : wire'[t] = wire[t]
        /\ wire'[ws] = Append(wire[ws], sent + 1)
    BY ClientAssumption DEF Send, ConnectionInv, TypeOK
  <1>2. /\ DOMAIN wire[ws] = 1 .. Len(wire[ws]) /\ Len(wire[ws]) \in Nat \ {0}
        /\ DOMAIN wire'[ws] = 1 .. Len(wire[ws]) + 1
        /\ \A i \in DOMAIN wire[ws] : wire'[ws][i] = wire[ws][i]
        /\ wire'[ws][Len(wire[ws]) + 1] = sent + 1
    BY <1>0, <1>1
  <1>3. \A t \in Slot : \A i \in DOMAIN wire[t] : wire[t][i] \in Nat /\ wire[t][i] <= sent
    BY Numbers DEF WireInv, Numbered, ConnectionInv, TypeOK
  <1>4. OpenWires'
    BY <1>0, <1>1, <1>2 DEF WireInv, OpenWires
  <1>5. Numbered'
    <2>1. \A t \in Slot : \A i \in DOMAIN wire'[t] : wire'[t][i] <= sent + 1
      <3>1. \A i \in DOMAIN wire'[ws] : i \in DOMAIN wire[ws] \/ i = Len(wire[ws]) + 1
        BY <1>2
      <3>2. \A i \in DOMAIN wire'[ws] : wire'[ws][i] <= sent + 1
        BY <1>0, <1>2, <1>3, <3>1
      <3>3. ASSUME NEW t \in Slot \ {ws}, NEW i \in DOMAIN wire'[t] PROVE wire'[t][i] <= sent + 1
        <4>1. wire'[t][i] = wire[t][i] /\ wire[t][i] \in Nat /\ wire[t][i] <= sent
          BY <1>1, <1>3
        <4>. QED
          BY <1>0, <4>1
      <3>. QED
        BY <3>2, <3>3
    <2>. QED
      BY <1>0, <1>1, <2>1 DEF Numbered
  <1>6. WrittenOnceInOrder'
    <2>1. \A i \in DOMAIN wire'[ws] : i \in DOMAIN wire[ws] \/ (i = Len(wire[ws]) + 1 /\ i # 1)
      BY <1>2
    <2>2. \A i \in DOMAIN wire'[ws] : wire'[ws][i] = 0 <=> i = 1
      BY <1>0, <1>2, <2>1 DEF WireInv, WrittenOnceInOrder
    <2>3. \A t \in Slot : \A i \in DOMAIN wire'[t] : wire'[t][i] = 0 <=> i = 1
      BY <1>1, <2>2 DEF WireInv, WrittenOnceInOrder
    <2>4. Increasing(wire'[ws])
      <3>1. wire[ws] \in Seq(Int) /\ \A i \in DOMAIN wire[ws] : wire[ws][i] < sent + 1
        BY <1>0, <1>3
      <3>2. Increasing(wire[ws])
        BY DEF WireInv, WrittenOnceInOrder
      <3>. QED
        BY <1>0, <1>1, <3>1, <3>2, AppendIncreasing
    <2>5. Increasing(outbox') /\ \A t \in Slot : Increasing(wire'[t])
      BY <1>1, <2>4 DEF WireInv, WrittenOnceInOrder
    <2>6. DOMAIN outbox' = {}
      BY <1>0, <1>1
    <2>7. ASSUME NEW t \in Slot \ {ws} PROVE ToSet(wire'[t]) \cap ToSet(wire'[ws]) \subseteq {0}
      <3>1. ToSet(wire'[t]) = ToSet(wire[t]) /\ sent + 1 \notin ToSet(wire[t])
        BY <1>0, <1>1, <1>3 DEF ToSet
      <3>2. ToSet(wire'[ws]) \subseteq ToSet(wire[ws]) \cup {sent + 1}
        BY <1>2, <2>1 DEF ToSet
      <3>. QED
        BY <3>1, <3>2 DEF WireInv, WrittenOnceInOrder
    <2>8. \A t, u \in Slot : t # u => ToSet(wire'[t]) \cap ToSet(wire'[u]) \subseteq {0}
      BY <1>1, <2>7 DEF WireInv, WrittenOnceInOrder
    <2>. QED
      BY <2>3, <2>5, <2>6, <2>8 DEF WrittenOnceInOrder
  <1>. QED
    BY <1>4, <1>5, <1>6

\* The frame waits behind those sent before it.
LEMMA WritingToOutbox ==
  ASSUME ConnectionInv, WireInv, Send, ~(ws # NoSlot /\ sock[ws] = "open")
  PROVE  (OpenWires /\ Numbered /\ WrittenOnceInOrder)'
  <1>0. sent \in Nat /\ outbox \in Seq(1 .. MaxSends)
    BY Numbers DEF ConnectionInv, TypeOK
  <1>1. UNCHANGED <<sock, lastJoin, wire>> /\ sent' = sent + 1 /\ outbox' = Append(outbox, sent + 1)
    BY DEF Send
  <1>2. \A s \in Slot : sock[s] # "open"
    BY DEF ConnectionInv, OneConnection, Unused, Silenced, Alive
  <1>3. /\ DOMAIN outbox = 1 .. Len(outbox) /\ Len(outbox) \in Nat
        /\ DOMAIN outbox' = 1 .. Len(outbox) + 1
        /\ \A i \in DOMAIN outbox : outbox'[i] = outbox[i]
        /\ outbox'[Len(outbox) + 1] = sent + 1
    BY <1>0, <1>1
  <1>4. /\ \A i \in DOMAIN outbox : outbox[i] \in Nat /\ outbox[i] <= sent
        /\ \A t \in Slot : \A i \in DOMAIN wire[t] : wire[t][i] \in Nat /\ wire[t][i] <= sent
    BY Numbers DEF WireInv, Numbered, ConnectionInv, TypeOK
  <1>5. OpenWires'
    BY <1>1, <1>2 DEF WireInv, OpenWires
  <1>6. Numbered'
    BY <1>0, <1>1, <1>3, <1>4 DEF WireInv, Numbered
  <1>7. Increasing(outbox')
    BY <1>0, <1>3, <1>4 DEF WireInv, WrittenOnceInOrder, Increasing
  <1>8. \A t \in Slot : \A i \in DOMAIN wire[t], j \in DOMAIN outbox' : wire[t][i] < outbox'[j]
    BY <1>0, <1>3, <1>4 DEF WireInv, WrittenOnceInOrder
  <1>. QED
    BY <1>1, <1>5, <1>6, <1>7, <1>8 DEF WireInv, WrittenOnceInOrder

LEMMA WireStep == ConnectionInv /\ WireInv /\ [Next]_vars => WireInv'
  <1>. SUFFICES ASSUME ConnectionInv, WireInv, [Next]_vars
                PROVE  (OpenWires /\ Numbered /\ WrittenOnceInOrder)'
    BY JoinedFirstStep DEF WireInv
  <1>1. ASSUME NEW s \in Slot, SocketClose(s) \/ ServerCloses(s) \/ \E k \in Type : Receive(s, k)
        PROVE  (OpenWires /\ Numbered /\ WrittenOnceInOrder)'
    BY <1>1, WiresUnchanged
    DEF SocketClose, ServerCloses, Receive, Alive, ConnectionInv, TypeOK, outbound
  <1>2. CASE Close \/ PeerStart \/ UNCHANGED vars
    BY <1>2, WiresUnchanged DEF Close, Closing, PeerStart, vars, outbound, Alive
  <1>3. CASE Send
    BY <1>3, WritingToSocket, WritingToOutbox DEF ConnectionInv, TypeOK
  <1>. QED
    BY <1>1, <1>2, <1>3, OpeningWires, FlushingWires DEF Next

(***************************************************************************)
(* Through any outages, each socket begins with the join and has it once;  *)
(* each other frame is on one wire or in the outbox, once, in the order in *)
(* which the Peer sent it.                                                 *)
(***************************************************************************)
THEOREM ClientWrittenOnceInOrder == Spec => []WrittenOnceInOrder
  <1>1. Spec => []WireInv
    BY InitWires, WireStep, ConnectionInvariant, PTL DEF Spec
  <1>. QED
    BY <1>1, PTL DEF WireInv

----------------------------------------------------------------------------
(* What is heard *)

LEMMA InitHeard == Init => HeardInv
  BY DEF Init, HeardInv, HeardInOrder, HeldFresh, Increasing

\* A session that ends makes everything that has arrived stale.
LEMMA DroppingHeld ==
  ASSUME TypeOK, HeardInv, UNCHANGED <<started, arrived, heard>>, dropPending,
         stale' \in {stale, arrived}
  PROVE  HeardInv'
  BY DEF TypeOK, HeardInv, HeardInOrder, HeldFresh, dropPending, Increasing

(***************************************************************************)
(* A frame is later than all that arrived before it, and than the session  *)
(* that ended last.                                                        *)
(***************************************************************************)
LEMMA HearingFrame ==
  ASSUME TypeOK, HeardInv, NEW s \in Slot, NEW k \in Type, Receive(s, k)
  PROVE  HeardInv'
  <1>0. /\ arrived \in Nat /\ stale \in Nat /\ arrived + 1 \in 1 .. MaxArrivals
        /\ arrived' = arrived + 1 /\ UNCHANGED <<started, stale>>
    BY Numbers DEF TypeOK, Receive
  <1>1. \A q \in Type : /\ heard[q] \in Seq(1 .. MaxArrivals) /\ pending[q] \in Seq(1 .. MaxArrivals)
                        /\ \A i \in DOMAIN heard[q] : heard[q][i] \in Nat
                        /\ \A i \in DOMAIN pending[q] : pending[q][i] \in Nat
    BY Numbers DEF TypeOK
  <1>2. CASE started
    <2>1. /\ pending' = pending /\ \A q \in Type \ {k} : heard'[q] = heard[q]
          /\ heard'[k] = Append(heard[k], arrived + 1)
      BY <1>2 DEF Receive, TypeOK
    <2>2. /\ DOMAIN heard[k] = 1 .. Len(heard[k]) /\ Len(heard[k]) \in Nat
          /\ DOMAIN heard'[k] = 1 .. Len(heard[k]) + 1
          /\ \A i \in DOMAIN heard[k] : heard'[k][i] = heard[k][i]
          /\ heard'[k][Len(heard[k]) + 1] = arrived + 1
      BY <1>1, <2>1
    <2>3. Increasing(heard'[k])
      <3>1. /\ heard[k] \in Seq(Int) /\ Increasing(heard[k])
            /\ \A i \in DOMAIN heard[k] : heard[k][i] < arrived + 1
        BY <1>0, <1>1 DEF HeardInv, HeardInOrder
      <3>. QED
        BY <1>0, <2>1, <3>1, AppendIncreasing
    <2>4. \A i \in DOMAIN heard'[k] : heard'[k][i] <= arrived'
      BY <1>0, <1>1, <2>2 DEF HeardInv, HeardInOrder
    <2>5. ASSUME NEW q \in Type \ {k}, NEW i \in DOMAIN heard'[q]
          PROVE  heard'[q][i] <= arrived'
      <3>1. heard'[q][i] = heard[q][i] /\ heard[q][i] \in Nat /\ heard[q][i] <= arrived
        BY <1>1, <2>1 DEF HeardInv, HeardInOrder
      <3>. QED
        BY <1>0, <3>1
    <2>6. HeardInOrder'
      BY <1>0, <1>2, <2>1, <2>3, <2>4, <2>5 DEF HeardInv, HeardInOrder
    <2>7. HeldFresh'
      BY <1>0, <1>1, <2>1 DEF HeardInv, HeldFresh
    <2>. QED
      BY <1>0, <2>6, <2>7 DEF HeardInv
  <1>3. CASE ~started
    <2>1. /\ heard' = heard /\ \A q \in Type \ {k} : pending'[q] = pending[q]
          /\ pending'[k] = Hold(pending[k], arrived + 1)
      BY <1>3 DEF Receive, TypeOK
    <2>2. /\ Increasing(pending'[k])
          /\ \A i \in DOMAIN pending'[k] : stale < pending'[k][i] /\ pending'[k][i] <= arrived + 1
      <3>1. /\ Len(pending[k]) <= BufferCap /\ Increasing(pending[k]) /\ stale < arrived + 1
            /\ \A i \in DOMAIN pending[k] : stale < pending[k][i] /\ pending[k][i] < arrived + 1
        BY <1>0, <1>1 DEF TypeOK, HeardInv, HeldFresh
      <3>2. MaxArrivals \in Nat /\ stale \in Int /\ pending[k] \in Seq(1 .. MaxArrivals)
        BY <1>0, <1>1, Numbers
      <3>. QED
        BY <1>0, <2>1, <3>1, <3>2, HoldKeepsOrder
    <2>3. HeldFresh'
      <3>1. ASSUME NEW q \in Type \ {k}
            PROVE  /\ Increasing(pending'[q])
                   /\ \A i \in DOMAIN pending'[q] : stale < pending'[q][i] /\ pending'[q][i] <= arrived + 1
        BY <1>0, <1>1, <2>1 DEF HeardInv, HeldFresh
      <3>. QED
        BY <1>0, <2>2, <3>1 DEF HeldFresh
    <2>4. HeardInOrder'
      BY <1>0, <1>1, <2>1 DEF HeardInv, HeardInOrder
    <2>. QED
      BY <1>0, <2>3, <2>4 DEF HeardInv
  <1>. QED
    BY <1>2, <1>3

\* The handlers that register now have heard nothing: they hear what is held.
LEMMA Replaying ==
  ASSUME TypeOK, HeardInv, PeerStart
  PROVE  /\ HeardInv'
         /\ \A k \in Type : heard[k] = <<>> /\ heard'[k] = pending[k]
  <1>1. \A k \in Type : heard[k] = <<>> /\ heard'[k] = pending[k] /\ pending'[k] = <<>>
    BY DEF TypeOK, PeerStart, HeardInv, HeardInOrder
  <1>2. HeldFresh' /\ HeardInOrder' /\ stale' <= arrived'
    <2>1. UNCHANGED <<arrived, stale>> /\ started'
      BY DEF PeerStart
    <2>2. HeldFresh'
      BY <1>1 DEF HeldFresh, Increasing
    <2>3. HeardInOrder'
      BY <1>1, <2>1 DEF HeardInv, HeldFresh, HeardInOrder
    <2>. QED
      BY <2>1, <2>2, <2>3 DEF HeardInv
  <1>. QED
    BY <1>1, <1>2 DEF HeardInv

LEMMA HeardStep == TypeOK /\ HeardInv /\ [Next]_vars => HeardInv'
  <1>. SUFFICES ASSUME TypeOK, HeardInv, [Next]_vars PROVE HeardInv'
    OBVIOUS
  <1>1. CASE UNCHANGED inbound
    BY <1>1 DEF HeardInv, HeardInOrder, HeldFresh, inbound
  <1>2. ASSUME UNCHANGED <<started, arrived, heard>>, dropPending, stale' \in {stale, arrived}
        PROVE  HeardInv'
    BY <1>2, DroppingHeld
  <1>. QED
    BY <1>1, <1>2, HearingFrame, Replaying
    DEF Next, vars, inbound, Connect, ReconnectTimer, SocketOpen, SocketClose, ServerCloses,
        Close, Send

\* The handlers of a type have been called with more, and all of it is new.
HearsFresh(k) == /\ IsPrefix(heard[k], heard'[k])
                 /\ Increasing(heard'[k])
                 /\ \A i \in DOMAIN heard'[k] : i > Len(heard[k]) => heard'[k][i] > stale

(***************************************************************************)
(* The handlers of a type are called with each frame once and in the order *)
(* of arrival, and a Peer that starts after a reconnect is not given what  *)
(* an earlier session sent, however much of it was held.                   *)
(***************************************************************************)
THEOREM ClientHeardFresh == Spec => HeardFresh
  <1>1. TypeOK /\ HeardInv /\ [Next]_vars => [\A k \in Type : HearsFresh(k)]_vars
    <2>. SUFFICES ASSUME TypeOK, HeardInv, Next, NEW k \in Type PROVE HearsFresh(k)
      OBVIOUS
    <2>0. /\ heard[k] \in Seq(1 .. MaxArrivals) /\ heard'[k] \in Seq(1 .. MaxArrivals)
          /\ Increasing(heard'[k])
      BY TypeStep, HeardStep DEF TypeOK, HeardInv, HeardInOrder
    <2>1. ASSUME heard'[k] = heard[k] PROVE HearsFresh(k)
      BY <2>0, <2>1 DEF HearsFresh, IsPrefix
    <2>2. ASSUME NEW s \in Slot, Receive(s, k), started PROVE HearsFresh(k)
      <3>1. heard'[k] = Append(heard[k], arrived + 1) /\ arrived + 1 > stale
        BY <2>2, Numbers DEF Receive, TypeOK, HeardInv
      <3>. QED
        BY <2>0, <3>1 DEF HearsFresh, IsPrefix
    <2>3. ASSUME NEW s \in Slot, NEW q \in Type, Receive(s, q) PROVE HearsFresh(k)
      BY <2>1, <2>2, <2>3 DEF Receive, TypeOK
    <2>4. CASE PeerStart
      <3>1. heard[k] = <<>> /\ heard'[k] = pending[k]
        BY <2>4, Replaying
      <3>2. \A i \in DOMAIN pending[k] : pending[k][i] > stale
        BY Numbers DEF TypeOK, HeardInv, HeldFresh
      <3>. QED
        BY <2>0, <3>1, <3>2 DEF HearsFresh, IsPrefix
    <2>. QED
      BY <2>1, <2>3, <2>4
      DEF Next, inbound, Connect, ReconnectTimer, SocketOpen, SocketClose, ServerCloses,
          Close, Send
  <1>2. Spec => []HeardInv
    BY InitHeard, HeardStep, ConnectionInvariant, PTL DEF Spec, ConnectionInv
  <1>3. Spec => []TypeOK
    BY ConnectionInvariant, PTL DEF ConnectionInv
  <1>. QED
    BY <1>1, <1>2, <1>3, PTL DEF Spec, HeardFresh, HearsFresh

==============================================================================
