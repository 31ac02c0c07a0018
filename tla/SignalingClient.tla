--------------------------- MODULE SignalingClient ---------------------------
(***************************************************************************)
(* The reconnecting WebSocket client of the signaling server               *)
(* (packages/core/src/signaling-client.ts), used the way HostSession,      *)
(* ViewerSession and the AI session use it: connect() once, join() as soon *)
(* as it resolves, send() from the Peer afterwards, close() at any time.   *)
(*                                                                         *)
(* The code runs on one event loop.  Constructing a socket, `error' with   *)
(* its `close', `open' with what connect() resolves into, and a frame's    *)
(* dispatch are one task each.  reconnectAttempt only stretches the delay  *)
(* of the reconnect timer, and time is abstract here, so it is left out.   *)
(***************************************************************************)
EXTENDS Integers, Sequences, SequencesExt, FiniteSets

CONSTANTS Slot,        \* sockets that can exist at once; a closed one is reused
          NoSlot,      \* this.ws is null
          Type,        \* BUFFERED_TYPES
          BufferCap,   \* BUFFER_CAP
          MaxSends,    \* bound: frames the Peer sends
          MaxArrivals  \* bound: buffered-type frames the server sends

ASSUME ClientAssumption ==
  /\ NoSlot \notin Slot /\ Cardinality(Slot) > 1
  /\ BufferCap \in Nat \ {0} /\ MaxSends \in Nat /\ MaxArrivals \in Nat

VARIABLES
  sock,          \* readyState of each socket; "closing" is not read from
  wire,          \* what was written to the socket: frames in the order of
                 \*  their send() calls, 0 for the join
  ws,            \* this.ws
  connection,    \* the connect() call: "none" | "pending" | "resolved" | "rejected"
  timer,         \* reconnectTimer is armed
  closedByUser,  \* close() was called
  lastJoin,      \* join() was called
  outbox,        \* frames queued while there is no open socket
  sent,          \* send() calls so far; the number of the latest frame
  started,       \* Peer.start() registered its handlers
  pending,       \* pendingFrames: type -> the numbers of the frames held
  arrived,       \* frames received so far; the number of the latest one
  stale,         \* number of the last frame of a session that ended
  heard          \* type -> the frames its handler was called with

vars == <<sock, wire, ws, connection, timer, closedByUser, lastJoin, outbox,
          sent, started, pending, arrived, stale, heard>>

inbound  == <<started, pending, arrived, stale, heard>>
outbound == <<lastJoin, outbox, sent>>

Alive(s) == sock[s] \in {"connecting", "open"}

TypeOK ==
  /\ sock \in [Slot -> {"closed", "connecting", "open", "closing"}]
  /\ wire \in [Slot -> Seq(0 .. MaxSends)]
  /\ ws \in Slot \cup {NoSlot}
  /\ connection \in {"none", "pending", "resolved", "rejected"}
  /\ timer \in BOOLEAN
  /\ closedByUser \in BOOLEAN
  /\ lastJoin \in BOOLEAN
  /\ outbox \in Seq(1 .. MaxSends)
  /\ sent \in 0 .. MaxSends
  /\ started \in BOOLEAN
  /\ pending \in [Type -> Seq(1 .. MaxArrivals)]
  /\ \A k \in Type : Len(pending[k]) <= BufferCap
  /\ arrived \in 0 .. MaxArrivals
  /\ stale \in 0 .. MaxArrivals
  /\ heard \in [Type -> Seq(1 .. MaxArrivals)]

Init ==
  /\ sock = [s \in Slot |-> "closed"]
  /\ wire = [s \in Slot |-> <<>>]
  /\ ws = NoSlot
  /\ connection = "none"
  /\ timer = FALSE
  /\ closedByUser = FALSE
  /\ lastJoin = FALSE
  /\ outbox = <<>>
  /\ sent = 0
  /\ started = FALSE
  /\ pending = [k \in Type |-> <<>>]
  /\ arrived = 0
  /\ stale = 0
  /\ heard = [k \in Type |-> <<>>]

----------------------------------------------------------------------------
(* Opening a socket *)

openSocket(s) ==
  /\ sock[s] = "closed"
  /\ sock' = [sock EXCEPT ![s] = "connecting"]
  /\ wire' = [wire EXCEPT ![s] = <<>>]
  /\ ws' = s

Connect(s) ==
  /\ connection = "none"
  /\ connection' = "pending"
  /\ openSocket(s)
  /\ UNCHANGED <<timer, closedByUser, outbound, inbound>>

ReconnectTimer(s) ==
  /\ timer
  /\ timer' = FALSE
  /\ openSocket(s)
  /\ UNCHANGED <<connection, closedByUser, outbound, inbound>>

Join == IF lastJoin THEN <<0>> ELSE <<>>

\* What onopen writes: the remembered join first.
Flush == Join \o outbox

\* Mutant: the outbox is written but not emptied.
SocketOpenKeeps(s) ==
  /\ sock[s] = "connecting"
  /\ sock' = [sock EXCEPT ![s] = "open"]
  /\ LET joins == connection = "pending"
     IN /\ wire' = [wire EXCEPT ![s] = IF joins THEN Append(Flush, 0) ELSE Flush]
        /\ connection' = IF joins THEN "resolved" ELSE connection
        /\ lastJoin' = (lastJoin \/ joins)
  /\ UNCHANGED <<ws, timer, closedByUser, outbox, sent, inbound>>

\* onopen.  When it resolves connect(), the caller joins before anything else
\* can happen.
SocketOpen(s) ==
  /\ sock[s] = "connecting"
  /\ sock' = [sock EXCEPT ![s] = "open"]
  /\ outbox' = <<>>
  /\ LET joins == connection = "pending"
     IN /\ wire' = [wire EXCEPT ![s] = IF joins THEN Append(Flush, 0) ELSE Flush]
        /\ connection' = IF joins THEN "resolved" ELSE connection
        /\ lastJoin' = (lastJoin \/ joins)
  /\ UNCHANGED <<ws, timer, closedByUser, sent, inbound>>

----------------------------------------------------------------------------
(* Losing a socket *)

\* Mutant: a retry that fails is not followed by another one.
scheduleReconnectOnce ==
  timer' = (~closedByUser /\ \A s \in Slot : sock[s] # "connecting")

scheduleReconnect == timer' = ~closedByUser

\* Mutant: frames held for the old session survive it.
dropPendingNever == UNCHANGED pending

dropPending == pending' = [k \in Type |-> <<>>]

\* onclose of a socket, and onerror before it.  HostSession and ViewerSession
\* answer a connect() that fails by close(); the AI session does not.
SocketClose(s) ==
  /\ sock[s] # "closed"
  /\ sock' = [sock EXCEPT ![s] = "closed"]
  /\ ws' = NoSlot
  /\ dropPending
  /\ stale' = arrived
  /\ connection' = IF connection = "pending" THEN "rejected" ELSE connection
  /\ \/ /\ scheduleReconnect
        /\ UNCHANGED closedByUser
     \/ /\ connection = "pending"
        /\ timer' = FALSE
        /\ closedByUser' = TRUE
  /\ UNCHANGED <<wire, outbound, started, arrived, heard>>

\* Mutant: the retry is scheduled when the closing handshake begins.
ServerClosesEager(s) ==
  /\ sock[s] = "open"
  /\ sock' = [sock EXCEPT ![s] = "closing"]
  /\ timer' = ~closedByUser
  /\ UNCHANGED <<wire, ws, connection, closedByUser, outbound, inbound>>

\* The server (or the network) starts to close: nothing is read any more, and
\* nothing can be written, but `close' has not fired.
ServerCloses(s) ==
  /\ sock[s] = "open"
  /\ sock' = [sock EXCEPT ![s] = "closing"]
  /\ UNCHANGED <<wire, ws, connection, timer, closedByUser, outbound, inbound>>

\* ws.close() of the socket this.ws names.
Closing(s) == IF ws = s /\ Alive(s) THEN "closing" ELSE sock[s]

\* Mutant: close() forgets the reconnect timer.
CloseKeepsTimer ==
  /\ connection # "none" /\ ~closedByUser
  /\ closedByUser' = TRUE
  /\ dropPending
  /\ sock' = [s \in Slot |-> Closing(s)]
  /\ ws' = NoSlot
  /\ UNCHANGED <<wire, connection, timer, outbound, started, arrived, stale, heard>>

Close ==
  /\ connection # "none" /\ ~closedByUser
  /\ closedByUser' = TRUE
  /\ dropPending
  /\ timer' = FALSE
  /\ sock' = [s \in Slot |-> Closing(s)]
  /\ ws' = NoSlot
  /\ UNCHANGED <<wire, connection, outbound, started, arrived, stale, heard>>

----------------------------------------------------------------------------
(* Frames *)

\* send(), from a Peer that outlives sockets and, in its continuations, close().
Send ==
  /\ started /\ sent < MaxSends
  /\ sent' = sent + 1
  /\ IF ws # NoSlot /\ sock[ws] = "open"
     THEN /\ wire' = [wire EXCEPT ![ws] = Append(@, sent + 1)]
          /\ UNCHANGED outbox
     ELSE /\ outbox' = Append(outbox, sent + 1)
          /\ UNCHANGED wire
  /\ UNCHANGED <<sock, ws, connection, timer, closedByUser, lastJoin, inbound>>

\* The oldest frame makes room.
Hold(q, n) == IF Len(q) < BufferCap THEN Append(q, n) ELSE Append(Tail(q), n)

\* dispatch() of a negotiation frame.
Receive(s, k) ==
  /\ sock[s] = "open" /\ arrived < MaxArrivals
  /\ arrived' = arrived + 1
  /\ IF started
     THEN /\ heard' = [heard EXCEPT ![k] = Append(@, arrived + 1)]
          /\ UNCHANGED pending
     ELSE /\ pending' = [pending EXCEPT ![k] = Hold(@, arrived + 1)]
          /\ UNCHANGED heard
  /\ UNCHANGED <<sock, wire, ws, connection, timer, closedByUser, outbound,
                 started, stale>>

\* Peer.start() after the join was acknowledged: on() for every type, which
\* replays what is held and forgets it.
PeerStart ==
  /\ connection = "resolved" /\ ~closedByUser /\ ~started
  /\ started' = TRUE
  /\ heard' = [k \in Type |-> heard[k] \o pending[k]]
  /\ pending' = [k \in Type |-> <<>>]
  /\ UNCHANGED <<sock, wire, ws, connection, timer, closedByUser, outbound,
                 arrived, stale>>

Next ==
  \/ \E s \in Slot :
       \/ Connect(s) \/ ReconnectTimer(s) \/ SocketOpen(s) \/ SocketClose(s)
       \/ ServerCloses(s)
       \/ \E k \in Type : Receive(s, k)
  \/ Close \/ Send \/ PeerStart

Spec == Init /\ [][Next]_vars

----------------------------------------------------------------------------
(* Safety *)

Increasing(q) == \A i, j \in DOMAIN q : i < j => q[i] < q[j]

(***************************************************************************)
(* Until close() there is either one socket, which this.ws names, or an    *)
(* armed timer that will open one: the client never owns two connections,  *)
(* each with a join of its own, and is never left with neither.            *)
(***************************************************************************)
OneConnection ==
  connection # "none" /\ ~closedByUser =>
    /\ timer <=> ws = NoSlot
    /\ {s \in Slot : sock[s] # "closed"} = {ws} \ {NoSlot}

(***************************************************************************)
(* The shape of the state, with the caps on what is held, and the one      *)
(* connection of the client.                                               *)
(***************************************************************************)
ClientInv == TypeOK /\ OneConnection

(***************************************************************************)
(* Whatever outages happen, the remembered join is the first frame on      *)
(* every socket and is there once (signaling-client.ts:125; the server     *)
(* answers a second one with `already-joined'), any other frame is written *)
(* at most once, and frames are written in the order in which they were    *)
(* sent: what the outbox holds comes after what is on the wires.           *)
(***************************************************************************)
WrittenOnceInOrder ==
  /\ \A s \in Slot : \A i \in DOMAIN wire[s] : wire[s][i] = 0 <=> i = 1
  /\ Increasing(outbox)
  /\ \A s \in Slot : Increasing(wire[s])
  /\ \A s \in Slot : \A i \in DOMAIN wire[s], j \in DOMAIN outbox : wire[s][i] < outbox[j]
  /\ \A s, t \in Slot : s # t =>
       ToSet(wire[s]) \cap ToSet(wire[t]) \subseteq {0}

(***************************************************************************)
(* What a handler is called with comes in the order of arrival, each frame *)
(* once, and a frame of a session that has ended is never replayed into    *)
(* the next one, even if the handler registers after the reconnect.        *)
(***************************************************************************)
HeardFresh ==
  [][\A k \in Type :
       /\ IsPrefix(heard[k], heard'[k])
       /\ Increasing(heard'[k])
       /\ \A i \in DOMAIN heard'[k] : i > Len(heard[k]) => heard'[k][i] > stale]_vars

(***************************************************************************)
(* After close() no timer brings the client back, nothing more is written  *)
(* and nothing more is heard: a room it has left stays left.               *)
(***************************************************************************)
SilentAfterClose ==
  [][closedByUser =>
       /\ closedByUser' /\ ~timer' /\ ws' = NoSlot
       /\ wire' = wire
       /\ \A s \in Slot : Alive(s)' => Alive(s)
       /\ started => heard' = heard]_vars

----------------------------------------------------------------------------
(* Liveness *)

(***************************************************************************)
(* Timers fire and handshakes end.  The server is not always there, but    *)
(* not away for good: a client that keeps trying gets through.             *)
(***************************************************************************)
Fairness ==
  /\ WF_vars(\E s \in Slot : ReconnectTimer(s))
  /\ \A s \in Slot : /\ WF_vars(sock[s] = "closing" /\ SocketClose(s))
                     /\ SF_vars(SocketOpen(s))
                     /\ WF_vars(SocketOpen(s) \/ SocketClose(s))

FairSpec == Spec /\ Fairness

(***************************************************************************)
(* A client that had joined is back in its room after every outage, with   *)
(* nothing left in the outbox, unless it is closed.                        *)
(***************************************************************************)
Rejoins ==
  lastJoin ~> \/ closedByUser
              \/ outbox = <<>> /\ \E s \in Slot : sock[s] = "open" /\ wire[s] # <<>>
=============================================================================
