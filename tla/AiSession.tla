------------------------------ MODULE AiSession ------------------------------
(***************************************************************************)
(* The session an agent drives a host through: RemoteDesktopSession        *)
(* (packages/ai/src/session.ts), shared by every tool call of the MCP      *)
(* server and of the REST API.                                             *)
(*                                                                         *)
(* A connect() call awaits the WebRTC runtime, its signaling socket and    *)
(* the join acknowledgement; what it does after the last one runs in the   *)
(* microtasks of the frame that carried it.  Each call that gets that far  *)
(* makes one client and one Peer, named here by the call.  Clients reopen  *)
(* their sockets by themselves until they are closed (SignalingClient).    *)
(***************************************************************************)
EXTENDS Naturals, FiniteSets

CONSTANTS Call,      \* calls of connect()
          Ask,       \* calls of listMonitors()
          Code,      \* valid session codes
          Endpoint,  \* signaling servers
          Default,   \* this.signalingUrl
          Nothing    \* null, or an argument that was left out

ASSUME AiAssumption ==
  /\ Default \in Endpoint
  /\ Nothing \notin Call \cup Endpoint

VARIABLES
  phase,        \* connect(): "new" | "rtc" | "socket" | "ack" | "done", or
                \*  "failed" where its first socket did
  target,       \* connect(): the code and the endpoint it resolved
  client,       \* its SignalingClient: "none" | "opening" | "open" | "closed"
  peers,        \* its Peer exists and is not closed
  linked,       \* that Peer has a connection to its host
  rtcLoaded,    \* this.rtcCtor is set
  session,      \* the call that set this.peer, signaling and connectedCode
  discovered,   \* discoveredEndpoints, Default where it has no entry
  ice,          \* serverIceServers: the server whose list it is
  built,        \* the list the call's Peer was built with
  lastFrame,    \* whose frame it is
  lastMonitors, \* whose list it is
  waiters,      \* monitorWaiters
  requested,    \* hosts that were asked for their monitors
  asked,        \* listMonitors(): the session it was called on
  answer,       \* listMonitors(): whose list it returned
  crossed       \* history: the calls of connect() that were pending together

sessionVars == <<session, peers, linked, lastFrame, lastMonitors, waiters, answer>>
vars == <<sessionVars, phase, target, client, rtcLoaded, discovered, ice, built,
          requested, asked, crossed>>

Init ==
  /\ phase = [c \in Call |-> "new"]
  /\ target = [c \in Call |-> Nothing]
  /\ client = [c \in Call |-> "none"]
  /\ peers = {} /\ linked = {} /\ requested = {} /\ waiters = {}
  /\ rtcLoaded = FALSE
  /\ session = Nothing
  /\ discovered = [k \in Code |-> Default]
  /\ ice = Nothing
  /\ built = [c \in Call |-> Nothing]
  /\ lastFrame = Nothing /\ lastMonitors = Nothing
  /\ asked = [a \in Ask |-> Nothing]
  /\ answer = [a \in Ask |-> Nothing]
  /\ crossed = {}

UnderWay(c) == phase[c] \in {"rtc", "socket", "ack"}

Pending == {c \in Call : UnderWay(c)}

\* A call begins; the code has no lock, others may be pending.
Begins(c) == crossed' = IF Pending = {} THEN crossed ELSE crossed \cup Pending \cup {c}

\* A mutant: what was captured survives the disconnect.
ReleaseKeepsCaptures ==
  /\ peers' = peers \ {session} /\ linked' = linked \ {session}
  /\ session' = Nothing /\ waiters' = {}
  /\ UNCHANGED <<lastFrame, lastMonitors, answer>>

(***************************************************************************)
(* disconnect(): close what the session holds, forget what it captured and *)
(* answer the waiters with an empty list.  The client is left to the       *)
(* caller of Release, which may open another one in the same step.         *)
(***************************************************************************)
Release ==
  /\ peers' = peers \ {session}
  /\ linked' = linked \ {session}
  /\ session' = Nothing
  /\ lastFrame' = Nothing /\ lastMonitors' = Nothing
  /\ waiters' = {} /\ UNCHANGED answer

Closed == [c \in Call |-> IF c = session THEN "closed" ELSE client[c]]

Disconnect ==
  /\ Release
  /\ client' = Closed
  /\ UNCHANGED <<phase, target, rtcLoaded, discovered, ice, built, requested, asked, crossed>>

(***************************************************************************)
(* connect(): resolve the endpoint, return at once when that very session  *)
(* is connected, otherwise disconnect and wait for what comes first.       *)
(***************************************************************************)
Resolve(k, e) == <<k, IF e # Nothing THEN e ELSE discovered[k]>>

Matches(t) == session # Nothing /\ target[session] = t

ConnectAgain(c) ==
  /\ phase[c] = "new"
  /\ \E k \in Code, e \in Endpoint \cup {Nothing} : Matches(Resolve(k, e))
  /\ phase' = [phase EXCEPT ![c] = "done"]
  /\ UNCHANGED <<sessionVars, target, client, rtcLoaded, discovered, ice, built,
                 requested, asked, crossed>>

\* A mutant: a connect to another host does not disconnect from this one.
ConnectBeside(c) ==
  /\ phase[c] = "new"
  /\ \E k \in Code, e \in Endpoint \cup {Nothing} :
       /\ ~Matches(Resolve(k, e))
       /\ target' = [target EXCEPT ![c] = Resolve(k, e)]
  /\ phase' = [phase EXCEPT ![c] = IF rtcLoaded THEN "socket" ELSE "rtc"]
  /\ client' = [client EXCEPT ![c] = IF rtcLoaded THEN "opening" ELSE "none"]
  /\ Begins(c)
  /\ UNCHANGED <<sessionVars, rtcLoaded, discovered, ice, built, requested, asked>>

Connect(c) ==
  /\ phase[c] = "new"
  /\ \E k \in Code, e \in Endpoint \cup {Nothing} :
       /\ ~Matches(Resolve(k, e))
       /\ target' = [target EXCEPT ![c] = Resolve(k, e)]
  /\ IF session # Nothing THEN Release ELSE UNCHANGED sessionVars
  /\ phase' = [phase EXCEPT ![c] = IF rtcLoaded THEN "socket" ELSE "rtc"]
  /\ client' = [Closed EXCEPT ![c] = IF rtcLoaded THEN "opening" ELSE "none"]
  /\ Begins(c)
  /\ UNCHANGED <<rtcLoaded, discovered, ice, built, requested, asked>>

\* ensureRtc(): the runtime is loaded once, or is not installed.
RtcLoads(c) ==
  /\ phase[c] = "rtc"
  /\ rtcLoaded' = TRUE
  /\ phase' = [phase EXCEPT ![c] = "socket"]
  /\ client' = [client EXCEPT ![c] = "opening"]
  /\ UNCHANGED <<sessionVars, target, discovered, ice, built, requested, asked, crossed>>

RtcMissing(c) ==
  /\ phase[c] = "rtc"
  /\ phase' = [phase EXCEPT ![c] = "done"]
  /\ UNCHANGED <<sessionVars, target, client, rtcLoaded, discovered, ice, built,
                 requested, asked, crossed>>

(***************************************************************************)
(* The socket opens: connect() forgets the list of the previous server and *)
(* sends its join.  A socket that opens for a call that is over replays    *)
(* the join, if there was one.                                             *)
(***************************************************************************)
SocketOpens(c) ==
  /\ client[c] = "opening"
  /\ client' = [client EXCEPT ![c] = "open"]
  /\ IF phase[c] = "socket"
       THEN ice' = Nothing /\ phase' = [phase EXCEPT ![c] = "ack"]
       ELSE UNCHANGED <<ice, phase>>
  /\ UNCHANGED <<sessionVars, target, rtcLoaded, discovered, built, requested, asked, crossed>>

\* The first socket fails: connect() throws before its try block, and the
\* client goes on reconnecting.
SocketFails(c) ==
  /\ client[c] = "opening" /\ phase[c] = "socket"
  /\ phase' = [phase EXCEPT ![c] = "failed"]
  /\ UNCHANGED <<sessionVars, target, client, rtcLoaded, discovered, ice, built,
                 requested, asked, crossed>>

SocketDrops(c) ==
  /\ client[c] = "open"
  /\ client' = [client EXCEPT ![c] = "opening"]
  /\ UNCHANGED <<sessionVars, phase, target, rtcLoaded, discovered, ice, built,
                 requested, asked, crossed>>

(***************************************************************************)
(* awaitJoinAck(): `joined', with the server's ICE list or without, builds *)
(* the Peer and makes the call's connection the session; `error' or the    *)
(* timeout closes the client.                                              *)
(***************************************************************************)
JoinAck(c) ==
  /\ phase[c] = "ack" /\ client[c] = "open"
  /\ ice' \in {ice, target[c][2]}
  /\ built' = [built EXCEPT ![c] = ice']
  /\ peers' = peers \cup {c}
  /\ session' = c
  /\ phase' = [phase EXCEPT ![c] = "done"]
  /\ UNCHANGED <<target, client, rtcLoaded, discovered, linked, lastFrame,
                 lastMonitors, waiters, requested, asked, answer, crossed>>

\* A mutant: only an `error' frame ends the wait, there is no timer.
JoinRefusedByFrame(c) ==
  /\ phase[c] = "ack" /\ client[c] = "open"
  /\ phase' = [phase EXCEPT ![c] = "done"]
  /\ client' = [client EXCEPT ![c] = "closed"]
  /\ UNCHANGED <<sessionVars, target, rtcLoaded, discovered, ice, built, requested,
                 asked, crossed>>

JoinRefused(c) ==
  /\ phase[c] = "ack"
  /\ phase' = [phase EXCEPT ![c] = "done"]
  /\ client' = [client EXCEPT ![c] = "closed"]
  /\ UNCHANGED <<sessionVars, target, rtcLoaded, discovered, ice, built, requested,
                 asked, crossed>>

(***************************************************************************)
(* The host's offer reaches a Peer whose socket is open and installs a     *)
(* frame sink on its track; the host leaves, or the path is lost, and the  *)
(* Peer drops the connection without the session noticing.                 *)
(***************************************************************************)
LinkUp(c) ==
  /\ c \in peers \ linked /\ client[c] = "open"
  /\ linked' = linked \cup {c}
  /\ UNCHANGED <<session, peers, lastFrame, lastMonitors, waiters, answer, phase,
                 target, client, rtcLoaded, discovered, ice, built, requested, asked, crossed>>

LinkDown(c) ==
  /\ c \in linked
  /\ linked' = linked \ {c}
  /\ requested' = requested \ {c}
  /\ UNCHANGED <<session, peers, lastFrame, lastMonitors, waiters, answer, phase,
                 target, client, rtcLoaded, discovered, ice, built, asked, crossed>>

\* pushFrame(): a decoded frame becomes the screenshot source.
Frame(c) ==
  /\ c \in linked
  /\ lastFrame' = c
  /\ UNCHANGED <<session, peers, linked, lastMonitors, waiters, answer, phase,
                 target, client, rtcLoaded, discovered, ice, built, requested, asked, crossed>>

(***************************************************************************)
(* listMonitors(): request, and wait for the reply or for the timer, which *)
(* returns the list last known.                                            *)
(***************************************************************************)
ListMonitors(a) ==
  /\ session # Nothing /\ asked[a] = Nothing
  /\ asked' = [asked EXCEPT ![a] = session]
  /\ waiters' = waiters \cup {a}
  /\ requested' = requested \cup (linked \cap {session})
  /\ UNCHANGED <<session, peers, linked, lastFrame, lastMonitors, answer, phase,
                 target, client, rtcLoaded, discovered, ice, built, crossed>>

\* handleControl(): a monitors frame from any Peer that is not closed.
Monitors(c) ==
  /\ c \in linked \cap requested
  /\ requested' = requested \ {c}
  /\ lastMonitors' = c
  /\ answer' = [a \in Ask |-> IF a \in waiters THEN c ELSE answer[a]]
  /\ waiters' = {}
  /\ UNCHANGED <<session, peers, linked, lastFrame, phase, target, client,
                 rtcLoaded, discovered, ice, built, asked, crossed>>

AskTimeout(a) ==
  /\ a \in waiters
  /\ waiters' = waiters \ {a}
  /\ answer' = [answer EXCEPT ![a] = lastMonitors]
  /\ UNCHANGED <<session, peers, linked, lastFrame, lastMonitors, phase, target,
                 client, rtcLoaded, discovered, ice, built, requested, asked, crossed>>

\* listHosts(): the map is replaced by what discovery returned.
ListHosts ==
  /\ discovered' \in [Code -> Endpoint]
  /\ UNCHANGED <<sessionVars, phase, target, client, rtcLoaded, ice, built,
                 requested, asked, crossed>>

Next ==
  \/ Disconnect
  \/ ListHosts
  \/ \E c \in Call : \/ ConnectAgain(c) \/ Connect(c)
                     \/ RtcLoads(c) \/ RtcMissing(c)
                     \/ SocketOpens(c) \/ SocketFails(c) \/ SocketDrops(c)
                     \/ JoinAck(c) \/ JoinRefused(c)
                     \/ LinkUp(c) \/ LinkDown(c) \/ Frame(c) \/ Monitors(c)
  \/ \E a \in Ask : ListMonitors(a) \/ AskTimeout(a)

Spec == Init /\ [][Next]_vars

(***************************************************************************)
(* Fairness.  Loading a module ends, a socket opens or fails, and the join *)
(* and the monitor request each have a timer.                              *)
(***************************************************************************)
Fairness ==
  /\ \A c \in Call :
       /\ WF_vars(RtcLoads(c) \/ RtcMissing(c))
       /\ WF_vars(phase[c] = "socket" /\ (SocketOpens(c) \/ SocketFails(c)))
       /\ WF_vars(JoinRefused(c))
  /\ \A a \in Ask : WF_vars(AskTimeout(a))

FairSpec == Spec /\ Fairness

-----------------------------------------------------------------------------

TypeOK ==
  /\ phase \in [Call -> {"new", "rtc", "socket", "ack", "done", "failed"}]
  /\ target \in [Call -> (Code \X Endpoint) \cup {Nothing}]
  /\ client \in [Call -> {"none", "opening", "open", "closed"}]
  /\ peers \subseteq Call /\ linked \subseteq peers /\ requested \subseteq Call
  /\ rtcLoaded \in BOOLEAN
  /\ session \in Call \cup {Nothing}
  /\ discovered \in [Code -> Endpoint]
  /\ ice \in Endpoint \cup {Nothing}
  /\ built \in [Call -> Endpoint \cup {Nothing}]
  /\ lastFrame \in Call \cup {Nothing} /\ lastMonitors \in Call \cup {Nothing}
  /\ waiters \subseteq Ask
  /\ asked \in [Ask -> Call \cup {Nothing}]
  /\ answer \in [Ask -> Call \cup {Nothing}]
  /\ crossed \subseteq Call

(***************************************************************************)
(* connect() promises to disconnect from one host before it reaches for    *)
(* another.  So it does, whatever disconnect(), failures and other calls   *)
(* do: a Peer that is open beside the session's was made by a call that    *)
(* was pending together with another one.                                  *)
(***************************************************************************)
OnePeer == peers \subseteq {session} \cup crossed

(***************************************************************************)
(* No client is left reconnecting behind the session's back: a socket that *)
(* is open, or will be again, comes with an open Peer or belongs to a      *)
(* connect() that is under way.  The one exception is the client of a      *)
(* connect() whose first socket failed (SocketFails), which nothing ever   *)
(* closes.                                                                 *)
(***************************************************************************)
OneClient ==
  \A c \in Call : client[c] \in {"opening", "open"} =>
                   c \in peers \/ UnderWay(c) \/ phase[c] = "failed"

(***************************************************************************)
(* The shape of the state, and the single Peer and socket in it.           *)
(***************************************************************************)
AiInv == TypeOK /\ OnePeer /\ OneClient

(***************************************************************************)
(* Nothing an agent is handed is left over from another host: the          *)
(* screenshot and the monitor list are the session's, a list that was      *)
(* waited for comes from the host it was asked of, and a Peer is built     *)
(* with no server's ICE list but its own.  What came otherwise came from,  *)
(* was asked of or is a call that was pending together with another one.   *)
(***************************************************************************)
NothingStale ==
  /\ lastFrame \in {Nothing, session} \cup crossed
  /\ lastMonitors \in {Nothing, session} \cup crossed
  /\ \A a \in Ask : answer[a] \in {Nothing, asked[a]} \/ {answer[a], asked[a]} \cap crossed # {}
  /\ \A c \in peers \ crossed : built[c] \in {Nothing, target[c][2]}

(***************************************************************************)
(* Every call ends: connect() in a session or an error, listMonitors() in  *)
(* a list.                                                                 *)
(***************************************************************************)
CallsEnd ==
  /\ \A c \in Call : UnderWay(c) ~> ~UnderWay(c)
  /\ \A a \in Ask : a \in waiters ~> a \notin waiters
=============================================================================
