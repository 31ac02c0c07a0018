------------------------- MODULE RemoteControlProofs -------------------------
(***************************************************************************)
(* What a machine under remote control may count on, at its two ends.      *)
(*                                                                         *)
(* AiSession.tla, the agent that controls: what its connect() calls, its   *)
(* requests and its disconnect() guarantee in any order and overlapping at *)
(* will, for any number of calls, requests, codes and servers.  Calls that *)
(* were pending beside one another may leave a Peer behind: the history    *)
(* variable `crossed' names them.                                          *)
(*                                                                         *)
(* RemoteInput.tla, the keyboard and the mouse: what several viewers may   *)
(* hold down, press and drop at once, for any keys and any viewers.  The   *)
(* history variable `misnamed' names the modifiers that were promoted      *)
(* under their right key while it is the left one that is down.            *)
(***************************************************************************)
EXTENDS AiSession, RemoteInput, SequenceTheorems, TLAPS

(***************************************************************************)
(* A call that is pending alone has no session to come beside, because it  *)
(* disconnected before it waited; one that is pending together with others *)
(* may find a session that one of them made meanwhile.                     *)
(***************************************************************************)
AloneUnderWay ==
  \A c \in Call : UnderWay(c) =>
    /\ session \in {Nothing} \cup crossed
    /\ c \notin crossed => session = Nothing /\ \A d \in Call : UnderWay(d) => d = c

\* A client is made no sooner than its call looks for one.
NoClientYet == \A c \in Call : phase[c] \in {"new", "rtc"} => client[c] \notin {"opening", "open"}

\* A pending call knows where it is going.
Resolved == \A c \in Call : UnderWay(c) => target[c] \in Code \X Endpoint

ConnectInv == AiInv /\ AloneUnderWay /\ NoClientYet /\ Resolved

(***************************************************************************)
(* What is handed out is the session's because who waits asked in this     *)
(* session, and because the list of a server is forgotten before the next  *)
(* server can send its own.                                                *)
(***************************************************************************)
WaitersAskedSession ==
  \A a \in waiters : asked[a] # Nothing /\ asked[a] \in {session} \cup crossed

ListForgotten == \A c \in Call \ crossed : phase[c] = "ack" => ice = Nothing

FreshInv == NothingStale /\ WaitersAskedSession /\ ListForgotten

----------------------------------------------------------------------------

LEMMA InitConnect == Init => ConnectInv /\ FreshInv
  <1>. SUFFICES ASSUME Init PROVE ConnectInv /\ FreshInv
    OBVIOUS
  <1>1. TypeOK
    BY AiAssumption DEF Init, TypeOK
  <1>2. ConnectInv
    BY <1>1, AiAssumption
    DEF Init, ConnectInv, AiInv, OnePeer, OneClient, AloneUnderWay, NoClientYet, Resolved, UnderWay
  <1>3. FreshInv
    BY AiAssumption DEF Init, FreshInv, NothingStale, WaitersAskedSession, ListForgotten
  <1>. QED
    BY <1>2, <1>3

\* Only Peers of calls that were pending together outlive the session.
LEMMA ReleaseLeaves ==
  ASSUME ConnectInv, Release
  PROVE  /\ peers' = peers \ {session} /\ peers' \subseteq crossed
         /\ linked' \subseteq peers' /\ session' = Nothing /\ waiters' = {}
  BY DEF ConnectInv, AiInv, TypeOK, OnePeer, Release

\* Whether or not there was a session, none is left when connect() waits.
LEMMA ConnectLeaves ==
  ASSUME ConnectInv, NEW c \in Call, Connect(c)
  PROVE  /\ peers' = peers \ {session} /\ peers' \subseteq crossed
         /\ linked' \subseteq peers' /\ session' = Nothing
         /\ crossed \subseteq crossed'
  <1>1. crossed \subseteq crossed'
    BY DEF Connect, Begins
  <1>2. CASE session # Nothing
    BY <1>1, <1>2, ReleaseLeaves DEF Connect
  <1>3. CASE session = Nothing
    BY <1>1, <1>3, AiAssumption DEF Connect, sessionVars, ConnectInv, AiInv, TypeOK, OnePeer
  <1>. QED
    BY <1>2, <1>3

LEMMA TypeStep ==
  ASSUME ConnectInv, [Next]_vars
  PROVE  TypeOK'
  <1>. USE AiAssumption DEF sessionVars
  <1>1. TypeOK
    BY DEF ConnectInv, AiInv
  <1>2. CASE Disconnect
    BY <1>1, <1>2 DEF TypeOK, Disconnect, Release, Closed
  <1>3. CASE ListHosts
    BY <1>1, <1>3 DEF TypeOK, ListHosts
  <1>4. ASSUME NEW c \in Call, Connect(c) PROVE TypeOK'
    <2>1. \A k \in Code, e \in Endpoint \cup {Nothing} : Resolve(k, e) \in Code \X Endpoint
      BY <1>1 DEF TypeOK, Resolve
    <2>2. target' \in [Call -> (Code \X Endpoint) \cup {Nothing}]
      BY <1>1, <1>4, <2>1 DEF TypeOK, Connect
    <2>3. client' \in [Call -> {"none", "opening", "open", "closed"}]
      BY <1>1, <1>4 DEF TypeOK, Connect, Closed
    <2>4. /\ peers' \subseteq Call /\ linked' \subseteq peers' /\ session' = Nothing
          /\ crossed' \subseteq Call
      <3>1. crossed' \subseteq Call
        BY <1>1, <1>4 DEF TypeOK, Connect, Begins, Pending
      <3>. QED
        BY <1>1, <1>4, <3>1, ConnectLeaves DEF TypeOK
    <2>5. lastFrame' \in Call \cup {Nothing} /\ lastMonitors' \in Call \cup {Nothing}
          /\ waiters' \subseteq Ask /\ answer' = answer
      BY <1>1, <1>4 DEF TypeOK, Connect, Release
    <2>. QED
      BY <1>1, <1>4, <2>2, <2>3, <2>4, <2>5 DEF TypeOK, Connect
  <1>5. ASSUME NEW c \in Call, ConnectAgain(c) \/ RtcLoads(c) \/ RtcMissing(c) \/ SocketFails(c)
                               \/ SocketDrops(c) \/ JoinRefused(c)
        PROVE  TypeOK'
    <2>1. CASE ConnectAgain(c)
      BY <1>1, <2>1 DEF TypeOK, ConnectAgain
    <2>2. CASE RtcLoads(c) \/ RtcMissing(c)
      BY <1>1, <2>2 DEF TypeOK, RtcLoads, RtcMissing
    <2>3. CASE SocketFails(c) \/ SocketDrops(c) \/ JoinRefused(c)
      BY <1>1, <2>3 DEF TypeOK, SocketFails, SocketDrops, JoinRefused
    <2>. QED
      BY <1>5, <2>1, <2>2, <2>3
  <1>6. ASSUME NEW c \in Call, SocketOpens(c) PROVE TypeOK'
    BY <1>1, <1>6 DEF TypeOK, SocketOpens
  <1>7. ASSUME NEW c \in Call, JoinAck(c) PROVE TypeOK'
    <2>1. ice' \in Endpoint \cup {Nothing}
      BY <1>1, <1>7 DEF TypeOK, JoinAck, ConnectInv, Resolved, UnderWay
    <2>. QED
      BY <1>1, <1>7, <2>1 DEF TypeOK, JoinAck
  <1>8. ASSUME NEW c \in Call, LinkUp(c) \/ LinkDown(c) \/ Frame(c) \/ Monitors(c) PROVE TypeOK'
    BY <1>1, <1>8 DEF TypeOK, LinkUp, LinkDown, Frame, Monitors
  <1>9. ASSUME NEW a \in Ask, ListMonitors(a) \/ AskTimeout(a) PROVE TypeOK'
    BY <1>1, <1>9 DEF TypeOK, ListMonitors, AskTimeout
  <1>10. CASE UNCHANGED vars
    BY <1>1, <1>10 DEF TypeOK, vars
  <1>. QED
    BY <1>2, <1>3, <1>4, <1>5, <1>6, <1>7, <1>8, <1>9, <1>10 DEF Next

(***************************************************************************)
(* The single connection                                                   *)
(***************************************************************************)

\* A call begins: it is alone, or it has crossed all that are pending.
LEMMA ConnectKeeps ==
  ASSUME ConnectInv, NEW c \in Call, Connect(c)
  PROVE  (OnePeer /\ OneClient /\ AloneUnderWay /\ NoClientYet /\ Resolved)'
  <1>1. TypeOK /\ AiAssumption
    BY AiAssumption DEF ConnectInv, AiInv
  <1>2. /\ peers' = peers \ {session} /\ peers' \subseteq crossed /\ session' = Nothing
        /\ crossed \subseteq crossed'
    BY ConnectLeaves
  <1>3. /\ phase[c] = "new"
        /\ \A d \in Call \ {c} : phase'[d] = phase[d] /\ target'[d] = target[d]
        /\ \A d \in Call \ {c} : client'[d] = IF d = session THEN "closed" ELSE client[d]
        /\ phase'[c] = (IF rtcLoaded THEN "socket" ELSE "rtc")
        /\ client'[c] = (IF rtcLoaded THEN "opening" ELSE "none")
    BY <1>1 DEF Connect, Closed, TypeOK
  <1>4. target'[c] \in Code \X Endpoint
    BY <1>1 DEF Connect, Resolve, TypeOK
  <1>5. OneClient'
    BY <1>2, <1>3 DEF ConnectInv, AiInv, OneClient, UnderWay
  <1>6. Resolved'
    BY <1>3, <1>4 DEF ConnectInv, Resolved, UnderWay
  <1>7. AloneUnderWay'
    <2>1. \A d \in Call \ crossed' : UnderWay(d)' => \A e \in Call : UnderWay(e)' => e = d
      <3>1. CASE Pending = {}
        BY <1>3, <3>1 DEF Pending, UnderWay
      <3>2. CASE Pending # {}
        <4>1. crossed' = crossed \cup Pending \cup {c}
          BY <3>2 DEF Connect, Begins
        <4>. QED
          BY <1>3, <4>1 DEF Pending, UnderWay
      <3>. QED
        BY <3>1, <3>2
    <2>. QED
      BY <1>2, <2>1 DEF AloneUnderWay
  <1>8. NoClientYet'
    <2>1. phase'[c] \in {"new", "rtc"} => client'[c] = "none"
      BY <1>3
    <2>. QED
      BY <1>3, <2>1 DEF ConnectInv, NoClientYet
  <1>. QED
    BY <1>2, <1>5, <1>6, <1>7, <1>8 DEF OnePeer

LEMMA ConnectStep == ConnectInv /\ [Next]_vars => ConnectInv'
  <1>. DEFINE Rest == OnePeer /\ OneClient /\ AloneUnderWay /\ NoClientYet /\ Resolved
  <1>. SUFFICES ASSUME ConnectInv, [Next]_vars PROVE Rest'
    BY TypeStep DEF ConnectInv, AiInv
  <1>1. TypeOK /\ Rest /\ AiAssumption
    BY AiAssumption DEF ConnectInv, AiInv
  <1>. USE DEF sessionVars, UnderWay
  <1>2. CASE Disconnect
    <2>1. /\ peers' = peers \ {session} /\ peers' \subseteq crossed /\ session' = Nothing
          /\ UNCHANGED <<phase, target, crossed>>
      BY <1>2, ReleaseLeaves DEF Disconnect
    <2>2. \A c \in Call : client'[c] = IF c = session THEN "closed" ELSE client[c]
      BY <1>2 DEF Disconnect, Closed
    <2>. QED
      BY <1>1, <2>1, <2>2 DEF OnePeer, OneClient, AloneUnderWay, NoClientYet, Resolved
  <1>3. ASSUME NEW c \in Call, Connect(c) PROVE Rest'
    BY <1>3, ConnectKeeps
  <1>4. ASSUME NEW c \in Call, ConnectAgain(c) \/ RtcMissing(c) PROVE Rest'
    <2>1. /\ phase[c] \in {"new", "rtc"} /\ phase'[c] = "done"
          /\ \A d \in Call \ {c} : phase'[d] = phase[d]
          /\ UNCHANGED <<peers, session, client, target, crossed>>
      BY <1>1, <1>4 DEF ConnectAgain, RtcMissing, TypeOK
    <2>. QED
      BY <1>1, <2>1 DEF OnePeer, OneClient, AloneUnderWay, NoClientYet, Resolved
  <1>5. ASSUME NEW c \in Call, RtcLoads(c) PROVE Rest'
    <2>1. /\ phase[c] = "rtc" /\ phase'[c] = "socket"
          /\ \A d \in Call \ {c} : phase'[d] = phase[d] /\ client'[d] = client[d]
          /\ UNCHANGED <<peers, session, target, crossed>>
      BY <1>1, <1>5 DEF RtcLoads, TypeOK
    <2>. QED
      BY <1>1, <2>1 DEF OnePeer, OneClient, AloneUnderWay, NoClientYet, Resolved
  <1>6. ASSUME NEW c \in Call, SocketOpens(c) \/ SocketFails(c) \/ SocketDrops(c) PROVE Rest'
    <2>1. /\ client[c] \in {"opening", "open"}
          /\ \/ phase' = phase
             \/ phase[c] = "socket" /\ phase' = [phase EXCEPT ![c] = "ack"]
             \/ phase[c] = "socket" /\ phase' = [phase EXCEPT ![c] = "failed"]
          /\ \A d \in Call \ {c} : client'[d] = client[d]
          /\ UNCHANGED <<peers, session, target, crossed>>
      BY <1>1, <1>6 DEF SocketOpens, SocketFails, SocketDrops, TypeOK
    <2>. QED
      BY <1>1, <2>1 DEF OnePeer, OneClient, AloneUnderWay, NoClientYet, Resolved, TypeOK
  <1>7. ASSUME NEW c \in Call, JoinAck(c) PROVE Rest'
    <2>1. /\ phase[c] = "ack" /\ phase'[c] = "done"
          /\ \A d \in Call \ {c} : phase'[d] = phase[d]
          /\ peers' = peers \cup {c} /\ session' = c
          /\ UNCHANGED <<client, target, crossed>>
      BY <1>1, <1>7 DEF JoinAck, TypeOK
    \* The session it overwrites, if any, was made while it was pending.
    <2>2. peers \subseteq crossed
      BY <1>1, <2>1 DEF AloneUnderWay, OnePeer, TypeOK
    \* And who is still pending has crossed it.
    <2>3. \A d \in Call : UnderWay(d)' => c \in crossed /\ d \in crossed
      BY <1>1, <2>1 DEF AloneUnderWay
    <2>4. AloneUnderWay'
      BY <2>1, <2>3 DEF AloneUnderWay
    <2>. QED
      BY <1>1, <2>1, <2>2, <2>4 DEF OnePeer, OneClient, NoClientYet, Resolved
  <1>8. ASSUME NEW c \in Call, JoinRefused(c) PROVE Rest'
    <2>1. /\ phase[c] = "ack" /\ phase'[c] = "done" /\ client'[c] = "closed"
          /\ \A d \in Call \ {c} : phase'[d] = phase[d] /\ client'[d] = client[d]
          /\ UNCHANGED <<peers, session, target, crossed>>
      BY <1>1, <1>8 DEF JoinRefused, TypeOK
    <2>. QED
      BY <1>1, <2>1 DEF OnePeer, OneClient, AloneUnderWay, NoClientYet, Resolved
  <1>9. CASE UNCHANGED <<peers, session, client, target, phase, crossed>>
    BY <1>1, <1>9 DEF OnePeer, OneClient, AloneUnderWay, NoClientYet, Resolved
  <1>. QED
    BY <1>2, <1>3, <1>4, <1>5, <1>6, <1>7, <1>8, <1>9
    DEF Next, vars, ListHosts, LinkUp, LinkDown, Frame, Monitors, ListMonitors, AskTimeout

LEMMA ConnectInvariant == Spec => []ConnectInv
  <1>1. Init => ConnectInv
    BY InitConnect
  <1>2. ConnectInv /\ [Next]_vars => ConnectInv'
    BY ConnectStep
  <1>. QED
    BY <1>1, <1>2, PTL DEF Spec

(***************************************************************************)
(* For calls of connect() and disconnect() in any order: a Peer beside the *)
(* session's is one of a call that was pending together with another, and  *)
(* a client that may reconnect has its Peer, its pending call or a first   *)
(* socket that failed.                                                     *)
(***************************************************************************)
THEOREM ConnectsOwnOnePeer == Spec => []AiInv
  <1>1. Spec => []ConnectInv
    BY ConnectInvariant
  <1>. QED
    BY <1>1, PTL DEF ConnectInv

(***************************************************************************)
(* Freshness                                                               *)
(***************************************************************************)

LEMMA FreshStep == ConnectInv /\ FreshInv /\ [Next]_vars => FreshInv'
  <1>. SUFFICES ASSUME ConnectInv, FreshInv, [Next]_vars PROVE FreshInv'
    OBVIOUS
  <1>1. /\ TypeOK /\ OnePeer /\ AloneUnderWay /\ AiAssumption
        /\ NothingStale /\ WaitersAskedSession /\ ListForgotten
    BY AiAssumption DEF ConnectInv, AiInv, FreshInv
  <1>. USE DEF sessionVars, UnderWay
  <1>2. CASE Disconnect
    <2>1. /\ lastFrame' = Nothing /\ lastMonitors' = Nothing /\ waiters' = {}
          /\ peers' \subseteq crossed /\ UNCHANGED <<answer, asked, ice, phase, crossed>>
      BY <1>2, ReleaseLeaves DEF Disconnect, Release
    <2>. QED
      BY <1>1, <2>1 DEF FreshInv, NothingStale, WaitersAskedSession, ListForgotten
  <1>3. ASSUME NEW c \in Call, Connect(c) PROVE FreshInv'
    <2>1. peers' \subseteq crossed' /\ session' = Nothing /\ crossed \subseteq crossed'
      BY <1>3, ConnectLeaves
    <2>2. /\ lastFrame' \in {Nothing} \cup crossed /\ lastMonitors' \in {Nothing} \cup crossed
          /\ \A a \in waiters' : asked[a] # Nothing /\ asked[a] \in crossed
      <3>1. CASE session # Nothing
        BY <1>3, <3>1 DEF Connect, Release
      <3>2. CASE session = Nothing
        BY <1>1, <1>3, <3>2 DEF Connect, NothingStale, WaitersAskedSession
      <3>. QED
        BY <3>1, <3>2
    <2>3. UNCHANGED <<answer, asked, ice>>
      BY <1>3 DEF Connect, Release
    <2>4. ListForgotten'
      BY <1>1, <1>3, <2>1, <2>3 DEF Connect, ListForgotten, TypeOK
    <2>5. NothingStale'
      BY <1>1, <2>1, <2>2, <2>3 DEF NothingStale
    <2>6. WaitersAskedSession'
      BY <2>1, <2>2, <2>3 DEF WaitersAskedSession
    <2>. QED
      BY <2>4, <2>5, <2>6 DEF FreshInv
  <1>4. ASSUME NEW c \in Call, SocketOpens(c) PROVE FreshInv'
    <2>1. NothingStale' /\ WaitersAskedSession'
      BY <1>1, <1>4 DEF SocketOpens, NothingStale, WaitersAskedSession
    <2>2. ListForgotten'
      BY <1>1, <1>4 DEF SocketOpens, ListForgotten, TypeOK
    <2>. QED
      BY <2>1, <2>2 DEF FreshInv
  <1>5. ASSUME NEW c \in Call, JoinAck(c) PROVE FreshInv'
    <2>1. /\ phase[c] = "ack" /\ session' = c /\ peers' = peers \cup {c}
          /\ built' = [built EXCEPT ![c] = ice'] /\ ice' \in {ice, target[c][2]}
          /\ phase' = [phase EXCEPT ![c] = "done"]
          /\ UNCHANGED <<target, lastFrame, lastMonitors, waiters, asked, answer, crossed>>
      BY <1>5 DEF JoinAck
    <2>2. session \in {Nothing} \cup crossed /\ peers \subseteq crossed
      BY <1>1, <2>1 DEF AloneUnderWay, OnePeer, TypeOK
    <2>3. c \notin crossed => ice = Nothing
      BY <1>1, <2>1 DEF ListForgotten
    <2>4. \A d \in peers' \ crossed : built'[d] \in {Nothing, target'[d][2]}
      BY <1>1, <2>1, <2>2, <2>3 DEF TypeOK
    <2>5. NothingStale' /\ WaitersAskedSession'
      BY <1>1, <2>1, <2>2, <2>4 DEF NothingStale, WaitersAskedSession
    <2>6. ListForgotten'
      BY <1>1, <2>1 DEF ListForgotten, AloneUnderWay, TypeOK
    <2>. QED
      BY <2>5, <2>6 DEF FreshInv
  <1>6. ASSUME NEW c \in Call, LinkUp(c) \/ LinkDown(c) \/ Frame(c) \/ Monitors(c) PROVE FreshInv'
    <2>1. c \in linked => c \in {session} \cup crossed
      BY <1>1 DEF OnePeer, TypeOK
    <2>2. /\ UNCHANGED <<session, peers, crossed, phase, target, ice, built, asked>>
          /\ lastFrame' \in {lastFrame, c} /\ (lastFrame' # lastFrame => c \in linked)
          /\ lastMonitors' \in {lastMonitors, c} /\ (lastMonitors' # lastMonitors => c \in linked)
          /\ waiters' \subseteq waiters
          /\ \A a \in Ask : answer'[a] = answer[a] \/ (a \in waiters /\ answer'[a] = c /\ c \in linked)
      BY <1>1, <1>6 DEF LinkUp, LinkDown, Frame, Monitors, TypeOK
    <2>3. \A a \in Ask : \/ answer'[a] \in {Nothing, asked[a]}
                         \/ {answer'[a], asked[a]} \cap crossed # {}
      <3>. SUFFICES ASSUME NEW a \in Ask, a \in waiters, answer'[a] = c, c \in linked
                    PROVE  answer'[a] = asked[a] \/ {answer'[a], asked[a]} \cap crossed # {}
        BY <1>1, <2>2 DEF NothingStale
      <3>. QED
        BY <1>1, <2>1 DEF WaitersAskedSession
    <2>. QED
      BY <1>1, <2>1, <2>2, <2>3 DEF FreshInv, NothingStale, WaitersAskedSession, ListForgotten
  <1>7. ASSUME NEW a \in Ask, ListMonitors(a) PROVE FreshInv'
    BY <1>1, <1>7
    DEF ListMonitors, TypeOK, FreshInv, NothingStale, WaitersAskedSession, ListForgotten
  <1>8. ASSUME NEW a \in Ask, AskTimeout(a) PROVE FreshInv'
    <2>1. /\ UNCHANGED <<session, peers, lastFrame, lastMonitors, crossed, phase, target, ice,
                         built, asked>>
          /\ a \in waiters /\ waiters' \subseteq waiters
          /\ \A b \in Ask : answer'[b] = IF b = a THEN lastMonitors ELSE answer[b]
      BY <1>1, <1>8 DEF AskTimeout, TypeOK
    <2>2. lastMonitors \in {Nothing, asked[a]} \/ {lastMonitors, asked[a]} \cap crossed # {}
      BY <1>1, <2>1 DEF NothingStale, WaitersAskedSession
    <2>. QED
      BY <1>1, <2>1, <2>2 DEF FreshInv, NothingStale, WaitersAskedSession, ListForgotten
  <1>9. ASSUME NEW c \in Call, ConnectAgain(c) \/ RtcLoads(c) \/ RtcMissing(c) \/ SocketFails(c)
                               \/ SocketDrops(c) \/ JoinRefused(c)
        PROVE  FreshInv'
    BY <1>1, <1>9
    DEF ConnectAgain, RtcLoads, RtcMissing, SocketFails, SocketDrops, JoinRefused, TypeOK,
        FreshInv, NothingStale, WaitersAskedSession, ListForgotten
  <1>10. CASE ListHosts \/ UNCHANGED vars
    BY <1>1, <1>10
    DEF ListHosts, vars, FreshInv, NothingStale, WaitersAskedSession, ListForgotten
  <1>. QED
    BY <1>2, <1>3, <1>4, <1>5, <1>6, <1>7, <1>8, <1>9, <1>10 DEF Next

(***************************************************************************)
(* The screenshot, the monitor list and the ICE list an agent is handed    *)
(* are those of the host and the server it is connected to, however often  *)
(* it changed them, unless a call that was pending together with another   *)
(* had to do with it.                                                      *)
(***************************************************************************)
THEOREM ConnectsHandOutFresh == Spec => []NothingStale
  <1>1. Init => FreshInv
    BY InitConnect
  <1>2. ConnectInv /\ FreshInv /\ [Next]_vars => FreshInv'
    BY FreshStep
  <1>3. Spec => []ConnectInv
    BY ConnectInvariant
  <1>4. FreshInv => NothingStale
    BY DEF FreshInv
  <1>. QED
    BY <1>1, <1>2, <1>3, <1>4, PTL DEF Spec

----------------------------------------------------------------------------
(* The keyboard and the mouse *)

(***************************************************************************)
(* Which modifier key is recorded for what, and what is left of a paste or *)
(* of a click.                                                             *)
(***************************************************************************)
Errand ==
  {<<<<"press", "KeyV">>, <<"release", "KeyV">>, <<"release", "ControlLeft">>>>,
   <<<<"release", "KeyV">>, <<"release", "ControlLeft">>>>,
   <<<<"release", "ControlLeft">>>>}
    \cup {<<<<"press", b>>>> : b \in DomButton} \cup {<<<<"release", b>>>> : b \in DomButton}

Recorded ==
  /\ \A m \in Mod : physical[m] # None => ModifierOf(physical[m]) = m
  /\ \A t \in Range(tasks) : t.op = "calls" => t.calls \in Errand

LEMMA Modifiers ==
  /\ \A k \in ModKey : ModifierOf(k) \in Mod
  /\ \A m \in Mod : ModifierOf(Left[m]) = m
  <1>1. ASSUME NEW k \in {"ControlLeft", "ControlRight", "AltLeft", "AltRight",
                          "ShiftLeft", "ShiftRight", "MetaLeft", "MetaRight"}
        PROVE  ModifierOf(k) \in Mod
    BY DEF ModifierOf, Mod
  <1>2. ASSUME NEW m \in Mod PROVE ModifierOf(Left[m]) = m
    BY DEF ModifierOf, Mod, Left
  <1>. QED
    BY <1>1, <1>2, InputAssumption

LEMMA AppendRange ==
  ASSUME NEW S, NEW s \in Seq(S), NEW x \in S
  PROVE  /\ Append(s, x) \in Seq(S)
         /\ \A y : y \in Range(Append(s, x)) <=> y \in Range(s) \/ y = x
  <1>. DEFINE r == Append(s, x)
  <1>1. /\ r \in Seq(S) /\ r[Len(s) + 1] = x /\ DOMAIN r = DOMAIN s \cup {Len(s) + 1}
        /\ \A i \in DOMAIN s : r[i] = s[i]
    BY AppendProperties, LenProperties
  <1>. HIDE DEF r
  <1>2. \A y : y \in Range(r) <=> y \in Range(s) \/ y = x
    BY <1>1 DEF Range
  <1>. QED
    BY <1>1, <1>2 DEF r

LEMMA Slice ==
  ASSUME NEW S, NEW s \in Seq(S), NEW m \in Nat \ {0}, NEW n \in Nat,
         n <= Len(s), m <= n + 1
  PROVE  /\ SubSeq(s, m, n) \in Seq(S) /\ Len(SubSeq(s, m, n)) = n + 1 - m
         /\ \A k \in 1 .. n + 1 - m : SubSeq(s, m, n)[k] = s[m - 1 + k]
  <1>1. m \in Int /\ n \in Int /\ \A k \in m .. n : s[k] \in S
    BY LenProperties, ElementOfSeq
  <1>2. /\ SubSeq(s, m, n) \in Seq(S)
        /\ Len(SubSeq(s, m, n)) = IF m <= n THEN n - m + 1 ELSE 0
        /\ \A k \in 1 .. n - m + 1 : SubSeq(s, m, n)[k] = s[m + k - 1]
    BY <1>1, SubSeqProperties
  <1>. DEFINE r == SubSeq(s, m, n)
  <1>. HIDE DEF r
  <1>3. n - m + 1 = n + 1 - m /\ \A k \in 1 .. n + 1 - m : m + k - 1 = m - 1 + k
    OBVIOUS
  <1>4. \A k \in 1 .. n + 1 - m : r[k] = s[m - 1 + k]
    BY <1>2, <1>3 DEF r
  <1>. QED
    BY <1>2, <1>3, <1>4 DEF r

LEMMA RemoveAtRange ==
  ASSUME NEW S, NEW s \in Seq(S), NEW i \in DOMAIN s
  PROVE  /\ RemoveAt(s, i) \in Seq(S) /\ Len(RemoveAt(s, i)) = Len(s) - 1
         /\ \A x : x \in Range(RemoveAt(s, i)) => x \in Range(s)
         /\ \A x \in Range(s) : x = s[i] \/ x \in Range(RemoveAt(s, i))
  <1>. DEFINE n == Len(s)
              a == SubSeq(s, 1, i - 1)
              b == SubSeq(s, i + 1, n)
              r == a \o b
  <1>1. n \in Nat /\ DOMAIN s = 1 .. n /\ i \in 1 .. n /\ \A k \in 1 .. n : s[k] \in S
    BY LenProperties, ElementOfSeq
  <1>2. a \in Seq(S) /\ Len(a) = i - 1 /\ \A k \in 1 .. i - 1 : a[k] = s[k]
    <2>1. 1 \in Nat \ {0} /\ i - 1 \in Nat /\ i - 1 <= Len(s) /\ 1 <= (i - 1) + 1
      BY <1>1
    <2>2. /\ a \in Seq(S) /\ Len(a) = (i - 1) + 1 - 1
          /\ \A k \in 1 .. (i - 1) + 1 - 1 : a[k] = s[1 - 1 + k]
      BY <2>1, Slice
    <2>. HIDE DEF a
    <2>3. (i - 1) + 1 - 1 = i - 1 /\ \A k \in 1 .. i - 1 : 1 - 1 + k = k
      BY <1>1
    <2>. QED
      BY <2>2, <2>3
  <1>3. b \in Seq(S) /\ Len(b) = n - i /\ \A k \in 1 .. n - i : b[k] = s[i + k]
    <2>1. i + 1 \in Nat \ {0} /\ n \in Nat /\ n <= Len(s) /\ i + 1 <= n + 1
      BY <1>1
    <2>2. /\ b \in Seq(S) /\ Len(b) = n + 1 - (i + 1)
          /\ \A k \in 1 .. n + 1 - (i + 1) : b[k] = s[i + 1 - 1 + k]
      BY <2>1, Slice
    <2>. HIDE DEF b, n
    <2>3. n + 1 - (i + 1) = n - i /\ \A k \in 1 .. n - i : i + 1 - 1 + k = i + k
      BY <1>1
    <2>. QED
      BY <2>2, <2>3
  <1>4. /\ r \in Seq(S) /\ Len(r) = n - 1
        /\ \A k \in 1 .. n - 1 : r[k] = IF k <= i - 1 THEN a[k] ELSE b[k - (i - 1)]
    <2>1. /\ r \in Seq(S) /\ Len(r) = Len(a) + Len(b)
          /\ \A k \in 1 .. Len(a) + Len(b) : r[k] = IF k <= Len(a) THEN a[k] ELSE b[k - Len(a)]
      BY <1>2, <1>3, ConcatProperties
    <2>. HIDE DEF n, a, b, r
    <2>2. Len(a) + Len(b) = n - 1
      BY <1>1, <1>2, <1>3
    <2>. QED
      BY <1>1, <1>2, <2>1, <2>2
  <1>. HIDE DEF n, a, b, r
  <1>5. /\ DOMAIN r = 1 .. n - 1
        /\ \A k \in 1 .. n - 1 : r[k] = IF k < i THEN s[k] ELSE s[k + 1]
    <2>1. DOMAIN r = 1 .. n - 1
      BY <1>4, LenProperties
    <2>. SUFFICES ASSUME NEW k \in 1 .. n - 1 PROVE r[k] = IF k < i THEN s[k] ELSE s[k + 1]
      BY <2>1
    <2>2. CASE k < i
      BY <1>1, <1>2, <1>4, <2>2
    <2>3. CASE ~(k < i)
      <3>1. k - (i - 1) \in 1 .. n - i /\ i + (k - (i - 1)) = k + 1 /\ ~(k <= i - 1)
        BY <1>1, <2>3
      <3>2. r[k] = s[k + 1]
        BY <1>3, <1>4, <3>1
      <3>. QED
        BY <2>3, <3>2
    <2>. QED
      BY <2>2, <2>3
  <1>6. \A x : x \in Range(r) => x \in Range(s)
    <2>. SUFFICES ASSUME NEW k \in 1 .. n - 1 PROVE r[k] \in Range(s)
      BY <1>5 DEF Range
    <2>1. k \in DOMAIN s /\ k + 1 \in DOMAIN s
      BY <1>1
    <2>. QED
      BY <1>5, <2>1 DEF Range
  <1>7. ASSUME NEW k \in 1 .. n, k # i PROVE s[k] \in Range(r)
    <2>1. CASE k < i
      <3>1. k \in 1 .. n - 1
        BY <1>1, <2>1
      <3>. QED
        BY <1>5, <2>1, <3>1 DEF Range
    <2>2. CASE k > i
      <3>1. k - 1 \in 1 .. n - 1 /\ ~(k - 1 < i) /\ (k - 1) + 1 = k
        BY <1>1, <2>2
      <3>2. r[k - 1] = s[k]
        BY <1>5, <3>1
      <3>. QED
        BY <1>5, <3>1, <3>2 DEF Range
    <2>. QED
      BY <1>1, <1>7, <2>1, <2>2
  <1>8. \A x \in Range(s) : x = s[i] \/ x \in Range(r)
    BY <1>1, <1>7 DEF Range
  <1>9. RemoveAt(s, i) = r
    BY DEF RemoveAt, n, a, b, r
  <1>. QED
    BY <1>4, <1>6, <1>8, <1>9 DEF n

(***************************************************************************)
(* What is left of a paste or a click, one native call at a time.          *)
(***************************************************************************)
Paste == <<<<"press", "ControlLeft">>, <<"press", "KeyV">>,
           <<"release", "KeyV">>, <<"release", "ControlLeft">>>>

OneCall(calls) ==
  LET call == Head(calls)
      rest == Tail(calls)
  IN  /\ calls \in Seq(NativeCall) /\ calls # <<>>
      /\ rest = <<>> \/ rest \in Errand
      /\ \A b \in DomButton : <<"press", b>> \notin Range(rest)
      /\ call[1] = "press" => /\ call[2] \in {"KeyV", "ControlLeft"} \cup DomButton
                              /\ call[2] = "ControlLeft" => calls = Paste
                              /\ \/ <<"release", call[2]>> \in Range(rest)
                                 \/ call[2] \in DomButton /\ calls = <<<<"press", call[2]>>>>
      /\ call[1] # "press" => /\ call[2] \in {"KeyV", "ControlLeft"} \cup DomButton
                              /\ <<"release", call[2]>> \in Range(calls)
      /\ \A x : <<"release", x>> \in Range(calls) =>
                  <<"release", x>> \in Range(rest) \/ (call[1] # "press" /\ call[2] = x)

\* Evaluated from the literal lists.
LEMMA ErrandCall ==
  ASSUME NEW calls \in Errand \cup {Paste}
  PROVE  OneCall(calls)
  <1>. DEFINE pc == <<"press", "ControlLeft">>
              pv == <<"press", "KeyV">>
              rv == <<"release", "KeyV">>
              rc == <<"release", "ControlLeft">>
  <1>1. pc \in NativeCall /\ pv \in NativeCall /\ rv \in NativeCall /\ rc \in NativeCall
    BY DEF NativeCall
  <1>2. ASSUME NEW s, s = <<pv, rv, rc>> PROVE \A x : x \in Range(s) <=> x \in {pv, rv, rc}
    BY <1>2 DEF Range
  <1>3. ASSUME NEW s, s = <<rv, rc>> PROVE \A x : x \in Range(s) <=> x \in {rv, rc}
    BY <1>3 DEF Range
  <1>4. ASSUME NEW s, s = <<rc>> PROVE \A x : x \in Range(s) <=> x = rc
    BY <1>4 DEF Range
  <1>5. CASE calls = Paste
    <2>1. /\ Head(calls) = pc /\ Tail(calls) = <<pv, rv, rc>>
          /\ calls \in Seq(NativeCall) /\ calls # <<>>
      BY <1>1, <1>5 DEF Paste
    <2>2. \A x : x \in Range(calls) <=> x \in {pc, pv, rv, rc}
      BY <1>5 DEF Paste, Range
    <2>3. \A x : x \in Range(Tail(calls)) <=> x \in {pv, rv, rc}
      BY <2>1, <1>2
    <2>4. \A b \in DomButton : <<"press", b>> \notin Range(Tail(calls))
      BY <2>3, InputAssumption
    <2>. QED
      BY <1>5, <2>1, <2>2, <2>3, <2>4 DEF OneCall, Errand
  <1>6. CASE calls = <<pv, rv, rc>>
    <2>1. /\ Head(calls) = pv /\ Tail(calls) = <<rv, rc>>
          /\ calls \in Seq(NativeCall) /\ calls # <<>>
      BY <1>1, <1>6
    <2>2. \A x : x \in Range(calls) <=> x \in {pv, rv, rc}
      BY <1>6 DEF Range
    <2>3. \A x : x \in Range(Tail(calls)) <=> x \in {rv, rc}
      BY <2>1, <1>3
    <2>4. \A b \in DomButton : <<"press", b>> \notin Range(Tail(calls))
      BY <2>3, InputAssumption
    <2>. QED
      BY <2>1, <2>2, <2>3, <2>4 DEF OneCall, Errand
  <1>7. CASE calls = <<rv, rc>>
    <2>1. /\ Head(calls) = rv /\ Tail(calls) = <<rc>>
          /\ calls \in Seq(NativeCall) /\ calls # <<>>
      BY <1>1, <1>7
    <2>2. \A x : x \in Range(calls) <=> x \in {rv, rc}
      BY <1>7 DEF Range
    <2>3. \A x : x \in Range(Tail(calls)) <=> x = rc
      BY <2>1, <1>4
    <2>4. \A b \in DomButton : <<"press", b>> \notin Range(Tail(calls))
      BY <2>3, InputAssumption
    <2>. QED
      BY <2>1, <2>2, <2>3, <2>4 DEF OneCall, Errand
  <1>8. ASSUME NEW call \in NativeCall, calls = <<call>>
        PROVE  /\ Head(calls) = call /\ Tail(calls) = <<>>
               /\ calls \in Seq(NativeCall) /\ calls # <<>>
               /\ \A x : x \in Range(calls) <=> x = call
    BY <1>8 DEF Range
  <1>9. Range(<<>>) = {}
    BY DEF Range
  <1>10. CASE calls = <<rc>>
    <2>1. /\ Head(calls) = rc /\ Tail(calls) = <<>>
          /\ calls \in Seq(NativeCall) /\ calls # <<>>
          /\ \A x : x \in Range(calls) <=> x = rc
      BY <1>1, <1>8, <1>10
    <2>2. Range(Tail(calls)) = {}
      BY <2>1, <1>9
    <2>. QED
      BY <2>1, <2>2 DEF OneCall
  <1>11. ASSUME NEW b \in DomButton, calls = <<<<"press", b>>>> PROVE OneCall(calls)
    <2>1. <<"press", b>> \in NativeCall
      BY DEF NativeCall
    <2>. QED
      BY <1>8, <1>11, <1>9, <2>1, InputAssumption DEF OneCall
  <1>12. ASSUME NEW b \in DomButton, calls = <<<<"release", b>>>> PROVE OneCall(calls)
    <2>1. <<"release", b>> \in NativeCall
      BY DEF NativeCall
    <2>. QED
      BY <1>8, <1>12, <1>9, <2>1, InputAssumption DEF OneCall
  <1>. QED
    BY <1>5, <1>6, <1>7, <1>10, <1>11, <1>12 DEF Errand

(***************************************************************************)
(* The shape of the tables and of the work under way, and the segments the *)
(* injector runs, whoever starts them.                                     *)
(***************************************************************************)
Tables ==
  /\ physical \in [Mod -> ModKey \cup {None}]
  /\ transient \subseteq Mod /\ misnamed \subseteq Mod
  /\ \A m \in transient : physical[m] = None
  /\ \A m \in Mod : physical[m] # None => ModifierOf(physical[m]) = m

Agenda(q) == q \in Seq(Task) /\ \A t \in Range(q) : t.op = "calls" => t.calls \in Errand

HostShape == Tables /\ Agenda(tasks)

\* Every list of calls is still under way, but for the one a task goes on with.
StillUnderWay(others, calls) ==
  \A t \in Range(tasks) : t.op = "calls" => t \in Range(others) \/ t.calls = calls

PressTask(key, todo) == [op |-> "press", key |-> key, todo |-> todo]

Click(a, b) == [op |-> "calls", calls |-> <<<<a, b>>>>]

KeyRelease(k, others) == /\ down' = down \ {k}
                         /\ tasks' = Append(others, [op |-> "look"])
                         /\ UNCHANGED <<physical, transient, misnamed>>

Clicked(a, b, others) == /\ tasks' = Append(others, Click(a, b))
                         /\ UNCHANGED <<physical, transient, down, misnamed>>

Segment(others) ==
  \/ \E key \in Key, todo \in SUBSET Mod : PressStep(PressTask(key, todo), others)
  \/ \E todo \in SUBSET Mod : SweepStep(todo, others)
  \/ \E k \in ModKey : others = tasks /\ (PressModifier(k) \/ ReleaseModifier(k))
  \/ \E k \in Key : KeyRelease(k, others)
  \/ \E a \in {"press", "release"}, b \in DomButton : Clicked(a, b, others)

HostStep ==
  \E others :
    /\ Agenda(others)
    /\ \/ StillUnderWay(others, <<>>) /\ Segment(others)
       \/ \E calls \in Errand \cup {Paste} :
            /\ StillUnderWay(others, calls)
            /\ calls = Paste \/ \E t \in Range(tasks) : t.op = "calls" /\ t.calls = calls
            /\ CallStep(calls, others)

LEMMA Injected ==
  ASSUME NEW e \in Event, Inject(e)
  PROVE  \/ e.t = "k-down" /\ e.key \in ModKey /\ PressModifier(e.key)
         \/ /\ e.t = "k-down" /\ e.key \in Key /\ e.mods \in SUBSET Mod
            /\ PressStep(PressTask(e.key, e.mods), tasks)
         \/ e.t = "k-up" /\ e.key \in ModKey /\ ReleaseModifier(e.key)
         \/ e.t = "k-up" /\ e.key \in Key /\ KeyRelease(e.key, tasks)
         \/ e.t = "m-down" /\ e.button \in DomButton /\ Clicked("press", e.button, tasks)
         \/ e.t = "m-up" /\ e.button \in DomButton /\ Clicked("release", e.button, tasks)
         \/ e.t = "clipboard" /\ CallStep(Paste, tasks)
  <1>1. \/ e.t \in {"k-down", "k-up"} /\ e.key \in Key \cup ModKey /\ e.mods \in SUBSET Mod
        \/ e.t \in {"m-down", "m-up"} /\ e.button \in DomButton
        \/ e.t = "clipboard"
    BY DEF Event
  <1>2. Key \cap ModKey = {}
    BY InputAssumption
  <1>3. CASE e.t = "k-down"
    BY <1>1, <1>2, <1>3 DEF Inject, PressTask
  <1>4. CASE e.t = "k-up"
    BY <1>1, <1>2, <1>4 DEF Inject, KeyRelease
  <1>5. CASE e.t = "m-down"
    BY <1>1, <1>5 DEF Inject, Clicked, Click
  <1>6. CASE e.t = "m-up"
    BY <1>1, <1>6 DEF Inject, Clicked, Click
  <1>7. CASE e.t = "clipboard"
    BY <1>7 DEF Inject, Paste
  <1>. QED
    BY <1>1, <1>3, <1>4, <1>5, <1>6, <1>7

LEMMA Resumed ==
  ASSUME HostShape, NEW i \in DOMAIN tasks, Resume(i)
  PROVE  LET task   == tasks[i]
             others == RemoveAt(tasks, i)
         IN  \/ \E key \in Key, todo \in SUBSET Mod :
                  task = PressTask(key, todo) /\ PressStep(PressTask(key, todo), others)
             \/ task.op = "look" /\ SweepStep(transient, others)
             \/ task.op = "sweep" /\ task.todo \in SUBSET Mod /\ SweepStep(task.todo, others)
             \/ task.op = "calls" /\ task.calls \in Errand /\ CallStep(task.calls, others)
  <1>. DEFINE task   == tasks[i]
              others == RemoveAt(tasks, i)
  <1>1. task \in Task /\ task \in Range(tasks)
    BY ElementOfSeq, LenProperties DEF HostShape, Agenda, Range
  <1>2. (CASE task.op = "press" -> PressStep(task, others)
           [] task.op = "look"  -> SweepStep(transient, others)
           [] task.op = "sweep" -> SweepStep(task.todo, others)
           [] task.op = "calls" -> CallStep(task.calls, others))
    BY DEF Resume
  <1>3. task.op = "calls" => task.calls \in Errand
    BY <1>1 DEF HostShape, Agenda
  <1>. HIDE DEF task, others
  <1>4. ASSUME task \in [op : {"press"}, key : Key, todo : SUBSET Mod]
        PROVE  \E key \in Key, todo \in SUBSET Mod :
                 task = PressTask(key, todo) /\ PressStep(PressTask(key, todo), others)
    <2>1. /\ task.key \in Key /\ task.todo \in SUBSET Mod
          /\ task = PressTask(task.key, task.todo)
      BY <1>4 DEF PressTask
    <2>2. task.op = "press"
      BY <1>4
    <2>3. PressStep(task, others)
      BY <1>2, <2>2
    <2>. QED
      BY <2>1, <2>3
  <1>5. ASSUME task \in [op : {"look"}]
        PROVE  task.op = "look" /\ SweepStep(transient, others)
    BY <1>2, <1>5
  <1>6. ASSUME task \in [op : {"sweep"}, todo : SUBSET Mod]
        PROVE  task.op = "sweep" /\ task.todo \in SUBSET Mod /\ SweepStep(task.todo, others)
    BY <1>2, <1>6
  <1>7. ASSUME task \in [op : {"calls"}, calls : Seq(NativeCall)]
        PROVE  task.op = "calls" /\ task.calls \in Errand /\ CallStep(task.calls, others)
    BY <1>2, <1>3, <1>7
  <1>8. \/ \E key \in Key, todo \in SUBSET Mod :
             task = PressTask(key, todo) /\ PressStep(PressTask(key, todo), others)
        \/ task.op = "look" /\ SweepStep(transient, others)
        \/ task.op = "sweep" /\ task.todo \in SUBSET Mod /\ SweepStep(task.todo, others)
        \/ task.op = "calls" /\ task.calls \in Errand /\ CallStep(task.calls, others)
    BY <1>1, <1>4, <1>5, <1>6, <1>7 DEF Task
  <1>. QED
    BY <1>8 DEF task, others

\* What is left when a task goes on.
LEMMA OthersLeft ==
  ASSUME HostShape, NEW i \in DOMAIN tasks
  PROVE  /\ Agenda(RemoveAt(tasks, i))
         /\ \A t \in Range(tasks) : t = tasks[i] \/ t \in Range(RemoveAt(tasks, i))
         /\ \A t \in Range(RemoveAt(tasks, i)) : t \in Range(tasks)
  <1>1. tasks \in Seq(Task)
    BY DEF HostShape, Agenda
  <1>2. /\ RemoveAt(tasks, i) \in Seq(Task)
        /\ \A t : t \in Range(RemoveAt(tasks, i)) => t \in Range(tasks)
        /\ \A t \in Range(tasks) : t = tasks[i] \/ t \in Range(RemoveAt(tasks, i))
    BY <1>1, RemoveAtRange
  <1>. QED
    BY <1>2 DEF HostShape, Agenda

LEMMA ResumeStep ==
  ASSUME HostShape, NEW i \in DOMAIN tasks, Resume(i)
  PROVE  HostStep
  <1>. DEFINE task   == tasks[i]
              others == RemoveAt(tasks, i)
  <1>1. /\ Agenda(others) /\ \A t \in Range(tasks) : t = task \/ t \in Range(others)
    BY OthersLeft
  <1>2. task \in Range(tasks)
    BY DEF Range
  <1>3. \/ \E key \in Key, todo \in SUBSET Mod :
             task = PressTask(key, todo) /\ PressStep(PressTask(key, todo), others)
        \/ task.op = "look" /\ SweepStep(transient, others)
        \/ task.op = "sweep" /\ task.todo \in SUBSET Mod /\ SweepStep(task.todo, others)
        \/ task.op = "calls" /\ task.calls \in Errand /\ CallStep(task.calls, others)
    BY Resumed
  <1>. HIDE DEF task, others
  <1>4. transient \in SUBSET Mod
    BY DEF HostShape, Tables
  <1>5. ASSUME NEW key \in Key, NEW todo \in SUBSET Mod,
               task = PressTask(key, todo), PressStep(PressTask(key, todo), others)
        PROVE  HostStep
    <2>1. task.op # "calls"
      BY <1>5 DEF PressTask
    <2>2. StillUnderWay(others, <<>>)
      BY <1>1, <2>1 DEF StillUnderWay
    <2>. QED
      BY <1>1, <1>5, <2>2 DEF HostStep, Segment
  <1>6. CASE task.op = "look" /\ SweepStep(transient, others)
    <2>1. StillUnderWay(others, <<>>)
      BY <1>1, <1>6 DEF StillUnderWay
    <2>. QED
      BY <1>1, <1>4, <1>6, <2>1 DEF HostStep, Segment
  <1>7. CASE task.op = "sweep" /\ task.todo \in SUBSET Mod /\ SweepStep(task.todo, others)
    <2>1. StillUnderWay(others, <<>>)
      BY <1>1, <1>7 DEF StillUnderWay
    <2>. QED
      BY <1>1, <1>7, <2>1 DEF HostStep, Segment
  <1>8. CASE task.op = "calls" /\ task.calls \in Errand /\ CallStep(task.calls, others)
    <2>1. StillUnderWay(others, task.calls)
      BY <1>1, <1>8 DEF StillUnderWay
    <2>. QED
      BY <1>1, <1>2, <1>8, <2>1 DEF HostStep
  <1>. QED
    BY <1>3, <1>5, <1>6, <1>7, <1>8

LEMMA InjectStep ==
  ASSUME HostShape, NEW e \in Event, Inject(e)
  PROVE  HostStep
  <1>1. Agenda(tasks) /\ StillUnderWay(tasks, <<>>) /\ StillUnderWay(tasks, Paste)
    BY DEF HostShape, StillUnderWay
  <1>2. CASE e.t = "clipboard" /\ CallStep(Paste, tasks)
    BY <1>1, <1>2 DEF HostStep
  <1>3. CASE ~(e.t = "clipboard" /\ CallStep(Paste, tasks))
    <2>1. Segment(tasks)
      BY <1>3, Injected DEF Segment
    <2>. QED
      BY <1>1, <2>1 DEF HostStep
  <1>. QED
    BY <1>2, <1>3

(***************************************************************************)
(* What every segment keeps.  A transient modifier that is promoted by its *)
(* right key is recorded under a key that is not the one that is down: it  *)
(* is misnamed from then on, and its left key is known as such.            *)
(***************************************************************************)
PastingOf(q) == \E t \in Range(q) : t.op = "calls" /\ <<"release", "ControlLeft">> \in Range(t.calls)

Known(k) == \/ physical[ModifierOf(k)] = k
            \/ ModifierOf(k) \in transient \cup misnamed /\ k = Left[ModifierOf(k)]
            \/ PastingOf(tasks) /\ k = "ControlLeft"

StaysDown ==
  \A m \in Mod : physical[m] # None /\ physical'[m] = physical[m] /\ physical[m] \in down
                   => physical[m] \in down' \/ Pasting

Safe == /\ Tables' /\ Agenda(tasks)' /\ StaysDown
        /\ NoStrayModifier => NoStrayModifier'

LEMMA PastingIn == (Pasting <=> PastingOf(tasks)) /\ (Pasting' <=> PastingOf(tasks)')
  BY DEF Pasting, PastingOf, Range

LEMMA Strays == /\ NoStrayModifier <=> \A k \in down \cap ModKey : Known(k)
                /\ NoStrayModifier' <=> \A k \in down' \cap ModKey : Known(k)'
  <1>1. NoStrayModifier <=> \A k \in down \cap ModKey : Known(k)
    BY Modifiers, PastingIn DEF NoStrayModifier, Known
  <1>2. NoStrayModifier' <=> \A k \in down' \cap ModKey : Known(k)'
    BY Modifiers, PastingIn DEF NoStrayModifier, Known
  <1>. QED
    BY <1>1, <1>2

LEMMA AgendaAppend ==
  ASSUME NEW q, Agenda(q), NEW x \in Task, x.op = "calls" => x.calls \in Errand
  PROVE  Agenda(Append(q, x)) /\ (PastingOf(q) => PastingOf(Append(q, x)))
  <1>1. /\ Append(q, x) \in Seq(Task)
        /\ \A y : y \in Range(Append(q, x)) <=> y \in Range(q) \/ y = x
    BY AppendRange DEF Agenda
  <1>. QED
    BY <1>1 DEF Agenda, PastingOf

LEMMA StillPasting ==
  ASSUME NEW others, StillUnderWay(others, <<>>), Pasting
  PROVE  PastingOf(others)
  <1>1. Range(<<>>) = {}
    BY DEF Range
  <1>. QED
    BY <1>1, PastingIn DEF StillUnderWay, PastingOf

LEMMA PressCases ==
  ASSUME NEW others, NEW key, NEW todo, PressStep(PressTask(key, todo), others)
  PROVE  /\ physical' = physical /\ misnamed' = misnamed
         /\ \/ down' = down \cup {key} /\ tasks' = others /\ transient' = transient
            \/ \E m \in todo, later \in SUBSET todo :
                 /\ ~IsDown(m) /\ transient' = transient \cup {m} /\ down' = down \cup {Left[m]}
                 /\ tasks' = Append(others, PressTask(key, later))
  <1>1. ASSUME NEW m \in todo
        PROVE  [PressTask(key, todo) EXCEPT !.todo = {n \in @ : Rank[n] > Rank[m]}]
                 = PressTask(key, {n \in todo : Rank[n] > Rank[m]})
    <2>1. \A s : [PressTask(key, todo) EXCEPT !.todo = s] = PressTask(key, s)
      BY DEF PressTask
    <2>2. PressTask(key, todo).todo = todo
      BY DEF PressTask
    <2>. QED
      BY <2>1, <2>2
  <1>2. PressTask(key, todo).key = key /\ PressTask(key, todo).todo = todo
    BY DEF PressTask
  <1>3. \/ down' = down \cup {key} /\ tasks' = others /\ transient' = transient
        \/ \E m \in todo, later \in SUBSET todo :
             /\ ~IsDown(m) /\ transient' = transient \cup {m} /\ down' = down \cup {Left[m]}
             /\ tasks' = Append(others, PressTask(key, later))
    <2>1. CASE \E m \in {n \in todo : ~IsDown(n)} :
                 /\ transient' = transient \cup {m}
                 /\ down' = down \cup {Left[m]}
                 /\ tasks' = Append(others, [PressTask(key, todo) EXCEPT !.todo =
                                              {n \in @ : Rank[n] > Rank[m]}])
      <3>1. PICK m \in {n \in todo : ~IsDown(n)} :
              /\ transient' = transient \cup {m}
              /\ down' = down \cup {Left[m]}
              /\ tasks' = Append(others, [PressTask(key, todo) EXCEPT !.todo =
                                           {n \in @ : Rank[n] > Rank[m]}])
        BY <2>1
      <3>. DEFINE later == {n \in todo : Rank[n] > Rank[m]}
      <3>2. later \in SUBSET todo
        OBVIOUS
      <3>3. tasks' = Append(others, PressTask(key, later))
        BY <1>1, <3>1
      <3>. QED
        BY <3>1, <3>2, <3>3
    <2>2. CASE down' = down \cup {key} /\ tasks' = others /\ transient' = transient
      BY <2>2
    <2>. QED
      BY <1>2, <2>1, <2>2 DEF PressStep
  <1>. QED
    BY <1>3 DEF PressStep

LEMMA PressSegment ==
  ASSUME Tables, NEW others, Agenda(others), StillUnderWay(others, <<>>),
         NEW key \in Key, NEW todo \in SUBSET Mod, PressStep(PressTask(key, todo), others)
  PROVE  Safe
  <1>1. physical' = physical /\ misnamed' = misnamed
    BY PressCases
  <1>2. CASE down' = down \cup {key} /\ tasks' = others /\ transient' = transient
    <2>1. Tables' /\ Agenda(tasks)' /\ StaysDown
      BY <1>1, <1>2 DEF Tables, Agenda, StaysDown
    <2>2. ASSUME NoStrayModifier PROVE NoStrayModifier'
      <3>1. \A k \in down' \cap ModKey : k \in down
        BY <1>2, InputAssumption
      <3>2. PastingOf(tasks) => PastingOf(tasks)'
        BY <1>2, PastingIn, StillPasting DEF PastingOf
      <3>. QED
        BY <1>1, <1>2, <2>2, <3>1, <3>2, Strays DEF Known
    <2>. QED
      BY <2>1, <2>2 DEF Safe
  <1>3. ASSUME NEW m \in todo, NEW later \in SUBSET Mod, ~IsDown(m),
               transient' = transient \cup {m}, down' = down \cup {Left[m]},
               tasks' = Append(others, PressTask(key, later))
        PROVE  Safe
    <2>1. PressTask(key, later) \in Task /\ PressTask(key, later).op # "calls"
      BY DEF PressTask, Task
    <2>2. Agenda(tasks)' /\ (PastingOf(others) => PastingOf(tasks)')
      <3>1. /\ Agenda(Append(others, PressTask(key, later)))
            /\ PastingOf(others) => PastingOf(Append(others, PressTask(key, later)))
        BY <2>1, AgendaAppend
      <3>. QED
        BY <1>3, <3>1 DEF Agenda, PastingOf
    <2>3. Tables' /\ StaysDown
      BY <1>1, <1>3 DEF Tables, StaysDown, IsDown
    <2>4. ASSUME NoStrayModifier PROVE NoStrayModifier'
      <3>1. PastingOf(tasks) => PastingOf(tasks)'
        BY <2>2, PastingIn, StillPasting
      <3>2. m \in Mod /\ ModifierOf(Left[m]) = m
        BY Modifiers
      <3>3. ASSUME NEW k \in down' \cap ModKey PROVE Known(k)'
        <4>1. CASE k = Left[m]
          BY <1>3, <3>2, <4>1 DEF Known
        <4>2. CASE k \in down
          BY <1>1, <1>3, <2>4, <3>1, <4>2, Strays DEF Known
        <4>. QED
          BY <1>3, <4>1, <4>2
      <3>. QED
        BY <3>3, Strays
    <2>. QED
      BY <2>2, <2>3, <2>4 DEF Safe
  <1>. QED
    BY <1>1, <1>2, <1>3, PressCases

LEMMA SweepSegment ==
  ASSUME Tables, NEW others, Agenda(others), StillUnderWay(others, <<>>),
         NEW todo \in SUBSET Mod, SweepStep(todo, others)
  PROVE  Safe
  <1>. DEFINE free == {m \in todo : physical[m] = None}
  <1>1. physical' = physical /\ misnamed' = misnamed
    BY DEF SweepStep
  <1>2. PastingOf(tasks) => PastingOf(others)
    BY PastingIn, StillPasting
  <1>3. CASE free = {} /\ transient' = transient \ todo /\ tasks' = others /\ down' = down
    <2>1. transient' = transient
      BY <1>3 DEF Tables
    <2>2. Tables' /\ Agenda(tasks)' /\ StaysDown
      BY <1>1, <1>3, <2>1 DEF Tables, Agenda, StaysDown
    <2>3. PastingOf(tasks) => PastingOf(tasks)'
      BY <1>2, <1>3 DEF PastingOf
    <2>4. ASSUME NoStrayModifier PROVE NoStrayModifier'
      BY <1>1, <1>3, <2>1, <2>3, <2>4, Strays DEF Known
    <2>. QED
      BY <2>2, <2>4 DEF Safe
  <1>4. ASSUME NEW m \in free, NEW passed \in SUBSET (todo \ free),
               transient' = transient \ (passed \cup {m}), down' = down \ {Left[m]},
               tasks' = Sweep(todo \ (passed \cup {m}), others)
        PROVE  Safe
    <2>1. m \in Mod /\ physical[m] = None /\ ModifierOf(Left[m]) = m
      BY Modifiers
    <2>2. transient' = transient \ {m}
      BY <1>4 DEF Tables
    <2>3. Agenda(tasks)' /\ (PastingOf(others) => PastingOf(tasks)')
      <3>. DEFINE rest == todo \ (passed \cup {m})
                  task == [op |-> "sweep", todo |-> rest]
      <3>1. task \in Task /\ task.op # "calls"
        BY DEF Task
      <3>. HIDE DEF task
      <3>2. Agenda(Append(others, task)) /\ (PastingOf(others) => PastingOf(Append(others, task)))
        BY <3>1, AgendaAppend
      <3>3. tasks' = IF rest = {} THEN others ELSE Append(others, task)
        BY <1>4 DEF Sweep, task
      <3>. HIDE DEF rest
      <3>4. CASE rest = {}
        BY <3>3, <3>4 DEF Agenda, PastingOf
      <3>5. CASE rest # {}
        BY <3>2, <3>3, <3>5 DEF Agenda, PastingOf
      <3>. QED
        BY <3>4, <3>5
    <2>4. Tables'
      BY <1>1, <2>2 DEF Tables
    <2>5. StaysDown
      BY <1>1, <1>4, <2>1 DEF Tables, StaysDown
    <2>6. ASSUME NoStrayModifier PROVE NoStrayModifier'
      <3>1. ASSUME NEW k \in down' \cap ModKey PROVE Known(k)'
        <4>1. k \in down \cap ModKey /\ k # Left[m]
          BY <1>4
        <4>2. Known(k)
          BY <2>6, <4>1, Strays
        <4>. QED
          BY <1>1, <1>2, <2>1, <2>2, <2>3, <4>1, <4>2 DEF Known
      <3>. QED
        BY <3>1, Strays
    <2>. QED
      BY <2>3, <2>4, <2>5, <2>6 DEF Safe
  <1>. QED
    BY <1>3, <1>4 DEF SweepStep

LEMMA CallSegment ==
  ASSUME Tables, NEW others, Agenda(others), NEW calls \in Errand \cup {Paste},
         StillUnderWay(others, calls),
         calls = Paste \/ \E t \in Range(tasks) : t.op = "calls" /\ t.calls = calls,
         CallStep(calls, others)
  PROVE  Safe
  <1>. DEFINE call == Head(calls)
              rest == Tail(calls)
              task == [op |-> "calls", calls |-> rest]
              tail == <<"release", "ControlLeft">>
  <1>1. OneCall(calls)
    BY ErrandCall
  <1>2. /\ rest = <<>> \/ rest \in Errand
        /\ call[1] = "press" =>
             /\ call[2] \in {"KeyV", "ControlLeft"} \cup DomButton
             /\ call[2] = "ControlLeft" => tail \in Range(rest)
        /\ call[1] # "press" => /\ call[2] \in {"KeyV", "ControlLeft"} \cup DomButton
                                /\ <<"release", call[2]>> \in Range(calls)
        /\ tail \in Range(calls) => tail \in Range(rest) \/ (call[1] # "press" /\ call[2] = "ControlLeft")
    <2>1. "ControlLeft" \notin DomButton
      BY InputAssumption
    <2>. QED
      BY <1>1, <2>1 DEF OneCall
  <1>3. /\ down' = IF call[1] = "press" THEN down \cup {call[2]} ELSE down \ {call[2]}
        /\ tasks' = IF rest = <<>> THEN others ELSE Append(others, task)
        /\ physical' = physical /\ transient' = transient /\ misnamed' = misnamed
    BY DEF CallStep
  <1>4. rest \in Seq(NativeCall)
    BY <1>1, HeadTailProperties DEF OneCall
  <1>5. Range(<<>>) = {}
    BY DEF Range
  <1>6. call[1] # "press" => calls # Paste
    BY DEF Paste
  <1>. HIDE DEF call, rest
  <1>7. /\ Agenda(tasks)'
        /\ PastingOf(others) \/ tail \in Range(rest) => PastingOf(tasks)'
    <2>1. CASE rest = <<>>
      <3>1. tasks' = others
        BY <1>3, <2>1
      <3>. QED
        BY <1>5, <2>1, <3>1 DEF Agenda, PastingOf
    <2>2. CASE rest # <<>>
      <3>1. task \in Task /\ task.op = "calls" /\ task.calls = rest /\ rest \in Errand
        BY <1>2, <1>4, <2>2 DEF Task
      <3>. HIDE DEF task
      <3>2. /\ Agenda(Append(others, task))
            /\ PastingOf(others) => PastingOf(Append(others, task))
        BY <3>1, AgendaAppend
      <3>3. task \in Range(Append(others, task))
        BY <3>1, AppendRange DEF Agenda
      <3>4. tail \in Range(rest) => PastingOf(Append(others, task))
        BY <3>1, <3>3 DEF PastingOf
      <3>5. tasks' = Append(others, task)
        BY <1>3, <2>2
      <3>. QED
        BY <3>2, <3>4, <3>5 DEF Agenda, PastingOf
    <2>. QED
      BY <2>1, <2>2
  <1>8. Tables'
    BY <1>3 DEF Tables
  <1>9. call[2] \in ModKey => call[2] = "ControlLeft"
    <2>1. "KeyV" \notin ModKey /\ DomButton \cap ModKey = {}
      BY InputAssumption
    <2>. QED
      BY <1>2, <2>1
  <1>10. StaysDown
    <2>. SUFFICES ASSUME NEW m \in Mod, physical[m] # None, physical[m] \in down,
                         physical[m] \notin down'
                  PROVE  Pasting
      BY DEF StaysDown
    <2>1. physical[m] \in ModKey
      BY DEF Tables
    <2>2. call[1] # "press" /\ call[2] = "ControlLeft"
      BY <1>3, <1>9, <2>1
    <2>3. tail \in Range(calls)
      BY <1>2, <2>2
    <2>4. PICK t \in Range(tasks) : t.op = "calls" /\ t.calls = calls
      BY <1>6, <2>2
    <2>. QED
      BY <2>3, <2>4, PastingIn DEF PastingOf
  <1>11. ASSUME NoStrayModifier PROVE NoStrayModifier'
    <2>1. ASSUME NEW k \in down' \cap ModKey PROVE Known(k)'
      <3>1. CASE k \notin down
        <4>1. call[1] = "press" /\ k = "ControlLeft" /\ tail \in Range(rest)
          BY <1>2, <1>3, <1>9, <3>1
        <4>. QED
          BY <1>7, <4>1 DEF Known
      <3>2. CASE k \in down
        <4>1. Known(k)
          BY <1>11, <3>2, Strays
        <4>2. ASSUME PastingOf(tasks), k = "ControlLeft" PROVE PastingOf(tasks)'
          <5>1. PICK t \in Range(tasks) : t.op = "calls" /\ tail \in Range(t.calls)
            BY <4>2 DEF PastingOf
          <5>2. CASE t \in Range(others)
            BY <1>7, <5>1, <5>2 DEF PastingOf
          <5>3. CASE t.calls = calls
            BY <1>2, <1>3, <1>7, <4>2, <5>1, <5>3
          <5>. QED
            BY <5>1, <5>2, <5>3 DEF StillUnderWay
        <4>. QED
          BY <1>3, <4>1, <4>2 DEF Known
      <3>. QED
        BY <3>1, <3>2
    <2>. QED
      BY <2>1, Strays
  <1>. QED
    BY <1>7, <1>8, <1>10, <1>11 DEF Safe

LEMMA ModifierSegment ==
  ASSUME Tables, Agenda(tasks), NEW k \in ModKey, PressModifier(k) \/ ReleaseModifier(k)
  PROVE  Safe
  <1>. DEFINE m == ModifierOf(k)
  <1>1. m \in Mod /\ ModifierOf(Left[m]) = m
    BY Modifiers
  <1>2. k # None
    BY InputAssumption
  <1>3. CASE PressModifier(k)
    <2>1. /\ transient' = transient \ {m}
          /\ physical' = IF physical[m] # None THEN physical ELSE [physical EXCEPT ![m] = k]
          /\ down' = IF physical[m] # None \/ m \in transient THEN down ELSE down \cup {k}
          /\ misnamed' = IF m \in transient /\ k # Left[m] THEN misnamed \cup {m} ELSE misnamed
          /\ tasks' = tasks
      BY <1>3 DEF PressModifier, IsDown
    <2>. HIDE DEF m
    <2>2. Tables' /\ Agenda(tasks)' /\ StaysDown
      <3>1. physical \in [Mod -> ModKey \cup {None}]
        BY DEF Tables
      <3>2. /\ physical' \in [Mod -> ModKey \cup {None}]
            /\ \A n \in Mod : physical'[n] = IF n = m /\ physical[m] = None THEN k ELSE physical[n]
        BY <1>1, <2>1, <3>1
      <3>3. Tables'
        BY <1>1, <2>1, <3>2 DEF Tables, m
      <3>4. StaysDown
        BY <2>1 DEF StaysDown
      <3>. QED
        BY <2>1, <3>3, <3>4 DEF Agenda
    <2>3. ASSUME NoStrayModifier PROVE NoStrayModifier'
      <3>1. \A n \in Mod : physical'[n] = IF n = m /\ physical[m] = None THEN k ELSE physical[n]
        BY <1>1, <2>1 DEF Tables
      <3>2. /\ misnamed \subseteq misnamed'
            /\ \A n \in transient : n \in transient' \cup misnamed' \/ (n = m /\ k = Left[m])
        BY <2>1
      <3>3. ASSUME NEW j \in down' \cap ModKey PROVE Known(j)'
        <4>1. ModifierOf(j) \in Mod
          BY Modifiers
        <4>2. CASE j \in down
          <5>1. Known(j)
            BY <2>3, <4>2, Strays
          <5>2. PastingOf(tasks)' <=> PastingOf(tasks)
            BY <2>1 DEF PastingOf
          <5>3. j # None
            BY InputAssumption
          <5>. QED
            BY <2>1, <3>1, <3>2, <4>1, <5>1, <5>2, <5>3 DEF Known, Tables
        <4>3. CASE j \notin down
          <5>1. j = k /\ physical[m] = None
            BY <2>1, <4>3
          <5>. QED
            BY <1>1, <3>1, <5>1 DEF Known, m
        <4>. QED
          BY <4>2, <4>3
      <3>. QED
        BY <3>3, Strays
    <2>. QED
      BY <2>2, <2>3 DEF Safe
  <1>4. CASE ReleaseModifier(k)
    <2>1. /\ transient' = transient \ {m}
          /\ physical' = [physical EXCEPT ![m] = None]
          /\ down' = down \ (IF physical[m] # None THEN {physical[m]}
                             ELSE IF m \in transient THEN {Left[m]} ELSE {})
          /\ tasks' = tasks /\ misnamed' = misnamed
      BY <1>4 DEF ReleaseModifier
    <2>. HIDE DEF m
    <2>2. /\ physical' \in [Mod -> ModKey \cup {None}]
          /\ \A n \in Mod : physical'[n] = IF n = m THEN None ELSE physical[n]
      BY <1>1, <2>1 DEF Tables
    <2>3. Tables' /\ Agenda(tasks)'
      BY <2>1, <2>2 DEF Tables, Agenda
    <2>4. StaysDown
      <3>. SUFFICES ASSUME NEW n \in Mod, physical[n] # None, physical'[n] = physical[n],
                           physical[n] \in down
                    PROVE  physical[n] \in down'
        BY DEF StaysDown
      <3>1. n # m /\ ModifierOf(physical[n]) = n
        BY <2>2 DEF Tables
      <3>2. physical[m] # None => ModifierOf(physical[m]) = m
        BY <1>1 DEF Tables
      <3>. QED
        BY <1>1, <2>1, <3>1, <3>2
    <2>5. ASSUME NoStrayModifier PROVE NoStrayModifier'
      <3>1. ASSUME NEW j \in down' \cap ModKey PROVE Known(j)'
        <4>1. ModifierOf(j) \in Mod
          BY Modifiers
        <4>2. j \in down /\ Known(j)
          BY <2>1, <2>5, Strays
        <4>3. PastingOf(tasks)' <=> PastingOf(tasks)
          BY <2>1 DEF PastingOf
        <4>. QED
          BY <2>1, <2>2, <4>1, <4>2, <4>3 DEF Known, Tables
      <3>. QED
        BY <3>1, Strays
    <2>. QED
      BY <2>3, <2>4, <2>5 DEF Safe
  <1>. QED
    BY <1>3, <1>4

\* A key-up of any other key, a mouse button: a task more, and no modifier touched.
LEMMA PlainSegment ==
  ASSUME Tables, NEW others, Agenda(others), StillUnderWay(others, <<>>),
         NEW x \in Task, x.op = "calls" => x.calls \in Errand,
         NEW gone \in SUBSET (Key \cup DomButton), down' = down \ gone,
         tasks' = Append(others, x), UNCHANGED <<physical, transient, misnamed>>
  PROVE  Safe
  <1>1. Agenda(tasks)' /\ (PastingOf(tasks) => PastingOf(tasks)')
    <2>1. Agenda(Append(others, x)) /\ (PastingOf(others) => PastingOf(Append(others, x)))
      BY AgendaAppend
    <2>. QED
      BY <2>1, PastingIn, StillPasting DEF Agenda, PastingOf
  <1>2. Tables'
    BY DEF Tables
  <1>3. gone \cap ModKey = {}
    BY InputAssumption
  <1>4. StaysDown
    BY <1>3 DEF StaysDown, Tables
  <1>5. ASSUME NoStrayModifier PROVE NoStrayModifier'
    BY <1>1, <1>5, Strays DEF Known
  <1>. QED
    BY <1>1, <1>2, <1>4, <1>5 DEF Safe

LEMMA HostStepSafe ==
  ASSUME HostShape, HostStep
  PROVE  Safe
  <1>1. Tables /\ Agenda(tasks)
    BY DEF HostShape
  <1>2. PICK others :
          /\ Agenda(others)
          /\ \/ StillUnderWay(others, <<>>) /\ Segment(others)
             \/ \E calls \in Errand \cup {Paste} :
                  /\ StillUnderWay(others, calls)
                  /\ calls = Paste \/ \E t \in Range(tasks) : t.op = "calls" /\ t.calls = calls
                  /\ CallStep(calls, others)
    BY DEF HostStep
  <1>3. ASSUME NEW key \in Key, NEW todo \in SUBSET Mod, StillUnderWay(others, <<>>),
               PressStep(PressTask(key, todo), others)
        PROVE  Safe
    BY <1>1, <1>2, <1>3, PressSegment
  <1>4. ASSUME NEW todo \in SUBSET Mod, StillUnderWay(others, <<>>), SweepStep(todo, others)
        PROVE  Safe
    BY <1>1, <1>2, <1>4, SweepSegment
  <1>5. ASSUME NEW k \in ModKey, PressModifier(k) \/ ReleaseModifier(k)
        PROVE  Safe
    BY <1>1, <1>5, ModifierSegment
  <1>6. ASSUME NEW k \in Key, StillUnderWay(others, <<>>), KeyRelease(k, others)
        PROVE  Safe
    <2>. DEFINE x    == [op |-> "look"]
                gone == {k}
    <2>1. x \in Task /\ x.op # "calls" /\ gone \in SUBSET (Key \cup DomButton)
      BY DEF Task
    <2>2. /\ down' = down \ gone /\ tasks' = Append(others, x)
          /\ UNCHANGED <<physical, transient, misnamed>>
      BY <1>6 DEF KeyRelease
    <2>. HIDE DEF x, gone
    <2>. QED
      BY <1>1, <1>2, <1>6, <2>1, <2>2, PlainSegment
  <1>7. ASSUME NEW a \in {"press", "release"}, NEW b \in DomButton,
               StillUnderWay(others, <<>>), Clicked(a, b, others)
        PROVE  Safe
    <2>. DEFINE x    == Click(a, b)
                gone == {}
    <2>1. x \in Task /\ x.calls \in Errand
      <3>1. <<a, b>> \in NativeCall
        BY DEF NativeCall
      <3>2. <<<<a, b>>>> \in Seq(NativeCall)
        BY <3>1
      <3>3. <<<<a, b>>>> \in Errand
        BY DEF Errand
      <3>. QED
        BY <3>2, <3>3 DEF Click, Task
    <2>2. gone \in SUBSET (Key \cup DomButton) /\ down' = down \ gone
      BY <1>7 DEF Clicked
    <2>3. tasks' = Append(others, x) /\ UNCHANGED <<physical, transient, misnamed>>
      BY <1>7 DEF Clicked
    <2>. HIDE DEF x, gone
    <2>. QED
      BY <1>1, <1>2, <1>7, <2>1, <2>2, <2>3, PlainSegment
  <1>8. ASSUME NEW calls \in Errand \cup {Paste}, StillUnderWay(others, calls),
               calls = Paste \/ \E t \in Range(tasks) : t.op = "calls" /\ t.calls = calls,
               CallStep(calls, others)
        PROVE  Safe
    BY <1>1, <1>2, <1>8, CallSegment
  <1>. QED
    BY <1>2, <1>3, <1>4, <1>5, <1>6, <1>7, <1>8 DEF Segment

-----------------------------------------------------------------------------
(* The state's shape *)

InputShape == InputTypeOK /\ Recorded

LEMMA ShapeParts ==
  ASSUME InputShape
  PROVE  HostShape
  BY DEF InputShape, InputTypeOK, Recorded, HostShape, Tables, Agenda

\* What users and agents do: the host's variables stay, and the rest keeps its type.
UserShape ==
  /\ held \in [Human -> SUBSET (Key \cup ModKey \cup DomButton)]
  /\ lost \in [Viewer -> SUBSET (Key \cup ModKey \cup DomButton)]
  /\ attached \in [Human -> BOOLEAN]
  /\ pressed \in [Human -> SUBSET DomButton]
  /\ wire \in [Viewer -> Seq(Event)]
  /\ allowed \subseteq Viewer
  /\ acts \in 0 .. MaxActs

LEMMA InputShapeIs ==
  /\ InputShape <=> UserShape /\ HostShape /\ raced \in BOOLEAN
  /\ InputShape' <=> UserShape' /\ HostShape' /\ raced' \in BOOLEAN
  <1>1. InputShape <=> UserShape /\ HostShape /\ raced \in BOOLEAN
    BY DEF InputShape, InputTypeOK, Recorded, UserShape, HostShape, Tables, Agenda
  <1>2. InputShape' <=> UserShape' /\ HostShape' /\ raced' \in BOOLEAN
    BY DEF InputShape, InputTypeOK, Recorded, UserShape, HostShape, Tables, Agenda
  <1>. QED
    BY <1>1, <1>2

LEMMA Sent ==
  ASSUME UserShape, NEW v \in Viewer, NEW e \in Event, Send(v, e)
  PROVE  wire' \in [Viewer -> Seq(Event)]
  <1>1. wire[v] \in Seq(Event)
    BY DEF UserShape
  <1>2. Append(wire[v], e) \in Seq(Event)
    BY <1>1, AppendProperties
  <1>. QED
    BY <1>2 DEF UserShape, Send

LEMMA Counted ==
  ASSUME UserShape, Act
  PROVE  acts' \in 0 .. MaxActs
  BY InputAssumption DEF UserShape, Act

\* Whatever a viewer does leaves the injector alone.
LEMMA UserSteps ==
  ASSUME UserShape, NEW v \in Human,
         \/ \E k \in Key \cup ModKey : KeyDown(v, k) \/ KeyUp(v, k)
         \/ \E b \in DomButton, onVideo \in BOOLEAN :
              MouseDown(v, b, onVideo) \/ MouseUp(v, b, onVideo)
         \/ Detach(v) \/ Attach(v)
  PROVE  UserShape' /\ UNCHANGED <<hostVars>>
  <1>1. v \in Viewer
    BY DEF Viewer
  <1>2. ASSUME NEW b \in DomButton PROVE MapButton(b) \in DomButton
    BY InputAssumption DEF MapButton
  <1>3. ASSUME NEW k \in Key \cup ModKey, KeyDown(v, k) PROVE UserShape' /\ UNCHANGED <<hostVars>>
    <2>1. ModsOf(held'[v]) \in SUBSET Mod
      BY Modifiers DEF ModsOf
    <2>2. KeyEvent(v, "k-down", k) \in Event
      BY <2>1 DEF KeyEvent, Event
    <2>3. wire' \in [Viewer -> Seq(Event)]
      BY <1>1, <1>3, <2>2, Sent DEF KeyDown, UserShape
    <2>4. acts' \in 0 .. MaxActs
      BY <1>3, Counted DEF KeyDown
    <2>5. held' \in [Human -> SUBSET (Key \cup ModKey \cup DomButton)]
      BY <1>3 DEF KeyDown, UserShape
    <2>. QED
      BY <1>3, <2>3, <2>4, <2>5 DEF KeyDown, UserShape
  <1>4. ASSUME NEW k \in Key \cup ModKey, KeyUp(v, k) PROVE UserShape' /\ UNCHANGED <<hostVars>>
    <2>1. ModsOf(held'[v]) \in SUBSET Mod
      BY Modifiers DEF ModsOf
    <2>2. KeyEvent(v, "k-up", k) \in Event
      BY <2>1 DEF KeyEvent, Event
    <2>3. wire' \in [Viewer -> Seq(Event)]
      BY <1>1, <1>4, <2>2, Sent DEF KeyUp, UserShape
    <2>4. acts' \in 0 .. MaxActs
      BY <1>4, Counted DEF KeyUp
    <2>5. held' = [held EXCEPT ![v] = @ \ {k}]
      BY <1>4 DEF KeyUp
    <2>6. held' \in [Human -> SUBSET (Key \cup ModKey \cup DomButton)]
      BY <2>5 DEF UserShape
    <2>7. lost' = lost \/ lost' = [lost EXCEPT ![v] = @ \cup {k}]
      BY <1>4 DEF KeyUp
    <2>8. lost' \in [Viewer -> SUBSET (Key \cup ModKey \cup DomButton)]
      BY <1>1, <2>7 DEF UserShape
    <2>9. UNCHANGED <<attached, pressed, allowed, hostVars>>
      BY <1>4 DEF KeyUp
    <2>. QED
      BY <1>1, <2>3, <2>4, <2>6, <2>8, <2>9 DEF UserShape
  <1>5. ASSUME NEW b \in DomButton, NEW onVideo \in BOOLEAN, MouseDown(v, b, onVideo)
        PROVE  UserShape' /\ UNCHANGED <<hostVars>>
    <2>1. [t |-> "m-down", button |-> MapButton(b)] \in Event
      BY <1>2 DEF Event
    <2>2. wire' \in [Viewer -> Seq(Event)]
      BY <1>1, <1>5, <2>1, Sent DEF MouseDown, UserShape
    <2>3. acts' \in 0 .. MaxActs
      BY <1>5, Counted DEF MouseDown
    <2>4. /\ held' \in [Human -> SUBSET (Key \cup ModKey \cup DomButton)]
          /\ pressed' \in [Human -> SUBSET DomButton]
      BY <1>5 DEF MouseDown, UserShape
    <2>. QED
      BY <1>5, <2>2, <2>3, <2>4 DEF MouseDown, UserShape
  <1>6. ASSUME NEW b \in DomButton, NEW onVideo \in BOOLEAN, MouseUp(v, b, onVideo)
        PROVE  UserShape' /\ UNCHANGED <<hostVars>>
    <2>1. [t |-> "m-up", button |-> MapButton(b)] \in Event
      BY <1>2 DEF Event
    <2>2. wire' \in [Viewer -> Seq(Event)]
      BY <1>1, <1>6, <2>1, Sent DEF MouseUp, UserShape
    <2>3. acts' \in 0 .. MaxActs
      BY <1>6, Counted DEF MouseUp
    <2>4. /\ held' \in [Human -> SUBSET (Key \cup ModKey \cup DomButton)]
          /\ pressed' \in [Human -> SUBSET DomButton]
      BY <1>6 DEF MouseUp, UserShape
    <2>. QED
      BY <1>6, <2>2, <2>3, <2>4 DEF MouseUp, UserShape
  <1>7. ASSUME Detach(v) PROVE UserShape' /\ UNCHANGED <<hostVars>>
    <2>1. acts' \in 0 .. MaxActs
      BY <1>7, Counted DEF Detach
    <2>2. /\ lost' \in [Viewer -> SUBSET (Key \cup ModKey \cup DomButton)]
          /\ pressed' \in [Human -> SUBSET DomButton]
          /\ attached' \in [Human -> BOOLEAN]
      BY <1>1, <1>7 DEF Detach, UserShape
    <2>. QED
      BY <1>7, <2>1, <2>2 DEF Detach, UserShape
  <1>8. ASSUME Attach(v) PROVE UserShape' /\ UNCHANGED <<hostVars>>
    BY <1>8 DEF Attach, UserShape
  <1>. QED
    BY <1>3, <1>4, <1>5, <1>6, <1>7, <1>8

LEMMA AgentSteps ==
  ASSUME UserShape, NEW v \in Agent,
         (\E k \in Key, mods \in AgentMods : PressKeyTool(v, k, mods)) \/ TypeTextTool(v)
  PROVE  UserShape' /\ UNCHANGED <<hostVars>>
  <1>1. v \in Viewer
    BY DEF Viewer
  <1>2. ASSUME NEW k \in Key, NEW mods \in AgentMods, PressKeyTool(v, k, mods)
        PROVE  UserShape' /\ UNCHANGED <<hostVars>>
    <2>. DEFINE d == [t |-> "k-down", key |-> k, mods |-> mods]
                u == [t |-> "k-up", key |-> k, mods |-> mods]
    <2>1. d \in Event /\ u \in Event
      BY InputAssumption DEF Event
    <2>. HIDE DEF d, u
    <2>2. <<d, u>> \in Seq(Event)
      BY <2>1
    <2>3. wire[v] \o <<d, u>> \in Seq(Event)
      BY <1>1, <2>2, ConcatProperties DEF UserShape
    <2>4. wire' = [wire EXCEPT ![v] = @ \o <<d, u>>]
      BY <1>2 DEF PressKeyTool, d, u
    <2>5. wire' \in [Viewer -> Seq(Event)]
      BY <1>1, <2>3, <2>4 DEF UserShape
    <2>6. acts' \in 0 .. MaxActs
      BY <1>2, Counted DEF PressKeyTool
    <2>. QED
      BY <1>2, <2>5, <2>6 DEF PressKeyTool, UserShape
  <1>3. ASSUME TypeTextTool(v) PROVE UserShape' /\ UNCHANGED <<hostVars>>
    <2>1. [t |-> "clipboard"] \in Event
      BY DEF Event
    <2>2. wire' \in [Viewer -> Seq(Event)]
      BY <1>1, <1>3, <2>1, Sent DEF TypeTextTool
    <2>3. acts' \in 0 .. MaxActs
      BY <1>3, Counted DEF TypeTextTool
    <2>. QED
      BY <1>3, <2>2, <2>3 DEF TypeTextTool, UserShape
  <1>. QED
    BY <1>2, <1>3

LEMMA ReleasedNames ==
  ASSUME NEW q \in Seq(Event)
  PROVE  Released(q) \subseteq Key \cup ModKey \cup DomButton
  <1>1. ASSUME NEW e \in Event PROVE /\ e.t = "k-up" => e.key \in Key \cup ModKey
                                     /\ e.t = "m-up" => e.button \in DomButton
    BY DEF Event
  <1>2. Range(q) \subseteq Event
    BY ElementOfSeq, LenProperties DEF Range
  <1>. QED
    BY <1>1, <1>2 DEF Released

LEMMA LeaveStep ==
  ASSUME UserShape, NEW v \in Viewer, Leave(v)
  PROVE  UserShape' /\ UNCHANGED <<hostVars>>
  <1>1. Released(wire[v]) \subseteq Key \cup ModKey \cup DomButton
    BY ReleasedNames DEF UserShape
  <1>2. lost' \in [Viewer -> SUBSET (Key \cup ModKey \cup DomButton)]
    BY <1>1 DEF Leave, UserShape
  <1>3. wire' \in [Viewer -> Seq(Event)]
    BY DEF Leave, UserShape
  <1>. QED
    BY <1>2, <1>3 DEF Leave, UserShape

LEMMA DeliverStep ==
  ASSUME UserShape, NEW v \in Viewer, Deliver(v)
  PROVE  /\ UserShape' /\ Head(wire[v]) \in Event
         /\ \/ v \in allowed /\ Inject(Head(wire[v])) /\ raced' = (raced \/ tasks # <<>>)
            \/ v \notin allowed /\ UNCHANGED <<hostVars>>
  <1>1. wire[v] \in Seq(Event) /\ wire[v] # <<>>
    BY DEF UserShape, Deliver
  <1>2. Head(wire[v]) \in Event /\ Tail(wire[v]) \in Seq(Event)
    BY <1>1, HeadTailProperties
  <1>3. wire' \in [Viewer -> Seq(Event)]
    BY <1>2 DEF Deliver, UserShape
  <1>4. UserShape'
    BY <1>3 DEF Deliver, UserShape, userVars
  <1>. QED
    BY <1>2, <1>4 DEF Deliver

\* Any step at all, seen from the injector.
LEMMA InputStep ==
  ASSUME InputShape, [InputNext]_inputVars
  PROVE  /\ UserShape' /\ raced' \in BOOLEAN
         /\ HostStep \/ UNCHANGED <<physical, transient, tasks, down, misnamed>>
  <1>1. UserShape /\ HostShape /\ raced \in BOOLEAN
    BY InputShapeIs
  <1>2. ASSUME UserShape', UNCHANGED <<hostVars>>
        PROVE  /\ UserShape' /\ raced' \in BOOLEAN
               /\ UNCHANGED <<physical, transient, tasks, down, misnamed>>
    BY <1>1, <1>2 DEF hostVars
  <1>3. ASSUME NEW v \in Viewer, Deliver(v)
        PROVE  /\ UserShape' /\ raced' \in BOOLEAN
               /\ HostStep \/ UNCHANGED <<physical, transient, tasks, down, misnamed>>
    <2>1. CASE Inject(Head(wire[v])) /\ raced' = (raced \/ tasks # <<>>)
      BY <1>1, <1>3, <2>1, DeliverStep, InjectStep
    <2>2. CASE UNCHANGED <<hostVars>>
      BY <1>1, <1>2, <1>3, <2>2, DeliverStep
    <2>. QED
      BY <1>1, <1>3, <2>1, <2>2, DeliverStep
  <1>4. ASSUME NEW i \in DOMAIN tasks, Resume(i)
        PROVE  UserShape' /\ raced' \in BOOLEAN /\ HostStep
    <2>1. UserShape' /\ raced' \in BOOLEAN
      BY <1>1, <1>4 DEF Resume, UserShape, userVars
    <2>. QED
      BY <1>1, <1>4, <2>1, ResumeStep
  <1>5. CASE UNCHANGED inputVars
    BY <1>1, <1>5 DEF inputVars, userVars, hostVars, UserShape
  <1>6. CASE InputNext
    BY <1>1, <1>2, <1>3, <1>4, <1>6, UserSteps, AgentSteps, LeaveStep DEF InputNext
  <1>. QED
    BY <1>5, <1>6

LEMMA ShapeStep ==
  ASSUME InputShape, [InputNext]_inputVars
  PROVE  /\ InputShape' /\ StaysDown
         /\ NoStrayModifier => NoStrayModifier'
  <1>1. /\ UserShape' /\ raced' \in BOOLEAN
        /\ HostStep \/ UNCHANGED <<physical, transient, tasks, down, misnamed>>
    BY InputStep
  <1>2. CASE HostStep
    <2>1. Safe
      BY <1>2, HostStepSafe, ShapeParts
    <2>. QED
      BY <1>1, <2>1, InputShapeIs DEF Safe, HostShape
  <1>3. CASE UNCHANGED <<physical, transient, tasks, down, misnamed>>
    <2>1. HostShape' /\ StaysDown
      BY <1>3, ShapeParts DEF HostShape, Tables, Agenda, StaysDown
    <2>2. NoStrayModifier => NoStrayModifier'
      BY <1>3 DEF NoStrayModifier, Pasting
    <2>. QED
      BY <1>1, <2>1, <2>2, InputShapeIs
  <1>. QED
    BY <1>1, <1>2, <1>3

LEMMA ShapeInit == InputInit => InputShape /\ NoStrayModifier
  <1>. SUFFICES ASSUME InputInit PROVE InputShape /\ NoStrayModifier
    OBVIOUS
  <1>1. UserShape
    BY InputAssumption DEF InputInit, UserShape
  <1>2. HostShape /\ raced \in BOOLEAN
    <2>1. Range(<<>>) = {} /\ <<>> \in Seq(Task)
      BY DEF Range
    <2>2. /\ tasks = <<>> /\ physical = [m \in Mod |-> None] /\ transient = {}
          /\ raced = FALSE /\ misnamed = {}
      BY DEF InputInit
    <2>3. Agenda(tasks)
      BY <2>1, <2>2 DEF Agenda
    <2>4. Tables
      BY <2>2 DEF Tables
    <2>. QED
      BY <2>2, <2>3, <2>4 DEF HostShape
  <1>3. NoStrayModifier
    BY DEF InputInit, NoStrayModifier
  <1>. QED
    BY <1>1, <1>2, <1>3, InputShapeIs

(***************************************************************************)
(* The types of the keyboard and the mouse on their way, a modifier being  *)
(* physical or transient and never both, and the key recorded for it one   *)
(* of its own.                                                             *)
(***************************************************************************)
THEOREM InputShaped == InputSpec => []InputShape
  <1>1. InputInit => InputShape
    BY ShapeInit
  <1>2. InputShape /\ [InputNext]_inputVars => InputShape'
    BY ShapeStep
  <1>. QED
    BY <1>1, <1>2, PTL DEF InputSpec

(***************************************************************************)
(* HeldUntilOwnUp, for any number of viewers, keys and events: whatever is *)
(* being injected, a modifier that is recorded under its own key stays     *)
(* down on the host until its own key-up is injected.                      *)
(***************************************************************************)
THEOREM ModifierHeldUntilOwnUp == InputSpec => HeldUntilOwnUp
  <1>1. InputShape /\ [InputNext]_inputVars
          => [\A m \in Mod :
                physical[m] # None /\ physical'[m] = physical[m] /\ physical[m] \in down
                  => physical[m] \in down' \/ Pasting]_inputVars
    BY ShapeStep DEF StaysDown
  <1>. QED
    BY <1>1, InputShaped, PTL DEF InputSpec, HeldUntilOwnUp

(***************************************************************************)
(* InputInv, for any number of viewers, keys and events, modifiers of both *)
(* sides among them: no modifier key is down that the tables of            *)
(* InputInjector do not know of, but for the left key of a modifier that   *)
(* was promoted under its right one.                                       *)
(***************************************************************************)
THEOREM ModifiersKnown == InputSpec => []InputInv
  <1>1. InputInit => InputShape /\ NoStrayModifier
    BY ShapeInit
  <1>2. (InputShape /\ NoStrayModifier) /\ [InputNext]_inputVars
          => (InputShape /\ NoStrayModifier)'
    BY ShapeStep
  <1>3. InputShape /\ NoStrayModifier => InputInv
    BY DEF InputShape, InputInv
  <1>. QED
    BY <1>1, <1>2, <1>3, PTL DEF InputSpec

-----------------------------------------------------------------------------
(* What is down will be let go of *)

(***************************************************************************)
(* What a viewer will let go of, as far as the host can know: Comes says   *)
(* that x, by its name on the wire, is among what the viewer lost, among   *)
(* what it holds and will announce, or among what is announced behind      *)
(* event i on its wire.  Frees says the same of a modifier, which any      *)
(* key's release sweeps.                                                   *)
(***************************************************************************)
NameOf(x) == IF x \in DomButton THEN MapButton(x) ELSE x

Kept(v) == IF v \in Human \cap allowed THEN {x \in held[v] : x \in DomButton => x \in pressed[v]}
           ELSE {}

LetsGo(e, x) == \/ e.t = "k-up" /\ e.key = x
                \/ e.t = "m-up" /\ e.button = x

Told(v, i, x) == v \in allowed /\ \E j \in DOMAIN wire[v] : j > i /\ LetsGo(wire[v][j], x)

Comes(v, i, x) == (\E y \in lost[v] \cup Kept(v) : x = NameOf(y)) \/ Told(v, i, x)

Frees(v, i, m) == \/ \E k \in ModKey : ModifierOf(k) = m /\ Comes(v, i, k)
                  \/ \E k \in Key : k \in lost[v] \/ Told(v, i, k)

\* A button InputCapture follows is held, and followed while it listens.
Captive ==
  \A v \in Human : pressed[v] \subseteq held[v] /\ (~attached[v] => pressed[v] = {})

\* What an event on the wire presses, something behind it will release.
Framed(v, i, e) ==
  /\ e.t = "k-down" => Comes(v, i, e.key) /\ \A m \in e.mods : Left[m] \in ModKey /\ Frees(v, i, m)
  /\ e.t = "m-down" => Comes(v, i, e.button)
  /\ e.t = "m-up" => NameOf(e.button) = e.button

FramesInv == \A v \in allowed : \A i \in DOMAIN wire[v] : Framed(v, i, wire[v][i])

Promised(x) == \E v \in Viewer : Comes(v, 0, x)

Freed(m) == \E v \in Viewer : Frees(v, 0, m)

\* A task will look at m, or release x.
Swept(m) == \E t \in Range(tasks) : t.op = "look" \/ (t.op = "sweep" /\ m \in t.todo)

Undone(x) == \E t \in Range(tasks) : t.op = "calls" /\ <<"release", x>> \in Range(t.calls)

(***************************************************************************)
(* While no event is injected into the injection of another, all that is   *)
(* down is promised, a transient modifier's or about to be undone, every   *)
(* transient modifier will be swept, and what a task has yet to press is   *)
(* promised too.                                                           *)
(***************************************************************************)
Owed ==
  /\ Len(tasks) <= 1
  /\ \A x \in down : Promised(x) \/ (\E m \in transient \cup misnamed : x = Left[m]) \/ Undone(x)
  /\ \A m \in transient : Left[m] \in ModKey /\ (Freed(m) \/ Swept(m))
  /\ \A t \in Range(tasks) :
       /\ t.op = "press" => /\ Promised(t.key)
                            /\ \A m \in t.todo : Left[m] \in ModKey /\ Freed(m)
       /\ t.op = "calls" => \A b \in DomButton : <<"press", b>> \in Range(t.calls) => Promised(b)

(***************************************************************************)
(* What viewers do only adds to what they will let go of.                  *)
(***************************************************************************)
Grows(v) ==
  /\ lost[v] \subseteq lost'[v]
  /\ \A y \in Kept(v) : \/ y \in Kept(v)' \/ y \in lost'[v]
                        \/ \A i \in 0 .. Len(wire[v]) : Told(v, i, NameOf(y))'
  /\ \A i \in 0 .. Len(wire[v]) : \A x :
       Told(v, i, x) => Told(v, i, x)' \/ (x \in lost'[v] /\ NameOf(x) = x)

LEMMA GrowsComes ==
  ASSUME NEW v \in Viewer, Grows(v), NEW i \in 0 .. Len(wire[v])
  PROVE  /\ \A x : Comes(v, i, x) => Comes(v, i, x)'
         /\ \A m : Frees(v, i, m) => Frees(v, i, m)'
  <1>1. ASSUME NEW x, Comes(v, i, x) PROVE Comes(v, i, x)'
    <2>1. CASE Told(v, i, x)
      BY <2>1 DEF Grows, Comes
    <2>2. ASSUME NEW y \in lost[v] \cup Kept(v), x = NameOf(y) PROVE Comes(v, i, x)'
      <3>1. y \in Kept(v)' \/ y \in lost'[v] \/ Told(v, i, NameOf(y))'
        BY <2>2 DEF Grows
      <3>2. y \in Kept(v)' \/ y \in lost'[v] \/ Told(v, i, x)'
        BY <2>2, <3>1
      <3>. QED
        BY <2>2, <3>2 DEF Comes, NameOf
    <2>. QED
      BY <1>1, <2>1, <2>2 DEF Comes
  <1>2. ASSUME NEW k \in Key, k \in lost[v] \/ Told(v, i, k)
        PROVE  k \in lost'[v] \/ Told(v, i, k)'
    BY <1>2 DEF Grows
  <1>. QED
    BY <1>1, <1>2 DEF Frees

\* The wires that are still heard keep their events.
Extends == \A u \in allowed' : \A j \in DOMAIN wire[u] : /\ j \in DOMAIN wire'[u]
                                                        /\ wire'[u][j] = wire[u][j]

LEMMA FramesGrow ==
  ASSUME UserShape, UserShape', FramesInv, allowed' \subseteq allowed, Extends,
         \A u \in Viewer : Grows(u),
         \A u \in allowed' : \A i \in DOMAIN wire'[u] :
           i \in DOMAIN wire[u] \/ Framed(u, i, wire[u][i])'
  PROVE  FramesInv'
  <1>. SUFFICES ASSUME NEW u \in allowed', NEW i \in DOMAIN wire'[u], i \in DOMAIN wire[u]
                PROVE  Framed(u, i, wire[u][i])'
    BY DEF FramesInv
  <1>1. u \in Viewer /\ u \in allowed /\ wire[u] \in Seq(Event)
    BY DEF UserShape
  <1>2. i \in 0 .. Len(wire[u])
    BY <1>1, LenProperties
  <1>3. Framed(u, i, wire[u][i]) /\ wire'[u][i] = wire[u][i]
    BY <1>1 DEF FramesInv, Extends
  <1>4. /\ \A x : Comes(u, i, x) => Comes(u, i, x)'
        /\ \A m : Frees(u, i, m) => Frees(u, i, m)'
    BY <1>1, <1>2, GrowsComes
  <1>. QED
    BY <1>3, <1>4 DEF Framed, NameOf

LEMMA OwedGrows ==
  ASSUME UserShape, \A u \in Viewer : Grows(u), UNCHANGED <<tasks, down, transient, misnamed>>, Owed
  PROVE  Owed'
  <1>1. \A u \in Viewer : 0 \in 0 .. Len(wire[u])
    BY LenProperties DEF UserShape
  <1>2. /\ \A x : Promised(x) => Promised(x)'
        /\ \A m : Freed(m) => Freed(m)'
    BY <1>1, GrowsComes DEF Promised, Freed
  <1>. QED
    BY <1>2 DEF Owed, Swept, Undone

UserKeeps == Captive' /\ FramesInv' /\ \A u \in Viewer : Grows(u)

WireGrows == \A u \in Viewer : \A j \in DOMAIN wire[u] : /\ j \in DOMAIN wire'[u]
                                                        /\ wire'[u][j] = wire[u][j]

LEMMA SendWire ==
  ASSUME UserShape, NEW v \in Viewer, NEW e \in Event, Send(v, e)
  PROVE  /\ WireGrows
         /\ \A u \in Viewer : \A j \in DOMAIN wire'[u] :
              j \in DOMAIN wire[u] \/ (u = v /\ j = Len(wire[v]) + 1)
         /\ Len(wire[v]) + 1 \in DOMAIN wire'[v] /\ wire'[v][Len(wire[v]) + 1] = e
  <1>. DEFINE q == wire[v]
              r == Append(q, e)
  <1>1. q \in Seq(Event)
    BY DEF UserShape
  <1>2. /\ r[Len(q) + 1] = e /\ DOMAIN r = DOMAIN q \cup {Len(q) + 1}
        /\ \A j \in DOMAIN q : r[j] = q[j]
    BY <1>1, AppendProperties, LenProperties
  <1>3. wire'[v] = r /\ \A u \in Viewer : u # v => wire'[u] = wire[u]
    BY DEF Send, UserShape
  <1>. HIDE DEF r
  <1>. QED
    BY <1>2, <1>3 DEF WireGrows

LEMMA UserKeepsIf ==
  ASSUME UserShape, UserShape', FramesInv, Captive', allowed' = allowed, WireGrows,
         \A u \in Viewer : lost[u] \subseteq lost'[u],
         \A u \in Viewer : \A y \in Kept(u) :
           \/ y \in Kept(u)' \/ y \in lost'[u]
           \/ \A i \in 0 .. Len(wire[u]) : Told(u, i, NameOf(y))',
         \A u \in allowed : \A i \in DOMAIN wire'[u] :
           i \in DOMAIN wire[u] \/ Framed(u, i, wire[u][i])'
  PROVE  UserKeeps
  <1>1. \A u \in Viewer : \A i, x : Told(u, i, x) => Told(u, i, x)'
    BY DEF Told, WireGrows, LetsGo
  <1>2. \A u \in Viewer : Grows(u)
    BY <1>1 DEF Grows
  <1>3. Extends
    BY DEF Extends, WireGrows, UserShape
  <1>. QED
    BY <1>2, <1>3, FramesGrow DEF UserKeeps

\* The modifiers an event carries are held, each by its left key.
LEMMA ModsFreed ==
  ASSUME UserShape', NEW v \in Human, v \in allowed', NEW i, NEW m \in ModsOf(held'[v])
  PROVE  Left[m] \in ModKey /\ Frees(v, i, m)'
  <1>1. PICK k \in held'[v] \cap ModKey : m = ModifierOf(k)
    BY DEF ModsOf
  <1>2. k \notin DomButton
    BY InputAssumption
  <1>3. k \in Kept(v)' /\ NameOf(k) = k
    BY <1>1, <1>2 DEF Kept, NameOf
  <1>4. Comes(v, i, k)'
    BY <1>3 DEF Comes, NameOf
  <1>. QED
    BY <1>1, <1>4, InputAssumption DEF Frees

LEMMA KeyDownKeeps ==
  ASSUME UserShape, UserShape', Captive, FramesInv,
         NEW v \in Human, NEW k \in Key \cup ModKey, KeyDown(v, k)
  PROVE  UserKeeps
  <1>1. v \in Viewer /\ k \notin DomButton
    BY InputAssumption DEF Viewer
  <1>2. /\ allowed' = allowed /\ lost' = lost /\ pressed' = pressed /\ attached' = attached
        /\ held' = [held EXCEPT ![v] = @ \cup {k}]
    BY DEF KeyDown
  <1>3. \A u \in Human : held[u] \subseteq held'[u]
    BY <1>2 DEF UserShape
  <1>4. Captive'
    BY <1>2, <1>3 DEF Captive
  <1>5. \A u \in Viewer : Kept(u) \subseteq Kept(u)'
    BY <1>2, <1>3 DEF Kept
  <1>6. CASE UNCHANGED wire
    <2>1. WireGrows
      BY <1>6 DEF WireGrows
    <2>. QED
      BY <1>2, <1>4, <1>5, <1>6, <2>1, UserKeepsIf
  <1>7. CASE Send(v, KeyEvent(v, "k-down", k))
    <2>. DEFINE e == KeyEvent(v, "k-down", k)
    <2>1. PICK i : i = Len(wire[v]) + 1
      OBVIOUS
    <2>2. /\ e.t = "k-down" /\ e.key = k /\ e.mods = ModsOf(held'[v])
          /\ e \in Event
      <3>1. ModsOf(held'[v]) \in SUBSET Mod
        BY Modifiers DEF ModsOf
      <3>. QED
        BY <3>1 DEF KeyEvent, Event
    <2>3. Send(v, e)
      BY <1>7
    <2>. HIDE DEF e
    <2>4. /\ WireGrows
          /\ \A u \in Viewer : \A j \in DOMAIN wire'[u] :
               j \in DOMAIN wire[u] \/ (u = v /\ j = i)
          /\ wire'[v][i] = e
      BY <1>1, <2>1, <2>2, <2>3, SendWire
    <2>5. ASSUME v \in allowed PROVE Framed(v, i, wire[v][i])'
      <3>1. k \in Kept(v)' /\ NameOf(k) = k
        BY <1>1, <1>2, <2>5 DEF Kept, NameOf, UserShape
      <3>2. Comes(v, i, k)'
        BY <3>1 DEF Comes, NameOf
      <3>3. \A m \in ModsOf(held'[v]) : Left[m] \in ModKey /\ Frees(v, i, m)'
        BY <1>2, <2>5, ModsFreed
      <3>. QED
        BY <2>2, <2>4, <3>2, <3>3 DEF Framed
    <2>6. \A u \in allowed : \A j \in DOMAIN wire'[u] :
            j \in DOMAIN wire[u] \/ Framed(u, j, wire[u][j])'
      BY <2>4, <2>5 DEF UserShape
    <2>. QED
      BY <1>2, <1>4, <1>5, <2>4, <2>6, UserKeepsIf
  <1>. QED
    BY <1>6, <1>7 DEF KeyDown

\* What a release on the wire tells, at the index it gets and before.
LEMMA NowTold ==
  ASSUME UserShape, NEW v \in Viewer, v \in allowed, allowed' = allowed,
         NEW e \in Event, Send(v, e), NEW x, LetsGo(e, x)
  PROVE  \A i \in 0 .. Len(wire[v]) : Told(v, i, x)'
  <1>. DEFINE n == Len(wire[v])
  <1>1. n + 1 \in DOMAIN wire'[v] /\ wire'[v][n + 1] = e
    BY SendWire
  <1>2. n \in Nat
    BY LenProperties DEF UserShape
  <1>. HIDE DEF n
  <1>3. \A i \in 0 .. n : n + 1 > i
    BY <1>2
  <1>4. \A i \in 0 .. n : Told(v, i, x)'
    BY <1>1, <1>3 DEF Told, LetsGo
  <1>. QED
    BY <1>4 DEF n

LEMMA KeyUpKeeps ==
  ASSUME UserShape, UserShape', Captive, FramesInv,
         NEW v \in Human, NEW k \in Key \cup ModKey, KeyUp(v, k)
  PROVE  UserKeeps
  <1>1. v \in Viewer /\ k \notin DomButton /\ NameOf(k) = k
    BY InputAssumption DEF Viewer, NameOf
  <1>2. /\ allowed' = allowed /\ pressed' = pressed /\ attached' = attached
        /\ held' = [held EXCEPT ![v] = @ \ {k}]
    BY DEF KeyUp
  <1>3. \A u \in Human : \A y \in held[u] : y \in held'[u] \/ (u = v /\ y = k)
    BY <1>2 DEF UserShape
  <1>4. Captive'
    BY <1>1, <1>2, <1>3 DEF Captive, UserShape
  <1>5. \A u \in Viewer : \A y \in Kept(u) : y \in Kept(u)' \/ (u = v /\ y = k /\ v \in allowed)
    BY <1>2, <1>3 DEF Kept
  <1>6. CASE lost' = [lost EXCEPT ![v] = @ \cup {k}] /\ UNCHANGED wire
    <2>1. WireGrows
      BY <1>6 DEF WireGrows
    <2>2. k \in lost'[v] /\ \A u \in Viewer : lost[u] \subseteq lost'[u]
      BY <1>1, <1>6 DEF UserShape
    <2>. QED
      BY <1>2, <1>4, <1>5, <1>6, <2>1, <2>2, UserKeepsIf
  <1>7. CASE Send(v, KeyEvent(v, "k-up", k)) /\ UNCHANGED lost
    <2>. DEFINE e == KeyEvent(v, "k-up", k)
    <2>1. PICK i : i = Len(wire[v]) + 1
      OBVIOUS
    <2>2. e.t = "k-up" /\ e.key = k /\ e \in Event
      <3>1. ModsOf(held'[v]) \in SUBSET Mod
        BY Modifiers DEF ModsOf
      <3>. QED
        BY <3>1 DEF KeyEvent, Event
    <2>3. Send(v, e) /\ lost' = lost
      BY <1>7
    <2>. HIDE DEF e
    <2>4. /\ WireGrows
          /\ \A u \in Viewer : \A j \in DOMAIN wire'[u] :
               j \in DOMAIN wire[u] \/ (u = v /\ j = i)
          /\ wire'[v][i] = e
      BY <1>1, <2>1, <2>2, <2>3, SendWire
    <2>5. v \in allowed => \A j \in 0 .. Len(wire[v]) : Told(v, j, k)'
      BY <1>1, <1>2, <2>2, <2>3, NowTold DEF LetsGo
    <2>6. Framed(v, i, wire[v][i])'
      BY <2>2, <2>4 DEF Framed
    <2>7. \A u \in allowed : \A j \in DOMAIN wire'[u] :
            j \in DOMAIN wire[u] \/ Framed(u, j, wire[u][j])'
      BY <2>4, <2>6 DEF UserShape
    <2>8. \A u \in Viewer : \A y \in Kept(u) :
            y \in Kept(u)' \/ \A j \in 0 .. Len(wire[u]) : Told(u, j, NameOf(y))'
      BY <1>1, <1>5, <2>5
    <2>. QED
      BY <1>2, <1>4, <2>3, <2>4, <2>7, <2>8, UserKeepsIf
  <1>. QED
    BY <1>6, <1>7 DEF KeyUp

LEMMA MappedButton ==
  ASSUME NEW b \in DomButton
  PROVE  /\ MapButton(b) \in DomButton /\ NameOf(b) = MapButton(b)
         /\ NameOf(MapButton(b)) = MapButton(b)
  BY InputAssumption DEF MapButton, NameOf

LEMMA MouseDownKeeps ==
  ASSUME UserShape, UserShape', Captive, FramesInv,
         NEW v \in Human, NEW b \in DomButton, NEW onVideo \in BOOLEAN, MouseDown(v, b, onVideo)
  PROVE  UserKeeps
  <1>1. v \in Viewer
    BY DEF Viewer
  <1>2. /\ allowed' = allowed /\ lost' = lost /\ attached' = attached
        /\ held' = [held EXCEPT ![v] = @ \cup {b}]
    BY DEF MouseDown
  <1>3. \A u \in Human : held[u] \subseteq held'[u] /\ b \in held'[v]
    BY <1>2 DEF UserShape
  <1>4. CASE UNCHANGED <<pressed, wire>>
    <2>1. WireGrows
      BY <1>4 DEF WireGrows
    <2>2. Captive'
      BY <1>2, <1>3, <1>4 DEF Captive
    <2>3. \A u \in Viewer : Kept(u) \subseteq Kept(u)'
      BY <1>2, <1>3, <1>4 DEF Kept
    <2>. QED
      BY <1>2, <1>4, <2>1, <2>2, <2>3, UserKeepsIf
  <1>5. CASE /\ attached[v] /\ pressed' = [pressed EXCEPT ![v] = @ \cup {b}]
             /\ Send(v, [t |-> "m-down", button |-> MapButton(b)])
    <2>. DEFINE e == [t |-> "m-down", button |-> MapButton(b)]
    <2>1. PICK i : i = Len(wire[v]) + 1
      OBVIOUS
    <2>2. e.t = "m-down" /\ e.button = MapButton(b) /\ e \in Event
      BY MappedButton DEF Event
    <2>3. Send(v, e)
      BY <1>5
    <2>. HIDE DEF e
    <2>4. /\ WireGrows
          /\ \A u \in Viewer : \A j \in DOMAIN wire'[u] :
               j \in DOMAIN wire[u] \/ (u = v /\ j = i)
          /\ wire'[v][i] = e
      BY <1>1, <2>1, <2>2, <2>3, SendWire
    <2>5. /\ b \in pressed'[v]
          /\ \A u \in Human : /\ pressed[u] \subseteq pressed'[u]
                              /\ \A y \in pressed'[u] : y \in pressed[u] \/ (u = v /\ y = b)
      BY <1>5 DEF UserShape
    <2>6. Captive'
      BY <1>2, <1>3, <1>5, <2>5 DEF Captive
    <2>7. \A u \in Viewer : Kept(u) \subseteq Kept(u)'
      BY <1>2, <1>3, <2>5 DEF Kept
    <2>8. ASSUME v \in allowed PROVE Framed(v, i, wire[v][i])'
      <3>1. b \in Kept(v)' /\ NameOf(b) = MapButton(b)
        BY <1>2, <1>3, <2>5, <2>8, MappedButton DEF Kept
      <3>2. Comes(v, i, MapButton(b))'
        BY <3>1 DEF Comes, NameOf, MapButton
      <3>. QED
        BY <2>2, <2>4, <3>2 DEF Framed
    <2>9. \A u \in allowed : \A j \in DOMAIN wire'[u] :
            j \in DOMAIN wire[u] \/ Framed(u, j, wire[u][j])'
      BY <2>4, <2>8 DEF UserShape
    <2>. QED
      BY <1>2, <2>4, <2>6, <2>7, <2>9, UserKeepsIf
  <1>. QED
    BY <1>4, <1>5 DEF MouseDown

LEMMA MouseUpKeeps ==
  ASSUME UserShape, UserShape', Captive, FramesInv,
         NEW v \in Human, NEW b \in DomButton, NEW onVideo \in BOOLEAN, MouseUp(v, b, onVideo)
  PROVE  UserKeeps
  <1>1. v \in Viewer
    BY DEF Viewer
  <1>2. /\ allowed' = allowed /\ lost' = lost /\ attached' = attached
        /\ held' = [held EXCEPT ![v] = @ \ {b}]
    BY DEF MouseUp
  <1>3. \A u \in Human : \A y \in held[u] : y \in held'[u] \/ (u = v /\ y = b)
    BY <1>2 DEF UserShape
  <1>4. CASE UNCHANGED <<pressed, wire>> /\ ~(attached[v] /\ b \in pressed[v])
    <2>1. WireGrows
      BY <1>4 DEF WireGrows
    <2>2. b \notin pressed[v]
      BY <1>4 DEF Captive
    <2>3. Captive'
      BY <1>2, <1>3, <1>4, <2>2 DEF Captive
    <2>4. \A u \in Viewer : Kept(u) \subseteq Kept(u)'
      BY <1>2, <1>3, <1>4, <2>2 DEF Kept
    <2>. QED
      BY <1>2, <1>4, <2>1, <2>3, <2>4, UserKeepsIf
  <1>5. CASE /\ pressed' = [pressed EXCEPT ![v] = @ \ {b}]
             /\ Send(v, [t |-> "m-up", button |-> MapButton(b)])
    <2>. DEFINE e == [t |-> "m-up", button |-> MapButton(b)]
    <2>1. PICK i : i = Len(wire[v]) + 1
      OBVIOUS
    <2>2. e.t = "m-up" /\ e.button = MapButton(b) /\ e \in Event
      BY MappedButton DEF Event
    <2>3. Send(v, e)
      BY <1>5
    <2>. HIDE DEF e
    <2>4. /\ WireGrows
          /\ \A u \in Viewer : \A j \in DOMAIN wire'[u] :
               j \in DOMAIN wire[u] \/ (u = v /\ j = i)
          /\ wire'[v][i] = e
      BY <1>1, <2>1, <2>2, <2>3, SendWire
    <2>5. \A u \in Human : /\ pressed'[u] \subseteq pressed[u]
                           /\ \A y \in pressed[u] : y \in pressed'[u] \/ (u = v /\ y = b)
      BY <1>5 DEF UserShape
    <2>6. b \notin pressed'[v]
      BY <1>5 DEF UserShape
    <2>7. Captive'
      BY <1>2, <1>3, <2>5, <2>6 DEF Captive
    <2>8. v \in allowed => \A j \in 0 .. Len(wire[v]) : Told(v, j, NameOf(b))'
      BY <1>1, <1>2, <2>2, <2>3, NowTold, MappedButton DEF LetsGo
    <2>9. \A u \in Viewer : \A y \in Kept(u) : y \in Kept(u)' \/ (u = v /\ y = b /\ v \in allowed)
      BY <1>2, <1>3, <2>5 DEF Kept
    <2>10. \A u \in Viewer : \A y \in Kept(u) :
             y \in Kept(u)' \/ \A j \in 0 .. Len(wire[u]) : Told(u, j, NameOf(y))'
      BY <2>8, <2>9
    <2>11. Framed(v, i, wire[v][i])'
      BY <2>2, <2>4, MappedButton DEF Framed, NameOf, MapButton
    <2>12. \A u \in allowed : \A j \in DOMAIN wire'[u] :
             j \in DOMAIN wire[u] \/ Framed(u, j, wire[u][j])'
      BY <2>4, <2>11 DEF UserShape
    <2>. QED
      BY <1>2, <2>4, <2>7, <2>10, <2>12, UserKeepsIf
  <1>. QED
    BY <1>4, <1>5 DEF MouseUp

LEMMA DetachKeeps ==
  ASSUME UserShape, UserShape', Captive, FramesInv, NEW v \in Human, Detach(v)
  PROVE  UserKeeps
  <1>1. /\ allowed' = allowed /\ held' = held /\ wire' = wire
        /\ v \in Viewer
        /\ \A u \in Viewer : lost[u] \subseteq lost'[u]
        /\ pressed[v] \subseteq lost'[v]
        /\ \A u \in Human : pressed'[u] = IF u = v THEN {} ELSE pressed[u]
        /\ \A u \in Human : attached'[u] => attached[u]
    BY DEF Detach, UserShape, Viewer
  <1>2. WireGrows
    BY <1>1 DEF WireGrows
  <1>3. Captive'
    <2>1. \A u \in Human : u # v => attached'[u] = attached[u]
      BY DEF Detach, UserShape
    <2>. QED
      BY <1>1, <2>1 DEF Captive
  <1>4. \A u \in Viewer : \A y \in Kept(u) : y \in Kept(u)' \/ y \in lost'[u]
    BY <1>1 DEF Kept
  <1>. QED
    BY <1>1, <1>2, <1>3, <1>4, UserKeepsIf

LEMMA AttachKeeps ==
  ASSUME UserShape, UserShape', Captive, FramesInv, NEW v \in Human, Attach(v)
  PROVE  UserKeeps
  <1>1. allowed' = allowed /\ held' = held /\ wire' = wire /\ lost' = lost /\ pressed' = pressed
    BY DEF Attach
  <1>2. WireGrows
    BY <1>1 DEF WireGrows
  <1>3. Captive'
    BY <1>1 DEF Captive, Attach, UserShape
  <1>4. \A u \in Viewer : Kept(u) \subseteq Kept(u)'
    BY <1>1 DEF Kept
  <1>. QED
    BY <1>1, <1>2, <1>3, <1>4, UserKeepsIf

LEMMA PressKeyToolKeeps ==
  ASSUME UserShape, UserShape', Captive, FramesInv,
         NEW v \in Agent, NEW k \in Key, NEW mods \in AgentMods, PressKeyTool(v, k, mods)
  PROVE  UserKeeps
  <1>. DEFINE d == [t |-> "k-down", key |-> k, mods |-> mods]
              u == [t |-> "k-up", key |-> k, mods |-> mods]
              q == wire[v]
              r == q \o <<d, u>>
  <1>1. v \in Viewer /\ q \in Seq(Event)
    BY DEF Viewer, UserShape
  <1>2. PICK n : n = Len(wire[v])
    OBVIOUS
  <1>3. /\ d.t = "k-down" /\ d.key = k /\ d.mods = mods /\ u.t = "k-up" /\ u.key = k
        /\ d \in Event /\ u \in Event
    BY InputAssumption DEF Event
  <1>4. wire' = [wire EXCEPT ![v] = q \o <<d, u>>]
    BY DEF PressKeyTool
  <1>. HIDE DEF d, u
  <1>5. /\ \A j \in DOMAIN q : j \in DOMAIN r /\ r[j] = q[j]
        /\ \A j \in DOMAIN r : j \in DOMAIN q \/ j = n + 1 \/ j = n + 2
        /\ n \in Nat /\ n + 2 \in DOMAIN r /\ r[n + 1] = d /\ r[n + 2] = u
    <2>1. /\ r \in Seq(Event) /\ Len(r) = n + 2
          /\ \A j \in 1 .. n + 2 : r[j] = IF j <= n THEN q[j] ELSE <<d, u>>[j - n]
      <3>1. <<d, u>> \in Seq(Event) /\ Len(<<d, u>>) = 2
        BY <1>3
      <3>. QED
        BY <1>1, <1>2, <3>1, ConcatProperties
    <2>2. n \in Nat /\ DOMAIN q = 1 .. n /\ DOMAIN r = 1 .. n + 2
      BY <1>1, <1>2, <2>1, LenProperties
    <2>. HIDE DEF q, r
    <2>3. (n + 1) - n = 1 /\ (n + 2) - n = 2 /\ n + 1 \in 1 .. n + 2 /\ n + 2 \in 1 .. n + 2
      BY <2>2
    <2>4. r[n + 1] = <<d, u>>[1] /\ r[n + 2] = <<d, u>>[2]
      BY <2>1, <2>2, <2>3
    <2>. QED
      BY <2>1, <2>2, <2>3, <2>4
  <1>6. wire'[v] = r /\ \A w \in Viewer : w # v => wire'[w] = wire[w]
    BY <1>1, <1>4 DEF UserShape
  <1>. HIDE DEF r
  <1>7. WireGrows
    BY <1>5, <1>6 DEF WireGrows
  <1>8. allowed' = allowed /\ held' = held /\ lost' = lost /\ pressed' = pressed /\ attached' = attached
    BY DEF PressKeyTool
  <1>9. Captive' /\ \A w \in Viewer : Kept(w) \subseteq Kept(w)'
    BY <1>8 DEF Captive, Kept
  <1>10. ASSUME v \in allowed PROVE Framed(v, n + 1, wire[v][n + 1])'
    <2>1. Told(v, n + 1, k)'
      <3>1. n + 2 > n + 1 /\ LetsGo(u, k)
        BY <1>3, <1>5 DEF LetsGo
      <3>. QED
        BY <1>5, <1>6, <1>8, <1>10, <3>1 DEF Told, LetsGo
    <2>2. Comes(v, n + 1, k)' /\ \A m : Frees(v, n + 1, m)'
      BY <2>1 DEF Comes, Frees
    <2>3. \A m \in mods : Left[m] \in ModKey
      BY InputAssumption
    <2>. QED
      BY <1>3, <1>5, <1>6, <2>2, <2>3 DEF Framed
  <1>11. Framed(v, n + 2, wire[v][n + 2])'
    BY <1>3, <1>5, <1>6 DEF Framed
  <1>12. \A w \in allowed : \A j \in DOMAIN wire'[w] :
           j \in DOMAIN wire[w] \/ Framed(w, j, wire[w][j])'
    BY <1>5, <1>6, <1>10, <1>11 DEF UserShape
  <1>. QED
    BY <1>7, <1>8, <1>9, <1>12, UserKeepsIf

LEMMA TypeTextToolKeeps ==
  ASSUME UserShape, UserShape', Captive, FramesInv, NEW v \in Agent, TypeTextTool(v)
  PROVE  UserKeeps
  <1>. DEFINE e == [t |-> "clipboard"]
  <1>1. v \in Viewer
    BY DEF Viewer
  <1>2. PICK i : i = Len(wire[v]) + 1
    OBVIOUS
  <1>3. e.t = "clipboard" /\ e \in Event
    BY DEF Event
  <1>4. Send(v, e)
    BY DEF TypeTextTool
  <1>. HIDE DEF e
  <1>5. /\ WireGrows
        /\ \A u \in Viewer : \A j \in DOMAIN wire'[u] :
             j \in DOMAIN wire[u] \/ (u = v /\ j = i)
        /\ wire'[v][i] = e
    BY <1>1, <1>2, <1>3, <1>4, SendWire
  <1>6. allowed' = allowed /\ held' = held /\ lost' = lost /\ pressed' = pressed /\ attached' = attached
    BY DEF TypeTextTool
  <1>7. Captive' /\ \A w \in Viewer : Kept(w) \subseteq Kept(w)'
    BY <1>6 DEF Captive, Kept
  <1>8. Framed(v, i, wire[v][i])'
    BY <1>3, <1>5 DEF Framed
  <1>9. \A u \in allowed : \A j \in DOMAIN wire'[u] :
          j \in DOMAIN wire[u] \/ Framed(u, j, wire[u][j])'
    BY <1>5, <1>8 DEF UserShape
  <1>. QED
    BY <1>5, <1>6, <1>7, <1>9, UserKeepsIf

LEMMA LeaveKeeps ==
  ASSUME UserShape, UserShape', Captive, FramesInv, NEW v \in Viewer, Leave(v)
  PROVE  UserKeeps
  <1>1. /\ v \in allowed /\ allowed' = allowed \ {v}
        /\ held' = held /\ pressed' = pressed /\ attached' = attached
        /\ \A u \in Viewer : u # v => wire'[u] = wire[u] /\ lost'[u] = lost[u]
        /\ lost'[v] = lost[v] \cup (IF v \in Human THEN held[v] ELSE {}) \cup Released(wire[v])
    BY DEF Leave, UserShape
  <1>2. Captive'
    BY <1>1 DEF Captive
  <1>3. ASSUME NEW j \in DOMAIN wire[v], NEW x, LetsGo(wire[v][j], x)
        PROVE  x \in lost'[v] /\ NameOf(x) = x
    <2>1. wire[v][j] \in Range(wire[v]) /\ wire[v][j] \in Event
      BY ElementOfSeq, LenProperties DEF Range, UserShape
    <2>2. x \in lost'[v]
      BY <1>1, <1>3, <2>1 DEF LetsGo, Released
    <2>3. \A e \in Event : e.t = "k-up" => e.key \in Key \cup ModKey
      BY DEF Event
    <2>4. NameOf(x) = x
      <3>1. CASE wire[v][j].t = "k-up" /\ wire[v][j].key = x
        BY <2>1, <2>3, <3>1, InputAssumption DEF NameOf
      <3>2. CASE wire[v][j].t = "m-up" /\ wire[v][j].button = x
        BY <1>1, <3>2 DEF FramesInv, Framed
      <3>. QED
        BY <1>3, <3>1, <3>2 DEF LetsGo
    <2>. QED
      BY <2>2, <2>4
  <1>4. ASSUME NEW u \in Viewer PROVE Grows(u)
    <2>1. lost[u] \subseteq lost'[u]
      BY <1>1
    <2>2. \A y \in Kept(u) : y \in Kept(u)' \/ y \in lost'[u]
      BY <1>1 DEF Kept
    <2>3. \A i, x : Told(u, i, x) => Told(u, i, x)' \/ (x \in lost'[u] /\ NameOf(x) = x)
      <3>1. CASE u = v
        BY <1>3, <3>1 DEF Told
      <3>2. CASE u # v
        BY <1>1, <3>2 DEF Told, LetsGo
      <3>. QED
        BY <3>1, <3>2
    <2>. QED
      BY <2>1, <2>2, <2>3 DEF Grows
  <1>5. Extends
    BY <1>1 DEF Extends, UserShape
  <1>6. \A u \in allowed' : \A i \in DOMAIN wire'[u] : i \in DOMAIN wire[u]
    BY <1>1 DEF UserShape
  <1>. QED
    BY <1>1, <1>2, <1>4, <1>5, <1>6, FramesGrow DEF UserKeeps

-----------------------------------------------------------------------------
(* What the host does with it *)

\* A wire that lost its first event.
LEMMA Shifted ==
  ASSUME NEW s \in Seq(Event), s # <<>>
  PROVE  /\ 1 \in DOMAIN s /\ Head(s) = s[1]
         /\ \A j \in DOMAIN Tail(s) : j \in Nat /\ j + 1 \in DOMAIN s /\ Tail(s)[j] = s[j + 1]
         /\ \A j \in DOMAIN s : j = 1 \/ (j \in Nat /\ j - 1 \in DOMAIN Tail(s) /\ Tail(s)[j - 1] = s[j])
  <1>. DEFINE t == Tail(s)
              n == Len(s)
  <1>1. /\ t \in Seq(Event) /\ Len(t) = n - 1 /\ \A j \in 1 .. n - 1 : t[j] = s[j + 1]
        /\ Head(s) = s[1] /\ n \in Nat /\ n # 0
    BY HeadTailProperties, EmptySeq, LenProperties
  <1>2. DOMAIN s = 1 .. n /\ DOMAIN t = 1 .. n - 1
    BY <1>1, LenProperties
  <1>. HIDE DEF t, n
  <1>3. \A j \in 1 .. n - 1 : j \in Nat /\ j + 1 \in 1 .. n
    BY <1>1
  <1>4. \A j \in 1 .. n : j = 1 \/ (j \in Nat /\ j - 1 \in 1 .. n - 1 /\ (j - 1) + 1 = j)
    BY <1>1
  <1>5. 1 \in 1 .. n
    BY <1>1
  <1>6. \A j \in 1 .. n : j = 1 \/ t[j - 1] = s[j]
    BY <1>1, <1>4
  <1>. QED
    BY <1>1, <1>2, <1>3, <1>4, <1>5, <1>6 DEF t

LEMMA DeliverKeeps ==
  ASSUME UserShape, Captive, FramesInv, NEW v \in Viewer, Deliver(v),
         NEW e, e = Head(wire[v])
  PROVE  /\ Captive' /\ FramesInv'
         /\ \A x : Promised(x) => Promised(x)' \/ (v \in allowed /\ LetsGo(e, x))
         /\ \A m : Freed(m) => \/ Freed(m)'
                               \/ /\ v \in allowed /\ e.t = "k-up"
                                  /\ e.key \in Key \/ ModifierOf(e.key) = m
         /\ v \in allowed =>
              /\ e.t = "k-down" => /\ Promised(e.key)'
                                   /\ \A m \in e.mods : Left[m] \in ModKey /\ Freed(m)'
              /\ e.t = "m-down" => Promised(e.button)'
  <1>1. /\ wire[v] # <<>> /\ wire[v] \in Seq(Event)
        /\ wire'[v] = Tail(wire[v]) /\ \A u \in Viewer : u # v => wire'[u] = wire[u]
        /\ held' = held /\ lost' = lost /\ attached' = attached /\ pressed' = pressed
        /\ allowed' = allowed
    BY DEF Deliver, UserShape, userVars
  <1>2. /\ 1 \in DOMAIN wire[v] /\ e = wire[v][1]
        /\ \A j \in DOMAIN wire'[v] : /\ j \in Nat /\ j + 1 \in DOMAIN wire[v]
                                      /\ wire'[v][j] = wire[v][j + 1]
        /\ \A j \in DOMAIN wire[v] : \/ j = 1
                                     \/ /\ j \in Nat /\ j - 1 \in DOMAIN wire'[v]
                                        /\ wire'[v][j - 1] = wire[v][j]
    BY <1>1, Shifted
  <1>3. \A u \in Viewer : Kept(u)' = Kept(u)
    BY <1>1 DEF Kept
  \* Indices move up by one.
  <1>4. ASSUME NEW i \in Nat, NEW x, Told(v, i + 1, x) PROVE Told(v, i, x)'
    <2>1. PICK j \in DOMAIN wire[v] : j > i + 1 /\ LetsGo(wire[v][j], x)
      BY <1>4 DEF Told
    <2>2. j # 1 /\ j \in Nat /\ j - 1 > i
      BY <1>2, <1>4, <2>1
    <2>3. j - 1 \in DOMAIN wire'[v] /\ wire'[v][j - 1] = wire[v][j]
      BY <1>2, <2>2
    <2>. QED
      BY <1>1, <1>4, <2>1, <2>2, <2>3 DEF Told, LetsGo
  <1>5. ASSUME NEW i \in Nat
        PROVE  /\ \A x : Comes(v, i + 1, x) => Comes(v, i, x)'
               /\ \A m : Frees(v, i + 1, m) => Frees(v, i, m)'
    <2>1. \A x : Comes(v, i + 1, x) => Comes(v, i, x)'
      BY <1>1, <1>3, <1>4 DEF Comes, NameOf
    <2>. QED
      BY <1>1, <1>4, <2>1 DEF Frees
  <1>6. \A u \in Viewer : u # v =>
          \A i : /\ \A x : Comes(u, i, x) => Comes(u, i, x)'
                 /\ \A m : Frees(u, i, m) => Frees(u, i, m)'
    <2>. SUFFICES ASSUME NEW u \in Viewer, u # v, NEW i
                  PROVE  /\ \A x : Comes(u, i, x) => Comes(u, i, x)'
                         /\ \A m : Frees(u, i, m) => Frees(u, i, m)'
      OBVIOUS
    <2>1. \A x : Told(u, i, x) => Told(u, i, x)'
      BY <1>1 DEF Told, LetsGo
    <2>2. \A x : Comes(u, i, x) => Comes(u, i, x)'
      BY <1>1, <1>3, <2>1 DEF Comes, NameOf
    <2>. QED
      BY <1>1, <2>1, <2>2 DEF Frees
  \* What is announced is what the head lets go of, or announced behind it.
  <1>7. \A x : Told(v, 0, x) => Told(v, 1, x) \/ (v \in allowed /\ LetsGo(e, x))
    <2>. SUFFICES ASSUME NEW x, NEW j \in DOMAIN wire[v], v \in allowed, LetsGo(wire[v][j], x)
                  PROVE  Told(v, 1, x) \/ LetsGo(e, x)
      BY DEF Told
    <2>1. CASE j = 1
      BY <1>2, <2>1
    <2>2. CASE j # 1
      <3>1. DOMAIN wire[v] = 1 .. Len(wire[v]) /\ Len(wire[v]) \in Nat
        BY <1>1, LenProperties
      <3>2. j > 1
        BY <2>2, <3>1
      <3>. QED
        BY <3>2 DEF Told
    <2>. QED
      BY <2>1, <2>2
  <1>8. \A x : Comes(v, 0, x) => Comes(v, 1, x) \/ (v \in allowed /\ LetsGo(e, x))
    BY <1>7 DEF Comes
  <1>9. e \in Event
    BY <1>1, <1>2, ElementOfSeq, LenProperties
  <1>10. 0 \in Nat /\ 0 + 1 = 1
    OBVIOUS
  <1>11. /\ \A x : Comes(v, 1, x) => Comes(v, 0, x)'
         /\ \A m : Frees(v, 1, m) => Frees(v, 0, m)'
    BY <1>5, <1>10
  <1>12. ASSUME NEW x, Promised(x) PROVE Promised(x)' \/ (v \in allowed /\ LetsGo(e, x))
    <2>1. PICK u \in Viewer : Comes(u, 0, x)
      BY <1>12 DEF Promised
    <2>2. CASE u = v
      BY <1>8, <1>11, <2>1, <2>2 DEF Promised
    <2>3. CASE u # v
      BY <1>6, <2>1, <2>3 DEF Promised
    <2>. QED
      BY <2>2, <2>3
  <1>13. ASSUME NEW m, Freed(m)
         PROVE  \/ Freed(m)'
                \/ /\ v \in allowed /\ e.t = "k-up"
                   /\ e.key \in Key \/ ModifierOf(e.key) = m
    <2>1. PICK u \in Viewer : Frees(u, 0, m)
      BY <1>13 DEF Freed
    <2>2. CASE u # v
      BY <1>6, <2>1, <2>2 DEF Freed
    <2>3. CASE u = v
      <3>1. \A b : e.t = "m-up" => e.button \in DomButton
        BY <1>9 DEF Event
      <3>2. \A k \in Key \cup ModKey : LetsGo(e, k) => e.t = "k-up" /\ e.key = k
        BY <3>1, InputAssumption DEF LetsGo
      <3>3. ASSUME NEW k \in ModKey, ModifierOf(k) = m, Comes(v, 0, k)
            PROVE  Frees(v, 0, m)' \/ (v \in allowed /\ e.t = "k-up" /\ ModifierOf(e.key) = m)
        <4>1. CASE Comes(v, 1, k)
          BY <1>11, <3>3, <4>1 DEF Frees
        <4>2. CASE v \in allowed /\ LetsGo(e, k)
          BY <3>2, <3>3, <4>2
        <4>. QED
          BY <1>8, <3>3, <4>1, <4>2
      <3>4. ASSUME NEW k \in Key, k \in lost[v] \/ Told(v, 0, k)
            PROVE  Frees(v, 0, m)' \/ (v \in allowed /\ e.t = "k-up" /\ e.key \in Key)
        <4>1. CASE k \in lost[v]
          BY <1>1, <4>1 DEF Frees
        <4>2. CASE Told(v, 1, k)
          BY <1>4, <1>10, <4>2 DEF Frees
        <4>3. CASE v \in allowed /\ LetsGo(e, k)
          BY <3>2, <4>3
        <4>. QED
          BY <1>7, <3>4, <4>1, <4>2, <4>3
      <3>. QED
        BY <2>1, <2>3, <3>3, <3>4 DEF Frees, Freed
    <2>. QED
      BY <2>2, <2>3
  <1>14. ASSUME v \in allowed
         PROVE  /\ e.t = "k-down" => /\ Promised(e.key)'
                                     /\ \A m \in e.mods : Left[m] \in ModKey /\ Freed(m)'
                /\ e.t = "m-down" => Promised(e.button)'
    <2>1. Framed(v, 1, e)
      BY <1>2, <1>14 DEF FramesInv
    <2>2. /\ e.t = "k-down" => /\ Comes(v, 1, e.key)
                               /\ \A m \in e.mods : Left[m] \in ModKey /\ Frees(v, 1, m)
          /\ e.t = "m-down" => Comes(v, 1, e.button)
      BY <2>1 DEF Framed
    <2>3. /\ \A x : Comes(v, 1, x) => Promised(x)'
          /\ \A m : Frees(v, 1, m) => Freed(m)'
      BY <1>11 DEF Promised, Freed
    <2>. QED
      BY <2>2, <2>3
  <1>15. Captive'
    BY <1>1 DEF Captive
  <1>16. FramesInv'
    <2>. SUFFICES ASSUME NEW u \in allowed, NEW i \in DOMAIN wire'[u]
                  PROVE  Framed(u, i, wire[u][i])'
      BY <1>1 DEF FramesInv
    <2>1. u \in Viewer
      BY DEF UserShape
    <2>2. CASE u # v
      <3>1. wire'[u] = wire[u] /\ Framed(u, i, wire[u][i])
        BY <1>1, <2>1, <2>2 DEF FramesInv
      <3>. QED
        BY <1>6, <2>1, <2>2, <3>1 DEF Framed, NameOf
    <2>3. CASE u = v
      <3>1. i \in Nat /\ i + 1 \in DOMAIN wire[v] /\ wire'[v][i] = wire[v][i + 1]
        BY <1>2, <2>3
      <3>2. Framed(v, i + 1, wire[v][i + 1])
        BY <2>3, <3>1 DEF FramesInv
      <3>3. Framed(v, i, wire[v][i])'
        BY <1>5, <3>1, <3>2 DEF Framed, NameOf
      <3>. QED
        BY <2>3, <3>3
    <2>. QED
      BY <2>2, <2>3
  <1>. QED
    BY <1>12, <1>13, <1>14, <1>15, <1>16

LEMMA OneTask ==
  /\ Range(<<>>) = {} /\ Len(<<>>) = 0
  /\ \A t : Len(Append(<<>>, t)) = 1 /\ \A y : y \in Range(Append(<<>>, t)) <=> y = t
  <1>1. Range(<<>>) = {} /\ Len(<<>>) = 0
    BY DEF Range
  <1>2. ASSUME NEW t
        PROVE  Len(Append(<<>>, t)) = 1 /\ \A y : y \in Range(Append(<<>>, t)) <=> y = t
    <2>. DEFINE s == Append(<<>>, t)
    <2>1. s \in Seq({t}) /\ Len(s) = 1 /\ s[1] = t
      OBVIOUS
    <2>2. DOMAIN s = 1 .. 1
      BY <2>1, LenProperties
    <2>. HIDE DEF s
    <2>3. \A i \in 1 .. 1 : i = 1
      OBVIOUS
    <2>4. 1 \in 1 .. 1
      OBVIOUS
    <2>5. \A y : y \in Range(s) <=> y = t
      BY <2>1, <2>2, <2>3, <2>4 DEF Range
    <2>. QED
      BY <2>1, <2>5 DEF s
  <1>. QED
    BY <1>1, <1>2

\* Owed' from its parts, when no task is left, or one.
LEMMA OwedNone ==
  ASSUME tasks' = <<>>,
         \A x \in down' : Promised(x)' \/ \E m \in transient' \cup misnamed' : x = Left[m],
         \A m \in transient' : Left[m] \in ModKey /\ Freed(m)'
  PROVE  Owed'
  BY OneTask DEF Owed

LEMMA OwedOne ==
  ASSUME NEW t, tasks' = Append(<<>>, t),
         \A x \in down' : \/ Promised(x)' \/ (\E m \in transient' \cup misnamed' : x = Left[m])
                          \/ t.op = "calls" /\ <<"release", x>> \in Range(t.calls),
         \A m \in transient' : Left[m] \in ModKey
                                 /\ (Freed(m)' \/ t.op = "look" \/ (t.op = "sweep" /\ m \in t.todo)),
         t.op = "press" => /\ Promised(t.key)'
                           /\ \A m \in t.todo : Left[m] \in ModKey /\ Freed(m)',
         t.op = "calls" => \A b \in DomButton : <<"press", b>> \in Range(t.calls) => Promised(b)'
  PROVE  Owed'
  <1>1. Len(tasks') <= 1
    BY OneTask
  <1>2. \A y : y \in Range(tasks') <=> y = t
    BY OneTask
  <1>3. \A m \in transient' : Left[m] \in ModKey /\ (Freed(m)' \/ Swept(m)')
    BY <1>2 DEF Swept
  <1>4. \A x \in down' : \/ Promised(x)' \/ Undone(x)'
                        \/ \E m \in transient' \cup misnamed' : x = Left[m]
    <2>1. ASSUME NEW x, t.op = "calls", <<"release", x>> \in Range(t.calls) PROVE Undone(x)'
      BY <1>2, <2>1 DEF Undone
    <2>. QED
      BY <2>1
  <1>. QED
    BY <1>1, <1>2, <1>3, <1>4 DEF Owed

LEMMA PressOwed ==
  ASSUME NEW key, NEW todo,
         \A x \in down : Promised(x)' \/ \E m \in transient \cup misnamed : x = Left[m],
         \A m \in transient : Left[m] \in ModKey /\ Freed(m)',
         Promised(key)', \A m \in todo : Left[m] \in ModKey /\ Freed(m)',
         PressStep(PressTask(key, todo), <<>>)
  PROVE  Owed'
  <1>1. PICK others : others = <<>>
    OBVIOUS
  <1>2. PressStep(PressTask(key, todo), others)
    BY <1>1
  <1>3. /\ misnamed' = misnamed
        /\ \/ down' = down \cup {key} /\ tasks' = others /\ transient' = transient
           \/ \E m \in todo, later \in SUBSET todo :
                /\ transient' = transient \cup {m} /\ down' = down \cup {Left[m]}
                /\ tasks' = Append(others, PressTask(key, later))
    BY <1>2, PressCases
  <1>4. CASE down' = down \cup {key} /\ tasks' = <<>> /\ transient' = transient
    BY <1>3, <1>4, OwedNone
  <1>5. ASSUME NEW m \in todo, NEW later \in SUBSET todo,
               transient' = transient \cup {m}, down' = down \cup {Left[m]},
               tasks' = Append(<<>>, PressTask(key, later))
        PROVE  Owed'
    <2>. DEFINE t == PressTask(key, later)
    <2>1. t.op = "press" /\ t.key = key /\ t.todo = later
      BY DEF PressTask
    <2>2. tasks' = Append(<<>>, t)
      BY <1>5
    <2>. HIDE DEF t
    <2>. QED
      BY <1>3, <1>5, <2>1, <2>2, OwedOne
  <1>. QED
    BY <1>1, <1>3, <1>4, <1>5

LEMMA SweepOwed ==
  ASSUME Tables, NEW todo,
         \A x \in down : Promised(x)' \/ \E m \in transient \cup misnamed : x = Left[m],
         \A m \in transient : Left[m] \in ModKey /\ (Freed(m)' \/ m \in todo),
         SweepStep(todo, <<>>)
  PROVE  Owed'
  <1>. DEFINE free == {m \in todo : physical[m] = None}
  <1>1. CASE free = {} /\ transient' = transient \ todo /\ tasks' = <<>> /\ down' = down
    <2>1. /\ transient' = transient /\ misnamed' = misnamed
          /\ \A m \in transient : m \notin todo
      BY <1>1 DEF SweepStep, Tables
    <2>. QED
      BY <1>1, <2>1, OwedNone
  <1>2. ASSUME NEW m \in free, NEW passed \in SUBSET (todo \ free),
               transient' = transient \ (passed \cup {m}), down' = down \ {Left[m]},
               tasks' = Sweep(todo \ (passed \cup {m}), <<>>)
        PROVE  Owed'
    <2>1. PICK rest : rest = todo \ (passed \cup {m})
      OBVIOUS
    <2>2. transient' = transient \ {m}
      BY <1>2 DEF Tables
    <2>3. \A x \in down' : Promised(x)' \/ \E n \in transient' \cup misnamed' : x = Left[n]
      BY <1>2, <2>2 DEF SweepStep
    <2>4. \A n \in transient' : Left[n] \in ModKey /\ (Freed(n)' \/ n \in rest)
      BY <1>2, <2>1
    <2>5. CASE rest = {}
      <3>1. tasks' = <<>>
        BY <1>2, <2>1, <2>5 DEF Sweep
      <3>. QED
        BY <2>3, <2>4, <2>5, <3>1, OwedNone
    <2>6. CASE rest # {}
      <3>. DEFINE t == [op |-> "sweep", todo |-> rest]
      <3>1. t.op = "sweep" /\ t.todo = rest
        OBVIOUS
      <3>2. tasks' = Append(<<>>, t)
        BY <1>2, <2>1, <2>6 DEF Sweep
      <3>. HIDE DEF t
      <3>. QED
        BY <2>3, <2>4, <3>1, <3>2, OwedOne
    <2>. QED
      BY <2>5, <2>6
  <1>. QED
    BY <1>1, <1>2 DEF SweepStep

LEMMA CallOwed ==
  ASSUME NEW calls \in Errand \cup {Paste},
         \A x \in down : \/ Promised(x)' \/ (\E m \in transient \cup misnamed : x = Left[m])
                         \/ <<"release", x>> \in Range(calls),
         \A m \in transient : Left[m] \in ModKey /\ Freed(m)',
         \A b \in DomButton : <<"press", b>> \in Range(calls) => Promised(b)',
         CallStep(calls, <<>>)
  PROVE  Owed'
  <1>. DEFINE call == Head(calls)
              rest == Tail(calls)
  <1>1. OneCall(calls)
    BY ErrandCall
  <1>2. \A b : <<"press", b>> \in Range(<<<<"press", b>>>>)
    BY DEF Range
  <1>3. /\ call[1] = "press" => \/ <<"release", call[2]>> \in Range(rest)
                                \/ call[2] \in DomButton /\ <<"press", call[2]>> \in Range(calls)
        /\ \A b \in DomButton : <<"press", b>> \notin Range(rest)
        /\ \A x : <<"release", x>> \in Range(calls) =>
                    <<"release", x>> \in Range(rest) \/ (call[1] # "press" /\ call[2] = x)
    BY <1>1, <1>2 DEF OneCall
  <1>4. /\ down' = IF call[1] = "press" THEN down \cup {call[2]} ELSE down \ {call[2]}
        /\ tasks' = IF rest = <<>> THEN <<>> ELSE Append(<<>>, [op |-> "calls", calls |-> rest])
        /\ transient' = transient /\ misnamed' = misnamed
    BY DEF CallStep
  <1>. HIDE DEF call, rest
  <1>5. ASSUME NEW x \in down'
        PROVE  \/ Promised(x)' \/ (\E m \in transient' \cup misnamed' : x = Left[m])
               \/ <<"release", x>> \in Range(rest)
    <2>1. CASE x \in down
      BY <1>3, <1>4, <1>5, <2>1
    <2>2. CASE x \notin down
      BY <1>3, <1>4, <1>5, <2>2
    <2>. QED
      BY <2>1, <2>2
  <1>6. CASE rest = <<>>
    <2>1. tasks' = <<>> /\ Range(rest) = {}
      BY <1>4, <1>6, OneTask
    <2>. QED
      BY <1>4, <1>5, <2>1, OwedNone
  <1>7. CASE rest # <<>>
    <2>. DEFINE t == [op |-> "calls", calls |-> rest]
    <2>1. t.op = "calls" /\ t.calls = rest
      OBVIOUS
    <2>2. tasks' = Append(<<>>, t)
      BY <1>4, <1>7
    <2>. HIDE DEF t
    <2>. QED
      BY <1>3, <1>4, <1>5, <2>1, <2>2, OwedOne
  <1>. QED
    BY <1>6, <1>7

\* An event injected while nothing is under way.
LEMMA InjectOwed ==
  ASSUME HostShape, NoStrayModifier, Owed, tasks = <<>>, NEW e \in Event, Inject(e),
         \A x : Promised(x) => Promised(x)' \/ LetsGo(e, x),
         \A m : Freed(m) => \/ Freed(m)'
                            \/ e.t = "k-up" /\ (e.key \in Key \/ ModifierOf(e.key) = m),
         e.t = "k-down" => /\ Promised(e.key)'
                           /\ \A m \in e.mods : Left[m] \in ModKey /\ Freed(m)',
         e.t = "m-down" => Promised(e.button)'
  PROVE  Owed'
  <1>1. /\ \A x \in down : Promised(x) \/ \E m \in transient \cup misnamed : x = Left[m]
        /\ \A m \in transient : Left[m] \in ModKey /\ Freed(m)
    BY OneTask DEF Owed, Undone, Swept
  <1>2. Tables
    BY DEF HostShape
  <1>3. ASSUME e.t # "k-up"
        PROVE  \A m \in transient : Left[m] \in ModKey /\ Freed(m)'
    BY <1>1, <1>3
  <1>4. ASSUME e.t # "k-up", e.t # "m-up"
        PROVE  \A x \in down : Promised(x)' \/ \E m \in transient \cup misnamed : x = Left[m]
    BY <1>1, <1>4 DEF LetsGo
  <1>5. CASE e.t = "k-down" /\ e.key \in ModKey /\ PressModifier(e.key)
    <2>. DEFINE k == e.key
                m == ModifierOf(k)
    <2>1. /\ transient' = transient \ {m}
          /\ down' = IF IsDown(m) THEN down ELSE down \cup {k}
          /\ misnamed' = IF m \in transient /\ k # Left[m] THEN misnamed \cup {m} ELSE misnamed
          /\ tasks' = <<>> /\ Promised(k)'
      BY <1>5 DEF PressModifier
    <2>2. /\ \A x \in down : Promised(x)' \/ \E n \in transient \cup misnamed : x = Left[n]
          /\ \A n \in transient : Left[n] \in ModKey /\ Freed(n)'
      BY <1>3, <1>4, <1>5
    <2>. HIDE DEF m
    <2>3. \A x \in down' : Promised(x)' \/ \E n \in transient' \cup misnamed' : x = Left[n]
      <3>. SUFFICES ASSUME NEW x \in down'
                    PROVE  Promised(x)' \/ \E n \in transient' \cup misnamed' : x = Left[n]
        OBVIOUS
      <3>1. CASE x = k
        BY <2>1, <3>1
      <3>2. CASE x # k
        <4>1. \A n \in transient : n \in transient' \cup misnamed' \/ (n = m /\ k = Left[m])
          BY <2>1
        <4>. QED
          BY <2>1, <2>2, <3>2, <4>1
      <3>. QED
        BY <3>1, <3>2
    <2>. QED
      BY <2>1, <2>2, <2>3, OwedNone
  <1>6. CASE /\ e.t = "k-down" /\ e.key \in Key /\ e.mods \in SUBSET Mod
             /\ PressStep(PressTask(e.key, e.mods), tasks)
    BY <1>3, <1>4, <1>6, PressOwed
  <1>7. CASE e.t = "k-up" /\ e.key \in ModKey /\ ReleaseModifier(e.key)
    <2>. DEFINE k == e.key
                m == ModifierOf(k)
    <2>1. /\ transient' = transient \ {m}
          /\ down' = down \ (IF physical[m] # None THEN {physical[m]}
                             ELSE IF m \in transient THEN {Left[m]} ELSE {})
          /\ tasks' = <<>> /\ misnamed' = misnamed
      BY <1>7 DEF ReleaseModifier
    <2>2. k \in down' => m \in misnamed /\ k = Left[m]
      <3>1. k \in down' => Known(k)
        BY <1>7, <2>1, Strays
      <3>2. ~PastingOf(tasks)
        BY OneTask DEF PastingOf
      <3>3. k # None
        BY <1>7, InputAssumption
      <3>. QED
        BY <1>2, <2>1, <3>1, <3>2, <3>3 DEF Known, Tables
    <2>3. \A n \in transient : n = m => Left[n] \notin down'
      BY <1>2, <2>1 DEF Tables
    <2>4. \A x : LetsGo(e, x) => x = k
      BY <1>7 DEF LetsGo
    <2>5. e.key \notin Key
      BY <1>7, InputAssumption
    <2>6. \A n \in transient' : Left[n] \in ModKey /\ Freed(n)'
      BY <1>1, <2>1, <2>5
    <2>7. \A x \in down' : x \in down
      BY <2>1
    <2>. HIDE DEF k, m
    <2>8. \A x \in down' : Promised(x)' \/ \E n \in transient' \cup misnamed' : x = Left[n]
      BY <1>1, <2>1, <2>2, <2>3, <2>4, <2>7
    <2>. QED
      BY <2>1, <2>6, <2>8, OwedNone
  <1>8. CASE e.t = "k-up" /\ e.key \in Key /\ KeyRelease(e.key, tasks)
    <2>. DEFINE t == [op |-> "look"]
    <2>1. /\ down' = down \ {e.key} /\ transient' = transient /\ misnamed' = misnamed
          /\ tasks' = Append(<<>>, t)
      BY <1>8 DEF KeyRelease
    <2>2. t.op = "look"
      OBVIOUS
    <2>. HIDE DEF t
    <2>3. \A x : LetsGo(e, x) => x = e.key
      BY <1>8 DEF LetsGo
    <2>4. \A x \in down' : Promised(x)' \/ \E m \in transient' \cup misnamed' : x = Left[m]
      BY <1>1, <2>1, <2>3
    <2>. QED
      BY <1>1, <2>1, <2>2, <2>4, OwedOne
  <1>9. CASE e.t = "m-down" /\ e.button \in DomButton /\ Clicked("press", e.button, tasks)
    <2>. DEFINE t == Click("press", e.button)
    <2>1. /\ down' = down /\ transient' = transient /\ misnamed' = misnamed
          /\ tasks' = Append(<<>>, t)
      BY <1>9 DEF Clicked
    <2>2. t.op = "calls" /\ \A b : <<"press", b>> \in Range(t.calls) <=> b = e.button
      BY DEF Click, Range
    <2>. HIDE DEF t
    <2>. QED
      BY <1>3, <1>4, <1>9, <2>1, <2>2, OwedOne
  <1>10. CASE e.t = "m-up" /\ e.button \in DomButton /\ Clicked("release", e.button, tasks)
    <2>. DEFINE t == Click("release", e.button)
    <2>1. /\ down' = down /\ transient' = transient /\ misnamed' = misnamed
          /\ tasks' = Append(<<>>, t)
      BY <1>10 DEF Clicked
    <2>2. /\ t.op = "calls" /\ <<"release", e.button>> \in Range(t.calls)
          /\ \A b : <<"press", b>> \notin Range(t.calls)
      BY DEF Click, Range
    <2>. HIDE DEF t
    <2>3. \A x : LetsGo(e, x) => x = e.button
      BY <1>10 DEF LetsGo
    <2>. QED
      BY <1>1, <1>3, <1>10, <2>1, <2>2, <2>3, OwedOne
  <1>11. CASE e.t = "clipboard" /\ CallStep(Paste, tasks)
    <2>1. \A b \in DomButton : <<"press", b>> \notin Range(Paste)
      BY InputAssumption DEF Paste, Range
    <2>. QED
      BY <1>3, <1>4, <1>11, <2>1, CallOwed
  <1>. QED
    BY <1>5, <1>6, <1>7, <1>8, <1>9, <1>10, <1>11, Injected

\* The only task goes on.
LEMMA ResumeOwed ==
  ASSUME HostShape, Owed, NEW i \in DOMAIN tasks, Resume(i)
  PROVE  Owed'
  <1>. DEFINE task == tasks[i]
  <1>1. tasks \in Seq(Task) /\ Tables
    BY DEF HostShape, Agenda
  <1>2. RemoveAt(tasks, i) = <<>>
    <2>1. Len(tasks) = 1
      <3>1. Len(tasks) \in Nat /\ i \in 1 .. Len(tasks)
        BY <1>1, LenProperties
      <3>2. Len(tasks) <= 1
        BY DEF Owed
      <3>3. \A n \in Nat : n <= 1 /\ i \in 1 .. n => n = 1
        OBVIOUS
      <3>. QED
        BY ONLY <3>1, <3>2, <3>3
    <2>2. RemoveAt(tasks, i) \in Seq(Task) /\ Len(RemoveAt(tasks, i)) = 0
      BY <1>1, <2>1, RemoveAtRange
    <2>. QED
      BY <2>2, EmptySeq
  <1>3. \A t \in Range(tasks) : t = task
    BY <1>2, OthersLeft, OneTask
  <1>4. task \in Range(tasks)
    BY DEF Range
  <1>5. /\ \A x : Promised(x) => Promised(x)'
        /\ \A m : Freed(m) => Freed(m)'
    <2>1. /\ held' = held /\ lost' = lost /\ pressed' = pressed /\ allowed' = allowed
          /\ wire' = wire
      BY DEF Resume, userVars
    <2>2. \A v : Kept(v)' = Kept(v)
      BY <2>1 DEF Kept
    <2>3. \A v, j, x : Told(v, j, x) => Told(v, j, x)'
      BY <2>1 DEF Told, LetsGo
    <2>4. \A v, j, x : Comes(v, j, x) => Comes(v, j, x)'
      BY <2>1, <2>2, <2>3 DEF Comes, NameOf
    <2>5. \A v, j, m : Frees(v, j, m) => Frees(v, j, m)'
      BY <2>1, <2>3, <2>4 DEF Frees
    <2>. QED
      BY <2>4, <2>5 DEF Promised, Freed
  <1>6. \/ \E key \in Key, todo \in SUBSET Mod :
             task = PressTask(key, todo) /\ PressStep(PressTask(key, todo), <<>>)
        \/ task.op = "look" /\ SweepStep(transient, <<>>)
        \/ task.op = "sweep" /\ task.todo \in SUBSET Mod /\ SweepStep(task.todo, <<>>)
        \/ task.op = "calls" /\ task.calls \in Errand /\ CallStep(task.calls, <<>>)
    BY <1>2, Resumed
  <1>7. /\ \A x \in down : \/ Promised(x)' \/ (\E m \in transient \cup misnamed : x = Left[m])
                           \/ task.op = "calls" /\ <<"release", x>> \in Range(task.calls)
        /\ \A m \in transient : /\ Left[m] \in ModKey
                                /\ \/ Freed(m)' \/ task.op = "look"
                                   \/ task.op = "sweep" /\ m \in task.todo
    BY <1>3, <1>5 DEF Owed, Undone, Swept
  <1>8. /\ task.op = "press" => /\ Promised(task.key)
                                /\ \A m \in task.todo : Left[m] \in ModKey /\ Freed(m)
        /\ task.op = "calls" =>
             \A b \in DomButton : <<"press", b>> \in Range(task.calls) => Promised(b)
    BY <1>4 DEF Owed
  <1>. HIDE DEF task
  <1>9. ASSUME NEW key \in Key, NEW todo \in SUBSET Mod,
               task = PressTask(key, todo), PressStep(PressTask(key, todo), <<>>)
        PROVE  Owed'
    <2>1. task.op = "press" /\ task.key = key /\ task.todo = todo
      BY <1>9 DEF PressTask
    <2>2. Promised(key)' /\ \A m \in todo : Left[m] \in ModKey /\ Freed(m)'
      BY <1>5, <1>8, <2>1
    <2>3. /\ \A x \in down : Promised(x)' \/ \E m \in transient \cup misnamed : x = Left[m]
          /\ \A m \in transient : Left[m] \in ModKey /\ Freed(m)'
      BY <1>7, <2>1
    <2>. QED
      BY <1>9, <2>2, <2>3, PressOwed
  <1>10. CASE task.op = "look" /\ SweepStep(transient, <<>>)
    <2>1. PICK todo : todo = transient
      OBVIOUS
    <2>2. /\ \A x \in down : Promised(x)' \/ \E m \in transient \cup misnamed : x = Left[m]
          /\ \A m \in transient : Left[m] \in ModKey /\ (Freed(m)' \/ m \in todo)
          /\ SweepStep(todo, <<>>)
      BY <1>7, <1>10, <2>1
    <2>. QED
      BY <1>1, <2>2, SweepOwed
  <1>11. CASE task.op = "sweep" /\ task.todo \in SUBSET Mod /\ SweepStep(task.todo, <<>>)
    <2>1. PICK todo : todo = task.todo
      OBVIOUS
    <2>2. /\ \A x \in down : Promised(x)' \/ \E m \in transient \cup misnamed : x = Left[m]
          /\ \A m \in transient : Left[m] \in ModKey /\ (Freed(m)' \/ m \in todo)
          /\ SweepStep(todo, <<>>)
      BY <1>7, <1>11, <2>1
    <2>. QED
      BY <1>1, <2>2, SweepOwed
  <1>12. CASE task.op = "calls" /\ task.calls \in Errand /\ CallStep(task.calls, <<>>)
    <2>1. PICK calls \in Errand : calls = task.calls
      BY <1>12
    <2>2. /\ \A x \in down : \/ Promised(x)' \/ (\E m \in transient \cup misnamed : x = Left[m])
                             \/ <<"release", x>> \in Range(calls)
          /\ \A m \in transient : Left[m] \in ModKey /\ Freed(m)'
          /\ \A b \in DomButton : <<"press", b>> \in Range(calls) => Promised(b)'
          /\ CallStep(calls, <<>>)
      BY <1>5, <1>7, <1>8, <1>12, <2>1
    <2>. QED
      BY <2>1, <2>2, CallOwed
  <1>. QED
    BY <1>6, <1>9, <1>10, <1>11, <1>12

-----------------------------------------------------------------------------
(* Nothing stuck *)

StuckInv == Captive /\ FramesInv /\ (~raced => Owed)

LEMMA UserStuck ==
  ASSUME UserShape, StuckInv, UserKeeps, UNCHANGED <<hostVars>>
  PROVE  StuckInv'
  <1>1. UNCHANGED <<tasks, down, transient, misnamed, raced>>
    BY DEF hostVars
  <1>2. Owed => Owed'
    BY <1>1, OwedGrows DEF UserKeeps
  <1>. QED
    BY <1>1, <1>2 DEF StuckInv, UserKeeps

LEMMA DeliverStuck ==
  ASSUME InputShape, NoStrayModifier, StuckInv, NEW v \in Viewer, Deliver(v)
  PROVE  StuckInv'
  <1>1. UserShape /\ HostShape
    BY InputShapeIs
  <1>2. PICK e : e = Head(wire[v])
    OBVIOUS
  <1>3. /\ Captive' /\ FramesInv'
        /\ \A x : Promised(x) => Promised(x)' \/ (v \in allowed /\ LetsGo(e, x))
        /\ \A m : Freed(m) => \/ Freed(m)'
                              \/ /\ v \in allowed /\ e.t = "k-up"
                                 /\ e.key \in Key \/ ModifierOf(e.key) = m
        /\ v \in allowed =>
             /\ e.t = "k-down" => /\ Promised(e.key)'
                                  /\ \A m \in e.mods : Left[m] \in ModKey /\ Freed(m)'
             /\ e.t = "m-down" => Promised(e.button)'
    BY <1>1, <1>2, DeliverKeeps DEF StuckInv
  <1>4. CASE v \in allowed /\ Inject(Head(wire[v])) /\ raced' = (raced \/ tasks # <<>>)
    <2>1. e \in Event /\ Inject(e)
      BY <1>1, <1>2, <1>4, DeliverStep
    <2>2. ASSUME ~raced' PROVE Owed'
      <3>1. Owed /\ tasks = <<>>
        BY <1>4, <2>2 DEF StuckInv
      <3>. QED
        BY <1>1, <1>3, <1>4, <2>1, <3>1, InjectOwed
    <2>. QED
      BY <1>3, <2>2 DEF StuckInv
  <1>5. CASE v \notin allowed /\ UNCHANGED <<hostVars>>
    <2>1. UNCHANGED <<tasks, down, transient, misnamed, raced>>
      BY <1>5 DEF hostVars
    <2>2. Owed => Owed'
      BY <1>3, <1>5, <2>1 DEF Owed, Swept, Undone
    <2>. QED
      BY <1>3, <2>1, <2>2 DEF StuckInv
  <1>. QED
    BY <1>1, <1>4, <1>5, DeliverStep

LEMMA StuckStep ==
  ASSUME InputShape, NoStrayModifier, StuckInv, [InputNext]_inputVars
  PROVE  StuckInv'
  <1>1. UserShape /\ HostShape
    BY InputShapeIs
  <1>2. UserShape'
    BY InputStep
  <1>3. Captive /\ FramesInv
    BY DEF StuckInv
  <1>4. ASSUME NEW v \in Human,
               \/ \E k \in Key \cup ModKey : KeyDown(v, k) \/ KeyUp(v, k)
               \/ \E b \in DomButton, onVideo \in BOOLEAN :
                    MouseDown(v, b, onVideo) \/ MouseUp(v, b, onVideo)
               \/ Detach(v) \/ Attach(v)
        PROVE  StuckInv'
    <2>1. UserKeeps
      BY <1>1, <1>2, <1>3, <1>4, KeyDownKeeps, KeyUpKeeps, MouseDownKeeps, MouseUpKeeps,
         DetachKeeps, AttachKeeps
    <2>2. UNCHANGED <<hostVars>>
      BY <1>1, <1>4, UserSteps
    <2>. QED
      BY <1>1, <2>1, <2>2, UserStuck
  <1>5. ASSUME NEW v \in Agent,
               (\E k \in Key, mods \in AgentMods : PressKeyTool(v, k, mods)) \/ TypeTextTool(v)
        PROVE  StuckInv'
    <2>1. UserKeeps
      BY <1>1, <1>2, <1>3, <1>5, PressKeyToolKeeps, TypeTextToolKeeps
    <2>2. UNCHANGED <<hostVars>>
      BY <1>1, <1>5, AgentSteps
    <2>. QED
      BY <1>1, <2>1, <2>2, UserStuck
  <1>6. ASSUME NEW v \in Viewer, Leave(v) PROVE StuckInv'
    <2>1. UserKeeps
      BY <1>1, <1>2, <1>3, <1>6, LeaveKeeps
    <2>2. UNCHANGED <<hostVars>>
      BY <1>1, <1>6, LeaveStep
    <2>. QED
      BY <1>1, <2>1, <2>2, UserStuck
  <1>7. ASSUME NEW v \in Viewer, Deliver(v) PROVE StuckInv'
    BY <1>7, DeliverStuck
  <1>8. ASSUME NEW i \in DOMAIN tasks, Resume(i) PROVE StuckInv'
    <2>1. Owed => Owed'
      BY <1>1, <1>8, ResumeOwed
    <2>2. UNCHANGED <<userVars, wire, allowed, raced>>
      BY <1>8 DEF Resume
    <2>3. Captive' /\ FramesInv'
      BY <1>3, <2>2 DEF userVars, Captive, FramesInv, Framed, Frees, Comes, Told, Kept, LetsGo, NameOf
    <2>. QED
      BY <2>1, <2>2, <2>3 DEF StuckInv
  <1>9. CASE UNCHANGED inputVars
    <2>1. Captive' /\ FramesInv'
      BY <1>3, <1>9 DEF inputVars, userVars, hostVars, Captive, FramesInv, Framed, Frees, Comes,
                        Told, Kept, LetsGo, NameOf
    <2>2. Owed => Owed'
      BY <1>9 DEF inputVars, userVars, hostVars, Owed, Swept, Undone, Promised, Freed, Frees, Comes,
                  Told, Kept, LetsGo, NameOf
    <2>. QED
      BY <1>9, <2>1, <2>2 DEF StuckInv, inputVars, hostVars
  <1>. QED
    BY <1>4, <1>5, <1>6, <1>7, <1>8, <1>9 DEF InputNext

LEMMA StuckInit == InputInit => StuckInv
  <1>. SUFFICES ASSUME InputInit PROVE StuckInv
    OBVIOUS
  <1>1. Captive
    BY DEF InputInit, Captive
  <1>2. FramesInv
    <2>1. \A v \in Viewer : wire[v] = <<>>
      BY DEF InputInit
    <2>2. \A v \in allowed : DOMAIN wire[v] = {}
      BY <2>1 DEF InputInit
    <2>. QED
      BY <2>2 DEF FramesInv
  <1>3. Owed
    BY OneTask DEF InputInit, Owed
  <1>. QED
    BY <1>1, <1>2, <1>3 DEF StuckInv

LEMMA StuckIsEnough ==
  ASSUME Tables, StuckInv
  PROVE  NothingStuck
  <1>. SUFFICES ASSUME AtRest, ~raced, NEW x \in down PROVE HeldBySomeone(x) \/ Misnamed(x)
    BY DEF NothingStuck
  <1>1. /\ Promised(x) \/ \E m \in transient \cup misnamed : x = Left[m]
        /\ \A m \in transient : Left[m] \in ModKey /\ Freed(m)
    BY OneTask DEF AtRest, StuckInv, Owed, Undone, Swept
  <1>2. \A v \in Viewer : \A y : ~Told(v, 0, y)
    BY DEF AtRest, Told
  <1>3. ASSUME NEW v \in Viewer, NEW y, Comes(v, 0, y)
        PROVE  \E z \in Has(v) : y = NameOf(z)
    BY <1>2, <1>3 DEF Comes, Kept, Has
  <1>4. CASE Promised(x)
    <2>1. PICK v \in Viewer : \E z \in Has(v) : x = NameOf(z)
      BY <1>3, <1>4 DEF Promised
    <2>. QED
      BY <2>1 DEF HeldBySomeone, NameOf
  <1>5. ASSUME NEW m \in transient, x = Left[m] PROVE HeldBySomeone(x)
    <2>1. x \in ModKey /\ ModifierOf(x) = m
      BY <1>1, <1>5, Modifiers DEF Tables
    <2>2. PICK v \in Viewer : Frees(v, 0, m)
      BY <1>1 DEF Freed
    <2>3. ASSUME NEW k \in ModKey, ModifierOf(k) = m, Comes(v, 0, k) PROVE HeldBySomeone(x)
      <3>1. PICK z \in Has(v) : k = NameOf(z)
        BY <1>3, <2>3
      <3>2. k = z
        <4>1. z \in DomButton => NameOf(z) \in DomButton
          BY MappedButton
        <4>2. k \notin DomButton
          BY InputAssumption
        <4>. QED
          BY <3>1, <4>1, <4>2 DEF NameOf
      <3>3. m \in ModsOf(Has(v))
        BY <2>3, <3>1, <3>2 DEF ModsOf
      <3>. QED
        BY <2>1, <3>3 DEF HeldBySomeone
    <2>4. ASSUME NEW k \in Key, k \in lost[v] PROVE HeldBySomeone(x)
      BY <2>1, <2>4 DEF HeldBySomeone
    <2>. QED
      BY <1>2, <2>2, <2>3, <2>4 DEF Frees
  <1>. QED
    BY <1>1, <1>4, <1>5 DEF Misnamed

(***************************************************************************)
(* NothingStuck, for any number of viewers, keys and events, modifiers of  *)
(* both sides among them: what is down when all has been injected one      *)
(* event at a time is held by a viewer, or its release was not sent, or it *)
(* is the left key of a modifier that was promoted under its right one.    *)
(***************************************************************************)
THEOREM NothingLeftDown == InputSpec => []NothingStuck
  <1>. DEFINE Inv == InputShape /\ NoStrayModifier /\ StuckInv
  <1>1. InputInit => Inv
    BY ShapeInit, StuckInit
  <1>2. Inv /\ [InputNext]_inputVars => Inv'
    BY ShapeStep, StuckStep
  <1>3. Inv => NothingStuck
    BY ShapeParts, StuckIsEnough DEF HostShape
  <1>. HIDE DEF Inv
  <1>. QED
    BY <1>1, <1>2, <1>3, PTL DEF InputSpec

=============================================================================
