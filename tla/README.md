# StreamScreen: specifications and proofs

TLA+ modules for the remote-desktop system in this repository: a LAN signaling
server, a host that shares its screen, a viewer that sees and drives it, an AI
session that does the same for agents, and the file transfer and access control
between them. Each module is a translation of the code in `packages/*/src`; TLC
checks it on small instances and TLAPS proves some of its properties for every
value of the constants. Paths below are relative to the repository.

## 1. The system

| Component | Code | State it keeps | Operations |
|---|---|---|---|
| Signaling server | `signaling/src/server.ts` | rooms by code, one host and its viewers each; per connection the joined peer, the heartbeat flag, the join deadline; failed joins per address | accept, join, relay, leave, socket error, heartbeat tick, join timeout, `close()` |
| LAN discovery | `signaling/src/discovery.ts`, `index.ts` | published service per code | publish, unpublish, re-sync on `sessions-changed`, browse |
| Signaling client | `core/src/signaling-client.ts` | socket, reconnect timer, last join, outbox, frames held for handlers that do not exist yet | `connect`, `join`, `send`, `on`/`off`, `close` |
| Peer | `core/src/peer.ts` | a connection per remote id, its channels and senders, the stream to replay | negotiation, attach/replace track, control, input and file frames, statistics |
| File transfer | `core/src/file-transfer.ts` | sender: phase, next chunk; receiver: chunks by transfer id | offer, accept, drain, chunk, complete, abort |
| Host session | `host/src/host-session.ts` | capture stream, peer, viewers, authorized viewers, outstanding challenges, adaptive loop | `start`, `stop`, auth frames, monitor switch, file and input routing, `tick` |
| Access control | `host/src/consent-manager.ts`, `auth-verifier.ts`, `lockout-tracker.ts`, `access-config.ts` | pending consents, always-allow list, failures and lockouts per address | request, accept, reject, expire; verify; record |
| Host shell | `host/src/renderer/renderer.ts`, `main.ts` | the live session, the active display, the injector | start session, change source, unload, inject, save |
| Input injector | `host/src/input-injector.ts` | modifiers held for a modifier key, modifiers held for another key | inject, paste, combo |
| Viewer session | `viewer/src/viewer-session.ts` | UI state, client, peer, timers, gate flags | `connect`, rebuild, answer a challenge, `disconnect` |
| Viewer UI | `viewer/src/App.tsx`, `input-capture.ts`, components | pressed buttons, panels | capture input, record, render |
| AI session | `ai/src/session.ts`, `tools.ts`, `mcp-server.ts`, `rest-api.ts` | client, peer, latest frame, waiters for a monitor list | connect, disconnect, screenshot, list monitors, input tools |
| Adaptive controller | `core/src/adaptive.ts` | current bitrate | `update` |

**How they interact.** Host, viewer and AI session hold one WebSocket each to the
server and exchange `join`/`joined`/`error`, `peer-joined`/`peer-left`, `offer`,
`answer` and `ice` frames through it. Once a peer connection is up, three ordered
data channels (`input`, `control`, `file`) and the media run between host and
viewer without the server. Inside a process everything is callbacks and promises
on one event loop; the host's renderer and main process exchange IPC messages.

**What is hard.** No code runs in parallel within a process, so what interleaves
are tasks: socket events, timers, frames, and the continuations after each
`await`. The hard parts are (a) state that is read before an await and used after
it: key derivation, consent, capture, `replaceTrack`, a join acknowledgement; (b)
connections that end without a word and are found dead by a timer; (c) frames on
two channels that are not ordered against each other; (d) retries racing with the
answer, the teardown or a second attempt; (e) limits (viewer cap, join throttle,
outbox cap, high-water mark, lockout threshold). Every such point is listed with
its line under `hazards` in `PROJECT.json`.

**What makes each component correct.**

- Server: a room has one host and a bounded number of viewers; what clients were
  told about the members, what is listed and what is advertised agree with the
  rooms; a dead peer is taken out; an idle connection ends; the signals of a
  connected sender stay in its room.
- Client: one socket or one timer, the join first, no frame twice or out of
  order, nothing after `close()`, back in the room after an outage.
- Access: only who passed the configured gate sees the screen or drives the
  input; both ends agree about it; failures survive reconnects; everyone who
  waits gets a verdict.
- Capture: whoever is connected gets a live track of the source that is active.
- Viewer: a teardown is total, a lost path is being recovered, a gated session
  is not shown as connected.
- File transfer: what is saved is what was sent, memory is bounded, an accepted
  transfer ends.
- AI session: one connection at a time, nothing an agent is handed is left over
  from another host, calls end.
- Input: what is held down is what a viewer holds down; no modifier is down that
  the injector does not know of.
- Adaptive stream: encoders never run above the controller, the viewer that is worst
  off governs, and the stream ends at what the links carry.
- Host life cycle: a listed room has a screen, whatever runs can be stopped, a
  live host gets its room back after an outage.

## 2. Plan

Modules in the order they are written.

| # | Module | Composes / abstracts | State |
|---|---|---|---|
| 1 | `SignalingServer` | implements `SessionDirectory` | checked; all its safety and the refinement proved |
| 2 | `HostAccess` | host gate, viewer gate, control channel | checked; types, access, failures, agreement of the ends proved |
| 3 | `ViewerSession` | client, server, host as seen from one viewer | checked; types, teardown, gate proved |
| 4 | `FileTransfer` | both ends and two channels | checked; intact files, bounded buffers proved |
| 5 | `SignalingClient` | client and wire | checked; all its safety proved |
| 6 | `HostCapture` | HostSession and the senders of Peer | checked and proved under 13 |
| 7 | `AiSession` | RemoteDesktopSession over client and peer | checked; its safety proved, overlapping calls included |
| 8 | `RemoteInput` | InputCapture, input channel, InputInjector | checked; all its safety proved |
| 9 | `HostLifecycle` | SessionController, start()/stop(), client, room of the code | checked; types, screen, no orphan proved |
| 10 | `AdaptiveLoop` | AdaptiveController, HostSession.tick(), statistics and encodings of Peer, the viewers' reports | checked; invariant and reaction to the worst viewer proved |
| 11 | `PeerNegotiation` | two Peers and the frames between them: offers, answers, candidates, the queue | checked under 12; no glare and no lost candidate proved there |
| 12 | `ViewerConnection` | `ViewerSession` over `PeerNegotiation` | checked; implements `ViewerSession`, no glare and no lost candidate proved |
| 13 | `HostDisplay` | `HostCapture` with the main process and the injector's geometry | checked; all its safety proved |

Abstract specifications: `SessionDirectory` (what the server promises to those
who list and join sessions). Planned: a reliable copy for `FileTransfer`.
`ViewerSession` is the abstract specification of `ViewerConnection`. Every safety
property of the runs that pass is a theorem (section 5).

## 3. Modules and code

Every definition that models code is listed with its file and lines under `map`
in `PROJECT.json`. All code runs on event loops, so an action is one task: a
handler up to its first `await`, or a continuation with the microtasks it runs.
Where several promises resolve in one task, the action contains all of them.

**SessionDirectory.** Codes, each with at most one host and a bounded number of
viewers; a session opens with its host, viewers enter and leave, a session ends
as a whole. It is what the server lets its clients rely on.

**SignalingServer** (`signaling/src/server.ts`, discovery sync from `index.ts` and
`discovery.ts`). `sock`, `peer`, `alive`, `joinTimer` are the closures and Peer
objects of `onConnection()`; `rooms` and `members` the room map; `failures` the
join throttle; `advertised` what discovery publishes. `Accept`, `HostJoin`,
`ViewerJoin`, `ViewerJoinFails`, `RelayTo`, `Broadcast`, `Pong`, `SocketClosed`,
`SocketError`, `Heartbeat`, `JoinTimeout`, `WindowExpires` and `Shutdown` are its
handlers and timers. `roster` (what a client was told of its room) and `relayed`
(what the last step relayed) are observations. `Crash` is an end that vanishes.
A socket that is closing still delivers frames, as `ws` does.

**HostAccess** (`host/src/host-session.ts`, `consent-manager.ts`,
`auth-verifier.ts`, `lockout-tracker.ts`; the viewer's end from
`viewer/src/viewer-session.ts`). `pending`, `attempts`, `fails`/`locked`, `consent`,
`always`, `authorized`, `media` are pendingChallenges, the running derivations, the
lockout record, the open requests, the always-allow list, authorizedViewers and
the connections with tracks. A derivation is cut in two: `ReceiveResponse` reads
the nonce and starts it, `VerifyDone` does everything after it. `proved` and
`approved` record what really happened. A proof is right, wrong or malformed.

**ViewerSession** (`viewer/src/viewer-session.ts`). One session from `connect()` to
teardown: `attempt` is what the async call awaits, `client` and `peer` what it
holds, the two timers, the gate flags, `screen` the stream. Server, host and path
are reduced to what the session can notice of them.

**PeerNegotiation** (`core/src/peer.ts`). One connection at the host and one at the
viewer, `pc`, with the fields of `RemoteConnection` and what the RTCPeerConnection
keeps; `chain` holds the operations that were called and have not resolved, each with
what the code does next, so that `handleDescription()` is cut at each of its awaits.
A description is its type, what it carries and the connection of the host it belongs
to, the present one or an earlier one; a candidate is that connection. `wire` is what
the server relays, `outbox` what the viewer's client keeps while it has no socket.

**ViewerConnection**. Every step of `ViewerSession` together with what it does to
`pc`, `wire` and `outbox` (`Follow`): `peer-joined` makes the host's connection,
`peer-left` closes it, a rebuild closes the viewer's, a socket that drops loses what is
on its way and keeps the outbox. What `ViewerSession` leaves to chance is done by the
Peers: `Offer` happens when the viewer's answer is made (`ViewerAnswers`) or the offer
is rejected, a path needs two ends that applied each other's descriptions (`Paired`),
and a track an exchange that carried it.

**FileTransfer** (`core/src/file-transfer.ts`, `Peer.drainFile()`). A sender's phases
between its awaits; a `control` and a `file` queue per receiver; the receivers'
router and slots. A chunk is its place and its owner, so mixing is visible.

**SignalingClient** (`core/src/signaling-client.ts`). `ws`, `timer`, `lastJoin`,
`outbox`, `pending` are its fields; sockets are slots, `wire` what was written to
each; frames are numbers, so order, loss and repetition are visible.

**HostCapture** (`HostSession.switchMonitor()`, `Peer.replaceVideoTrack()`,
`attachStream()`). Tracks are named by the switch that captured them; a switch
visits the senders one after the other, each `replaceTrack()` an await; viewers
join, are authorized and leave in between. `Pick` are the switches of the operator.

**HostDisplay** (`host/src/main.ts`, `input-injector.ts`, `monitor.ts`,
`renderer.ts`). Each action of `HostCapture` that ends a switch also sends its
`ss:set-active-display`, and one more for the operator's. `lookups` counts, per
source, the handlers that still wait for the list of screens; `geometry` is the
injector's. The arithmetic is on integers, in hundredths of a pixel. `raced` is
history: the order of two lookups is the browser's, so the property is stated for
those that did not overlap since the last rest.

**AiSession** (`ai/src/session.ts`). One `connect()` per element of `Call`, cut at the
runtime, the socket and the acknowledgement; `session` is the call whose client
and Peer the session refers to; a frame, a list, an ICE list are named by the
connection or server they came from, so that a leftover is visible. The code has no
lock, so calls overlap. `crossed` is history: the calls that were pending together with
another one, whose Peers the code may lose.

**RemoteInput** (`viewer/src/input-capture.ts`, `ai/src/tools.ts`,
`host/src/input-injector.ts`, `main.ts`). `pressed`, `physical`, `transient` are the
fields; `tasks` are the injections under way, cut at each native call; `down` is the
host's keyboard and mouse. `lost` records what was let go of without a message. The
modifiers of a chord go down in the order of `logicalModifiers()` (`Rank`); a sweep
visits its own in any order, in place of the order in which they were pressed.
`misnamed` is history: the modifiers that were recorded under the one key while it was
the other that went down, which is what `pressModifier()` does when a chord holds the
left key and the viewer presses the right one.

**HostLifecycle** (`host/src/renderer/renderer.ts`, `HostSession.start()`, `stop()`).
One element of `Session` per `startSession()`; `phase` is what its start awaits;
`holder`/`fresh` is the room of the code as the server sees it, including a
connection that ended and was not noticed yet (`HangUp`, `ServerReaps`).

**AdaptiveLoop** (`core/src/adaptive.ts`, the loop of `host/src/host-session.ts`,
`getStats()` and `applyDecision()` of `core/src/peer.ts`, `pollStats()` of the viewer).
`current` and `count` are the controller's bitrate and consecutiveIncreases, `report`
is viewerLatency, `sender` what applyDecision() finds of a viewer. A tick is cut at
`await getStats()`: `TickStarts` samples the paths of all connections, admitted or
not, `Decides` folds in the reports, the preset and the senders of later. A bitrate
is a level, one increase of 8% each; a back-off takes any number of levels in
`Backoff`, in place of the severity the code computes. `enc` is what an encoder was
given, `synced` the viewers that took the last decision. A denial that follows an
admission (`Deny`) keeps the sender and its encoder and shuts the viewer's reports and
preset choices out (`denied`): its last latency report stays in the map and in every
tick until the viewer leaves or is admitted again.

## 4. Runs

| Run | Instance | States | Shows |
|---|---|---|---|
| `server_safety` | 3 sockets, 2 codes (1 advertisable), 1 address, cap 1, 2 failures, symmetry of the sockets | 154,912 | `OneHostPerRoom`, `ToldTheTruth`, `FailureBudget`, `ConnectedRelayStaysInRoom`; implements `SessionDirectory` |
| `server_liveness` | 2 sockets that may vanish, 1 code, 1 failure | 4,592 | `VanishedPeersAreReaped`, `NoParkedSocket` |
| `host_access` | 2 viewers of one address, threshold 2, 3 responses each, one may answer twice; 4 modes | 409,016 | `AccessEarned`, `EndsAgree`, `FailuresSurviveReconnect`, `VerdictComes` |
| `file_transfer` | 2 transfers, 2 receivers, 3 chunks, marks 2 and 1 | 33,331 | `TransferInv` (what is saved is whole), `BufferBounded`, `AcceptedIsSent` |
| `signaling_client` | 2 socket slots, 2 frame types, cap 2, 3 sends, 4 arrivals | 87,633 | `ClientInv` (one connection), `WrittenOnceInOrder`, `HeardFresh`, `SilentAfterClose`, `Rejoins` |
| `viewer_session` | `ViewerConnection`: 2 control frames in flight, candidates of both ends | 179,773 | `ClosedHoldsNothing`, `GateHolds`, `NoGlare`, `CandidatesKept`, `RecoveryEnds`, `GrantShowsScreen` |
| `host_display` | 3 viewers, 3 switches (2 of the operator), a screen at 150% beside the primary one, a window; symmetry of the viewers and of the operator's switches | 618,068 | `CaptureInv` (newcomers get the chosen source, in `open` mode nobody a stopped track), `ViewersAgree`, `PointerLandsOnScreen` |
| `ai_session` | 2 connects, 2 monitor requests, 2 endpoints, 1 code | 631,930 | `AiInv` (one Peer, one socket), `NothingStale`, `CallsEnd` |
| `remote_input` | 1 human, 1 agent, 1 key, both Shifts and a Ctrl, 2 buttons, 4 acts | 3,652,272 | `InputInv` (no stray modifier), `NothingStuck`, `HeldUntilOwnUp` |
| `host_lifecycle` | 3 starts, another host with the code | 10,282 | `AdvertisedHasScreen`, `NothingOrphaned`, `HostComesBack` |
| `adaptive_loop` | 2 viewers, 1 waiting tick, 2 presets, 2 kinds of link, 3 levels, confirmation after 2, back-offs of 1 and 2 levels | 311,781 | `LoopInv` (reports of the connected, encoders that keep up), `WorstViewerGoverns`, `FollowsTheLinks` |
| `file_transfer_complete` | as `file_transfer` | | refutes `CompletedIsSaved` |

The `...Inv` invariants are `TypeOK` and the properties named in the table. `TypeOK` of
the server, of access, of the viewer session and of the host life cycle is proved and
has no run of its own.

**Why the bounds are enough.** Server: a host, a viewer and one that is refused
by the cap, in the room or in a second one; the third socket is also the next host
of a code whose first session ended; two failures are the least that tells `<` from
`<=`. Access: two viewers share the lockout record, and three responses are one
more than the threshold. Files: three chunks exceed the high-water mark, so both
transfers wait for the buffer at the same time. Client: a third slot would only be
used if the client owned two sockets, which `ClientInv` excludes; four arrivals
overflow the buffer of one type while the other holds frames. Viewer: the host
sends at most a verdict and a challenge before it is answered; one candidate per end
and connection (`Trickling`) may be sent before, during and after every step of the
exchange it belongs to, and goes into the queue or past it. One assumption keeps
the state space finite (`Quiet`): what the viewer's connection has begun for a host
connection that is gone ends before the client is back in the room, which takes a
reconnect delay of at least 250 ms. Capture: three
switches give an order of captures different from the order of requests, and
viewers before, in and behind a loop's position; a screen and a window are a source
with a display and one without, and a scaled width of seven and a half pixels has
the fractions that rounding must get right. AI: two calls overlap or follow each other,
to one server or two, and a request may be answered by the reply another waits for; the
proof covers any number. Input: four acts hold a modifier of a human across a chord of
an agent, or two chords of one, and with both Shifts a chord's left one is promoted by
the right one. Host life
cycle: the third start follows two that overlapped. Adaptive loop: two viewers tell the
worst from the rest, of a sample and of the reports; two clean ticks commit an increase
(four in the code), so one is held back, at each of two levels, and something else may
come between. A back-off of one level goes down in steps, one of two to the floor at
once. A tick that began with nobody connected decides a HOLD for those who came
meanwhile. Ticks under way only add further calls of `Decides`, which is one step; the
proof covers any number, and any count of ticks.

**Deadlock** is not checked where the system may stop: after `Shutdown`, `Stop`,
`Unload` or teardown, or when the bounded sends, acts and calls are used up. The
`ai_session` run alone checks it, since `listHosts` is always possible.

**Fairness.** Weak fairness stands for what the runtime does by itself: timers fire
(`setInterval` of the heartbeat, join deadline, backoff, grace timer, consent and
acknowledgement timeouts), promises that resolved run, an open ordered channel
delivers, a closing handshake ends (ws closes after 30 s). Strong fairness is used
only for the network, which is not always usable but again and again: a socket of
a client that keeps trying opens, an offer and a track arrive, a join is answered,
a join reaches a code that is free, and statistics are answered, which may also fail.
Viewers poll and senders are negotiated (weak). `FollowsTheLinks` speaks of runs in
which viewers settle down and the paths stay good or bad. In `ViewerConnection` an
exchange takes many steps, any of which an outage may cut; its liveness is stated for
networks that hold in the end, however long they did not (`Disturbance`: the socket
leaves its room, the host leaves, ICE gives up while the ends still have frames to
exchange), with a path that comes up again and again. Users are never fair: nobody
has to type a PIN, accept, retry or leave. `NoParkedSocket` and `HostComesBack` need a join deadline
(`joinTimeoutMs` > 0, the default).

## 5. Proofs

TLAPS checks these for every value of the constants; each holds of `Spec`, without
fairness. They rest on the named assumptions of the modules only
(`ServerAssumption`, `AccessAssumption`, `SessionAssumption`, `TricklingAssumption`,
`ClientAssumption`, `TransferAssumption`, `AiAssumption`, `LifecycleAssumption`,
`LoopAssumption`, `CaptureAssumption`, `DisplayAssumption`, `InputAssumption`), which
TLC evaluates in the runs. The strengthened invariants below were checked by TLC on
the instances of the runs before they were proved.

- `SignalingServerProofs`: `ServerTypeCorrect`, `ServerOneHostPerRoom`,
  `ServerFailureBudget`, `ServerToldTheTruth`, `ServerRelayStaysInRoom`,
  `ServerImplementsDirectory`. `OneHostPerRoom` is inductive with `TypeOK` and
  `MembersAgree`: a peer's role and room are written by the join that adds it to the
  members, and leaving removes it from both. What clients were told follows from the
  same agreement: a notice goes to the rest of the room in the step that changes it.
  The budget needs the window: a join that fails is looked up only below the limit.
  For the refinement each step that changes members is shown to be a step of
  `SessionDirectory` (open, enter, leave, end), and all others a stutter.
- `HostAccessProofs`: `AccessTypeCorrect`, `AccessIsEarned`, `AccessFailuresKept`,
  `AccessEndsAgree`. `AccessEarned` alone is not inductive: a consent request that is
  open grants when it is accepted, and an always-allow entry grants with no request.
  `AccessInv` adds that open requests in `pin-and-prompt` mode belong to viewers with
  a proof (`RequestsEarned`), that whoever is always allowed was approved once, and
  that derivations run in the PIN modes only. Most steps grant nothing, which is one
  lemma (`NothingGranted`); three grant. `EndsAgree` rests on `TurnInv`: between the
  ends there is one turn, a challenge on its way, an answer on its way, a derivation, an
  open request or a verdict on its way, and never two, so the last verdict a viewer
  sees is the host's. A viewer that answers a challenge twice (`Repeater`) has two
  derivations, and the theorem leaves it out, as the property does.
- `SignalingClientProofs`: `ClientOneConnection`, `ClientSilentAfterClose`,
  `ClientWrittenOnceInOrder`, `ClientHeardFresh`. `OneConnection` says nothing after
  `close()`, so `ConnectionInv` adds that a closed client has no living socket. The
  order of frames needs to know where frames may be: all written ones are older than
  those in the outbox, and the outbox is empty while a socket is open.
- `FileTransferProofs`: `TransferSavedIntact`, `TransferBufferBounded`. A slot holds
  chunks of its own transfer only (`SlotsOwn`), whatever shares the channel. The bound
  is by counting: the chunks in a buffer and the transfers that were let through and
  have not sent yet (`LetThrough`) are together at most the high-water mark and one
  less than the transfers (`BudgetInv`); a wake-up lets through all who wait, when the
  buffer is at the low mark.
- `ViewerConnectionProofs`: `SessionTypeCorrect`, `SessionTeardownIsTotal`,
  `SessionDropIsTimed`, `SessionGateHolds`, from one invariant that adds to these that
  a session that has not connected holds nothing and that a `disconnected`
  connection has its grace timer. `ConnectionImplementsSession`: `ViewerConnection` is
  `ViewerSession` with more beneath it. Each step of the composition names the step of
  the session it is, so the proof is one lemma per kind of step; the invariants of the
  session follow (`ConnectionTeardownIsTotal`, `ConnectionGateHolds`).
  `ConnectionNoGlare` has an invariant of its own, `NegotiationInv`: an offer and its
  answer are one token (`OneToken`), at the host from `negotiate()` until the offer is
  sent and again once the answer is in its chain, on one of the two wires, or at the
  viewer until its answer is sent. The host makes no other while one is out
  (`HostWaits`), which needs that answers to its earlier connections come before the
  answer to the present one (`InOrder`), and, for the stream of a late grant, that a
  channel which may grant is open only after an answer (`HostKeeps`, `LinkOK`). What a
  step does to connections and queues is a lemma per function of `Peer`; most leave the
  token alone (`Aside`).
  `ConnectionCandidatesKept` adds `Candidates` to it, which says of each end where the
  candidate of the other is once that has sent it (`Reaches`): if the description it
  belongs to is set, applied, on the wire or in the chain; if that is on the wire or in
  the chain, behind it (`Behind`), or in the queue its `drain()` will empty. For that a
  description is never set twice without its candidates: the host offers again only
  with an answer in hand (`OffersAgain`), has one only of a viewer that took its offer
  (`Taken`), and a viewer whose answer is not there yet is asked for no other
  (`AnswersOnce`). It also needs of the session that a client in its room has a Peer
  (`PeerHeld`), or the viewer's connection would go while the host's stays.
  TLC checked both invariants on the instance of `viewer_session`.
- `HostSessionProofs`, the life of a session: `LifecycleTypeCorrect`,
  `LifecycleRoomHasScreen`, `LifecycleNothingOrphaned`. The invariant adds `Equipped`
  (a client that is not closed never goes without its capture) and `Serial` (without
  overlaps one start at a time, begun with no current session), which is what
  `NothingOrphaned` needs: the catch clause drops a reference, and `Serial` says whose.
- `HostSessionProofs`, its adaptive loop: `LoopCorrect`, `LoopWorstViewerGoverns`.
  `LoopInv` is inductive as it stands. The case that matters is a decision
  (`DecisionKeeps`): an increase that is held back raises the controller by at most a
  level and the count by one, any other decision closes the gap. The lemma
  `LevelsInRange` needs that the controller is within its preset. For the worst
  viewer: connected viewers are finitely many (`FewConnected`), so the worst report
  exists and the sample is no better; such a sample decides `DECREASE`, which the gate
  never holds back.
- `HostDisplayProofs`: `DisplayCaptureCorrect`, `DisplayViewersAgree`,
  `DisplayPointerLands`. What newcomers get and what viewers have is not enough: it
  must be said what the loops under way have done and will do. `SessionInv` adds, of an
  open session, that a viewer has one sender (`OneSender`); that a loop has replaced
  the track of every viewer before the one it waits at, so that none of these has a
  track the loop will stop (`Passed`); and that loops follow each other from viewer to
  viewer without overtaking: a viewer has the track of the last switch that waits at
  the next viewer where one waits, or else what the stream holds (`Pipeline`). Joins,
  departures, denials and the end of a switch that was cut short go through the middle
  of this. For the pointer, lookups that do not overlap end with the active source's
  geometry (`LookupsCurrent`), and the rest is arithmetic: scaling, rounding and
  clamping a grid point stays within the display, for any extent, scale, place and grid
  (`DisplayAssumption`: displays are at least a pixel wide and high, the primary one is
  at the origin).
- `RemoteControlProofs`, the agents' session: `ConnectsOwnOnePeer`,
  `ConnectsHandOutFresh`, of calls that overlap in any way. What overlapping calls do to
  each other is named in the properties by the history variable `crossed`: a Peer of a
  call that was pending alone is the session's or is closed, and so are the captures,
  the lists and the ICE servers that go with it. For that the invariant says of a call
  that is pending outside `crossed` that it is the only one and that no session has been
  made since it disconnected from the last. Without the exception TLC refutes both
  properties (section 6).
- `RemoteControlProofs`, keyboard and mouse: `ModifierHeldUntilOwnUp`,
  `ModifiersKnown`, `NothingLeftDown`, of modifiers with any keys on either side. The
  first rests on `InputShape`: a modifier is physical or transient, never both, the key
  recorded for it is one of its own, and what is left of a paste or a click is one of
  five kinds of list (`Errand`). Every delivery and every return of a native call runs
  one of seven segments, and each segment has its lemma. The code releases a promoted
  modifier by the key that it recorded, which may be the right one while the left is
  down; the history variable `misnamed` names the modifiers to which that has happened,
  and the other two theorems except their left keys and nothing else (section 6).
  `NothingStuck` speaks of the end only; `StuckInv` says why all will be well before: of
  what a viewer's event presses, something the viewer holds, has lost or has sent behind
  that event lets go (`FramesInv`), so what is down is promised, transient or about to
  be undone (`Owed`), while no event meets an injection under way. User steps only add
  to what is promised (`Grows`); a delivery takes off what its event lets go of.

Model-checked only is everything temporal (`VanishedPeersAreReaped`, `NoParkedSocket`,
`VerdictComes`, `AcceptedIsSent`, `Rejoins`, `RecoveryEnds`, `GrantShowsScreen`,
`CallsEnd`, `HostComesBack`, `FollowsTheLinks`): fairness and `ENABLED` are outside the
prover. Every safety property of the passing runs is proved.

## 6. What the checks found

One run refutes what the repository says of itself (`findings`):

- `file_transfer_complete`: `file-complete` travels on the control channel and may
  overtake the last chunks on the file channel; the receiver drops the transfer and
  the sender reports success.

Further observations, each a hazard of the list and visible by asking TLC for the
stronger formula:

- `RemoteDesktopSession` "owns a single viewer-side Peer connection" (`session.ts:3`),
  but `connect()` looks for a session to disconnect from before its first `await` only.
  Two calls that overlap both build a Peer, and the later assignment (`session.ts:607`)
  drops the earlier one, which stays open: `peers \subseteq {session}` fails in
  `ai_session`.
- `physicalMods` maps a modifier to the key "we actually pressed"
  (`input-injector.ts:392`). A Ctrl, Alt, Shift or Meta that a chord has pressed on the
  left and a viewer then presses on the right is recorded on the right and not pressed
  (`input-injector.ts:682`); its key-up leaves the left one down. In `remote_input`
  `physical[m] # None => physical[m] \in down` fails, and `NothingStuck` without
  `Misnamed`.
- `SessionController` "owns the single live HostSession" (`renderer.ts:46`). A source
  picked while the first start is under way begins a second one, whose failure clears
  the reference to the first (`renderer.ts:195`), which may be live by then: neither
  `changeSource()` nor `stop()` reaches it any more. `phase[j] = "live" => j =
  currentSession` fails in `host_lifecycle`.
- The gate holds increases back, but the controller has made them: a HOLD after one to
  three clean ticks, even a mild back-off after three, raises the encoder, although
  `host-session.ts:85` says that a single clean blip never bumps the bitrate.
  `EncodersKeepUp` bounds the step by the increases counted. `applyQualityPreset()`
  starts a new controller and keeps the count, and choosing the same preset again
  starts the ramp over.
- A viewer that is denied after an admission (`Deny`), or vanished and is not reaped yet,
  keeps its last latency report, and with it the stream where it is: a bad report of
  one that is shut out keeps everybody at the floor. `FollowsTheLinks` counts what
  denied viewers reported last among what the stream has to follow (`Pristine`).
- After an outage the client discards the frames of the old exchange that came in
  (`signaling-client.ts:154`) but sends the viewer's own answer and candidates after
  its join (`send()`, the flush of `onopen`). The host's new connection may take the
  stale answer; the real one is then rejected without a trace and the viewer
  rebuilds. `CandidatesKept` fails if such a pair of ends counts as connected.
- The rollback of `handleDescription()` needs a viewer connection that is still busy
  with an old offer when the next one comes. A viewer's `restartIce()` would make an
  offer of its own, against its comment (`peer.ts:739`).
- `onPeerState()` does not ask which connection changed: the failure of one left over
  from an earlier host rebuilds a session that works.
- When the host's own socket is out, the server ends its room and the viewers come
  back under new ids; the host never hears `peer-left` of the old ones and keeps their
  connections, latency reports and authorizations until `stop()`.
- Two switches that overlap on a viewer's sender remove the same old track; the track
  of the first is in no stream afterwards and never stopped, not by `stop()` either. A
  switch that is still capturing when its session stops keeps its capture as well.
- In a protected mode a viewer authorized during `replaceVideoTrack()` is attached to
  a track that is then stopped (`NobodyIsFrozen` in `host_display`).
- Two `ss:set-active-display` messages in quick succession look their sources up side
  by side; when the earlier answer comes last the pointer goes to the display that is
  no longer shared, until the next switch (`PointerLandsOnScreen` without `~raced`).
- A display whose size is not a multiple of its scale may be given bounds that round up
  (2560 pixels at 150% as 1707): the far edge of the pointer's range is then
  the first pixel beyond it. `OnDisplay` measures by the bounds the code has.
- While a window is shared its points are scaled to the whole primary display.
- `RemoteDesktopSession.connect()` awaits its socket before the `try` that tears
  down; when that fails, its client goes on reconnecting (`SocketFails` in
  `AiSession`, the exception in `OneClient`).
- `rebuildPeer()` reports `error` for an attempt that teardown cancelled.
- `denyViewer()` takes the authorization back and leaves attached tracks; `relay()`
  uses the room of a sender whose socket is still closing. The properties are stated
  for what the code does hold: `EndsAgree` for a viewer that answers each challenge
  once, `ConnectedRelayStaysInRoom` for connected senders.

## 7. Not modelled

- REST endpoints, static files, MCP and REST entry points, OCR, React components,
  recorder, tray and window code: transport or presentation without protocol state.
- Wire formats, ICE configuration, PBKDF2/HMAC, PIN strength, the list of monitors: pure
  functions of one frame or value.
- In the negotiation: the rollback of a polite peer, which `NoGlare` shows is not
  reached, and `restartIce()`, which no package calls.
- In the adaptive loop: frame rate and resolution scale, functions of the bitrate.
- Within modelled parts: browsing other servers; `open` mode in `HostAccess` (it has
  no gate); progress, reject and error frames of file transfers (the first move
  progress bars, nothing sends the others); a viewer's invalid code, second
  `connect()`, chat, clipboard and statistics; the backoff delays; audio tracks; the
  release of frame sinks in the AI session, and a native sink whose module is loaded only
  after its session is gone (`tryNativeSink()`); the wheel, special-key chords, and native
  input calls that reject, after which the injector drops the rest of the event; displays that are
  plugged in or out, and lookups that fail.
