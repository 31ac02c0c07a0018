------------------------------ MODULE HostAccess ------------------------------
(***************************************************************************)
(* The host's access gate: who may see the screen and drive the input.     *)
(* Host side: HostSession (packages/host/src/host-session.ts) with its     *)
(* ConsentManager, AuthVerifier and LockoutTracker.  Viewer side: the gate *)
(* of ViewerSession (packages/viewer/src/viewer-session.ts).  Between them *)
(* the control data channel, ordered and reliable while both are up.       *)
(*                                                                         *)
(* Host code runs on one event loop and gives it up in two places only:    *)
(* the key derivation of AuthVerifier.verify() and the wait for a human in *)
(* ConsentManager.request().  Every continuation after them runs in the    *)
(* microtasks of the step that resolved them, so it belongs to that step.  *)
(***************************************************************************)
EXTENDS Integers, Sequences, FiniteSets

CONSTANTS Viewer,      \* viewer ids; signaling mints a fresh one per join
          Addr,        \* lockout keys (source addresses)
          AddrOf,      \* viewer id -> the address its join came from
          Modes,       \* access modes the operator may have configured
          Threshold,   \* LockoutTracker.threshold
          MaxTries,    \* bound: auth-responses one viewer id sends
          Repeater     \* viewer ids whose client may answer a challenge twice

PinModes    == {"pin", "pin-and-prompt"}
PromptModes == {"prompt", "pin-and-prompt"}

ASSUME AccessAssumption ==
  /\ AddrOf \in [Viewer -> Addr]
  /\ Modes \subseteq PinModes \cup PromptModes \cup {"refuse"}
  /\ Threshold \in Nat \ {0}
  /\ MaxTries \in Nat
  /\ Repeater \subseteq Viewer

VARIABLES
  mode,        \* accessMode, fixed for the session
  up,          \* the session runs: this.peer is not null
  conn,        \* "new" | "joined" (signaling) | "open" (control) | "left"
  issued,      \* how many challenge nonces the viewer was sent
  pending,     \* pendingChallenges: the nonce outstanding, 0 for none
  attempts,    \* verify() calls waiting for their key derivation
  fails,       \* LockoutTracker: failCount of each key
  locked,      \* lockoutUntil of the key is in the future
  consent,     \* ConsentManager.inflight: open requests per viewer
  always,      \* ConsentManager.alwaysAllow
  authorized,  \* authorizedViewers
  media,       \* viewers whose connection carries the screen's tracks
  toViewer,    \* control frames on their way to each viewer
  toHost,      \* auth-responses on their way to the host
  gate,        \* the viewer's own view: "none" | "challenged" | "waiting" |
               \*  "connected" | "denied"
  tries,       \* auth-responses sent so far
  proved,      \* history: viewers with a proof that verified
  approved     \* history: viewers a human accepted

hostVars   == <<issued, pending, attempts, fails, locked, consent, always,
                authorized, media>>
viewerVars == <<gate, tries, toHost>>
ghosts     == <<proved, approved>>
vars == <<mode, up, conn, hostVars, toViewer, viewerVars, ghosts>>

\* A challenge carries its nonce; 0 marks the proof-less one of `prompt' mode.
Frame    == [t : {"challenge"}, nonce : Nat] \cup [t : {"result"}, ok : BOOLEAN]
Response == [nonce : Int, proof : {"right", "wrong", "malformed"}]
Attempt  == [viewer : Viewer, id : Int, nonce : Nat, ok : BOOLEAN]

TypeOK ==
  /\ mode \in Modes
  /\ up \in BOOLEAN
  /\ conn \in [Viewer -> {"new", "joined", "open", "left"}]
  /\ issued \in [Viewer -> Nat]
  /\ pending \in [Viewer -> Nat]
  /\ attempts \subseteq Attempt
  /\ fails \in [Addr -> Nat]
  /\ locked \in [Addr -> BOOLEAN]
  /\ consent \in [Viewer -> Nat]
  /\ always \subseteq Viewer
  /\ authorized \subseteq Viewer
  /\ media \subseteq Viewer
  /\ toViewer \in [Viewer -> Seq(Frame)]
  /\ toHost \in [Viewer -> Seq(Response)]
  /\ gate \in [Viewer -> {"none", "challenged", "waiting", "connected", "denied"}]
  /\ tries \in [Viewer -> Nat]
  /\ proved \subseteq Viewer
  /\ approved \subseteq Viewer

Init ==
  /\ mode \in Modes
  /\ up = TRUE
  /\ conn = [v \in Viewer |-> "new"]
  /\ issued = [v \in Viewer |-> 0]
  /\ pending = [v \in Viewer |-> 0]
  /\ attempts = {}
  /\ fails = [a \in Addr |-> 0]
  /\ locked = [a \in Addr |-> FALSE]
  /\ consent = [v \in Viewer |-> 0]
  /\ always = {}
  /\ authorized = {}
  /\ media = {}
  /\ toViewer = [v \in Viewer |-> <<>>]
  /\ toHost = [v \in Viewer |-> <<>>]
  /\ gate = [v \in Viewer |-> "none"]
  /\ tries = [v \in Viewer |-> 0]
  /\ proved = {}
  /\ approved = {}

----------------------------------------------------------------------------
(* Verdicts.  Each of these says how the host side of one viewer changes.  *)

\* sendControl() delivers to a viewer whose control channel is open, only.
Send(v, frames) ==
  toViewer' = IF conn[v] = "open" THEN [toViewer EXCEPT ![v] = @ \o frames]
              ELSE toViewer

Result(ok)   == [t |-> "result", ok |-> ok]
Challenge(n) == [t |-> "challenge", nonce |-> n]

\* authorizeViewer(): the second addTrack() of a track throws, so a viewer
\* that already has media gets no verdict.
authorizeViewer(v) ==
  /\ authorized' = authorized \cup {v}
  /\ IF conn[v] = "open" THEN media' = media \cup {v} ELSE UNCHANGED media
  /\ Send(v, IF v \in media THEN <<>> ELSE <<Result(TRUE)>>)

denyViewer(v) ==
  /\ authorized' = authorized \ {v}
  /\ Send(v, <<Result(FALSE)>>)
  /\ UNCHANGED media

\* runConsentThenAuthorize() up to its await.
requestConsent(v) ==
  \/ /\ v \in always
     /\ authorizeViewer(v)
     /\ UNCHANGED consent
  \/ /\ v \notin always
     /\ consent' = [consent EXCEPT ![v] = @ + 1]
     /\ UNCHANGED <<authorized, media, toViewer>>

----------------------------------------------------------------------------
(* Lockout *)

recordFailure(a) ==
  /\ fails' = [fails EXCEPT ![a] = @ + 1]
  /\ locked' = [locked EXCEPT ![a] = @ \/ fails[a] + 1 >= Threshold]

recordSuccess(a) ==
  /\ fails' = [fails EXCEPT ![a] = 0]
  /\ locked' = [locked EXCEPT ![a] = FALSE]

LockExpires(a) ==
  /\ locked[a]
  /\ locked' = [locked EXCEPT ![a] = FALSE]
  /\ UNCHANGED <<mode, up, conn, issued, pending, attempts, fails, consent,
                 always, authorized, media, toViewer, viewerVars, ghosts>>

----------------------------------------------------------------------------
(* Viewers come and go *)

Join(v) ==
  /\ up /\ conn[v] = "new"
  /\ conn' = [conn EXCEPT ![v] = "joined"]
  /\ UNCHANGED <<mode, up, hostVars, toViewer, viewerVars, ghosts>>

\* The control channel of v opens on both sides: beginAuth().
ControlOpen(v) ==
  /\ up /\ conn[v] = "joined"
  /\ conn' = [conn EXCEPT ![v] = "open"]
  /\ issued' = [issued EXCEPT ![v] = IF mode \in PinModes THEN 1 ELSE 0]
  /\ pending' = [pending EXCEPT ![v] = IF mode \in PinModes THEN 1 ELSE 0]
  /\ toViewer' = [toViewer EXCEPT ![v] =
                    CASE mode = "refuse"  -> <<Result(FALSE)>>
                      [] mode = "prompt"  -> <<Challenge(0)>>
                      [] mode \in PinModes -> <<Challenge(1)>>]
  /\ consent' = [consent EXCEPT ![v] = IF mode = "prompt" THEN @ + 1 ELSE @]
  /\ UNCHANGED <<mode, up, attempts, fails, locked, always, authorized, media,
                 viewerVars, ghosts>>

\* Mutant: the lockout keyed on the connection, so that leaving resets it.
LeaveForgets(v) ==
  /\ conn[v] \in {"joined", "open"}
  /\ conn' = [conn EXCEPT ![v] = "left"]
  /\ fails' = [fails EXCEPT ![AddrOf[v]] = 0]
  /\ pending' = [pending EXCEPT ![v] = 0]
  /\ authorized' = authorized \ {v}
  /\ media' = media \ {v}
  /\ toViewer' = [toViewer EXCEPT ![v] = <<>>]
  /\ toHost' = [toHost EXCEPT ![v] = <<>>]
  /\ gate' = [gate EXCEPT ![v] = "none"]
  /\ UNCHANGED <<mode, up, issued, attempts, locked, consent, always, tries, ghosts>>

\* `peer-left': the connection goes with everything in flight on it.  Open
\* consent requests and running verifications are not cancelled.
Leave(v) ==
  /\ conn[v] \in {"joined", "open"}
  /\ conn' = [conn EXCEPT ![v] = "left"]
  /\ pending' = [pending EXCEPT ![v] = 0]
  /\ authorized' = authorized \ {v}
  /\ media' = media \ {v}
  /\ toViewer' = [toViewer EXCEPT ![v] = <<>>]
  /\ toHost' = [toHost EXCEPT ![v] = <<>>]
  /\ gate' = [gate EXCEPT ![v] = "none"]
  /\ UNCHANGED <<mode, up, issued, attempts, fails, locked, consent, always,
                 tries, ghosts>>

\* stop(): every table is cleared and every open request settles `reject'.
Stop ==
  /\ up
  /\ up' = FALSE
  /\ conn' = [v \in Viewer |-> "left"]
  /\ pending' = [v \in Viewer |-> 0]
  /\ fails' = [a \in Addr |-> 0]
  /\ locked' = [a \in Addr |-> FALSE]
  /\ consent' = [v \in Viewer |-> 0]
  /\ always' = {}
  /\ authorized' = {}
  /\ media' = {}
  /\ toViewer' = [v \in Viewer |-> <<>>]
  /\ toHost' = [v \in Viewer |-> <<>>]
  /\ gate' = [v \in Viewer |-> "none"]
  /\ UNCHANGED <<mode, issued, attempts, tries, ghosts>>

----------------------------------------------------------------------------
(* The viewer: ViewerSession.onAuthChallenge(), onAuthResult(), submitPin() *)

ReadFrame(v) ==
  /\ toViewer[v] # <<>>
  /\ toViewer' = [toViewer EXCEPT ![v] = Tail(@)]
  /\ LET f == Head(toViewer[v])
     IN \/ /\ f.t = "result"
           /\ gate' = [gate EXCEPT ![v] = IF f.ok THEN "connected" ELSE "denied"]
           /\ UNCHANGED <<toHost, tries>>
        \/ /\ f.t = "challenge" /\ f.nonce # 0
           /\ gate' = [gate EXCEPT ![v] = "challenged"]
           /\ UNCHANGED <<toHost, tries>>
        \/ /\ f.t = "challenge" /\ f.nonce = 0     \* answered at once, no proof
           /\ gate' = [gate EXCEPT ![v] = "waiting"]
           /\ toHost' = [toHost EXCEPT ![v] =
                           Append(@, [nonce |-> 0, proof |-> "wrong"])]
           /\ UNCHANGED tries
  /\ UNCHANGED <<mode, up, conn, hostVars, ghosts>>

\* The nonce of the last challenge v has read: what is still on its way to v
\* was issued later.
LastRead(v) == issued[v] - Cardinality({i \in DOMAIN toViewer[v] :
                                          toViewer[v][i].t = "challenge"})

\* Mutant: the challenge survives its answer.
SubmitPinKeeps(v, proof) ==
  /\ gate[v] = "challenged" /\ tries[v] < MaxTries
  /\ proof \in {"right", "wrong"}
  /\ tries' = [tries EXCEPT ![v] = @ + 1]
  /\ toHost' = [toHost EXCEPT ![v] =
                  Append(@, [nonce |-> LastRead(v), proof |-> proof])]
  /\ UNCHANGED <<mode, up, conn, hostVars, toViewer, gate, ghosts>>

\* submitPin(): the challenge is consumed before the derivation starts.
SubmitPin(v, proof) ==
  /\ gate[v] = "challenged" /\ tries[v] < MaxTries
  /\ proof \in {"right", "wrong"}
  /\ gate' = [gate EXCEPT ![v] = "waiting"]
  /\ tries' = [tries EXCEPT ![v] = @ + 1]
  /\ toHost' = [toHost EXCEPT ![v] =
                  Append(@, [nonce |-> LastRead(v), proof |-> proof])]
  /\ UNCHANGED <<mode, up, conn, hostVars, toViewer, ghosts>>

\* External: another client of the protocol, which does not consume its
\* challenge and may send frames that do not decode.
SubmitAgain(v, proof) ==
  /\ v \in Repeater /\ conn[v] = "open" /\ mode \in PinModes
  /\ tries[v] < MaxTries /\ LastRead(v) > 0
  /\ tries' = [tries EXCEPT ![v] = @ + 1]
  /\ toHost' = [toHost EXCEPT ![v] =
                  Append(@, [nonce |-> LastRead(v), proof |-> proof])]
  /\ UNCHANGED <<mode, up, conn, hostVars, toViewer, gate, ghosts>>

----------------------------------------------------------------------------
(* The host: handleAuthResponse() and the continuations of its awaits *)

\* The proof is an HMAC under the key derived from the PIN, over the nonce the
\* host looked up: it matches what the host computes iff both are the same.
Verifies(r, nonce) == r.proof = "right" /\ r.nonce = nonce

\* Mutant: a viewer that is locked out is not answered.
RefuseSilently(v, lockedOut) ==
  /\ authorized' = authorized \ {v}
  /\ IF lockedOut \/ ~up
     THEN /\ pending' = [pending EXCEPT ![v] = 0]
          /\ UNCHANGED <<issued, toViewer>>
     ELSE /\ issued' = [issued EXCEPT ![v] = @ + 1]
          /\ pending' = [pending EXCEPT ![v] = issued[v] + 1]
          /\ Send(v, <<Result(FALSE), Challenge(issued[v] + 1)>>)
  /\ UNCHANGED <<media, consent>>

\* A proof that does not verify: the nonce is dropped, the viewer denied and,
\* unless its key is locked now, challenged afresh.  fails' is decided first.
Refuse(v, lockedOut) ==
  /\ authorized' = authorized \ {v}
  /\ IF lockedOut \/ ~up
     THEN /\ pending' = [pending EXCEPT ![v] = 0]
          /\ UNCHANGED issued
          /\ Send(v, <<Result(FALSE)>>)
     ELSE /\ issued' = [issued EXCEPT ![v] = @ + 1]
          /\ pending' = [pending EXCEPT ![v] = issued[v] + 1]
          /\ Send(v, <<Result(FALSE), Challenge(issued[v] + 1)>>)
  /\ UNCHANGED <<media, consent>>

\* A failure counts before it is answered.
FailAttempt(v) ==
  /\ recordFailure(AddrOf[v])
  /\ Refuse(v, locked'[AddrOf[v]])

\* The part of handleAuthResponse() before the key derivation, for the first
\* response in the channel.
ReceiveResponse(v) ==
  /\ toHost[v] # <<>>
  /\ toHost' = [toHost EXCEPT ![v] = Tail(@)]
  /\ LET r == Head(toHost[v])
     IN \/ /\ mode \notin PinModes                  \* ignored
           /\ UNCHANGED <<hostVars, toViewer>>
        \/ /\ mode \in PinModes /\ pending[v] = 0   \* no outstanding challenge
           /\ denyViewer(v)
           /\ UNCHANGED <<issued, pending, attempts, fails, locked, consent>>
        \/ /\ mode \in PinModes /\ pending[v] # 0 /\ locked[AddrOf[v]]
           /\ Refuse(v, TRUE)
           /\ UNCHANGED <<attempts, fails, locked>>
        \/ /\ mode \in PinModes /\ pending[v] # 0 /\ ~locked[AddrOf[v]]
           /\ r.proof = "malformed"
           /\ FailAttempt(v)
           /\ UNCHANGED attempts
        \/ /\ mode \in PinModes /\ pending[v] # 0 /\ ~locked[AddrOf[v]]
           /\ r.proof # "malformed"
           /\ attempts' = attempts \cup
                {[viewer |-> v, id |-> tries[v] - Len(toHost[v]),
                  nonce |-> pending[v],
                  ok |-> Verifies(r, pending[v])]}
           /\ UNCHANGED <<issued, pending, fails, locked, consent, authorized,
                          media, toViewer>>
  /\ UNCHANGED <<mode, up, conn, always, gate, tries, ghosts>>

\* Mutant: a verified proof is enough in `pin-and-prompt' mode too.
ProofAcceptedAlone(v) == authorizeViewer(v) /\ UNCHANGED consent

\* What a verified proof earns: the grant itself or the human's attention.
ProofAccepted(v) ==
  IF mode \in PromptModes THEN requestConsent(v)
  ELSE authorizeViewer(v) /\ UNCHANGED consent

\* The key derivation of one attempt ends.  The viewer may be gone, denied or
\* authorized by another attempt by now; nothing is looked up again.
VerifyDone(att) ==
  /\ att \in attempts
  /\ attempts' = attempts \ {att}
  /\ \/ /\ att.ok
        /\ proved' = proved \cup {att.viewer}
        /\ recordSuccess(AddrOf[att.viewer])
        /\ pending' = [pending EXCEPT ![att.viewer] = 0]
        /\ ProofAccepted(att.viewer)
        /\ UNCHANGED issued
     \/ /\ ~att.ok
        /\ FailAttempt(att.viewer)
        /\ UNCHANGED proved
  /\ UNCHANGED <<mode, up, conn, always, viewerVars, approved>>

\* ConsentManager.accept(), with its `alsoAlways'.
ConsentAccept(v, alsoAlways) ==
  /\ consent[v] > 0
  /\ consent' = [consent EXCEPT ![v] = @ - 1]
  /\ always' = IF alsoAlways THEN always \cup {v} ELSE always
  /\ approved' = approved \cup {v}
  /\ authorizeViewer(v)
  /\ UNCHANGED <<mode, up, conn, issued, pending, attempts, fails, locked,
                 viewerVars, proved>>

\* ConsentManager.reject(), by the human or by the request's own timeout.
ConsentReject(v) ==
  /\ consent[v] > 0
  /\ consent' = [consent EXCEPT ![v] = @ - 1]
  /\ denyViewer(v)
  /\ UNCHANGED <<mode, up, conn, issued, pending, attempts, fails, locked,
                 always, viewerVars, ghosts>>

Next ==
  \/ \E v \in Viewer :
       \/ Join(v) \/ ControlOpen(v) \/ Leave(v) \/ ReadFrame(v)
       \/ ReceiveResponse(v) \/ ConsentReject(v)
       \/ \E proof \in {"right", "wrong"} : SubmitPin(v, proof)
       \/ \E proof \in {"right", "wrong", "malformed"} : SubmitAgain(v, proof)
       \/ \E alsoAlways \in BOOLEAN : ConsentAccept(v, alsoAlways)
  \/ \E att \in attempts : VerifyDone(att)
  \/ \E a \in Addr : LockExpires(a)
  \/ Stop

Spec == Init /\ [][Next]_vars

----------------------------------------------------------------------------
(* Safety *)

Earned(v) == /\ mode # "refuse"
             /\ mode \in PinModes => v \in proved
             /\ mode \in PromptModes => v \in approved

(***************************************************************************)
(* Whoever may drive the input or is sent the screen has passed everything *)
(* the access mode asks for: a proof that verified, a human's accept, or   *)
(* both.  No order of responses, derivations, timeouts, departures and     *)
(* always-allow entries grants access that was not earned.                 *)
(***************************************************************************)
AccessEarned == \A v \in authorized \cup media : Earned(v)

(***************************************************************************)
(* The two ends agree about a viewer that answers each challenge once: one *)
(* that shows itself connected is authorized and has the screen, and one   *)
(* that has the screen is authorized.                                      *)
(***************************************************************************)
EndsAgree ==
  \A v \in Viewer \ Repeater : conn[v] = "open" =>
    /\ gate[v] = "connected" => v \in authorized \cap media
    /\ v \in media => v \in authorized

(***************************************************************************)
(* The failures counted against an address outlive the connection that     *)
(* made them: a proof that verified, from that address, clears them, and   *)
(* the end of the session.  Reconnecting does not.                         *)
(***************************************************************************)
FailuresSurviveReconnect ==
  [][\A a \in Addr : fails'[a] < fails[a] =>
       \/ up /\ ~up'
       \/ \E att \in attempts \ attempts' :
            att.ok /\ AddrOf[att.viewer] = a]_vars

----------------------------------------------------------------------------
(* Liveness *)

(***************************************************************************)
(* The control channel delivers what it was given, a derivation ends, and  *)
(* an open consent request has a timer of its own.                         *)
(***************************************************************************)
Fairness ==
  \A v \in Viewer :
    /\ WF_vars(ReadFrame(v))
    /\ WF_vars(ReceiveResponse(v))
    /\ WF_vars(ConsentReject(v))
    /\ WF_vars(\E att \in attempts : att.viewer = v /\ VerifyDone(att))

FairSpec == Spec /\ Fairness

(***************************************************************************)
(* A viewer that waits for a verdict gets one, or the connection ends: it  *)
(* is never left behind "waiting for host approval".                       *)
(***************************************************************************)
VerdictComes ==
  \A v \in Viewer \ Repeater : gate[v] = "waiting" ~> gate[v] # "waiting"

=============================================================================
