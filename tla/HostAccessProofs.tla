--------------------------- MODULE HostAccessProofs ---------------------------
(***************************************************************************)
(* Type correctness of HostAccess.tla, that every grant of access was      *)
(* earned, and that the viewer's view of its access agrees with the        *)
(* host's, for any number of viewers, addresses, responses and failures.   *)
(***************************************************************************)
EXTENDS HostAccess, FiniteSetTheorems, SequenceTheorems, TLAPS

(***************************************************************************)
(* AccessEarned needs to know what an open consent request, an always-allow*)
(* entry and a running verification stand for: a request is only made in a *)
(* mode that asks the human and, where a proof is needed first, after it.  *)
(***************************************************************************)
RequestsEarned ==
  \A v \in Viewer : consent[v] > 0 => /\ mode \in PromptModes
                                      /\ mode \in PinModes => v \in proved

VerifyOnlyInPinModes == attempts # {} => mode \in PinModes

AccessInv == /\ TypeOK
             /\ AccessEarned
             /\ RequestsEarned
             /\ always \subseteq approved
             /\ VerifyOnlyInPinModes

----------------------------------------------------------------------------

LEMMA InitAccessInv == Init => AccessInv
  <1>1. Init => TypeOK
    BY AccessAssumption DEF Init, TypeOK
  <1>2. Init => AccessEarned /\ RequestsEarned /\ always \subseteq approved
                /\ VerifyOnlyInPinModes
    BY DEF Init, AccessEarned, RequestsEarned, VerifyOnlyInPinModes
  <1>. QED
    BY <1>1, <1>2 DEF AccessInv

LEMMA SendType ==
  ASSUME TypeOK, NEW v \in Viewer, NEW frames \in Seq(Frame), Send(v, frames)
  PROVE  toViewer' \in [Viewer -> Seq(Frame)]
  BY DEF TypeOK, Send

LEMMA SingletonSeq ==
  ASSUME NEW S, NEW x \in S
  PROVE  <<x>> \in Seq(S)
  OBVIOUS

LEMMA PairSeq ==
  ASSUME NEW S, NEW x \in S, NEW y \in S
  PROVE  <<x, y>> \in Seq(S)
  OBVIOUS

\* What the host sends: a verdict, a challenge, or the one and then the other.
LEMMA FrameType ==
  /\ \A ok \in BOOLEAN : Result(ok) \in Frame /\ <<Result(ok)>> \in Seq(Frame)
  /\ \A n \in Nat : /\ <<Challenge(n)>> \in Seq(Frame)
                    /\ <<Result(FALSE), Challenge(n)>> \in Seq(Frame)
  <1>1. \A ok \in BOOLEAN : Result(ok) \in Frame
    BY DEF Result, Frame
  <1>2. \A n \in Nat : Challenge(n) \in Frame
    BY DEF Challenge, Frame
  <1>. QED
    BY <1>1, <1>2, SingletonSeq, PairSeq

(***************************************************************************)
(* The grant: whoever earned it may be authorized.                         *)
(***************************************************************************)
LEMMA AuthorizeKeepsTypes ==
  ASSUME TypeOK, NEW v \in Viewer, authorizeViewer(v)
  PROVE  /\ authorized' \subseteq Viewer
         /\ media' \subseteq Viewer
         /\ toViewer' \in [Viewer -> Seq(Frame)]
         /\ authorized' \cup media' \subseteq authorized \cup media \cup {v}
  <1>1. (IF v \in media THEN <<>> ELSE <<Result(TRUE)>>) \in Seq(Frame)
    <2>1. <<>> \in Seq(Frame)
      OBVIOUS
    <2>2. <<Result(TRUE)>> \in Seq(Frame)
      BY FrameType
    <2>. QED
      BY <2>1, <2>2
  <1>2. Send(v, IF v \in media THEN <<>> ELSE <<Result(TRUE)>>)
    BY DEF authorizeViewer
  <1>3. toViewer' \in [Viewer -> Seq(Frame)]
    BY <1>1, <1>2, SendType
  <1>. QED
    BY <1>3 DEF authorizeViewer, TypeOK

LEMMA DenyKeepsTypes ==
  ASSUME TypeOK, NEW v \in Viewer, denyViewer(v)
  PROVE  /\ authorized' \subseteq authorized
         /\ media' = media
         /\ toViewer' \in [Viewer -> Seq(Frame)]
  <1>1. <<Result(FALSE)>> \in Seq(Frame)
    BY FrameType
  <1>2. toViewer' \in [Viewer -> Seq(Frame)]
    BY <1>1, SendType DEF denyViewer
  <1>. QED
    BY <1>2 DEF denyViewer

LEMMA RefuseKeepsTypes ==
  ASSUME TypeOK, NEW v \in Viewer, NEW lockedOut \in BOOLEAN, Refuse(v, lockedOut)
  PROVE  /\ authorized' \subseteq authorized
         /\ UNCHANGED <<media, consent>>
         /\ toViewer' \in [Viewer -> Seq(Frame)]
         /\ issued' \in [Viewer -> Nat]
         /\ pending' \in [Viewer -> Nat]
  <1>1. issued[v] + 1 \in Nat
    BY DEF TypeOK
  <1>2. /\ <<Result(FALSE)>> \in Seq(Frame)
        /\ <<Result(FALSE), Challenge(issued[v] + 1)>> \in Seq(Frame)
    BY <1>1, FrameType
  <1>3. toViewer' \in [Viewer -> Seq(Frame)]
    BY <1>2, SendType DEF Refuse
  <1>4. CASE lockedOut \/ ~up
    <2>1. issued' = issued /\ pending' = [pending EXCEPT ![v] = 0]
      BY <1>4 DEF Refuse
    <2>. QED
      BY <2>1, <1>3 DEF Refuse, TypeOK
  <1>5. CASE ~(lockedOut \/ ~up)
    <2>1. /\ issued' = [issued EXCEPT ![v] = @ + 1]
          /\ pending' = [pending EXCEPT ![v] = issued[v] + 1]
      BY <1>5 DEF Refuse
    <2>2. issued' \in [Viewer -> Nat] /\ pending' \in [Viewer -> Nat]
      BY <1>1, <2>1 DEF TypeOK
    <2>. QED
      BY <2>2, <1>3 DEF Refuse
  <1>. QED
    BY <1>4, <1>5

LEMMA FailureType ==
  ASSUME TypeOK, NEW a \in Addr, recordFailure(a)
  PROVE  fails' \in [Addr -> Nat] /\ locked' \in [Addr -> BOOLEAN]
  <1>1. fails' \in [Addr -> Nat]
    BY DEF TypeOK, recordFailure
  <1>2. locked' \in [Addr -> BOOLEAN]
    BY DEF TypeOK, recordFailure
  <1>. QED
    BY <1>1, <1>2

(***************************************************************************)
(* Steps that neither grant access nor open a request preserve the parts   *)
(* of the invariant that speak of them.                                    *)
(***************************************************************************)
LEMMA NothingGranted ==
  ASSUME AccessInv, TypeOK',
         mode' = mode,
         (authorized \cup media)' \subseteq authorized \cup media,
         \A v \in Viewer : consent'[v] > 0 => consent[v] > 0,
         always' \subseteq always,
         proved \subseteq proved', approved \subseteq approved',
         attempts' # {} => mode \in PinModes
  PROVE  AccessInv'
  <1>1. AccessEarned'
    BY DEF AccessInv, AccessEarned, Earned
  <1>2. RequestsEarned'
    BY DEF AccessInv, RequestsEarned
  <1>. QED
    BY <1>1, <1>2 DEF AccessInv, VerifyOnlyInPinModes

----------------------------------------------------------------------------
(* One lemma per action *)

LEMMA JoinStep ==
  ASSUME AccessInv, NEW v \in Viewer, Join(v)
  PROVE  AccessInv'
  <1>1. TypeOK'
    BY DEF AccessInv, TypeOK, Join, hostVars, viewerVars, ghosts
  <1>. QED
    BY <1>1, NothingGranted
    DEF AccessInv, VerifyOnlyInPinModes, Join, hostVars, ghosts

LEMMA LockExpiresStep ==
  ASSUME AccessInv, NEW a \in Addr, LockExpires(a)
  PROVE  AccessInv'
  <1>1. TypeOK'
    BY DEF AccessInv, TypeOK, LockExpires, viewerVars, ghosts
  <1>. QED
    BY <1>1, NothingGranted
    DEF AccessInv, VerifyOnlyInPinModes, LockExpires, ghosts

LEMMA LeaveStep ==
  ASSUME AccessInv, NEW v \in Viewer, Leave(v)
  PROVE  AccessInv'
  <1>1. TypeOK'
    BY DEF AccessInv, TypeOK, Leave, ghosts
  <1>. QED
    BY <1>1, NothingGranted
    DEF AccessInv, VerifyOnlyInPinModes, Leave, ghosts

LEMMA StopStep ==
  ASSUME AccessInv, Stop
  PROVE  AccessInv'
  <1>1. TypeOK'
    <2>1. <<>> \in Seq(Frame) /\ <<>> \in Seq(Response)
      OBVIOUS
    <2>2. toViewer' \in [Viewer -> Seq(Frame)] /\ toHost' \in [Viewer -> Seq(Response)]
      BY <2>1 DEF Stop
    <2>3. /\ mode' \in Modes /\ up' \in BOOLEAN /\ issued' \in [Viewer -> Nat]
          /\ attempts' \subseteq Attempt /\ tries' \in [Viewer -> Nat]
          /\ proved' \subseteq Viewer /\ approved' \subseteq Viewer
      BY DEF AccessInv, TypeOK, Stop, ghosts
    <2>4. /\ conn' \in [Viewer -> {"new", "joined", "open", "left"}]
          /\ pending' \in [Viewer -> Nat] /\ consent' \in [Viewer -> Nat]
          /\ fails' \in [Addr -> Nat] /\ locked' \in [Addr -> BOOLEAN]
          /\ always' \subseteq Viewer /\ authorized' \subseteq Viewer
          /\ media' \subseteq Viewer
          /\ gate' \in [Viewer -> {"none", "challenged", "waiting",
                                   "connected", "denied"}]
      BY DEF Stop
    <2>. QED
      BY <2>2, <2>3, <2>4 DEF TypeOK
  <1>2. \A v \in Viewer : consent'[v] > 0 => consent[v] > 0
    BY DEF Stop
  <1>. QED
    BY <1>1, <1>2, NothingGranted
    DEF AccessInv, VerifyOnlyInPinModes, Stop, ghosts

LEMMA LastReadType ==
  ASSUME TypeOK, NEW v \in Viewer
  PROVE  LastRead(v) \in Int
  <1>. DEFINE q == toViewer[v]
              unread == {i \in DOMAIN q : q[i].t = "challenge"}
  <1>1. q \in Seq(Frame)
    BY DEF TypeOK
  <1>2. DOMAIN q = 1 .. Len(q) /\ Len(q) \in Nat
    BY <1>1
  <1>3. IsFiniteSet(DOMAIN q)
    BY <1>2, FS_Interval
  <1>4. IsFiniteSet(unread)
    BY <1>3, FS_Subset
  <1>5. Cardinality(unread) \in Nat
    BY <1>4, FS_CardinalityType
  <1>. QED
    BY <1>5 DEF TypeOK, LastRead

\* A response on its way changes nothing the gate decides by.
LEMMA ResponseSent ==
  ASSUME AccessInv, NEW v \in Viewer, NEW r \in Response,
         toHost' = [toHost EXCEPT ![v] = Append(@, r)],
         UNCHANGED <<mode, up, conn, hostVars, ghosts>>,
         toViewer' \in [Viewer -> Seq(Frame)],
         gate' \in [Viewer -> {"none", "challenged", "waiting", "connected", "denied"}],
         tries' \in [Viewer -> Nat]
  PROVE  AccessInv'
  <1>1. toHost' \in [Viewer -> Seq(Response)]
    BY DEF AccessInv, TypeOK
  <1>2. TypeOK'
    BY <1>1 DEF AccessInv, TypeOK, hostVars, ghosts
  <1>. QED
    BY <1>2, NothingGranted DEF AccessInv, VerifyOnlyInPinModes, hostVars, ghosts

LEMMA SubmitPinStep ==
  ASSUME AccessInv, NEW v \in Viewer, NEW proof \in {"right", "wrong"},
         SubmitPin(v, proof)
  PROVE  AccessInv'
  <1>1. [nonce |-> LastRead(v), proof |-> proof] \in Response
    BY LastReadType DEF Response, AccessInv
  <1>2. gate' \in [Viewer -> {"none", "challenged", "waiting", "connected", "denied"}]
    BY DEF SubmitPin, AccessInv, TypeOK
  <1>3. tries' \in [Viewer -> Nat] /\ toViewer' \in [Viewer -> Seq(Frame)]
    BY DEF SubmitPin, AccessInv, TypeOK
  <1>. QED
    BY <1>1, <1>2, <1>3, ResponseSent DEF SubmitPin

LEMMA SubmitAgainStep ==
  ASSUME AccessInv, NEW v \in Viewer,
         NEW proof \in {"right", "wrong", "malformed"}, SubmitAgain(v, proof)
  PROVE  AccessInv'
  <1>1. [nonce |-> LastRead(v), proof |-> proof] \in Response
    BY LastReadType DEF Response, AccessInv
  <1>2. gate' \in [Viewer -> {"none", "challenged", "waiting", "connected", "denied"}]
    BY DEF SubmitAgain, AccessInv, TypeOK
  <1>3. tries' \in [Viewer -> Nat] /\ toViewer' \in [Viewer -> Seq(Frame)]
    BY DEF SubmitAgain, AccessInv, TypeOK
  <1>. QED
    BY <1>1, <1>2, <1>3, ResponseSent DEF SubmitAgain

LEMMA ReadFrameStep ==
  ASSUME AccessInv, NEW v \in Viewer, ReadFrame(v)
  PROVE  AccessInv'
  <1>. DEFINE f == Head(toViewer[v])
  <1>1. toViewer' \in [Viewer -> Seq(Frame)]
    BY DEF ReadFrame, AccessInv, TypeOK
  <1>2. gate' \in [Viewer -> {"none", "challenged", "waiting", "connected", "denied"}]
    BY DEF ReadFrame, AccessInv, TypeOK
  <1>3. tries' \in [Viewer -> Nat]
    BY DEF ReadFrame, AccessInv, TypeOK
  <1>4. CASE UNCHANGED toHost
    <2>1. TypeOK'
      BY <1>1, <1>2, <1>3, <1>4 DEF ReadFrame, AccessInv, TypeOK, hostVars, ghosts
    <2>. QED
      BY <2>1, NothingGranted
      DEF ReadFrame, AccessInv, VerifyOnlyInPinModes, hostVars, ghosts
  <1>5. CASE toHost' = [toHost EXCEPT ![v] = Append(@, [nonce |-> 0, proof |-> "wrong"])]
    <2>1. [nonce |-> 0, proof |-> "wrong"] \in Response
      BY DEF Response
    <2>. QED
      BY <1>1, <1>2, <1>3, <1>5, <2>1, ResponseSent DEF ReadFrame
  <1>. QED
    BY <1>4, <1>5 DEF ReadFrame

LEMMA ConsentRejectStep ==
  ASSUME AccessInv, NEW v \in Viewer, ConsentReject(v)
  PROVE  AccessInv'
  <1>1. denyViewer(v) /\ TypeOK
    BY DEF ConsentReject, AccessInv
  <1>2. /\ authorized' \subseteq authorized
        /\ media' = media
        /\ toViewer' \in [Viewer -> Seq(Frame)]
    BY <1>1, DenyKeepsTypes
  <1>3. consent' \in [Viewer -> Nat] /\ \A w \in Viewer : consent'[w] > 0 => consent[w] > 0
    BY DEF ConsentReject, AccessInv, TypeOK
  <1>4. TypeOK'
    BY <1>2, <1>3 DEF ConsentReject, AccessInv, TypeOK, viewerVars, ghosts
  <1>. QED
    BY <1>2, <1>3, <1>4, NothingGranted
    DEF ConsentReject, AccessInv, VerifyOnlyInPinModes, ghosts

LEMMA ConsentAcceptStep ==
  ASSUME AccessInv, NEW v \in Viewer, NEW alsoAlways \in BOOLEAN,
         ConsentAccept(v, alsoAlways)
  PROVE  AccessInv'
  <1>1. authorizeViewer(v) /\ TypeOK
    BY DEF ConsentAccept, AccessInv
  <1>2. /\ authorized' \subseteq Viewer /\ media' \subseteq Viewer
        /\ toViewer' \in [Viewer -> Seq(Frame)]
        /\ authorized' \cup media' \subseteq authorized \cup media \cup {v}
    BY <1>1, AuthorizeKeepsTypes
  <1>3. /\ consent' \in [Viewer -> Nat]
        /\ \A w \in Viewer : consent'[w] > 0 => consent[w] > 0
    BY DEF ConsentAccept, AccessInv, TypeOK
  <1>4. always' \subseteq Viewer /\ always' \subseteq approved'
        /\ approved' = approved \cup {v} /\ approved' \subseteq Viewer
    BY DEF ConsentAccept, AccessInv, TypeOK
  <1>5. TypeOK'
    BY <1>2, <1>3, <1>4 DEF ConsentAccept, AccessInv, TypeOK, viewerVars
  <1>6. mode' = mode /\ proved' = proved /\ attempts' = attempts /\ consent[v] > 0
    BY DEF ConsentAccept
  <1>7. mode \in PromptModes /\ (mode \in PinModes => v \in proved)
    BY <1>6 DEF AccessInv, RequestsEarned
  <1>8. AccessEarned'
    BY <1>2, <1>4, <1>6, <1>7 DEF AccessInv, AccessEarned, Earned, PromptModes
  <1>9. RequestsEarned'
    BY <1>3, <1>6 DEF AccessInv, RequestsEarned
  <1>. QED
    BY <1>4, <1>5, <1>6, <1>8, <1>9 DEF AccessInv, VerifyOnlyInPinModes

LEMMA ControlOpenStep ==
  ASSUME AccessInv, NEW v \in Viewer, ControlOpen(v)
  PROVE  AccessInv'
  <1>. DEFINE first == CASE mode = "refuse"  -> <<Result(FALSE)>>
                         [] mode = "prompt"  -> <<Challenge(0)>>
                         [] mode \in PinModes -> <<Challenge(1)>>
  <1>1. first \in Seq(Frame)
    <2>1. mode = "refuse" \/ mode = "prompt" \/ mode \in PinModes
      BY AccessAssumption DEF AccessInv, TypeOK, PinModes, PromptModes
    <2>2. /\ <<Result(FALSE)>> \in Seq(Frame)
          /\ <<Challenge(0)>> \in Seq(Frame)
          /\ <<Challenge(1)>> \in Seq(Frame)
      BY FrameType
    <2>. QED
      BY <2>1, <2>2
  <1>2. toViewer' = [toViewer EXCEPT ![v] = first]
    BY DEF ControlOpen
  <1>. HIDE DEF first
  <1>3. toViewer' \in [Viewer -> Seq(Frame)]
    BY <1>1, <1>2 DEF AccessInv, TypeOK
  <1>4. /\ issued' \in [Viewer -> Nat] /\ pending' \in [Viewer -> Nat]
        /\ conn' \in [Viewer -> {"new", "joined", "open", "left"}]
    BY DEF ControlOpen, AccessInv, TypeOK
  <1>5. /\ consent' \in [Viewer -> Nat]
        /\ \A w \in Viewer : consent'[w] > 0 => consent[w] > 0 \/ mode = "prompt"
    BY DEF ControlOpen, AccessInv, TypeOK
  <1>6. TypeOK'
    BY <1>3, <1>4, <1>5 DEF ControlOpen, AccessInv, TypeOK, viewerVars, ghosts
  <1>7. UNCHANGED <<mode, attempts, always, authorized, media, proved, approved>>
    BY DEF ControlOpen, ghosts
  <1>8. AccessEarned'
    BY <1>7 DEF AccessInv, AccessEarned, Earned
  <1>9. RequestsEarned'
    BY <1>5, <1>7 DEF AccessInv, RequestsEarned, PinModes, PromptModes
  <1>. QED
    BY <1>6, <1>7, <1>8, <1>9 DEF AccessInv, VerifyOnlyInPinModes

LEMMA FailAttemptStep ==
  ASSUME TypeOK, NEW v \in Viewer, FailAttempt(v)
  PROVE  /\ authorized' \subseteq authorized
         /\ UNCHANGED <<media, consent>>
         /\ toViewer' \in [Viewer -> Seq(Frame)]
         /\ issued' \in [Viewer -> Nat] /\ pending' \in [Viewer -> Nat]
         /\ fails' \in [Addr -> Nat] /\ locked' \in [Addr -> BOOLEAN]
  <1>1. AddrOf[v] \in Addr
    BY AccessAssumption
  <1>2. fails' \in [Addr -> Nat] /\ locked' \in [Addr -> BOOLEAN]
    BY <1>1, FailureType DEF FailAttempt
  <1>3. PICK now \in BOOLEAN : now = locked'[AddrOf[v]]
    BY <1>1, <1>2
  <1>4. Refuse(v, now)
    BY <1>3 DEF FailAttempt
  <1>. QED
    BY <1>2, <1>4, RefuseKeepsTypes

LEMMA ReceiveResponseStep ==
  ASSUME AccessInv, NEW v \in Viewer, ReceiveResponse(v)
  PROVE  AccessInv'
  <1>. DEFINE r == Head(toHost[v])
  <1>1. toHost' \in [Viewer -> Seq(Response)]
    BY DEF ReceiveResponse, AccessInv, TypeOK
  <1>2. UNCHANGED <<mode, up, conn, always, gate, tries, proved, approved>>
    BY DEF ReceiveResponse, ghosts
  <1>. DEFINE Fine == /\ authorized' \subseteq authorized
                      /\ UNCHANGED <<media, consent>>
                      /\ toViewer' \in [Viewer -> Seq(Frame)]
                      /\ issued' \in [Viewer -> Nat] /\ pending' \in [Viewer -> Nat]
                      /\ fails' \in [Addr -> Nat] /\ locked' \in [Addr -> BOOLEAN]
                      /\ attempts' \subseteq Attempt
                      /\ attempts' # {} => mode \in PinModes
  <1>3. Fine
    <2>1. CASE mode \notin PinModes /\ UNCHANGED <<hostVars, toViewer>>
      BY <2>1 DEF AccessInv, TypeOK, VerifyOnlyInPinModes, hostVars
    <2>2. CASE /\ mode \in PinModes /\ denyViewer(v)
               /\ UNCHANGED <<issued, pending, attempts, fails, locked, consent>>
      BY <2>2, DenyKeepsTypes DEF AccessInv, TypeOK
    <2>3. CASE /\ mode \in PinModes /\ Refuse(v, TRUE)
               /\ UNCHANGED <<attempts, fails, locked>>
      BY <2>3, RefuseKeepsTypes DEF AccessInv, TypeOK
    <2>4. CASE mode \in PinModes /\ FailAttempt(v) /\ UNCHANGED attempts
      BY <2>4, FailAttemptStep DEF AccessInv, TypeOK
    <2>5. CASE /\ mode \in PinModes
               /\ attempts' = attempts \cup
                    {[viewer |-> v, id |-> tries[v] - Len(toHost[v]),
                      nonce |-> pending[v],
                      ok |-> Verifies(r, pending[v])]}
               /\ UNCHANGED <<issued, pending, fails, locked, consent,
                              authorized, media, toViewer>>
      <3>1. tries[v] - Len(toHost[v]) \in Int /\ pending[v] \in Nat
        BY DEF AccessInv, TypeOK
      <3>2. PICK good \in BOOLEAN : good = Verifies(r, pending[v])
        BY DEF Verifies
      <3>3. [viewer |-> v, id |-> tries[v] - Len(toHost[v]),
             nonce |-> pending[v], ok |-> good] \in Attempt
        BY <3>1 DEF Attempt
      <3>4. attempts' \subseteq Attempt
        BY <2>5, <3>2, <3>3 DEF AccessInv, TypeOK
      <3>. QED
        BY <2>5, <3>4 DEF AccessInv, TypeOK
    <2>. QED
      BY <2>1, <2>2, <2>3, <2>4, <2>5 DEF ReceiveResponse
  <1>. HIDE DEF r
  <1>4. TypeOK'
    BY <1>1, <1>2, <1>3 DEF AccessInv, TypeOK
  <1>. QED
    BY <1>2, <1>3, <1>4, NothingGranted

(***************************************************************************)
(* A verified proof is the grant itself where no human is asked, and opens *)
(* a request, or meets an always-allow entry, where one is.                *)
(***************************************************************************)
LEMMA ProofAcceptedStep ==
  ASSUME AccessInv, NEW v \in Viewer, mode \in PinModes, ProofAccepted(v),
         proved' = proved \cup {v}, UNCHANGED <<mode, always, approved>>
  PROVE  /\ consent' \in [Viewer -> Nat]
         /\ authorized' \subseteq Viewer /\ media' \subseteq Viewer
         /\ toViewer' \in [Viewer -> Seq(Frame)]
         /\ AccessEarned'
         /\ RequestsEarned'
  <1>1. mode # "refuse"
    BY DEF PinModes
  <1>2. CASE authorizeViewer(v) /\ UNCHANGED consent
             /\ (mode \in PromptModes => v \in approved)
    <2>1. /\ authorized' \subseteq Viewer /\ media' \subseteq Viewer
          /\ toViewer' \in [Viewer -> Seq(Frame)]
          /\ authorized' \cup media' \subseteq authorized \cup media \cup {v}
      BY <1>2, AuthorizeKeepsTypes DEF AccessInv
    <2>2. AccessEarned'
      BY <1>1, <1>2, <2>1 DEF AccessInv, AccessEarned, Earned
    <2>3. RequestsEarned'
      BY <1>2 DEF AccessInv, RequestsEarned
    <2>. QED
      BY <1>2, <2>1, <2>2, <2>3 DEF AccessInv, TypeOK
  <1>3. CASE /\ mode \in PromptModes
             /\ consent' = [consent EXCEPT ![v] = @ + 1]
             /\ UNCHANGED <<authorized, media, toViewer>>
    <2>1. consent' \in [Viewer -> Nat]
      BY <1>3 DEF AccessInv, TypeOK
    <2>2. \A w \in Viewer : w # v => consent'[w] = consent[w]
      BY <1>3 DEF AccessInv, TypeOK
    <2>3. AccessEarned'
      BY <1>3 DEF AccessInv, AccessEarned, Earned
    <2>4. RequestsEarned'
      BY <1>3, <2>2 DEF AccessInv, RequestsEarned
    <2>. QED
      BY <1>3, <2>1, <2>3, <2>4 DEF AccessInv, TypeOK
  <1>. QED
    BY <1>2, <1>3 DEF ProofAccepted, requestConsent, AccessInv

LEMMA VerifyDoneStep ==
  ASSUME AccessInv, NEW att \in attempts, VerifyDone(att)
  PROVE  AccessInv'
  <1>. DEFINE v == att.viewer
  <1>1. v \in Viewer /\ AddrOf[v] \in Addr /\ mode \in PinModes /\ TypeOK
    BY AccessAssumption DEF AccessInv, TypeOK, Attempt, VerifyOnlyInPinModes
  <1>2. /\ attempts' = attempts \ {att}
        /\ UNCHANGED <<mode, up, conn, always, viewerVars, approved>>
    BY DEF VerifyDone
  <1>3. CASE /\ proved' = proved \cup {v}
             /\ recordSuccess(AddrOf[v])
             /\ pending' = [pending EXCEPT ![v] = 0]
             /\ ProofAccepted(v)
             /\ UNCHANGED issued
    <2>. HIDE DEF v
    <2>1. /\ consent' \in [Viewer -> Nat]
          /\ authorized' \subseteq Viewer /\ media' \subseteq Viewer
          /\ toViewer' \in [Viewer -> Seq(Frame)]
          /\ AccessEarned' /\ RequestsEarned'
      BY <1>1, <1>2, <1>3, ProofAcceptedStep
    <2>2. /\ fails' \in [Addr -> Nat] /\ locked' \in [Addr -> BOOLEAN]
          /\ pending' \in [Viewer -> Nat] /\ proved' \subseteq Viewer
      BY <1>1, <1>3 DEF recordSuccess, TypeOK
    <2>3. TypeOK'
      BY <1>1, <1>2, <1>3, <2>1, <2>2 DEF TypeOK, viewerVars
    <2>. QED
      BY <1>1, <1>2, <2>1, <2>3 DEF AccessInv, VerifyOnlyInPinModes
  <1>4. CASE FailAttempt(v) /\ UNCHANGED proved
    <2>. HIDE DEF v
    <2>1. /\ authorized' \subseteq authorized
          /\ UNCHANGED <<media, consent>>
          /\ toViewer' \in [Viewer -> Seq(Frame)]
          /\ issued' \in [Viewer -> Nat] /\ pending' \in [Viewer -> Nat]
          /\ fails' \in [Addr -> Nat] /\ locked' \in [Addr -> BOOLEAN]
      BY <1>1, <1>4, FailAttemptStep
    <2>2. TypeOK'
      BY <1>1, <1>2, <1>4, <2>1 DEF TypeOK, viewerVars
    <2>. QED
      BY <1>1, <1>2, <1>4, <2>1, <2>2, NothingGranted
  <1>. QED
    BY <1>3, <1>4 DEF VerifyDone

LEMMA StutterStep ==
  ASSUME AccessInv, UNCHANGED vars
  PROVE  AccessInv'
  <1>1. TypeOK'
    BY DEF AccessInv, TypeOK, vars, hostVars, viewerVars, ghosts
  <1>. QED
    BY <1>1, NothingGranted
    DEF AccessInv, VerifyOnlyInPinModes, vars, hostVars, ghosts

(***************************************************************************)
(* The access gate, inductively: every step of host, viewer and human      *)
(* keeps the invariant.                                                    *)
(***************************************************************************)
THEOREM AccessInvariant == Spec => []AccessInv
  <1>1. Init => AccessInv
    BY InitAccessInv
  <1>2. AccessInv /\ [Next]_vars => AccessInv'
    <2>. SUFFICES ASSUME AccessInv, [Next]_vars PROVE AccessInv'
      OBVIOUS
    <2>1. ASSUME NEW v \in Viewer,
                 \/ Join(v) \/ ControlOpen(v) \/ Leave(v) \/ ReadFrame(v)
                 \/ ReceiveResponse(v) \/ ConsentReject(v)
          PROVE  AccessInv'
      BY <2>1, JoinStep, ControlOpenStep, LeaveStep, ReadFrameStep,
         ReceiveResponseStep, ConsentRejectStep
    <2>2. ASSUME NEW v \in Viewer,
                 \/ \E proof \in {"right", "wrong"} : SubmitPin(v, proof)
                 \/ \E proof \in {"right", "wrong", "malformed"} : SubmitAgain(v, proof)
                 \/ \E alsoAlways \in BOOLEAN : ConsentAccept(v, alsoAlways)
          PROVE  AccessInv'
      BY <2>2, SubmitPinStep, SubmitAgainStep, ConsentAcceptStep
    <2>3. ASSUME NEW att \in attempts, VerifyDone(att) PROVE AccessInv'
      BY <2>3, VerifyDoneStep
    <2>4. ASSUME NEW a \in Addr, LockExpires(a) PROVE AccessInv'
      BY <2>4, LockExpiresStep
    <2>. QED
      BY <2>1, <2>2, <2>3, <2>4, StopStep, StutterStep DEF Next
  <1>. QED
    BY <1>1, <1>2, PTL DEF Spec

(***************************************************************************)
(* The tables of HostSession, LockoutTracker and ConsentManager keep their *)
(* types.                                                                  *)
(***************************************************************************)
THEOREM AccessTypeCorrect == Spec => []TypeOK
  <1>1. AccessInv => TypeOK
    BY DEF AccessInv
  <1>. QED
    BY <1>1, AccessInvariant, PTL

(***************************************************************************)
(* Nobody is authorized, or sent the screen, without what the configured   *)
(* mode of runConsentThenAuthorize() and handleAuthResponse() asks for.    *)
(***************************************************************************)
THEOREM AccessIsEarned == Spec => []AccessEarned
  <1>1. AccessInv => AccessEarned
    BY DEF AccessInv
  <1>. QED
    BY <1>1, AccessInvariant, PTL

----------------------------------------------------------------------------
(* The lockout counters *)

Forgiven(a) == \/ up /\ ~up'
               \/ \E att \in attempts \ attempts' :
                    att.ok /\ AddrOf[att.viewer] = a

LEMMA FailureOnlyCountsUp ==
  ASSUME TypeOK, NEW a \in Addr, recordFailure(a)
  PROVE  \A b \in Addr : ~(fails'[b] < fails[b])
  BY DEF TypeOK, recordFailure

LEMMA VerifyDoneForgives ==
  ASSUME AccessInv, NEW att \in attempts, VerifyDone(att),
         NEW a \in Addr, fails'[a] < fails[a]
  PROVE  Forgiven(a)
  <1>1. att.viewer \in Viewer /\ AddrOf[att.viewer] \in Addr /\ TypeOK
    BY AccessAssumption DEF AccessInv, TypeOK, Attempt
  <1>2. att \in attempts \ attempts'
    BY DEF VerifyDone
  <1>3. CASE att.ok /\ recordSuccess(AddrOf[att.viewer])
    <2>1. a = AddrOf[att.viewer]
      BY <1>1, <1>3 DEF TypeOK, recordSuccess
    <2>. QED
      BY <1>2, <1>3, <2>1 DEF Forgiven
  <1>4. CASE FailAttempt(att.viewer)
    BY <1>1, <1>4, FailureOnlyCountsUp DEF FailAttempt
  <1>. QED
    BY <1>3, <1>4 DEF VerifyDone

LEMMA OnlyForgivenWhenEarned ==
  ASSUME AccessInv, [Next]_vars, NEW a \in Addr, fails'[a] < fails[a]
  PROVE  Forgiven(a)
  <1>1. ASSUME UNCHANGED fails PROVE FALSE
    <2>1. fails[a] \in Nat
      BY DEF AccessInv, TypeOK
    <2>. QED
      BY <1>1, <2>1
  <1>2. ASSUME NEW v \in Viewer,
               \/ Join(v) \/ ControlOpen(v) \/ Leave(v) \/ ReadFrame(v)
               \/ ConsentReject(v)
        PROVE  FALSE
    BY <1>1, <1>2
    DEF Join, ControlOpen, Leave, ReadFrame, ConsentReject, hostVars
  <1>3. ASSUME NEW v \in Viewer,
               \/ \E proof \in {"right", "wrong"} : SubmitPin(v, proof)
               \/ \E proof \in {"right", "wrong", "malformed"} : SubmitAgain(v, proof)
               \/ \E alsoAlways \in BOOLEAN : ConsentAccept(v, alsoAlways)
        PROVE  FALSE
    BY <1>1, <1>3 DEF SubmitPin, SubmitAgain, ConsentAccept, hostVars
  <1>4. ASSUME NEW v \in Viewer, ReceiveResponse(v) PROVE FALSE
    <2>1. CASE UNCHANGED fails
      BY <1>1, <2>1
    <2>2. CASE recordFailure(AddrOf[v])
      BY <2>2, AccessAssumption, FailureOnlyCountsUp DEF AccessInv
    <2>. QED
      BY <1>4, <2>1, <2>2 DEF ReceiveResponse, FailAttempt, hostVars
  <1>5. ASSUME NEW b \in Addr, LockExpires(b) PROVE FALSE
    BY <1>1, <1>5 DEF LockExpires
  <1>6. ASSUME Stop PROVE Forgiven(a)
    BY <1>6 DEF Stop, Forgiven
  <1>7. ASSUME UNCHANGED vars PROVE FALSE
    BY <1>1, <1>7 DEF vars, hostVars
  <1>8. ASSUME NEW att \in attempts, VerifyDone(att) PROVE Forgiven(a)
    BY <1>8, VerifyDoneForgives
  <1>. QED
    BY <1>2, <1>3, <1>4, <1>5, <1>6, <1>7, <1>8 DEF Next

(***************************************************************************)
(* Wrong proofs stay counted against the source address across departures  *)
(* and reconnects: lockoutKeyFor() is what LockoutTracker's backoff rests  *)
(* on.                                                                     *)
(***************************************************************************)
THEOREM AccessFailuresKept == Spec => FailuresSurviveReconnect
  <1>1. AccessInv /\ [Next]_vars =>
          [\A a \in Addr : fails'[a] < fails[a] =>
              \/ up /\ ~up'
              \/ \E att \in attempts \ attempts' :
                   att.ok /\ AddrOf[att.viewer] = a]_vars
    BY OnlyForgivenWhenEarned DEF Forgiven
  <1>. QED
    BY <1>1, AccessInvariant, PTL DEF Spec, FailuresSurviveReconnect

----------------------------------------------------------------------------
(* The two ends *)

(***************************************************************************)
(* EndsAgree rests on turns.  Between a viewer that answers each challenge *)
(* once and its host there is at most one thing that can still lead to a   *)
(* verdict: a challenge on its way or shown, a response, a derivation, or  *)
(* an open consent request.  So no verdict is overtaken by another, and    *)
(* once the viewer has its grant nothing is left that could take it back.  *)
(***************************************************************************)
ChallengesIn(q) == {i \in DOMAIN q : q[i].t = "challenge"}
GrantIn(q)      == \E i \in DOMAIN q : q[i].t = "result" /\ q[i].ok

Mine(v)       == {att \in attempts : att.viewer = v}
Challenges(v) == ChallengesIn(toViewer[v])
GrantSent(v)  == GrantIn(toViewer[v])

NoTurn(v) == /\ consent[v] = 0 /\ Mine(v) = {}
             /\ mode \in PinModes =>
                  Challenges(v) = {} /\ gate[v] # "challenged" /\ toHost[v] = <<>>

\* In a mode without a PIN, responses are not looked at.
OneTurn(v) ==
  /\ consent[v] <= 1
  /\ mode \in PinModes =>
       /\ \A i, j \in Challenges(v) : i = j
       /\ Len(toHost[v]) <= 1
       /\ \A att, other \in Mine(v) : att = other
       /\ Challenges(v) # {} => gate[v] # "challenged"
       /\ Challenges(v) # {} \/ gate[v] = "challenged" => toHost[v] = <<>>
       /\ Challenges(v) # {} \/ gate[v] = "challenged" \/ toHost[v] # <<>> => Mine(v) = {}
       /\ Challenges(v) # {} \/ gate[v] = "challenged" \/ toHost[v] # <<>> \/ Mine(v) # {} =>
            consent[v] = 0

GrantsAgree(v) ==
  /\ v \in authorized <=> v \in media
  /\ gate[v] = "connected" \/ GrantSent(v) => v \in media
  /\ v \in media => NoTurn(v)

Untouched(v) == /\ consent[v] = 0 /\ Mine(v) = {} /\ v \notin authorized \cup media
                /\ toViewer[v] = <<>> /\ toHost[v] = <<>> /\ gate[v] = "none"

TurnsOf(v) == /\ conn[v] \in {"new", "joined"} => Untouched(v)
              /\ conn[v] = "open" => OneTurn(v) /\ GrantsAgree(v)

TurnInv == \A v \in Viewer \ Repeater : TurnsOf(v)

\* The frames in a channel: a verdict or two behind the others, or one less.
LEMMA VerdictSent ==
  ASSUME NEW q \in Seq(Frame), NEW ok \in BOOLEAN
  PROVE  /\ ChallengesIn(q \o <<Result(ok)>>) = ChallengesIn(q)
         /\ GrantIn(q \o <<Result(ok)>>) <=> GrantIn(q) \/ ok
  <1>. DEFINE r == q \o <<Result(ok)>>
  <1>1. /\ DOMAIN q = 1 .. Len(q) /\ Len(q) \in Nat /\ DOMAIN r = 1 .. Len(q) + 1
        /\ \A i \in DOMAIN q : r[i] = q[i]
        /\ r[Len(q) + 1] = Result(ok)
    OBVIOUS
  <1>2. Result(ok).t = "result" /\ Result(ok).ok = ok
    BY DEF Result
  <1>. HIDE DEF r
  <1>3. DOMAIN r = DOMAIN q \cup {Len(q) + 1} /\ Len(q) + 1 \notin DOMAIN q
    BY <1>1
  <1>4. ChallengesIn(r) = ChallengesIn(q)
    BY <1>1, <1>2, <1>3 DEF ChallengesIn
  <1>5. GrantIn(r) <=> GrantIn(q) \/ ok
    BY <1>1, <1>2, <1>3 DEF GrantIn
  <1>. QED
    BY <1>4, <1>5 DEF r

LEMMA ChallengeSent ==
  ASSUME NEW q \in Seq(Frame), ChallengesIn(q) = {}, NEW two \in Seq(Frame),
         Len(two) = 2, two[1] = Result(FALSE), two[2].t = "challenge"
  PROVE  /\ \A i, j \in ChallengesIn(q \o two) : i = j
         /\ GrantIn(q \o two) => GrantIn(q)
  <1>. DEFINE r == q \o two
  <1>1. /\ r \in Seq(Frame) /\ Len(r) = Len(q) + Len(two)
        /\ \A i \in 1 .. Len(q) + Len(two) :
              r[i] = IF i <= Len(q) THEN q[i] ELSE two[i - Len(q)]
    BY ConcatProperties, Zenon
  <1>. HIDE DEF r
  <1>2. DOMAIN q = 1 .. Len(q) /\ Len(q) \in Nat /\ DOMAIN r = 1 .. Len(q) + 2
    BY <1>1
  <1>3. \A i \in DOMAIN q : r[i] = q[i]
    BY <1>1, <1>2
  <1>4. Len(q) + 1 \in 1 .. Len(q) + 2 /\ Len(q) + 2 \in 1 .. Len(q) + 2
    BY <1>2
  <1>5. r[Len(q) + 1] = Result(FALSE) /\ r[Len(q) + 2].t = "challenge"
    <2>1. ASSUME NEW k \in 1 .. 2 PROVE r[Len(q) + k] = two[k]
      <3>1. PICK i \in 1 .. Len(q) + 2 : i = Len(q) + k
        BY <1>2
      <3>2. ~(i <= Len(q)) /\ i - Len(q) = k
        BY <1>2, <3>1
      <3>3. r[i] = two[i - Len(q)]
        BY <1>1, <3>2
      <3>. QED
        BY <3>1, <3>2, <3>3
    <2>2. 1 \in 1 .. 2 /\ 2 \in 1 .. 2
      OBVIOUS
    <2>. QED
      BY <2>1, <2>2, Zenon
  <1>6. Result(FALSE).t = "result" /\ Result(FALSE).ok = FALSE
    BY DEF Result
  <1>7. DOMAIN r = DOMAIN q \cup {Len(q) + 1, Len(q) + 2}
    BY <1>2
  <1>8. ChallengesIn(r) \subseteq {Len(q) + 2}
    BY <1>3, <1>5, <1>6, <1>7 DEF ChallengesIn
  <1>9. GrantIn(r) => GrantIn(q)
    BY <1>3, <1>5, <1>6, <1>7 DEF GrantIn
  <1>. QED
    BY <1>8, <1>9 DEF r

LEMMA FrameRead ==
  ASSUME NEW q \in Seq(Frame), q # <<>>
  PROVE  /\ 1 \in DOMAIN q /\ Head(q) = q[1] /\ Tail(q) \in Seq(Frame)
         /\ \A i \in ChallengesIn(Tail(q)) : i + 1 \in ChallengesIn(q) /\ i \in Nat \ {0}
         /\ GrantIn(Tail(q)) => GrantIn(q)
  <1>1. /\ DOMAIN q = 1 .. Len(q) /\ Len(q) \in Nat \ {0} /\ Head(q) = q[1]
        /\ Tail(q) \in Seq(Frame) /\ DOMAIN Tail(q) = 1 .. Len(q) - 1
        /\ \A i \in DOMAIN Tail(q) : Tail(q)[i] = q[i + 1]
    OBVIOUS
  <1>2. \A i \in DOMAIN Tail(q) : i + 1 \in DOMAIN q /\ i \in Nat \ {0}
    BY <1>1
  <1>3. 1 \in DOMAIN q
    BY <1>1
  <1>. QED
    BY <1>1, <1>2, <1>3 DEF ChallengesIn, GrantIn

----------------------------------------------------------------------------
(* What a step does to the turn of one viewer *)

LEMMA InitTurns == Init => TurnInv
  BY DEF Init, TurnInv, TurnsOf, Untouched, Mine

LEMMA TurnKept ==
  ASSUME NEW v \in Viewer, TurnsOf(v), mode' = mode,
         conn'[v] = conn[v], gate'[v] = gate[v],
         toViewer'[v] = toViewer[v], toHost'[v] = toHost[v],
         consent'[v] = consent[v], Mine(v)' = Mine(v),
         v \in authorized' <=> v \in authorized, v \in media' <=> v \in media
  PROVE  TurnsOf(v)'
  BY DEF TurnsOf, Untouched, OneTurn, GrantsAgree, NoTurn, Challenges, GrantSent

LEMMA TurnOver ==
  ASSUME NEW v \in Viewer, conn'[v] = "left"
  PROVE  TurnsOf(v)'
  BY DEF TurnsOf

\* The host side of another viewer changes.
LEMMA VerdictForOther ==
  ASSUME TypeOK, NEW v \in Viewer, NEW w \in Viewer \ {v},
         \/ authorizeViewer(w) \/ denyViewer(w)
         \/ \E lockedOut \in BOOLEAN : Refuse(w, lockedOut)
  PROVE  /\ toViewer'[v] = toViewer[v]
         /\ v \in authorized' <=> v \in authorized
         /\ v \in media' <=> v \in media
  <1>1. ASSUME NEW frames, Send(w, frames) PROVE toViewer'[v] = toViewer[v]
    BY <1>1 DEF Send, TypeOK
  <1>. QED
    BY <1>1 DEF authorizeViewer, denyViewer, Refuse

\* The turn ends in a grant ...
LEMMA TurnGranted ==
  ASSUME AccessInv, NEW v \in Viewer, conn[v] = "open", TurnsOf(v), authorizeViewer(v),
         v \notin media, UNCHANGED <<mode, conn>>,
         Challenges(v) = {} \/ mode \notin PinModes,
         consent'[v] = 0, Mine(v)' = {},
         mode \in PinModes => gate'[v] # "challenged" /\ toHost'[v] = <<>>
  PROVE  TurnsOf(v)'
  <1>1. /\ toViewer[v] \in Seq(Frame)
        /\ toViewer'[v] = toViewer[v] \o <<Result(TRUE)>>
        /\ v \in authorized' /\ v \in media'
    BY DEF authorizeViewer, Send, AccessInv, TypeOK
  <1>2. Challenges(v)' = Challenges(v)
    BY <1>1, VerdictSent DEF Challenges
  <1>3. NoTurn(v)'
    BY <1>2 DEF NoTurn
  <1>. QED
    BY <1>1, <1>3 DEF TurnsOf, OneTurn, NoTurn, GrantsAgree

\* ... in a denial ...
LEMMA TurnDenied ==
  ASSUME AccessInv, NEW v \in Viewer, conn[v] = "open", TurnsOf(v), denyViewer(v),
         v \notin media, UNCHANGED <<mode, conn>>,
         Challenges(v) = {} \/ mode \notin PinModes,
         consent'[v] = 0, Mine(v)' = {}, gate'[v] = gate[v],
         mode \in PinModes => gate'[v] # "challenged" /\ toHost'[v] = <<>>
  PROVE  TurnsOf(v)'
  <1>1. /\ toViewer[v] \in Seq(Frame)
        /\ toViewer'[v] = toViewer[v] \o <<Result(FALSE)>>
        /\ v \notin authorized' /\ v \notin media'
    BY DEF denyViewer, Send, AccessInv, TypeOK
  <1>2. Challenges(v)' = Challenges(v) /\ (GrantSent(v)' => GrantSent(v))
    <2>1. /\ ChallengesIn(toViewer[v] \o <<Result(FALSE)>>) = ChallengesIn(toViewer[v])
          /\ GrantIn(toViewer[v] \o <<Result(FALSE)>>) => GrantIn(toViewer[v])
      BY <1>1, VerdictSent, Zenon
    <2>. QED
      BY <1>1, <2>1 DEF Challenges, GrantSent
  <1>3. NoTurn(v)'
    BY <1>2 DEF NoTurn
  <1>. QED
    BY <1>1, <1>2, <1>3 DEF TurnsOf, OneTurn, NoTurn, GrantsAgree

\* ... or, after a denial, in the next challenge.
LEMMA TurnRefused ==
  ASSUME AccessInv, NEW v \in Viewer, conn[v] = "open", TurnsOf(v),
         NEW lockedOut \in BOOLEAN, Refuse(v, lockedOut),
         v \notin media, UNCHANGED <<mode, conn>>, Challenges(v) = {},
         consent'[v] = 0, Mine(v)' = {}, gate'[v] = gate[v],
         gate'[v] # "challenged" /\ toHost'[v] = <<>>
  PROVE  TurnsOf(v)'
  <1>0. toViewer[v] \in Seq(Frame) /\ issued[v] + 1 \in Nat
        /\ v \notin authorized' /\ v \notin media'
    BY DEF Refuse, AccessInv, TypeOK
  <1>1. CASE toViewer'[v] = toViewer[v] \o <<Result(FALSE)>>
    <2>1. Challenges(v)' = {} /\ (GrantSent(v)' => GrantSent(v))
      <3>1. /\ ChallengesIn(toViewer[v] \o <<Result(FALSE)>>) = ChallengesIn(toViewer[v])
            /\ GrantIn(toViewer[v] \o <<Result(FALSE)>>) => GrantIn(toViewer[v])
        BY <1>0, VerdictSent, Zenon
      <3>. QED
        BY <1>1, <3>1 DEF Challenges, GrantSent
    <2>. QED
      BY <1>0, <2>1 DEF TurnsOf, OneTurn, GrantsAgree
  <1>2. CASE toViewer'[v] = toViewer[v] \o <<Result(FALSE), Challenge(issued[v] + 1)>>
    <2>1. (\A i, j \in Challenges(v)' : i = j) /\ (GrantSent(v)' => GrantSent(v))
      <3>. DEFINE two == <<Result(FALSE), Challenge(issued[v] + 1)>>
      <3>1. /\ two \in Seq(Frame) /\ Len(two) = 2
            /\ two[1] = Result(FALSE) /\ two[2].t = "challenge"
        BY <1>0, FrameType DEF Challenge
      <3>2. toViewer'[v] = toViewer[v] \o two
        BY <1>2
      <3>. HIDE DEF two
      <3>3. /\ \A i, j \in ChallengesIn(toViewer[v] \o two) : i = j
            /\ GrantIn(toViewer[v] \o two) => GrantIn(toViewer[v])
        BY <1>0, <3>1, ChallengeSent, Zenon DEF Challenges
      <3>. QED
        BY <3>2, <3>3 DEF Challenges, GrantSent
    <2>. QED
      BY <1>0, <2>1 DEF TurnsOf, OneTurn, GrantsAgree
  <1>. QED
    BY <1>1, <1>2 DEF Refuse, Send, AccessInv, TypeOK

----------------------------------------------------------------------------
(* One lemma per action again: w takes it, v is any viewer that answers    *)
(* each challenge once.                                                    *)

LEMMA JoinTurn ==
  ASSUME AccessInv, NEW v \in Viewer, TurnsOf(v), NEW w \in Viewer, Join(w)
  PROVE  TurnsOf(v)'
  <1>1. CASE w # v
    BY <1>1, TurnKept DEF Join, Mine, AccessInv, TypeOK, hostVars, viewerVars
  <1>2. CASE w = v
    <2>1. Untouched(v)'
      BY <1>2 DEF Join, TurnsOf, Untouched, Mine, hostVars, viewerVars
    <2>2. conn'[v] = "joined"
      BY <1>2 DEF Join, AccessInv, TypeOK
    <2>. QED
      BY <2>1, <2>2 DEF TurnsOf
  <1>. QED
    BY <1>1, <1>2

LEMMA FirstFrame ==
  ASSUME NEW f
  PROVE  /\ ChallengesIn(<<f>>) \subseteq {1}
         /\ GrantIn(<<f>>) => f.t = "result" /\ f.ok
  BY DEF ChallengesIn, GrantIn

LEMMA ControlOpenTurn ==
  ASSUME AccessInv, NEW v \in Viewer, TurnsOf(v), NEW w \in Viewer, ControlOpen(w)
  PROVE  TurnsOf(v)'
  <1>1. CASE w # v
    BY <1>1, TurnKept DEF ControlOpen, Mine, AccessInv, TypeOK, viewerVars
  <1>2. CASE w = v
    <2>1. Untouched(v) /\ conn'[v] = "open"
      BY <1>2 DEF ControlOpen, TurnsOf, AccessInv, TypeOK
    <2>2. /\ Mine(v)' = {} /\ v \notin media' /\ v \notin authorized'
          /\ toHost'[v] = <<>> /\ gate'[v] = "none"
      BY <2>1 DEF ControlOpen, Untouched, Mine, viewerVars
    <2>3. consent'[v] = IF mode = "prompt" THEN 1 ELSE 0
      BY <1>2, <2>1 DEF ControlOpen, Untouched, AccessInv, TypeOK
    <2>4. PICK f : toViewer'[v] = <<f>> /\ ~(f.t = "result" /\ f.ok)
      <3>1. /\ Result(FALSE).ok = FALSE
            /\ Challenge(0).t = "challenge" /\ Challenge(1).t = "challenge"
        BY DEF Result, Challenge
      <3>2. mode = "refuse" \/ mode = "prompt" \/ mode \in PinModes
        BY AccessAssumption DEF AccessInv, TypeOK, PinModes, PromptModes
      <3>3. \/ toViewer'[v] = <<Result(FALSE)>> \/ toViewer'[v] = <<Challenge(0)>>
            \/ toViewer'[v] = <<Challenge(1)>>
        BY <1>2, <3>2 DEF ControlOpen, AccessInv, TypeOK, PinModes
      <3>. QED
        BY <3>1, <3>3
    <2>5. Challenges(v)' \subseteq {1} /\ ~GrantSent(v)'
      BY <2>4, FirstFrame DEF Challenges, GrantSent
    <2>6. OneTurn(v)'
      BY <2>2, <2>3, <2>5 DEF OneTurn, ControlOpen, PinModes
    <2>7. GrantsAgree(v)'
      BY <2>2, <2>5 DEF GrantsAgree
    <2>. QED
      BY <2>1, <2>6, <2>7 DEF TurnsOf
  <1>. QED
    BY <1>1, <1>2

LEMMA LeaveTurn ==
  ASSUME AccessInv, NEW v \in Viewer, TurnsOf(v), NEW w \in Viewer, Leave(w)
  PROVE  TurnsOf(v)'
  <1>1. CASE w # v
    BY <1>1, TurnKept DEF Leave, Mine, AccessInv, TypeOK
  <1>2. CASE w = v
    BY <1>2, TurnOver DEF Leave, AccessInv, TypeOK
  <1>. QED
    BY <1>1, <1>2

LEMMA ReadFrameTurn ==
  ASSUME AccessInv, NEW v \in Viewer, TurnsOf(v), NEW w \in Viewer, ReadFrame(w)
  PROVE  TurnsOf(v)'
  <1>1. CASE w # v
    <2>1. toViewer'[v] = toViewer[v] /\ gate'[v] = gate[v] /\ toHost'[v] = toHost[v]
      BY <1>1 DEF ReadFrame, AccessInv, TypeOK
    <2>. QED
      BY <2>1, TurnKept DEF ReadFrame, Mine, hostVars
  <1>2. CASE w = v /\ conn[v] # "open"
    BY <1>2, TurnOver DEF ReadFrame, AccessInv, TypeOK, TurnsOf, Untouched
  <1>3. CASE w = v /\ conn[v] = "open"
    <2>. DEFINE q == toViewer[v]
                f == Head(q)
    <2>1. q \in Seq(Frame) /\ q # <<>> /\ toViewer'[v] = Tail(q) /\ conn'[v] = "open"
      BY <1>3 DEF ReadFrame, AccessInv, TypeOK
    <2>2. /\ 1 \in DOMAIN q /\ f = q[1]
          /\ \A i \in ChallengesIn(Tail(q)) : i + 1 \in ChallengesIn(q) /\ i \in Nat \ {0}
          /\ GrantIn(Tail(q)) => GrantIn(q)
      BY <2>1, FrameRead, Zenon
    <2>3. /\ \A i \in Challenges(v)' : i + 1 \in Challenges(v) /\ i \in Nat \ {0}
          /\ GrantSent(v)' => GrantSent(v)
      BY <2>1, <2>2, Zenon DEF Challenges, GrantSent
    <2>4. /\ mode' = mode /\ consent' = consent /\ Mine(v)' = Mine(v)
          /\ media' = media /\ authorized' = authorized
      BY DEF ReadFrame, hostVars, Mine
    <2>5. OneTurn(v) /\ GrantsAgree(v)
      BY <1>3 DEF TurnsOf
    <2>6. CASE f.t = "result"
      <3>1. /\ gate'[v] = (IF f.ok THEN "connected" ELSE "denied")
            /\ toHost' = toHost
        BY <1>3, <2>6 DEF ReadFrame, AccessInv, TypeOK
      <3>2. gate'[v] = "connected" => GrantSent(v)
        BY <2>2, <2>6, <3>1 DEF GrantSent, GrantIn
      <3>3. OneTurn(v)'
        <4>1. \A i, j \in Challenges(v)' : mode \in PinModes => i = j
          BY <2>3, <2>5 DEF OneTurn
        <4>. QED
          BY <2>3, <2>4, <2>5, <3>1, <4>1 DEF OneTurn
      <3>4. GrantsAgree(v)'
        BY <2>3, <2>4, <2>5, <3>1, <3>2 DEF GrantsAgree, NoTurn
      <3>. QED
        BY <2>1, <3>3, <3>4 DEF TurnsOf
    <2>7. CASE f.t = "challenge"
      <3>1. 1 \in Challenges(v)
        BY <2>2, <2>7 DEF Challenges, ChallengesIn
      <3>2. mode \in PinModes => Challenges(v)' = {}
        <4>1. SUFFICES ASSUME mode \in PinModes, NEW i \in Challenges(v)' PROVE FALSE
          OBVIOUS
        <4>2. i + 1 = 1 /\ i \in Nat \ {0}
          BY <2>3, <2>5, <3>1, <4>1 DEF OneTurn
        <4>. QED
          BY <4>2
      <3>3. mode \in PinModes => /\ toHost[v] = <<>> /\ Mine(v) = {} /\ consent[v] = 0
                                 /\ v \notin media
        BY <2>5, <3>1 DEF OneTurn, GrantsAgree, NoTurn
      <3>4. \/ gate'[v] = "challenged" /\ toHost'[v] = toHost[v]
            \/ /\ gate'[v] = "waiting"
               /\ toHost'[v] = Append(toHost[v], [nonce |-> 0, proof |-> "wrong"])
        BY <1>3, <2>7 DEF ReadFrame, AccessInv, TypeOK
      <3>5. mode \in PinModes => Len(toHost'[v]) <= 1 /\ (gate'[v] = "challenged" => toHost'[v] = <<>>)
        BY <3>3, <3>4
      <3>6. OneTurn(v)'
        BY <2>4, <2>5, <3>2, <3>3, <3>5 DEF OneTurn
      <3>7. GrantsAgree(v)'
        BY <2>3, <2>4, <2>5, <3>3, <3>4 DEF GrantsAgree, NoTurn
      <3>. QED
        BY <2>1, <3>6, <3>7 DEF TurnsOf
    <2>. QED
      BY <1>3, <2>6, <2>7 DEF ReadFrame
  <1>. QED
    BY <1>1, <1>2, <1>3

LEMMA SubmitPinTurn ==
  ASSUME AccessInv, NEW v \in Viewer, TurnsOf(v), NEW w \in Viewer,
         NEW proof, SubmitPin(w, proof)
  PROVE  TurnsOf(v)'
  <1>1. CASE w # v
    BY <1>1, TurnKept DEF SubmitPin, Mine, AccessInv, TypeOK, hostVars
  <1>2. CASE w = v /\ conn[v] # "open"
    BY <1>2, TurnOver DEF SubmitPin, AccessInv, TypeOK, TurnsOf, Untouched
  <1>3. CASE w = v /\ conn[v] = "open"
    <2>1. /\ gate[v] = "challenged" /\ gate'[v] = "waiting" /\ conn'[v] = "open"
          /\ toHost'[v] = Append(toHost[v], [nonce |-> LastRead(v), proof |-> proof])
      BY <1>3 DEF SubmitPin, AccessInv, TypeOK
    <2>2. /\ mode' = mode /\ consent' = consent /\ Mine(v)' = Mine(v)
          /\ media' = media /\ authorized' = authorized /\ toViewer' = toViewer
      BY DEF SubmitPin, hostVars, Mine
    <2>3. OneTurn(v) /\ GrantsAgree(v)
      BY <1>3 DEF TurnsOf
    <2>4. mode \in PinModes => Len(toHost'[v]) <= 1
      BY <2>1, <2>3 DEF OneTurn
    <2>5. OneTurn(v)'
      BY <2>1, <2>2, <2>3, <2>4 DEF OneTurn, Challenges
    <2>6. GrantsAgree(v)'
      BY <2>1, <2>2, <2>3 DEF GrantsAgree, NoTurn, GrantSent, Challenges
    <2>. QED
      BY <2>1, <2>5, <2>6 DEF TurnsOf
  <1>. QED
    BY <1>1, <1>2, <1>3

\* Only a client that may answer twice takes this step.
LEMMA SubmitAgainTurn ==
  ASSUME AccessInv, NEW v \in Viewer \ Repeater, TurnsOf(v), NEW w \in Viewer,
         NEW proof, SubmitAgain(w, proof)
  PROVE  TurnsOf(v)'
  BY TurnKept DEF SubmitAgain, Mine, AccessInv, TypeOK, hostVars

LEMMA ReceiveResponseTurn ==
  ASSUME AccessInv, NEW v \in Viewer, TurnsOf(v), NEW w \in Viewer, ReceiveResponse(w)
  PROVE  TurnsOf(v)'
  <1>0. /\ mode' = mode /\ conn' = conn /\ gate' = gate /\ consent'[v] = consent[v]
    BY DEF ReceiveResponse, hostVars, FailAttempt, Refuse
  <1>r. ASSUME FailAttempt(w) PROVE \E lockedOut \in BOOLEAN : Refuse(w, lockedOut)
    <2>1. AddrOf[w] \in Addr /\ TypeOK
      BY AccessAssumption DEF AccessInv
    <2>2. locked'[AddrOf[w]] \in BOOLEAN
      BY <1>r, <2>1, FailureType DEF FailAttempt
    <2>. QED
      BY <1>r, <2>2 DEF FailAttempt
  <1>1. CASE w # v
    <2>1. toHost'[v] = toHost[v]
      BY <1>1 DEF ReceiveResponse, AccessInv, TypeOK
    <2>2. Mine(v)' = Mine(v)
      <3>1. \/ UNCHANGED attempts
            \/ \E att : att.viewer = w /\ attempts' = attempts \cup {att}
        BY DEF ReceiveResponse, hostVars
      <3>. QED
        BY <1>1, <3>1 DEF Mine
    <2>3. /\ toViewer'[v] = toViewer[v]
          /\ v \in authorized' <=> v \in authorized
          /\ v \in media' <=> v \in media
      <3>1. \/ UNCHANGED <<toViewer, authorized, media>>
            \/ denyViewer(w) \/ \E lockedOut \in BOOLEAN : Refuse(w, lockedOut)
        BY <1>r DEF ReceiveResponse, hostVars
      <3>. QED
        BY <1>1, <3>1, VerdictForOther DEF AccessInv
    <2>. QED
      BY <1>0, <2>1, <2>2, <2>3, TurnKept
  <1>2. CASE w = v /\ conn[v] # "open"
    BY <1>0, <1>2, TurnOver DEF ReceiveResponse, AccessInv, TypeOK, TurnsOf, Untouched
  <1>3. CASE w = v /\ conn[v] = "open" /\ mode \notin PinModes
    <2>1. UNCHANGED <<mode, conn, gate, hostVars, toViewer>>
      BY <1>3 DEF ReceiveResponse
    <2>. QED
      BY <1>3, <2>1 DEF TurnsOf, OneTurn, GrantsAgree, NoTurn, Mine, GrantSent, hostVars
  <1>4. CASE w = v /\ conn[v] = "open" /\ mode \in PinModes
    <2>1. OneTurn(v) /\ GrantsAgree(v)
      BY <1>4 DEF TurnsOf
    <2>2. toHost[v] # <<>>
      BY <1>4 DEF ReceiveResponse
    <2>3. /\ Challenges(v) = {} /\ gate[v] # "challenged" /\ Mine(v) = {} /\ consent[v] = 0
          /\ v \notin media
      BY <1>4, <2>1, <2>2 DEF OneTurn, GrantsAgree, NoTurn
    <2>4. toHost'[v] = <<>>
      <3>1. toHost[v] \in Seq(Response) /\ Len(toHost[v]) <= 1 /\ toHost'[v] = Tail(toHost[v])
        BY <1>4, <2>1 DEF ReceiveResponse, AccessInv, TypeOK, OneTurn
      <3>. QED
        BY <2>2, <3>1
    <2>5. CASE denyViewer(v) /\ UNCHANGED attempts
      <3>1. Mine(v)' = {}
        BY <2>3, <2>5 DEF Mine
      <3>. QED
        BY <1>0, <1>4, <2>3, <2>4, <2>5, <3>1, TurnDenied
    <2>6. ASSUME NEW lockedOut \in BOOLEAN, Refuse(v, lockedOut), UNCHANGED attempts
          PROVE  TurnsOf(v)'
      <3>1. Mine(v)' = {}
        BY <2>3, <2>6 DEF Mine
      <3>. QED
        BY <1>0, <1>4, <2>3, <2>4, <2>6, <3>1, TurnRefused
    <2>7. ASSUME NEW att, att.viewer = v, attempts' = attempts \cup {att},
                 UNCHANGED <<authorized, media, toViewer>>
          PROVE  TurnsOf(v)'
      <3>1. Mine(v)' = {att}
        BY <2>3, <2>7 DEF Mine
      <3>2. Challenges(v)' = {} /\ (GrantSent(v)' <=> GrantSent(v))
        BY <2>3, <2>7 DEF Challenges, GrantSent
      <3>3. OneTurn(v)'
        BY <1>0, <2>3, <2>4, <3>1, <3>2 DEF OneTurn
      <3>4. GrantsAgree(v)'
        BY <1>0, <2>1, <2>3, <2>7, <3>2 DEF GrantsAgree
      <3>. QED
        BY <1>0, <1>4, <3>3, <3>4 DEF TurnsOf
    <2>8. \/ denyViewer(v) /\ UNCHANGED attempts
          \/ (\E lockedOut \in BOOLEAN : Refuse(v, lockedOut)) /\ UNCHANGED attempts
          \/ \E att : /\ att.viewer = v /\ attempts' = attempts \cup {att}
                      /\ UNCHANGED <<authorized, media, toViewer>>
      BY <1>r, <1>4 DEF ReceiveResponse
    <2>. QED
      BY <2>5, <2>6, <2>7, <2>8
  <1>. QED
    BY <1>1, <1>2, <1>3, <1>4

LEMMA VerifyDoneTurn ==
  ASSUME AccessInv, NEW v \in Viewer, TurnsOf(v), NEW att \in attempts, VerifyDone(att)
  PROVE  TurnsOf(v)'
  <1>. DEFINE w == att.viewer
  <1>0. /\ mode' = mode /\ conn' = conn /\ gate' = gate /\ toHost' = toHost
        /\ w \in Viewer /\ AddrOf[w] \in Addr /\ TypeOK /\ mode \in PinModes
        /\ attempts' = attempts \ {att}
    BY AccessAssumption
    DEF VerifyDone, viewerVars, AccessInv, TypeOK, Attempt, VerifyOnlyInPinModes
  <1>r. \/ authorizeViewer(w) /\ UNCHANGED consent
        \/ /\ consent' = [consent EXCEPT ![w] = @ + 1]
           /\ UNCHANGED <<authorized, media, toViewer>>
        \/ (\E lockedOut \in BOOLEAN : Refuse(w, lockedOut)) /\ UNCHANGED consent
    <2>1. ASSUME FailAttempt(w) PROVE \E lockedOut \in BOOLEAN : Refuse(w, lockedOut)
      <3>1. locked'[AddrOf[w]] \in BOOLEAN
        BY <1>0, <2>1, FailureType DEF FailAttempt
      <3>. QED
        BY <2>1, <3>1 DEF FailAttempt
    <2>2. ASSUME FailAttempt(w) PROVE UNCHANGED consent
      BY <2>2 DEF FailAttempt, Refuse
    <2>. QED
      BY <2>1, <2>2 DEF VerifyDone, ProofAccepted, requestConsent
  <1>. HIDE DEF w
  <1>1. CASE w # v
    <2>1. Mine(v)' = Mine(v)
      BY <1>0, <1>1 DEF Mine, w
    <2>2. consent'[v] = consent[v]
      BY <1>0, <1>1, <1>r DEF TypeOK
    <2>3. /\ toViewer'[v] = toViewer[v]
          /\ v \in authorized' <=> v \in authorized
          /\ v \in media' <=> v \in media
      BY <1>0, <1>1, <1>r, VerdictForOther
    <2>. QED
      BY <1>0, <2>1, <2>2, <2>3, TurnKept
  <1>2. w = v => att \in Mine(v)
    BY DEF w, Mine
  <1>3. CASE w = v /\ conn[v] # "open"
    BY <1>0, <1>2, <1>3, TurnOver DEF AccessInv, TypeOK, TurnsOf, Untouched
  <1>4. CASE w = v /\ conn[v] = "open"
    <2>1. OneTurn(v) /\ GrantsAgree(v)
      BY <1>4 DEF TurnsOf
    <2>2. /\ Challenges(v) = {} /\ gate[v] # "challenged" /\ toHost[v] = <<>> /\ consent[v] = 0
          /\ v \notin media /\ Mine(v) = {att}
      BY <1>0, <1>2, <1>4, <2>1 DEF OneTurn, GrantsAgree, NoTurn
    <2>3. Mine(v)' = {}
      BY <1>0, <2>2 DEF Mine
    <2>4. CASE authorizeViewer(v) /\ UNCHANGED consent
      BY <1>0, <1>4, <2>2, <2>3, <2>4, TurnGranted
    <2>5. ASSUME NEW lockedOut \in BOOLEAN, Refuse(v, lockedOut), UNCHANGED consent
          PROVE  TurnsOf(v)'
      BY <1>0, <1>4, <2>2, <2>3, <2>5, TurnRefused
    <2>6. CASE /\ consent' = [consent EXCEPT ![v] = @ + 1]
               /\ UNCHANGED <<authorized, media, toViewer>>
      <3>1. consent'[v] = 1
        BY <1>0, <2>2, <2>6 DEF TypeOK
      <3>2. Challenges(v)' = {} /\ (GrantSent(v)' <=> GrantSent(v))
        BY <2>2, <2>6 DEF Challenges, GrantSent
      <3>3. OneTurn(v)'
        BY <1>0, <2>2, <2>3, <3>1, <3>2 DEF OneTurn
      <3>4. GrantsAgree(v)'
        BY <1>0, <2>1, <2>2, <2>6, <3>2 DEF GrantsAgree
      <3>. QED
        BY <1>0, <1>4, <3>3, <3>4 DEF TurnsOf
    <2>. QED
      BY <1>r, <1>4, <2>4, <2>5, <2>6
  <1>. QED
    BY <1>1, <1>3, <1>4

\* The human's answer finds the turn with the human.
LEMMA ConsentHasTheTurn ==
  ASSUME AccessInv, NEW v \in Viewer, TurnsOf(v), conn[v] = "open", consent[v] > 0,
         consent' = [consent EXCEPT ![v] = @ - 1], UNCHANGED <<mode, conn, attempts, gate, toHost>>
  PROVE  /\ v \notin media /\ consent'[v] = 0 /\ Mine(v)' = {}
         /\ Challenges(v) = {} \/ mode \notin PinModes
         /\ mode \in PinModes => gate'[v] # "challenged" /\ toHost'[v] = <<>>
  <1>1. OneTurn(v) /\ GrantsAgree(v)
    BY DEF TurnsOf
  <1>2. consent \in [Viewer -> Nat]
    BY DEF AccessInv, TypeOK
  <1>3. consent[v] = 1 /\ consent'[v] = 0
    BY <1>1, <1>2 DEF OneTurn
  <1>4. mode \in PinModes => /\ Challenges(v) = {} /\ gate[v] # "challenged"
                             /\ toHost[v] = <<>> /\ Mine(v) = {}
    BY <1>1, <1>3 DEF OneTurn
  <1>5. Mine(v) = {}
    BY <1>4 DEF AccessInv, VerifyOnlyInPinModes, Mine
  <1>. QED
    BY <1>1, <1>3, <1>4, <1>5 DEF GrantsAgree, NoTurn, Mine

LEMMA ConsentAcceptTurn ==
  ASSUME AccessInv, NEW v \in Viewer, TurnsOf(v), NEW w \in Viewer,
         NEW alsoAlways, ConsentAccept(w, alsoAlways)
  PROVE  TurnsOf(v)'
  <1>0. /\ UNCHANGED <<mode, conn, attempts, gate, toHost>> /\ authorizeViewer(w)
        /\ consent[w] > 0 /\ consent' = [consent EXCEPT ![w] = @ - 1]
    BY DEF ConsentAccept, viewerVars
  <1>1. CASE w # v
    <2>1. Mine(v)' = Mine(v) /\ consent'[v] = consent[v]
      BY <1>0, <1>1 DEF Mine, AccessInv, TypeOK
    <2>2. /\ toViewer'[v] = toViewer[v]
          /\ v \in authorized' <=> v \in authorized
          /\ v \in media' <=> v \in media
      BY <1>0, <1>1, VerdictForOther DEF AccessInv
    <2>. QED
      BY <1>0, <2>1, <2>2, TurnKept
  <1>2. CASE w = v /\ conn[v] # "open"
    <2>1. conn[v] = "left"
      BY <1>0, <1>2 DEF AccessInv, TypeOK, TurnsOf, Untouched
    <2>. QED
      BY <1>0, <2>1, TurnOver
  <1>3. CASE w = v /\ conn[v] = "open"
    BY <1>0, <1>3, ConsentHasTheTurn, TurnGranted
  <1>. QED
    BY <1>1, <1>2, <1>3

LEMMA ConsentRejectTurn ==
  ASSUME AccessInv, NEW v \in Viewer, TurnsOf(v), NEW w \in Viewer, ConsentReject(w)
  PROVE  TurnsOf(v)'
  <1>0. /\ UNCHANGED <<mode, conn, attempts, gate, toHost>> /\ denyViewer(w)
        /\ consent[w] > 0 /\ consent' = [consent EXCEPT ![w] = @ - 1]
    BY DEF ConsentReject, viewerVars
  <1>1. CASE w # v
    <2>1. Mine(v)' = Mine(v) /\ consent'[v] = consent[v]
      BY <1>0, <1>1 DEF Mine, AccessInv, TypeOK
    <2>2. /\ toViewer'[v] = toViewer[v]
          /\ v \in authorized' <=> v \in authorized
          /\ v \in media' <=> v \in media
      BY <1>0, <1>1, VerdictForOther DEF AccessInv
    <2>. QED
      BY <1>0, <2>1, <2>2, TurnKept
  <1>2. CASE w = v /\ conn[v] # "open"
    <2>1. conn[v] = "left"
      BY <1>0, <1>2 DEF AccessInv, TypeOK, TurnsOf, Untouched
    <2>. QED
      BY <1>0, <2>1, TurnOver
  <1>3. CASE w = v /\ conn[v] = "open"
    BY <1>0, <1>3, ConsentHasTheTurn, TurnDenied
  <1>. QED
    BY <1>1, <1>2, <1>3

LEMMA TurnStep ==
  ASSUME AccessInv, TurnInv, [Next]_vars
  PROVE  TurnInv'
  <1>1. SUFFICES ASSUME NEW v \in Viewer \ Repeater PROVE TurnsOf(v)'
    BY DEF TurnInv
  <1>2. TurnsOf(v) /\ v \in Viewer
    BY DEF TurnInv
  <1>3. ASSUME NEW w \in Viewer,
               \/ Join(w) \/ ControlOpen(w) \/ Leave(w) \/ ReadFrame(w)
               \/ ReceiveResponse(w) \/ ConsentReject(w)
        PROVE  TurnsOf(v)'
    BY <1>2, <1>3, JoinTurn, ControlOpenTurn, LeaveTurn, ReadFrameTurn,
       ReceiveResponseTurn, ConsentRejectTurn
  <1>4. ASSUME NEW w \in Viewer,
               \/ \E proof \in {"right", "wrong"} : SubmitPin(w, proof)
               \/ \E proof \in {"right", "wrong", "malformed"} : SubmitAgain(w, proof)
               \/ \E alsoAlways \in BOOLEAN : ConsentAccept(w, alsoAlways)
        PROVE  TurnsOf(v)'
    BY <1>2, <1>4, SubmitPinTurn, SubmitAgainTurn, ConsentAcceptTurn
  <1>5. ASSUME NEW att \in attempts, VerifyDone(att) PROVE TurnsOf(v)'
    BY <1>2, <1>5, VerifyDoneTurn
  <1>6. ASSUME NEW a \in Addr, LockExpires(a) PROVE TurnsOf(v)'
    BY <1>2, <1>6, TurnKept DEF LockExpires, Mine, viewerVars
  <1>7. ASSUME Stop PROVE TurnsOf(v)'
    BY <1>2, <1>7, TurnOver DEF Stop
  <1>8. ASSUME UNCHANGED vars PROVE TurnsOf(v)'
    BY <1>2, <1>8, TurnKept DEF vars, hostVars, viewerVars, Mine
  <1>. QED
    BY <1>3, <1>4, <1>5, <1>6, <1>7, <1>8 DEF Next

(***************************************************************************)
(* A viewer that answers each challenge once and shows itself connected is *)
(* authorized at the host and has the screen: the verdicts of              *)
(* authorizeViewer() and denyViewer() reach ViewerSession.onAuthResult()   *)
(* in the order in which the host's own tables changed.                    *)
(***************************************************************************)
THEOREM AccessEndsAgree == Spec => []EndsAgree
  <1>1. AccessInv /\ TurnInv /\ [Next]_vars => TurnInv'
    BY TurnStep
  <1>2. TurnInv => EndsAgree
    BY DEF TurnInv, TurnsOf, GrantsAgree, EndsAgree
  <1>. QED
    BY <1>1, <1>2, InitTurns, AccessInvariant, PTL DEF Spec

=============================================================================
