--------------------------- MODULE HostSessionProofs ---------------------------
(***************************************************************************)
(* Proofs about a host session: its adaptive loop (AdaptiveLoop) and, in   *)
(* the last part, its life (HostLifecycle).  The two share no variable.    *)
(*                                                                         *)
(* The adaptive loop keeps its invariant for any viewers, ticks, presets   *)
(* and links.  LoopInv is inductive as it stands: EncodersKeepUp needs the *)
(* bounds of TypeOK, ReportsAreOfConnected only itself.                    *)
(*                                                                         *)
(* And the worst viewer governs: the connected viewers are finitely many,  *)
(* so there is a worst report, which the sample of a decision cannot be    *)
(* below.  That a finite set of numbers has a greatest one is shown from a *)
(* least set that has none.                                                *)
(***************************************************************************)
EXTENDS AdaptiveLoop, HostLifecycle, FiniteSetTheorems, WellFoundedInduction, TLAPS

\* A clamped level is within the preset's range.
LEMMA ClampInRange ==
  ASSUME NEW p \in Preset, NEW level \in Nat
  PROVE  Clamp(p, level) \in 0..Ceiling[p]
  BY LoopAssumption DEF Clamp, Lower, Higher

\* Every phase leaves the controller at a level, and an increase adds at
\* most one to a level that is within range.
LEMMA LevelsInRange ==
  ASSUME TypeOK, NEW headroom \in Headroom,
         NEW ph \in {"INCREASE", "HOLD", "DECREASE"}, NEW level \in Levels(ph, headroom)
  PROVE  /\ level \in Nat
         /\ ph = "INCREASE" => /\ current <= Clamp(preset, level)
                               /\ Clamp(preset, level) <= current + 1
<1> USE LoopAssumption DEF TypeOK
<1>0. current \in Nat /\ current <= Ceiling[preset] /\ Ceiling[preset] \in Nat /\ headroom \in Nat
  OBVIOUS
<1>1. CASE ph = "INCREASE"
  <2>1. level = Lower(current + 1, Higher(current, headroom))
    BY <1>1 DEF Levels
  <2>2. level \in Nat /\ current <= level /\ level <= current + 1
    BY <1>0, <2>1 DEF Lower, Higher
  <2>. QED BY <1>0, <2>2 DEF Clamp, Lower, Higher
<1>2. CASE ph = "HOLD"
  BY <1>0, <1>2 DEF Levels
<1>3. CASE ph = "DECREASE"
  <2>1. PICK k \in Backoff : level = Lower(Higher(0, current - k), headroom)
    BY <1>3 DEF Levels
  <2>. QED BY <1>0, <1>3, <2>1 DEF Lower, Higher
<1>. QED BY <1>1, <1>2, <1>3

\* Initially nobody is there and the controller is at its baseline.
LEMMA LoopInit == Init => LoopInv
<1> SUFFICES ASSUME Init PROVE LoopInv
  OBVIOUS
<1> USE LoopAssumption
<1>1. current \in 0..Ceiling[preset]
  BY ClampInRange DEF Init
<1>2. TypeOK
  BY <1>1 DEF Init, TypeOK
<1>. QED BY <1>2 DEF Init, LoopInv, ReportsAreOfConnected, EncodersKeepUp

\* What Forget leaves of a state in which the invariant holds.
LEMMA ForgetKeeps ==
  ASSUME LoopInv, NEW vs \in SUBSET conns, Forget(vs), up' \in BOOLEAN, paths' \subseteq Link,
         UNCHANGED <<preset, current, pending>>, count' \in 0..(Confirm - 1),
         count' = count \/ vs = conns
  PROVE  LoopInv'
<1> USE DEF LoopInv, Forget
<1>1. synced' \subseteq Senders' /\ denied' \subseteq Senders'
  BY DEF TypeOK, Senders
<1>2. TypeOK'
  BY <1>1 DEF TypeOK
<1>3. ReportsAreOfConnected'
  BY DEF TypeOK, ReportsAreOfConnected
<1>4. EncodersKeepUp'
  <2> SUFFICES ASSUME NEW v \in synced'
               PROVE  (enc[v] \in Nat /\ enc[v] <= current /\ current <= enc[v] + count)'
    BY DEF EncodersKeepUp
  <2>1. v \in synced /\ v \notin vs /\ v \in Viewer /\ v \in conns
    BY DEF TypeOK, Senders
  <2>2. enc'[v] = enc[v] /\ count' = count
    BY <2>1
  <2>. QED BY <2>1, <2>2 DEF EncodersKeepUp
<1>. QED BY <1>2, <1>3, <1>4

\* A decision keeps the invariant: an increase that is held back is counted,
\* and everything else reaches the encoders.
LEMMA DecisionKeeps ==
  ASSUME LoopInv, NEW t \in Tick,
         NEW ph \in {"INCREASE", "HOLD", "DECREASE"}, Decides(t, ph)
  PROVE  LoopInv'
<1> USE LoopAssumption DEF LoopInv
<1>1. pending[t] \in Sample
  BY DEF Decides, TypeOK
<1>2. pending[t].headroom \in Headroom
  BY <1>1 DEF Sample
<1>3. PICK level \in Levels(ph, pending[t].headroom) :
        current' = Clamp(preset, level) /\ Gate(ph, Clamp(preset, level))
  BY DEF Decides
<1>4. /\ level \in Nat
      /\ ph = "INCREASE" => current <= current' /\ current' <= current + 1
  BY <1>2, <1>3, LevelsInRange
<1>5. current' \in 0..Ceiling[preset]
  BY <1>3, <1>4, ClampInRange DEF TypeOK
<1>6. UNCHANGED <<up, conns, sender, denied, report, paths, preset>>
  BY DEF Decides, viewers
<1>7. pending' \in [Tick -> Sample \cup {Idle}]
  BY DEF Decides, TypeOK
<1>8. ReportsAreOfConnected'
  BY <1>6 DEF ReportsAreOfConnected
<1>9. CASE ph = "INCREASE" /\ count + 1 < Confirm
  <2>1. count' = count + 1 /\ UNCHANGED <<enc, synced>>
    BY <1>3, <1>9 DEF Gate, encoders
  <2>2. count' \in 0..(Confirm - 1)
    BY <1>9, <2>1 DEF TypeOK
  <2>3. TypeOK'
    BY <1>5, <1>6, <1>7, <2>1, <2>2 DEF TypeOK, Senders
  <2>4. EncodersKeepUp'
    <3> SUFFICES ASSUME NEW v \in synced
                 PROVE  enc[v] \in Nat /\ enc[v] <= current' /\ current' <= enc[v] + (count + 1)
      BY <2>1 DEF EncodersKeepUp
    <3>1. enc[v] \in Nat /\ enc[v] <= current /\ current <= enc[v] + count
      BY DEF EncodersKeepUp
    <3>2. current \in Int /\ count \in Int /\ current' \in Int
      BY <1>5 DEF TypeOK
    <3>. QED BY <1>4, <1>9, <3>1, <3>2
  <2>. QED BY <1>8, <2>3, <2>4
<1>10. CASE ~(ph = "INCREASE" /\ count + 1 < Confirm)
  <2>1. count' = 0 /\ Apply(current')
    BY <1>3, <1>10 DEF Gate
  <2>2. PICK refused \in SUBSET {v \in Senders : sender[v] = "fresh"} :
          /\ enc' = [v \in Viewer |-> IF v \in Senders \ refused THEN current' ELSE enc[v]]
          /\ synced' = Senders \ refused
    BY <2>1 DEF Apply
  <2>3. current' \in Nat
    BY <1>5 DEF TypeOK
  <2>4. TypeOK'
    BY <1>5, <1>6, <1>7, <2>1, <2>2, <2>3 DEF TypeOK, Senders
  <2>5. \A v \in synced' : enc'[v] = current'
    BY <2>2 DEF TypeOK, Senders
  <2>6. EncodersKeepUp'
    BY <2>1, <2>3, <2>5 DEF EncodersKeepUp
  <2>. QED BY <1>8, <2>4, <2>6
<1>. QED BY <1>9, <1>10

\* Every step keeps the invariant.
LEMMA LoopStep == LoopInv /\ [Next]_vars => LoopInv'
<1> SUFFICES ASSUME LoopInv, [Next]_vars PROVE LoopInv'
  OBVIOUS
<1> USE LoopAssumption DEF LoopInv
<1>1. CASE UNCHANGED vars
  BY <1>1 DEF vars, viewers, control, encoders, TypeOK, Senders, ReportsAreOfConnected,
              EncodersKeepUp
<1>2. ASSUME NEW v \in Viewer, Joins(v) PROVE LoopInv'
  <2>1. TypeOK'
    BY <1>2 DEF Joins, control, encoders, TypeOK, Senders
  <2>. QED BY <1>2, <2>1 DEF Joins, control, encoders, ReportsAreOfConnected, EncodersKeepUp
<1>3. ASSUME NEW v \in Viewer, Authorize(v) \/ Deny(v) \/ Negotiated(v) PROVE LoopInv'
  <2>1. Senders' = Senders \cup (IF Authorize(v) THEN {v} ELSE {})
    BY <1>3 DEF Authorize, Deny, Negotiated, TypeOK, Senders
  <2>2. TypeOK'
    BY <1>3, <2>1 DEF Authorize, Deny, Negotiated, control, encoders, TypeOK, Admitted
  <2>. QED BY <1>3, <2>2 DEF Authorize, Deny, Negotiated, control, encoders,
                             ReportsAreOfConnected, EncodersKeepUp
<1>4. ASSUME NEW v \in Viewer, Leaves(v) PROVE LoopInv'
  BY <1>4, ForgetKeeps DEF Leaves, control, TypeOK
<1>5. ASSUME NEW v \in Viewer, Reports(v) PROVE LoopInv'
  <2>1. PICK l \in paths : report' = [report EXCEPT ![v] = Seen(l)]
    BY <1>5 DEF Reports
  <2>2. Seen(l) \in Report
    BY DEF Seen, Report, TypeOK
  <2>3. TypeOK'
    BY <1>5, <2>1, <2>2 DEF Reports, control, encoders, TypeOK, Senders
  <2>4. ReportsAreOfConnected'
    BY <1>5, <2>1 DEF Reports, Admitted, Senders, TypeOK, ReportsAreOfConnected
  <2>. QED BY <1>5, <2>3, <2>4 DEF Reports, control, encoders, EncodersKeepUp
<1>6. ASSUME NEW v \in Viewer, NEW p \in Preset, Quality(v, p) PROVE LoopInv'
  <2>1. Clamp(p, Start) \in 0..Ceiling[p]
    BY ClampInRange 
  <2>2. TypeOK'
    BY <1>6, <2>1 DEF Quality, viewers, TypeOK, Senders
  <2>. QED BY <1>6, <2>2 DEF Quality, viewers, ReportsAreOfConnected, EncodersKeepUp
<1>7. ASSUME NEW t \in Tick, TickStarts(t) \/ TickFails(t) PROVE LoopInv'
  <2>1. pending' \in [Tick -> Sample \cup {Idle}]
    BY <1>7 DEF TickStarts, TickFails, TypeOK
  <2>2. UNCHANGED <<up, viewers, paths, control, encoders>>
    BY <1>7 DEF TickStarts, TickFails
  <2>. QED BY <2>1, <2>2 DEF viewers, control, encoders, TypeOK, Senders, ReportsAreOfConnected,
                             EncodersKeepUp
<1>8. ASSUME NEW t \in Tick, NEW ph \in {"INCREASE", "HOLD", "DECREASE"}, Decides(t, ph)
      PROVE  LoopInv'
  BY <1>8, DecisionKeeps
<1>9. ASSUME NEW c \in Climate, Settle(c) PROVE LoopInv'
  BY <1>9 DEF Settle, viewers, control, encoders, TypeOK, Senders, ReportsAreOfConnected,
              EncodersKeepUp
<1>10. ASSUME Stop PROVE LoopInv'
  <2>1. up' \in BOOLEAN /\ paths' \subseteq Link /\ Forget(conns)
    BY <1>10 DEF Stop, TypeOK
  <2>2. UNCHANGED <<preset, current, pending>>
    BY <1>10 DEF Stop
  <2>3. count' \in 0..(Confirm - 1)
    BY <1>10 DEF Stop
  <2>. QED BY <2>1, <2>2, <2>3, ForgetKeeps
<1>. QED BY <1>1, <1>2, <1>3, <1>4, <1>5, <1>6, <1>7, <1>8, <1>9, <1>10 DEF Next

(***************************************************************************)
(* Every reachable state is well typed, the reports that are heeded are of *)
(* connected viewers, and an encoder that took the last decision lags the  *)
(* controller by no more than the increases the gate has counted.          *)
(***************************************************************************)
THEOREM LoopCorrect == Spec => []LoopInv
<1>. QED BY LoopInit, LoopStep, PTL DEF Spec

----------------------------------------------------------------------------
(* The viewer that is worst off *)

\* A greatest number exists where there are finitely many: of the finite sets
\* without one a least one would lose nothing by losing an element.
LEMMA GreatestExists ==
  ASSUME NEW S \in SUBSET Nat, IsFiniteSet(S), S # {}
  PROVE  Max(S) \in S /\ \A y \in S : Max(S) >= y
<1>. DEFINE Greatest(R, x) == x \in R /\ \A y \in R : x >= y
            Without == {R \in FiniteSubsetsOf(S) : R # {} /\ ~ \E x \in R : Greatest(R, x)}
<1>1. ASSUME Without # {} PROVE FALSE
  <2>1. PICK R \in Without : \A Q \in Without : <<Q, R>> \notin StrictSubsetOrdering(S)
    <3>. HIDE DEF Without
    <3>1. Without \subseteq FiniteSubsetsOf(S)
      BY DEF Without
    <3>. QED BY <1>1, <3>1, FS_StrictSubsetOrderingWellFounded, WFMin, Zenon
  <2>2. R \subseteq S /\ IsFiniteSet(R) /\ R # {} /\ ~ \E x \in R : Greatest(R, x)
    BY DEF FiniteSubsetsOf
  <2>3. PICK x \in R : TRUE
    BY <2>2
  <2>4. R \ {x} \subseteq S /\ IsFiniteSet(R \ {x})
    BY <2>2, FS_RemoveElement
  <2>5. R \ {x} \notin Without
    BY <2>1, <2>2, <2>3, <2>4 DEF StrictSubsetOrdering
  <2>6. CASE R \ {x} = {}
    BY <2>2, <2>3, <2>6
  <2>7. CASE R \ {x} # {}
    <3>1. PICK m \in R \ {x} : Greatest(R \ {x}, m)
      BY <2>4, <2>5, <2>7 DEF FiniteSubsetsOf
    <3>2. m \in Nat /\ x \in Nat
      BY <2>2, <2>3, <3>1
    <3>3. CASE m >= x
      BY <2>2, <3>1, <3>3
    <3>4. CASE x >= m
      <4>1. \A y \in R : y \in Nat /\ x >= y
        BY <2>2, <3>1, <3>2, <3>4
      <4>. QED BY <2>2, <2>3, <4>1
    <3>. QED BY <3>2, <3>3, <3>4
  <2>. QED BY <2>6, <2>7
<1>2. \E x \in S : \A y \in S : x >= y
  BY <1>1, FS_Subset DEF FiniteSubsetsOf
<1>. QED BY <1>2 DEF Max

(***************************************************************************)
(* Whoever is heeded is connected, and only so many are at a time.         *)
(***************************************************************************)
FewConnected == IsFiniteSet(conns)

LEMMA FewInit == Init => FewConnected
  BY FS_EmptySet DEF Init, FewConnected

LEMMA FewStep ==
  ASSUME FewConnected, [Next]_vars
  PROVE  FewConnected'
<1>1. ASSUME NEW v, conns' = conns \cup {v} PROVE FewConnected'
  BY <1>1, FS_AddElement DEF FewConnected
<1>2. ASSUME NEW vs, conns' = conns \ vs PROVE FewConnected'
  BY <1>2, FS_Difference DEF FewConnected
<1>3. CASE \E v \in Viewer : Joins(v)
  BY <1>1, <1>3 DEF Joins
<1>4. CASE Stop \/ \E v \in Viewer : Leaves(v)
  BY <1>2, <1>4 DEF Stop, Leaves, Forget
<1>5. CASE UNCHANGED conns
  BY <1>5 DEF FewConnected
<1>. QED
  BY <1>3, <1>4, <1>5 DEF Next, vars, viewers, Authorize, Deny, Negotiated, Reports, Quality,
                          TickStarts, TickFails, Decides, Settle

LEMMA FewReported ==
  ASSUME LoopInv, FewConnected
  PROVE  IsFiniteSet(Reported) /\ Reported \subseteq Report
<1>. DEFINE heeded == {report[v] : v \in conns}
<1>1. Reported \subseteq heeded /\ Reported \subseteq Report
  BY DEF LoopInv, TypeOK, ReportsAreOfConnected, Reported
<1>2. IsFiniteSet(heeded)
  <2>1. [v \in conns |-> report[v]] \in Surjection(conns, heeded)
    BY DEF Surjection
  <2>. QED BY <2>1, FS_Surjection DEF FewConnected, ExistsSurjection
<1>. QED BY <1>1, <1>2, FS_Subset

\* A fold into the worst is at least what any of the viewers reported.
LEMMA WorstIsFolded ==
  ASSUME LoopInv, FewConnected, NEW s \in Sample, NEW r \in Reported
  PROVE  LET w == WithReports(s, Reported)
         IN w.rtt \in Nat /\ w.playout \in Nat /\ w.rtt + w.playout >= r.rtt + r.playout
<1>. DEFINE rtts == {q.rtt : q \in Reported}
            playouts == {q.playout : q \in Reported}
<1>1. IsFiniteSet(Reported) /\ Reported \subseteq Report /\ Latency \subseteq Nat
  BY FewReported, LoopAssumption
<1>2. IsFiniteSet(rtts) /\ IsFiniteSet(playouts)
  <2>1. /\ [q \in Reported |-> q.rtt] \in Surjection(Reported, rtts)
        /\ [q \in Reported |-> q.playout] \in Surjection(Reported, playouts)
    BY DEF Surjection
  <2>. QED BY <1>1, <2>1, FS_Surjection DEF ExistsSurjection
<1>3. s.rtt \in Nat /\ \A q \in Reported : q.rtt \in Nat /\ q.playout \in Nat
  BY <1>1 DEF Sample, Report
<1>4. {s.rtt} \cup rtts \in SUBSET Nat /\ {0} \cup playouts \in SUBSET Nat
  BY <1>3
<1>5. IsFiniteSet({s.rtt} \cup rtts) /\ IsFiniteSet({0} \cup playouts)
  BY <1>2, FS_Singleton, FS_Union
<1>6. Max({s.rtt} \cup rtts) \in Nat /\ Max({s.rtt} \cup rtts) >= r.rtt
  BY <1>4, <1>5, GreatestExists
<1>7. Max({0} \cup playouts) \in Nat /\ Max({0} \cup playouts) >= r.playout
  BY <1>4, <1>5, GreatestExists
<1>. QED BY <1>3, <1>6, <1>7 DEF WithReports

\* A back-off lowers, and the clamp does not raise again.
LEMMA BackoffLowers ==
  ASSUME TypeOK, NEW headroom \in Headroom, NEW level \in Levels("DECREASE", headroom)
  PROVE  Clamp(preset, level) <= current
<1>. USE LoopAssumption DEF TypeOK
<1>1. PICK k \in Backoff : level = Lower(Higher(0, current - k), headroom)
  BY DEF Levels
<1>2. k \in Nat /\ current \in Nat /\ headroom \in Nat /\ Ceiling[preset] \in Nat
  OBVIOUS
<1>3. level \in Nat /\ level <= current
  BY <1>1, <1>2 DEF Lower, Higher
<1>. QED BY <1>2, <1>3 DEF Clamp, Lower, Higher

LEMMA OverBudgetLowers ==
  ASSUME LoopInv, FewConnected, NEW v \in conns, OverBudget(v),
         NEW t \in Tick, NEW ph \in {"INCREASE", "HOLD", "DECREASE"}, Decides(t, ph)
  PROVE  /\ current' <= current
         /\ \A w \in conns : sender[w] = "ready" => enc'[w] = current'
<1>. DEFINE s == pending[t]
            r == report[v]
<1>1. s \in Sample /\ TypeOK /\ conns \subseteq Viewer
  BY DEF Decides, LoopInv, TypeOK
<1>2. r \in Reported /\ r \in Report /\ r.rtt + r.playout > Hard
  BY <1>1 DEF OverBudget, Reported, TypeOK
<1>3. r.rtt \in Nat /\ r.playout \in Nat /\ Hard \in Nat
  BY <1>2, LoopAssumption DEF Report
<1>4. Congested(s, WithReports(s, Reported))
  <2>. DEFINE w == WithReports(s, Reported)
  <2>1. w.rtt \in Nat /\ w.playout \in Nat /\ w.rtt + w.playout >= r.rtt + r.playout
    BY <1>1, <1>2, WorstIsFolded
  <2>0. r.rtt + r.playout > Hard /\ r.rtt \in Nat /\ r.playout \in Nat /\ Hard \in Nat
    BY <1>2, <1>3
  <2>2. w.rtt + w.playout > Hard
    <3>. HIDE DEF w, r
    <3>. QED BY <2>0, <2>1
  <2>. QED BY <2>2 DEF Congested
<1>5. ph = "DECREASE"
  BY <1>4 DEF Decides, Phase
<1>6. PICK level \in Levels("DECREASE", s.headroom) :
        current' = Clamp(preset, level) /\ Gate("DECREASE", Clamp(preset, level))
  BY <1>5 DEF Decides
<1>7. current' <= current
  <2>1. s.headroom \in Headroom
    BY <1>1 DEF Sample
  <2>. QED BY <1>1, <1>6, <2>1, BackoffLowers
<1>8. Apply(current')
  BY <1>6 DEF Gate
<1>9. ASSUME NEW w \in conns, sender[w] = "ready" PROVE enc'[w] = current'
  BY <1>1, <1>8, <1>9 DEF Apply, Senders
<1>. QED BY <1>7, <1>9

(***************************************************************************)
(* While a connected viewer reports a latency over the hard budget, every  *)
(* decision is a back-off, whatever was measured and whichever preset and  *)
(* ticks there are, and it reaches each encoder that is negotiated.        *)
(***************************************************************************)
THEOREM LoopWorstViewerGoverns == Spec => WorstViewerGoverns
<1>. DEFINE Governs ==
       \A t \in Tick :
         (\E v \in conns : OverBudget(v))
           /\ (\E ph \in {"INCREASE", "HOLD", "DECREASE"} : Decides(t, ph))
         => /\ current' <= current
            /\ \A v \in conns : sender[v] = "ready" => enc'[v] = current'
<1>1. LoopInv /\ FewConnected => Governs
  BY OverBudgetLowers
<1>2. LoopInv /\ FewConnected /\ [Next]_vars => [Governs]_vars
  BY <1>1
<1>3. FewConnected /\ [Next]_vars => FewConnected'
  BY FewStep
<1>. QED BY <1>2, <1>3, FewInit, LoopCorrect, PTL DEF Spec, WorstViewerGoverns

----------------------------------------------------------------------------
(* The life of a session: type correctness, that a listed room has a       *)
(* screen, and that nothing escapes the controller while its starts do not *)
(* overlap.                                                                *)

(***************************************************************************)
(* A client that is not closed, and a capture, belong to a start past its  *)
(* capture or to a live session, and the client never goes without the     *)
(* capture.                                                                *)
(***************************************************************************)
Equipped ==
  \A j \in Session :
    /\ client[j] \in {"opening", "open"} => j \in stream
    /\ j \in stream => phase[j] \in {"socket", "ack", "live"}

(***************************************************************************)
(* Without overlaps there is one start at a time, it begins with nothing   *)
(* to switch in place, and what it leads to is what the controller knows.  *)
(***************************************************************************)
Serial ==
  ~overlapped =>
    \A j \in Session :
      /\ Starting(j) => currentSession = None /\ \A k \in Session : Starting(k) => k = j
      /\ phase[j] = "live" => currentSession = j

LifecycleInv == LifecycleTypeOK /\ AdvertisedHasScreen /\ Equipped /\ Serial

LEMMA InitLifecycle == LifecycleInit => LifecycleInv
  <1>1. LifecycleInit => LifecycleTypeOK
    BY DEF LifecycleInit, LifecycleTypeOK
  <1>2. LifecycleInit => AdvertisedHasScreen /\ Equipped /\ Serial
    BY DEF LifecycleInit, AdvertisedHasScreen, Equipped, Serial, Starting
  <1>. QED
    BY <1>1, <1>2 DEF LifecycleInv

(***************************************************************************)
(* The server's view of a connection that ended: if it takes the holder's  *)
(* for the present one afterwards, it did so before, and it is another's.  *)
(***************************************************************************)
LEMMA HangUpKeeps ==
  ASSUME LifecycleTypeOK, NEW j \in Session, HangUp(j)
  PROVE  /\ holder' \in Session \cup {Free, Other}
         /\ fresh' \in BOOLEAN
         /\ fresh' => fresh /\ holder' = holder /\ holder # j
  <1>1. CASE UNCHANGED holder /\ fresh' = (fresh /\ holder # j)
    <2>1. fresh' \in BOOLEAN
      BY <1>1, Zenon
    <2>. QED
      BY <1>1, <2>1 DEF LifecycleTypeOK
  <1>2. CASE asked[j] = "sent" /\ holder = Free /\ holder' = j /\ fresh' = FALSE
    BY <1>2
  <1>. QED
    BY <1>1, <1>2 DEF HangUp

(***************************************************************************)
(* A start that fails takes its capture and its client with it; without    *)
(* overlaps there is no other session whose reference could be dropped.    *)
(***************************************************************************)
LEMMA StartFailsStep ==
  ASSUME LifecycleInv, NEW j \in Session, Starting(j), StartFails(j)
  PROVE  LifecycleInv'
  <1>1. /\ holder' \in Session \cup {Free, Other}
        /\ fresh' \in BOOLEAN
        /\ fresh' => fresh /\ holder' = holder /\ holder # j
    BY HangUpKeeps DEF LifecycleInv, StartFails, StopSession
  <1>2. LifecycleTypeOK'
    BY <1>1 DEF LifecycleInv, LifecycleTypeOK, StartFails, StopSession
  <1>3. AdvertisedHasScreen'
    BY <1>1 DEF LifecycleInv, LifecycleTypeOK, AdvertisedHasScreen, StartFails, StopSession
  <1>4. Equipped'
    BY DEF LifecycleInv, LifecycleTypeOK, Equipped, StartFails, StopSession
  <1>5. Serial'
    BY DEF LifecycleInv, LifecycleTypeOK, Serial, Starting, StartFails
  <1>. QED
    BY <1>2, <1>3, <1>4, <1>5 DEF LifecycleInv

LEMMA StartStep ==
  ASSUME LifecycleInv, NEW j \in Session, StartSession(j)
  PROVE  LifecycleInv'
  <1>1. overlapped' \in BOOLEAN
    BY Zenon DEF StartSession
  <1>2. LifecycleTypeOK'
    BY <1>1 DEF LifecycleInv, LifecycleTypeOK, StartSession
  <1>3. AdvertisedHasScreen' /\ Equipped'
    BY DEF LifecycleInv, LifecycleTypeOK, AdvertisedHasScreen, Equipped, StartSession
  <1>4. Serial'
    <2>. SUFFICES ASSUME ~overlapped'
                  PROVE  \A k \in Session : /\ Starting(k)' => currentSession' = None /\ k = j
                                            /\ phase'[k] # "live"
      BY DEF Serial
    <2>1. ~overlapped /\ \A k \in Session : ~Starting(k)
      BY DEF StartSession
    <2>2. \A k \in Session : phase[k] # "live"
      BY <2>1, LifecycleAssumption DEF LifecycleInv, Serial, StartSession
    <2>. QED
      BY <2>1, <2>2 DEF LifecycleInv, LifecycleTypeOK, StartSession, Starting
  <1>. QED
    BY <1>2, <1>3, <1>4 DEF LifecycleInv

LEMMA CapturedStep ==
  ASSUME LifecycleInv, NEW j \in Session, Captured(j)
  PROVE  LifecycleInv'
  <1>1. LifecycleTypeOK'
    BY DEF LifecycleInv, LifecycleTypeOK, Equipped, Captured
  <1>2. AdvertisedHasScreen' /\ Equipped'
    BY DEF LifecycleInv, LifecycleTypeOK, AdvertisedHasScreen, Equipped, Captured
  <1>3. Serial'
    BY DEF LifecycleInv, LifecycleTypeOK, Serial, Starting, Captured
  <1>. QED
    BY <1>1, <1>2, <1>3 DEF LifecycleInv

LEMMA SocketStep ==
  ASSUME LifecycleInv, NEW j \in Session,
         SocketOpens(j) \/ SocketDrops(j) \/ JoinDeadline(j)
  PROVE  LifecycleInv'
  <1>1. CASE SocketOpens(j)
    <2>1. LifecycleTypeOK'
      BY <1>1 DEF LifecycleInv, LifecycleTypeOK, SocketOpens
    <2>2. AdvertisedHasScreen' /\ Equipped'
      BY <1>1 DEF LifecycleInv, LifecycleTypeOK, AdvertisedHasScreen, Equipped, SocketOpens
    <2>3. Serial'
      BY <1>1 DEF LifecycleInv, LifecycleTypeOK, Serial, Starting, SocketOpens
    <2>. QED
      BY <2>1, <2>2, <2>3 DEF LifecycleInv
  <1>2. CASE SocketDrops(j)
    <2>1. /\ holder' \in Session \cup {Free, Other}
          /\ fresh' \in BOOLEAN
          /\ fresh' => fresh /\ holder' = holder /\ holder # j
      BY <1>2, HangUpKeeps DEF LifecycleInv, SocketDrops
    <2>2. LifecycleTypeOK'
      BY <1>2, <2>1 DEF LifecycleInv, LifecycleTypeOK, SocketDrops, session
    <2>3. AdvertisedHasScreen' /\ Equipped'
      BY <1>2, <2>1
      DEF LifecycleInv, LifecycleTypeOK, AdvertisedHasScreen, Equipped, SocketDrops, session
    <2>4. Serial'
      BY <1>2 DEF LifecycleInv, Serial, Starting, SocketDrops, session
    <2>. QED
      BY <2>2, <2>3, <2>4 DEF LifecycleInv
  <1>3. CASE JoinDeadline(j)
    <2>1. LifecycleTypeOK'
      BY <1>3 DEF LifecycleInv, LifecycleTypeOK, JoinDeadline, session
    <2>2. AdvertisedHasScreen' /\ Equipped'
      BY <1>3
      DEF LifecycleInv, LifecycleTypeOK, AdvertisedHasScreen, Equipped, JoinDeadline, session
    <2>3. Serial'
      BY <1>3 DEF LifecycleInv, Serial, Starting, JoinDeadline, session
    <2>. QED
      BY <2>1, <2>2, <2>3 DEF LifecycleInv
  <1>. QED
    BY <1>1, <1>2, <1>3

LEMMA ServerStep ==
  ASSUME LifecycleInv,
         (\E j \in Session : ServerJoin(j)) \/ ServerReaps \/ OtherHost
  PROVE  LifecycleInv'
  <1>1. ASSUME NEW j \in Session, ServerJoin(j)
        PROVE  LifecycleInv'
    <2>1. LifecycleTypeOK'
      BY <1>1 DEF LifecycleInv, LifecycleTypeOK, ServerJoin, session
    <2>2. AdvertisedHasScreen'
      BY <1>1, LifecycleAssumption
      DEF LifecycleInv, LifecycleTypeOK, AdvertisedHasScreen, Equipped, ServerJoin, session
    <2>3. Equipped' /\ Serial'
      BY <1>1 DEF LifecycleInv, Equipped, Serial, Starting, ServerJoin, session
    <2>. QED
      BY <2>1, <2>2, <2>3 DEF LifecycleInv
  <1>2. CASE ServerReaps \/ OtherHost
    <2>1. LifecycleTypeOK' /\ Equipped' /\ Serial'
      BY <1>2
      DEF LifecycleInv, LifecycleTypeOK, Equipped, Serial, Starting, ServerReaps, OtherHost, session
    <2>2. AdvertisedHasScreen'
      BY <1>2, LifecycleAssumption
      DEF LifecycleInv, LifecycleTypeOK, AdvertisedHasScreen, ServerReaps, OtherHost, session
    <2>. QED
      BY <2>1, <2>2 DEF LifecycleInv
  <1>. QED
    BY <1>1, <1>2

LEMMA JoinedStep ==
  ASSUME LifecycleInv, NEW j \in Session, Joined(j)
  PROVE  LifecycleInv'
  <1>1. LifecycleTypeOK'
    BY DEF LifecycleInv, LifecycleTypeOK, Joined
  <1>2. AdvertisedHasScreen' /\ Equipped'
    BY DEF LifecycleInv, LifecycleTypeOK, AdvertisedHasScreen, Equipped, Joined
  <1>3. Serial'
    BY LifecycleAssumption DEF LifecycleInv, LifecycleTypeOK, Serial, Starting, Joined
  <1>. QED
    BY <1>1, <1>2, <1>3 DEF LifecycleInv

LEMMA UnloadStep ==
  ASSUME LifecycleInv, Unload
  PROVE  LifecycleInv'
  <1>1. LifecycleTypeOK'
    BY DEF LifecycleInv, LifecycleTypeOK, Unload
  <1>2. AdvertisedHasScreen' /\ Equipped'
    BY DEF LifecycleInv, LifecycleTypeOK, AdvertisedHasScreen, Equipped, Unload
  <1>3. Serial'
    BY DEF LifecycleInv, LifecycleTypeOK, Serial, Starting, Unload
  <1>. QED
    BY <1>1, <1>2, <1>3 DEF LifecycleInv

LEMMA NextLifecycle == LifecycleInv /\ [LifecycleNext]_lifecycleVars => LifecycleInv'
  <1>. SUFFICES ASSUME LifecycleInv, [LifecycleNext]_lifecycleVars
                PROVE  LifecycleInv'
    OBVIOUS
  <1>1. ASSUME NEW j \in Session, StartSession(j) PROVE LifecycleInv'
    BY <1>1, StartStep
  <1>2. ASSUME NEW j \in Session, Captured(j) PROVE LifecycleInv'
    BY <1>2, CapturedStep
  <1>3. ASSUME NEW j \in Session,
               CaptureFails(j) \/ SocketFails(j) \/ Refused(j) \/ AckTimeout(j)
        PROVE  LifecycleInv'
    BY <1>3, StartFailsStep
    DEF CaptureFails, SocketFails, Refused, AckTimeout, Starting
  <1>4. ASSUME NEW j \in Session,
               SocketOpens(j) \/ SocketDrops(j) \/ JoinDeadline(j)
        PROVE  LifecycleInv'
    BY <1>4, SocketStep
  <1>5. CASE (\E j \in Session : ServerJoin(j)) \/ ServerReaps \/ OtherHost
    BY <1>5, ServerStep
  <1>6. ASSUME NEW j \in Session, Joined(j) PROVE LifecycleInv'
    BY <1>6, JoinedStep
  <1>7. CASE Unload
    BY <1>7, UnloadStep
  <1>8. CASE UNCHANGED lifecycleVars
    BY <1>8 DEF LifecycleInv, LifecycleTypeOK, AdvertisedHasScreen, Equipped, Serial, Starting,
                lifecycleVars, session
  <1>. QED
    BY <1>1, <1>2, <1>3, <1>4, <1>5, <1>6, <1>7, <1>8 DEF LifecycleNext

LEMMA LifecycleInvariant == LifecycleSpec => []LifecycleInv
  BY InitLifecycle, NextLifecycle, PTL DEF LifecycleSpec

(***************************************************************************)
(* Every reachable state is well typed, whatever the starts, drops and     *)
(* answers.                                                                *)
(***************************************************************************)
THEOREM LifecycleTypeCorrect == LifecycleSpec => []LifecycleTypeOK
  <1>1. LifecycleInv => LifecycleTypeOK
    BY DEF LifecycleInv
  <1>. QED
    BY <1>1, LifecycleInvariant, PTL

(***************************************************************************)
(* A room that the server takes for attended has a captured screen behind  *)
(* it (the order of HostSession.start(), and the whole of its stop()).     *)
(***************************************************************************)
THEOREM LifecycleRoomHasScreen == LifecycleSpec => []AdvertisedHasScreen
  <1>1. LifecycleInv => AdvertisedHasScreen
    BY DEF LifecycleInv
  <1>. QED
    BY <1>1, LifecycleInvariant, PTL

(***************************************************************************)
(* While starts do not overlap, whatever captures or is connected is the   *)
(* controller's session or a start under way.                              *)
(***************************************************************************)
THEOREM LifecycleNothingOrphaned == LifecycleSpec => []NothingOrphaned
  <1>1. LifecycleInv => NothingOrphaned
    BY DEF LifecycleInv, NothingOrphaned, Runs, Equipped, Serial, Starting
  <1>. QED
    BY <1>1, LifecycleInvariant, PTL

=============================================================================
