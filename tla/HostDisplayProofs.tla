--------------------------- MODULE HostDisplayProofs ---------------------------
(***************************************************************************)
(* What HostDisplay.tla shows the viewers, and where it lets them point,   *)
(* for any viewers, switches, sources and displays.                        *)
(***************************************************************************)
EXTENDS HostDisplay, FiniteSetTheorems, SequenceTheorems, TLAPS

----------------------------------------------------------------------------
(* Sequences *)

LEMMA EmptyMembers ==
  ASSUME NEW S, NEW s \in Seq(S)
  PROVE  /\ s = <<>> <=> ToSet(s) = {}
         /\ ToSet(s) \subseteq S /\ Len(s) \in Nat /\ DOMAIN s = 1 .. Len(s)
         /\ s # <<>> => 1 \in DOMAIN s /\ Len(s) \in DOMAIN s
  <1>1. Len(s) \in Nat /\ DOMAIN s = 1 .. Len(s) /\ \A i \in DOMAIN s : s[i] \in S
    BY LenProperties, ElementOfSeq
  <1>2. s = <<>> <=> Len(s) = 0
    BY EmptySeq
  <1>. QED
    BY <1>1, <1>2 DEF ToSet

LEMMA OneMember ==
  ASSUME NEW S, NEW s \in Seq(S), Len(s) = 1
  PROVE  ToSet(s) = {s[1]} /\ s # <<>> /\ s[1] \in S
  <1>1. DOMAIN s = {1}
    BY LenProperties
  <1>. QED
    BY <1>1, EmptyMembers DEF ToSet

LEMMA AppendMembers ==
  ASSUME NEW S, NEW s \in Seq(S), NEW x \in S
  PROVE  /\ Append(s, x) \in Seq(S)
         /\ ToSet(Append(s, x)) = ToSet(s) \cup {x}
         /\ IsInjective(s) /\ x \notin ToSet(s) => IsInjective(Append(s, x))
         /\ Last(Append(s, x)) = x
  <1>. DEFINE r == Append(s, x)
              n == Len(s) + 1
  <1>1. /\ r \in Seq(S) /\ Len(r) = n /\ r[n] = x /\ DOMAIN r = DOMAIN s \cup {n}
        /\ n \notin DOMAIN s /\ \A i \in DOMAIN s : r[i] = s[i]
    BY AppendProperties, LenProperties
  <1>. HIDE DEF r, n
  <1>2. ToSet(r) = ToSet(s) \cup {x}
    BY <1>1 DEF ToSet
  <1>3. IsInjective(s) /\ x \notin ToSet(s) => IsInjective(r)
    BY <1>1 DEF IsInjective, ToSet
  <1>. QED
    BY <1>1, <1>2, <1>3 DEF r, Last

LEMMA TailMembers ==
  ASSUME NEW S, NEW s \in Seq(S), s # <<>>, IsInjective(s)
  PROVE  /\ Head(s) \in S /\ Head(s) \in ToSet(s) /\ Tail(s) \in Seq(S)
         /\ ToSet(Tail(s)) = ToSet(s) \ {Head(s)}
         /\ IsInjective(Tail(s))
         /\ Last(s) = IF Tail(s) = <<>> THEN Head(s) ELSE Last(Tail(s))
  <1>. DEFINE r == Tail(s)
  <1>1. /\ Head(s) \in S /\ r \in Seq(S) /\ Len(r) = Len(s) - 1
        /\ \A i \in 1 .. Len(r) : r[i] = s[i+1]
    BY HeadTailProperties
  <1>2. Len(s) \in Nat \ {0} /\ DOMAIN s = 1 .. Len(s) /\ DOMAIN r = 1 .. Len(r) /\ Head(s) = s[1]
    BY <1>1, EmptyMembers
  <1>3. r = <<>> <=> Len(r) = 0
    BY <1>1, EmptySeq
  <1>. HIDE DEF r
  <1>4. ToSet(r) = ToSet(s) \ {Head(s)}
    <2>1. ASSUME NEW i \in DOMAIN r PROVE r[i] \in ToSet(s) \ {Head(s)}
      <3>1. r[i] = s[i+1] /\ i + 1 \in DOMAIN s /\ i + 1 # 1 /\ 1 \in DOMAIN s
        BY <1>1, <1>2
      <3>. QED
        BY <3>1, <1>2 DEF ToSet, IsInjective
    <2>2. ASSUME NEW i \in DOMAIN s, i # 1 PROVE s[i] \in ToSet(r)
      <3>1. i - 1 \in DOMAIN r /\ r[i-1] = s[i]
        BY <1>1, <1>2, <2>2
      <3>. QED
        BY <3>1 DEF ToSet
    <2>. QED
      BY <1>2, <2>1, <2>2 DEF ToSet
  <1>5. IsInjective(r)
    <2>. SUFFICES ASSUME NEW i \in DOMAIN r, NEW j \in DOMAIN r, r[i] = r[j]
                  PROVE  i = j
      BY DEF IsInjective
    <2>1. s[i+1] = s[j+1] /\ i + 1 \in DOMAIN s /\ j + 1 \in DOMAIN s
      BY <1>1, <1>2
    <2>2. i + 1 = j + 1
      BY <2>1 DEF IsInjective
    <2>. QED
      BY <2>2, <1>2
  <1>6. Last(s) = IF r = <<>> THEN Head(s) ELSE Last(r)
    BY <1>1, <1>2, <1>3 DEF Last
  <1>7. Head(s) \in ToSet(s)
    BY <1>2 DEF ToSet
  <1>. QED
    BY <1>1, <1>4, <1>5, <1>6, <1>7 DEF r

LEMMA Slice ==
  ASSUME NEW S, NEW s \in Seq(S), NEW m \in Nat \ {0}, NEW n \in Nat,
         n <= Len(s), m <= n + 1
  PROVE  /\ SubSeq(s, m, n) \in Seq(S) /\ Len(SubSeq(s, m, n)) = n + 1 - m
         /\ \A k \in 1 .. n + 1 - m : SubSeq(s, m, n)[k] = s[m - 1 + k]
  <1>1. m \in Int /\ n \in Int /\ \A k \in m .. n : s[k] \in S
    BY LenProperties, ElementOfSeq
  <1>2. /\ SubSeq(s, m, n) \in Seq(S)
        /\ Len(SubSeq(s, m, n)) = IF m <= n THEN n - m + 1 ELSE 0
        /\ \A k \in 1 .. n - m + 1 : SubSeq(s, m, n)[k] = s[m + k - 1]
    BY <1>1, SubSeqProperties
  <1>. DEFINE r == SubSeq(s, m, n)
  <1>. HIDE DEF r
  <1>3. n - m + 1 = n + 1 - m /\ \A k \in 1 .. n + 1 - m : m + k - 1 = m - 1 + k
    OBVIOUS
  <1>4. \A k \in 1 .. n + 1 - m : r[k] = s[m - 1 + k]
    BY <1>2, <1>3 DEF r
  <1>. QED
    BY <1>2, <1>3, <1>4 DEF r

\* Where the place k of RemoveAt(s, i) is in s.
Before(k, i) == IF k < i THEN k ELSE k + 1

LEMMA RemoveAtPlaces ==
  ASSUME NEW S, NEW s \in Seq(S), NEW i \in DOMAIN s
  PROVE  /\ RemoveAt(s, i) \in Seq(S)
         /\ \A k \in DOMAIN RemoveAt(s, i) : /\ Before(k, i) \in DOMAIN s \ {i}
                                             /\ RemoveAt(s, i)[k] = s[Before(k, i)]
         /\ \A k, l \in DOMAIN RemoveAt(s, i) : k < l <=> Before(k, i) < Before(l, i)
         /\ \A j \in DOMAIN s \ {i} : \E k \in DOMAIN RemoveAt(s, i) : j = Before(k, i)
  <1>. DEFINE n == Len(s)
              a == SubSeq(s, 1, i - 1)
              b == SubSeq(s, i + 1, n)
              r == a \o b
  <1>1. n \in Nat /\ DOMAIN s = 1 .. n /\ i \in 1 .. n /\ \A k \in 1 .. n : s[k] \in S
    BY LenProperties, ElementOfSeq
  <1>2. a \in Seq(S) /\ Len(a) = i - 1 /\ \A k \in 1 .. i - 1 : a[k] = s[k]
    <2>1. 1 \in Nat \ {0} /\ i - 1 \in Nat /\ i - 1 <= Len(s) /\ 1 <= (i - 1) + 1
      BY <1>1
    <2>2. /\ a \in Seq(S) /\ Len(a) = (i - 1) + 1 - 1
          /\ \A k \in 1 .. (i - 1) + 1 - 1 : a[k] = s[1 - 1 + k]
      BY <2>1, Slice
    <2>. HIDE DEF a
    <2>3. (i - 1) + 1 - 1 = i - 1 /\ \A k \in 1 .. i - 1 : 1 - 1 + k = k
      BY <1>1
    <2>. QED
      BY <2>2, <2>3
  <1>3. b \in Seq(S) /\ Len(b) = n - i /\ \A k \in 1 .. n - i : b[k] = s[i + k]
    <2>1. i + 1 \in Nat \ {0} /\ n \in Nat /\ n <= Len(s) /\ i + 1 <= n + 1
      BY <1>1
    <2>2. /\ b \in Seq(S) /\ Len(b) = n + 1 - (i + 1)
          /\ \A k \in 1 .. n + 1 - (i + 1) : b[k] = s[i + 1 - 1 + k]
      BY <2>1, Slice
    <2>. HIDE DEF b, n
    <2>3. n + 1 - (i + 1) = n - i /\ \A k \in 1 .. n - i : i + 1 - 1 + k = i + k
      BY <1>1
    <2>. QED
      BY <2>2, <2>3
  <1>4. /\ r \in Seq(S) /\ Len(r) = n - 1
        /\ \A k \in 1 .. n - 1 : r[k] = IF k <= i - 1 THEN a[k] ELSE b[k - (i - 1)]
    <2>1. /\ r \in Seq(S) /\ Len(r) = Len(a) + Len(b)
          /\ \A k \in 1 .. Len(a) + Len(b) : r[k] = IF k <= Len(a) THEN a[k] ELSE b[k - Len(a)]
      BY <1>2, <1>3, ConcatProperties
    <2>. HIDE DEF n, a, b, r
    <2>2. Len(a) + Len(b) = n - 1
      BY <1>1, <1>2, <1>3
    <2>. QED
      BY <1>1, <1>2, <2>1, <2>2
  <1>. HIDE DEF n, a, b, r
  <1>5. DOMAIN r = 1 .. n - 1
    BY <1>4, LenProperties
  <1>6. \A k \in 1 .. n - 1 : Before(k, i) \in 1 .. n /\ Before(k, i) # i /\ r[k] = s[Before(k, i)]
    <2>. SUFFICES ASSUME NEW k \in 1 .. n - 1
                  PROVE  Before(k, i) \in 1 .. n /\ Before(k, i) # i /\ r[k] = s[Before(k, i)]
      OBVIOUS
    <2>1. CASE k < i
      BY <1>1, <1>2, <1>4, <2>1 DEF Before
    <2>2. CASE ~(k < i)
      <3>1. k - (i - 1) \in 1 .. n - i /\ i + (k - (i - 1)) = k + 1 /\ ~(k <= i - 1)
        BY <1>1, <2>2
      <3>2. r[k] = s[k + 1]
        BY <1>3, <1>4, <3>1
      <3>. QED
        BY <1>1, <2>2, <3>2 DEF Before
    <2>. QED
      BY <2>1, <2>2
  <1>7. \A k, l \in 1 .. n - 1 : k < l <=> Before(k, i) < Before(l, i)
    BY <1>1 DEF Before
  <1>8. \A j \in 1 .. n \ {i} : \E k \in 1 .. n - 1 : j = Before(k, i)
    <2>. SUFFICES ASSUME NEW j \in 1 .. n \ {i} PROVE \E k \in 1 .. n - 1 : j = Before(k, i)
      OBVIOUS
    <2>1. CASE j < i
      <3>1. j \in 1 .. n - 1 /\ j = Before(j, i)
        BY <1>1, <2>1 DEF Before
      <3>. QED
        BY <3>1
    <2>2. CASE i < j
      <3>1. j - 1 \in 1 .. n - 1 /\ j = Before(j - 1, i)
        BY <1>1, <2>2 DEF Before
      <3>. QED
        BY <3>1
    <2>. QED
      BY <1>1, <2>1, <2>2
  <1>9. RemoveAt(s, i) = r
    BY DEF RemoveAt, n, a, b, r
  <1>. QED
    BY <1>1, <1>4, <1>5, <1>6, <1>7, <1>8, <1>9

----------------------------------------------------------------------------
(* The invariant *)

\* Tracks that have been captured and are past their swap.
Adopted == {First} \cup {w \in Switch : phase[w] = "done"}

(***************************************************************************)
(* A switch waits in one place of one queue; what the stream holds, and    *)
(* what a switch is going to stop, has been adopted before, so that no     *)
(* switch stops the track of one that still swaps.                         *)
(***************************************************************************)
QueuesApart ==
  /\ \A v \in Viewer : IsInjective(queue[v])
  /\ \A v, u \in Viewer : v # u => ToSet(queue[v]) \cap ToSet(queue[u]) = {}

OldOnes ==
  /\ IsFiniteSet(stream) /\ stream \subseteq Adopted
  /\ \A w \in Switch : old[w] \subseteq Adopted

SwapsLive == \A w \in Switch : phase[w] = "swap" => w \in live

Ended == ~up => conns = <<>>

OneSender == ~protected => \A i \in DOMAIN conns : Len(senders[conns[i]]) = 1

Shape == TypeOK /\ QueuesApart /\ OldOnes /\ SwapsLive /\ Ended /\ OneSender

(***************************************************************************)
(* In `open' mode a switch has replaced the track of every viewer before   *)
(* the one it waits at, so that none of them is left with a track it is    *)
(* going to stop ...                                                       *)
(***************************************************************************)
Passed ==
  ~protected => \A i, j \in DOMAIN conns : i < j =>
    \A w \in ToSet(queue[conns[j]]) : senders[conns[i]][1] \notin old[w]

(***************************************************************************)
(* ... and the switches follow each other from viewer to viewer without    *)
(* overtaking: a viewer sees the track of the last switch that waits at    *)
(* the next viewer where one waits, or else what the stream holds.         *)
(***************************************************************************)
Uncut == ~protected /\ \A w \in Switch : phase[w] # "abandoned"

IdleBetween(i, j) == \A k \in DOMAIN conns : i < k /\ k < j => queue[conns[k]] = <<>>

IdleAfter(i) == \A k \in DOMAIN conns : i < k => queue[conns[k]] = <<>>

Pipeline ==
  Uncut => \A i \in DOMAIN conns :
    /\ IdleAfter(i) => stream = {senders[conns[i]][1]}
    /\ \A j \in DOMAIN conns : i < j /\ queue[conns[j]] # <<>> /\ IdleBetween(i, j)
                               => senders[conns[i]][1] = Last(queue[conns[j]])

SessionInv == Shape /\ NewcomersGetChosen /\ Passed /\ NobodyIsFrozenInOpenMode /\ Pipeline

LEMMA Types ==
  ASSUME TypeOK
  PROVE  /\ \A v \in Viewer : /\ queue[v] \in Seq(Switch) /\ senders[v] \in Seq(Track)
                              /\ ToSet(queue[v]) \subseteq Switch
                              /\ queue[v] = <<>> <=> ToSet(queue[v]) = {}
                              /\ senders[v] = <<>> <=> ToSet(senders[v]) = {}
         /\ \A i \in DOMAIN conns : conns[i] \in joined /\ conns[i] \in Viewer /\ conns[i] \in ToSet(conns)
         /\ DOMAIN conns = 1 .. Len(conns) /\ Len(conns) \in Nat
         /\ ToSet(conns) \subseteq joined
         /\ \A i, j \in DOMAIN conns : conns[i] = conns[j] => i = j
         /\ \A w \in Switch : w \in Track /\ w # First
         /\ First \in Track
  <1>1. \A v \in Viewer : queue[v] \in Seq(Switch) /\ senders[v] \in Seq(Track)
    BY DEF TypeOK
  <1>2. \A v \in Viewer : /\ ToSet(queue[v]) \subseteq Switch
                          /\ queue[v] = <<>> <=> ToSet(queue[v]) = {}
                          /\ senders[v] = <<>> <=> ToSet(senders[v]) = {}
    BY <1>1, EmptyMembers
  <1>3. conns \in Seq(joined) /\ joined \subseteq Viewer /\ IsInjective(conns)
    BY DEF TypeOK
  <1>4. /\ DOMAIN conns = 1 .. Len(conns) /\ Len(conns) \in Nat
        /\ ToSet(conns) \subseteq joined
    BY <1>3, EmptyMembers
  <1>5. \A i \in DOMAIN conns : conns[i] \in ToSet(conns)
    BY DEF ToSet
  <1>6. \A i, j \in DOMAIN conns : conns[i] = conns[j] => i = j
    BY <1>3 DEF IsInjective
  <1>7. (\A w \in Switch : w \in Track /\ w # First) /\ First \in Track
    BY CaptureAssumption DEF Track
  <1>8. \A i \in DOMAIN conns : conns[i] \in joined /\ conns[i] \in Viewer
    BY <1>3, <1>4, <1>5
  <1>. QED
    BY <1>1, <1>2, <1>4, <1>5, <1>6, <1>7, <1>8

\* Who sees one track sees it alone.
LEMMA Seen ==
  ASSUME Shape, ~protected, NEW i \in DOMAIN conns
  PROVE  ToSet(senders[conns[i]]) = {senders[conns[i]][1]} /\ senders[conns[i]] # <<>>
  <1>1. senders[conns[i]] \in Seq(Track) /\ Len(senders[conns[i]]) = 1
    BY Types DEF Shape, OneSender
  <1>. QED
    BY <1>1, OneMember

LEMMA InitSession == Init => SessionInv
  <1>. SUFFICES ASSUME Init PROVE SessionInv
    OBVIOUS
  <1>1. TypeOK
    <2>1. <<>> \in Seq(joined) /\ <<>> \in Seq(Track) /\ <<>> \in Seq(Switch) /\ IsInjective(<<>>)
          /\ ToSet(<<>>) = {}
      BY EmptySeq DEF IsInjective, ToSet
    <2>2. protected \in BOOLEAN /\ up \in BOOLEAN
      BY Zenon DEF Init
    <2>. QED
      BY <2>1, <2>2, CaptureAssumption DEF Init, TypeOK, Track
  <1>2. QueuesApart
    BY DEF Init, QueuesApart, IsInjective, ToSet
  <1>3. OldOnes /\ SwapsLive /\ Ended /\ OneSender
    <2>1. IsFiniteSet({First})
      BY FS_Singleton
    <2>. QED
      BY <2>1 DEF Init, OldOnes, SwapsLive, Ended, OneSender, Adopted
  <1>4. NewcomersGetChosen
    BY CaptureAssumption DEF Init, NewcomersGetChosen, SourceOf, Track
  <1>5. Passed /\ NobodyIsFrozenInOpenMode /\ Pipeline
    BY DEF Init, Passed, NobodyIsFrozenInOpenMode, NobodyIsFrozen, Pipeline, ToSet
  <1>. QED
    BY <1>1, <1>2, <1>3, <1>4, <1>5 DEF SessionInv, Shape

----------------------------------------------------------------------------
(* The steps of the session *)

\* A request, a pick of what is shared already, and a capture that fails,
\* concern a switch that nothing refers to yet.
LEMMA AskStep ==
  ASSUME SessionInv, NEW w \in Switch, NEW p \in {"capture", "done"}, NEW s \in Source,
         phase[w] \in {"new", "capture"},
         phase' = [phase EXCEPT ![w] = p],
         chosen' = [chosen EXCEPT ![w] = s],
         UNCHANGED <<session, viewers, senders, queue, old, stream, live, active>>
  PROVE  SessionInv'
  <1>. USE DEF session, viewers
  <1>1. TypeOK /\ TypeOK'
    BY DEF SessionInv, Shape, TypeOK, Track
  <1>2. /\ \A u \in Switch : u # w => phase'[u] = phase[u] /\ chosen'[u] = chosen[u]
        /\ phase'[w] = p
    BY <1>1 DEF TypeOK
  <1>3. Adopted \subseteq Adopted' /\ w \notin Adopted
    BY <1>1, <1>2, Types DEF Adopted
  <1>4. QueuesApart' /\ OldOnes' /\ Ended' /\ OneSender'
    BY <1>3 DEF SessionInv, Shape, QueuesApart, OldOnes, Ended, OneSender
  <1>5. SwapsLive'
    BY <1>2 DEF SessionInv, Shape, SwapsLive
  <1>6. NewcomersGetChosen'
    <2>1. \A t \in stream : SourceOf(t)' = SourceOf(t)
      BY <1>2, <1>3 DEF SessionInv, Shape, OldOnes, SourceOf, Adopted
    <2>. QED
      BY <2>1 DEF SessionInv, NewcomersGetChosen, Track
  <1>7. Passed' /\ NobodyIsFrozenInOpenMode'
    BY DEF SessionInv, Passed, NobodyIsFrozenInOpenMode, NobodyIsFrozen
  <1>8. Pipeline'
    <2>1. Uncut' => Uncut
      BY <1>2 DEF Uncut
    <2>. QED
      BY <2>1 DEF SessionInv, Pipeline, IdleAfter, IdleBetween
  <1>. QED
    BY <1>1, <1>4, <1>5, <1>6, <1>7, <1>8 DEF SessionInv, Shape

LEMMA AskSteps ==
  ASSUME SessionInv, NEW w \in Switch,
         (\E s \in Source : RequestSwitch(w, s)) \/ PickAgain(w) \/ CaptureFails(w)
  PROVE  SessionInv'
  <1>1. chosen \in [Switch -> Source] /\ active \in Source
    BY DEF SessionInv, Shape, TypeOK
  <1>2. ASSUME NEW s \in Source, RequestSwitch(w, s) PROVE SessionInv'
    BY <1>2, AskStep DEF RequestSwitch
  <1>3. CASE PickAgain(w)
    BY <1>1, <1>3, AskStep DEF PickAgain
  <1>4. CASE CaptureFails(w)
    <2>1. chosen[w] \in Source /\ chosen' = [chosen EXCEPT ![w] = chosen[w]]
      BY <1>1, <1>4 DEF CaptureFails
    <2>. QED
      BY <1>4, <2>1, AskStep DEF CaptureFails
  <1>. QED
    BY <1>2, <1>3, <1>4

\* The tracks a viewer is given are those of the stream.
LEMMA AttachGives ==
  ASSUME NEW S, IsFiniteSet(S), NEW q \in SetToSeqs(S)
  PROVE  /\ q \in Seq(S) /\ ToSet(q) \subseteq S
         /\ \A t : S = {t} => Len(q) = 1 /\ q[1] = t
  <1>1. Cardinality(S) \in Nat
    BY FS_CardinalityType
  <1>2. q \in [1 .. Cardinality(S) -> S]
    BY DEF SetToSeqs
  <1>3. q \in Seq(S)
    BY <1>1, <1>2
  <1>4. ASSUME NEW t, S = {t} PROVE Len(q) = 1 /\ q[1] = t
    <2>1. Cardinality(S) = 1
      BY <1>4, FS_Singleton
    <2>2. q \in [1 .. 1 -> {t}] /\ q \in Seq({t})
      BY <1>2, <1>3, <1>4, <2>1
    <2>3. DOMAIN q = 1 .. 1 /\ DOMAIN q = 1 .. Len(q) /\ Len(q) \in Nat
      BY <2>2, LenProperties
    <2>. QED
      BY <2>2, <2>3
  <1>. QED
    BY <1>3, <1>4, EmptyMembers

LEMMA JoinStep ==
  ASSUME SessionInv, NEW v \in Viewer, ViewerJoins(v)
  PROVE  SessionInv'
  <1>. DEFINE n == Len(conns) + 1
  <1>. USE DEF session
  <1>1. TypeOK /\ QueuesApart /\ up /\ v \notin joined
    BY DEF SessionInv, Shape, ViewerJoins
  <1>2. /\ UNCHANGED <<protected, up, queue, phase, chosen, old, stream, live, active>>
        /\ joined' = joined \cup {v} /\ conns' = Append(conns, v)
    BY DEF ViewerJoins
  <1>3. PICK q \in Seq(Track) :
          /\ senders' = [senders EXCEPT ![v] = q]
          /\ ToSet(q) \subseteq stream
          /\ ~protected => \E t \in Track : stream = {t} /\ Len(q) = 1 /\ q[1] = t
    <2>1. CASE protected
      <3>1. senders[v] = <<>> /\ senders' = [senders EXCEPT ![v] = <<>>]
        BY <1>1, <2>1, Types DEF ViewerJoins, TypeOK
      <3>2. <<>> \in Seq(Track) /\ ToSet(<<>>) = {}
        BY DEF ToSet
      <3>. QED
        BY <2>1, <3>1, <3>2
    <2>2. CASE ~protected
      <3>1. PICK q \in SetToSeqs(stream) : senders' = [senders EXCEPT ![v] = q]
        BY <2>2 DEF ViewerJoins, Attach
      <3>2. PICK t \in Track : stream = {t}
        BY <1>1, <2>2 DEF SessionInv, NewcomersGetChosen
      <3>3. IsFiniteSet(stream) /\ stream \subseteq Track
        BY DEF SessionInv, Shape, OldOnes, TypeOK
      <3>4. /\ q \in Seq(stream) /\ ToSet(q) \subseteq stream
            /\ \A x : stream = {x} => Len(q) = 1 /\ q[1] = x
        BY <3>3, AttachGives
      <3>5. q \in Seq(Track)
        BY <3>3, <3>4, SeqMonotonic
      <3>. QED
        BY <3>1, <3>2, <3>4, <3>5, Zenon
    <2>. QED
      BY <2>1, <2>2
  <1>4. /\ senders' \in [Viewer -> Seq(Track)] /\ senders'[v] = q
        /\ \A u \in Viewer : u # v => senders'[u] = senders[u]
    BY <1>1, <1>3 DEF TypeOK
  <1>5. /\ conns' \in Seq(joined') /\ IsInjective(conns') /\ ToSet(conns') = ToSet(conns) \cup {v}
        /\ DOMAIN conns' = DOMAIN conns \cup {n} /\ conns'[n] = v
        /\ \A i \in DOMAIN conns : /\ conns'[i] = conns[i] /\ i < n /\ conns[i] # v
                                   /\ conns[i] \in Viewer
    <2>1. conns \in Seq(joined') /\ v \in joined' /\ IsInjective(conns) /\ v \notin ToSet(conns)
      BY <1>1, <1>2, SeqMonotonic, Types DEF TypeOK
    <2>2. conns' \in Seq(joined') /\ IsInjective(conns') /\ ToSet(conns') = ToSet(conns) \cup {v}
      BY <1>2, <2>1, AppendMembers
    <2>3. /\ DOMAIN conns' = 1 .. n /\ conns'[n] = v /\ Len(conns) \in Nat /\ DOMAIN conns = 1 .. Len(conns)
          /\ \A i \in 1 .. Len(conns) : conns'[i] = conns[i]
      BY <1>2, <2>1, <2>2, AppendProperties, LenProperties
    <2>. QED
      BY <1>1, <2>1, <2>2, <2>3, Types
  <1>6. queue[v] = <<>> /\ senders[v] = <<>>
    BY <1>1, Types DEF TypeOK
  <1>. HIDE DEF n
  <1>7. TypeOK'
    BY <1>1, <1>2, <1>4, <1>5, <1>6 DEF TypeOK
  <1>8. QueuesApart' /\ OldOnes' /\ SwapsLive' /\ Ended'
    BY <1>1, <1>2 DEF SessionInv, Shape, QueuesApart, OldOnes, Adopted, SwapsLive, Ended
  <1>9. OneSender'
    BY <1>2, <1>3, <1>4, <1>5 DEF SessionInv, Shape, OneSender
  <1>10. NewcomersGetChosen'
    BY <1>2 DEF SessionInv, NewcomersGetChosen, SourceOf, Track
  <1>11. Passed'
    <2>. SUFFICES ASSUME ~protected, NEW i \in DOMAIN conns', NEW j \in DOMAIN conns', i < j,
                         NEW w \in ToSet(queue[conns'[j]])
                  PROVE  senders'[conns'[i]][1] \notin old[w]
      BY <1>2 DEF Passed
    <2>1. conns'[j] # v
      BY <1>6 DEF ToSet
    <2>2. i \in DOMAIN conns /\ j \in DOMAIN conns
      BY <1>5, <2>1, Types, <1>1 DEF n
    <2>. QED
      BY <1>4, <1>5, <2>2 DEF SessionInv, Passed
  <1>12. NobodyIsFrozenInOpenMode'
    <2>. SUFFICES ASSUME ~protected, NEW u \in Viewer
                  PROVE  ToSet(senders'[u]) \subseteq live
      BY <1>2 DEF NobodyIsFrozenInOpenMode, NobodyIsFrozen
    <2>1. stream \subseteq live
      BY <1>1 DEF SessionInv, NewcomersGetChosen
    <2>. QED
      BY <1>3, <1>4, <2>1 DEF SessionInv, NobodyIsFrozenInOpenMode, NobodyIsFrozen
  <1>13. Pipeline'
    <2>. SUFFICES ASSUME Uncut, NEW i \in DOMAIN conns'
                  PROVE  /\ IdleAfter(i)' => stream = {senders'[conns'[i]][1]}
                         /\ \A j \in DOMAIN conns' :
                              i < j /\ queue[conns'[j]] # <<>> /\ IdleBetween(i, j)'
                                => senders'[conns'[i]][1] = Last(queue[conns'[j]])
      BY <1>2 DEF Pipeline, Uncut
    <2>1. CASE i = n
      <3>1. stream = {senders'[conns'[i]][1]}
        BY <1>3, <1>4, <1>5, <2>1 DEF Uncut
      <3>2. \A j \in DOMAIN conns' : ~(i < j)
        BY <1>1, <1>5, <2>1, Types DEF n
      <3>. QED
        BY <3>1, <3>2
    <2>2. CASE i \in DOMAIN conns
      <3>1. IdleAfter(i)' => IdleAfter(i)
        BY <1>2, <1>5 DEF IdleAfter
      <3>2. \A j \in DOMAIN conns : IdleBetween(i, j)' => IdleBetween(i, j)
        BY <1>2, <1>5 DEF IdleBetween
      <3>3. \A j \in DOMAIN conns' : queue[conns'[j]] # <<>> => j \in DOMAIN conns
        BY <1>5, <1>6
      <3>. QED
        BY <1>4, <1>5, <2>2, <3>1, <3>2, <3>3 DEF SessionInv, Pipeline
    <2>. QED
      BY <1>5, <2>1, <2>2
  <1>. QED
    BY <1>7, <1>8, <1>9, <1>10, <1>11, <1>12, <1>13 DEF SessionInv, Shape

LEMMA AuthorizeStep ==
  ASSUME SessionInv, NEW v \in Viewer, Authorize(v)
  PROVE  SessionInv'
  <1>. USE DEF session, viewers
  <1>1. TypeOK /\ protected /\ senders[v] = <<>> /\ v \in ToSet(conns)
    BY DEF SessionInv, Shape, Authorize
  <1>2. PICK q \in SetToSeqs(stream) : senders' = [senders EXCEPT ![v] = q]
    BY DEF Authorize, Attach
  <1>3. UNCHANGED <<session, viewers, queue, phase, chosen, old, stream, live, active>>
    BY DEF Authorize
  <1>4. q \in Seq(Track)
    <2>1. IsFiniteSet(stream) /\ stream \subseteq Track
      BY DEF SessionInv, Shape, OldOnes, TypeOK
    <2>2. q \in Seq(stream)
      BY <2>1, AttachGives
    <2>. QED
      BY <2>1, <2>2, SeqMonotonic
  <1>5. queue[v] = <<>>
    BY <1>1 DEF TypeOK
  <1>6. TypeOK'
    BY <1>1, <1>2, <1>3, <1>4, <1>5 DEF TypeOK
  <1>7. QueuesApart' /\ OldOnes' /\ SwapsLive' /\ Ended' /\ OneSender'
    BY <1>1, <1>3 DEF SessionInv, Shape, QueuesApart, OldOnes, Adopted, SwapsLive, Ended, OneSender
  <1>8. NewcomersGetChosen'
    BY <1>3 DEF SessionInv, NewcomersGetChosen, SourceOf, Track
  <1>9. Passed' /\ NobodyIsFrozenInOpenMode' /\ Pipeline'
    BY <1>1, <1>3 DEF Passed, NobodyIsFrozenInOpenMode, Pipeline, Uncut
  <1>. QED
    BY <1>6, <1>7, <1>8, <1>9 DEF SessionInv, Shape

\* Closing connections: a switch that waited there waits nowhere, and a switch
\* that waits elsewhere waits there still.
LEMMA CloseEffects ==
  ASSUME Shape, NEW vs \in SUBSET Viewer, NEW rest \in Seq(joined), IsInjective(rest),
         ToSet(rest) = ToSet(conns) \ vs, CloseConnections(vs, rest), UNCHANGED protected,
         up' \in BOOLEAN, stream' \in {stream, {}}, live' \subseteq live,
         \A w \in Switch : phase'[w] = "swap" /\ phase[w] = "swap" => w \in live'
  PROVE  /\ TypeOK' /\ QueuesApart' /\ OldOnes' /\ SwapsLive'
         /\ \A v \in Viewer \ vs : senders'[v] = senders[v] /\ queue'[v] = queue[v]
         /\ Uncut' => Uncut /\ \A v \in vs : queue[v] = <<>>
  <1>. USE DEF Shape
  <1>1. /\ conns' = rest /\ joined' = joined /\ chosen' = chosen /\ old' = old /\ active' = active
        /\ protected' = protected
        /\ \A v \in Viewer : /\ senders'[v] = IF v \in vs THEN <<>> ELSE senders[v]
                             /\ queue'[v] = IF v \in vs THEN <<>> ELSE queue[v]
        /\ \A w \in Switch : phase'[w] = IF \E v \in vs : w \in ToSet(queue[v])
                                         THEN "abandoned" ELSE phase[w]
    BY DEF CloseConnections
  <1>2. senders' \in [Viewer -> Seq(Track)] /\ queue' \in [Viewer -> Seq(Switch)]
    <2>1. <<>> \in Seq(Track) /\ <<>> \in Seq(Switch)
      OBVIOUS
    <2>. QED
      BY <2>1 DEF CloseConnections, TypeOK
  <1>3. phase' \in [Switch -> {"new", "capture", "swap", "done", "abandoned"}]
    BY DEF CloseConnections, TypeOK
  <1>4. ToSet(<<>>) = {} /\ IsInjective(<<>>)
    BY DEF ToSet, IsInjective
  <1>5. \A w \in Switch : phase'[w] = "swap" <=> \E v \in Viewer : w \in ToSet(queue'[v])
    <2>. SUFFICES ASSUME NEW w \in Switch
                  PROVE  phase'[w] = "swap" <=> \E v \in Viewer : w \in ToSet(queue'[v])
      OBVIOUS
    <2>1. phase[w] = "swap" <=> \E v \in Viewer : w \in ToSet(queue[v])
      BY DEF TypeOK
    <2>2. \A v, u \in Viewer : w \in ToSet(queue[v]) /\ w \in ToSet(queue[u]) => v = u
      BY DEF QueuesApart
    <2>3. \A v \in Viewer : w \in ToSet(queue'[v]) <=> v \notin vs /\ w \in ToSet(queue[v])
      BY <1>1, <1>4
    <2>. QED
      BY <1>1, <2>1, <2>2, <2>3
  <1>6. TypeOK'
    <2>1. \A v \in Viewer : /\ senders'[v] # <<>> => v \in ToSet(conns')
                            /\ queue'[v] # <<>> => senders'[v] # <<>>
      BY <1>1 DEF TypeOK
    <2>2. protected' \in BOOLEAN /\ old' \in [Switch -> SUBSET Track] /\ stream' \subseteq Track
      BY <1>1 DEF TypeOK
    <2>3. up' \in BOOLEAN
      OBVIOUS
    <2>. QED
      BY <1>1, <1>2, <1>3, <1>5, <2>1, <2>2, <2>3 DEF TypeOK
  <1>7. QueuesApart'
    BY <1>1, <1>4 DEF QueuesApart
  <1>8. OldOnes'
    <2>1. Adopted' = Adopted
      <3>1. \A w \in Switch : phase[w] = "done" => ~\E v \in vs : w \in ToSet(queue[v])
        BY DEF TypeOK
      <3>. QED
        BY <1>1, <3>1 DEF Adopted
    <2>2. IsFiniteSet({})
      BY FS_EmptySet
    <2>. QED
      BY <1>1, <2>1, <2>2 DEF OldOnes
  <1>9. SwapsLive'
    BY <1>1 DEF SwapsLive
  <1>10. Uncut' => Uncut /\ \A v \in vs : queue[v] = <<>>
    <2>1. \A v \in Viewer : queue[v] # <<>> => \E w \in Switch : w \in ToSet(queue[v])
      BY Types
    <2>. QED
      BY <1>1, <2>1 DEF Uncut
  <1>. QED
    BY <1>1, <1>6, <1>7, <1>8, <1>9, <1>10

LEMMA StopStep ==
  ASSUME SessionInv, Stop
  PROVE  SessionInv'
  <1>1. <<>> \in Seq(joined) /\ ToSet(<<>>) = {} /\ IsInjective(<<>>) /\ ToSet(conns) \subseteq Viewer
        /\ Shape
    BY Types DEF ToSet, IsInjective, SessionInv, Shape, TypeOK
  <1>2. \A w \in Switch : phase'[w] = "swap" /\ phase[w] = "swap" => w \in live'
    <2>1. \A w \in Switch : phase[w] = "swap" => phase'[w] = "abandoned"
      BY <1>1 DEF Shape, TypeOK, Stop, CloseConnections
    <2>. QED
      BY <2>1
  <1>3. /\ TypeOK' /\ QueuesApart' /\ OldOnes' /\ SwapsLive'
    BY <1>1, <1>2, CloseEffects DEF Stop
  <1>4. conns' = <<>> /\ up' = FALSE /\ \A v \in Viewer : senders'[v] = <<>>
    BY DEF Stop, CloseConnections
  <1>5. DOMAIN <<>> = {}
    OBVIOUS
  <1>. QED
    BY <1>1, <1>3, <1>4, <1>5
    DEF SessionInv, Shape, Ended, OneSender, NewcomersGetChosen, Passed,
        NobodyIsFrozenInOpenMode, NobodyIsFrozen, Pipeline

LEMMA LeaveStep ==
  ASSUME SessionInv, NEW v \in Viewer, ViewerLeaves(v)
  PROVE  SessionInv'
  <1>. DEFINE rest(i) == RemoveAt(conns, i)
  <1>1. Shape /\ TypeOK
    BY DEF SessionInv, Shape
  <1>2. PICK i \in DOMAIN conns : conns[i] = v /\ CloseConnections({v}, RemoveAt(conns, i))
    BY DEF ViewerLeaves
  <1>3. UNCHANGED <<protected, up, stream, live>>
    BY DEF ViewerLeaves, session
  <1>4. conns \in Seq(joined)
    BY <1>1 DEF TypeOK
  <1>5. /\ RemoveAt(conns, i) \in Seq(joined)
        /\ \A k \in DOMAIN RemoveAt(conns, i) :
             Before(k, i) \in DOMAIN conns \ {i} /\ RemoveAt(conns, i)[k] = conns[Before(k, i)]
        /\ \A k, l \in DOMAIN RemoveAt(conns, i) : k < l <=> Before(k, i) < Before(l, i)
        /\ \A j \in DOMAIN conns \ {i} : \E k \in DOMAIN RemoveAt(conns, i) : j = Before(k, i)
    BY <1>2, <1>4, RemoveAtPlaces
  <1>6. conns' = RemoveAt(conns, i)
    BY <1>2 DEF CloseConnections
  <1>7. DOMAIN conns' = 1 .. Len(conns') /\ Len(conns') \in Nat
    BY <1>5, <1>6, LenProperties
  <1>8. IsInjective(conns')
    <2>. SUFFICES ASSUME NEW k \in DOMAIN conns', NEW l \in DOMAIN conns', conns'[k] = conns'[l]
                  PROVE  k = l
      BY DEF IsInjective
    <2>1. Before(k, i) = Before(l, i)
      BY <1>1, <1>5, <1>6, Types
    <2>. QED
      BY <1>5, <1>6, <1>7, <2>1
  <1>9. ToSet(conns') = ToSet(conns) \ {v}
    BY <1>1, <1>2, <1>5, <1>6, Types DEF ToSet
  <1>10. \A w \in Switch : phase'[w] = "swap" /\ phase[w] = "swap" => w \in live'
    BY <1>1, <1>3 DEF Shape, SwapsLive
  <1>11. /\ TypeOK' /\ QueuesApart' /\ OldOnes' /\ SwapsLive'
         /\ \A u \in Viewer \ {v} : senders'[u] = senders[u] /\ queue'[u] = queue[u]
         /\ Uncut' => Uncut /\ queue[v] = <<>>
    <2>1. up' \in BOOLEAN
      BY <1>1, <1>3 DEF TypeOK
    <2>2. stream' \in {stream, {}} /\ live' \subseteq live /\ {v} \in SUBSET Viewer /\ UNCHANGED protected
      BY <1>3
    <2>3. RemoveAt(conns, i) \in Seq(joined) /\ IsInjective(RemoveAt(conns, i))
          /\ ToSet(RemoveAt(conns, i)) = ToSet(conns) \ {v}
      BY <1>5, <1>6, <1>8, <1>9
    <2>4. /\ TypeOK' /\ QueuesApart' /\ OldOnes' /\ SwapsLive'
          /\ \A u \in Viewer \ {v} : senders'[u] = senders[u] /\ queue'[u] = queue[u]
          /\ Uncut' => Uncut /\ \A u \in {v} : queue[u] = <<>>
      BY <1>1, <1>2, <1>10, <2>1, <2>2, <2>3, CloseEffects
    <2>. QED
      BY <2>4
  \* What a place was before, and who is there.
  <1>12. \A k \in DOMAIN conns' :
           /\ Before(k, i) \in DOMAIN conns /\ Before(k, i) # i
           /\ conns'[k] = conns[Before(k, i)]
           /\ senders'[conns'[k]] = senders[conns[Before(k, i)]]
           /\ queue'[conns'[k]] = queue[conns[Before(k, i)]]
    <2>. SUFFICES ASSUME NEW k \in DOMAIN conns'
                  PROVE  /\ Before(k, i) \in DOMAIN conns /\ Before(k, i) # i
                         /\ conns'[k] = conns[Before(k, i)]
                         /\ senders'[conns'[k]] = senders[conns[Before(k, i)]]
                         /\ queue'[conns'[k]] = queue[conns[Before(k, i)]]
      OBVIOUS
    <2>1. /\ Before(k, i) \in DOMAIN conns /\ Before(k, i) # i
          /\ conns'[k] = conns[Before(k, i)]
      BY <1>5, <1>6
    <2>2. conns[Before(k, i)] \in Viewer \ {v}
      BY <1>1, <1>2, <2>1, Types
    <2>. QED
      BY <1>11, <2>1, <2>2
  <1>13. \A k, l \in DOMAIN conns' : k < l <=> Before(k, i) < Before(l, i)
    BY <1>5, <1>6
  <1>14. \A j \in DOMAIN conns \ {i} : \E k \in DOMAIN conns' : j = Before(k, i)
    BY <1>5, <1>6
  <1>15. Ended' /\ OneSender'
    <2>1. up
      BY <1>2, <1>1 DEF Shape, Ended
    <2>. QED
      BY <1>3, <1>12, <2>1 DEF SessionInv, Shape, Ended, OneSender
  <1>16. NewcomersGetChosen'
    <2>1. UNCHANGED <<chosen, active>>
      BY <1>2 DEF CloseConnections
    <2>. QED
      BY <1>3, <2>1 DEF SessionInv, NewcomersGetChosen, SourceOf, Track
  <1>17. Passed'
    <2>. SUFFICES ASSUME ~protected, NEW k \in DOMAIN conns', NEW l \in DOMAIN conns', k < l,
                         NEW w \in ToSet(queue'[conns'[l]])
                  PROVE  senders'[conns'[k]][1] \notin old[w]
      <3>1. UNCHANGED old
        BY <1>2 DEF CloseConnections
      <3>. QED
        BY <1>3, <3>1 DEF Passed
    <2>. QED
      BY <1>12, <1>13 DEF SessionInv, Passed
  <1>18. NobodyIsFrozenInOpenMode'
    <2>1. \A u \in Viewer : senders'[u] \in {senders[u], <<>>}
      BY <1>2 DEF CloseConnections
    <2>2. ToSet(<<>>) = {}
      BY DEF ToSet
    <2>. QED
      BY <1>3, <2>1, <2>2 DEF SessionInv, NobodyIsFrozenInOpenMode, NobodyIsFrozen
  <1>19. Pipeline'
    <2>. SUFFICES ASSUME Uncut', NEW k \in DOMAIN conns'
                  PROVE  /\ IdleAfter(k)' => stream' = {senders'[conns'[k]][1]}
                         /\ \A l \in DOMAIN conns' :
                              k < l /\ queue'[conns'[l]] # <<>> /\ IdleBetween(k, l)'
                                => senders'[conns'[k]][1] = Last(queue'[conns'[l]])
      BY DEF Pipeline
    <2>. DEFINE b == Before(k, i)
    <2>1. Uncut /\ queue[conns[i]] = <<>>
      BY <1>2, <1>11
    <2>2. b \in DOMAIN conns /\ senders'[conns'[k]] = senders[conns[b]]
      BY <1>12
    <2>3. IdleAfter(k)' => IdleAfter(b)
      BY <1>12, <1>13, <1>14, <2>1 DEF IdleAfter
    <2>4. \A l \in DOMAIN conns' : IdleBetween(k, l)' => IdleBetween(b, Before(l, i))
      BY <1>12, <1>13, <1>14, <2>1 DEF IdleBetween
    <2>. HIDE DEF b
    <2>5. IdleAfter(b) => stream = {senders[conns[b]][1]}
      BY <2>1, <2>2 DEF SessionInv, Pipeline
    <2>6. \A j \in DOMAIN conns : b < j /\ queue[conns[j]] # <<>> /\ IdleBetween(b, j)
                                  => senders[conns[b]][1] = Last(queue[conns[j]])
      BY <2>1, <2>2 DEF SessionInv, Pipeline
    <2>7. ASSUME NEW l \in DOMAIN conns', k < l, queue'[conns'[l]] # <<>>, IdleBetween(k, l)'
          PROVE  senders'[conns'[k]][1] = Last(queue'[conns'[l]])
      BY <1>12, <1>13, <2>2, <2>4, <2>6, <2>7 DEF b
    <2>. QED
      BY <1>3, <2>2, <2>3, <2>5, <2>7
  <1>. QED
    BY <1>11, <1>15, <1>16, <1>17, <1>18, <1>19 DEF SessionInv, Shape

\* Without a sender to replace, in `open' mode without a viewer, a captured
\* track is adopted at once.
LEMMA AdoptStep ==
  ASSUME SessionInv, NEW w \in Switch, phase[w] = "capture", Targets(0) = {},
         Finish(w, live \cup {w}, stream, FALSE),
         old' = [old EXCEPT ![w] = stream],
         UNCHANGED <<session, viewers, senders, queue, chosen>>
  PROVE  SessionInv'
  <1>. USE DEF session, viewers
  <1>1. TypeOK /\ Shape /\ w # First /\ w \in Track
    BY Types DEF SessionInv, Shape
  <1>2. w \notin Adopted /\ w \notin stream /\ stream \subseteq Track
    BY <1>1 DEF Shape, OldOnes, Adopted, TypeOK
  <1>3. /\ \A u \in Switch : phase'[u] = IF u = w THEN "done" ELSE phase[u]
        /\ phase' \in [Switch -> {"new", "capture", "swap", "done", "abandoned"}]
    BY <1>1 DEF Finish, TypeOK
  <1>4. stream' = (stream \ stream) \cup {w} /\ stream' = {w}
        /\ live' = (live \cup {w}) \ stream /\ active' = chosen[w]
    BY DEF Finish
  <1>5. old' \in [Switch -> SUBSET Track] /\ \A u \in Switch : old'[u] = IF u = w THEN stream ELSE old[u]
    BY <1>1, <1>2 DEF TypeOK
  <1>6. TypeOK'
    <2>1. \A u \in Switch : phase'[u] = "swap" <=> phase[u] = "swap"
      BY <1>3
    <2>2. live' \subseteq Track /\ active' \in Source /\ stream' \subseteq Track
      BY <1>1, <1>4 DEF TypeOK
    <2>. QED
      BY <1>1, <1>3, <1>5, <2>1, <2>2 DEF TypeOK
  <1>7. OldOnes'
    <2>1. Adopted' = Adopted \cup {w}
      BY <1>3 DEF Adopted
    <2>2. IsFiniteSet({w})
      BY FS_Singleton
    <2>. QED
      BY <1>1, <1>4, <1>5, <2>1, <2>2 DEF Shape, OldOnes
  <1>8. SwapsLive'
    <2>1. \A u \in Switch : phase[u] = "swap" => u \in live /\ u \notin stream
      BY <1>1, Types DEF Shape, SwapsLive, OldOnes, Adopted
    <2>. QED
      BY <1>3, <1>4, <2>1 DEF SwapsLive
  <1>9. QueuesApart' /\ Ended' /\ OneSender'
    BY <1>1 DEF Shape, QueuesApart, Ended, OneSender
  <1>10. NewcomersGetChosen'
    <2>1. SourceOf(w)' = chosen[w]
      BY <1>1 DEF SourceOf
    <2>. QED
      BY <1>1, <1>2, <1>4, <2>1 DEF NewcomersGetChosen, Track
  \* In `open' mode there is nobody.
  <1>11. ~protected => DOMAIN conns = {} /\ \A v \in Viewer : ToSet(senders[v]) = {}
    <2>. SUFFICES ASSUME ~protected
                  PROVE  DOMAIN conns = {} /\ \A v \in Viewer : ToSet(senders[v]) = {}
      OBVIOUS
    <2>1. \A i \in DOMAIN conns : 0 < i /\ senders[conns[i]] # <<>>
      BY <1>1, Seen, Types
    <2>2. DOMAIN conns = {}
      BY <2>1 DEF Targets
    <2>3. ToSet(conns) = {}
      BY <2>2 DEF ToSet
    <2>. QED
      BY <1>1, <2>2, <2>3, Types DEF TypeOK
  <1>12. Passed' /\ NobodyIsFrozenInOpenMode' /\ Pipeline'
    BY <1>11 DEF Passed, NobodyIsFrozenInOpenMode, NobodyIsFrozen, Pipeline, Uncut
  <1>. QED
    BY <1>6, <1>7, <1>8, <1>9, <1>10, <1>12 DEF SessionInv, Shape

\* Otherwise the switch goes to the first viewer that has media.
LEMMA EnterStep ==
  ASSUME SessionInv, NEW w \in Switch, phase[w] = "capture", NEW j \in DOMAIN conns,
         IsNext(0, j), queue' = [queue EXCEPT ![conns[j]] = Append(@, w)],
         phase' = [phase EXCEPT ![w] = "swap"], live' = live \cup {w},
         old' = [old EXCEPT ![w] = stream],
         UNCHANGED <<session, viewers, senders, stream, active, chosen>>
  PROVE  SessionInv'
  <1>. USE DEF session, viewers
  <1>. DEFINE u == conns[j]
  <1>1. TypeOK /\ Shape /\ w # First /\ w \in Track /\ u \in Viewer /\ senders[u] # <<>>
    BY Types DEF SessionInv, Shape, IsNext, Targets
  <1>2. stream \subseteq Track /\ queue[u] \in Seq(Switch) /\ IsInjective(queue[u])
    BY <1>1 DEF Shape, TypeOK, QueuesApart
  <1>3. \A v \in Viewer : w \notin ToSet(queue[v])
    BY <1>1 DEF TypeOK
  <1>4. /\ Append(queue[u], w) \in Seq(Switch)
        /\ ToSet(Append(queue[u], w)) = ToSet(queue[u]) \cup {w}
        /\ IsInjective(Append(queue[u], w)) /\ Last(Append(queue[u], w)) = w
    BY <1>2, <1>3, <1>1, AppendMembers
  <1>5. /\ queue' \in [Viewer -> Seq(Switch)]
        /\ \A v \in Viewer : /\ v # u => queue'[v] = queue[v]
                             /\ IsInjective(queue'[v])
                             /\ \A x : x \in ToSet(queue'[v]) <=> x \in ToSet(queue[v]) \/ (v = u /\ x = w)
    BY <1>1, <1>4 DEF Shape, TypeOK, QueuesApart
  <1>6. /\ \A x \in Switch : phase'[x] = IF x = w THEN "swap" ELSE phase[x]
        /\ phase' \in [Switch -> {"new", "capture", "swap", "done", "abandoned"}]
    BY <1>1 DEF TypeOK
  <1>7. old' \in [Switch -> SUBSET Track] /\ \A x \in Switch : old'[x] = IF x = w THEN stream ELSE old[x]
    BY <1>1, <1>2 DEF TypeOK
  <1>. HIDE DEF u
  <1>8. TypeOK'
    <2>1. \A x \in Switch : phase'[x] = "swap" <=> \E v \in Viewer : x \in ToSet(queue'[v])
      <3>1. \A x \in Switch : phase[x] = "swap" <=> \E v \in Viewer : x \in ToSet(queue[v])
        BY <1>1 DEF TypeOK
      <3>. QED
        BY <1>1, <1>5, <1>6, <3>1
    <2>2. \A v \in Viewer : queue'[v] # <<>> => senders[v] # <<>>
      BY <1>1, <1>5 DEF TypeOK
    <2>3. live' \subseteq Track
      BY <1>1 DEF TypeOK
    <2>. QED
      BY <1>1, <1>5, <1>6, <1>7, <2>1, <2>2, <2>3 DEF TypeOK
  <1>9. QueuesApart'
    <2>1. \A v, x \in Viewer : v # x => ToSet(queue'[v]) \cap ToSet(queue'[x]) = {}
      <3>1. \A v, x \in Viewer : v # x => ToSet(queue[v]) \cap ToSet(queue[x]) = {}
        BY <1>1 DEF Shape, QueuesApart
      <3>. QED
        BY <1>1, <1>3, <1>5, <3>1
    <2>. QED
      BY <1>5, <2>1 DEF QueuesApart
  <1>10. OldOnes'
    <2>1. Adopted' = Adopted
      BY <1>6 DEF Adopted
    <2>. QED
      BY <1>1, <1>7, <2>1 DEF Shape, OldOnes
  <1>11. SwapsLive' /\ Ended' /\ OneSender'
    BY <1>1, <1>6 DEF Shape, SwapsLive, Ended, OneSender
  <1>12. NewcomersGetChosen'
    BY DEF SessionInv, NewcomersGetChosen, SourceOf, Track
  <1>13. ~protected => \A i \in DOMAIN conns : j <= i
    BY <1>1, Seen, Types DEF IsNext, Targets
  <1>14. Passed'
    <2>. SUFFICES ASSUME ~protected, NEW i \in DOMAIN conns, NEW k \in DOMAIN conns, i < k,
                         NEW x \in ToSet(queue'[conns[k]])
                  PROVE  senders[conns[i]][1] \notin old'[x]
      BY DEF Passed
    <2>1. k # j /\ conns[k] # u /\ conns[k] \in Viewer
      BY <1>1, <1>13, Types DEF u
    <2>2. x \in ToSet(queue[conns[k]]) /\ x # w /\ x \in Switch
      BY <1>1, <1>3, <1>5, <2>1, Types
    <2>. QED
      BY <1>7, <2>2 DEF SessionInv, Passed
  <1>15. NobodyIsFrozenInOpenMode'
    BY DEF SessionInv, NobodyIsFrozenInOpenMode, NobodyIsFrozen
  <1>16. Pipeline'
    <2>. SUFFICES ASSUME Uncut', NEW i \in DOMAIN conns
                  PROVE  /\ IdleAfter(i)' => stream = {senders[conns[i]][1]}
                         /\ \A k \in DOMAIN conns :
                              i < k /\ queue'[conns[k]] # <<>> /\ IdleBetween(i, k)'
                                => senders[conns[i]][1] = Last(queue'[conns[k]])
      BY DEF Pipeline
    <2>1. Uncut
      BY <1>6 DEF Uncut
    <2>2. \A k \in DOMAIN conns : i < k => queue'[conns[k]] = queue[conns[k]]
      BY <1>1, <1>5, <1>13, <2>1, Types DEF u, Uncut
    <2>3. IdleAfter(i)' => IdleAfter(i)
      BY <2>2 DEF IdleAfter
    <2>4. \A k \in DOMAIN conns : IdleBetween(i, k)' => IdleBetween(i, k)
      BY <2>2 DEF IdleBetween
    <2>. QED
      BY <2>1, <2>2, <2>3, <2>4 DEF SessionInv, Pipeline
  <1>. QED
    BY <1>8, <1>9, <1>10, <1>11, <1>12, <1>14, <1>15, <1>16 DEF SessionInv, Shape

LEMMA CapturedStep ==
  ASSUME SessionInv, NEW w \in Switch, Captured(w)
  PROVE  SessionInv'
  <1>1. CASE Targets(0) = {} /\ Finish(w, live \cup {w}, stream, FALSE) /\ UNCHANGED queue
    BY <1>1, AdoptStep DEF Captured
  <1>2. CASE /\ \E j \in DOMAIN conns :
                  IsNext(0, j) /\ queue' = [queue EXCEPT ![conns[j]] = Append(@, w)]
             /\ phase' = [phase EXCEPT ![w] = "swap"]
             /\ live' = live \cup {w}
             /\ UNCHANGED <<stream, active>>
    BY <1>2, EnterStep DEF Captured
  <1>. QED
    BY <1>1, <1>2 DEF Captured

\* What replaceTrack() does to the viewer it runs at, and what is left of the
\* queue there.
Replaces(v, w) ==
  /\ w \in Switch /\ w \in Track /\ w # First /\ phase[w] = "swap" /\ w \in live
  /\ w \notin Adopted /\ w \in ToSet(queue[v])
  /\ \A u \in Viewer : w \in ToSet(queue[u]) => u = v
  /\ senders' \in [Viewer -> Seq(Track)]
  /\ \A u \in Viewer : /\ u # v => senders'[u] = senders[u]
                       /\ senders'[u] # <<>> <=> senders[u] # <<>>
                       /\ Len(senders'[u]) = Len(senders[u])
  /\ senders'[v][1] = w
  /\ Tail(queue[v]) \in Seq(Switch) /\ IsInjective(Tail(queue[v]))
  /\ \A x : x \in ToSet(Tail(queue[v])) <=> x \in ToSet(queue[v]) /\ x # w
  /\ Last(queue[v]) = IF Tail(queue[v]) = <<>> THEN w ELSE Last(Tail(queue[v]))

LEMMA SwapEffects ==
  ASSUME Shape, NEW v \in Viewer, queue[v] # <<>>, NEW w, w = Head(queue[v]),
         senders' = [senders EXCEPT ![v][1] = w]
  PROVE  Replaces(v, w)
  <1>. USE DEF Shape
  <1>1. queue[v] \in Seq(Switch) /\ IsInjective(queue[v]) /\ senders[v] \in Seq(Track) /\ senders[v] # <<>>
    BY Types DEF QueuesApart, TypeOK
  <1>2. /\ w \in Switch /\ w \in ToSet(queue[v])
        /\ Tail(queue[v]) \in Seq(Switch) /\ IsInjective(Tail(queue[v]))
        /\ ToSet(Tail(queue[v])) = ToSet(queue[v]) \ {w}
        /\ Last(queue[v]) = IF Tail(queue[v]) = <<>> THEN w ELSE Last(Tail(queue[v]))
    BY <1>1, TailMembers
  <1>3. /\ w \in Track /\ w # First /\ phase[w] = "swap" /\ w \in live /\ w \notin Adopted
    BY <1>2, Types DEF TypeOK, SwapsLive, Adopted
  <1>4. \A u \in Viewer : w \in ToSet(queue[u]) => u = v
    BY <1>2 DEF QueuesApart
  <1>5. senders' = [senders EXCEPT ![v] = [senders[v] EXCEPT ![1] = w]]
    OBVIOUS
  <1>. DEFINE s == [senders[v] EXCEPT ![1] = w]
  <1>6. s \in Seq(Track) /\ Len(s) = Len(senders[v]) /\ s[1] = w /\ s # <<>>
    <2>1. 1 \in 1 .. Len(senders[v])
      BY <1>1, EmptyMembers
    <2>2. s \in Seq(Track) /\ Len(s) = Len(senders[v])
          /\ \A k \in 1 .. Len(senders[v]) : s[k] = IF k = 1 THEN w ELSE senders[v][k]
      BY <1>1, <1>3, <2>1, ExceptSeq
    <2>. HIDE DEF s
    <2>3. s # <<>>
      BY <2>1, <2>2, EmptySeq
    <2>. QED
      BY <2>1, <2>2, <2>3
  <1>. HIDE DEF s
  <1>7. senders' = [senders EXCEPT ![v] = s]
    BY <1>5 DEF s
  <1>8. /\ senders' \in [Viewer -> Seq(Track)] /\ senders'[v] = s
        /\ \A u \in Viewer : u # v => senders'[u] = senders[u]
    BY <1>6, <1>7 DEF TypeOK
  <1>. QED
    BY <1>1, <1>2, <1>3, <1>4, <1>6, <1>8 DEF Replaces

\* The last viewer has its track: what there was before is stopped.
LEMMA SwapEndStep ==
  ASSUME SessionInv, NEW i \in DOMAIN conns, NEW v, v = conns[i], queue[v] # <<>>,
         NEW w, w = Head(queue[v]),
         senders' = [senders EXCEPT ![v][1] = w],
         Targets(i) = {}, Finish(w, live, old[w], TRUE), queue' = [queue EXCEPT ![v] = Tail(@)],
         UNCHANGED <<session, viewers, chosen, old>>
  PROVE  SessionInv'
  <1>. USE DEF session, viewers
  <1>1. TypeOK /\ Shape /\ v \in Viewer /\ v \in ToSet(conns)
    BY Types DEF SessionInv, Shape
  <1>2. /\ w \in Switch /\ w \in Track /\ w # First /\ phase[w] = "swap" /\ w \in live
        /\ w \notin Adopted /\ w \in ToSet(queue[v])
        /\ \A u \in Viewer : w \in ToSet(queue[u]) => u = v
        /\ senders' \in [Viewer -> Seq(Track)]
        /\ \A u \in Viewer : /\ u # v => senders'[u] = senders[u]
                             /\ senders'[u] # <<>> <=> senders[u] # <<>>
                             /\ Len(senders'[u]) = Len(senders[u])
        /\ senders'[v][1] = w
        /\ Tail(queue[v]) \in Seq(Switch) /\ IsInjective(Tail(queue[v]))
        /\ \A x : x \in ToSet(Tail(queue[v])) <=> x \in ToSet(queue[v]) /\ x # w
        /\ Last(queue[v]) = IF Tail(queue[v]) = <<>> THEN w ELSE Last(Tail(queue[v]))
    <2>1. Replaces(v, w)
      BY <1>1, SwapEffects
    <2>. QED
      BY <2>1 DEF Replaces
  <1>3. /\ queue' \in [Viewer -> Seq(Switch)] /\ queue'[v] = Tail(queue[v])
        /\ \A u \in Viewer : u # v => queue'[u] = queue[u]
        /\ \A u \in Viewer : \A x : x \in ToSet(queue'[u]) <=> x \in ToSet(queue[u]) /\ x # w
        /\ \A u \in Viewer : IsInjective(queue'[u])
    <2>1. /\ queue' \in [Viewer -> Seq(Switch)] /\ queue'[v] = Tail(queue[v])
          /\ \A u \in Viewer : u # v => queue'[u] = queue[u]
      BY <1>1, <1>2 DEF TypeOK
    <2>. QED
      BY <1>1, <1>2, <2>1 DEF Shape, QueuesApart
  <1>4. /\ \A x \in Switch : phase'[x] = IF x = w THEN "done" ELSE phase[x]
        /\ phase' \in [Switch -> {"new", "capture", "swap", "done", "abandoned"}]
    BY <1>1, <1>2 DEF Finish, TypeOK
  <1>5. /\ stream' = IF protected THEN (stream \ old[w]) \cup {w} ELSE {w}
        /\ live' = live \ old[w] /\ active' = chosen[w]
        /\ old[w] \subseteq Adopted
    BY <1>1, <1>2 DEF Finish, Shape, OldOnes
  <1>6. TypeOK'
    <2>1. \A x \in Switch : phase'[x] = "swap" <=> \E u \in Viewer : x \in ToSet(queue'[u])
      <3>1. \A x \in Switch : phase[x] = "swap" <=> \E u \in Viewer : x \in ToSet(queue[u])
        BY <1>1 DEF TypeOK
      <3>. QED
        BY <1>1, <1>3, <1>4, <3>1
    <2>2. \A u \in Viewer : queue'[u] # <<>> => senders'[u] # <<>>
      BY <1>1, <1>2, <1>3 DEF TypeOK
    <2>3. \A u \in Viewer : senders'[u] # <<>> => u \in ToSet(conns)
      BY <1>1, <1>2 DEF TypeOK
    <2>4. live' \subseteq Track /\ active' \in Source /\ stream' \subseteq Track
      BY <1>1, <1>2, <1>5 DEF TypeOK
    <2>. QED
      BY <1>1, <1>2, <1>3, <1>4, <2>1, <2>2, <2>3, <2>4 DEF TypeOK
  <1>7. QueuesApart'
    <2>1. \A u, x \in Viewer : u # x => ToSet(queue[u]) \cap ToSet(queue[x]) = {}
      BY <1>1 DEF Shape, QueuesApart
    <2>2. \A u, x \in Viewer : u # x => ToSet(queue'[u]) \cap ToSet(queue'[x]) = {}
      BY <1>3, <2>1
    <2>. QED
      BY <1>3, <2>2 DEF QueuesApart
  <1>8. OldOnes'
    <2>1. Adopted' = Adopted \cup {w}
      BY <1>2, <1>4 DEF Adopted
    <2>2. IsFiniteSet(stream)
      BY <1>1 DEF Shape, OldOnes
    <2>3. IsFiniteSet({w}) /\ IsFiniteSet((stream \ old[w]) \cup {w})
      BY <2>2, FS_Singleton, FS_Union, FS_Subset
    <2>4. IsFiniteSet(stream')
      BY <1>5, <2>3
    <2>. QED
      BY <1>1, <1>5, <2>1, <2>4 DEF Shape, OldOnes
  <1>9. SwapsLive'
    <2>1. \A x \in Switch : phase[x] = "swap" => x \in live /\ x \notin Adopted
      BY <1>1, Types DEF Shape, SwapsLive, Adopted
    <2>. QED
      BY <1>4, <1>5, <2>1 DEF SwapsLive
  <1>10. Ended' /\ OneSender'
    BY <1>1, <1>2, Types DEF Shape, Ended, OneSender
  <1>11. NewcomersGetChosen'
    <2>1. SourceOf(w)' = chosen[w] /\ w \notin old[w]
      BY <1>2, <1>5 DEF SourceOf
    <2>2. up => stream \subseteq live
      BY DEF SessionInv, NewcomersGetChosen
    <2>. QED
      BY <1>2, <1>5, <2>1, <2>2 DEF NewcomersGetChosen, Track
  \* In `open' mode v is the last one.
  <1>12. ~protected => \A j \in DOMAIN conns : j <= i
    BY <1>1, Seen, Types DEF Targets
  <1>13. \A j \in DOMAIN conns : j # i => conns[j] # v /\ conns[j] \in Viewer
    BY <1>1, Types
  <1>14. Passed'
    <2>. SUFFICES ASSUME ~protected, NEW k \in DOMAIN conns, NEW j \in DOMAIN conns, k < j,
                         NEW x \in ToSet(queue'[conns[j]])
                  PROVE  senders'[conns[k]][1] \notin old[x]
      BY DEF Passed
    <2>1. k # i /\ k <= i /\ conns[j] \in Viewer
      BY <1>1, <1>12, Types
    <2>2. x \in ToSet(queue[conns[j]]) /\ senders'[conns[k]] = senders[conns[k]]
      BY <1>2, <1>3, <1>13, <2>1
    <2>. QED
      BY <2>2 DEF SessionInv, Passed
  <1>15. NobodyIsFrozenInOpenMode'
    <2>. SUFFICES ASSUME ~protected, NEW u \in Viewer
                  PROVE  ToSet(senders'[u]) \subseteq live'
      BY DEF NobodyIsFrozenInOpenMode, NobodyIsFrozen
    <2>1. CASE senders'[u] = <<>>
      BY <2>1 DEF ToSet
    <2>2. CASE u = v
      <3>1. ToSet(senders'[v]) = {w}
        <4>1. Len(senders[v]) = 1
          BY <1>1 DEF Shape, OneSender
        <4>2. Len(senders'[v]) = 1 /\ senders'[v] \in Seq(Track)
          BY <1>1, <1>2, <4>1
        <4>3. ToSet(senders'[v]) = {senders'[v][1]}
          BY <4>2, OneMember
        <4>. QED
          BY <1>2, <4>3
      <3>2. w \in live'
        BY <1>2, <1>5
      <3>. QED
        BY <2>2, <3>1, <3>2
    <2>3. CASE senders'[u] # <<>> /\ u # v
      <3>1. senders'[u] = senders[u] /\ senders[u] # <<>> /\ u \in ToSet(conns)
        BY <1>1, <1>2, <2>3 DEF TypeOK
      <3>2. PICK k \in DOMAIN conns : u = conns[k]
        BY <3>1 DEF ToSet
      <3>3. k < i
        BY <1>1, <1>12, <2>3, <3>2, Types
      <3>4. ToSet(senders[u]) = {senders[u][1]}
        BY <1>1, <3>2, Seen
      <3>5. senders[u][1] \notin old[w]
        BY <1>2, <3>2, <3>3 DEF SessionInv, Passed
      <3>6. ToSet(senders[u]) \subseteq live
        BY DEF SessionInv, NobodyIsFrozenInOpenMode, NobodyIsFrozen
      <3>. QED
        BY <1>5, <3>1, <3>4, <3>5, <3>6
    <2>. QED
      BY <2>1, <2>2, <2>3
  <1>16. Pipeline'
    <2>. SUFFICES ASSUME Uncut', NEW k \in DOMAIN conns
                  PROVE  /\ IdleAfter(k)' => stream' = {senders'[conns[k]][1]}
                         /\ \A j \in DOMAIN conns :
                              k < j /\ queue'[conns[j]] # <<>> /\ IdleBetween(k, j)'
                                => senders'[conns[k]][1] = Last(queue'[conns[j]])
      BY DEF Pipeline
    <2>1. Uncut /\ ~protected /\ stream' = {w} /\ k <= i
      BY <1>2, <1>4, <1>5, <1>12 DEF Uncut
    <2>2. CASE k = i
      BY <1>1, <1>2, <1>12, <2>1, <2>2, Types
    <2>3. CASE k # i
      <3>1. k < i /\ senders'[conns[k]] = senders[conns[k]]
        BY <1>1, <1>2, <1>13, <2>1, <2>3, Types
      <3>2. \A j \in DOMAIN conns : j # i => queue'[conns[j]] = queue[conns[j]]
        BY <1>3, <1>13
      <3>3. ASSUME IdleBetween(k, i), queue'[v] = <<>> PROVE senders[conns[k]][1] = w
        <4>1. senders[conns[k]][1] = Last(queue[v])
          BY <2>1, <3>1, <3>3 DEF SessionInv, Pipeline
        <4>. QED
          BY <1>2, <1>3, <3>3, <4>1
      <3>4. ASSUME IdleAfter(k)' PROVE stream' = {senders'[conns[k]][1]}
        <4>1. queue'[v] = <<>> /\ IdleBetween(k, i)
          BY <1>13, <3>1, <3>2, <3>4, Types, <1>1 DEF IdleAfter, IdleBetween
        <4>. QED
          BY <2>1, <3>1, <3>3, <4>1
      <3>5. ASSUME NEW j \in DOMAIN conns, k < j, queue'[conns[j]] # <<>>, IdleBetween(k, j)'
            PROVE  senders'[conns[k]][1] = Last(queue'[conns[j]])
        <4>1. j <= i
          BY <1>12, <2>1
        <4>2. IdleBetween(k, j)
          BY <3>2, <3>5, <4>1, Types, <1>1 DEF IdleBetween
        <4>3. queue[conns[j]] # <<>> /\ Last(queue'[conns[j]]) = Last(queue[conns[j]])
          BY <1>2, <1>3, <3>2, <3>5
        <4>. QED
          BY <2>1, <3>1, <3>5, <4>2, <4>3 DEF SessionInv, Pipeline
      <3>. QED
        BY <3>4, <3>5
    <2>. QED
      BY <2>2, <2>3
  <1>. QED
    BY <1>6, <1>7, <1>8, <1>9, <1>10, <1>11, <1>14, <1>15, <1>16 DEF SessionInv, Shape

\* What the switch writes when it goes on from v, whose sender it replaces, to u.
HandsOn(v, w, u) ==
  /\ senders' = [senders EXCEPT ![v][1] = w]
  /\ queue' = [queue EXCEPT ![v] = Tail(@), ![u] = Append(@, w)]

\* The switch goes on to the next viewer that has media.
LEMMA SwapNextStep ==
  ASSUME SessionInv, NEW i \in DOMAIN conns, NEW v, v = conns[i], queue[v] # <<>>,
         NEW w, w = Head(queue[v]),
         NEW j \in DOMAIN conns, IsNext(i, j), NEW u, u = conns[j], HandsOn(v, w, u),
         UNCHANGED <<session, viewers, chosen, old, phase, stream, live, active>>
  PROVE  SessionInv'
  <1>. USE DEF session, viewers
  <1>1. /\ TypeOK /\ Shape /\ i < j /\ senders[u] # <<>>
    BY DEF SessionInv, Shape, IsNext, Targets
  <1>2. /\ \A k \in DOMAIN conns : k \in Nat
        /\ v \in Viewer /\ v \in ToSet(conns) /\ u \in Viewer
        /\ queue[u] \in Seq(Switch)
        /\ \A k, l \in DOMAIN conns : conns[k] = conns[l] => k = l
    BY <1>1, Types
  <1>3. i \in Nat /\ j \in Nat /\ i < j /\ \A k \in DOMAIN conns : k \in Nat
    BY <1>1, <1>2
  <1>4. /\ TypeOK /\ Shape /\ v \in Viewer /\ v \in ToSet(conns) /\ u \in Viewer /\ i < j /\ u # v
        /\ senders[u] # <<>> /\ queue[u] \in Seq(Switch) /\ IsInjective(queue[u])
    <2>1. i # j
      BY <1>1, <1>2
    <2>2. u # v
      BY <1>2, <2>1
    <2>3. IsInjective(queue[u])
      BY <1>1, <1>2 DEF Shape, QueuesApart
    <2>. QED
      BY <1>1, <1>2, <2>2, <2>3
  <1>5. Replaces(v, w)
    BY <1>4, SwapEffects DEF HandsOn
  <1>6. /\ queue' \in [Viewer -> Seq(Switch)] /\ queue'[v] = Tail(queue[v])
        /\ \A x \in Viewer : x # v /\ x # u => queue'[x] = queue[x]
        /\ Last(queue'[u]) = w
        /\ \A x \in Viewer : \A y : y \in ToSet(queue'[x]) <=> IF y = w THEN x = u ELSE y \in ToSet(queue[x])
        /\ \A x \in Viewer : IsInjective(queue'[x])
    <2>1. w \in Switch /\ w \notin ToSet(queue[u])
      BY <1>4, <1>5 DEF Replaces
    <2>2. /\ Append(queue[u], w) \in Seq(Switch)
          /\ ToSet(Append(queue[u], w)) = ToSet(queue[u]) \cup {w}
          /\ IsInjective(Append(queue[u], w)) /\ Last(Append(queue[u], w)) = w
      BY <1>4, <2>1, AppendMembers
    <2>3. Tail(queue[v]) \in Seq(Switch)
      BY <1>5 DEF Replaces
    <2>. DEFINE a == Append(queue[u], w)
                t == Tail(queue[v])
    <2>4. queue' = [queue EXCEPT ![v] = t, ![u] = a]
      BY <1>4 DEF TypeOK, HandsOn
    <2>5. queue \in [Viewer -> Seq(Switch)] /\ t \in Seq(Switch) /\ a \in Seq(Switch)
      BY <1>4, <2>2, <2>3 DEF TypeOK
    <2>. HIDE DEF a, t
    <2>6. /\ queue' \in [Viewer -> Seq(Switch)] /\ queue'[v] = t /\ queue'[u] = a
          /\ \A x \in Viewer : x # v /\ x # u => queue'[x] = queue[x]
      <3>1. v \in Viewer /\ u \in Viewer /\ u # v
        BY <1>4
      <3>2. \A x \in Viewer : queue'[x] = IF x = u THEN a ELSE IF x = v THEN t ELSE queue[x]
        BY <2>4, <2>5
      <3>3. queue' \in [Viewer -> Seq(Switch)]
        BY <2>4, <2>5
      <3>. QED
        BY <3>1, <3>2, <3>3
    <2>7. \A x \in Viewer : IsInjective(queue'[x])
      BY <1>4, <1>5, <2>2, <2>6 DEF a, t, Replaces, Shape, QueuesApart
    <2>8. \A x \in Viewer : \A y : y \in ToSet(queue'[x]) <=> IF y = w THEN x = u ELSE y \in ToSet(queue[x])
      <3>. SUFFICES ASSUME NEW x \in Viewer, NEW y
                    PROVE  y \in ToSet(queue'[x]) <=> IF y = w THEN x = u ELSE y \in ToSet(queue[x])
        OBVIOUS
      <3>1. CASE x = u
        BY <2>2, <2>6, <3>1 DEF a
      <3>2. CASE x = v
        BY <1>4, <1>5, <2>6, <3>2 DEF t, Replaces
      <3>3. CASE x # u /\ x # v
        BY <1>4, <1>5, <2>6, <3>3 DEF Replaces
      <3>. QED
        BY <3>1, <3>2, <3>3
    <2>. QED
      BY <2>2, <2>6, <2>7, <2>8 DEF a, t
  <1>7. TypeOK'
    <2>1. \A x \in Switch : phase[x] = "swap" <=> \E y \in Viewer : x \in ToSet(queue'[y])
      <3>1. \A x \in Switch : phase[x] = "swap" <=> \E y \in Viewer : x \in ToSet(queue[y])
        BY <1>4 DEF TypeOK
      <3>2. phase[w] = "swap"
        BY <1>5 DEF Replaces
      <3>. QED
        BY <1>4, <1>6, <3>1, <3>2
    <2>2. \A x \in Viewer : queue'[x] # <<>> => senders'[x] # <<>>
      <3>1. \A x \in Viewer : queue[x] # <<>> => senders[x] # <<>>
        BY <1>4 DEF TypeOK
      <3>. QED
        BY <1>4, <1>5, <1>6, <3>1 DEF Replaces
    <2>3. \A x \in Viewer : senders'[x] # <<>> => x \in ToSet(conns)
      BY <1>4, <1>5 DEF TypeOK, Replaces
    <2>4. senders' \in [Viewer -> Seq(Track)]
      BY <1>5 DEF Replaces
    <2>. QED
      BY <1>4, <1>6, <2>1, <2>2, <2>3, <2>4 DEF TypeOK
  <1>8. QueuesApart'
    <2>1. \A x, y \in Viewer : x # y => ToSet(queue[x]) \cap ToSet(queue[y]) = {}
      BY <1>4 DEF Shape, QueuesApart
    <2>2. \A x, y \in Viewer : x # y => ToSet(queue'[x]) \cap ToSet(queue'[y]) = {}
      <3>1. ASSUME NEW x \in Viewer, NEW y \in Viewer, NEW z, z \in ToSet(queue'[x]), z \in ToSet(queue'[y])
            PROVE  x = y
        <4>1. CASE z = w
          <5>1. x = u /\ y = u
            BY <1>6, <3>1, <4>1
          <5>. QED
            BY <5>1
        <4>2. CASE z # w
          <5>1. z \in ToSet(queue[x]) /\ z \in ToSet(queue[y])
            BY <1>6, <3>1, <4>2
          <5>. QED
            BY <2>1, <5>1
        <4>. QED
          BY <4>1, <4>2
      <3>. QED
        BY <3>1
    <2>. QED
      BY <1>6, <2>2 DEF QueuesApart
  <1>9. OldOnes' /\ SwapsLive' /\ Ended'
    BY <1>4 DEF Shape, OldOnes, Adopted, SwapsLive, Ended
  <1>10. OneSender'
    BY <1>4, <1>5, Types DEF Shape, OneSender, Replaces
  <1>11. NewcomersGetChosen'
    BY DEF SessionInv, NewcomersGetChosen, SourceOf, Track
  \* In `open' mode the next one is the very next.
  <1>12. ~protected => \A k \in DOMAIN conns : i < k => j <= k
    BY <1>4, Seen, Types DEF IsNext, Targets
  <1>13. \A k \in DOMAIN conns : /\ conns[k] \in Viewer
                                 /\ k # i => conns[k] # v
                                 /\ k # j => conns[k] # u
    BY <1>4, Types
  <1>14. w \in Switch /\ w \in live /\ senders'[v][1] = w /\ \A x \in Switch : w \notin old[x]
    BY <1>4, <1>5 DEF Replaces, Shape, OldOnes
  <1>15. \A x \in Viewer : x # v => senders'[x] = senders[x]
    BY <1>5 DEF Replaces
  <1>16. Passed'
    <2>. SUFFICES ASSUME ~protected, NEW k \in DOMAIN conns, NEW l \in DOMAIN conns, k < l,
                         NEW x \in ToSet(queue'[conns[l]])
                  PROVE  senders'[conns[k]][1] \notin old[x]
      BY DEF Passed
    <2>1. x \in Switch
      <3>1. queue'[conns[l]] \in Seq(Switch)
        BY <1>6, <1>13
      <3>. QED
        BY <3>1, EmptyMembers
    <2>2. CASE k = i
      BY <1>14, <2>1, <2>2
    <2>3. CASE k # i
      <3>1. senders'[conns[k]] = senders[conns[k]]
        BY <1>13, <1>15, <2>3
      <3>2. CASE x # w
        <4>1. x \in ToSet(queue[conns[l]])
          BY <1>6, <1>13, <3>2
        <4>. QED
          BY <3>1, <4>1 DEF SessionInv, Passed
      <3>3. CASE x = w
        <4>1. l = j
          BY <1>6, <1>13, <3>3
        <4>2. k < i
          BY <1>4, <1>12, <2>3, <4>1, Types
        <4>3. w \in ToSet(queue[conns[i]])
          BY <1>5 DEF Replaces
        <4>. QED
          BY <3>1, <3>3, <4>2, <4>3 DEF SessionInv, Passed
      <3>. QED
        BY <3>2, <3>3
    <2>. QED
      BY <2>2, <2>3
  <1>17. NobodyIsFrozenInOpenMode'
    <2>. SUFFICES ASSUME ~protected, NEW x \in Viewer
                  PROVE  ToSet(senders'[x]) \subseteq live
      BY DEF NobodyIsFrozenInOpenMode, NobodyIsFrozen
    <2>1. CASE x = v
      <3>1. Len(senders'[v]) = 1 /\ senders'[v] \in Seq(Track)
        BY <1>4, <1>5 DEF Shape, OneSender, Replaces
      <3>2. ToSet(senders'[v]) = {senders'[v][1]}
        BY <3>1, OneMember
      <3>. QED
        BY <1>14, <2>1, <3>2
    <2>2. CASE x # v
      BY <1>15, <2>2 DEF SessionInv, NobodyIsFrozenInOpenMode, NobodyIsFrozen
    <2>. QED
      BY <2>1, <2>2
  <1>18. Pipeline'
    <2>. SUFFICES ASSUME Uncut, NEW k \in DOMAIN conns
                  PROVE  /\ IdleAfter(k)' => stream = {senders'[conns[k]][1]}
                         /\ \A l \in DOMAIN conns :
                              k < l /\ queue'[conns[l]] # <<>> /\ IdleBetween(k, l)'
                                => senders'[conns[k]][1] = Last(queue'[conns[l]])
      <3>1. Uncut' => Uncut
        BY DEF Uncut
      <3>2. UNCHANGED <<conns, stream>>
        OBVIOUS
      <3>. QED
        BY <3>1, <3>2 DEF Pipeline
    <2>1. /\ \A l \in DOMAIN conns : i < l => j <= l
          /\ queue'[conns[j]] # <<>> /\ Last(queue'[conns[j]]) = w
          /\ \A l \in DOMAIN conns : l # i /\ l # j => queue'[conns[l]] = queue[conns[l]]
      <3>1. w \in ToSet(queue'[u]) /\ queue'[u] \in Seq(Switch)
        BY <1>4, <1>6
      <3>. QED
        BY <1>6, <1>12, <1>13, <3>1, EmptyMembers DEF Uncut
    <2>2. k \in Nat /\ \A l \in DOMAIN conns : l \in Nat /\ (i < l => j <= l)
      BY <1>3, <2>1
    <2>3. \A l \in DOMAIN conns : l # i /\ l # j => queue'[conns[l]] = queue[conns[l]]
      BY <2>1
    <2>4. \A m, l \in DOMAIN conns, x \in DOMAIN conns :
            IdleBetween(m, l)' /\ m < x /\ x < l => queue'[conns[x]] = <<>>
      BY DEF IdleBetween
    <2>5. CASE k = i
      <3>1. ~IdleAfter(k)'
        BY <1>4, <2>1, <2>5 DEF IdleAfter
      <3>2. ASSUME NEW l \in DOMAIN conns, k < l, IdleBetween(k, l)' PROVE l = j
        BY <1>3, <2>2, <2>4, <2>1, <2>5, <3>2
      <3>. QED
        BY <1>14, <2>1, <2>5, <3>1, <3>2
    <2>6. CASE j <= k
      <3>1. k # i /\ senders'[conns[k]] = senders[conns[k]]
        BY <1>4, <1>13, <1>15, <2>6, Types
      <3>2. \A l \in DOMAIN conns : k < l => queue'[conns[l]] = queue[conns[l]]
        <4>1. \A l \in DOMAIN conns : k < l => l # i /\ l # j
          BY <1>3, <2>6
        <4>. QED
          BY <2>3, <4>1
      <3>3. IdleAfter(k)' => IdleAfter(k)
        BY <3>2 DEF IdleAfter
      <3>4. \A l \in DOMAIN conns : IdleBetween(k, l)' => IdleBetween(k, l)
        BY <3>2 DEF IdleBetween
      <3>. QED
        BY <3>1, <3>2, <3>3, <3>4 DEF SessionInv, Pipeline
    <2>7. CASE k < i
      <3>1. k # i /\ k < j /\ senders'[conns[k]] = senders[conns[k]]
        BY <1>4, <1>13, <1>15, <2>7, Types
      <3>2. ~IdleAfter(k)'
        BY <2>1, <3>1 DEF IdleAfter
      <3>3. ASSUME NEW l \in DOMAIN conns, k < l, queue'[conns[l]] # <<>>, IdleBetween(k, l)'
            PROVE  senders'[conns[k]][1] = Last(queue'[conns[l]])
        <4>1. l <= j
          <5>1. ~(j < l)
            BY <2>1, <2>4, <3>1, <3>3
          <5>. QED
            BY <1>3, <5>1
        <4>2. CASE l = j
          <5>1. queue'[v] = <<>>
            BY <1>4, <2>7, <3>3, <4>2 DEF IdleBetween
          <5>2. IdleBetween(k, i)
            <6>1. \A x \in DOMAIN conns : k < x /\ x < i => x # i /\ x # j /\ x < j
              BY <1>3
            <6>. QED
              BY <2>4, <2>3, <3>3, <4>2, <6>1 DEF IdleBetween
          <5>3. senders[conns[k]][1] = Last(queue[v])
            BY <2>7, <5>2 DEF SessionInv, Pipeline
          <5>4. Last(queue[v]) = w
            BY <1>5, <1>6, <5>1 DEF Replaces
          <5>. QED
            BY <2>1, <3>1, <4>2, <5>3, <5>4
        <4>3. CASE l # j
          <5>1. l <= i
            BY <1>3, <2>2, <4>1, <4>3
          <5>2. IdleBetween(k, l)
            <6>1. \A x \in DOMAIN conns : k < x /\ x < l => x # i /\ x # j
              BY <1>3, <5>1
            <6>. QED
              BY <2>4, <2>3, <3>3, <6>1 DEF IdleBetween
          <5>3. queue[conns[l]] # <<>> /\ Last(queue'[conns[l]]) = Last(queue[conns[l]])
            BY <1>5, <1>6, <2>1, <3>3, <4>3 DEF Replaces
          <5>. QED
            BY <3>1, <3>3, <5>2, <5>3 DEF SessionInv, Pipeline
        <4>. QED
          BY <4>2, <4>3
      <3>. QED
        BY <3>2, <3>3
    <2>. QED
      <3>1. k = i \/ j <= k \/ k < i
        BY <1>3, <2>2
      <3>. QED
        BY <2>5, <2>6, <2>7, <3>1
  <1>. QED
    BY <1>7, <1>8, <1>9, <1>10, <1>11, <1>16, <1>17, <1>18 DEF SessionInv, Shape

LEMMA SwappedStep ==
  ASSUME SessionInv, NEW v \in Viewer, Swapped(v)
  PROVE  SessionInv'
  <1>. DEFINE w == Head(queue[v])
  <1>1. PICK i \in DOMAIN conns :
          /\ conns[i] = v
          /\ \/ /\ Targets(i) = {}
                /\ Finish(w, live, old[w], TRUE)
                /\ queue' = [queue EXCEPT ![v] = Tail(@)]
             \/ /\ \E j \in DOMAIN conns :
                     IsNext(i, j) /\ queue' = [queue EXCEPT ![v] = Tail(@), ![conns[j]] = Append(@, w)]
                /\ UNCHANGED <<phase, stream, live, active>>
    BY DEF Swapped
  <1>2. /\ queue[v] # <<>> /\ senders' = [senders EXCEPT ![v][1] = w]
        /\ UNCHANGED <<session, viewers, chosen, old>>
    BY DEF Swapped
  <1>3. CASE /\ Targets(i) = {}
             /\ Finish(w, live, old[w], TRUE)
             /\ queue' = [queue EXCEPT ![v] = Tail(@)]
    <2>. HIDE DEF w
    <2>. QED
      BY <1>1, <1>2, <1>3, SwapEndStep DEF w
  <1>4. ASSUME NEW j \in DOMAIN conns, IsNext(i, j),
               queue' = [queue EXCEPT ![v] = Tail(@), ![conns[j]] = Append(@, w)],
               UNCHANGED <<phase, stream, live, active>>
        PROVE  SessionInv'
    <2>. QED
      BY <1>1, <1>2, <1>4, SwapNextStep DEF HandsOn
  <1>. QED
    BY <1>1, <1>3, <1>4

LEMMA NextSession == SessionInv /\ [Next]_vars => SessionInv'
  <1>. SUFFICES ASSUME SessionInv, [Next]_vars PROVE SessionInv'
    OBVIOUS
  <1>1. ASSUME NEW v \in Viewer, ViewerJoins(v) PROVE SessionInv'
    BY <1>1, JoinStep
  <1>2. ASSUME NEW v \in Viewer, Authorize(v) PROVE SessionInv'
    BY <1>2, AuthorizeStep
  <1>3. ASSUME NEW v \in Viewer, ViewerLeaves(v) PROVE SessionInv'
    BY <1>3, LeaveStep
  <1>4. ASSUME NEW v \in Viewer, Swapped(v) PROVE SessionInv'
    BY <1>4, SwappedStep
  <1>5. ASSUME NEW w \in Switch, Captured(w) PROVE SessionInv'
    BY <1>5, CapturedStep
  <1>6. ASSUME NEW w \in Switch,
               (\E s \in Source : RequestSwitch(w, s)) \/ PickAgain(w) \/ CaptureFails(w)
        PROVE  SessionInv'
    BY <1>6, AskSteps
  <1>7. CASE Stop
    BY <1>7, StopStep
  <1>8. CASE UNCHANGED vars
    <2>. USE <1>8 DEF vars, session, viewers
    <2>1. Shape'
      BY DEF SessionInv, Shape, TypeOK, QueuesApart, OldOnes, Adopted, SwapsLive, Ended, OneSender, Track
    <2>2. NewcomersGetChosen' /\ NobodyIsFrozenInOpenMode'
      BY DEF SessionInv, NewcomersGetChosen, SourceOf, Track, NobodyIsFrozenInOpenMode, NobodyIsFrozen
    <2>3. Passed' /\ Pipeline'
      BY DEF SessionInv, Passed, Pipeline, Uncut, IdleAfter, IdleBetween
    <2>. QED
      BY <2>1, <2>2, <2>3 DEF SessionInv
  <1>. QED
    BY <1>1, <1>2, <1>3, <1>4, <1>5, <1>6, <1>7, <1>8 DEF Next

LEMMA SessionGives == SessionInv => CaptureInv /\ ViewersAgree
  <1>. SUFFICES ASSUME SessionInv PROVE CaptureInv /\ ViewersAgree
    OBVIOUS
  <1>1. CaptureInv
    BY DEF SessionInv, Shape, CaptureInv
  <1>2. ViewersAgree
    <2>. SUFFICES ASSUME ~protected, \A w \in Switch : phase[w] \notin {"swap", "abandoned"},
                         NEW v \in ToSet(conns)
                  PROVE  stream = ToSet(senders[v])
      BY DEF ViewersAgree
    <2>1. TypeOK /\ Shape /\ Uncut
      BY DEF SessionInv, Shape, Uncut
    <2>2. PICK i \in DOMAIN conns : v = conns[i]
      BY DEF ToSet
    <2>3. \A u \in Viewer : ToSet(queue[u]) = {}
      BY <2>1, Types DEF TypeOK
    <2>4. IdleAfter(i)
      BY <2>1, <2>3, Types DEF IdleAfter
    <2>5. stream = {senders[conns[i]][1]}
      BY <2>1, <2>4 DEF SessionInv, Pipeline
    <2>. QED
      BY <2>1, <2>2, <2>5, Seen
  <1>. QED
    BY <1>1, <1>2

----------------------------------------------------------------------------
(* The active display *)

\* A step of the display's model is a step of the session's, or leaves it alone.
LEMMA DisplayStepIsSessionStep == [DisplayNext]_allVars => [Next]_vars
  BY DEF DisplayNext, Next, LookedUp, allVars

(***************************************************************************)
(* As long as no lookup was overtaken there are lookups of the active      *)
(* source only, and without any the geometry is that source's.             *)
(***************************************************************************)
LookupsCurrent ==
  /\ lookups \in [Source -> Nat] /\ raced \in BOOLEAN
  /\ ~raced => /\ \A s \in Source : lookups[s] > 0 => s = active
               /\ lookups[active] = 0 => geometry = DisplayOf[active]

DisplayInv == SessionInv /\ LookupsCurrent

LEMMA InitDisplay == DisplayInit => DisplayInv
  <1>. SUFFICES ASSUME DisplayInit PROVE DisplayInv
    OBVIOUS
  <1>1. SessionInv
    BY InitSession DEF DisplayInit
  <1>2. LookupsCurrent
    <2>1. active = Initial /\ Initial \in Source
      BY CaptureAssumption DEF DisplayInit, Init
    <2>2. lookups = [[s \in Source |-> 0] EXCEPT ![Initial] = 1] /\ raced = FALSE
      BY DEF DisplayInit, Quiet
    <2>3. /\ lookups \in [Source -> Nat]
          /\ \A s \in Source : lookups[s] > 0 => s = active
          /\ lookups[active] # 0
      BY <2>1, <2>2
    <2>. QED
      BY <2>2, <2>3 DEF LookupsCurrent
  <1>. QED
    BY <1>1, <1>2 DEF DisplayInv

LEMMA SetActive ==
  ASSUME LookupsCurrent, NEW s \in Source, NEW n \in {1, 2}, SetActiveDisplay(s, n), active' = s
  PROVE  LookupsCurrent'
  <1>1. lookups' \in [Source -> Nat]
    BY DEF LookupsCurrent, SetActiveDisplay
  <1>2. raced' \in BOOLEAN
    BY Zenon DEF SetActiveDisplay
  <1>3. /\ lookups'[s] > 0
        /\ \A r \in Source : r # s => lookups'[r] = lookups[r]
    BY DEF LookupsCurrent, SetActiveDisplay
  <1>4. ASSUME ~raced', NEW r \in Source, r # s PROVE ~(lookups'[r] > 0)
    <2>1. lookups = Quiet \/ ~\E x \in Source \ {s} : lookups[x] > 0
      BY <1>4 DEF SetActiveDisplay
    <2>. QED
      BY <1>3, <1>4, <2>1 DEF Quiet
  <1>. QED
    BY <1>1, <1>2, <1>3, <1>4 DEF LookupsCurrent

LEMMA AnnounceStep ==
  ASSUME LookupsCurrent, TypeOK, NEW w \in Switch, Announce(w),
         phase'[w] = "done" => active' = chosen[w] /\ chosen' = chosen,
         phase'[w] # "done" => active' = active
  PROVE  LookupsCurrent'
  <1>1. CASE phase'[w] = "done"
    <2>1. chosen[w] \in Source
      BY DEF TypeOK
    <2>2. SetActiveDisplay(chosen[w], IF w \in Pick THEN 2 ELSE 1) /\ active' = chosen[w]
      BY <1>1 DEF Announce
    <2>3. CASE w \in Pick
      BY <2>1, <2>2, <2>3, SetActive
    <2>4. CASE w \notin Pick
      BY <2>1, <2>2, <2>4, SetActive
    <2>. QED
      BY <2>3, <2>4
  <1>2. CASE phase'[w] # "done"
    BY <1>2 DEF Announce, displayVars, LookupsCurrent
  <1>. QED
    BY <1>1, <1>2

LEMMA NextLookups == DisplayInv /\ [DisplayNext]_allVars => LookupsCurrent'
  <1>. SUFFICES ASSUME DisplayInv, [DisplayNext]_allVars PROVE LookupsCurrent'
    OBVIOUS
  <1>1. SessionInv /\ Shape /\ TypeOK /\ LookupsCurrent
    BY DEF DisplayInv, SessionInv, Shape
  <1>2. ASSUME UNCHANGED <<displayVars, active>> PROVE LookupsCurrent'
    BY <1>1, <1>2 DEF displayVars, LookupsCurrent
  <1>3. ASSUME NEW v \in Viewer, ViewerJoins(v) \/ Authorize(v) \/ ViewerLeaves(v)
        PROVE  UNCHANGED active
    BY <1>3 DEF ViewerJoins, Authorize, ViewerLeaves, CloseConnections
  <1>4. ASSUME NEW w \in Switch, CaptureFails(w) \/ \E s \in Source : RequestSwitch(w, s)
        PROVE  UNCHANGED active
    BY <1>4 DEF CaptureFails, RequestSwitch
  <1>5. Stop => UNCHANGED active
    BY DEF Stop, CloseConnections
  <1>6. ASSUME NEW w \in Switch, Captured(w), Announce(w) PROVE LookupsCurrent'
    <2>1. UNCHANGED chosen /\ phase \in [Switch -> {"new", "capture", "swap", "done", "abandoned"}]
      BY <1>1, <1>6 DEF Captured, TypeOK
    <2>2. CASE Finish(w, live \cup {w}, stream, FALSE)
      <3>1. phase'[w] = "done" /\ active' = chosen[w]
        BY <2>1, <2>2 DEF Finish
      <3>. QED
        BY <1>1, <1>6, <2>1, <3>1, AnnounceStep
    <2>3. CASE phase' = [phase EXCEPT ![w] = "swap"] /\ UNCHANGED active
      <3>1. phase'[w] # "done"
        BY <2>1, <2>3
      <3>. QED
        BY <1>1, <1>6, <2>3, <3>1, AnnounceStep
    <2>. QED
      BY <1>6, <2>2, <2>3 DEF Captured
  <1>7. ASSUME NEW v \in Viewer, Swapped(v), Announce(Head(queue[v])) PROVE LookupsCurrent'
    <2>. DEFINE w == Head(queue[v])
    <2>1. /\ w \in Switch /\ phase[w] = "swap" /\ UNCHANGED chosen
          /\ phase \in [Switch -> {"new", "capture", "swap", "done", "abandoned"}]
      <3>1. senders' = [senders EXCEPT ![v][1] = w] /\ queue[v] # <<>> /\ UNCHANGED chosen
        BY <1>7 DEF Swapped
      <3>2. Replaces(v, w)
        BY <1>1, <3>1, SwapEffects
      <3>. QED
        BY <1>1, <3>1, <3>2 DEF Replaces, TypeOK
    <2>2. Finish(w, live, old[w], TRUE) \/ UNCHANGED <<phase, active>>
      BY <1>7 DEF Swapped
    <2>3. Announce(w)
      BY <1>7
    <2>. HIDE DEF w
    <2>4. CASE Finish(w, live, old[w], TRUE)
      <3>1. phase'[w] = "done" /\ active' = chosen[w]
        BY <2>1, <2>4 DEF Finish
      <3>. QED
        BY <1>1, <2>1, <2>3, <3>1, AnnounceStep
    <2>5. CASE UNCHANGED <<phase, active>>
      <3>1. phase'[w] # "done" /\ active' = active
        BY <2>1, <2>5
      <3>. QED
        BY <1>1, <2>1, <2>3, <3>1, AnnounceStep
    <2>. QED
      BY <2>2, <2>4, <2>5
  <1>8. ASSUME NEW w \in Switch, PickAgain(w), SetActiveDisplay(active, 1) PROVE LookupsCurrent'
    <2>1. active \in Source /\ active' = active
      BY <1>1, <1>8 DEF TypeOK, PickAgain
    <2>. QED
      BY <1>1, <1>8, <2>1, SetActive
  <1>9. ASSUME NEW s \in Source, LookedUp(s) PROVE LookupsCurrent'
    <2>1. /\ lookups[s] > 0 /\ lookups' = [lookups EXCEPT ![s] = @ - 1]
          /\ geometry' = DisplayOf[s] /\ UNCHANGED <<active, raced>>
      BY <1>9 DEF LookedUp, vars
    <2>2. lookups' \in [Source -> Nat]
      BY <1>1, <2>1 DEF LookupsCurrent
    <2>3. \A r \in Source : lookups'[r] > 0 => lookups[r] > 0
      BY <1>1, <2>1 DEF LookupsCurrent
    <2>4. ~raced => s = active
      BY <1>1, <2>1 DEF LookupsCurrent
    <2>. QED
      BY <1>1, <2>1, <2>2, <2>3, <2>4 DEF LookupsCurrent
  <1>10. CASE UNCHANGED allVars
    BY <1>2, <1>10 DEF allVars, vars
  <1>. QED
    BY <1>2, <1>3, <1>4, <1>5, <1>6, <1>7, <1>8, <1>9, <1>10 DEF DisplayNext

LEMMA DisplayInvariant == DisplaySpec => []DisplayInv
  <1>1. DisplayInv /\ [DisplayNext]_allVars => DisplayInv'
    BY NextSession, NextLookups, DisplayStepIsSessionStep DEF DisplayInv
  <1>. QED
    BY <1>1, InitDisplay, PTL DEF DisplaySpec

----------------------------------------------------------------------------
(* The arithmetic *)

LEMMA RoundNat ==
  ASSUME NEW p \in Nat, NEW q \in Nat \ {0}
  PROVE  Round(p, q) \in Nat
  <1>1. 2 * p + q \in Nat /\ 2 * q \in Nat \ {0}
    OBVIOUS
  <1>. QED
    BY <1>1 DEF Round

\* The clamped step stays within the extent.
LEMMA AlongRange ==
  ASSUME NEW n \in Int, NEW extent \in Nat, extent >= 100
  PROVE  Along(n, extent) \in 0 .. extent - 100
  <1>. DEFINE last == extent - 100
              r == Round(Clamp(n) * last, 100 * Grid)
  <1>1. Grid \in Nat \ {0} /\ 100 * Grid \in Nat \ {0}
    BY DisplayAssumption
  <1>2. Clamp(n) \in Nat
    BY <1>1 DEF Clamp
  <1>3. last \in Nat
    OBVIOUS
  <1>. HIDE DEF last
  <1>4. Clamp(n) * last \in Nat
    BY <1>2, <1>3
  <1>5. r \in Nat
    BY <1>1, <1>4, RoundNat
  <1>. HIDE DEF r
  <1>6. (IF 100 * r > last THEN last ELSE 100 * r) \in 0 .. last
    BY <1>3, <1>5
  <1>. QED
    BY <1>6 DEF Along, last, r

\* Whatever is pointed at, the pixel is one of the display's.
LEMMA PointWithin ==
  ASSUME NEW n \in Int, NEW extent \in Nat, extent >= 100, NEW origin \in Int,
         NEW from, from = PhysicalPoint(n, [extent |-> extent, origin |-> origin]) - origin
  PROVE  0 <= from /\ 100 * from < extent
  <1>. DEFINE a == Along(n, extent)
  <1>1. a \in 0 .. extent - 100
    BY AlongRange
  <1>2. from = (2 * (100 * origin + a) + 100) \div (2 * 100) - origin
    BY DEF PhysicalPoint, Round
  <1>. HIDE DEF a
  <1>. QED
    BY <1>1, <1>2

LEMMA Landing ==
  ASSUME DisplayInv
  PROVE  PointerLandsOnScreen
  <1>. SUFFICES ASSUME Settled, NEW v \in ToSet(conns), NEW a \in {"x", "y"}, NEW n \in -1 .. Grid + 1,
                       NEW screen, screen = DisplayOf[SourceOf(Head(senders[v]))]
                PROVE  OnDisplay(ResolvePoint(n, a), IF screen = Nothing THEN Primary ELSE screen, a)
    BY DEF PointerLandsOnScreen
  <1>1. SessionInv /\ Shape /\ TypeOK /\ LookupsCurrent /\ ViewersAgree /\ ~protected
    BY SessionGives DEF DisplayInv, SessionInv, Shape, Settled
  <1>2. geometry = DisplayOf[active] /\ active \in Source
    BY <1>1 DEF Settled, Quiet, LookupsCurrent, TypeOK
  <1>3. up
    <2>1. conns # <<>>
      BY DEF ToSet
    <2>. QED
      BY <1>1, <2>1 DEF Shape, Ended
  <1>4. SourceOf(Head(senders[v])) = active
    <2>1. stream = ToSet(senders[v])
      BY <1>1 DEF Settled, ViewersAgree
    <2>2. PICK i \in DOMAIN conns : v = conns[i]
      BY DEF ToSet
    <2>3. ToSet(senders[v]) = {senders[v][1]}
      BY <1>1, <2>2, Seen
    <2>4. senders[v] \in Seq(Track)
      BY <1>1, <2>2, Types
    <2>5. senders[v] # <<>>
      BY <2>3 DEF ToSet
    <2>6. Head(senders[v]) = senders[v][1]
      BY <2>4, <2>5
    <2>. QED
      BY <1>1, <1>3, <2>1, <2>3, <2>6 DEF SessionInv, NewcomersGetChosen
  <1>5. screen = geometry
    BY <1>2, <1>4
  <1>6. n \in Int
    BY DisplayAssumption
  <1>7. ASSUME NEW d \in Display, NEW o \in Int, o = Layout[d][a].origin
        PROVE  OnDisplay(PhysicalPoint(n, [extent |-> Layout[d][a].extent * Layout[d].scale,
                                           origin |-> o]), d, a)
    <2>. DEFINE e == Layout[d][a].extent * Layout[d].scale
                from == PhysicalPoint(n, [extent |-> e, origin |-> o]) - o
    <2>1. e \in Nat /\ e >= 100
      BY DisplayAssumption
    <2>. HIDE DEF e
    <2>2. 0 <= from /\ 100 * from < e
      BY <1>6, <2>1, PointWithin
    <2>. QED
      BY <1>7, <2>2 DEF OnDisplay, e
  <1>8. CASE geometry = Nothing
    <2>1. Primary \in Display /\ Layout[Primary][a].origin = 0
      BY DisplayAssumption
    <2>2. ResolvePoint(n, a) = PhysicalPoint(n, [extent |-> Layout[Primary][a].extent * Layout[Primary].scale,
                                                 origin |-> 0])
      BY <1>8 DEF ResolvePoint, PhysicalRect
    <2>. QED
      BY <1>5, <1>7, <1>8, <2>1, <2>2
  <1>9. CASE geometry # Nothing
    <2>1. geometry \in Display /\ Layout[geometry][a].origin \in Int
      BY <1>2, <1>9, DisplayAssumption
    <2>2. ResolvePoint(n, a) = PhysicalPoint(n, [extent |-> Layout[geometry][a].extent * Layout[geometry].scale,
                                                 origin |-> Layout[geometry][a].origin])
      BY <1>9 DEF ResolvePoint, PhysicalRect
    <2>. QED
      BY <1>5, <1>7, <1>9, <2>1, <2>2
  <1>. QED
    BY <1>8, <1>9

----------------------------------------------------------------------------
(* The theorems *)

(***************************************************************************)
(* Whatever switches overlap, and whoever joins or leaves meanwhile: the   *)
(* state keeps its shape, the stream a newcomer would get is live and has  *)
(* the chosen source (host-session.ts:1070), and in `open' mode nobody is  *)
(* left with a track that was stopped.                                     *)
(***************************************************************************)
THEOREM DisplayCaptureCorrect == DisplaySpec => []CaptureInv
  <1>1. DisplayInv => CaptureInv
    BY SessionGives DEF DisplayInv
  <1>. QED
    BY <1>1, DisplayInvariant, PTL

(***************************************************************************)
(* Switches of an `open' session that overlap agree in the end: the calls  *)
(* of replaceTrack() follow each other from viewer to viewer in one order. *)
(***************************************************************************)
THEOREM DisplayViewersAgree == DisplaySpec => []ViewersAgree
  <1>1. DisplayInv => ViewersAgree
    BY SessionGives DEF DisplayInv
  <1>. QED
    BY <1>1, DisplayInvariant, PTL

(***************************************************************************)
(* In a settled `open' session a pointer lands on the display of the track *)
(* its viewer looks at, for displays of any size, scale and place          *)
(* (monitor.ts:11).                                                        *)
(***************************************************************************)
THEOREM DisplayPointerLands == DisplaySpec => []PointerLandsOnScreen
  <1>1. DisplayInv => PointerLandsOnScreen
    BY Landing
  <1>. QED
    BY <1>1, DisplayInvariant, PTL

=============================================================================
