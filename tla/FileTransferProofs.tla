-------------------------- MODULE FileTransferProofs --------------------------
(***************************************************************************)
(* What FileTransfer.tla saves is whole, and its buffers are bounded, for  *)
(* any number of transfers, receivers and chunks, and any two water marks. *)
(***************************************************************************)
EXTENDS FileTransfer, FiniteSetTheorems, SequenceTheorems, TLAPS

(***************************************************************************)
(* A transfer that waits for a buffer is in drain(), so that a wake-up     *)
(* sends no chunk too many; and a slot holds chunks of its own transfer    *)
(* before the file is handed over.                                         *)
(***************************************************************************)
WaitersWait == \A t \in Transfer : waits[t] # {} => phase[t] = "wait"

MoreToSend == \A t \in Transfer : phase[t] # "complete" => next[t] < Chunks

SlotsOwn == \A r \in Receiver, t \in Transfer : slots[r][t] \subseteq Seqs \X {t}

IntactInv == /\ TypeOK
             /\ WaitersWait
             /\ MoreToSend
             /\ SlotsOwn
             /\ SavedIntact

----------------------------------------------------------------------------
(* Types *)

Control == [t : {"offer", "complete"}, id : Transfer]

LEMMA ChunksType == Chunks \in Nat \ {0} /\ High \in Nat /\ Low \in Nat /\ Low < High
                    /\ IsFiniteSet(Transfer) /\ 0 \in 0 .. Chunks
  BY TransferAssumption

LEMMA TellType ==
  ASSUME TypeOK, NEW t \in Transfer, NEW frame \in {"offer", "complete"}, Tell(t, frame)
  PROVE  control' \in [Receiver -> Seq(Control)]
  <1>1. [t |-> frame, id |-> t] \in Control
    BY DEF Control
  <1>2. control \in [Receiver -> Seq(Control)]
    BY DEF TypeOK, Control
  <1>3. \A r \in Receiver : Append(control[r], [t |-> frame, id |-> t]) \in Seq(Control)
    BY <1>1, <1>2, AppendProperties
  <1>. QED
    BY <1>2, <1>3 DEF Tell

LEMMA InitIntact == Init => IntactInv
  <1>. SUFFICES ASSUME Init PROVE IntactInv
    OBVIOUS
  <1>1. control \in [Receiver -> Seq(Control)] /\ file \in [Receiver -> Seq(Transfer \X Seqs)]
    <2>1. <<>> \in Seq(Control) /\ <<>> \in Seq(Transfer \X Seqs)
      OBVIOUS
    <2>. QED
      BY <2>1 DEF Init
  <1>2. /\ open \in [Receiver -> BOOLEAN] /\ admits \in [Receiver -> BOOLEAN]
        /\ aborted \subseteq Transfer
        /\ waits \in [Transfer -> SUBSET Receiver]
        /\ accepts \in [Receiver -> SUBSET Transfer]
        /\ registered \in [Receiver -> SUBSET Transfer]
        /\ lost \in [Receiver -> SUBSET Transfer]
        /\ saved \in [Receiver -> SUBSET (Transfer \X SUBSET Slot)]
    BY DEF Init
  <1>3. slots \in [Receiver -> [Transfer -> SUBSET Slot]]
    BY DEF Init
  <1>4. next \in [Transfer -> 0 .. Chunks]
    BY ChunksType DEF Init
  <1>5. phase \in [Transfer -> {"idle", "offered", "check", "wait", "send",
                                "complete", "failed"}]
    BY DEF Init
  <1>6. TypeOK
    BY <1>1, <1>2, <1>3, <1>4, <1>5 DEF TypeOK, Control
  <1>. QED
    BY <1>6, ChunksType DEF Init, IntactInv, WaitersWait, MoreToSend, SlotsOwn, SavedIntact

(***************************************************************************)
(* The sending end's part of the invariant, and the receiving ends'.  A    *)
(* step disturbs one of them.                                              *)
(***************************************************************************)
SenderTypes == /\ phase \in [Transfer -> {"idle", "offered", "check", "wait", "send",
                                          "complete", "failed"}]
               /\ next \in [Transfer -> 0 .. Chunks]
               /\ waits \in [Transfer -> SUBSET Receiver]
               /\ aborted \subseteq Transfer

ChannelTypes == /\ open \in [Receiver -> BOOLEAN]
                /\ admits \in [Receiver -> BOOLEAN]
                /\ control \in [Receiver -> Seq(Control)]
                /\ file \in [Receiver -> Seq(Transfer \X Seqs)]
                /\ accepts \in [Receiver -> SUBSET Transfer]

InboxTypes == /\ registered \in [Receiver -> SUBSET Transfer]
              /\ slots \in [Receiver -> [Transfer -> SUBSET Slot]]
              /\ saved \in [Receiver -> SUBSET (Transfer \X SUBSET Slot)]
              /\ lost \in [Receiver -> SUBSET Transfer]

SenderInv == SenderTypes /\ WaitersWait /\ MoreToSend
InboxInv  == InboxTypes /\ SlotsOwn /\ SavedIntact

LEMMA Parts == IntactInv <=> SenderInv /\ ChannelTypes /\ InboxInv
  BY DEF IntactInv, TypeOK, SenderInv, SenderTypes, ChannelTypes, InboxInv, InboxTypes, Control

LEMMA Together ==
  ASSUME SenderInv', ChannelTypes', InboxInv'
  PROVE  IntactInv'
  BY DEF IntactInv, TypeOK, SenderInv, SenderTypes, ChannelTypes, InboxInv, InboxTypes, Control

LEMMA InboxKept ==
  ASSUME InboxInv, UNCHANGED inbox
  PROVE  InboxInv'
  BY DEF InboxInv, InboxTypes, SlotsOwn, SavedIntact, inbox

LEMMA SenderKept ==
  ASSUME SenderInv, UNCHANGED sender
  PROVE  SenderInv'
  BY DEF SenderInv, SenderTypes, WaitersWait, MoreToSend, sender

----------------------------------------------------------------------------
(* One lemma per action *)

LEMMA OfferStep ==
  ASSUME IntactInv, NEW t \in Transfer, Offer(t)
  PROVE  IntactInv'
  <1>1. SenderInv'
    BY Parts DEF Offer, SenderInv, SenderTypes, WaitersWait, MoreToSend
  <1>2. ChannelTypes'
    BY Parts, TellType DEF Offer, ChannelTypes, IntactInv
  <1>3. InboxInv'
    BY Parts, InboxKept DEF Offer
  <1>. QED
    BY <1>1, <1>2, <1>3, Together

LEMMA RecvAcceptStep ==
  ASSUME IntactInv, NEW r \in Receiver, NEW t \in Transfer, RecvAccept(r, t)
  PROVE  IntactInv'
  <1>1. SenderInv'
    BY Parts DEF RecvAccept, SenderInv, SenderTypes, WaitersWait, MoreToSend
  <1>2. ChannelTypes'
    BY Parts DEF RecvAccept, ChannelTypes
  <1>3. InboxInv'
    BY Parts, InboxKept DEF RecvAccept
  <1>. QED
    BY <1>1, <1>2, <1>3, Together

LEMMA DrainStep ==
  ASSUME IntactInv, NEW t \in Transfer, Drain(t)
  PROVE  IntactInv'
  <1>0. Full(t) \subseteq Receiver
    BY TransferAssumption DEF Full, Reached
  <1>1. SenderInv'
    BY <1>0, Parts DEF Drain, SenderInv, SenderTypes, WaitersWait, MoreToSend
  <1>2. ChannelTypes'
    BY Parts DEF Drain, ChannelTypes
  <1>3. InboxInv'
    BY Parts, InboxKept DEF Drain
  <1>. QED
    BY <1>1, <1>2, <1>3, Together

LEMMA BufferLowStep ==
  ASSUME IntactInv, NEW r \in Receiver, BufferLow(r)
  PROVE  IntactInv'
  <1>1. SenderInv'
    BY Parts DEF BufferLow, SenderInv, SenderTypes, WaitersWait, MoreToSend
  <1>2. ChannelTypes'
    BY Parts DEF BufferLow, ChannelTypes
  <1>3. InboxInv'
    BY Parts, InboxKept DEF BufferLow
  <1>. QED
    BY <1>1, <1>2, <1>3, Together

LEMMA SendChunkStep ==
  ASSUME IntactInv, NEW t \in Transfer, SendChunk(t)
  PROVE  IntactInv'
  <1>1. next[t] \in 0 .. Chunks /\ next[t] < Chunks /\ Chunks \in Nat
    BY ChunksType DEF SendChunk, IntactInv, TypeOK, MoreToSend
  <1>2. next[t] + 1 \in 0 .. Chunks /\ next[t] \in Seqs
    BY <1>1 DEF Seqs
  <1>3. SenderInv'
    <2>1. next' \in [Transfer -> 0 .. Chunks] /\ next'[t] = next[t] + 1
      BY <1>2, Parts DEF SendChunk, SenderInv, SenderTypes
    <2>2. \A u \in Transfer \ {t} : next'[u] = next[u] /\ phase'[u] = phase[u]
      BY Parts DEF SendChunk, SenderInv, SenderTypes
    <2>3. SenderTypes'
      BY <2>1, Parts DEF SendChunk, SenderInv, SenderTypes
    <2>4. MoreToSend'
      <3>1. phase'[t] # "complete" => next[t] + 1 < Chunks
        BY Parts DEF SendChunk, SenderInv, SenderTypes
      <3>. QED
        BY <2>1, <2>2, <3>1, Parts DEF SenderInv, MoreToSend
    <2>5. WaitersWait'
      BY <2>2, Parts DEF SendChunk, SenderInv, WaitersWait
    <2>. QED
      BY <2>3, <2>4, <2>5 DEF SenderInv
  <1>4. ChannelTypes'
    <2>1. control' \in [Receiver -> Seq(Control)]
      BY Parts, TellType DEF SendChunk, ChannelTypes, IntactInv
    <2>2. file' \in [Receiver -> Seq(Transfer \X Seqs)]
      <3>1. <<t, next[t]>> \in Transfer \X Seqs
        BY <1>2
      <3>2. file \in [Receiver -> Seq(Transfer \X Seqs)]
        BY Parts DEF ChannelTypes
      <3>. DEFINE S == Transfer \X Seqs
                  x == <<t, next[t]>>
      <3>3. \A r \in Receiver : Append(file[r], x) \in Seq(S)
        <4>. HIDE DEF S, x
        <4>. QED
          BY <3>1, <3>2, AppendProperties DEF S, x
      <3>. QED
        BY <3>2, <3>3 DEF SendChunk
    <2>. QED
      BY <2>1, <2>2, Parts DEF SendChunk, ChannelTypes
  <1>5. InboxInv'
    BY Parts, InboxKept DEF SendChunk
  <1>. QED
    BY <1>3, <1>4, <1>5, Together

LEMMA CloseStep ==
  ASSUME IntactInv, NEW rs \in SUBSET Receiver, CloseEffect(rs)
  PROVE  ChannelTypes' /\ InboxInv'
  <1>1. ChannelTypes'
    <2>1. <<>> \in Seq(Control) /\ <<>> \in Seq(Transfer \X Seqs)
      OBVIOUS
    <2>2. control' \in [Receiver -> Seq(Control)]
      BY <2>1, Parts DEF ChannelTypes, CloseEffect
    <2>3. file' \in [Receiver -> Seq(Transfer \X Seqs)]
      BY <2>1, Parts DEF ChannelTypes, CloseEffect
    <2>4. accepts' \in [Receiver -> SUBSET Transfer]
      BY Parts DEF ChannelTypes, CloseEffect
    <2>5. open' \in [Receiver -> BOOLEAN]
      BY Parts DEF ChannelTypes, CloseEffect
    <2>. QED
      BY <2>2, <2>3, <2>4, <2>5, Parts DEF ChannelTypes, CloseEffect
  <1>2. slots' \in [Receiver -> [Transfer -> SUBSET Slot]]
    BY Parts DEF InboxInv, InboxTypes, CloseEffect
  <1>3. registered' \in [Receiver -> SUBSET Transfer]
    BY Parts DEF InboxInv, InboxTypes, CloseEffect
  <1>4. InboxTypes'
    BY <1>2, <1>3, Parts DEF InboxInv, InboxTypes, CloseEffect
  <1>5. SlotsOwn'
    BY Parts DEF InboxInv, SlotsOwn, CloseEffect
  <1>6. SavedIntact'
    BY Parts DEF InboxInv, SavedIntact, CloseEffect
  <1>. QED
    BY <1>1, <1>4, <1>5, <1>6 DEF InboxInv

LEMMA LeaveStep ==
  ASSUME IntactInv, NEW r \in Receiver, Leave(r)
  PROVE  IntactInv'
  <1>1. SenderInv'
    BY Parts, SenderKept DEF Leave, CloseEffect, sender
  <1>2. ChannelTypes' /\ InboxInv'
    BY CloseStep DEF Leave
  <1>. QED
    BY <1>1, <1>2, Together

LEMMA DisconnectStep ==
  ASSUME IntactInv, Disconnect
  PROVE  IntactInv'
  <1>1. SenderInv'
    BY Parts DEF Disconnect, CloseEffect, SenderInv, SenderTypes, WaitersWait, MoreToSend
  <1>2. ChannelTypes' /\ InboxInv'
    BY CloseStep DEF Disconnect
  <1>. QED
    BY <1>1, <1>2, Together

LEMMA AdmitStep ==
  ASSUME IntactInv, NEW r \in Receiver, Admit(r)
  PROVE  IntactInv'
  <1>1. ChannelTypes'
    BY Parts DEF Admit, ChannelTypes
  <1>. QED
    BY <1>1, Parts, SenderKept, InboxKept, Together DEF Admit

\* finish(): no gap and the right number of chunks make the file whole.
LEMMA WholeFile ==
  ASSUME NEW t \in Transfer, NEW got \in SUBSET (Seqs \X {t}), Complete(got)
  PROVE  got = Seqs \X {t}
  <1>1. {c[1] : c \in got} = Seqs
    BY DEF Complete, Seqs
  <1>2. \A s \in Seqs : <<s, t>> \in got
    BY <1>1
  <1>. QED
    BY <1>2

LEMMA RecvControlStep ==
  ASSUME IntactInv, NEW r \in Receiver, RecvControl(r)
  PROVE  IntactInv'
  <1>. DEFINE m == Head(control[r])
              t == m.id
  <1>1. /\ m \in Control /\ t \in Transfer
        /\ control' \in [Receiver -> Seq(Control)]
    <2>1. control \in [Receiver -> Seq(Control)] /\ control[r] # <<>>
      BY Parts DEF ChannelTypes, RecvControl
    <2>2. m \in Control /\ Tail(control[r]) \in Seq(Control)
      BY <2>1, HeadTailProperties
    <2>3. t \in Transfer
      BY <2>2 DEF Control
    <2>. QED
      BY <2>1, <2>2, <2>3 DEF RecvControl
  <1>. HIDE DEF m
  <1>2. ChannelTypes'
    <2>1. accepts' \in [Receiver -> SUBSET Transfer]
      <3>1. \/ accepts' = accepts
            \/ accepts' = [accepts EXCEPT ![r] = @ \cup {t}]
        BY DEF RecvControl, m
      <3>2. accepts \in [Receiver -> SUBSET Transfer] /\ t \in Transfer
        BY <1>1, Parts DEF ChannelTypes
      <3>. HIDE DEF t
      <3>. QED
        BY <3>1, <3>2
    <2>. QED
      BY <1>1, <2>1, Parts DEF ChannelTypes, RecvControl
  <1>3. SenderInv'
    BY Parts, SenderKept DEF RecvControl
  <1>4. CASE UNCHANGED inbox
    BY <1>2, <1>3, <1>4, Parts, InboxKept, Together
  <1>5. ASSUME slots' = [slots EXCEPT ![r][t] = {}],
               registered' \in {[registered EXCEPT ![r] = @ \cup {t}],
                                [registered EXCEPT ![r] = @ \ {t}]},
               \/ UNCHANGED <<saved, lost>>
               \/ /\ Complete(slots[r][t])
                  /\ saved' = [saved EXCEPT ![r] = @ \cup {<<t, slots[r][t]>>}]
                  /\ UNCHANGED lost
               \/ lost' = [lost EXCEPT ![r] = @ \cup {t}] /\ UNCHANGED saved
        PROVE  InboxInv'
    <2>. HIDE DEF t
    <2>1. /\ t \in Transfer
          /\ slots \in [Receiver -> [Transfer -> SUBSET Slot]]
          /\ registered \in [Receiver -> SUBSET Transfer]
          /\ saved \in [Receiver -> SUBSET (Transfer \X SUBSET Slot)]
          /\ lost \in [Receiver -> SUBSET Transfer]
      BY <1>1, Parts DEF InboxInv, InboxTypes, t
    <2>2. slots' \in [Receiver -> [Transfer -> SUBSET Slot]]
      BY <1>5, <2>1
    <2>3. registered' \in [Receiver -> SUBSET Transfer]
      BY <1>5, <2>1
    <2>4. saved' \in [Receiver -> SUBSET (Transfer \X SUBSET Slot)]
      <3>1. <<t, slots[r][t]>> \in Transfer \X SUBSET Slot
        BY <2>1
      <3>. QED
        BY <1>5, <2>1, <3>1
    <2>5. lost' \in [Receiver -> SUBSET Transfer]
      BY <1>5, <2>1
    <2>6. SlotsOwn'
      BY <1>5, <2>1, Parts DEF InboxInv, SlotsOwn
    <2>7. SavedIntact'
      <3>1. Complete(slots[r][t]) => slots[r][t] = Seqs \X {t}
        BY <2>1, WholeFile, Parts DEF InboxInv, SlotsOwn
      <3>2. \A q \in Receiver : \A f \in saved'[q] :
               f \in saved[q] \/ (f = <<t, slots[r][t]>> /\ Complete(slots[r][t]))
        BY <1>5, <2>1
      <3>. QED
        BY <3>1, <3>2, Parts DEF InboxInv, SavedIntact
    <2>. QED
      BY <2>2, <2>3, <2>4, <2>5, <2>6, <2>7 DEF InboxInv, InboxTypes
  <1>. QED
    <2>1. InboxInv'
      BY <1>4, <1>5, Parts, InboxKept DEF RecvControl, inbox, m
    <2>. QED
      BY <1>2, <1>3, <2>1, Together

LEMMA RecvChunkStep ==
  ASSUME IntactInv, NEW r \in Receiver, RecvChunk(r)
  PROVE  IntactInv'
  <1>. DEFINE id  == Head(file[r])[1]
              seq == Head(file[r])[2]
  <1>1. /\ id \in Transfer /\ seq \in Seqs
        /\ file' \in [Receiver -> Seq(Transfer \X Seqs)]
    <2>. DEFINE S == Transfer \X Seqs
    <2>1. file \in [Receiver -> Seq(S)] /\ file[r] # <<>>
      BY Parts DEF ChannelTypes, RecvChunk
    <2>2. file' = [file EXCEPT ![r] = Tail(@)]
      BY DEF RecvChunk
    <2>3. Head(file[r]) \in S /\ Tail(file[r]) \in Seq(S)
      <3>. HIDE DEF S
      <3>. QED
        BY <2>1, HeadTailProperties
    <2>4. file' \in [Receiver -> Seq(S)]
      <3>. HIDE DEF S
      <3>. QED
        BY <2>1, <2>2, <2>3
    <2>. QED
      BY <2>3, <2>4
  <1>. HIDE DEF id, seq
  <1>2. /\ slots' \in [Receiver -> [Transfer -> SUBSET Slot]]
        /\ \A q \in Receiver, t \in Transfer :
             slots'[q][t] \subseteq slots[q][t] \cup (IF t = id THEN {<<seq, id>>} ELSE {})
    <2>1. slots \in [Receiver -> [Transfer -> SUBSET Slot]]
      BY Parts DEF InboxInv, InboxTypes
    <2>2. <<seq, id>> \in Slot
      BY <1>1 DEF Slot
    <2>3. PICK new \in [Transfer -> SUBSET Slot] :
            /\ slots' = [slots EXCEPT ![r] = new]
            /\ \A t \in Transfer :
                 new[t] \subseteq slots[r][t] \cup (IF t = id THEN {<<seq, id>>} ELSE {})
      <3>. DEFINE new == [t \in Transfer |->
                            IF admits[r] /\ t \in Route(r, id)
                               /\ \A c \in slots[r][t] : c[1] # seq
                            THEN slots[r][t] \cup {<<seq, id>>} ELSE slots[r][t]]
      <3>1. slots' = [slots EXCEPT ![r] = new]
        BY <2>1 DEF RecvChunk, id, seq
      <3>2. new \in [Transfer -> SUBSET Slot]
        BY <2>1, <2>2
      <3>3. \A t \in Transfer :
              new[t] \subseteq slots[r][t] \cup (IF t = id THEN {<<seq, id>>} ELSE {})
        BY DEF Route
      <3>. QED
        BY <3>1, <3>2, <3>3
    <2>. QED
      BY <2>1, <2>3
  <1>3. ChannelTypes'
    BY <1>1, Parts DEF ChannelTypes, RecvChunk
  <1>4. InboxInv'
    <2>1. SlotsOwn'
      BY <1>1, <1>2, Parts DEF InboxInv, SlotsOwn
    <2>2. InboxTypes' /\ SavedIntact'
      BY <1>2, Parts DEF RecvChunk, InboxInv, InboxTypes, SavedIntact
    <2>. QED
      BY <2>1, <2>2 DEF InboxInv
  <1>5. SenderInv'
    BY Parts, SenderKept DEF RecvChunk
  <1>. QED
    BY <1>3, <1>4, <1>5, Together

LEMMA IntactStep ==
  ASSUME IntactInv, [Next]_vars
  PROVE  IntactInv'
  <1>1. ASSUME UNCHANGED vars PROVE IntactInv'
    BY <1>1, Parts, SenderKept, InboxKept, Together DEF vars, ChannelTypes
  <1>2. ASSUME NEW r \in Receiver,
               \/ BufferLow(r) \/ Leave(r) \/ Admit(r) \/ RecvControl(r) \/ RecvChunk(r)
               \/ \E t \in Transfer : RecvAccept(r, t)
        PROVE  IntactInv'
    BY <1>2, BufferLowStep, LeaveStep, AdmitStep, RecvControlStep, RecvChunkStep,
       RecvAcceptStep
  <1>3. ASSUME NEW t \in Transfer, Offer(t) \/ Drain(t) \/ SendChunk(t)
        PROVE  IntactInv'
    BY <1>3, OfferStep, DrainStep, SendChunkStep
  <1>. QED
    BY <1>1, <1>2, <1>3, DisconnectStep DEF Next

LEMMA IntactInvariant == Spec => []IntactInv
  BY InitIntact, IntactStep, PTL DEF Spec

(***************************************************************************)
(* Every table keeps its type, and FileTransferManager hands over no file  *)
(* but the one that was sent: ReceiverRouter never slots a chunk of one    *)
(* transfer into another, and finish() lets nothing through with a gap.    *)
(***************************************************************************)
THEOREM TransferSavedIntact == Spec => []TransferInv
  <1>1. IntactInv => TransferInv
    BY DEF IntactInv, TransferInv
  <1>. QED
    BY <1>1, IntactInvariant, PTL

----------------------------------------------------------------------------
(* Backpressure *)

(***************************************************************************)
(* A transfer that has been let through to a channel sends one chunk there *)
(* before it looks at the channel again; one that waits for another buffer *)
(* has been let through to this one already.  The chunks in the buffer and *)
(* those still to come from such transfers share one budget: a transfer is *)
(* let through below the high-water mark only, where the budget has room   *)
(* for every transfer there is.                                            *)
(***************************************************************************)
LetThrough(r) == {t \in Transfer : /\ r \in Reached(t)
                                   /\ phase[t] \in {"wait", "send"}
                                   /\ r \notin waits[t]}

Budget == High + Cardinality(Transfer) - 1

WithinBudget(r) == Len(file[r]) + Cardinality(LetThrough(r)) <= Budget

BudgetInv == \A r \in Receiver : WithinBudget(r)

LEMMA LetThroughCount ==
  /\ Cardinality(Transfer) \in Nat
  /\ \A S \in SUBSET Transfer :
       /\ IsFiniteSet(S) /\ Cardinality(S) \in Nat
       /\ Cardinality(S) <= Cardinality(Transfer)
       /\ \A R \in SUBSET S : Cardinality(R) <= Cardinality(S)
       /\ \A t \in S : Cardinality(S \ {t}) = Cardinality(S) - 1
  <1>1. IsFiniteSet(Transfer) /\ Cardinality(Transfer) \in Nat
    BY ChunksType, FS_CardinalityType
  <1>2. ASSUME NEW S \in SUBSET Transfer
        PROVE  /\ IsFiniteSet(S) /\ Cardinality(S) \in Nat
               /\ Cardinality(S) <= Cardinality(Transfer)
    BY <1>1, FS_Subset, FS_CardinalityType
  <1>3. ASSUME NEW S \in SUBSET Transfer, NEW R \in SUBSET S
        PROVE  Cardinality(R) <= Cardinality(S)
    BY <1>2, FS_Subset
  <1>4. ASSUME NEW S \in SUBSET Transfer, NEW t \in S
        PROVE  Cardinality(S \ {t}) = Cardinality(S) - 1
    BY <1>2, FS_RemoveElement
  <1>. QED
    BY <1>1, <1>2, <1>3, <1>4

LEMMA BufferType ==
  ASSUME IntactInv, NEW r \in Receiver
  PROVE  Len(file[r]) \in Nat /\ file[r] \in Seq(Transfer \X Seqs)
         /\ LetThrough(r) \in SUBSET Transfer /\ LetThrough(r)' \in SUBSET Transfer
  <1>1. file[r] \in Seq(Transfer \X Seqs)
    BY DEF IntactInv, TypeOK
  <1>2. Len(file[r]) \in Nat
    <2>. DEFINE S == Transfer \X Seqs
    <2>1. file[r] \in Seq(S)
      BY <1>1
    <2>. HIDE DEF S
    <2>. QED
      BY <2>1
  <1>. QED
    BY <1>1, <1>2 DEF LetThrough

\* Nothing was added and nobody let through ...
LEMMA BudgetKept ==
  ASSUME IntactInv, IntactInv', NEW r \in Receiver, WithinBudget(r),
         Len(file'[r]) <= Len(file[r]), LetThrough(r)' \subseteq LetThrough(r)
  PROVE  WithinBudget(r)'
  <1>1. /\ Len(file[r]) \in Nat /\ Len(file'[r]) \in Nat
        /\ LetThrough(r) \in SUBSET Transfer /\ LetThrough(r)' \in SUBSET LetThrough(r)
    BY BufferType
  <1>2. /\ Cardinality(LetThrough(r)) \in Nat /\ Cardinality(LetThrough(r)') \in Nat
        /\ Cardinality(LetThrough(r)') <= Cardinality(LetThrough(r))
        /\ Budget \in Int
    BY <1>1, LetThroughCount, ChunksType DEF Budget
  <1>. QED
    BY <1>1, <1>2 DEF WithinBudget, Budget

\* ... or the buffer is below the high-water mark ...
LEMMA BudgetHasRoom ==
  ASSUME IntactInv, NEW r \in Receiver, Len(file[r]) < High, file'[r] = file[r]
  PROVE  WithinBudget(r)'
  <1>1. Len(file[r]) \in Nat /\ LetThrough(r)' \in SUBSET Transfer
    BY BufferType
  <1>2. /\ Cardinality(LetThrough(r)') \in Nat /\ Cardinality(Transfer) \in Nat
        /\ Cardinality(LetThrough(r)') <= Cardinality(Transfer)
    BY <1>1, LetThroughCount
  <1>. QED
    BY <1>1, <1>2, ChunksType DEF WithinBudget, Budget

\* ... or one that was let through has sent its chunk.
LEMMA BudgetSpent ==
  ASSUME IntactInv, IntactInv', NEW r \in Receiver, WithinBudget(r),
         NEW t \in LetThrough(r), Len(file'[r]) = Len(file[r]) + 1,
         LetThrough(r)' \subseteq LetThrough(r) \ {t}
  PROVE  WithinBudget(r)'
  <1>1. /\ Len(file[r]) \in Nat
        /\ LetThrough(r) \in SUBSET Transfer
        /\ LetThrough(r) \ {t} \in SUBSET Transfer
        /\ LetThrough(r)' \in SUBSET (LetThrough(r) \ {t})
    BY BufferType
  <1>2. /\ Cardinality(LetThrough(r)) \in Nat /\ Cardinality(LetThrough(r)') \in Nat
        /\ Cardinality(LetThrough(r)') <= Cardinality(LetThrough(r) \ {t})
        /\ Cardinality(LetThrough(r) \ {t}) = Cardinality(LetThrough(r)) - 1
        /\ Budget \in Int
    BY <1>1, LetThroughCount, ChunksType DEF Budget
  <1>. QED
    BY <1>1, <1>2 DEF WithinBudget, Budget

LEMMA InitBudget == Init => BudgetInv
  <1>. SUFFICES ASSUME Init, NEW r \in Receiver PROVE WithinBudget(r)
    BY DEF BudgetInv
  <1>1. LetThrough(r) = {}
    BY DEF Init, LetThrough
  <1>2. Len(file[r]) = 0 /\ Cardinality({}) = 0
    BY FS_EmptySet DEF Init
  <1>. QED
    BY <1>1, <1>2, LetThroughCount, TransferAssumption DEF WithinBudget, Budget

\* Who waits, is let through or is connected stays as it is.
LEMMA BudgetUntouched ==
  ASSUME IntactInv, IntactInv', NEW r \in Receiver, WithinBudget(r),
         Len(file'[r]) <= Len(file[r]), waits' = waits,
         \A q \in Receiver : open'[q] => open[q],
         \A t \in Transfer : phase'[t] \in {"wait", "send"} => phase'[t] = phase[t]
  PROVE  WithinBudget(r)'
  <1>1. LetThrough(r)' \subseteq LetThrough(r)
    BY DEF LetThrough, Reached
  <1>. QED
    BY <1>1, BudgetKept

LEMMA DrainBudget ==
  ASSUME IntactInv, IntactInv', NEW r \in Receiver, WithinBudget(r),
         NEW t \in Transfer, Drain(t)
  PROVE  WithinBudget(r)'
  <1>1. file' = file /\ open' = open /\ Len(file[r]) \in Nat
    BY BufferType DEF Drain
  <1>2. /\ waits'[t] = Full(t)
        /\ \A u \in Transfer \ {t} : waits'[u] = waits[u] /\ phase'[u] = phase[u]
    BY DEF Drain, IntactInv, TypeOK
  <1>3. CASE r \in Full(t) \/ r \notin Reached(t)
    <2>1. LetThrough(r)' \subseteq LetThrough(r)
      BY <1>1, <1>2, <1>3 DEF LetThrough, Reached
    <2>. QED
      BY <1>1, <2>1, BudgetKept
  <1>4. CASE r \in Reached(t) \ Full(t)
    <2>1. Len(file[r]) < High
      BY <1>1, <1>4, ChunksType DEF Full
    <2>. QED
      BY <1>1, <2>1, BudgetHasRoom
  <1>. QED
    BY <1>3, <1>4

LEMMA BufferLowBudget ==
  ASSUME IntactInv, IntactInv', NEW r \in Receiver, WithinBudget(r),
         NEW q \in Receiver, BufferLow(q)
  PROVE  WithinBudget(r)'
  <1>1. file' = file /\ open' = open /\ Len(file[r]) \in Nat
    BY BufferType DEF BufferLow
  <1>2. CASE q = r
    <2>1. Len(file[r]) < High
      BY <1>1, <1>2, ChunksType DEF BufferLow
    <2>. QED
      BY <1>1, <2>1, BudgetHasRoom
  <1>3. CASE q # r
    <2>1. \A t \in Transfer : t \in LetThrough(r)' => t \in LetThrough(r)
      <3>1. SUFFICES ASSUME NEW t \in Transfer, t \in LetThrough(r)'
                     PROVE  r \notin waits[t] /\ phase[t] \in {"wait", "send"}
        BY <1>1 DEF LetThrough, Reached
      <3>2. r \notin waits[t] \ {q} /\ phase'[t] \in {"wait", "send"}
        BY <3>1 DEF LetThrough, BufferLow
      <3>3. phase'[t] = IF waits[t] = {q} THEN "send" ELSE phase[t]
        BY DEF BufferLow
      <3>4. waits[t] = {q} => phase[t] = "wait"
        BY DEF IntactInv, WaitersWait
      <3>. QED
        BY <1>3, <3>2, <3>3, <3>4
    <2>. QED
      BY <1>1, <2>1, BudgetKept DEF LetThrough
  <1>. QED
    BY <1>2, <1>3

LEMMA SendChunkBudget ==
  ASSUME IntactInv, IntactInv', NEW r \in Receiver, WithinBudget(r),
         NEW t \in Transfer, SendChunk(t)
  PROVE  WithinBudget(r)'
  <1>1. /\ waits' = waits /\ open' = open /\ phase'[t] \in {"check", "complete"}
        /\ \A u \in Transfer \ {t} : phase'[u] = phase[u]
    BY DEF SendChunk, IntactInv, TypeOK
  <1>2. LetThrough(r)' \subseteq LetThrough(r) \ {t}
    BY <1>1 DEF LetThrough, Reached
  <1>3. CASE r \in Reached(t)
    <2>1. t \in LetThrough(r)
      BY <1>3 DEF SendChunk, LetThrough, IntactInv, WaitersWait
    <2>2. Len(file'[r]) = Len(file[r]) + 1
      <3>1. file'[r] = Append(file[r], <<t, next[t]>>)
        BY <1>3 DEF SendChunk
      <3>2. file[r] \in Seq(Transfer \X Seqs)
        BY BufferType
      <3>. DEFINE S == Transfer \X Seqs
                  x == <<t, next[t]>>
      <3>3. x \in S
        BY <3>1 DEF SendChunk, IntactInv, TypeOK, MoreToSend, Seqs
      <3>4. file[r] \in Seq(S) /\ file'[r] = Append(file[r], x)
        BY <3>1, <3>2
      <3>. HIDE DEF S, x
      <3>. QED
        BY <3>3, <3>4, AppendProperties
    <2>. QED
      BY <1>2, <2>1, <2>2, BudgetSpent
  <1>4. CASE r \notin Reached(t)
    <2>1. file'[r] = file[r]
      BY <1>4 DEF SendChunk
    <2>2. Len(file[r]) <= Len(file[r])
      BY BufferType
    <2>. QED
      BY <1>2, <2>1, <2>2, BudgetKept
  <1>. QED
    BY <1>3, <1>4

LEMMA CloseBudget ==
  ASSUME IntactInv, NEW r \in Receiver, NEW rs, CloseEffect(rs)
  PROVE  /\ Len(file'[r]) <= Len(file[r]) /\ waits' = waits
         /\ \A q \in Receiver : open'[q] => open[q]
  <1>1. Len(file[r]) \in Nat /\ Len(<<>>) = 0
    BY BufferType
  <1>2. file'[r] = <<>> \/ file'[r] = file[r]
    BY DEF CloseEffect
  <1>3. \A q \in Receiver : open'[q] => open[q]
    BY Zenon DEF CloseEffect
  <1>4. Len(file'[r]) <= Len(file[r])
    BY <1>1, <1>2
  <1>. QED
    BY <1>3, <1>4 DEF CloseEffect

LEMMA RecvChunkBudget ==
  ASSUME IntactInv, IntactInv', NEW r \in Receiver, WithinBudget(r),
         NEW q \in Receiver, RecvChunk(q)
  PROVE  WithinBudget(r)'
  <1>1. Len(file'[r]) <= Len(file[r])
    <2>. DEFINE S == Transfer \X Seqs
    <2>1. file \in [Receiver -> Seq(S)] /\ file[q] # <<>> /\ file' = [file EXCEPT ![q] = Tail(@)]
      BY DEF RecvChunk, IntactInv, TypeOK
    <2>. HIDE DEF S
    <2>2. Len(Tail(file[q])) <= Len(file[q]) /\ Len(file[r]) \in Nat
      BY <2>1, HeadTailProperties
    <2>. QED
      BY <2>1, <2>2
  <1>. QED
    BY <1>1, BudgetUntouched DEF RecvChunk, sender

LEMMA BudgetStep ==
  ASSUME IntactInv, IntactInv', BudgetInv, [Next]_vars
  PROVE  BudgetInv'
  <1>. SUFFICES ASSUME NEW r \in Receiver PROVE WithinBudget(r)'
    BY DEF BudgetInv
  <1>0. WithinBudget(r) /\ Len(file[r]) <= Len(file[r])
    BY BufferType DEF BudgetInv
  <1>1. ASSUME UNCHANGED vars PROVE WithinBudget(r)'
    BY <1>0, <1>1, BudgetUntouched DEF vars, sender
  <1>2. ASSUME NEW t \in Transfer, Offer(t) PROVE WithinBudget(r)'
    BY <1>0, <1>2, BudgetUntouched DEF Offer, IntactInv, TypeOK
  <1>3. ASSUME NEW q \in Receiver, NEW t \in Transfer, RecvAccept(q, t)
        PROVE  WithinBudget(r)'
    BY <1>0, <1>3, BudgetUntouched DEF RecvAccept, IntactInv, TypeOK
  <1>4. ASSUME NEW q \in Receiver, Admit(q) \/ RecvControl(q) PROVE WithinBudget(r)'
    BY <1>0, <1>4, BudgetUntouched DEF Admit, RecvControl, sender
  <1>5. ASSUME NEW q \in Receiver, Leave(q) PROVE WithinBudget(r)'
    BY <1>0, <1>5, CloseBudget, BudgetUntouched DEF Leave
  <1>6. ASSUME Disconnect PROVE WithinBudget(r)'
    <2>1. \A t \in Transfer : phase'[t] \in {"wait", "send"} => phase'[t] = phase[t]
      BY <1>6 DEF Disconnect
    <2>. QED
      BY <1>0, <1>6, <2>1, CloseBudget, BudgetUntouched DEF Disconnect
  <1>. QED
    BY <1>0, <1>1, <1>2, <1>3, <1>4, <1>5, <1>6, DrainBudget, BufferLowBudget,
       SendChunkBudget, RecvChunkBudget DEF Next

(***************************************************************************)
(* However many transfers share a channel, and whoever joins, leaves or    *)
(* accepts meanwhile, Peer.drainFile() keeps the buffer within one chunk   *)
(* per other transfer of FILE_BUFFER_HIGH.                                 *)
(***************************************************************************)
THEOREM TransferBufferBounded == Spec => []BufferBounded
  <1>1. IntactInv /\ IntactInv' /\ BudgetInv /\ [Next]_vars => BudgetInv'
    BY BudgetStep
  <1>2. IntactInv /\ BudgetInv => BufferBounded
    <2>. SUFFICES ASSUME IntactInv, BudgetInv, NEW r \in Receiver
                  PROVE  Len(file[r]) <= Budget
      BY DEF BufferBounded, Budget
    <2>1. /\ Len(file[r]) \in Nat /\ Cardinality(LetThrough(r)) \in Nat /\ Budget \in Int
      BY BufferType, LetThroughCount, ChunksType DEF Budget
    <2>. QED
      BY <2>1 DEF BudgetInv, WithinBudget, Budget
  <1>. QED
    BY <1>1, <1>2, InitBudget, IntactInvariant, PTL DEF Spec

=============================================================================
