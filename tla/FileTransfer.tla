----------------------------- MODULE FileTransfer -----------------------------
(***************************************************************************)
(* File transfer (packages/core/src/file-transfer.ts) over the two         *)
(* channels it uses: offers, accepts and completes on the `control'        *)
(* channel, chunks on the `file' channel, with the backpressure of         *)
(* Peer.drainFile() (packages/core/src/peer.ts).  Each channel is ordered  *)
(* and reliable; nothing orders one against the other.                     *)
(*                                                                         *)
(* The sending end is HostSession.sendFileTo(), to one viewer or to all of *)
(* them, or ViewerSession.sendFile(), to its host.  Every receiving end    *)
(* has a FileTransferManager that accepts what it is offered.  Progress    *)
(* frames only move progress bars and are left out; so are `file-reject'   *)
(* and `file-error', which no code sends.                                  *)
(***************************************************************************)
EXTENDS Naturals, Sequences, FiniteSets

CONSTANTS Transfer,      \* transfer ids
          Receiver,      \* remote ends connected to the sender
          Target,        \* transfer -> the receivers it is sent to
          Chunks,        \* number of chunks of a file
          High,          \* FILE_BUFFER_HIGH, in chunks
          Low,           \* FILE_BUFFER_LOW, in chunks
          SenderAborts   \* closing the sending end calls abort(): the viewer's
                         \*  disconnect() does, the host's stop() does not

ASSUME TransferAssumption ==
  /\ Target \in [Transfer -> SUBSET Receiver \ {{}}]
  /\ Chunks \in Nat \ {0}
  /\ High \in Nat \ {0} /\ Low \in Nat /\ Low < High
  /\ SenderAborts \in BOOLEAN
  /\ IsFiniteSet(Transfer)

VARIABLES
  open,       \* is the connection to the receiver up?
  admits,     \* the receiving end is authorized to take files
  phase,      \* createSender().start(): "idle" | "offered": awaits accept |
              \*  "check": about to call drain() | "wait": for the buffer |
              \*  "send": drain() resolved | "complete" | "failed"
  next,       \* index of the next chunk
  waits,      \* receivers whose `bufferedamountlow' the transfer waits for
  aborted,    \* abort() was called
  control,    \* control frames on their way to each receiver
  file,       \* chunk frames on their way (and buffered) to each receiver
  accepts,    \* accepts on their way back from each receiver
  registered, \* ReceiverRouter of each receiver: the ids it knows
  slots,      \* receiver -> id -> the <<seq, owner>> chunks slotted so far
  saved,      \* files handed to onFileReady(), as <<id, chunks>>
  lost        \* ids whose finish() threw

sender == <<phase, next, waits, aborted>>
inbox  == <<registered, slots, saved, lost>>
vars   == <<open, admits, sender, control, file, accepts, inbox>>

Seqs  == 0 .. Chunks - 1
Slot  == Seqs \X Transfer

TypeOK ==
  /\ open \in [Receiver -> BOOLEAN]
  /\ admits \in [Receiver -> BOOLEAN]
  /\ phase \in [Transfer -> {"idle", "offered", "check", "wait", "send",
                             "complete", "failed"}]
  /\ next \in [Transfer -> 0 .. Chunks]
  /\ waits \in [Transfer -> SUBSET Receiver]
  /\ aborted \subseteq Transfer
  /\ control \in [Receiver -> Seq([t : {"offer", "complete"}, id : Transfer])]
  /\ file \in [Receiver -> Seq(Transfer \X Seqs)]
  /\ accepts \in [Receiver -> SUBSET Transfer]
  /\ registered \in [Receiver -> SUBSET Transfer]
  /\ slots \in [Receiver -> [Transfer -> SUBSET Slot]]
  /\ saved \in [Receiver -> SUBSET (Transfer \X SUBSET Slot)]
  /\ lost \in [Receiver -> SUBSET Transfer]

Init ==
  /\ open = [r \in Receiver |-> TRUE]
  /\ admits \in [Receiver -> BOOLEAN]
  /\ phase = [t \in Transfer |-> "idle"]
  /\ next = [t \in Transfer |-> 0]
  /\ waits = [t \in Transfer |-> {}]
  /\ aborted = {}
  /\ control = [r \in Receiver |-> <<>>]
  /\ file = [r \in Receiver |-> <<>>]
  /\ accepts = [r \in Receiver |-> {}]
  /\ registered = [r \in Receiver |-> {}]
  /\ slots = [r \in Receiver |-> [t \in Transfer |-> {}]]
  /\ saved = [r \in Receiver |-> {}]
  /\ lost = [r \in Receiver |-> {}]

----------------------------------------------------------------------------
(* The sending end.  Between two waits start() runs in microtasks: no other*)
(* task of the sending end comes in between.                               *)

Resting == \A t \in Transfer : phase[t] \notin {"check", "send"}

Reached(t) == {r \in Target[t] : open[r]}
Full(t)    == {r \in Reached(t) : Len(file[r]) >= High}

\* sendControl() to everyone the transfer reaches.
Tell(t, frame) ==
  control' = [r \in Receiver |-> IF r \in Reached(t)
                                 THEN Append(control[r], [t |-> frame, id |-> t])
                                 ELSE control[r]]

Offer(t) ==
  /\ Resting
  /\ phase[t] = "idle" /\ Reached(t) # {}
  /\ phase' = [phase EXCEPT ![t] = "offered"]
  /\ Tell(t, "offer")
  /\ UNCHANGED <<open, admits, next, waits, aborted, file, accepts, inbox>>

\* The first accept releases the chunks, for every receiver of a broadcast.
RecvAccept(r, t) ==
  /\ Resting
  /\ t \in accepts[r]
  /\ accepts' = [accepts EXCEPT ![r] = @ \ {t}]
  /\ phase' = IF phase[t] = "offered" THEN [phase EXCEPT ![t] = "check"] ELSE phase
  /\ UNCHANGED <<open, admits, next, waits, aborted, control, file, inbox>>

\* Mutant: drain() never waits.
DrainAtOnce(t) ==
  /\ phase[t] = "check"
  /\ phase' = [phase EXCEPT ![t] = "send"]
  /\ UNCHANGED <<open, admits, next, waits, aborted, control, file, accepts, inbox>>

\* Mutant: one `onbufferedamountlow' handler per channel, the last one set.
DrainOneHandler(t) ==
  /\ phase[t] = "check"
  /\ waits' = [u \in Transfer |-> IF u = t THEN Full(t) ELSE waits[u] \ Full(t)]
  /\ phase' = [phase EXCEPT ![t] = IF Full(t) = {} THEN "send" ELSE "wait"]
  /\ UNCHANGED <<open, admits, next, aborted, control, file, accepts, inbox>>

\* drainFile(): waits for every channel that is over the high-water mark.
Drain(t) ==
  /\ phase[t] = "check"
  /\ waits' = [waits EXCEPT ![t] = Full(t)]
  /\ phase' = [phase EXCEPT ![t] = IF Full(t) = {} THEN "send" ELSE "wait"]
  /\ UNCHANGED <<open, admits, next, aborted, control, file, accepts, inbox>>

\* `bufferedamountlow' of r: every waiting transfer hears it, and sends its
\* next chunk without looking at the buffer again.
BufferLow(r) ==
  /\ Resting
  /\ open[r] /\ Len(file[r]) <= Low
  /\ \E t \in Transfer : r \in waits[t]
  /\ waits' = [t \in Transfer |-> waits[t] \ {r}]
  /\ phase' = [t \in Transfer |-> IF waits[t] = {r} THEN "send" ELSE phase[t]]
  /\ UNCHANGED <<open, admits, next, aborted, control, file, accepts, inbox>>

SendChunk(t) ==
  /\ phase[t] = "send"
  /\ file' = [r \in Receiver |-> IF r \in Reached(t)
                                 THEN Append(file[r], <<t, next[t]>>)
                                 ELSE file[r]]
  /\ next' = [next EXCEPT ![t] = @ + 1]
  /\ IF next[t] + 1 < Chunks
     THEN phase' = [phase EXCEPT ![t] = "check"] /\ UNCHANGED control
     ELSE phase' = [phase EXCEPT ![t] = "complete"] /\ Tell(t, "complete")
  /\ UNCHANGED <<open, admits, waits, aborted, accepts, inbox>>

\* The connection to r ends: what is under way on its channels is gone, and
\* so is the receiving end's manager.
CloseEffect(rs) ==
  /\ open' = [r \in Receiver |-> open[r] /\ r \notin rs]
  /\ control' = [r \in Receiver |-> IF r \in rs THEN <<>> ELSE control[r]]
  /\ file' = [r \in Receiver |-> IF r \in rs THEN <<>> ELSE file[r]]
  /\ accepts' = [r \in Receiver |-> IF r \in rs THEN {} ELSE accepts[r]]
  /\ registered' = [r \in Receiver |-> IF r \in rs THEN {} ELSE registered[r]]
  /\ slots' = [r \in Receiver |-> IF r \in rs THEN [t \in Transfer |-> {}]
                                  ELSE slots[r]]
  /\ UNCHANGED <<admits, next, waits, saved, lost>>

Leave(r) ==
  /\ Resting
  /\ open[r]
  /\ CloseEffect({r})
  /\ UNCHANGED <<phase, aborted>>

\* The sending end is torn down.  abort() rejects the promise start() awaits
\* before the first chunk; afterwards nobody looks at it.
Disconnect ==
  /\ Resting
  /\ \E r \in Receiver : open[r]
  /\ CloseEffect(Receiver)
  /\ LET running == {t \in Transfer : phase[t] \in {"offered", "wait"}}
     IN IF SenderAborts
        THEN /\ aborted' = running
             /\ phase' = [t \in Transfer |-> IF phase[t] = "offered" THEN "failed"
                                             ELSE phase[t]]
        ELSE UNCHANGED <<aborted, phase>>

----------------------------------------------------------------------------
(* The receiving ends *)

\* The access gate of r opens (auth-result at the viewer, authorizeViewer()
\* at the host): until then offers, chunks and completes are ignored.
Admit(r) ==
  /\ open[r] /\ ~admits[r]
  /\ admits' = [admits EXCEPT ![r] = TRUE]
  /\ UNCHANGED <<open, sender, control, file, accepts, inbox>>

\* Mutant: finish() without its gap and size checks.
CompleteUnchecked(got) == TRUE

\* finish(): no gap, and the bytes add up to the size that was offered.
Complete(got) ==
  /\ {c[1] : c \in got} = 0 .. Cardinality(got) - 1
  /\ Cardinality(got) = Chunks

\* FileTransferManager.onControl(); what finish() throws is swallowed by the
\* channel's message handler.
RecvControl(r) ==
  /\ control[r] # <<>>
  /\ control' = [control EXCEPT ![r] = Tail(@)]
  /\ LET m == Head(control[r])
         t == m.id
     IN \/ /\ ~admits[r]
           /\ UNCHANGED <<accepts, inbox>>
        \/ /\ admits[r] /\ m.t = "offer"
           /\ registered' = [registered EXCEPT ![r] = @ \cup {t}]
           /\ slots' = [slots EXCEPT ![r][t] = {}]
           /\ accepts' = [accepts EXCEPT ![r] = @ \cup {t}]
           /\ UNCHANGED <<saved, lost>>
        \/ /\ admits[r] /\ m.t = "complete" /\ t \notin registered[r]
           /\ UNCHANGED <<accepts, inbox>>
        \/ /\ admits[r] /\ m.t = "complete" /\ t \in registered[r]
           /\ registered' = [registered EXCEPT ![r] = @ \ {t}]
           /\ slots' = [slots EXCEPT ![r][t] = {}]
           /\ IF Complete(slots[r][t])
              THEN /\ saved' = [saved EXCEPT ![r] = @ \cup {<<t, slots[r][t]>>}]
                   /\ UNCHANGED lost
              ELSE /\ lost' = [lost EXCEPT ![r] = @ \cup {t}]
                   /\ UNCHANGED saved
           /\ UNCHANGED accepts
  /\ UNCHANGED <<open, admits, sender, file>>

\* ReceiverRouter: a frame goes to the transfer whose id it carries.
Route(r, id) == registered[r] \cap {id}

RecvChunk(r) ==
  /\ file[r] # <<>>
  /\ file' = [file EXCEPT ![r] = Tail(@)]
  /\ LET id  == Head(file[r])[1]
         seq == Head(file[r])[2]
     IN slots' = [slots EXCEPT ![r] =
                    [t \in Transfer |->
                       IF admits[r] /\ t \in Route(r, id)
                          /\ \A c \in @[t] : c[1] # seq     \* else push() throws
                       THEN @[t] \cup {<<seq, id>>} ELSE @[t]]]
  /\ UNCHANGED <<open, admits, sender, control, accepts, registered, saved, lost>>

Next ==
  \/ \E t \in Transfer : Offer(t) \/ Drain(t) \/ SendChunk(t)
  \/ \E r \in Receiver :
       \/ BufferLow(r) \/ Leave(r) \/ Admit(r) \/ RecvControl(r) \/ RecvChunk(r)
       \/ \E t \in Transfer : RecvAccept(r, t)
  \/ Disconnect

Spec == Init /\ [][Next]_vars

----------------------------------------------------------------------------
(* Safety *)

(***************************************************************************)
(* A file that is saved is the file that was sent: all of its chunks, in   *)
(* their places, and none of a transfer that shares the channel.           *)
(***************************************************************************)
SavedIntact ==
  \A r \in Receiver : \A f \in saved[r] : f[2] = Seqs \X {f[1]}

(***************************************************************************)
(* The shape of the state, and of what is saved in it: whole files.        *)
(***************************************************************************)
TransferInv == TypeOK /\ SavedIntact

(***************************************************************************)
(* Backpressure holds for concurrent transfers together: the buffer of a   *)
(* channel exceeds the high-water mark by the chunk every waiting transfer *)
(* sends when it wakes, at most.                                           *)
(***************************************************************************)
BufferBounded ==
  \A r \in Receiver : Len(file[r]) <= High + Cardinality(Transfer) - 1

(***************************************************************************)
(* ARCHITECTURE.md:525, "the receiver reassembles deterministically (the   *)
(* seq lets it slot out-of-order frames ...)": a transfer the sender has   *)
(* completed, to a receiver that took part from its offer on, is saved     *)
(* once everything has arrived.  But the complete frame travels on the     *)
(* control channel and may overtake the chunks.                            *)
(***************************************************************************)
CompletedIsSaved ==
  \A t \in Transfer : \A r \in Target[t] :
    phase[t] = "complete" /\ open[r] /\ control[r] = <<>> /\ file[r] = <<>> =>
      t \notin lost[r]

----------------------------------------------------------------------------
(* Liveness *)

(***************************************************************************)
(* Channels deliver while they are open, and promises that resolved run.   *)
(***************************************************************************)
Fairness ==
  /\ \A t \in Transfer : WF_vars(Drain(t)) /\ WF_vars(SendChunk(t))
  /\ \A r \in Receiver :
       /\ WF_vars(RecvControl(r)) /\ WF_vars(RecvChunk(r)) /\ WF_vars(BufferLow(r))
       /\ \A t \in Transfer : WF_vars(RecvAccept(r, t))

FairSpec == Spec /\ Fairness

(***************************************************************************)
(* An offer that was accepted is sent to its end while its receivers stay: *)
(* no wake-up is lost between the senders that wait for one buffer.        *)
(***************************************************************************)
AcceptedIsSent ==
  \A t \in Transfer :
    (\E r \in Target[t] : t \in accepts[r]) ~>
      (phase[t] \in {"complete", "failed"} \/ \E r \in Target[t] : ~open[r])

=============================================================================
