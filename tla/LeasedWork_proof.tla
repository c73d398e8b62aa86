--------------------------- MODULE LeasedWork_proof ---------------------------
(***************************************************************************)
(* Two pieces of work that workers hold by leases.                         *)
(*                                                                         *)
(* The provisioning of a round is sound for any number of workers,         *)
(* batches, slots, manual commands, lapses and crashes, and any retry      *)
(* budget.                                                                 *)
(*                                                                         *)
(* Its inductive invariant adds what a claim knows: slots it has prepared  *)
(* are its own for good; rooms it no longer has to call exist; while it    *)
(* finishes, the row it holds is still its own and, if it counted no open  *)
(* batch, none has been opened since without blocking the round.  Answers  *)
(* are never recorded for attempts yet to come.                            *)
(*                                                                         *)
(* The rebuild of the Analytics projection is sound for any number of live *)
(* events, jobs, pages and workers, and any number of troubles.            *)
(*                                                                         *)
(* Its inductive invariant says where an event is that no step caught      *)
(* halfway: in each generation that may become active, or on its way to    *)
(* it, or still to be copied.  A checkpoint tells the truth about its page;*)
(* what is about to become active was verified; no lease is needed for it. *)
(***************************************************************************)
EXTENDS Provisioning, AnalyticsRebuild, FiniteSetTheorems, WellFoundedInduction, TLAPS

Statuses == {"pending", "retried", "in_progress"} \cup Settled

BatchRows ==
    [status : Statuses, attempt : Attempts, owner : Workers \cup {Nobody},
     version : Nat, expired : BOOLEAN]

Steps == {"idle", "claimed", "prepared", "calling", "failed", "tallied"}

Claims ==
    [pc : Steps, batch : Batches \cup {Nobody}, attempt : Attempts, version : Nat,
     left : SUBSET Slots, force : BOOLEAN, open : BOOLEAN]

Answers == {"none", "rejected", "quarantined", "retried", "completed"}

Shapes ==
    /\ phase \in {"in_progress", "cancelled"}
    /\ round \in {"provisioning", "in_progress", "blocked"}
    /\ batch \in [Batches -> BatchRows]
    /\ room \in [Slots -> {"none", "own", "foreign"}]
    /\ shards \in Nat
    /\ announced \in [Slots -> 0 .. 1]
    /\ rooms \subseteq Slots
    /\ outcome \in [Batches -> [Attempts -> Answers]]
    /\ wrk \in [Workers -> Claims]

\* Exactly the batches in progress have an owner.
OwnedInProgress == \A b \in Batches : batch[b].owner # Nobody <=> batch[b].status = "in_progress"

\* A claim is of a batch, and of an attempt that was made and may be made.
ClaimsName ==
    \A w \in Workers : wrk[w].pc # "idle" =>
        /\ wrk[w].batch \in Batches
        /\ wrk[w].attempt <= RetryBudget
        /\ wrk[w].attempt <= batch[wrk[w].batch].attempt

\* What was prepared is assigned to the round's own rooms.
PreparedIsOwn ==
    \A w \in Workers : wrk[w].pc \in {"prepared", "calling", "failed", "tallied"} =>
        \A s \in SlotsOf[wrk[w].batch] : room[s] = "own"

\* What need not be called any more exists.
CalledExists ==
    \A w \in Workers : wrk[w].pc \in {"prepared", "calling", "tallied"} =>
        /\ wrk[w].left \subseteq SlotsOf[wrk[w].batch]
        /\ SlotsOf[wrk[w].batch] \ wrk[w].left \subseteq rooms

\* The finish of a batch keeps the row, and what it has counted stays true of
\* a round that still provisions.
TallyHolds ==
    \A w \in Workers : wrk[w].pc = "tallied" =>
        /\ wrk[w].left = {} /\ Fenced(w)
        /\ (~wrk[w].open /\ round = "provisioning") =>
              \A c \in Batches \ {wrk[w].batch} : batch[c].status = "completed"

\* No answer is recorded ahead of its attempt.
FutureIsOpen == \A b \in Batches : \A a \in Attempts : a > batch[b].attempt => outcome[b][a] = "none"

IInv ==
    /\ Shapes /\ OwnedInProgress /\ ClaimsName /\ PreparedIsOwn /\ CalledExists
    /\ TallyHolds /\ FutureIsOpen
    /\ AssignedOnce /\ CompletedHasRooms /\ OpenedWhenProvisioned
    /\ QuarantineBlocks /\ WithinBudget /\ NotPoisoned

-----------------------------------------------------------------------------
LEMMA Constants ==
    /\ RetryBudget \in Nat /\ RetryBudget > 0 /\ Nobody \notin Workers
    /\ \A b, c \in Batches : b # c => SlotsOf[b] \cap SlotsOf[c] = {}
    /\ \A b \in Batches : SlotsOf[b] \subseteq Slots
    /\ \A c \in Manual : c.batch \in Batches /\ c.attempt \in Nat
BY ProvisioningAssumption DEF Slots

LEMMA AttemptsAreNat ==
    /\ \A a \in Attempts : a \in Nat /\ a <= RetryBudget + 1
    /\ \A a \in Nat : a <= RetryBudget + 1 => a \in Attempts
BY Constants DEF Attempts

LEMMA ReleasedRow ==
    ASSUME NEW r \in BatchRows, NEW st \in Statuses, NEW a \in Attempts
    PROVE  /\ Released(r, st, a) \in BatchRows
           /\ Released(r, st, a).status = st /\ Released(r, st, a).attempt = a
           /\ Released(r, st, a).owner = Nobody /\ Released(r, st, a).version = r.version
BY DEF Released, BatchRows

LEMMA StatusNames ==
    /\ "pending" \in Statuses /\ "retried" \in Statuses /\ "in_progress" \in Statuses
    /\ "completed" \in Statuses /\ "quarantined" \in Statuses
BY DEF Statuses, Settled

LEMMA RetriedRow ==
    ASSUME NEW r \in BatchRows, NEW a \in Attempts
    PROVE  /\ Released(r, "retried", a) \in BatchRows
           /\ Released(r, "retried", a).status = "retried" /\ Released(r, "retried", a).attempt = a
           /\ Released(r, "retried", a).owner = Nobody
BY ReleasedRow, StatusNames

LEMMA RestingIsClaim == Resting \in Claims /\ Resting.pc = "idle"
BY AttemptsAreNat, Constants DEF Resting, Claims, Steps

\* What the rows of the batches say to arithmetic.
LEMMA BatchFacts ==
    ASSUME IInv, NEW b \in Batches
    PROVE  /\ batch[b] \in BatchRows
           /\ batch[b].attempt \in Nat /\ batch[b].attempt <= RetryBudget + 1
           /\ batch[b].status # "quarantined" => batch[b].attempt <= RetryBudget
BY AttemptsAreNat, Constants DEF IInv, Shapes, BatchRows, WithinBudget

\* A worker that gives up its claim and writes nothing.
LEMMA RestKeeps ==
    ASSUME IInv, NEW w \in Workers, Rest(w),
           UNCHANGED <<phase, round, batch, room, shards, announced, rooms, outcome>>
    PROVE  IInv'
<1>1. wrk' = [wrk EXCEPT ![w] = Resting]
  BY DEF Rest
<1> QED
  BY <1>1, RestingIsClaim
  DEF IInv, Shapes, OwnedInProgress, ClaimsName, PreparedIsOwn, CalledExists, TallyHolds,
      FutureIsOpen, AssignedOnce, CompletedHasRooms, OpenedWhenProvisioned, QuarantineBlocks,
      WithinBudget, NotPoisoned, Fenced

\* A step that leaves all but the phase, the answers to manual commands and the
\* count of faults alone; a phase that is cancelled stays so.
LEMMA AsideKeeps ==
    ASSUME IInv, UNCHANGED <<round, batch, room, shards, announced, rooms, outcome, wrk>>,
           phase' = phase \/ phase' = "cancelled"
    PROVE  IInv'
BY DEF IInv, Shapes, OwnedInProgress, ClaimsName, PreparedIsOwn, CalledExists, TallyHolds,
      FutureIsOpen, AssignedOnce, CompletedHasRooms, OpenedWhenProvisioned, QuarantineBlocks,
      WithinBudget, NotPoisoned, Fenced

\* Claims survive when nothing they rest on is taken back: rows of held
\* batches stay, attempts only grow, what is assigned or exists stays so, and
\* a round in which a completed batch is lost does not provision.
LEMMA ClaimsKeep ==
    ASSUME IInv, wrk' \in [Workers -> Claims],
           \A w \in Workers : wrk'[w] = wrk[w] \/ wrk'[w].pc = "idle",
           \A b \in Batches : batch[b].attempt <= batch'[b].attempt,
           \A b \in Batches : batch'[b].attempt \in Nat,
           \A w \in Workers : wrk'[w].pc = "tallied" => batch'[wrk[w].batch] = batch[wrk[w].batch],
           \A s \in Slots : room[s] = "own" => room'[s] = "own",
           rooms \subseteq rooms',
           round' = "provisioning" =>
               /\ round = "provisioning"
               /\ \A b \in Batches : batch[b].status = "completed" => batch'[b].status = "completed"
    PROVE  ClaimsName' /\ PreparedIsOwn' /\ CalledExists' /\ TallyHolds'
<1>1. ASSUME NEW w \in Workers, wrk'[w].pc # "idle"
      PROVE  /\ wrk'[w] = wrk[w] /\ wrk[w].pc # "idle" /\ wrk[w].batch \in Batches
             /\ wrk[w].attempt \in Nat
  BY <1>1, AttemptsAreNat DEF IInv, Shapes, ClaimsName, Claims
<1>2. ClaimsName'
  <2>1. ASSUME NEW w \in Workers, wrk'[w].pc # "idle"
        PROVE  /\ wrk[w].attempt <= RetryBudget
               /\ wrk[w].attempt <= batch[wrk[w].batch].attempt
    BY <1>1, <2>1 DEF IInv, ClaimsName
  <2>2. ASSUME NEW w \in Workers, wrk'[w].pc # "idle"
        PROVE  wrk[w].attempt <= batch'[wrk[w].batch].attempt
    BY <1>1, <2>1, <2>2, BatchFacts
  <2> QED
    BY <1>1, <2>1, <2>2 DEF ClaimsName
<1>3. PreparedIsOwn'
  BY <1>1, Constants DEF IInv, PreparedIsOwn
<1>4. CalledExists'
  BY <1>1 DEF IInv, CalledExists
<1>5. TallyHolds'
  <2>1. ASSUME NEW w \in Workers, wrk'[w].pc = "tallied"
        PROVE  /\ wrk'[w] = wrk[w] /\ wrk[w].pc = "tallied" /\ wrk[w].batch \in Batches
               /\ batch'[wrk[w].batch] = batch[wrk[w].batch]
    BY <1>1, <2>1
  <2> QED
    BY <2>1 DEF IInv, TallyHolds, Fenced
<1> QED
  BY <1>2, <1>3, <1>4, <1>5

\* The variables after a step that writes the row of one batch, lets at most
\* one worker rest, and assigns or creates nothing.
RowWritten(b, row) ==
    /\ batch' = [batch EXCEPT ![b] = row]
    /\ wrk' = wrk \/ \E w \in Workers : Rest(w)
    /\ outcome' \in [Batches -> [Attempts -> Answers]]
    /\ UNCHANGED <<phase, room, shards, announced, rooms>>

LEMMA RowWrittenShapes ==
    ASSUME IInv, NEW b \in Batches, NEW row \in BatchRows, RowWritten(b, row),
           round' \in {"provisioning", "in_progress", "blocked"}
    PROVE  /\ Shapes' /\ AssignedOnce'
           /\ \A w \in Workers : wrk'[w] = wrk[w] \/ wrk'[w].pc = "idle"
           /\ \A c \in Batches : batch'[c] = IF c = b THEN row ELSE batch[c]
<1>1. /\ wrk' \in [Workers -> Claims]
      /\ \A w \in Workers : wrk'[w] = wrk[w] \/ wrk'[w].pc = "idle"
  BY RestingIsClaim DEF IInv, Shapes, Rest, RowWritten
<1>2. Shapes'
  BY <1>1 DEF IInv, Shapes, RowWritten
<1> QED
  BY <1>1, <1>2 DEF IInv, Shapes, AssignedOnce, RowWritten

\* A batch that goes back to be claimed keeps its attempt, or takes the next;
\* an answer may be left for the attempt that is over.
LEMMA ReopenedKeeps ==
    ASSUME IInv, NEW b \in Batches, NEW row \in BatchRows,
           batch[b].status \notin Settled, ~RowHeld(b),
           row.status \in {"pending", "retried"}, row.owner = Nobody,
           row.attempt = batch[b].attempt \/ row.attempt = batch[b].attempt + 1,
           row.attempt <= RetryBudget,
           RowWritten(b, row), round' = round,
           \A c \in Batches, a \in Attempts : outcome'[c][a] # outcome[c][a] =>
               c = b /\ a <= batch[b].attempt /\ row.attempt = batch[b].attempt + 1
    PROVE  IInv'
<1>1. /\ Shapes' /\ AssignedOnce'
      /\ \A w \in Workers : wrk'[w] = wrk[w] \/ wrk'[w].pc = "idle"
      /\ \A c \in Batches : batch'[c] = IF c = b THEN row ELSE batch[c]
  BY RowWrittenShapes DEF IInv, Shapes
<1>2. /\ batch[b] \in BatchRows /\ batch[b].attempt \in Nat /\ row.attempt \in Attempts
      /\ row.attempt \in Nat /\ batch[b].attempt <= row.attempt
  BY BatchFacts, AttemptsAreNat DEF BatchRows
<1>3. FutureIsOpen'
  <2> SUFFICES ASSUME NEW c \in Batches, NEW a \in Attempts, a > batch'[c].attempt
               PROVE  outcome'[c][a] = "none"
    BY DEF FutureIsOpen
  <2>1. a \in Nat
    BY AttemptsAreNat
  <2>2. a > batch[c].attempt /\ ~(c = b /\ a <= batch[b].attempt /\ row.attempt = batch[b].attempt + 1)
    <3>1. CASE c = b
      <4>1. batch'[c].attempt = row.attempt
        BY <1>1, <3>1
      <4> QED
        BY <1>2, <2>1, <3>1, <4>1
    <3>2. CASE c # b
      BY <1>1, <3>2
    <3> QED
      BY <3>1, <3>2
  <2>3. outcome'[c][a] = outcome[c][a]
    BY <2>2
  <2> QED
    BY <2>2, <2>3 DEF IInv, FutureIsOpen
<1>4. NotPoisoned'
  BY <1>1, <1>2, AttemptsAreNat, BatchFacts DEF IInv, NotPoisoned, FutureIsOpen, BatchRows, RowWritten
<1>5. OwnedInProgress' /\ OpenedWhenProvisioned' /\ QuarantineBlocks' /\ WithinBudget' /\ CompletedHasRooms'
  BY <1>1, <1>2, Constants
  DEF IInv, Shapes, OwnedInProgress, OpenedWhenProvisioned, QuarantineBlocks, WithinBudget,
      CompletedHasRooms, Settled, RowWritten
<1>6. ClaimsName' /\ PreparedIsOwn' /\ CalledExists' /\ TallyHolds'
  <2>1. \A c \in Batches : batch[c].attempt <= batch'[c].attempt /\ batch'[c].attempt \in Nat
    BY <1>1, <1>2, BatchFacts
  <2>2. \A w \in Workers : wrk'[w].pc = "tallied" => batch'[wrk[w].batch] = batch[wrk[w].batch]
    BY <1>1 DEF IInv, ClaimsName, RowHeld
  <2>3. wrk' \in [Workers -> Claims]
    BY <1>1 DEF Shapes
  <2> QED
    BY <1>1, <2>1, <2>2, <2>3, ClaimsKeep DEF Settled, RowWritten
<1> QED
  BY <1>1, <1>3, <1>4, <1>5, <1>6 DEF IInv

\* A batch may be quarantined from any state, when its round is blocked too.
LEMMA QuarantinedKeeps ==
    ASSUME IInv, NEW b \in Batches, NEW row \in BatchRows, ~RowHeld(b),
           row.status = "quarantined", row.owner = Nobody,
           row.attempt = batch[b].attempt \/ row.attempt = batch[b].attempt + 1,
           RowWritten(b, row), round' = "blocked",
           \A c \in Batches, a \in Attempts : outcome'[c][a] # outcome[c][a] =>
               c = b /\ a <= batch[b].attempt
    PROVE  IInv'
<1>1. /\ Shapes' /\ AssignedOnce'
      /\ \A w \in Workers : wrk'[w] = wrk[w] \/ wrk'[w].pc = "idle"
      /\ \A c \in Batches : batch'[c] = IF c = b THEN row ELSE batch[c]
  BY RowWrittenShapes
<1>2. /\ batch[b] \in BatchRows /\ batch[b].attempt \in Nat /\ row.attempt \in Attempts
      /\ row.attempt \in Nat /\ batch[b].attempt <= row.attempt
  BY BatchFacts, AttemptsAreNat DEF BatchRows
<1>3. FutureIsOpen'
  BY <1>1, <1>2, AttemptsAreNat DEF IInv, Shapes, FutureIsOpen
<1>4. NotPoisoned' /\ OpenedWhenProvisioned' /\ QuarantineBlocks'
  BY DEF NotPoisoned, OpenedWhenProvisioned, QuarantineBlocks
<1>5. OwnedInProgress' /\ WithinBudget' /\ CompletedHasRooms'
  BY <1>1 DEF IInv, OwnedInProgress, WithinBudget, CompletedHasRooms, RowWritten
<1>6. ClaimsName' /\ PreparedIsOwn' /\ CalledExists' /\ TallyHolds'
  <2>1. \A c \in Batches : batch[c].attempt <= batch'[c].attempt /\ batch'[c].attempt \in Nat
    BY <1>1, <1>2, BatchFacts
  <2>2. \A w \in Workers : wrk'[w].pc = "tallied" => batch'[wrk[w].batch] = batch[wrk[w].batch]
    BY <1>1 DEF IInv, ClaimsName, RowHeld
  <2>3. wrk' \in [Workers -> Claims]
    BY <1>1 DEF Shapes
  <2> QED
    BY <1>1, <2>1, <2>2, <2>3, ClaimsKeep DEF RowWritten
<1> QED
  BY <1>1, <1>3, <1>4, <1>5, <1>6 DEF IInv

LEMMA RecordedAnswers ==
    ASSUME IInv, NEW w \in Workers, wrk[w].pc # "idle", NEW answer \in Answers, RecordAttempt(w, answer)
    PROVE  /\ outcome' \in [Batches -> [Attempts -> Answers]]
           /\ \A c \in Batches, a \in Attempts : outcome'[c][a] # outcome[c][a] =>
                  c = wrk[w].batch /\ a = wrk[w].attempt
           /\ wrk[w].batch \in Batches /\ wrk[w].attempt \in Attempts
           /\ wrk[w].attempt <= batch[wrk[w].batch].attempt
           /\ wrk[w].attempt \in Nat /\ wrk[w].attempt <= RetryBudget
BY AttemptsAreNat DEF IInv, Shapes, ClaimsName, Claims, RecordAttempt

LEMMA ReapKeeps == ASSUME IInv, NEW b \in Batches, ReapExpiredProvisioningLeases(b) PROVE IInv'
<1> DEFINE st == IF batch[b].attempt > 0 THEN "retried" ELSE "pending"
           row == Released(batch[b], st, batch[b].attempt)
<1>1. /\ batch[b].status = "in_progress" /\ ~RowHeld(b) /\ batch' = [batch EXCEPT ![b] = row]
      /\ wrk' = wrk /\ outcome' = outcome /\ round' = round
      /\ UNCHANGED <<phase, room, shards, announced, rooms>>
  BY DEF ReapExpiredProvisioningLeases
<1>2. batch[b].attempt \in Attempts /\ batch[b] \in BatchRows /\ batch[b].attempt <= RetryBudget
  BY <1>1, BatchFacts DEF BatchRows
<1>3. /\ row \in BatchRows /\ row.status \in {"pending", "retried"}
      /\ row.owner = Nobody /\ row.attempt = batch[b].attempt
  BY <1>2, ReleasedRow, StatusNames
<1>4. RowWritten(b, row)
  BY <1>1 DEF RowWritten, IInv, Shapes
<1> HIDE DEF row
<1> QED
  BY <1>1, <1>2, <1>3, <1>4, ReopenedKeeps DEF Settled

\* What BlockRound leaves of a round that a worker quarantines a batch of.
LEMMA BlockedRound == ASSUME IInv, round = "provisioning", BlockRound PROVE round' = "blocked"
BY DEF BlockRound

LEMMA BlockedManually == ASSUME IInv, BlockRoundManually PROVE round' = "blocked"
BY DEF BlockRoundManually, IInv, Shapes

\* A worker whose fence holds works on a batch in progress: no other worker
\* holds its row, and the round is not done with it.
LEMMA FencedFacts ==
    ASSUME IInv, NEW w \in Workers, wrk[w].pc # "idle", Fenced(w)
    PROVE  /\ wrk[w].batch \in Batches /\ batch[wrk[w].batch].status = "in_progress"
           /\ batch[wrk[w].batch].attempt = wrk[w].attempt
           /\ batch[wrk[w].batch].attempt <= RetryBudget
           /\ round # "in_progress"
           /\ \A v \in Workers : wrk[v].pc = "tallied" /\ wrk[v].batch = wrk[w].batch => v = w
BY BatchFacts DEF IInv, ClaimsName, Fenced, OpenedWhenProvisioned, TallyHolds

LEMMA FinalizeFailureKeeps ==
    ASSUME IInv, NEW w \in Workers, FinalizeProvisioningBatchFailure(w) PROVE IInv'
<1> DEFINE b == wrk[w].batch
           next == wrk[w].attempt + 1
<1>1. /\ wrk[w].pc = "failed" /\ ~RowHeld(b) /\ Rest(w)
      /\ UNCHANGED <<phase, room, shards, announced, rooms>>
  BY DEF FinalizeProvisioningBatchFailure
<1>2. CASE PriorOutcome(w) \/ ~Fenced(w)
  BY <1>1, <1>2, RestKeeps DEF FinalizeProvisioningBatchFailure
<1>3. CASE ~PriorOutcome(w) /\ Fenced(w)
  <2>1. /\ b \in Batches /\ batch[b] \in BatchRows /\ batch[b].status = "in_progress"
        /\ next = batch[b].attempt + 1 /\ next \in Attempts /\ next \in Nat /\ round # "in_progress"
        /\ wrk[w].attempt = batch[b].attempt
    <3>1. /\ b \in Batches /\ batch[b].status = "in_progress" /\ round # "in_progress"
          /\ wrk[w].attempt = batch[b].attempt /\ batch[b].attempt <= RetryBudget
      BY <1>1, <1>3, FencedFacts
    <3>2. batch[b] \in BatchRows /\ batch[b].attempt \in Nat
      BY <3>1, BatchFacts
    <3>3. next = batch[b].attempt + 1 /\ next \in Nat /\ next <= RetryBudget + 1
      BY <3>1, <3>2, Constants
    <3> QED
      BY <3>1, <3>2, <3>3, AttemptsAreNat
  <2>2. CASE wrk[w].force \/ Exhausted(next)
    <3> DEFINE row == Released(batch[b], "quarantined", next)
    <3>1. /\ batch' = [batch EXCEPT ![b] = row] /\ BlockRound /\ RecordAttempt(w, "quarantined")
      BY <1>3, <2>2 DEF FinalizeProvisioningBatchFailure
    <3>2. row \in BatchRows /\ row.status = "quarantined" /\ row.owner = Nobody /\ row.attempt = next
      BY <2>1, ReleasedRow, StatusNames
    <3>3. /\ outcome' \in [Batches -> [Attempts -> Answers]]
          /\ \A c \in Batches, a \in Attempts : outcome'[c][a] # outcome[c][a] =>
                 c = b /\ a <= batch[b].attempt
      BY <1>1, <2>1, <3>1, RecordedAnswers DEF Answers
    <3>4. round' = "blocked"
      BY <2>1, <3>1 DEF BlockRound, IInv, Shapes
    <3>5. RowWritten(b, row)
      BY <1>1, <3>1, <3>3 DEF RowWritten
    <3> HIDE DEF row
    <3> QED
      BY <1>1, <2>1, <3>2, <3>3, <3>4, <3>5, QuarantinedKeeps
  <2>3. CASE ~(wrk[w].force \/ Exhausted(next))
    <3> DEFINE row == Released(batch[b], "retried", next)
    <3>1. /\ batch' = [batch EXCEPT ![b] = row] /\ round' = round /\ RecordAttempt(w, "retried")
      BY <1>3, <2>3 DEF FinalizeProvisioningBatchFailure
    <3>2. row \in BatchRows /\ row.status = "retried" /\ row.owner = Nobody /\ row.attempt = next
      BY <2>1, ReleasedRow, StatusNames
    <3>3. /\ outcome' \in [Batches -> [Attempts -> Answers]]
          /\ \A c \in Batches, a \in Attempts : outcome'[c][a] # outcome[c][a] =>
                 c = b /\ a <= batch[b].attempt
      BY <1>1, <2>1, <3>1, RecordedAnswers DEF Answers
    <3>4. next <= RetryBudget
      BY <2>1, <2>3, Constants DEF Exhausted
    <3>5. RowWritten(b, row)
      BY <1>1, <3>1, <3>3 DEF RowWritten
    <3> HIDE DEF row
    <3> QED
      BY <1>1, <2>1, <3>1, <3>2, <3>3, <3>4, <3>5, ReopenedKeeps DEF Settled
  <2> QED
    BY <2>2, <2>3
<1> QED
  BY <1>2, <1>3

LEMMA ManualRetryKeeps ==
    ASSUME IInv, NEW c \in Manual, ManualRetryProvisioningBatch(c) PROVE IInv'
<1> DEFINE b == c.batch
           v == RetryVerdict(c)
<1>1. /\ ~RowHeld(b) /\ wrk' = wrk /\ outcome' = outcome
      /\ UNCHANGED <<phase, room, shards, announced, rooms>>
  BY DEF ManualRetryProvisioningBatch
<1>2. b \in Batches /\ batch[b] \in BatchRows /\ batch[b].attempt \in Attempts /\ batch[b].attempt \in Nat
  BY Constants, BatchFacts DEF BatchRows
<1>3. CASE v = "quarantined"
  <2> DEFINE row == Released(batch[b], "quarantined", batch[b].attempt)
  <2>1. batch' = [batch EXCEPT ![b] = row] /\ BlockRoundManually
    BY <1>3 DEF ManualRetryProvisioningBatch
  <2>2. row \in BatchRows /\ row.status = "quarantined" /\ row.owner = Nobody /\ row.attempt = batch[b].attempt
    BY <1>2, ReleasedRow, StatusNames
  <2>3. RowWritten(b, row)
    BY <1>1, <2>1 DEF RowWritten, IInv, Shapes
  <2> HIDE DEF row
  <2> QED
    BY <1>1, <1>2, <2>1, <2>2, <2>3, BlockedManually, QuarantinedKeeps
<1>4. CASE v = "retried"
  <2> DEFINE next == batch[b].attempt + 1
             row == Released(batch[b], "retried", next)
  <2>1. batch' = [batch EXCEPT ![b] = row] /\ round' = round
    BY <1>4 DEF ManualRetryProvisioningBatch
  <2>2. batch[b].status \notin Settled /\ batch[b].attempt + 1 <= RetryBudget
    BY <1>2, <1>4, Constants DEF RetryVerdict, Exhausted, Settled
  <2>3. next \in Attempts /\ next = batch[b].attempt + 1 /\ next <= RetryBudget
    BY <1>2, <2>2, AttemptsAreNat, Constants
  <2>4. row \in BatchRows /\ row.status = "retried" /\ row.owner = Nobody /\ row.attempt = next
    <3>1. batch[b] \in BatchRows /\ next \in Attempts
      BY <1>2, <2>3
    <3> HIDE DEF next
    <3> QED
      BY ONLY <3>1, RetriedRow
  <2>5. RowWritten(b, row)
    BY <1>1, <2>1 DEF RowWritten, IInv, Shapes
  <2> HIDE DEF row
  <2> QED
    BY <1>1, <1>2, <2>1, <2>2, <2>3, <2>4, <2>5, ReopenedKeeps
<1>5. CASE v \notin {"quarantined", "retried"}
  <2>1. batch' = batch /\ round' = round
    BY <1>5 DEF ManualRetryProvisioningBatch
  <2> QED
    BY <1>1, <2>1, AsideKeeps
<1> QED
  BY <1>3, <1>4, <1>5

LEMMA ManualQuarantineKeeps ==
    ASSUME IInv, NEW c \in Manual, ManualQuarantineProvisioningBatch(c) PROVE IInv'
<1> DEFINE b == c.batch
           row == Released(batch[b], "quarantined", batch[b].attempt)
<1>1. /\ ~RowHeld(b) /\ wrk' = wrk /\ outcome' = outcome
      /\ UNCHANGED <<phase, room, shards, announced, rooms>>
  BY DEF ManualQuarantineProvisioningBatch
<1>2. b \in Batches /\ batch[b] \in BatchRows /\ batch[b].attempt \in Attempts
  BY Constants, BatchFacts DEF BatchRows
<1>3. CASE batch[b].status = "quarantined"
  BY <1>3 DEF IInv, Shapes, OwnedInProgress, ClaimsName, PreparedIsOwn, CalledExists, TallyHolds,
      FutureIsOpen, AssignedOnce, CompletedHasRooms, OpenedWhenProvisioned, QuarantineBlocks,
      WithinBudget, NotPoisoned, Fenced, ManualQuarantineProvisioningBatch
<1>4. CASE batch[b].status # "quarantined"
  <2>1. batch' = [batch EXCEPT ![b] = row] /\ BlockRoundManually
    BY <1>4 DEF ManualQuarantineProvisioningBatch
  <2>2. row \in BatchRows /\ row.status = "quarantined" /\ row.owner = Nobody /\ row.attempt = batch[b].attempt
    BY <1>2, ReleasedRow, StatusNames
  <2>3. RowWritten(b, row)
    BY <1>1, <2>1 DEF RowWritten, IInv, Shapes
  <2> HIDE DEF row
  <2> QED
    BY <1>1, <1>2, <2>1, <2>2, <2>3, BlockedManually, QuarantinedKeeps
<1> QED
  BY <1>3, <1>4

LEMMA ClaimKeeps ==
    ASSUME IInv, NEW w \in Workers, NEW b \in Batches, ClaimNextProvisioningBatch(w, b) PROVE IInv'
<1> DEFINE ver == batch[b].version + 1
           row == [batch[b] EXCEPT !.status = "in_progress", !.owner = w, !.expired = FALSE, !.version = ver]
           claim == [Resting EXCEPT !.pc = "claimed", !.batch = b, !.attempt = batch[b].attempt, !.version = ver]
<1>1. /\ batch' = [batch EXCEPT ![b] = row] /\ wrk' = [wrk EXCEPT ![w] = claim]
      /\ wrk[w].pc = "idle" /\ ~RowHeld(b) /\ round = "provisioning"
      /\ batch[b].status \in {"pending", "retried", "in_progress"}
      /\ UNCHANGED <<phase, round, room, shards, announced, rooms, outcome>>
  BY DEF ClaimNextProvisioningBatch, Claimable
<1>2. /\ batch[b] \in BatchRows /\ batch[b].attempt \in Attempts /\ batch[b].version \in Nat
      /\ batch[b].attempt \in Nat /\ batch[b].attempt <= RetryBudget
  BY <1>1, BatchFacts DEF BatchRows
<1>a. ver \in Nat
  BY <1>2
<1> HIDE DEF ver
<1>b. /\ row \in BatchRows /\ row.status = "in_progress" /\ row.owner = w /\ row.attempt = batch[b].attempt
  BY <1>2, <1>a, StatusNames DEF BatchRows
<1>c. /\ claim \in Claims /\ claim.pc = "claimed" /\ claim.batch = b /\ claim.attempt = batch[b].attempt
  BY <1>2, <1>a, RestingIsClaim DEF Claims, Steps
<1>3. /\ row \in BatchRows /\ row.status = "in_progress" /\ row.owner = w /\ row.attempt = batch[b].attempt
      /\ claim \in Claims /\ claim.pc = "claimed" /\ claim.batch = b /\ claim.attempt = batch[b].attempt
  BY <1>b, <1>c
<1> HIDE DEF row, claim
<1>4. /\ \A c \in Batches : batch'[c] = IF c = b THEN row ELSE batch[c]
      /\ \A v \in Workers : wrk'[v] = IF v = w THEN claim ELSE wrk[v]
  BY <1>1 DEF IInv, Shapes
<1>5. Shapes'
  BY <1>1, <1>3 DEF IInv, Shapes
<1>6. OwnedInProgress' /\ OpenedWhenProvisioned' /\ QuarantineBlocks' /\ WithinBudget'
      /\ AssignedOnce' /\ CompletedHasRooms'
  BY <1>1, <1>3, <1>4, <1>2, Constants
  DEF IInv, OwnedInProgress, OpenedWhenProvisioned, QuarantineBlocks, WithinBudget, AssignedOnce, CompletedHasRooms
<1>7. FutureIsOpen' /\ NotPoisoned'
  BY <1>1, <1>3, <1>4 DEF IInv, FutureIsOpen, NotPoisoned, Settled
<1>8. ClaimsName'
  BY <1>2, <1>3, <1>4 DEF IInv, ClaimsName
<1>9. PreparedIsOwn' /\ CalledExists'
  BY <1>1, <1>3, <1>4 DEF IInv, PreparedIsOwn, CalledExists
<1>10. TallyHolds'
  <2>1. ASSUME NEW v \in Workers, wrk'[v].pc = "tallied"
        PROVE  v # w /\ wrk'[v] = wrk[v] /\ wrk[v].batch \in Batches \ {b} /\ batch'[wrk[v].batch] = batch[wrk[v].batch]
    BY <1>1, <1>3, <1>4, <2>1 DEF IInv, ClaimsName, RowHeld
  <2>2. \A c \in Batches : batch[c].status = "completed" => batch'[c].status = "completed"
    BY <1>1, <1>4
  <2> QED
    BY <1>1, <2>1, <2>2 DEF IInv, TallyHolds, Fenced
<1> QED
  BY <1>5, <1>6, <1>7, <1>8, <1>9, <1>10 DEF IInv

\* A lease that is renewed or ends: nothing but the flag changes.
LEMMA ExpiredFlagKeeps ==
    ASSUME IInv, NEW b \in Batches, NEW flag \in BOOLEAN,
           batch' = [batch EXCEPT ![b].expired = flag],
           UNCHANGED <<phase, round, room, shards, announced, rooms, outcome, wrk>>
    PROVE  IInv'
<1>1. /\ batch' \in [Batches -> BatchRows]
      /\ \A c \in Batches :
            /\ batch'[c].status = batch[c].status /\ batch'[c].attempt = batch[c].attempt
            /\ batch'[c].owner = batch[c].owner /\ batch'[c].version = batch[c].version
  BY DEF IInv, Shapes, BatchRows
<1>2. Shapes' /\ OwnedInProgress' /\ AssignedOnce' /\ CompletedHasRooms'
  BY <1>1 DEF IInv, Shapes, OwnedInProgress, AssignedOnce, CompletedHasRooms
<1>3. OpenedWhenProvisioned' /\ QuarantineBlocks' /\ WithinBudget' /\ FutureIsOpen' /\ NotPoisoned'
  BY <1>1 DEF IInv, OpenedWhenProvisioned, QuarantineBlocks, WithinBudget, FutureIsOpen, NotPoisoned
<1>4. ClaimsName' /\ PreparedIsOwn' /\ CalledExists'
  BY <1>1 DEF IInv, ClaimsName, PreparedIsOwn, CalledExists
<1>5. TallyHolds'
  BY <1>1 DEF IInv, ClaimsName, TallyHolds, Fenced
<1> QED
  BY <1>2, <1>3, <1>4, <1>5 DEF IInv

LEMMA HeartbeatKeeps ==
    ASSUME IInv, NEW w \in Workers, HeartbeatProvisioningLease(w) PROVE IInv'
<1>1. /\ wrk[w].pc \in {"prepared", "calling"} /\ ~RowHeld(wrk[w].batch)
      /\ UNCHANGED <<phase, round, room, shards, announced, rooms, outcome>>
  BY DEF HeartbeatProvisioningLease
<1>2. CASE ~Fenced(w)
  BY <1>1, <1>2, RestKeeps DEF HeartbeatProvisioningLease
<1>3. CASE Fenced(w)
  <2> DEFINE b == wrk[w].batch
             row == [batch[b] EXCEPT !.expired = FALSE]
             claim == [wrk[w] EXCEPT !.pc = "calling"]
  <2>1. /\ batch' = [batch EXCEPT ![b] = row] /\ wrk' = [wrk EXCEPT ![w] = claim]
    BY <1>3 DEF HeartbeatProvisioningLease, Goto
  <2>2. /\ b \in Batches /\ batch[b] \in BatchRows /\ wrk[w] \in Claims
    BY <1>1, BatchFacts DEF IInv, Shapes, ClaimsName
  <2>3. /\ row \in BatchRows /\ row.status = batch[b].status /\ row.attempt = batch[b].attempt
        /\ row.owner = batch[b].owner /\ row.version = batch[b].version
    BY <2>2 DEF BatchRows
  <2>4. /\ claim \in Claims /\ claim.pc = "calling" /\ claim.batch = b
        /\ claim.attempt = wrk[w].attempt /\ claim.left = wrk[w].left
    BY <2>2 DEF Claims, Steps
  <2> HIDE DEF row, claim
  <2>5. /\ \A v \in Workers : wrk'[v] = IF v = w THEN claim ELSE wrk[v]
        /\ wrk' \in [Workers -> Claims]
    BY <2>1, <2>4 DEF IInv, Shapes
  <2>6. /\ batch' \in [Batches -> BatchRows]
        /\ \A c \in Batches :
              /\ batch'[c].status = batch[c].status /\ batch'[c].attempt = batch[c].attempt
              /\ batch'[c].owner = batch[c].owner /\ batch'[c].version = batch[c].version
    BY <2>1, <2>3 DEF IInv, Shapes
  <2>7. Shapes' /\ OwnedInProgress' /\ AssignedOnce' /\ CompletedHasRooms'
    BY <1>1, <2>5, <2>6 DEF IInv, Shapes, OwnedInProgress, AssignedOnce, CompletedHasRooms
  <2>8. OpenedWhenProvisioned' /\ QuarantineBlocks' /\ WithinBudget' /\ FutureIsOpen' /\ NotPoisoned'
    BY <1>1, <2>6 DEF IInv, OpenedWhenProvisioned, QuarantineBlocks, WithinBudget, FutureIsOpen, NotPoisoned
  <2>9. ClaimsName' /\ PreparedIsOwn' /\ CalledExists'
    BY <1>1, <2>2, <2>4, <2>5, <2>6 DEF IInv, ClaimsName, PreparedIsOwn, CalledExists
  <2>10. TallyHolds'
    <3>1. ASSUME NEW v \in Workers, wrk'[v].pc = "tallied"
          PROVE  wrk'[v] = wrk[v] /\ wrk[v].pc = "tallied" /\ wrk[v].batch \in Batches
      BY <2>4, <2>5, <3>1 DEF IInv, ClaimsName
    <3> QED
      BY <1>1, <2>6, <3>1 DEF IInv, TallyHolds, Fenced
  <2> QED
    BY <2>7, <2>8, <2>9, <2>10 DEF IInv
<1> QED
  BY <1>2, <1>3

LEMMA TallyKeeps == ASSUME IInv, NEW w \in Workers, TallyBatches(w) PROVE IInv'
<1> DEFINE b == wrk[w].batch
<1>1. /\ wrk[w].pc = "calling" /\ wrk[w].left = {} /\ ~RowHeld(b)
      /\ UNCHANGED <<phase, round, batch, room, shards, announced, rooms, outcome>>
  BY DEF TallyBatches
<1>2. CASE Rest(w)
  BY <1>1, <1>2, RestKeeps
<1>3. CASE ~Rest(w)
  <2> DEFINE claim == [wrk[w] EXCEPT !.pc = "tallied", !.open = OpenBatches(b) # {}]
  <2>1. Fenced(w) /\ wrk' = [wrk EXCEPT ![w] = claim]
    BY <1>3 DEF TallyBatches
  <2>2. b \in Batches /\ wrk[w] \in Claims
    BY <1>1 DEF IInv, Shapes, ClaimsName
  <2>3. /\ claim \in Claims /\ claim.pc = "tallied" /\ claim.batch = b /\ claim.left = {}
        /\ claim.attempt = wrk[w].attempt /\ claim.version = wrk[w].version
        /\ claim.open = (OpenBatches(b) # {})
    BY <1>1, <2>2 DEF Claims, Steps
  <2> HIDE DEF claim
  <2>4. /\ \A v \in Workers : wrk'[v] = IF v = w THEN claim ELSE wrk[v]
        /\ wrk' \in [Workers -> Claims]
    BY <2>1, <2>3 DEF IInv, Shapes
  <2>5. Shapes' /\ OwnedInProgress' /\ AssignedOnce' /\ CompletedHasRooms'
        /\ OpenedWhenProvisioned' /\ QuarantineBlocks' /\ WithinBudget' /\ FutureIsOpen' /\ NotPoisoned'
    BY <1>1, <2>4
    DEF IInv, Shapes, OwnedInProgress, AssignedOnce, CompletedHasRooms, OpenedWhenProvisioned,
        QuarantineBlocks, WithinBudget, FutureIsOpen, NotPoisoned
  <2>6. ClaimsName' /\ PreparedIsOwn' /\ CalledExists'
    BY <1>1, <2>2, <2>3, <2>4 DEF IInv, ClaimsName, PreparedIsOwn, CalledExists
  <2>7. TallyHolds'
    <3>1. ~claim.open => \A c \in Batches \ {b} : batch[c].status = "completed"
      BY <2>3 DEF OpenBatches
    <3> QED
      BY <1>1, <2>1, <2>3, <2>4, <3>1 DEF IInv, TallyHolds, Fenced
  <2> QED
    BY <2>5, <2>6, <2>7 DEF IInv
<1> QED
  BY <1>2, <1>3

LEMMA RoomMadeKeeps ==
    ASSUME IInv, NEW w \in Workers, NEW s \in Slots, wrk[w].pc = "calling", s \in wrk[w].left,
           rooms' = rooms \/ rooms' = rooms \cup {s},
           NEW claim \in Claims, wrk' = [wrk EXCEPT ![w] = claim], claim.batch = wrk[w].batch,
           claim.attempt = wrk[w].attempt,
           \/ claim.pc = "failed"
           \/ claim.pc = "calling" /\ claim.left = wrk[w].left \ {s} /\ s \in rooms',
           UNCHANGED <<phase, round, batch, room, shards, announced, outcome>>
    PROVE  IInv'
<1>1. \A v \in Workers : wrk'[v] = IF v = w THEN claim ELSE wrk[v]
  BY DEF IInv, Shapes
<1>2. room[s] = "own" /\ wrk[w].batch \in Batches /\ rooms \subseteq rooms' /\ rooms' \subseteq Slots
  BY DEF IInv, Shapes, ClaimsName, PreparedIsOwn, CalledExists
<1>3. Shapes' /\ OwnedInProgress' /\ AssignedOnce' /\ OpenedWhenProvisioned' /\ QuarantineBlocks'
      /\ WithinBudget' /\ FutureIsOpen' /\ NotPoisoned'
  BY <1>2
  DEF IInv, Shapes, OwnedInProgress, AssignedOnce, OpenedWhenProvisioned,
      QuarantineBlocks, WithinBudget, FutureIsOpen, NotPoisoned
<1>4. CompletedHasRooms'
  BY <1>2 DEF IInv, CompletedHasRooms
<1>5. ClaimsName' /\ PreparedIsOwn'
  BY <1>1, <1>2 DEF IInv, ClaimsName, PreparedIsOwn
<1>6. CalledExists'
  BY <1>1, <1>2 DEF IInv, CalledExists
<1>7. TallyHolds'
  BY <1>1, <1>2 DEF IInv, TallyHolds, Fenced
<1> QED
  BY <1>3, <1>4, <1>5, <1>6, <1>7 DEF IInv

LEMMA ProvisionRoomKeeps ==
    ASSUME IInv, NEW w \in Workers, NEW s \in Slots, ProvisionRoom(w, s) PROVE IInv'
<1> DEFINE claim == [wrk[w] EXCEPT !.left = wrk[w].left \ {s}]
<1>1. /\ wrk[w].pc = "calling" /\ s \in wrk[w].left /\ rooms' = rooms \cup {s}
      /\ wrk' = [wrk EXCEPT ![w] = claim]
      /\ UNCHANGED <<phase, round, batch, room, shards, announced, outcome>>
  BY DEF ProvisionRoom, ProvisionDurable
<1>2. /\ claim \in Claims /\ claim.batch = wrk[w].batch /\ claim.attempt = wrk[w].attempt
      /\ claim.pc = "calling" /\ claim.left = wrk[w].left \ {s}
  BY <1>1 DEF IInv, Shapes, Claims
<1> HIDE DEF claim
<1> QED
  BY <1>1, <1>2, RoomMadeKeeps

LEMMA ProvisionRoomFailsKeeps ==
    ASSUME IInv, NEW w \in Workers, NEW s \in Slots, ProvisionRoomFails(w, s) PROVE IInv'
<1>1. PICK force \in BOOLEAN : wrk' = [wrk EXCEPT ![w].pc = "failed", ![w].force = force]
  BY DEF ProvisionRoomFails
<1> DEFINE claim == [wrk[w] EXCEPT !.pc = "failed", !.force = force]
<1>2. /\ wrk[w].pc = "calling" /\ s \in wrk[w].left /\ (rooms' = rooms \/ rooms' = rooms \cup {s})
      /\ wrk' = [wrk EXCEPT ![w] = claim]
      /\ UNCHANGED <<phase, round, batch, room, shards, announced, outcome>>
  BY <1>1 DEF ProvisionRoomFails, ProvisionDurable, IInv, Shapes
<1>3. /\ claim \in Claims /\ claim.batch = wrk[w].batch /\ claim.attempt = wrk[w].attempt
      /\ claim.pc = "failed"
  BY DEF IInv, Shapes, Claims, Steps
<1> HIDE DEF claim
<1> QED
  BY <1>2, <1>3, RoomMadeKeeps

LEMMA FinalizeSuccessKeeps ==
    ASSUME IInv, NEW w \in Workers, FinalizeProvisioningBatchSuccess(w) PROVE IInv'
<1> DEFINE b == wrk[w].batch
           row == Released(batch[b], "completed", batch[b].attempt)
<1>1. /\ wrk[w].pc = "tallied" /\ batch' = [batch EXCEPT ![b] = row] /\ Rest(w)
      /\ OpenRound(wrk[w].open) /\ RecordAttempt(w, "completed")
      /\ UNCHANGED <<phase, room, shards, announced, rooms>>
  BY DEF FinalizeProvisioningBatchSuccess
<1>2. Fenced(w) /\ wrk[w].left = {}
  BY <1>1 DEF IInv, TallyHolds
<1>3. /\ b \in Batches /\ batch[b].status = "in_progress" /\ batch[b].attempt = wrk[w].attempt
      /\ batch[b] \in BatchRows /\ batch[b].attempt \in Attempts /\ batch[b].attempt <= RetryBudget
      /\ batch[b].attempt \in Nat /\ round # "in_progress"
  BY <1>1, <1>2, FencedFacts, BatchFacts DEF BatchRows
<1>4. \A v \in Workers : wrk[v].pc = "tallied" /\ wrk[v].batch = b => v = w
  BY <1>1, <1>2, FencedFacts
<1>5. row \in BatchRows /\ row.status = "completed" /\ row.owner = Nobody /\ row.attempt = batch[b].attempt
  BY <1>3, ReleasedRow, StatusNames
<1>6. /\ outcome' \in [Batches -> [Attempts -> Answers]]
      /\ \A c \in Batches, a \in Attempts : outcome'[c][a] # outcome[c][a] =>
             c = b /\ a = batch[b].attempt
  BY <1>1, <1>3, RecordedAnswers DEF Answers
<1>7. RowWritten(b, row)
  BY <1>1, <1>6 DEF RowWritten
<1> HIDE DEF row
<1>8. /\ round' \in {"provisioning", "in_progress", "blocked"}
      /\ round' = "provisioning" => round = "provisioning"
      /\ round' = "in_progress" => ~wrk[w].open /\ round = "provisioning"
      /\ round = "blocked" => round' = "blocked"
  BY <1>1, <1>3 DEF OpenRound, IInv, Shapes
<1>9. /\ Shapes' /\ AssignedOnce'
      /\ \A v \in Workers : wrk'[v] = wrk[v] \/ wrk'[v].pc = "idle"
      /\ \A c \in Batches : batch'[c] = IF c = b THEN row ELSE batch[c]
  BY <1>3, <1>5, <1>7, <1>8, RowWrittenShapes
<1>10. OpenedWhenProvisioned'
  BY <1>1, <1>5, <1>8, <1>9 DEF IInv, TallyHolds, OpenedWhenProvisioned
<1>11. QuarantineBlocks' /\ OwnedInProgress'
  BY <1>5, <1>8, <1>9 DEF IInv, QuarantineBlocks, OwnedInProgress
<1>12. WithinBudget'
  BY <1>3, <1>5, <1>9, Constants DEF IInv, WithinBudget
<1>13. FutureIsOpen' /\ NotPoisoned'
  <2>1. \A c \in Batches, a \in Attempts : a > batch[c].attempt => outcome'[c][a] = outcome[c][a]
    BY <1>3, <1>6, AttemptsAreNat
  <2>2. FutureIsOpen'
    BY <2>1, <1>5, <1>9 DEF IInv, FutureIsOpen
  <2>3. ASSUME NEW c \in Batches, c # b PROVE outcome'[c][batch[c].attempt] = outcome[c][batch[c].attempt]
    <3>1. batch[c].attempt \in Attempts
      BY BatchFacts DEF BatchRows
    <3>2. \A d \in Batches, a \in Attempts : outcome'[d][a] # outcome[d][a] => d = b
      BY <1>6
    <3> QED
      BY ONLY <2>3, <3>1, <3>2
  <2>4. NotPoisoned'
    BY <1>1, <1>5, <1>8, <1>9, <2>3 DEF IInv, NotPoisoned, Settled
  <2> QED
    BY <2>2, <2>4
<1>14. CompletedHasRooms'
  BY <1>1, <1>2, <1>3, <1>5, <1>9, Constants DEF IInv, CompletedHasRooms, CalledExists, RowWritten
<1>15. ClaimsName' /\ PreparedIsOwn' /\ CalledExists' /\ TallyHolds'
  <2>1. \A c \in Batches : batch[c].attempt <= batch'[c].attempt /\ batch'[c].attempt \in Nat
    BY <1>3, <1>5, <1>9, BatchFacts
  <2>2. wrk'[w].pc = "idle"
    BY <1>1, RestingIsClaim DEF Rest, IInv, Shapes
  <2>3. \A v \in Workers : wrk'[v].pc = "tallied" => batch'[wrk[v].batch] = batch[wrk[v].batch]
    BY <1>4, <1>9, <2>2 DEF IInv, ClaimsName
  <2>4. wrk' \in [Workers -> Claims]
    BY <1>9 DEF Shapes
  <2>5. \A c \in Batches : batch[c].status = "completed" => batch'[c].status = "completed"
    BY <1>5, <1>9
  <2>6. /\ \A v \in Workers : wrk'[v] = wrk[v] \/ wrk'[v].pc = "idle"
        /\ room' = room /\ rooms' = rooms
    BY <1>9, <1>1
  <2> HIDE DEF b
  <2> QED
    BY <1>8, <2>1, <2>3, <2>4, <2>5, <2>6, ClaimsKeep
<1> QED
  BY <1>9, <1>10, <1>11, <1>12, <1>13, <1>14, <1>15 DEF IInv

-----------------------------------------------------------------------------
(* Prepare                                                                 *)

LEMMA SlotsAreFinite == IsFiniteSet(Slots)
BY ProvisioningAssumption DEF Slots

\* The shards follow the rows: what is assigned is what had no row.
LEMMA AssignKeepsCount ==
    ASSUME IInv, NEW b \in Batches, PrepareBulkAssignments(b), ~ConflictingAssignment(b)
    PROVE  /\ room' \in [Slots -> {"none", "own", "foreign"}]
           /\ shards' \in Nat /\ announced' \in [Slots -> 0 .. 1] /\ AssignedOnce'
           /\ \A s \in Slots : room[s] = "own" \/ s \in SlotsOf[b] => room'[s] = "own"
<1> DEFINE new == {s \in SlotsOf[b] : room[s] = "none"}
           old == {s \in Slots : room[s] # "none"}
<1>1. /\ room' = [s \in Slots |-> IF s \in new THEN "own" ELSE room[s]]
      /\ shards' = shards + Cardinality(new)
      /\ announced' = [s \in Slots |-> IF s \in SlotsOf[b] /\ announced[s] = 0 THEN 1 ELSE announced[s]]
  BY DEF PrepareBulkAssignments
<1>2. /\ SlotsOf[b] \subseteq Slots /\ room \in [Slots -> {"none", "own", "foreign"}]
      /\ announced \in [Slots -> 0 .. 1]
      /\ \A s \in SlotsOf[b] : room[s] # "foreign"
      /\ shards = Cardinality(old)
      /\ \A s \in Slots : announced[s] = IF room[s] = "own" THEN 1 ELSE 0
  BY Constants DEF IInv, Shapes, AssignedOnce, ConflictingAssignment
<1>3. /\ room' \in [Slots -> {"none", "own", "foreign"}]
      /\ \A s \in Slots : room'[s] = "own" <=> room[s] = "own" \/ s \in SlotsOf[b]
      /\ \A s \in Slots : room'[s] # "none" <=> s \in old \cup new
  BY <1>1, <1>2
<1>4. announced' \in [Slots -> 0 .. 1]
  BY <1>1, <1>2
<1>5. \A s \in Slots : announced'[s] = IF room'[s] = "own" THEN 1 ELSE 0
  BY <1>1, <1>2, <1>3
<1>6. shards' \in Nat /\ shards' = Cardinality({s \in Slots : room'[s] # "none"})
  <2>1. old \subseteq Slots /\ new \subseteq Slots /\ old \cap new = {}
    BY <1>2
  <2>2. IsFiniteSet(old) /\ IsFiniteSet(new)
    BY <2>1, SlotsAreFinite, FS_Subset
  <2>3. {s \in Slots : room'[s] # "none"} = old \cup new
    BY <1>3, <2>1
  <2>4. Cardinality(old \cup new) = Cardinality(old) + Cardinality(new) - Cardinality({})
    BY <2>1, <2>2, FS_Union
  <2>5. Cardinality(old) \in Nat /\ Cardinality(new) \in Nat
    BY <2>2, FS_CardinalityType
  <2> QED
    <3>1. shards' = Cardinality(old) + Cardinality(new)
      BY <1>1, <1>2
    <3>2. Cardinality({}) = 0
      BY FS_EmptySet
    <3> HIDE DEF old, new
    <3>3. shards' = Cardinality(old \cup new) /\ shards' \in Nat
      BY ONLY <2>4, <2>5, <3>1, <3>2
    <3> QED
      BY ONLY <2>3, <3>3
<1> QED
  BY <1>3, <1>4, <1>5, <1>6 DEF AssignedOnce

LEMMA AssignKeeps ==
    ASSUME IInv, NEW w \in Workers, wrk[w].pc = "claimed",
           PrepareBulkAssignments(wrk[w].batch), ~ConflictingAssignment(wrk[w].batch),
           wrk' = [wrk EXCEPT ![w].pc = "prepared", ![w].left = SlotsOf[wrk[w].batch]],
           UNCHANGED <<phase, round, batch, rooms, outcome>>
    PROVE  IInv'
<1> DEFINE b == wrk[w].batch
           claim == [wrk[w] EXCEPT !.pc = "prepared", !.left = SlotsOf[b]]
<1>1. b \in Batches /\ wrk[w] \in Claims /\ SlotsOf[b] \subseteq Slots
  BY Constants DEF IInv, Shapes, ClaimsName
<1>2. /\ claim \in Claims /\ claim.pc = "prepared" /\ claim.batch = b /\ claim.left = SlotsOf[b]
      /\ claim.attempt = wrk[w].attempt /\ claim.version = wrk[w].version
  BY <1>1 DEF Claims, Steps
<1>3. /\ room' \in [Slots -> {"none", "own", "foreign"}]
      /\ shards' \in Nat /\ announced' \in [Slots -> 0 .. 1] /\ AssignedOnce'
      /\ \A s \in Slots : room[s] = "own" \/ s \in SlotsOf[b] => room'[s] = "own"
  BY <1>1, AssignKeepsCount
<1>4. wrk' = [wrk EXCEPT ![w] = claim]
  BY DEF IInv, Shapes
<1> HIDE DEF claim
<1>5. /\ wrk' \in [Workers -> Claims]
      /\ \A v \in Workers : wrk'[v] = IF v = w THEN claim ELSE wrk[v]
  BY <1>2, <1>4 DEF IInv, Shapes
<1>6. Shapes' /\ OwnedInProgress' /\ OpenedWhenProvisioned' /\ QuarantineBlocks'
      /\ WithinBudget' /\ FutureIsOpen' /\ NotPoisoned'
  BY <1>3, <1>5
  DEF IInv, Shapes, OwnedInProgress, OpenedWhenProvisioned, QuarantineBlocks, WithinBudget, FutureIsOpen, NotPoisoned
<1>7. CompletedHasRooms'
  BY <1>3 DEF IInv, Shapes, CompletedHasRooms
<1>8. ClaimsName' /\ CalledExists'
  BY <1>1, <1>2, <1>5 DEF IInv, ClaimsName, CalledExists
<1>9. PreparedIsOwn'
  <2>1. ASSUME NEW v \in Workers, v # w, wrk[v].pc \in {"prepared", "calling", "failed", "tallied"}
        PROVE  \A s \in SlotsOf[wrk[v].batch] : room'[s] = "own"
    BY <1>3, <2>1, Constants DEF IInv, PreparedIsOwn, ClaimsName
  <2> QED
    BY <1>1, <1>2, <1>3, <1>5, <2>1 DEF PreparedIsOwn
<1>10. TallyHolds'
  BY <1>2, <1>5 DEF IInv, TallyHolds, Fenced
<1> QED
  BY <1>3, <1>6, <1>7, <1>8, <1>9, <1>10 DEF IInv

\* A refusal is recorded only when nothing is provisioned any more.
LEMMA RefusalKeeps ==
    ASSUME IInv, NEW w \in Workers, wrk[w].pc # "idle", RejectPrepare(w),
           phase = "cancelled" \/ round # "provisioning", UNCHANGED <<phase, rooms>>
    PROVE  IInv'
<1>1. /\ Rest(w) /\ RecordAttempt(w, "rejected")
      /\ UNCHANGED <<phase, round, batch, room, shards, announced, rooms>>
  BY DEF RejectPrepare
<1>2. /\ outcome' \in [Batches -> [Attempts -> Answers]]
      /\ \A c \in Batches, a \in Attempts : outcome'[c][a] # outcome[c][a] => a <= batch[c].attempt
  BY <1>1, RecordedAnswers DEF Answers
<1>3. /\ wrk' \in [Workers -> Claims]
      /\ \A v \in Workers : wrk'[v] = wrk[v] \/ wrk'[v].pc = "idle"
  BY <1>1, RestingIsClaim DEF IInv, Shapes, Rest
<1>4. Shapes' /\ OwnedInProgress' /\ AssignedOnce' /\ CompletedHasRooms' /\ OpenedWhenProvisioned'
      /\ QuarantineBlocks' /\ WithinBudget'
  BY <1>1, <1>2, <1>3
  DEF IInv, Shapes, OwnedInProgress, AssignedOnce, CompletedHasRooms, OpenedWhenProvisioned,
      QuarantineBlocks, WithinBudget
<1>5. FutureIsOpen'
  <2>1. \A c \in Batches, a \in Attempts : a > batch[c].attempt => ~(a <= batch[c].attempt)
    BY AttemptsAreNat, BatchFacts
  <2> QED
    BY <1>1, <1>2, <2>1 DEF IInv, FutureIsOpen
<1>6. NotPoisoned'
  BY <1>1 DEF NotPoisoned, IInv, Shapes
<1>7. ClaimsName' /\ PreparedIsOwn' /\ CalledExists' /\ TallyHolds'
  <2>1. \A c \in Batches : batch[c].attempt <= batch'[c].attempt /\ batch'[c].attempt \in Nat
    BY <1>1, BatchFacts
  <2> QED
    BY <1>1, <1>3, <2>1, ClaimsKeep
<1> QED
  BY <1>4, <1>5, <1>6, <1>7 DEF IInv

LEMMA PrepareKeeps ==
    ASSUME IInv, NEW w \in Workers, PrepareProvisioningBatch(w) PROVE IInv'
<1> DEFINE b == wrk[w].batch
<1>1. wrk[w].pc = "claimed" /\ ~RowHeld(b) /\ UNCHANGED <<phase, rooms>>
  BY DEF PrepareProvisioningBatch
<1>2. CASE PriorOutcome(w) \/ (phase # "cancelled" /\ ~Fenced(w))
  BY <1>1, <1>2, RestKeeps DEF PrepareProvisioningBatch, GiveUp
<1>3. CASE ~PriorOutcome(w) /\ (phase = "cancelled" \/ (Fenced(w) /\ round # "provisioning"))
  BY <1>1, <1>3, RefusalKeeps DEF PrepareProvisioningBatch
<1>4. CASE ~PriorOutcome(w) /\ phase # "cancelled" /\ Fenced(w) /\ round = "provisioning" /\ ConflictingAssignment(b)
  <2> DEFINE row == Released(batch[b], "quarantined", batch[b].attempt)
  <2>1. /\ batch' = [batch EXCEPT ![b] = row] /\ BlockRound /\ RecordAttempt(w, "quarantined")
        /\ Rest(w) /\ UNCHANGED <<room, shards, announced>>
    BY <1>4 DEF PrepareProvisioningBatch, QuarantinePrepareConflict
  <2>2. b \in Batches /\ batch[b].attempt = wrk[w].attempt
    BY <1>1, <1>4, FencedFacts
  <2>3. batch[b] \in BatchRows /\ batch[b].attempt \in Attempts /\ batch[b].attempt \in Nat
    BY <2>2, BatchFacts DEF BatchRows
  <2>4. row \in BatchRows /\ row.status = "quarantined" /\ row.owner = Nobody /\ row.attempt = batch[b].attempt
    BY <2>3, ReleasedRow, StatusNames
  <2>5. /\ outcome' \in [Batches -> [Attempts -> Answers]]
        /\ \A c \in Batches, a \in Attempts : outcome'[c][a] # outcome[c][a] =>
               c = b /\ a <= batch[b].attempt
    BY <1>1, <2>1, <2>2, <2>3, RecordedAnswers DEF Answers
  <2>6. RowWritten(b, row) /\ round' = "blocked"
    BY <1>1, <1>4, <2>1, <2>5, BlockedRound DEF RowWritten
  <2> HIDE DEF row
  <2> QED
    BY <1>1, <2>2, <2>4, <2>5, <2>6, QuarantinedKeeps
<1>5. CASE ~PriorOutcome(w) /\ phase # "cancelled" /\ Fenced(w) /\ round = "provisioning" /\ ~ConflictingAssignment(b)
  BY <1>1, <1>5, AssignKeeps DEF PrepareProvisioningBatch
<1> QED
  BY <1>2, <1>3, <1>4, <1>5

-----------------------------------------------------------------------------
(* The theorems                                                            *)

LEMMA Initialization == Init => IInv
<1> SUFFICES ASSUME Init PROVE IInv
  OBVIOUS
<1>1. PICK f \in SUBSET Foreign :
         /\ room = [s \in Slots |-> IF s \in f THEN "foreign" ELSE "none"]
         /\ shards = Cardinality(f)
  BY DEF Init
<1>2. f \subseteq Slots /\ IsFiniteSet(f) /\ shards \in Nat
  BY <1>1, SlotsAreFinite, ProvisioningAssumption, FS_Subset, FS_CardinalityType DEF Slots
<1>3. {s \in Slots : room[s] # "none"} = f
  BY <1>1, <1>2
<1>4. AssignedOnce
  BY <1>1, <1>3 DEF Init, AssignedOnce
<1>5. 0 \in Attempts /\ 0 \in Nat
  BY AttemptsAreNat, Constants
<1>6. batch \in [Batches -> BatchRows] /\ wrk \in [Workers -> Claims]
  <2>1. [status |-> "pending", attempt |-> 0, owner |-> Nobody, version |-> 0, expired |-> FALSE] \in BatchRows
    BY <1>5, StatusNames DEF BatchRows
  <2> QED
    BY <2>1, RestingIsClaim DEF Init
<1>7. Shapes
  <2>1. room \in [Slots -> {"none", "own", "foreign"}] /\ announced \in [Slots -> 0 .. 1]
    BY <1>1 DEF Init
  <2>2. outcome \in [Batches -> [Attempts -> Answers]]
    BY DEF Init, Answers
  <2> QED
    BY <1>2, <1>6, <2>1, <2>2 DEF Init, Shapes
<1>8. OwnedInProgress /\ FutureIsOpen /\ NotPoisoned
  BY <1>5 DEF Init, OwnedInProgress, FutureIsOpen, NotPoisoned
<1>9. WithinBudget
  BY Constants DEF Init, WithinBudget
<1>10. OpenedWhenProvisioned /\ QuarantineBlocks /\ CompletedHasRooms
  BY DEF Init, OpenedWhenProvisioned, QuarantineBlocks, CompletedHasRooms
<1>11. ClaimsName /\ PreparedIsOwn /\ CalledExists /\ TallyHolds
  BY RestingIsClaim DEF Init, ClaimsName, PreparedIsOwn, CalledExists, TallyHolds
<1> QED
  BY <1>4, <1>7, <1>8, <1>9, <1>10, <1>11 DEF IInv

LEMMA Preservation == IInv /\ [Next]_vars => IInv'
<1> SUFFICES ASSUME IInv, [Next]_vars PROVE IInv'
  OBVIOUS
<1>1. CASE UNCHANGED vars
  BY <1>1, AsideKeeps DEF vars
<1>2. ASSUME NEW w \in Workers, WorkerStep(w) PROVE IInv'
  <2>1. ASSUME NEW b \in Batches, ClaimNextProvisioningBatch(w, b) PROVE IInv'
    BY <2>1, ClaimKeeps
  <2>2. CASE PrepareProvisioningBatch(w)
    BY <2>2, PrepareKeeps
  <2>3. CASE HeartbeatProvisioningLease(w)
    BY <2>3, HeartbeatKeeps
  <2>4. ASSUME NEW s \in Slots, ProvisionRoom(w, s) PROVE IInv'
    BY <2>4, ProvisionRoomKeeps
  <2>5. CASE FinalizeProvisioningBatchFailure(w)
    BY <2>5, FinalizeFailureKeeps
  <2>6. CASE TallyBatches(w)
    BY <2>6, TallyKeeps
  <2>7. CASE FinalizeProvisioningBatchSuccess(w)
    BY <2>7, FinalizeSuccessKeeps
  <2> QED
    BY <1>2, <2>1, <2>2, <2>3, <2>4, <2>5, <2>6, <2>7 DEF WorkerStep
<1>3. ASSUME NEW w \in Workers, CrashWorker(w) PROVE IInv'
  BY <1>3, RestKeeps DEF CrashWorker
<1>4. ASSUME NEW w \in Workers, NEW s \in Slots, ProvisionRoomFails(w, s) PROVE IInv'
  BY <1>4, ProvisionRoomFailsKeeps
<1>5. ASSUME NEW b \in Batches, ReapExpiredProvisioningLeases(b) PROVE IInv'
  BY <1>5, ReapKeeps
<1>6. ASSUME NEW b \in Batches, LeaseExpires(b) PROVE IInv'
  BY <1>6, ExpiredFlagKeeps DEF LeaseExpires
<1>7. ASSUME NEW c \in Manual, ProvisionRound(c) PROVE IInv'
  BY <1>7, AsideKeeps DEF ProvisionRound
<1>8. ASSUME NEW c \in Manual, ManualRetryProvisioningBatch(c) PROVE IInv'
  BY <1>8, ManualRetryKeeps
<1>9. ASSUME NEW c \in Manual, ManualQuarantineProvisioningBatch(c) PROVE IInv'
  BY <1>9, ManualQuarantineKeeps
<1>10. CASE CancelTournament
  BY <1>10, AsideKeeps DEF CancelTournament
<1> QED
  BY <1>1, <1>2, <1>3, <1>4, <1>5, <1>6, <1>7, <1>8, <1>9, <1>10 DEF Next

THEOREM Invariance == Spec => []IInv
<1>1. Init => IInv
  BY Initialization
<1>2. IInv /\ [Next]_vars => IInv'
  BY Preservation
<1> QED
  BY <1>1, <1>2, PTL DEF Spec

(* Assignments, rooms, batches and the round agree in every reachable      *)
(* state: nothing is counted twice, a batch is completed only with all of  *)
(* its rooms, a round plays only without open or quarantined batches, and  *)
(* no batch that is claimed again has its answer already.                  *)
THEOREM ProvisioningIsSound == Spec => []ProvisioningSound
<1>1. IInv => ProvisioningSound
  BY DEF IInv, Shapes, OwnedInProgress, ProvisioningSound, ProvisioningTypeOK, BatchRows, Statuses
<1> QED
  BY <1>1, Invariance, PTL

\* A worker that has been overtaken is not fenced and has nothing to finish.
LEMMA SupersededIsOut ==
    ASSUME IInv, NEW w \in Workers, Superseded(w)
    PROVE  wrk[w].pc # "idle" /\ ~Fenced(w) /\ wrk[w].pc # "tallied"
BY DEF IInv, Superseded, Fenced, TallyHolds

LEMMA StaleStep ==
    ASSUME IInv, [Next]_vars, NEW w \in Workers, Superseded(w), wrk'[w] # wrk[w]
    PROVE  UNCHANGED <<batch, round>>
<1>1. wrk[w].pc # "idle" /\ ~Fenced(w) /\ wrk[w].pc # "tallied"
  BY SupersededIsOut
<1>2. ASSUME NEW v \in Workers, WorkerStep(v) PROVE UNCHANGED <<batch, round>>
  <2>1. v = w
    <3>1. ASSUME NEW claim, wrk' = [wrk EXCEPT ![v] = claim] PROVE v = w
      BY <3>1 DEF IInv, Shapes
    <3>2. \E claim : wrk' = [wrk EXCEPT ![v] = claim]
      BY <1>2 DEF WorkerStep, ClaimNextProvisioningBatch, PrepareProvisioningBatch,
         HeartbeatProvisioningLease, ProvisionRoom, FinalizeProvisioningBatchFailure, TallyBatches,
         FinalizeProvisioningBatchSuccess, RejectPrepare, QuarantinePrepareConflict, GiveUp, Rest, Goto
    <3> QED
      BY <3>1, <3>2
  <2>2. CASE PrepareProvisioningBatch(w)
    BY <1>1, <2>2 DEF PrepareProvisioningBatch, RejectPrepare, GiveUp
  <2>3. CASE ~PrepareProvisioningBatch(w)
    BY <1>1, <1>2, <2>1, <2>3
    DEF WorkerStep, ClaimNextProvisioningBatch, HeartbeatProvisioningLease, ProvisionRoom,
        FinalizeProvisioningBatchFailure, TallyBatches, FinalizeProvisioningBatchSuccess
  <2> QED
    BY <2>2, <2>3
<1>3. ASSUME NEW v \in Workers, CrashWorker(v) \/ \E s \in Slots : ProvisionRoomFails(v, s)
      PROVE  UNCHANGED <<batch, round>>
  BY <1>3 DEF CrashWorker, ProvisionRoomFails
<1>4. CASE UNCHANGED vars \/ CancelTournament
  BY <1>4 DEF vars, CancelTournament
<1>5. ASSUME NEW b \in Batches, ReapExpiredProvisioningLeases(b) \/ LeaseExpires(b) PROVE FALSE
  BY <1>5 DEF ReapExpiredProvisioningLeases, LeaseExpires
<1>6. ASSUME NEW c \in Manual,
             ProvisionRound(c) \/ ManualRetryProvisioningBatch(c) \/ ManualQuarantineProvisioningBatch(c)
      PROVE  FALSE
  BY <1>6 DEF ProvisionRound, ManualRetryProvisioningBatch, ManualQuarantineProvisioningBatch
<1> QED
  BY <1>2, <1>3, <1>4, <1>5, <1>6 DEF Next

(* A worker whose claim was taken over, or whose batch was retried by hand, *)
(* gives up: its step leaves the batches and the round as they are.         *)
THEOREM StaleWorkersChangeNothing == Spec => StaleChangesNothing
<1>1. IInv /\ [Next]_vars =>
        [\A w \in Workers : (Superseded(w) /\ wrk'[w] # wrk[w]) => UNCHANGED <<batch, round>>]_vars
  BY StaleStep
<1> QED
  BY <1>1, Invariance, PTL DEF Spec, StaleChangesNothing

-----------------------------------------------------------------------------
(* Analytics: the inductive invariant                                      *)

Activation == {"complete", "switch", "read back", "close", "finish"}
AfterClone == {"fetch", "apply", "progress", "after"} \cup Activation
TaskSteps ==
    {"idle", "start", "lease", "acquire", "open", "clone", "copy", "copy markers",
     "mark building", "publish", "commit"} \cup AfterClone

PageTasks ==
    [pc : TaskSteps, job : Generations, cursor : Cursors, tries : Nat, epoch : Nat,
     src : Generations, todo : SUBSET Events, bad : BOOLEAN, pages : Nat]

Puts ==
    [pc : {"idle", "list", "rows", "mark", "ack", "committed", "dead"},
     gens : Seq(Generations), tries : Nat]

StoreShapes ==
    /\ kind \in [Events -> Kinds] /\ page \in [Jobs -> [Cursors -> SUBSET Events]]
    /\ rows \in [Generations -> SUBSET Events] /\ marks \in [Generations -> SUBSET Events]
    /\ gen \in [Generations -> {"none", "initializing", "building", "complete"}]
    /\ active \in Generations
    /\ job \in [Jobs -> [status : {"none", "initializing", "building", "complete", "quarantined"},
                         pages : Nat]]
    /\ cp \in [Jobs -> [Cursors -> [index : Nat, next : Cursors, bad : BOOLEAN, applied : BOOLEAN]]]
    /\ put \in [Live -> Puts]
    /\ torn \subseteq Events /\ away \in [Live -> SUBSET Jobs]

WorkShapes ==
    /\ lease \in [Jobs -> [Tokens -> [epoch : Nat, fresh : BOOLEAN]]]
    /\ idem \in [Jobs -> [Cursors -> {"none", "followed", "finalized"}]]
    /\ queue \in [Jobs -> Seq(Cursors)] /\ partition \in [Jobs -> Rebuilders]
    /\ deadJobs \subseteq Jobs /\ task \in [Rebuilders -> PageTasks]
    /\ token \in [Rebuilders -> Tokens] /\ spent \subseteq Tokens

JobOf(w) == task[w].job
Src(w) == task[w].src

\* The job got beyond its clone, whatever became of it since.
Cloned(j) == job[j].status \in {"building", "complete", "quarantined"}

\* Every page of the job is in its generation, and nothing in it was refused.
Whole(g) ==
    g \in Jobs => \A c \in Cursors :
        /\ cp[g][c].applied /\ page[g][c] \subseteq marks[g]
        /\ \A e \in page[g][c] : Accepts(e)

\* A marked event has its rows, unless it was torn.
MarkedHaveRows == \A g \in Generations : \A e \in marks[g] \ torn : Accepts(e) => e \in rows[g]

\* A checkpoint tells the truth about its page.
CheckpointsHold ==
    \A j \in Jobs : \A c \in Cursors : cp[j][c].applied =>
        /\ Cloned(j) /\ cp[j][c].next = NextCursor(c) /\ page[j][c] \subseteq marks[j]
        /\ cp[j][c].bad \/ \A e \in page[j][c] : Accepts(e)

\* What is complete or active was verified.
VerifiedIsWhole == Whole(active) /\ \A j \in Jobs : job[j].status = "complete" => Whole(j)

StoreInv == MarkedHaveRows /\ CheckpointsHold /\ VerifiedIsWhole

\* Accepted events, listed and not torn, are in a generation or still come to it.
Sound(e) == e \in Listed \ torn /\ Accepts(e)
HeldBy(e, g) == e \in rows[g] \/ g \in ToSet(put[e].gens)

EventInv(e) ==
    /\ put[e].pc \in {"list", "rows", "mark"} => put[e].gens # <<>>
    /\ put[e].pc = "list" => /\ put[e].gens = <<put[e].gens[1]>>
                             /\ active = Origin => put[e].gens[1] = Origin
    /\ put[e].pc \in {"ack", "committed"} => put[e].gens = <<>>
    /\ put[e].pc = "mark" /\ Accepts(e) => e \in rows[put[e].gens[1]]
    /\ Sound(e) => HeldBy(e, active)
    /\ Sound(e) /\ put[e].pc # "committed" => \A j \in Registered \ away[e] : HeldBy(e, j)
    /\ Sound(e) /\ put[e].pc = "committed" =>
          \A j \in Jobs \ away[e] : Cloned(j) => e \in rows[j]

\* What a worker knows of the page it is at.
PageInv(w) ==
    /\ ~At(w, "idle") => JobOf(w) \in Jobs
    /\ task[w].pc \in {"clone", "copy", "copy markers", "mark building"} => JobOf(w) \in Registered
    /\ task[w].pc \in AfterClone => Cloned(JobOf(w))
    /\ task[w].pc \in {"progress", "after"} => cp[JobOf(w)][task[w].cursor].applied
    /\ At(w, "apply") =>
          LET records == page[JobOf(w)][task[w].cursor] IN
          /\ task[w].todo \subseteq records /\ records \ task[w].todo \subseteq marks[JobOf(w)]
          /\ task[w].bad \/ \A e \in records \ task[w].todo : Accepts(e)
    /\ task[w].pc \in Activation => Whole(JobOf(w))

\* What it knows of the generation it copies.
CloneInv(w) ==
    /\ task[w].pc \in {"copy", "copy markers"} => Whole(Src(w)) /\ Src(w) # JobOf(w)
    /\ At(w, "copy markers") =>
          \A e \in marks[Src(w)] \ torn : Accepts(e) => e \in rows[JobOf(w)]
    /\ \A e \in Live : Sound(e) /\ put[e].pc = "committed" /\ JobOf(w) \notin away[e] =>
          /\ At(w, "copy") => e \in rows[Src(w)] \cup rows[JobOf(w)]
          /\ task[w].pc \in {"copy markers", "mark building"} => e \in rows[JobOf(w)]

\* The request a worker is at is still in the partition that is its own.
QueueInv(w) ==
    ~At(w, "idle") /\ partition[JobOf(w)] = w => queue[JobOf(w)] # <<>>

RebuildInv ==
    /\ StoreShapes /\ WorkShapes /\ StoreInv
    /\ \A e \in Live : EventInv(e)
    /\ \A w \in Rebuilders : PageInv(w) /\ CloneInv(w) /\ QueueInv(w)

-----------------------------------------------------------------------------
(* Analytics: constants, sequences, the chain of pages                     *)

LEMMA RebuildConstants ==
    /\ Origin \notin Jobs /\ Origin \in Generations /\ Jobs \subseteq Generations
    /\ Live \subseteq Events /\ IsFiniteSet(Jobs)
    /\ Cursors \subseteq Nat /\ 0 \in Cursors /\ LastCursor \in Cursors /\ LastCursor \in Nat
    /\ \A c \in Cursors : NextCursor(c) \in Cursors
    /\ MaxAttempts \in Nat /\ MaxAttempts > 0
BY RebuildAssumption DEF Generations, Events, Cursors, NextCursor

LEMMA ListedOnce ==
    ASSUME NEW S, IsFiniteSet(S)
    PROVE  /\ SetToSeq(S) \in Seq(S)
           /\ \A x \in S : \E i \in 1 .. Len(SetToSeq(S)) : SetToSeq(S)[i] = x
<1> DEFINE n == Cardinality(S)
<1>1. n \in Nat /\ ExistsBijection(1 .. n, S)
  BY FS_CardinalityType
<1>2. PICK f \in Bijection(1 .. n, S) : TRUE
  BY <1>1 DEF ExistsBijection
<1>3. f \in [1 .. n -> S] /\ IsInjective(f)
  BY <1>2 DEF Bijection, Injection
<1>4. SetToSeq(S) \in [1 .. n -> S] /\ IsInjective(SetToSeq(S))
  <2> DEFINE P(g) == IsInjective(g)
  <2>1. \E g \in [1 .. n -> S] : IsInjective(g)
    BY <1>3
  <2>2. SetToSeq(S) = CHOOSE g \in [1 .. n -> S] : IsInjective(g)
    BY DEF SetToSeq
  <2> QED
    BY <2>1, <2>2
<1> DEFINE s == SetToSeq(S)
<1>5. s \in Injection(1 .. n, S)
  BY <1>4 DEF Injection
<1>6. IsFiniteSet(1 .. n) /\ Cardinality(1 .. n) = n
  BY <1>1, FS_Interval
<1>7. s \in Surjection(1 .. n, S)
  BY <1>5, <1>6, FS_Injection
<1>8. s \in Seq(S) /\ Len(s) = n
  BY <1>1, <1>4
<1> QED
  BY <1>7, <1>8 DEF Surjection

LEMMA ListedFirst ==
    ASSUME NEW S, NEW g \in S, NEW T \in SUBSET S, IsFiniteSet(T)
    PROVE  /\ <<g>> \o SetToSeq(T) \in Seq(S) /\ <<g>> \o SetToSeq(T) # <<>>
           /\ (<<g>> \o SetToSeq(T))[1] = g
           /\ \A x \in T \cup {g} : x \in ToSet(<<g>> \o SetToSeq(T))
<1> DEFINE t == SetToSeq(T)
           s == <<g>> \o t
<1>1. t \in Seq(T) /\ \A x \in T : \E i \in 1 .. Len(t) : t[i] = x
  BY ListedOnce
<1> HIDE DEF t
<1>2. t \in Seq(S) /\ s \in Seq(S) /\ Len(s) = Len(t) + 1 /\ s[1] = g /\ Len(t) \in Nat
  BY <1>1
<1>3. ASSUME NEW i \in 1 .. Len(t) PROVE i + 1 \in DOMAIN s /\ s[i + 1] = t[i]
  BY <1>2
<1>4. 1 \in DOMAIN s
  BY <1>2
<1>5. ASSUME NEW x \in T PROVE x \in ToSet(s)
  <2>1. PICK i \in 1 .. Len(t) : t[i] = x
    BY <1>1
  <2> QED
    BY <2>1, <1>3 DEF ToSet
<1>6. g \in ToSet(s)
  BY <1>2, <1>4 DEF ToSet
<1>7. s # <<>>
  BY <1>2
<1> QED
  BY <1>2, <1>5, <1>6, <1>7 DEF t

LEMMA ListedRest ==
    ASSUME NEW S, NEW s \in Seq(S), s # <<>>
    PROVE  /\ s[1] \in S /\ Tail(s) \in Seq(S) /\ (Tail(s) = <<>> <=> Len(s) = 1)
           /\ \A x \in ToSet(s) : x = s[1] \/ x \in ToSet(Tail(s))
<1>1. Len(s) \in Nat /\ Len(s) > 0 /\ DOMAIN s = 1 .. Len(s)
  OBVIOUS
<1>2. Tail(s) \in Seq(S) /\ Len(Tail(s)) = Len(s) - 1 /\ DOMAIN Tail(s) = 1 .. Len(s) - 1
  BY <1>1
<1>3. ASSUME NEW i \in 2 .. Len(s) PROVE i - 1 \in DOMAIN Tail(s) /\ Tail(s)[i - 1] = s[i]
  BY <1>1, <1>2
<1>4. ASSUME NEW x \in ToSet(s) PROVE x = s[1] \/ x \in ToSet(Tail(s))
  <2>1. PICK i \in 1 .. Len(s) : x = s[i]
    BY <1>1 DEF ToSet
  <2>2. i = 1 \/ i \in 2 .. Len(s)
    BY <1>1, <2>1
  <2> QED
    BY <2>1, <2>2, <1>3 DEF ToSet
<1> QED
  BY <1>1, <1>2, <1>4

\* The set's least member: no fold, no induction over data.
LEMMA LeastCursor ==
    ASSUME NEW S \in SUBSET Cursors, S # {}
    PROVE  \E c \in S : \A d \in S : c <= d
<1> DEFINE Below(c) == {d \in Cursors : d < c}
           T == {Below(c) : c \in S}
<1>1. IsFiniteSet(Cursors)
  BY RebuildConstants, FS_Interval DEF Cursors
<1>2. IsWellFoundedOn(StrictSubsetOrdering(Cursors), SUBSET Cursors)
  BY <1>1, FS_StrictSubsetOrderingWellFounded, FS_FiniteSubsetsOfFinite
<1>3. T \subseteq SUBSET Cursors /\ T # {}
  OBVIOUS
<1>4. PICK x \in T : \A y \in T : <<y, x>> \notin StrictSubsetOrdering(Cursors)
  <2> HIDE DEF T
  <2> QED BY <1>2, <1>3, WFMin
<1>5. PICK c \in S : x = Below(c)
  OBVIOUS
<1>6. ASSUME NEW d \in S, d < c PROVE FALSE
  <2>1. Below(d) \subseteq Below(c) /\ d \in Below(c) /\ d \notin Below(d)
    <3>1. c \in Nat /\ d \in Cursors /\ \A y \in Cursors : y \in Nat
      BY RebuildConstants
    <3>2. ~(d < d) /\ \A y \in Cursors : y < d => y < c
      BY <3>1, <1>6
    <3> QED
      BY <3>1, <3>2, <1>6
  <2>2. <<Below(d), x>> \in StrictSubsetOrdering(Cursors)
    BY <2>1, <1>5 DEF StrictSubsetOrdering
  <2> QED BY <2>2, <1>4
<1> QED BY <1>6, RebuildConstants

\* A chain of checkpoints from the first cursor to the last has every page: in
\* the smallest position that is not its cursor's, or the first cursor left
\* out, its predecessor would have said otherwise.
LEMMA ChainIsWhole ==
    ASSUME StoreShapes, CheckpointsHold, NEW j \in Jobs, Continuous(j)
    PROVE  Applied(j) = Cursors
<1> DEFINE n == Cardinality(Applied(j))
           in(i) == {c \in Applied(j) : cp[j][c].index = i}
<1>1. Applied(j) \subseteq Cursors /\ n \in Nat
  <2>1. Applied(j) \subseteq Cursors
    BY DEF Applied
  <2>2. IsFiniteSet(Cursors)
    BY RebuildConstants, FS_Interval DEF Cursors
  <2> QED
    BY <2>1, <2>2, FS_Subset, FS_CardinalityType
<1>2. \A c \in Applied(j) : cp[j][c].index \in Nat /\ cp[j][c].next = NextCursor(c)
  BY DEF StoreShapes, CheckpointsHold, Applied
<1>3. /\ \A i \in 0 .. n - 1 : in(i) # {}
      /\ in(0) = {0}
      /\ \A c, d \in Applied(j) : cp[j][d].index = cp[j][c].index + 1 => d = cp[j][c].next
      /\ \A c \in Applied(j) : cp[j][c].index + 1 = n => cp[j][c].next = 0
  <2>1. \A i \in 0 .. n - 1 : Cardinality(in(i)) = 1
    BY DEF Continuous
  <2>2. ASSUME NEW i \in 0 .. n - 1 PROVE in(i) # {}
    BY <2>1, FS_EmptySet
  <2> QED
    BY <2>2 DEF Continuous
<1>4. 0 \in Applied(j) /\ cp[j][0].index = 0 /\ \A c \in Applied(j) : cp[j][c].index = 0 => c = 0
  BY <1>3
<1>5. n > 0
  <2>1. Applied(j) # {}
    BY <1>4
  <2>2. IsFiniteSet(Applied(j))
    <3>1. IsFiniteSet(Cursors)
      BY RebuildConstants, FS_Interval DEF Cursors
    <3> QED
      BY <3>1, <1>1, FS_Subset
  <2> QED
    BY <2>1, <2>2, <1>1, FS_EmptySet
\* The positions that hold their own cursor go on until the last cursor.
<1> DEFINE Off == {c \in Cursors : ~(c \in Applied(j) /\ cp[j][c].index = c)}
<1> SUFFICES ASSUME Off # {} PROVE FALSE
  BY <1>1
<1>6. PICK c \in Off : \A d \in Off : c <= d
  BY LeastCursor
<1>7. c \in Nat /\ c > 0 /\ c - 1 \in Cursors /\ c <= LastCursor
  BY <1>4, RebuildConstants DEF Cursors
<1>8. c - 1 \in Applied(j) /\ cp[j][c - 1].index = c - 1
  BY <1>6, <1>7
<1>9. NextCursor(c - 1) = c
  BY <1>7, RebuildConstants DEF NextCursor
<1>10. cp[j][c - 1].next = c
  BY <1>2, <1>8, <1>9
<1>11. c # n
  BY <1>3, <1>7, <1>8, <1>10
<1>12. CASE c \in 0 .. n - 1
  <2>1. PICK d \in Applied(j) : cp[j][d].index = c
    BY <1>3, <1>12
  <2>2. d = c
    <3>1. cp[j][d].index = cp[j][c - 1].index + 1
      BY <2>1, <1>7, <1>8
    <3> QED
      BY <3>1, <1>3, <1>8, <1>10
  <2> QED
    BY <2>1, <2>2
<1>13. CASE c > n
  <2>1. n \in Cursors /\ n \notin Off
    <3>1. n \in Cursors /\ ~(c <= n)
      BY <1>1, <1>7, <1>13, RebuildConstants DEF Cursors
    <3> QED
      BY <3>1, <1>6
  <2>2. n \in Applied(j) /\ cp[j][n].index = n
    BY <2>1
  <2>3. n - 1 \in Cursors /\ n - 1 \notin Off
    <3>1. n - 1 \in Cursors /\ ~(c <= n - 1)
      BY <1>1, <1>5, <1>7, <1>13, RebuildConstants DEF Cursors
    <3> QED
      BY <3>1, <1>6
  <2>4. n - 1 \in Applied(j) /\ cp[j][n - 1].index = n - 1
    BY <2>3
  <2>5. cp[j][n - 1].next = 0 /\ cp[j][n - 1].next = n
    <3>1. NextCursor(n - 1) = n
      BY <1>1, <1>5, <1>7, <1>13, RebuildConstants DEF NextCursor
    <3> QED
      BY <3>1, <2>4, <1>1, <1>2, <1>3
  <2> QED
    BY <2>5, <1>5
<1> QED
  BY <1>1, <1>7, <1>11, <1>12, <1>13

-----------------------------------------------------------------------------
(* Analytics: what only grows                                              *)

Grows ==
    /\ UNCHANGED fixed
    /\ \A g \in Generations : rows[g] \subseteq rows'[g] /\ marks[g] \subseteq marks'[g]
    /\ torn \subseteq torn' /\ (active' = Origin => active = Origin)
    /\ \A j \in Jobs : (job[j].status # "none" => job'[j].status # "none") /\ (Cloned(j) => Cloned(j)')
    /\ \A j \in Jobs : \A c \in Cursors : cp[j][c].applied => cp'[j][c].applied

LEMMA WholeKeeps ==
    ASSUME Grows, NEW g, Whole(g)
    PROVE  Whole(g)'
<1>1. Jobs \subseteq Generations
  BY RebuildConstants
<1> QED
  BY <1>1 DEF Grows, fixed, Whole, Accepts

LEMMA PageKeeps ==
    ASSUME WorkShapes, Grows, NEW w \in Rebuilders, task'[w] = task[w], PageInv(w)
    PROVE  PageInv(w)'
<1>1. Jobs \subseteq Generations
  BY RebuildConstants
<1>2. task[w].cursor \in Cursors /\ (~At(w, "idle") => JobOf(w) \in Jobs) /\ (At(w, "idle") => ~At(w, "apply"))
  BY DEF WorkShapes, PageTasks, PageInv, At
<1>3. (~At(w, "idle") => JobOf(w) \in Jobs)'
  BY <1>2 DEF At, JobOf
<1>4. (task[w].pc \in {"clone", "copy", "copy markers", "mark building"} => JobOf(w) \in Registered)'
  BY <1>2 DEF PageInv, Grows, At, JobOf, Registered
<1>5. (task[w].pc \in AfterClone => Cloned(JobOf(w)))'
  BY <1>2 DEF PageInv, Grows, At, JobOf, AfterClone, Activation, Cloned
<1>6. (task[w].pc \in {"progress", "after"} => cp[JobOf(w)][task[w].cursor].applied)'
  BY <1>2 DEF PageInv, Grows, At, JobOf
<1>7. (At(w, "apply") =>
          LET records == page[JobOf(w)][task[w].cursor] IN
          /\ task[w].todo \subseteq records /\ records \ task[w].todo \subseteq marks[JobOf(w)]
          /\ task[w].bad \/ \A e \in records \ task[w].todo : Accepts(e))'
  BY <1>1, <1>2 DEF PageInv, Grows, fixed, At, JobOf, Accepts
<1>8. (task[w].pc \in Activation => Whole(JobOf(w)))'
  <2>1. SUFFICES ASSUME task[w].pc \in Activation PROVE Whole(JobOf(w))'
    BY DEF Activation
  <2>2. Whole(task[w].job)
    BY <2>1 DEF PageInv, JobOf
  <2> QED
    BY <2>2, WholeKeeps DEF JobOf
<1> QED
  BY <1>3, <1>4, <1>5, <1>6, <1>7, <1>8 DEF PageInv

LEMMA CloneKeeps ==
    ASSUME WorkShapes, Grows, NEW w \in Rebuilders, task'[w] = task[w], PageInv(w), CloneInv(w),
           At(w, "copy markers") =>
              \A e \in marks'[Src(w)] \ (marks[Src(w)] \cup torn') : Accepts(e) => e \in rows'[JobOf(w)],
           \A e \in Live : Sound(e)' /\ put'[e].pc = "committed" =>
              \/ put[e].pc = "committed" /\ away'[e] = away[e]
              \/ \A j \in Registered \ away'[e] : e \in rows[j]
    PROVE  CloneInv(w)'
<1>1. Jobs \subseteq Generations /\ Src(w) \in Generations /\ JobOf(w) \in Generations
  BY RebuildConstants DEF WorkShapes, PageTasks, Src, JobOf
<1>2. (task[w].pc \in {"copy", "copy markers"} => Whole(Src(w)) /\ Src(w) # JobOf(w))'
  <2>1. SUFFICES ASSUME task[w].pc \in {"copy", "copy markers"}
                 PROVE  Whole(Src(w))' /\ Src(w) # JobOf(w)
    BY DEF Src, JobOf
  <2>2. Whole(task[w].src) /\ Src(w) # JobOf(w)
    BY <2>1 DEF CloneInv, Src
  <2> QED
    BY <2>2, WholeKeeps DEF Src
<1>3. (At(w, "copy markers") =>
          \A e \in marks[Src(w)] \ torn : Accepts(e) => e \in rows[JobOf(w)])'
  <2>1. SUFFICES ASSUME At(w, "copy markers"), NEW e \in marks'[Src(w)] \ torn', Accepts(e)
                 PROVE  e \in rows'[JobOf(w)]
    BY DEF Src, JobOf, At, Accepts, Grows, fixed
  <2>2. CASE e \in marks[Src(w)]
    <3>1. e \in rows[JobOf(w)]
      BY <2>1, <2>2 DEF CloneInv, Grows
    <3> QED
      BY <3>1, <1>1 DEF Grows
  <2> QED
    BY <2>1, <2>2
<1>4. ASSUME NEW e \in Live, (Sound(e) /\ put[e].pc = "committed" /\ JobOf(w) \notin away[e])'
      PROVE  (/\ At(w, "copy") => e \in rows[Src(w)] \cup rows[JobOf(w)]
              /\ task[w].pc \in {"copy markers", "mark building"} => e \in rows[JobOf(w)])'
  <2>1. CASE put[e].pc = "committed" /\ away'[e] = away[e]
    <3>1. Sound(e) /\ put[e].pc = "committed" /\ JobOf(w) \notin away[e]
      BY <1>4, <2>1 DEF Sound, Listed, Accepts, Grows, fixed, JobOf
    <3>2. /\ At(w, "copy") => e \in rows[Src(w)] \cup rows[JobOf(w)]
          /\ task[w].pc \in {"copy markers", "mark building"} => e \in rows[JobOf(w)]
      BY <3>1 DEF CloneInv
    <3> QED
      BY <3>2, <1>1 DEF Grows, At, Src, JobOf
  <2>2. CASE \A j \in Registered \ away'[e] : e \in rows[j]
    <3>1. SUFFICES ASSUME task[w].pc \in {"copy", "copy markers", "mark building"}
                   PROVE  e \in rows'[JobOf(w)]
      BY DEF At, Src, JobOf
    <3>2. JobOf(w) \in Registered \ away'[e]
      BY <3>1, <1>4 DEF PageInv, JobOf
    <3> QED
      BY <3>2, <2>2, <1>1 DEF Grows
  <2> QED
    BY <1>4, <2>1, <2>2
<1> QED
  BY <1>2, <1>3, <1>4 DEF CloneInv

LEMMA EventKeeps ==
    ASSUME StoreShapes, Grows, active' \in Generations, NEW e \in Live, put'[e] = put[e], away'[e] = away[e], EventInv(e),
           Sound(e)' => active' = active \/ e \in rows[active'] \/ active' \in ToSet(put[e].gens),
           e \in InFlight \ torn' => Registered' \subseteq Registered,
           Sound(e)' /\ put[e].pc = "committed" =>
              \A j \in Jobs \ away[e] : Cloned(j)' => Cloned(j) \/ e \in rows'[j]
    PROVE  EventInv(e)'
<1>1. Jobs \subseteq Generations /\ active \in Generations /\ put[e] \in Puts
      /\ Registered' \subseteq Jobs /\ active' \in Generations
  BY RebuildConstants DEF StoreShapes, Registered
<1>2. Sound(e)' => Sound(e)
  BY DEF Sound, Listed, Grows, fixed, Accepts
<1>3. ASSUME NEW g \in Generations, HeldBy(e, g) PROVE HeldBy(e, g)'
  BY <1>3 DEF HeldBy, Grows
<1>4. (put[e].pc \in {"list", "rows", "mark"} => put[e].gens # <<>>)'
      /\ (put[e].pc = "list" => /\ put[e].gens = <<put[e].gens[1]>>
                                /\ active = Origin => put[e].gens[1] = Origin)'
      /\ (put[e].pc \in {"ack", "committed"} => put[e].gens = <<>>)'
  BY DEF EventInv, Grows
<1>5. (put[e].pc = "mark" /\ Accepts(e) => e \in rows[put[e].gens[1]])'
  <2>1. put[e].pc = "mark" => put[e].gens[1] \in Generations
    BY <1>1 DEF EventInv, Puts
  <2> QED
    BY <2>1 DEF EventInv, Grows, fixed, Accepts
<1>6. (Sound(e) => HeldBy(e, active))'
  <2>1. SUFFICES ASSUME Sound(e)' PROVE HeldBy(e, active)'
    OBVIOUS
  <2>2. CASE active' = active
    <3>1. HeldBy(e, active)
      BY <1>2, <2>1 DEF EventInv
    <3> QED
      BY <3>1, <1>1, <2>2 DEF HeldBy, Grows
  <2>3. CASE e \in rows[active'] \/ active' \in ToSet(put[e].gens)
    BY <2>3, <1>1 DEF HeldBy, Grows
  <2> QED
    BY <2>1, <2>2, <2>3
<1>7. (Sound(e) /\ put[e].pc # "committed" => \A j \in Registered \ away[e] : HeldBy(e, j))'
  <2>1. SUFFICES ASSUME Sound(e)', put[e].pc # "committed", NEW j \in Registered' \ away[e]
                 PROVE  HeldBy(e, j)'
    OBVIOUS
  <2>2. e \in InFlight \ torn'
    BY <2>1 DEF Sound, Listed, InFlight
  <2>3. HeldBy(e, j)
    BY <2>1, <2>2, <1>2 DEF EventInv
  <2> QED
    BY <2>1, <2>3, <1>1, <1>3
<1>8. (Sound(e) /\ put[e].pc = "committed" =>
          \A j \in Jobs \ away[e] : Cloned(j) => e \in rows[j])'
  BY <1>1, <1>2 DEF EventInv, Grows
<1> QED
  BY <1>4, <1>5, <1>6, <1>7, <1>8 DEF EventInv

-----------------------------------------------------------------------------
(* Analytics: the worker that moves                                        *)

Others(w) == \A v \in Rebuilders : v # w => task'[v] = task[v]

Quiet == {"idle", "start", "lease", "acquire", "open", "publish", "commit"}

\* A worker that only waits, or is at a request it knows nothing of yet.
LEMMA QuietHolds ==
    ASSUME NEW w \in Rebuilders, task'[w].pc \in Quiet, task'[w].pc # "idle" => task'[w].job \in Jobs
    PROVE  PageInv(w)' /\ CloneInv(w)'
<1>1. task'[w].pc \notin AfterClone \cup Activation \cup {"clone", "copy", "copy markers", "mark building"}
  BY DEF Quiet, AfterClone, Activation
<1>2. PageInv(w)'
  BY <1>1 DEF PageInv, JobOf, At, AfterClone
<1>3. CloneInv(w)'
  BY <1>1 DEF CloneInv, JobOf, At
<1> QED
  BY <1>2, <1>3

LEMMA StepShapes ==
    ASSUME WorkShapes, NEW w \in Rebuilders, NEW pc \in TaskSteps, StepTo(w, pc)
    PROVE  /\ task' \in [Rebuilders -> PageTasks] /\ Others(w)
           /\ task'[w] = [task[w] EXCEPT !.pc = pc] /\ task'[w].pc = pc
           /\ task'[w].job = task[w].job /\ task'[w].cursor = task[w].cursor
           /\ task'[w].src = task[w].src /\ task'[w].todo = task[w].todo
           /\ task'[w].bad = task[w].bad
BY DEF WorkShapes, StepTo, PageTasks, Others

LEMMA NoTaskShape == NoTask \in PageTasks /\ NoTask.pc = "idle"
BY RebuildConstants DEF NoTask, PageTasks, TaskSteps, Generations

Started(j, c, n) == [NoTask EXCEPT !.pc = "start", !.job = j, !.cursor = c, !.tries = n]

LEMMA StartedTask ==
    ASSUME NEW j \in Generations, NEW c \in Cursors, NEW n \in Nat
    PROVE  Started(j, c, n) \in PageTasks /\ Started(j, c, n).pc = "start" /\ Started(j, c, n).job = j
BY RebuildConstants DEF Started, NoTask, PageTasks, TaskSteps

\* Who pops the request it is at leaves the others theirs.
LEMMA PoppedShapes ==
    ASSUME WorkShapes, NEW w \in Rebuilders, ~At(w, "idle"), PageInv(w), QueueInv(w),
           queue' = Popped(w), partition' = partition, Others(w), task'[w].pc = "idle",
           \A v \in Rebuilders : QueueInv(v)
    PROVE  queue' \in [Jobs -> Seq(Cursors)] /\ \A v \in Rebuilders : QueueInv(v)'
<1>1. JobOf(w) \in Jobs /\ JobOf(w) = task[w].job
  BY DEF PageInv, JobOf
<1>2. CASE partition[JobOf(w)] = w
  <2>1. queue[JobOf(w)] # <<>> /\ queue[JobOf(w)] \in Seq(Cursors)
    BY <1>1, <1>2 DEF QueueInv, WorkShapes
  <2>2. Tail(queue[JobOf(w)]) \in Seq(Cursors)
    BY <2>1, ListedRest
  <2>3. queue' = [queue EXCEPT ![JobOf(w)] = Tail(@)]
    BY <1>1, <1>2 DEF Popped
  <2>4. queue' \in [Jobs -> Seq(Cursors)]
    BY <2>2, <2>3, <1>1 DEF WorkShapes
  <2>5. ASSUME NEW v \in Rebuilders PROVE QueueInv(v)'
    <3>1. CASE v = w
      BY <3>1 DEF QueueInv, At
    <3>2. CASE v # w
      <4>1. task'[v] = task[v]
        BY <3>2 DEF Others
      <4>2. SUFFICES ASSUME ~At(v, "idle"), partition[JobOf(v)] = v PROVE queue'[JobOf(v)] # <<>>
        BY <4>1 DEF QueueInv, At, JobOf
      <4>3. JobOf(v) # JobOf(w) /\ queue[JobOf(v)] # <<>>
        BY <4>2, <3>2, <1>2 DEF QueueInv
      <4> QED
        BY <4>3, <2>3 DEF WorkShapes
    <3> QED
      BY <3>1, <3>2
  <2> QED
    BY <2>4, <2>5
<1>3. CASE partition[JobOf(w)] # w
  <2>1. queue' = queue
    BY <1>1, <1>3 DEF Popped
  <2>2. ASSUME NEW v \in Rebuilders PROVE QueueInv(v)'
    <3>1. task'[v] = task[v] \/ task'[v].pc = "idle"
      BY DEF Others
    <3> QED
      BY <3>1, <2>1 DEF QueueInv, At, JobOf
  <2> QED
    BY <2>1, <2>2 DEF WorkShapes
<1> QED
  BY <1>2, <1>3

\* A move that leaves the partitions alone.
LEMMA QueueKeeps ==
    ASSUME NEW w \in Rebuilders, Others(w), UNCHANGED <<queue, partition>>,
           \A v \in Rebuilders : QueueInv(v),
           task'[w].pc = "idle" \/ (~At(w, "idle") /\ task'[w].job = task[w].job)
    PROVE  \A v \in Rebuilders : QueueInv(v)'
<1> SUFFICES ASSUME NEW v \in Rebuilders PROVE QueueInv(v)'
  OBVIOUS
<1>1. v = w \/ task'[v] = task[v]
  BY DEF Others
<1> QED
  BY <1>1 DEF QueueInv, At, JobOf

\* A request given up, or tried again.
Ended(w) ==
    /\ task' \in [Rebuilders -> PageTasks] /\ Others(w)
    /\ queue' \in [Jobs -> Seq(Cursors)] /\ deadJobs' \subseteq Jobs
    /\ PageInv(w)' /\ CloneInv(w)' /\ \A v \in Rebuilders : QueueInv(v)'

LEMMA DeadLetterEnds ==
    ASSUME RebuildInv, NEW w \in Rebuilders, ~At(w, "idle"), DeadLetter(w), partition' = partition
    PROVE  Ended(w)
<1>1. task' \in [Rebuilders -> PageTasks] /\ Others(w) /\ task'[w].pc = "idle"
  BY NoTaskShape DEF RebuildInv, WorkShapes, DeadLetter, Others
<1>2. queue' \in [Jobs -> Seq(Cursors)] /\ \A v \in Rebuilders : QueueInv(v)'
  BY <1>1, PoppedShapes DEF RebuildInv, DeadLetter
<1>3. deadJobs' \subseteq Jobs
  BY DEF DeadLetter, RebuildInv, WorkShapes, PageInv, JobOf
<1>4. PageInv(w)' /\ CloneInv(w)'
  BY <1>1, QuietHolds DEF Quiet
<1> QED
  BY <1>1, <1>2, <1>3, <1>4 DEF Ended

LEMMA RetryEnds ==
    ASSUME RebuildInv, NEW w \in Rebuilders, ~At(w, "idle"), Retry(w), partition' = partition
    PROVE  Ended(w)
<1>1. CASE task[w].tries + 1 = MaxAttempts
  BY <1>1, DeadLetterEnds DEF Retry
<1>2. CASE task[w].tries + 1 # MaxAttempts
  <2> DEFINE new == Started(task[w].job, task[w].cursor, task[w].tries + 1)
  <2>1. task' = [task EXCEPT ![w] = new] /\ UNCHANGED <<queue, deadJobs>>
    BY <1>2 DEF Retry, Started
  <2>2. task[w] \in PageTasks /\ task[w].job \in Jobs
    BY DEF RebuildInv, WorkShapes, PageInv, JobOf
  <2>3. new \in PageTasks /\ new.pc = "start" /\ new.job = task[w].job
    <3>1. task[w].cursor \in Cursors /\ task[w].tries + 1 \in Nat /\ task[w].job \in Generations
      BY <2>2 DEF PageTasks
    <3> QED
      BY <3>1, StartedTask
  <2>4. task' \in [Rebuilders -> PageTasks] /\ Others(w) /\ task'[w] = new
    BY <2>1, <2>3 DEF RebuildInv, WorkShapes, Others
  <2>5. PageInv(w)' /\ CloneInv(w)'
    BY <2>2, <2>3, <2>4, QuietHolds DEF Quiet
  <2>6. \A v \in Rebuilders : QueueInv(v)'
    BY <2>1, <2>3, <2>4, QueueKeeps DEF RebuildInv
  <2> QED
    BY <2>1, <2>4, <2>5, <2>6 DEF Ended, RebuildInv, WorkShapes
<1> QED
  BY <1>1, <1>2

\* The store stands still.
Steady == UNCHANGED <<fixed, rows, marks, active, job, cp, put, torn, away>>

LEMMA SteadyKeeps ==
    ASSUME RebuildInv, Steady, NEW w \in Rebuilders, Others(w),
           gen' \in [Generations -> {"none", "initializing", "building", "complete"}],
           WorkShapes', PageInv(w)', CloneInv(w)', \A v \in Rebuilders : QueueInv(v)'
    PROVE  RebuildInv'
<1>1. Grows
  BY DEF Steady, Grows, fixed, Cloned
<1>2. StoreShapes'
  BY DEF RebuildInv, StoreShapes, Steady, fixed
<1>3. StoreInv'
  BY DEF RebuildInv, StoreInv, Steady, fixed, MarkedHaveRows, CheckpointsHold, VerifiedIsWhole,
     Whole, Cloned, Accepts
<1>4. ASSUME NEW e \in Live PROVE EventInv(e)'
  BY DEF RebuildInv, EventInv, Steady, fixed, Sound, Listed, HeldBy, Accepts, Registered, Cloned
<1>5. ASSUME NEW v \in Rebuilders PROVE PageInv(v)' /\ CloneInv(v)'
  <2>1. CASE v = w
    BY <2>1
  <2>2. CASE v # w
    <3>1. task'[v] = task[v] /\ PageInv(v) /\ CloneInv(v) /\ WorkShapes
      BY <2>2 DEF Others, RebuildInv
    <3>2. PageInv(v)'
      BY <3>1, <1>1, PageKeeps
    <3>3. CloneInv(v)'
      BY <3>1, <1>1, CloneKeeps DEF Steady, Sound
    <3> QED
      BY <3>2, <3>3
  <2> QED
    BY <2>1, <2>2
<1> QED
  BY <1>2, <1>3, <1>4, <1>5 DEF RebuildInv

\* The same when the request ends.
LEMMA EndedKeeps ==
    ASSUME RebuildInv, NEW w \in Rebuilders, Ended(w), UNCHANGED partition,
           Steady, UNCHANGED <<gen, lease, idem, token, spent>>
    PROVE  RebuildInv'
<1>1. WorkShapes'
  BY DEF RebuildInv, WorkShapes, Ended
<1>2. gen' \in [Generations -> {"none", "initializing", "building", "complete"}]
  BY DEF RebuildInv, StoreShapes
<1> QED
  BY <1>1, <1>2, SteadyKeeps DEF Ended

\* A step that keeps its task but for the step it is at, and the queue.
LEMMA QuietStepKeeps ==
    ASSUME RebuildInv, NEW w \in Rebuilders, ~At(w, "idle"), NEW pc \in Quiet \ {"idle"},
           StepTo(w, pc), Steady, UNCHANGED <<gen, lease, queue, deadJobs, partition, token, spent>>,
           idem' \in [Jobs -> [Cursors -> {"none", "followed", "finalized"}]]
    PROVE  RebuildInv'
<1>1. pc \in TaskSteps /\ pc # "idle" /\ pc \in Quiet
  BY DEF Quiet, TaskSteps
<1>2. /\ task' \in [Rebuilders -> PageTasks] /\ Others(w)
      /\ task'[w].pc = pc /\ task'[w].job = task[w].job
  BY <1>1, StepShapes DEF RebuildInv
<1>3. task[w].job \in Jobs
  BY DEF RebuildInv, PageInv, JobOf
<1>4. PageInv(w)' /\ CloneInv(w)'
  BY <1>1, <1>2, <1>3, QuietHolds
<1>5. \A v \in Rebuilders : QueueInv(v)'
  BY <1>2, QueueKeeps DEF RebuildInv
<1>6. WorkShapes'
  BY <1>2 DEF RebuildInv, WorkShapes
<1>7. gen' \in [Generations -> {"none", "initializing", "building", "complete"}]
  BY DEF RebuildInv, StoreShapes
<1> QED
  BY <1>2, <1>4, <1>5, <1>6, <1>7, SteadyKeeps

\* A step from one stage of a page to another that asks for no more.
LEMMA StageKeeps ==
    ASSUME RebuildInv, NEW w \in Rebuilders, NEW pc \in AfterClone,
           task[w].pc \in AfterClone, pc \notin {"progress", "after", "apply"},
           pc \in Activation => Whole(JobOf(w)),
           task' \in [Rebuilders -> PageTasks], Others(w), task'[w].pc = pc, task'[w].job = task[w].job,
           Steady, UNCHANGED <<lease, queue, deadJobs, partition, token, spent, idem>>,
           gen' \in [Generations -> {"none", "initializing", "building", "complete"}]
    PROVE  RebuildInv'
<1>1. ~At(w, "idle") /\ task[w].job \in Jobs /\ Cloned(task[w].job)
  BY DEF RebuildInv, PageInv, JobOf, At, AfterClone, Activation
<1>2. pc \notin {"idle", "clone", "copy", "copy markers", "mark building"}
  BY DEF AfterClone, Activation
<1>3. Whole(JobOf(w)) => Whole(JobOf(w))'
  <2>1. Whole(task[w].job) => Whole(task[w].job)'
    BY DEF Steady, fixed, Whole, Accepts
  <2> QED
    BY <2>1 DEF JobOf
<1>4. PageInv(w)'
  BY <1>1, <1>2, <1>3 DEF PageInv, JobOf, At, Steady, Cloned
<1>5. CloneInv(w)'
  BY <1>2 DEF CloneInv, JobOf, At
<1>6. \A v \in Rebuilders : QueueInv(v)'
  BY <1>1, QueueKeeps DEF RebuildInv
<1>7. WorkShapes'
  BY DEF RebuildInv, WorkShapes
<1> QED
  BY <1>4, <1>5, <1>6, <1>7, SteadyKeeps

-----------------------------------------------------------------------------
(* Analytics: steps that leave the store alone                             *)

LEMMA TakeStep ==
    ASSUME RebuildInv, NEW w \in Rebuilders, NEW j \in Jobs, Take(w, j)
    PROVE  RebuildInv'
<1> DEFINE new == [NoTask EXCEPT !.pc = "start", !.job = j, !.cursor = queue[j][1]]
<1>1. queue[j] \in Seq(Cursors) /\ queue[j] # <<>> /\ queue[j][1] \in Cursors
  <2>1. queue[j] \in Seq(Cursors) /\ queue[j] # <<>>
    BY DEF RebuildInv, WorkShapes, Take
  <2> QED
    BY <2>1, ListedRest
<1>2. new \in PageTasks /\ new.pc = "start" /\ new.job = j
  BY <1>1, RebuildConstants DEF NoTask, PageTasks, TaskSteps, Generations
<1>3. task' = [task EXCEPT ![w] = new]
  BY DEF Take
<1>4. task' \in [Rebuilders -> PageTasks] /\ Others(w) /\ task'[w] = new
  BY <1>2, <1>3 DEF RebuildInv, WorkShapes, Others
<1>5. PageInv(w)' /\ CloneInv(w)'
  BY <1>2, <1>4, QuietHolds DEF Quiet
<1>6. ASSUME NEW v \in Rebuilders PROVE QueueInv(v)'
  <2>1. v = w \/ task'[v] = task[v]
    BY <1>4 DEF Others
  <2> QED
    BY <2>1, <1>1, <1>2, <1>4 DEF RebuildInv, QueueInv, At, JobOf, Take, onlyTask
<1>7. Steady
  BY DEF Take, onlyTask, Steady, store, recovery, history, fixed
<1>8. WorkShapes'
  BY <1>4 DEF RebuildInv, WorkShapes, Take, onlyTask, recovery
<1>9. gen' \in [Generations -> {"none", "initializing", "building", "complete"}]
  BY DEF RebuildInv, StoreShapes, Take, onlyTask, store
<1> QED
  BY <1>4, <1>5, <1>6, <1>7, <1>8, <1>9, SteadyKeeps

LEMMA OnlyTaskSteady ==
    ASSUME onlyTask
    PROVE  Steady /\ UNCHANGED <<gen, lease, partition, token, spent, idem>>
BY DEF onlyTask, Steady, store, recovery, history

LEMMA NotKafkaSteady ==
    ASSUME notKafka, UNCHANGED <<store, job, cp, lease, history>>
    PROVE  Steady /\ UNCHANGED <<gen, lease, queue, deadJobs, partition, token, spent>>
BY DEF notKafka, Steady, store, history, kafka

\* A request given up or tried again, with nothing else.
LEMMA RetryKeeps ==
    ASSUME RebuildInv, NEW w \in Rebuilders, ~At(w, "idle"), Retry(w) \/ DeadLetter(w),
           Steady, UNCHANGED <<gen, lease, idem, partition, token, spent>>
    PROVE  RebuildInv'
<1>1. Ended(w)
  BY RetryEnds, DeadLetterEnds
<1> QED
  BY <1>1, EndedKeeps

LEMMA LoadIdempotencyStep ==
    ASSUME RebuildInv, NEW w \in Rebuilders, LoadIdempotency(w)
    PROVE  RebuildInv'
<1>1. ~At(w, "idle") /\ UNCHANGED <<queue, deadJobs>> /\ onlyTask
  BY DEF LoadIdempotency, At
<1>2. \E pc \in Quiet \ {"idle"} : StepTo(w, pc)
  <2>1. StepTo(w, "commit") \/ StepTo(w, "publish") \/ StepTo(w, "lease")
    BY DEF LoadIdempotency
  <2> QED
    BY <2>1 DEF Quiet
<1>3. idem' \in [Jobs -> [Cursors -> {"none", "followed", "finalized"}]]
  BY <1>1 DEF RebuildInv, WorkShapes, onlyTask, recovery
<1> QED
  BY <1>1, <1>2, <1>3, OnlyTaskSteady, QuietStepKeeps

LEMMA ReadLeaseStep ==
    ASSUME RebuildInv, NEW w \in Rebuilders, ReadLease(w)
    PROVE  RebuildInv'
<1>1. ~At(w, "idle") /\ onlyTask /\ At(w, "lease")
  BY DEF ReadLease, At
<1>2. CASE Retry(w)
  BY <1>1, <1>2, OnlyTaskSteady, RetryKeeps
<1>3. CASE ~Retry(w)
  <2> DEFINE winners == {t \in Tokens : IsWinner(lease[task[w].job], t)}
             epoch == IF winners = {} THEN 0
                      ELSE lease[task[w].job][CHOOSE t \in winners : TRUE].epoch
  <2>1. task' = [task EXCEPT ![w].pc = "acquire", ![w].epoch = epoch] /\ UNCHANGED <<queue, deadJobs>>
    BY <1>3 DEF ReadLease
  <2>2. task[w].job \in Jobs /\ task[w] \in PageTasks
    BY <1>1 DEF RebuildInv, PageInv, JobOf, WorkShapes
  <2>3. epoch \in Nat
    <3>1. winners # {} => (CHOOSE t \in winners : TRUE) \in Tokens
      OBVIOUS
    <3> HIDE DEF winners
    <3> QED
      BY <3>1, <2>2 DEF RebuildInv, WorkShapes
  <2> HIDE DEF epoch
  <2>4. /\ task' \in [Rebuilders -> PageTasks] /\ Others(w)
        /\ task'[w].pc = "acquire" /\ task'[w].job = task[w].job
    BY <2>1, <2>2, <2>3 DEF RebuildInv, WorkShapes, PageTasks, TaskSteps, Others
  <2>5. PageInv(w)' /\ CloneInv(w)'
    BY <2>2, <2>4, QuietHolds DEF Quiet
  <2>6. Steady /\ UNCHANGED <<gen, lease, partition, token, spent, idem>>
    BY <1>1, OnlyTaskSteady
  <2>7. \A v \in Rebuilders : QueueInv(v)'
    BY <1>1, <2>1, <2>4, <2>6, QueueKeeps DEF RebuildInv
  <2>8. WorkShapes'
    BY <2>1, <2>4, <2>6 DEF RebuildInv, WorkShapes
  <2>9. gen' \in [Generations -> {"none", "initializing", "building", "complete"}]
    BY <2>6 DEF RebuildInv, StoreShapes
  <2> QED
    BY <2>4, <2>5, <2>6, <2>7, <2>8, <2>9, SteadyKeeps
<1> QED
  BY <1>2, <1>3

LEMMA AcquireLeaseStep ==
    ASSUME RebuildInv, NEW w \in Rebuilders, AcquireLease(w)
    PROVE  RebuildInv'
<1>1. ~At(w, "idle") /\ UNCHANGED <<fixed, store, recovery, partition, put, token, spent, history>>
  BY DEF AcquireLease, At
<1>2. lease' \in [Jobs -> [Tokens -> [epoch : Nat, fresh : BOOLEAN]]]
  <2>1. task[w].job \in Jobs /\ task[w].epoch \in Nat /\ token[w] \in Tokens
    BY <1>1 DEF RebuildInv, PageInv, JobOf, WorkShapes, PageTasks
  <2> QED
    BY <2>1 DEF AcquireLease, RebuildInv, WorkShapes
<1>3. Steady /\ UNCHANGED <<gen, idem, partition, token, spent>>
  BY <1>1 DEF Steady, store, recovery, history
<1>4. gen' \in [Generations -> {"none", "initializing", "building", "complete"}]
  BY <1>3 DEF RebuildInv, StoreShapes
<1>5. Ended(w)
  <2>1. CASE Retry(w)
    BY <1>1, <2>1, RetryEnds
  <2>2. CASE StepTo(w, "open") /\ UNCHANGED <<queue, deadJobs>>
    <3>1. /\ task' \in [Rebuilders -> PageTasks] /\ Others(w)
          /\ task'[w].pc = "open" /\ task'[w].job = task[w].job
      BY <2>2, StepShapes DEF RebuildInv, TaskSteps
    <3>2. PageInv(w)' /\ CloneInv(w)'
      BY <1>1, <3>1, QuietHolds DEF Quiet, RebuildInv, PageInv, JobOf
    <3>3. \A v \in Rebuilders : QueueInv(v)'
      BY <1>1, <2>2, <3>1, <1>3, QueueKeeps DEF RebuildInv
    <3> QED
      BY <2>2, <3>1, <3>2, <3>3 DEF Ended, RebuildInv, WorkShapes
  <2> QED
    BY <2>1, <2>2 DEF AcquireLease
<1>6. WorkShapes'
  BY <1>2, <1>3, <1>5 DEF RebuildInv, WorkShapes, Ended
<1> QED
  BY <1>3, <1>4, <1>5, <1>6, SteadyKeeps DEF Ended

LEMMA FetchPageStep ==
    ASSUME RebuildInv, NEW w \in Rebuilders, FetchPage(w)
    PROVE  RebuildInv'
<1>1. ~At(w, "idle") /\ At(w, "fetch") /\ onlyTask
  BY DEF FetchPage, At
<1>2. Steady /\ UNCHANGED <<gen, lease, partition, token, spent, idem>>
  BY <1>1, OnlyTaskSteady
<1>3. CASE DeadLetter(w)
  BY <1>1, <1>2, <1>3, RetryKeeps
<1>4. CASE ~DeadLetter(w)
  <2> DEFINE records == page[task[w].job][task[w].cursor]
  <2>1. /\ task' = [task EXCEPT ![w].pc = "apply", ![w].todo = records]
        /\ UNCHANGED <<queue, deadJobs>> /\ \A e \in records : Reads(e)
    BY <1>4 DEF FetchPage
  <2>2. task[w].job \in Jobs /\ task[w] \in PageTasks /\ Cloned(task[w].job)
    BY <1>1 DEF RebuildInv, PageInv, JobOf, WorkShapes, AfterClone, At
  <2>3. records \subseteq Events
    BY <2>2 DEF RebuildInv, StoreShapes, PageTasks
  <2> HIDE DEF records
  <2>4. /\ task' \in [Rebuilders -> PageTasks] /\ Others(w) /\ task'[w].pc = "apply"
        /\ task'[w].job = task[w].job /\ task'[w].cursor = task[w].cursor /\ task'[w].todo = records
    BY <2>1, <2>2, <2>3 DEF RebuildInv, WorkShapes, PageTasks, TaskSteps, AfterClone, Others
  <2>5. PageInv(w)'
    <3>1. page' = page /\ page[task[w].job][task[w].cursor] = records /\ job' = job
      BY <1>2 DEF Steady, fixed, records
    <3>2. Cloned(JobOf(w))'
      BY <2>2, <2>4, <3>1 DEF Cloned, JobOf
    <3>3. "apply" \notin Activation
      BY DEF Activation
    <3> QED
      BY <2>2, <2>4, <3>1, <3>2, <3>3 DEF PageInv, JobOf, At
  <2>6. CloneInv(w)'
    BY <2>4 DEF CloneInv, At
  <2>7. \A v \in Rebuilders : QueueInv(v)'
    BY <1>1, <1>2, <2>1, <2>4, QueueKeeps DEF RebuildInv
  <2>8. WorkShapes'
    BY <2>1, <2>4, <1>2 DEF RebuildInv, WorkShapes
  <2>9. gen' \in [Generations -> {"none", "initializing", "building", "complete"}]
    BY <1>2 DEF RebuildInv, StoreShapes
  <2> QED
    BY <1>2, <2>4, <2>5, <2>6, <2>7, <2>8, <2>9, SteadyKeeps
<1> QED
  BY <1>3, <1>4

LEMMA RecordFollowUpStep ==
    ASSUME RebuildInv, NEW w \in Rebuilders, RecordFollowUp(w)
    PROVE  RebuildInv'
<1>1. ~At(w, "idle") /\ StepTo(w, "publish") /\ UNCHANGED <<store, job, cp, lease, history>> /\ notKafka
  BY DEF RecordFollowUp, At
<1>2. idem' \in [Jobs -> [Cursors -> {"none", "followed", "finalized"}]]
  BY DEF RecordFollowUp, RebuildInv, WorkShapes
<1>3. "publish" \in Quiet \ {"idle"}
  BY DEF Quiet
<1> QED
  BY <1>1, <1>2, <1>3, NotKafkaSteady, QuietStepKeeps

LEMMA RecordFinalizedStep ==
    ASSUME RebuildInv, NEW w \in Rebuilders, RecordFinalized(w)
    PROVE  RebuildInv'
<1>1. ~At(w, "idle") /\ StepTo(w, "commit") /\ UNCHANGED <<store, job, cp, lease, history>> /\ notKafka
  BY DEF RecordFinalized, At
<1>2. idem' \in [Jobs -> [Cursors -> {"none", "followed", "finalized"}]]
  BY DEF RecordFinalized, RebuildInv, WorkShapes
<1>3. "commit" \in Quiet \ {"idle"}
  BY DEF Quiet
<1> QED
  BY <1>1, <1>2, <1>3, NotKafkaSteady, QuietStepKeeps

LEMMA PublishFollowUpStep ==
    ASSUME RebuildInv, NEW w \in Rebuilders, PublishFollowUp(w)
    PROVE  RebuildInv'
<1> DEFINE next == cp[task[w].job][task[w].cursor].next
<1>1. /\ ~At(w, "idle") /\ StepTo(w, "commit") /\ onlyTask /\ deadJobs' = deadJobs
      /\ queue' = [queue EXCEPT ![task[w].job] = Append(@, next)]
  BY DEF PublishFollowUp, At
<1>2. task[w].job \in Jobs /\ next \in Cursors
  <2>1. task[w].job \in Jobs /\ task[w].cursor \in Cursors
    BY <1>1 DEF RebuildInv, PageInv, JobOf, WorkShapes, PageTasks
  <2> QED
    BY <2>1 DEF RebuildInv, StoreShapes
<1> HIDE DEF next
<1>3. Steady /\ UNCHANGED <<gen, lease, partition, token, spent, idem>>
  BY <1>1, OnlyTaskSteady
<1>4. /\ task' \in [Rebuilders -> PageTasks] /\ Others(w)
      /\ task'[w].pc = "commit" /\ task'[w].job = task[w].job
  BY <1>1, StepShapes DEF RebuildInv, TaskSteps
<1>5. PageInv(w)' /\ CloneInv(w)'
  BY <1>2, <1>4, QuietHolds DEF Quiet
<1>6. queue \in [Jobs -> Seq(Cursors)]
  BY DEF RebuildInv, WorkShapes
<1>7. queue' \in [Jobs -> Seq(Cursors)] /\ \A j \in Jobs : queue[j] # <<>> => queue'[j] # <<>>
  <2>1. Append(queue[task[w].job], next) \in Seq(Cursors) /\ Append(queue[task[w].job], next) # <<>>
    <3>1. queue[task[w].job] \in Seq(Cursors)
      BY <1>2, <1>6
    <3>2. ASSUME NEW s \in Seq(Cursors) PROVE Append(s, next) \in Seq(Cursors) /\ Append(s, next) # <<>>
      BY <1>2
    <3> QED
      BY <3>1, <3>2
  <2> QED
    BY <1>1, <1>2, <1>6, <2>1
<1>8. ASSUME NEW v \in Rebuilders PROVE QueueInv(v)'
  <2>1. /\ At(v, "idle") \/ ~At(v, "idle")'
        /\ task'[v].pc = "idle" \/ (task[v].pc # "idle" /\ task'[v].job = task[v].job)
    BY <1>1, <1>4 DEF Others, At
  <2>2. task[v].pc # "idle" => task[v].job \in Jobs
    BY DEF RebuildInv, PageInv, At, JobOf
  <2> QED
    BY <2>1, <2>2, <1>3, <1>7 DEF RebuildInv, QueueInv, At, JobOf
<1>9. WorkShapes'
  BY <1>1, <1>3, <1>4, <1>7 DEF RebuildInv, WorkShapes
<1>10. gen' \in [Generations -> {"none", "initializing", "building", "complete"}]
  BY <1>3 DEF RebuildInv, StoreShapes
<1> QED
  BY <1>3, <1>4, <1>5, <1>8, <1>9, <1>10, SteadyKeeps

LEMMA CommitRequestStep ==
    ASSUME RebuildInv, NEW w \in Rebuilders, CommitRequest(w)
    PROVE  RebuildInv'
<1>1. ~At(w, "idle") /\ onlyTask /\ deadJobs' = deadJobs
  BY DEF CommitRequest, At
<1>2. Steady /\ UNCHANGED <<gen, lease, partition, token, spent, idem>>
  BY <1>1, OnlyTaskSteady
<1>3. task' \in [Rebuilders -> PageTasks] /\ Others(w) /\ task'[w].pc = "idle"
  BY NoTaskShape DEF RebuildInv, WorkShapes, CommitRequest, Others
<1>4. queue' \in [Jobs -> Seq(Cursors)] /\ \A v \in Rebuilders : QueueInv(v)'
  BY <1>1, <1>2, <1>3, PoppedShapes DEF RebuildInv, CommitRequest
<1>5. PageInv(w)' /\ CloneInv(w)'
  BY <1>3, QuietHolds DEF Quiet
<1>6. WorkShapes'
  BY <1>1, <1>2, <1>3, <1>4 DEF RebuildInv, WorkShapes
<1>7. gen' \in [Generations -> {"none", "initializing", "building", "complete"}]
  BY <1>2 DEF RebuildInv, StoreShapes
<1> QED
  BY <1>2, <1>3, <1>4, <1>5, <1>6, <1>7, SteadyKeeps

LEMMA LoseLeaseStep ==
    ASSUME RebuildInv, NEW w \in Rebuilders, LoseLease(w)
    PROVE  RebuildInv'
<1>1. ~At(w, "idle") /\ Retry(w) /\ onlyTask
  BY DEF LoseLease, At
<1> QED
  BY <1>1, OnlyTaskSteady, RetryKeeps

LEMMA CallFailsStep ==
    ASSUME RebuildInv, NEW w \in Rebuilders, CallFails(w)
    PROVE  RebuildInv'
<1>1. ~At(w, "idle") /\ Retry(w)
      /\ UNCHANGED <<fixed, store, recovery, lease, partition, put, token, spent, history>>
  BY DEF CallFails
<1>2. Steady /\ UNCHANGED <<gen, lease, idem, partition, token, spent>>
  BY <1>1 DEF Steady, store, recovery, history
<1> QED
  BY <1>1, <1>2, RetryKeeps

LEMMA CrashStep ==
    ASSUME RebuildInv, NEW w \in Rebuilders, Crash(w)
    PROVE  RebuildInv'
<1>1. ~At(w, "idle") /\ UNCHANGED <<fixed, store, recovery, lease, kafka, put, history>>
  BY DEF Crash
<1>2. Steady /\ UNCHANGED <<gen, lease, idem, queue, deadJobs, partition>>
  BY <1>1 DEF Steady, store, recovery, history, kafka
<1>3. task' \in [Rebuilders -> PageTasks] /\ Others(w) /\ task'[w].pc = "idle"
  BY NoTaskShape DEF RebuildInv, WorkShapes, Crash, Others
<1>4. PageInv(w)' /\ CloneInv(w)'
  BY <1>3, QuietHolds DEF Quiet
<1>5. token' \in [Rebuilders -> Tokens] /\ spent' \subseteq Tokens
  BY DEF RebuildInv, WorkShapes, Crash
<1>6. WorkShapes'
  BY <1>2, <1>3, <1>5 DEF RebuildInv, WorkShapes
<1>7. gen' \in [Generations -> {"none", "initializing", "building", "complete"}]
  BY <1>2 DEF RebuildInv, StoreShapes
<1>8. \A v \in Rebuilders : QueueInv(v)'
  BY <1>2, <1>3, QueueKeeps DEF RebuildInv
<1> QED
  BY <1>2, <1>3, <1>4, <1>6, <1>7, <1>8, SteadyKeeps

LEMMA JobLeaseExpiresStep ==
    ASSUME RebuildInv, NEW j \in Jobs, JobLeaseExpires(j), NEW w \in Rebuilders
    PROVE  RebuildInv'
<1>1. UNCHANGED <<fixed, store, recovery, kafka, put, task, token, spent, history>>
  BY DEF JobLeaseExpires
<1>2. Steady /\ UNCHANGED <<gen, idem, queue, deadJobs, partition, task, token, spent>>
  BY <1>1 DEF Steady, store, recovery, history, kafka
<1>3. lease' \in [Jobs -> [Tokens -> [epoch : Nat, fresh : BOOLEAN]]]
  <2>1. PICK t \in Tokens : lease' = [lease EXCEPT ![j][t].fresh = FALSE]
    BY DEF JobLeaseExpires
  <2>2. lease \in [Jobs -> [Tokens -> [epoch : Nat, fresh : BOOLEAN]]]
    BY DEF RebuildInv, WorkShapes
  <2>3. lease[j][t] \in [epoch : Nat, fresh : BOOLEAN]
    BY <2>2
  <2>4. [lease[j][t] EXCEPT !.fresh = FALSE] \in [epoch : Nat, fresh : BOOLEAN]
    BY <2>3
  <2> QED
    BY <2>1, <2>2, <2>4
<1>4. WorkShapes'
  BY <1>2, <1>3 DEF RebuildInv, WorkShapes
<1>5. gen' \in [Generations -> {"none", "initializing", "building", "complete"}]
  BY <1>2 DEF RebuildInv, StoreShapes
<1>6. Others(w) /\ Grows
  BY <1>2 DEF Others, Grows, Steady, fixed, Cloned
<1>7. PageInv(w)' /\ CloneInv(w)' /\ \A v \in Rebuilders : QueueInv(v)'
  <2>1. PageInv(w)'
    BY <1>2, <1>6, PageKeeps DEF RebuildInv
  <2>2. CloneInv(w)'
    BY <1>2, <1>6, CloneKeeps DEF RebuildInv, Steady, Sound
  <2>3. \A v \in Rebuilders : QueueInv(v)'
    BY <1>2 DEF RebuildInv, QueueInv, At, JobOf
  <2> QED
    BY <2>1, <2>2, <2>3
<1> QED
  BY <1>2, <1>4, <1>5, <1>6, <1>7, SteadyKeeps

LEMMA RebalanceStep ==
    ASSUME RebuildInv, NEW j \in Jobs, NEW w \in Rebuilders, Rebalance(j, w)
    PROVE  RebuildInv'
<1>1. UNCHANGED <<fixed, store, recovery, lease, queue, deadJobs, put, task, token, spent, history>>
  BY DEF Rebalance
<1>2. Steady /\ UNCHANGED <<gen, idem, lease, queue, deadJobs, task, token, spent>>
  BY <1>1 DEF Steady, store, recovery, history
<1>3. partition' = [partition EXCEPT ![j] = w] /\ task[w].job # j
  BY DEF Rebalance
<1>4. WorkShapes'
  BY <1>2, <1>3 DEF RebuildInv, WorkShapes
<1>5. gen' \in [Generations -> {"none", "initializing", "building", "complete"}]
  BY <1>2 DEF RebuildInv, StoreShapes
<1>6. Others(w) /\ Grows
  BY <1>2 DEF Others, Grows, Steady, fixed, Cloned
<1>7. PageInv(w)'
  BY <1>2, <1>6, PageKeeps DEF RebuildInv
<1>8. CloneInv(w)'
  BY <1>2, <1>6, CloneKeeps DEF RebuildInv, Steady, Sound
<1>9. ASSUME NEW v \in Rebuilders PROVE QueueInv(v)'
  <2>1. ~At(v, "idle") => task[v].job \in Jobs
    BY DEF RebuildInv, PageInv, JobOf
  <2>2. task[v].job = j => v # w
    BY <1>3
  <2> QED
    BY <2>1, <2>2, <1>2, <1>3 DEF RebuildInv, QueueInv, WorkShapes, At, JobOf
<1> QED
  BY <1>2, <1>4, <1>5, <1>6, <1>7, <1>8, <1>9, SteadyKeeps

-----------------------------------------------------------------------------
(* Analytics: steps that write to the store                                *)

LEMMA MoveKeeps ==
    ASSUME RebuildInv, Grows, NEW w \in Rebuilders, Others(w), put' = put, away' = away,
           StoreShapes', WorkShapes', StoreInv', PageInv(w)', CloneInv(w)',
           \A v \in Rebuilders : QueueInv(v)',
           \A e \in Live : Sound(e)' =>
              active' = active \/ e \in rows[active'] \/ active' \in ToSet(put[e].gens),
           \A e \in Live : e \in InFlight \ torn' => Registered' \subseteq Registered,
           \A e \in Live : Sound(e)' /\ put[e].pc = "committed" =>
              \A j \in Jobs \ away[e] : Cloned(j)' => Cloned(j) \/ e \in rows'[j],
           \A v \in Rebuilders : v # w /\ At(v, "copy markers") =>
              \A e \in marks'[Src(v)] \ (marks[Src(v)] \cup torn') : Accepts(e) => e \in rows'[JobOf(v)]
    PROVE  RebuildInv'
<1>1. ASSUME NEW e \in Live PROVE EventInv(e)'
  <2>1. EventInv(e) /\ StoreShapes /\ active' \in Generations /\ put'[e] = put[e] /\ away'[e] = away[e]
    BY DEF RebuildInv, StoreShapes
  <2> QED
    BY <2>1, EventKeeps
<1>2. ASSUME NEW v \in Rebuilders PROVE PageInv(v)' /\ CloneInv(v)'
  <2>1. CASE v = w
    BY <2>1
  <2>2. CASE v # w
    <3>1. task'[v] = task[v] /\ PageInv(v) /\ CloneInv(v) /\ WorkShapes
      BY <2>2 DEF Others, RebuildInv
    <3>2. PageInv(v)'
      BY <3>1, PageKeeps
    <3>3. \A e \in Live : Sound(e)' /\ put'[e].pc = "committed" => put[e].pc = "committed" /\ away'[e] = away[e]
      OBVIOUS
    <3>4. CloneInv(v)'
      BY <3>1, <3>3, <2>2, CloneKeeps
    <3> QED
      BY <3>2, <3>4
  <2> QED
    BY <2>1, <2>2
<1> QED
  BY <1>1, <1>2 DEF RebuildInv

LEMMA StoreKeeps ==
    ASSUME RebuildInv, Grows, MarkedHaveRows', active' = active, cp' = cp,
           \A j \in Jobs : job'[j].status = "complete" => job[j].status = "complete"
    PROVE  StoreInv'
<1>1. CheckpointsHold'
  <2>1. Jobs \subseteq Generations
    BY RebuildConstants
  <2> QED
    BY <2>1 DEF RebuildInv, StoreInv, CheckpointsHold, Grows, fixed, Accepts
<1>2. VerifiedIsWhole'
  <2>1. Whole(active)'
    <3>1. ASSUME NEW g, Whole(g) PROVE Whole(g)'
      BY <3>1, WholeKeeps
    <3>2. Whole(active) /\ \A g : Whole(g) => Whole(g)'
      BY <3>1 DEF RebuildInv, StoreInv, VerifiedIsWhole
    <3> QED
      BY <3>2 DEF Whole
  <2>2. ASSUME NEW j \in Jobs, job'[j].status = "complete" PROVE Whole(j)'
    BY <2>2, WholeKeeps DEF RebuildInv, StoreInv, VerifiedIsWhole
  <2> QED
    BY <2>1, <2>2 DEF VerifiedIsWhole
<1> QED
  BY <1>1, <1>2 DEF StoreInv

\* A write of rows or markers to the generation of the worker's own job.
LEMMA WriteKeeps ==
    ASSUME RebuildInv, NEW w \in Rebuilders, ~At(w, "idle"), Others(w),
           task' \in [Rebuilders -> PageTasks], task'[w].job = task[w].job, task'[w].pc # "idle",
           UNCHANGED <<gen, active, recovery, lease, away>>, notKafka,
           rows' \in [Generations -> SUBSET Events], marks' \in [Generations -> SUBSET Events],
           torn' \subseteq Events, torn \subseteq torn',
           \A g \in Generations : rows[g] \subseteq rows'[g] /\ marks[g] \subseteq marks'[g],
           MarkedHaveRows', PageInv(w)', CloneInv(w)',
           \A v \in Rebuilders : v # w /\ At(v, "copy markers") =>
              \A e \in marks'[Src(v)] \ (marks[Src(v)] \cup torn') : Accepts(e) => e \in rows'[JobOf(v)]
    PROVE  RebuildInv'
<1>1. Grows
  BY DEF Grows, notKafka, fixed, recovery, Cloned
<1>2. StoreInv'
  BY <1>1, StoreKeeps DEF recovery
<1>3. StoreShapes'
  BY DEF RebuildInv, StoreShapes, notKafka, fixed, recovery
<1>4. WorkShapes'
  BY DEF RebuildInv, WorkShapes, notKafka, kafka, recovery
<1>5. \A v \in Rebuilders : QueueInv(v)'
  BY QueueKeeps DEF RebuildInv, notKafka, kafka
<1>6. \A e \in Live : e \in InFlight \ torn' => Registered' \subseteq Registered
  BY DEF Registered, recovery
<1>7. \A e \in Live : Sound(e)' /\ put[e].pc = "committed" =>
              \A j \in Jobs \ away[e] : Cloned(j)' => Cloned(j) \/ e \in rows'[j]
  BY DEF Cloned, recovery
<1>8. put' = put /\ active' = active
  BY DEF notKafka
<1> QED
  BY <1>1, <1>2, <1>3, <1>4, <1>5, <1>6, <1>7, <1>8, MoveKeeps

LEMMA ReadSourceStep ==
    ASSUME RebuildInv, NEW w \in Rebuilders, ReadSource(w)
    PROVE  RebuildInv'
<1>1. ~At(w, "idle") /\ At(w, "clone") /\ onlyTask
  BY DEF ReadSource, At
<1>2. Steady /\ UNCHANGED <<gen, lease, partition, token, spent, idem>>
  BY <1>1, OnlyTaskSteady
<1>3. CASE Retry(w)
  BY <1>1, <1>2, <1>3, RetryKeeps
<1>4. CASE ~Retry(w)
  <2>1. /\ task' = [task EXCEPT ![w].pc = "copy", ![w].src = active]
        /\ active # task[w].job /\ UNCHANGED <<queue, deadJobs>>
    BY <1>4 DEF ReadSource
  <2>2. active \in Generations /\ Whole(active)
    BY DEF RebuildInv, StoreShapes, StoreInv, VerifiedIsWhole
  <2>3. /\ task' \in [Rebuilders -> PageTasks] /\ Others(w) /\ task'[w].pc = "copy"
        /\ task'[w].job = task[w].job /\ task'[w].src = active
    <3>1. task \in [Rebuilders -> PageTasks] /\ task[w] \in PageTasks
      BY DEF RebuildInv, WorkShapes
    <3>2. PICK to : to = [task[w] EXCEPT !.pc = "copy", !.src = active]
      OBVIOUS
    <3>3. to \in PageTasks /\ to.pc = "copy" /\ to.job = task[w].job /\ to.src = active
      BY ONLY <2>2, <3>1, <3>2 DEF PageTasks, TaskSteps
    <3>4. task' = [task EXCEPT ![w] = to]
      BY ONLY <2>1, <3>2
    <3> QED
      BY <3>1, <3>3, <3>4 DEF Others
  <2>4. task[w].job \in Jobs /\ task[w].job \in Registered
    BY <1>1 DEF RebuildInv, PageInv, JobOf, At
  <2>5. PageInv(w)'
    BY <1>2, <2>3, <2>4 DEF PageInv, JobOf, At, AfterClone, Activation, Registered, Steady
  <2>6. CloneInv(w)'
    <3>1. (Whole(Src(w)) /\ Src(w) # JobOf(w))'
      BY <1>2, <2>1, <2>2, <2>3 DEF Whole, Src, JobOf, Steady, fixed, Accepts
    <3>2. ASSUME NEW e \in Live, Sound(e)', put'[e].pc = "committed"
          PROVE  e \in rows'[Src(w)']
      <4>1. Sound(e) /\ put[e].pc = "committed"
        BY <1>2, <3>2 DEF Sound, Listed, Steady, fixed, Accepts
      <4>2. HeldBy(e, active) /\ put[e].gens = <<>>
        BY <4>1 DEF RebuildInv, EventInv
      <4>3. e \in rows[active]
        BY <4>2 DEF HeldBy, ToSet
      <4> QED
        BY <4>3, <1>2, <2>3 DEF Steady, Src
    <3> QED
      BY <3>1, <3>2, <2>3 DEF CloneInv, At
  <2>7. \A v \in Rebuilders : QueueInv(v)'
    BY <1>1, <1>2, <2>1, <2>3, QueueKeeps DEF RebuildInv
  <2>8. WorkShapes'
    BY <2>1, <2>3, <1>2 DEF RebuildInv, WorkShapes
  <2>9. gen' \in [Generations -> {"none", "initializing", "building", "complete"}]
    BY <1>2 DEF RebuildInv, StoreShapes
  <2> QED
    BY <1>2, <2>3, <2>5, <2>6, <2>7, <2>8, <2>9, SteadyKeeps
<1> QED
  BY <1>3, <1>4

LEMMA CloneRowsStep ==
    ASSUME RebuildInv, NEW w \in Rebuilders, CloneRows(w)
    PROVE  RebuildInv'
<1>1. ~At(w, "idle") /\ At(w, "copy") /\ StepTo(w, "copy markers") /\ notKafka
      /\ rows' = [rows EXCEPT ![task[w].job] = @ \cup rows[task[w].src]]
      /\ UNCHANGED <<marks, gen, active, recovery, lease, history>>
  BY DEF CloneRows, At
<1>2. task[w].job \in Jobs /\ task[w].job \in Generations /\ task[w].src \in Generations
      /\ JobOf(w) \in Registered
  BY <1>1, RebuildConstants DEF RebuildInv, PageInv, JobOf, WorkShapes, PageTasks, At
<1>3. /\ task' \in [Rebuilders -> PageTasks] /\ Others(w) /\ task'[w].pc = "copy markers"
      /\ task'[w].job = task[w].job /\ task'[w].src = task[w].src
  BY <1>1, StepShapes DEF RebuildInv, TaskSteps
<1>4. /\ rows \in [Generations -> SUBSET Events] /\ marks \in [Generations -> SUBSET Events]
      /\ torn' = torn /\ away' = away /\ marks' = marks /\ torn \subseteq Events
      /\ put' = put /\ job' = job /\ kind' = kind /\ page' = page /\ cp' = cp
  BY <1>1 DEF RebuildInv, StoreShapes, history, notKafka, recovery, fixed
<1>5. /\ rows' \in [Generations -> SUBSET Events]
      /\ \A g \in Generations : rows[g] \subseteq rows'[g]
      /\ rows'[task[w].job] = rows[task[w].job] \cup rows[task[w].src]
  BY <1>1, <1>2, <1>4
<1>6. MarkedHaveRows'
  BY <1>4, <1>5 DEF RebuildInv, StoreInv, MarkedHaveRows, Accepts
<1>7. PageInv(w)'
  BY <1>2, <1>3, <1>4 DEF PageInv, JobOf, At, AfterClone, Activation, Registered
<1>8. CloneInv(w)'
  <2>1. (Whole(Src(w)) /\ Src(w) # JobOf(w))'
    <3>1. Whole(task[w].src) /\ task[w].src # task[w].job
      BY <1>1 DEF RebuildInv, CloneInv, Src, JobOf, At
    <3> QED
      BY <3>1, <1>3, <1>4 DEF Whole, Src, JobOf, Accepts
  <2>2. ASSUME NEW e \in marks'[Src(w)'] \ torn', Accepts(e) PROVE e \in rows'[JobOf(w)']
    <3>1. e \in marks[task[w].src] \ torn
      BY <2>2, <1>3, <1>4 DEF Src
    <3>2. e \in rows[task[w].src]
      BY <3>1, <2>2, <1>2 DEF RebuildInv, StoreInv, MarkedHaveRows
    <3> QED
      BY <3>2, <1>3, <1>5 DEF JobOf
  <2>3. ASSUME NEW e \in Live, Sound(e)', put'[e].pc = "committed", JobOf(w)' \notin away'[e]
        PROVE  e \in rows'[JobOf(w)']
    <3>1. Sound(e) /\ put[e].pc = "committed" /\ JobOf(w) \notin away[e]
      BY <2>3, <1>3, <1>4 DEF Sound, Listed, JobOf, Accepts
    <3>2. e \in rows[task[w].src] \cup rows[task[w].job]
      BY <3>1, <1>1 DEF RebuildInv, CloneInv, Src, JobOf
    <3> QED
      BY <3>2, <1>3, <1>5 DEF JobOf
  <2> QED
    BY <2>1, <2>2, <2>3, <1>3, <1>4 DEF CloneInv, At, Accepts
<1> QED
  BY <1>1, <1>3, <1>4, <1>5, <1>6, <1>7, <1>8, WriteKeeps

\* The shapes of a worker's step to another one, with the queue untouched.
LEMMA StepWork ==
    ASSUME RebuildInv, NEW w \in Rebuilders, ~At(w, "idle"), NEW pc \in TaskSteps, StepTo(w, pc),
           UNCHANGED <<lease, idem, queue, partition, deadJobs, token, spent>>
    PROVE  /\ WorkShapes' /\ \A v \in Rebuilders : QueueInv(v)'
           /\ task' \in [Rebuilders -> PageTasks] /\ Others(w) /\ task'[w].pc = pc
           /\ task'[w].job = task[w].job /\ task'[w].cursor = task[w].cursor
           /\ task'[w].src = task[w].src
<1>1. /\ task' \in [Rebuilders -> PageTasks] /\ Others(w) /\ task'[w].pc = pc
      /\ task'[w].job = task[w].job /\ task'[w].cursor = task[w].cursor
      /\ task'[w].src = task[w].src
  BY StepShapes DEF RebuildInv
<1>2. \A v \in Rebuilders : QueueInv(v)'
  BY <1>1, QueueKeeps DEF RebuildInv
<1>3. WorkShapes'
  BY <1>1 DEF RebuildInv, WorkShapes
<1> QED
  BY <1>1, <1>2, <1>3

\* A step that changes no generation and no event, only the job's own records.
LEMMA JobKeeps ==
    ASSUME RebuildInv, Grows, NEW w \in Rebuilders, Others(w),
           UNCHANGED <<rows, marks, active, put, torn, away>>, Registered' \subseteq Registered,
           StoreShapes', WorkShapes', StoreInv', PageInv(w)', CloneInv(w)',
           \A v \in Rebuilders : QueueInv(v)',
           \A e \in Live : Sound(e) /\ put[e].pc = "committed" =>
              \A j \in Jobs \ away[e] : Cloned(j)' => Cloned(j) \/ e \in rows[j]
    PROVE  RebuildInv'
<1>1. \A e \in Live : Sound(e)' => Sound(e)
  BY DEF Sound, Listed, Grows, fixed, Accepts
<1>2. \A e \in Live : Sound(e)' =>
              active' = active \/ e \in rows[active'] \/ active' \in ToSet(put[e].gens)
  OBVIOUS
<1>3. \A e \in Live : e \in InFlight \ torn' => Registered' \subseteq Registered
  OBVIOUS
<1>4. \A e \in Live : Sound(e)' /\ put[e].pc = "committed" =>
              \A j \in Jobs \ away[e] : Cloned(j)' => Cloned(j) \/ e \in rows'[j]
  BY <1>1
<1>5. \A v \in Rebuilders : v # w /\ At(v, "copy markers") =>
              \A e \in marks'[Src(v)] \ (marks[Src(v)] \cup torn') : Accepts(e) => e \in rows'[JobOf(v)]
  OBVIOUS
<1>6. put' = put /\ away' = away
  OBVIOUS
<1> QED
  BY <1>2, <1>3, <1>4, <1>5, <1>6, MoveKeeps

LEMMA OpenJobStep ==
    ASSUME RebuildInv, NEW w \in Rebuilders, OpenJob(w)
    PROVE  RebuildInv'
<1> DEFINE j == task[w].job
           c == task[w].cursor
<1>1. /\ ~At(w, "idle") /\ At(w, "open")
      /\ UNCHANGED <<fixed, rows, marks, active, lease, cp, idem, partition, put, token, spent, away>>
  BY DEF OpenJob, At
<1>2. j \in Jobs /\ c \in Cursors /\ task[w] \in PageTasks
  BY <1>1 DEF RebuildInv, PageInv, JobOf, WorkShapes, PageTasks
<1>3. cp[j][c].applied => Cloned(j)
  BY <1>2 DEF RebuildInv, StoreInv, CheckpointsHold
<1>4. CASE Closed(j, c)
  <2>1. DeadLetter(w) /\ UNCHANGED <<job, gen, torn>>
    BY <1>4 DEF OpenJob
  <2> QED
    BY <1>1, <2>1, RetryKeeps DEF Steady
<1>5. CASE ~Closed(j, c)
  <2> DEFINE pc == IF cp[j][c].applied THEN "progress"
                   ELSE IF job[j].status = "building" THEN "fetch" ELSE "clone"
  <2>1. /\ StepTo(w, pc) /\ UNCHANGED <<queue, deadJobs>>
        /\ IF job[j].status = "none" THEN Register(j) ELSE UNCHANGED <<job, gen, torn>>
    BY <1>5 DEF OpenJob
  <2>2. pc \in TaskSteps /\ pc \in {"progress", "fetch", "clone"}
    BY DEF TaskSteps, AfterClone
  <2>3. /\ WorkShapes' /\ \A v \in Rebuilders : QueueInv(v)'
        /\ Others(w) /\ task'[w].pc = pc /\ task'[w].job = j /\ task'[w].cursor = c
    <3> HIDE DEF pc
    <3> QED
      BY <1>1, <2>1, <2>2, StepWork
  <2>4. CloneInv(w)'
    BY <2>2, <2>3 DEF CloneInv, At
  <2>5. CASE job[j].status # "none"
    <3>1. Steady /\ gen' = gen
      BY <1>1, <2>1, <2>5 DEF Steady
    <3>2. PageInv(w)'
      <4>1. pc \in {"progress", "fetch"} => Cloned(j)
        BY <1>3 DEF Cloned
      <4>2. pc = "progress" => cp[j][c].applied
        OBVIOUS
      <4> HIDE DEF pc
      <4> QED
        BY <1>2, <2>2, <2>3, <2>5, <3>1, <4>1, <4>2
        DEF PageInv, JobOf, At, AfterClone, Activation, Registered, Cloned, Steady
    <3>3. gen' \in [Generations -> {"none", "initializing", "building", "complete"}]
      BY <3>1 DEF RebuildInv, StoreShapes
    <3> QED
      BY <2>3, <2>4, <3>1, <3>2, <3>3, SteadyKeeps
  <2>6. CASE job[j].status = "none"
    <3>1. pc = "clone" /\ Register(j)
      BY <1>3, <2>1, <2>6 DEF Cloned
    <3> HIDE DEF pc
    <3>2. /\ job' = [job EXCEPT ![j] = [status |-> "initializing", pages |-> 0]]
          /\ gen' = [gen EXCEPT ![j] = "initializing"] /\ torn' = torn \cup InFlight
      BY <3>1 DEF Register
    <3>3. StoreShapes'
      <4>1. Live \subseteq Events /\ Jobs \subseteq Generations
        BY RebuildConstants
      <4> QED
        BY <1>1, <1>2, <3>2, <4>1 DEF RebuildInv, StoreShapes, InFlight, fixed
    <3>4. Grows
      BY <1>1, <1>2, <2>6, <3>2 DEF RebuildInv, StoreShapes, Grows, Cloned
    <3>5. StoreInv'
      <4>1. MarkedHaveRows'
        BY <1>1, <3>2 DEF RebuildInv, StoreInv, MarkedHaveRows, Accepts, fixed
      <4>2. \A i \in Jobs : job'[i].status = "complete" => job[i].status = "complete"
        BY <1>2, <3>2 DEF RebuildInv, StoreShapes
      <4> QED
        BY <1>1, <3>4, <4>1, <4>2, StoreKeeps
    <3>6. PageInv(w)'
      <4>1. j \in Registered'
        BY <1>2, <3>2 DEF RebuildInv, StoreShapes, Registered
      <4> QED
        BY <1>2, <2>3, <3>1, <4>1 DEF PageInv, JobOf, At, AfterClone, Activation
    <3>7. \A e \in Live : e \in InFlight \ torn' => Registered' \subseteq Registered
      BY <3>2
    <3>8. \A e \in Live : Sound(e)' /\ put[e].pc = "committed" =>
              \A i \in Jobs \ away[e] : Cloned(i)' => Cloned(i) \/ e \in rows'[i]
      BY <1>2, <3>2 DEF RebuildInv, StoreShapes, Cloned
    <3>9. put' = put /\ away' = away /\ active' = active /\ marks' = marks
      BY <1>1
    <3> QED
      BY <2>3, <2>4, <3>3, <3>4, <3>5, <3>6, <3>7, <3>8, <3>9, MoveKeeps
  <2> QED
    BY <2>5, <2>6
<1> QED
  BY <1>4, <1>5

LEMMA CloneMarksStep ==
    ASSUME RebuildInv, NEW w \in Rebuilders, CloneMarks(w)
    PROVE  RebuildInv'
<1> DEFINE j == task[w].job
           copied == marks[task[w].src]
<1>1. ~At(w, "idle") /\ At(w, "copy markers") /\ StepTo(w, "mark building") /\ notKafka
      /\ marks' = [marks EXCEPT ![j] = @ \cup copied]
      /\ torn' = (IF Copied(j) THEN torn \cup (copied \ marks[j]) ELSE torn)
      /\ UNCHANGED <<rows, gen, active, recovery, lease, away>>
  BY DEF CloneMarks, At
<1>2. j \in Jobs /\ j \in Generations /\ task[w].src \in Generations /\ JobOf(w) \in Registered
  BY <1>1, RebuildConstants DEF RebuildInv, PageInv, JobOf, WorkShapes, PageTasks, At
<1>3. /\ task' \in [Rebuilders -> PageTasks] /\ Others(w) /\ task'[w].pc = "mark building"
      /\ task'[w].job = j
  BY <1>1, StepShapes DEF RebuildInv, TaskSteps
<1>4. /\ rows \in [Generations -> SUBSET Events] /\ marks \in [Generations -> SUBSET Events]
      /\ torn \subseteq Events /\ away' = away /\ rows' = rows
      /\ put' = put /\ job' = job /\ kind' = kind /\ page' = page /\ cp' = cp
  BY <1>1 DEF RebuildInv, StoreShapes, notKafka, recovery, fixed
<1>5. /\ marks' \in [Generations -> SUBSET Events] /\ torn \subseteq torn' /\ torn' \subseteq Events
      /\ \A g \in Generations : marks[g] \subseteq marks'[g]
      /\ \A g \in Generations : g # j => marks'[g] = marks[g]
      /\ marks'[j] = marks[j] \cup copied
  BY <1>1, <1>2, <1>4
<1>6. MarkedHaveRows'
  <2> SUFFICES ASSUME NEW g \in Generations, NEW e \in marks'[g] \ torn', Accepts(e)
               PROVE  e \in rows[g]
    BY <1>4 DEF MarkedHaveRows, Accepts
  <2>1. CASE e \in marks[g]
    BY <2>1, <1>5 DEF RebuildInv, StoreInv, MarkedHaveRows
  <2>2. CASE e \notin marks[g]
    <3>1. g = j /\ e \in marks[Src(w)] \ torn
      BY <2>2, <1>5 DEF Src
    <3> QED
      BY <3>1, <1>1 DEF RebuildInv, CloneInv, JobOf
  <2> QED
    BY <2>1, <2>2
<1>7. PageInv(w)'
  BY <1>2, <1>3, <1>4 DEF PageInv, JobOf, At, AfterClone, Activation, Registered
<1>8. CloneInv(w)'
  <2>1. ASSUME NEW e \in Live, Sound(e)', put'[e].pc = "committed", JobOf(w)' \notin away'[e]
        PROVE  e \in rows'[JobOf(w)']
    <3>1. Sound(e) /\ put[e].pc = "committed" /\ JobOf(w) \notin away[e]
      BY <2>1, <1>3, <1>4, <1>5 DEF Sound, Listed, JobOf, Accepts
    <3>2. e \in rows[JobOf(w)]
      BY <3>1, <1>1 DEF RebuildInv, CloneInv, At
    <3> QED
      BY <3>2, <1>3, <1>4 DEF JobOf
  <2> QED
    BY <2>1, <1>3 DEF CloneInv, At
<1>9. ASSUME NEW v \in Rebuilders, v # w, At(v, "copy markers"),
             NEW e \in marks'[Src(v)] \ (marks[Src(v)] \cup torn')
      PROVE  FALSE
  <2>1. Src(v) \in Generations
    BY DEF RebuildInv, WorkShapes, PageTasks, Src
  <2>2. Src(v) = j /\ e \in copied \ marks[j]
    BY <1>5, <1>9, <2>1
  <2>3. Copied(j)
    BY <1>9, <2>2 DEF Copied, At, Src
  <2> QED
    BY <1>1, <1>9, <2>2, <2>3
<1>10. \A g \in Generations : rows[g] \subseteq rows'[g]
  BY <1>4
<1> QED
  BY <1>1, <1>3, <1>4, <1>5, <1>6, <1>7, <1>8, <1>9, <1>10, WriteKeeps

LEMMA MarkBuildingStep ==
    ASSUME RebuildInv, NEW w \in Rebuilders, MarkBuilding(w)
    PROVE  RebuildInv'
<1> DEFINE j == task[w].job
<1>1. /\ ~At(w, "idle") /\ At(w, "mark building") /\ StepTo(w, "fetch")
      /\ gen' = [gen EXCEPT ![j] = "building"] /\ job' = [job EXCEPT ![j].status = "building"]
      /\ UNCHANGED <<rows, marks, active, cp, idem, lease, history>> /\ notKafka
  BY DEF MarkBuilding, At
<1>2. j \in Jobs /\ j \in Registered /\ j \in Generations
  BY <1>1, RebuildConstants DEF RebuildInv, PageInv, JobOf, At
<1>3. UNCHANGED <<fixed, rows, marks, active, cp, put, torn, away>>
      /\ UNCHANGED <<lease, idem, queue, partition, deadJobs, token, spent>>
  BY <1>1 DEF notKafka, kafka, history
<1>4. /\ WorkShapes' /\ \A v \in Rebuilders : QueueInv(v)'
      /\ Others(w) /\ task'[w].pc = "fetch" /\ task'[w].job = j
  BY <1>1, <1>3, StepWork DEF TaskSteps, AfterClone
<1>5. /\ job \in [Jobs -> [status : {"none", "initializing", "building", "complete", "quarantined"},
                           pages : Nat]]
      /\ job' \in [Jobs -> [status : {"none", "initializing", "building", "complete", "quarantined"},
                           pages : Nat]]
      /\ job'[j].status = "building" /\ \A i \in Jobs : i # j => job'[i] = job[i]
  BY <1>1, <1>2 DEF RebuildInv, StoreShapes
<1>6. Grows /\ Registered' \subseteq Registered
  BY <1>2, <1>3, <1>5 DEF Grows, Cloned, Registered
<1>7. StoreShapes'
  BY <1>1, <1>2, <1>3, <1>5 DEF RebuildInv, StoreShapes, fixed
<1>8. StoreInv'
  <2>1. MarkedHaveRows'
    BY <1>3 DEF RebuildInv, StoreInv, MarkedHaveRows, Accepts, fixed
  <2>2. \A i \in Jobs : job'[i].status = "complete" => job[i].status = "complete"
    BY <1>5
  <2> QED
    BY <1>3, <1>6, <2>1, <2>2, StoreKeeps
<1>9. PageInv(w)' /\ CloneInv(w)'
  <2>1. Cloned(j)'
    BY <1>4, <1>5 DEF Cloned
  <2> QED
    BY <1>2, <1>4, <2>1 DEF PageInv, CloneInv, JobOf, At, AfterClone, Activation, Cloned
<1>10. ASSUME NEW e \in Live, Sound(e), put[e].pc = "committed", NEW i \in Jobs \ away[e], Cloned(i)'
       PROVE  Cloned(i) \/ e \in rows[i]
  <2>1. CASE i = j
    BY <1>1, <1>10, <2>1 DEF RebuildInv, CloneInv, JobOf, At
  <2>2. CASE i # j
    BY <1>5, <1>10, <2>2 DEF Cloned
  <2> QED
    BY <2>1, <2>2
<1> QED
  BY <1>3, <1>4, <1>6, <1>7, <1>8, <1>9, <1>10, JobKeeps

LEMMA ApplyRecordStep ==
    ASSUME RebuildInv, NEW w \in Rebuilders, ApplyRecord(w)
    PROVE  RebuildInv'
<1> DEFINE j == task[w].job
           records == page[j][task[w].cursor]
<1>1. PICK e \in task[w].todo :
        /\ task' = [task EXCEPT ![w].todo = @ \ {e}, ![w].bad = @ \/ ~Accepts(e)]
        /\ rows' = (IF e \in marks[j] THEN rows ELSE [rows EXCEPT ![j] = @ \cup ProjectionRows(e)])
        /\ marks' = [marks EXCEPT ![j] = @ \cup {e}]
  BY DEF ApplyRecord
<1>2. /\ ~At(w, "idle") /\ At(w, "apply") /\ notKafka
      /\ UNCHANGED <<gen, active, recovery, lease, history>>
  BY DEF ApplyRecord, At
<1>3. /\ j \in Jobs /\ j \in Generations /\ task[w] \in PageTasks /\ Cloned(j)
      /\ task[w].todo \subseteq records /\ records \ task[w].todo \subseteq marks[j]
      /\ task[w].bad \/ \A x \in records \ task[w].todo : Accepts(x)
  <2>1. PageInv(w) /\ task[w] \in PageTasks /\ At(w, "apply") /\ ~At(w, "idle")
    BY <1>2 DEF RebuildInv, WorkShapes
  <2>2. "apply" \in AfterClone
    BY DEF AfterClone
  <2> QED
    BY <2>1, <2>2, RebuildConstants DEF PageInv, JobOf, At
<1>4. e \in Events /\ task[w].todo \subseteq Events
  BY <1>3 DEF PageTasks
<1>5. /\ task' \in [Rebuilders -> PageTasks] /\ Others(w) /\ task'[w].pc = "apply"
      /\ task'[w].job = j /\ task'[w].cursor = task[w].cursor
      /\ task'[w].todo = task[w].todo \ {e} /\ task'[w].bad = (task[w].bad \/ ~Accepts(e))
  <2>1. task \in [Rebuilders -> PageTasks] /\ task[w].todo \ {e} \in SUBSET Events
        /\ (task[w].bad \/ ~Accepts(e)) \in BOOLEAN
    BY <1>4 DEF RebuildInv, WorkShapes, Accepts
  <2> DEFINE b == task[w].bad \/ ~Accepts(e)
             new == [task[w] EXCEPT !.todo = @ \ {e}, !.bad = b]
  <2>2. task' = [task EXCEPT ![w] = new]
    BY <1>1
  <2> HIDE DEF b
  <2>3. new \in PageTasks /\ new.pc = task[w].pc /\ new.job = j /\ new.cursor = task[w].cursor
        /\ new.todo = task[w].todo \ {e} /\ new.bad = b
    BY <1>3, <2>1 DEF PageTasks, b
  <2> HIDE DEF new
  <2>4. task' \in [Rebuilders -> PageTasks] /\ Others(w) /\ task'[w] = new
    BY <2>1, <2>2, <2>3 DEF Others
  <2> QED
    BY <1>2, <2>3, <2>4 DEF At, b
<1>6. /\ rows \in [Generations -> SUBSET Events] /\ marks \in [Generations -> SUBSET Events]
      /\ torn \subseteq Events /\ torn' = torn /\ away' = away
      /\ put' = put /\ job' = job /\ kind' = kind /\ page' = page /\ cp' = cp
  BY <1>2 DEF RebuildInv, StoreShapes, notKafka, recovery, fixed, history
<1>7. /\ marks' \in [Generations -> SUBSET Events] /\ rows' \in [Generations -> SUBSET Events]
      /\ \A g \in Generations : marks[g] \subseteq marks'[g] /\ rows[g] \subseteq rows'[g]
      /\ \A g \in Generations : g # j => marks'[g] = marks[g]
      /\ marks'[j] = marks[j] \cup {e}
      /\ Accepts(e) /\ e \notin marks[j] => e \in rows'[j]
  <2>1. ProjectionRows(e) \subseteq Events /\ (Accepts(e) => e \in ProjectionRows(e))
    BY <1>4 DEF ProjectionRows
  <2> QED
    BY <1>1, <1>3, <1>4, <1>6, <2>1
<1>8. MarkedHaveRows'
  <2> SUFFICES ASSUME NEW g \in Generations, NEW x \in marks'[g] \ torn, Accepts(x)
               PROVE  x \in rows'[g]
    BY <1>6 DEF MarkedHaveRows, Accepts
  <2>1. CASE x \in marks[g]
    <3>1. x \in rows[g]
      BY <2>1 DEF RebuildInv, StoreInv, MarkedHaveRows
    <3> QED
      BY <3>1, <1>7
  <2>2. CASE x \notin marks[g]
    BY <2>2, <1>7
  <2> QED
    BY <2>1, <2>2
<1>9. PageInv(w)'
  <2>1. /\ task'[w].todo \subseteq records /\ records \ task'[w].todo \subseteq marks'[j]
        /\ task'[w].bad \/ \A x \in records \ task'[w].todo : Accepts(x)
    BY <1>3, <1>5, <1>7
  <2>2. "apply" \notin Activation \cup {"idle", "clone", "copy", "copy markers", "mark building", "progress", "after"}
    BY DEF Activation
  <2> QED
    BY <1>3, <1>5, <1>6, <2>1, <2>2 DEF PageInv, JobOf, At, Cloned, Accepts
<1>10. CloneInv(w)'
  BY <1>5 DEF CloneInv, At
<1>11. ASSUME NEW v \in Rebuilders, v # w, At(v, "copy markers")
       PROVE  marks'[Src(v)] = marks[Src(v)]
  <2>1. Src(v) \in Generations /\ Whole(Src(v))
    BY <1>11 DEF RebuildInv, WorkShapes, PageTasks, CloneInv, Src, At
  <2>2. CASE Src(v) = j
    <3>1. e \in marks[j]
      BY <1>3, <2>1, <2>2 DEF Whole, PageTasks
    <3> QED
      BY <3>1, <2>2, <1>7
  <2>3. CASE Src(v) # j
    BY <2>1, <2>3, <1>7
  <2> QED
    BY <2>2, <2>3
<1>12. torn \subseteq torn' /\ torn' \subseteq Events /\ task'[w].job = task[w].job /\ task'[w].pc # "idle"
       /\ UNCHANGED <<gen, active, recovery, lease, away>>
  BY <1>2, <1>5, <1>6
<1> QED
  BY <1>2, <1>5, <1>7, <1>8, <1>9, <1>10, <1>11, <1>12, WriteKeeps

LEMMA PersistPageStep ==
    ASSUME RebuildInv, NEW w \in Rebuilders, PersistPage(w)
    PROVE  RebuildInv'
<1> DEFINE j == task[w].job
           c == task[w].cursor
           new == [index |-> PageIndex(j, c), next |-> NextCursor(c), bad |-> task[w].bad, applied |-> TRUE]
<1>1. /\ ~At(w, "idle") /\ At(w, "apply") /\ task[w].todo = {}
      /\ cp' = [cp EXCEPT ![j][c] = new]
      /\ IF task[w].bad
         THEN job' = [job EXCEPT ![j].status = "quarantined"] /\ DeadLetter(w)
         ELSE job' = job /\ StepTo(w, "progress") /\ UNCHANGED <<queue, deadJobs>>
      /\ UNCHANGED <<fixed, store, lease, idem, partition, put, token, spent, history>>
  BY DEF PersistPage, At
<1>2. /\ j \in Jobs /\ c \in Cursors /\ task[w] \in PageTasks /\ Cloned(j)
      /\ page[j][c] \subseteq marks[j]
      /\ task[w].bad \/ \A x \in page[j][c] : Accepts(x)
  <2>1. PageInv(w) /\ task[w] \in PageTasks /\ At(w, "apply") /\ ~At(w, "idle") /\ task[w].todo = {}
    BY <1>1 DEF RebuildInv, WorkShapes
  <2>2. "apply" \in AfterClone
    BY DEF AfterClone
  <2>3. j \in Jobs /\ c \in Cursors /\ Cloned(j)
    BY <2>1, <2>2 DEF PageInv, JobOf, At, PageTasks
  <2>4. page[j][c] \ {} \subseteq marks[j] /\ (task[w].bad \/ \A x \in page[j][c] \ {} : Accepts(x))
    BY <2>1 DEF PageInv, JobOf
  <2> QED
    BY <2>1, <2>3, <2>4
<1>3. /\ kind' = kind /\ page' = page /\ rows' = rows /\ marks' = marks /\ gen' = gen
      /\ active' = active /\ put' = put /\ torn' = torn /\ away' = away
  BY <1>1 DEF fixed, store, history
<1>4. new \in [index : Nat, next : Cursors, bad : BOOLEAN, applied : BOOLEAN]
      /\ new.applied /\ new.next = NextCursor(c) /\ new.bad = task[w].bad
  <2>1. PageIndex(j, c) \in Nat
    BY <1>2 DEF PageIndex, RebuildInv, StoreShapes
  <2>2. NextCursor(c) \in Cursors /\ task[w].bad \in BOOLEAN
    BY <1>2, RebuildConstants DEF PageTasks
  <2> QED
    BY <2>1, <2>2
<1> HIDE DEF new
<1>5. /\ cp' \in [Jobs -> [Cursors -> [index : Nat, next : Cursors, bad : BOOLEAN, applied : BOOLEAN]]]
      /\ cp'[j][c] = new
      /\ \A i \in Jobs : \A d \in Cursors : i # j \/ d # c => cp'[i][d] = cp[i][d]
  BY <1>1, <1>2, <1>4 DEF RebuildInv, StoreShapes
<1>6. /\ job' \in [Jobs -> [status : {"none", "initializing", "building", "complete", "quarantined"},
                           pages : Nat]]
      /\ \A i \in Jobs : Cloned(i)' <=> Cloned(i)
      /\ \A i \in Jobs : job[i].status # "none" <=> job'[i].status # "none"
      /\ \A i \in Jobs : job'[i].status = "complete" => job[i].status = "complete"
  <2>1. /\ job \in [Jobs -> [status : {"none", "initializing", "building", "complete", "quarantined"},
                             pages : Nat]]
        /\ job' = job \/ job' = [job EXCEPT ![j].status = "quarantined"]
    BY <1>1 DEF RebuildInv, StoreShapes
  <2>2. CASE job' = job
    BY <2>1, <2>2 DEF Cloned
  <2>3. CASE job' = [job EXCEPT ![j].status = "quarantined"]
    <3>1. job[j] \in [status : {"none", "initializing", "building", "complete", "quarantined"}, pages : Nat]
      BY <2>1, <1>2
    <3>2. /\ job' \in [Jobs -> [status : {"none", "initializing", "building", "complete", "quarantined"},
                             pages : Nat]]
          /\ job'[j].status = "quarantined" /\ \A i \in Jobs : i # j => job'[i] = job[i]
      BY <2>1, <2>3, <3>1, <1>2
    <3>3. job[j].status \in {"building", "complete", "quarantined"}
      BY <1>2 DEF Cloned
    <3> QED
      BY <3>2, <3>3 DEF Cloned
  <2> QED
    BY <2>1, <2>2, <2>3
<1>7. Grows /\ Registered' \subseteq Registered
  BY <1>3, <1>4, <1>5, <1>6 DEF Grows, Registered, fixed
<1>8. StoreShapes'
  BY <1>3, <1>5, <1>6 DEF RebuildInv, StoreShapes
<1>9. StoreInv'
  <2>1. MarkedHaveRows'
    BY <1>3 DEF RebuildInv, StoreInv, MarkedHaveRows, Accepts
  <2>2. CheckpointsHold'
    <3> SUFFICES ASSUME NEW i \in Jobs, NEW d \in Cursors, cp'[i][d].applied
                 PROVE  /\ Cloned(i) /\ cp'[i][d].next = NextCursor(d) /\ page[i][d] \subseteq marks[i]
                        /\ cp'[i][d].bad \/ \A x \in page[i][d] : Accepts(x)
      BY <1>3, <1>6 DEF CheckpointsHold, Accepts
    <3>1. CASE i = j /\ d = c
      BY <3>1, <1>2, <1>4, <1>5
    <3>2. CASE i # j \/ d # c
      BY <3>2, <1>5 DEF RebuildInv, StoreInv, CheckpointsHold
    <3> QED
      BY <3>1, <3>2
  <2>3. VerifiedIsWhole'
    <3>1. ASSUME NEW g, Whole(g) PROVE Whole(g)'
      BY <1>7, <3>1, WholeKeeps
    <3>2. Whole(active)'
      BY <3>1, <1>3 DEF RebuildInv, StoreInv, VerifiedIsWhole, Whole
    <3>3. ASSUME NEW i \in Jobs, job'[i].status = "complete" PROVE Whole(i)'
      <4>1. Whole(i)
        BY <3>3, <1>6 DEF RebuildInv, StoreInv, VerifiedIsWhole
      <4> QED
        BY <4>1, <1>7, WholeKeeps
    <3> QED
      BY <3>2, <3>3 DEF VerifiedIsWhole
  <2> QED
    BY <2>1, <2>2, <2>3 DEF StoreInv
<1>10. /\ WorkShapes' /\ \A v \in Rebuilders : QueueInv(v)'
       /\ Others(w) /\ PageInv(w)' /\ CloneInv(w)'
  <2>1. CASE task[w].bad
    <3>1. Ended(w)
      BY <1>1, <2>1, DeadLetterEnds
    <3>2. WorkShapes'
      BY <1>1, <3>1 DEF Ended, RebuildInv, WorkShapes
    <3> QED
      BY <3>1, <3>2 DEF Ended
  <2>2. CASE ~task[w].bad
    <3>1. StepTo(w, "progress") /\ UNCHANGED <<lease, idem, queue, partition, deadJobs, token, spent>>
      BY <1>1, <2>2
    <3>2. "progress" \in TaskSteps /\ "progress" \in AfterClone
      BY DEF TaskSteps, AfterClone
    <3>3. /\ WorkShapes' /\ \A v \in Rebuilders : QueueInv(v)'
          /\ Others(w) /\ task'[w].pc = "progress" /\ task'[w].job = j /\ task'[w].cursor = c
      BY <1>1, <3>1, <3>2, StepWork
    <3>4. Cloned(j) /\ \A i \in Jobs : Cloned(i) => job'[i].status \in {"building", "complete", "quarantined"}
      BY <1>2, <1>6 DEF Cloned
    <3>5. PageInv(w)'
      BY <1>2, <1>4, <1>5, <3>3, <3>4 DEF PageInv, JobOf, At, Cloned, AfterClone, Activation
    <3>6. CloneInv(w)'
      BY <3>3 DEF CloneInv, At
    <3> QED
      BY <3>3, <3>5, <3>6
  <2> QED
    BY <2>1, <2>2
<1>11. \A e \in Live : Sound(e) /\ put[e].pc = "committed" =>
              \A i \in Jobs \ away[e] : Cloned(i)' => Cloned(i) \/ e \in rows[i]
  BY <1>6
<1> QED
  BY <1>3, <1>7, <1>8, <1>9, <1>10, <1>11, JobKeeps

LEMMA ProgressStep ==
    ASSUME RebuildInv, NEW w \in Rebuilders, Progress(w)
    PROVE  RebuildInv'
<1> DEFINE j == task[w].job
           c == task[w].cursor
           index == cp[j][c].index
<1>1. /\ ~At(w, "idle") /\ At(w, "progress") /\ StepTo(w, "after") /\ notKafka
      /\ job' = [job EXCEPT ![j] =
                  [status |-> IF @.status = "initializing" THEN "building" ELSE @.status,
                   pages |-> IF @.pages < index + 1 THEN index + 1 ELSE @.pages]]
      /\ UNCHANGED <<store, cp, idem, lease, history>>
  BY DEF Progress, At
<1>2. j \in Jobs /\ c \in Cursors /\ Cloned(j) /\ cp[j][c].applied
  <2>1. PageInv(w) /\ task[w] \in PageTasks
    BY DEF RebuildInv, WorkShapes
  <2> QED
    BY <1>1, <2>1 DEF PageInv, JobOf, At, PageTasks, AfterClone
<1>3. /\ kind' = kind /\ page' = page /\ rows' = rows /\ marks' = marks /\ gen' = gen
      /\ active' = active /\ put' = put /\ torn' = torn /\ away' = away /\ cp' = cp
      /\ UNCHANGED <<lease, idem, queue, partition, deadJobs, token, spent>>
  BY <1>1 DEF fixed, store, history, notKafka, kafka
<1>4. /\ WorkShapes' /\ \A v \in Rebuilders : QueueInv(v)'
      /\ Others(w) /\ task'[w].pc = "after" /\ task'[w].job = j /\ task'[w].cursor = c
  BY <1>1, <1>3, StepWork DEF TaskSteps, AfterClone
<1>5. /\ job' \in [Jobs -> [status : {"none", "initializing", "building", "complete", "quarantined"},
                           pages : Nat]]
      /\ \A i \in Jobs : job'[i].status = job[i].status
  <2>1. /\ job \in [Jobs -> [status : {"none", "initializing", "building", "complete", "quarantined"},
                           pages : Nat]]
        /\ index \in Nat
    BY <1>2 DEF RebuildInv, StoreShapes
  <2>2. job[j].status # "initializing"
    BY <1>2 DEF Cloned
  <2> HIDE DEF index
  <2> QED
    BY <1>1, <1>2, <2>1, <2>2
<1>6. Grows /\ Registered' \subseteq Registered
  BY <1>3, <1>5 DEF Grows, Cloned, Registered, fixed
<1>7. StoreShapes'
  BY <1>3, <1>5 DEF RebuildInv, StoreShapes
<1>8. StoreInv'
  <2>1. MarkedHaveRows'
    BY <1>3 DEF RebuildInv, StoreInv, MarkedHaveRows, Accepts
  <2> QED
    BY <1>3, <1>5, <1>6, <2>1, StoreKeeps
<1>9. PageInv(w)' /\ CloneInv(w)'
  BY <1>2, <1>3, <1>4, <1>5 DEF PageInv, CloneInv, JobOf, At, Activation, Cloned
<1>10. \A e \in Live : Sound(e) /\ put[e].pc = "committed" =>
              \A i \in Jobs \ away[e] : Cloned(i)' => Cloned(i) \/ e \in rows[i]
  BY <1>5 DEF Cloned
<1> QED
  BY <1>3, <1>4, <1>6, <1>7, <1>8, <1>9, <1>10, JobKeeps

-----------------------------------------------------------------------------
(* Analytics: the activation                                               *)

LEMMA VerifyPagesStep ==
    ASSUME RebuildInv, NEW w \in Rebuilders, VerifyPages(w)
    PROVE  RebuildInv'
<1> DEFINE j == task[w].job
<1>1. ~At(w, "idle") /\ At(w, "after") /\ onlyTask
  BY DEF VerifyPages, At
<1>2. Steady /\ UNCHANGED <<gen, lease, partition, token, spent, idem>>
  BY <1>1, OnlyTaskSteady
<1>3. j \in Jobs /\ task[w] \in PageTasks /\ task[w].pc \in AfterClone
  BY <1>1 DEF RebuildInv, PageInv, JobOf, WorkShapes, At, AfterClone
<1>4. gen' \in [Generations -> {"none", "initializing", "building", "complete"}]
  BY <1>2 DEF RebuildInv, StoreShapes
<1>5. CASE DeadLetter(w)
  BY <1>1, <1>2, <1>5, RetryKeeps
<1>6. CASE job[j].status = "complete" /\ StepTo(w, "finish") /\ UNCHANGED <<queue, deadJobs>>
  <2>1. Whole(JobOf(w))
    BY <1>3, <1>6 DEF RebuildInv, StoreInv, VerifiedIsWhole, JobOf
  <2>2. "finish" \in AfterClone /\ "finish" \in TaskSteps
    BY DEF AfterClone, TaskSteps, Activation
  <2>3. /\ task' \in [Rebuilders -> PageTasks] /\ Others(w)
        /\ task'[w].pc = "finish" /\ task'[w].job = task[w].job
    BY <1>6, <2>2, StepShapes DEF RebuildInv
  <2> QED
    BY <1>2, <1>3, <1>4, <1>6, <2>1, <2>2, <2>3, StageKeeps
<1>7. CASE /\ Reconciled(j)
           /\ task' = [task EXCEPT ![w].pc = "complete", ![w].pages = job[j].pages]
           /\ UNCHANGED <<queue, deadJobs>>
  <2>1. Whole(JobOf(w))
    <3>1. Applied(j) = Cursors
      BY <1>3, <1>7, ChainIsWhole DEF RebuildInv, StoreInv, Reconciled
    <3>2. \A c \in Cursors : cp[j][c].applied /\ ~cp[j][c].bad
      BY <3>1, <1>7 DEF Reconciled, Applied
    <3> QED
      BY <1>3, <3>2 DEF RebuildInv, StoreInv, CheckpointsHold, Whole, JobOf
  <2>2. "complete" \in AfterClone /\ "complete" \in TaskSteps
    BY DEF AfterClone, TaskSteps, Activation
  <2>3. job[j].pages \in Nat
    BY <1>3 DEF RebuildInv, StoreShapes
  <2>4. /\ task' \in [Rebuilders -> PageTasks] /\ Others(w)
        /\ task'[w].pc = "complete" /\ task'[w].job = task[w].job
    BY <1>3, <1>7, <2>2, <2>3 DEF RebuildInv, WorkShapes, PageTasks, Others
  <2> QED
    BY <1>2, <1>3, <1>4, <1>7, <2>1, <2>2, <2>4, StageKeeps
<1> QED
  BY <1>5, <1>6, <1>7 DEF VerifyPages

LEMMA CompleteGenerationStep ==
    ASSUME RebuildInv, NEW w \in Rebuilders, CompleteGeneration(w)
    PROVE  RebuildInv'
<1>1. /\ task[w].pc = "complete" /\ StepTo(w, "switch") /\ notKafka
      /\ gen' = [gen EXCEPT ![task[w].job] = "complete"]
      /\ UNCHANGED <<rows, marks, active, recovery, lease, history>>
  BY DEF CompleteGeneration, At
<1>2. Steady /\ UNCHANGED <<lease, queue, deadJobs, partition, token, spent, idem>>
  BY <1>1 DEF notKafka, Steady, kafka, history, recovery
<1>3. task[w].pc \in AfterClone /\ task[w].pc \in Activation
      /\ "switch" \in AfterClone /\ "switch" \in TaskSteps
  BY <1>1 DEF AfterClone, TaskSteps, Activation
<1>4. Whole(JobOf(w))
  BY <1>3 DEF RebuildInv, PageInv
<1>5. /\ task' \in [Rebuilders -> PageTasks] /\ Others(w)
      /\ task'[w].pc = "switch" /\ task'[w].job = task[w].job
  BY <1>1, <1>3, StepShapes DEF RebuildInv
<1>6. gen' \in [Generations -> {"none", "initializing", "building", "complete"}]
  BY <1>1 DEF RebuildInv, StoreShapes
<1> QED
  BY <1>2, <1>3, <1>4, <1>5, <1>6, StageKeeps

LEMMA ReadBackActiveStep ==
    ASSUME RebuildInv, NEW w \in Rebuilders, ReadBackActive(w)
    PROVE  RebuildInv'
<1>1. ~At(w, "idle") /\ task[w].pc = "read back" /\ onlyTask
  BY DEF ReadBackActive, At
<1>2. Steady /\ UNCHANGED <<gen, lease, partition, token, spent, idem>>
  BY <1>1, OnlyTaskSteady
<1>3. CASE DeadLetter(w)
  BY <1>1, <1>2, <1>3, RetryKeeps
<1>4. CASE StepTo(w, "close") /\ UNCHANGED <<queue, deadJobs>>
  <2>1. task[w].pc \in AfterClone /\ task[w].pc \in Activation
        /\ "close" \in AfterClone /\ "close" \in TaskSteps
    BY <1>1 DEF AfterClone, TaskSteps, Activation
  <2>2. Whole(JobOf(w))
    BY <2>1 DEF RebuildInv, PageInv
  <2>3. /\ task' \in [Rebuilders -> PageTasks] /\ Others(w)
        /\ task'[w].pc = "close" /\ task'[w].job = task[w].job
    BY <1>4, <2>1, StepShapes DEF RebuildInv
  <2>4. gen' \in [Generations -> {"none", "initializing", "building", "complete"}]
    BY <1>2 DEF RebuildInv, StoreShapes
  <2> QED
    BY <1>2, <1>4, <2>1, <2>2, <2>3, <2>4, StageKeeps
<1> QED
  BY <1>3, <1>4 DEF ReadBackActive

LEMMA SwitchActiveGenerationStep ==
    ASSUME RebuildInv, NEW w \in Rebuilders, SwitchActiveGeneration(w)
    PROVE  RebuildInv'
<1> DEFINE j == task[w].job
<1>1. /\ ~At(w, "idle") /\ task[w].pc = "switch" /\ StepTo(w, "read back") /\ notKafka
      /\ active' = j /\ torn' = torn \cup {e \in Listed : j \in away[e]}
      /\ UNCHANGED <<rows, marks, gen, recovery, lease, away>>
  BY DEF SwitchActiveGeneration, At
<1>2. task[w].pc \in AfterClone /\ task[w].pc \in Activation
      /\ "read back" \in AfterClone /\ "read back" \in TaskSteps /\ "read back" \in Activation
  BY <1>1 DEF AfterClone, TaskSteps, Activation
<1>3. j \in Jobs /\ j \in Generations /\ Whole(j) /\ Cloned(j)
  BY <1>1, <1>2, RebuildConstants DEF RebuildInv, PageInv, JobOf
<1>4. /\ kind' = kind /\ page' = page /\ rows' = rows /\ marks' = marks /\ gen' = gen
      /\ job' = job /\ cp' = cp /\ put' = put /\ away' = away
      /\ UNCHANGED <<lease, idem, queue, partition, deadJobs, token, spent>>
  BY <1>1 DEF notKafka, kafka, recovery, fixed
<1>5. /\ WorkShapes' /\ \A v \in Rebuilders : QueueInv(v)'
      /\ Others(w) /\ task'[w].pc = "read back" /\ task'[w].job = j
  BY <1>1, <1>2, <1>4, StepWork
<1>6. torn' \subseteq Events /\ torn \subseteq torn'
  <2>1. Listed \subseteq Events /\ torn \subseteq Events
    BY RebuildConstants DEF Listed, RebuildInv, StoreShapes
  <2> QED
    BY <1>1, <2>1
<1>7. StoreShapes'
  BY <1>1, <1>3, <1>4, <1>6 DEF RebuildInv, StoreShapes
<1>8. Grows
  BY <1>1, <1>3, <1>4, <1>6, RebuildConstants DEF Grows, Cloned, fixed
<1>9. ASSUME NEW g, Whole(g) PROVE Whole(g)'
  BY <1>8, <1>9, WholeKeeps
<1>10. StoreInv'
  <2>1. MarkedHaveRows'
    BY <1>4, <1>6 DEF RebuildInv, StoreInv, MarkedHaveRows, Accepts
  <2>2. CheckpointsHold'
    BY <1>4 DEF RebuildInv, StoreInv, CheckpointsHold, Cloned, Accepts
  <2>3. VerifiedIsWhole'
    <3>1. Whole(active)'
      BY <1>1, <1>3, <1>4, <1>9 DEF Whole, Accepts
    <3>2. ASSUME NEW i \in Jobs, job'[i].status = "complete" PROVE Whole(i)'
      BY <3>2, <1>4, <1>9 DEF RebuildInv, StoreInv, VerifiedIsWhole
    <3> QED
      BY <3>1, <3>2 DEF VerifiedIsWhole
  <2> QED
    BY <2>1, <2>2, <2>3 DEF StoreInv
<1>11. PageInv(w)' /\ CloneInv(w)'
  <2>1. Whole(JobOf(w))'
    BY <1>3, <1>4, <1>5 DEF Whole, JobOf, Accepts
  <2> QED
    BY <1>2, <1>3, <1>4, <1>5, <2>1 DEF PageInv, CloneInv, JobOf, At, Cloned
<1>12. ASSUME NEW e \in Live, Sound(e)' PROVE e \in rows[j] \/ j \in ToSet(put[e].gens)
  <2>1. Sound(e) /\ j \notin away[e]
    BY <1>1, <1>4, <1>6, <1>12 DEF Sound, Listed, Accepts
  <2>2. EventInv(e)
    BY DEF RebuildInv
  <2>3. CASE put[e].pc = "committed"
    BY <2>1, <2>2, <2>3, <1>3 DEF EventInv
  <2>4. CASE put[e].pc # "committed"
    <3>1. j \in Registered \ away[e]
      BY <1>3, <2>1 DEF Registered, Cloned
    <3> QED
      BY <2>1, <2>2, <2>4, <3>1 DEF EventInv, HeldBy
  <2> QED
    BY <2>3, <2>4
<1>13. /\ \A e \in Live : e \in InFlight \ torn' => Registered' \subseteq Registered
       /\ \A e \in Live : Sound(e)' /\ put[e].pc = "committed" =>
              \A i \in Jobs \ away[e] : Cloned(i)' => Cloned(i) \/ e \in rows'[i]
  BY <1>4 DEF Registered, Cloned
<1> QED
  BY <1>1, <1>4, <1>5, <1>7, <1>8, <1>10, <1>11, <1>12, <1>13, MoveKeeps

LEMMA CloseJobStep ==
    ASSUME RebuildInv, NEW w \in Rebuilders, CloseJob(w)
    PROVE  RebuildInv'
<1> DEFINE j == task[w].job
<1>1. /\ ~At(w, "idle") /\ task[w].pc = "close" /\ StepTo(w, "finish") /\ notKafka
      /\ job' = [job EXCEPT ![j] = [status |-> "complete", pages |-> task[w].pages]]
      /\ UNCHANGED <<store, cp, idem, lease, history>>
  BY DEF CloseJob, At
<1>2. task[w].pc \in AfterClone /\ task[w].pc \in Activation
      /\ "finish" \in AfterClone /\ "finish" \in TaskSteps /\ "finish" \in Activation
  BY <1>1 DEF AfterClone, TaskSteps, Activation
<1>3. j \in Jobs /\ Whole(j) /\ Cloned(j) /\ task[w].pages \in Nat
  BY <1>1, <1>2 DEF RebuildInv, PageInv, JobOf, WorkShapes, PageTasks
<1>4. /\ kind' = kind /\ page' = page /\ rows' = rows /\ marks' = marks /\ gen' = gen
      /\ active' = active /\ cp' = cp /\ put' = put /\ torn' = torn /\ away' = away
      /\ UNCHANGED <<lease, idem, queue, partition, deadJobs, token, spent>>
  BY <1>1 DEF notKafka, kafka, fixed, store, history
<1>5. /\ WorkShapes' /\ \A v \in Rebuilders : QueueInv(v)'
      /\ Others(w) /\ task'[w].pc = "finish" /\ task'[w].job = j
  BY <1>1, <1>2, <1>4, StepWork
<1>6. /\ job' \in [Jobs -> [status : {"none", "initializing", "building", "complete", "quarantined"},
                           pages : Nat]]
      /\ job'[j].status = "complete" /\ \A i \in Jobs : i # j => job'[i] = job[i]
  BY <1>1, <1>3 DEF RebuildInv, StoreShapes
<1>7. \A i \in Jobs : Cloned(i)' <=> Cloned(i)
  BY <1>3, <1>6 DEF Cloned
<1>8. Grows /\ Registered' \subseteq Registered
  <2>1. job[j].status # "none"
    BY <1>3 DEF Cloned
  <2> QED
    BY <1>3, <1>4, <1>6, <1>7, <2>1 DEF Grows, Registered, fixed
<1>9. StoreShapes'
  BY <1>4, <1>6 DEF RebuildInv, StoreShapes
<1>10. ASSUME NEW g, Whole(g) PROVE Whole(g)'
  BY <1>8, <1>10, WholeKeeps
<1>11. StoreInv'
  <2>1. MarkedHaveRows'
    BY <1>4 DEF RebuildInv, StoreInv, MarkedHaveRows, Accepts
  <2>2. CheckpointsHold'
    BY <1>4, <1>7 DEF RebuildInv, StoreInv, CheckpointsHold, Accepts
  <2>3. VerifiedIsWhole'
    <3>1. Whole(active)'
      BY <1>4, <1>10 DEF RebuildInv, StoreInv, VerifiedIsWhole, Whole
    <3>2. ASSUME NEW i \in Jobs, job'[i].status = "complete" PROVE Whole(i)'
      <4>1. Whole(i)
        BY <3>2, <1>3, <1>6 DEF RebuildInv, StoreInv, VerifiedIsWhole
      <4> QED
        BY <4>1, <1>10
    <3> QED
      BY <3>1, <3>2 DEF VerifiedIsWhole
  <2> QED
    BY <2>1, <2>2, <2>3 DEF StoreInv
<1>12. PageInv(w)' /\ CloneInv(w)'
  <2>1. Whole(JobOf(w))'
    BY <1>3, <1>4, <1>5 DEF Whole, JobOf, Accepts
  <2>2. job'[j].status \in {"building", "complete", "quarantined"}
    BY <1>6
  <2> QED
    BY <1>2, <1>3, <1>5, <2>1, <2>2 DEF PageInv, CloneInv, JobOf, At, Cloned
<1>13. \A e \in Live : Sound(e) /\ put[e].pc = "committed" =>
              \A i \in Jobs \ away[e] : Cloned(i)' => Cloned(i) \/ e \in rows[i]
  BY <1>7
<1> QED
  BY <1>4, <1>5, <1>8, <1>9, <1>11, <1>12, <1>13, JobKeeps

-----------------------------------------------------------------------------
(* Analytics: live ingestion                                               *)

\* A step of one event: the others and the workers see at most a new marker.
LEMMA LiveKeeps ==
    ASSUME RebuildInv, Grows, NEW e \in Live, liveUnchanged, active' = active,
           \A f \in Live \ {e} : put'[f] = put[f] /\ away'[f] = away[f],
           StoreShapes', MarkedHaveRows', EventInv(e)',
           \A v \in Rebuilders : At(v, "copy markers") =>
              \A x \in marks'[Src(v)] \ (marks[Src(v)] \cup torn') : Accepts(x) => x \in rows'[JobOf(v)],
           Sound(e)' /\ put'[e].pc = "committed" =>
              \/ put[e].pc = "committed" /\ away'[e] = away[e]
              \/ \A j \in Registered \ away'[e] : e \in rows[j]
    PROVE  RebuildInv'
<1>1. /\ job' = job /\ cp' = cp /\ task' = task /\ queue' = queue /\ partition' = partition
      /\ kind' = kind /\ page' = page
  BY DEF liveUnchanged, recovery, kafka, fixed
<1>2. StoreInv'
  BY <1>1, StoreKeeps
<1>3. WorkShapes'
  BY DEF RebuildInv, WorkShapes, liveUnchanged, recovery, kafka
<1>4. ASSUME NEW f \in Live PROVE EventInv(f)'
  <2>1. CASE f = e
    BY <2>1
  <2>2. CASE f # e
    <3>1. EventInv(f) /\ StoreShapes /\ active' \in Generations /\ put'[f] = put[f] /\ away'[f] = away[f]
      BY <2>2 DEF RebuildInv, StoreShapes
    <3>2. Registered' \subseteq Registered /\ \A j \in Jobs : Cloned(j)' => Cloned(j)
      BY <1>1 DEF Registered, Cloned
    <3> QED
      BY <3>1, <3>2, EventKeeps
  <2> QED
    BY <2>1, <2>2
<1>5. ASSUME NEW v \in Rebuilders PROVE PageInv(v)' /\ CloneInv(v)' /\ QueueInv(v)'
  <2>1. task'[v] = task[v] /\ PageInv(v) /\ CloneInv(v) /\ WorkShapes /\ QueueInv(v)
    BY <1>1 DEF RebuildInv
  <2>2. PageInv(v)'
    BY <2>1, PageKeeps
  <2>3. ASSUME NEW f \in Live, Sound(f)', put'[f].pc = "committed"
        PROVE  \/ put[f].pc = "committed" /\ away'[f] = away[f]
               \/ \A j \in Registered \ away'[f] : f \in rows[j]
    <3>1. CASE f = e
      BY <2>3, <3>1
    <3>2. CASE f # e
      BY <2>3, <3>2
    <3> QED
      BY <3>1, <3>2
  <2>4. CloneInv(v)'
    BY <2>1, <2>3, CloneKeeps
  <2>5. QueueInv(v)'
    BY <1>1, <2>1 DEF QueueInv, At, JobOf
  <2> QED
    BY <2>2, <2>4, <2>5
<1> QED
  BY <1>2, <1>3, <1>4, <1>5 DEF RebuildInv

\* An event that is not listed yet, or never was.
LEMMA UnlistedKeeps ==
    ASSUME RebuildInv, NEW e \in Live, UNCHANGED <<store, history>>, liveUnchanged,
           NEW new \in Puts, put' = [put EXCEPT ![e] = new], new.pc \in {"idle", "dead", "list"},
           new.pc = "list" => new.gens = <<active>>
    PROVE  RebuildInv'
<1>1. /\ rows' = rows /\ marks' = marks /\ gen' = gen /\ active' = active /\ torn' = torn /\ away' = away
      /\ job' = job /\ cp' = cp /\ kind' = kind /\ page' = page
  BY DEF store, history, liveUnchanged, recovery, fixed
<1>2. put' \in [Live -> Puts] /\ put'[e] = new /\ \A f \in Live \ {e} : put'[f] = put[f]
  BY DEF RebuildInv, StoreShapes
<1>3. StoreShapes'
  BY <1>1, <1>2 DEF RebuildInv, StoreShapes
<1>4. Grows
  BY <1>1 DEF Grows, fixed, Cloned
<1>5. MarkedHaveRows'
  BY <1>1 DEF RebuildInv, StoreInv, MarkedHaveRows, Accepts
<1>6. EventInv(e)'
  <2>1. e \notin Listed'
    BY <1>2 DEF Listed
  <2>2. ~Sound(e)'
    BY <2>1 DEF Sound
  <2> QED
    BY <1>1, <1>2, <2>2 DEF EventInv
<1>7. put'[e].pc # "committed"
  BY <1>2
<1> QED
  BY <1>1, <1>2, <1>3, <1>4, <1>5, <1>6, <1>7, LiveKeeps

\* The outcome of a failed attempt, as one new state of the event.
LEMMA FailedPut ==
    ASSUME StoreShapes, NEW e \in Live, AttemptFails(e)
    PROVE  \E new \in Puts : put' = [put EXCEPT ![e] = new] /\ new.pc \in {"idle", "dead"}
<1>1. put \in [Live -> Puts] /\ put[e] \in Puts /\ <<>> \in Seq(Generations)
  BY DEF StoreShapes
<1>2. CASE put[e].tries + 1 = MaxAttempts
  <2> DEFINE new == [put[e] EXCEPT !.pc = "dead", !.gens = <<>>]
  <2>1. put' = [put EXCEPT ![e] = new]
    BY <1>1, <1>2 DEF AttemptFails
  <2>2. new \in Puts /\ new.pc = "dead"
    BY <1>1 DEF Puts
  <2> QED
    BY <2>1, <2>2
<1>3. CASE put[e].tries + 1 # MaxAttempts
  <2> DEFINE new == [pc |-> "idle", gens |-> <<>>, tries |-> put[e].tries + 1]
  <2>1. put' = [put EXCEPT ![e] = new]
    BY <1>1, <1>3 DEF AttemptFails
  <2>2. new \in Puts /\ new.pc = "idle"
    BY <1>1 DEF Puts
  <2> QED
    BY <2>1, <2>2
<1> QED
  BY <1>2, <1>3

LEMMA ListActiveStep ==
    ASSUME RebuildInv, NEW e \in Live, ListActive(e)
    PROVE  RebuildInv'
<1>1. UNCHANGED <<store, history>> /\ liveUnchanged
  BY DEF ListActive
<1>2. put \in [Live -> Puts] /\ put[e] \in Puts /\ active \in Generations /\ StoreShapes
  BY DEF RebuildInv, StoreShapes
<1>3. CASE put' = [put EXCEPT ![e].pc = "dead"]
  <2> DEFINE new == [put[e] EXCEPT !.pc = "dead"]
  <2>1. put' = [put EXCEPT ![e] = new] /\ new \in Puts /\ new.pc = "dead"
    BY <1>2, <1>3 DEF Puts
  <2> HIDE DEF new
  <2> QED
    BY <1>1, <2>1, UnlistedKeeps
<1>4. CASE put' = [put EXCEPT ![e].pc = "list", ![e].gens = <<active>>]
  <2> DEFINE new == [put[e] EXCEPT !.pc = "list", !.gens = <<active>>]
  <2>1. put' = [put EXCEPT ![e] = new] /\ new \in Puts /\ new.pc = "list" /\ new.gens = <<active>>
    <3>1. <<active>> \in Seq(Generations)
      BY <1>2
    <3>2. new \in Puts /\ new.pc = "list" /\ new.gens = <<active>>
      BY <1>2, <3>1 DEF Puts
    <3> QED
      BY <1>2, <1>4, <3>2
  <2> HIDE DEF new
  <2> QED
    BY <1>1, <2>1, UnlistedKeeps
<1>5. CASE AttemptFails(e)
  BY <1>1, <1>2, <1>5, FailedPut, UnlistedKeeps
<1> QED
  BY <1>3, <1>4, <1>5 DEF ListActive

LEMMA LiveFailsStep ==
    ASSUME RebuildInv, NEW e \in Live, LiveFails(e)
    PROVE  RebuildInv'
<1>1. UNCHANGED <<store, history>> /\ liveUnchanged /\ StoreShapes
  BY DEF LiveFails, RebuildInv
<1>2. CASE AttemptFails(e)
  BY <1>1, <1>2, FailedPut, UnlistedKeeps
<1>3. CASE put' = [put EXCEPT ![e] = [pc |-> "idle", gens |-> <<>>, tries |-> 0]]
  <2>1. [pc |-> "idle", gens |-> <<>>, tries |-> 0] \in Puts
    BY DEF Puts
  <2> QED
    BY <1>1, <1>3, <2>1, UnlistedKeeps
<1> QED
  BY <1>2, <1>3 DEF LiveFails

LEMMA ListWriteGenerationsStep ==
    ASSUME RebuildInv, NEW e \in Live, ListWriteGenerations(e)
    PROVE  RebuildInv'
<1> DEFINE first == put[e].gens[1]
           all == <<first>> \o SetToSeq(OpenJobs \ {first})
           new == [put[e] EXCEPT !.pc = "rows", !.gens = all]
<1>1. /\ put[e].pc = "list" /\ UNCHANGED store /\ liveUnchanged
      /\ put' = [put EXCEPT ![e].pc = "rows", ![e].gens = @ \o SetToSeq(OpenJobs \ {first})]
      /\ away' = [away EXCEPT ![e] = ClosedJobs \ {first}]
      /\ torn' = (IF active \in ClosedJobs \ {first} THEN torn \cup {e} ELSE torn)
  BY DEF ListWriteGenerations
<1>2. /\ put \in [Live -> Puts] /\ put[e] \in Puts /\ put[e].gens = <<first>> /\ put[e].gens # <<>>
      /\ active = Origin => first = Origin
  BY <1>1 DEF RebuildInv, StoreShapes, EventInv
<1>3. first \in Generations /\ OpenJobs \subseteq Jobs /\ Registered \subseteq Jobs
      /\ Registered \subseteq OpenJobs \cup ClosedJobs /\ ClosedJobs \subseteq Jobs /\ e \in Events
  BY <1>2, ListedRest, RebuildConstants DEF RebuildInv, StoreShapes, Puts, OpenJobs, ClosedJobs, Registered
<1>4. /\ all \in Seq(Generations) /\ all # <<>>
      /\ \A x \in OpenJobs \cup {first} : x \in ToSet(all)
  <2> DEFINE rest == OpenJobs \ {first}
  <2>1. IsFiniteSet(rest) /\ rest \in SUBSET Generations
    BY <1>3, RebuildConstants, FS_Subset
  <2>2. all = <<first>> \o SetToSeq(rest) /\ OpenJobs \cup {first} = rest \cup {first}
    OBVIOUS
  <2> HIDE DEF rest, all
  <2>3. /\ <<first>> \o SetToSeq(rest) \in Seq(Generations) /\ <<first>> \o SetToSeq(rest) # <<>>
        /\ \A x \in rest \cup {first} : x \in ToSet(<<first>> \o SetToSeq(rest))
    BY <1>3, <2>1, ListedFirst
  <2> QED
    BY <2>2, <2>3
<1>5. put' = [put EXCEPT ![e] = new]
  BY <1>1, <1>2
<1> HIDE DEF all
<1>6. new \in Puts /\ new.pc = "rows" /\ new.gens = all
  BY <1>2, <1>4 DEF Puts
<1> HIDE DEF new
<1>7. put' \in [Live -> Puts] /\ put'[e] = new /\ \A f \in Live \ {e} : put'[f] = put[f]
  BY <1>2, <1>5, <1>6
<1>8. /\ away' \in [Live -> SUBSET Jobs] /\ torn' \subseteq Events /\ torn \subseteq torn'
      /\ away'[e] = ClosedJobs \ {first}
      /\ \A f \in Live \ {e} : away'[f] = away[f]
  BY <1>1, <1>3 DEF RebuildInv, StoreShapes
<1>9. /\ rows' = rows /\ marks' = marks /\ gen' = gen /\ active' = active
      /\ job' = job /\ cp' = cp /\ kind' = kind /\ page' = page
  BY <1>1 DEF store, liveUnchanged, recovery, fixed
<1>10. StoreShapes'
  BY <1>7, <1>8, <1>9 DEF RebuildInv, StoreShapes
<1>11. Grows
  BY <1>8, <1>9 DEF Grows, fixed, Cloned
<1>12. MarkedHaveRows'
  BY <1>8, <1>9 DEF RebuildInv, StoreInv, MarkedHaveRows, Accepts
<1>13. EventInv(e)'
  <2>1. ASSUME Sound(e)' PROVE HeldBy(e, active)'
    <3>1. e \notin torn'
      BY <2>1 DEF Sound
    <3>2. active \in OpenJobs \cup {first}
      <4>1. active \notin ClosedJobs \ {first} /\ active \in Generations
        BY <1>1, <3>1 DEF RebuildInv, StoreShapes
      <4>2. active \in Jobs => active \in Registered
        BY RebuildConstants DEF RebuildInv, StoreInv, VerifiedIsWhole, Whole, CheckpointsHold, Cloned, Registered
      <4> QED
        BY <1>2, <1>3, <4>1, <4>2 DEF Generations
    <3> QED
      BY <1>4, <1>6, <1>7, <1>9, <3>2 DEF HeldBy
  <2>2. ASSUME NEW j \in Registered' \ away'[e] PROVE HeldBy(e, j)'
    <3>1. j \in OpenJobs \cup {first}
      BY <1>3, <1>8, <1>9, <2>2 DEF Registered
    <3> QED
      BY <1>4, <1>6, <1>7, <3>1 DEF HeldBy
  <2> QED
    BY <1>4, <1>6, <1>7, <2>1, <2>2 DEF EventInv
<1>14. put'[e].pc # "committed"
  BY <1>6, <1>7
<1> QED
  BY <1>1, <1>7, <1>8, <1>9, <1>10, <1>11, <1>12, <1>13, <1>14, LiveKeeps

\* What the event has left once the first generation has it.
LEMMA RemainingShapes ==
    ASSUME StoreShapes, NEW e \in Live, put[e].gens # <<>>
    PROVE  /\ put[e].gens[1] \in Generations
           /\ RemainingWrites(e) \in Puts /\ RemainingWrites(e).gens = Tail(put[e].gens)
           /\ RemainingWrites(e).pc \in {"ack", "rows"}
           /\ RemainingWrites(e).pc = "ack" <=> Tail(put[e].gens) = <<>>
           /\ \A x \in ToSet(put[e].gens) : x = put[e].gens[1] \/ x \in ToSet(Tail(put[e].gens))
<1>1. put[e] \in Puts /\ put[e].gens \in Seq(Generations)
  BY DEF StoreShapes, Puts
<1>2. /\ put[e].gens[1] \in Generations /\ Tail(put[e].gens) \in Seq(Generations)
      /\ (Tail(put[e].gens) = <<>> <=> Len(put[e].gens) = 1)
      /\ \A x \in ToSet(put[e].gens) : x = put[e].gens[1] \/ x \in ToSet(Tail(put[e].gens))
  BY <1>1, ListedRest
<1>3. /\ RemainingWrites(e) \in Puts /\ RemainingWrites(e).gens = Tail(put[e].gens)
      /\ RemainingWrites(e).pc = (IF Len(put[e].gens) = 1 THEN "ack" ELSE "rows")
  BY <1>1, <1>2 DEF RemainingWrites, Puts
<1> QED
  BY <1>2, <1>3

\* The first generation of the list has the event: what held it holds it still.
LEMMA WrittenInv ==
    ASSUME RebuildInv, Grows, NEW e \in Live, put[e].gens # <<>>, put[e].pc \in {"rows", "mark"},
           put'[e] = RemainingWrites(e), away' = away, active' = active, job' = job,
           Sound(e)' => e \in rows'[put[e].gens[1]]
    PROVE  EventInv(e)'
<1>1. /\ put[e].gens[1] \in Generations
      /\ put'[e].gens = Tail(put[e].gens) /\ put'[e].pc \in {"ack", "rows"}
      /\ put'[e].pc = "ack" <=> Tail(put[e].gens) = <<>>
      /\ \A x \in ToSet(put[e].gens) : x = put[e].gens[1] \/ x \in ToSet(Tail(put[e].gens))
  BY RemainingShapes DEF RebuildInv
<1>2. Sound(e)' => Sound(e)
  BY DEF Sound, Listed, Grows, fixed, Accepts
<1>3. ASSUME Sound(e)', NEW g \in Generations, HeldBy(e, g) PROVE HeldBy(e, g)'
  BY <1>1, <1>3 DEF HeldBy, Grows
<1>4. active \in Generations /\ Registered \subseteq Generations /\ Registered' = Registered
  BY RebuildConstants DEF RebuildInv, StoreShapes, Registered
<1>5. ASSUME Sound(e)' PROVE HeldBy(e, active)' /\ \A j \in Registered \ away[e] : HeldBy(e, j)'
  <2>1. HeldBy(e, active) /\ \A j \in Registered \ away[e] : HeldBy(e, j)
    BY <1>2, <1>5 DEF RebuildInv, EventInv
  <2>2. \A g \in Generations : HeldBy(e, g) => HeldBy(e, g)'
    BY <1>3, <1>5
  <2> QED
    BY <1>4, <2>1, <2>2 DEF HeldBy
<1> QED
  BY <1>1, <1>4, <1>5 DEF EventInv

LEMMA InsertProjectionRowsStep ==
    ASSUME RebuildInv, NEW e \in Live, InsertProjectionRows(e)
    PROVE  RebuildInv'
<1> DEFINE g == put[e].gens[1]
<1>1. /\ put[e].pc = "rows" /\ liveUnchanged
      /\ UNCHANGED <<marks, gen, active, history>>
  BY DEF InsertProjectionRows
<1>2. put \in [Live -> Puts] /\ put[e] \in Puts /\ put[e].gens # <<>> /\ StoreShapes /\ EventInv(e)
  BY <1>1 DEF RebuildInv, StoreShapes, EventInv
<1>3. /\ g \in Generations /\ RemainingWrites(e) \in Puts /\ e \in Events
  BY <1>2, RemainingShapes, RebuildConstants
<1>4. /\ marks' = marks /\ gen' = gen /\ active' = active /\ torn' = torn /\ away' = away
      /\ job' = job /\ cp' = cp /\ kind' = kind /\ page' = page
  BY <1>1 DEF history, liveUnchanged, recovery, fixed
<1>5. /\ put' \in [Live -> Puts] /\ \A f \in Live \ {e} : put'[f] = put[f]
      /\ put'[e].pc # "committed"
      /\ rows' \in [Generations -> SUBSET Events]
      /\ \A h \in Generations : rows[h] \subseteq rows'[h]
      /\ \/ put'[e] = RemainingWrites(e) /\ e \in marks[g]
         \/ put'[e] = [put[e] EXCEPT !.pc = "mark"] /\ (Accepts(e) => e \in rows'[g])
  <2>1. CASE e \in marks[g]
    <3>1. put' = [put EXCEPT ![e] = RemainingWrites(e)] /\ rows' = rows
      BY <2>1 DEF InsertProjectionRows
    <3>2. RemainingWrites(e).pc # "committed"
      BY <1>2, RemainingShapes
    <3> QED
      BY <1>2, <1>3, <2>1, <3>1, <3>2 DEF StoreShapes
  <2>2. CASE e \notin marks[g]
    <3>1. put' = [put EXCEPT ![e].pc = "mark"] /\ rows' = [rows EXCEPT ![g] = @ \cup ProjectionRows(e)]
      BY <2>2 DEF InsertProjectionRows
    <3>2. [put[e] EXCEPT !.pc = "mark"] \in Puts /\ ProjectionRows(e) \subseteq Events
          /\ (Accepts(e) => e \in ProjectionRows(e))
      BY <1>2, <1>3 DEF Puts, ProjectionRows
    <3>3. put' \in [Live -> Puts] /\ put'[e] = [put[e] EXCEPT !.pc = "mark"]
          /\ (\A f \in Live \ {e} : put'[f] = put[f]) /\ put'[e].pc = "mark"
      BY <1>2, <3>1, <3>2 DEF Puts
    <3>4. /\ rows' \in [Generations -> SUBSET Events]
          /\ \A h \in Generations : rows[h] \subseteq rows'[h]
          /\ (Accepts(e) => e \in rows'[g])
      BY <1>2, <1>3, <3>1, <3>2 DEF StoreShapes
    <3> QED
      BY <3>3, <3>4
  <2> QED
    BY <2>1, <2>2
<1>6. StoreShapes'
  BY <1>2, <1>4, <1>5 DEF StoreShapes
<1>7. Grows
  BY <1>4, <1>5 DEF Grows, fixed, Cloned
<1>8. MarkedHaveRows'
  BY <1>4, <1>5 DEF RebuildInv, StoreInv, MarkedHaveRows, Accepts
<1>9. EventInv(e)'
  <2>1. CASE put'[e] = RemainingWrites(e) /\ e \in marks[g]
    <3>1. Sound(e)' => e \in rows'[g]
      <4>1. Sound(e)' => e \in marks'[g] \ torn' /\ Accepts(e)'
        BY <2>1, <1>4 DEF Sound
      <4> QED
        BY <4>1, <1>3, <1>4, <1>8 DEF MarkedHaveRows
    <3> QED
      BY <1>1, <1>2, <1>4, <1>7, <2>1, <3>1, WrittenInv
  <2>2. CASE put'[e] = [put[e] EXCEPT !.pc = "mark"] /\ (Accepts(e) => e \in rows'[g])
    <3>1. put'[e].pc = "mark" /\ put'[e].gens = put[e].gens
      BY <1>2, <2>2 DEF Puts
    <3>2. Sound(e)' => Sound(e)
      BY <1>1, <1>4 DEF Sound, Listed, Accepts
    <3>3. ASSUME NEW h \in Generations, HeldBy(e, h) PROVE HeldBy(e, h)'
      BY <1>5, <3>1, <3>3 DEF HeldBy
    <3>4. active \in Generations /\ Registered \subseteq Generations /\ Registered' = Registered
      BY <1>2, <1>4, RebuildConstants DEF StoreShapes, Registered
    <3>5. ASSUME Sound(e)' PROVE HeldBy(e, active)' /\ \A j \in Registered \ away[e] : HeldBy(e, j)'
      <4>1. HeldBy(e, active) /\ \A j \in Registered \ away[e] : HeldBy(e, j)
        BY <1>1, <1>2, <3>2, <3>5 DEF EventInv
      <4>2. \A h \in Generations : HeldBy(e, h) => HeldBy(e, h)'
        BY <3>3
      <4> QED
        BY <1>4, <3>4, <4>1, <4>2 DEF HeldBy
    <3>6. (put[e].pc = "mark" /\ Accepts(e) => e \in rows[put[e].gens[1]])'
      BY <1>4, <2>2, <3>1 DEF Accepts
    <3> QED
      BY <1>2, <1>4, <3>1, <3>4, <3>5, <3>6 DEF EventInv
  <2> QED
    BY <1>5, <2>1, <2>2
<1> QED
  BY <1>1, <1>4, <1>5, <1>6, <1>7, <1>8, <1>9, LiveKeeps

LEMMA InsertProcessedStep ==
    ASSUME RebuildInv, NEW e \in Live, InsertProcessed(e)
    PROVE  RebuildInv'
<1> DEFINE g == put[e].gens[1]
<1>1. /\ put[e].pc = "mark" /\ liveUnchanged
      /\ marks' = [marks EXCEPT ![g] = @ \cup {e}]
      /\ put' = [put EXCEPT ![e] = RemainingWrites(e)]
      /\ torn' = (IF Copied(g) THEN torn \cup {e} ELSE torn)
      /\ UNCHANGED <<rows, gen, active, away>>
  BY DEF InsertProcessed
<1>2. /\ put \in [Live -> Puts] /\ put[e].gens # <<>> /\ StoreShapes
      /\ (Accepts(e) => e \in rows[g])
  BY <1>1 DEF RebuildInv, StoreShapes, EventInv
<1>3. /\ g \in Generations /\ RemainingWrites(e) \in Puts /\ e \in Events
      /\ RemainingWrites(e).pc # "committed"
  BY <1>2, RemainingShapes, RebuildConstants
<1>4. /\ rows' = rows /\ gen' = gen /\ active' = active /\ away' = away
      /\ job' = job /\ cp' = cp /\ kind' = kind /\ page' = page
  BY <1>1 DEF liveUnchanged, recovery, fixed
<1>5. /\ put' \in [Live -> Puts] /\ put'[e] = RemainingWrites(e)
      /\ \A f \in Live \ {e} : put'[f] = put[f]
  BY <1>1, <1>2, <1>3
<1>6. /\ marks' \in [Generations -> SUBSET Events] /\ torn \subseteq torn' /\ torn' \subseteq Events
      /\ \A h \in Generations : marks[h] \subseteq marks'[h] /\ marks'[h] \subseteq marks[h] \cup {e}
      /\ \A h \in Generations : h # g => marks'[h] = marks[h]
  BY <1>1, <1>2, <1>3 DEF StoreShapes
<1>7. StoreShapes'
  BY <1>2, <1>4, <1>5, <1>6 DEF StoreShapes
<1>8. Grows
  BY <1>4, <1>6 DEF Grows, fixed, Cloned
<1>9. MarkedHaveRows'
  <2> SUFFICES ASSUME NEW h \in Generations, NEW x \in marks'[h] \ torn', Accepts(x)
               PROVE  x \in rows[h]
    BY <1>4 DEF MarkedHaveRows, Accepts
  <2>1. CASE x \in marks[h]
    BY <1>6, <2>1 DEF RebuildInv, StoreInv, MarkedHaveRows
  <2>2. CASE x \notin marks[h]
    BY <1>2, <1>6, <2>2
  <2> QED
    BY <2>1, <2>2
<1>10. EventInv(e)'
  <2>1. Sound(e)' => e \in rows'[g]
    BY <1>2, <1>4 DEF Sound, Accepts
  <2> QED
    BY <1>1, <1>2, <1>4, <1>5, <1>8, <2>1, WrittenInv
<1>11. ASSUME NEW v \in Rebuilders, At(v, "copy markers"),
              NEW x \in marks'[Src(v)] \ (marks[Src(v)] \cup torn')
       PROVE  FALSE
  <2>1. Src(v) \in Generations
    BY DEF RebuildInv, WorkShapes, PageTasks, Src
  <2>2. Src(v) = g /\ x = e
    BY <1>6, <1>11, <2>1
  <2>3. Copied(g)
    BY <1>11, <2>2 DEF Copied, At, Src
  <2> QED
    BY <1>1, <1>11, <2>2, <2>3
<1> QED
  BY <1>1, <1>3, <1>4, <1>5, <1>7, <1>8, <1>9, <1>10, <1>11, LiveKeeps

LEMMA CommitLiveStep ==
    ASSUME RebuildInv, NEW e \in Live, CommitLive(e)
    PROVE  RebuildInv'
<1>1. /\ put[e].pc = "ack" /\ put' = [put EXCEPT ![e].pc = "committed"]
      /\ UNCHANGED <<store, history>> /\ liveUnchanged
  BY DEF CommitLive
<1>2. put \in [Live -> Puts] /\ put[e] \in Puts /\ put[e].gens = <<>> /\ EventInv(e) /\ StoreShapes
  BY <1>1 DEF RebuildInv, StoreShapes, EventInv
<1>3. /\ rows' = rows /\ marks' = marks /\ gen' = gen /\ active' = active /\ torn' = torn /\ away' = away
      /\ job' = job /\ cp' = cp /\ kind' = kind /\ page' = page
  BY <1>1 DEF store, history, liveUnchanged, recovery, fixed
<1>4. /\ put' \in [Live -> Puts] /\ put'[e].pc = "committed" /\ put'[e].gens = <<>>
      /\ \A f \in Live \ {e} : put'[f] = put[f]
  <2>1. [put[e] EXCEPT !.pc = "committed"] \in Puts
    BY <1>2 DEF Puts
  <2> QED
    BY <1>1, <1>2, <2>1 DEF Puts
<1>5. StoreShapes'
  BY <1>2, <1>3, <1>4 DEF StoreShapes
<1>6. Grows
  BY <1>3 DEF Grows, fixed, Cloned
<1>7. MarkedHaveRows'
  BY <1>3 DEF RebuildInv, StoreInv, MarkedHaveRows, Accepts
<1>8. \A g \in Generations : HeldBy(e, g) => e \in rows[g]
  BY <1>2 DEF HeldBy, ToSet
<1>9. ASSUME Sound(e)' PROVE e \in rows[active] /\ \A j \in Registered \ away[e] : e \in rows[j]
  <2>1. Sound(e) /\ put[e].pc # "committed"
    BY <1>1, <1>3, <1>9 DEF Sound, Listed, Accepts
  <2>2. HeldBy(e, active) /\ \A j \in Registered \ away[e] : HeldBy(e, j)
    BY <1>2, <2>1 DEF EventInv
  <2>3. active \in Generations /\ Registered \subseteq Generations
    BY <1>2, RebuildConstants DEF StoreShapes, Registered
  <2> QED
    BY <1>8, <2>2, <2>3
<1>10. EventInv(e)'
  <2>1. Sound(e)' => HeldBy(e, active)'
    BY <1>3, <1>9 DEF HeldBy
  <2>2. Sound(e)' => \A j \in Jobs \ away[e] : Cloned(j) => e \in rows[j]
    <3>1. \A j \in Jobs : Cloned(j) => j \in Registered
      BY DEF Cloned, Registered
    <3> QED
      BY <3>1, <1>9
  <2> QED
    BY <1>3, <1>4, <2>1, <2>2 DEF EventInv, Cloned
<1>11. Sound(e)' => \A j \in Registered \ away'[e] : e \in rows[j]
  BY <1>3, <1>9
<1> QED
  BY <1>1, <1>3, <1>4, <1>5, <1>6, <1>7, <1>10, <1>11, LiveKeeps

-----------------------------------------------------------------------------
(* Analytics: the theorem                                                  *)

LEMMA RebuildStarts == RebuildInit => RebuildInv
<1> SUFFICES ASSUME RebuildInit PROVE RebuildInv
  OBVIOUS
<1>1. StoreShapes
  <2>1. kind \in [Events -> Kinds] /\ page \in [Jobs -> [Cursors -> SUBSET Events]]
    BY RebuildAssumption DEF RebuildInit
  <2>2. <<>> \in Seq(Generations)
    OBVIOUS
  <2>3. put \in [Live -> Puts]
    BY <2>2 DEF RebuildInit, Puts
  <2>4. cp \in [Jobs -> [Cursors -> [index : Nat, next : Cursors, bad : BOOLEAN, applied : BOOLEAN]]]
    BY RebuildConstants DEF RebuildInit, NoCheckpoint
  <2> QED
    BY <2>1, <2>3, <2>4, RebuildConstants DEF RebuildInit, StoreShapes
<1>2. WorkShapes
  <2>1. <<0>> \in Seq(Cursors)
    BY RebuildConstants
  <2>2. token \in [Rebuilders -> Tokens]
    BY RebuildAssumption DEF RebuildInit
  <2>3. FirstWorker \in Rebuilders
    BY RebuildAssumption
  <2> QED
    BY <2>1, <2>2, <2>3, NoTaskShape DEF RebuildInit, WorkShapes
<1>3. StoreInv
  <2>1. \A j \in Jobs : job[j].status = "none" /\ \A c \in Cursors : ~cp[j][c].applied
    BY DEF RebuildInit, NoCheckpoint
  <2>2. active \notin Jobs /\ \A g \in Generations : marks[g] = {}
    BY RebuildConstants DEF RebuildInit
  <2> QED
    BY <2>1, <2>2 DEF StoreInv, MarkedHaveRows, CheckpointsHold, VerifiedIsWhole, Whole
<1>4. ASSUME NEW e \in Live PROVE EventInv(e)
  <2>1. put[e].pc = "idle"
    BY DEF RebuildInit
  <2> QED
    BY <2>1 DEF EventInv, Sound, Listed
<1>5. ASSUME NEW w \in Rebuilders PROVE PageInv(w) /\ CloneInv(w) /\ QueueInv(w)
  <2>1. task[w].pc = "idle"
    BY DEF RebuildInit, NoTask
  <2> QED
    BY <2>1 DEF PageInv, CloneInv, QueueInv, At, AfterClone, Activation
<1> QED
  BY <1>1, <1>2, <1>3, <1>4, <1>5 DEF RebuildInv

\* One case for each action.
LEMMA RebuildKeeps == RebuildInv /\ [RebuildNext]_rebuildVars => RebuildInv'
<1> SUFFICES ASSUME RebuildInv, [RebuildNext]_rebuildVars PROVE RebuildInv'
  OBVIOUS
<1>1. PICK w \in Rebuilders : TRUE
  BY RebuildAssumption
<1>2. CASE UNCHANGED rebuildVars
  <2>1. UNCHANGED <<fixed, store, recovery, lease, kafka, put, task, token, spent, history>>
    BY <1>2 DEF rebuildVars
  <2>2. Steady /\ UNCHANGED <<gen, lease, idem, queue, partition, deadJobs, task, token, spent>>
    BY <2>1 DEF Steady, store, recovery, history, kafka
  <2>3. WorkShapes' /\ gen' \in [Generations -> {"none", "initializing", "building", "complete"}]
    BY <2>2 DEF RebuildInv, WorkShapes, StoreShapes
  <2>4. Others(w) /\ Grows
    BY <2>2 DEF Others, Grows, Steady, fixed, Cloned
  <2>5. PageInv(w)'
    BY <2>2, <2>4, PageKeeps DEF RebuildInv
  <2>6. CloneInv(w)'
    BY <2>2, <2>4, CloneKeeps DEF RebuildInv, Steady, Sound
  <2>7. \A v \in Rebuilders : QueueInv(v)'
    BY <2>2 DEF RebuildInv, QueueInv, At, JobOf
  <2> QED
    BY <2>2, <2>3, <2>4, <2>5, <2>6, <2>7, SteadyKeeps
<1>3. ASSUME NEW e \in Live, LiveStep(e) \/ LiveFails(e) PROVE RebuildInv'
  BY <1>3, ListActiveStep, ListWriteGenerationsStep, InsertProjectionRowsStep, InsertProcessedStep,
     CommitLiveStep, LiveFailsStep DEF LiveStep
<1>4. ASSUME NEW v \in Rebuilders, RebuildStep(v) PROVE RebuildInv'
  <2>1. CASE \E j \in Jobs : Take(v, j)
    BY <2>1, TakeStep
  <2>2. CASE LoadIdempotency(v) \/ ReadLease(v) \/ AcquireLease(v) \/ OpenJob(v)
    BY <2>2, LoadIdempotencyStep, ReadLeaseStep, AcquireLeaseStep, OpenJobStep
  <2>3. CASE ReadSource(v) \/ CloneRows(v) \/ CloneMarks(v) \/ MarkBuilding(v)
    BY <2>3, ReadSourceStep, CloneRowsStep, CloneMarksStep, MarkBuildingStep
  <2>4. CASE FetchPage(v) \/ ApplyRecord(v) \/ PersistPage(v) \/ Progress(v)
    BY <2>4, FetchPageStep, ApplyRecordStep, PersistPageStep, ProgressStep
  <2>5. CASE RecordFollowUp(v) \/ PublishFollowUp(v) \/ CommitRequest(v) \/ VerifyPages(v)
    BY <2>5, RecordFollowUpStep, PublishFollowUpStep, CommitRequestStep, VerifyPagesStep
  <2>6. CASE CompleteGeneration(v) \/ SwitchActiveGeneration(v) \/ ReadBackActive(v)
    BY <2>6, CompleteGenerationStep, SwitchActiveGenerationStep, ReadBackActiveStep
  <2>7. CASE CloseJob(v) \/ RecordFinalized(v) \/ LoseLease(v)
    BY <2>7, CloseJobStep, RecordFinalizedStep, LoseLeaseStep
  <2> QED
    BY <1>4, <2>1, <2>2, <2>3, <2>4, <2>5, <2>6, <2>7 DEF RebuildStep
<1>5. ASSUME NEW v \in Rebuilders, CallFails(v) \/ Crash(v) PROVE RebuildInv'
  BY <1>5, CallFailsStep, CrashStep
<1>6. ASSUME NEW j \in Jobs, JobLeaseExpires(j) PROVE RebuildInv'
  BY <1>1, <1>6, JobLeaseExpiresStep
<1>7. ASSUME NEW j \in Jobs, NEW v \in Rebuilders, Rebalance(j, v) PROVE RebuildInv'
  BY <1>7, RebalanceStep
<1> QED
  BY <1>2, <1>3, <1>4, <1>5, <1>6, <1>7 DEF RebuildNext

\* What the invariant promises of the properties the run checks.
LEMMA RebuildPromises == RebuildInv => RebuildSound
<1> SUFFICES ASSUME RebuildInv PROVE RebuildSound
  OBVIOUS
<1>1. RebuildTypeOK
  BY DEF RebuildInv, StoreShapes, WorkShapes, RebuildTypeOK
<1>2. UntornIsKept
  <2> SUFFICES ASSUME NEW e \in Live \ torn, put[e].pc = "committed", Accepts(e)
               PROVE  e \in rows[active]
    BY DEF UntornIsKept
  <2>1. EventInv(e) /\ Sound(e)
    BY DEF RebuildInv, Sound, Listed
  <2>2. HeldBy(e, active) /\ put[e].gens = <<>>
    BY <2>1 DEF EventInv
  <2> QED
    BY <2>2 DEF HeldBy, ToSet
<1>3. ASSUME NEW j \in Jobs, Whole(j)
      PROVE  Applied(j) = Cursors /\ \A c \in Cursors : \A e \in page[j][c] :
                 Accepts(e) /\ e \in rows[j] \cup torn
  <2>1. j \in Generations
    BY RebuildConstants
  <2>2. ASSUME NEW c \in Cursors, NEW e \in page[j][c] PROVE Accepts(e) /\ e \in rows[j] \cup torn
    <3>1. e \in marks[j] /\ Accepts(e)
      BY <1>3 DEF Whole
    <3> QED
      BY <2>1, <3>1 DEF RebuildInv, StoreInv, MarkedHaveRows
  <2> QED
    BY <1>3, <2>2 DEF Applied, Whole
<1>4. CompleteIsWhole
  <2>1. ASSUME NEW j \in Jobs, job[j].status = "complete" PROVE Whole(j)
    BY <2>1 DEF RebuildInv, StoreInv, VerifiedIsWhole
  <2> QED
    BY <1>3, <2>1 DEF CompleteIsWhole
<1>5. SpoiltStaysOut
  BY DEF RebuildInv, StoreInv, VerifiedIsWhole, Whole, SpoiltStaysOut
<1> QED
  BY <1>1, <1>2, <1>4, <1>5 DEF RebuildSound

(* Whatever crashes, fails or is retried, and however many jobs and workers *)
(* there are: an accepted live event whose offset is committed stays in the *)
(* active generation unless a step caught it halfway; a complete job left   *)
(* out no page of its range; a job with a refused event never becomes       *)
(* active (recovery.go, clickhouse.go).                                     *)
THEOREM RebuildIsSound == RebuildSpec => []RebuildSound
<1>1. RebuildSpec => []RebuildInv
  BY RebuildStarts, RebuildKeeps, PTL DEF RebuildSpec
<1> QED
  BY <1>1, RebuildPromises, PTL
===============================================================================
