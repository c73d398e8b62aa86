---------------------------- MODULE Provisioning ----------------------------
(***************************************************************************)
(* The provisioning of one round: workers lease batches of slots, assign   *)
(* rooms in a transaction, create the rooms in Room Gameplay outside of    *)
(* any transaction, and finish the batch in a second one, next to manual   *)
(* retries and quarantines and the cancellation of the tournament.         *)
(*                                                                         *)
(*   store/provisioning_claim.go     reap, claim                           *)
(*   store/provisioning_process.go   prepare, heartbeat, finalize, manual  *)
(*   store/provisioning.go, domain/provision_kickoff.go   the kick-off     *)
(*   service_provisioning.go, provisioning_worker.go      one attempt      *)
(*                                                                         *)
(* Seeding leaves the round provisioning with its batches pending          *)
(* (RoundSeeding), so a kick-off command finds its work done.  A           *)
(* transaction is one step except the successful finish, which counts the  *)
(* open batches before it commits and locks only its own one.              *)
(***************************************************************************)
EXTENDS Integers, FiniteSets

CONSTANTS
    Workers,        \* provisioning workers; a lease owner is a worker
    Batches,        \* batch ids of the round
    SlotsOf,        \* the slots of each batch
    Nobody,         \* no owner
    RetryBudget,    \* rules.retryBudget of the tournament
    Manual,         \* manual commands: [id, type, batch, attempt]
    Foreign,        \* slots that may carry an assignment to another room
    MaxManual,      \* bound: manual commands answered
    MaxFaults       \* bound: crashes, and leases that end under their worker

ASSUME ProvisioningAssumption ==
    /\ \A b, c \in Batches : b # c => SlotsOf[b] \cap SlotsOf[c] = {}
    /\ \A b \in Batches : SlotsOf[b] # {}
    /\ IsFiniteSet(UNION {SlotsOf[b] : b \in Batches})
    /\ Foreign \subseteq UNION {SlotsOf[b] : b \in Batches}
    /\ \A c \in Manual : c.batch \in Batches /\ c.attempt \in Nat
    /\ RetryBudget \in Nat \ {0} /\ MaxManual \in Nat /\ MaxFaults \in Nat
    /\ Nobody \notin Workers

Slots == UNION {SlotsOf[b] : b \in Batches}

VARIABLES
    phase,      \* tournaments.phase: in_progress or cancelled
    round,      \* tournament_rounds.status
    batch,      \* provisioning_batches: status, retry_attempt and lease
    room,       \* assigned_matches: none, own or foreign room of a slot
    shards,     \* sum of round_progress_shards.assigned_count
    announced,  \* number of MatchAssigned events in the outbox, by slot
    rooms,      \* slots whose room exists in Room Gameplay
    outcome,    \* command_idempotency of the attempts of each batch
    manual,     \* command_idempotency of the manual commands
    wrk,        \* each worker: step and the claim it works on
    faults      \* crashes and lapses so far

vars == <<phase, round, batch, room, shards, announced, rooms, outcome, manual, wrk, faults>>

Attempts == 0 .. RetryBudget + 1

Settled == {"completed", "quarantined"}

Resting == [pc |-> "idle", batch |-> Nobody, attempt |-> 0, version |-> 0, left |-> {}, force |-> FALSE, open |-> FALSE]

Init ==
    /\ phase = "in_progress" /\ round = "provisioning"
    /\ batch = [b \in Batches |-> [status |-> "pending", attempt |-> 0, owner |-> Nobody, version |-> 0, expired |-> FALSE]]
    /\ \E f \in SUBSET Foreign :
          /\ room = [s \in Slots |-> IF s \in f THEN "foreign" ELSE "none"]
          /\ shards = Cardinality(f)
    /\ announced = [s \in Slots |-> 0]
    /\ rooms = {}
    /\ outcome = [b \in Batches |-> [a \in Attempts |-> "none"]]
    /\ manual = [c \in Manual |-> "none"]
    /\ wrk = [w \in Workers |-> Resting]
    /\ faults = 0

-----------------------------------------------------------------------------
(* Locks, fences and the effects several transactions share                *)

\* The finish of a batch holds its row, its attempt's command lock and the
\* shared barrier until it commits.
RowHeld(b) == \E w \in Workers : wrk[w].pc = "tallied" /\ wrk[w].batch = b
BarrierShared == \E w \in Workers : wrk[w].pc = "tallied"

\* Mutant: the fence compares the status only.
FencedByStatus(w) == batch[wrk[w].batch].status = "in_progress"

\* Status, owner, version and attempt of the row are those of the claim.
Fenced(w) ==
    LET b == batch[wrk[w].batch]
    IN  /\ b.status = "in_progress" /\ b.owner = w
        /\ b.version = wrk[w].version /\ b.attempt = wrk[w].attempt

Released(b, status, attempt) ==
    [b EXCEPT !.status = status, !.attempt = attempt, !.owner = Nobody, !.expired = FALSE]

Rest(w) == wrk' = [wrk EXCEPT ![w] = Resting]

Goto(w, step) == wrk' = [wrk EXCEPT ![w].pc = step]

\* insertCommandOutcomeWithTournament for the attempt of a worker.
RecordAttempt(w, answer) == outcome' = [outcome EXCEPT ![wrk[w].batch][wrk[w].attempt] = answer]

PriorOutcome(w) == outcome[wrk[w].batch][wrk[w].attempt] # "none"

\* A worker's quarantine blocks a round that is still provisioning.
BlockRound == round' = IF round = "provisioning" THEN "blocked" ELSE round

\* A manual quarantine also blocks a round that plays.
BlockRoundManually == round' = IF round \in {"provisioning", "in_progress", "seeded"} THEN "blocked" ELSE round

-----------------------------------------------------------------------------
(* Leases                                                                  *)

ReapExpiredProvisioningLeases(b) ==
    /\ batch[b].status = "in_progress" /\ batch[b].expired /\ ~RowHeld(b)
    /\ batch' = [batch EXCEPT ![b] = Released(@, IF @.attempt > 0 THEN "retried" ELSE "pending", @.attempt)]
    /\ UNCHANGED <<phase, round, room, shards, announced, rooms, outcome, manual, wrk, faults>>

\* Mutant: a batch that was retried is not taken up.
ClaimableWhenPending(b) == batch[b].status = "pending" \/ (batch[b].status = "in_progress" /\ batch[b].expired)

Claimable(b) ==
    \/ batch[b].status \in {"pending", "retried"}
    \/ batch[b].status = "in_progress" /\ batch[b].expired

ClaimNextProvisioningBatch(w, b) ==
    /\ wrk[w].pc = "idle"
    /\ phase = "in_progress" /\ round = "provisioning"
    /\ Claimable(b) /\ ~RowHeld(b)
    /\ \A c \in Batches : c < b => ~Claimable(c) \/ RowHeld(c)
    /\ batch' = [batch EXCEPT ![b].status = "in_progress", ![b].owner = w, ![b].expired = FALSE, ![b].version = @ + 1]
    /\ wrk' = [wrk EXCEPT ![w] = [Resting EXCEPT !.pc = "claimed", !.batch = b,
                                     !.attempt = batch[b].attempt, !.version = batch[b].version + 1]]
    /\ UNCHANGED <<phase, round, room, shards, announced, rooms, outcome, manual, faults>>

\* The renewal needs the exact fence, and not that the lease still runs; a
\* worker that lost it gives up without an outcome.
HeartbeatProvisioningLease(w) ==
    /\ wrk[w].pc \in {"prepared", "calling"} /\ ~RowHeld(wrk[w].batch)
    /\ IF Fenced(w)
       THEN /\ wrk[w].pc = "prepared" \/ batch[wrk[w].batch].expired
            /\ batch' = [batch EXCEPT ![wrk[w].batch].expired = FALSE]
            /\ Goto(w, "calling")
       ELSE Rest(w) /\ UNCHANGED batch
    /\ UNCHANGED <<phase, round, room, shards, announced, rooms, outcome, manual, faults>>

-----------------------------------------------------------------------------
(* Prepare                                                                 *)

\* Assigns the slots that have no room yet and announces those whose event
\* is not in the outbox; the shards count the rows inserted.
PrepareBulkAssignments(b) ==
    LET new == {s \in SlotsOf[b] : room[s] = "none"}
    IN  /\ room' = [s \in Slots |-> IF s \in new THEN "own" ELSE room[s]]
        /\ shards' = shards + Cardinality(new)
        /\ announced' = [s \in Slots |-> IF s \in SlotsOf[b] /\ announced[s] = 0 THEN 1 ELSE announced[s]]

ConflictingAssignment(b) == \E s \in SlotsOf[b] : room[s] = "foreign"

RejectPrepare(w) == RecordAttempt(w, "rejected") /\ Rest(w) /\ UNCHANGED <<round, batch, room, shards, announced>>

QuarantinePrepareConflict(w) ==
    /\ batch' = [batch EXCEPT ![wrk[w].batch] = Released(@, "quarantined", @.attempt)]
    /\ BlockRound
    /\ RecordAttempt(w, "quarantined")
    /\ Rest(w) /\ UNCHANGED <<room, shards, announced>>

\* Mutant: a worker that lost its lease records the refusal.
GiveUpRecorded(w) == RejectPrepare(w)

\* ErrProvisioningFence: nothing is recorded.
GiveUp(w) == Rest(w) /\ UNCHANGED <<round, batch, room, shards, announced, outcome>>

PrepareProvisioningBatch(w) ==
    /\ wrk[w].pc = "claimed" /\ ~RowHeld(wrk[w].batch)
    /\ CASE PriorOutcome(w) -> Rest(w) /\ UNCHANGED <<round, batch, room, shards, announced, outcome>>
         [] ~PriorOutcome(w) /\ phase = "cancelled" -> RejectPrepare(w)
         [] ~PriorOutcome(w) /\ phase # "cancelled" /\ ~Fenced(w) -> GiveUp(w)
         [] OTHER ->
              IF round # "provisioning" THEN RejectPrepare(w)
              ELSE IF ConflictingAssignment(wrk[w].batch) THEN QuarantinePrepareConflict(w)
              ELSE /\ PrepareBulkAssignments(wrk[w].batch)
                   /\ wrk' = [wrk EXCEPT ![w].pc = "prepared", ![w].left = SlotsOf[wrk[w].batch]]
                   /\ UNCHANGED <<round, batch, outcome>>
    /\ UNCHANGED <<phase, rooms, manual, faults>>

-----------------------------------------------------------------------------
(* Room calls, outside of any transaction                                  *)

\* Room Gameplay's handler: a slot it knows is answered with its room.
ProvisionDurable(s) == rooms' = rooms \cup {s}

\* One call of the fan-out; the order of the calls is open.
ProvisionRoom(w, s) ==
    /\ wrk[w].pc = "calling" /\ s \in wrk[w].left
    /\ ProvisionDurable(s)
    /\ wrk' = [wrk EXCEPT ![w].left = @ \ {s}]
    /\ UNCHANGED <<phase, round, batch, room, shards, announced, outcome, manual, faults>>

\* The first error ends the fan-out; the room may exist all the same.  An
\* error that no retry can cure forces the quarantine.
ProvisionRoomFails(w, s) ==
    /\ wrk[w].pc = "calling" /\ s \in wrk[w].left
    /\ UNCHANGED rooms \/ ProvisionDurable(s)
    /\ \E force \in BOOLEAN : wrk' = [wrk EXCEPT ![w].pc = "failed", ![w].force = force]
    /\ UNCHANGED <<phase, round, batch, room, shards, announced, outcome, manual, faults>>

-----------------------------------------------------------------------------
(* Finalize                                                                *)

Exhausted(attempt) == attempt > RetryBudget

FinalizeProvisioningBatchFailure(w) ==
    LET b == wrk[w].batch
        next == wrk[w].attempt + 1
    IN  /\ wrk[w].pc = "failed" /\ ~RowHeld(b)
        /\ IF PriorOutcome(w) \/ ~Fenced(w)
           THEN UNCHANGED <<batch, round, outcome>>
           ELSE IF wrk[w].force \/ Exhausted(next)
           THEN /\ batch' = [batch EXCEPT ![b] = Released(@, "quarantined", next)]
                /\ BlockRound
                /\ RecordAttempt(w, "quarantined")
           ELSE /\ batch' = [batch EXCEPT ![b] = Released(@, "retried", next)]
                /\ RecordAttempt(w, "retried")
                /\ UNCHANGED round
        /\ Rest(w)
        /\ UNCHANGED <<phase, room, shards, announced, rooms, manual, faults>>

\* Batches not completed, as the transaction of batch b sees them.
OpenBatches(b) == {c \in Batches \ {b} : batch[c].status # "completed"}

AssignedCount(b) == Cardinality({s \in SlotsOf[b] : room[s] = "own"})

\* The finish up to its count; without the fence it ends with no outcome.
TallyBatches(w) ==
    LET b == wrk[w].batch
    IN  /\ wrk[w].pc = "calling" /\ wrk[w].left = {} /\ ~RowHeld(b)
        /\ IF PriorOutcome(w) \/ ~Fenced(w) \/ AssignedCount(b) # Cardinality(SlotsOf[b])
           THEN Rest(w)
           ELSE wrk' = [wrk EXCEPT ![w].pc = "tallied", ![w].open = OpenBatches(b) # {}]
        /\ UNCHANGED <<phase, round, batch, room, shards, announced, rooms, outcome, manual, faults>>

OpenRound(open) == round' = IF ~open /\ round = "provisioning" THEN "in_progress" ELSE round

FinalizeProvisioningBatchSuccess(w) ==
    LET b == wrk[w].batch
    IN  /\ wrk[w].pc = "tallied"
        /\ batch' = [batch EXCEPT ![b] = Released(@, "completed", @.attempt)]
        /\ OpenRound(wrk[w].open)
        /\ RecordAttempt(w, "completed")
        /\ Rest(w)
        /\ UNCHANGED <<phase, room, shards, announced, rooms, manual, faults>>

-----------------------------------------------------------------------------
(* Commands                                                                *)

\* The first time the command id is seen; a repeat gets the stored answer.
Unanswered(c) == manual[c] = "none" /\ Cardinality({d \in Manual : manual[d] # "none"}) < MaxManual

RecordManual(c, answer) == manual' = [manual EXCEPT ![c] = answer]

\* A round with its batches is accepted as done; one that is blocked is not.
DecideProvisionKickoff ==
    IF phase = "cancelled" \/ round = "blocked" THEN "rejected" ELSE "accepted"

\* The exclusive barrier waits for the transactions that share it.
BeginProvisionRound == ~BarrierShared

ProvisionRound(c) ==
    /\ c.type = "provision" /\ Unanswered(c) /\ BeginProvisionRound
    /\ RecordManual(c, DecideProvisionKickoff)
    /\ UNCHANGED <<phase, round, batch, room, shards, announced, rooms, outcome, wrk, faults>>

\* Attempt 0 asks for the next one; a batch that is retried already, or
\* quarantined, needs nothing.
RetryVerdict(c) ==
    LET b == batch[c.batch]
    IN  CASE b.status = "quarantined" -> "nothing"
          [] b.status = "retried" /\ c.attempt = b.attempt /\ c.attempt > 0 -> "nothing"
          [] b.status # "quarantined" /\ c.attempt \notin {0, b.attempt, b.attempt + 1} -> "refused"
          [] b.status \notin {"quarantined", "retried"} /\ c.attempt > 0 /\ c.attempt = b.attempt -> "refused"
          [] OTHER -> IF Exhausted(b.attempt + 1) THEN "quarantined"
                      ELSE IF b.status = "completed" THEN "refused" ELSE "retried"

\* Neither the phase nor the round is read.
ManualRetryProvisioningBatch(c) ==
    /\ c.type = "retry" /\ Unanswered(c) /\ ~RowHeld(c.batch)
    /\ RecordManual(c, IF RetryVerdict(c) = "refused" THEN "rejected" ELSE "accepted")
    /\ batch' = CASE RetryVerdict(c) = "quarantined" -> [batch EXCEPT ![c.batch] = Released(@, "quarantined", @.attempt)]
                  [] RetryVerdict(c) = "retried" -> [batch EXCEPT ![c.batch] = Released(@, "retried", @.attempt + 1)]
                  [] OTHER -> batch
    /\ IF RetryVerdict(c) = "quarantined" THEN BlockRoundManually ELSE UNCHANGED round
    /\ UNCHANGED <<phase, room, shards, announced, rooms, outcome, wrk, faults>>

ManualQuarantineProvisioningBatch(c) ==
    /\ c.type = "quarantine" /\ Unanswered(c) /\ ~RowHeld(c.batch)
    /\ IF batch[c.batch].status = "quarantined"
       THEN UNCHANGED <<batch, round>>
       ELSE /\ batch' = [batch EXCEPT ![c.batch] = Released(@, "quarantined", @.attempt)]
            /\ BlockRoundManually
    /\ RecordManual(c, "accepted")
    /\ UNCHANGED <<phase, room, shards, announced, rooms, outcome, wrk, faults>>

\* BeginCancelTournament and applyCancel: the phase only.
CancelTournament ==
    /\ phase = "in_progress" /\ ~BarrierShared
    /\ phase' = "cancelled"
    /\ UNCHANGED <<round, batch, room, shards, announced, rooms, outcome, manual, wrk, faults>>

-----------------------------------------------------------------------------
(* Time and crashes                                                        *)

Working(b) ==
    \E w \in Workers : wrk[w].pc # "idle" /\ wrk[w].batch = b /\ Fenced(w)

\* The lease of a worker that still works is renewed at a quarter of its
\* time, and may end all the same.
LeaseExpires(b) ==
    /\ batch[b].status = "in_progress" /\ ~batch[b].expired /\ ~RowHeld(b)
    /\ Working(b) => faults < MaxFaults
    /\ faults' = faults + IF Working(b) THEN 1 ELSE 0
    /\ batch' = [batch EXCEPT ![b].expired = TRUE]
    /\ UNCHANGED <<phase, round, room, shards, announced, rooms, outcome, manual, wrk>>

\* What is not committed is rolled back.
CrashWorker(w) ==
    /\ wrk[w].pc # "idle" /\ faults < MaxFaults
    /\ Rest(w) /\ faults' = faults + 1
    /\ UNCHANGED <<phase, round, batch, room, shards, announced, rooms, outcome, manual>>

-----------------------------------------------------------------------------
WorkerStep(w) ==
    \/ \E b \in Batches : ClaimNextProvisioningBatch(w, b)
    \/ PrepareProvisioningBatch(w)
    \/ HeartbeatProvisioningLease(w)
    \/ \E s \in Slots : ProvisionRoom(w, s)
    \/ FinalizeProvisioningBatchFailure(w)
    \/ TallyBatches(w)
    \/ FinalizeProvisioningBatchSuccess(w)

Next ==
    \/ \E w \in Workers :
          WorkerStep(w) \/ CrashWorker(w) \/ \E s \in Slots : ProvisionRoomFails(w, s)
    \/ \E b \in Batches : ReapExpiredProvisioningLeases(b) \/ LeaseExpires(b)
    \/ \E c \in Manual :
          ProvisionRound(c) \/ ManualRetryProvisioningBatch(c) \/ ManualQuarantineProvisioningBatch(c)
    \/ CancelTournament

Spec == Init /\ [][Next]_vars

\* Workers poll and go on with what they hold; the reaper runs at each tick;
\* the lease of a worker that is gone ends.
Fairness ==
    /\ \A w \in Workers : WF_vars(WorkerStep(w))
    /\ \A b \in Batches : WF_vars(ReapExpiredProvisioningLeases(b)) /\ WF_vars(~Working(b) /\ LeaseExpires(b))

FairSpec == Spec /\ Fairness

-----------------------------------------------------------------------------
(* Properties                                                              *)

(* Every variable has its type, and exactly the batches in progress have an
   owner. *)
ProvisioningTypeOK ==
    /\ phase \in {"in_progress", "cancelled"}
    /\ round \in {"provisioning", "in_progress", "blocked"}
    /\ \A b \in Batches :
          /\ batch[b].status \in {"pending", "retried", "in_progress"} \cup Settled
          /\ batch[b].owner # Nobody <=> batch[b].status = "in_progress"
    /\ rooms \subseteq Slots

(* The shards count the assignment rows, however often a batch is prepared,
   and each slot is announced once: completion compares the sum with the
   results. *)
AssignedOnce ==
    /\ shards = Cardinality({s \in Slots : room[s] # "none"})
    /\ \A s \in Slots : announced[s] = IF room[s] = "own" THEN 1 ELSE 0

(* A room exists only for a slot assigned to it, and a batch is completed
   only when all of its rooms exist, whoever created them. *)
CompletedHasRooms ==
    /\ \A s \in rooms : room[s] = "own"
    /\ \A b \in Batches : batch[b].status = "completed" => SlotsOf[b] \subseteq rooms

(* A round that plays has no batch that is not completed. *)
OpenedWhenProvisioned == round = "in_progress" => \A b \in Batches : batch[b].status = "completed"

(* A quarantined batch keeps the round from starting and stops one that
   plays, whatever order the finish of the last batch and the quarantine
   commit in. *)
QuarantineBlocks == (\E b \in Batches : batch[b].status = "quarantined") => round = "blocked"

(* A batch is tried at most RetryBudget times more. *)
WithinBudget == \A b \in Batches : batch[b].attempt > RetryBudget => batch[b].status = "quarantined"

(* A batch that will be claimed again has no recorded answer for its attempt:
   the worker would be handed that answer forever and never make the rooms. *)
NotPoisoned ==
    \A b \in Batches :
        (phase = "in_progress" /\ round = "provisioning" /\ batch[b].status \notin Settled)
            => outcome[b][batch[b].attempt] = "none"

Superseded(w) ==
    /\ wrk[w].pc # "idle"
    /\ LET b == batch[wrk[w].batch] IN b.version # wrk[w].version \/ b.attempt # wrk[w].attempt

(* A worker whose claim has been taken over or retried by hand changes
   neither the batch nor the round. *)
StaleChangesNothing ==
    [][\A w \in Workers : (Superseded(w) /\ wrk'[w] # wrk[w]) => UNCHANGED <<batch, round>>]_vars

(* Every batch of a round that stays provisioning is completed or
   quarantined, after crashes, lapsed leases and failed calls. *)
BatchesSettle ==
    \A b \in Batches : <>(batch[b].status \in Settled \/ round # "provisioning" \/ phase = "cancelled")

(* Together: assignments, rooms, batches and the round agree, and a batch  *)
(* that is claimed again can still succeed.                                *)
ProvisioningSound ==
    /\ ProvisioningTypeOK /\ AssignedOnce /\ CompletedHasRooms
    /\ OpenedWhenProvisioned /\ QuarantineBlocks /\ WithinBudget /\ NotPoisoned
=============================================================================
