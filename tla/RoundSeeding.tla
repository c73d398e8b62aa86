----------------------------- MODULE RoundSeeding -----------------------------
(***************************************************************************)
(* The seeding of round 1 by workers that lease the job, next to requests  *)
(* that may still register, close or cancel.                               *)
(*                                                                         *)
(*   store/seeding.go     reap, claim, one chunk of slots, finalize        *)
(*   seeding_worker.go    the tick: reap, claim, process                   *)
(*   domain/seeding.go, provision_kickoff.go   plans                       *)
(*                                                                         *)
(* A chunk takes the shared barrier, then the job's row, and for the last  *)
(* chunk the tournament's row; the reaper takes the tournament's row and   *)
(* then the job's.  Postgres breaks the cycle by aborting one of the two.  *)
(***************************************************************************)
EXTENDS Registration, FiniteSetsExt

CONSTANTS
    Workers,        \* seeding workers; a lease owner is a worker
    SlotsPerChunk,  \* most slots of a chunk (MaxSeedingSlotsPerChunk)
    BatchSize,      \* slots of a provisioning batch
    MaxLapses,      \* bound: leases that end while their owner still works
    MaxCrashes      \* bound: crashes of workers and requests

ASSUME RoundSeedingAssumption ==
    /\ SlotsPerChunk \in Nat \ {0} /\ BatchSize \in Nat \ {0}
    /\ MaxLapses \in Nat /\ MaxCrashes \in Nat
    /\ Nobody \notin Workers

VARIABLES
    slots,      \* bracket_slots with tournament_round_slot_players, committed
    batches,    \* provisioning_batches: their first and last slot
    wrk,        \* each worker: step, claimed version and checkpoint
    lapses, crashes

seedingVars == <<slots, batches, wrk, lapses, crashes>>
vars == <<registrationVars, seedingVars>>

Resting == [pc |-> "idle", version |-> 0, next |-> 0]

SeedingInit ==
    /\ Init
    /\ slots = <<>> /\ batches = <<>>
    /\ wrk = [w \in Workers |-> Resting]
    /\ lapses = 0 /\ crashes = 0

-----------------------------------------------------------------------------
(* Plans                                                                   *)

SizeForSlot(plan, i) == plan.base + IF i < plan.remainder THEN 1 ELSE 0

\* Slots next .. NextSeedingChunkBounds - 1 make the next chunk.
NextSeedingChunkBounds(plan, next) == Min({plan.slots, next + SlotsPerChunk})

\* The sum of the sizes, as the number of places counted.
PlayersForSlots(plan, from, to) ==
    Cardinality(UNION {{i} \X (1 .. SizeForSlot(plan, i)) : i \in from .. to - 1})

\* Mutant: the cursor is read inclusively.
LoadFromLast(last, limit) ==
    {p \in Registered : p >= last /\ Cardinality({q \in Registered : q >= last /\ q < p}) < limit}

\* The players after the last one, in the order of their ids, at most limit.
LoadSeedingSourcePlayers(last, limit) ==
    {p \in Registered : p > last /\ Cardinality({q \in Registered : q > last /\ q < p}) < limit}

\* Players of a chunk are dealt to its slots in order.
ChunkSlots(plan, from, to, players) ==
    [i \in from .. to - 1 |->
        {p \in players :
            Cardinality({q \in players : q < p}) \in
                PlayersForSlots(plan, from, i) .. PlayersForSlots(plan, from, i + 1) - 1}]

ComputeProvisionBatchPlan(slotCount) ==
    [b \in 0 .. ((slotCount + BatchSize - 1) \div BatchSize) - 1 |->
        [from |-> b * BatchSize, to |-> Min({b * BatchSize + BatchSize, slotCount}) - 1]]

-----------------------------------------------------------------------------
(* Row locks and the barrier                                               *)

JobRowHeld(w) == \E v \in Workers \ {w} : wrk[v].pc = "chunk"

\* A reaper, a command that locks the row, or the one that closes.
TournamentRowHeld(w) ==
    \/ \E v \in Workers \ {w} : wrk[v].pc = "reaping"
    \/ \E h \in Handlers : \/ tx[h].pc # "idle" /\ tx[h].cmd.type = "cancel"
                           \/ tx[h].closes

BarrierHeldExclusive == \E h \in Handlers : tx[h].pc # "idle" /\ Exclusive(tx[h].cmd)

\* Requests meet the workers at the barrier and at the tournament's row.
HandlerStep(h) ==
    /\ \/ ProceedCommand(h)
       \/ \E c \in Commands :
            /\ Exclusive(c) => \A w \in Workers : wrk[w].pc # "chunk"
            /\ c.type = "cancel" => \A w \in Workers : wrk[w].pc # "reaping"
            /\ BeginCommand(h, c)
    /\ UNCHANGED seedingVars

RollbackRequest(h) ==
    /\ crashes < MaxCrashes /\ crashes' = crashes + 1
    /\ Rollback(h)
    /\ UNCHANGED <<slots, batches, wrk, lapses>>

-----------------------------------------------------------------------------
(* The worker                                                              *)

SetJob(status) == [job EXCEPT !.status = status, !.owner = Nobody, !.expired = FALSE]

ActiveJob == job # NoJob /\ job.status \in {"pending", "in_progress"}

\* Jobs of a tournament that is over are cancelled before reaping and claiming.
CancelTerminalSeedingJobs ==
    IF ActiveJob /\ phase \in Terminal THEN SetJob("cancelled") ELSE job

\* Mutant: only pending jobs are ever picked up.
ExpiredNever == FALSE

Expired == job # NoJob /\ phase \notin Terminal /\ job.status = "in_progress" /\ job.expired

\* The tournament's row is skipped when locked; the job's row is waited for.
\* A reap that finds nothing changes nothing and is left out.
ReapExpiredSeedingLeases(w) ==
    /\ wrk[w].pc = "idle"
    /\ Expired /\ ~TournamentRowHeld(w)
    /\ wrk' = [wrk EXCEPT ![w].pc = "reaping"]
    /\ UNCHANGED <<registrationVars, slots, batches, lapses, crashes>>

\* The version stays: the next claim moves the fence.
ReapJobRow(w) ==
    /\ wrk[w].pc = "reaping" /\ ~JobRowHeld(w)
    /\ job' = IF Expired THEN SetJob("pending") ELSE job
    /\ wrk' = [wrk EXCEPT ![w] = Resting]
    /\ UNCHANGED <<phase, registeredCount, shardCount, registration, outcome, outbox, round, tx,
                   slots, batches, lapses, crashes>>

Claimable == job # NoJob /\ phase \notin Terminal /\ (job.status = "pending" \/ Expired)

ClaimNextSeedingJob(w) ==
    /\ wrk[w].pc = "idle" /\ ActiveJob /\ ~JobRowHeld(w)
    /\ IF Claimable
       THEN /\ ~TournamentRowHeld(w)
            /\ job' = [job EXCEPT !.status = "in_progress", !.owner = w, !.version = @ + 1, !.expired = FALSE]
            /\ wrk' = [wrk EXCEPT ![w] = [pc |-> "claimed", version |-> job.version + 1, next |-> job.next]]
       ELSE /\ CancelTerminalSeedingJobs # job
            /\ job' = CancelTerminalSeedingJobs /\ UNCHANGED wrk
    /\ UNCHANGED <<phase, registeredCount, shardCount, registration, outcome, outbox, round, tx,
                   slots, batches, lapses, crashes>>

\* Mutant: the checkpoint alone is compared.
FencedByCheckpoint(w) == job.status = "in_progress" /\ job.next = wrk[w].next

\* The claim still holds: owner, version and checkpoint are those claimed.
Fenced(w) ==
    /\ job.status = "in_progress" /\ job.owner = w
    /\ job.version = wrk[w].version /\ job.next = wrk[w].next

ChunkPlayers ==
    LoadSeedingSourcePlayers(job.last,
        PlayersForSlots(job.plan, job.next, NextSeedingChunkBounds(job.plan, job.next)))

\* What a chunk finds under the job's row lock.
ChunkVerdict(w) ==
    LET to == NextSeedingChunkBounds(job.plan, job.next)
    IN CASE ~Fenced(w) -> "stale"
         [] Fenced(w) /\ phase \in Terminal -> "cancelled"
         [] Fenced(w) /\ phase \notin {"seeding", "in_progress"} \cup Terminal -> "quarantined"
         [] OTHER ->
              IF Cardinality(ChunkPlayers) # PlayersForSlots(job.plan, job.next, to) THEN "quarantined"
              ELSE IF \E i \in DOMAIN slots :
                        i \in job.next .. to - 1 /\ slots[i] # ChunkSlots(job.plan, job.next, to, ChunkPlayers)[i]
                   THEN "quarantined"
              ELSE "process"

BeginChunk(w) ==
    /\ wrk[w].pc = "claimed"
    /\ ~BarrierHeldExclusive /\ ~JobRowHeld(w)
    /\ job' = IF ChunkVerdict(w) \in {"cancelled", "quarantined"} THEN SetJob(ChunkVerdict(w)) ELSE job
    /\ wrk' = [wrk EXCEPT ![w] = IF ChunkVerdict(w) = "process" THEN [@ EXCEPT !.pc = "chunk"] ELSE Resting]
    /\ UNCHANGED <<phase, registeredCount, shardCount, registration, outcome, outbox, round, tx,
                   slots, batches, lapses, crashes>>

LastChunk == NextSeedingChunkBounds(job.plan, job.next) = job.plan.slots

WriteSlots ==
    LET to == NextSeedingChunkBounds(job.plan, job.next)
        chunk == ChunkSlots(job.plan, job.next, to, ChunkPlayers)
    IN slots' = [i \in 0 .. to - 1 |-> IF i < job.next THEN slots[i] ELSE chunk[i]]

\* A checkpoint gives the lease back: one chunk in a tick.
CommitChunk(w) ==
    /\ wrk[w].pc = "chunk" /\ ~LastChunk
    /\ WriteSlots
    /\ job' = [SetJob("pending") EXCEPT !.next = NextSeedingChunkBounds(job.plan, job.next),
                                        !.last = Max(ChunkPlayers)]
    /\ wrk' = [wrk EXCEPT ![w] = Resting]
    /\ UNCHANGED <<phase, registeredCount, shardCount, registration, outcome, outbox, round, tx,
                   batches, lapses, crashes>>

VerifySeedingSourceExhausted ==
    /\ \A p \in Registered : p <= Max(ChunkPlayers)
    /\ RegisteredSum = job.plan.players

\* The last chunk: slots, the job's end, the round, the phase and the
\* provisioning batches in one commit.
FinalizeSeeding(w) ==
    /\ wrk[w].pc = "chunk" /\ LastChunk
    /\ ~TournamentRowHeld(w)
    /\ WriteSlots
    /\ IF VerifySeedingSourceExhausted /\ round.status = "pending"
       THEN /\ job' = [SetJob("completed") EXCEPT !.next = job.plan.slots, !.last = Max(ChunkPlayers)]
            /\ round' = [status |-> "provisioning", final |-> job.plan.final]
            /\ phase' = "in_progress"
            /\ batches' = ComputeProvisionBatchPlan(job.plan.slots)
       ELSE job' = SetJob("quarantined") /\ UNCHANGED <<round, phase, batches>>
    /\ wrk' = [wrk EXCEPT ![w] = Resting]
    /\ UNCHANGED <<registeredCount, shardCount, registration, outcome, outbox, tx, lapses, crashes>>

-----------------------------------------------------------------------------
(* What can go wrong                                                       *)

Working(w) == job.owner = w /\ wrk[w].pc \in {"claimed", "chunk"} /\ wrk[w].version = job.version

\* Time passes.  A lease whose owner has gone always ends.
LeaseExpires ==
    /\ job # NoJob /\ job.status = "in_progress" /\ ~job.expired
    /\ \/ lapses < MaxLapses /\ lapses' = lapses + 1
       \/ ~(\E w \in Workers : Working(w)) /\ lapses' = lapses
    /\ job' = [job EXCEPT !.expired = TRUE]
    /\ UNCHANGED <<phase, registeredCount, shardCount, registration, outcome, outbox, round, tx,
                   slots, batches, wrk, crashes>>

\* The deadlock detector aborts the chunk or the reaper; a reaper's error is
\* logged and its tick goes on.
DeadlockAbort(w, v) ==
    /\ wrk[w].pc = "chunk" /\ LastChunk /\ wrk[v].pc = "reaping"
    /\ \/ wrk' = [wrk EXCEPT ![w] = Resting]
       \/ wrk' = [wrk EXCEPT ![v] = Resting]
    /\ UNCHANGED <<registrationVars, slots, batches, lapses, crashes>>

CrashWorker(w) ==
    /\ wrk[w].pc # "idle" /\ crashes < MaxCrashes
    /\ crashes' = crashes + 1
    /\ wrk' = [wrk EXCEPT ![w] = Resting]
    /\ UNCHANGED <<registrationVars, slots, batches, lapses>>

WorkerStep(w) ==
    \/ ReapExpiredSeedingLeases(w) \/ ReapJobRow(w) \/ ClaimNextSeedingJob(w)
    \/ BeginChunk(w) \/ CommitChunk(w) \/ FinalizeSeeding(w)

SeedingNext ==
    \/ \E h \in Handlers : HandlerStep(h) \/ RollbackRequest(h)
    \/ \E w \in Workers : WorkerStep(w) \/ CrashWorker(w)
    \/ \E w, v \in Workers : DeadlockAbort(w, v)
    \/ LeaseExpires

SeedingSpec == SeedingInit /\ [][SeedingNext]_vars

\* Every tick is followed by another one, requests end, leases and deadlocks
\* end by themselves.  Strong for the wait for the tournament's row: Postgres
\* grants a row to who waits for it when its holder is aborted.
Fairness ==
    /\ \A h \in Handlers : WF_vars(ProceedCommand(h) /\ UNCHANGED seedingVars)
    /\ \A w \in Workers : WF_vars(WorkerStep(w)) /\ SF_vars(FinalizeSeeding(w))
    /\ \A w, v \in Workers : WF_vars(DeadlockAbort(w, v))
    /\ WF_vars(LeaseExpires)

FairSeedingSpec == SeedingSpec /\ Fairness

-----------------------------------------------------------------------------
(* Properties                                                              *)

SeedingTypeOK ==
    /\ RegistrationTypeOK
    /\ DOMAIN slots \subseteq Nat
    /\ \A w \in Workers : wrk[w].pc \in {"idle", "reaping", "claimed", "chunk"}
    /\ job # NoJob => (job.status = "in_progress" <=> job.owner \in Workers)

(* The slots written so far are those before the checkpoint, of the planned *)
(* sizes, with no player in two of them; once the job is completed every    *)
(* registered player has his place.                                         *)
SeededOnce ==
    job # NoJob =>
        /\ job.status # "quarantined" => DOMAIN slots = 0 .. job.next - 1
        /\ \A i \in DOMAIN slots : Cardinality(slots[i]) = SizeForSlot(job.plan, i)
        /\ \A i, j \in DOMAIN slots : i # j => slots[i] \cap slots[j] = {}
        /\ job.status = "completed" => UNION {slots[i] : i \in DOMAIN slots} = Registered

(* Nothing the service does by itself makes a job drift from its plan: the  *)
(* quarantine is for rows changed by someone else.                          *)
NeverQuarantined == job # NoJob => job.status # "quarantined"

(* The tournament is in progress exactly when its round can be provisioned, *)
(* and the batches cover each slot once.                                    *)
HandedToProvisioning ==
    /\ phase = "in_progress" => job.status = "completed" /\ round.status = "provisioning"
    /\ round.status = "provisioning" =>
         \A i \in DOMAIN slots :
            Cardinality({b \in DOMAIN batches : i \in batches[b].from .. batches[b].to}) = 1

(* A slot that is written is never written again, and only the holder of    *)
(* the latest claim moves the checkpoint.                                   *)
CheckpointIsFenced ==
    [][ /\ \A i \in DOMAIN slots : i \in DOMAIN slots' /\ slots'[i] = slots[i]
        /\ job # NoJob /\ job'.next # job.next =>
             \E w \in Workers : wrk[w].pc = "chunk" /\ wrk[w].version = job.version /\ job.owner = w ]_vars

(* A job that was left behind by the close of the registration ends, in     *)
(* spite of leases that end too early, crashes and deadlocks.               *)
SeedingEnds == ActiveJob ~> ~ActiveJob

(* Together: each registered player is seeded once and handed over.        *)
SeedingSound == SeedingTypeOK /\ SeededOnce /\ NeverQuarantined /\ HandedToProvisioning

(* Together: registrations and slots that are written stand.               *)
RowsStand == NoLateRegistration /\ CheckpointIsFenced
=============================================================================
