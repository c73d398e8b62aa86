-------------------------- MODULE AnalyticsRebuild --------------------------
(***************************************************************************)
(* The ClickHouse projection of Analytics and its rebuild (ADR-0039).      *)
(*                                                                         *)
(*   analytics/src/kafka_consumer.go          the live consumer            *)
(*   analytics/src/store/clickhouse.go        generations, rows, markers   *)
(*   analytics/src/kafka_rebuild_consumer.go  one rebuild page a request   *)
(*   analytics/src/store/recovery.go          job, lease, checkpoints      *)
(*   analytics/src/analytics_backfill_client.go  a page of the producer    *)
(*                                                                         *)
(* ClickHouse has no transactions: each step below is one statement, or a  *)
(* lease check with the statement behind it.  A generation holds the rows  *)
(* of events and a marker of each; one generation is active.  A job builds *)
(* a generation of its own, named after it: it copies the active one, adds *)
(* the pages of the producer in order, and becomes the active one, while   *)
(* live events go to the active generation and to every open job's.        *)
(***************************************************************************)
EXTENDS Naturals, FiniteSets, Sequences, SequencesExt

CONSTANTS
    Live,         \* events of the live topics, each on a partition of its own
    Backfilled,   \* events only a producer's backfill still has
    Jobs,         \* recovery jobs
    Origin,       \* the generation Analytics starts with
    LastCursor,   \* cursors are 0 .. LastCursor; 0 is the empty string
    Worlds,       \* what the events are and what the producers' pages hold
    Rebuilders,   \* rebuild workers
    Tokens,       \* lease owner tokens, ordered as Analytics orders them
    FirstWorker,  \* the worker that has the partitions at first
    FirstTokens,  \* set of possible first draws: [Rebuilders -> Tokens], one-to-one
    MaxAttempts,  \* attempts at one record before it is dead-lettered
    MaxQueue,     \* bound: requests of a job in its partition
    MaxTroubles   \* bound: failed calls, crashes, leases run out, partitions moved

Events == Live \cup Backfilled
Cursors == 0 .. LastCursor
Kinds == {"good", "bad", "unreadable"}
Generations == {Origin} \cup Jobs

ASSUME RebuildAssumption ==
    /\ Origin \notin Jobs /\ IsFiniteSet(Jobs) /\ Live \cap Backfilled = {}
    /\ LastCursor \in Nat
    /\ Tokens \subseteq Nat /\ FirstWorker \in Rebuilders
    /\ FirstTokens \subseteq [Rebuilders -> Tokens]
    /\ \A t \in FirstTokens : \A v, w \in Rebuilders : v # w => t[v] # t[w]
    /\ Worlds \subseteq [kind : [Events -> Kinds], page : [Jobs -> [Cursors -> SUBSET Events]]]
    /\ MaxAttempts \in Nat \ {0}

VARIABLES
    kind,       \* what each event is: fixed from the start
    page,       \* the pages of each job's range: fixed from the start
    rows,       \* generation -> events with projection rows
    marks,      \* generation -> events with a processed marker
    gen,        \* generation -> status in projection_generations
    active,     \* the row of active_generation
    job,        \* recovery_jobs: status, pages completed
    lease,      \* recovery_leases: job -> token -> epoch, unexpired
    cp,         \* recovery_page_checkpoints: job -> cursor -> checkpoint
    idem,       \* recovery_request_idempotency: job -> cursor -> disposition
    queue,      \* the rebuild topic: job -> uncommitted requests, by cursor
    partition,  \* job -> worker its partition is assigned to
    deadJobs,   \* jobs with a request in the dead-letter topic
    put,        \* live event -> where its Apply stands
    task,       \* worker -> where its ExecutePage stands
    token,      \* worker -> its owner token
    spent,      \* tokens drawn so far
    torn,       \* history: events a step of a rebuild caught halfway
    away,       \* history: live event -> closed jobs when it was last listed
    troubles    \* failed calls, crashes, leases run out, partitions moved

store == <<rows, marks, gen, active>>
recovery == <<job, cp, idem>>
fixed == <<kind, page>>
kafka == <<queue, partition, deadJobs>>
history == <<torn, away>>
rebuildVars == <<fixed, store, recovery, lease, kafka, put, task, token, spent, history, troubles>>

NoCheckpoint == [index |-> 0, next |-> 0, bad |-> FALSE, applied |-> FALSE]
NoTask == [pc |-> "idle", job |-> Origin, cursor |-> 0, tries |-> 0, epoch |-> 0,
           src |-> Origin, todo |-> {}, bad |-> FALSE, pages |-> 0]

\* The bootstrap generation is complete and active; every job is requested.
RebuildInit ==
    /\ \E world \in Worlds : kind = world.kind /\ page = world.page
    /\ rows = [g \in Generations |-> {}]
    /\ marks = [g \in Generations |-> {}]
    /\ gen = [g \in Generations |-> IF g = Origin THEN "complete" ELSE "none"]
    /\ active = Origin
    /\ job = [j \in Jobs |-> [status |-> "none", pages |-> 0]]
    /\ lease = [j \in Jobs |-> [t \in Tokens |-> [epoch |-> 0, fresh |-> FALSE]]]
    /\ cp = [j \in Jobs |-> [c \in Cursors |-> NoCheckpoint]]
    /\ idem = [j \in Jobs |-> [c \in Cursors |-> "none"]]
    /\ queue = [j \in Jobs |-> <<0>>]
    /\ partition = [j \in Jobs |-> FirstWorker]
    /\ deadJobs = {}
    /\ put = [e \in Live |-> [pc |-> "idle", gens |-> <<>>, tries |-> 0]]
    /\ task = [w \in Rebuilders |-> NoTask]
    /\ token \in FirstTokens
    /\ spent = {token[w] : w \in Rebuilders}
    /\ torn = {} /\ away = [e \in Live |-> {}] /\ troubles = 0

-----------------------------------------------------------------------------
(* Live ingestion.                                                         *)

\* ParseAnalyticsRecord: an unreadable record is a terminal error.
Reads(e) == kind[e] # "unreadable"

\* The policy accepts an event, or quarantines it without a row.
Accepts(e) == kind[e] = "good"

ProjectionRows(e) == IF Accepts(e) THEN {e} ELSE {}

\* activeCompletedGeneration fails unless the active generation is complete.
ActiveCompleted == gen[active] = "complete"

\* Mutant: only jobs past their clone are written.
OpenWhenBuilding == {j \in Jobs : job[j].status = "building"}

\* Generations of open jobs are written besides the active one.
OpenJobs == {j \in Jobs : job[j].status \in {"initializing", "building"}}

Registered == {j \in Jobs : job[j].status # "none"}
ClosedJobs == {j \in Jobs : job[j].status \in {"complete", "quarantined"}}

InFlight == {e \in Live : put[e].pc \in {"list", "rows", "mark", "ack"}}

\* Events on their way through the generations listed for them, or done with.
Listed == {e \in Live : put[e].pc \in {"rows", "mark", "ack", "committed"}}

Trouble == troubles < MaxTroubles /\ troubles' = troubles + 1

\* An attempt ends in an error; after the last one the record is dead-lettered.
AttemptFails(e) ==
    put' = [put EXCEPT ![e] =
              IF @.tries + 1 = MaxAttempts THEN [@ EXCEPT !.pc = "dead", !.gens = <<>>]
              ELSE [pc |-> "idle", gens |-> <<>>, tries |-> @.tries + 1]]

liveUnchanged == UNCHANGED <<fixed, recovery, lease, kafka, task, token, spent>>

\* processOne parses the record, and Apply finds the active generation.
ListActive(e) ==
    /\ put[e].pc = "idle"
    /\ IF ~Reads(e) THEN put' = [put EXCEPT ![e].pc = "dead"]
       ELSE IF ActiveCompleted
            THEN put' = [put EXCEPT ![e].pc = "list", ![e].gens = <<active>>]
            ELSE AttemptFails(e)
    /\ UNCHANGED <<store, history, troubles>> /\ liveUnchanged

\* ListWriteGenerations then reads the open jobs, with a second query.
ListWriteGenerations(e) ==
    /\ put[e].pc = "list"
    /\ LET first == put[e].gens[1] IN
         /\ put' = [put EXCEPT ![e].pc = "rows", ![e].gens = @ \o SetToSeq(OpenJobs \ {first})]
         /\ away' = [away EXCEPT ![e] = ClosedJobs \ {first}]
         /\ torn' = IF active \in ClosedJobs \ {first} THEN torn \cup {e} ELSE torn
    /\ UNCHANGED <<store, troubles>> /\ liveUnchanged

RemainingWrites(e) == [put[e] EXCEPT !.gens = Tail(@), !.pc = IF Len(put[e].gens) = 1 THEN "ack" ELSE "rows"]

\* applyToGeneration skips a marked event, or writes its rows first ...
InsertProjectionRows(e) ==
    /\ put[e].pc = "rows"
    /\ LET g == put[e].gens[1] IN
         IF e \in marks[g] THEN put' = [put EXCEPT ![e] = RemainingWrites(e)] /\ rows' = rows
         ELSE /\ put' = [put EXCEPT ![e].pc = "mark"]
              /\ rows' = [rows EXCEPT ![g] = @ \cup ProjectionRows(e)]
    /\ UNCHANGED <<marks, gen, active, history, troubles>> /\ liveUnchanged

\* A worker has copied the rows of g and not yet its markers.
Copied(g) == \E w \in Rebuilders : task[w].pc = "copy markers" /\ task[w].src = g

\* ... and its marker last.
InsertProcessed(e) ==
    /\ put[e].pc = "mark"
    /\ marks' = [marks EXCEPT ![put[e].gens[1]] = @ \cup {e}]
    /\ put' = [put EXCEPT ![e] = RemainingWrites(e)]
    /\ torn' = IF Copied(put[e].gens[1]) THEN torn \cup {e} ELSE torn
    /\ UNCHANGED <<rows, gen, active, away, troubles>> /\ liveUnchanged

\* Every generation took the event: its offset is committed.
CommitLive(e) ==
    /\ put[e].pc = "ack"
    /\ put' = [put EXCEPT ![e].pc = "committed"]
    /\ UNCHANGED <<store, history, troubles>> /\ liveUnchanged

\* A statement fails, or the batch is abandoned and its attempts start anew.
LiveFails(e) ==
    /\ e \in InFlight /\ Trouble
    /\ \/ AttemptFails(e)
       \/ put' = [put EXCEPT ![e] = [pc |-> "idle", gens |-> <<>>, tries |-> 0]]
    /\ UNCHANGED <<store, history>> /\ liveUnchanged

-----------------------------------------------------------------------------
(* The lease of a job.                                                     *)

\* SelectLeaseWinner: the highest epoch, then the smallest token.
IsWinner(leases, t) ==
    /\ leases[t].epoch > 0
    /\ \A u \in Tokens : \/ leases[u].epoch < leases[t].epoch
                         \/ leases[u].epoch = leases[t].epoch /\ t <= u

\* ValidateLeaseOwnership.
OwnedBy(j, t) == IsWinner(lease[j], t) /\ lease[j][t].fresh
Owned(w) == OwnedBy(task[w].job, token[w])

At(w, pc) == task[w].pc = pc
StepTo(w, pc) == task' = [task EXCEPT ![w].pc = pc]

\* Commit moves the offset only for the worker the partition is assigned to.
Popped(w) ==
    LET j == task[w].job IN
    IF partition[j] = w THEN [queue EXCEPT ![j] = Tail(@)] ELSE queue

\* failureToDLQAndCommit.
DeadLetter(w) ==
    /\ deadJobs' = deadJobs \cup {task[w].job}
    /\ queue' = Popped(w) /\ task' = [task EXCEPT ![w] = NoTask]

\* A retryable error: try again at once, or give the request up.
Retry(w) ==
    IF task[w].tries + 1 = MaxAttempts THEN DeadLetter(w)
    ELSE /\ task' = [task EXCEPT ![w] = [NoTask EXCEPT !.pc = "start", !.job = task[w].job,
                         !.cursor = task[w].cursor, !.tries = task[w].tries + 1]]
         /\ UNCHANGED <<queue, deadJobs>>

onlyTask == UNCHANGED <<fixed, store, recovery, lease, partition, put, token, spent, history, troubles>>
notKafka == UNCHANGED <<kafka, fixed, put, token, spent, troubles>>

-----------------------------------------------------------------------------
(* ExecutePage.                                                            *)

\* The next record of a partition.
Take(w, j) ==
    /\ At(w, "idle") /\ partition[j] = w /\ queue[j] # <<>>
    /\ task' = [task EXCEPT ![w] = [NoTask EXCEPT !.pc = "start", !.job = j, !.cursor = queue[j][1]]]
    /\ UNCHANGED <<queue, deadJobs>> /\ onlyTask

\* Mutant: a page with a recorded follow-up is taken for done.
SkipFollowed(w) ==
    /\ At(w, "start")
    /\ StepTo(w, IF idem[task[w].job][task[w].cursor] = "none" THEN "lease" ELSE "commit")
    /\ UNCHANGED <<queue, deadJobs>> /\ onlyTask

\* A page that is done is committed, or its follow-up published again.
LoadIdempotency(w) ==
    /\ At(w, "start")
    /\ StepTo(w, CASE idem[task[w].job][task[w].cursor] = "finalized" -> "commit"
                 [] idem[task[w].job][task[w].cursor] = "followed"  -> "publish"
                 [] OTHER -> "lease")
    /\ UNCHANGED <<queue, deadJobs>> /\ onlyTask

\* NextLeaseEpoch: a live lease of another owner is an error.
ReadLease(w) ==
    /\ At(w, "lease")
    /\ LET j == task[w].job
           winners == {t \in Tokens : IsWinner(lease[j], t)} IN
         IF \E t \in winners \ {token[w]} : lease[j][t].fresh THEN Retry(w)
         ELSE /\ task' = [task EXCEPT ![w].pc = "acquire",
                   ![w].epoch = IF winners = {} THEN 0 ELSE lease[j][CHOOSE t \in winners : TRUE].epoch]
              /\ UNCHANGED <<queue, deadJobs>>
    /\ onlyTask

\* AcquireOrRenewLease inserts the next epoch and reads the winner back.
AcquireLease(w) ==
    /\ At(w, "acquire")
    /\ lease' = [lease EXCEPT ![task[w].job][token[w]] =
                                [epoch |-> task[w].epoch + 1, fresh |-> TRUE]]
    /\ IF IsWinner(lease'[task[w].job], token[w])
       THEN StepTo(w, "open") /\ UNCHANGED <<queue, deadJobs>>
       ELSE Retry(w)
    /\ UNCHANGED <<fixed, store, recovery, partition, put, token, spent, history, troubles>>

\* AssertRecoveryJobAcceptsPage: a closed job takes no page it has not applied.
Closed(j, c) ==
    \/ job[j].status = "quarantined"
    \/ job[j].status = "complete" /\ ~cp[j][c].applied

\* RegisterBuildingRecoveryJob makes live ingestion write the generation.
Register(j) ==
    /\ job' = [job EXCEPT ![j] = [status |-> "initializing", pages |-> 0]]
    /\ gen' = [gen EXCEPT ![j] = "initializing"]
    /\ torn' = torn \cup InFlight

\* EnsureRecoveryBuildingGeneration, or on to an applied page's progress.
OpenJob(w) ==
    /\ At(w, "open")
    /\ LET j == task[w].job IN
         IF Closed(j, task[w].cursor) THEN DeadLetter(w) /\ UNCHANGED <<job, gen, torn>>
         ELSE /\ StepTo(w, IF cp[j][task[w].cursor].applied THEN "progress"
                         ELSE IF job[j].status = "building" THEN "fetch" ELSE "clone")
              /\ IF job[j].status = "none" THEN Register(j) ELSE UNCHANGED <<job, gen, torn>>
              /\ UNCHANGED <<queue, deadJobs>>
    /\ UNCHANGED <<fixed, rows, marks, active, lease, cp, idem, partition, put, token, spent, away, troubles>>

\* CloneActiveGenerationInto: the source is the generation active now ...
ReadSource(w) ==
    /\ At(w, "clone")
    /\ IF ActiveCompleted /\ active # task[w].job
       THEN /\ task' = [task EXCEPT ![w].pc = "copy", ![w].src = active]
            /\ UNCHANGED <<queue, deadJobs>>
       ELSE Retry(w)
    /\ onlyTask

\* ... its projection rows are copied ...
CloneRows(w) ==
    /\ At(w, "copy") /\ StepTo(w, "copy markers")
    /\ rows' = [rows EXCEPT ![task[w].job] = @ \cup rows[task[w].src]]
    /\ UNCHANGED <<marks, gen, active, recovery, lease, history>> /\ notKafka

\* ... and then its markers.
CloneMarks(w) ==
    /\ At(w, "copy markers") /\ StepTo(w, "mark building")
    /\ LET j == task[w].job
           copied == marks[task[w].src] IN
         /\ marks' = [marks EXCEPT ![j] = @ \cup copied]
         /\ torn' = IF Copied(j) THEN torn \cup (copied \ marks[j]) ELSE torn
    /\ UNCHANGED <<rows, gen, active, recovery, lease, away>> /\ notKafka

\* MarkRecoveryGenerationBuilding asks for no lease.
MarkBuilding(w) ==
    /\ At(w, "mark building") /\ StepTo(w, "fetch")
    /\ gen' = [gen EXCEPT ![task[w].job] = "building"]
    /\ job' = [job EXCEPT ![task[w].job].status = "building"]
    /\ UNCHANGED <<rows, marks, active, cp, idem, lease, history>> /\ notKafka

\* FetchPage refuses a page with a record it cannot read.
FetchPage(w) ==
    /\ At(w, "fetch") /\ Owned(w)
    /\ LET records == page[task[w].job][task[w].cursor] IN
         IF \E e \in records : ~Reads(e) THEN DeadLetter(w)
         ELSE /\ task' = [task EXCEPT ![w].pc = "apply", ![w].todo = records]
              /\ UNCHANGED <<queue, deadJobs>>
    /\ onlyTask

\* ApplyToGeneration, with a quarantined record counted also when it is known.
ApplyRecord(w) ==
    /\ At(w, "apply") /\ task[w].todo # {}
    /\ LET j == task[w].job
           e == CHOOSE x \in task[w].todo : TRUE IN
         /\ task' = [task EXCEPT ![w].todo = @ \ {e}, ![w].bad = @ \/ ~Accepts(e)]
         /\ rows' = IF e \in marks[j] THEN rows ELSE [rows EXCEPT ![j] = @ \cup ProjectionRows(e)]
         /\ marks' = [marks EXCEPT ![j] = @ \cup {e}]
    /\ UNCHANGED <<gen, active, recovery, lease, history>> /\ notKafka

NextCursor(c) == IF c = LastCursor THEN 0 ELSE c + 1

\* nextPageIndex.
PageIndex(j, c) == IF c = 0 THEN 0 ELSE job[j].pages

\* The page's checkpoint; a quarantined record closes the job for good.
PersistPage(w) ==
    /\ At(w, "apply") /\ task[w].todo = {} /\ Owned(w)
    /\ LET j == task[w].job
           c == task[w].cursor IN
         /\ cp' = [cp EXCEPT ![j][c] = [index |-> PageIndex(j, c), next |-> NextCursor(c),
                                        bad |-> task[w].bad, applied |-> TRUE]]
         /\ IF task[w].bad
            THEN job' = [job EXCEPT ![j].status = "quarantined"] /\ DeadLetter(w)
            ELSE job' = job /\ StepTo(w, "progress") /\ UNCHANGED <<queue, deadJobs>>
    /\ UNCHANGED <<fixed, store, lease, idem, partition, put, token, spent, history, troubles>>

\* ReconcileJobProgressFromCheckpoint.
Progress(w) ==
    /\ At(w, "progress") /\ Owned(w) /\ StepTo(w, "after")
    /\ LET j == task[w].job
           index == cp[j][task[w].cursor].index IN
         job' = [job EXCEPT ![j] =
                  [status |-> IF @.status = "initializing" THEN "building" ELSE @.status,
                   pages |-> IF @.pages < index + 1 THEN index + 1 ELSE @.pages]]
    /\ UNCHANGED <<store, cp, idem, lease, history>> /\ notKafka

-----------------------------------------------------------------------------
(* afterPageApplied: the follow-up request, or the activation.             *)

HasNext(w) == cp[task[w].job][task[w].cursor].next # 0

\* The follow-up is recorded before it is published.
RecordFollowUp(w) ==
    /\ At(w, "after") /\ HasNext(w) /\ Owned(w) /\ StepTo(w, "publish")
    /\ idem' = [idem EXCEPT ![task[w].job][task[w].cursor] = "followed"]
    /\ UNCHANGED <<store, job, cp, lease, history>> /\ notKafka

\* The follow-up carries the next cursor of the checkpoint.
PublishFollowUp(w) ==
    /\ At(w, "publish") /\ Len(queue[task[w].job]) < MaxQueue /\ StepTo(w, "commit")
    /\ queue' = [queue EXCEPT ![task[w].job] = Append(@, cp[task[w].job][task[w].cursor].next)]
    /\ deadJobs' = deadJobs /\ onlyTask

CommitRequest(w) ==
    /\ At(w, "commit")
    /\ queue' = Popped(w) /\ task' = [task EXCEPT ![w] = NoTask]
    /\ deadJobs' = deadJobs /\ onlyTask

Applied(j) == {c \in Cursors : cp[j][c].applied}

\* verifyPageContinuity: a chain of pages from the first to the last cursor.
Continuous(j) ==
    LET at(i) == {c \in Applied(j) : cp[j][c].index = i} IN
    /\ \A i \in 0 .. Cardinality(Applied(j)) - 1 : Cardinality(at(i)) = 1
    /\ at(0) = {0}
    /\ \A c, d \in Applied(j) : cp[j][d].index = cp[j][c].index + 1 => d = cp[j][c].next
    /\ \A c \in Applied(j) : cp[j][c].index + 1 = Cardinality(Applied(j)) => cp[j][c].next = 0

Reconciled(j) ==
    /\ job[j].status # "quarantined" /\ Continuous(j)
    /\ ~\E c \in Applied(j) : cp[j][c].bad
    /\ job[j].pages >= Cardinality(Applied(j))

\* ActivateRecoveryGeneration checks the job and its pages ...
VerifyPages(w) ==
    /\ At(w, "after") /\ ~HasNext(w) /\ Owned(w)
    /\ LET j == task[w].job IN
         IF job[j].status = "complete" /\ active = j /\ ActiveCompleted
         THEN StepTo(w, "finish") /\ UNCHANGED <<queue, deadJobs>>
         ELSE IF Reconciled(j)
              THEN /\ task' = [task EXCEPT ![w].pc = "complete", ![w].pages = job[j].pages]
                   /\ UNCHANGED <<queue, deadJobs>>
              ELSE DeadLetter(w)
    /\ onlyTask

\* ... marks the generation complete ...
CompleteGeneration(w) ==
    /\ At(w, "complete") /\ Owned(w) /\ StepTo(w, "switch")
    /\ gen' = [gen EXCEPT ![task[w].job] = "complete"]
    /\ UNCHANGED <<rows, marks, active, recovery, lease, history>> /\ notKafka

\* ... switches the pointer, also back to a job that was closed meanwhile ...
SwitchActiveGeneration(w) ==
    /\ At(w, "switch") /\ Owned(w) /\ StepTo(w, "read back")
    /\ active' = task[w].job
    /\ torn' = torn \cup {e \in Listed : task[w].job \in away[e]}
    /\ UNCHANGED <<rows, marks, gen, recovery, lease, away>> /\ notKafka

\* ... reads it back ...
ReadBackActive(w) ==
    /\ At(w, "read back") /\ Owned(w)
    /\ IF active = task[w].job /\ ActiveCompleted
       THEN StepTo(w, "close") /\ UNCHANGED <<queue, deadJobs>>
       ELSE DeadLetter(w)
    /\ onlyTask

\* ... and closes the job, whose generation live ingestion now takes as active.
CloseJob(w) ==
    /\ At(w, "close") /\ Owned(w) /\ StepTo(w, "finish")
    /\ job' = [job EXCEPT ![task[w].job] = [status |-> "complete", pages |-> task[w].pages]]
    /\ UNCHANGED <<store, cp, idem, lease, history>> /\ notKafka

RecordFinalized(w) ==
    /\ At(w, "finish") /\ Owned(w) /\ StepTo(w, "commit")
    /\ idem' = [idem EXCEPT ![task[w].job][task[w].cursor] = "finalized"]
    /\ UNCHANGED <<store, job, cp, lease, history>> /\ notKafka

-----------------------------------------------------------------------------
(* What goes wrong.                                                        *)

\* A step that validates the lease finds it gone.
LoseLease(w) ==
    /\ task[w].pc \in {"fetch", "apply", "progress", "after", "complete", "switch",
                        "read back", "close", "finish"}
    /\ task[w].todo = {} /\ ~Owned(w)
    /\ Retry(w) /\ onlyTask

\* The producer, ClickHouse or Kafka fails a call.
CallFails(w) ==
    /\ ~At(w, "idle") /\ Trouble
    /\ Retry(w)
    /\ UNCHANGED <<fixed, store, recovery, lease, partition, put, token, spent, history>>

\* A worker dies; its successor draws a token of its own.
Crash(w) ==
    /\ ~At(w, "idle") /\ Trouble
    /\ \E t \in Tokens \ spent : token' = [token EXCEPT ![w] = t] /\ spent' = spent \cup {t}
    /\ task' = [task EXCEPT ![w] = NoTask]
    /\ UNCHANGED <<fixed, store, recovery, lease, kafka, put, history>>

\* The time of the winning lease is up.
JobLeaseExpires(j) ==
    /\ Trouble
    /\ \E t \in Tokens : OwnedBy(j, t) /\ lease' = [lease EXCEPT ![j][t].fresh = FALSE]
    /\ UNCHANGED <<fixed, store, recovery, kafka, put, task, token, spent, history>>

\* A rebalance takes the partition from a worker that may be at its page, and
\* gives it to one that is not.
Rebalance(j, w) ==
    /\ Trouble
    /\ partition[j] # w /\ task[w].job # j /\ partition' = [partition EXCEPT ![j] = w]
    /\ UNCHANGED <<fixed, store, recovery, lease, queue, deadJobs, put, task, token, spent, history>>

LiveStep(e) ==
    \/ ListActive(e) \/ ListWriteGenerations(e) \/ InsertProjectionRows(e)
    \/ InsertProcessed(e) \/ CommitLive(e)

RebuildStep(w) ==
    \/ \E j \in Jobs : Take(w, j)
    \/ LoadIdempotency(w) \/ ReadLease(w) \/ AcquireLease(w) \/ OpenJob(w)
    \/ ReadSource(w) \/ CloneRows(w) \/ CloneMarks(w) \/ MarkBuilding(w)
    \/ FetchPage(w) \/ ApplyRecord(w) \/ PersistPage(w) \/ Progress(w)
    \/ RecordFollowUp(w) \/ PublishFollowUp(w) \/ CommitRequest(w) \/ VerifyPages(w)
    \/ CompleteGeneration(w) \/ SwitchActiveGeneration(w) \/ ReadBackActive(w)
    \/ CloseJob(w) \/ RecordFinalized(w) \/ LoseLease(w)

RebuildNext ==
    \/ \E e \in Live : LiveStep(e) \/ LiveFails(e)
    \/ \E w \in Rebuilders : RebuildStep(w) \/ CallFails(w) \/ Crash(w)
    \/ \E j \in Jobs : JobLeaseExpires(j) \/ \E w \in Rebuilders : Rebalance(j, w)

RebuildSpec == RebuildInit /\ [][RebuildNext]_rebuildVars /\ \A w \in Rebuilders : WF_rebuildVars(RebuildStep(w))

-----------------------------------------------------------------------------
RebuildTypeOK ==
    /\ rows \in [Generations -> SUBSET Events] /\ marks \in [Generations -> SUBSET Events]
    /\ gen \in [Generations -> {"none", "initializing", "building", "complete"}]
    /\ active \in Generations /\ torn \subseteq Events /\ deadJobs \subseteq Jobs
    /\ job \in [Jobs -> [status : {"none", "initializing", "building", "complete", "quarantined"},
                         pages : Nat]]
    /\ idem \in [Jobs -> [Cursors -> {"none", "followed", "finalized"}]]
    /\ away \in [Live -> SUBSET Jobs]

(* A live event whose offset is committed and that was accepted is in the  *)
(* active generation, whichever jobs were building or became active        *)
(* meanwhile.  Only an event caught halfway can be missing: under way when *)
(* a job was registered; listed by two queries between which the generation*)
(* active now was closed; marked between the copies of rows and of markers;*)
(* or listed while a job was closed that then became active once more.     *)
UntornIsKept == \A e \in Live \ torn : put[e].pc = "committed" /\ Accepts(e) => e \in rows[active]

(* A job is complete only when every page of its range was applied: crashes,*)
(* retries, lost leases and two workers at one page leave no page out.     *)
CompleteIsWhole ==
    \A j \in Jobs : job[j].status = "complete" =>
        /\ Applied(j) = Cursors
        /\ \A c \in Cursors : \A e \in page[j][c] : Accepts(e) /\ e \in rows[j] \cup torn

(* The generation of a job that met a quarantined record, or a page that   *)
(* cannot be read, never becomes active.                                   *)
SpoiltStaysOut ==
    \A j \in Jobs : active = j => \A c \in Cursors : \A e \in page[j][c] : Accepts(e)

RebuildSound == RebuildTypeOK /\ UntornIsKept /\ CompleteIsWhole /\ SpoiltStaysOut

(* Every job comes to an end, whatever fails on the way: it is closed, or a *)
(* request of it is given up.                                              *)
RebuildsSettle ==
    \A j \in Jobs : <>(\/ job[j].status \in {"complete", "quarantined"} \/ j \in deadJobs)

-----------------------------------------------------------------------------
(* What the model does not keep (README, Deviations).                      *)

(* ADR-0039: the dual write and the clone prevent silent loss.             *)
NothingIsLost == \A e \in Live : put[e].pc = "committed" /\ Accepts(e) => e \in rows[active]

(* A generation that becomes active once more has what came meanwhile.     *)
ReactivatedIsCurrent ==
    \A e \in Live : put[e].pc = "committed" /\ Accepts(e) /\ active \in away[e] => e \in rows[active]

(* The active generation is complete: otherwise ingestion stops.           *)
ActiveIsComplete == ActiveCompleted

(* What a complete job brought in stays in the active generation.          *)
RepairsAreKept ==
    \A j \in Jobs : job[j].status = "complete" =>
        \A c \in Cursors : page[j][c] \ torn \subseteq rows[active]

(* A request is given up only because of what it asks for.                 *)
OnlySpoiltIsGivenUp ==
    \A j \in deadJobs : \E c \in Cursors : \E e \in page[j][c] : ~Accepts(e)
=============================================================================
