----------------------------- MODULE RoundResults -----------------------------
(***************************************************************************)
(* The results of the matches of a tournament: a consumer per Kafka        *)
(* partition records them, requests record or quarantine them by hand, a   *)
(* worker completes the rounds whose slots are all resolved.               *)
(*                                                                         *)
(*   domain/round_match.go, quarantine_result.go, complete_round.go        *)
(*   store/round_match.go, quarantine_result.go, complete_round.go         *)
(*   store/progress_shards.go, lifecycle.go, seeding.go (kick-off)         *)
(*   kafka_consumer.go, completion_worker.go, service*.go                  *)
(*                                                                         *)
(* A transaction is two steps: it takes its locks, reads and decides, then *)
(* writes and commits.  Slot s of round r plays in the room <<r, s>>.      *)
(* RoundSeeding and Provisioning make the slots of a round; here a round   *)
(* opens in one step once its job exists.                                  *)
(***************************************************************************)
EXTENDS Integers, FiniteSets, Sequences, FiniteSetsExt, SequencesExt

CONSTANTS
    LastRound,      \* bound: rounds 1 .. LastRound
    SlotIndexes,    \* bound: slots of a round
    FirstSlots,     \* slots of round 1
    Shards,         \* progress shards: slot s counts in shard s % Shards
    AdvancersPerMatch, FinalThreshold, PlayersPerRoom,
    Log,            \* completions of each partition, in order
    Commands,       \* commands of the requests
    Requests,       \* HTTP handlers
    Worker,         \* the completion worker
    MaxAttempts,    \* attempts of the consumer for one record
    MaxFaults,      \* bound: crashes and unavailable answers
    MaxManual,      \* bound: commands submitted by hand
    Nothing         \* no command, no result

Rounds == 1 .. LastRound
Slots == Rounds \X SlotIndexes
Partitions == DOMAIN Log
Handlers == Partitions \cup Requests \cup {Worker}

ASSUME RoundResultsAssumption ==
    /\ LastRound \in Nat \ {0}
    /\ IsFiniteSet(SlotIndexes) /\ SlotIndexes = 0 .. Cardinality(SlotIndexes) - 1
    /\ FirstSlots \subseteq SlotIndexes
    /\ {Shards, AdvancersPerMatch, FinalThreshold, PlayersPerRoom, MaxAttempts} \subseteq Nat \ {0}
    /\ MaxFaults \in Nat /\ MaxManual \in Nat
    /\ Worker \notin Partitions \cup Requests /\ Partitions \cap Requests = {}
    /\ \A p \in Partitions : Log[p] \in Seq(Range(Log[p]))
    /\ \A c \in Commands \cup UNION {Range(Log[p]) : p \in Partitions} :
          /\ c.type \in {"record", "quarantine", "complete", "seed", "cancel", "finish"}
          /\ c.type \in {"complete", "seed"} => c.round \in Rounds
          /\ c.type = "record" => c.ranked \in Seq(Range(c.ranked)) /\ c.eligible \in 0 .. Len(c.ranked)

VARIABLES
    phase,      \* tournaments.phase
    champion,   \* championId in tournaments.rules
    round,      \* tournament_rounds: status, is_final and players to seed
    slot,       \* bracket_slots.status, "none" before the slot is assigned
    count,      \* round_progress_shards
    result,     \* match_results by room and completion version
    ledger,     \* match_result_quarantines: the keys
    advancement,\* advancement_records: players of each slot, in rank order
    advanced,   \* round_advancing_players: round, player, slot, rank
    outcome,    \* command_idempotency: accepted or rejected, by command id
    outbox,     \* tournament_outbox: fact, command and round or slot
    tx,         \* the open transaction of each handler
    offset, attempts,   \* committed offset, and attempts at the next record
    setAside,   \* rooms the consumer has quarantined
    faults, manual

store == <<phase, champion, round, slot, count, result, ledger, advancement, advanced, outcome, outbox>>
consumer == <<offset, attempts, setAside>>
vars == <<store, tx, consumer, faults, manual>>

Terminal == {"completed", "cancelled"}
Idle == [pc |-> "idle", cmd |-> Nothing, decision |-> "none"]
Zero == [assigned |-> 0, resolved |-> 0, quarantined |-> 0, advancing |-> 0]

ShardIds == 0 .. Shards - 1
Shard(s) == s[2] % Shards
InShard(slots, h) == {i \in slots : (i % Shards) = h}
Counted(slots) == [h \in ShardIds |-> [Zero EXCEPT !.assigned = Cardinality(InShard(slots, h))]]

Completions == UNION {Range(Log[p]) : p \in Partitions}
AllCommands == Completions \cup Commands
CompleteRoundCommandID(r) == <<"complete", r>>
Ids == {c.id : c \in AllCommands} \cup {CompleteRoundCommandID(r) : r \in Rounds}
Key(c) == <<c.room, c.version>>
Keys == {Key(c) : c \in {d \in AllCommands : d.type \in {"record", "quarantine"}}}

Init ==
    /\ phase = "in_progress" /\ champion = Nothing
    /\ round = [r \in Rounds |-> [status |-> IF r = 1 THEN "in_progress" ELSE "none",
                                  final |-> FALSE, players |-> 0]]
    /\ slot = [s \in Slots |-> IF s \in {1} \X FirstSlots THEN "assigned" ELSE "none"]
    /\ count = [r \in Rounds |-> Counted(IF r = 1 THEN FirstSlots ELSE {})]
    /\ result = [k \in Keys |-> Nothing]
    /\ ledger = {} /\ advanced = {} /\ outbox = {}
    /\ advancement = [s \in Slots |-> <<>>]
    /\ outcome = [i \in Ids |-> "none"]
    /\ tx = [h \in Handlers |-> Idle]
    /\ offset = [p \in Partitions |-> 0] /\ attempts = [p \in Partitions |-> 0]
    /\ setAside = {} /\ faults = 0 /\ manual = 0

-----------------------------------------------------------------------------
(* What the tables say                                                     *)

Assigned(room) == room \in Slots /\ slot[room] # "none"
Resolved(s) == slot[s] \in {"advanced", "result_recorded"}

\* The sum of f, as the number of its units.
Units(f) == UNION {{x} \X (1 .. f[x]) : x \in DOMAIN f}
SumOf(f) == Cardinality(Units(f))

AssignedCount(r) == SumOf([h \in ShardIds |-> count[r][h].assigned])
ResolvedCount(r) == SumOf([h \in ShardIds |-> count[r][h].resolved])
QuarantinedCount(r) == SumOf([h \in ShardIds |-> count[r][h].quarantined])
AdvancingCount(r) == SumOf([h \in ShardIds |-> count[r][h].advancing])
PlayersSent(r, slots) == SumOf([i \in slots |-> Len(advancement[<<r, i>>])])
AdvancementRecordsPlayers(r) == PlayersSent(r, SlotIndexes)
NormalizedAdvancingPlayers(r) == {row \in advanced : row.round = r}

ComputeRoundSlotPlan(n) ==
    IF n <= FinalThreshold THEN [slots |-> 1, final |-> TRUE]
    ELSE [slots |-> (n + PlayersPerRoom - 1) \div PlayersPerRoom, final |-> FALSE]

\* Players of a completion in rank order, those that forfeited last.
Fingerprint(c) == <<c.ranked, c.eligible>>
TopThree(c) == SubSeq(c.ranked, 1, Min({c.eligible, AdvancersPerMatch}))
Advancing(c) == IF round[c.room[1]].final THEN c.ranked ELSE TopThree(c)

\* RankStandings names every player once.
ValidateStandings(c) == IsInjective(c.ranked)

ValidateAdvancing(c) == Len(Advancing(c)) \in 1 .. (IF round[c.room[1]].final THEN FinalThreshold ELSE AdvancersPerMatch)

\* Mutant: only recorded results are looked up.
AttachRecordedResult(k) ==
    IF result[k] # Nothing /\ result[k].disposition = "recorded" THEN "recorded" ELSE "none"

\* The exact result of a room and version; its quarantine comes first.
AttachPriorResult(k) ==
    IF k \in ledger THEN "quarantined" ELSE IF result[k] # Nothing THEN result[k].disposition ELSE "none"

-----------------------------------------------------------------------------
(* Decisions                                                               *)

\* The claimed round and slot are compared with those of the room.
IdentityMismatch(c) == c.claim # c.room

HasResult(s) == advancement[s] # <<>> \/ Resolved(s)

Held(s) == slot[s] = "quarantined"

DecideRecordMatchResult(c) ==
    LET prior == AttachPriorResult(Key(c)) IN
    IF phase \in Terminal \/ ~ValidateStandings(c) THEN "reject"
    ELSE IF prior = "quarantined" \/ (prior = "recorded" /\ result[Key(c)].fp = Fingerprint(c)) THEN "duplicate"
    ELSE IF prior = "recorded" THEN "conflict"
    ELSE IF ~Assigned(c.room) THEN "stray"
    ELSE IF Held(c.room) THEN "held"
    ELSE IF HasResult(c.room) THEN "conflict"
    ELSE IF IdentityMismatch(c) \/ c.abandoned THEN "hold"
    ELSE IF ~ValidateAdvancing(c) THEN "reject"
    ELSE "record"

DecideQuarantineTournamentResult(c) ==
    IF AttachPriorResult(Key(c)) = "quarantined" THEN "already_done"
    ELSE IF AttachPriorResult(Key(c)) = "recorded" \/ ~Assigned(c.room) THEN "ledger_only"
    ELSE "insert_quarantined"

\* All slots resolved, none quarantined, somebody advances.
RoundReady(r) ==
    /\ round[r].status = "in_progress" /\ AssignedCount(r) > 0
    /\ ResolvedCount(r) = AssignedCount(r) /\ QuarantinedCount(r) = 0 /\ AdvancingCount(r) > 0

NoDrift(r) ==
    /\ AdvancingCount(r) = AdvancementRecordsPlayers(r)
    /\ AdvancingCount(r) = Cardinality(NormalizedAdvancingPlayers(r))

TerminalNow == phase \in Terminal

DecideCompleteRound(r) ==
    IF TerminalNow \/ round[r].status = "none" THEN "reject"
    ELSE IF round[r].status = "completed" THEN "already_done"
    ELSE IF RoundReady(r) /\ NoDrift(r) THEN "success"
    ELSE "reject"

\* The job of a round is inserted with the round: it is never missing here.
DecideSeedRoundKickoff(r) ==
    IF phase \in Terminal \/ round[r].status = "none" THEN "reject" ELSE "already_done"

DecideCancelTournament ==
    IF phase = "cancelled" THEN "already_done" ELSE IF phase = "completed" THEN "reject" ELSE "success"

\* The final round completes the tournament itself: nothing is left to do.
DecideCompleteTournament == IF phase = "completed" THEN "already_done" ELSE "reject"

Decide(c) ==
    CASE c.type = "record" -> DecideRecordMatchResult(c)
      [] c.type = "quarantine" -> DecideQuarantineTournamentResult(c)
      [] c.type = "complete" -> DecideCompleteRound(c.round)
      [] c.type = "seed" -> DecideSeedRoundKickoff(c.round)
      [] c.type = "cancel" -> DecideCancelTournament
      [] c.type = "finish" -> DecideCompleteTournament

-----------------------------------------------------------------------------
(* Locks, held to the end of the transaction                               *)

Exclusive(c) == c.type \in {"seed", "cancel", "finish"}

LockShardAndSlot(c) ==
    {<<"key", c.room, c.version>>} \cup
    IF Assigned(c.room) THEN {<<"slot", c.room>>, <<"shard", c.room[1], Shard(c.room)>>} ELSE {}

LocksOf(c) ==
    {<<"command", c.id>>} \cup
    CASE c.type = "record" -> LockShardAndSlot(c)
      [] c.type = "quarantine" -> {<<"key", c.room, c.version>>, <<"slot", c.room>>}
      [] c.type = "complete" -> {<<"shard", c.round, h>> : h \in ShardIds} \cup {<<"slot", <<c.round, 0>>>>}
      [] OTHER -> {}

Open(h) == tx[h].pc = "open"

\* Mutant: nothing takes the barrier exclusive.
BarrierShared(c) == TRUE

BarrierFree(c) == \A g \in Handlers : Open(g) => ~Exclusive(c) /\ ~Exclusive(tx[g].cmd)

LocksFree(c) == BarrierFree(c) /\ \A g \in Handlers : Open(g) => LocksOf(tx[g].cmd) \cap LocksOf(c) = {}

\* Takes the locks, reads under them and decides.
Begin(h, c) ==
    /\ LocksFree(c)
    /\ tx' = [tx EXCEPT ![h] = [pc |-> "open", cmd |-> c, decision |-> Decide(c)]]

-----------------------------------------------------------------------------
(* Effects                                                                 *)

\* Mutant: the count of players that advance is left as it was.
AddResolvedOnly(c) ==
    count' = [count EXCEPT ![c.room[1]][Shard(c.room)].resolved = @ + 1]

AddResolved(c) ==
    LET old == count[c.room[1]][Shard(c.room)] IN
    count' = [count EXCEPT ![c.room[1]][Shard(c.room)] =
                 [old EXCEPT !.resolved = old.resolved + 1, !.advancing = old.advancing + Len(Advancing(c))]]

Rows(c) ==
    {[round |-> c.room[1], player |-> Advancing(c)[i], slot |-> c.room[2], rank |-> i - 1]
        : i \in DOMAIN Advancing(c)}

\* A player of the round advances already, from another slot or at another rank.
ImmutableConflict(c) ==
    \E new \in Rows(c), old \in advanced : old.round = new.round /\ old.player = new.player /\ old # new

Publish(facts, c, where) == outbox' = outbox \cup {[fact |-> f, cmd |-> c.id, of |-> where] : f \in facts}

RecordResult(c) ==
    LET final == round[c.room[1]].final IN
    /\ ~ImmutableConflict(c)
    /\ result' = [result EXCEPT ![Key(c)] = [disposition |-> "recorded", fp |-> Fingerprint(c)]]
    /\ advancement' = [advancement EXCEPT ![c.room] = Advancing(c)]
    /\ advanced' = advanced \cup Rows(c)
    /\ slot' = [slot EXCEPT ![c.room] = IF final THEN "result_recorded" ELSE "advanced"]
    /\ AddResolved(c)
    /\ champion' = IF final THEN Head(c.ranked) ELSE champion
    /\ Publish({"result_recorded"} \cup IF final THEN {} ELSE {"players_advanced"}, c, c.room)
    /\ UNCHANGED <<phase, round, ledger>>

BlockRound(r) ==
    round' = IF round[r].status = "completed" THEN round ELSE [round EXCEPT ![r].status = "blocked"]

\* The slot is held and its round blocked: an operator has to look at it.
HoldSlot(c) ==
    /\ ledger' = ledger \cup {Key(c)}
    /\ result' = [result EXCEPT ![Key(c)] = [disposition |-> "quarantined", fp |-> Fingerprint(c)]]
    /\ slot' = [slot EXCEPT ![c.room] = "quarantined"]
    /\ BlockRound(c.room[1])
    /\ count' = [count EXCEPT ![c.room[1]][Shard(c.room)].quarantined = @ + 1]
    /\ UNCHANGED <<phase, champion, advancement, advanced, outbox>>

\* Only the ledger: the recorded result and its slot stay.
InsertQuarantineLedger(c) ==
    /\ ledger' = ledger \cup {Key(c)}
    /\ UNCHANGED <<phase, champion, round, slot, count, result, advancement, advanced, outbox>>

\* QuarantineTournamentResult leaves the slot, its round and the counts alone.
InsertQuarantined(c) ==
    /\ ledger' = ledger \cup {Key(c)}
    /\ result' = [result EXCEPT ![Key(c)] = [disposition |-> "quarantined", fp |-> Nothing]]
    /\ UNCHANGED <<phase, champion, round, slot, count, advancement, advanced, outbox>>

RemainingPlayers(r) == AdvancingCount(r)

\* The pending round that follows, with its seeding job.
InsertNextRoundSeeding(r) ==
    LET plan == ComputeRoundSlotPlan(RemainingPlayers(r))
    IN  [round EXCEPT ![r].status = "completed",
                      ![r + 1] = [status |-> "pending", final |-> plan.final, players |-> RemainingPlayers(r)]]

CompleteRound(c) ==
    /\ round[c.round].status = "in_progress"
    /\ IF round[c.round].final
       THEN /\ round' = [round EXCEPT ![c.round].status = "completed"]
            /\ phase = "in_progress" /\ phase' = "completed"
            /\ champion' = Head(advancement[<<c.round, 0>>])
            /\ Publish({"round_completed", "tournament_completed"}, c, c.round)
       ELSE /\ c.round + 1 \in Rounds     \* bound
            /\ round' = InsertNextRoundSeeding(c.round)
            /\ Publish({"round_completed"}, c, c.round)
            /\ UNCHANGED <<phase, champion>>
    /\ UNCHANGED <<slot, count, result, ledger, advancement, advanced>>

CancelTournament ==
    /\ phase' = "cancelled"
    /\ UNCHANGED <<champion, round, slot, count, result, ledger, advancement, advanced, outbox>>

Tables == <<phase, champion, round, slot, count, result, ledger, advancement, advanced, outbox>>

\* What a decision writes besides the answer to the command.
Apply(c, decision) ==
    \/ c.type = "record" /\ decision = "record" /\ RecordResult(c)
    \/ c.type = "record" /\ decision = "hold" /\ HoldSlot(c)
    \/ decision \in {"conflict", "stray", "ledger_only"} /\ InsertQuarantineLedger(c)
    \/ decision = "insert_quarantined" /\ InsertQuarantined(c)
    \/ c.type = "complete" /\ decision = "success" /\ CompleteRound(c)
    \/ c.type = "cancel" /\ decision = "success" /\ CancelTournament
    \/ decision \in {"reject", "duplicate", "held", "already_done"} /\ UNCHANGED Tables

Answer(decision) == IF decision = "reject" THEN "rejected" ELSE "accepted"

\* The answer, the rows and the outbox are one commit.
Commit(h) ==
    /\ Open(h)
    /\ Apply(tx[h].cmd, tx[h].decision)
    /\ outcome' = [outcome EXCEPT ![tx[h].cmd.id] = Answer(tx[h].decision)]

-----------------------------------------------------------------------------
(* Requests                                                                *)

SubmitCommand(h, c) ==
    /\ h \in Requests /\ tx[h] = Idle /\ manual < MaxManual
    /\ outcome[c.id] = "none"
    /\ Begin(h, c)
    /\ manual' = manual + 1
    /\ UNCHANGED <<store, consumer, faults>>

FinishCommand(h) ==
    /\ h \in Requests /\ Commit(h)
    /\ tx' = [tx EXCEPT ![h] = Idle]
    /\ UNCHANGED <<consumer, faults, manual>>

\* The insert of a player that advances already fails: all is rolled back.
FailCommand(h) ==
    /\ h \in Requests /\ Open(h) /\ tx[h].decision = "record" /\ ImmutableConflict(tx[h].cmd)
    /\ tx' = [tx EXCEPT ![h] = Idle]
    /\ UNCHANGED <<store, consumer, faults, manual>>

-----------------------------------------------------------------------------
(* The consumer: one record of a partition at a time                       *)

\* A room completes a match only once its slot is assigned.
Published(c) == c.room \in Slots => Assigned(c.room)

Record(p) == Log[p][offset[p] + 1]

HasRecord(p) == offset[p] < Len(Log[p]) /\ Published(Record(p))

\* A record that was answered before, or whose room is set aside, is skipped.
Skip(p) == outcome[Record(p).id] # "none" \/ Record(p).room \in setAside

IngestMatchCompleted(p) ==
    /\ tx[p] = Idle /\ HasRecord(p)
    /\ IF Skip(p) THEN tx' = [tx EXCEPT ![p].pc = "answered"] ELSE Begin(p, Record(p))
    /\ UNCHANGED <<store, consumer, faults, manual>>

FinishIngest(p) ==
    /\ p \in Partitions /\ Commit(p)
    /\ tx' = [tx EXCEPT ![p] = [Idle EXCEPT !.pc = "answered"]]
    /\ UNCHANGED <<consumer, faults, manual>>

\* After the last attempt the room is set aside and the record goes to the DLQ.
FailureToDLQ(p) ==
    IF attempts[p] + 1 < MaxAttempts
    THEN /\ tx' = [tx EXCEPT ![p] = Idle]
         /\ attempts' = [attempts EXCEPT ![p] = @ + 1]
         /\ setAside' = setAside
    ELSE /\ tx' = [tx EXCEPT ![p] = [Idle EXCEPT !.pc = "answered"]]
         /\ setAside' = setAside \cup {tx[p].cmd.room}
         /\ attempts' = attempts

\* Postgres is unavailable, or a player of the result advances already.
FailIngest(p) ==
    /\ p \in Partitions /\ Open(p)
    /\ \/ faults < MaxFaults /\ faults' = faults + 1
       \/ tx[p].decision = "record" /\ ImmutableConflict(tx[p].cmd) /\ faults' = faults
    /\ FailureToDLQ(p)
    /\ UNCHANGED <<store, offset, manual>>

CommitOffset(p) ==
    /\ tx[p].pc = "answered"
    /\ tx' = [tx EXCEPT ![p] = Idle]
    /\ offset' = [offset EXCEPT ![p] = @ + 1]
    /\ attempts' = [attempts EXCEPT ![p] = 0]
    /\ UNCHANGED <<store, setAside, faults, manual>>

-----------------------------------------------------------------------------
(* The completion worker                                                   *)

CompleteCommand(r) == [id |-> CompleteRoundCommandID(r), type |-> "complete", round |-> r]

\* Mutant: the final is left for CompleteTournament.
FindReadyRoundBeforeFinal(r) == ~TerminalNow /\ RoundReady(r) /\ NoDrift(r) /\ ~round[r].final

\* A hint, read without locks.
FindReadyRoundCandidate(r) == ~TerminalNow /\ RoundReady(r) /\ NoDrift(r)

Tick(r) ==
    /\ tx[Worker] = Idle /\ FindReadyRoundCandidate(r)
    /\ tx' = [tx EXCEPT ![Worker] = [pc |-> "hint", cmd |-> CompleteCommand(r), decision |-> "none"]]
    /\ UNCHANGED <<store, consumer, faults, manual>>

\* Only a success or a completed round is answered under the worker's id.
RecordsOutcome(decision) == decision # "reject"

\* An answer recorded under the worker's id is taken for good.
TryCompleteReadyRound ==
    /\ tx[Worker].pc = "hint"
    /\ IF outcome[tx[Worker].cmd.id] # "none"
       THEN tx' = [tx EXCEPT ![Worker] = Idle]
       ELSE Begin(Worker, tx[Worker].cmd)
    /\ UNCHANGED <<store, consumer, faults, manual>>

FinishCompleteRound ==
    /\ Open(Worker)
    /\ IF RecordsOutcome(tx[Worker].decision) THEN Commit(Worker) ELSE UNCHANGED store
    /\ tx' = [tx EXCEPT ![Worker] = Idle]
    /\ UNCHANGED <<consumer, faults, manual>>

-----------------------------------------------------------------------------
(* The environment                                                         *)

\* RoundSeeding and Provisioning: the slots of a pending round are assigned.
OpenNextRound(r) ==
    LET slots == 0 .. ComputeRoundSlotPlan(round[r].players).slots - 1 IN
    /\ round[r].status = "pending" /\ phase = "in_progress"
    /\ BarrierFree(CompleteCommand(r))
    /\ round' = [round EXCEPT ![r].status = "in_progress"]
    /\ slot' = [s \in Slots |-> IF s \in {r} \X slots THEN "assigned" ELSE slot[s]]
    /\ count' = [count EXCEPT ![r] = Counted(slots)]
    /\ UNCHANGED <<phase, champion, result, ledger, advancement, advanced, outcome, outbox,
                   tx, consumer, faults, manual>>

\* The process of a handler dies: its transaction is gone, its offset stays.
Crash(h) ==
    /\ tx[h] # Idle /\ faults < MaxFaults
    /\ tx' = [tx EXCEPT ![h] = Idle]
    /\ attempts' = IF h \in Partitions THEN [attempts EXCEPT ![h] = 0] ELSE attempts
    /\ faults' = faults + 1
    /\ UNCHANGED <<store, offset, setAside, manual>>

ConsumerStep(p) == IngestMatchCompleted(p) \/ FinishIngest(p) \/ CommitOffset(p)

WorkerStep == (\E r \in Rounds : Tick(r)) \/ TryCompleteReadyRound \/ FinishCompleteRound

RequestStep(h) == (\E c \in Commands : SubmitCommand(h, c)) \/ FinishCommand(h) \/ FailCommand(h)

Next ==
    \/ \E p \in Partitions : ConsumerStep(p) \/ FailIngest(p)
    \/ \E h \in Requests : RequestStep(h)
    \/ WorkerStep
    \/ \E r \in Rounds : OpenNextRound(r)
    \/ \E h \in Handlers : Crash(h)

Spec == Init /\ [][Next]_vars

\* The loops of the consumer and of the worker run on, requests finish or fail.
Fairness ==
    /\ \A p \in Partitions : WF_vars(ConsumerStep(p) \/ FailIngest(p))
    /\ \A h \in Requests : WF_vars(FinishCommand(h) \/ FailCommand(h))
    /\ WF_vars(WorkerStep)

FairSpec == Spec /\ Fairness

-----------------------------------------------------------------------------
(* Properties                                                              *)

RoundStatuses == {"none", "pending", "in_progress", "blocked", "completed"}
SlotStatuses == {"none", "assigned", "result_recorded", "advanced", "quarantined"}

TypeOK ==
    /\ phase \in {"in_progress"} \cup Terminal
    /\ \A r \in Rounds : round[r].status \in RoundStatuses /\ round[r].players \in Nat
    /\ slot \in [Slots -> SlotStatuses]
    /\ ledger \subseteq Keys
    /\ outcome \in [Ids -> {"none", "accepted", "rejected"}]
    /\ \A h \in Handlers : Open(h) => tx[h].decision # "none"
    /\ \A p \in Partitions : offset[p] \in 0 .. Len(Log[p]) /\ attempts[p] \in 0 .. MaxAttempts - 1

(* The counts of every shard are those of its slots, whatever partitions and
   requests record or quarantine at the same time and whatever is delivered
   again: a round is completed on these counts alone. *)
CountsAreSlots ==
    \A r \in Rounds, h \in ShardIds :
        LET mine == InShard(SlotIndexes, h) IN
        /\ count[r][h].resolved = Cardinality({i \in mine : Resolved(<<r, i>>)})
        /\ count[r][h].quarantined = Cardinality({i \in mine : slot[<<r, i>>] = "quarantined"})
        /\ count[r][h].advancing = PlayersSent(r, mine)

(* A completed round has a result for every slot, and the round that follows
   is planned for exactly the players that advanced from it. *)
CompletedIsWhole ==
    \A r \in Rounds : round[r].status = "completed" =>
        /\ \A i \in SlotIndexes : slot[<<r, i>>] \in {"none", "advanced", "result_recorded"}
        /\ round[r].final \/ round[r + 1].players = Cardinality({row.player : row \in NormalizedAdvancingPlayers(r)})

(* A slot that an operator has to look at keeps its round from completing. *)
QuarantinedBlocks == \A s \in Slots : slot[s] = "quarantined" => round[s[1]].status = "blocked"

(* Every recorded result is announced once: no redelivery, retry or second
   command makes a fact about a slot appear twice or go missing. *)
AnnouncedOnce ==
    \A s \in Slots :
        Cardinality({f \in outbox : f.fact = "result_recorded" /\ f.of = s}) = IF Resolved(s) THEN 1 ELSE 0

(* A result that was quarantined by its key is never recorded later, by
   whatever event or command it comes back. *)
QuarantineIsFinal ==
    [][\A k \in Keys : (k \in ledger /\ result[k] # result'[k]) => result'[k].disposition = "quarantined"]_vars

(* The players a slot has sent on stay: a later completion, a conflicting
   one or an operator never changes them. *)
AdvancementStands ==
    [][\A s \in Slots :
        Len(advancement[s]) > 0 => advancement'[s] = advancement[s] /\ slot'[s] = slot[s]]_vars

(* A tournament that has ended keeps its bracket, rounds and champion, even
   for transactions that were under way when it ended. *)
EndedStands ==
    [][TerminalNow => UNCHANGED <<phase, champion, round, slot, count, advancement>>]_vars

(* A round whose slots are all resolved is completed, unless the tournament
   ends or somebody used the worker's own command id for a rejected try. *)
ReadyCompletes ==
    \A r \in Rounds :
        RoundReady(r) ~> (round[r].status = "completed" \/ TerminalNow
                            \/ \E c \in Commands : c.id = CompleteRoundCommandID(r) /\ outcome[c.id] = "rejected")

(* Every completion is answered or its room set aside, over crashes and
   lost connections: nothing is lost between the topic and the bracket. *)
EveryCompletionAnswered ==
    \A p \in Partitions : \A i \in 1 .. Len(Log[p]) :
        Published(Log[p][i]) ~> (outcome[Log[p][i].id] # "none" \/ Log[p][i].room \in setAside)

(* Together: counts, slots, rounds and announcements agree.                *)
BracketSound ==
    TypeOK /\ CountsAreSlots /\ CompletedIsWhole /\ QuarantinedBlocks /\ AnnouncedOnce

(* Together: what was quarantined or sent on stays so.                     *)
ResultsStand == QuarantineIsFinal /\ AdvancementStands

(* Together: completions are answered and rounds that are ready completed. *)
RoundsGoOn == EveryCompletionAnswered /\ ReadyCompletes
=============================================================================
