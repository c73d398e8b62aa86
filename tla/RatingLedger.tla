---------------------------- MODULE RatingLedger ----------------------------
(***************************************************************************)
(* Ranking's authoritative side: the Kafka consumer that turns completed   *)
(* games and tournament results into ratings, the Postgres transaction     *)
(* that applies one fact to every participant at once, and the snapshotter *)
(* that publishes a dirty board (kafka_consumer.go, store/postgres.go,     *)
(* store/tournament_performance.go, store/snapshot_publish.go, domain/).   *)
(*                                                                         *)
(* A transaction is two steps.  Begin takes the advisory locks of the      *)
(* fact's keys and the rows of its participants, and reads them; Commit    *)
(* locks the board's row and makes every write visible.  The locks of      *)
(* Begin are taken one by one in a global order in the code, so they are   *)
(* taken together here.  Expected scores are quantised to quarters of K.   *)
(***************************************************************************)
EXTENDS Integers, Sequences, FiniteSets, SequencesExt, FiniteSetsExt, Functions

CONSTANTS
    Player,
    Partition,           \* topic-partitions; each has one serial worker
    Log,                 \* [Partition -> Seq(fact)]: the upstream records
    InitialRating,       \* a new row's rating on either board
    Floor,               \* no casual rating goes below
    MaxAttempts,         \* RetryAttempts of one record
    MaxFaults            \* failed transactions, lost replies and crashes

ASSUME RatingAssumption ==
    /\ InitialRating \in Nat /\ Floor \in 0 .. InitialRating
    /\ MaxAttempts \in Nat \ {0} /\ MaxFaults \in Nat

Casual == "casual_elo"
Placement == "tournament_placement"
Boards == {Casual, Placement}

VARIABLES
    rows,         \* player_ratings: [a set of players -> [Boards -> Nat]]
    answered,     \* dedupe rows: <<"event" | "game" | "biz", key, fingerprint>>; an
                  \* upstream event belongs to one business key
    outbox,       \* outbox_events, in commit order; rating events double as history
    board,        \* leaderboard_publication_state
    tx,           \* the open transaction of each worker
    claim,        \* the snapshotter's open transaction
    offset,       \* committed offset of each partition
    phase,        \* where the worker is with the record at that offset
    attempts,     \* failed attempts of it, in memory only
    quarantined,  \* rooms whose records no longer reach the ratings
    dlq,          \* <<partition, offset>> published to a dead-letter topic
    faults

vars == <<rows, answered, outbox, board, tx, claim, offset, phase, attempts,
          quarantined, dlq, faults>>

ledger == <<rows, answered, outbox, board>>
worker == <<offset, phase, attempts, quarantined, dlq>>

None == [open |-> FALSE]

-----------------------------------------------------------------------------
(* Elo and awards. *)

\* The expected score against an opponent, in quarters.
expectedScore(mine, theirs) ==
    CASE mine > theirs -> 3 [] mine = theirs -> 2 [] OTHER -> 1

roundHalfAwayFromZero(s, n) ==
    IF s >= 0 THEN (2 * s + n) \div (2 * n) ELSE -((n - 2 * s) \div (2 * n))

\* The average over the opponents of K * (score - expected), K being 4.
ComputePairwiseEloDelta(p, order, rating) ==
    LET place(q) == CHOOSE i \in DOMAIN order : order[i] = q
        pair(q) == (IF place(p) < place(q) THEN 4 ELSE 0) - expectedScore(rating[p], rating[q])
        others == ToSet(order) \ {p}
    IN  roundHalfAwayFromZero(FoldFunction(LAMBDA a, b : a + b, 0, [q \in others |-> pair(q)]),
                              Cardinality(others))

ApplyFloor(r) == IF r < Floor THEN Floor ELSE r

\* Top-heavy final standings and a fixed advancement award, scaled down.
TournamentFinalStandingAwards == <<2, 1, 0>>
ComputeTournamentAward(fact, p) ==
    IF fact.reason = "tournament_advancement" THEN 1
    ELSE TournamentFinalStandingAwards[CHOOSE i \in DOMAIN fact.order : fact.order[i] = p]

-----------------------------------------------------------------------------
(* Facts, their keys and what is already answered. *)

Current(w) == Log[w][offset[w] + 1]
HasRecord(w) == offset[w] < Len(Log[w])
Members(fact) == ToSet(fact.order)
BoardOf(fact) == IF fact.kind = "game" THEN Casual ELSE Placement

\* A record that cannot be parsed is given up; one that is parsed becomes a fact.
Parsed(fact) == fact.shape # "unparsable"

\* A private, abandoned or unfinished game is answered and rates nobody.
Eligible(fact) == fact.shape = "ok"
Participants(fact) == IF Eligible(fact) THEN Members(fact) ELSE {}

\* The advisory locks of a fact: its event, and its game or business key.
LockKeys(fact) == {<<fact.kind, "event", fact.event>>, <<fact.kind, "key", fact.key>>}

\* The dedupe rows a committed fact leaves.
DedupeRows(fact) ==
    IF fact.kind = "game" THEN {<<"event", fact.event, "">>, <<"game", fact.key, "">>}
                          ELSE {<<"biz", fact.key, fact.print>>}

\* A casual duplicate is found by event or by game.
loadCasualDuplicate(fact) ==
    fact.kind = "game" /\ DedupeRows(fact) \cap answered # {}

\* A tournament duplicate is the same business key with the same fingerprint.
loadTournamentPerformanceDuplicate(fact) ==
    fact.kind = "perf" /\ <<"biz", fact.key, fact.print>> \in answered

IsDuplicate(fact) == loadCasualDuplicate(fact) \/ loadTournamentPerformanceDuplicate(fact)

\* The same business key with another fingerprint is a conflict, not a duplicate.
IsConflict(fact) ==
    fact.kind = "perf" /\ \E a \in answered : a[1] = "biz" /\ a[2] = fact.key /\ a[3] # fact.print

-----------------------------------------------------------------------------
(* Locks held by open transactions. *)

LocksHeld(w) == IF tx[w].open THEN LockKeys(tx[w].fact) ELSE {}
RowsHeld(w) == IF tx[w].open THEN DOMAIN tx[w].read ELSE {}

acquireXactLocks(w, fact) ==
    \A v \in Partition \ {w} : LocksHeld(v) \cap LockKeys(fact) = {}

RowOf(p) == IF p \in DOMAIN rows THEN rows[p] ELSE [b \in Boards |-> InitialRating]

\* Mutant: the participants' rows are read without locking them.
SelectUnlocked(w, players) == TRUE

SelectForUpdate(w, players) == \A v \in Partition \ {w} : RowsHeld(v) \cap players = {}

BoardHeld(b) == claim.open /\ claim.board = b

-----------------------------------------------------------------------------
(* The consumer. *)

Init ==
    /\ rows = << >> /\ answered = {} /\ outbox = << >>
    /\ board = [b \in Boards |-> [dirty |-> 0, published |-> 0]]
    /\ tx = [w \in Partition |-> None]
    /\ claim = None
    /\ offset = [w \in Partition |-> 0]
    /\ phase = [w \in Partition |-> "apply"]
    /\ attempts = [w \in Partition |-> 0]
    /\ quarantined = {} /\ dlq = {} /\ faults = 0

\* A worker that may try its record: parsed, and its room not quarantined.
Ready(w) ==
    /\ HasRecord(w) /\ phase[w] = "apply" /\ ~tx[w].open
    /\ Parsed(Current(w))
    /\ Current(w).room \notin quarantined

\* Only game topics quarantine their aggregate, before the dead letter is sent.
failureToDLQAndCommit(w) ==
    /\ quarantined' = IF Current(w).kind = "game" THEN quarantined \union {Current(w).room}
                                                  ELSE quarantined
    /\ phase' = [phase EXCEPT ![w] = "dead"]
    /\ UNCHANGED <<offset, attempts, dlq>>

\* One more attempt failed: try again, or give the record up.
Failed(w) ==
    IF attempts[w] + 1 < MaxAttempts
    THEN /\ attempts' = [attempts EXCEPT ![w] = @ + 1]
         /\ UNCHANGED <<offset, phase, quarantined, dlq>>
    ELSE failureToDLQAndCommit(w)

\* An unparsable record is given up at once.
Unparsable(w) ==
    /\ HasRecord(w) /\ phase[w] = "apply" /\ ~tx[w].open
    /\ ~Parsed(Current(w))
    /\ Current(w).room \notin quarantined
    /\ failureToDLQAndCommit(w)
    /\ UNCHANGED <<ledger, tx, claim, faults>>

\* A record of a quarantined room is dead-lettered without being looked at.
SkipQuarantined(w) ==
    /\ HasRecord(w) /\ phase[w] = "apply" /\ ~tx[w].open
    /\ Current(w).room \in quarantined
    /\ phase' = [phase EXCEPT ![w] = "dead"]
    /\ UNCHANGED <<ledger, tx, claim, offset, attempts, quarantined, dlq, faults>>

\* A duplicate, or a fact the domain rejects, changes nothing and is committed.
Settle(w) ==
    /\ Ready(w)
    /\ acquireXactLocks(w, Current(w))
    /\ IsDuplicate(Current(w)) \/ (Current(w).shape = "rejected" /\ ~IsConflict(Current(w)))
    /\ phase' = [phase EXCEPT ![w] = "commit"]
    /\ UNCHANGED <<ledger, tx, claim, offset, attempts, quarantined, dlq, faults>>

\* A business key under another fingerprint is terminal: no attempt is repeated.
Conflict(w) ==
    /\ Ready(w)
    /\ acquireXactLocks(w, Current(w))
    /\ IsConflict(Current(w))
    /\ failureToDLQAndCommit(w)
    /\ UNCHANGED <<ledger, tx, claim, faults>>

\* Advisory locks, no duplicate, then the rows of every participant, read.
Begin(w) ==
    LET fact == Current(w)
        players == Participants(fact)
    IN  /\ Ready(w) /\ fact.shape \in {"ok", "ineligible"}
        /\ acquireXactLocks(w, fact)
        /\ ~IsDuplicate(fact) /\ ~IsConflict(fact)
        /\ SelectForUpdate(w, players)
        /\ tx' = [tx EXCEPT ![w] = [open |-> TRUE, fact |-> fact,
                                    read |-> [p \in players |-> RowOf(p)]]]
        /\ UNCHANGED <<ledger, claim, worker, faults>>

-----------------------------------------------------------------------------
(* The transaction. *)

\* What the fact makes of one participant's rating.
NextRating(fact, read, p) ==
    IF fact.kind = "game"
    THEN ApplyFloor(read[p][Casual] +
           ComputePairwiseEloDelta(p, fact.order, [q \in DOMAIN read |-> read[q][Casual]]))
    ELSE read[p][Placement] + ComputeTournamentAward(fact, p)

\* Bumped once by a transaction that changes any score of the board.
markBoardDirty(b, changed) ==
    board' = IF changed THEN [board EXCEPT ![b].dirty = @ + 1] ELSE board

\* One event per participant, in player order, stamped with the board's version.
RatingEvents(fact, read, version) ==
    LET ids == SetToSortSeq(DOMAIN read, LAMBDA a, b : a < b)
    IN  [i \in DOMAIN ids |->
           [type |-> "rating", player |-> ids[i], board |-> BoardOf(fact), key |-> fact.key,
            prev |-> read[ids[i]][BoardOf(fact)],
            next |-> NextRating(fact, read, ids[i]), version |-> version]]

\* Everything the transaction of a fact writes; an ineligible game leaves only keys.
ApplyFact(fact, read) ==
    LET b == BoardOf(fact)
        changed == \E p \in DOMAIN read : NextRating(fact, read, p) # read[p][b]
        version == IF changed THEN board'[b].dirty ELSE 0
    IN  /\ markBoardDirty(b, changed)
        /\ rows' = [p \in DOMAIN rows \union DOMAIN read |->
                      IF p \in DOMAIN read
                      THEN [RowOf(p) EXCEPT ![b] = NextRating(fact, read, p)] ELSE rows[p]]
        /\ answered' = answered \union DedupeRows(fact)
        /\ outbox' = outbox \o RatingEvents(fact, read, version)

\* The commit waits for the board's row; its reply may be lost.
Commit(w) ==
    LET fact == tx[w].fact IN
    /\ tx[w].open
    /\ ~BoardHeld(BoardOf(fact))
    /\ ApplyFact(fact, tx[w].read)
    /\ tx' = [tx EXCEPT ![w] = None]
    /\ \/ /\ phase' = [phase EXCEPT ![w] = "commit"]
          /\ UNCHANGED <<offset, attempts, quarantined, dlq, faults>>
       \/ faults < MaxFaults /\ faults' = faults + 1 /\ Failed(w)
    /\ UNCHANGED claim

\* The transaction fails and is rolled back.
Rollback(w) ==
    /\ tx[w].open /\ faults < MaxFaults
    /\ faults' = faults + 1
    /\ tx' = [tx EXCEPT ![w] = None]
    /\ Failed(w)
    /\ UNCHANGED <<ledger, claim>>

\* The dead letter is out; until then the record stays.
PublishDLQ(w) ==
    /\ phase[w] = "dead"
    /\ dlq' = dlq \union {<<w, offset[w]>>}
    /\ phase' = [phase EXCEPT ![w] = "commit"]
    /\ UNCHANGED <<ledger, tx, claim, offset, attempts, quarantined, faults>>

\* The offset is committed only after the outcome or the dead letter.
CommitOffset(w) ==
    /\ phase[w] = "commit"
    /\ offset' = [offset EXCEPT ![w] = @ + 1]
    /\ phase' = [phase EXCEPT ![w] = "apply"]
    /\ attempts' = [attempts EXCEPT ![w] = 0]
    /\ UNCHANGED <<ledger, tx, claim, quarantined, dlq, faults>>

\* The consumer stops: transactions roll back, and records not committed return.
Crash ==
    /\ faults < MaxFaults /\ faults' = faults + 1
    /\ tx' = [w \in Partition |-> None]
    /\ phase' = [w \in Partition |-> "apply"]
    /\ attempts' = [w \in Partition |-> 0]
    /\ UNCHANGED <<ledger, claim, offset, quarantined, dlq>>

-----------------------------------------------------------------------------
(* The snapshotter. *)

\* Mutant: a board one version behind is not worth a snapshot.
ClaimBehindByTwo(b) ==
    /\ ~claim.open
    /\ board[b].dirty > board[b].published + 1
    /\ claim' = [open |-> TRUE, board |-> b, version |-> board[b].dirty]
    /\ UNCHANGED <<ledger, tx, worker, faults>>

\* FOR UPDATE SKIP LOCKED over the boards whose dirty version is unpublished.
ClaimBoard(b) ==
    /\ ~claim.open
    /\ board[b].dirty > board[b].published
    /\ claim' = [open |-> TRUE, board |-> b, version |-> board[b].dirty]
    /\ UNCHANGED <<ledger, tx, worker, faults>>

\* The board as committed rows show it, best first, ties by player.
queryTopLeaderboard(b) ==
    SetToSortSeq({[player |-> p, rating |-> rows[p][b]] : p \in DOMAIN rows},
        LAMBDA x, y : x.rating > y.rating \/ (x.rating = y.rating /\ x.player < y.player))

\* The version a publication checkpoints.
CheckpointVersion(b) == claim.version

\* The snapshot is written and the board is checkpointed to the claimed version.
PublishSnapshot ==
    /\ claim.open
    /\ outbox' = Append(outbox, [type |-> "snapshot", board |-> claim.board,
                                 version |-> claim.version,
                                 entries |-> queryTopLeaderboard(claim.board)])
    /\ board' = [board EXCEPT ![claim.board].published = CheckpointVersion(claim.board)]
    /\ claim' = None
    /\ UNCHANGED <<rows, answered, tx, worker, faults>>

\* The publication fails; its row lock is released.
AbandonSnapshot ==
    /\ claim.open /\ faults < MaxFaults /\ faults' = faults + 1
    /\ claim' = None
    /\ UNCHANGED <<ledger, tx, worker>>

-----------------------------------------------------------------------------

WorkerStep(w) ==
    \/ Unparsable(w) \/ SkipQuarantined(w) \/ Settle(w) \/ Conflict(w)
    \/ Begin(w) \/ Commit(w) \/ PublishDLQ(w) \/ CommitOffset(w)

Next ==
    \/ \E w \in Partition : WorkerStep(w) \/ Rollback(w)
    \/ Crash
    \/ \E b \in Boards : ClaimBoard(b)
    \/ PublishSnapshot \/ AbandonSnapshot

\* Workers poll for ever and the snapshotter ticks for ever.
Fairness ==
    /\ \A w \in Partition : WF_vars(WorkerStep(w))
    /\ WF_vars(\E b \in Boards : ClaimBoard(b))
    /\ WF_vars(PublishSnapshot)

Spec == Init /\ [][Next]_vars /\ Fairness

-----------------------------------------------------------------------------
(* Properties. *)

RatingEventsOf(p, b) ==
    SelectSeq(outbox, LAMBDA e : e.type = "rating" /\ e.player = p /\ e.board = b)

(* Offsets, attempts and the locks of open transactions are well formed,   *)
(* and no two open transactions share a lock or a row.                     *)
TypeOK ==
    /\ \A w \in Partition : offset[w] \in 0 .. Len(Log[w])
    /\ \A w \in Partition : attempts[w] \in 0 .. MaxAttempts - 1
    /\ \A w \in Partition : phase[w] \in {"apply", "dead", "commit"}
    /\ DOMAIN rows \subseteq Player
    /\ \A b \in Boards : board[b].published <= board[b].dirty

(* A rating is the end of an unbroken chain of its own history: each event *)
(* starts where the one before it ended, so two games of one player never  *)
(* read the same rating (the row locks of ApplyCasualGameCompleted).       *)
RatingIsItsHistory ==
    \A p \in Player, b \in Boards :
        LET chain == RatingEventsOf(p, b)
        IN  /\ \A i \in DOMAIN chain :
                 chain[i].prev = IF i = 1 THEN InitialRating ELSE chain[i - 1].next
            /\ RowOf(p)[b] = IF chain = << >> THEN InitialRating ELSE chain[Len(chain)].next

(* Whatever is redelivered, renamed or retried after a lost reply, a game  *)
(* or an advancement counts once for each player.                          *)
RatedOnce ==
    \A i, j \in DOMAIN outbox :
        (outbox[i].type = "rating" /\ outbox[j].type = "rating" /\ i # j
         /\ outbox[i].player = outbox[j].player)
            => outbox[i].key # outbox[j].key

(* The board a snapshot shows is the board of its version: the ratings its *)
(* version's events lead to, neither older nor newer.                      *)
SnapshotIsItsVersion ==
    \A i \in DOMAIN outbox : outbox[i].type = "snapshot" =>
        \A k \in DOMAIN outbox[i].entries :
            LET e == outbox[i].entries[k]
                upTo == SelectSeq(RatingEventsOf(e.player, outbox[i].board),
                                  LAMBDA v : v.prev # v.next /\ v.version <= outbox[i].version)
            IN  e.rating = IF upTo = << >> THEN InitialRating ELSE upTo[Len(upTo)].next

(* Every change of score carries a version that no other transaction of    *)
(* its board carries, and versions follow commit order: the fence of the   *)
(* Redis projection.                                                       *)
VersionsFollowCommits ==
    \A i, j \in DOMAIN outbox :
        (i < j /\ outbox[i].type = "rating" /\ outbox[j].type = "rating"
         /\ outbox[i].board = outbox[j].board /\ outbox[i].prev # outbox[i].next
         /\ outbox[j].prev # outbox[j].next)
            => IF outbox[i].key = outbox[j].key
               THEN outbox[i].version = outbox[j].version
               ELSE outbox[i].version < outbox[j].version

(* A board is dirty only by changes of score: its version counts exactly   *)
(* the transactions that changed one.                                      *)
DirtyCountsChanges ==
    \A b \in Boards :
        board[b].dirty = Cardinality({outbox[i].key : i \in {k \in DOMAIN outbox :
            outbox[k].type = "rating" /\ outbox[k].board = b /\ outbox[k].prev # outbox[k].next}})

(* Once a game of a room has been given up, no later game of that room     *)
(* moves a rating: a result is never applied over a hole.                  *)
QuarantinedRoomIsStill ==
    [][\A w \in Partition : (tx[w].open /\ ~tx'[w].open /\ outbox' # outbox) =>
         \A d \in dlq : (Log[d[1]][d[2] + 1].kind = "game" /\ tx[w].fact.kind = "game")
            => tx[w].fact.room # Log[d[1]][d[2] + 1].room]_vars

(* Every record is answered, by an outcome or by a dead letter.            *)
EveryRecordAnswered == \A w \in Partition : <>[](offset[w] = Len(Log[w]))

(* Every dirty board is published in the end.                              *)
DirtyIsPublished == \A b \in Boards : <>[](board[b].published = board[b].dirty)

(* Together: ratings, their events, versions and snapshots agree.          *)
LedgerSound ==
    /\ TypeOK /\ RatingIsItsHistory /\ RatedOnce
    /\ SnapshotIsItsVersion /\ VersionsFollowCommits /\ DirtyCountsChanges

(* Together: nothing is rated over a hole, and everything is answered and  *)
(* published in the end.                                                   *)
LedgerSettles == QuarantinedRoomIsStill /\ EveryRecordAnswered /\ DirtyIsPublished
=============================================================================
