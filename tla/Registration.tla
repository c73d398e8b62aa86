----------------------------- MODULE Registration -----------------------------
(***************************************************************************)
(* The registration of a tournament: commands that create it, register a   *)
(* player, close the registration or cancel it, each in one READ COMMITTED *)
(* transaction of Postgres under advisory locks.                           *)
(*                                                                         *)
(*   domain/registration.go, lifecycle.go, seeding.go      the decisions   *)
(*   store/registration.go      reserve in a shard, close, persist         *)
(*   store/barrier.go, command_lock.go, registration_close_election.go     *)
(*   service.go                 the handlers                               *)
(*                                                                         *)
(* Capacity is divided over shards; a registration counts up one shard.    *)
(* The transaction that fills the last one closes the registration and     *)
(* leaves the seeding job of round 1 in the same commit.                   *)
(***************************************************************************)
EXTENDS Naturals, FiniteSets

CONSTANTS
    Players,        \* player ids, in the order seeding takes them; 0 is before all ("")
    Handlers,       \* concurrent requests
    Commands,       \* records: id, type and player
    Capacity,       \* capacity the tournament is created with
    ShardCount,     \* registration shards (64 in the code)
    StartShard,     \* the hash of a player id: where its probes start
    FinalThreshold, \* most players of a final (FinalPlayerThreshold)
    PlayersPerRoom, \* most players of any other room
    Nobody          \* no player, command, shard or owner

Shards == 0 .. ShardCount - 1

CommandTypes == {"create", "register", "close", "cancel"}

ASSUME RegistrationAssumption ==
    /\ Players \subseteq Nat \ {0} /\ IsFiniteSet(Players)
    /\ Commands \subseteq [id : Nat, type : CommandTypes, player : Players \cup {Nobody}]
    /\ \A c \in Commands : c.type = "register" => c.player \in Players
    /\ Capacity \in Nat \ {0} /\ ShardCount \in Nat \ {0}
    /\ StartShard \in [Players -> Shards]
    /\ FinalThreshold \in Nat \ {0} /\ PlayersPerRoom \in Nat \ {0}
    /\ Nobody \notin Commands /\ Nobody \notin Shards

VARIABLES
    phase,              \* tournaments.phase, "none" before the tournament exists
    registeredCount,    \* tournaments.registered_count
    shardCount,         \* tournament_registration_shards.count, committed
    registration,       \* tournament_registrations: the shard of each player
    outcome,            \* command_idempotency
    outbox,             \* tournament_outbox: facts with the command they are of
    round,              \* tournament_rounds, round 1
    job,                \* round_seeding_jobs, round 1
    tx                  \* the open transaction of each handler

registrationVars ==
    <<phase, registeredCount, shardCount, registration, outcome, outbox, round, job, tx>>

Terminal == {"completed", "cancelled"}

Idle == [pc |-> "idle", cmd |-> Nobody, phase |-> "none", known |-> FALSE,
         shard |-> Nobody, closes |-> FALSE]

NoJob == [status |-> "none"]

Init ==
    /\ phase = "none" /\ registeredCount = 0
    /\ shardCount = [s \in Shards |-> 0]
    /\ registration = [p \in Players |-> Nobody]
    /\ outcome = [c \in Commands |-> "none"]
    /\ outbox = {}
    /\ round = [status |-> "none", final |-> FALSE]
    /\ job = NoJob
    /\ tx = [h \in Handlers |-> Idle]

-----------------------------------------------------------------------------
(* Quotas, probes and plans                                                *)

\* The first shards take the remainder of the division.
AllocateRegistrationQuotas ==
    [s \in Shards |-> (Capacity \div ShardCount) + IF s < Capacity % ShardCount THEN 1 ELSE 0]

RegistrationProbeOrder(p) ==
    [i \in 1 .. ShardCount |-> (StartShard[p] + i - 1) % ShardCount]

Registered == {p \in Players : registration[p] # Nobody}

Full(s, counts) == counts[s] >= AllocateRegistrationQuotas[s]

\* SUM(count) under the exclusive barrier, as the number of places counted;
\* counts and rows are one commit.
RegisteredSum == Cardinality(UNION {{s} \X (1 .. shardCount[s]) : s \in Shards})

\* The rooms of a round: one final, or rooms whose sizes differ by one at most.
ComputeRoundSlotPlan(n) ==
    IF n <= FinalThreshold
    THEN [players |-> n, slots |-> 1, base |-> n, remainder |-> 0, final |-> TRUE]
    ELSE LET s == (n + PlayersPerRoom - 1) \div PlayersPerRoom
         IN [players |-> n, slots |-> s, base |-> n \div s, remainder |-> n % s, final |-> FALSE]

\* INSERT ... ON CONFLICT DO NOTHING of the pending round and its job.
InsertPendingRoundAndJob(n) ==
    LET plan == ComputeRoundSlotPlan(n)
    IN  IF job # NoJob THEN UNCHANGED <<round, job>>
        ELSE /\ round' = [status |-> "pending", final |-> plan.final]
             /\ job' = [status |-> "pending", plan |-> plan, next |-> 0, last |-> 0,
                        owner |-> Nobody, version |-> 0, expired |-> FALSE]

-----------------------------------------------------------------------------
(* Locks, held to the end of the transaction                               *)

\* All commands but RegisterPlayer exclude each other and every shared holder.
Exclusive(c) == c.type # "register"

BarrierFree(h, c) ==
    \A g \in Handlers \ {h} :
        tx[g].pc # "idle" => ~Exclusive(c) /\ ~Exclusive(tx[g].cmd)

CommandFree(c) == \A g \in Handlers : tx[g].cmd # c

PlayerFree(c) ==
    \A g \in Handlers : tx[g].pc # "idle" /\ ~Exclusive(tx[g].cmd) => tx[g].cmd.player # c.player

\* Taken by a transaction that has filled its shard.
ElectionFree(h) == \A g \in Handlers \ {h} : tx[g].pc # "elected"

\* Barrier, command, player: then the phase and the player's row are read.
\* A command whose outcome is known answers with it and changes nothing; one
\* for a tournament that does not exist (yet) is left out.
Begin(h, c) ==
    /\ tx[h].pc = "idle" /\ outcome[c] = "none"
    /\ c.type # "create" => phase # "none"
    /\ BarrierFree(h, c) /\ CommandFree(c)
    /\ tx' = [tx EXCEPT ![h] = [Idle EXCEPT !.pc = "begun", !.cmd = c, !.phase = phase,
                                            !.known = c.player \in Registered]]
    /\ UNCHANGED <<phase, registeredCount, shardCount, registration, outcome, outbox, round, job>>

BeginCreateTournament(h, c) == c.type = "create" /\ Begin(h, c)

BeginRegisterPlayer(h, c) == c.type = "register" /\ PlayerFree(c) /\ Begin(h, c)

BeginCloseRegistration(h, c) == c.type = "close" /\ Begin(h, c)

BeginCancelTournament(h, c) == c.type = "cancel" /\ Begin(h, c)

BeginCommand(h, c) ==
    \/ BeginCreateTournament(h, c) \/ BeginRegisterPlayer(h, c)
    \/ BeginCloseRegistration(h, c) \/ BeginCancelTournament(h, c)

-----------------------------------------------------------------------------
(* Decisions                                                               *)

DecideCreateTournament(t) == IF t.phase = "none" THEN "create" ELSE "tournament_already_exists"

DecideRegisterPlayer(t) ==
    CASE t.phase \in Terminal -> "already_terminal"
      [] t.phase \in {"seeding", "in_progress"} -> "wrong_phase"
      [] t.phase = "registration" /\ t.known -> "already_registered"
      [] OTHER -> "reserve"

DecideCloseRegistration(t) ==
    CASE t.phase \in Terminal -> "already_terminal"
      [] t.phase \in {"seeding", "in_progress"} -> "close_noop"
      [] OTHER -> IF RegisteredSum = 0 THEN "invalid_command" ELSE "close"

DecideCancelTournament(t) ==
    CASE t.phase = "cancelled" -> "already_done"
      [] t.phase = "completed" -> "already_terminal"
      [] OTHER -> "cancel"

-----------------------------------------------------------------------------
(* Steps of a transaction                                                  *)

Fact(name, c) == [name |-> name, cmd |-> c.id, player |-> c.player]

\* The outcome, the facts and the rows become visible together.
Commit(h, answer, names) ==
    /\ outcome' = [outcome EXCEPT ![tx[h].cmd] = answer]
    /\ outbox' = outbox \cup {Fact(n, tx[h].cmd) : n \in names}
    /\ tx' = [tx EXCEPT ![h] = Idle]

CommitCreate(h) ==
    LET answer == DecideCreateTournament(tx[h])
    IN /\ tx[h].pc = "begun" /\ tx[h].cmd.type = "create"
       /\ Commit(h, answer, IF answer = "create" THEN {"TournamentCreated"} ELSE {})
       /\ phase' = IF answer = "create" THEN "registration" ELSE phase
       /\ UNCHANGED <<registeredCount, shardCount, registration, round, job>>

CommitClose(h) ==
    LET answer == DecideCloseRegistration(tx[h])
    IN /\ tx[h].pc = "begun" /\ tx[h].cmd.type = "close"
       /\ Commit(h, answer, IF answer = "close" THEN {"RegistrationClosed"} ELSE {})
       /\ IF answer = "close"
          THEN /\ phase' = "seeding" /\ registeredCount' = RegisteredSum
               /\ InsertPendingRoundAndJob(RegisteredSum)
          ELSE UNCHANGED <<phase, registeredCount, round, job>>
       /\ UNCHANGED <<shardCount, registration>>

CommitCancel(h) ==
    LET answer == DecideCancelTournament(tx[h])
    IN /\ tx[h].pc = "begun" /\ tx[h].cmd.type = "cancel"
       /\ Commit(h, answer, IF answer = "cancel" THEN {"TournamentCancelled"} ELSE {})
       /\ phase' = IF answer = "cancel" THEN "cancelled" ELSE phase
       /\ UNCHANGED <<registeredCount, shardCount, registration, round, job>>

\* A refusal, and a player who is registered already: only the outcome is kept.
AnswerRegister(h) ==
    LET answer == DecideRegisterPlayer(tx[h])
    IN /\ tx[h].pc = "begun" /\ tx[h].cmd.type = "register"
       /\ answer # "reserve"
       /\ Commit(h, answer, {})
       /\ UNCHANGED <<phase, registeredCount, shardCount, registration, round, job>>

\* Mutant: only the first shard of the probe order is tried.
ReserveInStartShard(h) ==
    LET s == StartShard[tx[h].cmd.player]
    IN /\ tx[h].pc = "begun" /\ tx[h].cmd.type = "register"
       /\ DecideRegisterPlayer(tx[h]) = "reserve"
       /\ IF Full(s, shardCount)
          THEN Commit(h, "capacity_exceeded", {})
          ELSE /\ \A g \in Handlers \ {h} : tx[g].shard # s
               /\ tx' = [tx EXCEPT ![h].shard = s,
                                   ![h].pc = IF shardCount[s] + 1 = AllocateRegistrationQuotas[s]
                                             THEN "filled" ELSE "reserved"]
               /\ UNCHANGED <<outcome, outbox>>
       /\ UNCHANGED <<phase, registeredCount, shardCount, registration, round, job>>

\* The first shard of the probe order that is not full as far as committed
\* rows tell; when another transaction has its row, this one waits and looks
\* again.  No shard left: capacity_exceeded, with nothing reserved.
ReserveRegistration(h) ==
    LET order == RegistrationProbeOrder(tx[h].cmd.player)
        open == {i \in 1 .. ShardCount : ~Full(order[i], shardCount)}
        s == order[CHOOSE i \in open : \A j \in open : i <= j]
    IN /\ tx[h].pc = "begun" /\ tx[h].cmd.type = "register"
       /\ DecideRegisterPlayer(tx[h]) = "reserve"
       /\ IF open = {}
          THEN Commit(h, "capacity_exceeded", {})
          ELSE /\ \A g \in Handlers \ {h} : tx[g].shard # s
               /\ tx' = [tx EXCEPT ![h].shard = s,
                                   ![h].pc = IF shardCount[s] + 1 = AllocateRegistrationQuotas[s]
                                             THEN "filled" ELSE "reserved"]
               /\ UNCHANGED <<outcome, outbox>>
       /\ UNCHANGED <<phase, registeredCount, shardCount, registration, round, job>>

\* Under the election lock a fresh statement looks for a shard with room; it
\* sees what is committed and the transaction's own count.
ElectCloser(h) ==
    LET counts == [shardCount EXCEPT ![tx[h].shard] = @ + 1]
    IN /\ tx[h].pc = "filled"
       /\ ElectionFree(h)
       /\ tx' = [tx EXCEPT ![h].pc = "elected",
                           ![h].closes = phase = "registration" /\ \A s \in Shards : Full(s, counts)]
       /\ UNCHANGED <<phase, registeredCount, shardCount, registration, outcome, outbox, round, job>>

\* The row, its count and, for the one elected, the close and the kickoff.
FinalizeRegister(h) ==
    /\ tx[h].pc \in {"reserved", "elected"}
    /\ shardCount' = [shardCount EXCEPT ![tx[h].shard] = @ + 1]
    /\ registration' = [registration EXCEPT ![tx[h].cmd.player] = tx[h].shard]
    /\ Commit(h, "registered", {"PlayerRegistered"} \cup IF tx[h].closes THEN {"RegistrationClosed"} ELSE {})
    /\ IF tx[h].closes
       THEN /\ phase' = "seeding" /\ registeredCount' = Capacity
            /\ InsertPendingRoundAndJob(Capacity)
       ELSE UNCHANGED <<phase, registeredCount, round, job>>

\* A crash or a lost connection at any moment.
Rollback(h) ==
    /\ tx[h].pc # "idle"
    /\ tx' = [tx EXCEPT ![h] = Idle]
    /\ UNCHANGED <<phase, registeredCount, shardCount, registration, outcome, outbox, round, job>>

ProceedCommand(h) ==
    \/ CommitCreate(h) \/ CommitClose(h) \/ CommitCancel(h)
    \/ AnswerRegister(h) \/ ReserveRegistration(h) \/ ElectCloser(h) \/ FinalizeRegister(h)

Next == \E h \in Handlers : ProceedCommand(h) \/ Rollback(h) \/ \E c \in Commands : BeginCommand(h, c)

Spec == Init /\ [][Next]_registrationVars

-----------------------------------------------------------------------------
(* Properties                                                              *)

JobStatuses == {"pending", "in_progress", "completed", "cancelled", "quarantined"}

RegistrationTypeOK ==
    /\ phase \in {"none", "registration", "seeding", "in_progress"} \cup Terminal
    /\ registeredCount \in Nat
    /\ shardCount \in [Shards -> Nat]
    /\ registration \in [Players -> Shards \cup {Nobody}]
    /\ job = NoJob \/ (job.status \in JobStatuses /\ job.next \in 0 .. job.plan.slots)
    /\ \A h \in Handlers : tx[h].shard # Nobody => ~Exclusive(tx[h].cmd)

(* Each shard counts exactly the players registered in it and none is above *)
(* its quota, so a tournament never has more players than its capacity.     *)
CountsAreRows ==
    \A s \in Shards :
        /\ shardCount[s] = Cardinality({p \in Players : registration[p] = s})
        /\ shardCount[s] <= AllocateRegistrationQuotas[s]

(* When the last shard is full the registration is over: of transactions    *)
(* that fill different shards at the same time one sees that all are full.  *)
FullIsClosed ==
    (\A s \in Shards : Full(s, shardCount)) => phase # "registration"

(* A closed registration has left the work of round 1, for exactly the      *)
(* players that are registered, and was announced once; without a close     *)
(* there is no job.                                                         *)
ClosedIsKickedOff ==
    LET closes == {f \in outbox : f.name = "RegistrationClosed"}
    IN /\ Cardinality(closes) <= 1
       /\ phase \in {"seeding", "in_progress"} => job # NoJob
       /\ job # NoJob <=> closes # {}
       /\ job # NoJob => /\ job.plan.players = Cardinality(Registered)
                         /\ registeredCount = Cardinality(Registered)

(* A command answers for what is committed: a player told that he is        *)
(* registered is, and a player is turned away for capacity only when every  *)
(* place is taken.                                                          *)
AnswersAreTrue ==
    \A c \in Commands :
        /\ outcome[c] \in {"registered", "already_registered"} => registration[c.player] # Nobody
        /\ outcome[c] = "capacity_exceeded" => Cardinality(Registered) = Capacity

(* Nobody joins once the registration is over, and nobody leaves or moves   *)
(* to another shard.                                                        *)
NoLateRegistration ==
    [][ \A p \in Players : registration'[p] # registration[p] =>
            registration[p] = Nobody /\ phase = "registration" ]_registrationVars

(* Together: what is counted, closed and answered is what is registered.   *)
RegistrationSound ==
    /\ RegistrationTypeOK /\ CountsAreRows /\ FullIsClosed
    /\ ClosedIsKickedOff /\ AnswersAreTrue
=============================================================================
