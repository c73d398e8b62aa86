-------------------------- MODULE RoundSeeding_proof --------------------------
(***************************************************************************)
(* Registrations and seeded slots stand, what is counted, closed and       *)
(* answered is what is registered, and who is registered is seeded once:   *)
(* for any players, commands, requests, shards and workers, whatever the   *)
(* capacity, the chunks and the batches.                                   *)
(*                                                                         *)
(* A registration is decided when its transaction begins and written when  *)
(* it ends, and another one may close the registration in between.  The    *)
(* invariant is about what an open transaction has read: a closing one is  *)
(* only elected when every other shard is full, and a full shard takes     *)
(* nobody (StillOpen, NoRoomBesides).  For the workers, the one that       *)
(* writes a chunk still has the claim it had when it began (ChunkFenced)   *)
(* and the slots end where the job's checkpoint is (SlotsToCheckpoint).    *)
(*                                                                         *)
(* RInv is a second layer: which transaction fills a shard and which one   *)
(* closes (Elections), and what the close leaves (Announced,               *)
(* ForTheRegistered).  Rows and quotas are counted shard by shard and      *)
(* added up with bijections (RowsAddUp, QuotasAddUp).                      *)
(*                                                                         *)
(* SInv is the third: the slots hold the players up to the cursor and are  *)
(* as many as the plan says (SlotsFilled), so a chunk always finds the     *)
(* number of players it needs (NextChunk) and the last one leaves nobody   *)
(* over (NobodyIsLeft).                                                    *)
(***************************************************************************)
EXTENDS RoundSeeding, FiniteSetTheorems, WellFoundedInduction, TLAPS

Phases == {"none", "registration", "seeding", "in_progress"} \cup Terminal

Transactions ==
    [pc : {"idle", "begun", "reserved", "filled", "elected"}, cmd : Commands \cup {Nobody},
     phase : Phases, known : BOOLEAN, shard : Shards \cup {Nobody}, closes : BOOLEAN]

JobFields == {"status", "plan", "next", "last", "owner", "version", "expired"}

IsJob(j) ==
    /\ DOMAIN j = JobFields
    /\ j.version \in Nat /\ j.next \in Nat /\ j.plan.slots \in Nat /\ j.next <= j.plan.slots

Shaped ==
    /\ phase \in Phases
    /\ shardCount \in [Shards -> Nat]
    /\ registration \in [Players -> Shards \cup {Nobody}]
    /\ tx \in [Handlers -> Transactions]
    /\ wrk \in [Workers -> [pc : {"idle", "reaping", "claimed", "chunk"}, version : Nat, next : Nat]]

-----------------------------------------------------------------------------
(* What an open transaction has read                                       *)

Opened(h) == tx[h].pc # "idle"
Reserving(h) == tx[h].pc \in {"reserved", "filled", "elected"}
HasRoom(s) == shardCount[s] < AllocateRegistrationQuotas[s]

\* Only a registration holds a shard, and it does until it ends.
HoldsItsShard ==
    \A h \in Handlers :
        /\ Opened(h) => tx[h].cmd \in Commands
        /\ Opened(h) /\ Exclusive(tx[h].cmd) => tx[h].phase = phase
        /\ IF Reserving(h)
           THEN /\ ~Exclusive(tx[h].cmd) /\ tx[h].phase = "registration" /\ ~tx[h].known
                /\ tx[h].shard \in Shards /\ HasRoom(tx[h].shard)
           ELSE tx[h].shard = Nobody /\ ~tx[h].closes

\* Exclusive commands run alone; registrations next to each other are of
\* different players and hold different shards.
SideBySide ==
    \A g, h \in Handlers : g # h /\ Opened(g) /\ Opened(h) =>
        /\ ~Exclusive(tx[g].cmd) /\ ~Exclusive(tx[h].cmd)
        /\ tx[g].cmd.player # tx[h].cmd.player
        /\ Reserving(g) /\ Reserving(h) => tx[g].shard # tx[h].shard

\* A registration that began in time is in time, or finds every shard full.
StillOpen ==
    \A h \in Handlers : Opened(h) /\ tx[h].phase = "registration" =>
        phase = "registration" \/ \A s \in Shards : ~HasRoom(s)

\* Whom a transaction found without a place still has none.
StillUnknown ==
    \A h \in Handlers : Opened(h) /\ ~Exclusive(tx[h].cmd) =>
        /\ tx[h].phase # "none" /\ phase # "none"
        /\ ~tx[h].known => registration[tx[h].cmd.player] = Nobody

\* Who closes the registration has filled the last shard.
NoRoomBesides ==
    \A h \in Handlers : tx[h].closes =>
        /\ shardCount[tx[h].shard] + 1 >= AllocateRegistrationQuotas[tx[h].shard]
        /\ \A s \in Shards : HasRoom(s) => s = tx[h].shard

-----------------------------------------------------------------------------
(* The job and its slots                                                   *)

JobIsThere == job # NoJob

\* No job before the registration is over, and no slots before the job.
NotBeforeTheClose ==
    phase \in {"none", "registration"} => ~JobIsThere /\ DOMAIN slots = {}

SlotsToCheckpoint ==
    JobIsThere =>
        /\ IsJob(job)
        /\ job.status # "quarantined" => DOMAIN slots = 0 .. job.next - 1

ChunkFenced ==
    \A w \in Workers : wrk[w].pc = "chunk" =>
        job.status = "in_progress" /\ job.owner = w /\ job.version = wrk[w].version

\* Whoever has claimed a job finds one.
ClaimsHaveJob == \A w \in Workers : wrk[w].pc \in {"claimed", "chunk"} => JobIsThere

\* A chunk has the barrier, so no command that needs it alone is under way.
ChunkHasBarrier ==
    \A w \in Workers, h \in Handlers :
        wrk[w].pc = "chunk" /\ Opened(h) => ~Exclusive(tx[h].cmd)

TxInv == HoldsItsShard /\ SideBySide /\ StillOpen /\ StillUnknown /\ NoRoomBesides
JobInv == NotBeforeTheClose /\ SlotsToCheckpoint /\ ChunkFenced /\ ClaimsHaveJob

IInv == Shaped /\ TxInv /\ JobInv /\ ChunkHasBarrier

-----------------------------------------------------------------------------
(* Shards, counts and plans                                                *)

LEMMA LeastMember ==
    ASSUME NEW n \in Nat, NEW S \in SUBSET (1 .. n), S # {}
    PROVE  \E i \in S : \A j \in S : i <= j
<1> DEFINE Below(i) == {j \in 1 .. n : j < i}
           T == {Below(i) : i \in S}
<1>1. IsFiniteSet(1 .. n)
  BY FS_Interval
<1>2. IsWellFoundedOn(StrictSubsetOrdering(1 .. n), SUBSET (1 .. n))
  BY <1>1, FS_StrictSubsetOrderingWellFounded, FS_FiniteSubsetsOfFinite
<1>3. T \subseteq SUBSET (1 .. n) /\ T # {}
  OBVIOUS
<1>4. PICK x \in T : \A y \in T : <<y, x>> \notin StrictSubsetOrdering(1 .. n)
  <2> HIDE DEF T
  <2> QED BY <1>2, <1>3, WFMin
<1>5. PICK i \in S : x = Below(i)
  OBVIOUS
<1>6. ASSUME NEW j \in S, j < i PROVE FALSE
  <2>1. Below(j) \subseteq Below(i) /\ j \in Below(i) /\ j \notin Below(j)
    BY <1>6
  <2>2. <<Below(j), x>> \in StrictSubsetOrdering(1 .. n)
    BY <2>1, <1>5 DEF StrictSubsetOrdering
  <2> QED BY <2>2, <1>4
<1> QED BY <1>6

LEMMA QuotasAreNumbers == \A s \in Shards : AllocateRegistrationQuotas[s] \in Nat
<1>1. Capacity \div ShardCount \in Nat
  BY RegistrationAssumption
<1> QED BY <1>1 DEF AllocateRegistrationQuotas

LEMMA ProbesAreShards ==
    ASSUME NEW p \in Players, NEW i \in 1 .. ShardCount
    PROVE  RegistrationProbeOrder(p)[i] \in Shards
<1>1. StartShard[p] \in Nat /\ ShardCount \in Nat \ {0}
  BY RegistrationAssumption DEF Shards
<1>2. (StartShard[p] + i - 1) % ShardCount \in 0 .. ShardCount - 1
  BY <1>1
<1> QED BY <1>2 DEF RegistrationProbeOrder, Shards

LEMMA SumIsANumber == ASSUME Shaped PROVE RegisteredSum \in Nat
<1> DEFINE Places(s) == {s} \X (1 .. shardCount[s])
<1>1. IsFiniteSet(Shards)
  BY FS_Interval, RegistrationAssumption DEF Shards
<1>2. \A s \in Shards : IsFiniteSet(Places(s))
  <2> SUFFICES ASSUME NEW s \in Shards PROVE IsFiniteSet(Places(s)) OBVIOUS
  <2>1. shardCount[s] \in Nat
    BY DEF Shaped
  <2>2. IsFiniteSet({s})
    BY FS_Singleton
  <2>4. IsFiniteSet(1 .. shardCount[s])
    BY <2>1, FS_Interval
  <2> DEFINE S == {s}
             T == 1 .. shardCount[s]
  <2>3. IsFiniteSet(S \X T)
    <3>1. IsFiniteSet(S) /\ IsFiniteSet(T)
      BY <2>2, <2>4
    <3> HIDE DEF S, T
    <3> QED BY <3>1, FS_Product
  <2> QED BY <2>3
<1> DEFINE AllPlaces == {Places(s) : s \in Shards}
           place == [s \in Shards |-> Places(s)]
<1>3. IsFiniteSet(AllPlaces)
  <2>1. place \in Surjection(Shards, AllPlaces)
    BY DEF Surjection
  <2> HIDE DEF AllPlaces, place
  <2> QED BY <1>1, <2>1, FS_Surjection
<1>4. \A P \in AllPlaces : IsFiniteSet(P)
  BY <1>2
<1>5. IsFiniteSet(UNION AllPlaces)
  <2> HIDE DEF AllPlaces
  <2> QED BY <1>3, <1>4, FS_UNION
<1> QED BY <1>5, FS_CardinalityType DEF RegisteredSum

LEMMA PlanHasSlots == ASSUME NEW n \in Nat PROVE ComputeRoundSlotPlan(n).slots \in Nat
<1>1. PlayersPerRoom \in Nat \ {0} /\ (n + PlayersPerRoom - 1) \in Nat
  BY RegistrationAssumption
<1>2. (n + PlayersPerRoom - 1) \div PlayersPerRoom \in Nat
  BY <1>1
<1> QED BY <1>2 DEF ComputeRoundSlotPlan

\* A chunk goes on from the checkpoint and not past the last slot.
LEMMA ChunkGoesOn ==
    ASSUME IsJob(job)
    PROVE  /\ NextSeedingChunkBounds(job.plan, job.next) \in Nat
           /\ job.next <= NextSeedingChunkBounds(job.plan, job.next)
           /\ NextSeedingChunkBounds(job.plan, job.next) <= job.plan.slots
<1> DEFINE a == job.plan.slots
           b == job.next + SlotsPerChunk
<1>1. a \in Nat /\ b \in Nat /\ job.next <= a /\ job.next <= b /\ job.next \in Nat
  BY RoundSeedingAssumption DEF IsJob
<1> HIDE DEF a, b
<1>2. \E x \in {a, b} : \A y \in {a, b} : x <= y
  BY <1>1
<1>3. Min({a, b}) \in {a, b} /\ Min({a, b}) <= a
  BY <1>2 DEF Min
<1> QED BY <1>1, <1>3 DEF NextSeedingChunkBounds, a, b

LEMMA JobsAreThere == IsJob(job') => JobIsThere'
<1>1. DOMAIN NoJob # JobFields
  BY DEF NoJob, JobFields
<1> QED BY <1>1 DEF IsJob, JobIsThere

-----------------------------------------------------------------------------
(* Requests: what each of their steps does to the transactions             *)

\* Shard rows a transaction of its own sees counted up only by itself.
OthersKept(h) == \A g \in Handlers \ {h} : tx'[g] = tx[g]

LEMMA SetTransaction ==
    ASSUME Shaped, NEW h \in Handlers, NEW t \in Transactions, tx' = [tx EXCEPT ![h] = t]
    PROVE  tx' \in [Handlers -> Transactions] /\ tx'[h] = t /\ OthersKept(h)
BY DEF Shaped, OthersKept

LEMMA IdleIsOne == Idle \in Transactions
BY DEF Idle, Transactions, Phases

LEMMA TxParts ==
    ASSUME Shaped, NEW h \in Handlers
    PROVE  /\ tx[h] \in Transactions
           /\ tx[h].pc \in {"idle", "begun", "reserved", "filled", "elected"}
           /\ tx[h].phase \in Phases /\ tx[h].shard \in Shards \cup {Nobody}
           /\ tx[h].known \in BOOLEAN /\ tx[h].closes \in BOOLEAN
BY DEF Shaped, Transactions

\* The end of a transaction that leaves everything else alone.
LEMMA EndsAlone ==
    ASSUME Shaped, TxInv, NEW h \in Handlers, tx' = [tx EXCEPT ![h] = Idle],
           UNCHANGED <<phase, shardCount, registration, wrk>>
    PROVE  Shaped' /\ TxInv'
<1>1. tx' \in [Handlers -> Transactions] /\ tx'[h] = Idle /\ OthersKept(h)
  BY SetTransaction, IdleIsOne
<1>2. Shaped'
  BY <1>1 DEF Shaped
<1>3. /\ ~Opened(h)' /\ ~Reserving(h)' /\ tx'[h].shard = Nobody /\ ~tx'[h].closes
      /\ \A g \in Handlers \ {h} : tx'[g] = tx[g]
  BY <1>1 DEF Opened, Reserving, Idle, OthersKept
<1> HIDE DEF Idle
<1>4. \A s \in Shards : HasRoom(s)' = HasRoom(s)
  BY DEF HasRoom
<1>5. \A g \in Handlers : Opened(g)' => g # h /\ Opened(g) /\ tx'[g] = tx[g]
  BY <1>3 DEF Opened
<1>6. \A g \in Handlers \ {h} : Reserving(g)' = Reserving(g)
  BY <1>3 DEF Reserving
<1>7. HoldsItsShard'
  BY <1>3, <1>4, <1>5, <1>6 DEF TxInv, HoldsItsShard
<1>8. SideBySide'
  BY <1>5, <1>6 DEF TxInv, SideBySide
<1>9. StillOpen'
  BY <1>4, <1>5 DEF TxInv, StillOpen
<1>10. StillUnknown'
  BY <1>5 DEF TxInv, StillUnknown
<1>11. NoRoomBesides'
  <2> SUFFICES ASSUME NEW g \in Handlers, tx'[g].closes
               PROVE  /\ shardCount'[tx'[g].shard] + 1 >= AllocateRegistrationQuotas[tx'[g].shard]
                      /\ \A s \in Shards : HasRoom(s)' => s = tx'[g].shard
    BY DEF NoRoomBesides
  <2>1. g # h /\ tx'[g] = tx[g]
    BY <1>3
  <2> QED BY <2>1, <1>4 DEF TxInv, NoRoomBesides
<1> QED BY <1>2, <1>7, <1>8, <1>9, <1>10, <1>11 DEF TxInv

\* An exclusive command is alone, so whatever phase it leaves nobody has read.
LEMMA ExclusiveEnds ==
    ASSUME Shaped, TxInv, NEW h \in Handlers, Opened(h), Exclusive(tx[h].cmd),
           tx' = [tx EXCEPT ![h] = Idle], phase' \in Phases,
           UNCHANGED <<shardCount, registration, wrk>>
    PROVE  Shaped' /\ TxInv'
<1>1. tx' \in [Handlers -> Transactions] /\ tx'[h] = Idle /\ OthersKept(h)
  BY SetTransaction, IdleIsOne
<1>2. Shaped'
  BY <1>1 DEF Shaped
<1>3. \A g \in Handlers \ {h} : ~Opened(g)
  BY DEF TxInv, SideBySide
<1>4. ~Opened(h)' /\ tx'[h].shard = Nobody /\ ~tx'[h].closes
  BY <1>1 DEF Opened, Idle
<1>5. \A g \in Handlers : ~Opened(g)'
  BY <1>1, <1>3, <1>4 DEF Opened, OthersKept
<1>6. \A g \in Handlers \ {h} : tx'[g] = tx[g] /\ ~Reserving(g)
  BY <1>1, <1>3 DEF OthersKept, Opened, Reserving
<1>7. \A g \in Handlers \ {h} : tx'[g].shard = Nobody /\ ~tx'[g].closes
  BY <1>6 DEF TxInv, HoldsItsShard
<1>8. \A g \in Handlers : ~Reserving(g)'
  BY <1>5 DEF Opened, Reserving
<1>9. HoldsItsShard'
  BY <1>4, <1>5, <1>7, <1>8 DEF HoldsItsShard
<1>10. SideBySide' /\ StillOpen' /\ StillUnknown'
  BY <1>5 DEF SideBySide, StillOpen, StillUnknown
<1>11. NoRoomBesides'
  BY <1>4, <1>7 DEF NoRoomBesides
<1> QED BY <1>2, <1>9, <1>10, <1>11 DEF TxInv

LEMMA BeginKeeps ==
    ASSUME Shaped, TxInv, NEW h \in Handlers, NEW c \in Commands, BeginCommand(h, c),
           UNCHANGED wrk
    PROVE  Shaped' /\ TxInv' /\ tx'[h].cmd = c /\ OthersKept(h)
<1>0. Begin(h, c) /\ (~Exclusive(c) => PlayerFree(c))
  <2>1. c.type # "register" \/ PlayerFree(c)
    BY DEF BeginCommand, BeginCreateTournament, BeginRegisterPlayer, BeginCloseRegistration,
           BeginCancelTournament
  <2>2. Begin(h, c)
    BY DEF BeginCommand, BeginCreateTournament, BeginRegisterPlayer, BeginCloseRegistration,
           BeginCancelTournament
  <2> QED BY <2>1, <2>2 DEF Exclusive
<1> DEFINE seen == c.player \in Registered
           t == [Idle EXCEPT !.pc = "begun", !.cmd = c, !.phase = phase, !.known = seen]
<1>1. tx' = [tx EXCEPT ![h] = t]
  BY <1>0 DEF Begin
<1>2. seen \in BOOLEAN /\ (~seen => c.player \notin Registered)
  OBVIOUS
<1> HIDE DEF seen
<1>3. t \in Transactions
  BY <1>2, IdleIsOne DEF Transactions, Shaped
<1>4. /\ t.pc = "begun" /\ t.cmd = c /\ t.phase = phase /\ t.shard = Nobody /\ ~t.closes
      /\ ~t.known => c.player \notin Registered
  BY <1>2 DEF Idle
<1> HIDE DEF t
<1>5. tx' \in [Handlers -> Transactions] /\ tx'[h] = t /\ OthersKept(h)
  BY <1>1, <1>3, SetTransaction
<1>6. UNCHANGED <<phase, shardCount, registration>>
  BY <1>0 DEF Begin
<1>7. Shaped'
  BY <1>5, <1>6 DEF Shaped
<1>8. \A g \in Handlers \ {h} : tx'[g] = tx[g] /\ Opened(g)' = Opened(g) /\ Reserving(g)' = Reserving(g)
  BY <1>5 DEF OthersKept, Opened, Reserving
<1>9. \A s \in Shards : HasRoom(s)' = HasRoom(s)
  BY <1>6 DEF HasRoom
<1>10. ~Reserving(h)'
  BY <1>4, <1>5 DEF Reserving
<1>11. HoldsItsShard'
  BY <1>4, <1>5, <1>6, <1>8, <1>9, <1>10 DEF TxInv, HoldsItsShard
<1>12. \A g \in Handlers \ {h} : Opened(g) => ~Exclusive(c) /\ ~Exclusive(tx[g].cmd)
  BY <1>0 DEF Begin, BarrierFree, Opened
<1>13. \A g \in Handlers \ {h} : Opened(g) => tx[g].cmd.player # c.player
  BY <1>0, <1>12 DEF PlayerFree, Opened
<1>14. SideBySide'
  BY <1>4, <1>5, <1>8, <1>10, <1>12, <1>13 DEF TxInv, SideBySide
<1>15. StillOpen'
  BY <1>4, <1>5, <1>6, <1>8, <1>9 DEF TxInv, StillOpen
<1>16. ~Exclusive(c) => phase # "none" /\ (~t.known => registration[c.player] = Nobody)
  <2> SUFFICES ASSUME ~Exclusive(c) PROVE phase # "none" /\ (~t.known => registration[c.player] = Nobody)
    OBVIOUS
  <2>1. c.type = "register" /\ c.player \in Players
    BY RegistrationAssumption DEF Exclusive
  <2>2. phase # "none"
    BY <1>0, <2>1 DEF Begin
  <2> QED BY <1>4, <2>1, <2>2 DEF Registered
<1>17. StillUnknown'
  BY <1>4, <1>5, <1>6, <1>8, <1>16 DEF TxInv, StillUnknown
<1>18. NoRoomBesides'
  <2> SUFFICES ASSUME NEW g \in Handlers, tx'[g].closes
               PROVE  /\ shardCount'[tx'[g].shard] + 1 >= AllocateRegistrationQuotas[tx'[g].shard]
                      /\ \A s \in Shards : HasRoom(s)' => s = tx'[g].shard
    BY DEF NoRoomBesides
  <2>1. g # h /\ tx'[g] = tx[g]
    BY <1>4, <1>5, <1>8
  <2> QED BY <2>1, <1>6, <1>9 DEF TxInv, NoRoomBesides
<1> QED BY <1>4, <1>5, <1>7, <1>11, <1>14, <1>15, <1>17, <1>18 DEF TxInv

\* A registration that is still to be decided began in time, and whoever it
\* is about has no place.
LEMMA WhoReserves ==
    ASSUME Shaped, TxInv, NEW h \in Handlers, tx[h].pc = "begun", tx[h].cmd.type = "register",
           DecideRegisterPlayer(tx[h]) = "reserve"
    PROVE  ~Exclusive(tx[h].cmd) /\ tx[h].phase = "registration" /\ ~tx[h].known
<1>1. Opened(h) /\ ~Exclusive(tx[h].cmd)
  BY DEF Opened, Exclusive
<1>2. tx[h].phase # "none" /\ tx[h].phase \in Phases
  BY <1>1, TxParts DEF TxInv, StillUnknown
<1>3. /\ tx[h].phase \notin Terminal /\ tx[h].phase \notin {"seeding", "in_progress"}
      /\ ~(tx[h].phase = "registration" /\ tx[h].known)
  BY DEF DecideRegisterPlayer
<1> QED BY <1>1, <1>2, <1>3 DEF Phases, Terminal

LEMMA ReserveKeeps ==
    ASSUME Shaped, TxInv, NEW h \in Handlers, ReserveRegistration(h), UNCHANGED wrk
    PROVE  Shaped' /\ TxInv' /\ tx'[h].cmd \in {tx[h].cmd, Nobody} /\ OthersKept(h)
<1> DEFINE order == RegistrationProbeOrder(tx[h].cmd.player)
           open == {i \in 1 .. ShardCount : ~Full(order[i], shardCount)}
           first == CHOOSE i \in open : \A j \in open : i <= j
           s == order[first]
           pc == IF shardCount[s] + 1 = AllocateRegistrationQuotas[s] THEN "filled" ELSE "reserved"
<1>0. UNCHANGED <<phase, shardCount, registration, wrk>>
  BY DEF ReserveRegistration
<1>1. CASE open = {}
  <2>1. tx' = [tx EXCEPT ![h] = Idle]
    BY <1>1 DEF ReserveRegistration, Commit
  <2>2. tx'[h] = Idle /\ OthersKept(h)
    BY <2>1, SetTransaction, IdleIsOne
  <2>3. tx'[h].cmd = Nobody
    BY <2>2 DEF Idle
  <2> QED BY <1>0, <2>1, <2>2, <2>3, EndsAlone
<1>2. CASE open # {}
  <2>1. /\ tx[h].pc = "begun" /\ tx[h].cmd.type = "register"
        /\ DecideRegisterPlayer(tx[h]) = "reserve"
    BY DEF ReserveRegistration
  <2>2. /\ \A g \in Handlers \ {h} : tx[g].shard # s
        /\ tx' = [tx EXCEPT ![h].shard = s, ![h].pc = pc]
    BY <1>2 DEF ReserveRegistration
  <2>3. s \in Shards /\ HasRoom(s)
    <3>1. first \in open
      <4>1. ShardCount \in Nat /\ open \in SUBSET (1 .. ShardCount)
        BY RegistrationAssumption
      <4> HIDE DEF open
      <4>2. \E i \in open : \A j \in open : i <= j
        BY <4>1, <1>2, LeastMember
      <4> QED BY <4>2
    <3> HIDE DEF first
    <3>2. tx[h].cmd.player \in Players
      BY <2>1, RegistrationAssumption DEF TxInv, HoldsItsShard, Opened
    <3>3. s \in Shards
      BY <3>1, <3>2, ProbesAreShards
    <3>4. ~Full(s, shardCount)
      BY <3>1
    <3>5. shardCount[s] \in Nat /\ AllocateRegistrationQuotas[s] \in Nat
      BY <3>3, QuotasAreNumbers DEF Shaped
    <3> QED BY <3>3, <3>4, <3>5 DEF Full, HasRoom
  <2> HIDE DEF s
  <2>4. pc \in {"filled", "reserved"}
    OBVIOUS
  <2> HIDE DEF pc
  <2> DEFINE t == [tx[h] EXCEPT !.shard = s, !.pc = pc]
  <2>5. tx' = [tx EXCEPT ![h] = t]
    BY <2>2 DEF Shaped
  <2>6. tx[h] \in Transactions
    BY TxParts
  <2>7. t \in Transactions
    BY <2>3, <2>4, <2>6 DEF Transactions
  <2>8. /\ t.pc = pc /\ t.shard = s /\ t.cmd = tx[h].cmd /\ t.phase = tx[h].phase
        /\ t.known = tx[h].known /\ t.closes = tx[h].closes
    BY <2>6 DEF Transactions
  <2> HIDE DEF t
  <2>9. tx' \in [Handlers -> Transactions] /\ tx'[h] = t /\ OthersKept(h)
    BY <2>5, <2>7, SetTransaction
  <2>10. Shaped'
    BY <1>0, <2>9 DEF Shaped
  <2>11. Opened(h) /\ ~Reserving(h) /\ Opened(h)' /\ Reserving(h)'
    BY <2>1, <2>4, <2>8, <2>9 DEF Opened, Reserving
  <2>12. \A g \in Handlers \ {h} : tx'[g] = tx[g] /\ Opened(g)' = Opened(g) /\ Reserving(g)' = Reserving(g)
    BY <2>9 DEF OthersKept, Opened, Reserving
  <2>13. \A r \in Shards : HasRoom(r)' = HasRoom(r)
    BY <1>0 DEF HasRoom
  <2>14. ~Exclusive(tx[h].cmd) /\ tx[h].phase = "registration" /\ ~tx[h].known
    BY <2>1, WhoReserves
  <2>15. HoldsItsShard'
    BY <1>0, <2>3, <2>8, <2>9, <2>11, <2>12, <2>13, <2>14 DEF TxInv, HoldsItsShard
  <2>16. SideBySide'
    BY <2>2, <2>8, <2>9, <2>11, <2>12 DEF TxInv, SideBySide
  <2>17. StillOpen'
    BY <1>0, <2>8, <2>9, <2>11, <2>12, <2>13 DEF TxInv, StillOpen
  <2>18. StillUnknown'
    BY <1>0, <2>8, <2>9, <2>11, <2>12 DEF TxInv, StillUnknown
  <2>19. ~tx'[h].closes
    BY <2>8, <2>9, <2>11 DEF TxInv, HoldsItsShard
  <2>20. NoRoomBesides'
    <3> SUFFICES ASSUME NEW g \in Handlers, tx'[g].closes
                 PROVE  /\ shardCount'[tx'[g].shard] + 1 >= AllocateRegistrationQuotas[tx'[g].shard]
                        /\ \A r \in Shards : HasRoom(r)' => r = tx'[g].shard
      BY DEF NoRoomBesides
    <3>1. g # h /\ tx'[g] = tx[g]
      BY <2>12, <2>19
    <3> QED BY <3>1, <1>0, <2>13 DEF TxInv, NoRoomBesides
  <2> QED BY <2>8, <2>9, <2>10, <2>15, <2>16, <2>17, <2>18, <2>20 DEF TxInv
<1> QED BY <1>1, <1>2

LEMMA ElectKeeps ==
    ASSUME Shaped, TxInv, NEW h \in Handlers, ElectCloser(h), UNCHANGED wrk
    PROVE  Shaped' /\ TxInv' /\ tx'[h].cmd = tx[h].cmd /\ OthersKept(h)
<1> DEFINE counts == [shardCount EXCEPT ![tx[h].shard] = @ + 1]
           last == phase = "registration" /\ \A s \in Shards : Full(s, counts)
           t == [tx[h] EXCEPT !.pc = "elected", !.closes = last]
<1>0. UNCHANGED <<phase, shardCount, registration, wrk>> /\ tx[h].pc = "filled"
  BY DEF ElectCloser
<1>1. tx' = [tx EXCEPT ![h] = t]
  BY DEF ElectCloser, Shaped
<1>2. last \in BOOLEAN /\ (last => \A s \in Shards : Full(s, counts))
  OBVIOUS
<1> HIDE DEF last
<1>3. tx[h] \in Transactions
  BY TxParts
<1>4. t \in Transactions
  BY <1>2, <1>3 DEF Transactions
<1>5. /\ t.pc = "elected" /\ t.shard = tx[h].shard /\ t.cmd = tx[h].cmd /\ t.phase = tx[h].phase
      /\ t.known = tx[h].known /\ (t.closes => last)
  BY <1>3 DEF Transactions
<1> HIDE DEF t
<1>6. tx' \in [Handlers -> Transactions] /\ tx'[h] = t /\ OthersKept(h)
  BY <1>1, <1>4, SetTransaction
<1>7. Shaped'
  BY <1>0, <1>6 DEF Shaped
<1>8. Opened(h) /\ Reserving(h) /\ Opened(h)' /\ Reserving(h)'
  BY <1>0, <1>5, <1>6 DEF Opened, Reserving
<1>9. \A g \in Handlers : /\ g # h => tx'[g] = tx[g]
                          /\ tx'[g].shard = tx[g].shard /\ tx'[g].cmd = tx[g].cmd
                          /\ tx'[g].phase = tx[g].phase /\ tx'[g].known = tx[g].known
                          /\ Opened(g)' = Opened(g) /\ Reserving(g)' = Reserving(g)
  BY <1>5, <1>6, <1>8 DEF OthersKept, Opened, Reserving
<1>10. \A r \in Shards : HasRoom(r)' = HasRoom(r)
  BY <1>0 DEF HasRoom
<1>11. HoldsItsShard'
  BY <1>0, <1>8, <1>9, <1>10 DEF TxInv, HoldsItsShard
<1>12. SideBySide'
  BY <1>9 DEF TxInv, SideBySide
<1>13. StillOpen'
  BY <1>0, <1>9, <1>10 DEF TxInv, StillOpen
<1>14. StillUnknown'
  BY <1>0, <1>9 DEF TxInv, StillUnknown
<1>15. tx[h].shard \in Shards
  BY <1>8 DEF TxInv, HoldsItsShard
<1>16. last => /\ shardCount[tx[h].shard] + 1 >= AllocateRegistrationQuotas[tx[h].shard]
               /\ \A s \in Shards : HasRoom(s) => s = tx[h].shard
  <2> SUFFICES ASSUME last
               PROVE  /\ shardCount[tx[h].shard] + 1 >= AllocateRegistrationQuotas[tx[h].shard]
                      /\ \A s \in Shards : HasRoom(s) => s = tx[h].shard
    OBVIOUS
  <2>1. shardCount \in [Shards -> Nat]
    BY DEF Shaped
  <2>2. counts[tx[h].shard] = shardCount[tx[h].shard] + 1
    BY <2>1, <1>15
  <2>3. \A s \in Shards : s # tx[h].shard => counts[s] = shardCount[s]
    BY <2>1
  <2>4. \A s \in Shards : counts[s] >= AllocateRegistrationQuotas[s]
    BY <1>2 DEF Full
  <2> HIDE DEF counts
  <2>5. \A s \in Shards : s # tx[h].shard => ~HasRoom(s)
    BY <2>1, <2>3, <2>4, QuotasAreNumbers DEF HasRoom
  <2> QED BY <1>15, <2>2, <2>4, <2>5
<1>17. NoRoomBesides'
  <2> SUFFICES ASSUME NEW g \in Handlers, tx'[g].closes
               PROVE  /\ shardCount'[tx'[g].shard] + 1 >= AllocateRegistrationQuotas[tx'[g].shard]
                      /\ \A r \in Shards : HasRoom(r)' => r = tx'[g].shard
    BY DEF NoRoomBesides
  <2>1. CASE g # h
    BY <2>1, <1>0, <1>9, <1>10 DEF TxInv, NoRoomBesides
  <2>2. CASE g = h
    BY <2>2, <1>0, <1>5, <1>6, <1>10, <1>16
  <2> QED BY <2>1, <2>2
<1> QED BY <1>5, <1>6, <1>7, <1>11, <1>12, <1>13, <1>14, <1>17 DEF TxInv

\* A registration that is written is in time: its shard has room, so nobody
\* can have closed the registration since it began.
LEMMA WrittenInTime ==
    ASSUME TxInv, NEW h \in Handlers, tx[h].pc \in {"reserved", "elected"}
    PROVE  /\ phase = "registration" /\ registration[tx[h].cmd.player] = Nobody
           /\ tx[h].shard \in Shards /\ HasRoom(tx[h].shard)
           /\ tx[h].cmd \in Commands /\ ~Exclusive(tx[h].cmd)
<1>1. Opened(h) /\ Reserving(h)
  BY DEF Opened, Reserving
<1>2. /\ tx[h].cmd \in Commands /\ ~Exclusive(tx[h].cmd) /\ tx[h].phase = "registration"
      /\ ~tx[h].known /\ tx[h].shard \in Shards /\ HasRoom(tx[h].shard)
  BY <1>1 DEF TxInv, HoldsItsShard
<1>3. phase = "registration"
  BY <1>1, <1>2 DEF TxInv, StillOpen
<1>4. registration[tx[h].cmd.player] = Nobody
  BY <1>1, <1>2 DEF TxInv, StillUnknown
<1> QED BY <1>2, <1>3, <1>4

LEMMA FinalizeKeeps ==
    ASSUME Shaped, TxInv, NEW h \in Handlers, FinalizeRegister(h), UNCHANGED wrk
    PROVE  /\ Shaped' /\ TxInv' /\ tx'[h].cmd = Nobody /\ OthersKept(h)
           /\ phase = "registration"
           /\ \A p \in Players : registration'[p] # registration[p] => registration[p] = Nobody
<1> DEFINE sh == tx[h].shard
           pl == tx[h].cmd.player
<1>1. /\ tx[h].pc \in {"reserved", "elected"}
      /\ shardCount' = [shardCount EXCEPT ![sh] = @ + 1]
      /\ registration' = [registration EXCEPT ![pl] = sh]
      /\ tx' = [tx EXCEPT ![h] = Idle]
      /\ phase' = IF tx[h].closes THEN "seeding" ELSE phase
  BY DEF FinalizeRegister, Commit
<1>2. /\ phase = "registration" /\ registration[pl] = Nobody /\ sh \in Shards /\ HasRoom(sh)
      /\ tx[h].cmd \in Commands /\ ~Exclusive(tx[h].cmd)
  BY <1>1, WrittenInTime
<1>3. pl \in Players
  BY <1>2, RegistrationAssumption DEF Exclusive
<1>4. tx' \in [Handlers -> Transactions] /\ tx'[h] = Idle /\ OthersKept(h)
  BY <1>1, SetTransaction, IdleIsOne
<1>5. Opened(h) /\ Reserving(h)
  BY <1>1 DEF Opened, Reserving
<1>6. ~Opened(h)' /\ ~Reserving(h)' /\ tx'[h].shard = Nobody /\ ~tx'[h].closes /\ tx'[h].cmd = Nobody
  BY <1>4 DEF Opened, Reserving, Idle
<1>7. \A g \in Handlers \ {h} : tx'[g] = tx[g] /\ Opened(g)' = Opened(g) /\ Reserving(g)' = Reserving(g)
  BY <1>4 DEF OthersKept, Opened, Reserving
<1>8. shardCount \in [Shards -> Nat] /\ registration \in [Players -> Shards \cup {Nobody}]
  BY DEF Shaped
<1> HIDE DEF sh, pl
<1>9. /\ shardCount' \in [Shards -> Nat]
      /\ shardCount'[sh] = shardCount[sh] + 1
      /\ \A r \in Shards : r # sh => shardCount'[r] = shardCount[r]
  BY <1>1, <1>2, <1>8
<1>10. \A r \in Shards : /\ r # sh => HasRoom(r)' = HasRoom(r)
                         /\ HasRoom(r)' => HasRoom(r)
  BY <1>2, <1>9, <1>8, QuotasAreNumbers DEF HasRoom
<1>11. Shaped'
  <2>1. registration' \in [Players -> Shards \cup {Nobody}]
    BY <1>1, <1>2, <1>8
  <2>2. phase' \in Phases
    BY <1>1 DEF Shaped, Phases
  <2> QED BY <1>4, <1>9, <2>1, <2>2 DEF Shaped
<1>12. \A g \in Handlers \ {h} : Opened(g) => ~Exclusive(tx[g].cmd) /\ tx[g].cmd.player # pl
  BY <1>5 DEF TxInv, SideBySide, pl
<1>13. \A g \in Handlers \ {h} : Reserving(g) => tx[g].shard # sh
  BY <1>5 DEF TxInv, SideBySide, sh, Opened, Reserving
<1>14. HoldsItsShard'
  <2>1. \A g \in Handlers \ {h} : Reserving(g) => HasRoom(tx[g].shard)'
    <3> SUFFICES ASSUME NEW g \in Handlers \ {h}, Reserving(g) PROVE HasRoom(tx[g].shard)'
      OBVIOUS
    <3>1. tx[g].shard \in Shards /\ HasRoom(tx[g].shard) /\ tx[g].shard # sh /\ tx'[g] = tx[g]
      BY <1>7, <1>13 DEF TxInv, HoldsItsShard
    <3> QED BY <3>1, <1>9 DEF HasRoom
  <2>2. \A g \in Handlers \ {h} : Opened(g) => ~Exclusive(tx[g].cmd)
    BY <1>12
  <2> QED BY <2>1, <2>2, <1>6, <1>7 DEF TxInv, HoldsItsShard
<1>15. SideBySide'
  BY <1>6, <1>7 DEF TxInv, SideBySide
<1>16. tx[h].closes => \A r \in Shards : ~HasRoom(r)'
  <2> SUFFICES ASSUME tx[h].closes, NEW r \in Shards PROVE ~HasRoom(r)' OBVIOUS
  <2>1. shardCount[sh] + 1 >= AllocateRegistrationQuotas[sh] /\ (HasRoom(r) => r = sh)
    BY DEF TxInv, NoRoomBesides, sh
  <2>2. CASE r = sh
    BY <2>1, <2>2, <1>2, <1>8, <1>9, QuotasAreNumbers DEF HasRoom
  <2>3. CASE r # sh
    BY <2>1, <2>3, <1>10
  <2> QED BY <2>2, <2>3
<1>17. StillOpen'
  BY <1>1, <1>2, <1>6, <1>7, <1>10, <1>16 DEF StillOpen
<1>18. StillUnknown'
  <2>1. phase' # "none"
    BY <1>1, <1>2
  <2>2. \A p : p \in Players /\ p # pl => registration'[p] = registration[p]
    BY <1>1, <1>8
  <2>3. \A g \in Handlers \ {h} : Opened(g) => tx[g].cmd.player \in Players
    BY <1>12, RegistrationAssumption DEF TxInv, HoldsItsShard, Exclusive
  <2> QED BY <2>1, <2>2, <2>3, <1>6, <1>7, <1>12 DEF TxInv, StillUnknown
<1>19. NoRoomBesides'
  <2> SUFFICES ASSUME NEW g \in Handlers, tx'[g].closes PROVE FALSE
    BY DEF NoRoomBesides
  <2>1. g # h /\ tx'[g] = tx[g]
    BY <1>6, <1>7
  <2>2. Reserving(g)
    BY <2>1 DEF TxInv, HoldsItsShard
  <2>3. sh = tx[g].shard
    BY <2>1, <1>2 DEF TxInv, NoRoomBesides
  <2> QED BY <2>1, <2>2, <2>3, <1>13
<1>20. \A p \in Players : registration'[p] # registration[p] => registration[p] = Nobody
  BY <1>1, <1>2, <1>8
<1> QED BY <1>2, <1>4, <1>6, <1>11, <1>14, <1>15, <1>17, <1>18, <1>19, <1>20 DEF TxInv

-----------------------------------------------------------------------------
(* The job                                                                 *)

\* Nothing of the job changes, and the phase does not go back.
LEMMA JobAlone ==
    ASSUME JobInv, UNCHANGED <<job, slots, wrk>>,
           phase' \in {"none", "registration"} => phase \in {"none", "registration"}
    PROVE  JobInv'
<1>1. JobIsThere' = JobIsThere
  BY DEF JobIsThere
<1>2. NotBeforeTheClose'
  BY <1>1 DEF JobInv, NotBeforeTheClose
<1>3. SlotsToCheckpoint'
  BY <1>1 DEF JobInv, SlotsToCheckpoint, IsJob
<1>4. ChunkFenced' /\ ClaimsHaveJob'
  BY <1>1 DEF JobInv, ChunkFenced, ClaimsHaveJob
<1> QED BY <1>2, <1>3, <1>4 DEF JobInv

\* The kickoff at the close: there was no job, and no slots.
LEMMA JobMade ==
    ASSUME JobInv, NEW n \in Nat, InsertPendingRoundAndJob(n), UNCHANGED <<slots, wrk>>,
           phase \in {"none", "registration"}, phase' \notin {"none", "registration"}
    PROVE  JobInv' /\ job = NoJob
<1>1. ~JobIsThere /\ DOMAIN slots = {}
  BY DEF JobInv, NotBeforeTheClose
<1>2. job = NoJob
  BY <1>1 DEF JobIsThere
<1> DEFINE plan == ComputeRoundSlotPlan(n)
<1>3. job' = [status |-> "pending", plan |-> plan, next |-> 0, last |-> 0,
              owner |-> Nobody, version |-> 0, expired |-> FALSE]
  BY <1>2 DEF InsertPendingRoundAndJob
<1>4. plan.slots \in Nat
  BY PlanHasSlots
<1> HIDE DEF plan
<1>5. IsJob(job') /\ job'.next = 0
  BY <1>3, <1>4 DEF IsJob, JobFields
<1>6. SlotsToCheckpoint'
  BY <1>1, <1>5 DEF SlotsToCheckpoint, IsJob
<1>7. ChunkFenced' /\ ClaimsHaveJob'
  BY <1>1 DEF JobInv, ClaimsHaveJob, ChunkFenced
<1> QED BY <1>2, <1>6, <1>7 DEF JobInv, NotBeforeTheClose

-----------------------------------------------------------------------------
(* A step of a request: what it preserves, and the slots and the job that  *)
(* it never touches once they are there.                                   *)

\* Only registrations reserve or are elected.
LEMMA ChunkKeepsBarrier ==
    ASSUME ChunkHasBarrier, NEW h \in Handlers, OthersKept(h), UNCHANGED wrk,
           Opened(h)' /\ Exclusive(tx'[h].cmd) => \A w \in Workers : wrk[w].pc # "chunk"
    PROVE  ChunkHasBarrier'
BY DEF ChunkHasBarrier, OthersKept, Opened

\* What is to be shown of a step.
Kept ==
    /\ Shaped' /\ TxInv' /\ JobInv' /\ ChunkHasBarrier'
    /\ UNCHANGED slots
    /\ job # NoJob => job' = job
    /\ \A p \in Players : registration'[p] # registration[p] =>
            registration[p] = Nobody /\ phase = "registration"

\* A step that ends the transaction of h, or leaves its command.
LEMMA BarrierStays ==
    ASSUME ChunkHasBarrier, NEW h \in Handlers, OthersKept(h), UNCHANGED wrk, Opened(h),
           tx'[h].cmd = tx[h].cmd \/ ~Opened(h)'
    PROVE  ChunkHasBarrier'
<1>1. ASSUME Opened(h)', Exclusive(tx'[h].cmd) PROVE \A w \in Workers : wrk[w].pc # "chunk"
  BY <1>1 DEF ChunkHasBarrier
<1> QED BY <1>1, ChunkKeepsBarrier

LEMMA EndedKeepsBarrier ==
    ASSUME Shaped, ChunkHasBarrier, NEW h \in Handlers, Opened(h), tx' = [tx EXCEPT ![h] = Idle],
           UNCHANGED wrk
    PROVE  ChunkHasBarrier'
<1>1. tx'[h] = Idle /\ OthersKept(h)
  BY SetTransaction, IdleIsOne
<1>2. ~Opened(h)'
  BY <1>1 DEF Opened, Idle
<1> QED BY <1>1, <1>2, BarrierStays

LEMMA EndsKept ==
    ASSUME IInv, NEW h \in Handlers, Opened(h), tx' = [tx EXCEPT ![h] = Idle],
           UNCHANGED <<phase, shardCount, registration, job, slots, wrk>>
    PROVE  Kept
<1>1. Shaped' /\ TxInv'
  BY EndsAlone DEF IInv
<1>2. JobInv'
  BY JobAlone DEF IInv
<1>3. ChunkHasBarrier'
  BY EndedKeepsBarrier DEF IInv
<1> QED BY <1>1, <1>2, <1>3 DEF Kept

LEMMA CreateKept ==
    ASSUME IInv, NEW h \in Handlers, CommitCreate(h), UNCHANGED seedingVars PROVE Kept
<1>1. /\ tx[h].pc = "begun" /\ tx[h].cmd.type = "create" /\ tx' = [tx EXCEPT ![h] = Idle]
      /\ phase' = IF DecideCreateTournament(tx[h]) = "create" THEN "registration" ELSE phase
      /\ UNCHANGED <<shardCount, registration, job, slots, wrk>>
  BY DEF CommitCreate, Commit, seedingVars
<1>2. Opened(h) /\ Exclusive(tx[h].cmd)
  BY <1>1 DEF Opened, Exclusive
<1>3. tx[h].phase = phase /\ phase \in Phases
  BY <1>2 DEF IInv, TxInv, HoldsItsShard, Shaped
<1>4. phase' \in Phases /\ (phase' \in {"none", "registration"} => phase \in {"none", "registration"})
  BY <1>1, <1>3 DEF DecideCreateTournament, Phases
<1>5. Shaped' /\ TxInv'
  BY <1>1, <1>2, <1>4, ExclusiveEnds DEF IInv
<1>6. JobInv'
  BY <1>1, <1>4, JobAlone DEF IInv
<1>7. ChunkHasBarrier'
  BY <1>1, <1>2, EndedKeepsBarrier DEF IInv
<1> QED BY <1>1, <1>5, <1>6, <1>7 DEF Kept

LEMMA CloseKept ==
    ASSUME IInv, NEW h \in Handlers, CommitClose(h), UNCHANGED seedingVars PROVE Kept
<1>1. /\ tx[h].pc = "begun" /\ tx[h].cmd.type = "close" /\ tx' = [tx EXCEPT ![h] = Idle]
      /\ UNCHANGED <<shardCount, registration, slots, wrk>>
  BY DEF CommitClose, Commit, seedingVars
<1>2. Opened(h) /\ Exclusive(tx[h].cmd)
  BY <1>1 DEF Opened, Exclusive
<1>3. CASE DecideCloseRegistration(tx[h]) = "close"
  <2>1. phase' = "seeding" /\ InsertPendingRoundAndJob(RegisteredSum)
    BY <1>3 DEF CommitClose
  <2>2. tx[h].phase = phase /\ phase \in Phases
    BY <1>2 DEF IInv, TxInv, HoldsItsShard, Shaped
  <2>3. phase \in {"none", "registration"}
    BY <1>3, <2>2 DEF DecideCloseRegistration, Phases, Terminal
  <2>4. RegisteredSum \in Nat
    BY SumIsANumber DEF IInv
  <2>5. JobInv' /\ job = NoJob
    BY <1>1, <2>1, <2>3, <2>4, JobMade DEF IInv
  <2>6. Shaped' /\ TxInv'
    BY <1>1, <1>2, <2>1, ExclusiveEnds DEF IInv, Phases
  <2>7. ChunkHasBarrier'
    BY <1>1, <1>2, EndedKeepsBarrier DEF IInv
  <2> QED BY <1>1, <2>5, <2>6, <2>7 DEF Kept
<1>4. CASE DecideCloseRegistration(tx[h]) # "close"
  <2>1. UNCHANGED <<phase, job>>
    BY <1>4 DEF CommitClose
  <2> QED BY <1>1, <1>2, <2>1, EndsKept
<1> QED BY <1>3, <1>4

LEMMA CancelKept ==
    ASSUME IInv, NEW h \in Handlers, CommitCancel(h), UNCHANGED seedingVars PROVE Kept
<1>1. /\ tx[h].pc = "begun" /\ tx[h].cmd.type = "cancel" /\ tx' = [tx EXCEPT ![h] = Idle]
      /\ phase' = IF DecideCancelTournament(tx[h]) = "cancel" THEN "cancelled" ELSE phase
      /\ UNCHANGED <<shardCount, registration, job, slots, wrk>>
  BY DEF CommitCancel, Commit, seedingVars
<1>2. Opened(h) /\ Exclusive(tx[h].cmd)
  BY <1>1 DEF Opened, Exclusive
<1>3. phase' \in Phases /\ (phase' \in {"none", "registration"} => phase \in {"none", "registration"})
  BY <1>1 DEF IInv, Shaped, Phases, Terminal
<1>4. Shaped' /\ TxInv'
  BY <1>1, <1>2, <1>3, ExclusiveEnds DEF IInv
<1>5. JobInv'
  BY <1>1, <1>3, JobAlone DEF IInv
<1>6. ChunkHasBarrier'
  BY <1>1, <1>2, EndedKeepsBarrier DEF IInv
<1> QED BY <1>1, <1>4, <1>5, <1>6 DEF Kept

LEMMA AnswerKept ==
    ASSUME IInv, NEW h \in Handlers, AnswerRegister(h), UNCHANGED seedingVars PROVE Kept
BY EndsKept DEF AnswerRegister, Commit, seedingVars, Opened

LEMMA RollbackKept ==
    ASSUME IInv, NEW h \in Handlers, Rollback(h), UNCHANGED <<slots, wrk>> PROVE Kept
BY EndsKept DEF Rollback, Opened

LEMMA ReserveKept ==
    ASSUME IInv, NEW h \in Handlers, ReserveRegistration(h), UNCHANGED seedingVars PROVE Kept
<1>1. UNCHANGED <<phase, registration, job, slots, wrk>> /\ tx[h].pc = "begun" /\ tx[h].cmd.type = "register"
  BY DEF ReserveRegistration, seedingVars
<1>2. Shaped' /\ TxInv' /\ tx'[h].cmd \in {tx[h].cmd, Nobody} /\ OthersKept(h)
  BY <1>1, ReserveKeeps DEF IInv
<1>3. Nobody \notin Commands
  BY RegistrationAssumption
<1>4. tx'[h].cmd = tx[h].cmd \/ ~Opened(h)'
  BY <1>2, <1>3 DEF TxInv, HoldsItsShard
<1>5. ChunkHasBarrier'
  BY <1>1, <1>2, <1>4, BarrierStays DEF IInv, Opened
<1>6. JobInv'
  BY <1>1, JobAlone DEF IInv
<1> QED BY <1>1, <1>2, <1>5, <1>6 DEF Kept

LEMMA ElectKept ==
    ASSUME IInv, NEW h \in Handlers, ElectCloser(h), UNCHANGED seedingVars PROVE Kept
<1>1. UNCHANGED <<phase, registration, job, slots, wrk>> /\ tx[h].pc = "filled"
  BY DEF ElectCloser, seedingVars
<1>2. Shaped' /\ TxInv' /\ tx'[h].cmd = tx[h].cmd /\ OthersKept(h)
  BY <1>1, ElectKeeps DEF IInv
<1>3. ChunkHasBarrier'
  BY <1>1, <1>2, BarrierStays DEF IInv, Opened
<1>4. JobInv'
  BY <1>1, JobAlone DEF IInv
<1> QED BY <1>1, <1>2, <1>3, <1>4 DEF Kept

LEMMA FinalizeKept ==
    ASSUME IInv, NEW h \in Handlers, FinalizeRegister(h), UNCHANGED seedingVars PROVE Kept
<1>1. UNCHANGED <<slots, wrk>> /\ tx[h].pc \in {"reserved", "elected"}
  BY DEF FinalizeRegister, seedingVars
<1>2. /\ Shaped' /\ TxInv' /\ tx'[h].cmd = Nobody /\ OthersKept(h)
      /\ phase = "registration"
      /\ \A p \in Players : registration'[p] # registration[p] => registration[p] = Nobody
  BY <1>1, FinalizeKeeps DEF IInv
<1>3. tx' = [tx EXCEPT ![h] = Idle]
  BY DEF FinalizeRegister, Commit
<1>4. ChunkHasBarrier'
  BY <1>1, <1>3, EndedKeepsBarrier DEF IInv, Opened
<1>5. CASE tx[h].closes
  <2>1. phase' = "seeding" /\ InsertPendingRoundAndJob(Capacity)
    BY <1>5 DEF FinalizeRegister
  <2>2. JobInv' /\ job = NoJob
    BY <1>1, <1>2, <2>1, JobMade, RegistrationAssumption DEF IInv
  <2> QED BY <1>1, <1>2, <1>4, <2>2 DEF Kept
<1>6. CASE ~tx[h].closes
  <2>1. UNCHANGED <<phase, job>>
    BY <1>6 DEF FinalizeRegister
  <2>2. JobInv'
    BY <1>1, <2>1, JobAlone DEF IInv
  <2> QED BY <1>1, <1>2, <1>4, <2>1, <2>2 DEF Kept
<1> QED BY <1>5, <1>6

LEMMA BeginKept ==
    ASSUME IInv, NEW h \in Handlers, NEW c \in Commands, BeginCommand(h, c), UNCHANGED seedingVars,
           Exclusive(c) => \A w \in Workers : wrk[w].pc # "chunk"
    PROVE  Kept
<1>1. UNCHANGED <<slots, wrk>> /\ UNCHANGED <<phase, registration, job>>
  BY DEF BeginCommand, BeginCreateTournament, BeginRegisterPlayer, BeginCloseRegistration,
         BeginCancelTournament, Begin, seedingVars
<1>2. Shaped' /\ TxInv' /\ tx'[h].cmd = c /\ OthersKept(h)
  BY <1>1, BeginKeeps DEF IInv
<1>3. ChunkHasBarrier'
  BY <1>1, <1>2, ChunkKeepsBarrier DEF IInv
<1>4. JobInv'
  BY <1>1, JobAlone DEF IInv
<1> QED BY <1>1, <1>2, <1>3, <1>4 DEF Kept

LEMMA RequestKept ==
    ASSUME IInv, NEW h \in Handlers, HandlerStep(h) \/ RollbackRequest(h) PROVE Kept
<1>1. CASE HandlerStep(h)
  <2>1. UNCHANGED seedingVars
    BY <1>1 DEF HandlerStep
  <2>2. CASE ProceedCommand(h)
    BY <2>1, <2>2, CreateKept, CloseKept, CancelKept, AnswerKept, ReserveKept, ElectKept, FinalizeKept
       DEF ProceedCommand
  <2>3. CASE \E c \in Commands :
               /\ Exclusive(c) => \A w \in Workers : wrk[w].pc # "chunk"
               /\ c.type = "cancel" => \A w \in Workers : wrk[w].pc # "reaping"
               /\ BeginCommand(h, c)
    BY <2>1, <2>3, BeginKept
  <2> QED BY <1>1, <2>2, <2>3 DEF HandlerStep
<1>2. CASE RollbackRequest(h)
  BY <1>2, RollbackKept DEF RollbackRequest
<1> QED BY <1>1, <1>2

-----------------------------------------------------------------------------
(* A step of a worker                                                      *)

requestVars == <<phase, shardCount, registration, tx>>

LEMMA RequestsAlone == ASSUME TxInv, UNCHANGED requestVars PROVE TxInv'
<1> USE DEF requestVars
<1>1. HoldsItsShard'
  BY DEF TxInv, HoldsItsShard, Opened, Reserving, HasRoom
<1>2. SideBySide'
  BY DEF TxInv, SideBySide, Opened, Reserving
<1>3. StillOpen'
  BY DEF TxInv, StillOpen, Opened, HasRoom
<1>4. StillUnknown'
  BY DEF TxInv, StillUnknown, Opened
<1>5. NoRoomBesides'
  BY DEF TxInv, NoRoomBesides, HasRoom
<1> QED BY <1>1, <1>2, <1>3, <1>4, <1>5 DEF TxInv

\* The phase goes on from one to another after the registration.
LEMMA PhaseGoesOn ==
    ASSUME TxInv, UNCHANGED <<shardCount, registration, tx>>,
           phase \notin {"none", "registration"}, phase' \notin {"none", "registration"},
           \A h \in Handlers : Opened(h) => ~Exclusive(tx[h].cmd)
    PROVE  TxInv'
<1>1. HoldsItsShard'
  BY DEF TxInv, HoldsItsShard, Opened, Reserving, HasRoom
<1>2. SideBySide'
  BY DEF TxInv, SideBySide, Opened, Reserving
<1>3. StillOpen'
  BY DEF TxInv, StillOpen, Opened, HasRoom
<1>4. StillUnknown'
  BY DEF TxInv, StillUnknown, Opened
<1>5. NoRoomBesides'
  BY DEF TxInv, NoRoomBesides, HasRoom
<1> QED BY <1>1, <1>2, <1>3, <1>4, <1>5 DEF TxInv

WorkerRows == [pc : {"idle", "reaping", "claimed", "chunk"}, version : Nat, next : Nat]

LEMMA SetWorker ==
    ASSUME Shaped, NEW w \in Workers, NEW k \in WorkerRows, wrk' = [wrk EXCEPT ![w] = k]
    PROVE  /\ wrk' \in [Workers -> WorkerRows] /\ wrk'[w] = k
           /\ \A v \in Workers \ {w} : wrk'[v] = wrk[v]
BY DEF Shaped, WorkerRows

LEMMA RestingIsOne == Resting \in WorkerRows
BY DEF Resting, WorkerRows

\* What a worker leaves of requests: everything.
Alone == UNCHANGED requestVars /\ wrk' \in [Workers -> WorkerRows]

LEMMA AloneKeeps ==
    ASSUME IInv, Alone, \A w \in Workers : wrk'[w].pc = "chunk" =>
               wrk[w].pc = "chunk" \/ ~BarrierHeldExclusive
    PROVE  Shaped' /\ TxInv' /\ ChunkHasBarrier'
<1>1. Shaped'
  BY DEF IInv, Shaped, Alone, requestVars, WorkerRows
<1>2. TxInv'
  BY RequestsAlone DEF IInv, Alone
<1>3. ChunkHasBarrier'
  BY DEF IInv, ChunkHasBarrier, Alone, requestVars, Opened, BarrierHeldExclusive
<1> QED BY <1>1, <1>2, <1>3

\* Slots and the checkpoint, and whoever has a place: all as they were.
Stands ==
    /\ \A i \in DOMAIN slots : i \in DOMAIN slots' /\ slots'[i] = slots[i]
    /\ job # NoJob /\ job'.next # job.next =>
         \E w \in Workers : wrk[w].pc = "chunk" /\ wrk[w].version = job.version /\ job.owner = w
    /\ \A p \in Players : registration'[p] # registration[p] =>
            registration[p] = Nobody /\ phase = "registration"

LEMMA KeptStands == ASSUME IInv, Kept PROVE IInv' /\ Stands
BY DEF Kept, IInv, Stands

\* Only the status, the owner and the lease of the job change, under its row
\* lock: no chunk is under way.
LEMMA JobRowUpdated ==
    ASSUME IInv, Alone, UNCHANGED slots, JobIsThere,
           IsJob(job'), job'.next = job.next,
           job'.status = "quarantined" \/ job.status # "quarantined",
           \A w \in Workers : wrk'[w].pc = "chunk" =>
                ~BarrierHeldExclusive /\ job'.status = "in_progress" /\ job'.owner = w
                    /\ job'.version = wrk'[w].version
    PROVE  IInv' /\ Stands
<1>1. Shaped' /\ TxInv' /\ ChunkHasBarrier'
  BY AloneKeeps
<1>2. phase' = phase /\ registration' = registration
  BY DEF Alone, requestVars
<1>3. NotBeforeTheClose'
  BY <1>2 DEF IInv, JobInv, NotBeforeTheClose
<1>4. SlotsToCheckpoint'
  <2>1. IsJob(job) /\ (job.status # "quarantined" => DOMAIN slots = 0 .. job.next - 1)
    BY DEF IInv, JobInv, SlotsToCheckpoint
  <2>2. job'.status # "quarantined" => DOMAIN slots' = 0 .. job'.next - 1
    BY <2>1
  <2> QED BY <2>2 DEF SlotsToCheckpoint, IsJob
<1>5. ChunkFenced' /\ ClaimsHaveJob'
  BY JobsAreThere DEF ChunkFenced, ClaimsHaveJob
<1> QED BY <1>1, <1>2, <1>3, <1>4, <1>5 DEF IInv, JobInv, Stands

\* The job stays; a worker may come to rest or take what there is to reap.
LEMMA WorkerRests ==
    ASSUME IInv, Alone, UNCHANGED <<slots, job>>,
           \A w \in Workers : wrk'[w] = wrk[w] \/ wrk'[w].pc \in {"idle", "reaping"}
    PROVE  IInv' /\ Stands
<1>1. Shaped' /\ TxInv' /\ ChunkHasBarrier'
  BY AloneKeeps
<1>2. phase' = phase /\ registration' = registration
  BY DEF Alone, requestVars
<1>3. JobIsThere' = JobIsThere
  BY DEF JobIsThere
<1>4. NotBeforeTheClose'
  BY <1>2, <1>3 DEF IInv, JobInv, NotBeforeTheClose
<1>5. SlotsToCheckpoint'
  BY <1>3 DEF IInv, JobInv, SlotsToCheckpoint, IsJob
<1>6. ChunkFenced' /\ ClaimsHaveJob'
  BY <1>3 DEF IInv, JobInv, ChunkFenced, ClaimsHaveJob
<1> QED BY <1>1, <1>2, <1>4, <1>5, <1>6 DEF IInv, JobInv, Stands

\* SetJob changes nothing else.
LEMMA SetJobIs ==
    ASSUME IsJob(job), NEW status
    PROVE  /\ IsJob(SetJob(status)) /\ SetJob(status).status = status
           /\ SetJob(status).next = job.next /\ SetJob(status).plan = job.plan
BY DEF IsJob, JobFields, SetJob

LEMMA ReapHolds ==
    ASSUME IInv, NEW w \in Workers, ReapExpiredSeedingLeases(w) PROVE IInv' /\ Stands
<1> DEFINE k == [wrk[w] EXCEPT !.pc = "reaping"]
<1>1. wrk' = [wrk EXCEPT ![w] = k]
  BY DEF ReapExpiredSeedingLeases, IInv, Shaped
<1>2. k \in WorkerRows /\ k.pc = "reaping"
  BY DEF IInv, Shaped, WorkerRows
<1> HIDE DEF k
<1>3. /\ wrk' \in [Workers -> WorkerRows] /\ wrk'[w] = k
      /\ \A v \in Workers \ {w} : wrk'[v] = wrk[v]
  BY <1>1, <1>2, SetWorker DEF IInv
<1>4. Alone /\ UNCHANGED <<slots, job>>
  BY <1>3 DEF Alone, requestVars, ReapExpiredSeedingLeases, registrationVars
<1> QED BY <1>2, <1>3, <1>4, WorkerRests

LEMMA CrashHolds == ASSUME IInv, NEW w \in Workers, CrashWorker(w) PROVE IInv' /\ Stands
<1>1. /\ wrk' \in [Workers -> WorkerRows] /\ wrk'[w] = Resting
      /\ \A v \in Workers \ {w} : wrk'[v] = wrk[v]
  BY SetWorker, RestingIsOne DEF CrashWorker, IInv
<1>2. Alone /\ UNCHANGED <<slots, job>>
  BY <1>1 DEF Alone, requestVars, CrashWorker, registrationVars
<1> QED BY <1>1, <1>2, WorkerRests DEF Resting

LEMMA AbortHolds ==
    ASSUME IInv, NEW w \in Workers, NEW v \in Workers, DeadlockAbort(w, v) PROVE IInv' /\ Stands
<1>1. PICK u \in Workers : wrk' = [wrk EXCEPT ![u] = Resting]
  BY DEF DeadlockAbort
<1>2. /\ wrk' \in [Workers -> WorkerRows] /\ wrk'[u] = Resting
      /\ \A x \in Workers \ {u} : wrk'[x] = wrk[x]
  BY <1>1, SetWorker, RestingIsOne DEF IInv
<1>3. Alone /\ UNCHANGED <<slots, job>>
  BY <1>2 DEF Alone, requestVars, DeadlockAbort, registrationVars
<1> QED BY <1>2, <1>3, WorkerRests DEF Resting

LEMMA KnownJob == ASSUME IInv, JobIsThere PROVE IsJob(job)
BY DEF IInv, JobInv, SlotsToCheckpoint

LEMMA ReapRowHolds == ASSUME IInv, NEW w \in Workers, ReapJobRow(w) PROVE IInv' /\ Stands
<1>1. /\ wrk' \in [Workers -> WorkerRows] /\ wrk'[w] = Resting
      /\ \A v \in Workers \ {w} : wrk'[v] = wrk[v]
  BY SetWorker, RestingIsOne DEF ReapJobRow, IInv
<1>2. Alone /\ UNCHANGED slots
  BY <1>1 DEF Alone, requestVars, ReapJobRow
<1>3. CASE Expired
  <2>1. job # NoJob /\ job.status = "in_progress" /\ JobIsThere
    BY <1>3 DEF Expired, JobIsThere
  <2>2. job' = SetJob("pending")
    BY <1>3 DEF ReapJobRow
  <2>3. IsJob(job') /\ job'.status = "pending" /\ job'.next = job.next
    BY <2>1, <2>2, KnownJob, SetJobIs
  <2>4. \A v \in Workers : wrk'[v].pc # "chunk"
    BY <1>1 DEF ReapJobRow, JobRowHeld, Resting
  <2> QED BY <1>2, <2>1, <2>3, <2>4, JobRowUpdated
<1>4. CASE ~Expired
  <2>1. UNCHANGED job
    BY <1>4 DEF ReapJobRow
  <2> QED BY <1>1, <1>2, <2>1, WorkerRests DEF Resting
<1> QED BY <1>3, <1>4

\* A job is picked up again only when it is not over.
LEMMA ClaimHolds == ASSUME IInv, NEW w \in Workers, ClaimNextSeedingJob(w) PROVE IInv' /\ Stands
<1>1. ActiveJob /\ wrk[w].pc = "idle" /\ ~JobRowHeld(w) /\ UNCHANGED slots /\ UNCHANGED requestVars
  BY DEF ClaimNextSeedingJob, requestVars
<1>2. JobIsThere /\ job.status \in {"pending", "in_progress"}
  BY <1>1 DEF ActiveJob, JobIsThere
<1>3. IsJob(job)
  BY <1>2, KnownJob
<1>4. \A v \in Workers : wrk[v].pc # "chunk"
  BY <1>1 DEF JobRowHeld
<1>5. CASE Claimable
  <2> DEFINE k == [pc |-> "claimed", version |-> job.version + 1, next |-> job.next]
  <2>1. /\ job' = [job EXCEPT !.status = "in_progress", !.owner = w, !.version = @ + 1, !.expired = FALSE]
        /\ wrk' = [wrk EXCEPT ![w] = k]
    BY <1>5 DEF ClaimNextSeedingJob
  <2>2. k \in WorkerRows /\ k.pc = "claimed"
    BY <1>3 DEF IsJob, WorkerRows
  <2> HIDE DEF k
  <2>3. /\ wrk' \in [Workers -> WorkerRows] /\ wrk'[w] = k
        /\ \A v \in Workers \ {w} : wrk'[v] = wrk[v]
    BY <2>1, <2>2, SetWorker DEF IInv
  <2>4. IsJob(job') /\ job'.next = job.next /\ job'.status = "in_progress"
    BY <1>3, <2>1 DEF IsJob, JobFields
  <2>5. \A v \in Workers : wrk'[v].pc # "chunk"
    BY <1>4, <2>2, <2>3
  <2> QED BY <1>1, <1>2, <2>3, <2>4, <2>5, JobRowUpdated DEF Alone
<1>6. CASE ~Claimable
  <2>1. job' = CancelTerminalSeedingJobs /\ wrk' = wrk
    BY <1>6 DEF ClaimNextSeedingJob
  <2>2. IsJob(job') /\ job'.next = job.next
    BY <1>3, <2>1, SetJobIs DEF CancelTerminalSeedingJobs
  <2>3. wrk' \in [Workers -> WorkerRows]
    BY <2>1 DEF IInv, Shaped, WorkerRows
  <2>4. \A v \in Workers : wrk'[v].pc # "chunk"
    BY <1>4, <2>1
  <2>5. job.status # "quarantined"
    BY <1>2
  <2> QED BY <1>1, <1>2, <2>2, <2>3, <2>4, <2>5, JobRowUpdated DEF Alone
<1> QED BY <1>5, <1>6

LEMMA VerdictIs ==
    ASSUME NEW w \in Workers
    PROVE  ChunkVerdict(w) # "stale" => Fenced(w)
BY DEF ChunkVerdict

LEMMA BeginChunkHolds == ASSUME IInv, NEW w \in Workers, BeginChunk(w) PROVE IInv' /\ Stands
<1> DEFINE k == IF ChunkVerdict(w) = "process" THEN [wrk[w] EXCEPT !.pc = "chunk"] ELSE Resting
<1>1. /\ wrk[w].pc = "claimed" /\ ~BarrierHeldExclusive /\ ~JobRowHeld(w)
      /\ job' = IF ChunkVerdict(w) \in {"cancelled", "quarantined"} THEN SetJob(ChunkVerdict(w)) ELSE job
      /\ UNCHANGED slots /\ UNCHANGED requestVars
  BY DEF BeginChunk, requestVars
<1>2. wrk' = [wrk EXCEPT ![w] = k]
  BY DEF BeginChunk, IInv, Shaped
<1>3. k \in WorkerRows
  BY RestingIsOne DEF IInv, Shaped, WorkerRows
<1>4. /\ ChunkVerdict(w) = "process" => k.version = wrk[w].version
      /\ ChunkVerdict(w) # "process" => k.pc = "idle"
  BY DEF IInv, Shaped, Resting
<1> HIDE DEF k
<1>5. /\ wrk' \in [Workers -> WorkerRows] /\ wrk'[w] = k
      /\ \A v \in Workers \ {w} : wrk'[v] = wrk[v]
  BY <1>2, <1>3, SetWorker DEF IInv
<1>6. Alone
  BY <1>1, <1>5 DEF Alone
<1>7. JobIsThere
  BY <1>1 DEF IInv, JobInv, ClaimsHaveJob
<1>8. IsJob(job)
  BY <1>7, KnownJob
<1>9. \A v \in Workers \ {w} : wrk'[v].pc # "chunk"
  BY <1>1, <1>5 DEF JobRowHeld
<1>10. CASE ChunkVerdict(w) = "process"
  <2>1. job' = job
    BY <1>1, <1>10
  <2>2. Fenced(w)
    BY <1>10, VerdictIs
  <2>3. \A v \in Workers : wrk'[v].pc = "chunk" =>
           ~BarrierHeldExclusive /\ job'.status = "in_progress" /\ job'.owner = v
               /\ job'.version = wrk'[v].version
    BY <1>1, <1>4, <1>5, <1>9, <1>10, <2>1, <2>2 DEF Fenced
  <2>4. job.status # "quarantined"
    BY <2>2 DEF Fenced
  <2> QED BY <1>1, <1>6, <1>7, <1>8, <2>1, <2>3, <2>4, JobRowUpdated
<1>11. CASE ChunkVerdict(w) \in {"cancelled", "quarantined"}
  <2>1. job' = SetJob(ChunkVerdict(w))
    BY <1>1, <1>11
  <2>2. Fenced(w)
    BY <1>11, VerdictIs
  <2>3. IsJob(job') /\ job'.next = job.next
    BY <1>8, <2>1, SetJobIs
  <2>4. \A v \in Workers : wrk'[v].pc # "chunk"
    BY <1>4, <1>5, <1>9, <1>11
  <2>5. job.status # "quarantined"
    BY <2>2 DEF Fenced
  <2> QED BY <1>1, <1>6, <1>7, <2>3, <2>4, <2>5, JobRowUpdated
<1>12. CASE ChunkVerdict(w) \notin {"process", "cancelled", "quarantined"}
  <2>1. job' = job
    BY <1>1, <1>12
  <2>2. wrk'[w].pc = "idle"
    BY <1>4, <1>5, <1>12
  <2> QED BY <1>1, <1>5, <1>6, <2>1, <2>2, WorkerRests
<1> QED BY <1>10, <1>11, <1>12

\* A lease that ends changes nothing a worker is fenced by.
LEMMA LeaseHolds == ASSUME IInv, LeaseExpires PROVE IInv' /\ Stands
<1>1. /\ job # NoJob /\ job.status = "in_progress" /\ job' = [job EXCEPT !.expired = TRUE]
      /\ UNCHANGED slots /\ UNCHANGED requestVars /\ wrk' = wrk
  BY DEF LeaseExpires, requestVars
<1>2. JobIsThere
  BY <1>1 DEF JobIsThere
<1>3. IsJob(job)
  BY <1>2, KnownJob
<1>4. /\ IsJob(job') /\ job'.next = job.next /\ job'.status = job.status
      /\ job'.owner = job.owner /\ job'.version = job.version
  BY <1>1, <1>3 DEF IsJob, JobFields
<1>5. Alone
  BY <1>1 DEF Alone, IInv, Shaped, WorkerRows
<1>6. \A w \in Workers : wrk'[w].pc = "chunk" =>
         ~BarrierHeldExclusive /\ job'.status = "in_progress" /\ job'.owner = w
             /\ job'.version = wrk'[w].version
  BY <1>1, <1>4 DEF IInv, ChunkHasBarrier, BarrierHeldExclusive, Opened, JobInv, ChunkFenced
<1> QED BY <1>1, <1>2, <1>4, <1>5, <1>6, JobRowUpdated

-----------------------------------------------------------------------------
(* The end of a chunk                                                      *)

\* What the holder of the chunk finds.
LEMMA AtChunk ==
    ASSUME IInv, NEW w \in Workers, wrk[w].pc = "chunk"
    PROVE  /\ JobIsThere /\ IsJob(job) /\ DOMAIN slots = 0 .. job.next - 1
           /\ job.owner = w /\ job.version = wrk[w].version
           /\ \A v \in Workers \ {w} : wrk[v].pc # "chunk"
           /\ phase \notin {"none", "registration"}
           /\ \A h \in Handlers : Opened(h) => ~Exclusive(tx[h].cmd)
<1>1. JobIsThere
  BY DEF IInv, JobInv, ClaimsHaveJob
<1>2. /\ job.status = "in_progress" /\ job.owner = w /\ job.version = wrk[w].version
      /\ \A v \in Workers \ {w} : wrk[v].pc # "chunk"
  BY DEF IInv, JobInv, ChunkFenced
<1>3. IsJob(job) /\ DOMAIN slots = 0 .. job.next - 1
  BY <1>1, <1>2 DEF IInv, JobInv, SlotsToCheckpoint
<1>4. phase \notin {"none", "registration"}
  BY <1>1 DEF IInv, JobInv, NotBeforeTheClose
<1>5. \A h \in Handlers : Opened(h) => ~Exclusive(tx[h].cmd)
  BY DEF IInv, ChunkHasBarrier
<1> QED BY <1>1, <1>2, <1>3, <1>4, <1>5

LEMMA SlotsGrow ==
    ASSUME IsJob(job), DOMAIN slots = 0 .. job.next - 1, WriteSlots
    PROVE  /\ DOMAIN slots' = 0 .. NextSeedingChunkBounds(job.plan, job.next) - 1
           /\ \A i \in DOMAIN slots : i \in DOMAIN slots' /\ slots'[i] = slots[i]
<1> DEFINE to == NextSeedingChunkBounds(job.plan, job.next)
           chunk == ChunkSlots(job.plan, job.next, to, ChunkPlayers)
<1>1. to \in Nat /\ job.next <= to /\ job.next \in Nat
  BY ChunkGoesOn DEF IsJob
<1>2. slots' = [i \in 0 .. to - 1 |-> IF i < job.next THEN slots[i] ELSE chunk[i]]
  BY DEF WriteSlots
<1> HIDE DEF to, chunk
<1>3. DOMAIN slots' = 0 .. to - 1
  BY <1>2
<1>4. \A i \in DOMAIN slots : i \in DOMAIN slots' /\ slots'[i] = slots[i]
  BY <1>1, <1>2
<1> QED BY <1>3, <1>4 DEF to

\* A chunk that ends, whether it was the last one or not.
LEMMA ChunkEnds ==
    ASSUME IInv, NEW w \in Workers, wrk[w].pc = "chunk", WriteSlots,
           wrk' = [wrk EXCEPT ![w] = Resting],
           UNCHANGED <<shardCount, registration, tx>>,
           phase' \in Phases, phase' \notin {"none", "registration"},
           IsJob(job'), job'.status # "quarantined" =>
                            job'.next = NextSeedingChunkBounds(job.plan, job.next)
    PROVE  IInv' /\ Stands
<1>1. /\ JobIsThere /\ IsJob(job) /\ DOMAIN slots = 0 .. job.next - 1
      /\ job.owner = w /\ job.version = wrk[w].version
      /\ \A v \in Workers \ {w} : wrk[v].pc # "chunk"
      /\ phase \notin {"none", "registration"}
      /\ \A h \in Handlers : Opened(h) => ~Exclusive(tx[h].cmd)
  BY AtChunk
<1>2. /\ DOMAIN slots' = 0 .. NextSeedingChunkBounds(job.plan, job.next) - 1
      /\ \A i \in DOMAIN slots : i \in DOMAIN slots' /\ slots'[i] = slots[i]
  BY <1>1, SlotsGrow
<1>3. /\ wrk' \in [Workers -> WorkerRows] /\ wrk'[w] = Resting
      /\ \A v \in Workers \ {w} : wrk'[v] = wrk[v]
  BY SetWorker, RestingIsOne DEF IInv
<1>4. \A v \in Workers : wrk'[v].pc # "chunk"
  BY <1>1, <1>3 DEF Resting
<1>5. Shaped'
  BY <1>3 DEF IInv, Shaped, WorkerRows
<1>6. TxInv'
  BY <1>1, PhaseGoesOn DEF IInv
<1>7. ChunkHasBarrier' /\ ChunkFenced' /\ ClaimsHaveJob'
  BY <1>4, JobsAreThere DEF ChunkHasBarrier, ChunkFenced, ClaimsHaveJob
<1>8. NotBeforeTheClose'
  BY DEF NotBeforeTheClose
<1>9. SlotsToCheckpoint'
  BY <1>2 DEF SlotsToCheckpoint, IsJob
<1> QED BY <1>1, <1>2, <1>5, <1>6, <1>7, <1>8, <1>9 DEF IInv, JobInv, Stands

\* The job's row after a chunk that is committed.
LEMMA CheckpointIs ==
    ASSUME IsJob(job), NEW status, NEW next \in Nat, next <= job.plan.slots, NEW last,
           job' = [SetJob(status) EXCEPT !.next = next, !.last = last]
    PROVE  IsJob(job') /\ job'.next = next
<1>1. IsJob(SetJob(status)) /\ SetJob(status).plan = job.plan
  BY SetJobIs
<1> QED BY <1>1 DEF IsJob, JobFields

LEMMA CommitChunkHolds == ASSUME IInv, NEW w \in Workers, CommitChunk(w) PROVE IInv' /\ Stands
<1> DEFINE to == NextSeedingChunkBounds(job.plan, job.next)
<1>1. /\ wrk[w].pc = "chunk" /\ WriteSlots /\ wrk' = [wrk EXCEPT ![w] = Resting]
      /\ UNCHANGED <<shardCount, registration, tx>> /\ phase' = phase
      /\ job' = [SetJob("pending") EXCEPT !.next = to, !.last = Max(ChunkPlayers)]
  BY DEF CommitChunk
<1>2. IsJob(job) /\ phase \notin {"none", "registration"}
  BY <1>1, AtChunk
<1>3. to \in Nat /\ to <= job.plan.slots
  BY <1>2, ChunkGoesOn
<1> HIDE DEF to
<1>4. IsJob(job') /\ job'.next = to
  BY <1>1, <1>2, <1>3, CheckpointIs
<1>5. phase' \in Phases
  BY <1>1 DEF IInv, Shaped
<1> QED BY <1>1, <1>2, <1>4, <1>5, ChunkEnds DEF to

LEMMA FinalizeSeedingHolds ==
    ASSUME IInv, NEW w \in Workers, FinalizeSeeding(w) PROVE IInv' /\ Stands
<1> DEFINE to == NextSeedingChunkBounds(job.plan, job.next)
<1>1. /\ wrk[w].pc = "chunk" /\ LastChunk /\ WriteSlots /\ wrk' = [wrk EXCEPT ![w] = Resting]
      /\ UNCHANGED <<shardCount, registration, tx>>
  BY DEF FinalizeSeeding
<1>2. IsJob(job) /\ phase \notin {"none", "registration"}
  BY <1>1, AtChunk
<1>3. to = job.plan.slots
  BY <1>1 DEF LastChunk
<1>4. CASE VerifySeedingSourceExhausted /\ round.status = "pending"
  <2>1. /\ job' = [SetJob("completed") EXCEPT !.next = job.plan.slots, !.last = Max(ChunkPlayers)]
        /\ phase' = "in_progress"
    BY <1>4 DEF FinalizeSeeding
  <2>2. job.plan.slots \in Nat /\ job.plan.slots <= job.plan.slots
    BY <1>2 DEF IsJob
  <2>3. IsJob(job') /\ job'.next = job.plan.slots
    BY <1>2, <2>1, <2>2, CheckpointIs
  <2> QED BY <1>1, <1>3, <2>1, <2>3, ChunkEnds DEF Phases
<1>5. CASE ~(VerifySeedingSourceExhausted /\ round.status = "pending")
  <2>1. job' = SetJob("quarantined") /\ phase' = phase
    BY <1>5 DEF FinalizeSeeding
  <2>2. IsJob(job') /\ job'.status = "quarantined"
    BY <1>2, <2>1, SetJobIs
  <2>3. phase' \in Phases
    BY <2>1 DEF IInv, Shaped
  <2> QED BY <1>1, <1>2, <2>1, <2>2, <2>3, ChunkEnds
<1> QED BY <1>4, <1>5

-----------------------------------------------------------------------------

LEMMA InitHolds == SeedingInit => IInv
<1> SUFFICES ASSUME SeedingInit PROVE IInv OBVIOUS
<1> USE DEF SeedingInit, Init
<1>1. Shaped
  BY IdleIsOne, RestingIsOne DEF Shaped, Phases, WorkerRows
<1>2. TxInv
  BY DEF TxInv, HoldsItsShard, SideBySide, StillOpen, StillUnknown, NoRoomBesides, Opened,
         Reserving, Idle
<1>3. ~JobIsThere /\ DOMAIN slots = {}
  BY DEF JobIsThere, Resting
<1>4. JobInv
  BY <1>3 DEF JobInv, NotBeforeTheClose, SlotsToCheckpoint, ChunkFenced, ClaimsHaveJob, Resting
<1>5. ChunkHasBarrier
  BY DEF ChunkHasBarrier, Resting
<1> QED BY <1>1, <1>2, <1>4, <1>5 DEF IInv

LEMMA NextHolds == IInv /\ SeedingNext => IInv' /\ Stands
<1> SUFFICES ASSUME IInv, SeedingNext PROVE IInv' /\ Stands OBVIOUS
<1>1. ASSUME NEW h \in Handlers, HandlerStep(h) \/ RollbackRequest(h) PROVE IInv' /\ Stands
  BY <1>1, RequestKept, KeptStands
<1>2. ASSUME NEW w \in Workers, WorkerStep(w) PROVE IInv' /\ Stands
  BY <1>2, ReapHolds, ReapRowHolds, ClaimHolds, BeginChunkHolds, CommitChunkHolds, FinalizeSeedingHolds
     DEF WorkerStep
<1>3. ASSUME NEW w \in Workers, CrashWorker(w) PROVE IInv' /\ Stands
  BY <1>3, CrashHolds
<1>4. ASSUME NEW w \in Workers, NEW v \in Workers, DeadlockAbort(w, v) PROVE IInv' /\ Stands
  BY <1>4, AbortHolds
<1>5. CASE LeaseExpires
  BY <1>5, LeaseHolds
<1> QED BY <1>1, <1>2, <1>3, <1>4, <1>5 DEF SeedingNext

LEMMA StutterHolds == IInv /\ UNCHANGED vars => IInv'
<1> SUFFICES ASSUME IInv, UNCHANGED vars PROVE IInv' OBVIOUS
<1> USE DEF vars, registrationVars, seedingVars
<1>1. Alone /\ UNCHANGED <<slots, job>> /\ wrk' = wrk
  BY DEF Alone, requestVars, IInv, Shaped, WorkerRows
<1> QED BY <1>1, WorkerRests

LEMMA Invariance == SeedingSpec => []IInv
<1>1. IInv /\ [SeedingNext]_vars => IInv'
  BY NextHolds, StutterHolds
<1> QED BY <1>1, InitHolds, PTL DEF SeedingSpec

\* Nobody joins a tournament once its registration is over, leaves it or
\* changes his shard; a slot that is written is never written again and only
\* the holder of the latest claim moves the checkpoint.
THEOREM RowsAreKept == SeedingSpec => RowsStand
<1>1. IInv /\ [SeedingNext]_vars =>
        [\A p \in Players : registration'[p] # registration[p] =>
            registration[p] = Nobody /\ phase = "registration"]_registrationVars
  BY NextHolds DEF Stands, vars
<1>2. IInv /\ [SeedingNext]_vars =>
        [ /\ \A i \in DOMAIN slots : i \in DOMAIN slots' /\ slots'[i] = slots[i]
          /\ job # NoJob /\ job'.next # job.next =>
               \E w \in Workers : wrk[w].pc = "chunk" /\ wrk[w].version = job.version /\ job.owner = w ]_vars
  BY NextHolds DEF Stands
<1>3. SeedingSpec => NoLateRegistration
  BY <1>1, Invariance, PTL DEF SeedingSpec, NoLateRegistration
<1>4. SeedingSpec => CheckpointIsFenced
  BY <1>2, Invariance, PTL DEF SeedingSpec, CheckpointIsFenced
<1> QED BY <1>3, <1>4 DEF RowsStand

-----------------------------------------------------------------------------
(* Counting: places are counted shard by shard                             *)

LEMMA MultiplesApart ==
    ASSUME NEW m \in Nat \ {0}, NEW a \in Nat, NEW b \in Nat, a < b
    PROVE  m * a \in Nat /\ m * b \in Nat /\ m * a + m <= m * b
<1>1. PICK d \in Nat : b = a + 1 + d
  <2>1. b - a - 1 \in Nat /\ b = a + 1 + (b - a - 1)
    OBVIOUS
  <2> QED BY <2>1
<1>2. m * d \in Nat
  OBVIOUS
<1>3. m * b = m * a + m + m * d
  BY <1>1
<1> QED BY <1>2, <1>3

LEMMA Division ==
    ASSUME NEW n \in Nat, NEW m \in Nat \ {0}
    PROVE  /\ n \div m \in Nat /\ n % m \in 0 .. m - 1
           /\ n = m * (n \div m) + (n % m)
OBVIOUS

LEMMA DivisionIsUnique ==
    ASSUME NEW m \in Nat \ {0}, NEW a \in Nat, NEW b \in Nat, NEW r \in 0 .. m - 1,
           NEW s \in 0 .. m - 1, m * a + r = m * b + s
    PROVE  a = b /\ r = s
<1>1. ~(a < b)
  <2> SUFFICES ASSUME a < b PROVE FALSE OBVIOUS
  <2>1. m * a + m <= m * b /\ m * a \in Nat /\ m * b \in Nat
    BY MultiplesApart
  <2> QED BY <2>1
<1>2. ~(b < a)
  <2> SUFFICES ASSUME b < a PROVE FALSE OBVIOUS
  <2>1. m * b + m <= m * a /\ m * a \in Nat /\ m * b \in Nat
    BY MultiplesApart
  <2> QED BY <2>1
<1>3. a = b
  BY <1>1, <1>2
<1> QED BY <1>3

\* The places of the shards, numbered as the division deals them out.
LEMMA QuotaIsDivision ==
    ASSUME NEW a \in Nat, NEW s \in Shards
    PROVE  ShardCount * a + s \in Nat /\
           (ShardCount * a + s < Capacity <=> a + 1 <= AllocateRegistrationQuotas[s])
<1> DEFINE m == ShardCount
           A == Capacity \div m
           R == Capacity % m
<1>1. m \in Nat \ {0} /\ Capacity \in Nat /\ s \in 0 .. m - 1
  BY RegistrationAssumption DEF Shards
<1>2. A \in Nat /\ R \in 0 .. m - 1 /\ Capacity = m * A + R
  BY <1>1, Division
<1>3. AllocateRegistrationQuotas[s] = A + IF s < R THEN 1 ELSE 0
  BY DEF AllocateRegistrationQuotas
<1>4. m * a \in Nat /\ m * A \in Nat
  BY <1>1, <1>2
<1> HIDE DEF m, A, R
<1>5. CASE a < A
  <2>1. m * a + m <= m * A
    BY <1>1, <1>2, <1>5, MultiplesApart
  <2>2. m * a + s < Capacity
    BY <2>1, <1>1, <1>2, <1>4
  <2>3. a + 1 <= AllocateRegistrationQuotas[s]
    BY <1>1, <1>2, <1>3, <1>5
  <2> QED BY <1>1, <1>4, <2>2, <2>3 DEF m
<1>6. CASE a = A
  BY <1>1, <1>2, <1>3, <1>4, <1>6 DEF m
<1>7. CASE A < a
  <2>1. m * A + m <= m * a
    BY <1>1, <1>2, <1>7, MultiplesApart
  <2>2. ~(m * a + s < Capacity)
    BY <2>1, <1>1, <1>2, <1>4
  <2>3. ~(a + 1 <= AllocateRegistrationQuotas[s])
    BY <1>1, <1>2, <1>3, <1>7
  <2> QED BY <1>1, <1>4, <2>2, <2>3 DEF m
<1> QED BY <1>2, <1>5, <1>6, <1>7

PlacesOf(counts) == UNION {{s} \X (1 .. counts[s]) : s \in Shards}

LEMMA InPlaces ==
    ASSUME NEW counts
    PROVE  /\ \A x \in PlacesOf(counts) : /\ x[1] \in Shards /\ x[2] \in 1 .. counts[x[1]]
                                          /\ x = <<x[1], x[2]>>
           /\ \A s \in Shards : \A i \in 1 .. counts[s] : <<s, i>> \in PlacesOf(counts)
<1>1. ASSUME NEW x \in PlacesOf(counts)
      PROVE  x[1] \in Shards /\ x[2] \in 1 .. counts[x[1]] /\ x = <<x[1], x[2]>>
  <2>1. PICK s \in Shards : x \in {s} \X (1 .. counts[s])
    BY DEF PlacesOf
  <2> QED BY <2>1
<1>2. ASSUME NEW s \in Shards, NEW i \in 1 .. counts[s] PROVE <<s, i>> \in PlacesOf(counts)
  <2>1. <<s, i>> \in {s} \X (1 .. counts[s])
    OBVIOUS
  <2> QED BY <2>1 DEF PlacesOf
<1> QED BY <1>1, <1>2

\* The quotas add up to the capacity.
LEMMA QuotasAddUp ==
    /\ IsFiniteSet(PlacesOf(AllocateRegistrationQuotas))
    /\ Cardinality(PlacesOf(AllocateRegistrationQuotas)) = Capacity
<1> DEFINE Q == AllocateRegistrationQuotas
           m == ShardCount
           N == 0 .. Capacity - 1
           place == [n \in N |-> <<n % m, (n \div m) + 1>>]
<1>1. m \in Nat \ {0} /\ Capacity \in Nat \ {0}
  BY RegistrationAssumption
<1>2. ASSUME NEW n \in N
      PROVE  /\ n \in Nat /\ n % m \in Shards /\ n \div m \in Nat /\ n = m * (n \div m) + (n % m)
             /\ place[n] = <<n % m, (n \div m) + 1>>
  <2>1. n \in Nat
    BY <1>1
  <2> QED BY <2>1, <1>1, Division DEF Shards
<1>3. ASSUME NEW n \in N PROVE place[n] \in PlacesOf(Q)
  <2> DEFINE a == n \div m
             s == n % m
  <2>1. n \in Nat /\ s \in Shards /\ a \in Nat /\ n = m * a + s /\ place[n] = <<s, a + 1>>
    BY <1>2
  <2>2. m * a + s < Capacity
    BY <2>1, <1>1
  <2> HIDE DEF a, s, place
  <2>3. a + 1 <= Q[s]
    BY <2>1, <2>2, QuotaIsDivision
  <2>4. a + 1 \in 1 .. Q[s]
    BY <2>1, <2>3, QuotasAreNumbers
  <2> HIDE DEF Q
  <2> QED BY <2>1, <2>4, InPlaces
<1>4. ASSUME NEW n \in N, NEW k \in N, place[n] = place[k] PROVE n = k
  <2>1. n % m = k % m /\ (n \div m) + 1 = (k \div m) + 1
    BY <1>4
  <2>2. n \div m \in Nat /\ k \div m \in Nat
    BY <1>2
  <2>3. n \div m = k \div m
    <3> DEFINE a == n \div m
               b == k \div m
    <3>1. a \in Nat /\ b \in Nat /\ a + 1 = b + 1
      BY <2>1, <2>2
    <3> HIDE DEF a, b
    <3>2. a = b
      BY <3>1
    <3> QED BY <3>2 DEF a, b
  <2> QED BY <2>1, <2>3, <1>2
<1>5. ASSUME NEW x \in PlacesOf(Q) PROVE \E n \in N : place[n] = x
  <2>1. x[1] \in Shards /\ x[2] \in 1 .. Q[x[1]] /\ x = <<x[1], x[2]>>
    <3> HIDE DEF Q
    <3> QED BY InPlaces
  <2> DEFINE s == x[1]
             a == x[2] - 1
             n == m * a + s
  <2>2. s \in Shards /\ a \in Nat /\ a + 1 = x[2] /\ a + 1 <= Q[s]
    BY <2>1, QuotasAreNumbers
  <2> HIDE DEF s, a
  <2>3. n \in Nat /\ n < Capacity
    BY <2>2, QuotaIsDivision
  <2>4. n \in N /\ s \in 0 .. m - 1
    BY <2>2, <2>3, <1>1 DEF Shards
  <2>5. n \div m = a /\ n % m = s
    <3>1. m * (n \div m) + (n % m) = m * a + s /\ n \div m \in Nat /\ n % m \in 0 .. m - 1
      BY <2>3, <1>1, Division
    <3> HIDE DEF n, m
    <3> QED BY <3>1, <2>2, <2>4, <1>1, DivisionIsUnique
  <2>6. place[n] = <<s, a + 1>>
    BY <2>4, <2>5
  <2> HIDE DEF place, n
  <2> QED BY <2>1, <2>2, <2>4, <2>6 DEF s
<1> HIDE DEF place, Q, m
<1>6. place \in Bijection(N, PlacesOf(Q))
  <2>1. place \in [N -> PlacesOf(Q)]
    BY <1>3 DEF place
  <2> QED BY <2>1, <1>4, <1>5 DEF Bijection, Injection, Surjection, IsInjective
<1>7. IsFiniteSet(N) /\ Cardinality(N) = Capacity
  BY <1>1, FS_Interval
<1> HIDE DEF N
<1> QED BY <1>6, <1>7, FS_Bijection DEF ExistsBijection, Q

InShard(s) == {p \in Players : registration[p] = s}

\* Rows that are counted shard by shard are counted together.
LEMMA RowsAddUp ==
    ASSUME Shaped, CountsAreRows
    PROVE  /\ IsFiniteSet(Registered) /\ RegisteredSum = Cardinality(Registered)
<1> DEFINE number == [s \in Shards |-> CHOOSE f : f \in Bijection(InShard(s), 1 .. shardCount[s])]
           place == [p \in Registered |-> <<registration[p], number[registration[p]][p]>>]
<1>1. IsFiniteSet(Registered)
  BY RegistrationAssumption, FS_Subset DEF Registered
<1>2. \A p \in Registered : p \in Players /\ registration[p] \in Shards /\ p \in InShard(registration[p])
  BY DEF Registered, Shaped, InShard
<1>3. \A s \in Shards : \A p \in InShard(s) : p \in Registered /\ registration[p] = s
  BY RegistrationAssumption DEF InShard, Registered
<1>4. ASSUME NEW s \in Shards PROVE number[s] \in Bijection(InShard(s), 1 .. shardCount[s])
  <2>1. IsFiniteSet(InShard(s)) /\ shardCount[s] = Cardinality(InShard(s)) /\ shardCount[s] \in Nat
    BY RegistrationAssumption, FS_Subset DEF InShard, CountsAreRows, Shaped
  <2>2. IsFiniteSet(1 .. shardCount[s]) /\ Cardinality(1 .. shardCount[s]) = shardCount[s]
    BY <2>1, FS_Interval
  <2>3. ExistsBijection(InShard(s), 1 .. shardCount[s])
    BY <2>1, <2>2, FS_SameCardinalityBij
  <2>4. \E f : f \in Bijection(InShard(s), 1 .. shardCount[s])
    BY <2>3 DEF ExistsBijection
  <2> QED BY <2>4
<1> HIDE DEF number
<1>5. \A s \in Shards :
        /\ \A p \in InShard(s) : number[s][p] \in 1 .. shardCount[s]
        /\ \A p, q \in InShard(s) : number[s][p] = number[s][q] => p = q
        /\ \A i \in 1 .. shardCount[s] : \E p \in InShard(s) : number[s][p] = i
  BY <1>4 DEF Bijection, Injection, Surjection, IsInjective
<1>6. place \in Bijection(Registered, PlacesOf(shardCount))
  <2>1. ASSUME NEW p \in Registered PROVE place[p] \in PlacesOf(shardCount)
    BY <1>2, <1>5, InPlaces
  <2>2. ASSUME NEW p \in Registered, NEW q \in Registered, place[p] = place[q] PROVE p = q
    <3>1. registration[p] = registration[q] /\ number[registration[p]][p] = number[registration[q]][q]
      BY <2>2
    <3> QED BY <3>1, <1>2, <1>5
  <2>3. ASSUME NEW x \in PlacesOf(shardCount) PROVE \E p \in Registered : place[p] = x
    <3>1. x[1] \in Shards /\ x[2] \in 1 .. shardCount[x[1]] /\ x = <<x[1], x[2]>>
      BY InPlaces
    <3>2. PICK p \in InShard(x[1]) : number[x[1]][p] = x[2]
      BY <3>1, <1>5
    <3>3. p \in Registered /\ registration[p] = x[1]
      BY <3>1, <1>3
    <3>4. place[p] = <<x[1], x[2]>>
      BY <3>2, <3>3
    <3> QED BY <3>1, <3>3, <3>4
  <2>4. place \in [Registered -> PlacesOf(shardCount)]
    BY <2>1
  <2> HIDE DEF place
  <2> QED BY <2>2, <2>3, <2>4 DEF Bijection, Injection, Surjection, IsInjective
<1>7. Cardinality(PlacesOf(shardCount)) = Cardinality(Registered)
  BY <1>1, <1>6, FS_Bijection DEF ExistsBijection
<1> QED BY <1>1, <1>7 DEF RegisteredSum, PlacesOf

LEMMA FullIsCapacity ==
    ASSUME \A s \in Shards : shardCount[s] = AllocateRegistrationQuotas[s]
    PROVE  RegisteredSum = Capacity
<1>1. RegisteredSum = Cardinality(PlacesOf(shardCount))
  BY DEF RegisteredSum, PlacesOf
<1>2. PlacesOf(shardCount) = PlacesOf(AllocateRegistrationQuotas)
  BY DEF PlacesOf
<1> QED BY <1>1, <1>2, QuotasAddUp

-----------------------------------------------------------------------------
(* What closes, answers and announces                                      *)

\* What the second layer adds.  A command in progress is of a tournament that
\* exists, and whom a transaction found registered still is.
StillKnown ==
    \A h \in Handlers : Opened(h) =>
        /\ tx[h].cmd.type # "create" => phase # "none"
        /\ tx[h].known /\ tx[h].cmd.type = "register" => registration[tx[h].cmd.player] # Nobody

\* A transaction knows whether it fills its shard.  At most one is elected; if
\* it does not close the registration, another shard has room and nobody can
\* take the last place of it.
Elections ==
    \A h \in Handlers :
        /\ tx[h].pc = "reserved" => shardCount[tx[h].shard] + 1 < AllocateRegistrationQuotas[tx[h].shard]
        /\ tx[h].pc \in {"filled", "elected"} =>
             shardCount[tx[h].shard] + 1 = AllocateRegistrationQuotas[tx[h].shard]
        /\ tx[h].closes => tx[h].pc = "elected" /\ phase = "registration"
        /\ tx[h].pc = "elected" =>
             /\ tx[h].closes \/ \E s \in Shards \ {tx[h].shard} : HasRoom(s)
             /\ \A g \in Handlers \ {h} : tx[g].pc # "elected"

AllFull == \A s \in Shards : ~HasRoom(s)

\* Nobody is registered before the tournament is created.
EmptyAtFirst == phase = "none" => \A s \in Shards : shardCount[s] = 0

Closes == {f \in outbox : f.name = "RegistrationClosed"}

\* The close is announced with the job it leaves behind.
Announced ==
    /\ job = NoJob => Closes = {}
    /\ job # NoJob => \E f : Closes = {f}
    /\ phase \in {"seeding", "in_progress"} => job # NoJob

\* The job is for the players there are, and they stay as they are.
ForTheRegistered ==
    job # NoJob => /\ job.status \in JobStatuses
                   /\ job.plan.players = RegisteredSum /\ registeredCount = RegisteredSum

Answered ==
    /\ DOMAIN outcome = Commands
    /\ \A c \in Commands :
        /\ outcome[c] \in {"registered", "already_registered"} =>
             c.type = "register" /\ registration[c.player] # Nobody
        /\ outcome[c] = "capacity_exceeded" => AllFull

RInv ==
    /\ registeredCount \in Nat
    /\ StillKnown /\ Elections /\ CountsAreRows /\ EmptyAtFirst /\ FullIsClosed
    /\ Announced /\ ForTheRegistered /\ Answered

LEMMA QuotaBound ==
    ASSUME Shaped, NEW s \in Shards
    PROVE  /\ shardCount[s] \in Nat /\ AllocateRegistrationQuotas[s] \in Nat
           /\ Full(s, shardCount) <=> ~HasRoom(s)
BY QuotasAreNumbers DEF Shaped, Full, HasRoom

\* Places that are taken stay taken, so the answers given stay true.
LEMMA AnswerGiven ==
    ASSUME Answered, NEW c \in Commands, NEW a, outcome' = [outcome EXCEPT ![c] = a],
           \A p \in Players : registration[p] # Nobody => registration'[p] # Nobody,
           AllFull => AllFull',
           a \in {"registered", "already_registered"} =>
                c.type = "register" /\ registration'[c.player] # Nobody,
           a = "capacity_exceeded" => AllFull'
    PROVE  Answered'
<1>1. DOMAIN outcome' = Commands /\ \A d \in Commands : outcome'[d] = IF d = c THEN a ELSE outcome[d]
  BY DEF Answered
<1>2. \A d \in Commands : d.type = "register" => d.player \in Players
  BY RegistrationAssumption
<1>3. ASSUME NEW d \in Commands, outcome'[d] \in {"registered", "already_registered"}
      PROVE  d.type = "register" /\ registration'[d.player] # Nobody
  BY <1>1, <1>2, <1>3 DEF Answered
<1>4. ASSUME NEW d \in Commands, outcome'[d] = "capacity_exceeded" PROVE AllFull'
  BY <1>1, <1>4 DEF Answered
<1> HIDE DEF AllFull
<1> QED BY <1>1, <1>3, <1>4 DEF Answered

\* Facts that are added and are not of a close.
LEMMA OtherFacts ==
    ASSUME NEW names, "RegistrationClosed" \notin names, NEW c,
           outbox' = outbox \cup {Fact(n, c) : n \in names}
    PROVE  Closes' = Closes
<1>1. \A n \in names : Fact(n, c).name # "RegistrationClosed"
  BY DEF Fact
<1> QED BY <1>1 DEF Closes

\* A close is announced once.
LEMMA CloseFact ==
    ASSUME NEW names, "RegistrationClosed" \in names, NEW c, Closes = {},
           outbox' = outbox \cup {Fact(n, c) : n \in names}
    PROVE  \E f : Closes' = {f}
<1> DEFINE f == Fact("RegistrationClosed", c)
<1>1. \A n : Fact(n, c).name = n
  BY DEF Fact
<1>2. \A g : g \in outbox' /\ g.name = "RegistrationClosed" => g = f
  BY <1>1 DEF Closes
<1>3. f \in outbox' /\ f.name = "RegistrationClosed"
  BY <1>1
<1> HIDE DEF f
<1>4. Closes' = {f}
  BY <1>2, <1>3 DEF Closes
<1> QED BY <1>4

\* The transactions when one of them ends and no place is taken.
LEMMA OthersGoOn ==
    ASSUME IInv, RInv, NEW h \in Handlers, Opened(h), tx' = [tx EXCEPT ![h] = Idle],
           UNCHANGED <<shardCount, registration>>,
           phase' = phase \/ Exclusive(tx[h].cmd)
    PROVE  StillKnown' /\ Elections'
<1>1. tx'[h] = Idle /\ OthersKept(h)
  BY SetTransaction, IdleIsOne DEF IInv
<1>2. /\ ~Opened(h)' /\ tx'[h].pc = "idle" /\ ~tx'[h].closes
      /\ \A g \in Handlers \ {h} : tx'[g] = tx[g]
  BY <1>1 DEF Opened, Idle, OthersKept
<1>3. CASE Exclusive(tx[h].cmd)
  <2>1. \A g \in Handlers \ {h} : tx[g].pc = "idle" /\ ~Opened(g) /\ ~Reserving(g)
    BY <1>3 DEF IInv, TxInv, SideBySide, Opened, Reserving
  <2>2. \A g \in Handlers : ~tx'[g].closes /\ tx'[g].pc = "idle"
    BY <1>2, <2>1 DEF IInv, TxInv, HoldsItsShard
  <2> QED BY <2>2 DEF StillKnown, Elections, Opened
<1>4. CASE phase' = phase
  <2>1. StillKnown'
    BY <1>2, <1>4 DEF RInv, StillKnown, Opened
  <2>2. Elections'
    BY <1>2, <1>4 DEF RInv, Elections, HasRoom
  <2> QED BY <2>1, <2>2
<1> QED BY <1>3, <1>4

\* A transaction that ends without a place taken or a job made.
LEMMA EndsQuietly ==
    ASSUME IInv, RInv, NEW h \in Handlers, Opened(h), tx' = [tx EXCEPT ![h] = Idle],
           UNCHANGED <<shardCount, registration, job, registeredCount>>,
           Closes' = Closes, Answered',
           phase' = phase \/ Exclusive(tx[h].cmd),
           phase' = "none" => phase = "none",
           phase' = "registration" => phase = "registration" \/ ~AllFull,
           phase' \in {"seeding", "in_progress"} => phase \in {"seeding", "in_progress"}
    PROVE  RInv'
<1>1. StillKnown' /\ Elections'
  BY OthersGoOn
<1>2. CountsAreRows' /\ EmptyAtFirst'
  BY DEF RInv, CountsAreRows, EmptyAtFirst
<1>3. FullIsClosed'
  BY QuotaBound DEF IInv, RInv, FullIsClosed, AllFull, Full
<1>4. Announced'
  BY DEF RInv, Announced
<1>5. ForTheRegistered'
  BY DEF RInv, ForTheRegistered, RegisteredSum
<1> QED BY <1>1, <1>2, <1>3, <1>4, <1>5 DEF RInv

\* A transaction that commits its answer, and nothing that is counted.
LEMMA CommitsQuietly ==
    ASSUME IInv, RInv, NEW h \in Handlers, Opened(h), NEW a, NEW names, Commit(h, a, names),
           "RegistrationClosed" \notin names,
           UNCHANGED <<shardCount, registration, job, registeredCount>>,
           a \in {"registered", "already_registered"} =>
                tx[h].cmd.type = "register" /\ registration[tx[h].cmd.player] # Nobody,
           a = "capacity_exceeded" => AllFull,
           phase' = phase \/ Exclusive(tx[h].cmd),
           phase' = "none" => phase = "none",
           phase' = "registration" => phase = "registration" \/ ~AllFull,
           phase' \in {"seeding", "in_progress"} => phase \in {"seeding", "in_progress"}
    PROVE  RInv'
<1>1. /\ outcome' = [outcome EXCEPT ![tx[h].cmd] = a] /\ tx' = [tx EXCEPT ![h] = Idle]
      /\ outbox' = outbox \cup {Fact(n, tx[h].cmd) : n \in names}
  BY DEF Commit
<1>2. tx[h].cmd \in Commands
  BY DEF IInv, TxInv, HoldsItsShard
<1>3. Closes' = Closes
  BY <1>1, OtherFacts
<1>4. AllFull' = AllFull
  BY DEF AllFull, HasRoom
<1>5. Answered'
  <2> HIDE DEF AllFull
  <2> QED BY <1>1, <1>2, <1>4, AnswerGiven DEF RInv
<1> QED BY <1>1, <1>3, <1>5, EndsQuietly

\* At first there is room on the first shard.
LEMMA RoomAtFirst == ASSUME Shaped, RInv, phase = "none" PROVE ~AllFull
<1> DEFINE A == Capacity \div ShardCount
           R == Capacity % ShardCount
<1>1. ShardCount \in Nat \ {0} /\ Capacity \in Nat \ {0} /\ 0 \in Shards
  BY RegistrationAssumption DEF Shards
<1>2. A \in Nat /\ R \in 0 .. ShardCount - 1 /\ Capacity = (ShardCount * A) + R
  BY <1>1, Division
<1>3. AllocateRegistrationQuotas[0] = A + IF 0 < R THEN 1 ELSE 0
  BY <1>1 DEF AllocateRegistrationQuotas
<1>4. A # 0 \/ R # 0
  <2> HIDE DEF A, R
  <2> QED BY <1>1, <1>2
<1>5. shardCount[0] = 0
  BY <1>1 DEF RInv, EmptyAtFirst
<1> HIDE DEF A, R
<1>6. AllocateRegistrationQuotas[0] > 0
  BY <1>1, <1>2, <1>3, <1>4
<1> QED BY <1>1, <1>5, <1>6 DEF AllFull, HasRoom

\* What an exclusive command has read is so.
LEMMA AloneKnows ==
    ASSUME IInv, RInv, NEW h \in Handlers, tx[h].pc = "begun", Exclusive(tx[h].cmd)
    PROVE  /\ Opened(h) /\ tx[h].phase = phase /\ phase \in Phases
           /\ tx[h].cmd \in Commands
           /\ tx[h].cmd.type # "create" => phase # "none"
<1>1. Opened(h)
  BY DEF Opened
<1> QED BY <1>1 DEF IInv, TxInv, HoldsItsShard, Shaped, RInv, StillKnown

LEMMA CreateCounts == ASSUME IInv, RInv, NEW h \in Handlers, CommitCreate(h) PROVE RInv'
<1> DEFINE a == DecideCreateTournament(tx[h])
           names == IF a = "create" THEN {"TournamentCreated"} ELSE {}
<1>1. /\ tx[h].pc = "begun" /\ tx[h].cmd.type = "create" /\ Commit(h, a, names)
      /\ phase' = IF a = "create" THEN "registration" ELSE phase
      /\ UNCHANGED <<shardCount, registration, job, registeredCount>>
  BY DEF CommitCreate
<1>2. Exclusive(tx[h].cmd)
  BY <1>1 DEF Exclusive
<1>3. Opened(h) /\ tx[h].phase = phase
  BY <1>1, <1>2, AloneKnows
<1>4. a \in {"create", "tournament_already_exists"} /\ (a = "create" => phase = "none")
  BY <1>3 DEF DecideCreateTournament
<1>5. "RegistrationClosed" \notin names
  OBVIOUS
<1>6. phase = "none" => ~AllFull
  BY RoomAtFirst DEF IInv
<1> HIDE DEF a, names, AllFull
<1> QED BY <1>1, <1>2, <1>3, <1>4, <1>5, <1>6, CommitsQuietly

LEMMA CancelCounts == ASSUME IInv, RInv, NEW h \in Handlers, CommitCancel(h) PROVE RInv'
<1> DEFINE a == DecideCancelTournament(tx[h])
           names == IF a = "cancel" THEN {"TournamentCancelled"} ELSE {}
<1>1. /\ tx[h].pc = "begun" /\ tx[h].cmd.type = "cancel" /\ Commit(h, a, names)
      /\ phase' = IF a = "cancel" THEN "cancelled" ELSE phase
      /\ UNCHANGED <<shardCount, registration, job, registeredCount>>
  BY DEF CommitCancel
<1>2. Exclusive(tx[h].cmd) /\ Opened(h)
  BY <1>1 DEF Exclusive, Opened
<1>3. a \in {"already_done", "already_terminal", "cancel"}
  BY DEF DecideCancelTournament
<1>4. "RegistrationClosed" \notin names
  OBVIOUS
<1> HIDE DEF a, names, AllFull
<1> QED BY <1>1, <1>2, <1>3, <1>4, CommitsQuietly

LEMMA AnswerCounts == ASSUME IInv, RInv, NEW h \in Handlers, AnswerRegister(h) PROVE RInv'
<1> DEFINE a == DecideRegisterPlayer(tx[h])
<1>1. /\ tx[h].pc = "begun" /\ tx[h].cmd.type = "register" /\ a # "reserve" /\ Commit(h, a, {})
      /\ UNCHANGED <<phase, shardCount, registration, job, registeredCount>>
  BY DEF AnswerRegister
<1>2. Opened(h)
  BY <1>1 DEF Opened
<1>3. /\ a \in {"already_terminal", "wrong_phase", "already_registered", "reserve"}
      /\ a = "already_registered" => tx[h].known
  BY DEF DecideRegisterPlayer
<1>4. tx[h].known => registration[tx[h].cmd.player] # Nobody
  BY <1>1, <1>2 DEF RInv, StillKnown
<1> HIDE DEF a, AllFull
<1> QED BY <1>1, <1>2, <1>3, <1>4, CommitsQuietly

LEMMA RollbackCounts == ASSUME IInv, RInv, NEW h \in Handlers, Rollback(h) PROVE RInv'
<1>1. /\ Opened(h) /\ tx' = [tx EXCEPT ![h] = Idle]
      /\ UNCHANGED <<phase, registeredCount, shardCount, registration, outcome, outbox, job>>
  BY DEF Rollback, Opened
<1>2. Closes' = Closes /\ Answered'
  BY <1>1 DEF Closes, RInv, Answered, AllFull, HasRoom
<1> QED BY <1>1, <1>2, EndsQuietly

\* The kickoff: for the players there are, announced with the job.
LEMMA KickoffCounts ==
    ASSUME IInv, RInv, NEW n \in Nat, InsertPendingRoundAndJob(n), phase = "registration",
           n = RegisteredSum', registeredCount' = n, phase' = "seeding",
           NEW names, "RegistrationClosed" \in names, NEW c,
           outbox' = outbox \cup {Fact(x, c) : x \in names}
    PROVE  Announced' /\ ForTheRegistered' /\ registeredCount' \in Nat
<1>1. job = NoJob
  BY DEF IInv, JobInv, NotBeforeTheClose, JobIsThere
<1> DEFINE plan == ComputeRoundSlotPlan(n)
<1>2. job' = [status |-> "pending", plan |-> plan, next |-> 0, last |-> 0,
              owner |-> Nobody, version |-> 0, expired |-> FALSE]
  BY <1>1 DEF InsertPendingRoundAndJob
<1>3. plan.players = n
  BY DEF ComputeRoundSlotPlan
<1> HIDE DEF plan
<1>4. job'.status = "pending" /\ job'.plan.players = n /\ job' # NoJob
  BY <1>2, <1>3 DEF NoJob
<1>5. Closes = {}
  BY <1>1 DEF RInv, Announced
<1>6. \E f : Closes' = {f}
  BY <1>5, CloseFact
<1>7. Announced'
  BY <1>4, <1>6 DEF Announced
<1>8. ForTheRegistered'
  BY <1>4 DEF ForTheRegistered, JobStatuses
<1> QED BY <1>7, <1>8

LEMMA CloseCounts == ASSUME IInv, RInv, NEW h \in Handlers, CommitClose(h) PROVE RInv'
<1> DEFINE a == DecideCloseRegistration(tx[h])
           names == IF a = "close" THEN {"RegistrationClosed"} ELSE {}
<1>1. /\ tx[h].pc = "begun" /\ tx[h].cmd.type = "close" /\ Commit(h, a, names)
      /\ UNCHANGED <<shardCount, registration>>
  BY DEF CommitClose
<1>2. Exclusive(tx[h].cmd)
  BY <1>1 DEF Exclusive
<1>3. /\ Opened(h) /\ tx[h].phase = phase /\ phase \in Phases /\ phase # "none"
      /\ tx[h].cmd \in Commands
  BY <1>1, <1>2, AloneKnows
<1>4. /\ a \in {"already_terminal", "close_noop", "invalid_command", "close"}
      /\ a = "close" => phase = "registration"
  BY <1>3 DEF DecideCloseRegistration, Phases, Terminal
<1> HIDE DEF a
<1>5. CASE a # "close"
  <2>1. UNCHANGED <<phase, registeredCount, job>>
    BY <1>5 DEF CommitClose, a
  <2>2. "RegistrationClosed" \notin names
    BY <1>5
  <2> HIDE DEF names, AllFull
  <2> QED BY <1>1, <1>3, <1>4, <1>5, <2>1, <2>2, CommitsQuietly
<1>6. CASE a = "close"
  <2>1. /\ phase' = "seeding" /\ registeredCount' = RegisteredSum
        /\ InsertPendingRoundAndJob(RegisteredSum)
    BY <1>6 DEF CommitClose, a
  <2>2. /\ tx' = [tx EXCEPT ![h] = Idle] /\ outcome' = [outcome EXCEPT ![tx[h].cmd] = a]
        /\ outbox' = outbox \cup {Fact(n, tx[h].cmd) : n \in names}
    BY <1>1 DEF Commit
  <2>3. RegisteredSum \in Nat /\ RegisteredSum' = RegisteredSum
    BY <1>1, SumIsANumber DEF IInv, RegisteredSum
  <2>4. "RegistrationClosed" \in names
    BY <1>6
  <2> HIDE DEF names
  <2>5. Announced' /\ ForTheRegistered' /\ registeredCount' \in Nat
    BY <1>4, <1>6, <2>1, <2>2, <2>3, <2>4, KickoffCounts
  <2>6. StillKnown' /\ Elections'
    BY <1>1, <1>2, <1>3, <2>2, OthersGoOn
  <2>7. CountsAreRows' /\ EmptyAtFirst' /\ FullIsClosed'
    BY <1>1, <2>1 DEF RInv, CountsAreRows, EmptyAtFirst, FullIsClosed
  <2>8. AllFull' = AllFull
    BY <1>1 DEF AllFull, HasRoom
  <2>9. Answered'
    <3> HIDE DEF AllFull
    <3> QED BY <1>1, <1>3, <1>6, <2>2, <2>8, AnswerGiven DEF RInv
  <2> QED BY <2>5, <2>6, <2>7, <2>9 DEF RInv
<1> QED BY <1>5, <1>6

\* The probes of a player reach every shard.
LEMMA ProbesReachAll ==
    ASSUME NEW p \in Players, NEW r \in Shards
    PROVE  \E i \in 1 .. ShardCount : RegistrationProbeOrder(p)[i] = r
<1> DEFINE m == ShardCount
           s == StartShard[p]
           i == IF s <= r THEN r - s + 1 ELSE (r - s) + m + 1
<1>1. m \in Nat \ {0} /\ s \in 0 .. m - 1 /\ r \in 0 .. m - 1
  BY RegistrationAssumption DEF Shards
<1> HIDE DEF m, s
<1>2. i \in 1 .. m /\ (s + i - 1 = r \/ s + i - 1 = r + m)
  BY <1>1
<1>3. r % m = r /\ (r + m) % m = r
  BY <1>1
<1>4. (s + i - 1) % m = r
  BY <1>2, <1>3
<1>5. RegistrationProbeOrder(p)[i] = (s + i - 1) % m
  BY <1>2 DEF RegistrationProbeOrder, m, s
<1> QED BY <1>2, <1>4, <1>5 DEF m

\* Only the transactions change.
LEMMA OnlyTransactions ==
    ASSUME RInv, StillKnown', Elections',
           UNCHANGED <<phase, registeredCount, shardCount, registration, outcome, outbox, job>>
    PROVE  RInv'
<1>1. CountsAreRows' /\ EmptyAtFirst' /\ FullIsClosed'
  BY DEF RInv, CountsAreRows, EmptyAtFirst, FullIsClosed
<1>2. Announced' /\ ForTheRegistered'
  BY DEF RInv, Announced, ForTheRegistered, Closes, RegisteredSum
<1>3. Answered'
  BY DEF RInv, Answered, AllFull, HasRoom
<1> QED BY <1>1, <1>2, <1>3 DEF RInv

LEMMA BeginCounts ==
    ASSUME IInv, RInv, NEW h \in Handlers, NEW c \in Commands, BeginCommand(h, c) PROVE RInv'
<1> DEFINE t == [Idle EXCEPT !.pc = "begun", !.cmd = c, !.phase = phase, !.known = c.player \in Registered]
<1>1. /\ tx' = [tx EXCEPT ![h] = t] /\ tx[h].pc = "idle"
      /\ c.type # "create" => phase # "none"
      /\ UNCHANGED <<phase, registeredCount, shardCount, registration, outcome, outbox, job>>
  BY DEF BeginCommand, BeginCreateTournament, BeginRegisterPlayer, BeginCloseRegistration,
         BeginCancelTournament, Begin
<1>2. /\ t.pc = "begun" /\ t.cmd = c /\ ~t.closes
      /\ t.known => c.player \in Registered
  BY DEF Idle
<1> HIDE DEF t
<1>3. tx \in [Handlers -> Transactions]
  BY DEF IInv, Shaped
<1>4. tx'[h] = t /\ \A g \in Handlers \ {h} : tx'[g] = tx[g]
  BY <1>1, <1>3
<1>5. StillKnown'
  BY <1>1, <1>2, <1>4 DEF RInv, StillKnown, Opened, Registered
<1>6. Elections'
  BY <1>1, <1>2, <1>4 DEF RInv, Elections, HasRoom
<1> QED BY <1>1, <1>5, <1>6, OnlyTransactions

LEMMA ReserveCounts ==
    ASSUME IInv, RInv, NEW h \in Handlers, ReserveRegistration(h), UNCHANGED wrk PROVE RInv'
<1> DEFINE order == RegistrationProbeOrder(tx[h].cmd.player)
           open == {i \in 1 .. ShardCount : ~Full(order[i], shardCount)}
           s == order[CHOOSE i \in open : \A j \in open : i <= j]
           pc == IF shardCount[s] + 1 = AllocateRegistrationQuotas[s] THEN "filled" ELSE "reserved"
<1>1. /\ UNCHANGED <<phase, registeredCount, shardCount, registration, job>>
      /\ tx[h].pc = "begun" /\ tx[h].cmd.type = "register"
  BY DEF ReserveRegistration
<1>2. Opened(h) /\ tx[h].cmd \in Commands
  BY <1>1 DEF Opened, IInv, TxInv, HoldsItsShard
<1>3. CASE open = {}
  <2>1. Commit(h, "capacity_exceeded", {})
    BY <1>3 DEF ReserveRegistration
  <2>2. AllFull
    <3> SUFFICES ASSUME NEW r \in Shards PROVE ~HasRoom(r)
      BY DEF AllFull
    <3>1. tx[h].cmd.player \in Players
      BY <1>1, <1>2, RegistrationAssumption
    <3>2. \A i \in 1 .. ShardCount : Full(order[i], shardCount)
      BY <1>3
    <3>3. \E i \in 1 .. ShardCount : order[i] = r
      BY <3>1, ProbesReachAll
    <3>4. Full(r, shardCount)
      <4> HIDE DEF order
      <4> QED BY <3>2, <3>3
    <3> QED BY <3>4, QuotaBound DEF IInv
  <2> HIDE DEF AllFull
  <2> QED BY <1>1, <1>2, <2>1, <2>2, CommitsQuietly
<1>4. CASE open # {}
  <2>1. /\ tx' = [tx EXCEPT ![h].shard = s, ![h].pc = pc] /\ UNCHANGED <<outcome, outbox>>
    BY <1>4 DEF ReserveRegistration
  <2>2. Shaped' /\ TxInv'
    BY ReserveKeeps DEF IInv
  <2> HIDE DEF s
  <2>3. tx \in [Handlers -> Transactions]
    BY DEF IInv, Shaped
  <2>4. /\ tx'[h].shard = s /\ tx'[h].pc = pc /\ tx'[h].cmd = tx[h].cmd /\ tx'[h].known = tx[h].known
        /\ tx'[h].closes = tx[h].closes
        /\ \A g \in Handlers \ {h} : tx'[g] = tx[g]
    BY <2>1, <2>3 DEF Transactions
  <2>5. pc \in {"reserved", "filled"}
    OBVIOUS
  <2>6. s \in Shards /\ HasRoom(s) /\ ~tx[h].closes
    <3>1. Reserving(h)' /\ ~Reserving(h)
      BY <1>1, <2>4, <2>5 DEF Reserving
    <3> QED BY <1>1, <2>2, <2>4, <3>1 DEF IInv, TxInv, HoldsItsShard, HasRoom
  <2>7. /\ pc = "reserved" => shardCount[s] + 1 < AllocateRegistrationQuotas[s]
        /\ pc = "filled" => shardCount[s] + 1 = AllocateRegistrationQuotas[s]
    BY <2>6, QuotaBound DEF IInv, HasRoom
  <2> HIDE DEF pc
  <2>8. StillKnown'
    BY <1>1, <1>2, <2>4 DEF RInv, StillKnown, Opened
  <2>9. Elections'
    BY <1>1, <2>4, <2>5, <2>6, <2>7 DEF RInv, Elections, HasRoom
  <2> QED BY <1>1, <2>1, <2>8, <2>9, OnlyTransactions
<1> QED BY <1>3, <1>4

\* Only one transaction is elected at a time; it either fills the last shard
\* or leaves one with room that only another election could fill.
LEMMA ElectCounts == ASSUME IInv, RInv, NEW h \in Handlers, ElectCloser(h) PROVE RInv'
<1> DEFINE sh == tx[h].shard
           counts == [shardCount EXCEPT ![sh] = @ + 1]
           last == phase = "registration" /\ \A s \in Shards : Full(s, counts)
<1>0. UNCHANGED <<phase, registeredCount, shardCount, registration, outcome, outbox, job>>
  BY DEF ElectCloser
<1>1. /\ tx[h].pc = "filled" /\ ElectionFree(h)
      /\ tx' = [tx EXCEPT ![h].pc = "elected", ![h].closes = last]
  BY DEF ElectCloser
<1>2. tx \in [Handlers -> Transactions] /\ shardCount \in [Shards -> Nat]
  BY DEF IInv, Shaped
<1>3. Opened(h) /\ Reserving(h)
  BY <1>1 DEF Opened, Reserving
<1>4. /\ tx[h].phase = "registration" /\ sh \in Shards /\ HasRoom(sh)
      /\ phase = "registration"
  <2>1. tx[h].phase = "registration" /\ sh \in Shards /\ HasRoom(sh)
    BY <1>3 DEF IInv, TxInv, HoldsItsShard
  <2>2. phase = "registration"
    BY <1>3, <2>1 DEF IInv, TxInv, StillOpen
  <2> QED BY <2>1, <2>2
<1>5. shardCount[sh] + 1 = AllocateRegistrationQuotas[sh]
  BY <1>1 DEF RInv, Elections
<1>6. ~last => \E s \in Shards \ {sh} : HasRoom(s)
  <2> SUFFICES ASSUME NEW s \in Shards, ~Full(s, counts) PROVE s # sh /\ HasRoom(s)
    BY <1>4
  <2>1. AllocateRegistrationQuotas[s] \in Nat /\ AllocateRegistrationQuotas[sh] \in Nat
    BY <1>4, QuotasAreNumbers
  <2>2. counts[s] = IF s = sh THEN shardCount[s] + 1 ELSE shardCount[s]
    BY <1>2
  <2>3. ~(counts[s] >= AllocateRegistrationQuotas[s])
    BY DEF Full
  <2> HIDE DEF counts
  <2> QED BY <1>2, <1>4, <1>5, <2>1, <2>2, <2>3 DEF HasRoom
<1>7. last \in BOOLEAN
  OBVIOUS
<1> HIDE DEF last, sh
<1>8. /\ tx'[h].pc = "elected" /\ tx'[h].shard = sh
      /\ tx'[h].cmd = tx[h].cmd /\ tx'[h].known = tx[h].known
      /\ \A g \in Handlers \ {h} : tx'[g] = tx[g]
  BY <1>1, <1>2, <1>7 DEF Transactions, sh
<1>9. StillKnown'
  BY <1>0, <1>3, <1>8 DEF RInv, StillKnown, Opened
<1>10. tx'[h].closes \/ \E s \in Shards \ {sh} : HasRoom(s)
  <2>1. tx'[h].closes = last
    BY <1>1, <1>2 DEF Transactions
  <2> QED BY <2>1, <1>6
<1>11. \A g \in Handlers \ {h} : tx[g].pc # "elected"
  BY <1>1 DEF ElectionFree
<1>12. Elections'
  <2> SUFFICES ASSUME NEW g \in Handlers
               PROVE  /\ tx'[g].pc = "reserved" =>
                            shardCount'[tx'[g].shard] + 1 < AllocateRegistrationQuotas[tx'[g].shard]
                      /\ tx'[g].pc \in {"filled", "elected"} =>
                           shardCount'[tx'[g].shard] + 1 = AllocateRegistrationQuotas[tx'[g].shard]
                      /\ tx'[g].closes => tx'[g].pc = "elected" /\ phase' = "registration"
                      /\ tx'[g].pc = "elected" =>
                           /\ tx'[g].closes \/ \E s \in Shards \ {tx'[g].shard} : HasRoom(s)'
                           /\ \A x \in Handlers \ {g} : tx'[x].pc # "elected"
    BY DEF Elections
  <2>1. CASE g = h
    BY <2>1, <1>0, <1>4, <1>5, <1>8, <1>10, <1>11 DEF HasRoom
  <2>2. CASE g # h
    BY <2>2, <1>0, <1>8, <1>11 DEF RInv, Elections
  <2> QED BY <2>1, <2>2
<1> QED BY <1>0, <1>9, <1>12, OnlyTransactions

LEMMA FullLater ==
    ASSUME \A s \in Shards : shardCount'[s] = AllocateRegistrationQuotas[s]
    PROVE  RegisteredSum' = Capacity
<1>1. RegisteredSum' = Cardinality(PlacesOf(shardCount'))
  BY DEF RegisteredSum, PlacesOf
<1>2. PlacesOf(shardCount') = PlacesOf(AllocateRegistrationQuotas)
  BY DEF PlacesOf
<1> QED BY <1>1, <1>2, QuotasAddUp

\* The row and its count.
LEMMA RowWritten ==
    ASSUME Shaped, CountsAreRows, NEW p \in Players, NEW sh \in Shards, registration[p] = Nobody,
           HasRoom(sh), shardCount' = [shardCount EXCEPT ![sh] = @ + 1],
           registration' = [registration EXCEPT ![p] = sh]
    PROVE  CountsAreRows'
<1>1. Nobody \notin Shards /\ IsFiniteSet(Players)
  BY RegistrationAssumption
<1>2. shardCount \in [Shards -> Nat] /\ registration \in [Players -> Shards \cup {Nobody}]
  BY DEF Shaped
<1>3. /\ shardCount'[sh] = shardCount[sh] + 1
      /\ \A s \in Shards : s # sh => shardCount'[s] = shardCount[s]
  BY <1>2
<1>4. /\ InShard(sh)' = InShard(sh) \cup {p} /\ p \notin InShard(sh)
      /\ \A s \in Shards : s # sh => InShard(s)' = InShard(s)
  BY <1>1, <1>2 DEF InShard
<1>5. IsFiniteSet(InShard(sh))
  BY <1>1, FS_Subset DEF InShard
<1>6. Cardinality(InShard(sh)') = Cardinality(InShard(sh)) + 1
  BY <1>4, <1>5, FS_AddElement
<1>7. \A s \in Shards : /\ shardCount[s] = Cardinality(InShard(s))
                        /\ shardCount[s] <= AllocateRegistrationQuotas[s]
  BY DEF CountsAreRows, InShard
<1>8. shardCount[sh] + 1 <= AllocateRegistrationQuotas[sh]
  BY QuotaBound DEF HasRoom
<1>9. \A s \in Shards : /\ shardCount'[s] = Cardinality(InShard(s)')
                        /\ shardCount'[s] <= AllocateRegistrationQuotas[s]
  BY <1>3, <1>4, <1>6, <1>7, <1>8
<1> QED BY <1>9 DEF CountsAreRows, InShard

LEMMA FinalizeCounts ==
    ASSUME IInv, RInv, NEW h \in Handlers, FinalizeRegister(h), UNCHANGED wrk PROVE RInv'
<1>0. PICK sh : sh = tx[h].shard
  OBVIOUS
<1> DEFINE pl == tx[h].cmd.player
           names == {"PlayerRegistered"} \cup IF tx[h].closes THEN {"RegistrationClosed"} ELSE {}
<1>1. /\ tx[h].pc \in {"reserved", "elected"}
      /\ shardCount' = [shardCount EXCEPT ![sh] = @ + 1]
      /\ registration' = [registration EXCEPT ![pl] = sh]
      /\ Commit(h, "registered", names)
  BY <1>0 DEF FinalizeRegister
<1>2. /\ phase = "registration" /\ registration[pl] = Nobody /\ sh \in Shards /\ HasRoom(sh)
      /\ tx[h].cmd \in Commands /\ ~Exclusive(tx[h].cmd) /\ Nobody \notin Shards
  BY <1>0, <1>1, WrittenInTime, RegistrationAssumption DEF IInv
<1>3. pl \in Players /\ tx[h].cmd.type = "register"
  BY <1>2, RegistrationAssumption DEF Exclusive
<1>4. /\ tx' = [tx EXCEPT ![h] = Idle] /\ outcome' = [outcome EXCEPT ![tx[h].cmd] = "registered"]
      /\ outbox' = outbox \cup {Fact(n, tx[h].cmd) : n \in names}
  BY <1>1 DEF Commit
<1>5. /\ tx'[h] = Idle /\ tx'[h].pc = "idle" /\ ~tx'[h].closes /\ ~Opened(h)'
      /\ \A g \in Handlers \ {h} : tx'[g] = tx[g]
  BY <1>4, SetTransaction, IdleIsOne DEF IInv, OthersKept, Idle, Opened
<1>6. Shaped'
  BY FinalizeKeeps DEF IInv
<1>7. shardCount \in [Shards -> Nat] /\ registration \in [Players -> Shards \cup {Nobody}]
  BY DEF IInv, Shaped
<1>8. CountsAreRows'
  <2> HIDE DEF pl
  <2> QED BY <1>1, <1>2, <1>3, RowWritten DEF IInv, RInv
<1>9. /\ shardCount'[sh] = shardCount[sh] + 1
      /\ \A s \in Shards : s # sh => shardCount'[s] = shardCount[s] /\ HasRoom(s)' = HasRoom(s)
  <2>1. /\ shardCount'[sh] = shardCount[sh] + 1
        /\ \A s \in Shards : s # sh => shardCount'[s] = shardCount[s]
    BY <1>1, <1>2, <1>7
  <2> QED BY <2>1 DEF HasRoom
<1>10. phase' # "none" /\ (~tx[h].closes => UNCHANGED <<phase, registeredCount, job>>)
  BY <1>2 DEF FinalizeRegister
<1>11. \A p \in Players : /\ registration[p] # Nobody => registration'[p] # Nobody
                          /\ p = pl => registration'[p] # Nobody
  BY <1>1, <1>2, <1>7
<1>12. tx[h].pc = "reserved" => HasRoom(sh)' /\ ~tx[h].closes
  <2> SUFFICES ASSUME tx[h].pc = "reserved" PROVE HasRoom(sh)' /\ ~tx[h].closes OBVIOUS
  <2>1. shardCount[sh] + 1 < AllocateRegistrationQuotas[sh] /\ ~tx[h].closes
    BY <1>0 DEF RInv, Elections
  <2> QED BY <2>1, <1>9 DEF HasRoom
<1>13. \A g \in Handlers \ {h} : Opened(g) => tx[g].cmd.player # pl /\ tx[g].cmd.type = "register"
  BY <1>1 DEF IInv, TxInv, SideBySide, Opened, Exclusive
<1>14. \A g \in Handlers \ {h} : Reserving(g) => tx[g].shard # sh /\ tx[g].shard \in Shards /\ ~tx[g].closes
  <2> SUFFICES ASSUME NEW g \in Handlers \ {h}, Reserving(g)
               PROVE  tx[g].shard # sh /\ tx[g].shard \in Shards /\ ~tx[g].closes
    OBVIOUS
  <2>1. tx[g].shard # sh /\ tx[g].shard \in Shards
    BY <1>0, <1>1 DEF IInv, TxInv, SideBySide, HoldsItsShard, Opened, Reserving
  <2>2. ~tx[g].closes
    BY <2>1, <1>2 DEF IInv, TxInv, NoRoomBesides
  <2> QED BY <2>1, <2>2
<1>15. StillKnown'
  <2> SUFFICES ASSUME NEW g \in Handlers, Opened(g)'
               PROVE  /\ phase' # "none"
                      /\ tx'[g].known => registration'[tx'[g].cmd.player] # Nobody
    BY DEF StillKnown
  <2>1. g # h /\ tx'[g] = tx[g] /\ Opened(g)
    BY <1>5 DEF Opened
  <2>2. tx[g].cmd.type = "register" /\ tx[g].cmd.player \in Players
    BY <2>1, <1>13, RegistrationAssumption DEF IInv, TxInv, HoldsItsShard
  <2>3. tx[g].known => registration[tx[g].cmd.player] # Nobody
    BY <2>1, <2>2 DEF RInv, StillKnown
  <2> QED BY <2>1, <2>2, <2>3, <1>10, <1>11
<1>16. ASSUME NEW g \in Handlers, tx'[g].pc # "idle"
       PROVE  g # h /\ tx'[g] = tx[g] /\ tx[g].pc \in {"begun", "reserved", "filled", "elected"}
  <2>1. g # h /\ tx'[g] = tx[g]
    BY <1>5, <1>16
  <2> QED BY <2>1, <1>16, TxParts DEF IInv
<1>17. ASSUME NEW g \in Handlers, tx'[g].pc = "elected"
       PROVE  \E s \in Shards \ {tx'[g].shard} : HasRoom(s)'
  <2>1. g # h /\ tx'[g] = tx[g] /\ Reserving(g)
    BY <1>16, <1>17 DEF Reserving
  <2>2. tx[h].pc # "elected"
    BY <1>17, <2>1 DEF RInv, Elections
  <2>3. HasRoom(sh)' /\ sh # tx[g].shard
    BY <1>1, <1>12, <1>14, <2>1, <2>2
  <2> QED BY <1>2, <2>1, <2>3
<1>18. Elections'
  <2> SUFFICES ASSUME NEW g \in Handlers
               PROVE  /\ tx'[g].pc = "reserved" =>
                            shardCount'[tx'[g].shard] + 1 < AllocateRegistrationQuotas[tx'[g].shard]
                      /\ tx'[g].pc \in {"filled", "elected"} =>
                           shardCount'[tx'[g].shard] + 1 = AllocateRegistrationQuotas[tx'[g].shard]
                      /\ ~tx'[g].closes
                      /\ tx'[g].pc = "elected" => \A x \in Handlers \ {g} : tx'[x].pc # "elected"
    BY <1>17 DEF Elections
  <2>1. CASE g = h
    BY <2>1, <1>5
  <2>2. CASE g # h
    <3>1. tx'[g] = tx[g]
      BY <2>2, <1>5
    <3>2. Reserving(g) => shardCount'[tx[g].shard] = shardCount[tx[g].shard]
      BY <2>2, <1>9, <1>14
    <3>3. ~tx[g].closes
      BY <2>2, <1>14 DEF IInv, TxInv, HoldsItsShard
    <3>4. tx[g].pc = "elected" => \A x \in Handlers \ {g} : tx'[x].pc # "elected"
      BY <1>16 DEF RInv, Elections
    <3> QED BY <3>1, <3>2, <3>3, <3>4 DEF RInv, Elections, Reserving
  <2> QED BY <2>1, <2>2
<1>19. EmptyAtFirst' /\ Answered'
  <2>1. AllFull => AllFull'
    BY <1>2 DEF AllFull
  <2> HIDE DEF AllFull, pl
  <2>2. Answered'
    BY <1>2, <1>3, <1>4, <1>11, <2>1, AnswerGiven DEF RInv, pl
  <2> QED BY <1>10, <2>2 DEF EmptyAtFirst
<1>20. CASE tx[h].closes
  <2>1. /\ phase' = "seeding" /\ registeredCount' = Capacity /\ InsertPendingRoundAndJob(Capacity)
    BY <1>20 DEF FinalizeRegister
  <2>2. \A s \in Shards : shardCount'[s] = AllocateRegistrationQuotas[s]
    <3> SUFFICES ASSUME NEW s \in Shards PROVE shardCount'[s] = AllocateRegistrationQuotas[s] OBVIOUS
    <3>1. ~HasRoom(s)'
      <4>1. shardCount[sh] + 1 >= AllocateRegistrationQuotas[sh] /\ (HasRoom(s) => s = sh)
        BY <1>0, <1>20 DEF IInv, TxInv, NoRoomBesides
      <4>2. CASE s = sh
        BY <4>1, <4>2, <1>2, <1>7, <1>9, QuotaBound DEF IInv, HasRoom
      <4>3. CASE s # sh
        BY <4>1, <4>3, <1>9
      <4> QED BY <4>2, <4>3
    <3>2. shardCount'[s] \in Nat /\ AllocateRegistrationQuotas[s] \in Nat
      BY <1>6, QuotasAreNumbers DEF Shaped
    <3>3. shardCount'[s] <= AllocateRegistrationQuotas[s]
      BY <1>8 DEF CountsAreRows, AllocateRegistrationQuotas
    <3> QED BY <3>1, <3>2, <3>3 DEF HasRoom
  <2>3. RegisteredSum' = Capacity
    BY <2>2, FullLater
  <2>4. "RegistrationClosed" \in names /\ Capacity \in Nat
    BY <1>20, RegistrationAssumption
  <2> HIDE DEF names
  <2>5. Announced' /\ ForTheRegistered' /\ registeredCount' \in Nat
    BY <1>2, <1>4, <2>1, <2>3, <2>4, KickoffCounts
  <2>6. FullIsClosed'
    BY <2>1 DEF FullIsClosed
  <2> QED BY <1>8, <1>15, <1>18, <1>19, <2>5, <2>6 DEF RInv
<1>21. CASE ~tx[h].closes
  <2>1. UNCHANGED <<phase, registeredCount, job>>
    BY <1>10, <1>21
  <2>2. "RegistrationClosed" \notin names
    BY <1>21
  <2> HIDE DEF names
  <2>3. Closes' = Closes
    BY <1>4, <2>2, OtherFacts
  <2>4. job = NoJob
    BY <1>2 DEF IInv, JobInv, NotBeforeTheClose, JobIsThere
  <2>5. Announced' /\ ForTheRegistered' /\ registeredCount' \in Nat
    BY <2>1, <2>3, <2>4 DEF RInv, Announced, ForTheRegistered
  <2>6. \E s \in Shards : HasRoom(s)'
    <3>1. CASE tx[h].pc = "reserved"
      BY <3>1, <1>2, <1>12
    <3>2. CASE tx[h].pc = "elected"
      <4>1. \E s \in Shards \ {sh} : HasRoom(s)
        BY <1>0, <3>2, <1>21 DEF RInv, Elections
      <4> QED BY <4>1, <1>9
    <3> QED BY <3>1, <3>2, <1>1
  <2>7. FullIsClosed'
    <3>1. PICK s \in Shards : HasRoom(s)'
      BY <2>6
    <3>2. ~Full(s, shardCount')
      BY <3>1, <1>6, QuotasAreNumbers DEF Full, HasRoom, Shaped
    <3> QED BY <3>2 DEF FullIsClosed, Full
  <2> QED BY <1>8, <1>15, <1>18, <1>19, <2>5, <2>7 DEF RInv
<1> QED BY <1>20, <1>21

\* A worker moves the job on and, at the end, the phase.
LEMMA WorkersCount ==
    ASSUME IInv, RInv, UNCHANGED <<registeredCount, shardCount, registration, outcome, outbox, tx>>,
           phase' = phase \/ (phase' = "in_progress" /\ phase \notin {"none", "registration"} /\ job # NoJob),
           job' = job \/ (/\ job # NoJob /\ job' # NoJob /\ job'.status \in JobStatuses
                          /\ job'.plan = job.plan)
    PROVE  RInv'
<1>1. job' = NoJob <=> job = NoJob
  OBVIOUS
<1>2. StillKnown'
  BY DEF RInv, StillKnown, Opened
<1>3. \A h \in Handlers : tx[h].closes => phase' = phase
  BY DEF RInv, Elections
<1>4. Elections'
  BY <1>3 DEF RInv, Elections, HasRoom
<1>5. CountsAreRows' /\ EmptyAtFirst' /\ FullIsClosed'
  BY DEF RInv, CountsAreRows, EmptyAtFirst, FullIsClosed
<1>6. Announced'
  BY <1>1 DEF RInv, Announced, Closes
<1>7. ForTheRegistered'
  <2>1. RegisteredSum' = RegisteredSum
    BY DEF RegisteredSum
  <2> QED BY <1>1, <2>1 DEF RInv, ForTheRegistered
<1>8. Answered'
  BY DEF RInv, Answered, AllFull, HasRoom
<1> QED BY <1>2, <1>4, <1>5, <1>6, <1>7, <1>8 DEF RInv

\* What may happen to the job's row without its slots.
JobGoesOn ==
    /\ UNCHANGED <<registeredCount, shardCount, registration, outcome, outbox, tx>>
    /\ phase' = phase \/ (phase' = "in_progress" /\ phase \notin {"none", "registration"} /\ job # NoJob)
    /\ job' = job \/ (/\ job # NoJob /\ job' # NoJob /\ job'.status \in JobStatuses
                      /\ job'.plan = job.plan)

LEMMA SetJobGoesOn ==
    ASSUME IInv, JobIsThere, NEW status \in JobStatuses
    PROVE  /\ SetJob(status).status \in JobStatuses /\ SetJob(status).plan = job.plan
           /\ SetJob(status) # NoJob /\ DOMAIN SetJob(status) = JobFields
<1>1. IsJob(job)
  BY KnownJob
<1>2. IsJob(SetJob(status)) /\ SetJob(status).status = status /\ SetJob(status).plan = job.plan
  BY <1>1, SetJobIs
<1>3. DOMAIN NoJob # JobFields
  BY DEF NoJob, JobFields
<1> QED BY <1>2, <1>3 DEF IsJob

LEMMA WorkerGoesOn == ASSUME IInv, NEW w \in Workers, WorkerStep(w) PROVE JobGoesOn
<1>0. /\ {"pending", "in_progress", "completed", "cancelled", "quarantined"} = JobStatuses
      /\ DOMAIN NoJob # JobFields
  BY DEF JobStatuses, NoJob, JobFields
<1>1. CASE ReapExpiredSeedingLeases(w)
  BY <1>1 DEF ReapExpiredSeedingLeases, JobGoesOn, registrationVars
<1>2. CASE ReapJobRow(w)
  <2>1. /\ UNCHANGED <<registeredCount, shardCount, registration, outcome, outbox, tx, phase>>
        /\ job' = IF Expired THEN SetJob("pending") ELSE job
        /\ Expired => JobIsThere
    BY <1>2 DEF ReapJobRow, Expired, JobIsThere
  <2> QED BY <1>0, <2>1, SetJobGoesOn DEF JobGoesOn, JobIsThere
<1>3. CASE ClaimNextSeedingJob(w)
  <2>1. /\ UNCHANGED <<registeredCount, shardCount, registration, outcome, outbox, tx, phase>>
        /\ JobIsThere
    BY <1>3 DEF ClaimNextSeedingJob, ActiveJob, JobIsThere
  <2>2. CASE Claimable
    <3>1. job' = [job EXCEPT !.status = "in_progress", !.owner = w, !.version = @ + 1, !.expired = FALSE]
      BY <1>3, <2>2 DEF ClaimNextSeedingJob
    <3>2. IsJob(job)
      BY <2>1, KnownJob
    <3>3. job'.status = "in_progress" /\ job'.plan = job.plan /\ DOMAIN job' = JobFields
      BY <3>1, <3>2 DEF IsJob, JobFields
    <3>4. job' # NoJob
      BY <1>0, <3>3
    <3> QED BY <1>0, <2>1, <3>3, <3>4 DEF JobGoesOn, JobIsThere
  <2>3. CASE ~Claimable
    <3>1. job' = SetJob("cancelled") \/ job' = job
      BY <1>3, <2>3 DEF ClaimNextSeedingJob, CancelTerminalSeedingJobs
    <3> QED BY <1>0, <2>1, <3>1, SetJobGoesOn DEF JobGoesOn, JobIsThere
  <2> QED BY <2>2, <2>3
<1>4. CASE BeginChunk(w)
  <2>1. /\ UNCHANGED <<registeredCount, shardCount, registration, outcome, outbox, tx, phase>>
        /\ JobIsThere
        /\ job' \in {SetJob("cancelled"), SetJob("quarantined"), job}
    BY <1>4 DEF BeginChunk, IInv, JobInv, ClaimsHaveJob
  <2> QED BY <1>0, <2>1, SetJobGoesOn DEF JobGoesOn, JobIsThere
<1>5. CASE CommitChunk(w)
  <2>1. /\ UNCHANGED <<registeredCount, shardCount, registration, outcome, outbox, tx, phase>>
        /\ JobIsThere
        /\ job' = [SetJob("pending") EXCEPT !.next = NextSeedingChunkBounds(job.plan, job.next),
                                            !.last = Max(ChunkPlayers)]
    BY <1>5 DEF CommitChunk, IInv, JobInv, ClaimsHaveJob
  <2>2. /\ SetJob("pending").status \in JobStatuses /\ SetJob("pending").plan = job.plan
        /\ DOMAIN SetJob("pending") = JobFields
    BY <1>0, <2>1, SetJobGoesOn
  <2>3. job'.status = SetJob("pending").status /\ job'.plan = job.plan /\ DOMAIN job' = JobFields
    BY <2>1, <2>2 DEF JobFields
  <2>4. job' # NoJob
    BY <1>0, <2>3
  <2> QED BY <2>1, <2>2, <2>3, <2>4 DEF JobGoesOn, JobIsThere
<1>6. CASE FinalizeSeeding(w)
  <2>1. /\ UNCHANGED <<registeredCount, shardCount, registration, outcome, outbox, tx>>
        /\ wrk[w].pc = "chunk"
    BY <1>6 DEF FinalizeSeeding
  <2>2. JobIsThere /\ phase \notin {"none", "registration"}
    BY <2>1, AtChunk
  <2>3. CASE VerifySeedingSourceExhausted /\ round.status = "pending"
    <3>1. /\ phase' = "in_progress"
          /\ job' = [SetJob("completed") EXCEPT !.next = job.plan.slots, !.last = Max(ChunkPlayers)]
      BY <1>6, <2>3 DEF FinalizeSeeding
    <3>2. /\ SetJob("completed").status \in JobStatuses /\ SetJob("completed").plan = job.plan
          /\ DOMAIN SetJob("completed") = JobFields
      BY <1>0, <2>2, SetJobGoesOn
    <3>3. job'.status = SetJob("completed").status /\ job'.plan = job.plan /\ DOMAIN job' = JobFields
      BY <3>1, <3>2 DEF JobFields
    <3>4. job' # NoJob
      BY <1>0, <3>3
    <3> QED BY <2>1, <2>2, <3>1, <3>2, <3>3, <3>4 DEF JobGoesOn, JobIsThere
  <2>4. CASE ~(VerifySeedingSourceExhausted /\ round.status = "pending")
    <3>1. phase' = phase /\ job' = SetJob("quarantined")
      BY <1>6, <2>4 DEF FinalizeSeeding
    <3> QED BY <1>0, <2>1, <2>2, <3>1, SetJobGoesOn DEF JobGoesOn, JobIsThere
  <2> QED BY <2>3, <2>4
<1> QED BY <1>1, <1>2, <1>3, <1>4, <1>5, <1>6 DEF WorkerStep

LEMMA NextCounts == ASSUME IInv, RInv, SeedingNext PROVE RInv'
<1>1. ASSUME NEW h \in Handlers, HandlerStep(h) PROVE RInv'
  <2>1. UNCHANGED wrk
    BY <1>1 DEF HandlerStep, seedingVars
  <2>2. CASE ProceedCommand(h)
    BY <2>1, <2>2, CreateCounts, CloseCounts, CancelCounts, AnswerCounts, ReserveCounts, ElectCounts,
       FinalizeCounts DEF ProceedCommand
  <2>3. CASE \E c \in Commands : BeginCommand(h, c)
    BY <2>3, BeginCounts
  <2> QED BY <1>1, <2>2, <2>3 DEF HandlerStep
<1>2. ASSUME NEW h \in Handlers, RollbackRequest(h) PROVE RInv'
  BY <1>2, RollbackCounts DEF RollbackRequest
<1>3. ASSUME JobGoesOn PROVE RInv'
  BY <1>3, WorkersCount DEF JobGoesOn
<1>4. ASSUME NEW w \in Workers, WorkerStep(w) PROVE RInv'
  BY <1>3, <1>4, WorkerGoesOn
<1>5. ASSUME NEW w \in Workers, CrashWorker(w) PROVE RInv'
  BY <1>3, <1>5 DEF CrashWorker, JobGoesOn, registrationVars
<1>6. ASSUME NEW w \in Workers, NEW v \in Workers, DeadlockAbort(w, v) PROVE RInv'
  BY <1>3, <1>6 DEF DeadlockAbort, JobGoesOn, registrationVars
<1>7. CASE LeaseExpires
  <2>1. /\ UNCHANGED <<phase, registeredCount, shardCount, registration, outcome, outbox, tx>>
        /\ JobIsThere /\ job.status = "in_progress" /\ job' = [job EXCEPT !.expired = TRUE]
    BY <1>7 DEF LeaseExpires, JobIsThere
  <2>2. IsJob(job)
    BY <2>1, KnownJob
  <2>3. job'.status = "in_progress" /\ job'.plan = job.plan /\ DOMAIN job' = JobFields
    BY <2>1, <2>2 DEF IsJob, JobFields
  <2>4. job' # NoJob /\ "in_progress" \in JobStatuses
    <3>1. DOMAIN NoJob # JobFields
      BY DEF NoJob, JobFields
    <3> QED BY <2>3, <3>1 DEF JobStatuses
  <2>5. JobGoesOn
    BY <2>1, <2>3, <2>4 DEF JobGoesOn, JobIsThere
  <2> QED BY <2>5, <1>3
<1> QED BY <1>1, <1>2, <1>4, <1>5, <1>6, <1>7 DEF SeedingNext

LEMMA InitCounts == SeedingInit => RInv
<1> SUFFICES ASSUME SeedingInit PROVE RInv OBVIOUS
<1>0. Init
  BY DEF SeedingInit
<1>1. \A h \in Handlers : tx[h] = Idle
  BY <1>0 DEF Init
<1>2. StillKnown /\ Elections
  BY <1>1 DEF StillKnown, Elections, Opened, Idle
<1>3. CountsAreRows
  <2> SUFFICES ASSUME NEW s \in Shards
               PROVE  /\ shardCount[s] = Cardinality({p \in Players : registration[p] = s})
                      /\ shardCount[s] <= AllocateRegistrationQuotas[s]
    BY DEF CountsAreRows
  <2>1. {p \in Players : registration[p] = s} = {}
    BY <1>0, RegistrationAssumption DEF Init
  <2>2. shardCount[s] = 0 /\ AllocateRegistrationQuotas[s] \in Nat
    BY <1>0, QuotasAreNumbers DEF Init
  <2> QED BY <2>1, <2>2, FS_EmptySet
<1>4. EmptyAtFirst /\ FullIsClosed
  BY <1>0 DEF Init, EmptyAtFirst, FullIsClosed
<1>5. Announced /\ ForTheRegistered /\ registeredCount \in Nat
  BY <1>0 DEF Init, Announced, ForTheRegistered, Closes
<1>6. Answered
  BY <1>0 DEF Init, Answered
<1> QED BY <1>2, <1>3, <1>4, <1>5, <1>6 DEF RInv

LEMMA StutterCounts == ASSUME IInv, RInv, UNCHANGED vars PROVE RInv'
BY WorkersCount DEF vars, registrationVars

LEMMA CountsAreTrue == ASSUME IInv, RInv PROVE RegistrationSound
<1>1. IsFiniteSet(Registered) /\ RegisteredSum = Cardinality(Registered)
  BY RowsAddUp DEF IInv, RInv
<1>2. job # NoJob => IsJob(job)
  BY KnownJob DEF JobIsThere
<1>3. RegistrationTypeOK
  <2>1. job # NoJob => job.status \in JobStatuses /\ job.next \in 0 .. job.plan.slots
    BY <1>2 DEF IsJob, RInv, ForTheRegistered
  <2>2. \A h \in Handlers : tx[h].shard # Nobody => ~Exclusive(tx[h].cmd)
    BY DEF IInv, TxInv, HoldsItsShard
  <2> QED BY <2>1, <2>2 DEF IInv, Shaped, RInv, RegistrationTypeOK, Phases
<1>4. ClosedIsKickedOff
  <2>1. Closes = {} \/ \E f : Closes = {f}
    BY DEF RInv, Announced
  <2>2. Cardinality(Closes) <= 1
    <3>1. Cardinality({}) = 0 /\ \A f : Cardinality({f}) = 1
      BY FS_EmptySet, FS_Singleton
    <3>2. Cardinality(Closes) = 0 \/ Cardinality(Closes) = 1
      BY <2>1, <3>1
    <3> QED BY <3>2
  <2>3. job # NoJob <=> Closes # {}
    BY DEF RInv, Announced
  <2>4. phase \in {"seeding", "in_progress"} => job # NoJob
    BY DEF RInv, Announced
  <2>5. job # NoJob => /\ job.plan.players = Cardinality(Registered)
                       /\ registeredCount = Cardinality(Registered)
    BY <1>1 DEF RInv, ForTheRegistered
  <2> QED BY <2>2, <2>3, <2>4, <2>5 DEF ClosedIsKickedOff, Closes
<1>5. AllFull => RegisteredSum = Capacity
  <2> SUFFICES ASSUME AllFull PROVE RegisteredSum = Capacity OBVIOUS
  <2>1. ASSUME NEW s \in Shards PROVE shardCount[s] = AllocateRegistrationQuotas[s]
    <3>1. ~(shardCount[s] < AllocateRegistrationQuotas[s]) /\ shardCount[s] <= AllocateRegistrationQuotas[s]
      BY DEF AllFull, HasRoom, RInv, CountsAreRows
    <3>2. shardCount[s] \in Nat /\ AllocateRegistrationQuotas[s] \in Nat
      BY QuotaBound DEF IInv
    <3> QED BY <3>1, <3>2
  <2> QED BY <2>1, FullIsCapacity
<1>6. AnswersAreTrue
  BY <1>1, <1>5 DEF RInv, Answered, AnswersAreTrue
<1> QED BY <1>3, <1>4, <1>6 DEF RInv, RegistrationSound

\* What is counted, closed and answered is what is registered: every shard
\* counts its rows and none is above its quota, the last place closes the
\* registration, the close leaves one job for exactly the players there are,
\* and a player is turned away for capacity only when every place is taken.
THEOREM RegistrationIsSound == SeedingSpec => []RegistrationSound
<1>1. IInv /\ RInv /\ [SeedingNext]_vars => RInv'
  BY NextCounts, StutterCounts
<1>2. SeedingInit => RInv
  BY InitCounts
<1>3. SeedingSpec => []RInv
  BY <1>1, <1>2, Invariance, PTL DEF SeedingSpec
<1>4. IInv /\ RInv => RegistrationSound
  BY CountsAreTrue
<1> QED BY <1>3, <1>4, Invariance, PTL

-----------------------------------------------------------------------------
(* The players of a plan's slots, added up                                 *)

IsPlan(plan) ==
    /\ plan.slots \in Nat \ {0} /\ plan.base \in Nat \ {0}
    /\ plan.remainder \in 0 .. plan.slots - 1

\* How many players the slots before i have together.
Before(plan, i) ==
    plan.base * i + (IF i <= plan.remainder THEN i ELSE plan.remainder)

LEMMA BeforeNext ==
    ASSUME NEW plan, IsPlan(plan), NEW i \in Nat
    PROVE  /\ Before(plan, i) \in Nat /\ SizeForSlot(plan, i) \in Nat \ {0}
           /\ Before(plan, i + 1) = Before(plan, i) + SizeForSlot(plan, i)
<1> DEFINE b == plan.base
           r == plan.remainder
<1>1. b \in Nat \ {0} /\ r \in Nat
  BY DEF IsPlan
<1>2. /\ Before(plan, i) = b * i + (IF i <= r THEN i ELSE r)
      /\ Before(plan, i + 1) = b * (i + 1) + (IF i + 1 <= r THEN i + 1 ELSE r)
      /\ SizeForSlot(plan, i) = b + IF i < r THEN 1 ELSE 0
  BY DEF Before, SizeForSlot
<1> HIDE DEF b, r
<1>3. b * i \in Nat /\ b * (i + 1) = b * i + b
  BY <1>1
<1> QED BY <1>1, <1>2, <1>3

LEMMA BeforeOrdered ==
    ASSUME NEW plan, IsPlan(plan), NEW i \in Nat, NEW j \in Nat, i < j
    PROVE  Before(plan, i) + SizeForSlot(plan, i) <= Before(plan, j)
<1> DEFINE b == plan.base
           r == plan.remainder
<1>1. b \in Nat \ {0} /\ r \in Nat
  BY DEF IsPlan
<1>2. /\ Before(plan, i) = b * i + (IF i <= r THEN i ELSE r)
      /\ Before(plan, j) = b * j + (IF j <= r THEN j ELSE r)
      /\ SizeForSlot(plan, i) = b + IF i < r THEN 1 ELSE 0
  BY DEF Before, SizeForSlot
<1> HIDE DEF b, r
<1>3. b * i \in Nat /\ b * j \in Nat /\ b * i + b <= b * j
  BY <1>1, MultiplesApart
<1> QED BY <1>1, <1>2, <1>3

\* All of them together: the division, with the remainder spread.
LEMMA PlanIsDivision ==
    ASSUME NEW n \in Nat \ {0}
    PROVE  /\ IsPlan(ComputeRoundSlotPlan(n))
           /\ Before(ComputeRoundSlotPlan(n), 0) = 0
           /\ Before(ComputeRoundSlotPlan(n), ComputeRoundSlotPlan(n).slots) = n
<1> DEFINE plan == ComputeRoundSlotPlan(n)
           P == PlayersPerRoom
           s == (n + P - 1) \div P
<1>1. P \in Nat \ {0} /\ FinalThreshold \in Nat \ {0}
  BY RegistrationAssumption
<1>2. CASE n <= FinalThreshold
  <2>1. plan.slots = 1 /\ plan.base = n /\ plan.remainder = 0
    BY <1>2 DEF ComputeRoundSlotPlan
  <2> HIDE DEF plan
  <2> QED BY <2>1 DEF IsPlan, Before, plan
<1>3. CASE ~(n <= FinalThreshold)
  <2>1. plan.slots = s /\ plan.base = n \div s /\ plan.remainder = n % s
    BY <1>3 DEF ComputeRoundSlotPlan
  <2>2. s \in Nat /\ (n + P - 1) % P \in 0 .. P - 1 /\ n + P - 1 = P * s + ((n + P - 1) % P)
    <3> DEFINE k == n + P - 1
    <3>1. k \in Nat
      BY <1>1
    <3> HIDE DEF k, P
    <3>2. k \div P \in Nat /\ k % P \in 0 .. P - 1 /\ k = P * (k \div P) + (k % P)
      BY <1>1, <3>1, Division
    <3> QED BY <3>2 DEF k
  <2> DEFINE rest == (n + P - 1) % P
  <2>3. rest \in 0 .. P - 1 /\ n + P - 1 = P * s + rest
    BY <2>2
  <2> HIDE DEF s, rest, P
  <2>4. s # 0
    <3> SUFFICES ASSUME s = 0 PROVE FALSE OBVIOUS
    <3>1. P * s = 0
      BY <1>1
    <3> QED BY <1>1, <2>3, <3>1
  <2>5. s <= n
    <3> SUFFICES ASSUME n < s PROVE FALSE BY <2>2
    <3>1. P * n \in Nat /\ P * s \in Nat /\ P * n + P <= P * s
      BY <1>1, <2>2, MultiplesApart
    <3>2. n <= P * n
      <4>1. CASE P = 1
        BY <4>1
      <4>2. CASE 1 < P
        <5>1. n * 1 + n <= n * P
          BY <1>1, <4>2, MultiplesApart
        <5>2. n * P = P * n /\ n * 1 = n
          BY <1>1
        <5> QED BY <5>1, <5>2, <3>1
      <4> QED BY <1>1, <4>1, <4>2
    <3> QED BY <1>1, <2>2, <2>3, <3>1, <3>2
  <2> DEFINE b == n \div s
             r == n % s
  <2>6. b \in Nat /\ r \in 0 .. s - 1 /\ n = s * b + r
    BY <2>2, <2>4, Division
  <2> HIDE DEF b, r
  <2>7. b # 0
    <3> SUFFICES ASSUME b = 0 PROVE FALSE OBVIOUS
    <3>1. s * b = 0
      BY <2>2
    <3> QED BY <2>2, <2>5, <2>6, <3>1
  <2>8. plan.slots = s /\ plan.base = b /\ plan.remainder = r
    BY <2>1 DEF b, r
  <2> HIDE DEF plan
  <2>9. IsPlan(plan)
    BY <2>2, <2>4, <2>6, <2>7, <2>8 DEF IsPlan
  <2>10. Before(plan, 0) = 0
    BY <2>6, <2>8 DEF Before
  <2>11. Before(plan, s) = b * s + r
    BY <2>2, <2>4, <2>6, <2>8 DEF Before
  <2>12. b * s = s * b
    BY <2>2, <2>6
  <2> QED BY <2>6, <2>8, <2>9, <2>10, <2>11, <2>12 DEF plan
<1> QED BY <1>2, <1>3

PlacesIn(plan, from, to) == UNION {{i} \X (1 .. SizeForSlot(plan, i)) : i \in from .. to - 1}

LEMMA SlotPlaces ==
    ASSUME NEW i, NEW n \in Nat
    PROVE  IsFiniteSet({i} \X (1 .. n)) /\ Cardinality({i} \X (1 .. n)) = n
<1> DEFINE N == 1 .. n
           T == {i} \X N
           f == [k \in N |-> <<i, k>>]
<1>1. IsFiniteSet(N) /\ Cardinality(N) = n
  BY FS_Interval
<1> HIDE DEF N
<1>2. f \in [N -> T]
  OBVIOUS
<1>3. \A x \in T : x[2] \in N /\ x = <<i, x[2]>>
  OBVIOUS
<1>4. \A x \in T : \E k \in N : f[k] = x
  BY <1>3
<1>5. \A k, l \in N : f[k] = f[l] => k = l
  OBVIOUS
<1> HIDE DEF f, T
<1>6. f \in Bijection(N, T)
  BY <1>2, <1>4, <1>5 DEF Bijection, Injection, Surjection, IsInjective
<1> QED BY <1>1, <1>6, FS_Bijection DEF ExistsBijection, T, N

\* By the least number of slots that would be counted wrongly.
LEMMA PlayersAddUp ==
    ASSUME NEW plan, IsPlan(plan), NEW from \in Nat, NEW to \in Nat, from <= to
    PROVE  /\ IsFiniteSet(PlacesIn(plan, from, to))
           /\ PlayersForSlots(plan, from, to) = Before(plan, to) - Before(plan, from)
<1> DEFINE Right(d) == /\ IsFiniteSet(PlacesIn(plan, from, from + d))
                       /\ Cardinality(PlacesIn(plan, from, from + d)) =
                            Before(plan, from + d) - Before(plan, from)
           n == to - from
           Wrong == {d \in 1 .. n : ~Right(d)}
<1>1. n \in Nat /\ from + n = to
  OBVIOUS
<1>2. Right(0)
  <2>1. from + 0 = from /\ from .. from - 1 = {}
    OBVIOUS
  <2>2. PlacesIn(plan, from, from) = {}
    BY <2>1 DEF PlacesIn
  <2>3. Before(plan, from) \in Nat
    BY BeforeNext
  <2> QED BY <2>1, <2>2, <2>3, FS_EmptySet
<1>3. ASSUME NEW d \in Nat, Right(d) PROVE Right(d + 1)
  <2> DEFINE i == from + d
             A == PlacesIn(plan, from, i)
             B == {i} \X (1 .. SizeForSlot(plan, i))
  <2>1. i \in Nat /\ from + (d + 1) = i + 1
    OBVIOUS
  <2>2. from .. (i + 1) - 1 = (from .. i - 1) \cup {i}
    BY <2>1
  <2>3. PlacesIn(plan, from, i + 1) = A \cup B
    <3> HIDE DEF i
    <3> QED BY <2>2 DEF PlacesIn
  <2>4. SizeForSlot(plan, i) \in Nat
    BY <2>1, BeforeNext
  <2>5. IsFiniteSet(B) /\ Cardinality(B) = SizeForSlot(plan, i)
    BY <2>4, SlotPlaces
  <2>6. IsFiniteSet(A) /\ Cardinality(A) = Before(plan, i) - Before(plan, from)
    BY <1>3
  <2>7. A \cap B = {}
    <3>1. \A x \in A : x[1] \in from .. i - 1
      BY DEF PlacesIn
    <3>2. \A x \in B : x[1] = i
      OBVIOUS
    <3>3. i \notin from .. i - 1
      BY <2>1
    <3> HIDE DEF A, B, i
    <3> QED BY <3>1, <3>2, <3>3
  <2> HIDE DEF A, B, i
  <2>8. IsFiniteSet(A \cup B) /\ Cardinality(A \cup B) = Cardinality(A) + Cardinality(B)
    <3>1. Cardinality(A \cap B) = 0
      BY <2>7, FS_EmptySet
    <3>2. Cardinality(A) \in Nat /\ Cardinality(B) \in Nat
      BY <2>5, <2>6, FS_CardinalityType
    <3>3. IsFiniteSet(A) /\ IsFiniteSet(B)
      BY <2>5, <2>6
    <3>4. /\ IsFiniteSet(A \cup B)
          /\ Cardinality(A \cup B) = Cardinality(A) + Cardinality(B) - Cardinality(A \cap B)
      BY <3>3, FS_Union
    <3> QED BY <3>1, <3>2, <3>4
  <2>9. Before(plan, i + 1) = Before(plan, i) + SizeForSlot(plan, i) /\ Before(plan, i) \in Nat
    BY <2>1, BeforeNext
  <2>10. Before(plan, from) \in Nat
    BY BeforeNext
  <2>11. Cardinality(A \cup B) = Before(plan, i + 1) - Before(plan, from)
    BY <2>4, <2>5, <2>6, <2>8, <2>9, <2>10
  <2> QED BY <2>1, <2>3, <2>8, <2>11
<1> HIDE DEF Right
<1>4. Wrong = {}
  <2> SUFFICES ASSUME Wrong # {} PROVE FALSE OBVIOUS
  <2>1. PICK d \in Wrong : \A e \in Wrong : d <= e
    <3>1. Wrong \in SUBSET (1 .. n)
      OBVIOUS
    <3> HIDE DEF Wrong, n
    <3> QED BY <3>1, <1>1, LeastMember
  <2>2. d - 1 \in Nat /\ d = (d - 1) + 1 /\ d \in 1 .. n /\ ~Right(d)
    BY <1>1
  <2>3. ~Right(d - 1)
    BY <2>2, <1>3
  <2>4. d - 1 # 0
    BY <2>3, <1>2
  <2>5. d - 1 \in Wrong
    BY <1>1, <2>2, <2>3, <2>4
  <2> HIDE DEF Wrong
  <2> QED BY <2>1, <2>2, <2>5
<1>5. Right(n)
  <2>1. CASE n = 0
    BY <1>2, <2>1
  <2>2. CASE n # 0
    BY <1>1, <1>4, <2>2
  <2> QED BY <2>1, <2>2
<1> QED BY <1>1, <1>5 DEF Right, PlayersForSlots, PlacesIn

-----------------------------------------------------------------------------
(* Players in the order of their ids                                       *)

Rank(S, p) == Cardinality({q \in S : q < p})

LEMMA RankIsBijection ==
    ASSUME NEW S, S \subseteq Nat, IsFiniteSet(S)
    PROVE  /\ Cardinality(S) \in Nat
           /\ \A p \in S : Rank(S, p) \in 0 .. Cardinality(S) - 1
           /\ \A p, q \in S : p < q => Rank(S, p) < Rank(S, q)
           /\ \A p, q \in S : Rank(S, p) = Rank(S, q) => p = q
           /\ \A n \in 0 .. Cardinality(S) - 1 : \E p \in S : Rank(S, p) = n
<1> DEFINE below(p) == {q \in S : q < p}
           N == 0 .. Cardinality(S) - 1
           f == [p \in S |-> Rank(S, p)]
<1>1. Cardinality(S) \in Nat
  BY FS_CardinalityType
<1>2. \A p : Rank(S, p) = Cardinality(below(p))
  BY DEF Rank
<1>3. \A p \in S : below(p) \in SUBSET S /\ p \notin below(p)
  OBVIOUS
<1>4. ASSUME NEW p \in S, NEW q \in S, p < q
      PROVE  below(p) \in SUBSET below(q) /\ p \in below(q)
  <2>1. \A x \in S : x \in Nat
    OBVIOUS
  <2>2. \A x \in S : x < p => x < q
    BY <1>4, <2>1
  <2> QED BY <1>4, <2>2
<1> HIDE DEF below
<1>5. \A p \in S : /\ IsFiniteSet(below(p)) /\ Cardinality(below(p)) \in Nat
                   /\ Cardinality(below(p)) < Cardinality(S)
  <2> SUFFICES ASSUME NEW p \in S
               PROVE  /\ IsFiniteSet(below(p)) /\ Cardinality(below(p)) \in Nat
                      /\ Cardinality(below(p)) < Cardinality(S)
    OBVIOUS
  <2>1. /\ IsFiniteSet(below(p)) /\ Cardinality(below(p)) <= Cardinality(S)
        /\ Cardinality(S) = Cardinality(below(p)) => S = below(p)
    BY <1>3, FS_Subset
  <2>2. Cardinality(below(p)) \in Nat
    BY <2>1, FS_CardinalityType
  <2> QED BY <1>1, <1>3, <2>1, <2>2
<1>6. ASSUME NEW p \in S, NEW q \in S, p < q PROVE Cardinality(below(p)) < Cardinality(below(q))
  <2>1. below(p) \in SUBSET below(q) /\ p \in below(q) /\ p \notin below(p)
    BY <1>3, <1>4, <1>6
  <2>2. /\ Cardinality(below(p)) <= Cardinality(below(q))
        /\ Cardinality(below(q)) = Cardinality(below(p)) => below(q) = below(p)
    BY <1>5, <2>1, FS_Subset
  <2> QED BY <1>5, <2>1, <2>2
<1>7. \A p \in S : Rank(S, p) \in N
  BY <1>1, <1>2, <1>5
<1>8. \A p, q \in S : p < q => Rank(S, p) < Rank(S, q)
  BY <1>2, <1>6
<1>9. \A p, q \in S : Rank(S, p) = Rank(S, q) => p = q
  <2>1. \A p \in S : Rank(S, p) \in Nat /\ p \in Nat
    BY <1>2, <1>5
  <2> QED BY <1>8, <2>1
<1>10. f \in Injection(S, N)
  BY <1>7, <1>9 DEF Injection, IsInjective
<1>11. IsFiniteSet(N) /\ Cardinality(N) = Cardinality(S)
  <2>1. 0 \in Int /\ Cardinality(S) - 1 \in Int
    BY <1>1
  <2>2. IsFiniteSet(N) /\ Cardinality(N) = IF 0 > Cardinality(S) - 1 THEN 0 ELSE (Cardinality(S) - 1) - 0 + 1
    BY <2>1, FS_Interval
  <2> QED BY <1>1, <2>2
<1> HIDE DEF N
<1>12. f \in Surjection(S, N)
  BY <1>10, <1>11, FS_Injection
<1>13. \A n \in N : \E p \in S : Rank(S, p) = n
  BY <1>12 DEF Surjection
<1> QED BY <1>1, <1>7, <1>8, <1>9, <1>13 DEF N

Ranked(S, a, b) == {p \in S : Rank(S, p) \in a .. b - 1}

LEMMA RankedCount ==
    ASSUME NEW S, S \subseteq Nat, IsFiniteSet(S), NEW a \in Nat, NEW b \in Nat,
           a <= b, b <= Cardinality(S)
    PROVE  IsFiniteSet(Ranked(S, a, b)) /\ Cardinality(Ranked(S, a, b)) = b - a
<1> DEFINE R == Ranked(S, a, b)
           N == a .. b - 1
           f == [p \in R |-> Rank(S, p)]
<1>1. /\ Cardinality(S) \in Nat
      /\ \A p, q \in S : Rank(S, p) = Rank(S, q) => p = q
      /\ \A n \in 0 .. Cardinality(S) - 1 : \E p \in S : Rank(S, p) = n
  BY RankIsBijection
<1>2. \A p \in R : p \in S /\ Rank(S, p) \in N
  BY DEF Ranked
<1>3. \A p \in S : Rank(S, p) \in N => p \in R
  BY DEF Ranked
<1>4. \A n \in N : n \in 0 .. Cardinality(S) - 1
  BY <1>1
<1>5. IsFiniteSet(N) /\ Cardinality(N) = b - a
  <2>1. a \in Int /\ b - 1 \in Int
    OBVIOUS
  <2>2. IsFiniteSet(N) /\ Cardinality(N) = IF a > b - 1 THEN 0 ELSE (b - 1) - a + 1
    BY <2>1, FS_Interval
  <2> QED BY <2>2
<1> HIDE DEF R, N
<1>6. f \in Injection(R, N)
  BY <1>1, <1>2 DEF Injection, IsInjective
<1>7. f \in Surjection(R, N)
  BY <1>1, <1>2, <1>3, <1>4 DEF Surjection
<1>8. IsFiniteSet(R) /\ (Cardinality(R) = Cardinality(N) <=> f \in Surjection(R, N))
  BY <1>5, <1>6, FS_Injection
<1> QED BY <1>5, <1>7, <1>8 DEF R

\* A chunk deals each of its players to one of its slots.
LEMMA DealtOut ==
    ASSUME NEW plan, IsPlan(plan), NEW from \in Nat, NEW to \in Nat, from <= to,
           NEW S, S \subseteq Nat, IsFiniteSet(S), Cardinality(S) = PlayersForSlots(plan, from, to)
    PROVE  LET chunk == ChunkSlots(plan, from, to, S)
           IN /\ \A i \in from .. to - 1 : /\ Cardinality(chunk[i]) = SizeForSlot(plan, i)
                                           /\ chunk[i] \subseteq S
              /\ \A i, j \in from .. to - 1 : i # j => chunk[i] \cap chunk[j] = {}
              /\ \A p \in S : \E i \in from .. to - 1 : p \in chunk[i]
<1> DEFINE chunk == ChunkSlots(plan, from, to, S)
           U(i) == Before(plan, i) - Before(plan, from)
<1>1. \A i \in Nat : Before(plan, i) \in Nat /\ SizeForSlot(plan, i) \in Nat
                     /\ Before(plan, i + 1) = Before(plan, i) + SizeForSlot(plan, i)
  BY BeforeNext
<1>2. \A i, j \in Nat : i <= j => Before(plan, i) <= Before(plan, j)
  <2> SUFFICES ASSUME NEW i \in Nat, NEW j \in Nat, i <= j
               PROVE  Before(plan, i) <= Before(plan, j)
    OBVIOUS
  <2>1. CASE i = j
    BY <1>1, <2>1
  <2>2. CASE i < j
    BY <1>1, <2>2, BeforeOrdered
  <2> QED BY <2>1, <2>2
<1>3. \A i \in Nat : from <= i => U(i) \in Nat /\ PlayersForSlots(plan, from, i) = U(i)
  <2> SUFFICES ASSUME NEW i \in Nat, from <= i
               PROVE  U(i) \in Nat /\ PlayersForSlots(plan, from, i) = U(i)
    OBVIOUS
  <2>1. PlayersForSlots(plan, from, i) = U(i)
    BY PlayersAddUp
  <2>2. U(i) \in Nat
    <3>1. /\ Before(plan, i) \in Nat /\ Before(plan, from) \in Nat
          /\ Before(plan, from) <= Before(plan, i)
      BY <1>1, <1>2
    <3> QED BY <3>1
  <2> QED BY <2>1, <2>2
<1>4. \A i \in Nat : from <= i => U(i + 1) = U(i) + SizeForSlot(plan, i)
  BY <1>1
<1>5. \A i, j \in Nat : from <= i /\ i <= j => U(i) <= U(j)
  BY <1>1, <1>2
<1>6. U(from) = 0
  BY <1>1
<1>7. Cardinality(S) = U(to)
  BY <1>3
<1> HIDE DEF U
<1>8. \A i \in from .. to - 1 : i \in Nat /\ i + 1 \in Nat /\ from <= i /\ from <= i + 1 /\ i + 1 <= to
  OBVIOUS
<1>9. \A i \in from .. to - 1 : chunk[i] = Ranked(S, U(i), U(i + 1))
  BY <1>3, <1>8 DEF ChunkSlots, Ranked, Rank
<1> HIDE DEF chunk
<1>10. ASSUME NEW i \in from .. to - 1
       PROVE  Cardinality(chunk[i]) = SizeForSlot(plan, i) /\ chunk[i] \subseteq S
  <2>1. /\ U(i) \in Nat /\ U(i + 1) \in Nat /\ U(i + 1) = U(i) + SizeForSlot(plan, i)
        /\ SizeForSlot(plan, i) \in Nat /\ U(i + 1) <= U(to)
    BY <1>1, <1>3, <1>4, <1>5, <1>8
  <2>2. U(i) <= U(i + 1) /\ U(i + 1) <= Cardinality(S)
    BY <1>7, <2>1
  <2>3. Cardinality(Ranked(S, U(i), U(i + 1))) = U(i + 1) - U(i)
    BY <2>1, <2>2, RankedCount
  <2>4. U(i + 1) - U(i) = SizeForSlot(plan, i)
    BY <2>1
  <2>5. Ranked(S, U(i), U(i + 1)) \subseteq S
    BY DEF Ranked
  <2> QED BY <1>9, <2>3, <2>4, <2>5
<1>11. ASSUME NEW i \in from .. to - 1, NEW j \in from .. to - 1, i < j, NEW p \in chunk[i], p \in chunk[j]
       PROVE  FALSE
  <2>1. Rank(S, p) \in U(i) .. U(i + 1) - 1 /\ Rank(S, p) \in U(j) .. U(j + 1) - 1
    BY <1>9, <1>11 DEF Ranked
  <2>2. i + 1 <= j
    BY <1>8, <1>11
  <2>3. U(i + 1) <= U(j) /\ U(i + 1) \in Nat /\ U(j) \in Nat /\ U(i) \in Nat
    BY <1>3, <1>5, <1>8, <2>2
  <2> QED BY <2>1, <2>3
<1>12. ASSUME NEW i \in from .. to - 1, NEW j \in from .. to - 1, i # j PROVE chunk[i] \cap chunk[j] = {}
  <2>1. i < j \/ j < i
    BY <1>8, <1>12
  <2> QED BY <2>1, <1>11
<1>13. ASSUME NEW p \in S PROVE \E i \in from .. to - 1 : p \in chunk[i]
  <2> DEFINE n == to - from
             K == {k \in 1 .. n : Rank(S, p) < U(from + k)}
  <2>1. Rank(S, p) \in 0 .. U(to) - 1 /\ U(to) \in Nat
    BY <1>3, <1>7, RankIsBijection
  <2>2. n \in Nat /\ from + n = to
    OBVIOUS
  <2>3. n # 0
    <3>1. U(to) # 0
      BY <2>1
    <3> QED BY <1>6, <2>2, <3>1
  <2>4. K \in SUBSET (1 .. n) /\ n \in K
    BY <2>1, <2>2, <2>3
  <2>5. PICK k \in K : \A j \in K : k <= j
    <3> HIDE DEF K, n
    <3> QED BY <2>2, <2>4, LeastMember
  <2> DEFINE i == from + (k - 1)
  <2>6. i \in from .. to - 1 /\ i + 1 = from + k /\ k \in 1 .. n /\ Rank(S, p) < U(i + 1)
    BY <2>2
  <2>7. ~(Rank(S, p) < U(i))
    <3>1. CASE k = 1
      <4>1. i = from
        BY <3>1
      <4> QED BY <1>6, <2>1, <4>1
    <3>2. CASE k # 1
      <4>1. k - 1 \in 1 .. n /\ k - 1 < k
        BY <2>2, <2>6, <3>2
      <4> QED BY <2>5, <4>1
    <3> QED BY <3>1, <3>2
  <2>8. U(i) \in Nat /\ U(i + 1) \in Nat
    BY <1>3, <1>8, <2>6
  <2> HIDE DEF i
  <2>9. Rank(S, p) \in U(i) .. U(i + 1) - 1
    BY <2>1, <2>6, <2>7, <2>8
  <2> QED BY <1>9, <2>6, <2>9 DEF Ranked
<1> QED BY <1>10, <1>12, <1>13 DEF chunk

LEMMA GreatestMember ==
    ASSUME NEW S, S \subseteq Nat, IsFiniteSet(S), S # {}
    PROVE  \E m \in S : \A p \in S : m >= p
<1>1. /\ Cardinality(S) \in Nat
      /\ \A p \in S : Rank(S, p) \in 0 .. Cardinality(S) - 1
      /\ \A p, q \in S : p < q => Rank(S, p) < Rank(S, q)
      /\ \A n \in 0 .. Cardinality(S) - 1 : \E p \in S : Rank(S, p) = n
  BY RankIsBijection
<1>2. Cardinality(S) # 0
  BY FS_EmptySet
<1>3. PICK m \in S : Rank(S, m) = Cardinality(S) - 1
  BY <1>1, <1>2
<1>4. \A p \in S : ~(m < p)
  BY <1>1, <1>3
<1> QED BY <1>4

-----------------------------------------------------------------------------
(* What is seeded                                                          *)

TakenBy(n) == {p \in Registered : p <= n}

\* The plan of round 1 is for the players there are.
Planned ==
    job # NoJob => /\ Registered # {}
                   /\ job.plan = ComputeRoundSlotPlan(Cardinality(Registered))

\* The slots hold the first players, up to the cursor.
SlotsFilled ==
    job # NoJob =>
        /\ job.last \in Nat
        /\ \A i \in DOMAIN slots : Cardinality(slots[i]) = SizeForSlot(job.plan, i)
        /\ \A i, j \in DOMAIN slots : i # j => slots[i] \cap slots[j] = {}
        /\ UNION {slots[i] : i \in DOMAIN slots} = TakenBy(job.last)
        /\ Cardinality(TakenBy(job.last)) = Before(job.plan, job.next)

\* Only the end of the last slot completes the job, and the round with it.
JobEnds ==
    /\ job = NoJob => round.status = "none" /\ DOMAIN slots = {}
    /\ job # NoJob =>
         /\ job.status \in {"pending", "in_progress", "completed", "cancelled"}
         /\ job.owner \in Workers <=> job.status = "in_progress"
         /\ IF job.status = "completed"
            THEN /\ job.next = job.plan.slots /\ round.status = "provisioning"
                 /\ batches = ComputeProvisionBatchPlan(job.plan.slots)
            ELSE job.next < job.plan.slots /\ round.status = "pending"
    /\ phase = "in_progress" => job # NoJob /\ job.status = "completed"

SInv == Planned /\ SlotsFilled /\ JobEnds

LEMMA PlanOfJob ==
    ASSUME IInv, RInv, SInv, JobIsThere
    PROVE  /\ IsFiniteSet(Registered) /\ Registered \subseteq Nat \ {0}
           /\ Cardinality(Registered) \in Nat \ {0}
           /\ IsPlan(job.plan) /\ Before(job.plan, 0) = 0
           /\ Before(job.plan, job.plan.slots) = Cardinality(Registered)
<1>1. IsFiniteSet(Registered) /\ Registered \subseteq Nat \ {0}
  BY RegistrationAssumption, FS_Subset DEF Registered
<1>2. Registered # {} /\ job.plan = ComputeRoundSlotPlan(Cardinality(Registered))
  BY DEF SInv, Planned, JobIsThere
<1>3. Cardinality(Registered) \in Nat \ {0}
  BY <1>1, <1>2, FS_CardinalityType, FS_EmptySet
<1> QED BY <1>1, <1>2, <1>3, PlanIsDivision

\* The chunk at the checkpoint: the plan's number of players, the first ones
\* after the cursor.
LEMMA NextChunk ==
    ASSUME IInv, RInv, SInv, JobIsThere, job.status = "in_progress"
    PROVE  LET to == NextSeedingChunkBounds(job.plan, job.next)
           IN /\ to \in Nat /\ job.next < to /\ to <= job.plan.slots
              /\ ChunkPlayers \subseteq Registered
              /\ Cardinality(ChunkPlayers) = PlayersForSlots(job.plan, job.next, to)
              /\ Max(ChunkPlayers) \in Nat
              /\ TakenBy(Max(ChunkPlayers)) = TakenBy(job.last) \cup ChunkPlayers
              /\ TakenBy(job.last) \cap ChunkPlayers = {}
              /\ Cardinality(TakenBy(Max(ChunkPlayers))) = Before(job.plan, to)
<1> DEFINE plan == job.plan
           to == NextSeedingChunkBounds(plan, job.next)
           limit == PlayersForSlots(plan, job.next, to)
           After == {p \in Registered : p > job.last}
           C == ChunkPlayers
<1>1. /\ IsFiniteSet(Registered) /\ Registered \subseteq Nat \ {0}
      /\ Cardinality(Registered) \in Nat \ {0}
      /\ IsPlan(plan) /\ Before(plan, plan.slots) = Cardinality(Registered)
  BY PlanOfJob
<1>2. IsJob(job)
  BY KnownJob
<1>3. /\ job.last \in Nat /\ job.next \in Nat /\ plan.slots \in Nat /\ job.next < plan.slots
      /\ Cardinality(TakenBy(job.last)) = Before(plan, job.next)
  BY <1>2 DEF SInv, SlotsFilled, JobEnds, JobIsThere, IsJob
<1>4. to \in Nat /\ job.next < to /\ to <= plan.slots
  <2> DEFINE a == plan.slots
             b == job.next + SlotsPerChunk
  <2>1. a \in Nat /\ b \in Nat /\ job.next < a /\ job.next < b
    BY <1>3, RoundSeedingAssumption
  <2> HIDE DEF a, b
  <2>2. \E x \in {a, b} : \A y \in {a, b} : x <= y
    BY <2>1
  <2>3. Min({a, b}) \in {a, b} /\ Min({a, b}) <= a
    BY <2>2 DEF Min
  <2> QED BY <2>1, <2>3 DEF NextSeedingChunkBounds, a, b
<1>5. C = {p \in After : Rank(After, p) < limit}
  <2>1. ASSUME NEW p PROVE {q \in Registered : q > job.last /\ q < p} = {q \in After : q < p}
    OBVIOUS
  <2>2. C = {p \in Registered :
               p > job.last /\ Cardinality({q \in Registered : q > job.last /\ q < p}) < limit}
    BY DEF ChunkPlayers, LoadSeedingSourcePlayers
  <2> HIDE DEF limit, C
  <2> QED BY <2>1, <2>2 DEF Rank
<1> HIDE DEF plan, to
<1>6. /\ Before(plan, job.next) \in Nat /\ Before(plan, to) \in Nat
      /\ Before(plan, job.next) < Before(plan, to) /\ Before(plan, to) <= Cardinality(Registered)
  <2>1. /\ Before(plan, job.next) \in Nat /\ Before(plan, to) \in Nat
        /\ SizeForSlot(plan, job.next) \in Nat \ {0} /\ SizeForSlot(plan, to) \in Nat \ {0}
    BY <1>1, <1>3, <1>4, BeforeNext
  <2>2. Before(plan, job.next) + SizeForSlot(plan, job.next) <= Before(plan, to)
    BY <1>1, <1>3, <1>4, BeforeOrdered
  <2>3. Before(plan, to) <= Before(plan, plan.slots)
    <3>1. CASE to = plan.slots
      BY <2>1, <3>1
    <3>2. CASE to < plan.slots
      <4>1. Before(plan, to) + SizeForSlot(plan, to) <= Before(plan, plan.slots)
        BY <1>1, <1>3, <1>4, <3>2, BeforeOrdered
      <4> QED BY <1>1, <2>1, <4>1
    <3> QED BY <1>3, <1>4, <3>1, <3>2
  <2> QED BY <1>1, <2>1, <2>2, <2>3
<1>7. limit = Before(plan, to) - Before(plan, job.next)
  <2>1. job.next <= to
    BY <1>3, <1>4
  <2> QED BY <1>1, <1>3, <1>4, <2>1, PlayersAddUp
<1> HIDE DEF limit
<1>8. limit \in Nat /\ limit # 0
  BY <1>6, <1>7
<1>9. \A p \in Registered : p \in Nat
  BY <1>1
<1>10. /\ IsFiniteSet(After) /\ After \subseteq Nat
       /\ Cardinality(After) = Cardinality(Registered) - Before(plan, job.next)
  <2> DEFINE T == TakenBy(job.last)
  <2>1. T \in SUBSET Registered /\ After \in SUBSET Registered
    BY DEF TakenBy
  <2>2. T \cup After = Registered /\ T \cap After = {}
    BY <1>3, <1>9 DEF TakenBy
  <2> HIDE DEF T, After
  <2>3. IsFiniteSet(T) /\ IsFiniteSet(After)
    BY <1>1, <2>1, FS_Subset
  <2>4. Cardinality(T \cup After) = Cardinality(T) + Cardinality(After) - Cardinality(T \cap After)
    BY <2>3, FS_Union
  <2>5. Cardinality(T \cap After) = 0
    BY <2>2, FS_EmptySet
  <2>6. Cardinality(After) \in Nat
    BY <2>3, FS_CardinalityType
  <2>7. Cardinality(T) = Before(plan, job.next)
    BY <1>3 DEF T
  <2>8. Cardinality(After) = Cardinality(Registered) - Before(plan, job.next)
    <3>1. Cardinality(Registered) = Cardinality(T) + Cardinality(After) - Cardinality(T \cap After)
      BY <2>2, <2>4
    <3>2. Cardinality(Registered) \in Nat
      BY <1>1
    <3> QED BY <1>6, <2>5, <2>6, <2>7, <3>1, <3>2
  <2> QED BY <1>9, <2>1, <2>3, <2>8
<1>11. /\ C \subseteq After /\ IsFiniteSet(C) /\ Cardinality(C) = limit
       /\ \A p \in C : \A q \in After : q < p => q \in C
  <2>1. limit <= Cardinality(After)
    BY <1>1, <1>6, <1>7, <1>10
  <2> HIDE DEF After, C
  <2>2. /\ \A p \in After : Rank(After, p) \in Nat
        /\ \A p, q \in After : p < q => Rank(After, p) < Rank(After, q)
    <3>1. /\ Cardinality(After) \in Nat
          /\ \A p \in After : Rank(After, p) \in 0 .. Cardinality(After) - 1
          /\ \A p, q \in After : p < q => Rank(After, p) < Rank(After, q)
      BY <1>10, RankIsBijection
    <3> QED BY <3>1
  <2>3. C = Ranked(After, 0, limit)
    <3>1. \A p \in After : Rank(After, p) \in 0 .. limit - 1 <=> Rank(After, p) < limit
      BY <1>8, <2>2
    <3> QED BY <1>5, <3>1 DEF Ranked
  <2>4. IsFiniteSet(C) /\ Cardinality(C) = limit - 0
    <3>1. 0 \in Nat /\ 0 <= limit
      BY <1>8
    <3>2. /\ IsFiniteSet(Ranked(After, 0, limit))
          /\ Cardinality(Ranked(After, 0, limit)) = limit - 0
      BY <1>8, <1>10, <2>1, <3>1, RankedCount
    <3> QED BY <2>3, <3>2
  <2>5. \A p \in C : \A q \in After : q < p => q \in C
    <3> SUFFICES ASSUME NEW p \in C, NEW q \in After, q < p PROVE q \in C
      OBVIOUS
    <3>1. p \in After /\ Rank(After, p) < limit /\ Rank(After, q) < Rank(After, p)
      BY <1>5, <2>2
    <3>2. Rank(After, q) < limit
      BY <1>8, <2>2, <3>1
    <3> QED BY <1>5, <3>2
  <2> QED BY <1>5, <1>8, <2>4, <2>5
<1>12. C # {}
  BY <1>8, <1>11, FS_EmptySet
<1>13. Max(C) \in C /\ \A p \in C : p <= Max(C)
  <2>1. C \subseteq Nat
    BY <1>10, <1>11
  <2>2. \E m \in C : \A p \in C : m >= p
    BY <1>11, <1>12, <2>1, GreatestMember
  <2>3. Max(C) \in C /\ \A p \in C : Max(C) >= p
    <3> HIDE DEF C
    <3> QED BY <2>2 DEF Max
  <2> HIDE DEF C
  <2> QED BY <2>1, <2>3
<1>14. C \subseteq Registered /\ Max(C) \in Nat
  BY <1>9, <1>11, <1>13
<1>15. TakenBy(Max(C)) = TakenBy(job.last) \cup C
  <2> DEFINE m == Max(C)
  <2>1. m \in Nat /\ m > job.last /\ m \in C /\ \A p \in C : p <= m
    BY <1>11, <1>13, <1>14
  <2>2. \A p \in C : p \in Registered /\ p > job.last
    BY <1>11
  <2>3. \A p \in Registered : p > job.last /\ p < m => p \in C
    BY <1>11, <2>1
  <2> HIDE DEF m, C
  <2>4. ASSUME NEW p \in TakenBy(m) PROVE p \in TakenBy(job.last) \cup C
    <3>1. p \in Registered /\ p \in Nat /\ p <= m
      BY <1>9, <2>4 DEF TakenBy
    <3>2. p <= job.last \/ p = m \/ (p > job.last /\ p < m)
      BY <1>3, <2>1, <3>1
    <3> QED BY <2>1, <2>3, <3>1, <3>2 DEF TakenBy
  <2>5. ASSUME NEW p \in TakenBy(job.last) PROVE p \in TakenBy(m)
    <3>1. p \in Registered /\ p \in Nat /\ p <= job.last
      BY <1>9, <2>5 DEF TakenBy
    <3>2. p <= m
      BY <1>3, <2>1, <3>1
    <3> QED BY <3>1, <3>2 DEF TakenBy
  <2>6. ASSUME NEW p \in C PROVE p \in TakenBy(m)
    BY <2>1, <2>2, <2>6 DEF TakenBy
  <2> QED BY <2>4, <2>5, <2>6 DEF m
<1>16. TakenBy(job.last) \cap C = {}
  BY <1>3, <1>9, <1>11 DEF TakenBy
<1>17. Cardinality(TakenBy(Max(C))) = Before(plan, to)
  <2> DEFINE T == TakenBy(job.last)
  <2>1. T \in SUBSET Registered
    BY DEF TakenBy
  <2> HIDE DEF T, C
  <2>2. IsFiniteSet(T) /\ Cardinality(T) = Before(plan, job.next)
    BY <1>1, <1>3, <2>1, FS_Subset DEF T
  <2>3. Cardinality(T \cup C) = Cardinality(T) + Cardinality(C) - Cardinality(T \cap C)
    BY <1>11, <2>2, FS_Union
  <2>4. Cardinality(T \cap C) = 0
    BY <1>16, FS_EmptySet DEF T
  <2> QED BY <1>6, <1>7, <1>11, <1>15, <2>2, <2>3, <2>4 DEF T
<1> QED BY <1>4, <1>11, <1>14, <1>15, <1>16, <1>17 DEF to, plan, limit

\* What a chunk counts is what the plan says: no drift.
LEMMA ChunkIsWhole ==
    ASSUME IInv, RInv, SInv, NEW w \in Workers, JobIsThere
    PROVE  ChunkVerdict(w) # "quarantined"
<1> DEFINE to == NextSeedingChunkBounds(job.plan, job.next)
<1> SUFFICES ASSUME Fenced(w) PROVE ChunkVerdict(w) # "quarantined"
  BY DEF ChunkVerdict
<1>1. job.status = "in_progress" /\ IsJob(job)
  BY KnownJob DEF Fenced
<1>2. phase \in {"seeding", "in_progress"} \cup Terminal
  BY DEF IInv, Shaped, Phases, JobInv, NotBeforeTheClose
<1>3. Cardinality(ChunkPlayers) = PlayersForSlots(job.plan, job.next, to)
  BY <1>1, NextChunk
<1>4. ~\E i \in DOMAIN slots : i \in job.next .. to - 1
  <2>1. DOMAIN slots = 0 .. job.next - 1 /\ job.next \in Nat
    BY <1>1 DEF IInv, JobInv, SlotsToCheckpoint, IsJob
  <2>2. to \in Nat
    BY <1>1, NextChunk
  <2> QED BY <2>1, <2>2
<1> HIDE DEF to
<1>5. /\ ~(phase \notin {"seeding", "in_progress"} \cup Terminal)
      /\ phase \in Terminal \/ phase \notin Terminal
  BY <1>2
<1>6. CASE phase \in Terminal
  BY <1>6 DEF ChunkVerdict
<1>7. CASE phase \notin Terminal
  BY <1>2, <1>3, <1>4, <1>7 DEF ChunkVerdict, to
<1> QED BY <1>6, <1>7

\* The slots of a chunk beside those before it.
LEMMA SlotsStayFilled ==
    ASSUME IInv, RInv, SInv, NEW w \in Workers, wrk[w].pc = "chunk", WriteSlots,
           UNCHANGED registration, job'.plan = job.plan,
           job'.next = NextSeedingChunkBounds(job.plan, job.next), job'.last = Max(ChunkPlayers)
    PROVE  Planned' /\ SlotsFilled'
<1> DEFINE plan == job.plan
           to == NextSeedingChunkBounds(job.plan, job.next)
           C == ChunkPlayers
           chunk == ChunkSlots(job.plan, job.next, to, C)
           T == TakenBy(job.last)
<1>1. JobIsThere /\ IsJob(job) /\ DOMAIN slots = 0 .. job.next - 1
  BY AtChunk
<1>2. job.status = "in_progress"
  BY DEF IInv, JobInv, ChunkFenced
<1>3. /\ to \in Nat /\ job.next < to /\ to <= plan.slots
      /\ C \subseteq Registered
      /\ Cardinality(C) = PlayersForSlots(plan, job.next, to)
      /\ Max(C) \in Nat
      /\ TakenBy(Max(C)) = T \cup C
      /\ T \cap C = {}
      /\ Cardinality(TakenBy(Max(C))) = Before(plan, to)
  BY <1>1, <1>2, NextChunk
<1>4. IsPlan(plan) /\ IsFiniteSet(C) /\ C \subseteq Nat /\ job.next \in Nat
  <2>1. IsPlan(plan) /\ IsFiniteSet(Registered) /\ Registered \subseteq Nat \ {0}
    BY <1>1, PlanOfJob
  <2>2. IsFiniteSet(C)
    BY <1>3, <2>1, FS_Subset
  <2> QED BY <1>1, <1>3, <2>1, <2>2 DEF IsJob
<1>5. /\ \A i \in DOMAIN slots : Cardinality(slots[i]) = SizeForSlot(plan, i)
      /\ \A i, j \in DOMAIN slots : i # j => slots[i] \cap slots[j] = {}
      /\ UNION {slots[i] : i \in DOMAIN slots} = T
  BY <1>1 DEF SInv, SlotsFilled, JobIsThere
<1>6. slots' = [i \in 0 .. to - 1 |-> IF i < job.next THEN slots[i] ELSE chunk[i]]
  BY DEF WriteSlots
<1> HIDE DEF plan, to, C, chunk, T
<1>7. /\ \A i \in job.next .. to - 1 : Cardinality(chunk[i]) = SizeForSlot(plan, i) /\ chunk[i] \subseteq C
      /\ \A i, j \in job.next .. to - 1 : i # j => chunk[i] \cap chunk[j] = {}
      /\ \A p \in C : \E i \in job.next .. to - 1 : p \in chunk[i]
  <2>1. job.next <= to
    BY <1>3, <1>4
  <2> DEFINE dealt == ChunkSlots(plan, job.next, to, C)
  <2>2. /\ \A i \in job.next .. to - 1 : Cardinality(dealt[i]) = SizeForSlot(plan, i) /\ dealt[i] \subseteq C
        /\ \A i, j \in job.next .. to - 1 : i # j => dealt[i] \cap dealt[j] = {}
        /\ \A p \in C : \E i \in job.next .. to - 1 : p \in dealt[i]
    BY <1>3, <1>4, <2>1, DealtOut
  <2>3. dealt = chunk
    BY DEF chunk, plan
  <2> HIDE DEF dealt
  <2> QED BY <2>2, <2>3
<1>8. /\ DOMAIN slots' = 0 .. to - 1
      /\ \A i \in DOMAIN slots : i \in 0 .. to - 1 /\ slots'[i] = slots[i]
      /\ \A i \in job.next .. to - 1 : i \in 0 .. to - 1 /\ slots'[i] = chunk[i]
      /\ \A i \in 0 .. to - 1 : i \in DOMAIN slots \/ i \in job.next .. to - 1
  BY <1>1, <1>3, <1>4, <1>6
<1>9. \A i \in DOMAIN slots : slots[i] \subseteq T
  BY <1>5
<1>10. ASSUME NEW i \in 0 .. to - 1 PROVE Cardinality(slots'[i]) = SizeForSlot(plan, i)
  BY <1>5, <1>7, <1>8
<1>11. ASSUME NEW i \in 0 .. to - 1, NEW j \in 0 .. to - 1, i # j PROVE slots'[i] \cap slots'[j] = {}
  <2>1. CASE i \in DOMAIN slots /\ j \in DOMAIN slots
    BY <1>5, <1>8, <1>11, <2>1
  <2>2. CASE i \in job.next .. to - 1 /\ j \in job.next .. to - 1
    BY <1>7, <1>8, <1>11, <2>2
  <2>3. CASE i \in DOMAIN slots /\ j \in job.next .. to - 1
    <3>1. slots'[i] \subseteq T /\ slots'[j] \subseteq C
      BY <1>7, <1>8, <1>9, <2>3
    <3> QED BY <1>3, <3>1
  <2>4. CASE i \in job.next .. to - 1 /\ j \in DOMAIN slots
    <3>1. slots'[i] \subseteq C /\ slots'[j] \subseteq T
      BY <1>7, <1>8, <1>9, <2>4
    <3> QED BY <1>3, <3>1
  <2> QED BY <1>8, <2>1, <2>2, <2>3, <2>4
<1>12. UNION {slots'[i] : i \in 0 .. to - 1} = T \cup C
  <2>1. ASSUME NEW i \in 0 .. to - 1 PROVE slots'[i] \subseteq T \cup C
    BY <1>7, <1>8, <1>9
  <2>2. ASSUME NEW p \in T PROVE \E i \in 0 .. to - 1 : p \in slots'[i]
    <3>1. PICK i \in DOMAIN slots : p \in slots[i]
      BY <1>5
    <3> QED BY <1>8, <3>1
  <2>3. ASSUME NEW p \in C PROVE \E i \in 0 .. to - 1 : p \in slots'[i]
    BY <1>7, <1>8
  <2> QED BY <2>1, <2>2, <2>3
<1>13. Registered' = Registered
  BY DEF Registered
<1>14. Planned'
  BY <1>1, <1>13 DEF SInv, Planned, JobIsThere
<1>15. TakenBy(job.last)' = T \cup C
  BY <1>3, <1>13 DEF TakenBy, C
<1>16. job'.plan = plan /\ job'.next = to /\ job'.last = Max(C)
  BY DEF plan, to, C
<1>17. SlotsFilled'
  <2> SUFFICES /\ job'.last \in Nat
               /\ \A i \in DOMAIN slots' : Cardinality(slots'[i]) = SizeForSlot(job'.plan, i)
               /\ \A i, j \in DOMAIN slots' : i # j => slots'[i] \cap slots'[j] = {}
               /\ UNION {slots'[i] : i \in DOMAIN slots'} = TakenBy(job.last)'
               /\ Cardinality(TakenBy(job.last)') = Before(job'.plan, job'.next)
    BY DEF SlotsFilled, SizeForSlot, Before
  <2>1. job'.last \in Nat
    BY <1>3, <1>16
  <2>2. \A i \in DOMAIN slots' : Cardinality(slots'[i]) = SizeForSlot(job'.plan, i)
    BY <1>8, <1>10, <1>16
  <2>3. \A i, j \in DOMAIN slots' : i # j => slots'[i] \cap slots'[j] = {}
    BY <1>8, <1>11
  <2>4. UNION {slots'[i] : i \in DOMAIN slots'} = TakenBy(job.last)'
    BY <1>8, <1>12, <1>15
  <2>5. Cardinality(TakenBy(job.last)') = Before(job'.plan, job'.next)
    BY <1>3, <1>15, <1>16
  <2> QED BY <2>1, <2>2, <2>3, <2>4, <2>5
<1> QED BY <1>14, <1>17

-----------------------------------------------------------------------------
(* What requests do to the seeding: they leave a job                       *)

LEMMA SeedingRests ==
    ASSUME SInv, UNCHANGED <<job, round, slots, batches>>,
           job # NoJob => registration' = registration,
           phase' = phase \/ phase' # "in_progress"
    PROVE  SInv'
<1>1. job # NoJob => Registered' = Registered
  BY DEF Registered
<1>2. Planned'
  BY <1>1 DEF SInv, Planned
<1>3. SlotsFilled'
  <2>1. job # NoJob => TakenBy(job.last)' = TakenBy(job.last)
    BY <1>1 DEF TakenBy
  <2> QED BY <2>1 DEF SInv, SlotsFilled, SizeForSlot, Before
<1>4. JobEnds'
  BY DEF SInv, JobEnds
<1> QED BY <1>2, <1>3, <1>4 DEF SInv

LEMMA CountedLater ==
    (IInv /\ RInv)' => (job # NoJob => /\ job.plan.players = Cardinality(Registered)
                                       /\ IsFiniteSet(Registered))'
<1>1. IInv /\ RInv => (job # NoJob => /\ job.plan.players = Cardinality(Registered)
                                      /\ IsFiniteSet(Registered))
  <2>1. IsFiniteSet(Registered)
    BY RegistrationAssumption, FS_Subset DEF Registered
  <2> QED BY <2>1, CountsAreTrue DEF RegistrationSound, ClosedIsKickedOff
<1> QED BY <1>1, PTL

LEMMA JobIsMade ==
    ASSUME IInv', RInv', job = NoJob, NEW n \in Nat \ {0}, InsertPendingRoundAndJob(n),
           phase' # "in_progress"
    PROVE  SInv'
<1> DEFINE plan == ComputeRoundSlotPlan(n)
<1>1. /\ job' = [status |-> "pending", plan |-> plan, next |-> 0, last |-> 0,
                 owner |-> Nobody, version |-> 0, expired |-> FALSE]
      /\ round'.status = "pending"
  BY DEF InsertPendingRoundAndJob
<1>2. plan.players = n
  BY DEF ComputeRoundSlotPlan
<1>3. IsPlan(plan) /\ Before(plan, 0) = 0
  BY PlanIsDivision
<1> HIDE DEF plan
<1>4. /\ job'.status = "pending" /\ job'.plan = plan /\ job'.next = 0 /\ job'.last = 0
      /\ job'.owner = Nobody /\ DOMAIN job' # DOMAIN NoJob
  BY <1>1 DEF NoJob
<1>5. job' # NoJob
  BY <1>4
<1>6. Cardinality(Registered') = n /\ IsFiniteSet(Registered')
  BY <1>2, <1>4, <1>5, CountedLater
<1>7. Planned'
  <2>1. Registered' # {}
    BY <1>6, FS_EmptySet
  <2> QED BY <1>4, <1>6, <2>1 DEF Planned, plan, ComputeRoundSlotPlan
<1>8. DOMAIN slots' = {}
  <2>1. DOMAIN slots' = 0 .. job'.next - 1
    BY <1>4, <1>5 DEF IInv, JobInv, SlotsToCheckpoint, JobIsThere
  <2> QED BY <1>4, <2>1
<1>9. TakenBy(job.last)' = {}
  <2>1. \A p \in Registered' : p \in Nat /\ p # 0
    BY RegistrationAssumption DEF Registered
  <2>2. \A p \in Registered' : ~(p <= 0)
    BY <2>1
  <2> QED BY <1>4, <2>2 DEF TakenBy
<1>10. SlotsFilled'
  <2>1. Cardinality(TakenBy(job.last)') = Before(job'.plan, job'.next)
    BY <1>3, <1>4, <1>9, FS_EmptySet
  <2>2. UNION {slots'[i] : i \in DOMAIN slots'} = {}
    BY <1>8
  <2> QED BY <1>4, <1>8, <1>9, <2>1, <2>2 DEF SlotsFilled, SizeForSlot, Before
<1>11. JobEnds'
  <2>1. job'.next < job'.plan.slots
    BY <1>3, <1>4 DEF IsPlan
  <2> QED BY <1>1, <1>4, <1>5, <2>1, RoundSeedingAssumption DEF JobEnds
<1> QED BY <1>7, <1>10, <1>11 DEF SInv

LEMMA RequestsSeed ==
    ASSUME IInv, RInv, SInv, IInv', RInv', SeedingNext, NEW h \in Handlers,
           HandlerStep(h) \/ RollbackRequest(h)
    PROVE  SInv'
<1>1. UNCHANGED <<slots, batches>>
  BY DEF HandlerStep, RollbackRequest, seedingVars
<1>2. job # NoJob => registration' = registration
  <2> SUFFICES ASSUME job # NoJob PROVE registration' = registration
    OBVIOUS
  <2>1. phase # "registration"
    BY DEF IInv, JobInv, NotBeforeTheClose, JobIsThere
  <2>2. \A p \in Players : registration'[p] = registration[p]
    BY <2>1, NextHolds DEF Stands
  <2> QED BY <2>2 DEF IInv, Shaped
<1>3. ASSUME UNCHANGED <<job, round>>, phase' = phase \/ phase' # "in_progress" PROVE SInv'
  BY <1>1, <1>2, <1>3, SeedingRests
<1>4. ASSUME NEW n \in Nat \ {0}, InsertPendingRoundAndJob(n), phase' # "in_progress" PROVE SInv'
  <2>1. CASE job = NoJob
    BY <1>4, <2>1, JobIsMade
  <2>2. CASE job # NoJob
    <3>1. UNCHANGED <<job, round>>
      BY <1>4, <2>2 DEF InsertPendingRoundAndJob
    <3> QED BY <1>3, <1>4, <3>1
  <2> QED BY <2>1, <2>2
<1>5. CASE CommitCreate(h) \/ CommitCancel(h)
  <2>1. UNCHANGED <<job, round>> /\ (phase' = phase \/ phase' # "in_progress")
    BY <1>5 DEF CommitCreate, CommitCancel
  <2> QED BY <1>3, <2>1
<1>6. CASE CommitClose(h)
  <2> DEFINE a == DecideCloseRegistration(tx[h])
  <2>1. CASE a = "close"
    <3>1. phase' = "seeding" /\ InsertPendingRoundAndJob(RegisteredSum)
      BY <1>6, <2>1 DEF CommitClose
    <3>2. RegisteredSum # 0
      BY <2>1 DEF DecideCloseRegistration
    <3>3. RegisteredSum \in Nat \ {0}
      BY <3>2, SumIsANumber DEF IInv
    <3> QED BY <1>4, <3>1, <3>3
  <2>2. CASE a # "close"
    BY <1>3, <1>6, <2>2 DEF CommitClose
  <2> QED BY <2>1, <2>2
<1>7. CASE AnswerRegister(h) \/ ReserveRegistration(h) \/ ElectCloser(h)
  <2>1. UNCHANGED <<job, round, phase>>
    BY <1>7 DEF AnswerRegister, ReserveRegistration, ElectCloser
  <2> QED BY <1>3, <2>1
<1>8. CASE FinalizeRegister(h)
  <2>1. CASE tx[h].closes
    <3>1. phase' = "seeding" /\ InsertPendingRoundAndJob(Capacity)
      BY <1>8, <2>1 DEF FinalizeRegister
    <3> QED BY <1>4, <3>1, RegistrationAssumption
  <2>2. CASE ~tx[h].closes
    BY <1>3, <1>8, <2>2 DEF FinalizeRegister
  <2> QED BY <2>1, <2>2
<1>9. CASE Rollback(h) \/ \E c \in Commands : BeginCommand(h, c)
  <2>1. UNCHANGED <<job, round, phase>>
    BY <1>9 DEF Rollback, BeginCommand, BeginCreateTournament, BeginRegisterPlayer,
       BeginCloseRegistration, BeginCancelTournament, Begin
  <2> QED BY <1>3, <2>1
<1> QED BY <1>5, <1>6, <1>7, <1>8, <1>9 DEF HandlerStep, RollbackRequest, ProceedCommand

-----------------------------------------------------------------------------
(* What the workers do: they fill the slots in order                       *)

\* The job's row goes to a worker, back or to its end, with its slots as they are.
LEMMA JobRowTurns ==
    ASSUME SInv, UNCHANGED <<phase, registration, round, slots, batches>>,
           job # NoJob, job' # NoJob, job.status \in {"pending", "in_progress"},
           job'.status \in {"pending", "in_progress", "cancelled"},
           job'.owner \in Workers <=> job'.status = "in_progress",
           job'.plan = job.plan, job'.next = job.next, job'.last = job.last
    PROVE  SInv'
<1>1. Registered' = Registered
  BY DEF Registered
<1>2. Planned'
  BY <1>1 DEF SInv, Planned
<1>3. SlotsFilled'
  <2>1. TakenBy(job.last)' = TakenBy(job.last)
    BY <1>1 DEF TakenBy
  <2> QED BY <2>1 DEF SInv, SlotsFilled, SizeForSlot, Before
<1>4. JobEnds'
  BY DEF SInv, JobEnds
<1> QED BY <1>2, <1>3, <1>4 DEF SInv

LEMMA SetJobRow ==
    ASSUME IInv, job # NoJob, NEW status
    PROVE  /\ SetJob(status).status = status /\ SetJob(status).owner = Nobody
           /\ SetJob(status).plan = job.plan /\ SetJob(status).next = job.next
           /\ SetJob(status).last = job.last /\ DOMAIN SetJob(status) = JobFields
           /\ SetJob(status) # NoJob
<1>1. DOMAIN job = JobFields
  BY KnownJob DEF JobIsThere, IsJob
<1>2. DOMAIN SetJob(status) = JobFields
  BY <1>1 DEF SetJob
<1>3. DOMAIN NoJob # JobFields
  BY DEF NoJob, JobFields
<1> QED BY <1>1, <1>2, <1>3 DEF SetJob, JobFields

LEMMA RowsSeed ==
    ASSUME IInv, RInv, SInv, NEW w \in Workers,
           ReapExpiredSeedingLeases(w) \/ ReapJobRow(w) \/ ClaimNextSeedingJob(w) \/ BeginChunk(w)
    PROVE  SInv'
<1>1. UNCHANGED <<phase, registration, round, slots, batches>>
  BY DEF ReapExpiredSeedingLeases, ReapJobRow, ClaimNextSeedingJob, BeginChunk, registrationVars
<1>2. ASSUME UNCHANGED job PROVE SInv'
  BY <1>1, <1>2, SeedingRests
<1>3. ASSUME NEW status \in {"pending", "cancelled"}, job # NoJob,
             job.status \in {"pending", "in_progress"}, job' = SetJob(status)
      PROVE  SInv'
  <2>1. /\ job'.status = status /\ job'.owner = Nobody /\ job'.plan = job.plan
        /\ job'.next = job.next /\ job'.last = job.last /\ job' # NoJob
    BY <1>3, SetJobRow
  <2>2. job'.owner \in Workers <=> job'.status = "in_progress"
    BY <2>1, RoundSeedingAssumption
  <2>3. job'.status \in {"pending", "in_progress", "cancelled"}
    BY <2>1
  <2> QED BY <1>1, <1>3, <2>1, <2>2, <2>3, JobRowTurns
<1>4. CASE ReapExpiredSeedingLeases(w)
  BY <1>2, <1>4 DEF ReapExpiredSeedingLeases, registrationVars
<1>5. CASE ReapJobRow(w)
  <2>1. CASE Expired
    <3>1. job' = SetJob("pending") /\ job # NoJob /\ job.status = "in_progress"
      BY <1>5, <2>1 DEF ReapJobRow, Expired
    <3> QED BY <1>3, <3>1
  <2>2. CASE ~Expired
    BY <1>2, <1>5, <2>2 DEF ReapJobRow
  <2> QED BY <2>1, <2>2
<1>6. CASE ClaimNextSeedingJob(w)
  <2>1. job # NoJob /\ job.status \in {"pending", "in_progress"}
    BY <1>6 DEF ClaimNextSeedingJob, ActiveJob
  <2>2. CASE Claimable
    <3>1. job' = [job EXCEPT !.status = "in_progress", !.owner = w, !.version = @ + 1, !.expired = FALSE]
      BY <1>6, <2>2 DEF ClaimNextSeedingJob
    <3>2. DOMAIN job = JobFields /\ DOMAIN NoJob # JobFields
      BY <2>1, KnownJob DEF JobIsThere, IsJob, NoJob, JobFields
    <3>3. /\ job'.status = "in_progress" /\ job'.owner = w /\ job'.plan = job.plan
          /\ job'.next = job.next /\ job'.last = job.last /\ DOMAIN job' = JobFields
      BY <3>1, <3>2 DEF JobFields
    <3>4. job' # NoJob /\ job'.status \in {"pending", "in_progress", "cancelled"}
      BY <3>2, <3>3
    <3> QED BY <1>1, <2>1, <3>3, <3>4, JobRowTurns
  <2>3. CASE ~Claimable
    <3>1. job' = job \/ job' = SetJob("cancelled")
      BY <1>6, <2>3 DEF ClaimNextSeedingJob, CancelTerminalSeedingJobs
    <3> QED BY <1>2, <1>3, <2>1, <3>1
  <2> QED BY <2>2, <2>3
<1>7. CASE BeginChunk(w)
  <2>1. JobIsThere
    BY <1>7 DEF BeginChunk, IInv, JobInv, ClaimsHaveJob
  <2>2. ChunkVerdict(w) # "quarantined"
    BY <2>1, ChunkIsWhole
  <2>3. CASE ChunkVerdict(w) = "cancelled"
    <3>1. job' = SetJob("cancelled")
      BY <1>7, <2>3 DEF BeginChunk
    <3>2. job.status = "in_progress"
      BY <2>3, VerdictIs DEF Fenced
    <3> QED BY <1>3, <2>1, <3>1, <3>2 DEF JobIsThere
  <2>4. CASE ChunkVerdict(w) # "cancelled"
    <3>1. job' = job
      BY <1>7, <2>2, <2>4 DEF BeginChunk
    <3> QED BY <1>2, <3>1
  <2> QED BY <2>3, <2>4
<1> QED BY <1>4, <1>5, <1>6, <1>7

LEMMA CommitChunkSeeds ==
    ASSUME IInv, RInv, SInv, NEW w \in Workers, CommitChunk(w) PROVE SInv'
<1> DEFINE to == NextSeedingChunkBounds(job.plan, job.next)
           m == Max(ChunkPlayers)
<1>1. /\ wrk[w].pc = "chunk" /\ WriteSlots /\ ~LastChunk
      /\ UNCHANGED <<phase, registration, round, batches>>
      /\ job' = [SetJob("pending") EXCEPT !.next = to, !.last = m]
  BY DEF CommitChunk
<1>2. JobIsThere /\ job # NoJob
  BY <1>1, AtChunk DEF JobIsThere
<1>3. job.status = "in_progress"
  BY <1>1 DEF IInv, JobInv, ChunkFenced
<1>4. to \in Nat /\ to <= job.plan.slots /\ to # job.plan.slots
  BY <1>1, <1>2, <1>3, NextChunk DEF LastChunk
<1> HIDE DEF to, m
<1>5. /\ job'.status = "pending" /\ job'.owner = Nobody /\ job'.plan = job.plan
      /\ job'.next = to /\ job'.last = m /\ DOMAIN job' = JobFields
  <2>1. /\ DOMAIN SetJob("pending") = JobFields /\ SetJob("pending").status = "pending"
        /\ SetJob("pending").owner = Nobody /\ SetJob("pending").plan = job.plan
    BY <1>2, SetJobRow
  <2> QED BY <1>1, <2>1 DEF JobFields
<1>6. job' # NoJob
  BY <1>5 DEF NoJob, JobFields
<1>7. Planned' /\ SlotsFilled'
  BY <1>1, <1>5, SlotsStayFilled DEF to, m
<1>8. JobEnds'
  <2>1. job.plan.slots \in Nat
    BY <1>2, KnownJob DEF IsJob
  <2>2. job'.next < job'.plan.slots
    BY <1>4, <1>5, <2>1
  <2>3. Nobody \notin Workers
    BY RoundSeedingAssumption
  <2>4. round.status = "pending" /\ phase # "in_progress"
    BY <1>2, <1>3 DEF SInv, JobEnds
  <2> QED BY <1>1, <1>5, <1>6, <2>2, <2>3, <2>4 DEF JobEnds
<1> QED BY <1>7, <1>8 DEF SInv

\* After the last slot nobody is left over.
LEMMA NobodyIsLeft ==
    ASSUME IInv, RInv, SInv, JobIsThere, job.status = "in_progress", LastChunk
    PROVE  VerifySeedingSourceExhausted
<1> DEFINE m == Max(ChunkPlayers)
<1>1. /\ NextSeedingChunkBounds(job.plan, job.next) = job.plan.slots
      /\ m \in Nat
      /\ Cardinality(TakenBy(m)) = Before(job.plan, job.plan.slots)
  BY NextChunk DEF LastChunk
<1>2. IsFiniteSet(Registered) /\ Before(job.plan, job.plan.slots) = Cardinality(Registered)
  BY PlanOfJob
<1> HIDE DEF m
<1>3. TakenBy(m) = Registered
  <2>1. TakenBy(m) \in SUBSET Registered
    BY DEF TakenBy
  <2>2. Cardinality(Registered) = Cardinality(TakenBy(m))
    BY <1>1, <1>2
  <2> QED BY <1>2, <2>1, <2>2, FS_Subset
<1>4. \A p \in Registered : p <= m
  BY <1>3 DEF TakenBy
<1>5. RegisteredSum = job.plan.players
  BY DEF RInv, ForTheRegistered, JobIsThere
<1> QED BY <1>4, <1>5 DEF VerifySeedingSourceExhausted, m

LEMMA FinalizeSeeds ==
    ASSUME IInv, RInv, SInv, NEW w \in Workers, FinalizeSeeding(w) PROVE SInv'
<1> DEFINE m == Max(ChunkPlayers)
<1>1. /\ wrk[w].pc = "chunk" /\ WriteSlots /\ LastChunk /\ UNCHANGED registration
  BY DEF FinalizeSeeding
<1>2. JobIsThere /\ job # NoJob
  BY <1>1, AtChunk DEF JobIsThere
<1>3. job.status = "in_progress"
  BY <1>1 DEF IInv, JobInv, ChunkFenced
<1>4. VerifySeedingSourceExhausted /\ round.status = "pending"
  BY <1>1, <1>2, <1>3, NobodyIsLeft DEF SInv, JobEnds
<1>5. /\ job' = [SetJob("completed") EXCEPT !.next = job.plan.slots, !.last = m]
      /\ round'.status = "provisioning"
      /\ batches' = ComputeProvisionBatchPlan(job.plan.slots)
  BY <1>4 DEF FinalizeSeeding
<1> HIDE DEF m
<1>6. /\ job'.status = "completed" /\ job'.owner = Nobody /\ job'.plan = job.plan
      /\ job'.next = job.plan.slots /\ job'.last = m /\ DOMAIN job' = JobFields
  <2>1. /\ DOMAIN SetJob("completed") = JobFields /\ SetJob("completed").status = "completed"
        /\ SetJob("completed").owner = Nobody /\ SetJob("completed").plan = job.plan
    BY <1>2, SetJobRow
  <2> QED BY <1>5, <2>1 DEF JobFields
<1>7. job' # NoJob
  BY <1>6 DEF NoJob, JobFields
<1>8. Planned' /\ SlotsFilled'
  <2>1. job'.next = NextSeedingChunkBounds(job.plan, job.next)
    BY <1>1, <1>6 DEF LastChunk
  <2> QED BY <1>1, <1>6, <2>1, SlotsStayFilled DEF m
<1>9. JobEnds'
  <2>1. Nobody \notin Workers
    BY RoundSeedingAssumption
  <2>2. batches' = ComputeProvisionBatchPlan(job'.plan.slots)
    BY <1>5, <1>6
  <2> QED BY <1>5, <1>6, <1>7, <2>1, <2>2 DEF JobEnds, ComputeProvisionBatchPlan
<1> QED BY <1>8, <1>9 DEF SInv

LEMMA NextSeeds ==
    ASSUME IInv, RInv, SInv, IInv', RInv', SeedingNext PROVE SInv'
<1>1. ASSUME NEW h \in Handlers, HandlerStep(h) \/ RollbackRequest(h) PROVE SInv'
  BY <1>1, RequestsSeed
<1>2. ASSUME NEW w \in Workers, WorkerStep(w) PROVE SInv'
  BY <1>2, RowsSeed, CommitChunkSeeds, FinalizeSeeds DEF WorkerStep
<1>3. ASSUME NEW w \in Workers, CrashWorker(w) PROVE SInv'
  BY <1>3, SeedingRests DEF CrashWorker, registrationVars
<1>4. ASSUME NEW w \in Workers, NEW v \in Workers, DeadlockAbort(w, v) PROVE SInv'
  BY <1>4, SeedingRests DEF DeadlockAbort, registrationVars
<1>5. CASE LeaseExpires
  <2>1. /\ UNCHANGED <<phase, registration, round, slots, batches>> /\ job # NoJob
        /\ job.status = "in_progress" /\ job' = [job EXCEPT !.expired = TRUE]
    BY <1>5 DEF LeaseExpires
  <2>2. DOMAIN job = JobFields
    BY <2>1, KnownJob DEF JobIsThere, IsJob
  <2>3. /\ job'.status = "in_progress" /\ job'.owner = job.owner /\ job'.plan = job.plan
        /\ job'.next = job.next /\ job'.last = job.last /\ DOMAIN job' = JobFields
    BY <2>1, <2>2 DEF JobFields
  <2>4. job' # NoJob
    BY <2>3 DEF NoJob, JobFields
  <2>5. job'.owner \in Workers <=> job'.status = "in_progress"
    BY <2>1, <2>3 DEF SInv, JobEnds
  <2> QED BY <2>1, <2>3, <2>4, <2>5, JobRowTurns
<1> QED BY <1>1, <1>2, <1>3, <1>4, <1>5 DEF SeedingNext

LEMMA InitSeeds == SeedingInit => SInv
BY DEF SeedingInit, Init, SInv, Planned, SlotsFilled, JobEnds

LEMMA StutterSeeds == ASSUME SInv, UNCHANGED vars PROVE SInv'
BY SeedingRests DEF vars, registrationVars, seedingVars

-----------------------------------------------------------------------------
(* What follows                                                            *)

\* Each slot is in the batch its number is divided to.
LEMMA BatchesCover ==
    ASSUME NEW n \in Nat, NEW i \in 0 .. n - 1
    PROVE  LET plan == ComputeProvisionBatchPlan(n)
           IN Cardinality({b \in DOMAIN plan : i \in plan[b].from .. plan[b].to}) = 1
<1> DEFINE plan == ComputeProvisionBatchPlan(n)
           B == BatchSize
           last == (n + B - 1) \div B
           c == i \div B
<1>1. B \in Nat \ {0}
  BY RoundSeedingAssumption
<1>2. c \in Nat /\ i % B \in 0 .. B - 1 /\ i = B * c + (i % B)
  <2>1. i \in Nat
    OBVIOUS
  <2> HIDE DEF B
  <2> QED BY <1>1, <2>1, Division
<1>3. PICK r \in 0 .. B - 1 : i = B * c + r
  BY <1>2
<1>4. /\ last \in Nat
      /\ \E q \in 0 .. B - 1 : n + B - 1 = B * last + q
  <2> DEFINE k == n + B - 1
  <2>1. k \in Nat
    BY <1>1
  <2> HIDE DEF k, B
  <2>2. k \div B \in Nat /\ k % B \in 0 .. B - 1 /\ k = B * (k \div B) + (k % B)
    BY <1>1, <2>1, Division
  <2> QED BY <2>2 DEF k
<1>5. PICK q \in 0 .. B - 1 : n + B - 1 = B * last + q
  BY <1>4
<1>6. plan = [b \in 0 .. last - 1 |->
                [from |-> b * B, to |-> Min({b * B + B, n}) - 1]]
  BY DEF ComputeProvisionBatchPlan
<1> HIDE DEF plan, B, last, c
<1>7. ASSUME NEW b \in 0 .. last - 1
      PROVE  /\ b \in Nat /\ B * b \in Nat /\ plan[b].from = B * b
             /\ i \in plan[b].from .. plan[b].to <=> (B * b <= i /\ i < B * b + B)
  <2> DEFINE x == B * b + B
  <2>1. b \in Nat /\ B * b \in Nat /\ b * B = B * b
    BY <1>1, <1>4
  <2>2. x \in Nat
    BY <1>1, <2>1
  <2>3. plan[b].from = B * b /\ plan[b].to = Min({x, n}) - 1
    BY <1>6, <2>1
  <2> HIDE DEF x
  <2>4. \E y \in {x, n} : \A z \in {x, n} : y <= z
    BY <2>2
  <2>5. Min({x, n}) \in {x, n} /\ \A z \in {x, n} : Min({x, n}) <= z
    BY <2>4 DEF Min
  <2>6. i \in plan[b].from .. plan[b].to <=> (B * b <= i /\ i < x)
    BY <2>1, <2>2, <2>3, <2>5
  <2> QED BY <2>1, <2>3, <2>6 DEF x
<1>8. c \in 0 .. last - 1
  <2> SUFFICES ASSUME ~(c < last) PROVE FALSE
    BY <1>2, <1>4
  <2>1. B * last <= B * c /\ B * last \in Nat /\ B * c \in Nat
    <3>1. CASE last = c
      BY <1>1, <1>2, <3>1
    <3>2. CASE last < c
      BY <1>1, <1>2, <1>4, <3>2, MultiplesApart
    <3> QED BY <1>2, <1>4, <3>1, <3>2
  <2> QED BY <1>1, <1>3, <1>5, <2>1
<1>9. B * c <= i /\ i < B * c + B
  <2>1. B * c \in Nat
    BY <1>1, <1>2
  <2> QED BY <1>1, <1>3, <2>1
<1>10. ASSUME NEW b \in 0 .. last - 1, B * b <= i, i < B * b + B PROVE b = c
  <2>1. b \in Nat /\ B * b \in Nat
    BY <1>7
  <2>2. i - B * b \in 0 .. B - 1 /\ B * b + (i - B * b) = B * c + r
    BY <1>1, <1>3, <1>10, <2>1
  <2> DEFINE s == i - B * b
  <2>3. s \in 0 .. B - 1 /\ B * b + s = B * c + r
    BY <2>2
  <2> HIDE DEF s
  <2> QED BY <1>1, <1>2, <2>1, <2>3, DivisionIsUnique
<1>11. DOMAIN plan = 0 .. last - 1
  BY <1>6
<1>12. {b \in DOMAIN plan : i \in plan[b].from .. plan[b].to} = {c}
  BY <1>7, <1>8, <1>9, <1>10, <1>11
<1> QED BY <1>12, FS_Singleton DEF plan

LEMMA SeedingFollows == ASSUME IInv, RInv, SInv PROVE SeedingSound
<1>1. SeedingTypeOK
  <2>1. RegistrationTypeOK
    BY CountsAreTrue DEF RegistrationSound
  <2>2. DOMAIN slots \subseteq Nat
    <3>1. CASE job = NoJob
      <4>1. DOMAIN slots = {}
        BY <3>1 DEF SInv, JobEnds
      <4> QED BY <4>1
    <3>2. CASE job # NoJob
      <4>1. job.status # "quarantined" /\ DOMAIN slots = 0 .. job.next - 1
        BY <3>2 DEF SInv, JobEnds, IInv, JobInv, SlotsToCheckpoint, JobIsThere
      <4> QED BY <4>1
    <3> QED BY <3>1, <3>2
  <2> QED BY <2>1, <2>2 DEF SeedingTypeOK, IInv, Shaped, SInv, JobEnds
<1>2. SeededOnce
  <2> SUFFICES ASSUME job # NoJob PROVE SeededOnce
    BY DEF SeededOnce
  <2>1. DOMAIN slots = 0 .. job.next - 1
    BY DEF SInv, JobEnds, IInv, JobInv, SlotsToCheckpoint, JobIsThere
  <2>2. /\ \A i \in DOMAIN slots : Cardinality(slots[i]) = SizeForSlot(job.plan, i)
        /\ \A i, j \in DOMAIN slots : i # j => slots[i] \cap slots[j] = {}
        /\ UNION {slots[i] : i \in DOMAIN slots} = TakenBy(job.last)
    BY DEF SInv, SlotsFilled
  <2>3. job.status = "completed" => TakenBy(job.last) = Registered
    <3> SUFFICES ASSUME job.status = "completed" PROVE TakenBy(job.last) = Registered
      OBVIOUS
    <3>1. IsFiniteSet(Registered) /\ Before(job.plan, job.plan.slots) = Cardinality(Registered)
      BY PlanOfJob DEF JobIsThere
    <3>2. Cardinality(TakenBy(job.last)) = Cardinality(Registered)
      BY <3>1 DEF SInv, SlotsFilled, JobEnds
    <3>3. TakenBy(job.last) \in SUBSET Registered
      BY DEF TakenBy
    <3> QED BY <3>1, <3>2, <3>3, FS_Subset
  <2> QED BY <2>1, <2>2, <2>3 DEF SeededOnce
<1>3. NeverQuarantined
  BY DEF NeverQuarantined, SInv, JobEnds
<1>4. HandedToProvisioning
  <2>1. phase = "in_progress" => job.status = "completed" /\ round.status = "provisioning"
    BY DEF SInv, JobEnds
  <2>2. ASSUME round.status = "provisioning", NEW i \in DOMAIN slots
        PROVE  Cardinality({b \in DOMAIN batches : i \in batches[b].from .. batches[b].to}) = 1
    <3>1. /\ job # NoJob /\ job.status = "completed" /\ job.next = job.plan.slots
          /\ batches = ComputeProvisionBatchPlan(job.plan.slots)
      BY <2>2 DEF SInv, JobEnds
    <3>2. DOMAIN slots = 0 .. job.plan.slots - 1 /\ job.plan.slots \in Nat
      BY <3>1, KnownJob DEF IInv, JobInv, SlotsToCheckpoint, JobIsThere, IsJob
    <3> QED BY <2>2, <3>1, <3>2, BatchesCover
  <2> QED BY <2>1, <2>2 DEF HandedToProvisioning
<1> QED BY <1>1, <1>2, <1>3, <1>4 DEF SeedingSound

\* Every registered player is seeded once, whatever happens to workers and
\* leases: the slots before the checkpoint have their planned sizes and no
\* player in two of them, the seeding never finds its rows other than planned,
\* and a tournament in progress has all its players in slots and all its slots
\* in batches.
THEOREM SeedingIsSound == SeedingSpec => []SeedingSound
<1>1. IInv /\ RInv /\ SInv /\ IInv' /\ RInv' /\ [SeedingNext]_vars => SInv'
  BY NextSeeds, StutterSeeds
<1>2. SeedingInit => SInv
  BY InitSeeds
<1>3. IInv /\ RInv /\ [SeedingNext]_vars => RInv'
  BY NextCounts, StutterCounts
<1>4. SeedingInit => RInv
  BY InitCounts
<1>5. SeedingSpec => []RInv
  BY <1>3, <1>4, Invariance, PTL DEF SeedingSpec
<1>6. SeedingSpec => []SInv
  BY <1>1, <1>2, <1>5, Invariance, PTL DEF SeedingSpec
<1>7. IInv /\ RInv /\ SInv => SeedingSound
  BY SeedingFollows
<1> QED BY <1>5, <1>6, <1>7, Invariance, PTL
=============================================================================
