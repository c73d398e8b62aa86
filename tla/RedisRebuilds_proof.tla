------------------------- MODULE RedisRebuilds_proof -------------------------
(***************************************************************************)
(* Two structures in Redis that are rebuilt from rows in Postgres while    *)
(* they are in use: the index of the deadlines of a Room, and the board of *)
(* the ratings.                                                            *)
(***************************************************************************)
EXTENDS RoomTimers, Leaderboard, FiniteSetTheorems, TLAPS

(***************************************************************************)
(* The index holds every undecided absence: for any players and workers,   *)
(* any number of absences, commands, rollouts and losses.                  *)
(*                                                                         *)
(* What is given away on one side is held on the other: a rebuild may      *)
(* empty the index because everything in it has a row, and a worker may    *)
(* drop a timer from it because the Room has decided about it.             *)
(***************************************************************************)

\* Every open episode has its row: the rebuild finds it.
OpenHasRow == \A t \in Timers : Open(t) => t \in rows

\* As long as nothing is lost a worker that has an answer has it from the
\* Room, and it is about a timer.
AnswerIsDecision ==
    \A w \in Workers : wrk[w].answered =>
        /\ wrk[w].timer \in Timers
        /\ losses = 0 => outcome[wrk[w].timer] # "none"

IInv == TypeOK /\ OpenEpisodeIsTimed /\ OpenHasRow /\ AnswerIsDecision

-----------------------------------------------------------------------------
(* Timers and what the Room commits                                        *)

LEMMA NoTimerIsNone == NoTimer \notin Timers
BY RoomTimersAssumption DEF NoTimer, Timers

LEMMA TimerParts ==
    ASSUME NEW t \in Timers
    PROVE  t.player \in Players /\ t.version \in 1 .. MaxVersion
BY DEF Timers

\* Whatever the Room commits, the rows stay rows of timers.
LEMMA ActiveAreTimers == ASSUME NEW a PROVE ActiveIn(a) \subseteq Timers
BY DEF ActiveIn

LEMMA OpenIsActive == \A t \in Timers : Open(t) <=> t \in ActiveIn(away)
BY DEF Open

LEMMA InitHolds == Init => IInv
<1> SUFFICES ASSUME Init PROVE IInv OBVIOUS
<1>1. TypeOK
  BY RoomTimersAssumption DEF Init, TypeOK, Idle, Timers
<1>2. \A t \in Timers : ~Open(t)
  BY TimerParts DEF Init, Open, ActiveIn
<1>3. AnswerIsDecision
  BY DEF Init, AnswerIsDecision, Idle
<1> QED BY <1>1, <1>2, <1>3 DEF IInv, OpenEpisodeIsTimed, OpenHasRow

-----------------------------------------------------------------------------
(* Commits.  a is the next value of the absences, sent whether the worker's *)
(* timer t is answered by it.                                              *)

\* What a commit leaves: the types, and every open episode timed with a row.
LEMMA CommittedKeeps ==
    ASSUME IInv, NEW a \in [Players -> [version : 0 .. MaxVersion, active : BOOLEAN]],
           Committed(a), UNCHANGED <<passed, due, inflight, rebuild, losses>>
    PROVE  /\ seq' \in 1 .. MaxSequence
           /\ away' \in [Players -> [version : 0 .. MaxVersion, active : BOOLEAN]]
           /\ rows' \subseteq Timers /\ posts' \subseteq rows' /\ rows \subseteq rows'
           /\ OpenHasRow' /\ OpenEpisodeIsTimed'
<1>1. seq' \in 1 .. MaxSequence
  BY RoomTimersAssumption DEF IInv, TypeOK, Committed
<1>2. rows' \subseteq Timers /\ posts' \subseteq rows' /\ rows \subseteq rows'
  BY ActiveAreTimers DEF IInv, TypeOK, Committed
<1>3. \A t \in Timers : Open(t)' => t \in rows' /\ t \in posts'
  BY DEF Committed, Open
<1>4. OpenHasRow'
  BY <1>3 DEF OpenHasRow
<1>5. OpenEpisodeIsTimed'
  BY <1>3 DEF OpenEpisodeIsTimed, Timed
<1> QED BY <1>1, <1>2, <1>4, <1>5 DEF Committed

\* A decision, whoever asks for it, decides and keeps all that holds.
LEMMA DecideKeeps ==
    ASSUME IInv, NEW t \in Timers, Decide(t), UNCHANGED <<passed, due, inflight, rebuild, losses>>
    PROVE  /\ seq' \in 1 .. MaxSequence
           /\ away' \in [Players -> [version : 0 .. MaxVersion, active : BOOLEAN]]
           /\ outcome' \in [Timers -> {"none", "accepted", "rejected"}]
           /\ rows' \subseteq Timers /\ posts' \subseteq rows' /\ rows \subseteq rows'
           /\ outcome'[t] # "none"
           /\ \A u \in Timers : outcome[u] # "none" => outcome'[u] # "none"
           /\ OpenHasRow' /\ OpenEpisodeIsTimed'
<1>0. outcome \in [Timers -> {"none", "accepted", "rejected"}]
  BY DEF IInv, TypeOK
<1>1. CASE outcome[t] # "none"
  <2>1. UNCHANGED roomVars
    BY <1>1 DEF Decide
  <2>2. OpenHasRow' /\ OpenEpisodeIsTimed'
    BY <2>1 DEF IInv, OpenHasRow, OpenEpisodeIsTimed, Timed, Open, roomVars
  <2> QED BY <1>0, <1>1, <2>1, <2>2 DEF IInv, TypeOK, roomVars
<1>2. CASE outcome[t] = "none" /\ Forfeits(t)
  <2>1. outcome' = [outcome EXCEPT ![t] = "accepted"]
    BY <1>2 DEF Decide
  <2> DEFINE a == [away EXCEPT ![t.player].active = FALSE]
  <2>2. Committed(a)
    BY <1>2 DEF Decide
  <2>3. a \in [Players -> [version : 0 .. MaxVersion, active : BOOLEAN]]
    <3>1. away \in [Players -> [version : 0 .. MaxVersion, active : BOOLEAN]]
      BY DEF IInv, TypeOK
    <3>2. ASSUME NEW q \in Players
          PROVE  [away[q] EXCEPT !.active = FALSE] \in [version : 0 .. MaxVersion, active : BOOLEAN]
      BY ONLY <3>1, <3>2
    <3> QED BY ONLY <3>1, <3>2
  <2> HIDE DEF a
  <2>4. outcome'[t] # "none" /\ outcome' \in [Timers -> {"none", "accepted", "rejected"}]
        /\ \A u \in Timers : outcome[u] # "none" => outcome'[u] # "none"
    BY ONLY <1>0, <2>1, t \in Timers
  <2> QED BY <2>2, <2>3, <2>4, CommittedKeeps
<1>3. CASE outcome[t] = "none" /\ ~Forfeits(t)
  <2>1. /\ outcome' = [outcome EXCEPT ![t] = "rejected"]
        /\ rows' = rows \cup ActiveIn(away)
        /\ UNCHANGED <<seq, away, posts>>
    BY <1>3 DEF Decide
  <2>2. rows' \subseteq Timers /\ posts' \subseteq rows' /\ rows \subseteq rows'
    BY <2>1, ActiveAreTimers DEF IInv, TypeOK
  <2>3. OpenHasRow'
    BY <2>1 DEF OpenHasRow, Open
  <2>4. \A u \in Timers : u # t => outcome'[u] = outcome[u]
    BY <1>0, <2>1
  <2>5. OpenEpisodeIsTimed'
    <3> SUFFICES ASSUME losses = 0, NEW u \in Timers, Open(u)', outcome'[u] = "none"
                 PROVE  Timed(u)'
      BY DEF OpenEpisodeIsTimed
    <3>1. Open(u) /\ outcome[u] = "none"
      BY <1>0, <2>1, <2>4 DEF Open
    <3>2. Timed(u)
      BY <3>1 DEF IInv, OpenEpisodeIsTimed
    <3> QED BY <3>2, <2>1, <2>2 DEF Timed
  <2> QED BY <1>0, <2>1, <2>2, <2>3, <2>4, <2>5 DEF IInv, TypeOK
<1> QED BY <1>1, <1>2, <1>3

-----------------------------------------------------------------------------
(* Steps of the Room, of time and of the index                             *)

LEMMA CommandKeeps ==
    ASSUME IInv, NEW a \in [Players -> [version : 0 .. MaxVersion, active : BOOLEAN]],
           Committed(a), UNCHANGED <<passed, outcome, due, inflight, wrk, late, rebuild, losses>>
    PROVE  IInv'
<1>1. /\ seq' \in 1 .. MaxSequence
      /\ away' \in [Players -> [version : 0 .. MaxVersion, active : BOOLEAN]]
      /\ rows' \subseteq Timers /\ posts' \subseteq rows' /\ rows \subseteq rows'
      /\ OpenHasRow' /\ OpenEpisodeIsTimed'
  BY CommittedKeeps
<1>2. TypeOK'
  BY <1>1 DEF IInv, TypeOK
<1>3. AnswerIsDecision'
  BY DEF IInv, AnswerIsDecision
<1> QED BY <1>1, <1>2, <1>3 DEF IInv

LEMMA DisconnectHolds == ASSUME IInv, NEW p \in Players, DisconnectPlayer(p) PROVE IInv'
<1> DEFINE a == [away EXCEPT ![p] = [version |-> @.version + 1, active |-> TRUE]]
<1>1. a \in [Players -> [version : 0 .. MaxVersion, active : BOOLEAN]]
  BY RoomTimersAssumption DEF IInv, TypeOK, DisconnectPlayer
<1>2. Committed(a)
  BY DEF DisconnectPlayer
<1> HIDE DEF a
<1> QED BY <1>1, <1>2, CommandKeeps DEF DisconnectPlayer

LEMMA EndAbsenceHolds == ASSUME IInv, NEW p \in Players, EndAbsence(p) PROVE IInv'
<1> DEFINE a == [away EXCEPT ![p].active = FALSE]
<1>1. a \in [Players -> [version : 0 .. MaxVersion, active : BOOLEAN]]
  BY DEF IInv, TypeOK
<1>2. Committed(a)
  BY DEF EndAbsence
<1> HIDE DEF a
<1> QED BY <1>1, <1>2, CommandKeeps DEF EndAbsence

LEMMA OtherCommandHolds == ASSUME IInv, OtherCommand PROVE IInv'
BY CommandKeeps DEF OtherCommand, IInv, TypeOK

LEMMA DeadlineHolds == ASSUME IInv, NEW t \in Timers, DeadlinePasses(t) PROVE IInv'
<1> USE DEF DeadlinePasses, roomVars, indexVars
<1>1. t \in rows
  BY DEF IInv, OpenHasRow
<1>2. TypeOK'
  BY <1>1 DEF IInv, TypeOK
<1>3. OpenEpisodeIsTimed' /\ OpenHasRow' /\ AnswerIsDecision'
  BY DEF IInv, OpenEpisodeIsTimed, Timed, Open, OpenHasRow, AnswerIsDecision
<1> QED BY <1>2, <1>3 DEF IInv

\* Steps that leave the Room and the workers alone: types and timing are
\* all there is to show.
LEMMA RoomAndWorkersAlone ==
    ASSUME IInv, UNCHANGED <<seq, away, outcome, rows, passed, wrk>>, losses' = losses,
           TypeOK', OpenEpisodeIsTimed'
    PROVE  IInv'
<1>1. OpenHasRow'
  BY DEF IInv, OpenHasRow, Open
<1>2. AnswerIsDecision'
  BY DEF IInv, AnswerIsDecision
<1> QED BY <1>1, <1>2 DEF IInv

\* The same where something is lost: nothing is promised any more.
LEMMA AfterALoss ==
    ASSUME IInv, UNCHANGED <<seq, away, outcome, rows, passed>>, losses' = losses + 1, TypeOK',
           \A w \in Workers : wrk'[w].answered => wrk'[w].timer \in Timers
    PROVE  IInv'
<1>1. losses' # 0
  BY DEF IInv, TypeOK
<1>2. OpenHasRow'
  BY DEF IInv, OpenHasRow, Open
<1>3. OpenEpisodeIsTimed' /\ AnswerIsDecision'
  BY <1>1 DEF OpenEpisodeIsTimed, AnswerIsDecision
<1> QED BY <1>2, <1>3 DEF IInv

LEMMA ScheduleHolds == ASSUME IInv, NEW t \in Timers, Schedule(t) PROVE IInv'
<1>1. TypeOK'
  BY DEF Schedule, IInv, TypeOK
<1>2. OpenEpisodeIsTimed'
  BY DEF Schedule, IInv, OpenEpisodeIsTimed, Timed, Open
<1> QED BY <1>1, <1>2, RoomAndWorkersAlone DEF Schedule

LEMMA ScheduleLostHolds == ASSUME IInv, NEW t \in Timers, ScheduleLost(t) PROVE IInv'
<1>1. TypeOK'
  BY RoomTimersAssumption DEF ScheduleLost, Lose, IInv, TypeOK, indexVars
<1> QED BY <1>1, AfterALoss DEF ScheduleLost, Lose, IInv, AnswerIsDecision

LEMMA IndexLostHolds == ASSUME IInv, IndexLost PROVE IInv'
<1>1. TypeOK'
  BY RoomTimersAssumption DEF IndexLost, Lose, IInv, TypeOK, roomVars
<1> QED BY <1>1, AfterALoss DEF IndexLost, Lose, roomVars, IInv, AnswerIsDecision

LEMMA ReapHolds == ASSUME IInv, NEW t \in Timers, Reap(t) PROVE IInv'
<1> USE DEF Reap, roomVars
<1>1. TypeOK'
  BY DEF IInv, TypeOK
<1>2. OpenEpisodeIsTimed'
  BY DEF IInv, OpenEpisodeIsTimed, Timed, Open
<1> QED BY <1>1, <1>2, RoomAndWorkersAlone

-----------------------------------------------------------------------------
(* The rebuild.  Whatever is timed has a row.                              *)

LEMMA TimedHasRow == ASSUME IInv, NEW t, Timed(t) PROVE t \in rows
BY DEF IInv, TypeOK, Timed

LEMMA RolloutHolds == ASSUME IInv, Rollout PROVE IInv'
<1> USE DEF Rollout, roomVars, indexVars
<1>1. TypeOK'
  BY RoomTimersAssumption DEF IInv, TypeOK
<1>2. OpenEpisodeIsTimed'
  BY TimedHasRow DEF IInv, OpenEpisodeIsTimed, Timed, Open
<1> QED BY <1>1, <1>2, RoomAndWorkersAlone

LEMMA FlushIndexHolds == ASSUME IInv, FlushIndex PROVE IInv'
<1> USE DEF FlushIndex, roomVars
<1>1. TypeOK'
  BY DEF IInv, TypeOK
<1>2. rebuild'.phase = "read"
  BY DEF IInv, TypeOK
<1>3. OpenEpisodeIsTimed'
  BY <1>2, TimedHasRow DEF IInv, OpenEpisodeIsTimed, Timed, Open
<1> QED BY <1>1, <1>3, RoomAndWorkersAlone

LEMMA ReadRowsHolds == ASSUME IInv, ReadRows PROVE IInv'
<1> USE DEF ReadRows, roomVars, indexVars
<1>1. TypeOK'
  BY DEF IInv, TypeOK
<1>2. rebuild'.todo = rows
  BY DEF IInv, TypeOK
<1>3. OpenEpisodeIsTimed'
  BY <1>2, TimedHasRow DEF IInv, OpenEpisodeIsTimed, Timed, Open
<1> QED BY <1>1, <1>3, RoomAndWorkersAlone

LEMMA WriteRowHolds == ASSUME IInv, WriteRow PROVE IInv'
<1> USE DEF WriteRow, roomVars
<1>1. CASE rebuild.todo = {}
  <2>1. TypeOK'
    BY <1>1 DEF IInv, TypeOK
  <2>2. rebuild'.todo = rebuild.todo
    BY <1>1 DEF IInv, TypeOK
  <2>3. OpenEpisodeIsTimed'
    BY <1>1, <2>2 DEF IInv, OpenEpisodeIsTimed, Timed, Open
  <2> QED BY <2>1, <2>3, RoomAndWorkersAlone
<1>2. CASE rebuild.todo # {}
  <2>1. PICK u \in rebuild.todo :
            rebuild' = [rebuild EXCEPT !.todo = @ \ {u}] /\ due' = due \cup {u}
    BY <1>2
  <2>2. TypeOK'
    BY <2>1 DEF IInv, TypeOK
  <2>3. rebuild'.todo = rebuild.todo \ {u} /\ rebuild'.phase = rebuild.phase
    BY <2>1 DEF IInv, TypeOK
  <2>4. OpenEpisodeIsTimed'
    BY <2>1, <2>3 DEF IInv, OpenEpisodeIsTimed, Timed, Open
  <2> QED BY <2>2, <2>4, RoomAndWorkersAlone
<1> QED BY <1>1, <1>2

-----------------------------------------------------------------------------
(* The workers                                                             *)

LEMMA ClaimHolds ==
    ASSUME IInv, NEW w \in Workers, NEW t \in Timers, Claim(w, t) PROVE IInv'
<1> USE DEF Claim, roomVars
<1>1. TypeOK'
  BY DEF IInv, TypeOK
<1>2. OpenEpisodeIsTimed'
  BY DEF IInv, OpenEpisodeIsTimed, Timed, Open
<1>3. \A v \in Workers : wrk'[v].answered = wrk[v].answered /\ (v # w => wrk'[v] = wrk[v])
  BY DEF IInv, TypeOK
<1>4. ~wrk[w].answered
  BY DEF Idle
<1>5. AnswerIsDecision'
  BY <1>3, <1>4 DEF IInv, AnswerIsDecision
<1>6. OpenHasRow'
  BY DEF IInv, OpenHasRow, Open
<1> QED BY <1>1, <1>2, <1>5, <1>6 DEF IInv

LEMMA DispatchHolds ==
    ASSUME IInv, NEW w \in Workers, NEW t \in Timers, Dispatch(w, t) PROVE IInv'
<1> USE DEF Dispatch, indexVars
<1>1. /\ seq' \in 1 .. MaxSequence
      /\ away' \in [Players -> [version : 0 .. MaxVersion, active : BOOLEAN]]
      /\ outcome' \in [Timers -> {"none", "accepted", "rejected"}]
      /\ rows' \subseteq Timers /\ posts' \subseteq rows' /\ rows \subseteq rows'
      /\ outcome'[t] # "none"
      /\ \A u \in Timers : outcome[u] # "none" => outcome'[u] # "none"
      /\ OpenHasRow' /\ OpenEpisodeIsTimed'
  <2>1. Decide(t) /\ UNCHANGED <<passed, due, inflight, rebuild, losses>>
    OBVIOUS
  <2> QED BY ONLY IInv, t \in Timers, <2>1, DecideKeeps
<1>2. TypeOK'
  <2>1. TypeOK
    BY DEF IInv
  <2>2. UNCHANGED <<passed, due, inflight, late, rebuild, losses>>
    OBVIOUS
  <2>3. wrk' = [wrk EXCEPT ![w].answered = TRUE]
    OBVIOUS
  <2>4. \A v \in Workers : wrk'[v] \in [timer : passed \cup {NoTimer}, answered : BOOLEAN]
    BY ONLY <2>1, <2>3 DEF TypeOK
  <2> QED
    BY ONLY <1>1, <2>1, <2>2, <2>3, <2>4 DEF TypeOK
<1>3. \A v \in Workers : wrk'[v].timer = wrk[v].timer /\ (v # w => wrk'[v] = wrk[v])
  BY DEF IInv, TypeOK
<1>4. wrk[w].timer = t
  BY DEF Waits
<1>5. AnswerIsDecision'
  BY <1>1, <1>3, <1>4 DEF IInv, AnswerIsDecision
<1> QED BY <1>1, <1>2, <1>5 DEF IInv

LEMMA TurnedAwayHolds ==
    ASSUME IInv, NEW w \in Workers, NEW t \in Timers, TurnedAway(w, t) PROVE IInv'
<1> USE DEF TurnedAway, Lose, roomVars, indexVars
<1>0. losses' \in 0 .. MaxLosses
  BY RoomTimersAssumption DEF IInv, TypeOK
<1>1. TypeOK'
  BY <1>0 DEF IInv, TypeOK
<1>2. \A v \in Workers : wrk'[v].timer = wrk[v].timer /\ (v # w => wrk'[v] = wrk[v])
  BY DEF IInv, TypeOK
<1>3. wrk[w].timer = t
  BY DEF Waits
<1>4. \A v \in Workers : wrk'[v].answered => wrk'[v].timer \in Timers
  BY <1>2, <1>3 DEF IInv, AnswerIsDecision
<1> QED BY <1>1, <1>4, AfterALoss

\* A worker that is idle has no answer.
LEMMA RestingAnswersNothing ==
    ASSUME IInv, NEW w \in Workers, wrk' = [wrk EXCEPT ![w] = Idle],
           UNCHANGED <<outcome, losses>>
    PROVE  AnswerIsDecision'
<1>1. ~wrk'[w].answered /\ \A v \in Workers : v # w => wrk'[v] = wrk[v]
  BY DEF IInv, TypeOK, Idle
<1> QED BY <1>1 DEF IInv, AnswerIsDecision

LEMMA GiveUpHolds ==
    ASSUME IInv, NEW w \in Workers, NEW t \in Timers, GiveUp(w, t) PROVE IInv'
<1> USE DEF GiveUp, roomVars, indexVars
<1>1. t \in passed
  BY NoTimerIsNone DEF IInv, TypeOK
<1>2. TypeOK'
  BY <1>1 DEF IInv, TypeOK, Idle
<1>3. OpenEpisodeIsTimed' /\ OpenHasRow'
  BY DEF IInv, OpenEpisodeIsTimed, Timed, Open, OpenHasRow
<1> QED BY <1>2, <1>3, RestingAnswersNothing DEF IInv

LEMMA ArriveLateHolds == ASSUME IInv, NEW t \in Timers, ArriveLate(t) PROVE IInv'
<1> USE DEF ArriveLate, indexVars
<1>1. /\ seq' \in 1 .. MaxSequence
      /\ away' \in [Players -> [version : 0 .. MaxVersion, active : BOOLEAN]]
      /\ outcome' \in [Timers -> {"none", "accepted", "rejected"}]
      /\ rows' \subseteq Timers /\ posts' \subseteq rows' /\ rows \subseteq rows'
      /\ \A u \in Timers : outcome[u] # "none" => outcome'[u] # "none"
      /\ OpenHasRow' /\ OpenEpisodeIsTimed'
  BY DecideKeeps
<1>2. TypeOK'
  BY <1>1 DEF IInv, TypeOK
<1>3. AnswerIsDecision'
  BY <1>1 DEF IInv, AnswerIsDecision
<1> QED BY <1>1, <1>2, <1>3 DEF IInv

\* What is acknowledged has been decided, so the index may forget it.
LEMMA AckHolds == ASSUME IInv, NEW w \in Workers, Ack(w) PROVE IInv'
<1> USE DEF Ack, roomVars
<1>1. TypeOK'
  BY DEF IInv, TypeOK, Idle
<1>2. OpenEpisodeIsTimed'
  <2> SUFFICES ASSUME losses = 0, NEW u \in Timers, Open(u), outcome[u] = "none"
               PROVE  Timed(u)'
    BY DEF OpenEpisodeIsTimed, Open
  <2>1. Timed(u)
    BY DEF IInv, OpenEpisodeIsTimed
  <2>2. u # wrk[w].timer
    BY DEF IInv, AnswerIsDecision
  <2> QED BY <2>1, <2>2 DEF Timed
<1>3. OpenHasRow'
  BY DEF IInv, OpenHasRow, Open
<1> QED BY <1>1, <1>2, <1>3, RestingAnswersNothing DEF IInv

-----------------------------------------------------------------------------

LEMMA NextHolds == IInv /\ [Next]_vars => IInv'
<1> SUFFICES ASSUME IInv, [Next]_vars PROVE IInv' OBVIOUS
<1>1. ASSUME NEW p \in Players, DisconnectPlayer(p) \/ EndAbsence(p) PROVE IInv'
  BY <1>1, DisconnectHolds, EndAbsenceHolds
<1>2. CASE OtherCommand
  BY <1>2, OtherCommandHolds
<1>3. ASSUME NEW t \in Timers,
             DeadlinePasses(t) \/ Schedule(t) \/ ScheduleLost(t) \/ Reap(t) \/ ArriveLate(t)
      PROVE  IInv'
  BY <1>3, DeadlineHolds, ScheduleHolds, ScheduleLostHolds, ReapHolds, ArriveLateHolds
<1>4. ASSUME NEW t \in Timers, NEW w \in Workers,
             Claim(w, t) \/ Dispatch(w, t) \/ TurnedAway(w, t) \/ GiveUp(w, t)
      PROVE  IInv'
  BY <1>4, ClaimHolds, DispatchHolds, TurnedAwayHolds, GiveUpHolds
<1>5. CASE IndexLost
  BY <1>5, IndexLostHolds
<1>6. CASE Rollout \/ FlushIndex \/ ReadRows \/ WriteRow
  BY <1>6, RolloutHolds, FlushIndexHolds, ReadRowsHolds, WriteRowHolds
<1>7. ASSUME NEW w \in Workers, Ack(w) PROVE IInv'
  BY <1>7, AckHolds
<1>8. CASE UNCHANGED vars
  <2>1. TypeOK'
    BY <1>8 DEF IInv, TypeOK, vars
  <2>2. OpenEpisodeIsTimed' /\ OpenHasRow' /\ AnswerIsDecision'
    BY <1>8 DEF IInv, OpenEpisodeIsTimed, Timed, Open, OpenHasRow, AnswerIsDecision, vars
  <2> QED BY <2>1, <2>2 DEF IInv
<1> QED BY <1>1, <1>2, <1>3, <1>4, <1>5, <1>6, <1>7, <1>8 DEF Next

\* The index, the workers and the rebuild hold committed deadlines only, and
\* as long as nothing is lost every absence the Room has not decided about
\* is in the index, on its way to it or about to be rebuilt.
THEOREM IndexIsSound == Spec => []IndexSound
<1>1. IInv => IndexSound
  BY DEF IInv, IndexSound
<1> QED BY <1>1, InitHolds, NextHolds, PTL DEF Spec

-----------------------------------------------------------------------------
(***************************************************************************)
(* The board, for any players, commits and rebuilds, pages of any size and *)
(* any faults.                                                             *)
(*                                                                         *)
(* A row of the board is the rating after some number of the player's      *)
(* events, at least as many as were consumed, and no later event is below  *)
(* its fence: so each of those will be written.  A staged row is ahead of  *)
(* the live one, because its page was read when the live generation was    *)
(* already there; so an event that the live generation refuses is one the  *)
(* staging generation does not need.  A player who is in no page has       *)
(* overtaken the cursor by an event that is still to come.                 *)
(***************************************************************************)

Events == [prev : Int, next : Int, version : Nat]

\* The rating after the first k events of a player.
Rate(p, k) == IF k = 0 THEN 1 ELSE cdc[p][k].next

\* Each event goes on from the one before it, under a later version.
EventsFollow(p) ==
    \A i \in 1 .. Len(cdc[p]) :
        /\ cdc[p][i].version >= 1 /\ cdc[p][i].version <= dirty
        /\ cdc[p][i].prev = Rate(p, i - 1)
        /\ \A j \in 1 .. i - 1 : cdc[p][j].version < cdc[p][i].version

SourceTyped ==
    /\ pg = [p \in DOMAIN pg |-> pg[p]] /\ DOMAIN pg \subseteq Player
    /\ \A p \in DOMAIN pg : pg[p] \in Int /\ pg[p] = Rate(p, Len(cdc[p]))
    /\ dirty \in Nat /\ dirty <= Len(Commits)
    /\ cdc \in [Player -> Seq(Events)]
    /\ \A p \in Player : EventsFollow(p) /\ (p \notin DOMAIN pg => Len(cdc[p]) = 0)
    /\ offset \in [Player -> Nat] /\ \A p \in Player : offset[p] <= Len(cdc[p])

Stages == {"start", "meta", "begin", "reconcile", "page", "write", "cutover",
           "swapped", "abort", "done"}

\* A request with the cursor and the batch it has.
Request(cursor, batch) ==
    [pc : Stages, watermark : Nat, liveGen : Nat, newGen : Generation,
     cursor : {cursor}, batch : {batch}]

RequestTyped(r) ==
    /\ rb[r] \in Request(rb[r].cursor, rb[r].batch) /\ rb[r].watermark <= dirty
    /\ rb[r].pc \notin {"start", "meta", "done"} =>
         /\ rb[r].newGen = rb[r].liveGen + 1 /\ rb[r].liveGen <= meta.generation
    /\ rb[r].pc \in {"start", "meta", "begin"} => rb[r].cursor = << >>
    /\ rb[r].pc = "write" => DOMAIN rb[r].batch \subseteq DOMAIN pg

\* Requests that may have swapped.
Spent == {r \in Rebuild : rb[r].pc \in {"swapped", "abort", "done"}}

MetaTyped ==
    /\ meta \in [generation : Nat, ready : BOOLEAN, rebuilding : Generation,
                 token : Rebuild \union {NoToken}, version : Nat,
                 memberCount : {meta.memberCount}]
    /\ meta.ready <=> meta.generation >= 1
    /\ meta.generation <= Cardinality(Spent)
    /\ (meta.rebuilding = 0) <=> (meta.token = NoToken)
    /\ meta.rebuilding # 0 => meta.rebuilding = meta.generation + 1

\* A member has a fence, a row in Postgres, and generation 0 has no members.
BoardTyped(g) ==
    /\ DOMAIN zset[g] = DOMAIN applied[g] /\ DOMAIN zset[g] \subseteq DOMAIN pg
    /\ \A p \in DOMAIN zset[g] : applied[g][p] \in Nat /\ applied[g][p] <= dirty
    /\ g = 0 => DOMAIN zset[g] = {}

BoardsTyped ==
    /\ zset = [g \in Generation |-> zset[g]] /\ applied = [g \in Generation |-> applied[g]]
    /\ \A g \in Generation : BoardTyped(g)

\* The owner of staging has begun, and the requests at work own it.
StagingOwned ==
    \A r \in Rebuild :
        /\ meta.token = r =>
             /\ rb[r].pc \in {"reconcile", "page", "write", "cutover", "abort", "done"}
             /\ meta.rebuilding = rb[r].newGen
        /\ rb[r].pc \in {"page", "write", "cutover"} => meta.token = r

Typed ==
    /\ SourceTyped /\ (rb = [r \in Rebuild |-> rb[r]] /\ \A r \in Rebuild : RequestTyped(r))
    /\ MetaTyped /\ BoardsTyped /\ StagingOwned

\* The request whose staging may still be swapped in.
Copying(r) ==
    meta.token = r /\ rb[r].pc \in {"reconcile", "page", "write", "cutover"}

InBatch(r, p) == rb[r].pc = "write" /\ p \in DOMAIN rb[r].batch

\* A page still to be read has the player, unless he moves.
Ahead(r, p) ==
    /\ rb[r].pc \in {"reconcile", "page"} \/ (rb[r].pc = "write" /\ ~LastPage(r))
    /\ Behind(p, rb[r].cursor)

\* No event after the k-th is below the fence.
FreshAfter(p, k, fence) == \A j \in k + 1 .. Len(cdc[p]) : cdc[p][j].version > fence

RowAt(g, p, k) == zset[g][p] = Rate(p, k) /\ FreshAfter(p, k, applied[g][p])

\* The live row is the rating after k events; a missing one waits for the next.
LiveAt(p, k) ==
    LET g == meta.generation IN
    /\ k \in offset[p] .. Len(cdc[p])
    /\ p \in DOMAIN zset[g] => RowAt(g, p, k)
    /\ p \notin DOMAIN zset[g] =>
         k = offset[p] /\ (meta.ready /\ p \in DOMAIN pg => k < Len(cdc[p]))

\* A staged row is that of an event or was copied.
StagedAt(r, p, k) ==
    LET g == rb[r].newGen IN
    p \in DOMAIN zset[g] =>
        \E ks \in k .. Len(cdc[p]) :
            /\ RowAt(g, p, ks)
            /\ applied[g][p] < rb[r].watermark =>
                 ks >= 1 /\ applied[g][p] = cdc[p][ks].version

\* So is a row of the batch, if it will be copied.
ReadAt(r, p, k) ==
    InBatch(r, p) /\ ~Kept(r, p) =>
        \E kb \in k .. Len(cdc[p]) :
            rb[r].batch[p] = Rate(p, kb) /\ FreshAfter(p, kb, rb[r].watermark)

\* Who is in no page has an event to come that the live generation will take.
MissingAt(r, p, k) ==
    p \in DOMAIN pg /\ p \notin DOMAIN zset[rb[r].newGen] /\ ~InBatch(r, p) /\ ~Ahead(r, p)
        => k < Len(cdc[p])

CopyAt(p, k) ==
    \A r \in Rebuild : Copying(r) => StagedAt(r, p, k) /\ ReadAt(r, p, k) /\ MissingAt(r, p, k)

PlayerShown(p) == \E k \in Nat : LiveAt(p, k) /\ CopyAt(p, k)

EveryoneShown == \A p \in Player : ~Missed(p) => PlayerShown(p)

BoardInv == Typed /\ EveryoneShown /\ ReadyIsServed
-----------------------------------------------------------------------------
(* What the types give.                                                    *)

LEMMA GenerationsAreFew ==
    /\ Cardinality(Rebuild) \in Nat /\ Generation \subseteq Nat
    /\ \A n \in Nat : n \in Generation <=> n <= Cardinality(Rebuild)
<1>1. Cardinality(Rebuild) \in Nat
  BY BoardAssumption, FS_CardinalityType
<1> QED
  BY <1>1 DEF Generation

(* A request keeps the shape of its fields.                                *)
LEMMA RequestFields ==
    ASSUME Typed, NEW r \in Rebuild
    PROVE  /\ rb[r].pc \in Stages /\ rb[r].watermark \in Nat /\ rb[r].liveGen \in Nat
           /\ rb[r].newGen \in Generation /\ rb[r].newGen \in Nat
           /\ rb[r].watermark <= dirty
<1>1. rb[r] \in Request(rb[r].cursor, rb[r].batch) /\ rb[r].watermark <= dirty
  BY DEF Typed, RequestTyped
<1> QED
  BY <1>1, GenerationsAreFew DEF Request

LEMMA MovedRequest ==
    ASSUME Typed, NEW r \in Rebuild, NEW s \in Stages, rb' = [rb EXCEPT ![r].pc = s]
    PROVE  /\ rb' = [rb EXCEPT ![r] = [rb[r] EXCEPT !.pc = s]]
           /\ rb'[r].pc = s /\ rb'[r].watermark = rb[r].watermark
           /\ rb'[r].liveGen = rb[r].liveGen /\ rb'[r].newGen = rb[r].newGen
           /\ rb'[r].cursor = rb[r].cursor /\ rb'[r].batch = rb[r].batch
           /\ rb'[r] \in Request(rb'[r].cursor, rb'[r].batch)
<1>1. rb[r] \in Request(rb[r].cursor, rb[r].batch) /\ rb = [q \in Rebuild |-> rb[q]]
  BY DEF Typed, RequestTyped
<1>2. rb'[r] = [rb[r] EXCEPT !.pc = s]
  BY <1>1
<1>3. /\ rb'[r].pc = s /\ rb'[r].watermark = rb[r].watermark
      /\ rb'[r].liveGen = rb[r].liveGen /\ rb'[r].newGen = rb[r].newGen
      /\ rb'[r].cursor = rb[r].cursor /\ rb'[r].batch = rb[r].batch
  BY <1>1, <1>2 DEF Request
<1>4. rb'[r] \in Request(rb[r].cursor, rb[r].batch)
  BY <1>1, <1>2 DEF Request
<1> QED
  BY <1>3, <1>4

(* Generation 0 is never staged; the staged one is not the live one.       *)
LEMMA StagingIsApart ==
    ASSUME Typed, NEW r \in Rebuild, meta.token = r
    PROVE  /\ rb[r].newGen = meta.generation + 1 /\ rb[r].newGen \in Generation
           /\ meta.rebuilding = rb[r].newGen /\ rb[r].newGen # 0
           /\ meta.generation \in Generation /\ meta.generation \in Nat
<1>1. meta.rebuilding = rb[r].newGen /\ meta.token # NoToken
  BY BoardAssumption DEF Typed, StagingOwned
<1>2. meta.rebuilding # 0 /\ meta.rebuilding \in Generation /\ meta.generation \in Nat
      /\ meta.rebuilding = meta.generation + 1
  BY <1>1 DEF Typed, MetaTyped
<1> QED
  BY <1>1, <1>2, GenerationsAreFew

LEMMA LiveIsInRange ==
    ASSUME Typed
    PROVE  /\ meta.generation \in Generation /\ meta.generation \in Nat
           /\ IsFiniteSet(Spent) /\ Cardinality(Spent) \in Nat
           /\ meta.generation <= Cardinality(Spent)
           /\ Cardinality(Spent) <= Cardinality(Rebuild)
<1>1. IsFiniteSet(Spent) /\ Cardinality(Spent) <= Cardinality(Rebuild)
  BY BoardAssumption, FS_Subset DEF Spent
<1>2. Cardinality(Spent) \in Nat
  BY <1>1, FS_CardinalityType
<1>3. meta.generation \in Nat /\ meta.generation <= Cardinality(Spent)
  BY DEF Typed, MetaTyped
<1> QED
  BY <1>1, <1>2, <1>3, GenerationsAreFew

(* The next event of a player, and how it follows a row.                   *)
LEMMA NextEvent ==
    ASSUME Typed, NEW p \in Player, Pending(p)
    PROVE  /\ offset[p] \in Nat /\ offset[p] + 1 \in 1 .. Len(cdc[p]) /\ Len(cdc[p]) \in Nat
           /\ Event(p) = cdc[p][offset[p] + 1] /\ Event(p) \in Events
           /\ Event(p).version \in Nat /\ Event(p).version >= 1 /\ Event(p).version <= dirty
           /\ Event(p).prev = Rate(p, offset[p])
           /\ Event(p).next = Rate(p, offset[p] + 1)
           /\ p \in DOMAIN pg
<1>1. offset[p] \in Nat /\ Len(cdc[p]) \in Nat /\ offset[p] + 1 \in 1 .. Len(cdc[p])
  BY DEF Typed, SourceTyped, Pending
<1>2. cdc[p] \in Seq(Events) /\ EventsFollow(p)
  BY DEF Typed, SourceTyped
<1>3. Event(p) = cdc[p][offset[p] + 1] /\ Event(p) \in Events
  BY <1>1, <1>2 DEF Event
<1>4. Event(p).next = Rate(p, offset[p] + 1)
  BY <1>1, <1>3 DEF Rate
<1>5. /\ Event(p).version >= 1 /\ Event(p).version <= dirty
      /\ Event(p).prev = Rate(p, (offset[p] + 1) - 1)
  BY <1>1, <1>2, <1>3 DEF EventsFollow
<1>6. p \in DOMAIN pg
  BY <1>1 DEF Typed, SourceTyped
<1> QED
  BY <1>1, <1>3, <1>4, <1>5, <1>6 DEF Events

(* Versions grow with the events.                                          *)
LEMMA VersionsGrow ==
    ASSUME Typed, NEW p \in Player, NEW i \in 1 .. Len(cdc[p]), NEW j \in 1 .. Len(cdc[p])
    PROVE  /\ cdc[p][i].version \in Nat /\ cdc[p][j].version \in Nat
           /\ i < j => cdc[p][i].version < cdc[p][j].version
           /\ i <= j => cdc[p][i].version <= cdc[p][j].version
<1>1. cdc[p] \in Seq(Events) /\ EventsFollow(p)
  BY DEF Typed, SourceTyped
<1>2. cdc[p][i].version \in Nat /\ cdc[p][j].version \in Nat
  <2>1. cdc[p][i] \in Events /\ cdc[p][j] \in Events
    BY <1>1
  <2> QED
    BY <2>1 DEF Events
<1>3. i < j => cdc[p][i].version < cdc[p][j].version
  BY <1>1 DEF EventsFollow
<1> QED
  BY <1>2, <1>3
-----------------------------------------------------------------------------
(* What a step leaves alone.                                               *)

LEMMA SourceFrame ==
    ASSUME Typed, UNCHANGED <<source, offset>> PROVE SourceTyped'
<1>1. pg' = pg /\ dirty' = dirty /\ cdc' = cdc /\ offset' = offset
  BY DEF source
<1> QED
  BY <1>1 DEF Typed, SourceTyped, EventsFollow, Rate

LEMMA BoardsFrame ==
    ASSUME Typed, UNCHANGED <<source, zset, applied>> PROVE BoardsTyped'
<1>1. pg' = pg /\ dirty' = dirty /\ zset' = zset /\ applied' = applied
  BY DEF source
<1> QED
  BY <1>1 DEF Typed, BoardsTyped, BoardTyped

(* A request goes on; its new state is as its type asks.                   *)
LEMMA RequestsFrame ==
    ASSUME Typed, NEW r \in Rebuild, NEW new, UNCHANGED source,
           rb' = [rb EXCEPT ![r] = new],
           meta.generation \in Nat, meta'.generation \in Nat,
           meta.generation <= meta'.generation,
           new \in Request(new.cursor, new.batch), new.watermark <= dirty,
           new.pc \notin {"start", "meta", "done"} =>
               new.newGen = new.liveGen + 1 /\ new.liveGen <= meta'.generation,
           new.pc \in {"start", "meta", "begin"} => new.cursor = << >>,
           new.pc = "write" => DOMAIN new.batch \subseteq DOMAIN pg
    PROVE  /\ rb' = [q \in Rebuild |-> rb'[q]] /\ \A q \in Rebuild : RequestTyped(q)'
           /\ rb'[r] = new /\ \A q \in Rebuild \ {r} : rb'[q] = rb[q]
<1>1. rb = [q \in Rebuild |-> rb[q]] /\ \A q \in Rebuild : RequestTyped(q)
  BY DEF Typed
<1>2. rb'[r] = new /\ \A q \in Rebuild \ {r} : rb'[q] = rb[q]
  BY <1>1
<1>3. rb' = [q \in Rebuild |-> rb'[q]]
  BY <1>1
<1>4. pg' = pg /\ dirty' = dirty
  BY DEF source
<1>5. RequestTyped(r)'
  BY <1>2, <1>4 DEF RequestTyped, Request
<1>6. ASSUME NEW q \in Rebuild \ {r} PROVE RequestTyped(q)'
  <2>1. RequestTyped(q) /\ rb'[q] = rb[q]
    BY <1>1, <1>2
  <2>2. rb[q].liveGen \in Nat
    BY RequestFields
  <2> QED
    BY <2>1, <2>2, <1>4 DEF RequestTyped, Request
<1> QED
  BY <1>2, <1>3, <1>5, <1>6

(* Who may have swapped once may have swapped for ever.                    *)
LEMMA SpentGrows ==
    ASSUME Typed, NEW r \in Rebuild, NEW new, rb' = [rb EXCEPT ![r] = new],
           rb[r].pc \in {"swapped", "abort", "done"} =>
               new.pc \in {"swapped", "abort", "done"}
    PROVE  /\ Cardinality(Spent) <= Cardinality(Spent')
           /\ Cardinality(Spent') \in Nat /\ Cardinality(Spent) \in Nat
           /\ (r \notin Spent /\ new.pc \in {"swapped", "abort", "done"}) =>
                Cardinality(Spent) + 1 <= Cardinality(Spent')
<1>1. rb = [q \in Rebuild |-> rb[q]]
  BY DEF Typed
<1>2. rb'[r] = new /\ \A q \in Rebuild \ {r} : rb'[q] = rb[q]
  BY <1>1
<1>3. Spent \subseteq Spent'
  BY <1>2 DEF Spent
<1>4. IsFiniteSet(Spent') /\ IsFiniteSet(Spent)
  BY BoardAssumption, FS_Subset DEF Spent
<1>5. Cardinality(Spent) <= Cardinality(Spent') /\ Cardinality(Spent') \in Nat
      /\ Cardinality(Spent) \in Nat
  BY <1>3, <1>4, FS_Subset, FS_CardinalityType
<1>6. ASSUME r \notin Spent, new.pc \in {"swapped", "abort", "done"}
      PROVE  Cardinality(Spent) + 1 <= Cardinality(Spent')
  <2>1. Spent \union {r} \subseteq Spent'
    BY <1>2, <1>3, <1>6 DEF Spent
  <2>2. Cardinality(Spent \union {r}) = Cardinality(Spent) + 1
    BY <1>4, <1>6, FS_AddElement
  <2>3. Cardinality(Spent \union {r}) <= Cardinality(Spent')
    BY <2>1, <1>4, FS_Subset
  <2> QED
    BY <2>2, <2>3
<1> QED
  BY <1>5, <1>6

(* A step of a request that touches neither the source nor Redis.          *)
LEMMA QuietRequestTyped ==
    ASSUME Typed, NEW r \in Rebuild, NEW new, UNCHANGED <<source, stream, redis>>,
           rb' = [rb EXCEPT ![r] = new],
           new \in Request(new.cursor, new.batch), new.watermark <= dirty,
           new.pc \notin {"start", "meta", "done"} =>
               new.newGen = new.liveGen + 1 /\ new.liveGen <= meta.generation,
           new.pc \in {"start", "meta", "begin"} => new.cursor = << >>,
           new.pc = "write" => DOMAIN new.batch \subseteq DOMAIN pg,
           rb[r].pc \in {"swapped", "abort", "done"} =>
               new.pc \in {"swapped", "abort", "done"},
           meta.token = r =>
               /\ new.pc \in {"reconcile", "page", "write", "cutover", "abort", "done"}
               /\ meta.rebuilding = new.newGen,
           new.pc \in {"page", "write", "cutover"} => meta.token = r
    PROVE  Typed'
<1>a. meta' = meta /\ zset' = zset /\ applied' = applied /\ offset' = offset
  BY DEF redis, stream
<1>b. meta.generation \in Nat
  BY DEF Typed, MetaTyped
<1>1. SourceTyped' /\ BoardsTyped'
  BY <1>a, SourceFrame, BoardsFrame DEF stream
<1>2. /\ rb' = [q \in Rebuild |-> rb'[q]] /\ \A q \in Rebuild : RequestTyped(q)'
      /\ rb'[r] = new /\ \A q \in Rebuild \ {r} : rb'[q] = rb[q]
  <2>1. meta'.generation \in Nat /\ meta.generation <= meta'.generation
    BY <1>a, <1>b
  <2>2. UNCHANGED source
    OBVIOUS
  <2>3. new.pc \notin {"start", "meta", "done"} =>
          new.newGen = new.liveGen + 1 /\ new.liveGen <= meta'.generation
    BY <1>a
  <2> QED
    BY <1>b, <2>1, <2>2, <2>3, RequestsFrame
<1>3. MetaTyped'
  <2>1. Cardinality(Spent) <= Cardinality(Spent') /\ Cardinality(Spent') \in Nat
        /\ Cardinality(Spent) \in Nat
    BY SpentGrows
  <2> QED
    BY <2>1, <1>a, <1>b DEF Typed, MetaTyped
<1>4. StagingOwned'
  <2> SUFFICES ASSUME NEW q \in Rebuild
               PROVE  /\ meta.token = q =>
                           /\ rb'[q].pc \in {"reconcile", "page", "write", "cutover",
                                             "abort", "done"}
                           /\ meta.rebuilding = rb'[q].newGen
                      /\ rb'[q].pc \in {"page", "write", "cutover"} => meta.token = q
    BY <1>a DEF StagingOwned
  <2>1. CASE q = r
    BY <2>1, <1>2
  <2>2. CASE q # r
    BY <2>2, <1>2 DEF Typed, StagingOwned
  <2> QED
    BY <2>1, <2>2
<1> QED
  BY <1>1, <1>2, <1>3, <1>4 DEF Typed

(* And what it must show of its own copy.                                  *)
LEMMA QuietRequestShown ==
    ASSUME Typed, EveryoneShown, NEW r \in Rebuild, NEW new,
           UNCHANGED <<source, stream, redis>>, rb' = [rb EXCEPT ![r] = new],
           \A p \in Player, k \in Nat :
              /\ Copying(r)' /\ ~Missed(p) /\ LiveAt(p, k)
              /\ (Copying(r) => StagedAt(r, p, k) /\ ReadAt(r, p, k) /\ MissingAt(r, p, k))
              => (StagedAt(r, p, k) /\ ReadAt(r, p, k) /\ MissingAt(r, p, k))'
    PROVE  EveryoneShown'
<1>a. /\ pg' = pg /\ dirty' = dirty /\ cdc' = cdc /\ offset' = offset /\ lost' = lost
      /\ meta' = meta /\ zset' = zset /\ applied' = applied
  BY DEF source, stream, redis
<1>b. \A q \in Rebuild \ {r} : rb'[q] = rb[q]
  BY DEF Typed
<1> SUFFICES ASSUME NEW p \in Player, ~Missed(p)' PROVE PlayerShown(p)'
  BY DEF EveryoneShown
<1>1. ~Missed(p)
  BY <1>a DEF Missed
<1>2. PICK k \in Nat : LiveAt(p, k) /\ CopyAt(p, k)
  BY <1>1 DEF EveryoneShown, PlayerShown
<1>3. LiveAt(p, k)'
  BY <1>2, <1>a DEF LiveAt, RowAt, FreshAfter, Rate
<1>4. ASSUME NEW q \in Rebuild, Copying(q)'
      PROVE  (StagedAt(q, p, k) /\ ReadAt(q, p, k) /\ MissingAt(q, p, k))'
  <2>1. CASE q = r
    BY <2>1, <1>1, <1>2, <1>4 DEF CopyAt
  <2>2. CASE q # r
    <3>1. rb'[q] = rb[q]
      BY <2>2, <1>b
    <3>2. Copying(q)
      BY <3>1, <1>4, <1>a DEF Copying
    <3>3. StagedAt(q, p, k) /\ ReadAt(q, p, k) /\ MissingAt(q, p, k)
      BY <3>2, <1>2 DEF CopyAt
    <3>4. StagedAt(q, p, k)'
      BY <3>1, <3>3, <1>a DEF StagedAt, RowAt, FreshAfter, Rate
    <3>5. ReadAt(q, p, k)'
      BY <3>1, <3>3, <1>a DEF ReadAt, InBatch, Kept, FreshAfter, Rate
    <3>6. MissingAt(q, p, k)'
      BY <3>1, <3>3, <1>a DEF MissingAt, InBatch, Ahead, LastPage, Behind
    <3> QED
      BY <3>4, <3>5, <3>6
  <2> QED
    BY <2>1, <2>2
<1> QED
  BY <1>3, <1>4 DEF PlayerShown, CopyAt
-----------------------------------------------------------------------------
(* A player whose rows and events stay as they are is shown as before.     *)
UntouchedRow(g, p) ==
    /\ p \in DOMAIN zset'[g] <=> p \in DOMAIN zset[g]
    /\ p \in DOMAIN zset[g] => zset'[g][p] = zset[g][p] /\ applied'[g][p] = applied[g][p]

LEMMA RowIsKept ==
    ASSUME Typed, NEW p \in Player, NEW g \in Generation, NEW k \in Nat, UNCHANGED source,
           UntouchedRow(g, p), p \in DOMAIN zset[g], RowAt(g, p, k)
    PROVE  RowAt(g, p, k)'
<1>1. zset'[g][p] = zset[g][p] /\ applied'[g][p] = applied[g][p] /\ cdc' = cdc
  BY DEF UntouchedRow, source
<1> QED
  BY <1>1 DEF RowAt, FreshAfter, Rate

LEMMA CopyIsKept ==
    ASSUME Typed, BoardsTyped', NEW p \in Player, NEW k \in Nat, CopyAt(p, k),
           UNCHANGED <<source, rb>>, meta'.token = meta.token,
           \A g \in Generation : UntouchedRow(g, p)
    PROVE  CopyAt(p, k)'
<1>a. pg' = pg /\ dirty' = dirty /\ cdc' = cdc /\ rb' = rb
  BY DEF source
<1> SUFFICES ASSUME NEW r \in Rebuild, Copying(r)'
             PROVE  (StagedAt(r, p, k) /\ ReadAt(r, p, k) /\ MissingAt(r, p, k))'
  BY DEF CopyAt
<1> DEFINE g == rb[r].newGen
<1>1. Copying(r) /\ StagedAt(r, p, k) /\ ReadAt(r, p, k) /\ MissingAt(r, p, k)
  BY <1>a DEF Copying, CopyAt
<1>2. g \in Generation /\ rb'[r].newGen = g
  BY <1>a, RequestFields
<1>3. /\ p \in DOMAIN zset'[g] <=> p \in DOMAIN zset[g]
      /\ p \in DOMAIN zset[g] => applied'[g][p] = applied[g][p]
  BY <1>2 DEF UntouchedRow
<1>4. DOMAIN zset'[g] = DOMAIN applied'[g] /\ DOMAIN zset[g] = DOMAIN applied[g]
  BY <1>2 DEF Typed, BoardsTyped, BoardTyped
<1>5. StagedAt(r, p, k)'
  <2> SUFFICES ASSUME p \in DOMAIN zset'[g]
               PROVE  \E ks \in k .. Len(cdc[p]) :
                          /\ RowAt(g, p, ks)'
                          /\ applied'[g][p] < rb[r].watermark =>
                               ks >= 1 /\ applied'[g][p] = cdc[p][ks].version
    BY <1>2, <1>a DEF StagedAt
  <2>1. PICK ks \in k .. Len(cdc[p]) :
            /\ RowAt(g, p, ks)
            /\ applied[g][p] < rb[r].watermark =>
                 ks >= 1 /\ applied[g][p] = cdc[p][ks].version
    BY <1>1, <1>3 DEF StagedAt
  <2>2. RowAt(g, p, ks)'
    BY <2>1, <1>2, <1>3, RowIsKept
  <2> QED
    BY <2>1, <2>2, <1>3
<1>6. Kept(r, p)' <=> Kept(r, p)
  BY <1>2, <1>3, <1>4, <1>a DEF Kept
<1>7. ReadAt(r, p, k)'
  BY <1>1, <1>6, <1>a DEF ReadAt, InBatch, FreshAfter, Rate
<1>8. MissingAt(r, p, k)'
  BY <1>1, <1>2, <1>3, <1>a DEF MissingAt, InBatch, Ahead, LastPage, Behind
<1> QED
  BY <1>5, <1>7, <1>8

LEMMA OthersAreShown ==
    ASSUME Typed, BoardsTyped', NEW p \in Player, NEW k \in Nat, LiveAt(p, k), CopyAt(p, k),
           UNCHANGED <<source, rb>>, offset'[p] = offset[p],
           meta'.generation = meta.generation, meta'.ready = meta.ready,
           meta'.token = meta.token, \A g \in Generation : UntouchedRow(g, p)
    PROVE  LiveAt(p, k)' /\ CopyAt(p, k)'
<1> DEFINE g == meta.generation
<1>1. g \in Generation /\ meta'.generation = g /\ pg' = pg /\ cdc' = cdc
  BY LiveIsInRange DEF source
<1>2. p \in DOMAIN zset'[g] <=> p \in DOMAIN zset[g]
  BY <1>1 DEF UntouchedRow
<1>3. p \in DOMAIN zset[g] => RowAt(g, p, k)'
  BY <1>1, RowIsKept DEF LiveAt
<1>4. LiveAt(p, k)'
  BY <1>1, <1>2, <1>3 DEF LiveAt
<1> QED
  BY <1>4, CopyIsKept

(* What a generation answers to the next event of a player.                *)
LEMMA VerdictOnNext ==
    ASSUME Typed, NEW g \in Generation, NEW p \in Player, Pending(p)
    PROVE  /\ p \notin DOMAIN zset[g] => Verdict(g, p, Event(p)) = "applied"
           /\ p \in DOMAIN zset[g] =>
                /\ applied[g][p] \in Nat
                /\ Verdict(g, p, Event(p)) = "applied" => applied[g][p] < Event(p).version
                /\ Verdict(g, p, Event(p)) = "again" =>
                     zset[g][p] = Event(p).next /\ applied[g][p] = Event(p).version
                /\ Verdict(g, p, Event(p)) # "applied" =>
                     \A k \in Nat : k >= offset[p] /\ RowAt(g, p, k) => k >= offset[p] + 1
<1> DEFINE e == Event(p)
           o == offset[p]
<1>1. /\ o \in Nat /\ o + 1 \in 1 .. Len(cdc[p]) /\ Len(cdc[p]) \in Nat
      /\ e = cdc[p][o + 1] /\ e.version \in Nat /\ e.version >= 1 /\ e.prev = Rate(p, o)
  BY NextEvent
<1>2. DOMAIN zset[g] = DOMAIN applied[g]
      /\ \A q \in DOMAIN zset[g] : applied[g][q] \in Nat
  BY DEF Typed, BoardsTyped, BoardTyped
<1>3. ASSUME p \notin DOMAIN zset[g] PROVE Verdict(g, p, e) = "applied"
  <2>1. Version(g, p) = 0
    BY <1>2, <1>3 DEF Version
  <2>2. ~(Version(g, p) > e.version) /\ Version(g, p) # e.version
    BY <2>1, <1>1
  <2> HIDE DEF e
  <2> QED
    BY <2>2, <1>3 DEF Verdict
<1>4. ASSUME p \in DOMAIN zset[g]
      PROVE  /\ applied[g][p] \in Nat
             /\ Verdict(g, p, e) = "applied" => applied[g][p] < e.version
             /\ Verdict(g, p, e) = "again" =>
                     zset[g][p] = e.next /\ applied[g][p] = e.version
             /\ Verdict(g, p, e) # "applied" =>
                     \A k \in Nat : k >= o /\ RowAt(g, p, k) => k >= o + 1
  <2>1. Version(g, p) = applied[g][p] /\ applied[g][p] \in Nat
    BY <1>2, <1>4 DEF Version
  <2>2. Verdict(g, p, e) = "applied" => applied[g][p] < e.version
    <3> HIDE DEF e
    <3> QED
      BY <2>1, <1>1, <1>4 DEF Verdict
  <2>3. Verdict(g, p, e) = "again" => zset[g][p] = e.next /\ applied[g][p] = e.version
    <3> HIDE DEF e
    <3> QED
      BY <2>1, <1>1, <1>4 DEF Verdict
  <2>4. ASSUME RowAt(g, p, o) PROVE Verdict(g, p, e) = "applied"
    <3>1. zset[g][p] = e.prev
      BY <2>4, <1>1 DEF RowAt
    <3>2. cdc[p][o + 1].version > applied[g][p]
      BY <2>4, <1>1 DEF RowAt, FreshAfter
    <3>3. e.version > applied[g][p]
      BY <3>2, <1>1
    <3> HIDE DEF e
    <3> QED
      BY <3>1, <3>3, <2>1, <1>1 DEF Verdict
  <2>5. ASSUME Verdict(g, p, e) # "applied", NEW k \in Nat, k >= o, RowAt(g, p, k)
        PROVE  k >= o + 1
    <3>1. k # o
      BY <2>4, <2>5
    <3> QED
      BY <3>1, <2>5, <1>1
  <2> QED
    BY <2>1, <2>2, <2>3, <2>5
<1> QED
  BY <1>3, <1>4

(* The row an event wrote is that of the event.                            *)
LEMMA WrittenRow ==
    ASSUME Typed, NEW g \in Generation, NEW p \in Player, Pending(p), cdc' = cdc,
           NEW n \in Nat, n = offset[p] + 1,
           zset'[g][p] = Event(p).next, applied'[g][p] = Event(p).version
    PROVE  RowAt(g, p, n)'
<1>1. /\ n \in 1 .. Len(cdc[p]) /\ Len(cdc[p]) \in Nat
      /\ Event(p) = cdc[p][n] /\ Event(p).next = Rate(p, n)
  BY NextEvent
<1>2. Rate(p, n)' = Rate(p, n)
  BY DEF Rate
<1>3. \A j \in n + 1 .. Len(cdc[p]) : cdc[p][j].version > cdc[p][n].version
  <2> TAKE j \in n + 1 .. Len(cdc[p])
  <2>1. j \in 1 .. Len(cdc[p]) /\ n < j
    BY <1>1
  <2> QED
    BY <2>1, <1>1, VersionsGrow
<1> QED
  BY <1>1, <1>2, <1>3 DEF RowAt, FreshAfter
(* What a script writes for an event, and what it leaves.                  *)
LEMMA UpsertRows ==
    ASSUME Typed, NEW p \in Player, Pending(p), UNCHANGED source, Upsert(p, Event(p))
    PROVE  /\ \A g \in Generation : g \in Targets(p, Event(p)) =>
                /\ p \in DOMAIN zset'[g]
                /\ zset'[g][p] = Event(p).next /\ applied'[g][p] = Event(p).version
           /\ \A g \in Generation : g \notin Targets(p, Event(p)) =>
                zset'[g] = zset[g] /\ applied'[g] = applied[g]
           /\ \A g \in Generation, q \in Player \ {p} : UntouchedRow(g, q)
           /\ \A g \in Generation : DOMAIN zset[g] \subseteq DOMAIN zset'[g]
           /\ BoardsTyped'
<1> DEFINE e == Event(p)
           to == Targets(p, e)
<1>1. /\ zset' = [g \in Generation |-> IF g \in to THEN Put(zset[g], p, e.next) ELSE zset[g]]
      /\ applied' = [g \in Generation |-> IF g \in to THEN Put(applied[g], p, e.version)
                                                      ELSE applied[g]]
  BY DEF Upsert
<1>2. p \in DOMAIN pg /\ e.version \in Nat /\ e.version <= dirty
  BY NextEvent
<1>3. \A g \in to : g # 0
  <2>1. HasLive => meta.generation # 0
    BY DEF HasLive
  <2>2. HasRebuild => meta.rebuilding # 0
    BY DEF HasRebuild
  <2> HIDE DEF e
  <2> QED
    BY <2>1, <2>2 DEF Targets
<1> HIDE DEF e, to
<1>4. \A g \in Generation : g \in to =>
         /\ p \in DOMAIN zset'[g]
         /\ zset'[g][p] = e.next /\ applied'[g][p] = e.version
  BY <1>1 DEF Put
<1>5. \A g \in Generation : g \notin to => zset'[g] = zset[g] /\ applied'[g] = applied[g]
  BY <1>1
<1>6. ASSUME NEW g \in Generation
      PROVE  /\ DOMAIN zset[g] = DOMAIN applied[g] /\ DOMAIN zset[g] \subseteq DOMAIN pg
             /\ \A q \in DOMAIN zset[g] : applied[g][q] \in Nat /\ applied[g][q] <= dirty
             /\ g = 0 => DOMAIN zset[g] = {}
  BY DEF Typed, BoardsTyped, BoardTyped
<1>7. ASSUME NEW g \in Generation
      PROVE  /\ DOMAIN zset[g] \subseteq DOMAIN zset'[g]
             /\ \A q \in Player \ {p} : UntouchedRow(g, q)
             /\ BoardTyped(g)'
  <2>1. pg' = pg /\ dirty' = dirty
    BY DEF source
  <2>2. CASE g \notin to
    <3>1. zset'[g] = zset[g] /\ applied'[g] = applied[g]
      BY <2>2, <1>5
    <3> QED
      BY <3>1, <2>1, <1>6 DEF UntouchedRow, BoardTyped
  <2>3. CASE g \in to
    <3>1. /\ zset'[g] = [q \in DOMAIN zset[g] \union {p} |->
                            IF q = p THEN e.next ELSE zset[g][q]]
          /\ applied'[g] = [q \in DOMAIN zset[g] \union {p} |->
                            IF q = p THEN e.version ELSE applied[g][q]]
      BY <2>3, <1>1, <1>6 DEF Put
    <3>2. DOMAIN zset'[g] = DOMAIN zset[g] \union {p}
          /\ DOMAIN applied'[g] = DOMAIN zset[g] \union {p}
      BY <3>1
    <3>3. \A q \in Player \ {p} : UntouchedRow(g, q)
      BY <3>1, <3>2 DEF UntouchedRow
    <3>4. \A q \in DOMAIN zset'[g] : applied'[g][q] \in Nat /\ applied'[g][q] <= dirty'
      BY <3>1, <3>2, <1>2, <1>6, <2>1
    <3>5. g # 0
      BY <2>3, <1>3
    <3> QED
      BY <3>2, <3>3, <3>4, <3>5, <2>1, <1>2, <1>6 DEF BoardTyped
  <2> QED
    BY <2>2, <2>3
<1>8. BoardsTyped'
  BY <1>1, <1>7 DEF BoardsTyped
<1> QED
  BY <1>4, <1>5, <1>7, <1>8 DEF e, to

LEMMA UpsertMeta ==
    ASSUME Typed, NEW p \in Player, Pending(p), Upsert(p, Event(p))
    PROVE  /\ meta' \in [generation : Nat, ready : BOOLEAN, rebuilding : Generation,
                         token : Rebuild \union {NoToken}, version : Nat,
                         memberCount : {meta'.memberCount}]
           /\ meta'.generation = meta.generation /\ meta'.ready = meta.ready
           /\ meta'.rebuilding = meta.rebuilding /\ meta'.token = meta.token
           /\ meta'.version >= meta.version
           /\ meta'.memberCount = IF Answer(p, Event(p)) \in {"applied", "again"}
                                  THEN MemberCount(zset') ELSE meta.memberCount
<1> DEFINE count == IF Answer(p, Event(p)) \in {"applied", "again"}
                    THEN MemberCount(zset') ELSE meta.memberCount
           version == IF Answer(p, Event(p)) = "applied"
                      THEN Larger(meta.version, Event(p).version) ELSE meta.version
<1>1. /\ meta \in [generation : Nat, ready : BOOLEAN, rebuilding : Generation,
                  token : Rebuild \union {NoToken}, version : Nat,
                  memberCount : {meta.memberCount}]
      /\ Event(p).version \in Nat
  BY NextEvent DEF Typed, MetaTyped
<1>2. meta' = [meta EXCEPT !.memberCount = count, !.version = version]
  BY <1>1 DEF Upsert
<1>3. version \in Nat /\ version >= meta.version
  BY <1>1 DEF Larger
<1> HIDE DEF count, version
<1>4. meta'.memberCount = count
  BY <1>1, <1>2
<1>5. meta' \in [generation : Nat, ready : BOOLEAN, rebuilding : Generation,
                  token : Rebuild \union {NoToken}, version : Nat,
                  memberCount : {count}]
  BY <1>1, <1>2, <1>3
<1>6. /\ meta'.generation = meta.generation /\ meta'.ready = meta.ready
      /\ meta'.rebuilding = meta.rebuilding /\ meta'.token = meta.token
      /\ meta'.version >= meta.version
  BY <1>1, <1>2, <1>3
<1> QED
  BY <1>4, <1>5, <1>6 DEF count
(* Once an event that the live generation takes has been offered to the    *)
(* staging generation, that one is at least as far.                        *)
LEMMA UpsertStages ==
    ASSUME Typed, BoardsTyped', NEW p \in Player, Pending(p), UNCHANGED <<source, rb>>,
           NEW r \in Rebuild, Copying(r), NEW k \in Nat, k >= offset[p],
           NEW n \in Nat, n = offset[p] + 1, StagedAt(r, p, k), ReadAt(r, p, k),
           NEW g \in Generation, g = rb[r].newGen,
           Verdict(g, p, Event(p)) = "applied" =>
               /\ p \in DOMAIN zset'[g] /\ zset'[g][p] = Event(p).next
               /\ applied'[g][p] = Event(p).version,
           Verdict(g, p, Event(p)) # "applied" =>
               zset'[g] = zset[g] /\ applied'[g] = applied[g]
    PROVE  (StagedAt(r, p, n) /\ ReadAt(r, p, n) /\ MissingAt(r, p, n))'
<1> DEFINE e == Event(p)
           mark == rb[r].watermark
<1>a. pg' = pg /\ cdc' = cdc /\ rb' = rb
  BY DEF source
<1>b. /\ offset[p] \in Nat /\ n \in 1 .. Len(cdc[p]) /\ Len(cdc[p]) \in Nat
      /\ e = cdc[p][n] /\ e.version \in Nat
  BY NextEvent
<1>c. mark \in Nat
  BY RequestFields
<1>d. /\ DOMAIN zset[g] = DOMAIN applied[g] /\ DOMAIN zset'[g] = DOMAIN applied'[g]
      /\ p \in DOMAIN zset[g] => applied[g][p] \in Nat
  BY DEF Typed, BoardsTyped, BoardTyped
<1>1. CASE Verdict(g, p, e) = "applied"
  <2>1. p \in DOMAIN zset'[g] /\ applied'[g][p] = e.version /\ zset'[g][p] = e.next
    BY <1>1
  <2>2. RowAt(g, p, n)'
    BY <2>1, <1>a, WrittenRow
  <2>3. StagedAt(r, p, n)'
    <3>1. n \in n .. Len(cdc'[p])
      BY <1>a, <1>b
    <3> QED
      BY <2>1, <2>2, <3>1, <1>a, <1>b DEF StagedAt
  <2>4. ASSUME InBatch(r, p), ~Kept(r, p)'
        PROVE  \E kb \in n .. Len(cdc[p]) :
                   rb[r].batch[p] = Rate(p, kb) /\ FreshAfter(p, kb, mark)
    <3>1. e.version < mark
      BY <2>1, <2>4, <1>a, <1>b, <1>c, <1>d DEF Kept
    <3>2. ~Kept(r, p)
      <4>1. p \in DOMAIN zset[g] => applied[g][p] < e.version
        BY <1>1, VerdictOnNext
      <4> QED
        BY <4>1, <3>1, <1>b, <1>c, <1>d DEF Kept
    <3>3. PICK kb \in k .. Len(cdc[p]) :
              rb[r].batch[p] = Rate(p, kb) /\ FreshAfter(p, kb, mark)
      BY <3>2, <2>4 DEF ReadAt
    <3>4. kb # offset[p]
      BY <3>1, <3>3, <1>b, <1>c DEF FreshAfter
    <3> QED
      BY <3>3, <3>4, <1>b
  <2>5. ReadAt(r, p, n)'
    BY <2>4, <1>a DEF ReadAt, InBatch, FreshAfter, Rate
  <2>6. MissingAt(r, p, n)'
    BY <2>1, <1>a DEF MissingAt
  <2> QED
    BY <2>3, <2>5, <2>6
<1>2. CASE Verdict(g, p, e) # "applied"
  <2>1. p \in DOMAIN zset[g] /\ zset'[g] = zset[g] /\ applied'[g] = applied[g]
    BY <1>2, VerdictOnNext
  <2>2. PICK ks \in k .. Len(cdc[p]) :
            /\ RowAt(g, p, ks)
            /\ applied[g][p] < mark => ks >= 1 /\ applied[g][p] = cdc[p][ks].version
    BY <2>1 DEF StagedAt
  <2>3. ks \in n .. Len(cdc[p])
    <3>1. ks >= offset[p] + 1
      BY <1>2, <1>b, <2>1, <2>2, VerdictOnNext
    <3> QED
      BY <3>1, <1>b
  <2>4. RowAt(g, p, ks)'
    BY <2>1, <2>2, <1>a DEF RowAt, FreshAfter, Rate
  <2>5. StagedAt(r, p, n)'
    BY <2>1, <2>2, <2>3, <2>4, <1>a DEF StagedAt
  <2>6. ASSUME InBatch(r, p), ~Kept(r, p)'
        PROVE  \E kb \in n .. Len(cdc[p]) :
                   rb[r].batch[p] = Rate(p, kb) /\ FreshAfter(p, kb, mark)
    <3>1. ~Kept(r, p) /\ applied[g][p] < mark
      BY <2>1, <2>6, <1>a, <1>c, <1>d DEF Kept
    <3>2. PICK kb \in k .. Len(cdc[p]) :
              rb[r].batch[p] = Rate(p, kb) /\ FreshAfter(p, kb, mark)
      BY <3>1, <2>6 DEF ReadAt
    <3>3. e.version < mark
      <4>1. ks \in 1 .. Len(cdc[p]) /\ n <= ks
        BY <2>3, <1>b
      <4>2. cdc[p][n].version <= cdc[p][ks].version /\ cdc[p][ks].version \in Nat
        BY <4>1, <1>b, VersionsGrow
      <4>3. applied[g][p] = cdc[p][ks].version /\ applied[g][p] < mark
        BY <2>2, <3>1
      <4>4. e.version = cdc[p][n].version /\ e.version \in Nat /\ mark \in Nat
        BY <1>b, <1>c
      <4> HIDE DEF e, mark
      <4> QED
        BY ONLY <4>2, <4>3, <4>4
    <3>4. kb # offset[p]
      BY <3>2, <3>3, <1>b, <1>c DEF FreshAfter
    <3> QED
      BY <3>2, <3>4, <1>b
  <2>7. ReadAt(r, p, n)'
    BY <2>6, <1>a DEF ReadAt, InBatch, FreshAfter, Rate
  <2>8. MissingAt(r, p, n)'
    BY <2>1, <1>a DEF MissingAt
  <2> QED
    BY <2>5, <2>7, <2>8
<1> QED
  BY <1>1, <1>2
(* Live takes the event, has taken it before, or refuses one it is past.   *)
Taken(p) == ~HasLive \/ Verdict(meta.generation, p, Event(p)) \in {"applied", "again"}

LEMMA VerdictIsOneOfFour ==
    ASSUME NEW g, NEW p, NEW e
    PROVE  Verdict(g, p, e) \in {"applied", "again", "stale", "conflict"}
BY DEF Verdict

(* The live row after an event it takes is the one the event gives.        *)
LEMMA UpsertLive ==
    ASSUME Typed, BoardsTyped', NEW p \in Player, Pending(p), UNCHANGED source,
           Upsert(p, Event(p)), Taken(p), NEW g \in Generation, g = meta.generation,
           NEW n \in Nat, n = offset[p] + 1
    PROVE  /\ p \in DOMAIN zset'[g] => RowAt(g, p, n)'
           /\ p \notin DOMAIN zset'[g] => ~meta.ready /\ p \notin DOMAIN zset[g]
<1> DEFINE e == Event(p)
           to == Targets(p, e)
<1>a. cdc' = cdc
  BY DEF source
<1>b. /\ g \in to => /\ p \in DOMAIN zset'[g]
                     /\ zset'[g][p] = e.next /\ applied'[g][p] = e.version
      /\ g \notin to => zset'[g] = zset[g] /\ applied'[g] = applied[g]
  BY UpsertRows
<1>1. CASE HasLive
  <2>1. Verdict(g, p, e) \in {"applied", "again"}
    BY <1>1 DEF Taken
  <2>2. Verdict(g, p, e) = "applied" => g \in to
    <3> HIDE DEF e
    <3> QED
      BY <1>1 DEF Targets
  <2>3. g \notin to =>
          p \in DOMAIN zset[g] /\ zset[g][p] = e.next /\ applied[g][p] = e.version
    BY <2>1, <2>2, VerdictOnNext
  <2>4. p \in DOMAIN zset'[g] /\ zset'[g][p] = e.next /\ applied'[g][p] = e.version
    BY <1>b, <2>3
  <2> QED
    BY <2>4, <1>a, WrittenRow
<1>2. CASE ~HasLive
  <2>1. g = 0 /\ ~meta.ready
    BY <1>2 DEF HasLive, Typed, MetaTyped
  <2>2. DOMAIN zset'[g] = {} /\ DOMAIN zset[g] = {}
    BY <2>1 DEF Typed, BoardsTyped, BoardTyped
  <2> QED
    BY <2>1, <2>2
<1> QED
  BY <1>1, <1>2

(* Staging is offered every event that live takes.                         *)
LEMMA UpsertCopy ==
    ASSUME Typed, BoardsTyped', NEW p \in Player, Pending(p), UNCHANGED <<source, rb>>,
           Upsert(p, Event(p)), Taken(p), NEW k \in Nat, k >= offset[p], CopyAt(p, k),
           NEW n \in Nat, n = offset[p] + 1
    PROVE  CopyAt(p, n)'
<1> DEFINE e == Event(p)
           to == Targets(p, e)
<1> SUFFICES ASSUME NEW r \in Rebuild, Copying(r)'
             PROVE  (StagedAt(r, p, n) /\ ReadAt(r, p, n) /\ MissingAt(r, p, n))'
  BY DEF CopyAt
<1> DEFINE g == rb[r].newGen
<1>1. Copying(r)
  BY UpsertMeta DEF Copying
<1>2. /\ g \in Generation /\ meta.rebuilding = g /\ g # 0 /\ g # meta.generation
  BY <1>1, StagingIsApart DEF Copying
<1>3. StagedAt(r, p, k) /\ ReadAt(r, p, k)
  BY <1>1 DEF CopyAt
<1>4. g \in to <=> Verdict(g, p, e) = "applied"
  <2> HIDE DEF e
  <2> QED
    BY <1>2 DEF Targets, Taken, HasRebuild, e
<1>5. /\ Verdict(g, p, e) = "applied" =>
           /\ p \in DOMAIN zset'[g] /\ zset'[g][p] = e.next
           /\ applied'[g][p] = e.version
      /\ Verdict(g, p, e) # "applied" => zset'[g] = zset[g] /\ applied'[g] = applied[g]
  BY <1>2, <1>4, UpsertRows
<1> QED
  BY <1>1, <1>2, <1>3, <1>5, UpsertStages

(* An event that live refuses is written nowhere, and live is past it.     *)
LEMMA UpsertRefused ==
    ASSUME Typed, NEW p \in Player, Pending(p), UNCHANGED source, Upsert(p, Event(p)), ~Taken(p)
    PROVE  /\ zset' = zset /\ applied' = applied
           /\ p \in DOMAIN zset[meta.generation]
           /\ \A k \in Nat : k >= offset[p] /\ RowAt(meta.generation, p, k)
                                => k >= offset[p] + 1
<1> DEFINE e == Event(p)
           g == meta.generation
<1>1. HasLive /\ Verdict(g, p, e) \notin {"applied", "again"} /\ g \in Generation
  BY LiveIsInRange DEF Taken
<1>2. Targets(p, e) = {}
  <2> HIDE DEF e
  <2> QED
    BY <1>1 DEF Targets, e
<1>3. zset' = zset /\ applied' = applied
  <2>1. zset = [h \in Generation |-> zset[h]] /\ applied = [h \in Generation |-> applied[h]]
    BY DEF Typed, BoardsTyped
  <2>2. zset' = [h \in Generation |-> zset[h]] /\ applied' = [h \in Generation |-> applied[h]]
    BY <1>2 DEF Upsert
  <2> QED
    BY <2>1, <2>2
<1>4. p \in DOMAIN zset[g]
  BY <1>1, VerdictOnNext
<1>5. \A k \in Nat : k >= offset[p] /\ RowAt(g, p, k) => k >= offset[p] + 1
  BY <1>1, <1>4, VerdictOnNext
<1> QED
  BY <1>3, <1>4, <1>5
LEMMA UpsertShown ==
    ASSUME Typed, BoardsTyped', NEW p \in Player, Pending(p), UNCHANGED <<source, rb>>,
           Upsert(p, Event(p)), NEW k \in Nat, LiveAt(p, k), CopyAt(p, k),
           offset'[p] \in {offset[p], offset[p] + 1}
    PROVE  PlayerShown(p)'
<1> PICK n \in Nat : n = offset[p] + 1
  BY NextEvent
<1> PICK g \in Generation : g = meta.generation
  BY LiveIsInRange
<1>a. /\ offset[p] \in Nat /\ n \in 1 .. Len(cdc[p]) /\ Len(cdc[p]) \in Nat
  BY NextEvent
<1>b. pg' = pg /\ cdc' = cdc /\ meta'.generation = g /\ meta'.ready = meta.ready
      /\ meta'.token = meta.token
  BY UpsertMeta DEF source
<1>d. k >= offset[p] /\ k <= Len(cdc[p])
  BY <1>a DEF LiveAt
<1>1. CASE Taken(p)
  <2>1. CopyAt(p, n)'
    BY <1>1, <1>d, UpsertCopy
  <2>2. /\ p \in DOMAIN zset'[g] => RowAt(g, p, n)'
        /\ p \notin DOMAIN zset'[g] => ~meta.ready /\ p \notin DOMAIN zset[g]
    BY <1>1, UpsertLive
  <2>3. CASE p \in DOMAIN zset'[g] \/ offset'[p] = n
    <3>1. LiveAt(p, n)'
      BY <1>a, <1>b, <2>2, <2>3 DEF LiveAt
    <3> QED
      BY <3>1, <2>1, <1>a DEF PlayerShown
  <2>4. CASE p \notin DOMAIN zset'[g] /\ offset'[p] = offset[p]
    <3>1. k = offset[p] /\ ~meta.ready
      BY <2>2, <2>4 DEF LiveAt
    <3>2. LiveAt(p, k)'
      BY <3>1, <2>4, <1>a, <1>b DEF LiveAt
    <3>3. ASSUME NEW r \in Rebuild, Copying(r)'
          PROVE  (StagedAt(r, p, k) /\ ReadAt(r, p, k) /\ MissingAt(r, p, k))'
      <4>1. (StagedAt(r, p, n) /\ ReadAt(r, p, n))'
        BY <3>3, <2>1 DEF CopyAt
      <4>2. \A i \in n .. Len(cdc'[p]) : i \in k .. Len(cdc'[p])
        BY <3>1, <1>a, <1>b
      <4>3. StagedAt(r, p, k)'
        <5> HIDE DEF RowAt
        <5> QED
          BY <4>1, <4>2 DEF StagedAt
      <4>4. ReadAt(r, p, k)'
        BY <4>1, <4>2 DEF ReadAt
      <4>5. MissingAt(r, p, k)'
        BY <3>1, <1>a, <1>b DEF MissingAt
      <4> QED
        BY <4>3, <4>4, <4>5
    <3> QED
      BY <3>2, <3>3 DEF PlayerShown, CopyAt
  <2> QED
    BY <2>3, <2>4
<1>2. CASE ~Taken(p)
  <2>1. zset' = zset /\ applied' = applied /\ p \in DOMAIN zset[g]
    BY <1>2, UpsertRefused
  <2>2. RowAt(g, p, k)
    BY <2>1 DEF LiveAt
  <2>3. k >= n
    BY <1>2, <1>d, <2>2, UpsertRefused
  <2>4. \A h \in Generation : UntouchedRow(h, p)
    BY <2>1 DEF UntouchedRow
  <2>5. CopyAt(p, k)'
    BY <2>4, <1>b, CopyIsKept
  <2>6. RowAt(g, p, k)'
    BY <2>1, <2>2, <2>4, RowIsKept
  <2>7. LiveAt(p, k)'
    BY <2>1, <2>3, <2>6, <1>a, <1>b, <1>d DEF LiveAt
  <2> QED
    BY <2>5, <2>7 DEF PlayerShown
<1> QED
  BY <1>1, <1>2
-----------------------------------------------------------------------------
(* The consumer's steps.                                                   *)

LEMMA OffsetFrame ==
    ASSUME Typed, UNCHANGED source, NEW p \in Player, Pending(p),
           offset' \in {offset, [offset EXCEPT ![p] = @ + 1]}
    PROVE  SourceTyped'
<1>1. pg' = pg /\ dirty' = dirty /\ cdc' = cdc
  BY DEF source
<1>2. /\ offset \in [Player -> Nat] /\ \A q \in Player : offset[q] <= Len(cdc[q])
      /\ offset[p] + 1 <= Len(cdc[p])
  BY NextEvent DEF Typed, SourceTyped
<1>3. offset' \in [Player -> Nat] /\ \A q \in Player : offset'[q] <= Len(cdc[q])
  BY <1>2
<1> QED
  BY <1>1, <1>3 DEF Typed, SourceTyped, EventsFollow, Rate

LEMMA IdleRequests ==
    ASSUME Typed, UNCHANGED <<source, rb>>, meta'.generation = meta.generation,
           meta'.token = meta.token, meta'.rebuilding = meta.rebuilding
    PROVE  /\ (rb = [r \in Rebuild |-> rb[r]] /\ \A r \in Rebuild : RequestTyped(r))'
           /\ StagingOwned' /\ Spent' = Spent
<1>1. pg' = pg /\ dirty' = dirty /\ rb' = rb
  BY DEF source
<1>2. (rb = [r \in Rebuild |-> rb[r]] /\ \A r \in Rebuild : RequestTyped(r))'
  BY <1>1 DEF Typed, RequestTyped, Request
<1>3. StagingOwned'
  BY <1>1 DEF Typed, StagingOwned
<1> QED
  BY <1>1, <1>2, <1>3 DEF Spent

LEMMA UpsertTyped ==
    ASSUME Typed, NEW p \in Player, Pending(p), UNCHANGED <<source, rb>>,
           Upsert(p, Event(p)), offset' \in {offset, [offset EXCEPT ![p] = @ + 1]}
    PROVE  Typed'
<1>1. SourceTyped'
  BY OffsetFrame
<1>2. BoardsTyped'
  BY UpsertRows
<1>3. /\ meta' \in [generation : Nat, ready : BOOLEAN, rebuilding : Generation,
                     token : Rebuild \union {NoToken}, version : Nat,
                     memberCount : {meta'.memberCount}]
      /\ meta'.generation = meta.generation /\ meta'.ready = meta.ready
      /\ meta'.rebuilding = meta.rebuilding /\ meta'.token = meta.token
  BY UpsertMeta
<1>4. /\ (rb = [r \in Rebuild |-> rb[r]] /\ \A r \in Rebuild : RequestTyped(r))'
      /\ StagingOwned' /\ Spent' = Spent
  BY <1>3, IdleRequests
<1>5. MetaTyped'
  BY <1>3, <1>4 DEF Typed, MetaTyped
<1> QED
  BY <1>1, <1>2, <1>4, <1>5 DEF Typed

(* The recorded count is that of the live set, if the script wrote to it.  *)
LEMMA UpsertServed ==
    ASSUME Typed, ReadyIsServed, NEW p \in Player, Pending(p), UNCHANGED source,
           Upsert(p, Event(p))
    PROVE  ReadyIsServed'
<1> SUFFICES ASSUME meta.ready
             PROVE  meta'.memberCount = Cardinality(DOMAIN zset'[meta.generation])
  BY UpsertMeta DEF ReadyIsServed, Served
<1>1. HasLive /\ meta.memberCount = Cardinality(DOMAIN zset[meta.generation])
  BY DEF HasLive, ReadyIsServed, Served, Typed, MetaTyped
<1>2. meta'.memberCount = IF Answer(p, Event(p)) \in {"applied", "again"}
                          THEN MemberCount(zset') ELSE meta.memberCount
  BY UpsertMeta
<1>3. MemberCount(zset') = Cardinality(DOMAIN zset'[meta.generation])
  BY <1>1 DEF MemberCount
<1>4. Answer(p, Event(p)) = Verdict(meta.generation, p, Event(p))
  BY <1>1 DEF Answer
<1>5. Answer(p, Event(p)) \notin {"applied", "again"} => zset' = zset
  BY <1>1, <1>4, UpsertRefused DEF Taken
<1> QED
  BY <1>1, <1>2, <1>3, <1>5

LEMMA UpsertInvariant ==
    ASSUME BoardInv, NEW p \in Player, Pending(p), UNCHANGED <<source, lost, rb>>,
           Upsert(p, Event(p)), offset' \in {offset, [offset EXCEPT ![p] = @ + 1]}
    PROVE  BoardInv'
<1> USE DEF BoardInv
<1>1. Typed' /\ BoardsTyped' /\ ReadyIsServed'
  BY UpsertTyped, UpsertServed DEF Typed
<1>2. ASSUME NEW q \in Player, ~Missed(q)' PROVE PlayerShown(q)'
  <2>1. PICK k \in Nat : LiveAt(q, k) /\ CopyAt(q, k)
    BY <1>2 DEF Missed, EveryoneShown, PlayerShown
  <2>2. CASE q = p
    <3>1. offset'[p] \in {offset[p], offset[p] + 1}
      BY DEF Typed, SourceTyped
    <3> QED
      BY <3>1, <2>1, <2>2, <1>1, UpsertShown
  <2>3. CASE q # p
    <3>1. offset'[q] = offset[q]
      BY <2>3 DEF Typed, SourceTyped
    <3>2. \A g \in Generation : UntouchedRow(g, q)
      BY <2>3, UpsertRows
    <3>3. LiveAt(q, k)' /\ CopyAt(q, k)'
      BY <3>1, <3>2, <2>1, <1>1, UpsertMeta, OthersAreShown
    <3> QED
      BY <3>3 DEF PlayerShown
  <2> QED
    BY <2>2, <2>3
<1> QED
  BY <1>1, <1>2 DEF EveryoneShown

LEMMA ConsumeInvariant ==
    ASSUME BoardInv, NEW p \in Player, Consume(p) \/ ConsumeUnacknowledged(p)
    PROVE  BoardInv'
<1>1. /\ Pending(p) /\ Upsert(p, Event(p)) /\ UNCHANGED <<source, lost, rb>>
      /\ offset' \in {offset, [offset EXCEPT ![p] = @ + 1]}
  BY DEF Consume, ConsumeUnacknowledged, stream
<1> QED
  BY <1>1, UpsertInvariant

LEMMA LoseInvariant ==
    ASSUME BoardInv, NEW p \in Player, LoseEvent(p)
    PROVE  BoardInv'
<1> USE DEF BoardInv
<1>a. /\ Pending(p) /\ UNCHANGED <<source, redis, rb>>
      /\ lost' = lost \union {<<p, offset[p] + 1>>}
      /\ offset' = [offset EXCEPT ![p] = @ + 1]
  BY DEF LoseEvent
<1>b. meta' = meta /\ zset' = zset /\ applied' = applied
  BY <1>a DEF redis
<1>1. SourceTyped' /\ BoardsTyped'
  BY <1>a, <1>b, OffsetFrame, BoardsFrame
<1>2. /\ (rb = [r \in Rebuild |-> rb[r]] /\ \A r \in Rebuild : RequestTyped(r))'
      /\ StagingOwned' /\ Spent' = Spent
  BY <1>a, <1>b, IdleRequests
<1>3. MetaTyped'
  BY <1>2, <1>b DEF Typed, MetaTyped
<1>4. Typed'
  BY <1>1, <1>2, <1>3 DEF Typed
<1>5. ReadyIsServed'
  BY <1>b DEF ReadyIsServed, Served
<1>6. ASSUME NEW q \in Player, ~Missed(q)' PROVE PlayerShown(q)'
  <2>1. q # p /\ ~Missed(q)
    <3>1. <<p, offset[p] + 1>> \in lost' /\ lost \subseteq lost'
      BY <1>a
    <3>2. <<p, offset[p] + 1>>[1] = p
      OBVIOUS
    <3> QED
      BY <3>1, <3>2, <1>6 DEF Missed
  <2>2. PICK k \in Nat : LiveAt(q, k) /\ CopyAt(q, k)
    BY <2>1 DEF EveryoneShown, PlayerShown
  <2>3. offset'[q] = offset[q]
    BY <2>1, <1>a DEF Typed, SourceTyped
  <2>4. \A g \in Generation : UntouchedRow(g, q)
    BY <1>b DEF UntouchedRow
  <2>5. LiveAt(q, k)' /\ CopyAt(q, k)'
    BY <2>2, <2>3, <2>4, <1>a, <1>b, <1>1, OthersAreShown
  <2> QED
    BY <2>5 DEF PlayerShown
<1> QED
  BY <1>4, <1>5, <1>6 DEF EveryoneShown
-----------------------------------------------------------------------------
(* A commit appends to the events of the players it moves.                 *)

LEMMA CommitAppends ==
    ASSUME Typed, NEW new, DOMAIN new \subseteq Player, \A p \in DOMAIN new : new[p] \in Int,
           CommitScores(new), NEW p \in Player
    PROVE  /\ Len(cdc[p]) \in Nat /\ cdc'[p] \in Seq(Events)
           /\ Len(cdc'[p]) = IF p \in DOMAIN new THEN Len(cdc[p]) + 1 ELSE Len(cdc[p])
           /\ \A i \in 1 .. Len(cdc[p]) : cdc'[p][i] = cdc[p][i]
           /\ \A i \in 0 .. Len(cdc[p]) : Rate(p, i)' = Rate(p, i)
           /\ p \in DOMAIN new =>
                /\ cdc'[p][Len(cdc[p]) + 1].version = dirty + 1
                /\ cdc'[p][Len(cdc[p]) + 1].prev = Rate(p, Len(cdc[p]))
                /\ cdc'[p][Len(cdc[p]) + 1].next = new[p]
<1> DEFINE n == Len(cdc[p])
<1>1. /\ cdc[p] \in Seq(Events) /\ n \in Nat /\ dirty \in Nat
      /\ p \in DOMAIN pg => pg[p] \in Int /\ pg[p] = Rate(p, n)
      /\ p \notin DOMAIN pg => n = 0
  BY DEF Typed, SourceTyped
<1>2. cdc'[p] = IF p \in DOMAIN new THEN Append(cdc[p], Change(p, new[p])) ELSE cdc[p]
  BY DEF CommitScores
<1>3. p \in DOMAIN new => Change(p, new[p]) \in Events
  BY <1>1 DEF Change, Events
<1>4. (IF p \in DOMAIN pg THEN pg[p] ELSE 1) = Rate(p, n)
  BY <1>1 DEF Rate
<1>5. /\ cdc'[p] \in Seq(Events)
      /\ Len(cdc'[p]) = IF p \in DOMAIN new THEN n + 1 ELSE n
      /\ \A i \in 1 .. n : cdc'[p][i] = cdc[p][i]
      /\ p \in DOMAIN new => cdc'[p][n + 1] = Change(p, new[p])
  BY <1>1, <1>2, <1>3
<1>6. \A i \in 0 .. n : Rate(p, i)' = Rate(p, i)
  <2> TAKE i \in 0 .. n
  <2>1. i = 0 \/ i \in 1 .. n
    BY <1>1
  <2> QED
    BY <2>1, <1>5 DEF Rate
<1>7. p \in DOMAIN new =>
        /\ cdc'[p][n + 1].version = dirty + 1
        /\ cdc'[p][n + 1].prev = Rate(p, n)
        /\ cdc'[p][n + 1].next = new[p]
  BY <1>4, <1>5 DEF Change
<1> QED
  BY <1>1, <1>5, <1>6, <1>7

LEMMA CommitTyped ==
    ASSUME Typed, dirty < Len(Commits), NEW new \in Commits[dirty + 1], CommitScores(new)
    PROVE  /\ Typed' /\ DOMAIN new \subseteq Player /\ \A p \in DOMAIN new : new[p] \in Int
           /\ dirty \in Nat /\ dirty' = dirty + 1
<1>a. dirty \in Nat /\ dirty' = dirty + 1 /\ Len(Commits) \in Nat
  BY BoardAssumption DEF Typed, SourceTyped, CommitScores
<1>b. DOMAIN new \subseteq Player /\ \A p \in DOMAIN new : new[p] \in Int
  <2>1. dirty + 1 \in 1 .. Len(Commits)
    BY <1>a
  <2>2. DOMAIN new \subseteq Player /\ new \in [DOMAIN new -> Int]
    BY <2>1, BoardAssumption
  <2> QED
    BY <2>2
<1>c. /\ offset' = offset /\ lost' = lost /\ meta' = meta /\ zset' = zset
      /\ applied' = applied /\ rb' = rb
  BY DEF CommitScores, stream, redis
<1>d. pg' = [p \in DOMAIN pg \union DOMAIN new |-> IF p \in DOMAIN new THEN new[p] ELSE pg[p]]
  BY DEF CommitScores
<1>e. DOMAIN pg' = DOMAIN pg \union DOMAIN new
  BY <1>d
<1>1. ASSUME NEW p \in Player
      PROVE  /\ EventsFollow(p)' /\ (p \notin DOMAIN pg' => Len(cdc'[p]) = 0)
             /\ offset'[p] <= Len(cdc'[p])
             /\ p \in DOMAIN pg' => pg'[p] \in Int /\ pg'[p] = Rate(p, Len(cdc[p]))'
  <2> DEFINE n == Len(cdc[p])
  <2>1. /\ n \in Nat /\ cdc'[p] \in Seq(Events)
        /\ Len(cdc'[p]) = IF p \in DOMAIN new THEN n + 1 ELSE n
        /\ \A i \in 1 .. n : cdc'[p][i] = cdc[p][i]
        /\ \A i \in 0 .. n : Rate(p, i)' = Rate(p, i)
        /\ p \in DOMAIN new =>
             /\ cdc'[p][n + 1].version = dirty + 1
             /\ cdc'[p][n + 1].prev = Rate(p, n)
             /\ cdc'[p][n + 1].next = new[p]
    BY <1>b, CommitAppends
  <2>2. /\ EventsFollow(p) /\ cdc[p] \in Seq(Events)
        /\ p \notin DOMAIN pg => n = 0
        /\ p \in DOMAIN pg => pg[p] \in Int /\ pg[p] = Rate(p, n)
        /\ offset[p] \in Nat /\ offset[p] <= n
    BY DEF Typed, SourceTyped
  <2>3. ASSUME NEW i \in 1 .. n
        PROVE  /\ cdc'[p][i].version >= 1 /\ cdc'[p][i].version <= dirty
               /\ cdc'[p][i].prev = Rate(p, i - 1)'
               /\ \A j \in 1 .. i - 1 : cdc'[p][j].version < cdc'[p][i].version
               /\ cdc'[p][i].version \in Nat
    <3>1. /\ cdc[p][i].version >= 1 /\ cdc[p][i].version <= dirty
          /\ cdc[p][i].prev = Rate(p, i - 1)
          /\ \A j \in 1 .. i - 1 : cdc[p][j].version < cdc[p][i].version
      BY <2>2 DEF EventsFollow
    <3>2. i - 1 \in 0 .. n /\ \A j \in 1 .. i - 1 : j \in 1 .. n
      BY <2>1
    <3>3. cdc[p][i].version \in Nat
      BY VersionsGrow
    <3> QED
      BY <3>1, <3>2, <3>3, <2>1
  <2>4. EventsFollow(p)'
    <3> SUFFICES ASSUME NEW i \in 1 .. Len(cdc'[p])
                 PROVE  /\ cdc'[p][i].version >= 1 /\ cdc'[p][i].version <= dirty'
                        /\ cdc'[p][i].prev = Rate(p, i - 1)'
                        /\ \A j \in 1 .. i - 1 : cdc'[p][j].version < cdc'[p][i].version
      BY DEF EventsFollow
    <3>1. CASE i \in 1 .. n
      BY <3>1, <2>3, <1>a
    <3>2. CASE i \notin 1 .. n
      <4>1. i = n + 1 /\ p \in DOMAIN new
        BY <3>2, <2>1
      <4>2. cdc'[p][i].version = dirty + 1 /\ cdc'[p][i].prev = Rate(p, n)
        BY <4>1, <2>1
      <4>3. i - 1 = n /\ Rate(p, n)' = Rate(p, n)' /\ n \in 0 .. n
        BY <4>1, <2>1
      <4>4. \A j \in 1 .. i - 1 : cdc'[p][j].version < cdc'[p][i].version
        BY <4>2, <4>3, <2>3, <1>a
      <4>5. cdc'[p][i].prev = Rate(p, i - 1)'
        <5>1. \A m \in 0 .. n : Rate(p, m)' = Rate(p, m)
          BY <2>1
        <5>2. PICK m \in Nat : m = i - 1
          BY <4>3, <2>1
        <5>3. m \in 0 .. n /\ m = n
          BY <5>2, <4>3
        <5>4. Rate(p, m)' = Rate(p, m)
          BY <5>1, <5>3
        <5> QED
          BY <5>2, <5>3, <5>4, <4>2 DEF Rate
      <4> QED
        BY <4>2, <4>4, <4>5, <1>a
    <3> QED
      BY <3>1, <3>2
  <2>5. p \notin DOMAIN pg' => Len(cdc'[p]) = 0
    BY <1>e, <2>1, <2>2
  <2>6. offset'[p] <= Len(cdc'[p])
    BY <1>c, <2>1, <2>2
  <2>7. ASSUME p \in DOMAIN pg' PROVE pg'[p] \in Int /\ pg'[p] = Rate(p, Len(cdc[p]))'
    <3>1. CASE p \in DOMAIN new
      <4>1. pg'[p] = new[p] /\ new[p] \in Int
        BY <3>1, <1>b, <1>d
      <4>2. Rate(p, Len(cdc[p]))' = cdc'[p][n + 1].next
        BY <3>1, <2>1 DEF Rate
      <4> QED
        BY <3>1, <4>1, <4>2, <2>1
    <3>2. CASE p \notin DOMAIN new
      <4>1. p \in DOMAIN pg /\ pg'[p] = pg[p]
        BY <3>2, <2>7, <1>d, <1>e
      <4>2. Len(cdc'[p]) = n /\ cdc'[p] = cdc[p]
        BY <3>2, <2>1 DEF CommitScores
      <4> QED
        BY <4>1, <4>2, <2>2 DEF Rate
    <3> QED
      BY <3>1, <3>2
  <2> QED
    BY <2>4, <2>5, <2>6, <2>7
<1>2. SourceTyped'
  <2>1. DOMAIN pg' \subseteq Player
    BY <1>b, <1>e DEF Typed, SourceTyped
  <2>2. dirty' \in Nat /\ dirty' <= Len(Commits)
    BY <1>a
  <2>3. cdc' \in [Player -> Seq(Events)]
    <3>1. \A p \in Player : cdc'[p] \in Seq(Events)
      BY <1>b, CommitAppends
    <3>2. cdc' = [p \in Player |-> cdc'[p]]
      BY DEF CommitScores
    <3> QED
      BY <3>1, <3>2
  <2>4. offset' \in [Player -> Nat]
    BY <1>c DEF Typed, SourceTyped
  <2>5. pg' = [p \in DOMAIN pg' |-> pg'[p]]
    BY <1>d
  <2>6. \A p \in DOMAIN pg' : pg'[p] \in Int /\ pg'[p] = Rate(p, Len(cdc[p]))'
    BY <2>1, <1>1
  <2> QED
    BY <1>1, <2>1, <2>2, <2>3, <2>4, <2>5, <2>6 DEF SourceTyped
<1>3. BoardsTyped'
  <2> SUFFICES ASSUME NEW g \in Generation PROVE BoardTyped(g)'
    BY <1>c DEF Typed, BoardsTyped
  <2>1. BoardTyped(g)
    BY DEF Typed, BoardsTyped
  <2> QED
    BY <2>1, <1>a, <1>c, <1>e DEF BoardTyped
<1>4. ASSUME NEW r \in Rebuild PROVE RequestTyped(r)'
  <2>1. RequestTyped(r) /\ rb[r].watermark \in Nat
    BY RequestFields DEF Typed
  <2>2. rb[r] \in Request(rb[r].cursor, rb[r].batch) /\ rb[r].watermark <= dirty'
    BY <2>1, <1>a DEF RequestTyped
  <2> QED
    BY <2>1, <2>2, <1>c, <1>e DEF RequestTyped
<1>5. MetaTyped' /\ StagingOwned' /\ rb' = [r \in Rebuild |-> rb'[r]]
  BY <1>c DEF Typed, MetaTyped, Spent, StagingOwned
<1> QED
  BY <1>a, <1>b, <1>2, <1>3, <1>4, <1>5 DEF Typed

(* The new event is past every fence and every watermark.                  *)
LEMMA CommitInvariant ==
    ASSUME BoardInv, dirty < Len(Commits), NEW new \in Commits[dirty + 1], CommitScores(new)
    PROVE  BoardInv'
<1> USE DEF BoardInv
<1>a. /\ offset' = offset /\ lost' = lost /\ meta' = meta /\ zset' = zset
      /\ applied' = applied /\ rb' = rb
  BY DEF CommitScores, stream, redis
<1>b. /\ Typed' /\ DOMAIN new \subseteq Player /\ \A p \in DOMAIN new : new[p] \in Int
      /\ dirty \in Nat /\ dirty' = dirty + 1
  BY CommitTyped
<1>c. pg' = [p \in DOMAIN pg \union DOMAIN new |-> IF p \in DOMAIN new THEN new[p] ELSE pg[p]]
  BY DEF CommitScores
<1>d. DOMAIN pg' = DOMAIN pg \union DOMAIN new
  BY <1>c
<1>1. ReadyIsServed'
  BY <1>a DEF ReadyIsServed, Served
<1>2. ASSUME NEW p \in Player, ~Missed(p)' PROVE PlayerShown(p)'
  <2>1. PICK k \in Nat : LiveAt(p, k) /\ CopyAt(p, k)
    BY <1>2, <1>a DEF Missed, EveryoneShown, PlayerShown
  <2> DEFINE n == Len(cdc[p])
  <2>2. /\ n \in Nat
        /\ Len(cdc'[p]) = IF p \in DOMAIN new THEN n + 1 ELSE n
        /\ \A i \in 1 .. n : cdc'[p][i] = cdc[p][i]
        /\ \A i \in 0 .. n : Rate(p, i)' = Rate(p, i)
        /\ p \in DOMAIN new => cdc'[p][n + 1].version = dirty + 1
    BY <1>b, CommitAppends
  <2>3. ASSUME NEW i \in Nat, NEW fence \in Nat, fence <= dirty, FreshAfter(p, i, fence)
        PROVE  FreshAfter(p, i, fence)'
    <3> SUFFICES ASSUME NEW j \in i + 1 .. Len(cdc'[p]) PROVE cdc'[p][j].version > fence
      BY DEF FreshAfter
    <3>1. CASE j \in 1 .. n
      <4>1. j \in i + 1 .. Len(cdc[p])
        BY <3>1, <2>2
      <4> QED
        BY <4>1, <3>1, <2>2, <2>3 DEF FreshAfter
    <3>2. CASE j \notin 1 .. n
      <4>1. j = n + 1 /\ p \in DOMAIN new
        BY <3>2, <2>2
      <4> QED
        BY <4>1, <2>2, <2>3, <1>b
    <3> QED
      BY <3>1, <3>2
  <2>4. ASSUME NEW g \in Generation, NEW i \in 0 .. n, p \in DOMAIN zset[g], RowAt(g, p, i)
        PROVE  RowAt(g, p, i)'
    <3>1. applied[g][p] \in Nat /\ applied[g][p] <= dirty
      BY <2>4 DEF Typed, BoardsTyped, BoardTyped
    <3>2. FreshAfter(p, i, applied[g][p]) /\ zset[g][p] = Rate(p, i) /\ i \in Nat
      BY <2>4, <2>2 DEF RowAt
    <3>3. PICK fence \in Nat : fence = applied[g][p]
      BY <3>1
    <3>4. FreshAfter(p, i, fence)'
      BY <3>1, <3>2, <3>3, <2>3
    <3> QED
      BY <3>2, <3>3, <3>4, <2>2, <1>a DEF RowAt, FreshAfter
  <2>5. LiveAt(p, k)'
    <3>1. PICK g \in Generation : g = meta.generation
      BY LiveIsInRange
    <3>2. k \in offset[p] .. n /\ offset[p] \in Nat /\ k \in 0 .. n
      BY <2>1, <2>2 DEF LiveAt, Typed, SourceTyped
    <3>3. p \in DOMAIN zset[g] => RowAt(g, p, k)'
      BY <2>1, <2>4, <3>1, <3>2 DEF LiveAt
    <3>4. k \in offset'[p] .. Len(cdc'[p])
      BY <3>2, <2>2, <1>a
    <3>5. ASSUME p \notin DOMAIN zset[g]
          PROVE  k = offset[p] /\ (meta.ready /\ p \in DOMAIN pg' => k < Len(cdc'[p]))
      <4>1. k = offset[p] /\ (meta.ready /\ p \in DOMAIN pg => k < n)
        BY <3>1, <3>5, <2>1 DEF LiveAt
      <4> QED
        BY <4>1, <3>2, <2>2, <1>d
    <3> QED
      BY <3>1, <3>3, <3>4, <3>5, <1>a DEF LiveAt
  <2>6. ASSUME NEW r \in Rebuild, Copying(r)'
        PROVE  (StagedAt(r, p, k) /\ ReadAt(r, p, k) /\ MissingAt(r, p, k))'
    <3>1. StagedAt(r, p, k) /\ ReadAt(r, p, k) /\ MissingAt(r, p, k)
      BY <2>1, <2>6, <1>a DEF Copying, CopyAt
    <3>2. PICK g \in Generation : g = rb[r].newGen
      BY RequestFields
    <3>3. StagedAt(r, p, k)'
      <4> SUFFICES ASSUME p \in DOMAIN zset[g]
                   PROVE  \E ks \in k .. Len(cdc'[p]) :
                            /\ RowAt(g, p, ks)'
                            /\ applied[g][p] < rb[r].watermark =>
                                 ks >= 1 /\ applied[g][p] = cdc'[p][ks].version
        BY <3>2, <1>a DEF StagedAt
      <4>1. PICK ks \in k .. n :
                /\ RowAt(g, p, ks)
                /\ applied[g][p] < rb[r].watermark =>
                     ks >= 1 /\ applied[g][p] = cdc[p][ks].version
        BY <3>1, <3>2 DEF StagedAt
      <4>2. ks \in 0 .. n /\ ks \in k .. Len(cdc'[p]) /\ (ks >= 1 => ks \in 1 .. n)
        BY <2>2
      <4>3. RowAt(g, p, ks)'
        BY <4>1, <4>2, <2>4
      <4> QED
        BY <4>1, <4>2, <4>3, <2>2
    <3>4. ReadAt(r, p, k)'
      <4> SUFFICES ASSUME InBatch(r, p), ~Kept(r, p)
                   PROVE  \E kb \in k .. Len(cdc'[p]) :
                            /\ rb[r].batch[p] = Rate(p, kb)'
                            /\ FreshAfter(p, kb, rb[r].watermark)'
        BY <1>a DEF ReadAt, InBatch, Kept
      <4>1. PICK kb \in k .. n :
                rb[r].batch[p] = Rate(p, kb) /\ FreshAfter(p, kb, rb[r].watermark)
        BY <3>1 DEF ReadAt
      <4>2. kb \in 0 .. n /\ kb \in Nat /\ kb \in k .. Len(cdc'[p])
        BY <2>2
      <4>3. PICK fence \in Nat : fence = rb[r].watermark /\ fence <= dirty
        BY RequestFields
      <4>4. FreshAfter(p, kb, fence)'
        BY <4>1, <4>2, <4>3, <2>3
      <4>5. FreshAfter(p, kb, rb[r].watermark)'
        BY <4>3, <4>4, <1>a DEF FreshAfter
      <4>6. rb[r].batch[p] = Rate(p, kb)'
        BY <4>1, <4>2, <2>2
      <4> QED
        BY <4>2, <4>5, <4>6
    <3>5. MissingAt(r, p, k)'
      <4>1. CASE p \in DOMAIN new
        <5>1. k <= n
          BY <2>1, <2>2 DEF LiveAt, Typed, SourceTyped
        <5>2. k < Len(cdc'[p])
          BY <5>1, <4>1, <2>2
        <5> QED
          BY <5>2 DEF MissingAt
      <4>2. CASE p \notin DOMAIN new
        <5>1. p \in DOMAIN pg' => p \in DOMAIN pg /\ pg'[p] = pg[p]
          BY <4>2, <1>c, <1>d
        <5>2. p \in DOMAIN pg' => (Ahead(r, p)' <=> Ahead(r, p))
          BY <5>1, <1>a DEF Ahead, Behind, LastPage
        <5> QED
          BY <5>1, <5>2, <3>1, <4>2, <2>2, <1>a DEF MissingAt, InBatch
      <4> QED
        BY <4>1, <4>2
    <3> QED
      BY <3>3, <3>4, <3>5
  <2> QED
    BY <2>5, <2>6 DEF PlayerShown, CopyAt
<1> QED
  BY <1>1, <1>2, <1>b DEF EveryoneShown
-----------------------------------------------------------------------------
(* The steps of a rebuild that leave Redis alone.                          *)

LEMMA ServedFrame == ASSUME ReadyIsServed, UNCHANGED redis PROVE ReadyIsServed'
BY DEF ReadyIsServed, Served, redis

(* A request that is past its reads goes on to another stage.              *)
LEMMA QuietGoto ==
    ASSUME BoardInv, NEW r \in Rebuild, UNCHANGED <<source, stream, redis>>,
           NEW s \in {"reconcile", "page", "cutover", "swapped", "abort", "done"}, Goto(r, s),
           rb[r].pc \notin {"start", "meta", "done"} \/ (rb[r].pc = "meta" /\ s = "done"),
           rb[r].pc \in {"swapped", "abort"} => s \in {"abort", "done"},
           s = "swapped" => meta.token # r,
           s \in {"page", "cutover"} => meta.token = r,
           \A p \in Player, k \in Nat :
               meta.token = r /\ s \in {"reconcile", "page", "cutover"}
                   /\ MissingAt(r, p, k) => MissingAt(r, p, k)'
    PROVE  BoardInv'
<1> USE DEF BoardInv
<1> DEFINE new == [rb[r] EXCEPT !.pc = s]
<1>a. rb' = [rb EXCEPT ![r].pc = s] /\ s \in Stages
  BY DEF Goto, Stages
<1>b. /\ rb' = [rb EXCEPT ![r] = new]
      /\ rb'[r].pc = s /\ rb'[r].watermark = rb[r].watermark
      /\ rb'[r].liveGen = rb[r].liveGen /\ rb'[r].newGen = rb[r].newGen
      /\ rb'[r].cursor = rb[r].cursor /\ rb'[r].batch = rb[r].batch
      /\ rb'[r] \in Request(rb'[r].cursor, rb'[r].batch)
  BY <1>a, MovedRequest
<1>c. rb'[r] = new
  BY <1>b DEF Typed
<1>d. meta' = meta /\ zset' = zset /\ applied' = applied /\ pg' = pg /\ cdc' = cdc
  BY DEF redis, source
<1>1. RequestTyped(r) /\ rb[r].watermark <= dirty
  BY RequestFields DEF Typed
<1>2. meta.token = r =>
         /\ rb[r].pc \in {"reconcile", "page", "write", "cutover", "abort", "done"}
         /\ meta.rebuilding = rb[r].newGen
  BY DEF Typed, StagingOwned
<1>3. /\ new \in Request(new.cursor, new.batch) /\ new.watermark <= dirty /\ new.pc = s
      /\ new.newGen = rb[r].newGen /\ new.liveGen = rb[r].liveGen
  BY <1>b, <1>c, <1>1
<1>4. new.pc \notin {"start", "meta", "done"} =>
           new.newGen = new.liveGen + 1 /\ new.liveGen <= meta.generation
  BY <1>1, <1>3 DEF RequestTyped
<1>5. Typed'
  <2>1. rb[r].pc \in {"swapped", "abort", "done"} => new.pc \in {"swapped", "abort", "done"}
    BY <1>3
  <2>2. meta.token = r =>
          /\ new.pc \in {"reconcile", "page", "write", "cutover", "abort", "done"}
          /\ meta.rebuilding = new.newGen
    BY <1>2, <1>3
  <2>3. new.pc \in {"page", "write", "cutover"} => meta.token = r
    BY <1>3
  <2> HIDE DEF new
  <2> QED
    BY <1>b, <1>3, <1>4, <2>1, <2>2, <2>3, QuietRequestTyped
<1>6. ASSUME NEW p \in Player, NEW k \in Nat, Copying(r)',
             Copying(r) => StagedAt(r, p, k) /\ ReadAt(r, p, k) /\ MissingAt(r, p, k)
      PROVE  (StagedAt(r, p, k) /\ ReadAt(r, p, k) /\ MissingAt(r, p, k))'
  <2>1. meta.token = r /\ s \in {"reconcile", "page", "cutover"}
    BY <1>6, <1>b, <1>d DEF Copying
  <2>2. Copying(r)
    BY <2>1, <1>2 DEF Copying
  <2>3. StagedAt(r, p, k)'
    BY <2>2, <1>6, <1>b, <1>d DEF StagedAt, RowAt, FreshAfter, Rate
  <2>4. ReadAt(r, p, k)'
    BY <2>1, <1>b DEF ReadAt, InBatch
  <2>5. MissingAt(r, p, k)'
    BY <2>1, <2>2, <1>6
  <2> QED
    BY <2>3, <2>4, <2>5
<1>7. EveryoneShown'
  <2> HIDE DEF new
  <2> QED
    BY <1>b, <1>6, QuietRequestShown
<1> QED
  BY <1>5, <1>7, ServedFrame

LEMMA ReadWatermarkInvariant ==
    ASSUME BoardInv, NEW r \in Rebuild, ReadWatermark(r) PROVE BoardInv'
<1> USE DEF BoardInv
<1> DEFINE new == [rb[r] EXCEPT !.pc = "meta", !.watermark = dirty]
<1>a. /\ rb[r].pc = "start" /\ UNCHANGED <<source, stream, redis>>
      /\ rb' = [rb EXCEPT ![r] = new]
  BY DEF ReadWatermark
<1>1. /\ rb[r] \in Request(rb[r].cursor, rb[r].batch) /\ rb[r].cursor = << >>
      /\ dirty \in Nat /\ meta.token # r /\ rb = [q \in Rebuild |-> rb[q]]
  BY <1>a DEF Typed, RequestTyped, SourceTyped, StagingOwned
<1>2. /\ new \in Request(new.cursor, new.batch) /\ new.watermark <= dirty
      /\ new.pc = "meta" /\ new.cursor = << >>
  <2>1. /\ new.pc = "meta" /\ new.watermark = dirty /\ new.cursor = rb[r].cursor
        /\ new.batch = rb[r].batch
    BY <1>1 DEF Request
  <2>2. new \in Request(rb[r].cursor, rb[r].batch)
    BY <1>1 DEF Request, Stages
  <2> QED
    BY <1>1, <2>1, <2>2
<1>3. ~Copying(r)'
  BY <1>a, <1>1, <1>2 DEF Copying
<1> HIDE DEF new
<1>4. Typed'
  BY <1>a, <1>1, <1>2, QuietRequestTyped
<1>5. EveryoneShown'
  BY <1>a, <1>3, QuietRequestShown
<1> QED
  BY <1>4, <1>5, <1>a, ServedFrame

(* A request that has not swapped leaves room for one more generation.     *)
LEMMA ReadMetaInvariant ==
    ASSUME BoardInv, NEW r \in Rebuild, ReadMeta(r) PROVE BoardInv'
<1> USE DEF BoardInv
<1> DEFINE new == [rb[r] EXCEPT !.pc = "begin", !.liveGen = meta.generation,
                                !.newGen = meta.generation + 1]
<1>a. /\ rb[r].pc = "meta" /\ UNCHANGED <<source, stream, redis>>
      /\ rb' = [rb EXCEPT ![r] = new]
  BY DEF ReadMeta
<1>1. /\ rb[r] \in Request(rb[r].cursor, rb[r].batch) /\ rb[r].cursor = << >>
      /\ rb[r].watermark <= dirty
      /\ meta.token # r /\ rb = [q \in Rebuild |-> rb[q]] /\ meta.generation \in Nat
  BY <1>a DEF Typed, RequestTyped, MetaTyped, StagingOwned
<1>2. meta.generation + 1 \in Generation
  <2>1. r \notin Spent
    BY <1>a DEF Spent
  <2>2. IsFiniteSet(Spent) /\ Cardinality(Spent) \in Nat
        /\ meta.generation <= Cardinality(Spent)
    BY LiveIsInRange
  <2>3. Cardinality(Spent \union {r}) = Cardinality(Spent) + 1
    BY <2>1, <2>2, FS_AddElement
  <2>4. Cardinality(Spent \union {r}) <= Cardinality(Rebuild)
    BY BoardAssumption, FS_Subset DEF Spent
  <2> QED
    BY <2>2, <2>3, <2>4, <1>1, GenerationsAreFew
<1>3. /\ new \in Request(new.cursor, new.batch) /\ new.watermark <= dirty
      /\ new.pc = "begin" /\ new.cursor = << >>
      /\ new.newGen = new.liveGen + 1 /\ new.liveGen = meta.generation
  BY <1>1, <1>2 DEF Request, Stages
<1>4. ~Copying(r)'
  BY <1>a, <1>1, <1>3 DEF Copying
<1> HIDE DEF new
<1>5. Typed'
  BY <1>a, <1>1, <1>3, QuietRequestTyped
<1>6. EveryoneShown'
  BY <1>a, <1>4, QuietRequestShown
<1> QED
  BY <1>5, <1>6, <1>a, ServedFrame

LEMMA ReconcileInvariant ==
    ASSUME BoardInv, NEW r \in Rebuild, reconcileBeginRebuild(r) PROVE BoardInv'
<1> USE DEF BoardInv
<1>a. /\ rb[r].pc = "reconcile" /\ UNCHANGED <<source, stream, redis>>
      /\ Goto(r, IF Owns(r) THEN "page" ELSE "done")
  BY DEF reconcileBeginRebuild
<1>b. pg' = pg /\ cdc' = cdc /\ zset' = zset
  BY <1>a DEF source, redis
<1>1. CASE Owns(r)
  <2>1. Goto(r, "page") /\ meta.token = r
    BY <1>a, <1>1 DEF Owns
  <2>2. /\ rb'[r].pc = "page" /\ rb'[r].newGen = rb[r].newGen
        /\ rb'[r].cursor = rb[r].cursor /\ rb'[r].batch = rb[r].batch
    BY <2>1, MovedRequest DEF Goto, Stages
  <2>3. \A p \in Player, k \in Nat : MissingAt(r, p, k) => MissingAt(r, p, k)'
    BY <1>a, <1>b, <2>2 DEF MissingAt, InBatch, Ahead, Behind
  <2> QED
    BY <1>a, <2>1, <2>3, QuietGoto
<1>2. CASE ~Owns(r)
  <2>1. Goto(r, "done")
    BY <1>a, <1>2
  <2> QED
    BY <1>a, <2>1, QuietGoto
<1> QED
  BY <1>1, <1>2

LEMMA CheckSwappedInvariant ==
    ASSUME BoardInv, NEW r \in Rebuild, CheckSwapped(r) PROVE BoardInv'
<1>1. /\ rb[r].pc = "swapped" /\ UNCHANGED <<source, stream, redis>>
      /\ Goto(r, "done") \/ Goto(r, "abort")
  BY DEF CheckSwapped
<1> QED
  BY <1>1, QuietGoto

LEMMA CrashInvariant ==
    ASSUME BoardInv, NEW r \in Rebuild, CrashRebuild(r) PROVE BoardInv'
<1>1. /\ rb[r].pc \notin {"start", "done"} /\ UNCHANGED <<source, stream, redis>>
      /\ Goto(r, "done")
  BY DEF CrashRebuild
<1> QED
  BY <1>1, QuietGoto
(* A page leaves out nobody who is behind the cursor and ahead of its end. *)
LEMMA PageLeavesNone ==
    ASSUME Typed, NEW cursor, NEW page \in LeaderboardKeysetPage(cursor)
    PROVE  /\ page \subseteq DOMAIN pg
           /\ page = {} => \A p \in DOMAIN pg : ~Behind(p, cursor)
           /\ \A last \in page, p \in DOMAIN pg \ page : Behind(p, cursor) =>
                Cardinality(page) = BatchSize /\ Behind(p, <<pg[last], last>>)
<1> DEFINE after == {p \in DOMAIN pg : Behind(p, cursor)}
<1>1. /\ page \subseteq after
      /\ page # after => Cardinality(page) = BatchSize
      /\ \A p \in page, q \in after \ page : Behind(q, <<pg[p], p>>)
  BY DEF LeaderboardKeysetPage
<1>2. page = {} => Cardinality(page) # BatchSize
  BY BoardAssumption, FS_EmptySet
<1>3. page = {} => after = {}
  BY <1>1, <1>2
<1> QED
  BY <1>1, <1>3

LEMMA ReadPageInvariant ==
    ASSUME BoardInv, NEW r \in Rebuild, ReadPage(r) PROVE BoardInv'
<1> USE DEF BoardInv
<1>a. /\ rb[r].pc = "page" /\ UNCHANGED <<source, stream, redis>>
  BY DEF ReadPage
<1>b. /\ pg' = pg /\ dirty' = dirty /\ cdc' = cdc /\ meta' = meta /\ zset' = zset
      /\ applied' = applied
  BY <1>a DEF source, redis
<1>c. meta.token = r /\ meta.rebuilding = rb[r].newGen /\ RequestTyped(r)
  BY <1>a, BoardAssumption DEF Typed, StagingOwned
<1>1. CASE Goto(r, "abort")
  BY <1>a, <1>1, QuietGoto
<1>2. CASE \E page \in LeaderboardKeysetPage(rb[r].cursor) : page = {} /\ Goto(r, "cutover")
  <2>1. Goto(r, "cutover") /\ \A p \in DOMAIN pg : ~Behind(p, rb[r].cursor)
    BY <1>2, PageLeavesNone
  <2>2. /\ rb'[r].pc = "cutover" /\ rb'[r].newGen = rb[r].newGen
    BY <2>1, MovedRequest DEF Goto, Stages
  <2>3. \A p \in Player, k \in Nat : MissingAt(r, p, k) => MissingAt(r, p, k)'
    BY <1>a, <1>b, <2>1, <2>2 DEF MissingAt, InBatch, Ahead
  <2> QED
    BY <1>a, <1>c, <2>1, <2>3, QuietGoto
<1>3. ASSUME NEW page \in LeaderboardKeysetPage(rb[r].cursor), NEW last \in page,
             rb' = [rb EXCEPT ![r] = [@ EXCEPT !.pc = "write",
                       !.batch = [p \in page |-> pg[p]], !.cursor = <<pg[last], last>>]]
      PROVE  BoardInv'
  <2> DEFINE batch == [p \in page |-> pg[p]]
             cursor == <<pg[last], last>>
             new == [rb[r] EXCEPT !.pc = "write", !.batch = batch, !.cursor = cursor]
  <2>1. /\ page \subseteq DOMAIN pg
        /\ \A p \in DOMAIN pg \ page : Behind(p, rb[r].cursor) =>
             Cardinality(page) = BatchSize /\ Behind(p, cursor)
    BY PageLeavesNone
  <2>2. rb' = [rb EXCEPT ![r] = new] /\ rb'[r] = new
    BY <1>3 DEF Typed
  <2>3. rb[r] \in Request(rb[r].cursor, rb[r].batch) /\ DOMAIN batch = page
    BY <1>c DEF RequestTyped
  <2>4. \A p \in page : batch[p] = pg[p]
    OBVIOUS
  <2> HIDE DEF batch, cursor
  <2>5. /\ new.pc = "write" /\ new.watermark = rb[r].watermark
        /\ new.liveGen = rb[r].liveGen /\ new.newGen = rb[r].newGen
        /\ new.cursor = cursor /\ new.batch = batch
    BY <2>3 DEF Request
  <2>6. new \in Request(cursor, batch)
    BY <2>3 DEF Request, Stages
  <2>7. new \in Request(new.cursor, new.batch) /\ DOMAIN new.batch \subseteq DOMAIN pg
    BY <2>1, <2>3, <2>5, <2>6
  <2>8. /\ new.watermark <= dirty
        /\ new.newGen = new.liveGen + 1 /\ new.liveGen <= meta.generation
    BY <1>a, <1>c, <2>5 DEF RequestTyped
  <2> HIDE DEF new
  <2>9. Typed'
    BY <1>a, <1>c, <2>2, <2>5, <2>7, <2>8, QuietRequestTyped
  <2>10. ASSUME NEW p \in Player, NEW k \in Nat, LiveAt(p, k), Copying(r)',
               Copying(r) => StagedAt(r, p, k) /\ ReadAt(r, p, k) /\ MissingAt(r, p, k)
         PROVE  (StagedAt(r, p, k) /\ ReadAt(r, p, k) /\ MissingAt(r, p, k))'
    <3>1. StagedAt(r, p, k) /\ MissingAt(r, p, k)
      BY <1>a, <1>c, <2>10 DEF Copying
    <3>2. StagedAt(r, p, k)'
      BY <3>1, <1>b, <2>2, <2>5 DEF StagedAt, RowAt, FreshAfter, Rate
    <3>3. ASSUME p \in page
          PROVE  /\ batch[p] = Rate(p, Len(cdc[p])) /\ Len(cdc[p]) \in k .. Len(cdc[p])
                 /\ FreshAfter(p, Len(cdc[p]), rb[r].watermark)
      <4>1. /\ pg[p] = Rate(p, Len(cdc[p])) /\ Len(cdc[p]) \in Nat /\ offset[p] \in Nat
        BY <2>1, <3>3 DEF Typed, SourceTyped
      <4>2. k <= Len(cdc[p])
        BY <2>10, <4>1 DEF LiveAt
      <4> QED
        BY <3>3, <2>4, <4>1, <4>2 DEF FreshAfter
    <3>4. ReadAt(r, p, k)'
      <4>1. InBatch(r, p)' => p \in page
        BY <2>2, <2>3, <2>5 DEF InBatch
      <4> QED
        BY <3>3, <4>1, <1>b, <2>2, <2>5 DEF ReadAt, FreshAfter, Rate
    <3>5. MissingAt(r, p, k)'
      <4> SUFFICES ASSUME p \in DOMAIN pg, p \notin DOMAIN zset[rb[r].newGen], p \notin page,
                          ~Ahead(r, p)'
                   PROVE  k < Len(cdc[p])
        BY <1>b, <2>2, <2>3, <2>5 DEF MissingAt, InBatch
      <4>1. ~Behind(p, rb[r].cursor)
        <5> SUFFICES ASSUME Behind(p, rb[r].cursor) PROVE FALSE
          OBVIOUS
        <5>1. Cardinality(page) = BatchSize /\ Behind(p, cursor)
          BY <2>1
        <5>2. Cardinality(DOMAIN rb'[r].batch) = BatchSize /\ rb'[r].cursor = cursor
          BY <5>1, <2>2, <2>3, <2>5
        <5>3. ~LastPage(r)' /\ Behind(p, rb[r].cursor)'
          BY <5>1, <5>2, <1>b, BoardAssumption DEF LastPage, Behind
        <5> QED
          BY <5>3, <2>2, <2>5 DEF Ahead
      <4> QED
        BY <4>1, <3>1, <1>a DEF MissingAt, InBatch, Ahead
    <3> QED
      BY <3>2, <3>4, <3>5
  <2>11. EveryoneShown'
    BY <1>a, <2>2, <2>10, QuietRequestShown
  <2> QED
    BY <2>9, <2>11, <1>a, ServedFrame
<1> QED
  BY <1>1, <1>2, <1>3 DEF ReadPage
-----------------------------------------------------------------------------
(* The steps of a rebuild that write to Redis.                             *)

LEMMA RedisTyped ==
    ASSUME Typed, NEW r \in Rebuild, NEW new, UNCHANGED <<source, stream>>,
           rb' = [rb EXCEPT ![r] = new], BoardsTyped',
           new \in Request(new.cursor, new.batch), new.watermark <= dirty,
           rb[r].pc \notin {"swapped", "abort", "done"}
               \/ new.pc \in {"swapped", "abort", "done"},
           new.pc \notin {"start", "meta", "begin"},
           new.newGen = new.liveGen + 1, new.liveGen <= meta'.generation,
           new.pc # "write",
           meta.token \in {r, NoToken}, meta'.token \in {r, NoToken},
           meta'.token = r =>
               /\ new.pc \in {"reconcile", "page", "write", "cutover", "abort", "done"}
               /\ meta'.rebuilding = new.newGen,
           new.pc \in {"page", "cutover"} => meta'.token = r,
           meta' \in [generation : Nat, ready : BOOLEAN, rebuilding : Generation,
                      token : Rebuild \union {NoToken}, version : Nat,
                      memberCount : {meta'.memberCount}],
           meta'.ready <=> meta'.generation >= 1,
           meta'.generation \in {meta.generation, meta.generation + 1},
           meta'.generation = meta.generation
               \/ (rb[r].pc = "cutover" /\ new.pc \in {"swapped", "done"}),
           (meta'.rebuilding = 0) <=> (meta'.token = NoToken),
           meta'.rebuilding # 0 => meta'.rebuilding = meta'.generation + 1
    PROVE  Typed'
<1>1. SourceTyped'
  BY SourceFrame DEF stream
<1>2. meta.generation \in Nat /\ meta.generation <= meta'.generation
  BY LiveIsInRange
<1>3. /\ rb' = [q \in Rebuild |-> rb'[q]] /\ \A q \in Rebuild : RequestTyped(q)'
      /\ rb'[r] = new /\ \A q \in Rebuild \ {r} : rb'[q] = rb[q]
  BY <1>2, RequestsFrame
<1>4. MetaTyped'
  <2>1. /\ Cardinality(Spent) <= Cardinality(Spent')
        /\ Cardinality(Spent') \in Nat /\ Cardinality(Spent) \in Nat
        /\ (r \notin Spent /\ new.pc \in {"swapped", "abort", "done"}) =>
             Cardinality(Spent) + 1 <= Cardinality(Spent')
    BY SpentGrows
  <2>2. meta.generation <= Cardinality(Spent)
    BY LiveIsInRange
  <2>3. rb[r].pc = "cutover" => r \notin Spent
    BY DEF Spent
  <2>4. meta'.generation <= Cardinality(Spent')
    BY <1>2, <2>1, <2>2, <2>3
  <2> QED
    BY <2>4 DEF MetaTyped
<1>5. StagingOwned'
  <2> SUFFICES ASSUME NEW q \in Rebuild
               PROVE  /\ meta'.token = q =>
                           /\ rb'[q].pc \in {"reconcile", "page", "write", "cutover",
                                             "abort", "done"}
                           /\ meta'.rebuilding = rb'[q].newGen
                      /\ rb'[q].pc \in {"page", "write", "cutover"} => meta'.token = q
    BY DEF StagingOwned
  <2>1. CASE q = r
    BY <2>1, <1>3
  <2>2. CASE q # r
    <3>1. q # NoToken /\ meta.token # q /\ meta'.token # q
      BY <2>2, BoardAssumption
    <3>2. rb'[q].pc \notin {"page", "write", "cutover"}
      BY <2>2, <3>1, <1>3 DEF Typed, StagingOwned
    <3> QED
      BY <3>1, <3>2
  <2> QED
    BY <2>1, <2>2
<1> QED
  BY <1>1, <1>3, <1>4, <1>5 DEF Typed

LEMMA LiveIsKept ==
    ASSUME Typed, NEW p \in Player, NEW k \in Nat, LiveAt(p, k), UNCHANGED <<source, offset>>,
           meta'.generation = meta.generation, meta'.ready = meta.ready,
           zset'[meta.generation] = zset[meta.generation],
           applied'[meta.generation] = applied[meta.generation]
    PROVE  LiveAt(p, k)'
<1>1. pg' = pg /\ cdc' = cdc /\ offset' = offset
  BY DEF source
<1> QED
  BY <1>1 DEF LiveAt, RowAt, FreshAfter, Rate

(* Who is shown by live is shown, if the one copy at work is ahead of it.  *)
LEMMA RedisShown ==
    ASSUME Typed, EveryoneShown, NEW r \in Rebuild, UNCHANGED <<source, stream>>,
           meta'.generation = meta.generation, meta'.ready = meta.ready,
           zset'[meta.generation] = zset[meta.generation],
           applied'[meta.generation] = applied[meta.generation],
           meta'.token \in {r, NoToken},
           \A p \in Player, k \in Nat :
              /\ Copying(r)' /\ LiveAt(p, k)
              /\ (Copying(r) => StagedAt(r, p, k) /\ ReadAt(r, p, k) /\ MissingAt(r, p, k))
              => (StagedAt(r, p, k) /\ ReadAt(r, p, k) /\ MissingAt(r, p, k))'
    PROVE  EveryoneShown'
<1> SUFFICES ASSUME NEW p \in Player, ~Missed(p)' PROVE PlayerShown(p)'
  BY DEF EveryoneShown
<1>1. PICK k \in Nat : LiveAt(p, k) /\ CopyAt(p, k)
  BY DEF stream, Missed, EveryoneShown, PlayerShown
<1>2. LiveAt(p, k)'
  BY <1>1, LiveIsKept DEF stream
<1>3. ASSUME NEW q \in Rebuild, Copying(q)'
      PROVE  (StagedAt(q, p, k) /\ ReadAt(q, p, k) /\ MissingAt(q, p, k))'
  <2>1. q = r
    BY <1>3, BoardAssumption DEF Copying
  <2> QED
    BY <2>1, <1>1, <1>3 DEF CopyAt
<1> QED
  BY <1>2, <1>3 DEF PlayerShown, CopyAt

LEMMA NobodyIn == DOMAIN << >> = {}
OBVIOUS

(* A generation other than 0 may be emptied.                               *)
LEMMA EmptiedIsTyped ==
    ASSUME Typed, UNCHANGED source, NEW g \in Generation,
           zset' = [zset EXCEPT ![g] = << >>], applied' = [applied EXCEPT ![g] = << >>]
    PROVE  /\ BoardsTyped' /\ DOMAIN zset'[g] = {}
           /\ \A h \in Generation \ {g} : zset'[h] = zset[h] /\ applied'[h] = applied[h]
<1>a. pg' = pg /\ dirty' = dirty
  BY DEF source
<1>b. zset = [h \in Generation |-> zset[h]] /\ applied = [h \in Generation |-> applied[h]]
  BY DEF Typed, BoardsTyped
<1>1. zset'[g] = << >> /\ applied'[g] = << >>
  BY <1>b
<1>2. \A h \in Generation \ {g} : zset'[h] = zset[h] /\ applied'[h] = applied[h]
  BY <1>b
<1>3. DOMAIN zset'[g] = {} /\ DOMAIN applied'[g] = {}
  BY <1>1, NobodyIn
<1>4. BoardTyped(g)'
  BY <1>3 DEF BoardTyped
<1>5. \A h \in Generation \ {g} : BoardTyped(h)'
  BY <1>2, <1>a DEF Typed, BoardsTyped, BoardTyped
<1>6. zset' = [h \in Generation |-> zset'[h]] /\ applied' = [h \in Generation |-> applied'[h]]
  BY <1>b
<1> QED
  BY <1>2, <1>3, <1>4, <1>5, <1>6 DEF BoardsTyped

LEMMA TakeInvariant ==
    ASSUME BoardInv, NEW r \in Rebuild, rb[r].pc = "begin", MayBegin(r), TakeStaging(r),
           NEW s \in {"page", "reconcile"}, Goto(r, s), UNCHANGED <<source, stream>>
    PROVE  BoardInv'
<1> USE DEF BoardInv
<1> DEFINE new == [rb[r] EXCEPT !.pc = s]
           g == rb[r].newGen
<1>a. s \in Stages /\ rb' = [rb EXCEPT ![r].pc = s]
  BY DEF Goto, Stages
<1>b. /\ rb' = [rb EXCEPT ![r] = new] /\ rb'[r] = new
      /\ rb'[r].pc = s /\ rb'[r].watermark = rb[r].watermark
      /\ rb'[r].liveGen = rb[r].liveGen /\ rb'[r].newGen = g
      /\ rb'[r].cursor = rb[r].cursor /\ rb'[r].batch = rb[r].batch
      /\ rb'[r] \in Request(rb'[r].cursor, rb'[r].batch)
  BY <1>a, MovedRequest DEF Typed
<1>c. /\ rb[r].watermark <= dirty /\ g \in Generation /\ g \in Nat
      /\ g = rb[r].liveGen + 1 /\ rb[r].liveGen <= meta.generation /\ rb[r].cursor = << >>
      /\ rb[r].liveGen \in Nat
  BY RequestFields DEF Typed, RequestTyped
<1>d. /\ meta \in [generation : Nat, ready : BOOLEAN, rebuilding : Generation,
                   token : Rebuild \union {NoToken}, version : Nat,
                   memberCount : {meta.memberCount}]
      /\ meta.ready <=> meta.generation >= 1
      /\ (meta.rebuilding = 0) <=> (meta.token = NoToken)
  BY DEF Typed, MetaTyped
<1>e. meta.rebuilding = 0 /\ meta.token = NoToken /\ g = meta.generation + 1
  BY <1>c, <1>d DEF MayBegin
<1>f. r # NoToken
  BY BoardAssumption
<1>1. meta' = [meta EXCEPT !.rebuilding = g, !.token = r]
  BY DEF TakeStaging
<1>2. /\ meta' \in [generation : Nat, ready : BOOLEAN, rebuilding : Generation,
                    token : Rebuild \union {NoToken}, version : Nat,
                    memberCount : {meta'.memberCount}]
      /\ meta'.generation = meta.generation /\ meta'.ready = meta.ready
      /\ meta'.rebuilding = g /\ meta'.token = r /\ meta'.memberCount = meta.memberCount
  BY <1>1, <1>c, <1>d
<1>3. /\ BoardsTyped' /\ DOMAIN zset'[g] = {}
      /\ \A h \in Generation \ {g} : zset'[h] = zset[h] /\ applied'[h] = applied[h]
  BY <1>c, EmptiedIsTyped DEF TakeStaging
<1>4. zset'[meta.generation] = zset[meta.generation]
      /\ applied'[meta.generation] = applied[meta.generation]
  BY <1>3, <1>e, LiveIsInRange
<1>5. Typed'
  <2>1. /\ new \in Request(new.cursor, new.batch) /\ new.watermark <= dirty /\ new.pc = s
        /\ new.newGen = g /\ new.liveGen = rb[r].liveGen
    BY <1>b, <1>c
  <2> HIDE DEF new
  <2>2. rb[r].pc \notin {"swapped", "abort", "done"} /\ new.pc \notin {"start", "meta", "begin"}
        /\ new.pc # "write"
    BY <2>1
  <2>3. new.newGen = new.liveGen + 1 /\ new.liveGen <= meta'.generation
    BY <1>c, <1>2, <2>1
  <2>4. meta.token \in {r, NoToken} /\ meta'.token \in {r, NoToken}
        /\ meta'.generation \in {meta.generation, meta.generation + 1}
    BY <1>e, <1>2
  <2>5. /\ meta'.token = r =>
             /\ new.pc \in {"reconcile", "page", "write", "cutover", "abort", "done"}
             /\ meta'.rebuilding = new.newGen
        /\ new.pc \in {"page", "cutover"} => meta'.token = r
    BY <1>2, <2>1
  <2>6. /\ meta'.ready <=> meta'.generation >= 1
        /\ (meta'.rebuilding = 0) <=> (meta'.token = NoToken)
        /\ meta'.rebuilding # 0 => meta'.rebuilding = meta'.generation + 1
    BY <1>c, <1>d, <1>e, <1>f, <1>2, LiveIsInRange
  <2> QED
    BY <1>b, <1>2, <1>3, <2>1, <2>2, <2>3, <2>4, <2>5, <2>6, RedisTyped
<1>6. ASSUME NEW p \in Player, NEW k \in Nat
      PROVE  (StagedAt(r, p, k) /\ ReadAt(r, p, k) /\ MissingAt(r, p, k))'
  <2>1. StagedAt(r, p, k)'
    BY <1>3, <1>b DEF StagedAt
  <2>2. ReadAt(r, p, k)'
    BY <1>b DEF ReadAt, InBatch
  <2>3. Ahead(r, p)'
    BY <1>b, <1>c DEF Ahead, Behind
  <2> QED
    BY <2>1, <2>2, <2>3 DEF MissingAt
<1>7. EveryoneShown'
  BY <1>2, <1>4, <1>6, RedisShown
<1>8. ReadyIsServed'
  BY <1>2, <1>4 DEF ReadyIsServed, Served
<1> QED
  BY <1>5, <1>7, <1>8

LEMMA BeginInvariant == ASSUME BoardInv, NEW r \in Rebuild, Begin(r) PROVE BoardInv'
<1>1. rb[r].pc = "begin" /\ UNCHANGED <<source, stream>>
  BY DEF Begin
<1>2. CASE MayBegin(r) /\ TakeStaging(r) /\ Goto(r, "page")
  BY <1>1, <1>2, TakeInvariant
<1>3. CASE MayBegin(r) /\ TakeStaging(r) /\ Goto(r, "reconcile")
  BY <1>1, <1>3, TakeInvariant
<1>4. CASE UNCHANGED redis /\ Goto(r, "reconcile")
  <2>1. meta.token # r
    BY <1>1 DEF BoardInv, Typed, StagingOwned
  <2> QED
    BY <1>1, <1>4, <2>1, QuietGoto
<1> QED
  BY <1>2, <1>3, <1>4 DEF Begin
(* A row is copied under the watermark, unless an event was there before.  *)
LEMMA WriteRows ==
    ASSUME Typed, NEW r \in Rebuild, rb[r].pc = "write", meta.token = r,
           WriteStaging(r), UNCHANGED source, NEW g \in Generation, g = rb[r].newGen
    PROVE  /\ BoardsTyped'
           /\ \A h \in Generation \ {g} : zset'[h] = zset[h] /\ applied'[h] = applied[h]
           /\ \A p \in Copied(r) :
                /\ p \in DOMAIN zset'[g]
                /\ zset'[g][p] = rb[r].batch[p] /\ applied'[g][p] = rb[r].watermark
           /\ \A p : p \notin Copied(r) => UntouchedRow(g, p)
           /\ \A p : InBatch(r, p) => p \in DOMAIN zset'[g]
<1> DEFINE copied == Copied(r)
           batch == rb[r].batch
           mark == rb[r].watermark
<1>a. pg' = pg /\ dirty' = dirty
  BY DEF source
<1>b. zset = [h \in Generation |-> zset[h]] /\ applied = [h \in Generation |-> applied[h]]
  BY DEF Typed, BoardsTyped
<1>c. mark \in Nat /\ mark <= dirty /\ DOMAIN batch \subseteq DOMAIN pg /\ g # 0
  BY RequestFields, StagingIsApart DEF Typed, RequestTyped
<1>d. BoardTyped(g) /\ copied \subseteq DOMAIN batch
  BY DEF Typed, BoardsTyped, Copied
<1>e. \A p : InBatch(r, p) /\ p \notin copied => p \in DOMAIN applied[g]
  BY DEF InBatch, Copied, Kept
<1>1. /\ zset' = [zset EXCEPT ![g] = [p \in DOMAIN zset[g] \union copied |->
                      IF p \in copied THEN batch[p] ELSE zset[g][p]]]
      /\ applied' = [applied EXCEPT ![g] = [p \in DOMAIN applied[g] \union copied |->
                      IF p \in copied THEN mark ELSE applied[g][p]]]
  BY <1>b DEF WriteStaging
<1> HIDE DEF copied, batch, mark
<1>2. /\ zset'[g] = [p \in DOMAIN zset[g] \union copied |->
                      IF p \in copied THEN batch[p] ELSE zset[g][p]]
      /\ applied'[g] = [p \in DOMAIN applied[g] \union copied |->
                      IF p \in copied THEN mark ELSE applied[g][p]]
  BY <1>1, <1>b
<1>3. \A h \in Generation \ {g} : zset'[h] = zset[h] /\ applied'[h] = applied[h]
  BY <1>1, <1>b
<1>4. DOMAIN zset'[g] = DOMAIN zset[g] \union copied
      /\ DOMAIN applied'[g] = DOMAIN applied[g] \union copied
  BY <1>2
<1>5. \A p \in copied : zset'[g][p] = batch[p] /\ applied'[g][p] = mark
  BY <1>2
<1>6. \A p \in DOMAIN zset[g] : p \notin copied =>
         zset'[g][p] = zset[g][p] /\ applied'[g][p] = applied[g][p]
  BY <1>2, <1>d DEF BoardTyped
<1>7. BoardTyped(g)'
  <2>1. \A p \in DOMAIN zset'[g] : applied'[g][p] \in Nat /\ applied'[g][p] <= dirty
    BY <1>4, <1>5, <1>6, <1>c, <1>d DEF BoardTyped
  <2> QED
    BY <2>1, <1>4, <1>a, <1>c, <1>d DEF BoardTyped
<1>8. \A h \in Generation \ {g} : BoardTyped(h)'
  BY <1>3, <1>a DEF Typed, BoardsTyped, BoardTyped
<1>9. zset' = [h \in Generation |-> zset'[h]] /\ applied' = [h \in Generation |-> applied'[h]]
  BY <1>1, <1>b
<1>10. BoardsTyped'
  BY <1>7, <1>8, <1>9 DEF BoardsTyped
<1>11. \A p : p \notin copied => UntouchedRow(g, p)
  BY <1>4, <1>6 DEF UntouchedRow
<1>12. \A p : InBatch(r, p) => p \in DOMAIN zset'[g]
  BY <1>4, <1>d, <1>e DEF BoardTyped
<1> QED
  BY <1>3, <1>4, <1>5, <1>10, <1>11, <1>12 DEF copied, batch, mark

LEMMA WriteInvariant ==
    ASSUME BoardInv, NEW r \in Rebuild, rb[r].pc = "write", meta.token = r, WriteStaging(r),
           UNCHANGED <<source, stream>>, NEW new, rb' = [rb EXCEPT ![r] = new],
           new \in Request(new.cursor, new.batch), new.watermark = rb[r].watermark,
           new.liveGen = rb[r].liveGen, new.newGen = rb[r].newGen, new.cursor = rb[r].cursor,
           new.pc = "abort" \/ new.pc = (IF LastPage(r) THEN "cutover" ELSE "page")
    PROVE  BoardInv'
<1> USE DEF BoardInv
<1>a. PICK g \in Generation : g = rb[r].newGen
  BY RequestFields
<1>b. /\ rb'[r] = new /\ meta' = meta /\ pg' = pg /\ cdc' = cdc
  BY DEF Typed, WriteStaging, source
<1>c. /\ g = meta.generation + 1 /\ meta.generation \in Generation \ {g}
      /\ meta.rebuilding = g /\ meta.generation \in Nat
  BY <1>a, StagingIsApart
<1>d. RequestTyped(r) /\ rb[r].watermark \in Nat
  BY RequestFields DEF Typed
<1>e. /\ BoardsTyped'
      /\ \A h \in Generation \ {g} : zset'[h] = zset[h] /\ applied'[h] = applied[h]
      /\ \A p \in Copied(r) :
           /\ p \in DOMAIN zset'[g]
           /\ zset'[g][p] = rb[r].batch[p] /\ applied'[g][p] = rb[r].watermark
      /\ \A p : p \notin Copied(r) => UntouchedRow(g, p)
      /\ \A p : InBatch(r, p) => p \in DOMAIN zset'[g]
  BY <1>a, WriteRows
<1>1. Typed'
  <2>1. new.pc \in {"abort", "page", "cutover"} /\ new.watermark <= dirty
    BY <1>d DEF RequestTyped
  <2>2. rb[r].pc \notin {"swapped", "abort", "done"} /\ new.pc \notin {"start", "meta", "begin"}
        /\ new.pc # "write"
    BY <2>1
  <2>3. new.newGen = new.liveGen + 1 /\ new.liveGen <= meta'.generation
    BY <1>b, <1>d DEF RequestTyped
  <2>4. meta.token \in {r, NoToken} /\ meta'.token \in {r, NoToken}
        /\ meta'.generation = meta.generation
    BY <1>b
  <2>5. /\ meta'.token = r =>
             /\ new.pc \in {"reconcile", "page", "write", "cutover", "abort", "done"}
             /\ meta'.rebuilding = new.newGen
        /\ new.pc \in {"page", "cutover"} => meta'.token = r
    BY <1>a, <1>b, <1>c, <2>1
  <2>6. /\ meta' \in [generation : Nat, ready : BOOLEAN, rebuilding : Generation,
                      token : Rebuild \union {NoToken}, version : Nat,
                      memberCount : {meta'.memberCount}]
        /\ meta'.ready <=> meta'.generation >= 1
        /\ (meta'.rebuilding = 0) <=> (meta'.token = NoToken)
        /\ meta'.rebuilding # 0 => meta'.rebuilding = meta'.generation + 1
    BY <1>b DEF Typed, MetaTyped
  <2> QED
    BY <1>e, <2>1, <2>2, <2>3, <2>4, <2>5, <2>6, RedisTyped
<1>2. zset'[meta.generation] = zset[meta.generation]
      /\ applied'[meta.generation] = applied[meta.generation]
  BY <1>c, <1>e
<1>3. ReadyIsServed'
  BY <1>2, <1>b DEF ReadyIsServed, Served
<1>4. ASSUME NEW p \in Player, NEW k \in Nat, Copying(r)',
             Copying(r) => StagedAt(r, p, k) /\ ReadAt(r, p, k) /\ MissingAt(r, p, k)
      PROVE  (StagedAt(r, p, k) /\ ReadAt(r, p, k) /\ MissingAt(r, p, k))'
  <2>1. StagedAt(r, p, k) /\ ReadAt(r, p, k) /\ MissingAt(r, p, k)
    BY <1>4 DEF Copying
  <2>2. new.pc = IF LastPage(r) THEN "cutover" ELSE "page"
    BY <1>4, <1>b DEF Copying
  <2>3. CASE p \in Copied(r)
    <3>1. /\ p \in DOMAIN zset'[g]
          /\ zset'[g][p] = rb[r].batch[p] /\ applied'[g][p] = rb[r].watermark
      BY <2>3, <1>e
    <3>2. PICK kb \in k .. Len(cdc[p]) :
              rb[r].batch[p] = Rate(p, kb) /\ FreshAfter(p, kb, rb[r].watermark)
      BY <2>1, <2>3 DEF ReadAt, InBatch, Copied
    <3>3. RowAt(g, p, kb)'
      BY <3>1, <3>2, <1>b DEF RowAt, FreshAfter, Rate
    <3>4. ~(applied'[g][p] < rb'[r].watermark)
      BY <3>1, <1>b, <1>d
    <3>5. StagedAt(r, p, k)'
      <4> HIDE DEF RowAt
      <4>1. \E ks \in k .. Len(cdc'[p]) :
               /\ RowAt(g, p, ks)'
               /\ applied'[g][p] < rb'[r].watermark =>
                    ks >= 1 /\ applied'[g][p] = cdc'[p][ks].version
        BY <3>3, <3>4, <1>b
      <4> QED
        BY <4>1, <1>a, <1>b DEF StagedAt
    <3>6. MissingAt(r, p, k)'
      BY <3>1, <1>a, <1>b DEF MissingAt
    <3>7. ReadAt(r, p, k)'
      BY <2>2, <1>b DEF ReadAt, InBatch
    <3> QED
      BY <3>5, <3>6, <3>7
  <2>4. CASE p \notin Copied(r)
    <3>1. UntouchedRow(g, p)
      BY <2>4, <1>e
    <3>2. StagedAt(r, p, k)'
      <4> SUFFICES ASSUME p \in DOMAIN zset'[g]
                   PROVE  \E ks \in k .. Len(cdc[p]) :
                              /\ RowAt(g, p, ks)'
                              /\ applied'[g][p] < rb[r].watermark =>
                                   ks >= 1 /\ applied'[g][p] = cdc[p][ks].version
        BY <1>a, <1>b DEF StagedAt
      <4>1. p \in DOMAIN zset[g] /\ applied'[g][p] = applied[g][p]
        BY <3>1 DEF UntouchedRow
      <4>2. PICK ks \in k .. Len(cdc[p]) :
                /\ RowAt(g, p, ks)
                /\ applied[g][p] < rb[r].watermark =>
                     ks >= 1 /\ applied[g][p] = cdc[p][ks].version
        BY <2>1, <4>1, <1>a DEF StagedAt
      <4>3. RowAt(g, p, ks)'
        BY <3>1, <4>1, <4>2, RowIsKept
      <4> QED
        BY <4>1, <4>2, <4>3
    <3>3. ReadAt(r, p, k)'
      BY <2>2, <1>b DEF ReadAt, InBatch
    <3>4. MissingAt(r, p, k)'
      <4> SUFFICES ASSUME p \in DOMAIN pg, p \notin DOMAIN zset'[g], ~Ahead(r, p)'
                   PROVE  k < Len(cdc[p])
        BY <1>a, <1>b DEF MissingAt
      <4>1. p \notin DOMAIN zset[g] /\ ~InBatch(r, p)
        BY <3>1, <1>e DEF UntouchedRow
      <4>2. ~Ahead(r, p)
        BY <2>2, <1>b DEF Ahead, Behind
      <4> QED
        BY <4>1, <4>2, <2>1, <1>a DEF MissingAt
    <3> QED
      BY <3>2, <3>3, <3>4
  <2> QED
    BY <2>3, <2>4
<1>5. EveryoneShown'
  BY <1>2, <1>4, <1>b, RedisShown
<1> QED
  BY <1>1, <1>3, <1>5

LEMMA WriteBatchInvariant == ASSUME BoardInv, NEW r \in Rebuild, WriteBatch(r) PROVE BoardInv'
<1> USE DEF BoardInv
<1>a. rb[r].pc = "write" /\ UNCHANGED <<source, stream>> /\ rb = [q \in Rebuild |-> rb[q]]
  BY DEF WriteBatch, Typed
<1>b. /\ meta.token = r /\ Owns(r) /\ rb[r] \in Request(rb[r].cursor, rb[r].batch)
  BY <1>a, BoardAssumption DEF Typed, StagingOwned, Owns, RequestTyped
<1>1. CASE /\ WriteStaging(r)
           /\ rb' = [rb EXCEPT ![r] = [@ EXCEPT !.batch = << >>,
                        !.pc = IF LastPage(r) THEN "cutover" ELSE "page"]]
  <2> DEFINE s == IF LastPage(r) THEN "cutover" ELSE "page"
             new == [rb[r] EXCEPT !.batch = << >>, !.pc = s]
  <2>1. rb' = [rb EXCEPT ![r] = new]
    BY <1>1, <1>a
  <2>2. s \in Stages
    BY DEF Stages
  <2>3. /\ new.watermark = rb[r].watermark /\ new.liveGen = rb[r].liveGen
        /\ new.newGen = rb[r].newGen /\ new.cursor = rb[r].cursor /\ new.pc = s
        /\ new.batch = << >>
    <3> HIDE DEF s
    <3> QED
      BY <1>b DEF Request
  <2>4. new \in Request(rb[r].cursor, << >>)
    <3> HIDE DEF s
    <3> QED
      BY <1>b, <2>2 DEF Request
  <2>5. new \in Request(new.cursor, new.batch)
    BY <2>3, <2>4
  <2>6. new.pc = (IF LastPage(r) THEN "cutover" ELSE "page")
    BY <2>3
  <2> HIDE DEF new
  <2> QED
    BY <1>1, <1>a, <1>b, <2>1, <2>3, <2>5, <2>6, WriteInvariant
<1>2. CASE WriteStaging(r) /\ Goto(r, "abort")
  <2> DEFINE new == [rb[r] EXCEPT !.pc = "abort"]
  <2>1. /\ rb' = [rb EXCEPT ![r] = new] /\ rb'[r] = new
        /\ rb'[r].pc = "abort" /\ rb'[r].watermark = rb[r].watermark
        /\ rb'[r].liveGen = rb[r].liveGen /\ rb'[r].newGen = rb[r].newGen
        /\ rb'[r].cursor = rb[r].cursor
        /\ rb'[r] \in Request(rb'[r].cursor, rb'[r].batch)
    BY <1>2, <1>a, MovedRequest DEF Goto, Stages
  <2> HIDE DEF new
  <2> QED
    BY <1>2, <1>a, <1>b, <2>1, WriteInvariant
<1> QED
  BY <1>1, <1>2, <1>b DEF WriteBatch
(* What is swapped in is ahead of what it replaces.                        *)
LEMMA SwapInvariant ==
    ASSUME BoardInv, NEW r \in Rebuild, rb[r].pc = "cutover", Owns(r), SwapIn(r),
           UNCHANGED <<source, stream>>, NEW s \in {"done", "swapped"}, Goto(r, s)
    PROVE  BoardInv'
<1> USE DEF BoardInv
<1> DEFINE new == [rb[r] EXCEPT !.pc = s]
<1>a. PICK g \in Generation : g = rb[r].newGen
  BY RequestFields
<1>b. PICK old \in Generation : old = meta.generation
  BY LiveIsInRange
<1>c. /\ meta.token = r /\ g = old + 1 /\ old \in Nat /\ g \in Nat /\ g # old
  BY <1>a, <1>b, StagingIsApart, GenerationsAreFew DEF Owns
<1>d. /\ rb[r].newGen = rb[r].liveGen + 1 /\ rb[r].liveGen = old
      /\ rb[r].watermark \in Nat /\ rb[r].watermark <= dirty
  <2>1. RequestTyped(r) /\ rb[r].liveGen \in Nat /\ rb[r].watermark \in Nat
    BY RequestFields DEF Typed
  <2>2. rb[r].newGen = rb[r].liveGen + 1 /\ rb[r].watermark <= dirty
    BY <2>1 DEF RequestTyped
  <2> QED
    BY <2>1, <2>2, <1>a, <1>c
<1>e. s \in Stages /\ rb' = [rb EXCEPT ![r].pc = s]
  BY DEF Goto, Stages
<1>f. /\ rb' = [rb EXCEPT ![r] = new] /\ rb'[r] = new
      /\ rb'[r].pc = s /\ rb'[r].watermark = rb[r].watermark
      /\ rb'[r].liveGen = rb[r].liveGen /\ rb'[r].newGen = rb[r].newGen
      /\ rb'[r] \in Request(rb'[r].cursor, rb'[r].batch)
  BY <1>e, MovedRequest DEF Typed
<1>g. meta.version \in Nat /\ pg' = pg /\ cdc' = cdc /\ offset' = offset /\ lost' = lost
  BY DEF Typed, MetaTyped, source, stream
<1>1. /\ meta' \in [generation : Nat, ready : BOOLEAN, rebuilding : Generation,
                    token : Rebuild \union {NoToken}, version : Nat,
                    memberCount : {meta'.memberCount}]
      /\ meta'.generation = g /\ meta'.ready = TRUE /\ meta'.rebuilding = 0
      /\ meta'.token = NoToken /\ meta'.memberCount = Cardinality(DOMAIN zset[g])
  <2> DEFINE version == IF rb[r].watermark > 0 THEN Larger(meta.version, rb[r].watermark)
                                               ELSE meta.version + 1
             count == Cardinality(DOMAIN zset[g])
  <2>1. version \in Nat
    BY <1>d, <1>g DEF Larger
  <2>2. 0 \in Generation
    BY GenerationsAreFew
  <2>3. meta' = [generation |-> g, ready |-> TRUE, rebuilding |-> 0, token |-> NoToken,
                 version |-> version, memberCount |-> count]
    BY <1>a DEF SwapIn
  <2> HIDE DEF version, count
  <2>4. meta'.memberCount = count
    BY <2>3
  <2> QED
    BY <2>1, <2>2, <2>3, <2>4, <1>c DEF count
<1>2. /\ BoardsTyped' /\ zset'[g] = zset[g] /\ applied'[g] = applied[g]
  BY <1>c, <1>d, EmptiedIsTyped DEF SwapIn
<1>3. Typed'
  <2>1. /\ new \in Request(new.cursor, new.batch) /\ new.watermark <= dirty /\ new.pc = s
        /\ new.newGen = rb[r].newGen /\ new.liveGen = rb[r].liveGen
    BY <1>d, <1>f
  <2> HIDE DEF new
  <2>2. rb[r].pc \notin {"swapped", "abort", "done"} /\ new.pc \notin {"start", "meta", "begin"}
        /\ new.pc # "write"
    BY <2>1
  <2>3. new.newGen = new.liveGen + 1 /\ new.liveGen <= meta'.generation
    BY <1>c, <1>d, <1>1, <2>1
  <2>4. meta.token \in {r, NoToken} /\ meta'.token \in {r, NoToken} /\ meta'.token # r
        /\ meta'.generation \in {meta.generation, meta.generation + 1}
    BY <1>b, <1>c, <1>1, BoardAssumption
  <2>5. /\ new.pc \notin {"page", "cutover"} /\ new.pc \in {"swapped", "done"}
    BY <2>1
  <2>6. /\ meta'.ready <=> meta'.generation >= 1
        /\ (meta'.rebuilding = 0) <=> (meta'.token = NoToken)
        /\ meta'.rebuilding # 0 => meta'.rebuilding = meta'.generation + 1
    BY <1>c, <1>1
  <2> QED
    BY <1>f, <1>1, <1>2, <2>1, <2>2, <2>3, <2>4, <2>5, <2>6, RedisTyped
<1>4. ReadyIsServed'
  BY <1>1, <1>2 DEF ReadyIsServed, Served
<1>5. ASSUME NEW p \in Player, ~Missed(p)' PROVE PlayerShown(p)'
  <2>1. PICK k \in Nat : LiveAt(p, k) /\ CopyAt(p, k)
    BY <1>5, <1>g DEF Missed, EveryoneShown, PlayerShown
  <2>2. StagedAt(r, p, k) /\ MissingAt(r, p, k)
    BY <2>1, <1>c DEF CopyAt, Copying
  <2>3. /\ offset[p] \in Nat /\ Len(cdc[p]) \in Nat /\ offset[p] <= Len(cdc[p])
        /\ k >= offset[p]
    BY <2>1 DEF Typed, SourceTyped, LiveAt
  <2>4. \E i \in Nat : LiveAt(p, i)'
    <3>1. CASE p \in DOMAIN zset[g]
      <4>1. PICK i \in k .. Len(cdc[p]) : RowAt(g, p, i)
        BY <2>2, <3>1, <1>a DEF StagedAt
      <4>2. RowAt(g, p, i)'
        BY <4>1, <1>2, <1>g DEF RowAt, FreshAfter, Rate
      <4>3. i \in offset'[p] .. Len(cdc'[p]) /\ i \in Nat
        BY <2>3, <1>g
      <4> QED
        BY <3>1, <4>2, <4>3, <1>1, <1>2 DEF LiveAt
    <3>2. CASE p \notin DOMAIN zset[g]
      <4>1. p \in DOMAIN pg => k < Len(cdc[p])
        BY <3>2, <2>2, <1>a DEF MissingAt, InBatch, Ahead
      <4>2. LiveAt(p, offset[p])'
        BY <3>2, <4>1, <2>3, <1>1, <1>2, <1>g DEF LiveAt
      <4>3. PICK i \in Nat : i = offset[p]
        BY <2>3
      <4>4. LiveAt(p, i)'
        BY <4>2, <4>3, <1>g DEF LiveAt, RowAt, FreshAfter, Rate
      <4> QED
        BY <4>4
    <3> QED
      BY <3>1, <3>2
  <2>5. \A q \in Rebuild : ~Copying(q)'
    BY <1>1, BoardAssumption DEF Copying
  <2> QED
    BY <2>4, <2>5 DEF PlayerShown, CopyAt
<1> QED
  BY <1>3, <1>4, <1>5 DEF EveryoneShown

LEMMA CutoverInvariant == ASSUME BoardInv, NEW r \in Rebuild, Cutover(r) PROVE BoardInv'
<1>1. rb[r].pc = "cutover" /\ UNCHANGED <<source, stream>>
  BY DEF Cutover
<1>2. Owns(r)
  BY <1>1, BoardAssumption DEF BoardInv, Typed, StagingOwned, Owns
<1>3. SwapIn(r) /\ (Goto(r, "done") \/ Goto(r, "swapped"))
  BY <1>2 DEF Cutover
<1> QED
  BY <1>1, <1>2, <1>3, SwapInvariant

LEMMA AbortInvariant == ASSUME BoardInv, NEW r \in Rebuild, Abort(r) PROVE BoardInv'
<1> USE DEF BoardInv
<1> DEFINE new == [rb[r] EXCEPT !.pc = "done"]
<1>a. rb[r].pc = "abort" /\ Goto(r, "done") /\ UNCHANGED <<source, stream>>
  BY DEF Abort
<1>1. CASE ~Aborts(r)
  <2>1. UNCHANGED redis
    BY <1>1 DEF Abort
  <2> QED
    BY <1>a, <2>1, QuietGoto
<1>2. CASE Aborts(r)
  <2>a. PICK g \in Generation : g = rb[r].newGen
    BY RequestFields
  <2>b. /\ meta.token = r /\ g = meta.generation + 1 /\ meta.generation \in Generation \ {g}
        /\ meta.generation \in Nat
    BY <1>2, <2>a, StagingIsApart DEF Aborts, Owns
  <2>c. /\ meta' = [meta EXCEPT !.rebuilding = 0, !.token = NoToken]
        /\ zset' = [zset EXCEPT ![g] = << >>] /\ applied' = [applied EXCEPT ![g] = << >>]
    BY <1>2, <2>a, <2>b DEF Abort
  <2>d. /\ rb' = [rb EXCEPT ![r] = new] /\ rb'[r] = new
        /\ rb'[r].pc = "done" /\ rb'[r].watermark = rb[r].watermark
        /\ rb'[r].liveGen = rb[r].liveGen /\ rb'[r].newGen = rb[r].newGen
        /\ rb'[r] \in Request(rb'[r].cursor, rb'[r].batch)
    BY <1>a, MovedRequest DEF Typed, Goto, Stages
  <2>e. RequestTyped(r)
    BY DEF Typed
  <2>1. /\ meta \in [generation : Nat, ready : BOOLEAN, rebuilding : Generation,
                     token : Rebuild \union {NoToken}, version : Nat,
                     memberCount : {meta.memberCount}]
        /\ meta.ready <=> meta.generation >= 1
    BY DEF Typed, MetaTyped
  <2>2. 0 \in Generation
    BY GenerationsAreFew
  <2>3. /\ meta' \in [generation : Nat, ready : BOOLEAN, rebuilding : Generation,
                      token : Rebuild \union {NoToken}, version : Nat,
                      memberCount : {meta'.memberCount}]
        /\ meta'.generation = meta.generation /\ meta'.ready = meta.ready
        /\ meta'.rebuilding = 0 /\ meta'.token = NoToken
        /\ meta'.memberCount = meta.memberCount
    BY <2>c, <2>1, <2>2
  <2>4. /\ BoardsTyped'
        /\ zset'[meta.generation] = zset[meta.generation]
        /\ applied'[meta.generation] = applied[meta.generation]
    BY <1>a, <2>b, <2>c, EmptiedIsTyped
  <2>5. Typed'
    <3>1. /\ new \in Request(new.cursor, new.batch) /\ new.watermark <= dirty /\ new.pc = "done"
          /\ new.newGen = rb[r].newGen /\ new.liveGen = rb[r].liveGen
      BY <2>d, <2>e DEF RequestTyped
    <3> HIDE DEF new
    <3>2. new.pc \notin {"start", "meta", "begin"} /\ new.pc # "write"
      BY <3>1
    <3>3. new.newGen = new.liveGen + 1 /\ new.liveGen <= meta'.generation
      BY <1>a, <2>e, <2>3, <3>1 DEF RequestTyped
    <3>4. meta.token \in {r, NoToken} /\ meta'.token \in {r, NoToken} /\ meta'.token # r
      BY <2>b, <2>3, BoardAssumption
    <3>5. /\ meta'.ready <=> meta'.generation >= 1
          /\ (meta'.rebuilding = 0) <=> (meta'.token = NoToken)
          /\ meta'.rebuilding # 0 => meta'.rebuilding = meta'.generation + 1
      BY <2>1, <2>3
    <3> QED
      BY <1>a, <2>d, <2>3, <2>4, <3>1, <3>2, <3>3, <3>4, <3>5, RedisTyped
  <2>6. EveryoneShown'
    <3>1. ~Copying(r)'
      BY <2>3, BoardAssumption DEF Copying
    <3> QED
      BY <1>a, <2>3, <2>4, <3>1, RedisShown
  <2>7. ReadyIsServed'
    BY <2>3, <2>4 DEF ReadyIsServed, Served
  <2> QED
    BY <2>5, <2>6, <2>7
<1> QED
  BY <1>1, <1>2
-----------------------------------------------------------------------------
LEMMA InitInvariant == ASSUME BoardInit PROVE BoardInv
<1> USE DEF BoardInit
<1>a. 0 \in Generation /\ Cardinality(Rebuild) \in Nat
  BY GenerationsAreFew
<1>1. SourceTyped
  <2>1. \A p \in Player : Len(cdc[p]) = 0 /\ cdc[p] = << >>
    OBVIOUS
  <2>2. cdc \in [Player -> Seq(Events)]
    OBVIOUS
  <2>3. \A p \in Player : EventsFollow(p)
    BY <2>1 DEF EventsFollow
  <2>4. DOMAIN pg = InitialRows /\ DOMAIN pg \subseteq Player /\ pg = [p \in DOMAIN pg |-> pg[p]]
    BY BoardAssumption
  <2>5. \A p \in DOMAIN pg : pg[p] \in Int /\ pg[p] = Rate(p, Len(cdc[p]))
    BY <2>1, <2>4 DEF Rate
  <2>6. dirty \in Nat /\ dirty <= Len(Commits)
    BY BoardAssumption
  <2>7. offset \in [Player -> Nat] /\ \A p \in Player : offset[p] <= Len(cdc[p])
    BY <2>1
  <2> QED
    BY <2>1, <2>2, <2>3, <2>4, <2>5, <2>6, <2>7 DEF SourceTyped
<1>2. rb = [r \in Rebuild |-> rb[r]] /\ \A r \in Rebuild : RequestTyped(r)
  BY <1>a DEF RequestTyped, Request, Fresh, Stages
<1>3. MetaTyped
  <2>1. IsFiniteSet(Spent)
    BY BoardAssumption, FS_Subset DEF Spent
  <2>2. Cardinality(Spent) \in Nat
    BY <2>1, FS_CardinalityType
  <2> QED
    BY <1>a, <2>2 DEF MetaTyped
<1>4. BoardsTyped
  <2>1. \A g \in Generation : zset[g] = << >> /\ applied[g] = << >>
    OBVIOUS
  <2>2. \A g \in Generation : BoardTyped(g)
    BY <2>1, NobodyIn DEF BoardTyped
  <2> QED
    BY <2>2 DEF BoardsTyped
<1>5. StagingOwned
  BY BoardAssumption DEF StagingOwned, Fresh
<1>6. ASSUME NEW p \in Player PROVE PlayerShown(p)
  <2>1. LiveAt(p, 0)
    <3>1. p \notin DOMAIN zset[0]
      BY <1>a, NobodyIn
    <3>2. 0 \in offset[p] .. Len(cdc[p])
      OBVIOUS
    <3> QED
      BY <3>1, <3>2 DEF LiveAt
  <2>2. CopyAt(p, 0)
    BY BoardAssumption DEF CopyAt, Copying
  <2> QED
    BY <2>1, <2>2 DEF PlayerShown
<1> QED
  BY <1>1, <1>2, <1>3, <1>4, <1>5, <1>6 DEF BoardInv, Typed, EveryoneShown, ReadyIsServed

LEMMA StutterInvariant == ASSUME BoardInv, UNCHANGED boardVars PROVE BoardInv'
<1> USE DEF BoardInv
<1>a. /\ pg' = pg /\ dirty' = dirty /\ cdc' = cdc /\ offset' = offset /\ lost' = lost
      /\ meta' = meta /\ zset' = zset /\ applied' = applied /\ rb' = rb
      /\ UNCHANGED source /\ UNCHANGED redis
  BY DEF boardVars, source, redis
<1>1. SourceTyped' /\ BoardsTyped'
  BY <1>a, SourceFrame, BoardsFrame
<1>2. /\ (rb = [r \in Rebuild |-> rb[r]] /\ \A r \in Rebuild : RequestTyped(r))'
      /\ StagingOwned' /\ Spent' = Spent
  BY <1>a, IdleRequests
<1>3. Typed'
  BY <1>1, <1>2, <1>a DEF Typed, MetaTyped
<1>4. ASSUME NEW p \in Player, ~Missed(p)' PROVE PlayerShown(p)'
  <2>1. PICK k \in Nat : LiveAt(p, k) /\ CopyAt(p, k)
    BY <1>4, <1>a DEF Missed, EveryoneShown, PlayerShown
  <2>2. \A g \in Generation : UntouchedRow(g, p)
    BY <1>a DEF UntouchedRow
  <2>3. LiveAt(p, k)' /\ CopyAt(p, k)'
    BY <2>1, <2>2, <1>a, <1>1, OthersAreShown
  <2> QED
    BY <2>3 DEF PlayerShown
<1> QED
  BY <1>3, <1>4, <1>a, ServedFrame DEF EveryoneShown

LEMMA Invariance == BoardSpec => []BoardInv
<1>1. BoardInit => BoardInv
  BY InitInvariant
<1>2. BoardInv /\ [BoardNext]_boardVars => BoardInv'
  <2> SUFFICES ASSUME BoardInv, [BoardNext]_boardVars PROVE BoardInv'
    OBVIOUS
  <2>1. CASE dirty < Len(Commits) /\ \E new \in Commits[dirty + 1] : CommitScores(new)
    BY <2>1, CommitInvariant
  <2>2. CASE \E p \in Player : Consume(p) \/ ConsumeUnacknowledged(p)
    BY <2>2, ConsumeInvariant
  <2>3. CASE \E p \in Player : LoseEvent(p)
    BY <2>3, LoseInvariant
  <2>4. ASSUME NEW r \in Rebuild, RebuildStep(r) PROVE BoardInv'
    <3>1. CASE ReadWatermark(r)
      BY <3>1, ReadWatermarkInvariant
    <3>2. CASE ReadMeta(r)
      BY <3>2, ReadMetaInvariant
    <3>3. CASE Begin(r)
      BY <3>3, BeginInvariant
    <3>4. CASE reconcileBeginRebuild(r)
      BY <3>4, ReconcileInvariant
    <3>5. CASE ReadPage(r)
      BY <3>5, ReadPageInvariant
    <3>6. CASE WriteBatch(r)
      BY <3>6, WriteBatchInvariant
    <3>7. CASE Cutover(r)
      BY <3>7, CutoverInvariant
    <3>8. CASE CheckSwapped(r)
      BY <3>8, CheckSwappedInvariant
    <3>9. CASE Abort(r)
      BY <3>9, AbortInvariant
    <3> QED
      BY <2>4, <3>1, <3>2, <3>3, <3>4, <3>5, <3>6, <3>7, <3>8, <3>9 DEF RebuildStep
  <2>5. CASE \E r \in Rebuild : CrashRebuild(r)
    BY <2>5, CrashInvariant
  <2>6. CASE UNCHANGED boardVars
    BY <2>6, StutterInvariant
  <2> QED
    BY <2>1, <2>2, <2>3, <2>4, <2>5, <2>6 DEF BoardNext
<1> QED
  BY <1>1, <1>2, PTL DEF BoardSpec
-----------------------------------------------------------------------------
(* What the invariant says of the board.                                   *)

LEMMA DrainedIsShown ==
    ASSUME BoardInv, meta.ready, NEW p \in DOMAIN pg, Drained(p), ~Missed(p)
    PROVE  p \in DOMAIN zset[meta.generation] /\ zset[meta.generation][p] = pg[p]
<1> USE DEF BoardInv
<1>1. p \in Player /\ pg[p] = Rate(p, Len(cdc[p])) /\ offset[p] = Len(cdc[p])
      /\ Len(cdc[p]) \in Nat
  BY DEF Typed, SourceTyped, Drained
<1>2. PICK k \in Nat : LiveAt(p, k)
  BY <1>1 DEF EveryoneShown, PlayerShown
<1>3. k = Len(cdc[p])
  BY <1>1, <1>2 DEF LiveAt
<1> QED
  BY <1>1, <1>2, <1>3 DEF LiveAt, RowAt

LEMMA InvariantIsSound == BoardInv => BoardSound
<1> SUFFICES ASSUME BoardInv PROVE BoardSound
  OBVIOUS
<1>1. meta.generation \in Generation /\ meta.rebuilding \in Generation
      /\ ((meta.rebuilding = 0) <=> (meta.token = NoToken))
  BY LiveIsInRange DEF BoardInv, Typed, MetaTyped
<1>2. \A g \in Generation : DOMAIN zset[g] = DOMAIN applied[g]
  BY DEF BoardInv, Typed, BoardsTyped, BoardTyped
<1>3. \A p \in Player : offset[p] \in 0 .. Len(cdc[p])
  BY DEF BoardInv, Typed, SourceTyped
<1>4. Converged
  BY DrainedIsShown DEF Converged
<1>5. ReadyIsServed
  BY DEF BoardInv
<1> QED
  BY <1>1, <1>2, <1>3, <1>4, <1>5 DEF BoardSound, BoardTypeOK

(* For any players, commits, rebuilds and faults, the board is well formed *)
(* and can be served when it is ready, and it shows the authoritative      *)
(* rating of everyone whose events were all consumed, also while a rebuild *)
(* runs beside the events (store/leaderboard_redis_lua.go).                *)
THEOREM BoardIsSound == BoardSpec => []BoardSound
<1>1. BoardInv => BoardSound
  BY InvariantIsSound
<1> QED
  BY <1>1, Invariance, PTL

(* Redis changes by an event, or by a rebuild that claims, fills, swaps in *)
(* or frees a staging generation.                                          *)
LEMMA RedisSteps ==
    ASSUME [BoardNext]_boardVars
    PROVE  \/ UNCHANGED redis
           \/ \E p \in Player : Pending(p) /\ Upsert(p, Event(p)) /\ UNCHANGED source
           \/ \E r \in Rebuild :
                 \/ rb[r].pc = "begin" /\ MayBegin(r) /\ TakeStaging(r)
                 \/ rb[r].pc = "write" /\ Owns(r) /\ WriteStaging(r)
                 \/ rb[r].pc = "cutover" /\ Owns(r) /\ SwapIn(r) /\ UNCHANGED source
                 \/ rb[r].pc = "abort" /\ Owns(r) /\ Abort(r)
<1>1. ASSUME NEW new, CommitScores(new) PROVE UNCHANGED redis
  BY <1>1 DEF CommitScores
<1>2. ASSUME NEW p \in Player, Consume(p) \/ ConsumeUnacknowledged(p)
      PROVE  Pending(p) /\ Upsert(p, Event(p)) /\ UNCHANGED source
  BY <1>2 DEF Consume, ConsumeUnacknowledged
<1>3. ASSUME NEW p \in Player, LoseEvent(p) PROVE UNCHANGED redis
  BY <1>3 DEF LoseEvent
<1>4. ASSUME NEW r \in Rebuild, RebuildStep(r)
      PROVE  \/ UNCHANGED redis
             \/ rb[r].pc = "begin" /\ MayBegin(r) /\ TakeStaging(r)
             \/ rb[r].pc = "write" /\ Owns(r) /\ WriteStaging(r)
             \/ rb[r].pc = "cutover" /\ Owns(r) /\ SwapIn(r) /\ UNCHANGED source
             \/ rb[r].pc = "abort" /\ Owns(r) /\ Abort(r)
  <2>1. CASE ReadWatermark(r) \/ ReadMeta(r) \/ reconcileBeginRebuild(r) \/ ReadPage(r)
                \/ CheckSwapped(r)
    BY <2>1 DEF ReadWatermark, ReadMeta, reconcileBeginRebuild, ReadPage, CheckSwapped
  <2>2. CASE Begin(r)
    BY <2>2 DEF Begin
  <2>3. CASE WriteBatch(r)
    BY <2>3 DEF WriteBatch
  <2>4. CASE Cutover(r)
    BY <2>4 DEF Cutover
  <2>5. CASE Abort(r)
    BY <2>5 DEF Abort, Aborts
  <2> QED
    BY <1>4, <2>1, <2>2, <2>3, <2>4, <2>5 DEF RebuildStep
<1>5. ASSUME NEW r \in Rebuild, CrashRebuild(r) PROVE UNCHANGED redis
  BY <1>5 DEF CrashRebuild
<1>6. CASE UNCHANGED boardVars
  BY <1>6 DEF boardVars, redis
<1> QED
  BY <1>1, <1>2, <1>3, <1>4, <1>5, <1>6 DEF BoardNext

LEMMA VersionForward ==
    ASSUME BoardInv, [BoardNext]_boardVars PROVE meta'.version >= meta.version
<1> USE DEF BoardInv
<1>1. /\ meta \in [generation : Nat, ready : BOOLEAN, rebuilding : Generation,
                   token : Rebuild \union {NoToken}, version : Nat,
                   memberCount : {meta.memberCount}]
      /\ meta.version \in Nat
  BY DEF Typed, MetaTyped
<1>2. CASE UNCHANGED redis
  BY <1>1, <1>2 DEF redis
<1>3. ASSUME NEW p \in Player, Pending(p), Upsert(p, Event(p))
      PROVE  meta'.version >= meta.version
  BY <1>3, UpsertMeta
<1>4. ASSUME NEW r \in Rebuild, TakeStaging(r) \/ WriteStaging(r)
      PROVE  meta'.version >= meta.version
  <2>1. CASE WriteStaging(r)
    BY <1>1, <2>1 DEF WriteStaging
  <2>2. CASE TakeStaging(r)
    <3>1. meta' = [meta EXCEPT !.rebuilding = rb[r].newGen, !.token = r]
      BY <2>2 DEF TakeStaging
    <3>2. meta'.version = meta.version
      BY <1>1, <3>1
    <3> QED
      BY <1>1, <3>2
  <2> QED
    BY <1>4, <2>1, <2>2
<1>5. ASSUME NEW r \in Rebuild, SwapIn(r) PROVE meta'.version >= meta.version
  <2>1. rb[r].watermark \in Nat
    BY RequestFields
  <2>2. meta'.version = IF rb[r].watermark > 0 THEN Larger(meta.version, rb[r].watermark)
                                               ELSE meta.version + 1
    BY <1>5 DEF SwapIn
  <2> QED
    BY <1>1, <2>1, <2>2 DEF Larger
<1>6. ASSUME NEW r \in Rebuild, Abort(r), Owns(r) PROVE meta'.version >= meta.version
  <2>1. meta' = [meta EXCEPT !.rebuilding = 0, !.token = NoToken]
    BY <1>6 DEF Abort, Aborts
  <2> QED
    BY <1>1, <2>1
<1> QED
  BY <1>2, <1>3, <1>4, <1>5, <1>6, RedisSteps

LEMMA VanishedIsToCome ==
    ASSUME BoardInv, [BoardNext]_boardVars, NEW p \in Player,
           meta.ready, p \in DOMAIN zset[meta.generation]
    PROVE  p \in DOMAIN zset'[meta'.generation] \/ ~Drained(p) \/ Missed(p)
<1> USE DEF BoardInv
<1>a. PICK old \in Generation : old = meta.generation
  BY LiveIsInRange
<1>b. /\ meta \in [generation : Nat, ready : BOOLEAN, rebuilding : Generation,
                   token : Rebuild \union {NoToken}, version : Nat,
                   memberCount : {meta.memberCount}]
      /\ zset = [g \in Generation |-> zset[g]]
  BY DEF Typed, MetaTyped, BoardsTyped
<1>1. CASE UNCHANGED redis
  BY <1>1 DEF redis
<1>2. ASSUME NEW q \in Player, Pending(q), Upsert(q, Event(q)), UNCHANGED source
      PROVE  p \in DOMAIN zset'[meta'.generation]
  <2>1. meta'.generation = old /\ DOMAIN zset[old] \subseteq DOMAIN zset'[old]
    BY <1>2, <1>a, UpsertMeta, UpsertRows
  <2> QED
    BY <2>1, <1>a
<1>3. ASSUME NEW r \in Rebuild, rb[r].pc = "begin", MayBegin(r), TakeStaging(r)
      PROVE  p \in DOMAIN zset'[meta'.generation]
  <2>1. rb[r].newGen # old /\ rb[r].newGen \in Generation
    BY <1>3, <1>a, <1>b, RequestFields DEF MayBegin
  <2>2. meta'.generation = old /\ zset' = [zset EXCEPT ![rb[r].newGen] = << >>]
    BY <1>3, <1>a, <1>b DEF TakeStaging
  <2> QED
    BY <2>1, <2>2, <1>a, <1>b
<1>4. ASSUME NEW r \in Rebuild, Owns(r), WriteStaging(r)
      PROVE  p \in DOMAIN zset'[meta'.generation]
  <2>1. rb[r].newGen # old
    BY <1>4, <1>a, StagingIsApart DEF Owns
  <2>2. meta'.generation = old /\ zset'[old] = zset[old]
    BY <1>4, <2>1, <1>a, <1>b DEF WriteStaging
  <2> QED
    BY <2>2, <1>a
<1>5. ASSUME NEW r \in Rebuild, rb[r].pc = "cutover", Owns(r), SwapIn(r), UNCHANGED source
      PROVE  p \in DOMAIN zset'[meta'.generation] \/ ~Drained(p) \/ Missed(p)
  <2>1. PICK g \in Generation : g = rb[r].newGen
    BY RequestFields
  <2>2. /\ g = old + 1 /\ old \in Nat /\ meta.token = r /\ rb[r].liveGen = old
    <3>1. g = old + 1 /\ old \in Nat /\ meta.token = r
      BY <1>5, <1>a, <2>1, StagingIsApart DEF Owns
    <3>2. RequestTyped(r) /\ rb[r].liveGen \in Nat
      BY RequestFields DEF Typed
    <3>3. rb[r].newGen = rb[r].liveGen + 1
      BY <1>5, <3>2 DEF RequestTyped
    <3> QED
      BY <3>1, <3>2, <3>3, <2>1
  <2>3. meta'.generation = g /\ zset' = [zset EXCEPT ![old] = << >>]
    BY <1>5, <2>1, <2>2 DEF SwapIn
  <2>4. zset'[g] = zset[g]
    BY <2>2, <2>3, <1>b
  <2>5. ASSUME p \notin DOMAIN zset[g], ~Missed(p) PROVE ~Drained(p)
    <3>1. PICK k \in Nat : LiveAt(p, k) /\ CopyAt(p, k)
      BY <2>5 DEF EveryoneShown, PlayerShown
    <3>2. MissingAt(r, p, k)
      BY <3>1, <2>2, <1>5 DEF CopyAt, Copying
    <3>3. p \in DOMAIN pg
      BY <1>a DEF Typed, BoardsTyped, BoardTyped
    <3>4. k < Len(cdc[p])
      BY <3>2, <3>3, <2>1, <2>5, <1>5 DEF MissingAt, InBatch, Ahead
    <3>5. k >= offset[p] /\ offset[p] \in Nat /\ Len(cdc[p]) \in Nat
      BY <3>1 DEF LiveAt, Typed, SourceTyped
    <3> QED
      BY <3>4, <3>5 DEF Drained
  <2> QED
    BY <2>3, <2>4, <2>5
<1>6. ASSUME NEW r \in Rebuild, Abort(r), Owns(r)
      PROVE  p \in DOMAIN zset'[meta'.generation]
  <2>1. rb[r].newGen # old
    BY <1>6, <1>a, StagingIsApart DEF Owns
  <2>2. /\ meta' = [meta EXCEPT !.rebuilding = 0, !.token = NoToken]
        /\ zset' = [zset EXCEPT ![rb[r].newGen] = << >>]
    BY <1>6, <2>1, <1>a DEF Abort, Aborts
  <2>3. meta'.generation = old /\ zset'[old] = zset[old]
    BY <2>1, <2>2, <1>a, <1>b
  <2> QED
    BY <2>3, <1>a
<1> QED
  BY <1>1, <1>2, <1>3, <1>4, <1>5, <1>6, RedisSteps

(* For any players, commits, rebuilds and faults, the version a page       *)
(* carries never goes back, and a member that a swap drops is one whose    *)
(* next event is still to come (store/leaderboard_redis_lua.go).           *)
THEOREM BoardOnlyMovesOn == BoardSpec => BoardMovesOn
<1>1. BoardInv /\ [BoardNext]_boardVars => [meta'.version >= meta.version]_boardVars
  BY VersionForward
<1>2. BoardInv /\ [BoardNext]_boardVars =>
        [\A p \in Player : (meta.ready /\ p \in DOMAIN zset[meta.generation])
            => p \in DOMAIN zset'[meta'.generation] \/ ~Drained(p) \/ Missed(p)]_boardVars
  BY VanishedIsToCome
<1>3. BoardSpec => []BoardInv
  BY Invariance
<1> QED
  BY <1>1, <1>2, <1>3, PTL DEF BoardSpec, BoardMovesOn, VersionNeverFalls, VanishedReturns
=============================================================================
