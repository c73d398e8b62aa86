------------------------------ MODULE RoomTimers ------------------------------
(***************************************************************************)
(* The deadlines of absent players: an episode of absence is committed     *)
(* with a row in Postgres, scheduled in a Redis index after the commit,    *)
(* claimed from there under a lease when it is due and sent to the Room as *)
(* ForfeitPlayer.  The index can be rebuilt from the rows.                 *)
(*                                                                         *)
(*   store/postgres_persist.go  syncDeadlines, in the Room's transaction   *)
(*   store/timer_schedule.go    after the commit, errors ignored           *)
(*   store/redis_timers.go      claim, acknowledge, reap, rebuild          *)
(*   timer_worker.go            the workers                                *)
(*   domain/session.go          the Room's decision                        *)
(*                                                                         *)
(* Uno windows take the same way under keys of their own.  A timer is the  *)
(* episode it belongs to: a player and his disconnect version.             *)
(***************************************************************************)
EXTENDS Naturals

CONSTANTS
    Players,        \* players of one Room
    Workers,        \* timer workers
    MaxVersion,     \* bound: absences of a player
    MaxSequence,    \* bound: sequence number of the Room
    MaxRollouts,    \* bound: starts of the timer deployment
    Losses,         \* what may be lost: a subset of LossKinds
    MaxLosses       \* bound: losses

Timers == [player : Players, version : 1 .. MaxVersion]

\* The write that follows a commit, all Redis holds, or a request that the
\* Room's runtime turns away before the Room decides.
LossKinds == {"write", "index", "request"}

ASSUME RoomTimersAssumption ==
    /\ MaxVersion \in Nat /\ MaxSequence \in Nat \ {0}
    /\ MaxRollouts \in Nat /\ MaxLosses \in Nat
    /\ Losses \subseteq LossKinds

NoTimer == [player |-> "nobody", version |-> 0]

VARIABLES
    seq,        \* sequence number of the Room
    away,       \* the last episode of each player
    passed,     \* timers whose deadline is over
    outcome,    \* what the Room has recorded for the command of each timer
    rows,       \* reconnect_deadlines with status 'open'
    posts,      \* writes to the index that follow a commit
    due,        \* the due set of the index, scored with the deadlines
    inflight,   \* the leased set of the index
    wrk,        \* what each worker holds
    late,       \* requests whose sender no longer waits
    rebuild,    \* the rebuild of the index: rollouts so far, phase, rows to write
    losses      \* losses so far

roomVars == <<seq, away, outcome, rows, posts>>
indexVars == <<due, inflight>>

vars == <<seq, away, passed, outcome, rows, posts, due, inflight, wrk, late, rebuild, losses>>

Idle == [timer |-> NoTimer, answered |-> FALSE]

\* Timer workers start with a rebuild of the index; the Room is created.
Init ==
    /\ seq = 1
    /\ away = [p \in Players |-> [version |-> 0, active |-> FALSE]]
    /\ passed = {}
    /\ outcome = [t \in Timers |-> "none"]
    /\ rows = {} /\ posts = {} /\ due = {} /\ inflight = {}
    /\ wrk = [w \in Workers |-> Idle]
    /\ late = {}
    /\ rebuild = [rollouts |-> 0, phase |-> "none", todo |-> {}]
    /\ losses = 0

-----------------------------------------------------------------------------
(* The Room                                                                *)

ActiveIn(a) ==
    {t \in Timers : a[t.player].active /\ a[t.player].version = t.version}

Open(t) == t \in ActiveIn(away)

\* An accepted command: rows of the open episodes are written with the
\* snapshot, none is closed; all open episodes are scheduled afterwards.
Committed(a) ==
    /\ seq < MaxSequence
    /\ seq' = seq + 1
    /\ away' = a
    /\ rows' = rows \cup ActiveIn(a)
    /\ posts' = posts \cup ActiveIn(a)

DisconnectPlayer(p) ==
    /\ away[p].version < MaxVersion
    /\ Committed([away EXCEPT ![p] = [version |-> @.version + 1, active |-> TRUE]])
    /\ UNCHANGED <<passed, outcome, due, inflight, wrk, late, rebuild, losses>>

\* Before the deadline ReconnectPlayer, at any time LeaveRoom.
EndAbsence(p) ==
    /\ away[p].active
    /\ Committed([away EXCEPT ![p].active = FALSE])
    /\ UNCHANGED <<passed, outcome, due, inflight, wrk, late, rebuild, losses>>

OtherCommand ==
    /\ Committed(away)
    /\ UNCHANGED <<passed, outcome, due, inflight, wrk, late, rebuild, losses>>

\* The worker sends no expectedSequenceNumber: sequenceOrZero.
SubmittedSequence == 0

Forfeits(t) == SubmittedSequence = seq /\ Open(t) /\ t \in passed

\* ForfeitPlayer under the timer's command id: replayed if the Room knows
\* it, else accepted or refused, and recorded either way.
Decide(t) ==
    IF outcome[t] # "none"
    THEN UNCHANGED roomVars
    ELSE IF Forfeits(t)
    THEN /\ Committed([away EXCEPT ![t.player].active = FALSE])
         /\ outcome' = [outcome EXCEPT ![t] = "accepted"]
    ELSE /\ outcome' = [outcome EXCEPT ![t] = "rejected"]
         /\ rows' = rows \cup ActiveIn(away)
         /\ UNCHANGED <<seq, away, posts>>

DeadlinePasses(t) ==
    /\ Open(t) /\ t \notin passed
    /\ passed' = passed \cup {t}
    /\ UNCHANGED <<roomVars, indexVars, wrk, late, rebuild, losses>>

-----------------------------------------------------------------------------
(* The index                                                               *)

Lose(kind) ==
    /\ kind \in Losses /\ losses < MaxLosses
    /\ losses' = losses + 1

\* scheduleTimersFromSession; ZADD of a member that is there changes nothing.
Schedule(t) ==
    /\ t \in posts
    /\ posts' = posts \ {t}
    /\ due' = due \cup {t}
    /\ UNCHANGED <<seq, away, passed, outcome, rows, inflight, wrk, late, rebuild, losses>>

\* The handler dies after its commit or Redis is not there: nobody is told.
ScheduleLost(t) ==
    /\ Lose("write") /\ t \in posts
    /\ posts' = posts \ {t}
    /\ UNCHANGED <<seq, away, passed, outcome, rows, indexVars, wrk, late, rebuild>>

IndexLost ==
    /\ Lose("index") /\ due \cup inflight # {}
    /\ due' = {} /\ inflight' = {}
    /\ UNCHANGED <<roomVars, passed, wrk, late, rebuild>>

\* Mutant: leases are not reaped.
ReapNever(t) == FALSE /\ t \in inflight /\ UNCHANGED vars

\* reaperScript, once the lease is over.
Reap(t) ==
    /\ t \in inflight
    /\ inflight' = inflight \ {t}
    /\ due' = due \cup {t}
    /\ UNCHANGED <<roomVars, passed, wrk, late, rebuild, losses>>

\* A timer process that starts wants the index rebuilt; one that was at it
\* and failed, or lost its lease, starts over.
Rollout ==
    /\ rebuild.rollouts < MaxRollouts
    /\ rebuild' = [rollouts |-> rebuild.rollouts + 1, phase |-> "flush", todo |-> {}]
    /\ UNCHANGED <<roomVars, passed, indexVars, wrk, late, losses>>

FlushIndex ==
    /\ rebuild.phase = "flush"
    /\ due' = {} /\ inflight' = {}
    /\ rebuild' = [rebuild EXCEPT !.phase = "read"]
    /\ UNCHANGED <<roomVars, passed, wrk, late, losses>>

\* Every row has been left open.
ReadRows ==
    /\ rebuild.phase = "read"
    /\ rebuild' = [rebuild EXCEPT !.phase = "write", !.todo = rows]
    /\ UNCHANGED <<roomVars, passed, indexVars, wrk, late, losses>>

WriteRow ==
    /\ rebuild.phase = "write"
    /\ IF rebuild.todo = {}
       THEN rebuild' = [rebuild EXCEPT !.phase = "none"] /\ UNCHANGED due
       ELSE \E t \in rebuild.todo :
               rebuild' = [rebuild EXCEPT !.todo = @ \ {t}] /\ due' = due \cup {t}
    /\ UNCHANGED <<roomVars, passed, inflight, wrk, late, losses>>

-----------------------------------------------------------------------------
(* The workers                                                             *)

\* Mutant: members are taken from the index, not leased.
ClaimPops(w, t) ==
    /\ wrk[w] = Idle
    /\ t \in due /\ t \in passed
    /\ due' = due \ {t}
    /\ wrk' = [wrk EXCEPT ![w].timer = t]
    /\ UNCHANGED <<roomVars, passed, inflight, late, rebuild, losses>>

\* claimDueScript.
Claim(w, t) ==
    /\ wrk[w] = Idle
    /\ t \in due /\ t \in passed
    /\ due' = due \ {t}
    /\ inflight' = inflight \cup {t}
    /\ wrk' = [wrk EXCEPT ![w].timer = t]
    /\ UNCHANGED <<roomVars, passed, late, rebuild, losses>>

Waits(w, t) == wrk[w] = [timer |-> t, answered |-> FALSE]

Dispatch(w, t) ==
    /\ Waits(w, t)
    /\ Decide(t)
    /\ wrk' = [wrk EXCEPT ![w].answered = TRUE]
    /\ UNCHANGED <<passed, indexVars, late, rebuild, losses>>

\* room_busy or stale_room_generation: for dispatch an answer like any other.
TurnedAway(w, t) ==
    /\ Lose("request") /\ Waits(w, t)
    /\ wrk' = [wrk EXCEPT ![w].answered = TRUE]
    /\ UNCHANGED <<roomVars, passed, indexVars, late, rebuild>>

\* A 5xx, a transport error or the end of the worker; the request may have
\* arrived, or arrive later.
GiveUp(w, t) ==
    /\ wrk[w].timer = t
    /\ wrk' = [wrk EXCEPT ![w] = Idle]
    /\ late' \in {late, late \cup {t}}
    /\ UNCHANGED <<roomVars, passed, indexVars, rebuild, losses>>

ArriveLate(t) ==
    /\ t \in late
    /\ late' = late \ {t}
    /\ Decide(t)
    /\ UNCHANGED <<passed, indexVars, wrk, rebuild, losses>>

Ack(w) ==
    /\ wrk[w].answered
    /\ inflight' = inflight \ {wrk[w].timer}
    /\ wrk' = [wrk EXCEPT ![w] = Idle]
    /\ UNCHANGED <<roomVars, passed, due, late, rebuild, losses>>

Next ==
    \/ \E p \in Players : DisconnectPlayer(p) \/ EndAbsence(p)
    \/ OtherCommand
    \/ \E t \in Timers :
          \/ DeadlinePasses(t) \/ Schedule(t) \/ ScheduleLost(t) \/ Reap(t) \/ ArriveLate(t)
          \/ \E w \in Workers :
                Claim(w, t) \/ Dispatch(w, t) \/ TurnedAway(w, t) \/ GiveUp(w, t)
    \/ IndexLost
    \/ Rollout \/ FlushIndex \/ ReadRows \/ WriteRow
    \/ \E w \in Workers : Ack(w)

Spec == Init /\ [][Next]_vars

(***************************************************************************)
(* Workers poll every second, oldest timer first; handlers run to the end  *)
(* of their scheduling and a rebuild is tried until it succeeds.  Requests *)
(* may fail and workers die again and again, but not every time.           *)
(***************************************************************************)
Fairness ==
    /\ \A t \in Timers :
          /\ WF_vars(Schedule(t)) /\ WF_vars(Reap(t))
          /\ SF_vars(\E w \in Workers : Claim(w, t))
          /\ SF_vars(\E w \in Workers : Dispatch(w, t))
    /\ \A w \in Workers : WF_vars(Ack(w))
    /\ WF_vars(FlushIndex) /\ WF_vars(ReadRows) /\ WF_vars(WriteRow)

FairSpec == Spec /\ Fairness

-----------------------------------------------------------------------------
(* Properties                                                              *)

(* Everything the index, the workers and the rebuild hold belongs to a     *)
(* deadline that was committed; only passed ones are claimed and sent.     *)
TypeOK ==
    /\ seq \in 1 .. MaxSequence
    /\ away \in [Players -> [version : 0 .. MaxVersion, active : BOOLEAN]]
    /\ outcome \in [Timers -> {"none", "accepted", "rejected"}]
    /\ rows \subseteq Timers /\ posts \subseteq rows /\ due \subseteq rows
    /\ inflight \subseteq passed /\ passed \subseteq rows /\ late \subseteq passed
    /\ wrk \in [Workers -> [timer : passed \cup {NoTimer}, answered : BOOLEAN]]
    /\ rebuild \in [rollouts : 0 .. MaxRollouts, phase : {"none", "flush", "read", "write"},
                    todo : SUBSET rows]
    /\ losses \in 0 .. MaxLosses

\* The timer is in the index, on its way to it, or about to be rebuilt.
Timed(t) ==
    \/ t \in due \cup inflight \cup posts \cup rebuild.todo
    \/ rebuild.phase \in {"flush", "read"} /\ t \in rows

(* An absence the Room has not decided about never drops out of the index: *)
(* not by a claim, a late acknowledgement, the reaper or a rebuild that    *)
(* empties the index while commits go on (as long as nothing is lost).     *)
OpenEpisodeIsTimed ==
    losses = 0 => \A t \in Timers : Open(t) /\ outcome[t] = "none" => Timed(t)

(* When the deadline of an absence passes, the Room gets to decide about   *)
(* it, although workers die, answers are not heard and the index is        *)
(* rebuilt (as long as Redis keeps its data).                              *)
DueEpisodeAnswered ==
    \A t \in Timers :
        Open(t) /\ t \in passed ~> outcome[t] # "none" \/ ~Open(t) \/ losses > 0

AllDecided == \A w \in Workers : wrk[w].answered => outcome[wrk[w].timer] # "none"

(* Whatever has been lost, once the timer deployment starts again and      *)
(* nothing more is lost every deadline that has passed gets its answer,    *)
(* provided no worker is about to acknowledge a request turned away.       *)
RestartRecovers ==
    \A t \in Timers :
        Open(t) /\ t \in passed /\ rebuild.phase = "flush" /\ losses = MaxLosses /\ AllDecided
            ~> outcome[t] # "none" \/ ~Open(t)

(* Together: the index holds every undecided absence.                      *)
IndexSound == TypeOK /\ OpenEpisodeIsTimed

(* Together: an absence that is due is answered, at once or after a start. *)
AbsencesAnswered == DueEpisodeAnswered /\ RestartRecovers
=============================================================================
