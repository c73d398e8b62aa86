------------------------------- MODULE NextGame -------------------------------
(***************************************************************************)
(* How the next game of a best-of-three begins.  The transaction that      *)
(* commits a finished game queues a continuation for it; timer workers     *)
(* claim it under a lease and send StartNextGame to the Room, under a      *)
(* command id derived from the finished game, until the Room has decided.  *)
(*                                                                         *)
(*   store/postgres_persist.go       the row and the Room commit together  *)
(*   store/next_game_continuations.go  claim, release, acknowledge         *)
(*   timer_worker.go                 the worker                            *)
(*   app/service_durable.go          the Room's decision                   *)
(*                                                                         *)
(* Games are numbered in the order they begin; the continuation of game m  *)
(* is the command "auto-next-...-after-m".                                 *)
(***************************************************************************)
EXTENDS Naturals

CONSTANTS
    Workers,    \* timer workers
    MaxGames    \* bound: games of one match

ASSUME NextGameAssumption == MaxGames \in Nat \ {0}

VARIABLES
    room,       \* games begun, whether the last one runs, whether the match is over
    begun,      \* the continuations the Room has accepted (its outcomes)
    row,        \* next_game_continuations: at most one row per Room
    wrk,        \* what each worker has claimed and been answered
    late        \* requests whose sender no longer waits

vars == <<room, begun, row, wrk, late>>

Games == 1 .. MaxGames

Awaiting(r) == ~r.running /\ ~r.over

NoRow == [after |-> 0, available |-> FALSE, leased |-> FALSE]

NewRow(m) == [after |-> m, available |-> TRUE, leased |-> FALSE]

Idle == [job |-> 0, answer |-> "none"]

\* StartMatch has begun the first game.
Init ==
    /\ room = [games |-> 1, running |-> TRUE, over |-> FALSE]
    /\ begun = {}
    /\ late = {}
    /\ row = NoRow
    /\ wrk = [w \in Workers |-> Idle]

-----------------------------------------------------------------------------
(* The Room                                                                *)

\* syncNextGameContinuation, in the transaction that stores the Room.
Committed(r) ==
    /\ room' = r
    /\ row' = IF ~Awaiting(r) THEN NoRow
              ELSE IF row.after # r.games THEN NewRow(r.games) ELSE row

\* The last card, a forfeit or an abandonment; two wins decide the match.
EndGame(decides) ==
    /\ room.running /\ (room.games = MaxGames => decides)
    /\ Committed([room EXCEPT !.running = FALSE, !.over = decides])
    /\ UNCHANGED <<begun, wrk, late>>

NextBegun == [room EXCEPT !.games = @ + 1, !.running = TRUE]

\* A StartNextGame that does not come from a worker has an id of its own.
StartByRequest ==
    /\ Awaiting(room)
    /\ Committed(NextBegun)
    /\ UNCHANGED <<begun, wrk, late>>

\* A repeated command replays; a refusal is not recorded for a worker.
Decide(m) ==
    IF m \in begun \/ ~Awaiting(room)
    THEN UNCHANGED <<room, begun, row>>
    ELSE Committed(NextBegun) /\ begun' = begun \cup {m}

AnswerTo(m) ==
    IF m \in begun \/ Awaiting(room) THEN "accepted" ELSE "refused"

-----------------------------------------------------------------------------
(* The workers                                                             *)

Claim(w) ==
    /\ wrk[w] = Idle
    /\ row # NoRow /\ row.available /\ ~row.leased
    /\ row' = [row EXCEPT !.leased = TRUE]
    /\ wrk' = [wrk EXCEPT ![w].job = row.after]
    /\ UNCHANGED <<room, begun, late>>

Waits(w) == wrk[w].job # 0 /\ wrk[w].answer = "none"

\* The Room decides and the worker hears of it.
Dispatch(w) ==
    /\ Waits(w)
    /\ Decide(wrk[w].job)
    /\ wrk' = [wrk EXCEPT ![w].answer = AnswerTo(wrk[w].job)]
    /\ UNCHANGED late

\* No usable answer: the request never arrived, was turned away (no pod, a
\* full queue, no deal, too few players) or arrives after all.
Fail(w) ==
    /\ Waits(w)
    /\ wrk' = [wrk EXCEPT ![w].answer = "failed"]
    /\ late' \in {late, late \cup {wrk[w].job}}
    /\ UNCHANGED <<room, begun, row>>

\* A worker dies, or its acknowledgement does not reach the database.
Crash(w) ==
    /\ wrk[w] # Idle
    /\ wrk' = [wrk EXCEPT ![w] = Idle]
    /\ \/ late' = late
       \/ Waits(w) /\ late' = late \cup {wrk[w].job}
    /\ UNCHANGED <<room, begun, row>>

ArriveLate(m) ==
    /\ m \in late
    /\ Decide(m)
    /\ late' = late \ {m}
    /\ UNCHANGED wrk

\* Mutant: the Room's row goes, whichever game it is for.
AckRoom(w) ==
    /\ wrk[w].answer \in {"accepted", "refused"}
    /\ row' = NoRow
    /\ wrk' = [wrk EXCEPT ![w] = Idle]
    /\ UNCHANGED <<room, begun, late>>

\* already_terminal and game_still_active are as good as an acceptance.
Ack(w) ==
    /\ wrk[w].answer \in {"accepted", "refused"}
    /\ row' = IF row.after = wrk[w].job THEN NoRow ELSE row
    /\ wrk' = [wrk EXCEPT ![w] = Idle]
    /\ UNCHANGED <<room, begun, late>>

\* Whoever holds the lease by now: the row is keyed by room and command.
Release(w) ==
    /\ wrk[w].answer = "failed"
    /\ row' = IF row.after = wrk[w].job
              THEN [row EXCEPT !.available = FALSE, !.leased = FALSE] ELSE row
    /\ wrk' = [wrk EXCEPT ![w] = Idle]
    /\ UNCHANGED <<room, begun, late>>

(* The clock                                                               *)

\* Mutant: a lease only ends with a release.
LeaseNeverExpires == FALSE /\ UNCHANGED vars

LeaseExpires ==
    /\ row.leased
    /\ row' = [row EXCEPT !.leased = FALSE]
    /\ UNCHANGED <<room, begun, wrk, late>>

RetryFallsDue ==
    /\ row # NoRow /\ ~row.available
    /\ row' = [row EXCEPT !.available = TRUE]
    /\ UNCHANGED <<room, begun, wrk, late>>

Next ==
    \/ \E decides \in BOOLEAN : EndGame(decides)
    \/ StartByRequest
    \/ \E w \in Workers :
          \/ Claim(w) \/ Dispatch(w) \/ Fail(w) \/ Crash(w) \/ Ack(w) \/ Release(w)
    \/ \E m \in Games : ArriveLate(m)
    \/ LeaseExpires
    \/ RetryFallsDue

Spec == Init /\ [][Next]_vars

(***************************************************************************)
(* Workers poll every second and leases end by the clock.  Workers may     *)
(* crash and requests may fail again and again, but not every time.        *)
(***************************************************************************)
Fairness ==
    /\ SF_vars(\E w \in Workers : Claim(w))
    /\ SF_vars(\E w \in Workers : Dispatch(w))
    /\ WF_vars(\E w \in Workers : Ack(w) \/ Release(w))
    /\ WF_vars(LeaseExpires) /\ WF_vars(RetryFallsDue)

FairSpec == Spec /\ Fairness

-----------------------------------------------------------------------------
(* Properties                                                              *)

(* Match, row and workers keep their shape; in particular a match begins   *)
(* no game beyond those it can have, however often it is asked to.         *)
TypeOK ==
    /\ room \in [games : Games, running : BOOLEAN, over : BOOLEAN]
    /\ begun \subseteq Games /\ late \subseteq Games
    /\ row \in [after : 0 .. MaxGames, available : BOOLEAN, leased : BOOLEAN]
    /\ wrk \in [Workers -> [job : 0 .. MaxGames,
                            answer : {"none", "accepted", "refused", "failed"}]]

(* As long as the Room waits for its next game a continuation for exactly  *)
(* the game that ended is queued; whatever a slow worker, whose lease is   *)
(* long gone, still acknowledges or releases, it is not lost.              *)
AwaitedIsQueued == Awaiting(room) => row.after = room.games

(* An undecided match goes on: its next game begins although workers die   *)
(* with the lease in hand, requests fail or take effect unnoticed, and the *)
(* command that begins it may be sent many times.                          *)
NextGameBegins == Awaiting(room) ~> room.running
=============================================================================
