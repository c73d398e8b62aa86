---------------------------- MODULE MCRoomWorkers ----------------------------
(* The two kinds of workers behind a Room that a player never sees: those  *)
(* that begin the next game and those that repair lost commits.  They share *)
(* no state in the models, so a behaviour shows one of them at work.        *)
EXTENDS NextGame, TLC

CONSTANTS create, draw1, report, handler, repairer, None

VARIABLES
    part,                                   \* whose behaviour this is
    table, idem, intent, owner, processed,  \* the state of DurableRoom
    log, deck, requests, lock, hnd, repairers

\* CreateRoom needs no token; `draw1` and `report` race for sequence 1.
Durable == INSTANCE DurableRoom WITH
    Commands <- {create, draw1, report}, CreateCommands <- {create},
    DrawCommands <- {draw1, report}, NoopCommands <- {}, SystemCommands <- {draw1},
    Illegal <- {report}, Timed <- {}, Replayed <- {}, MaxLate <- 1,
    Token <- (create :> 0 @@ draw1 :> 1 @@ report :> 1), DeckSize <- 2,
    Handlers <- {handler}, Workers <- {repairer},
    room <- table, late <- requests, wrk <- repairers

durableVars ==
    <<table, idem, intent, owner, processed, log, deck, requests, lock, hnd, repairers>>

WorkersInit == part \in {"repair", "continue"} /\ Init /\ Durable!Init

WorkersNext ==
    \/ part = "continue" /\ Next /\ UNCHANGED <<part, durableVars>>
    \/ part = "repair" /\ Durable!Next /\ UNCHANGED <<part, vars>>

\* The fairness of both: neither asks anything of a part that never begins.
WorkersSpec ==
    /\ WorkersInit /\ [][WorkersNext]_<<part, vars, durableVars>>
    /\ Fairness
    /\ Durable!Fairness /\ <>[][~Durable!Fault]_durableVars

-----------------------------------------------------------------------------
(* A decided command reaches the Room snapshot (DurableRoom).              *)
DecidedIsPublished == Durable!DecidedIsPublished
=============================================================================
