----------------------------- MODULE MCRoomPods -----------------------------
(* What stands beside a Room in other processes: the pods that execute it  *)
(* (RuntimePlacement), and the replicas of Game Integrity that keep its    *)
(* deck and log (IntegrityStore).  They share no state in the models, so a *)
(* behaviour shows one of the two.                                         *)
EXTENDS RuntimePlacement, IntegrityStore

CONSTANTS c1, c2, r1, q1, q2, g1, g2, ra, rb, op1, op2, e1, e2

VARIABLE part    \* whose behaviour this is

MCControllers == {c1, c2}
MCRequests    == {q1, q2}

\* Two replicas, two Rooms that ask for the same game, decks of two cards.
MCReplicas == {g1, g2}
MCRooms    == {ra, rb}
MCOps      == {op1, op2}
MCEvents   == {e1, e2}

Placing == part = "pods"

\* One command and all faults, or two commands and one fault that is not a
\* rolling update.
PodsInit ==
    /\ part \in {"pods", "store"} /\ Init /\ StoreInit
    /\ req[q1].pc = "new"
    /\ IF req[q2].pc = "new" THEN upgraded = MCControllers /\ faults = 1
                             ELSE upgraded = {} \/ faults = 0
    /\ ~Placing => req[q2].pc = "new"

PodsNext ==
    \/ Placing /\ Next /\ UNCHANGED <<part, storeVars>>
    \/ part = "store" /\ StoreNext /\ UNCHANGED <<part, vars>>

\* Fairness of RuntimePlacement, while it is the part shown.
PlacementFairness ==
    /\ \A c \in MCControllers :
          WF_vars(Placing /\ ControllerStep(c)) /\ WF_vars(Placing /\ Upgrade(c))
    /\ WF_vars(Placing /\ LeaseExpires)
    /\ \A g \in Gens :
          /\ WF_vars(Placing /\ PodStarts(g) /\ pods[g].phase = "pending")
          /\ WF_vars(Placing /\ PodGoes(g) /\ pods[g].leaving)
    /\ \A r \in Routers : WF_vars(Placing /\ Replace(r))
    /\ \A q \in MCRequests :
          WF_vars(Placing /\ (BeginExistingGeneration(q) \/ AbandonMutation(q) \/ CommitMutation(q, FALSE)))

PodsSpec == PodsInit /\ [][PodsNext]_<<part, vars, storeVars>> /\ PlacementFairness

-----------------------------------------------------------------------------
(* Once failures stop, a running Room is reachable and an ended one is     *)
(* cleaned up (RuntimePlacement).                                          *)
RoomIsPlacedAtLast == Placing => RoomIsPlaced
=============================================================================
