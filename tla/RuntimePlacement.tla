-------------------------- MODULE RuntimePlacement --------------------------
(***************************************************************************)
(* The pod that executes a Room: the desired assignment in Room Postgres,  *)
(* the leaderless controllers that make one bare pod of every generation,  *)
(* the router's directory of ready pods, and the generation fence under    *)
(* which a pod commits.                                                    *)
(*                                                                         *)
(*   store/runtime_assignment.go  the row, its claims, marks and advances  *)
(*   topology.go                  RuntimeController, PodDirectory,         *)
(*                                RoomRouter, RoomMutationQueue            *)
(*   main.go                      a command inside the pod, the refresh    *)
(*                                                                         *)
(* One tournament Room.  A controller works on the copy of the row its     *)
(* claim returned, one request to Kubernetes or Postgres a step; a deleted *)
(* pod may still be listed and its process may still be committing.        *)
(***************************************************************************)
EXTENDS Integers, Sequences, FiniteSets

CONSTANTS
    Controllers,  \* replicas of the runtime controller
    Routers,      \* replicas of the Room router
    Requests,     \* commands for the Room
    Nobody,       \* no controller, no request
    Capacity,     \* commands that wait in a pod besides the one at work
    MaxGen,       \* bound: generations of the Room
    MaxFaults     \* bound: pods that fail, controllers that fail or stall

ASSUME PlacementAssumption ==
    /\ Capacity \in Nat /\ MaxGen \in Nat \ {0} /\ MaxFaults \in Nat \ {0}
    /\ Nobody \notin Controllers /\ Nobody \notin Requests

VARIABLES
    row,        \* the row of room_runtime_assignments
    lock,       \* the command whose transaction holds the rows of the Room
    pods,       \* what the Kubernetes API answers for the pod of a generation
    made,       \* pods created of each generation: the last one's identity
    ctl,        \* each controller: its step and the copy it has claimed
    upgraded,   \* controllers that run the new principal key version
    dir,        \* each router's generation of the Room, 0 when none is ready
    req,        \* each command: where it is, and the pod it was sent to
    served,     \* the generations that committed a command, in commit order
    announced,  \* RoomRuntimeReady events in the outbox
    faults

vars == <<row, lock, pods, made, ctl, upgraded, dir, req, served, announced, faults>>
cluster == <<pods, made>>
traffic == <<dir, req, served, lock>>

Gens  == 1..MaxGen
NoPod == [phase |-> "absent"]
NewPod(new) == [phase |-> "pending", new |-> new, leaving |-> FALSE]

\* Failing: the phase is Unknown, Failed or Succeeded, or the pod is not ready
\* past the readiness timeout (readinessExpired).
Pods == [phase : {"pending", "ready", "failing"}, new : BOOLEAN, leaving : BOOLEAN]

Exists(g)  == pods[g].phase # "absent"
Serving(g) == pods[g].phase = "ready"

Resting == [pc |-> "idle", gen |-> 1, desired |-> "running", observed |-> "pending"]
At(pc)  == [pc |-> pc, gen |-> 1, pod |-> 0]

(* CreateRoom has committed the Room and its first assignment together.  A *)
(* rolling update of the controllers, if one is to come, counts as a fault; *)
(* some of the commands and some of the faults never come.                  *)
Init ==
    /\ row = [gen |-> 1, desired |-> "running", observed |-> "pending", lease |-> Nobody]
    /\ lock = Nobody
    /\ pods = [g \in Gens |-> NoPod] /\ made = [g \in Gens |-> 0]
    /\ ctl = [c \in Controllers |-> Resting]
    /\ \/ upgraded = Controllers /\ faults \in 0..MaxFaults
       \/ upgraded = {} /\ faults = 1
    /\ dir = [r \in Routers |-> 0]
    /\ req \in [Requests -> {At("new"), At("answered")}]
    /\ served = <<>> /\ announced = 0

Fault == faults < MaxFaults /\ faults' = faults + 1

-----------------------------------------------------------------------------
(* The controllers                                                         *)

\* ClaimRuntimeAssignments, some time after next_attempt_at: SKIP LOCKED
\* passes by a Room whose row is held.
\* While a rolling update replaces the controllers, old and new ones undo
\* each other's pods: the claims of old ones count as faults.
ClaimRuntimeAssignments(c) ==
    /\ ctl[c].pc = "idle" /\ lock = Nobody
    /\ row.lease = Nobody
    /\ ~(row.desired = "terminal" /\ row.observed = "deleted")
    /\ row' = [row EXCEPT !.lease = c]
    /\ ctl' = [ctl EXCEPT ![c] = [pc |-> "claimed", gen |-> row.gen, desired |-> row.desired,
                                  observed |-> row.observed]]
    /\ IF c \notin upgraded /\ upgraded # {} THEN Fault ELSE UNCHANGED faults
    /\ UNCHANGED <<cluster, traffic, upgraded, announced>>

\* What reconcileAssignment decides from its copy and the pod it was shown.
Decision(c, a, p) ==
    CASE a.desired = "terminal" -> "deleting"
      [] a.desired # "terminal" /\ p.phase = "absent" ->
            IF a.observed = "ready" THEN "advancing" ELSE "creating"
      [] OTHER ->
            IF p.new # (c \in upgraded) THEN "replacing"
            ELSE IF p.phase = "ready" THEN "marking ready"
            ELSE IF p.phase = "failing" THEN "replacing"
            ELSE "idle"

GetPod(c) ==
    /\ ctl[c].pc = "claimed"
    /\ ctl' = [ctl EXCEPT ![c].pc = Decision(c, ctl[c], pods[ctl[c].gen])]
    /\ UNCHANGED <<row, cluster, traffic, upgraded, announced, faults>>

\* Create: a pod of that name may be there already, which is as good.
CreatePod(c) ==
    LET g == ctl[c].gen IN
    /\ ctl[c].pc = "creating"
    /\ ctl' = [ctl EXCEPT ![c].pc = "marking creating"]
    /\ IF Exists(g)
         THEN UNCHANGED cluster
         ELSE /\ pods' = [pods EXCEPT ![g] = NewPod(c \in upgraded)]
              /\ made' = [made EXCEPT ![g] = @ + 1]
    /\ UNCHANGED <<row, traffic, upgraded, announced, faults>>

\* Delete: the pod leaves in its own time.
DeletePod(c) ==
    LET g == ctl[c].gen IN
    /\ ctl[c].pc \in {"deleting", "replacing"}
    /\ pods' = IF Exists(g) THEN [pods EXCEPT ![g].leaving = TRUE] ELSE pods
    /\ ctl' = [ctl EXCEPT ![c].pc = IF @ = "deleting" THEN "marking deleted" ELSE "advancing"]
    /\ UNCHANGED <<row, made, traffic, upgraded, announced, faults>>

Finish(c) == ctl' = [ctl EXCEPT ![c] = Resting]

\* The copy still names the current generation of a Room that is to run.
StillRuns(a) == row.gen = a.gen /\ row.desired = "running"

MarkRuntimePodCreating(c) ==
    /\ ctl[c].pc = "marking creating" /\ lock = Nobody
    /\ row' = IF StillRuns(ctl[c])
                THEN [row EXCEPT !.observed = "creating", !.lease = Nobody]
                ELSE row
    /\ Finish(c)
    /\ UNCHANGED <<cluster, traffic, upgraded, announced, faults>>

\* The first readiness is announced in the same transaction, under an event
\* id that names the Room alone.
MarkRuntimePodReady(c) ==
    /\ ctl[c].pc = "marking ready" /\ lock = Nobody
    /\ IF StillRuns(ctl[c])
         THEN /\ row' = [row EXCEPT !.observed = "ready", !.lease = Nobody]
              /\ announced' = IF announced = 0 THEN 1 ELSE announced
         ELSE UNCHANGED <<row, announced>>
    /\ Finish(c)
    /\ UNCHANGED <<cluster, traffic, upgraded, faults>>

MarkRuntimePodDeleted(c) ==
    /\ ctl[c].pc = "marking deleted" /\ lock = Nobody
    /\ row' = IF row.gen = ctl[c].gen
                THEN [row EXCEPT !.observed = "deleted", !.lease = Nobody]
                ELSE row
    /\ Finish(c)
    /\ UNCHANGED <<cluster, traffic, upgraded, announced, faults>>

\* Mutant: the new generation keeps the observation of the one it replaces.
AdvanceObserved(c) ==
    /\ ctl[c].pc = "advancing" /\ lock = Nobody
    /\ row' = IF StillRuns(ctl[c]) /\ row.gen < MaxGen
                THEN [row EXCEPT !.gen = @ + 1, !.lease = Nobody]
                ELSE row
    /\ Finish(c)
    /\ UNCHANGED <<cluster, traffic, upgraded, announced, faults>>

\* AdvanceRuntimeGeneration: a copy that is not current any more changes
\* nothing.  The name of the pod follows from the generation.
AdvanceRuntimeGeneration(c) ==
    /\ ctl[c].pc = "advancing" /\ lock = Nobody
    /\ row' = IF StillRuns(ctl[c]) /\ row.gen < MaxGen
                THEN [row EXCEPT !.gen = @ + 1, !.observed = "pending", !.lease = Nobody]
                ELSE row
    /\ Finish(c)
    /\ UNCHANGED <<cluster, traffic, upgraded, announced, faults>>

\* A request fails, its answer is lost, or the controller dies: the lease is
\* left to expire.
ControllerFails(c) ==
    /\ ctl[c].pc # "idle"
    /\ Finish(c) /\ Fault
    /\ UNCHANGED <<row, cluster, traffic, upgraded, announced>>

\* The 20 s of a lease run out, if need be under a controller that still has
\* other assignments of its batch to serve.
LeaseExpires ==
    /\ row.lease # Nobody
    /\ row' = [row EXCEPT !.lease = Nobody]
    /\ IF ctl[row.lease].pc = "idle" THEN UNCHANGED faults ELSE Fault
    /\ UNCHANGED <<cluster, traffic, ctl, upgraded, announced>>

\* A rolling update restarts a controller with the next key version.
Upgrade(c) ==
    /\ c \notin upgraded /\ ctl[c].pc = "idle"
    /\ upgraded' = upgraded \cup {c}
    /\ UNCHANGED <<row, cluster, traffic, ctl, announced, faults>>

-----------------------------------------------------------------------------
(* Kubernetes                                                              *)

PodStarts(g) ==
    /\ pods[g].phase \in {"pending", "failing"} /\ ~pods[g].leaving
    /\ pods' = [pods EXCEPT ![g].phase = "ready"]
    /\ UNCHANGED <<row, made, traffic, ctl, upgraded, announced, faults>>

\* Probes fail, the node is lost, the pod ends, or it starts too slowly.
PodFails(g) ==
    /\ pods[g].phase \in {"pending", "ready"} /\ ~pods[g].leaving
    /\ pods' = [pods EXCEPT ![g].phase = "failing"]
    /\ Fault
    /\ UNCHANGED <<row, made, traffic, ctl, upgraded, announced>>

\* A deleted pod is gone, or any pod is evicted.
PodGoes(g) ==
    /\ Exists(g)
    /\ pods' = [pods EXCEPT ![g] = NoPod]
    /\ IF pods[g].leaving THEN UNCHANGED faults ELSE Fault
    /\ UNCHANGED <<row, made, traffic, ctl, upgraded, announced>>

-----------------------------------------------------------------------------
(* The router and the pod                                                  *)

\* Replace: of the ready pods the one of the highest generation, or none.
Listed == {g \in Gens : Serving(g)}

Lists(g) == IF Listed = {} THEN g = 0 ELSE g \in Listed /\ \A h \in Listed : h <= g

Replace(r) ==
    /\ \E g \in 0..MaxGen : Lists(g) /\ g # dir[r] /\ dir' = [dir EXCEPT ![r] = g]
    /\ UNCHANGED <<row, cluster, lock, req, served, ctl, upgraded, announced, faults>>

\* The commands a pod has admitted: one place for each permit.
Admitted(g, pod) ==
    {q \in Requests : req[q].pc \in {"queued", "holding"} /\ req[q].gen = g /\ req[q].pod = pod}

\* ServeHTTP forwards to the listed pod, once: no pod, a dead address and a
\* full queue are all answers.
Forward(r, q) ==
    LET g == dir[r] IN
    /\ req[q].pc = "new"
    /\ req' = [req EXCEPT ![q] =
                  IF g # 0 /\ Exists(g) /\ Cardinality(Admitted(g, made[g])) < Capacity + 1
                    THEN [pc |-> "queued", gen |-> g, pod |-> made[g]]
                    ELSE At("answered")]
    /\ UNCHANGED <<row, cluster, lock, dir, served, ctl, upgraded, announced, faults>>

AtWork(g, pod) == \E q \in Admitted(g, pod) : req[q].pc = "holding"

\* Mutant: the pod takes the Room without asking for its generation.
BeginExisting(q) ==
    /\ req[q].pc = "queued" /\ ~AtWork(req[q].gen, req[q].pod) /\ lock = Nobody
    /\ lock' = q /\ req' = [req EXCEPT ![q].pc = "holding"]
    /\ UNCHANGED <<row, cluster, dir, served, ctl, upgraded, announced, faults>>

\* The queue's worker begins a transaction: the Room and its assignment are
\* locked together, and another generation's pod is turned away.
BeginExistingGeneration(q) ==
    /\ req[q].pc = "queued" /\ ~AtWork(req[q].gen, req[q].pod) /\ lock = Nobody
    /\ IF row.gen = req[q].gen /\ row.desired = "running"
         THEN lock' = q /\ req' = [req EXCEPT ![q].pc = "holding"]
         ELSE lock' = lock /\ req' = [req EXCEPT ![q] = At("answered")]
    /\ UNCHANGED <<row, cluster, dir, served, ctl, upgraded, announced, faults>>

\* The command commits; when it ends the Room, its terminal intent with it.
CommitMutation(q, ends) ==
    /\ req[q].pc = "holding"
    /\ served' = Append(served, req[q].gen)
    /\ row' = IF ends THEN [row EXCEPT !.desired = "terminal"] ELSE row
    /\ lock' = Nobody /\ req' = [req EXCEPT ![q] = At("answered")]
    /\ UNCHANGED <<cluster, dir, ctl, upgraded, announced, faults>>

\* The transaction fails, or the process and all it has admitted dies.
AbandonMutation(q) ==
    /\ req[q].pc \in {"queued", "holding"}
    /\ lock' = IF lock = q THEN Nobody ELSE lock
    /\ req' = [req EXCEPT ![q] = At("answered")]
    /\ UNCHANGED <<row, cluster, dir, served, ctl, upgraded, announced, faults>>

-----------------------------------------------------------------------------
ControllerStep(c) ==
    \/ ClaimRuntimeAssignments(c) \/ GetPod(c) \/ CreatePod(c) \/ DeletePod(c)
    \/ MarkRuntimePodCreating(c) \/ MarkRuntimePodReady(c) \/ MarkRuntimePodDeleted(c)
    \/ AdvanceRuntimeGeneration(c)

Next ==
    \/ \E c \in Controllers : ControllerStep(c) \/ ControllerFails(c) \/ Upgrade(c)
    \/ LeaseExpires
    \/ \E g \in Gens : PodStarts(g) \/ PodFails(g) \/ PodGoes(g)
    \/ \E r \in Routers : Replace(r) \/ \E q \in Requests : Forward(r, q)
    \/ \E q \in Requests : BeginExistingGeneration(q) \/ AbandonMutation(q)
    \/ \E q \in Requests, ends \in BOOLEAN : CommitMutation(q, ends)

\* Controllers run on, leases pass, pods start or go, routers
\* list, and no command stays in a pod for ever.
Fairness ==
    /\ \A c \in Controllers : WF_vars(ControllerStep(c)) /\ WF_vars(Upgrade(c))
    /\ WF_vars(LeaseExpires)
    /\ \A g \in Gens : WF_vars(PodStarts(g) /\ pods[g].phase = "pending") /\ WF_vars(PodGoes(g) /\ pods[g].leaving)
    /\ \A r \in Routers : WF_vars(Replace(r))
    /\ \A q \in Requests :
          WF_vars(BeginExistingGeneration(q) \/ AbandonMutation(q) \/ CommitMutation(q, FALSE))

Spec == Init /\ [][Next]_vars
FairSpec == Spec /\ Fairness
-----------------------------------------------------------------------------
Rows == [gen : Gens, desired : {"running", "terminal"},
         observed : {"pending", "creating", "ready", "deleted"},
         lease : Controllers \cup {Nobody}]

Copies == [pc : {"idle", "claimed", "creating", "deleting", "replacing", "advancing",
                 "marking creating", "marking ready", "marking deleted"},
           gen : Gens, desired : {"running", "terminal"},
           observed : {"pending", "creating", "ready", "deleted"}]

Sent == [pc : {"new", "queued", "holding", "answered"}, gen : Gens, pod : Nat]

TypeOK ==
    /\ row \in Rows /\ lock \in Requests \cup {Nobody}
    /\ pods \in [Gens -> Pods \cup {NoPod}] /\ made \in [Gens -> Nat]
    /\ ctl \in [Controllers -> Copies] /\ upgraded \subseteq Controllers
    /\ dir \in [Routers -> 0..MaxGen] /\ req \in [Requests -> Sent]
    /\ served \in Seq(Gens) /\ announced \in Nat /\ faults \in Nat

(* A pod that has been replaced commits nothing behind its replacement: the  *)
(* generations that commit commands never go back, and while one of them     *)
(* holds the Room it is the current one (the fence and the lock of           *)
(* BeginExistingGeneration against AdvanceRuntimeGeneration).                *)
ReplacedIsFenced ==
    /\ \A i, j \in 1..Len(served) : i <= j => served[i] <= served[j]
    /\ \A i \in 1..Len(served) : served[i] <= row.gen
    /\ lock # Nobody => req[lock].pc = "holding" /\ StillRuns(req[lock])

(* A tournament learns of a Room exactly once that it can be played, and not *)
(* before a pod of it was ready: the event is in the outbox whenever the row *)
(* says ready, and no later generation adds another (MarkRuntimePodReady).   *)
ReadinessIsAnnouncedOnce ==
    /\ announced <= 1
    /\ row.observed = "ready" => announced = 1
    /\ announced = 1 => \E g \in Gens : made[g] > 0

PlacementSound == TypeOK /\ ReplacedIsFenced /\ ReadinessIsAnnouncedOnce

\* Every router sends the Room's commands to a pod that may commit them.
Served == \A r \in Routers : dir[r] = row.gen /\ Serving(row.gen)

(* Once pods and controllers stop failing, a Room that runs is reachable for *)
(* good at its current generation through every router, and one that has     *)
(* ended has given up the pod of its last generation (reconcileAssignment).  *)
RoomIsPlaced ==
    <>[](\/ row.desired = "running" /\ Served
         \/ row.desired = "terminal" /\ row.observed = "deleted" /\ row.lease = Nobody)

-----------------------------------------------------------------------------
(* What the code does not promise; see the README.                         *)

(* topology.go:581: "A failed/missing current pod advances the generation    *)
(* before the replacement is created".  A pod that vanishes before its row   *)
(* was marked ready is replaced under the same generation.                   *)
ReplacementAdvances == \A g \in Gens : made[g] <= 1

(* topology.go:582: "terminal rows only delete and never recreate a          *)
(* runtime".  A controller whose lease ran out creates the pod of a Room     *)
(* that has ended and been cleaned up.                                       *)
EndedHasNoPod ==
    row.desired = "terminal" /\ row.observed = "deleted" =>
        \A g \in Gens : Exists(g) => pods[g].leaving
=============================================================================
