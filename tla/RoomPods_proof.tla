--------------------------- MODULE RoomPods_proof ---------------------------
(***************************************************************************)
(* The two components beside a Room that fence each other's processes:     *)
(* runtime placement, and the streams of Game Integrity.                   *)
(*                                                                         *)
(* The generation fence, for any number of controllers, routers, commands, *)
(* generations and faults.  The inductive invariant says of every command  *)
(* at work that its transaction holds the rows of the Room, so that its    *)
(* generation is the current one and cannot be advanced before it commits; *)
(* and that a pod which exists, or which a controller is about to mark     *)
(* ready, has been made.                                                   *)
(*                                                                         *)
(* The streams, for any number of replicas, Rooms, reservations, events    *)
(* and faults.  The invariant says what a call knows of a stream that goes *)
(* on growing while it waits: the snapshot it is about to write follows    *)
(* the one at the revision it names, the event it is about to write is not *)
(* among those before its offset, and the same of every append that was    *)
(* given up and may still land.  A write lands only at the end, so what    *)
(* was known of a prefix is true of the whole stream when it does.         *)
(***************************************************************************)
EXTENDS RuntimePlacement, IntegrityStore, FiniteSetTheorems, TLAPS

\* A command at work holds the Room.
WorkersHoldLock == \A q \in Requests : req[q].pc = "holding" => lock = q

PodsAreMade == \A g \in Gens : Exists(g) => made[g] > 0

\* A controller marks ready only the pod of a generation it was shown.
MarkedIsMade == \A c \in Controllers : ctl[c].pc = "marking ready" => made[ctl[c].gen] > 0

IInv ==
    /\ TypeOK /\ ReplacedIsFenced /\ ReadinessIsAnnouncedOnce
    /\ WorkersHoldLock /\ PodsAreMade /\ MarkedIsMade

-----------------------------------------------------------------------------
LEMMA StillOnce ==
    ASSUME announced \in Nat, announced <= 1, announced' = announced \/ announced' = 1
    PROVE  announced' \in Nat /\ announced' <= 1
OBVIOUS

\* The controller goes on with the copy s.
Continues(c, s) == ctl' = [ctl EXCEPT ![c] = s]

(* A step of a controller that leaves the Room, its pods and its generation *)
(* alone keeps everything: claims and marks of any kind are such steps.     *)
LEMMA QuietStep ==
    ASSUME IInv, NEW c \in Controllers, NEW s \in Copies,
           Continues(c, s), s.pc # "marking ready",
           UNCHANGED <<cluster, traffic>>, upgraded' \subseteq Controllers,
           row' \in Rows, row'.gen = row.gen, row'.desired = row.desired,
           announced' = announced \/ (announced' = 1 /\ \E g \in Gens : made[g] > 0),
           row'.observed = "ready" => announced' = 1,
           faults' \in Nat
    PROVE  IInv'
<1>a. /\ pods' = pods /\ made' = made
      /\ dir' = dir /\ req' = req /\ served' = served /\ lock' = lock
  BY DEF cluster, traffic
<1>b. announced' \in Nat /\ announced' <= 1
  BY StillOnce DEF IInv, TypeOK, ReadinessIsAnnouncedOnce
<1>c. ctl' \in [Controllers -> Copies]
  BY DEF IInv, TypeOK, Continues
<1>1. TypeOK'
  BY <1>a, <1>b, <1>c DEF IInv, TypeOK
<1>2. ReplacedIsFenced'
  BY <1>a DEF IInv, ReplacedIsFenced, StillRuns
<1>3. ReadinessIsAnnouncedOnce'
  <2>1. announced' <= 1
    BY <1>b
  <2>2. announced' = 1 => \E g \in Gens : made'[g] > 0
    BY <1>a DEF IInv, ReadinessIsAnnouncedOnce
  <2> QED
    BY <2>1, <2>2 DEF ReadinessIsAnnouncedOnce
<1>4. WorkersHoldLock' /\ PodsAreMade'
  BY DEF IInv, WorkersHoldLock, PodsAreMade, Exists, traffic, cluster
<1>5. MarkedIsMade'
  <2> SUFFICES ASSUME NEW d \in Controllers, ctl'[d].pc = "marking ready"
               PROVE  made'[ctl'[d].gen] > 0
    BY DEF MarkedIsMade
  <2>1. d # c
    BY DEF IInv, TypeOK, Continues
  <2> QED
    BY <2>1 DEF IInv, TypeOK, MarkedIsMade, Continues, cluster
<1> QED
  BY <1>1, <1>2, <1>3, <1>4, <1>5 DEF IInv

LEMMA FaultIsNat ==
    ASSUME TypeOK, Fault \/ UNCHANGED faults PROVE faults' \in Nat
BY DEF TypeOK, Fault

LEMMA RestingIsCopy ==
    /\ Resting \in Copies /\ Resting.pc # "marking ready"
    /\ At("new") \in Sent /\ At("answered") \in Sent
    /\ At("answered").pc = "answered" /\ At("new").pc = "new"
BY PlacementAssumption DEF Resting, Copies, At, Sent, Gens

LEMMA ClaimKeeps ==
    ASSUME IInv, NEW c \in Controllers, ClaimRuntimeAssignments(c) PROVE IInv'
<1> DEFINE s == [pc |-> "claimed", gen |-> row.gen, desired |-> row.desired,
                 observed |-> row.observed]
<1>1. s \in Copies /\ s.pc # "marking ready"
  BY DEF IInv, TypeOK, Rows, Copies
<1>2. row' \in Rows /\ row'.gen = row.gen /\ row'.desired = row.desired
      /\ row'.observed = row.observed
  BY DEF IInv, TypeOK, Rows, ClaimRuntimeAssignments
<1>3. faults' \in Nat
  BY FaultIsNat DEF IInv, ClaimRuntimeAssignments
<1>4. row'.observed = "ready" => announced' = 1
  BY <1>2 DEF IInv, ReadinessIsAnnouncedOnce, ClaimRuntimeAssignments
<1>5. upgraded' \subseteq Controllers
  BY DEF IInv, TypeOK, ClaimRuntimeAssignments
<1> QED
  BY <1>1, <1>2, <1>3, <1>4, <1>5, QuietStep DEF ClaimRuntimeAssignments, Continues

(* A controller decides to mark ready only when the pod is there.           *)
LEMMA GetKeeps ==
    ASSUME IInv, NEW c \in Controllers, GetPod(c) PROVE IInv'
<1> DEFINE a == ctl[c]
           d == Decision(c, a, pods[a.gen])
<1>1. a \in Copies
  BY DEF IInv, TypeOK
<1>2. d \in {"deleting", "advancing", "creating", "replacing", "marking ready", "idle"}
  BY DEF Decision
<1>3. d = "marking ready" => Exists(a.gen)
  BY DEF Decision, Exists
<1>4. ctl' = [ctl EXCEPT ![c] = [a EXCEPT !.pc = d]]
  BY DEF GetPod
<1>5. [a EXCEPT !.pc = d] \in Copies
  BY <1>1, <1>2 DEF Copies
<1>6. TypeOK'
  BY <1>4, <1>5 DEF IInv, TypeOK, GetPod, cluster, traffic
<1>7. ReplacedIsFenced' /\ ReadinessIsAnnouncedOnce' /\ WorkersHoldLock' /\ PodsAreMade'
  BY DEF IInv, ReplacedIsFenced, ReadinessIsAnnouncedOnce, WorkersHoldLock, PodsAreMade, Exists,
         StillRuns, GetPod, cluster, traffic
<1>8. MarkedIsMade'
  <2> SUFFICES ASSUME NEW e \in Controllers, ctl'[e].pc = "marking ready"
               PROVE  made'[ctl'[e].gen] > 0
    BY DEF MarkedIsMade
  <2>1. CASE e # c
    BY <2>1, <1>4 DEF IInv, TypeOK, MarkedIsMade, GetPod, cluster
  <2>2. CASE e = c
    <3>1. ctl'[c].pc = d /\ ctl'[c].gen = a.gen
      BY <1>1, <1>4 DEF IInv, TypeOK, Copies
    <3>2. a.gen \in Gens
      BY <1>1 DEF Copies
    <3> QED
      BY <2>2, <3>1, <3>2, <1>3 DEF IInv, PodsAreMade, GetPod, cluster
  <2> QED
    BY <2>1, <2>2
<1> QED
  BY <1>6, <1>7, <1>8 DEF IInv

LEMMA CreateKeeps ==
    ASSUME IInv, NEW c \in Controllers, CreatePod(c) PROVE IInv'
<1> DEFINE g == ctl[c].gen
<1>1. g \in Gens /\ ctl[c] \in Copies
  BY DEF IInv, TypeOK, Copies
<1>2. NewPod(c \in upgraded) \in Pods
  BY DEF NewPod, Pods
<1>a. \/ pods' = pods /\ made' = made
      \/ /\ pods' = [pods EXCEPT ![g] = NewPod(c \in upgraded)]
         /\ made' = [made EXCEPT ![g] = made[g] + 1]
  BY DEF CreatePod, cluster
<1>b. pods \in [Gens -> Pods \cup {NoPod}] /\ made \in [Gens -> Nat]
  BY DEF IInv, TypeOK
<1>3. pods' \in [Gens -> Pods \cup {NoPod}] /\ made' \in [Gens -> Nat]
  BY <1>1, <1>2, <1>a, <1>b
<1>4. /\ \A h \in Gens : made[h] > 0 => made'[h] > 0
      /\ pods' = pods \/ made'[g] > 0
  BY <1>1, <1>a, <1>b
<1>5. ctl' \in [Controllers -> Copies]
  BY <1>1 DEF IInv, TypeOK, CreatePod, Copies
<1>6. TypeOK'
  BY <1>3, <1>5 DEF IInv, TypeOK, CreatePod, traffic
<1>7. ReplacedIsFenced' /\ ReadinessIsAnnouncedOnce' /\ WorkersHoldLock'
  BY <1>4 DEF IInv, ReplacedIsFenced, ReadinessIsAnnouncedOnce, WorkersHoldLock, StillRuns,
         CreatePod, traffic
<1>8. PodsAreMade'
  <2> SUFFICES ASSUME NEW h \in Gens, Exists(h)' PROVE made'[h] > 0
    BY DEF PodsAreMade
  <2>1. CASE h = g
    BY <2>1, <1>1, <1>4 DEF IInv, PodsAreMade, Exists
  <2>2. CASE h # g
    BY <2>2, <1>a, <1>b, <1>4 DEF IInv, PodsAreMade, Exists
  <2> QED
    BY <2>1, <2>2
<1>9. MarkedIsMade'
  BY <1>1, <1>4 DEF IInv, TypeOK, MarkedIsMade, CreatePod, Copies
<1> QED
  BY <1>6, <1>7, <1>8, <1>9 DEF IInv

LEMMA DeleteKeeps ==
    ASSUME IInv, NEW c \in Controllers, DeletePod(c) PROVE IInv'
<1> DEFINE g == ctl[c].gen
<1>1. g \in Gens /\ ctl[c] \in Copies
  BY DEF IInv, TypeOK, Copies
<1>2. pods' \in [Gens -> Pods \cup {NoPod}]
  BY <1>1 DEF IInv, TypeOK, DeletePod, Exists, Pods, NoPod
<1>3. \A h \in Gens : Exists(h)' => Exists(h)
  BY <1>1 DEF IInv, TypeOK, DeletePod, Exists, Pods, NoPod
<1>4. ctl' \in [Controllers -> Copies] /\ ctl'[c].pc # "marking ready"
  BY <1>1 DEF IInv, TypeOK, DeletePod, Copies
<1>5. TypeOK'
  BY <1>2, <1>4 DEF IInv, TypeOK, DeletePod, traffic
<1>6. ReplacedIsFenced' /\ ReadinessIsAnnouncedOnce' /\ WorkersHoldLock' /\ PodsAreMade'
  BY <1>3 DEF IInv, ReplacedIsFenced, ReadinessIsAnnouncedOnce, WorkersHoldLock, PodsAreMade,
         StillRuns, DeletePod, traffic
<1>7. MarkedIsMade'
  BY <1>4 DEF IInv, TypeOK, MarkedIsMade, DeletePod
<1> QED
  BY <1>5, <1>6, <1>7 DEF IInv

LEMMA MarkKeeps ==
    ASSUME IInv, NEW c \in Controllers,
           MarkRuntimePodCreating(c) \/ MarkRuntimePodReady(c) \/ MarkRuntimePodDeleted(c)
    PROVE  IInv'
<1>1. row' \in Rows /\ row'.gen = row.gen /\ row'.desired = row.desired
  BY DEF IInv, TypeOK, Rows, MarkRuntimePodCreating, MarkRuntimePodReady, MarkRuntimePodDeleted
<1>2. announced' = announced \/ (announced' = 1 /\ \E g \in Gens : made[g] > 0)
  BY DEF IInv, TypeOK, Copies, MarkedIsMade,
         MarkRuntimePodCreating, MarkRuntimePodReady, MarkRuntimePodDeleted
<1>3. row'.observed = "ready" => announced' = 1
  <2>1. CASE row' = row /\ announced' = announced
    BY <2>1 DEF IInv, ReadinessIsAnnouncedOnce
  <2>2. CASE MarkRuntimePodReady(c) /\ StillRuns(ctl[c])
    <3>1. announced \in Nat /\ announced <= 1
      BY DEF IInv, TypeOK, ReadinessIsAnnouncedOnce
    <3>2. announced = 0 \/ announced = 1
      BY <3>1
    <3>3. announced' = (IF announced = 0 THEN 1 ELSE announced)
      BY <2>2 DEF MarkRuntimePodReady
    <3>4. CASE announced = 0
      BY <3>3, <3>4
    <3>5. CASE announced = 1
      BY <3>3, <3>5
    <3> QED
      BY <3>2, <3>4, <3>5
  <2>3. CASE row'.observed # "ready"
    BY <2>3
  <2> QED
    BY <2>1, <2>2, <2>3 DEF IInv, TypeOK, Rows, ReadinessIsAnnouncedOnce,
       MarkRuntimePodCreating, MarkRuntimePodReady, MarkRuntimePodDeleted
<1>4. /\ ctl' = [ctl EXCEPT ![c] = Resting] /\ faults' \in Nat
      /\ UNCHANGED <<cluster, traffic>> /\ upgraded' \subseteq Controllers
  BY DEF IInv, TypeOK, Finish,
         MarkRuntimePodCreating, MarkRuntimePodReady, MarkRuntimePodDeleted
<1> QED
  BY <1>1, <1>2, <1>3, <1>4, RestingIsCopy, QuietStep DEF Continues

(* The generation advances only while no command holds the Room.            *)
LEMMA AdvanceKeeps ==
    ASSUME IInv, NEW c \in Controllers, AdvanceRuntimeGeneration(c) PROVE IInv'
<1>a. row \in Rows /\ row.gen \in Nat /\ MaxGen \in Nat
  BY PlacementAssumption DEF IInv, TypeOK, Rows, Gens
<1>1. row' \in Rows /\ row'.gen >= row.gen /\ row.gen \in Nat
  <2>1. \/ row' = row
        \/ /\ row.gen < MaxGen
           /\ row' = [row EXCEPT !.gen = row.gen + 1, !.observed = "pending", !.lease = Nobody]
    BY DEF AdvanceRuntimeGeneration
  <2>2. CASE row' = row
    BY <2>2, <1>a
  <2>3. CASE /\ row.gen < MaxGen
             /\ row' = [row EXCEPT !.gen = row.gen + 1, !.observed = "pending", !.lease = Nobody]
    <3>1. row.gen + 1 \in Gens
      BY <2>3, <1>a DEF Gens
    <3>2. row' \in Rows /\ row'.gen = row.gen + 1
      BY <2>3, <3>1, <1>a DEF Rows
    <3> QED
      BY <3>2, <1>a
  <2> QED
    BY <2>1, <2>2, <2>3
<1>2. row'.observed = "ready" => row.observed = "ready"
  BY DEF IInv, TypeOK, Rows, AdvanceRuntimeGeneration
<1>3. ctl' = [ctl EXCEPT ![c] = Resting] /\ lock = Nobody
  BY DEF AdvanceRuntimeGeneration, Finish
<1>4. TypeOK'
  BY <1>1, <1>3, RestingIsCopy DEF IInv, TypeOK, AdvanceRuntimeGeneration, cluster, traffic
<1>5. ReplacedIsFenced'
  <2>1. \A i \in 1..Len(served) : served[i] \in Nat
    BY PlacementAssumption DEF IInv, TypeOK, Gens
  <2>2. row'.gen \in Nat
    BY <1>1, PlacementAssumption DEF Rows, Gens
  <2> QED
    BY <1>1, <1>3, <2>1, <2>2 DEF IInv, ReplacedIsFenced, AdvanceRuntimeGeneration, traffic
<1>6. ReadinessIsAnnouncedOnce' /\ WorkersHoldLock' /\ PodsAreMade'
  BY <1>2 DEF IInv, ReadinessIsAnnouncedOnce, WorkersHoldLock, PodsAreMade, Exists,
         AdvanceRuntimeGeneration, cluster, traffic
<1>7. MarkedIsMade'
  BY <1>3, RestingIsCopy DEF IInv, TypeOK, MarkedIsMade, AdvanceRuntimeGeneration, cluster
<1> QED
  BY <1>4, <1>5, <1>6, <1>7 DEF IInv

LEMMA ControllerKeeps ==
    ASSUME IInv, NEW c \in Controllers, ControllerFails(c) \/ Upgrade(c) PROVE IInv'
<1>1. CASE ControllerFails(c)
  <2>1. faults' \in Nat
    BY <1>1, FaultIsNat DEF IInv, ControllerFails
  <2>2. row' = row /\ row \in Rows /\ announced' = announced /\ upgraded' \subseteq Controllers
    BY <1>1 DEF IInv, TypeOK, ControllerFails
  <2>3. row'.observed = "ready" => announced' = 1
    BY <2>2 DEF IInv, ReadinessIsAnnouncedOnce
  <2> QED
    BY <1>1, <2>1, <2>2, <2>3, RestingIsCopy, QuietStep DEF ControllerFails, Finish, Continues
<1>2. CASE Upgrade(c)
  <2>1. TypeOK'
    BY <1>2 DEF IInv, TypeOK, Upgrade, cluster, traffic
  <2> QED
    BY <1>2, <2>1 DEF IInv, ReplacedIsFenced, ReadinessIsAnnouncedOnce, WorkersHoldLock,
       PodsAreMade, MarkedIsMade, Exists, StillRuns, Upgrade, cluster, traffic
<1> QED
  BY <1>1, <1>2

LEMMA LeaseKeeps ==
    ASSUME IInv, LeaseExpires PROVE IInv'
<1>1. row' \in Rows /\ row'.gen = row.gen /\ row'.desired = row.desired
      /\ row'.observed = row.observed
  BY DEF IInv, TypeOK, Rows, LeaseExpires
<1>2. faults' \in Nat
  BY FaultIsNat DEF IInv, LeaseExpires
<1>3. TypeOK'
  BY <1>1, <1>2 DEF IInv, TypeOK, LeaseExpires, cluster, traffic
<1> QED
  BY <1>1, <1>3 DEF IInv, ReplacedIsFenced, ReadinessIsAnnouncedOnce, WorkersHoldLock,
     PodsAreMade, MarkedIsMade, Exists, StillRuns, LeaseExpires, cluster, traffic

(* Kubernetes makes no pods of its own.                                     *)
LEMMA PodKeeps ==
    ASSUME IInv, NEW g \in Gens, PodStarts(g) \/ PodFails(g) \/ PodGoes(g) PROVE IInv'
<1>1. pods' \in [Gens -> Pods \cup {NoPod}] /\ \A h \in Gens : Exists(h)' => Exists(h)
  <2>1. CASE PodGoes(g)
    BY <2>1 DEF IInv, TypeOK, PodGoes, Exists
  <2>2. CASE PodStarts(g) \/ PodFails(g)
    <3>1. pods[g] \in Pods
      BY <2>2 DEF IInv, TypeOK, NoPod, PodStarts, PodFails
    <3>2. PICK ph \in {"ready", "failing"} : pods' = [pods EXCEPT ![g] = [pods[g] EXCEPT !.phase = ph]]
      BY <2>2 DEF PodStarts, PodFails
    <3>3. [pods[g] EXCEPT !.phase = ph] \in Pods
      BY <3>1 DEF Pods
    <3>4. Exists(g)
      BY <2>2 DEF Exists, PodStarts, PodFails
    <3> QED
      BY <3>2, <3>3, <3>4 DEF IInv, TypeOK, Exists
  <2> QED
    BY <2>1, <2>2
<1>2. faults' \in Nat
  BY FaultIsNat DEF IInv, PodStarts, PodFails, PodGoes
<1>3. TypeOK'
  BY <1>1, <1>2 DEF IInv, TypeOK, PodStarts, PodFails, PodGoes, traffic
<1> QED
  BY <1>1, <1>3 DEF IInv, ReplacedIsFenced, ReadinessIsAnnouncedOnce, WorkersHoldLock,
     PodsAreMade, MarkedIsMade, StillRuns, PodStarts, PodFails, PodGoes, traffic

LEMMA RouterKeeps ==
    ASSUME IInv, NEW r \in Routers, Replace(r) \/ \E q \in Requests : Forward(r, q) PROVE IInv'
<1>1. CASE Replace(r)
  <2>1. TypeOK'
    BY <1>1 DEF IInv, TypeOK, Replace, cluster
  <2> QED
    BY <1>1, <2>1 DEF IInv, ReplacedIsFenced, ReadinessIsAnnouncedOnce, WorkersHoldLock,
       PodsAreMade, MarkedIsMade, Exists, StillRuns, Replace, cluster
<1>2. ASSUME NEW q \in Requests, Forward(r, q) PROVE IInv'
  <2>1. PICK s \in Sent : req' = [req EXCEPT ![q] = s] /\ s.pc # "holding"
    <3> DEFINE g == dir[r]
    <3>1. CASE g # 0 /\ Exists(g) /\ Cardinality(Admitted(g, made[g])) < Capacity + 1
      <4>1. g \in Gens /\ made[g] \in Nat
        BY <3>1, PlacementAssumption DEF IInv, TypeOK, Gens
      <4>2. [pc |-> "queued", gen |-> g, pod |-> made[g]] \in Sent
        BY <4>1 DEF Sent
      <4> QED
        BY <1>2, <3>1, <4>2 DEF Forward
    <3>2. CASE ~(g # 0 /\ Exists(g) /\ Cardinality(Admitted(g, made[g])) < Capacity + 1)
      BY <1>2, <3>2, RestingIsCopy DEF Forward
    <3> QED
      BY <3>1, <3>2
  <2>2. TypeOK'
    BY <1>2, <2>1 DEF IInv, TypeOK, Forward, cluster
  <2>3. req[q].pc = "new"
    BY <1>2 DEF Forward
  <2>4. ReplacedIsFenced'
    BY <1>2, <2>1, <2>3 DEF IInv, TypeOK, ReplacedIsFenced, StillRuns, Forward
  <2>5. WorkersHoldLock'
    BY <1>2, <2>1 DEF IInv, TypeOK, WorkersHoldLock, Forward
  <2> QED
    BY <1>2, <2>2, <2>4, <2>5 DEF IInv, ReadinessIsAnnouncedOnce,
       PodsAreMade, MarkedIsMade, Exists, Forward, cluster
<1> QED
  BY <1>1, <1>2

(* The fence: what takes the Room is of the current generation.             *)
LEMMA BeginKeeps ==
    ASSUME IInv, NEW q \in Requests, BeginExistingGeneration(q) PROVE IInv'
<1>1. PICK s \in Sent : req' = [req EXCEPT ![q] = s] /\ s.pc \in {"holding", "answered"}
                        /\ (s.pc = "holding" => s.gen = req[q].gen /\ lock' = q
                                                /\ row.gen = req[q].gen /\ row.desired = "running")
                        /\ (s.pc = "answered" => lock' = lock)
  <2>1. req[q] \in Sent
    BY DEF IInv, TypeOK
  <2>2. CASE row.gen = req[q].gen /\ row.desired = "running"
    <3>1. [req[q] EXCEPT !.pc = "holding"] \in Sent
      BY <2>1 DEF Sent
    <3> QED
      BY <2>1, <2>2, <3>1 DEF BeginExistingGeneration, Sent
  <2>3. CASE ~(row.gen = req[q].gen /\ row.desired = "running")
    BY <2>3, RestingIsCopy DEF BeginExistingGeneration
  <2> QED
    BY <2>2, <2>3
<1>2. lock = Nobody /\ lock' \in Requests \cup {Nobody}
  BY <1>1 DEF BeginExistingGeneration
<1>3. TypeOK'
  BY <1>1, <1>2 DEF IInv, TypeOK, BeginExistingGeneration, cluster
<1>4. ReplacedIsFenced' /\ WorkersHoldLock'
  BY <1>1, <1>2, PlacementAssumption
     DEF IInv, TypeOK, ReplacedIsFenced, WorkersHoldLock, StillRuns, BeginExistingGeneration
<1> QED
  BY <1>3, <1>4 DEF IInv, ReadinessIsAnnouncedOnce, PodsAreMade, MarkedIsMade, Exists,
     BeginExistingGeneration, cluster

(* So a commit carries the current generation.                              *)
LEMMA CommitKeeps ==
    ASSUME IInv, NEW q \in Requests, NEW ends \in BOOLEAN, CommitMutation(q, ends) PROVE IInv'
<1> DEFINE g == req[q].gen
<1>1. lock = q /\ g = row.gen /\ g \in Gens
  BY PlacementAssumption
     DEF IInv, TypeOK, Sent, CommitMutation, WorkersHoldLock, ReplacedIsFenced, StillRuns
<1>2. served' = Append(served, g) /\ served \in Seq(Gens) /\ lock' = Nobody
      /\ req' = [req EXCEPT ![q] = At("answered")]
  BY DEF IInv, TypeOK, CommitMutation
<1>3. served' \in Seq(Gens) /\ Len(served') = Len(served) + 1
  BY <1>1, <1>2
<1>4. row' \in Rows /\ row'.gen = row.gen /\ row'.observed = row.observed
  BY DEF IInv, TypeOK, Rows, CommitMutation
<1>5. TypeOK'
  BY <1>2, <1>3, <1>4, RestingIsCopy DEF IInv, TypeOK, CommitMutation, cluster
<1>6. \A i \in 1..Len(served') : served'[i] <= row.gen
  BY <1>1, <1>2, <1>3, PlacementAssumption DEF IInv, ReplacedIsFenced, Gens
<1>7. \A i, j \in 1..Len(served') : i <= j => served'[i] <= served'[j]
  <2> SUFFICES ASSUME NEW i \in 1..Len(served'), NEW j \in 1..Len(served'), i <= j
               PROVE  served'[i] <= served'[j]
    OBVIOUS
  <2>1. CASE j = Len(served')
    BY <2>1, <1>1, <1>2, <1>3, <1>6
  <2>2. CASE j # Len(served')
    BY <2>2, <1>2, <1>3 DEF IInv, ReplacedIsFenced
  <2> QED
    BY <2>1, <2>2
<1>8. ReplacedIsFenced'
  BY <1>2, <1>4, <1>6, <1>7 DEF ReplacedIsFenced
<1>9. WorkersHoldLock'
  BY <1>1, <1>2, RestingIsCopy DEF IInv, TypeOK, WorkersHoldLock
<1> QED
  BY <1>4, <1>5, <1>8, <1>9 DEF IInv, ReadinessIsAnnouncedOnce, PodsAreMade, MarkedIsMade,
     Exists, CommitMutation, cluster

LEMMA AbandonKeeps ==
    ASSUME IInv, NEW q \in Requests, AbandonMutation(q) PROVE IInv'
<1>1. req' = [req EXCEPT ![q] = At("answered")] /\ lock' = (IF lock = q THEN Nobody ELSE lock)
  BY DEF AbandonMutation
<1>2. TypeOK'
  BY <1>1, RestingIsCopy DEF IInv, TypeOK, AbandonMutation, cluster
<1>3. WorkersHoldLock'
  BY <1>1, RestingIsCopy DEF IInv, TypeOK, WorkersHoldLock
<1>4. ReplacedIsFenced'
  BY <1>1 DEF IInv, TypeOK, ReplacedIsFenced, StillRuns, AbandonMutation
<1> QED
  BY <1>2, <1>3, <1>4 DEF IInv, ReadinessIsAnnouncedOnce, PodsAreMade, MarkedIsMade, Exists,
     AbandonMutation, cluster

-----------------------------------------------------------------------------
LEMMA InitKeeps == Init => IInv
<1> SUFFICES ASSUME Init PROVE IInv
  OBVIOUS
<1>1. TypeOK
  <2>1. row \in Rows /\ lock = Nobody
    BY PlacementAssumption DEF Init, Rows, Gens
  <2>2. pods \in [Gens -> Pods \cup {NoPod}] /\ made \in [Gens -> Nat]
    BY DEF Init
  <2>3. ctl \in [Controllers -> Copies] /\ req \in [Requests -> Sent]
    BY RestingIsCopy DEF Init
  <2>4. dir \in [Routers -> 0..MaxGen] /\ faults \in Nat
    BY PlacementAssumption DEF Init
  <2>5. upgraded \subseteq Controllers /\ served \in Seq(Gens) /\ announced \in Nat
    BY DEF Init
  <2> QED
    BY <2>1, <2>2, <2>3, <2>4, <2>5 DEF TypeOK
<1>2. \A q \in Requests : req[q].pc # "holding"
  BY RestingIsCopy DEF Init
<1>3. ReplacedIsFenced
  BY DEF Init, ReplacedIsFenced
<1>4. ReadinessIsAnnouncedOnce
  BY DEF Init, ReadinessIsAnnouncedOnce
<1>5. PodsAreMade
  BY DEF Init, PodsAreMade, Exists, NoPod
<1>6. MarkedIsMade
  BY RestingIsCopy DEF Init, MarkedIsMade
<1> QED
  BY <1>1, <1>2, <1>3, <1>4, <1>5, <1>6 DEF IInv, WorkersHoldLock

LEMMA NextKeeps == IInv /\ [Next]_vars => IInv'
<1> SUFFICES ASSUME IInv, [Next]_vars PROVE IInv'
  OBVIOUS
<1>1. ASSUME NEW c \in Controllers, ControllerStep(c) PROVE IInv'
  BY <1>1, ClaimKeeps, GetKeeps, CreateKeeps, DeleteKeeps, MarkKeeps, AdvanceKeeps DEF ControllerStep
<1>2. CASE UNCHANGED vars
  <2>1. TypeOK'
    BY <1>2 DEF IInv, TypeOK, vars
  <2> QED
    BY <1>2, <2>1 DEF IInv, ReplacedIsFenced, ReadinessIsAnnouncedOnce, WorkersHoldLock,
       PodsAreMade, MarkedIsMade, Exists, StillRuns, vars
<1> QED
  BY <1>1, <1>2, ControllerKeeps, LeaseKeeps, PodKeeps, RouterKeeps, BeginKeeps, CommitKeeps,
     AbandonKeeps DEF Next

(* A replaced pod commits nothing behind its replacement, a command at work *)
(* is always of the current generation of a Room that runs, and a tournament *)
(* is told once that its Room can be played: for any number of processes.    *)
THEOREM PlacementIsSound == Spec => []PlacementSound
<1>1. IInv => PlacementSound
  BY DEF IInv, PlacementSound
<1> QED
  BY <1>1, InitKeeps, NextKeeps, PTL DEF Spec
-----------------------------------------------------------------------------
(* The streams of Game Integrity                                           *)

\* What reservations, snapshots and calls look like.
OpIds == Ops \cup Events \cup {Nothing}
Draws == [op : OpIds, n : Nat, from : Nat]
Snapshots ==
    [seed : Nat, key : Nat, pointer : Nat, pending : Draws \cup {Nothing},
     confirmed : SUBSET Draws, cancelled : SUBSET [op : OpIds, n : Nat]]
CallSteps ==
    {"idle", "load", "ensure", "decide", "next", "settle", "claim", "first", "anchor", "finalize",
     "recover", "repair", "release", "log", "write"}
CallRows ==
    [pc : CallSteps, kind : Kinds \cup {"none"}, room : Rooms \cup {Nothing}, op : OpIds, n : Nat, seen : Nat,
     next : Snapshots \cup {Nothing}, token : Nat, again : BOOLEAN]

Bindings == [phase : {"none", "claimed", "active", "released"}, room : Rooms \cup {Nothing}, token : Nat]

StoreTyped ==
    /\ binding \in Bindings
    /\ deck \in [Rooms -> Seq(Snapshots)]
    /\ log \in [Rooms -> Seq(Events)]
    /\ cache \in [Replicas -> [Rooms -> Nat]]
    /\ call \in [Replicas -> CallRows]
    /\ fresh \in Nat
    /\ \A a \in seeds : a.room \in Rooms
    /\ \A a \in logged : a.room \in Rooms /\ a.offset \in Nat \ {0}

\* t may be the snapshot after s.
Follows(s, t) ==
    /\ Restores(t) /\ t.key = s.key /\ t.seed = s.seed
    /\ s.confirmed \subseteq t.confirmed /\ s.cancelled \subseteq t.cancelled

\* A snapshot that may be written at a revision of a Room's deck, and an event
\* that may be written at one of its log.
MayFollow(r, at, t) ==
    /\ t \in Snapshots
    /\ \/ at = 0 /\ Restores(t)
       \/ at \in 1 .. Len(deck[r]) /\ Follows(deck[r][at], t)

MayBeLogged(r, at, e) ==
    e \in Events /\ at \in 0 .. Len(log[r]) /\ \A i \in 1 .. at : log[r][i] # e

\* A call knows what it has read, wherever its stream has gone since.
CallHolds(c) ==
    /\ c.pc # "idle" => c.room \in Rooms
    /\ c.pc \in {"ensure", "decide", "next"} => c.seen \in 1 .. Len(deck[c.room])
    /\ c.pc = "next" => MayFollow(c.room, c.seen, c.next)
    /\ c.pc \in {"claim", "first", "anchor", "finalize"} => c.next \in Snapshots /\ Restores(c.next)
    /\ c.pc = "finalize" => deck[c.room] # <<>> /\ Head(deck[c.room]).seed = c.next.seed
    /\ c.pc \in {"log", "write"} => c.op \in Events
    /\ c.pc = "write" => MayBeLogged(c.room, c.seen, c.op)

CallsHold == \A p \in Replicas : CallHolds(call[p])

\* So does an append that its replica has given up.
LateHolds(a) ==
    /\ a.room \in Rooms /\ a.stream \in {"deck", "log"}
    /\ a.stream = "deck" => MayFollow(a.room, a.at, a.next)
    /\ a.stream = "log" => MayBeLogged(a.room, a.at, a.next)

LatesHold == \A a \in late : LateHolds(a)

\* The Room that was served has the binding, for good.
ServedIsBound == \A r \in answered : binding.phase = "active" /\ binding.room = r

StoreInv ==
    /\ StoreTyped /\ CallsHold /\ LatesHold /\ ServedIsBound
    /\ AnswersAreKept /\ OneKeyPerStream /\ EverySnapshotRestores

-----------------------------------------------------------------------------
(* Records and sequences                                                   *)

LEMMA Appended ==
    ASSUME NEW S, NEW s \in Seq(S), NEW x \in S
    PROVE  /\ Append(s, x) \in Seq(S) /\ Len(s) \in Nat /\ Len(Append(s, x)) = Len(s) + 1
           /\ Append(s, x)[Len(s) + 1] = x /\ \A i \in 1 .. Len(s) : Append(s, x)[i] = s[i]
           /\ DOMAIN s = 1 .. Len(s) /\ DOMAIN Append(s, x) = 1 .. Len(s) + 1
           /\ s # <<>> <=> Len(s) > 0
           /\ \A i \in 1 .. Len(s) : s[i] \in S
OBVIOUS

LEMMA NoCallIsRow == NoCall \in CallRows /\ NoCall.pc = "idle"
BY DEF NoCall, CallRows, CallSteps, OpIds

\* The fields of a call that goes on.
SameButPc(c, d) ==
    /\ d.kind = c.kind /\ d.room = c.room /\ d.op = c.op /\ d.n = c.n /\ d.token = c.token /\ d.again = c.again

LEMMA PcSet ==
    ASSUME NEW c \in CallRows, NEW x \in CallSteps, NEW d, d = [c EXCEPT !.pc = x]
    PROVE  d \in CallRows /\ d.pc = x /\ SameButPc(c, d) /\ d.seen = c.seen /\ d.next = c.next
BY DEF CallRows, SameButPc

-----------------------------------------------------------------------------
(* Snapshots                                                               *)

LEMMA NewRestores ==
    ASSUME NEW n \in Nat, NEW k \in Nat
    PROVE  NewAuthoritativeDeck(n, k) \in Snapshots /\ Restores(NewAuthoritativeDeck(n, k))
<1> PICK s : s = NewAuthoritativeDeck(n, k)
  OBVIOUS
<1>1. s = [seed |-> n, key |-> k, pointer |-> 0, pending |-> Nothing, confirmed |-> {}, cancelled |-> {}]
  BY DEF NewAuthoritativeDeck
<1>2. s \in Snapshots /\ s.pending = Nothing /\ s.pointer = 0 /\ s.confirmed = {}
  BY <1>1 DEF Snapshots
<1>3. Restores(s)
  BY <1>2 DEF Restores, PendingFollows, DrawsAreContiguous
<1> QED
  BY <1>2, <1>3

LEMMA ReserveFollows ==
    ASSUME NEW s \in Snapshots, Restores(s), NEW op \in OpIds, NEW n \in Nat
    PROVE  Reserve(s, op, n) \in Snapshots /\ Follows(s, Reserve(s, op, n))
<1> PICK t : t = Reserve(s, op, n)
  OBVIOUS
<1>1. CASE t = s
  BY <1>1 DEF Follows
<1>2. CASE t # s
  <2>1. PICK d : d = [op |-> op, n |-> n, from |-> s.pointer]
    OBVIOUS
  <2>2. t = [s EXCEPT !.pending = d] /\ Confirmed(s, op) = {} /\ s.pointer + n <= DeckSize
    <3>1. s.pointer + n \in Nat /\ DeckSize \in Nat
      BY StoreAssumption DEF Snapshots
    <3> QED
      BY <1>2, <2>1, <3>1 DEF Reserve
  <2>3. d \in Draws /\ d.op = op /\ d.n = n /\ d.from = s.pointer
    BY <2>1 DEF Draws, Snapshots
  <2>4. /\ t \in Snapshots /\ t.pending = d /\ t.key = s.key /\ t.seed = s.seed /\ t.pointer = s.pointer
        /\ t.confirmed = s.confirmed /\ t.cancelled = s.cancelled
    BY <2>2, <2>3 DEF Snapshots
  <2>5. PendingFollows(t)
    BY <2>2, <2>3, <2>4 DEF PendingFollows, Confirmed
  <2>6. DrawsAreContiguous(t)
    BY <2>4 DEF Restores, DrawsAreContiguous
  <2> QED
    BY <2>4, <2>5, <2>6 DEF Follows, Restores
<1> QED
  BY <1>1, <1>2

LEMMA CancelFollows ==
    ASSUME NEW s \in Snapshots, Restores(s), NEW op \in OpIds, NEW n \in Nat
    PROVE  CancelReservation(s, op, n) \in Snapshots /\ Follows(s, CancelReservation(s, op, n))
<1> PICK t : t = CancelReservation(s, op, n)
  OBVIOUS
<1>1. CASE t = s
  BY <1>1 DEF Follows
<1>2. CASE t # s
  <2>1. PICK all : all = s.cancelled \cup {[op |-> op, n |-> n]}
    OBVIOUS
  <2>2. all \in SUBSET [op : OpIds, n : Nat] /\ s.cancelled \subseteq all
    BY <2>1 DEF Snapshots
  <2>3. t = [s EXCEPT !.pending = Nothing, !.cancelled = all]
    BY <1>2, <2>1 DEF CancelReservation
  <2>4. /\ t \in Snapshots /\ t.pending = Nothing /\ t.key = s.key /\ t.seed = s.seed /\ t.pointer = s.pointer
        /\ t.confirmed = s.confirmed /\ t.cancelled = all
    BY <2>2, <2>3 DEF Snapshots
  <2> QED
    BY <2>2, <2>4 DEF Follows, Restores, PendingFollows, DrawsAreContiguous
<1> QED
  BY <1>1, <1>2

\* Confirmed draws cover the deck without a gap: the next one begins where
\* they end.
LEMMA ConfirmFollows ==
    ASSUME NEW s \in Snapshots, Restores(s), NEW op \in OpIds, NEW n \in Nat
    PROVE  ConfirmReservation(s, op, n) \in Snapshots /\ Follows(s, ConfirmReservation(s, op, n))
<1> PICK t : t = ConfirmReservation(s, op, n)
  OBVIOUS
<1>1. CASE t = s
  BY <1>1 DEF Follows
<1>2. CASE t # s
  <2>1. PICK d : d = [op |-> op, n |-> n, from |-> s.pointer]
    OBVIOUS
  <2>2. PICK all, end : all = s.confirmed \cup {d} /\ end = s.pointer + n
    OBVIOUS
  <2>3. d \in Draws /\ d.n = n /\ d.from = s.pointer /\ s.pointer \in Nat /\ s.confirmed \in SUBSET Draws
    BY <2>1 DEF Draws, Snapshots
  <2>4. /\ t \in Snapshots /\ t.pending = Nothing /\ t.key = s.key /\ t.seed = s.seed /\ t.pointer = end
        /\ t.confirmed = all /\ t.cancelled = s.cancelled
    <3>1. t = [[s EXCEPT !.pointer = end] EXCEPT !.pending = Nothing, !.confirmed = all]
      <4>1. PICK moved : moved = [s EXCEPT !.pointer = end]
        OBVIOUS
      <4>2. moved.confirmed = s.confirmed
        BY <4>1 DEF Snapshots
      <4>3. t = [moved EXCEPT !.pending = Nothing, !.confirmed = moved.confirmed \cup {d}]
        BY <1>2, <2>1, <2>2, <4>1 DEF ConfirmReservation, Draw
      <4> QED
        BY <2>2, <4>1, <4>2, <4>3
    <3>2. end \in Nat /\ all \in SUBSET Draws
      BY <2>2, <2>3
    <3> QED
      BY <3>1, <3>2 DEF Snapshots
  <2>5. /\ \A i \in 0 .. s.pointer - 1 : Cardinality({c \in s.confirmed : c.from <= i /\ i < c.from + c.n}) = 1
        /\ \A c \in s.confirmed : c.from + c.n <= s.pointer
    BY DEF Restores, DrawsAreContiguous
  <2>6. \A c \in s.confirmed : c.from \in Nat /\ c.n \in Nat
    BY <2>3 DEF Draws
  <2>7. ASSUME NEW i \in 0 .. end - 1
        PROVE  Cardinality({c \in all : c.from <= i /\ i < c.from + c.n}) = 1
    <3>1. CASE i < s.pointer
      <4>1. {c \in all : c.from <= i /\ i < c.from + c.n} = {c \in s.confirmed : c.from <= i /\ i < c.from + c.n}
        BY <2>2, <2>3, <3>1
      <4>2. i \in 0 .. s.pointer - 1
        BY <2>2, <2>3, <3>1
      <4> QED
        BY <2>5, <4>1, <4>2
    <3>2. CASE ~(i < s.pointer)
      <4>1. \A c \in s.confirmed : ~(i < c.from + c.n)
        BY <2>2, <2>3, <2>5, <2>6, <3>2
      <4>2. d.from <= i /\ i < d.from + d.n
        BY <2>2, <2>3, <3>2
      <4>3. {c \in all : c.from <= i /\ i < c.from + c.n} = {d}
        BY <2>2, <4>1, <4>2
      <4> QED
        BY <4>3, FS_Singleton
    <3> QED
      BY <3>1, <3>2
  <2>8. \A c \in all : c.from + c.n <= end
    BY <2>2, <2>3, <2>5, <2>6
  <2>9. s.confirmed \subseteq t.confirmed
    BY <2>2, <2>4
  <2>10. DrawsAreContiguous(t)
    BY ONLY <2>4, <2>7, <2>8 DEF DrawsAreContiguous
  <2>11. PendingFollows(t)
    BY <2>4 DEF PendingFollows
  <2> QED
    BY <2>4, <2>9, <2>10, <2>11 DEF Follows, Restores
<1> QED
  BY <1>1, <1>2

LEMMA DecidedFollows ==
    ASSUME NEW s \in Snapshots, Restores(s), NEW c \in CallRows
    PROVE  Decided(s, c) \in Snapshots /\ Follows(s, Decided(s, c))
<1>1. c.op \in OpIds /\ c.n \in Nat
  BY DEF CallRows
<1>2. CASE c.kind = "reserve"
  BY <1>1, <1>2, ReserveFollows DEF Decided
<1>3. CASE c.kind = "confirm"
  BY <1>1, <1>3, ConfirmFollows DEF Decided
<1>4. CASE c.kind = "cancel"
  BY <1>1, <1>4, CancelFollows DEF Decided
<1>5. CASE c.kind \notin {"reserve", "confirm", "cancel"}
  BY <1>5 DEF Decided, Follows
<1> QED
  BY <1>2, <1>3, <1>4, <1>5

-----------------------------------------------------------------------------
(* Streams grow                                                            *)

DeckGrows ==
    \A r \in Rooms : Len(deck[r]) <= Len(deck'[r]) /\ \A i \in 1 .. Len(deck[r]) : deck'[r][i] = deck[r][i]

LogGrows ==
    \A r \in Rooms : Len(log[r]) <= Len(log'[r]) /\ \A i \in 1 .. Len(log[r]) : log'[r][i] = log[r][i]

LEMMA Unchanging == /\ deck' = deck => DeckGrows
                    /\ log' = log => LogGrows
BY DEF DeckGrows, LogGrows

LEMMA StreamFacts ==
    ASSUME StoreTyped
    PROVE  /\ \A r \in Rooms : /\ Len(deck[r]) \in Nat /\ DOMAIN deck[r] = 1 .. Len(deck[r])
                               /\ deck[r] # <<>> <=> Len(deck[r]) > 0
                               /\ \A i \in 1 .. Len(deck[r]) : deck[r][i] \in Snapshots
                               /\ Head(deck[r]) = deck[r][1]
           /\ \A r \in Rooms : /\ Len(log[r]) \in Nat /\ DOMAIN log[r] = 1 .. Len(log[r])
                               /\ \A i \in 1 .. Len(log[r]) : log[r][i] \in Events
<1>1. ASSUME NEW r \in Rooms
      PROVE  /\ Len(deck[r]) \in Nat /\ DOMAIN deck[r] = 1 .. Len(deck[r])
             /\ deck[r] # <<>> <=> Len(deck[r]) > 0
             /\ \A i \in 1 .. Len(deck[r]) : deck[r][i] \in Snapshots
             /\ Head(deck[r]) = deck[r][1]
  <2>1. deck[r] \in Seq(Snapshots)
    BY DEF StoreTyped
  <2> HIDE DEF Snapshots
  <2> QED
    BY <2>1
<1>2. ASSUME NEW r \in Rooms
      PROVE  /\ Len(log[r]) \in Nat /\ DOMAIN log[r] = 1 .. Len(log[r])
             /\ \A i \in 1 .. Len(log[r]) : log[r][i] \in Events
  <2>1. log[r] \in Seq(Events)
    BY DEF StoreTyped
  <2> QED
    BY <2>1
<1> QED
  BY <1>1, <1>2

LEMMA StreamFactsAfter ==
    ASSUME StoreTyped'
    PROVE  /\ \A r \in Rooms : /\ Len(deck'[r]) \in Nat /\ DOMAIN deck'[r] = 1 .. Len(deck'[r])
                               /\ deck'[r] # <<>> <=> Len(deck'[r]) > 0
                               /\ \A i \in 1 .. Len(deck'[r]) : deck'[r][i] \in Snapshots
                               /\ Head(deck'[r]) = deck'[r][1]
           /\ \A r \in Rooms : /\ Len(log'[r]) \in Nat /\ DOMAIN log'[r] = 1 .. Len(log'[r])
                               /\ \A i \in 1 .. Len(log'[r]) : log'[r][i] \in Events
<1>1. ASSUME NEW r \in Rooms
      PROVE  /\ Len(deck'[r]) \in Nat /\ DOMAIN deck'[r] = 1 .. Len(deck'[r])
             /\ deck'[r] # <<>> <=> Len(deck'[r]) > 0
             /\ \A i \in 1 .. Len(deck'[r]) : deck'[r][i] \in Snapshots
             /\ Head(deck'[r]) = deck'[r][1]
  <2>1. deck'[r] \in Seq(Snapshots)
    BY DEF StoreTyped, Snapshots, Draws, OpIds
  <2> QED
    BY <2>1
<1>2. ASSUME NEW r \in Rooms
      PROVE  /\ Len(log'[r]) \in Nat /\ DOMAIN log'[r] = 1 .. Len(log'[r])
             /\ \A i \in 1 .. Len(log'[r]) : log'[r][i] \in Events
  <2>1. log'[r] \in Seq(Events)
    BY DEF StoreTyped
  <2> QED
    BY <2>1
<1> QED
  BY <1>1, <1>2

\* What a call has read stays read.
LEMMA ReadsStand ==
    ASSUME StoreTyped, StoreTyped', DeckGrows, LogGrows
    PROVE  /\ \A r \in Rooms : \A at, t : MayFollow(r, at, t) => MayFollow(r, at, t)'
           /\ \A r \in Rooms : \A at, e : MayBeLogged(r, at, e) => MayBeLogged(r, at, e)'
           /\ \A r \in Rooms : deck[r] # <<>> => deck'[r] # <<>> /\ Head(deck'[r]) = Head(deck[r])
<1>1. ASSUME NEW r \in Rooms, NEW at, NEW t, MayFollow(r, at, t) PROVE MayFollow(r, at, t)'
  <2>1. CASE at = 0 /\ Restores(t)
    BY <1>1, <2>1 DEF MayFollow, Snapshots, Draws, OpIds, Restores, PendingFollows, Confirmed, DrawsAreContiguous
  <2>2. CASE at \in 1 .. Len(deck[r]) /\ Follows(deck[r][at], t)
    <3>1. at \in 1 .. Len(deck'[r]) /\ deck'[r][at] = deck[r][at]
      BY <2>2, StreamFacts, StreamFactsAfter DEF DeckGrows
    <3> QED
      BY <1>1, <2>2, <3>1 DEF MayFollow, Follows, Snapshots, Draws, OpIds, Restores, PendingFollows, Confirmed, DrawsAreContiguous
  <2> QED
    BY <1>1, <2>1, <2>2 DEF MayFollow
<1>2. ASSUME NEW r \in Rooms, NEW at, NEW e, MayBeLogged(r, at, e) PROVE MayBeLogged(r, at, e)'
  BY <1>2, StreamFacts, StreamFactsAfter DEF MayBeLogged, LogGrows
<1>3. ASSUME NEW r \in Rooms, deck[r] # <<>> PROVE deck'[r] # <<>> /\ Head(deck'[r]) = Head(deck[r])
  BY <1>3, StreamFacts, StreamFactsAfter DEF DeckGrows
<1> QED
  BY <1>1, <1>2, <1>3

LEMMA CallsStand ==
    ASSUME StoreTyped, StoreTyped', DeckGrows, LogGrows
    PROVE  /\ \A c : CallHolds(c) => CallHolds(c)'
           /\ \A a : LateHolds(a) => LateHolds(a)'
<1>1. ASSUME NEW c, CallHolds(c) PROVE CallHolds(c)'
  <2>1. c.pc # "idle" => c.room \in Rooms
    BY <1>1 DEF CallHolds
  <2>2. c.pc \in {"ensure", "decide", "next"} => c.seen \in 1 .. Len(deck'[c.room])
    BY <1>1, <2>1, StreamFacts, StreamFactsAfter DEF CallHolds, DeckGrows
  <2>3. c.pc = "next" => MayFollow(c.room, c.seen, c.next)'
    BY <1>1, <2>1, ReadsStand DEF CallHolds
  <2>4. c.pc \in {"claim", "first", "anchor", "finalize"} => c.next \in Snapshots /\ Restores(c.next)
    BY <1>1 DEF CallHolds
  <2>5. c.pc = "finalize" => deck'[c.room] # <<>> /\ Head(deck'[c.room]).seed = c.next.seed
    BY <1>1, <2>1, ReadsStand DEF CallHolds
  <2>6. c.pc = "write" => MayBeLogged(c.room, c.seen, c.op)'
    BY <1>1, <2>1, ReadsStand DEF CallHolds
  <2>7. c.pc \in {"log", "write"} => c.op \in Events
    BY <1>1 DEF CallHolds
  <2> QED
    BY <2>1, <2>2, <2>3, <2>4, <2>5, <2>6, <2>7
    DEF CallHolds, Snapshots, Draws, OpIds, Restores, PendingFollows, Confirmed, DrawsAreContiguous
<1>2. ASSUME NEW a, LateHolds(a) PROVE LateHolds(a)'
  BY <1>2, ReadsStand DEF LateHolds
<1> QED
  BY <1>1, <1>2

\* The answers that were given stay true.
LEMMA AnswersStand ==
    ASSUME StoreTyped, StoreTyped', DeckGrows, LogGrows, AnswersAreKept
    PROVE  /\ \A a \in seeds : deck'[a.room] # <<>> /\ Head(deck'[a.room]).seed = a.seed
           /\ \A a \in logged : a.offset <= Len(log'[a.room]) /\ log'[a.room][a.offset] = a.event
<1>1. ASSUME NEW a \in seeds PROVE deck'[a.room] # <<>> /\ Head(deck'[a.room]).seed = a.seed
  BY ReadsStand DEF AnswersAreKept, StoreTyped
<1>2. ASSUME NEW a \in logged PROVE a.offset <= Len(log'[a.room]) /\ log'[a.room][a.offset] = a.event
  <2>1. a.room \in Rooms /\ a.offset \in 1 .. Len(log[a.room]) /\ log[a.room][a.offset] = a.event
    BY StreamFacts DEF AnswersAreKept, StoreTyped
  <2> QED
    BY <2>1, StreamFacts, StreamFactsAfter DEF LogGrows
<1> QED
  BY <1>1, <1>2
-----------------------------------------------------------------------------
(* Writes                                                                  *)

\* A snapshot is written where it may follow, or not at all.
LEMMA DeckWritten ==
    ASSUME StoreInv, NEW r \in Rooms, NEW at, NEW t, MayFollow(r, at, t), cache' = cache,
           deck' = IF Lands(deck[r], at) THEN [deck EXCEPT ![r] = Append(@, t)] ELSE deck
    PROVE  deck' \in [Rooms -> Seq(Snapshots)] /\ DeckGrows /\ OneKeyPerStream' /\ EverySnapshotRestores'
<1>1. StoreTyped /\ OneKeyPerStream /\ EverySnapshotRestores /\ deck \in [Rooms -> Seq(Snapshots)]
  BY DEF StoreInv, StoreTyped
<1>2. t \in Snapshots /\ deck[r] \in Seq(Snapshots)
  BY <1>1 DEF MayFollow
<1>3. CASE ~Lands(deck[r], at)
  <2>1. deck' = deck
    BY <1>3
  <2> QED
    BY <1>1, <2>1 DEF DeckGrows, OneKeyPerStream, EverySnapshotRestores
<1>4. CASE Lands(deck[r], at)
  <2> PICK s : s = deck[r]
    OBVIOUS
  <2> PICK w : w = Append(s, t)
    OBVIOUS
  <2>1. deck' = [deck EXCEPT ![r] = w]
    BY <1>4
  <2>2. deck'[r] = w /\ \A q \in Rooms : q # r => deck'[q] = deck[q]
    BY <1>1, <2>1
  <2>3. /\ w \in Seq(Snapshots) /\ Len(s) \in Nat /\ Len(w) = Len(s) + 1 /\ w[Len(s) + 1] = t
        /\ \A i \in 1 .. Len(s) : w[i] = s[i]
        /\ DOMAIN s = 1 .. Len(s) /\ DOMAIN w = 1 .. Len(s) + 1
        /\ s # <<>> <=> Len(s) > 0
    BY <1>2, Appended
  <2>4. w # <<>> /\ Head(w) = w[1]
    BY <2>3
  <2>5. s # <<>> => Head(s) = s[1] /\ Head(w) = Head(s)
    BY <1>2, <2>3, <2>4
  <2>6. at = Len(s)
    BY <1>4 DEF Lands
  <2>7. s = <<>> \/ (s # <<>> /\ Follows(s[Len(s)], t))
    BY <2>3, <2>6 DEF MayFollow
  <2>8. Restores(t)
    BY DEF MayFollow, Follows
  <2>9. deck' \in [Rooms -> Seq(Snapshots)]
    BY <1>1, <2>1, <2>3
  <2>10. DeckGrows
    <3>1. ASSUME NEW q \in Rooms
          PROVE  Len(deck[q]) <= Len(deck'[q]) /\ \A i \in 1 .. Len(deck[q]) : deck'[q][i] = deck[q][i]
      <4>1. Len(deck[q]) \in Nat
        BY <1>1, StreamFacts
      <4>2. CASE q = r
        BY <2>2, <2>3, <4>2
      <4>3. CASE q # r
        BY <2>2, <4>1, <4>3
      <4> QED
        BY <4>2, <4>3
    <3> QED
      BY <3>1 DEF DeckGrows
  <2>11. \A i \in DOMAIN w : w[i].key = Head(w).key
    <3>1. \A i \in DOMAIN s : s[i].key = Head(s).key
      BY <1>1 DEF OneKeyPerStream
    <3>2. t.key = Head(w).key
      <4>1. CASE s = <<>>
        BY <2>3, <2>4, <4>1
      <4>2. CASE s # <<>>
        <5>1. t.key = s[Len(s)].key
          BY <2>7, <4>2 DEF Follows
        <5>2. Len(s) \in DOMAIN s
          BY <2>3, <4>2
        <5> QED
          BY <2>5, <3>1, <4>2, <5>1, <5>2
      <4> QED
        BY <4>1, <4>2
    <3>3. ASSUME NEW i \in DOMAIN w PROVE w[i].key = Head(w).key
      <4>1. i = Len(s) + 1 \/ i \in 1 .. Len(s)
        BY <2>3
      <4>2. CASE i = Len(s) + 1
        BY <2>3, <3>2, <4>2
      <4>3. CASE i \in 1 .. Len(s)
        <5>1. s # <<>> /\ w[i] = s[i]
          BY <2>3, <4>3
        <5> QED
          BY <2>3, <2>5, <3>1, <4>3, <5>1
      <4> QED
        BY <4>1, <4>2, <4>3
    <3> QED
      BY <3>3
  <2>12. \A p \in Replicas : cache[p][r] = 0 \/ (w # <<>> /\ cache[p][r] = Head(w).key)
    BY <1>1, <2>4, <2>5 DEF OneKeyPerStream
  <2>13. OneKeyPerStream'
    <3>1. ASSUME NEW q \in Rooms
          PROVE  /\ \A i \in DOMAIN deck'[q] : deck'[q][i].key = Head(deck'[q]).key
                 /\ \A p \in Replicas : cache'[p][q] = 0 \/ (deck'[q] # <<>> /\ cache'[p][q] = Head(deck'[q]).key)
      <4>1. CASE q = r
        BY <2>2, <2>11, <2>12, <4>1
      <4>2. CASE q # r
        BY <1>1, <2>2, <4>2 DEF OneKeyPerStream
      <4> QED
        BY <4>1, <4>2
    <3> QED
      BY <3>1 DEF OneKeyPerStream
  <2>14. ASSUME NEW i \in DOMAIN w
         PROVE  /\ Restores(w[i])
                /\ i > 1 => /\ w[i - 1].confirmed \subseteq w[i].confirmed
                            /\ w[i - 1].cancelled \subseteq w[i].cancelled
                            /\ w[i - 1].seed = w[i].seed
    <3>1. i = Len(s) + 1 \/ i \in 1 .. Len(s)
      BY <2>3
    <3>2. CASE i = Len(s) + 1
      <4>1. w[i] = t
        BY <2>3, <3>2
      <4>2. CASE i > 1
        <5>1. s # <<>> /\ i - 1 = Len(s) /\ Len(s) \in 1 .. Len(s)
          BY <2>3, <3>2, <4>2
        <5>2. w[i - 1] = s[Len(s)]
          BY <2>3, <5>1
        <5> QED
          BY <2>7, <2>8, <4>1, <5>1, <5>2 DEF Follows
      <4> QED
        BY <2>8, <4>1, <4>2
    <3>3. CASE i \in 1 .. Len(s)
      <4>1. /\ Restores(s[i])
            /\ i > 1 => /\ s[i - 1].confirmed \subseteq s[i].confirmed
                        /\ s[i - 1].cancelled \subseteq s[i].cancelled
                        /\ s[i - 1].seed = s[i].seed
        BY <1>1, <2>3, <3>3 DEF EverySnapshotRestores
      <4>2. w[i] = s[i] /\ (i > 1 => w[i - 1] = s[i - 1])
        BY <2>3, <3>3
      <4> QED
        BY <4>1, <4>2
    <3> QED
      BY <3>1, <3>2, <3>3
  <2>15. ASSUME NEW q \in Rooms, NEW i \in DOMAIN deck'[q]
         PROVE  /\ Restores(deck'[q][i])
                /\ i > 1 => /\ deck'[q][i - 1].confirmed \subseteq deck'[q][i].confirmed
                            /\ deck'[q][i - 1].cancelled \subseteq deck'[q][i].cancelled
                            /\ deck'[q][i - 1].seed = deck'[q][i].seed
    <3>1. CASE q = r
      BY <2>2, <2>14, <3>1
    <3>2. CASE q # r
      BY <1>1, <2>2, <3>2 DEF EverySnapshotRestores
    <3> QED
      BY <3>1, <3>2
  <2>16. EverySnapshotRestores'
    BY <2>15 DEF EverySnapshotRestores, Restores, PendingFollows, Confirmed, DrawsAreContiguous
  <2> QED
    BY <2>9, <2>10, <2>13, <2>16
<1> QED
  BY <1>3, <1>4

\* So is an event of the log, and no event twice.
LEMMA LogWritten ==
    ASSUME StoreInv, NEW r \in Rooms, NEW at, NEW e, MayBeLogged(r, at, e),
           log' = IF Lands(log[r], at) THEN [log EXCEPT ![r] = Append(@, e)] ELSE log
    PROVE  log' \in [Rooms -> Seq(Events)] /\ LogGrows /\ \A q \in Rooms : IsInjective(log'[q])
<1>1. StoreTyped /\ AnswersAreKept /\ log \in [Rooms -> Seq(Events)]
  BY DEF StoreInv, StoreTyped
<1>2. e \in Events /\ log[r] \in Seq(Events) /\ \A q \in Rooms : IsInjective(log[q])
  BY <1>1 DEF MayBeLogged, AnswersAreKept
<1>3. CASE ~Lands(log[r], at)
  <2>1. log' = log
    BY <1>3
  <2> QED
    BY <1>1, <1>2, <2>1 DEF LogGrows
<1>4. CASE Lands(log[r], at)
  <2> PICK s : s = log[r]
    OBVIOUS
  <2> PICK w : w = Append(s, e)
    OBVIOUS
  <2>1. log' = [log EXCEPT ![r] = w]
    BY <1>4
  <2>2. log'[r] = w /\ \A q \in Rooms : q # r => log'[q] = log[q]
    BY <1>1, <2>1
  <2>3. /\ w \in Seq(Events) /\ Len(s) \in Nat /\ Len(w) = Len(s) + 1 /\ w[Len(s) + 1] = e
        /\ \A i \in 1 .. Len(s) : w[i] = s[i]
        /\ DOMAIN s = 1 .. Len(s) /\ DOMAIN w = 1 .. Len(s) + 1
    BY <1>2, Appended
  <2>4. \A i \in 1 .. Len(s) : s[i] # e
    BY <1>4 DEF Lands, MayBeLogged
  <2>5. log' \in [Rooms -> Seq(Events)]
    BY <1>1, <2>1, <2>3
  <2>6. LogGrows
    <3>1. ASSUME NEW q \in Rooms
          PROVE  Len(log[q]) <= Len(log'[q]) /\ \A i \in 1 .. Len(log[q]) : log'[q][i] = log[q][i]
      <4>1. Len(log[q]) \in Nat
        BY <1>1, StreamFacts
      <4>2. CASE q = r
        BY <2>2, <2>3, <4>2
      <4>3. CASE q # r
        BY <2>2, <4>1, <4>3
      <4> QED
        BY <4>2, <4>3
    <3> QED
      BY <3>1 DEF LogGrows
  <2>7. IsInjective(w)
    <3>1. \A i, j \in DOMAIN s : s[i] = s[j] => i = j
      BY <1>2 DEF IsInjective
    <3>2. ASSUME NEW i \in DOMAIN w, NEW j \in DOMAIN w, w[i] = w[j] PROVE i = j
      <4>1. (i = Len(s) + 1 \/ i \in 1 .. Len(s)) /\ (j = Len(s) + 1 \/ j \in 1 .. Len(s))
        BY <2>3
      <4> QED
        BY <2>3, <2>4, <3>1, <3>2, <4>1
    <3> QED
      BY <3>2 DEF IsInjective
  <2>8. \A q \in Rooms : IsInjective(log'[q])
    BY <1>2, <2>2, <2>7
  <2> QED
    BY <2>5, <2>6, <2>8
<1> QED
  BY <1>3, <1>4
-----------------------------------------------------------------------------
(* What most steps have in common                                          *)

LEMMA CallsGoOn ==
    ASSUME StoreInv, StoreTyped', DeckGrows, LogGrows,
           NEW p \in Replicas, NEW c, Continue(p, c), CallHolds(c)'
    PROVE  CallsHold'
<1>1. StoreTyped /\ CallsHold /\ call \in [Replicas -> CallRows]
  BY DEF StoreInv, StoreTyped
<1>2. call'[p] = c /\ \A q \in Replicas : q # p => call'[q] = call[q]
  BY <1>1 DEF Continue
<1>3. \A d : CallHolds(d) => CallHolds(d)'
  BY <1>1, CallsStand
<1>4. ASSUME NEW q \in Replicas PROVE CallHolds(call[q])'
  <2>1. PICK d : d = call'[q]
    OBVIOUS
  <2>2. CallHolds(d)'
    BY <1>1, <1>2, <1>3, <2>1 DEF CallsHold
  <2> QED
    BY <2>1, <2>2 DEF CallHolds
<1> QED
  BY <1>4 DEF CallsHold

\* The binding of a Room that has been answered is active and stays so.
BindingStays == binding.phase = "active" => binding' = binding

LEMMA BoundStays ==
    ASSUME StoreInv, BindingStays, answered' = answered
    PROVE  ServedIsBound'
BY DEF StoreInv, ServedIsBound, BindingStays

LEMMA NowBound ==
    ASSUME StoreInv, NEW r \in Rooms, binding.phase = "active" => binding.room = r,
           binding'.phase = "active", binding'.room = r, answered' = answered \cup {r}
    PROVE  ServedIsBound'
BY DEF StoreInv, ServedIsBound

\* A step that leaves the streams alone.
LEMMA StreamsRest ==
    ASSUME StoreInv, NEW p \in Replicas, NEW c \in CallRows, Continue(p, c), CallHolds(c),
           UNCHANGED <<deck, log>>, \A a \in late' : a \in late \/ LateHolds(a),
           binding' \in Bindings, cache' \in [Replicas -> [Rooms -> Nat]], fresh' \in Nat,
           \A a \in seeds' : a \in seeds \/ (a.room \in Rooms /\ deck[a.room] # <<>> /\ Head(deck[a.room]).seed = a.seed),
           \A a \in logged' : a \in logged \/ (a.room \in Rooms /\ a.offset \in 1 .. Len(log[a.room])
                                               /\ log[a.room][a.offset] = a.event),
           OneKeyPerStream', ServedIsBound'
    PROVE  StoreInv'
<1>1. StoreTyped /\ LatesHold /\ AnswersAreKept /\ EverySnapshotRestores /\ deck' = deck /\ log' = log
  BY DEF StoreInv
<1>2. call' \in [Replicas -> CallRows]
  BY <1>1 DEF StoreTyped, Continue
<1>3. StoreTyped'
  <2>1. \A a \in seeds' : a.room \in Rooms
    BY <1>1 DEF StoreTyped
  <2>2. \A a \in logged' : a.room \in Rooms /\ a.offset \in Nat \ {0}
    <3>1. ASSUME NEW a \in logged' PROVE a.room \in Rooms /\ a.offset \in Nat \ {0}
      <4>1. CASE a \in logged
        BY <1>1, <4>1 DEF StoreTyped
      <4>2. CASE a \notin logged
        <5>1. a.room \in Rooms /\ a.offset \in 1 .. Len(log[a.room])
          BY <4>2
        <5>2. Len(log[a.room]) \in Nat
          BY <1>1, <5>1, StreamFacts
        <5> QED
          BY <5>1, <5>2
      <4> QED
        BY <4>1, <4>2
    <3> QED
      BY <3>1
  <2>3. deck' \in [Rooms -> Seq(Snapshots)] /\ log' \in [Rooms -> Seq(Events)]
    BY <1>1 DEF StoreTyped
  <2> QED
    BY <1>2, <2>1, <2>2, <2>3 DEF StoreTyped, Bindings, Snapshots, Draws, OpIds, CallRows, CallSteps
<1>4. DeckGrows /\ LogGrows
  BY <1>1, Unchanging
<1>5. \A d : CallHolds(d) => CallHolds(d)'
  BY <1>1, <1>3, <1>4, CallsStand
<1>6. \A a : LateHolds(a) => LateHolds(a)'
  BY <1>1, <1>3, <1>4, CallsStand
<1>7. CallsHold'
  BY <1>3, <1>4, <1>5, CallsGoOn
<1>8. LatesHold'
  BY <1>1, <1>6 DEF LatesHold
<1>9. AnswersAreKept'
  <2>1. \A a \in seeds' : deck[a.room] # <<>> /\ Head(deck[a.room]).seed = a.seed
    BY <1>1 DEF AnswersAreKept
  <2>2. \A a \in logged' : a.offset <= Len(log[a.room]) /\ log[a.room][a.offset] = a.event
    <3>1. ASSUME NEW a \in logged' PROVE a.offset <= Len(log[a.room]) /\ log[a.room][a.offset] = a.event
      <4>1. CASE a \in logged
        BY <1>1, <4>1 DEF AnswersAreKept
      <4>2. CASE a \notin logged
        BY <1>1, <4>2, StreamFacts
      <4> QED
        BY <4>1, <4>2
    <3> QED
      BY <3>1
  <2>3. \A r \in Rooms : IsInjective(log[r])
    BY <1>1 DEF AnswersAreKept
  <2> QED
    BY <1>1, <2>1, <2>2, <2>3 DEF AnswersAreKept
<1>10. EverySnapshotRestores'
  BY <1>1 DEF EverySnapshotRestores, Restores, PendingFollows, Confirmed, DrawsAreContiguous
<1> QED
  BY <1>3, <1>7, <1>8, <1>9, <1>10 DEF StoreInv

LEMMA CallStep ==
    ASSUME StoreInv, NEW p \in Replicas, NEW c \in CallRows, Continue(p, c), CallHolds(c),
           UNCHANGED <<binding, deck, log, late, cache, fresh, seeds, logged, answered>>
    PROVE  StoreInv'
<1>1. StoreTyped /\ OneKeyPerStream /\ ServedIsBound
  BY DEF StoreInv
<1>2. /\ binding' = binding /\ deck' = deck /\ log' = log /\ late' = late /\ cache' = cache /\ fresh' = fresh
      /\ seeds' = seeds /\ logged' = logged /\ answered' = answered
  OBVIOUS
<1>3. binding' \in Bindings /\ cache' \in [Replicas -> [Rooms -> Nat]] /\ fresh' \in Nat
  BY <1>1, <1>2 DEF StoreTyped
<1>4. OneKeyPerStream' /\ ServedIsBound'
  BY <1>1, <1>2 DEF OneKeyPerStream, ServedIsBound
<1> QED
  BY <1>2, <1>3, <1>4, StreamsRest

\* A step that writes at most one snapshot.
LEMMA DeckStep ==
    ASSUME StoreInv, NEW r \in Rooms, NEW at, NEW t, MayFollow(r, at, t),
           deck' = IF Lands(deck[r], at) THEN [deck EXCEPT ![r] = Append(@, t)] ELSE deck,
           UNCHANGED <<binding, log, cache, seeds, logged, answered>>, fresh' \in Nat,
           call' \in [Replicas -> CallRows], \A q \in Replicas : call'[q] = call[q] \/ CallHolds(call'[q]),
           late' \subseteq late
    PROVE  StoreInv'
<1>1. StoreTyped /\ CallsHold /\ LatesHold /\ AnswersAreKept /\ ServedIsBound
  BY DEF StoreInv
<1>2. /\ binding' = binding /\ log' = log /\ cache' = cache
      /\ seeds' = seeds /\ logged' = logged /\ answered' = answered
  OBVIOUS
<1>3. deck' \in [Rooms -> Seq(Snapshots)] /\ DeckGrows /\ OneKeyPerStream' /\ EverySnapshotRestores'
  BY <1>2, DeckWritten
<1>4. StoreTyped'
  BY <1>1, <1>2, <1>3 DEF StoreTyped, Bindings, Snapshots, Draws, OpIds, CallRows, CallSteps
<1>5. LogGrows
  BY <1>2, Unchanging
<1>6. \A d : CallHolds(d) => CallHolds(d)'
  BY <1>1, <1>3, <1>4, <1>5, CallsStand
<1>7. \A a : LateHolds(a) => LateHolds(a)'
  BY <1>1, <1>3, <1>4, <1>5, CallsStand
<1>8. CallsHold'
  <2>1. ASSUME NEW q \in Replicas PROVE CallHolds(call[q])'
    <3>1. PICK d : d = call'[q]
      OBVIOUS
    <3>2. CallHolds(d)
      BY <1>1, <3>1 DEF CallsHold
    <3>3. CallHolds(d)'
      BY <1>6, <3>2
    <3> QED
      BY <3>1, <3>3 DEF CallHolds
  <2> QED
    BY <2>1 DEF CallsHold
<1>9. LatesHold'
  BY <1>1, <1>7 DEF LatesHold
<1>10. AnswersAreKept'
  <2>1. /\ \A a \in seeds : deck'[a.room] # <<>> /\ Head(deck'[a.room]).seed = a.seed
        /\ \A a \in logged : a.offset <= Len(log'[a.room]) /\ log'[a.room][a.offset] = a.event
    BY <1>1, <1>3, <1>4, <1>5, AnswersStand
  <2> QED
    BY <1>1, <1>2, <2>1 DEF AnswersAreKept
<1>11. ServedIsBound'
  BY <1>1, <1>2 DEF ServedIsBound
<1> QED
  BY <1>3, <1>4, <1>8, <1>9, <1>10, <1>11 DEF StoreInv

\* A step that writes at most one event, and answers with the offset of one.
LEMMA LogStep ==
    ASSUME StoreInv, NEW r \in Rooms, NEW at, NEW e, MayBeLogged(r, at, e),
           log' = IF Lands(log[r], at) THEN [log EXCEPT ![r] = Append(@, e)] ELSE log,
           UNCHANGED <<binding, deck, cache, fresh, seeds, answered>>,
           call' \in [Replicas -> CallRows], \A q \in Replicas : call'[q] = call[q] \/ CallHolds(call'[q]),
           late' \subseteq late,
           \A a \in logged' : a \in logged \/ (a.room = r /\ a.offset = at + 1 /\ a.event = e /\ Lands(log[r], at))
    PROVE  StoreInv'
<1>1. StoreTyped /\ CallsHold /\ LatesHold /\ AnswersAreKept /\ ServedIsBound /\ OneKeyPerStream /\ EverySnapshotRestores
  BY DEF StoreInv
<1>2. /\ binding' = binding /\ deck' = deck /\ cache' = cache /\ fresh' = fresh
      /\ seeds' = seeds /\ answered' = answered
  OBVIOUS
<1>3. log' \in [Rooms -> Seq(Events)] /\ LogGrows /\ \A q \in Rooms : IsInjective(log'[q])
  BY LogWritten
<1>4. at \in Nat
  BY <1>1, StreamFacts DEF MayBeLogged
<1>5. StoreTyped'
  <2>1. \A a \in logged' : a.room \in Rooms /\ a.offset \in Nat \ {0}
    BY <1>1, <1>4 DEF StoreTyped
  <2> QED
    BY <1>1, <1>2, <1>3, <2>1 DEF StoreTyped, Bindings, Snapshots, Draws, OpIds, CallRows, CallSteps
<1>6. DeckGrows
  BY <1>2, Unchanging
<1>7. \A d : CallHolds(d) => CallHolds(d)'
  BY <1>1, <1>3, <1>5, <1>6, CallsStand
<1>8. \A a : LateHolds(a) => LateHolds(a)'
  BY <1>1, <1>3, <1>5, <1>6, CallsStand
<1>9. CallsHold'
  <2>1. ASSUME NEW q \in Replicas PROVE CallHolds(call[q])'
    <3>1. PICK d : d = call'[q]
      OBVIOUS
    <3>2. CallHolds(d)
      BY <1>1, <3>1 DEF CallsHold
    <3>3. CallHolds(d)'
      BY <1>7, <3>2
    <3> QED
      BY <3>1, <3>3 DEF CallHolds
  <2> QED
    BY <2>1 DEF CallsHold
<1>10. LatesHold'
  BY <1>1, <1>8 DEF LatesHold
<1>11. AnswersAreKept'
  <2>1. /\ \A a \in seeds : deck'[a.room] # <<>> /\ Head(deck'[a.room]).seed = a.seed
        /\ \A a \in logged : a.offset <= Len(log'[a.room]) /\ log'[a.room][a.offset] = a.event
    BY <1>1, <1>3, <1>5, <1>6, AnswersStand
  <2>2. Lands(log[r], at) => Len(log'[r]) = at + 1 /\ log'[r][at + 1] = e
    <3>1. ASSUME Lands(log[r], at) PROVE Len(log'[r]) = at + 1 /\ log'[r][at + 1] = e
      <4>1. log'[r] = Append(log[r], e) /\ log[r] \in Seq(Events) /\ e \in Events
        BY <1>1, <3>1 DEF StoreTyped, MayBeLogged
      <4> QED
        BY <3>1, <4>1, Appended DEF Lands
    <3> QED
      BY <3>1
  <2>3. \A a \in logged' : a.offset <= Len(log'[a.room]) /\ log'[a.room][a.offset] = a.event
    <3>1. ASSUME NEW a \in logged' PROVE a.offset <= Len(log'[a.room]) /\ log'[a.room][a.offset] = a.event
      <4>1. CASE a \in logged
        BY <2>1, <4>1
      <4>2. CASE a \notin logged
        <5>1. a.room = r /\ a.offset = at + 1 /\ a.event = e /\ Lands(log[r], at)
          BY <4>2
        <5> QED
          BY <1>4, <2>2, <5>1
      <4> QED
        BY <4>1, <4>2
    <3> QED
      BY <3>1
  <2> QED
    BY <1>2, <1>3, <2>1, <2>3 DEF AnswersAreKept
<1>12. OneKeyPerStream' /\ ServedIsBound'
  BY <1>1, <1>2 DEF OneKeyPerStream, ServedIsBound
<1>13. EverySnapshotRestores'
  BY <1>1, <1>2 DEF EverySnapshotRestores, Restores, PendingFollows, Confirmed, DrawsAreContiguous
<1> QED
  BY <1>5, <1>9, <1>10, <1>11, <1>12, <1>13 DEF StoreInv
-----------------------------------------------------------------------------
(* The steps of a call                                                     *)

\* A call at work is for a Room and knows what it has read.
LEMMA CallFacts ==
    ASSUME StoreInv, NEW p \in Replicas
    PROVE  call[p] \in CallRows /\ CallHolds(call[p]) /\ (call[p].pc # "idle" => call[p].room \in Rooms)
BY DEF StoreInv, StoreTyped, CallsHold, CallHolds

LEMMA PlainHolds ==
    ASSUME NEW c, c.pc \in {"load", "settle", "repair", "recover", "release"} => c.room \in Rooms,
           c.pc \in {"idle", "load", "settle", "repair", "recover", "release"}
    PROVE  CallHolds(c)
BY DEF CallHolds

LEMMA EndHolds == NoCall \in CallRows /\ CallHolds(NoCall)
BY NoCallIsRow, PlainHolds

LEMMA EndCallKeeps ==
    ASSUME StoreInv, NEW p \in Replicas, EndCall(p),
           UNCHANGED <<binding, deck, log, late, cache, fresh, seeds, logged, answered>>
    PROVE  StoreInv'
BY EndHolds, CallStep DEF EndCall

LEMMA GotoKeeps ==
    ASSUME StoreInv, NEW p \in Replicas, NEW x \in {"settle", "repair", "recover", "release"},
           call[p].pc # "idle", Goto(p, x),
           UNCHANGED <<binding, deck, log, late, cache, fresh, seeds, logged, answered>>
    PROVE  StoreInv'
<1>1. PICK d : d = [call[p] EXCEPT !.pc = x]
  OBVIOUS
<1>2. x \in CallSteps
  BY DEF CallSteps
<1>3. d \in CallRows /\ d.pc = x /\ d.room = call[p].room
  BY <1>1, <1>2, CallFacts, PcSet DEF SameButPc
<1>4. CallHolds(d)
  BY <1>3, CallFacts, PlainHolds
<1>5. Continue(p, d)
  BY <1>1 DEF Goto
<1> QED
  BY <1>3, <1>4, <1>5, CallStep

LEMMA ArgumentFacts ==
    ASSUME NEW k \in Kinds, NEW a \in Arguments(k)
    PROVE  a[1] \in OpIds /\ a[2] \in Nat /\ (k = "append" => a[1] \in Events)
<1>1. Cardinality(Events) \in Nat
  BY StoreAssumption, FS_CardinalityType
<1>2. CASE k = "append"
  BY <1>1, <1>2 DEF Arguments, OpIds
<1>3. CASE k = "init"
  BY <1>3 DEF Arguments, OpIds
<1>4. CASE k \notin {"append", "init"}
  BY <1>4, StoreAssumption DEF Arguments, OpIds
<1> QED
  BY <1>2, <1>3, <1>4

LEMMA StartCallKeeps ==
    ASSUME StoreInv, NEW p \in Replicas, StartCall(p)
    PROVE  StoreInv'
<1>1. PICK r \in Rooms, k \in Kinds : \E a \in Arguments(k) :
        Continue(p, [NoCall EXCEPT !.pc = IF k = "append" THEN "log" ELSE "load",
                                   !.kind = k, !.room = r, !.op = a[1], !.n = a[2]])
  BY DEF StartCall
<1>2. PICK a \in Arguments(k) :
        Continue(p, [NoCall EXCEPT !.pc = IF k = "append" THEN "log" ELSE "load",
                                   !.kind = k, !.room = r, !.op = a[1], !.n = a[2]])
  BY <1>1
<1>3. PICK x : x = IF k = "append" THEN "log" ELSE "load"
  OBVIOUS
<1>4. PICK c : c = [NoCall EXCEPT !.pc = x, !.kind = k, !.room = r, !.op = a[1], !.n = a[2]]
  OBVIOUS
<1>5. Continue(p, c)
  BY <1>2, <1>3, <1>4
<1>6. a[1] \in OpIds /\ a[2] \in Nat /\ (k = "append" => a[1] \in Events)
  BY ArgumentFacts
<1>7. x \in CallSteps
  BY <1>3 DEF CallSteps
<1>8. c \in CallRows /\ c.pc = x /\ c.kind = k /\ c.room = r /\ c.op = a[1]
  BY <1>4, <1>6, <1>7, NoCallIsRow DEF CallRows
<1>9. CallHolds(c)
  BY <1>3, <1>6, <1>8 DEF CallHolds
<1>10. UNCHANGED <<binding, deck, log, late, cache, fresh, seeds, logged, answered>>
  BY DEF StartCall
<1> QED
  BY <1>5, <1>8, <1>9, <1>10, CallStep

\* A replica keeps the key of the first snapshot.
LEMMA KeyKept ==
    ASSUME StoreInv, NEW p \in Replicas, NEW r \in Rooms, deck[r] # <<>>, deck' = deck,
           cache' = [cache EXCEPT ![p][r] = Head(deck[r]).key]
    PROVE  cache' \in [Replicas -> [Rooms -> Nat]] /\ OneKeyPerStream'
<1>1. StoreTyped /\ OneKeyPerStream /\ cache \in [Replicas -> [Rooms -> Nat]]
  BY DEF StoreInv, StoreTyped
<1>2. PICK k : k = Head(deck[r]).key
  OBVIOUS
<1>3. k \in Nat
  <2>1. Head(deck[r]) \in Snapshots
    BY <1>1, StreamFacts
  <2> QED
    BY <1>2, <2>1 DEF Snapshots
<1>4. cache' = [cache EXCEPT ![p][r] = k]
  BY <1>2
<1>5. cache' \in [Replicas -> [Rooms -> Nat]]
  BY <1>1, <1>3, <1>4
<1>6. \A q \in Replicas, o \in Rooms : cache'[q][o] = cache[q][o] \/ (o = r /\ cache'[q][o] = k)
  BY <1>1, <1>4
<1>7. OneKeyPerStream'
  BY <1>1, <1>2, <1>6 DEF OneKeyPerStream
<1> QED
  BY <1>5, <1>7

LEMMA LoadDeckStateKeeps ==
    ASSUME StoreInv, NEW p \in Replicas, LoadDeckState(p)
    PROVE  StoreInv'
<1> PICK c : c = call[p]
  OBVIOUS
<1> PICK r : r = c.room
  OBVIOUS
<1>1. /\ c \in CallRows /\ c.pc = "load" /\ r \in Rooms
      /\ StoreTyped /\ OneKeyPerStream /\ ServedIsBound
  BY CallFacts DEF LoadDeckState, StoreInv
<1>c. c \in CallRows
  BY <1>1
<1>2. /\ binding' = binding /\ deck' = deck /\ log' = log /\ late' = late
      /\ seeds' = seeds /\ logged' = logged /\ answered' = answered
  BY DEF LoadDeckState
<1>3. binding' \in Bindings /\ fresh \in Nat /\ cache \in [Replicas -> [Rooms -> Nat]]
  BY <1>1, <1>2 DEF StoreTyped
<1>4. ServedIsBound'
  BY <1>1, <1>2 DEF ServedIsBound
<1>5. CASE deck[r] # <<>> /\ cache[p][r] \in {0, Head(deck[r]).key}
  <2>1. PICK d : d = [c EXCEPT !.pc = "ensure", !.seen = Len(deck[r])]
    OBVIOUS
  <2>2. Continue(p, d) /\ cache' = [cache EXCEPT ![p][r] = Head(deck[r]).key] /\ fresh' = fresh
    BY <1>5, <2>1 DEF LoadDeckState
  <2>3. Len(deck[r]) \in Nat /\ Len(deck[r]) \in 1 .. Len(deck[r])
    BY <1>1, <1>5, StreamFacts
  <2>4. d \in CallRows /\ d.pc = "ensure" /\ d.room = r /\ d.seen = Len(deck[r])
    <3>1. PICK x, n : x = "ensure" /\ n = Len(deck[r])
      OBVIOUS
    <3>2. x \in CallSteps /\ n \in Nat /\ d = [c EXCEPT !.pc = x, !.seen = n]
      BY <2>1, <2>3, <3>1 DEF CallSteps
    <3>3. d \in CallRows /\ d.pc = x /\ SameButPc(c, d) /\ d.seen = n
      BY ONLY <1>c, <3>2 DEF CallRows, SameButPc
    <3> QED
      BY <3>1, <3>3 DEF SameButPc
  <2>5. CallHolds(d)
    BY <1>1, <2>3, <2>4 DEF CallHolds
  <2>6. cache' \in [Replicas -> [Rooms -> Nat]] /\ OneKeyPerStream'
    BY <1>1, <1>2, <1>5, <2>2, KeyKept
  <2> QED
    BY <1>2, <1>3, <1>4, <2>2, <2>4, <2>5, <2>6, StreamsRest
<1>6. CASE ~(deck[r] # <<>> /\ cache[p][r] \in {0, Head(deck[r]).key}) /\ deck[r] = <<>> /\ c.kind = "init"
  <2>1. PICK s : s = NewAuthoritativeDeck(fresh + 1, 0)
    OBVIOUS
  <2>2. PICK d : d = [c EXCEPT !.pc = "claim", !.next = s]
    OBVIOUS
  <2>3. Continue(p, d) /\ cache' = cache /\ fresh' = fresh + 1
    BY <1>6, <2>1, <2>2 DEF LoadDeckState
  <2>4. s \in Snapshots /\ Restores(s)
    BY <1>3, <2>1, NewRestores
  <2>5. d \in CallRows /\ d.pc = "claim" /\ d.room = r /\ d.next = s
    <3>1. PICK x : x = "claim"
      OBVIOUS
    <3>2. x \in CallSteps /\ d = [c EXCEPT !.pc = x, !.next = s]
      BY <2>2, <3>1 DEF CallSteps
    <3>3. d \in CallRows /\ d.pc = x /\ SameButPc(c, d) /\ d.next = s
      BY ONLY <1>c, <2>4, <3>2 DEF CallRows, SameButPc
    <3> QED
      BY <3>1, <3>3 DEF SameButPc
  <2>6. CallHolds(d)
    BY <1>1, <2>4, <2>5 DEF CallHolds
  <2>7. OneKeyPerStream'
    BY <1>1, <1>2, <2>3 DEF OneKeyPerStream
  <2> QED
    BY <1>2, <1>3, <1>4, <2>3, <2>5, <2>6, <2>7, StreamsRest
<1>7. CASE ~(deck[r] # <<>> /\ cache[p][r] \in {0, Head(deck[r]).key}) /\ ~(deck[r] = <<>> /\ c.kind = "init")
  <2>1. EndCall(p) /\ cache' = cache /\ fresh' = fresh
    BY <1>7 DEF LoadDeckState
  <2> QED
    BY <1>2, <2>1, EndCallKeeps
<1> QED
  BY <1>5, <1>6, <1>7

LEMMA BoundPc ==
    ASSUME StoreInv, NEW p \in Replicas, call[p].pc # "idle", ~Free, Ensures(call[p].room),
           binding' = [binding EXCEPT !.phase = "active"]
    PROVE  /\ binding' \in Bindings /\ binding'.phase = "active" /\ binding'.room = call[p].room
           /\ binding.room = call[p].room /\ BindingStays
<1>1. binding \in Bindings
  BY DEF StoreInv, StoreTyped
<1> QED
  BY <1>1 DEF Free, Ensures, Bindings, BindingStays

LEMMA EnsureGameBindingKeeps ==
    ASSUME StoreInv, NEW p \in Replicas, EnsureGameBinding(p)
    PROVE  StoreInv'
<1> PICK c : c = call[p]
  OBVIOUS
<1> PICK r : r = c.room
  OBVIOUS
<1>1. /\ c \in CallRows /\ CallHolds(c) /\ c.pc \in {"ensure", "settle", "repair"} /\ r \in Rooms
      /\ StoreTyped /\ OneKeyPerStream /\ ServedIsBound
  BY CallFacts DEF EnsureGameBinding, StoreInv
<1>2. /\ deck' = deck /\ log' = log /\ late' = late /\ cache' = cache /\ seeds' = seeds /\ logged' = logged
  BY DEF EnsureGameBinding
<1>3. fresh \in Nat /\ cache' \in [Replicas -> [Rooms -> Nat]] /\ call \in [Replicas -> CallRows]
  BY <1>1, <1>2 DEF StoreTyped
<1>4. OneKeyPerStream'
  BY <1>1, <1>2 DEF OneKeyPerStream
<1>5. CASE Ensures(r) /\ Free
  <2>1. /\ binding' = [phase |-> "claimed", room |-> r, token |-> fresh + 1]
        /\ fresh' = fresh + 1 /\ call' = call /\ answered' = answered
    BY <1>5 DEF EnsureGameBinding
  <2>2. binding' \in Bindings /\ fresh' \in Nat
    BY <1>1, <1>3, <2>1 DEF Bindings
  <2>3. ServedIsBound'
    BY <1>5, <2>1, BoundStays DEF BindingStays, Free
  <2>4. Continue(p, c)
    BY <1>3, <2>1 DEF Continue
  <2> QED
    BY <1>1, <1>2, <1>3, <1>4, <2>2, <2>3, <2>4, StreamsRest
<1>6. CASE Ensures(r) /\ ~Free
  <2>1. binding' = [binding EXCEPT !.phase = "active"] /\ fresh' = fresh
    BY <1>6 DEF EnsureGameBinding
  <2>2. /\ binding' \in Bindings /\ binding'.phase = "active" /\ binding'.room = r
        /\ binding.room = r /\ BindingStays
    BY <1>1, <1>6, <2>1, BoundPc
  <2>3. CASE c.pc = "ensure"
    <3>1. Goto(p, "decide") /\ answered' = answered
      BY <1>6, <2>3 DEF EnsureGameBinding
    <3>2. PICK x : x = "decide"
      OBVIOUS
    <3>3. PICK d : d = [c EXCEPT !.pc = x]
      OBVIOUS
    <3>4. x \in CallSteps
      BY <3>2 DEF CallSteps
    <3>5. d \in CallRows /\ d.pc = x /\ d.room = r /\ d.seen = c.seen
      BY <1>1, <3>3, <3>4 DEF CallRows
    <3>6. CallHolds(d)
      BY <1>1, <2>3, <3>2, <3>5 DEF CallHolds
    <3>7. Continue(p, d)
      BY <3>1, <3>2, <3>3 DEF Goto
    <3>8. ServedIsBound'
      BY <2>2, <3>1, BoundStays
    <3> QED
      BY <1>2, <1>3, <1>4, <2>1, <2>2, <3>5, <3>6, <3>7, <3>8, StreamsRest
  <2>4. CASE c.pc = "settle"
    <3>1. EndCall(p) /\ answered' = answered \cup {r}
      BY <1>6, <2>4 DEF EnsureGameBinding, AnswerDeck
    <3>2. ServedIsBound'
      BY <1>1, <2>2, <3>1, NowBound
    <3> QED
      BY <1>2, <1>3, <1>4, <2>1, <2>2, <3>1, <3>2, EndHolds, StreamsRest DEF EndCall
  <2>5. CASE c.pc = "repair"
    <3>1. EndCall(p) /\ answered' = answered
      BY <1>6, <2>5 DEF EnsureGameBinding
    <3>2. ServedIsBound'
      BY <2>2, <3>1, BoundStays
    <3> QED
      BY <1>2, <1>3, <1>4, <2>1, <2>2, <3>1, <3>2, EndHolds, StreamsRest DEF EndCall
  <2> QED
    BY <1>1, <2>3, <2>4, <2>5
<1>7. CASE ~Ensures(r)
  <2>1. EndCall(p) /\ binding' = binding /\ fresh' = fresh /\ answered' = answered
    BY <1>7 DEF EnsureGameBinding
  <2> QED
    BY <1>2, <2>1, EndCallKeeps
<1> QED
  BY <1>5, <1>6, <1>7

LEMMA DecideDeckKeeps ==
    ASSUME StoreInv, NEW p \in Replicas, DecideDeck(p)
    PROVE  StoreInv'
<1> PICK c : c = call[p]
  OBVIOUS
<1> PICK s : s = deck[c.room][c.seen]
  OBVIOUS
<1> PICK t : t = Decided(s, c)
  OBVIOUS
<1>1. c \in CallRows /\ CallHolds(c) /\ c.pc = "decide" /\ c.room \in Rooms /\ StoreTyped /\ EverySnapshotRestores
  BY CallFacts DEF DecideDeck, StoreInv
<1>2. PICK x : x = IF t = s THEN "settle" ELSE "next"
  OBVIOUS
<1>3. PICK d : d = [c EXCEPT !.pc = x, !.next = t]
  OBVIOUS
<1>4. Continue(p, d)
  BY <1>2, <1>3 DEF DecideDeck
<1>5. c.seen \in 1 .. Len(deck[c.room])
  BY <1>1 DEF CallHolds
<1>6. s \in Snapshots /\ Restores(s)
  BY <1>1, <1>5, StreamFacts DEF EverySnapshotRestores
<1>7. t \in Snapshots /\ Follows(s, t)
  BY <1>1, <1>6, DecidedFollows
<1>8. x \in CallSteps
  BY <1>2 DEF CallSteps
<1>9. d \in CallRows /\ d.pc = x /\ d.room = c.room /\ d.seen = c.seen /\ d.next = t
  <2>1. c \in CallRows
    BY <1>1
  <2> QED
    BY ONLY <2>1, <1>3, <1>7, <1>8 DEF CallRows
<1>10. MayFollow(d.room, d.seen, d.next)
  BY <1>5, <1>7, <1>9 DEF MayFollow
<1>11. CallHolds(d)
  BY <1>1, <1>2, <1>5, <1>9, <1>10 DEF CallHolds
<1>12. UNCHANGED <<binding, deck, log, late, cache, fresh, seeds, logged, answered>>
  BY DEF DecideDeck
<1> QED
  BY <1>4, <1>9, <1>11, <1>12, CallStep

LEMMA AppendSnapshotKeeps ==
    ASSUME StoreInv, NEW p \in Replicas, AppendSnapshot(p)
    PROVE  StoreInv'
<1> PICK c : c = call[p]
  OBVIOUS
<1>1. c \in CallRows /\ CallHolds(c) /\ c.pc = "next" /\ c.room \in Rooms /\ StoreTyped
  BY CallFacts DEF AppendSnapshot, StoreInv
<1>2. MayFollow(c.room, c.seen, c.next)
  BY <1>1 DEF CallHolds
<1>3. deck' = IF Lands(deck[c.room], c.seen) THEN [deck EXCEPT ![c.room] = Append(@, c.next)] ELSE deck
  BY DEF AppendSnapshot
<1>4. PICK x : x = "settle"
  OBVIOUS
<1>5. PICK d : d = [c EXCEPT !.pc = x]
  OBVIOUS
<1>6. x \in CallSteps
  BY <1>4 DEF CallSteps
<1>7. d \in CallRows /\ d.pc = x /\ d.room = c.room
  BY <1>1, <1>5, <1>6 DEF CallRows
<1>8. CallHolds(d)
  BY <1>1, <1>4, <1>7, PlainHolds
<1>9. call' = [call EXCEPT ![p] = d]
  BY <1>4, <1>5 DEF AppendSnapshot, Goto, Continue
<1>10. call' \in [Replicas -> CallRows] /\ \A q \in Replicas : call'[q] = call[q] \/ CallHolds(call'[q])
  BY <1>1, <1>7, <1>8, <1>9 DEF StoreTyped
<1>11. UNCHANGED <<binding, log, cache, seeds, logged, answered>> /\ fresh' = fresh /\ late' = late
  BY DEF AppendSnapshot
<1>12. fresh' \in Nat
  BY <1>1, <1>11 DEF StoreTyped
<1> QED
  BY <1>1, <1>2, <1>3, <1>10, <1>11, <1>12, DeckStep

LEMMA ClaimGameBindingKeeps ==
    ASSUME StoreInv, NEW p \in Replicas, ClaimGameBinding(p)
    PROVE  StoreInv'
<1> PICK c : c = call[p]
  OBVIOUS
<1> PICK r : r = c.room
  OBVIOUS
<1>1. /\ c \in CallRows /\ CallHolds(c) /\ c.pc = "claim" /\ r \in Rooms
      /\ StoreTyped /\ OneKeyPerStream /\ ServedIsBound
  BY CallFacts DEF ClaimGameBinding, StoreInv
<1>2. /\ deck' = deck /\ log' = log /\ late' = late /\ cache' = cache /\ seeds' = seeds /\ logged' = logged
      /\ answered' = answered
  BY DEF ClaimGameBinding
<1>3. /\ fresh \in Nat /\ cache' \in [Replicas -> [Rooms -> Nat]] /\ call \in [Replicas -> CallRows]
      /\ binding \in Bindings
  BY <1>1, <1>2 DEF StoreTyped
<1>4. OneKeyPerStream'
  BY <1>1, <1>2 DEF OneKeyPerStream
<1>5. CASE c.token = 0 /\ Free
  <2>1. PICK x, n : x = "first" /\ n = fresh + 1
    OBVIOUS
  <2>2. PICK d : d = [c EXCEPT !.pc = x, !.token = n]
    OBVIOUS
  <2>3. /\ binding' = [phase |-> "claimed", room |-> r, token |-> n]
        /\ fresh' = n /\ Continue(p, d)
    BY <1>5, <2>1, <2>2 DEF ClaimGameBinding
  <2>4. x \in CallSteps /\ n \in Nat
    BY <1>3, <2>1 DEF CallSteps
  <2>5. d \in CallRows /\ d.pc = x /\ d.room = r /\ d.next = c.next
    BY <1>1, <2>2, <2>4 DEF CallRows
  <2>6. CallHolds(d)
    BY <1>1, <2>1, <2>5 DEF CallHolds
  <2>7. binding' \in Bindings
    BY <1>1, <2>3, <2>4 DEF Bindings
  <2>8. ServedIsBound'
    BY <1>2, <1>5, <2>3, BoundStays DEF BindingStays, Free
  <2> QED
    BY <1>2, <1>3, <1>4, <2>3, <2>4, <2>5, <2>6, <2>7, <2>8, StreamsRest
<1>6. CASE ~(c.token = 0 /\ Free)
  <2>1. /\ binding' = binding /\ fresh' = fresh
        /\ Goto(p, "first") \/ EndCall(p)
    BY <1>6 DEF ClaimGameBinding
  <2>2. CASE EndCall(p)
    BY <1>2, <2>1, <2>2, EndCallKeeps
  <2>3. CASE Goto(p, "first")
    <3>1. PICK x : x = "first"
      OBVIOUS
    <3>2. PICK d : d = [c EXCEPT !.pc = x]
      OBVIOUS
    <3>3. Continue(p, d)
      BY <2>3, <3>1, <3>2 DEF Goto
    <3>4. x \in CallSteps
      BY <3>1 DEF CallSteps
    <3>5. d \in CallRows /\ d.pc = x /\ d.room = r /\ d.next = c.next
      BY <1>1, <3>2, <3>4 DEF CallRows
    <3>6. CallHolds(d)
      BY <1>1, <3>1, <3>5 DEF CallHolds
    <3> QED
      BY <1>2, <2>1, <3>3, <3>5, <3>6, CallStep
  <2> QED
    BY <2>1, <2>2, <2>3
<1> QED
  BY <1>5, <1>6

\* The candidate is written under the key of the stream, if there is one.
LEMMA SealedRestores ==
    ASSUME StoreInv, NEW p \in Replicas, NEW r \in Rooms, NEW t \in Snapshots, Restores(t),
           NEW s, s = [t EXCEPT !.key = StreamDEK(p, r)]
    PROVE  s \in Snapshots /\ Restores(s) /\ s.seed = t.seed
<1>1. StoreTyped /\ fresh \in Nat /\ cache[p][r] \in Nat
  BY DEF StoreInv, StoreTyped
<1>2. PICK k : k = StreamDEK(p, r)
  OBVIOUS
<1>3. k \in Nat
  <2>1. CASE cache[p][r] # 0
    BY <1>1, <1>2, <2>1 DEF StreamDEK
  <2>2. CASE cache[p][r] = 0 /\ deck[r] # <<>>
    <3>1. k = Head(deck[r]).key
      BY <1>2, <2>2 DEF StreamDEK
    <3>2. Head(deck[r]) \in Snapshots
      BY <1>1, <2>2, StreamFacts
    <3> QED
      BY <3>1, <3>2 DEF Snapshots
  <2>3. CASE cache[p][r] = 0 /\ ~(deck[r] # <<>>)
    BY <1>1, <1>2, <2>3 DEF StreamDEK
  <2> QED
    BY <2>1, <2>2, <2>3
<1>4. s = [t EXCEPT !.key = k]
  BY <1>2
<1>5. /\ s \in Snapshots /\ s.seed = t.seed /\ s.pointer = t.pointer /\ s.pending = t.pending
      /\ s.confirmed = t.confirmed
  BY ONLY t \in Snapshots, <1>3, <1>4 DEF Snapshots
<1>6. Restores(s)
  BY <1>5 DEF Restores, PendingFollows, Confirmed, DrawsAreContiguous
<1> QED
  BY <1>5, <1>6

LEMMA AppendFirstKeeps ==
    ASSUME StoreInv, NEW p \in Replicas, AppendFirst(p)
    PROVE  StoreInv'
<1> PICK c : c = call[p]
  OBVIOUS
<1> PICK r : r = c.room
  OBVIOUS
<1> PICK t : t = c.next
  OBVIOUS
<1> PICK s : s = [t EXCEPT !.key = StreamDEK(p, r)]
  OBVIOUS
<1>1. /\ c \in CallRows /\ CallHolds(c) /\ c.pc = "first" /\ r \in Rooms
      /\ StoreTyped /\ OneKeyPerStream /\ ServedIsBound
  BY CallFacts DEF AppendFirst, StoreInv
<1>2. t \in Snapshots /\ Restores(t)
  BY <1>1 DEF CallHolds
<1>3. s \in Snapshots /\ Restores(s)
  BY <1>1, <1>2, SealedRestores
<1>4. MayFollow(r, 0, s)
  BY <1>3 DEF MayFollow
<1>5. PICK x : x = "anchor"
  OBVIOUS
<1>6. PICK d : d = [c EXCEPT !.pc = x, !.next = s]
  OBVIOUS
<1>7. x \in CallSteps
  BY <1>5 DEF CallSteps
<1>8. d \in CallRows /\ d.pc = x /\ d.room = r /\ d.next = s
  <2>1. c \in CallRows
    BY <1>1
  <2>2. d \in CallRows /\ d.pc = x /\ d.room = c.room /\ d.next = s
    BY ONLY <2>1, <1>3, <1>6, <1>7 DEF CallRows
  <2> QED
    BY <2>2
<1>9. CallHolds(d)
  BY <1>1, <1>3, <1>5, <1>8 DEF CallHolds
<1>10. Continue(p, d) /\ fresh' = fresh + 1
  BY <1>5, <1>6 DEF AppendFirst
<1>11. /\ binding' = binding /\ log' = log /\ cache' = cache /\ seeds' = seeds /\ logged' = logged
       /\ answered' = answered
  BY DEF AppendFirst
<1>12. fresh' \in Nat
  BY <1>1, <1>10 DEF StoreTyped
<1>13. CASE deck' = (IF Lands(deck[r], 0) THEN [deck EXCEPT ![r] = <<s>>] ELSE deck) /\ late' = late
  <2>1. deck' = IF Lands(deck[r], 0) THEN [deck EXCEPT ![r] = Append(@, s)] ELSE deck
    <3>1. CASE ~Lands(deck[r], 0)
      BY <1>13, <3>1
    <3>2. CASE Lands(deck[r], 0)
      <4>1. deck[r] = <<>>
        BY <1>1, <3>2, StreamFacts DEF Lands
      <4>2. Append(deck[r], s) = <<s>>
        BY <4>1
      <4> QED
        BY <1>13, <3>2, <4>2
    <3> QED
      BY <3>1, <3>2
  <2>2. call' \in [Replicas -> CallRows] /\ \A q \in Replicas : call'[q] = call[q] \/ CallHolds(call'[q])
    BY <1>1, <1>8, <1>9, <1>10 DEF StoreTyped, Continue
  <2> QED
    BY <1>1, <1>4, <1>11, <1>12, <1>13, <2>1, <2>2, DeckStep
<1>14. CASE deck' = deck /\ late' \in {late, late \cup {[stream |-> "deck", room |-> r, at |-> 0, next |-> s]}}
  <2>1. PICK a : a = [stream |-> "deck", room |-> r, at |-> 0, next |-> s]
    OBVIOUS
  <2>2. LateHolds(a)
    BY <1>1, <1>4, <2>1 DEF LateHolds
  <2>3. \A b \in late' : b \in late \/ LateHolds(b)
    BY <1>14, <2>1, <2>2
  <2>4. /\ binding' \in Bindings /\ cache' \in [Replicas -> [Rooms -> Nat]]
        /\ OneKeyPerStream' /\ ServedIsBound'
    BY <1>1, <1>11, <1>14 DEF StoreTyped, OneKeyPerStream, ServedIsBound
  <2> QED
    BY <1>8, <1>9, <1>10, <1>11, <1>12, <1>14, <2>3, <2>4, StreamsRest
<1>15. PICK landed : landed = IF Lands(deck[r], 0) THEN [deck EXCEPT ![r] = <<s>>] ELSE deck
  OBVIOUS
<1>16. \/ deck' = landed /\ late' = late
       \/ deck' = deck /\ late' \in {late, late \cup {[stream |-> "deck", room |-> r, at |-> 0, next |-> s]}}
  BY <1>15 DEF AppendFirst
<1> QED
  BY <1>13, <1>14, <1>15, <1>16

LEMMA AnchorCommittedStreamDEKKeeps ==
    ASSUME StoreInv, NEW p \in Replicas, AnchorCommittedStreamDEK(p)
    PROVE  StoreInv'
<1> PICK c : c = call[p]
  OBVIOUS
<1> PICK r : r = c.room
  OBVIOUS
<1>1. /\ c \in CallRows /\ CallHolds(c) /\ c.pc = "anchor" /\ r \in Rooms
      /\ StoreTyped /\ ServedIsBound
  BY CallFacts DEF AnchorCommittedStreamDEK, StoreInv
<1>2. /\ binding' = binding /\ deck' = deck /\ log' = log /\ late' = late /\ fresh' = fresh
      /\ seeds' = seeds /\ logged' = logged /\ answered' = answered
  BY DEF AnchorCommittedStreamDEK
<1>3. binding' \in Bindings /\ fresh' \in Nat /\ ServedIsBound'
  BY <1>1, <1>2 DEF StoreTyped, ServedIsBound
<1>4. CASE deck[r] = <<>>
  <2>1. Goto(p, "recover") /\ cache' = cache
    BY <1>4 DEF AnchorCommittedStreamDEK
  <2> QED
    BY <1>1, <1>2, <2>1, GotoKeeps
<1>5. CASE deck[r] # <<>>
  <2>1. /\ cache' = [cache EXCEPT ![p][r] = Head(deck[r]).key]
        /\ \/ MatchesCandidate(p) /\ Goto(p, "finalize")
           \/ Continue(p, [c EXCEPT !.pc = "load", !.again = FALSE])
           \/ Goto(p, "recover")
    BY <1>5 DEF AnchorCommittedStreamDEK, AnchoredKey
  <2>2. cache' \in [Replicas -> [Rooms -> Nat]] /\ OneKeyPerStream'
    BY <1>1, <1>2, <1>5, <2>1, KeyKept
  <2>3. ASSUME NEW d \in CallRows, Continue(p, d), CallHolds(d) PROVE StoreInv'
    BY <1>2, <1>3, <2>2, <2>3, StreamsRest
  <2>4. CASE MatchesCandidate(p) /\ Goto(p, "finalize")
    <3>1. PICK x : x = "finalize"
      OBVIOUS
    <3>2. PICK d : d = [c EXCEPT !.pc = x]
      OBVIOUS
    <3>3. Continue(p, d)
      BY <2>4, <3>1, <3>2 DEF Goto
    <3>4. x \in CallSteps
      BY <3>1 DEF CallSteps
    <3>5. d \in CallRows /\ d.pc = x /\ d.room = r /\ d.next = c.next
      BY <1>1, <3>2, <3>4 DEF CallRows
    <3>6. CallHolds(d)
      BY <1>1, <1>5, <2>4, <3>1, <3>5 DEF CallHolds, MatchesCandidate
    <3> QED
      BY <2>3, <3>3, <3>5, <3>6
  <2>5. CASE Continue(p, [c EXCEPT !.pc = "load", !.again = FALSE])
    <3>1. PICK x : x = "load"
      OBVIOUS
    <3>2. PICK d : d = [c EXCEPT !.pc = x, !.again = FALSE]
      OBVIOUS
    <3>3. Continue(p, d)
      BY <2>5, <3>1, <3>2
    <3>4. x \in CallSteps
      BY <3>1 DEF CallSteps
    <3>5. d \in CallRows /\ d.pc = x /\ d.room = c.room
      <4>1. c \in CallRows
        BY <1>1
      <4> QED
        BY ONLY <4>1, <3>2, <3>4 DEF CallRows
    <3>6. CallHolds(d)
      BY <1>1, <3>1, <3>5, PlainHolds
    <3> QED
      BY <2>3, <3>3, <3>5, <3>6
  <2>6. CASE Goto(p, "recover")
    <3>1. PICK x : x = "recover"
      OBVIOUS
    <3>2. PICK d : d = [c EXCEPT !.pc = x]
      OBVIOUS
    <3>3. Continue(p, d)
      BY <2>6, <3>1, <3>2 DEF Goto
    <3>4. x \in CallSteps
      BY <3>1 DEF CallSteps
    <3>5. d \in CallRows /\ d.pc = x /\ d.room = c.room
      BY <1>1, <3>2, <3>4 DEF CallRows
    <3>6. CallHolds(d)
      BY <1>1, <3>1, <3>5, PlainHolds
    <3> QED
      BY <2>3, <3>3, <3>5, <3>6
  <2> QED
    BY <2>1, <2>4, <2>5, <2>6
<1> QED
  BY <1>4, <1>5

LEMMA FinalizeGameBindingKeeps ==
    ASSUME StoreInv, NEW p \in Replicas, FinalizeGameBinding(p)
    PROVE  StoreInv'
<1> PICK c : c = call[p]
  OBVIOUS
<1> PICK r : r = c.room
  OBVIOUS
<1>1. /\ c \in CallRows /\ CallHolds(c) /\ c.pc = "finalize" /\ r \in Rooms
      /\ StoreTyped /\ OneKeyPerStream /\ ServedIsBound
  BY CallFacts DEF FinalizeGameBinding, StoreInv
<1>2. /\ deck' = deck /\ log' = log /\ late' = late /\ cache' = cache /\ fresh' = fresh /\ logged' = logged
  BY DEF FinalizeGameBinding
<1>3. CASE Finalizes(p)
  <2>1. /\ binding' = [binding EXCEPT !.phase = "active"]
        /\ seeds' = seeds \cup {[room |-> r, seed |-> c.next.seed]}
        /\ EndCall(p) /\ answered' = answered \cup {r}
    BY <1>3 DEF FinalizeGameBinding, AnswerDeck
  <2>2. binding \in Bindings /\ fresh' \in Nat /\ cache' \in [Replicas -> [Rooms -> Nat]]
    BY <1>1, <1>2 DEF StoreTyped
  <2>3. binding.room = r
    BY <1>3 DEF Finalizes, Owns
  <2>4. binding' \in Bindings /\ binding'.phase = "active" /\ binding'.room = r
    BY <2>1, <2>2, <2>3 DEF Bindings
  <2>5. ServedIsBound'
    BY <1>1, <2>1, <2>3, <2>4, NowBound
  <2>6. \A a \in seeds' : a \in seeds \/ (a.room \in Rooms /\ deck[a.room] # <<>> /\ Head(deck[a.room]).seed = a.seed)
    BY <1>1, <2>1 DEF CallHolds
  <2>7. OneKeyPerStream'
    BY <1>1, <1>2 DEF OneKeyPerStream
  <2> QED
    BY <1>2, <2>1, <2>2, <2>4, <2>5, <2>6, <2>7, EndHolds, StreamsRest DEF EndCall
<1>4. CASE ~Finalizes(p)
  <2>1. EndCall(p) /\ binding' = binding /\ seeds' = seeds /\ answered' = answered
    BY <1>4 DEF FinalizeGameBinding
  <2> QED
    BY <1>2, <2>1, EndCallKeeps
<1> QED
  BY <1>3, <1>4

LEMMA DeckStreamExistsKeeps ==
    ASSUME StoreInv, NEW p \in Replicas, DeckStreamExists(p)
    PROVE  StoreInv'
<1>1. call[p].pc # "idle" /\ \E x \in {"repair", "release"} : Goto(p, x)
  BY DEF DeckStreamExists
<1>2. UNCHANGED <<binding, deck, log, late, cache, fresh, seeds, logged, answered>>
  BY DEF DeckStreamExists
<1> QED
  BY <1>1, <1>2, GotoKeeps

LEMMA ReleaseGameBindingKeeps ==
    ASSUME StoreInv, NEW p \in Replicas, ReleaseGameBinding(p)
    PROVE  StoreInv'
<1>1. StoreTyped /\ OneKeyPerStream
  BY DEF StoreInv
<1>2. /\ EndCall(p) /\ deck' = deck /\ log' = log /\ late' = late /\ cache' = cache /\ fresh' = fresh
      /\ seeds' = seeds /\ logged' = logged /\ answered' = answered
  BY DEF ReleaseGameBinding
<1>3. CASE ~Owns(p)
  <2>1. binding' = binding
    BY <1>3 DEF ReleaseGameBinding
  <2> QED
    BY <1>2, <2>1, EndCallKeeps
<1>4. CASE Owns(p)
  <2>1. binding' = [binding EXCEPT !.phase = "released"] /\ binding \in Bindings
    BY <1>1, <1>4 DEF ReleaseGameBinding, StoreTyped
  <2>2. binding' \in Bindings
    BY <2>1 DEF Bindings
  <2>3. BindingStays
    BY <1>4 DEF Owns, BindingStays
  <2>4. ServedIsBound'
    BY <1>2, <2>3, BoundStays
  <2>5. OneKeyPerStream' /\ fresh' \in Nat /\ cache' \in [Replicas -> [Rooms -> Nat]]
    BY <1>1, <1>2 DEF OneKeyPerStream, StoreTyped
  <2> QED
    BY <1>2, <2>2, <2>4, <2>5, EndHolds, StreamsRest DEF EndCall
<1> QED
  BY <1>3, <1>4

\* The call ends; the log may have answered.
LEMMA OffsetsAnswered ==
    ASSUME StoreInv, NEW p \in Replicas, EndCall(p),
           UNCHANGED <<binding, deck, log, late, cache, fresh, seeds, answered>>,
           \A a \in logged' : a \in logged \/ (a.room \in Rooms /\ a.offset \in 1 .. Len(log[a.room])
                                               /\ log[a.room][a.offset] = a.event)
    PROVE  StoreInv'
<1>1. /\ binding' = binding /\ deck' = deck /\ log' = log /\ late' = late /\ cache' = cache /\ fresh' = fresh
      /\ seeds' = seeds /\ answered' = answered
  OBVIOUS
<1>2. StoreTyped /\ OneKeyPerStream /\ ServedIsBound
  BY DEF StoreInv
<1>3. /\ binding' \in Bindings /\ fresh' \in Nat /\ cache' \in [Replicas -> [Rooms -> Nat]]
      /\ OneKeyPerStream' /\ ServedIsBound'
  BY <1>1, <1>2 DEF StoreTyped, OneKeyPerStream, ServedIsBound
<1> QED
  BY <1>1, <1>3, EndHolds, StreamsRest DEF EndCall

LEMMA DecideAppendKeeps ==
    ASSUME StoreInv, NEW p \in Replicas, DecideAppend(p)
    PROVE  StoreInv'
<1> PICK c : c = call[p]
  OBVIOUS
<1> PICK r : r = c.room
  OBVIOUS
<1>1. c \in CallRows /\ CallHolds(c) /\ c.pc = "log" /\ r \in Rooms /\ StoreTyped
  BY CallFacts DEF DecideAppend, StoreInv
<1>2. /\ binding' = binding /\ deck' = deck /\ log' = log /\ late' = late /\ cache' = cache /\ fresh' = fresh
      /\ seeds' = seeds /\ answered' = answered
  BY DEF DecideAppend
<1>3. DOMAIN log[r] = 1 .. Len(log[r]) /\ Len(log[r]) \in Nat /\ log[r] \in Seq(Events)
  BY <1>1, StreamFacts DEF StoreTyped
<1>4. \/ \E i \in DOMAIN log[r] :
            /\ log[r][i] = c.op
            /\ logged' = logged \cup {[room |-> r, event |-> c.op, offset |-> i]} /\ EndCall(p)
      \/ EndCall(p) /\ logged' = logged
      \/ /\ c.op \notin Range(log[r]) /\ logged' = logged
         /\ Continue(p, [c EXCEPT !.pc = "write", !.seen = Len(log[r])])
  BY DEF DecideAppend
<1>5. CASE \E i \in DOMAIN log[r] :
             /\ log[r][i] = c.op
             /\ logged' = logged \cup {[room |-> r, event |-> c.op, offset |-> i]} /\ EndCall(p)
  <2>1. PICK i \in DOMAIN log[r] :
          /\ log[r][i] = c.op
          /\ logged' = logged \cup {[room |-> r, event |-> c.op, offset |-> i]} /\ EndCall(p)
    BY <1>5
  <2>2. \A a \in logged' : a \in logged \/ (a.room \in Rooms /\ a.offset \in 1 .. Len(log[a.room])
                                            /\ log[a.room][a.offset] = a.event)
    BY <1>1, <1>3, <2>1
  <2> QED
    BY <1>2, <2>1, <2>2, OffsetsAnswered
<1>6. CASE EndCall(p) /\ logged' = logged
  BY <1>2, <1>6, EndCallKeeps
<1>7. CASE /\ c.op \notin Range(log[r]) /\ logged' = logged
           /\ Continue(p, [c EXCEPT !.pc = "write", !.seen = Len(log[r])])
  <2>1. PICK x, n : x = "write" /\ n = Len(log[r])
    OBVIOUS
  <2>2. PICK d : d = [c EXCEPT !.pc = x, !.seen = n]
    OBVIOUS
  <2>3. Continue(p, d)
    BY <1>7, <2>1, <2>2
  <2>4. x \in CallSteps /\ n \in Nat
    BY <1>3, <2>1 DEF CallSteps
  <2>5. d \in CallRows /\ d.pc = x /\ d.room = c.room /\ d.seen = n /\ d.op = c.op
    <3>1. c \in CallRows
      BY <1>1
    <3> QED
      BY ONLY <2>2, <2>4, <3>1 DEF CallRows
  <2>6. c.op \in Events
    BY <1>1 DEF CallHolds
  <2>7. \A i \in 1 .. Len(log[r]) : log[r][i] # c.op
    BY <1>3, <1>7 DEF Range
  <2>8. MayBeLogged(r, n, c.op)
    BY <1>3, <2>1, <2>6, <2>7 DEF MayBeLogged
  <2>9. CallHolds(d)
    BY <1>1, <2>1, <2>5, <2>6, <2>8 DEF CallHolds
  <2> QED
    BY <1>2, <1>7, <2>3, <2>5, <2>9, CallStep
<1> QED
  BY <1>4, <1>5, <1>6, <1>7

LEMMA AppendRoomEntryKeeps ==
    ASSUME StoreInv, NEW p \in Replicas, AppendRoomEntry(p)
    PROVE  StoreInv'
<1> PICK c : c = call[p]
  OBVIOUS
<1> PICK r, at, e : r = c.room /\ at = c.seen /\ e = c.op
  OBVIOUS
<1>1. c \in CallRows /\ CallHolds(c) /\ c.pc = "write" /\ r \in Rooms /\ StoreTyped
  BY CallFacts DEF AppendRoomEntry, StoreInv
<1>2. /\ binding' = binding /\ deck' = deck /\ late' = late /\ cache' = cache /\ fresh' = fresh
      /\ seeds' = seeds /\ answered' = answered
  BY DEF AppendRoomEntry
<1>3. MayBeLogged(r, at, e) /\ e \in Events
  BY <1>1 DEF CallHolds
<1>4. Len(log[r]) \in Nat /\ at \in Nat
  BY <1>1, <1>3, StreamFacts DEF MayBeLogged
<1>5. PICK told : told = logged \cup {[room |-> r, event |-> e, offset |-> at + 1]}
  OBVIOUS
<1>6. \/ Lands(log[r], at) /\ log' = [log EXCEPT ![r] = Append(@, e)] /\ logged' = told /\ EndCall(p)
      \/ Acknowledged(log[r], at, e) /\ logged' = told /\ EndCall(p) /\ log' = log
      \/ /\ log' = log /\ logged' = logged
         /\ Continue(p, [c EXCEPT !.pc = "log", !.again = FALSE]) \/ Continue(p, NoCall)
  BY <1>5 DEF AppendRoomEntry
<1>7. CASE Lands(log[r], at) /\ log' = [log EXCEPT ![r] = Append(@, e)] /\ logged' = told /\ EndCall(p)
  <2>1. log' = IF Lands(log[r], at) THEN [log EXCEPT ![r] = Append(@, e)] ELSE log
    BY <1>7
  <2>2. call' \in [Replicas -> CallRows] /\ \A q \in Replicas : call'[q] = call[q] \/ CallHolds(call'[q])
    BY <1>1, <1>7, EndHolds DEF StoreTyped, Continue, EndCall
  <2>3. \A a \in logged' : a \in logged \/ (a.room = r /\ a.offset = at + 1 /\ a.event = e /\ Lands(log[r], at))
    BY <1>5, <1>7
  <2> QED
    BY <1>1, <1>2, <1>3, <2>1, <2>2, <2>3, LogStep
<1>8. CASE Acknowledged(log[r], at, e) /\ logged' = told /\ EndCall(p) /\ log' = log
  <2>1. at + 1 \in 1 .. Len(log[r]) /\ log[r][at + 1] = e
    BY <1>4, <1>8 DEF Acknowledged
  <2>2. \A a \in logged' : a \in logged \/ (a.room \in Rooms /\ a.offset \in 1 .. Len(log[a.room])
                                            /\ log[a.room][a.offset] = a.event)
    BY <1>1, <1>5, <1>8, <2>1
  <2> QED
    BY <1>2, <1>8, <2>2, OffsetsAnswered
<1>9. CASE log' = log /\ logged' = logged /\ Continue(p, [c EXCEPT !.pc = "log", !.again = FALSE])
  <2>1. PICK x : x = "log"
    OBVIOUS
  <2>2. PICK d : d = [c EXCEPT !.pc = x, !.again = FALSE]
    OBVIOUS
  <2>3. Continue(p, d)
    BY <1>9, <2>1, <2>2
  <2>4. x \in CallSteps
    BY <2>1 DEF CallSteps
  <2>5. d \in CallRows /\ d.pc = x /\ d.room = c.room /\ d.op = c.op
    <3>1. c \in CallRows
      BY <1>1
    <3> QED
      BY ONLY <2>2, <2>4, <3>1 DEF CallRows
  <2>6. CallHolds(d)
    BY <1>1, <1>3, <2>1, <2>5 DEF CallHolds
  <2> QED
    BY <1>2, <1>9, <2>3, <2>5, <2>6, CallStep
<1>10. CASE log' = log /\ logged' = logged /\ Continue(p, NoCall)
  BY <1>2, <1>10, EndHolds, CallStep
<1> QED
  BY <1>6, <1>7, <1>8, <1>9, <1>10

LEMMA RequestFailsKeeps ==
    ASSUME StoreInv, NEW p \in Replicas, RequestFails(p)
    PROVE  StoreInv'
<1> PICK c : c = call[p]
  OBVIOUS
<1>1. /\ c \in CallRows /\ CallHolds(c) /\ c.pc # "idle" /\ c.room \in Rooms
      /\ StoreTyped /\ OneKeyPerStream /\ ServedIsBound
  BY CallFacts DEF RequestFails, StoreInv
<1>2. /\ EndCall(p) /\ binding' = binding /\ deck' = deck /\ log' = log /\ cache' = cache /\ fresh' = fresh
      /\ seeds' = seeds /\ logged' = logged /\ answered' = answered
  BY DEF RequestFails
<1>3. PICK a : a = [stream |-> IF c.pc = "next" THEN "deck" ELSE "log", room |-> c.room, at |-> c.seen,
                    next |-> IF c.pc = "next" THEN c.next ELSE c.op]
  OBVIOUS
<1>4. late' = late \/ (c.pc \in {"next", "write"} /\ late' = late \cup {a})
  BY <1>3 DEF RequestFails
<1>5. c.pc \in {"next", "write"} => LateHolds(a)
  <2>1. CASE c.pc = "next"
    <3>1. a.stream = "deck" /\ a.room = c.room /\ a.at = c.seen /\ a.next = c.next
      BY <1>3, <2>1
    <3> QED
      BY <1>1, <2>1, <3>1 DEF CallHolds, LateHolds
  <2>2. CASE c.pc = "write"
    <3>1. a.stream = "log" /\ a.room = c.room /\ a.at = c.seen /\ a.next = c.op
      BY <1>3, <2>2
    <3> QED
      BY <1>1, <2>2, <3>1 DEF CallHolds, LateHolds
  <2> QED
    BY <2>1, <2>2
<1>6. \A b \in late' : b \in late \/ LateHolds(b)
  BY <1>4, <1>5
<1>7. /\ binding' \in Bindings /\ fresh' \in Nat /\ cache' \in [Replicas -> [Rooms -> Nat]]
      /\ OneKeyPerStream' /\ ServedIsBound'
  BY <1>1, <1>2 DEF StoreTyped, OneKeyPerStream, ServedIsBound
<1> QED
  BY <1>2, <1>6, <1>7, EndHolds, StreamsRest DEF EndCall

LEMMA ClaimIsLostKeeps ==
    ASSUME StoreInv, NEW p \in Replicas, ClaimIsLost(p)
    PROVE  StoreInv'
<1>1. StoreTyped /\ OneKeyPerStream /\ call[p].room \in Rooms
  BY CallFacts DEF StoreInv, ClaimIsLost
<1>2. /\ Free /\ binding' = [phase |-> "claimed", room |-> call[p].room, token |-> fresh + 1]
      /\ fresh' = fresh + 1 /\ EndCall(p) /\ deck' = deck /\ log' = log /\ late' = late /\ cache' = cache
      /\ seeds' = seeds /\ logged' = logged /\ answered' = answered
  BY DEF ClaimIsLost
<1>3. fresh \in Nat
  BY <1>1 DEF StoreTyped
<1>4. binding' \in Bindings /\ fresh' \in Nat
  BY <1>1, <1>2, <1>3 DEF Bindings
<1>5. ServedIsBound'
  BY <1>2, BoundStays DEF BindingStays, Free
<1>6. OneKeyPerStream' /\ cache' \in [Replicas -> [Rooms -> Nat]]
  BY <1>1, <1>2 DEF OneKeyPerStream, StoreTyped
<1> QED
  BY <1>2, <1>4, <1>5, <1>6, EndHolds, StreamsRest DEF EndCall

LEMMA AnchorFailsKeeps ==
    ASSUME StoreInv, NEW p \in Replicas, AnchorFails(p)
    PROVE  StoreInv'
<1>1. call[p].pc # "idle" /\ Goto(p, "recover")
  BY DEF AnchorFails
<1>2. UNCHANGED <<binding, deck, log, late, cache, fresh, seeds, logged, answered>>
  BY DEF AnchorFails
<1> QED
  BY <1>1, <1>2, GotoKeeps

LEMMA CrashKeeps ==
    ASSUME StoreInv, NEW p \in Replicas, Crash(p)
    PROVE  StoreInv'
<1>1. StoreTyped /\ OneKeyPerStream /\ ServedIsBound /\ cache \in [Replicas -> [Rooms -> Nat]]
  BY DEF StoreInv, StoreTyped
<1>2. /\ EndCall(p) /\ binding' = binding /\ deck' = deck /\ log' = log /\ late' = late /\ fresh' = fresh
      /\ seeds' = seeds /\ logged' = logged /\ answered' = answered
      /\ cache' = [cache EXCEPT ![p] = [r \in Rooms |-> 0]]
  BY DEF Crash
<1>3. binding' \in Bindings /\ fresh' \in Nat /\ ServedIsBound'
  BY <1>1, <1>2 DEF StoreTyped, ServedIsBound
<1>4. cache' \in [Replicas -> [Rooms -> Nat]]
  BY <1>1, <1>2
<1>5. \A q \in Replicas, r \in Rooms : cache'[q][r] = cache[q][r] \/ cache'[q][r] = 0
  BY <1>1, <1>2
<1>6. OneKeyPerStream'
  BY <1>1, <1>2, <1>5 DEF OneKeyPerStream
<1> QED
  BY <1>2, <1>3, <1>4, <1>6, EndHolds, StreamsRest DEF EndCall

LEMMA LateAppendKeeps ==
    ASSUME StoreInv, NEW a \in late, LateAppend(a)
    PROVE  StoreInv'
<1>1. LateHolds(a) /\ a.room \in Rooms /\ StoreTyped
  BY DEF StoreInv, LatesHold, LateHolds
<1>2. /\ late' = late \ {a} /\ binding' = binding /\ cache' = cache /\ call' = call /\ fresh' = fresh
      /\ seeds' = seeds /\ logged' = logged /\ answered' = answered
  BY DEF LateAppend
<1>3. /\ fresh' \in Nat /\ call' \in [Replicas -> CallRows] /\ late' \subseteq late
      /\ \A q \in Replicas : call'[q] = call[q]
  BY <1>1, <1>2 DEF StoreTyped
<1>4. CASE a.stream = "log"
  <2>1. /\ log' = IF Lands(log[a.room], a.at) THEN [log EXCEPT ![a.room] = Append(@, a.next)] ELSE log
        /\ deck' = deck
    BY <1>4 DEF LateAppend
  <2>2. MayBeLogged(a.room, a.at, a.next)
    BY <1>1, <1>4 DEF LateHolds
  <2> QED
    BY <1>1, <1>2, <1>3, <2>1, <2>2, LogStep
<1>5. CASE a.stream = "deck"
  <2>1. /\ deck' = IF Lands(deck[a.room], a.at) THEN [deck EXCEPT ![a.room] = Append(@, a.next)] ELSE deck
        /\ log' = log
    BY <1>5 DEF LateAppend
  <2>2. MayFollow(a.room, a.at, a.next)
    BY <1>1, <1>5 DEF LateHolds
  <2> QED
    BY <1>1, <1>2, <1>3, <2>1, <2>2, DeckStep
<1> QED
  BY <1>1, <1>4, <1>5 DEF LateHolds

-----------------------------------------------------------------------------
(* The theorems                                                            *)

LEMMA StoreInitKeeps == StoreInit => StoreInv
<1> SUFFICES ASSUME StoreInit PROVE StoreInv
  OBVIOUS
<1>1. /\ binding = [phase |-> "none", room |-> Nothing, token |-> 0]
      /\ deck = [r \in Rooms |-> <<>>] /\ log = [r \in Rooms |-> <<>>]
      /\ late = {} /\ cache = [p \in Replicas |-> [r \in Rooms |-> 0]]
      /\ call = [p \in Replicas |-> NoCall]
      /\ fresh = 0 /\ seeds = {} /\ logged = {} /\ answered = {}
  BY DEF StoreInit
<1>2. <<>> \in Seq(Snapshots) /\ <<>> \in Seq(Events)
  OBVIOUS
<1>3. deck \in [Rooms -> Seq(Snapshots)] /\ log \in [Rooms -> Seq(Events)]
  BY <1>1, <1>2
<1>4. binding \in Bindings
  BY <1>1 DEF Bindings
<1>5. call \in [Replicas -> CallRows]
  BY <1>1, EndHolds
<1>6. cache \in [Replicas -> [Rooms -> Nat]]
  BY <1>1
<1>7. StoreTyped
  BY <1>1, <1>3, <1>4, <1>5, <1>6 DEF StoreTyped
<1>8. CallsHold
  BY <1>1, EndHolds DEF CallsHold
<1>9. LatesHold /\ ServedIsBound
  BY <1>1 DEF LatesHold, ServedIsBound
<1>10. AnswersAreKept
  <2>1. \A r \in Rooms : IsInjective(log[r])
    BY <1>1 DEF IsInjective
  <2> QED
    BY <1>1, <2>1 DEF AnswersAreKept
<1>11. \A r \in Rooms : DOMAIN deck[r] = {}
  BY <1>1
<1>12. OneKeyPerStream /\ EverySnapshotRestores
  BY <1>1, <1>11 DEF OneKeyPerStream, EverySnapshotRestores
<1> QED
  BY <1>7, <1>8, <1>9, <1>10, <1>12 DEF StoreInv

LEMMA StoreNextKeeps == StoreInv /\ [StoreNext]_storeVars => StoreInv'
<1> SUFFICES ASSUME StoreInv, [StoreNext]_storeVars PROVE StoreInv'
  OBVIOUS
<1>1. CASE UNCHANGED storeVars
  <2>1. /\ binding' = binding /\ deck' = deck /\ log' = log /\ late' = late /\ cache' = cache /\ call' = call
        /\ fresh' = fresh /\ seeds' = seeds /\ logged' = logged /\ answered' = answered
    BY <1>1 DEF storeVars
  <2>2. /\ StoreTyped /\ CallsHold /\ LatesHold /\ ServedIsBound /\ AnswersAreKept
        /\ OneKeyPerStream /\ EverySnapshotRestores
    BY DEF StoreInv
  <2>3. StoreTyped'
    BY <2>1, <2>2 DEF StoreTyped, Bindings, Snapshots, Draws, OpIds, CallRows, CallSteps
  <2>4. DeckGrows /\ LogGrows
    BY <2>1, Unchanging
  <2>5. \A d : CallHolds(d) => CallHolds(d)'
    BY <2>2, <2>3, <2>4, CallsStand
  <2>6. \A a : LateHolds(a) => LateHolds(a)'
    BY <2>2, <2>3, <2>4, CallsStand
  <2>7. CallsHold'
    <3>1. ASSUME NEW p \in Replicas PROVE CallHolds(call[p])'
      <4>1. PICK d : d = call'[p]
        OBVIOUS
      <4>2. CallHolds(d)'
        BY <2>1, <2>2, <2>5, <4>1 DEF CallsHold
      <4> QED
        BY <4>1, <4>2 DEF CallHolds
    <3> QED
      BY <3>1 DEF CallsHold
  <2>8. LatesHold'
    BY <2>1, <2>2, <2>6 DEF LatesHold
  <2>9. ServedIsBound' /\ AnswersAreKept' /\ OneKeyPerStream'
    BY <2>1, <2>2 DEF ServedIsBound, AnswersAreKept, OneKeyPerStream
  <2>10. EverySnapshotRestores'
    BY <2>1, <2>2 DEF EverySnapshotRestores, Restores, PendingFollows, Confirmed, DrawsAreContiguous
  <2> QED
    BY <2>3, <2>7, <2>8, <2>9, <2>10 DEF StoreInv
<1>2. CASE StoreNext
  <2>1. ASSUME NEW p \in Replicas, StartCall(p) PROVE StoreInv'
    BY <2>1, StartCallKeeps
  <2>2. ASSUME NEW p \in Replicas, LoadDeckState(p) PROVE StoreInv'
    BY <2>2, LoadDeckStateKeeps
  <2>3. ASSUME NEW p \in Replicas, EnsureGameBinding(p) PROVE StoreInv'
    BY <2>3, EnsureGameBindingKeeps
  <2>4. ASSUME NEW p \in Replicas, DecideDeck(p) PROVE StoreInv'
    BY <2>4, DecideDeckKeeps
  <2>5. ASSUME NEW p \in Replicas, AppendSnapshot(p) PROVE StoreInv'
    BY <2>5, AppendSnapshotKeeps
  <2>6. ASSUME NEW p \in Replicas, ClaimGameBinding(p) PROVE StoreInv'
    BY <2>6, ClaimGameBindingKeeps
  <2>7. ASSUME NEW p \in Replicas, AppendFirst(p) PROVE StoreInv'
    BY <2>7, AppendFirstKeeps
  <2>8. ASSUME NEW p \in Replicas, AnchorCommittedStreamDEK(p) PROVE StoreInv'
    BY <2>8, AnchorCommittedStreamDEKKeeps
  <2>9. ASSUME NEW p \in Replicas, FinalizeGameBinding(p) PROVE StoreInv'
    BY <2>9, FinalizeGameBindingKeeps
  <2>10. ASSUME NEW p \in Replicas, DeckStreamExists(p) PROVE StoreInv'
    BY <2>10, DeckStreamExistsKeeps
  <2>11. ASSUME NEW p \in Replicas, ReleaseGameBinding(p) PROVE StoreInv'
    BY <2>11, ReleaseGameBindingKeeps
  <2>12. ASSUME NEW p \in Replicas, DecideAppend(p) PROVE StoreInv'
    BY <2>12, DecideAppendKeeps
  <2>13. ASSUME NEW p \in Replicas, AppendRoomEntry(p) PROVE StoreInv'
    BY <2>13, AppendRoomEntryKeeps
  <2>14. ASSUME NEW p \in Replicas, RequestFails(p) PROVE StoreInv'
    BY <2>14, RequestFailsKeeps
  <2>15. ASSUME NEW p \in Replicas, ClaimIsLost(p) PROVE StoreInv'
    BY <2>15, ClaimIsLostKeeps
  <2>16. ASSUME NEW p \in Replicas, AnchorFails(p) PROVE StoreInv'
    BY <2>16, AnchorFailsKeeps
  <2>17. ASSUME NEW p \in Replicas, Crash(p) PROVE StoreInv'
    BY <2>17, CrashKeeps
  <2>18. ASSUME NEW a \in late, LateAppend(a) PROVE StoreInv'
    BY <2>18, LateAppendKeeps
  <2> QED
    BY <1>2, <2>1, <2>2, <2>3, <2>4, <2>5, <2>6, <2>7, <2>8, <2>9, <2>10, <2>11, <2>12, <2>13, <2>14, <2>15,
       <2>16, <2>17, <2>18 DEF StoreNext
<1> QED
  BY <1>1, <1>2

\* Every Room that was answered has the binding, and there is one binding.
LEMMA OneIsServed ==
    ASSUME ServedIsBound
    PROVE  OneRoomServed
<1>1. answered \subseteq {binding.room}
  BY DEF ServedIsBound
<1>2. IsFiniteSet({binding.room}) /\ Cardinality({binding.room}) = 1
  BY FS_Singleton
<1>3. Cardinality(answered) <= Cardinality({binding.room})
  BY <1>1, <1>2, FS_Subset
<1> QED
  BY <1>2, <1>3 DEF OneRoomServed

(* One game is dealt by one Room, every snapshot of a deck is sealed with    *)
(* the key of the first, and every snapshot passes the checks it is restored *)
(* under (ensureGameBinding, finalizeGameBinding, anchorCommittedStreamDEK,  *)
(* deckStateFromSnapshot): for any number of replicas, Rooms, reservations,  *)
(* calls, late appends, crashes and failed requests.                         *)
THEOREM StoreIsSound == StoreSpec => []StoreSound
<1>1. StoreInv => StoreSound
  BY OneIsServed DEF StoreInv, StoreSound
<1> QED
  BY <1>1, StoreInitKeeps, StoreNextKeeps, PTL DEF StoreSpec

(* The seed an accepted InitializeDeck has committed to is that of the deck  *)
(* every later call restores, an event of the log stays at the offset Append *)
(* has answered, and no event is in the log twice.                           *)
THEOREM AnswersStayTrue == StoreSpec => []AnswersAreKept
<1>1. StoreInv => AnswersAreKept
  BY DEF StoreInv
<1> QED
  BY <1>1, StoreInitKeeps, StoreNextKeeps, PTL DEF StoreSpec
=============================================================================
