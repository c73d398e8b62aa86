---------------------------- MODULE MCProvisioning ----------------------------
(* Two batches, one of two slots, and a retry budget of one.               *)
EXTENDS Provisioning

MCSlotsOf == [b \in {0, 1} |-> IF b = 0 THEN {0, 1} ELSE {2}]

MCManual ==
    { [id |-> 1, type |-> "retry", batch |-> 0, attempt |-> 0],
      [id |-> 2, type |-> "quarantine", batch |-> 1, attempt |-> 0],
      [id |-> 3, type |-> "provision", batch |-> 0, attempt |-> 0] }

(* "When every batch is complete, the round becomes in_progress"           *)
(* (domain/tournament.go:348).                                             *)
CompletedOpens ==
    (\A b \in Batches : batch[b].status = "completed") => round # "provisioning"
=============================================================================
