------------------------------ MODULE RoomLedger ------------------------------
(***************************************************************************)
(* What a durable Room promises about its accepted commands, whatever the  *)
(* handlers, reconcilers and crashes that produce them.                    *)
(*                                                                         *)
(* `decided` is the append-only history of accepted commands.  `published` *)
(* is what the Room's operational snapshot reflects of it.  A command is   *)
(* decided at most once, and never while an earlier decision is still      *)
(* unpublished: between an accepted append and the snapshot that shows it  *)
(* nothing else may be decided from a stale Room state.                    *)
(***************************************************************************)
EXTENDS Naturals, Sequences

CONSTANT Entries        \* the accepted commands with the material they carry

CommandOf(e) == e.cmd

VARIABLES decided, published

ledgerVars == <<decided, published>>

Init == decided = <<>> /\ published = <<>>

\* A new command is accepted; everything decided before is already published.
Decide(e) ==
    /\ published = decided
    /\ \A i \in DOMAIN decided : CommandOf(decided[i]) # CommandOf(e)
    /\ decided' = Append(decided, e)
    /\ UNCHANGED published

\* The snapshot catches up with the history, by the commit or by a repair.
Publish ==
    /\ published # decided
    /\ published' = decided
    /\ UNCHANGED decided

Next == Publish \/ \E e \in Entries : Decide(e)

Spec == Init /\ [][Next]_ledgerVars
=============================================================================
