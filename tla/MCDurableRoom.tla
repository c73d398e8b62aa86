---------------------------- MODULE MCDurableRoom ----------------------------
(* Small instances of the durable command path for TLC.                     *)
EXTENDS DurableRoomInvariant, TLC

CONSTANTS create, draw1, play, report, h1, h2, w1, w2

\* CreateRoom needs no token; `draw1` and `report` race for sequence 1,
\* `play` is for the one after.
RaceTokens == [c \in Commands |-> IF c = create THEN 0 ELSE IF c = play THEN 2 ELSE 1]

\* Bound: while a stray request is on its way no handler is at work.
StrayAlone == late # {} => \A h \in Handlers : hnd[h].pc = "idle"

BothSymmetries == Permutations(Handlers) \cup Permutations(Workers)
-----------------------------------------------------------------------------
(* What the documents and comments promise beyond the properties of         *)
(* DurableRoom, and the code does not keep.                                 *)

\* A command answered as rejected has no entry in the integrity log, now or
\* later (docs/07: rejected commands never append Game Integrity entries).
RejectedNeverAppended ==
    \A c \in Commands : idem[c] = "rejected" => ~Holds(log, c)

\* A command answered as rejected holds no cards of the deck (app/ports.go:
\* Cancel releases what Reserve took).
RejectedHoldsNothing ==
    \A c \in Commands : idem[c] = "rejected" => deck.pending # c
=============================================================================
