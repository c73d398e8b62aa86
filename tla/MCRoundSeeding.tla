--------------------------- MODULE MCRoundSeeding ---------------------------
(* Three places on three shards: players 1 and 3 probe shard 0 first, so    *)
(* one of them goes on to shard 1 and may fill it while player 2 fills      *)
(* shard 2.  Player 3 registers under two command ids.                      *)
EXTENDS RoundSeeding

MCCommands ==
    { [id |-> 0, type |-> "create", player |-> Nobody],
      [id |-> 1, type |-> "register", player |-> 1],
      [id |-> 2, type |-> "register", player |-> 2],
      [id |-> 3, type |-> "register", player |-> 3],
      [id |-> 4, type |-> "register", player |-> 3],
      [id |-> 5, type |-> "close", player |-> Nobody],
      [id |-> 6, type |-> "cancel", player |-> Nobody] }

MCStartShard == [p \in Players |-> IF p = 2 THEN 2 ELSE 0]
=============================================================================
