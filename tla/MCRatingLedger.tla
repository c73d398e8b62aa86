---------------------------- MODULE MCRatingLedger ----------------------------
(* Two players and three partitions: two of games, one of tournament facts. *)
EXTENDS RatingLedger

Game(event, key, room, order, shape) ==
    [kind |-> "game", event |-> event, key |-> key, room |-> room, order |-> order,
     shape |-> shape, print |-> "", reason |-> ""]
Perf(event, key, print, order, reason) ==
    [kind |-> "perf", event |-> event, key |-> key, room |-> "none", order |-> order,
     shape |-> "ok", print |-> print, reason |-> reason]

MCPartition == {"games1", "games2", "tournament"}

\* A game, the same game under another event id, and one that is not rated; a game
\* of another room, an unparsable record after it, and a game behind that; a final
\* standing, and another under its business key.
MCLog == [w \in MCPartition |->
    CASE w = "games1" -> <<Game("e1", "g1", "r1", <<1, 2>>, "ok"),
                           Game("e2", "g1", "r1", <<1, 2>>, "ok"),
                           Game("e8", "g5", "r1", <<1>>, "ineligible")>>
      [] w = "games2" -> <<Game("e3", "g2", "r2", <<2, 1>>, "ok"),
                           Game("e4", "g3", "r2", <<1, 2>>, "unparsable"),
                           Game("e5", "g4", "r2", <<1, 2>>, "ok")>>
      [] w = "tournament" -> <<Perf("e6", "e6", "x", <<1>>, "tournament_final_standing"),
                               Perf("e6", "e6", "y", <<2>>, "tournament_final_standing")>>]
===============================================================================
