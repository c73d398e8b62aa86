----------------------------- MODULE MCLeaderboard -----------------------------
(* Two players, one of whom has no row yet, pages of one row, two rebuilds. *)
EXTENDS Leaderboard, TLC

\* Both players score; the second player leads; the first passes and falls back.
MCCommits == <<{1 :> 2 @@ 2 :> 3}, {1 :> 4}, {1 :> 1}>>
===============================================================================
