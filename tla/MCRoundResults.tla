---------------------------- MODULE MCRoundResults ----------------------------
(* Round 1 has two rooms, their winners meet in the final.  The first room   *)
(* is announced twice under two event ids, its partition ends with a         *)
(* different outcome under a newer version; the final follows on the second  *)
(* partition.                                                                *)
EXTENDS RoundResults, TLC

Completion(id, room, version, ranked) ==
    [id |-> id, type |-> "record", room |-> room, version |-> version, claim |-> room,
     ranked |-> ranked, eligible |-> Len(ranked), abandoned |-> FALSE]

MCLog ==
    ("p1" :> <<Completion(<<"e", 1>>, <<1, 0>>, 1, <<1, 2>>),
               Completion(<<"e", 2>>, <<1, 0>>, 2, <<2, 1>>)>>)
    @@ ("p2" :> <<Completion(<<"e", 3>>, <<1, 1>>, 1, <<3, 4>>),
                  Completion(<<"e", 4>>, <<2, 0>>, 1, <<3, 1>>)>>)

MCCommands ==
    { \* the first room's result under a command, and for the wrong slot
      [Completion(<<"m", 1>>, <<1, 0>>, 1, <<1, 2>>) EXCEPT !.eligible = 2],
      [Completion(<<"m", 2>>, <<1, 1>>, 1, <<3, 4>>) EXCEPT !.claim = <<1, 0>>],
      \* a room of no slot, a player who advances elsewhere
      Completion(<<"m", 3>>, <<0, 0>>, 1, <<5, 6>>),
      Completion(<<"m", 4>>, <<1, 1>>, 2, <<1, 4>>),
      \* a player who is named twice
      Completion(<<"m", 10>>, <<1, 1>>, 3, <<5, 5>>),
      [id |-> <<"m", 5>>, type |-> "quarantine", room |-> <<1, 0>>, version |-> 1],
      [id |-> <<"m", 6>>, type |-> "complete", round |-> 1],
      [id |-> <<"complete", 1>>, type |-> "complete", round |-> 1],
      [id |-> <<"m", 7>>, type |-> "seed", round |-> 2],
      [id |-> <<"m", 8>>, type |-> "cancel"],
      [id |-> <<"m", 9>>, type |-> "finish"] }
=============================================================================
