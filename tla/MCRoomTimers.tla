---------------------------- MODULE MCRoomTimers ----------------------------
(* What the documents and comments say of the deadlines of absent players.  *)
EXTENDS RoomTimers

(* An absence whose deadline has passed ends with a forfeit: the Room never *)
(* refuses it for good while the player is still away.                      *)
NoOpenEpisodeGivenUp ==
    \A t \in Timers : Open(t) /\ t \in passed => outcome[t] # "rejected"

(* A worker acknowledges a timer only when the Room has applied the expiry  *)
(* or found it stale; otherwise the lease is returned for a retry.          *)
AnsweredIsDecided == AllDecided

(* A row is open as long as its episode is: rows of episodes that are over  *)
(* are closed with the commit that ends them.                               *)
RowsAreOpenEpisodes == \A t \in rows : Open(t)

(* Expiry recovers when Redis loses its data: the rows bring a deadline that *)
(* has passed back to the Room.                                             *)
ExpiryRecovers ==
    \A t \in Timers : Open(t) /\ t \in passed ~> outcome[t] # "none" \/ ~Open(t)
=============================================================================
