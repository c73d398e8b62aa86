------------------------------- MODULE MCTables -------------------------------
(* A table with a small deck, any game on it (UnoGame), and a small room    *)
(* with its match (RoomSession); a behaviour shows one of the two.          *)
EXTENDS RoomSession, UnoGame, TLC

CONSTANTS ana, bo, cy

VARIABLE part   \* whose behaviour this is

Card(id, color, face) == [id |-> id, color |-> color, face |-> face]

Red5     == Card("r5", "red", "5")
Red5too  == Card("r5'", "red", "5")
Red7     == Card("r7", "red", "7")
Blue5    == Card("b5", "blue", "5")
Blue7    == Card("b7", "blue", "7")
RedSkip  == Card("rs", "red", "skip")
BlueBack == Card("br", "blue", "reverse")
RedBack  == Card("rr", "red", "reverse")
RedTwo   == Card("r+2", "red", "draw_two")
BlueTwo  == Card("b+2", "blue", "draw_two")
AnyWild  == Card("w", "none", "wild")
WildFour == Card("w+4", "none", "wild_draw_four")

MCColors == {"red", "blue"}

Red1 == Card("r1", "red", "1")
Red2 == Card("r2", "red", "2")
Red3 == Card("r3", "red", "3")
Red4 == Card("r4", "red", "4")

MCCards == {Red1, Red2, Red3, Red4, Red5, Red5too, Red7, Blue5, Blue7, RedSkip, BlueBack,
            RedBack, RedTwo, BlueTwo, AnyWild, WildFour}

\* One card each: every play ends a game, so whole matches are short.
ShortDeal == {[hands |-> <<{Red1}, {AnyWild}, {Red2}>>, top |-> Red3, deck |-> <<Red4>>]}

\* Two cards each: every first play opens an Uno window.
WindowDeal == {[hands |-> <<{Red1, Red2}, {RedTwo, AnyWild}, {RedSkip}>>, top |-> Red3,
                deck |-> <<Red4, Red5>>]}

\* A match mixes quick games and such with windows.
BothDeals == ShortDeal \cup WindowDeal

\* Everybody can be the first to go out: on turn, by a jump-in, after two draws.
QuickDeal == {[hands |-> <<{Red1}, {Red5too}, {Red7}>>, top |-> Red5,
               deck |-> <<Blue7, BlueBack>>]}

\* Players are interchangeable: deals go to seats, and to all of them.
PlayerSymmetry == Permutations(Players)
-----------------------------------------------------------------------------
Dealt(hands, top, deck) == [hands |-> hands, top |-> top, deck |-> deck]

\* Three players; between them a jump-in, a stack, a wild and a reverse.
TablesOfThree ==
  {Dealt(<<{RedTwo, Red5too}, {BlueTwo, Blue5}, {WildFour, RedSkip}>>, Red5,
         <<Red7, RedBack, Blue7, BlueBack>>),
   Dealt(<<{RedBack, AnyWild}, {Red7, RedTwo}, {Blue7, BlueTwo}>>, WildFour,
         <<Red5, BlueBack>>)}

\* Two players: a skip and a reverse both give the turn back.
TablesOfTwo ==
  {Dealt(<<{RedSkip, RedBack}, {WildFour, Red5too}>>, Red5,
         <<BlueTwo, AnyWild, Red7, RedTwo>>),
   Dealt(<<{RedTwo, AnyWild}, {BlueTwo, WildFour}>>, Red7,
         <<Red5, RedSkip, Blue7, RedBack>>)}

MCTableDeals == TablesOfThree \cup TablesOfTwo

\* A cancelled room that everybody has left.
RoomAtRest ==
  /\ room = [type |-> "ad_hoc", status |-> "cancelled", host |-> None,
             roster |-> [i \in Seats |-> None], seq |-> 1, uno |-> NoUno, between |-> FALSE]
  /\ away = [p \in Players |-> [ver |-> 0, active |-> FALSE, due |-> FALSE]]
  /\ game = NoGame
  /\ match = [wins |-> [p \in Players |-> 0], forfeits |-> {}, abandoned |-> FALSE, dealt |-> 0]
  /\ turn = 0 /\ skipped = {} /\ pile = <<>> /\ overdue = FALSE

TablesInit ==
  /\ TableInit
  /\ \/ part = "table" /\ RoomAtRest
     \/ part = "session" /\ Init

TablesNext ==
  \/ part = "table" /\ TableNext /\ UNCHANGED <<part, vars>>
  \/ part = "session" /\ Next /\ UNCHANGED <<part, tableVars>>

TablesSpec == TablesInit /\ [][TablesNext]_<<part, vars, tableVars>>
-----------------------------------------------------------------------------
(* While the engine's Uno window is open the room publishes it, so that a  *)
(* timer can expire it.  docs/03 (invariant 8) has every window that opens  *)
(* published with its expiresAt and opening sequence, docs/04 and docs/05   *)
(* have UnoWindowExpired emitted when the persisted deadline is reached.    *)
OpenWindowIsTimed ==
  Running(game) /\ game.window.open => room.uno.owner = game.window.owner

(* The player everybody waits for still sits in the room: he can act or     *)
(* reconnect, or the timers can skip him and forfeit his place.             *)
ActorIsSeated ==
  Running(game) => CurrentPlayer(game) \in Seated

(* A waiting ad-hoc room has a seated host, who alone may lock or cancel    *)
(* it: domain/room.go takes forfeits to happen after the lock only.         *)
WaitingRoomHasHost ==
  room.status = "waiting" /\ room.type = "ad_hoc" => room.host \in Seated

(* Between two games of an undecided match at least two players are left to *)
(* deal to; otherwise StartNextGame is refused for ever and the room stays  *)
(* in progress.                                                             *)
MatchCanGoOn ==
  room.status = "in_progress" /\ ~Running(game) => Cardinality(Seated) >= 2

(* docs/01-domain-glossary.md:11: a match contains up to three games.  The   *)
(* match ends when somebody has won two, so each player of a room may win    *)
(* one before that.                                                          *)
MatchHasThreeGames == match.dealt <= 3

(* A player who forfeits on his turn hands it to the next player in the     *)
(* direction of play, like every other way a turn ends:                     *)
(* docs/01-domain-glossary.md:26 has the direction in the turn order, and   *)
(* game.go has the remaining players continue.                              *)
ForfeitKeepsDirection ==
  [][part = "table" => \A p \in Ring(table) :
       (p = CurrentPlayer(table) /\ p \notin Ring(table') /\ Running(table')) =>
          Follows(table, p, CurrentPlayer(table'))]_tableVars
=============================================================================
