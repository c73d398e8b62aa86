------------------------------- MODULE UnoGame -------------------------------
(***************************************************************************)
(* One game of Uno as the engine plays it: players act whenever the engine *)
(* lets them, the room skips and forfeits whomever it likes, and the       *)
(* deadline of an Uno window may pass at any moment.                       *)
(***************************************************************************)
EXTENDS UnoEngine

(***************************************************************************)
(* TableDeals are the deals under study, as Game Integrity confirmed them. *)
(* They go to any players in any order of seats.                           *)
(***************************************************************************)
CONSTANT TableDeals

ASSUME TableAssumption ==
  \A d \in TableDeals : ProperDeal(d) /\ Len(d.hands) >= 2

VARIABLES table,    \* the game
          stock,    \* the deck of Game Integrity from its draw pointer on
          expired   \* the deadline of the last window opened has passed

tableVars == <<table, stock, expired>>

TableInit == table = NoGame /\ stock = <<>> /\ expired = FALSE

Start ==
  /\ table = NoGame
  /\ \E d \in TableDeals : \E seats \in Seatings(Len(d.hands)) :
        table' = DealtTo(d, seats) /\ stock' = d.deck
  /\ UNCHANGED expired

TakeFromStock(n) == n <= Len(stock) /\ stock' = DeckAfter(stock, n)

Commit(result) == table' = result.game

Play(p) ==
  \E c \in table.hands[p] :
    /\ CanPlay(table, p, c)
    /\ Commit(PlayCard(table, p, c))
    /\ expired' = (expired /\ "opened" \notin PlayCard(table, p, c).facts)
    /\ UNCHANGED stock

Draw(p) ==
  /\ CanDraw(table, p)
  /\ TakeFromStock(DrawCount(table))
  /\ Commit(DrawCard(table, p, NextCards(stock, DrawCount(table))))
  /\ UNCHANGED expired

Choose(p) ==
  /\ CanChoose(table, p)
  /\ \E col \in Colors : Commit(ChooseColor(table, p, col))
  /\ UNCHANGED <<stock, expired>>

Call(p) ==
  /\ CanCallUno(table, p, ~expired)
  /\ Commit(CallUno(table))
  /\ UNCHANGED <<stock, expired>>

Report(challenger, target) ==
  /\ CanReport(table, challenger, target, ~expired)
  /\ TakeFromStock(ReportPenalty)
  /\ Commit(ReportMissingUno(table, target, NextCards(stock, ReportPenalty)))
  /\ UNCHANGED expired

Skip(p) ==
  /\ CanSkip(table, p)
  /\ Commit(SkipTurn(table, p))
  /\ UNCHANGED <<stock, expired>>

Forfeit(p) ==
  /\ CanForfeit(table, p)
  /\ Commit(ForfeitPlayer(table, p))
  /\ UNCHANGED <<stock, expired>>

Expire(p) ==
  /\ CanExpire(table, p, ~expired)
  /\ Commit(ExpireUnoWindow(table))
  /\ UNCHANGED <<stock, expired>>

\* The environment: the clock reaches the deadline of the open window.
DeadlinePasses ==
  /\ table.window.open /\ ~expired
  /\ expired' = TRUE
  /\ UNCHANGED <<table, stock>>

TableNext ==
  \/ Start
  \/ \E p \in Players : Play(p) \/ Draw(p) \/ Choose(p) \/ Call(p)
                        \/ Skip(p) \/ Forfeit(p) \/ Expire(p)
  \/ \E p, q \in Players : Report(p, q)
  \/ DeadlinePasses

TableSpec == TableInit /\ [][TableNext]_tableVars
-----------------------------------------------------------------------------
(***************************************************************************)
(* Properties                                                              *)
(***************************************************************************)

(* Every part of the game stays in its set: no seat, index or card is      *)
(* invented by a command of game.go.                                       *)
TableTypeOK ==
  /\ table.seats \in UNION {[1 .. n -> Players] : n \in 1 .. Cardinality(Players)}
  /\ table.hands \in [Players -> SUBSET Cards]
  /\ table.discard \in Cards /\ table.active \in Colors /\ table.dir \in {1, -1}
  /\ table.current \in DOMAIN table.seats
  /\ table.chooser \in Players \cup {None} /\ table.target \in Players \cup {None}
  /\ table.amount \in Nat /\ table.winner \in Players \cup {None}
  /\ table.window \in [owner : Players \cup {None}, open : BOOLEAN]
  /\ table.completed \in BOOLEAN /\ table.abandoned \in BOOLEAN
  /\ stock \in Seq(Cards) /\ expired \in BOOLEAN

(* Whatever mixture of plays, skips and forfeits came before, a running    *)
(* game has two players or more, each seated once and holding a card, and  *)
(* everything it waits for - a colour, a penalty, the end of a window - is *)
(* waited for from a player still in the ring (game.go, ForfeitPlayer).    *)
RingSound ==
  Running(table) =>
    /\ Len(table.seats) >= 2 /\ NoRepeats(table.seats)
    /\ table.current \in DOMAIN table.seats
    /\ IF table.amount > 0 THEN table.target \in Ring(table) ELSE table.target = None
    /\ table.chooser # None => table.chooser \in Ring(table)
    /\ table.window.open => table.window.owner \in Ring(table)
    /\ \A p \in Ring(table) : table.hands[p] # {}

(* No card is ever in two places: not in two hands, not in a hand and in   *)
(* the deck, not in a hand or the deck while it lies on top of the discard.*)
CardsConserved ==
  /\ \A p, q \in Players : p # q => table.hands[p] \cap table.hands[q] = {}
  /\ \A p \in Players : table.hands[p] \cap (Elements(stock) \cup {table.discard}) = {}
  /\ table.discard \notin Elements(stock)
  /\ NoRepeats(stock)

(* CurrentPlayer, which the snapshots publish and SkipTurn trusts, is the  *)
(* one player the other commands wait for: nobody else may draw or choose, *)
(* and he may do one of them, so no running game waits for nobody.         *)
OneTurnHolder ==
  Running(table) =>
    {p \in Players : CanDraw(table, p) \/ CanChoose(table, p)} = {CurrentPlayer(table)}

(* The colour to follow is the colour that lies on top, unless a wild does:*)
(* no skip, forfeit or stacked card leaves them apart.                     *)
ColorFollowsDiscard ==
  ~IsWild(table.discard) => table.active = table.discard.color

(* A finished game has a real winner: somebody of the ring, who emptied    *)
(* his hand while everybody else still held cards, or who alone remained.  *)
WinnerIsReal ==
  table.completed =>
    /\ table.winner \in Ring(table)
    /\ table.abandoned <=> Ring(table) = {table.winner}
    /\ ~table.abandoned => \A p \in Ring(table) : table.hands[p] = {} <=> p = table.winner

-----------------------------------------------------------------------------
HandSize(g, p) == Cardinality(g.hands[p])

\* The players whose hands a step changed.
Acted == {p \in Players : table'.hands[p] # table.hands[p]}

(* A pending penalty only grows, by a card laid on it, until its target    *)
(* draws exactly what is owed; it is forgotten only when the game ends or  *)
(* when the target's turn is skipped or the target forfeits.               *)
PenaltyOnlyPaid ==
  [][table.amount > 0 /\ (table'.amount < table.amount \/ table'.target # table.target) =>
       \/ /\ table'.amount = table.amount + DrawValue(table'.discard)
          /\ table.discard \in Cards \ {table'.discard}
          /\ table'.target # table.target
       \/ /\ table'.amount = 0
          /\ \/ HandSize(table', table.target) = HandSize(table, table.target) + table.amount
             \/ table.target \notin Ring(table')
             \/ table'.completed
             \/ Acted = {} /\ CurrentPlayer(table) = table.target]_tableVars

(* The window closes as soon as the next player begins to act: while it    *)
(* stays open, nobody but its owner lays or draws a card, forfeits aside   *)
(* (docs/01-domain-glossary.md: the Uno window).                           *)
WindowClosesOnNextTurn ==
  [][table.window.open /\ table'.window = table.window =>
       \A p \in Acted : p = table.window.owner \/ p \notin Ring(table')]_tableVars

(* q sits next to p in the direction of play. *)
Follows(g, p, q) == (SeatOf(g, q) - SeatOf(g, p) - g.dir) % Len(g.seats) = 0

(* Whenever the turn moves inside an unchanged ring it moves to the        *)
(* neighbour, in the direction of play, of whoever acted - the jumper      *)
(* after a jump-in, the chooser after a wild - or past exactly one player  *)
(* when a skip was laid; it stays with a chooser, and with two players     *)
(* with whoever reversed.                                                  *)
TurnOrderKept ==
  [][(/\ Running(table') /\ table'.seats = table.seats
      /\ CurrentPlayer(table') # CurrentPlayer(table)) =>
       LET actor == IF Acted = {} THEN CurrentPlayer(table) ELSE CHOOSE p \in Acted : TRUE
           holder == CurrentPlayer(table')
           laid(face) == table'.discard # table.discard /\ table'.discard.face = face
       IN IF laid("skip")
          THEN \E p \in Ring(table) : Follows(table', actor, p) /\ Follows(table', p, holder)
          ELSE IF laid("wild") \/ laid("wild_draw_four") \/ (laid("reverse") /\ Len(table.seats) = 2)
          THEN holder = actor
          ELSE Follows(table', actor, holder)]_tableVars

(* Together: the invariant of a table, whatever was played on it since the *)
(* cards were dealt.                                                       *)
TableSound ==
  table # NoGame =>
    /\ TableTypeOK /\ RingSound /\ OneTurnHolder /\ CardsConserved
    /\ ColorFollowsDiscard /\ WinnerIsReal

(* And of its steps: turns, penalties and windows pass on in order.        *)
TurnsPassOn == PenaltyOnlyPaid /\ TurnOrderKept /\ WindowClosesOnNextTurn
=============================================================================
