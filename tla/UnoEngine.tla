------------------------------ MODULE UnoEngine ------------------------------
(***************************************************************************)
(* The rules of the pure game engine of Room Gameplay                      *)
(* (services/room-gameplay/src/game).  A game is a value; every command of *)
(* game.go is a guard and the Result it commits: the next game and the     *)
(* facts the session reacts to.  A rejected command changes nothing and    *)
(* has no result here.  Hands are sets: a card has an identity and the     *)
(* engine never asks for the order of a hand.                              *)
(*                                                                         *)
(* Left out: the game's own sequence number and outcome memo (the session  *)
(* always submits the current one), placements and card points, and the    *)
(* effects of the first discard (Game Integrity never asks for them).      *)
(***************************************************************************)
EXTENDS Integers, FiniteSets, Sequences

CONSTANTS Players, Cards, Colors, None

(***************************************************************************)
(* Cards carry a face and a colour; both wilds have a colour of their own. *)
(* Game Integrity announces red when the first discard is wild.            *)
(***************************************************************************)
ASSUME CardsAssumption ==
  /\ "red" \in Colors
  /\ None \notin Players
  /\ IsFiniteSet(Players) /\ IsFiniteSet(Cards)
  /\ \A c \in Cards : c.color \in Colors <=> c.face \notin {"wild", "wild_draw_four"}

Elements(s) == {s[i] : i \in DOMAIN s}

NoRepeats(s) == \A i, j \in DOMAIN s : s[i] = s[j] => i = j

IsWild(c) == c.face \in {"wild", "wild_draw_four"}

DrawValue(c) == CASE c.face = "draw_two" -> 2
                  [] c.face = "wild_draw_four" -> 4
                  [] OTHER -> 0

\* Two wilds never match.
ExactMatch(c, d) == ~IsWild(c) /\ ~IsWild(d) /\ c.color = d.color /\ c.face = d.face

CanPlayOrdinary(c, top, active) ==
  \/ IsWild(c)
  \/ c.color = active
  \/ ~IsWild(top) /\ c.face = top.face

WildDrawFourLegal(hand, active, c) ==
  \A d \in hand \ {c} : ~IsWild(d) => d.color # active
-----------------------------------------------------------------------------
(***************************************************************************)
(* The game.  seats is the ring of players still in the game; current is   *)
(* an index into it; chooser is the player who owes a colour; target owes  *)
(* the penalty of amount cards; window is the Uno challenge window.        *)
(***************************************************************************)
NoWindow == [owner |-> None, open |-> FALSE]

Ring(g) == Elements(g.seats)

SeatOf(g, p) == CHOOSE i \in DOMAIN g.seats : g.seats[i] = p

\* Mutant: the direction of play is forgotten.
NextIndexForward(g, from) == (from % Len(g.seats)) + 1

\* Go's 0-based (from + dir + n) % n, on 1-based seats.
NextIndex(g, from) == ((from - 1 + g.dir + Len(g.seats)) % Len(g.seats)) + 1

CurrentPlayer(g) ==
  IF g.chooser # None THEN g.chooser
  ELSE IF g.amount > 0 /\ g.target # None THEN g.target
  ELSE g.seats[g.current]

Running(g) == ~g.completed

StartGame(seats, hands, top) ==
  [seats |-> seats, hands |-> hands, discard |-> top,
   active |-> IF IsWild(top) THEN "red" ELSE top.color,
   dir |-> 1, current |-> 1, chooser |-> None, amount |-> 0, target |-> None,
   window |-> NoWindow, completed |-> FALSE, abandoned |-> FALSE, winner |-> None]

(* s.game = nil behaves like a game that is over. *)
NoGame == [StartGame(<<>>, [p \in Players |-> {}], CHOOSE c \in Cards : TRUE)
             EXCEPT !.completed = TRUE]

(***************************************************************************)
(* A deal of Game Integrity: hands by seat, the first discard and the rest *)
(* of the deck, no card in two places.                                     *)
(***************************************************************************)
ProperDeal(d) ==
  /\ d.hands \in Seq(SUBSET Cards) /\ d.top \in Cards
  /\ d.deck \in Seq(Cards) /\ NoRepeats(d.deck) /\ d.top \notin Elements(d.deck)
  /\ \A i \in DOMAIN d.hands :
        /\ d.hands[i] # {} /\ d.hands[i] \cap (Elements(d.deck) \cup {d.top}) = {}
        /\ \A j \in DOMAIN d.hands \ {i} : d.hands[i] \cap d.hands[j] = {}

Seatings(n) == {seats \in [1 .. n -> Players] : NoRepeats(seats)}

DealtTo(d, seats) ==
  StartGame(seats,
            [p \in Players |-> IF p \in Elements(seats)
                               THEN d.hands[CHOOSE i \in DOMAIN seats : seats[i] = p] ELSE {}],
            d.top)

Result(g, facts) == [game |-> g, facts |-> facts]

\* The fact f when the condition holds.
FactIf(cond, f) == IF cond THEN {f} ELSE {}

(***************************************************************************)
(* A window closes when another player begins to act.                      *)
(***************************************************************************)
ClosesOnTurn(g, acting) == g.window.open /\ g.window.owner # acting

CloseOnTurn(g, acting) ==
  [g EXCEPT !.window.open = @ /\ g.window.owner = acting]

Finish(g, winner) ==
  [g EXCEPT !.completed = TRUE, !.amount = 0, !.target = None, !.chooser = None,
            !.window.open = FALSE, !.winner = winner]

\* Mutant: the penalty is kept.
ClearColorOnly(g, p) == [g EXCEPT !.chooser = IF @ = p THEN None ELSE @]

\* What p owes - a colour, a penalty - is forgotten.
ClearDebts(g, p) ==
  [g EXCEPT !.chooser = IF @ = p THEN None ELSE @,
            !.amount = IF g.target = p THEN 0 ELSE @,
            !.target = IF @ = p THEN None ELSE @]
-----------------------------------------------------------------------------
(***************************************************************************)
(* The deck of Game Integrity, from its draw pointer on: shuffled once and *)
(* never refilled; the next n cards leave together.                        *)
(***************************************************************************)
NextCards(deck, n) == Elements(SubSeq(deck, 1, n))

DeckAfter(deck, n) == SubSeq(deck, n + 1, Len(deck))
-----------------------------------------------------------------------------
(***************************************************************************)
(* PlayCard: on turn, stacked on a pending penalty, or jumped in.          *)
(***************************************************************************)
LegalOnTurn(g, p, c) ==
  IF c.face = "wild_draw_four" THEN WildDrawFourLegal(g.hands[p], g.active, c)
  ELSE CanPlayOrdinary(c, g.discard, g.active)

CanStack(g, p, c) == DrawValue(c) > 0 /\ LegalOnTurn(g, p, c)

CanPlay(g, p, c) ==
  /\ Running(g) /\ p \in Ring(g) /\ c \in g.hands[p] /\ g.chooser = None
  /\ \/ g.amount > 0 /\ p = g.target /\ CanStack(g, p, c)
     \/ g.amount = 0 /\ p # g.seats[g.current] /\ ExactMatch(c, g.discard)
     \/ g.amount = 0 /\ p = g.seats[g.current] /\ LegalOnTurn(g, p, c)

\* The card moves to the discard and, unless it is wild, sets the colour.
Lay(g, p, c) ==
  [g EXCEPT !.hands[p] = @ \ {c}, !.discard = c,
            !.active = IF IsWild(c) THEN @ ELSE c.color]

(***************************************************************************)
(* What the card does once it lies there: applyStack when a penalty is     *)
(* pending, applyCardEffects otherwise.  They differ in one thing: a       *)
(* stacked Wild Draw Four has already moved the turn to its target.        *)
(***************************************************************************)
CardEffects(g, p, c) ==
  LET seat   == SeatOf(g, p)
      next   == NextIndex(g, seat)
      raised == [g EXCEPT !.amount = @ + DrawValue(c), !.target = g.seats[next]]
      turned == [g EXCEPT !.dir = -@]
  IN CASE c.face = "wild" -> [g EXCEPT !.chooser = p, !.current = seat]
       [] c.face = "wild_draw_four" ->
            [raised EXCEPT !.chooser = p, !.current = IF g.amount > 0 THEN next ELSE seat]
       [] c.face = "draw_two" -> [raised EXCEPT !.current = next]
       [] c.face = "skip" -> [g EXCEPT !.current = NextIndex(g, next)]
       [] c.face = "reverse" ->
            [turned EXCEPT !.current = IF Len(g.seats) = 2 THEN seat ELSE NextIndex(turned, seat)]
       [] OTHER -> [g EXCEPT !.current = next]

PlayCard(g, p, c) ==
  LET played == CardEffects(Lay(CloseOnTurn(g, p), p, c), p, c)
      left   == Cardinality(played.hands[p])
      opened == IF left = 1 THEN [played EXCEPT !.window = [owner |-> p, open |-> TRUE]]
                ELSE played
  IN Result(IF left = 0 THEN Finish(opened, p) ELSE opened,
            FactIf(ClosesOnTurn(g, p), "closed") \cup FactIf(left = 1, "opened")
              \cup FactIf(~IsWild(c), "advanced") \cup FactIf(left = 0, "done"))
-----------------------------------------------------------------------------
(***************************************************************************)
(* DrawCard: one card on turn, or exactly the pending penalty.  A drawn    *)
(* card that could be played keeps the turn.                               *)
(***************************************************************************)
DrawCount(g) == IF g.amount > 0 THEN g.amount ELSE 1

CanDraw(g, p) ==
  /\ Running(g) /\ p \in Ring(g) /\ g.chooser = None
  /\ p = IF g.amount > 0 THEN g.target ELSE g.seats[g.current]

DrawCard(g, p, drawn) ==
  LET got     == [CloseOnTurn(g, p) EXCEPT !.hands[p] = @ \cup drawn]
      retains == g.amount = 0 /\ \E c \in drawn : LegalOnTurn(got, p, c)
      passed  == [got EXCEPT !.amount = 0, !.target = None,
                             !.current = NextIndex(g, SeatOf(g, p))]
  IN Result(IF retains THEN got ELSE passed,
            FactIf(ClosesOnTurn(g, p), "closed") \cup FactIf(~retains, "advanced"))

(***************************************************************************)
(* ChooseColor settles a pending wild; the window, if any, stays open.     *)
(***************************************************************************)
CanChoose(g, p) == Running(g) /\ g.chooser # None /\ p = g.chooser

ChooseColor(g, p, col) ==
  LET next == IF g.amount > 0 THEN SeatOf(g, g.target) ELSE NextIndex(g, SeatOf(g, p))
  IN Result([g EXCEPT !.active = col, !.chooser = None, !.current = next], {"advanced"})

(***************************************************************************)
(* The Uno window: called by its owner, reported by anybody seated, or     *)
(* expired; the caller decides whether its deadline has passed.            *)
(***************************************************************************)
CanCallUno(g, p, timely) == Running(g) /\ g.window.open /\ g.window.owner = p /\ timely

CallUno(g) == Result([g EXCEPT !.window.open = FALSE], {})

CanReport(g, challenger, target, timely) ==
  /\ Running(g) /\ challenger \in Ring(g) /\ target \in Ring(g)
  /\ g.window.open /\ g.window.owner = target /\ timely

ReportPenalty == 2

ReportMissingUno(g, target, drawn) ==
  Result([g EXCEPT !.hands[target] = @ \cup drawn, !.window.open = FALSE], {})

CanExpire(g, p, timely) == Running(g) /\ g.window.owner = p /\ g.window.open /\ ~timely

ExpireUnoWindow(g) == Result([g EXCEPT !.window.open = FALSE], {})
-----------------------------------------------------------------------------
(***************************************************************************)
(* SkipTurn: the turn of an absent player passes; his colour stays         *)
(* unchosen and the penalty he owed is forgotten.  A colour pending when   *)
(* he may be skipped is his own.                                           *)
(***************************************************************************)
CanSkip(g, p) == Running(g) /\ p \in Ring(g) /\ p = CurrentPlayer(g)

SkipTurn(g, p) ==
  LET index == NextIndex(g, SeatOf(g, p))
      next  == g.seats[index]
  IN Result([CloseOnTurn(ClearDebts(g, p), next) EXCEPT !.current = index],
            {"advanced"} \cup FactIf(ClosesOnTurn(g, next), "closed"))

(***************************************************************************)
(* ForfeitPlayer: the player leaves the ring with his hand and everything  *)
(* he owed.  One player left wins an abandoned game.                       *)
(***************************************************************************)
CanForfeit(g, p) == Running(g) /\ p \in Ring(g)

Without(s, i) == [j \in 1 .. Len(s) - 1 |-> IF j < i THEN s[j] ELSE s[j + 1]]

\* The index of the player to act in the ring s, once seat i is gone.
CurrentWithout(s, i, current) ==
  LET moved == IF i < current THEN current - 1 ELSE current
  IN IF moved > Len(s) THEN 1 ELSE moved

ForfeitPlayer(g, p) ==
  LET seat     == SeatOf(g, p)
      rest     == Without(g.seats, seat)
      ownsOpen == g.window.open /\ g.window.owner = p
      removed  == [ClearDebts(g, p) EXCEPT
                     !.window.open = @ /\ ~ownsOpen,
                     !.hands[p] = {},
                     !.seats = rest,
                     !.current = CurrentWithout(rest, seat, @)]
      next     == removed.seats[removed.current]
      acting   == CurrentPlayer(g) = p
  IN CASE Len(rest) = 1 ->
            Result([Finish(removed, rest[1]) EXCEPT !.abandoned = TRUE],
                   FactIf(ownsOpen, "closed") \cup {"done"})
       [] Len(rest) # 1 /\ acting ->
            Result(CloseOnTurn(removed, next),
                   {"advanced"} \cup FactIf(ownsOpen \/ ClosesOnTurn(removed, next), "closed"))
       [] Len(rest) # 1 /\ ~acting -> Result(removed, FactIf(ownsOpen, "closed"))
=============================================================================
