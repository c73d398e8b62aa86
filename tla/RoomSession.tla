----------------------------- MODULE RoomSession -----------------------------
(***************************************************************************)
(* One Room: its lifecycle and roster (domain/room.go), and the Session    *)
(* that runs the games of its best-of-three match (domain/session.go,      *)
(* game/match.go).  The commands arrive one at a time and carry the        *)
(* current sequence number: the durable command path sees to both, and     *)
(* its own model is DurableRoom.  A rejected command, and one accepted     *)
(* without effect, leaves the Room as it is and is not an action here.     *)
(***************************************************************************)
EXTENDS UnoEngine

(***************************************************************************)
(* Deals are the deals Game Integrity may confirm; MaxSequence bounds the  *)
(* commands.                                                               *)
(***************************************************************************)
CONSTANTS MaxSeats, RoomTypes, Deals, MaxSequence

ASSUME RoomAssumption ==
  /\ MaxSeats \in Nat \ {0, 1} /\ MaxSequence \in Nat \ {0}
  /\ RoomTypes \subseteq {"ad_hoc", "tournament"}
  /\ \A d \in Deals : ProperDeal(d) /\ Len(d.hands) >= Cardinality(Players)

VARIABLES
  room,      \* type, status, host, roster, sequence, Uno window, game awaited
  away,      \* the disconnect episode of each player
  game,      \* the current or last game
  match,     \* games won, forfeits, how many games were dealt
  turn,      \* turnVersion: the sequence number at which the turn began
  skipped,   \* the turns already skipped, with their player
  pile,      \* the deck of the current game from its draw pointer on
  overdue    \* the deadline of the last Uno window opened has passed

vars == <<room, away, game, match, turn, skipped, pile, overdue>>

Seats == 1 .. MaxSeats

Terminal == {"completed", "cancelled"}

SeatedIn(roster) == Elements(roster) \ {None}
Seated == SeatedIn(room.roster)

Taken == {i \in Seats : room.roster[i] # None}

\* The seated players in the order of their seats.
SeatOrder ==
  [k \in 1 .. Cardinality(Taken) |->
     room.roster[CHOOSE i \in Taken : Cardinality({j \in Taken : j <= i}) = k]]

Lowest(seats) == CHOOSE i \in seats : \A j \in seats : i <= j

NoUno == [owner |-> None, at |-> 0]

(* CreateRoom and ProvisionTournamentRoom seat the host and commit at 1. *)
Init ==
  \E type \in RoomTypes, host \in Players :
    /\ room = [type |-> type, status |-> "waiting", host |-> host,
               roster |-> [i \in Seats |-> IF i = 1 THEN host ELSE None],
               seq |-> 1, uno |-> NoUno, between |-> FALSE]
    /\ away = [p \in Players |-> [ver |-> 0, active |-> FALSE, due |-> FALSE]]
    /\ game = NoGame
    /\ match = [wins |-> [p \in Players |-> 0], forfeits |-> {},
                abandoned |-> FALSE, dealt |-> 0]
    /\ turn = 0 /\ skipped = {} /\ pile = <<>> /\ overdue = FALSE
-----------------------------------------------------------------------------
(***************************************************************************)
(* Lifecycle and roster: these commands leave game and match alone.        *)
(***************************************************************************)
gameVars == <<game, match, turn, skipped, pile, overdue>>

Advance(changed) ==
  /\ room.seq < MaxSequence
  /\ room' = [changed EXCEPT !.seq = room.seq + 1]

(* AsSystem is set for the orchestrator of the tournament only. *)
BySystem == room.type = "tournament"

JoinRoom(p) ==
  LET free == {i \in Seats : room.roster[i] = None}
  IN /\ room.status = "waiting" /\ p \notin Seated /\ free # {}
     /\ Advance([room EXCEPT !.roster[Lowest(free)] = p])
     /\ UNCHANGED <<away, gameVars>>

SeatCleared(p) ==
  [room EXCEPT !.roster = [i \in Seats |-> IF @[i] = p THEN None ELSE @[i]]]

(***************************************************************************)
(* LeaveRoom empties the seat at any time before the end.  Only the host   *)
(* of a waiting ad-hoc room is replaced, by the lowest seat; an empty room *)
(* is cancelled then.  The ring of a running game is not touched.          *)
(***************************************************************************)
HostLeft(r) ==
  LET taken == {i \in Seats : r.roster[i] # None}
  IN IF taken # {} THEN [r EXCEPT !.host = r.roster[Lowest(taken)]]
     ELSE [r EXCEPT !.status = "cancelled", !.host = None]

LeaveRoom(p) ==
  LET reassigns == room.host = p /\ room.status = "waiting" /\ room.type = "ad_hoc"
      left      == SeatCleared(p)
  IN /\ room.status \notin Terminal /\ p \in Seated
     /\ Advance(IF reassigns THEN HostLeft(left) ELSE left)
     /\ away' = [away EXCEPT ![p].active = FALSE]
     /\ UNCHANGED gameVars

LockRoom(actor) ==
  /\ room.status = "waiting" /\ (actor = room.host \/ BySystem)
  /\ Cardinality(Seated) >= 2
  /\ Advance([room EXCEPT !.status = "locked"])
  /\ UNCHANGED <<away, gameVars>>

CancelRoom(actor) ==
  /\ room.status = "waiting" /\ (actor = room.host \/ BySystem)
  /\ Advance([room EXCEPT !.status = "cancelled"])
  /\ UNCHANGED <<away, gameVars>>

DisconnectPlayer(p) ==
  /\ room.status \notin Terminal /\ p \in Seated
  /\ Advance(room)
  /\ away' = [away EXCEPT ![p] = [ver |-> @.ver + 1, active |-> TRUE, due |-> FALSE]]
  /\ UNCHANGED gameVars

ReconnectPlayer(p, ver) ==
  /\ room.status \notin Terminal
  /\ away[p].active /\ away[p].ver = ver /\ ~away[p].due
  /\ Advance(room)
  /\ away' = [away EXCEPT ![p].active = FALSE]
  /\ UNCHANGED gameVars
-----------------------------------------------------------------------------
(***************************************************************************)
(* The match: two wins decide it, and so does an abandoned game.           *)
(***************************************************************************)
Decided(m) == m.abandoned \/ \E p \in Players : m.wins[p] >= 2

\* Mutant: an abandoned game has no winner.
ScoredUnlessAbandoned(m, g) ==
  IF g.abandoned THEN [m EXCEPT !.abandoned = TRUE]
  ELSE [m EXCEPT !.wins[g.winner] = IF \E p \in Players : m.wins[p] >= 2 THEN @ ELSE @ + 1]

Scored(m, g) ==
  [m EXCEPT !.abandoned = @ \/ g.abandoned,
            !.wins[g.winner] = IF \E p \in Players : m.wins[p] >= 2 THEN @ ELSE @ + 1]

(* attachGame: a game of the seated players replaces the last one. *)
BeginGame(changed) ==
  /\ Cardinality(Seated) >= 2
  /\ Advance([changed EXCEPT !.between = FALSE, !.uno = NoUno])
  /\ \E d \in Deals : game' = DealtTo(d, SeatOrder) /\ pile' = d.deck
  /\ match' = [match EXCEPT !.dealt = @ + 1]
  /\ turn' = room.seq + 1
  /\ UNCHANGED <<away, skipped, overdue>>

StartMatch(actor) ==
  /\ room.status = "locked"
  /\ (actor = room.host /\ actor \in Seated) \/ BySystem
  /\ BeginGame([room EXCEPT !.status = "in_progress"])

StartNextGame ==
  /\ room.status = "in_progress" /\ ~Decided(match)
  /\ ~Running(game) /\ room.between
  /\ BeginGame(room)

(***************************************************************************)
(* What the session makes of an accepted engine command.  The room's own   *)
(* window is opened first and closed after: a command that does both, or   *)
(* that resolves the window, leaves it closed.                             *)
(***************************************************************************)
RoomUno(result, resolves) ==
  IF resolves \/ result.facts \cap {"closed", "done"} # {} THEN NoUno
  ELSE IF "opened" \in result.facts
       THEN [owner |-> result.game.window.owner, at |-> room.seq + 1]
       ELSE room.uno

\* Mutant: only the end of a game starts a new turnVersion.
TurnAfterGame(result) == IF "done" \in result.facts THEN room.seq + 1 ELSE turn

TurnAfter(result) ==
  IF result.facts \cap {"advanced", "done"} # {} THEN room.seq + 1 ELSE turn

CommitGame(result, changed, m, resolves) ==
  LET done   == "done" \in result.facts
      scored == IF done THEN Scored(m, result.game) ELSE m
  IN /\ game' = result.game
     /\ match' = scored
     /\ Advance([changed EXCEPT
                   !.uno = RoomUno(result, resolves),
                   !.between = @ \/ done,
                   !.status = IF done /\ Decided(scored) THEN "completed" ELSE @])
     /\ turn' = TurnAfter(result)
     /\ overdue' = (overdue /\ "opened" \notin result.facts)
-----------------------------------------------------------------------------
(***************************************************************************)
(* Gameplay: a seated player who is not away, in a match in progress.      *)
(***************************************************************************)
MayPlay(p) == room.status = "in_progress" /\ p \in Seated /\ ~away[p].active

TakeFromPile(n) == n <= Len(pile) /\ pile' = DeckAfter(pile, n)

SessionPlay(p) ==
  /\ MayPlay(p)
  /\ \E c \in game.hands[p] :
        CanPlay(game, p, c) /\ CommitGame(PlayCard(game, p, c), room, match, FALSE)
  /\ UNCHANGED <<away, skipped, pile>>

SessionDraw(p) ==
  /\ MayPlay(p) /\ CanDraw(game, p) /\ TakeFromPile(DrawCount(game))
  /\ CommitGame(DrawCard(game, p, NextCards(pile, DrawCount(game))), room, match, FALSE)
  /\ UNCHANGED <<away, skipped>>

SessionChoose(p) ==
  /\ MayPlay(p) /\ CanChoose(game, p)
  /\ \E col \in Colors : CommitGame(ChooseColor(game, p, col), room, match, FALSE)
  /\ UNCHANGED <<away, skipped, pile>>

SessionCallUno(p) ==
  /\ MayPlay(p) /\ CanCallUno(game, p, ~overdue)
  /\ CommitGame(CallUno(game), room, match, TRUE)
  /\ UNCHANGED <<away, skipped, pile>>

SessionReport(p, target) ==
  /\ MayPlay(p) /\ CanReport(game, p, target, ~overdue) /\ TakeFromPile(ReportPenalty)
  /\ CommitGame(ReportMissingUno(game, target, NextCards(pile, ReportPenalty)), room, match, TRUE)
  /\ UNCHANGED <<away, skipped>>

(* The timer names the room's window; the engine must have it open too.    *)
SessionExpireUno(p) ==
  /\ room.uno.owner = p /\ p # None /\ overdue
  /\ CanExpire(game, p, ~overdue)
  /\ CommitGame(ExpireUnoWindow(game), room, match, TRUE)
  /\ UNCHANGED <<away, skipped, pile>>
-----------------------------------------------------------------------------
(***************************************************************************)
(* Absence: the turn of an absent player is skipped, once per turn; when   *)
(* his deadline has passed he forfeits his seat, and his place in the ring *)
(* if a game is running.                                                   *)
(***************************************************************************)
SkipDisconnectedTurn(p) ==
  /\ room.status = "in_progress" /\ Running(game) /\ away[p].active
  /\ <<p, turn>> \notin skipped
  /\ CanSkip(game, p)
  /\ skipped' = skipped \cup {<<p, turn>>}
  /\ CommitGame(SkipTurn(game, p), room, match, FALSE)
  /\ UNCHANGED <<away, pile>>

SessionForfeit(p, ver) ==
  LET noted == IF match.dealt > 0 THEN [match EXCEPT !.forfeits = @ \cup {p}] ELSE match
  IN /\ room.status \notin Terminal
     /\ away[p].active /\ away[p].ver = ver /\ away[p].due
     /\ IF Running(game)
        THEN /\ CanForfeit(game, p)
             /\ CommitGame(ForfeitPlayer(game, p), SeatCleared(p), noted, FALSE)
        ELSE /\ Advance(SeatCleared(p)) /\ match' = noted
             /\ UNCHANGED <<game, turn, overdue>>
     /\ away' = [away EXCEPT ![p].active = FALSE]
     /\ UNCHANGED <<skipped, pile>>

(* The environment: a deadline is reached. *)
UnoDeadlinePasses ==
  /\ game.window.open /\ ~overdue
  /\ overdue' = TRUE
  /\ UNCHANGED <<room, away, game, match, turn, skipped, pile>>

ReconnectDeadlinePasses(p) ==
  /\ away[p].active /\ ~away[p].due
  /\ away' = [away EXCEPT ![p].due = TRUE]
  /\ UNCHANGED <<room, gameVars>>

Next ==
  \/ \E p \in Players :
       \/ JoinRoom(p) \/ LeaveRoom(p) \/ LockRoom(p) \/ CancelRoom(p) \/ StartMatch(p)
       \/ DisconnectPlayer(p) \/ ReconnectDeadlinePasses(p) \/ SkipDisconnectedTurn(p)
       \/ \E ver \in 1 .. away[p].ver : ReconnectPlayer(p, ver) \/ SessionForfeit(p, ver)
       \/ SessionPlay(p) \/ SessionDraw(p) \/ SessionChoose(p)
       \/ SessionCallUno(p) \/ SessionExpireUno(p)
       \/ \E q \in Players : SessionReport(p, q)
  \/ StartNextGame
  \/ UnoDeadlinePasses

Spec == Init /\ [][Next]_vars
-----------------------------------------------------------------------------
(***************************************************************************)
(* Properties                                                              *)
(***************************************************************************)

(* The Room's own state keeps its shape, and nothing it refers to lies in  *)
(* its future.                                                             *)
TypeOK ==
  /\ room.type \in RoomTypes
  /\ room.status \in {"waiting", "locked", "in_progress"} \cup Terminal
  /\ room.host \in Players \cup {None} /\ room.seq \in 1 .. MaxSequence
  /\ room.roster \in [Seats -> Players \cup {None}]
  /\ room.uno \in [owner : Players \cup {None}, at : 0 .. room.seq]
  /\ room.between \in BOOLEAN /\ overdue \in BOOLEAN
  /\ away \in [Players -> [ver : 0 .. room.seq, active : BOOLEAN, due : BOOLEAN]]
  /\ match.wins \in [Players -> 0 .. 2] /\ match.forfeits \subseteq Players
  /\ match.dealt \in 0 .. Cardinality(Players) + 1
  /\ turn \in 0 .. room.seq /\ skipped \subseteq Players \X (0 .. room.seq)

(* No player sits twice, and whoever sits while a game runs is in its ring *)
(* - the seats are frozen by the lock (domain/room.go, JoinRoom).          *)
SeatedPlays ==
  /\ \A i, j \in Seats : room.roster[i] = room.roster[j] /\ room.roster[i] # None => i = j
  /\ Running(game) => Seated \subseteq Ring(game)

(* The Uno window the room publishes, with its deadline and sequence       *)
(* number, is open in the engine, for the same player, who is still in.    *)
RoomWindowIsReal ==
  room.uno # NoUno =>
    /\ room.status = "in_progress" /\ Running(game)
    /\ game.window.open /\ game.window.owner = room.uno.owner
    /\ room.uno.owner \in Ring(game)

\* The games won so far: the first of a player, his second.
GamesWon == {w \in Players \X (1 .. 2) : w[2] <= match.wins[w[1]]}

(* Every finished game is scored once and decides the room at two wins or  *)
(* on abandonment; no game is dealt after that.                            *)
MatchScored ==
  /\ Cardinality(GamesWon) = match.dealt - (IF Running(game) THEN 1 ELSE 0)
  /\ room.status = "completed" <=> Decided(match)
  /\ room.between <=> match.dealt > 0 /\ ~Running(game)

(* A player who forfeited neither sits nor plays again in this match.      *)
ForfeitedStaysOut ==
  /\ match.forfeits \cap Seated = {}
  /\ Running(game) => match.forfeits \cap Ring(game) = {}

(* The turn of the player to act can always be skipped when he goes away:  *)
(* the memory of earlier skips never takes it for one of them.             *)
TurnNotYetSkipped ==
  Running(game) => <<CurrentPlayer(game), turn>> \notin skipped

(* The sequence number names the state: whatever a client may act upon     *)
(* changes together with it, by one, and never without it.                 *)
Visible == <<[room EXCEPT !.seq = 0], game, match, turn, skipped,
             [p \in Players |-> <<away[p].ver, away[p].active>>]>>

SequenceNamesState ==
  [][IF Visible' = Visible THEN room'.seq \in {room.seq, room.seq + 1}
     ELSE room'.seq = room.seq + 1]_vars

(* turnVersion names the turn: as long as it stays, the same player is to  *)
(* act, so a skip decided for it cannot hit somebody else.                 *)
TurnVersionNamesTurn ==
  [][(turn' = turn /\ Running(game) /\ Running(game')) =>
        CurrentPlayer(game') = CurrentPlayer(game)]_vars

(* A completed or cancelled room is final: no late command, timer or skip  *)
(* changes it.                                                             *)
TerminalIsFinal ==
  [][room.status \in Terminal => room' = room /\ Visible' = Visible]_vars

(* Together: who sits, who plays, how games are scored, and what the room  *)
(* tells of its engine.                                                    *)
SessionSound ==
  /\ TypeOK /\ MatchScored /\ ForfeitedStaysOut /\ SeatedPlays
  /\ RoomWindowIsReal /\ TurnNotYetSkipped

(* And of its steps: numbers name what clients and timers act upon.        *)
StepsAreNamed == SequenceNamesState /\ TurnVersionNamesTurn /\ TerminalIsFinal
=============================================================================
