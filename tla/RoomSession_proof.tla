-------------------------- MODULE RoomSession_proof --------------------------
(***************************************************************************)
(* What the rules of the engine guarantee at any table (UnoGame): any      *)
(* number of players, any finite set of cards, any proper deal, any        *)
(* mixture of plays, skips, forfeits and challenges.  Then what a Room and *)
(* its match add to them (RoomSession).                                    *)
(***************************************************************************)
EXTENDS RoomSession, UnoGame, SequenceTheorems, FiniteSetTheorems, TLAPS

\* What the fields of a game hold.
Game ==
    [seats : Seq(Players), hands : [Players -> SUBSET Cards],
     discard : Cards, active : Colors, dir : {1, -1}, current : Nat,
     chooser : Players \cup {None}, amount : Nat, target : Players \cup {None},
     window : [owner : Players \cup {None}, open : BOOLEAN],
     completed : BOOLEAN, abandoned : BOOLEAN, winner : Players \cup {None}]

\* Each player has one seat, and the index names one of them.
InOrder(g) == NoRepeats(g.seats) /\ g.current \in DOMAIN g.seats

\* q sits next to p in the direction of play.
Neighbour(g, p) == g.seats[NextIndex(g, SeatOf(g, p))]

\* Who owes a colour laid a wild; the penalty that came with it is his neighbour's.
DebtsAreReal(g) ==
    /\ IF g.amount > 0 THEN g.target \in Ring(g) ELSE g.target = None
    /\ g.chooser # None =>
         /\ g.chooser \in Ring(g) /\ IsWild(g.discard)
         /\ g.amount > 0 => g.target = Neighbour(g, g.chooser)

\* A game that goes on.
InPlay(g) ==
    /\ Len(g.seats) >= 2 /\ ~g.abandoned /\ DebtsAreReal(g)
    /\ g.window.open => g.window.owner \in Ring(g)
    /\ \A p \in Ring(g) : g.hands[p] # {}

\* A game that is over.
Won(g) ==
    /\ g.winner \in Ring(g)
    /\ g.abandoned <=> Ring(g) = {g.winner}
    /\ ~g.abandoned => \A p \in Ring(g) : g.hands[p] = {} <=> p = g.winner

Follow(g) == ~IsWild(g.discard) => g.active = g.discard.color

GameSound(g) ==
    /\ g \in Game /\ InOrder(g) /\ Follow(g)
    /\ IF g.completed THEN Won(g) ELSE InPlay(g)

Conserved(g, s) ==
    /\ \A p, q \in Players : p # q => g.hands[p] \cap g.hands[q] = {}
    /\ \A p \in Players : g.hands[p] \cap (Elements(s) \cup {g.discard}) = {}
    /\ g.discard \notin Elements(s)
    /\ NoRepeats(s)

Healthy(g, s) == GameSound(g) /\ Conserved(g, s) /\ s \in Seq(Cards)

InGame == Healthy(table, stock) /\ expired \in BOOLEAN

IInv == InGame \/ (table = NoGame /\ expired = FALSE)

-----------------------------------------------------------------------------
(* Seats                                                                   *)

LEMMA SeatOfPlayer ==
    ASSUME NEW g, g.seats \in Seq(Players), NEW p \in Ring(g)
    PROVE  /\ p \in Players
           /\ SeatOf(g, p) \in DOMAIN g.seats
           /\ g.seats[SeatOf(g, p)] = p
BY DEF Ring, Elements, SeatOf

LEMMA SeatIsUnique ==
    ASSUME NEW g, g.seats \in Seq(Players), NoRepeats(g.seats), NEW i \in DOMAIN g.seats
    PROVE  /\ g.seats[i] \in Ring(g)
           /\ SeatOf(g, g.seats[i]) = i
<1>1. g.seats[i] \in Ring(g)
  BY DEF Ring, Elements
<1>2. SeatOf(g, g.seats[i]) \in DOMAIN g.seats /\ g.seats[SeatOf(g, g.seats[i])] = g.seats[i]
  BY <1>1, SeatOfPlayer
<1> QED BY <1>1, <1>2 DEF NoRepeats

\* The index that follows k, in the direction of play, among n seats.
After(n, dir, k) ==
    IF dir = 1 THEN IF k = n THEN 1 ELSE k + 1 ELSE IF k = 1 THEN n ELSE k - 1

LEMMA AfterIsModular ==
    ASSUME NEW n \in Nat, n >= 1, NEW k \in 1 .. n, NEW dir \in {1, -1}
    PROVE  /\ ((k - 1 + dir + n) % n) + 1 = After(n, dir, k)
           /\ After(n, dir, k) \in 1 .. n
           /\ (After(n, dir, k) - k - dir) % n = 0
<1>1. CASE dir = 1 /\ k = n
  <2>1. k - 1 + dir + n = n + n /\ (n + n) % n = 0
    BY <1>1
  <2>2. 1 - n - 1 = -n /\ (-n) % n = 0
    OBVIOUS
  <2> QED BY <1>1, <2>1, <2>2 DEF After
<1>2. CASE dir = 1 /\ k # n
  <2>1. k - 1 + dir + n = k + n /\ (k + n) % n = k
    BY <1>2
  <2>2. k + 1 - k - 1 = 0 /\ 0 % n = 0
    OBVIOUS
  <2> QED BY <1>2, <2>1, <2>2 DEF After
<1>3. CASE dir = -1 /\ k = 1
  <2>1. k - 1 + dir + n = n - 1 /\ (n - 1) % n = n - 1
    BY <1>3
  <2>2. n - 1 - (-1) = n /\ n % n = 0
    OBVIOUS
  <2> QED BY <1>3, <2>1, <2>2 DEF After
<1>4. CASE dir = -1 /\ k # 1
  <2>1. k - 1 + dir + n = (k - 2) + n /\ ((k - 2) + n) % n = k - 2
    BY <1>4
  <2>2. k - 1 - k - (-1) = 0 /\ 0 % n = 0
    OBVIOUS
  <2> QED BY <1>4, <2>1, <2>2 DEF After
<1> QED BY <1>1, <1>2, <1>3, <1>4

LEMMA NextIndexIsAfter ==
    ASSUME NEW g, g.seats \in Seq(Players), g.dir \in {1, -1}, NEW k \in DOMAIN g.seats
    PROVE  /\ NextIndex(g, k) = After(Len(g.seats), g.dir, k)
           /\ NextIndex(g, k) \in DOMAIN g.seats
           /\ (NextIndex(g, k) - k - g.dir) % Len(g.seats) = 0
<1>1. Len(g.seats) \in Nat /\ DOMAIN g.seats = 1 .. Len(g.seats) /\ Len(g.seats) >= 1
  OBVIOUS
<1> QED BY <1>1, AfterIsModular DEF NextIndex

\* With two seats or more nobody is his own neighbour.
LEMMA AfterIsOther ==
    ASSUME NEW n \in Nat, n >= 2, NEW k \in 1 .. n, NEW dir \in {1, -1}
    PROVE  After(n, dir, k) # k
BY DEF After

LEMMA NeighbourIsNext ==
    ASSUME NEW g, g.seats \in Seq(Players), NoRepeats(g.seats), g.dir \in {1, -1},
           NEW p \in Ring(g)
    PROVE  /\ Neighbour(g, p) \in Ring(g)
           /\ SeatOf(g, Neighbour(g, p)) = NextIndex(g, SeatOf(g, p))
           /\ Follows(g, p, Neighbour(g, p))
           /\ Len(g.seats) >= 2 => Neighbour(g, p) # p
<1>1. SeatOf(g, p) \in DOMAIN g.seats /\ g.seats[SeatOf(g, p)] = p
  BY SeatOfPlayer
<1>2. NextIndex(g, SeatOf(g, p)) \in DOMAIN g.seats
  BY <1>1, NextIndexIsAfter
<1>3. Neighbour(g, p) \in Ring(g) /\ SeatOf(g, Neighbour(g, p)) = NextIndex(g, SeatOf(g, p))
  BY <1>2, SeatIsUnique DEF Neighbour
<1>4. Follows(g, p, Neighbour(g, p))
  BY <1>1, <1>3, NextIndexIsAfter DEF Follows
<1>5. ASSUME Len(g.seats) >= 2 PROVE Neighbour(g, p) # p
  <2>1. NextIndex(g, SeatOf(g, p)) # SeatOf(g, p)
    BY <1>1, <1>5, NextIndexIsAfter, AfterIsOther
  <2> QED BY <1>3, <2>1
<1> QED BY <1>3, <1>4, <1>5

LEMMA FunctionIsSeq ==
    ASSUME NEW S, NEW n \in Nat, NEW f \in [1 .. n -> S]
    PROVE  f \in Seq(S) /\ Len(f) = n /\ DOMAIN f = 1 .. n
OBVIOUS

\* The ring without one seat keeps the order of the others.
LEMMA WithoutSeat ==
    ASSUME NEW s \in Seq(Players), NoRepeats(s), NEW i \in DOMAIN s
    PROVE  /\ Without(s, i) \in Seq(Players)
           /\ Len(Without(s, i)) = Len(s) - 1
           /\ \A j \in 1 .. Len(s) - 1 : Without(s, i)[j] = IF j < i THEN s[j] ELSE s[j + 1]
           /\ NoRepeats(Without(s, i))
           /\ Elements(Without(s, i)) = Elements(s) \ {s[i]}
<1> DEFINE rest == Without(s, i)
<1>1. Len(s) \in Nat /\ DOMAIN s = 1 .. Len(s) /\ Len(s) - 1 \in Nat /\ i \in 1 .. Len(s)
  OBVIOUS
<1>2. rest \in [1 .. Len(s) - 1 -> Players]
  <2>1. \A j \in 1 .. Len(s) - 1 : s[j] \in Players /\ s[j + 1] \in Players
    BY <1>1
  <2> QED BY <2>1 DEF Without
<1>3. rest \in Seq(Players) /\ Len(rest) = Len(s) - 1 /\ DOMAIN rest = 1 .. Len(s) - 1
  BY <1>1, <1>2, FunctionIsSeq
<1>4. \A j \in 1 .. Len(s) - 1 : rest[j] = IF j < i THEN s[j] ELSE s[j + 1]
  BY <1>1 DEF Without
<1> HIDE DEF rest
<1>5. NoRepeats(rest)
  <2> DEFINE from(j) == IF j < i THEN j ELSE j + 1
  <2>1. \A j \in 1 .. Len(s) - 1 : from(j) \in DOMAIN s /\ rest[j] = s[from(j)]
    BY <1>1, <1>4
  <2>2. \A j, k \in 1 .. Len(s) - 1 : from(j) = from(k) => j = k
    BY <1>1
  <2> HIDE DEF from
  <2> QED BY <1>3, <2>1, <2>2 DEF NoRepeats
<1>6. ASSUME NEW j \in DOMAIN rest PROVE rest[j] \in Elements(s) \ {s[i]}
  <2>1. CASE j < i
    <3>1. j \in DOMAIN s /\ j # i /\ rest[j] = s[j]
      BY <1>1, <1>3, <1>4, <2>1
    <3> QED BY <3>1 DEF Elements, NoRepeats
  <2>2. CASE j >= i
    <3>1. j + 1 \in DOMAIN s /\ j + 1 # i /\ rest[j] = s[j + 1]
      BY <1>1, <1>3, <1>4, <2>2
    <3> QED BY <3>1 DEF Elements, NoRepeats
  <2> QED BY <1>1, <1>3, <2>1, <2>2
<1>7. ASSUME NEW k \in DOMAIN s, k # i PROVE s[k] \in Elements(rest)
  <2>1. CASE k < i
    <3>1. k \in DOMAIN rest /\ rest[k] = s[k]
      BY <1>1, <1>3, <1>4, <2>1
    <3> QED BY <3>1 DEF Elements
  <2>2. CASE k > i
    <3>1. k - 1 \in DOMAIN rest /\ rest[k - 1] = s[k]
      BY <1>1, <1>3, <1>4, <2>2
    <3> QED BY <3>1 DEF Elements
  <2> QED BY <1>1, <1>7, <2>1, <2>2
<1>8. Elements(rest) = Elements(s) \ {s[i]}
  BY <1>6, <1>7 DEF Elements
<1> QED BY <1>3, <1>4, <1>5, <1>8 DEF rest

\* Where seat k is once seat i is gone.
Moved(i, k) == IF k < i THEN k ELSE k - 1

LEMMA MovedSeat ==
    ASSUME NEW s \in Seq(Players), NoRepeats(s), NEW i \in DOMAIN s,
           NEW k \in DOMAIN s, k # i
    PROVE  /\ Moved(i, k) \in DOMAIN Without(s, i)
           /\ Without(s, i)[Moved(i, k)] = s[k]
<1>1. Len(s) \in Nat /\ DOMAIN s = 1 .. Len(s)
  OBVIOUS
<1>2. Without(s, i) \in Seq(Players) /\ Len(Without(s, i)) = Len(s) - 1
  BY WithoutSeat
<1>3. \A j \in 1 .. Len(s) - 1 : Without(s, i)[j] = IF j < i THEN s[j] ELSE s[j + 1]
  BY WithoutSeat
<1> QED BY <1>1, <1>2, <1>3 DEF Moved

LEMMA AfterMoved ==
    ASSUME NEW n \in Nat, n >= 3, NEW dir \in {1, -1}, NEW i \in 1 .. n, NEW k \in 1 .. n,
           k # i, After(n, dir, k) # i
    PROVE  After(n - 1, dir, Moved(i, k)) = Moved(i, After(n, dir, k))
BY DEF After, Moved

\* Neighbours stay neighbours when somebody else goes.
LEMMA NeighboursStay ==
    ASSUME NEW g, NEW h, g.seats \in Seq(Players), NoRepeats(g.seats), Len(g.seats) >= 3,
           g.dir \in {1, -1}, h.dir = g.dir,
           NEW x \in Ring(g), h.seats = Without(g.seats, SeatOf(g, x)),
           NEW p \in Ring(g), p # x, Neighbour(g, p) # x
    PROVE  Neighbour(h, p) = Neighbour(g, p)
<1> DEFINE i == SeatOf(g, x)
           k == SeatOf(g, p)
           n == Len(g.seats)
<1>1. n \in Nat /\ DOMAIN g.seats = 1 .. n
  OBVIOUS
<1>2. i \in DOMAIN g.seats /\ k \in DOMAIN g.seats /\ g.seats[i] = x /\ g.seats[k] = p
  BY SeatOfPlayer
<1>3. NextIndex(g, k) = After(n, g.dir, k) /\ NextIndex(g, k) \in DOMAIN g.seats
  BY <1>2, NextIndexIsAfter
<1>4. k # i /\ After(n, g.dir, k) # i
  BY <1>2, <1>3 DEF Neighbour
<1>0. n >= 3
  OBVIOUS
<1> HIDE DEF i, k, n
<1>5. h.seats \in Seq(Players) /\ Len(h.seats) = n - 1 /\ NoRepeats(h.seats)
  BY <1>2, WithoutSeat DEF i, n
<1>6. /\ Moved(i, k) \in DOMAIN h.seats /\ h.seats[Moved(i, k)] = p
      /\ h.seats[Moved(i, After(n, g.dir, k))] = g.seats[After(n, g.dir, k)]
  <2>1. h.seats = Without(g.seats, i)
    BY DEF i
  <2> QED BY <1>2, <1>3, <1>4, <2>1, MovedSeat
<1>7. SeatOf(h, p) = Moved(i, k)
  BY <1>5, <1>6, SeatIsUnique
<1>8. NextIndex(h, Moved(i, k)) = After(n - 1, g.dir, Moved(i, k))
  BY <1>5, <1>6, NextIndexIsAfter
<1>9. After(n - 1, g.dir, Moved(i, k)) = Moved(i, After(n, g.dir, k))
  BY <1>0, <1>1, <1>2, <1>4, AfterMoved
<1> QED BY <1>3, <1>6, <1>7, <1>8, <1>9 DEF Neighbour, k

-----------------------------------------------------------------------------
(* What each command does to the fields of a game                          *)

LEMMA DrawValues ==
    ASSUME NEW c
    PROVE  /\ DrawValue(c) \in Nat
           /\ DrawValue(c) = 0 <=> c.face \notin {"draw_two", "wild_draw_four"}
BY DEF DrawValue

LEMMA CloseOnTurnFields ==
    ASSUME NEW g \in Game, NEW p \in Players
    PROVE  /\ CloseOnTurn(g, p) \in Game
           /\ CloseOnTurn(g, p) =
                [g EXCEPT !.window = [g.window EXCEPT !.open = @ /\ g.window.owner = p]]
           /\ CloseOnTurn(g, p).window.open <=> g.window.open /\ g.window.owner = p
           /\ CloseOnTurn(g, p).window.owner = g.window.owner
BY DEF CloseOnTurn, Game

\* The turn passes to p: no field moves but the window, which can only close.
LEMMA CloseOnTurnKeeps ==
    ASSUME NEW g \in Game, NEW p \in Players
    PROVE  LET r == CloseOnTurn(g, p)
           IN /\ r \in Game /\ r.completed = g.completed /\ r.amount = g.amount
              /\ r.target = g.target /\ r.chooser = g.chooser
              /\ r.seats = g.seats /\ r.hands = g.hands
              /\ r.discard = g.discard /\ r.active = g.active /\ r.dir = g.dir
              /\ r.current = g.current /\ r.abandoned = g.abandoned
              /\ r.window.open => g.window.open
              /\ r.window.owner = g.window.owner
<1> DEFINE row == [g.window EXCEPT !.open = @ /\ g.window.owner = p]
<1>1. CloseOnTurn(g, p) = [g EXCEPT !.window = row]
  BY CloseOnTurnFields
<1>2. CloseOnTurn(g, p) \in Game
  BY CloseOnTurnFields
<1>3. /\ CloseOnTurn(g, p).window.open => g.window.open
      /\ CloseOnTurn(g, p).window.owner = g.window.owner
  BY CloseOnTurnFields
<1> HIDE DEF row
<1> QED
  BY <1>1, <1>2, <1>3 DEF Game

LEMMA LayFields ==
    ASSUME NEW g \in Game, NEW p \in Players, NEW c \in Cards
    PROVE  LET r == Lay(CloseOnTurn(g, p), p, c)
           IN /\ r \in Game
              /\ r.hands = [g.hands EXCEPT ![p] = @ \ {c}] /\ r.discard = c
              /\ r.active = IF IsWild(c) THEN g.active ELSE c.color
              /\ r.window.open <=> g.window.open /\ g.window.owner = p
              /\ r.window.owner = g.window.owner
              /\ r.seats = g.seats /\ r.dir = g.dir /\ r.current = g.current
              /\ r.chooser = g.chooser /\ r.amount = g.amount /\ r.target = g.target
              /\ r.completed = g.completed /\ r.abandoned = g.abandoned /\ r.winner = g.winner
<1> DEFINE f == CloseOnTurn(g, p)
<1>1. f \in Game /\ (f.window.open <=> g.window.open /\ g.window.owner = p)
      /\ f.window.owner = g.window.owner
  BY CloseOnTurnFields
<1>2. /\ f.hands = g.hands /\ f.discard = g.discard /\ f.active = g.active
      /\ f.seats = g.seats /\ f.dir = g.dir /\ f.current = g.current
      /\ f.chooser = g.chooser /\ f.amount = g.amount /\ f.target = g.target
      /\ f.completed = g.completed /\ f.abandoned = g.abandoned /\ f.winner = g.winner
  BY DEF CloseOnTurn, Game
<1>3. ~IsWild(c) => c.color \in Colors
  BY CardsAssumption DEF IsWild
<1> HIDE DEF f
<1> DEFINE r == Lay(f, p, c)
<1>4. [f.hands EXCEPT ![p] = @ \ {c}] \in [Players -> SUBSET Cards]
  BY <1>1 DEF Game
<1>5. r \in Game
  BY <1>1, <1>3, <1>4 DEF Lay, Game
<1>6. /\ r.hands = [f.hands EXCEPT ![p] = @ \ {c}] /\ r.discard = c
      /\ r.active = IF IsWild(c) THEN f.active ELSE c.color
  BY <1>1 DEF Lay, Game
<1>7. /\ r.window = f.window /\ r.seats = f.seats /\ r.dir = f.dir /\ r.current = f.current
      /\ r.chooser = f.chooser /\ r.amount = f.amount /\ r.target = f.target
      /\ r.completed = f.completed /\ r.abandoned = f.abandoned /\ r.winner = f.winner
  BY <1>1 DEF Lay, Game
<1> HIDE DEF r
<1> QED BY <1>1, <1>2, <1>5, <1>6, <1>7 DEF f, r

LEMMA EffectsFields ==
    ASSUME NEW g \in Game, InOrder(g), NEW p \in Ring(g), NEW c \in Cards
    PROVE  LET r == CardEffects(g, p, c)
           IN /\ r \in Game /\ r.current \in DOMAIN g.seats
              /\ r.seats = g.seats /\ r.hands = g.hands /\ r.discard = g.discard
              /\ r.active = g.active /\ r.window = g.window
              /\ r.completed = g.completed /\ r.abandoned = g.abandoned /\ r.winner = g.winner
              /\ r.dir = IF c.face = "reverse" THEN -g.dir ELSE g.dir
              /\ r.chooser = IF IsWild(c) THEN p ELSE g.chooser
              /\ r.amount = g.amount + DrawValue(c)
              /\ r.target = IF DrawValue(c) > 0 THEN Neighbour(g, p) ELSE g.target
              /\ c.face = "skip" => r.seats[r.current] = Neighbour(g, Neighbour(g, p))
              /\ c.face = "reverse" =>
                    r.seats[r.current] = IF Len(g.seats) = 2 THEN p ELSE Neighbour(r, p)
              /\ ~IsWild(c) /\ c.face \notin {"skip", "reverse"} =>
                    r.seats[r.current] = Neighbour(g, p)
<1> DEFINE seat == SeatOf(g, p)
           next == NextIndex(g, seat)
           turned == [g EXCEPT !.dir = -@]
           r == CardEffects(g, p, c)
<1>1. g.seats \in Seq(Players) /\ NoRepeats(g.seats) /\ g.dir \in {1, -1} /\ DOMAIN g.seats \subseteq Nat
  <2>1. g.seats \in Seq(Players) /\ g.dir \in {1, -1}
    BY DEF Game
  <2> QED BY <2>1 DEF InOrder
<1>2. p \in Players /\ seat \in DOMAIN g.seats /\ g.seats[seat] = p
  BY <1>1, SeatOfPlayer
<1>3. /\ next \in DOMAIN g.seats /\ Neighbour(g, p) = g.seats[next]
      /\ Neighbour(g, p) \in Ring(g) /\ SeatOf(g, Neighbour(g, p)) = next
  BY <1>1, <1>2, NextIndexIsAfter, NeighbourIsNext DEF Neighbour
<1>4. /\ NextIndex(g, next) \in DOMAIN g.seats
      /\ Neighbour(g, Neighbour(g, p)) = g.seats[NextIndex(g, next)]
  BY <1>1, <1>3, NextIndexIsAfter DEF Neighbour
<1>5. /\ turned \in Game /\ turned.seats = g.seats /\ turned.dir = -g.dir
      /\ NextIndex(turned, seat) \in DOMAIN g.seats
  <2>1. turned \in Game /\ turned.seats = g.seats /\ turned.dir = -g.dir
    BY <1>1 DEF Game
  <2> HIDE DEF turned
  <2>2. turned.dir \in {1, -1}
    BY <2>1 DEF Game
  <2> QED BY <1>1, <1>2, <2>1, <2>2, NextIndexIsAfter
<1>6. Neighbour(g, p) \in Players
  BY <1>1, <1>3, SeatOfPlayer
<1>7. g.seats[next] = Neighbour(g, p)
  BY <1>3
<1> SUFFICES
      /\ r \in Game /\ r.current \in DOMAIN g.seats
      /\ r.seats = g.seats /\ r.hands = g.hands /\ r.discard = g.discard
      /\ r.active = g.active /\ r.window = g.window
      /\ r.completed = g.completed /\ r.abandoned = g.abandoned /\ r.winner = g.winner
      /\ r.dir = IF c.face = "reverse" THEN -g.dir ELSE g.dir
      /\ r.chooser = IF IsWild(c) THEN p ELSE g.chooser
      /\ r.amount = g.amount + DrawValue(c)
      /\ r.target = IF DrawValue(c) > 0 THEN Neighbour(g, p) ELSE g.target
      /\ c.face = "skip" => r.seats[r.current] = Neighbour(g, Neighbour(g, p))
      /\ c.face = "reverse" =>
            r.seats[r.current] = IF Len(g.seats) = 2 THEN p ELSE Neighbour(r, p)
      /\ ~IsWild(c) /\ c.face \notin {"skip", "reverse"} =>
            r.seats[r.current] = Neighbour(g, p)
  OBVIOUS
<1> HIDE DEF seat, next, r, turned
<1> DEFINE raised == [g EXCEPT !.amount = @ + DrawValue(c), !.target = g.seats[next]]
<1>8. CASE c.face = "wild"
  <2>1. r = [g EXCEPT !.chooser = p, !.current = seat] /\ IsWild(c) /\ DrawValue(c) = 0
    BY <1>8 DEF r, CardEffects, IsWild, DrawValue, seat
  <2>2. r \in Game
    BY <1>1, <1>2, <2>1 DEF Game
  <2>3. /\ r.current = seat /\ r.chooser = p
        /\ r.seats = g.seats /\ r.hands = g.hands /\ r.discard = g.discard
        /\ r.active = g.active /\ r.window = g.window
        /\ r.completed = g.completed /\ r.abandoned = g.abandoned /\ r.winner = g.winner
        /\ r.dir = g.dir /\ r.amount = g.amount /\ r.target = g.target
    BY <2>1 DEF Game
  <2>4. g.amount + 0 = g.amount
    BY DEF Game
  <2> QED BY <1>2, <1>8, <2>1, <2>2, <2>3, <2>4
<1>9. /\ raised \in Game /\ raised.amount = g.amount + DrawValue(c)
      /\ raised.target = Neighbour(g, p) /\ raised.current = g.current
      /\ raised.seats = g.seats /\ raised.hands = g.hands /\ raised.discard = g.discard
      /\ raised.active = g.active /\ raised.window = g.window /\ raised.dir = g.dir
      /\ raised.completed = g.completed /\ raised.abandoned = g.abandoned
      /\ raised.winner = g.winner /\ raised.chooser = g.chooser
  <2>1. DrawValue(c) \in Nat
    BY DrawValues
  <2>2. g.amount + DrawValue(c) \in Nat
    BY <2>1 DEF Game
  <2> QED BY <1>6, <1>7, <2>2 DEF Game
<1> HIDE DEF raised
<1>10. CASE c.face = "wild_draw_four"
  <2>1. /\ r = [raised EXCEPT !.chooser = p, !.current = IF g.amount > 0 THEN next ELSE seat]
        /\ IsWild(c) /\ DrawValue(c) = 4
    BY <1>10 DEF r, raised, CardEffects, IsWild, DrawValue, seat, next
  <2>2. r \in Game
    BY <1>1, <1>2, <1>3, <1>9, <2>1 DEF Game
  <2>3. /\ r.current = (IF g.amount > 0 THEN next ELSE seat) /\ r.chooser = p
        /\ r.seats = g.seats /\ r.hands = g.hands /\ r.discard = g.discard
        /\ r.active = g.active /\ r.window = g.window
        /\ r.completed = g.completed /\ r.abandoned = g.abandoned /\ r.winner = g.winner
        /\ r.dir = g.dir /\ r.amount = g.amount + DrawValue(c) /\ r.target = Neighbour(g, p)
    BY <1>9, <2>1 DEF Game
  <2> QED BY <1>2, <1>3, <1>10, <2>1, <2>2, <2>3
<1>11. CASE c.face = "draw_two"
  <2>1. r = [raised EXCEPT !.current = next] /\ ~IsWild(c) /\ DrawValue(c) = 2
    BY <1>11 DEF r, raised, CardEffects, IsWild, DrawValue, seat, next
  <2>2. r \in Game
    BY <1>1, <1>3, <1>9, <2>1 DEF Game
  <2>3. /\ r.current = next /\ r.chooser = g.chooser
        /\ r.seats = g.seats /\ r.hands = g.hands /\ r.discard = g.discard
        /\ r.active = g.active /\ r.window = g.window
        /\ r.completed = g.completed /\ r.abandoned = g.abandoned /\ r.winner = g.winner
        /\ r.dir = g.dir /\ r.amount = g.amount + DrawValue(c) /\ r.target = Neighbour(g, p)
    BY <1>9, <2>1 DEF Game
  <2> QED BY <1>3, <1>7, <1>11, <2>1, <2>2, <2>3
<1>12. CASE c.face = "skip"
  <2>1. r = [g EXCEPT !.current = NextIndex(g, next)] /\ ~IsWild(c) /\ DrawValue(c) = 0
    BY <1>12 DEF r, CardEffects, IsWild, DrawValue, seat, next
  <2>2. r \in Game
    BY <1>1, <1>4, <2>1 DEF Game
  <2>3. /\ r.current = NextIndex(g, next) /\ r.chooser = g.chooser
        /\ r.seats = g.seats /\ r.hands = g.hands /\ r.discard = g.discard
        /\ r.active = g.active /\ r.window = g.window
        /\ r.completed = g.completed /\ r.abandoned = g.abandoned /\ r.winner = g.winner
        /\ r.dir = g.dir /\ r.amount = g.amount + DrawValue(c) /\ r.target = g.target
    BY <2>1 DEF Game
  <2> QED BY <1>4, <1>12, <2>1, <2>2, <2>3
<1>13. CASE c.face = "reverse"
  <2>1. /\ r = [turned EXCEPT !.current = IF Len(g.seats) = 2 THEN seat ELSE NextIndex(turned, seat)]
        /\ ~IsWild(c) /\ DrawValue(c) = 0
    BY <1>13 DEF r, turned, CardEffects, IsWild, DrawValue, seat, next
  <2>2. /\ r \in Game
        /\ r.current = IF Len(g.seats) = 2 THEN seat ELSE NextIndex(turned, seat)
    BY <1>1, <1>2, <1>5, <2>1 DEF Game
  <2>3. /\ r.chooser = g.chooser
        /\ r.seats = g.seats /\ r.hands = g.hands /\ r.discard = g.discard
        /\ r.active = g.active /\ r.window = g.window
        /\ r.completed = g.completed /\ r.abandoned = g.abandoned /\ r.winner = g.winner
        /\ r.dir = -g.dir /\ r.amount = g.amount + DrawValue(c) /\ r.target = g.target
    BY <1>5, <2>1 DEF Game, turned
  <2>4. Neighbour(r, p) = g.seats[NextIndex(turned, seat)]
    BY <1>5, <2>3 DEF Neighbour, NextIndex, SeatOf, seat
  <2> QED BY <1>2, <1>5, <1>13, <2>1, <2>2, <2>3, <2>4
<1>14. CASE c.face \notin {"wild", "wild_draw_four", "draw_two", "skip", "reverse"}
  <2>1. r = [g EXCEPT !.current = next] /\ ~IsWild(c) /\ DrawValue(c) = 0
    BY <1>14 DEF r, CardEffects, IsWild, DrawValue, seat, next
  <2>2. r \in Game
    BY <1>1, <1>3, <2>1 DEF Game
  <2>3. /\ r.current = next /\ r.chooser = g.chooser
        /\ r.seats = g.seats /\ r.hands = g.hands /\ r.discard = g.discard
        /\ r.active = g.active /\ r.window = g.window
        /\ r.completed = g.completed /\ r.abandoned = g.abandoned /\ r.winner = g.winner
        /\ r.dir = g.dir /\ r.amount = g.amount + DrawValue(c) /\ r.target = g.target
    BY <2>1 DEF Game
  <2> QED BY <1>3, <1>7, <1>14, <2>1, <2>2, <2>3
<1> QED BY <1>8, <1>10, <1>11, <1>12, <1>13, <1>14

\* Neighbours depend on the seats and the direction alone.
LEMMA SameNeighbours ==
    ASSUME NEW g, NEW h, h.seats = g.seats, h.dir = g.dir
    PROVE  /\ \A p : SeatOf(h, p) = SeatOf(g, p) /\ Neighbour(h, p) = Neighbour(g, p)
           /\ Ring(h) = Ring(g)
BY DEF Neighbour, NextIndex, SeatOf, Ring

LEMMA FinishFields ==
    ASSUME NEW g \in Game, NEW p \in Players
    PROVE  LET r == Finish(g, p)
           IN /\ r \in Game /\ r.completed /\ r.amount = 0 /\ r.target = None
              /\ r.chooser = None /\ ~r.window.open /\ r.winner = p
              /\ r.seats = g.seats /\ r.hands = g.hands /\ r.discard = g.discard
              /\ r.active = g.active /\ r.dir = g.dir /\ r.current = g.current
              /\ r.abandoned = g.abandoned
BY DEF Finish, Game

LEMMA HandSizes ==
    ASSUME NEW g \in Game, NEW p \in Players
    PROVE  /\ IsFiniteSet(g.hands[p]) /\ Cardinality(g.hands[p]) \in Nat
           /\ Cardinality(g.hands[p]) = 0 <=> g.hands[p] = {}
<1>1. g.hands[p] \subseteq Cards
  BY DEF Game
<1>2. IsFiniteSet(g.hands[p])
  BY <1>1, CardsAssumption, FS_Subset
<1> QED BY <1>2, FS_CardinalityType, FS_EmptySet

\* What PlayCard makes of a game: every field of the outcome r.
Played(g, p, c, r) ==
    /\ r \in Game /\ InOrder(r) /\ p \in Players /\ c \in Cards
    /\ r.seats = g.seats /\ r.hands = [g.hands EXCEPT ![p] = @ \ {c}] /\ r.discard = c
    /\ r.active = IF IsWild(c) THEN g.active ELSE c.color
    /\ r.abandoned = g.abandoned
    /\ r.completed <=> r.hands[p] = {}
    /\ r.completed => r.winner = p /\ r.amount = 0 /\ ~r.window.open
    /\ r.window.open => r.window.owner = p
    /\ r.dir = IF c.face = "reverse" THEN -g.dir ELSE g.dir
    /\ ~r.completed =>
          /\ r.chooser = IF IsWild(c) THEN p ELSE None
          /\ r.amount = g.amount + DrawValue(c)
          /\ r.target = IF DrawValue(c) > 0 THEN Neighbour(g, p) ELSE g.target
    /\ c.face = "skip" => r.seats[r.current] = Neighbour(g, Neighbour(g, p))
    /\ c.face = "reverse" =>
          r.seats[r.current] = IF Len(g.seats) = 2 THEN p ELSE Neighbour(r, p)
    /\ ~IsWild(c) /\ c.face \notin {"skip", "reverse"} =>
          r.seats[r.current] = Neighbour(g, p)

LEMMA PlayFields ==
    ASSUME NEW g, GameSound(g), ~g.completed, NEW p \in Ring(g), NEW c, CanPlay(g, p, c)
    PROVE  Played(g, p, c, PlayCard(g, p, c).game)
<1> DEFINE lay    == Lay(CloseOnTurn(g, p), p, c)
           played == CardEffects(lay, p, c)
           left   == Cardinality(played.hands[p])
           opened == IF left = 1 THEN [played EXCEPT !.window = [owner |-> p, open |-> TRUE]]
                     ELSE played
           r      == PlayCard(g, p, c).game
<1>1. g \in Game /\ InOrder(g) /\ c \in g.hands[p] /\ g.chooser = None
  BY DEF GameSound, CanPlay
<1>2. p \in Players /\ c \in Cards
  <2>1. g.seats \in Seq(Players) /\ g.hands \in [Players -> SUBSET Cards]
    BY <1>1 DEF Game
  <2> QED BY <1>1, <2>1, SeatOfPlayer
<1>3. /\ lay \in Game
      /\ lay.hands = [g.hands EXCEPT ![p] = @ \ {c}] /\ lay.discard = c
      /\ lay.active = IF IsWild(c) THEN g.active ELSE c.color
      /\ lay.window.open <=> g.window.open /\ g.window.owner = p
      /\ lay.window.owner = g.window.owner
      /\ lay.seats = g.seats /\ lay.dir = g.dir /\ lay.current = g.current
      /\ lay.chooser = g.chooser /\ lay.amount = g.amount /\ lay.target = g.target
      /\ lay.completed = g.completed /\ lay.abandoned = g.abandoned /\ lay.winner = g.winner
  BY <1>1, <1>2, LayFields
<1> HIDE DEF lay
<1>4. InOrder(lay) /\ p \in Ring(lay)
  BY <1>1, <1>3 DEF InOrder, Ring
<1>5. /\ played \in Game /\ played.current \in DOMAIN lay.seats
      /\ played.seats = lay.seats /\ played.hands = lay.hands /\ played.discard = lay.discard
      /\ played.active = lay.active /\ played.window = lay.window
      /\ played.completed = lay.completed /\ played.abandoned = lay.abandoned
      /\ played.dir = IF c.face = "reverse" THEN -lay.dir ELSE lay.dir
      /\ played.chooser = IF IsWild(c) THEN p ELSE lay.chooser
      /\ played.amount = lay.amount + DrawValue(c)
      /\ played.target = IF DrawValue(c) > 0 THEN Neighbour(lay, p) ELSE lay.target
      /\ c.face = "skip" => played.seats[played.current] = Neighbour(lay, Neighbour(lay, p))
      /\ c.face = "reverse" =>
            played.seats[played.current] = IF Len(lay.seats) = 2 THEN p ELSE Neighbour(played, p)
      /\ ~IsWild(c) /\ c.face \notin {"skip", "reverse"} =>
            played.seats[played.current] = Neighbour(lay, p)
  BY <1>2, <1>3, <1>4, EffectsFields
<1>6. \A q : Neighbour(lay, q) = Neighbour(g, q)
  BY <1>3, SameNeighbours
<1> HIDE DEF played
<1>7. /\ opened \in Game
      /\ opened.window = IF left = 1 THEN [owner |-> p, open |-> TRUE] ELSE played.window
      /\ opened.seats = played.seats /\ opened.hands = played.hands
      /\ opened.discard = played.discard /\ opened.active = played.active
      /\ opened.dir = played.dir /\ opened.current = played.current
      /\ opened.chooser = played.chooser /\ opened.amount = played.amount
      /\ opened.target = played.target /\ opened.completed = played.completed
      /\ opened.abandoned = played.abandoned
  BY <1>2, <1>5 DEF Game
<1>8. r = IF left = 0 THEN Finish(opened, p) ELSE opened
  BY DEF PlayCard, Result, lay, played
<1>9. left = 0 <=> played.hands[p] = {}
  BY <1>2, <1>5, HandSizes
<1> HIDE DEF opened, left, r
<1>10. /\ r \in Game /\ r.seats = opened.seats /\ r.hands = opened.hands
       /\ r.discard = opened.discard /\ r.active = opened.active
       /\ r.dir = opened.dir /\ r.current = opened.current /\ r.abandoned = opened.abandoned
       /\ r.completed <=> left = 0
       /\ r.completed => r.winner = p /\ r.amount = 0 /\ ~r.window.open
       /\ ~r.completed => /\ r.chooser = opened.chooser /\ r.amount = opened.amount
                          /\ r.target = opened.target /\ r.window = opened.window
  <2>1. CASE left = 0
    BY <1>2, <1>7, <1>8, <2>1, FinishFields
  <2>2. CASE left # 0
    <3>1. ~opened.completed
      BY <1>3, <1>5, <1>7
    <3> QED BY <1>7, <1>8, <2>2, <3>1
  <2> QED BY <2>1, <2>2
<1>11. InOrder(r)
  BY <1>1, <1>3, <1>5, <1>7, <1>10 DEF InOrder
<1>12. r.window.open => r.window.owner = p
  BY <1>3, <1>5, <1>7, <1>10
<1>13. Neighbour(r, p) = Neighbour(played, p)
  BY <1>7, <1>10, SameNeighbours
<1>14. r.seats[r.current] = played.seats[played.current]
  BY <1>7, <1>10
<1> QED BY <1>1, <1>2, <1>3, <1>5, <1>6, <1>7, <1>9, <1>10, <1>11, <1>12, <1>13, <1>14 DEF Played, r

-----------------------------------------------------------------------------
(* Each command keeps the game sound                                       *)

\* A ring of two or more is not one player's.
LEMMA RingOfMany ==
    ASSUME NEW g, g.seats \in Seq(Players), NoRepeats(g.seats), Len(g.seats) >= 2, NEW p
    PROVE  Ring(g) # {p}
<1>1. 1 \in DOMAIN g.seats /\ 2 \in DOMAIN g.seats
  OBVIOUS
<1>2. g.seats[1] # g.seats[2]
  BY <1>1 DEF NoRepeats
<1> QED BY <1>1, <1>2 DEF Ring, Elements

LEMMA SoundParts ==
    ASSUME NEW g, GameSound(g)
    PROVE  /\ g \in Game /\ InOrder(g) /\ g.seats \in Seq(Players) /\ NoRepeats(g.seats)
           /\ g.dir \in {1, -1} /\ g.current \in DOMAIN g.seats /\ g.amount \in Nat
           /\ g.hands \in [Players -> SUBSET Cards]
           /\ Ring(g) \subseteq Players
           /\ ~g.completed => InPlay(g) /\ Len(g.seats) >= 2
<1>1. g \in Game /\ InOrder(g)
  BY DEF GameSound
<1>2. g.seats \in Seq(Players) /\ g.dir \in {1, -1} /\ g.amount \in Nat
      /\ g.hands \in [Players -> SUBSET Cards]
  BY <1>1 DEF Game
<1>3. Ring(g) \subseteq Players
  BY <1>2 DEF Ring, Elements
<1> QED BY <1>1, <1>2, <1>3 DEF InOrder, GameSound, InPlay

LEMMA PlayKeepsSound ==
    ASSUME NEW g, GameSound(g), ~g.completed, NEW p \in Ring(g), NEW c, CanPlay(g, p, c)
    PROVE  GameSound(PlayCard(g, p, c).game)
<1> DEFINE r == PlayCard(g, p, c).game
<1>0. Played(g, p, c, r)
  BY PlayFields
<1> SUFFICES GameSound(r)
  OBVIOUS
<1> HIDE DEF r
<1>1. /\ r \in Game /\ InOrder(r) /\ p \in Players /\ c \in Cards
      /\ r.seats = g.seats /\ r.hands = [g.hands EXCEPT ![p] = @ \ {c}] /\ r.discard = c
      /\ r.active = IF IsWild(c) THEN g.active ELSE c.color
      /\ r.abandoned = g.abandoned
      /\ r.completed <=> r.hands[p] = {}
      /\ r.completed => r.winner = p
      /\ r.window.open => r.window.owner = p
      /\ r.dir = IF c.face = "reverse" THEN -g.dir ELSE g.dir
      /\ ~r.completed =>
            /\ r.chooser = IF IsWild(c) THEN p ELSE None
            /\ r.amount = g.amount + DrawValue(c)
            /\ r.target = IF DrawValue(c) > 0 THEN Neighbour(g, p) ELSE g.target
  BY <1>0 DEF Played
<1>f. Follow(r)
  BY <1>1 DEF Follow
<1>2. /\ g.seats \in Seq(Players) /\ NoRepeats(g.seats) /\ g.dir \in {1, -1} /\ g.amount \in Nat
      /\ g.hands \in [Players -> SUBSET Cards] /\ Ring(g) \subseteq Players
      /\ InPlay(g) /\ Len(g.seats) >= 2 /\ ~g.abandoned
  BY SoundParts DEF InPlay
<1>3. Ring(r) = Ring(g)
  BY <1>1 DEF Ring
<1>4. \A q \in Ring(g) : q # p => r.hands[q] = g.hands[q] /\ r.hands[q] # {}
  BY <1>1, <1>2 DEF InPlay
<1>5. CASE r.completed
  <2>1. Ring(r) # {p}
    BY <1>2, <1>3, RingOfMany
  <2>2. Won(r)
    BY <1>1, <1>2, <1>3, <1>4, <1>5, <2>1 DEF Won
  <2> QED BY <1>1, <1>5, <1>f, <2>2 DEF GameSound
<1>6. CASE ~r.completed
  <2>1. Neighbour(g, p) \in Ring(g)
    BY <1>2, NeighbourIsNext
  <2>2. DrawValue(c) \in Nat /\ (g.amount > 0 => DrawValue(c) > 0)
    BY DrawValues DEF CanPlay, CanStack
  <2>3. g.amount = 0 => g.target = None
    BY <1>2 DEF InPlay, DebtsAreReal
  <2>4. IF r.amount > 0 THEN r.target \in Ring(r) ELSE r.target = None
    BY <1>1, <1>2, <1>3, <1>6, <2>1, <2>2, <2>3
  <2>5. ASSUME r.chooser # None
        PROVE  /\ r.chooser \in Ring(r) /\ IsWild(r.discard)
               /\ r.amount > 0 => r.target = Neighbour(r, r.chooser)
    <3>1. IsWild(c) /\ r.chooser = p
      BY <1>1, <1>6, <2>5
    <3>2. r.dir = g.dir
      BY <1>1, <3>1 DEF IsWild
    <3>3. Neighbour(r, p) = Neighbour(g, p)
      BY <1>1, <3>2, SameNeighbours
    <3> QED BY <1>1, <1>2, <1>3, <1>6, <2>2, <3>1, <3>3
  <2>6. DebtsAreReal(r)
    BY <2>4, <2>5 DEF DebtsAreReal
  <2>7. InPlay(r)
    BY <1>1, <1>2, <1>3, <1>4, <1>6, <2>6 DEF InPlay
  <2> QED BY <1>1, <1>6, <1>f, <2>7 DEF GameSound
<1> QED BY <1>5, <1>6

LEMMA PlayConserves ==
    ASSUME NEW g, NEW s, GameSound(g), Conserved(g, s), ~g.completed,
           NEW p \in Ring(g), NEW c, CanPlay(g, p, c)
    PROVE  Conserved(PlayCard(g, p, c).game, s)
<1> DEFINE r == PlayCard(g, p, c).game
<1>0. Played(g, p, c, r)
  BY PlayFields
<1> HIDE DEF r
<1>1. /\ p \in Players /\ r.hands = [g.hands EXCEPT ![p] = @ \ {c}] /\ r.discard = c
  BY <1>0 DEF Played
<1>2. g.hands \in [Players -> SUBSET Cards] /\ c \in g.hands[p]
  BY SoundParts DEF CanPlay
<1>3. \A q \in Players : r.hands[q] \subseteq g.hands[q] /\ c \notin r.hands[q]
  BY <1>1, <1>2 DEF Conserved
<1> QED BY <1>1, <1>2, <1>3 DEF Conserved, r

-----------------------------------------------------------------------------
(* DrawCard                                                                *)

\* What DrawCard makes of a game.
Drew(g, p, drawn, r) ==
    /\ r \in Game /\ InOrder(r) /\ p \in Players
    /\ r.seats = g.seats /\ r.dir = g.dir /\ r.discard = g.discard /\ r.active = g.active
    /\ r.chooser = g.chooser /\ r.completed = g.completed /\ r.abandoned = g.abandoned
    /\ r.hands = [g.hands EXCEPT ![p] = @ \cup drawn]
    /\ r.window.open => g.window.open /\ g.window.owner = p
    /\ r.window.owner = g.window.owner
    /\ \/ g.amount = 0 /\ r.amount = 0 /\ r.target = g.target /\ r.current = g.current
       \/ r.amount = 0 /\ r.target = None /\ r.seats[r.current] = Neighbour(g, p)

LEMMA DrawFields ==
    ASSUME NEW g, GameSound(g), NEW p \in Ring(g), NEW drawn \in SUBSET Cards
    PROVE  Drew(g, p, drawn, DrawCard(g, p, drawn).game)
<1> DEFINE f      == CloseOnTurn(g, p)
           got    == [f EXCEPT !.hands[p] = @ \cup drawn]
           next   == NextIndex(g, SeatOf(g, p))
           passed == [got EXCEPT !.amount = 0, !.target = None, !.current = next]
           r      == DrawCard(g, p, drawn).game
<1>1. /\ g \in Game /\ InOrder(g) /\ g.seats \in Seq(Players) /\ g.dir \in {1, -1}
      /\ p \in Players
  BY SoundParts
<1>2. /\ next \in DOMAIN g.seats /\ next \in Nat /\ g.seats[next] = Neighbour(g, p)
  <2>1. next \in DOMAIN g.seats
    BY <1>1, SeatOfPlayer, NextIndexIsAfter
  <2> QED BY <1>1, <2>1 DEF Neighbour
<1>3. /\ f \in Game /\ (f.window.open <=> g.window.open /\ g.window.owner = p)
      /\ f.window.owner = g.window.owner
  BY <1>1, CloseOnTurnFields
<1>4. /\ f.hands = g.hands /\ f.discard = g.discard /\ f.active = g.active
      /\ f.seats = g.seats /\ f.dir = g.dir /\ f.current = g.current
      /\ f.chooser = g.chooser /\ f.amount = g.amount /\ f.target = g.target
      /\ f.completed = g.completed /\ f.abandoned = g.abandoned /\ f.winner = g.winner
  BY <1>1 DEF CloseOnTurn, Game
<1> HIDE DEF f, next
<1>5. [f.hands EXCEPT ![p] = @ \cup drawn] \in [Players -> SUBSET Cards]
  BY <1>3 DEF Game
<1>6. got \in Game
  BY <1>3, <1>5 DEF Game
<1>7. /\ got.hands = [g.hands EXCEPT ![p] = @ \cup drawn] /\ got.window = f.window
      /\ got.discard = g.discard /\ got.active = g.active
      /\ got.seats = g.seats /\ got.dir = g.dir /\ got.current = g.current
      /\ got.chooser = g.chooser /\ got.amount = g.amount /\ got.target = g.target
      /\ got.completed = g.completed /\ got.abandoned = g.abandoned
  BY <1>3, <1>4 DEF Game
<1> HIDE DEF got
<1>8. passed \in Game
  BY <1>2, <1>6 DEF Game
<1>9. /\ passed.hands = got.hands /\ passed.window = got.window
      /\ passed.discard = got.discard /\ passed.active = got.active
      /\ passed.seats = got.seats /\ passed.dir = got.dir /\ passed.current = next
      /\ passed.chooser = got.chooser /\ passed.amount = 0 /\ passed.target = None
      /\ passed.completed = got.completed /\ passed.abandoned = got.abandoned
  BY <1>6 DEF Game
<1>10. \/ r = got /\ g.amount = 0
       \/ r = passed
  BY DEF DrawCard, Result, got, f, next
<1> SUFFICES Drew(g, p, drawn, r)
  OBVIOUS
<1> HIDE DEF passed, r
<1>11. CASE r = got /\ g.amount = 0
  <2>1. InOrder(r)
    BY <1>1, <1>7, <1>11 DEF InOrder
  <2> QED BY <1>1, <1>3, <1>6, <1>7, <1>11, <2>1 DEF Drew
<1>12. CASE r = passed
  <2>1. InOrder(r)
    BY <1>1, <1>2, <1>7, <1>9, <1>12 DEF InOrder
  <2>2. r.seats[r.current] = Neighbour(g, p)
    BY <1>2, <1>7, <1>9, <1>12
  <2> QED BY <1>1, <1>3, <1>7, <1>8, <1>9, <1>12, <2>1, <2>2 DEF Drew
<1> QED BY <1>10, <1>11, <1>12

LEMMA DrawKeepsSound ==
    ASSUME NEW g, GameSound(g), NEW p, CanDraw(g, p), NEW drawn \in SUBSET Cards
    PROVE  GameSound(DrawCard(g, p, drawn).game)
<1> DEFINE r == DrawCard(g, p, drawn).game
<1>1. p \in Ring(g) /\ ~g.completed /\ g.chooser = None
  BY DEF CanDraw, Running
<1>2. Drew(g, p, drawn, r)
  BY <1>1, DrawFields
<1> SUFFICES GameSound(r)
  OBVIOUS
<1> HIDE DEF r
<1>3. /\ g.hands \in [Players -> SUBSET Cards] /\ Ring(g) \subseteq Players
      /\ InPlay(g) /\ Follow(g)
  BY <1>1, SoundParts DEF GameSound
<1>4. Ring(r) = Ring(g)
  BY <1>2 DEF Ring, Drew
<1>5. \A q \in Ring(g) : r.hands[q] # {}
  BY <1>2, <1>3 DEF InPlay, Drew
<1>6. r.amount = 0 /\ r.target = None /\ r.chooser = None
  BY <1>1, <1>2, <1>3 DEF Drew, InPlay, DebtsAreReal
<1>7. DebtsAreReal(r)
  BY <1>6 DEF DebtsAreReal
<1>8. InPlay(r)
  BY <1>2, <1>3, <1>4, <1>5, <1>7 DEF InPlay, Drew
<1>9. Follow(r)
  BY <1>2, <1>3 DEF Follow, Drew
<1> QED BY <1>1, <1>2, <1>8, <1>9 DEF GameSound, Drew

-----------------------------------------------------------------------------
(* The deck                                                                *)

\* The first n cards of a deck leave it together, each once.
LEMMA CardsLeave ==
    ASSUME NEW s \in Seq(Cards), NoRepeats(s), NEW n \in Nat, n <= Len(s)
    PROVE  LET drawn == Elements(SubSeq(s, 1, n))
               left  == SubSeq(s, n + 1, Len(s))
           IN /\ drawn \subseteq Elements(s) /\ drawn \subseteq Cards
              /\ left \in Seq(Cards) /\ NoRepeats(left)
              /\ Elements(left) \subseteq Elements(s) \ drawn
              /\ IsFiniteSet(drawn) /\ Cardinality(drawn) = n
<1> DEFINE top   == SubSeq(s, 1, n)
           left  == SubSeq(s, n + 1, Len(s))
<1>1. Len(s) \in Nat /\ DOMAIN s = 1 .. Len(s) /\ \A i \in 1 .. Len(s) : s[i] \in Cards
  OBVIOUS
<1>2. /\ top \in Seq(Cards) /\ Len(top) = n
      /\ \A i \in 1 .. n : top[i] = s[i]
  <2>1. \A i \in 1 .. n : s[i] \in Cards
    BY <1>1
  <2>2. /\ SubSeq(s, 1, n) \in Seq(Cards)
        /\ Len(SubSeq(s, 1, n)) = IF 1 <= n THEN n - 1 + 1 ELSE 0
        /\ \A i \in 1 .. n - 1 + 1 : SubSeq(s, 1, n)[i] = s[1 + i - 1]
    BY <2>1, SubSeqProperties
  <2>3. n - 1 + 1 = n /\ \A i \in 1 .. n : 1 + i - 1 = i
    OBVIOUS
  <2> HIDE DEF top
  <2> QED BY <2>2, <2>3 DEF top
<1>3. /\ left \in Seq(Cards) /\ Len(left) = Len(s) - n
      /\ \A i \in 1 .. Len(s) - n : left[i] = s[n + i]
  <2>1. \A i \in n + 1 .. Len(s) : s[i] \in Cards
    BY <1>1
  <2>2. /\ SubSeq(s, n + 1, Len(s)) \in Seq(Cards)
        /\ Len(SubSeq(s, n + 1, Len(s))) = IF n + 1 <= Len(s) THEN Len(s) - (n + 1) + 1 ELSE 0
        /\ \A i \in 1 .. Len(s) - (n + 1) + 1 : SubSeq(s, n + 1, Len(s))[i] = s[n + 1 + i - 1]
    BY <1>1, <2>1, SubSeqProperties
  <2>3. \A m \in Nat : n <= m =>
          m - (n + 1) + 1 = m - n /\ (n + 1 <= m \/ m - n = 0)
    OBVIOUS
  <2>4. \A i \in 1 .. Len(s) - n : n + 1 + i - 1 = n + i
    OBVIOUS
  <2> HIDE DEF left
  <2> QED BY <1>1, <2>2, <2>3, <2>4 DEF left
<1> HIDE DEF top, left
<1>4. DOMAIN top = 1 .. n /\ DOMAIN left = 1 .. Len(s) - n
  BY <1>1, <1>2, <1>3
<1>5. Elements(top) \subseteq Elements(s) /\ Elements(top) \subseteq Cards
  BY <1>1, <1>2, <1>4 DEF Elements
<1>6. NoRepeats(left)
  <2> SUFFICES ASSUME NEW i \in 1 .. Len(s) - n, NEW j \in 1 .. Len(s) - n, left[i] = left[j]
               PROVE  i = j
    BY <1>4 DEF NoRepeats
  <2>1. n + i \in DOMAIN s /\ n + j \in DOMAIN s /\ s[n + i] = s[n + j]
    BY <1>1, <1>3
  <2>2. n + i = n + j
    BY <2>1 DEF NoRepeats
  <2> QED BY <2>2
<1>7. Elements(left) \subseteq Elements(s) \ Elements(top)
  <2> SUFFICES ASSUME NEW i \in 1 .. Len(s) - n
               PROVE  left[i] \in Elements(s) /\ \A j \in 1 .. n : left[i] # top[j]
    BY <1>4 DEF Elements
  <2>1. left[i] = s[n + i] /\ n + i \in DOMAIN s /\ \A j \in 1 .. n : j # n + i /\ j \in DOMAIN s
    BY <1>1, <1>3
  <2> QED BY <1>2, <2>1 DEF Elements, NoRepeats
<1>8. IsFiniteSet(Elements(top)) /\ Cardinality(Elements(top)) = n
  <2>1. IsFiniteSet(1 .. n) /\ Cardinality(1 .. n) = n
    <3>1. /\ IsFiniteSet(1 .. n)
          /\ Cardinality(1 .. n) = IF 1 > n THEN 0 ELSE n - 1 + 1
      BY FS_Interval
    <3> QED BY <3>1
  <2>2. top \in [1 .. n -> Elements(top)]
    BY <1>2, <1>4 DEF Elements
  <2>3. \A i, j \in 1 .. n : top[i] = top[j] => i = j
    BY <1>1, <1>2 DEF NoRepeats
  <2>4. \A c \in Elements(top) : \E i \in 1 .. n : top[i] = c
    BY <1>4 DEF Elements
  <2>5. top \in Bijection(1 .. n, Elements(top))
    BY <2>2, <2>3, <2>4 DEF Bijection, Injection, Surjection, IsInjective
  <2> QED BY <2>1, <2>5, FS_Bijection DEF ExistsBijection
<1> QED BY <1>3, <1>5, <1>6, <1>7, <1>8 DEF top, left

\* Cards that move from the deck to one hand are where they were nowhere else.
LEMMA TakingConserves ==
    ASSUME NEW g, NEW s \in Seq(Cards), NEW n \in Nat, n <= Len(s), Conserved(g, s),
           g.hands \in [Players -> SUBSET Cards], NEW r, NEW p \in Players,
           r.hands = [g.hands EXCEPT ![p] = @ \cup Elements(SubSeq(s, 1, n))],
           r.discard = g.discard
    PROVE  Conserved(r, SubSeq(s, n + 1, Len(s)))
<1> DEFINE drawn == Elements(SubSeq(s, 1, n))
           left  == SubSeq(s, n + 1, Len(s))
<1>1. /\ drawn \subseteq Elements(s)
      /\ NoRepeats(left) /\ Elements(left) \subseteq Elements(s) \ drawn
  BY CardsLeave DEF Conserved
<1>2. \A q \in Players : r.hands[q] = IF q = p THEN g.hands[q] \cup drawn ELSE g.hands[q]
  OBVIOUS
<1> HIDE DEF drawn, left
<1>3. \A q \in Players : g.hands[q] \cap (Elements(s) \cup {g.discard}) = {}
  BY DEF Conserved
<1>4. g.discard \notin Elements(s)
  BY DEF Conserved
<1>5. \A q, t \in Players : q # t => r.hands[q] \cap r.hands[t] = {}
  BY <1>1, <1>2, <1>3 DEF Conserved
<1>6. \A q \in Players : r.hands[q] \cap (Elements(left) \cup {g.discard}) = {}
  <2> SUFFICES ASSUME NEW q \in Players, NEW c \in r.hands[q]
               PROVE  c \notin Elements(left) /\ c # g.discard
    OBVIOUS
  <2>1. CASE c \in g.hands[q]
    BY <1>1, <1>3, <2>1
  <2>2. CASE c \in drawn
    BY <1>1, <1>4, <2>2
  <2> QED BY <1>2, <2>1, <2>2
<1> QED BY <1>1, <1>4, <1>5, <1>6 DEF Conserved, left

-----------------------------------------------------------------------------
(* ChooseColor, and what happens to a window                               *)

LEMMA ChooseFields ==
    ASSUME NEW g, GameSound(g), NEW p, CanChoose(g, p), NEW col \in Colors
    PROVE  LET r == ChooseColor(g, p, col).game
           IN /\ r \in Game /\ InOrder(r) /\ r.active = col /\ r.chooser = None
              /\ r.seats = g.seats /\ r.hands = g.hands /\ r.discard = g.discard
              /\ r.dir = g.dir /\ r.amount = g.amount /\ r.target = g.target
              /\ r.window = g.window /\ r.completed = g.completed
              /\ r.abandoned = g.abandoned
              /\ r.seats[r.current] = Neighbour(g, p)
<1> DEFINE next == IF g.amount > 0 THEN SeatOf(g, g.target) ELSE NextIndex(g, SeatOf(g, p))
           r    == ChooseColor(g, p, col).game
<1>1. ~g.completed /\ g.chooser = p /\ p # None
  BY DEF CanChoose, Running
<1>2. /\ g \in Game /\ InOrder(g) /\ g.seats \in Seq(Players) /\ NoRepeats(g.seats)
      /\ g.dir \in {1, -1} /\ DebtsAreReal(g)
  BY <1>1, SoundParts DEF InPlay
<1>3. p \in Ring(g) /\ (g.amount > 0 => g.target = Neighbour(g, p))
  BY <1>1, <1>2 DEF DebtsAreReal
<1>4. /\ Neighbour(g, p) \in Ring(g)
      /\ SeatOf(g, Neighbour(g, p)) = NextIndex(g, SeatOf(g, p))
  BY <1>2, <1>3, NeighbourIsNext
<1>5. next = SeatOf(g, Neighbour(g, p))
  BY <1>3, <1>4
<1>6. next \in DOMAIN g.seats /\ next \in Nat /\ g.seats[next] = Neighbour(g, p)
  <2>1. next \in DOMAIN g.seats /\ g.seats[next] = Neighbour(g, p)
    BY <1>2, <1>4, <1>5, SeatOfPlayer
  <2> QED BY <1>2, <2>1
<1>7. r = [g EXCEPT !.active = col, !.chooser = None, !.current = next]
  BY DEF ChooseColor, Result
<1> SUFFICES
      /\ r \in Game /\ InOrder(r) /\ r.active = col /\ r.chooser = None
      /\ r.seats = g.seats /\ r.hands = g.hands /\ r.discard = g.discard
      /\ r.dir = g.dir /\ r.amount = g.amount /\ r.target = g.target
      /\ r.window = g.window /\ r.completed = g.completed
      /\ r.abandoned = g.abandoned
      /\ r.seats[r.current] = Neighbour(g, p)
  OBVIOUS
<1> HIDE DEF r, next
<1>8. r \in Game
  BY <1>2, <1>6, <1>7 DEF Game
<1>9. /\ r.active = col /\ r.chooser = None /\ r.current = next
      /\ r.seats = g.seats /\ r.hands = g.hands /\ r.discard = g.discard
      /\ r.dir = g.dir /\ r.amount = g.amount /\ r.target = g.target
      /\ r.window = g.window /\ r.completed = g.completed /\ r.abandoned = g.abandoned
  BY <1>2, <1>7 DEF Game
<1>10. InOrder(r)
  BY <1>2, <1>6, <1>9 DEF InOrder
<1> QED BY <1>6, <1>8, <1>9, <1>10

LEMMA ChooseKeepsSound ==
    ASSUME NEW g, GameSound(g), NEW p, CanChoose(g, p), NEW col \in Colors
    PROVE  GameSound(ChooseColor(g, p, col).game)
<1> DEFINE r == ChooseColor(g, p, col).game
<1>1. /\ r \in Game /\ InOrder(r) /\ r.chooser = None
      /\ r.seats = g.seats /\ r.hands = g.hands /\ r.discard = g.discard
      /\ r.amount = g.amount /\ r.target = g.target
      /\ r.window = g.window /\ r.completed = g.completed
      /\ r.abandoned = g.abandoned
  BY ChooseFields
<1> SUFFICES GameSound(r)
  OBVIOUS
<1> HIDE DEF r
<1>2. ~g.completed /\ g.chooser # None
  BY DEF CanChoose, Running
<1>3. InPlay(g) /\ IsWild(g.discard)
  BY <1>2 DEF GameSound, InPlay, DebtsAreReal
<1>4. Ring(r) = Ring(g)
  BY <1>1 DEF Ring
<1>5. DebtsAreReal(r)
  BY <1>1, <1>3, <1>4 DEF InPlay, DebtsAreReal
<1>6. InPlay(r)
  BY <1>1, <1>3, <1>4, <1>5 DEF InPlay
<1> QED BY <1>1, <1>2, <1>3, <1>6 DEF GameSound, Follow

\* A hand that grows and a window that closes leave a running game sound.
LEMMA ClosingKeepsSound ==
    ASSUME NEW g, GameSound(g), ~g.completed, NEW p \in Players, NEW drawn \in SUBSET Cards
    PROVE  LET r == [g EXCEPT !.hands[p] = @ \cup drawn, !.window.open = FALSE]
           IN GameSound(r)
<1> DEFINE r == [g EXCEPT !.hands[p] = @ \cup drawn, !.window.open = FALSE]
<1>1. g \in Game /\ InOrder(g) /\ Follow(g) /\ InPlay(g)
  BY DEF GameSound
<1>2. r \in Game
  <2>1. [g.hands EXCEPT ![p] = @ \cup drawn] \in [Players -> SUBSET Cards]
    BY <1>1 DEF Game
  <2> QED BY <1>1, <2>1 DEF Game
<1>3. /\ r.seats = g.seats /\ r.discard = g.discard /\ r.active = g.active /\ r.dir = g.dir
      /\ r.current = g.current /\ r.chooser = g.chooser /\ r.amount = g.amount
      /\ r.target = g.target /\ r.completed = g.completed /\ r.abandoned = g.abandoned
      /\ r.hands = [g.hands EXCEPT ![p] = @ \cup drawn] /\ ~r.window.open
  BY <1>1 DEF Game
<1> HIDE DEF r
<1>4. Ring(r) = Ring(g) /\ Ring(g) \subseteq Players /\ g.hands \in [Players -> SUBSET Cards]
  BY <1>3, SoundParts DEF Ring
<1>5. \A q \in Ring(g) : r.hands[q] # {}
  BY <1>1, <1>3, <1>4 DEF InPlay
<1>6. \A q : Neighbour(r, q) = Neighbour(g, q)
  BY <1>3, SameNeighbours
<1>7. DebtsAreReal(r)
  BY <1>1, <1>3, <1>4, <1>6 DEF InPlay, DebtsAreReal
<1>8. InPlay(r)
  BY <1>1, <1>3, <1>4, <1>5, <1>7 DEF InPlay
<1>9. InOrder(r) /\ Follow(r)
  BY <1>1, <1>3 DEF InOrder, Follow
<1> QED BY <1>2, <1>3, <1>8, <1>9 DEF GameSound, r

LEMMA CloseKeepsSound ==
    ASSUME NEW g, GameSound(g), ~g.completed
    PROVE  GameSound([g EXCEPT !.window.open = FALSE])
<1> DEFINE r == [g EXCEPT !.window.open = FALSE]
<1>1. g \in Game /\ InOrder(g) /\ Follow(g) /\ InPlay(g)
  BY DEF GameSound
<1>2. r \in Game
  BY <1>1 DEF Game
<1>3. /\ r.seats = g.seats /\ r.discard = g.discard /\ r.active = g.active /\ r.dir = g.dir
      /\ r.current = g.current /\ r.chooser = g.chooser /\ r.amount = g.amount
      /\ r.target = g.target /\ r.completed = g.completed /\ r.abandoned = g.abandoned
      /\ r.hands = g.hands /\ ~r.window.open
  BY <1>1 DEF Game
<1> HIDE DEF r
<1>4. Ring(r) = Ring(g) /\ \A q : Neighbour(r, q) = Neighbour(g, q)
  BY <1>3, SameNeighbours
<1>5. DebtsAreReal(r)
  BY <1>1, <1>3, <1>4 DEF InPlay, DebtsAreReal
<1>6. InPlay(r)
  BY <1>1, <1>3, <1>4, <1>5 DEF InPlay
<1>7. InOrder(r) /\ Follow(r)
  BY <1>1, <1>3 DEF InOrder, Follow
<1> QED BY <1>2, <1>3, <1>6, <1>7 DEF GameSound, r

-----------------------------------------------------------------------------
(* SkipTurn                                                                *)

LEMMA ClearDebtsFields ==
    ASSUME NEW g \in Game, NEW p \in Players
    PROVE  LET r == ClearDebts(g, p)
           IN /\ r \in Game
              /\ r.chooser = IF g.chooser = p THEN None ELSE g.chooser
              /\ r.amount = IF g.target = p THEN 0 ELSE g.amount
              /\ r.target = IF g.target = p THEN None ELSE g.target
              /\ r.seats = g.seats /\ r.hands = g.hands /\ r.discard = g.discard
              /\ r.active = g.active /\ r.dir = g.dir /\ r.current = g.current
              /\ r.window = g.window /\ r.completed = g.completed
              /\ r.abandoned = g.abandoned /\ r.winner = g.winner
BY DEF ClearDebts, Game

\* What SkipTurn makes of a game.
Skipped(g, p, r) ==
    /\ r \in Game /\ InOrder(r)
    /\ r.seats = g.seats /\ r.hands = g.hands /\ r.discard = g.discard
    /\ r.active = g.active /\ r.dir = g.dir
    /\ r.completed = g.completed /\ r.abandoned = g.abandoned
    /\ r.chooser = IF g.chooser = p THEN None ELSE g.chooser
    /\ r.amount = IF g.target = p THEN 0 ELSE g.amount
    /\ r.target = IF g.target = p THEN None ELSE g.target
    /\ r.window.open => g.window.open /\ g.window.owner = Neighbour(g, p)
    /\ r.window.owner = g.window.owner
    /\ r.seats[r.current] = Neighbour(g, p)

LEMMA SkipFields ==
    ASSUME NEW g, GameSound(g), NEW p \in Ring(g)
    PROVE  Skipped(g, p, SkipTurn(g, p).game)
<1> DEFINE index == NextIndex(g, SeatOf(g, p))
           next  == g.seats[index]
           clear == ClearDebts(g, p)
           f     == CloseOnTurn(clear, next)
           r     == SkipTurn(g, p).game
<1>1. /\ g \in Game /\ InOrder(g) /\ g.seats \in Seq(Players) /\ g.dir \in {1, -1}
      /\ NoRepeats(g.seats) /\ p \in Players
  BY SoundParts
<1>2. /\ index \in DOMAIN g.seats /\ index \in Nat /\ next = Neighbour(g, p) /\ next \in Players
  <2>1. index \in DOMAIN g.seats
    BY <1>1, SeatOfPlayer, NextIndexIsAfter
  <2> QED BY <1>1, <2>1 DEF Neighbour
<1>3. r = [f EXCEPT !.current = index]
  BY DEF SkipTurn, Result
<1> HIDE DEF index, next
<1>4. /\ clear \in Game
      /\ clear.chooser = IF g.chooser = p THEN None ELSE g.chooser
      /\ clear.amount = IF g.target = p THEN 0 ELSE g.amount
      /\ clear.target = IF g.target = p THEN None ELSE g.target
      /\ clear.seats = g.seats /\ clear.hands = g.hands /\ clear.discard = g.discard
      /\ clear.active = g.active /\ clear.dir = g.dir
      /\ clear.window = g.window /\ clear.completed = g.completed
      /\ clear.abandoned = g.abandoned
  BY <1>1, ClearDebtsFields
<1> HIDE DEF clear
<1>5. /\ f \in Game /\ (f.window.open <=> clear.window.open /\ clear.window.owner = next)
      /\ f.window.owner = clear.window.owner
  BY <1>2, <1>4, CloseOnTurnFields
<1>6. /\ f.hands = clear.hands /\ f.discard = clear.discard /\ f.active = clear.active
      /\ f.seats = clear.seats /\ f.dir = clear.dir
      /\ f.chooser = clear.chooser /\ f.amount = clear.amount /\ f.target = clear.target
      /\ f.completed = clear.completed /\ f.abandoned = clear.abandoned
  BY <1>4 DEF CloseOnTurn, Game
<1> SUFFICES Skipped(g, p, r)
  OBVIOUS
<1> HIDE DEF f, r
<1>7. r \in Game
  BY <1>2, <1>3, <1>5 DEF Game
<1>8. /\ r.hands = f.hands /\ r.discard = f.discard /\ r.active = f.active
      /\ r.seats = f.seats /\ r.dir = f.dir /\ r.current = index /\ r.window = f.window
      /\ r.chooser = f.chooser /\ r.amount = f.amount /\ r.target = f.target
      /\ r.completed = f.completed /\ r.abandoned = f.abandoned
  BY <1>3, <1>5 DEF Game
<1>9. InOrder(r) /\ r.seats[r.current] = Neighbour(g, p)
  BY <1>1, <1>2, <1>4, <1>6, <1>8 DEF InOrder, next
<1> QED BY <1>2, <1>4, <1>5, <1>6, <1>7, <1>8, <1>9 DEF Skipped

LEMMA SkipKeepsSound ==
    ASSUME NEW g, GameSound(g), NEW p, CanSkip(g, p)
    PROVE  GameSound(SkipTurn(g, p).game) /\ SkipTurn(g, p).game.chooser = None
<1> DEFINE r == SkipTurn(g, p).game
<1>1. p \in Ring(g) /\ ~g.completed /\ p = CurrentPlayer(g)
  BY DEF CanSkip, Running
<1>2. Skipped(g, p, r)
  BY <1>1, SkipFields
<1> SUFFICES GameSound(r) /\ r.chooser = None
  OBVIOUS
<1> HIDE DEF r
<1>3. InPlay(g) /\ Follow(g) /\ DebtsAreReal(g) /\ Ring(g) \subseteq Players
  BY <1>1, SoundParts DEF GameSound, InPlay
<1>4. Ring(r) = Ring(g)
  BY <1>2 DEF Ring, Skipped
<1>5. r.chooser = None
  BY <1>1, <1>2 DEF CurrentPlayer, Skipped
<1>6. p # None
  BY <1>1, <1>3, CardsAssumption
<1>7. DebtsAreReal(r)
  BY <1>2, <1>3, <1>4, <1>5, <1>6 DEF DebtsAreReal, Skipped
<1>8. InPlay(r) /\ Follow(r)
  BY <1>2, <1>3, <1>4, <1>7 DEF InPlay, Follow, Skipped
<1> QED BY <1>1, <1>2, <1>5, <1>8 DEF GameSound, Skipped

-----------------------------------------------------------------------------
(* ForfeitPlayer                                                           *)

\* What ForfeitPlayer makes of a game.
Forfeited(g, p, r) ==
    /\ r \in Game /\ InOrder(r)
    /\ r.seats = Without(g.seats, SeatOf(g, p))
    /\ r.hands = [g.hands EXCEPT ![p] = {}]
    /\ r.discard = g.discard /\ r.active = g.active /\ r.dir = g.dir
    /\ r.completed <=> Len(r.seats) = 1
    /\ r.completed => r.winner = r.seats[1] /\ r.abandoned /\ r.amount = 0 /\ ~r.window.open
    /\ r.window.open => g.window.open /\ g.window.owner # p
    /\ r.window.owner = g.window.owner
    /\ ~r.completed =>
         /\ r.abandoned = g.abandoned
         /\ r.chooser = IF g.chooser = p THEN None ELSE g.chooser
         /\ r.amount = IF g.target = p THEN 0 ELSE g.amount
         /\ r.target = IF g.target = p THEN None ELSE g.target

LEMMA CurrentWithoutSeat ==
    ASSUME NEW s \in Seq(Players), Len(s) >= 1, NEW i \in 1 .. Len(s) + 1,
           NEW current \in 1 .. Len(s) + 1
    PROVE  CurrentWithout(s, i, current) \in DOMAIN s
<1>1. Len(s) \in Nat /\ DOMAIN s = 1 .. Len(s)
  OBVIOUS
<1> QED BY <1>1 DEF CurrentWithout

LEMMA ForfeitFields ==
    ASSUME NEW g, GameSound(g), NEW p, CanForfeit(g, p)
    PROVE  Forfeited(g, p, ForfeitPlayer(g, p).game)
<1> DEFINE seat     == SeatOf(g, p)
           rest     == Without(g.seats, seat)
           ownsOpen == g.window.open /\ g.window.owner = p
           clear    == ClearDebts(g, p)
           current  == CurrentWithout(rest, seat, clear.current)
           removed  == [clear EXCEPT !.window.open = @ /\ ~ownsOpen, !.hands[p] = {},
                                     !.seats = rest, !.current = current]
           next     == removed.seats[removed.current]
           r        == ForfeitPlayer(g, p).game
<1>1. /\ p \in Ring(g) /\ ~g.completed
      /\ g \in Game /\ InOrder(g) /\ g.seats \in Seq(Players)
      /\ NoRepeats(g.seats) /\ p \in Players /\ Len(g.seats) >= 2 /\ g.current \in DOMAIN g.seats
  BY SoundParts DEF CanForfeit, Running
<1>2. seat \in DOMAIN g.seats
  BY <1>1, SeatOfPlayer
<1>3. rest \in Seq(Players) /\ Len(rest) = Len(g.seats) - 1 /\ NoRepeats(rest)
  BY <1>1, <1>2, WithoutSeat
<1>4. \/ Len(rest) = 1 /\ r = [Finish(removed, rest[1]) EXCEPT !.abandoned = TRUE]
      \/ Len(rest) # 1 /\ r \in {removed, CloseOnTurn(removed, next)}
  BY DEF ForfeitPlayer, Result
<1> HIDE DEF seat, rest
<1>5. /\ clear \in Game
      /\ clear.chooser = IF g.chooser = p THEN None ELSE g.chooser
      /\ clear.amount = IF g.target = p THEN 0 ELSE g.amount
      /\ clear.target = IF g.target = p THEN None ELSE g.target
      /\ clear.seats = g.seats /\ clear.hands = g.hands /\ clear.discard = g.discard
      /\ clear.active = g.active /\ clear.dir = g.dir /\ clear.current = g.current
      /\ clear.window = g.window /\ clear.completed = g.completed
      /\ clear.abandoned = g.abandoned
  BY <1>1, ClearDebtsFields
<1>6. current \in DOMAIN rest /\ current \in Nat
  <2>1. /\ Len(rest) \in Nat /\ Len(rest) >= 1 /\ seat \in 1 .. Len(rest) + 1
        /\ clear.current \in 1 .. Len(rest) + 1
    BY <1>1, <1>2, <1>3, <1>5
  <2>2. current \in DOMAIN rest
    BY <1>3, <2>1, CurrentWithoutSeat
  <2> QED BY <1>3, <2>2
<1> HIDE DEF clear, current
<1>7. /\ removed \in Game
      /\ removed.hands = [clear.hands EXCEPT ![p] = {}]
      /\ (removed.window.open <=> clear.window.open /\ ~ownsOpen)
      /\ removed.window.owner = clear.window.owner
      /\ removed.seats = rest /\ removed.current = current
      /\ removed.discard = clear.discard /\ removed.active = clear.active
      /\ removed.dir = clear.dir /\ removed.chooser = clear.chooser
      /\ removed.amount = clear.amount /\ removed.target = clear.target
      /\ removed.completed = clear.completed /\ removed.abandoned = clear.abandoned
  <2>1. [clear.hands EXCEPT ![p] = {}] \in [Players -> SUBSET Cards]
    BY <1>5 DEF Game
  <2>2. [clear.window EXCEPT !.open = @ /\ ~ownsOpen] \in [owner : Players \cup {None}, open : BOOLEAN]
    BY <1>5 DEF Game
  <2>3. removed \in Game
    BY <1>3, <1>5, <1>6, <2>1, <2>2 DEF Game
  <2> QED BY <1>5, <2>3 DEF Game
<1> SUFFICES Forfeited(g, p, r)
  OBVIOUS
<1>8. next \in Players
  BY <1>3, <1>6, <1>7
<1> HIDE DEF removed, r, next
<1>9. CASE Len(rest) = 1
  <2> DEFINE f == Finish(removed, rest[1])
  <2>1. rest[1] \in Players
    BY <1>3, <1>9
  <2>2. /\ f \in Game /\ f.completed /\ f.amount = 0 /\ ~f.window.open /\ f.winner = rest[1]
        /\ f.seats = removed.seats /\ f.hands = removed.hands /\ f.discard = removed.discard
        /\ f.active = removed.active /\ f.dir = removed.dir /\ f.current = removed.current
    BY <1>7, <2>1, FinishFields
  <2>3. f.window.owner = removed.window.owner
    BY <1>7 DEF Finish, Game
  <2> HIDE DEF f
  <2>4. r = [f EXCEPT !.abandoned = TRUE]
    BY <1>4, <1>9 DEF f
  <2>5. /\ r \in Game /\ r.completed = f.completed /\ r.amount = f.amount /\ r.window = f.window
        /\ r.winner = f.winner /\ r.seats = f.seats /\ r.hands = f.hands
        /\ r.discard = f.discard /\ r.active = f.active /\ r.dir = f.dir
        /\ r.current = f.current /\ r.abandoned
    BY <2>2, <2>4 DEF Game
  <2>6. InOrder(r)
    BY <1>3, <1>6, <1>7, <2>2, <2>5 DEF InOrder
  <2> QED BY <1>5, <1>7, <1>9, <2>2, <2>3, <2>5, <2>6 DEF Forfeited, rest, seat
<1>10. CASE Len(rest) # 1
  <2>1. r \in {removed, CloseOnTurn(removed, next)}
    BY <1>4, <1>10
  <2>2. /\ r \in Game /\ r.completed = removed.completed /\ r.amount = removed.amount
        /\ r.target = removed.target /\ r.chooser = removed.chooser
        /\ r.seats = removed.seats /\ r.hands = removed.hands
        /\ r.discard = removed.discard /\ r.active = removed.active /\ r.dir = removed.dir
        /\ r.current = removed.current /\ r.abandoned = removed.abandoned
        /\ r.window.open => removed.window.open
        /\ r.window.owner = removed.window.owner
    <3>1. CASE r = removed
      BY <1>7, <3>1
    <3>2. CASE r = CloseOnTurn(removed, next)
      <4>1. removed \in Game /\ next \in Players
        BY <1>7, <1>8
      <4> QED
        BY ONLY <3>2, <4>1, CloseOnTurnKeeps
    <3> QED BY <2>1, <3>1, <3>2
  <2>3. InOrder(r)
    BY <1>3, <1>6, <1>7, <2>2 DEF InOrder
  <2>4. ~r.completed
    BY <1>1, <1>5, <1>7, <2>2
  <2> QED BY <1>5, <1>7, <1>10, <2>2, <2>3, <2>4 DEF Forfeited, rest, seat
<1> QED BY <1>9, <1>10

LEMMA ForfeitKeepsSound ==
    ASSUME NEW g, GameSound(g), NEW p, CanForfeit(g, p)
    PROVE  GameSound(ForfeitPlayer(g, p).game)
<1> DEFINE r == ForfeitPlayer(g, p).game
           seat == SeatOf(g, p)
<1>1. Forfeited(g, p, r)
  BY ForfeitFields
<1> SUFFICES GameSound(r)
  OBVIOUS
<1> HIDE DEF r
<1>2. /\ p \in Ring(g) /\ ~g.completed
      /\ g.seats \in Seq(Players) /\ NoRepeats(g.seats) /\ Len(g.seats) >= 2
      /\ g.dir \in {1, -1} /\ g.hands \in [Players -> SUBSET Cards] /\ p \in Players
      /\ Ring(g) \subseteq Players /\ InPlay(g) /\ DebtsAreReal(g) /\ g.amount \in Nat
  BY SoundParts DEF CanForfeit, Running, InPlay
<1>3. seat \in DOMAIN g.seats /\ g.seats[seat] = p
  BY <1>2, SeatOfPlayer
<1>4. /\ r.seats \in Seq(Players) /\ Len(r.seats) = Len(g.seats) - 1
      /\ Ring(r) = Ring(g) \ {p}
  BY <1>1, <1>2, <1>3, WithoutSeat DEF Forfeited, Ring
<1>5. Follow(r)
  BY <1>1 DEF Forfeited, Follow, GameSound
<1>6. \A q \in Ring(r) : r.hands[q] = g.hands[q] /\ r.hands[q] # {}
  BY <1>1, <1>2, <1>4 DEF Forfeited, InPlay
<1>7. CASE r.completed
  <2>1. Len(r.seats) = 1 /\ r.winner = r.seats[1] /\ r.abandoned
    BY <1>1, <1>7 DEF Forfeited
  <2>2. DOMAIN r.seats = {1}
    BY <1>4, <2>1
  <2>3. Ring(r) = {r.winner}
    BY <2>1, <2>2 DEF Ring, Elements
  <2>4. Won(r)
    BY <2>1, <2>3 DEF Won
  <2> QED BY <1>1, <1>5, <1>7, <2>4 DEF GameSound, Forfeited
<1>8. CASE ~r.completed
  <2>1. Len(r.seats) >= 2 /\ Len(g.seats) >= 3
    <3>1. Len(r.seats) # 1
      BY <1>1, <1>8 DEF Forfeited
    <3>2. \A m \in Nat : m >= 2 /\ m - 1 # 1 => m - 1 >= 2 /\ m >= 3
      OBVIOUS
    <3>3. Len(g.seats) \in Nat
      BY <1>2
    <3> QED BY <1>2, <1>4, <3>1, <3>2, <3>3
  <2>2. /\ r.chooser = IF g.chooser = p THEN None ELSE g.chooser
        /\ r.amount = IF g.target = p THEN 0 ELSE g.amount
        /\ r.target = IF g.target = p THEN None ELSE g.target
        /\ r.abandoned = g.abandoned
    BY <1>1, <1>8 DEF Forfeited
  <2>3. IF r.amount > 0 THEN r.target \in Ring(r) ELSE r.target = None
    BY <1>2, <1>4, <2>2 DEF DebtsAreReal
  <2>4. ASSUME r.chooser # None
        PROVE  /\ r.chooser \in Ring(r) /\ IsWild(r.discard)
               /\ r.amount > 0 => r.target = Neighbour(r, r.chooser)
    <3>1. r.chooser = g.chooser /\ g.chooser # p /\ g.chooser # None
      BY <2>2, <2>4
    <3>2. g.chooser \in Ring(g) /\ IsWild(g.discard)
      BY <1>2, <3>1 DEF DebtsAreReal
    <3>3. ASSUME r.amount > 0 PROVE r.target = Neighbour(r, r.chooser)
      <4>1. g.amount > 0 /\ g.target # p /\ r.target = g.target
        BY <2>2, <3>3
      <4>2. g.target = Neighbour(g, g.chooser)
        BY <1>2, <3>1, <4>1 DEF DebtsAreReal
      <4>3. r.dir = g.dir /\ r.seats = Without(g.seats, SeatOf(g, p))
        BY <1>1 DEF Forfeited
      <4>4. Neighbour(r, g.chooser) = Neighbour(g, g.chooser)
        BY <1>2, <2>1, <3>1, <3>2, <4>1, <4>2, <4>3, NeighboursStay
      <4> QED BY <3>1, <4>1, <4>2, <4>4
    <3> QED BY <1>1, <1>4, <3>1, <3>2, <3>3 DEF Forfeited
  <2>5. DebtsAreReal(r)
    BY <2>3, <2>4 DEF DebtsAreReal
  <2>6. r.window.open => r.window.owner \in Ring(r)
    BY <1>1, <1>2, <1>4 DEF Forfeited, InPlay
  <2>7. InPlay(r)
    BY <1>2, <1>6, <2>1, <2>2, <2>5, <2>6 DEF InPlay
  <2> QED BY <1>1, <1>5, <1>8, <2>7 DEF GameSound, Forfeited
<1> QED BY <1>7, <1>8

\* Hands that only shrink under the same discard and deck stay apart.
LEMMA LosingConserves ==
    ASSUME NEW g, NEW r, NEW s, Conserved(g, s), r.discard = g.discard,
           \A q \in Players : r.hands[q] \subseteq g.hands[q]
    PROVE  Conserved(r, s)
BY DEF Conserved

-----------------------------------------------------------------------------
(* Every command keeps a game healthy                                      *)

LEMMA DealIsSound ==
    ASSUME NEW d, ProperDeal(d), NEW seats \in Seq(Players), NoRepeats(seats),
           Len(seats) >= 2, Len(seats) <= Len(d.hands)
    PROVE  Healthy(DealtTo(d, seats), d.deck)
<1> DEFINE seat(p) == CHOOSE i \in DOMAIN seats : seats[i] = p
           hands   == [p \in Players |-> IF p \in Elements(seats) THEN d.hands[seat(p)] ELSE {}]
           r       == DealtTo(d, seats)
<1>1. /\ d.hands \in Seq(SUBSET Cards) /\ d.top \in Cards
      /\ d.deck \in Seq(Cards) /\ NoRepeats(d.deck) /\ d.top \notin Elements(d.deck)
  BY DEF ProperDeal
<1>2. Len(seats) \in Nat /\ DOMAIN seats = 1 .. Len(seats) /\ DOMAIN d.hands = 1 .. Len(d.hands)
      /\ Len(d.hands) \in Nat
  BY <1>1
<1>3. \A p \in Elements(seats) : seat(p) \in DOMAIN seats /\ seats[seat(p)] = p
                                 /\ seat(p) \in DOMAIN d.hands
  BY <1>2 DEF Elements
<1> HIDE DEF seat
<1>4. hands \in [Players -> SUBSET Cards]
  BY <1>1, <1>3
<1>5. \A p \in Elements(seats) : p \in Players /\ hands[p] = d.hands[seat(p)]
  BY <1>2 DEF Elements
<1>6. \A p \in Players : p \notin Elements(seats) => hands[p] = {}
  OBVIOUS
<1>7. r = StartGame(seats, hands, d.top)
  BY DEF DealtTo, seat
<1> HIDE DEF hands
<1>8. (IF IsWild(d.top) THEN "red" ELSE d.top.color) \in Colors
  BY <1>1, CardsAssumption DEF IsWild
<1>9. r \in Game
  BY <1>1, <1>4, <1>7, <1>8 DEF StartGame, NoWindow, Game
<1>10. /\ r.seats = seats /\ r.hands = hands /\ r.discard = d.top /\ r.dir = 1
       /\ r.active = (IF IsWild(d.top) THEN "red" ELSE d.top.color)
       /\ r.current = 1 /\ r.chooser = None /\ r.amount = 0 /\ r.target = None
       /\ ~r.window.open /\ ~r.completed /\ ~r.abandoned
  BY <1>7 DEF StartGame, NoWindow
<1> HIDE DEF r
<1>11. InOrder(r) /\ Follow(r)
  BY <1>2, <1>10 DEF InOrder, Follow
<1>12. \A p \in Ring(r) : r.hands[p] # {}
  BY <1>3, <1>5, <1>10 DEF Ring, ProperDeal
<1>13. GameSound(r)
  BY <1>9, <1>10, <1>11, <1>12 DEF GameSound, InPlay, DebtsAreReal
<1>14. \A p \in Players : hands[p] \cap (Elements(d.deck) \cup {d.top}) = {}
  BY <1>3, <1>5, <1>6 DEF ProperDeal
<1>15. \A p, q \in Players : p # q => hands[p] \cap hands[q] = {}
  <2> SUFFICES ASSUME NEW p \in Elements(seats), NEW q \in Elements(seats), p # q
               PROVE  hands[p] \cap hands[q] = {}
    BY <1>6
  <2>1. seat(p) # seat(q)
    BY <1>3
  <2> QED BY <1>3, <1>5, <2>1 DEF ProperDeal
<1>16. Conserved(r, d.deck)
  BY <1>1, <1>10, <1>14, <1>15 DEF Conserved
<1> QED BY <1>1, <1>13, <1>16 DEF Healthy, r

LEMMA PlayHealthy ==
    ASSUME NEW g, NEW s, Healthy(g, s), NEW p, NEW c, CanPlay(g, p, c)
    PROVE  Healthy(PlayCard(g, p, c).game, s)
<1>1. GameSound(g) /\ Conserved(g, s) /\ p \in Ring(g) /\ ~g.completed
  BY DEF Healthy, CanPlay, Running
<1> QED BY <1>1, PlayKeepsSound, PlayConserves DEF Healthy

\* The n cards a command takes from the deck.
LEMMA CardsTaken ==
    ASSUME NEW g, NEW s, Healthy(g, s), NEW n \in Nat, n <= Len(s)
    PROVE  NextCards(s, n) \in SUBSET Cards /\ DeckAfter(s, n) \in Seq(Cards)
<1>1. s \in Seq(Cards) /\ NoRepeats(s)
  BY DEF Healthy, Conserved
<1> QED BY <1>1, CardsLeave DEF NextCards, DeckAfter

LEMMA DrawHealthy ==
    ASSUME NEW g, NEW s, Healthy(g, s), NEW p, CanDraw(g, p), DrawCount(g) <= Len(s)
    PROVE  Healthy(DrawCard(g, p, NextCards(s, DrawCount(g))).game, DeckAfter(s, DrawCount(g)))
<1> DEFINE n     == DrawCount(g)
           drawn == NextCards(s, n)
           r     == DrawCard(g, p, drawn).game
<1>1. /\ GameSound(g) /\ Conserved(g, s) /\ s \in Seq(Cards) /\ p \in Ring(g)
      /\ g.hands \in [Players -> SUBSET Cards]
  BY SoundParts DEF Healthy, CanDraw
<1>2. n \in Nat /\ n <= Len(s)
  BY <1>1, SoundParts DEF DrawCount
<1> HIDE DEF n
<1>3. drawn \in SUBSET Cards /\ DeckAfter(s, n) \in Seq(Cards)
  BY <1>2, CardsTaken
<1>4. drawn = Elements(SubSeq(s, 1, n)) /\ DeckAfter(s, n) = SubSeq(s, n + 1, Len(s))
  BY DEF NextCards, DeckAfter
<1> HIDE DEF drawn
<1>5. GameSound(r) /\ Drew(g, p, drawn, r)
  BY <1>1, <1>3, DrawKeepsSound, DrawFields
<1>6. /\ p \in Players /\ r.hands = [g.hands EXCEPT ![p] = @ \cup drawn]
      /\ r.discard = g.discard
  BY <1>5 DEF Drew
<1> HIDE DEF r
<1>7. Conserved(r, DeckAfter(s, n))
  BY <1>1, <1>2, <1>4, <1>6, TakingConserves
<1> QED BY <1>3, <1>5, <1>7 DEF Healthy, r, drawn, n

LEMMA ReportHealthy ==
    ASSUME NEW g, NEW s, Healthy(g, s), ~g.completed, NEW q \in Players, NEW n \in Nat, n <= Len(s)
    PROVE  Healthy(ReportMissingUno(g, q, NextCards(s, n)).game, DeckAfter(s, n))
<1> DEFINE drawn == NextCards(s, n)
           r     == [g EXCEPT !.hands[q] = @ \cup drawn, !.window.open = FALSE]
<1>1. /\ GameSound(g) /\ Conserved(g, s) /\ s \in Seq(Cards) /\ g \in Game
      /\ g.hands \in [Players -> SUBSET Cards]
  BY SoundParts DEF Healthy
<1>2. drawn \in SUBSET Cards /\ DeckAfter(s, n) \in Seq(Cards)
  BY CardsTaken
<1>3. drawn = Elements(SubSeq(s, 1, n)) /\ DeckAfter(s, n) = SubSeq(s, n + 1, Len(s))
  BY DEF NextCards, DeckAfter
<1>4. ReportMissingUno(g, q, drawn).game = r
  BY DEF ReportMissingUno, Result
<1> HIDE DEF drawn
<1>5. GameSound(r)
  BY <1>1, <1>2, ClosingKeepsSound
<1>6. r.hands = [g.hands EXCEPT ![q] = @ \cup drawn] /\ r.discard = g.discard
  BY <1>1 DEF Game
<1> HIDE DEF r
<1>7. Conserved(r, DeckAfter(s, n))
  <2>1. n <= Len(s) /\ s \in Seq(Cards) /\ Conserved(g, s)
    BY <1>1
  <2>2. /\ r.hands = [g.hands EXCEPT ![q] = @ \cup Elements(SubSeq(s, 1, n))]
        /\ r.discard = g.discard /\ g.hands \in [Players -> SUBSET Cards]
    BY <1>1, <1>3, <1>6
  <2>3. Conserved(r, SubSeq(s, n + 1, Len(s)))
    BY <2>1, <2>2, TakingConserves
  <2> QED BY <1>3, <2>3
<1> QED BY <1>2, <1>4, <1>5, <1>7 DEF Healthy, drawn

LEMMA ChooseHealthy ==
    ASSUME NEW g, NEW s, Healthy(g, s), NEW p, CanChoose(g, p), NEW col \in Colors
    PROVE  Healthy(ChooseColor(g, p, col).game, s)
<1> DEFINE r == ChooseColor(g, p, col).game
<1>1. GameSound(g) /\ Conserved(g, s)
  BY DEF Healthy
<1>2. GameSound(r) /\ r.hands = g.hands /\ r.discard = g.discard
  BY <1>1, ChooseKeepsSound, ChooseFields
<1> HIDE DEF r
<1>3. Conserved(r, s)
  BY <1>1, <1>2, LosingConserves
<1> QED BY <1>2, <1>3 DEF Healthy, r

LEMMA CloseHealthy ==
    ASSUME NEW g, NEW s, Healthy(g, s), ~g.completed
    PROVE  /\ Healthy(CallUno(g).game, s) /\ Healthy(ExpireUnoWindow(g).game, s)
           /\ CallUno(g).game = ExpireUnoWindow(g).game
           /\ ExpireUnoWindow(g).game = [g EXCEPT !.window.open = FALSE]
<1> DEFINE r == [g EXCEPT !.window.open = FALSE]
<1>1. GameSound(g) /\ Conserved(g, s) /\ g \in Game
  BY DEF Healthy, GameSound
<1>2. CallUno(g).game = r /\ ExpireUnoWindow(g).game = r
  BY DEF CallUno, ExpireUnoWindow, Result
<1>3. GameSound(r) /\ r.hands = g.hands /\ r.discard = g.discard
  BY <1>1, CloseKeepsSound DEF Game
<1> HIDE DEF r
<1>4. Conserved(r, s)
  BY <1>1, <1>3, LosingConserves
<1> QED BY <1>2, <1>3, <1>4 DEF Healthy, r

LEMMA SkipHealthy ==
    ASSUME NEW g, NEW s, Healthy(g, s), NEW p, CanSkip(g, p)
    PROVE  Healthy(SkipTurn(g, p).game, s)
<1> DEFINE r == SkipTurn(g, p).game
<1>1. GameSound(g) /\ Conserved(g, s) /\ p \in Ring(g)
  BY DEF Healthy, CanSkip
<1>2. GameSound(r) /\ r.hands = g.hands /\ r.discard = g.discard
  BY <1>1, SkipKeepsSound, SkipFields DEF Skipped
<1> HIDE DEF r
<1>3. Conserved(r, s)
  BY <1>1, <1>2, LosingConserves
<1> QED BY <1>2, <1>3 DEF Healthy, r

LEMMA ForfeitHealthy ==
    ASSUME NEW g, NEW s, Healthy(g, s), NEW p, CanForfeit(g, p)
    PROVE  Healthy(ForfeitPlayer(g, p).game, s)
<1> DEFINE r == ForfeitPlayer(g, p).game
<1>1. GameSound(g) /\ Conserved(g, s)
  BY DEF Healthy
<1>2. GameSound(r) /\ r.hands = [g.hands EXCEPT ![p] = {}] /\ r.discard = g.discard
  BY <1>1, ForfeitKeepsSound, ForfeitFields DEF Forfeited
<1> HIDE DEF r
<1>3. \A q \in Players : r.hands[q] \subseteq g.hands[q]
  BY <1>1, <1>2, SoundParts
<1>4. Conserved(r, s)
  BY <1>1, <1>2, <1>3, LosingConserves
<1> QED BY <1>2, <1>4 DEF Healthy, r

-----------------------------------------------------------------------------
(* The inductive invariant of a table                                      *)

\* Before the first deal.
LEMMA NoGameFields ==
    /\ NoGame.completed /\ NoGame.seats = <<>> /\ NoGame.amount = 0
    /\ ~NoGame.window.open /\ NoGame.target = None
BY DEF NoGame, StartGame, NoWindow

LEMMA SeatingIsSeq ==
    ASSUME NEW n \in Nat, NEW seats \in Seatings(n)
    PROVE  seats \in Seq(Players) /\ Len(seats) = n /\ NoRepeats(seats)
BY DEF Seatings

LEMMA StartBegins == ASSUME Start, expired \in BOOLEAN PROVE InGame'
<1>1. PICK d \in TableDeals : \E seats \in Seatings(Len(d.hands)) :
             table' = DealtTo(d, seats) /\ stock' = d.deck
  BY DEF Start
<1>2. PICK seats \in Seatings(Len(d.hands)) : table' = DealtTo(d, seats)
  BY <1>1
<1>3. ProperDeal(d) /\ Len(d.hands) >= 2 /\ Len(d.hands) \in Nat
  <2>1. ProperDeal(d) /\ Len(d.hands) >= 2
    BY TableAssumption
  <2> QED BY <2>1 DEF ProperDeal
<1>4. seats \in Seq(Players) /\ Len(seats) = Len(d.hands) /\ NoRepeats(seats)
  BY <1>3, SeatingIsSeq
<1>5. Healthy(DealtTo(d, seats), d.deck)
  BY <1>3, <1>4, DealIsSound
<1>6. stock' = d.deck /\ expired' = expired
  BY <1>1 DEF Start
<1> QED BY <1>2, <1>5, <1>6 DEF InGame

LEMMA MoveKeeps ==
    ASSUME InGame, NEW p \in Players,
           Play(p) \/ Draw(p) \/ Choose(p) \/ Call(p) \/ Skip(p) \/ Forfeit(p) \/ Expire(p)
    PROVE  InGame'
<1>1. Healthy(table, stock) /\ expired \in BOOLEAN
  BY DEF InGame
<1>2. CASE Play(p)
  BY <1>1, <1>2, PlayHealthy DEF Play, Commit, InGame
<1>3. CASE Draw(p)
  BY <1>1, <1>3, DrawHealthy DEF Draw, Commit, TakeFromStock, InGame
<1>4. CASE Choose(p)
  BY <1>1, <1>4, ChooseHealthy DEF Choose, Commit, InGame
<1>5. CASE Call(p) \/ Expire(p)
  <2>1. ~table.completed /\ UNCHANGED <<stock, expired>>
    BY <1>5 DEF Call, Expire, CanCallUno, CanExpire, Running
  <2>2. table' \in {CallUno(table).game, ExpireUnoWindow(table).game}
    BY <1>5 DEF Call, Expire, Commit
  <2>3. Healthy(table', stock)
    BY <1>1, <2>1, <2>2, CloseHealthy
  <2> QED BY <1>1, <2>1, <2>3 DEF InGame
<1>6. CASE Skip(p)
  BY <1>1, <1>6, SkipHealthy DEF Skip, Commit, InGame
<1>7. CASE Forfeit(p)
  BY <1>1, <1>7, ForfeitHealthy DEF Forfeit, Commit, InGame
<1> QED BY <1>2, <1>3, <1>4, <1>5, <1>6, <1>7

LEMMA ReportKeeps == ASSUME InGame, NEW p \in Players, NEW q \in Players, Report(p, q) PROVE InGame'
<1>1. Healthy(table, stock) /\ ~table.completed /\ expired \in BOOLEAN /\ ReportPenalty \in Nat
  BY DEF InGame, Report, CanReport, Running, ReportPenalty
<1> QED BY <1>1, ReportHealthy DEF Report, Commit, TakeFromStock, InGame

\* Before the first deal nothing but the deal can happen.
LEMMA FirstStep == ASSUME table = NoGame, TableNext PROVE Start
BY NoGameFields DEF TableNext, Play, Draw, Choose, Call, Skip, Forfeit, Expire, Report, DeadlinePasses,
     CanPlay, CanDraw, CanChoose, CanCallUno, CanSkip, CanForfeit, CanExpire, CanReport, Running

LEMMA StepHolds == IInv /\ [TableNext]_tableVars => IInv'
<1> SUFFICES ASSUME IInv, [TableNext]_tableVars PROVE IInv'
  OBVIOUS
<1>1. CASE UNCHANGED tableVars
  BY <1>1 DEF tableVars, IInv, InGame
<1>2. CASE Start
  BY <1>2, StartBegins DEF IInv, InGame
<1>3. CASE table = NoGame /\ TableNext
  BY <1>2, <1>3, FirstStep
<1>4. CASE InGame /\ TableNext
  <2>1. ASSUME NEW p \in Players, Play(p) \/ Draw(p) \/ Choose(p) \/ Call(p)
                                    \/ Skip(p) \/ Forfeit(p) \/ Expire(p)
        PROVE  IInv'
    BY <1>4, <2>1, MoveKeeps DEF IInv
  <2>2. ASSUME NEW p \in Players, NEW q \in Players, Report(p, q) PROVE IInv'
    BY <1>4, <2>2, ReportKeeps DEF IInv
  <2>3. CASE DeadlinePasses
    BY <1>4, <2>3 DEF DeadlinePasses, IInv, InGame
  <2> QED BY <1>2, <1>4, <2>1, <2>2, <2>3 DEF TableNext
<1> QED BY <1>1, <1>3, <1>4 DEF IInv

-----------------------------------------------------------------------------
(* The invariant of a table                                                *)

\* A ring has no more seats than there are players.
LEMMA SeatsAreFew ==
    ASSUME NEW s \in Seq(Players), NoRepeats(s), Len(s) >= 1
    PROVE  s \in UNION {[1 .. n -> Players] : n \in 1 .. Cardinality(Players)}
<1>1. Len(s) \in Nat /\ s \in [1 .. Len(s) -> Players]
  OBVIOUS
<1>2. IsFiniteSet(Players) /\ Cardinality(Players) \in Nat
  BY CardsAssumption, FS_CardinalityType
<1>3. /\ IsFiniteSet(1 .. Len(s))
      /\ Cardinality(1 .. Len(s)) = IF 1 > Len(s) THEN 0 ELSE Len(s) - 1 + 1
  BY <1>1, FS_Interval
<1>4. ~(Cardinality(Players) < Cardinality(1 .. Len(s)))
  <2> SUFFICES ASSUME Cardinality(Players) < Cardinality(1 .. Len(s)) PROVE FALSE
    OBVIOUS
  <2>1. \E i, j \in 1 .. Len(s) : i # j /\ s[i] = s[j]
    BY <1>1, <1>2, <1>3, FS_PigeonHole
  <2> QED BY <1>1, <2>1 DEF NoRepeats
<1>5. Len(s) \in 1 .. Cardinality(Players)
  BY <1>1, <1>2, <1>3, <1>4
<1> QED BY <1>1, <1>5

LEMMA TypesHold == InGame => TableTypeOK
<1> SUFFICES ASSUME InGame PROVE TableTypeOK
  OBVIOUS
<1>1. /\ table \in Game /\ table.seats \in Seq(Players) /\ NoRepeats(table.seats)
      /\ table.current \in DOMAIN table.seats
      /\ stock \in Seq(Cards) /\ expired \in BOOLEAN
  BY SoundParts DEF InGame, Healthy
<1>2. Len(table.seats) >= 1
  BY <1>1
<1>3. table.seats \in UNION {[1 .. n -> Players] : n \in 1 .. Cardinality(Players)}
  BY <1>1, <1>2, SeatsAreFew
<1> QED BY <1>1, <1>3 DEF TableTypeOK, Game

LEMMA RingHolds == InGame => RingSound
BY SoundParts DEF InGame, Healthy, RingSound, Running, InPlay, DebtsAreReal

LEMMA OneHolder == InGame => OneTurnHolder
<1> SUFFICES ASSUME InGame, Running(table)
             PROVE  {p \in Players : CanDraw(table, p) \/ CanChoose(table, p)}
                      = {CurrentPlayer(table)}
  BY DEF OneTurnHolder
<1>1. /\ DebtsAreReal(table) /\ Ring(table) \subseteq Players
      /\ table.current \in DOMAIN table.seats
  BY SoundParts DEF InGame, Healthy, Running, InPlay
<1>2. table.seats[table.current] \in Ring(table)
  BY <1>1 DEF Ring, Elements
<1>3. None \notin Players
  BY CardsAssumption
<1>4. CurrentPlayer(table) \in Ring(table)
  BY <1>1, <1>2 DEF CurrentPlayer, DebtsAreReal
<1>5. \A p \in Players : CanDraw(table, p) \/ CanChoose(table, p) <=> p = CurrentPlayer(table)
  BY <1>1, <1>3, <1>4 DEF CurrentPlayer, CanDraw, CanChoose, DebtsAreReal
<1> QED BY <1>1, <1>4, <1>5

(* For any number of players, any finite set of cards and any proper deal: *)
(* a table stays sound - ring, turn, debts, colour, cards and winner - in  *)
(* any mixture of the commands of game.go (ForfeitPlayer among them).      *)
THEOREM TableIsSound == TableSpec => []TableSound
<1>1. TableInit => IInv
  BY DEF TableInit, IInv
<1>2. IInv /\ [TableNext]_tableVars => IInv'
  BY StepHolds
<1>3. IInv => TableSound
  <2> SUFFICES ASSUME InGame PROVE TableSound
    BY DEF IInv, TableSound
  <2>1. TableTypeOK /\ RingSound /\ OneTurnHolder
    BY TypesHold, RingHolds, OneHolder
  <2>2. CardsConserved
    BY DEF InGame, Healthy, Conserved, CardsConserved
  <2>3. ColorFollowsDiscard
    BY DEF InGame, Healthy, GameSound, Follow, ColorFollowsDiscard
  <2>4. WinnerIsReal
    BY DEF InGame, Healthy, GameSound, Won, WinnerIsReal
  <2> QED BY <2>1, <2>2, <2>3, <2>4 DEF TableSound
<1> QED BY <1>1, <1>2, <1>3, PTL DEF TableSpec

-----------------------------------------------------------------------------
(* How turns, penalties and windows pass on                                *)

\* The body of each action property.
PenaltyStep ==
    table.amount > 0 /\ (table'.amount < table.amount \/ table'.target # table.target) =>
       \/ /\ table'.amount = table.amount + DrawValue(table'.discard)
          /\ table.discard \in Cards \ {table'.discard}
          /\ table'.target # table.target
       \/ /\ table'.amount = 0
          /\ \/ HandSize(table', table.target) = HandSize(table, table.target) + table.amount
             \/ table.target \notin Ring(table')
             \/ table'.completed
             \/ Acted = {} /\ CurrentPlayer(table) = table.target

WindowStep ==
    table.window.open /\ table'.window = table.window =>
       \A p \in Acted : p = table.window.owner \/ p \notin Ring(table')

Laid(face) == table'.discard # table.discard /\ table'.discard.face = face

Actor == IF Acted = {} THEN CurrentPlayer(table) ELSE CHOOSE p \in Acted : TRUE

\* The turn goes from a to b.
TurnGoes(a, b) ==
    IF Laid("skip") THEN \E p \in Ring(table) : Follows(table', a, p) /\ Follows(table', p, b)
    ELSE IF Laid("wild") \/ Laid("wild_draw_four") \/ (Laid("reverse") /\ Len(table.seats) = 2)
    THEN b = a
    ELSE Follows(table', a, b)

TurnStep ==
    (/\ Running(table') /\ table'.seats = table.seats
     /\ CurrentPlayer(table') # CurrentPlayer(table)) => TurnGoes(Actor, CurrentPlayer(table'))

PassesOn == PenaltyStep /\ WindowStep /\ TurnStep

\* Only p's hand changed, so it was p who acted.
LEMMA OneActed ==
    ASSUME NEW p \in Players, NEW H,
           table.hands \in [Players -> SUBSET Cards],
           table'.hands = [table.hands EXCEPT ![p] = H], H # table.hands[p]
    PROVE  Acted = {p} /\ Actor = p
<1>1. \A q \in Players : table'.hands[q] # table.hands[q] <=> q = p
  OBVIOUS
<1>2. Acted = {p}
  BY <1>1 DEF Acted
<1> QED BY <1>2 DEF Actor

LEMMA NobodyActed ==
    ASSUME table'.hands = table.hands
    PROVE  Acted = {} /\ Actor = CurrentPlayer(table)
BY DEF Acted, Actor

\* What passes the turn without a card passes it to the neighbour.
LEMMA TurnToNeighbour ==
    ASSUME GameSound(table), NEW p \in Ring(table), Actor = p,
           table'.discard = table.discard, table'.dir = table.dir,
           CurrentPlayer(table') # CurrentPlayer(table) => CurrentPlayer(table') = Neighbour(table, p)
    PROVE  TurnStep
<1> SUFFICES ASSUME table'.seats = table.seats, CurrentPlayer(table') # CurrentPlayer(table)
             PROVE  Follows(table', p, CurrentPlayer(table'))
  BY DEF TurnStep, TurnGoes, Laid
<1>1. table.seats \in Seq(Players) /\ NoRepeats(table.seats) /\ table.dir \in {1, -1}
  BY SoundParts
<1>2. Follows(table, p, Neighbour(table, p))
  BY <1>1, NeighbourIsNext
<1> QED BY <1>2, SameNeighbours DEF Follows

LEMMA DrawPasses == ASSUME InGame, NEW p \in Players, Draw(p) PROVE PassesOn
<1> DEFINE n     == DrawCount(table)
           drawn == Elements(SubSeq(stock, 1, n))
<1>1. /\ CanDraw(table, p) /\ n <= Len(stock) /\ table' = DrawCard(table, p, drawn).game
  BY DEF Draw, Commit, TakeFromStock, NextCards, DeckAfter
<1>2. /\ GameSound(table) /\ Conserved(table, stock) /\ stock \in Seq(Cards) /\ NoRepeats(stock)
      /\ p \in Ring(table) /\ ~table.completed /\ table.chooser = None
  BY <1>1 DEF InGame, Healthy, CanDraw, Conserved, Running
<1>3. /\ table \in Game /\ table.amount \in Nat /\ table.hands \in [Players -> SUBSET Cards]
      /\ Ring(table) \subseteq Players /\ DebtsAreReal(table)
  BY <1>2, SoundParts DEF InPlay
<1>4. n \in Nat /\ n >= 1 /\ (table.amount > 0 => n = table.amount /\ p = table.target)
  BY <1>1, <1>3 DEF DrawCount, CanDraw
<1> HIDE DEF n
<1>5. /\ drawn \subseteq Elements(stock) /\ drawn \subseteq Cards
      /\ IsFiniteSet(drawn) /\ Cardinality(drawn) = n
  BY <1>1, <1>2, <1>4, CardsLeave
<1>6. drawn # {}
  BY <1>4, <1>5, FS_EmptySet
<1>7. table.hands[p] \cap drawn = {}
  BY <1>2, <1>5 DEF Conserved
<1>8. Drew(table, p, drawn, table')
  BY <1>1, <1>2, <1>5, DrawFields
<1>9. /\ table'.hands = [table.hands EXCEPT ![p] = @ \cup drawn]
      /\ table'.hands[p] = table.hands[p] \cup drawn
      /\ table'.seats = table.seats /\ table'.dir = table.dir /\ table'.discard = table.discard
      /\ table'.chooser = None /\ table'.amount = 0
      /\ table'.window.open => table.window.owner = p
      /\ \/ table.amount = 0 /\ table'.target = table.target /\ table'.current = table.current
         \/ table'.target = None /\ table'.seats[table'.current] = Neighbour(table, p)
  BY <1>2, <1>3, <1>8 DEF Drew
<1> HIDE DEF drawn
<1>10. Acted = {p} /\ Actor = p
  BY <1>3, <1>6, <1>7, <1>9, OneActed
<1>11. PenaltyStep
  <2> SUFFICES ASSUME table.amount > 0
               PROVE  HandSize(table', table.target) = HandSize(table, table.target) + table.amount
    BY <1>9 DEF PenaltyStep
  <2>1. /\ IsFiniteSet(table.hands[p]) /\ Cardinality(table.hands[p]) \in Nat
    BY <1>3, HandSizes
  <2>2. Cardinality(table.hands[p] \cup drawn)
          = Cardinality(table.hands[p]) + n - Cardinality(table.hands[p] \cap drawn)
    BY <1>5, <2>1, FS_Union
  <2>3. Cardinality(table.hands[p] \cap drawn) = 0
    BY <1>7, FS_EmptySet
  <2>4. table.target = p /\ n = table.amount
    BY <1>4
  <2>5. Cardinality(table.hands[p] \cup drawn) = Cardinality(table.hands[p]) + table.amount
    BY <1>3, <2>1, <2>2, <2>3, <2>4
  <2> QED BY <1>9, <2>4, <2>5 DEF HandSize
<1>12. WindowStep
  BY <1>9, <1>10 DEF WindowStep
<1>13. CurrentPlayer(table') # CurrentPlayer(table)
         => CurrentPlayer(table') = Neighbour(table, p)
  BY <1>2, <1>9 DEF CurrentPlayer
<1>14. TurnStep
  BY <1>2, <1>9, <1>10, <1>13, TurnToNeighbour
<1> QED BY <1>11, <1>12, <1>14 DEF PassesOn

\* A window that closes and a hand that grows pass nothing on.
LEMMA ClosingPasses ==
    ASSUME InGame,
           NEW p \in Players,
           \/ Call(p) \/ Expire(p)
           \/ \E q \in Players : Report(p, q)
    PROVE  PassesOn
<1>1. /\ table.window.open /\ ~table'.window.open
      /\ table'.seats = table.seats /\ table'.amount = table.amount /\ table'.target = table.target
      /\ table'.chooser = table.chooser /\ table'.current = table.current
  <2>1. table \in Game
    BY DEF InGame, Healthy, GameSound
  <2>2. CASE Call(p) \/ Expire(p)
    <3>1. table.window.open /\ table' = [table EXCEPT !.window.open = FALSE]
      BY <2>2 DEF Call, Expire, Commit, CallUno, ExpireUnoWindow, Result, CanCallUno, CanExpire
    <3> QED BY <2>1, <3>1 DEF Game
  <2>3. CASE \E q \in Players : Report(p, q)
    <3>1. PICK q \in Players : Report(p, q)
      BY <2>3
    <3> DEFINE drawn == NextCards(stock, ReportPenalty)
    <3>2. table.window.open
      BY <3>1 DEF Report, CanReport
    <3>3. table' = [table EXCEPT !.hands[q] = @ \cup drawn, !.window.open = FALSE]
      BY <3>1 DEF Report, Commit, ReportMissingUno, Result
    <3> HIDE DEF drawn
    <3> QED BY <2>1, <3>2, <3>3 DEF Game
  <2> QED BY <2>2, <2>3
<1>2. table.amount \in Nat
  BY SoundParts DEF InGame, Healthy
<1>3. PenaltyStep /\ WindowStep
  BY <1>1, <1>2 DEF PenaltyStep, WindowStep
<1>4. TurnStep
  BY <1>1 DEF TurnStep, CurrentPlayer
<1> QED BY <1>3, <1>4 DEF PassesOn

LEMMA ChoosePasses == ASSUME InGame, NEW p \in Players, Choose(p) PROVE PassesOn
<1>1. PICK col \in Colors : table' = ChooseColor(table, p, col).game
  BY DEF Choose, Commit
<1>2. CanChoose(table, p) /\ GameSound(table)
  BY DEF InGame, Healthy, Choose
<1>3. /\ table'.chooser = None /\ table'.seats = table.seats /\ table'.hands = table.hands
      /\ table'.discard = table.discard /\ table'.dir = table.dir
      /\ table'.amount = table.amount /\ table'.target = table.target
      /\ table'.seats[table'.current] = Neighbour(table, p)
  BY <1>1, <1>2, ChooseFields
<1>4. /\ table.chooser = p /\ p # None /\ DebtsAreReal(table) /\ table.amount \in Nat
      /\ p \in Ring(table)
  BY <1>2, SoundParts DEF CanChoose, Running, InPlay, DebtsAreReal
<1>5. Acted = {} /\ Actor = p
  BY <1>3, <1>4, NobodyActed DEF CurrentPlayer
<1>6. PenaltyStep /\ WindowStep
  BY <1>3, <1>4, <1>5 DEF PenaltyStep, WindowStep
<1>7. CurrentPlayer(table') = Neighbour(table, p)
  BY <1>3, <1>4 DEF CurrentPlayer, DebtsAreReal
<1>8. TurnStep
  BY <1>2, <1>3, <1>4, <1>5, <1>7, TurnToNeighbour
<1> QED BY <1>6, <1>8 DEF PassesOn

LEMMA SkipPasses == ASSUME InGame, NEW p \in Players, Skip(p) PROVE PassesOn
<1>1. CanSkip(table, p) /\ table' = SkipTurn(table, p).game
  BY DEF Skip, Commit
<1>2. GameSound(table) /\ p \in Ring(table) /\ p = CurrentPlayer(table) /\ ~table.completed
  BY <1>1 DEF InGame, Healthy, CanSkip, Running
<1>3. /\ table'.seats = table.seats /\ table'.hands = table.hands
      /\ table'.discard = table.discard /\ table'.dir = table.dir
      /\ table'.chooser = IF table.chooser = p THEN None ELSE table.chooser
      /\ table'.amount = IF table.target = p THEN 0 ELSE table.amount
      /\ table'.target = IF table.target = p THEN None ELSE table.target
      /\ table'.seats[table'.current] = Neighbour(table, p)
  BY <1>1, <1>2, SkipFields DEF Skipped
<1>4. /\ DebtsAreReal(table) /\ table.amount \in Nat /\ p \in Players /\ None \notin Players
      /\ Ring(table) \subseteq Players
  BY <1>2, SoundParts, CardsAssumption DEF InPlay
<1>5. Acted = {} /\ Actor = p
  BY <1>2, <1>3, NobodyActed
<1>6. PenaltyStep /\ WindowStep
  BY <1>2, <1>3, <1>4, <1>5 DEF PenaltyStep, WindowStep
<1>7. table'.chooser = None
  BY <1>2, <1>3, <1>4 DEF CurrentPlayer
<1>8. CurrentPlayer(table') = Neighbour(table, p)
  <2>1. CASE table'.amount > 0
    <3>1. table.target # p /\ table.amount > 0 /\ table.target # None
      BY <1>3, <1>4, <2>1 DEF DebtsAreReal
    <3>2. table.chooser = p
      BY <1>2, <3>1 DEF CurrentPlayer
    <3>3. table.target = Neighbour(table, p)
      BY <1>4, <3>1, <3>2 DEF DebtsAreReal
    <3> QED BY <1>3, <1>7, <2>1, <3>1, <3>3 DEF CurrentPlayer
  <2>2. CASE ~(table'.amount > 0)
    BY <1>3, <1>7, <2>2 DEF CurrentPlayer
  <2> QED BY <2>1, <2>2
<1>9. TurnStep
  BY <1>2, <1>3, <1>5, <1>8, TurnToNeighbour
<1> QED BY <1>6, <1>9 DEF PassesOn

LEMMA ForfeitPasses == ASSUME InGame, NEW p \in Players, Forfeit(p) PROVE PassesOn
<1>1. CanForfeit(table, p) /\ table' = ForfeitPlayer(table, p).game
  BY DEF Forfeit, Commit
<1>2. GameSound(table) /\ p \in Ring(table)
  BY <1>1 DEF InGame, Healthy, CanForfeit
<1>3. Forfeited(table, p, table')
  BY <1>1, <1>2, ForfeitFields
<1>4. /\ table.seats \in Seq(Players) /\ NoRepeats(table.seats) /\ table.amount \in Nat
      /\ table.hands \in [Players -> SUBSET Cards]
  BY <1>2, SoundParts
<1>5. SeatOf(table, p) \in DOMAIN table.seats /\ table.seats[SeatOf(table, p)] = p
  BY <1>2, <1>4, SeatOfPlayer
<1>6. table'.seats = Without(table.seats, SeatOf(table, p))
  BY <1>3 DEF Forfeited
<1>7. Len(table'.seats) = Len(table.seats) - 1 /\ p \notin Ring(table')
  BY <1>4, <1>5, <1>6, WithoutSeat DEF Ring
<1>8. table'.seats # table.seats
  <2>1. Len(table.seats) \in Nat
    BY <1>4
  <2>2. \A m \in Nat : m - 1 # m
    OBVIOUS
  <2> QED BY <1>7, <2>1, <2>2
<1>9. Acted \subseteq {p}
  BY <1>3, <1>4 DEF Acted, Forfeited
<1>10. PenaltyStep
  <2>1. CASE table'.completed
    BY <1>3, <2>1 DEF PenaltyStep, Forfeited
  <2>2. CASE ~table'.completed
    <3>1. /\ table'.amount = IF table.target = p THEN 0 ELSE table.amount
          /\ table'.target = IF table.target = p THEN None ELSE table.target
      BY <1>3, <2>2 DEF Forfeited
    <3> QED BY <1>4, <1>7, <3>1 DEF PenaltyStep
  <2> QED BY <2>1, <2>2
<1>11. WindowStep
  BY <1>7, <1>9 DEF WindowStep
<1>12. TurnStep
  BY <1>8 DEF TurnStep
<1> QED BY <1>10, <1>11, <1>12 DEF PassesOn

LEMMA PlayPasses == ASSUME InGame, NEW p \in Players, Play(p) PROVE PassesOn
<1>1. PICK c \in table.hands[p] : CanPlay(table, p, c) /\ table' = PlayCard(table, p, c).game
  BY DEF Play, Commit
<1>2. /\ GameSound(table) /\ Conserved(table, stock) /\ p \in Ring(table)
      /\ ~table.completed /\ table.chooser = None
      /\ table.amount > 0 => p = table.target /\ DrawValue(c) > 0
  BY <1>1 DEF InGame, Healthy, CanPlay, CanStack, Running
<1>3. /\ table.seats \in Seq(Players) /\ NoRepeats(table.seats) /\ Len(table.seats) >= 2
      /\ table.dir \in {1, -1} /\ table.amount \in Nat
      /\ table.hands \in [Players -> SUBSET Cards] /\ table.discard \in Cards
      /\ DebtsAreReal(table)
  BY <1>2, SoundParts DEF InPlay, Game
<1>4. Played(table, p, c, table')
  BY <1>1, <1>2, PlayFields
<1>5. c \in Cards /\ c # table.discard
  BY <1>2, <1>3 DEF Conserved
<1>6. /\ table'.hands = [table.hands EXCEPT ![p] = @ \ {c}] /\ table'.discard = c
      /\ table'.seats = table.seats
      /\ table'.completed => table'.amount = 0 /\ ~table'.window.open
      /\ table'.window.open => table'.window.owner = p
      /\ table'.dir = IF c.face = "reverse" THEN -table.dir ELSE table.dir
      /\ ~table'.completed =>
            /\ table'.chooser = IF IsWild(c) THEN p ELSE None
            /\ table'.amount = table.amount + DrawValue(c)
            /\ table'.target = IF DrawValue(c) > 0 THEN Neighbour(table, p) ELSE table.target
  BY <1>4 DEF Played
<1>7. /\ c.face = "skip" =>
            table'.seats[table'.current] = Neighbour(table, Neighbour(table, p))
      /\ c.face = "reverse" =>
            table'.seats[table'.current] = IF Len(table.seats) = 2 THEN p ELSE Neighbour(table', p)
      /\ ~IsWild(c) /\ c.face \notin {"skip", "reverse"} =>
            table'.seats[table'.current] = Neighbour(table, p)
  BY <1>4 DEF Played
<1>8. Acted = {p} /\ Actor = p
  <2>1. table.hands[p] \ {c} # table.hands[p]
    BY <1>1
  <2> QED BY <1>3, <1>6, <2>1, OneActed
<1>9. /\ Neighbour(table, p) \in Ring(table) /\ Neighbour(table, p) # p
      /\ Follows(table, p, Neighbour(table, p)) /\ Neighbour(table, p) \in Players
      /\ Follows(table, Neighbour(table, p), Neighbour(table, Neighbour(table, p)))
  BY <1>2, <1>3, NeighbourIsNext, SoundParts
<1>10. PenaltyStep
  <2>1. CASE table'.completed
    BY <1>6, <2>1 DEF PenaltyStep
  <2>2. CASE ~table'.completed
    BY <1>2, <1>3, <1>5, <1>6, <1>9, <2>2 DEF PenaltyStep
  <2> QED BY <2>1, <2>2
<1>11. WindowStep
  BY <1>6, <1>8 DEF WindowStep
<1>12. TurnStep
  <2> SUFFICES ASSUME ~table'.completed PROVE TurnGoes(p, CurrentPlayer(table'))
    BY <1>8 DEF TurnStep, Running
  <2>1. Laid(c.face) /\ \A face : Laid(face) => face = c.face
    BY <1>5, <1>6 DEF Laid
  <2>2. p # None /\ None \notin Players
    BY CardsAssumption
  <2>3. CASE IsWild(c)
    <3>1. CurrentPlayer(table') = p
      BY <1>6, <2>2, <2>3 DEF CurrentPlayer
    <3> QED BY <2>1, <2>3, <3>1 DEF TurnGoes, IsWild
  <2>4. CASE DrawValue(c) > 0 /\ ~IsWild(c)
    <3>1. c.face = "draw_two"
      BY <2>4 DEF DrawValue, IsWild
    <3>2. CurrentPlayer(table') = Neighbour(table, p) /\ table'.dir = table.dir
      BY <1>3, <1>6, <1>9, <2>2, <2>4, <3>1 DEF CurrentPlayer, DrawValue
    <3>3. Follows(table', p, Neighbour(table, p))
      BY <1>6, <1>9, <3>2, SameNeighbours DEF Follows
    <3> QED BY <2>1, <3>1, <3>2, <3>3 DEF TurnGoes
  <2>5. CASE DrawValue(c) = 0 /\ ~IsWild(c)
    <3>1. table.amount = 0 /\ table'.amount = 0 /\ table'.chooser = None
      BY <1>2, <1>3, <1>6, <2>5
    <3>2. CurrentPlayer(table') = table'.seats[table'.current]
      BY <3>1 DEF CurrentPlayer
    <3>3. CASE c.face = "skip"
      <4>1. table'.dir = table.dir
        BY <1>6, <3>3
      <4>2. /\ Follows(table', p, Neighbour(table, p))
            /\ Follows(table', Neighbour(table, p), CurrentPlayer(table'))
        BY <1>6, <1>7, <1>9, <3>2, <3>3, <4>1, SameNeighbours DEF Follows
      <4> QED BY <1>9, <2>1, <3>3, <4>2 DEF TurnGoes
    <3>4. CASE c.face = "reverse"
      <4>1. p \in Ring(table') /\ table'.seats \in Seq(Players) /\ NoRepeats(table'.seats)
            /\ table'.dir \in {1, -1}
        BY <1>2, <1>3, <1>6 DEF Ring
      <4>2. Follows(table', p, Neighbour(table', p))
        BY <4>1, NeighbourIsNext
      <4>3. CurrentPlayer(table') = IF Len(table.seats) = 2 THEN p ELSE Neighbour(table', p)
        BY <1>7, <3>2, <3>4
      <4> QED BY <2>1, <3>4, <4>2, <4>3 DEF TurnGoes
    <3>5. CASE c.face \notin {"skip", "reverse"}
      <4>1. CurrentPlayer(table') = Neighbour(table, p) /\ table'.dir = table.dir
        BY <1>6, <1>7, <2>5, <3>2, <3>5
      <4>2. Follows(table', p, Neighbour(table, p))
        BY <1>6, <1>9, <4>1, SameNeighbours DEF Follows
      <4> QED BY <2>1, <2>5, <3>5, <4>1, <4>2 DEF TurnGoes, IsWild
    <3> QED BY <3>3, <3>4, <3>5
  <2> QED BY <2>3, <2>4, <2>5 DEF DrawValue
<1> QED BY <1>10, <1>11, <1>12 DEF PassesOn

\* The first deal: nothing was owed, open or on turn.
LEMMA StartPasses == ASSUME Start, expired \in BOOLEAN PROVE PassesOn
<1>1. table = NoGame /\ table.amount = 0 /\ ~table.window.open /\ table.seats = <<>>
  BY NoGameFields DEF Start
<1>2. Len(table'.seats) >= 2
  <2>1. PICK d \in TableDeals : \E seats \in Seatings(Len(d.hands)) : table' = DealtTo(d, seats)
    BY DEF Start
  <2>2. PICK seats \in Seatings(Len(d.hands)) : table' = DealtTo(d, seats)
    BY <2>1
  <2>3. ProperDeal(d) /\ Len(d.hands) >= 2
    BY TableAssumption
  <2>4. Len(seats) = Len(d.hands)
    BY <2>3, SeatingIsSeq DEF ProperDeal
  <2>5. table'.seats = seats
    BY <2>2 DEF DealtTo, StartGame
  <2> QED BY <2>3, <2>4, <2>5
<1>3. table'.seats # table.seats
  BY <1>1, <1>2
<1> QED BY <1>1, <1>3 DEF PassesOn, PenaltyStep, WindowStep, TurnStep

LEMMA StepPasses == IInv /\ [TableNext]_tableVars => [PassesOn]_tableVars
<1> SUFFICES ASSUME IInv, TableNext PROVE UNCHANGED tableVars \/ PassesOn
  OBVIOUS
<1>1. CASE Start
  BY <1>1, StartPasses DEF IInv, InGame
<1>2. CASE table = NoGame
  BY <1>1, <1>2, FirstStep
<1>3. CASE InGame
  <2>1. ASSUME NEW p \in Players, Play(p) \/ Draw(p) \/ Choose(p) \/ Call(p)
                                    \/ Skip(p) \/ Forfeit(p) \/ Expire(p)
        PROVE  PassesOn
    BY <1>3, <2>1, PlayPasses, DrawPasses, ChoosePasses, ClosingPasses, SkipPasses, ForfeitPasses
  <2>2. ASSUME NEW p \in Players, NEW q \in Players, Report(p, q) PROVE PassesOn
    BY <1>3, <2>2, ClosingPasses
  <2>3. CASE DeadlinePasses
    <3>1. table' = table /\ table.amount \in Nat
      BY <1>3, <2>3, SoundParts DEF InGame, Healthy, DeadlinePasses
    <3>2. Acted = {}
      BY <3>1 DEF Acted
    <3> QED BY <3>1, <3>2 DEF PassesOn, PenaltyStep, WindowStep, TurnStep
  <2> QED BY <1>1, <2>1, <2>2, <2>3 DEF TableNext
<1> QED BY <1>2, <1>3 DEF IInv

(* For any number of players, any finite set of cards and any proper deal: *)
(* whatever game.go does, a penalty is paid, passed on or forgotten with   *)
(* its debtor; the turn goes to the neighbour in the direction of play;    *)
(* and the Uno window closes when the next player acts.                    *)
THEOREM TurnsArePassedOn == TableSpec => TurnsPassOn
<1>1. TableInit => IInv
  BY DEF TableInit, IInv
<1>2. IInv /\ [TableNext]_tableVars => IInv'
  BY StepHolds
<1>3. IInv /\ [TableNext]_tableVars => [PassesOn]_tableVars
  BY StepPasses
<1>4. [PassesOn]_tableVars
        => [PenaltyStep]_tableVars /\ [WindowStep]_tableVars /\ [TurnStep]_tableVars
  BY DEF PassesOn
<1>5. TableSpec => [][PenaltyStep]_tableVars /\ [][WindowStep]_tableVars /\ [][TurnStep]_tableVars
  BY <1>1, <1>2, <1>3, <1>4, PTL DEF TableSpec
<1> QED BY <1>5, PTL DEF TurnsPassOn, PenaltyOnlyPaid, WindowClosesOnNextTurn, TurnOrderKept,
                         PenaltyStep, WindowStep, TurnStep, TurnGoes, Actor, Laid

-----------------------------------------------------------------------------
(***************************************************************************)
(* The session: the invariant of a Room and its match                      *)
(***************************************************************************)
Rooms ==
    [type : RoomTypes, status : {"waiting", "locked", "in_progress"} \cup Terminal,
     host : Players \cup {None}, roster : [Seats -> Players \cup {None}],
     seq : 1 .. MaxSequence, uno : [owner : Players \cup {None}, at : 0 .. MaxSequence],
     between : BOOLEAN]

Absences == [Players -> [ver : 0 .. MaxSequence, active : BOOLEAN, due : BOOLEAN]]

Matches ==
    [wins : [Players -> 0 .. 2], forfeits : SUBSET Players, abandoned : BOOLEAN,
     dealt : 0 .. Cardinality(Players) + 1]

SessionTyped == room \in Rooms /\ away \in Absences /\ match \in Matches /\ overdue \in BOOLEAN

\* Nothing a Room refers to lies in its future; a turn skipped is over.
NothingAhead ==
    /\ turn \in 0 .. room.seq /\ room.uno.at <= room.seq
    /\ \A p \in Players : away[p].ver <= room.seq
    /\ skipped \subseteq Players \X (0 .. turn - 1)

\* Before the first deal there is no game and nothing to score.
InLobby ==
    match.dealt = 0 =>
      /\ game = NoGame /\ room.status \in {"waiting", "locked", "cancelled"}
      /\ match.wins = [p \in Players |-> 0] /\ match.forfeits = {} /\ ~match.abandoned
      /\ room.uno = NoUno

\* After it the game is one the engine can be in, with the deck it was dealt from.
OnTable ==
    match.dealt > 0 => Healthy(game, pile) /\ room.status \in {"in_progress", "completed"}

\* A game that goes on belongs to a match that is not decided.
GameHasMatch == Running(game) => room.status = "in_progress" /\ ~Decided(match)

SInv ==
    /\ SessionTyped /\ NothingAhead /\ InLobby /\ OnTable /\ GameHasMatch
    /\ MatchScored /\ ForfeitedStaysOut /\ SeatedPlays /\ RoomWindowIsReal

-----------------------------------------------------------------------------
(* What an answer of the engine tells the session                          *)

\* The facts of the answer r to a command in game g say what the session must
\* note: that the game ended, whose window is open, whose turn began, who left.
Tells(g, r, resolves, gone) ==
    /\ "done" \in r.facts <=> r.game.completed
    /\ "opened" \in r.facts => r.game.window.open \/ r.game.completed
    /\ g.window.open /\ ~resolves /\ r.facts \cap {"closed", "opened", "done"} = {} =>
          r.game.window.open /\ r.game.window.owner = g.window.owner
    /\ r.facts \cap {"advanced", "done"} = {} => CurrentPlayer(r.game) = CurrentPlayer(g)
    /\ Ring(r.game) = Ring(g) \ gone

LEMMA PlayTells ==
    ASSUME NEW g, GameSound(g), NEW p, NEW c, CanPlay(g, p, c)
    PROVE  Tells(g, PlayCard(g, p, c), FALSE, {})
<1> DEFINE lay    == Lay(CloseOnTurn(g, p), p, c)
           played == CardEffects(lay, p, c)
           left   == Cardinality(played.hands[p])
           opened == IF left = 1 THEN [played EXCEPT !.window = [owner |-> p, open |-> TRUE]]
                     ELSE played
           r      == PlayCard(g, p, c).game
           facts  == PlayCard(g, p, c).facts
<1>1. g \in Game /\ InOrder(g) /\ p \in Ring(g) /\ c \in g.hands[p] /\ ~g.completed
  BY DEF GameSound, CanPlay, Running
<1>2. p \in Players /\ c \in Cards
  <2>1. g.seats \in Seq(Players) /\ g.hands \in [Players -> SUBSET Cards]
    BY <1>1 DEF Game
  <2> QED BY <1>1, <2>1, SeatOfPlayer
<1>3. /\ lay \in Game
      /\ lay.hands = [g.hands EXCEPT ![p] = @ \ {c}] /\ lay.discard = c
      /\ lay.active = IF IsWild(c) THEN g.active ELSE c.color
      /\ lay.window.open <=> g.window.open /\ g.window.owner = p
      /\ lay.window.owner = g.window.owner
      /\ lay.seats = g.seats /\ lay.dir = g.dir /\ lay.current = g.current
      /\ lay.chooser = g.chooser /\ lay.amount = g.amount /\ lay.target = g.target
      /\ lay.completed = g.completed /\ lay.abandoned = g.abandoned /\ lay.winner = g.winner
  BY <1>1, <1>2, LayFields
<1>4. Played(g, p, c, r)
  BY <1>1, PlayFields
<1> HIDE DEF lay
<1>5. InOrder(lay) /\ p \in Ring(lay)
  BY <1>1, <1>3 DEF InOrder, Ring
<1>6. played \in Game /\ played.window = lay.window /\ played.completed = lay.completed
  BY <1>2, <1>3, <1>5, EffectsFields
<1> HIDE DEF played
<1>7. /\ opened \in Game /\ opened.completed = played.completed
      /\ opened.window = IF left = 1 THEN [owner |-> p, open |-> TRUE] ELSE played.window
  BY <1>2, <1>6 DEF Game
<1>8. /\ r = IF left = 0 THEN Finish(opened, p) ELSE opened
      /\ facts = FactIf(ClosesOnTurn(g, p), "closed") \cup FactIf(left = 1, "opened")
                   \cup FactIf(~IsWild(c), "advanced") \cup FactIf(left = 0, "done")
  BY DEF PlayCard, Result, lay, played
<1> HIDE DEF opened, left, r, facts
<1>9. /\ "done" \in facts <=> left = 0
      /\ "opened" \in facts <=> left = 1
      /\ "closed" \in facts <=> ClosesOnTurn(g, p)
      /\ "advanced" \in facts <=> ~IsWild(c)
  BY <1>8 DEF FactIf
<1>10. "done" \in facts <=> r.completed
  <2>1. CASE left = 0
    BY <1>2, <1>7, <1>8, <1>9, <2>1, FinishFields
  <2>2. CASE left # 0
    BY <1>1, <1>3, <1>6, <1>7, <1>8, <1>9, <2>2
  <2> QED BY <2>1, <2>2
<1>11. "opened" \in facts => r.window.open
  BY <1>7, <1>8, <1>9
<1>12. g.window.open /\ facts \cap {"closed", "opened", "done"} = {} =>
          r.window.open /\ r.window.owner = g.window.owner
  BY <1>3, <1>6, <1>7, <1>8, <1>9 DEF ClosesOnTurn
<1>13. facts \cap {"advanced", "done"} = {} => CurrentPlayer(r) = CurrentPlayer(g)
  <2> SUFFICES ASSUME IsWild(c), ~r.completed PROVE CurrentPlayer(r) = CurrentPlayer(g)
    BY <1>9, <1>10
  <2>1. r.chooser = p /\ p # None
    BY <1>2, <1>4, CardsAssumption DEF Played
  <2>2. CurrentPlayer(g) = p
    <3>1. g.amount > 0 => g.target = p /\ g.target # None
      BY <2>1, <1>1 DEF CanPlay, Game
    <3>2. g.amount = 0 => g.seats[g.current] = p
      BY DEF CanPlay, ExactMatch
    <3>3. g.chooser = None /\ g.amount \in Nat
      BY <1>1 DEF CanPlay, Game
    <3> QED BY <3>1, <3>2, <3>3 DEF CurrentPlayer
  <2> QED BY <2>1, <2>2 DEF CurrentPlayer
<1>14. Ring(r) = Ring(g)
  BY <1>4 DEF Played, Ring
<1> QED BY <1>10, <1>11, <1>12, <1>13, <1>14 DEF Tells, r, facts

LEMMA DrawTells ==
    ASSUME NEW g, GameSound(g), NEW p, CanDraw(g, p), NEW drawn \in SUBSET Cards
    PROVE  Tells(g, DrawCard(g, p, drawn), FALSE, {})
<1> DEFINE f       == CloseOnTurn(g, p)
           got     == [f EXCEPT !.hands[p] = @ \cup drawn]
           retains == g.amount = 0 /\ \E c \in drawn : LegalOnTurn(got, p, c)
           passed  == [got EXCEPT !.amount = 0, !.target = None,
                                  !.current = NextIndex(g, SeatOf(g, p))]
           r       == DrawCard(g, p, drawn).game
           facts   == DrawCard(g, p, drawn).facts
<1>1. /\ g \in Game /\ ~g.completed /\ p \in Ring(g) /\ p \in Players
      /\ g.hands \in [Players -> SUBSET Cards]
  BY SoundParts DEF CanDraw, Running
<1>2. Drew(g, p, drawn, r)
  BY <1>1, DrawFields
<1>3. /\ f \in Game
      /\ f.window.open <=> g.window.open /\ g.window.owner = p
      /\ f.window.owner = g.window.owner
  BY <1>1, CloseOnTurnFields
<1>4. /\ f.seats = g.seats /\ f.current = g.current /\ f.chooser = g.chooser
      /\ f.amount = g.amount /\ f.target = g.target
  BY <1>1 DEF CloseOnTurn, Game
<1> HIDE DEF f
<1>5. /\ got \in Game /\ got.window = f.window /\ got.seats = f.seats
      /\ got.current = f.current /\ got.chooser = f.chooser
      /\ got.amount = f.amount /\ got.target = f.target
  <2>1. [f.hands EXCEPT ![p] = @ \cup drawn] \in [Players -> SUBSET Cards]
    BY <1>3 DEF Game
  <2> QED BY <1>3, <2>1 DEF Game
<1>6. /\ r = IF retains THEN got ELSE passed
      /\ facts = FactIf(ClosesOnTurn(g, p), "closed") \cup FactIf(~retains, "advanced")
  BY DEF DrawCard, Result, f
<1> HIDE DEF got, retains
<1>7. passed.window = got.window
  BY <1>5 DEF Game
<1> HIDE DEF passed, r, facts
<1>8. /\ "done" \notin facts /\ "opened" \notin facts
      /\ "closed" \in facts <=> ClosesOnTurn(g, p)
      /\ "advanced" \in facts <=> ~retains
  BY <1>6 DEF FactIf
<1>9. ~r.completed /\ Ring(r) = Ring(g)
  BY <1>1, <1>2 DEF Drew, Ring
<1>10. g.window.open /\ "closed" \notin facts => r.window.open /\ r.window.owner = g.window.owner
  BY <1>3, <1>5, <1>6, <1>7, <1>8 DEF ClosesOnTurn
<1>11. "advanced" \notin facts => CurrentPlayer(r) = CurrentPlayer(g)
  BY <1>4, <1>5, <1>6, <1>8 DEF CurrentPlayer
<1> QED BY <1>8, <1>9, <1>10, <1>11 DEF Tells, r, facts

LEMMA ChooseTells ==
    ASSUME NEW g, GameSound(g), NEW p, CanChoose(g, p), NEW col \in Colors
    PROVE  Tells(g, ChooseColor(g, p, col), FALSE, {})
<1> DEFINE r == ChooseColor(g, p, col).game
<1>1. r.seats = g.seats /\ r.window = g.window /\ r.completed = g.completed /\ ~g.completed
  BY ChooseFields DEF CanChoose, Running
<1>2. ChooseColor(g, p, col).facts = {"advanced"}
  BY DEF ChooseColor, Result
<1> HIDE DEF r
<1> QED BY <1>1, <1>2 DEF Tells, Ring, r

\* Closing the window, with two cards for its owner or without: no turn begins.
LEMMA CloseTells ==
    ASSUME NEW g \in Game, ~g.completed, NEW q \in Players, NEW drawn \in SUBSET Cards
    PROVE  /\ Tells(g, CallUno(g), TRUE, {})
           /\ Tells(g, ExpireUnoWindow(g), TRUE, {})
           /\ Tells(g, ReportMissingUno(g, q, drawn), TRUE, {})
<1> DEFINE r == [g EXCEPT !.window.open = FALSE]
           s == [g EXCEPT !.hands[q] = @ \cup drawn, !.window.open = FALSE]
<1>1. /\ r.seats = g.seats /\ r.completed = g.completed /\ r.chooser = g.chooser
      /\ r.amount = g.amount /\ r.target = g.target /\ r.current = g.current
  BY DEF Game
<1>2. /\ s.seats = g.seats /\ s.completed = g.completed /\ s.chooser = g.chooser
      /\ s.amount = g.amount /\ s.target = g.target /\ s.current = g.current
  BY DEF Game
<1>3. /\ CallUno(g).game = r /\ CallUno(g).facts = {}
      /\ ExpireUnoWindow(g).game = r /\ ExpireUnoWindow(g).facts = {}
      /\ ReportMissingUno(g, q, drawn).game = s /\ ReportMissingUno(g, q, drawn).facts = {}
  BY DEF CallUno, ExpireUnoWindow, ReportMissingUno, Result
<1> HIDE DEF r, s
<1> QED BY <1>1, <1>2, <1>3 DEF Tells, Ring, CurrentPlayer

LEMMA SkipTells ==
    ASSUME NEW g, GameSound(g), NEW p, CanSkip(g, p)
    PROVE  Tells(g, SkipTurn(g, p), FALSE, {}) /\ "advanced" \in SkipTurn(g, p).facts
<1> DEFINE index == NextIndex(g, SeatOf(g, p))
           next  == g.seats[index]
           clear == ClearDebts(g, p)
           f     == CloseOnTurn(clear, next)
           r     == SkipTurn(g, p).game
           facts == SkipTurn(g, p).facts
<1>1. g \in Game /\ ~g.completed /\ p \in Ring(g) /\ p \in Players
  BY SoundParts DEF CanSkip, Running
<1>2. Skipped(g, p, r)
  BY <1>1, SkipFields
<1>3. next \in Players /\ NextIndex(g, SeatOf(g, p)) \in DOMAIN g.seats
  BY <1>1, SoundParts, SeatOfPlayer, NextIndexIsAfter
<1>4. /\ r = [f EXCEPT !.current = index]
      /\ facts = {"advanced"} \cup FactIf(ClosesOnTurn(g, next), "closed")
  BY DEF SkipTurn, Result
<1> HIDE DEF index, next
<1>5. clear \in Game /\ clear.window = g.window
  BY <1>1, ClearDebtsFields
<1> HIDE DEF clear
<1>6. /\ f \in Game /\ (f.window.open <=> clear.window.open /\ clear.window.owner = next)
      /\ f.window.owner = clear.window.owner
  BY <1>3, <1>5, CloseOnTurnFields
<1> HIDE DEF f, r, facts
<1>7. r.window = f.window
  BY <1>4, <1>6 DEF Game
<1>8. /\ "done" \notin facts /\ "opened" \notin facts /\ "advanced" \in facts
      /\ "closed" \in facts <=> ClosesOnTurn(g, next)
  BY <1>4 DEF FactIf
<1>9. ~r.completed /\ Ring(r) = Ring(g)
  BY <1>1, <1>2 DEF Skipped, Ring
<1>10. g.window.open /\ "closed" \notin facts => r.window.open /\ r.window.owner = g.window.owner
  BY <1>5, <1>6, <1>7, <1>8 DEF ClosesOnTurn
<1> QED BY <1>8, <1>9, <1>10 DEF Tells, r, facts

\* Who is not to act leaves the turn with whoever has it.
LEMMA CurrentStays ==
    ASSUME NEW s \in Seq(Players), NoRepeats(s), NEW i \in DOMAIN s, NEW k \in DOMAIN s, k # i
    PROVE  Without(s, i)[CurrentWithout(Without(s, i), i, k)] = s[k]
<1>1. Len(Without(s, i)) = Len(s) - 1 /\ Len(s) \in Nat /\ DOMAIN s = 1 .. Len(s)
  BY WithoutSeat
<1>2. CurrentWithout(Without(s, i), i, k) = Moved(i, k)
  BY <1>1 DEF CurrentWithout, Moved
<1> QED BY <1>2, MovedSeat

LEMMA ForfeitTells ==
    ASSUME NEW g, GameSound(g), NEW p, CanForfeit(g, p)
    PROVE  Tells(g, ForfeitPlayer(g, p), FALSE, {p})
<1> DEFINE seat     == SeatOf(g, p)
           rest     == Without(g.seats, seat)
           ownsOpen == g.window.open /\ g.window.owner = p
           clear    == ClearDebts(g, p)
           current  == CurrentWithout(rest, seat, clear.current)
           removed  == [clear EXCEPT !.window.open = @ /\ ~ownsOpen, !.hands[p] = {},
                                     !.seats = rest, !.current = current]
           next     == removed.seats[removed.current]
           acting   == CurrentPlayer(g) = p
           r        == ForfeitPlayer(g, p).game
           facts    == ForfeitPlayer(g, p).facts
<1>1. /\ p \in Ring(g) /\ ~g.completed /\ p \in Players /\ p # None
      /\ g \in Game /\ g.seats \in Seq(Players) /\ NoRepeats(g.seats)
      /\ Len(g.seats) >= 2 /\ g.current \in DOMAIN g.seats
  BY SoundParts, CardsAssumption DEF CanForfeit, Running
<1>2. Forfeited(g, p, r)
  BY ForfeitFields
<1>3. seat \in DOMAIN g.seats /\ g.seats[seat] = p
  BY <1>1, SeatOfPlayer
<1>4. rest \in Seq(Players) /\ Len(rest) = Len(g.seats) - 1 /\ Elements(rest) = Ring(g) \ {p}
  BY <1>1, <1>3, WithoutSeat DEF Ring
<1>5. \/ Len(rest) = 1 /\ facts = FactIf(ownsOpen, "closed") \cup {"done"}
      \/ /\ Len(rest) # 1 /\ acting /\ r = CloseOnTurn(removed, next)
         /\ facts = {"advanced"} \cup FactIf(ownsOpen \/ ClosesOnTurn(removed, next), "closed")
      \/ Len(rest) # 1 /\ ~acting /\ r = removed /\ facts = FactIf(ownsOpen, "closed")
  BY DEF ForfeitPlayer, Result
<1> HIDE DEF seat, rest
<1>6. r.seats = rest /\ Ring(r) = Ring(g) \ {p} /\ (r.completed <=> Len(rest) = 1)
  BY <1>2, <1>4 DEF Forfeited, Ring, rest, seat
<1>7. /\ clear \in Game /\ clear.window = g.window /\ clear.current = g.current
      /\ clear.chooser = IF g.chooser = p THEN None ELSE g.chooser
      /\ clear.amount = IF g.target = p THEN 0 ELSE g.amount
      /\ clear.target = IF g.target = p THEN None ELSE g.target
  BY <1>1, ClearDebtsFields
<1>8. current \in DOMAIN rest /\ current \in Nat
  <2>1. /\ Len(rest) \in Nat /\ Len(rest) >= 1 /\ seat \in 1 .. Len(rest) + 1
        /\ clear.current \in 1 .. Len(rest) + 1
    BY <1>1, <1>3, <1>4, <1>7
  <2>2. current \in DOMAIN rest
    BY <1>4, <2>1, CurrentWithoutSeat
  <2> QED BY <1>4, <2>2
<1> HIDE DEF clear
<1>9. current = CurrentWithout(rest, seat, g.current)
  BY <1>7
<1> HIDE DEF current
<1>10. /\ removed \in Game /\ removed.seats = rest /\ removed.current = current
       /\ removed.window.open <=> g.window.open /\ ~ownsOpen
       /\ removed.window.owner = g.window.owner
       /\ removed.chooser = clear.chooser /\ removed.amount = clear.amount
       /\ removed.target = clear.target
  <2>1. [clear.hands EXCEPT ![p] = {}] \in [Players -> SUBSET Cards]
    BY <1>7 DEF Game
  <2>2. /\ [clear.window EXCEPT !.open = @ /\ ~ownsOpen] \in [owner : Players \cup {None}, open : BOOLEAN]
        /\ [clear.window EXCEPT !.open = @ /\ ~ownsOpen].open <=> clear.window.open /\ ~ownsOpen
        /\ [clear.window EXCEPT !.open = @ /\ ~ownsOpen].owner = clear.window.owner
    BY <1>7 DEF Game
  <2>3. removed \in Game /\ removed.window = [clear.window EXCEPT !.open = @ /\ ~ownsOpen]
    BY <1>4, <1>7, <1>8, <2>1, <2>2 DEF Game
  <2> QED BY <1>7, <2>2, <2>3 DEF Game
<1>11. next \in Players
  BY <1>4, <1>8, <1>10
<1> HIDE DEF removed, next, r, facts, acting
<1>12. ("done" \in facts <=> r.completed) /\ "opened" \notin facts
  BY <1>5, <1>6 DEF FactIf
<1>13. ASSUME g.window.open, facts \cap {"closed", "done"} = {}
       PROVE  r.window.open /\ r.window.owner = g.window.owner
  <2>1. ~ownsOpen /\ removed.window.open
    BY <1>5, <1>10, <1>13 DEF FactIf
  <2>2. CASE r = removed
    BY <1>10, <2>1, <2>2
  <2>3. CASE r = CloseOnTurn(removed, next) /\ ~ClosesOnTurn(removed, next)
    <3>1. /\ r.window.open <=> removed.window.open /\ removed.window.owner = next
          /\ r.window.owner = removed.window.owner
      BY <1>10, <1>11, <2>3, CloseOnTurnFields
    <3> QED BY <1>10, <2>1, <2>3, <3>1 DEF ClosesOnTurn
  <2> QED BY <1>5, <1>13, <2>2, <2>3 DEF FactIf
<1>14. ASSUME facts \cap {"advanced", "done"} = {} PROVE CurrentPlayer(r) = CurrentPlayer(g)
  <2>1. ~acting /\ r = removed
    BY <1>5, <1>14
  <2>2. g.chooser # p
    BY <1>1, <2>1 DEF acting, CurrentPlayer
  <2>3. CASE g.chooser # None
    BY <1>7, <1>10, <2>1, <2>2, <2>3 DEF CurrentPlayer
  <2>4. CASE g.chooser = None /\ g.amount > 0 /\ g.target # None
    <3>1. g.target # p
      BY <2>1, <2>4 DEF acting, CurrentPlayer
    <3> QED BY <1>7, <1>10, <2>1, <2>4, <3>1 DEF CurrentPlayer
  <2>5. CASE g.chooser = None /\ ~(g.amount > 0 /\ g.target # None)
    <3>1. CurrentPlayer(g) = g.seats[g.current] /\ g.current # seat
      BY <1>3, <2>1, <2>5 DEF acting, CurrentPlayer
    <3>2. rest[current] = g.seats[g.current]
      BY <1>1, <1>3, <1>9, <3>1, CurrentStays DEF rest
    <3>3. r.chooser = None /\ ~(r.amount > 0 /\ r.target # None)
      BY <1>7, <1>10, <2>1, <2>2, <2>5
    <3> QED BY <1>10, <2>1, <3>1, <3>2, <3>3 DEF CurrentPlayer
  <2> QED BY <2>3, <2>4, <2>5
<1> QED BY <1>6, <1>12, <1>13, <1>14 DEF Tells, r, facts

-----------------------------------------------------------------------------
(* The seated players in the order of their seats                          *)

\* Nobody sits twice.
OneSeatEach(roster) ==
    \A i, j \in Seats : roster[i] = roster[j] /\ roster[i] # None => i = j

\* Among finitely many seats the k-th is one and only one.
LEMMA RankIsBijection ==
    ASSUME NEW S, S \subseteq Nat, IsFiniteSet(S)
    PROVE  LET rank(i) == Cardinality({j \in S : j <= i})
           IN /\ \A i \in S : rank(i) \in 1 .. Cardinality(S)
              /\ \A i, k \in S : i < k => rank(i) < rank(k)
              /\ \A i, k \in S : rank(i) = rank(k) => i = k
              /\ \A n \in 1 .. Cardinality(S) : \E i \in S : rank(i) = n
<1> DEFINE upTo(i) == {j \in S : j <= i}
           rank(i) == Cardinality(upTo(i))
           f       == [i \in S |-> rank(i)]
<1>1. Cardinality(S) \in Nat
  BY FS_CardinalityType
<1>2. \A i \in S : IsFiniteSet(upTo(i)) /\ rank(i) \in Nat /\ rank(i) <= Cardinality(S)
  <2> SUFFICES ASSUME NEW i \in S
               PROVE  IsFiniteSet(upTo(i)) /\ rank(i) \in Nat /\ rank(i) <= Cardinality(S)
    OBVIOUS
  <2>1. upTo(i) \in SUBSET S
    OBVIOUS
  <2> HIDE DEF upTo
  <2>2. IsFiniteSet(upTo(i)) /\ rank(i) <= Cardinality(S)
    BY <2>1, FS_Subset
  <2> QED BY <2>2, FS_CardinalityType
<1>3. \A i \in S : rank(i) # 0
  <2> SUFFICES ASSUME NEW i \in S PROVE rank(i) # 0
    OBVIOUS
  <2>1. i \in upTo(i)
    OBVIOUS
  <2> HIDE DEF upTo
  <2> QED BY <1>2, <2>1, FS_EmptySet
<1>4. ASSUME NEW i \in S, NEW k \in S, i < k PROVE rank(i) < rank(k)
  <2>1. upTo(i) \in SUBSET upTo(k) /\ k \in upTo(k) /\ k \notin upTo(i)
    <3>1. i \in Nat /\ k \in Nat /\ \A j \in S : j \in Nat
      OBVIOUS
    <3>2. \A j \in S : j <= i => j <= k
      BY <1>4, <3>1
    <3>3. k <= k /\ ~(k <= i)
      BY <1>4, <3>1
    <3> QED BY <3>2, <3>3
  <2> HIDE DEF upTo
  <2> QED BY <1>2, <2>1, FS_Subset
<1> HIDE DEF upTo
<1>5. \A i, k \in S : rank(i) = rank(k) => i = k
  BY <1>2, <1>4
<1>6. \A i \in S : rank(i) \in 1 .. Cardinality(S)
  BY <1>1, <1>2, <1>3
<1> HIDE DEF rank
<1>7. f \in Injection(S, 1 .. Cardinality(S))
  BY <1>5, <1>6 DEF Injection, IsInjective
<1>8. IsFiniteSet(1 .. Cardinality(S)) /\ Cardinality(1 .. Cardinality(S)) = Cardinality(S)
  BY <1>1, FS_Interval
<1>9. f \in Surjection(S, 1 .. Cardinality(S))
  BY <1>7, <1>8, FS_Injection
<1>10. \A n \in 1 .. Cardinality(S) : \E i \in S : rank(i) = n
  BY <1>9 DEF Surjection
<1> QED BY <1>4, <1>5, <1>6, <1>10 DEF rank, upTo

LEMMA SeatsAreOrdered ==
    ASSUME room.roster \in [Seats -> Players \cup {None}], OneSeatEach(room.roster),
           Cardinality(Seated) >= 2
    PROVE  /\ SeatOrder \in Seq(Players) /\ NoRepeats(SeatOrder)
           /\ Elements(SeatOrder) = Seated
           /\ Len(SeatOrder) >= 2 /\ Len(SeatOrder) <= Cardinality(Players)
<1> DEFINE n       == Cardinality(Taken)
           rank(i) == Cardinality({j \in Taken : j <= i})
           seat(k) == CHOOSE i \in Taken : rank(i) = k
           s       == SeatOrder
<1>1. /\ Taken \subseteq Nat /\ IsFiniteSet(Taken) /\ n \in Nat
      /\ \A i \in Taken : i \in Seats /\ room.roster[i] \in Players
  <2>1. Taken \in SUBSET Seats /\ Seats \subseteq Nat
    BY DEF Taken, Seats
  <2>2. IsFiniteSet(Seats)
    BY RoomAssumption, FS_Interval DEF Seats
  <2>3. IsFiniteSet(Taken)
    BY <2>1, <2>2, FS_Subset
  <2> QED BY <2>1, <2>3, FS_CardinalityType DEF Taken
<1>2. /\ \A i \in Taken : rank(i) \in 1 .. n
      /\ \A i, k \in Taken : rank(i) = rank(k) => i = k
      /\ \A k \in 1 .. n : \E i \in Taken : rank(i) = k
  BY <1>1, RankIsBijection
<1>3. s = [k \in 1 .. n |-> room.roster[seat(k)]]
  BY DEF SeatOrder
<1> HIDE DEF s, rank
<1>4. \A k \in 1 .. n : seat(k) \in Taken /\ rank(seat(k)) = k
  BY <1>2
<1>5. \A i \in Taken : seat(rank(i)) = i
  BY <1>2, <1>4
<1> HIDE DEF seat, n
<1>6. s \in [1 .. n -> Players]
  BY <1>1, <1>3, <1>4
<1>7. s \in Seq(Players) /\ Len(s) = n /\ DOMAIN s = 1 .. n
  BY <1>1, <1>6, FunctionIsSeq
<1>8. NoRepeats(s)
  <2> SUFFICES ASSUME NEW k \in 1 .. n, NEW l \in 1 .. n, s[k] = s[l] PROVE k = l
    BY <1>7 DEF NoRepeats
  <2>1. seat(k) = seat(l)
    BY <1>1, <1>3, <1>4, CardsAssumption DEF OneSeatEach
  <2> QED BY <1>4, <2>1
<1>9. Elements(s) = Seated
  <2>1. \A k \in 1 .. n : s[k] \in Seated
    BY <1>1, <1>3, <1>4, CardsAssumption DEF Seated, SeatedIn, Elements
  <2>2. ASSUME NEW p \in Seated PROVE p \in Elements(s)
    <3>1. PICK i \in Seats : room.roster[i] = p /\ p # None
      BY DEF Seated, SeatedIn, Elements
    <3>2. i \in Taken
      BY <3>1 DEF Taken
    <3>3. s[rank(i)] = p /\ rank(i) \in 1 .. n
      BY <1>2, <1>3, <1>5, <3>1, <3>2
    <3> QED BY <1>7, <3>3 DEF Elements
  <2> QED BY <1>7, <2>1, <2>2 DEF Elements
<1>10. n >= 2
  <2>1. s \in Surjection(1 .. n, Seated)
    BY <1>6, <1>7, <1>9 DEF Surjection, Elements
  <2>2. IsFiniteSet(1 .. n) /\ Cardinality(1 .. n) = n
    BY <1>1, FS_Interval DEF n
  <2>3. IsFiniteSet(Seated) /\ Cardinality(Seated) <= n
    BY <2>1, <2>2, FS_Surjection
  <2> QED BY <1>1, <2>3, FS_CardinalityType
<1>11. n <= Cardinality(Players)
  <2>1. s \in UNION {[1 .. m -> Players] : m \in 1 .. Cardinality(Players)}
    BY <1>7, <1>8, <1>10, SeatsAreFew
  <2>2. PICK m \in 1 .. Cardinality(Players) : s \in [1 .. m -> Players]
    BY <2>1
  <2>3. m \in Nat /\ Cardinality(Players) \in Nat
    BY CardsAssumption, FS_CardinalityType
  <2>4. Len(s) = m
    BY <2>2, <2>3, FunctionIsSeq
  <2> QED BY <1>7, <2>3, <2>4
<1> QED BY <1>7, <1>8, <1>9, <1>10, <1>11 DEF s

-----------------------------------------------------------------------------
(* Lifecycle, roster and absence keep the invariant                        *)

LEMMA LowestSeat ==
    ASSUME NEW S, S \subseteq Seats, S # {}
    PROVE  Lowest(S) \in S /\ \A j \in S : Lowest(S) <= j
<1> DEFINE rank(i) == Cardinality({j \in S : j <= i})
<1>1. S \subseteq Nat /\ IsFiniteSet(S)
  <2>1. IsFiniteSet(Seats)
    BY RoomAssumption, FS_Interval DEF Seats
  <2>2. IsFiniteSet(S)
    BY <2>1, FS_Subset
  <2> QED BY <2>2 DEF Seats
<1>2. Cardinality(S) \in Nat \ {0}
  BY <1>1, FS_CardinalityType, FS_EmptySet
<1>3. /\ \A i \in S : rank(i) \in 1 .. Cardinality(S)
      /\ \A i, k \in S : i < k => rank(i) < rank(k)
      /\ \A n \in 1 .. Cardinality(S) : \E i \in S : rank(i) = n
  BY <1>1, RankIsBijection
<1> HIDE DEF rank
<1>4. PICK i \in S : rank(i) = 1
  BY <1>2, <1>3
<1>5. \A j \in S : i <= j
  BY <1>1, <1>2, <1>3, <1>4
<1> QED BY <1>5 DEF Lowest

LEMMA DealtIfRunning ==
    ASSUME SInv, Running(game)
    PROVE  /\ match.dealt > 0 /\ Healthy(game, pile) /\ room.status = "in_progress"
           /\ ~Decided(match) /\ ~room.between /\ Seated \subseteq Ring(game)
<1>1. match.dealt # 0
  BY NoGameFields DEF SInv, InLobby, Running
<1> QED BY <1>1 DEF SInv, SessionTyped, Matches, OnTable, GameHasMatch, MatchScored, SeatedPlays

\* A command that deals no card: it changes lifecycle, seats and absences, and
\* may note that those of gone, who left their seats, forfeited.
Quiet(gone) ==
    /\ room.status \notin Terminal
    /\ room' \in Rooms /\ room'.seq = room.seq + 1
    /\ room'.uno = room.uno /\ room'.between = room.between
    /\ \/ room'.status = room.status
       \/ room.status = "waiting" /\ room'.status \in {"locked", "cancelled"}
    /\ OneSeatEach(room'.roster)
    /\ room.status = "waiting" \/ SeatedIn(room'.roster) \subseteq Seated
    /\ away' \in Absences /\ \A p \in Players : away'[p].ver <= room.seq + 1
    /\ match' = [match EXCEPT !.forfeits = @ \cup gone]
    /\ gone \subseteq Players /\ gone \cap SeatedIn(room'.roster) = {}
    /\ gone # {} => match.dealt > 0 /\ ~Running(game)
    /\ UNCHANGED <<game, turn, skipped, pile, overdue>>

LEMMA QuietKeeps == ASSUME SInv, NEW gone, Quiet(gone) PROVE SInv'
<1>1. /\ room \in Rooms /\ room' \in Rooms /\ match \in Matches
      /\ match' \in Matches /\ match'.wins = match.wins /\ match'.abandoned = match.abandoned
      /\ match'.dealt = match.dealt /\ match'.forfeits = match.forfeits \cup gone
      /\ game' = game /\ turn' = turn /\ skipped' = skipped /\ pile' = pile
      /\ match.dealt \in Nat
  BY DEF SInv, SessionTyped, Quiet, Matches
<1>2. room.status = "waiting" => match.dealt = 0
  BY <1>1 DEF SInv, OnTable
<1>3. SessionTyped'
  BY <1>1 DEF SInv, SessionTyped, Quiet
<1>4. NothingAhead'
  <2>1. room.seq \in Nat /\ turn \in Nat /\ room.uno.at \in Nat /\ room'.seq = room.seq + 1
    BY <1>1 DEF SInv, NothingAhead, Rooms, Quiet
  <2>2. turn \in 0 .. room'.seq /\ room'.uno.at <= room'.seq
    BY <2>1 DEF SInv, NothingAhead, Quiet
  <2> QED BY <1>1, <2>1, <2>2 DEF SInv, NothingAhead, Quiet
<1>5. InLobby'
  BY <1>1 DEF SInv, InLobby, Quiet
<1>6. OnTable'
  BY <1>1, <1>2 DEF SInv, OnTable, Quiet
<1>7. GameHasMatch'
  BY <1>1, <1>2, DealtIfRunning DEF GameHasMatch, Running, Decided, Quiet
<1>8. MatchScored'
  <2>1. GamesWon' = GamesWon /\ (Decided(match') <=> Decided(match))
    BY <1>1 DEF GamesWon, Decided
  <2>2. room'.status = "completed" <=> room.status = "completed"
    BY DEF Quiet
  <2> QED BY <1>1, <2>1, <2>2 DEF SInv, MatchScored, Running, Quiet
<1>9. ForfeitedStaysOut'
  <2>1. match.dealt = 0 => match'.forfeits = {}
    BY <1>1 DEF SInv, InLobby, Quiet
  <2>2. match.dealt # 0 => SeatedIn(room'.roster) \subseteq Seated
    BY <1>2 DEF Quiet
  <2>3. Running(game) => gone = {}
    BY DEF Quiet
  <2>4. Seated' = SeatedIn(room'.roster)
    BY DEF Seated, SeatedIn, Elements
  <2> QED BY <1>1, <2>1, <2>2, <2>3, <2>4 DEF SInv, ForfeitedStaysOut, Running, Ring, Elements, Quiet
<1>10. SeatedPlays'
  <2>1. Seated' = SeatedIn(room'.roster)
    BY DEF Seated, SeatedIn, Elements
  <2>2. Running(game) => SeatedIn(room'.roster) \subseteq Seated
    BY <1>2, DealtIfRunning DEF Quiet
  <2> QED BY <1>1, <2>1, <2>2 DEF SInv, SeatedPlays, OneSeatEach, Running, Ring, Elements, Quiet
<1>11. RoomWindowIsReal'
  BY <1>1, <1>2, DealtIfRunning DEF SInv, RoomWindowIsReal, Running, Ring, Elements, Quiet
<1> QED BY <1>3, <1>4, <1>5, <1>6, <1>7, <1>8, <1>9, <1>10, <1>11 DEF SInv

\* A seat taken by somebody new, and the seats of somebody who goes.
LEMMA JoinIsQuiet == ASSUME SInv, NEW p \in Players, JoinRoom(p) PROVE Quiet({})
<1> DEFINE free == {i \in Seats : room.roster[i] = None}
           low  == Lowest(free)
<1>1. /\ room.status = "waiting" /\ room.status \notin Terminal /\ p \notin Seated /\ free # {}
      /\ room.seq < MaxSequence
      /\ room' = [[room EXCEPT !.roster[low] = p] EXCEPT !.seq = room.seq + 1]
      /\ UNCHANGED <<away, gameVars>>
  BY DEF JoinRoom, Advance, Terminal
<1>2. low \in Seats
  BY <1>1, LowestSeat
<1> HIDE DEF low
<1>3. /\ room \in Rooms /\ away \in Absences /\ match \in Matches
      /\ \A i, j \in Seats : room.roster[i] = room.roster[j] /\ room.roster[i] # None => i = j
      /\ room.seq \in Nat /\ room.seq + 1 \in 1 .. MaxSequence
  BY <1>1, RoomAssumption DEF SInv, SessionTyped, SeatedPlays, Rooms
<1>4. /\ room' \in Rooms /\ room'.roster = [room.roster EXCEPT ![low] = p]
      /\ room'.seq = room.seq + 1 /\ room'.uno = room.uno /\ room'.between = room.between
      /\ room'.status = room.status
  <2>1. [room.roster EXCEPT ![low] = p] \in [Seats -> Players \cup {None}]
    BY <1>3 DEF Rooms
  <2> QED BY <1>1, <1>3, <2>1 DEF Rooms
<1>5. \A i \in Seats : room.roster[i] # p
  BY <1>1, <1>3, CardsAssumption DEF Seated, SeatedIn, Elements, Rooms
<1>6. OneSeatEach(room'.roster)
  BY <1>2, <1>3, <1>4, <1>5 DEF OneSeatEach, Rooms
<1>7. \A q \in Players : away'[q].ver <= room.seq + 1
  BY <1>1, <1>3 DEF SInv, NothingAhead, Absences, gameVars
<1>8. match' = [match EXCEPT !.forfeits = @ \cup {}]
  BY <1>1, <1>3 DEF Matches, gameVars
<1> QED BY <1>1, <1>3, <1>4, <1>6, <1>7, <1>8 DEF Quiet, gameVars

LEMMA SeatClears ==
    ASSUME SInv, NEW p \in Players
    PROVE  /\ SeatCleared(p) \in Rooms /\ SeatCleared(p).seq = room.seq
           /\ SeatCleared(p).uno = room.uno /\ SeatCleared(p).between = room.between
           /\ SeatCleared(p).status = room.status
           /\ SeatCleared(p).host = room.host /\ SeatCleared(p).type = room.type
           /\ OneSeatEach(SeatCleared(p).roster)
           /\ SeatedIn(SeatCleared(p).roster) = Seated \ {p}
<1> DEFINE cleared == [i \in Seats |-> IF room.roster[i] = p THEN None ELSE room.roster[i]]
           r == SeatCleared(p)
<1>1. /\ room \in Rooms
      /\ \A i, j \in Seats : room.roster[i] = room.roster[j] /\ room.roster[i] # None => i = j
  BY DEF SInv, SessionTyped, SeatedPlays
<1>2. r = [room EXCEPT !.roster = cleared]
  BY DEF SeatCleared
<1>3. cleared \in [Seats -> Players \cup {None}]
  BY <1>1 DEF Rooms
<1>4. \A i \in Seats : cleared[i] = IF room.roster[i] = p THEN None ELSE room.roster[i]
  OBVIOUS
<1> HIDE DEF cleared, r
<1>5. /\ r \in Rooms /\ r.roster = cleared /\ r.seq = room.seq /\ r.uno = room.uno
      /\ r.between = room.between /\ r.status = room.status /\ r.host = room.host
      /\ r.type = room.type
  BY <1>1, <1>2, <1>3 DEF Rooms
<1>6. OneSeatEach(cleared)
  BY <1>1, <1>4 DEF OneSeatEach
<1>7. SeatedIn(cleared) = Seated \ {p}
  <2>1. DOMAIN room.roster = Seats /\ DOMAIN cleared = Seats
    BY <1>1, <1>3 DEF Rooms
  <2> QED BY <1>4, <2>1 DEF SeatedIn, Seated, Elements
<1> QED BY <1>5, <1>6, <1>7 DEF r

\* What Advance makes of a Room that keeps window, seats and status.
LEMMA AdvanceFields ==
    ASSUME NEW r \in Rooms, room.seq \in Nat, Advance(r)
    PROVE  /\ room' \in Rooms /\ room'.seq = room.seq + 1
           /\ room'.roster = r.roster /\ room'.uno = r.uno /\ room'.between = r.between
           /\ room'.status = r.status
<1>1. room.seq + 1 \in 1 .. MaxSequence
  BY RoomAssumption DEF Advance
<1> QED BY <1>1 DEF Advance, Rooms

LEMMA LeaveIsQuiet == ASSUME SInv, NEW p \in Players, LeaveRoom(p) PROVE Quiet({})
<1> DEFINE left      == SeatCleared(p)
           reassigns == room.host = p /\ room.status = "waiting" /\ room.type = "ad_hoc"
           taken     == {i \in Seats : left.roster[i] # None}
           r         == IF reassigns THEN HostLeft(left) ELSE left
<1>1. /\ Advance(r) /\ away' = [away EXCEPT ![p].active = FALSE] /\ UNCHANGED gameVars
      /\ room.status \notin Terminal
  BY DEF LeaveRoom
<1>2. /\ room \in Rooms /\ away \in Absences /\ match \in Matches /\ room.seq \in Nat
  BY DEF SInv, SessionTyped, Rooms
<1>3. /\ left \in Rooms /\ left.uno = room.uno /\ left.between = room.between
      /\ left.status = room.status /\ OneSeatEach(left.roster)
      /\ SeatedIn(left.roster) = Seated \ {p}
  BY SeatClears
<1> HIDE DEF left
<1>4. /\ r \in Rooms /\ r.uno = left.uno /\ r.between = left.between /\ r.roster = left.roster
      /\ r.status = left.status \/ (left.status = "waiting" /\ r.status = "cancelled")
  <2>1. CASE ~reassigns
    BY <1>3, <2>1
  <2>2. CASE reassigns /\ taken # {}
    <3>1. r = [left EXCEPT !.host = left.roster[Lowest(taken)]]
      BY <2>2 DEF HostLeft
    <3>2. Lowest(taken) \in Seats
      BY <2>2, LowestSeat
    <3>3. left.roster[Lowest(taken)] \in Players \cup {None}
      BY <1>3, <3>2 DEF Rooms
    <3> QED BY <1>3, <3>1, <3>3 DEF Rooms
  <2>3. CASE reassigns /\ taken = {}
    <3>1. r = [left EXCEPT !.status = "cancelled", !.host = None]
      BY <2>3 DEF HostLeft
    <3> QED BY <1>3, <2>3, <3>1 DEF Rooms, Terminal
  <2> QED BY <2>1, <2>2, <2>3
<1> HIDE DEF r, reassigns, taken
<1>5. /\ room' \in Rooms /\ room'.seq = room.seq + 1 /\ room'.roster = left.roster
      /\ room'.uno = room.uno /\ room'.between = room.between
      /\ room'.status = room.status \/ (room.status = "waiting" /\ room'.status = "cancelled")
  BY <1>1, <1>2, <1>3, <1>4, AdvanceFields
<1>6. away' \in Absences /\ \A q \in Players : away'[q].ver = away[q].ver
  BY <1>1, <1>2 DEF Absences
<1>7. \A q \in Players : away'[q].ver <= room.seq + 1
  BY <1>2, <1>6 DEF SInv, NothingAhead, Absences
<1>8. match' = [match EXCEPT !.forfeits = @ \cup {}]
  BY <1>1, <1>2 DEF Matches, gameVars
<1> QED BY <1>1, <1>3, <1>5, <1>6, <1>7, <1>8 DEF Quiet, gameVars

\* Lock, cancel, disconnect, reconnect: nobody comes or goes.
LEMMA StatusIsQuiet ==
    ASSUME SInv, NEW p \in Players,
           \/ LockRoom(p) \/ CancelRoom(p) \/ DisconnectPlayer(p)
           \/ \E ver \in 1 .. away[p].ver : ReconnectPlayer(p, ver)
    PROVE  Quiet({})
<1>1. /\ room \in Rooms /\ away \in Absences /\ match \in Matches /\ room.seq \in Nat
      /\ OneSeatEach(room.roster) /\ \A q \in Players : away[q].ver <= room.seq
  BY DEF SInv, SessionTyped, Rooms, SeatedPlays, OneSeatEach, NothingAhead
<1>2. UNCHANGED gameVars /\ room.seq < MaxSequence /\ room.status \notin Terminal
  BY DEF LockRoom, CancelRoom, DisconnectPlayer, ReconnectPlayer, Advance, Terminal
<1>3. PICK status \in {room.status, "locked", "cancelled"} :
        /\ Advance([room EXCEPT !.status = status])
        /\ status # room.status => room.status = "waiting"
  <2>1. [room EXCEPT !.status = room.status] = room
    BY <1>1 DEF Rooms
  <2> QED BY <2>1 DEF LockRoom, CancelRoom, DisconnectPlayer, ReconnectPlayer
<1>4. /\ [room EXCEPT !.status = status] \in Rooms
      /\ [room EXCEPT !.status = status].uno = room.uno
      /\ [room EXCEPT !.status = status].between = room.between
      /\ [room EXCEPT !.status = status].roster = room.roster
      /\ [room EXCEPT !.status = status].status = status
  BY <1>1 DEF Rooms, Terminal
<1>5. /\ room' \in Rooms /\ room'.seq = room.seq + 1 /\ room'.roster = room.roster
      /\ room'.uno = room.uno /\ room'.between = room.between /\ room'.status = status
  BY <1>1, <1>3, <1>4, AdvanceFields
<1>6. away' \in Absences /\ \A q \in Players : away'[q].ver <= room.seq + 1
  <2>1. CASE away' = away
    BY <1>1, <2>1 DEF Absences
  <2>2. CASE away' = [away EXCEPT ![p].active = FALSE]
    <3>1. away' \in Absences /\ \A q \in Players : away'[q].ver = away[q].ver
      BY <1>1, <2>2 DEF Absences
    <3> QED BY <1>1, <3>1 DEF Absences
  <2>3. CASE away' = [away EXCEPT ![p] = [ver |-> away[p].ver + 1, active |-> TRUE, due |-> FALSE]]
    <3>1. away[p].ver + 1 \in 0 .. MaxSequence /\ away[p].ver + 1 <= room.seq + 1
      BY <1>1, <1>2, RoomAssumption DEF Absences, Rooms
    <3> QED BY <1>1, <2>3, <3>1 DEF Absences
  <2> QED BY <2>1, <2>2, <2>3 DEF LockRoom, CancelRoom, DisconnectPlayer, ReconnectPlayer
<1>7. match' = [match EXCEPT !.forfeits = @ \cup {}]
  BY <1>1, <1>2 DEF Matches, gameVars
<1>8. SeatedIn(room'.roster) = Seated
  BY <1>5 DEF Seated
<1> QED BY <1>1, <1>2, <1>3, <1>5, <1>6, <1>7, <1>8 DEF Quiet, gameVars

-----------------------------------------------------------------------------
(* Games are dealt and scored                                              *)

LEMMA WinsAreFinite ==
    ASSUME match \in Matches
    PROVE  IsFiniteSet(GamesWon) /\ Cardinality(GamesWon) \in Nat
<1>1. IsFiniteSet(Players \X (1 .. 2))
  <2>1. IsFiniteSet({1, 2}) /\ 1 .. 2 = {1, 2}
    <3>1. IsFiniteSet({1}) /\ IsFiniteSet({1} \cup {2})
      BY FS_Singleton, FS_AddElement
    <3>2. {1} \cup {2} = {1, 2} /\ 1 .. 2 = {1, 2}
      OBVIOUS
    <3> QED BY <3>1, <3>2
  <2> QED BY <2>1, CardsAssumption, FS_Product
<1>2. GamesWon \in SUBSET (Players \X (1 .. 2))
  BY DEF GamesWon
<1> HIDE DEF GamesWon
<1>3. IsFiniteSet(GamesWon)
  BY <1>1, <1>2, FS_Subset
<1> QED BY <1>3, FS_CardinalityType

\* As long as nobody has won twice there are no more games than players.
LEMMA WinsAreFew ==
    ASSUME match \in Matches, ~Decided(match)
    PROVE  Cardinality(GamesWon) <= Cardinality(Players)
<1>1. \A p \in Players : match.wins[p] \in {0, 1}
  BY DEF Matches, Decided
<1>2. GamesWon \in SUBSET (Players \X {1})
  BY <1>1 DEF GamesWon
<1>3. /\ IsFiniteSet(Players \X {1})
      /\ Cardinality(Players \X {1}) = Cardinality(Players) * 1
  <2>1. IsFiniteSet({1}) /\ Cardinality({1}) = 1
    BY FS_Singleton
  <2> QED BY <2>1, CardsAssumption, FS_Product
<1>4. Cardinality(GamesWon) <= Cardinality(Players \X {1})
  <2> HIDE DEF GamesWon
  <2> QED BY <1>2, <1>3, FS_Subset
<1> QED BY <1>3, <1>4, CardsAssumption, FS_CardinalityType

LEMMA OneMoreWon ==
    ASSUME match \in Matches, ~Decided(match), NEW w \in Players,
           match'.wins = [match.wins EXCEPT ![w] = @ + 1]
    PROVE  Cardinality(GamesWon') = Cardinality(GamesWon) + 1
<1> DEFINE new == <<w, match.wins[w] + 1>>
<1>1. /\ match.wins \in [Players -> 0 .. 2]
      /\ \A p \in Players : match.wins[p] \in {0, 1}
  BY DEF Matches, Decided
<1>2. new \in Players \X (1 .. 2) /\ new \notin GamesWon
  BY <1>1 DEF GamesWon
<1>3. GamesWon' = GamesWon \cup {new}
  <2>1. \A p \in Players : match'.wins[p] = IF p = w THEN match.wins[w] + 1 ELSE match.wins[p]
    BY <1>1
  <2>2. \A p \in Players, n \in 1 .. 2 :
          n <= match'.wins[p] <=> n <= match.wins[p] \/ <<p, n>> = new
    BY <1>1, <2>1
  <2>3. \A x \in Players \X (1 .. 2) : \E p \in Players, n \in 1 .. 2 : x = <<p, n>>
    OBVIOUS
  <2> HIDE DEF new
  <2>4. \A x \in Players \X (1 .. 2) : x \in GamesWon' <=> x \in GamesWon \cup {new}
    BY <2>2, <2>3 DEF GamesWon
  <2>5. GamesWon \subseteq Players \X (1 .. 2) /\ GamesWon' \subseteq Players \X (1 .. 2)
    BY DEF GamesWon
  <2> QED BY <1>2, <2>4, <2>5
<1> HIDE DEF new, GamesWon
<1>4. IsFiniteSet(GamesWon)
  BY WinsAreFinite
<1> QED BY <1>2, <1>3, <1>4, FS_AddElement

LEMMA BeginKeeps ==
    ASSUME SInv, NEW changed \in Rooms, changed.status = "in_progress",
           changed.roster = room.roster, room.status \in {"locked", "in_progress"},
           ~Running(game), ~Decided(match), BeginGame(changed)
    PROVE  SInv' /\ room'.seq = room.seq + 1
<1> DEFINE r == [changed EXCEPT !.between = FALSE, !.uno = NoUno]
<1>1. /\ room \in Rooms /\ away \in Absences /\ match \in Matches /\ overdue \in BOOLEAN
      /\ room.seq \in Nat /\ match.dealt \in Nat /\ OneSeatEach(room.roster) /\ turn \in 0 .. room.seq
  BY DEF SInv, SessionTyped, Rooms, Matches, SeatedPlays, OneSeatEach, NothingAhead
<1>2. /\ Cardinality(Seated) >= 2 /\ Advance(r)
      /\ match' = [match EXCEPT !.dealt = @ + 1] /\ turn' = room.seq + 1
      /\ away' = away /\ skipped' = skipped /\ overdue' = overdue
  BY DEF BeginGame
<1>3. PICK d \in Deals : game' = DealtTo(d, SeatOrder) /\ pile' = d.deck
  BY DEF BeginGame
<1>4. /\ SeatOrder \in Seq(Players) /\ NoRepeats(SeatOrder) /\ Elements(SeatOrder) = Seated
      /\ Len(SeatOrder) >= 2 /\ Len(SeatOrder) <= Cardinality(Players)
  BY <1>1, <1>2, SeatsAreOrdered DEF Rooms
<1>5. ProperDeal(d) /\ Len(SeatOrder) <= Len(d.hands)
  <2>1. ProperDeal(d) /\ Len(d.hands) >= Cardinality(Players)
    BY RoomAssumption
  <2>2. Len(d.hands) \in Nat /\ Cardinality(Players) \in Nat /\ Len(SeatOrder) \in Nat
    BY <1>4, <2>1, CardsAssumption, FS_CardinalityType DEF ProperDeal
  <2> QED BY <1>4, <2>1, <2>2
<1>6. Healthy(game', pile')
  BY <1>3, <1>4, <1>5, DealIsSound
<1>7. Running(game') /\ Ring(game') = Seated
  BY <1>3, <1>4 DEF DealtTo, StartGame, Running, Ring
<1>8. /\ r \in Rooms /\ r.roster = room.roster /\ r.uno = NoUno /\ ~r.between
      /\ r.status = "in_progress"
  <2>1. NoUno \in [owner : Players \cup {None}, at : 0 .. MaxSequence]
    BY RoomAssumption DEF NoUno
  <2> QED BY <2>1 DEF Rooms
<1> HIDE DEF r
<1>9. /\ room' \in Rooms /\ room'.seq = room.seq + 1 /\ room'.roster = room.roster
      /\ room'.uno = NoUno /\ ~room'.between /\ room'.status = "in_progress"
  BY <1>1, <1>2, <1>8, AdvanceFields
<1>10. Cardinality(GamesWon) = match.dealt /\ match.dealt <= Cardinality(Players)
  BY <1>1, WinsAreFew DEF SInv, MatchScored
<1>11. /\ match' \in Matches /\ match'.wins = match.wins /\ match'.forfeits = match.forfeits
       /\ match'.abandoned = match.abandoned /\ match'.dealt = match.dealt + 1
  <2>1. match.dealt + 1 \in 0 .. Cardinality(Players) + 1
    BY <1>1, <1>10, CardsAssumption, FS_CardinalityType
  <2> QED BY <1>1, <1>2, <2>1 DEF Matches
<1>12. Seated' = Seated /\ (Decided(match') <=> Decided(match)) /\ GamesWon' = GamesWon
  BY <1>9, <1>11 DEF Seated, SeatedIn, Elements, Decided, GamesWon
<1>13. SessionTyped'
  BY <1>1, <1>2, <1>9, <1>11 DEF SessionTyped
<1>14. NothingAhead'
  <2>1. room'.uno.at = 0
    BY <1>9 DEF NoUno
  <2>2. \A p \in Players : away'[p].ver <= room'.seq
    BY <1>1, <1>2, <1>9 DEF SInv, NothingAhead, Absences
  <2>3. skipped' \subseteq Players \X (0 .. turn' - 1)
    <3>1. 0 .. turn - 1 \subseteq 0 .. turn' - 1
      BY <1>1, <1>2
    <3> QED BY <1>2, <3>1 DEF SInv, NothingAhead
  <2> QED BY <1>1, <1>2, <1>9, <2>1, <2>2, <2>3 DEF NothingAhead
<1>15. InLobby' /\ OnTable' /\ GameHasMatch'
  BY <1>1, <1>6, <1>7, <1>9, <1>11, <1>12 DEF InLobby, OnTable, GameHasMatch, Running
<1>16. MatchScored'
  BY <1>1, <1>7, <1>9, <1>10, <1>11, <1>12 DEF MatchScored, Running
<1>17. ForfeitedStaysOut'
  BY <1>7, <1>11, <1>12 DEF SInv, ForfeitedStaysOut, Ring, Elements
<1>18. SeatedPlays'
  BY <1>7, <1>9, <1>12 DEF SInv, SeatedPlays, Ring, Elements
<1>19. RoomWindowIsReal'
  BY <1>9 DEF RoomWindowIsReal
<1> QED BY <1>9, <1>13, <1>14, <1>15, <1>16, <1>17, <1>18, <1>19 DEF SInv

\* The first game and the later ones.
Deal == StartNextGame \/ \E p \in Players : StartMatch(p)

LEMMA DealKeeps == ASSUME SInv, Deal PROVE SInv' /\ room'.seq = room.seq + 1
<1>1. room \in Rooms /\ match \in Matches
  BY DEF SInv, SessionTyped
<1>2. ASSUME NEW p \in Players, StartMatch(p) PROVE SInv' /\ room'.seq = room.seq + 1
  <2> DEFINE r == [room EXCEPT !.status = "in_progress"]
  <2>1. room.status = "locked" /\ BeginGame(r)
    BY <1>2 DEF StartMatch
  <2>2. match.dealt = 0
    BY <1>1, <2>1 DEF SInv, OnTable, Matches
  <2>3. ~Running(game) /\ ~Decided(match)
    BY <2>2, NoGameFields DEF SInv, InLobby, Running, Decided
  <2>4. r \in Rooms /\ r.status = "in_progress" /\ r.roster = room.roster
    BY <1>1 DEF Rooms
  <2> HIDE DEF r
  <2> QED BY <2>1, <2>3, <2>4, BeginKeeps
<1>3. CASE StartNextGame
  BY <1>1, <1>3, BeginKeeps DEF StartNextGame
<1> QED BY <1>2, <1>3 DEF Deal

-----------------------------------------------------------------------------
(* Gameplay: what the session makes of an answer of the engine             *)

\* The answer r committed on the Room and the match, from whose seats and ring
\* those of gone leave for good.
Committed(r, changed, m, resolves, gone) ==
    /\ Running(game) /\ Tells(game, r, resolves, gone) /\ Healthy(r.game, pile')
    /\ changed \in Rooms /\ m \in Matches /\ resolves \in BOOLEAN /\ gone \subseteq Players
    /\ changed.uno = room.uno /\ changed.between = room.between /\ changed.status = room.status
    /\ OneSeatEach(changed.roster) /\ SeatedIn(changed.roster) = Seated \ gone
    /\ m.wins = match.wins /\ m.abandoned = match.abandoned /\ m.dealt = match.dealt
    /\ m.forfeits = match.forfeits \cup gone
    /\ away' \in Absences /\ \A p \in Players : away'[p].ver = away[p].ver
    /\ \/ skipped' = skipped
       \/ "advanced" \in r.facts /\ \E p \in Players : skipped' = skipped \cup {<<p, turn>>}
    /\ CommitGame(r, changed, m, resolves)

\* The fields of what CommitGame writes.
LEMMA CommitFields ==
    ASSUME SInv, NEW r, NEW changed, NEW m, NEW resolves, NEW gone,
           Committed(r, changed, m, resolves, gone)
    PROVE  /\ game' = r.game /\ room' \in Rooms /\ room'.seq = room.seq + 1
           /\ room'.roster = changed.roster /\ room'.uno = RoomUno(r, resolves)
           /\ room'.between <=> "done" \in r.facts
           /\ room'.status = IF "done" \in r.facts /\ Decided(match') THEN "completed"
                             ELSE "in_progress"
           /\ match' = IF "done" \in r.facts THEN Scored(m, r.game) ELSE m
           /\ turn' = TurnAfter(r)
           /\ overdue' \in BOOLEAN
<1> DEFINE done   == "done" \in r.facts
           scored == IF done THEN Scored(m, r.game) ELSE m
           s      == [changed EXCEPT !.uno = RoomUno(r, resolves), !.between = @ \/ done,
                                     !.status = IF done /\ Decided(scored) THEN "completed" ELSE @]
<1>1. /\ game' = r.game /\ match' = scored /\ Advance(s) /\ turn' = TurnAfter(r)
      /\ overdue' = (overdue /\ "opened" \notin r.facts)
  BY DEF Committed, CommitGame
<1>2. /\ room \in Rooms /\ room.seq \in Nat /\ overdue \in BOOLEAN /\ changed \in Rooms
      /\ changed.between = room.between /\ changed.status = room.status
  BY DEF SInv, SessionTyped, Rooms, Committed
<1>3. room.status = "in_progress" /\ ~room.between
  BY DealtIfRunning DEF Committed
<1>4. RoomUno(r, resolves) \in [owner : Players \cup {None}, at : 0 .. MaxSequence]
  <2>1. r.game \in Game
    BY SoundParts DEF Committed, Healthy
  <2>2. room.seq + 1 \in 0 .. MaxSequence
    BY <1>1, <1>2, RoomAssumption DEF Advance
  <2>3. NoUno \in [owner : Players \cup {None}, at : 0 .. MaxSequence]
    BY RoomAssumption DEF NoUno
  <2>4. room.uno \in [owner : Players \cup {None}, at : 0 .. MaxSequence]
    BY <1>2 DEF Rooms
  <2>5. [owner |-> r.game.window.owner, at |-> room.seq + 1]
          \in [owner : Players \cup {None}, at : 0 .. MaxSequence]
    BY <2>1, <2>2 DEF Game
  <2> QED BY <2>3, <2>4, <2>5 DEF RoomUno
<1> HIDE DEF done, scored
<1>5. /\ s \in Rooms /\ s.uno = RoomUno(r, resolves) /\ s.roster = changed.roster
      /\ s.between = (changed.between \/ done)
      /\ s.status = IF done /\ Decided(scored) THEN "completed" ELSE changed.status
  BY <1>2, <1>4 DEF Rooms, Terminal
<1> HIDE DEF s
<1>6. /\ room' \in Rooms /\ room'.seq = room.seq + 1 /\ room'.roster = s.roster
      /\ room'.uno = s.uno /\ room'.between = s.between /\ room'.status = s.status
  BY <1>1, <1>2, <1>5, AdvanceFields
<1> QED BY <1>1, <1>2, <1>3, <1>5, <1>6 DEF done, scored

\* A game that ended is scored once, and decides the match if it is the winner's second.
LEMMA CommitScores ==
    ASSUME SInv, NEW r, NEW changed, NEW m, NEW resolves, NEW gone,
           Committed(r, changed, m, resolves, gone)
    PROVE  /\ match' \in Matches /\ match'.dealt = match.dealt
           /\ match'.forfeits = match.forfeits \cup gone
           /\ Decided(match') => "done" \in r.facts
           /\ Cardinality(GamesWon') = match.dealt - (IF Running(game') THEN 1 ELSE 0)
<1>1. /\ m \in Matches /\ match \in Matches /\ m.wins = match.wins /\ m.abandoned = match.abandoned
      /\ m.dealt = match.dealt /\ m.forfeits = match.forfeits \cup gone
      /\ ("done" \in r.facts <=> r.game.completed)
  BY DEF SInv, SessionTyped, Committed, Tells
<1>2. game' = r.game /\ match' = IF "done" \in r.facts THEN Scored(m, r.game) ELSE m
  BY CommitFields
<1>3. ~Decided(match) /\ match.dealt > 0 /\ match.dealt \in Nat
  BY <1>1, DealtIfRunning DEF Committed, Matches
<1>4. Cardinality(GamesWon) = match.dealt - 1
  BY DEF SInv, MatchScored, Committed
<1>5. CASE "done" \notin r.facts
  <2>1. match' = m /\ Running(game')
    BY <1>1, <1>2, <1>5 DEF Running
  <2>2. GamesWon' = GamesWon /\ ~Decided(match')
    BY <1>1, <1>3, <2>1 DEF GamesWon, Decided
  <2> QED BY <1>1, <1>4, <2>1, <2>2
<1>6. CASE "done" \in r.facts
  <2> DEFINE w == r.game.winner
  <2>1. w \in Players /\ r.game.abandoned \in BOOLEAN
    <3>1. GameSound(r.game) /\ r.game.completed
      BY <1>1, <1>6 DEF Committed, Healthy
    <3> QED BY <3>1, SoundParts DEF GameSound, Won, Game
  <2>2. \A p \in Players : match.wins[p] < 2
    BY <1>1, <1>3 DEF Decided, Matches
  <2>3. match' = [m EXCEPT !.abandoned = @ \/ r.game.abandoned, !.wins[w] = @ + 1]
    <3>1. ~\E p \in Players : m.wins[p] >= 2
      BY <1>1, <2>2 DEF Matches
    <3> QED BY <1>2, <1>6, <3>1 DEF Scored
  <2> HIDE DEF w
  <2>4. [match.wins EXCEPT ![w] = @ + 1] \in [Players -> 0 .. 2]
    BY <1>1, <2>1, <2>2 DEF Matches
  <2>5. /\ match' \in Matches /\ match'.dealt = match.dealt /\ match'.forfeits = m.forfeits
        /\ match'.wins = [match.wins EXCEPT ![w] = @ + 1]
    BY <1>1, <2>1, <2>3, <2>4 DEF Matches
  <2>6. Cardinality(GamesWon') = Cardinality(GamesWon) + 1
    BY <1>1, <1>3, <2>1, <2>5, OneMoreWon
  <2>7. ~Running(game')
    BY <1>1, <1>2, <1>6 DEF Running
  <2> QED BY <1>1, <1>3, <1>4, <1>6, <2>5, <2>6, <2>7
<1> QED BY <1>5, <1>6

LEMMA CommitKeeps ==
    ASSUME SInv, NEW r, NEW changed, NEW m, NEW resolves, NEW gone,
           Committed(r, changed, m, resolves, gone)
    PROVE  SInv'
<1>1. /\ game' = r.game /\ room' \in Rooms /\ room'.seq = room.seq + 1
      /\ room'.roster = changed.roster /\ room'.uno = RoomUno(r, resolves)
      /\ room'.between <=> "done" \in r.facts
      /\ room'.status = IF "done" \in r.facts /\ Decided(match') THEN "completed" ELSE "in_progress"
      /\ turn' = TurnAfter(r) /\ overdue' \in BOOLEAN
  BY CommitFields
<1>2. /\ match' \in Matches /\ match'.dealt = match.dealt
      /\ match'.forfeits = match.forfeits \cup gone
      /\ Decided(match') => "done" \in r.facts
      /\ Cardinality(GamesWon') = match.dealt - (IF Running(game') THEN 1 ELSE 0)
  BY CommitScores
<1>3. /\ match.dealt > 0 /\ match.dealt \in Nat /\ Seated \subseteq Ring(game)
      /\ room \in Rooms /\ room.seq \in Nat /\ turn \in 0 .. room.seq
  BY DealtIfRunning DEF Committed, SInv, SessionTyped, Matches, Rooms, NothingAhead
<1>4. /\ Healthy(r.game, pile') /\ (Running(game') <=> "done" \notin r.facts)
      /\ Ring(game') = Ring(game) \ gone /\ Seated' = Seated \ gone
  <2>1. Seated' = SeatedIn(changed.roster)
    BY <1>1 DEF Seated, SeatedIn, Elements
  <2> QED BY <1>1, <2>1 DEF Committed, Tells, Running, Ring, Elements
<1>5. SessionTyped'
  BY <1>1, <1>2 DEF SessionTyped, Committed
<1>6. NothingAhead'
  <2>1. turn' \in {turn, room.seq + 1} /\ ("advanced" \in r.facts => turn' = room.seq + 1)
    BY <1>1 DEF TurnAfter
  <2>2. room.uno.at <= room.seq /\ room.uno.at \in Nat
    BY <1>3 DEF SInv, NothingAhead, Rooms
  <2>3. room'.uno.at <= room.seq + 1
    BY <1>1, <1>3, <2>2 DEF RoomUno, NoUno
  <2>4. \A p \in Players : away'[p].ver <= room.seq + 1
    BY <1>3 DEF Committed, SInv, SessionTyped, NothingAhead, Absences
  <2>5. skipped' \subseteq Players \X (0 .. turn' - 1)
    <3>1. skipped \subseteq Players \X (0 .. turn - 1) /\ 0 .. turn - 1 \subseteq 0 .. turn' - 1
      BY <1>3, <2>1 DEF SInv, NothingAhead
    <3>2. CASE skipped' = skipped
      BY <3>1, <3>2
    <3>3. ASSUME "advanced" \in r.facts, NEW p \in Players, skipped' = skipped \cup {<<p, turn>>}
          PROVE  skipped' \subseteq Players \X (0 .. turn' - 1)
      <4>1. turn \in 0 .. turn' - 1
        <5>1. turn' - 1 = room.seq
          BY <1>3, <2>1, <3>3
        <5> QED BY <1>3, <5>1
      <4> QED BY <3>1, <3>3, <4>1
    <3> QED BY <3>2, <3>3 DEF Committed
  <2> QED BY <1>1, <1>3, <2>1, <2>3, <2>4, <2>5 DEF NothingAhead
<1>7. InLobby' /\ OnTable'
  BY <1>1, <1>2, <1>3, <1>4 DEF InLobby, OnTable
<1>8. GameHasMatch' /\ MatchScored'
  <2>1. "done" \notin r.facts => ~Decided(match')
    BY <1>2
  <2> QED BY <1>1, <1>2, <1>3, <1>4, <2>1 DEF GameHasMatch, MatchScored, Running
<1>9. ForfeitedStaysOut'
  <2>1. match.forfeits \cap Seated = {} /\ match.forfeits \cap Ring(game) = {}
    BY DEF SInv, ForfeitedStaysOut, Committed
  <2> QED BY <1>2, <1>4, <2>1 DEF ForfeitedStaysOut, Ring, Elements
<1>10. SeatedPlays'
  BY <1>1, <1>3, <1>4 DEF SeatedPlays, Committed, OneSeatEach, Ring, Elements
<1>11. RoomWindowIsReal'
  <2> SUFFICES ASSUME room'.uno # NoUno
               PROVE  /\ room'.status = "in_progress" /\ Running(game')
                      /\ game'.window.open /\ game'.window.owner = room'.uno.owner
                      /\ room'.uno.owner \in Ring(game')
    BY DEF RoomWindowIsReal, Running, Ring, Elements
  <2>1. "done" \notin r.facts /\ "closed" \notin r.facts /\ ~resolves
    BY <1>1 DEF RoomUno
  <2>2. /\ "opened" \in r.facts => r.game.window.open
        /\ game.window.open /\ "opened" \notin r.facts =>
              r.game.window.open /\ r.game.window.owner = game.window.owner
    BY <2>1 DEF Committed, Tells
  <2>3. game'.window.open /\ game'.window.owner = room'.uno.owner
    <3>1. CASE "opened" \in r.facts
      BY <1>1, <2>1, <2>2, <3>1 DEF RoomUno
    <3>2. CASE "opened" \notin r.facts
      <4>1. room'.uno = room.uno
        BY <1>1, <2>1, <3>2 DEF RoomUno
      <4> QED BY <1>1, <2>2, <3>2, <4>1 DEF SInv, RoomWindowIsReal
    <3> QED BY <3>1, <3>2
  <2>4. game'.window.owner \in Ring(game')
    BY <1>1, <1>4, <2>1, <2>3 DEF Healthy, GameSound, InPlay, Running, Ring, Elements
  <2> QED BY <1>1, <1>4, <2>1, <2>3, <2>4
<1> QED BY <1>5, <1>6, <1>7, <1>8, <1>9, <1>10, <1>11 DEF SInv

-----------------------------------------------------------------------------
(* Every step is one of four kinds                                         *)

Gameplay == \E r, changed, m, resolves, gone : Committed(r, changed, m, resolves, gone)

LEMMA AnswerCommits ==
    ASSUME SInv, Running(game), NEW r, NEW resolves \in BOOLEAN,
           Tells(game, r, resolves, {}), Healthy(r.game, pile'), away' = away,
           \/ skipped' = skipped
           \/ "advanced" \in r.facts /\ \E p \in Players : skipped' = skipped \cup {<<p, turn>>},
           CommitGame(r, room, match, resolves)
    PROVE  Gameplay
<1>1. /\ room \in Rooms /\ match \in Matches /\ away \in Absences /\ OneSeatEach(room.roster)
  BY DEF SInv, SessionTyped, SeatedPlays, OneSeatEach
<1>2. SeatedIn(room.roster) = Seated \ {} /\ match.forfeits = match.forfeits \cup {}
  BY DEF Seated
<1>3. Committed(r, room, match, resolves, {})
  BY <1>1, <1>2 DEF Committed
<1> QED BY <1>3 DEF Gameplay

LEMMA MoveCommits ==
    ASSUME SInv, NEW p \in Players,
           \/ SessionPlay(p) \/ SessionDraw(p) \/ SessionChoose(p)
           \/ SessionCallUno(p) \/ SessionExpireUno(p) \/ SkipDisconnectedTurn(p)
    PROVE  Gameplay
<1>0. Running(game)
  BY DEF SessionPlay, SessionDraw, SessionChoose, SessionCallUno, SessionExpireUno,
         SkipDisconnectedTurn, CanPlay, CanDraw, CanChoose, CanCallUno, CanExpire
<1>1. Healthy(game, pile) /\ GameSound(game) /\ game \in Game /\ ~game.completed
  BY <1>0, DealtIfRunning DEF Healthy, GameSound, Running
<1>2. CASE SessionPlay(p)
  <2>1. PICK c \in game.hands[p] :
          CanPlay(game, p, c) /\ CommitGame(PlayCard(game, p, c), room, match, FALSE)
    BY <1>2 DEF SessionPlay
  <2>2. away' = away /\ skipped' = skipped /\ pile' = pile
    BY <1>2 DEF SessionPlay
  <2>3. Tells(game, PlayCard(game, p, c), FALSE, {}) /\ Healthy(PlayCard(game, p, c).game, pile)
    BY <1>1, <2>1, PlayTells, PlayHealthy
  <2> QED BY <1>0, <2>1, <2>2, <2>3, AnswerCommits
<1>3. CASE SessionDraw(p)
  <2> DEFINE n == DrawCount(game)
             r == DrawCard(game, p, NextCards(pile, n))
  <2>1. /\ CanDraw(game, p) /\ n <= Len(pile) /\ pile' = DeckAfter(pile, n)
        /\ CommitGame(r, room, match, FALSE) /\ away' = away /\ skipped' = skipped
    BY <1>3 DEF SessionDraw, TakeFromPile
  <2>2. n \in Nat
    BY <1>1 DEF DrawCount, Game
  <2>3. NextCards(pile, n) \in SUBSET Cards
    BY <1>1, <2>1, <2>2, CardsTaken
  <2>4. Tells(game, r, FALSE, {})
    BY <1>1, <2>1, <2>3, DrawTells
  <2>5. Healthy(r.game, pile')
    BY <1>1, <2>1, DrawHealthy
  <2> HIDE DEF n, r
  <2> QED BY <1>0, <2>1, <2>4, <2>5, AnswerCommits
<1>4. CASE SessionChoose(p)
  <2>1. PICK col \in Colors : CommitGame(ChooseColor(game, p, col), room, match, FALSE)
    BY <1>4 DEF SessionChoose
  <2>2. CanChoose(game, p) /\ away' = away /\ skipped' = skipped /\ pile' = pile
    BY <1>4 DEF SessionChoose
  <2>3. /\ Tells(game, ChooseColor(game, p, col), FALSE, {})
        /\ Healthy(ChooseColor(game, p, col).game, pile)
    BY <1>1, <2>2, ChooseTells, ChooseHealthy
  <2> QED BY <1>0, <2>1, <2>2, <2>3, AnswerCommits
<1>5. CASE SessionCallUno(p) \/ SessionExpireUno(p)
  <2>1. PICK r \in {CallUno(game), ExpireUnoWindow(game)} : CommitGame(r, room, match, TRUE)
    BY <1>5 DEF SessionCallUno, SessionExpireUno
  <2>2. away' = away /\ skipped' = skipped /\ pile' = pile
    BY <1>5 DEF SessionCallUno, SessionExpireUno
  <2>3. Tells(game, r, TRUE, {}) /\ Healthy(r.game, pile)
    BY <1>1, CloseTells, CloseHealthy
  <2> QED BY <1>0, <2>1, <2>2, <2>3, AnswerCommits
<1>6. CASE SkipDisconnectedTurn(p)
  <2>1. /\ CanSkip(game, p) /\ CommitGame(SkipTurn(game, p), room, match, FALSE)
        /\ skipped' = skipped \cup {<<p, turn>>} /\ away' = away /\ pile' = pile
    BY <1>6 DEF SkipDisconnectedTurn
  <2>2. /\ Tells(game, SkipTurn(game, p), FALSE, {}) /\ "advanced" \in SkipTurn(game, p).facts
        /\ Healthy(SkipTurn(game, p).game, pile)
    BY <1>1, <2>1, SkipTells, SkipHealthy
  <2> QED BY <1>0, <2>1, <2>2, AnswerCommits
<1> QED BY <1>2, <1>3, <1>4, <1>5, <1>6

LEMMA ReportCommits ==
    ASSUME SInv, NEW p \in Players, NEW q \in Players, SessionReport(p, q)
    PROVE  Gameplay
<1> DEFINE r == ReportMissingUno(game, q, NextCards(pile, ReportPenalty))
<1>1. /\ Running(game) /\ ReportPenalty \in Nat /\ ReportPenalty <= Len(pile)
      /\ pile' = DeckAfter(pile, ReportPenalty) /\ CommitGame(r, room, match, TRUE)
      /\ away' = away /\ skipped' = skipped
  BY DEF SessionReport, CanReport, TakeFromPile, ReportPenalty
<1>2. Healthy(game, pile) /\ game \in Game /\ ~game.completed
  BY <1>1, DealtIfRunning DEF Healthy, GameSound, Running
<1>3. NextCards(pile, ReportPenalty) \in SUBSET Cards
  BY <1>1, <1>2, CardsTaken
<1>4. Tells(game, r, TRUE, {})
  BY <1>2, <1>3, CloseTells
<1>5. Healthy(r.game, pile')
  BY <1>1, <1>2, ReportHealthy
<1> HIDE DEF r
<1> QED BY <1>1, <1>4, <1>5, AnswerCommits

\* A forfeit takes the seat, and the place in the ring of a game that goes on.
LEMMA ForfeitCommits ==
    ASSUME SInv, NEW p \in Players, NEW ver, SessionForfeit(p, ver)
    PROVE  Gameplay \/ Quiet({p}) \/ Quiet({})
<1> DEFINE noted == IF match.dealt > 0 THEN [match EXCEPT !.forfeits = @ \cup {p}] ELSE match
           left  == SeatCleared(p)
           r     == ForfeitPlayer(game, p)
<1>1. /\ away' = [away EXCEPT ![p].active = FALSE] /\ skipped' = skipped /\ pile' = pile
      /\ room.status \notin Terminal
      /\ room \in Rooms /\ away \in Absences /\ match \in Matches /\ room.seq \in Nat
      /\ match.dealt \in Nat
  BY DEF SessionForfeit, SInv, SessionTyped, Rooms, Matches
<1>2. /\ left \in Rooms /\ left.uno = room.uno /\ left.between = room.between
      /\ left.status = room.status /\ OneSeatEach(left.roster)
      /\ SeatedIn(left.roster) = Seated \ {p}
  BY SeatClears
<1> HIDE DEF left
<1>3. away' \in Absences /\ \A q \in Players : away'[q].ver = away[q].ver
  BY <1>1 DEF Absences
<1>4. CASE Running(game)
  <2>1. CanForfeit(game, p) /\ CommitGame(r, left, noted, FALSE)
    BY <1>4 DEF SessionForfeit, left
  <2>2. match.dealt > 0 /\ Healthy(game, pile)
    BY <1>4, DealtIfRunning
  <2>3. Tells(game, r, FALSE, {p}) /\ Healthy(r.game, pile')
    BY <1>1, <2>1, <2>2, ForfeitTells, ForfeitHealthy DEF Healthy
  <2>4. /\ noted \in Matches /\ noted.wins = match.wins /\ noted.abandoned = match.abandoned
        /\ noted.dealt = match.dealt /\ noted.forfeits = match.forfeits \cup {p}
    BY <1>1, <2>2 DEF Matches
  <2> HIDE DEF r, noted
  <2>5. Committed(r, left, noted, FALSE, {p})
    BY <1>1, <1>2, <1>3, <1>4, <2>1, <2>3, <2>4 DEF Committed
  <2> QED BY <2>5 DEF Gameplay
<1>5. CASE ~Running(game)
  <2>1. Advance(left) /\ match' = noted /\ UNCHANGED <<game, turn, overdue>>
    BY <1>5 DEF SessionForfeit, left
  <2>2. /\ room' \in Rooms /\ room'.seq = room.seq + 1 /\ room'.roster = left.roster
        /\ room'.uno = room.uno /\ room'.between = room.between /\ room'.status = room.status
    BY <1>1, <1>2, <2>1, AdvanceFields
  <2>3. \A q \in Players : away'[q].ver <= room.seq + 1
    BY <1>1, <1>3 DEF SInv, NothingAhead, Absences
  <2>4. CASE match.dealt > 0
    <3>1. match' = [match EXCEPT !.forfeits = @ \cup {p}]
      BY <2>1, <2>4
    <3> QED BY <1>1, <1>2, <1>3, <1>5, <2>1, <2>2, <2>3, <2>4, <3>1 DEF Quiet
  <2>5. CASE match.dealt = 0
    <3>1. match' = [match EXCEPT !.forfeits = @ \cup {}]
      BY <1>1, <2>1, <2>5 DEF Matches
    <3> QED BY <1>1, <1>2, <1>3, <2>1, <2>2, <2>3, <3>1 DEF Quiet
  <2> QED BY <1>1, <2>4, <2>5
<1> QED BY <1>4, <1>5

\* The clock reaches a deadline: no command, no number.
Deadline ==
    /\ overdue' \in BOOLEAN /\ away' \in Absences
    /\ \A p \in Players : away'[p].ver = away[p].ver /\ away'[p].active = away[p].active
    /\ UNCHANGED <<room, game, match, turn, skipped, pile>>

LEMMA StepKinds ==
    ASSUME SInv, Next PROVE Gameplay \/ (\E gone : Quiet(gone)) \/ Deal \/ Deadline
<1>1. ASSUME NEW p \in Players,
             \/ JoinRoom(p) \/ LeaveRoom(p) \/ LockRoom(p) \/ CancelRoom(p)
             \/ DisconnectPlayer(p) \/ \E ver \in 1 .. away[p].ver : ReconnectPlayer(p, ver)
      PROVE  Quiet({})
  BY <1>1, JoinIsQuiet, LeaveIsQuiet, StatusIsQuiet
<1>2. ASSUME NEW p \in Players, NEW ver, SessionForfeit(p, ver)
      PROVE  Gameplay \/ \E gone : Quiet(gone)
  BY <1>2, ForfeitCommits
<1>3. ASSUME NEW p \in Players,
             \/ SessionPlay(p) \/ SessionDraw(p) \/ SessionChoose(p)
             \/ SessionCallUno(p) \/ SessionExpireUno(p) \/ SkipDisconnectedTurn(p)
      PROVE  Gameplay
  BY <1>3, MoveCommits
<1>4. ASSUME NEW p \in Players, NEW q \in Players, SessionReport(p, q) PROVE Gameplay
  BY <1>4, ReportCommits
<1>5. ASSUME NEW p \in Players, ReconnectDeadlinePasses(p) \/ UnoDeadlinePasses PROVE Deadline
  <2>1. away \in Absences /\ overdue \in BOOLEAN
    BY DEF SInv, SessionTyped
  <2>2. CASE UnoDeadlinePasses
    BY <2>1, <2>2 DEF UnoDeadlinePasses, Deadline
  <2>3. CASE ReconnectDeadlinePasses(p)
    <3>1. away' = [away EXCEPT ![p].due = TRUE] /\ UNCHANGED <<room, gameVars>>
      BY <2>3 DEF ReconnectDeadlinePasses
    <3>2. /\ away' \in Absences
          /\ \A q \in Players : away'[q].ver = away[q].ver /\ away'[q].active = away[q].active
      BY <2>1, <3>1 DEF Absences
    <3> QED BY <2>1, <3>1, <3>2 DEF Deadline, gameVars
  <2> QED BY <1>5, <2>2, <2>3
<1>6. UnoDeadlinePasses => Deadline
  BY DEF UnoDeadlinePasses, Deadline, SInv, SessionTyped
<1> QED BY <1>1, <1>2, <1>3, <1>4, <1>5, <1>6 DEF Next, Deal

LEMMA SessionStepHolds == SInv /\ [Next]_vars => SInv'
<1> SUFFICES ASSUME SInv, [Next]_vars PROVE SInv'
  OBVIOUS
<1>1. CASE UNCHANGED vars
  BY <1>1 DEF vars, SInv, SessionTyped, NothingAhead, InLobby, OnTable, GameHasMatch, MatchScored,
     ForfeitedStaysOut, SeatedPlays, RoomWindowIsReal, GamesWon, Decided, Seated, SeatedIn,
     Ring, Elements, Running
<1>2. CASE Gameplay
  BY <1>2, CommitKeeps DEF Gameplay
<1>3. CASE \E gone : Quiet(gone)
  BY <1>3, QuietKeeps
<1>4. CASE Deal
  BY <1>4, DealKeeps
<1>5. CASE Deadline
  <2>1. /\ room' = room /\ game' = game /\ match' = match /\ turn' = turn
        /\ skipped' = skipped /\ pile' = pile
    BY <1>5 DEF Deadline
  <2>2. SessionTyped' /\ NothingAhead'
    BY <1>5, <2>1 DEF Deadline, SInv, SessionTyped, NothingAhead
  <2> QED BY <2>1, <2>2 DEF SInv, InLobby, OnTable, GameHasMatch, MatchScored,
     ForfeitedStaysOut, SeatedPlays, RoomWindowIsReal, GamesWon, Decided, Seated, SeatedIn,
     Ring, Elements, Running
<1> QED BY <1>1, <1>2, <1>3, <1>4, <1>5, StepKinds

LEMMA SessionBegins == Init => SInv
<1> SUFFICES ASSUME Init PROVE SInv
  OBVIOUS
<1>1. PICK type \in RoomTypes, host \in Players :
        room = [type |-> type, status |-> "waiting", host |-> host,
                roster |-> [i \in Seats |-> IF i = 1 THEN host ELSE None],
                seq |-> 1, uno |-> NoUno, between |-> FALSE]
  BY DEF Init
<1>2. /\ away = [p \in Players |-> [ver |-> 0, active |-> FALSE, due |-> FALSE]]
      /\ game = NoGame /\ turn = 0 /\ skipped = {} /\ overdue = FALSE
      /\ match = [wins |-> [p \in Players |-> 0], forfeits |-> {}, abandoned |-> FALSE, dealt |-> 0]
  BY DEF Init
<1>3. room \in Rooms
  <2>1. NoUno \in [owner : Players \cup {None}, at : 0 .. MaxSequence] /\ 1 \in 1 .. MaxSequence
    BY RoomAssumption DEF NoUno
  <2> QED BY <1>1, <2>1 DEF Rooms
<1>4. match \in Matches
  <2>1. 0 \in 0 .. Cardinality(Players) + 1
    BY CardsAssumption, FS_CardinalityType
  <2> QED BY <1>2, <2>1 DEF Matches
<1>5. away \in Absences
  BY <1>2, RoomAssumption DEF Absences
<1>6. SessionTyped
  BY <1>2, <1>3, <1>4, <1>5 DEF SessionTyped
<1>7. NothingAhead
  BY <1>1, <1>2 DEF NothingAhead, NoUno
<1>8. InLobby /\ OnTable
  BY <1>1, <1>2 DEF InLobby, OnTable
<1>9. ~Running(game) /\ ~Decided(match)
  BY <1>2, NoGameFields DEF Running, Decided
<1>10. GameHasMatch
  BY <1>9 DEF GameHasMatch
<1>11. MatchScored
  <2>1. GamesWon = {}
    BY <1>2 DEF GamesWon
  <2>2. Cardinality(GamesWon) = 0
    BY <2>1, FS_EmptySet
  <2> QED BY <1>1, <1>2, <1>9, <2>2 DEF MatchScored
<1>12. ForfeitedStaysOut
  BY <1>2, <1>9 DEF ForfeitedStaysOut
<1>13. SeatedPlays
  BY <1>1, <1>9 DEF SeatedPlays
<1>14. RoomWindowIsReal
  BY <1>1 DEF RoomWindowIsReal
<1> QED BY <1>6, <1>7, <1>8, <1>10, <1>11, <1>12, <1>13, <1>14 DEF SInv

LEMMA SessionIsHeld == SInv => SessionSound
<1> SUFFICES ASSUME SInv PROVE SessionSound
  OBVIOUS
<1>1. /\ room \in Rooms /\ away \in Absences /\ match \in Matches /\ overdue \in BOOLEAN
      /\ room.seq \in Nat
  BY DEF SInv, SessionTyped, Rooms
<1>2. /\ turn \in 0 .. room.seq /\ room.uno.at <= room.seq
      /\ \A p \in Players : away[p].ver <= room.seq
      /\ skipped \subseteq Players \X (0 .. turn - 1)
  BY DEF SInv, NothingAhead
<1>3. TypeOK
  <2>1. room.uno \in [owner : Players \cup {None}, at : 0 .. room.seq]
    BY <1>1, <1>2 DEF Rooms
  <2>2. away \in [Players -> [ver : 0 .. room.seq, active : BOOLEAN, due : BOOLEAN]]
    BY <1>1, <1>2 DEF Absences
  <2>3. skipped \subseteq Players \X (0 .. room.seq)
    <3>1. 0 .. turn - 1 \subseteq 0 .. room.seq
      BY <1>1, <1>2
    <3> QED BY <1>2, <3>1
  <2>4. /\ match.wins \in [Players -> 0 .. 2] /\ match.forfeits \subseteq Players
        /\ match.dealt \in 0 .. Cardinality(Players) + 1
    BY <1>1 DEF Matches
  <2>5. /\ room.type \in RoomTypes
        /\ room.status \in {"waiting", "locked", "in_progress"} \cup Terminal
        /\ room.host \in Players \cup {None} /\ room.seq \in 1 .. MaxSequence
        /\ room.roster \in [Seats -> Players \cup {None}] /\ room.between \in BOOLEAN
    BY <1>1 DEF Rooms
  <2> QED BY <1>1, <1>2, <2>1, <2>2, <2>3, <2>4, <2>5 DEF TypeOK
<1>4. TurnNotYetSkipped
  <2>1. turn \notin 0 .. turn - 1
    BY <1>1, <1>2
  <2> QED BY <1>2, <2>1 DEF TurnNotYetSkipped
<1> QED BY <1>3, <1>4 DEF SInv, SessionSound

(***************************************************************************)
(* At any time who sits, who plays, how games are scored and what the Room *)
(* tells of its engine agree (domain/room.go, domain/session.go,           *)
(* game/match.go): any number of players, seats, deals and commands.       *)
(***************************************************************************)
THEOREM SessionIsSound == Spec => []SessionSound
<1>1. Init => SInv
  BY SessionBegins
<1>2. SInv /\ [Next]_vars => SInv'
  BY SessionStepHolds
<1>3. SInv => SessionSound
  BY SessionIsHeld
<1> QED BY <1>1, <1>2, <1>3, PTL DEF Spec

LEMMA SequenceNames ==
    ASSUME SInv, [Next]_vars
    PROVE  IF Visible' = Visible THEN room'.seq \in {room.seq, room.seq + 1}
           ELSE room'.seq = room.seq + 1
<1>1. CASE UNCHANGED vars
  BY <1>1 DEF vars, Visible
<1>2. CASE Gameplay
  <2>1. room'.seq = room.seq + 1
    BY <1>2, CommitFields DEF Gameplay
  <2> QED BY <2>1
<1>3. CASE \E gone : Quiet(gone)
  <2>1. room'.seq = room.seq + 1
    BY <1>3 DEF Quiet
  <2> QED BY <2>1
<1>4. CASE Deal
  <2>1. room'.seq = room.seq + 1
    BY <1>4, DealKeeps
  <2> QED BY <2>1
<1>5. CASE Deadline
  <2>1. [p \in Players |-> <<away'[p].ver, away'[p].active>>]
           = [p \in Players |-> <<away[p].ver, away[p].active>>]
    BY <1>5 DEF Deadline
  <2> QED BY <1>5, <2>1 DEF Deadline, Visible
<1> QED BY <1>1, <1>2, <1>3, <1>4, <1>5, StepKinds

LEMMA TurnVersionNames ==
    ASSUME SInv, [Next]_vars, turn' = turn, Running(game), Running(game')
    PROVE  CurrentPlayer(game') = CurrentPlayer(game)
<1>1. CASE game' = game
  BY <1>1
<1>2. CASE Gameplay
  <2>1. PICK r, changed, m, resolves, gone : Committed(r, changed, m, resolves, gone)
    BY <1>2 DEF Gameplay
  <2>2. game' = r.game /\ turn' = TurnAfter(r)
    BY <2>1, CommitFields
  <2>3. room.seq + 1 # turn
    BY DEF SInv, SessionTyped, NothingAhead, Rooms
  <2>4. r.facts \cap {"advanced", "done"} = {}
    BY <2>2, <2>3 DEF TurnAfter
  <2> QED BY <2>1, <2>2, <2>4 DEF Committed, Tells
<1>3. CASE Deal
  <2>1. ~Running(game)
    <3>1. CASE StartNextGame
      BY <3>1 DEF StartNextGame
    <3>2. CASE room.status = "locked"
      BY <3>2, DealtIfRunning
    <3> QED BY <1>3, <3>1, <3>2 DEF Deal, StartMatch
  <2> QED BY <2>1
<1> QED BY <1>1, <1>2, <1>3, StepKinds DEF vars, Quiet, Deadline

LEMMA TerminalStays ==
    ASSUME SInv, [Next]_vars, room.status \in Terminal
    PROVE  room' = room /\ Visible' = Visible
<1>1. CASE UNCHANGED vars
  BY <1>1 DEF vars, Visible
<1>2. CASE Deadline
  <2>1. [p \in Players |-> <<away'[p].ver, away'[p].active>>]
           = [p \in Players |-> <<away[p].ver, away[p].active>>]
    BY <1>2 DEF Deadline
  <2> QED BY <1>2, <2>1 DEF Deadline, Visible
<1>3. ~Gameplay
  <2>1. Running(game) => room.status = "in_progress"
    BY DealtIfRunning
  <2> QED BY <2>1 DEF Gameplay, Committed, Terminal
<1>4. ~\E gone : Quiet(gone)
  BY DEF Quiet
<1>5. ~Deal
  BY DEF Deal, StartMatch, StartNextGame, Terminal
<1> QED BY <1>1, <1>2, <1>3, <1>4, <1>5, StepKinds

(***************************************************************************)
(* The numbers clients and timers act upon name what they mean: a sequence *)
(* number one state of the Room, a turnVersion one turn; and a terminal    *)
(* Room stays as it is (domain/session.go, commitGameplay).                *)
(***************************************************************************)
THEOREM NumbersName == Spec => StepsAreNamed
<1>1. Init => SInv
  BY SessionBegins
<1>2. SInv /\ [Next]_vars => SInv'
  BY SessionStepHolds
<1>3. SInv /\ [Next]_vars =>
        [IF Visible' = Visible THEN room'.seq \in {room.seq, room.seq + 1}
         ELSE room'.seq = room.seq + 1]_vars
  BY SequenceNames
<1>4. SInv /\ [Next]_vars =>
        [turn' = turn /\ Running(game) /\ Running(game') =>
           CurrentPlayer(game') = CurrentPlayer(game)]_vars
  BY TurnVersionNames
<1>5. SInv /\ [Next]_vars =>
        [room.status \in Terminal => room' = room /\ Visible' = Visible]_vars
  BY TerminalStays
<1> QED BY <1>1, <1>2, <1>3, <1>4, <1>5, PTL
        DEF Spec, StepsAreNamed, SequenceNamesState, TurnVersionNamesTurn, TerminalIsFinal

=============================================================================
