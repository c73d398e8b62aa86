--------------------------- MODULE AfterCommit_proof ---------------------------
(***************************************************************************)
(* Two parties follow what a room has committed, each outside the          *)
(* transaction that committed it: the workers who begin the next game of a *)
(* match (NextGame), and the view of the room's spectators (SpectatorView). *)
(***************************************************************************)
EXTENDS NextGame, SpectatorView, FiniteSetTheorems, TLAPS

-----------------------------------------------------------------------------
(***************************************************************************)
(* An undecided match that waits for its next game has a continuation for  *)
(* the game that ended in the queue, for any number of games and of timer  *)
(* workers, however long a worker holds on to a claim it has lost.         *)
(*                                                                         *)
(* Why: a worker acknowledges a row only after the Room has answered, and  *)
(* the Room's answer means that the game after the row's has begun or the  *)
(* match is over.  A row for a later game has another command id.          *)
(***************************************************************************)

\* The game m has ended.
Ended(m) == m < room.games \/ (m = room.games /\ ~room.running)

\* The last game the bound allows decides the match.
MatchEnds ==
    /\ room.running => ~room.over
    /\ room.games = MaxGames => room.running \/ room.over

\* A row is for the game that ended last, and the Room waits for the next.
RowIsCurrent == row # NoRow => Awaiting(room) /\ row.after = room.games

\* What the Room has accepted, what a worker holds and what is under way.
BegunIsPast == \A m \in begun : m < room.games

LateHasEnded == \A m \in late : Ended(m)

JobHasEnded ==
    \A self \in Workers :
        /\ wrk[self].job # 0 => Ended(wrk[self].job)
        /\ wrk[self].answer # "none" => wrk[self].job # 0

\* After an answer there is nothing left to do for the row.
AnsweredIsPast ==
    \A self \in Workers :
        wrk[self].answer \in {"accepted", "refused"} => wrk[self].job < room.games \/ room.over

Inv ==
    /\ TypeOK
    /\ MatchEnds
    /\ AwaitedIsQueued
    /\ RowIsCurrent
    /\ BegunIsPast
    /\ LateHasEnded
    /\ JobHasEnded
    /\ AnsweredIsPast
-----------------------------------------------------------------------------
(***************************************************************************)
(* What the Room does to the rows                                          *)
(***************************************************************************)

\* A commit of the Room, whatever it changes, leaves the queue in order, if
\* a new wait is for a game that has just ended.
LEMMA CommittedInOrder ==
    ASSUME NEW r \in [games : Games, running : BOOLEAN, over : BOOLEAN], Committed(r)
    PROVE  /\ room' = r
           /\ row' # NoRow => Awaiting(r) /\ row'.after = r.games
           /\ Awaiting(r) => row'.after = r.games
           /\ TypeOK => row' \in [after : 0 .. MaxGames, available : BOOLEAN, leased : BOOLEAN]
<1> USE DEF Committed, NoRow, NewRow, Games, TypeOK
<1>1. CASE ~Awaiting(r)
    BY <1>1, NextGameAssumption
<1>2. CASE Awaiting(r) /\ row.after # r.games
    BY <1>2, NextGameAssumption
<1>3. CASE Awaiting(r) /\ row.after = r.games
    BY <1>3, NextGameAssumption
<1>. QED
    BY <1>1, <1>2, <1>3

\* The next game: what had ended has ended before it.
LEMMA NextBegunIsTyped ==
    ASSUME TypeOK, MatchEnds, Awaiting(room)
    PROVE  /\ NextBegun \in [games : Games, running : BOOLEAN, over : BOOLEAN]
           /\ NextBegun.games = room.games + 1 /\ NextBegun.running /\ ~NextBegun.over
           /\ room.games \in Nat
<1>1. room.games \in Games /\ room.games # MaxGames /\ ~room.over
    BY DEF TypeOK, MatchEnds, Awaiting
<1>2. room.games \in Nat /\ room.games + 1 \in Games
    BY <1>1, NextGameAssumption DEF Games
<1>. QED
    BY <1>1, <1>2 DEF TypeOK, NextBegun

\* A decision about an ended game, new or repeated, keeps the invariant of
\* the Room and its row, and once it is taken the game is past.
LEMMA DecideInOrder ==
    ASSUME Inv, NEW m \in Games, Ended(m), Decide(m)
    PROVE  /\ room' \in [games : Games, running : BOOLEAN, over : BOOLEAN]
           /\ row' \in [after : 0 .. MaxGames, available : BOOLEAN, leased : BOOLEAN]
           /\ begun' \subseteq Games
           /\ MatchEnds' /\ AwaitedIsQueued' /\ RowIsCurrent' /\ BegunIsPast'
           /\ \A k \in Nat : Ended(k) => Ended(k)'
           /\ \A k \in Nat : k < room.games \/ room.over => k < room'.games \/ room'.over
           /\ m < room'.games \/ room'.over
<1>1. CASE m \in begun \/ ~Awaiting(room)
    <2>1. UNCHANGED <<room, begun, row>>
        BY <1>1 DEF Decide
    <2>2. m < room.games \/ room.over
        BY <1>1, NextGameAssumption DEF Inv, BegunIsPast, Awaiting, Ended
    <2>. QED
        BY <2>1, <2>2 DEF Inv, TypeOK, MatchEnds, AwaitedIsQueued, RowIsCurrent, BegunIsPast,
            Awaiting, Ended, NoRow
<1>2. CASE m \notin begun /\ Awaiting(room)
    <2>1. Committed(NextBegun) /\ begun' = begun \cup {m}
        BY <1>2 DEF Decide
    <2>2. /\ NextBegun \in [games : Games, running : BOOLEAN, over : BOOLEAN]
          /\ NextBegun.games = room.games + 1 /\ NextBegun.running /\ ~NextBegun.over
          /\ room.games \in Nat
        BY <1>2, NextBegunIsTyped DEF Inv
    <2>3. /\ room' = NextBegun
          /\ row' # NoRow => Awaiting(NextBegun) /\ row'.after = NextBegun.games
          /\ row' \in [after : 0 .. MaxGames, available : BOOLEAN, leased : BOOLEAN]
        BY <2>1, <2>2, CommittedInOrder DEF Inv
    <2>4. MatchEnds' /\ AwaitedIsQueued' /\ RowIsCurrent'
        BY <2>2, <2>3 DEF MatchEnds, AwaitedIsQueued, RowIsCurrent, Awaiting, NoRow
    <2>5. m <= room.games
        BY <2>2, NextGameAssumption DEF Ended, Games
    <2>6. BegunIsPast'
        <3>1. \A k \in begun : k \in Nat /\ k < room.games
            BY NextGameAssumption DEF Inv, TypeOK, BegunIsPast, Games
        <3>. QED
            BY <2>1, <2>2, <2>3, <2>5, <3>1, NextGameAssumption DEF BegunIsPast, Games
    <2>7. \A k \in Nat : Ended(k) => Ended(k)'
        BY <2>2, <2>3 DEF Ended
    <2>8. \A k \in Nat : k < room.games \/ room.over => k < room'.games \/ room'.over
        BY <1>2, <2>2, <2>3 DEF Awaiting
    <2>9. m < room'.games
        BY <2>2, <2>3, <2>5, NextGameAssumption DEF Games
    <2>10. begun' \subseteq Games
        BY <2>1 DEF Inv, TypeOK
    <2>. QED
        BY <2>2, <2>3, <2>4, <2>6, <2>7, <2>8, <2>9, <2>10
<1>. QED
    BY <1>1, <1>2

-----------------------------------------------------------------------------
(***************************************************************************)
(* The invariant                                                           *)
(***************************************************************************)

LEMMA InitInv ==
    Init => Inv
<1> SUFFICES ASSUME Init PROVE Inv
    OBVIOUS
<1>1. TypeOK
    BY NextGameAssumption DEF Init, TypeOK, Games, NoRow, Idle
<1>. QED
    BY <1>1 DEF Init, Inv, MatchEnds, AwaitedIsQueued, RowIsCurrent, BegunIsPast, LateHasEnded,
        JobHasEnded, AnsweredIsPast, Awaiting, NoRow, Idle

\* Steps of the Room of its own accord: what has ended stays so.
LEMMA RoomStep ==
    ASSUME Inv, NEW r \in [games : Games, running : BOOLEAN, over : BOOLEAN], Committed(r),
           r.running => ~r.over,
           r.games = MaxGames => r.running \/ r.over,
           (r.games = room.games /\ ~r.running) \/ r.games = room.games + 1,
           room.over => r.over,
           UNCHANGED <<begun, wrk, late>>
    PROVE  Inv'
<1>1. /\ room' = r
      /\ row' # NoRow => Awaiting(r) /\ row'.after = r.games
      /\ Awaiting(r) => row'.after = r.games
      /\ row' \in [after : 0 .. MaxGames, available : BOOLEAN, leased : BOOLEAN]
    BY CommittedInOrder DEF Inv
<1>2. TypeOK'
    BY <1>1 DEF Inv, TypeOK
<1>3. MatchEnds' /\ AwaitedIsQueued' /\ RowIsCurrent'
    BY <1>1 DEF MatchEnds, AwaitedIsQueued, RowIsCurrent, Awaiting, NoRow
<1>4. room.games \in Nat /\ begun \subseteq Nat /\ late \subseteq Nat
    BY NextGameAssumption DEF Inv, TypeOK, Games
<1>5. \A k \in Nat : Ended(k) => Ended(k)'
    BY <1>1, <1>4 DEF Ended
<1>6. BegunIsPast'
    BY <1>1, <1>4 DEF Inv, BegunIsPast
<1>7. LateHasEnded'
    BY <1>4, <1>5 DEF Inv, LateHasEnded
<1>8. \A self \in Workers : wrk[self].job \in Nat
    BY NextGameAssumption DEF Inv, TypeOK
<1>9. JobHasEnded'
    BY <1>5, <1>8 DEF Inv, JobHasEnded
<1>10. AnsweredIsPast'
    BY <1>1, <1>4, <1>8 DEF Inv, AnsweredIsPast
<1>. QED
    BY <1>2, <1>3, <1>6, <1>7, <1>9, <1>10 DEF Inv

LEMMA EndGameStep ==
    ASSUME Inv, NEW decides \in BOOLEAN, EndGame(decides)
    PROVE  Inv'
<1> DEFINE r == [room EXCEPT !.running = FALSE, !.over = decides]
<1>1. /\ r \in [games : Games, running : BOOLEAN, over : BOOLEAN]
      /\ r.games = room.games /\ ~r.running /\ r.over = decides
    BY DEF Inv, TypeOK
<1>2. room.running /\ ~room.over /\ (room.games = MaxGames => decides)
    BY DEF EndGame, Inv, MatchEnds
<1>3. Committed(r) /\ UNCHANGED <<begun, wrk, late>>
    BY DEF EndGame
<1>. HIDE DEF r
<1>. QED
    BY <1>1, <1>2, <1>3, RoomStep

LEMMA StartByRequestStep ==
    ASSUME Inv, StartByRequest
    PROVE  Inv'
<1>1. /\ NextBegun \in [games : Games, running : BOOLEAN, over : BOOLEAN]
      /\ NextBegun.games = room.games + 1 /\ NextBegun.running /\ ~NextBegun.over
    BY NextBegunIsTyped DEF StartByRequest, Inv
<1>2. Awaiting(room) /\ Committed(NextBegun) /\ UNCHANGED <<begun, wrk, late>>
    BY DEF StartByRequest
<1>3. ~room.over
    BY <1>2 DEF Awaiting
<1>. QED
    BY <1>1, <1>2, <1>3, RoomStep

\* Steps of a worker that leave the Room as it is.
LEMMA WorkerStep ==
    ASSUME Inv, NEW self \in Workers, NEW s, wrk' = [wrk EXCEPT ![self] = s],
           s \in [job : 0 .. MaxGames, answer : {"none", "accepted", "refused", "failed"}],
           s.job # 0 => Ended(s.job),
           s.answer # "none" => s.job # 0,
           s.answer \notin {"accepted", "refused"},
           late' \subseteq late \cup {wrk[self].job}, 0 \notin late',
           UNCHANGED <<room, begun>>,
           row' \in [after : 0 .. MaxGames, available : BOOLEAN, leased : BOOLEAN],
           AwaitedIsQueued', RowIsCurrent'
    PROVE  Inv'
<1>1. TypeOK'
    <2>1. wrk[self].job \in 0 .. MaxGames
        BY DEF Inv, TypeOK
    <2>2. late' \subseteq Games
        <3>1. \A k \in 0 .. MaxGames : k # 0 => k \in Games
            BY NextGameAssumption DEF Games
        <3>2. late \subseteq Games
            BY DEF Inv, TypeOK
        <3>. QED
            BY <2>1, <3>1, <3>2
    <2>. QED
        BY <2>2 DEF Inv, TypeOK
<1>2. MatchEnds' /\ BegunIsPast'
    BY DEF Inv, MatchEnds, BegunIsPast
<1>3. LateHasEnded'
    BY DEF Inv, LateHasEnded, JobHasEnded, Ended
<1>4. \A v \in Workers : wrk'[v] = IF v = self THEN s ELSE wrk[v]
    BY DEF Inv, TypeOK
<1>5. JobHasEnded'
    BY <1>4 DEF Inv, JobHasEnded, Ended
<1>6. AnsweredIsPast'
    BY <1>4 DEF Inv, AnsweredIsPast
<1>. QED
    BY <1>1, <1>2, <1>3, <1>5, <1>6 DEF Inv

\* What a worker knows about the row it holds.
LEMMA HeldIsTyped ==
    ASSUME Inv, NEW self \in Workers
    PROVE  /\ wrk[self] \in [job : 0 .. MaxGames,
                          answer : {"none", "accepted", "refused", "failed"}]
           /\ Idle \in [job : 0 .. MaxGames,
                         answer : {"none", "accepted", "refused", "failed"}]
           /\ Idle.job = 0 /\ Idle.answer = "none"
           /\ late \subseteq late \cup {wrk[self].job}
           /\ 0 \notin late
           /\ NoRow \in [after : 0 .. MaxGames, available : BOOLEAN, leased : BOOLEAN]
BY NextGameAssumption DEF Inv, TypeOK, Idle, NoRow, Games

LEMMA ClaimStep ==
    ASSUME Inv, NEW self \in Workers, Claim(self)
    PROVE  Inv'
<1> DEFINE s == [wrk[self] EXCEPT !.job = row.after]
<1>1. /\ wrk[self] = Idle /\ row # NoRow
      /\ row' = [row EXCEPT !.leased = TRUE]
      /\ UNCHANGED <<room, begun, late>>
    BY DEF Claim
<1>2. wrk' = [wrk EXCEPT ![self] = s]
    BY DEF Claim, Inv, TypeOK
<1>3. Awaiting(room) /\ row.after = room.games
    BY <1>1 DEF Inv, RowIsCurrent
<1>4. /\ s \in [job : 0 .. MaxGames, answer : {"none", "accepted", "refused", "failed"}]
      /\ s.job = row.after /\ s.answer = "none"
    BY <1>1, HeldIsTyped DEF Inv, TypeOK
<1>5. s.job # 0 => Ended(s.job)
    BY <1>3, <1>4 DEF Ended, Awaiting
<1>6. /\ row' \in [after : 0 .. MaxGames, available : BOOLEAN, leased : BOOLEAN]
      /\ row'.after = row.after
    BY <1>1 DEF Inv, TypeOK
<1>7. AwaitedIsQueued' /\ RowIsCurrent'
    BY <1>1, <1>3, <1>6 DEF AwaitedIsQueued, RowIsCurrent, Awaiting
<1>8. late' \subseteq late \cup {wrk[self].job} /\ 0 \notin late'
    BY <1>1, HeldIsTyped
<1>. HIDE DEF s
<1>. QED
    BY <1>1, <1>2, <1>4, <1>5, <1>6, <1>7, <1>8, WorkerStep

LEMMA FailStep ==
    ASSUME Inv, NEW self \in Workers, Fail(self)
    PROVE  Inv'
<1> DEFINE s == [wrk[self] EXCEPT !.answer = "failed"]
<1>1. /\ wrk[self].job # 0
      /\ late' \in {late, late \cup {wrk[self].job}}
      /\ UNCHANGED <<room, begun, row>>
    BY DEF Fail, Waits
<1>2. wrk' = [wrk EXCEPT ![self] = s]
    BY DEF Fail, Inv, TypeOK
<1>3. /\ s \in [job : 0 .. MaxGames, answer : {"none", "accepted", "refused", "failed"}]
      /\ s.job = wrk[self].job /\ s.answer = "failed"
    BY HeldIsTyped
<1>4. s.job # 0 => Ended(s.job)
    BY <1>1, <1>3 DEF Inv, JobHasEnded
<1>5. row' \in [after : 0 .. MaxGames, available : BOOLEAN, leased : BOOLEAN]
    BY <1>1 DEF Inv, TypeOK
<1>6. AwaitedIsQueued' /\ RowIsCurrent'
    BY <1>1 DEF Inv, AwaitedIsQueued, RowIsCurrent, Awaiting, NoRow
<1>7. late' \subseteq late \cup {wrk[self].job} /\ 0 \notin late'
    BY <1>1, HeldIsTyped
<1>. HIDE DEF s
<1>. QED
    BY <1>1, <1>2, <1>3, <1>4, <1>5, <1>6, <1>7, WorkerStep

LEMMA CrashStep ==
    ASSUME Inv, NEW self \in Workers, Crash(self)
    PROVE  Inv'
<1>1. /\ wrk' = [wrk EXCEPT ![self] = Idle]
      /\ UNCHANGED <<room, begun, row>>
    BY DEF Crash
<1>2. late' \subseteq late \cup {wrk[self].job} /\ 0 \notin late'
    BY HeldIsTyped DEF Crash, Waits
<1>3. row' \in [after : 0 .. MaxGames, available : BOOLEAN, leased : BOOLEAN]
    BY <1>1 DEF Inv, TypeOK
<1>4. AwaitedIsQueued' /\ RowIsCurrent'
    BY <1>1 DEF Inv, AwaitedIsQueued, RowIsCurrent, Awaiting, NoRow
<1>. QED
    BY <1>1, <1>2, <1>3, <1>4, HeldIsTyped, WorkerStep

LEMMA AckStep ==
    ASSUME Inv, NEW self \in Workers, Ack(self)
    PROVE  Inv'
<1>1. /\ wrk[self].answer \in {"accepted", "refused"}
      /\ row' = IF row.after = wrk[self].job THEN NoRow ELSE row
      /\ wrk' = [wrk EXCEPT ![self] = Idle]
      /\ UNCHANGED <<room, begun, late>>
    BY DEF Ack
<1>2. wrk[self].job < room.games \/ room.over
    BY <1>1 DEF Inv, AnsweredIsPast
<1>3. row' \in [after : 0 .. MaxGames, available : BOOLEAN, leased : BOOLEAN]
    BY <1>1, HeldIsTyped DEF Inv, TypeOK
<1>4. AwaitedIsQueued'
    <2>1. room.games \in Nat
        BY NextGameAssumption DEF Inv, TypeOK, Games
    <2>. QED
        BY <1>1, <1>2, <2>1 DEF Inv, AwaitedIsQueued, Awaiting
<1>5. RowIsCurrent'
    BY <1>1 DEF Inv, RowIsCurrent, Awaiting, NoRow
<1>6. late' \subseteq late \cup {wrk[self].job} /\ 0 \notin late'
    BY <1>1, HeldIsTyped
<1>. QED
    BY <1>1, <1>3, <1>4, <1>5, <1>6, HeldIsTyped, WorkerStep

\* Changes of a row that leave its game alone.
LEMMA RowKept ==
    ASSUME Inv, UNCHANGED room, row # NoRow \/ row' = row,
           row' \in [after : 0 .. MaxGames, available : BOOLEAN, leased : BOOLEAN],
           row'.after = row.after
    PROVE  AwaitedIsQueued' /\ RowIsCurrent'
BY DEF Inv, AwaitedIsQueued, RowIsCurrent, Awaiting, NoRow

LEMMA ReleaseStep ==
    ASSUME Inv, NEW self \in Workers, Release(self)
    PROVE  Inv'
<1>1. /\ wrk[self].answer = "failed"
      /\ row' = IF row.after = wrk[self].job
                THEN [row EXCEPT !.available = FALSE, !.leased = FALSE] ELSE row
      /\ wrk' = [wrk EXCEPT ![self] = Idle]
      /\ UNCHANGED <<room, begun, late>>
    BY DEF Release
<1>2. wrk[self].job # 0
    BY <1>1 DEF Inv, JobHasEnded
<1>3. /\ row' \in [after : 0 .. MaxGames, available : BOOLEAN, leased : BOOLEAN]
      /\ row'.after = row.after
    BY <1>1 DEF Inv, TypeOK
<1>4. row # NoRow \/ row' = row
    BY <1>1, <1>2 DEF NoRow
<1>5. AwaitedIsQueued' /\ RowIsCurrent'
    BY <1>1, <1>3, <1>4, RowKept
<1>6. late' \subseteq late \cup {wrk[self].job} /\ 0 \notin late'
    BY <1>1, HeldIsTyped
<1>. QED
    BY <1>1, <1>3, <1>5, <1>6, HeldIsTyped, WorkerStep

LEMMA DispatchStep ==
    ASSUME Inv, NEW self \in Workers, Dispatch(self)
    PROVE  Inv'
<1> DEFINE m == wrk[self].job
<1>1. /\ m # 0 /\ Decide(m)
      /\ wrk' = [wrk EXCEPT ![self].answer = AnswerTo(m)]
      /\ UNCHANGED late
    BY DEF Dispatch, Waits
<1>2. m \in Games /\ Ended(m)
    BY <1>1, HeldIsTyped, NextGameAssumption DEF Inv, JobHasEnded, Games
<1>3. /\ room' \in [games : Games, running : BOOLEAN, over : BOOLEAN]
      /\ row' \in [after : 0 .. MaxGames, available : BOOLEAN, leased : BOOLEAN]
      /\ begun' \subseteq Games
      /\ MatchEnds' /\ AwaitedIsQueued' /\ RowIsCurrent' /\ BegunIsPast'
      /\ \A k \in Nat : Ended(k) => Ended(k)'
      /\ \A k \in Nat : k < room.games \/ room.over => k < room'.games \/ room'.over
      /\ m < room'.games \/ room'.over
    BY <1>1, <1>2, DecideInOrder
<1>4. \A v \in Workers : /\ wrk'[v].job = wrk[v].job
                         /\ v # self => wrk'[v] = wrk[v]
    BY <1>1 DEF Inv, TypeOK
<1>5. AnswerTo(m) \in {"none", "accepted", "refused", "failed"}
    BY DEF AnswerTo
<1>6. TypeOK'
    BY <1>1, <1>3, <1>5 DEF Inv, TypeOK
<1>7. \A v \in Workers : wrk[v].job \in Nat
    BY NextGameAssumption DEF Inv, TypeOK
<1>8. late \subseteq Nat
    BY NextGameAssumption DEF Inv, TypeOK, Games
<1>9. LateHasEnded'
    BY <1>1, <1>3, <1>8 DEF Inv, LateHasEnded
<1>10. JobHasEnded'
    <2>1. ASSUME NEW v \in Workers, wrk'[v].job # 0 PROVE Ended(wrk[v].job)'
        <3>1. Ended(wrk[v].job) /\ wrk[v].job \in Nat /\ wrk'[v].job = wrk[v].job
            BY <1>4, <1>7, <2>1 DEF Inv, JobHasEnded
        <3>. QED
            BY <1>3, <3>1
    <2>2. ASSUME NEW v \in Workers, wrk'[v].answer # "none" PROVE wrk'[v].job # 0
        <3>1. CASE v = self
            BY <1>1, <1>4, <3>1
        <3>2. CASE v # self
            BY <1>4, <2>2, <3>2 DEF Inv, JobHasEnded
        <3>. QED
            BY <3>1, <3>2
    <2>. QED
        BY <2>1, <2>2 DEF JobHasEnded
<1>11. AnsweredIsPast'
    <2>1. ASSUME NEW v \in Workers, wrk'[v].answer \in {"accepted", "refused"}
          PROVE  wrk'[v].job < room'.games \/ room'.over
        <3>1. CASE v = self
            BY <1>3, <1>4, <3>1
        <3>2. CASE v # self
            <4>1. wrk[v].job < room.games \/ room.over
                BY <1>4, <2>1, <3>2 DEF Inv, AnsweredIsPast
            <4>. QED
                BY <1>3, <1>4, <1>7, <4>1
        <3>. QED
            BY <3>1, <3>2
    <2>. QED
        BY <2>1 DEF AnsweredIsPast
<1>. QED
    BY <1>3, <1>6, <1>9, <1>10, <1>11 DEF Inv

LEMMA ArriveLateStep ==
    ASSUME Inv, NEW m \in Games, ArriveLate(m)
    PROVE  Inv'
<1>1. /\ m \in late /\ Decide(m)
      /\ late' = late \ {m}
      /\ UNCHANGED wrk
    BY DEF ArriveLate
<1>2. Ended(m)
    BY <1>1 DEF Inv, LateHasEnded
<1>3. /\ room' \in [games : Games, running : BOOLEAN, over : BOOLEAN]
      /\ row' \in [after : 0 .. MaxGames, available : BOOLEAN, leased : BOOLEAN]
      /\ begun' \subseteq Games
      /\ MatchEnds' /\ AwaitedIsQueued' /\ RowIsCurrent' /\ BegunIsPast'
      /\ \A k \in Nat : Ended(k) => Ended(k)'
      /\ \A k \in Nat : k < room.games \/ room.over => k < room'.games \/ room'.over
    BY <1>1, <1>2, DecideInOrder
<1>4. TypeOK'
    BY <1>1, <1>3 DEF Inv, TypeOK
<1>5. \A v \in Workers : wrk[v].job \in Nat
    BY NextGameAssumption DEF Inv, TypeOK
<1>6. late \subseteq Nat
    BY NextGameAssumption DEF Inv, TypeOK, Games
<1>7. LateHasEnded'
    BY <1>1, <1>3, <1>6 DEF Inv, LateHasEnded
<1>8. JobHasEnded'
    BY <1>1, <1>3, <1>5 DEF Inv, JobHasEnded
<1>9. AnsweredIsPast'
    BY <1>1, <1>3, <1>5 DEF Inv, AnsweredIsPast
<1>. QED
    BY <1>3, <1>4, <1>7, <1>8, <1>9 DEF Inv

\* The clock.
LEMMA ClockStep ==
    ASSUME Inv, LeaseExpires \/ RetryFallsDue
    PROVE  Inv'
<1>1. row # NoRow /\ UNCHANGED <<room, begun, wrk, late>>
    BY DEF LeaseExpires, RetryFallsDue, NoRow
<1>2. /\ row' \in [after : 0 .. MaxGames, available : BOOLEAN, leased : BOOLEAN]
      /\ row'.after = row.after
    BY DEF LeaseExpires, RetryFallsDue, Inv, TypeOK
<1>3. AwaitedIsQueued' /\ RowIsCurrent'
    BY <1>1, <1>2, RowKept
<1>. QED
    BY <1>1, <1>2, <1>3 DEF Inv, TypeOK, MatchEnds, BegunIsPast, LateHasEnded, JobHasEnded,
        AnsweredIsPast, Ended

LEMMA InvInductive ==
    Inv /\ [Next]_vars => Inv'
<1> SUFFICES ASSUME Inv, [Next]_vars PROVE Inv'
    OBVIOUS
<1>1. CASE UNCHANGED vars
    BY <1>1 DEF vars, Inv, TypeOK, MatchEnds, AwaitedIsQueued, RowIsCurrent, BegunIsPast,
        LateHasEnded, JobHasEnded, AnsweredIsPast, Ended, Awaiting, NoRow
<1>2. CASE \E decides \in BOOLEAN : EndGame(decides)
    BY <1>2, EndGameStep
<1>3. CASE StartByRequest
    BY <1>3, StartByRequestStep
<1>4. ASSUME NEW self \in Workers,
             Claim(self) \/ Dispatch(self) \/ Fail(self) \/ Crash(self) \/ Ack(self) \/ Release(self)
      PROVE  Inv'
    BY <1>4, ClaimStep, DispatchStep, FailStep, CrashStep, AckStep, ReleaseStep
<1>5. CASE \E m \in Games : ArriveLate(m)
    BY <1>5, ArriveLateStep
<1>6. CASE LeaseExpires \/ RetryFallsDue
    BY <1>6, ClockStep
<1>. QED
    BY <1>1, <1>2, <1>3, <1>4, <1>5, <1>6 DEF Next

(* The invariant holds of every state the queue, the Room and the workers   *)
(* reach, whatever fails or crashes.                                        *)
THEOREM QueueInvariant == Spec => []Inv
BY InitInv, InvInductive, PTL DEF Spec

(* The values the code keeps stay within their types: no game beyond the    *)
(* last is begun, because a repeated command never begins one.              *)
THEOREM TypeCorrect == Spec => []TypeOK
<1>1. Inv => TypeOK
    BY DEF Inv
<1>. QED
    BY <1>1, QueueInvariant, PTL

(* No claim, release, acknowledgement or crash loses the continuation of a  *)
(* Room that waits for its next game.                                       *)
THEOREM NoContinuationIsLost == Spec => []AwaitedIsQueued
<1>1. Inv => AwaitedIsQueued
    BY DEF Inv
<1>. QED
    BY <1>1, QueueInvariant, PTL

-----------------------------------------------------------------------------
(***************************************************************************)
(* The view of a room, for any topic of its records, in any order and with *)
(* any redeliveries, any rebuild requests, faults and reconnections.       *)
(*                                                                         *)
(* What one consumer, one rebuilder and one spectator know of the room is  *)
(* old when they use it.  The invariant says what of it still holds.  While *)
(* the room is quarantined the consumer has nothing to apply but a record  *)
(* that has its outcome, so that the projection stands still.  A first     *)
(* rebuild begins only once the room is quarantined: its snapshot is past  *)
(* every record the consumer has, and what comes later goes to the         *)
(* dead-letter topic.  A record the consumer loaded before the swap is     *)
(* therefore one the new projection has: it is not applied to the stream   *)
(* of the old generation, although the fence would let it.                 *)
(***************************************************************************)

Records == [seq : 1 .. LastSeq, kind : Kind]

Entries == [seq : 0 .. LastSeq, closed : BOOLEAN]

Loads == [pc : {"idle", "meta", "state", "apply", "mark", "dlq", "offset"}, rev : Nat,
          gen : Nat, seq : 0 .. LastSeq, closed : BOOLEAN, ids : SUBSET Range(feed)]

Works == [pc : {"idle", "snapshot", "held", "fence", "swap", "refuse", "offset"},
          resume : 0 .. LastSeq, over : BOOLEAN, held : SUBSET Range(feed),
          gen : Nat, seq : 0 .. LastSeq]

Sessions == [pc : {"off", "snapshot", "label", "open", "ended"}, gen : Nat, pos : Nat,
             mark : 0 .. LastSeq, shown : 0 .. LastSeq]

\* A generation for each rebuild that was swapped in.
RoomTyped ==
    /\ feed \in Feeds /\ roomSeq \in 0 .. LastSeq
    /\ published \in Nat /\ published <= Len(feed)
    /\ \A i \in 1 .. published : feed[i].seq <= roomSeq

RedisTyped ==
    /\ meta \in [rev : Nat, gen : Nat] /\ meta.gen = Cardinality(done) + 1
    /\ done \subseteq Job
    /\ state \in [seq : 0 .. LastSeq, over : BOOLEAN, closed : BOOLEAN]
    /\ outcomes \subseteq Range(feed) /\ quarantine \in BOOLEAN
    /\ streams \in [Generation -> Seq(Entries)]

\* A consumer at work is at the next record; what it loaded has a generation.
ConsumerTyped ==
    /\ dlq \subseteq Range(feed) /\ c \in Loads
    /\ committed \in Nat /\ committed <= published
    /\ c.pc # "idle" => committed < published
    /\ c.pc \in {"state", "apply"} => c.gen \in 1 .. meta.gen

\* A rebuilder at work is at the next request; the records it holds follow
\* the snapshot it has.
RebuilderTyped ==
    /\ asked \in Nat /\ asked <= Len(Requests)
    /\ answered \in Nat /\ answered <= asked
    /\ refused \subseteq Job /\ w \in Works
    /\ w.pc # "idle" => answered < asked
    /\ w.pc \in {"fence", "swap"} => Contiguous(w.resume, w.held)
    /\ w.pc = "swap" => w.gen \in 1 .. meta.gen

Typed == RoomTyped /\ RedisTyped /\ ConsumerTyped /\ RebuilderTyped

\* A consumer of a quarantined room has at most a record that has its outcome.
QuarantinedIsQuiet ==
    quarantine => /\ c.pc # "apply"
                  /\ c.pc \in {"meta", "state"} => Record \in outcomes

\* Until the second swap, and until the first.
Young == meta.gen <= 2
First == meta.gen = 1

\* A first rebuild is asked for a quarantined room, and nothing has released it.
AskedIsQuarantined == First /\ asked > 0 => quarantine

\* The snapshot of a first rebuild is past what the consumer has, and what it
\* has done is in the snapshot or held.
SnapshotCovers ==
    First /\ w.pc \in {"held", "fence", "swap"} =>
        /\ \A i \in 1 .. committed : feed[i].seq <= w.resume \/ feed[i] \in dlq
        /\ c.pc \in {"mark", "offset"} => Record.seq <= w.resume \/ Record \in dlq
        /\ c.pc \in {"meta", "state"} => Record.seq <= w.resume

\* What was loaded before the swap is not news after it.
OldLoadIsStale ==
    Young /\ c.pc \in {"state", "apply"} /\ c.gen # meta.gen => Record.seq <= state.seq

OutcomesAreProjected ==
    Young => \A r \in outcomes : r.seq <= state.seq \/ quarantine

\* A record about to be committed is remembered, as those before it are.
CommittedIsRemembered ==
    Young => /\ \A i \in 1 .. committed : Remembered(i)
             /\ c.pc = "offset" => Remembered(committed + 1)

\* The streams tell the story so far; those of later generations are empty.
StreamsFollow ==
    Young => /\ Followed
             /\ \A g \in Generation : \A i \in 1 .. Len(streams[g]) - 1 :
                    streams[g][i + 1].seq = streams[g][i].seq + 1

NotYetWritten == First => \A g \in Generation : g # 1 => streams[g] = << >>

EntriesAreProjected == \A g \in Generation : \A i \in 1 .. Len(streams[g]) :
                          streams[g][i].seq <= state.seq

\* A spectator has read a part of a stream, and was shown what he has marked.
SessionTyped ==
    /\ sess \in Sessions /\ sess.gen <= meta.gen
    /\ sess.pc \in {"snapshot", "label", "open"} =>
         /\ sess.gen >= 1 /\ sess.pos <= Len(streams[sess.gen])
    /\ sess.pc \in {"snapshot", "label"} => sess.pos = 0
    /\ sess.mark <= state.seq
    /\ sess.pc \in {"off", "open"} => sess.shown <= sess.mark
    /\ sess.pc = "label" => sess.shown <= state.seq

ReaderIsCurrent ==
    Young /\ sess.pc = "open" /\ sess.gen = meta.gen /\ Drained => sess.mark = state.seq

IInv ==
    /\ Typed /\ QuarantinedIsQuiet /\ AskedIsQuarantined /\ SnapshotCovers
    /\ OldLoadIsStale /\ OutcomesAreProjected /\ CommittedIsRemembered
    /\ StreamsFollow /\ NotYetWritten /\ EntriesAreProjected
    /\ SessionTyped /\ ReaderIsCurrent
-----------------------------------------------------------------------------
(* What the types give.                                                    *)

(* The records of the topic, the one at hand included.                     *)
LEMMA RecordsAreTyped ==
    ASSUME feed \in Feeds
    PROVE  /\ feed \in Seq(Records) /\ Len(feed) \in Nat
           /\ \A i \in 1 .. Len(feed) : feed[i] \in Records /\ feed[i] \in Range(feed)
           /\ Range(feed) \subseteq Records
           /\ IsFiniteSet(Range(feed))
<1>a. feed \in Seq(Records)
  BY SpectatorAssumption DEF Records
<1>1. feed \in Seq(Records) /\ Len(feed) \in Nat /\ DOMAIN feed = 1 .. Len(feed)
  BY <1>a
<1>2. \A i \in 1 .. Len(feed) : feed[i] \in Records /\ feed[i] \in Range(feed)
  BY <1>1 DEF Range
<1>3. Range(feed) \subseteq Records
  BY <1>1, <1>2 DEF Range
<1>4. feed \in Surjection(1 .. Len(feed), Range(feed))
  <2>1. feed \in [1 .. Len(feed) -> Range(feed)]
    BY <1>1, <1>2
  <2>2. \A r \in Range(feed) : \E i \in 1 .. Len(feed) : feed[i] = r
    BY <1>1 DEF Range
  <2> QED
    BY <2>1, <2>2 DEF Surjection
<1>5. IsFiniteSet(Range(feed))
  BY <1>1, <1>4, FS_NatSurjection DEF ExistsSurjection
<1> QED
  BY <1>1, <1>2, <1>3, <1>5

(* There are no more rebuilds than requests, so the generation is in range. *)
LEMMA JobsAreFew ==
    /\ IsFiniteSet(Job) /\ Len(Requests) \in Nat
    /\ Cardinality(Job) \in Nat /\ Cardinality(Job) <= Len(Requests)
    /\ \A i \in 1 .. Len(Requests) : Requests[i] \in Job
<1>1. Len(Requests) \in Nat /\ DOMAIN Requests = 1 .. Len(Requests)
  BY SpectatorAssumption
<1>2. \A i \in 1 .. Len(Requests) : Requests[i] \in Job
  BY <1>1 DEF Job, Range
<1>3. Requests \in Surjection(1 .. Len(Requests), Job)
  <2>1. Requests \in [1 .. Len(Requests) -> Job]
    BY <1>1, <1>2, SpectatorAssumption
  <2>2. \A r \in Job : \E i \in 1 .. Len(Requests) : Requests[i] = r
    BY <1>1 DEF Job, Range
  <2> QED
    BY <2>1, <2>2 DEF Surjection
<1>4. IsFiniteSet(Job) /\ Cardinality(Job) <= Len(Requests)
  BY <1>1, <1>3, FS_SurjCardinalityBound, FS_NatSurjection DEF ExistsSurjection
<1> QED
  BY <1>1, <1>2, <1>4, FS_CardinalityType

LEMMA GenerationInRange ==
    ASSUME RedisTyped
    PROVE  /\ IsFiniteSet(done) /\ Cardinality(done) \in Nat
           /\ Cardinality(done) = meta.gen - 1
           /\ meta.gen \in Generation /\ meta.gen \in Nat
           /\ \A g \in 1 .. meta.gen : g \in Generation
<1>1. IsFiniteSet(done) /\ Cardinality(done) <= Cardinality(Job)
  BY JobsAreFew, FS_Subset DEF RedisTyped
<1>2. Cardinality(done) \in Nat
  BY <1>1, FS_CardinalityType
<1> QED
  BY <1>1, <1>2, JobsAreFew DEF RedisTyped, Generation

LEMMA RecordAtHand ==
    ASSUME Typed, c.pc # "idle"
    PROVE  /\ committed + 1 \in 1 .. published /\ published <= Len(feed)
           /\ Record = feed[committed + 1]
           /\ Record \in Records /\ Record \in Range(feed)
           /\ Record.seq \in 1 .. LastSeq /\ Record.seq <= roomSeq
<1>1. committed + 1 \in 1 .. published /\ published <= Len(feed) /\ published \in Nat
  BY DEF Typed, ConsumerTyped, RoomTyped
<1>2. Record \in Records /\ Record \in Range(feed)
  BY <1>1, RecordsAreTyped DEF Typed, RoomTyped, Record
<1>3. Record.seq <= roomSeq
  BY <1>1 DEF Typed, RoomTyped, Record
<1> QED
  BY <1>1, <1>2, <1>3 DEF Record, Records

LEMMA RequestAtHand ==
    ASSUME Typed, w.pc # "idle"
    PROVE  CurrentJob \in Job /\ answered + 1 <= asked
<1>1. answered + 1 \in 1 .. Len(Requests) /\ answered + 1 <= asked
  BY JobsAreFew DEF Typed, RebuilderTyped
<1> QED
  BY <1>1, JobsAreFew DEF CurrentJob

(* A snapshot and the records held after it make a sequence in range.      *)
LEMMA HeldIsInRange ==
    ASSUME Typed, w.pc \in {"fence", "swap"}
    PROVE  /\ IsFiniteSet(w.held) /\ Cardinality(w.held) \in Nat
           /\ w.resume + Cardinality(w.held) \in 0 .. LastSeq
           /\ w.held \subseteq Records
           /\ \A r \in w.held : r.seq <= w.resume + Cardinality(w.held)
<1>1. IsFiniteSet(w.held) /\ w.held \subseteq Records
  <2>1. w.held \subseteq Range(feed)
    BY DEF Typed, RebuilderTyped, Works
  <2> QED
    BY <2>1, RecordsAreTyped, FS_Subset DEF Typed, RoomTyped
<1>2. Cardinality(w.held) \in Nat
  BY <1>1, FS_CardinalityType
<1>3. w.resume \in 0 .. LastSeq
  BY DEF Typed, RebuilderTyped, Works
<1>4. {r.seq : r \in w.held} = w.resume + 1 .. w.resume + Cardinality(w.held)
  BY DEF Typed, RebuilderTyped, Contiguous, Seqs
<1>5. \A r \in w.held : r.seq <= w.resume + Cardinality(w.held)
  BY <1>2, <1>3, <1>4
<1>6. w.resume + Cardinality(w.held) <= LastSeq
  <2>1. CASE Cardinality(w.held) = 0
    BY <2>1, <1>3, SpectatorAssumption
  <2>2. CASE Cardinality(w.held) # 0
    <3>1. w.resume + Cardinality(w.held) \in w.resume + 1 .. w.resume + Cardinality(w.held)
      BY <2>2, <1>2, <1>3
    <3>2. PICK r \in w.held : r.seq = w.resume + Cardinality(w.held)
      BY <3>1, <1>4
    <3> QED
      BY <3>2, <1>1 DEF Records
  <2> QED
    BY <2>1, <2>2
<1> QED
  BY <1>1, <1>2, <1>3, <1>5, <1>6, SpectatorAssumption

-----------------------------------------------------------------------------
(* What a step of one party leaves alone.                                  *)

(* What depends on the topic and the store alone.                          *)
LEMMA StoreFrame ==
    ASSUME IInv, UNCHANGED <<feed, redis>>
    PROVE  RedisTyped' /\ OutcomesAreProjected' /\ StreamsFollow' /\ NotYetWritten'
           /\ EntriesAreProjected'
<1>a. /\ feed' = feed /\ meta' = meta /\ state' = state /\ outcomes' = outcomes
      /\ streams' = streams /\ quarantine' = quarantine /\ done' = done
  BY DEF redis
<1>1. RedisTyped'
  BY <1>a DEF IInv, Typed, RedisTyped
<1>2. OutcomesAreProjected'
  BY <1>a DEF IInv, OutcomesAreProjected, Young
<1>3. StreamsFollow'
  BY <1>a DEF IInv, StreamsFollow, Young, Followed, Entry
<1>4. NotYetWritten' /\ EntriesAreProjected'
  BY <1>a DEF IInv, NotYetWritten, EntriesAreProjected, First
<1> QED
  BY <1>1, <1>2, <1>3, <1>4

LEMMA SessionFrame ==
    ASSUME IInv, UNCHANGED <<source, redis, rebuilder, sess>>
    PROVE  SessionTyped' /\ ReaderIsCurrent' /\ RebuilderTyped' /\ AskedIsQuarantined'
<1>a. /\ feed' = feed /\ meta' = meta /\ state' = state /\ streams' = streams
      /\ quarantine' = quarantine /\ sess' = sess /\ asked' = asked /\ w' = w
      /\ answered' = answered /\ refused' = refused
  BY DEF redis, source, rebuilder
<1>1. SessionTyped'
  BY <1>a DEF IInv, SessionTyped, Sessions
<1>2. ReaderIsCurrent'
  BY <1>a DEF IInv, ReaderIsCurrent, Drained, Young
<1>3. RebuilderTyped'
  BY <1>a DEF IInv, Typed, RebuilderTyped, Works, Contiguous, Seqs
<1>4. AskedIsQuarantined'
  BY <1>a DEF IInv, AskedIsQuarantined, First
<1> QED
  BY <1>1, <1>2, <1>3, <1>4

LEMMA ConsumerFrame ==
    ASSUME IInv, UNCHANGED <<source, redis, consumer>>
    PROVE  RoomTyped' /\ ConsumerTyped' /\ QuarantinedIsQuiet' /\ OldLoadIsStale'
           /\ CommittedIsRemembered'
<1>a. /\ feed' = feed /\ roomSeq' = roomSeq /\ published' = published /\ meta' = meta
      /\ state' = state /\ outcomes' = outcomes /\ quarantine' = quarantine
      /\ dlq' = dlq /\ committed' = committed /\ c' = c
  BY DEF redis, source, consumer
<1>1. RoomTyped' /\ ConsumerTyped'
  BY <1>a DEF IInv, Typed, RoomTyped, ConsumerTyped, Loads
<1>2. QuarantinedIsQuiet' /\ OldLoadIsStale'
  BY <1>a DEF IInv, QuarantinedIsQuiet, OldLoadIsStale, Record, Young
<1>3. CommittedIsRemembered'
  BY <1>a DEF IInv, CommittedIsRemembered, Remembered, Young
<1> QED
  BY <1>1, <1>2, <1>3

(* A step of the spectator.                                                *)
LEMMA SpectatorKeeps ==
    ASSUME IInv, UNCHANGED others, SessionTyped', ReaderIsCurrent'
    PROVE  IInv'
<1>1. UNCHANGED <<source, redis, consumer, rebuilder>> /\ feed' = feed
  BY DEF others, source
<1>2. RebuilderTyped' /\ AskedIsQuarantined' /\ SnapshotCovers'
  <2>a. /\ feed' = feed /\ meta' = meta /\ quarantine' = quarantine /\ asked' = asked
        /\ w' = w /\ answered' = answered /\ refused' = refused /\ dlq' = dlq
        /\ committed' = committed /\ c' = c
    BY <1>1 DEF redis, source, rebuilder, consumer
  <2>1. RebuilderTyped'
    BY <2>a DEF IInv, Typed, RebuilderTyped, Works, Contiguous, Seqs
  <2>2. AskedIsQuarantined' /\ SnapshotCovers'
    BY <2>a DEF IInv, AskedIsQuarantined, SnapshotCovers, First, Record
  <2> QED
    BY <2>1, <2>2
<1> QED
  BY <1>1, <1>2, StoreFrame, ConsumerFrame DEF IInv, Typed

(* A step of the rebuilder that does not write the store.                  *)
LEMMA RebuilderKeeps ==
    ASSUME IInv, UNCHANGED <<source, redis, consumer, sess>>,
           RebuilderTyped', AskedIsQuarantined', SnapshotCovers'
    PROVE  IInv'
<1>1. feed' = feed
  BY DEF source
<1>2. SessionTyped' /\ ReaderIsCurrent'
  <2>a. meta' = meta /\ state' = state /\ streams' = streams /\ sess' = sess
    BY DEF redis
  <2> QED
    BY <2>a DEF IInv, SessionTyped, Sessions, ReaderIsCurrent, Drained, Young
<1> QED
  BY <1>1, <1>2, StoreFrame, ConsumerFrame DEF IInv, Typed

(* A step of the consumer that does not write the store.                   *)
LEMMA ConsumerKeeps ==
    ASSUME IInv, UNCHANGED <<source, redis, rebuilder, sess>>,
           ConsumerTyped', QuarantinedIsQuiet', SnapshotCovers', OldLoadIsStale',
           CommittedIsRemembered'
    PROVE  IInv'
<1>a. feed' = feed /\ roomSeq' = roomSeq /\ published' = published
  BY DEF source
<1>1. RoomTyped'
  BY <1>a DEF IInv, Typed, RoomTyped
<1> QED
  BY <1>a, <1>1, StoreFrame, SessionFrame DEF IInv, Typed

(* The room and its outbox.                                                *)
LEMMA SourceKeeps ==
    ASSUME IInv, RoomCommits \/ Publish
    PROVE  IInv'
<1>a. /\ feed' = feed /\ roomSeq' \in 0 .. LastSeq /\ roomSeq' >= roomSeq
      /\ published' \in Nat /\ published' <= Len(feed) /\ published' >= published
  <2>1. Len(feed) \in Nat
    BY RecordsAreTyped DEF IInv, Typed, RoomTyped
  <2> QED
    BY <2>1, SpectatorAssumption DEF RoomCommits, Publish, IInv, Typed, RoomTyped
<1>b. UNCHANGED <<redis, consumer, rebuilder, sess>>
  BY DEF RoomCommits, Publish
<1>1. \A i \in 1 .. published' : feed[i].seq <= roomSeq'
  <2>1. \A i \in 1 .. Len(feed) : feed[i].seq \in 1 .. LastSeq
    BY RecordsAreTyped DEF IInv, Typed, RoomTyped, Records
  <2>2. SUFFICES ASSUME NEW i \in 1 .. published' PROVE feed[i].seq <= roomSeq'
    OBVIOUS
  <2>3. CASE i \in 1 .. published
    <3>1. feed[i].seq <= roomSeq /\ feed[i].seq \in Nat
      BY <2>1, <2>3, <1>a, RecordsAreTyped DEF IInv, Typed, RoomTyped
    <3> QED
      BY <3>1, <1>a DEF IInv, Typed, RoomTyped
  <2>4. CASE i \notin 1 .. published
    BY <2>4, <2>1, <1>a DEF RoomCommits, Publish, IInv, Typed, RoomTyped
  <2> QED
    BY <2>3, <2>4
<1>2. RoomTyped'
  BY <1>a, <1>1 DEF IInv, Typed, RoomTyped
<1>c. /\ meta' = meta /\ state' = state /\ outcomes' = outcomes /\ streams' = streams
      /\ quarantine' = quarantine /\ dlq' = dlq /\ committed' = committed /\ c' = c
      /\ asked' = asked /\ w' = w /\ answered' = answered /\ refused' = refused
      /\ sess' = sess
  BY <1>b DEF redis, consumer, rebuilder
<1>3. ConsumerTyped'
  BY <1>a, <1>c DEF IInv, Typed, ConsumerTyped, RoomTyped, Loads
<1>4. RebuilderTyped'
  BY <1>a, <1>c DEF IInv, Typed, RebuilderTyped, Works, Contiguous, Seqs
<1>5. QuarantinedIsQuiet' /\ OldLoadIsStale' /\ AskedIsQuarantined' /\ SnapshotCovers'
  BY <1>a, <1>c DEF IInv, QuarantinedIsQuiet, OldLoadIsStale, Record, Young, First,
     AskedIsQuarantined, SnapshotCovers
<1>6. CommittedIsRemembered'
  BY <1>a, <1>c DEF IInv, CommittedIsRemembered, Remembered, Young
<1>7. SessionTyped' /\ ReaderIsCurrent'
  BY <1>a, <1>c DEF IInv, SessionTyped, Sessions, ReaderIsCurrent, Drained, Young
<1> QED
  BY <1>a, <1>b, <1>2, <1>3, <1>4, <1>5, <1>6, <1>7, StoreFrame DEF IInv, Typed

-----------------------------------------------------------------------------
(* The spectator.                                                          *)

(* The stream of the current generation, and where it ends.                *)
LEMMA CurrentStream ==
    ASSUME IInv
    PROVE  /\ meta.gen \in Generation /\ meta.gen \in Nat /\ state.seq \in 0 .. LastSeq
           /\ streams[meta.gen] \in Seq(Entries) /\ Len(streams[meta.gen]) \in Nat
           /\ \A i \in 1 .. Len(streams[meta.gen]) : streams[meta.gen][i] \in Entries
           /\ Young /\ streams[meta.gen] = << >> => state.seq = 0
           /\ Young /\ streams[meta.gen] # << >> =>
                /\ Len(streams[meta.gen]) >= 1
                /\ streams[meta.gen][Len(streams[meta.gen])].seq = state.seq
<1>1. meta.gen \in Generation /\ meta.gen \in Nat
  BY GenerationInRange DEF IInv, Typed
<1>2. state.seq \in 0 .. LastSeq
  BY DEF IInv, Typed, RedisTyped
<1>3. streams[meta.gen] \in Seq(Entries)
  BY <1>1 DEF IInv, Typed, RedisTyped
<1>4. /\ Len(streams[meta.gen]) \in Nat
      /\ \A i \in 1 .. Len(streams[meta.gen]) : streams[meta.gen][i] \in Entries
  BY <1>3
<1>5. Young /\ streams[meta.gen] = << >> => state.seq = 0
  BY DEF IInv, StreamsFollow, Followed
<1>6. ASSUME Young, streams[meta.gen] # << >>
      PROVE  /\ Len(streams[meta.gen]) >= 1
             /\ streams[meta.gen][Len(streams[meta.gen])].seq = state.seq
  <2>1. Last(streams[meta.gen]) = Entry(state)
    BY <1>6 DEF IInv, StreamsFollow, Followed
  <2>2. Len(streams[meta.gen]) >= 1
    BY <1>3, <1>4, <1>6
  <2> QED
    BY <2>1, <2>2 DEF Last, Entry
<1> QED
  BY <1>1, <1>2, <1>3, <1>4, <1>5, <1>6

(* The stream a spectator reads.                                           *)
LEMMA SessionStream ==
    ASSUME IInv, sess.pc \in {"snapshot", "label", "open"}
    PROVE  /\ sess.gen \in Generation /\ sess.gen \in Nat
           /\ streams[sess.gen] \in Seq(Entries) /\ Len(streams[sess.gen]) \in Nat
           /\ \A i \in 1 .. Len(streams[sess.gen]) :
                 streams[sess.gen][i] \in Entries /\ streams[sess.gen][i].seq <= state.seq
<1>1. sess.gen \in 1 .. meta.gen /\ sess.gen \in Nat
  BY CurrentStream DEF IInv, SessionTyped, Sessions
<1>2. sess.gen \in Generation
  BY <1>1, GenerationInRange DEF IInv, Typed
<1>3. streams[sess.gen] \in Seq(Entries)
  BY <1>2 DEF IInv, Typed, RedisTyped
<1> QED
  BY <1>1, <1>2, <1>3 DEF IInv, EntriesAreProjected

(* A spectator who connects resumes inside the stream, or starts before it. *)
LEMMA ConnectKeeps ==
    ASSUME IInv, Connect
    PROVE  IInv'
<1>a. UNCHANGED others /\ sess.pc = "off"
  BY DEF Connect
<1>b. meta' = meta /\ state' = state /\ streams' = streams
  BY <1>a DEF others, redis
<1>c. sess \in Sessions /\ sess.mark \in 0 .. LastSeq /\ sess.mark <= state.seq
      /\ sess.shown <= sess.mark
  BY <1>a DEF IInv, SessionTyped, Sessions
<1>1. CASE sess.mark > 0 /\ ResumePoint # {}
  <2> DEFINE i == CHOOSE i \in ResumePoint : TRUE
  <2>1. i \in ResumePoint
    BY <1>1
  <2>2. i \in 1 .. Len(streams[meta.gen]) /\ streams[meta.gen][i].seq = sess.mark
    BY <2>1, CurrentStream DEF ResumePoint
  <2>3. sess' = [sess EXCEPT !.pc = "open", !.gen = meta.gen, !.pos = i]
    BY <1>1 DEF Connect
  <2> HIDE DEF i
  <2>4. SessionTyped'
    <3>a. meta.gen \in Nat /\ i \in Nat
      BY <2>2, CurrentStream
    <3>1. /\ sess'.pc = "open" /\ sess'.gen = meta.gen /\ sess'.pos = i
          /\ sess'.mark = sess.mark /\ sess'.shown = sess.shown /\ sess' \in Sessions
      BY <3>a, <2>3, <1>c DEF Sessions
    <3> QED
      BY <3>1, <2>2, <1>b, <1>c, CurrentStream, GenerationInRange
      DEF SessionTyped, Generation, IInv, Typed
  <2>5. ReaderIsCurrent'
    <3> SUFFICES ASSUME Young', Drained' PROVE sess'.mark = state'.seq
      BY DEF ReaderIsCurrent
    <3>1. i = Len(streams[meta.gen])
      BY <2>3, <1>b, <1>c DEF Drained, Sessions
    <3>2. streams[meta.gen] # << >> /\ Young
      BY <2>2, <3>1, <1>b, CurrentStream DEF Young
    <3>3. streams[meta.gen][i].seq = state.seq
      BY <3>1, <3>2, CurrentStream
    <3> QED
      BY <3>3, <2>2, <2>3, <1>b, <1>c DEF Sessions
  <2> QED
    BY <2>4, <2>5, <1>a, SpectatorKeeps
<1>2. CASE ~(sess.mark > 0 /\ ResumePoint # {})
  <2>1. sess' = [sess EXCEPT !.pc = "snapshot", !.gen = meta.gen, !.pos = 0]
    BY <1>2 DEF Connect
  <2>2. SessionTyped'
    <3>1. /\ sess'.pc = "snapshot" /\ sess'.gen = meta.gen /\ sess'.pos = 0
          /\ sess'.mark = sess.mark /\ sess'.shown = sess.shown /\ sess' \in Sessions
      BY <2>1, <1>c, CurrentStream DEF Sessions
    <3> QED
      BY <3>1, <1>b, <1>c, CurrentStream, GenerationInRange
      DEF SessionTyped, Generation, IInv, Typed
  <2>3. ReaderIsCurrent'
    BY <2>1, <1>c DEF ReaderIsCurrent, Sessions
  <2> QED
    BY <2>2, <2>3, <1>a, SpectatorKeeps
<1> QED
  BY <1>1, <1>2

LEMMA SnapshotKeeps ==
    ASSUME IInv, ReadSnapshot \/ LabelSnapshot
    PROVE  IInv'
<1>a. UNCHANGED others /\ sess.pc \in {"snapshot", "label"}
  BY DEF ReadSnapshot, LabelSnapshot
<1>b. meta' = meta /\ state' = state /\ streams' = streams
  BY <1>a DEF others, redis
<1>c. /\ sess \in Sessions /\ sess.mark <= state.seq /\ sess.pos = 0
      /\ sess.gen <= meta.gen /\ sess.gen >= 1
      /\ sess.pc = "label" => sess.shown <= state.seq
  BY <1>a DEF IInv, SessionTyped
<1>d. state.seq \in 0 .. LastSeq /\ Len(streams[sess.gen]) \in Nat
  BY <1>a, CurrentStream, SessionStream
<1>1. CASE ReadSnapshot
  <2>1. sess' = [sess EXCEPT !.pc = "label", !.shown = state.seq]
    BY <1>1 DEF ReadSnapshot
  <2>a. /\ sess'.pc = "label" /\ sess'.gen = sess.gen /\ sess'.pos = sess.pos
        /\ sess'.mark = sess.mark /\ sess'.shown = state.seq /\ sess' \in Sessions
    BY <2>1, <1>c, <1>d DEF Sessions
  <2>2. SessionTyped' /\ ReaderIsCurrent'
    BY <2>a, <1>b, <1>c, <1>d DEF SessionTyped, ReaderIsCurrent
  <2> QED
    BY <2>2, <1>a, SpectatorKeeps
<1>2. CASE LabelSnapshot /\ state.closed
  <2>1. sess' = [sess EXCEPT !.pc = "ended"]
    BY <1>2 DEF LabelSnapshot
  <2>2. SessionTyped' /\ ReaderIsCurrent'
    BY <2>1, <1>b, <1>c, <1>d DEF SessionTyped, Sessions, ReaderIsCurrent
  <2> QED
    BY <2>2, <1>a, SpectatorKeeps
<1>3. CASE LabelSnapshot /\ ~state.closed
  <2>1. sess' = [sess EXCEPT !.pc = "open", !.mark = state.seq] /\ sess.pc = "label"
    BY <1>3 DEF LabelSnapshot
  <2>a. /\ sess'.pc = "open" /\ sess'.gen = sess.gen /\ sess'.pos = sess.pos
        /\ sess'.mark = state.seq /\ sess'.shown = sess.shown /\ sess' \in Sessions
    BY <2>1, <1>c, <1>d DEF Sessions
  <2>2. SessionTyped' /\ ReaderIsCurrent'
    BY <2>a, <2>1, <1>b, <1>c, <1>d DEF SessionTyped, ReaderIsCurrent
  <2> QED
    BY <2>2, <1>a, SpectatorKeeps
<1> QED
  BY <1>1, <1>2, <1>3

(* An entry is forwarded, or left out because the snapshot has it: when it *)
(* is the last one the projection has no more.                             *)
LEMMA ForwardKeeps ==
    ASSUME IInv, Forward
    PROVE  IInv'
<1> DEFINE n == sess.pos + 1
           e == streams[sess.gen][n]
<1>a. UNCHANGED others /\ sess.pc = "open" /\ ~Drained
  BY DEF Forward
<1>b. meta' = meta /\ state' = state /\ streams' = streams
  BY <1>a DEF others, redis
<1>c. /\ sess \in Sessions /\ sess.mark <= state.seq /\ sess.shown <= sess.mark
      /\ sess.gen <= meta.gen /\ sess.gen >= 1 /\ sess.pos <= Len(streams[sess.gen])
  BY <1>a DEF IInv, SessionTyped
<1>d. n \in 1 .. Len(streams[sess.gen])
  BY <1>a, <1>c, SessionStream DEF Drained, Sessions
<1>e. e \in Entries /\ e.seq <= state.seq /\ e.seq \in 0 .. LastSeq /\ e.closed \in BOOLEAN
  BY <1>a, <1>d, SessionStream DEF Entries
<1>f. Len(streams[sess.gen]) \in Nat /\ state.seq \in 0 .. LastSeq
  BY <1>a, SessionStream, CurrentStream
<1>g. Young /\ sess.gen = meta.gen /\ n = Len(streams[sess.gen]) => e.seq = state.seq
  BY <1>d, CurrentStream
<1>1. CASE Covered(e)
  <2>1. sess' = [sess EXCEPT !.pos = n]
    BY <1>1 DEF Forward
  <2>2. e.seq <= sess.mark
    BY <1>1 DEF Covered
  <2> HIDE DEF e
  <2>a. /\ sess'.pc = "open" /\ sess'.gen = sess.gen /\ sess'.pos = n
        /\ sess'.mark = sess.mark /\ sess'.shown = sess.shown /\ sess' \in Sessions
    BY <2>1, <1>a, <1>c, <1>d DEF Sessions
  <2>3. SessionTyped'
    BY <2>a, <1>b, <1>c, <1>d, <1>f DEF SessionTyped
  <2>4. ReaderIsCurrent'
    <3> SUFFICES ASSUME Young, sess.gen = meta.gen, n = Len(streams[sess.gen])
                 PROVE  sess.mark = state.seq
      BY <2>1, <1>b, <1>c DEF ReaderIsCurrent, Drained, Young, Sessions
    <3> QED
      BY <1>g, <2>2, <1>c, <1>e, <1>f DEF Sessions
  <2> QED
    BY <2>3, <2>4, <1>a, SpectatorKeeps
<1>2. CASE ~Covered(e)
  <2>1. sess' = [sess EXCEPT !.pos = n, !.mark = e.seq, !.shown = e.seq,
                             !.pc = IF e.closed THEN "ended" ELSE @]
    BY <1>2 DEF Forward
  <2> HIDE DEF e
  <2>a. /\ sess'.pc \in {"open", "ended"} /\ sess'.gen = sess.gen /\ sess'.pos = n
        /\ sess'.mark = e.seq /\ sess'.shown = e.seq
    BY <2>1, <1>a, <1>c DEF Sessions
  <2>b. sess' \in Sessions
    <3>1. n \in Nat /\ e.seq \in 0 .. LastSeq
      BY <1>c, <1>e DEF Sessions
    <3>2. PICK pc \in {"open", "ended"} :
             sess' = [sess EXCEPT !.pos = n, !.mark = e.seq, !.shown = e.seq, !.pc = pc]
      BY <2>1, <1>a
    <3> QED
      BY <3>1, <3>2, <1>c DEF Sessions
  <2>3. SessionTyped'
    BY <2>a, <2>b, <1>b, <1>c, <1>d, <1>e, <1>f DEF SessionTyped
  <2>4. ReaderIsCurrent'
    BY <2>1, <1>b, <1>c, <1>e, <1>g DEF ReaderIsCurrent, Drained, Young, Sessions
  <2> QED
    BY <2>3, <2>4, <1>a, SpectatorKeeps
<1> QED
  BY <1>1, <1>2

LEMMA LeavingKeeps ==
    ASSUME IInv, IdleCheck \/ Leave
    PROVE  IInv'
<1>a. UNCHANGED others /\ sess.pc = "open"
  BY DEF IdleCheck, Leave
<1>b. meta' = meta /\ state' = state /\ streams' = streams
  BY <1>a DEF others, redis
<1>1. sess' = [sess EXCEPT !.pc = "ended"] \/ sess' = [sess EXCEPT !.pc = "off"]
  BY DEF IdleCheck, Leave
<1>2. SessionTyped' /\ ReaderIsCurrent'
  BY <1>1, <1>a, <1>b DEF IInv, SessionTyped, Sessions, ReaderIsCurrent
<1> QED
  BY <1>2, <1>a, SpectatorKeeps

-----------------------------------------------------------------------------
(* The rebuilder, as far as it does not write the store.                   *)

LEMMA NoJobIsWork == NoJob \in Works
BY SpectatorAssumption DEF NoJob, Works

(* A step after which the rebuilder relies on nothing it has read.         *)
LEMMA CarefreeKeeps ==
    ASSUME IInv, UNCHANGED <<source, redis, consumer, sess>>,
           asked' = asked, answered' \in Nat, answered' <= asked, refused' \subseteq Job,
           w' \in Works, w'.pc \notin {"held", "fence", "swap"},
           w'.pc # "idle" => answered' < asked
    PROVE  IInv'
<1>a. meta' = meta /\ quarantine' = quarantine /\ feed' = feed
  BY DEF redis, source
<1>1. RebuilderTyped'
  BY <1>a DEF IInv, Typed, RebuilderTyped, Works
<1>2. AskedIsQuarantined' /\ SnapshotCovers'
  BY <1>a DEF IInv, AskedIsQuarantined, SnapshotCovers, First
<1> QED
  BY <1>1, <1>2, RebuilderKeeps

LEMMA RequestKeeps ==
    ASSUME IInv, RequestRebuild
    PROVE  IInv'
<1>a. /\ UNCHANGED <<source, redis, consumer, sess>>
      /\ asked' = asked + 1 /\ asked < Len(Requests)
      /\ answered' = answered /\ refused' = refused /\ w' = w
  BY DEF RequestRebuild
<1>b. /\ meta' = meta /\ quarantine' = quarantine /\ feed' = feed /\ dlq' = dlq
      /\ committed' = committed /\ c' = c
  BY <1>a DEF redis, source, consumer
<1>c. asked \in Nat /\ Len(Requests) \in Nat
  BY JobsAreFew DEF IInv, Typed, RebuilderTyped
<1>1. RebuilderTyped'
  BY <1>a, <1>b, <1>c DEF IInv, Typed, RebuilderTyped, Works, Contiguous, Seqs
<1>2. AskedIsQuarantined'
  <2>1. CASE asked = 0
    <3>1. {Requests[i] : i \in 1 .. asked} = {}
      BY <2>1
    <3> QED
      BY <3>1, <1>b DEF AskedIsQuarantined, RequestRebuild
  <2>2. CASE asked # 0
    BY <2>2, <1>b, <1>c DEF IInv, AskedIsQuarantined, First
  <2> QED
    BY <2>1, <2>2
<1>3. SnapshotCovers'
  BY <1>a, <1>b DEF IInv, SnapshotCovers, First, Record
<1> QED
  BY <1>1, <1>2, <1>3, <1>a, RebuilderKeeps

(* The snapshot is the room's own: past all it has published.              *)
LEMMA FetchKeeps ==
    ASSUME IInv, FetchSnapshot
    PROVE  IInv'
<1>a. /\ UNCHANGED <<source, redis, consumer, sess>>
      /\ asked' = asked /\ answered' = answered /\ refused' = refused
      /\ w.pc = "snapshot"
      /\ w' = [w EXCEPT !.pc = "held", !.resume = roomSeq, !.over = roomSeq = LastSeq]
  BY DEF FetchSnapshot
<1>b. /\ meta' = meta /\ quarantine' = quarantine /\ feed' = feed /\ dlq' = dlq
      /\ committed' = committed /\ c' = c
  BY <1>a DEF redis, source, consumer
<1>c. w'.pc = "held" /\ w'.resume = roomSeq /\ w' \in Works
  <2>1. roomSeq \in 0 .. LastSeq /\ w \in Works
    BY DEF IInv, Typed, RoomTyped, RebuilderTyped
  <2>2. (roomSeq = LastSeq) \in BOOLEAN
    OBVIOUS
  <2> QED
    BY <2>1, <2>2, <1>a DEF Works
<1>1. RebuilderTyped'
  <2>1. /\ asked \in Nat /\ asked <= Len(Requests) /\ answered \in Nat /\ answered <= asked
        /\ refused \subseteq Job /\ answered < asked
    BY <1>a DEF IInv, Typed, RebuilderTyped
  <2>2. Range(feed') = Range(feed)
    BY <1>b
  <2> QED
    BY <2>1, <1>a, <1>b, <1>c DEF RebuilderTyped, Works
<1>2. AskedIsQuarantined'
  BY <1>a, <1>b DEF IInv, AskedIsQuarantined, First
<1>3. SnapshotCovers'
  <2>1. \A i \in 1 .. published : feed[i].seq <= roomSeq
    BY DEF IInv, Typed, RoomTyped
  <2>2. \A i \in 1 .. committed : feed[i].seq <= roomSeq
    BY <2>1 DEF IInv, Typed, ConsumerTyped, RoomTyped
  <2>3. c.pc # "idle" => Record.seq <= roomSeq
    BY RecordAtHand DEF IInv
  <2> QED
    BY <2>2, <2>3, <1>b, <1>c DEF SnapshotCovers, Record
<1> QED
  BY <1>1, <1>2, <1>3, <1>a, RebuilderKeeps

(* A step that goes on with the snapshot.                                  *)
LEMMA SameSnapshotKeeps ==
    ASSUME IInv, UNCHANGED <<source, redis, consumer, sess>>,
           asked' = asked, answered' = answered, refused' = refused,
           w.pc \in {"held", "fence"}, w' \in Works, w'.resume = w.resume,
           w'.pc \in {"fence", "swap"}, Contiguous(w'.resume, w'.held),
           w'.pc = "swap" => w'.gen \in 1 .. meta.gen
    PROVE  IInv'
<1>b. /\ meta' = meta /\ quarantine' = quarantine /\ feed' = feed /\ dlq' = dlq
      /\ committed' = committed /\ c' = c
  BY DEF redis, source, consumer
<1>1. RebuilderTyped'
  <2>1. /\ asked \in Nat /\ asked <= Len(Requests) /\ answered \in Nat /\ answered <= asked
        /\ refused \subseteq Job /\ answered < asked
    BY DEF IInv, Typed, RebuilderTyped
  <2> QED
    BY <2>1, <1>b DEF RebuilderTyped, Works, Contiguous, Seqs
<1>2. AskedIsQuarantined'
  BY <1>b DEF IInv, AskedIsQuarantined, First
<1>3. SnapshotCovers'
  BY <1>b DEF IInv, SnapshotCovers, First, Record
<1> QED
  BY <1>1, <1>2, <1>3, RebuilderKeeps

LEMMA ScanKeeps ==
    ASSUME IInv, ScanHeld
    PROVE  IInv'
<1> DEFINE held == {r \in dlq : r.seq > w.resume}
<1>a. /\ UNCHANGED <<source, redis, consumer, sess>>
      /\ asked' = asked /\ answered' = answered /\ refused' = refused
      /\ w.pc = "held" /\ w \in Works /\ answered < asked /\ answered \in Nat
      /\ answered <= asked /\ refused \subseteq Job
  BY DEF ScanHeld, IInv, Typed, RebuilderTyped
<1>b. held \subseteq Range(feed)
  BY DEF IInv, Typed, ConsumerTyped
<1>c. feed' = feed
  BY <1>a DEF source
<1>1. CASE (\E r \in dlq : r.kind = "bad") \/ ~Contiguous(w.resume, held)
  <2>1. w' = [w EXCEPT !.pc = "refuse"]
    BY <1>1 DEF ScanHeld
  <2>2. w' \in Works /\ w'.pc = "refuse"
    BY <2>1, <1>a DEF Works
  <2> QED
    BY <2>2, <1>a, CarefreeKeeps
<1>2. CASE ~((\E r \in dlq : r.kind = "bad") \/ ~Contiguous(w.resume, held))
  <2>1. w' = [w EXCEPT !.pc = "fence", !.held = held]
    BY <1>2 DEF ScanHeld
  <2> HIDE DEF held
  <2>2. w' \in Works /\ w'.pc = "fence" /\ w'.resume = w.resume /\ w'.held = held
    BY <2>1, <1>a, <1>b DEF Works
  <2>3. Contiguous(w'.resume, w'.held)
    BY <2>2, <1>2
  <2> QED
    BY <2>2, <2>3, <1>a, SameSnapshotKeeps
<1> QED
  BY <1>1, <1>2

LEMMA FenceKeeps ==
    ASSUME IInv, ReadFence
    PROVE  IInv'
<1>a. /\ UNCHANGED <<source, redis, consumer, sess>>
      /\ asked' = asked /\ answered' = answered /\ refused' = refused
      /\ w.pc = "fence" /\ w \in Works /\ Contiguous(w.resume, w.held)
      /\ w' = [w EXCEPT !.pc = "swap", !.gen = meta.gen, !.seq = state.seq]
  BY DEF ReadFence, IInv, Typed, RebuilderTyped
<1>b. meta.gen \in Nat /\ meta.gen \in 1 .. meta.gen /\ state.seq \in 0 .. LastSeq
  BY GenerationInRange, CurrentStream DEF IInv, Typed, Generation
<1>1. /\ w' \in Works /\ w'.pc = "swap" /\ w'.resume = w.resume /\ w'.held = w.held
      /\ w'.gen = meta.gen
  BY <1>a, <1>b DEF Works
<1> QED
  BY <1>1, <1>a, <1>b, SameSnapshotKeeps

(* The rest asks for nothing, or gives up what it has read.                *)
LEMMA RestOfRebuilderKeeps ==
    ASSUME IInv, BeginRebuild \/ ExhaustRebuild \/ RefuseRequest \/ CommitRequest
                 \/ CrashRebuilder
                 \/ (w.pc = "swap"
                     /\ w' \in {[w EXCEPT !.pc = "refuse"], [w EXCEPT !.pc = "offset"]}
                     /\ UNCHANGED <<source, redis, consumer, asked, answered, refused, sess>>)
    PROVE  IInv'
<1>a. /\ UNCHANGED <<source, redis, consumer, sess>> /\ asked' = asked
  BY DEF BeginRebuild, ExhaustRebuild, RefuseRequest, CommitRequest, CrashRebuilder
<1>b. /\ w \in Works /\ answered \in Nat /\ answered <= asked /\ asked \in Nat
      /\ refused \subseteq Job
      /\ w.pc # "idle" => answered < asked
  BY DEF IInv, Typed, RebuilderTyped
<1>c. feed' = feed
  BY <1>a DEF source
<1>1. CASE BeginRebuild
  <2>1. w' = [NoJob EXCEPT !.pc = "offset"] \/ w' = [NoJob EXCEPT !.pc = "snapshot"]
    BY <1>1 DEF BeginRebuild
  <2>2. w' \in Works /\ w'.pc \in {"offset", "snapshot"}
    BY <2>1, NoJobIsWork DEF Works
  <2> QED
    BY <2>2, <1>1, <1>a, <1>b, CarefreeKeeps DEF BeginRebuild
<1>2. CASE ExhaustRebuild
  <2>1. w' = [w EXCEPT !.pc = "refuse"] /\ w.pc # "idle"
    BY <1>2 DEF ExhaustRebuild
  <2>2. w' \in Works /\ w'.pc = "refuse"
    BY <2>1, <1>b DEF Works
  <2> QED
    BY <2>1, <2>2, <1>2, <1>a, <1>b, CarefreeKeeps DEF ExhaustRebuild
<1>3. CASE RefuseRequest
  <2>1. w' = [w EXCEPT !.pc = "offset"] /\ w.pc # "idle"
    BY <1>3 DEF RefuseRequest
  <2>2. w' \in Works /\ w'.pc = "offset"
    BY <2>1, <1>b DEF Works
  <2>3. refused' \subseteq Job
    BY <2>1, <1>3, <1>b, RequestAtHand DEF RefuseRequest, IInv
  <2> QED
    BY <2>1, <2>2, <2>3, <1>3, <1>a, <1>b, CarefreeKeeps DEF RefuseRequest
<1>4. CASE CommitRequest
  <2>1. w' = NoJob /\ answered' = answered + 1 /\ w.pc # "idle" /\ refused' = refused
    BY <1>4 DEF CommitRequest
  <2>2. w' \in Works /\ w'.pc = "idle"
    BY <2>1, NoJobIsWork DEF NoJob
  <2> QED
    BY <2>1, <2>2, <1>a, <1>b, CarefreeKeeps
<1>5. CASE CrashRebuilder
  <2>1. w' = NoJob /\ answered' = answered /\ refused' = refused
    BY <1>5 DEF CrashRebuilder
  <2>2. w' \in Works /\ w'.pc = "idle"
    BY <2>1, NoJobIsWork DEF NoJob
  <2> QED
    BY <2>1, <2>2, <1>a, <1>b, CarefreeKeeps
<1>6. CASE /\ w.pc = "swap" /\ answered' = answered /\ refused' = refused
           /\ w' \in {[w EXCEPT !.pc = "refuse"], [w EXCEPT !.pc = "offset"]}
  <2>2. w' \in Works /\ w'.pc \in {"refuse", "offset"}
    BY <1>6, <1>b DEF Works
  <2> QED
    BY <2>2, <1>6, <1>a, <1>b, CarefreeKeeps
<1> QED
  BY <1>1, <1>2, <1>3, <1>4, <1>5, <1>6

-----------------------------------------------------------------------------
(* The consumer, as far as it does not write the store.                    *)

LEMMA NoLoadIsLoad == NoLoad \in Loads
BY SpectatorAssumption DEF NoLoad, Loads

(* A first rebuild at work is one of a quarantined room.                   *)
LEMMA FirstRebuildIsQuarantined ==
    ASSUME IInv, First, w.pc # "idle"
    PROVE  quarantine
BY DEF IInv, AskedIsQuarantined, Typed, RebuilderTyped

(* A record that has its outcome is remembered.                            *)
LEMMA OutcomeIsRemembered ==
    ASSUME IInv, Young, Record \in outcomes
    PROVE  Remembered(committed + 1)
BY DEF IInv, OutcomesAreProjected, Remembered, Record

(* What a step must see to when the consumer stays at its record.          *)
LEMMA AtRecordKeeps ==
    ASSUME IInv, UNCHANGED <<source, redis, rebuilder, sess>>,
           committed' = committed, dlq' = dlq, c' \in Loads,
           c'.pc # "idle" => committed < published,
           c'.pc \in {"state", "apply"} => c'.gen \in 1 .. meta.gen,
           quarantine => /\ c'.pc # "apply"
                         /\ c'.pc \in {"meta", "state"} => Record \in outcomes,
           First /\ w.pc \in {"held", "fence", "swap"} =>
                /\ c'.pc \in {"mark", "offset"} => Record.seq <= w.resume \/ Record \in dlq
                /\ c'.pc \in {"meta", "state"} => Record.seq <= w.resume,
           Young /\ c'.pc \in {"state", "apply"} /\ c'.gen # meta.gen => Record.seq <= state.seq,
           Young /\ c'.pc = "offset" => Remembered(committed + 1)
    PROVE  IInv'
<1>a. /\ meta' = meta /\ state' = state /\ outcomes' = outcomes /\ quarantine' = quarantine
      /\ feed' = feed /\ roomSeq' = roomSeq /\ published' = published /\ w' = w
  BY DEF redis, source, rebuilder
<1>1. ConsumerTyped'
  BY <1>a DEF IInv, Typed, ConsumerTyped, Loads
<1>2. QuarantinedIsQuiet'
  BY <1>a DEF QuarantinedIsQuiet, Record
<1>3. SnapshotCovers'
  BY <1>a DEF IInv, SnapshotCovers, First, Record
<1>4. OldLoadIsStale'
  BY <1>a DEF OldLoadIsStale, Young, Record
<1>5. CommittedIsRemembered'
  BY <1>a DEF IInv, CommittedIsRemembered, Remembered, Young
<1> QED
  BY <1>1, <1>2, <1>3, <1>4, <1>5, ConsumerKeeps

LEMMA TakeKeeps ==
    ASSUME IInv, Take
    PROVE  IInv'
<1>a. /\ UNCHANGED <<source, redis, rebuilder, sess>>
      /\ committed' = committed /\ dlq' = dlq /\ c.pc = "idle" /\ committed < published
  BY DEF Take
<1>b. c \in Loads
  BY DEF IInv, Typed, ConsumerTyped
<1>1. CASE Held
  <2>1. c' = [c EXCEPT !.pc = "dlq"]
    BY <1>1 DEF Take
  <2>2. c' \in Loads /\ c'.pc = "dlq"
    BY <2>1, <1>b DEF Loads
  <2> QED
    BY <2>2, <1>a, AtRecordKeeps
<1>2. CASE ~Held
  <2>1. c' = [c EXCEPT !.pc = "mark"] \/ c' = [c EXCEPT !.pc = "meta"]
    BY <1>2 DEF Take
  <2>2. c' \in Loads /\ c'.pc \in {"mark", "meta"}
    BY <2>1, <1>b DEF Loads
  <2>3. ~quarantine /\ ~(First /\ w.pc \in {"held", "fence", "swap"})
    BY <1>2, FirstRebuildIsQuarantined DEF Held
  <2> QED
    BY <2>2, <2>3, <1>a, AtRecordKeeps
<1> QED
  BY <1>1, <1>2

LEMMA LoadKeeps ==
    ASSUME IInv, LoadMeta \/ LoadState
    PROVE  IInv'
<1>a. /\ UNCHANGED <<source, redis, rebuilder, sess>>
      /\ committed' = committed /\ dlq' = dlq /\ c.pc \in {"meta", "state"}
  BY DEF LoadMeta, LoadState
<1>b. /\ c \in Loads /\ committed < published
      /\ c.pc = "state" => c.gen \in 1 .. meta.gen
  BY <1>a DEF IInv, Typed, ConsumerTyped
<1>c. quarantine => Record \in outcomes
  BY <1>a DEF IInv, QuarantinedIsQuiet
<1>d. First /\ w.pc \in {"held", "fence", "swap"} => Record.seq <= w.resume
  BY <1>a DEF IInv, SnapshotCovers
<1>e. /\ meta.rev \in Nat /\ meta.gen \in Nat /\ meta.gen \in 1 .. meta.gen
      /\ state.seq \in 0 .. LastSeq /\ state.closed \in BOOLEAN /\ outcomes \subseteq Range(feed)
  BY GenerationInRange DEF IInv, Typed, RedisTyped, Generation
<1>1. CASE LoadMeta
  <2>1. c' = [c EXCEPT !.pc = "state", !.rev = meta.rev, !.gen = meta.gen]
    BY <1>1 DEF LoadMeta
  <2>2. c' \in Loads /\ c'.pc = "state" /\ c'.gen = meta.gen
    BY <2>1, <1>b, <1>e DEF Loads
  <2> QED
    BY <2>2, <1>a, <1>b, <1>c, <1>d, <1>e, AtRecordKeeps
<1>2. CASE LoadState /\ Record \in outcomes
  <2>1. c' = [c EXCEPT !.pc = "offset", !.seq = state.seq, !.closed = state.closed,
                       !.ids = outcomes]
    BY <1>2 DEF LoadState
  <2>2. c' \in Loads /\ c'.pc = "offset"
    BY <2>1, <1>b, <1>e DEF Loads
  <2>3. Young => Remembered(committed + 1)
    BY <1>2, OutcomeIsRemembered
  <2> QED
    BY <2>2, <2>3, <1>a, <1>b, <1>d, AtRecordKeeps
<1>3. CASE LoadState /\ Record \notin outcomes
  <2>1. c' = [c EXCEPT !.pc = "apply", !.seq = state.seq, !.closed = state.closed,
                       !.ids = outcomes]
    BY <1>3 DEF LoadState
  <2>2. c' \in Loads /\ c'.pc = "apply" /\ c'.gen = c.gen
    BY <2>1, <1>b, <1>e DEF Loads
  <2>3. c.pc = "state"
    BY <1>3 DEF LoadState
  <2>4. Young /\ c.gen # meta.gen => Record.seq <= state.seq
    BY <2>3 DEF IInv, OldLoadIsStale
  <2> QED
    BY <2>2, <2>3, <2>4, <1>3, <1>a, <1>b, <1>c, AtRecordKeeps
<1> QED
  BY <1>1, <1>2, <1>3

(* An attempt that did nothing, or found its outcome there, or is given up. *)
LEMMA AttemptKeeps ==
    ASSUME IInv, CASConflict \/ ExhaustAttempts \/ CrashConsumer
                 \/ (CommitApply /\ Record \in outcomes)
    PROVE  IInv'
<1>a. /\ UNCHANGED <<source, redis, rebuilder, sess>>
      /\ committed' = committed /\ dlq' = dlq /\ c.pc # "idle"
  BY DEF CASConflict, ExhaustAttempts, CrashConsumer, CommitApply
<1>b. c \in Loads /\ committed < published
  BY <1>a DEF IInv, Typed, ConsumerTyped
<1>c. c.pc = "apply" => ~quarantine /\ ~(First /\ w.pc \in {"held", "fence", "swap"})
  BY FirstRebuildIsQuarantined DEF IInv, QuarantinedIsQuiet
<1>1. CASE CASConflict
  <2>1. c' = [c EXCEPT !.pc = "meta"] /\ c.pc = "apply"
    BY <1>1 DEF CASConflict
  <2>2. c' \in Loads /\ c'.pc = "meta"
    BY <2>1, <1>b DEF Loads
  <2> QED
    BY <2>1, <2>2, <1>a, <1>b, <1>c, AtRecordKeeps
<1>2. CASE ExhaustAttempts
  <2>1. c' = [c EXCEPT !.pc = "mark"] /\ c.pc \in {"meta", "state", "apply"}
    BY <1>2 DEF ExhaustAttempts
  <2>2. c' \in Loads /\ c'.pc = "mark"
    BY <2>1, <1>b DEF Loads
  <2>3. First /\ w.pc \in {"held", "fence", "swap"} => Record.seq <= w.resume
    BY <2>1, <1>c DEF IInv, SnapshotCovers
  <2> QED
    BY <2>2, <2>3, <1>a, <1>b, AtRecordKeeps
<1>3. CASE CrashConsumer
  <2>1. c' \in Loads /\ c'.pc = "idle"
    BY <1>3, NoLoadIsLoad DEF CrashConsumer, NoLoad
  <2> QED
    BY <2>1, <1>a, AtRecordKeeps
<1>4. CASE CommitApply /\ Record \in outcomes
  <2>1. c' = [c EXCEPT !.pc = "offset"] /\ c.pc = "apply"
    BY <1>4 DEF CommitApply
  <2>2. c' \in Loads /\ c'.pc = "offset"
    BY <2>1, <1>b DEF Loads
  <2>3. Young => Remembered(committed + 1)
    BY <1>4, OutcomeIsRemembered
  <2> QED
    BY <2>1, <2>2, <2>3, <1>a, <1>b, <1>c, AtRecordKeeps
<1> QED
  BY <1>1, <1>2, <1>3, <1>4

LEMMA PublishDLQKeeps ==
    ASSUME IInv, PublishDLQ
    PROVE  IInv'
<1>a. /\ UNCHANGED <<source, redis, rebuilder, sess>>
      /\ committed' = committed /\ dlq' = dlq \cup {Record}
      /\ c.pc = "dlq" /\ c' = [c EXCEPT !.pc = "offset"]
  BY DEF PublishDLQ
<1>b. c \in Loads /\ committed < published /\ dlq \subseteq Range(feed)
  BY <1>a DEF IInv, Typed, ConsumerTyped
<1>c. /\ meta' = meta /\ state' = state /\ outcomes' = outcomes /\ quarantine' = quarantine
      /\ feed' = feed /\ roomSeq' = roomSeq /\ published' = published /\ w' = w
  BY <1>a DEF redis, source, rebuilder
<1>d. c' \in Loads /\ c'.pc = "offset"
  BY <1>a, <1>b DEF Loads
<1>e. Record' = Record /\ Record = feed[committed + 1] /\ Record \in dlq'
  BY <1>a, <1>c DEF Record
<1>1. ConsumerTyped'
  <2>1. dlq' \subseteq Range(feed)
    BY <1>a, <1>b, RecordAtHand DEF IInv
  <2> QED
    BY <2>1, <1>a, <1>b, <1>c, <1>d DEF IInv, Typed, ConsumerTyped, Loads
<1>2. QuarantinedIsQuiet' /\ OldLoadIsStale'
  BY <1>d DEF QuarantinedIsQuiet, OldLoadIsStale
<1>3. SnapshotCovers'
  BY <1>a, <1>c, <1>d, <1>e DEF IInv, SnapshotCovers, First
<1>4. CommittedIsRemembered'
  BY <1>a, <1>c, <1>e DEF IInv, CommittedIsRemembered, Remembered, Young
<1> QED
  BY <1>a, <1>1, <1>2, <1>3, <1>4, ConsumerKeeps

LEMMA CommitOffsetKeeps ==
    ASSUME IInv, CommitOffset
    PROVE  IInv'
<1>a. /\ UNCHANGED <<source, redis, rebuilder, sess>>
      /\ committed' = committed + 1 /\ dlq' = dlq /\ c.pc = "offset" /\ c' = NoLoad
  BY DEF CommitOffset, OffsetReady
<1>b. committed < published /\ committed \in Nat /\ published \in Nat /\ dlq \subseteq Range(feed)
  BY <1>a DEF IInv, Typed, ConsumerTyped, RoomTyped
<1>c. /\ meta' = meta /\ state' = state /\ outcomes' = outcomes /\ quarantine' = quarantine
      /\ feed' = feed /\ roomSeq' = roomSeq /\ published' = published /\ w' = w
  BY <1>a DEF redis, source, rebuilder
<1>d. c' \in Loads /\ c'.pc = "idle"
  BY <1>a, NoLoadIsLoad DEF NoLoad
<1>1. ConsumerTyped'
  BY <1>a, <1>b, <1>c, <1>d DEF ConsumerTyped, Loads
<1>2. QuarantinedIsQuiet' /\ OldLoadIsStale'
  BY <1>d DEF QuarantinedIsQuiet, OldLoadIsStale
<1>3. SnapshotCovers'
  <2> SUFFICES ASSUME First, w.pc \in {"held", "fence", "swap"}, NEW i \in 1 .. committed + 1
               PROVE  feed[i].seq <= w.resume \/ feed[i] \in dlq
    BY <1>a, <1>c, <1>d DEF SnapshotCovers, First
  <2>1. i \in 1 .. committed \/ i = committed + 1
    BY <1>b
  <2> QED
    BY <2>1, <1>a DEF IInv, SnapshotCovers, Record
<1>4. CommittedIsRemembered'
  <2> SUFFICES ASSUME Young, NEW i \in 1 .. committed + 1
               PROVE  Remembered(i)
    BY <1>a, <1>c, <1>d DEF CommittedIsRemembered, Young, Remembered
  <2>1. i \in 1 .. committed \/ i = committed + 1
    BY <1>b
  <2> QED
    BY <2>1, <1>a DEF IInv, CommittedIsRemembered
<1> QED
  BY <1>a, <1>1, <1>2, <1>3, <1>4, ConsumerKeeps

-----------------------------------------------------------------------------
(* The consumer writes the store.                                          *)

LEMMA PersistKeeps ==
    ASSUME IInv, PersistQuarantine
    PROVE  IInv'
<1>a. /\ UNCHANGED <<source, rebuilder, sess>> /\ committed' = committed /\ dlq' = dlq
      /\ meta' = meta /\ state' = state /\ outcomes' = outcomes /\ streams' = streams
      /\ done' = done /\ quarantine' = TRUE
      /\ c.pc = "mark" /\ c' = [c EXCEPT !.pc = "dlq"]
  BY DEF PersistQuarantine, MarkRoom
<1>b. /\ feed' = feed /\ roomSeq' = roomSeq /\ published' = published
      /\ asked' = asked /\ w' = w /\ answered' = answered /\ refused' = refused /\ sess' = sess
  BY <1>a DEF source, rebuilder
<1>c. c \in Loads /\ committed < published
  BY <1>a DEF IInv, Typed, ConsumerTyped
<1>d. c' \in Loads /\ c'.pc = "dlq"
  BY <1>a, <1>c DEF Loads
<1>1. RoomTyped' /\ RedisTyped'
  BY <1>a, <1>b DEF IInv, Typed, RoomTyped, RedisTyped
<1>2. ConsumerTyped'
  BY <1>a, <1>b, <1>c, <1>d DEF IInv, Typed, ConsumerTyped, Loads
<1>3. RebuilderTyped'
  BY <1>a, <1>b DEF IInv, Typed, RebuilderTyped, Works, Contiguous, Seqs
<1>4. QuarantinedIsQuiet' /\ AskedIsQuarantined' /\ OldLoadIsStale' /\ OutcomesAreProjected'
  BY <1>a, <1>d DEF QuarantinedIsQuiet, AskedIsQuarantined, OldLoadIsStale,
     OutcomesAreProjected
<1>5. SnapshotCovers'
  BY <1>a, <1>b, <1>d DEF IInv, SnapshotCovers, First
<1>6. CommittedIsRemembered'
  BY <1>a, <1>d DEF CommittedIsRemembered, Remembered
<1>7. StreamsFollow' /\ NotYetWritten' /\ EntriesAreProjected'
  BY <1>a DEF IInv, StreamsFollow, NotYetWritten, EntriesAreProjected, Young, First,
     Followed, Entry
<1>8. SessionTyped' /\ ReaderIsCurrent'
  BY <1>a, <1>b DEF IInv, SessionTyped, Sessions, ReaderIsCurrent, Drained, Young
<1> QED
  BY <1>1, <1>2, <1>3, <1>4, <1>5, <1>6, <1>7, <1>8 DEF IInv, Typed

\* The outcome of the record is stored, and the consumer goes on at p.
StoresAs(out, p) ==
    /\ UNCHANGED <<source, rebuilder, sess>> /\ committed' = committed /\ dlq' = dlq
    /\ c.pc = "apply" /\ Fenced /\ Record \notin outcomes
    /\ out = ApplyOutcome(c.seq, Record) /\ Store(out)
    /\ c' = [c EXCEPT !.pc = p]

(* What holds of every store of an outcome.                                *)
LEMMA StoreBasics ==
    ASSUME IInv, NEW out, NEW p, StoresAs(out, p), p \in {"offset", "dlq", "meta"}
    PROVE  /\ RoomTyped' /\ RebuilderTyped' /\ AskedIsQuarantined' /\ SnapshotCovers'
           /\ ConsumerTyped' /\ OldLoadIsStale'
           /\ outcomes' \subseteq Range(feed')
           /\ c'.pc = p /\ feed' = feed /\ committed' = committed /\ dlq' = dlq
           /\ sess' = sess /\ done' = done /\ meta' \in [rev : Nat, gen : Nat]
           /\ meta'.gen = meta.gen /\ outcomes' = outcomes \cup {Record} /\ Record' = Record
           /\ ~quarantine /\ c.seq = state.seq /\ state.seq \in 0 .. LastSeq
           /\ Record \in Records /\ Record.seq \in 1 .. LastSeq
<1>a. /\ feed' = feed /\ roomSeq' = roomSeq /\ published' = published
      /\ asked' = asked /\ w' = w /\ answered' = answered /\ refused' = refused /\ sess' = sess
      /\ committed' = committed /\ dlq' = dlq /\ c.pc = "apply" /\ c' = [c EXCEPT !.pc = p]
      /\ outcomes' = outcomes \cup {Record} /\ done' = done
      /\ meta' = [meta EXCEPT !.rev = c.rev + 1]
      /\ meta.rev = c.rev /\ state.seq = c.seq
  BY DEF StoresAs, Store, Fenced, source, rebuilder
<1>b. c \in Loads /\ committed < published /\ ~quarantine
  BY <1>a DEF IInv, Typed, ConsumerTyped, QuarantinedIsQuiet
<1>c. c' \in Loads /\ c'.pc = p
  BY <1>a, <1>b DEF Loads
<1>d. Record \in Records /\ Record \in Range(feed) /\ Record.seq \in 1 .. LastSeq
  BY <1>a, RecordAtHand DEF IInv
<1>e. meta' \in [rev : Nat, gen : Nat] /\ meta'.gen = meta.gen /\ Record' = Record
  BY <1>a, <1>b DEF IInv, Typed, RedisTyped, Loads, Record
<1>f. ~(First /\ w.pc \in {"held", "fence", "swap"})
  BY <1>b, FirstRebuildIsQuarantined
<1>g. First => asked = 0
  BY <1>b DEF IInv, AskedIsQuarantined, Typed, RebuilderTyped
<1>1. RoomTyped'
  BY <1>a DEF IInv, Typed, RoomTyped
<1>2. RebuilderTyped'
  BY <1>a, <1>e DEF IInv, Typed, RebuilderTyped, Works, Contiguous, Seqs
<1>3. AskedIsQuarantined' /\ SnapshotCovers'
  BY <1>a, <1>e, <1>f, <1>g DEF AskedIsQuarantined, SnapshotCovers, First
<1>4. ConsumerTyped' /\ OldLoadIsStale'
  BY <1>a, <1>b, <1>c, <1>e DEF IInv, Typed, ConsumerTyped, Loads, OldLoadIsStale
<1>5. outcomes' \subseteq Range(feed')
  BY <1>a, <1>d DEF IInv, Typed, RedisTyped
<1>6. state.seq \in 0 .. LastSeq
  BY DEF IInv, Typed, RedisTyped
<1> QED
  BY <1>a, <1>b, <1>c, <1>d, <1>e, <1>1, <1>2, <1>3, <1>4, <1>5, <1>6

(* What the domain makes of an event.                                      *)
LEMMA OutcomeOf ==
    ASSUME NEW n \in Nat, NEW r \in Records
    PROVE  LET out == ApplyOutcome(n, r)
           IN  /\ out \in {"dropped", "ignored", "accepted", "quarantined"}
               /\ out = "accepted" => r.seq = n + 1
               /\ out = "ignored" => r.seq <= n
<1>1. r.seq \in Nat
  BY SpectatorAssumption DEF Records
<1> QED
  BY <1>1 DEF ApplyOutcome

(* An event that is not accepted: the projection has it, or the room is    *)
(* quarantined from now on.                                                *)
LEMMA NotAcceptedKeeps ==
    ASSUME IInv, NEW out, NEW p, StoresAs(out, p), out # "accepted",
           p \in {"dlq", "meta"} \/ (p = "offset" /\ out = "ignored")
    PROVE  IInv'
<1>a. state' = state /\ streams' = streams
      /\ quarantine' = (quarantine \/ out \in {"quarantined", "dropped"})
  BY DEF StoresAs, Store
<1>b. out \in {"dropped", "ignored", "quarantined"} /\ (out = "ignored" => Record.seq <= state.seq)
  BY StoreBasics, OutcomeOf, SpectatorAssumption DEF StoresAs
<1>c. Record.seq <= state.seq \/ quarantine'
  BY <1>a, <1>b
<1>1. RedisTyped'
  BY <1>a, StoreBasics DEF IInv, Typed, RedisTyped
<1>2. QuarantinedIsQuiet'
  BY StoreBasics DEF QuarantinedIsQuiet
<1>3. OutcomesAreProjected'
  BY <1>a, <1>c, StoreBasics DEF IInv, OutcomesAreProjected, Young
<1>4. CommittedIsRemembered'
  <2>1. p = "offset" => Record.seq <= state.seq
    BY <1>b
  <2>2. Record = feed[committed + 1]
    BY DEF Record
  <2> QED
    BY <2>1, <2>2, <1>a, StoreBasics DEF IInv, CommittedIsRemembered, Remembered, Young
<1>5. StreamsFollow' /\ NotYetWritten' /\ EntriesAreProjected'
  BY <1>a, StoreBasics DEF IInv, StreamsFollow, NotYetWritten, EntriesAreProjected, Young,
     First, Followed, Entry
<1>6. SessionTyped' /\ ReaderIsCurrent'
  BY <1>a, StoreBasics DEF IInv, SessionTyped, Sessions, ReaderIsCurrent, Drained, Young
<1> QED
  BY <1>1, <1>2, <1>3, <1>4, <1>5, <1>6, StoreBasics DEF IInv, Typed

(* An accepted event is the next one: it extends the current stream, for a *)
(* load of an older generation has nothing new.                            *)
LEMMA AcceptedKeeps ==
    ASSUME IInv, NEW p, StoresAs("accepted", p), p \in {"offset", "meta"}
    PROVE  IInv'
<1> DEFINE e == Entry(state')
<1>a. /\ state' = Applied(c, Record) /\ quarantine' = quarantine
      /\ streams' = [streams EXCEPT ![c.gen] = Append(@, e)]
  <2>1. /\ state' = Applied(c, Record)
        /\ streams' = [streams EXCEPT ![c.gen] = Append(@, Entry(Applied(c, Record)))]
    BY DEF StoresAs, Store
  <2>2. quarantine' = quarantine
    BY StoreBasics DEF IInv, Typed, RedisTyped, StoresAs, Store
  <2> QED
    BY <2>1, <2>2
<1>b. state'.seq = Record.seq /\ Record.seq = state.seq + 1
  <2>1. c.seq = state.seq /\ c.seq \in Nat /\ Record \in Records
    BY StoreBasics, SpectatorAssumption
  <2>2. ApplyOutcome(c.seq, Record) = "accepted"
    BY DEF StoresAs
  <2>3. Record.seq = c.seq + 1
    BY ONLY <2>1, <2>2, OutcomeOf
  <2>4. state'.seq = Record.seq
    BY ONLY <1>a DEF Applied
  <2> QED
    BY ONLY <2>1, <2>3, <2>4
<1>c. state' \in [seq : 0 .. LastSeq, over : BOOLEAN, closed : BOOLEAN]
  <2>1. c.closed \in BOOLEAN
    BY DEF IInv, Typed, ConsumerTyped, Loads
  <2>2. Record.seq \in 0 .. LastSeq /\ (Record.kind = "terminal") \in BOOLEAN
    BY StoreBasics
  <2> QED
    BY <2>1, <2>2, <1>a DEF Applied
<1>d. e \in Entries /\ e.seq = state.seq + 1 /\ e.seq = state'.seq
  BY <1>b, <1>c DEF Entry, Entries
<1>e. c.gen \in 1 .. meta.gen /\ c.gen \in Generation
  <2>1. c.gen \in 1 .. meta.gen
    BY DEF IInv, Typed, ConsumerTyped, StoresAs
  <2> QED
    BY <2>1, GenerationInRange DEF IInv, Typed
<1>f. Young => c.gen = meta.gen
  BY <1>b, StoreBasics DEF IInv, OldLoadIsStale, StoresAs
<1> HIDE DEF e
<1>g. /\ streams \in [Generation -> Seq(Entries)]
      /\ streams'[c.gen] = Append(streams[c.gen], e)
      /\ \A g \in Generation : g # c.gen => streams'[g] = streams[g]
  BY <1>a, <1>e DEF IInv, Typed, RedisTyped
<1>h. /\ Len(streams'[c.gen]) = Len(streams[c.gen]) + 1
      /\ streams'[c.gen][Len(streams[c.gen]) + 1] = e
      /\ \A i \in 1 .. Len(streams[c.gen]) : streams'[c.gen][i] = streams[c.gen][i]
      /\ Len(streams[c.gen]) \in Nat
  <2>1. streams[c.gen] \in Seq(Entries)
    BY <1>g, <1>e
  <2> QED
    BY <2>1, <1>d, <1>g
<1>1. RedisTyped'
  <2>1. streams' \in [Generation -> Seq(Entries)]
    BY <1>a, <1>d, <1>g
  <2> QED
    BY <2>1, <1>a, <1>c, StoreBasics DEF IInv, Typed, RedisTyped
<1>2. QuarantinedIsQuiet'
  BY <1>a, StoreBasics DEF QuarantinedIsQuiet
<1>3. OutcomesAreProjected'
  <2> SUFFICES ASSUME Young, NEW r \in outcomes'
               PROVE  r.seq <= state'.seq
    BY StoreBasics DEF OutcomesAreProjected, Young
  <2>1. CASE r = Record
    BY <2>1, <1>b, StoreBasics
  <2>2. CASE r \in outcomes
    <3>1. r.seq <= state.seq
      BY <2>2, StoreBasics DEF IInv, OutcomesAreProjected
    <3>2. r.seq \in Nat
      BY <2>2, RecordsAreTyped, SpectatorAssumption
      DEF IInv, Typed, RedisTyped, RoomTyped, Records
    <3> QED
      BY <3>1, <3>2, <1>b, StoreBasics
  <2> QED
    BY <2>1, <2>2, StoreBasics
<1>4. CommittedIsRemembered'
  <2>1. ASSUME Young, NEW i \in 1 .. committed PROVE feed[i].seq <= state'.seq \/ feed[i] \in dlq
    <3>1. feed[i].seq <= state.seq \/ feed[i] \in dlq
      BY <2>1, StoreBasics DEF IInv, CommittedIsRemembered, Remembered
    <3>2. feed[i].seq \in Nat
      BY RecordsAreTyped, SpectatorAssumption
      DEF IInv, Typed, ConsumerTyped, RoomTyped, Records
    <3> QED
      BY <3>1, <3>2, <1>b, StoreBasics
  <2>2. feed[committed + 1].seq <= state'.seq
    BY <1>b, StoreBasics DEF Record
  <2> QED
    BY <2>1, <2>2, StoreBasics DEF CommittedIsRemembered, Remembered, Young
<1>5. StreamsFollow'
  <2> SUFFICES ASSUME Young
               PROVE  /\ Followed'
                      /\ \A g \in Generation : \A i \in 1 .. Len(streams'[g]) - 1 :
                            streams'[g][i + 1].seq = streams'[g][i].seq + 1
    BY StoreBasics DEF StreamsFollow, Young
  <2>1. Followed'
    <3>1. streams'[meta'.gen] = Append(streams[c.gen], e)
      BY <1>f, <1>g, StoreBasics
    <3>2. Last(streams'[meta'.gen]) = e /\ streams'[meta'.gen] # << >>
      BY <3>1, <1>f, <1>h, StoreBasics DEF Last
    <3> QED
      BY <3>2 DEF Followed, e
  <2>2. ASSUME NEW g \in Generation, NEW i \in 1 .. Len(streams'[g]) - 1
        PROVE  streams'[g][i + 1].seq = streams'[g][i].seq + 1
    <3>1. CASE g # c.gen
      BY <3>1, <2>2, <1>g DEF IInv, StreamsFollow
    <3>2. CASE g = c.gen /\ i < Len(streams[c.gen])
      <4>1. i \in 1 .. Len(streams[c.gen]) - 1 /\ i + 1 \in 1 .. Len(streams[c.gen])
            /\ i \in 1 .. Len(streams[c.gen])
        BY <3>2, <1>h
      <4> QED
        BY <4>1, <3>2, <1>h DEF IInv, StreamsFollow
    <3>3. CASE g = c.gen /\ i = Len(streams[c.gen])
      <4>1. streams[meta.gen] # << >> /\ i \in 1 .. Len(streams[c.gen])
        BY <3>3, <1>f, <1>h
      <4>2. streams[c.gen][i].seq = state.seq
        BY <4>1, <3>3, <1>f, CurrentStream
      <4> QED
        BY <4>1, <4>2, <3>3, <1>d, <1>h
    <3> QED
      BY <3>1, <3>2, <3>3, <1>h
  <2> QED
    BY <2>1, <2>2
<1>6. NotYetWritten'
  <2>1. First => c.gen = 1
    BY <1>e DEF First
  <2> QED
    BY <2>1, <1>g, StoreBasics DEF IInv, NotYetWritten, First
<1>7. EntriesAreProjected'
  <2> SUFFICES ASSUME NEW g \in Generation, NEW i \in 1 .. Len(streams'[g])
               PROVE  streams'[g][i].seq <= state'.seq
    BY DEF EntriesAreProjected
  <2>1. CASE i \in 1 .. Len(streams[g]) /\ streams'[g][i] = streams[g][i]
    <3>1. streams[g][i] \in Entries
      BY <2>1, <1>g
    <3>2. streams[g][i].seq \in Nat
      BY <3>1, SpectatorAssumption DEF Entries
    <3>3. streams[g][i].seq <= state.seq
      BY <2>1 DEF IInv, EntriesAreProjected
    <3> QED
      BY <2>1, <3>2, <3>3, <1>b, StoreBasics
  <2>2. CASE g = c.gen /\ i = Len(streams[c.gen]) + 1
    BY <2>2, <1>d, <1>h, <1>b, StoreBasics
  <2>3. CASE g # c.gen
    BY <2>1, <2>3, <1>g
  <2>4. CASE g = c.gen /\ i # Len(streams[c.gen]) + 1
    <3>1. i \in 1 .. Len(streams[c.gen])
      BY <2>4, <1>h
    <3> QED
      BY <3>1, <2>1, <2>4, <1>h
  <2> QED
    BY <2>2, <2>3, <2>4
<1>8. SessionTyped' /\ ReaderIsCurrent'
  <2>1. sess.pc \in {"snapshot", "label", "open"} =>
           /\ sess.gen \in Generation /\ Len(streams[sess.gen]) \in Nat
           /\ Len(streams'[sess.gen]) >= Len(streams[sess.gen])
           /\ sess.pos \in Nat /\ sess.pos <= Len(streams[sess.gen])
    BY SessionStream, <1>g, <1>h DEF IInv, SessionTyped, Sessions
  <2>2. sess.mark \in Nat /\ sess.shown \in Nat /\ state'.seq >= state.seq
    BY <1>b, StoreBasics, SpectatorAssumption DEF IInv, SessionTyped, Sessions
  <2>a. /\ sess \in Sessions /\ sess.gen <= meta.gen /\ sess.mark <= state.seq
        /\ sess.pc \in {"snapshot", "label", "open"} => sess.gen >= 1
        /\ sess.pc \in {"snapshot", "label"} => sess.pos = 0
        /\ sess.pc \in {"off", "open"} => sess.shown <= sess.mark
        /\ sess.pc = "label" => sess.shown <= state.seq
    BY DEF IInv, SessionTyped
  <2>b. sess' = sess /\ meta'.gen = meta.gen /\ state.seq \in Nat /\ state'.seq \in Nat
    BY <1>b, StoreBasics
  <2>3. SessionTyped'
    BY <2>1, <2>2, <2>a, <2>b DEF SessionTyped, Sessions
  <2>4. ReaderIsCurrent'
    <3> SUFFICES ASSUME Young, sess.pc = "open", sess.gen = meta.gen,
                        sess.pos = Len(streams'[sess.gen])
                 PROVE  FALSE
      BY <2>b DEF ReaderIsCurrent, Young, Drained
    <3> QED
      BY <2>1, <1>f, <1>h
  <2> QED
    BY <2>3, <2>4
<1> QED
  BY <1>1, <1>2, <1>3, <1>4, <1>5, <1>6, <1>7, <1>8, StoreBasics DEF IInv, Typed

(* The script with its reply, and without.                                 *)
LEMMA ApplyKeeps ==
    ASSUME IInv, CommitApply \/ LoseApplyReply
    PROVE  IInv'
<1> DEFINE out == ApplyOutcome(c.seq, Record)
<1>1. CASE CommitApply /\ Record \in outcomes
  BY <1>1, AttemptKeeps
<1>2. CASE CommitApply /\ Record \notin outcomes
  <2>1. StoresAs(out, After(out))
    BY <1>2 DEF CommitApply, StoresAs
  <2>2. out \in {"dropped", "ignored", "accepted", "quarantined"}
    <3>1. c.pc # "idle"
      BY <1>2 DEF CommitApply
    <3>2. Record \in Records /\ c.seq \in Nat
      BY <3>1, RecordAtHand, SpectatorAssumption DEF IInv, Typed, ConsumerTyped, Loads
    <3> QED
      BY <3>2, OutcomeOf
  <2> HIDE DEF out
  <2>3. After(out) \in {"offset", "dlq"} /\ (After(out) = "offset" <=> out \in {"accepted", "ignored"})
    BY DEF After
  <2>4. CASE out = "accepted"
    BY <2>1, <2>3, <2>4, AcceptedKeeps
  <2>5. CASE out # "accepted"
    BY <2>1, <2>2, <2>3, <2>5, NotAcceptedKeeps
  <2> QED
    BY <2>4, <2>5
<1>3. CASE LoseApplyReply
  <2>1. StoresAs(out, "meta")
    BY <1>3 DEF LoseApplyReply, StoresAs
  <2> HIDE DEF out
  <2>2. CASE out = "accepted"
    BY <2>1, <2>2, AcceptedKeeps
  <2>3. CASE out # "accepted"
    BY <2>1, <2>3, NotAcceptedKeeps
  <2> QED
    BY <2>2, <2>3
<1> QED
  BY <1>1, <1>2, <1>3

-----------------------------------------------------------------------------
(* The swap.                                                               *)

\* The rebuilt projection replaces the one the fence was read from.
Swaps ==
    /\ UNCHANGED <<source, consumer, asked, answered, refused, sess>>
    /\ w.pc = "swap" /\ SwapVerdict = "ok" /\ Rebuilt.seq >= w.seq /\ Replace
    /\ w' \in {[w EXCEPT !.pc = "offset"], [NoJob EXCEPT !.pc = "snapshot"]}

(* The fence holds: it is the generation and the sequence that were read.  *)
LEMMA FenceHolds ==
    ASSUME IInv, w.pc = "swap", SwapVerdict = "ok"
    PROVE  CurrentJob \notin done /\ state.seq = w.seq /\ meta.gen = w.gen
<1>1. CurrentJob \notin done
  BY DEF SwapVerdict
<1>2. ~(state.seq > w.seq)
  BY <1>1 DEF SwapVerdict
<1>3. state.seq \in Nat /\ w.seq \in Nat
  BY SpectatorAssumption DEF IInv, Typed, RedisTyped, RebuilderTyped, Works
<1>4. <<state.seq, meta.gen>> = <<w.seq, w.gen>>
  BY <1>1, <1>2, <1>3 DEF SwapVerdict
<1> QED
  BY <1>1, <1>4

(* The rebuilt projection is in range, past the snapshot and past the old. *)
LEMMA RebuiltIsTyped ==
    ASSUME IInv, Swaps
    PROVE  /\ Rebuilt \in [seq : 0 .. LastSeq, over : BOOLEAN, closed : BOOLEAN]
           /\ Rebuilt.seq \in Nat /\ Rebuilt.seq >= w.resume /\ Rebuilt.seq >= state.seq
           /\ w.resume \in Nat /\ w.held \subseteq Range(feed)
           /\ \A r \in w.held : r.seq <= Rebuilt.seq
<1>1. w.pc = "swap" /\ Rebuilt.seq >= w.seq /\ state.seq = w.seq
  BY FenceHolds DEF Swaps
<1>2. w.over \in BOOLEAN /\ w.resume \in Nat /\ w.held \subseteq Range(feed)
  BY SpectatorAssumption DEF IInv, Typed, RebuilderTyped, Works
<1>3. /\ Cardinality(w.held) \in Nat /\ w.resume + Cardinality(w.held) \in 0 .. LastSeq
      /\ \A r \in w.held : r.seq <= w.resume + Cardinality(w.held)
  BY <1>1, HeldIsInRange DEF IInv
<1>4. Rebuilt.seq = w.resume + Cardinality(w.held)
  BY DEF Rebuilt
<1>5. Rebuilt \in [seq : 0 .. LastSeq, over : BOOLEAN, closed : BOOLEAN]
  <2>1. (\E r \in w.held : r.kind = "terminal") \in BOOLEAN
    OBVIOUS
  <2> QED
    BY <2>1, <1>2, <1>3 DEF Rebuilt
<1>6. Rebuilt.seq >= w.resume /\ Rebuilt.seq \in Nat
  BY <1>2, <1>3, <1>4, SpectatorAssumption
<1> QED
  BY <1>1, <1>2, <1>3, <1>4, <1>5, <1>6

(* After a first swap everything the consumer has is in the new projection *)
(* or in the dead-letter topic, and its load is of an older generation.    *)
LEMMA SwapKeeps ==
    ASSUME IInv, Swaps
    PROVE  IInv'
<1> DEFINE g2 == meta.gen + 1
           e == Entry(Rebuilt)
<1>a. /\ feed' = feed /\ roomSeq' = roomSeq /\ published' = published
      /\ dlq' = dlq /\ committed' = committed /\ c' = c
      /\ asked' = asked /\ answered' = answered /\ refused' = refused /\ sess' = sess
  BY DEF Swaps, source, consumer
<1>b. CurrentJob \notin done /\ state.seq = w.seq /\ meta.gen = w.gen /\ w.pc = "swap"
  BY FenceHolds DEF Swaps
<1>c. /\ meta' = [rev |-> 1, gen |-> g2] /\ state' = Rebuilt /\ outcomes' = w.held
      /\ streams' = [streams EXCEPT ![g2] = Append(@, e)]
      /\ quarantine' = FALSE /\ done' = done \cup {CurrentJob}
  BY <1>b DEF Swaps, Replace
<1>d. meta'.gen = g2 /\ meta'.gen # 1 /\ meta.gen \in Nat /\ meta.gen \in Generation
      /\ ~First' /\ g2 \in Nat
  BY <1>c, GenerationInRange DEF IInv, Typed, First, Generation, RedisTyped
<1>e. Young' => First
  BY <1>c, <1>d DEF IInv, Typed, RedisTyped, Young, First
<1>f. CurrentJob \in Job
  BY <1>b, RequestAtHand DEF IInv
<1>g. IsFiniteSet(done') /\ Cardinality(done') = Cardinality(done) + 1 /\ done' \subseteq Job
      /\ g2 = Cardinality(done') + 1 /\ g2 \in Generation
  <2>1. IsFiniteSet(done) /\ Cardinality(done) \in Nat /\ Cardinality(done) = meta.gen - 1
    BY GenerationInRange DEF IInv, Typed
  <2>2. done' \subseteq Job
    BY <1>c, <1>f DEF IInv, Typed, RedisTyped
  <2>3. IsFiniteSet(done') /\ Cardinality(done') = Cardinality(done) + 1
    BY <2>1, <1>b, <1>c, FS_AddElement
  <2>4. Cardinality(done') <= Cardinality(Job)
    BY <2>2, JobsAreFew, FS_Subset
  <2>5. g2 \in Generation
    BY <2>1, <2>3, <2>4, <1>d, JobsAreFew DEF Generation
  <2> QED
    BY <2>1, <2>2, <2>3, <2>5, <1>d
<1>h. e \in Entries /\ e.seq = Rebuilt.seq
  BY RebuiltIsTyped DEF Entry, Entries
<1> HIDE DEF e
<1>i. /\ streams \in [Generation -> Seq(Entries)]
      /\ streams'[g2] = Append(streams[g2], e)
      /\ \A g \in Generation : g # g2 => streams'[g] = streams[g]
  BY <1>c, <1>g DEF IInv, Typed, RedisTyped
<1>j. /\ Len(streams'[g2]) = Len(streams[g2]) + 1
      /\ streams'[g2][Len(streams[g2]) + 1] = e
      /\ \A i \in 1 .. Len(streams[g2]) : streams'[g2][i] = streams[g2][i]
      /\ Len(streams[g2]) \in Nat
  <2>1. streams[g2] \in Seq(Entries)
    BY <1>i, <1>g
  <2> QED
    BY <2>1, <1>h, <1>i
<1>k. First => streams[g2] = << >>
  BY <1>d, <1>g DEF IInv, NotYetWritten
<1>1. RoomTyped'
  BY <1>a DEF IInv, Typed, RoomTyped
<1>2. RedisTyped'
  <2>1. streams' \in [Generation -> Seq(Entries)]
    BY <1>c, <1>h, <1>i
  <2>2. meta' \in [rev : Nat, gen : Nat]
    BY <1>c, <1>d
  <2> QED
    BY <2>1, <2>2, <1>a, <1>c, <1>d, <1>g, RebuiltIsTyped DEF RedisTyped
<1>3. ConsumerTyped'
  BY <1>a, <1>c, <1>d DEF IInv, Typed, ConsumerTyped, Loads
<1>4. RebuilderTyped'
  <2>1. /\ asked \in Nat /\ asked <= Len(Requests) /\ answered \in Nat /\ answered < asked
        /\ answered <= asked /\ refused \subseteq Job /\ w \in Works
    BY <1>b DEF IInv, Typed, RebuilderTyped
  <2>2. w' \in Works /\ w'.pc \in {"offset", "snapshot"}
    BY <2>1, NoJobIsWork DEF Swaps, Works
  <2> QED
    BY <2>1, <2>2, <1>a DEF RebuilderTyped, Works
<1>5. QuarantinedIsQuiet' /\ AskedIsQuarantined' /\ SnapshotCovers' /\ NotYetWritten'
  BY <1>c, <1>d DEF QuarantinedIsQuiet, AskedIsQuarantined, SnapshotCovers, NotYetWritten
<1>6. OldLoadIsStale'
  <2> SUFFICES ASSUME Young', c.pc \in {"state", "apply"} PROVE Record.seq <= Rebuilt.seq
    BY <1>a, <1>c DEF OldLoadIsStale, Record
  <2>1. First /\ quarantine
    BY <1>b, <1>e, FirstRebuildIsQuarantined
  <2>2. c.pc = "state"
    BY <2>1 DEF IInv, QuarantinedIsQuiet
  <2>3. Record.seq <= w.resume /\ Record.seq \in Nat
    BY <2>1, <2>2, <1>b, RecordAtHand DEF IInv, SnapshotCovers
  <2> QED
    BY <2>3, RebuiltIsTyped
<1>7. OutcomesAreProjected'
  BY <1>c, RebuiltIsTyped DEF OutcomesAreProjected
<1>8. CommittedIsRemembered'
  <2> SUFFICES ASSUME Young'
               PROVE  /\ \A i \in 1 .. committed : feed[i].seq <= Rebuilt.seq \/ feed[i] \in dlq
                      /\ c.pc = "offset" => \/ feed[committed + 1].seq <= Rebuilt.seq
                                            \/ feed[committed + 1] \in dlq
    BY <1>a, <1>c DEF CommittedIsRemembered, Remembered
  <2>1. ASSUME NEW i \in 1 .. committed PROVE feed[i].seq <= Rebuilt.seq \/ feed[i] \in dlq
    <3>1. feed[i].seq <= w.resume \/ feed[i] \in dlq
      BY <1>b, <1>e DEF IInv, SnapshotCovers
    <3>2. feed[i].seq \in Nat
      BY RecordsAreTyped, SpectatorAssumption
      DEF IInv, Typed, ConsumerTyped, RoomTyped, Records
    <3> QED
      BY <3>1, <3>2, RebuiltIsTyped
  <2>2. ASSUME c.pc = "offset"
        PROVE  feed[committed + 1].seq <= Rebuilt.seq \/ feed[committed + 1] \in dlq
    <3>1. Record.seq <= w.resume \/ Record \in dlq
      BY <2>2, <1>b, <1>e DEF IInv, SnapshotCovers
    <3>2. Record.seq \in Nat /\ Record = feed[committed + 1]
      BY <2>2, RecordAtHand DEF IInv
    <3> QED
      BY <3>1, <3>2, RebuiltIsTyped
  <2> QED
    BY <2>1, <2>2
<1>9. StreamsFollow'
  <2> SUFFICES ASSUME Young'
               PROVE  /\ Followed'
                      /\ \A g \in Generation : \A i \in 1 .. Len(streams'[g]) - 1 :
                            streams'[g][i + 1].seq = streams'[g][i].seq + 1
    BY DEF StreamsFollow
  <2>1. First /\ Young
    BY <1>e, <1>d DEF First, Young
  <2>2. Len(streams'[g2]) = 1 /\ streams'[g2][1] = e
    BY <2>1, <1>j, <1>k
  <2>3. Followed'
    <3>1. Last(streams'[meta'.gen]) = e /\ streams'[meta'.gen] # << >>
      BY <2>2, <1>d DEF Last
    <3> QED
      BY <3>1, <1>c DEF Followed, e, Entry
  <2>4. ASSUME NEW g \in Generation, NEW i \in 1 .. Len(streams'[g]) - 1
        PROVE  streams'[g][i + 1].seq = streams'[g][i].seq + 1
    <3>1. g # g2
      <4> SUFFICES ASSUME g = g2 PROVE FALSE
        OBVIOUS
      <4>1. Len(streams'[g]) = 1
        BY <2>2
      <4>2. i \in 1 .. 0
        BY <4>1
      <4> QED
        BY <4>2
    <3>2. streams'[g] = streams[g]
      BY <3>1, <1>i
    <3> QED
      BY <3>2, <2>1 DEF IInv, StreamsFollow
  <2> QED
    BY <2>3, <2>4
<1>10. EntriesAreProjected'
  <2> SUFFICES ASSUME NEW g \in Generation, NEW i \in 1 .. Len(streams'[g])
               PROVE  streams'[g][i].seq <= Rebuilt.seq
    BY <1>c DEF EntriesAreProjected
  <2>1. CASE i \in 1 .. Len(streams[g]) /\ streams'[g][i] = streams[g][i]
    <3>1. streams[g][i] \in Entries
      BY <2>1, <1>i
    <3>2. streams[g][i].seq \in Nat /\ state.seq \in Nat
      BY <3>1, SpectatorAssumption DEF Entries, IInv, Typed, RedisTyped
    <3>3. streams[g][i].seq <= state.seq
      BY <2>1 DEF IInv, EntriesAreProjected
    <3> QED
      BY <2>1, <3>2, <3>3, RebuiltIsTyped
  <2>2. CASE g = g2 /\ i = Len(streams[g2]) + 1
    BY <2>2, <1>h, <1>j, RebuiltIsTyped
  <2>3. CASE g # g2
    BY <2>1, <2>3, <1>i
  <2>4. CASE g = g2 /\ i # Len(streams[g2]) + 1
    <3>1. i \in 1 .. Len(streams[g2])
      BY <2>4, <1>j
    <3> QED
      BY <3>1, <2>1, <2>4, <1>j
  <2> QED
    BY <2>2, <2>3, <2>4
<1>11. SessionTyped' /\ ReaderIsCurrent'
  <2>1. sess.pc \in {"snapshot", "label", "open"} =>
           /\ sess.gen \in Generation /\ Len(streams[sess.gen]) \in Nat
           /\ Len(streams'[sess.gen]) >= Len(streams[sess.gen])
           /\ sess.pos \in Nat /\ sess.pos <= Len(streams[sess.gen])
    BY SessionStream, <1>i, <1>j DEF IInv, SessionTyped, Sessions
  <2>2. sess.mark \in Nat /\ sess.shown \in Nat /\ state.seq \in Nat
        /\ state'.seq \in Nat /\ state'.seq >= state.seq
    BY <1>c, RebuiltIsTyped, SpectatorAssumption
    DEF IInv, SessionTyped, Sessions, Typed, RedisTyped
  <2>a. /\ sess \in Sessions /\ sess.gen <= meta.gen /\ sess.mark <= state.seq
        /\ sess.pc \in {"snapshot", "label", "open"} => sess.gen >= 1
        /\ sess.pc \in {"snapshot", "label"} => sess.pos = 0
        /\ sess.pc \in {"off", "open"} => sess.shown <= sess.mark
        /\ sess.pc = "label" => sess.shown <= state.seq
    BY DEF IInv, SessionTyped
  <2>b. sess' = sess /\ meta'.gen = meta.gen + 1 /\ sess.gen \in Nat
    BY <2>a, <1>a, <1>d DEF Sessions
  <2>3. SessionTyped'
    BY <2>1, <2>2, <2>a, <2>b, <1>d DEF SessionTyped, Sessions
  <2>4. ReaderIsCurrent'
    BY <2>a, <2>b, <1>d DEF ReaderIsCurrent
  <2> QED
    BY <2>3, <2>4
<1> QED
  BY <1>1, <1>2, <1>3, <1>4, <1>5, <1>6, <1>7, <1>8, <1>9, <1>10, <1>11 DEF IInv, Typed

(* The swap with its reply, and without; or the fence does not hold.       *)
LEMMA RebuildKeeps ==
    ASSUME IInv, Swap \/ LoseSwapReply
    PROVE  IInv'
<1>1. CASE LoseSwapReply
  <2>1. Swaps
    BY <1>1 DEF LoseSwapReply, Swaps, Usable
  <2> QED
    BY <2>1, SwapKeeps
<1>2. CASE Swap /\ Usable /\ SwapVerdict = "ok"
  <2>1. Swaps
    BY <1>2 DEF Swap, Swaps, Usable, AfterSwap
  <2> QED
    BY <2>1, SwapKeeps
<1>3. CASE Swap /\ ~(Usable /\ SwapVerdict = "ok")
  <2>1. /\ w.pc = "swap" /\ UNCHANGED <<source, redis, consumer, asked, answered, refused, sess>>
        /\ w' \in {[w EXCEPT !.pc = "refuse"], [w EXCEPT !.pc = "offset"]}
    BY <1>3 DEF Swap, AfterSwap
  <2> QED
    BY <2>1, RestOfRebuilderKeeps
<1> QED
  BY <1>1, <1>2, <1>3

-----------------------------------------------------------------------------
LEMMA InitEstablishes ==
    ASSUME ViewInit PROVE IInv
<1>1. /\ feed \in Feeds /\ roomSeq = 0 /\ published = 0 /\ meta = [rev |-> 0, gen |-> 1]
      /\ state = [seq |-> 0, over |-> FALSE, closed |-> FALSE]
      /\ outcomes = {} /\ streams = [g \in Generation |-> << >>] /\ quarantine = FALSE
      /\ done = {} /\ dlq = {} /\ committed = 0 /\ c = NoLoad
      /\ asked = 0 /\ answered = 0 /\ refused = {} /\ w = NoJob /\ sess = NoSession
  BY DEF ViewInit
<1>2. RoomTyped
  BY <1>1, RecordsAreTyped, SpectatorAssumption DEF RoomTyped
<1>3. RedisTyped
  <2>1. Cardinality(done) = 0
    BY <1>1, FS_EmptySet
  <2>2. << >> \in Seq(Entries)
    OBVIOUS
  <2>3. streams \in [Generation -> Seq(Entries)]
    BY <2>2, <1>1
  <2>4. /\ meta \in [rev : Nat, gen : Nat] /\ meta.gen = 1
        /\ state \in [seq : 0 .. LastSeq, over : BOOLEAN, closed : BOOLEAN]
    BY <1>1, SpectatorAssumption
  <2>5. done \subseteq Job /\ outcomes \subseteq Range(feed) /\ quarantine \in BOOLEAN
    BY <1>1
  <2> QED
    BY <2>1, <2>3, <2>4, <2>5 DEF RedisTyped
<1>4. ConsumerTyped
  BY <1>1, NoLoadIsLoad DEF ConsumerTyped, NoLoad
<1>5. RebuilderTyped
  BY <1>1, NoJobIsWork, JobsAreFew DEF RebuilderTyped, NoJob
<1>6. QuarantinedIsQuiet /\ AskedIsQuarantined /\ OldLoadIsStale /\ OutcomesAreProjected
  BY <1>1 DEF QuarantinedIsQuiet, AskedIsQuarantined, OldLoadIsStale, OutcomesAreProjected,
     NoLoad
<1>7. SnapshotCovers /\ CommittedIsRemembered
  BY <1>1 DEF SnapshotCovers, CommittedIsRemembered, NoLoad, NoJob
<1>8. StreamsFollow /\ NotYetWritten /\ EntriesAreProjected
  <2>1. 1 \in Generation
    BY JobsAreFew DEF Generation
  <2> QED
    BY <2>1, <1>1 DEF StreamsFollow, NotYetWritten, EntriesAreProjected, Followed
<1>9. SessionTyped /\ ReaderIsCurrent
  BY <1>1, SpectatorAssumption DEF SessionTyped, Sessions, ReaderIsCurrent, NoSession
<1> QED
  BY <1>2, <1>3, <1>4, <1>5, <1>6, <1>7, <1>8, <1>9 DEF IInv, Typed

LEMMA StutterKeeps ==
    ASSUME IInv, UNCHANGED viewVars PROVE IInv'
<1>1. UNCHANGED others /\ sess' = sess
  BY DEF viewVars, others
<1>2. meta' = meta /\ state' = state /\ streams' = streams
  BY <1>1 DEF others, redis
<1>3. SessionTyped' /\ ReaderIsCurrent'
  BY <1>1, <1>2 DEF IInv, SessionTyped, Sessions, ReaderIsCurrent, Drained, Young
<1> QED
  BY <1>1, <1>3, SpectatorKeeps

LEMMA StepKeeps ==
    ASSUME IInv, [ViewNext]_viewVars PROVE IInv'
<1>1. CASE RoomCommits \/ Publish
  BY <1>1, SourceKeeps
<1>2. CASE ConsumerStep
  BY <1>2, TakeKeeps, LoadKeeps, ApplyKeeps, AttemptKeeps, PersistKeeps, PublishDLQKeeps,
     CommitOffsetKeeps DEF ConsumerStep
<1>3. CASE RequestRebuild
  BY <1>3, RequestKeeps
<1>4. CASE RebuilderStep
  BY <1>4, RestOfRebuilderKeeps, FetchKeeps, ScanKeeps, FenceKeeps, RebuildKeeps
  DEF RebuilderStep
<1>5. CASE Connect \/ SessionStep \/ Leave
  BY <1>5, ConnectKeeps, SnapshotKeeps, ForwardKeeps, LeavingKeeps DEF SessionStep
<1>6. CASE Trouble
  BY <1>6, ApplyKeeps, AttemptKeeps, RebuildKeeps, RestOfRebuilderKeeps DEF Trouble
<1>7. CASE UNCHANGED viewVars
  BY <1>7, StutterKeeps
<1> QED
  BY <1>1, <1>2, <1>3, <1>4, <1>5, <1>6, <1>7 DEF ViewNext

LEMMA Invariance == ViewSpec => []IInv
<1>1. ViewInit => IInv
  BY InitEstablishes
<1>2. IInv /\ [ViewNext]_viewVars => IInv'
  BY StepKeeps
<1> QED
  BY <1>1, <1>2, PTL DEF ViewSpec

-----------------------------------------------------------------------------
(* What the runs check.                                                    *)

(* The invariant is at least what the run asks for: until the second swap  *)
(* there is at most one done marker, and the other way round.              *)
LEMMA InvariantIsSound ==
    ASSUME IInv PROVE ViewSound
<1>1. /\ meta.gen \in Generation /\ Cardinality(done) \in Nat
      /\ meta.gen = Cardinality(done) + 1
  BY GenerationInRange DEF IInv, Typed, RedisTyped
<1>2. Cardinality(done) <= 1 => Young
  BY <1>1 DEF Young
<1>3. ViewTypeOK
  BY <1>1 DEF ViewTypeOK, IInv, Typed, RoomTyped, RedisTyped, ConsumerTyped, RebuilderTyped
<1>4. NothingForgotten
  BY <1>2 DEF NothingForgotten, IInv, CommittedIsRemembered
<1>5. StreamFollowsState /\ StreamContiguous
  BY <1>2 DEF StreamFollowsState, StreamContiguous, IInv, StreamsFollow
<1>6. DrainedIsCurrent
  BY <1>2 DEF DrainedIsCurrent, IInv, ReaderIsCurrent
<1> QED
  BY <1>3, <1>4, <1>5, <1>6 DEF ViewSound

(* What the consumer has committed is projected, held or fenced off up to  *)
(* the second rebuild; the streams follow the projection without a hole;   *)
(* a spectator who has read everything is up to date.                      *)
THEOREM ViewIsSound == ViewSpec => []ViewSound
<1>1. IInv => ViewSound
  BY InvariantIsSound
<1> QED
  BY <1>1, Invariance, PTL

(* A step that changes the projection stores an accepted event or swaps a  *)
(* rebuilt projection in.                                                  *)
LEMMA ProjectionSteps ==
    ASSUME [ViewNext]_viewVars, state' # state
    PROVE  \/ /\ c.pc = "apply" /\ Fenced /\ Record \notin outcomes
              /\ ApplyOutcome(c.seq, Record) = "accepted"
              /\ Store("accepted")
           \/ Swaps
<1>1. CASE CommitApply \/ LoseApplyReply
  <2>1. /\ c.pc = "apply" /\ Fenced /\ Record \notin outcomes
        /\ Store(ApplyOutcome(c.seq, Record))
    BY <1>1 DEF CommitApply, LoseApplyReply, redis
  <2>2. ApplyOutcome(c.seq, Record) = "accepted"
    BY <2>1 DEF Store
  <2> QED
    BY <2>1, <2>2
<1>2. CASE Swap \/ LoseSwapReply
  BY <1>2 DEF Swap, LoseSwapReply, Swaps, Usable, AfterSwap, redis
<1>3. CASE RoomCommits \/ Publish \/ RequestRebuild \/ UNCHANGED viewVars
  BY <1>3 DEF RoomCommits, Publish, RequestRebuild, viewVars, redis
<1>4. CASE ConsumerStep /\ ~CommitApply
  BY <1>4 DEF ConsumerStep, Take, LoadMeta, LoadState, CASConflict, PersistQuarantine,
     MarkRoom, PublishDLQ, CommitOffset, redis
<1>5. CASE RebuilderStep /\ ~Swap
  BY <1>5 DEF RebuilderStep, BeginRebuild, FetchSnapshot, ScanHeld, ReadFence,
     RefuseRequest, CommitRequest, redis
<1>6. CASE Connect \/ SessionStep \/ Leave
  BY <1>6 DEF Connect, SessionStep, ReadSnapshot, LabelSnapshot, Forward, IdleCheck, Leave,
     others, redis
<1>7. CASE Trouble /\ ~LoseApplyReply /\ ~LoseSwapReply
  BY <1>7 DEF Trouble, ExhaustAttempts, CrashConsumer, ExhaustRebuild, CrashRebuilder, redis
<1> QED
  BY <1>1, <1>2, <1>3, <1>4, <1>5, <1>6, <1>7 DEF ViewNext

(* An accepted event is the next one; a rebuilt projection is past the one *)
(* the fence was read from, and that is still the one it replaces.         *)
LEMMA StepsForward ==
    ASSUME IInv, [ViewNext]_viewVars PROVE state'.seq >= state.seq
<1>1. state.seq \in Nat
  BY SpectatorAssumption DEF IInv, Typed, RedisTyped
<1>2. CASE state' = state
  BY <1>1, <1>2
<1>3. CASE /\ c.pc = "apply" /\ Fenced
           /\ ApplyOutcome(c.seq, Record) = "accepted" /\ Store("accepted")
  <2>1. c.seq = state.seq /\ Record.seq = c.seq + 1
    BY <1>3 DEF Fenced, ApplyOutcome
  <2>2. state' = Applied(c, Record)
    BY <1>3 DEF Store
  <2>3. state'.seq = Record.seq
    BY <2>2 DEF Applied
  <2> QED
    BY <1>1, <2>1, <2>3
<1>4. CASE Swaps
  <2>1. state' = Rebuilt
    BY <1>4 DEF Swaps, Replace
  <2> QED
    BY <2>1, <1>4, RebuiltIsTyped
<1> QED
  BY <1>2, <1>3, <1>4, ProjectionSteps

(* A quarantined room has nothing at hand to apply, and the swap releases. *)
LEMMA QuarantinedStandsStill ==
    ASSUME IInv, [ViewNext]_viewVars, quarantine, quarantine' PROVE state' = state
<1>1. c.pc # "apply"
  BY DEF IInv, QuarantinedIsQuiet
<1>2. ~Swaps
  BY DEF Swaps, Replace
<1> QED
  BY <1>1, <1>2, ProjectionSteps

(* An open stream forwards only what is past the spectator's mark.         *)
LEMMA ShownForward ==
    ASSUME IInv, [ViewNext]_viewVars, sess.pc = "open", sess'.pc = "open"
    PROVE  sess'.shown >= sess.shown
<1>1. sess \in Sessions /\ sess.shown <= sess.mark /\ sess.shown \in Nat /\ sess.mark \in Nat
  BY SpectatorAssumption DEF IInv, SessionTyped, Sessions
<1>2. CASE sess' = sess
  BY <1>1, <1>2
<1>3. CASE Forward
  <2> DEFINE e == streams[sess.gen][sess.pos + 1]
  <2>1. e \in Entries
    <3>1. sess.gen \in Generation /\ streams[sess.gen] \in Seq(Entries)
          /\ sess.pos \in Nat /\ sess.pos <= Len(streams[sess.gen])
      BY SessionStream DEF IInv, SessionTyped, Sessions, Typed, RedisTyped
    <3>2. sess.pos + 1 \in 1 .. Len(streams[sess.gen])
      BY <3>1, <1>3 DEF Forward, Drained
    <3> QED
      BY <3>1, <3>2
  <2>2. CASE Covered(e)
    <3>1. sess' = [sess EXCEPT !.pos = @ + 1]
      BY <1>3, <2>2 DEF Forward
    <3> QED
      BY <3>1, <1>1 DEF Sessions
  <2>3. CASE ~Covered(e)
    <3>1. sess' = [sess EXCEPT !.pos = @ + 1, !.mark = e.seq, !.shown = e.seq,
                               !.pc = IF e.closed THEN "ended" ELSE @]
      BY <1>3, <2>3 DEF Forward
    <3>2. sess'.shown = e.seq /\ sess'.pc = IF e.closed THEN "ended" ELSE "open"
      BY <3>1, <1>1 DEF Sessions
    <3>3. ~e.closed
      BY <3>2
    <3>4. e.seq > sess.mark
      BY <3>3, <2>1, <2>3, <1>1, SpectatorAssumption DEF Covered, Entries
    <3> QED
      BY <3>2, <3>4, <1>1, <2>1, SpectatorAssumption DEF Entries
  <2> QED
    BY <2>2, <2>3
<1>4. CASE Connect \/ ReadSnapshot \/ LabelSnapshot \/ IdleCheck \/ Leave
  BY <1>1, <1>4 DEF Connect, ReadSnapshot, LabelSnapshot, IdleCheck, Leave, Sessions
<1>5. CASE RoomCommits \/ Publish \/ RequestRebuild \/ UNCHANGED viewVars
  BY <1>2, <1>5 DEF RoomCommits, Publish, RequestRebuild, viewVars
<1>6. CASE ConsumerStep
  BY <1>2, <1>6 DEF ConsumerStep, Take, LoadMeta, LoadState, CommitApply, CASConflict,
     PersistQuarantine, PublishDLQ, CommitOffset
<1>7. CASE RebuilderStep
  BY <1>2, <1>7 DEF RebuilderStep, BeginRebuild, FetchSnapshot, ScanHeld, ReadFence, Swap,
     RefuseRequest, CommitRequest
<1>8. CASE Trouble
  BY <1>2, <1>8 DEF Trouble, LoseApplyReply, ExhaustAttempts, CrashConsumer, LoseSwapReply,
     ExhaustRebuild, CrashRebuilder
<1> QED
  BY <1>3, <1>4, <1>5, <1>6, <1>7, <1>8 DEF ViewNext, SessionStep

(* Neither the projection nor what a spectator is shown goes back, and a   *)
(* quarantined room waits for the rebuild that releases it, however often  *)
(* it is rebuilt.                                                          *)
THEOREM ViewOnlyMovesOn == ViewSpec => ViewMovesOn
<1>1. IInv /\ [ViewNext]_viewVars => [state'.seq >= state.seq]_viewVars
  BY StepsForward
<1>2. IInv /\ [ViewNext]_viewVars
        => [sess.pc = "open" /\ sess'.pc = "open" => sess'.shown >= sess.shown]_viewVars
  BY ShownForward
<1>3. IInv /\ [ViewNext]_viewVars => [quarantine /\ quarantine' => state' = state]_viewVars
  BY QuarantinedStandsStill
<1>4. ViewSpec => []IInv
  BY Invariance
<1> QED
  BY <1>1, <1>2, <1>3, <1>4, PTL
  DEF ViewSpec, ViewMovesOn, SequenceNeverFalls, ShownNeverFalls, QuarantinedIsStill
=============================================================================
