--------------------------- MODULE DurableRoom_proof ---------------------------
(***************************************************************************)
(* The inductive invariant of DurableRoom holds for every set of commands, *)
(* handlers and workers, every deck size and every number of requests in   *)
(* flight; on top of it, what is decided fits the log and the deck.  The   *)
(* safety invariants and the refinement of RoomLedger follow.              *)
(***************************************************************************)
EXTENDS DurableRoomInvariant, TLAPS

-----------------------------------------------------------------------------
(* What the control steps do to a handler and to the lock                  *)

\* The Room snapshot's part of the row that the protocol argument is about.
SameSnapshot == room'.applied = room.applied /\ room'.rev = room.rev

LEMMA GoEffect ==
    ASSUME hnd \in [Handlers -> HandlerStates], NEW h \in Handlers,
           NEW pc \in HandlerPcs, Go(h, pc)
    PROVE  /\ hnd' \in [Handlers -> HandlerStates]
           /\ \A g \in Handlers : g # h => hnd'[g] = hnd[g]
           /\ hnd'[h].pc = pc
           /\ hnd'[h].cmd = hnd[h].cmd
           /\ hnd'[h].stage = hnd[h].stage
           /\ hnd'[h].at = hnd[h].at
  BY DEF Go, HandlerStates

LEMMA EmptyRoomIsRow == EmptyRoom \in RoomRows
  BY DEF EmptyRoom, RoomRows

LEMMA ToIdleEffect ==
    ASSUME hnd \in [Handlers -> HandlerStates], NEW h \in Handlers, ToIdle(h)
    PROVE  /\ hnd' \in [Handlers -> HandlerStates]
           /\ \A g \in Handlers : g # h => hnd'[g] = hnd[g]
           /\ hnd'[h].pc = "idle"
  BY EmptyRoomIsRow DEF ToIdle, HandlerStates, IdleHandler, HandlerPcs

LEMMA UnlockEffect ==
    ASSUME lock \in Handlers \cup {None}, NEW h \in Handlers, Unlock(h)
    PROVE  /\ lock' \in Handlers \cup {None}
           /\ \A g \in Handlers : lock' = g => lock = g /\ g # h
  BY DurableRoomAssumption DEF Unlock

LEMMA GoWorkerEffect ==
    ASSUME wrk \in [Workers -> WorkerStates], NEW w \in Workers,
           NEW pc \in WorkerPcs, GoWorker(w, pc)
    PROVE  /\ wrk' \in [Workers -> WorkerStates]
           /\ \A v \in Workers : v # w => wrk'[v] = wrk[v]
           /\ wrk'[w].pc = pc
           /\ wrk'[w].cmd = wrk[w].cmd
           /\ wrk'[w].exp = wrk[w].exp
           /\ wrk'[w].snap = wrk[w].snap
           /\ wrk'[w].at = wrk[w].at
  BY DEF GoWorker, WorkerStates

LEMMA WorkerToIdleEffect ==
    ASSUME wrk \in [Workers -> WorkerStates], NEW w \in Workers, WorkerToIdle(w)
    PROVE  /\ wrk' \in [Workers -> WorkerStates]
           /\ \A v \in Workers : v # w => wrk'[v] = wrk[v]
           /\ wrk'[w].pc = "idle"
  BY EmptyRoomIsRow DEF WorkerToIdle, WorkerStates, IdleWorker, WorkerPcs

LEMMA LogEntries ==
    ASSUME log \in Seq(Entries)
    PROVE  /\ DOMAIN log = 1..Len(log) /\ Len(log) \in Nat
           /\ \A i \in 1..Len(log) : log[i] \in Entries /\ log[i].cmd \in Commands
PROOF
<1>1. DOMAIN log = 1..Len(log) /\ Len(log) \in Nat
  OBVIOUS
<1>2. \A i \in 1..Len(log) : log[i] \in Entries
  OBVIOUS
<1>3. \A e \in Entries : e.cmd \in Commands
  BY DEF Entries
<1>. QED  BY <1>1, <1>2, <1>3

-----------------------------------------------------------------------------
(* Each part of the invariant, under steps that leave its variables alone  *)

LEMMA FrameDeck ==
    ASSUME DeckBound, deck' = deck PROVE DeckBound'
  BY DEF DeckBound

LEMMA FrameSnapshot ==
    ASSUME SnapshotTrailsLog, SameSnapshot, log' = log PROVE SnapshotTrailsLog'
  BY DEF SnapshotTrailsLog, SameSnapshot, IsPrefixOf

LEMMA FrameHandlers ==
    ASSUME HandlersExtendRoom, SameSnapshot, hnd' = hnd PROVE HandlersExtendRoom'
  BY DEF HandlersExtendRoom, SameSnapshot, ExtendsRoom, StagesOne, Staged

LEMMA FrameLock ==
    ASSUME LockHolderIsCurrent, SameSnapshot, hnd' = hnd,
           \A h \in Handlers : lock' = h => lock = h
    PROVE  LockHolderIsCurrent'
  BY DEF LockHolderIsCurrent, SameSnapshot, Exists

LEMMA FrameIntentsOfHandlers ==
    ASSUME IntentsOfHandlers, intent' = intent, hnd' = hnd PROVE IntentsOfHandlers'
  BY DEF IntentsOfHandlers, HasIntent

LEMMA FrameFailed ==
    ASSUME FailedIsDead, log' = log, hnd' = hnd PROVE FailedIsDead'
  BY DEF FailedIsDead, Holds, Positions

LEMMA FrameAppended ==
    ASSUME AppendedIsLogged, log' = log, hnd' = hnd PROVE AppendedIsLogged'
  BY DEF AppendedIsLogged, Holds, Positions

LEMMA FrameLogHasIntents ==
    ASSUME LogHasIntents, log' = log, intent' = intent PROVE LogHasIntents'
  BY DEF LogHasIntents

LEMMA FramePending ==
    ASSUME PendingExtendsRoom, SameSnapshot, log' = log, intent' = intent
    PROVE  PendingExtendsRoom'
  BY DEF PendingExtendsRoom, SameSnapshot, ExtendsRoom, StagesOne, Holds, Positions

LEMMA FrameDone ==
    ASSUME DoneIsPublished, SameSnapshot, log' = log, intent' = intent
    PROVE  DoneIsPublished'
  BY DEF DoneIsPublished, SameSnapshot, Holds, Positions

LEMMA FrameRequests ==
    ASSUME RequestsDeadOrCurrent, log' = log, intent' = intent, wrk' = wrk, late' = late
    PROVE  RequestsDeadOrCurrent'
  BY DEF RequestsDeadOrCurrent, DeadOrCurrent, StagesOne, StagedEntry

LEMMA FrameFenced ==
    ASSUME FencedIsCurrent, log' = log, intent' = intent, wrk' = wrk, owner' = owner
    PROVE  FencedIsCurrent'
  BY DEF FencedIsCurrent, Fenced, Holds, Positions

LEMMA FrameProcessed ==
    ASSUME ProcessedIsDone, log' = log, intent' = intent, processed' = processed
    PROVE  ProcessedIsDone'
  BY DEF ProcessedIsDone

\* The log only grows and a finished intent stays finished.
LEMMA ProcessedStaysDone ==
    ASSUME TypeOK, ProcessedIsDone, processed' = processed, Len(log') \in Nat,
           Len(log) <= Len(log'), \A i \in 1..Len(log) : log'[i] = log[i],
           \A c \in Commands : intent[c].status = "done" => intent'[c].status = "done"
    PROVE  ProcessedIsDone'
PROOF
<1> SUFFICES ASSUME NEW n \in processed
             PROVE  n \in 1..Len(log') /\ intent'[log'[n].cmd].status = "done"
  BY DEF ProcessedIsDone
<1>1. n \in 1..Len(log) /\ intent[log[n].cmd].status = "done"
  BY DEF ProcessedIsDone
<1>2. log[n].cmd \in Commands /\ Len(log) \in Nat
  BY <1>1, LogEntries DEF TypeOK
<1>. QED  BY <1>1, <1>2

-----------------------------------------------------------------------------
(* A handler that gives up, and a handler that changes its control only    *)

LEMMA HandlerLeaves ==
    ASSUME TypeOK, HandlersExtendRoom, LockHolderIsCurrent, IntentsOfHandlers,
           FailedIsDead, AppendedIsLogged,
           NEW h \in Handlers, ToIdle(h), SameSnapshot, log' = log, intent' = intent,
           \A g \in Handlers : lock' = g => lock = g /\ g # h
    PROVE  /\ HandlersExtendRoom' /\ LockHolderIsCurrent' /\ IntentsOfHandlers'
           /\ FailedIsDead' /\ AppendedIsLogged'
PROOF
<1>1. /\ \A g \in Handlers : g # h => hnd'[g] = hnd[g]
      /\ hnd'[h].pc = "idle"
  BY ToIdleEffect DEF TypeOK
<1>2. HandlersExtendRoom'
  BY <1>1 DEF HandlersExtendRoom, SameSnapshot, ExtendsRoom, StagesOne, Staged
<1>3. LockHolderIsCurrent'
  BY <1>1 DEF LockHolderIsCurrent, SameSnapshot, Exists
<1>4. IntentsOfHandlers'
  BY <1>1 DEF IntentsOfHandlers, HasIntent
<1>5. FailedIsDead' /\ AppendedIsLogged'
  BY <1>1 DEF FailedIsDead, AppendedIsLogged, Holds, Positions
<1>. QED  BY <1>2, <1>3, <1>4, <1>5

LEMMA RejectBeforeLockStep ==
    ASSUME IInv, NEW c \in Commands, RejectBeforeLock(c)
    PROVE  IInv'
PROOF
<1>1. /\ UNCHANGED <<room, intent, owner, processed, log, deck, late, lock, hnd, wrk>>
      /\ SameSnapshot
  BY DEF RejectBeforeLock, SameSnapshot
<1>2. TypeOK'
  BY <1>1 DEF IInv, TypeOK, RejectBeforeLock, FirstOutcome, Outcomes
<1>. QED
  BY <1>1, <1>2, FrameDeck, FrameSnapshot, FrameHandlers, FrameLock,
     FrameIntentsOfHandlers, FrameFailed, FrameAppended, FrameLogHasIntents,
     FramePending, FrameDone, FrameRequests, FrameFenced, FrameProcessed DEF IInv

\* A rejection adds to the snapshot's outcomes only.
LEMMA RecordsRejection ==
    ASSUME room \in RoomRows, NEW c \in Commands,
           room' = [room EXCEPT !.rejected = @ \cup {c}]
    PROVE  room' \in RoomRows /\ SameSnapshot
  BY DEF RoomRows, SameSnapshot

LEMMA RejectCommandStep ==
    ASSUME IInv, NEW c \in Commands, RejectCommand(c)
    PROVE  IInv'
PROOF
<1>1. UNCHANGED <<intent, owner, processed, log, deck, late, lock, hnd, wrk>>
  BY DEF RejectCommand
<1>2. room' \in RoomRows /\ SameSnapshot
  <2>1. CASE Exists(room)
    BY <2>1, RecordsRejection DEF RejectCommand, IInv, TypeOK
  <2>2. CASE ~Exists(room)
    BY <2>2 DEF RejectCommand, IInv, TypeOK, SameSnapshot
  <2>. QED  BY <2>1, <2>2
<1>3. TypeOK'
  BY <1>1, <1>2 DEF IInv, TypeOK, RejectCommand, FirstOutcome, Outcomes
<1>. QED
  BY <1>1, <1>2, <1>3, FrameDeck, FrameSnapshot, FrameHandlers, FrameLock,
     FrameIntentsOfHandlers, FrameFailed, FrameAppended, FrameLogHasIntents,
     FramePending, FrameDone, FrameRequests, FrameFenced, FrameProcessed DEF IInv

LEMMA LeaseExpiresStep ==
    ASSUME IInv, NEW c \in Commands, LeaseExpires(c)
    PROVE  IInv'
PROOF
<1>1. /\ UNCHANGED <<room, idem, intent, processed, log, deck, late, lock, hnd, wrk>>
      /\ SameSnapshot
      /\ owner \in [Commands -> Workers \cup {None}]
      /\ owner' = [owner EXCEPT ![c] = None]
  BY DEF LeaseExpires, SameSnapshot, IInv, TypeOK
<1>2. owner' \in [Commands -> Workers \cup {None}]
  BY <1>1
<1>3. TypeOK'
  BY <1>1, <1>2 DEF IInv, TypeOK
<1>4. FencedIsCurrent'
  <2> SUFFICES ASSUME NEW w \in Workers, wrk[w].pc # "idle", Fenced(w)'
               PROVE  Fenced(w)
    BY <1>1 DEF IInv, FencedIsCurrent, Holds, Positions
  <2>. QED  BY <1>1, DurableRoomAssumption DEF Fenced
<1>. QED
  BY <1>1, <1>3, <1>4, FrameDeck, FrameSnapshot, FrameHandlers, FrameLock,
     FrameIntentsOfHandlers, FrameFailed, FrameAppended, FrameLogHasIntents,
     FramePending, FrameDone, FrameRequests, FrameProcessed DEF IInv

LEMMA ConnectionLostStep ==
    ASSUME IInv, NEW h \in Handlers, ConnectionLost(h)
    PROVE  IInv'
PROOF
<1>1. /\ UNCHANGED <<room, idem, intent, owner, processed, log, deck, late, hnd, wrk>>
      /\ SameSnapshot
      /\ lock' = None
  BY DEF ConnectionLost, SameSnapshot
<1>2. TypeOK'
  BY <1>1 DEF IInv, TypeOK
<1>3. LockHolderIsCurrent'
  BY <1>1, DurableRoomAssumption DEF LockHolderIsCurrent
<1>. QED
  BY <1>1, <1>2, <1>3, FrameDeck, FrameSnapshot, FrameHandlers,
     FrameIntentsOfHandlers, FrameFailed, FrameAppended, FrameLogHasIntents,
     FramePending, FrameDone, FrameRequests, FrameFenced, FrameProcessed DEF IInv

LEMMA AbandonCommandStep ==
    ASSUME IInv, NEW h \in Handlers, AbandonCommand(h)
    PROVE  IInv'
PROOF
<1>1. /\ UNCHANGED <<room, idem, intent, owner, processed, log, deck, late, wrk>>
      /\ SameSnapshot
      /\ Unlock(h) /\ ToIdle(h)
  BY DEF AbandonCommand, SameSnapshot
<1>2. /\ hnd' \in [Handlers -> HandlerStates]
      /\ lock' \in Handlers \cup {None}
      /\ \A g \in Handlers : lock' = g => lock = g /\ g # h
  BY <1>1, ToIdleEffect, UnlockEffect DEF IInv, TypeOK
<1>3. TypeOK'
  BY <1>1, <1>2 DEF IInv, TypeOK
<1>4. /\ HandlersExtendRoom' /\ LockHolderIsCurrent' /\ IntentsOfHandlers'
      /\ FailedIsDead' /\ AppendedIsLogged'
  BY <1>1, <1>2, HandlerLeaves DEF IInv
<1>. QED
  BY <1>1, <1>3, <1>4, FrameDeck, FrameSnapshot, FrameLogHasIntents,
     FramePending, FrameDone, FrameRequests, FrameFenced, FrameProcessed DEF IInv

-----------------------------------------------------------------------------
(* Staging a command                                                       *)

LEMMA StageEffect ==
    ASSUME NEW r \in RoomRows, NEW c \in Commands, NEW k \in 0..DeckSize
    PROVE  /\ Stage(r, c, k) \in RoomRows
           /\ Stage(r, c, k).rev = r.rev
           /\ Len(Stage(r, c, k).applied) = Len(r.applied) + 1
           /\ Stage(r, c, k).applied[Len(r.applied) + 1].cmd = c
           /\ \A i \in 1..Len(r.applied) : Stage(r, c, k).applied[i] = r.applied[i]
PROOF
<1> DEFINE e == [cmd |-> c, card |-> k]
<1>1. e \in Entries  BY DEF Entries
<1>2. r.applied \in Seq(Entries)  BY DEF RoomRows
<1>3. Stage(r, c, k) = [applied |-> Append(r.applied, e), rejected |-> r.rejected, rev |-> r.rev]
  <2>1. r = [applied |-> r.applied, rejected |-> r.rejected, rev |-> r.rev]
    BY DEF RoomRows
  <2>2. Stage(r, c, k) = [r EXCEPT !.applied = Append(@, e)]
    BY DEF Stage
  <2>. HIDE DEF e
  <2>. QED  BY <2>1, <2>2
<1>4. Append(r.applied, e) \in Seq(Entries)  BY <1>1, <1>2
<1>. QED  BY <1>1, <1>2, <1>3, <1>4 DEF RoomRows

LEMMA BeginCommandStep ==
    ASSUME IInv, NEW h \in Handlers, NEW c \in Commands, BeginCommand(h, c)
    PROVE  IInv'
PROOF
<1> DEFINE s == IF c \in DrawCommands THEN room ELSE Stage(room, c, 0)
           p == IF c \in DrawCommands THEN "reserve" ELSE "staged"
<1>1. /\ UNCHANGED <<room, idem, intent, owner, processed, log, deck, late, wrk>>
      /\ SameSnapshot
      /\ hnd[h].pc = "idle" /\ lock = None /\ Acceptable(room, c)
      /\ lock' = IF c \in CreateCommands THEN None ELSE h
      /\ hnd' = [hnd EXCEPT ![h] = [pc |-> p, cmd |-> c, stage |-> s, at |-> 0]]
  BY DEF BeginCommand, SameSnapshot
<1>2. /\ room \in RoomRows /\ room.rev = Len(room.applied)
      /\ room.applied \in Seq(Entries)
      /\ hnd \in [Handlers -> HandlerStates]
      /\ 0 \in 0..DeckSize
  BY DurableRoomAssumption DEF IInv, TypeOK, SnapshotTrailsLog, RoomRows
<1>3. /\ s \in RoomRows /\ s.rev = Len(room.applied)
      /\ \A i \in 1..s.rev : s.applied[i] = room.applied[i]
      /\ p = "reserve" => Len(s.applied) = s.rev
      /\ p # "reserve" => StagesOne(s, s.rev, c)
  BY <1>2, StageEffect DEF StagesOne
<1>4. /\ hnd' \in [Handlers -> HandlerStates]
      /\ \A g \in Handlers : g # h => hnd'[g] = hnd[g]
      /\ hnd'[h].pc = p /\ hnd'[h].cmd = c /\ hnd'[h].stage = s
      /\ p \in {"reserve", "staged"}
  <2>1. [pc |-> p, cmd |-> c, stage |-> s, at |-> 0] \in HandlerStates
    BY <1>3 DEF HandlerStates, HandlerPcs
  <2>. HIDE DEF s, p
  <2>2. /\ hnd' \in [Handlers -> HandlerStates]
        /\ \A g \in Handlers : g # h => hnd'[g] = hnd[g]
        /\ hnd'[h] = [pc |-> p, cmd |-> c, stage |-> s, at |-> 0]
    BY <1>1, <1>2, <2>1
  <2>. QED  BY <2>2 DEF p
<1>. HIDE DEF s, p
<1>5. TypeOK'
  BY <1>1, <1>4 DEF IInv, TypeOK
<1>6. HandlersExtendRoom'
  BY <1>1, <1>2, <1>3, <1>4 DEF IInv, HandlersExtendRoom, ExtendsRoom, StagesOne, Staged
<1>7. LockHolderIsCurrent'
  <2> SUFFICES ASSUME NEW g \in Handlers, lock' = g
               PROVE  g = h /\ c \notin CreateCommands
    BY <1>1, <1>3, <1>4 DEF LockHolderIsCurrent, Acceptable, Exists
  <2>. QED  BY <1>1, DurableRoomAssumption
<1>8. IntentsOfHandlers'
  BY <1>1, <1>4 DEF IInv, IntentsOfHandlers, HasIntent
<1>9. FailedIsDead' /\ AppendedIsLogged'
  BY <1>1, <1>4 DEF IInv, FailedIsDead, AppendedIsLogged, Holds, Positions
<1>. QED
  BY <1>1, <1>5, <1>6, <1>7, <1>8, <1>9, FrameDeck, FrameSnapshot, FrameLogHasIntents,
     FramePending, FrameDone, FrameRequests, FrameFenced, FrameProcessed DEF IInv

\* What a reservation answers, and what it leaves of the deck.
LEMMA ReservationEffect ==
    ASSUME deck \in DeckStates, DeckBound, NEW c \in Commands, CanReserve(c)
    PROVE  /\ MaterialOf(c) \in 0..DeckSize
           /\ Reserved(c) \in DeckStates
           /\ Len(Reserved(c).dealt) + (IF Reserved(c).pending = None THEN 0 ELSE 1) <= DeckSize
PROOF
<1>1. deck.dealt \in Seq(Commands) /\ deck.pending \in Commands \cup {None}
      /\ deck.voided \in SUBSET Commands /\ DeckSize \in Nat /\ None \notin Commands
      /\ deck = [pending |-> deck.pending, dealt |-> deck.dealt, voided |-> deck.voided]
  BY DurableRoomAssumption DEF DeckStates
<1>2. CASE Dealt(c)
  <2>1. MaterialOf(c) \in DOMAIN deck.dealt  BY <1>2, Zenon DEF MaterialOf, Dealt
  <2>2. Reserved(c) = deck  BY <1>2 DEF Reserved
  <2>. QED  BY <1>1, <2>1, <2>2 DEF DeckBound
<1>3. CASE ~Dealt(c)
  <2>1. MaterialOf(c) = Len(deck.dealt) + 1  BY <1>3 DEF MaterialOf
  <2>2. Reserved(c) = [pending |-> c, dealt |-> deck.dealt, voided |-> deck.voided]
    BY <1>1, <1>3 DEF Reserved
  <2>3. deck.pending = c \/ (deck.pending = None /\ Len(deck.dealt) < DeckSize)
    BY <1>3 DEF CanReserve
  <2>. QED  BY <1>1, <2>1, <2>2, <2>3 DEF DeckBound, DeckStates
<1>. QED  BY <1>2, <1>3

\* Voiding and confirming never take more cards out of the deck.
LEMMA SettlementEffect ==
    ASSUME deck \in DeckStates, DeckBound, NEW c \in Commands,
           \/ deck' \in {deck, Voided(c)}
           \/ CanConfirm(c) /\ deck' = Confirmed(c)
    PROVE  deck' \in DeckStates /\ DeckBound'
PROOF
<1>1. deck.dealt \in Seq(Commands) /\ deck.pending \in Commands \cup {None}
      /\ deck.voided \in SUBSET Commands /\ DeckSize \in Nat /\ None \notin Commands
      /\ deck = [pending |-> deck.pending, dealt |-> deck.dealt, voided |-> deck.voided]
  BY DurableRoomAssumption DEF DeckStates
<1>2. CASE deck' = deck
  BY <1>2 DEF DeckBound
<1>3. CASE deck' = Voided(c) /\ deck' # deck
  <2>1. deck' = [pending |-> None, dealt |-> deck.dealt, voided |-> deck.voided \cup {c}]
    BY <1>1, <1>3 DEF Voided
  <2>. QED  BY <1>1, <2>1 DEF DeckBound, DeckStates
<1>4. CASE CanConfirm(c) /\ deck' = Confirmed(c) /\ deck' # deck
  <2>1. /\ deck' = [pending |-> None, dealt |-> Append(deck.dealt, c), voided |-> deck.voided]
        /\ deck.pending = c
    BY <1>1, <1>4 DEF Confirmed, CanConfirm
  <2>. QED  BY <1>1, <2>1 DEF DeckBound, DeckStates
<1>. QED  BY <1>2, <1>3, <1>4 DEF Confirmed

LEMMA ReserveMaterialStep ==
    ASSUME IInv, NEW h \in Handlers, ReserveMaterial(h)
    PROVE  IInv'
PROOF
<1> DEFINE c == hnd[h].cmd
           s == Stage(hnd[h].stage, c, MaterialOf(c))
<1>1. /\ UNCHANGED <<room, idem, intent, owner, processed, log, late, lock, wrk>>
      /\ SameSnapshot
      /\ hnd[h].pc = "reserve" /\ CanReserve(c)
      /\ deck' = Reserved(c)
      /\ hnd' = [hnd EXCEPT ![h].pc = "staged", ![h].stage = s]
  BY DEF ReserveMaterial, SameSnapshot
<1>2. /\ hnd \in [Handlers -> HandlerStates] /\ deck \in DeckStates /\ DeckBound
      /\ c \in Commands /\ ExtendsRoom(hnd[h].stage)
      /\ Len(hnd[h].stage.applied) = hnd[h].stage.rev
  BY <1>1 DEF IInv, TypeOK, HandlersExtendRoom
<1>3. /\ MaterialOf(c) \in 0..DeckSize
      /\ hnd[h].stage \in RoomRows
  BY <1>1, <1>2, ReservationEffect DEF HandlerStates
<1>4. /\ s \in RoomRows /\ s.rev = hnd[h].stage.rev
      /\ StagesOne(s, s.rev, c)
      /\ \A i \in 1..s.rev : s.applied[i] = hnd[h].stage.applied[i]
  <2>1. /\ s \in RoomRows /\ s.rev = hnd[h].stage.rev
        /\ Len(s.applied) = Len(hnd[h].stage.applied) + 1
        /\ s.applied[Len(hnd[h].stage.applied) + 1].cmd = c
        /\ \A i \in 1..Len(hnd[h].stage.applied) : s.applied[i] = hnd[h].stage.applied[i]
    BY <1>2, <1>3, StageEffect
  <2>. HIDE DEF s, c
  <2>. QED  BY <1>2, <2>1 DEF StagesOne
<1>. HIDE DEF s
<1>5. /\ hnd' \in [Handlers -> HandlerStates]
      /\ \A g \in Handlers : g # h => hnd'[g] = hnd[g]
      /\ hnd'[h].pc = "staged" /\ hnd'[h].cmd = c /\ hnd'[h].stage = s
  BY <1>1, <1>2, <1>4 DEF HandlerStates, HandlerPcs
<1>6. deck' \in DeckStates /\ DeckBound'
  BY <1>1, <1>2, ReservationEffect DEF DeckBound
<1>7. TypeOK'
  BY <1>1, <1>5, <1>6 DEF IInv, TypeOK
<1>8. HandlersExtendRoom'
  <2>1. /\ s.rev <= Len(room.applied)
        /\ \A i \in 1..s.rev : s.applied[i] = room.applied[i]
    BY <1>2, <1>3, <1>4 DEF ExtendsRoom, RoomRows
  <2>2. ExtendsRoom(hnd[h].stage)' /\ StagesOne(hnd[h].stage, hnd[h].stage.rev, hnd[h].cmd)'
    BY <1>1, <1>4, <1>5, <2>1 DEF ExtendsRoom, StagesOne
  <2>3. ASSUME NEW g \in Handlers, g # h, hnd'[g].pc # "idle"
        PROVE  /\ hnd'[g].cmd \in Commands
               /\ ExtendsRoom(hnd[g].stage)'
               /\ hnd'[g].pc = "reserve" => Len(hnd'[g].stage.applied) = hnd'[g].stage.rev
               /\ Staged(g)' => StagesOne(hnd[g].stage, hnd[g].stage.rev, hnd[g].cmd)'
    BY <1>1, <1>5, <2>3 DEF IInv, HandlersExtendRoom, ExtendsRoom, StagesOne, Staged
  <2>. QED
    BY <1>2, <1>5, <2>2, <2>3 DEF HandlersExtendRoom
<1>9. LockHolderIsCurrent'
  BY <1>1, <1>4, <1>5 DEF IInv, LockHolderIsCurrent, Exists
<1>10. IntentsOfHandlers'
  BY <1>1, <1>5 DEF IInv, IntentsOfHandlers, HasIntent
<1>11. FailedIsDead' /\ AppendedIsLogged'
  BY <1>1, <1>5 DEF IInv, FailedIsDead, AppendedIsLogged, Holds, Positions
<1>. QED
  BY <1>1, <1>6, <1>7, <1>8, <1>9, <1>10, <1>11, FrameSnapshot, FrameLogHasIntents,
     FramePending, FrameDone, FrameRequests, FrameFenced, FrameProcessed DEF IInv

LEMMA RefuseReservedStep ==
    ASSUME IInv, NEW h \in Handlers, RefuseReserved(h)
    PROVE  IInv'
PROOF
<1>1. /\ UNCHANGED <<room, idem, intent, owner, processed, log, late, lock, wrk>>
      /\ SameSnapshot
      /\ hnd[h].pc = "staged" /\ Go(h, "refused")
      /\ deck' \in {deck, Voided(hnd[h].cmd)}
  BY DEF RefuseReserved, SameSnapshot
<1>2. /\ hnd' \in [Handlers -> HandlerStates]
      /\ \A g \in Handlers : g # h => hnd'[g] = hnd[g]
      /\ hnd'[h].pc = "refused" /\ hnd'[h].cmd = hnd[h].cmd /\ hnd'[h].stage = hnd[h].stage
  BY <1>1, GoEffect DEF IInv, TypeOK, HandlerPcs
<1>3. deck' \in DeckStates /\ DeckBound'
  <2>1. hnd[h].cmd \in Commands /\ deck \in DeckStates /\ DeckBound
    BY <1>1 DEF IInv, TypeOK, HandlersExtendRoom
  <2>. QED  BY <1>1, <2>1, SettlementEffect
<1>4. TypeOK'
  BY <1>1, <1>2, <1>3 DEF IInv, TypeOK
<1>5. HandlersExtendRoom'
  BY <1>1, <1>2 DEF IInv, HandlersExtendRoom, ExtendsRoom, StagesOne, Staged
<1>6. LockHolderIsCurrent'
  BY <1>1, <1>2 DEF IInv, LockHolderIsCurrent, Exists
<1>7. IntentsOfHandlers'
  BY <1>1, <1>2 DEF IInv, IntentsOfHandlers, HasIntent
<1>8. FailedIsDead' /\ AppendedIsLogged'
  BY <1>1, <1>2 DEF IInv, FailedIsDead, AppendedIsLogged, Holds, Positions
<1>. QED
  BY <1>1, <1>3, <1>4, <1>5, <1>6, <1>7, <1>8, FrameSnapshot, FrameLogHasIntents,
     FramePending, FrameDone, FrameRequests, FrameFenced, FrameProcessed DEF IInv

LEMMA RejectRefusedStep ==
    ASSUME IInv, NEW h \in Handlers, RejectRefused(h)
    PROVE  IInv'
PROOF
<1>1. /\ UNCHANGED <<intent, owner, processed, log, deck, late, wrk>>
      /\ hnd[h].pc = "refused"
      /\ Unlock(h) /\ ToIdle(h)
  BY DEF RejectRefused
<1>2. hnd[h].cmd \in Commands  BY <1>1 DEF IInv, HandlersExtendRoom
<1>3. room' \in RoomRows /\ SameSnapshot
  <2>1. CASE hnd[h].cmd \in SystemCommands
    BY <2>1 DEF RejectRefused, IInv, TypeOK, SameSnapshot
  <2>2. CASE hnd[h].cmd \notin SystemCommands
    BY <1>2, <2>2, RecordsRejection DEF RejectRefused, IInv, TypeOK
  <2>. QED  BY <2>1, <2>2
<1>4. /\ hnd' \in [Handlers -> HandlerStates]
      /\ lock' \in Handlers \cup {None}
      /\ \A g \in Handlers : lock' = g => lock = g /\ g # h
  BY <1>1, ToIdleEffect, UnlockEffect DEF IInv, TypeOK
<1>5. idem' \in [Commands -> Outcomes]
  BY DEF RejectRefused, IInv, TypeOK, FirstOutcome, Outcomes
<1>6. TypeOK'
  BY <1>1, <1>3, <1>4, <1>5 DEF IInv, TypeOK
<1>7. /\ HandlersExtendRoom' /\ LockHolderIsCurrent' /\ IntentsOfHandlers'
      /\ FailedIsDead' /\ AppendedIsLogged'
  BY <1>1, <1>3, <1>4, HandlerLeaves DEF IInv
<1>. QED
  BY <1>1, <1>3, <1>6, <1>7, FrameDeck, FrameSnapshot, FrameLogHasIntents,
     FramePending, FrameDone, FrameRequests, FrameFenced, FrameProcessed DEF IInv

-----------------------------------------------------------------------------
(* Append requests: what lets them stay dead or current                    *)

\* DeadOrCurrent in the next state, of a request named in this one.
DeadOrCurrentNext(e, exp) ==
    \/ exp < Len(log')
    \/ /\ intent'[e.cmd].status \in {"pending", "done"}
       /\ intent'[e.cmd].exp = exp
       /\ StagesOne(intent'[e.cmd].snap, exp, e.cmd)
       /\ intent'[e.cmd].snap.applied[exp + 1] = e

\* Requests and claims of this state go on, or new ones are dead or current.
LEMMA RequestsKept ==
    ASSUME TypeOK, RequestsDeadOrCurrent,
           \A e \in Entries, x \in Nat : DeadOrCurrent(e, x) => DeadOrCurrentNext(e, x),
           \A m \in late' : m \in late \/ DeadOrCurrentNext(m.entry, m.exp),
           \A w \in Workers : wrk'[w].pc # "idle" =>
              \/ /\ wrk[w].pc # "idle" /\ wrk'[w].cmd = wrk[w].cmd
                 /\ wrk'[w].snap = wrk[w].snap /\ wrk'[w].exp = wrk[w].exp
              \/ /\ wrk'[w].cmd \in Commands
                 /\ StagesOne(wrk'[w].snap, wrk'[w].exp, wrk'[w].cmd)
                 /\ DeadOrCurrentNext(wrk'[w].snap.applied[wrk'[w].exp + 1], wrk'[w].exp)
    PROVE  RequestsDeadOrCurrent'
PROOF
<1>1. ASSUME NEW m \in late'
      PROVE  DeadOrCurrentNext(m.entry, m.exp)
  <2>1. CASE m \in late
    <3>1. m.entry \in Entries /\ m.exp \in Nat
      BY <2>1 DEF TypeOK, Requests
    <3>. QED  BY <2>1, <3>1 DEF RequestsDeadOrCurrent
  <2>. QED  BY <1>1, <2>1
<1>2. ASSUME NEW w \in Workers, wrk'[w].pc # "idle"
      PROVE  /\ wrk'[w].cmd \in Commands
             /\ StagesOne(wrk'[w].snap, wrk'[w].exp, wrk'[w].cmd)
             /\ DeadOrCurrentNext(wrk'[w].snap.applied[wrk'[w].exp + 1], wrk'[w].exp)
  <2>1. CASE /\ wrk[w].pc # "idle" /\ wrk'[w].cmd = wrk[w].cmd
             /\ wrk'[w].snap = wrk[w].snap /\ wrk'[w].exp = wrk[w].exp
    <3>1. /\ wrk[w].cmd \in Commands
          /\ StagesOne(wrk[w].snap, wrk[w].exp, wrk[w].cmd)
          /\ DeadOrCurrent(StagedEntry(wrk[w].snap), wrk[w].exp)
          /\ wrk[w].exp \in Nat /\ wrk[w].snap.applied \in Seq(Entries)
      BY <2>1 DEF TypeOK, WorkerStates, RoomRows, RequestsDeadOrCurrent
    <3>2. /\ StagedEntry(wrk[w].snap) = wrk[w].snap.applied[wrk[w].exp + 1]
          /\ StagedEntry(wrk[w].snap) \in Entries
      BY <3>1 DEF StagedEntry, StagesOne
    <3>. QED  BY <2>1, <3>1, <3>2
  <2>. QED  BY <1>2, <2>1
<1>3. \A m \in late' : DeadOrCurrent(m.entry, m.exp)'
  <2> SUFFICES ASSUME NEW m \in late'
               PROVE  DeadOrCurrent(m.entry, m.exp)'
    OBVIOUS
  <2>1. DeadOrCurrentNext(m.entry, m.exp)  BY <1>1
  <2>. QED  BY <2>1 DEF DeadOrCurrent, DeadOrCurrentNext, StagesOne
<1>4. ASSUME NEW w \in Workers, wrk'[w].pc # "idle"
      PROVE  DeadOrCurrent(StagedEntry(wrk[w].snap), wrk[w].exp)'
  <2>1. StagedEntry(wrk[w].snap)' = wrk'[w].snap.applied[wrk'[w].exp + 1]
    BY <1>2, <1>4 DEF StagedEntry, StagesOne
  <2>. QED
    BY <1>2, <1>4, <2>1 DEF DeadOrCurrent, DeadOrCurrentNext, StagesOne
<1>. QED  BY <1>2, <1>3, <1>4 DEF RequestsDeadOrCurrent, StagesOne

-----------------------------------------------------------------------------
(* Intents of handlers                                                     *)

LEMMA BeginIntentStep ==
    ASSUME IInv, NEW h \in Handlers, BeginIntent(h)
    PROVE  IInv'
PROOF
<1> DEFINE c == hnd[h].cmd
           n == [status |-> "pending", exp |-> hnd[h].stage.rev, snap |-> hnd[h].stage, at |-> 0]
<1>1. /\ UNCHANGED <<room, idem, processed, log, deck, late, lock, wrk>>
      /\ SameSnapshot
      /\ hnd[h].pc = "staged" /\ Go(h, "intent")
      /\ intent[c].status \in {"none", "cancelled"}
      /\ intent' = [intent EXCEPT ![c] = n]
      /\ owner' = [owner EXCEPT ![c] = None]
  BY DEF BeginIntent, SameSnapshot
<1>2. /\ c \in Commands /\ ExtendsRoom(hnd[h].stage)
      /\ StagesOne(hnd[h].stage, hnd[h].stage.rev, c)
      /\ hnd[h].stage \in RoomRows
      /\ intent \in [Commands -> IntentRows]
      /\ owner \in [Commands -> Workers \cup {None}]
  BY <1>1 DEF IInv, TypeOK, HandlersExtendRoom, Staged, HandlerStates
<1>3. /\ hnd' \in [Handlers -> HandlerStates]
      /\ \A g \in Handlers : g # h => hnd'[g] = hnd[g]
      /\ hnd'[h].pc = "intent" /\ hnd'[h].cmd = c /\ hnd'[h].stage = hnd[h].stage
  BY <1>1, GoEffect DEF IInv, TypeOK, HandlerPcs
<1>4. /\ intent' \in [Commands -> IntentRows]
      /\ \A d \in Commands : d # c => intent'[d] = intent[d]
      /\ intent'[c].status = "pending" /\ intent'[c].exp = hnd[h].stage.rev
      /\ intent'[c].snap = hnd[h].stage /\ intent'[c].at = 0
  <2>1. n \in IntentRows  BY <1>2 DEF IntentRows, RoomRows
  <2>. HIDE DEF n
  <2>2. /\ intent' \in [Commands -> IntentRows]
        /\ \A d \in Commands : d # c => intent'[d] = intent[d]
        /\ intent'[c] = n
    BY <1>1, <1>2, <2>1
  <2>. QED  BY <2>2 DEF n
<1>5. /\ owner' \in [Commands -> Workers \cup {None}]
      /\ \A d \in Commands : d # c => owner'[d] = owner[d]
      /\ owner'[c] = None
  BY <1>1, <1>2
<1>. HIDE DEF n
<1>6. TypeOK'
  BY <1>1, <1>3, <1>4, <1>5 DEF IInv, TypeOK
<1>7. HandlersExtendRoom'
  BY <1>1, <1>3 DEF IInv, HandlersExtendRoom, ExtendsRoom, StagesOne, Staged
<1>8. LockHolderIsCurrent'
  BY <1>1, <1>3 DEF IInv, LockHolderIsCurrent, Exists
<1>9. IntentsOfHandlers'
  <2>1. \A g \in Handlers : HasIntent(g) => hnd[g].cmd # c
    BY <1>1 DEF IInv, IntentsOfHandlers
  <2>2. \A g \in Handlers : HasIntent(g) => hnd[g].cmd \in Commands
    BY DEF IInv, HandlersExtendRoom, HasIntent
  <2>. QED
    BY <1>3, <1>4, <2>1, <2>2 DEF IInv, IntentsOfHandlers, HasIntent
<1>10. FailedIsDead' /\ AppendedIsLogged'
  BY <1>1, <1>3 DEF IInv, FailedIsDead, AppendedIsLogged, Holds, Positions
<1>11. LogHasIntents'
  <2>1. \A i \in 1..Len(log) : log[i].cmd \in Commands
    BY LogEntries DEF IInv, TypeOK
  <2>. QED  BY <1>1, <1>4, <2>1 DEF IInv, LogHasIntents
<1>12. PendingExtendsRoom'
  BY <1>1, <1>2, <1>4 DEF IInv, PendingExtendsRoom, ExtendsRoom, StagesOne, Holds, Positions
<1>13. DoneIsPublished'
  BY <1>1, <1>4 DEF IInv, DoneIsPublished, Holds, Positions
<1>14. RequestsDeadOrCurrent'
  <2>1. ASSUME NEW e \in Entries, NEW x \in Nat, DeadOrCurrent(e, x)
        PROVE  DeadOrCurrentNext(e, x)
    <3>1. CASE e.cmd = c
      BY <1>1, <2>1, <3>1 DEF DeadOrCurrent, DeadOrCurrentNext
    <3>2. CASE e.cmd # c
      BY <1>1, <1>4, <2>1, <3>2 DEF DeadOrCurrent, DeadOrCurrentNext, StagesOne, Entries
    <3>. QED  BY <3>1, <3>2
  <2>. QED  BY <1>1, <2>1, RequestsKept DEF IInv
<1>15. FencedIsCurrent'
  <2> SUFFICES ASSUME NEW w \in Workers, wrk[w].pc # "idle", Fenced(w)'
               PROVE  Fenced(w) /\ wrk[w].cmd # c
    BY <1>1, <1>4 DEF IInv, FencedIsCurrent, Holds, Positions, RequestsDeadOrCurrent
  <2>. QED
    BY <1>1, <1>4, <1>5, DurableRoomAssumption DEF Fenced, IInv, RequestsDeadOrCurrent
<1>16. ProcessedIsDone'
  BY <1>1, <1>2, <1>4, ProcessedStaysDone DEF IInv, TypeOK
<1>. QED
  BY <1>1, <1>16, <1>6, <1>7, <1>8, <1>9, <1>10, <1>11, <1>12, <1>13, <1>14, <1>15,
     FrameDeck, FrameSnapshot DEF IInv

-----------------------------------------------------------------------------
(* The integrity log grows                                                 *)

LEMMA AppendAnswer ==
    ASSUME NEW e, NEW x
    PROVE  /\ AppendOutcome(e, x).kind = "accepted" =>
                /\ ~Holds(log, e.cmd) /\ x = Len(log)
                /\ AppendOutcome(e, x).at = Len(log) + 1
                /\ Appended(e, x) = Append(log, e)
           /\ AppendOutcome(e, x).kind # "accepted" => Appended(e, x) = log
           /\ AppendOutcome(e, x).kind = "duplicate" =>
                /\ AppendOutcome(e, x).at \in DOMAIN log
                /\ log[AppendOutcome(e, x).at] = e
           /\ AppendOutcome(e, x).kind = "conflict" =>
                \E i \in DOMAIN log : log[i].cmd = e.cmd /\ log[i] # e
           /\ AppendOutcome(e, x).kind = "revision_mismatch" =>
                ~Holds(log, e.cmd) /\ x # Len(log)
PROOF
<1> DEFINE i == CHOOSE j \in Positions(log, e.cmd) : TRUE
<1>1. CASE Holds(log, e.cmd)
  <2>1. i \in Positions(log, e.cmd)  BY <1>1, Zenon DEF Holds
  <2>2. i \in DOMAIN log /\ log[i].cmd = e.cmd  BY <2>1 DEF Positions
  <2>3. AppendOutcome(e, x) = IF log[i] = e THEN [kind |-> "duplicate", at |-> i]
                                            ELSE [kind |-> "conflict", at |-> 0]
    BY <1>1 DEF AppendOutcome
  <2>. QED  BY <2>2, <2>3 DEF Appended
<1>2. CASE ~Holds(log, e.cmd)
  <2>1. AppendOutcome(e, x) = IF x = Len(log)
                              THEN [kind |-> "accepted", at |-> Len(log) + 1]
                              ELSE [kind |-> "revision_mismatch", at |-> 0]
    BY <1>2 DEF AppendOutcome
  <2>. QED  BY <1>2, <2>1 DEF Appended
<1>. QED  BY <1>1, <1>2

\* An accepted request is its command's current intent, staged on the whole log.
LEMMA AcceptedIsCurrent ==
    ASSUME TypeOK, SnapshotTrailsLog, PendingExtendsRoom, DoneIsPublished,
           NEW e \in Entries, DeadOrCurrent(e, Len(log))
    PROVE  /\ intent[e.cmd].status = "pending" /\ intent[e.cmd].exp = Len(log)
           /\ Len(room.applied) = Len(log)
           /\ Len(intent[e.cmd].snap.applied) = Len(log) + 1
           /\ intent[e.cmd].snap.applied[Len(log) + 1] = e
           /\ \A i \in 1..Len(log) : intent[e.cmd].snap.applied[i] = log[i]
PROOF
<1>1. e.cmd \in Commands /\ log \in Seq(Entries) /\ Len(log) \in Nat
      /\ room.applied \in Seq(Entries) /\ Len(room.applied) \in Nat
      /\ DOMAIN room.applied = 1..Len(room.applied)
  BY DEF Entries, TypeOK, RoomRows
<1>2. /\ intent[e.cmd].status \in {"pending", "done"}
      /\ intent[e.cmd].exp = Len(log)
      /\ StagesOne(intent[e.cmd].snap, Len(log), e.cmd)
      /\ intent[e.cmd].snap.applied[Len(log) + 1] = e
  BY <1>1 DEF DeadOrCurrent
<1>3. Len(room.applied) <= Len(log)
  BY DEF SnapshotTrailsLog, IsPrefixOf
<1>4. intent[e.cmd].status = "pending"
  BY <1>1, <1>2, <1>3 DEF DoneIsPublished
<1>5. Len(log) <= Len(room.applied)
      /\ \A i \in 1..Len(log) : intent[e.cmd].snap.applied[i] = room.applied[i]
  BY <1>1, <1>2, <1>4 DEF PendingExtendsRoom, ExtendsRoom
<1>6. Len(log) = Len(room.applied)  BY <1>1, <1>3, <1>5
<1>. QED
  BY <1>1, <1>2, <1>4, <1>5, <1>6 DEF StagesOne, SnapshotTrailsLog, IsPrefixOf

LEMMA LogGrows ==
    ASSUME IInv, NEW e \in Entries, NEW x \in Nat, DeadOrCurrent(e, x),
           log' = Appended(e, x), intent' = intent, SameSnapshot
    PROVE  /\ log' \in Seq(Entries)
           /\ \A c \in Commands : Holds(log, c) => Holds(log', c)
           /\ processed' = processed => ProcessedIsDone'
           /\ SnapshotTrailsLog' /\ LogHasIntents' /\ PendingExtendsRoom' /\ DoneIsPublished'
           /\ \A d \in Entries, y \in Nat : DeadOrCurrent(d, y) => DeadOrCurrentNext(d, y)
           /\ \A h \in Handlers : hnd[h].pc = "failed" =>
                hnd[h].stage.rev < Len(log') /\ ~Holds(log', hnd[h].cmd)
PROOF
<1>1. /\ log \in Seq(Entries) /\ Len(log) \in Nat /\ DOMAIN log = 1..Len(log)
      /\ room.applied \in Seq(Entries) /\ e.cmd \in Commands
      /\ DOMAIN room.applied = 1..Len(room.applied)
  BY DEF IInv, TypeOK, RoomRows, Entries
<1>2. CASE log' = log
  <2>1. SnapshotTrailsLog' /\ LogHasIntents' /\ PendingExtendsRoom' /\ DoneIsPublished'
    BY <1>2, FrameSnapshot, FrameLogHasIntents, FramePending, FrameDone DEF IInv
  <2>2. \A d \in Entries, y \in Nat : DeadOrCurrent(d, y) => DeadOrCurrentNext(d, y)
    BY <1>2 DEF DeadOrCurrent, DeadOrCurrentNext
  <2>3. processed' = processed => ProcessedIsDone'
    BY <1>2, FrameProcessed DEF IInv
  <2>. QED  BY <1>1, <1>2, <2>1, <2>2, <2>3 DEF IInv, FailedIsDead
<1>3. CASE log' # log
  <2>1. /\ ~Holds(log, e.cmd) /\ x = Len(log) /\ log' = Append(log, e)
    BY <1>3, AppendAnswer
  <2>2. /\ log' \in Seq(Entries) /\ Len(log') = Len(log) + 1
        /\ DOMAIN log' = 1..(Len(log) + 1)
        /\ log'[Len(log) + 1] = e
        /\ \A i \in 1..Len(log) : log'[i] = log[i]
    BY <1>1, <2>1
  <2>3. /\ intent[e.cmd].status = "pending" /\ intent[e.cmd].exp = Len(log)
        /\ Len(room.applied) = Len(log)
        /\ Len(intent[e.cmd].snap.applied) = Len(log) + 1
        /\ intent[e.cmd].snap.applied[Len(log) + 1] = e
        /\ \A i \in 1..Len(log) : intent[e.cmd].snap.applied[i] = log[i]
    BY <2>1, AcceptedIsCurrent DEF IInv
  <2>4. \A c \in Commands : Holds(log, c) => Holds(log', c)
    BY <1>1, <2>2 DEF Holds, Positions
  <2>5. SnapshotTrailsLog'
    BY <1>1, <2>2, <2>3 DEF IInv, SnapshotTrailsLog, SameSnapshot, IsPrefixOf
  <2>6. LogHasIntents'
    <3>1. ASSUME NEW i \in 1..Len(log')
          PROVE  /\ intent[log'[i].cmd].status \in {"pending", "done"}
                 /\ intent[log'[i].cmd].exp = i - 1
                 /\ Len(intent[log'[i].cmd].snap.applied) = i
                 /\ \A j \in 1..i : intent[log'[i].cmd].snap.applied[j] = log'[j]
      <4>1. CASE i \in 1..Len(log)
        <5>1. /\ intent[log[i].cmd].status \in {"pending", "done"}
              /\ intent[log[i].cmd].exp = i - 1
              /\ Len(intent[log[i].cmd].snap.applied) = i
              /\ \A j \in 1..i : intent[log[i].cmd].snap.applied[j] = log[j]
          BY <4>1 DEF IInv, LogHasIntents
        <5>2. log'[i] = log[i] /\ \A j \in 1..i : log'[j] = log[j]
          BY <1>1, <2>2, <4>1
        <5>. QED  BY <5>1, <5>2
      <4>2. CASE i = Len(log) + 1
        <5>1. log'[i] = e  BY <2>2, <4>2
        <5>2. \A j \in 1..i : intent[e.cmd].snap.applied[j] = log'[j]
          BY <1>1, <2>2, <2>3, <4>2
        <5>. QED  BY <1>1, <2>3, <4>2, <5>1, <5>2
      <4>. QED  BY <1>1, <2>2, <4>1, <4>2
    <3>. QED  BY <3>1 DEF LogHasIntents
  <2>7. PendingExtendsRoom' /\ DoneIsPublished'
    BY <2>4 DEF IInv, PendingExtendsRoom, DoneIsPublished, SameSnapshot, ExtendsRoom, StagesOne
  <2>8. \A d \in Entries, y \in Nat : DeadOrCurrent(d, y) => DeadOrCurrentNext(d, y)
    BY <1>1, <2>2 DEF DeadOrCurrent, DeadOrCurrentNext
  <2>9. ASSUME NEW h \in Handlers, hnd[h].pc = "failed"
        PROVE  hnd[h].stage.rev < Len(log') /\ ~Holds(log', hnd[h].cmd)
    <3>1. /\ hnd[h].stage.rev < Len(log) /\ ~Holds(log, hnd[h].cmd)
          /\ intent[hnd[h].cmd].exp = hnd[h].stage.rev
          /\ hnd[h].stage.rev \in Nat
      BY <2>9 DEF IInv, TypeOK, HandlerStates, RoomRows, FailedIsDead, IntentsOfHandlers, HasIntent
    <3>2. hnd[h].cmd # e.cmd  BY <1>1, <2>3, <3>1
    <3>3. \A j \in 1..Len(log) : log[j].cmd # hnd[h].cmd
      BY <1>1, <3>1 DEF Holds, Positions
    <3>4. \A j \in 1..(Len(log) + 1) : log'[j].cmd # hnd[h].cmd
      BY <1>1, <2>2, <3>2, <3>3
    <3>5. Positions(log', hnd[h].cmd) = {}
      BY <2>2, <3>4 DEF Positions
    <3>. QED  BY <1>1, <2>2, <3>1, <3>5 DEF Holds
  <2>10. processed' = processed => ProcessedIsDone'
    BY <1>1, <2>2, ProcessedStaysDone DEF IInv
  <2>. QED  BY <2>2, <2>4, <2>5, <2>6, <2>7, <2>8, <2>9, <2>10
<1>. QED  BY <1>2, <1>3

LEMMA AppendToLogStep ==
    ASSUME IInv, NEW h \in Handlers, AppendToLog(h)
    PROVE  IInv'
PROOF
<1> DEFINE st == hnd[h].stage
           c == hnd[h].cmd
           e == StagedEntry(st)
           out == AppendOutcome(e, st.rev)
<1>1. /\ UNCHANGED <<room, idem, intent, owner, processed, deck, late, lock, wrk>>
      /\ SameSnapshot
      /\ hnd[h].pc = "intent" /\ out.kind \in {"accepted", "duplicate"}
      /\ log' = Appended(e, st.rev)
      /\ hnd' = [hnd EXCEPT ![h].pc = "appended", ![h].at = out.at]
  BY DEF AppendToLog, SameSnapshot
<1>2. /\ c \in Commands /\ st \in RoomRows /\ st.rev \in Nat /\ st.applied \in Seq(Entries)
      /\ StagesOne(st, st.rev, c)
      /\ intent[c].status \in {"pending", "done"}
      /\ intent[c].exp = st.rev /\ intent[c].snap = st
      /\ hnd \in [Handlers -> HandlerStates]
      /\ log \in Seq(Entries)
  BY <1>1 DEF IInv, TypeOK, HandlerStates, RoomRows, HandlersExtendRoom, Staged,
              IntentsOfHandlers, HasIntent
<1>3. /\ e = st.applied[st.rev + 1] /\ e \in Entries /\ e.cmd = c
      /\ DeadOrCurrent(e, st.rev)
  BY <1>2 DEF StagedEntry, StagesOne, DeadOrCurrent
<1>. HIDE DEF e
<1>4. /\ log' \in Seq(Entries)
      /\ \A d \in Commands : Holds(log, d) => Holds(log', d)
      /\ processed' = processed => ProcessedIsDone'
      /\ SnapshotTrailsLog' /\ LogHasIntents' /\ PendingExtendsRoom' /\ DoneIsPublished'
      /\ \A d \in Entries, y \in Nat : DeadOrCurrent(d, y) => DeadOrCurrentNext(d, y)
      /\ \A g \in Handlers : hnd[g].pc = "failed" =>
                hnd[g].stage.rev < Len(log') /\ ~Holds(log', hnd[g].cmd)
  BY <1>1, <1>2, <1>3, LogGrows
<1>5. out.at = st.rev + 1 /\ Holds(log', c)
  <2>1. CASE out.kind = "accepted"
    <3>1. /\ st.rev = Len(log) /\ out.at = Len(log) + 1 /\ log' = Append(log, e)
      BY <1>1, <2>1, AppendAnswer
    <3>2. Len(log) + 1 \in DOMAIN log' /\ log'[Len(log) + 1] = e
      BY <1>2, <1>3, <3>1
    <3>. QED  BY <1>3, <3>1, <3>2 DEF Holds, Positions
  <2>2. CASE out.kind = "duplicate"
    <3>1. /\ out.at \in 1..Len(log) /\ log[out.at] = e /\ log' = log
      BY <1>1, <1>2, <2>2, AppendAnswer
    <3>2. intent[c].exp = out.at - 1
      <4>1. log[out.at].cmd = c  BY <1>3, <3>1
      <4>2. intent[log[out.at].cmd].exp = out.at - 1
        BY <3>1 DEF IInv, LogHasIntents
      <4>. QED  BY <4>1, <4>2
    <3>3. Holds(log, c)
      <4>1. PICK i \in 1..Len(log) : log[i] = e
        BY ONLY <3>1
      <4>2. log[i].cmd = c  BY ONLY <1>3, <4>1
      <4>3. i \in DOMAIN log  BY ONLY <1>2, <4>1
      <4>. QED  BY ONLY <4>2, <4>3 DEF Holds, Positions
    <3>. QED  BY <1>2, <3>1, <3>2, <3>3
  <2>. QED  BY <1>1, <2>1, <2>2
<1>. HIDE DEF out
<1>6. /\ hnd' \in [Handlers -> HandlerStates]
      /\ \A g \in Handlers : g # h => hnd'[g] = hnd[g]
      /\ hnd'[h].pc = "appended" /\ hnd'[h].cmd = c /\ hnd'[h].stage = st
      /\ hnd'[h].at = st.rev + 1
  <2>1. out.at \in Nat  BY <1>2, <1>5
  <2>. QED  BY <1>1, <1>2, <1>5, <2>1 DEF HandlerStates, HandlerPcs
<1>. HIDE DEF st, c
<1>7. TypeOK'
  BY <1>1, <1>4, <1>6 DEF IInv, TypeOK
<1>8. HandlersExtendRoom'
  BY <1>1, <1>6 DEF st, c, IInv, HandlersExtendRoom, ExtendsRoom, StagesOne, Staged
<1>9. LockHolderIsCurrent'
  BY <1>1, <1>6 DEF st, c, IInv, LockHolderIsCurrent, Exists
<1>10. IntentsOfHandlers'
  BY <1>1, <1>6 DEF st, c, IInv, IntentsOfHandlers, HasIntent
<1>11. FailedIsDead'
  BY <1>4, <1>6 DEF FailedIsDead, Holds, Positions
<1>12. AppendedIsLogged'
  <2> SUFFICES ASSUME NEW g \in Handlers, hnd'[g].pc \in {"appended", "confirmed", "finalized"}
               PROVE  hnd'[g].at = hnd'[g].stage.rev + 1 /\ Holds(log', hnd'[g].cmd)
    BY DEF AppendedIsLogged, Holds, Positions
  <2>1. CASE g = h  BY <1>5, <1>6, <2>1
  <2>2. CASE g # h
    BY <1>4, <1>6, <2>2 DEF IInv, AppendedIsLogged, HandlersExtendRoom
  <2>. QED  BY <2>1, <2>2
<1>13. RequestsDeadOrCurrent'
  BY <1>1, <1>4, RequestsKept DEF IInv
<1>14. FencedIsCurrent'
  BY <1>1, <1>4 DEF IInv, FencedIsCurrent, Fenced, RequestsDeadOrCurrent, Holds, Positions
<1>. QED
  BY <1>1, <1>4, <1>7, <1>8, <1>9, <1>10, <1>11, <1>12, <1>13, <1>14,
     FrameDeck DEF IInv

LEMMA AppendRefusedStep ==
    ASSUME IInv, NEW h \in Handlers, AppendRefused(h)
    PROVE  IInv'
PROOF
<1> DEFINE st == hnd[h].stage
           c == hnd[h].cmd
           e == StagedEntry(st)
<1>1. /\ UNCHANGED <<room, idem, intent, owner, processed, log, deck, late, wrk>>
      /\ SameSnapshot
      /\ hnd[h].pc = "intent" /\ Unlock(h) /\ Go(h, "failed")
      /\ AppendOutcome(e, st.rev).kind \in {"revision_mismatch", "conflict"}
  BY DEF AppendRefused, SameSnapshot
<1>2. /\ c \in Commands /\ st.rev \in Nat /\ st.applied \in Seq(Entries)
      /\ StagesOne(st, st.rev, c) /\ ExtendsRoom(st)
      /\ intent[c].exp = st.rev /\ intent[c].snap = st
      /\ log \in Seq(Entries) /\ DOMAIN log = 1..Len(log) /\ Len(log) \in Nat
      /\ room.applied \in Seq(Entries)
  BY <1>1 DEF IInv, TypeOK, HandlerStates, RoomRows, HandlersExtendRoom, Staged,
              IntentsOfHandlers, HasIntent
<1>3. e = st.applied[st.rev + 1] /\ e.cmd = c
  BY <1>2 DEF StagedEntry, StagesOne
<1>. HIDE DEF e
<1>4. \A i \in DOMAIN log : log[i].cmd = c => log[i] = e
  <2> SUFFICES ASSUME NEW i \in 1..Len(log), log[i].cmd = c
               PROVE  log[i] = e
    BY <1>2
  <2>1. /\ intent[c].exp = i - 1 /\ intent[c].snap.applied[i] = log[i]
    BY DEF IInv, LogHasIntents
  <2>2. i = st.rev + 1  BY <1>2, <2>1
  <2>. QED  BY <1>2, <1>3, <2>1, <2>2
<1>5. ~Holds(log, c) /\ st.rev # Len(log)
  BY <1>1, <1>3, <1>4, AppendAnswer
<1>6. st.rev < Len(log)
  <2>1. st.rev <= Len(room.applied) /\ Len(room.applied) <= Len(log)
    BY <1>2 DEF ExtendsRoom, IInv, SnapshotTrailsLog, IsPrefixOf
  <2>. QED  BY <1>2, <1>5, <2>1
<1>. HIDE DEF st, c
<1>7. /\ hnd' \in [Handlers -> HandlerStates]
      /\ \A g \in Handlers : g # h => hnd'[g] = hnd[g]
      /\ hnd'[h].pc = "failed" /\ hnd'[h].cmd = c /\ hnd'[h].stage = st
      /\ lock' \in Handlers \cup {None}
      /\ \A g \in Handlers : lock' = g => lock = g /\ g # h
  BY <1>1, GoEffect, UnlockEffect DEF st, c, IInv, TypeOK, HandlerPcs
<1>8. TypeOK'
  BY <1>1, <1>7 DEF IInv, TypeOK
<1>9. HandlersExtendRoom'
  BY <1>1, <1>7 DEF st, c, IInv, HandlersExtendRoom, ExtendsRoom, StagesOne, Staged
<1>10. LockHolderIsCurrent'
  BY <1>1, <1>7 DEF IInv, LockHolderIsCurrent, Exists
<1>11. IntentsOfHandlers'
  BY <1>1, <1>7 DEF st, c, IInv, IntentsOfHandlers, HasIntent
<1>12. FailedIsDead' /\ AppendedIsLogged'
  BY <1>1, <1>5, <1>6, <1>7 DEF IInv, FailedIsDead, AppendedIsLogged, Holds, Positions
<1>. QED
  BY <1>1, <1>8, <1>9, <1>10, <1>11, <1>12, FrameDeck, FrameSnapshot, FrameLogHasIntents,
     FramePending, FrameDone, FrameRequests, FrameFenced, FrameProcessed DEF IInv

LEMMA AppendTimesOutStep ==
    ASSUME IInv, NEW h \in Handlers, AppendTimesOut(h)
    PROVE  IInv'
PROOF
<1> DEFINE st == hnd[h].stage
           c == hnd[h].cmd
           e == StagedEntry(st)
<1>1. /\ UNCHANGED <<room, idem, intent, owner, processed, log, deck, wrk>>
      /\ SameSnapshot
      /\ hnd[h].pc = "intent" /\ Unlock(h) /\ ToIdle(h)
      /\ late' = late \cup {[entry |-> e, exp |-> st.rev]}
  BY DEF AppendTimesOut, SameSnapshot
<1>2. /\ c \in Commands /\ st \in RoomRows /\ st.rev \in Nat /\ st.applied \in Seq(Entries)
      /\ StagesOne(st, st.rev, c)
      /\ intent[c].status \in {"pending", "done"}
      /\ intent[c].exp = st.rev /\ intent[c].snap = st
  BY <1>1 DEF IInv, TypeOK, HandlerStates, RoomRows, HandlersExtendRoom, Staged,
              IntentsOfHandlers, HasIntent
<1>3. /\ e \in Entries /\ e.cmd = c /\ e = st.applied[st.rev + 1]
  BY <1>2 DEF StagedEntry, StagesOne
<1>. HIDE DEF e
<1>4. /\ hnd' \in [Handlers -> HandlerStates]
      /\ lock' \in Handlers \cup {None}
      /\ \A g \in Handlers : lock' = g => lock = g /\ g # h
  BY <1>1, ToIdleEffect, UnlockEffect DEF IInv, TypeOK
<1>5. late' \subseteq Requests
  BY <1>1, <1>2, <1>3 DEF IInv, TypeOK, Requests
<1>6. TypeOK'
  BY <1>1, <1>4, <1>5 DEF IInv, TypeOK
<1>7. /\ HandlersExtendRoom' /\ LockHolderIsCurrent' /\ IntentsOfHandlers'
      /\ FailedIsDead' /\ AppendedIsLogged'
  BY <1>1, <1>4, HandlerLeaves DEF IInv
<1>8. RequestsDeadOrCurrent'
  <2>1. \A d \in Entries, y \in Nat : DeadOrCurrent(d, y) => DeadOrCurrentNext(d, y)
    BY <1>1 DEF DeadOrCurrent, DeadOrCurrentNext
  <2>2. DeadOrCurrentNext(e, st.rev)
    BY <1>1, <1>2, <1>3 DEF DeadOrCurrentNext
  <2>3. \A m \in late' : m \in late \/ DeadOrCurrentNext(m.entry, m.exp)
    BY <1>1, <2>2
  <2>. QED  BY <1>1, <2>1, <2>3, RequestsKept DEF IInv
<1>. QED
  BY <1>1, <1>6, <1>7, <1>8, FrameDeck, FrameSnapshot, FrameLogHasIntents,
     FramePending, FrameDone, FrameFenced, FrameProcessed DEF IInv

LEMMA ConfirmReservationStep ==
    ASSUME IInv, NEW h \in Handlers, ConfirmReservation(h)
    PROVE  IInv'
PROOF
<1>1. /\ UNCHANGED <<room, idem, intent, owner, processed, log, late, lock, wrk>>
      /\ SameSnapshot
      /\ hnd[h].pc = "appended" /\ Go(h, "confirmed")
      /\ CanConfirm(hnd[h].cmd) /\ deck' = Confirmed(hnd[h].cmd)
  BY DEF ConfirmReservation, SameSnapshot
<1>2. /\ hnd' \in [Handlers -> HandlerStates]
      /\ \A g \in Handlers : g # h => hnd'[g] = hnd[g]
      /\ hnd'[h].pc = "confirmed" /\ hnd'[h].cmd = hnd[h].cmd
      /\ hnd'[h].stage = hnd[h].stage /\ hnd'[h].at = hnd[h].at
  BY <1>1, GoEffect DEF IInv, TypeOK, HandlerPcs
<1>3. deck' \in DeckStates /\ DeckBound'
  <2>1. hnd[h].cmd \in Commands /\ deck \in DeckStates /\ DeckBound
    BY <1>1 DEF IInv, TypeOK, HandlersExtendRoom
  <2>. QED  BY <1>1, <2>1, SettlementEffect
<1>4. TypeOK'
  BY <1>1, <1>2, <1>3 DEF IInv, TypeOK
<1>5. HandlersExtendRoom'
  BY <1>1, <1>2 DEF IInv, HandlersExtendRoom, ExtendsRoom, StagesOne, Staged
<1>6. LockHolderIsCurrent'
  BY <1>1, <1>2 DEF IInv, LockHolderIsCurrent, Exists
<1>7. IntentsOfHandlers'
  BY <1>1, <1>2 DEF IInv, IntentsOfHandlers, HasIntent
<1>8. FailedIsDead' /\ AppendedIsLogged'
  BY <1>1, <1>2 DEF IInv, FailedIsDead, AppendedIsLogged, Holds, Positions
<1>. QED
  BY <1>1, <1>3, <1>4, <1>5, <1>6, <1>7, <1>8, FrameSnapshot, FrameLogHasIntents,
     FramePending, FrameDone, FrameRequests, FrameFenced, FrameProcessed DEF IInv

-----------------------------------------------------------------------------
(* An intent changes its status or learns its revision                     *)

\* Intents keep their snapshots; a pending one may become something else.
IntentsKeep ==
    /\ intent' \in [Commands -> IntentRows]
    /\ \A c \in Commands : /\ intent'[c].exp = intent[c].exp
                           /\ intent'[c].snap = intent[c].snap
                           /\ intent'[c].status = "pending" => intent[c].status = "pending"

LEMMA StatusEffect ==
    ASSUME intent \in [Commands -> IntentRows], NEW c \in Commands,
           NEW s \in {"none", "pending", "cancelled", "done"},
           intent' = [intent EXCEPT ![c].status = s],
           intent[c].status = "pending" \/ s = intent[c].status
    PROVE  /\ IntentsKeep
           /\ intent'[c].status = s
           /\ \A d \in Commands : intent'[d].at = intent[d].at
           /\ \A d \in Commands : d # c => intent'[d] = intent[d]
  BY DEF IntentRows, IntentsKeep

LEMMA RevisionEffect ==
    ASSUME intent \in [Commands -> IntentRows], NEW c \in Commands, NEW n \in Nat,
           intent' = [intent EXCEPT ![c].at = n]
    PROVE  /\ IntentsKeep
           /\ intent'[c].at = n
           /\ \A d \in Commands : intent'[d].status = intent[d].status
           /\ \A d \in Commands : d # c => intent'[d] = intent[d]
  BY DEF IntentRows, IntentsKeep

\* Intents that stay pending still extend the Room.
LEMMA FewerPending ==
    ASSUME PendingExtendsRoom, SameSnapshot, log' = log, IntentsKeep,
           \A d \in Commands : intent'[d].at = intent[d].at
    PROVE  PendingExtendsRoom'
PROOF
<1> SUFFICES ASSUME NEW d \in Commands, intent'[d].status = "pending"
             PROVE  /\ intent'[d].exp = intent'[d].snap.rev
                    /\ ExtendsRoom(intent[d].snap)'
                    /\ StagesOne(intent'[d].snap, intent'[d].exp, d)
                    /\ intent'[d].at # 0 => intent'[d].at = intent'[d].exp + 1 /\ Holds(log, d)
  BY DEF PendingExtendsRoom, StagesOne, Holds, Positions
<1>1. /\ intent[d].status = "pending" /\ intent'[d].at = intent[d].at
      /\ intent'[d].exp = intent[d].exp /\ intent'[d].snap = intent[d].snap
  BY DEF IntentsKeep
<1>2. /\ intent[d].exp = intent[d].snap.rev /\ ExtendsRoom(intent[d].snap)
      /\ StagesOne(intent[d].snap, intent[d].exp, d)
      /\ intent[d].at # 0 => intent[d].at = intent[d].exp + 1 /\ Holds(log, d)
  BY <1>1 DEF PendingExtendsRoom
<1>3. ExtendsRoom(intent[d].snap)'
  BY <1>1, <1>2 DEF ExtendsRoom, SameSnapshot
<1>. QED  BY <1>1, <1>2, <1>3

\* An intent that learns its revision still extends the Room.
LEMMA RevisionKeepsPending ==
    ASSUME PendingExtendsRoom, SameSnapshot, log' = log, IntentsKeep,
           NEW c \in Commands, Holds(log, c), intent'[c].at = intent[c].exp + 1,
           \A d \in Commands : d # c => intent'[d] = intent[d]
    PROVE  PendingExtendsRoom'
PROOF
<1> SUFFICES ASSUME NEW d \in Commands, intent'[d].status = "pending"
             PROVE  /\ intent'[d].exp = intent'[d].snap.rev
                    /\ ExtendsRoom(intent[d].snap)'
                    /\ StagesOne(intent'[d].snap, intent'[d].exp, d)
                    /\ intent'[d].at # 0 => intent'[d].at = intent'[d].exp + 1 /\ Holds(log, d)
  BY DEF PendingExtendsRoom, StagesOne, Holds, Positions
<1>1. /\ intent[d].status = "pending"
      /\ intent'[d].exp = intent[d].exp /\ intent'[d].snap = intent[d].snap
  BY DEF IntentsKeep
<1>2. /\ intent[d].exp = intent[d].snap.rev /\ ExtendsRoom(intent[d].snap)
      /\ StagesOne(intent[d].snap, intent[d].exp, d)
      /\ intent[d].at # 0 => intent[d].at = intent[d].exp + 1 /\ Holds(log, d)
  BY <1>1 DEF PendingExtendsRoom
<1>3. ExtendsRoom(intent[d].snap)'
  BY <1>1, <1>2 DEF ExtendsRoom, SameSnapshot
<1>. QED  BY <1>1, <1>2, <1>3

\* While no intent in the log is given up, the log and the requests stay covered.
LEMMA IntentsStay ==
    ASSUME TypeOK, LogHasIntents, IntentsOfHandlers, HandlersExtendRoom, IntentsKeep,
           log' = log,
           \A g \in Handlers : HasIntent(g)' =>
              /\ HasIntent(g)
              /\ hnd'[g].cmd = hnd[g].cmd /\ hnd'[g].stage = hnd[g].stage,
           \A d \in Commands : intent[d].status \in {"pending", "done"}
                                => intent'[d].status \in {"pending", "done"}
    PROVE  /\ LogHasIntents' /\ IntentsOfHandlers'
           /\ \A e \in Entries, y \in Nat : DeadOrCurrent(e, y) => DeadOrCurrentNext(e, y)
PROOF
<1>1. LogHasIntents'
  <2>1. \A i \in 1..Len(log) : log[i].cmd \in Commands
    BY LogEntries DEF TypeOK
  <2>. QED  BY <2>1 DEF LogHasIntents, IntentsKeep
<1>2. IntentsOfHandlers'
  BY DEF IntentsOfHandlers, HandlersExtendRoom, HasIntent, IntentsKeep
<1>3. ASSUME NEW e \in Entries, NEW y \in Nat, DeadOrCurrent(e, y)
      PROVE  DeadOrCurrentNext(e, y)
  <2>1. e.cmd \in Commands  BY DEF Entries
  <2>. QED  BY <1>3, <2>1 DEF DeadOrCurrent, DeadOrCurrentNext, IntentsKeep
<1>. QED  BY <1>1, <1>2, <1>3

LEMMA FinalizeIntentStep ==
    ASSUME IInv, NEW h \in Handlers, FinalizeIntent(h)
    PROVE  IInv'
PROOF
<1> DEFINE c == hnd[h].cmd
           n == hnd[h].at
<1>1. /\ UNCHANGED <<room, idem, owner, processed, log, deck, late, lock, wrk>>
      /\ SameSnapshot
      /\ hnd[h].pc \in {"appended", "confirmed"} /\ Go(h, "finalized")
      /\ intent[c].status = "pending"
      /\ intent' = [intent EXCEPT ![c].at = n]
  BY DEF FinalizeIntent, SameSnapshot
<1>2. /\ c \in Commands /\ n \in Nat /\ intent \in [Commands -> IntentRows]
      /\ n = intent[c].exp + 1 /\ Holds(log, c)
  BY <1>1 DEF IInv, TypeOK, HandlerStates, HandlersExtendRoom, IntentsOfHandlers,
              HasIntent, AppendedIsLogged
<1>3. /\ hnd' \in [Handlers -> HandlerStates]
      /\ \A g \in Handlers : g # h => hnd'[g] = hnd[g]
      /\ hnd'[h].pc = "finalized" /\ hnd'[h].cmd = hnd[h].cmd
      /\ hnd'[h].stage = hnd[h].stage /\ hnd'[h].at = hnd[h].at
  BY <1>1, GoEffect DEF IInv, TypeOK, HandlerPcs
<1>. HIDE DEF c, n
<1>4. /\ IntentsKeep /\ intent'[c].at = n
      /\ \A d \in Commands : intent'[d].status = intent[d].status
      /\ \A d \in Commands : d # c => intent'[d] = intent[d]
  BY <1>1, <1>2, RevisionEffect
<1>5. TypeOK'
  BY <1>1, <1>3, <1>4 DEF IInv, TypeOK, IntentsKeep
<1>6. HandlersExtendRoom'
  BY <1>1, <1>3 DEF IInv, HandlersExtendRoom, ExtendsRoom, StagesOne, Staged
<1>7. LockHolderIsCurrent'
  BY <1>1, <1>3 DEF IInv, LockHolderIsCurrent, Exists
<1>8. /\ LogHasIntents' /\ IntentsOfHandlers'
      /\ \A e \in Entries, y \in Nat : DeadOrCurrent(e, y) => DeadOrCurrentNext(e, y)
  <2>1. \A g \in Handlers : HasIntent(g)' =>
              /\ HasIntent(g)
              /\ hnd'[g].cmd = hnd[g].cmd /\ hnd'[g].stage = hnd[g].stage
    BY <1>1, <1>3 DEF HasIntent
  <2>. QED  BY <1>1, <1>4, <2>1, IntentsStay DEF IInv
<1>9. FailedIsDead' /\ AppendedIsLogged'
  BY <1>1, <1>3 DEF IInv, FailedIsDead, AppendedIsLogged, Holds, Positions
<1>10. PendingExtendsRoom'
  BY <1>1, <1>2, <1>4, RevisionKeepsPending DEF IInv
<1>11. DoneIsPublished'
  BY <1>1, <1>4 DEF IInv, DoneIsPublished, SameSnapshot, IntentsKeep, Holds, Positions
<1>12. RequestsDeadOrCurrent'
  BY <1>1, <1>8, RequestsKept DEF IInv
<1>13. FencedIsCurrent'
  BY <1>1, <1>4 DEF IInv, FencedIsCurrent, Fenced, IntentsKeep, RequestsDeadOrCurrent,
                    Holds, Positions
<1>14. ProcessedIsDone'
  BY <1>1, <1>4, ProcessedStaysDone DEF IInv, TypeOK
<1>. QED
  BY <1>1, <1>14, <1>5, <1>6, <1>7, <1>8, <1>9, <1>10, <1>11, <1>12, <1>13,
     FrameDeck, FrameSnapshot DEF IInv

LEMMA CancelIntentStep ==
    ASSUME IInv, NEW h \in Handlers, CancelIntent(h)
    PROVE  IInv'
PROOF
<1> DEFINE c == hnd[h].cmd
           s == IF intent[c].status = "pending" THEN "cancelled" ELSE intent[c].status
<1>1. /\ UNCHANGED <<room, idem, owner, processed, log, deck, late, lock, wrk>>
      /\ SameSnapshot
      /\ hnd[h].pc = "failed" /\ ToIdle(h)
      /\ intent' = [intent EXCEPT ![c].status = s]
  BY DEF CancelIntent, SameSnapshot
<1>2. /\ c \in Commands /\ intent \in [Commands -> IntentRows]
      /\ intent[c].exp < Len(log) /\ ~Holds(log, c)
      /\ log \in Seq(Entries) /\ DOMAIN log = 1..Len(log)
  BY <1>1 DEF IInv, TypeOK, HandlersExtendRoom, IntentsOfHandlers, HasIntent, FailedIsDead
<1>3. /\ hnd' \in [Handlers -> HandlerStates]
      /\ \A g \in Handlers : g # h => hnd'[g] = hnd[g]
      /\ hnd'[h].pc = "idle"
      /\ \A g \in Handlers : lock' = g => lock = g /\ g # h
  BY <1>1, ToIdleEffect DEF IInv, TypeOK, LockHolderIsCurrent
<1>4. /\ IntentsKeep /\ intent'[c].status = s
      /\ \A d \in Commands : intent'[d].at = intent[d].at
      /\ \A d \in Commands : d # c => intent'[d] = intent[d]
  <2>1. s \in {"none", "pending", "cancelled", "done"}
    BY <1>2 DEF IntentRows
  <2>2. intent[c].status = "pending" \/ s = intent[c].status
    OBVIOUS
  <2>. HIDE DEF s, c
  <2>. QED  BY <1>1, <1>2, <2>1, <2>2, StatusEffect
<1>5. intent'[c].status = "done" <=> intent[c].status = "done"
  BY <1>4
<1>. HIDE DEF s
<1>6. TypeOK'
  BY <1>1, <1>3, <1>4 DEF IInv, TypeOK, IntentsKeep
<1>7. HandlersExtendRoom'
  BY <1>1, <1>3 DEF IInv, HandlersExtendRoom, SameSnapshot, ExtendsRoom, StagesOne, Staged
<1>8. LockHolderIsCurrent'
  BY <1>1, <1>3 DEF IInv, LockHolderIsCurrent, SameSnapshot, Exists
<1>9. IntentsOfHandlers'
  <2>1. \A g \in Handlers : HasIntent(g)' => HasIntent(g) /\ hnd'[g] = hnd[g] /\ hnd[g].cmd \in Commands
    BY <1>1, <1>3 DEF HasIntent, IInv, HandlersExtendRoom
  <2>2. \A g \in Handlers : HasIntent(g)' => hnd[g].cmd # c
    BY <1>1, <1>3, <2>1 DEF HasIntent, IInv, IntentsOfHandlers
  <2>. QED  BY <1>4, <2>1, <2>2 DEF IInv, IntentsOfHandlers, HasIntent
<1>10. FailedIsDead' /\ AppendedIsLogged'
  BY <1>1, <1>3 DEF IInv, FailedIsDead, AppendedIsLogged, Holds, Positions
<1>11. LogHasIntents'
  <2>1. \A i \in 1..Len(log) : log[i].cmd \in Commands /\ log[i].cmd # c
    BY <1>2, LogEntries DEF Holds, Positions
  <2>. QED  BY <1>1, <1>4, <2>1 DEF IInv, LogHasIntents
<1>12. PendingExtendsRoom'
  BY <1>1, <1>4, FewerPending DEF IInv
<1>13. DoneIsPublished'
  BY <1>1, <1>4, <1>5 DEF IInv, DoneIsPublished, SameSnapshot, IntentsKeep, Holds, Positions
<1>14. RequestsDeadOrCurrent'
  <2>1. ASSUME NEW e \in Entries, NEW y \in Nat, DeadOrCurrent(e, y)
        PROVE  DeadOrCurrentNext(e, y)
    <3>1. e.cmd \in Commands  BY DEF Entries
    <3>2. CASE e.cmd = c
      BY <1>1, <1>2, <2>1, <3>2 DEF DeadOrCurrent, DeadOrCurrentNext
    <3>3. CASE e.cmd # c
      BY <1>1, <1>4, <2>1, <3>1, <3>3 DEF DeadOrCurrent, DeadOrCurrentNext
    <3>. QED  BY <3>2, <3>3
  <2>. QED  BY <1>1, <2>1, RequestsKept DEF IInv
<1>15. FencedIsCurrent'
  BY <1>1, <1>4 DEF IInv, FencedIsCurrent, Fenced, IntentsKeep, RequestsDeadOrCurrent,
                    Holds, Positions
<1>16. ProcessedIsDone'
  <2>1. \A d \in Commands : intent[d].status = "done" => intent'[d].status = "done"
    BY <1>4, <1>5
  <2>. QED  BY <1>1, <1>2, <2>1, ProcessedStaysDone DEF IInv, TypeOK
<1>. QED
  BY <1>1, <1>16, <1>6, <1>7, <1>8, <1>9, <1>10, <1>11, <1>12, <1>13, <1>14, <1>15,
     FrameDeck, FrameSnapshot DEF IInv

-----------------------------------------------------------------------------
(* The Room catches up with the log                                        *)

\* A command in the log: its intent's snapshot is the log up to its entry.
LEMMA IntentSnapshotIsLog ==
    ASSUME TypeOK, LogHasIntents, NEW c \in Commands, Holds(log, c)
    PROVE  /\ intent[c].exp + 1 \in 1..Len(log)
           /\ log[intent[c].exp + 1].cmd = c
           /\ intent[c].status \in {"pending", "done"}
           /\ Len(intent[c].snap.applied) = intent[c].exp + 1
           /\ \A i \in 1..(intent[c].exp + 1) : intent[c].snap.applied[i] = log[i]
PROOF
<1>1. log \in Seq(Entries) /\ DOMAIN log = 1..Len(log) /\ intent[c].exp \in Nat
  BY DEF TypeOK, IntentRows
<1>2. PICK i \in 1..Len(log) : log[i].cmd = c
  BY <1>1 DEF Holds, Positions
<1>3. /\ intent[c].status \in {"pending", "done"} /\ intent[c].exp = i - 1
      /\ Len(intent[c].snap.applied) = i
      /\ \A j \in 1..i : intent[c].snap.applied[j] = log[j]
  BY <1>2 DEF LogHasIntents
<1>4. i = intent[c].exp + 1  BY <1>1, <1>3
<1>. QED  BY <1>2, <1>3, <1>4

\* The revision a commit or a repair records is the one its intent closes at.
LEMMA PublishedIsDone ==
    ASSUME TypeOK, LogHasIntents, ProcessedIsDone, NEW c \in Commands, Holds(log, c),
           log' = log, processed' = processed \cup {intent[c].exp + 1},
           intent' = [intent EXCEPT ![c].status = "done"]
    PROVE  ProcessedIsDone'
PROOF
<1>1. /\ intent[c].exp + 1 \in 1..Len(log) /\ log[intent[c].exp + 1].cmd = c
      /\ intent \in [Commands -> IntentRows]
  BY IntentSnapshotIsLog DEF TypeOK
<1>2. /\ intent'[c].status = "done"
      /\ \A d \in Commands : d # c => intent'[d] = intent[d]
  BY <1>1
<1>3. \A n \in processed : /\ n \in 1..Len(log) /\ log[n].cmd \in Commands
                           /\ intent[log[n].cmd].status = "done"
  BY LogEntries DEF TypeOK, ProcessedIsDone
<1> SUFFICES ASSUME NEW n \in processed'
             PROVE  n \in 1..Len(log) /\ intent'[log[n].cmd].status = "done"
  BY DEF ProcessedIsDone
<1>. QED  BY <1>1, <1>2, <1>3

\* Everything that was behind the old snapshot is behind the new one.
RoomKeeps ==
    /\ Len(room.applied) <= Len(room'.applied)
    /\ \A i \in 1..Len(room.applied) : room'.applied[i] = room.applied[i]

LEMMA PublishesLog ==
    ASSUME TypeOK, SnapshotTrailsLog, LogHasIntents,
           NEW c \in Commands, Holds(log, c), intent[c].exp = Len(room.applied),
           room'.applied = intent[c].snap.applied, room'.rev = intent[c].exp + 1,
           log' = log
    PROVE  /\ SnapshotTrailsLog' /\ RoomKeeps
           /\ Len(room'.applied) = Len(log) /\ Len(log) = Len(room.applied) + 1
           /\ \A i \in 1..Len(log) : room'.applied[i] = log[i]
           /\ Exists(room)'
PROOF
<1>1. /\ log \in Seq(Entries) /\ Len(log) \in Nat /\ intent[c].snap \in RoomRows
      /\ intent[c].snap.applied \in Seq(Entries)
      /\ room.applied \in Seq(Entries) /\ Len(room.applied) \in Nat
      /\ DOMAIN room.applied = 1..Len(room.applied)
      /\ Len(log) <= Len(room.applied) + 1
      /\ \A i \in 1..Len(room.applied) : room.applied[i] = log[i]
      /\ Len(room.applied) <= Len(log)
  BY DEF TypeOK, IntentRows, RoomRows, SnapshotTrailsLog, IsPrefixOf
<1>2. /\ Len(room.applied) + 1 \in 1..Len(log)
      /\ Len(room'.applied) = Len(room.applied) + 1
      /\ \A i \in 1..(Len(room.applied) + 1) : room'.applied[i] = log[i]
      /\ room'.applied \in Seq(Entries) /\ room'.rev = Len(room.applied) + 1
  BY <1>1, IntentSnapshotIsLog
<1>3. Len(log) = Len(room.applied) + 1  BY <1>1, <1>2
<1>4. SnapshotTrailsLog'
  BY <1>1, <1>2, <1>3 DEF SnapshotTrailsLog, IsPrefixOf
<1>5. Exists(room)'
  BY <1>1, <1>2 DEF Exists
<1>. QED  BY <1>1, <1>2, <1>3, <1>4, <1>5 DEF RoomKeeps

\* What the intents and stages say of the Room survives the publication.
LEMMA RoomMovesOn ==
    ASSUME TypeOK, RoomKeeps, NEW st \in RoomRows, ExtendsRoom(st)
    PROVE  /\ st.rev <= Len(room'.applied)
           /\ \A i \in 1..st.rev : st.applied[i] = room'.applied[i]
  BY DEF TypeOK, RoomRows, RoomKeeps, ExtendsRoom

\* An intent is closed as done, with its revision published.
LEMMA ClosesIntent ==
    ASSUME IInv, NEW c \in Commands, Holds(log, c),
           intent[c].status \in {"pending", "done"},
           intent' = [intent EXCEPT ![c].status = "done"],
           room' \in RoomRows, RoomKeeps, intent[c].exp < Len(room'.applied), log' = log,
           \A g \in Handlers : HasIntent(g)' =>
              /\ HasIntent(g)
              /\ hnd'[g].cmd = hnd[g].cmd /\ hnd'[g].stage = hnd[g].stage
    PROVE  /\ intent' \in [Commands -> IntentRows]
           /\ LogHasIntents' /\ IntentsOfHandlers' /\ PendingExtendsRoom' /\ DoneIsPublished'
           /\ \A e \in Entries, y \in Nat : DeadOrCurrent(e, y) => DeadOrCurrentNext(e, y)
           /\ \A d \in Commands : /\ intent'[d].exp = intent[d].exp
                                  /\ intent'[d].snap = intent[d].snap
                                  /\ intent'[d].status = "pending" => intent[d].status = "pending"
PROOF
<1>1. intent \in [Commands -> IntentRows]  BY DEF IInv, TypeOK
<1>2. /\ IntentsKeep /\ intent'[c].status = "done"
      /\ \A d \in Commands : intent'[d].at = intent[d].at
      /\ \A d \in Commands : d # c => intent'[d] = intent[d]
  BY <1>1, StatusEffect
<1>3. /\ LogHasIntents' /\ IntentsOfHandlers'
      /\ \A e \in Entries, y \in Nat : DeadOrCurrent(e, y) => DeadOrCurrentNext(e, y)
  <2>1. \A d \in Commands : intent[d].status \in {"pending", "done"}
                                => intent'[d].status \in {"pending", "done"}
    BY <1>2
  <2>. QED  BY <1>2, <2>1, IntentsStay DEF IInv
<1>4. PendingExtendsRoom'
  <2> SUFFICES ASSUME NEW d \in Commands, intent'[d].status = "pending"
               PROVE  /\ intent'[d].exp = intent'[d].snap.rev
                      /\ ExtendsRoom(intent[d].snap)'
                      /\ StagesOne(intent'[d].snap, intent'[d].exp, d)
                      /\ intent'[d].at # 0 => intent'[d].at = intent'[d].exp + 1 /\ Holds(log, d)
    BY DEF PendingExtendsRoom, StagesOne, Holds, Positions
  <2>1. /\ intent'[d] = intent[d] /\ intent[d].status = "pending" /\ intent[d].snap \in RoomRows
    BY <1>1, <1>2 DEF IntentRows
  <2>2. ExtendsRoom(intent[d].snap)  BY <2>1 DEF IInv, PendingExtendsRoom
  <2>3. ExtendsRoom(intent[d].snap)'
    BY <2>1, <2>2, RoomMovesOn DEF ExtendsRoom, IInv
  <2>. QED  BY <2>1, <2>3 DEF IInv, PendingExtendsRoom
<1>5. DoneIsPublished'
  <2> SUFFICES ASSUME NEW d \in Commands, intent'[d].status = "done"
               PROVE  Holds(log, d) /\ intent[d].exp < Len(room'.applied)
    BY <1>2 DEF DoneIsPublished, Holds, Positions, IntentsKeep
  <2>1. CASE d = c  BY <2>1
  <2>2. CASE d # c
    <3>1. Holds(log, d) /\ intent[d].exp < Len(room.applied) /\ intent[d].exp \in Nat
          /\ Len(room.applied) \in Nat /\ Len(room'.applied) \in Nat
      BY <1>1, <1>2, <2>2 DEF IInv, TypeOK, IntentRows, RoomRows, DoneIsPublished
    <3>. QED  BY <3>1 DEF RoomKeeps
  <2>. QED  BY <2>1, <2>2
<1>. QED  BY <1>2, <1>3, <1>4, <1>5 DEF IntentsKeep

LEMMA CommitAcceptedStep ==
    ASSUME IInv, NEW h \in Handlers, CommitAccepted(h)
    PROVE  IInv' /\ (log' = log /\ Len(log) = Len(room.applied) + 1
                     /\ Len(room'.applied) = Len(log)
                     /\ \A i \in 1..Len(log) : room'.applied[i] = log[i])
PROOF
<1> DEFINE c == hnd[h].cmd
           st == hnd[h].stage
           n == hnd[h].at
<1>1. /\ UNCHANGED <<owner, log, deck, late, wrk>>
      /\ hnd[h].pc = "finalized" /\ Unlock(h) /\ ToIdle(h)
      /\ IF c \in CreateCommands THEN ~Exists(room) ELSE lock = h
      /\ room' = [st EXCEPT !.rev = n]
      /\ idem' = FirstOutcome(c, "accepted")
      /\ intent' = [intent EXCEPT ![c].status = IF @ = "pending" THEN "done" ELSE @]
      /\ processed' = processed \cup {n}
  BY DEF CommitAccepted
<1>2. /\ c \in Commands /\ st \in RoomRows /\ ExtendsRoom(st)
      /\ n \in Nat /\ n = st.rev + 1 /\ Holds(log, c)
      /\ intent \in [Commands -> IntentRows]
      /\ intent[c].status \in {"pending", "done"}
      /\ intent[c].exp = st.rev /\ intent[c].snap = st
      /\ room.applied \in Seq(Entries) /\ Len(room.applied) \in Nat /\ st.rev \in Nat
  BY <1>1 DEF IInv, TypeOK, HandlerStates, RoomRows, HandlersExtendRoom, IntentsOfHandlers,
              HasIntent, AppendedIsLogged
<1>3. st.rev = Len(room.applied)
  <2>1. CASE c \in CreateCommands
    <3>1. Len(room.applied) = 0  BY <1>1, <1>2, <2>1 DEF Exists
    <3>. QED  BY <1>2, <3>1 DEF ExtendsRoom
  <2>2. CASE c \notin CreateCommands
    BY <1>1, <2>2 DEF IInv, LockHolderIsCurrent
  <2>. QED  BY <2>1, <2>2
<1>4. room' \in RoomRows /\ room'.applied = st.applied /\ room'.rev = n
  BY <1>1, <1>2 DEF RoomRows
<1>5. intent' = [intent EXCEPT ![c].status = "done"]
  BY <1>1, <1>2
<1>. HIDE DEF c, st, n
<1>6. /\ SnapshotTrailsLog' /\ RoomKeeps
      /\ Len(room'.applied) = Len(log) /\ Len(log) = Len(room.applied) + 1
      /\ \A i \in 1..Len(log) : room'.applied[i] = log[i]
  BY <1>1, <1>2, <1>3, <1>4, PublishesLog DEF IInv
<1>7. /\ hnd' \in [Handlers -> HandlerStates]
      /\ \A g \in Handlers : g # h => hnd'[g] = hnd[g]
      /\ hnd'[h].pc = "idle"
      /\ lock' \in Handlers \cup {None}
      /\ \A g \in Handlers : lock' = g => lock = g /\ g # h
  BY <1>1, ToIdleEffect, UnlockEffect DEF IInv, TypeOK
<1>8. /\ intent' \in [Commands -> IntentRows]
      /\ LogHasIntents' /\ IntentsOfHandlers' /\ PendingExtendsRoom' /\ DoneIsPublished'
      /\ \A e \in Entries, y \in Nat : DeadOrCurrent(e, y) => DeadOrCurrentNext(e, y)
      /\ \A d \in Commands : /\ intent'[d].exp = intent[d].exp
                             /\ intent'[d].snap = intent[d].snap
                             /\ intent'[d].status = "pending" => intent[d].status = "pending"
  <2>1. \A g \in Handlers : HasIntent(g)' =>
              /\ HasIntent(g)
              /\ hnd'[g].cmd = hnd[g].cmd /\ hnd'[g].stage = hnd[g].stage
    BY <1>7 DEF HasIntent
  <2>2. intent[c].exp < Len(room'.applied)
    BY <1>2, <1>3, <1>6
  <2>. QED  BY <1>1, <1>2, <1>4, <1>5, <1>6, <2>1, <2>2, ClosesIntent
<1>9. TypeOK'
  <2>1. idem' \in [Commands -> Outcomes]
    BY <1>1 DEF IInv, TypeOK, FirstOutcome, Outcomes
  <2>2. processed' \subseteq Nat  BY <1>1, <1>2 DEF IInv, TypeOK
  <2>. QED  BY <1>1, <1>4, <1>7, <1>8, <2>1, <2>2 DEF IInv, TypeOK
<1>10. HandlersExtendRoom'
  <2> SUFFICES ASSUME NEW g \in Handlers, hnd'[g].pc # "idle"
               PROVE  /\ hnd'[g].cmd \in Commands
                      /\ ExtendsRoom(hnd[g].stage)'
                      /\ hnd'[g].pc = "reserve" => Len(hnd'[g].stage.applied) = hnd'[g].stage.rev
                      /\ Staged(g)' => StagesOne(hnd'[g].stage, hnd'[g].stage.rev, hnd'[g].cmd)
    BY DEF HandlersExtendRoom, StagesOne
  <2>1. hnd'[g] = hnd[g] /\ hnd[g].pc # "idle" /\ hnd[g].stage \in RoomRows
    BY <1>7 DEF IInv, TypeOK, HandlerStates
  <2>2. ExtendsRoom(hnd[g].stage)  BY <2>1 DEF IInv, HandlersExtendRoom
  <2>3. ExtendsRoom(hnd[g].stage)'
    BY <1>6, <2>1, <2>2, RoomMovesOn DEF ExtendsRoom, IInv
  <2>. QED  BY <2>1, <2>3 DEF IInv, HandlersExtendRoom, Staged
<1>11. LockHolderIsCurrent'
  <2> SUFFICES ASSUME NEW g \in Handlers, lock' = g PROVE FALSE
    BY DEF LockHolderIsCurrent
  <2>1. lock = g /\ g # h  BY <1>7
  <2>2. Exists(room)  BY <2>1 DEF IInv, LockHolderIsCurrent
  <2>. QED  BY <1>1, <2>1, <2>2
<1>12. FailedIsDead' /\ AppendedIsLogged'
  BY <1>1, <1>7 DEF IInv, FailedIsDead, AppendedIsLogged, Holds, Positions
<1>13. RequestsDeadOrCurrent'
  BY <1>1, <1>8, RequestsKept DEF IInv
<1>14. FencedIsCurrent'
  BY <1>1, <1>8 DEF IInv, FencedIsCurrent, Fenced, RequestsDeadOrCurrent, Holds, Positions
<1>15. ProcessedIsDone'
  BY <1>1, <1>2, <1>5, PublishedIsDone DEF IInv
<1>. QED
  BY <1>1, <1>6, <1>8, <1>9, <1>10, <1>11, <1>12, <1>13, <1>14, <1>15, FrameDeck DEF IInv

-----------------------------------------------------------------------------
(* Reconciliation workers                                                  *)

\* Steps that move worker w's control only.
LEMMA WorkerMoves ==
    ASSUME IInv, NEW w \in Workers,
           UNCHANGED <<room, idem, intent, owner, processed, log, deck, late, lock, hnd>>,
           wrk' \in [Workers -> WorkerStates],
           \A v \in Workers : v # w => wrk'[v] = wrk[v],
           \/ wrk'[w].pc = "idle"
           \/ /\ wrk[w].pc # "idle" /\ wrk'[w].cmd = wrk[w].cmd
              /\ wrk'[w].exp = wrk[w].exp /\ wrk'[w].snap = wrk[w].snap
              /\ wrk'[w].at = wrk[w].at
              /\ wrk'[w].pc \in {"appended", "located", "ready"} =>
                    wrk[w].pc \in {"appended", "located", "ready"}
    PROVE  IInv'
PROOF
<1>1. SameSnapshot  BY DEF SameSnapshot
<1>2. TypeOK'  BY DEF IInv, TypeOK
<1>3. RequestsDeadOrCurrent'
  <2>1. \A e \in Entries, y \in Nat : DeadOrCurrent(e, y) => DeadOrCurrentNext(e, y)
    BY DEF DeadOrCurrent, DeadOrCurrentNext
  <2>. QED  BY <2>1, RequestsKept DEF IInv
<1>4. FencedIsCurrent'
  BY DEF IInv, FencedIsCurrent, Fenced, Holds, Positions
<1>. QED
  BY <1>1, <1>2, <1>3, <1>4, FrameDeck, FrameSnapshot, FrameHandlers, FrameLock,
     FrameIntentsOfHandlers, FrameFailed, FrameAppended, FrameLogHasIntents,
     FramePending, FrameDone, FrameProcessed DEF IInv

LEMMA WorkerCrashesStep ==
    ASSUME IInv, NEW w \in Workers, WorkerCrashes(w)
    PROVE  IInv'
  BY WorkerToIdleEffect, WorkerMoves DEF WorkerCrashes, IInv, TypeOK

LEMMA ReplayFindsNothingStep ==
    ASSUME IInv, NEW w \in Workers, ReplayFindsNothing(w)
    PROVE  IInv'
PROOF
<1>1. /\ UNCHANGED <<room, idem, intent, owner, processed, log, deck, late, lock, hnd>>
      /\ wrk[w].pc = "claimed" /\ GoWorker(w, "reappend")
  BY DEF ReplayFindsNothing
<1>2. /\ wrk' \in [Workers -> WorkerStates]
      /\ \A v \in Workers : v # w => wrk'[v] = wrk[v]
      /\ wrk'[w].pc = "reappend" /\ wrk'[w].cmd = wrk[w].cmd /\ wrk'[w].exp = wrk[w].exp
      /\ wrk'[w].snap = wrk[w].snap /\ wrk'[w].at = wrk[w].at
  BY <1>1, GoWorkerEffect DEF IInv, TypeOK, WorkerPcs
<1>. QED  BY <1>1, <1>2, WorkerMoves

LEMMA ReleaseClaimStep ==
    ASSUME IInv, NEW w \in Workers, ReleaseClaim(w)
    PROVE  IInv'
PROOF
<1>1. /\ UNCHANGED <<room, idem, intent, processed, log, deck, late, lock, hnd>>
      /\ SameSnapshot
      /\ WorkerToIdle(w)
      /\ owner' \in [Commands -> Workers \cup {None}]
      /\ \A d \in Commands : owner'[d] \in {owner[d], None}
  BY DEF ReleaseClaim, SameSnapshot, IInv, TypeOK
<1>2. /\ wrk' \in [Workers -> WorkerStates]
      /\ \A v \in Workers : v # w => wrk'[v] = wrk[v]
      /\ wrk'[w].pc = "idle"
  BY <1>1, WorkerToIdleEffect DEF IInv, TypeOK
<1>3. TypeOK'  BY <1>1, <1>2 DEF IInv, TypeOK
<1>4. RequestsDeadOrCurrent'
  <2>1. \A e \in Entries, y \in Nat : DeadOrCurrent(e, y) => DeadOrCurrentNext(e, y)
    BY <1>1 DEF DeadOrCurrent, DeadOrCurrentNext
  <2>. QED  BY <1>1, <1>2, <2>1, RequestsKept DEF IInv
<1>5. FencedIsCurrent'
  <2> SUFFICES ASSUME NEW v \in Workers, wrk'[v].pc # "idle", Fenced(v)'
               PROVE  v # w /\ Fenced(v)
    BY <1>1, <1>2 DEF IInv, FencedIsCurrent, Holds, Positions
  <2>1. v # w /\ wrk'[v] = wrk[v] /\ wrk[v].cmd \in Commands
    BY <1>2 DEF IInv, RequestsDeadOrCurrent
  <2>. QED  BY <1>1, <2>1, DurableRoomAssumption DEF Fenced
<1>. QED
  BY <1>1, <1>3, <1>4, <1>5, FrameDeck, FrameSnapshot, FrameHandlers, FrameLock,
     FrameIntentsOfHandlers, FrameFailed, FrameAppended, FrameLogHasIntents,
     FramePending, FrameDone, FrameProcessed DEF IInv

LEMMA ClaimMarkerStep ==
    ASSUME IInv, NEW w \in Workers, NEW c \in Commands, ClaimMarker(w, c)
    PROVE  IInv'
PROOF
<1> DEFINE p == IF intent[c].at = 0 THEN "claimed" ELSE "located"
           r == [pc |-> p, cmd |-> c, exp |-> intent[c].exp,
                 snap |-> intent[c].snap, at |-> intent[c].at]
<1>1. /\ UNCHANGED <<room, idem, intent, processed, log, deck, late, lock, hnd>>
      /\ SameSnapshot
      /\ wrk[w].pc = "idle" /\ intent[c].status = "pending"
      /\ owner' = [owner EXCEPT ![c] = w]
      /\ wrk' = [wrk EXCEPT ![w] = r]
  BY DEF ClaimMarker, SameSnapshot
<1>2. /\ intent[c] \in IntentRows
      /\ intent[c].exp \in Nat /\ intent[c].snap \in RoomRows /\ intent[c].at \in Nat
      /\ owner \in [Commands -> Workers \cup {None}]
      /\ wrk \in [Workers -> WorkerStates]
      /\ StagesOne(intent[c].snap, intent[c].exp, c)
      /\ intent[c].at # 0 => intent[c].at = intent[c].exp + 1 /\ Holds(log, c)
  BY <1>1 DEF IInv, TypeOK, IntentRows, PendingExtendsRoom
<1>3. /\ wrk' \in [Workers -> WorkerStates]
      /\ \A v \in Workers : v # w => wrk'[v] = wrk[v]
      /\ wrk'[w].pc = p /\ wrk'[w].cmd = c /\ wrk'[w].exp = intent[c].exp
      /\ wrk'[w].snap = intent[c].snap /\ wrk'[w].at = intent[c].at
  <2>1. r \in WorkerStates  BY <1>2 DEF WorkerStates, WorkerPcs
  <2>. HIDE DEF r
  <2>2. /\ wrk' \in [Workers -> WorkerStates]
        /\ \A v \in Workers : v # w => wrk'[v] = wrk[v]
        /\ wrk'[w] = r
    BY <1>1, <1>2, <2>1
  <2>. QED  BY <2>2 DEF r
<1>4. /\ owner' \in [Commands -> Workers \cup {None}]
      /\ \A d \in Commands : d # c => owner'[d] = owner[d]
      /\ owner'[c] = w
  BY <1>1, <1>2
<1>5. TypeOK'  BY <1>1, <1>3, <1>4 DEF IInv, TypeOK
<1>6. RequestsDeadOrCurrent'
  <2>1. \A e \in Entries, y \in Nat : DeadOrCurrent(e, y) => DeadOrCurrentNext(e, y)
    BY <1>1 DEF DeadOrCurrent, DeadOrCurrentNext
  <2>2. intent[c].snap.applied[intent[c].exp + 1].cmd = c
    BY <1>2 DEF StagesOne
  <2>3. DeadOrCurrentNext(intent[c].snap.applied[intent[c].exp + 1], intent[c].exp)
    BY <1>1, <1>2, <2>2 DEF DeadOrCurrentNext
  <2>. QED  BY <1>1, <1>2, <1>3, <2>1, <2>3, RequestsKept DEF IInv
<1>7. FencedIsCurrent'
  <2> SUFFICES ASSUME NEW v \in Workers, wrk'[v].pc # "idle", Fenced(v)'
               PROVE  /\ wrk'[v].exp = intent[wrk'[v].cmd].exp
                      /\ wrk'[v].snap = intent[wrk'[v].cmd].snap
                      /\ wrk'[v].pc \in {"appended", "located", "ready"} =>
                            wrk'[v].at = wrk'[v].exp + 1 /\ Holds(log, wrk'[v].cmd)
    BY <1>1 DEF FencedIsCurrent, Holds, Positions
  <2>1. CASE v = w  BY <1>2, <1>3, <2>1
  <2>2. CASE v # w
    <3>1. wrk'[v] = wrk[v] /\ wrk[v].cmd \in Commands
      BY <1>3, <2>2 DEF IInv, RequestsDeadOrCurrent
    <3>2. Fenced(v)
      BY <1>1, <1>4, <2>2, <3>1 DEF Fenced
    <3>. QED  BY <3>1, <3>2 DEF IInv, FencedIsCurrent
  <2>. QED  BY <2>1, <2>2
<1>. QED
  BY <1>1, <1>5, <1>6, <1>7, FrameDeck, FrameSnapshot, FrameHandlers, FrameLock,
     FrameIntentsOfHandlers, FrameFailed, FrameAppended, FrameLogHasIntents,
     FramePending, FrameDone, FrameProcessed DEF IInv

\* A fenced worker records the revision of its command's entry.
LEMMA LocatesEvent ==
    ASSUME IInv, NEW w \in Workers, wrk[w].pc # "idle", Fenced(w),
           NEW n \in Nat, n = wrk[w].exp + 1, Holds(log, wrk[w].cmd),
           UNCHANGED <<room, idem, owner, processed, log, deck, late, lock, hnd>>,
           intent' = [intent EXCEPT ![wrk[w].cmd].at = n],
           wrk' \in [Workers -> WorkerStates],
           \A v \in Workers : v # w => wrk'[v] = wrk[v],
           /\ wrk'[w].pc = "located" /\ wrk'[w].cmd = wrk[w].cmd /\ wrk'[w].exp = wrk[w].exp
           /\ wrk'[w].snap = wrk[w].snap /\ wrk'[w].at = n
    PROVE  IInv'
PROOF
<1> DEFINE c == wrk[w].cmd
<1>1. /\ SameSnapshot /\ c \in Commands /\ intent \in [Commands -> IntentRows]
      /\ wrk[w].exp = intent[c].exp
  BY DEF SameSnapshot, IInv, TypeOK, RequestsDeadOrCurrent, FencedIsCurrent
<1>. HIDE DEF c
<1>2. /\ IntentsKeep /\ intent'[c].at = n
      /\ \A d \in Commands : intent'[d].status = intent[d].status
      /\ \A d \in Commands : d # c => intent'[d] = intent[d]
  BY <1>1, RevisionEffect DEF c
<1>3. TypeOK'  BY <1>2 DEF IInv, TypeOK, IntentsKeep
<1>4. /\ LogHasIntents' /\ IntentsOfHandlers'
      /\ \A e \in Entries, y \in Nat : DeadOrCurrent(e, y) => DeadOrCurrentNext(e, y)
  <2>1. \A g \in Handlers : HasIntent(g)' =>
              /\ HasIntent(g)
              /\ hnd'[g].cmd = hnd[g].cmd /\ hnd'[g].stage = hnd[g].stage
    BY DEF HasIntent
  <2>. QED  BY <1>2, <2>1, IntentsStay DEF IInv
<1>5. PendingExtendsRoom'
  BY <1>1, <1>2, RevisionKeepsPending DEF IInv, c
<1>6. DoneIsPublished'
  BY <1>1, <1>2 DEF IInv, DoneIsPublished, SameSnapshot, IntentsKeep, Holds, Positions
<1>7. RequestsDeadOrCurrent'
  BY <1>4, RequestsKept DEF IInv
<1>8. FencedIsCurrent'
  <2> SUFFICES ASSUME NEW v \in Workers, wrk'[v].pc # "idle", Fenced(v)'
               PROVE  /\ wrk'[v].exp = intent'[wrk'[v].cmd].exp
                      /\ wrk'[v].snap = intent'[wrk'[v].cmd].snap
                      /\ wrk'[v].pc \in {"appended", "located", "ready"} =>
                            wrk'[v].at = wrk'[v].exp + 1 /\ Holds(log, wrk'[v].cmd)
    BY DEF FencedIsCurrent, Holds, Positions
  <2>1. /\ wrk[v].pc # "idle" /\ wrk'[v].cmd = wrk[v].cmd
        /\ wrk'[v].exp = wrk[v].exp /\ wrk'[v].snap = wrk[v].snap
        /\ v # w => wrk'[v] = wrk[v]
    OBVIOUS
  <2>2. wrk[v].cmd \in Commands /\ Fenced(v)
    BY <1>2, <2>1 DEF IInv, RequestsDeadOrCurrent, Fenced
  <2>. QED  BY <1>2, <2>1, <2>2 DEF IInv, FencedIsCurrent, IntentsKeep
<1>9. ProcessedIsDone'
  BY <1>1, <1>2, ProcessedStaysDone DEF IInv, TypeOK
<1>. QED
  BY <1>1, <1>9, <1>3, <1>4, <1>5, <1>6, <1>7, <1>8, FrameDeck, FrameSnapshot, FrameHandlers,
     FrameLock, FrameFailed, FrameAppended DEF IInv

LEMMA ReplayFindsEventStep ==
    ASSUME IInv, NEW w \in Workers, ReplayFindsEvent(w)
    PROVE  IInv'
PROOF
<1> DEFINE c == wrk[w].cmd
<1>1. PICK i \in Positions(log, c) :
          /\ intent' = [intent EXCEPT ![c].at = i]
          /\ wrk' = [wrk EXCEPT ![w].pc = "located", ![w].at = i]
  BY DEF ReplayFindsEvent
<1>2. /\ UNCHANGED <<room, idem, owner, processed, log, deck, late, lock, hnd>>
      /\ wrk[w].pc = "claimed" /\ Fenced(w)
  BY DEF ReplayFindsEvent
<1>3. /\ c \in Commands /\ log \in Seq(Entries) /\ i \in 1..Len(log) /\ log[i].cmd = c
      /\ wrk \in [Workers -> WorkerStates] /\ intent[c].exp \in Nat
      /\ wrk[w].exp = intent[c].exp
  BY <1>2 DEF Positions, IInv, TypeOK, IntentRows, RequestsDeadOrCurrent, FencedIsCurrent
<1>4. i \in Nat /\ i = wrk[w].exp + 1
  BY <1>3 DEF IInv, LogHasIntents
<1>5. Holds(log, c)  BY <1>1 DEF Holds
<1>6. /\ wrk' \in [Workers -> WorkerStates]
      /\ \A v \in Workers : v # w => wrk'[v] = wrk[v]
      /\ wrk'[w].pc = "located" /\ wrk'[w].cmd = wrk[w].cmd /\ wrk'[w].exp = wrk[w].exp
      /\ wrk'[w].snap = wrk[w].snap /\ wrk'[w].at = i
  BY <1>1, <1>3, <1>4 DEF WorkerStates, WorkerPcs
<1>. QED  BY <1>1, <1>2, <1>4, <1>5, <1>6, LocatesEvent

LEMMA FinalizeReappendStep ==
    ASSUME IInv, NEW w \in Workers, FinalizeReappend(w)
    PROVE  IInv'
PROOF
<1>1. /\ UNCHANGED <<room, idem, owner, processed, log, deck, late, lock, hnd>>
      /\ wrk[w].pc = "appended" /\ Fenced(w) /\ GoWorker(w, "located")
      /\ intent' = [intent EXCEPT ![wrk[w].cmd].at = wrk[w].at]
  BY DEF FinalizeReappend
<1>2. wrk[w].at = wrk[w].exp + 1 /\ Holds(log, wrk[w].cmd) /\ wrk[w].at \in Nat
  BY <1>1 DEF IInv, TypeOK, WorkerStates, FencedIsCurrent
<1>3. /\ wrk' \in [Workers -> WorkerStates]
      /\ \A v \in Workers : v # w => wrk'[v] = wrk[v]
      /\ wrk'[w].pc = "located" /\ wrk'[w].cmd = wrk[w].cmd /\ wrk'[w].exp = wrk[w].exp
      /\ wrk'[w].snap = wrk[w].snap /\ wrk'[w].at = wrk[w].at
  BY <1>1, GoWorkerEffect DEF IInv, TypeOK, WorkerPcs
<1>. QED  BY <1>1, <1>2, <1>3, LocatesEvent

\* What a claim holds of its marker.
LEMMA ClaimIsTyped ==
    ASSUME IInv, NEW w \in Workers, wrk[w].pc # "idle"
    PROVE  /\ wrk[w].cmd \in Commands /\ wrk[w].exp \in Nat /\ wrk[w].at \in Nat
           /\ wrk[w].snap \in RoomRows /\ wrk[w].snap.applied \in Seq(Entries)
           /\ StagesOne(wrk[w].snap, wrk[w].exp, wrk[w].cmd)
           /\ StagedEntry(wrk[w].snap) \in Entries
           /\ StagedEntry(wrk[w].snap).cmd = wrk[w].cmd
           /\ DeadOrCurrent(StagedEntry(wrk[w].snap), wrk[w].exp)
PROOF
<1>1. /\ wrk[w].cmd \in Commands /\ wrk[w].exp \in Nat /\ wrk[w].at \in Nat
      /\ wrk[w].snap \in RoomRows /\ wrk[w].snap.applied \in Seq(Entries)
      /\ StagesOne(wrk[w].snap, wrk[w].exp, wrk[w].cmd)
      /\ DeadOrCurrent(StagedEntry(wrk[w].snap), wrk[w].exp)
  BY DEF IInv, TypeOK, WorkerStates, RoomRows, RequestsDeadOrCurrent
<1>2. StagedEntry(wrk[w].snap) \in Entries /\ StagedEntry(wrk[w].snap).cmd = wrk[w].cmd
  BY <1>1 DEF StagedEntry, StagesOne
<1>. QED  BY <1>1, <1>2

LEMMA ReappendStep ==
    ASSUME IInv, NEW w \in Workers, Reappend(w)
    PROVE  IInv'
PROOF
<1> DEFINE c == wrk[w].cmd
           x == wrk[w].exp
           e == StagedEntry(wrk[w].snap)
           out == AppendOutcome(e, x)
<1>1. /\ UNCHANGED <<room, idem, intent, owner, processed, deck, late, lock, hnd>>
      /\ SameSnapshot
      /\ wrk[w].pc = "reappend" /\ out.kind \in {"accepted", "duplicate"}
      /\ log' = Appended(e, x)
      /\ wrk' = [wrk EXCEPT ![w].pc = "appended", ![w].at = out.at]
  BY DEF Reappend, SameSnapshot
<1>2. /\ c \in Commands /\ x \in Nat /\ e \in Entries /\ e.cmd = c /\ DeadOrCurrent(e, x)
      /\ wrk \in [Workers -> WorkerStates] /\ log \in Seq(Entries)
  BY <1>1, ClaimIsTyped DEF IInv, TypeOK
<1>. HIDE DEF c, x, e
<1>3. /\ log' \in Seq(Entries)
      /\ \A d \in Commands : Holds(log, d) => Holds(log', d)
      /\ processed' = processed => ProcessedIsDone'
      /\ SnapshotTrailsLog' /\ LogHasIntents' /\ PendingExtendsRoom' /\ DoneIsPublished'
      /\ \A d \in Entries, y \in Nat : DeadOrCurrent(d, y) => DeadOrCurrentNext(d, y)
      /\ \A g \in Handlers : hnd[g].pc = "failed" =>
                hnd[g].stage.rev < Len(log') /\ ~Holds(log', hnd[g].cmd)
  BY <1>1, <1>2, LogGrows
<1>4. out.at \in Nat /\ Holds(log', c) /\ out.at = intent[c].exp + 1
  <2>1. CASE out.kind = "accepted"
    <3>1. /\ x = Len(log) /\ out.at = Len(log) + 1 /\ log' = Append(log, e)
      BY <1>1, <2>1, AppendAnswer
    <3>2. Len(log) + 1 \in DOMAIN log' /\ log'[Len(log) + 1] = e
      BY <1>2, <3>1
    <3>3. Holds(log', c)  BY <1>2, <3>2 DEF Holds, Positions
    <3>4. intent[c].exp = Len(log)
      BY <1>2, <3>1, AcceptedIsCurrent DEF IInv
    <3>. QED  BY <1>2, <3>1, <3>3, <3>4
  <2>2. CASE out.kind = "duplicate"
    <3>1. /\ out.at \in 1..Len(log) /\ log[out.at] = e /\ log' = log
      BY <1>1, <1>2, <2>2, AppendAnswer
    <3>2. intent[c].exp = out.at - 1
      <4>1. log[out.at].cmd = c  BY <1>2, <3>1
      <4>2. intent[log[out.at].cmd].exp = out.at - 1
        BY <3>1 DEF IInv, LogHasIntents
      <4>. QED  BY <4>1, <4>2
    <3>3. Holds(log, c)
      BY <1>2, <3>1 DEF Holds, Positions
    <3>. QED  BY <1>2, <3>1, <3>2, <3>3
  <2>. QED  BY <1>1, <2>1, <2>2
<1>. HIDE DEF out
<1>5. /\ wrk' \in [Workers -> WorkerStates]
      /\ \A v \in Workers : v # w => wrk'[v] = wrk[v]
      /\ wrk'[w].pc = "appended" /\ wrk'[w].cmd = wrk[w].cmd /\ wrk'[w].exp = wrk[w].exp
      /\ wrk'[w].snap = wrk[w].snap /\ wrk'[w].at = out.at
  BY <1>1, <1>2, <1>4 DEF WorkerStates, WorkerPcs
<1>6. TypeOK'  BY <1>1, <1>3, <1>5 DEF IInv, TypeOK
<1>7. FailedIsDead'
  BY <1>1, <1>3 DEF FailedIsDead, Holds, Positions
<1>8. AppendedIsLogged'
  <2> SUFFICES ASSUME NEW g \in Handlers, hnd[g].pc \in {"appended", "confirmed", "finalized"}
               PROVE  hnd[g].at = hnd[g].stage.rev + 1 /\ Holds(log', hnd[g].cmd)
    BY <1>1 DEF AppendedIsLogged, Holds, Positions
  <2>. QED  BY <1>3 DEF IInv, AppendedIsLogged, HandlersExtendRoom
<1>9. RequestsDeadOrCurrent'
  BY <1>1, <1>3, <1>5, RequestsKept DEF IInv
<1>10. FencedIsCurrent'
  <2> SUFFICES ASSUME NEW v \in Workers, wrk'[v].pc # "idle", Fenced(v)'
               PROVE  /\ wrk'[v].exp = intent[wrk'[v].cmd].exp
                      /\ wrk'[v].snap = intent[wrk'[v].cmd].snap
                      /\ wrk'[v].pc \in {"appended", "located", "ready"} =>
                            wrk'[v].at = wrk'[v].exp + 1 /\ Holds(log', wrk'[v].cmd)
    BY <1>1 DEF FencedIsCurrent, Holds, Positions
  <2>1. /\ wrk[v].pc # "idle" /\ wrk'[v].cmd = wrk[v].cmd
        /\ wrk'[v].exp = wrk[v].exp /\ wrk'[v].snap = wrk[v].snap
        /\ v # w => wrk'[v] = wrk[v]
    BY <1>1, <1>5
  <2>2. wrk[v].cmd \in Commands /\ Fenced(v)
    BY <1>1, <2>1 DEF IInv, RequestsDeadOrCurrent, Fenced
  <2>3. /\ wrk[v].exp = intent[wrk[v].cmd].exp /\ wrk[v].snap = intent[wrk[v].cmd].snap
        /\ wrk[v].pc \in {"appended", "located", "ready"} =>
                wrk[v].at = wrk[v].exp + 1 /\ Holds(log, wrk[v].cmd)
    BY <2>1, <2>2 DEF IInv, FencedIsCurrent
  <2>. QED  BY <1>3, <1>4, <1>5, <2>1, <2>2, <2>3 DEF c
<1>. QED
  BY <1>1, <1>3, <1>6, <1>7, <1>8, <1>9, <1>10, FrameDeck, FrameHandlers, FrameLock,
     FrameIntentsOfHandlers DEF IInv

LEMMA ReappendTimesOutStep ==
    ASSUME IInv, NEW w \in Workers, ReappendTimesOut(w)
    PROVE  IInv'
PROOF
<1> DEFINE x == wrk[w].exp
           e == StagedEntry(wrk[w].snap)
<1>1. /\ UNCHANGED <<room, idem, intent, owner, processed, log, deck, lock, hnd>>
      /\ SameSnapshot
      /\ wrk[w].pc = "reappend" /\ WorkerToIdle(w)
      /\ late' = late \cup {[entry |-> e, exp |-> x]}
  BY DEF ReappendTimesOut, SameSnapshot
<1>2. x \in Nat /\ e \in Entries /\ DeadOrCurrent(e, x)
  BY <1>1, ClaimIsTyped
<1>. HIDE DEF x, e
<1>3. /\ wrk' \in [Workers -> WorkerStates]
      /\ \A v \in Workers : v # w => wrk'[v] = wrk[v]
      /\ wrk'[w].pc = "idle"
  BY <1>1, WorkerToIdleEffect DEF IInv, TypeOK
<1>4. TypeOK'
  <2>1. late' \subseteq Requests  BY <1>1, <1>2 DEF IInv, TypeOK, Requests
  <2>. QED  BY <1>1, <1>3, <2>1 DEF IInv, TypeOK
<1>5. RequestsDeadOrCurrent'
  <2>1. \A d \in Entries, y \in Nat : DeadOrCurrent(d, y) => DeadOrCurrentNext(d, y)
    BY <1>1 DEF DeadOrCurrent, DeadOrCurrentNext
  <2>2. DeadOrCurrentNext(e, x)  BY <1>2, <2>1
  <2>3. \A m \in late' : m \in late \/ DeadOrCurrentNext(m.entry, m.exp)
    BY <1>1, <2>2
  <2>. QED  BY <1>3, <2>1, <2>3, RequestsKept DEF IInv
<1>6. FencedIsCurrent'
  BY <1>1, <1>3 DEF IInv, FencedIsCurrent, Fenced, Holds, Positions
<1>. QED
  BY <1>1, <1>4, <1>5, <1>6, FrameDeck, FrameSnapshot, FrameHandlers, FrameLock,
     FrameIntentsOfHandlers, FrameFailed, FrameAppended, FrameLogHasIntents,
     FramePending, FrameDone, FrameProcessed DEF IInv

LEMMA ConfirmForRepairStep ==
    ASSUME IInv, NEW w \in Workers, ConfirmForRepair(w)
    PROVE  IInv'
PROOF
<1>1. /\ UNCHANGED <<room, idem, intent, owner, processed, log, late, lock, hnd>>
      /\ SameSnapshot
      /\ wrk[w].pc = "located" /\ GoWorker(w, "ready")
      /\ CanConfirm(wrk[w].cmd) /\ deck' = Confirmed(wrk[w].cmd)
  BY DEF ConfirmForRepair, SameSnapshot
<1>2. /\ wrk' \in [Workers -> WorkerStates]
      /\ \A v \in Workers : v # w => wrk'[v] = wrk[v]
      /\ wrk'[w].pc = "ready" /\ wrk'[w].cmd = wrk[w].cmd /\ wrk'[w].exp = wrk[w].exp
      /\ wrk'[w].snap = wrk[w].snap /\ wrk'[w].at = wrk[w].at
  BY <1>1, GoWorkerEffect DEF IInv, TypeOK, WorkerPcs
<1>3. deck' \in DeckStates /\ DeckBound'
  <2>1. wrk[w].cmd \in Commands /\ deck \in DeckStates /\ DeckBound
    BY <1>1 DEF IInv, TypeOK, RequestsDeadOrCurrent
  <2>. QED  BY <1>1, <2>1, SettlementEffect
<1>4. TypeOK'  BY <1>1, <1>2, <1>3 DEF IInv, TypeOK
<1>5. RequestsDeadOrCurrent'
  <2>1. \A e \in Entries, y \in Nat : DeadOrCurrent(e, y) => DeadOrCurrentNext(e, y)
    BY <1>1 DEF DeadOrCurrent, DeadOrCurrentNext
  <2>. QED  BY <1>1, <1>2, <2>1, RequestsKept DEF IInv
<1>6. FencedIsCurrent'
  BY <1>1, <1>2 DEF IInv, FencedIsCurrent, Fenced, Holds, Positions
<1>. QED
  BY <1>1, <1>3, <1>4, <1>5, <1>6, FrameSnapshot, FrameHandlers, FrameLock,
     FrameIntentsOfHandlers, FrameFailed, FrameAppended, FrameLogHasIntents,
     FramePending, FrameDone, FrameProcessed DEF IInv

LEMMA RepairRoomStep ==
    ASSUME IInv, NEW w \in Workers, RepairRoom(w)
    PROVE  /\ IInv'
           /\ log' = log
           /\ \/ room' = room
              \/ /\ Len(log) = Len(room.applied) + 1 /\ Len(room'.applied) = Len(log)
                 /\ \A i \in 1..Len(log) : room'.applied[i] = log[i]
PROOF
<1> DEFINE c == wrk[w].cmd
           n == wrk[w].at
           snap == wrk[w].snap
<1>1. /\ UNCHANGED <<owner, log, deck, late, lock, hnd>>
      /\ wrk[w].pc \in {"located", "ready"} /\ Fenced(w) /\ WorkerToIdle(w) /\ lock = None
      /\ processed' = processed \cup {n}
      /\ intent' = [intent EXCEPT ![c].status = "done"]
  BY DEF RepairRoom
<1>2. /\ c \in Commands /\ n \in Nat /\ snap \in RoomRows
      /\ intent[c].status = "pending" /\ intent[c].snap = snap
      /\ n = intent[c].exp + 1 /\ Holds(log, c)
      /\ intent[c].exp \in Nat /\ intent[c].exp <= Len(room.applied)
      /\ room \in RoomRows /\ Len(room.applied) \in Nat /\ room.applied \in Seq(Entries)
      /\ room.rev = Len(room.applied)
  <2>1. c \in Commands /\ n \in Nat /\ snap \in RoomRows
    BY <1>1, ClaimIsTyped
  <2>2. intent[c].status = "pending"  BY <1>1 DEF Fenced
  <2>3. intent[c].snap = snap /\ n = intent[c].exp + 1 /\ Holds(log, c)
    BY <1>1 DEF IInv, FencedIsCurrent
  <2>4. intent[c].exp <= Len(room.applied)
    BY <2>1, <2>2 DEF IInv, PendingExtendsRoom, ExtendsRoom
  <2>. QED
    BY <2>1, <2>2, <2>3, <2>4 DEF IInv, TypeOK, IntentRows, RoomRows, SnapshotTrailsLog
<1>3. /\ room' \in RoomRows /\ RoomKeeps /\ SnapshotTrailsLog' /\ n <= Len(room'.applied)
      /\ \/ room' = room
         \/ /\ Len(log) = Len(room.applied) + 1 /\ Len(room'.applied) = Len(log)
            /\ \A i \in 1..Len(log) : room'.applied[i] = log[i]
  <2>1. CASE Exists(room) /\ room.rev >= n
    <3>1. room' = room  BY <2>1 DEF RepairRoom
    <3>2. SnapshotTrailsLog'
      BY <1>1, <3>1, FrameSnapshot DEF IInv, SameSnapshot
    <3>. QED  BY <1>2, <2>1, <3>1, <3>2 DEF RoomKeeps
  <2>2. CASE ~(Exists(room) /\ room.rev >= n)
    <3>1. room' = [snap EXCEPT !.rev = n]  BY <2>2 DEF RepairRoom
    <3>2. intent[c].exp = Len(room.applied)
      BY <1>2, <2>2 DEF Exists
    <3>3. room' \in RoomRows /\ room'.applied = snap.applied /\ room'.rev = n
      BY <1>2, <3>1 DEF RoomRows
    <3>. HIDE DEF c, n, snap
    <3>4. /\ SnapshotTrailsLog' /\ RoomKeeps
          /\ Len(room'.applied) = Len(log) /\ Len(log) = Len(room.applied) + 1
          /\ \A i \in 1..Len(log) : room'.applied[i] = log[i]
      BY <1>1, <1>2, <3>2, <3>3, PublishesLog DEF IInv
    <3>. QED  BY <1>2, <3>2, <3>3, <3>4
  <2>. QED  BY <2>1, <2>2
<1>. HIDE DEF c, n, snap
<1>4. /\ wrk' \in [Workers -> WorkerStates]
      /\ \A v \in Workers : v # w => wrk'[v] = wrk[v]
      /\ wrk'[w].pc = "idle"
  BY <1>1, WorkerToIdleEffect DEF IInv, TypeOK
<1>5. /\ intent' \in [Commands -> IntentRows]
      /\ LogHasIntents' /\ IntentsOfHandlers' /\ PendingExtendsRoom' /\ DoneIsPublished'
      /\ \A e \in Entries, y \in Nat : DeadOrCurrent(e, y) => DeadOrCurrentNext(e, y)
      /\ \A d \in Commands : /\ intent'[d].exp = intent[d].exp
                             /\ intent'[d].snap = intent[d].snap
                             /\ intent'[d].status = "pending" => intent[d].status = "pending"
  <2>1. \A g \in Handlers : HasIntent(g)' =>
              /\ HasIntent(g)
              /\ hnd'[g].cmd = hnd[g].cmd /\ hnd'[g].stage = hnd[g].stage
    BY <1>1 DEF HasIntent
  <2>2. intent[c].exp < Len(room'.applied)
    <3>1. Len(room'.applied) \in Nat  BY <1>3 DEF RoomRows
    <3>. QED  BY <1>2, <1>3, <3>1
  <2>. QED  BY <1>1, <1>2, <1>3, <2>1, <2>2, ClosesIntent
<1>6. TypeOK'
  <2>1. idem' \in [Commands -> Outcomes]
    BY DEF RepairRoom, IInv, TypeOK, FirstOutcome, Outcomes
  <2>2. processed' \subseteq Nat  BY <1>1, <1>2 DEF IInv, TypeOK
  <2>. QED  BY <1>1, <1>3, <1>4, <1>5, <2>1, <2>2 DEF IInv, TypeOK
<1>7. HandlersExtendRoom'
  <2> SUFFICES ASSUME NEW g \in Handlers, hnd[g].pc # "idle"
               PROVE  /\ hnd[g].cmd \in Commands
                      /\ ExtendsRoom(hnd[g].stage)'
                      /\ hnd[g].pc = "reserve" => Len(hnd[g].stage.applied) = hnd[g].stage.rev
                      /\ Staged(g) => StagesOne(hnd[g].stage, hnd[g].stage.rev, hnd[g].cmd)
    BY <1>1 DEF HandlersExtendRoom, StagesOne, Staged
  <2>1. hnd[g].stage \in RoomRows
    BY DEF IInv, TypeOK, HandlerStates
  <2>2. ExtendsRoom(hnd[g].stage)  BY DEF IInv, HandlersExtendRoom
  <2>3. ExtendsRoom(hnd[g].stage)'
    BY <1>1, <1>3, <2>1, <2>2, RoomMovesOn DEF ExtendsRoom, IInv
  <2>. QED  BY <2>3 DEF IInv, HandlersExtendRoom
<1>8. LockHolderIsCurrent'
  BY <1>1, DurableRoomAssumption DEF LockHolderIsCurrent
<1>9. FailedIsDead' /\ AppendedIsLogged'
  BY <1>1, FrameFailed, FrameAppended DEF IInv
<1>10. RequestsDeadOrCurrent'
  BY <1>1, <1>4, <1>5, RequestsKept DEF IInv
<1>11. FencedIsCurrent'
  BY <1>1, <1>4, <1>5 DEF IInv, FencedIsCurrent, Fenced, RequestsDeadOrCurrent, Holds, Positions
<1>12. ProcessedIsDone'
  BY <1>1, <1>2, PublishedIsDone DEF IInv
<1>. QED
  BY <1>1, <1>3, <1>5, <1>6, <1>7, <1>8, <1>9, <1>10, <1>11, <1>12, FrameDeck DEF IInv

LEMMA LateAppendStep ==
    ASSUME IInv, NEW m \in late, LateAppend(m)
    PROVE  IInv'
PROOF
<1>1. /\ UNCHANGED <<room, idem, intent, owner, processed, deck, lock, hnd, wrk>>
      /\ SameSnapshot
      /\ log' = Appended(m.entry, m.exp) /\ late' = late \ {m}
  BY DEF LateAppend, SameSnapshot
<1>2. m.entry \in Entries /\ m.exp \in Nat /\ DeadOrCurrent(m.entry, m.exp)
  BY DEF IInv, TypeOK, Requests, RequestsDeadOrCurrent
<1>3. /\ log' \in Seq(Entries)
      /\ \A d \in Commands : Holds(log, d) => Holds(log', d)
      /\ processed' = processed => ProcessedIsDone'
      /\ SnapshotTrailsLog' /\ LogHasIntents' /\ PendingExtendsRoom' /\ DoneIsPublished'
      /\ \A d \in Entries, y \in Nat : DeadOrCurrent(d, y) => DeadOrCurrentNext(d, y)
      /\ \A g \in Handlers : hnd[g].pc = "failed" =>
                hnd[g].stage.rev < Len(log') /\ ~Holds(log', hnd[g].cmd)
  BY <1>1, <1>2, LogGrows
<1>4. TypeOK'  BY <1>1, <1>3 DEF IInv, TypeOK
<1>5. FailedIsDead'
  BY <1>1, <1>3 DEF FailedIsDead, Holds, Positions
<1>6. AppendedIsLogged'
  <2> SUFFICES ASSUME NEW g \in Handlers, hnd[g].pc \in {"appended", "confirmed", "finalized"}
               PROVE  hnd[g].at = hnd[g].stage.rev + 1 /\ Holds(log', hnd[g].cmd)
    BY <1>1 DEF AppendedIsLogged, Holds, Positions
  <2>. QED  BY <1>3 DEF IInv, AppendedIsLogged, HandlersExtendRoom
<1>7. RequestsDeadOrCurrent'
  BY <1>1, <1>3, RequestsKept DEF IInv
<1>8. FencedIsCurrent'
  BY <1>1, <1>3 DEF IInv, FencedIsCurrent, Fenced, RequestsDeadOrCurrent, Holds, Positions
<1>. QED
  BY <1>1, <1>3, <1>4, <1>5, <1>6, <1>7, <1>8, FrameDeck, FrameHandlers, FrameLock,
     FrameIntentsOfHandlers DEF IInv

-----------------------------------------------------------------------------
(* The inductive invariant                                                 *)

\* A durable Room starts with nothing staged, logged or pending.
THEOREM Initialization == Init => IInv
PROOF
<1> SUFFICES ASSUME Init PROVE IInv
  OBVIOUS
<1>1. DeckSize \in Nat /\ None \notin Commands /\ None \notin Handlers /\ None \notin Workers
  BY DurableRoomAssumption
<1>2. /\ room = EmptyRoom /\ room.applied = <<>> /\ room.rev = 0 /\ Len(room.applied) = 0
      /\ log = <<>> /\ Len(log) = 0 /\ late = {} /\ processed = {} /\ lock = None
      /\ \A h \in Handlers : hnd[h].pc = "idle"
      /\ \A w \in Workers : wrk[w].pc = "idle"
      /\ \A c \in Commands : intent[c].status = "none"
  BY DEF Init, EmptyRoom, IdleHandler, IdleWorker, NoIntent
<1>3. TypeOK
  <2>1. IdleHandler \in HandlerStates
    BY EmptyRoomIsRow DEF IdleHandler, HandlerStates, HandlerPcs
  <2>2. IdleWorker \in WorkerStates
    BY EmptyRoomIsRow DEF IdleWorker, WorkerStates, WorkerPcs
  <2>3. NoIntent \in IntentRows
    BY EmptyRoomIsRow DEF NoIntent, IntentRows
  <2>4. [pending |-> None, dealt |-> <<>>, voided |-> {}] \in DeckStates
    BY DEF DeckStates
  <2>. QED
    BY <2>1, <2>2, <2>3, <2>4, EmptyRoomIsRow DEF Init, TypeOK, Outcomes
<1>4. DeckBound
  BY <1>1 DEF Init, DeckBound
<1>5. SnapshotTrailsLog
  BY <1>2 DEF SnapshotTrailsLog, IsPrefixOf
<1>6. HandlersExtendRoom /\ LockHolderIsCurrent /\ IntentsOfHandlers
      /\ FailedIsDead /\ AppendedIsLogged
  BY <1>1, <1>2 DEF HandlersExtendRoom, LockHolderIsCurrent, IntentsOfHandlers, HasIntent,
                    FailedIsDead, AppendedIsLogged
<1>7. LogHasIntents /\ PendingExtendsRoom /\ DoneIsPublished
  BY <1>2 DEF LogHasIntents, PendingExtendsRoom, DoneIsPublished
<1>8. RequestsDeadOrCurrent /\ FencedIsCurrent /\ ProcessedIsDone
  BY <1>2 DEF RequestsDeadOrCurrent, FencedIsCurrent, ProcessedIsDone
<1>. QED  BY <1>3, <1>4, <1>5, <1>6, <1>7, <1>8 DEF IInv

\* No step of a handler, a worker or a stray request breaks the invariant.
THEOREM Preservation == IInv /\ [Next]_vars => IInv'
PROOF
<1> SUFFICES ASSUME IInv, [Next]_vars PROVE IInv'
  OBVIOUS
<1>1. CASE UNCHANGED vars
  <2>1. /\ UNCHANGED <<room, idem, intent, owner, processed, log, deck, late, lock, hnd, wrk>>
        /\ SameSnapshot
    BY <1>1 DEF vars, SameSnapshot
  <2>2. TypeOK'  BY <2>1 DEF IInv, TypeOK
  <2>. QED
    BY <2>1, <2>2, FrameDeck, FrameSnapshot, FrameHandlers, FrameLock,
       FrameIntentsOfHandlers, FrameFailed, FrameAppended, FrameLogHasIntents,
       FramePending, FrameDone, FrameRequests, FrameFenced, FrameProcessed DEF IInv
<1>2. ASSUME NEW c \in Commands, RejectBeforeLock(c) \/ RejectCommand(c) \/ LeaseExpires(c)
      PROVE  IInv'
  BY <1>2, RejectBeforeLockStep, RejectCommandStep, LeaseExpiresStep
<1>3. ASSUME NEW h \in Handlers,
             \/ \E c \in Commands : BeginCommand(h, c)
             \/ HandlerStep(h) \/ ConnectionLost(h)
      PROVE  IInv'
  BY <1>3, BeginCommandStep, ReserveMaterialStep, RefuseReservedStep, RejectRefusedStep,
     BeginIntentStep, AppendToLogStep, AppendRefusedStep, CancelIntentStep,
     AppendTimesOutStep, ConfirmReservationStep, FinalizeIntentStep, CommitAcceptedStep,
     AbandonCommandStep, ConnectionLostStep DEF HandlerStep
<1>4. ASSUME NEW w \in Workers, WorkerStep(w)
      PROVE  IInv'
  BY <1>4, ClaimMarkerStep, ReplayFindsEventStep, ReplayFindsNothingStep, ReappendStep,
     ReappendTimesOutStep, FinalizeReappendStep, ConfirmForRepairStep, RepairRoomStep,
     ReleaseClaimStep, WorkerCrashesStep DEF WorkerStep
<1>5. ASSUME NEW m \in late, LateAppend(m)
      PROVE  IInv'
  BY <1>5, LateAppendStep
<1>. QED  BY <1>1, <1>2, <1>3, <1>4, <1>5 DEF Next

THEOREM Invariance == Spec => []IInv
PROOF
<1>. QED  BY Initialization, Preservation, PTL DEF Spec

-----------------------------------------------------------------------------
(* The safety properties                                                   *)

LEMMA SameEntries ==
    ASSUME NEW s \in Seq(Entries), NEW t \in Seq(Entries), Len(s) = Len(t),
           \A i \in 1..Len(s) : s[i] = t[i]
    PROVE  s = t
  OBVIOUS

LEMMA LoggedOnce ==
    ASSUME TypeOK, LogHasIntents
    PROVE  AcceptedOnce
PROOF
<1> SUFFICES ASSUME NEW i \in 1..Len(log), NEW j \in 1..Len(log), log[i].cmd = log[j].cmd
             PROVE  i = j
  BY LogEntries DEF AcceptedOnce, TypeOK
<1>1. intent[log[i].cmd].exp = i - 1 /\ intent[log[i].cmd].exp = j - 1
  BY DEF LogHasIntents
<1>. QED  BY <1>1

LEMMA LostTailIsPending ==
    ASSUME IInv
    PROVE  TailIsRepairable
PROOF
<1> DEFINE c == log[Len(log)].cmd
<1> SUFFICES ASSUME Len(log) > Len(room.applied)
             PROVE  /\ intent[c].status = "pending"
                    /\ intent[c].exp = Len(room.applied)
                    /\ intent[c].snap.applied = log
  BY DEF TailIsRepairable
<1>1. /\ log \in Seq(Entries) /\ Len(log) \in Nat /\ Len(room.applied) \in Nat
      /\ Len(log) = Len(room.applied) + 1
  BY DEF IInv, TypeOK, RoomRows, SnapshotTrailsLog
<1>2. /\ c \in Commands /\ intent[c].status \in {"pending", "done"}
      /\ intent[c].exp = Len(log) - 1 /\ Len(intent[c].snap.applied) = Len(log)
      /\ \A i \in 1..Len(log) : intent[c].snap.applied[i] = log[i]
  <2>1. Len(log) \in 1..Len(log)  BY <1>1
  <2>2. c \in Commands  BY <1>1, <2>1, LogEntries
  <2>. QED  BY <2>1, <2>2, Zenon DEF IInv, LogHasIntents
<1>3. intent[c].status = "pending"
  BY <1>1, <1>2 DEF IInv, DoneIsPublished
<1>4. intent[c].snap.applied \in Seq(Entries)
  BY <1>2 DEF IInv, TypeOK, IntentRows, RoomRows
<1>5. intent[c].snap.applied = log
  BY <1>1, <1>2, <1>4, SameEntries
<1>. QED  BY <1>1, <1>2, <1>3, <1>5

\* Rows, intents, requests and control states keep their shape.
THEOREM TypeCorrect == Spec => []TypeOK
PROOF
<1>1. IInv => TypeOK  BY DEF IInv
<1>. QED  BY <1>1, Invariance, PTL

\* The snapshot of a durable Room trails its integrity log by at most one entry.
THEOREM SnapshotTrails == Spec => []SnapshotTrailsLog
PROOF
<1>1. IInv => SnapshotTrailsLog  BY DEF IInv
<1>. QED  BY <1>1, Invariance, PTL

\* An entry the Room lost always has the pending intent that repairs it.
THEOREM TailRepairable == Spec => []TailIsRepairable
PROOF
<1>1. IInv => TailIsRepairable  BY LostTailIsPending
<1>. QED  BY <1>1, Invariance, PTL

\* However often a command is retried or reappended, it is decided once.
THEOREM DecidedOnce == Spec => []AcceptedOnce
PROOF
<1>1. IInv => AcceptedOnce  BY LoggedOnce DEF IInv
<1>. QED  BY <1>1, Invariance, PTL

\* No worker with a live lease ever finds its revision processed already.
THEOREM OpenUnprocessed == Spec => []OpenIsUnprocessed
PROOF
<1>1. ASSUME IInv, NEW w \in Workers, wrk[w].pc \in {"located", "ready"},
             wrk[w].at \in processed, Fenced(w)
      PROVE  FALSE
  <2>1. /\ wrk[w].cmd \in Commands /\ intent[wrk[w].cmd].status = "pending"
        /\ wrk[w].at = intent[wrk[w].cmd].exp + 1 /\ Holds(log, wrk[w].cmd)
    BY <1>1 DEF IInv, RequestsDeadOrCurrent, FencedIsCurrent, Fenced
  <2>2. log[intent[wrk[w].cmd].exp + 1].cmd = wrk[w].cmd
    BY <1>1, <2>1, IntentSnapshotIsLog DEF IInv
  <2>. QED  BY <1>1, <2>1, <2>2 DEF IInv, ProcessedIsDone
<1>2. IInv => OpenIsUnprocessed  BY <1>1 DEF OpenIsUnprocessed
<1>. QED  BY <1>2, Invariance, PTL

-----------------------------------------------------------------------------
(* Steps that decide nothing and deal nothing                              *)

\* Neither the log nor the published entries nor the cards dealt change.
NothingDecided ==
    /\ log' = log /\ room'.applied = room.applied
    /\ deck'.dealt = deck.dealt /\ deck'.pending \in {deck.pending, None}

\* A handler rests, stops, or goes on with what it has staged.
HandlersGoOn ==
    \A g \in Handlers :
        \/ hnd'[g].pc = "idle"
        \/ hnd'[g].pc = hnd[g].pc /\ hnd'[g].cmd = hnd[g].cmd /\ hnd'[g].stage = hnd[g].stage
        \/ /\ Staged(g) /\ hnd'[g].pc \notin {"idle", "reserve", "confirmed"}
           /\ hnd'[g].cmd = hnd[g].cmd /\ hnd'[g].stage = hnd[g].stage
           /\ hnd'[g].pc = "finalized" =>
                 hnd[g].pc = "confirmed" \/ hnd[g].cmd \notin DrawCommands

\* No intent becomes pending, and a pending one keeps what it describes.
IntentsGoOn ==
    \A c \in Commands : intent'[c].status = "pending" =>
        /\ intent[c].status = "pending"
        /\ intent'[c].exp = intent[c].exp /\ intent'[c].snap = intent[c].snap

WorkersGoOn ==
    \A w \in Workers : wrk'[w].pc = "ready" => wrk[w].pc = "ready" /\ wrk'[w].cmd = wrk[w].cmd

LEMMA SameFits ==
    ASSUME log' = log, deck'.dealt = deck.dealt
    PROVE  /\ \A c : TokenFits(c) => TokenFits(c)'
           /\ \A c, k : CardFits(c, k) => CardFits(c, k)'
           /\ \A c : Dealt(c) <=> Dealt(c)'
  BY DEF TokenFits, CardFits, Dealt, SequenceOf

LEMMA HandlersKeepFit ==
    ASSUME HandlersFit, log' = log, deck'.dealt = deck.dealt, HandlersGoOn
    PROVE  HandlersFit'
PROOF
<1>1. ASSUME NEW g \in Handlers, hnd'[g].pc = "reserve"
      PROVE  hnd'[g].cmd \in DrawCommands
  BY <1>1 DEF HandlersFit, HandlersGoOn
<1>2. ASSUME NEW g \in Handlers, hnd'[g].pc # "idle", Live(hnd[g].stage.rev)',
             hnd'[g].stage = hnd[g].stage, hnd'[g].cmd = hnd[g].cmd, hnd[g].pc # "idle",
             Staged(g)' => Staged(g)
      PROVE  /\ TokenFits(hnd[g].cmd)'
             /\ Staged(g)' => CardFits(hnd[g].cmd, StagedEntry(hnd[g].stage).card)'
  <2>1. Live(hnd[g].stage.rev)  BY <1>2 DEF Live
  <2>2. /\ TokenFits(hnd[g].cmd)
        /\ Staged(g) => CardFits(hnd[g].cmd, StagedEntry(hnd[g].stage).card)
    BY <1>2, <2>1 DEF HandlersFit
  <2>3. TokenFits(hnd[g].cmd)'
    BY <1>2, <2>2 DEF TokenFits, SequenceOf
  <2>4. Staged(g)' => CardFits(hnd[g].cmd, StagedEntry(hnd[g].stage).card)'
    BY <1>2, <2>2 DEF CardFits, Dealt, StagedEntry
  <2>. QED  BY <2>3, <2>4
<1>3. ASSUME NEW g \in Handlers, hnd'[g].pc # "idle"
      PROVE  /\ hnd'[g].stage = hnd[g].stage /\ hnd'[g].cmd = hnd[g].cmd
             /\ hnd[g].pc # "idle"
             /\ Staged(g)' => Staged(g)
  BY <1>3 DEF HandlersGoOn, Staged
<1>4. ASSUME NEW g \in Handlers, hnd'[g].pc # "idle", Live(hnd[g].stage.rev)'
      PROVE  /\ TokenFits(hnd[g].cmd)'
             /\ Staged(g)' => CardFits(hnd[g].cmd, StagedEntry(hnd[g].stage).card)'
  BY <1>2, <1>3, <1>4
<1>. QED  BY <1>1, <1>4 DEF HandlersFit

LEMMA IntentsKeepFit ==
    ASSUME IntentsFit, log' = log, deck'.dealt = deck.dealt, IntentsGoOn
    PROVE  IntentsFit'
PROOF
<1> SUFFICES ASSUME NEW c \in Commands, intent'[c].status = "pending", Live(intent[c].exp)'
             PROVE  TokenFits(c)' /\ CardFits(c, StagedEntry(intent[c].snap).card)'
  BY DEF IntentsFit
<1>1. /\ intent[c].status = "pending"
      /\ intent'[c].exp = intent[c].exp /\ intent'[c].snap = intent[c].snap
  BY DEF IntentsGoOn
<1>2. TokenFits(c) /\ CardFits(c, StagedEntry(intent[c].snap).card)
  BY <1>1 DEF IntentsFit, Live
<1>. QED  BY <1>1, <1>2 DEF TokenFits, SequenceOf, CardFits, Dealt, StagedEntry

LEMMA LogKeepsFit ==
    ASSUME AcceptedAgainstCurrent, LogFits, log' = log, deck'.dealt = deck.dealt
    PROVE  AcceptedAgainstCurrent' /\ LogFits'
<1>1. AcceptedAgainstCurrent'
  BY DEF AcceptedAgainstCurrent, SequenceOf
<1>2. LogFits'
  BY DEF LogFits, CardFits, Dealt
<1>. QED  BY <1>1, <1>2

LEMMA HandlersKeepDealt ==
    ASSUME PublishedIsDealt, \A c : Dealt(c) => Dealt(c)', HandlersGoOn, WorkersGoOn
    PROVE  /\ \A h \in Handlers :
                hnd'[h].pc \in {"confirmed", "finalized"} /\ hnd'[h].cmd \in DrawCommands
                    => Dealt(hnd[h].cmd)'
           /\ \A w \in Workers : wrk'[w].pc = "ready" => Dealt(wrk[w].cmd)'
PROOF
<1>1. ASSUME NEW h \in Handlers,
             hnd'[h].pc \in {"confirmed", "finalized"}, hnd'[h].cmd \in DrawCommands
      PROVE  Dealt(hnd[h].cmd)'
  <2>1. /\ hnd[h].pc \in {"confirmed", "finalized"} /\ hnd'[h].cmd = hnd[h].cmd
    BY <1>1 DEF HandlersGoOn
  <2>2. Dealt(hnd[h].cmd)  BY <1>1, <2>1 DEF PublishedIsDealt
  <2>. QED  BY <2>1, <2>2 DEF Dealt
<1>2. ASSUME NEW w \in Workers, wrk'[w].pc = "ready"
      PROVE  Dealt(wrk[w].cmd)'
  <2>1. wrk[w].pc = "ready" /\ wrk'[w].cmd = wrk[w].cmd  BY <1>2 DEF WorkersGoOn
  <2>2. Dealt(wrk[w].cmd)  BY <2>1 DEF PublishedIsDealt
  <2>. QED  BY <2>1, <2>2 DEF Dealt
<1>. QED  BY <1>1, <1>2

LEMMA NothingDecidedFits ==
    ASSUME DecisionsFit, NothingDecided, HandlersGoOn, IntentsGoOn, WorkersGoOn
    PROVE  DecisionsFit'
PROOF
<1>1. AcceptedAgainstCurrent' /\ LogFits' /\ HandlersFit' /\ IntentsFit'
  BY HandlersKeepFit, IntentsKeepFit, LogKeepsFit DEF DecisionsFit, NothingDecided
<1>2. PublishedIsDealt'
  <2>1. \A c : Dealt(c) => Dealt(c)'  BY DEF NothingDecided, Dealt
  <2>2. \A i \in 1..Len(room'.applied) :
            room'.applied[i].cmd \in DrawCommands => Dealt(room.applied[i].cmd)'
    BY <2>1 DEF DecisionsFit, PublishedIsDealt, NothingDecided, Dealt
  <2>. QED  BY <2>1, <2>2, HandlersKeepDealt DEF DecisionsFit, PublishedIsDealt
<1>3. DealtIsLogged'
  BY DEF DecisionsFit, DealtIsLogged, NothingDecided, Holds, Positions, Dealt
<1>. QED  BY <1>1, <1>2, <1>3 DEF DecisionsFit

\* A handler that goes on past what it staged, and one that stops.
LEMMA HandlerGoesOn ==
    ASSUME TypeOK, NEW h \in Handlers, NEW pc \in HandlerPcs \ {"idle", "reserve", "confirmed"},
           Go(h, pc), Staged(h),
           pc = "finalized" => hnd[h].pc = "confirmed" \/ hnd[h].cmd \notin DrawCommands
    PROVE  HandlersGoOn
PROOF
<1>1. /\ \A g \in Handlers : g # h => hnd'[g] = hnd[g]
      /\ hnd'[h].pc = pc /\ hnd'[h].cmd = hnd[h].cmd /\ hnd'[h].stage = hnd[h].stage
  BY GoEffect DEF TypeOK
<1>. QED  BY <1>1 DEF HandlersGoOn

LEMMA HandlerStops ==
    ASSUME TypeOK, NEW h \in Handlers, ToIdle(h)
    PROVE  HandlersGoOn
PROOF
<1>1. /\ \A g \in Handlers : g # h => hnd'[g] = hnd[g]
      /\ hnd'[h].pc = "idle"
  BY ToIdleEffect DEF TypeOK
<1>. QED  BY <1>1 DEF HandlersGoOn

LEMMA NobodyMoves ==
    /\ hnd' = hnd => HandlersGoOn
    /\ intent' = intent => IntentsGoOn
    /\ wrk' = wrk => WorkersGoOn
  BY DEF HandlersGoOn, IntentsGoOn, WorkersGoOn

LEMMA WorkerGoesOn ==
    ASSUME TypeOK, NEW w \in Workers,
           WorkerToIdle(w) \/ \E pc \in WorkerPcs \ {"ready"} : GoWorker(w, pc)
    PROVE  WorkersGoOn
PROOF
<1>1. /\ \A v \in Workers : v # w => wrk'[v] = wrk[v]
      /\ wrk'[w].pc # "ready"
  BY WorkerToIdleEffect, GoWorkerEffect DEF TypeOK
<1>. QED  BY <1>1 DEF WorkersGoOn

LEMMA RejectionsFit ==
    ASSUME IInv, DecisionsFit,
           NEW c \in Commands, RejectBeforeLock(c) \/ RejectCommand(c) \/ LeaseExpires(c)
    PROVE  DecisionsFit'
PROOF
<1>1. UNCHANGED <<log, deck, intent, hnd, wrk>>
  BY DEF RejectBeforeLock, RejectCommand, LeaseExpires
<1>2. room'.applied = room.applied
  <2>1. room' = room \/ room' = [room EXCEPT !.rejected = @ \cup {c}]
    BY DEF RejectBeforeLock, RejectCommand, LeaseExpires
  <2>. QED  BY <2>1, RecordsRejection DEF IInv, TypeOK, SameSnapshot
<1>. QED  BY <1>1, <1>2, NobodyMoves, NothingDecidedFits DEF NothingDecided

LEMMA RefuseReservedFits ==
    ASSUME IInv, DecisionsFit, NEW h \in Handlers, RefuseReserved(h)
    PROVE  DecisionsFit'
PROOF
<1>1. /\ UNCHANGED <<room, log, intent, wrk>> /\ deck' \in {deck, Voided(hnd[h].cmd)}
      /\ hnd[h].pc = "staged" /\ Go(h, "refused")
  BY DEF RefuseReserved
<1>2. deck'.dealt = deck.dealt /\ deck'.pending \in {deck.pending, None}
  <2>1. deck = [pending |-> deck.pending, dealt |-> deck.dealt, voided |-> deck.voided]
    BY DEF IInv, TypeOK, DeckStates
  <2>2. Voided(hnd[h].cmd) \in
            {deck, [pending |-> None, dealt |-> deck.dealt,
                    voided |-> deck.voided \cup {hnd[h].cmd}]}
    BY <2>1 DEF Voided
  <2>. QED  BY <1>1, <2>2
<1>3. HandlersGoOn
  BY <1>1, HandlerGoesOn DEF IInv, HandlerPcs, Staged
<1>. QED  BY <1>1, <1>2, <1>3, NobodyMoves, NothingDecidedFits DEF NothingDecided

LEMMA HandlerEndsFits ==
    ASSUME IInv, DecisionsFit, NEW h \in Handlers,
           \/ RejectRefused(h) \/ AppendRefused(h) \/ CancelIntent(h) \/ AppendTimesOut(h)
           \/ FinalizeIntent(h) \/ AbandonCommand(h) \/ ConnectionLost(h)
    PROVE  DecisionsFit'
PROOF
<1>1. log' = log /\ deck' = deck /\ wrk' = wrk
  BY DEF RejectRefused, AppendRefused, CancelIntent, AppendTimesOut, FinalizeIntent,
         AbandonCommand, ConnectionLost
<1>2. room'.applied = room.applied
  <2>1. CASE room' = room
    BY <2>1
  <2>2. CASE RejectRefused(h) /\ room' # room
    <3>1. hnd[h].cmd \in Commands /\ room \in RoomRows
      BY <2>2 DEF RejectRefused, IInv, TypeOK, HandlersExtendRoom
    <3>2. room' = [room EXCEPT !.rejected = @ \cup {hnd[h].cmd}]
      BY <2>2 DEF RejectRefused
    <3>. QED  BY <3>1, <3>2, RecordsRejection DEF SameSnapshot
  <2>. QED
    BY <2>1, <2>2 DEF AppendRefused, CancelIntent, AppendTimesOut, FinalizeIntent,
                      AbandonCommand, ConnectionLost
<1>3. HandlersGoOn
  <2>1. CASE AppendRefused(h)
    BY <2>1, HandlerGoesOn DEF AppendRefused, IInv, HandlerPcs, Staged
  <2>2. CASE FinalizeIntent(h)
    <3>1. /\ Go(h, "finalized") /\ Staged(h)
          /\ hnd[h].pc = "confirmed" \/ hnd[h].cmd \notin DrawCommands
      BY <2>2 DEF FinalizeIntent, Staged
    <3>. QED  BY <3>1, HandlerGoesOn DEF IInv, HandlerPcs
  <2>3. CASE ConnectionLost(h)
    BY <2>3, NobodyMoves DEF ConnectionLost
  <2>4. CASE RejectRefused(h) \/ CancelIntent(h) \/ AppendTimesOut(h) \/ AbandonCommand(h)
    BY <2>4, HandlerStops DEF RejectRefused, CancelIntent, AppendTimesOut, AbandonCommand, IInv
  <2>. QED  BY <2>1, <2>2, <2>3, <2>4
<1>4. IntentsGoOn
  <2>1. CASE intent' = intent
    BY <2>1, NobodyMoves
  <2>2. CASE CancelIntent(h)
    <3>1. /\ hnd[h].cmd \in Commands /\ intent \in [Commands -> IntentRows]
      BY <2>2 DEF CancelIntent, IInv, TypeOK, HandlersExtendRoom
    <3> DEFINE s == IF intent[hnd[h].cmd].status = "pending" THEN "cancelled"
                    ELSE intent[hnd[h].cmd].status
    <3>2. intent' = [intent EXCEPT ![hnd[h].cmd].status = s]
      BY <2>2 DEF CancelIntent
    <3>3. s \in {"none", "pending", "cancelled", "done"}
      BY <3>1 DEF IntentRows
    <3>4. intent[hnd[h].cmd].status = "pending" \/ s = intent[hnd[h].cmd].status
      OBVIOUS
    <3>. HIDE DEF s
    <3>. QED  BY <3>1, <3>2, <3>3, <3>4, StatusEffect DEF IntentsKeep, IntentsGoOn
  <2>3. CASE FinalizeIntent(h)
    <3>1. /\ hnd[h].cmd \in Commands /\ intent \in [Commands -> IntentRows]
          /\ hnd[h].at \in Nat
          /\ intent' = [intent EXCEPT ![hnd[h].cmd].at = hnd[h].at]
      <4>1. hnd[h].pc # "idle" /\ intent' = [intent EXCEPT ![hnd[h].cmd].at = hnd[h].at]
        BY <2>3 DEF FinalizeIntent
      <4>. QED  BY <4>1 DEF IInv, TypeOK, HandlerStates, HandlersExtendRoom
    <3>. QED  BY <3>1, RevisionEffect DEF IntentsKeep, IntentsGoOn
  <2>. QED
    BY <2>1, <2>2, <2>3 DEF RejectRefused, AppendRefused, AppendTimesOut, AbandonCommand,
                            ConnectionLost
<1>. QED  BY <1>1, <1>2, <1>3, <1>4, NobodyMoves, NothingDecidedFits DEF NothingDecided

LEMMA WorkerStepFits ==
    ASSUME IInv, DecisionsFit, NEW w \in Workers,
           \/ \E c \in Commands : ClaimMarker(w, c)
           \/ ReplayFindsEvent(w) \/ ReplayFindsNothing(w) \/ ReappendTimesOut(w)
           \/ FinalizeReappend(w) \/ ReleaseClaim(w) \/ WorkerCrashes(w)
    PROVE  DecisionsFit'
PROOF
<1>1. UNCHANGED <<room, log, deck, hnd>>
  BY DEF ClaimMarker, ReplayFindsEvent, ReplayFindsNothing, ReappendTimesOut,
         FinalizeReappend, ReleaseClaim, WorkerCrashes
<1>2. WorkersGoOn
  <2>1. CASE \E c \in Commands : ClaimMarker(w, c)
    <3>1. PICK c \in Commands : ClaimMarker(w, c)  BY <2>1
    <3> DEFINE p == IF intent[c].at = 0 THEN "claimed" ELSE "located"
               r == [pc |-> p, cmd |-> c, exp |-> intent[c].exp,
                     snap |-> intent[c].snap, at |-> intent[c].at]
    <3>2. wrk \in [Workers -> WorkerStates] /\ wrk' = [wrk EXCEPT ![w] = r]
      BY <3>1 DEF ClaimMarker, IInv, TypeOK
    <3>3. r.pc # "ready"  OBVIOUS
    <3>. HIDE DEF r
    <3>. QED  BY <3>2, <3>3 DEF WorkersGoOn
  <2>2. CASE ReplayFindsEvent(w)
    <3>1. PICK i : wrk' = [wrk EXCEPT ![w].pc = "located", ![w].at = i]
      BY <2>2 DEF ReplayFindsEvent
    <3>2. wrk \in [Workers -> WorkerStates]  BY DEF IInv, TypeOK
    <3>3. wrk'[w].pc = "located" /\ \A v \in Workers : v # w => wrk'[v] = wrk[v]
      BY <3>1, <3>2 DEF WorkerStates
    <3>. QED  BY <3>3 DEF WorkersGoOn
  <2>3. CASE ReplayFindsNothing(w)
    BY <2>3, WorkerGoesOn DEF ReplayFindsNothing, IInv, WorkerPcs
  <2>4. CASE FinalizeReappend(w)
    BY <2>4, WorkerGoesOn DEF FinalizeReappend, IInv, WorkerPcs
  <2>5. CASE ReappendTimesOut(w) \/ ReleaseClaim(w) \/ WorkerCrashes(w)
    BY <2>5, WorkerGoesOn DEF ReappendTimesOut, ReleaseClaim, WorkerCrashes, IInv
  <2>. QED  BY <2>1, <2>2, <2>3, <2>4, <2>5
<1>3. IntentsGoOn
  <2>1. CASE intent' = intent
    BY <2>1, NobodyMoves
  <2>2. CASE ReplayFindsEvent(w) \/ FinalizeReappend(w)
    <3>1. PICK n : intent' = [intent EXCEPT ![wrk[w].cmd].at = n]
      BY <2>2 DEF ReplayFindsEvent, FinalizeReappend
    <3>2. intent \in [Commands -> IntentRows]  BY DEF IInv, TypeOK
    <3>3. \A c \in Commands : intent'[c].status = intent[c].status
            /\ intent'[c].exp = intent[c].exp /\ intent'[c].snap = intent[c].snap
      BY <3>1, <3>2 DEF IntentRows
    <3>. QED  BY <3>3 DEF IntentsGoOn
  <2>. QED
    BY <2>1, <2>2 DEF ClaimMarker, ReplayFindsNothing, ReappendTimesOut, ReleaseClaim,
                      WorkerCrashes
<1>. QED  BY <1>1, <1>2, <1>3, NobodyMoves, NothingDecidedFits DEF NothingDecided

-----------------------------------------------------------------------------
(* A command is staged, and its intent written                             *)

\* What is staged on the whole log is staged on all of the Room.
LEMMA NewestIsWhole ==
    ASSUME IInv, Len(room.applied) >= Len(log)
    PROVE  room.applied = log
PROOF
<1>1. /\ room.applied \in Seq(Entries) /\ log \in Seq(Entries)
      /\ Len(room.applied) = Len(log)
      /\ \A i \in 1..Len(room.applied) : room.applied[i] = log[i]
  BY DEF IInv, TypeOK, RoomRows, SnapshotTrailsLog, IsPrefixOf
<1>. QED  BY <1>1, SameEntries

LEMMA StagedCard ==
    ASSUME NEW r \in RoomRows, NEW c \in Commands, NEW k \in 0..DeckSize
    PROVE  StagedEntry(Stage(r, c, k)).card = k
PROOF
<1> DEFINE e == [cmd |-> c, card |-> k]
<1>1. e \in Entries /\ r.applied \in Seq(Entries)  BY DEF Entries, RoomRows
<1>2. Stage(r, c, k).applied = Append(r.applied, e)
  <2>1. r = [applied |-> r.applied, rejected |-> r.rejected, rev |-> r.rev]
    BY DEF RoomRows
  <2>2. Stage(r, c, k) = [r EXCEPT !.applied = Append(@, e)]
    BY DEF Stage
  <2>. HIDE DEF e
  <2>. QED  BY <2>1, <2>2
<1>3. StagedEntry(Stage(r, c, k)) = e
  <2>. HIDE DEF e
  <2>. QED  BY <1>1, <1>2 DEF StagedEntry
<1>. QED  BY <1>3

LEMMA BeginCommandFits ==
    ASSUME IInv, DecisionsFit, NEW h \in Handlers, NEW c \in Commands, BeginCommand(h, c)
    PROVE  DecisionsFit'
PROOF
<1> DEFINE s == IF c \in DrawCommands THEN room ELSE Stage(room, c, 0)
           p == IF c \in DrawCommands THEN "reserve" ELSE "staged"
<1>1. /\ UNCHANGED <<room, intent, log, deck, wrk>> /\ Acceptable(room, c)
      /\ hnd' = [hnd EXCEPT ![h] = [pc |-> p, cmd |-> c, stage |-> s, at |-> 0]]
  BY DEF BeginCommand
<1>2. room \in RoomRows /\ room.rev = Len(room.applied) /\ 0 \in 0..DeckSize
      /\ hnd \in [Handlers -> HandlerStates]
  BY DurableRoomAssumption DEF IInv, TypeOK, SnapshotTrailsLog
<1>3. s.rev = Len(room.applied)
  BY <1>2, StageEffect
<1>4. c \notin DrawCommands => CardFits(c, StagedEntry(s).card)
  BY <1>2, StagedCard DEF CardFits
<1>5. Live(s.rev) => TokenFits(c)
  <2> SUFFICES ASSUME Len(room.applied) >= Len(log), c \notin SystemCommands \cup CreateCommands
               PROVE  Token[c] = SequenceOf(log)
    BY <1>3 DEF Live, TokenFits
  <2>1. room.applied = log  BY NewestIsWhole
  <2>. QED  BY <1>1, <2>1 DEF Acceptable, SequenceMatches
<1>6. p = IF c \in DrawCommands THEN "reserve" ELSE "staged"
  OBVIOUS
<1>. HIDE DEF s, p
<1>7. /\ \A g \in Handlers : g # h => hnd'[g] = hnd[g]
      /\ hnd'[h].pc = p /\ hnd'[h].cmd = c /\ hnd'[h].stage = s
  BY <1>1, <1>2
<1>8. HandlersFit'
  <2>1. ASSUME NEW g \in Handlers, hnd'[g].pc = "reserve"
        PROVE  hnd'[g].cmd \in DrawCommands
    BY <1>6, <1>7, <2>1 DEF DecisionsFit, HandlersFit
  <2>2. ASSUME NEW g \in Handlers, hnd'[g].pc # "idle", Live(hnd[g].stage.rev)'
        PROVE  /\ TokenFits(hnd[g].cmd)'
               /\ Staged(g)' => CardFits(hnd[g].cmd, StagedEntry(hnd[g].stage).card)'
    <3>1. CASE g = h
      <4>1. TokenFits(c) /\ (Staged(h)' => CardFits(c, StagedEntry(s).card))
        BY <1>1, <1>4, <1>5, <1>6, <1>7, <2>2, <3>1 DEF Live, Staged
      <4>. QED
        BY <1>1, <1>7, <3>1, <4>1 DEF TokenFits, SequenceOf, CardFits, Dealt, StagedEntry
    <3>2. CASE g # h
      <4>1. hnd'[g] = hnd[g] /\ Live(hnd[g].stage.rev)
        BY <1>1, <1>7, <2>2, <3>2 DEF Live
      <4>2. /\ TokenFits(hnd[g].cmd)
            /\ Staged(g) => CardFits(hnd[g].cmd, StagedEntry(hnd[g].stage).card)
        BY <2>2, <4>1 DEF DecisionsFit, HandlersFit
      <4>. QED
        BY <1>1, <4>1, <4>2 DEF TokenFits, SequenceOf, CardFits, Dealt, Staged, StagedEntry
    <3>. QED  BY <3>1, <3>2
  <2>. QED  BY <2>1, <2>2 DEF HandlersFit
<1>9. AcceptedAgainstCurrent' /\ LogFits' /\ IntentsFit'
  BY <1>1, NobodyMoves, IntentsKeepFit, LogKeepsFit DEF DecisionsFit
<1>10. PublishedIsDealt'
  BY <1>1, <1>6, <1>7 DEF DecisionsFit, PublishedIsDealt, Dealt
<1>11. DealtIsLogged'
  BY <1>1 DEF DecisionsFit, DealtIsLogged, Holds, Positions, Dealt
<1>. QED  BY <1>8, <1>9, <1>10, <1>11 DEF DecisionsFit

\* What a reservation peeks at is what the deck gives, or would give next.
LEMMA MaterialFits ==
    ASSUME deck \in DeckStates, NEW c \in DrawCommands
    PROVE  /\ CardFits(c, MaterialOf(c))
           /\ Reserved(c).dealt = deck.dealt
           /\ Reserved(c).pending = deck.pending \/ (Reserved(c).pending = c /\ ~Dealt(c))
PROOF
<1>1. deck = [pending |-> deck.pending, dealt |-> deck.dealt, voided |-> deck.voided]
  BY DEF DeckStates
<1>2. CASE Dealt(c)
  <2>1. MaterialOf(c) \in DOMAIN deck.dealt /\ deck.dealt[MaterialOf(c)] = c
    BY <1>2, Zenon DEF MaterialOf, Dealt
  <2>. QED  BY <1>2, <2>1 DEF CardFits, Reserved
<1>3. CASE ~Dealt(c)
  <2>1. MaterialOf(c) = Len(deck.dealt) + 1  BY <1>3 DEF MaterialOf
  <2>2. Reserved(c) = [pending |-> c, dealt |-> deck.dealt, voided |-> deck.voided]
    BY <1>1, <1>3 DEF Reserved
  <2>. QED  BY <1>3, <2>1, <2>2 DEF CardFits
<1>. QED  BY <1>2, <1>3

LEMMA ReserveMaterialFits ==
    ASSUME IInv, DecisionsFit, NEW h \in Handlers, ReserveMaterial(h)
    PROVE  DecisionsFit'
PROOF
<1> DEFINE c == hnd[h].cmd
           k == MaterialOf(c)
           s == Stage(hnd[h].stage, c, k)
<1>1. /\ UNCHANGED <<room, intent, log, wrk>> /\ hnd[h].pc = "reserve"
      /\ CanReserve(c) /\ deck' = Reserved(c)
      /\ hnd' = [hnd EXCEPT ![h].pc = "staged", ![h].stage = s]
  BY DEF ReserveMaterial
<1>2. /\ c \in Commands /\ c \in DrawCommands /\ hnd[h].stage \in RoomRows
      /\ deck \in DeckStates /\ DeckBound /\ hnd \in [Handlers -> HandlerStates]
  BY <1>1 DEF IInv, TypeOK, HandlersExtendRoom, HandlerStates, DecisionsFit, HandlersFit
<1>3. k \in 0..DeckSize
  BY <1>1, <1>2, ReservationEffect
<1>4. s.rev = hnd[h].stage.rev /\ StagedEntry(s).card = k
  BY <1>2, <1>3, StageEffect, StagedCard
<1>5. /\ CardFits(c, k) /\ deck'.dealt = deck.dealt
      /\ deck'.pending = deck.pending \/ (deck'.pending = c /\ ~Dealt(c))
  BY <1>1, <1>2, MaterialFits
<1>. HIDE DEF s, k
<1>6. /\ \A g \in Handlers : g # h => hnd'[g] = hnd[g]
      /\ hnd'[h].pc = "staged" /\ hnd'[h].cmd = c /\ hnd'[h].stage = s
  BY <1>1, <1>2 DEF HandlerStates
<1>7. HandlersFit'
  <2>1. ASSUME NEW g \in Handlers, hnd'[g].pc = "reserve"
        PROVE  hnd'[g].cmd \in DrawCommands
    BY <1>6, <2>1 DEF DecisionsFit, HandlersFit
  <2>2. ASSUME NEW g \in Handlers, hnd'[g].pc # "idle", Live(hnd[g].stage.rev)'
        PROVE  /\ TokenFits(hnd[g].cmd)'
               /\ Staged(g)' => CardFits(hnd[g].cmd, StagedEntry(hnd[g].stage).card)'
    <3>1. CASE g = h
      <4>1. Live(hnd[h].stage.rev)
        BY <1>1, <1>4, <1>6, <2>2, <3>1 DEF Live
      <4>2. TokenFits(c) /\ CardFits(c, StagedEntry(s).card)
        BY <1>1, <1>4, <1>5, <4>1 DEF DecisionsFit, HandlersFit
      <4>. QED
        BY <1>1, <1>5, <1>6, <3>1, <4>2 DEF TokenFits, SequenceOf, CardFits, Dealt, StagedEntry
    <3>2. CASE g # h
      <4>1. hnd'[g] = hnd[g] /\ Live(hnd[g].stage.rev)
        BY <1>1, <1>6, <2>2, <3>2 DEF Live
      <4>2. /\ TokenFits(hnd[g].cmd)
            /\ Staged(g) => CardFits(hnd[g].cmd, StagedEntry(hnd[g].stage).card)
        BY <2>2, <4>1 DEF DecisionsFit, HandlersFit
      <4>. QED
        BY <1>1, <1>5, <4>1, <4>2
           DEF TokenFits, SequenceOf, CardFits, Dealt, Staged, StagedEntry
    <3>. QED  BY <3>1, <3>2
  <2>. QED  BY <2>1, <2>2 DEF HandlersFit
<1>8. AcceptedAgainstCurrent' /\ LogFits' /\ IntentsFit'
  BY <1>1, <1>5, NobodyMoves, IntentsKeepFit, LogKeepsFit DEF DecisionsFit
<1>9. PublishedIsDealt'
  <2>1. \A i \in 1..Len(room.applied) :
            room.applied[i].cmd \in DrawCommands => Dealt(room.applied[i].cmd)'
    BY <1>1, <1>5 DEF DecisionsFit, PublishedIsDealt, Dealt
  <2>2. ASSUME NEW g \in Handlers,
               hnd'[g].pc \in {"confirmed", "finalized"}, hnd'[g].cmd \in DrawCommands
        PROVE  Dealt(hnd[g].cmd)'
    <3>1. g # h /\ hnd'[g] = hnd[g]  BY <1>6, <2>2
    <3>. QED  BY <1>5, <2>2, <3>1 DEF DecisionsFit, PublishedIsDealt, Dealt
  <2>3. \A w \in Workers : wrk[w].pc = "ready" => Dealt(wrk[w].cmd)'
    BY <1>1, <1>5 DEF DecisionsFit, PublishedIsDealt, Dealt
  <2>. QED  BY <1>1, <2>1, <2>2, <2>3 DEF PublishedIsDealt
<1>10. DealtIsLogged'
  <2>1. deck'.pending # None => deck'.pending \in DrawCommands /\ ~Dealt(deck'.pending)
    BY <1>2, <1>5 DEF DecisionsFit, DealtIsLogged
  <2>. QED  BY <1>1, <1>5, <2>1 DEF DecisionsFit, DealtIsLogged, Holds, Positions, Dealt
<1>. QED  BY <1>7, <1>8, <1>9, <1>10 DEF DecisionsFit

LEMMA BeginIntentFits ==
    ASSUME IInv, DecisionsFit, NEW h \in Handlers, BeginIntent(h)
    PROVE  DecisionsFit'
PROOF
<1> DEFINE c == hnd[h].cmd
           st == hnd[h].stage
           n == [status |-> "pending", exp |-> st.rev, snap |-> st, at |-> 0]
<1>1. /\ UNCHANGED <<room, log, deck, wrk>> /\ hnd[h].pc = "staged"
      /\ intent' = [intent EXCEPT ![c] = n] /\ Go(h, "intent")
  BY DEF BeginIntent
<1>2. c \in Commands /\ intent \in [Commands -> IntentRows]
  BY <1>1 DEF IInv, TypeOK, HandlersExtendRoom
<1>3. HandlersGoOn
  BY <1>1, HandlerGoesOn DEF IInv, HandlerPcs, Staged
<1>4. AcceptedAgainstCurrent' /\ LogFits' /\ HandlersFit'
  BY <1>1, <1>3, HandlersKeepFit, LogKeepsFit DEF DecisionsFit
<1>5. /\ \A d \in Commands : d # c => intent'[d] = intent[d]
      /\ intent'[c].exp = st.rev /\ intent'[c].snap = st
  <2>1. n.exp = st.rev /\ n.snap = st  OBVIOUS
  <2>. HIDE DEF n
  <2>. QED  BY <1>1, <1>2, <2>1
<1>6. Live(st.rev) => TokenFits(c) /\ CardFits(c, StagedEntry(st).card)
  BY <1>1 DEF DecisionsFit, HandlersFit, Staged
<1>. HIDE DEF c, st
<1>7. IntentsFit'
  <2> SUFFICES ASSUME NEW d \in Commands, intent'[d].status = "pending", Live(intent[d].exp)'
               PROVE  TokenFits(d)' /\ CardFits(d, StagedEntry(intent[d].snap).card)'
    BY DEF IntentsFit
  <2>1. CASE d = c
    BY <1>1, <1>5, <1>6, <2>1 DEF Live, TokenFits, SequenceOf, CardFits, Dealt, StagedEntry
  <2>2. CASE d # c
    <3>1. intent'[d] = intent[d] /\ Live(intent[d].exp)  BY <1>1, <1>5, <2>2 DEF Live
    <3>2. TokenFits(d) /\ CardFits(d, StagedEntry(intent[d].snap).card)
      BY <3>1 DEF DecisionsFit, IntentsFit
    <3>. QED  BY <1>1, <3>1, <3>2 DEF TokenFits, SequenceOf, CardFits, Dealt, StagedEntry
  <2>. QED  BY <2>1, <2>2
<1>8. PublishedIsDealt'
  <2>1. \A d : Dealt(d) => Dealt(d)'  BY <1>1 DEF Dealt
  <2>2. WorkersGoOn  BY <1>1, NobodyMoves
  <2>. QED
    BY <1>1, <1>3, <2>1, <2>2, HandlersKeepDealt DEF DecisionsFit, PublishedIsDealt, Dealt
<1>9. DealtIsLogged'
  BY <1>1 DEF DecisionsFit, DealtIsLogged, Holds, Positions, Dealt
<1>. QED  BY <1>4, <1>7, <1>8, <1>9 DEF DecisionsFit

-----------------------------------------------------------------------------
(* An append is accepted                                                   *)

\* Nothing staged on a snapshot the Room had is staged behind a longer log.
LEMMA OthersAreDead ==
    ASSUME IInv, log \in Seq(Entries), Len(log) > Len(room.applied)
    PROVE  /\ \A g \in Handlers : hnd[g].pc # "idle" => ~Live(hnd[g].stage.rev)
           /\ \A c \in Commands : intent[c].status = "pending" => ~Live(intent[c].exp)
PROOF
<1>1. Len(log) \in Nat /\ Len(room.applied) \in Nat
  BY DEF IInv, TypeOK, RoomRows
<1>2. ASSUME NEW g \in Handlers, hnd[g].pc # "idle"
      PROVE  ~Live(hnd[g].stage.rev)
  <2>1. hnd[g].stage.rev \in Nat /\ hnd[g].stage.rev <= Len(room.applied)
    BY <1>2 DEF IInv, TypeOK, HandlerStates, RoomRows, HandlersExtendRoom, ExtendsRoom
  <2>. QED  BY <1>1, <2>1 DEF Live
<1>3. ASSUME NEW c \in Commands, intent[c].status = "pending"
      PROVE  ~Live(intent[c].exp)
  <2>1. intent[c].exp \in Nat /\ intent[c].exp <= Len(room.applied)
    BY <1>3 DEF IInv, TypeOK, IntentRows, PendingExtendsRoom, ExtendsRoom
  <2>. QED  BY <1>1, <2>1 DEF Live
<1>. QED  BY <1>2, <1>3

\* The handlers and the intents of a step that leaves nothing to be appended.
LEMMA NobodyIsLive ==
    ASSUME IInv, HandlersFit, HandlersGoOn, intent' = intent, room' = room,
           log' \in Seq(Entries), Len(log') > Len(room.applied)
    PROVE  HandlersFit' /\ IntentsFit'
PROOF
<1>1. Len(log') \in Nat /\ Len(room.applied) \in Nat
  BY DEF IInv, TypeOK, RoomRows
<1>2. ASSUME NEW g \in Handlers, hnd'[g].pc # "idle"
      PROVE  ~Live(hnd[g].stage.rev)'
  <2>1. hnd[g].pc # "idle" /\ hnd'[g].stage = hnd[g].stage
    BY <1>2 DEF HandlersGoOn, Staged
  <2>2. hnd[g].stage.rev \in Nat /\ hnd[g].stage.rev <= Len(room.applied)
    BY <2>1 DEF IInv, TypeOK, HandlerStates, RoomRows, HandlersExtendRoom, ExtendsRoom
  <2>. QED  BY <1>1, <2>1, <2>2 DEF Live
<1>3. ASSUME NEW c \in Commands, intent[c].status = "pending"
      PROVE  ~Live(intent[c].exp)'
  <2>1. intent[c].exp \in Nat /\ intent[c].exp <= Len(room.applied)
    BY <1>3 DEF IInv, TypeOK, IntentRows, PendingExtendsRoom, ExtendsRoom
  <2>. QED  BY <1>1, <2>1 DEF Live
<1>4. ASSUME NEW g \in Handlers, hnd'[g].pc = "reserve"
      PROVE  hnd'[g].cmd \in DrawCommands
  BY <1>4 DEF HandlersFit, HandlersGoOn
<1>. QED  BY <1>2, <1>3, <1>4 DEF HandlersFit, IntentsFit

LEMMA DecidesFit ==
    ASSUME IInv, DecisionsFit, NEW e \in Entries, NEW x \in Nat, DeadOrCurrent(e, x),
           log' = Appended(e, x), room' = room, deck' = deck, intent' = intent,
           HandlersGoOn, WorkersGoOn
    PROVE  DecisionsFit'
PROOF
<1>1. CASE log' = log
  BY <1>1, NobodyMoves, NothingDecidedFits DEF NothingDecided
<1>2. CASE log' # log
  <2>1. ~Holds(log, e.cmd) /\ x = Len(log) /\ log' = Append(log, e)
    BY <1>2, AppendAnswer
  <2>2. /\ intent[e.cmd].status = "pending" /\ intent[e.cmd].exp = Len(log)
        /\ Len(room.applied) = Len(log)
        /\ Len(intent[e.cmd].snap.applied) = Len(log) + 1
        /\ intent[e.cmd].snap.applied[Len(log) + 1] = e
    BY <2>1, AcceptedIsCurrent DEF IInv
  <2>3. /\ log \in Seq(Entries) /\ Len(log) \in Nat /\ DOMAIN log = 1..Len(log)
        /\ e.cmd \in Commands /\ room.applied \in Seq(Entries)
    BY DEF IInv, TypeOK, RoomRows, Entries
  <2>4. /\ log' \in Seq(Entries) /\ Len(log') = Len(log) + 1
        /\ DOMAIN log' = 1..(Len(log) + 1)
        /\ log'[Len(log) + 1] = e
        /\ \A i \in 1..Len(log) : log'[i] = log[i]
    BY <2>1, <2>3
  <2>5. TokenFits(e.cmd) /\ CardFits(e.cmd, e.card)
    <3>1. StagedEntry(intent[e.cmd].snap) = e  BY <2>2 DEF StagedEntry
    <3>2. Live(intent[e.cmd].exp)  BY <2>2, <2>3 DEF Live
    <3>. QED  BY <2>2, <2>3, <3>1, <3>2 DEF DecisionsFit, IntentsFit
  <2>6. AcceptedAgainstCurrent'
    <3> SUFFICES ASSUME NEW i \in 1..(Len(log) + 1),
                        log'[i].cmd \notin SystemCommands \cup CreateCommands
                 PROVE  Token[log'[i].cmd] = SequenceOf(SubSeq(log', 1, i - 1))
      BY <2>4 DEF AcceptedAgainstCurrent, SequenceOf
    <3>1. CASE i = Len(log) + 1
      <4>1. SubSeq(log', 1, i - 1) = log
        <5>1. SubSeq(log', 1, Len(log)) \in Seq(Entries)
              /\ Len(SubSeq(log', 1, Len(log))) = Len(log)
              /\ \A j \in 1..Len(log) : SubSeq(log', 1, Len(log))[j] = log[j]
          BY <2>3, <2>4
        <5>2. SubSeq(log', 1, Len(log)) = log  BY <2>3, <5>1, SameEntries
        <5>3. i - 1 = Len(log)  BY <2>3, <3>1
        <5>. QED  BY <5>2, <5>3
      <4>. QED  BY <2>4, <2>5, <3>1, <4>1 DEF TokenFits
    <3>2. CASE i # Len(log) + 1
      <4>1. i \in 1..Len(log) /\ log'[i] = log[i] /\ i - 1 \in Nat /\ i - 1 <= Len(log)
        BY <2>3, <2>4, <3>2
      <4>2. SubSeq(log', 1, i - 1) = SubSeq(log, 1, i - 1)
        <5>1. /\ SubSeq(log', 1, i - 1) \in Seq(Entries)
              /\ Len(SubSeq(log', 1, i - 1)) = i - 1
              /\ \A j \in 1..(i - 1) : SubSeq(log', 1, i - 1)[j] = log'[j]
          BY <2>4, <4>1
        <5>2. /\ SubSeq(log, 1, i - 1) \in Seq(Entries)
              /\ Len(SubSeq(log, 1, i - 1)) = i - 1
              /\ \A j \in 1..(i - 1) : SubSeq(log, 1, i - 1)[j] = log[j]
          BY <2>3, <4>1
        <5>3. \A j \in 1..(i - 1) : log'[j] = log[j]
          BY <2>3, <2>4, <4>1
        <5>. QED  BY <4>1, <5>1, <5>2, <5>3, SameEntries
      <4>3. Token[log[i].cmd] = SequenceOf(SubSeq(log, 1, i - 1))
        BY <2>3, <4>1 DEF DecisionsFit, AcceptedAgainstCurrent
      <4>. QED  BY <4>1, <4>2, <4>3
    <3>. QED  BY <3>1, <3>2
  <2>7. HandlersFit' /\ IntentsFit'
    BY <2>2, <2>3, <2>4, NobodyIsLive DEF DecisionsFit
  <2>8. LogFits'
    <3>1. ASSUME NEW i \in 1..(Len(log) + 1)
          PROVE  CardFits(log'[i].cmd, log'[i].card)
      <4>1. CASE i = Len(log) + 1
        BY <2>4, <2>5, <4>1
      <4>2. CASE i # Len(log) + 1
        <5>1. i \in 1..Len(log) /\ log'[i] = log[i]  BY <2>3, <2>4, <4>2
        <5>. QED  BY <5>1 DEF DecisionsFit, LogFits
      <4>. QED  BY <4>1, <4>2
    <3>. QED  BY <2>4, <3>1 DEF LogFits, CardFits, Dealt
  <2>9. PublishedIsDealt'
    <3>1. \A d : Dealt(d) => Dealt(d)'  BY DEF Dealt
    <3>. QED  BY <3>1, HandlersKeepDealt DEF DecisionsFit, PublishedIsDealt, Dealt
  <2>10. DealtIsLogged'
    <3>1. \A c \in DrawCommands : Holds(log, c) => Holds(log', c)
      BY <2>3, <2>4 DEF Holds, Positions
    <3>2. \A k \in DOMAIN deck.dealt : deck.dealt[k] \in DrawCommands /\ Holds(log', deck.dealt[k])
      BY <3>1 DEF DecisionsFit, DealtIsLogged
    <3>. QED  BY <3>2 DEF DecisionsFit, DealtIsLogged, Dealt, Holds, Positions
  <2>. QED  BY <2>6, <2>7, <2>8, <2>9, <2>10 DEF DecisionsFit
<1>. QED  BY <1>1, <1>2

LEMMA AppendToLogFits ==
    ASSUME IInv, DecisionsFit, NEW h \in Handlers, AppendToLog(h)
    PROVE  DecisionsFit'
PROOF
<1> DEFINE st == hnd[h].stage
           e == StagedEntry(st)
           n == AppendOutcome(e, st.rev).at
<1>1. /\ UNCHANGED <<room, intent, deck, wrk>> /\ hnd[h].pc = "intent"
      /\ log' = Appended(e, st.rev)
      /\ hnd' = [hnd EXCEPT ![h].pc = "appended", ![h].at = n]
  BY DEF AppendToLog
<1>2. /\ st.rev \in Nat /\ st.applied \in Seq(Entries) /\ StagesOne(st, st.rev, hnd[h].cmd)
      /\ intent[hnd[h].cmd].status \in {"pending", "done"}
      /\ intent[hnd[h].cmd].exp = st.rev /\ intent[hnd[h].cmd].snap = st
      /\ hnd \in [Handlers -> HandlerStates]
  BY <1>1 DEF IInv, TypeOK, HandlerStates, RoomRows, HandlersExtendRoom, Staged,
              IntentsOfHandlers, HasIntent
<1>3. e \in Entries /\ DeadOrCurrent(e, st.rev)
  BY <1>2 DEF StagedEntry, StagesOne, DeadOrCurrent
<1>. HIDE DEF n, e
<1>4. /\ \A g \in Handlers : g # h => hnd'[g] = hnd[g]
      /\ hnd'[h].pc = "appended" /\ hnd'[h].cmd = hnd[h].cmd /\ hnd'[h].stage = st
  BY <1>1, <1>2 DEF HandlerStates
<1>5. HandlersGoOn
  BY <1>1, <1>4 DEF HandlersGoOn, Staged
<1>. HIDE DEF st
<1>6. st.rev \in Nat  BY <1>2 DEF st
<1>. QED  BY <1>1, <1>3, <1>5, <1>6, NobodyMoves, DecidesFit

LEMMA ReappendFits ==
    ASSUME IInv, DecisionsFit, NEW w \in Workers, Reappend(w)
    PROVE  DecisionsFit'
PROOF
<1> DEFINE n == AppendOutcome(StagedEntry(wrk[w].snap), wrk[w].exp).at
<1>1. /\ UNCHANGED <<room, intent, deck, hnd>> /\ wrk[w].pc # "idle"
      /\ log' = Appended(StagedEntry(wrk[w].snap), wrk[w].exp)
      /\ wrk' = [wrk EXCEPT ![w].pc = "appended", ![w].at = n]
  BY DEF Reappend
<1>. HIDE DEF n
<1>2. wrk \in [Workers -> WorkerStates]  BY DEF IInv, TypeOK
<1>3. wrk'[w].pc = "appended" /\ \A v \in Workers : v # w => wrk'[v] = wrk[v]
  BY <1>1, <1>2 DEF WorkerStates
<1>4. WorkersGoOn  BY <1>3 DEF WorkersGoOn
<1>. QED  BY <1>1, <1>4, NobodyMoves, ClaimIsTyped, DecidesFit

LEMMA LateAppendFits ==
    ASSUME IInv, DecisionsFit, NEW m \in late, LateAppend(m)
    PROVE  DecisionsFit'
PROOF
<1>1. m.entry \in Entries /\ m.exp \in Nat /\ DeadOrCurrent(m.entry, m.exp)
  BY DEF IInv, TypeOK, Requests, RequestsDeadOrCurrent
<1>. QED  BY <1>1, NobodyMoves, DecidesFit DEF LateAppend

-----------------------------------------------------------------------------
(* Cards leave the deck                                                    *)

\* Handlers rest or stop, or one of them has just confirmed c's reservation.
ConfirmsFor(c) ==
    /\ \A g \in Handlers :
          /\ hnd'[g].pc # "idle" => /\ hnd[g].pc # "idle"
                                    /\ hnd'[g].cmd = hnd[g].cmd /\ hnd'[g].stage = hnd[g].stage
          /\ Staged(g)' => Staged(g)
          /\ hnd'[g].pc = "reserve" => hnd[g].pc = "reserve"
          /\ hnd'[g].pc \in {"confirmed", "finalized"} =>
                hnd[g].pc \in {"confirmed", "finalized"} \/ hnd[g].cmd = c
    /\ \A w \in Workers :
          wrk'[w].pc = "ready" => /\ wrk[w].pc = "ready" \/ wrk[w].cmd = c
                                  /\ wrk'[w].cmd = wrk[w].cmd

\* What a confirmation does to the deck.
LEMMA ConfirmedDeck ==
    ASSUME deck \in DeckStates, NEW c \in Commands, CanConfirm(c), deck' = Confirmed(c)
    PROVE  \/ Dealt(c) /\ deck' = deck
           \/ /\ ~Dealt(c) /\ deck.pending = c /\ deck'.pending = None
              /\ DOMAIN deck.dealt = 1..Len(deck.dealt) /\ Len(deck.dealt) \in Nat
              /\ DOMAIN deck'.dealt = 1..(Len(deck.dealt) + 1)
              /\ deck'.dealt[Len(deck.dealt) + 1] = c
              /\ \A k \in 1..Len(deck.dealt) : deck'.dealt[k] = deck.dealt[k]
PROOF
<1>1. /\ deck.dealt \in Seq(Commands)
      /\ deck = [pending |-> deck.pending, dealt |-> deck.dealt, voided |-> deck.voided]
  BY DEF DeckStates
<1>2. CASE Dealt(c)
  BY <1>2 DEF Confirmed
<1>3. CASE ~Dealt(c)
  <2>1. /\ deck' = [pending |-> None, dealt |-> Append(deck.dealt, c), voided |-> deck.voided]
        /\ deck.pending = c
    BY <1>1, <1>3 DEF Confirmed, CanConfirm
  <2>2. deck'.dealt = Append(deck.dealt, c) /\ deck'.pending = None  BY <2>1
  <2>. QED  BY <1>1, <1>3, <2>1, <2>2
<1>. QED  BY <1>2, <1>3

\* A draw in the log whose cards are still in the deck is the lost tail.
LEMMA UndealtIsTail ==
    ASSUME IInv, DecisionsFit, NEW i \in 1..Len(log), log[i].cmd \in DrawCommands,
           ~Dealt(log[i].cmd)
    PROVE  i = Len(log) /\ Len(log) = Len(room.applied) + 1
PROOF
<1>1. /\ Len(log) \in Nat /\ Len(room.applied) \in Nat
      /\ Len(log) <= Len(room.applied) + 1
      /\ DOMAIN room.applied = 1..Len(room.applied)
      /\ \A j \in 1..Len(room.applied) : room.applied[j] = log[j]
  BY DEF IInv, TypeOK, RoomRows, SnapshotTrailsLog, IsPrefixOf
<1>2. ~ (i <= Len(room.applied))
  <2> SUFFICES ASSUME i <= Len(room.applied) PROVE FALSE
    OBVIOUS
  <2>1. i \in 1..Len(room.applied) /\ room.applied[i] = log[i]  BY <1>1
  <2>. QED  BY <2>1 DEF DecisionsFit, PublishedIsDealt
<1>. QED  BY <1>1, <1>2

LEMMA DealFits ==
    ASSUME IInv, DecisionsFit, NEW c \in Commands, c \in DrawCommands, Holds(log, c),
           CanConfirm(c), deck' = Confirmed(c),
           log' = log, room' = room, intent' = intent, ConfirmsFor(c)
    PROVE  DecisionsFit'
PROOF
<1>1. deck \in DeckStates /\ log \in Seq(Entries) /\ Len(log) \in Nat /\ DOMAIN log = 1..Len(log)
  BY DEF IInv, TypeOK
<1>2. \/ Dealt(c) /\ deck' = deck
      \/ /\ ~Dealt(c) /\ deck.pending = c /\ deck'.pending = None
         /\ DOMAIN deck.dealt = 1..Len(deck.dealt) /\ Len(deck.dealt) \in Nat
         /\ DOMAIN deck'.dealt = 1..(Len(deck.dealt) + 1)
         /\ deck'.dealt[Len(deck.dealt) + 1] = c
         /\ \A k \in 1..Len(deck.dealt) : deck'.dealt[k] = deck.dealt[k]
  BY <1>1, ConfirmedDeck
<1>3. Dealt(c)' /\ \A d : Dealt(d) => Dealt(d)'
  <2>1. CASE Dealt(c) /\ deck' = deck
    BY <2>1 DEF Dealt
  <2>2. CASE ~Dealt(c)
    <3>1. Len(deck.dealt) + 1 \in DOMAIN deck'.dealt /\ deck'.dealt[Len(deck.dealt) + 1] = c
      BY <1>2, <2>2
    <3>2. ASSUME NEW d, NEW k \in DOMAIN deck.dealt, deck.dealt[k] = d
          PROVE  k \in DOMAIN deck'.dealt /\ deck'.dealt[k] = d
      BY <1>2, <2>2, <3>2
    <3>. QED  BY <3>1, <3>2 DEF Dealt
  <2>. QED  BY <1>2, <2>1, <2>2
<1>4. PublishedIsDealt'
  <2>1. ASSUME NEW g \in Handlers,
               hnd'[g].pc \in {"confirmed", "finalized"}, hnd'[g].cmd \in DrawCommands
        PROVE  Dealt(hnd[g].cmd)'
    <3>1. /\ hnd'[g].cmd = hnd[g].cmd
          /\ hnd[g].pc \in {"confirmed", "finalized"} \/ hnd[g].cmd = c
      BY <2>1 DEF ConfirmsFor
    <3>2. Dealt(hnd[g].cmd) \/ hnd[g].cmd = c
      BY <2>1, <3>1 DEF DecisionsFit, PublishedIsDealt
    <3>. QED  BY <1>3, <3>1, <3>2 DEF Dealt
  <2>2. ASSUME NEW w \in Workers, wrk'[w].pc = "ready"
        PROVE  Dealt(wrk[w].cmd)'
    <3>1. /\ wrk'[w].cmd = wrk[w].cmd
          /\ wrk[w].pc = "ready" \/ wrk[w].cmd = c
      BY <2>2 DEF ConfirmsFor
    <3>2. Dealt(wrk[w].cmd) \/ wrk[w].cmd = c
      BY <3>1 DEF DecisionsFit, PublishedIsDealt
    <3>. QED  BY <1>3, <3>1, <3>2 DEF Dealt
  <2>3. \A i \in 1..Len(room.applied) :
            room.applied[i].cmd \in DrawCommands => Dealt(room.applied[i].cmd)'
    BY <1>3 DEF DecisionsFit, PublishedIsDealt, Dealt
  <2>. QED  BY <2>1, <2>2, <2>3 DEF PublishedIsDealt, Dealt
<1>5. AcceptedAgainstCurrent'
  BY DEF DecisionsFit, AcceptedAgainstCurrent, SequenceOf
<1>6. CASE Dealt(c) /\ deck' = deck
  <2>1. LogFits' /\ IntentsFit'
    BY <1>6, NobodyMoves, IntentsKeepFit, LogKeepsFit DEF DecisionsFit
  <2>2. HandlersFit'
    <3>1. ASSUME NEW g \in Handlers, hnd'[g].pc = "reserve"
          PROVE  hnd'[g].cmd \in DrawCommands
      BY <3>1 DEF DecisionsFit, HandlersFit, ConfirmsFor
    <3>2. ASSUME NEW g \in Handlers, hnd'[g].pc # "idle", Live(hnd[g].stage.rev)'
          PROVE  /\ TokenFits(hnd[g].cmd)'
                 /\ Staged(g)' => CardFits(hnd[g].cmd, StagedEntry(hnd[g].stage).card)'
      <4>1. /\ hnd[g].pc # "idle" /\ hnd'[g].cmd = hnd[g].cmd /\ hnd'[g].stage = hnd[g].stage
            /\ Staged(g)' => Staged(g)
        BY <3>2 DEF ConfirmsFor
      <4>2. Live(hnd[g].stage.rev)  BY <3>2, <4>1 DEF Live
      <4>3. /\ TokenFits(hnd[g].cmd)
            /\ Staged(g) => CardFits(hnd[g].cmd, StagedEntry(hnd[g].stage).card)
        BY <4>1, <4>2 DEF DecisionsFit, HandlersFit
      <4>4. TokenFits(hnd[g].cmd)'
        BY <4>1, <4>3 DEF TokenFits, SequenceOf
      <4>5. Staged(g)' => CardFits(hnd[g].cmd, StagedEntry(hnd[g].stage).card)'
        BY <1>6, <4>1, <4>3 DEF CardFits, Dealt, StagedEntry
      <4>. QED  BY <4>4, <4>5
    <3>. QED  BY <3>1, <3>2 DEF HandlersFit
  <2>3. DealtIsLogged'
    BY <1>6 DEF DecisionsFit, DealtIsLogged, Holds, Positions, Dealt
  <2>. QED  BY <1>4, <1>5, <2>1, <2>2, <2>3 DEF DecisionsFit
<1>7. CASE ~Dealt(c)
  <2>1. PICK i \in 1..Len(log) : log[i].cmd = c
    BY <1>1 DEF Holds, Positions
  <2>2. i = Len(log) /\ Len(log) = Len(room.applied) + 1 /\ Len(room.applied) \in Nat
    BY <1>7, <2>1, UndealtIsTail DEF IInv, TypeOK, RoomRows
  <2>3. CardFits(c, log[i].card)
    BY <2>1 DEF DecisionsFit, LogFits
  <2>4. log[i].card = Len(deck.dealt) + 1
    <3>1. \/ log[i].card \in DOMAIN deck.dealt /\ deck.dealt[log[i].card] = c
          \/ log[i].card = Len(deck.dealt) + 1 /\ ~Dealt(c)
      BY <2>3 DEF CardFits
    <3>. QED  BY <1>7, <3>1 DEF Dealt
  <2>5. LogFits'
    <3>1. ASSUME NEW j \in 1..Len(log), log[j].cmd \in DrawCommands
          PROVE  log[j].card \in DOMAIN deck'.dealt /\ deck'.dealt[log[j].card] = log[j].cmd
      <4>1. CASE Dealt(log[j].cmd)
        <5>1. log[j].card \in DOMAIN deck.dealt /\ deck.dealt[log[j].card] = log[j].cmd
          BY <3>1, <4>1 DEF DecisionsFit, LogFits, CardFits
        <5>. QED  BY <1>2, <1>7, <5>1
      <4>2. CASE ~Dealt(log[j].cmd)
        <5>1. j = i  BY <2>2, <3>1, <4>2, UndealtIsTail
        <5>. QED  BY <1>2, <1>7, <2>1, <2>4, <5>1
      <4>. QED  BY <4>1, <4>2
    <3>2. \A j \in 1..Len(log) : log[j].cmd \notin DrawCommands => log[j].card = 0
      BY DEF DecisionsFit, LogFits, CardFits
    <3>. QED  BY <3>1, <3>2 DEF LogFits, CardFits
  <2>6. HandlersFit'
    <3>1. \A g \in Handlers : hnd[g].pc # "idle" => ~Live(hnd[g].stage.rev)
      BY <1>1, <2>2, OthersAreDead
    <3>2. ASSUME NEW g \in Handlers, hnd'[g].pc # "idle"
          PROVE  ~Live(hnd[g].stage.rev)'
      BY <3>1, <3>2 DEF ConfirmsFor, Live
    <3>3. ASSUME NEW g \in Handlers, hnd'[g].pc = "reserve"
          PROVE  hnd'[g].cmd \in DrawCommands
      BY <3>3 DEF DecisionsFit, HandlersFit, ConfirmsFor
    <3>. QED  BY <3>2, <3>3 DEF HandlersFit
  <2>7. IntentsFit'
    <3>1. \A d \in Commands : intent[d].status = "pending" => ~Live(intent[d].exp)
      BY <1>1, <2>2, OthersAreDead
    <3>. QED  BY <3>1 DEF IntentsFit, Live
  <2>8. DealtIsLogged'
    <3>1. \A k \in DOMAIN deck.dealt : deck.dealt[k] # c
      BY <1>7 DEF Dealt
    <3>2. ASSUME NEW j \in DOMAIN deck'.dealt, NEW k \in DOMAIN deck'.dealt,
                 deck'.dealt[j] = deck'.dealt[k]
          PROVE  j = k
      <4>1. \A a, b \in DOMAIN deck.dealt : deck.dealt[a] = deck.dealt[b] => a = b
        BY DEF DecisionsFit, DealtIsLogged
      <4>2. \A a \in DOMAIN deck'.dealt :
                \/ a \in DOMAIN deck.dealt /\ deck'.dealt[a] = deck.dealt[a]
                \/ a = Len(deck.dealt) + 1 /\ deck'.dealt[a] = c
        <5>1. ASSUME NEW a \in 1..(Len(deck.dealt) + 1)
              PROVE  \/ a \in 1..Len(deck.dealt) /\ deck'.dealt[a] = deck.dealt[a]
                     \/ a = Len(deck.dealt) + 1 /\ deck'.dealt[a] = c
          BY <1>2, <1>7
        <5>2. DOMAIN deck.dealt = 1..Len(deck.dealt)
              /\ DOMAIN deck'.dealt = 1..(Len(deck.dealt) + 1)
          BY <1>2, <1>7
        <5>. QED  BY <5>1, <5>2
      <4>. QED  BY <3>1, <3>2, <4>1, <4>2
    <3>3. ASSUME NEW k \in DOMAIN deck'.dealt
          PROVE  deck'.dealt[k] \in DrawCommands /\ Holds(log, deck'.dealt[k])
      <4>1. CASE k \in DOMAIN deck.dealt
        <5>1. deck'.dealt[k] = deck.dealt[k]  BY <1>2, <1>7, <4>1
        <5>. QED  BY <4>1, <5>1 DEF DecisionsFit, DealtIsLogged
      <4>2. CASE k \notin DOMAIN deck.dealt
        <5>1. deck'.dealt[k] = c  BY <1>2, <1>7, <3>3, <4>2
        <5>. QED  BY <5>1
      <4>. QED  BY <4>1, <4>2
    <3>4. deck'.pending = None  BY <1>2, <1>7
    <3>. QED  BY <3>2, <3>3, <3>4 DEF DealtIsLogged, Holds, Positions
  <2>. QED  BY <1>4, <1>5, <2>5, <2>6, <2>7, <2>8 DEF DecisionsFit
<1>. QED  BY <1>2, <1>6, <1>7

LEMMA ConfirmReservationFits ==
    ASSUME IInv, DecisionsFit, NEW h \in Handlers, ConfirmReservation(h)
    PROVE  DecisionsFit'
PROOF
<1>1. /\ UNCHANGED <<room, intent, log, wrk>> /\ hnd[h].pc = "appended" /\ Go(h, "confirmed")
      /\ hnd[h].cmd \in DrawCommands
      /\ CanConfirm(hnd[h].cmd) /\ deck' = Confirmed(hnd[h].cmd)
  BY DEF ConfirmReservation
<1>2. hnd[h].cmd \in Commands /\ Holds(log, hnd[h].cmd)
  BY <1>1 DEF IInv, HandlersExtendRoom, AppendedIsLogged
<1>3. /\ \A g \in Handlers : g # h => hnd'[g] = hnd[g]
      /\ hnd'[h].pc = "confirmed" /\ hnd'[h].cmd = hnd[h].cmd /\ hnd'[h].stage = hnd[h].stage
  BY <1>1, GoEffect DEF IInv, TypeOK, HandlerPcs
<1>4. ConfirmsFor(hnd[h].cmd)
  <2>1. ASSUME NEW g \in Handlers
        PROVE  /\ hnd'[g].pc # "idle" => /\ hnd[g].pc # "idle"
                                         /\ hnd'[g].cmd = hnd[g].cmd
                                         /\ hnd'[g].stage = hnd[g].stage
               /\ Staged(g)' => Staged(g)
               /\ hnd'[g].pc = "reserve" => hnd[g].pc = "reserve"
               /\ hnd'[g].pc \in {"confirmed", "finalized"} =>
                     hnd[g].pc \in {"confirmed", "finalized"} \/ hnd[g].cmd = hnd[h].cmd
    BY <1>1, <1>3 DEF Staged
  <2>. QED  BY <1>1, <2>1 DEF ConfirmsFor
<1>. QED  BY <1>1, <1>2, <1>4, DealFits

LEMMA ConfirmForRepairFits ==
    ASSUME IInv, DecisionsFit, NEW w \in Workers, ConfirmForRepair(w)
    PROVE  DecisionsFit'
PROOF
<1>1. /\ UNCHANGED <<room, intent, log, hnd>> /\ wrk[w].pc = "located" /\ GoWorker(w, "ready")
      /\ wrk[w].cmd \in DrawCommands /\ Fenced(w)
      /\ CanConfirm(wrk[w].cmd) /\ deck' = Confirmed(wrk[w].cmd)
  BY DEF ConfirmForRepair
<1>2. wrk[w].cmd \in Commands /\ Holds(log, wrk[w].cmd)
  BY <1>1 DEF IInv, RequestsDeadOrCurrent, FencedIsCurrent
<1>3. /\ \A v \in Workers : v # w => wrk'[v] = wrk[v]
      /\ wrk'[w].cmd = wrk[w].cmd
  BY <1>1, GoWorkerEffect DEF IInv, TypeOK, WorkerPcs
<1>4. ConfirmsFor(wrk[w].cmd)
  BY <1>1, <1>3 DEF ConfirmsFor, Staged
<1>. QED  BY <1>1, <1>2, <1>4, DealFits

-----------------------------------------------------------------------------
(* A decision is published                                                 *)

LEMMA PublishFits ==
    ASSUME IInv, DecisionsFit, NEW c \in Commands, Holds(log, c),
           c \in DrawCommands => Dealt(c),
           log' = log, deck' = deck, HandlersGoOn, IntentsGoOn, WorkersGoOn,
           \/ room' = room
           \/ /\ Len(log) = Len(room.applied) + 1 /\ Len(room'.applied) = Len(log)
              /\ \A i \in 1..Len(log) : room'.applied[i] = log[i]
              /\ room'.applied = intent[c].snap.applied
    PROVE  DecisionsFit'
PROOF
<1>1. AcceptedAgainstCurrent' /\ LogFits' /\ HandlersFit' /\ IntentsFit'
  BY HandlersKeepFit, IntentsKeepFit, LogKeepsFit DEF DecisionsFit
<1>2. DealtIsLogged'
  BY DEF DecisionsFit, DealtIsLogged, Holds, Positions, Dealt
<1>3. \A d : Dealt(d) => Dealt(d)'
  BY DEF Dealt
<1>4. ASSUME NEW i \in 1..Len(room'.applied), room'.applied[i].cmd \in DrawCommands
      PROVE  Dealt(room'.applied[i].cmd)
  <2>1. CASE room' = room
    BY <1>4, <2>1 DEF DecisionsFit, PublishedIsDealt
  <2>2. CASE room' # room
    <3>1. /\ i \in 1..Len(log) /\ room'.applied[i] = log[i]
          /\ Len(intent[c].snap.applied) = Len(log)
      BY <2>2
    <3>2. CASE Dealt(log[i].cmd)
      BY <3>1, <3>2
    <3>3. CASE ~Dealt(log[i].cmd)
      <4>1. i = Len(log)  BY <1>4, <3>1, <3>3, UndealtIsTail
      <4>2. /\ log[intent[c].exp + 1].cmd = c
            /\ Len(intent[c].snap.applied) = intent[c].exp + 1
        BY IntentSnapshotIsLog DEF IInv
      <4>. QED  BY <1>4, <3>1, <4>1, <4>2
    <3>. QED  BY <3>2, <3>3
  <2>. QED  BY <2>1, <2>2
<1>5. PublishedIsDealt'
  BY <1>3, <1>4, HandlersKeepDealt DEF DecisionsFit, PublishedIsDealt, Dealt
<1>. QED  BY <1>1, <1>2, <1>5 DEF DecisionsFit

LEMMA CommitAcceptedFits ==
    ASSUME IInv, DecisionsFit, NEW h \in Handlers, CommitAccepted(h)
    PROVE  DecisionsFit'
PROOF
<1> DEFINE c == hnd[h].cmd
           st == hnd[h].stage
           s == IF intent[c].status = "pending" THEN "done" ELSE intent[c].status
<1>1. /\ log' = log /\ Len(log) = Len(room.applied) + 1 /\ Len(room'.applied) = Len(log)
      /\ \A i \in 1..Len(log) : room'.applied[i] = log[i]
  BY CommitAcceptedStep
<1>2. /\ deck' = deck /\ wrk' = wrk /\ hnd[h].pc = "finalized" /\ ToIdle(h)
      /\ room' = [st EXCEPT !.rev = hnd[h].at]
      /\ intent' = [intent EXCEPT ![c].status = s]
  BY DEF CommitAccepted
<1>3. /\ c \in Commands /\ st \in RoomRows /\ Holds(log, c) /\ intent[c].snap = st
      /\ intent \in [Commands -> IntentRows]
      /\ c \in DrawCommands => Dealt(c)
  BY <1>2 DEF IInv, TypeOK, HandlerStates, HandlersExtendRoom, IntentsOfHandlers, HasIntent,
              AppendedIsLogged, DecisionsFit, PublishedIsDealt
<1>4. room'.applied = intent[c].snap.applied
  BY <1>2, <1>3 DEF RoomRows
<1>5. IntentsGoOn
  <2>1. s \in {"none", "pending", "cancelled", "done"}  BY <1>3 DEF IntentRows
  <2>2. intent[c].status = "pending" \/ s = intent[c].status  OBVIOUS
  <2>. HIDE DEF s
  <2>. QED  BY <1>2, <1>3, <2>1, <2>2, StatusEffect DEF IntentsKeep, IntentsGoOn
<1>6. HandlersGoOn /\ WorkersGoOn
  BY <1>2, HandlerStops, NobodyMoves DEF IInv
<1>. HIDE DEF c, st, s
<1>. QED  BY <1>1, <1>2, <1>3, <1>4, <1>5, <1>6, PublishFits

LEMMA RepairRoomFits ==
    ASSUME IInv, DecisionsFit, NEW w \in Workers, RepairRoom(w)
    PROVE  DecisionsFit'
PROOF
<1> DEFINE c == wrk[w].cmd
<1>1. /\ log' = log
      /\ \/ room' = room
         \/ /\ Len(log) = Len(room.applied) + 1 /\ Len(room'.applied) = Len(log)
            /\ \A i \in 1..Len(log) : room'.applied[i] = log[i]
  BY RepairRoomStep
<1>2. /\ deck' = deck /\ hnd' = hnd /\ WorkerToIdle(w) /\ Fenced(w)
      /\ wrk[w].pc = IF c \in DrawCommands THEN "ready" ELSE "located"
      /\ room' = room \/ room' = [wrk[w].snap EXCEPT !.rev = wrk[w].at]
      /\ intent' = [intent EXCEPT ![c].status = "done"]
  BY DEF RepairRoom
<1>3. /\ c \in Commands /\ Holds(log, c) /\ intent[c].snap = wrk[w].snap
      /\ intent[c].status = "pending" /\ intent \in [Commands -> IntentRows]
      /\ wrk[w].snap \in RoomRows
      /\ c \in DrawCommands => Dealt(c)
  BY <1>2, ClaimIsTyped
     DEF IInv, TypeOK, RequestsDeadOrCurrent, FencedIsCurrent, Fenced, DecisionsFit,
         PublishedIsDealt
<1>4. room' = room \/ room'.applied = intent[c].snap.applied
  BY <1>2, <1>3 DEF RoomRows
<1>5. IntentsGoOn
  BY <1>2, <1>3, StatusEffect DEF IntentsKeep, IntentsGoOn
<1>6. HandlersGoOn /\ WorkersGoOn
  BY <1>2, WorkerGoesOn, NobodyMoves DEF IInv
<1>. HIDE DEF c
<1>. QED  BY <1>1, <1>2, <1>3, <1>4, <1>5, <1>6, PublishFits

-----------------------------------------------------------------------------
(* What is decided was decided for this log and this deck                  *)

\* Nothing decided, nothing dealt: every decision fits.
THEOREM FitsAtFirst == Init => DecisionsFit
PROOF
<1> SUFFICES ASSUME Init PROVE DecisionsFit
  OBVIOUS
<1>1. /\ room.applied = <<>> /\ Len(room.applied) = 0 /\ log = <<>> /\ Len(log) = 0
      /\ deck.dealt = <<>> /\ DOMAIN deck.dealt = {} /\ DOMAIN log = {}
      /\ deck.pending = None
      /\ \A h \in Handlers : hnd[h].pc = "idle"
      /\ \A w \in Workers : wrk[w].pc = "idle"
      /\ \A c \in Commands : intent[c].status = "none"
  BY DEF Init, EmptyRoom, IdleHandler, IdleWorker, NoIntent
<1>2. AcceptedAgainstCurrent /\ LogFits
  BY <1>1 DEF AcceptedAgainstCurrent, LogFits
<1>3. HandlersFit /\ IntentsFit
  BY <1>1 DEF HandlersFit, IntentsFit
<1>4. PublishedIsDealt /\ DealtIsLogged
  BY <1>1 DEF PublishedIsDealt, DealtIsLogged
<1>. QED  BY <1>2, <1>3, <1>4 DEF DecisionsFit

\* No step of a handler, a worker or a stray request decides what does not fit.
THEOREM FitsAfterwards == IInv /\ DecisionsFit /\ [Next]_vars => DecisionsFit'
PROOF
<1> SUFFICES ASSUME IInv, DecisionsFit, [Next]_vars PROVE DecisionsFit'
  OBVIOUS
<1>1. CASE UNCHANGED vars
  BY <1>1, NobodyMoves, NothingDecidedFits DEF vars, NothingDecided
<1>2. ASSUME NEW c \in Commands, RejectBeforeLock(c) \/ RejectCommand(c) \/ LeaseExpires(c)
      PROVE  DecisionsFit'
  BY <1>2, RejectionsFit
<1>3. ASSUME NEW h \in Handlers,
             \/ \E c \in Commands : BeginCommand(h, c)
             \/ HandlerStep(h) \/ ConnectionLost(h)
      PROVE  DecisionsFit'
  BY <1>3, BeginCommandFits, ReserveMaterialFits, RefuseReservedFits, BeginIntentFits,
     AppendToLogFits, ConfirmReservationFits, CommitAcceptedFits, HandlerEndsFits
     DEF HandlerStep
<1>4. ASSUME NEW w \in Workers, WorkerStep(w)
      PROVE  DecisionsFit'
  BY <1>4, ReappendFits, ConfirmForRepairFits, RepairRoomFits, WorkerStepFits DEF WorkerStep
<1>5. ASSUME NEW m \in late, LateAppend(m)
      PROVE  DecisionsFit'
  BY <1>5, LateAppendFits
<1>. QED  BY <1>1, <1>2, <1>3, <1>4, <1>5 DEF Next

\* Every decision was made on the newest snapshot and shows the deck's cards.
THEOREM DecisionsAlwaysFit == Spec => []DecisionsFit
PROOF
<1>. QED  BY Invariance, FitsAtFirst, FitsAfterwards, PTL DEF Spec

LEMMA CardsMatch ==
    ASSUME IInv, DecisionsFit
    PROVE  CardsMatchDeck
PROOF
<1>1. /\ log \in Seq(Entries) /\ Len(log) \in Nat /\ DOMAIN log = 1..Len(log)
      /\ room.applied \in Seq(Entries) /\ Len(room.applied) \in Nat
      /\ DOMAIN room.applied = 1..Len(room.applied)
      /\ Len(room.applied) <= Len(log)
      /\ \A i \in 1..Len(room.applied) : room.applied[i] = log[i]
      /\ deck.dealt \in Seq(Commands) /\ DOMAIN deck.dealt = 1..Len(deck.dealt)
      /\ Len(deck.dealt) \in Nat
  BY DEF IInv, TypeOK, RoomRows, DeckStates, SnapshotTrailsLog, IsPrefixOf
<1>2. ASSUME NEW i \in 1..Len(log), log[i].card # 0
      PROVE  /\ log[i].cmd \in DrawCommands
             /\ Dealt(log[i].cmd) => /\ log[i].card \in DOMAIN deck.dealt
                                     /\ deck.dealt[log[i].card] = log[i].cmd
             /\ ~Dealt(log[i].cmd) => log[i].card = Len(deck.dealt) + 1
  <2>1. CardFits(log[i].cmd, log[i].card)  BY DEF DecisionsFit, LogFits
  <2>2. log[i].cmd \in DrawCommands  BY <1>2, <2>1 DEF CardFits
  <2>3. \/ log[i].card \in DOMAIN deck.dealt /\ deck.dealt[log[i].card] = log[i].cmd
        \/ log[i].card = Len(deck.dealt) + 1 /\ ~Dealt(log[i].cmd)
    BY <2>1, <2>2 DEF CardFits
  <2>. QED  BY <2>2, <2>3 DEF Dealt
<1>3. ASSUME NEW i \in 1..Len(log), NEW j \in 1..Len(log),
             log[i].card = log[j].card, log[i].card # 0
      PROVE  i = j
  <2>1. CASE Dealt(log[i].cmd) /\ Dealt(log[j].cmd)
    <3>1. log[i].cmd = log[j].cmd  BY <1>2, <1>3, <2>1
    <3>2. AcceptedOnce  BY LoggedOnce DEF IInv
    <3>. QED  BY <1>1, <3>1, <3>2 DEF AcceptedOnce
  <2>2. CASE ~Dealt(log[i].cmd) /\ ~Dealt(log[j].cmd)
    <3>1. log[i].cmd \in DrawCommands /\ log[j].cmd \in DrawCommands  BY <1>2, <1>3
    <3>. QED  BY <2>2, <3>1, UndealtIsTail
  <2>3. CASE Dealt(log[i].cmd) /\ ~Dealt(log[j].cmd)
    <3>1. log[i].card \in DOMAIN deck.dealt  BY <1>2, <1>3, <2>3
    <3>2. log[j].card = Len(deck.dealt) + 1  BY <1>2, <1>3, <2>3
    <3>. QED  BY <1>1, <1>3, <3>1, <3>2
  <2>4. CASE ~Dealt(log[i].cmd) /\ Dealt(log[j].cmd)
    <3>1. log[j].card \in DOMAIN deck.dealt  BY <1>2, <1>3, <2>4
    <3>2. log[i].card = Len(deck.dealt) + 1  BY <1>2, <1>3, <2>4
    <3>. QED  BY <1>1, <1>3, <3>1, <3>2
  <2>. QED  BY <2>1, <2>2, <2>3, <2>4
<1>4. ASSUME NEW k \in DOMAIN deck.dealt
      PROVE  [cmd |-> deck.dealt[k], card |-> k] \in {log[i] : i \in DOMAIN log}
  <2>1. deck.dealt[k] \in DrawCommands /\ Holds(log, deck.dealt[k])
    BY DEF DecisionsFit, DealtIsLogged
  <2>2. PICK i \in 1..Len(log) : log[i].cmd = deck.dealt[k]
    BY <1>1, <2>1 DEF Holds, Positions
  <2>3. CardFits(log[i].cmd, log[i].card)  BY DEF DecisionsFit, LogFits
  <2>4. Dealt(log[i].cmd)  BY <2>2 DEF Dealt
  <2>5. log[i].card \in DOMAIN deck.dealt /\ deck.dealt[log[i].card] = deck.dealt[k]
    BY <2>1, <2>2, <2>3, <2>4 DEF CardFits
  <2>6. log[i].card = k
    BY <2>5 DEF DecisionsFit, DealtIsLogged
  <2>7. log[i] = [cmd |-> log[i].cmd, card |-> log[i].card]
    <3>1. log[i] \in Entries  BY <1>1
    <3>. QED  BY <3>1 DEF Entries
  <2>8. log[i] = [cmd |-> deck.dealt[k], card |-> k]  BY <2>2, <2>6, <2>7
  <2>. QED  BY <1>1, <2>8
<1>5. ASSUME NEW i \in DOMAIN room.applied, room.applied[i].card # 0
      PROVE  /\ room.applied[i].card \in DOMAIN deck.dealt
             /\ deck.dealt[room.applied[i].card] = room.applied[i].cmd
  <2>1. i \in 1..Len(log) /\ i \in 1..Len(room.applied) /\ room.applied[i] = log[i]
    BY <1>1
  <2>2. log[i].cmd \in DrawCommands  BY <1>2, <1>5, <2>1
  <2>3. Dealt(log[i].cmd)  BY <2>1, <2>2 DEF DecisionsFit, PublishedIsDealt
  <2>. QED  BY <1>2, <1>5, <2>1, <2>3
<1>. QED  BY <1>1, <1>3, <1>4, <1>5 DEF CardsMatchDeck

\* The snapshot trails the log by at most one entry, every token was current when
\* its command was decided, and the log's cards are the deck's, each dealt once.
THEOREM PathIsSound == Spec => []PathSound
PROOF
<1>1. IInv /\ DecisionsFit => SnapshotTrailsLog /\ AcceptedAgainstCurrent /\ CardsMatchDeck
  BY CardsMatch DEF IInv, DecisionsFit
<1>. QED  BY <1>1, Invariance, DecisionsAlwaysFit, OpenUnprocessed, PTL DEF PathSound

-----------------------------------------------------------------------------
(* The refinement of RoomLedger                                            *)

\* A step that touches neither the log nor the published entries stutters.
LEMMA LedgerStutters ==
    ASSUME log' = log, room'.applied = room.applied
    PROVE  [Ledger!Next]_(Ledger!ledgerVars)
  BY DEF Ledger!ledgerVars

LEMMA LedgerDecides ==
    ASSUME IInv, NEW e \in Entries, NEW x \in Nat, DeadOrCurrent(e, x),
           log' = Appended(e, x), room'.applied = room.applied
    PROVE  [Ledger!Next]_(Ledger!ledgerVars)
PROOF
<1>1. CASE log' = log
  BY <1>1, LedgerStutters
<1>2. CASE log' # log
  <2>1. ~Holds(log, e.cmd) /\ x = Len(log) /\ log' = Append(log, e)
    BY <1>2, AppendAnswer
  <2>2. Len(room.applied) = Len(log)
    BY <2>1, AcceptedIsCurrent DEF IInv
  <2>3. room.applied = log
    <3>1. room.applied \in Seq(Entries) /\ log \in Seq(Entries)
          /\ \A i \in 1..Len(room.applied) : room.applied[i] = log[i]
      BY DEF IInv, TypeOK, RoomRows, SnapshotTrailsLog, IsPrefixOf
    <3>. QED  BY <2>2, <3>1, SameEntries
  <2>4. \A i \in DOMAIN log : log[i].cmd # e.cmd
    BY <2>1 DEF Holds, Positions
  <2>5. Ledger!Decide(e)
    BY <2>1, <2>3, <2>4 DEF Ledger!Decide, Ledger!CommandOf
  <2>. QED  BY <2>5 DEF Ledger!Next
<1>. QED  BY <1>1, <1>2

LEMMA LedgerPublishes ==
    ASSUME TypeOK, TypeOK', log' = log, Len(log) = Len(room.applied) + 1,
           Len(room'.applied) = Len(log), \A i \in 1..Len(log) : room'.applied[i] = log[i]
    PROVE  [Ledger!Next]_(Ledger!ledgerVars)
PROOF
<1>1. room.applied # log
  BY DEF TypeOK, RoomRows
<1>2. room'.applied = log
  <2>1. room'.applied \in Seq(Entries) /\ log \in Seq(Entries)
    BY DEF TypeOK, RoomRows
  <2>. QED  BY <2>1, SameEntries
<1>. QED  BY <1>1, <1>2 DEF Ledger!Next, Ledger!Publish

\* The durable path, with all its races and repairs, decides one command at a
\* time and publishes each before the next.
THEOREM ImplementsLedger == Spec => RefinesLedger
PROOF
<1>1. Init => Ledger!Init
  BY DEF Init, Ledger!Init, EmptyRoom
<1>2. IInv /\ IInv' /\ [Next]_vars => [Ledger!Next]_(Ledger!ledgerVars)
  <2> SUFFICES ASSUME IInv, IInv', [Next]_vars
               PROVE  [Ledger!Next]_(Ledger!ledgerVars)
    OBVIOUS
  <2>1. CASE UNCHANGED vars
    BY <2>1, LedgerStutters DEF vars
  <2>2. ASSUME NEW c \in Commands, RejectBeforeLock(c) \/ RejectCommand(c) \/ LeaseExpires(c)
        PROVE  [Ledger!Next]_(Ledger!ledgerVars)
    <3>1. CASE RejectBeforeLock(c) \/ LeaseExpires(c)
      BY <3>1, LedgerStutters DEF RejectBeforeLock, LeaseExpires
    <3>2. CASE RejectCommand(c)
      <4>1. log' = log /\ (room' = [room EXCEPT !.rejected = @ \cup {c}] \/ room' = room)
        BY <3>2 DEF RejectCommand
      <4>2. room'.applied = room.applied
        BY <4>1, RecordsRejection DEF IInv, TypeOK, SameSnapshot
      <4>. QED  BY <4>1, <4>2, LedgerStutters
    <3>. QED  BY <2>2, <3>1, <3>2
  <2>3. ASSUME NEW h \in Handlers,
               \/ \E c \in Commands : BeginCommand(h, c)
               \/ HandlerStep(h) \/ ConnectionLost(h)
        PROVE  [Ledger!Next]_(Ledger!ledgerVars)
    <3>1. CASE AppendToLog(h)
      <4> DEFINE st == hnd[h].stage
                 e == StagedEntry(st)
      <4>1. /\ hnd[h].pc = "intent" /\ log' = Appended(e, st.rev) /\ room' = room
        BY <3>1 DEF AppendToLog
      <4>2. /\ st.rev \in Nat /\ st.applied \in Seq(Entries) /\ StagesOne(st, st.rev, hnd[h].cmd)
            /\ intent[hnd[h].cmd].status \in {"pending", "done"}
            /\ intent[hnd[h].cmd].exp = st.rev /\ intent[hnd[h].cmd].snap = st
        BY <4>1 DEF IInv, TypeOK, HandlerStates, RoomRows, HandlersExtendRoom, Staged,
                    IntentsOfHandlers, HasIntent
      <4>3. e \in Entries /\ DeadOrCurrent(e, st.rev)
        BY <4>2 DEF StagedEntry, StagesOne, DeadOrCurrent
      <4>. HIDE DEF e, st
      <4>4. st.rev \in Nat  BY <4>2 DEF st
      <4>. QED  BY <4>1, <4>3, <4>4, LedgerDecides
    <3>2. CASE CommitAccepted(h)
      BY <3>2, CommitAcceptedStep, LedgerPublishes DEF IInv
    <3>3. CASE RejectRefused(h)
      <4>1. log' = log /\ (room' = [room EXCEPT !.rejected = @ \cup {hnd[h].cmd}] \/ room' = room)
            /\ hnd[h].pc = "refused"
        BY <3>3 DEF RejectRefused
      <4>2. hnd[h].cmd \in Commands  BY <4>1 DEF IInv, HandlersExtendRoom
      <4>3. room'.applied = room.applied
        BY <4>1, <4>2, RecordsRejection DEF IInv, TypeOK, SameSnapshot
      <4>. QED  BY <4>1, <4>3, LedgerStutters
    <3>4. CASE \/ \E c \in Commands : BeginCommand(h, c)
               \/ ReserveMaterial(h) \/ RefuseReserved(h) \/ BeginIntent(h)
               \/ AppendRefused(h) \/ CancelIntent(h) \/ AppendTimesOut(h)
               \/ ConfirmReservation(h) \/ FinalizeIntent(h) \/ AbandonCommand(h)
               \/ ConnectionLost(h)
      <4>1. log' = log /\ room' = room
        BY <3>4 DEF BeginCommand, ReserveMaterial, RefuseReserved, BeginIntent, AppendRefused,
                    CancelIntent, AppendTimesOut, ConfirmReservation, FinalizeIntent,
                    AbandonCommand, ConnectionLost
      <4>. QED  BY <4>1, LedgerStutters
    <3>. QED  BY <2>3, <3>1, <3>2, <3>3, <3>4 DEF HandlerStep
  <2>4. ASSUME NEW w \in Workers, WorkerStep(w)
        PROVE  [Ledger!Next]_(Ledger!ledgerVars)
    <3>1. CASE Reappend(w)
      <4>1. wrk[w].pc # "idle" /\ room' = room
            /\ log' = Appended(StagedEntry(wrk[w].snap), wrk[w].exp)
        BY <3>1 DEF Reappend
      <4>. QED  BY <4>1, ClaimIsTyped, LedgerDecides
    <3>2. CASE RepairRoom(w)
      BY <3>2, RepairRoomStep, LedgerStutters, LedgerPublishes DEF IInv
    <3>3. CASE \/ \E c \in Commands : ClaimMarker(w, c)
               \/ ReplayFindsEvent(w) \/ ReplayFindsNothing(w) \/ ReappendTimesOut(w)
               \/ FinalizeReappend(w) \/ ConfirmForRepair(w)
               \/ ReleaseClaim(w) \/ WorkerCrashes(w)
      <4>1. log' = log /\ room' = room
        BY <3>3 DEF ClaimMarker, ReplayFindsEvent, ReplayFindsNothing, ReappendTimesOut,
                    FinalizeReappend, ConfirmForRepair, ReleaseClaim,
                    WorkerCrashes
      <4>. QED  BY <4>1, LedgerStutters
    <3>. QED  BY <2>4, <3>1, <3>2, <3>3 DEF WorkerStep
  <2>5. ASSUME NEW m \in late, LateAppend(m)
        PROVE  [Ledger!Next]_(Ledger!ledgerVars)
    <3>1. /\ m.entry \in Entries /\ m.exp \in Nat /\ DeadOrCurrent(m.entry, m.exp)
      BY DEF IInv, TypeOK, Requests, RequestsDeadOrCurrent
    <3>. QED  BY <2>5, <3>1, LedgerDecides DEF LateAppend
  <2>. QED  BY <2>1, <2>2, <2>3, <2>4, <2>5 DEF Next
<1>. QED
  BY <1>1, <1>2, Invariance, PTL DEF Spec, RefinesLedger, Ledger!Spec
=============================================================================
