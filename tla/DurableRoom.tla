------------------------------ MODULE DurableRoom ------------------------------
(***************************************************************************)
(* The durable command path of one Room: command handlers that hold the    *)
(* Room row lock across the Game Integrity append, the reconciliation      *)
(* intents that survive them, and the workers that repair the Room from    *)
(* the integrity log after a handler died in between.                      *)
(*                                                                         *)
(*   app/service_durable.go    the handler, from the row lock to the commit*)
(*   store/postgres_session.go the unit of work and its transaction        *)
(*   store/reconcile.go        intents, leases and the repair              *)
(*   game-integrity            the append-only log and the deck            *)
(*                             reservations, one request per step          *)
(*                                                                         *)
(* A session snapshot is abstracted to the accepted commands it reflects.  *)
(* A command is a model value; its class says which path it takes.         *)
(***************************************************************************)
EXTENDS Naturals, Sequences, FiniteSets

CONSTANTS
    Commands,        \* command ids: a retry carries the same id and envelope
    CreateCommands,  \* CreateRoom: no row to lock yet
    DrawCommands,    \* commands that reserve cards of the current deck first
    NoopCommands,    \* accepted without facts: the sequence does not advance
    SystemCommands,  \* StartNextGame of the continuation worker
    Illegal,         \* commands that break a rule where their token is current
    Timed,           \* commands the clock decides too (an expired window)
    Replayed,        \* commands a copy of which may come with a dead session
    MaxLate,         \* bound: append requests in flight without a sender
    Token,           \* expectedSequenceNumber in each command's envelope
    DeckSize,        \* cards the deck holds
    Handlers,        \* command handlers (pod replicas, concurrent requests)
    Workers,         \* reconciliation workers, one lease owner each
    None

ASSUME DurableRoomAssumption ==
    /\ CreateCommands \subseteq Commands
    /\ DrawCommands \subseteq Commands \ CreateCommands
    /\ NoopCommands \subseteq Commands \ (CreateCommands \cup DrawCommands)
    /\ SystemCommands \subseteq Commands \ CreateCommands
    /\ Illegal \cup Timed \cup Replayed \subseteq Commands
    /\ MaxLate \in Nat
    /\ Token \in [Commands -> Nat]
    /\ DeckSize \in Nat
    /\ None \notin Commands \cup Handlers \cup Workers

VARIABLES
    room,       \* the rooms row with its snapshot
    idem,       \* command_idempotency: first outcome recorded per command
    intent,     \* pending_integrity_reconciliations
    owner,      \* live lease owner of an intent (an expired lease is None)
    processed,  \* processed_reconciliation_offsets, as revisions
    log,        \* Game Integrity: the Room's append-only log
    deck,       \* Game Integrity: the authoritative deck of the current game
    late,       \* append requests their sender no longer waits for
    lock,       \* holder of rooms FOR UPDATE
    hnd,        \* command handlers
    wrk         \* reconciliation workers

vars == <<room, idem, intent, owner, processed, log, deck, late, lock, hnd, wrk>>

Entries == [cmd : Commands, card : 0..DeckSize]   \* card 0: no material
RoomRows == [applied : Seq(Entries), rejected : SUBSET Commands, rev : Nat]
EmptyRoom == [applied |-> <<>>, rejected |-> {}, rev |-> 0]

Positions(entries, c) == {i \in DOMAIN entries : entries[i].cmd = c}
Holds(entries, c) == Positions(entries, c) # {}

-----------------------------------------------------------------------------
(* The Room aggregate, as far as the protocol can tell                     *)

Exists(r) == r.applied # <<>>

\* PriorOutcome: the outcome map is part of the snapshot.
Known(r, c) == c \in r.rejected \/ Holds(r.applied, c)

SequenceOf(entries) ==
    Cardinality({i \in DOMAIN entries : entries[i].cmd \notin NoopCommands})

\* A worker-owned StartNextGame takes its token from the locked snapshot.
SequenceMatches(r, c) == c \in SystemCommands \/ Token[c] = SequenceOf(r.applied)

Acceptable(r, c) ==
    IF c \in CreateCommands THEN ~Exists(r) ELSE Exists(r) /\ SequenceMatches(r, c)

Stage(r, c, card) ==
    [r EXCEPT !.applied = Append(@, [cmd |-> c, card |-> card])]

FirstOutcome(c, outcome) ==
    [idem EXCEPT ![c] = IF @ = "none" THEN outcome ELSE @]

-----------------------------------------------------------------------------
(* Game Integrity: GameLog.Append and the deck reservations                *)

\* Mutant: the event id is deduplicated, the expected revision is not checked.
AppendAtAnyRevision(e, expected) ==
    IF Holds(log, e.cmd)
    THEN [kind |-> "duplicate", at |-> CHOOSE i \in Positions(log, e.cmd) : TRUE]
    ELSE [kind |-> "accepted", at |-> Len(log) + 1]

\* Mutant: every request appends.
AppendBlindly(e, expected) == [kind |-> "accepted", at |-> Len(log) + 1]

\* The answer to an append request: the revision it got, or a refusal.
AppendOutcome(e, expected) ==
    IF Holds(log, e.cmd)
    THEN LET i == CHOOSE i \in Positions(log, e.cmd) : TRUE
         IN  IF log[i] = e THEN [kind |-> "duplicate", at |-> i]
                           ELSE [kind |-> "conflict", at |-> 0]
    ELSE IF expected = Len(log)
         THEN [kind |-> "accepted", at |-> Len(log) + 1]
         ELSE [kind |-> "revision_mismatch", at |-> 0]

Appended(e, expected) ==
    IF AppendOutcome(e, expected).kind = "accepted" THEN Append(log, e) ELSE log

Dealt(c) == \E i \in DOMAIN deck.dealt : deck.dealt[i] = c

\* The deck position a reservation of c peeks at (a repeated one replays it).
MaterialOf(c) ==
    IF Dealt(c) THEN CHOOSE i \in DOMAIN deck.dealt : deck.dealt[i] = c
                ELSE Len(deck.dealt) + 1

CanReserve(c) ==
    /\ c \notin deck.voided
    /\ \/ Dealt(c)
       \/ deck.pending = c
       \/ deck.pending = None /\ Len(deck.dealt) < DeckSize

Reserved(c) == IF Dealt(c) THEN deck ELSE [deck EXCEPT !.pending = c]

CanConfirm(c) == Dealt(c) \/ deck.pending = c

Confirmed(c) ==
    IF Dealt(c) THEN deck
    ELSE [deck EXCEPT !.pending = None, !.dealt = Append(@, c)]

Voided(c) ==
    IF deck.pending = c
    THEN [deck EXCEPT !.pending = None, !.voided = @ \cup {c}]
    ELSE deck

-----------------------------------------------------------------------------
IdleHandler == [pc |-> "idle", cmd |-> None, stage |-> EmptyRoom, at |-> 0]
IdleWorker == [pc |-> "idle", cmd |-> None, exp |-> 0, snap |-> EmptyRoom, at |-> 0]
NoIntent == [status |-> "none", exp |-> 0, snap |-> EmptyRoom, at |-> 0]

HandlerPcs == {"idle", "reserve", "staged", "refused", "intent", "failed",
               "appended", "confirmed", "finalized"}
WorkerPcs == {"idle", "claimed", "reappend", "appended", "located", "ready"}

Outcomes == {"none", "accepted", "rejected", "global"}
IntentRows == [status : {"none", "pending", "cancelled", "done"},
               exp : Nat, snap : RoomRows, at : Nat]
DeckStates == [pending : Commands \cup {None}, dealt : Seq(Commands),
               voided : SUBSET Commands]
Requests == [entry : Entries, exp : Nat]
HandlerStates == [pc : HandlerPcs, cmd : Commands \cup {None}, stage : RoomRows, at : Nat]
WorkerStates == [pc : WorkerPcs, cmd : Commands \cup {None},
                 exp : Nat, snap : RoomRows, at : Nat]

Init ==
    /\ room = EmptyRoom
    /\ idem = [c \in Commands |-> "none"]
    /\ intent = [c \in Commands |-> NoIntent]
    /\ owner = [c \in Commands |-> None]
    /\ processed = {}
    /\ log = <<>>
    /\ deck = [pending |-> None, dealt |-> <<>>, voided |-> {}]
    /\ late = {}
    /\ lock = None
    /\ hnd = [h \in Handlers |-> IdleHandler]
    /\ wrk = [w \in Workers |-> IdleWorker]

Unlock(h) == lock' = IF lock = h THEN None ELSE lock
Go(h, pc) == hnd' = [hnd EXCEPT ![h].pc = pc]
ToIdle(h) == hnd' = [hnd EXCEPT ![h] = IdleHandler]

-----------------------------------------------------------------------------
(* Command handlers                                                        *)

\* Identity refuses the session: recorded globally before any lock is taken.
RejectBeforeLock(c) ==
    /\ c \in Replayed \ SystemCommands
    /\ idem[c] = "none"
    /\ idem' = FirstOutcome(c, "global")
    /\ UNCHANGED <<room, intent, owner, processed, log, deck, late, lock, hnd, wrk>>

\* Rejected under the lock before anything was reserved: stale or future
\* token, a broken rule, a missed deadline, or no such Room.  The outcome is
\* stored with the Room snapshot, or globally while there is no Room.
RejectCommand(c) ==
    /\ lock = None
    /\ c \notin SystemCommands
    /\ idem[c] # "global"
    /\ ~Known(room, c)
    /\ ~Acceptable(room, c) \/ c \in Illegal \cup (Timed \ DrawCommands)
    /\ IF Exists(room)
       THEN /\ room' = [room EXCEPT !.rejected = @ \cup {c}]
            /\ idem' = FirstOutcome(c, "rejected")
       ELSE /\ idem' = FirstOutcome(c, "global")
            /\ UNCHANGED room
    /\ UNCHANGED <<intent, owner, processed, log, deck, late, lock, hnd, wrk>>

\* The row is locked, the command is new and passes prevalidation.
BeginCommand(h, c) ==
    /\ hnd[h].pc = "idle"
    /\ lock = None
    /\ idem[c] # "global"
    /\ ~Known(room, c)
    /\ Acceptable(room, c)
    /\ c \in DrawCommands \/ c \notin Illegal
    /\ lock' = IF c \in CreateCommands THEN None ELSE h
    /\ hnd' = [hnd EXCEPT ![h] =
                 [pc |-> IF c \in DrawCommands THEN "reserve" ELSE "staged",
                  cmd |-> c,
                  stage |-> IF c \in DrawCommands THEN room ELSE Stage(room, c, 0),
                  at |-> 0]]
    /\ UNCHANGED <<room, idem, intent, owner, processed, log, deck, late, wrk>>

\* ReserveDeal / ReserveDraw, then the domain accepts the drawn material.
ReserveMaterial(h) ==
    LET c == hnd[h].cmd IN
    /\ hnd[h].pc = "reserve"
    /\ CanReserve(c)
    /\ deck' = Reserved(c)
    /\ hnd' = [hnd EXCEPT ![h].pc = "staged",
                          ![h].stage = Stage(@, c, MaterialOf(c))]
    /\ UNCHANGED <<room, idem, intent, owner, processed, log, late, lock, wrk>>

\* The domain rejects only after the reservation (out of turn, a challenge past
\* its window): cancel the reservation, ignoring a failure to do so.
RefuseReserved(h) ==
    /\ hnd[h].pc = "staged"
    /\ hnd[h].cmd \in DrawCommands \cap (Illegal \cup Timed)
    /\ deck' \in {deck, Voided(hnd[h].cmd)}
    /\ Go(h, "refused")
    /\ UNCHANGED <<room, idem, intent, owner, processed, log, late, lock, wrk>>

RejectRefused(h) ==
    LET c == hnd[h].cmd IN
    /\ hnd[h].pc = "refused"
    /\ lock = h
    /\ IF c \in SystemCommands
       THEN UNCHANGED <<room, idem>>
       ELSE /\ room' = [room EXCEPT !.rejected = @ \cup {c}]
            /\ idem' = FirstOutcome(c, "rejected")
    /\ Unlock(h)
    /\ ToIdle(h)
    /\ UNCHANGED <<intent, owner, processed, log, deck, late, wrk>>

\* BeginReconciliationIntent: a pending or done intent refuses a second append.
BeginIntent(h) ==
    LET c == hnd[h].cmd IN
    /\ hnd[h].pc = "staged"
    /\ c \notin Illegal
    /\ intent[c].status \in {"none", "cancelled"}
    /\ intent' = [intent EXCEPT ![c] = [status |-> "pending",
                                        exp |-> hnd[h].stage.rev,
                                        snap |-> hnd[h].stage, at |-> 0]]
    /\ owner' = [owner EXCEPT ![c] = None]
    /\ Go(h, "intent")
    /\ UNCHANGED <<room, idem, processed, log, deck, late, lock, wrk>>

StagedEntry(stage) == stage.applied[Len(stage.applied)]

\* Integrity.Append answers accepted or duplicate.
AppendToLog(h) ==
    LET e == StagedEntry(hnd[h].stage)
        out == AppendOutcome(e, hnd[h].stage.rev) IN
    /\ hnd[h].pc = "intent"
    /\ out.kind \in {"accepted", "duplicate"}
    /\ log' = Appended(e, hnd[h].stage.rev)
    /\ hnd' = [hnd EXCEPT ![h].pc = "appended", ![h].at = out.at]
    /\ UNCHANGED <<room, idem, intent, owner, processed, deck, late, lock, wrk>>

\* A 4xx answer is a definitive no-write: roll back, then cancel the intent.
AppendRefused(h) ==
    /\ hnd[h].pc = "intent"
    /\ AppendOutcome(StagedEntry(hnd[h].stage), hnd[h].stage.rev).kind
            \in {"revision_mismatch", "conflict"}
    /\ Unlock(h)
    /\ Go(h, "failed")
    /\ UNCHANGED <<room, idem, intent, owner, processed, log, deck, late, wrk>>

CancelIntent(h) ==
    LET c == hnd[h].cmd IN
    /\ hnd[h].pc = "failed"
    /\ intent' = [intent EXCEPT ![c].status = IF @ = "pending" THEN "cancelled" ELSE @]
    /\ ToIdle(h)
    /\ UNCHANGED <<room, idem, owner, processed, log, deck, late, lock, wrk>>

\* An uncertain append: the handler rolls back, its request still travels.
AppendTimesOut(h) ==
    /\ hnd[h].pc = "intent"
    /\ Cardinality(late) < MaxLate
    /\ late' = late \cup {[entry |-> StagedEntry(hnd[h].stage), exp |-> hnd[h].stage.rev]}
    /\ Unlock(h)
    /\ ToIdle(h)
    /\ UNCHANGED <<room, idem, intent, owner, processed, log, deck, wrk>>

ConfirmReservation(h) ==
    LET c == hnd[h].cmd IN
    /\ hnd[h].pc = "appended"
    /\ c \in DrawCommands
    /\ CanConfirm(c)
    /\ deck' = Confirmed(c)
    /\ Go(h, "confirmed")
    /\ UNCHANGED <<room, idem, intent, owner, processed, log, late, lock, wrk>>

\* Mutant: the local commit does not wait for the reservation's confirmation.
FinalizeUnconfirmed(h) ==
    /\ hnd[h].pc \in {"appended", "confirmed"}
    /\ intent[hnd[h].cmd].status = "pending"
    /\ intent' = [intent EXCEPT ![hnd[h].cmd].at = hnd[h].at]
    /\ Go(h, "finalized")
    /\ UNCHANGED <<room, idem, owner, processed, log, deck, late, lock, wrk>>

\* FinalizeReconciliationIntent fails unless the intent is still pending.
FinalizeIntent(h) ==
    LET c == hnd[h].cmd IN
    /\ hnd[h].pc = IF c \in DrawCommands THEN "confirmed" ELSE "appended"
    /\ intent[c].status = "pending"
    /\ intent' = [intent EXCEPT ![c].at = hnd[h].at]
    /\ Go(h, "finalized")
    /\ UNCHANGED <<room, idem, owner, processed, log, deck, late, lock, wrk>>

\* Mutant: the commit leaves the integrity revision of the rooms row alone.
CommitKeepsRevision(h) ==
    /\ hnd[h].pc = "finalized"
    /\ IF hnd[h].cmd \in CreateCommands THEN ~Exists(room) ELSE lock = h
    /\ room' = hnd[h].stage
    /\ idem' = FirstOutcome(hnd[h].cmd, "accepted")
    /\ intent' = [intent EXCEPT ![hnd[h].cmd].status = "done"]
    /\ processed' = processed \cup {hnd[h].at}
    /\ Unlock(h)
    /\ ToIdle(h)
    /\ UNCHANGED <<owner, log, deck, late, wrk>>

\* CommitAccepted: snapshot, outcome, intent and offset in one transaction.
\* The create path has no row lock: its INSERT fails if the row exists.
CommitAccepted(h) ==
    LET c == hnd[h].cmd IN
    /\ hnd[h].pc = "finalized"
    /\ IF c \in CreateCommands THEN ~Exists(room) ELSE lock = h
    /\ room' = [hnd[h].stage EXCEPT !.rev = hnd[h].at]
    /\ idem' = FirstOutcome(c, "accepted")
    /\ intent' = [intent EXCEPT ![c].status = IF @ = "pending" THEN "done" ELSE @]
    /\ processed' = processed \cup {hnd[h].at}
    /\ Unlock(h)
    /\ ToIdle(h)
    /\ UNCHANGED <<owner, log, deck, late, wrk>>

\* Mutant: a failing handler tidies its intent away.
AbandonCancelsIntent(h) ==
    /\ hnd[h].pc # "idle"
    /\ intent' = [intent EXCEPT ![hnd[h].cmd].status = IF @ = "pending" THEN "cancelled" ELSE @]
    /\ Unlock(h)
    /\ ToIdle(h)
    /\ UNCHANGED <<room, idem, owner, processed, log, deck, late, wrk>>

\* A crash, a deadline, or an error of any step: the transaction rolls back
\* and what was already sent elsewhere stays.
AbandonCommand(h) ==
    /\ hnd[h].pc # "idle"
    /\ Unlock(h)
    /\ ToIdle(h)
    /\ UNCHANGED <<room, idem, intent, owner, processed, log, deck, late, wrk>>

\* Postgres ends the session and frees the row; the handler does not know yet.
ConnectionLost(h) ==
    /\ lock = h
    /\ lock' = None
    /\ UNCHANGED <<room, idem, intent, owner, processed, log, deck, late, hnd, wrk>>

-----------------------------------------------------------------------------
(* Reconciliation workers                                                  *)

GoWorker(w, pc) == wrk' = [wrk EXCEPT ![w].pc = pc]
WorkerToIdle(w) == wrk' = [wrk EXCEPT ![w] = IdleWorker]

\* Every durable write of a repair is fenced by the worker's live lease.
Fenced(w) ==
    /\ intent[wrk[w].cmd].status = "pending"
    /\ owner[wrk[w].cmd] = w

\* ClaimPendingReconciliationMarkers: due and not leased; the marker is copied.
ClaimMarker(w, c) ==
    /\ wrk[w].pc = "idle"
    /\ intent[c].status = "pending"
    /\ owner[c] = None
    /\ owner' = [owner EXCEPT ![c] = w]
    /\ wrk' = [wrk EXCEPT ![w] =
                 [pc |-> IF intent[c].at = 0 THEN "claimed" ELSE "located",
                  cmd |-> c, exp |-> intent[c].exp,
                  snap |-> intent[c].snap, at |-> intent[c].at]]
    /\ UNCHANGED <<room, idem, intent, processed, log, deck, late, lock, hnd>>

\* The lease runs out before a renewal.
LeaseExpires(c) ==
    /\ owner[c] # None
    /\ owner' = [owner EXCEPT ![c] = None]
    /\ UNCHANGED <<room, idem, intent, processed, log, deck, late, lock, hnd, wrk>>

\* Mutant: the replay starts one entry too late.
ReplayStartsLate(w) ==
    /\ wrk[w].pc = "claimed"
    /\ Fenced(w)
    /\ \E i \in Positions(log, wrk[w].cmd) :
          /\ i > wrk[w].exp + 1
          /\ intent' = [intent EXCEPT ![wrk[w].cmd].at = i]
          /\ wrk' = [wrk EXCEPT ![w].pc = "located", ![w].at = i]
    /\ UNCHANGED <<room, idem, owner, processed, log, deck, late, lock, hnd>>

\* The replay from the expected revision contains the command's own event.
ReplayFindsEvent(w) ==
    LET c == wrk[w].cmd IN
    /\ wrk[w].pc = "claimed"
    /\ Fenced(w)
    /\ \E i \in Positions(log, c) :
          /\ i > wrk[w].exp
          /\ log[i] = StagedEntry(wrk[w].snap)
          /\ intent' = [intent EXCEPT ![c].at = i]
          /\ wrk' = [wrk EXCEPT ![w].pc = "located", ![w].at = i]
    /\ UNCHANGED <<room, idem, owner, processed, log, deck, late, lock, hnd>>

\* The replay proves Game Integrity has not advanced: append the same event.
\* (An advanced log without the event stays pending, by Release.)
ReplayFindsNothing(w) ==
    /\ wrk[w].pc = "claimed"
    /\ ~Holds(log, wrk[w].cmd)
    /\ Len(log) = wrk[w].exp
    /\ GoWorker(w, "reappend")
    /\ UNCHANGED <<room, idem, intent, owner, processed, log, deck, late, lock, hnd>>

Reappend(w) ==
    LET e == StagedEntry(wrk[w].snap)
        out == AppendOutcome(e, wrk[w].exp) IN
    /\ wrk[w].pc = "reappend"
    /\ out.kind \in {"accepted", "duplicate"}
    /\ log' = Appended(e, wrk[w].exp)
    /\ wrk' = [wrk EXCEPT ![w].pc = "appended", ![w].at = out.at]
    /\ UNCHANGED <<room, idem, intent, owner, processed, deck, late, lock, hnd>>

ReappendTimesOut(w) ==
    /\ wrk[w].pc = "reappend"
    /\ Cardinality(late) < MaxLate
    /\ late' = late \cup {[entry |-> StagedEntry(wrk[w].snap), exp |-> wrk[w].exp]}
    /\ WorkerToIdle(w)
    /\ UNCHANGED <<room, idem, intent, owner, processed, log, deck, lock, hnd>>

FinalizeReappend(w) ==
    /\ wrk[w].pc = "appended"
    /\ Fenced(w)
    /\ intent' = [intent EXCEPT ![wrk[w].cmd].at = wrk[w].at]
    /\ GoWorker(w, "located")
    /\ UNCHANGED <<room, idem, owner, processed, log, deck, late, lock, hnd>>

\* A marker whose revision is already processed is closed without a repair.
\* OpenIsUnprocessed: that branch finds no live lease, so nothing is closed.

\* The reservation is confirmed before the local repair, under a live lease.
ConfirmForRepair(w) ==
    LET c == wrk[w].cmd IN
    /\ wrk[w].pc = "located"
    /\ wrk[w].at \notin processed
    /\ c \in DrawCommands
    /\ Fenced(w)
    /\ CanConfirm(c)
    /\ deck' = Confirmed(c)
    /\ GoWorker(w, "ready")
    /\ UNCHANGED <<room, idem, intent, owner, processed, log, late, lock, hnd>>

\* One transaction under the row lock: nothing to do if the Room is already
\* there, otherwise the snapshot of the intent replaces the Room's.
RepairRoom(w) ==
    LET c == wrk[w].cmd IN
    /\ wrk[w].pc = IF c \in DrawCommands THEN "ready" ELSE "located"
    /\ c \in DrawCommands \/ wrk[w].at \notin processed
    /\ lock = None
    /\ Fenced(w)
    /\ IF Exists(room) /\ room.rev >= wrk[w].at
       THEN UNCHANGED <<room, idem>>
       ELSE /\ room' = [wrk[w].snap EXCEPT !.rev = wrk[w].at]
            /\ idem' = FirstOutcome(c, "accepted")
    /\ processed' = processed \cup {wrk[w].at}
    /\ intent' = [intent EXCEPT ![c].status = "done"]
    /\ WorkerToIdle(w)
    /\ UNCHANGED <<owner, log, deck, late, lock, hnd>>

\* A failed attempt, whatever failed, returns its claim after a backoff.
ReleaseClaim(w) ==
    LET c == wrk[w].cmd IN
    /\ wrk[w].pc # "idle"
    /\ owner' = [owner EXCEPT ![c] = IF @ = w /\ intent[c].status = "pending" THEN None ELSE @]
    /\ WorkerToIdle(w)
    /\ UNCHANGED <<room, idem, intent, processed, log, deck, late, lock, hnd>>

\* A worker dies with its claim; only the lease's expiry frees the marker.
WorkerCrashes(w) ==
    /\ wrk[w].pc # "idle"
    /\ WorkerToIdle(w)
    /\ UNCHANGED <<room, idem, intent, owner, processed, log, deck, late, lock, hnd>>

-----------------------------------------------------------------------------
\* An append request nobody waits for reaches Game Integrity after all.
LateAppend(m) ==
    /\ log' = Appended(m.entry, m.exp)
    /\ late' = late \ {m}
    /\ UNCHANGED <<room, idem, intent, owner, processed, deck, lock, hnd, wrk>>

HandlerStep(h) ==
    \/ ReserveMaterial(h) \/ RefuseReserved(h) \/ RejectRefused(h)
    \/ BeginIntent(h) \/ AppendToLog(h) \/ AppendRefused(h) \/ CancelIntent(h)
    \/ AppendTimesOut(h) \/ ConfirmReservation(h) \/ FinalizeIntent(h)
    \/ CommitAccepted(h) \/ AbandonCommand(h)

WorkerStep(w) ==
    \/ \E c \in Commands : ClaimMarker(w, c)
    \/ ReplayFindsEvent(w) \/ ReplayFindsNothing(w) \/ Reappend(w)
    \/ ReappendTimesOut(w) \/ FinalizeReappend(w) \/ ConfirmForRepair(w)
    \/ RepairRoom(w) \/ ReleaseClaim(w) \/ WorkerCrashes(w)

Next ==
    \/ \E c \in Commands : RejectBeforeLock(c) \/ RejectCommand(c) \/ LeaseExpires(c)
    \/ \E h \in Handlers : \/ \E c \in Commands : BeginCommand(h, c)
                           \/ HandlerStep(h)
                           \/ ConnectionLost(h)
    \/ \E w \in Workers : WorkerStep(w)
    \/ \E m \in late : LateAppend(m)

Spec == Init /\ [][Next]_vars

-----------------------------------------------------------------------------
(* Fairness.  A handler ends by its transaction deadline.  Workers poll for  *)
(* ever: a due marker is claimed in turn, a claimed one is carried forward,  *)
(* and the row lock the repair waits for is granted when it is often free.   *)
(* Nothing is promised while workers die, lose their lease or time out: that *)
(* has to stop eventually.                                                   *)

\* No answer of Game Integrity or Postgres lets this claim go on.
Hopeless(w) ==
    LET c == wrk[w].cmd IN
    \/ wrk[w].pc = "claimed" /\ ~Holds(log, c) /\ Len(log) # wrk[w].exp
    \/ wrk[w].pc = "located" /\ c \in DrawCommands /\ ~CanConfirm(c)
    \/ wrk[w].pc = "reappend" /\ AppendOutcome(StagedEntry(wrk[w].snap), wrk[w].exp).kind
                                     \in {"revision_mismatch", "conflict"}
    \/ wrk[w].pc # "idle" /\ ~Fenced(w)

GiveUp(w) == Hopeless(w) /\ ReleaseClaim(w)

\* The lease of a claim whose worker is gone runs out for certain.
AbandonedClaimExpires(c) == (\A w \in Workers : wrk[w].cmd # c) /\ LeaseExpires(c)

Fault ==
    \/ \E c \in Commands : LeaseExpires(c) /\ ~AbandonedClaimExpires(c)
    \/ \E w \in Workers : \/ WorkerCrashes(w)
                          \/ ReappendTimesOut(w)
                          \/ ReleaseClaim(w) /\ ~Hopeless(w)

Fairness ==
    /\ \A h \in Handlers : WF_vars(AbandonCommand(h))
    /\ \A w \in Workers :
          /\ \A c \in Commands : SF_vars(ClaimMarker(w, c))
          /\ WF_vars(ReplayFindsEvent(w)) /\ WF_vars(ReplayFindsNothing(w))
          /\ WF_vars(Reappend(w)) /\ WF_vars(FinalizeReappend(w))
          /\ WF_vars(ConfirmForRepair(w)) /\ SF_vars(RepairRoom(w)) /\ WF_vars(GiveUp(w))
    /\ \A c \in Commands : WF_vars(AbandonedClaimExpires(c))

FairSpec == Spec /\ Fairness /\ <>[][~Fault]_vars

-----------------------------------------------------------------------------
(* Properties                                                              *)

IsPrefixOf(s, t) == Len(s) <= Len(t) /\ \A i \in DOMAIN s : s[i] = t[i]

\* Type invariant: rows, intents, requests and control states have their shape.
TypeOK ==
    /\ room \in RoomRows
    /\ idem \in [Commands -> Outcomes]
    /\ intent \in [Commands -> IntentRows]
    /\ owner \in [Commands -> Workers \cup {None}]
    /\ processed \subseteq Nat
    /\ log \in Seq(Entries)
    /\ deck \in DeckStates
    /\ late \subseteq Requests
    /\ lock \in Handlers \cup {None}
    /\ hnd \in [Handlers -> HandlerStates]
    /\ wrk \in [Workers -> WorkerStates]

\* The Room snapshot is a prefix of the integrity log and lacks at most its
\* last entry: an append is only ever accepted against the newest snapshot,
\* however many handlers, retries and stray requests race (the row lock plus
\* the expected revision).
SnapshotTrailsLog ==
    /\ IsPrefixOf(room.applied, log)
    /\ Len(log) <= Len(room.applied) + 1
    /\ room.rev = Len(room.applied)

\* An appended entry the Room lost is exactly what some pending intent can
\* repair: same event, expected revision and snapshot (the intent is written
\* before the append and never dropped while the append may have landed).
TailIsRepairable ==
    Len(log) > Len(room.applied) =>
        LET c == log[Len(log)].cmd IN
        /\ intent[c].status = "pending"
        /\ intent[c].exp = Len(room.applied)
        /\ intent[c].snap.applied = log

\* The cards of a lost draw can still be confirmed, without which its repair is
\* refused for ever (performReservationAction before the local repair).  True
\* while the clock decides no draw: the retry of a decided one that comes too
\* late cancels the reservation of its own entry (ReportMissingUno).
TailConfirmable ==
    Len(log) > Len(room.applied) =>
        LET c == log[Len(log)].cmd IN c \in DrawCommands => CanConfirm(c)

\* A command is decided once, however often it is retried or reappended.
AcceptedOnce == \A i, j \in DOMAIN log : log[i].cmd = log[j].cmd => i = j

\* A player's command is appended only where its expected sequence number was
\* the Room's sequence, also when it was staged before its lock was lost.
AcceptedAgainstCurrent ==
    \A i \in DOMAIN log :
        log[i].cmd \notin SystemCommands \cup CreateCommands =>
            Token[log[i].cmd] = SequenceOf(SubSeq(log, 1, i - 1))

\* An intent that is still open has not been processed: the revision offsets and
\* the intents are settled by the same transactions (handler or repair).
OpenIsUnprocessed ==
    \A w \in Workers : wrk[w].pc \in {"located", "ready"} /\ wrk[w].at \in processed
                          => ~Fenced(w)

\* The cards of the log are the deck's: no card is dealt twice, only decided
\* draws leave the deck, and a published draw shows the card the deck gave it.
CardsMatchDeck ==
    /\ \A i, j \in DOMAIN log : log[i].card = log[j].card /\ log[i].card # 0 => i = j
    /\ \A k \in DOMAIN deck.dealt : [cmd |-> deck.dealt[k], card |-> k] \in
                                        {log[i] : i \in DOMAIN log}
    /\ \A i \in DOMAIN room.applied :
          room.applied[i].card # 0 => /\ room.applied[i].card \in DOMAIN deck.dealt
                                      /\ deck.dealt[room.applied[i].card] = room.applied[i].cmd

\* What a Room promises: decisions one at a time, each published before the next.
Ledger == INSTANCE RoomLedger WITH decided <- log, published <- room.applied
RefinesLedger == Ledger!Spec

\* A decided command is eventually visible in the Room, whoever died meanwhile.
DecidedIsPublished ==
    \A c \in Commands : Holds(log, c) ~> Holds(room.applied, c)

\* Together: the snapshot trails the log, tokens were current, the deck and the
\* log tell the same story; what is open is not processed.
PathSound ==
    SnapshotTrailsLog /\ AcceptedAgainstCurrent /\ OpenIsUnprocessed /\ CardsMatchDeck
=============================================================================
