--------------------------- MODULE IntegrityStore ---------------------------
(***************************************************************************)
(* Game Integrity over KurrentDB: the decks that several Rooms may ask for *)
(* under one game id, the stream that binds the game to one Room, and the  *)
(* append log of each Room, as several replicas use them.                  *)
(*                                                                         *)
(*   service.go, domain/deck.go, domain/gamelog.go   what a call decides   *)
(*   deck_snapshot.go       the snapshot a deck is restored from           *)
(*   binding_state.go       claimed, active and released bindings          *)
(*   kurrent_repo.go        loads, expected-revision appends, the claim    *)
(*                          before the first snapshot, its recovery, keys  *)
(*                                                                         *)
(* A replica serves one call on a deck or log at a time (its mutex); the   *)
(* calls of different replicas interleave at every request to KurrentDB.   *)
(* Reading a binding and appending to it under the revision read is one    *)
(* step: a lost race reads again, at most eight times.                     *)
(***************************************************************************)
EXTENDS Integers, Sequences, FiniteSets, SequencesExt

CONSTANTS
    Replicas,   \* Game Integrity processes
    Rooms,      \* Rooms that ask for the one game id
    Ops,        \* operation ids of reservations
    Counts,     \* cards a reservation asks for
    Events,     \* event ids of the log
    Nothing,    \* no Room, no reservation
    DeckSize,   \* cards in a deck
    Kinds,      \* calls that are made
    MaxCalls,   \* bound: calls
    MaxTroubles \* bound: crashes, refused or unanswered requests

ASSUME StoreAssumption ==
    /\ Counts \subseteq Nat \ {0} /\ DeckSize \in Nat \ {0}
    /\ Kinds \subseteq {"init", "append", "reserve", "confirm", "cancel"}
    /\ MaxCalls \in Nat /\ MaxTroubles \in Nat
    /\ IsFiniteSet(Events)
    /\ Nothing \notin Rooms \cup Ops \cup Events

VARIABLES
    binding,  \* the fold of the binding stream: phase, room, owner token
    deck,     \* the snapshots of each Room's deck stream
    log,      \* the event ids of each Room's log stream
    late,     \* appends given up by their replica that may still land
    cache,    \* each replica's key of each deck stream, 0 when unknown
    call,     \* the call each replica serves
    fresh,    \* random values drawn so far: seeds, keys and owner tokens
    seeds,    \* seeds whose commitment InitializeDeck has answered
    logged,   \* offsets Append has answered
    answered, \* Rooms whose deck calls have been answered
    calls, troubles

storeVars == <<binding, deck, log, late, cache, call, fresh, seeds, logged, answered, calls, troubles>>

NoCall == [pc |-> "idle", kind |-> "none", room |-> Nothing, op |-> Nothing, n |-> 0, seen |-> 0,
           next |-> Nothing, token |-> 0, again |-> TRUE]

StoreInit ==
    /\ binding = [phase |-> "none", room |-> Nothing, token |-> 0]
    /\ deck = [r \in Rooms |-> <<>>] /\ log = [r \in Rooms |-> <<>>]
    /\ late = {}
    /\ cache = [p \in Replicas |-> [r \in Rooms |-> 0]]
    /\ call = [p \in Replicas |-> NoCall]
    /\ fresh = 0 /\ seeds = {} /\ logged = {} /\ answered = {}
    /\ calls = 0 /\ troubles = 0

-----------------------------------------------------------------------------
(* The deck: what a call makes of the snapshot it has loaded               *)

\* A deck nobody has drawn from, under a new seed and key.
NewAuthoritativeDeck(seed, key) ==
    [seed |-> seed, key |-> key, pointer |-> 0, pending |-> Nothing, confirmed |-> {}, cancelled |-> {}]

Confirmed(s, op) == {c \in s.confirmed : c.op = op}

\* ReserveDeal and ReserveDraw: a new operation peeks at the next cards.
Reserve(s, op, n) ==
    IF \/ \E c \in s.cancelled : c.op = op
       \/ Confirmed(s, op) # {}
       \/ s.pending # Nothing
       \/ s.pointer + n > DeckSize
      THEN s
      ELSE [s EXCEPT !.pending = [op |-> op, n |-> n, from |-> s.pointer]]

\* The pending reservation is this one: its id is the operation and its shape.
IsPending(s, op, n) == s.pending # Nothing /\ s.pending.op = op /\ s.pending.n = n

Draw(s, n) == [s EXCEPT !.pointer = @ + n]

ConfirmReservation(s, op, n) ==
    IF ~IsPending(s, op, n) \/ s.pointer + n > DeckSize THEN s
    ELSE [Draw(s, n) EXCEPT !.pending = Nothing, !.confirmed = @ \cup {[op |-> op, n |-> n, from |-> s.pointer]}]

CancelReservation(s, op, n) ==
    IF ~IsPending(s, op, n) THEN s
    ELSE [s EXCEPT !.pending = Nothing, !.cancelled = @ \cup {[op |-> op, n |-> n]}]

\* What the callback of a call leaves of the snapshot; InitializeDeck refuses
\* a deck that is there.
Decided(s, c) ==
    CASE c.kind = "reserve" -> Reserve(s, c.op, c.n)
      [] c.kind = "confirm" -> ConfirmReservation(s, c.op, c.n)
      [] c.kind = "cancel" -> CancelReservation(s, c.op, c.n)
      [] OTHER -> s

\* deckStateFromSnapshot: confirmed draws cover the deck from its top to the
\* pointer without a gap, and the pending one holds the cards that follow.
PendingFollows(s) ==
    s.pending # Nothing =>
        /\ s.pending.from = s.pointer /\ s.pending.from + s.pending.n <= DeckSize
        /\ Confirmed(s, s.pending.op) = {}

DrawsAreContiguous(s) ==
    /\ \A i \in 0 .. s.pointer - 1 : Cardinality({c \in s.confirmed : c.from <= i /\ i < c.from + c.n}) = 1
    /\ \A c \in s.confirmed : c.from + c.n <= s.pointer

Restores(s) == PendingFollows(s) /\ DrawsAreContiguous(s)

-----------------------------------------------------------------------------
(* Steps of a call                                                         *)

\* The call of p goes on as c.
Continue(p, c) == call' = [call EXCEPT ![p] = c]

Goto(p, step) == Continue(p, [call[p] EXCEPT !.pc = step])

EndCall(p) == Continue(p, NoCall)

\* A deck call is answered.
AnswerDeck(p) == EndCall(p) /\ answered' = answered \cup {call[p].room}

Trouble == troubles < MaxTroubles /\ troubles' = troubles + 1

\* An event and the revision expected for it, a reservation, or nothing.
Arguments(kind) ==
    CASE kind = "append" -> Events \X (0 .. Cardinality(Events))
      [] kind = "init" -> {<<Nothing, 0>>}
      [] OTHER -> Ops \X Counts

StartCall(p) ==
    /\ call[p].pc = "idle" /\ calls < MaxCalls /\ calls' = calls + 1
    /\ \E r \in Rooms, k \in Kinds : \E a \in Arguments(k) :
          Continue(p, [NoCall EXCEPT !.pc = IF k = "append" THEN "log" ELSE "load",
                                     !.kind = k, !.room = r, !.op = a[1], !.n = a[2]])
    /\ UNCHANGED <<binding, deck, log, late, cache, fresh, seeds, logged, answered, troubles>>

\* loadDeckState: the first and the latest event, under the key of the first.
LoadDeckState(p) ==
    LET r == call[p].room
    IN  /\ call[p].pc = "load"
        /\ IF deck[r] # <<>> /\ cache[p][r] \in {0, Head(deck[r]).key}
             THEN /\ Continue(p, [call[p] EXCEPT !.pc = "ensure", !.seen = Len(deck[r])])
                  /\ cache' = [cache EXCEPT ![p][r] = Head(deck[r]).key] /\ UNCHANGED fresh
             ELSE IF deck[r] = <<>> /\ call[p].kind = "init"
             THEN /\ Continue(p, [call[p] EXCEPT !.pc = "claim", !.next = NewAuthoritativeDeck(fresh + 1, 0)])
                  /\ fresh' = fresh + 1 /\ UNCHANGED cache
             ELSE EndCall(p) /\ UNCHANGED <<fresh, cache>>
        /\ UNCHANGED <<binding, deck, log, late, seeds, logged, answered, calls, troubles>>

Free == binding.phase \in {"none", "released"}

\* Mutant: an active binding satisfies every Room.
EnsuresAny(r) == binding.phase = "active" \/ (binding.phase = "claimed" /\ binding.room = r) \/ Free

\* evaluateFinalizeRepair: anything but the binding of another Room.
Ensures(r) == Free \/ binding.room = r

\* ensureGameBinding: a free binding is claimed, the Room's own claim becomes
\* active without its token.
EnsureGameBinding(p) ==
    LET r == call[p].room
    IN  /\ call[p].pc \in {"ensure", "settle", "repair"}
        /\ \/ /\ Ensures(r) /\ Free
              /\ binding' = [phase |-> "claimed", room |-> r, token |-> fresh + 1]
              /\ fresh' = fresh + 1 /\ UNCHANGED <<call, answered>>
           \/ /\ Ensures(r) /\ ~Free
              /\ binding' = [binding EXCEPT !.phase = "active"]
              /\ CASE call[p].pc = "ensure" -> Goto(p, "decide") /\ UNCHANGED answered
                   [] call[p].pc = "settle" -> AnswerDeck(p)
                   [] OTHER -> EndCall(p) /\ UNCHANGED answered
              /\ UNCHANGED fresh
           \/ /\ ~Ensures(r)
              /\ EndCall(p) /\ UNCHANGED <<binding, fresh, answered>>
        /\ UNCHANGED <<deck, log, late, cache, seeds, logged, calls, troubles>>

\* The callback over the snapshot loaded; a call that changes nothing only
\* settles the binding.
DecideDeck(p) ==
    LET s == deck[call[p].room][call[p].seen]
        t == Decided(s, call[p])
    IN  /\ call[p].pc = "decide"
        /\ Continue(p, [call[p] EXCEPT !.pc = IF t = s THEN "settle" ELSE "next", !.next = t])
        /\ UNCHANGED <<binding, deck, log, late, cache, fresh, seeds, logged, answered, calls, troubles>>

\* KurrentDB takes an append at the revision it expects.
Lands(stream, at) == Len(stream) = at

\* A later snapshot.  The event id names the revision, so KurrentDB answers a
\* write that lost the race as the repetition of the one that won it.
AppendSnapshot(p) ==
    LET c == call[p]
    IN  /\ c.pc = "next"
        /\ deck' = IF Lands(deck[c.room], c.seen) THEN [deck EXCEPT ![c.room] = Append(@, c.next)] ELSE deck
        /\ Goto(p, "settle")
        /\ UNCHANGED <<binding, log, late, cache, fresh, seeds, logged, answered, calls, troubles>>

-----------------------------------------------------------------------------
(* The first snapshot of a deck: claim, append, anchor, finalize           *)

Owns(p) == binding.phase = "claimed" /\ binding.room = call[p].room /\ binding.token = call[p].token

\* claimGameBinding, or revalidateClaimOwnership in the second attempt.
ClaimGameBinding(p) ==
    LET r == call[p].room
    IN  /\ call[p].pc = "claim"
        /\ \/ /\ call[p].token = 0 /\ Free
              /\ binding' = [phase |-> "claimed", room |-> r, token |-> fresh + 1]
              /\ Continue(p, [call[p] EXCEPT !.pc = "first", !.token = fresh + 1]) /\ fresh' = fresh + 1
           \/ /\ ~(call[p].token = 0 /\ Free)
              /\ IF Owns(p) \/ (binding.phase = "active" /\ binding.room = r) THEN Goto(p, "first") ELSE EndCall(p)
              /\ UNCHANGED <<binding, fresh>>
        /\ UNCHANGED <<deck, log, late, cache, seeds, logged, answered, calls, troubles>>

\* streamDEK: the key known or found in the stream, else a candidate.
StreamDEK(p, r) ==
    CASE cache[p][r] # 0 -> cache[p][r]
      [] cache[p][r] = 0 /\ deck[r] # <<>> -> Head(deck[r]).key
      [] OTHER -> fresh + 1

\* The first append lands, answered or not: both are anchored; or it is given
\* up and lands later or never.
AppendFirst(p) ==
    LET r == call[p].room
        s == [call[p].next EXCEPT !.key = StreamDEK(p, r)]
        landed == IF Lands(deck[r], 0) THEN [deck EXCEPT ![r] = <<s>>] ELSE deck
    IN  /\ call[p].pc = "first"
        /\ fresh' = fresh + 1
        /\ Continue(p, [call[p] EXCEPT !.pc = "anchor", !.next = s])
        /\ \/ deck' = landed /\ UNCHANGED <<late, troubles>>
           \/ /\ Trouble /\ UNCHANGED deck
              /\ late' \in {late, late \cup {[stream |-> "deck", room |-> r, at |-> 0, next |-> s]}}
        /\ UNCHANGED <<binding, log, cache, seeds, logged, answered, calls>>

\* Mutant: the event that was committed is not compared.
MatchesAny(p) == TRUE

\* anchorCommittedStreamDEK keeps the key of the event that was committed ...
AnchoredKey(p) == Head(deck[call[p].room]).key

\* ... and compares the event with the candidate.
MatchesCandidate(p) == Head(deck[call[p].room]).seed = call[p].next.seed

AnchorCommittedStreamDEK(p) ==
    LET r == call[p].room
    IN  /\ call[p].pc = "anchor"
        /\ \/ /\ deck[r] = <<>> /\ Goto(p, "recover") /\ UNCHANGED cache
           \/ /\ deck[r] # <<>>
              /\ cache' = [cache EXCEPT ![p][r] = AnchoredKey(p)]
              /\ \/ MatchesCandidate(p) /\ Goto(p, "finalize")
                 \/ ~MatchesCandidate(p) /\ call[p].again /\ Continue(p, [call[p] EXCEPT !.pc = "load", !.again = FALSE])
                 \/ ~MatchesCandidate(p) /\ ~call[p].again /\ Goto(p, "recover")
        /\ UNCHANGED <<binding, deck, log, late, fresh, seeds, logged, answered, calls, troubles>>

\* evaluateFinalize: the exact token, or the Room's binding active already.
Finalizes(p) == Owns(p) \/ (binding.phase = "active" /\ binding.room = call[p].room)

FinalizeGameBinding(p) ==
    /\ call[p].pc = "finalize"
    /\ IF Finalizes(p)
         THEN /\ binding' = [binding EXCEPT !.phase = "active"]
              /\ seeds' = seeds \cup {[room |-> call[p].room, seed |-> call[p].next.seed]}
              /\ AnswerDeck(p)
         ELSE EndCall(p) /\ UNCHANGED <<binding, seeds, answered>>
    /\ UNCHANGED <<deck, log, late, cache, fresh, logged, calls, troubles>>

\* recoverFirstDeckAppendError asks whether the deck is there ...
DeckStreamExists(p) ==
    /\ call[p].pc = "recover"
    /\ Goto(p, IF deck[call[p].room] # <<>> THEN "repair" ELSE "release")
    /\ UNCHANGED <<binding, deck, log, late, cache, fresh, seeds, logged, answered, calls, troubles>>

\* ... and releases the claim when it is not.
ReleaseGameBinding(p) ==
    /\ call[p].pc = "release"
    /\ binding' = IF Owns(p) THEN [binding EXCEPT !.phase = "released"] ELSE binding
    /\ EndCall(p)
    /\ UNCHANGED <<deck, log, late, cache, fresh, seeds, logged, answered, calls, troubles>>

-----------------------------------------------------------------------------
(* The log of a Room                                                       *)

\* GameLog.Append over the entries loaded: a known event is answered with its
\* offset, a new one is taken at the revision the caller expects (call.n).
DecideAppend(p) ==
    LET expected == call[p].n
        entries == log[call[p].room]
        e == call[p].op
    IN  /\ call[p].pc = "log"
        /\ \/ \E i \in DOMAIN entries :
                 /\ entries[i] = e
                 /\ logged' = logged \cup {[room |-> call[p].room, event |-> e, offset |-> i]} /\ EndCall(p)
           \/ /\ e \notin Range(entries) /\ expected # Len(entries)
              /\ EndCall(p) /\ UNCHANGED logged
           \/ /\ e \notin Range(entries) /\ expected = Len(entries)
              /\ Continue(p, [call[p] EXCEPT !.pc = "write", !.seen = Len(entries)]) /\ UNCHANGED logged
        /\ UNCHANGED <<binding, deck, log, late, cache, fresh, seeds, answered, calls, troubles>>

\* KurrentDB finds the event where the append wanted to write it.
Acknowledged(stream, at, e) == Len(stream) > at /\ stream[at + 1] = e

\* appendRoomEntry under withRoomAttempt: one more attempt after a conflict.
AppendRoomEntry(p) ==
    LET c == call[p]
        told == logged \cup {[room |-> c.room, event |-> c.op, offset |-> c.seen + 1]}
    IN  /\ c.pc = "write"
        /\ \/ /\ Lands(log[c.room], c.seen)
              /\ log' = [log EXCEPT ![c.room] = Append(@, c.op)] /\ logged' = told /\ EndCall(p)
           \/ /\ Acknowledged(log[c.room], c.seen, c.op)
              /\ logged' = told /\ EndCall(p) /\ UNCHANGED log
           \/ /\ ~Lands(log[c.room], c.seen) /\ ~Acknowledged(log[c.room], c.seen, c.op)
              /\ Continue(p, IF c.again THEN [c EXCEPT !.pc = "log", !.again = FALSE] ELSE NoCall)
              /\ UNCHANGED <<log, logged>>
        /\ UNCHANGED <<binding, deck, late, cache, fresh, seeds, answered, calls, troubles>>

-----------------------------------------------------------------------------
(* Faults                                                                  *)

\* A request to KurrentDB fails and the call with it; a write may have landed
\* or may still land.  A claim whose append is not answered stays.
RequestFails(p) ==
    LET c == call[p]
        sent == [stream |-> IF c.pc = "next" THEN "deck" ELSE "log", room |-> c.room, at |-> c.seen,
                 next |-> IF c.pc = "next" THEN c.next ELSE c.op]
    IN  /\ c.pc \in {"load", "log", "ensure", "settle", "repair", "claim", "finalize", "release", "next", "write", "recover"}
        /\ Trouble
        /\ late' \in {late} \cup IF c.pc \in {"next", "write"} THEN {late \cup {sent}} ELSE {}
        /\ EndCall(p)
        /\ UNCHANGED <<binding, deck, log, cache, fresh, seeds, logged, answered, calls>>

\* The claim lands and its answer does not: nobody holds its token.
ClaimIsLost(p) ==
    /\ call[p].pc = "claim" /\ call[p].token = 0 /\ Free /\ Trouble
    /\ binding' = [phase |-> "claimed", room |-> call[p].room, token |-> fresh + 1]
    /\ fresh' = fresh + 1 /\ EndCall(p)
    /\ UNCHANGED <<deck, log, late, cache, seeds, logged, answered, calls>>

\* The committed event cannot be read back: no key is kept.
AnchorFails(p) ==
    /\ call[p].pc = "anchor" /\ Trouble
    /\ Goto(p, "recover")
    /\ UNCHANGED <<binding, deck, log, late, cache, fresh, seeds, logged, answered, calls>>

LateAppend(a) ==
    /\ late' = late \ {a}
    /\ IF a.stream = "log"
         THEN /\ log' = IF Lands(log[a.room], a.at) THEN [log EXCEPT ![a.room] = Append(@, a.next)] ELSE log
              /\ UNCHANGED deck
         ELSE /\ deck' = IF Lands(deck[a.room], a.at) THEN [deck EXCEPT ![a.room] = Append(@, a.next)] ELSE deck
              /\ UNCHANGED log
    /\ UNCHANGED <<binding, cache, call, fresh, seeds, logged, answered, calls, troubles>>

Crash(p) ==
    /\ call[p].pc # "idle" /\ Trouble
    /\ EndCall(p) /\ cache' = [cache EXCEPT ![p] = [r \in Rooms |-> 0]]
    /\ UNCHANGED <<binding, deck, log, late, fresh, seeds, logged, answered, calls>>

-----------------------------------------------------------------------------
StoreNext ==
    \/ \E p \in Replicas :
          \/ StartCall(p) \/ LoadDeckState(p) \/ EnsureGameBinding(p) \/ DecideDeck(p) \/ AppendSnapshot(p)
          \/ ClaimGameBinding(p) \/ AppendFirst(p) \/ AnchorCommittedStreamDEK(p) \/ FinalizeGameBinding(p)
          \/ DeckStreamExists(p) \/ ReleaseGameBinding(p)
          \/ DecideAppend(p) \/ AppendRoomEntry(p)
          \/ RequestFails(p) \/ ClaimIsLost(p) \/ AnchorFails(p) \/ Crash(p)
    \/ \E a \in late : LateAppend(a)

StoreSpec == StoreInit /\ [][StoreNext]_storeVars

-----------------------------------------------------------------------------
(* Properties                                                              *)

(* One game is dealt by one Room: whatever claims, late appends and        *)
(* repairs leave behind, deck calls of two Rooms under the same game id    *)
(* are never both answered (ensureGameBinding, finalizeGameBinding).       *)
OneRoomServed == Cardinality(answered) <= 1

(* What a replica has answered stays true: the seed commitment of an       *)
(* accepted InitializeDeck is that of the deck every later call restores,  *)
(* and an event of the log is where Append said (committed first events    *)
(* are compared, revision conflicts decide again).                         *)
AnswersAreKept ==
    /\ \A a \in seeds : deck[a.room] # <<>> /\ Head(deck[a.room]).seed = a.seed
    /\ \A a \in logged : a.offset <= Len(log[a.room]) /\ log[a.room][a.offset] = a.event
    /\ \A r \in Rooms : IsInjective(log[r])

(* Every event of a stream can be read: it is sealed with the key of the   *)
(* first one, and no replica keeps another key for the stream, which it    *)
(* would take for a changed identity until it restarts.                    *)
OneKeyPerStream ==
    \A r \in Rooms :
        /\ \A i \in DOMAIN deck[r] : deck[r][i].key = Head(deck[r]).key
        /\ \A p \in Replicas : cache[p][r] = 0 \/ (deck[r] # <<>> /\ cache[p][r] = Head(deck[r]).key)

(* Every snapshot that reaches a stream passes the checks it is restored   *)
(* under, and keeps the reservations confirmed and cancelled before it:    *)
(* otherwise the deck is lost for good or deals a card twice.              *)
EverySnapshotRestores ==
    \A r \in Rooms : \A i \in DOMAIN deck[r] :
        /\ Restores(deck[r][i])
        /\ i > 1 => /\ deck[r][i - 1].confirmed \subseteq deck[r][i].confirmed
                    /\ deck[r][i - 1].cancelled \subseteq deck[r][i].cancelled
                    /\ deck[r][i - 1].seed = deck[r][i].seed

(* Not kept by the code: a reservation that was answered is the pending    *)
(* one, confirmed, or cancelled.  A snapshot that lost the race for its    *)
(* revision is acknowledged under the shared event id and forgotten.       *)
AcknowledgedIsWritten ==
    [][\A p \in Replicas : call[p].pc = "next" /\ call'[p].pc = "settle" =>
          \E i \in DOMAIN deck'[call[p].room] : deck'[call[p].room][i] = call[p].next]_storeVars

(* Together: one Room is answered, under one key, from snapshots that are  *)
(* restored by every later call.                                           *)
StoreSound == OneRoomServed /\ OneKeyPerStream /\ EverySnapshotRestores
=============================================================================
