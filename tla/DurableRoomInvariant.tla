------------------------- MODULE DurableRoomInvariant -------------------------
(***************************************************************************)
(* Why the durable command path is safe: an inductive invariant of         *)
(* DurableRoom.  TLC checks it on the small instances, DurableRoom_proof   *)
(* proves it for every instance.                                           *)
(*                                                                         *)
(* The argument: every request that could still be appended is either dead *)
(* (its expected revision is behind the log) or is the one its command's   *)
(* current intent describes, and an intent is only ever given up once its  *)
(* revision is dead.                                                       *)
(***************************************************************************)
EXTENDS DurableRoom

\* Handlers whose intent is durable.
HasIntent(h) == hnd[h].pc \in {"intent", "failed", "appended", "confirmed", "finalized"}

Staged(h) == hnd[h].pc \notin {"idle", "reserve"}

\* The snapshot a stage started from agrees with the Room.
ExtendsRoom(stage) ==
    /\ stage.rev <= Len(room.applied)
    /\ \A i \in 1..stage.rev : stage.applied[i] = room.applied[i]

\* One more entry than its revision, and that entry is c's.
StagesOne(snap, rev, c) ==
    /\ Len(snap.applied) = rev + 1
    /\ snap.applied[rev + 1].cmd = c

\* Reservations never promise more cards than the deck holds.
DeckBound == Len(deck.dealt) + (IF deck.pending = None THEN 0 ELSE 1) <= DeckSize

\* What a handler staged started from a snapshot the Room still extends.
HandlersExtendRoom ==
    \A h \in Handlers : hnd[h].pc # "idle" =>
        /\ hnd[h].cmd \in Commands
        /\ ExtendsRoom(hnd[h].stage)
        /\ hnd[h].pc = "reserve" => Len(hnd[h].stage.applied) = hnd[h].stage.rev
        /\ Staged(h) => StagesOne(hnd[h].stage, hnd[h].stage.rev, hnd[h].cmd)

\* The lock holder's stage is the newest: nobody else writes an existing Room.
LockHolderIsCurrent ==
    \A h \in Handlers : lock = h =>
        /\ hnd[h].pc \notin {"idle", "failed"}
        /\ hnd[h].cmd \notin CreateCommands
        /\ hnd[h].stage.rev = Len(room.applied)
        /\ Exists(room)

\* A handler past BeginIntent is the only one of its command, and the intent
\* is its own.
IntentsOfHandlers ==
    /\ \A h \in Handlers : HasIntent(h) =>
          LET n == intent[hnd[h].cmd] IN
          /\ n.status \in {"pending", "done"}
          /\ n.exp = hnd[h].stage.rev
          /\ n.snap = hnd[h].stage
    /\ \A g, h \in Handlers : HasIntent(g) /\ HasIntent(h) /\ hnd[g].cmd = hnd[h].cmd => g = h

\* A definitive refusal means the log has passed the intent's revision.
FailedIsDead ==
    \A h \in Handlers : hnd[h].pc = "failed" => hnd[h].stage.rev < Len(log)
                                                /\ ~Holds(log, hnd[h].cmd)

\* A successful append put the staged entry right behind its snapshot.
AppendedIsLogged ==
    \A h \in Handlers : hnd[h].pc \in {"appended", "confirmed", "finalized"} =>
        /\ hnd[h].at = hnd[h].stage.rev + 1
        /\ Holds(log, hnd[h].cmd)

\* Every log entry is the last one of its intent's snapshot.
LogHasIntents ==
    \A i \in 1..Len(log) :
        LET n == intent[log[i].cmd] IN
        /\ n.status \in {"pending", "done"}
        /\ n.exp = i - 1
        /\ Len(n.snap.applied) = i
        /\ \A j \in 1..i : n.snap.applied[j] = log[j]

\* A pending intent extends a snapshot the Room had, by its own command.
PendingExtendsRoom ==
    \A c \in Commands : intent[c].status = "pending" =>
        /\ intent[c].exp = intent[c].snap.rev
        /\ ExtendsRoom(intent[c].snap)
        /\ StagesOne(intent[c].snap, intent[c].exp, c)
        /\ intent[c].at # 0 => intent[c].at = intent[c].exp + 1 /\ Holds(log, c)

\* A finished intent is in the log and in the Room.
DoneIsPublished ==
    \A c \in Commands : intent[c].status = "done" =>
        Holds(log, c) /\ intent[c].exp < Len(room.applied)

\* An append request is dead, or its command's current intent.
DeadOrCurrent(e, exp) ==
    \/ exp < Len(log)
    \/ /\ intent[e.cmd].status \in {"pending", "done"}
       /\ intent[e.cmd].exp = exp
       /\ StagesOne(intent[e.cmd].snap, exp, e.cmd)
       /\ intent[e.cmd].snap.applied[exp + 1] = e

RequestsDeadOrCurrent ==
    /\ \A m \in late : DeadOrCurrent(m.entry, m.exp)
    /\ \A w \in Workers : wrk[w].pc # "idle" =>
          /\ wrk[w].cmd \in Commands
          /\ StagesOne(wrk[w].snap, wrk[w].exp, wrk[w].cmd)
          /\ DeadOrCurrent(StagedEntry(wrk[w].snap), wrk[w].exp)

\* Under a live lease a worker's copy of the marker is still the intent.
FencedIsCurrent ==
    \A w \in Workers : wrk[w].pc # "idle" /\ Fenced(w) =>
        /\ wrk[w].exp = intent[wrk[w].cmd].exp
        /\ wrk[w].snap = intent[wrk[w].cmd].snap
        /\ wrk[w].pc \in {"appended", "located", "ready"} =>
              wrk[w].at = wrk[w].exp + 1 /\ Holds(log, wrk[w].cmd)

\* A processed revision is the entry of a finished intent.
ProcessedIsDone ==
    \A n \in processed : n \in 1..Len(log) /\ intent[log[n].cmd].status = "done"

\* The inductive invariant.
IInv ==
    /\ TypeOK
    /\ DeckBound
    /\ SnapshotTrailsLog
    /\ HandlersExtendRoom
    /\ LockHolderIsCurrent
    /\ IntentsOfHandlers
    /\ FailedIsDead
    /\ AppendedIsLogged
    /\ LogHasIntents
    /\ PendingExtendsRoom
    /\ DoneIsPublished
    /\ RequestsDeadOrCurrent
    /\ FencedIsCurrent
    /\ ProcessedIsDone

-----------------------------------------------------------------------------
(* Why what is decided was decided for this log and this deck.  On top of   *)
(* IInv: what can still be appended was staged when the log was what it is  *)
(* now and everything in it was published, so no card left the deck since.  *)

\* Behind the whole log: what is staged at an earlier revision is dead.
Live(rev) == rev >= Len(log)

TokenFits(c) ==
    c \notin SystemCommands \cup CreateCommands => Token[c] = SequenceOf(log)

\* The card is the one the deck gave c, or the one it would give next.
CardFits(c, card) ==
    IF c \in DrawCommands
    THEN \/ card \in DOMAIN deck.dealt /\ deck.dealt[card] = c
         \/ card = Len(deck.dealt) + 1 /\ ~Dealt(c)
    ELSE card = 0

HandlersFit ==
    /\ \A h \in Handlers : hnd[h].pc = "reserve" => hnd[h].cmd \in DrawCommands
    /\ \A h \in Handlers : hnd[h].pc # "idle" /\ Live(hnd[h].stage.rev) =>
          /\ TokenFits(hnd[h].cmd)
          /\ Staged(h) => CardFits(hnd[h].cmd, StagedEntry(hnd[h].stage).card)

IntentsFit ==
    \A c \in Commands : intent[c].status = "pending" /\ Live(intent[c].exp) =>
        TokenFits(c) /\ CardFits(c, StagedEntry(intent[c].snap).card)

LogFits == \A i \in 1..Len(log) : CardFits(log[i].cmd, log[i].card)

\* Nothing is published, nor about to be, before its cards have left the deck.
PublishedIsDealt ==
    /\ \A i \in 1..Len(room.applied) :
          room.applied[i].cmd \in DrawCommands => Dealt(room.applied[i].cmd)
    /\ \A h \in Handlers :
          hnd[h].pc \in {"confirmed", "finalized"} /\ hnd[h].cmd \in DrawCommands
              => Dealt(hnd[h].cmd)
    /\ \A w \in Workers : wrk[w].pc = "ready" => Dealt(wrk[w].cmd)

\* A command's cards leave the deck once, and not before it is decided.
DealtIsLogged ==
    /\ \A j, k \in DOMAIN deck.dealt : deck.dealt[j] = deck.dealt[k] => j = k
    /\ \A k \in DOMAIN deck.dealt : deck.dealt[k] \in DrawCommands /\ Holds(log, deck.dealt[k])
    /\ deck.pending # None => deck.pending \in DrawCommands /\ ~Dealt(deck.pending)

DecisionsFit ==
    /\ AcceptedAgainstCurrent
    /\ HandlersFit
    /\ IntentsFit
    /\ LogFits
    /\ PublishedIsDealt
    /\ DealtIsLogged
=============================================================================
