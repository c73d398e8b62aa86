--------------------------- MODULE RoundResults_proof ---------------------------
(***************************************************************************)
(* Results stand, the bracket is sound and the end of a tournament is      *)
(* kept: for any log, commands, handlers, rounds, slots and shards.        *)
(*                                                                         *)
(* A decision is taken in one step and carried out in another.  The first  *)
(* invariant, IInv, says that it is still right when it is carried out:    *)
(* what a transaction has read is under a lock of its own (Apart), so a    *)
(* result that is to be recorded is of a key that is not quarantined and   *)
(* of a slot that has none (DecisionHolds).  A round that opens under its  *)
(* feet has no slots yet (UnopenedIsEmpty), because rounds open in order   *)
(* (InOrder).                                                              *)
(*                                                                         *)
(* The second, BInv, adds the tables (BracketHolds): counts that are sums  *)
(* over the slots of a shard, rows of players that are those of the slots, *)
(* one round under way at a time.  And it adds what its transactions need  *)
(* to keep them so (WorkHolds): the round that is about to be completed is *)
(* as ready as when that was decided, nobody is about to record in it, and *)
(* nothing that changes the bracket is open once the tournament has ended, *)
(* for who cancels it holds the barrier alone.                             *)
(***************************************************************************)
EXTENDS RoundResults, FiniteSetTheorems, TLAPS

\* Rows of tournament_rounds.
RoundRows(P) == [status : RoundStatuses, final : BOOLEAN, players : P]

\* Functions on their sets; the counts and plans in them may be anything.
Shaped ==
    /\ \E P : round \in [Rounds -> RoundRows(P)]
    /\ slot \in [Slots -> SlotStatuses]
    /\ \E P : advancement \in [Slots -> P]
    /\ \E P : result \in [Keys -> P]
    /\ \E P : tx \in [Handlers -> P]
    /\ offset \in [Partitions -> Nat]
    /\ tx[Worker].pc = "hint" => \E r \in Rounds : tx[Worker].cmd = CompleteCommand(r)

\* Only commands about a result write the ledger, and a record its result.
DecisionKinds ==
    \A h \in Handlers : Open(h) =>
        /\ tx[h].decision \in {"conflict", "stray", "ledger_only", "insert_quarantined"}
              => tx[h].cmd.type \in {"record", "quarantine"}
        /\ tx[h].cmd.type \in {"record", "quarantine"} => Key(tx[h].cmd) \in Keys
        /\ tx[h].cmd.type = "complete" => tx[h].cmd.round \in Rounds

\* h writes the slot of its command when it commits.
Writes(h) == Open(h) /\ tx[h].cmd.type = "record" /\ tx[h].decision \in {"record", "hold"}

\* h writes the ledger under the key of its command when it commits.
Keyed(h) == Open(h) /\ tx[h].cmd.type \in {"record", "quarantine"}

\* Transactions on one key, or on one slot, exclude each other.
Apart ==
    \A g, h \in Handlers : g # h =>
        /\ Keyed(g) /\ Keyed(h) => Key(tx[g].cmd) # Key(tx[h].cmd)
        /\ Writes(g) /\ Writes(h) => tx[g].cmd.room # tx[h].cmd.room

\* What was decided may still be done.
DecisionHolds ==
    \A h \in Handlers : Writes(h) =>
        /\ Key(tx[h].cmd) \notin ledger
        /\ tx[h].cmd.room \in Slots
        /\ slot[tx[h].cmd.room] = "assigned" /\ advancement[tx[h].cmd.room] = <<>>

\* Who has sent players on has its result.
SentIsResolved == \A s \in Slots : advancement[s] # <<>> => Resolved(s)

\* A round that is not open has no slots.
UnopenedIsEmpty ==
    \A s \in Slots : slot[s] # "none" => round[s[1]].status \notin {"none", "pending"}

\* A round comes into being when the one before it is completed.
InOrder ==
    \A r \in Rounds : round[r].status # "completed" /\ r + 1 \in Rounds => round[r + 1].status = "none"

IInv == Shaped /\ DecisionKinds /\ Apart /\ DecisionHolds /\ SentIsResolved /\ UnopenedIsEmpty /\ InOrder

-----------------------------------------------------------------------------
\* What a step may not do.
Stands ==
    /\ \A k \in Keys : (k \in ledger /\ result[k] # result'[k]) => result'[k].disposition = "quarantined"
    /\ \A s \in Slots : Len(advancement[s]) > 0 => advancement'[s] = advancement[s] /\ slot'[s] = slot[s]

LEMMA EmptyHasNoLength == \A x : Len(x) > 0 => x # <<>>
OBVIOUS

\* Handlers that change do not have an open transaction after it.
TxLeaves ==
    /\ \E P : tx' \in [Handlers -> P]
    /\ \A g \in Handlers : tx'[g] = tx[g] \/ tx'[g].pc \notin {"open", "hint"}
    /\ offset' \in [Partitions -> Nat]

LEMMA LeavesFacts ==
    ASSUME IInv, TxLeaves
    PROVE  /\ \A g \in Handlers : Open(g)' => tx'[g] = tx[g] /\ Open(g)
           /\ \A g \in Handlers : Keyed(g)' => tx'[g] = tx[g] /\ Keyed(g)
           /\ \A g \in Handlers : Writes(g)' => tx'[g] = tx[g] /\ Writes(g)
           /\ DecisionKinds' /\ Apart'
           /\ tx'[Worker].pc = "hint" => \E r \in Rounds : tx'[Worker].cmd = CompleteCommand(r)
<1>1. /\ \A g \in Handlers : Open(g)' => tx'[g] = tx[g] /\ Open(g)
      /\ \A g \in Handlers : Keyed(g)' => tx'[g] = tx[g] /\ Keyed(g)
      /\ \A g \in Handlers : Writes(g)' => tx'[g] = tx[g] /\ Writes(g)
  BY DEF TxLeaves, Open, Keyed, Writes
<1>2. DecisionKinds'
  BY <1>1 DEF IInv, DecisionKinds
<1>3. Apart'
  BY <1>1 DEF IInv, Apart
<1>4. tx'[Worker].pc = "hint" => \E r \in Rounds : tx'[Worker].cmd = CompleteCommand(r)
  BY DEF TxLeaves, IInv, Shaped, Handlers
<1> QED
  BY <1>1, <1>2, <1>3, <1>4

\* A transaction that ends, or a record that is passed over, with the tables
\* as they are.
LEMMA AsideKeeps == ASSUME IInv, TxLeaves, UNCHANGED Tables PROVE IInv' /\ Stands
<1>1. UNCHANGED <<round, slot, result, ledger, advancement>>
  BY DEF Tables
<1>2. Shaped'
  BY <1>1, LeavesFacts DEF IInv, Shaped, TxLeaves
<1>3. DecisionHolds'
  BY <1>1, LeavesFacts DEF IInv, DecisionHolds
<1>4. SentIsResolved' /\ UnopenedIsEmpty' /\ InOrder'
  BY <1>1 DEF IInv, SentIsResolved, Resolved, UnopenedIsEmpty, InOrder
<1> QED
  BY <1>1, <1>2, <1>3, <1>4, LeavesFacts DEF IInv, Stands

-----------------------------------------------------------------------------
(* Taking the locks                                                        *)

Known(c) == c \in AllCommands \/ \E r \in Rounds : c = CompleteCommand(r)

LEMMA KnownFacts ==
    ASSUME NEW c, Known(c)
    PROVE  /\ c.type \in {"record", "quarantine", "complete", "seed", "cancel", "finish"}
           /\ c.type \in {"record", "quarantine"} => Key(c) \in Keys
           /\ c.type = "complete" => c.round \in Rounds
BY RoundResultsAssumption DEF Known, AllCommands, Completions, CompleteCommand, Keys

LEMMA LocksTaken ==
    ASSUME NEW c
    PROVE  /\ c.type \in {"record", "quarantine"} => <<"key", c.room, c.version>> \in LocksOf(c)
           /\ c.type = "record" /\ Assigned(c.room) => <<"slot", c.room>> \in LocksOf(c)
BY DEF LocksOf, LockShardAndSlot

\* What Decide has looked at.
LEMMA DecideRecord ==
    ASSUME NEW c, c.type = "record", Decide(c) \in {"record", "hold"}, Shaped, c.room \in Slots => slot[c.room] \in SlotStatuses
    PROVE  /\ Key(c) \notin ledger /\ c.room \in Slots
           /\ slot[c.room] = "assigned" /\ advancement[c.room] = <<>>
<1>1. DecideRecordMatchResult(c) \in {"record", "hold"}
  BY DEF Decide
<1>2. AttachPriorResult(Key(c)) # "quarantined" /\ Assigned(c.room) /\ ~Held(c.room) /\ ~HasResult(c.room)
  BY <1>1 DEF DecideRecordMatchResult
<1> QED
  BY <1>2 DEF AttachPriorResult, Assigned, Held, HasResult, Resolved, SlotStatuses

LEMMA DecideKinds ==
    ASSUME NEW c, Known(c), Decide(c) \in {"conflict", "stray", "ledger_only", "insert_quarantined"}
    PROVE  c.type \in {"record", "quarantine"}
BY KnownFacts
DEF Decide, DecideCompleteRound, DecideSeedRoundKickoff, DecideCancelTournament, DecideCompleteTournament

LEMMA BeginKeeps ==
    ASSUME IInv, NEW h \in Handlers, NEW c, Known(c), ~Open(h), Begin(h, c), UNCHANGED Tables, UNCHANGED offset
    PROVE  IInv' /\ Stands
<1> DEFINE new == [pc |-> "open", cmd |-> c, decision |-> Decide(c)]
<1>1. /\ UNCHANGED <<round, slot, result, ledger, advancement>>
      /\ tx' = [tx EXCEPT ![h] = new] /\ LocksFree(c)
  BY DEF Tables, Begin
<1>2. /\ tx'[h] = new /\ \A g \in Handlers \ {h} : tx'[g] = tx[g]
      /\ \E P : tx' \in [Handlers -> P]
  <2>1. PICK P : tx \in [Handlers -> P]
    BY DEF IInv, Shaped
  <2>2. tx' \in [Handlers -> P \cup {new}]
    BY <1>1, <2>1
  <2> QED
    BY <1>1, <2>1, <2>2
<1>3. new.pc = "open" /\ new.cmd = c /\ new.decision = Decide(c)
  OBVIOUS
<1> HIDE DEF new
<1>4. \A g \in Handlers \ {h} : /\ Open(g)' <=> Open(g)
                                /\ Keyed(g)' <=> Keyed(g)
                                /\ Writes(g)' <=> Writes(g)
  BY <1>2 DEF Open, Keyed, Writes
<1>5. /\ Keyed(h)' => c.type \in {"record", "quarantine"}
      /\ Writes(h)' => c.type = "record" /\ Decide(c) \in {"record", "hold"}
  BY <1>2, <1>3 DEF Keyed, Writes
<1>6. Shaped'
  <2>1. tx'[Worker].pc = "hint" => \E r \in Rounds : tx'[Worker].cmd = CompleteCommand(r)
    BY <1>2, <1>3 DEF IInv, Shaped, Handlers
  <2> QED
    BY <1>1, <1>2, <2>1 DEF IInv, Shaped
<1>7. DecisionKinds'
  BY <1>2, <1>3, <1>4, KnownFacts, DecideKinds DEF IInv, DecisionKinds
<1>8. Writes(h)' => /\ Key(c) \notin ledger /\ c.room \in Slots
                    /\ slot[c.room] = "assigned" /\ advancement[c.room] = <<>>
  BY <1>5, DecideRecord DEF IInv, Shaped
<1>9. DecisionHolds'
  BY <1>1, <1>2, <1>3, <1>4, <1>8 DEF IInv, DecisionHolds
<1>10. ASSUME NEW g \in Handlers \ {h}, Open(g)
       PROVE  /\ Keyed(g) /\ Keyed(h)' => Key(tx[g].cmd) # Key(c)
              /\ Writes(g) /\ Writes(h)' => tx[g].cmd.room # c.room
  <2>1. LocksOf(tx[g].cmd) \cap LocksOf(c) = {}
    BY <1>1, <1>10 DEF LocksFree
  <2>2. Keyed(g) /\ Keyed(h)' => Key(tx[g].cmd) # Key(c)
    BY <1>5, <2>1, LocksTaken DEF Keyed, Key
  <2>3. Writes(g) /\ Writes(h)' => tx[g].cmd.room # c.room
    <3>1. Writes(g) => tx[g].cmd.type = "record" /\ Assigned(tx[g].cmd.room)
      BY DEF IInv, DecisionHolds, Writes, Assigned
    <3>2. Writes(h)' => c.type = "record" /\ Assigned(c.room)
      BY <1>5, <1>8 DEF Assigned
    <3> QED
      BY <2>1, <3>1, <3>2, LocksTaken
  <2> QED
    BY <2>2, <2>3
<1>11. Apart'
  <2>1. \A g \in Handlers : (Keyed(g) \/ Writes(g)) => Open(g)
    BY DEF Keyed, Writes
  <2>2. ASSUME NEW g \in Handlers, NEW f \in Handlers, g # f
        PROVE  /\ Keyed(g)' /\ Keyed(f)' => Key(tx'[g].cmd) # Key(tx'[f].cmd)
               /\ Writes(g)' /\ Writes(f)' => tx'[g].cmd.room # tx'[f].cmd.room
    <3>1. CASE g # h /\ f # h
      BY <1>2, <1>4, <2>2, <3>1 DEF IInv, Apart
    <3>2. CASE g = h
      BY <1>2, <1>3, <1>4, <1>10, <2>1, <2>2, <3>2
    <3>3. CASE f = h
      BY <1>2, <1>3, <1>4, <1>10, <2>1, <2>2, <3>3
    <3> QED
      BY <3>1, <3>2, <3>3
  <2> QED
    BY <2>2 DEF Apart, Key
<1>12. SentIsResolved' /\ UnopenedIsEmpty' /\ InOrder'
  BY <1>1 DEF IInv, SentIsResolved, Resolved, UnopenedIsEmpty, InOrder
<1> QED
  BY <1>1, <1>6, <1>7, <1>9, <1>11, <1>12 DEF IInv, Stands

-----------------------------------------------------------------------------
(* Carrying the decision out                                               *)

\* The end of the transaction of h.
Ends(h) ==
    /\ \E P : tx' \in [Handlers -> P]
    /\ tx'[h].pc \notin {"open", "hint"}
    /\ \A g \in Handlers \ {h} : tx'[g] = tx[g]
    /\ offset' \in [Partitions -> Nat]

LEMMA EndsLeaves ==
    ASSUME IInv, NEW h \in Handlers, Ends(h)
    PROVE  /\ TxLeaves
           /\ \A g \in Handlers : Writes(g)' => g # h /\ tx'[g] = tx[g] /\ Writes(g)
BY DEF Ends, TxLeaves, Writes, Open

LEMMA LedgerKeeps ==
    ASSUME IInv, NEW h \in Handlers, Ends(h), Keyed(h),
           ledger' = ledger \cup {Key(tx[h].cmd)},
           \/ UNCHANGED result
           \/ \E fp : result' = [result EXCEPT ![Key(tx[h].cmd)] = [disposition |-> "quarantined", fp |-> fp]],
           UNCHANGED <<round, slot, advancement>>
    PROVE  IInv' /\ Stands
<1> DEFINE k == Key(tx[h].cmd)
<1>1. TxLeaves /\ \A g \in Handlers : Writes(g)' => g # h /\ tx'[g] = tx[g] /\ Writes(g)
  BY EndsLeaves
<1>2. (\E P : result' \in [Keys -> P]) /\ \A j \in Keys : result'[j] # result[j] => result'[j].disposition = "quarantined"
  <2>1. PICK P : result \in [Keys -> P]
    BY DEF IInv, Shaped
  <2>2. CASE UNCHANGED result
    BY <2>1, <2>2
  <2>3. ASSUME NEW fp, result' = [result EXCEPT ![k] = [disposition |-> "quarantined", fp |-> fp]]
        PROVE  /\ result' \in [Keys -> P \cup {[disposition |-> "quarantined", fp |-> fp]}]
               /\ \A j \in Keys : result'[j] # result[j] => result'[j].disposition = "quarantined"
    BY <2>1, <2>3
  <2> QED
    BY <2>2, <2>3
<1>3. Shaped'
  BY <1>1, <1>2, LeavesFacts DEF IInv, Shaped, TxLeaves
<1>4. DecisionHolds'
  <2>1. ASSUME NEW g \in Handlers, Writes(g)'
        PROVE  tx'[g] = tx[g] /\ Writes(g) /\ Key(tx[g].cmd) # k
    BY <1>1, <2>1 DEF IInv, Apart, Keyed, Writes
  <2> QED
    BY <2>1 DEF IInv, DecisionHolds
<1>5. SentIsResolved' /\ UnopenedIsEmpty' /\ InOrder'
  BY DEF IInv, SentIsResolved, Resolved, UnopenedIsEmpty, InOrder
<1> QED
  BY <1>1, <1>2, <1>3, <1>4, <1>5, LeavesFacts DEF IInv, Stands

\* A round changes its status and nothing else.
WithStatus(q, status) == [round EXCEPT ![q].status = status]

LEMMA StatusChanged ==
    ASSUME NEW P, round \in [Rounds -> RoundRows(P)], NEW q \in Rounds, NEW status \in RoundStatuses
    PROVE  /\ WithStatus(q, status) \in [Rounds -> RoundRows(P)]
           /\ WithStatus(q, status)[q].status = status
           /\ \A r \in Rounds \ {q} : WithStatus(q, status)[r] = round[r]
<1> DEFINE row == [round[q] EXCEPT !.status = status]
<1>1. round[q] \in RoundRows(P)
  OBVIOUS
<1>2. row \in RoundRows(P) /\ row.status = status
  BY <1>1 DEF RoundRows
<1>3. WithStatus(q, status) = [round EXCEPT ![q] = row]
  BY DEF WithStatus
<1> HIDE DEF row
<1> QED
  BY <1>2, <1>3

\* A slot that had no result gets one, or is held.
LEMMA SlotWrittenKeeps ==
    ASSUME IInv, NEW h \in Handlers, Ends(h), Writes(h),
           NEW status \in SlotStatuses \ {"none", "assigned"}, NEW players,
           LET c == tx[h].cmd IN
               /\ slot' = [slot EXCEPT ![c.room] = status]
               /\ advancement' = [advancement EXCEPT ![c.room] = players]
               /\ players # <<>> => status \in {"advanced", "result_recorded"}
               /\ \/ round' = round
                  \/ /\ round[c.room[1]].status # "completed"
                     /\ round' = [round EXCEPT ![c.room[1]].status = "blocked"],
           \E P : result' \in [Keys -> P],
           \A k \in Keys : k \in ledger /\ result'[k] # result[k] => result'[k].disposition = "quarantined",
           \A k \in ledger' : k \in ledger \/ k = Key(tx[h].cmd)
    PROVE  IInv' /\ Stands
<1> DEFINE c == tx[h].cmd
<1>1. /\ TxLeaves
      /\ \A g \in Handlers : Writes(g)' => g # h /\ tx'[g] = tx[g] /\ Writes(g)
  BY EndsLeaves
<1>2. /\ c.room \in Slots /\ slot[c.room] = "assigned" /\ advancement[c.room] = <<>>
      /\ c.room[1] \in Rounds
  BY DEF IInv, DecisionHolds, Slots
<1> PICK P : round \in [Rounds -> RoundRows(P)]
  BY DEF IInv, Shaped
<1>3. /\ round' \in [Rounds -> RoundRows(P)]
      /\ \A r \in Rounds : \/ round'[r] = round[r]
                           \/ r = c.room[1] /\ round[r].status # "completed" /\ round'[r].status = "blocked"
  <2>1. CASE round' = round
    BY <2>1
  <2>2. CASE /\ round[c.room[1]].status # "completed"
             /\ round' = [round EXCEPT ![c.room[1]].status = "blocked"]
    <3>1. "blocked" \in RoundStatuses
      BY DEF RoundStatuses
    <3>2. /\ round' \in [Rounds -> RoundRows(P)]
          /\ round'[c.room[1]].status = "blocked" /\ \A r \in Rounds \ {c.room[1]} : round'[r] = round[r]
      BY <1>2, <2>2, <3>1, StatusChanged DEF WithStatus
    <3> QED
      BY <2>2, <3>2
  <2> QED
    BY <2>1, <2>2
<1>4. /\ slot' \in [Slots -> SlotStatuses]
      /\ \A s \in Slots : slot'[s] = IF s = c.room THEN status ELSE slot[s]
  BY DEF IInv, Shaped
<1>5. /\ \E Q : advancement' \in [Slots -> Q]
      /\ \A s \in Slots : advancement'[s] = IF s = c.room THEN players ELSE advancement[s]
  <2>1. PICK Q : advancement \in [Slots -> Q]
    BY DEF IInv, Shaped
  <2>2. advancement' \in [Slots -> Q \cup {players}]
    BY <2>1
  <2> QED
    BY <2>1, <2>2
<1>6. Shaped'
  BY <1>1, <1>3, <1>4, <1>5, LeavesFacts DEF IInv, Shaped, TxLeaves
<1>7. DecisionHolds'
  <2>1. ASSUME NEW g \in Handlers, Writes(g)'
        PROVE  /\ tx'[g] = tx[g] /\ Writes(g) /\ tx[g].cmd.room # c.room
               /\ Key(tx[g].cmd) # Key(c)
    BY <1>1, <2>1 DEF IInv, Apart, Keyed, Writes
  <2>2. ASSUME NEW g \in Handlers, Writes(g)'
        PROVE  /\ Key(tx[g].cmd) \notin ledger' /\ tx[g].cmd.room \in Slots
               /\ slot'[tx[g].cmd.room] = "assigned" /\ advancement'[tx[g].cmd.room] = <<>>
    BY <1>4, <1>5, <2>1, <2>2 DEF IInv, DecisionHolds
  <2> QED
    BY <2>1, <2>2 DEF DecisionHolds, Key
<1>8. SentIsResolved'
  BY <1>4, <1>5 DEF IInv, SentIsResolved, Resolved
<1>9. UnopenedIsEmpty'
  BY <1>2, <1>3, <1>4 DEF IInv, UnopenedIsEmpty, Slots
<1>10. InOrder'
  <2>1. ASSUME NEW r \in Rounds, round[r].status = "none", r = c.room[1] PROVE FALSE
    BY <1>2, <2>1 DEF IInv, UnopenedIsEmpty
  <2> QED
    BY <1>3, <2>1 DEF IInv, InOrder
<1>11. Stands
  BY <1>2, <1>4, <1>5, EmptyHasNoLength DEF Stands
<1> QED
  BY <1>1, <1>6, <1>7, <1>8, <1>9, <1>10, <1>11, LeavesFacts DEF IInv

LEMMA RecordKeeps ==
    ASSUME IInv, NEW h \in Handlers, Ends(h), Writes(h), RecordResult(tx[h].cmd)
    PROVE  IInv' /\ Stands
<1> DEFINE c == tx[h].cmd
           status == IF round[c.room[1]].final THEN "result_recorded" ELSE "advanced"
           entry == [disposition |-> "recorded", fp |-> Fingerprint(c)]
<1>1. /\ result' = [result EXCEPT ![Key(c)] = entry]
      /\ advancement' = [advancement EXCEPT ![c.room] = Advancing(c)]
      /\ slot' = [slot EXCEPT ![c.room] = status]
      /\ UNCHANGED <<round, ledger>>
  BY DEF RecordResult
<1>2. Key(c) \notin ledger
  BY DEF IInv, DecisionHolds
<1>3. /\ \E P : result' \in [Keys -> P]
      /\ \A k \in Keys : k \in ledger /\ result'[k] # result[k] => result'[k].disposition = "quarantined"
  <2>1. PICK P : result \in [Keys -> P]
    BY DEF IInv, Shaped
  <2>2. result' \in [Keys -> P \cup {entry}]
    BY <1>1, <2>1
  <2> QED
    BY <1>1, <1>2, <2>1, <2>2
<1>4. status \in {"advanced", "result_recorded"} /\ status \in SlotStatuses \ {"none", "assigned"}
  BY DEF SlotStatuses
<1> HIDE DEF status, entry
<1> QED
  BY <1>1, <1>3, <1>4, SlotWrittenKeeps

LEMMA HoldKeeps ==
    ASSUME IInv, NEW h \in Handlers, Ends(h), Writes(h), HoldSlot(tx[h].cmd)
    PROVE  IInv' /\ Stands
<1> DEFINE c == tx[h].cmd
           entry == [disposition |-> "quarantined", fp |-> Fingerprint(c)]
<1>1. /\ ledger' = ledger \cup {Key(c)}
      /\ result' = [result EXCEPT ![Key(c)] = entry]
      /\ slot' = [slot EXCEPT ![c.room] = "quarantined"]
      /\ BlockRound(c.room[1]) /\ advancement' = advancement
  BY DEF HoldSlot
<1>2. c.room \in Slots /\ advancement[c.room] = <<>>
  BY DEF IInv, DecisionHolds
<1>3. /\ \E P : result' \in [Keys -> P]
      /\ \A k \in Keys : k \in ledger /\ result'[k] # result[k] => result'[k].disposition = "quarantined"
  <2>1. PICK P : result \in [Keys -> P]
    BY DEF IInv, Shaped
  <2>2. result' \in [Keys -> P \cup {entry}]
    BY <1>1, <2>1
  <2> QED
    BY <1>1, <2>1, <2>2
<1>4. advancement' = [advancement EXCEPT ![c.room] = <<>>]
  BY <1>1, <1>2 DEF IInv, Shaped
<1>5. \/ round' = round
      \/ /\ round[c.room[1]].status # "completed"
         /\ round' = [round EXCEPT ![c.room[1]].status = "blocked"]
  BY <1>1 DEF BlockRound
<1>6. "quarantined" \in SlotStatuses \ {"none", "assigned"}
  BY DEF SlotStatuses
<1> HIDE DEF entry
<1> QED
  BY <1>1, <1>3, <1>4, <1>5, <1>6, SlotWrittenKeeps

LEMMA CompleteKeeps ==
    ASSUME IInv, NEW h \in Handlers, Ends(h), Open(h), tx[h].cmd.type = "complete", CompleteRound(tx[h].cmd)
    PROVE  IInv' /\ Stands
<1> DEFINE q == tx[h].cmd.round
           p == RemainingPlayers(q)
           new == [status |-> "pending", final |-> ComputeRoundSlotPlan(p).final, players |-> p]
<1>1. /\ round[q].status = "in_progress" /\ q \in Rounds
      /\ UNCHANGED <<slot, result, ledger, advancement>>
      /\ \/ round' = [round EXCEPT ![q].status = "completed"]
         \/ round' = [round EXCEPT ![q].status = "completed", ![q + 1] = new]
  BY DEF CompleteRound, InsertNextRoundSeeding, IInv, DecisionKinds
<1>2. TxLeaves
  BY EndsLeaves
<1>3. new \in RoundRows({p}) /\ new.status = "pending"
  BY DEF ComputeRoundSlotPlan, RoundStatuses, RoundRows
<1> HIDE DEF new
<1>4. q + 1 \in Rounds => round[q + 1].status = "none" /\ q + 1 # q
  BY <1>1 DEF IInv, InOrder, Rounds
<1> PICK P : round \in [Rounds -> RoundRows(P)]
  BY DEF IInv, Shaped
<1> DEFINE Q == P \cup {p}
<1>5. /\ round' \in [Rounds -> RoundRows(Q)]
      /\ round'[q].status = "completed"
      /\ \A r \in Rounds \ {q} : round'[r].status = round[r].status \/ (r = q + 1 /\ round'[r].status = "pending")
  <2>2. round \in [Rounds -> RoundRows(P \cup {p})]
    BY DEF RoundRows
  <2>3. new \in RoundRows(P \cup {p})
    BY <1>3 DEF RoundRows
  <2> HIDE DEF Q
  <2> DEFINE done == WithStatus(q, "completed")
  <2>4. /\ done \in [Rounds -> RoundRows(Q)]
        /\ done[q].status = "completed" /\ \A r \in Rounds \ {q} : done[r] = round[r]
    <3>1. "completed" \in RoundStatuses
      BY DEF RoundStatuses
    <3>2. round \in [Rounds -> RoundRows(Q)] /\ q \in Rounds
      BY <1>1, <2>2 DEF Q
    <3> QED
      BY <3>1, <3>2, StatusChanged
  <2>5. round' = done \/ round' = [done EXCEPT ![q + 1] = new]
    BY <1>1 DEF WithStatus
  <2> DEFINE next == q + 1
  <2>6. round' = done \/ round' = [done EXCEPT ![next] = new]
    BY <2>5
  <2>7. next \in Rounds => next # q
    BY <1>4
  <2> HIDE DEF done, next
  <2>8. /\ round' \in [Rounds -> RoundRows(Q)]
        /\ round'[q].status = "completed"
        /\ \A r \in Rounds \ {q} : round'[r] = round[r] \/ (r = next /\ round'[r] = new)
    <3>1. new \in RoundRows(Q)
      BY <2>3 DEF Q
    <3>2. q \in Rounds
      BY <1>1
    <3> QED
      BY ONLY <2>4, <2>6, <2>7, <3>1, <3>2
  <2> QED
    BY <1>3, <2>8 DEF next
<1>6. Shaped' /\ DecisionHolds' /\ SentIsResolved'
  <2>1. Shaped'
    BY <1>1, <1>2, <1>5, LeavesFacts DEF IInv, Shaped, TxLeaves
  <2>2. DecisionHolds'
    BY <1>1, <1>2, LeavesFacts DEF IInv, DecisionHolds
  <2>3. SentIsResolved'
    BY <1>1 DEF IInv, SentIsResolved, Resolved
  <2> QED
    BY <2>1, <2>2, <2>3
<1>7. UnopenedIsEmpty'
  <2>1. ASSUME NEW s \in Slots, slot[s] # "none", s[1] = q + 1, s[1] \in Rounds PROVE FALSE
    BY <1>4, <2>1 DEF IInv, UnopenedIsEmpty
  <2>2. \A s \in Slots : s[1] \in Rounds
    BY DEF Slots
  <2> QED
    BY <1>1, <1>5, <2>1, <2>2 DEF IInv, UnopenedIsEmpty
<1>8. InOrder'
  <2>1. SUFFICES ASSUME NEW r \in Rounds, round'[r].status # "completed", r + 1 \in Rounds
                 PROVE  round'[r + 1].status = "none"
    BY DEF InOrder
  <2>2. r # q /\ round[r].status # "completed"
    BY <1>4, <1>5, <2>1
  <2>3. round[r + 1].status = "none"
    BY <2>1, <2>2 DEF IInv, InOrder
  <2>4. r + 1 # q
    BY <1>1, <2>3
  <2>5. r + 1 # q + 1
    BY <1>1, <2>1, <2>2 DEF Rounds
  <2> QED
    BY <1>5, <2>1, <2>3, <2>4, <2>5
<1> QED
  BY <1>1, <1>2, <1>6, <1>7, <1>8, LeavesFacts DEF IInv, Stands

LEMMA CommitKeeps ==
    ASSUME IInv, NEW h \in Handlers, Ends(h), Commit(h) PROVE IInv' /\ Stands
<1> DEFINE c == tx[h].cmd
<1>1. Open(h) /\ Apply(c, tx[h].decision)
  BY DEF Commit
<1>2. CASE c.type = "record" /\ tx[h].decision = "record" /\ RecordResult(c)
  BY <1>1, <1>2, RecordKeeps DEF Writes
<1>3. CASE c.type = "record" /\ tx[h].decision = "hold" /\ HoldSlot(c)
  BY <1>1, <1>3, HoldKeeps DEF Writes
<1>4. CASE tx[h].decision \in {"conflict", "stray", "ledger_only"} /\ InsertQuarantineLedger(c)
  <2>1. c.type \in {"record", "quarantine"}
    BY <1>1, <1>4 DEF IInv, DecisionKinds
  <2>2. Keyed(h)
    BY <1>1, <2>1 DEF Keyed
  <2>3. ledger' = ledger \cup {Key(c)} /\ UNCHANGED <<result, round, slot, advancement>>
    BY <1>4 DEF InsertQuarantineLedger
  <2> QED
    BY <2>2, <2>3, LedgerKeeps
<1>5. CASE tx[h].decision = "insert_quarantined" /\ InsertQuarantined(c)
  <2>1. c.type \in {"record", "quarantine"}
    BY <1>1, <1>5 DEF IInv, DecisionKinds
  <2>2. Keyed(h)
    BY <1>1, <2>1 DEF Keyed
  <2>3. /\ ledger' = ledger \cup {Key(c)} /\ UNCHANGED <<round, slot, advancement>>
        /\ \E fp : result' = [result EXCEPT ![Key(c)] = [disposition |-> "quarantined", fp |-> fp]]
    BY <1>5 DEF InsertQuarantined
  <2> QED
    BY <2>2, <2>3, LedgerKeeps
<1>6. CASE c.type = "complete" /\ tx[h].decision = "success" /\ CompleteRound(c)
  BY <1>1, <1>6, CompleteKeeps
<1>7. CASE CancelTournament
  <2>1. TxLeaves /\ UNCHANGED <<round, slot, result, ledger, advancement>>
    BY <1>7, EndsLeaves DEF CancelTournament
  <2>2. Shaped' /\ DecisionHolds'
    <3>1. Shaped'
      BY <2>1, LeavesFacts DEF IInv, Shaped, TxLeaves
    <3>2. DecisionHolds'
      BY <2>1, LeavesFacts DEF IInv, DecisionHolds
    <3> QED
      BY <3>1, <3>2
  <2>3. SentIsResolved' /\ UnopenedIsEmpty' /\ InOrder'
    BY <2>1 DEF IInv, SentIsResolved, Resolved, UnopenedIsEmpty, InOrder
  <2> QED
    BY <2>1, <2>2, <2>3, LeavesFacts DEF IInv, Stands
<1>8. CASE UNCHANGED Tables
  BY <1>8, EndsLeaves, AsideKeeps
<1> QED
  BY <1>1, <1>2, <1>3, <1>4, <1>5, <1>6, <1>7, <1>8 DEF Apply

-----------------------------------------------------------------------------
(* A round opens                                                           *)

LEMMA OpenRoundKeeps == ASSUME IInv, NEW q \in Rounds, OpenNextRound(q) PROVE IInv' /\ Stands
<1> PICK P : round \in [Rounds -> RoundRows(P)]
  BY DEF IInv, Shaped
<1>1. /\ round[q].status = "pending" /\ round' = WithStatus(q, "in_progress")
      /\ UNCHANGED <<result, ledger, advancement, tx, offset>>
  BY DEF OpenNextRound, WithStatus, consumer
<1>2. PICK slots : slot' = [s \in Slots |-> IF s \in {q} \X slots THEN "assigned" ELSE slot[s]]
  BY DEF OpenNextRound
<1>3. "in_progress" \in RoundStatuses /\ "assigned" \in SlotStatuses
  BY DEF RoundStatuses, SlotStatuses
<1>4. /\ round' \in [Rounds -> RoundRows(P)]
      /\ round'[q].status = "in_progress" /\ \A r \in Rounds \ {q} : round'[r] = round[r]
  BY <1>1, <1>3, StatusChanged
<1>5. /\ slot' \in [Slots -> SlotStatuses]
      /\ \A s \in Slots : slot[s] # "none" => s[1] # q
      /\ \A s \in Slots : slot'[s] # slot[s] => s[1] = q /\ slot'[s] = "assigned"
  BY <1>1, <1>2, <1>3 DEF IInv, Shaped, UnopenedIsEmpty
<1>6. TxLeaves
  BY <1>1 DEF TxLeaves, IInv, Shaped
<1>7. Shaped'
  BY <1>1, <1>4, <1>5, LeavesFacts DEF IInv, Shaped
<1>8. DecisionHolds'
  <2>1. ASSUME NEW g \in Handlers, Writes(g)'
        PROVE  /\ tx'[g] = tx[g] /\ Key(tx[g].cmd) \notin ledger /\ tx[g].cmd.room \in Slots
               /\ slot[tx[g].cmd.room] = "assigned" /\ advancement[tx[g].cmd.room] = <<>>
    BY <1>6, <2>1, LeavesFacts DEF IInv, DecisionHolds
  <2> QED
    BY <1>1, <1>5, <2>1 DEF DecisionHolds, Key
<1>9. SentIsResolved'
  <2>1. \A s \in Slots : advancement[s] # <<>> => slot[s] \in {"advanced", "result_recorded"}
    BY DEF IInv, SentIsResolved, Resolved
  <2>2. \A s \in Slots : slot[s] \in {"advanced", "result_recorded"} => slot'[s] = slot[s]
    BY <1>5
  <2> QED
    BY <1>1, <2>1, <2>2 DEF SentIsResolved, Resolved
<1>10. UnopenedIsEmpty'
  <2>1. \A s \in Slots : s[1] \in Rounds
    BY DEF Slots
  <2> QED
    BY <1>4, <1>5, <2>1 DEF IInv, UnopenedIsEmpty
<1>11. InOrder'
  <2>1. SUFFICES ASSUME NEW r \in Rounds, round'[r].status # "completed", r + 1 \in Rounds
                 PROVE  round'[r + 1].status = "none"
    BY DEF InOrder
  <2>2. round[r].status # "completed"
    BY <1>1, <1>4, <2>1
  <2>3. round[r + 1].status = "none"
    BY <2>1, <2>2 DEF IInv, InOrder
  <2>4. r + 1 # q
    BY <1>1, <2>3
  <2> QED
    BY <1>4, <2>1, <2>3, <2>4
<1>12. Stands
  <2>1. \A s \in Slots : Len(advancement[s]) > 0 => slot[s] \in {"advanced", "result_recorded"}
    BY EmptyHasNoLength DEF IInv, SentIsResolved, Resolved
  <2> QED
    BY <1>1, <1>5, <2>1 DEF Stands
<1> QED
  BY <1>6, <1>7, <1>8, <1>9, <1>10, <1>11, <1>12, LeavesFacts DEF IInv

-----------------------------------------------------------------------------
(* Every step                                                              *)

LEMMA Initialization == Init => IInv
<1> SUFFICES ASSUME Init PROVE IInv
  OBVIOUS
<1>1. \A h \in Handlers : tx[h].pc = "idle"
  BY DEF Init, Idle
<1>2. Shaped
  <2>1. round \in [Rounds -> RoundRows({0})]
    BY DEF Init, RoundRows, RoundStatuses
  <2>2. slot \in [Slots -> SlotStatuses]
    BY DEF Init, SlotStatuses
  <2>3. advancement \in [Slots -> {<<>>}] /\ result \in [Keys -> {Nothing}] /\ tx \in [Handlers -> {Idle}]
    BY DEF Init
  <2>4. offset \in [Partitions -> Nat]
    BY DEF Init
  <2>5. tx[Worker].pc # "hint"
    BY <1>1 DEF Handlers
  <2> QED
    BY <2>1, <2>2, <2>3, <2>4, <2>5 DEF Shaped
<1>3. DecisionKinds /\ Apart /\ DecisionHolds
  BY <1>1 DEF DecisionKinds, Apart, DecisionHolds, Keyed, Writes, Open
<1>4. SentIsResolved
  BY DEF Init, SentIsResolved
<1>5. UnopenedIsEmpty
  <2>1. \A s \in Slots : slot[s] # "none" => s[1] = 1
    BY DEF Init
  <2>2. \A s \in Slots : s[1] \in Rounds
    BY DEF Slots
  <2>3. 1 \in Rounds => round[1].status = "in_progress"
    BY DEF Init
  <2> QED
    BY <2>1, <2>2, <2>3 DEF UnopenedIsEmpty
<1>6. InOrder
  <2>1. \A r \in Rounds : r # 1 => round[r].status = "none"
    BY DEF Init
  <2>2. \A r \in Rounds : r + 1 # 1
    BY DEF Rounds
  <2> QED
    BY <2>1, <2>2 DEF InOrder
<1> QED
  BY <1>2, <1>3, <1>4, <1>5, <1>6 DEF IInv

\* One handler is set to something that is not an open transaction.
LEMMA EndsWhenSet ==
    ASSUME IInv, NEW h \in Handlers, NEW new, new.pc \notin {"open", "hint"}, tx' = [tx EXCEPT ![h] = new],
           offset' \in [Partitions -> Nat]
    PROVE  Ends(h) /\ TxLeaves
<1>1. PICK P : tx \in [Handlers -> P]
  BY DEF IInv, Shaped
<1>2. tx' \in [Handlers -> P \cup {new}]
  BY <1>1
<1> QED
  BY <1>1, <1>2 DEF Ends, TxLeaves

LEMMA IdleFacts ==
    /\ Idle.pc = "idle" /\ [Idle EXCEPT !.pc = "answered"].pc = "answered"
    /\ Partitions \subseteq Handlers /\ Requests \subseteq Handlers /\ Worker \in Handlers
BY DEF Idle, Handlers

LEMMA StoreHoldsTables == UNCHANGED store => UNCHANGED Tables
BY DEF store, Tables

LEMMA RequestKeeps == ASSUME IInv, NEW h \in Requests, RequestStep(h) PROVE IInv' /\ Stands
<1> USE IdleFacts, StoreHoldsTables
<1>1. offset \in [Partitions -> Nat]
  BY DEF IInv, Shaped
<1>2. ASSUME NEW c \in Commands, SubmitCommand(h, c) PROVE IInv' /\ Stands
  <2>1. Known(c)
    BY DEF Known, AllCommands
  <2>2. ~Open(h) /\ Begin(h, c) /\ UNCHANGED Tables /\ UNCHANGED offset
    BY <1>2 DEF SubmitCommand, Open, consumer
  <2> QED
    BY <2>1, <2>2, BeginKeeps
<1>3. CASE FinishCommand(h)
  <2>1. Commit(h) /\ tx' = [tx EXCEPT ![h] = Idle] /\ UNCHANGED offset
    BY <1>3 DEF FinishCommand, consumer
  <2> QED
    BY <1>1, <2>1, EndsWhenSet, CommitKeeps
<1>4. CASE FailCommand(h)
  <2>1. tx' = [tx EXCEPT ![h] = Idle] /\ UNCHANGED offset /\ UNCHANGED Tables
    BY <1>4 DEF FailCommand, consumer
  <2> QED
    BY <1>1, <2>1, EndsWhenSet, AsideKeeps
<1> QED
  BY <1>2, <1>3, <1>4 DEF RequestStep

LEMMA RecordIsLogged ==
    ASSUME NEW p \in Partitions, offset[p] \in Nat, HasRecord(p) PROVE Record(p) \in Range(Log[p])
<1> DEFINE n == offset[p] + 1
<1>1. Log[p] \in Seq(Range(Log[p])) /\ n \in Nat /\ 1 <= n /\ n <= Len(Log[p])
  BY RoundResultsAssumption DEF HasRecord
<1> HIDE DEF n
<1>2. Log[p][n] \in Range(Log[p])
  BY <1>1
<1> QED
  BY <1>2 DEF Record, n

LEMMA ConsumerKeeps ==
    ASSUME IInv, NEW p \in Partitions, ConsumerStep(p) \/ FailIngest(p) PROVE IInv' /\ Stands
<1> USE IdleFacts, StoreHoldsTables
<1>1. offset \in [Partitions -> Nat]
  BY DEF IInv, Shaped
<1>2. CASE IngestMatchCompleted(p)
  <2>1. tx[p] = Idle /\ ~Open(p) /\ HasRecord(p) /\ UNCHANGED Tables /\ UNCHANGED offset
    BY <1>2 DEF IngestMatchCompleted, Open, consumer
  <2>2. CASE tx' = [tx EXCEPT ![p].pc = "answered"]
    <3>1. tx' = [tx EXCEPT ![p] = [Idle EXCEPT !.pc = "answered"]]
      BY <2>1, <2>2
    <3> QED
      BY <1>1, <2>1, <3>1, EndsWhenSet, AsideKeeps
  <2>3. CASE Begin(p, Record(p))
    <3>1. Record(p) \in Range(Log[p])
      BY <1>1, <2>1, RecordIsLogged
    <3>2. Known(Record(p))
      BY <3>1 DEF Known, AllCommands, Completions
    <3> QED
      BY <2>1, <2>3, <3>2, BeginKeeps
  <2> QED
    BY <1>2, <2>2, <2>3 DEF IngestMatchCompleted
<1>3. CASE FinishIngest(p)
  <2>1. Commit(p) /\ tx' = [tx EXCEPT ![p] = [Idle EXCEPT !.pc = "answered"]] /\ UNCHANGED offset
    BY <1>3 DEF FinishIngest, consumer
  <2> QED
    BY <1>1, <2>1, EndsWhenSet, CommitKeeps
<1>4. CASE CommitOffset(p)
  <2>1. /\ tx' = [tx EXCEPT ![p] = Idle] /\ UNCHANGED Tables
        /\ offset' = [offset EXCEPT ![p] = @ + 1]
    BY <1>4 DEF CommitOffset
  <2>2. offset' \in [Partitions -> Nat]
    BY <1>1, <2>1
  <2> QED
    BY <2>1, <2>2, EndsWhenSet, AsideKeeps
<1>5. CASE FailIngest(p)
  <2>1. /\ \/ tx' = [tx EXCEPT ![p] = Idle]
           \/ tx' = [tx EXCEPT ![p] = [Idle EXCEPT !.pc = "answered"]]
        /\ UNCHANGED Tables /\ UNCHANGED offset
    BY <1>5 DEF FailIngest, FailureToDLQ
  <2> QED
    BY <1>1, <2>1, EndsWhenSet, AsideKeeps
<1> QED
  BY <1>2, <1>3, <1>4, <1>5 DEF ConsumerStep

\* The worker remembers a round that looks ready.
LEMMA TickKeeps == ASSUME IInv, NEW r \in Rounds, Tick(r) PROVE IInv' /\ Stands
<1> DEFINE new == [pc |-> "hint", cmd |-> CompleteCommand(r), decision |-> "none"]
<1>1. /\ UNCHANGED <<round, slot, result, ledger, advancement, offset>>
      /\ tx' = [tx EXCEPT ![Worker] = new] /\ Worker \in Handlers
  BY DEF Tick, store, consumer, Handlers
<1>2. new.pc = "hint" /\ new.cmd = CompleteCommand(r)
  OBVIOUS
<1> HIDE DEF new
<1>3. /\ tx'[Worker] = new /\ \A g \in Handlers \ {Worker} : tx'[g] = tx[g]
      /\ \E P : tx' \in [Handlers -> P]
  <2>1. PICK P : tx \in [Handlers -> P]
    BY DEF IInv, Shaped
  <2>2. tx' \in [Handlers -> P \cup {new}]
    BY <1>1, <2>1
  <2> QED
    BY <1>1, <2>1, <2>2
<1>4. /\ \A g \in Handlers : Open(g)' => tx'[g] = tx[g] /\ Open(g)
      /\ \A g \in Handlers : Keyed(g)' => tx'[g] = tx[g] /\ Keyed(g)
      /\ \A g \in Handlers : Writes(g)' => tx'[g] = tx[g] /\ Writes(g)
  BY <1>2, <1>3 DEF Open, Keyed, Writes
<1>5. Shaped'
  BY <1>1, <1>2, <1>3 DEF IInv, Shaped
<1>6. DecisionKinds' /\ Apart'
  BY <1>4 DEF IInv, DecisionKinds, Apart
<1>7. DecisionHolds'
  BY <1>1, <1>4 DEF IInv, DecisionHolds
<1>8. SentIsResolved' /\ UnopenedIsEmpty' /\ InOrder'
  BY <1>1 DEF IInv, SentIsResolved, Resolved, UnopenedIsEmpty, InOrder
<1> QED
  BY <1>1, <1>5, <1>6, <1>7, <1>8 DEF IInv, Stands

LEMMA WorkerKeeps == ASSUME IInv, WorkerStep PROVE IInv' /\ Stands
<1> USE IdleFacts, StoreHoldsTables
<1>1. offset \in [Partitions -> Nat]
  BY DEF IInv, Shaped
<1>2. ASSUME NEW r \in Rounds, Tick(r) PROVE IInv' /\ Stands
  BY <1>2, TickKeeps
<1>3. CASE TryCompleteReadyRound
  <2>1. tx[Worker].pc = "hint" /\ UNCHANGED Tables /\ UNCHANGED offset
    BY <1>3 DEF TryCompleteReadyRound, consumer
  <2>2. CASE tx' = [tx EXCEPT ![Worker] = Idle]
    BY <1>1, <2>1, <2>2, EndsWhenSet, AsideKeeps
  <2>3. CASE Begin(Worker, tx[Worker].cmd)
    <3>1. Known(tx[Worker].cmd) /\ ~Open(Worker)
      BY <2>1 DEF IInv, Shaped, Known, Open
    <3> QED
      BY <2>1, <2>3, <3>1, BeginKeeps
  <2> QED
    BY <1>3, <2>2, <2>3 DEF TryCompleteReadyRound
<1>4. CASE FinishCompleteRound
  <2>1. tx' = [tx EXCEPT ![Worker] = Idle] /\ UNCHANGED offset /\ (Commit(Worker) \/ UNCHANGED Tables)
    BY <1>4 DEF FinishCompleteRound, consumer
  <2> QED
    BY <1>1, <2>1, EndsWhenSet, CommitKeeps, AsideKeeps
<1> QED
  BY <1>2, <1>3, <1>4 DEF WorkerStep

LEMMA StepKeeps == ASSUME IInv, [Next]_vars PROVE IInv' /\ Stands
<1>1. ASSUME NEW p \in Partitions, ConsumerStep(p) \/ FailIngest(p) PROVE IInv' /\ Stands
  BY <1>1, ConsumerKeeps
<1>2. ASSUME NEW h \in Requests, RequestStep(h) PROVE IInv' /\ Stands
  BY <1>2, RequestKeeps
<1>3. CASE WorkerStep
  BY <1>3, WorkerKeeps
<1>4. ASSUME NEW r \in Rounds, OpenNextRound(r) PROVE IInv' /\ Stands
  BY <1>4, OpenRoundKeeps
<1>5. ASSUME NEW h \in Handlers, Crash(h) PROVE IInv' /\ Stands
  <2>1. tx' = [tx EXCEPT ![h] = Idle] /\ UNCHANGED offset /\ UNCHANGED Tables
    BY <1>5, StoreHoldsTables DEF Crash
  <2>2. offset \in [Partitions -> Nat]
    BY DEF IInv, Shaped
  <2> QED
    BY <2>1, <2>2, IdleFacts, EndsWhenSet, AsideKeeps
<1>6. CASE UNCHANGED vars
  <2>1. TxLeaves /\ UNCHANGED Tables
    BY <1>6 DEF TxLeaves, IInv, Shaped, vars, store, consumer, Tables
  <2> QED
    BY <2>1, AsideKeeps
<1> QED
  BY <1>1, <1>2, <1>3, <1>4, <1>5, <1>6 DEF Next

-----------------------------------------------------------------------------
(* Results stand: what was quarantined by its key is never recorded later,
   and what a slot has sent on never changes, whatever is delivered again,
   submitted by hand or under way when a handler crashes. *)
THEOREM ResultsAreKept == Spec => ResultsStand
<1>1. IInv /\ [Next]_vars => IInv'
  BY StepKeeps
<1>2. IInv /\ [Next]_vars =>
        /\ [\A k \in Keys : (k \in ledger /\ result[k] # result'[k]) => result'[k].disposition = "quarantined"]_vars
        /\ [\A s \in Slots :
              Len(advancement[s]) > 0 => advancement'[s] = advancement[s] /\ slot'[s] = slot[s]]_vars
  BY StepKeeps DEF Stands
<1> QED
  BY <1>1, <1>2, Initialization, PTL DEF Spec, ResultsStand, QuarantineIsFinal, AdvancementStands

-----------------------------------------------------------------------------
(* The bracket                                                             *)

\* The tables have their types, and rows of advancing players are finite.
Sized ==
    /\ phase \in {"in_progress"} \cup Terminal
    /\ round \in [Rounds -> RoundRows(Nat)]
    /\ count \in [Rounds -> [ShardIds -> [assigned : Nat, resolved : Nat, quarantined : Nat, advancing : Nat]]]
    /\ \A s \in Slots : Len(advancement[s]) \in Nat
    /\ IsFiniteSet(advanced)

\* A shard counts all its assigned slots.
AssignedAreCounted ==
    \A r \in Rounds, h \in ShardIds :
        Cardinality({i \in InShard(SlotIndexes, h) : slot[<<r, i>>] # "none"}) <= count[r][h].assigned

\* A player advances from a round once.
SentOnce == \A x, y \in advanced : x.round = y.round /\ x.player = y.player => x = y

\* The announcements of the result of a slot: one as soon as it has one.
AnnouncementsOf(s) == {f \in outbox : f.fact = "result_recorded" /\ f.of = s}
Announced ==
    \A s \in Slots : IF Resolved(s) THEN \E f : AnnouncementsOf(s) = {f} ELSE AnnouncementsOf(s) = {}

\* All rounds before one that has come into being are completed.
RoundsInTurn == \A q, r \in Rounds : q < r /\ round[r].status # "none" => round[q].status = "completed"

\* The round after a completed one that is not the final.
NextRoundIsThere ==
    \A r \in Rounds : round[r].status = "completed" => round[r].final \/ r + 1 \in Rounds

BracketHolds ==
    /\ Sized /\ CountsAreSlots /\ AssignedAreCounted /\ SentOnce
    /\ CompletedIsWhole /\ QuarantinedBlocks /\ Announced /\ RoundsInTurn /\ NextRoundIsThere

\* h completes a round, or cancels the tournament, when it commits.
Completes(h) == Open(h) /\ tx[h].cmd.type = "complete" /\ tx[h].decision = "success"
Cancels(h) == Open(h) /\ tx[h].cmd.type = "cancel" /\ tx[h].decision = "success"

\* Who changes the bracket decided so while the tournament was running, and
\* it still is.
StillRunning == \A h \in Handlers : Writes(h) \/ Completes(h) \/ Cancels(h) => phase = "in_progress"

\* The exclusive barrier leaves no other transaction open.
Alone == \A g, h \in Handlers : g # h /\ Open(g) /\ Open(h) => ~Exclusive(tx[g].cmd)

\* The round that is completed is still as ready as it was, and nobody else
\* is about to change the bracket.
CompletionHolds ==
    \A h \in Handlers, r \in Rounds : Completes(h) /\ tx[h].cmd.round = r =>
        /\ RoundReady(r) /\ NoDrift(r)
        /\ \A g \in Handlers \ {h} : ~Writes(g) /\ ~Completes(g)

\* What a handler is at.
AtWork ==
    /\ ledger \subseteq Keys
    /\ outcome \in [Ids -> {"none", "accepted", "rejected"}]
    /\ attempts \in [Partitions -> 0 .. MaxAttempts - 1]
    /\ \A h \in Handlers : Open(h) => tx[h].cmd.id \in Ids /\ tx[h].decision # "none"
    /\ \A h \in Handlers : Writes(h) => tx[h].cmd \in AllCommands /\ ValidateStandings(tx[h].cmd)
    /\ \A p \in Partitions :
          /\ offset[p] \in 0 .. Len(Log[p])
          /\ tx[p].pc \in {"open", "answered"} => offset[p] < Len(Log[p])

WorkHolds == StillRunning /\ Alone /\ CompletionHolds /\ AtWork

BInv == IInv /\ BracketHolds /\ WorkHolds

-----------------------------------------------------------------------------
(* Sums                                                                    *)

LEMMA UnitsOf ==
    ASSUME NEW S, NEW f \in [S -> Nat]
    PROVE  \A x, i : <<x, i>> \in Units(f) <=> x \in S /\ i \in 1 .. f[x]
<1>1. ASSUME NEW x, NEW i, <<x, i>> \in Units(f) PROVE x \in S /\ i \in 1 .. f[x]
  <2>1. PICK y \in S : <<x, i>> \in {y} \X (1 .. f[y])
    BY <1>1 DEF Units
  <2> QED
    BY <2>1
<1>2. ASSUME NEW x \in S, NEW i \in 1 .. f[x] PROVE <<x, i>> \in Units(f)
  <2>1. <<x, i>> \in {x} \X (1 .. f[x])
    OBVIOUS
  <2> QED
    BY <2>1 DEF Units
<1> QED
  BY <1>1, <1>2

LEMMA UnitsArePairs == ASSUME NEW S, NEW f \in [S -> Nat] PROVE \A u \in Units(f) : u = <<u[1], u[2]>>
<1> SUFFICES ASSUME NEW u \in Units(f) PROVE u = <<u[1], u[2]>>
  OBVIOUS
<1>1. PICK y \in S : u \in {y} \X (1 .. f[y])
  BY DEF Units
<1> QED
  BY <1>1

\* A finite sum is a number.
LEMMA SumIsNat ==
    ASSUME NEW S, IsFiniteSet(S), NEW f \in [S -> Nat]
    PROVE  IsFiniteSet(Units(f)) /\ SumOf(f) \in Nat
<1> DEFINE Row(x) == {x} \X (1 .. f[x])
           AllRows == {Row(x) : x \in S}
           row == [x \in S |-> Row(x)]
<1>1. ASSUME NEW x \in S PROVE IsFiniteSet(Row(x))
  <2> DEFINE A == {x}
             B == 1 .. f[x]
  <2>1. f[x] \in Int /\ 1 \in Int
    OBVIOUS
  <2>2. IsFiniteSet(A) /\ IsFiniteSet(B)
    BY <2>1, FS_Singleton, FS_Interval
  <2> HIDE DEF A, B
  <2>3. IsFiniteSet(A \X B)
    BY <2>2, FS_Product
  <2> QED
    BY <2>3 DEF A, B
<1>2. IsFiniteSet(AllRows)
  <2>1. row \in Surjection(S, AllRows)
    BY DEF Surjection
  <2> HIDE DEF AllRows, row
  <2> QED
    BY <2>1, FS_Surjection
<1>3. \A R \in AllRows : IsFiniteSet(R)
  BY <1>1
<1>4. IsFiniteSet(UNION AllRows)
  <2> HIDE DEF AllRows
  <2> QED
    BY <1>2, <1>3, FS_UNION
<1>5. Units(f) = UNION AllRows
  BY DEF Units
<1> HIDE DEF AllRows
<1> QED
  BY <1>4, <1>5, FS_CardinalityType DEF SumOf

\* Of two sums the one with the smaller terms is equal only if all terms are.
LEMMA SumsAgree ==
    ASSUME NEW S, IsFiniteSet(S), NEW f \in [S -> Nat], NEW g \in [S -> Nat],
           \A x \in S : f[x] <= g[x], SumOf(f) = SumOf(g)
    PROVE  \A x \in S : f[x] = g[x]
<1>1. Units(f) \subseteq Units(g)
  <2> SUFFICES ASSUME NEW u \in Units(f) PROVE u \in Units(g)
    OBVIOUS
  <2>1. u = <<u[1], u[2]>>
    BY UnitsArePairs
  <2>2. u[1] \in S /\ u[2] \in 1 .. f[u[1]]
    BY <2>1, UnitsOf
  <2>3. u[2] \in 1 .. g[u[1]]
    BY <2>2
  <2> QED
    BY <2>1, <2>2, <2>3, UnitsOf
<1>2. IsFiniteSet(Units(g)) /\ IsFiniteSet(Units(f))
  BY SumIsNat
<1>3. Units(f) = Units(g)
  BY <1>1, <1>2, FS_Subset DEF SumOf
<1> SUFFICES ASSUME NEW x \in S, f[x] < g[x] PROVE FALSE
  OBVIOUS
<1>4. g[x] \in 1 .. g[x] /\ g[x] \notin 1 .. f[x]
  OBVIOUS
<1>5. <<x, g[x]>> \in Units(g)
  BY <1>4, UnitsOf
<1>6. <<x, g[x]>> \notin Units(f)
  BY <1>4, UnitsOf
<1> QED
  BY <1>3, <1>5, <1>6

\* A term that was zero.
LEMMA TermAdded ==
    ASSUME NEW S, IsFiniteSet(S), NEW f \in [S -> Nat], NEW g \in [S -> Nat],
           NEW x \in S, f[x] = 0, \A y \in S \ {x} : g[y] = f[y]
    PROVE  SumOf(g) = SumOf(f) + g[x]
<1> DEFINE A == {x}
           B == 1 .. g[x]
           New == A \X B
<1>1. \A u \in New : u = <<x, u[2]>> /\ u[2] \in 1 .. g[x]
  OBVIOUS
<1>2. \A i \in 1 .. g[x] : <<x, i>> \in New
  OBVIOUS
<1>3. IsFiniteSet(A) /\ IsFiniteSet(B) /\ Cardinality(A) = 1 /\ Cardinality(B) = g[x]
  <2>1. g[x] \in Nat /\ 1 \in Int /\ g[x] \in Int
    OBVIOUS
  <2>2. IsFiniteSet(1 .. g[x]) /\ Cardinality(1 .. g[x]) = IF 1 > g[x] THEN 0 ELSE g[x] - 1 + 1
    BY <2>1, FS_Interval
  <2>3. Cardinality(1 .. g[x]) = g[x]
    BY <2>1, <2>2
  <2> QED
    BY <2>2, <2>3, FS_Singleton
<1> HIDE DEF A, B
<1>4. IsFiniteSet(New) /\ Cardinality(New) = Cardinality(A) * Cardinality(B)
  BY <1>3, FS_Product
<1>5. Cardinality(New) = g[x]
  BY <1>3, <1>4
<1> HIDE DEF New
<1>6. Units(g) = Units(f) \cup New
  <2>1. ASSUME NEW u \in Units(g) PROVE u \in Units(f) \cup New
    <3>1. u = <<u[1], u[2]>> /\ u[1] \in S /\ u[2] \in 1 .. g[u[1]]
      BY UnitsArePairs, UnitsOf
    <3> QED
      BY <1>2, <3>1, UnitsOf
  <2>2. ASSUME NEW u \in Units(f) PROVE u \in Units(g)
    <3>1. u = <<u[1], u[2]>> /\ u[1] \in S /\ u[2] \in 1 .. f[u[1]]
      BY UnitsArePairs, UnitsOf
    <3>2. u[1] # x
      BY <3>1
    <3> QED
      BY <3>1, <3>2, UnitsOf
  <2>3. ASSUME NEW u \in New PROVE u \in Units(g)
    BY <1>1, UnitsOf
  <2> QED
    BY <2>1, <2>2, <2>3
<1>7. Units(f) \cap New = {}
  <2> SUFFICES ASSUME NEW u \in Units(f), u \in New PROVE FALSE
    OBVIOUS
  <2>1. <<x, u[2]>> \in Units(f)
    BY <1>1
  <2>2. u[2] \in 1 .. 0
    BY <2>1, UnitsOf
  <2> QED
    BY <2>2
<1>8. IsFiniteSet(Units(f)) /\ Cardinality(Units(f)) \in Nat
  BY SumIsNat DEF SumOf
<1>9. Cardinality(Units(f) \cup New) = Cardinality(Units(f)) + Cardinality(New) - Cardinality(Units(f) \cap New)
  BY <1>4, <1>8, FS_Union
<1>10. Cardinality(Units(g)) = Cardinality(Units(f)) + g[x]
  BY <1>5, <1>6, <1>7, <1>8, <1>9, FS_EmptySet
<1> QED
  BY <1>10 DEF SumOf

LEMMA SumOfZeros == ASSUME NEW S, NEW f \in [S -> Nat], \A x \in S : f[x] = 0 PROVE SumOf(f) = 0
<1>1. Units(f) = {}
  <2> SUFFICES ASSUME NEW u \in Units(f) PROVE FALSE
    OBVIOUS
  <2>1. u = <<u[1], u[2]>> /\ u[1] \in S /\ u[2] \in 1 .. f[u[1]]
    BY UnitsArePairs, UnitsOf
  <2> QED
    BY <2>1
<1> QED
  BY <1>1, FS_EmptySet DEF SumOf

-----------------------------------------------------------------------------
(* Shards, rounds and rows                                                 *)

LEMMA ShardFacts ==
    /\ IsFiniteSet(ShardIds)
    /\ \A h : IsFiniteSet(InShard(SlotIndexes, h))
    /\ \A i \in SlotIndexes : (i % Shards) \in ShardIds /\ i \in InShard(SlotIndexes, i % Shards)
    /\ \A s \in Slots : /\ s = <<s[1], s[2]>> /\ s[1] \in Rounds /\ s[2] \in SlotIndexes
                        /\ Shard(s) \in ShardIds /\ s[2] \in InShard(SlotIndexes, Shard(s))
    /\ \A r \in Rounds, i \in SlotIndexes : <<r, i>> \in Slots
    /\ \A h : \A i \in InShard(SlotIndexes, h) : i \in SlotIndexes /\ (i % Shards) = h
<1>1. IsFiniteSet(ShardIds)
  <2>1. 0 \in Int /\ Shards - 1 \in Int
    BY RoundResultsAssumption
  <2> QED
    BY <2>1, FS_Interval DEF ShardIds
<1>2. \A h : IsFiniteSet(InShard(SlotIndexes, h))
  <2>1. \A h : InShard(SlotIndexes, h) \in SUBSET SlotIndexes
    BY DEF InShard
  <2> QED
    BY <2>1, RoundResultsAssumption, FS_Subset
<1>3. ASSUME NEW i \in SlotIndexes PROVE (i % Shards) \in ShardIds /\ i \in InShard(SlotIndexes, i % Shards)
  <2>1. i \in Int /\ Shards \in Nat \ {0}
    <3>1. i \in 0 .. Cardinality(SlotIndexes) - 1
      BY RoundResultsAssumption
    <3>2. Cardinality(SlotIndexes) \in Nat
      BY RoundResultsAssumption, FS_CardinalityType
    <3>3. i \in Int
      BY <3>1, <3>2
    <3>4. Shards \in Nat \ {0}
      BY RoundResultsAssumption
    <3> QED
      BY <3>3, <3>4
  <2>2. (i % Shards) \in 0 .. Shards - 1
    BY <2>1
  <2> QED
    BY <2>2 DEF ShardIds, InShard
<1>4. \A s \in Slots : s = <<s[1], s[2]>> /\ s[1] \in Rounds /\ s[2] \in SlotIndexes
  BY DEF Slots
<1>5. \A r \in Rounds, i \in SlotIndexes : <<r, i>> \in Slots
  BY DEF Slots
<1>6. \A h : \A i \in InShard(SlotIndexes, h) : i \in SlotIndexes /\ (i % Shards) = h
  BY DEF InShard
<1> QED
  BY <1>1, <1>2, <1>3, <1>4, <1>5, <1>6 DEF Shard

\* Only one round is under way.
LEMMA OneRoundAtATime ==
    ASSUME RoundsInTurn, NEW q \in Rounds, NEW r \in Rounds,
           round[q].status \notin {"none", "completed"}, round[r].status \notin {"none", "completed"}
    PROVE  q = r
BY DEF RoundsInTurn, Rounds

\* A slot that waits for its result is of a round under way.
LEMMA AssignedIsLive ==
    ASSUME UnopenedIsEmpty, CompletedIsWhole, NEW s \in Slots, slot[s] = "assigned"
    PROVE  s[1] \in Rounds /\ round[s[1]].status \notin {"none", "pending", "completed"}
<1>1. s = <<s[1], s[2]>> /\ s[1] \in Rounds /\ s[2] \in SlotIndexes
  BY ShardFacts
<1>2. round[s[1]].status \notin {"none", "pending"}
  BY DEF UnopenedIsEmpty
<1>3. round[s[1]].status = "completed" => slot[<<s[1], s[2]>>] \in {"none", "advanced", "result_recorded"}
  BY <1>1 DEF CompletedIsWhole
<1> QED
  BY <1>1, <1>2, <1>3

\* What a ready round has counted is true of every slot.
LEMMA ReadyIsResolved ==
    ASSUME Sized, slot \in [Slots -> SlotStatuses], CountsAreSlots, AssignedAreCounted, NEW r \in Rounds, RoundReady(r)
    PROVE  \A i \in SlotIndexes : slot[<<r, i>>] \in {"none", "advanced", "result_recorded"}
<1> DEFINE resolved == [h \in ShardIds |-> count[r][h].resolved]
           assigned == [h \in ShardIds |-> count[r][h].assigned]
           Done(h) == {i \in InShard(SlotIndexes, h) : Resolved(<<r, i>>)}
           Given(h) == {i \in InShard(SlotIndexes, h) : slot[<<r, i>>] # "none"}
<1>1. resolved \in [ShardIds -> Nat] /\ assigned \in [ShardIds -> Nat]
  BY DEF Sized
<1>2. SumOf(resolved) = SumOf(assigned)
  BY DEF RoundReady, ResolvedCount, AssignedCount
<1>3. ASSUME NEW h \in ShardIds
      PROVE  /\ IsFiniteSet(Given(h)) /\ Done(h) \in SUBSET Given(h)
             /\ Cardinality(Done(h)) <= Cardinality(Given(h))
             /\ Cardinality(Done(h)) = Cardinality(Given(h)) => Done(h) = Given(h)
             /\ resolved[h] = Cardinality(Done(h)) /\ Cardinality(Given(h)) <= assigned[h]
             /\ Cardinality(Given(h)) \in Nat
  <2>1. Given(h) \in SUBSET InShard(SlotIndexes, h) /\ Done(h) \in SUBSET Given(h)
    BY DEF Resolved
  <2>2. IsFiniteSet(InShard(SlotIndexes, h))
    BY ShardFacts
  <2>3. resolved[h] = Cardinality(Done(h))
    BY DEF CountsAreSlots
  <2>4. Cardinality(Given(h)) <= assigned[h]
    BY DEF AssignedAreCounted
  <2> HIDE DEF Given, Done
  <2>5. IsFiniteSet(Given(h))
    BY <2>1, <2>2, FS_Subset
  <2>6. Cardinality(Done(h)) <= Cardinality(Given(h)) /\ (Cardinality(Given(h)) = Cardinality(Done(h)) => Given(h) = Done(h))
    BY <2>1, <2>5, FS_Subset
  <2> QED
    BY <2>1, <2>3, <2>4, <2>5, <2>6, FS_CardinalityType
<1>4. \A h \in ShardIds : resolved[h] <= assigned[h]
  <2> SUFFICES ASSUME NEW h \in ShardIds PROVE resolved[h] <= assigned[h]
    OBVIOUS
  <2>1. resolved[h] \in Nat /\ assigned[h] \in Nat
    BY <1>1
  <2> HIDE DEF resolved, assigned, Done, Given
  <2> QED
    BY <1>3, <2>1
<1>5. \A h \in ShardIds : resolved[h] = assigned[h]
  <2> HIDE DEF resolved, assigned
  <2> QED
    BY <1>1, <1>2, <1>4, ShardFacts, SumsAgree
<1>6. \A h \in ShardIds : Done(h) = Given(h)
  <2> SUFFICES ASSUME NEW h \in ShardIds PROVE Done(h) = Given(h)
    OBVIOUS
  <2>1. resolved[h] \in Nat /\ assigned[h] \in Nat /\ resolved[h] = assigned[h]
    BY <1>1, <1>5
  <2> HIDE DEF resolved, assigned, Done, Given
  <2> QED
    BY <1>3, <2>1
<1> SUFFICES ASSUME NEW i \in SlotIndexes, slot[<<r, i>>] # "none" PROVE slot[<<r, i>>] \in {"advanced", "result_recorded"}
  OBVIOUS
<1>7. i \in Given(i % Shards) /\ (i % Shards) \in ShardIds
  BY ShardFacts
<1>8. i \in Done(i % Shards)
  <2> HIDE DEF Done, Given
  <2> QED
    BY <1>6, <1>7
<1> QED
  BY <1>8 DEF Resolved

\* Every row of a round is of a player of its own.
LEMMA PlayersAreRows ==
    ASSUME SentOnce, IsFiniteSet(advanced), NEW r
    PROVE  /\ IsFiniteSet(NormalizedAdvancingPlayers(r))
           /\ Cardinality({row.player : row \in NormalizedAdvancingPlayers(r)}) = Cardinality(NormalizedAdvancingPlayers(r))
<1> DEFINE Rs == NormalizedAdvancingPlayers(r)
           Ps == {row.player : row \in Rs}
           f == [row \in Rs |-> row.player]
<1>1. Rs \in SUBSET advanced
  BY DEF NormalizedAdvancingPlayers
<1>2. \A x, y \in Rs : x.player = y.player => x = y
  BY DEF NormalizedAdvancingPlayers, SentOnce
<1>3. f \in Bijection(Rs, Ps)
  <2> HIDE DEF Rs
  <2> QED
    BY <1>2 DEF Bijection, Injection, Surjection, IsInjective
<1> HIDE DEF Rs, Ps, f
<1>4. IsFiniteSet(Rs)
  BY <1>1, FS_Subset
<1>5. Cardinality(Ps) = Cardinality(Rs)
  BY <1>3, <1>4, FS_Bijection DEF ExistsBijection
<1> QED
  BY <1>4, <1>5 DEF Rs, Ps

\* The players a result sends on: one after the other, each of them once.
LEMMA AdvancingFacts ==
    ASSUME NEW c \in AllCommands, c.type = "record", ValidateStandings(c)
    PROVE  /\ Len(Advancing(c)) \in Nat /\ DOMAIN Advancing(c) = 1 .. Len(Advancing(c))
           /\ \A i, j \in DOMAIN Advancing(c) : Advancing(c)[i] = Advancing(c)[j] => i = j
<1>1. /\ c.ranked \in Seq(Range(c.ranked)) /\ c.eligible \in 0 .. Len(c.ranked)
      /\ AdvancersPerMatch \in Nat
  BY RoundResultsAssumption DEF AllCommands, Completions
<1>2. /\ Len(c.ranked) \in Nat /\ DOMAIN c.ranked = 1 .. Len(c.ranked)
      /\ \A i, j \in DOMAIN c.ranked : c.ranked[i] = c.ranked[j] => i = j
  BY <1>1 DEF ValidateStandings, IsInjective
<1> DEFINE m == Min({c.eligible, AdvancersPerMatch})
<1>3. m \in 0 .. Len(c.ranked)
  <2>1. c.eligible \in Int /\ AdvancersPerMatch \in Int
    BY <1>1
  <2>2. \E x \in {c.eligible, AdvancersPerMatch} : \A y \in {c.eligible, AdvancersPerMatch} : x <= y
    BY <2>1
  <2>3. m \in {c.eligible, AdvancersPerMatch} /\ \A y \in {c.eligible, AdvancersPerMatch} : m <= y
    BY <2>2 DEF Min
  <2> HIDE DEF m
  <2> QED
    BY <1>1, <1>2, <2>1, <2>3
<1> HIDE DEF m
<1>4. /\ Len(SubSeq(c.ranked, 1, m)) = m /\ DOMAIN SubSeq(c.ranked, 1, m) = 1 .. m
      /\ \A i \in 1 .. m : SubSeq(c.ranked, 1, m)[i] = c.ranked[i]
  <2> DEFINE s == c.ranked
  <2>1. s \in Seq(Range(s)) /\ m \in 0 .. Len(s) /\ Len(s) \in Nat
    BY <1>1, <1>2, <1>3
  <2> HIDE DEF s
  <2>2. SubSeq(s, 1, m) = [i \in 1 .. m |-> s[i]]
    BY <2>1
  <2>3. SubSeq(s, 1, m) \in Seq(Range(s)) /\ Len(SubSeq(s, 1, m)) = m
    BY <2>1
  <2> QED
    BY <2>2, <2>3 DEF s
<1>5. CASE round[c.room[1]].final
  BY <1>2, <1>5 DEF Advancing
<1>6. CASE ~round[c.room[1]].final
  <2>1. Advancing(c) = SubSeq(c.ranked, 1, m)
    BY <1>6 DEF Advancing, TopThree, m
  <2>2. 1 .. m \subseteq DOMAIN c.ranked /\ m \in Nat
    BY <1>2, <1>3
  <2> HIDE DEF Advancing
  <2> DEFINE a == Advancing(c)
             b == c.ranked
  <2>3. Len(a) = m /\ DOMAIN a = 1 .. m /\ \A i \in 1 .. m : a[i] = b[i]
    BY <1>4, <2>1
  <2>4. \A i, j \in DOMAIN b : b[i] = b[j] => i = j
    BY <1>2
  <2>5. 1 .. m \subseteq DOMAIN b
    BY <2>2
  <2> HIDE DEF a, b
  <2>6. Len(a) \in Nat /\ DOMAIN a = 1 .. Len(a) /\ \A i, j \in DOMAIN a : a[i] = a[j] => i = j
    BY <2>2, <2>3, <2>4, <2>5
  <2> QED
    BY <2>6 DEF a
<1> QED
  BY <1>5, <1>6

LEMMA RowFacts ==
    ASSUME NEW c \in AllCommands, c.type = "record", ValidateStandings(c)
    PROVE  /\ IsFiniteSet(Rows(c)) /\ \A row \in Rows(c) : row.round = c.room[1]
           /\ \A x, y \in Rows(c) : x.player = y.player => x = y
<1> DEFINE a == Advancing(c)
           Row(i) == [round |-> c.room[1], player |-> a[i], slot |-> c.room[2], rank |-> i - 1]
           row == [i \in DOMAIN a |-> Row(i)]
<1>1. Len(a) \in Nat /\ DOMAIN a = 1 .. Len(a) /\ \A i, j \in DOMAIN a : a[i] = a[j] => i = j
  BY AdvancingFacts
<1>2. Rows(c) = {Row(i) : i \in DOMAIN a}
  BY DEF Rows
<1> HIDE DEF a
<1>3. IsFiniteSet(DOMAIN a)
  <2>1. 1 \in Int /\ Len(a) \in Int
    BY <1>1
  <2> QED
    BY <1>1, <2>1, FS_Interval
<1>4. row \in Surjection(DOMAIN a, Rows(c))
  BY <1>2 DEF Surjection
<1>5. IsFiniteSet(Rows(c))
  <2> HIDE DEF row
  <2> QED
    BY <1>3, <1>4, FS_Surjection
<1>6. \A x \in Rows(c) : x.round = c.room[1]
  BY <1>2
<1>7. ASSUME NEW x \in Rows(c), NEW y \in Rows(c), x.player = y.player PROVE x = y
  <2>1. PICK i \in DOMAIN a : x = Row(i)
    BY <1>2
  <2>2. PICK j \in DOMAIN a : y = Row(j)
    BY <1>2
  <2>3. a[i] = a[j]
    BY <1>7, <2>1, <2>2
  <2> QED
    BY <1>1, <2>1, <2>2, <2>3
<1> QED
  BY <1>5, <1>6, <1>7

-----------------------------------------------------------------------------
(* Steps beside the bracket                                                *)

BracketTables == <<phase, champion, round, slot, count, advancement, advanced, outbox>>

\* What the end of the tournament lets a step do.
EndStands == TerminalNow => UNCHANGED <<phase, champion, round, slot, count, advancement>>

LEMMA TablesHoldBracket == UNCHANGED Tables => UNCHANGED BracketTables /\ UNCHANGED ledger
BY DEF Tables, BracketTables

LEMMA ReadinessSame ==
    ASSUME NEW r, round'[r] = round[r], count'[r] = count[r],
           \A i \in SlotIndexes : advancement'[<<r, i>>] = advancement[<<r, i>>],
           NormalizedAdvancingPlayers(r)' = NormalizedAdvancingPlayers(r)
    PROVE  /\ RoundReady(r)' <=> RoundReady(r)
           /\ NoDrift(r)' <=> NoDrift(r)
<1>1. AssignedCount(r)' = AssignedCount(r)
  BY DEF AssignedCount
<1>2. ResolvedCount(r)' = ResolvedCount(r)
  BY DEF ResolvedCount
<1>3. QuarantinedCount(r)' = QuarantinedCount(r)
  BY DEF QuarantinedCount
<1>4. AdvancingCount(r)' = AdvancingCount(r)
  BY DEF AdvancingCount
<1>5. AdvancementRecordsPlayers(r)' = AdvancementRecordsPlayers(r)
  <2>1. [i \in SlotIndexes |-> Len(advancement'[<<r, i>>])] = [i \in SlotIndexes |-> Len(advancement[<<r, i>>])]
    OBVIOUS
  <2> QED
    BY <2>1 DEF AdvancementRecordsPlayers, PlayersSent
<1> QED
  BY <1>1, <1>2, <1>3, <1>4, <1>5 DEF RoundReady, NoDrift

LEMMA ShardSame ==
    ASSUME NEW r, NEW slots,
           \A i \in slots : slot'[<<r, i>>] = slot[<<r, i>>] /\ advancement'[<<r, i>>] = advancement[<<r, i>>]
    PROVE  /\ Cardinality({i \in slots : Resolved(<<r, i>>)})' = Cardinality({i \in slots : Resolved(<<r, i>>)})
           /\ Cardinality({i \in slots : slot'[<<r, i>>] = "quarantined"}) = Cardinality({i \in slots : slot[<<r, i>>] = "quarantined"})
           /\ Cardinality({i \in slots : slot'[<<r, i>>] # "none"}) = Cardinality({i \in slots : slot[<<r, i>>] # "none"})
           /\ PlayersSent(r, slots)' = PlayersSent(r, slots)
<1>1. {i \in slots : slot'[<<r, i>>] \in {"advanced", "result_recorded"}} = {i \in slots : slot[<<r, i>>] \in {"advanced", "result_recorded"}}
  OBVIOUS
<1>2. {i \in slots : slot'[<<r, i>>] = "quarantined"} = {i \in slots : slot[<<r, i>>] = "quarantined"}
  OBVIOUS
<1>3. {i \in slots : slot'[<<r, i>>] # "none"} = {i \in slots : slot[<<r, i>>] # "none"}
  OBVIOUS
<1>4. [i \in slots |-> Len(advancement'[<<r, i>>])] = [i \in slots |-> Len(advancement[<<r, i>>])]
  OBVIOUS
<1> QED
  BY <1>1, <1>2, <1>3, <1>4 DEF Resolved, PlayersSent

LEMMA BracketSame == ASSUME BracketHolds, UNCHANGED BracketTables PROVE BracketHolds'
<1>1. UNCHANGED <<phase, champion, round, slot, count, advancement, advanced, outbox>>
  BY DEF BracketTables
<1>2. Sized' /\ SentOnce' /\ QuarantinedBlocks' /\ RoundsInTurn' /\ NextRoundIsThere'
  BY <1>1 DEF BracketHolds, Sized, SentOnce, QuarantinedBlocks, RoundsInTurn, NextRoundIsThere
<1>3. CountsAreSlots' /\ AssignedAreCounted'
  <2>1. CountsAreSlots'
    <3> SUFFICES ASSUME NEW r \in Rounds, NEW h \in ShardIds
                 PROVE  LET mine == InShard(SlotIndexes, h) IN
                        /\ count'[r][h].resolved = Cardinality({i \in mine : Resolved(<<r, i>>)})'
                        /\ count'[r][h].quarantined = Cardinality({i \in mine : slot'[<<r, i>>] = "quarantined"})
                        /\ count'[r][h].advancing = PlayersSent(r, mine)'
      BY DEF CountsAreSlots, InShard
    <3>1. PICK mine : mine = InShard(SlotIndexes, h)
      OBVIOUS
    <3>2. /\ Cardinality({i \in mine : Resolved(<<r, i>>)})' = Cardinality({i \in mine : Resolved(<<r, i>>)})
          /\ PlayersSent(r, mine)' = PlayersSent(r, mine)
      BY <1>1, ShardSame
    <3>3. /\ count[r][h].resolved = Cardinality({i \in mine : Resolved(<<r, i>>)})
          /\ count[r][h].quarantined = Cardinality({i \in mine : slot[<<r, i>>] = "quarantined"})
          /\ count[r][h].advancing = PlayersSent(r, mine)
      BY <3>1 DEF BracketHolds, CountsAreSlots
    <3>4. /\ count'[r][h].resolved = Cardinality({i \in mine : Resolved(<<r, i>>)})'
          /\ count'[r][h].quarantined = Cardinality({i \in mine : slot'[<<r, i>>] = "quarantined"})
          /\ count'[r][h].advancing = PlayersSent(r, mine)'
      BY <1>1, <3>2, <3>3
    <3> QED
      BY <3>1, <3>4
  <2>2. AssignedAreCounted'
    <3> SUFFICES ASSUME NEW r \in Rounds, NEW h \in ShardIds
                 PROVE  Cardinality({i \in InShard(SlotIndexes, h) : slot'[<<r, i>>] # "none"}) <= count'[r][h].assigned
      BY DEF AssignedAreCounted, InShard
    <3> QED
      BY <1>1, ShardSame DEF BracketHolds, AssignedAreCounted
  <2> QED
    BY <2>1, <2>2
<1>4. CompletedIsWhole'
  BY <1>1 DEF BracketHolds, CompletedIsWhole, NormalizedAdvancingPlayers
<1>5. Announced'
  BY <1>1 DEF BracketHolds, Announced, AnnouncementsOf, Resolved
<1> QED
  BY <1>2, <1>3, <1>4, <1>5 DEF BracketHolds

TxHolds == StillRunning /\ Alone /\ CompletionHolds

\* Transactions only end.
LEMMA TxKept ==
    ASSUME TxHolds, \A g \in Handlers : Open(g)' => tx'[g] = tx[g] /\ Open(g), UNCHANGED BracketTables
    PROVE  TxHolds'
<1>1. UNCHANGED <<phase, champion, round, slot, count, advancement, advanced, outbox>>
  BY DEF BracketTables
<1>2. \A g \in Handlers : /\ Open(g)' => tx'[g] = tx[g] /\ Open(g)
                          /\ Writes(g)' => tx'[g] = tx[g] /\ Writes(g)
                          /\ Completes(g)' => tx'[g] = tx[g] /\ Completes(g)
                          /\ Cancels(g)' => tx'[g] = tx[g] /\ Cancels(g)
  BY DEF Open, Writes, Completes, Cancels
<1>3. \A r \in Rounds : (RoundReady(r)' <=> RoundReady(r)) /\ (NoDrift(r)' <=> NoDrift(r))
  BY <1>1, ReadinessSame DEF NormalizedAdvancingPlayers
<1>4. StillRunning'
  BY <1>1, <1>2 DEF TxHolds, StillRunning
<1>5. Alone'
  BY <1>2 DEF TxHolds, Alone, Exclusive
<1>6. CompletionHolds'
  <2> SUFFICES ASSUME NEW h \in Handlers, NEW r \in Rounds, Completes(h)', tx'[h].cmd.round = r
               PROVE  /\ RoundReady(r)' /\ NoDrift(r)'
                      /\ \A g \in Handlers \ {h} : ~Writes(g)' /\ ~Completes(g)'
    BY DEF CompletionHolds
  <2>1. tx'[h] = tx[h] /\ Completes(h)
    BY <1>2
  <2>2. RoundReady(r) /\ NoDrift(r) /\ \A g \in Handlers \ {h} : ~Writes(g) /\ ~Completes(g)
    BY <2>1 DEF TxHolds, CompletionHolds
  <2> QED
    BY <1>2, <1>3, <2>2
<1> QED
  BY <1>4, <1>5, <1>6 DEF TxHolds

LEMMA TxSame == ASSUME IInv, TxHolds, TxLeaves, UNCHANGED BracketTables PROVE TxHolds'
BY LeavesFacts, TxKept

\* One handler moves on: what it has to show.
LEMMA WorkMovesOn ==
    ASSUME AtWork, NEW h \in Handlers, \A g \in Handlers \ {h} : tx'[g] = tx[g],
           Open(h)' => \/ Open(h) /\ tx'[h] = tx[h]
                       \/ /\ tx'[h].cmd.id \in Ids /\ tx'[h].decision # "none"
                          /\ Writes(h)' => tx'[h].cmd \in AllCommands /\ ValidateStandings(tx'[h].cmd),
           ledger' \subseteq Keys, outcome' \in [Ids -> {"none", "accepted", "rejected"}],
           attempts' \in [Partitions -> 0 .. MaxAttempts - 1],
           \A p \in Partitions \ {h} : offset'[p] = offset[p],
           h \in Partitions => /\ offset'[h] \in 0 .. Len(Log[h])
                               /\ tx'[h].pc \in {"open", "answered"} => offset'[h] < Len(Log[h])
    PROVE  AtWork'
<1>1. \A g \in Handlers \ {h} : (Open(g)' <=> Open(g)) /\ (Writes(g)' <=> Writes(g))
  BY DEF Open, Writes
<1>2. Open(h) /\ tx'[h] = tx[h] => (Writes(h)' <=> Writes(h))
  BY DEF Open, Writes
<1>3. Writes(h)' => Open(h)'
  BY DEF Writes
<1>4. \A g \in Handlers : Open(g)' => tx'[g].cmd.id \in Ids /\ tx'[g].decision # "none"
  BY <1>1 DEF AtWork
<1>5. \A g \in Handlers : Writes(g)' => tx'[g].cmd \in AllCommands /\ ValidateStandings(tx'[g].cmd)
  BY <1>1, <1>2, <1>3 DEF AtWork
<1>6. \A p \in Partitions : /\ offset'[p] \in 0 .. Len(Log[p])
                            /\ tx'[p].pc \in {"open", "answered"} => offset'[p] < Len(Log[p])
  BY DEF AtWork, Handlers
<1> QED
  BY <1>4, <1>5, <1>6 DEF AtWork, ValidateStandings

LEMMA ShardLocksTaken ==
    ASSUME NEW c
    PROVE  /\ c.type = "record" /\ Assigned(c.room) => <<"shard", c.room[1], Shard(c.room)>> \in LocksOf(c)
           /\ c.type = "complete" => \A k \in ShardIds : <<"shard", c.round, k>> \in LocksOf(c)
BY DEF LocksOf, LockShardAndSlot

\* Transactions that record in a round, or complete it, exclude each other.
LEMMA CompletionExcludes ==
    ASSUME NEW c, NEW d, LocksOf(c) \cap LocksOf(d) = {}, c.type = "complete"
    PROVE  /\ d.type = "record" /\ d.room \in Slots /\ slot[d.room] # "none" => d.room[1] # c.round
           /\ d.type = "complete" => d.round # c.round
<1>1. \A k \in ShardIds : <<"shard", c.round, k>> \in LocksOf(c)
  BY ShardLocksTaken
<1>2. ASSUME d.type = "record", d.room \in Slots, slot[d.room] # "none", d.room[1] = c.round PROVE FALSE
  <2>1. <<"shard", d.room[1], Shard(d.room)>> \in LocksOf(d)
    BY <1>2, ShardLocksTaken DEF Assigned
  <2>2. Shard(d.room) \in ShardIds
    BY <1>2, ShardFacts
  <2> QED
    BY <1>1, <1>2, <2>1, <2>2
<1>3. ASSUME d.type = "complete", d.round = c.round PROVE FALSE
  <2>1. 0 \in ShardIds
    BY RoundResultsAssumption DEF ShardIds
  <2>2. <<"shard", d.round, 0>> \in LocksOf(d)
    BY <1>3, <2>1, ShardLocksTaken
  <2> QED
    BY <1>1, <1>3, <2>1, <2>2
<1> QED
  BY <1>2, <1>3

\* What Decide has looked at.
LEMMA DecideSuccess ==
    ASSUME NEW c
    PROVE  /\ c.type = "record" /\ Decide(c) \in {"record", "hold"} => ~TerminalNow /\ ValidateStandings(c)
           /\ c.type = "complete" /\ Decide(c) = "success" => ~TerminalNow /\ RoundReady(c.round) /\ NoDrift(c.round)
           /\ c.type = "cancel" /\ Decide(c) = "success" => ~TerminalNow
<1>1. ASSUME c.type = "record", Decide(c) \in {"record", "hold"} PROVE ~TerminalNow /\ ValidateStandings(c)
  BY <1>1 DEF Decide, DecideRecordMatchResult, TerminalNow
<1>2. ASSUME c.type = "complete", Decide(c) = "success" PROVE ~TerminalNow /\ RoundReady(c.round) /\ NoDrift(c.round)
  BY <1>2 DEF Decide, DecideCompleteRound
<1>3. ASSUME c.type = "cancel", Decide(c) = "success" PROVE ~TerminalNow
  BY <1>3 DEF Decide, DecideCancelTournament, TerminalNow, Terminal
<1> QED
  BY <1>1, <1>2, <1>3

LEMMA DecideAnswers == ASSUME NEW c, Known(c) PROVE Decide(c) # "none"
BY KnownFacts DEF Decide, DecideRecordMatchResult, DecideQuarantineTournamentResult, DecideCompleteRound,
                  DecideSeedRoundKickoff, DecideCancelTournament, DecideCompleteTournament

LEMMA KnownIds == ASSUME NEW c, Known(c) PROVE c.id \in Ids
BY DEF Known, Ids, CompleteCommand

LEMMA BeginHolds ==
    ASSUME BInv, IInv', NEW h \in Handlers, NEW c, Known(c), ~Open(h), Begin(h, c), UNCHANGED Tables
    PROVE  BracketHolds' /\ TxHolds' /\ EndStands
<1>1. /\ UNCHANGED BracketTables
      /\ UNCHANGED <<phase, champion, round, slot, count, advancement, advanced, outbox>>
  BY TablesHoldBracket DEF BracketTables
<1>2. BracketHolds' /\ EndStands
  BY <1>1, BracketSame DEF BInv, EndStands
<1> DEFINE new == [pc |-> "open", cmd |-> c, decision |-> Decide(c)]
<1>3. tx' = [tx EXCEPT ![h] = new] /\ LocksFree(c)
  BY DEF Begin
<1>4. tx'[h] = new /\ \A g \in Handlers \ {h} : tx'[g] = tx[g]
  BY <1>3 DEF BInv, IInv, Shaped
<1>5. new.pc = "open" /\ new.cmd = c /\ new.decision = Decide(c)
  OBVIOUS
<1> HIDE DEF new
<1>6. \A g \in Handlers \ {h} : /\ Open(g)' <=> Open(g)
                                /\ Writes(g)' <=> Writes(g)
                                /\ Completes(g)' <=> Completes(g)
                                /\ Cancels(g)' <=> Cancels(g)
  BY <1>4 DEF Open, Writes, Completes, Cancels
<1>7. /\ Writes(h)' => /\ c.type = "record" /\ ~TerminalNow
                       /\ c.room \in Slots /\ slot[c.room] = "assigned"
      /\ Completes(h)' => /\ c.type = "complete" /\ ~TerminalNow
                          /\ RoundReady(c.round) /\ NoDrift(c.round)
      /\ Cancels(h)' => ~TerminalNow
  <2>1. Writes(h)' => c.type = "record" /\ Decide(c) \in {"record", "hold"}
    BY <1>4, <1>5 DEF Writes
  <2>2. Completes(h)' => c.type = "complete" /\ Decide(c) = "success"
    BY <1>4, <1>5 DEF Completes
  <2>3. Cancels(h)' => c.type = "cancel" /\ Decide(c) = "success"
    BY <1>4, <1>5 DEF Cancels
  <2>4. Writes(h)' => c.room \in Slots /\ slot[c.room] = "assigned"
    BY <2>1, DecideRecord DEF BInv, IInv, Shaped
  <2> QED
    BY <2>1, <2>2, <2>3, <2>4, DecideSuccess
<1>8. StillRunning'
  <2>1. ~TerminalNow => phase = "in_progress"
    BY DEF TerminalNow, BInv, BracketHolds, Sized
  <2> QED
    BY <1>1, <1>6, <1>7, <2>1 DEF BInv, WorkHolds, StillRunning
<1>9. Alone'
  <2>1. \A g \in Handlers : Open(g) => ~Exclusive(c) /\ ~Exclusive(tx[g].cmd)
    BY <1>3 DEF LocksFree, BarrierFree
  <2> SUFFICES ASSUME NEW f \in Handlers, NEW g \in Handlers, f # g, Open(f)', Open(g)'
               PROVE  tx'[f].cmd.type \notin {"seed", "cancel", "finish"}
    BY DEF Alone, Exclusive
  <2>2. CASE f = h
    BY <1>4, <1>5, <1>6, <2>1, <2>2 DEF Exclusive
  <2>3. CASE f # h
    <3>1. tx'[f] = tx[f] /\ Open(f)
      BY <1>4, <1>6, <2>3
    <3> QED
      BY <2>1, <3>1 DEF Exclusive
  <2> QED
    BY <2>2, <2>3
<1>10. CompletionHolds'
  <2>1. \A g \in Handlers \ {h} : Open(g) => LocksOf(tx[g].cmd) \cap LocksOf(c) = {} /\ LocksOf(c) \cap LocksOf(tx[g].cmd) = {}
    BY <1>3 DEF LocksFree
  <2>2. \A g \in Handlers : Writes(g) => /\ Open(g) /\ tx[g].cmd.type = "record"
                                         /\ tx[g].cmd.room \in Slots /\ slot[tx[g].cmd.room] = "assigned"
    BY DEF Writes, BInv, IInv, DecisionHolds
  <2>3. \A g \in Handlers : Completes(g) => Open(g) /\ tx[g].cmd.type = "complete" /\ tx[g].cmd.round \in Rounds
    BY DEF Completes, BInv, IInv, DecisionKinds
  <2>4. \A r : RoundReady(r) => round[r].status = "in_progress"
    BY DEF RoundReady
  <2>5. ASSUME NEW s \in Slots, slot[s] = "assigned", NEW r \in Rounds, RoundReady(r) PROVE s[1] = r
    BY <2>4, <2>5, AssignedIsLive, OneRoundAtATime DEF BInv, IInv, BracketHolds
  <2>6. ASSUME NEW q \in Rounds, RoundReady(q), NEW r \in Rounds, RoundReady(r) PROVE q = r
    BY <2>4, <2>6, OneRoundAtATime DEF BInv, BracketHolds
  <2>7. \A r \in Rounds : (RoundReady(r)' <=> RoundReady(r)) /\ (NoDrift(r)' <=> NoDrift(r))
    BY <1>1, ReadinessSame DEF NormalizedAdvancingPlayers
  <2> SUFFICES ASSUME NEW g \in Handlers, NEW r \in Rounds, Completes(g)', tx'[g].cmd.round = r
               PROVE  /\ RoundReady(r)' /\ NoDrift(r)'
                      /\ \A f \in Handlers \ {g} : ~Writes(f)' /\ ~Completes(f)'
    BY DEF CompletionHolds
  <2>8. CASE g = h
    <3>1. c.type = "complete" /\ c.round = r /\ RoundReady(r) /\ NoDrift(r)
      BY <1>4, <1>5, <1>7, <2>8
    <3>2. ASSUME NEW f \in Handlers \ {h} PROVE ~Writes(f) /\ ~Completes(f)
      <4>1. ASSUME Writes(f) PROVE FALSE
        <5>1. tx[f].cmd.room[1] = r
          BY <2>2, <2>5, <3>1, <4>1
        <5>2. LocksOf(c) \cap LocksOf(tx[f].cmd) = {}
          BY <2>1, <2>2, <4>1
        <5> QED
          BY <2>2, <3>1, <4>1, <5>1, <5>2, CompletionExcludes
      <4>2. ASSUME Completes(f) PROVE FALSE
        <5>1. tx[f].cmd.round = r
          <6>1. RoundReady(tx[f].cmd.round)
            BY <2>3, <4>2 DEF BInv, WorkHolds, CompletionHolds
          <6> QED
            BY <2>3, <2>6, <3>1, <4>2, <6>1
        <5>2. LocksOf(c) \cap LocksOf(tx[f].cmd) = {}
          BY <2>1, <2>3, <4>2
        <5> QED
          BY <2>3, <3>1, <4>2, <5>1, <5>2, CompletionExcludes
      <4> QED
        BY <4>1, <4>2
    <3> QED
      BY <1>6, <2>7, <2>8, <3>1, <3>2
  <2>9. CASE g # h
    <3>1. Completes(g) /\ tx[g].cmd.round = r
      BY <1>4, <1>6, <2>9
    <3>2. RoundReady(r) /\ NoDrift(r) /\ \A f \in Handlers \ {g} : ~Writes(f) /\ ~Completes(f)
      BY <3>1 DEF BInv, WorkHolds, CompletionHolds
    <3>3. LocksOf(tx[g].cmd) \cap LocksOf(c) = {} /\ tx[g].cmd.type = "complete"
      BY <2>1, <2>3, <2>9, <3>1
    <3>4. ASSUME Writes(h)' PROVE FALSE
      <4>1. c.room[1] = r
        BY <1>7, <2>5, <3>2, <3>4
      <4> QED
        BY <1>7, <3>1, <3>3, <3>4, <4>1, CompletionExcludes
    <3>5. ASSUME Completes(h)' PROVE FALSE
      <4>1. c.round \in Rounds
        BY <1>7, <3>5, KnownFacts
      <4>2. c.round = r
        BY <1>7, <2>6, <3>2, <3>5, <4>1
      <4> QED
        BY <1>7, <3>1, <3>3, <3>5, <4>2, CompletionExcludes
    <3> QED
      BY <1>6, <2>7, <2>9, <3>2, <3>4, <3>5
  <2> QED
    BY <2>8, <2>9
<1> QED
  BY <1>2, <1>8, <1>9, <1>10 DEF TxHolds

-----------------------------------------------------------------------------
(* Carrying out what changes the bracket                                   *)

\* Who changes the bracket leaves nobody behind who is about to.
LEMMA TxAfterChange ==
    ASSUME IInv, TxHolds, NEW h \in Handlers, Ends(h),
           (Writes(h) /\ phase' = phase) \/ Completes(h) \/ Cancels(h)
    PROVE  TxHolds'
<1>1. /\ \A g \in Handlers : Open(g)' => g # h /\ tx'[g] = tx[g] /\ Open(g)
      /\ \A g \in Handlers : Writes(g)' => g # h /\ tx'[g] = tx[g] /\ Writes(g)
      /\ \A g \in Handlers : Completes(g)' => g # h /\ tx'[g] = tx[g] /\ Completes(g)
      /\ \A g \in Handlers : Cancels(g)' => g # h /\ tx'[g] = tx[g] /\ Cancels(g)
  BY DEF Ends, Open, Writes, Completes, Cancels
<1>2. Alone'
  BY <1>1 DEF TxHolds, Alone, Exclusive
<1>3. \A g \in Handlers : Completes(g) => tx[g].cmd.round \in Rounds
  BY DEF Completes, IInv, DecisionKinds
<1>4. \A g \in Handlers : Completes(g) => \A f \in Handlers \ {g} : ~Writes(f) /\ ~Completes(f)
  BY <1>3 DEF TxHolds, CompletionHolds
<1>5. \A g \in Handlers \ {h} : Cancels(g) => ~Open(h)
  BY DEF TxHolds, Alone, Cancels, Exclusive
<1>6. Writes(h) \/ Completes(h) \/ Cancels(h) => Open(h)
  BY DEF Writes, Completes, Cancels
<1>7. Cancels(h) => \A g \in Handlers \ {h} : ~Open(g)
  BY DEF TxHolds, Alone, Cancels, Exclusive
<1>8. CompletionHolds'
  <2>1. \A g \in Handlers : ~Completes(g)'
    BY <1>1, <1>4, <1>7 DEF Completes
  <2> QED
    BY <2>1 DEF CompletionHolds
<1>9. StillRunning'
  <2>1. CASE Writes(h) /\ phase' = phase
    BY <1>1, <2>1 DEF TxHolds, StillRunning
  <2>2. CASE Completes(h) \/ Cancels(h)
    <3>1. \A g \in Handlers : ~Writes(g)' /\ ~Completes(g)' /\ ~Cancels(g)'
      BY <1>1, <1>4, <1>5, <1>6, <1>7, <2>2 DEF Writes, Completes, Cancels
    <3> QED
      BY <3>1 DEF StillRunning
  <2> QED
    BY <2>1, <2>2
<1> QED
  BY <1>2, <1>8, <1>9 DEF TxHolds

ShardRow == [assigned : Nat, resolved : Nat, quarantined : Nat, advancing : Nat]

LEMMA CountChanged ==
    ASSUME count \in [Rounds -> [ShardIds -> ShardRow]], NEW q \in Rounds, NEW k \in ShardIds, NEW row \in ShardRow,
           count' = [count EXCEPT ![q][k] = row]
    PROVE  /\ count' \in [Rounds -> [ShardIds -> ShardRow]] /\ count'[q][k] = row
           /\ \A r \in Rounds, j \in ShardIds : (r # q \/ j # k) => count'[r][j] = count[r][j]
<1>1. count[q] \in [ShardIds -> ShardRow]
  OBVIOUS
<1>2. PICK shards : shards = [count[q] EXCEPT ![k] = row]
  OBVIOUS
<1>3. /\ shards \in [ShardIds -> ShardRow] /\ shards[k] = row
      /\ \A j \in ShardIds \ {k} : shards[j] = count[q][j]
  BY <1>1, <1>2
<1>4. count' = [count EXCEPT ![q] = shards]
  BY <1>2
<1> QED
  BY <1>3, <1>4

\* Slots of another shard are other slots.
LEMMA OtherShards ==
    ASSUME NEW s \in Slots, NEW r \in Rounds, NEW k \in ShardIds, r # s[1] \/ k # Shard(s)
    PROVE  \A i \in InShard(SlotIndexes, k) : <<r, i>> \in Slots /\ <<r, i>> # s
<1> SUFFICES ASSUME NEW i \in InShard(SlotIndexes, k) PROVE <<r, i>> \in Slots /\ <<r, i>> # s
  OBVIOUS
<1>1. i \in SlotIndexes /\ (i % Shards) = k
  BY ShardFacts
<1>2. <<r, i>> \in Slots
  BY <1>1, ShardFacts
<1>3. <<r, i>> = s => s[1] = r /\ Shard(s) = k
  BY <1>1 DEF Shard
<1> QED
  BY <1>2, <1>3

\* The counts of one shard.
ShardCounts(r, k) ==
    /\ count[r][k].resolved = Cardinality({i \in InShard(SlotIndexes, k) : Resolved(<<r, i>>)})
    /\ count[r][k].quarantined = Cardinality({i \in InShard(SlotIndexes, k) : slot[<<r, i>>] = "quarantined"})
    /\ count[r][k].advancing = PlayersSent(r, InShard(SlotIndexes, k))
    /\ Cardinality({i \in InShard(SlotIndexes, k) : slot[<<r, i>>] # "none"}) <= count[r][k].assigned

LEMMA CountsByShard == (CountsAreSlots /\ AssignedAreCounted) <=> \A r \in Rounds, k \in ShardIds : ShardCounts(r, k)
BY DEF CountsAreSlots, AssignedAreCounted, ShardCounts

LEMMA ShardCountsSame ==
    ASSUME NEW r, NEW k, ShardCounts(r, k), count'[r][k] = count[r][k],
           \A i \in InShard(SlotIndexes, k) :
               slot'[<<r, i>>] = slot[<<r, i>>] /\ advancement'[<<r, i>>] = advancement[<<r, i>>]
    PROVE  ShardCounts(r, k)'
<1>1. PICK mine : mine = InShard(SlotIndexes, k)
  OBVIOUS
<1>2. /\ Cardinality({i \in mine : Resolved(<<r, i>>)})' = Cardinality({i \in mine : Resolved(<<r, i>>)})
      /\ Cardinality({i \in mine : slot'[<<r, i>>] = "quarantined"}) = Cardinality({i \in mine : slot[<<r, i>>] = "quarantined"})
      /\ Cardinality({i \in mine : slot'[<<r, i>>] # "none"}) = Cardinality({i \in mine : slot[<<r, i>>] # "none"})
      /\ PlayersSent(r, mine)' = PlayersSent(r, mine)
  BY <1>1, ShardSame
<1>3. /\ count[r][k].resolved = Cardinality({i \in mine : Resolved(<<r, i>>)})
      /\ count[r][k].quarantined = Cardinality({i \in mine : slot[<<r, i>>] = "quarantined"})
      /\ count[r][k].advancing = PlayersSent(r, mine)
      /\ Cardinality({i \in mine : slot[<<r, i>>] # "none"}) <= count[r][k].assigned
  BY <1>1 DEF ShardCounts
<1>4. /\ count'[r][k].resolved = Cardinality({i \in mine : Resolved(<<r, i>>)})'
      /\ count'[r][k].quarantined = Cardinality({i \in mine : slot'[<<r, i>>] = "quarantined"})
      /\ count'[r][k].advancing = PlayersSent(r, mine)'
      /\ Cardinality({i \in mine : slot'[<<r, i>>] # "none"}) <= count'[r][k].assigned
  BY <1>2, <1>3
<1> QED
  BY <1>1, <1>4 DEF ShardCounts, InShard

\* Slot s, assigned so far, takes a status and the players it sends on.
SlotWritten(s, status, players) ==
    /\ slot[s] = "assigned" /\ advancement[s] = <<>>
    /\ \A x \in Slots : slot'[x] = IF x = s THEN status ELSE slot[x]
    /\ \A x \in Slots : advancement'[x] = IF x = s THEN players ELSE advancement[x]

\* The shard of slot s, and no other, counts what the slot took.
CountedOnce(s, status, players) ==
    /\ \A r \in Rounds, k \in ShardIds : (r # s[1] \/ k # Shard(s)) => count'[r][k] = count[r][k]
    /\ LET old == count[s[1]][Shard(s)]  new == count'[s[1]][Shard(s)] IN
           /\ new.assigned = old.assigned
           /\ new.resolved = IF status = "quarantined" THEN old.resolved ELSE old.resolved + 1
           /\ new.quarantined = IF status = "quarantined" THEN old.quarantined + 1 ELSE old.quarantined
           /\ new.advancing = old.advancing + Len(players)

\* A slot that was assigned gets its result, or is held, and its shard counts it.
LEMMA SlotCounted ==
    ASSUME NEW s \in Slots, slot \in [Slots -> SlotStatuses],
           NEW status \in {"advanced", "result_recorded", "quarantined"}, NEW players, Len(players) \in Nat,
           status = "quarantined" => players = <<>>,
           SlotWritten(s, status, players), Sized, CountsAreSlots, AssignedAreCounted,
           CountedOnce(s, status, players)
    PROVE  CountsAreSlots' /\ AssignedAreCounted'
<1> SUFFICES ASSUME slot[s] = "assigned", advancement[s] = <<>>,
                    \A x \in Slots : slot'[x] = IF x = s THEN status ELSE slot[x],
                    \A x \in Slots : advancement'[x] = IF x = s THEN players ELSE advancement[x],
                    \A r \in Rounds, k \in ShardIds : (r # s[1] \/ k # Shard(s)) => count'[r][k] = count[r][k],
                    LET old == count[s[1]][Shard(s)]  new == count'[s[1]][Shard(s)] IN
                        /\ new.assigned = old.assigned
                        /\ new.resolved = IF status = "quarantined" THEN old.resolved ELSE old.resolved + 1
                        /\ new.quarantined = IF status = "quarantined" THEN old.quarantined + 1 ELSE old.quarantined
                        /\ new.advancing = old.advancing + Len(players)
             PROVE  CountsAreSlots' /\ AssignedAreCounted'
  BY DEF SlotWritten, CountedOnce
<1>1. PICK q, i0, k0 : q = s[1] /\ i0 = s[2] /\ k0 = Shard(s)
  OBVIOUS
<1>2. PICK mine : mine = InShard(SlotIndexes, k0)
  OBVIOUS
<1>3. /\ q \in Rounds /\ k0 \in ShardIds /\ i0 \in mine /\ s = <<q, i0>> /\ IsFiniteSet(mine)
      /\ \A i \in mine : <<q, i>> \in Slots /\ (i # i0 => <<q, i>> # s)
  <2>1. /\ s = <<s[1], s[2]>> /\ s[1] \in Rounds /\ s[2] \in SlotIndexes
        /\ Shard(s) \in ShardIds /\ s[2] \in InShard(SlotIndexes, Shard(s))
    BY ShardFacts
  <2>2. IsFiniteSet(mine) /\ \A i \in mine : i \in SlotIndexes
    BY <1>2, ShardFacts
  <2>3. \A i \in mine : <<q, i>> \in Slots
    BY <1>1, <2>1, <2>2, ShardFacts
  <2>4. s = <<q, i0>>
    BY <1>1, <2>1
  <2>5. \A i \in mine : i # i0 => <<q, i>> # <<q, i0>>
    OBVIOUS
  <2> QED
    BY <1>1, <1>2, <2>1, <2>2, <2>3, <2>4, <2>5
<1>4. /\ count[q][k0].resolved = Cardinality({i \in mine : Resolved(<<q, i>>)})
      /\ count[q][k0].quarantined = Cardinality({i \in mine : slot[<<q, i>>] = "quarantined"})
      /\ count[q][k0].advancing = PlayersSent(q, mine)
      /\ Cardinality({i \in mine : slot[<<q, i>>] # "none"}) <= count[q][k0].assigned
  BY <1>2, <1>3 DEF CountsAreSlots, AssignedAreCounted
<1>5. \A i \in mine : /\ slot'[<<q, i>>] = IF i = i0 THEN status ELSE slot[<<q, i>>]
                      /\ advancement'[<<q, i>>] = IF i = i0 THEN players ELSE advancement[<<q, i>>]
  BY <1>3
<1>6. slot[<<q, i0>>] = "assigned" /\ advancement[<<q, i0>>] = <<>>
  BY <1>3
<1> DEFINE Done == {i \in mine : slot[<<q, i>>] \in {"advanced", "result_recorded"}}
           Done1 == {i \in mine : slot'[<<q, i>>] \in {"advanced", "result_recorded"}}
           Kept == {i \in mine : slot[<<q, i>>] = "quarantined"}
           Kept1 == {i \in mine : slot'[<<q, i>>] = "quarantined"}
<1>7. /\ Done1 = IF status = "quarantined" THEN Done ELSE Done \cup {i0}
      /\ Kept1 = IF status = "quarantined" THEN Kept \cup {i0} ELSE Kept
      /\ i0 \notin Done /\ i0 \notin Kept
      /\ Done \in SUBSET mine /\ Kept \in SUBSET mine
      /\ {i \in mine : slot'[<<q, i>>] # "none"} = {i \in mine : slot[<<q, i>>] # "none"}
  BY <1>3, <1>5, <1>6
<1>8. /\ count[q][k0].resolved = Cardinality(Done) /\ count[q][k0].quarantined = Cardinality(Kept)
  BY <1>4 DEF Resolved
<1> HIDE DEF Done, Done1, Kept, Kept1
<1>9. IsFiniteSet(Done) /\ IsFiniteSet(Kept)
  BY <1>3, <1>7, FS_Subset
<1>10. Cardinality(Done \cup {i0}) = Cardinality(Done) + 1 /\ Cardinality(Kept \cup {i0}) = Cardinality(Kept) + 1
  BY <1>7, <1>9, FS_AddElement
<1>11. count'[q][k0].resolved = Cardinality(Done1) /\ count'[q][k0].quarantined = Cardinality(Kept1)
  BY <1>1, <1>7, <1>8, <1>10
<1>12. PlayersSent(q, mine)' = PlayersSent(q, mine) + Len(players)
  <2> DEFINE f == [i \in mine |-> Len(advancement[<<q, i>>])]
             g == [i \in mine |-> IF i = i0 THEN Len(players) ELSE Len(advancement[<<q, i>>])]
  <2>1. f \in [mine -> Nat] /\ g \in [mine -> Nat]
    BY <1>3 DEF Sized
  <2>2. g[i0] = Len(players) /\ f[i0] = 0 /\ \A i \in mine \ {i0} : g[i] = f[i]
    BY <1>3, <1>6
  <2>3. [i \in mine |-> Len(advancement'[<<q, i>>])] = g
    BY <1>5
  <2>4. PlayersSent(q, mine) = SumOf(f)
    BY DEF PlayersSent
  <2>5. PlayersSent(q, mine)' = SumOf(g)
    BY <2>3 DEF PlayersSent
  <2> HIDE DEF f, g
  <2>6. SumOf(g) = SumOf(f) + g[i0]
    <3>1. IsFiniteSet(mine) /\ i0 \in mine
      BY <1>3
    <3> QED
      BY ONLY <2>1, <2>2, <3>1, TermAdded
  <2> QED
    BY <2>2, <2>4, <2>5, <2>6
<1>13. /\ count'[q][k0].resolved = Cardinality({i \in mine : Resolved(<<q, i>>)})'
       /\ count'[q][k0].quarantined = Cardinality({i \in mine : slot'[<<q, i>>] = "quarantined"})
       /\ count'[q][k0].advancing = PlayersSent(q, mine)'
       /\ Cardinality({i \in mine : slot'[<<q, i>>] # "none"}) <= count'[q][k0].assigned
  <2>1. count'[q][k0].resolved = Cardinality({i \in mine : Resolved(<<q, i>>)})'
    BY <1>11 DEF Done1, Resolved
  <2>2. count'[q][k0].quarantined = Cardinality({i \in mine : slot'[<<q, i>>] = "quarantined"})
    BY <1>11 DEF Kept1
  <2>3. count'[q][k0].advancing = PlayersSent(q, mine)'
    BY <1>1, <1>4, <1>12
  <2>4. Cardinality({i \in mine : slot'[<<q, i>>] # "none"}) <= count'[q][k0].assigned
    BY <1>1, <1>4, <1>7
  <2> QED
    BY <2>1, <2>2, <2>3, <2>4
<1>14. ShardCounts(q, k0)'
  BY <1>2, <1>13 DEF ShardCounts, InShard
<1>15. ASSUME NEW r \in Rounds, NEW k \in ShardIds, r # q \/ k # k0 PROVE ShardCounts(r, k)'
  <2>1. \A i \in InShard(SlotIndexes, k) : <<r, i>> \in Slots /\ <<r, i>> # s
    BY <1>1, <1>15, OtherShards
  <2>2. count'[r][k] = count[r][k] /\ ShardCounts(r, k)
    BY <1>1, <1>15, CountsByShard
  <2> QED
    BY <2>1, <2>2, ShardCountsSame
<1>16. \A r \in Rounds, k \in ShardIds : ShardCounts(r, k)'
  BY <1>14, <1>15
<1> QED
  BY <1>16, CountsByShard DEF CountsAreSlots, AssignedAreCounted, ShardCounts, InShard

\* The facts about a transaction that writes a slot.
LEMMA WriterFacts ==
    ASSUME BInv, NEW h \in Handlers, Writes(h)
    PROVE  /\ tx[h].cmd \in AllCommands /\ tx[h].cmd.type = "record" /\ ValidateStandings(tx[h].cmd)
           /\ tx[h].cmd.room \in Slots /\ slot[tx[h].cmd.room] = "assigned" /\ advancement[tx[h].cmd.room] = <<>>
           /\ tx[h].cmd.room[1] \in Rounds
           /\ round[tx[h].cmd.room[1]].status \notin {"none", "pending", "completed"}
           /\ phase = "in_progress" /\ ~TerminalNow
<1>1. tx[h].cmd \in AllCommands /\ tx[h].cmd.type = "record" /\ ValidateStandings(tx[h].cmd)
  BY DEF BInv, WorkHolds, AtWork, Writes
<1>2. tx[h].cmd.room \in Slots /\ slot[tx[h].cmd.room] = "assigned" /\ advancement[tx[h].cmd.room] = <<>>
  BY DEF BInv, IInv, DecisionHolds
<1>3. tx[h].cmd.room[1] \in Rounds /\ round[tx[h].cmd.room[1]].status \notin {"none", "pending", "completed"}
  BY <1>2, AssignedIsLive DEF BInv, IInv, BracketHolds
<1>4. phase = "in_progress" /\ ~TerminalNow
  BY DEF BInv, WorkHolds, StillRunning, TerminalNow, Terminal
<1> QED
  BY <1>1, <1>2, <1>3, <1>4

LEMMA RecordHolds ==
    ASSUME BInv, NEW h \in Handlers, Ends(h), Writes(h), RecordResult(tx[h].cmd)
    PROVE  BracketHolds' /\ TxHolds' /\ EndStands
<1> PICK c : c = tx[h].cmd
  OBVIOUS
<1> PICK s : s = c.room
  OBVIOUS
<1> PICK players : players = Advancing(c)
  OBVIOUS
<1>1. /\ c \in AllCommands /\ c.type = "record" /\ ValidateStandings(c)
      /\ s \in Slots /\ slot[s] = "assigned" /\ advancement[s] = <<>>
      /\ s[1] \in Rounds /\ round[s[1]].status \notin {"none", "pending", "completed"}
      /\ phase = "in_progress" /\ ~TerminalNow
  BY WriterFacts
<1>2. PICK status : status = IF round[s[1]].final THEN "result_recorded" ELSE "advanced"
  OBVIOUS
<1>3. /\ ~ImmutableConflict(c)
      /\ advancement' = [advancement EXCEPT ![s] = players]
      /\ advanced' = advanced \cup Rows(c)
      /\ slot' = [slot EXCEPT ![s] = status]
      /\ AddResolved(c)
      /\ UNCHANGED <<phase, round, ledger>>
  BY <1>2 DEF RecordResult
<1>4. /\ \A x \in Slots : slot'[x] = IF x = s THEN status ELSE slot[x]
      /\ \A x \in Slots : advancement'[x] = IF x = s THEN players ELSE advancement[x]
  <2>1. slot \in [Slots -> SlotStatuses] /\ \E P : advancement \in [Slots -> P]
    BY DEF BInv, IInv, Shaped
  <2> QED
    BY <1>3, <2>1
<1>5. Len(players) \in Nat
  BY <1>1, AdvancingFacts
<1>6. /\ count' \in [Rounds -> [ShardIds -> ShardRow]]
      /\ \A r \in Rounds, k \in ShardIds : (r # s[1] \/ k # Shard(s)) => count'[r][k] = count[r][k]
      /\ count'[s[1]][Shard(s)].assigned = count[s[1]][Shard(s)].assigned
      /\ count'[s[1]][Shard(s)].resolved = count[s[1]][Shard(s)].resolved + 1
      /\ count'[s[1]][Shard(s)].quarantined = count[s[1]][Shard(s)].quarantined
      /\ count'[s[1]][Shard(s)].advancing = count[s[1]][Shard(s)].advancing + Len(players)
  <2>1. count \in [Rounds -> [ShardIds -> ShardRow]]
    BY DEF BInv, BracketHolds, Sized, ShardRow
  <2>2. PICK q, k0 : q = s[1] /\ k0 = Shard(s)
    OBVIOUS
  <2>3. q \in Rounds /\ k0 \in ShardIds
    BY <1>1, <2>2, ShardFacts
  <2>4. PICK old : old = count[q][k0]
    OBVIOUS
  <2>5. old \in ShardRow
    BY <2>1, <2>3, <2>4
  <2>6. PICK row : row = [assigned |-> old.assigned, resolved |-> old.resolved + 1,
                          quarantined |-> old.quarantined, advancing |-> old.advancing + Len(players)]
    OBVIOUS
  <2>7. /\ row \in ShardRow /\ row.assigned = old.assigned /\ row.resolved = old.resolved + 1
        /\ row.quarantined = old.quarantined /\ row.advancing = old.advancing + Len(players)
    BY <1>5, <2>5, <2>6 DEF ShardRow
  <2>8. count' = [count EXCEPT ![q][k0] = row]
    <3>1. PICK n, m : n = old.resolved + 1 /\ m = old.advancing + Len(players)
      OBVIOUS
    <3>4. PICK one : one = [old EXCEPT !.resolved = n]
      OBVIOUS
    <3>5. one = [assigned |-> old.assigned, resolved |-> n, quarantined |-> old.quarantined, advancing |-> old.advancing]
      BY ONLY <2>5, <3>4 DEF ShardRow
    <3>6. [one EXCEPT !.advancing = m] = [assigned |-> old.assigned, resolved |-> n, quarantined |-> old.quarantined, advancing |-> m]
      BY ONLY <3>5
    <3>7. [old EXCEPT !.resolved = n, !.advancing = m] = [one EXCEPT !.advancing = m]
      BY ONLY <3>4
    <3>2. count' = [count EXCEPT ![c.room[1]][Shard(c.room)] =
                        [count[c.room[1]][Shard(c.room)] EXCEPT
                            !.resolved = count[c.room[1]][Shard(c.room)].resolved + 1,
                            !.advancing = count[c.room[1]][Shard(c.room)].advancing + Len(Advancing(c))]]
      BY ONLY <1>3 DEF AddResolved
    <3>3. count' = [count EXCEPT ![q][k0] = [old EXCEPT !.resolved = n, !.advancing = m]]
      BY <2>2, <2>4, <3>1, <3>2
    <3> QED
      BY ONLY <2>6, <3>1, <3>3, <3>5, <3>6, <3>7
  <2>9. /\ count' \in [Rounds -> [ShardIds -> ShardRow]] /\ count'[q][k0] = row
        /\ \A r \in Rounds, j \in ShardIds : (r # q \/ j # k0) => count'[r][j] = count[r][j]
    BY ONLY <2>1, <2>3, <2>7, <2>8, CountChanged
  <2> QED
    BY <2>2, <2>4, <2>7, <2>9
<1>7. status \in {"advanced", "result_recorded"}
  BY <1>2
<1>8. CountsAreSlots' /\ AssignedAreCounted'
  <2>1. slot \in [Slots -> SlotStatuses] /\ Sized /\ CountsAreSlots /\ AssignedAreCounted
    BY DEF BInv, IInv, Shaped, BracketHolds
  <2>2. /\ status \in {"advanced", "result_recorded", "quarantined"}
        /\ status = "quarantined" => players = <<>>
    BY <1>7
  <2>3. CountedOnce(s, status, players)
    BY ONLY <1>6, <1>7 DEF CountedOnce
  <2>4. s \in Slots /\ SlotWritten(s, status, players)
    BY ONLY <1>1, <1>4 DEF SlotWritten
  <2> QED
    BY ONLY <1>5, <2>1, <2>2, <2>3, <2>4, SlotCounted
<1>9. /\ IsFiniteSet(Rows(c)) /\ \A row \in Rows(c) : row.round = s[1]
      /\ \A x, y \in Rows(c) : x.player = y.player => x = y
  BY <1>1, RowFacts
<1>10. Sized'
  <2>1. IsFiniteSet(advanced')
    BY <1>3, <1>9, FS_Union DEF BInv, BracketHolds, Sized
  <2>2. \A x \in Slots : Len(advancement'[x]) \in Nat
    BY <1>4, <1>5 DEF BInv, BracketHolds, Sized
  <2> QED
    BY <1>3, <1>6, <2>1, <2>2 DEF BInv, BracketHolds, Sized, ShardRow
<1>11. SentOnce'
  <2> SUFFICES ASSUME NEW x \in advanced', NEW y \in advanced', x.round = y.round, x.player = y.player PROVE x = y
    BY DEF SentOnce
  <2>1. \A new \in Rows(c), old \in advanced : old.round = new.round /\ old.player = new.player => old = new
    BY <1>3 DEF ImmutableConflict
  <2>2. \A v, w \in advanced : v.round = w.round /\ v.player = w.player => v = w
    BY DEF BInv, BracketHolds, SentOnce
  <2> QED
    BY <1>3, <1>9, <2>1, <2>2
<1>12. CompletedIsWhole'
  <2> SUFFICES ASSUME NEW r \in Rounds, round'[r].status = "completed"
               PROVE  /\ \A i \in SlotIndexes : slot'[<<r, i>>] \in {"none", "advanced", "result_recorded"}
                      /\ \/ round'[r].final
                         \/ round'[r + 1].players = Cardinality({row.player : row \in {row \in advanced' : row.round = r}})
    BY DEF CompletedIsWhole, NormalizedAdvancingPlayers
  <2>1. r # s[1] /\ round[r].status = "completed"
    BY <1>1, <1>3
  <2>2. \A i \in SlotIndexes : slot'[<<r, i>>] = slot[<<r, i>>]
    BY <1>4, <2>1, ShardFacts
  <2>3. {row \in advanced' : row.round = r} = {row \in advanced : row.round = r}
    BY <1>3, <1>9, <2>1
  <2>4. /\ \A i \in SlotIndexes : slot[<<r, i>>] \in {"none", "advanced", "result_recorded"}
        /\ \/ round[r].final
           \/ round[r + 1].players = Cardinality({row.player : row \in {row \in advanced : row.round = r}})
    BY <2>1 DEF BInv, BracketHolds, CompletedIsWhole, NormalizedAdvancingPlayers
  <2> QED
    BY <1>3, <2>2, <2>3, <2>4
<1>13. QuarantinedBlocks'
  <2>1. \A x \in Slots : slot'[x] = "quarantined" => slot[x] = "quarantined"
    BY <1>4, <1>7
  <2> QED
    BY <1>3, <2>1 DEF BInv, BracketHolds, QuarantinedBlocks
<1>14. Announced'
  <2>1. PICK fact : fact = [fact |-> "result_recorded", cmd |-> c.id, of |-> s]
    OBVIOUS
  <2>2. fact.fact = "result_recorded" /\ fact.of = s
    BY <2>1
  <2>3. \A f \in outbox' : f \in outbox \/ f = fact \/ (f.of = s /\ f.fact # "result_recorded")
    BY <2>1 DEF RecordResult, Publish
  <2>4. outbox \subseteq outbox' /\ fact \in outbox'
    BY <2>1 DEF RecordResult, Publish
  <2> SUFFICES ASSUME NEW x \in Slots
               PROVE  IF slot'[x] \in {"advanced", "result_recorded"}
                      THEN \E f : {g \in outbox' : g.fact = "result_recorded" /\ g.of = x} = {f}
                      ELSE {g \in outbox' : g.fact = "result_recorded" /\ g.of = x} = {}
    BY DEF Announced, AnnouncementsOf, Resolved
  <2>5. IF slot[x] \in {"advanced", "result_recorded"}
        THEN \E f : {g \in outbox : g.fact = "result_recorded" /\ g.of = x} = {f}
        ELSE {g \in outbox : g.fact = "result_recorded" /\ g.of = x} = {}
    BY DEF BInv, BracketHolds, Announced, AnnouncementsOf, Resolved
  <2>6. CASE x = s
    <3>1. {g \in outbox : g.fact = "result_recorded" /\ g.of = s} = {}
      BY <1>1, <2>5, <2>6
    <3>2. {g \in outbox' : g.fact = "result_recorded" /\ g.of = s} = {fact}
      BY <2>2, <2>3, <2>4, <3>1
    <3> QED
      BY <1>4, <1>7, <2>6, <3>2
  <2>7. CASE x # s
    <3>1. {g \in outbox' : g.fact = "result_recorded" /\ g.of = x} = {g \in outbox : g.fact = "result_recorded" /\ g.of = x}
      BY <2>2, <2>3, <2>4, <2>7
    <3> QED
      BY <1>4, <2>5, <2>7, <3>1
  <2> QED
    BY <2>6, <2>7
<1>15. RoundsInTurn' /\ NextRoundIsThere'
  BY <1>3 DEF BInv, BracketHolds, RoundsInTurn, NextRoundIsThere
<1>16. TxHolds'
  BY <1>3, TxAfterChange DEF BInv, WorkHolds, TxHolds
<1>17. EndStands
  BY <1>1 DEF EndStands
<1> QED
  BY <1>8, <1>10, <1>11, <1>12, <1>13, <1>14, <1>15, <1>16, <1>17 DEF BracketHolds

\* One round changes its status: its other columns stay.
LEMMA OnlyStatus ==
    ASSUME NEW P, round \in [Rounds -> RoundRows(P)], NEW q \in Rounds, NEW status
    PROVE  \A r \in Rounds : /\ WithStatus(q, status)[r].final = round[r].final
                             /\ WithStatus(q, status)[r].players = round[r].players
<1> DEFINE row == [round[q] EXCEPT !.status = status]
<1>1. round[q] \in RoundRows(P)
  OBVIOUS
<1>2. row.final = round[q].final /\ row.players = round[q].players
  BY <1>1 DEF RoundRows
<1>3. WithStatus(q, status) = [round EXCEPT ![q] = row]
  BY DEF WithStatus
<1> HIDE DEF row
<1> QED
  BY <1>2, <1>3

LEMMA HoldHolds ==
    ASSUME BInv, NEW h \in Handlers, Ends(h), Writes(h), HoldSlot(tx[h].cmd)
    PROVE  BracketHolds' /\ TxHolds' /\ EndStands
<1> PICK c : c = tx[h].cmd
  OBVIOUS
<1> PICK s : s = c.room
  OBVIOUS
<1> PICK q : q = s[1]
  OBVIOUS
<1>1. /\ s \in Slots /\ slot[s] = "assigned" /\ advancement[s] = <<>>
      /\ q \in Rounds /\ round[q].status \notin {"none", "pending", "completed"}
      /\ phase = "in_progress" /\ ~TerminalNow
  BY WriterFacts
<1>2. /\ slot' = [slot EXCEPT ![s] = "quarantined"]
      /\ round' = WithStatus(q, "blocked")
      /\ count' = [count EXCEPT ![q][Shard(s)].quarantined = @ + 1]
      /\ UNCHANGED <<phase, champion, advancement, advanced, outbox>>
  BY <1>1 DEF HoldSlot, BlockRound, WithStatus
<1>3. /\ \A x \in Slots : slot'[x] = IF x = s THEN "quarantined" ELSE slot[x]
      /\ \A x \in Slots : advancement'[x] = IF x = s THEN <<>> ELSE advancement[x]
  <2>1. slot \in [Slots -> SlotStatuses]
    BY DEF BInv, IInv, Shaped
  <2> QED
    BY <1>1, <1>2, <2>1
<1>4. /\ count' \in [Rounds -> [ShardIds -> ShardRow]]
      /\ \A r \in Rounds, k \in ShardIds : (r # q \/ k # Shard(s)) => count'[r][k] = count[r][k]
      /\ count'[q][Shard(s)].assigned = count[q][Shard(s)].assigned
      /\ count'[q][Shard(s)].resolved = count[q][Shard(s)].resolved
      /\ count'[q][Shard(s)].quarantined = count[q][Shard(s)].quarantined + 1
      /\ count'[q][Shard(s)].advancing = count[q][Shard(s)].advancing
      /\ count[q][Shard(s)].advancing \in Nat
  <2>1. count \in [Rounds -> [ShardIds -> ShardRow]]
    BY DEF BInv, BracketHolds, Sized, ShardRow
  <2>2. PICK k0 : k0 = Shard(s)
    OBVIOUS
  <2>3. q \in Rounds /\ k0 \in ShardIds
    BY <1>1, <2>2, ShardFacts
  <2>4. PICK old : old = count[q][k0]
    OBVIOUS
  <2>5. old \in ShardRow
    BY <2>1, <2>3, <2>4
  <2>6. PICK row : row = [old EXCEPT !.quarantined = old.quarantined + 1]
    OBVIOUS
  <2>7. /\ row \in ShardRow /\ row.assigned = old.assigned /\ row.resolved = old.resolved
        /\ row.quarantined = old.quarantined + 1 /\ row.advancing = old.advancing /\ old.advancing \in Nat
    BY ONLY <2>5, <2>6 DEF ShardRow
  <2>8. count' = [count EXCEPT ![q][k0] = row]
    BY ONLY <1>2, <2>2, <2>4, <2>6
  <2>9. /\ count' \in [Rounds -> [ShardIds -> ShardRow]] /\ count'[q][k0] = row
        /\ \A r \in Rounds, j \in ShardIds : (r # q \/ j # k0) => count'[r][j] = count[r][j]
    BY ONLY <2>1, <2>3, <2>7, <2>8, CountChanged
  <2> QED
    BY <2>2, <2>4, <2>7, <2>9
<1>5. CountsAreSlots' /\ AssignedAreCounted'
  <2>1. slot \in [Slots -> SlotStatuses] /\ Sized /\ CountsAreSlots /\ AssignedAreCounted
    BY DEF BInv, IInv, Shaped, BracketHolds
  <2>2. PICK status, players : status = "quarantined" /\ players = <<>>
    OBVIOUS
  <2>3. /\ status \in {"advanced", "result_recorded", "quarantined"}
        /\ Len(players) \in Nat /\ Len(players) = 0 /\ (status = "quarantined" => players = <<>>)
    BY <2>2
  <2>4. CountedOnce(s, status, players)
    <3>1. PICK old, new : old = count[q][Shard(s)] /\ new = count'[q][Shard(s)]
      OBVIOUS
    <3>2. /\ new.assigned = old.assigned /\ new.resolved = old.resolved
          /\ new.quarantined = old.quarantined + 1 /\ new.advancing = old.advancing
          /\ old.advancing \in Nat
      BY ONLY <1>4, <3>1
    <3>3. old.advancing = old.advancing + Len(players)
      BY ONLY <2>3, <3>2
    <3>4. q = s[1]
      OBVIOUS
    <3>5. \A r \in Rounds, k \in ShardIds : (r # q \/ k # Shard(s)) => count'[r][k] = count[r][k]
      BY ONLY <1>4
    <3> QED
      BY ONLY <2>2, <3>1, <3>2, <3>3, <3>4, <3>5 DEF CountedOnce
  <2>5. s \in Slots /\ SlotWritten(s, status, players)
    BY ONLY <1>1, <1>3, <2>2 DEF SlotWritten
  <2> QED
    BY ONLY <2>1, <2>3, <2>4, <2>5, SlotCounted
<1>6. /\ round \in [Rounds -> RoundRows(Nat)] /\ "blocked" \in RoundStatuses
      /\ round' \in [Rounds -> RoundRows(Nat)] /\ round'[q].status = "blocked"
      /\ \A r \in Rounds \ {q} : round'[r] = round[r]
      /\ \A r \in Rounds : round'[r].final = round[r].final /\ round'[r].players = round[r].players
  <2>1. round \in [Rounds -> RoundRows(Nat)] /\ "blocked" \in RoundStatuses
    BY DEF BInv, BracketHolds, Sized, RoundStatuses
  <2>2. q \in Rounds /\ round' = WithStatus(q, "blocked")
    BY ONLY <1>1, <1>2
  <2>3. /\ round' \in [Rounds -> RoundRows(Nat)] /\ round'[q].status = "blocked"
        /\ \A r \in Rounds \ {q} : round'[r] = round[r]
    BY ONLY <2>1, <2>2, StatusChanged
  <2>4. \A r \in Rounds : round'[r].final = round[r].final /\ round'[r].players = round[r].players
    BY ONLY <2>1, <2>2, OnlyStatus
  <2> QED
    BY ONLY <2>1, <2>3, <2>4
<1>7. Sized' /\ SentOnce'
  BY <1>2, <1>4, <1>6 DEF BInv, BracketHolds, Sized, SentOnce, ShardRow
<1>8. CompletedIsWhole'
  <2> SUFFICES ASSUME NEW r \in Rounds, round'[r].status = "completed"
               PROVE  /\ \A i \in SlotIndexes : slot'[<<r, i>>] \in {"none", "advanced", "result_recorded"}
                      /\ \/ round'[r].final
                         \/ round'[r + 1].players = Cardinality({row.player : row \in {row \in advanced' : row.round = r}})
    BY DEF CompletedIsWhole, NormalizedAdvancingPlayers
  <2>1. r # q /\ round[r].status = "completed"
    BY <1>6
  <2>2. \A i \in SlotIndexes : slot'[<<r, i>>] = slot[<<r, i>>]
    BY <1>3, <2>1, ShardFacts
  <2>3. /\ \A i \in SlotIndexes : slot[<<r, i>>] \in {"none", "advanced", "result_recorded"}
        /\ \/ round[r].final
           \/ round[r + 1].players = Cardinality({row.player : row \in {row \in advanced : row.round = r}})
    BY <2>1 DEF BInv, BracketHolds, CompletedIsWhole, NormalizedAdvancingPlayers
  <2>4. round[r].final \/ round'[r + 1].players = round[r + 1].players
    BY <1>6, <2>1 DEF BInv, BracketHolds, NextRoundIsThere
  <2> QED
    BY <1>2, <1>6, <2>2, <2>3, <2>4
<1>9. QuarantinedBlocks'
  <2>1. \A x \in Slots : x[1] \in Rounds
    BY ShardFacts
  <2>2. \A x \in Slots : slot'[x] = "quarantined" => x = s \/ slot[x] = "quarantined"
    BY <1>3
  <2> QED
    BY <1>6, <2>1, <2>2 DEF BInv, BracketHolds, QuarantinedBlocks
<1>10. Announced'
  <2>1. \A x \in Slots : slot'[x] \in {"advanced", "result_recorded"} <=> slot[x] \in {"advanced", "result_recorded"}
    BY <1>1, <1>3
  <2> QED
    BY <1>2, <2>1 DEF BInv, BracketHolds, Announced, AnnouncementsOf, Resolved
<1>11. RoundsInTurn' /\ NextRoundIsThere'
  BY <1>1, <1>6 DEF BInv, BracketHolds, RoundsInTurn, NextRoundIsThere
<1>12. TxHolds'
  BY <1>2, TxAfterChange DEF BInv, WorkHolds, TxHolds
<1>13. EndStands
  BY <1>1 DEF EndStands
<1> QED
  BY <1>5, <1>7, <1>8, <1>9, <1>10, <1>11, <1>12, <1>13 DEF BracketHolds

LEMMA CompleteHolds ==
    ASSUME BInv, NEW h \in Handlers, Ends(h), Completes(h), CompleteRound(tx[h].cmd)
    PROVE  BracketHolds' /\ TxHolds' /\ EndStands
<1> PICK q : q = tx[h].cmd.round
  OBVIOUS
<1> PICK p : p = RemainingPlayers(q)
  OBVIOUS
<1> PICK new : new = [status |-> "pending", final |-> ComputeRoundSlotPlan(p).final, players |-> p]
  OBVIOUS
<1>1. /\ q \in Rounds /\ round[q].status = "in_progress"
      /\ RoundReady(q) /\ NoDrift(q) /\ phase = "in_progress" /\ ~TerminalNow
  BY DEF BInv, IInv, DecisionKinds, WorkHolds, CompletionHolds, StillRunning, Completes, RoundReady, TerminalNow, Terminal
<1>2. /\ UNCHANGED <<slot, count, result, ledger, advancement, advanced>>
      /\ phase' \in {"in_progress", "completed"}
      /\ \/ round[q].final /\ round' = WithStatus(q, "completed")
         \/ /\ ~round[q].final /\ q + 1 \in Rounds
            /\ round' = [round EXCEPT ![q].status = "completed", ![q + 1] = new]
      /\ \A f \in outbox' : f \in outbox \/ f.fact # "result_recorded"
      /\ outbox \subseteq outbox'
  BY <1>1 DEF CompleteRound, InsertNextRoundSeeding, WithStatus, Publish
<1>3. AdvancingCount(q) \in Nat
  <2> DEFINE f == [k \in ShardIds |-> count[q][k].advancing]
  <2>1. f \in [ShardIds -> Nat]
    BY <1>1 DEF BInv, BracketHolds, Sized
  <2>2. AdvancingCount(q) = SumOf(f)
    BY DEF AdvancingCount
  <2> HIDE DEF f
  <2> QED
    BY <2>1, <2>2, ShardFacts, SumIsNat
<1>4. new \in RoundRows(Nat) /\ new.status = "pending" /\ new.players = p
  <2>1. ComputeRoundSlotPlan(p).final \in BOOLEAN
    BY DEF ComputeRoundSlotPlan
  <2> QED
    BY <1>3, <2>1 DEF RoundRows, RoundStatuses, RemainingPlayers
<1>5. q + 1 \in Rounds => round[q + 1].status = "none" /\ q + 1 # q
  BY <1>1 DEF BInv, IInv, InOrder, Rounds
<1>6. /\ round' \in [Rounds -> RoundRows(Nat)]
      /\ round'[q].status = "completed" /\ round'[q].final = round[q].final /\ round'[q].players = round[q].players
      /\ \A r \in Rounds \ {q} : round'[r] = round[r] \/ (r = q + 1 /\ ~round[q].final /\ round'[r] = new)
      /\ round[q].final \/ (q + 1 \in Rounds /\ round'[q + 1] = new)
  <2>1. round \in [Rounds -> RoundRows(Nat)] /\ "completed" \in RoundStatuses
    BY DEF BInv, BracketHolds, Sized, RoundStatuses
  <2>2. PICK done : done = WithStatus(q, "completed")
    OBVIOUS
  <2>3. /\ done \in [Rounds -> RoundRows(Nat)]
        /\ done[q].status = "completed" /\ \A r \in Rounds \ {q} : done[r] = round[r]
    BY <1>1, <2>1, <2>2, StatusChanged
  <2>4. done[q].final = round[q].final /\ done[q].players = round[q].players
    BY <1>1, <2>1, <2>2, OnlyStatus
  <2>5. PICK next : next = q + 1
    OBVIOUS
  <2>6. \/ round[q].final /\ round' = done
        \/ ~round[q].final /\ next \in Rounds /\ round' = [done EXCEPT ![next] = new]
    BY <1>2, <2>2, <2>5 DEF WithStatus
  <2>7. next \in Rounds => next # q
    BY <1>5, <2>5
  <2>8. /\ round' \in [Rounds -> RoundRows(Nat)]
        /\ round'[q] = done[q]
        /\ \A r \in Rounds \ {q} : round'[r] = round[r] \/ (r = next /\ ~round[q].final /\ round'[r] = new)
        /\ round[q].final \/ (next \in Rounds /\ round'[next] = new)
    BY ONLY <1>1, <1>4, <2>3, <2>6, <2>7
  <2> QED
    BY ONLY <2>3, <2>4, <2>5, <2>8
<1>7. Sized' /\ SentOnce'
  BY <1>2, <1>6 DEF BInv, BracketHolds, Sized, SentOnce, Terminal
<1>8. CountsAreSlots' /\ AssignedAreCounted'
  <2>1. \A r \in Rounds, k \in ShardIds : ShardCounts(r, k)'
    BY <1>2, CountsByShard, ShardCountsSame DEF BInv, BracketHolds
  <2> QED
    BY <2>1, CountsByShard DEF CountsAreSlots, AssignedAreCounted, ShardCounts, InShard
<1>9. CompletedIsWhole'
  <2> SUFFICES ASSUME NEW r \in Rounds, round'[r].status = "completed"
               PROVE  /\ \A i \in SlotIndexes : slot'[<<r, i>>] \in {"none", "advanced", "result_recorded"}
                      /\ \/ round'[r].final
                         \/ round'[r + 1].players = Cardinality({row.player : row \in {row \in advanced' : row.round = r}})
    BY DEF CompletedIsWhole, NormalizedAdvancingPlayers
  <2>1. CASE r = q
    <3>1. \A i \in SlotIndexes : slot[<<r, i>>] \in {"none", "advanced", "result_recorded"}
      <4>1. Sized /\ slot \in [Slots -> SlotStatuses] /\ CountsAreSlots /\ AssignedAreCounted
        BY DEF BInv, IInv, Shaped, BracketHolds
      <4> QED
        BY <1>1, <2>1, <4>1, ReadyIsResolved
    <3>2. p = Cardinality({row.player : row \in {row \in advanced : row.round = r}})
      <4>1. p = Cardinality(NormalizedAdvancingPlayers(q))
        BY <1>1 DEF RemainingPlayers, NoDrift
      <4>2. Cardinality({row.player : row \in NormalizedAdvancingPlayers(q)}) = Cardinality(NormalizedAdvancingPlayers(q))
        BY PlayersAreRows DEF BInv, BracketHolds, Sized
      <4> QED
        BY <2>1, <4>1, <4>2 DEF NormalizedAdvancingPlayers
    <3> QED
      BY <1>2, <1>4, <1>6, <2>1, <3>1, <3>2
  <2>2. CASE r # q
    <3>1. round'[r] = round[r] /\ round[r].status = "completed"
      BY <1>4, <1>6, <2>2
    <3>2. /\ \A i \in SlotIndexes : slot[<<r, i>>] \in {"none", "advanced", "result_recorded"}
          /\ \/ round[r].final
             \/ round[r + 1].players = Cardinality({row.player : row \in {row \in advanced : row.round = r}})
      BY <3>1 DEF BInv, BracketHolds, CompletedIsWhole, NormalizedAdvancingPlayers
    <3>3. round[r].final \/ round'[r + 1].players = round[r + 1].players
      <4>1. r + 1 # q + 1
        BY <1>1, <2>2 DEF Rounds
      <4>2. round[r].final \/ r + 1 \in Rounds
        BY <3>1 DEF BInv, BracketHolds, NextRoundIsThere
      <4> QED
        BY <1>6, <4>1, <4>2
    <3> QED
      BY <1>2, <3>1, <3>2, <3>3
  <2> QED
    BY <2>1, <2>2
<1>10. QuarantinedBlocks'
  <2> SUFFICES ASSUME NEW x \in Slots, slot[x] = "quarantined" PROVE round'[x[1]].status = "blocked"
    BY <1>2 DEF QuarantinedBlocks
  <2>1. round[x[1]].status = "blocked" /\ x[1] \in Rounds
    BY ShardFacts DEF BInv, BracketHolds, QuarantinedBlocks
  <2>2. x[1] # q /\ x[1] # q + 1
    BY <1>1, <1>5, <2>1
  <2> QED
    BY <1>6, <2>1, <2>2
<1>11. Announced'
  <2>1. \A x : {g \in outbox' : g.fact = "result_recorded" /\ g.of = x} = {g \in outbox : g.fact = "result_recorded" /\ g.of = x}
    BY <1>2
  <2>2. \A x : AnnouncementsOf(x)' = AnnouncementsOf(x)
    BY <2>1 DEF AnnouncementsOf
  <2> QED
    BY <1>2, <2>2 DEF BInv, BracketHolds, Announced, Resolved
<1>12. RoundsInTurn'
  <2> SUFFICES ASSUME NEW f \in Rounds, NEW r \in Rounds, f < r, round'[r].status # "none"
               PROVE  round'[f].status = "completed"
    BY DEF RoundsInTurn
  <2>1. \A x, y \in Rounds : x < y /\ round[y].status # "none" => round[x].status = "completed"
    BY DEF BInv, BracketHolds, RoundsInTurn
  <2>2. f \in Nat /\ r \in Nat /\ q \in Nat
    BY <1>1 DEF Rounds
  <2>3. CASE f = q
    BY <1>6, <2>3
  <2>4. CASE f # q /\ r = q + 1
    <3>1. f < q
      BY <2>2, <2>4
    <3>2. round[f].status = "completed"
      BY <1>1, <2>1, <3>1
    <3> QED
      BY <1>6, <2>2, <2>4, <3>1, <3>2
  <2>5. CASE f # q /\ r # q + 1
    <3>1. round[r].status # "none"
      BY <1>1, <1>6, <2>5
    <3>2. round[f].status = "completed"
      BY <2>1, <3>1
    <3>3. f # q + 1
      BY <1>5, <3>2
    <3> QED
      BY <1>6, <2>5, <3>2, <3>3
  <2> QED
    BY <2>3, <2>4, <2>5
<1>13. NextRoundIsThere'
  <2> SUFFICES ASSUME NEW r \in Rounds, round'[r].status = "completed" PROVE round'[r].final \/ r + 1 \in Rounds
    BY DEF NextRoundIsThere
  <2>1. CASE r = q
    BY <1>6, <2>1
  <2>2. CASE r # q
    BY <1>4, <1>6, <2>2 DEF BInv, BracketHolds, NextRoundIsThere
  <2> QED
    BY <2>1, <2>2
<1>14. TxHolds'
  BY TxAfterChange DEF BInv, WorkHolds, TxHolds
<1>15. EndStands
  BY <1>1 DEF EndStands
<1> QED
  BY <1>7, <1>8, <1>9, <1>10, <1>11, <1>12, <1>13, <1>14, <1>15 DEF BracketHolds

LEMMA CancelHolds ==
    ASSUME BInv, NEW h \in Handlers, Ends(h), Cancels(h), CancelTournament
    PROVE  BracketHolds' /\ TxHolds' /\ EndStands
<1>1. /\ UNCHANGED <<champion, round, slot, count, result, ledger, advancement, advanced, outbox>>
      /\ phase' = "cancelled" /\ ~TerminalNow
  BY DEF CancelTournament, BInv, WorkHolds, StillRunning, TerminalNow, Terminal
<1>2. Sized' /\ SentOnce' /\ QuarantinedBlocks' /\ RoundsInTurn' /\ NextRoundIsThere'
  BY <1>1 DEF BInv, BracketHolds, Sized, SentOnce, QuarantinedBlocks, RoundsInTurn, NextRoundIsThere, Terminal
<1>3. CountsAreSlots' /\ AssignedAreCounted'
  <2>1. \A r \in Rounds, k \in ShardIds : ShardCounts(r, k)'
    BY <1>1, CountsByShard, ShardCountsSame DEF BInv, BracketHolds
  <2> QED
    BY <2>1, CountsByShard DEF CountsAreSlots, AssignedAreCounted, ShardCounts, InShard
<1>4. CompletedIsWhole' /\ Announced'
  BY <1>1 DEF BInv, BracketHolds, CompletedIsWhole, NormalizedAdvancingPlayers, Announced, AnnouncementsOf, Resolved
<1>5. TxHolds'
  BY TxAfterChange DEF BInv, WorkHolds, TxHolds
<1>6. EndStands
  BY <1>1 DEF EndStands
<1> QED
  BY <1>2, <1>3, <1>4, <1>5, <1>6 DEF BracketHolds

LEMMA CommitHolds ==
    ASSUME BInv, NEW h \in Handlers, Ends(h), Commit(h)
    PROVE  BracketHolds' /\ TxHolds' /\ EndStands
<1> PICK c : c = tx[h].cmd
  OBVIOUS
<1>1. Open(h) /\ Apply(c, tx[h].decision)
  BY DEF Commit
<1>2. CASE c.type = "record" /\ tx[h].decision = "record" /\ RecordResult(c)
  BY <1>1, <1>2, RecordHolds DEF Writes
<1>3. CASE c.type = "record" /\ tx[h].decision = "hold" /\ HoldSlot(c)
  BY <1>1, <1>3, HoldHolds DEF Writes
<1>4. CASE UNCHANGED BracketTables
  <2>1. BracketHolds'
    BY <1>4, BracketSame DEF BInv
  <2>2. TxHolds'
    BY <1>4, EndsLeaves, TxSame DEF BInv, WorkHolds, TxHolds
  <2>3. EndStands
    BY <1>4 DEF EndStands, BracketTables
  <2> QED
    BY <2>1, <2>2, <2>3
<1>5. CASE InsertQuarantineLedger(c) \/ InsertQuarantined(c) \/ UNCHANGED Tables
  <2>1. UNCHANGED BracketTables
    BY <1>5, TablesHoldBracket DEF InsertQuarantineLedger, InsertQuarantined, BracketTables
  <2> QED
    BY <1>4, <2>1
<1>6. CASE c.type = "complete" /\ tx[h].decision = "success" /\ CompleteRound(c)
  BY <1>1, <1>6, CompleteHolds DEF Completes
<1>7. CASE c.type = "cancel" /\ tx[h].decision = "success" /\ CancelTournament
  BY <1>1, <1>7, CancelHolds DEF Cancels
<1> QED
  BY <1>1, <1>2, <1>3, <1>5, <1>6, <1>7 DEF Apply

-----------------------------------------------------------------------------
(* A round opens                                                           *)

LEMMA SlotsOfPlan ==
    ASSUME NEW n \in Nat PROVE IsFiniteSet(0 .. ComputeRoundSlotPlan(n).slots - 1)
<1> PICK k : k = ComputeRoundSlotPlan(n).slots
  OBVIOUS
<1>1. k \in Int
  <2>1. CASE n <= FinalThreshold
    BY <2>1 DEF ComputeRoundSlotPlan
  <2>2. CASE ~(n <= FinalThreshold)
    <3>1. PlayersPerRoom \in Nat \ {0}
      BY RoundResultsAssumption
    <3>2. k = ((n + PlayersPerRoom - 1) \div PlayersPerRoom)
      BY <2>2 DEF ComputeRoundSlotPlan
    <3> QED
      BY <3>1, <3>2
  <2> QED
    BY <2>1, <2>2
<1>2. 0 \in Int /\ k - 1 \in Int
  BY <1>1
<1> QED
  BY <1>2, FS_Interval

\* The counts a round starts with.
LEMMA CountedFacts ==
    ASSUME NEW slots, IsFiniteSet(slots)
    PROVE  /\ Counted(slots) \in [ShardIds -> ShardRow]
           /\ \A k \in ShardIds :
                 /\ IsFiniteSet(InShard(slots, k))
                 /\ Counted(slots)[k].assigned = Cardinality(InShard(slots, k)) /\ Counted(slots)[k].resolved = 0
                 /\ Counted(slots)[k].quarantined = 0 /\ Counted(slots)[k].advancing = 0
<1>1. \A k \in ShardIds : IsFiniteSet(InShard(slots, k)) /\ Cardinality(InShard(slots, k)) \in Nat
  <2>1. \A k \in ShardIds : InShard(slots, k) \in SUBSET slots
    BY DEF InShard
  <2>2. \A k \in ShardIds : IsFiniteSet(InShard(slots, k))
    BY <2>1, FS_Subset
  <2> QED
    BY <2>2, FS_CardinalityType
<1>2. ASSUME NEW k \in ShardIds
      PROVE  /\ Counted(slots)[k] \in ShardRow
             /\ Counted(slots)[k].assigned = Cardinality(InShard(slots, k)) /\ Counted(slots)[k].resolved = 0
             /\ Counted(slots)[k].quarantined = 0 /\ Counted(slots)[k].advancing = 0
  <2>1. PICK n, row : n = Cardinality(InShard(slots, k)) /\ row = Counted(slots)[k]
    OBVIOUS
  <2>2. row = [Zero EXCEPT !.assigned = n]
    BY <2>1 DEF Counted
  <2>3. row = [assigned |-> n, resolved |-> 0, quarantined |-> 0, advancing |-> 0]
    BY <2>2 DEF Zero
  <2>4. n \in Nat
    BY <1>1, <2>1
  <2>5. row \in ShardRow /\ row.assigned = n /\ row.resolved = 0 /\ row.quarantined = 0 /\ row.advancing = 0
    BY ONLY <2>3, <2>4 DEF ShardRow
  <2> QED
    BY ONLY <2>1, <2>5
<1>3. Counted(slots) \in [ShardIds -> ShardRow]
  <2>1. Counted(slots) = [k \in ShardIds |-> Counted(slots)[k]]
    BY DEF Counted
  <2> HIDE DEF Counted
  <2> QED
    BY <1>2, <2>1
<1> QED
  BY <1>1, <1>2, <1>3

\* A round of slots that all wait for their result.
LEMMA CountedHolds ==
    ASSUME NEW r \in Rounds, NEW slots, IsFiniteSet(slots),
           \A i \in SlotIndexes : slot'[<<r, i>>] = IF i \in slots THEN "assigned" ELSE "none",
           \A i \in SlotIndexes : advancement'[<<r, i>>] = <<>>,
           count'[r] = Counted(slots), NEW k \in ShardIds
    PROVE  ShardCounts(r, k)'
<1>1. PICK mine : mine = InShard(SlotIndexes, k)
  OBVIOUS
<1>2. \A i \in mine : slot'[<<r, i>>] = (IF i \in slots THEN "assigned" ELSE "none") /\ advancement'[<<r, i>>] = <<>>
  BY <1>1, ShardFacts
<1>3. {i \in mine : slot'[<<r, i>>] \in {"advanced", "result_recorded"}} = {} /\ {i \in mine : slot'[<<r, i>>] = "quarantined"} = {}
  BY <1>2
<1>4. {i \in mine : slot'[<<r, i>>] # "none"} \in SUBSET InShard(slots, k)
  BY <1>1, <1>2, ShardFacts DEF InShard
<1>5. Cardinality({i \in mine : slot'[<<r, i>>] # "none"}) <= Cardinality(InShard(slots, k))
  BY <1>4, CountedFacts, FS_Subset
<1>6. PlayersSent(r, mine)' = 0
  <2> DEFINE f == [i \in mine |-> 0]
  <2>1. [i \in mine |-> Len(advancement'[<<r, i>>])] = f
    BY <1>2
  <2>2. PlayersSent(r, mine)' = SumOf(f)
    BY <2>1 DEF PlayersSent
  <2>3. f \in [mine -> Nat] /\ \A i \in mine : f[i] = 0
    OBVIOUS
  <2> HIDE DEF f
  <2> QED
    BY <2>2, <2>3, SumOfZeros
<1>7. /\ count'[r][k].resolved = 0 /\ count'[r][k].quarantined = 0 /\ count'[r][k].advancing = 0
      /\ count'[r][k].assigned = Cardinality(InShard(slots, k))
  BY CountedFacts
<1>8. /\ count'[r][k].resolved = Cardinality({i \in mine : Resolved(<<r, i>>)})'
      /\ count'[r][k].quarantined = Cardinality({i \in mine : slot'[<<r, i>>] = "quarantined"})
      /\ count'[r][k].advancing = PlayersSent(r, mine)'
      /\ Cardinality({i \in mine : slot'[<<r, i>>] # "none"}) <= count'[r][k].assigned
  <2>1. Cardinality({}) = 0
    BY FS_EmptySet
  <2> QED
    BY <1>3, <1>5, <1>6, <1>7, <2>1 DEF Resolved
<1> QED
  BY <1>1, <1>8 DEF ShardCounts, InShard

\* The same of the rounds at the start.
LEMMA CountedAtFirst ==
    ASSUME NEW r \in Rounds, NEW slots, IsFiniteSet(slots),
           \A i \in SlotIndexes : slot[<<r, i>>] = IF i \in slots THEN "assigned" ELSE "none",
           \A i \in SlotIndexes : advancement[<<r, i>>] = <<>>,
           count[r] = Counted(slots), NEW k \in ShardIds
    PROVE  ShardCounts(r, k)
<1>1. PICK mine : mine = InShard(SlotIndexes, k)
  OBVIOUS
<1>2. \A i \in mine : slot[<<r, i>>] = (IF i \in slots THEN "assigned" ELSE "none") /\ advancement[<<r, i>>] = <<>>
  BY <1>1, ShardFacts
<1>3. {i \in mine : slot[<<r, i>>] \in {"advanced", "result_recorded"}} = {} /\ {i \in mine : slot[<<r, i>>] = "quarantined"} = {}
  BY <1>2
<1>4. {i \in mine : slot[<<r, i>>] # "none"} \in SUBSET InShard(slots, k)
  BY <1>1, <1>2, ShardFacts DEF InShard
<1>5. Cardinality({i \in mine : slot[<<r, i>>] # "none"}) <= Cardinality(InShard(slots, k))
  BY <1>4, CountedFacts, FS_Subset
<1>6. PlayersSent(r, mine) = 0
  <2> DEFINE f == [i \in mine |-> 0]
  <2>1. [i \in mine |-> Len(advancement[<<r, i>>])] = f
    BY <1>2
  <2>2. PlayersSent(r, mine) = SumOf(f)
    BY <2>1 DEF PlayersSent
  <2>3. f \in [mine -> Nat] /\ \A i \in mine : f[i] = 0
    OBVIOUS
  <2> HIDE DEF f
  <2> QED
    BY <2>2, <2>3, SumOfZeros
<1>7. /\ count[r][k].resolved = 0 /\ count[r][k].quarantined = 0 /\ count[r][k].advancing = 0
      /\ count[r][k].assigned = Cardinality(InShard(slots, k))
  BY CountedFacts
<1>8. /\ count[r][k].resolved = Cardinality({i \in mine : Resolved(<<r, i>>)})
      /\ count[r][k].quarantined = Cardinality({i \in mine : slot[<<r, i>>] = "quarantined"})
      /\ count[r][k].advancing = PlayersSent(r, mine)
      /\ Cardinality({i \in mine : slot[<<r, i>>] # "none"}) <= count[r][k].assigned
  <2>1. Cardinality({}) = 0
    BY FS_EmptySet
  <2> QED
    BY <1>3, <1>5, <1>6, <1>7, <2>1 DEF Resolved
<1> QED
  BY <1>1, <1>8 DEF ShardCounts, InShard

LEMMA OpenRoundHolds ==
    ASSUME BInv, NEW q \in Rounds, OpenNextRound(q) PROVE BracketHolds' /\ TxHolds' /\ EndStands
<1> PICK slots : slots = 0 .. ComputeRoundSlotPlan(round[q].players).slots - 1
  OBVIOUS
<1>1. /\ round[q].status = "pending" /\ phase = "in_progress"
      /\ round' = WithStatus(q, "in_progress")
      /\ slot' = [s \in Slots |-> IF s \in {q} \X slots THEN "assigned" ELSE slot[s]]
      /\ count' = [count EXCEPT ![q] = Counted(slots)]
      /\ UNCHANGED <<phase, champion, advancement, advanced, outbox, tx>>
  BY DEF OpenNextRound, WithStatus
<1>2. IsFiniteSet(slots)
  BY SlotsOfPlan DEF BInv, BracketHolds, Sized, RoundRows
<1>3. /\ round \in [Rounds -> RoundRows(Nat)]
      /\ round' \in [Rounds -> RoundRows(Nat)] /\ round'[q].status = "in_progress"
      /\ \A r \in Rounds \ {q} : round'[r] = round[r]
      /\ \A r \in Rounds : round'[r].final = round[r].final /\ round'[r].players = round[r].players
  <2>1. round \in [Rounds -> RoundRows(Nat)] /\ "in_progress" \in RoundStatuses
    BY DEF BInv, BracketHolds, Sized, RoundStatuses
  <2>2. /\ round' \in [Rounds -> RoundRows(Nat)] /\ round'[q].status = "in_progress"
        /\ \A r \in Rounds \ {q} : round'[r] = round[r]
    BY <1>1, <2>1, StatusChanged
  <2>3. \A r \in Rounds : round'[r].final = round[r].final /\ round'[r].players = round[r].players
    BY <1>1, <2>1, OnlyStatus
  <2> QED
    BY <2>1, <2>2, <2>3
<1>4. \A s \in Slots : s[1] = q => slot[s] = "none" /\ advancement[s] = <<>>
  <2> SUFFICES ASSUME NEW s \in Slots, s[1] = q PROVE slot[s] = "none" /\ advancement[s] = <<>>
    OBVIOUS
  <2>1. slot[s] = "none"
    BY <1>1 DEF BInv, IInv, UnopenedIsEmpty
  <2> QED
    BY <2>1 DEF BInv, IInv, SentIsResolved, Resolved
<1>5. /\ \A i \in SlotIndexes : slot'[<<q, i>>] = IF i \in slots THEN "assigned" ELSE "none"
      /\ \A s \in Slots : s[1] # q => slot'[s] = slot[s]
      /\ \A i \in SlotIndexes : advancement'[<<q, i>>] = <<>>
  <2>1. ASSUME NEW i \in SlotIndexes
        PROVE  slot'[<<q, i>>] = (IF i \in slots THEN "assigned" ELSE "none") /\ advancement'[<<q, i>>] = <<>>
    <3>1. <<q, i>> \in Slots
      BY ShardFacts
    <3>2. <<q, i>> \in {q} \X slots <=> i \in slots
      OBVIOUS
    <3> QED
      BY <1>1, <1>4, <3>1, <3>2
  <2>2. \A s \in Slots : s[1] # q => slot'[s] = slot[s]
    BY <1>1
  <2> QED
    BY <2>1, <2>2
<1>6. /\ count \in [Rounds -> [ShardIds -> ShardRow]] /\ count'[q] = Counted(slots)
      /\ \A r \in Rounds \ {q} : count'[r] = count[r]
  BY <1>1 DEF BInv, BracketHolds, Sized, ShardRow
<1>7. count'[q] \in [ShardIds -> ShardRow] /\ \A k \in ShardIds : ShardCounts(q, k)'
  BY <1>2, <1>5, <1>6, CountedHolds, CountedFacts
<1>8. Sized' /\ SentOnce'
  <2>1. count' \in [Rounds -> [ShardIds -> ShardRow]]
    <3>1. count' = [count EXCEPT ![q] = count'[q]]
      BY <1>1, <1>6
    <3>2. PICK row : row = count'[q]
      OBVIOUS
    <3> QED
      BY <1>6, <1>7, <3>1, <3>2
  <2> QED
    BY <1>1, <1>3, <2>1 DEF BInv, BracketHolds, Sized, SentOnce, ShardRow
<1>9. CountsAreSlots' /\ AssignedAreCounted'
  <2>1. ASSUME NEW r \in Rounds, NEW k \in ShardIds, r # q PROVE ShardCounts(r, k)'
    <3>1. ShardCounts(r, k)
      BY CountsByShard DEF BInv, BracketHolds
    <3>2. count'[r][k] = count[r][k]
      BY <1>6, <2>1
    <3>3. \A i \in InShard(SlotIndexes, k) :
              slot'[<<r, i>>] = slot[<<r, i>>] /\ advancement'[<<r, i>>] = advancement[<<r, i>>]
      BY <1>1, <1>5, <2>1, ShardFacts
    <3> QED
      BY <3>1, <3>2, <3>3, ShardCountsSame
  <2>2. \A r \in Rounds, k \in ShardIds : ShardCounts(r, k)'
    BY <1>7, <2>1
  <2> QED
    BY <2>2, CountsByShard DEF CountsAreSlots, AssignedAreCounted, ShardCounts, InShard
<1>10. CompletedIsWhole'
  <2> SUFFICES ASSUME NEW r \in Rounds, round'[r].status = "completed"
               PROVE  /\ \A i \in SlotIndexes : slot'[<<r, i>>] \in {"none", "advanced", "result_recorded"}
                      /\ \/ round'[r].final
                         \/ round'[r + 1].players = Cardinality({row.player : row \in {row \in advanced' : row.round = r}})
    BY DEF CompletedIsWhole, NormalizedAdvancingPlayers
  <2>1. r # q /\ round[r].status = "completed"
    BY <1>3
  <2>2. \A i \in SlotIndexes : slot'[<<r, i>>] = slot[<<r, i>>]
    BY <1>5, <2>1, ShardFacts
  <2>3. /\ \A i \in SlotIndexes : slot[<<r, i>>] \in {"none", "advanced", "result_recorded"}
        /\ \/ round[r].final
           \/ round[r + 1].players = Cardinality({row.player : row \in {row \in advanced : row.round = r}})
    BY <2>1 DEF BInv, BracketHolds, CompletedIsWhole, NormalizedAdvancingPlayers
  <2>4. round[r].final \/ round'[r + 1].players = round[r + 1].players
    BY <1>3, <2>1 DEF BInv, BracketHolds, NextRoundIsThere
  <2> QED
    BY <1>1, <1>3, <2>2, <2>3, <2>4
<1>11. QuarantinedBlocks'
  <2> SUFFICES ASSUME NEW x \in Slots, slot'[x] = "quarantined" PROVE round'[x[1]].status = "blocked"
    BY DEF QuarantinedBlocks
  <2>1. x = <<x[1], x[2]>> /\ x[1] \in Rounds /\ x[2] \in SlotIndexes
    BY ShardFacts
  <2>2. x[1] # q
    BY <1>5, <2>1
  <2>3. slot[x] = "quarantined"
    BY <1>5, <2>2
  <2> QED
    BY <1>3, <2>1, <2>2, <2>3 DEF BInv, BracketHolds, QuarantinedBlocks
<1>12. Announced'
  <2>1. ASSUME NEW x \in Slots
        PROVE  slot'[x] \in {"advanced", "result_recorded"} <=> slot[x] \in {"advanced", "result_recorded"}
    <3>1. x = <<x[1], x[2]>> /\ x[1] \in Rounds /\ x[2] \in SlotIndexes
      BY ShardFacts
    <3>2. CASE x[1] = q
      BY <1>4, <1>5, <3>1, <3>2
    <3>3. CASE x[1] # q
      BY <1>5, <3>3
    <3> QED
      BY <3>2, <3>3
  <2>2. \A x : AnnouncementsOf(x)' = AnnouncementsOf(x)
    BY <1>1 DEF AnnouncementsOf
  <2> QED
    BY <2>1, <2>2 DEF BInv, BracketHolds, Announced, Resolved
<1>13. RoundsInTurn' /\ NextRoundIsThere'
  <2>1. RoundsInTurn'
    BY <1>1, <1>3 DEF BInv, BracketHolds, RoundsInTurn
  <2>2. NextRoundIsThere'
    BY <1>3 DEF BInv, BracketHolds, NextRoundIsThere
  <2> QED
    BY <2>1, <2>2
<1>14. TxHolds'
  <2>1. \A g \in Handlers : /\ Open(g)' <=> Open(g)
                            /\ Writes(g)' <=> Writes(g)
                            /\ Completes(g)' <=> Completes(g)
                            /\ Cancels(g)' <=> Cancels(g)
    BY <1>1 DEF Open, Writes, Completes, Cancels
  <2>2. ASSUME NEW g \in Handlers, Completes(g) PROVE FALSE
    <3>1. tx[g].cmd.round \in Rounds
      BY <2>2 DEF BInv, IInv, DecisionKinds, Completes
    <3>2. round[tx[g].cmd.round].status = "in_progress"
      BY <2>2, <3>1 DEF BInv, WorkHolds, CompletionHolds, RoundReady
    <3>3. tx[g].cmd.round = q
      BY <1>1, <3>1, <3>2, OneRoundAtATime DEF BInv, BracketHolds
    <3> QED
      BY <1>1, <3>2, <3>3
  <2>3. CompletionHolds'
    BY <2>1, <2>2 DEF CompletionHolds
  <2>4. StillRunning'
    BY <1>1 DEF StillRunning
  <2>5. Alone'
    BY <1>1, <2>1 DEF BInv, WorkHolds, Alone, Exclusive
  <2> QED
    BY <2>3, <2>4, <2>5 DEF TxHolds
<1>15. EndStands
  BY <1>1 DEF EndStands, TerminalNow, Terminal
<1> QED
  BY <1>8, <1>9, <1>10, <1>11, <1>12, <1>13, <1>14, <1>15 DEF BracketHolds

-----------------------------------------------------------------------------
(* The bracket, step by step                                               *)

LEMMA CommitWork ==
    ASSUME BInv, NEW h \in Handlers, Commit(h)
    PROVE  ledger' \subseteq Keys /\ outcome' \in [Ids -> {"none", "accepted", "rejected"}]
<1> PICK c : c = tx[h].cmd
  OBVIOUS
<1>1. Open(h) /\ Apply(c, tx[h].decision)
  BY DEF Commit
<1>2. /\ c.type \in {"record", "quarantine"} => Key(c) \in Keys
      /\ tx[h].decision \in {"conflict", "stray", "ledger_only", "insert_quarantined"} => c.type \in {"record", "quarantine"}
  BY <1>1 DEF BInv, IInv, DecisionKinds
<1>3. ledger' = ledger \/ (Key(c) \in Keys /\ ledger' = ledger \cup {Key(c)})
  BY <1>1, <1>2 DEF Apply, RecordResult, HoldSlot, InsertQuarantineLedger, InsertQuarantined, CompleteRound, CancelTournament, Tables
<1>4. ledger' \subseteq Keys
  BY <1>3 DEF BInv, WorkHolds, AtWork
<1>5. PICK answer : answer = Answer(tx[h].decision) /\ outcome' = [outcome EXCEPT ![tx[h].cmd.id] = answer]
  BY DEF Commit
<1>6. answer \in {"none", "accepted", "rejected"}
  BY <1>5 DEF Answer
<1>7. outcome' \in [Ids -> {"none", "accepted", "rejected"}]
  BY <1>5, <1>6 DEF BInv, WorkHolds, AtWork
<1> QED
  BY <1>4, <1>7

LEMMA Apartness ==
    /\ Partitions \subseteq Handlers /\ Requests \subseteq Handlers /\ Worker \in Handlers
    /\ \A h \in Requests : h \notin Partitions
    /\ Worker \notin Partitions
BY RoundResultsAssumption DEF Handlers

LEMMA TxSet ==
    ASSUME IInv, NEW h \in Handlers, NEW new, tx' = [tx EXCEPT ![h] = new]
    PROVE  tx'[h] = new /\ \A g \in Handlers \ {h} : tx'[g] = tx[g]
BY DEF IInv, Shaped

\* What Begin leaves its handler with.
LEMMA BeginWork ==
    ASSUME BInv, NEW h \in Handlers, NEW c, Known(c), Begin(h, c)
    PROVE  /\ \A g \in Handlers \ {h} : tx'[g] = tx[g]
           /\ tx'[h].cmd.id \in Ids /\ tx'[h].decision # "none"
           /\ Writes(h)' => tx'[h].cmd \in AllCommands /\ ValidateStandings(tx'[h].cmd)
<1> PICK new : new = [pc |-> "open", cmd |-> c, decision |-> Decide(c)]
  OBVIOUS
<1>1. tx'[h] = new /\ \A g \in Handlers \ {h} : tx'[g] = tx[g]
  BY TxSet DEF BInv, Begin
<1>2. new.pc = "open" /\ new.cmd = c /\ new.decision = Decide(c)
  OBVIOUS
<1>3. Writes(h)' => c.type = "record" /\ Decide(c) \in {"record", "hold"}
  BY <1>1, <1>2 DEF Writes
<1>4. Writes(h)' => c \in AllCommands /\ ValidateStandings(c)
  BY <1>3, DecideSuccess DEF Known, CompleteCommand
<1>5. tx'[h].cmd = c /\ tx'[h].decision = Decide(c)
  BY <1>1, <1>2
<1>6. Writes(h)' => tx'[h].cmd \in AllCommands /\ ValidateStandings(tx'[h].cmd)
  BY <1>4, <1>5
<1>7. c.id \in Ids /\ Decide(c) # "none"
  BY KnownIds, DecideAnswers
<1> QED
  BY <1>1, <1>5, <1>6, <1>7

LEMMA RequestHolds ==
    ASSUME BInv, IInv', NEW h \in Requests, RequestStep(h) PROVE BInv' /\ EndStands
<1> USE IdleFacts, StoreHoldsTables, Apartness
<1>1. offset \in [Partitions -> Nat] /\ IInv /\ AtWork
  BY DEF BInv, IInv, Shaped, WorkHolds
<1>2. /\ ledger \subseteq Keys /\ outcome \in [Ids -> {"none", "accepted", "rejected"}]
      /\ attempts \in [Partitions -> 0 .. MaxAttempts - 1]
  BY <1>1 DEF AtWork
<1>3. ASSUME NEW c \in Commands, SubmitCommand(h, c) PROVE BInv' /\ EndStands
  <2>1. Known(c) /\ ~Open(h) /\ Begin(h, c) /\ UNCHANGED Tables /\ UNCHANGED <<offset, attempts, ledger, outcome>>
    BY <1>3 DEF SubmitCommand, Open, consumer, store, Known, AllCommands
  <2>2. BracketHolds' /\ TxHolds' /\ EndStands
    BY <2>1, BeginHolds
  <2>3. AtWork'
    BY <1>1, <1>2, <2>1, BeginWork, WorkMovesOn
  <2> QED
    BY <2>2, <2>3 DEF BInv, TxHolds, WorkHolds
<1>4. CASE FinishCommand(h)
  <2>1. Commit(h) /\ tx' = [tx EXCEPT ![h] = Idle] /\ UNCHANGED <<offset, attempts>>
    BY <1>4 DEF FinishCommand, consumer
  <2>2. Ends(h)
    BY <1>1, <2>1, EndsWhenSet
  <2>3. BracketHolds' /\ TxHolds' /\ EndStands
    BY <2>1, <2>2, CommitHolds
  <2>4. tx'[h] = Idle /\ \A g \in Handlers \ {h} : tx'[g] = tx[g]
    BY <1>1, <2>1, TxSet
  <2>5. AtWork'
    <3>1. ~Open(h)'
      BY <2>4 DEF Open
    <3> QED
      BY <1>1, <1>2, <2>1, <2>4, <3>1, CommitWork, WorkMovesOn
  <2> QED
    BY <2>3, <2>5 DEF BInv, TxHolds, WorkHolds
<1>5. CASE FailCommand(h)
  <2>1. tx' = [tx EXCEPT ![h] = Idle] /\ UNCHANGED <<offset, attempts, ledger, outcome>> /\ UNCHANGED Tables
    BY <1>5 DEF FailCommand, consumer, store
  <2>2. TxLeaves /\ UNCHANGED BracketTables
    BY <1>1, <2>1, EndsWhenSet, TablesHoldBracket
  <2>3. BracketHolds' /\ TxHolds' /\ EndStands
    BY <1>1, <2>2, BracketSame, TxSame DEF BInv, WorkHolds, TxHolds, EndStands, BracketTables
  <2>4. tx'[h] = Idle /\ \A g \in Handlers \ {h} : tx'[g] = tx[g]
    BY <1>1, <2>1, TxSet
  <2>5. AtWork'
    <3>1. ~Open(h)'
      BY <2>4 DEF Open
    <3> QED
      BY <1>1, <1>2, <2>1, <2>4, <3>1, WorkMovesOn
  <2> QED
    BY <2>3, <2>5 DEF BInv, TxHolds, WorkHolds
<1> QED
  BY <1>3, <1>4, <1>5 DEF RequestStep

\* A transaction that leaves nothing behind.
LEMMA AsideHolds ==
    ASSUME BInv, TxLeaves, UNCHANGED Tables PROVE BracketHolds' /\ TxHolds' /\ EndStands
<1>1. UNCHANGED BracketTables
  BY TablesHoldBracket
<1> QED
  BY <1>1, BracketSame, TxSame DEF BInv, WorkHolds, TxHolds, EndStands, BracketTables

LEMMA ConsumerHolds ==
    ASSUME BInv, IInv', NEW p \in Partitions, ConsumerStep(p) \/ FailIngest(p) PROVE BInv' /\ EndStands
<1> USE IdleFacts, StoreHoldsTables, Apartness
<1>1. offset \in [Partitions -> Nat] /\ IInv /\ AtWork
  BY DEF BInv, IInv, Shaped, WorkHolds
<1>2. /\ ledger \subseteq Keys /\ outcome \in [Ids -> {"none", "accepted", "rejected"}]
      /\ attempts \in [Partitions -> 0 .. MaxAttempts - 1]
      /\ offset[p] \in 0 .. Len(Log[p]) /\ (tx[p].pc \in {"open", "answered"} => offset[p] < Len(Log[p]))
  BY <1>1 DEF AtWork
<1>3. MaxAttempts \in Nat \ {0} /\ Len(Log[p]) \in Nat
  BY RoundResultsAssumption
<1>4. PICK answered : answered = [Idle EXCEPT !.pc = "answered"]
  OBVIOUS
<1>5. answered.pc = "answered"
  BY <1>4
<1>6. CASE IngestMatchCompleted(p)
  <2>1. /\ tx[p] = Idle /\ ~Open(p) /\ HasRecord(p) /\ offset[p] < Len(Log[p]) /\ UNCHANGED Tables
        /\ UNCHANGED <<offset, attempts, ledger, outcome>>
    BY <1>6 DEF IngestMatchCompleted, Open, consumer, store, HasRecord
  <2>2. CASE tx' = [tx EXCEPT ![p].pc = "answered"]
    <3>1. tx' = [tx EXCEPT ![p] = answered]
      BY <1>4, <2>1, <2>2
    <3>2. TxLeaves
      BY <1>1, <1>5, <2>1, <3>1, EndsWhenSet
    <3>3. BracketHolds' /\ TxHolds' /\ EndStands
      BY <2>1, <3>2, AsideHolds
    <3>4. tx'[p] = answered /\ \A g \in Handlers \ {p} : tx'[g] = tx[g]
      BY <1>1, <3>1, TxSet
    <3>5. AtWork'
      <4>1. ~Open(p)'
        BY <1>5, <3>4 DEF Open
      <4> QED
        BY <1>1, <1>2, <2>1, <3>4, <4>1, WorkMovesOn
    <3> QED
      BY <3>3, <3>5 DEF BInv, TxHolds, WorkHolds
  <2>3. CASE Begin(p, Record(p))
    <3>1. Record(p) \in Range(Log[p])
      BY <1>1, <2>1, RecordIsLogged
    <3>2. Known(Record(p))
      BY <3>1 DEF Known, AllCommands, Completions
    <3>3. BracketHolds' /\ TxHolds' /\ EndStands
      BY <2>1, <2>3, <3>2, BeginHolds
    <3>4. AtWork'
      BY <1>1, <1>2, <2>1, <2>3, <3>2, BeginWork, WorkMovesOn
    <3> QED
      BY <3>3, <3>4 DEF BInv, TxHolds, WorkHolds
  <2> QED
    BY <1>6, <2>2, <2>3 DEF IngestMatchCompleted
<1>7. CASE FinishIngest(p)
  <2>1. Commit(p) /\ tx' = [tx EXCEPT ![p] = answered] /\ UNCHANGED <<offset, attempts>> /\ Open(p)
    BY <1>4, <1>7 DEF FinishIngest, consumer, Commit
  <2>2. Ends(p)
    BY <1>1, <1>5, <2>1, EndsWhenSet
  <2>3. BracketHolds' /\ TxHolds' /\ EndStands
    BY <2>1, <2>2, CommitHolds
  <2>4. tx'[p] = answered /\ \A g \in Handlers \ {p} : tx'[g] = tx[g]
    BY <1>1, <2>1, TxSet
  <2>5. AtWork'
    <3>1. ~Open(p)'
      BY <1>5, <2>4 DEF Open
    <3>2. offset[p] < Len(Log[p])
      BY <1>2, <2>1 DEF Open
    <3> QED
      BY <1>1, <1>2, <2>1, <2>4, <3>1, <3>2, CommitWork, WorkMovesOn
  <2> QED
    BY <2>3, <2>5 DEF BInv, TxHolds, WorkHolds
<1>8. CASE CommitOffset(p)
  <2>1. /\ tx[p].pc = "answered" /\ tx' = [tx EXCEPT ![p] = Idle] /\ UNCHANGED Tables
        /\ offset' = [offset EXCEPT ![p] = offset[p] + 1] /\ attempts' = [attempts EXCEPT ![p] = 0]
        /\ UNCHANGED <<ledger, outcome>>
    BY <1>8 DEF CommitOffset, store
  <2>2. /\ offset' \in [Partitions -> Nat] /\ offset'[p] \in 0 .. Len(Log[p])
        /\ \A g \in Partitions \ {p} : offset'[g] = offset[g]
    BY <1>1, <1>2, <1>3, <2>1
  <2>3. attempts' \in [Partitions -> 0 .. MaxAttempts - 1]
    BY <1>2, <1>3, <2>1
  <2>4. TxLeaves
    BY <1>1, <2>1, <2>2, EndsWhenSet
  <2>5. BracketHolds' /\ TxHolds' /\ EndStands
    BY <2>1, <2>4, AsideHolds
  <2>6. tx'[p] = Idle /\ \A g \in Handlers \ {p} : tx'[g] = tx[g]
    BY <1>1, <2>1, TxSet
  <2>7. AtWork'
    <3>1. ~Open(p)'
      BY <2>6 DEF Open
    <3> QED
      BY <1>1, <1>2, <2>1, <2>2, <2>3, <2>6, <3>1, WorkMovesOn
  <2> QED
    BY <2>5, <2>7 DEF BInv, TxHolds, WorkHolds
<1>9. CASE FailIngest(p)
  <2>1. /\ \/ tx' = [tx EXCEPT ![p] = Idle] /\ attempts[p] + 1 < MaxAttempts /\ attempts' = [attempts EXCEPT ![p] = attempts[p] + 1]
           \/ tx' = [tx EXCEPT ![p] = answered] /\ attempts' = attempts
        /\ UNCHANGED Tables /\ UNCHANGED <<offset, ledger, outcome>> /\ Open(p)
    BY <1>4, <1>9 DEF FailIngest, FailureToDLQ, store
  <2>2. attempts' \in [Partitions -> 0 .. MaxAttempts - 1]
    BY <1>2, <1>3, <2>1
  <2>3. PICK new : new \in {Idle, answered} /\ tx' = [tx EXCEPT ![p] = new]
    BY <2>1
  <2>4. new.pc \notin {"open", "hint"}
    BY <1>5, <2>3
  <2>5. TxLeaves
    BY <1>1, <2>1, <2>3, <2>4, EndsWhenSet
  <2>6. BracketHolds' /\ TxHolds' /\ EndStands
    BY <2>1, <2>5, AsideHolds
  <2>7. tx'[p] = new /\ \A g \in Handlers \ {p} : tx'[g] = tx[g]
    BY <1>1, <2>3, TxSet
  <2>8. AtWork'
    <3>1. ~Open(p)'
      BY <2>4, <2>7 DEF Open
    <3>2. offset[p] < Len(Log[p])
      BY <1>2, <2>1 DEF Open
    <3> QED
      BY <1>1, <1>2, <2>1, <2>2, <2>7, <3>1, <3>2, WorkMovesOn
  <2> QED
    BY <2>6, <2>8 DEF BInv, TxHolds, WorkHolds
<1> QED
  BY <1>6, <1>7, <1>8, <1>9 DEF ConsumerStep

\* A step that only the worker sees.
LEMMA WorkerHolds == ASSUME BInv, IInv', WorkerStep PROVE BInv' /\ EndStands
<1> USE IdleFacts, StoreHoldsTables, Apartness
<1>1. offset \in [Partitions -> Nat] /\ IInv /\ AtWork /\ Worker \notin Partitions
  BY DEF BInv, IInv, Shaped, WorkHolds
<1>2. /\ ledger \subseteq Keys /\ outcome \in [Ids -> {"none", "accepted", "rejected"}]
      /\ attempts \in [Partitions -> 0 .. MaxAttempts - 1]
  BY <1>1 DEF AtWork
<1>3. ASSUME NEW r \in Rounds, Tick(r) PROVE BInv' /\ EndStands
  <2>1. PICK new : new = [pc |-> "hint", cmd |-> CompleteCommand(r), decision |-> "none"]
    OBVIOUS
  <2>2. /\ tx' = [tx EXCEPT ![Worker] = new] /\ new.pc = "hint"
        /\ UNCHANGED Tables /\ UNCHANGED <<offset, attempts, ledger, outcome>>
    BY <1>3, <2>1 DEF Tick, consumer, store
  <2>3. tx'[Worker] = new /\ \A g \in Handlers \ {Worker} : tx'[g] = tx[g]
    BY <1>1, <2>2, TxSet
  <2>4. \A g \in Handlers : Open(g)' => tx'[g] = tx[g] /\ Open(g)
    BY <2>2, <2>3 DEF Open
  <2>5. UNCHANGED BracketTables
    BY <2>2, TablesHoldBracket
  <2>6. BracketHolds' /\ TxHolds' /\ EndStands
    BY <2>4, <2>5, BracketSame, TxKept DEF BInv, WorkHolds, TxHolds, EndStands, BracketTables
  <2>7. AtWork'
    BY <1>1, <1>2, <2>2, <2>3, <2>4, WorkMovesOn
  <2> QED
    BY <2>6, <2>7 DEF BInv, TxHolds, WorkHolds
<1>4. CASE TryCompleteReadyRound
  <2>1. tx[Worker].pc = "hint" /\ UNCHANGED Tables /\ UNCHANGED <<offset, attempts, ledger, outcome>>
    BY <1>4 DEF TryCompleteReadyRound, consumer, store
  <2>2. CASE tx' = [tx EXCEPT ![Worker] = Idle]
    <3>1. TxLeaves
      BY <1>1, <2>1, <2>2, EndsWhenSet
    <3>2. BracketHolds' /\ TxHolds' /\ EndStands
      BY <2>1, <3>1, AsideHolds
    <3>3. tx'[Worker] = Idle /\ \A g \in Handlers \ {Worker} : tx'[g] = tx[g]
      BY <1>1, <2>2, TxSet
    <3>4. AtWork'
      <4>1. ~Open(Worker)'
        BY <3>3 DEF Open
      <4> QED
        BY <1>1, <1>2, <2>1, <3>3, <4>1, WorkMovesOn
    <3> QED
      BY <3>2, <3>4 DEF BInv, TxHolds, WorkHolds
  <2>3. CASE Begin(Worker, tx[Worker].cmd)
    <3>1. PICK c : c = tx[Worker].cmd
      OBVIOUS
    <3>2. Known(c) /\ ~Open(Worker) /\ Begin(Worker, c)
      BY <2>1, <2>3, <3>1 DEF BInv, IInv, Shaped, Known, Open
    <3>3. BracketHolds' /\ TxHolds' /\ EndStands
      BY <2>1, <3>2, BeginHolds
    <3>4. AtWork'
      BY <1>1, <1>2, <2>1, <3>2, BeginWork, WorkMovesOn
    <3> QED
      BY <3>3, <3>4 DEF BInv, TxHolds, WorkHolds
  <2> QED
    BY <1>4, <2>2, <2>3 DEF TryCompleteReadyRound
<1>5. CASE FinishCompleteRound
  <2>1. tx' = [tx EXCEPT ![Worker] = Idle] /\ UNCHANGED <<offset, attempts>> /\ (Commit(Worker) \/ UNCHANGED store)
    BY <1>5 DEF FinishCompleteRound, consumer
  <2>2. Ends(Worker) /\ TxLeaves
    BY <1>1, <2>1, EndsWhenSet
  <2>3. BracketHolds' /\ TxHolds' /\ EndStands
    BY <2>1, <2>2, CommitHolds, AsideHolds
  <2>4. tx'[Worker] = Idle /\ \A g \in Handlers \ {Worker} : tx'[g] = tx[g]
    BY <1>1, <2>1, TxSet
  <2>5. ledger' \subseteq Keys /\ outcome' \in [Ids -> {"none", "accepted", "rejected"}]
    <3>1. CASE Commit(Worker)
      BY <3>1, CommitWork
    <3>2. CASE UNCHANGED store
      BY <1>2, <3>2 DEF store
    <3> QED
      BY <2>1, <3>1, <3>2
  <2>6. AtWork'
    <3>1. ~Open(Worker)'
      BY <2>4 DEF Open
    <3> QED
      BY <1>1, <1>2, <2>1, <2>4, <2>5, <3>1, WorkMovesOn
  <2> QED
    BY <2>3, <2>6 DEF BInv, TxHolds, WorkHolds
<1> QED
  BY <1>3, <1>4, <1>5 DEF WorkerStep

LEMMA CrashHolds == ASSUME BInv, IInv', NEW h \in Handlers, Crash(h) PROVE BInv' /\ EndStands
<1> USE IdleFacts, StoreHoldsTables, Apartness
<1>1. offset \in [Partitions -> Nat] /\ IInv /\ AtWork
  BY DEF BInv, IInv, Shaped, WorkHolds
<1>2. /\ ledger \subseteq Keys /\ outcome \in [Ids -> {"none", "accepted", "rejected"}]
      /\ attempts \in [Partitions -> 0 .. MaxAttempts - 1]
      /\ h \in Partitions => offset[h] \in 0 .. Len(Log[h])
  BY <1>1 DEF AtWork
<1>3. /\ tx' = [tx EXCEPT ![h] = Idle] /\ UNCHANGED Tables /\ UNCHANGED <<offset, ledger, outcome>>
      /\ attempts' = IF h \in Partitions THEN [attempts EXCEPT ![h] = 0] ELSE attempts
  BY DEF Crash, store
<1>4. attempts' \in [Partitions -> 0 .. MaxAttempts - 1]
  <2>1. 0 \in 0 .. MaxAttempts - 1
    BY RoundResultsAssumption
  <2> QED
    BY <1>2, <1>3, <2>1
<1>5. TxLeaves
  BY <1>1, <1>3, EndsWhenSet
<1>6. BracketHolds' /\ TxHolds' /\ EndStands
  BY <1>3, <1>5, AsideHolds
<1>7. tx'[h] = Idle /\ \A g \in Handlers \ {h} : tx'[g] = tx[g]
  BY <1>1, <1>3, TxSet
<1>8. AtWork'
  <2>1. ~Open(h)' /\ tx'[h].pc \notin {"open", "answered"}
    BY <1>7 DEF Open
  <2> QED
    BY <1>1, <1>2, <1>3, <1>4, <1>7, <2>1, WorkMovesOn
<1> QED
  BY <1>6, <1>8 DEF BInv, TxHolds, WorkHolds

\* Steps that leave all handlers where they are.
LEMMA WorkStays ==
    ASSUME AtWork, UNCHANGED <<ledger, outcome, attempts, offset, tx>> PROVE AtWork'
<1>1. \A h \in Handlers : (Open(h)' <=> Open(h)) /\ (Writes(h)' <=> Writes(h))
  BY DEF Open, Writes
<1> QED
  BY <1>1 DEF AtWork, ValidateStandings

LEMMA BStep == ASSUME BInv, [Next]_vars PROVE BInv' /\ EndStands
<1>1. IInv'
  BY StepKeeps DEF BInv
<1>2. ASSUME NEW p \in Partitions, ConsumerStep(p) \/ FailIngest(p) PROVE BInv' /\ EndStands
  BY <1>1, <1>2, ConsumerHolds
<1>3. ASSUME NEW h \in Requests, RequestStep(h) PROVE BInv' /\ EndStands
  BY <1>1, <1>3, RequestHolds
<1>4. CASE WorkerStep
  BY <1>1, <1>4, WorkerHolds
<1>5. ASSUME NEW r \in Rounds, OpenNextRound(r) PROVE BInv' /\ EndStands
  <2>1. BracketHolds' /\ TxHolds' /\ EndStands
    BY <1>5, OpenRoundHolds
  <2>2. AtWork'
    BY <1>5, WorkStays DEF OpenNextRound, consumer, BInv, WorkHolds
  <2> QED
    BY <1>1, <2>1, <2>2 DEF BInv, TxHolds, WorkHolds
<1>6. ASSUME NEW h \in Handlers, Crash(h) PROVE BInv' /\ EndStands
  BY <1>1, <1>6, CrashHolds
<1>7. CASE UNCHANGED vars
  <2>1. UNCHANGED <<ledger, outcome, attempts, offset, tx>> /\ UNCHANGED Tables
    BY <1>7 DEF vars, store, consumer, Tables
  <2>2. TxLeaves
    BY <2>1 DEF TxLeaves, BInv, IInv, Shaped
  <2>3. BracketHolds' /\ TxHolds' /\ EndStands
    BY <2>1, <2>2, AsideHolds
  <2>4. AtWork'
    BY <2>1, WorkStays DEF BInv, WorkHolds
  <2> QED
    BY <1>1, <2>3, <2>4 DEF BInv, TxHolds, WorkHolds
<1> QED
  BY <1>2, <1>3, <1>4, <1>5, <1>6, <1>7 DEF Next

-----------------------------------------------------------------------------
(* The bracket at the start, and what it says                              *)

LEMMA BInit == Init => BInv
<1> SUFFICES ASSUME Init PROVE BInv
  OBVIOUS
<1> USE IdleFacts
<1>1. /\ phase = "in_progress" /\ ledger = {} /\ advanced = {} /\ outbox = {}
      /\ \A r \in Rounds : round[r] = [status |-> IF r = 1 THEN "in_progress" ELSE "none", final |-> FALSE, players |-> 0]
      /\ round = [r \in Rounds |-> [status |-> IF r = 1 THEN "in_progress" ELSE "none", final |-> FALSE, players |-> 0]]
      /\ \A s \in Slots : slot[s] = IF s \in {1} \X FirstSlots THEN "assigned" ELSE "none"
      /\ \A s \in Slots : advancement[s] = <<>>
      /\ \A h \in Handlers : tx[h].pc = "idle"
  BY DEF Init
<1>2. \A r \in Rounds : r \in Nat \ {0}
  BY RoundResultsAssumption DEF Rounds
<1> DEFINE slots(r) == IF r = 1 THEN FirstSlots ELSE {}
<1>3. \A r \in Rounds : IsFiniteSet(slots(r))
  <2>1. IsFiniteSet(FirstSlots) /\ IsFiniteSet({})
    BY RoundResultsAssumption, FS_Subset, FS_EmptySet
  <2> QED
    BY <2>1
<1>4. count = [r \in Rounds |-> Counted(slots(r))]
  BY DEF Init
<1>5. \A r \in Rounds, i \in SlotIndexes : slot[<<r, i>>] = IF i \in slots(r) THEN "assigned" ELSE "none"
  <2> SUFFICES ASSUME NEW r \in Rounds, NEW i \in SlotIndexes
               PROVE  slot[<<r, i>>] = IF i \in slots(r) THEN "assigned" ELSE "none"
    OBVIOUS
  <2>1. <<r, i>> \in Slots
    BY ShardFacts
  <2>2. <<r, i>> \in {1} \X FirstSlots <=> i \in slots(r)
    OBVIOUS
  <2> QED
    BY <1>1, <2>1, <2>2
<1>6. \A r \in Rounds, i \in SlotIndexes : advancement[<<r, i>>] = <<>>
  BY <1>1, ShardFacts
<1> HIDE DEF slots
<1>7. CountsAreSlots /\ AssignedAreCounted
  <2>1. ASSUME NEW r \in Rounds, NEW k \in ShardIds PROVE ShardCounts(r, k)
    <3>1. PICK mine : mine = slots(r)
      OBVIOUS
    <3>2. /\ IsFiniteSet(mine) /\ count[r] = Counted(mine)
          /\ \A i \in SlotIndexes : slot[<<r, i>>] = IF i \in mine THEN "assigned" ELSE "none"
          /\ \A i \in SlotIndexes : advancement[<<r, i>>] = <<>>
      BY <1>3, <1>4, <1>5, <1>6, <3>1
    <3> QED
      BY <3>2, CountedAtFirst
  <2> QED
    BY <2>1, CountsByShard
<1>8. Sized
  <2>1. count \in [Rounds -> [ShardIds -> ShardRow]]
    BY <1>3, <1>4, CountedFacts
  <2>2. round \in [Rounds -> RoundRows(Nat)]
    BY <1>1 DEF RoundRows, RoundStatuses
  <2>3. \A s \in Slots : Len(advancement[s]) \in Nat
    BY <1>1
  <2> QED
    BY <1>1, <2>1, <2>2, <2>3, FS_EmptySet DEF Sized, ShardRow
<1>9. SentOnce /\ CompletedIsWhole /\ QuarantinedBlocks /\ NextRoundIsThere
  BY <1>1 DEF SentOnce, CompletedIsWhole, QuarantinedBlocks, NextRoundIsThere
<1>10. Announced
  BY <1>1 DEF Announced, AnnouncementsOf, Resolved
<1>11. RoundsInTurn
  BY <1>1, <1>2 DEF RoundsInTurn
<1>12. \A h \in Handlers : ~Open(h) /\ ~Writes(h) /\ ~Completes(h) /\ ~Cancels(h)
  BY <1>1 DEF Open, Writes, Completes, Cancels
<1>13. StillRunning /\ Alone /\ CompletionHolds
  BY <1>12 DEF StillRunning, Alone, CompletionHolds
<1>14. AtWork
  <2>1. /\ ledger \subseteq Keys /\ outcome \in [Ids -> {"none", "accepted", "rejected"}]
        /\ attempts \in [Partitions -> 0 .. MaxAttempts - 1]
    BY <1>1, RoundResultsAssumption DEF Init
  <2>2. ASSUME NEW p \in Partitions
        PROVE  offset[p] \in 0 .. Len(Log[p]) /\ tx[p].pc \notin {"open", "answered"}
    <3>1. Log[p] \in Seq(Range(Log[p])) /\ offset[p] = 0
      BY RoundResultsAssumption DEF Init
    <3>2. Len(Log[p]) \in Nat
      BY <3>1
    <3> QED
      BY <1>1, <3>1, <3>2
  <2> QED
    BY <1>12, <2>1, <2>2 DEF AtWork
<1> QED
  BY <1>7, <1>8, <1>9, <1>10, <1>11, <1>13, <1>14, Initialization DEF BInv, BracketHolds, WorkHolds

LEMMA BSays == BInv => BracketSound
<1> SUFFICES ASSUME BInv PROVE BracketSound
  OBVIOUS
<1>1. TypeOK
  <2>1. phase \in {"in_progress"} \cup Terminal
    BY DEF BInv, BracketHolds, Sized
  <2>2. \A r \in Rounds : round[r].status \in RoundStatuses /\ round[r].players \in Nat
    BY DEF BInv, BracketHolds, Sized, RoundRows
  <2>3. slot \in [Slots -> SlotStatuses]
    BY DEF BInv, IInv, Shaped
  <2>4. /\ ledger \subseteq Keys /\ outcome \in [Ids -> {"none", "accepted", "rejected"}]
        /\ \A h \in Handlers : Open(h) => tx[h].decision # "none"
        /\ \A p \in Partitions : offset[p] \in 0 .. Len(Log[p]) /\ attempts[p] \in 0 .. MaxAttempts - 1
    BY DEF BInv, WorkHolds, AtWork
  <2> QED
    BY <2>1, <2>2, <2>3, <2>4 DEF TypeOK
<1>2. AnnouncedOnce
  <2> SUFFICES ASSUME NEW s \in Slots
               PROVE  Cardinality(AnnouncementsOf(s)) = IF Resolved(s) THEN 1 ELSE 0
    BY DEF AnnouncedOnce, AnnouncementsOf
  <2>1. CASE Resolved(s)
    <3>1. PICK f : AnnouncementsOf(s) = {f}
      BY <2>1 DEF BInv, BracketHolds, Announced
    <3>2. Cardinality({f}) = 1
      BY FS_Singleton
    <3> QED
      BY <2>1, <3>1, <3>2
  <2>2. CASE ~Resolved(s)
    <3>1. AnnouncementsOf(s) = {}
      BY <2>2 DEF BInv, BracketHolds, Announced
    <3> QED
      BY <2>2, <3>1, FS_EmptySet
  <2> QED
    BY <2>1, <2>2
<1> QED
  BY <1>1, <1>2 DEF BInv, BracketHolds, BracketSound

(* The bracket is sound: for any log, commands, handlers, rounds, slots and
   shards, the counts of every shard are those of its slots, a completed
   round has a result for every slot and the next one is planned for exactly
   the players it sent on, a quarantined slot blocks its round, and every
   result is announced once. *)
THEOREM BracketIsSound == Spec => []BracketSound
<1>1. BInv /\ [Next]_vars => BInv'
  BY BStep
<1> QED
  BY <1>1, BInit, BSays, PTL DEF Spec

(* The end stands: what was decided while a tournament was running is not
   carried out on its bracket, rounds or champion once it has ended. *)
THEOREM EndIsKept == Spec => EndedStands
<1>1. BInv /\ [Next]_vars => BInv'
  BY BStep
<1>2. BInv /\ [Next]_vars => [TerminalNow => UNCHANGED <<phase, champion, round, slot, count, advancement>>]_vars
  BY BStep DEF EndStands
<1> QED
  BY <1>1, <1>2, BInit, PTL DEF Spec, EndedStands
=============================================================================
