---------------------------- MODULE SpectatorView ----------------------------
(***************************************************************************)
(* The spectator projection of one room (store/redis_store.go, lua.go,     *)
(* domain/projection.go), the Kafka consumer that feeds it                 *)
(* (kafka_consumer.go), the projection-rebuilder that repairs it           *)
(* (kafka_rebuild_consumer.go, kafka_held_source.go, recovery_rebuild.go)  *)
(* and one spectator's event stream (store/redis_sse.go, main.go).         *)
(*                                                                         *)
(* The room commits one event per sequence number and its outbox publishes *)
(* them, at least once.  A Lua script is one step; the reads it rests on   *)
(* are earlier ones.  The HTTP ingest and rebuild routes serve the offline *)
(* capability mode only and are not modelled.                              *)
(***************************************************************************)
EXTENDS Integers, Sequences, FiniteSets, SequencesExt

CONSTANTS
    Feeds,      \* candidate topics: sequences of records [seq, kind]; a repeated
                \* record is a redelivery, with the same eventId
    LastSeq,    \* the sequence number at which the room is over
    Requests,   \* rebuild requests in topic order: the job each one names
    MaxFaults,  \* crashes, lost replies and exhausted retries
    MaxLeaves   \* times the spectator drops the connection

\* "private" carries a field the policy forbids; "bad" does not parse.
Kind == {"update", "terminal", "private", "bad"}

ASSUME SpectatorAssumption ==
    /\ LastSeq \in Nat /\ Requests \in Seq(Range(Requests))
    /\ \A f \in Feeds : f \in Seq([seq : 1 .. LastSeq, kind : Kind])
    /\ MaxFaults \in Nat /\ MaxLeaves \in Nat

VARIABLES
    feed,       \* the topic of the room's partition
    roomSeq,    \* what the room has committed
    published,  \* how much of the topic is written
    meta,       \* the meta hash: [rev, gen]
    state,      \* the state document: [seq, over, closed]
    outcomes,   \* the outcomes hash: eventIds with a recorded outcome
    streams,    \* [generation -> Seq of entries [seq, closed]]
    quarantine, \* the active flag of the kafka_quarantine hash
    done,       \* rebuild_done markers
    dlq,        \* records in the consumer's dead-letter topic
    committed,  \* the consumer's committed offset
    c,          \* the consumer: [pc, rev, gen, seq, closed, ids]
    asked,      \* rebuild requests published
    answered,   \* the rebuilder's committed offset
    refused,    \* jobs in the rebuilder's dead-letter topic
    w,          \* the rebuilder: [pc, resume, over, held, gen, seq]
    sess,       \* the spectator: [pc, gen, pos, mark, shown]
    faults, leaves

source == <<feed, roomSeq, published>>
redis == <<meta, state, outcomes, streams, quarantine, done>>
consumer == <<dlq, committed, c>>
rebuilder == <<asked, answered, refused, w>>
viewVars == <<source, redis, consumer, rebuilder, sess, faults, leaves>>

Generation == 1 .. Len(Requests) + 1
Job == Range(Requests)

NoLoad == [pc |-> "idle", rev |-> 0, gen |-> 0, seq |-> 0, closed |-> FALSE, ids |-> {}]
NoJob == [pc |-> "idle", resume |-> 0, over |-> FALSE, held |-> {}, gen |-> 0, seq |-> 0]
NoSession == [pc |-> "off", gen |-> 0, pos |-> 0, mark |-> 0, shown |-> 0]

ViewInit ==
    /\ feed \in Feeds /\ roomSeq = 0 /\ published = 0
    /\ meta = [rev |-> 0, gen |-> 1]
    /\ state = [seq |-> 0, over |-> FALSE, closed |-> FALSE]
    /\ outcomes = {} /\ streams = [g \in Generation |-> << >>]
    /\ quarantine = FALSE /\ done = {}
    /\ dlq = {} /\ committed = 0 /\ c = NoLoad
    /\ asked = 0 /\ answered = 0 /\ refused = {} /\ w = NoJob
    /\ sess = NoSession /\ faults = 0 /\ leaves = 0

Fault == faults < MaxFaults /\ faults' = faults + 1

-----------------------------------------------------------------------------
(* The room and its outbox. *)

RoomCommits ==
    /\ roomSeq < LastSeq /\ roomSeq' = roomSeq + 1
    /\ UNCHANGED <<feed, published, redis, consumer, rebuilder, sess, faults, leaves>>

Publish ==
    /\ published < Len(feed) /\ feed[published + 1].seq <= roomSeq
    /\ published' = published + 1
    /\ UNCHANGED <<feed, roomSeq, redis, consumer, rebuilder, sess, faults, leaves>>

-----------------------------------------------------------------------------
(* The live consumer. *)

Record == feed[committed + 1]

\* Mutant: the consumer does not ask whether the room is quarantined.
NeverHeld == FALSE

Held == quarantine

\* The next record: of a quarantined room, unreadable, or to be applied.
Take ==
    /\ c.pc = "idle" /\ committed < published
    /\ c' = [c EXCEPT !.pc = CASE Held -> "dlq"
                               [] ~Held /\ Record.kind = "bad" -> "mark"
                               [] OTHER -> "meta"]
    /\ UNCHANGED <<source, redis, dlq, committed, rebuilder, sess, faults, leaves>>

\* loadRoom pipelines its reads, which no transaction protects: the meta hash first.
LoadMeta ==
    /\ c.pc = "meta"
    /\ c' = [c EXCEPT !.pc = "state", !.rev = meta.rev, !.gen = meta.gen]
    /\ UNCHANGED <<source, redis, dlq, committed, rebuilder, sess, faults, leaves>>

\* Then the state and the outcomes; an event with an outcome is a duplicate.
LoadState ==
    /\ c.pc = "state"
    /\ c' = [c EXCEPT !.pc = IF Record \in outcomes THEN "offset" ELSE "apply",
                      !.seq = state.seq, !.closed = state.closed, !.ids = outcomes]
    /\ UNCHANGED <<source, redis, dlq, committed, rebuilder, sess, faults, leaves>>

\* What the domain makes of a parsed event at a projection's sequence.
ApplyOutcome(seq, r) ==
    CASE r.kind = "private" -> "dropped"
      [] r.kind # "private" /\ seq > 0 /\ r.seq <= seq -> "ignored"
      [] r.kind # "private" /\ r.seq = seq + 1 -> "accepted"
      [] OTHER -> "quarantined"

Entry(s) == [seq |-> s.seq, closed |-> s.closed]

\* The projection a loaded one becomes when the event is accepted.
Applied(load, r) ==
    [seq |-> r.seq, over |-> r.kind = "terminal",
     closed |-> load.closed \/ r.kind = "terminal"]

\* applyCommitScript once its fence holds: outcome, state, stream and marker together.
Store(out) ==
    LET new == Applied(c, Record) IN
    /\ outcomes' = outcomes \union {Record}
    /\ meta' = [meta EXCEPT !.rev = c.rev + 1]
    /\ state' = IF out = "accepted" THEN new ELSE state
    /\ streams' = IF out = "accepted" THEN [streams EXCEPT ![c.gen] = Append(@, Entry(new))]
                                      ELSE streams
    /\ quarantine' = (quarantine \/ out \in {"quarantined", "dropped"})
    /\ UNCHANGED done

Fenced == meta.rev = c.rev /\ state.seq = c.seq

After(out) == IF out \in {"accepted", "ignored"} THEN "offset" ELSE "dlq"

CommitApply ==
    /\ c.pc = "apply" /\ Fenced
    /\ IF Record \in outcomes
       THEN c' = [c EXCEPT !.pc = "offset"] /\ UNCHANGED redis
       ELSE LET out == ApplyOutcome(c.seq, Record)
            IN  Store(out) /\ c' = [c EXCEPT !.pc = After(out)]
    /\ UNCHANGED <<source, dlq, committed, rebuilder, sess, faults, leaves>>

\* A rebuild came between: load again (at most eight times, more than there are rebuilds).
CASConflict ==
    /\ c.pc = "apply" /\ ~Fenced
    /\ c' = [c EXCEPT !.pc = "meta"]
    /\ UNCHANGED <<source, redis, dlq, committed, rebuilder, sess, faults, leaves>>

\* The script ran but its reply is lost: the next attempt starts over.
LoseApplyReply ==
    /\ c.pc = "apply" /\ Fenced /\ Record \notin outcomes /\ Fault
    /\ Store(ApplyOutcome(c.seq, Record))
    /\ c' = [c EXCEPT !.pc = "meta"]
    /\ UNCHANGED <<source, dlq, committed, rebuilder, sess, leaves>>

\* Redis stayed unavailable for every attempt.
ExhaustAttempts ==
    /\ c.pc \in {"meta", "state", "apply"} /\ Fault
    /\ c' = [c EXCEPT !.pc = "mark"]
    /\ UNCHANGED <<source, redis, dlq, committed, rebuilder, sess, leaves>>

MarkRoom == quarantine' = TRUE /\ UNCHANGED <<meta, state, outcomes, streams, done>>

\* persistQuarantine, before the dead-letter record.
PersistQuarantine ==
    /\ c.pc = "mark" /\ MarkRoom
    /\ c' = [c EXCEPT !.pc = "dlq"]
    /\ UNCHANGED <<source, dlq, committed, rebuilder, sess, faults, leaves>>

PublishDLQ ==
    /\ c.pc = "dlq"
    /\ dlq' = dlq \union {Record}
    /\ c' = [c EXCEPT !.pc = "offset"]
    /\ UNCHANGED <<source, redis, committed, rebuilder, sess, faults, leaves>>

OffsetReady == c.pc = "offset"

CommitOffset ==
    /\ OffsetReady
    /\ committed' = committed + 1 /\ c' = NoLoad
    /\ UNCHANGED <<source, redis, dlq, rebuilder, sess, faults, leaves>>

\* The process dies; the group resumes at the committed offset.
CrashConsumer ==
    /\ c.pc # "idle" /\ Fault /\ c' = NoLoad
    /\ UNCHANGED <<source, redis, dlq, committed, rebuilder, sess, leaves>>

-----------------------------------------------------------------------------
(* The projection rebuilder. *)

\* A rebuild is asked for a quarantined room; a request may come twice.
RequestRebuild ==
    /\ asked < Len(Requests)
    /\ quarantine \/ Requests[asked + 1] \in {Requests[i] : i \in 1 .. asked}
    /\ asked' = asked + 1
    /\ UNCHANGED <<source, redis, consumer, answered, refused, w, sess, faults, leaves>>

CurrentJob == Requests[answered + 1]

BeginRebuild ==
    /\ w.pc = "idle" /\ answered < asked
    /\ w' = [NoJob EXCEPT !.pc = IF CurrentJob \in done THEN "offset" ELSE "snapshot"]
    /\ UNCHANGED <<source, redis, consumer, asked, answered, refused, sess, faults, leaves>>

\* The room's own public state, at its own sequence.
FetchSnapshot ==
    /\ w.pc = "snapshot" /\ roomSeq > 0
    /\ w' = [w EXCEPT !.pc = "held", !.resume = roomSeq, !.over = roomSeq = LastSeq]
    /\ UNCHANGED <<source, redis, consumer, asked, answered, refused, sess, faults, leaves>>

Seqs(recs) == {r.seq : r \in recs}

\* ValidateHeldContinuity: the held sequences follow the resume checkpoint without a gap.
Contiguous(resume, held) == Seqs(held) = resume + 1 .. resume + Cardinality(held)

\* LoadHeldAfterCheckpoint: one unreadable record of the room fails the whole scan.
ScanHeld ==
    /\ w.pc = "held"
    /\ LET held == {r \in dlq : r.seq > w.resume}
       IN  w' = IF (\E r \in dlq : r.kind = "bad") \/ ~Contiguous(w.resume, held)
                THEN [w EXCEPT !.pc = "refuse"]
                ELSE [w EXCEPT !.pc = "fence", !.held = held]
    /\ UNCHANGED <<source, redis, consumer, asked, answered, refused, sess, faults, leaves>>

ReadFence ==
    /\ w.pc = "fence"
    /\ w' = [w EXCEPT !.pc = "swap", !.gen = meta.gen, !.seq = state.seq]
    /\ UNCHANGED <<source, redis, consumer, asked, answered, refused, sess, faults, leaves>>

\* RebuildFromRecoverySnapshot: a snapshot brings the room's status but closes no stream.
Rebuilt ==
    LET ended == \E r \in w.held : r.kind = "terminal"
    IN  [seq |-> w.resume + Cardinality(w.held), over |-> w.over \/ ended, closed |-> ended]

\* The in-memory rebuild is accepted and does not fall below the fence.
Usable == (\A r \in w.held : r.kind # "private") /\ Rebuilt.seq >= w.seq

\* The fences of recoveryRebuildSwapScript, in order.
SwapVerdict ==
    CASE CurrentJob \in done -> "already_done"
      [] CurrentJob \notin done /\ state.seq > w.seq -> "stale"
      [] CurrentJob \notin done /\ state.seq <= w.seq
            /\ <<state.seq, meta.gen>> # <<w.seq, w.gen>> -> "conflict"
      [] OTHER -> "ok"

\* A new generation replaces the projection, releases the room and marks the job.
Replace ==
    /\ meta' = [rev |-> 1, gen |-> w.gen + 1]
    /\ state' = Rebuilt
    /\ outcomes' = w.held
    /\ streams' = [streams EXCEPT ![w.gen + 1] = Append(@, Entry(Rebuilt))]
    /\ quarantine' = FALSE
    /\ done' = done \union {CurrentJob}

AfterSwap(v) == IF v = "conflict" THEN "refuse" ELSE "offset"

Swap ==
    /\ w.pc = "swap"
    /\ IF Usable
       THEN /\ IF SwapVerdict = "ok" THEN Replace ELSE UNCHANGED redis
            /\ w' = [w EXCEPT !.pc = AfterSwap(SwapVerdict)]
       ELSE w' = [w EXCEPT !.pc = "refuse"] /\ UNCHANGED redis
    /\ UNCHANGED <<source, consumer, asked, answered, refused, sess, faults, leaves>>

\* The swap happened but its reply is lost: the whole pipeline is tried again.
LoseSwapReply ==
    /\ w.pc = "swap" /\ Usable /\ SwapVerdict = "ok" /\ Fault
    /\ Replace /\ w' = [NoJob EXCEPT !.pc = "snapshot"]
    /\ UNCHANGED <<source, consumer, asked, answered, refused, sess, leaves>>

\* Every attempt failed: the request is dead-lettered too.
ExhaustRebuild ==
    /\ w.pc \in {"snapshot", "held", "fence", "swap"} /\ Fault
    /\ w' = [w EXCEPT !.pc = "refuse"]
    /\ UNCHANGED <<source, redis, consumer, asked, answered, refused, sess, leaves>>

RefuseRequest ==
    /\ w.pc = "refuse"
    /\ refused' = refused \union {CurrentJob}
    /\ w' = [w EXCEPT !.pc = "offset"]
    /\ UNCHANGED <<source, redis, consumer, asked, answered, sess, faults, leaves>>

CommitRequest ==
    /\ w.pc = "offset"
    /\ answered' = answered + 1 /\ w' = NoJob
    /\ UNCHANGED <<source, redis, consumer, asked, refused, sess, faults, leaves>>

CrashRebuilder ==
    /\ w.pc # "idle" /\ Fault /\ w' = NoJob
    /\ UNCHANGED <<source, redis, consumer, asked, answered, refused, sess, leaves>>

-----------------------------------------------------------------------------
(* One spectator's server-sent events. *)

others == <<source, redis, consumer, rebuilder, faults>>

\* The entry Last-Event-ID names, in the stream of the current generation.
ResumePoint == {i \in DOMAIN streams[meta.gen] : streams[meta.gen][i].seq = sess.mark}

\* BeginLiveSession: resume after the last entry seen, or start from a snapshot.
Connect ==
    /\ sess.pc = "off" /\ ~state.over /\ ~state.closed
    /\ sess' = IF sess.mark > 0 /\ ResumePoint # {}
               THEN [sess EXCEPT !.pc = "open", !.gen = meta.gen,
                                 !.pos = CHOOSE i \in ResumePoint : TRUE]
               ELSE [sess EXCEPT !.pc = "snapshot", !.gen = meta.gen, !.pos = 0]
    /\ UNCHANGED <<others, leaves>>

\* SnapshotJSON: what the spectator will be shown.
ReadSnapshot ==
    /\ sess.pc = "snapshot"
    /\ sess' = [sess EXCEPT !.pc = "label", !.shown = state.seq]
    /\ UNCHANGED <<others, leaves>>

\* RoomMeta: the sequence it is labelled with; a closed room is refused here.
LabelSnapshot ==
    /\ sess.pc = "label"
    /\ sess' = IF state.closed THEN [sess EXCEPT !.pc = "ended"]
               ELSE [sess EXCEPT !.pc = "open", !.mark = state.seq]
    /\ UNCHANGED <<others, leaves>>

Drained == sess.pos = Len(streams[sess.gen])

\* Mutant: every entry of the stream is forwarded.
SkipNone(e) == FALSE

\* Entries the snapshot already covers are not sent.
Covered(e) == ~e.closed /\ e.seq <= sess.mark

Forward ==
    /\ sess.pc = "open" /\ ~Drained
    /\ LET e == streams[sess.gen][sess.pos + 1]
       IN  sess' = IF Covered(e) THEN [sess EXCEPT !.pos = @ + 1]
                   ELSE [sess EXCEPT !.pos = @ + 1, !.mark = e.seq, !.shown = e.seq,
                                     !.pc = IF e.closed THEN "ended" ELSE @]
    /\ UNCHANGED <<others, leaves>>

\* Mutant: a blocked read only waits for the next entry.
IdleNever == FALSE

IsTerminal == state.closed

\* A read that times out asks whether the room is over.
IdleCheck ==
    /\ sess.pc = "open" /\ Drained /\ IsTerminal
    /\ sess' = [sess EXCEPT !.pc = "ended"]
    /\ UNCHANGED <<others, leaves>>

\* The spectator drops the connection and may come back with Last-Event-ID.
Leave ==
    /\ sess.pc = "open" /\ leaves < MaxLeaves /\ leaves' = leaves + 1
    /\ sess' = [sess EXCEPT !.pc = "off"]
    /\ UNCHANGED others

-----------------------------------------------------------------------------
ConsumerStep == Take \/ LoadMeta \/ LoadState \/ CommitApply \/ CASConflict
                \/ PersistQuarantine \/ PublishDLQ \/ CommitOffset

RebuilderStep == BeginRebuild \/ FetchSnapshot \/ ScanHeld \/ ReadFence \/ Swap
                 \/ RefuseRequest \/ CommitRequest

SessionStep == ReadSnapshot \/ LabelSnapshot \/ Forward \/ IdleCheck

Trouble == LoseApplyReply \/ ExhaustAttempts \/ CrashConsumer
           \/ LoseSwapReply \/ ExhaustRebuild \/ CrashRebuilder

ViewNext == RoomCommits \/ Publish \/ ConsumerStep \/ RequestRebuild \/ RebuilderStep
            \/ Connect \/ SessionStep \/ Leave \/ Trouble

ViewSpec ==
    /\ ViewInit /\ [][ViewNext]_viewVars
    /\ WF_viewVars(ConsumerStep) /\ WF_viewVars(RebuilderStep) /\ WF_viewVars(SessionStep)

-----------------------------------------------------------------------------
ViewTypeOK ==
    /\ roomSeq \in 0 .. LastSeq /\ committed \in 0 .. published /\ published <= Len(feed)
    /\ meta.rev \in Nat /\ meta.gen \in Generation
    /\ state \in [seq : 0 .. LastSeq, over : BOOLEAN, closed : BOOLEAN]
    /\ outcomes \subseteq Range(feed) /\ dlq \subseteq Range(feed)
    /\ quarantine \in BOOLEAN /\ done \subseteq Job /\ refused \subseteq Job
    /\ answered \in 0 .. asked /\ asked <= Len(Requests)

\* The record at i is projected, held for a rebuild, or fenced off.
Remembered(i) == feed[i].seq <= state.seq \/ feed[i] \in dlq \/ quarantine

(* Up to the second rebuild a record the consumer has committed is not forgotten: the   *)
(* projection has reached its sequence, or the record is held in the dead-letter topic  *)
(* for a rebuild, or the room is quarantined until a rebuild.  It must survive the      *)
(* crash between the outcome and the dead-letter record, a lost reply, and a rebuild    *)
(* that forgets the outcomes meanwhile (processOne, publishDLQAndCommit).               *)
NothingForgotten ==
    Cardinality(done) <= 1 => \A i \in 1 .. committed : Remembered(i)

\* The stream of the current generation ends at the projection's own sequence.
Followed ==
    LET live == streams[meta.gen]
    IN  IF live = << >> THEN state.seq = 0 ELSE Last(live) = Entry(state)

(* Up to the second rebuild the stream of the current generation ends at the            *)
(* projection's own sequence, so that a spectator who has read it has seen the current  *)
(* state: applyCommitScript and recoveryRebuildSwapScript write both at once.           *)
StreamFollowsState == Cardinality(done) <= 1 => Followed

(* Up to then every stream, of an older generation too, tells the story in order and    *)
(* without a hole, from wherever it starts.                                             *)
StreamContiguous ==
    Cardinality(done) <= 1 => \A g \in Generation : \A i \in 1 .. Len(streams[g]) - 1 :
        streams[g][i + 1].seq = streams[g][i].seq + 1

(* Up to then too, a spectator on the current generation with nothing left to read is   *)
(* at the projected sequence: the snapshot, the entries it covers and those forwarded   *)
(* leave no hole, also when he resumes with Last-Event-ID (sseEventsHandler).           *)
DrainedIsCurrent ==
    Cardinality(done) <= 1 /\ sess.pc = "open" /\ sess.gen = meta.gen /\ Drained
        => sess.mark = state.seq

(* Neither a rebuild nor a late event takes the projection back: "a concurrent newer    *)
(* live apply wins".                                                                    *)
SequenceNeverFalls == [][state'.seq >= state.seq]_viewVars

(* What a spectator is shown never goes back, whatever generation it is read from.      *)
ShownNeverFalls ==
    [][sess.pc = "open" /\ sess'.pc = "open" => sess'.shown >= sess.shown]_viewVars

(* While a room stays quarantined nothing changes its projection: the one way forward   *)
(* is the rebuild that releases it.                                                     *)
QuarantinedIsStill == [][quarantine /\ quarantine' => state' = state]_viewVars

(* Every published record is applied or dead-lettered, and committed.                   *)
EveryRecordCommitted == <>[](committed = published)

(* Every rebuild request ends: swapped, stale, already done, or dead-lettered.          *)
EveryRequestAnswered == <>[](answered = asked)

(* Once the terminal event has closed the room, a spectator's stream ends, on the old   *)
(* generation too, where no entry will ever say so (a rebuild from the finished room's  *)
(* snapshot opens it again: TerminalIsClosed).                                          *)
ClosedEndsSession ==
    sess.pc = "open" /\ state.closed ~> sess.pc # "open" \/ ~state.closed

(* ADR-0039, Spectator recovery, step 3: the rebuild "is CAS/fenced"; the stream follows *)
(* the state whatever was rebuilt, and how often.                                       *)
StreamAlwaysFollows == Followed

(* The same whatever was rebuilt, and how often: the swap does not see that the room    *)
(* was quarantined anew after the fence was read.                                       *)
NothingEverForgotten == \A i \in 1 .. committed : Remembered(i)

(* docs/architecture/03-communication-patterns.md:130: a terminally failed record is in *)
(* the dead-letter topic before its offset is committed.                                *)
RefusedIsDeadLettered ==
    \A i \in 1 .. committed : feed[i].seq > state.seq => feed[i] \in dlq

(* ADR-0039, Spectator recovery, step 6: a room that is not quarantined has everything  *)
(* the consumer has committed.                                                          *)
ReleasedIsContinuous ==
    ~quarantine /\ c.pc = "idle" => \A i \in 1 .. committed : feed[i].seq <= state.seq

(* docs/07-consistency-and-recovery-strategy.md, Spectator Recovery: "close streams for *)
(* terminal rooms".                                                                     *)
TerminalIsClosed == state.over => state.closed

(* Together: what was committed is shown, held or fenced off, and a reader *)
(* who has read everything is up to date.                                  *)
ViewSound ==
    ViewTypeOK /\ NothingForgotten /\ StreamFollowsState /\ StreamContiguous /\ DrainedIsCurrent

(* Together: neither the projection nor a spectator goes back, and a       *)
(* quarantined room waits.                                                 *)
ViewMovesOn == SequenceNeverFalls /\ ShownNeverFalls /\ QuarantinedIsStill

(* Together: records, requests and sessions come to an end.                *)
ViewSettles == EveryRecordCommitted /\ EveryRequestAnswered /\ ClosedEndsSession
=============================================================================
