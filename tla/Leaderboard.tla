----------------------------- MODULE Leaderboard -----------------------------
(***************************************************************************)
(* The Redis projection of one leaderboard (store/leaderboard_redis.go,    *)
(* store/leaderboard_redis_lua.go, store/leaderboard_rebuild.go,           *)
(* kafka_consumer.go).  Rating events reach it from the outbox, in order   *)
(* for each player, at least once, and each is fenced by the board version *)
(* its transaction took.  A rebuild pages the authoritative ratings into a *)
(* staging generation while events go on, and swaps it in.                 *)
(*                                                                         *)
(* Every Lua script is one step; everything between two scripts or queries *)
(* of a rebuild is another.  RatingLedger is the source of the ratings and *)
(* of their versions; here a commit is one action.                         *)
(***************************************************************************)
EXTENDS Integers, Sequences, FiniteSets

CONSTANTS
    Player,
    InitialRows,     \* the players that have a row at first
    Commits,         \* the score-changing commits: for each version in turn, a set of
                     \* alternatives [a set of players -> rating]
    Rebuild,         \* rebuild requests; a request's id is its ownership token
    BatchSize,       \* rows of one keyset page
    MaxFaults        \* lost replies, failed scripts, crashes, and events
                     \* dead-lettered because Redis stayed unavailable

NoToken == "none"

ASSUME BoardAssumption ==
    /\ Player \subseteq Nat /\ InitialRows \subseteq Player
    /\ Len(Commits) \in Nat
    /\ \A i \in 1 .. Len(Commits) : \A new \in Commits[i] :
          DOMAIN new \subseteq Player /\ new \in [DOMAIN new -> Int]
    /\ IsFiniteSet(Rebuild) /\ NoToken \notin Rebuild
    /\ BatchSize \in Nat \ {0} /\ MaxFaults \in Nat

VARIABLES
    pg,          \* player_ratings: [a set of players -> rating]
    dirty,       \* dirty_version of the board
    cdc,         \* [Player -> Seq of rating events], a partition in Kafka
    offset,      \* [Player -> committed offset]
    dead,        \* <<player, index>> given up after a projection conflict
    lost,        \* <<player, index>> given up because Redis was unavailable
    meta,        \* the board's meta hash
    zset,        \* [generation -> [a set of players -> rating]]
    applied,     \* [generation -> [a set of players -> version]]
    rb,          \* the state of each rebuild request
    faults

boardVars == <<pg, dirty, cdc, offset, dead, lost, meta, zset, applied, rb, faults>>

source == <<pg, dirty, cdc>>
stream == <<offset, dead, lost>>
redis == <<meta, zset, applied>>

Generation == 0 .. Cardinality(Rebuild)

Fresh == [pc |-> "start", watermark |-> 0, liveGen |-> 0, newGen |-> 0,
          cursor |-> << >>, batch |-> << >>]

BoardInit ==
    /\ pg = [p \in InitialRows |-> 1] /\ dirty = 0
    /\ cdc = [p \in Player |-> << >>]
    /\ offset = [p \in Player |-> 0] /\ dead = {} /\ lost = {}
    /\ meta = [generation |-> 0, ready |-> FALSE, rebuilding |-> 0, token |-> NoToken,
               version |-> 0, memberCount |-> 0]
    /\ zset = [g \in Generation |-> << >>] /\ applied = [g \in Generation |-> << >>]
    /\ rb = [r \in Rebuild |-> Fresh]
    /\ faults = 0

Fault == faults < MaxFaults /\ faults' = faults + 1

-----------------------------------------------------------------------------
(* The source: one commit moves the scores of some players. *)

Change(p, rating) ==
    [prev |-> IF p \in DOMAIN pg THEN pg[p] ELSE 1, next |-> rating, version |-> dirty + 1]

CommitScores(new) ==
    /\ \A p \in DOMAIN new : new[p] # (IF p \in DOMAIN pg THEN pg[p] ELSE 1)
    /\ pg' = [p \in DOMAIN pg \union DOMAIN new |-> IF p \in DOMAIN new THEN new[p] ELSE pg[p]]
    /\ dirty' = dirty + 1
    /\ cdc' = [p \in Player |-> IF p \in DOMAIN new THEN Append(cdc[p], Change(p, new[p]))
                                                  ELSE cdc[p]]
    /\ UNCHANGED <<stream, redis, rb, faults>>

-----------------------------------------------------------------------------
(* upsertLeaderboardMemberScript. *)

HasLive == meta.ready /\ meta.generation >= 1
HasRebuild == meta.rebuilding # 0

Version(g, p) == IF p \in DOMAIN applied[g] THEN applied[g][p] ELSE 0

\* The verdict of one generation on an event: the fence, then the previous rating.
Verdict(g, p, e) ==
    LET shown == p \in DOMAIN zset[g]
    IN  CASE Version(g, p) > e.version -> "stale"
          [] Version(g, p) = e.version -> IF shown /\ zset[g][p] = e.next THEN "again" ELSE "conflict"
          [] OTHER -> IF shown /\ zset[g][p] \notin {e.next, e.prev} THEN "conflict" ELSE "applied"

Put(f, p, v) == [q \in DOMAIN f \union {p} |-> IF q = p THEN v ELSE f[q]]

\* Mutant: staging is not written while a live generation serves.
TargetsLiveOnly(p, e) ==
    IF HasLive
    THEN IF Verdict(meta.generation, p, e) = "applied" THEN {meta.generation} ELSE {}
    ELSE IF HasRebuild /\ Verdict(meta.rebuilding, p, e) = "applied" THEN {meta.rebuilding} ELSE {}

\* The generations an event is written to: live, and staging if live accepts it.
Targets(p, e) ==
    IF HasLive
    THEN LET v == Verdict(meta.generation, p, e)
         IN  (IF v = "applied" THEN {meta.generation} ELSE {})
             \union (IF HasRebuild /\ meta.rebuilding # meta.generation
                        /\ v \in {"applied", "again"}
                        /\ Verdict(meta.rebuilding, p, e) = "applied"
                     THEN {meta.rebuilding} ELSE {})
    ELSE IF HasRebuild /\ Verdict(meta.rebuilding, p, e) = "applied" THEN {meta.rebuilding} ELSE {}

\* What the script answers: the verdict of the generation it is fenced by.
Answer(p, e) ==
    CASE HasLive -> Verdict(meta.generation, p, e)
      [] ~HasLive /\ HasRebuild -> Verdict(meta.rebuilding, p, e)
      [] OTHER -> "stale"

Larger(a, b) == IF a > b THEN a ELSE b

\* memberCount after an event: refreshed from the live set it was written to.
MemberCount(z) == IF HasLive THEN Cardinality(DOMAIN z[meta.generation]) ELSE meta.memberCount

Upsert(p, e) ==
    LET to == Targets(p, e) IN
    /\ zset' = [g \in Generation |-> IF g \in to THEN Put(zset[g], p, e.next) ELSE zset[g]]
    /\ applied' = [g \in Generation |-> IF g \in to THEN Put(applied[g], p, e.version)
                                                    ELSE applied[g]]
    /\ meta' = [meta EXCEPT
         !.memberCount = IF Answer(p, e) \in {"applied", "again"} THEN MemberCount(zset') ELSE @,
         !.version = IF Answer(p, e) = "applied" THEN Larger(@, e.version) ELSE @]

-----------------------------------------------------------------------------
(* The consumer of a player's partition. *)

Pending(p) == offset[p] < Len(cdc[p])
Event(p) == cdc[p][offset[p] + 1]

\* The event is applied, stale or in conflict; a conflict is terminal: dead letter.
Consume(p) ==
    /\ Pending(p)
    /\ Upsert(p, Event(p))
    /\ dead' = IF Answer(p, Event(p)) = "conflict"
               THEN dead \union {<<p, offset[p] + 1>>} ELSE dead
    /\ offset' = [offset EXCEPT ![p] = @ + 1]
    /\ UNCHANGED <<source, lost, rb, faults>>

\* The script ran but its reply or the commit is lost: the event comes again.
ConsumeUnacknowledged(p) ==
    /\ Pending(p) /\ Fault
    /\ Upsert(p, Event(p))
    /\ UNCHANGED <<source, stream, rb>>

\* Redis stays unavailable for every attempt: the event is dead-lettered.
LoseEvent(p) ==
    /\ Pending(p) /\ Fault
    /\ lost' = lost \union {<<p, offset[p] + 1>>}
    /\ offset' = [offset EXCEPT ![p] = @ + 1]
    /\ UNCHANGED <<source, dead, redis, rb>>

-----------------------------------------------------------------------------
(* A rebuild request. *)

Goto(r, pc) == rb' = [rb EXCEPT ![r].pc = pc]

\* RebuildLeaderboardProjection reads the version that will stamp the staging rows.
ReadWatermark(r) ==
    /\ rb[r].pc = "start"
    /\ rb' = [rb EXCEPT ![r] = [@ EXCEPT !.pc = "meta", !.watermark = dirty]]
    /\ UNCHANGED <<source, stream, redis, faults>>

\* The next generation is one past the live one, as meta shows it now.
ReadMeta(r) ==
    /\ rb[r].pc = "meta"
    /\ rb' = [rb EXCEPT ![r] = [@ EXCEPT !.pc = "begin", !.liveGen = meta.generation,
                                         !.newGen = meta.generation + 1]]
    /\ UNCHANGED <<source, stream, redis, faults>>

\* beginRebuildScript refuses a generation not past the live one, or a second owner.
MayBegin(r) == rb[r].newGen > meta.generation /\ meta.rebuilding = 0

\* beginRebuildScript wipes the staging keys and takes ownership.
TakeStaging(r) ==
    /\ meta' = [meta EXCEPT !.rebuilding = rb[r].newGen, !.token = r]
    /\ zset' = [zset EXCEPT ![rb[r].newGen] = << >>]
    /\ applied' = [applied EXCEPT ![rb[r].newGen] = << >>]

\* Any error of begin, a lost reply too, goes through reconcileBeginRebuild.
Begin(r) ==
    /\ rb[r].pc = "begin"
    /\ \/ MayBegin(r) /\ TakeStaging(r) /\ Goto(r, "page") /\ UNCHANGED faults
       \/ MayBegin(r) /\ Fault /\ TakeStaging(r) /\ Goto(r, "reconcile")
       \/ ~MayBegin(r) /\ Goto(r, "reconcile") /\ UNCHANGED <<redis, faults>>
    /\ UNCHANGED <<source, stream>>

Owns(r) == meta.rebuilding = rb[r].newGen /\ meta.token = r

\* The rebuild goes on only if begin did apply, under its own token.
reconcileBeginRebuild(r) ==
    /\ rb[r].pc = "reconcile"
    /\ Goto(r, IF Owns(r) THEN "page" ELSE "done")
    /\ UNCHANGED <<source, stream, redis, faults>>

\* Rows after the cursor, best rating first and then by player.
Behind(p, cursor) ==
    cursor = << >> \/ pg[p] < cursor[1] \/ (pg[p] = cursor[1] /\ p > cursor[2])

\* What the query may return: the first rows after the cursor, as many as fit.
LeaderboardKeysetPage(cursor) ==
    LET after == {p \in DOMAIN pg : Behind(p, cursor)}
    IN  {page \in SUBSET after :
            /\ Cardinality(page) <= BatchSize
            /\ page # after => Cardinality(page) = BatchSize
            /\ \A p \in page, q \in after \ page : Behind(q, <<pg[p], p>>)}

EndsWith(page, last) == last \in page /\ \A p \in page \ {last} : Behind(last, <<pg[p], p>>)

\* One query of the authoritative ratings; an empty page ends the copy, an error aborts.
\* The page after this one starts behind its last row.
ReadPage(r) ==
    /\ rb[r].pc = "page"
    /\ \/ /\ \E page \in LeaderboardKeysetPage(rb[r].cursor) :
                \/ page = {} /\ Goto(r, "cutover")
                \/ \E last \in page :
                      /\ EndsWith(page, last)
                      /\ rb' = [rb EXCEPT ![r] = [@ EXCEPT !.pc = "write",
                                   !.batch = [p \in page |-> pg[p]],
                                   !.cursor = <<pg[last], last>>]]
          /\ UNCHANGED faults
       \/ Fault /\ Goto(r, "abort")
    /\ UNCHANGED <<source, stream, redis>>

\* Mutant: a batch overwrites whatever an event has already put in staging.
CopiedAll(r) == DOMAIN rb[r].batch

\* rebuildMemberBatchScript keeps a member whose fence is at or past the watermark.
Kept(r, p) ==
    LET fences == applied[rb[r].newGen]
    IN  p \in DOMAIN fences /\ fences[p] >= rb[r].watermark

Copied(r) == {p \in DOMAIN rb[r].batch : ~Kept(r, p)}

\* Each copied row takes the watermark as its fence.
WriteStaging(r) ==
    LET g == rb[r].newGen IN
    /\ zset' = [zset EXCEPT ![g] = [p \in DOMAIN @ \union Copied(r) |->
                   IF p \in Copied(r) THEN rb[r].batch[p] ELSE @[p]]]
    /\ applied' = [applied EXCEPT ![g] = [p \in DOMAIN @ \union Copied(r) |->
                   IF p \in Copied(r) THEN rb[r].watermark ELSE @[p]]]
    /\ UNCHANGED meta

\* A page with room for more is the last one.
LastPage(r) == Cardinality(DOMAIN rb[r].batch) < BatchSize

\* A batch of the owner is copied; any error aborts the rebuild.
WriteBatch(r) ==
    /\ rb[r].pc = "write"
    /\ \/ /\ Owns(r) /\ WriteStaging(r)
          /\ rb' = [rb EXCEPT ![r] = [@ EXCEPT !.batch = << >>,
                      !.pc = IF LastPage(r) THEN "cutover" ELSE "page"]]
          /\ UNCHANGED faults
       \/ Owns(r) /\ Fault /\ WriteStaging(r) /\ Goto(r, "abort")
       \/ ~Owns(r) /\ Goto(r, "abort") /\ UNCHANGED <<redis, faults>>
    /\ UNCHANGED <<source, stream>>

\* cutoverRebuildScript: staging becomes live, and the old generation's keys go.
SwapIn(r) ==
    LET g == rb[r].newGen IN
    /\ meta' = [generation |-> g, ready |-> TRUE, rebuilding |-> 0, token |-> NoToken,
                version |-> IF rb[r].watermark > 0 THEN Larger(meta.version, rb[r].watermark)
                                                   ELSE meta.version + 1,
                memberCount |-> Cardinality(DOMAIN zset[g])]
    /\ zset' = [zset EXCEPT ![rb[r].liveGen] = << >>]
    /\ applied' = [applied EXCEPT ![rb[r].liveGen] = << >>]

\* The owner swaps; after an error the rebuild looks whether the swap did apply.
Cutover(r) ==
    /\ rb[r].pc = "cutover"
    /\ \/ Owns(r) /\ SwapIn(r) /\ Goto(r, "done") /\ UNCHANGED faults
       \/ Owns(r) /\ Fault /\ SwapIn(r) /\ Goto(r, "swapped")
       \/ ~Owns(r) /\ Goto(r, "swapped") /\ UNCHANGED <<redis, faults>>
    /\ UNCHANGED <<source, stream>>

\* cutoverAlreadyApplied: the generation is live and nothing is rebuilding.
CheckSwapped(r) ==
    /\ rb[r].pc = "swapped"
    /\ Goto(r, IF meta.generation = rb[r].newGen /\ meta.rebuilding = 0 /\ meta.ready
               THEN "done" ELSE "abort")
    /\ UNCHANGED <<source, stream, redis, faults>>

\* abortRebuildScript frees the staging keys of its own rebuild, never another's.
Aborts(r) == Owns(r)

Abort(r) ==
    /\ rb[r].pc = "abort"
    /\ IF Aborts(r)
       THEN /\ meta' = [meta EXCEPT !.rebuilding = 0, !.token = NoToken]
            /\ IF meta.generation = rb[r].newGen THEN UNCHANGED <<zset, applied>>
               ELSE /\ zset' = [zset EXCEPT ![rb[r].newGen] = << >>]
                    /\ applied' = [applied EXCEPT ![rb[r].newGen] = << >>]
       ELSE UNCHANGED redis
    /\ Goto(r, "done")
    /\ UNCHANGED <<source, stream, faults>>

\* The request dies; whatever it owns in Redis stays.
CrashRebuild(r) ==
    /\ rb[r].pc \notin {"start", "done"}
    /\ Fault
    /\ Goto(r, "done")
    /\ UNCHANGED <<source, stream, redis>>

RebuildStep(r) ==
    \/ ReadWatermark(r) \/ ReadMeta(r) \/ Begin(r) \/ reconcileBeginRebuild(r)
    \/ ReadPage(r) \/ WriteBatch(r) \/ Cutover(r) \/ CheckSwapped(r) \/ Abort(r)

-----------------------------------------------------------------------------

\* pageScript serves the live set only if it has the recorded number of members.
Served == meta.ready /\ meta.memberCount = Cardinality(DOMAIN zset[meta.generation])

BoardNext ==
    \/ dirty < Len(Commits) /\ \E new \in Commits[dirty + 1] : CommitScores(new)
    \/ \E p \in Player : Consume(p) \/ ConsumeUnacknowledged(p) \/ LoseEvent(p)
    \/ \E r \in Rebuild : RebuildStep(r) \/ CrashRebuild(r)

\* The consumer polls for ever; a request runs until it returns.
BoardSpec ==
    /\ BoardInit /\ [][BoardNext]_boardVars
    /\ \A p \in Player : WF_boardVars(Consume(p))
    /\ \A r \in Rebuild : WF_boardVars(RebuildStep(r))

-----------------------------------------------------------------------------
(* Properties. *)

(* Generations, fences and offsets are well formed, and a member has a     *)
(* score exactly when it has a fence.                                      *)
BoardTypeOK ==
    /\ meta.generation \in Generation /\ meta.rebuilding \in Generation
    /\ \A g \in Generation : DOMAIN zset[g] = DOMAIN applied[g]
    /\ \A p \in Player : offset[p] \in 0 .. Len(cdc[p])
    /\ (meta.rebuilding = 0) <=> (meta.token = NoToken)

Drained(p) == offset[p] = Len(cdc[p])
Missed(p) == \E l \in lost : l[1] = p

(* With every event of a player consumed and none lost, a ready board      *)
(* shows the player's authoritative rating, whatever rebuilds,             *)
(* redeliveries and conflicts came before, and while a rebuild runs.       *)
Converged ==
    meta.ready =>
        \A p \in DOMAIN pg : (Drained(p) /\ ~Missed(p))
            => p \in DOMAIN zset[meta.generation] /\ zset[meta.generation][p] = pg[p]

(* A page is refused when the count and the set differ, so on a ready      *)
(* board they never do: no event or swap leaves it unreadable.             *)
ReadyIsServed ==
    meta.ready => Served

(* The version a page carries never goes back, although pages are served   *)
(* from one generation and then another.                                   *)
VersionNeverFalls == [][meta'.version >= meta.version]_boardVars

(* A swap may publish a staging generation that misses a member the live   *)
(* one shows, when the member overtook the page cursor; but only while the *)
(* event that brings it back is still to come, or was given up.            *)
VanishedReturns ==
    [][\A p \in Player : (meta.ready /\ p \in DOMAIN zset[meta.generation])
          => p \in DOMAIN zset'[meta'.generation] \/ ~Drained(p) \/ Missed(p)]_boardVars

(* Every event is consumed, and a board that is ready agrees with the      *)
(* ratings for good, unless an event was lost.                             *)
BoardSettles ==
    <>[]((meta.ready /\ lost = {}) => zset[meta.generation] = pg)

(* Together: a ready board can be served and shows the ratings.            *)
BoardSound == BoardTypeOK /\ Converged /\ ReadyIsServed

(* Together: versions only grow, and a member that vanishes is on his way. *)
BoardMovesOn == VersionNeverFalls /\ VanishedReturns
=============================================================================
