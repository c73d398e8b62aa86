-------------------------- MODULE MCAnalyticsRebuild --------------------------
(* A job of two pages beside an event of the live topic.                    *)
EXTENDS AnalyticsRebuild, TLC

CONSTANTS a, x, j1, w1, w2

MCFirstTokens == {w1 :> 2 @@ w2 :> 1}

\* The first page is empty, or also holds the live event while one event is
\* not what it should be.
MCWorlds ==
    LET pages(first) == [j \in Jobs |-> (0 :> first @@ 1 :> {x})]
        only(e, k) == [f \in Events |-> IF f = e THEN k ELSE "good"] IN
    {[kind |-> only(a, "good"), page |-> pages({})]}
        \cup [kind : {only(a, "unreadable"), only(x, "bad")}, page : {pages({a})}]
=============================================================================
