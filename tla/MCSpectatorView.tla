--------------------------- MODULE MCSpectatorView ---------------------------
(* A room of three events; one record is private, or does not parse, or comes twice. *)
EXTENDS SpectatorView

Rec(n, k) == [seq |-> n, kind |-> k]

MCFeeds == {<<Rec(1, "update"), Rec(2, "update"), Rec(2, "update"), Rec(3, "terminal")>>,
            <<Rec(1, "update"), Rec(2, "private"), Rec(3, "terminal")>>,
            <<Rec(1, "update"), Rec(2, "bad"), Rec(3, "terminal")>>}

\* Two jobs; a redelivery of either comes from a crash before its offset is committed.
MCRequests == <<"j1", "j2">>
=============================================================================
