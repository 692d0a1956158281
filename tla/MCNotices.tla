----------------------------- MODULE MCNotices ------------------------------
(* TLC instance of Notices. *)
EXTENDS Notices, TLC

CONSTANTS p1, p2, ann, bob, like

TwoPosts == {p1, p2}
TwoUsers == {ann, bob}
OneEach  == (p1 :> ann) @@ (p2 :> bob)
=============================================================================
