------------------------------- MODULE MCFeed -------------------------------
(* TLC instances of Feed. *)
EXTENDS Feed, TLC

CONSTANTS ann, bob

TwoUsers == {ann, bob}

FeedSymmetry == Permutations(Users)
=============================================================================
