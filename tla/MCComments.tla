----------------------------- MODULE MCComments -----------------------------
(* TLC instances of Comments. *)
EXTENDS Comments
=============================================================================
