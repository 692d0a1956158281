------------------------------- MODULE MCShop -------------------------------
(* TLC instances of Shop. *)
EXTENDS Shop
=============================================================================
