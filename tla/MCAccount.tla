----------------------------- MODULE MCAccount ------------------------------
(* TLC instance of Account. *)
EXTENDS Account

CONSTANTS ann, bob

TwoOfAnn == {<<ann, 1>>, <<ann, 2>>}
=============================================================================
