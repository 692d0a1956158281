------------------------------ MODULE MCScene -------------------------------
(* TLC instances of Scene. *)
EXTENDS Scene

CONSTANTS o1, o2
MCObjects == {o1, o2}
=============================================================================
