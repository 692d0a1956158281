----------------------------- MODULE MCGestures -----------------------------
(* TLC instances of Gestures. *)
EXTENDS Gestures
=============================================================================
