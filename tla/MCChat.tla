------------------------------- MODULE MCChat -------------------------------
(* TLC instances of Chat. *)
EXTENDS Chat, TLC

CONSTANTS ann, bob, cid, c1, c2

TwoUsers   == {ann, bob}
ThreeUsers == {ann, bob, cid}
TwoChats   == {c1, c2}
OneChat    == {c1}

OwnNames  == [u \in Users |-> u]

ChatSymmetry == Permutations(Chats)
=============================================================================
