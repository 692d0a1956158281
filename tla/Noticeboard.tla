----------------------------- MODULE Noticeboard -----------------------------
(***************************************************************************)
(* What notifications promise, without listeners: notices are put up, each *)
(* for everybody or for one user, and a reader who comes finds more and    *)
(* more of those meant for him, each once, until he goes.                  *)
(* Notifications.tla implements it.                                        *)
(***************************************************************************)
EXTENDS Naturals, Sequences

CONSTANTS All, Me

VARIABLES
  notes,  \* the notices ever written, as [to, named]
  live,   \* the ones that hang on the board
  read    \* how often the reader has each before him

vars == <<notes, live, read>>

ForMe == {n \in live : notes[n].to \in {All, Me}}

Nothing == [n \in DOMAIN read |-> 0]

Init ==
  /\ notes = <<>>
  /\ live = {}
  /\ read = Nothing

Write ==
  /\ Len(notes') = Len(notes) + 1
  /\ \A i \in DOMAIN notes : notes'[i] = notes[i]
  /\ UNCHANGED <<live, read>>

PutUp ==
  /\ \E n \in DOMAIN notes : live' = live \cup {n}
  /\ UNCHANGED <<notes, read>>

\* The reader finds the notices of S, and loses none that he had.
Find(S) ==
  /\ S \subseteq ForMe
  /\ read' = [n \in DOMAIN read |-> IF n \in S THEN 1 ELSE read[n]]
  /\ UNCHANGED <<notes, live>>

Go ==
  /\ read' = Nothing
  /\ UNCHANGED <<notes, live>>

Next == Write \/ PutUp \/ Go \/ \E S \in SUBSET ForMe : Find(S)

Spec == Init /\ [][Next]_vars
=============================================================================
