----------------------------- MODULE MessageLog -----------------------------
(***************************************************************************)
(* What messaging promises, without devices, listeners or counters: an     *)
(* append-only log of messages, of which the author may retract his own,   *)
(* and screens that list some of the messages of one conversation.         *)
(* Chat.tla implements it.                                                 *)
(***************************************************************************)
EXTENDS Naturals, Sequences, FiniteSets

CONSTANTS Users, Screens, NoOne

VARIABLES
  log,     \* messages ever posted, as [from, conv, photo]
  thread,  \* those that have not been retracted
  viewer,  \* the user of every screen, or NoOne
  topic,   \* the conversation of every screen
  listed   \* the messages every screen lists

vars == <<log, thread, viewer, topic, listed>>

Init ==
  /\ log = <<>>
  /\ thread = {}
  /\ viewer = [s \in Screens |-> NoOne]
  /\ topic \in [Screens -> {{}}]
  /\ listed = [s \in Screens |-> {}]

\* A user who takes part in a conversation adds a message to it.
Post(u, k, photo) ==
  /\ u \in k
  /\ log' = Append(log, [from |-> u, conv |-> k, photo |-> photo])
  /\ thread' = thread \cup {Len(log) + 1}
  /\ UNCHANGED <<viewer, topic, listed>>

\* An author takes back some of his messages.
Retract(u, ms) ==
  /\ \A m \in ms : m \in 1..Len(log) /\ log[m].from = u
  /\ thread' = thread \ ms
  /\ UNCHANGED <<log, viewer, topic, listed>>

\* A screen on a conversation of its viewer appears, empty.
Enter(s, u, k) ==
  /\ viewer[s] = NoOne
  /\ u \in k
  /\ viewer' = [viewer EXCEPT ![s] = u]
  /\ topic' = [topic EXCEPT ![s] = k]
  /\ UNCHANGED <<log, thread, listed>>

\* A screen lists more messages of its conversation, that have not been
\* retracted or were pictures still on their way, and drops only messages of
\* its own viewer.
Update(s, more, less) ==
  /\ viewer[s] # NoOne
  /\ \A m \in more : m \in 1..Len(log) /\ log[m].conv = topic[s]
                     /\ (m \in thread \/ log[m].photo)
  /\ \A m \in less : m \in 1..Len(log) /\ log[m].from = viewer[s]
  /\ listed' = [listed EXCEPT ![s] = (@ \ less) \cup more]
  /\ UNCHANGED <<log, thread, viewer, topic>>

\* A user loses all his screens at once.
Leave(u) ==
  /\ viewer' = [s \in Screens |-> IF viewer[s] = u THEN NoOne ELSE viewer[s]]
  /\ topic' = [s \in Screens |-> IF viewer[s] = u THEN {} ELSE topic[s]]
  /\ listed' = [s \in Screens |-> IF viewer[s] = u THEN {} ELSE listed[s]]
  /\ UNCHANGED <<log, thread>>

Next ==
  \/ \E u \in Users, k \in SUBSET Users, photo \in BOOLEAN : Post(u, k, photo)
  \/ \E u \in Users, ms \in SUBSET thread : Retract(u, ms)
  \/ \E s \in Screens, u \in Users, k \in SUBSET Users : Enter(s, u, k)
  \/ \E s \in Screens, more, less \in SUBSET (1..Len(log)) : Update(s, more, less)
  \/ \E u \in Users : Leave(u)

Spec == Init /\ [][Next]_vars
=============================================================================
