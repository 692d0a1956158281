------------------------------ MODULE Comments ------------------------------
(***************************************************************************)
(* The comments of one post on one device (CommentsViewController).        *)
(*                                                                         *)
(* Every scroll to the end attaches one more listener to the same query;   *)
(* each listener keeps a list of its own and hands it to the screen.  The  *)
(* callbacks of all listeners and the completions of deletions run one by  *)
(* one on the main queue, in the order Firestore issued them.              *)
(*                                                                         *)
(* A comment is known by its timestamp; a larger one is newer.  One posted  *)
(* by a screen that has lost its user names no sender, and every callback  *)
(* that finds it unwraps nil.                                              *)
(***************************************************************************)
EXTENDS Integers, SequencesExt

CONSTANTS
  MaxComments,   \* bound: comments ever posted
  MaxListeners,  \* bound: listeners attached by this screen
  MaxDeletes     \* bound: deletions issued by this screen

ASSUME CommentsAssumption ==
  /\ MaxComments \in Nat
  /\ MaxListeners \in Nat \ {0}
  /\ MaxDeletes \in Nat

VARIABLES
  posted,    \* how many comments were ever posted
  live,      \* the comments this device's Firestore has now
  unsigned,  \* those posted without a user: senderID is null
  temp,      \* tempComments of each listener
  mainQueue, \* callbacks waiting for the main thread
  pending,   \* own deletions the server has not acknowledged
  acked,     \* own deletions whose completion has run
  deletes,   \* deletions issued by this screen
  shown,     \* commentsArr
  table,     \* the comments the rows of the table display
  isDelete,
  fetchingMore,
  crashed    \* the app has trapped

data   == <<posted, live, unsigned, pending, deletes>>
screen == <<shown, table, isDelete, fetchingMore>>
vars   == <<posted, live, unsigned, temp, mainQueue, pending, acked, deletes, shown, table,
            isDelete, fetchingMore, crashed>>

-----------------------------------------------------------------------------
Ids == 1..MaxComments
Listeners == 1..MaxListeners

Snap(l, S) == [kind |-> "snapshot", of |-> l, docs |-> S]
Ack(c)     == [kind |-> "ack", of |-> c, docs |-> {}]
Events     == [kind : {"snapshot"}, of : Listeners, docs : SUBSET Ids]
              \cup [kind : {"ack"}, of : Ids, docs : {{}}]

\* The n-th member of a set of numbers, counted from the smallest.
Nth(S, n) == CHOOSE m \in S : Cardinality({i \in S : i < m}) = n - 1

NewestFirst(S) == [i \in 1..Cardinality(S) |-> Nth(S, Cardinality(S) - i + 1)]

\* s without the members of T.
Kept(s, T) ==
  LET places == {i \in DOMAIN s : s[i] \notin T}
  IN [i \in 1..Cardinality(places) |-> s[Nth(places, i)]]

Without(s, c) == Kept(s, {c})

\* Mutant: the comments are fetched once.
FetchedOnce(q, S) == q

\* A change of the query's result is issued to every listener.
Notify(q, S) == q \o [l \in DOMAIN temp |-> Snap(l, S)]

Init ==
  /\ posted \in 0..MaxComments
  /\ live = 1..posted
  /\ unsigned \in SUBSET live
  /\ temp = << <<>> >>
  /\ mainQueue = <<Snap(1, live)>>
  /\ pending = {} /\ acked = {} /\ deletes = 0
  /\ shown = <<>> /\ table = <<>>
  /\ isDelete = FALSE
  /\ fetchingMore = TRUE
  /\ crashed = FALSE

-----------------------------------------------------------------------------
(* Firestore and the other users. *)

\* Mutant: the timestamp is ahead.
PostAhead(signed) ==
  /\ ~crashed /\ posted < MaxComments
  /\ posted' = posted + 1
  /\ live' = live \cup {posted' + 1}
  /\ unsigned' = IF signed THEN unsigned ELSE unsigned \cup {posted'}
  /\ mainQueue' = Notify(mainQueue, live')
  /\ UNCHANGED <<temp, pending, acked, deletes, screen, crashed>>

\* A comment is posted, here or elsewhere, by a user or from a screen whose user
\* has gone.
Post(signed) ==
  /\ ~crashed /\ posted < MaxComments
  /\ posted' = posted + 1
  /\ live' = live \cup {posted'}
  /\ unsigned' = IF signed THEN unsigned ELSE unsigned \cup {posted'}
  /\ mainQueue' = Notify(mainQueue, live')
  /\ UNCHANGED <<temp, pending, acked, deletes, screen, crashed>>

\* Another user deletes a comment: everyone may delete any that is listed.
RemoteDelete(c) ==
  /\ ~crashed /\ c \in live \ unsigned
  /\ live' = live \ {c}
  /\ mainQueue' = Notify(mainQueue, live')
  /\ UNCHANGED <<posted, unsigned, temp, pending, acked, deletes, screen, crashed>>

\* The server acknowledges a deletion.
Acknowledge(c) ==
  /\ ~crashed /\ c \in pending
  /\ pending' = pending \ {c}
  /\ mainQueue' = Append(mainQueue, Ack(c))
  /\ UNCHANGED <<posted, live, unsigned, temp, acked, deletes, screen, crashed>>

-----------------------------------------------------------------------------
(* The screen. *)

\* The end of the list is in sight.
ScrollToEnd ==
  /\ ~crashed /\ ~fetchingMore
  /\ Len(temp) < MaxListeners
  /\ fetchingMore' = TRUE
  /\ temp' = Append(temp, shown)
  /\ mainQueue' = Append(mainQueue, Snap(Len(temp'), live))
  /\ UNCHANGED <<data, acked, shown, table, isDelete, crashed>>

\* A row scrolls out of sight and back.
RowAgain(i) ==
  /\ ~crashed /\ i \in DOMAIN table
  /\ IF i <= Len(shown)
     THEN table' = [table EXCEPT ![i] = shown[i]] /\ UNCHANGED crashed
     ELSE crashed' = TRUE /\ UNCHANGED table
  /\ UNCHANGED <<data, temp, mainQueue, acked, shown, isDelete, fetchingMore>>

\* Mutant: the row is not taken off the table.
DeleteKeepsRow(i) ==
  /\ ~crashed /\ deletes < MaxDeletes
  /\ i \in DOMAIN table /\ i <= Len(shown)
  /\ deletes' = deletes + 1
  /\ live' = live \ {shown[i]}
  /\ pending' = pending \cup {shown[i]}
  /\ mainQueue' = IF shown[i] \in live THEN Notify(mainQueue, live') ELSE mainQueue
  /\ isDelete' = TRUE
  /\ shown' = Without(shown, shown[i])
  /\ UNCHANGED <<posted, unsigned, temp, acked, table, fetchingMore, crashed>>

\* A row is swiped away: what is deleted is the comment at its place in
\* commentsArr.  The table refuses an array that did not shrink to its rows.
Delete(i) ==
  /\ ~crashed /\ deletes < MaxDeletes
  /\ i \in DOMAIN table /\ i <= Len(shown)
  /\ deletes' = deletes + 1
  /\ live' = live \ {shown[i]}
  /\ pending' = pending \cup {shown[i]}
  /\ mainQueue' = IF shown[i] \in live THEN Notify(mainQueue, live') ELSE mainQueue
  /\ isDelete' = TRUE
  /\ shown' = Without(shown, shown[i])
  /\ table' = RemoveAt(table, i)
  /\ crashed' = (Len(shown') # Len(table'))
  /\ UNCHANGED <<posted, unsigned, temp, acked, fetchingMore>>

\* The row has no place in commentsArr.
DeleteCrashes(i) ==
  /\ ~crashed /\ deletes < MaxDeletes
  /\ i \in DOMAIN table /\ i > Len(shown)
  /\ crashed' = TRUE
  /\ UNCHANGED <<data, temp, mainQueue, acked, screen>>

-----------------------------------------------------------------------------
(* The main thread. *)

Cleared(S) == isDelete /\ S # {}

\* Mutant: the flag is not reset while the documents are gone through.
FilledClearing(l, S) ==
  IF Cleared(S) THEN <<Last(NewestFirst(S))>>
  ELSE Kept(temp[l], S) \o NewestFirst(S)

\* Mutant: a comment already listed keeps its place.
FilledInPlace(l, S) ==
  LET old == IF Cleared(S) THEN <<>> ELSE temp[l]
  IN old \o NewestFirst(S \ ToSet(old))

\* The list of listener l, filled from a snapshot: each document goes to the
\* end, in the order of the query, and what is not in the snapshot stays in
\* front, except after a deletion.
Filled(l, S) ==
  LET old == IF Cleared(S) THEN <<>> ELSE temp[l]
  IN Kept(old, S) \o NewestFirst(S)

\* Only the callback given by viewDidLoad sorts.
Handed(l, list) == IF l = 1 THEN NewestFirst(ToSet(list)) ELSE list

\* Every callback ends the fetch, whoever started it.
Releases(l) == FALSE

\* The first callback in the queue meets a comment without a sender.
Senderless == Head(mainQueue).docs \cap unsigned # {}

Snapshot ==
  /\ ~crashed
  /\ mainQueue # <<>> /\ Head(mainQueue).kind = "snapshot"
  /\ ~Senderless
  /\ LET l == Head(mainQueue).of
         S == Head(mainQueue).docs
     IN /\ temp' = [temp EXCEPT ![l] = Filled(l, S)]
        /\ isDelete' = (isDelete /\ ~Cleared(S))
        /\ shown' = Handed(l, temp'[l])
        /\ table' = shown'
        /\ fetchingMore' = Releases(l)
  /\ mainQueue' = Tail(mainQueue)
  /\ UNCHANGED <<data, acked, crashed>>

\* senderID! on a comment without one.
SnapshotCrashes ==
  /\ ~crashed
  /\ mainQueue # <<>> /\ Head(mainQueue).kind = "snapshot"
  /\ Senderless
  /\ crashed' = TRUE
  /\ UNCHANGED <<data, temp, mainQueue, acked, screen>>

\* The completion of a deletion removes the comment once more, and leaves the
\* table as it is.
Completed ==
  /\ ~crashed
  /\ mainQueue # <<>> /\ Head(mainQueue).kind = "ack"
  /\ shown' = Without(shown, Head(mainQueue).of)
  /\ acked' = acked \cup {Head(mainQueue).of}
  /\ mainQueue' = Tail(mainQueue)
  /\ UNCHANGED <<data, temp, table, isDelete, fetchingMore, crashed>>

Next ==
  \/ \E signed \in BOOLEAN : Post(signed)
  \/ ScrollToEnd \/ Snapshot \/ SnapshotCrashes \/ Completed
  \/ \E c \in live : RemoteDelete(c)
  \/ \E c \in pending : Acknowledge(c)
  \/ \E i \in DOMAIN table : RowAgain(i) \/ Delete(i) \/ DeleteCrashes(i)

Spec == Init /\ [][Next]_vars

\* The main thread works its queue off.
FairSpec == Spec /\ WF_vars(Snapshot \/ SnapshotCrashes \/ Completed)

-----------------------------------------------------------------------------
(* Properties. *)

TypeOK ==
  /\ posted \in 0..MaxComments
  /\ live \subseteq 1..posted /\ unsigned \subseteq 1..posted
  /\ temp \in Seq(Seq(1..posted)) /\ Len(temp) \in Listeners
  /\ mainQueue \in Seq(Events)
  /\ \A i \in DOMAIN mainQueue : mainQueue[i].kind = "snapshot" => mainQueue[i].of \in DOMAIN temp
  /\ pending \subseteq 1..posted /\ acked \subseteq 1..posted
  /\ deletes \in 0..MaxDeletes
  /\ shown \in Seq(1..posted) /\ table \in Seq(1..posted)
  /\ isDelete \in BOOLEAN /\ fetchingMore \in BOOLEAN /\ crashed \in BOOLEAN

\* Until the completion of a deletion runs, the rows display exactly what the
\* array holds, so a swipe deletes the comment the user saw, and the app traps only
\* on a comment somebody posted without being signed in (commit:forRowAt:, the
\* callbacks of getComments, btnPostPressed).
RowsMatch == acked = {} => table = shown /\ (crashed => unsigned # {})

\* However many listeners hand over their lists, no comment is listed twice,
\* and the ones that exist are listed newest first.
InOrder ==
  \A i, j \in DOMAIN shown : i < j =>
    /\ shown[i] # shown[j]
    /\ {shown[i], shown[j]} \subseteq live => shown[i] > shown[j]

\* When the main thread is idle, every comment that exists is listed: clearing
\* one listener's list for a deletion loses nothing.
NothingMissing == mainQueue = <<>> => live \subseteq ToSet(shown)

\* Every comment gets listed, unless it is deleted first.
CommentsShown ==
  \A c \in Ids : (c \in live) ~> (c \in ToSet(shown) \/ c \notin live \/ crashed)
=============================================================================
