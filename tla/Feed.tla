-------------------------------- MODULE Feed --------------------------------
(***************************************************************************)
(* The home feed (HomeViewController) of several devices over the "posts"  *)
(* collection, and the screen that adds to it (NewPostViewController).     *)
(*                                                                         *)
(* A post is known by its timestamp, taken when it is submitted; the feed  *)
(* shows the newest first.  A listener sees the posts that exist when it   *)
(* gets to run; a device's own deletion reaches its listener before the    *)
(* completion of the deletion is called.                                   *)
(***************************************************************************)
EXTENDS Integers, Sequences, FiniteSets

CONSTANTS
  Users,       \* signed-in users, one device each
  NoUser,      \* no conversation
  MaxPosts,    \* bound: posts ever submitted
  MaxDeletes   \* bound: deletions a device issues

ASSUME FeedAssumption ==
  /\ NoUser \notin Users
  /\ MaxPosts \in Nat /\ MaxDeletes \in Nat

VARIABLES
  posts,    \* every post submitted: index = timestamp
  live,     \* the posts whose document exists
  listed,   \* postsArr of each device
  section,  \* the section captured by the cell of each listed post
  seen,     \* the posts last delivered to each device
  acks,     \* the posts whose deletion awaits its completion, oldest first
  issued,   \* deletions each device has issued
  talk,     \* the conversation a device opened, and the post of the cell used
  crashed   \* the devices whose app has trapped

vars == <<posts, live, listed, section, seen, acks, issued, talk, crashed>>

-----------------------------------------------------------------------------
Ids == 1..MaxPosts

\* A post is settled once no call of its author's app is left for it.
Post == [by : Users, state : {"uploading", "added", "settled", "lost"}, picture : BOOLEAN]

NoTalk == [with |-> NoUser, about |-> 0]

\* What a snapshot makes of the list S: every document is put in, in place of
\* an entry of the same timestamp; nothing is taken out.
Merged(S) == S \cup live

Newest(S) == CHOOSE p \in S : \A q \in S : q <= p

\* The section of post p in a list of the posts S, newest first, and back.
Section(S, p) == Cardinality({q \in S : q > p})
InSection(S, i) == {p \in S : Section(S, p) = i}

\* Cells made for the whole list.
Rendered(S) == [p \in S |-> Section(S, p)]

Running(u) == u \notin crashed

\* The app of u traps: its lists are gone, an upload on its way is lost, and a
\* deletion on its way is carried out without its completion.
Trap(u) ==
  /\ crashed' = crashed \cup {u}
  /\ listed' = [listed EXCEPT ![u] = {}]
  /\ section' = [section EXCEPT ![u] = Rendered({})]
  /\ seen' = [seen EXCEPT ![u] = {}]
  /\ acks' = [acks EXCEPT ![u] = <<>>]
  /\ posts' = [p \in 1..Len(posts) |->
                 CASE posts[p].by = u /\ posts[p].state = "uploading" ->
                        [posts[p] EXCEPT !.state = "lost"]
                   [] posts[p].by = u /\ posts[p].state = "added" ->
                        [posts[p] EXCEPT !.state = "settled"]
                   [] OTHER -> posts[p]]
  /\ talk' = [talk EXCEPT ![u] = NoTalk]
  /\ UNCHANGED <<live, issued>>

Init ==
  /\ posts = <<>>
  /\ live = {}
  /\ listed = [u \in Users |-> {}]
  /\ section = [u \in Users |-> Rendered({})]
  /\ seen = [u \in Users |-> {}]
  /\ acks = [u \in Users |-> <<>>]
  /\ issued = [u \in Users |-> 0]
  /\ talk = [u \in Users |-> NoTalk]
  /\ crashed = {}

-----------------------------------------------------------------------------
(* Adding a post. *)

\* "Post" with a picture chosen: the timestamp is taken, then the upload starts.
Submit(u) ==
  /\ Running(u) /\ talk[u] = NoTalk
  /\ Len(posts) < MaxPosts
  /\ posts' = Append(posts, [by |-> u, state |-> "uploading", picture |-> FALSE])
  /\ UNCHANGED <<live, listed, section, seen, acks, issued, talk, crashed>>

\* The upload ends, and the document is added whether or not there is a URL.
Uploaded(p) ==
  /\ posts[p].state = "uploading" /\ Running(posts[p].by)
  /\ \E ok \in BOOLEAN :
       posts' = [posts EXCEPT ![p].state = "added", ![p].picture = ok]
  /\ live' = live \cup {p}
  /\ UNCHANGED <<listed, section, seen, acks, issued, talk, crashed>>

\* The document is acknowledged: everyone is notified.
Announce(p) ==
  /\ posts[p].state = "added" /\ Running(posts[p].by)
  /\ posts' = [posts EXCEPT ![p].state = "settled"]
  /\ UNCHANGED <<live, listed, section, seen, acks, issued, talk, crashed>>

-----------------------------------------------------------------------------
(* The list. *)

\* Mutant: the listener is attached once and delivers once.
NewsOnce(u) == seen[u] = {} /\ live # {}

HasNews(u) == live # seen[u]

\* Mutant: the table is not reloaded.
SnapshotNoReload(u) ==
  /\ Running(u)
  /\ HasNews(u)
  /\ \A p \in live : posts[p].picture
  /\ seen' = [seen EXCEPT ![u] = live]
  /\ listed' = [listed EXCEPT ![u] = Merged(@)]
  /\ UNCHANGED <<posts, live, section, acks, issued, talk, crashed>>

\* Mutant: only the cells of new posts are made.
SnapshotNewCells(u) ==
  /\ Running(u)
  /\ HasNews(u)
  /\ \A p \in live : posts[p].picture
  /\ seen' = [seen EXCEPT ![u] = live]
  /\ listed' = [listed EXCEPT ![u] = Merged(@)]
  /\ section' = [section EXCEPT ![u] = [p \in Merged(listed[u]) |->
                   IF p \in listed[u] THEN @[p] ELSE Section(Merged(listed[u]), p)]]
  /\ UNCHANGED <<posts, live, acks, issued, talk, crashed>>

\* The snapshot listener, with the table reloaded.
Snapshot(u) ==
  /\ Running(u)
  /\ HasNews(u)
  /\ \A p \in live : posts[p].picture
  /\ seen' = [seen EXCEPT ![u] = live]
  /\ listed' = [listed EXCEPT ![u] = Merged(@)]
  /\ section' = [section EXCEPT ![u] = Rendered(Merged(listed[u]))]
  /\ UNCHANGED <<posts, live, acks, issued, talk, crashed>>

\* imageUrl! on a post added without a picture.
SnapshotCrashes(u) ==
  /\ Running(u)
  /\ HasNews(u)
  /\ \E p \in live : ~posts[p].picture
  /\ Trap(u)

\* A cell scrolls out and back, and captures its section anew.
Scroll(u, p) ==
  /\ Running(u) /\ talk[u] = NoTalk
  /\ p \in listed[u]
  /\ section' = [section EXCEPT ![u][p] = Section(listed[u], p)]
  /\ UNCHANGED <<posts, live, listed, seen, acks, issued, talk, crashed>>

MayDelete(u, p) == posts[p].by = u

\* "Delete" in the menu of an own post's cell.  The code deletes the post of
\* the first section, whichever cell was used: its row is always 0.
Delete(u, p) ==
  /\ Running(u) /\ talk[u] = NoTalk
  /\ p \in listed[u] /\ MayDelete(u, p)
  /\ issued[u] < MaxDeletes
  /\ LET first == Newest(listed[u])
     IN /\ live' = live \ {first}
        /\ acks' = [acks EXCEPT ![u] = Append(@, first)]
  /\ issued' = [issued EXCEPT ![u] = @ + 1]
  /\ UNCHANGED <<posts, listed, section, seen, talk, crashed>>

\* Mutant: the entry that is removed is the last one.
RemovedLast(S) == CHOOSE p \in S : \A q \in S : p <= q

\* The entry a completion removes: the first one, whatever it is by then.
Removed(S) == Newest(S)

\* The completion of a deletion.  The other cells keep their sections.
Deleted(u) ==
  /\ Running(u)
  /\ acks[u] # <<>> /\ Head(acks[u]) \notin seen[u]
  /\ listed[u] # {}
  /\ LET rest == listed[u] \ {Removed(listed[u])}
     IN /\ listed' = [listed EXCEPT ![u] = rest]
        /\ section' = [section EXCEPT ![u] = [p \in rest |-> @[p]]]
  /\ acks' = [acks EXCEPT ![u] = Tail(@)]
  /\ UNCHANGED <<posts, live, seen, issued, talk, crashed>>

\* remove(at: 0) on an empty array.
DeletedCrashes(u) ==
  /\ Running(u)
  /\ acks[u] # <<>> /\ Head(acks[u]) \notin seen[u]
  /\ listed[u] = {}
  /\ Trap(u)

\* Mutant: sections are counted from one.
CapturedPlusOne(u, p) == section[u][p] + 1

Captured(u, p) == section[u][p]

\* "Message" in the menu of another user's cell: a conversation with the author
\* of the post now in the section the cell captured.
Message(u, p) ==
  /\ Running(u) /\ talk[u] = NoTalk
  /\ p \in listed[u] /\ posts[p].by # u
  /\ \E q \in InSection(listed[u], Captured(u, p)) :
       talk' = [talk EXCEPT ![u] = [with |-> posts[q].by, about |-> p]]
  /\ UNCHANGED <<posts, live, listed, section, seen, acks, issued, crashed>>

\* That section does not exist any more.
MessageCrashes(u, p) ==
  /\ Running(u) /\ talk[u] = NoTalk
  /\ p \in listed[u] /\ posts[p].by # u
  /\ InSection(listed[u], Captured(u, p)) = {}
  /\ Trap(u)

\* Back from the conversation.
Back(u) ==
  /\ Running(u) /\ talk[u] # NoTalk
  /\ talk' = [talk EXCEPT ![u] = NoTalk]
  /\ UNCHANGED <<posts, live, listed, section, seen, acks, issued, crashed>>

\* The app is started again.
Relaunch(u) ==
  /\ ~Running(u)
  /\ crashed' = crashed \ {u}
  /\ UNCHANGED <<posts, live, listed, section, seen, acks, issued, talk>>

-----------------------------------------------------------------------------
Next ==
  \/ \E u \in Users : \/ Submit(u) \/ Snapshot(u) \/ SnapshotCrashes(u)
                      \/ Deleted(u) \/ DeletedCrashes(u) \/ Back(u) \/ Relaunch(u)
  \/ \E p \in DOMAIN posts : Uploaded(p) \/ Announce(p)
  \/ \E u \in Users : \E p \in listed[u] :
       Scroll(u, p) \/ Delete(u, p) \/ Message(u, p) \/ MessageCrashes(u, p)

Spec == Init /\ [][Next]_vars

\* Firestore keeps calling the listeners back.
FairSpec == Spec /\ \A u \in Users : WF_vars(Snapshot(u) \/ SnapshotCrashes(u))

-----------------------------------------------------------------------------
(* Properties. *)

TypeOK ==
  /\ posts \in Seq(Post) /\ Len(posts) <= MaxPosts
  /\ live \subseteq 1..Len(posts)
  /\ listed \in [Users -> SUBSET (1..Len(posts))]
  /\ \A u \in Users : section[u] \in [listed[u] -> Nat]
  /\ seen \in [Users -> SUBSET (1..Len(posts))]
  /\ acks \in [Users -> Seq(1..Len(posts))]
  /\ issued \in [Users -> 0..MaxDeletes]
  /\ talk \in [Users -> [with : Users \cup {NoUser}, about : 0..MaxPosts]]
  /\ crashed \subseteq Users

\* The app of a user who deletes nothing traps only on a post that was added
\* without a picture: no cell of his ever points outside the list.
CrashCause ==
  \A u \in crashed :
    \/ issued[u] > 0
    \/ \E p \in 1..Len(posts) : posts[p].state \in {"added", "settled"} /\ ~posts[p].picture

\* A completion that comes late takes a wrong entry off the list, but only the
\* newest posts can go missing that way: a post that was delivered and still
\* exists is listed, or newer than everything listed.
LostOnlyNewest ==
  \A u \in Users : \A p \in (seen[u] \cap live) \ listed[u] :
    \A q \in listed[u] : q < p

\* The conversation opened from a cell is with the author of the post the cell
\* shows, for a user who deletes nothing.
RightPartner ==
  \A u \in Users : (talk[u] # NoTalk /\ issued[u] = 0) =>
    talk[u].with = posts[talk[u].about].by

\* Every post reaches the list of everyone who deletes nothing, unless it is
\* deleted first or one without a picture brings the app down.
EveryoneSees ==
  \A u \in Users, p \in Ids :
    (p \in live /\ Running(u)) ~>
      (p \in listed[u] \/ p \notin live \/ ~Running(u) \/ issued[u] > 0)
=============================================================================
