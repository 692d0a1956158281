---------------------------- MODULE Notifications ----------------------------
(***************************************************************************)
(* The notifications tab of one device (NotificationViewController) over   *)
(* the "notification" collection, which every device writes and nobody     *)
(* deletes from.                                                           *)
(*                                                                         *)
(* Three queries are nested: every callback of the listener for "All"      *)
(* attaches a listener for "All Managers", and every callback of that one  *)
(* attaches a listener for the user's own.  Nothing is ever sent to the    *)
(* managers, so each of theirs is called once, with nothing.  The user of  *)
(* this device is taken to stay signed in.                                 *)
(*                                                                         *)
(* A notification is known by its timestamp.  The array is sorted whenever *)
(* it changes, so it is given by how often it holds each notification.     *)
(***************************************************************************)
EXTENDS Naturals, Sequences, FiniteSets

CONSTANTS
  Users,    \* who may be notified by name
  All,      \* the receiver that means everybody
  Me,       \* the user of this device
  MaxNotes  \* bound: notifications ever written

ASSUME NotificationsAssumption ==
  /\ All \notin Users /\ Me \in Users
  /\ MaxNotes \in Nat

VARIABLES
  notes,     \* every notification written, in the order of timestamps
  live,      \* the ones whose document has reached the server
  tab,       \* the screen: not loaded, loaded, or the app has trapped
  outer,     \* the listener for "All"
  managers,  \* listeners for "All Managers" that have not been called
  inner,     \* the listeners for the user's own notifications
  rows       \* notificationArray

screen == <<tab, outer, managers, inner, rows>>
notice == <<notes, live, screen>>

-----------------------------------------------------------------------------
Ids  == 1..MaxNotes
Note == [to : Users \cup {All}, named : BOOLEAN]

\* A listener: whether it was called, and what it has put in its own array,
\* which is all its query found then, since no notification is deleted.
Listener == [ran : BOOLEAN, docs : SUBSET Ids]
Attached == [ran |-> FALSE, docs |-> {}]

\* The result of a query.
SentTo(r) == {n \in live : notes[n].to = r}

\* Mutant: a listener delivers once.
Once(l, r) == ~l.ran

HasNews(l, r) == ~l.ran \/ SentTo(r) # l.docs

Called(r) == [ran |-> TRUE, docs |-> SentTo(r)]

\* A sender without a display name leaves null where the screen expects a
\* string.
Readable(S) == \A n \in S : notes[n].named

\* Mutant: what is listed is not taken out first.
RepeatedIn(S) == [n \in Ids |-> IF n \in S THEN rows[n] + 1 ELSE rows[n]]

\* Mutant: the array becomes what the callback has handed over.
Replaced(S) == [n \in Ids |-> IF n \in S THEN 1 ELSE 0]

\* The array once a callback has handed S over: entries of the same timestamps
\* are taken out, and S is put in.
Merged(S) == [n \in Ids |-> IF n \in S THEN 1 ELSE rows[n]]

NoRows == [n \in Ids |-> 0]

Init ==
  /\ notes = <<>> /\ live = {}
  /\ tab = "closed"
  /\ outer = Attached /\ managers = 0 /\ inner = <<>>
  /\ rows = NoRows

-----------------------------------------------------------------------------
(* The other screens and devices. *)

\* A notification gets its timestamp.  That of a new post waits for the upload
\* of the picture, so notifications do not arrive in the order of timestamps.
Notify(to, named) ==
  /\ Len(notes) < MaxNotes
  /\ notes' = Append(notes, [to |-> to, named |-> named])
  /\ UNCHANGED <<live, screen>>

Arrive(n) ==
  /\ n \in DOMAIN notes \ live
  /\ live' = live \cup {n}
  /\ UNCHANGED <<notes, screen>>

-----------------------------------------------------------------------------
(* The screen. *)

\* viewDidLoad.
ShowTab ==
  /\ tab = "closed"
  /\ tab' = "open"
  /\ UNCHANGED <<notes, live, outer, managers, inner, rows>>

\* Mutant: the callback for everybody also attaches the user's own listener.
AllCalledTwice ==
  /\ tab = "open" /\ HasNews(outer, All) /\ Readable(SentTo(All))
  /\ outer' = Called(All)
  /\ rows' = Merged(SentTo(All))
  /\ managers' = managers + 1
  /\ inner' = Append(inner, Attached)
  /\ UNCHANGED <<notes, live, tab>>

\* Mutant: the listener that is called only with news attaches the others.
AllCalledWithNews ==
  /\ tab = "open" /\ outer.docs # SentTo(All) /\ Readable(SentTo(All))
  /\ outer' = Called(All)
  /\ rows' = Merged(SentTo(All))
  /\ managers' = managers + 1
  /\ UNCHANGED <<notes, live, tab, inner>>

AllCalled ==
  /\ tab = "open" /\ HasNews(outer, All) /\ Readable(SentTo(All))
  /\ outer' = Called(All)
  /\ rows' = Merged(SentTo(All))
  /\ managers' = managers + 1
  /\ UNCHANGED <<notes, live, tab, inner>>

ManagersCalled ==
  /\ tab = "open" /\ managers > 0
  /\ managers' = managers - 1
  /\ inner' = Append(inner, Attached)
  /\ UNCHANGED <<notes, live, tab, outer, rows>>

MineCalled(i) ==
  /\ tab = "open" /\ HasNews(inner[i], Me) /\ Readable(SentTo(Me))
  /\ inner' = [inner EXCEPT ![i] = Called(Me)]
  /\ rows' = Merged(SentTo(Me))
  /\ UNCHANGED <<notes, live, tab, outer, managers>>

\* as! String on the name that is not there.
Traps ==
  /\ tab = "open"
  /\ \/ HasNews(outer, All) /\ ~Readable(SentTo(All))
     \/ ~Readable(SentTo(Me)) /\ \E i \in DOMAIN inner : HasNews(inner[i], Me)
  /\ tab' = "trapped"
  /\ UNCHANGED <<notes, live, outer, managers, inner, rows>>

\* The app is started again, after a trap or because it was killed.
Relaunch ==
  /\ tab # "closed"
  /\ tab' = "closed"
  /\ outer' = Attached /\ managers' = 0 /\ inner' = <<>>
  /\ rows' = NoRows
  /\ UNCHANGED <<notes, live>>

-----------------------------------------------------------------------------
Callback == AllCalled \/ ManagersCalled \/ \E i \in DOMAIN inner : MineCalled(i)

ScreenStep == ShowTab \/ Callback \/ Traps \/ Relaunch

Next ==
  \/ \E to \in Users \cup {All}, named \in BOOLEAN : Notify(to, named)
  \/ \E n \in DOMAIN notes : Arrive(n)
  \/ ScreenStep

Spec == Init /\ [][Next]_notice

-----------------------------------------------------------------------------
(* Properties. *)

TypeOK ==
  /\ notes \in Seq(Note) /\ Len(notes) <= MaxNotes
  /\ live \subseteq 1..Len(notes)
  /\ tab \in {"closed", "open", "trapped"}
  /\ outer \in Listener /\ inner \in Seq(Listener)
  /\ managers \in Nat
  /\ rows \in [Ids -> Nat]

ForMe == {n \in live : notes[n].to \in {All, Me}}

\* Listeners multiply, but only with what is sent to everybody: there is never
\* more than one for each notification to all, and one more (viewDidLoad).
ListenersBounded == managers + Len(inner) <= 1 + Cardinality(SentTo(All))

\* Every listener has been called with what there is.
CaughtUp ==
  /\ tab = "open" /\ ~HasNews(outer, All) /\ managers = 0
  /\ \A i \in DOMAIN inner : ~HasNews(inner[i], Me)

\* Everything meant for this user is listed then: there is a listener for it, and
\* what one listener brought, another does not take away (getAllNotifications).
NothingMissing == CaughtUp => \A n \in ForMe : rows[n] > 0

\* The screen implements a notice board: however many listeners hand the same
\* notification over, it is listed once, only if it is for this user, and does
\* not go away.
Board == INSTANCE Noticeboard WITH read <- rows
BoardSpec == Board!Spec
=============================================================================
