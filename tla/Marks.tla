-------------------------------- MODULE Marks --------------------------------
(***************************************************************************)
(* Likes and saves (HomeCell, HomeViewController): the buttons of one      *)
(* device's feed, the marks stored for the user who loaded it, and the     *)
(* notifications a like sends.  What is stored is read once, when the tab  *)
(* is loaded; each time a cell is made its buttons are set from that       *)
(* reading.  The user may sign out on the profile and come back to the     *)
(* feed, and a sign-in that is answered late lets somebody in behind it    *)
(* (Account); what is pressed then is stored for another, or not at all.   *)
(***************************************************************************)
EXTENDS Naturals, FiniteSets

CONSTANTS
  Posts,   \* the posts of the feed
  Kinds,   \* the kinds of marks
  Like,    \* the kind whose setting notifies the author
  Author,  \* the author of every post
  Guests,  \* bound: who may be signed in later on: another, or nobody
  MaxSent  \* bound: notifications counted

VARIABLES
  stored,  \* the marks in Firestore, by kind
  asked,   \* the readings whose answer is on its way
  known,   \* likedIds and savedIds: the answers, or nothing yet
  button,  \* the buttons that look selected, by kind
  user,    \* currentUser: the one who loaded the feed, another, or nobody
  sent,    \* how many notifications each author was sent
  astray   \* history: the buttons, as they are made now, whose last press was
           \* not stored for the one who loaded the feed

vars == <<stored, asked, known, button, user, sent, astray>>

Seat == {"owner"} \cup Guests
Authors == {Author[p] : p \in Posts}

Init ==
  /\ stored \in [Kinds -> SUBSET Posts]
  /\ asked = Kinds
  /\ known = [k \in Kinds |-> {}]
  /\ button = [k \in Kinds |-> {}]
  /\ user = "owner"
  /\ sent = [a \in Authors |-> 0]
  /\ astray = [k \in Kinds |-> {}]

\* Mutant: the table is not made again.
AnswerNoReload(k) ==
  /\ k \in asked
  /\ asked' = asked \ {k}
  /\ known' = [known EXCEPT ![k] = stored[k]]
  /\ UNCHANGED <<stored, button, user, sent, astray>>

\* The answer to a reading.  The whole table is made again, so all buttons are
\* set anew.
Answer(k) ==
  /\ k \in asked
  /\ asked' = asked \ {k}
  /\ known' = [known EXCEPT ![k] = stored[k]]
  /\ button' = known'
  /\ astray' = [j \in Kinds |-> {}]
  /\ UNCHANGED <<stored, user, sent>>

\* The table is made again after a snapshot of the posts.
Reload ==
  /\ button' = known
  /\ astray' = [k \in Kinds |-> {}]
  /\ UNCHANGED <<stored, asked, known, user, sent>>

\* The cell of p is made again as it scrolls into sight.
Scroll(p) ==
  /\ button' = [k \in Kinds |-> (button[k] \ {p}) \cup (known[k] \cap {p})]
  /\ astray' = [k \in Kinds |-> astray[k] \ {p}]
  /\ UNCHANGED <<stored, asked, known, user, sent>>

\* The user signs out, or a sign-in is answered.
Become(u) ==
  /\ u # user
  /\ user' = u
  /\ UNCHANGED <<stored, asked, known, button, sent, astray>>

\* The new look of a button that is pressed.
TurnsOn(k, p) == p \notin button[k]

\* Who is told of a like.
Told(p) == Author[p]

\* Mutant: taking a like back is announced.
NotifiesWhenOff(k, p) == k = Like /\ ~TurnsOn(k, p) /\ user # "nobody"

\* A like that somebody gives is announced.
Notifies(k, p) == k = Like /\ TurnsOn(k, p) /\ user # "nobody"

\* A set of posts with the new look of the button put in.
Turned(S, k, p) == IF TurnsOn(k, p) THEN S \cup {p} ELSE S \ {p}

\* The button of p is pressed.  It is inverted first; its new look is stored for
\* the current user, and nothing is done without one.
Press(k, p) ==
  /\ button' = [button EXCEPT ![k] = Turned(@, k, p)]
  /\ IF user = "owner"
     THEN /\ stored' = [stored EXCEPT ![k] = Turned(@, k, p)]
          /\ astray' = [astray EXCEPT ![k] = @ \ {p}]
     ELSE /\ astray' = [astray EXCEPT ![k] = @ \cup {p}]
          /\ UNCHANGED stored
  /\ IF Notifies(k, p)
     THEN /\ sent[Told(p)] < MaxSent
          /\ sent' = [sent EXCEPT ![Told(p)] = @ + 1]
     ELSE UNCHANGED sent
  /\ UNCHANGED <<asked, known, user>>

Next ==
  \/ \E k \in Kinds : Answer(k)
  \/ Reload
  \/ \E p \in Posts : Scroll(p)
  \/ \E u \in Seat : Become(u)
  \/ \E k \in Kinds, p \in Posts : Press(k, p)

Spec == Init /\ [][Next]_vars

-----------------------------------------------------------------------------
(* Properties. *)

TypeOK ==
  /\ stored \in [Kinds -> SUBSET Posts]
  /\ asked \subseteq Kinds
  /\ known \in [Kinds -> SUBSET Posts]
  /\ button \in [Kinds -> SUBSET Posts]
  /\ user \in Seat
  /\ sent \in [Authors -> 0..MaxSent]
  /\ astray \in [Kinds -> SUBSET Posts]

\* A button that does not look like what is stored for the one who loaded the
\* feed looks like the answer read when the tab was loaded (nothing, before the
\* answer), or was pressed, since its cell was made, while somebody else or nobody
\* was signed in: a cell made again may forget a press, and never invents one
\* (setPost, btnLikePress, btnSavePress).
WrongButtonIsOld ==
  \A k \in Kinds, p \in Posts :
    (p \in button[k]) # (p \in stored[k]) =>
      (p \in button[k]) = (p \in known[k]) \/ p \in astray[k]

\* Every like stored since the marks were read was announced to the author of
\* that very post, however often buttons lied in between.
LikesAnnounced ==
  Like \notin asked =>
    \A a \in Authors :
      Cardinality({p \in stored[Like] \ known[Like] : Author[p] = a}) <= sent[a]
=============================================================================
