------------------------------- MODULE Notices -------------------------------
(***************************************************************************)
(* Likes and the notifications they send: the buttons of one device        *)
(* (Marks), and the notifications tab of another (Notifications), which is *)
(* also told of comments and of new posts.                                 *)
(***************************************************************************)
EXTENDS Notifications

CONSTANTS Posts, Kinds, Like, Author, Guests, MaxSent

VARIABLES stored, asked, known, button, user, sent, astray

ASSUME NoticesAssumption ==
  /\ IsFiniteSet(Posts) /\ Author \in [Posts -> Users]
  /\ Like \in Kinds /\ MaxSent \in Nat /\ Guests \subseteq {"other", "nobody"}

M == INSTANCE Marks

marks == <<stored, asked, known, button, user, sent, astray>>
vars  == <<notice, marks>>

SocialInit == Init /\ M!Init

\* Marks' Press with the notification it sends, under the name the presser has.
Press(k, p) ==
  /\ M!Press(k, p)
  /\ IF M!Notifies(k, p)
     THEN \E named \in BOOLEAN : Notify(M!Told(p), named)
     ELSE UNCHANGED notice

\* A comment on post p notifies its author, from the comments screen and from
\* the field in the feed.
Comment(p) ==
  /\ \E named \in BOOLEAN : Notify(Author[p], named)
  /\ UNCHANGED marks

\* A new post notifies everybody.
NewPost ==
  /\ \E named \in BOOLEAN : Notify(All, named)
  /\ UNCHANGED marks

Arrival ==
  /\ \E n \in DOMAIN notes : Arrive(n)
  /\ UNCHANGED marks

Buttons ==
  /\ \/ \E k \in Kinds : M!Answer(k)
     \/ M!Reload
     \/ \E p \in Posts : M!Scroll(p)
     \/ \E u \in M!Seat : M!Become(u)
  /\ UNCHANGED notice

Screen == ScreenStep /\ UNCHANGED marks

SocialNext ==
  \/ \E k \in Kinds, p \in Posts : Press(k, p)
  \/ \E p \in Posts : Comment(p)
  \/ NewPost \/ Arrival \/ Buttons \/ Screen

SocialSpec == SocialInit /\ [][SocialNext]_vars

\* Firestore calls the listeners of the screen back.
Listening == (Callback \/ Traps) /\ UNCHANGED marks
FairSpec == SocialSpec /\ WF_vars(Listening)

-----------------------------------------------------------------------------
(* Properties. *)

\* Every like stored since the marks were read reaches its author: when all
\* notifications have arrived and his screen has caught up, it lists at least
\* as many of his own as he has such likes (btnLikePress, getAllNotifications).
LikesReach ==
  (CaughtUp /\ live = DOMAIN notes /\ Like \notin asked) =>
    Cardinality({p \in stored[Like] \ known[Like] : Author[p] = Me})
      <= Cardinality({n \in DOMAIN notes : notes[n].to = Me /\ rows[n] > 0})

\* What Marks promises, while everything else goes on.
ButtonsType == M!TypeOK
WrongButtonIsOld == M!WrongButtonIsOld
LikesAnnounced == M!LikesAnnounced

\* Every notification for this user gets listed while the screen is there,
\* though the listener for it is attached only by callbacks of others, unless one
\* of his has no name, on which the app traps (getAllNotifications).
EveryoneTold ==
  \A n \in Ids : (tab = "open" /\ n \in ForMe) ~>
    (rows[n] > 0 \/ tab = "closed" \/ \E m \in ForMe : ~notes[m].named)
=============================================================================
