------------------------------- MODULE Account -------------------------------
(***************************************************************************)
(* Signing up, in and out on one device, and the profile screen            *)
(* (SignUpViewController, LoginViewController, AppDelegate,                *)
(* ProfileViewController).                                                 *)
(*                                                                         *)
(* Every request answers whenever it likes, and what its completion does   *)
(* is done for whoever is signed in by then.  Auth changes the user on a   *)
(* queue of its own and then calls the completion on the main queue.       *)
(* Firestore sends a user's writes only while he is the one signed in; it  *)
(* hears of a change no later than the completion of the change.  Signing  *)
(* out pushes the start screen on the profile, so "Back" leads to screens  *)
(* that have lost their user.                                              *)
(***************************************************************************)
EXTENDS Naturals, Sequences, FiniteSets

CONSTANTS
  Users,
  Existing,   \* those of them that signed up on another device
  Posts,
  None,       \* nobody, nothing
  Pictures,   \* bound: pictures that may be under way at once, each <<user, number>>
  MaxAsked,   \* bound: calls, pictures and lists of saved posts under way
  MaxScreens  \* bound: screens on each other

ASSUME AccountAssumption ==
  /\ None \notin Users \cup [of : Users, name : Users] /\ Existing \subseteq Users
  /\ Pictures \subseteq Users \X Nat
  /\ MaxAsked \in Nat /\ MaxScreens \in Nat \ {0, 1}

VARIABLES
  accounts,  \* who has signed up
  named,     \* the name each user bears (displayName), by the user it belongs to
  details,   \* the name in each user's document (firstname, lastname)
  saved,     \* the posts each user has saved
  alive,     \* the posts there are
  session,   \* currentUser, kept when the app ends
  screens,   \* the screens on each other, the last on top
  calls,     \* how many of each sign-up and sign-in are under way
  answered,  \* those that were answered: their completions are queued
  saving,    \* names on their way to the documents of users who signed up
  block,     \* the one that was stored: its completion is queued
  naming,    \* display names being committed
  uploads,   \* how far each picture is
  asking,    \* users whose list of saved posts a profile asked for
  loading,   \* saved posts that profiles asked for
  wrote,     \* the picture the last step wrote to a document (imageUrl)
  trapped,   \* the app has ended on a nil
  out,       \* somebody signed out since the app was started
  deserted,  \* pictures whose user was not signed in all the time they are under way
  cut,       \* users whose sign-up was not finished
  crossed    \* users who signed in while the block of another's sign-up was queued

server  == <<accounts, named, details, saved, alive>>
signing == <<calls, answered, saving, block, naming>>
profile == <<uploads, asking, loading>>
history == <<out, deserted, cut, crossed>>
vars    == <<server, session, screens, signing, profile, wrote, trapped, history>>

-----------------------------------------------------------------------------
Screen == {"start", "home", "profile"}
Call   == [op : {"signUp", "signIn"}, user : Users, at : 0..MaxScreens]
Answer == [user : Users, at : 0..MaxScreens, new : BOOLEAN]
Naming == [of : Users, name : Users]
Stages == {"none", "upload", "commit", "commitNil"}

Top == screens[Len(screens)]
Running == ~trapped /\ block = None

\* One more request may be made.
MayAsk ==
  Cardinality({d \in Call \X (1..MaxAsked) : d[2] <= calls[d[1]]}) + Cardinality(answered)
    + Cardinality({x \in Pictures : uploads[x] # "none"}) + Cardinality(asking) < MaxAsked

Push(s) ==
  /\ Len(screens) < MaxScreens
  /\ screens' = Append(screens, s)

\* Users whose sign-up is not over.
Unnamed ==
  {a.user : a \in {b \in answered : b.new}}
    \cup {r.of : r \in saving \cup ({block} \ {None}) \cup naming}

\* currentUser becomes u.
Become(u) ==
  /\ session' = u
  /\ deserted' = deserted \cup {x \in Pictures : x[1] # u /\ uploads[x] # "none"}
  /\ crossed' = crossed \cup (IF block = None THEN {} ELSE {u} \ {None, block.of})

\* MainNavigation is presented by the screen of an answered call, unless something else
\* lies on it by then or it has gone.
PresentHome(a) == IF a.at = Len(screens) THEN Push("home") ELSE UNCHANGED screens

Init ==
  /\ accounts = Existing
  /\ named = [u \in Users |-> IF u \in Existing THEN u ELSE None] /\ details = named
  /\ saved = [u \in Users |-> {}] /\ alive = Posts
  /\ session = None /\ screens = <<"start">>
  /\ calls = [c \in Call |-> 0]
  /\ answered = {} /\ saving = {} /\ block = None /\ naming = {}
  /\ uploads = [x \in Pictures |-> "none"] /\ asking = {} /\ loading = {}
  /\ wrote = None /\ trapped = FALSE
  /\ out = FALSE /\ deserted = {} /\ cut = {} /\ crossed = {}

-----------------------------------------------------------------------------
(* Signing up, in and out. *)

\* signUpTapped, logginTapped: the buttons stay on.
Tap(op, u) ==
  /\ Running /\ Top = "start" /\ Len(screens) < MaxScreens
  /\ MayAsk
  /\ calls' = [calls EXCEPT ![[op |-> op, user |-> u, at |-> Len(screens)]] = @ + 1]
  /\ UNCHANGED <<server, session, screens, answered, saving, block, naming, profile, trapped,
                 history>>

\* Auth lets a new user, or one that has an account, in.
LetIn(c) ==
  /\ ~trapped /\ calls[c] > 0
  /\ (c.op = "signUp") = (c.user \notin accounts)
  /\ accounts' = accounts \cup {c.user}
  /\ Become(c.user)
  /\ calls' = [calls EXCEPT ![c] = @ - 1]
  /\ answered' = answered \cup {[user |-> c.user, at |-> c.at, new |-> c.op = "signUp"]}
  /\ UNCHANGED <<named, details, saved, alive, screens, saving, block, naming, profile, trapped,
                 out, cut>>

\* showError.
Refused(c) ==
  /\ Running /\ calls[c] > 0
  /\ calls' = [calls EXCEPT ![c] = @ - 1]
  /\ UNCHANGED <<server, session, screens, answered, saving, block, naming, profile, trapped,
                 history>>

\* The completion of a sign-up sends the details on their way: what the fields
\* hold by now, which may have been typed since the button was pressed.
SignedUp(a, name) ==
  /\ Running /\ a \in answered /\ a.new
  /\ answered' = answered \ {a}
  /\ saving' = saving \cup {[of |-> a.user, name |-> name]}
  /\ IF session = None
     THEN trapped' = TRUE /\ UNCHANGED screens
     ELSE PresentHome(a) /\ UNCHANGED trapped
  /\ UNCHANGED <<server, session, calls, block, naming, profile, history>>

SignedIn(a) ==
  /\ Running /\ a \in answered /\ ~a.new
  /\ answered' = answered \ {a}
  /\ PresentHome(a)
  /\ UNCHANGED <<server, session, calls, saving, block, naming, profile, trapped, history>>

\* The documents once some of the writes have arrived.
Filled(sent) ==
  [u \in Users |-> IF \E r \in sent : r.of = u
                  THEN (CHOOSE r \in sent : r.of = u).name ELSE details[u]]

\* Mutant: the completion does nothing once its screen has been left.
StoredWeakly(r, ok) ==
  /\ ~trapped /\ block = None
  /\ r \in saving /\ session = r.of
  /\ saving' = saving \ {r}
  /\ block' = IF ok /\ \E i \in DOMAIN screens : screens[i] = "start" THEN r ELSE None
  /\ details' = IF ok THEN Filled({r}) ELSE details
  /\ cut' = IF ok THEN cut ELSE cut \cup {r.of}
  /\ UNCHANGED <<accounts, named, saved, alive, session, screens, calls, answered, naming,
                 profile, trapped, out, deserted, crossed>>

\* Firestore has stored the sign-up, or refused it.
Stored(r, ok) ==
  /\ ~trapped /\ block = None
  /\ r \in saving /\ session = r.of
  /\ saving' = saving \ {r}
  /\ block' = IF ok THEN r ELSE None
  /\ details' = IF ok THEN Filled({r}) ELSE details
  /\ cut' = IF ok THEN cut ELSE cut \cup {r.of}
  /\ UNCHANGED <<accounts, named, saved, alive, session, screens, calls, answered, naming,
                 profile, trapped, out, deserted, crossed>>

\* Mutant: the name is for the screen, which is covered by then.
BlockRunsOnTop ==
  /\ ~trapped /\ block # None
  /\ block' = None
  /\ IF session = None
     THEN trapped' = TRUE /\ UNCHANGED naming
     ELSE /\ naming' = IF Top = "start"
                       THEN naming \cup {[of |-> session, name |-> block.name]} ELSE naming
          /\ UNCHANGED trapped
  /\ cut' = IF session = block.of THEN cut ELSE cut \cup {block.of}
  /\ UNCHANGED <<server, session, screens, calls, answered, saving, profile, out, deserted,
                 crossed>>

\* The completion: the name is for whoever is signed in, and nobody traps.
BlockRuns ==
  /\ ~trapped /\ block # None
  /\ block' = None
  /\ IF session = None
     THEN trapped' = TRUE /\ UNCHANGED naming
     ELSE naming' = naming \cup {[of |-> session, name |-> block.name]} /\ UNCHANGED trapped
  /\ cut' = IF session = block.of THEN cut ELSE cut \cup {block.of}
  /\ UNCHANGED <<server, session, screens, calls, answered, saving, profile, out, deserted,
                 crossed>>

\* Mutant: the name is given to who is signed in when it is committed.
CommittedToSession(r, ok) ==
  /\ ~trapped /\ r \in naming
  /\ naming' = naming \ {r}
  /\ named' = IF ok /\ session # None THEN [named EXCEPT ![session] = r.name] ELSE named
  /\ cut' = IF ok THEN cut ELSE cut \cup {r.of}
  /\ UNCHANGED <<accounts, details, saved, alive, session, screens, calls, answered,
                 saving, block, profile, trapped, out, deserted, crossed>>

\* commitChanges on the user the request was made for.
Committed(r, ok) ==
  /\ ~trapped /\ r \in naming
  /\ naming' = naming \ {r}
  /\ named' = IF ok THEN [named EXCEPT ![r.of] = r.name] ELSE named
  /\ cut' = IF ok THEN cut ELSE cut \cup {r.of}
  /\ UNCHANGED <<accounts, details, saved, alive, session, screens, calls, answered,
                 saving, block, profile, trapped, out, deserted, crossed>>

\* The button signs out and its segue shows the start screen; it can be pressed
\* before a completion that is queued.
SignOut ==
  /\ ~trapped /\ Top = "profile"
  /\ Become(None)
  /\ Push("start")
  /\ out' = TRUE
  /\ UNCHANGED <<server, signing, profile, trapped, cut>>

\* A start screen that is left takes its calls along: they will present nothing.
Back ==
  /\ Running /\ Len(screens) > 1 /\ Top # "home"
  /\ screens' = SubSeq(screens, 1, Len(screens) - 1)
  /\ calls' = [c \in Call |->
                 IF c.at = Len(screens) THEN 0
                 ELSE IF c.at = 0 THEN calls[c] + calls[[c EXCEPT !.at = Len(screens)]]
                 ELSE calls[c]]
  /\ answered' = {[a EXCEPT !.at = IF @ = Len(screens) THEN 0 ELSE @] : a \in answered}
  /\ UNCHANGED <<server, session, saving, block, naming, profile, trapped, history>>

-----------------------------------------------------------------------------
(* The profile. *)

OpenProfile ==
  /\ Running /\ Top = "home" /\ MayAsk
  /\ IF session = None
     THEN trapped' = TRUE /\ UNCHANGED <<screens, asking>>
     ELSE Push("profile") /\ asking' = asking \cup {session} /\ UNCHANGED trapped
  /\ UNCHANGED <<server, session, signing, uploads, loading, history>>

IdsAnswered(u) ==
  /\ Running /\ u \in asking
  /\ asking' = asking \ {u}
  /\ loading' = loading \cup saved[u]
  /\ UNCHANGED <<server, session, screens, signing, uploads, trapped, history>>

\* A saved post that was deleted has no picture, and its URL is unwrapped.
PostAnswered(p) ==
  /\ Running /\ p \in loading
  /\ IF p \in alive
     THEN loading' = loading \ {p} /\ UNCHANGED trapped
     ELSE trapped' = TRUE /\ UNCHANGED loading
  /\ UNCHANGED <<server, session, screens, signing, uploads, asking, history>>

\* Mutant: the picture is for a user the profile has kept.
PickForKept ==
  /\ Running /\ Top = "profile" /\ MayAsk
  /\ \E x \in Pictures : uploads[x] = "none" /\ uploads' = [uploads EXCEPT ![x] = "upload"]
  /\ UNCHANGED <<server, session, screens, signing, asking, loading, trapped, history>>

\* imagePickerController; without a user nothing is uploaded.  A picture picked
\* on a profile that was left goes on beside one picked on the next.
Pick ==
  /\ Running /\ Top = "profile" /\ session # None
  /\ MayAsk
  /\ \E x \in Pictures :
       /\ x[1] = session /\ uploads[x] = "none"
       /\ \A y \in Pictures : y[1] = session /\ uploads[y] = "none" => x[2] <= y[2]
       /\ uploads' = [uploads EXCEPT ![x] = "upload"]
  /\ UNCHANGED <<server, session, screens, signing, asking, loading, trapped, history>>

\* The URL of the picture, or none.
Uploaded(x, ok) ==
  /\ Running /\ uploads[x] = "upload"
  /\ uploads' = [uploads EXCEPT ![x] = IF ok THEN "commit" ELSE "commitNil"]
  /\ UNCHANGED <<server, session, screens, signing, asking, loading, trapped, history>>

\* commitChanges of the user who picked it; then the document of whoever is
\* signed in.
PictureCommitted(x, ok) ==
  /\ Running /\ uploads[x] \in {"commit", "commitNil"}
  /\ uploads' = [uploads EXCEPT ![x] = "none"]
  /\ wrote' = IF ok /\ session # None
              THEN [of |-> session, stray |-> x \in deserted,
                    by |-> IF uploads[x] = "commit" THEN x[1] ELSE None]
              ELSE None
  /\ trapped' = (ok /\ session = None)
  /\ deserted' = deserted \ {x}
  /\ UNCHANGED <<server, session, screens, signing, asking, loading, out, cut, crossed>>

-----------------------------------------------------------------------------
(* Posts, and the life of the app. *)

\* The save button of a post in the feed, which may show one that is gone.
ToggleSaved(p) ==
  /\ Running /\ Top = "home" /\ session # None
  /\ saved' = [saved EXCEPT ![session] = IF p \in @ THEN @ \ {p} ELSE @ \cup {p}]
  /\ UNCHANGED <<accounts, named, details, alive, session, screens, signing, profile,
                 trapped, history>>

\* Its author deletes a post, elsewhere.
PostDeleted(p) ==
  /\ p \in alive
  /\ alive' = alive \ {p}
  /\ UNCHANGED <<accounts, named, details, saved, session, screens, signing, profile,
                 trapped, history>>

\* Mutant: the app opens at home whoever is signed in.
LaunchHome == <<"home">>

\* didFinishLaunching.
Launch == IF session # None THEN <<"home">> ELSE <<"start">>

\* The app is killed or has trapped, and is started again; no completion of
\* before is called any more, but Firestore has kept its writes.
Relaunch ==
  /\ screens' = Launch
  /\ calls' = [c \in Call |-> 0]
  /\ cut' = cut \cup Unnamed
  /\ answered' = {} /\ saving' = {} /\ block' = None /\ naming' = {}
  /\ uploads' = [x \in Pictures |-> "none"] /\ asking' = {} /\ loading' = {}
  /\ trapped' = FALSE
  /\ out' = FALSE
  /\ deserted' = {}
  /\ \E sent \in SUBSET saving : details' = Filled(sent)
  /\ UNCHANGED <<accounts, named, saved, alive, session, crossed>>

-----------------------------------------------------------------------------
Completion ==
  \/ \E a \in answered : SignedIn(a) \/ \E name \in Users : SignedUp(a, name)
  \/ \E r \in saving, ok \in BOOLEAN : Stored(r, ok)
  \/ BlockRuns
  \/ \E r \in naming, ok \in BOOLEAN : Committed(r, ok)

Step ==
  \/ \E u \in Users : Tap("signUp", u) \/ Tap("signIn", u) \/ IdsAnswered(u)
  \/ \E c \in {d \in Call : calls[d] > 0} : LetIn(c) \/ Refused(c)
  \/ Completion
  \/ SignOut \/ Back \/ OpenProfile \/ Pick
  \/ \E x \in Pictures, ok \in BOOLEAN : Uploaded(x, ok)
  \/ \E p \in Posts : PostAnswered(p) \/ ToggleSaved(p) \/ PostDeleted(p)
  \/ Relaunch

Next ==
  \/ Step /\ wrote' = None
  \/ \E x \in Pictures, ok \in BOOLEAN : PictureCommitted(x, ok)

Spec == Init /\ [][Next]_vars

\* What Firebase was asked is answered, and queued completions run.
FairSpec == Spec /\ WF_vars(Completion /\ wrote' = None)

-----------------------------------------------------------------------------
TypeOK ==
  /\ accounts \subseteq Users
  /\ named \in [Users -> Users \cup {None}] /\ details \in [Users -> Users \cup {None}]
  /\ saved \in [Users -> SUBSET Posts] /\ alive \subseteq Posts
  /\ session \in Users \cup {None}
  /\ screens \in Seq(Screen) /\ Len(screens) \in 1..MaxScreens
  /\ calls \in [Call -> Nat]
  /\ answered \subseteq Answer
  /\ saving \subseteq Naming /\ block \in Naming \cup {None} /\ naming \subseteq Naming
  /\ uploads \in [Pictures -> Stages] /\ asking \subseteq Users /\ loading \subseteq Posts
  /\ wrote \in [of : Users, stray : BOOLEAN, by : Users \cup {None}] \cup {None}
  /\ trapped \in BOOLEAN /\ out \in BOOLEAN
  /\ deserted \subseteq Pictures /\ cut \subseteq Users /\ crossed \subseteq Users

\* The app traps here only when somebody has signed out since it was started and
\* nobody has signed in again, or on a post that is gone while a profile waits for
\* it as a saved one (openProfile,
\* the completions of saveDetailsToFirestore and uploadPic, getSavedPost).
TrapCause ==
  trapped =>
    \/ session = None /\ out
    \/ loading \ alive # {}

\* The name a user bears is the one in his document, though the completion that
\* gives it asks who is signed in: only who came in between that completion being
\* queued and run may bear the name of another (saveDetailsToFirestore).
OwnName == \A u \in Users \ crossed : named[u] \in {None, details[u]}

\* A user's document gets the picture of another only if that one has not been
\* signed in all the while this very picture was uploaded (uploadPic).
StrayPicture ==
  [][wrote' # None => wrote'.by \in {None, wrote'.of} \/ wrote'.stray]_vars

\* Whoever has signed up has a name, will have one, or had his sign-up cut short
\* by a refusal, a trap or the end of the app; nothing tries again
\* (signUpTapped, saveDetailsToFirestore).
NamedOrCut ==
  \A u \in accounts :
    named[u] # None \/ u \in Unnamed \cup cut

\* Whoever signs up and stays signed in gets his name, unless it was cut short.
NameComes ==
  \A u \in Users \ Existing :
    (u \in accounts /\ session = u) ~> (named[u] # None \/ session # u \/ u \in cut \/ trapped)
=============================================================================
