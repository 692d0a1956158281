--------------------------- MODULE AccountProofs ----------------------------
(***************************************************************************)
(* What holds of the account whatever the users, their posts and the       *)
(* bounds.                                                                 *)
(*                                                                         *)
(* That a name goes to the right account rests on Firestore storing what a *)
(* user wrote only while he is signed in; who signs in while the           *)
(* completion waits for the main queue is the exception (Names).           *)
(***************************************************************************)
EXTENDS Account, TLAPS, SequenceTheorems

\* A screen more.
LEMMA Pushed ==
  ASSUME TypeOK, NEW s \in Screen, Push(s)
  PROVE  screens' \in Seq(Screen) /\ Len(screens') \in 1..MaxScreens
<1>1. screens \in Seq(Screen) /\ Len(screens) \in Nat
  BY LenProperties DEF TypeOK
<1>2. screens' \in Seq(Screen) /\ Len(screens') = Len(screens) + 1
  BY <1>1, AppendProperties DEF Push
<1>3. Len(screens) + 1 \in 1..MaxScreens
  BY <1>1, AccountAssumption DEF Push, AccountAssumption, TypeOK
<1> QED
  BY <1>2, <1>3

\* Home, or nothing.
LEMMA Presented ==
  ASSUME TypeOK, NEW a \in answered, PresentHome(a)
  PROVE  screens' \in Seq(Screen) /\ Len(screens') \in 1..MaxScreens
<1>1. CASE a.at = Len(screens)
  BY <1>1, Pushed DEF PresentHome, Screen
<1>2. CASE a.at # Len(screens)
  BY <1>2 DEF PresentHome, TypeOK
<1> QED
  BY <1>1, <1>2

\* A call more.
LEMMA Called ==
  ASSUME TypeOK, NEW op \in {"signUp", "signIn"}, NEW u \in Users, Tap(op, u)
  PROVE  calls' \in [Call -> Nat]
<1>1. [op |-> op, user |-> u, at |-> Len(screens)] \in Call
  BY DEF TypeOK, Call
<1> QED
  BY <1>1 DEF TypeOK, Tap

\* A screen less; its calls have none.
LEMMA Popped ==
  ASSUME TypeOK, Back
  PROVE  /\ screens' \in Seq(Screen) /\ Len(screens') \in 1..MaxScreens
         /\ calls' \in [Call -> Nat] /\ answered' \subseteq Answer
<1>1. /\ screens \in Seq(Screen) /\ Len(screens) \in Nat
      /\ Len(screens) > 1 /\ Len(screens) <= MaxScreens
  BY LenProperties, AccountAssumption DEF TypeOK, Back, AccountAssumption
<1> DEFINE n == Len(screens) - 1
<1>2. n \in 1..Len(screens) /\ 1..n \subseteq 1..Len(screens)
  BY <1>1
<1>3. screens' = SubSeq(screens, 1, n)
  BY DEF Back
<1>4. screens' \in Seq(Screen) /\ Len(screens') = n
  <2>1. 1 \in 1..(Len(screens) + 1) /\ n \in (1 - 1)..Len(screens)
    BY <1>1
  <2> HIDE DEF n
  <2>2. SubSeq(screens, 1, n) \in Seq(Screen)
    BY <1>1, <2>1, SubSeqProperties
  <2>3. Len(SubSeq(screens, 1, n)) = n - 1 + 1
    BY <1>1, <1>2, <2>1, SubSeqProperties
  <2> QED
    BY <1>2, <1>3, <2>2, <2>3
<1>5. n \in 1..MaxScreens
  BY <1>1, AccountAssumption DEF AccountAssumption
<1>6. ASSUME NEW c \in Call PROVE [c EXCEPT !.at = Len(screens)] \in Call
  <2>1. Len(screens) \in 0..MaxScreens
    BY <1>1, AccountAssumption DEF AccountAssumption
  <2> QED
    BY <2>1 DEF Call
<1>7. calls' \in [Call -> Nat]
  <2> DEFINE at(c) == [c EXCEPT !.at = Len(screens)]
  <2>1. \A c \in Call : at(c) \in Call
    BY <1>6
  <2>2. calls' = [c \in Call |-> IF c.at = Len(screens) THEN 0
                                ELSE IF c.at = 0 THEN calls[c] + calls[at(c)] ELSE calls[c]]
    BY DEF Back
  <2> HIDE DEF at
  <2> QED
    BY <2>1, <2>2 DEF TypeOK
<1>8. answered' \subseteq Answer
  <2>1. ASSUME NEW a \in answered
        PROVE  [a EXCEPT !.at = IF @ = Len(screens) THEN 0 ELSE @] \in Answer
    <3>1. a \in Answer /\ 0 \in 0..MaxScreens
      BY AccountAssumption DEF TypeOK, AccountAssumption
    <3> QED
      BY <3>1 DEF Answer
  <2> QED
    BY <2>1 DEF Back
<1> QED
  BY <1>4, <1>5, <1>7, <1>8

\* Answers keep the user they are about when their screen goes.
LEMMA Kept ==
  ASSUME TypeOK, Back
  PROVE  /\ \A a \in answered : \E b \in answered' : b.user = a.user /\ b.new = a.new
         /\ \A b \in answered' : \E a \in answered :
              /\ b.user = a.user /\ b.new = a.new
              /\ b = [a EXCEPT !.at = IF @ = Len(screens) THEN 0 ELSE @]
<1> DEFINE at(a) == IF a.at = Len(screens) THEN 0 ELSE a.at
           moved(a) == [a EXCEPT !.at = at(a)]
<1>1. answered' = {moved(a) : a \in answered}
  BY DEF Back
<1>2. ASSUME NEW a \in answered PROVE moved(a).user = a.user /\ moved(a).new = a.new
  <2>1. a \in Answer
    BY DEF TypeOK
  <2> HIDE DEF at
  <2> QED
    BY <2>1 DEF Answer
<1>3. \A a \in answered : moved(a) = [a EXCEPT !.at = IF @ = Len(screens) THEN 0 ELSE @]
  OBVIOUS
<1> HIDE DEF moved
<1> QED
  BY <1>1, <1>2, <1>3

\* Documents hold names.
LEMMA FilledType ==
  ASSUME TypeOK, NEW sent, sent \subseteq saving
  PROVE  Filled(sent) \in [Users -> Users \cup {None}]
<1>1. ASSUME NEW u \in Users, \E r \in sent : r.of = u
      PROVE  (CHOOSE r \in sent : r.of = u).name \in Users
  <2>1. (CHOOSE r \in sent : r.of = u) \in sent
    BY <1>1
  <2> QED
    BY <2>1 DEF TypeOK, Naming
<1> QED
  BY <1>1 DEF Filled, TypeOK

\* One write changes one document.
LEMMA FilledOne ==
  ASSUME TypeOK, NEW r \in saving
  PROVE  Filled({r}) = [details EXCEPT ![r.of] = r.name]
<1>1. (CHOOSE q \in {r} : q.of = r.of) = r
  OBVIOUS
<1>2. \A u \in Users : (\E q \in {r} : q.of = u) <=> u = r.of
  OBVIOUS
<1> QED
  BY <1>1, <1>2 DEF Filled, TypeOK

\* The document of a user without a write is left alone.
LEMMA FilledKept ==
  ASSUME NEW sent, NEW u \in Users, \A r \in sent : r.of # u
  PROVE  Filled(sent)[u] = details[u]
BY DEF Filled

\* Sign-ups are of users.
LEMMA UnnamedType ==
  ASSUME TypeOK
  PROVE  Unnamed \subseteq Users
BY DEF TypeOK, Unnamed, Naming, Answer

\* Every variable of the account keeps its type.
THEOREM AccountTypes == Spec => []TypeOK
<1> USE AccountAssumption DEF AccountAssumption
<1>1. Init => TypeOK
  <2>1. <<"start">> \in Seq(Screen) /\ Len(<<"start">>) = 1
    BY DEF Screen
  <2>2. ASSUME Init
        PROVE  /\ named \in [Users -> Users \cup {None}] /\ calls \in [Call -> Nat]
               /\ uploads \in [Pictures -> Stages] /\ saved \in [Users -> SUBSET Posts]
    BY <2>2 DEF Init, Stages
  <2>3. ASSUME Init PROVE screens \in Seq(Screen) /\ Len(screens) \in 1..MaxScreens
    BY <2>1, <2>3 DEF Init
  <2> QED
    BY <2>2, <2>3 DEF Init, TypeOK
<1>2. ASSUME TypeOK, [Next]_vars
      PROVE  TypeOK'
  <2>1. ASSUME Step, wrote' = None PROVE  TypeOK'
    <3>1. ASSUME NEW u \in Users, Tap("signUp", u) PROVE  TypeOK'
      BY <1>2, <2>1, <3>1, Called DEF TypeOK, server, profile, history,
         Naming, Stages, Tap, Top, Running
    <3>2. ASSUME NEW u \in Users, Tap("signIn", u) PROVE  TypeOK'
      BY <1>2, <2>1, <3>2, Called DEF TypeOK, server, profile, history,
         Naming, Stages, Tap, Top, Running
    <3>3. ASSUME NEW u \in Users, IdsAnswered(u) PROVE  TypeOK'
      BY <1>2, <2>1, <3>3 DEF TypeOK, server, signing, history, Naming,
         Stages, IdsAnswered
    <3>4. ASSUME NEW a \in answered, SignedIn(a) PROVE  TypeOK'
      BY <1>2, <2>1, <3>4, Presented DEF TypeOK, server, profile, Naming,
         Stages, SignedIn, history, Running
    <3>5. ASSUME NEW c \in Call, Refused(c) PROVE  TypeOK'
      BY <1>2, <2>1, <3>5 DEF TypeOK, server, profile, history, Naming,
         Stages, Refused, Running
    <3>6. ASSUME NEW a \in answered, NEW name \in Users, SignedUp(a, name) PROVE
       TypeOK'
      <4>1. [of |-> a.user, name |-> name] \in Naming
        BY <1>2 DEF TypeOK, Answer, Naming
      <4> QED
        BY <1>2, <2>1, <3>6, <4>1, Presented DEF TypeOK, server, profile, SignedUp, history
    <3>7. ASSUME NEW r \in saving, NEW ok \in BOOLEAN, Stored(r, ok) PROVE
       TypeOK'
      BY <1>2, <2>1, <3>7, FilledType DEF TypeOK, profile, Naming, Stages,
         Stored
    <3>8. CASE BlockRuns
      <4>1. block \in Naming /\ block # None
        BY <1>2, <3>8 DEF TypeOK, BlockRuns
      <4>2. block.of \in Users
        BY <4>1 DEF Naming
      <4>3. ASSUME session # None PROVE [of |-> session, name |-> block.name] \in Naming
        BY <1>2, <4>1, <4>3 DEF TypeOK, Naming
      <4> QED
        BY <1>2, <2>1, <3>8, <4>2, <4>3 DEF TypeOK, server, profile, BlockRuns
    <3>9. ASSUME NEW r \in naming, NEW ok \in BOOLEAN, Committed(r, ok) PROVE
       TypeOK'
      BY <1>2, <2>1, <3>9 DEF TypeOK, profile, Naming, Stages, Committed
    <3>10. CASE SignOut
      <4>1. screens' \in Seq(Screen) /\ Len(screens') \in 1..MaxScreens
        BY <1>2, <3>10, Pushed DEF SignOut, Screen
      <4> QED
        BY <1>2, <2>1, <3>10, <4>1 DEF TypeOK, server, signing, profile, SignOut, Become
    <3>11. CASE Back
      BY <1>2, <2>1, <3>11, Popped DEF TypeOK, server, profile, history,
         Naming, Stages, Back, Running
    <3>12. CASE OpenProfile
      <4>1. screens' \in Seq(Screen) /\ Len(screens') \in 1..MaxScreens
        BY <1>2, <3>12, Pushed DEF OpenProfile, Screen, TypeOK
      <4> QED
        BY <1>2, <2>1, <3>12, <4>1 DEF TypeOK, server, signing, history, OpenProfile
    <3>13. CASE Pick
      BY <1>2, <2>1, <3>13 DEF TypeOK, server, signing, profile, history,
         Naming, Stages, Pick
    <3>14. ASSUME NEW x \in Pictures, NEW ok \in BOOLEAN, Uploaded(x, ok) PROVE
       TypeOK'
      BY <1>2, <2>1, <3>14 DEF TypeOK, server, signing, history, Naming,
         Stages, Uploaded
    <3>15. ASSUME NEW p \in Posts, PostAnswered(p) PROVE  TypeOK'
      BY <1>2, <2>1, <3>15 DEF TypeOK, server, signing, history, Naming,
         Stages, PostAnswered
    <3>16. ASSUME NEW p \in Posts, ToggleSaved(p) PROVE  TypeOK'
      BY <1>2, <2>1, <3>16 DEF TypeOK, signing, profile, history, Naming,
         Stages, ToggleSaved
    <3>17. ASSUME NEW p \in Posts, PostDeleted(p) PROVE  TypeOK'
      BY <1>2, <2>1, <3>17 DEF TypeOK, signing, profile, history, Naming,
         Stages, PostDeleted
    <3>18. CASE Relaunch
      <4>1. Launch \in Seq(Screen) /\ Len(Launch) \in 1..MaxScreens
        <5>1. <<"start">> \in Seq(Screen) /\ Len(<<"start">>) = 1
          BY DEF Screen
        <5>2. <<"home">> \in Seq(Screen) /\ Len(<<"home">>) = 1
          BY DEF Screen
        <5> QED
          BY <5>1, <5>2 DEF Launch
      <4>2. details' \in [Users -> Users \cup {None}]
        BY <1>2, <3>18, FilledType DEF Relaunch
      <4>3. cut' \subseteq Users
        BY <1>2, <3>18, UnnamedType DEF Relaunch, TypeOK
      <4>4. screens' \in Seq(Screen) /\ Len(screens') \in 1..MaxScreens
        BY <3>18, <4>1 DEF Relaunch
      <4>5. calls' \in [Call -> Nat] /\ uploads' \in [Pictures -> Stages]
        BY <3>18 DEF Relaunch, Stages
      <4> QED
        BY <1>2, <2>1, <3>18, <4>2, <4>3, <4>4, <4>5 DEF TypeOK, Relaunch
    <3>19. ASSUME NEW c \in Call, LetIn(c) PROVE  TypeOK'
      <4>1. c.user \in Users /\ [user |-> c.user, at |-> c.at, new |-> c.op = "signUp"] \in Answer
        BY DEF Call, Answer
      <4>2. calls' \in [Call -> Nat]
        BY <1>2, <3>19 DEF TypeOK, LetIn
      <4>3. crossed' \subseteq Users /\ deserted' \subseteq Pictures /\ session' \in Users
        BY <1>2, <3>19, <4>1 DEF TypeOK, LetIn, Become
      <4>4. accounts' \subseteq Users /\ answered' \subseteq Answer
        BY <1>2, <3>19, <4>1 DEF TypeOK, LetIn
      <4> QED
        BY <1>2, <2>1, <3>19, <4>2, <4>3, <4>4 DEF TypeOK, LetIn, profile
    <3> QED
      BY <2>1, <3>1, <3>2, <3>3, <3>4, <3>5, <3>6, <3>7, <3>8, <3>9, <3>10,
         <3>11, <3>12, <3>13, <3>14, <3>15, <3>16, <3>17, <3>18,
         <3>19 DEF Step,
         Completion
  <2>2. ASSUME NEW x \in Pictures, NEW ok \in BOOLEAN, PictureCommitted(x, ok)
     PROVE  TypeOK'
    BY <1>2, <2>2 DEF TypeOK, server, signing, Naming, Stages,
       PictureCommitted
  <2>3. CASE UNCHANGED vars
    BY <1>2, <2>3 DEF TypeOK, server, signing, profile, history, Naming,
       Stages, vars
  <2> QED
    BY <1>2, <2>1, <2>2, <2>3 DEF Next
<1> QED
  BY <1>1, <1>2, PTL DEF Spec

-----------------------------------------------------------------------------
\* What is under way for the name of u besides what is queued or written.
NotYetNamed(u) ==
  /\ u \in accounts
  /\ u \in crossed \/ (named[u] = None /\ \A q \in naming : q.of # u)

\* A sign-up that is not over is the only one of its user, who has no name yet,
\* and once it is stored his document has the name it will give; all that unless
\* he came in between (crossed).
Names ==
  /\ crossed \subseteq accounts
  /\ \A r \in saving : NotYetNamed(r.of)
  /\ \A r, q \in saving : r.of = q.of => r = q
  /\ block # None => /\ session \in {None, block.of} \cup crossed
                     /\ details[block.of] = block.name
                     /\ block.of \in accounts
                     /\ \A r \in saving : r.of # block.of
  /\ \A q \in naming : q.of \in accounts /\ (q.of \in crossed \/ details[q.of] = q.name)
  /\ \A a \in answered :
       a.new => /\ NotYetNamed(a.user)
                /\ \A b \in answered : b.new /\ b.user = a.user => b = a
                /\ \A r \in saving : r.of # a.user
                /\ block # None => block.of # a.user
  /\ \A u \in Users \ accounts : named[u] = None
  /\ OwnName

\* The facts about sign-ups hold throughout.
LEMMA NamesHold == Spec => []Names
<1> USE AccountAssumption DEF AccountAssumption
<1>1. Init => Names
  BY DEF Init, Names, OwnName, NotYetNamed
<1>2. ASSUME TypeOK, Names, [Next]_vars
      PROVE  Names'
  <2>1. ASSUME Step, wrote' = None PROVE  Names'
    <3>1. ASSUME NEW u \in Users, Tap("signUp", u) PROVE  Names'
      BY <1>2, <3>1 DEF TypeOK, Naming, Names, OwnName, NotYetNamed, server,
         profile, history, Tap, Top, Running
    <3>2. ASSUME NEW u \in Users, Tap("signIn", u) PROVE  Names'
      BY <1>2, <3>2 DEF TypeOK, Naming, Names, OwnName, NotYetNamed, server,
         profile, history, Tap, Top, Running
    <3>3. ASSUME NEW u \in Users, IdsAnswered(u) PROVE  Names'
      BY <1>2, <3>3 DEF TypeOK, Naming, Names, OwnName, NotYetNamed, server,
         signing, history, IdsAnswered
    <3>4. ASSUME NEW a \in answered, SignedIn(a) PROVE  Names'
      BY <1>2, <3>4 DEF TypeOK, Naming, Names, OwnName, NotYetNamed, server,
         profile, SignedIn, history, PresentHome, Push, Call, Running
    <3>5. ASSUME NEW c \in Call, Refused(c) PROVE  Names'
      BY <1>2, <3>5 DEF TypeOK, Naming, Names, OwnName, NotYetNamed, server,
         profile, history, Refused, Running
    <3>6. ASSUME NEW a \in answered, NEW name \in Users, SignedUp(a, name) PROVE
       Names'
      <4> DEFINE n == [of |-> a.user, name |-> name]
      <4>1. /\ a \in answered /\ a.new /\ answered' = answered \ {a} /\ saving' = saving \cup {n}
            /\ UNCHANGED <<accounts, named, details, session, block, naming, crossed>>
        BY <3>6 DEF SignedUp, server, history
      <4>2. n.of = a.user
        OBVIOUS
      <4> HIDE DEF n
      <4>3. ASSUME NEW u PROVE NotYetNamed(u)' <=> NotYetNamed(u)
        BY <4>1 DEF NotYetNamed
      <4>4. NotYetNamed(a.user) /\ \A r \in saving : r.of # a.user
        BY <1>2, <4>1 DEF Names
      <4>5. /\ \A r \in saving' : NotYetNamed(r.of)'
            /\ \A r, q \in saving' : r.of = q.of => r = q
        BY <1>2, <4>1, <4>2, <4>3, <4>4 DEF Names
      <4>6. block # None => \A r \in saving' : r.of # block.of
        BY <1>2, <4>1, <4>2 DEF Names
      <4>7. ASSUME NEW b \in answered', b.new
            PROVE  /\ NotYetNamed(b.user)'
                   /\ \A c \in answered' : c.new /\ c.user = b.user => c = b
                   /\ \A r \in saving' : r.of # b.user
                   /\ block' # None => block'.of # b.user
        <5>1. b \in answered /\ b # a /\ b.user # a.user
          BY <1>2, <4>1, <4>7 DEF Names
        <5> QED
          BY <1>2, <4>1, <4>2, <4>3, <4>7, <5>1 DEF Names
      <4>8. OwnName'
        BY <1>2, <4>1 DEF Names, OwnName
      <4> QED
        BY <1>2, <4>1, <4>5, <4>6, <4>7, <4>8 DEF Names
    <3>7. ASSUME NEW r \in saving, NEW ok \in BOOLEAN, Stored(r, ok) PROVE
       Names'
      <4>1. ASSUME ok PROVE details' = [details EXCEPT ![r.of] = r.name]
        BY <1>2, <3>7, <4>1, FilledOne DEF Stored
      <4>2. ASSUME ~ok PROVE details' = details
        BY <3>7, <4>2 DEF Stored
      <4>3. r \in Naming /\ saving' = saving \ {r} /\ UNCHANGED <<accounts, named, session, naming>>
        BY <1>2, <3>7 DEF Stored, TypeOK
      <4>4. block = None /\ block' = (IF ok THEN r ELSE None) /\ session = r.of
        BY <3>7 DEF Stored
      <4>5. answered' = answered /\ crossed' = crossed /\ NotYetNamed(r.of)
        BY <1>2, <3>7 DEF Stored, Names
      <4>6. ASSUME NEW u PROVE NotYetNamed(u)' <=> NotYetNamed(u)
        BY <4>3, <4>5 DEF NotYetNamed
      <4>7. \A q \in naming' : q.of \in accounts' /\ (q.of \in crossed' \/ details'[q.of] = q.name)
        BY <1>2, <4>1, <4>2, <4>3, <4>5 DEF Names, TypeOK, Naming, NotYetNamed
      <4>8. block' # None => /\ session' \in {None, block'.of} \cup crossed'
                             /\ details'[block'.of] = block'.name
                             /\ block'.of \in accounts'
                             /\ \A q \in saving' : q.of # block'.of
        BY <1>2, <4>1, <4>3, <4>4, <4>5 DEF Names, TypeOK, Naming, NotYetNamed
      <4>9. \A a \in answered' :
              a.new => /\ NotYetNamed(a.user)'
                       /\ \A b \in answered' : b.new /\ b.user = a.user => b = a
                       /\ \A q \in saving' : q.of # a.user
                       /\ block' # None => block'.of # a.user
        BY <1>2, <4>3, <4>4, <4>5, <4>6 DEF Names
      <4>10. OwnName'
        BY <1>2, <4>1, <4>2, <4>3, <4>5 DEF Names, OwnName, NotYetNamed, TypeOK, Naming
      <4>11. /\ \A q \in saving' : NotYetNamed(q.of)'
             /\ \A q, s \in saving' : q.of = s.of => q = s
             /\ crossed' \subseteq accounts' /\ \A u \in Users \ accounts' : named'[u] = None
        BY <1>2, <4>3, <4>5, <4>6 DEF Names
      <4> QED
        BY <4>7, <4>8, <4>9, <4>10, <4>11 DEF Names
    <3>8. CASE BlockRuns
      <4>1. /\ block # None /\ block' = None
            /\ UNCHANGED <<accounts, named, details, session, saving, answered, crossed>>
        BY <3>8 DEF BlockRuns, server
      <4>2. session \in {None, block.of} \cup crossed
        BY <1>2, <4>1 DEF Names
      <4>3. ASSUME NEW q \in naming', q \notin naming
            PROVE  /\ q.of = session /\ q.name = block.name
                   /\ session = block.of \/ session \in crossed
        BY <3>8, <4>2, <4>3 DEF BlockRuns
      <4>4. \A q \in naming' : q.of \in accounts /\ (q.of \in crossed \/ details[q.of] = q.name)
        BY <1>2, <4>1, <4>3 DEF Names
      <4>5. ASSUME NEW u, NotYetNamed(u), block.of # u PROVE NotYetNamed(u)'
        <5>1. CASE u \in crossed
          <6>1. u \in accounts' /\ u \in crossed'
            BY <4>1, <4>5, <5>1 DEF NotYetNamed
          <6> QED
            BY <6>1, Zenon DEF NotYetNamed
        <5>2. CASE u \notin crossed
          <6>1. \A q \in naming' : q.of # u
            BY <4>3, <4>5, <5>2 DEF NotYetNamed
          <6> QED
            BY <4>1, <4>5, <5>2, <6>1 DEF NotYetNamed
        <5> QED
          BY <5>1, <5>2
      <4>6. \A r \in saving : NotYetNamed(r.of)'
        BY <1>2, <4>1, <4>5 DEF Names
      <4>7. \A b \in answered : b.new => NotYetNamed(b.user)'
        BY <1>2, <4>1, <4>5 DEF Names
      <4>8. OwnName'
        BY <1>2, <4>1 DEF Names, OwnName
      <4> QED
        BY <1>2, <4>1, <4>4, <4>6, <4>7, <4>8 DEF Names
    <3>9. ASSUME NEW r \in naming, NEW ok \in BOOLEAN, Committed(r, ok) PROVE
       Names'
      BY <1>2, <3>9 DEF TypeOK, Naming, Names, OwnName, NotYetNamed, profile,
         Committed
    <3>10. CASE SignOut
      BY <1>2, <3>10 DEF TypeOK, Naming, Names, OwnName, NotYetNamed, server,
         signing, profile, SignOut, Become, Push
    <3>11. CASE Back
      <4>1. /\ block = None /\ block' = None
            /\ UNCHANGED <<accounts, named, details, session, saving, naming, crossed>>
        BY <3>11 DEF Back, Running, server, history
      <4>2. ASSUME NEW b \in answered'
            PROVE  \E a \in answered : b.user = a.user /\ b.new = a.new
        BY <1>2, <3>11, Kept
      <4>3. ASSUME NEW b \in answered', NEW c \in answered', b.new, c.new, c.user = b.user
            PROVE  c = b
        <5>1. PICK a \in answered : a.user = b.user /\ a.new
                        /\ b = [a EXCEPT !.at = IF @ = Len(screens) THEN 0 ELSE @]
          BY <1>2, <3>11, <4>3, Kept
        <5>2. PICK d \in answered : d.user = c.user /\ d.new
                        /\ c = [d EXCEPT !.at = IF @ = Len(screens) THEN 0 ELSE @]
          BY <1>2, <3>11, <4>3, Kept
        <5>3. a = d
          BY <1>2, <4>3, <5>1, <5>2 DEF Names
        <5> QED
          BY <5>1, <5>2, <5>3
      <4>4. ASSUME NEW u PROVE NotYetNamed(u)' <=> NotYetNamed(u)
        BY <4>1 DEF NotYetNamed
      <4>5. \A b \in answered' : b.new => NotYetNamed(b.user)' /\ \A r \in saving' : r.of # b.user
        BY <1>2, <4>1, <4>2, <4>4 DEF Names
      <4>6. OwnName'
        BY <1>2, <4>1 DEF Names, OwnName
      <4> QED
        BY <1>2, <4>1, <4>3, <4>4, <4>5, <4>6 DEF Names
    <3>12. CASE OpenProfile
      BY <1>2, <3>12 DEF TypeOK, Naming, Names, OwnName, NotYetNamed, server,
         signing, profile, history, OpenProfile, Push
    <3>13. CASE Pick
      BY <1>2, <3>13 DEF TypeOK, Naming, Names, OwnName, NotYetNamed, server,
         signing, profile, history, Pick
    <3>14. ASSUME NEW x \in Pictures, NEW ok \in BOOLEAN, Uploaded(x, ok) PROVE
       Names'
      BY <1>2, <3>14 DEF TypeOK, Naming, Names, OwnName, NotYetNamed, server,
         signing, history, Uploaded
    <3>15. ASSUME NEW p \in Posts, PostAnswered(p) PROVE  Names'
      BY <1>2, <3>15 DEF TypeOK, Naming, Names, OwnName, NotYetNamed, server,
         signing, history, PostAnswered
    <3>16. ASSUME NEW p \in Posts, ToggleSaved(p) PROVE  Names'
      BY <1>2, <3>16 DEF TypeOK, Naming, Names, OwnName, NotYetNamed, signing,
         profile, history, ToggleSaved
    <3>17. ASSUME NEW p \in Posts, PostDeleted(p) PROVE  Names'
      BY <1>2, <3>17 DEF TypeOK, Naming, Names, OwnName, NotYetNamed, signing,
         profile, history, PostDeleted
    <3>18. CASE Relaunch
      <4>1. OwnName'
        <5>1. ASSUME NEW u \in Users \ crossed, named[u] # None PROVE details'[u] = details[u]
          <6>1. \A r \in saving : r.of # u
            BY <1>2, <5>1 DEF Names, NotYetNamed
          <6> QED
            BY <3>18, <6>1, FilledKept DEF Relaunch
        <5> QED
          BY <1>2, <3>18, <5>1 DEF Names, OwnName, Relaunch
      <4> QED
        BY <1>2, <3>18, <4>1 DEF Names, NotYetNamed, Relaunch
    <3>19. ASSUME NEW c \in Call, LetIn(c) PROVE  Names'
      BY <1>2, <3>19 DEF TypeOK, Naming, Names, OwnName, NotYetNamed, Call, Answer,
         LetIn, Become, profile
    <3> QED
      BY <2>1, <3>1, <3>2, <3>3, <3>4, <3>5, <3>6, <3>7, <3>8, <3>9, <3>10,
         <3>11, <3>12, <3>13, <3>14, <3>15, <3>16, <3>17, <3>18,
         <3>19 DEF Step,
         Completion
  <2>2. ASSUME NEW x \in Pictures, NEW ok \in BOOLEAN, PictureCommitted(x, ok)
     PROVE  Names'
    BY <1>2, <2>2 DEF TypeOK, Naming, Names, OwnName, NotYetNamed, server,
       signing, PictureCommitted
  <2>3. CASE UNCHANGED vars
    BY <1>2, <2>3 DEF TypeOK, Naming, Names, OwnName, NotYetNamed, server,
       signing, profile, history, vars
  <2> QED
    BY <1>2, <2>1, <2>2, <2>3 DEF Next
<1> QED
  BY <1>1, <1>2, AccountTypes, PTL DEF Spec

\* The name a user bears is the one in his document unless he came in between
\* (OwnName; saveDetailsToFirestore).
THEOREM OwnNameHolds == Spec => []OwnName
<1>1. Names => OwnName
  BY DEF Names
<1> QED
  BY <1>1, NamesHold, PTL

-----------------------------------------------------------------------------
\* Whoever has signed up has a name, will have one, or was cut short (NamedOrCut;
\* signUpTapped, saveDetailsToFirestore).
THEOREM NamedHolds == Spec => []NamedOrCut
<1> USE AccountAssumption DEF AccountAssumption
<1>1. Init => NamedOrCut
  BY DEF Init, NamedOrCut
<1>2. ASSUME TypeOK, Names, NamedOrCut, [Next]_vars
      PROVE  NamedOrCut'
  <2>1. ASSUME Step, wrote' = None PROVE  NamedOrCut'
    <3>1. ASSUME NEW u \in Users, Tap("signUp", u) PROVE  NamedOrCut'
      BY <1>2, <3>1 DEF TypeOK, Naming, Names, NamedOrCut, Unnamed, server,
         profile, history, Tap, Top, Running
    <3>2. ASSUME NEW u \in Users, Tap("signIn", u) PROVE  NamedOrCut'
      BY <1>2, <3>2 DEF TypeOK, Naming, Names, NamedOrCut, Unnamed, server,
         profile, history, Tap, Top, Running
    <3>3. ASSUME NEW u \in Users, IdsAnswered(u) PROVE  NamedOrCut'
      BY <1>2, <3>3 DEF TypeOK, Naming, Names, NamedOrCut, Unnamed, server,
         signing, history, IdsAnswered
    <3>4. ASSUME NEW a \in answered, SignedIn(a) PROVE  NamedOrCut'
      BY <1>2, <3>4 DEF TypeOK, Naming, Names, NamedOrCut, Unnamed, server,
         profile, SignedIn, history, PresentHome, Push, Call, Running
    <3>5. ASSUME NEW c \in Call, Refused(c) PROVE  NamedOrCut'
      BY <1>2, <3>5 DEF TypeOK, Naming, Names, NamedOrCut, Unnamed, server,
         profile, history, Refused, Running
    <3>6. ASSUME NEW a \in answered, NEW name \in Users, SignedUp(a, name) PROVE
       NamedOrCut'
      <4>1. [of |-> a.user, name |-> name] \in saving'
        BY <3>6 DEF SignedUp
      <4>2. a.user \in Unnamed'
        BY <4>1 DEF Unnamed
      <4>3. ASSUME NEW b \in answered, b.new PROVE b.user \in Unnamed'
        BY <3>6, <4>2, <4>3 DEF SignedUp, Unnamed
      <4>4. ASSUME NEW r \in saving \cup ({block} \ {None}) \cup naming PROVE r.of \in Unnamed'
        BY <3>6 DEF SignedUp, Unnamed
      <4>5. Unnamed \subseteq Unnamed'
        BY <4>3, <4>4 DEF Unnamed
      <4> QED
        BY <1>2, <3>6, <4>5 DEF NamedOrCut, SignedUp, server, history
    <3>7. ASSUME NEW r \in saving, NEW ok \in BOOLEAN, Stored(r, ok) PROVE
       NamedOrCut'
      <4>1. ASSUME NEW q \in saving \cup ({block} \ {None}) \cup naming
            PROVE  q.of \in Unnamed' \cup cut'
        <5>1. CASE q = r
          <6>1. r # None
            BY <1>2 DEF TypeOK, Naming
          <6> QED
            BY <3>7, <5>1, <6>1 DEF Stored, Unnamed
        <5>2. CASE q # r
          BY <3>7, <5>2 DEF Stored, Unnamed
        <5> QED
          BY <5>1, <5>2
      <4>2. ASSUME NEW a \in answered, a.new PROVE a.user \in Unnamed'
        BY <3>7, <4>2 DEF Stored, Unnamed
      <4>3. Unnamed \subseteq Unnamed' \cup cut' /\ cut \subseteq cut'
        BY <3>7, <4>1, <4>2 DEF Stored, Unnamed
      <4> QED
        BY <1>2, <3>7, <4>3 DEF NamedOrCut, Stored
    <3>8. CASE BlockRuns
      BY <1>2, <3>8 DEF TypeOK, Naming, Names, NamedOrCut, Unnamed, server,
         profile, BlockRuns
    <3>9. ASSUME NEW r \in naming, NEW ok \in BOOLEAN, Committed(r, ok) PROVE
       NamedOrCut'
      BY <1>2, <3>9 DEF TypeOK, Naming, Names, NamedOrCut, Unnamed, profile,
         Committed
    <3>10. CASE SignOut
      BY <1>2, <3>10 DEF TypeOK, Naming, Names, NamedOrCut, Unnamed, server,
         signing, profile, SignOut, Become, Push
    <3>11. CASE Back
      <4>1. UNCHANGED <<accounts, named, saving, block, naming, cut>>
        BY <3>11 DEF Back, Running, server, history
      <4>2. ASSUME NEW a \in answered, a.new PROVE a.user \in Unnamed'
        <5>1. PICK b \in answered' : b.user = a.user /\ b.new
          BY <1>2, <3>11, <4>2, Kept
        <5> QED
          BY <5>1 DEF Unnamed
      <4>3. Unnamed \subseteq Unnamed'
        BY <4>1, <4>2 DEF Unnamed
      <4> QED
        BY <1>2, <4>1, <4>3 DEF NamedOrCut
    <3>12. CASE OpenProfile
      BY <1>2, <3>12 DEF TypeOK, Naming, Names, NamedOrCut, Unnamed, server,
         signing, profile, history, OpenProfile, Push
    <3>13. CASE Pick
      BY <1>2, <3>13 DEF TypeOK, Naming, Names, NamedOrCut, Unnamed, server,
         signing, profile, history, Pick
    <3>14. ASSUME NEW x \in Pictures, NEW ok \in BOOLEAN, Uploaded(x, ok) PROVE
       NamedOrCut'
      BY <1>2, <3>14 DEF TypeOK, Naming, Names, NamedOrCut, Unnamed, server,
         signing, history, Uploaded
    <3>15. ASSUME NEW p \in Posts, PostAnswered(p) PROVE  NamedOrCut'
      BY <1>2, <3>15 DEF TypeOK, Naming, Names, NamedOrCut, Unnamed, server,
         signing, history, PostAnswered
    <3>16. ASSUME NEW p \in Posts, ToggleSaved(p) PROVE  NamedOrCut'
      BY <1>2, <3>16 DEF TypeOK, Naming, Names, NamedOrCut, Unnamed, signing,
         profile, history, ToggleSaved
    <3>17. ASSUME NEW p \in Posts, PostDeleted(p) PROVE  NamedOrCut'
      BY <1>2, <3>17 DEF TypeOK, Naming, Names, NamedOrCut, Unnamed, signing,
         profile, history, PostDeleted
    <3>18. CASE Relaunch
      BY <1>2, <3>18 DEF TypeOK, Naming, Names, NamedOrCut, Unnamed, Relaunch,
         Launch
    <3>19. ASSUME NEW c \in Call, LetIn(c) PROVE  NamedOrCut'
      <4>1. /\ UNCHANGED <<named, saving, block, naming, cut>> /\ accounts' = accounts \cup {c.user}
            /\ answered \subseteq answered'
        BY <3>19 DEF LetIn
      <4>2. Unnamed \subseteq Unnamed'
        BY <4>1 DEF Unnamed
      <4>3. ASSUME c.user \notin accounts PROVE c.user \in Unnamed'
        <5> DEFINE b == [user |-> c.user, at |-> c.at, new |-> c.op = "signUp"]
        <5>1. b \in answered' /\ b.user = c.user /\ b.new
          BY <3>19, <4>3 DEF LetIn
        <5> HIDE DEF b
        <5> QED
          BY <5>1 DEF Unnamed
      <4> QED
        BY <1>2, <4>1, <4>2, <4>3 DEF NamedOrCut
    <3> QED
      BY <2>1, <3>1, <3>2, <3>3, <3>4, <3>5, <3>6, <3>7, <3>8, <3>9, <3>10,
         <3>11, <3>12, <3>13, <3>14, <3>15, <3>16, <3>17, <3>18,
         <3>19 DEF Step,
         Completion
  <2>2. ASSUME NEW x \in Pictures, NEW ok \in BOOLEAN, PictureCommitted(x, ok)
     PROVE  NamedOrCut'
    BY <1>2, <2>2 DEF TypeOK, Naming, Names, NamedOrCut, Unnamed, server,
       signing, PictureCommitted
  <2>3. CASE UNCHANGED vars
    BY <1>2, <2>3 DEF TypeOK, Naming, Names, NamedOrCut, Unnamed, server,
       signing, profile, history, vars
  <2> QED
    BY <1>2, <2>1, <2>2, <2>3 DEF Next
<1> QED
  BY <1>1, <1>2, AccountTypes, NamesHold, PTL DEF Spec

-----------------------------------------------------------------------------
\* As long as nobody has signed in nor out, there is nothing to trap.
Quiet ==
  session = None /\ ~out =>
    /\ answered = {} /\ block = None
    /\ \A x \in Pictures : uploads[x] = "none"
    /\ \A i \in 1..Len(screens) : screens[i] = "start"

Calm == Quiet /\ TrapCause

\* Both hold throughout.
LEMMA CalmHolds == Spec => []Calm
<1> USE AccountAssumption DEF AccountAssumption
<1>1. Init => Calm
  BY DEF Init, Calm, Quiet, TrapCause
<1>2. ASSUME TypeOK, Calm, [Next]_vars
      PROVE  Calm'
  <2>1. ASSUME Step, wrote' = None PROVE  Calm'
    <3>1. ASSUME NEW u \in Users, Tap("signUp", u) PROVE  Calm'
      BY <1>2, <3>1 DEF TypeOK, Naming, Calm, Quiet, TrapCause, server,
         profile, history, Tap, Top, Running
    <3>2. ASSUME NEW u \in Users, Tap("signIn", u) PROVE  Calm'
      BY <1>2, <3>2 DEF TypeOK, Naming, Calm, Quiet, TrapCause, server,
         profile, history, Tap, Top, Running
    <3>3. ASSUME NEW u \in Users, IdsAnswered(u) PROVE  Calm'
      BY <1>2, <3>3 DEF TypeOK, Naming, Calm, Quiet, TrapCause, server,
         signing, history, IdsAnswered
    <3>4. ASSUME NEW a \in answered, SignedIn(a) PROVE  Calm'
      BY <1>2, <3>4 DEF TypeOK, Naming, Calm, Quiet, TrapCause, server,
         profile, SignedIn, history, PresentHome, Push, Call, Running
    <3>5. ASSUME NEW c \in Call, Refused(c) PROVE  Calm'
      BY <1>2, <3>5 DEF TypeOK, Naming, Calm, Quiet, TrapCause, server,
         profile, history, Refused, Running
    <3>6. ASSUME NEW a \in answered, NEW name \in Users, SignedUp(a, name) PROVE
       Calm'
      BY <1>2, <3>6 DEF TypeOK, Naming, Calm, Quiet, TrapCause, profile,
         SignedUp, history, PresentHome, Push, Call, Running
    <3>7. ASSUME NEW r \in saving, NEW ok \in BOOLEAN, Stored(r, ok) PROVE
       Calm'
      BY <1>2, <3>7 DEF TypeOK, Naming, Calm, Quiet, TrapCause, profile,
         Stored
    <3>8. CASE BlockRuns
      BY <1>2, <3>8 DEF TypeOK, Naming, Calm, Quiet, TrapCause, server,
         profile, BlockRuns
    <3>9. ASSUME NEW r \in naming, NEW ok \in BOOLEAN, Committed(r, ok) PROVE
       Calm'
      BY <1>2, <3>9 DEF TypeOK, Naming, Calm, Quiet, TrapCause, profile,
         Committed
    <3>10. CASE SignOut
      BY <1>2, <3>10 DEF TypeOK, Naming, Calm, Quiet, TrapCause, server,
         signing, profile, SignOut, Become, Push
    <3>11. CASE Back
      BY <1>2, <3>11 DEF TypeOK, Naming, Calm, Quiet, TrapCause, server,
         profile, history, Back, Running
    <3>12. CASE OpenProfile
      <4>1. Len(screens) \in 1..Len(screens)
        BY <1>2, LenProperties DEF TypeOK
      <4>2. session # None \/ out
        BY <1>2, <3>12, <4>1 DEF Calm, Quiet, OpenProfile, Top
      <4>3. Quiet'
        BY <1>2, <3>12, <4>2 DEF Calm, Quiet, OpenProfile, history
      <4>4. TrapCause'
        BY <1>2, <3>12, <4>2 DEF Calm, TrapCause, OpenProfile, server, profile, history
      <4> QED
        BY <4>3, <4>4 DEF Calm
    <3>13. CASE Pick
      BY <1>2, <3>13 DEF TypeOK, Naming, Calm, Quiet, TrapCause, server,
         signing, profile, history, Pick
    <3>14. ASSUME NEW x \in Pictures, NEW ok \in BOOLEAN, Uploaded(x, ok) PROVE
       Calm'
      BY <1>2, <3>14 DEF TypeOK, Naming, Calm, Quiet, TrapCause, server,
         signing, history, Uploaded
    <3>15. ASSUME NEW p \in Posts, PostAnswered(p) PROVE  Calm'
      BY <1>2, <3>15 DEF TypeOK, Naming, Calm, Quiet, TrapCause, server,
         signing, history, PostAnswered
    <3>16. ASSUME NEW p \in Posts, ToggleSaved(p) PROVE  Calm'
      BY <1>2, <3>16 DEF TypeOK, Naming, Calm, Quiet, TrapCause, signing,
         profile, history, ToggleSaved
    <3>17. ASSUME NEW p \in Posts, PostDeleted(p) PROVE  Calm'
      BY <1>2, <3>17 DEF TypeOK, Naming, Calm, Quiet, TrapCause, signing,
         profile, history, PostDeleted
    <3>18. CASE Relaunch
      BY <1>2, <3>18 DEF TypeOK, Naming, Calm, Quiet, TrapCause, Relaunch,
         Launch
    <3>19. ASSUME NEW c \in Call, LetIn(c) PROVE  Calm'
      BY <1>2, <3>19 DEF TypeOK, Calm, Quiet, TrapCause, Call, LetIn, Become, profile
    <3> QED
      BY <2>1, <3>1, <3>2, <3>3, <3>4, <3>5, <3>6, <3>7, <3>8, <3>9, <3>10,
         <3>11, <3>12, <3>13, <3>14, <3>15, <3>16, <3>17, <3>18,
         <3>19 DEF Step,
         Completion
  <2>2. ASSUME NEW x \in Pictures, NEW ok \in BOOLEAN, PictureCommitted(x, ok)
     PROVE  Calm'
    BY <1>2, <2>2 DEF TypeOK, Naming, Calm, Quiet, TrapCause, server, signing,
       PictureCommitted
  <2>3. CASE UNCHANGED vars
    BY <1>2, <2>3 DEF TypeOK, Naming, Calm, Quiet, TrapCause, server, signing,
       profile, history, vars
  <2> QED
    BY <1>2, <2>1, <2>2, <2>3 DEF Next
<1> QED
  BY <1>1, <1>2, AccountTypes, PTL DEF Spec

\* The app traps here only without a user, after somebody signed out, or on a
\* saved post that is gone (TrapCause; openProfile, uploadPic, getSavedPost).
THEOREM TrapHolds == Spec => []TrapCause
<1>1. Calm => TrapCause
  BY DEF Calm
<1> QED
  BY <1>1, CalmHolds, PTL

-----------------------------------------------------------------------------
\* Whose picture is under way is signed in, or has not been all the while.
Deserters == \A x \in Pictures : uploads[x] # "none" => session = x[1] \/ x \in deserted

\* That holds throughout.
LEMMA DesertersHold == Spec => []Deserters
<1> USE AccountAssumption DEF AccountAssumption
<1>1. Init => Deserters
  BY DEF Init, Deserters
<1>2. ASSUME TypeOK, Deserters, [Next]_vars
      PROVE  Deserters'
  <2>1. ASSUME Step, wrote' = None PROVE  Deserters'
    <3>1. ASSUME NEW u \in Users, Tap("signUp", u) PROVE  Deserters'
      BY <1>2, <3>1 DEF TypeOK, Deserters, server, profile, history, Tap, Top,
         Running
    <3>2. ASSUME NEW u \in Users, Tap("signIn", u) PROVE  Deserters'
      BY <1>2, <3>2 DEF TypeOK, Deserters, server, profile, history, Tap, Top,
         Running
    <3>3. ASSUME NEW u \in Users, IdsAnswered(u) PROVE  Deserters'
      BY <1>2, <3>3 DEF TypeOK, Deserters, server, signing, history,
         IdsAnswered
    <3>4. ASSUME NEW a \in answered, SignedIn(a) PROVE  Deserters'
      BY <1>2, <3>4 DEF TypeOK, Deserters, server, profile, SignedIn, history,
         PresentHome, Push, Call, Running
    <3>5. ASSUME NEW c \in Call, Refused(c) PROVE  Deserters'
      BY <1>2, <3>5 DEF TypeOK, Deserters, server, profile, history, Refused,
         Running
    <3>6. ASSUME NEW a \in answered, NEW name \in Users, SignedUp(a, name) PROVE
       Deserters'
      BY <1>2, <3>6 DEF TypeOK, Deserters, profile, SignedUp, history, PresentHome,
         Push, Call, Running
    <3>7. ASSUME NEW r \in saving, NEW ok \in BOOLEAN, Stored(r, ok) PROVE
       Deserters'
      BY <1>2, <3>7 DEF TypeOK, Deserters, profile, Stored
    <3>8. CASE BlockRuns
      BY <1>2, <3>8 DEF TypeOK, Deserters, server, profile, BlockRuns
    <3>9. ASSUME NEW r \in naming, NEW ok \in BOOLEAN, Committed(r, ok) PROVE
       Deserters'
      BY <1>2, <3>9 DEF TypeOK, Deserters, profile, Committed
    <3>10. CASE SignOut
      BY <1>2, <3>10 DEF TypeOK, Deserters, server, signing, profile, SignOut,
         Become, Push
    <3>11. CASE Back
      BY <1>2, <3>11 DEF TypeOK, Deserters, server, profile, history, Back,
         Running
    <3>12. CASE OpenProfile
      BY <1>2, <3>12 DEF TypeOK, Deserters, server, signing, profile, history,
         OpenProfile, Push
    <3>13. CASE Pick
      BY <1>2, <3>13 DEF TypeOK, Deserters, server, signing, profile, history,
         Pick
    <3>14. ASSUME NEW x \in Pictures, NEW ok \in BOOLEAN, Uploaded(x, ok) PROVE
       Deserters'
      BY <1>2, <3>14 DEF TypeOK, Deserters, server, signing, history, Uploaded
    <3>15. ASSUME NEW p \in Posts, PostAnswered(p) PROVE  Deserters'
      BY <1>2, <3>15 DEF TypeOK, Deserters, server, signing, history,
         PostAnswered
    <3>16. ASSUME NEW p \in Posts, ToggleSaved(p) PROVE  Deserters'
      BY <1>2, <3>16 DEF TypeOK, Deserters, signing, profile, history,
         ToggleSaved
    <3>17. ASSUME NEW p \in Posts, PostDeleted(p) PROVE  Deserters'
      BY <1>2, <3>17 DEF TypeOK, Deserters, signing, profile, history,
         PostDeleted
    <3>18. CASE Relaunch
      BY <1>2, <3>18 DEF TypeOK, Deserters, Relaunch, Launch
    <3>19. ASSUME NEW c \in Call, LetIn(c) PROVE  Deserters'
      BY <1>2, <3>19 DEF TypeOK, Deserters, Call, LetIn, Become, profile
    <3> QED
      BY <2>1, <3>1, <3>2, <3>3, <3>4, <3>5, <3>6, <3>7, <3>8, <3>9, <3>10,
         <3>11, <3>12, <3>13, <3>14, <3>15, <3>16, <3>17, <3>18,
         <3>19 DEF Step,
         Completion
  <2>2. ASSUME NEW x \in Pictures, NEW ok \in BOOLEAN, PictureCommitted(x, ok)
     PROVE  Deserters'
    BY <1>2, <2>2 DEF TypeOK, Deserters, server, signing, PictureCommitted
  <2>3. CASE UNCHANGED vars
    BY <1>2, <2>3 DEF TypeOK, Deserters, server, signing, profile, history,
       vars
  <2> QED
    BY <1>2, <2>1, <2>2, <2>3 DEF Next
<1> QED
  BY <1>1, <1>2, AccountTypes, PTL DEF Spec

\* A document gets the picture of another only if that one has not been signed in
\* all the while this very picture was uploaded (StrayPicture; uploadPic).
THEOREM StrayHolds == Spec => StrayPicture
<1>1. ASSUME Deserters, [Next]_vars
      PROVE  [wrote' # None => wrote'.by \in {None, wrote'.of} \/ wrote'.stray]_vars
  <2>1. CASE Step /\ wrote' = None
    BY <2>1
  <2>2. ASSUME NEW x \in Pictures, NEW ok \in BOOLEAN, PictureCommitted(x, ok)
        PROVE  wrote' # None => wrote'.by \in {None, wrote'.of} \/ wrote'.stray
    BY <1>1, <2>2 DEF Deserters, PictureCommitted
  <2> QED
    BY <1>1, <2>1, <2>2 DEF Next
<1> QED
  BY <1>1, DesertersHold, PTL DEF Spec, StrayPicture
=============================================================================
