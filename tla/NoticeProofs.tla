---------------------------- MODULE NoticeProofs ----------------------------
(***************************************************************************)
(* What holds of notifications and of likes for any number of users, posts *)
(* and notifications, by themselves and together.                          *)
(***************************************************************************)
EXTENDS Notices, TLAPS, SequenceTheorems, FiniteSetTheorems

(* The notifications tab. *)

\* What the listeners have handed over is listed; the listener for everybody,
\* once called, has others behind it; and what is attached is paid for by what it
\* has found.
ScreenInv ==
  /\ TypeOK
  /\ tab = "closed" => outer = Attached /\ managers = 0 /\ inner = <<>>
  /\ outer.docs \subseteq SentTo(All) /\ \A n \in outer.docs : rows[n] > 0
  /\ \A i \in DOMAIN inner : \A n \in inner[i].docs : rows[n] > 0
  /\ outer.ran => managers > 0 \/ inner # <<>>
  /\ managers + Len(inner) <= (IF outer.ran THEN 1 ELSE 0) + Cardinality(outer.docs)

\* The results of queries are finite sets of notifications.
LEMMA ResultType ==
  ASSUME TypeOK, NEW r
  PROVE  SentTo(r) \in SUBSET Ids /\ IsFiniteSet(SentTo(r))
<1>1. Len(notes) \in Nat /\ Len(notes) <= MaxNotes /\ live \subseteq 1..Len(notes)
  BY LenProperties DEF TypeOK
<1>2. SentTo(r) \subseteq 1..Len(notes) /\ 1..Len(notes) \subseteq Ids
  <2>1. SentTo(r) \subseteq live
    BY DEF SentTo
  <2>2. ASSUME NEW len \in Nat, len <= MaxNotes
        PROVE  1..len \subseteq 1..MaxNotes
    BY <2>2, NotificationsAssumption
  <2> QED
    BY <1>1, <2>1, <2>2 DEF Ids
<1>3. IsFiniteSet(1..Len(notes))
  BY <1>1, FS_Interval
<1> QED
  BY <1>2, <1>3, FS_Subset

\* A notification more: what was sent to whom is as it was.
LEMMA Notified ==
  ASSUME TypeOK, NEW to \in Users \cup {All}, NEW named \in BOOLEAN, Notify(to, named)
  PROVE  /\ notes' \in Seq(Note) /\ Len(notes') <= MaxNotes
         /\ live \subseteq 1..Len(notes') /\ UNCHANGED <<live, screen>>
         /\ Len(notes') = Len(notes) + 1
         /\ \A n \in 1..Len(notes) : notes'[n] = notes[n]
<1>1. notes \in Seq(Note) /\ Len(notes) \in Nat /\ live \subseteq 1..Len(notes)
  BY LenProperties DEF TypeOK
<1>2. [to |-> to, named |-> named] \in Note
  BY DEF Note
<1>3. /\ notes' \in Seq(Note) /\ Len(notes') = Len(notes) + 1
      /\ \A n \in 1..Len(notes) : notes'[n] = notes[n]
  BY <1>1, <1>2, AppendProperties DEF Notify
<1>4. Len(notes) < MaxNotes /\ UNCHANGED <<live, screen>>
  BY DEF Notify
<1> QED
  BY <1>1, <1>3, <1>4, NotificationsAssumption

\* Notifications are only added, and so are their arrivals.
Grown ==
  /\ notes' \in Seq(Note) /\ Len(notes') <= MaxNotes /\ live' \subseteq 1..Len(notes')
  /\ live \subseteq live' /\ \A n \in live : notes'[n] = notes[n]

\* Every step lets them grow.
LEMMA NotesGrow ==
  ASSUME TypeOK, [Next]_notice
  PROVE  Grown
<1>1. notes \in Seq(Note) /\ Len(notes) \in Nat /\ live \subseteq 1..Len(notes)
      /\ Len(notes) <= MaxNotes /\ DOMAIN notes = 1..Len(notes)
  BY LenProperties DEF TypeOK
<1>2. ASSUME NEW to \in Users \cup {All}, NEW named \in BOOLEAN, Notify(to, named)
      PROVE  Grown
  BY <1>1, <1>2, Notified DEF Grown
<1>3. ASSUME NEW n \in DOMAIN notes, Arrive(n)
      PROVE  Grown
  BY <1>1, <1>3 DEF Arrive, Grown
<1>4. CASE ScreenStep \/ UNCHANGED notice
  BY <1>1, <1>4 DEF ScreenStep, ShowTab, Callback, AllCalled, ManagersCalled, MineCalled,
     Traps, Relaunch, notice, Grown
<1> QED
  BY <1>2, <1>3, <1>4 DEF Next

\* So queries find no less.
LEMMA ResultsGrow ==
  ASSUME TypeOK, Grown
  PROVE  \A r : SentTo(r) \subseteq SentTo(r)'
BY DEF Grown, SentTo

\* An array into which a result was merged.
LEMMA MergedRows ==
  ASSUME TypeOK, NEW S \in SUBSET Ids
  PROVE  /\ Merged(S) \in [Ids -> Nat]
         /\ \A n \in S : Merged(S)[n] > 0
         /\ \A n \in Ids : rows[n] > 0 => Merged(S)[n] > 0
BY DEF Merged, TypeOK

\* A listener called with more than it had has found more.
LEMMA MoreFound ==
  ASSUME TypeOK, NEW r, NEW D \in SUBSET SentTo(r), D # SentTo(r)
  PROVE  Cardinality(D) + 1 <= Cardinality(SentTo(r))
<1>1. IsFiniteSet(SentTo(r))
  BY ResultType
<1>2. IsFiniteSet(D) /\ Cardinality(D) <= Cardinality(SentTo(r))
      /\ Cardinality(D) # Cardinality(SentTo(r))
  BY <1>1, FS_Subset
<1>3. Cardinality(D) \in Nat /\ Cardinality(SentTo(r)) \in Nat
  BY <1>1, <1>2, FS_CardinalityType
<1> QED
  BY <1>2, <1>3

\* The listener for everybody is called.
LEMMA AllCalledKeeps ==
  ASSUME ScreenInv, AllCalled
  PROVE  ScreenInv'
<1> DEFINE S == SentTo(All)
<1>1. /\ TypeOK /\ S \in SUBSET Ids /\ IsFiniteSet(S) /\ Cardinality(S) \in Nat
      /\ inner \in Seq(Listener) /\ Len(inner) \in Nat /\ managers \in Nat
  BY ResultType, FS_CardinalityType, LenProperties DEF ScreenInv, TypeOK
<1>2. /\ outer' = [ran |-> TRUE, docs |-> S] /\ rows' = Merged(S) /\ managers' = managers + 1
      /\ UNCHANGED <<notes, live, tab, inner>> /\ HasNews(outer, All) /\ tab = "open"
  BY DEF AllCalled, Called
<1> HIDE DEF S
<1>3. outer' \in Listener /\ rows' \in [Ids -> Nat]
  BY <1>1, <1>2, MergedRows DEF Listener
<1>4. TypeOK'
  BY <1>1, <1>2, <1>3 DEF TypeOK
<1>5. SentTo(All)' = S
  BY <1>2 DEF SentTo, S
<1>6. \A n \in outer'.docs : rows'[n] > 0
  BY <1>1, <1>2, MergedRows
<1>7. \A i \in DOMAIN inner' : \A n \in inner'[i].docs : rows'[n] > 0
  <2>1. ASSUME NEW i \in DOMAIN inner PROVE inner[i].docs \subseteq Ids
    <3>1. inner[i] \in Listener
      BY <1>1, ElementOfSeq, LenProperties
    <3> QED
      BY <3>1 DEF Listener
  <2> QED
    BY <1>1, <1>2, <2>1, MergedRows DEF ScreenInv
<1>8. managers + Len(inner) <= Cardinality(S)
  <2>1. CASE outer.ran
    <3>1. outer.docs \in SUBSET S /\ outer.docs # S
      BY <1>2, <2>1 DEF ScreenInv, HasNews, S
    <3>2. Cardinality(outer.docs) + 1 <= Cardinality(S)
      BY <1>1, <3>1, MoreFound DEF S
    <3>3. IsFiniteSet(outer.docs) /\ Cardinality(outer.docs) \in Nat
      BY <1>1, <3>1, FS_Subset, FS_CardinalityType
    <3>4. managers + Len(inner) <= 1 + Cardinality(outer.docs)
      BY <2>1 DEF ScreenInv
    <3> QED
      BY <1>1, <3>2, <3>3, <3>4
  <2>2. CASE ~outer.ran
    <3>1. outer.docs \in SUBSET S
      BY DEF ScreenInv, S
    <3>2. Cardinality(outer.docs) \in Nat /\ Cardinality(outer.docs) <= Cardinality(S)
      BY <1>1, <3>1, FS_Subset, FS_CardinalityType
    <3>3. managers + Len(inner) <= 0 + Cardinality(outer.docs)
      BY <2>2 DEF ScreenInv
    <3> QED
      BY <1>1, <3>2, <3>3
  <2> QED
    BY <2>1, <2>2
<1>9. managers' + Len(inner') <= 1 + Cardinality(outer'.docs) /\ managers' > 0
  BY <1>1, <1>2, <1>8
<1>10. outer'.docs = S /\ outer'.ran
  BY <1>2
<1> QED
  BY <1>2, <1>4, <1>5, <1>6, <1>7, <1>9, <1>10 DEF ScreenInv

\* A listener for the managers is called.
LEMMA ManagersCalledKeeps ==
  ASSUME ScreenInv, ManagersCalled
  PROVE  ScreenInv'
<1>1. /\ TypeOK /\ inner \in Seq(Listener) /\ Len(inner) \in Nat
      /\ DOMAIN inner = 1..Len(inner) /\ managers \in Nat /\ managers > 0
  BY LenProperties DEF ScreenInv, TypeOK, ManagersCalled
<1>2. /\ managers' = managers - 1 /\ inner' = Append(inner, Attached)
      /\ UNCHANGED <<notes, live, tab, outer, rows>> /\ tab = "open"
  BY DEF ManagersCalled
<1>3. Attached \in Listener
  BY DEF Attached, Listener
<1>4. /\ inner' \in Seq(Listener) /\ inner' # <<>> /\ Len(inner') = Len(inner) + 1
      /\ \A i \in 1..Len(inner) : inner'[i] = inner[i]
      /\ inner'[Len(inner) + 1] = Attached
  BY <1>1, <1>2, <1>3, AppendProperties
<1>5. TypeOK' /\ SentTo(All)' = SentTo(All)
  BY <1>1, <1>2, <1>4 DEF TypeOK, SentTo
<1>6. ASSUME NEW i \in DOMAIN inner' PROVE \A n \in inner'[i].docs : rows'[n] > 0
  <2>1. i \in 1..Len(inner) \/ i = Len(inner) + 1
    BY <1>1, <1>4, LenProperties
  <2> QED
    BY <1>1, <1>2, <1>4, <2>1 DEF ScreenInv, Attached
<1>7. managers' + Len(inner') = managers + Len(inner)
  BY <1>1, <1>2, <1>4
<1> QED
  BY <1>2, <1>4, <1>5, <1>6, <1>7 DEF ScreenInv

\* A listener for the user's own is called.
LEMMA MineCalledKeeps ==
  ASSUME ScreenInv, NEW i \in DOMAIN inner, MineCalled(i)
  PROVE  ScreenInv'
<1> DEFINE S == SentTo(Me)
<1>1. /\ TypeOK /\ S \in SUBSET Ids /\ inner \in Seq(Listener) /\ DOMAIN inner = 1..Len(inner)
  BY ResultType, LenProperties DEF ScreenInv, TypeOK
<1>2. /\ inner' = [inner EXCEPT ![i] = [ran |-> TRUE, docs |-> S]] /\ rows' = Merged(S)
      /\ UNCHANGED <<notes, live, tab, outer, managers>> /\ tab = "open"
  BY DEF MineCalled, Called
<1> HIDE DEF S
<1>3. [ran |-> TRUE, docs |-> S] \in Listener
  BY <1>1 DEF Listener
<1>4. /\ inner' \in Seq(Listener) /\ Len(inner') = Len(inner)
      /\ \A j \in 1..Len(inner) :
           inner'[j] = IF j = i THEN [ran |-> TRUE, docs |-> S] ELSE inner[j]
  BY <1>1, <1>2, <1>3, ExceptSeq
<1>5. rows' \in [Ids -> Nat] /\ \A n \in Ids : rows[n] > 0 => rows'[n] > 0
  BY <1>1, <1>2, MergedRows
<1>6. TypeOK' /\ SentTo(All)' = SentTo(All)
  BY <1>1, <1>2, <1>4, <1>5 DEF TypeOK, SentTo
<1>7. ASSUME NEW j \in DOMAIN inner' PROVE \A n \in inner'[j].docs : rows'[n] > 0
  <2>1. j \in 1..Len(inner) /\ inner[j] \in Listener
    BY <1>1, <1>4, ElementOfSeq, LenProperties
  <2>2. inner[j].docs \subseteq Ids
    BY <2>1 DEF Listener
  <2>3. \A n \in S : rows'[n] > 0
    BY <1>1, <1>2, MergedRows
  <2> QED
    BY <1>1, <1>4, <1>5, <2>1, <2>2, <2>3 DEF ScreenInv
<1>8. outer.docs \subseteq Ids
  BY DEF ScreenInv, TypeOK, Listener
<1>9. inner # <<>> => inner' # <<>>
  BY <1>1, <1>4
<1> QED
  BY <1>2, <1>4, <1>5, <1>6, <1>7, <1>8, <1>9 DEF ScreenInv

\* The other steps change neither what listeners found nor what is listed, or
\* make the screen anew.
LEMMA ScreenStays ==
  ASSUME ScreenInv, Grown, UNCHANGED <<outer, managers, inner, rows>>,
         tab' \in {"closed", "open", "trapped"}, tab' = "closed" => tab = "closed"
  PROVE  ScreenInv'
<1>1. SentTo(All) \subseteq SentTo(All)'
  BY ResultsGrow DEF ScreenInv
<1>2. TypeOK'
  BY DEF ScreenInv, TypeOK, Grown
<1> QED
  BY <1>1, <1>2 DEF ScreenInv

\* The app starts again.
LEMMA RelaunchKeeps ==
  ASSUME ScreenInv, Relaunch
  PROVE  ScreenInv'
<1>1. /\ UNCHANGED <<notes, live>> /\ tab' = "closed" /\ outer' = Attached /\ managers' = 0
      /\ inner' = <<>> /\ rows' = NoRows
  BY DEF Relaunch
<1>2. Attached \in Listener /\ <<>> \in Seq(Listener) /\ NoRows \in [Ids -> Nat] /\ Len(<<>>) = 0
  BY EmptySeq DEF Attached, Listener, NoRows
<1>3. TypeOK'
  BY <1>1, <1>2 DEF ScreenInv, TypeOK
<1> QED
  BY <1>1, <1>2, <1>3, FS_EmptySet DEF ScreenInv, Attached

\* The screen's facts hold throughout.
LEMMA ScreenHolds == Spec => []ScreenInv
<1>1. Init => ScreenInv
  <2> SUFFICES ASSUME Init PROVE ScreenInv
    OBVIOUS
  <2>1. Attached \in Listener /\ <<>> \in Seq(Listener) /\ NoRows \in [Ids -> Nat]
        /\ <<>> \in Seq(Note) /\ Len(<<>>) = 0
    BY EmptySeq DEF Attached, Listener, NoRows
  <2>2. TypeOK
    BY <2>1, NotificationsAssumption DEF Init, TypeOK
  <2> QED
    BY <2>1, <2>2, FS_EmptySet DEF Init, ScreenInv, Attached
<1>2. ASSUME ScreenInv, [Next]_notice
      PROVE  ScreenInv'
  <2>1. Grown
    BY <1>2, NotesGrow DEF ScreenInv
  <2>2. ASSUME NEW to \in Users \cup {All}, NEW named \in BOOLEAN, Notify(to, named)
        PROVE  ScreenInv'
    BY <1>2, <2>1, <2>2, ScreenStays DEF ScreenInv, TypeOK, Notify, screen
  <2>3. ASSUME NEW n \in DOMAIN notes, Arrive(n)
        PROVE  ScreenInv'
    BY <1>2, <2>1, <2>3, ScreenStays DEF ScreenInv, TypeOK, Arrive, screen
  <2>4. CASE ShowTab
    BY <1>2, <2>1, <2>4, ScreenStays DEF ShowTab
  <2>5. CASE Callback
    BY <1>2, <2>5, AllCalledKeeps, ManagersCalledKeeps, MineCalledKeeps DEF Callback
  <2>6. CASE Traps
    BY <1>2, <2>1, <2>6, ScreenStays DEF Traps
  <2>7. CASE Relaunch
    BY <1>2, <2>7, RelaunchKeeps
  <2>8. CASE UNCHANGED notice
    BY <1>2, <2>1, <2>8, ScreenStays DEF ScreenInv, TypeOK, notice, screen
  <2> QED
    BY <1>2, <2>2, <2>3, <2>4, <2>5, <2>6, <2>7, <2>8 DEF Next, ScreenStep
<1> QED
  BY <1>1, <1>2, PTL DEF Spec
-----------------------------------------------------------------------------
\* Every variable of the tab keeps its type.
THEOREM NoticeTypes == Spec => []TypeOK
BY ScreenHolds, PTL DEF ScreenInv

\* Called-back listeners attach others, but no more than there are notifications
\* for everybody, and one.
THEOREM ListenersStayFew == Spec => []ListenersBounded
<1>1. ScreenInv => ListenersBounded
  <2> SUFFICES ASSUME ScreenInv PROVE ListenersBounded
    OBVIOUS
  <2>1. /\ outer.docs \subseteq SentTo(All) /\ IsFiniteSet(SentTo(All))
        /\ inner \in Seq(Listener) /\ managers \in Nat
    BY ResultType DEF ScreenInv, TypeOK
  <2>2. /\ Cardinality(outer.docs) \in Nat /\ Cardinality(SentTo(All)) \in Nat
        /\ Cardinality(outer.docs) <= Cardinality(SentTo(All)) /\ Len(inner) \in Nat
    BY <2>1, FS_Subset, FS_CardinalityType, LenProperties
  <2>3. managers + Len(inner) <= (IF outer.ran THEN 1 ELSE 0) + Cardinality(outer.docs)
    BY DEF ScreenInv
  <2> QED
    BY <2>1, <2>2, <2>3 DEF ListenersBounded
<1> QED
  BY <1>1, ScreenHolds, PTL

\* Once every listener has been called with what there is, everything meant for
\* this user is listed.
THEOREM NothingIsMissing == Spec => []NothingMissing
<1>1. ScreenInv => NothingMissing
  <2> SUFFICES ASSUME ScreenInv, CaughtUp, NEW n \in ForMe
               PROVE  rows[n] > 0
    BY DEF NothingMissing
  <2>1. outer.ran /\ outer.docs = SentTo(All) /\ managers = 0
    BY DEF CaughtUp, HasNews
  <2>2. inner \in Seq(Listener) /\ inner # <<>>
    BY <2>1 DEF ScreenInv, TypeOK
  <2>3. 1 \in DOMAIN inner
    BY <2>2, EmptySeq, LenProperties
  <2>4. inner[1].docs = SentTo(Me)
    BY <2>3 DEF CaughtUp, HasNews
  <2>5. n \in SentTo(All) \/ n \in SentTo(Me)
    BY DEF ForMe, SentTo
  <2> QED
    BY <2>1, <2>3, <2>4, <2>5 DEF ScreenInv
<1> QED
  BY <1>1, ScreenHolds, PTL

\* What a listener found is found on the board.
LEMMA FoundOnBoard ==
  ASSUME TypeOK, NEW r \in {All, Me}, rows' = Merged(SentTo(r)), UNCHANGED <<notes, live>>
  PROVE  Board!Next
<1>1. SentTo(r) \subseteq Board!ForMe
  BY DEF SentTo, Board!ForMe
<1>2. DOMAIN rows = Ids
  BY DEF TypeOK
<1>3. rows' = [n \in DOMAIN rows |-> IF n \in SentTo(r) THEN 1 ELSE rows[n]]
  BY <1>2 DEF Merged
<1>4. Board!Find(SentTo(r))
  BY <1>1, <1>3 DEF Board!Find
<1> QED
  BY <1>1, <1>4 DEF Board!Next

\* The screen with its listeners implements the notice board: what is listed is
\* listed once, is for this user, and stays until the app is started again.
THEOREM BoardHolds == Spec => BoardSpec
<1>1. Init => Board!Init
  BY DEF Init, Board!Init, NoRows, Board!Nothing
<1>2. ASSUME TypeOK, [Next]_notice
      PROVE  [Board!Next]_(Board!vars)
  <2>1. ASSUME NEW to \in Users \cup {All}, NEW named \in BOOLEAN, Notify(to, named)
        PROVE  Board!Next
    <3>1. /\ Len(notes') = Len(notes) + 1 /\ UNCHANGED <<live, rows>>
          /\ \A n \in 1..Len(notes) : notes'[n] = notes[n]
      BY <1>2, <2>1, Notified DEF screen
    <3>2. DOMAIN notes = 1..Len(notes)
      BY <1>2, LenProperties DEF TypeOK
    <3> QED
      BY <3>1, <3>2 DEF Board!Next, Board!Write
  <2>2. ASSUME NEW n \in DOMAIN notes, Arrive(n)
        PROVE  Board!Next
    BY <2>2 DEF Arrive, screen, Board!Next, Board!PutUp
  <2>3. CASE ShowTab \/ ManagersCalled \/ Traps \/ UNCHANGED notice
    BY <2>3 DEF ShowTab, ManagersCalled, Traps, notice, screen, Board!vars
  <2>4. CASE AllCalled
    BY <1>2, <2>4, FoundOnBoard DEF AllCalled
  <2>5. ASSUME NEW i \in DOMAIN inner, MineCalled(i)
        PROVE  Board!Next
    BY <1>2, <2>5, FoundOnBoard DEF MineCalled
  <2>6. CASE Relaunch
    BY <1>2, <2>6 DEF Relaunch, NoRows, TypeOK, Board!Nothing, Board!Go, Board!Next
  <2> QED
    BY <1>2, <2>1, <2>2, <2>3, <2>4, <2>5, <2>6 DEF Next, ScreenStep, Callback
<1> QED
  BY <1>1, <1>2, NoticeTypes, PTL DEF Spec, BoardSpec, Board!Spec

-----------------------------------------------------------------------------
(* The buttons. *)

\* Marks' facts are inductive together, the reading being part of what is stored
\* or not.
MarksInv == M!TypeOK /\ M!WrongButtonIsOld

\* Types and buttons, whatever the buttons do.
LEMMA MarksKeep ==
  ASSUME MarksInv, [M!Next]_marks
  PROVE  MarksInv'
<1> USE DEF MarksInv, M!TypeOK, M!WrongButtonIsOld
<1>1. ASSUME NEW k \in Kinds, M!Answer(k)
      PROVE  MarksInv'
  BY <1>1 DEF M!Answer
<1>2. CASE M!Reload
  BY <1>2 DEF M!Reload
<1>3. ASSUME NEW p \in Posts, M!Scroll(p)
      PROVE  MarksInv'
  BY <1>3 DEF M!Scroll
<1>4. ASSUME NEW k \in Kinds, NEW p \in Posts, M!Press(k, p)
      PROVE  MarksInv'
  <2>1. sent' \in [M!Authors -> 0..MaxSent]
    <3>1. M!Told(p) \in M!Authors
      BY DEF M!Told, M!Authors
    <3>2. ASSUME sent[M!Told(p)] < MaxSent
          PROVE  sent[M!Told(p)] + 1 \in 0..MaxSent
      BY <3>1, <3>2, NoticesAssumption
    <3> QED
      BY <1>4, <3>1, <3>2 DEF M!Press
  <2>2. /\ stored' \in [Kinds -> SUBSET Posts] /\ button' \in [Kinds -> SUBSET Posts]
        /\ astray' \in [Kinds -> SUBSET Posts] /\ UNCHANGED <<asked, known, user>>
    BY <1>4 DEF M!Press, M!Turned
  <2>3. ASSUME NEW j \in Kinds, NEW q \in Posts, (q \in button'[j]) # (q \in stored'[j])
        PROVE  (q \in button'[j]) = (q \in known[j]) \/ q \in astray'[j]
    <3>1. CASE j = k /\ q = p
      BY <1>4, <2>3, <3>1 DEF M!Press, M!Turned
    <3>2. CASE ~(j = k /\ q = p)
      BY <1>4, <2>3, <3>2 DEF M!Press, M!Turned
    <3> QED
      BY <3>1, <3>2
  <2> QED
    BY <2>1, <2>2, <2>3
<1>5. ASSUME NEW u \in M!Seat, M!Become(u)
      PROVE  MarksInv'
  BY <1>5 DEF M!Become
<1>6. CASE UNCHANGED marks
  BY <1>6 DEF marks
<1> QED
  BY <1>1, <1>2, <1>3, <1>4, <1>5, <1>6 DEF M!Next
\* The likes of a's posts that were stored since the marks were read.
NewLikes(a) == {p \in stored[Like] \ known[Like] : Author[p] = a}

\* Marks counts as Notifications does.
LEMMA SameCount == ASSUME NEW S PROVE M!Cardinality(S) = Cardinality(S)
BY DEF M!Cardinality, Cardinality

\* The number of notifications keeps up with them.
LEMMA LikesKeep ==
  ASSUME MarksInv, M!LikesAnnounced, [M!Next]_marks
  PROVE  M!LikesAnnounced'
<1>1. /\ IsFiniteSet(Posts) /\ stored[Like] \subseteq Posts /\ stored'[Like] \subseteq Posts
      /\ Like \in Kinds /\ sent \in [M!Authors -> 0..MaxSent] /\ known \in [Kinds -> SUBSET Posts]
  BY MarksKeep, NoticesAssumption DEF MarksInv, M!TypeOK
<1>2. \A a : /\ IsFiniteSet(NewLikes(a)) /\ Cardinality(NewLikes(a)) \in Nat
             /\ IsFiniteSet(NewLikes(a)') /\ Cardinality(NewLikes(a)') \in Nat
  <2> TAKE a
  <2>1. NewLikes(a) \subseteq Posts /\ NewLikes(a)' \subseteq Posts
    BY <1>1 DEF NewLikes
  <2> QED
    BY <1>1, <2>1, FS_Subset, FS_CardinalityType
<1>3. M!LikesAnnounced = (Like \notin asked =>
                            \A a \in M!Authors : Cardinality(NewLikes(a)) <= sent[a])
  BY SameCount DEF M!LikesAnnounced, NewLikes
<1>4. M!LikesAnnounced' = (Like \notin asked' =>
                             \A a \in M!Authors : Cardinality(NewLikes(a)') <= sent'[a])
  BY SameCount DEF M!LikesAnnounced, NewLikes, M!Authors
<1>5. ASSUME NEW k \in Kinds, M!Answer(k)
      PROVE  M!LikesAnnounced'
  <2>1. UNCHANGED <<stored, sent>> /\ asked' = asked \ {k}
        /\ known' = [known EXCEPT ![k] = stored[k]]
    BY <1>5 DEF M!Answer
  <2>2. CASE k = Like
    <3>1. \A a : NewLikes(a)' = {}
      BY <1>1, <2>1, <2>2 DEF NewLikes
    <3>2. ASSUME NEW a \in M!Authors
          PROVE  Cardinality(NewLikes(a)') <= sent'[a]
      <4>1. sent'[a] \in 0..MaxSent
        BY <1>1, <2>1
      <4>2. Cardinality(NewLikes(a)') = 0
        BY <3>1, FS_EmptySet
      <4> QED
        BY <4>1, <4>2, NoticesAssumption
    <3> QED
      BY <1>4, <3>2
  <2>3. CASE k # Like
    <3>1. \A a : NewLikes(a)' = NewLikes(a)
      BY <1>1, <2>1, <2>3 DEF NewLikes
    <3> QED
      BY <1>3, <1>4, <2>1, <2>3, <3>1
  <2> QED
    BY <2>2, <2>3
<1>6. CASE UNCHANGED <<stored, asked, known, sent>>
  BY <1>3, <1>4, <1>6 DEF NewLikes
<1>7. ASSUME NEW k \in Kinds, NEW p \in Posts, M!Press(k, p)
      PROVE  M!LikesAnnounced'
  <2> SUFFICES ASSUME Like \notin asked, NEW a \in M!Authors
               PROVE  Cardinality(NewLikes(a)') <= sent'[a]
    BY <1>4, <1>7 DEF M!Press
  <2>1. Cardinality(NewLikes(a)) <= sent[a] /\ sent[a] \in Nat
    <3>1. Cardinality(NewLikes(a)) <= sent[a]
      BY <1>3
    <3>2. sent[a] \in 0..MaxSent
      BY <1>1
    <3> QED
      BY <3>1, <3>2, NoticesAssumption
  <2>2. CASE M!Notifies(k, p) /\ a = Author[p]
    <3>1. NewLikes(a)' \subseteq NewLikes(a) \cup {p}
      BY <1>1, <1>7, <2>2 DEF M!Press, M!Turned, M!Notifies, NewLikes, MarksInv, M!TypeOK
    <3>2. sent'[a] = sent[a] + 1
      BY <1>1, <1>7, <2>2 DEF M!Press, M!Told
    <3>3. /\ IsFiniteSet(NewLikes(a) \cup {p})
          /\ Cardinality(NewLikes(a) \cup {p}) <= Cardinality(NewLikes(a)) + 1
      <4> DEFINE L == NewLikes(a)
      <4>1. IsFiniteSet(L) /\ Cardinality(L) \in Nat
        BY <1>2
      <4> HIDE DEF L
      <4>2. IsFiniteSet(L \cup {p}) /\ Cardinality(L \cup {p}) <= Cardinality(L) + 1
        <5>1. /\ IsFiniteSet(L \cup {p})
              /\ Cardinality(L \cup {p}) = IF p \in L THEN Cardinality(L) ELSE Cardinality(L) + 1
          BY <4>1, FS_AddElement, Zenon
        <5>2. CASE p \in L
          BY <4>1, <5>1, <5>2
        <5>3. CASE p \notin L
          BY <4>1, <5>1, <5>3
        <5> QED
          BY <5>2, <5>3
      <4> QED
        BY <4>2 DEF L
    <3>4. /\ Cardinality(NewLikes(a)') <= Cardinality(NewLikes(a) \cup {p})
          /\ Cardinality(NewLikes(a) \cup {p}) \in Nat
      BY <3>1, <3>3, FS_Subset, FS_CardinalityType
    <3> QED
      BY <1>2, <2>1, <3>2, <3>3, <3>4
  <2>3. CASE ~(M!Notifies(k, p) /\ a = Author[p])
    <3>1. NewLikes(a)' \subseteq NewLikes(a)
      BY <1>1, <1>7, <2>3
      DEF M!Press, M!Turned, M!Notifies, M!TurnsOn, NewLikes, MarksInv, M!TypeOK
    <3>2. sent'[a] = sent[a]
      BY <1>1, <1>7, <2>3 DEF M!Press, M!Told
    <3>3. Cardinality(NewLikes(a)') <= Cardinality(NewLikes(a))
      BY <1>2, <3>1, FS_Subset
    <3> QED
      BY <1>2, <2>1, <3>2, <3>3
  <2> QED
    BY <2>2, <2>3
<1> QED
  BY <1>5, <1>6, <1>7 DEF M!Next, M!Reload, M!Scroll, M!Become, marks

-----------------------------------------------------------------------------
(* Both together. *)

\* A step of the whole is a step of each part, or leaves it alone.
LEMMA PartsStep ==
  ASSUME [SocialNext]_vars
  PROVE  [Next]_notice /\ [M!Next]_marks
<1>1. \A p \in Posts : Author[p] \in Users
  BY NoticesAssumption
<1>2. ASSUME NEW k \in Kinds, NEW p \in Posts, Press(k, p)
      PROVE  [Next]_notice /\ [M!Next]_marks
  BY <1>1, <1>2 DEF Press, Next, M!Next, M!Told
<1>3. ASSUME NEW p \in Posts, Comment(p)
      PROVE  [Next]_notice /\ UNCHANGED marks
  BY <1>1, <1>3 DEF Comment, Next
<1>4. CASE NewPost \/ Arrival \/ Screen
  BY <1>4 DEF NewPost, Arrival, Screen, Next
<1>5. CASE Buttons
  BY <1>5 DEF Buttons, M!Next
<1>6. CASE UNCHANGED vars
  BY <1>6 DEF vars
<1> QED
  BY <1>2, <1>3, <1>4, <1>5, <1>6 DEF SocialNext

\* So what is proved of the notifications alone holds of the whole.
LEMMA ImplementsTab == SocialSpec => Spec
BY PartsStep, PTL DEF SocialSpec, SocialInit, Spec

\* What is written and what is read keep their types.
THEOREM SocialTypes == SocialSpec => []TypeOK
BY ImplementsTab, NoticeTypes, PTL

\* Listeners stay few while others like, comment and post.
THEOREM SocialListeners == SocialSpec => []ListenersBounded
BY ImplementsTab, ListenersStayFew, PTL

\* Nothing is missing once the tab has caught up with likes, comments and posts.
THEOREM SocialMissesNothing == SocialSpec => []NothingMissing
BY ImplementsTab, NothingIsMissing, PTL

\* The tab is a notice board on which likes, comments and posts are put up.
THEOREM SocialBoard == SocialSpec => BoardSpec
BY ImplementsTab, BoardHolds, PTL

\* The buttons keep their types, lie only as they did when they were read, and
\* no like since then goes unannounced.
THEOREM ButtonsHold == SocialSpec => [](ButtonsType /\ WrongButtonIsOld /\ LikesAnnounced)
<1>1. SocialInit => MarksInv /\ M!LikesAnnounced
  <2>1. M!Init => M!TypeOK
    BY NoticesAssumption DEF M!Init, M!TypeOK, M!Seat
  <2>2. M!Init => M!WrongButtonIsOld /\ M!LikesAnnounced
    BY NoticesAssumption DEF M!Init, M!WrongButtonIsOld, M!LikesAnnounced
  <2> QED
    BY <2>1, <2>2 DEF SocialInit, MarksInv
<1>2. ASSUME MarksInv, M!LikesAnnounced, [SocialNext]_vars
      PROVE  MarksInv' /\ M!LikesAnnounced'
  BY <1>2, PartsStep, MarksKeep, LikesKeep
<1>3. MarksInv /\ M!LikesAnnounced => ButtonsType /\ WrongButtonIsOld /\ LikesAnnounced
  BY DEF MarksInv, ButtonsType, WrongButtonIsOld, LikesAnnounced
<1> QED
  BY <1>1, <1>2, <1>3, PTL DEF SocialSpec

-----------------------------------------------------------------------------
(* From a like to the row that tells of it. *)

SentBy(a) == {n \in DOMAIN notes : notes[n].to = a}

\* Every notification Marks counts was written.
SentInv == \A a \in M!Authors : sent[a] <= Cardinality(SentBy(a))

LEMMA SentByFinite ==
  ASSUME TypeOK, NEW a
  PROVE  IsFiniteSet(SentBy(a)) /\ Cardinality(SentBy(a)) \in Nat
<1>1. IsFiniteSet(DOMAIN notes)
  <2>1. Len(notes) \in Nat /\ DOMAIN notes = 1..Len(notes)
    BY LenProperties DEF TypeOK
  <2> QED
    BY <2>1, FS_Interval
<1>2. SentBy(a) \in SUBSET (DOMAIN notes)
  BY DEF SentBy
<1> QED
  BY <1>1, <1>2, FS_Subset, FS_CardinalityType

LEMMA SentByPrimed ==
  ASSUME TypeOK'
  PROVE  \A a : IsFiniteSet(SentBy(a)') /\ Cardinality(SentBy(a)') \in Nat
<1> TAKE a
<1>1. IsFiniteSet(DOMAIN notes')
  <2>1. Len(notes') \in Nat /\ DOMAIN notes' = 1..Len(notes')
    BY LenProperties DEF TypeOK
  <2> QED
    BY <2>1, FS_Interval
<1>2. SentBy(a)' \in SUBSET (DOMAIN notes')
  BY DEF SentBy
<1> QED
  BY <1>1, <1>2, FS_Subset, FS_CardinalityType

LEMMA SentByGrows ==
  ASSUME TypeOK, NEW to \in Users \cup {All}, NEW named \in BOOLEAN, Notify(to, named), TypeOK'
  PROVE  /\ \A a : Cardinality(SentBy(a)) <= Cardinality(SentBy(a)')
         /\ Cardinality(SentBy(to)) + 1 <= Cardinality(SentBy(to)')
<1>1. notes' = Append(notes, [to |-> to, named |-> named])
  BY DEF Notify
<1>2. /\ Len(notes) \in Nat /\ DOMAIN notes = 1..Len(notes)
      /\ DOMAIN notes' = 1..Len(notes) + 1
      /\ \A n \in 1..Len(notes) : notes'[n] = notes[n]
      /\ notes'[Len(notes) + 1].to = to
  BY <1>1, AppendProperties, LenProperties DEF TypeOK, Note
<1>3. \A a : SentBy(a) \subseteq SentBy(a)'
  BY <1>2 DEF SentBy
<1>4. \A a : IsFiniteSet(SentBy(a)') /\ Cardinality(SentBy(a)') \in Nat
  BY SentByPrimed
<1>5. Len(notes) + 1 \in SentBy(to)' /\ Len(notes) + 1 \notin SentBy(to)
  BY <1>2 DEF SentBy
<1>6. Cardinality(SentBy(to)) + 1 <= Cardinality(SentBy(to)')
  <2> DEFINE L == SentBy(to)
             G == SentBy(to)'
             x == Len(notes) + 1
  <2>1. IsFiniteSet(L) /\ Cardinality(L) \in Nat /\ IsFiniteSet(G) /\ L \cup {x} \in SUBSET G /\ x \notin L
    BY <1>3, <1>4, <1>5, SentByFinite
  <2> HIDE DEF L, G, x
  <2>2. IsFiniteSet(L \cup {x}) /\ Cardinality(L \cup {x}) = Cardinality(L) + 1
    BY <2>1, FS_AddElement
  <2>3. Cardinality(L \cup {x}) <= Cardinality(G)
    BY <2>1, FS_Subset
  <2>4. Cardinality(L) + 1 <= Cardinality(G)
    BY <2>2, <2>3
  <2> QED
    BY <2>4 DEF L, G
<1>7. \A a : Cardinality(SentBy(a)) <= Cardinality(SentBy(a)')
  BY <1>3, <1>4, FS_Subset
<1> QED
  BY <1>6, <1>7

LEMMA SentKeep ==
  ASSUME TypeOK, TypeOK', MarksInv, SentInv, [SocialNext]_vars
  PROVE  SentInv'
<1>1. /\ sent \in [M!Authors -> 0..MaxSent] /\ MaxSent \in Nat
      /\ \A p \in Posts : Author[p] \in Users
      /\ \A a : Cardinality(SentBy(a)) \in Nat
  BY NoticesAssumption, SentByFinite DEF MarksInv, M!TypeOK
<1>2. ASSUME UNCHANGED sent, NEW to \in Users \cup {All}, NEW named \in BOOLEAN, Notify(to, named)
      PROVE  SentInv'
  <2>1. /\ \A a : Cardinality(SentBy(a)) <= Cardinality(SentBy(a)')
    BY <1>2, SentByGrows
  <2>2. \A a : Cardinality(SentBy(a)') \in Nat
    BY SentByPrimed
  <2>3. ASSUME NEW a \in M!Authors
        PROVE  sent[a] <= Cardinality(SentBy(a)')
    <3>1. sent[a] <= Cardinality(SentBy(a)) /\ sent[a] \in Nat
      BY <1>1 DEF SentInv
    <3> QED
      BY <1>1, <2>1, <2>2, <3>1
  <2> QED
    BY <1>2, <2>3 DEF SentInv, M!Authors
<1>3. ASSUME NEW k \in Kinds, NEW p \in Posts, Press(k, p)
      PROVE  SentInv'
  <2>1. CASE ~M!Notifies(k, p)
    BY <1>3, <2>1 DEF Press, M!Press, SentInv, SentBy, M!Authors, notice
  <2>2. CASE M!Notifies(k, p)
    <3>1. PICK named \in BOOLEAN : Notify(Author[p], named)
      BY <1>3, <2>2 DEF Press, M!Told
    <3>2. sent' = [sent EXCEPT ![Author[p]] = sent[Author[p]] + 1]
      BY <1>3, <2>2 DEF Press, M!Press, M!Told
    <3>3. /\ \A a : Cardinality(SentBy(a)) <= Cardinality(SentBy(a)')
          /\ Cardinality(SentBy(Author[p])) + 1 <= Cardinality(SentBy(Author[p])')
      BY <1>1, <3>1, SentByGrows
    <3>4. \A a : Cardinality(SentBy(a)') \in Nat
      BY SentByPrimed
    <3>5. ASSUME NEW a \in M!Authors
          PROVE  sent'[a] <= Cardinality(SentBy(a)')
      <4>1. sent[a] <= Cardinality(SentBy(a)) /\ sent[a] \in Nat /\ Cardinality(SentBy(a)) \in Nat
            /\ Cardinality(SentBy(a)') \in Nat
        BY <1>1, <3>4 DEF SentInv
      <4>2. CASE a = Author[p]
        <5>1. sent'[a] = sent[a] + 1 /\ Cardinality(SentBy(a)) + 1 <= Cardinality(SentBy(a)')
          BY <1>1, <3>2, <3>3, <4>2
        <5> QED
          BY <4>1, <5>1
      <4>3. CASE a # Author[p]
        <5>1. sent'[a] = sent[a] /\ Cardinality(SentBy(a)) <= Cardinality(SentBy(a)')
          BY <1>1, <3>2, <3>3, <4>3
        <5> QED
          BY <4>1, <5>1
      <4> QED
        BY <4>2, <4>3
    <3> QED
      BY <3>5 DEF SentInv, M!Authors
  <2> QED
    BY <2>1, <2>2
<1>4. ASSUME NEW p \in Posts, Comment(p) PROVE SentInv'
  BY <1>1, <1>2, <1>4 DEF Comment, marks
<1>5. CASE NewPost
  BY <1>2, <1>5 DEF NewPost, marks
<1>6. ASSUME UNCHANGED <<notes, sent>> PROVE SentInv'
  BY <1>6 DEF SentInv, SentBy, M!Authors
<1>7. CASE Arrival \/ Buttons \/ Screen \/ UNCHANGED vars
  <2>1. UNCHANGED <<notes, sent>>
    BY <1>7 DEF Arrival, Arrive, Buttons, M!Answer, M!Reload, M!Scroll, M!Become, Screen, ScreenStep, ShowTab,
       Callback, AllCalled, ManagersCalled, MineCalled, Traps, Relaunch, marks, vars, notice
  <2> QED
    BY <1>6, <2>1
<1> QED
  BY <1>3, <1>4, <1>5, <1>7 DEF SocialNext

\* Every like stored since the marks were read has its row once everything has
\* arrived and the author's screen has caught up.
THEOREM LikesReachAuthor == SocialSpec => []LikesReach
<1>1. SocialInit => SentInv
  <2> SUFFICES ASSUME SocialInit, NEW a \in M!Authors PROVE sent[a] <= Cardinality(SentBy(a))
    BY DEF SentInv
  <2>1. sent[a] = 0 /\ notes = <<>>
    BY DEF SocialInit, M!Init, Init
  <2>2. SentBy(a) = {}
    BY <2>1 DEF SentBy
  <2> QED
    BY <2>1, <2>2, FS_EmptySet
<1>2. SocialSpec => []MarksInv
  <2>1. SocialInit => MarksInv
    BY NoticesAssumption DEF SocialInit, M!Init, MarksInv, M!TypeOK, M!Seat,
       M!WrongButtonIsOld
  <2>2. MarksInv /\ [SocialNext]_vars => MarksInv'
    BY PartsStep, MarksKeep
  <2> QED
    BY <2>1, <2>2, PTL DEF SocialSpec
<1>3. TypeOK /\ TypeOK' /\ MarksInv /\ SentInv /\ [SocialNext]_vars => SentInv'
  BY SentKeep
<1>4. SocialSpec => []SentInv
  BY <1>1, <1>2, <1>3, SocialTypes, PTL DEF SocialSpec
<1>5. ASSUME TypeOK, MarksInv, SentInv, NothingMissing, LikesAnnounced
      PROVE  LikesReach
  <2> SUFFICES ASSUME CaughtUp, live = DOMAIN notes, Like \notin asked
               PROVE  Cardinality(NewLikes(Me))
                        <= Cardinality({n \in DOMAIN notes : notes[n].to = Me /\ rows[n] > 0})
    BY DEF LikesReach, NewLikes
  <2>1. {n \in DOMAIN notes : notes[n].to = Me /\ rows[n] > 0} = SentBy(Me)
    BY <1>5 DEF NothingMissing, ForMe, SentBy
  <2>2. Cardinality(SentBy(Me)) \in Nat
    BY <1>5, SentByFinite
  <2>3. /\ stored[Like] \subseteq Posts /\ sent \in [M!Authors -> 0..MaxSent] /\ MaxSent \in Nat
    BY <1>5, NoticesAssumption DEF MarksInv, M!TypeOK
  <2>4. CASE Me \in M!Authors
    <3>1. Cardinality(NewLikes(Me)) <= sent[Me]
      BY <1>5, <2>4, SameCount DEF LikesAnnounced, M!LikesAnnounced, NewLikes
    <3>2. sent[Me] <= Cardinality(SentBy(Me)) /\ sent[Me] \in Nat
      BY <1>5, <2>3, <2>4 DEF SentInv
    <3>3. Cardinality(NewLikes(Me)) \in Nat
      <4>1. NewLikes(Me) \in SUBSET Posts
        BY <2>3 DEF NewLikes
      <4> QED
        BY <4>1, NoticesAssumption, FS_Subset, FS_CardinalityType
    <3> QED
      BY <2>1, <2>2, <3>1, <3>2, <3>3
  <2>5. CASE Me \notin M!Authors
    <3>1. NewLikes(Me) = {}
      BY <2>3, <2>5 DEF NewLikes, M!Authors
    <3>2. Cardinality(NewLikes(Me)) = 0
      BY <3>1, FS_EmptySet
    <3> QED
      BY <2>1, <2>2, <3>2
  <2> QED
    BY <2>4, <2>5
<1> QED
  BY <1>2, <1>4, <1>5, SocialTypes, SocialMissesNothing, ButtonsHold, PTL
=============================================================================
