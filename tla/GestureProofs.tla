--------------------------- MODULE GestureProofs ----------------------------
(***************************************************************************)
(* What holds of the gestures whatever the fingers, however many objects   *)
(* are selected meanwhile.                                                 *)
(*                                                                         *)
(* Every touch event either feeds the gesture its new touches or begins    *)
(* one.  One lemma says what feeding does; the cases of the induction      *)
(* differ only in how the new touches relate to the old ones.              *)
(***************************************************************************)
EXTENDS Gestures, TLAPS

Gesture == SingleFinger \cup TwoFinger

\* What passed on the lower threshold has passed, and is one kind at most.
Sound(g) ==
  g.kind = "two" => g.easy \subseteq g.passed /\ \A j, k \in g.easy : j = k

\* A kind that passes leaves a sound gesture, of the same fingers and object.
LEMMA PassKeeps ==
  ASSUME NEW k \in Kinds, NEW g \in TwoFinger, NEW levels, Sound(g)
  PROVE  /\ Pass(k, g, levels) \in TwoFinger /\ Sound(Pass(k, g, levels))
         /\ Pass(k, g, levels).touches = g.touches
         /\ Pass(k, g, levels).object = g.object
<1> DEFINE h == Pass(k, g, levels)
<1>1. CASE ~(k \notin g.passed /\ Passes(k, g, levels))
  BY <1>1 DEF Pass
<1>2. CASE k \notin g.passed /\ Passes(k, g, levels)
  <2> DEFINE p == g.passed \cup {k}
             e == IF levels[k] = "far" THEN g.easy \cup {k} ELSE g.easy
  <2>1. h = [g EXCEPT !.passed = p, !.easy = e]
    BY <1>2 DEF Pass
  <2>2. p \in SUBSET Kinds /\ e \in SUBSET Kinds
    BY DEF TwoFinger
  <2> HIDE DEF h, p, e
  <2>3. /\ h \in TwoFinger /\ h.touches = g.touches /\ h.object = g.object
        /\ h.passed = p /\ h.easy = e
    BY <2>1, <2>2 DEF TwoFinger
  <2>4. levels[k] = "far" => g.easy = {}
    BY <1>2 DEF Passes, Sound, TwoFinger
  <2>5. Sound(h)
    BY <2>3, <2>4 DEF Sound, TwoFinger, p, e
  <2> QED
    BY <2>3, <2>5 DEF h
<1> QED
  BY <1>1, <1>2

\* An update keeps a gesture's fingers and object.
LEMMA UpdatedKeeps ==
  ASSUME NEW g \in Gesture, NEW levels, Sound(g)
  PROVE  /\ Updated(g, levels) \in Gesture /\ Sound(Updated(g, levels))
         /\ Updated(g, levels).kind = g.kind
         /\ Updated(g, levels).touches = g.touches
         /\ Updated(g, levels).object = g.object
         /\ g.kind = "single" /\ g.passed => Updated(g, levels).passed
<1>1. CASE g \in SingleFinger
  <2>1. g.kind = "single"
    BY <1>1 DEF SingleFinger
  <2>2. Updated(g, levels) = [g EXCEPT !.passed = @ \/ levels["translate"] # "near"]
    BY <2>1 DEF Updated
  <2> QED
    BY <1>1, <2>1, <2>2 DEF SingleFinger, Gesture, Sound
<1>2. CASE g \in TwoFinger
  <2> DEFINE t == Pass("translate", g, levels)
             r == Pass("rotate", t, levels)
             s == Pass("scale", r, levels)
  <2>1. t \in TwoFinger /\ Sound(t) /\ t.touches = g.touches /\ t.object = g.object
    BY <1>2, PassKeeps DEF Kinds
  <2> HIDE DEF t
  <2>2. r \in TwoFinger /\ Sound(r) /\ r.touches = g.touches /\ r.object = g.object
    BY <2>1, PassKeeps DEF Kinds
  <2> HIDE DEF r
  <2>3. s \in TwoFinger /\ Sound(s) /\ s.touches = g.touches /\ s.object = g.object
    BY <2>2, PassKeeps DEF Kinds
  <2> HIDE DEF s
  <2>4. g.kind = "two" /\ s.kind = "two"
    BY <1>2, <2>3 DEF TwoFinger
  <2>5. Updated(g, levels) = s
    BY <2>4 DEF Updated, t, r, s
  <2> QED
    BY <2>3, <2>4, <2>5 DEF Gesture
<1> QED
  BY <1>1, <1>2 DEF Gesture

\* What begins fits the touches and has passed nothing.
LEMMA BegunGood ==
  ASSUME NEW T \in SUBSET Fingers, NEW o \in 1..MaxObjects, NEW h \in Begun(T, o), h # None
  PROVE  /\ h \in Gesture /\ Sound(h) /\ Fits(h, T)
         /\ h.touches = T /\ h.object = o
         /\ h.kind = "single" => One(T) /\ ~h.passed
<1>1. CASE One(T)
  <2>1. PICK b \in BOOLEAN : h = [kind |-> "single", touches |-> T, object |-> o,
                                  passed |-> FALSE, onObject |-> b]
    BY <1>1 DEF Begun
  <2>2. h \in SingleFinger
    BY <2>1 DEF SingleFinger
  <2> QED
    BY <1>1, <2>1, <2>2 DEF Gesture, Sound, Fits
<1>2. CASE ~One(T)
  <2>1. Two(T)
    BY <1>2 DEF Begun
  <2>2. PICK a \in {{}, {"translate", "rotate"}, {"scale"}, Kinds} :
          h = [kind |-> "two", touches |-> T, object |-> o, passed |-> {}, easy |-> {},
               allowed |-> a]
    BY <1>2, <2>1 DEF Begun
  <2>3. h \in TwoFinger
    BY <2>2 DEF TwoFinger, Kinds
  <2> QED
    BY <2>1, <2>2, <2>3 DEF Gesture, Sound, Fits
<1> QED
  BY <1>1, <1>2

-----------------------------------------------------------------------------
\* A finger that has moved an object keeps no gesture that could still be a tap.
NoMover ==
  gesture # None /\ gesture.kind = "single" /\ ~gesture.passed =>
    gesture.touches \cap movers = {}

GestureInv ==
  /\ TypeOK /\ TouchesFit /\ OneTimer /\ OldObjectOldFinger
  /\ gesture # None => Sound(gesture) /\ selected # 0
  /\ NoMover

\* What a gesture is after a step in which its touches have become T.
Fed(T) ==
  gesture' # None =>
    /\ gesture' \in Gesture /\ Sound(gesture') /\ Fits(gesture', T)
    /\ gesture'.touches = T /\ gesture'.object = gesture.object
    /\ gesture'.kind = "single" /\ ~gesture'.passed => T \cap movers' = {}
    /\ T \subseteq gesture.touches => T = gesture.touches

\* A gesture keeps its touches, gains some or loses some.
LEMMA FedWell ==
  ASSUME GestureInv, gesture # None, NEW T \in SUBSET Fingers, NEW gone, Feed(T, gone),
         T \subseteq gesture.touches \/ gesture.touches \subseteq T
  PROVE  /\ Fed(T) /\ timers' = Ticking(gesture')
         /\ movers' \subseteq (movers \cup T) \ gone
         /\ tapped' \subseteq gesture.touches /\ tapped' \cap movers = {}
<1> USE GesturesAssumption DEF GesturesAssumption
<1>1. /\ gesture \in Gesture /\ Sound(gesture) /\ Fits(gesture, gesture.touches)
      /\ timers = 1 /\ gesture.object \in 1..MaxObjects
  BY DEF GestureInv, TypeOK, TouchesFit, OneTimer, Ticking, Gesture, SingleFinger, TwoFinger
<1>2. CASE Fits(gesture, T)
  <2> DEFINE g == [gesture EXCEPT !.touches = T]
  <2>1. g \in Gesture /\ g.kind = gesture.kind /\ g.touches = T /\ g.object = gesture.object
    BY <1>1 DEF Gesture, SingleFinger, TwoFinger
  <2>2. Sound(g) /\ (g.kind = "single" => g.passed = gesture.passed)
    BY <1>1 DEF Gesture, SingleFinger, TwoFinger, Sound
  <2>3. T = gesture.touches
    BY <1>1, <1>2 DEF Fits, One, Two
  <2>4. Update(g, gone)
    BY <1>2 DEF Feed
  <2> HIDE DEF g
  <2>5. PICK levels \in Levels :
          /\ gesture' = Updated(g, levels)
          /\ movers' = (movers \cup (IF Moves(gesture') THEN g.touches ELSE {})) \ gone
          /\ tapped' = {} /\ timers' = timers
    BY <2>4 DEF Update
  <2>6. /\ gesture' \in Gesture /\ Sound(gesture') /\ gesture'.kind = gesture.kind
        /\ gesture'.touches = T /\ gesture'.object = gesture.object
        /\ gesture.kind = "single" /\ gesture.passed => gesture'.passed
    BY <2>1, <2>2, <2>5, UpdatedKeeps
  <2>7. gesture' # None
    BY <2>6 DEF Gesture
  <2>8. ASSUME gesture'.kind = "single", ~gesture'.passed PROVE T \cap movers' = {}
    <3>1. ~Moves(gesture')
      BY <2>8 DEF Moves
    <3>2. gesture.touches \cap movers = {}
      BY <2>6, <2>8 DEF GestureInv, NoMover
    <3> QED
      BY <2>3, <2>5, <3>1, <3>2
  <2>9. Fed(T)
    BY <1>2, <2>3, <2>6, <2>8 DEF Fed, Fits
  <2> QED
    BY <1>1, <2>1, <2>5, <2>7, <2>9 DEF Ticking
<1>3. CASE ~Fits(gesture, T)
  <2>1. Finish(gesture, T) /\ movers' = movers \ gone
    BY <1>3 DEF Feed
  <2>2. ASSUME gesture' # None
        PROVE  gesture.kind = "single" /\ gesture' \in Begun(T, gesture.object)
    BY <2>1, <2>2 DEF Finish, Following
  <2>3. ASSUME gesture' # None PROVE ~One(T)
    BY <1>3, <2>2, <2>3 DEF Fits
  <2>4. ASSUME gesture' # None
        PROVE  /\ gesture' \in Gesture /\ Sound(gesture') /\ Fits(gesture', T)
               /\ gesture'.touches = T /\ gesture'.object = gesture.object
               /\ gesture'.kind # "single"
    BY <1>1, <2>2, <2>3, <2>4, BegunGood
  <2>5. ASSUME gesture' # None PROVE ~(T \subseteq gesture.touches)
    <3>1. Two(T) /\ One(gesture.touches)
      BY <1>1, <2>2, <2>3, <2>5 DEF Begun, Fits
    <3> QED
      BY <3>1 DEF One, Two
  <2>6. tapped' \subseteq gesture.touches /\ tapped' \cap movers = {}
    <3>1. CASE tapped' = {}
      BY <3>1
    <3>2. CASE tapped' = gesture.touches /\ gesture.kind = "single" /\ ~gesture.passed
      BY <3>2 DEF GestureInv, NoMover
    <3> QED
      BY <2>1, <3>1, <3>2 DEF Finish, Taps
  <2>7. timers' = Ticking(gesture')
    BY <1>1, <2>1 DEF Finish, Ticking
  <2>8. Fed(T)
    BY <2>4, <2>5 DEF Fed
  <2> QED
    BY <2>1, <2>6, <2>7, <2>8
<1> QED
  BY <1>2, <1>3

-----------------------------------------------------------------------------
\* A gesture that was fed, of fingers on the view, keeps the invariant.
LEMMA FedKeeps ==
  ASSUME GestureInv, gesture # None, NEW T \in SUBSET Fingers, NEW gone,
         Feed(T, gone), T \subseteq gesture.touches \/ gesture.touches \subseteq T,
         UNCHANGED selected, T \subseteq down', down' \subseteq Fingers,
         before' \subseteq down', movers \ gone \subseteq down', gone \cap T = {},
         T \subseteq gesture.touches => before' = before \ gone,
         ~(T \subseteq gesture.touches) => before' = before
  PROVE  GestureInv'
<1>1. /\ Fed(T) /\ timers' = Ticking(gesture')
      /\ movers' \subseteq (movers \cup T) \ gone
      /\ tapped' \subseteq gesture.touches
  BY FedWell
<1>2. gesture.touches \in SUBSET Fingers
  BY DEF GestureInv, TypeOK, SingleFinger, TwoFinger
<1>3. TypeOK'
  <2>1. gesture' \in SingleFinger \cup TwoFinger \cup {None}
    BY <1>1 DEF Fed, Gesture
  <2>2. timers' \in Nat
    BY <1>1 DEF Ticking
  <2>3. movers' \subseteq down'
    BY <1>1
  <2> QED
    BY <1>1, <1>2, <2>1, <2>2, <2>3 DEF GestureInv, TypeOK
<1>4. TouchesFit'
  BY <1>1 DEF Fed, TouchesFit
<1>5. OneTimer'
  BY <1>1 DEF OneTimer
<1>6. OldObjectOldFinger'
  <2> SUFFICES ASSUME gesture' # None, gesture'.object # selected
               PROVE  gesture'.touches \cap before' # {}
    BY DEF OldObjectOldFinger
  <2>1. gesture'.touches = T /\ gesture.touches \cap before # {}
    BY <1>1 DEF Fed, GestureInv, OldObjectOldFinger
  <2>2. CASE T \subseteq gesture.touches
    BY <1>1, <2>1, <2>2 DEF Fed
  <2>3. CASE ~(T \subseteq gesture.touches)
    BY <2>1, <2>3
  <2> QED
    BY <2>2, <2>3
<1>7. (gesture # None => Sound(gesture) /\ selected # 0)'
  BY <1>1 DEF Fed, Sound, GestureInv
<1>8. NoMover'
  BY <1>1 DEF Fed, NoMover
<1> QED
  BY <1>3, <1>4, <1>5, <1>6, <1>7, <1>8 DEF GestureInv

\* Fingers come down.
LEMMA BeganKeeps ==
  ASSUME GestureInv, NEW F \in SUBSET Fingers, Began(F)
  PROVE  GestureInv'
<1> USE GesturesAssumption DEF GesturesAssumption
<1>1. CASE selected = 0
  BY <1>1 DEF Began, GestureInv, TypeOK, TouchesFit, OneTimer, OldObjectOldFinger, Sound, NoMover
<1>2. CASE selected # 0 /\ gesture = None
  <2>1. selected \in 1..MaxObjects
    BY <1>2 DEF GestureInv, TypeOK
  <2>2. gesture' \in Begun(F, selected)
    BY <1>2 DEF Began
  <2>3. gesture' # None =>
          /\ gesture' \in Gesture /\ Sound(gesture') /\ Fits(gesture', F)
          /\ gesture'.touches = F /\ gesture'.object = selected
    BY <2>1, <2>2, BegunGood
  <2>4. /\ timers' = Ticking(gesture') /\ timers' \in Nat
        /\ movers' = movers /\ F \cap movers = {} /\ down' = down \cup F
        /\ before' = before /\ selected' = selected /\ tapped' = {}
    BY <1>2 DEF Began, GestureInv, TypeOK, OneTimer, Ticking
  <2>5. TypeOK'
    BY <2>3, <2>4 DEF GestureInv, TypeOK, Gesture
  <2>6. TouchesFit' /\ OneTimer' /\ OldObjectOldFinger' /\ NoMover'
    BY <2>3, <2>4 DEF TouchesFit, OneTimer, OldObjectOldFinger, NoMover
  <2>7. (gesture # None => Sound(gesture) /\ selected # 0)'
    BY <1>2, <2>3, <2>4 DEF Sound
  <2> QED
    BY <2>5, <2>6, <2>7 DEF GestureInv
<1>3. CASE selected # 0 /\ gesture # None
  <2>1. gesture.touches \in SUBSET Fingers /\ gesture.touches \subseteq down
    BY <1>3 DEF GestureInv, TypeOK, TouchesFit, SingleFinger, TwoFinger
  <2>2. Feed(gesture.touches \cup F, {}) /\ UNCHANGED <<selected, before>> /\ down' = down \cup F
    BY <1>3 DEF Began
  <2>3. before \subseteq down /\ movers \subseteq down /\ down \subseteq Fingers
    BY DEF GestureInv, TypeOK
  <2> QED
    BY <1>3, <2>1, <2>2, <2>3, FedKeeps
<1> QED
  BY <1>1, <1>2, <1>3

\* Fingers move.
LEMMA MovedKeeps ==
  ASSUME GestureInv, NEW F \in SUBSET Fingers, Moved(F)
  PROVE  GestureInv'
<1>1. gesture # None /\ F \subseteq down /\ UNCHANGED <<selected, down, before>>
      /\ Feed(gesture.touches \cup F, {})
  BY DEF Moved
<1>2. gesture.touches \in SUBSET Fingers /\ gesture.touches \subseteq down
  BY <1>1 DEF GestureInv, TypeOK, TouchesFit, SingleFinger, TwoFinger
<1>3. before \subseteq down /\ movers \subseteq down /\ down \subseteq Fingers
  BY DEF GestureInv, TypeOK
<1> QED
  BY <1>1, <1>2, <1>3, FedKeeps

\* Fingers are lifted.
LEMMA EndedKeeps ==
  ASSUME GestureInv, NEW F \in SUBSET Fingers, Ended(F)
  PROVE  GestureInv'
<1>1. /\ F \subseteq down /\ down' = down \ F /\ before' = before \ F /\ selected' = selected
      /\ before \subseteq down /\ movers \subseteq down /\ down \subseteq Fingers
  BY DEF Ended, GestureInv, TypeOK
<1>2. CASE gesture = None
  BY <1>1, <1>2 DEF Ended, GestureInv, TypeOK, TouchesFit, OneTimer, OldObjectOldFinger,
     NoMover, Sound
<1>3. CASE gesture # None
  <2>1. gesture.touches \in SUBSET Fingers /\ gesture.touches \subseteq down /\ selected # 0
    BY <1>3 DEF GestureInv, TypeOK, TouchesFit, SingleFinger, TwoFinger
  <2>2. Feed(gesture.touches \ F, F)
    BY <1>3, <2>1 DEF Ended
  <2> QED
    BY <1>1, <1>3, <2>1, <2>2, FedKeeps
<1> QED
  BY <1>2, <1>3

\* refreshCurrentGesture.
LEMMA TickKeeps ==
  ASSUME GestureInv, Tick
  PROVE  GestureInv'
<1>1. /\ gesture # None /\ UNCHANGED <<selected, down, before>> /\ Update(gesture, {})
      /\ before \subseteq down /\ movers \subseteq down /\ down \subseteq Fingers
  BY DEF Tick, GestureInv, TypeOK
<1>2. /\ gesture.touches \in SUBSET Fingers /\ gesture.touches \subseteq down
      /\ Fits(gesture, gesture.touches)
  BY <1>1 DEF GestureInv, TypeOK, TouchesFit, SingleFinger, TwoFinger
<1>3. [gesture EXCEPT !.touches = gesture.touches] = gesture
  BY <1>1 DEF GestureInv, TypeOK, SingleFinger, TwoFinger
<1>4. Feed(gesture.touches, {})
  BY <1>1, <1>2, <1>3 DEF Feed
<1> QED
  BY <1>1, <1>2, <1>4, FedKeeps

\* A load selects an object: the fingers on the view are those of before.
LEMMA SelectKeeps ==
  ASSUME GestureInv, Select
  PROVE  GestureInv'
<1> USE GesturesAssumption DEF GesturesAssumption
<1>1. /\ selected' = selected + 1 /\ selected' \in 1..MaxObjects /\ before' = down
      /\ tapped' = {} /\ UNCHANGED <<gesture, timers, down, movers>>
  BY DEF Select, GestureInv, TypeOK
<1>2. TypeOK' /\ TouchesFit' /\ OneTimer' /\ NoMover'
  BY <1>1 DEF GestureInv, TypeOK, TouchesFit, OneTimer, NoMover
<1>3. OldObjectOldFinger'
  BY <1>1 DEF GestureInv, TouchesFit, OldObjectOldFinger, Fits, One, Two
<1> QED
  BY <1>1, <1>2, <1>3 DEF GestureInv, Sound

\* The invariant holds throughout.
LEMMA GestureTypes == Spec => []GestureInv
<1> USE GesturesAssumption DEF GesturesAssumption
<1>1. Init => GestureInv
  BY DEF Init, GestureInv, TypeOK, TouchesFit, OneTimer, OldObjectOldFinger, NoMover, Ticking
<1>2. ASSUME GestureInv, [Next]_vars
      PROVE  GestureInv'
  <2>1. ASSUME NEW F \in SUBSET Fingers, Began(F) PROVE GestureInv'
    BY <1>2, <2>1, BeganKeeps
  <2>2. ASSUME NEW F \in SUBSET Fingers, Moved(F) PROVE GestureInv'
    BY <1>2, <2>2, MovedKeeps
  <2>3. ASSUME NEW F \in SUBSET Fingers, Ended(F) PROVE GestureInv'
    BY <1>2, <2>3, EndedKeeps
  <2>4. CASE Tick
    BY <1>2, <2>4, TickKeeps
  <2>5. CASE Select
    BY <1>2, <2>5, SelectKeeps
  <2>6. CASE UNCHANGED vars
    BY <1>2, <2>6 DEF vars, GestureInv, TypeOK, TouchesFit, OneTimer, OldObjectOldFinger,
       NoMover, Sound
  <2> QED
    BY <1>2, <2>1, <2>2, <2>3, <2>4, <2>5, <2>6 DEF Next
<1> QED
  BY <1>1, <1>2, PTL DEF Spec

-----------------------------------------------------------------------------
\* Every variable of the gestures keeps its type.
THEOREM GestureTypesHold == Spec => []TypeOK
<1>1. GestureInv => TypeOK
  BY DEF GestureInv
<1> QED
  BY <1>1, GestureTypes, PTL

\* A gesture has the touches it reads, all of them on the view (TouchesFit;
\* updateGestureFromTouches, touchesEnded).
THEOREM TouchesHold == Spec => []TouchesFit
<1>1. GestureInv => TouchesFit
  BY DEF GestureInv
<1> QED
  BY <1>1, GestureTypes, PTL

\* One timer for a gesture, none without (OneTimer; refreshTimer).
THEOREM TimerHolds == Spec => []OneTimer
<1>1. GestureInv => OneTimer
  BY DEF GestureInv
<1> QED
  BY <1>1, GestureTypes, PTL

\* An object that is no longer selected is moved only with a finger that was down
\* before (OldObjectOldFinger; startGestureFromTouches).
THEOREM OldObjectHolds == Spec => []OldObjectOldFinger
<1>1. GestureInv => OldObjectOldFinger
  BY DEF GestureInv
<1> QED
  BY <1>1, GestureTypes, PTL

\* One kind at most passes on its lower threshold (OneEasy; updateTranslation,
\* updateRotation, updateScaling).
THEOREM OneEasyHolds == Spec => []OneEasy
<1>1. GestureInv => OneEasy
  BY DEF GestureInv, OneEasy, Sound
<1> QED
  BY <1>1, GestureTypes, PTL

\* Who has moved an object does not teleport it on leaving (NoTapAfterMove;
\* finishGesture).
THEOREM NoTapHolds == Spec => NoTapAfterMove
<1>1. ASSUME GestureInv, [Next]_vars
      PROVE  [tapped' \cap movers = {}]_vars
  <2>1. ASSUME NEW F \in SUBSET Fingers, Began(F) PROVE tapped' \cap movers = {}
    <3>1. CASE selected = 0 \/ gesture = None
      BY <2>1, <3>1 DEF Began
    <3>2. CASE selected # 0 /\ gesture # None
      <4>1. gesture.touches \cup F \in SUBSET Fingers
        BY <1>1, <3>2 DEF GestureInv, TypeOK, SingleFinger, TwoFinger
      <4>2. Feed(gesture.touches \cup F, {})
        BY <2>1, <3>2 DEF Began
      <4> QED
        BY <1>1, <3>2, <4>1, <4>2, FedWell
    <3> QED
      BY <3>1, <3>2
  <2>2. ASSUME NEW F \in SUBSET Fingers, Moved(F) PROVE tapped' \cap movers = {}
    <3>1. gesture # None /\ Feed(gesture.touches \cup F, {})
      BY <2>2 DEF Moved
    <3>2. gesture.touches \cup F \in SUBSET Fingers
      BY <1>1, <3>1 DEF GestureInv, TypeOK, SingleFinger, TwoFinger
    <3> QED
      BY <1>1, <3>1, <3>2, FedWell
  <2>3. ASSUME NEW F \in SUBSET Fingers, Ended(F) PROVE tapped' \cap movers = {}
    <3>1. CASE selected = 0 \/ gesture = None
      BY <2>3, <3>1 DEF Ended
    <3>2. CASE selected # 0 /\ gesture # None
      <4>1. gesture.touches \ F \in SUBSET Fingers
        BY <1>1, <3>2 DEF GestureInv, TypeOK, SingleFinger, TwoFinger
      <4>2. Feed(gesture.touches \ F, F)
        BY <2>3, <3>2 DEF Ended
      <4> QED
        BY <1>1, <3>2, <4>1, <4>2, FedWell
    <3> QED
      BY <3>1, <3>2
  <2>4. CASE Tick
    BY <2>4 DEF Tick, Update
  <2>5. CASE Select
    BY <2>5 DEF Select
  <2> QED
    BY <1>1, <2>1, <2>2, <2>3, <2>4, <2>5 DEF Next
<1> QED
  BY <1>1, GestureTypes, PTL DEF Spec, NoTapAfterMove
=============================================================================
