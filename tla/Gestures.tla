------------------------------ MODULE Gestures ------------------------------
(***************************************************************************)
(* The fingers on the augmented-reality view and the gesture they make     *)
(* (Gesture, MainViewController's touch handlers).  A gesture is updated   *)
(* by every touch event and by a timer of its own, and keeps the object    *)
(* that was selected when it began; a load that finishes its choice on     *)
(* another queue can select a new one at any moment.                       *)
(*                                                                         *)
(* Positions are left out: a movement is how far it is from where the      *)
(* gesture began, a hit test is a choice.  Objects are numbered in the     *)
(* order they are selected; 0 is none.                                     *)
(***************************************************************************)
EXTENDS Naturals

CONSTANTS
  Fingers,
  None,       \* no gesture
  MaxObjects  \* bound: objects selected

Kinds == {"translate", "rotate", "scale"}

\* How far a movement is: below the threshold, beyond it, beyond the harder one.
Levels == [Kinds -> {"near", "far", "farther"}]

SingleFinger == [kind : {"single"}, touches : SUBSET Fingers, object : 1..MaxObjects,
                 passed : BOOLEAN, onObject : BOOLEAN]

\* easy are the kinds that passed when only their lower threshold was reached.
TwoFinger == [kind : {"two"}, touches : SUBSET Fingers, object : 1..MaxObjects,
              allowed : SUBSET Kinds, passed : SUBSET Kinds, easy : SUBSET Kinds]

ASSUME GesturesAssumption ==
  /\ MaxObjects \in Nat \ {0}
  /\ None \notin SingleFinger \cup TwoFinger

VARIABLES
  selected,  \* virtualObjectSelected
  gesture,   \* currentGesture
  timers,    \* refresh timers running
  down,      \* fingers on the view
  before,    \* those of them that were there when the object was selected
  movers,    \* those of them that have moved an object
  tapped     \* the finger whose lifting, in the last step, teleported the object

vars == <<selected, gesture, timers, down, before, movers, tapped>>

-----------------------------------------------------------------------------
One(T) == \E f \in T : T = {f}
Two(T) == \E f, g \in T : f # g /\ T = {f, g}

\* The gestures that may begin with the touches T; the hit test and the pinch
\* setting are open.
Begun(T, o) ==
  IF One(T)
  THEN {[kind |-> "single", touches |-> T, object |-> o, passed |-> FALSE, onObject |-> h]
          : h \in BOOLEAN}
  ELSE IF Two(T)
  THEN {[kind |-> "two", touches |-> T, object |-> o, passed |-> {}, easy |-> {},
         allowed |-> a] : a \in {{}, {"translate", "rotate"}, {"scale"}, Kinds}}
  ELSE {None}

Ticking(g) == IF g = None THEN 0 ELSE 1

Fits(g, T) == IF g.kind = "single" THEN One(T) ELSE Two(T)

\* A kind passes its threshold, the harder one if another has passed before.
Passes(k, g, levels) ==
  /\ k \in g.allowed
  /\ \/ levels[k] = "farther"
     \/ levels[k] = "far" /\ g.passed \subseteq {k}

Pass(k, g, levels) ==
  IF k \notin g.passed /\ Passes(k, g, levels)
  THEN [g EXCEPT !.passed = @ \cup {k}, !.easy = IF levels[k] = "far" THEN @ \cup {k} ELSE @]
  ELSE g

\* updateGesture, with the fingers where they are now.
Updated(g, levels) ==
  IF g.kind = "single"
  THEN [g EXCEPT !.passed = @ \/ levels["translate"] # "near"]
  ELSE Pass("scale", Pass("rotate", Pass("translate", g, levels), levels), levels)

Moves(g) == IF g.kind = "single" THEN g.passed /\ g.onObject ELSE g.passed # {}

\* The touches of a gesture that moves its object; gone are the fingers lifted.
Update(g, gone) ==
  \E levels \in Levels :
    /\ gesture' = Updated(g, levels)
    /\ movers' = (movers \cup (IF Moves(gesture') THEN g.touches ELSE {})) \ gone
    /\ tapped' = {}
    /\ UNCHANGED timers

Init ==
  /\ selected = 0
  /\ gesture = None
  /\ timers = 0
  /\ down = {} /\ before = {} /\ movers = {} /\ tapped = {}

-----------------------------------------------------------------------------
\* Mutant: a lifted finger leaves the other one a gesture.
FollowingOne(g, T) == Begun(T, g.object)

\* What follows a gesture whose touches have become T.
Following(g, T) == IF g.kind = "single" THEN Begun(T, g.object) ELSE {None}

\* Mutant: a drag ends like a tap.
TapsAnyway(g, T) == IF g.kind = "single" /\ T = {} THEN {{}, g.touches} ELSE {{}}

\* finishGesture: a tap that stayed near may teleport the object.
Taps(g, T) == IF g.kind = "single" /\ T = {} /\ ~g.passed THEN {{}, g.touches} ELSE {{}}

Finish(g, T) ==
  /\ gesture' \in Following(g, T)
  /\ tapped' \in Taps(g, T)
  /\ timers' = (timers - 1) + Ticking(gesture')

\* updateGestureFromTouches, the gesture's touches having become T; gone are
\* the fingers lifted.
Feed(T, gone) ==
  IF Fits(gesture, T)
  THEN Update([gesture EXCEPT !.touches = T], gone)
  ELSE /\ Finish(gesture, T)
       /\ movers' = movers \ gone

\* Fingers come down together.
Began(F) ==
  /\ F \subseteq Fingers \ down /\ F # {}
  /\ down' = down \cup F
  /\ IF selected = 0
     THEN tapped' = {} /\ UNCHANGED <<gesture, timers, movers>>
     ELSE IF gesture = None
     THEN /\ gesture' \in Begun(F, selected)
          /\ timers' = timers + Ticking(gesture')
          /\ tapped' = {}
          /\ UNCHANGED movers
     ELSE Feed(gesture.touches \cup F, {})
  /\ UNCHANGED <<selected, before>>

\* Fingers move; nothing else than the gesture takes notice.
Moved(F) ==
  /\ F \subseteq down /\ F # {}
  /\ selected # 0 /\ gesture # None
  /\ Feed(gesture.touches \cup F, {})
  /\ UNCHANGED <<selected, down, before>>

\* Mutant: a cancelled touch is not passed on.
EndedUnseen(F) ==
  /\ F \subseteq down /\ F # {}
  /\ down' = down \ F
  /\ before' = before \ F
  /\ movers' = movers \ F
  /\ tapped' = {}
  /\ UNCHANGED <<selected, gesture, timers>>

\* Fingers are lifted or taken away by the system.  Without an object
\* touchesEnded only asks for the chooser.
Ended(F) ==
  /\ F \subseteq down /\ F # {}
  /\ down' = down \ F
  /\ before' = before \ F
  /\ IF selected = 0 \/ gesture = None
     THEN /\ movers' = movers \ F
          /\ tapped' = {}
          /\ UNCHANGED <<gesture, timers>>
     ELSE Feed(gesture.touches \ F, F)
  /\ UNCHANGED selected

\* refreshCurrentGesture.
Tick ==
  /\ gesture # None
  /\ Update(gesture, {})
  /\ UNCHANGED <<selected, down, before>>

\* A load selects its object from the global queue.
Select ==
  /\ selected < MaxObjects
  /\ selected' = selected + 1
  /\ before' = down
  /\ tapped' = {}
  /\ UNCHANGED <<gesture, timers, down, movers>>

-----------------------------------------------------------------------------
Next ==
  \/ \E F \in SUBSET Fingers : Began(F) \/ Moved(F) \/ Ended(F)
  \/ Tick
  \/ Select

Spec == Init /\ [][Next]_vars

-----------------------------------------------------------------------------
TypeOK ==
  /\ selected \in 0..MaxObjects
  /\ gesture \in SingleFinger \cup TwoFinger \cup {None}
  /\ timers \in Nat
  /\ before \subseteq down /\ movers \subseteq down /\ down \subseteq Fingers
  /\ tapped \subseteq Fingers

\* A gesture has as many touches as its kind reads, and all of them are fingers
\* on the view: with fewer its timer would trap, with a lifted one it would wait
\* for ever (updateGestureFromTouches, updateGesture, touchesEnded).
TouchesFit ==
  gesture # None => Fits(gesture, gesture.touches) /\ gesture.touches \subseteq down

\* No timer outlives its gesture, and no gesture goes without one, however
\* gestures follow each other (refreshTimer).
OneTimer == timers = Ticking(gesture)

\* A gesture acts on an object that is no longer selected only with a finger
\* that was down when the other was selected; it can hand the old object on to
\* one more gesture, and not beyond (startGestureFromTouches).
OldObjectOldFinger ==
  gesture # None /\ gesture.object # selected => gesture.touches \cap before # {}

\* One kind at most passes with only the lower of its thresholds reached, in whatever order
\* and however often the three are tested (updateTranslation, updateRotation,
\* updateScaling).
OneEasy ==
  gesture # None /\ gesture.kind = "two" =>
    \A j, k \in gesture.easy : j = k

\* A finger that has moved an object, by itself or with another, does not
\* teleport it when it leaves (finishGesture).
NoTapAfterMove == [][tapped' \cap movers = {}]_vars
=============================================================================
