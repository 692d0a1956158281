------------------------------- MODULE Scene --------------------------------
(***************************************************************************)
(* The augmented-reality tab (MainViewController, TextManager): loading    *)
(* and placing objects, alerts and hints, interruptions and restarts.      *)
(*                                                                         *)
(* Objects are loaded on a global queue while the main thread serves taps, *)
(* timers and the callbacks of the session, one at a time.  UIKit shows    *)
(* one thing over the scene, the chooser or an alert, and ignores a        *)
(* request to show another, or to show one over a tab that was left.       *)
(***************************************************************************)
EXTENDS Integers, FiniteSets

CONSTANTS
  Objects,      \* the objects chosen, each made when its row is tapped
  None,         \* nothing selected, nothing shown
  MaxRestarts   \* bound: restarts queued or still pausing the button

ASSUME SceneAssumption ==
  /\ None \notin Objects \cup {"chooser", "escalation", "interruption", "failure", "fatal"}
  /\ MaxRestarts \in Nat \ {0}

VARIABLES
  visible,         \* the tab is on the screen
  frame,           \* the session has delivered a camera frame
  interrupted,     \* the session is interrupted
  stage,           \* how far each object is
  selected,        \* virtualObjectSelected
  inScene,         \* the objects under the scene's root node
  isLoadingObject,
  presented,       \* what UIKit shows over the scene
  held,            \* alertController is what is shown
  blurred,         \* a blur lies over the scene
  blocked,         \* schedulingMessagesBlocked
  escalation,      \* the escalation timer runs
  hints,           \* the messages whose timers run
  restartOn,       \* restartExperienceButtonIsEnabled
  restarts,        \* restarts waiting on the main queue
  pauses           \* timers that will enable the restart button

session == <<visible, frame, interrupted>>
loading == <<stage, selected, inScene, isLoadingObject>>
alerts  == <<presented, held, blurred, blocked>>
timers  == <<escalation, hints>>
restart == <<restartOn, restarts, pauses>>
vars    == <<session, loading, alerts, timers, restart>>

-----------------------------------------------------------------------------
Stages == {"fresh", "queued", "loading", "loaded", "placed", "dropped"}
Alerts == {"escalation", "interruption", "failure", "fatal"}
Hints  == {"content", "focus", "plane"}

\* TextManager.showAlert: alertController is the new alert, shown or not.
Present(a) ==
  LET shows == visible /\ presented = None
  IN  /\ presented' = IF shows THEN a ELSE presented
      /\ held' = shows

\* TextManager.scheduleMessage, for each hint of H.
Schedule(H) == IF blocked THEN {} ELSE H

\* The guard of restartExperience.
MayRestart == restartOn /\ ~isLoadingObject

\* restartExperience: the restart itself is put on the main queue.
AskRestart ==
  /\ restarts + pauses < MaxRestarts
  /\ restarts' = IF MayRestart THEN restarts + 1 ELSE restarts
  /\ UNCHANGED <<restartOn, pauses>>

Init ==
  /\ visible = FALSE /\ frame = FALSE
  /\ interrupted = FALSE
  /\ stage = [o \in Objects |-> "fresh"]
  /\ selected = None /\ inScene = {} /\ isLoadingObject = FALSE
  /\ presented = None /\ held = FALSE /\ blurred = FALSE /\ blocked = FALSE
  /\ escalation = FALSE /\ hints = {"focus"}
  /\ restartOn = TRUE /\ restarts = 0 /\ pauses = 0

-----------------------------------------------------------------------------
(* The tab and the chooser. *)

ShowTab ==
  /\ ~visible
  /\ visible' = TRUE
  /\ hints' = hints \cup Schedule({"plane"})
  /\ UNCHANGED <<frame, interrupted, loading, alerts, escalation, restart>>

LeaveTab ==
  /\ visible /\ presented = None
  /\ visible' = FALSE
  /\ UNCHANGED <<frame, interrupted, loading, alerts, timers, restart>>

OpenChooser ==
  /\ visible /\ presented = None /\ ~isLoadingObject
  /\ hints' = hints \ {"content"}
  /\ presented' = "chooser"
  /\ UNCHANGED <<session, loading, held, blurred, blocked, escalation, restart>>

CloseChooser ==
  /\ presented = "chooser"
  /\ presented' = None
  /\ UNCHANGED <<session, loading, held, blurred, blocked, timers, restart>>

Choose(o) ==
  /\ presented = "chooser" /\ stage[o] = "fresh"
  /\ stage' = [stage EXCEPT ![o] = "queued"]
  /\ presented' = None
  /\ UNCHANGED <<session, selected, inScene, isLoadingObject, held, blurred, blocked,
                 timers, restart>>

-----------------------------------------------------------------------------
(* loadVirtualObject: a block on a global queue, then one on the main queue. *)

Begin(o) ==
  /\ stage[o] = "queued"
  /\ stage' = [stage EXCEPT ![o] = "loading"]
  /\ isLoadingObject' = TRUE
  /\ selected' = o
  /\ UNCHANGED <<session, inScene, alerts, timers, restart>>

\* loadModel has returned.
Loaded(o) ==
  /\ stage[o] = "loading"
  /\ stage' = [stage EXCEPT ![o] = "loaded"]
  /\ UNCHANGED <<session, selected, inScene, isLoadingObject, alerts, timers, restart>>

\* setNewVirtualObjectPosition: the selected object, once there is a frame.
Added == IF frame THEN inScene \cup {selected} ELSE inScene

\* Mutant: the early return skips the flag too.
KeptWithoutFrame == isLoadingObject /\ ~frame

\* isLoadingObject once an object was placed, or could not be.
FlagAfter == FALSE

\* Without a frame the early return of setNewVirtualObjectPosition keeps the
\* object out of the scene.
Place(o) ==
  /\ stage[o] = "loaded"
  /\ stage' = [stage EXCEPT ![o] = IF frame THEN "placed" ELSE "dropped"]
  /\ inScene' = Added
  /\ isLoadingObject' = FlagAfter
  /\ UNCHANGED <<session, selected, alerts, timers, restart>>

-----------------------------------------------------------------------------
(* Hints. *)

FrameArrives ==
  /\ visible /\ ~frame
  /\ frame' = TRUE
  /\ UNCHANGED <<visible, interrupted, loading, alerts, timers, restart>>

PlaneAdded ==
  /\ visible /\ frame
  /\ hints' = (hints \ {"plane"})
              \cup (IF selected = None THEN Schedule({"content"}) ELSE {})
  /\ UNCHANGED <<session, loading, alerts, escalation, restart>>

FocusFound ==
  /\ visible /\ frame /\ "focus" \in hints
  /\ hints' = hints \ {"focus"}
  /\ UNCHANGED <<session, loading, alerts, escalation, restart>>

HintShown(h) ==
  /\ h \in hints
  /\ hints' = hints \ {h}
  /\ UNCHANGED <<session, loading, alerts, escalation, restart>>

-----------------------------------------------------------------------------
(* The session's callbacks and the alerts. *)

\* The camera's tracking becomes normal or anything else; the reason of limited tracking
\* may change as well, so the state of before need not be kept.
TrackingChanged(normal) ==
  /\ visible
  /\ escalation' = ~normal
  /\ UNCHANGED <<session, loading, alerts, hints, restart>>

\* Mutant: the block is toggled.
EscalationToggles ==
  /\ escalation
  /\ escalation' = FALSE
  /\ blocked' = ~blocked
  /\ Present("escalation")
  /\ UNCHANGED <<session, loading, blurred, hints, restart>>

EscalationFires ==
  /\ escalation
  /\ escalation' = FALSE
  /\ blocked' = TRUE
  /\ Present("escalation")
  /\ UNCHANGED <<session, loading, blurred, hints, restart>>

\* "OK" and "Reset".
AnswerEscalation(reset) ==
  /\ presented = "escalation"
  /\ presented' = None /\ held' = FALSE
  /\ blocked' = FALSE
  /\ IF reset THEN AskRestart ELSE UNCHANGED restart
  /\ UNCHANGED <<session, loading, blurred, timers>>

Interrupted ==
  /\ visible /\ ~interrupted
  /\ interrupted' = TRUE
  /\ blurred' = TRUE
  /\ Present("interruption")
  /\ UNCHANGED <<visible, frame, loading, blocked, timers, restart>>

AnswerInterruption ==
  /\ presented = "interruption"
  /\ presented' = None /\ held' = FALSE
  /\ UNCHANGED <<session, loading, blurred, blocked, timers, restart>>

InterruptionEnded ==
  /\ interrupted
  /\ interrupted' = FALSE
  /\ blurred' = FALSE
  /\ AskRestart
  /\ UNCHANGED <<visible, frame, loading, presented, held, blocked, timers>>

\* Only a failure of world tracking can be recovered from; the alert of any
\* other has no button.
Failed(a) ==
  /\ visible /\ a \in {"failure", "fatal"}
  /\ blurred' = TRUE
  /\ Present(a)
  /\ UNCHANGED <<session, loading, blocked, timers, restart>>

AnswerFailure ==
  /\ presented = "failure"
  /\ presented' = None /\ held' = FALSE
  /\ blurred' = FALSE
  /\ AskRestart
  /\ UNCHANGED <<session, loading, blocked, timers>>

-----------------------------------------------------------------------------
(* Restarting. *)

RestartTapped ==
  /\ visible /\ presented = None
  /\ MayRestart
  /\ AskRestart
  /\ UNCHANGED <<session, loading, alerts, timers>>

\* Mutant: the pause is not ended if a load has begun.
TimerIfIdle == IF isLoadingObject THEN pauses ELSE pauses + 1

\* The timer that enables the button again is scheduled.
TimerAdded == pauses + 1

\* The block that restartExperience queued.  An alert it dismisses is not
\* answered: no handler of it runs.
RestartRuns ==
  /\ restarts > 0
  /\ restarts' = restarts - 1
  /\ restartOn' = FALSE
  /\ pauses' = TimerAdded
  /\ escalation' = FALSE
  /\ hints' = Schedule({"focus", "plane"})
  /\ presented' = IF held THEN None ELSE presented
  /\ held' = FALSE
  /\ UNCHANGED <<session, loading, blurred, blocked>>

\* Five seconds later.
PauseEnds ==
  /\ pauses > 0
  /\ pauses' = pauses - 1
  /\ restartOn' = TRUE
  /\ UNCHANGED <<session, loading, alerts, timers, restarts>>

-----------------------------------------------------------------------------
Next ==
  \/ ShowTab \/ LeaveTab \/ OpenChooser \/ CloseChooser
  \/ \E o \in Objects : Choose(o) \/ Begin(o) \/ Loaded(o) \/ Place(o)
  \/ FrameArrives \/ PlaneAdded \/ FocusFound
  \/ \E h \in Hints : HintShown(h)
  \/ \E normal \in BOOLEAN : TrackingChanged(normal)
  \/ EscalationFires \/ \E r \in BOOLEAN : AnswerEscalation(r)
  \/ Interrupted \/ AnswerInterruption \/ InterruptionEnded
  \/ \E a \in {"failure", "fatal"} : Failed(a)
  \/ AnswerFailure \/ RestartTapped \/ RestartRuns \/ PauseEnds

Spec == Init /\ [][Next]_vars

\* The blocks of a load run one after the other; the user need not do anything.
FairSpec == Spec /\ \A o \in Objects : WF_vars(Begin(o) \/ Loaded(o) \/ Place(o))

-----------------------------------------------------------------------------
TypeOK ==
  /\ visible \in BOOLEAN /\ frame \in BOOLEAN
  /\ interrupted \in BOOLEAN
  /\ stage \in [Objects -> Stages]
  /\ selected \in Objects \cup {None} /\ inScene \subseteq Objects
  /\ isLoadingObject \in BOOLEAN
  /\ presented \in Alerts \cup {"chooser", None}
  /\ held \in BOOLEAN /\ blurred \in BOOLEAN /\ blocked \in BOOLEAN
  /\ escalation \in BOOLEAN /\ hints \subseteq Hints
  /\ restartOn \in BOOLEAN
  /\ restarts \in Nat /\ pauses \in Nat
  /\ restarts + pauses <= MaxRestarts

\* The buttons are off only while some object is really being loaded, however
\* many loads cross (isLoadingObject).
FlagMeansLoading ==
  isLoadingObject => \E o \in Objects : stage[o] \in {"loading", "loaded"}

\* The object gestures act on is in the scene once it was placed, although the
\* block that places reads the selection of its own moment and not of its
\* object's (setNewVirtualObjectPosition).
SelectedShown ==
  selected # None /\ stage[selected] = "placed" => selected \in inScene

\* While the escalation alert is on screen no hint is scheduled, whatever else
\* asked to be shown, was restarted or was answered before (scheduleMessage).
QuietDuringAlert == presented = "escalation" => blocked

\* The restart button is never off without a timer that will turn it on,
\* however restarts and the ends of their pauses cross (restartExperience).
PauseHasEnd == ~restartOn => pauses > 0

\* Every load ends and gives the buttons back, in a scene without a frame too.
LoadsEnd == isLoadingObject ~> ~isLoadingObject

-----------------------------------------------------------------------------
(* What comments say, and the code does not keep. *)

\* MainViewController.swift:97: "Abort if we are about to load another object
\* to avoid concurrent modifications of the scene."
OneAtATime == Cardinality({o \in Objects : stage[o] \in {"loading", "loaded"}}) <= 1

\* TextManager.swift:58: "Do not schedule a new message if a feedback
\* escalation alert is still on screen."
BlockedOnlyForAlert == blocked => presented = "escalation"
=============================================================================
