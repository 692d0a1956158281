---------------------------- MODULE SceneProofs -----------------------------
(***************************************************************************)
(* The safety of the scene, for any number of objects and restarts.  Each  *)
(* invariant is inductive once the types are known.                        *)
(***************************************************************************)
EXTENDS Scene, TLAPS

\* A bound is a number.
LEMMA Bound == MaxRestarts \in Nat
BY SceneAssumption DEF SceneAssumption

\* Asking for a restart keeps the bound and the types of what it changes.
LEMMA Asked ==
  ASSUME TypeOK, AskRestart
  PROVE  restarts' \in Nat /\ pauses' \in Nat /\ restarts' + pauses' <= MaxRestarts
         /\ restartOn' \in BOOLEAN
BY Bound DEF TypeOK, AskRestart

\* Placing adds the selected object, so types need that there is one by then.
SelectedByThen ==
  \A o \in Objects :
    stage[o] \in {"loading", "loaded", "placed", "dropped"} => selected \in Objects

SceneInv == TypeOK /\ SelectedByThen

\* Every variable of the scene keeps its type, the bound on restarts is kept, and
\* an object is selected once one is being loaded.
THEOREM SceneTypes == Spec => []SceneInv
<1>1. Init => SceneInv
  <2> SUFFICES ASSUME Init PROVE SceneInv
    OBVIOUS
  <2>1. restarts \in Nat /\ pauses \in Nat /\ restarts + pauses <= MaxRestarts
    BY Bound DEF Init
  <2>2. hints \subseteq Hints
    BY DEF Init, Hints
  <2> QED
    BY <2>1, <2>2 DEF Init, SceneInv, TypeOK, SelectedByThen, Stages, Alerts
<1>2. ASSUME SceneInv, [Next]_vars
      PROVE  SceneInv'
  <2> USE DEF SceneInv, TypeOK, SelectedByThen
  <2>1. CASE ShowTab
    BY <1>2, <2>1 DEF ShowTab, session, loading, alerts, timers, restart, Schedule,
       Hints
  <2>2. CASE LeaveTab
    BY <1>2, <2>2 DEF LeaveTab, session, loading, alerts, timers, restart
  <2>3. CASE OpenChooser
    BY <1>2, <2>3 DEF OpenChooser, session, loading, alerts, timers, restart, Hints
  <2>4. CASE CloseChooser
    BY <1>2, <2>4 DEF CloseChooser, session, loading, alerts, timers, restart
  <2>5. ASSUME NEW o \in Objects, Choose(o) PROVE SceneInv'
    BY <1>2, <2>5 DEF Choose, session, loading, alerts, timers, restart, Stages
  <2>6. ASSUME NEW o \in Objects, Begin(o) PROVE SceneInv'
    BY <1>2, <2>6 DEF Begin, session, loading, alerts, timers, restart, Stages
  <2>7. ASSUME NEW o \in Objects, Loaded(o) PROVE SceneInv'
    BY <1>2, <2>7 DEF Loaded, session, loading, alerts, timers, restart, Stages
  <2>8. ASSUME NEW o \in Objects, Place(o) PROVE SceneInv'
    BY <1>2, <2>8 DEF Place, session, loading, alerts, timers, restart, Stages,
       Added, FlagAfter
  <2>9. CASE FrameArrives
    BY <1>2, <2>9 DEF FrameArrives, session, loading, alerts, timers, restart
  <2>10. CASE PlaneAdded
    BY <1>2, <2>10 DEF PlaneAdded, session, loading, alerts, timers, restart,
       Schedule, Hints
  <2>11. CASE FocusFound
    BY <1>2, <2>11 DEF FocusFound, session, loading, alerts, timers, restart, Hints
  <2>12. ASSUME NEW h \in Hints, HintShown(h) PROVE SceneInv'
    BY <1>2, <2>12 DEF HintShown, session, loading, alerts, timers, restart, Hints
  <2>13. ASSUME NEW normal \in BOOLEAN, TrackingChanged(normal)
     PROVE SceneInv'
    BY <1>2, <2>13 DEF TrackingChanged, session, loading, alerts, timers, restart
  <2>14. CASE EscalationFires
    BY <1>2, <2>14 DEF EscalationFires, session, loading, alerts, timers, restart,
       Present, Alerts
  <2>15. ASSUME NEW r \in BOOLEAN, AnswerEscalation(r) PROVE SceneInv'
    <3>1. CASE r
      BY <1>2, <2>15, <3>1, Asked DEF AnswerEscalation, session, loading, alerts,
         timers, restart
    <3>2. CASE ~r
      BY <1>2, <2>15, <3>2 DEF AnswerEscalation, session, loading, alerts, timers,
         restart
    <3> QED
      BY <3>1, <3>2
  <2>16. CASE Interrupted
    BY <1>2, <2>16 DEF Interrupted, session, loading, alerts, timers, restart,
       Present, Alerts
  <2>17. CASE AnswerInterruption
    BY <1>2, <2>17 DEF AnswerInterruption, session, loading, alerts, timers, restart
  <2>18. CASE InterruptionEnded
    BY <1>2, <2>18, Asked DEF InterruptionEnded, session, loading, alerts, timers,
       restart
  <2>19. ASSUME NEW a \in {"failure", "fatal"}, Failed(a) PROVE SceneInv'
    BY <1>2, <2>19 DEF Failed, session, loading, alerts, timers, restart, Present,
       Alerts
  <2>20. CASE AnswerFailure
    BY <1>2, <2>20, Asked DEF AnswerFailure, session, loading, alerts, timers, restart
  <2>21. CASE RestartTapped
    BY <1>2, <2>21, Asked DEF RestartTapped, session, loading, alerts, timers, restart
  <2>22. CASE RestartRuns
    <3>1. restarts' \in Nat /\ pauses' \in Nat /\ restarts' + pauses' <= MaxRestarts
      BY Bound, <1>2, <2>22 DEF RestartRuns, TimerAdded
    <3>2. hints' \subseteq Hints
      BY <2>22 DEF RestartRuns, Schedule, Hints
    <3> QED
      BY <1>2, <2>22, <3>1, <3>2 DEF RestartRuns, session, loading, alerts,
         timers, restart
  <2>23. CASE PauseEnds
    BY Bound, <1>2, <2>23 DEF PauseEnds, session, loading, alerts, timers, restart
  <2>24. CASE UNCHANGED vars
    BY <1>2, <2>24 DEF vars, session, loading, alerts, timers, restart
  <2> QED
    BY <1>2, <2>1, <2>2, <2>3, <2>4, <2>5, <2>6, <2>7, <2>8, <2>9, <2>10, <2>11,
       <2>12, <2>13, <2>14, <2>15, <2>16, <2>17, <2>18, <2>19, <2>20, <2>21, <2>22,
       <2>23, <2>24 DEF Next
<1> QED
  BY <1>1, <1>2, PTL DEF Spec

\* The types alone, as the runs check them.
THEOREM SceneTypesHold == Spec => []TypeOK
<1>1. SceneInv => TypeOK
  BY DEF SceneInv
<1> QED
  BY <1>1, SceneTypes, PTL

-----------------------------------------------------------------------------
\* The buttons are off only while an object is being loaded: a load sets the flag
\* when it has taken its stage, and the first object placed clears it.
THEOREM FlagHolds == Spec => []FlagMeansLoading
<1>1. Init => FlagMeansLoading
  BY SceneAssumption DEF Init, FlagMeansLoading, SceneAssumption
<1>2. ASSUME TypeOK, FlagMeansLoading, [Next]_vars
      PROVE  FlagMeansLoading'
  <2>1. ASSUME NEW o \in Objects, Choose(o) PROVE FlagMeansLoading'
    BY <1>2, <2>1 DEF FlagMeansLoading, TypeOK, Choose, session, loading, alerts,
       timers, restart
  <2>2. ASSUME NEW o \in Objects, Begin(o) PROVE FlagMeansLoading'
    BY <1>2, <2>2 DEF FlagMeansLoading, TypeOK, Begin, session, loading, alerts,
       timers, restart
  <2>3. ASSUME NEW o \in Objects, Loaded(o) PROVE FlagMeansLoading'
    BY <1>2, <2>3 DEF FlagMeansLoading, TypeOK, Loaded, session, loading, alerts,
       timers, restart
  <2>4. ASSUME NEW o \in Objects, Place(o) PROVE FlagMeansLoading'
    BY <1>2, <2>4 DEF FlagMeansLoading, TypeOK, Place, session, loading, alerts,
       timers, restart, FlagAfter
  <2>5. CASE UNCHANGED <<isLoadingObject, stage>>
    BY <1>2, <2>5 DEF FlagMeansLoading
  <2> QED
    BY <1>2, <2>1, <2>2, <2>3, <2>4, <2>5
    DEF Next, AskRestart, vars, session, loading, alerts, timers, restart,
        ShowTab, LeaveTab, OpenChooser, CloseChooser, FrameArrives, PlaneAdded,
           FocusFound, HintShown, TrackingChanged, EscalationFires,
           AnswerEscalation, Interrupted, AnswerInterruption, InterruptionEnded,
           Failed, AnswerFailure, RestartTapped, RestartRuns, PauseEnds
<1> QED
  BY <1>1, <1>2, SceneTypesHold, PTL DEF Spec

\* The selected object is in the scene once it was placed: what is selected when
\* a block places something is added, so it is when that is the object itself.
THEOREM SelectedHolds == Spec => []SelectedShown
<1>1. Init => SelectedShown
  BY SceneAssumption DEF Init, SelectedShown, SceneAssumption
<1>2. ASSUME TypeOK, SelectedShown, [Next]_vars
      PROVE  SelectedShown'
  <2>1. ASSUME NEW o \in Objects, Choose(o) PROVE SelectedShown'
    BY <1>2, <2>1 DEF SelectedShown, TypeOK, Choose, session, loading, alerts,
       timers, restart
  <2>2. ASSUME NEW o \in Objects, Begin(o) PROVE SelectedShown'
    BY <1>2, <2>2 DEF SelectedShown, TypeOK, Begin, session, loading, alerts,
       timers, restart
  <2>3. ASSUME NEW o \in Objects, Loaded(o) PROVE SelectedShown'
    BY <1>2, <2>3 DEF SelectedShown, TypeOK, Loaded, session, loading, alerts,
       timers, restart
  <2>4. ASSUME NEW o \in Objects, Place(o) PROVE SelectedShown'
    BY <1>2, <2>4 DEF SelectedShown, TypeOK, Place, session, loading, alerts,
       timers, restart, Added
  <2>5. CASE UNCHANGED <<stage, selected, inScene>>
    BY <1>2, <2>5 DEF SelectedShown
  <2> QED
    BY <1>2, <2>1, <2>2, <2>3, <2>4, <2>5
    DEF Next, AskRestart, vars, session, loading, alerts, timers, restart,
        ShowTab, LeaveTab, OpenChooser, CloseChooser, FrameArrives, PlaneAdded,
           FocusFound, HintShown, TrackingChanged, EscalationFires,
           AnswerEscalation, Interrupted, AnswerInterruption, InterruptionEnded,
           Failed, AnswerFailure, RestartTapped, RestartRuns, PauseEnds
<1> QED
  BY <1>1, <1>2, SceneTypesHold, PTL DEF Spec

\* Hints are blocked as long as the escalation alert is on screen: it is shown in
\* the step that blocks them, and only its buttons unblock them.
THEOREM QuietHolds == Spec => []QuietDuringAlert
<1>1. Init => QuietDuringAlert
  BY SceneAssumption DEF Init, QuietDuringAlert, SceneAssumption
<1>2. ASSUME TypeOK, QuietDuringAlert, [Next]_vars
      PROVE  QuietDuringAlert'
  <2>1. CASE OpenChooser
    BY SceneAssumption, <1>2, <2>1 DEF QuietDuringAlert, TypeOK, OpenChooser,
       session, loading, alerts, timers, restart, SceneAssumption
  <2>2. CASE CloseChooser
    BY SceneAssumption, <1>2, <2>2 DEF QuietDuringAlert, TypeOK, CloseChooser,
       session, loading, alerts, timers, restart, SceneAssumption
  <2>3. ASSUME NEW o \in Objects, Choose(o) PROVE QuietDuringAlert'
    BY SceneAssumption, <1>2, <2>3 DEF QuietDuringAlert, TypeOK, Choose, session,
       loading, alerts, timers, restart, SceneAssumption
  <2>4. CASE EscalationFires
    BY SceneAssumption, <1>2, <2>4 DEF QuietDuringAlert, TypeOK, EscalationFires,
       session, loading, alerts, timers, restart, SceneAssumption, Present
  <2>5. ASSUME NEW r \in BOOLEAN, AnswerEscalation(r) PROVE QuietDuringAlert'
    BY SceneAssumption, <1>2, <2>5 DEF QuietDuringAlert, TypeOK, AnswerEscalation,
       session, loading, alerts, timers, restart, SceneAssumption
  <2>6. CASE Interrupted
    BY SceneAssumption, <1>2, <2>6 DEF QuietDuringAlert, TypeOK, Interrupted,
       session, loading, alerts, timers, restart, SceneAssumption, Present
  <2>7. CASE AnswerInterruption
    BY SceneAssumption, <1>2, <2>7 DEF QuietDuringAlert, TypeOK, AnswerInterruption,
       session, loading, alerts, timers, restart, SceneAssumption
  <2>8. ASSUME NEW a \in {"failure", "fatal"}, Failed(a) PROVE QuietDuringAlert'
    BY SceneAssumption, <1>2, <2>8 DEF QuietDuringAlert, TypeOK, Failed, session,
       loading, alerts, timers, restart, SceneAssumption, Present
  <2>9. CASE AnswerFailure
    BY SceneAssumption, <1>2, <2>9 DEF QuietDuringAlert, TypeOK, AnswerFailure,
       session, loading, alerts, timers, restart, SceneAssumption
  <2>10. CASE RestartRuns
    BY SceneAssumption, <1>2, <2>10 DEF QuietDuringAlert, TypeOK, RestartRuns,
       session, loading, alerts, timers, restart, SceneAssumption
  <2>11. CASE UNCHANGED <<presented, blocked>>
    BY <1>2, <2>11 DEF QuietDuringAlert
  <2> QED
    BY <1>2, <2>1, <2>2, <2>3, <2>4, <2>5, <2>6, <2>7, <2>8, <2>9, <2>10, <2>11
    DEF Next, AskRestart, vars, session, loading, alerts, timers, restart,
        ShowTab, LeaveTab, Begin, Loaded, Place, FrameArrives, PlaneAdded,
           FocusFound, HintShown, TrackingChanged, InterruptionEnded,
           RestartTapped, PauseEnds
<1> QED
  BY <1>1, <1>2, SceneTypesHold, PTL DEF Spec

\* The restart button is off only while a timer is pending that turns it on.
THEOREM PauseHolds == Spec => []PauseHasEnd
<1>1. Init => PauseHasEnd
  BY SceneAssumption DEF Init, PauseHasEnd, SceneAssumption
<1>2. ASSUME TypeOK, PauseHasEnd, [Next]_vars
      PROVE  PauseHasEnd'
  <2>1. CASE RestartRuns
    BY <1>2, <2>1 DEF PauseHasEnd, TypeOK, RestartRuns, session, loading, alerts,
       timers, restart, TimerAdded
  <2>2. CASE PauseEnds
    BY <1>2, <2>2 DEF PauseHasEnd, TypeOK, PauseEnds, session, loading, alerts,
       timers, restart
  <2>3. CASE UNCHANGED <<restartOn, pauses>>
    BY <1>2, <2>3 DEF PauseHasEnd
  <2> QED
    BY <1>2, <2>1, <2>2, <2>3
    DEF Next, AskRestart, vars, session, loading, alerts, timers, restart,
        ShowTab, LeaveTab, OpenChooser, CloseChooser, Choose, Begin, Loaded,
           Place, FrameArrives, PlaneAdded, FocusFound, HintShown,
           TrackingChanged, EscalationFires, AnswerEscalation, Interrupted,
           AnswerInterruption, InterruptionEnded, Failed, AnswerFailure,
           RestartTapped
<1> QED
  BY <1>1, <1>2, SceneTypesHold, PTL DEF Spec
=============================================================================
