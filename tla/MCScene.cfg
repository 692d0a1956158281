\* Two objects, two restarts; the queues and timers are fair.
SPECIFICATION FairSpec
CONSTANTS
  o1 = o1
  o2 = o2
  Objects <- MCObjects
  None = None
  MaxRestarts = 2
INVARIANTS FlagMeansLoading QuietDuringAlert PauseHasEnd
PROPERTIES LoadsEnd
