\* An escalation alert that nobody answers.
SPECIFICATION Spec
CONSTANTS
  o1 = o1
  o2 = o2
  Objects <- MCObjects
  None = None
  MaxRestarts = 1
INVARIANTS BlockedOnlyForAlert
