\* Two objects chosen in a row.
SPECIFICATION Spec
CONSTANTS
  o1 = o1
  o2 = o2
  Objects <- MCObjects
  None = None
  MaxRestarts = 1
INVARIANTS OneAtATime
