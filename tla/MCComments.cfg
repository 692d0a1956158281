\* Three comments, two listeners, two deletions.
SPECIFICATION FairSpec
CONSTANTS
  MaxComments = 3
  MaxListeners = 2
  MaxDeletes = 2
INVARIANTS TypeOK RowsMatch InOrder NothingMissing
PROPERTIES CommentsShown
CHECK_DEADLOCK FALSE
