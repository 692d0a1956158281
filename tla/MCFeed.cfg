\* Three posts, and deletions crossing them.
SPECIFICATION Spec
CONSTANTS
  ann = ann  bob = bob
  Users <- TwoUsers
  NoUser = NoUser
  MaxPosts = 3
  MaxDeletes = 2
SYMMETRY FeedSymmetry
INVARIANTS TypeOK CrashCause LostOnlyNewest RightPartner
CHECK_DEADLOCK FALSE
