\* Posts reach everyone.
SPECIFICATION FairSpec
CONSTANTS
  ann = ann  bob = bob
  Users <- TwoUsers
  NoUser = NoUser
  MaxPosts = 2
  MaxDeletes = 1
PROPERTIES EveryoneSees
CHECK_DEADLOCK FALSE
