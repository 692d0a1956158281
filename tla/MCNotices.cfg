\* Two posts of two authors, and the notifications tab of one of them.
SPECIFICATION FairSpec
CONSTANTS
  p1 = p1  p2 = p2  ann = ann  bob = bob  like = like
  Users <- TwoUsers
  All = All
  Me = ann
  MaxNotes = 2
  Posts <- TwoPosts
  Kinds = {like}
  Like = like
  Author <- OneEach
  Guests = {"nobody"}
  MaxSent = 3
INVARIANTS ListenersBounded NothingMissing WrongButtonIsOld LikesReach
PROPERTIES BoardSpec EveryoneTold
CHECK_DEADLOCK FALSE
