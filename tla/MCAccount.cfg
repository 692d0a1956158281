\* Two users, one of them new with up to two pictures under way, and a post that may be
\* saved and deleted; two requests at a time.
SPECIFICATION FairSpec
CONSTANTS
  ann = ann  bob = bob
  Users = {ann, bob}
  Existing = {bob}
  Posts = {p1}
  None = None
  Pictures <- TwoOfAnn
  MaxAsked = 2
  MaxScreens = 4
INVARIANTS TrapCause OwnName NamedOrCut
PROPERTIES StrayPicture NameComes
