\* Two messages between two users, one of whom uses the inbox.
SPECIFICATION Spec
CONSTANTS
  ann = ann  bob = bob  cid = cid  c1 = c1  c2 = c2
  Users <- TwoUsers
  Chats <- TwoChats
  NoOne = NoOne
  Name <- OwnNames
  MaxMsgs = 2
  MaxOutbox = 1
  MaxUploads = 0
  Killed = {}
  InboxUsers = {ann}
  NewUsers = {ann, bob}
  HomeUsers = {bob}
SYMMETRY ChatSymmetry
INVARIANTS
  CrashHasCause DeliveredStaysShown OwnDeletionsClear
  ListedOnce InboxConverges ReplyKeepsMark UnreadBounded
