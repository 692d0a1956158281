\* Texts, photos, and apps that are killed or trap, against the message log.
SPECIFICATION FairSpec
CONSTANTS
  ann = ann  bob = bob  cid = cid  c1 = c1  c2 = c2
  Users <- TwoUsers
  Chats <- TwoChats
  NoOne = NoOne
  Name <- OwnNames
  MaxMsgs = 1
  MaxOutbox = 1
  MaxUploads = 1
  Killed = {bob}
  InboxUsers = {ann}
  NewUsers = {}
  HomeUsers = {ann, bob}
PROPERTIES LogSpec Delivery
