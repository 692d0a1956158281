----------------------------- MODULE ChatProofs -----------------------------
(***************************************************************************)
(* Proofs about Chat.tla for any number of users, screens, messages and    *)
(* pending writes: types, the safety invariants, and that chat implements  *)
(* the message log.                                                        *)
(***************************************************************************)
EXTENDS Chat, FiniteSetTheorems, SequenceTheorems, TLAPS

-----------------------------------------------------------------------------
(* The operators the actions are built from. *)

LEMMA ApplyType ==
  ASSUME NEW d \in Doc, NEW w \in Write
  PROVE  Apply(d, w) \in Doc
<1>1. CASE w.kind = "set"
  BY <1>1 DEF Apply, Doc, Write
<1>2. CASE w.kind = "clear" /\ d.sender # NoOne
  <2>1. Apply(d, w) = [d EXCEPT !.latest = NoOne, !.unread = 0]
    BY <1>2 DEF Apply
  <2>2. NoOne \in Users \cup {NoOne} /\ 0 \in Int
    OBVIOUS
  <2>3. QED
    BY <2>1, <2>2 DEF Doc
<1>3. CASE w.kind = "count" /\ d.sender # NoOne
  <2>1. Apply(d, w) = [d EXCEPT !.unread = w.unread]
    BY <1>3 DEF Apply
  <2>2. w.unread \in Int
    BY DEF Write
  <2>3. QED
    BY <2>1, <2>2 DEF Doc
<1>4. CASE w.kind \in {"clear", "count"} /\ d.sender = NoOne
  BY <1>4 DEF Apply
<1>5. QED
  BY <1>1, <1>2, <1>3, <1>4 DEF Write

\* A pending write found by LastPending is one of the outbox.
LEMMA LastPendingIndex ==
  ASSUME NEW u, NEW k, NEW kinds, NEW i \in LastPending(u, k, kinds)
  PROVE  i \in 1..Len(outbox[u])
BY DEF LastPending

LEMMA ChosenPending ==
  ASSUME NEW u, NEW k, NEW kinds, LastPending(u, k, kinds) # {}
  PROVE  (CHOOSE i \in LastPending(u, k, kinds) : TRUE) \in 1..Len(outbox[u])
BY LastPendingIndex

LEMMA ViewType ==
  ASSUME TypeOK, NEW u \in Users, NEW k \in Convs
  PROVE  View(u, k) \in Doc
<1> DEFINE set == LastPending(u, k, {"set"})
           flags == LastPending(u, k, {"set", "clear"})
           any == LastPending(u, k, {"set", "clear", "count"})
<1>1. doc[k] \in Doc /\ outbox[u] \in Seq(Write)
  BY DEF TypeOK
<1>2. ASSUME NEW i \in 1..Len(outbox[u])
      PROVE  outbox[u][i].unread \in Int /\ outbox[u][i].timestamp \in Ids \cup {0}
  <2>1. outbox[u][i] \in Write
    BY <1>1, ElementOfSeq
  <2>2. QED
    BY <2>1 DEF Write
<1>3. any # {} => outbox[u][CHOOSE i \in any : TRUE].unread \in Int
  BY <1>2, ChosenPending
<1>4. set # {} => outbox[u][CHOOSE i \in set : TRUE].timestamp \in Ids \cup {0}
  BY <1>2, ChosenPending
<1>5. NoDoc \in Doc
  BY DEF NoDoc, Doc
<1> HIDE DEF set, flags, any
<1>6. QED
  BY <1>1, <1>3, <1>4, <1>5 DEF View, Doc, set, flags, any

LEMMA RowTypes ==
  ASSUME NEW u \in Users, NEW d \in Doc
  PROVE  RecRow(u, d) \in Row /\ SendRow(d) \in Row /\ NoRow \in Row
BY DEF RecRow, SendRow, NoRow, Row, Doc, Flagged

LEMMA ResultTypes ==
  ASSUME TypeOK, NEW u \in Users
  PROVE  RecResult(u) \in [Convs -> Doc] /\ SendResult(u) \in [Convs -> Doc]
<1>1. NoDoc \in Doc
  BY DEF NoDoc, Doc
<1>2. QED
  BY <1>1, ViewType DEF RecResult, SendResult

LEMMA InitInboxType == InitInbox \in InboxState
<1>1. NoDoc \in Doc /\ NoRow \in Row
  BY DEF NoDoc, Doc, NoRow, Row
<1>2. QED
  BY <1>1 DEF InitInbox, InboxState

LEMMA UnreadType ==
  ASSUME NEW ib \in InboxState, NEW n \in Int
  PROVE  [ib EXCEPT !.unread = n] \in InboxState
BY DEF InboxState

LEMMA NoChatType == NoChat \in ChatState
BY ChatAssumption DEF NoChat, ChatState

LEMMA OpenedType ==
  ASSUME NEW u \in Users, NEW k \in Convs, NEW n \in BOOLEAN, NEW l \in BOOLEAN,
         NEW photo \in BOOLEAN, photo => MaxUploads > 0
  PROVE  Opened(u, k, n, l, photo) \in ChatState
<1>1. CASE photo
  <2>1. 1 \in 0..MaxUploads
    BY <1>1, ChatAssumption
  <2>2. Opened(u, k, n, l, photo) =
          [NoChat EXCEPT !.owner = u, !.conv = k, !.isNewChat = n, !.linked = l,
                         !.hud = photo, !.uploads = 1]
    BY <1>1 DEF Opened
  <2>3. QED
    BY <2>1, <2>2, NoChatType DEF ChatState
<1>2. CASE ~photo
  <2>1. 0 \in 0..MaxUploads
    BY ChatAssumption
  <2>2. Opened(u, k, n, l, photo) =
          [NoChat EXCEPT !.owner = u, !.conv = k, !.isNewChat = n, !.linked = l,
                         !.hud = photo, !.uploads = 0]
    BY <1>2 DEF Opened
  <2>3. QED
    BY <2>1, <2>2, NoChatType DEF ChatState
<1>3. QED
  BY <1>1, <1>2

LEMMA IssueType ==
  ASSUME TypeOK, NEW u \in Users, NEW w \in Write, Issue(u, w)
  PROVE  outbox' \in [Users -> Seq(Write)]
BY DEF TypeOK, Issue

LEMMA ReadResetType ==
  ASSUME NEW u \in Users, NEW k \in Convs
  PROVE  ReadReset(u, k) \in Write
BY DEF ReadReset, Write

LEMMA RecCallbackType ==
  ASSUME TypeOK, NEW u \in Users, NEW ib \in InboxState,
         NEW result \in [Convs -> Doc], NEW last \in Users \cup {NoOne}
  PROVE  RecCallback(u, ib, result, last) \in InboxState
<1> DEFINE found == Found(result)
           acc == [k \in Convs |-> IF k \in found /\ Nameable(u, k)
                                   THEN RecRow(u, result[k]) ELSE ib.acc[k]]
           side == [k \in Convs |-> IF acc[k].listed THEN NoRow ELSE ib.sendSide[k]]
           unread == IF ib.sel \in found THEN result[ib.sel].unread ELSE ib.unread
<1>1. acc \in [Convs -> Row]
  BY RowTypes DEF InboxState
<1>2. side \in [Convs -> Row]
  BY <1>1, RowTypes DEF InboxState, NoRow, Row
<1>3. unread \in Int
  BY DEF Found, InboxState, Doc
<1>4. RecCallback(u, ib, result, last) =
        [ib EXCEPT !.recSeen = result, !.recDue = FALSE, !.acc = acc, !.recSide = acc,
                   !.sendSide = side, !.unread = unread, !.last = last,
                   !.sendOn = TRUE, !.sendDue = TRUE]
  BY DEF RecCallback, InboxState
<1> HIDE DEF acc, side, unread
<1>5. QED
  BY <1>1, <1>2, <1>3, <1>4 DEF InboxState

LEMMA SendCallbackType ==
  ASSUME TypeOK, NEW u \in Users, NEW ib \in InboxState, NEW result \in [Convs -> Doc]
  PROVE  SendCallback(u, ib, result) \in InboxState
<1> DEFINE found == Found(result)
           rows == [k \in Convs |-> IF k \in found /\ Nameable(u, k)
                                    THEN SendRow(result[k]) ELSE NoRow]
           side == [k \in Convs |-> IF rows[k].listed THEN NoRow ELSE ib.recSide[k]]
           unread == IF ib.sel \in found THEN result[ib.sel].unread ELSE ib.unread
           last == IF ib.sel \in found THEN result[ib.sel].latest ELSE ib.last
<1>1. rows \in [Convs -> Row]
  BY RowTypes
<1>2. side \in [Convs -> Row]
  BY <1>1, RowTypes DEF InboxState, NoRow, Row
<1>3. unread \in Int /\ last \in Users \cup {NoOne}
  BY DEF Found, InboxState, Doc
<1>4. SendCallback(u, ib, result) =
        [ib EXCEPT !.sendSeen = result, !.sendDue = FALSE, !.sendSide = rows,
                   !.recSide = side, !.unread = unread, !.last = last]
  BY DEF SendCallback, InboxState
<1> HIDE DEF rows, side, unread, last
<1>5. QED
  BY <1>1, <1>2, <1>3, <1>4 DEF InboxState

\* The number of selected new messages, by which a deletion corrects a counter.
LEMMA RecentCount ==
  ASSUME NEW S \in SUBSET Ids, NEW T
  PROVE  Cardinality(S \cap T) \in Nat
<1>1. IsFiniteSet(1..MaxMsgs)
  BY ChatAssumption, FS_Interval
<1>2. S \cap T \subseteq 1..MaxMsgs
  BY DEF Ids
<1>3. IsFiniteSet(S \cap T)
  BY <1>1, <1>2, FS_Subset
<1>4. QED
  BY <1>3, FS_CardinalityType

LEMMA LastMembersType ==
  ASSUME NEW u \in Users, NEW ib \in InboxState, NEW result \in [Convs -> Doc],
         NEW last \in LastMembers(u, ib, result)
  PROVE  last \in Users \cup {NoOne}
BY DEF LastMembers, Found, InboxState, Doc

\* A thread lies within the log, and so within the ids.
LEMMA ThreadIds ==
  ASSUME TypeOK
  PROVE  /\ thread \subseteq Ids /\ 1..Len(log) \subseteq Ids /\ Len(log) \in Nat
         /\ \A k : InConv(k) \subseteq thread
<1>1. Len(log) \in Nat /\ Len(log) <= MaxMsgs /\ thread \subseteq 1..Len(log)
  BY LenProperties DEF TypeOK
<1>2. QED
  BY <1>1, ChatAssumption DEF Ids, InConv

-----------------------------------------------------------------------------
(* Type correctness.  TypeOK is not inductive: a screen in use must also be *)
(* on a conversation of its user, or a message could be sent to none.       *)

\* Every screen in use is on a conversation.
OnConv == \A c \in Chats : chat[c].owner # NoOne => chat[c].conv \in Convs

TypeInv == TypeOK /\ OnConv

\* Changing one screen, but neither its user nor its conversation.
LEMMA ChatStep ==
  ASSUME TypeInv, NEW c \in Chats, NEW s \in ChatState,
         s.owner = chat[c].owner, s.conv = chat[c].conv,
         chat' = [chat EXCEPT ![c] = s]
  PROVE  chat' \in [Chats -> ChatState] /\ OnConv'
<1>1. chat \in [Chats -> ChatState] /\ OnConv
  BY DEF TypeInv, TypeOK
<1>2. chat' \in [Chats -> ChatState]
  BY <1>1
<1>3. \A d \in Chats : chat'[d].owner = chat[d].owner /\ chat'[d].conv = chat[d].conv
  BY <1>1
<1>4. QED
  BY <1>1, <1>2, <1>3 DEF OnConv

\* A screen in use has a user, and a record of the right type.
LEMMA InUse ==
  ASSUME TypeInv, NEW c \in Chats, chat[c].owner # NoOne
  PROVE  chat[c] \in ChatState /\ chat[c].owner \in Users /\ chat[c].conv \in Convs
<1>1. chat[c] \in ChatState
  BY DEF TypeInv, TypeOK
<1>2. QED
  BY <1>1 DEF TypeInv, OnConv, ChatState

\* Everything save writes has its type.
LEMMA SaveType ==
  ASSUME TypeInv, NEW c \in Chats, chat[c].owner # NoOne, NEW photo \in BOOLEAN,
         Save(c, photo)
  PROVE  /\ log' \in Seq(Message) /\ Len(log') <= MaxMsgs
         /\ thread' \subseteq 1..Len(log')
         /\ outbox' \in [Users -> Seq(Write)]
         /\ inbox' \in [Users -> InboxState]
         /\ Len(log') = Len(log) + 1
         /\ unsigned' \subseteq 1..Len(log')
<1> DEFINE u == chat[c].owner
           w == [kind |-> "set", conv |-> chat[c].conv, by |-> u,
                 unread |-> NextUnread(c), timestamp |-> Len(log) + 1]
<1>1. u \in Users /\ chat[c].conv \in Convs /\ chat[c] \in ChatState
  BY InUse
<1>2. log \in Seq(Message) /\ Len(log) \in Nat /\ thread \subseteq 1..Len(log)
      /\ inbox \in [Users -> InboxState]
  BY LenProperties DEF TypeInv, TypeOK
<1>3. [from |-> u, conv |-> chat[c].conv, photo |-> photo] \in Message
  BY <1>1 DEF Message
<1>4. log' = Append(log, [from |-> u, conv |-> chat[c].conv, photo |-> photo])
      /\ Len(log) < MaxMsgs
  BY DEF Save
<1>5. log' \in Seq(Message) /\ Len(log') = Len(log) + 1
  BY <1>2, <1>3, <1>4, AppendProperties
<1>6. thread' \subseteq 1..Len(log')
  BY <1>2, <1>5 DEF Save
<1>7. inbox[u].unread \in Int /\ NextUnread(c) \in Int
  BY <1>1, <1>2 DEF NextUnread, InboxState
<1>8. inbox' \in [Users -> InboxState]
  <2>1. CASE chat[c].linked
    <3>1. inbox' = [inbox EXCEPT ![u].unread = NextUnread(c)]
      BY <2>1 DEF Save
    <3>2. [inbox[u] EXCEPT !.unread = NextUnread(c)] \in InboxState
      BY <1>1, <1>2, <1>7, UnreadType
    <3>3. QED
      BY <1>1, <1>2, <3>1, <3>2
  <2>2. CASE ~chat[c].linked
    BY <1>2, <2>2 DEF Save
  <2>3. QED
    BY <2>1, <2>2
<1>9. Len(log) + 1 \in Ids
  BY <1>2, <1>4, ChatAssumption DEF Ids
<1>10. w \in Write
  BY <1>1, <1>7, <1>9 DEF Write
<1>11. outbox' \in [Users -> Seq(Write)]
  <2>1. Issue(u, w)
    BY DEF Save
  <2>2. QED
    BY <1>1, <1>10, <2>1, IssueType DEF TypeInv
<1>12. unsigned' \subseteq 1..Len(log')
  BY <1>2, <1>5 DEF Save, TypeInv, TypeOK
<1>13. QED
  BY <1>2, <1>4, <1>5, <1>6, <1>8, <1>11, <1>12, ChatAssumption

LEMMA InitTyped ==
  ASSUME Init
  PROVE  TypeInv
<1>1. <<>> \in Seq(Message) /\ Len(<<>>) = 0
  OBVIOUS
<1>2. NoDoc \in Doc
  BY DEF NoDoc, Doc
<1>3. \A k \in Chats : NoChat.owner = NoOne
  BY DEF NoChat
<1>4. <<>> \in Seq(Write)
  OBVIOUS
<1>5. TypeOK
  BY <1>1, <1>2, <1>4, InitInboxType, NoChatType, ChatAssumption DEF Init, TypeOK
<1>6. OnConv
  BY <1>3 DEF Init, OnConv
<1>7. QED
  BY <1>5, <1>6 DEF TypeInv

LEMMA ShowInboxTyped ==
  ASSUME TypeInv, NEW u \in Users, ShowInbox(u)
  PROVE  TypeInv'
<1>1. inbox[u] \in InboxState
  BY DEF TypeInv, TypeOK, names
<1>2. [inbox[u] EXCEPT !.recDue = @ \/ ~inbox[u].loaded, !.loaded = TRUE] \in InboxState
  BY <1>1 DEF InboxState
<1>3. inbox' \in [Users -> InboxState]
  BY <1>2 DEF ShowInbox, TypeInv, TypeOK, names
<1>4. QED
  BY <1>3 DEF ShowInbox, TypeInv, TypeOK, names, OnConv

LEMMA OpenFromHomeTyped ==
  ASSUME TypeInv, NEW u \in Users, NEW k \in Convs, NEW c \in Chats, OpenFromHome(u, k, c)
  PROVE  TypeInv'
<1>1. PICK photo \in BOOLEAN :
        /\ photo => MaxUploads > 0
        /\ chat' = [chat EXCEPT ![c] = Opened(u, k, TRUE, FALSE, photo)]
  BY DEF OpenFromHome
<1>2. Opened(u, k, TRUE, FALSE, photo) \in ChatState
  BY <1>1, OpenedType
<1>3. Opened(u, k, TRUE, FALSE, photo).owner = u /\ Opened(u, k, TRUE, FALSE, photo).conv = k
  BY DEF Opened, NoChat
<1>4. chat' \in [Chats -> ChatState]
  BY <1>1, <1>2 DEF TypeInv, TypeOK, names
<1>5. OnConv'
  BY <1>1, <1>3 DEF TypeInv, TypeOK, names, OnConv, OpenFromHome
<1>6. QED
  BY <1>4, <1>5 DEF OpenFromHome, TypeInv, TypeOK, names

LEMMA RowOfType ==
  ASSUME TypeOK, NEW u \in Users, NEW k \in Convs
  PROVE  RowOf(u, k) \in Row
BY DEF RowOf, TypeOK, InboxState

LEMMA OpenFromInboxTyped ==
  ASSUME TypeInv, NEW u \in Users, NEW k \in Convs, NEW c \in Chats, OpenFromInbox(u, k, c)
  PROVE  TypeInv'
<1> DEFINE s == Opened(u, k, FALSE, TRUE, FALSE)
<1>1. s \in ChatState /\ s.conv = k
  BY OpenedType DEF Opened, NoChat
<1>2. chat' \in [Chats -> ChatState] /\ OnConv'
  BY <1>1 DEF TypeInv, TypeOK, names, OnConv, OpenFromInbox
<1>3. inbox' \in [Users -> InboxState]
  <2>1. inbox[u] \in InboxState /\ RowOf(u, k).unread \in Int
    BY RowOfType DEF TypeInv, TypeOK, names, Row
  <2>2. [inbox[u] EXCEPT !.sel = k, !.unread = RowOf(u, k).unread] \in InboxState
    BY <2>1 DEF InboxState
  <2>3. QED
    BY <2>2 DEF OpenFromInbox, TypeInv, TypeOK, names
<1>4. outbox' \in [Users -> Seq(Write)]
  BY ReadResetType, IssueType DEF OpenFromInbox, TypeInv, TypeOK, names
<1>5. screen' \in [Users -> {"home", "inbox", "crashed"} \cup Chats]
  BY DEF OpenFromInbox, TypeInv, TypeOK, names
<1>6. QED
  BY <1>2, <1>3, <1>4, <1>5 DEF OpenFromInbox, TypeInv, TypeOK, names

LEMMA BackTyped ==
  ASSUME TypeInv, NEW c \in Chats, Back(c)
  PROVE  TypeInv'
<1> DEFINE u == chat[c].owner
<1>1. u \in Users
  BY InUse DEF Back, OnTop
<1>2. inbox[u] \in InboxState /\ outbox \in [Users -> Seq(Write)]
  BY <1>1 DEF TypeInv, TypeOK, names
<1>3. inbox' \in [Users -> InboxState]
  <2>1. [inbox[u] EXCEPT !.sel = NoConv] \in InboxState
    BY <1>2 DEF InboxState
  <2>2. QED
    BY <1>1, <2>1 DEF Back, TypeInv, TypeOK, names
<1>4. outbox' \in [Users -> Seq(Write)]
  <2>1. inbox[u].sel # NoConv => inbox[u].sel \in Convs
    BY <1>2 DEF InboxState
  <2>2. outbox' = outbox \/ (inbox[u].sel # NoConv /\ Issue(u, ReadReset(u, inbox[u].sel)))
    BY DEF Back
  <2>3. CASE outbox' = outbox
    BY <1>2, <2>3
  <2>4. CASE inbox[u].sel # NoConv /\ Issue(u, ReadReset(u, inbox[u].sel))
    BY <1>1, <2>1, <2>4, ReadResetType, IssueType DEF TypeInv
  <2>5. QED
    BY <2>2, <2>3, <2>4
<1>5. screen' \in [Users -> {"home", "inbox", "crashed"} \cup Chats]
  BY DEF Back, TypeInv, TypeOK, names
<1>6. QED
  BY <1>3, <1>4, <1>5 DEF Back, TypeInv, TypeOK, names, OnConv

LEMMA RelaunchTyped ==
  ASSUME TypeInv, NEW u \in Users, Relaunch(u)
  PROVE  TypeInv'
<1>1. inbox' \in [Users -> InboxState]
  BY InitInboxType DEF Relaunch, TypeInv, TypeOK, names
<1>2. chat' \in [Chats -> ChatState]
  BY NoChatType DEF Relaunch, TypeInv, TypeOK, names
<1>3. OnConv'
  BY DEF Relaunch, TypeInv, OnConv, NoChat
<1>4. QED
  BY <1>1, <1>2, <1>3 DEF Relaunch, TypeInv, TypeOK, names

LEMMA CommitTyped ==
  ASSUME TypeInv, NEW u \in Users, Commit(u)
  PROVE  TypeInv'
<1>1. outbox[u] \in Seq(Write) /\ outbox[u] # <<>>
  BY DEF Commit, TypeInv, TypeOK, names
<1>2. Head(outbox[u]) \in Write /\ Tail(outbox[u]) \in Seq(Write)
  BY <1>1, HeadTailProperties
<1>3. Head(outbox[u]).conv \in Convs
  BY <1>2 DEF Write
<1>4. doc' = [doc EXCEPT ![Head(outbox[u]).conv] = Apply(@, Head(outbox[u]))]
  BY DEF Commit
<1>5. doc' \in [Convs -> Doc]
  BY <1>2, <1>3, <1>4, ApplyType DEF TypeInv, TypeOK, names
<1>6. outbox' \in [Users -> Seq(Write)]
  BY <1>2 DEF Commit, TypeInv, TypeOK, names
<1>7. QED
  BY <1>5, <1>6 DEF Commit, TypeInv, TypeOK, names, OnConv

LEMMA SendTextTyped ==
  ASSUME TypeInv, NEW c \in Chats, SendText(c)
  PROVE  TypeInv'
<1>1. chat[c].owner # NoOne /\ Save(c, FALSE)
  BY DEF SendText, OnTop
<1>2. chat[c] \in ChatState
  BY <1>1, InUse
<1>3. [chat[c] EXCEPT !.isNewMsg = TRUE] \in ChatState
  BY <1>2 DEF ChatState
<1>4. chat' \in [Chats -> ChatState] /\ OnConv'
  BY <1>3, ChatStep DEF SendText, ChatState
<1>5. QED
  BY <1>1, <1>4, SaveType DEF SendText, TypeInv, TypeOK, names

LEMMA UploadsType ==
  ASSUME NEW s \in ChatState, s.uploads > 0
  PROVE  s.uploads - 1 \in 0..MaxUploads
BY ChatAssumption DEF ChatState

LEMMA PhotoUploadedTyped ==
  ASSUME TypeInv, NEW c \in Chats, PhotoUploaded(c)
  PROVE  TypeInv'
<1>1. chat[c].owner # NoOne /\ Save(c, TRUE) /\ chat[c].uploads > 0
  BY DEF PhotoUploaded
<1>2. chat[c] \in ChatState /\ chat[c].uploads - 1 \in 0..MaxUploads
  BY <1>1, InUse, UploadsType
<1>3. [chat[c] EXCEPT !.uploads = @ - 1, !.hud = FALSE] \in ChatState
  BY <1>2 DEF ChatState
<1>4. chat' \in [Chats -> ChatState] /\ OnConv'
  BY <1>2, <1>3, ChatStep DEF PhotoUploaded, ChatState
<1>5. QED
  BY <1>1, <1>4, SaveType DEF PhotoUploaded, TypeInv, TypeOK, names

LEMMA UploadFailedTyped ==
  ASSUME TypeInv, NEW c \in Chats, UploadFailed(c)
  PROVE  TypeInv'
<1>1. chat[c] \in ChatState /\ chat[c].uploads - 1 \in 0..MaxUploads
  BY InUse, UploadsType DEF UploadFailed
<1>2. [chat[c] EXCEPT !.uploads = @ - 1] \in ChatState
  BY <1>1 DEF ChatState
<1>3. chat' \in [Chats -> ChatState] /\ OnConv'
  BY <1>1, <1>2, ChatStep DEF UploadFailed, ChatState
<1>4. QED
  BY <1>3 DEF UploadFailed, TypeInv, TypeOK, names

LEMMA PickPhotoTyped ==
  ASSUME TypeInv, NEW c \in Chats, PickPhoto(c)
  PROVE  TypeInv'
<1>1. chat[c] \in ChatState /\ chat[c].uploads < MaxUploads
  BY InUse DEF PickPhoto, OnTop
<1>2. chat[c].uploads + 1 \in 0..MaxUploads
  BY <1>1, ChatAssumption DEF ChatState
<1>3. [chat[c] EXCEPT !.uploads = @ + 1] \in ChatState
  BY <1>1, <1>2 DEF ChatState
<1>4. chat' \in [Chats -> ChatState] /\ OnConv'
  BY <1>1, <1>3, ChatStep DEF PickPhoto, ChatState
<1>5. QED
  BY <1>4 DEF PickPhoto, TypeInv, TypeOK, names

LEMMA TapTyped ==
  ASSUME TypeInv, NEW c \in Chats, NEW m \in Ids, Tap(c, m)
  PROVE  TypeInv'
<1>1. chat[c] \in ChatState
  BY InUse DEF Tap, OnTop
<1>2. [chat[c] EXCEPT !.selIds = @ \cup {m}] \in ChatState
  BY <1>1 DEF ChatState
<1>3. chat' \in [Chats -> ChatState] /\ OnConv'
  BY <1>1, <1>2, ChatStep DEF Tap, ChatState
<1>4. QED
  BY <1>3 DEF Tap, TypeInv, TypeOK, names

LEMMA DeleteTyped ==
  ASSUME TypeInv, NEW c \in Chats, Delete(c)
  PROVE  TypeInv'
<1> DEFINE u == chat[c].owner
           recent == chat[c].selIds \cap chat[c].fresh
<1>1. chat[c] \in ChatState /\ u \in Users
  BY InUse DEF Delete, OnTop
<1>2. Cardinality(recent) \in Nat
  BY <1>1, RecentCount DEF ChatState
<1>3. inbox' \in [Users -> InboxState]
  <2>1. inbox \in [Users -> InboxState] /\ inbox[u].unread \in Int
    BY <1>1 DEF TypeInv, TypeOK, names, InboxState
  <2> HIDE DEF recent
  <2>2. inbox[u].unread - Cardinality(recent) \in Int
    BY <1>2, <2>1
  <2>3. [inbox[u] EXCEPT !.unread = @ - Cardinality(recent)] \in InboxState
    BY <1>1, <2>1, <2>2, UnreadType
  <2>4. QED
    BY <1>1, <2>1, <2>3 DEF Delete, recent
<1>4. [chat[c] EXCEPT !.fresh = @ \ recent] \in ChatState
  BY <1>1 DEF ChatState
<1>5. chat' \in [Chats -> ChatState] /\ OnConv'
  BY <1>1, <1>4, ChatStep DEF Delete, ChatState
<1>6. thread' \subseteq 1..Len(log)
  BY DEF Delete, TypeInv, TypeOK, names
<1>7. QED
  BY <1>3, <1>5, <1>6 DEF Delete, TypeInv, TypeOK, names

LEMMA NameTyped ==
  ASSUME TypeInv, NEW u \in Users, NameCommitted(u) \/ InboxCrashes(u)
  PROVE  TypeInv'
BY DEF NameCommitted, InboxCrashes, TypeInv, TypeOK, names, OnConv

LEMMA CrashTyped ==
  ASSUME TypeInv, NEW c \in Chats, DeleteCrashes(c) \/ ThreadSnapshotCrashes(c)
  PROVE  TypeInv'
<1>1. thread' \subseteq thread
  BY DEF DeleteCrashes, ThreadSnapshotCrashes
<1>2. screen' \in [Users -> {"home", "inbox", "crashed"} \cup Chats]
  BY DEF DeleteCrashes, ThreadSnapshotCrashes, TypeInv, TypeOK, names
<1>3. QED
  BY <1>1, <1>2 DEF DeleteCrashes, ThreadSnapshotCrashes, TypeInv, TypeOK, names, OnConv

\* The screen's record after a snapshot.
LEMMA ThreadSnapshotState ==
  ASSUME TypeInv, NEW c \in Chats, chat[c].owner # NoOne,
         NEW texts \in SUBSET Ids, NEW photos \in SUBSET Ids, NEW now \in SUBSET Ids,
         NEW old \in SUBSET Ids, NEW news \in SUBSET Ids
  PROVE  [chat[c] EXCEPT !.seen = now, !.shown = old \cup texts,
                         !.loading = @ \cup photos, !.fresh = news] \in ChatState
BY InUse DEF ChatState

LEMMA ThreadSnapshotTyped ==
  ASSUME TypeInv, NEW c \in Chats, ThreadSnapshot(c)
  PROVE  TypeInv'
<1> DEFINE s == chat[c]
           now == InConv(s.conv)
           removed == s.seen \ now
           added == now \ s.seen
           texts == {m \in added : ~log[m].photo}
           old == IF removed = {} THEN s.shown ELSE AfterRemoval(s)
           news == IF s.isNewMsg THEN s.fresh \cup texts ELSE s.fresh
           t == [s EXCEPT !.seen = now, !.shown = old \cup texts,
                          !.loading = @ \cup (added \ texts), !.fresh = news]
           w == [kind |-> "count", conv |-> s.conv, by |-> s.owner,
                 unread |-> Corrected(inbox[s.owner].unread), timestamp |-> 0]
<1>1. s \in ChatState /\ s.owner # NoOne /\ s.owner \in Users /\ s.conv \in Convs
  BY InUse DEF ThreadSnapshot
<1>2. now \in SUBSET Ids
  BY ThreadIds DEF TypeInv
<1>3. texts \in SUBSET Ids /\ (added \ texts) \in SUBSET Ids
      /\ old \in SUBSET Ids /\ news \in SUBSET Ids
  BY <1>1, <1>2 DEF AfterRemoval, ChatState
<1>4. t \in ChatState
  BY <1>1, <1>2, <1>3, ThreadSnapshotState
<1>5. chat' = [chat EXCEPT ![c] = t]
  BY DEF ThreadSnapshot, TypeInv, TypeOK, names
<1>6. t.owner = s.owner /\ t.conv = s.conv
  BY <1>1 DEF ChatState
<1>7. chat' \in [Chats -> ChatState] /\ OnConv'
  BY <1>4, <1>5, <1>6, ChatStep
<1>8. outbox' = outbox \/ Issue(s.owner, w)
  BY DEF ThreadSnapshot
<1>9. inbox[s.owner].unread \in Int
  BY <1>1 DEF TypeInv, TypeOK, names, InboxState
<1>10. w \in Write
  BY <1>1, <1>9 DEF Write, Corrected
<1>11. outbox' \in [Users -> Seq(Write)]
  BY <1>1, <1>8, <1>10, IssueType DEF TypeInv, TypeOK, names
<1>12. QED
  BY <1>7, <1>11 DEF ThreadSnapshot, TypeInv, TypeOK, names

LEMMA PhotoLoadedTyped ==
  ASSUME TypeInv, NEW c \in Chats, NEW m \in Ids, PhotoLoaded(c, m) \/ PhotoNotLoaded(c, m)
  PROVE  TypeInv'
<1>1. chat[c] \in ChatState
  BY InUse DEF PhotoLoaded, PhotoNotLoaded
<1>2. CASE PhotoLoaded(c, m)
  <2>1. (IF chat[c].isNewMsg THEN chat[c].fresh \cup {m} ELSE chat[c].fresh) \in SUBSET Ids
    BY <1>1 DEF ChatState
  <2> DEFINE t == [chat[c] EXCEPT !.loading = @ \ {m}, !.shown = @ \cup {m},
                     !.fresh = IF chat[c].isNewMsg THEN chat[c].fresh \cup {m}
                               ELSE chat[c].fresh]
  <2>2. t \in ChatState /\ t.owner = chat[c].owner /\ t.conv = chat[c].conv
    BY <1>1, <2>1 DEF ChatState
  <2>3. chat' = [chat EXCEPT ![c] = t]
    BY <1>2 DEF PhotoLoaded, TypeInv, TypeOK, names
  <2>4. chat' \in [Chats -> ChatState] /\ OnConv'
    BY <2>2, <2>3, ChatStep
  <2>5. QED
    BY <1>2, <2>4 DEF PhotoLoaded, TypeInv, TypeOK, names
<1>3. CASE PhotoNotLoaded(c, m)
  <2>1. [chat[c] EXCEPT !.loading = @ \ {m}] \in ChatState
    BY <1>1 DEF ChatState
  <2>2. chat' \in [Chats -> ChatState] /\ OnConv'
    BY <1>1, <1>3, <2>1, ChatStep DEF PhotoNotLoaded, ChatState
  <2>3. QED
    BY <1>3, <2>2 DEF PhotoNotLoaded, TypeInv, TypeOK, names
<1>4. QED
  BY <1>2, <1>3

LEMMA SnapshotTyped ==
  ASSUME TypeInv, NEW u \in Users, RecSnapshot(u) \/ SendSnapshot(u)
  PROVE  TypeInv'
<1>1. inbox[u] \in InboxState /\ RecResult(u) \in [Convs -> Doc]
      /\ SendResult(u) \in [Convs -> Doc]
  BY ResultTypes DEF TypeInv, TypeOK, names
<1>2. inbox' \in [Users -> InboxState]
  <2>1. CASE RecSnapshot(u)
    <3>1. PICK last \in LastMembers(u, inbox[u], RecResult(u)) :
            inbox' = [inbox EXCEPT ![u] = RecCallback(u, @, RecResult(u), last)]
      BY <2>1 DEF RecSnapshot
    <3>2. RecCallback(u, inbox[u], RecResult(u), last) \in InboxState
      BY <1>1, LastMembersType, RecCallbackType DEF TypeInv
    <3>3. QED
      BY <3>1, <3>2 DEF TypeInv, TypeOK, names
  <2>2. CASE SendSnapshot(u)
    <3>1. SendCallback(u, inbox[u], SendResult(u)) \in InboxState
      BY <1>1, SendCallbackType DEF TypeInv
    <3>2. QED
      BY <2>2, <3>1 DEF SendSnapshot, TypeInv, TypeOK, names
  <2>3. QED
    BY <2>1, <2>2
<1>3. QED
  BY <1>2 DEF RecSnapshot, SendSnapshot, TypeInv, TypeOK, names, OnConv

LEMMA NextTyped ==
  ASSUME TypeInv, [Next]_vars
  PROVE  TypeInv'
<1>1. ASSUME NEW u \in Users, ShowInbox(u) \/ ShowHome(u) \/ Relaunch(u)
      PROVE  TypeInv'
  <2>1. CASE ShowHome(u)
    BY <2>1 DEF ShowHome, TypeInv, TypeOK, names, OnConv
  <2>2. QED
    BY <1>1, <2>1, ShowInboxTyped, RelaunchTyped
<1>2. ASSUME NEW u \in Users, NEW k \in Convs, NEW c \in Chats,
             OpenFromHome(u, k, c) \/ OpenFromInbox(u, k, c)
      PROVE  TypeInv'
  BY <1>2, OpenFromHomeTyped, OpenFromInboxTyped
<1>3. ASSUME NEW c \in Chats,
             Back(c) \/ SendText(c) \/ PickPhoto(c) \/ Delete(c) \/ DeleteCrashes(c)
      PROVE  TypeInv'
  BY <1>3, BackTyped, SendTextTyped, PickPhotoTyped, DeleteTyped, CrashTyped
<1>4. ASSUME NEW u \in Users, \/ Commit(u) \/ NameCommitted(u)
                              \/ RecSnapshot(u) \/ SendSnapshot(u) \/ InboxCrashes(u)
      PROVE  TypeInv'
  BY <1>4, CommitTyped, NameTyped, SnapshotTyped
<1>5. ASSUME NEW c \in Chats, PhotoUploaded(c) \/ UploadFailed(c)
                              \/ ThreadSnapshot(c) \/ ThreadSnapshotCrashes(c)
      PROVE  TypeInv'
  BY <1>5, PhotoUploadedTyped, UploadFailedTyped, ThreadSnapshotTyped, CrashTyped
<1>6. ASSUME NEW c \in Chats, NEW m \in Ids,
             Tap(c, m) \/ PhotoLoaded(c, m) \/ PhotoNotLoaded(c, m)
      PROVE  TypeInv'
  BY <1>6, TapTyped, PhotoLoadedTyped
<1>7. CASE UNCHANGED vars
  BY <1>7 DEF vars, TypeInv, TypeOK, names, OnConv
<1>8. QED
  BY <1>1, <1>2, <1>3, <1>4, <1>5, <1>6, <1>7 DEF Next, UserStep, SystemStep

\* Every variable keeps its type, whatever the devices, the server and the
\* listeners do in whatever order, and every screen in use is on a conversation.
THEOREM TypeInvariant == Spec => []TypeInv
BY InitTyped, NextTyped, PTL DEF Spec

\* The type invariant the runs check.
THEOREM TypeCorrect == Spec => []TypeOK
<1>1. TypeInv => TypeOK
  BY DEF TypeInv
<1>2. QED
  BY <1>1, TypeInvariant, PTL


-----------------------------------------------------------------------------
(* Each conversation is listed once.  Both listeners clear the other side's *)
(* row of a conversation they list, so the property is inductive.           *)

LEMMA ListedOnceStep ==
  ASSUME TypeInv, ListedOnce, [Next]_vars
  PROVE  ListedOnce'
<1>1. inbox \in [Users -> InboxState]
  BY DEF TypeInv, TypeOK
<1>2. ASSUME NEW u \in Users, RecSnapshot(u)
      PROVE  ListedOnce'
  <2>1. PICK last \in LastMembers(u, inbox[u], RecResult(u)) :
          inbox' = [inbox EXCEPT ![u] = RecCallback(u, @, RecResult(u), last)]
    BY <1>2 DEF RecSnapshot
  <2> DEFINE ib == RecCallback(u, inbox[u], RecResult(u), last)
  <2>2. \A k \in Convs : ib.recSide[k].listed => ~ib.sendSide[k].listed
    BY <1>1 DEF RecCallback, InboxState, NoRow
  <2> HIDE DEF ib
  <2>3. QED
    BY <1>1, <2>1, <2>2 DEF ListedOnce, ib
<1>3. ASSUME NEW u \in Users, SendSnapshot(u)
      PROVE  ListedOnce'
  <2> DEFINE ib == SendCallback(u, inbox[u], SendResult(u))
  <2>1. \A k \in Convs : ib.recSide[k].listed => ~ib.sendSide[k].listed
    BY <1>1 DEF SendCallback, InboxState, NoRow
  <2> HIDE DEF ib
  <2>2. QED
    BY <1>1, <1>3, <2>1 DEF SendSnapshot, ListedOnce, ib
<1>4. ASSUME NEW u \in Users, Relaunch(u)
      PROVE  ListedOnce'
  BY <1>1, <1>4 DEF Relaunch, InitInbox, NoRow, ListedOnce
<1>5. ASSUME \A u \in Users : inbox'[u].recSide = inbox[u].recSide
                              /\ inbox'[u].sendSide = inbox[u].sendSide
      PROVE  ListedOnce'
  BY <1>5 DEF ListedOnce
<1>6. ASSUME NEW u \in Users, ShowInbox(u)
      PROVE  ListedOnce'
  BY <1>1, <1>5, <1>6 DEF ShowInbox, InboxState
<1>7. ASSUME NEW u \in Users, NEW k \in Convs, NEW c \in Chats, OpenFromInbox(u, k, c)
      PROVE  ListedOnce'
  BY <1>1, <1>5, <1>7 DEF OpenFromInbox, InboxState
<1>8. ASSUME NEW c \in Chats, Back(c)
      PROVE  ListedOnce'
  BY <1>1, <1>5, <1>8 DEF Back, InboxState
<1>9. ASSUME NEW c \in Chats, SendText(c) \/ PhotoUploaded(c) \/ Delete(c)
      PROVE  ListedOnce'
  BY <1>1, <1>5, <1>9 DEF SendText, PhotoUploaded, Delete, Save, InboxState
<1>10. CASE UNCHANGED inbox
  BY <1>5, <1>10
<1>11. QED
  BY <1>2, <1>3, <1>4, <1>6, <1>7, <1>8, <1>9, <1>10
  DEF Next, UserStep, SystemStep, vars, NameCommitted, InboxCrashes, ShowHome, OpenFromHome,
      PickPhoto, Tap,
      DeleteCrashes, Commit, UploadFailed, ThreadSnapshot, ThreadSnapshotCrashes,
      PhotoLoaded, PhotoNotLoaded

\* A conversation never has two rows, in any order of the two listeners.
THEOREM ListedOnceHolds == Spec => []ListedOnce
<1>1. Init => ListedOnce
  BY DEF Init, InitInbox, NoRow, ListedOnce
<1>2. TypeInv /\ ListedOnce /\ [Next]_vars => ListedOnce'
  BY ListedOnceStep
<1>3. QED
  BY <1>1, <1>2, TypeInvariant, PTL DEF Spec

-----------------------------------------------------------------------------
(* Unread counters.  The copies read one another, so the bound is inductive *)
(* only if it covers every copy, pending writes included.                   *)

RowsBounded(rows) == \A k \in Convs : rows[k].unread <= Len(log)

DocsBounded == \A k \in Convs : doc[k].unread <= Len(log)

WritesBounded ==
  \A u \in Users : \A i \in 1..Len(outbox[u]) : outbox[u][i].unread <= Len(log)

InboxBounded(ib) ==
  /\ ib.unread <= Len(log)
  /\ RowsBounded(ib.acc) /\ RowsBounded(ib.recSide) /\ RowsBounded(ib.sendSide)

UnreadInv ==
  /\ DocsBounded
  /\ WritesBounded
  /\ \A u \in Users : InboxBounded(inbox[u])


\* The log only grows.
LEMMA LogGrows ==
  ASSUME TypeInv, [Next]_vars
  PROVE  /\ Len(log) \in Nat /\ Len(log') \in Nat /\ Len(log) <= Len(log')
         /\ \A m \in 1..Len(log) : log'[m] = log[m]
<1>1. log \in Seq(Message) /\ Len(log) \in Nat
  BY LenProperties DEF TypeInv, TypeOK
<1>2. ASSUME NEW c \in Chats, chat[c].owner # NoOne, NEW photo \in BOOLEAN, Save(c, photo)
      PROVE  Len(log') = Len(log) + 1 /\ \A m \in 1..Len(log) : log'[m] = log[m]
  <2>1. [from |-> chat[c].owner, conv |-> chat[c].conv, photo |-> photo] \in Message
    BY <1>2, InUse DEF Message
  <2>2. log' = Append(log, [from |-> chat[c].owner, conv |-> chat[c].conv, photo |-> photo])
    BY <1>2 DEF Save
  <2>3. QED
    BY <1>1, <2>1, <2>2, AppendProperties
<1>3. ASSUME NEW c \in Chats, SendText(c) \/ PhotoUploaded(c)
      PROVE  Len(log') = Len(log) + 1 /\ \A m \in 1..Len(log) : log'[m] = log[m]
  BY <1>2, <1>3 DEF SendText, PhotoUploaded, OnTop
<1>4. \/ UNCHANGED log
      \/ \E c \in Chats : SendText(c) \/ PhotoUploaded(c)
  BY DEF Next, UserStep, SystemStep, vars, NameCommitted, InboxCrashes, ShowInbox, ShowHome,
         Relaunch, OpenFromHome,
         OpenFromInbox, Back, PickPhoto, Delete, DeleteCrashes, Tap, Commit, RecSnapshot,
         SendSnapshot, UploadFailed, ThreadSnapshot, ThreadSnapshotCrashes, PhotoLoaded,
         PhotoNotLoaded
<1>5. CASE UNCHANGED log
  BY <1>1, <1>5
<1>6. CASE \E c \in Chats : SendText(c) \/ PhotoUploaded(c)
  BY <1>1, <1>3, <1>6
<1>7. QED
  BY <1>4, <1>5, <1>6

\* A bounded write added to bounded ones.
LEMMA IssueBounded ==
  ASSUME TypeInv, WritesBounded, NEW u \in Users, NEW w \in Write, Issue(u, w),
         Len(log) \in Nat, Len(log') \in Nat, Len(log) <= Len(log'),
         w.unread <= Len(log')
  PROVE  WritesBounded'
<1>1. outbox \in [Users -> Seq(Write)] /\ outbox[u] \in Seq(Write)
  BY DEF TypeInv, TypeOK
<1>2. outbox' = [outbox EXCEPT ![u] = Append(outbox[u], w)]
  BY DEF Issue
<1>3. ASSUME NEW v \in Users, NEW i \in 1..Len(outbox'[v])
      PROVE  outbox'[v][i].unread <= Len(log')
  <2>1. ASSUME NEW j \in 1..Len(outbox[v])
        PROVE  outbox[v][j].unread <= Len(log')
    <3>1. outbox[v][j] \in Write
      BY <1>1, ElementOfSeq
    <3>2. outbox[v][j].unread \in Int /\ outbox[v][j].unread <= Len(log)
      BY <3>1 DEF WritesBounded, Write
    <3>3. QED
      BY <3>2
  <2>2. CASE v = u
    <3>1. outbox'[v] = Append(outbox[u], w)
      BY <1>1, <1>2, <2>2
    <3>2. Len(outbox'[v]) = Len(outbox[u]) + 1 /\ outbox'[v][Len(outbox[u]) + 1] = w
          /\ \A j \in 1..Len(outbox[u]) : outbox'[v][j] = outbox[u][j]
      BY <1>1, <3>1, AppendProperties
    <3>3. Len(outbox[u]) \in Nat
      BY <1>1, LenProperties
    <3>4. i \in 1..Len(outbox[u]) \/ i = Len(outbox[u]) + 1
      BY <3>2, <3>3
    <3>5. QED
      BY <2>1, <2>2, <3>2, <3>4
  <2>3. CASE v # u
    BY <1>1, <1>2, <2>1, <2>3
  <2>4. QED
    BY <2>2, <2>3
<1>4. QED
  BY <1>3 DEF WritesBounded

\* What is bounded stays bounded as the log grows.
LEMMA BoundedFrame ==
  ASSUME TypeInv, UnreadInv,
         Len(log) \in Nat, Len(log') \in Nat, Len(log) <= Len(log')
  PROVE  /\ \A k \in Convs : doc[k].unread <= Len(log')
         /\ \A u \in Users : \A i \in 1..Len(outbox[u]) : outbox[u][i].unread <= Len(log')
         /\ \A u \in Users : /\ inbox[u].unread <= Len(log')
                             /\ \A k \in Convs : /\ inbox[u].acc[k].unread <= Len(log')
                                                 /\ inbox[u].recSide[k].unread <= Len(log')
                                                 /\ inbox[u].sendSide[k].unread <= Len(log')
<1>1. ASSUME NEW k \in Convs
      PROVE  doc[k].unread <= Len(log')
  <2>1. doc[k].unread \in Int /\ doc[k].unread <= Len(log)
    BY DEF TypeInv, TypeOK, Doc, UnreadInv, DocsBounded
  <2>2. QED
    BY <2>1
<1>2. ASSUME NEW u \in Users, NEW i \in 1..Len(outbox[u])
      PROVE  outbox[u][i].unread <= Len(log')
  <2>1. outbox[u][i] \in Write
    BY ElementOfSeq DEF TypeInv, TypeOK
  <2>2. outbox[u][i].unread \in Int /\ outbox[u][i].unread <= Len(log)
    BY <2>1 DEF Write, UnreadInv, WritesBounded
  <2>3. QED
    BY <2>2
<1>3. ASSUME NEW u \in Users, NEW k \in Convs
      PROVE  /\ inbox[u].acc[k].unread <= Len(log')
             /\ inbox[u].recSide[k].unread <= Len(log')
             /\ inbox[u].sendSide[k].unread <= Len(log')
  <2>1. inbox[u].acc[k] \in Row /\ inbox[u].recSide[k] \in Row /\ inbox[u].sendSide[k] \in Row
    BY DEF TypeInv, TypeOK, InboxState
  <2>2. InboxBounded(inbox[u])
    BY DEF UnreadInv
  <2>3. QED
    BY <2>1, <2>2 DEF Row, InboxBounded, RowsBounded
<1>4. ASSUME NEW u \in Users
      PROVE  inbox[u].unread <= Len(log')
  <2>1. inbox[u].unread \in Int /\ inbox[u].unread <= Len(log)
    BY DEF TypeInv, TypeOK, InboxState, UnreadInv, InboxBounded
  <2>2. QED
    BY <2>1
<1>5. QED
  BY <1>1, <1>2, <1>3, <1>4

\* The view of a device is bounded like the document and the writes over it.
LEMMA ViewBounded ==
  ASSUME TypeInv, UnreadInv, NEW u \in Users, NEW k \in Convs, Len(log) \in Nat
  PROVE  View(u, k).unread <= Len(log)
<1> DEFINE set == LastPending(u, k, {"set"})
           any == LastPending(u, k, {"set", "clear", "count"})
<1>1. any # {} => outbox[u][CHOOSE i \in any : TRUE].unread <= Len(log)
  BY ChosenPending DEF UnreadInv, WritesBounded
<1>2. doc[k].unread <= Len(log)
  BY DEF UnreadInv, DocsBounded
<1> HIDE DEF any
<1>3. View(u, k).unread = IF doc[k].sender = NoOne /\ set = {} THEN 0
                          ELSE IF any = {} THEN doc[k].unread
                          ELSE outbox[u][CHOOSE i \in any : TRUE].unread
  BY DEF View, NoDoc, any
<1>4. QED
  BY <1>1, <1>2, <1>3

\* So are the results of the two queries.
LEMMA ResultsBounded ==
  ASSUME TypeInv, UnreadInv, NEW u \in Users, NEW k \in Convs, Len(log) \in Nat
  PROVE  RecResult(u)[k].unread <= Len(log) /\ SendResult(u)[k].unread <= Len(log)
BY ViewBounded DEF RecResult, SendResult, NoDoc

LEMMA RecCallbackBounded ==
  ASSUME NEW u \in Users, NEW ib \in InboxState, InboxBounded(ib), Len(log) \in Nat,
         NEW result \in [Convs -> Doc], \A k \in Convs : result[k].unread <= Len(log),
         NEW last
  PROVE  InboxBounded(RecCallback(u, ib, result, last))
<1> DEFINE acc == [k \in Convs |-> IF k \in Found(result) /\ Nameable(u, k)
                                   THEN RecRow(u, result[k]) ELSE ib.acc[k]]
           side == [k \in Convs |-> IF acc[k].listed THEN NoRow ELSE ib.sendSide[k]]
           n == IF ib.sel \in Found(result) THEN result[ib.sel].unread ELSE ib.unread
           new == RecCallback(u, ib, result, last)
<1>1. new.acc = acc /\ new.recSide = acc /\ new.sendSide = side /\ new.unread = n
  BY DEF RecCallback, InboxState
<1>2. \A k \in Convs : acc[k].unread <= Len(log)
  BY DEF RecRow, InboxBounded, RowsBounded
<1>3. \A k \in Convs : side[k].unread <= Len(log)
  BY DEF NoRow, InboxBounded, RowsBounded
<1>4. n <= Len(log)
  BY DEF Found, InboxBounded
<1> HIDE DEF acc, side, n, new
<1>5. QED
  BY <1>1, <1>2, <1>3, <1>4 DEF InboxBounded, RowsBounded, new

LEMMA SendCallbackBounded ==
  ASSUME NEW u \in Users, NEW ib \in InboxState, InboxBounded(ib), Len(log) \in Nat,
         NEW result \in [Convs -> Doc], \A k \in Convs : result[k].unread <= Len(log)
  PROVE  InboxBounded(SendCallback(u, ib, result))
<1> DEFINE rows == [k \in Convs |-> IF k \in Found(result) /\ Nameable(u, k)
                                    THEN SendRow(result[k]) ELSE NoRow]
           side == [k \in Convs |-> IF rows[k].listed THEN NoRow ELSE ib.recSide[k]]
           n == IF ib.sel \in Found(result) THEN result[ib.sel].unread ELSE ib.unread
           new == SendCallback(u, ib, result)
<1>1. new.acc = ib.acc /\ new.recSide = side /\ new.sendSide = rows /\ new.unread = n
  BY DEF SendCallback, InboxState
<1>2. \A k \in Convs : rows[k].unread <= Len(log)
  BY DEF SendRow, NoRow
<1>3. \A k \in Convs : side[k].unread <= Len(log)
  BY DEF NoRow, InboxBounded, RowsBounded
<1>4. n <= Len(log)
  BY DEF Found, InboxBounded
<1> HIDE DEF rows, side, n, new
<1>5. QED
  BY <1>1, <1>2, <1>3, <1>4 DEF InboxBounded, RowsBounded, new

LEMMA RowOfBounded ==
  ASSUME UnreadInv, NEW u \in Users, NEW k \in Convs
  PROVE  RowOf(u, k).unread <= Len(log)
BY DEF UnreadInv, InboxBounded, RowsBounded, RowOf

\* One inbox changes its counter to a bounded one, and nothing of its rows.
LEMMA InboxStep ==
  ASSUME TypeInv, UnreadInv, Len(log) \in Nat, Len(log') \in Nat, Len(log) <= Len(log'),
         \A u \in Users : /\ inbox'[u].acc = inbox[u].acc
                          /\ inbox'[u].recSide = inbox[u].recSide
                          /\ inbox'[u].sendSide = inbox[u].sendSide
                          /\ \/ inbox'[u].unread = inbox[u].unread
                             \/ inbox'[u].unread <= Len(log')
  PROVE  \A u \in Users : InboxBounded(inbox[u])'
BY BoundedFrame DEF InboxBounded, RowsBounded

\* An inbox assigns its counter, or selects a conversation.
LEMMA InboxAssigned ==
  ASSUME inbox \in [Users -> InboxState], NEW u \in Users, NEW n, NEW k,
         \/ inbox' = [inbox EXCEPT ![u].unread = n]
         \/ inbox' = [inbox EXCEPT ![u].sel = k, ![u].unread = n]
  PROVE  \A v \in Users : /\ inbox'[v].acc = inbox[v].acc
                          /\ inbox'[v].recSide = inbox[v].recSide
                          /\ inbox'[v].sendSide = inbox[v].sendSide
                          /\ \/ inbox'[v].unread = inbox[v].unread
                             \/ inbox'[v].unread = n
<1> SUFFICES ASSUME NEW v \in Users
             PROVE  /\ inbox'[v].acc = inbox[v].acc
                    /\ inbox'[v].recSide = inbox[v].recSide
                    /\ inbox'[v].sendSide = inbox[v].sendSide
                    /\ \/ inbox'[v].unread = inbox[v].unread
                       \/ inbox'[v].unread = n
  OBVIOUS
<1>1. CASE v # u
  BY <1>1
<1>2. CASE v = u
  <2>1. \/ inbox'[u] = [inbox[u] EXCEPT !.unread = n]
        \/ inbox'[u] = [inbox[u] EXCEPT !.sel = k, !.unread = n]
    OBVIOUS
  <2>2. inbox[u] \in InboxState
    OBVIOUS
  <2>3. QED
    BY <1>2, <2>1, <2>2 DEF InboxState
<1>3. QED
  BY <1>1, <1>2

\* Sending: the new counter is that of the inbox, plus the message just logged.
LEMMA SaveBounded ==
  ASSUME TypeInv, UnreadInv, NEW c \in Chats, chat[c].owner # NoOne, NEW photo \in BOOLEAN,
         Save(c, photo), UNCHANGED doc
  PROVE  UnreadInv'
<1> DEFINE u == chat[c].owner
           w == [kind |-> "set", conv |-> chat[c].conv, by |-> u,
                 unread |-> NextUnread(c), timestamp |-> Len(log) + 1]
<1>1. u \in Users /\ chat[c].conv \in Convs
  BY InUse
<1>2. Len(log) \in Nat /\ Len(log') = Len(log) + 1
  BY SaveType, ThreadIds DEF TypeInv
<1>3. NextUnread(c) \in Int /\ NextUnread(c) <= Len(log')
  BY <1>1, <1>2 DEF NextUnread, UnreadInv, InboxBounded, TypeInv, TypeOK, InboxState
<1>4. w \in Write
  <2>1. Len(log) + 1 \in Ids
    BY <1>2, ChatAssumption DEF Save, Ids
  <2>2. QED
    BY <1>1, <1>3, <2>1 DEF Write
<1>5. WritesBounded'
  <2>1. Issue(u, w)
    BY DEF Save
  <2>2. QED
    BY <1>1, <1>2, <1>3, <1>4, <2>1, IssueBounded DEF UnreadInv
<1>6. \A v \in Users : InboxBounded(inbox[v])'
  <2>1. inbox' = inbox \/ inbox' = [inbox EXCEPT ![u].unread = NextUnread(c)]
    BY DEF Save
  <2>2. \A v \in Users : /\ inbox'[v].acc = inbox[v].acc
                         /\ inbox'[v].recSide = inbox[v].recSide
                         /\ inbox'[v].sendSide = inbox[v].sendSide
                         /\ \/ inbox'[v].unread = inbox[v].unread
                            \/ inbox'[v].unread = NextUnread(c)
    BY <1>1, <2>1, InboxAssigned DEF TypeInv, TypeOK
  <2>3. QED
    BY <1>2, <1>3, <2>2, InboxStep
<1>7. DocsBounded'
  BY <1>2, BoundedFrame DEF DocsBounded
<1>8. QED
  BY <1>5, <1>6, <1>7 DEF UnreadInv

LEMMA UnreadStep ==
  ASSUME TypeInv, UnreadInv, [Next]_vars
  PROVE  UnreadInv'
<1>1. Len(log) \in Nat /\ Len(log') \in Nat /\ Len(log) <= Len(log')
  BY LogGrows
<1>2. inbox \in [Users -> InboxState] /\ outbox \in [Users -> Seq(Write)]
      /\ doc \in [Convs -> Doc]
  BY DEF TypeInv, TypeOK
\* The parts an action leaves alone.
<1>3. UNCHANGED <<doc, log>> => DocsBounded'
  BY DEF UnreadInv, DocsBounded
<1>4. UNCHANGED <<outbox, log>> => WritesBounded'
  BY DEF UnreadInv, WritesBounded
<1>5. UNCHANGED <<inbox, log>> => \A u \in Users : InboxBounded(inbox[u])'
  BY DEF UnreadInv, InboxBounded, RowsBounded
<1>6. ASSUME NEW u \in Users, ShowInbox(u)
      PROVE  UnreadInv'
  <2>1. \A v \in Users : InboxBounded(inbox[v])'
    BY <1>1, <1>2, <1>6, InboxStep DEF ShowInbox, InboxState
  <2>2. QED
    BY <1>3, <1>4, <1>6, <2>1 DEF ShowInbox, UnreadInv
<1>7. ASSUME NEW u \in Users, Relaunch(u)
      PROVE  UnreadInv'
  <2>1. InboxBounded(InitInbox)
    BY <1>1 DEF InitInbox, InboxBounded, RowsBounded, NoRow
  <2>2. log' = log /\ inbox' = [inbox EXCEPT ![u] = InitInbox]
    BY <1>7 DEF Relaunch
  <2>3. \A v \in Users : InboxBounded(inbox[v])'
    BY <1>2, <2>1, <2>2 DEF UnreadInv, InboxBounded, RowsBounded
  <2>4. QED
    BY <1>3, <1>4, <1>7, <2>3 DEF Relaunch, UnreadInv
<1>8. ASSUME NEW u \in Users, NEW k \in Convs, NEW c \in Chats, OpenFromInbox(u, k, c)
      PROVE  UnreadInv'
  <2>1. RowOf(u, k).unread <= Len(log)
    BY RowOfBounded
  <2>2. \A v \in Users : InboxBounded(inbox[v])'
    <3>1. inbox' = [inbox EXCEPT ![u].sel = k, ![u].unread = RowOf(u, k).unread]
          /\ log' = log
      BY <1>8 DEF OpenFromInbox
    <3>2. \A v \in Users : /\ inbox'[v].acc = inbox[v].acc
                           /\ inbox'[v].recSide = inbox[v].recSide
                           /\ inbox'[v].sendSide = inbox[v].sendSide
                           /\ \/ inbox'[v].unread = inbox[v].unread
                              \/ inbox'[v].unread = RowOf(u, k).unread
      BY <1>2, <3>1, InboxAssigned
    <3>3. QED
      BY <1>1, <2>1, <3>1, <3>2, InboxStep
  <2>3. ReadReset(u, k) \in Write /\ ReadReset(u, k).unread = 0
    BY ReadResetType DEF ReadReset
  <2>4. WritesBounded'
    BY <1>1, <1>4, <1>8, <2>3, IssueBounded DEF OpenFromInbox, UnreadInv
  <2>5. QED
    BY <1>3, <1>8, <2>2, <2>4 DEF OpenFromInbox, UnreadInv
<1>9. ASSUME NEW c \in Chats, Back(c)
      PROVE  UnreadInv'
  <2> DEFINE u == chat[c].owner
  <2>1. u \in Users
    BY <1>9, InUse DEF Back, OnTop
  <2>2. \A v \in Users : InboxBounded(inbox[v])'
    <3>1. (inbox' = inbox \/ inbox' = [inbox EXCEPT ![u].sel = NoConv]) /\ log' = log
      BY <1>9 DEF Back
    <3>2. \A v \in Users : /\ inbox'[v].acc = inbox[v].acc
                           /\ inbox'[v].recSide = inbox[v].recSide
                           /\ inbox'[v].sendSide = inbox[v].sendSide
                           /\ inbox'[v].unread = inbox[v].unread
      <4>1. \A v \in Users : \/ inbox'[v] = inbox[v]
                             \/ inbox'[v] = [inbox[v] EXCEPT !.sel = NoConv]
        BY <1>2, <3>1
      <4>2. ASSUME NEW ib \in InboxState, NEW jb, jb = [ib EXCEPT !.sel = NoConv]
            PROVE  /\ jb.acc = ib.acc /\ jb.recSide = ib.recSide
                   /\ jb.sendSide = ib.sendSide /\ jb.unread = ib.unread
        BY <4>2 DEF InboxState
      <4>3. \A v \in Users : inbox[v] \in InboxState
        BY <1>2
      <4>4. QED
        BY <4>1, <4>2, <4>3
    <3>3. QED
      BY <1>1, <3>2, InboxStep
  <2>3. inbox[u].sel # NoConv => inbox[u].sel \in Convs
    BY <1>2, <2>1 DEF InboxState
  <2>4. inbox[u].sel # NoConv =>
          ReadReset(u, inbox[u].sel) \in Write /\ ReadReset(u, inbox[u].sel).unread = 0
    BY <2>1, <2>3, ReadResetType DEF ReadReset
  <2>5. outbox' = outbox \/ (inbox[u].sel # NoConv /\ Issue(u, ReadReset(u, inbox[u].sel)))
    BY <1>9 DEF Back
  <2>6. WritesBounded'
    BY <1>1, <1>4, <1>9, <2>1, <2>4, <2>5, IssueBounded DEF Back, UnreadInv
  <2>7. QED
    BY <1>3, <1>9, <2>2, <2>6 DEF Back, UnreadInv
<1>10. ASSUME NEW c \in Chats, SendText(c) \/ PhotoUploaded(c)
       PROVE  UnreadInv'
  BY <1>10, SaveBounded DEF SendText, PhotoUploaded, OnTop
<1>11. ASSUME NEW c \in Chats, Delete(c)
       PROVE  UnreadInv'
  <2> DEFINE u == chat[c].owner
             n == Cardinality(chat[c].selIds \cap chat[c].fresh)
  <2>1. u \in Users /\ chat[c] \in ChatState
    BY <1>11, InUse DEF Delete, OnTop
  <2>2. n \in Nat
    BY <2>1, RecentCount DEF ChatState
  <2>3. (inbox' = inbox \/ inbox' = [inbox EXCEPT ![u].unread = @ - n]) /\ log' = log
    BY <1>11 DEF Delete
  <2> HIDE DEF n
  <2>4. inbox[u].unread - n <= Len(log)
    BY <1>1, <1>2, <2>1, <2>2 DEF UnreadInv, InboxBounded, InboxState
  <2>5. \A v \in Users : /\ inbox'[v].acc = inbox[v].acc
                         /\ inbox'[v].recSide = inbox[v].recSide
                         /\ inbox'[v].sendSide = inbox[v].sendSide
                         /\ \/ inbox'[v].unread = inbox[v].unread
                            \/ inbox'[v].unread = inbox[u].unread - n
    BY <1>2, <2>1, <2>3, InboxAssigned
  <2>6. \A v \in Users : InboxBounded(inbox[v])'
    BY <1>1, <2>3, <2>4, <2>5, InboxStep
  <2>7. QED
    BY <1>3, <1>4, <1>11, <2>6 DEF Delete, UnreadInv
<1>12. ASSUME NEW c \in Chats, ThreadSnapshot(c)
       PROVE  UnreadInv'
  <2> DEFINE s == chat[c]
             n == Corrected(inbox[s.owner].unread)
             w == [kind |-> "count", conv |-> s.conv, by |-> s.owner,
                   unread |-> n, timestamp |-> 0]
  <2>1. s.owner \in Users /\ s.conv \in Convs
    BY <1>12, InUse DEF ThreadSnapshot
  <2>2. n \in Int /\ n <= Len(log)
    BY <1>1, <1>2, <2>1 DEF Corrected, UnreadInv, InboxBounded, InboxState
  <2>3. w \in Write
    BY <2>1, <2>2 DEF Write
  <2>4. outbox' = outbox \/ Issue(s.owner, w)
    BY <1>12 DEF ThreadSnapshot
  <2>5. log' = log
    BY <1>12 DEF ThreadSnapshot
  <2>6. WritesBounded'
    BY <1>1, <1>4, <2>1, <2>2, <2>3, <2>4, <2>5, IssueBounded DEF UnreadInv
  <2>7. QED
    BY <1>3, <1>5, <1>12, <2>6 DEF ThreadSnapshot, UnreadInv
<1>13. ASSUME NEW u \in Users, Commit(u)
       PROVE  UnreadInv'
  <2> DEFINE w == Head(outbox[u])
  <2>1. outbox[u] \in Seq(Write) /\ outbox[u] # <<>>
    BY <1>2, <1>13 DEF Commit
  <2>2. w \in Write /\ w.conv \in Convs /\ w.unread <= Len(log)
    <3>1. w \in Write /\ w = outbox[u][1] /\ 1 \in 1..Len(outbox[u])
      BY <2>1, HeadTailProperties, LenProperties, EmptySeq
    <3>2. QED
      BY <3>1 DEF Write, UnreadInv, WritesBounded
  <2>3. \A d \in Doc : d.unread <= Len(log) => Apply(d, w).unread <= Len(log)
    BY <1>1, <2>2 DEF Apply, Doc
  <2>4. doc' = [doc EXCEPT ![w.conv] = Apply(@, w)] /\ log' = log
    BY <1>13 DEF Commit
  <2>5. DocsBounded'
    BY <1>2, <2>2, <2>3, <2>4 DEF UnreadInv, DocsBounded
  <2>6. WritesBounded'
    <3>1. \A v \in Users : \A i \in 1..Len(outbox'[v]) :
            \E j \in 1..Len(outbox[v]) : outbox'[v][i] = outbox[v][j]
      <4>1. \A i \in 1..Len(Tail(outbox[u])) :
              i + 1 \in 1..Len(outbox[u]) /\ Tail(outbox[u])[i] = outbox[u][i + 1]
        BY <2>1, HeadTailProperties, LenProperties
      <4>2. outbox' = [outbox EXCEPT ![u] = Tail(@)]
        BY <1>13 DEF Commit
      <4>3. QED
        BY <1>2, <4>1, <4>2
    <3>2. QED
      BY <2>4, <3>1 DEF UnreadInv, WritesBounded
  <2>7. QED
    BY <1>5, <1>13, <2>5, <2>6 DEF Commit, UnreadInv
<1>14. ASSUME NEW u \in Users, RecSnapshot(u) \/ SendSnapshot(u)
       PROVE  UnreadInv'
  <2>1. RecResult(u) \in [Convs -> Doc] /\ SendResult(u) \in [Convs -> Doc]
        /\ \A k \in Convs : RecResult(u)[k].unread <= Len(log)
                            /\ SendResult(u)[k].unread <= Len(log)
    BY <1>1, ResultTypes, ResultsBounded DEF TypeInv
  <2>2. inbox[u] \in InboxState /\ InboxBounded(inbox[u])
    BY <1>2 DEF UnreadInv
  <2>3. \E ib : inbox' = [inbox EXCEPT ![u] = ib] /\ InboxBounded(ib)
    BY <1>1, <1>14, <2>1, <2>2, RecCallbackBounded, SendCallbackBounded
    DEF RecSnapshot, SendSnapshot
  <2>4. log' = log
    BY <1>14 DEF RecSnapshot, SendSnapshot
  <2>5. \A v \in Users : InboxBounded(inbox[v])'
    BY <1>2, <2>3, <2>4 DEF UnreadInv, InboxBounded, RowsBounded
  <2>6. QED
    BY <1>3, <1>4, <1>14, <2>5 DEF RecSnapshot, SendSnapshot, UnreadInv
<1>15. CASE UNCHANGED <<log, doc, outbox, inbox>>
  BY <1>3, <1>4, <1>5, <1>15 DEF UnreadInv
<1>16. QED
  BY <1>6, <1>7, <1>8, <1>9, <1>10, <1>11, <1>12, <1>13, <1>14, <1>15
  DEF Next, UserStep, SystemStep, vars, NameCommitted, InboxCrashes, ShowHome, OpenFromHome,
      PickPhoto, Tap,
      DeleteCrashes, UploadFailed, ThreadSnapshotCrashes, PhotoLoaded, PhotoNotLoaded

\* No copy of the unread counter, in a document, a row or an inbox, and no
\* write on its way to one, ever exceeds the number of messages sent.
THEOREM UnreadBoundedHolds == Spec => []UnreadBounded
<1>1. Init => UnreadInv
  <2>1. Len(<<>>) = 0
    OBVIOUS
  <2>2. QED
    BY <2>1 DEF Init, UnreadInv, DocsBounded, WritesBounded, InboxBounded, RowsBounded,
                InitInbox, NoRow, NoDoc
<1>2. TypeInv /\ UnreadInv /\ [Next]_vars => UnreadInv'
  BY UnreadStep
<1>3. UnreadInv => UnreadBounded
  BY RowOfBounded DEF UnreadInv, DocsBounded, InboxBounded, UnreadBounded
<1>4. QED
  BY <1>1, <1>2, <1>3, TypeInvariant, PTL DEF Spec

-----------------------------------------------------------------------------
(* What a step does to the message lists, the screens and the thread.       *)

\* The screen is new, or its app was started again.
Renewed(c) ==
  /\ chat'[c].seen = {}
  /\ chat'[c].owner # NoOne => chat'[c].linked = ~chat'[c].isNewChat
  /\ chat[c].owner = NoOne \/ screen'[chat[c].owner] = "home"

\* The screen goes on: no delivery, and nothing leaves its list and selection.
GoesOn(c) ==
  /\ chat[c].owner # NoOne /\ Running(chat[c].owner)
  /\ chat'[c].owner = chat[c].owner /\ chat'[c].conv = chat[c].conv
  /\ chat'[c].linked = chat[c].linked /\ chat'[c].isNewChat = chat[c].isNewChat
  /\ chat'[c].seen = chat[c].seen
  /\ chat[c].shown \cup chat[c].selIds \subseteq chat'[c].shown \cup chat'[c].selIds

\* One screen changes its record to one that keeps what GoesOn asks for.
LEMMA OneGoesOn ==
  ASSUME chat \in [Chats -> ChatState], NEW c \in Chats,
         chat[c].owner # NoOne, Running(chat[c].owner),
         NEW s, chat' = [chat EXCEPT ![c] = s],
         s.owner = chat[c].owner, s.conv = chat[c].conv, s.linked = chat[c].linked,
         s.isNewChat = chat[c].isNewChat, s.seen = chat[c].seen,
         chat[c].shown \subseteq s.shown, chat[c].selIds \subseteq s.selIds
  PROVE  \A d \in Chats : chat'[d] = chat[d] \/ GoesOn(d)
<1> SUFFICES ASSUME NEW d \in Chats, d = c
             PROVE  GoesOn(d)
  OBVIOUS
<1>1. chat'[d] = s
  OBVIOUS
<1>2. QED
  BY <1>1 DEF GoesOn

\* A screen on top is used by someone whose app runs.
LEMMA TopRuns ==
  ASSUME NEW c \in Chats, OnTop(c)
  PROVE  chat[c].owner # NoOne /\ Running(chat[c].owner)
BY ChatAssumption DEF OnTop, Running

LEMMA ChatChange ==
  ASSUME TypeInv, [Next]_vars, NEW c \in Chats
  PROVE  chat'[c] = chat[c] \/ Renewed(c) \/ GoesOn(c) \/ ThreadSnapshot(c)
<1>1. chat \in [Chats -> ChatState] /\ screen \in [Users -> {"home", "inbox", "crashed"} \cup Chats]
  BY DEF TypeInv, TypeOK
<1>2. ASSUME NEW u \in Users, Relaunch(u)
      PROVE  chat'[c] = chat[c] \/ Renewed(c)
  BY <1>1, <1>2 DEF Relaunch, Renewed, NoChat
<1>3. ASSUME NEW u \in Users, NEW k \in Convs, NEW d \in Chats, OpenFromHome(u, k, d)
      PROVE  chat'[c] = chat[c] \/ Renewed(c)
  <2>1. PICK photo \in BOOLEAN : chat' = [chat EXCEPT ![d] = Opened(u, k, TRUE, FALSE, photo)]
    BY <1>3 DEF OpenFromHome
  <2> DEFINE s == Opened(u, k, TRUE, FALSE, photo)
  <2>2. s.seen = {} /\ s.linked = FALSE /\ s.isNewChat = TRUE
    BY DEF Opened, NoChat
  <2> HIDE DEF s
  <2>3. QED
    BY <1>1, <1>3, <2>1, <2>2 DEF OpenFromHome, Renewed, s
<1>4. ASSUME NEW u \in Users, NEW k \in Convs, NEW d \in Chats, OpenFromInbox(u, k, d)
      PROVE  chat'[c] = chat[c] \/ Renewed(c)
  BY <1>1, <1>4 DEF OpenFromInbox, Renewed, Opened, NoChat
<1>5. ASSUME NEW d \in Chats, SendText(d)
      PROVE  chat'[c] = chat[c] \/ GoesOn(c)
  <2> DEFINE s == [chat[d] EXCEPT !.isNewMsg = TRUE]
  <2>1. chat' = [chat EXCEPT ![d] = s] /\ OnTop(d)
    BY <1>1, <1>5 DEF SendText
  <2>2. QED
    BY <1>1, <2>1, TopRuns, OneGoesOn DEF ChatState
<1>6. ASSUME NEW d \in Chats, PickPhoto(d)
      PROVE  chat'[c] = chat[c] \/ GoesOn(c)
  <2> DEFINE s == [chat[d] EXCEPT !.uploads = @ + 1]
  <2>1. chat' = [chat EXCEPT ![d] = s] /\ OnTop(d)
    BY <1>1, <1>6 DEF PickPhoto
  <2>2. QED
    BY <1>1, <2>1, TopRuns, OneGoesOn DEF ChatState
<1>7. ASSUME NEW d \in Chats, PhotoUploaded(d)
      PROVE  chat'[c] = chat[c] \/ GoesOn(c)
  <2> DEFINE s == [chat[d] EXCEPT !.uploads = @ - 1, !.hud = FALSE]
  <2>1. chat' = [chat EXCEPT ![d] = s] /\ chat[d].owner # NoOne /\ Running(chat[d].owner)
    BY <1>1, <1>7 DEF PhotoUploaded
  <2>2. QED
    BY <1>1, <2>1, OneGoesOn DEF ChatState
<1>8. ASSUME NEW d \in Chats, UploadFailed(d)
      PROVE  chat'[c] = chat[c] \/ GoesOn(c)
  <2> DEFINE s == [chat[d] EXCEPT !.uploads = @ - 1]
  <2>1. chat' = [chat EXCEPT ![d] = s] /\ chat[d].owner # NoOne /\ Running(chat[d].owner)
    BY <1>1, <1>8 DEF UploadFailed
  <2>2. QED
    BY <1>1, <2>1, OneGoesOn DEF ChatState
<1>9. ASSUME NEW d \in Chats, NEW m \in Ids, Tap(d, m)
      PROVE  chat'[c] = chat[c] \/ GoesOn(c)
  <2> DEFINE s == [chat[d] EXCEPT !.selIds = @ \cup {m}]
  <2>1. chat' = [chat EXCEPT ![d] = s] /\ OnTop(d)
    BY <1>1, <1>9 DEF Tap
  <2>2. QED
    BY <1>1, <2>1, TopRuns, OneGoesOn DEF ChatState
<1>10. ASSUME NEW d \in Chats, Delete(d)
       PROVE  chat'[c] = chat[c] \/ GoesOn(c)
  <2> DEFINE s == [chat[d] EXCEPT !.fresh = @ \ (chat[d].selIds \cap chat[d].fresh)]
  <2>1. chat' = [chat EXCEPT ![d] = s] /\ OnTop(d)
    BY <1>1, <1>10 DEF Delete
  <2>2. QED
    BY <1>1, <2>1, TopRuns, OneGoesOn DEF ChatState
<1>11. ASSUME NEW d \in Chats, NEW m \in Ids, PhotoLoaded(d, m)
       PROVE  chat'[c] = chat[c] \/ GoesOn(c)
  <2> DEFINE s == [chat[d] EXCEPT !.loading = @ \ {m}, !.shown = @ \cup {m},
                     !.fresh = IF chat[d].isNewMsg THEN @ \cup {m} ELSE @]
  <2>1. chat' = [chat EXCEPT ![d] = s] /\ chat[d].owner # NoOne /\ Running(chat[d].owner)
    BY <1>1, <1>11 DEF PhotoLoaded
  <2>2. QED
    BY <1>1, <2>1, OneGoesOn DEF ChatState
<1>12. ASSUME NEW d \in Chats, NEW m \in Ids, PhotoNotLoaded(d, m)
       PROVE  chat'[c] = chat[c] \/ GoesOn(c)
  <2> DEFINE s == [chat[d] EXCEPT !.loading = @ \ {m}]
  <2>1. chat' = [chat EXCEPT ![d] = s] /\ chat[d].owner # NoOne /\ Running(chat[d].owner)
    BY <1>1, <1>12 DEF PhotoNotLoaded
  <2>2. QED
    BY <1>1, <2>1, OneGoesOn DEF ChatState
<1>13. ASSUME NEW d \in Chats, ThreadSnapshot(d)
       PROVE  chat'[c] = chat[c] \/ ThreadSnapshot(c)
  BY <1>1, <1>13 DEF ThreadSnapshot
<1>14. CASE UNCHANGED chat
  BY <1>14
<1>15. QED
  BY <1>2, <1>3, <1>4, <1>5, <1>6, <1>7, <1>8, <1>9, <1>10, <1>11, <1>12, <1>13, <1>14
  DEF Next, UserStep, SystemStep, vars, NameCommitted, InboxCrashes, ShowInbox, ShowHome, Back,
      DeleteCrashes, Commit,
      RecSnapshot, SendSnapshot, ThreadSnapshotCrashes

\* A message that is gone does not come back.
LEMMA GoneForGood ==
  ASSUME TypeInv, [Next]_vars, NEW m \in 1..Len(log), m \in thread'
  PROVE  m \in thread
<1>1. Len(log) \in Nat
  BY LogGrows
<1>2. ASSUME NEW c \in Chats, NEW photo \in BOOLEAN, Save(c, photo)
      PROVE  m \in thread
  BY <1>1, <1>2 DEF Save
<1>3. thread' \subseteq thread \/ \E c \in Chats : Save(c, TRUE) \/ Save(c, FALSE)
  BY DEF Next, UserStep, SystemStep, vars, NameCommitted, InboxCrashes, ShowInbox, ShowHome,
         Relaunch, OpenFromHome,
         OpenFromInbox, Back, SendText, PickPhoto, Delete, DeleteCrashes, Tap, Commit,
         RecSnapshot, SendSnapshot, PhotoUploaded, UploadFailed, ThreadSnapshot,
         ThreadSnapshotCrashes, PhotoLoaded, PhotoNotLoaded
<1>4. QED
  BY <1>2, <1>3

\* What a snapshot does to its screen.
LEMMA SnapshotChange ==
  ASSUME TypeInv, NEW c \in Chats, ThreadSnapshot(c)
  PROVE  /\ chat[c].owner # NoOne /\ Running(chat[c].owner)
         /\ chat'[c].owner = chat[c].owner /\ chat'[c].conv = chat[c].conv
         /\ chat'[c].linked = chat[c].linked /\ chat'[c].isNewChat = chat[c].isNewChat
         /\ chat'[c].seen = InConv(chat[c].conv)
         /\ chat'[c].selIds = chat[c].selIds
         /\ \A m \in InConv(chat[c].conv) \ chat[c].seen : ~log[m].photo => m \in chat'[c].shown
         /\ chat[c].shown \ chat[c].selIds \subseteq chat'[c].shown
         /\ UNCHANGED <<log, thread, screen>>
<1> DEFINE s == chat[c]
           now == InConv(s.conv)
           removed == s.seen \ now
           added == now \ s.seen
           texts == {m \in added : ~log[m].photo}
           old == IF removed = {} THEN s.shown ELSE AfterRemoval(s)
           t == [s EXCEPT !.seen = now, !.shown = old \cup texts,
                          !.loading = @ \cup (added \ texts),
                          !.fresh = IF s.isNewMsg THEN @ \cup texts ELSE @]
<1>1. s \in ChatState /\ s.owner # NoOne /\ Running(s.owner)
  BY InUse DEF ThreadSnapshot
<1>2. chat'[c] = t /\ UNCHANGED <<log, thread, screen>>
  BY DEF ThreadSnapshot, TypeInv, TypeOK
<1>3. /\ t.owner = s.owner /\ t.conv = s.conv /\ t.linked = s.linked
      /\ t.isNewChat = s.isNewChat /\ t.seen = now /\ t.selIds = s.selIds
      /\ t.shown = old \cup texts
  BY <1>1 DEF ChatState
<1>4. s.shown \ s.selIds \subseteq old
  BY DEF AfterRemoval
<1> HIDE DEF t, old
<1>5. QED
  BY <1>1, <1>2, <1>3, <1>4

-----------------------------------------------------------------------------
(* Message lists.  A snapshot delivers only what has been logged, so that a *)
(* message logged later is not taken for one delivered before.              *)

DeliveredInv ==
  /\ \A c \in Chats : chat[c].seen \subseteq 1..Len(log)
  /\ DeliveredStaysShown

LEMMA DeliveredStep ==
  ASSUME TypeInv, DeliveredInv, [Next]_vars
  PROVE  DeliveredInv'
<1>1. Len(log) \in Nat /\ Len(log') \in Nat /\ Len(log) <= Len(log')
      /\ \A m \in 1..Len(log) : log'[m] = log[m]
  BY LogGrows
<1>2. SUFFICES ASSUME NEW c \in Chats
               PROVE  /\ chat'[c].seen \subseteq 1..Len(log')
                      /\ \A m \in chat'[c].seen \cap thread' :
                           ~log'[m].photo => m \in chat'[c].shown \cup chat'[c].selIds
  BY DEF DeliveredInv, DeliveredStaysShown
<1>3. \A m \in chat[c].seen : m \in 1..Len(log) /\ m \in 1..Len(log')
  BY <1>1 DEF DeliveredInv
<1>4. CASE chat'[c] = chat[c] \/ GoesOn(c)
  <2>1. chat'[c].seen = chat[c].seen
        /\ chat[c].shown \cup chat[c].selIds \subseteq chat'[c].shown \cup chat'[c].selIds
    BY <1>4 DEF GoesOn
  <2>2. QED
    BY <1>1, <1>3, <2>1, GoneForGood DEF DeliveredInv, DeliveredStaysShown
<1>5. CASE Renewed(c)
  BY <1>5 DEF Renewed
<1>6. CASE ThreadSnapshot(c)
  <2>1. \A m \in InConv(chat[c].conv) : m \in thread /\ m \in 1..Len(log)
    BY ThreadIds DEF InConv, TypeInv, TypeOK
  <2>2. QED
    BY <1>1, <1>6, <2>1, SnapshotChange DEF DeliveredInv, DeliveredStaysShown
<1>7. QED
  BY <1>4, <1>5, <1>6, ChatChange

\* A text that a screen was given and that still exists stays on its list,
\* unless its author selected it there.
THEOREM DeliveredHolds == Spec => []DeliveredStaysShown
<1>1. Init => DeliveredInv
  BY DEF Init, NoChat, DeliveredInv, DeliveredStaysShown
<1>2. TypeInv /\ DeliveredInv /\ [Next]_vars => DeliveredInv'
  BY DeliveredStep
<1>3. DeliveredInv => DeliveredStaysShown
  BY DEF DeliveredInv
<1>4. QED
  BY <1>1, <1>2, <1>3, TypeInvariant, PTL DEF Spec

-----------------------------------------------------------------------------
(* A screen without an inbox reference was opened from home, and what it    *)
(* was given is of its conversation.                                        *)

ScreensInv ==
  \A c \in Chats : chat[c].owner # NoOne =>
    /\ chat[c].linked = ~chat[c].isNewChat
    /\ \A m \in chat[c].seen : m \in 1..Len(log) /\ log[m].conv = chat[c].conv

LEMMA ScreensStep ==
  ASSUME TypeInv, ScreensInv, [Next]_vars
  PROVE  ScreensInv'
<1>1. Len(log) \in Nat /\ Len(log') \in Nat /\ Len(log) <= Len(log')
      /\ \A m \in 1..Len(log) : m \in 1..Len(log') /\ log'[m] = log[m]
  BY LogGrows
<1>2. SUFFICES ASSUME NEW c \in Chats, chat'[c].owner # NoOne
               PROVE  /\ chat'[c].linked = ~chat'[c].isNewChat
                      /\ \A m \in chat'[c].seen :
                           m \in 1..Len(log') /\ log'[m].conv = chat'[c].conv
  BY DEF ScreensInv
<1>3. CASE chat'[c] = chat[c] \/ GoesOn(c)
  BY <1>1, <1>2, <1>3 DEF GoesOn, ScreensInv
<1>4. CASE Renewed(c)
  BY <1>2, <1>4 DEF Renewed
<1>5. CASE ThreadSnapshot(c)
  <2>1. \A m \in InConv(chat[c].conv) : m \in 1..Len(log) /\ log[m].conv = chat[c].conv
    BY DEF InConv, TypeInv, TypeOK
  <2>2. QED
    BY <1>1, <1>5, <2>1, SnapshotChange DEF ScreensInv
<1>6. QED
  BY <1>3, <1>4, <1>5, ChatChange

-----------------------------------------------------------------------------
(* What a step does to the lists of a screen, in one place: it keeps them,  *)
(* empties them, moves one message between them, or delivers a snapshot.    *)

\* Nothing the lists depend on changes.
ListsKept(c) ==
  /\ chat'[c].owner = chat[c].owner /\ chat'[c].conv = chat[c].conv
  /\ chat'[c].seen = chat[c].seen /\ chat'[c].shown = chat[c].shown
  /\ chat'[c].selIds = chat[c].selIds /\ chat'[c].loading = chat[c].loading

\* The screen is given up, or new.
ListsEmpty(c) ==
  /\ \/ chat'[c].owner = NoOne
     \/ \E u \in Users, k \in Convs :
          /\ OpenFromHome(u, k, c) \/ OpenFromInbox(u, k, c)
          /\ chat'[c].owner = u /\ chat'[c].conv = k
  /\ chat'[c].seen = {} /\ chat'[c].shown = {}
  /\ chat'[c].selIds = {} /\ chat'[c].loading = {}

\* m, listed and written by the screen's user, is selected.
Selected(c, m) ==
  /\ OnTop(c) /\ m \in chat[c].shown /\ log[m].from = chat[c].owner
  /\ chat'[c].owner = chat[c].owner /\ chat'[c].conv = chat[c].conv
  /\ chat'[c].seen = chat[c].seen /\ chat'[c].shown = chat[c].shown
  /\ chat'[c].selIds = chat[c].selIds \cup {m} /\ chat'[c].loading = chat[c].loading
  /\ UNCHANGED <<log, thread, screen>>

\* The photo m has been loaded, or has not.
PhotoDone(c, m) ==
  /\ chat[c].owner # NoOne /\ m \in chat[c].loading
  /\ chat'[c].owner = chat[c].owner /\ chat'[c].conv = chat[c].conv
  /\ chat'[c].seen = chat[c].seen /\ chat'[c].selIds = chat[c].selIds
  /\ chat'[c].shown \in {chat[c].shown, chat[c].shown \cup {m}}
  /\ chat'[c].loading = chat[c].loading \ {m}
  /\ UNCHANGED <<log, thread, screen>>

\* A snapshot is delivered, with some messages taken off and texts put on.
Delivered(c) ==
  LET now == InConv(chat[c].conv) IN
  /\ chat[c].owner # NoOne
  /\ chat'[c].owner = chat[c].owner /\ chat'[c].conv = chat[c].conv
  /\ chat'[c].seen = now /\ chat'[c].selIds = chat[c].selIds
  /\ \E texts \in SUBSET (now \ chat[c].seen) :
       /\ \A m \in texts : ~log[m].photo
       /\ \A m \in (now \ chat[c].seen) \ texts : log[m].photo
       /\ chat'[c].shown = (IF chat[c].seen \subseteq now THEN chat[c].shown
                            ELSE chat[c].shown \ chat[c].selIds) \cup texts
       /\ chat'[c].loading = chat[c].loading \cup ((now \ chat[c].seen) \ texts)
  /\ UNCHANGED <<log, thread, screen>>

\* One screen changes its record and leaves the lists alone.
LEMMA RestChanged ==
  ASSUME chat \in [Chats -> ChatState], NEW c \in Chats,
         NEW s, chat' = [chat EXCEPT ![c] = s],
         s.owner = chat[c].owner, s.conv = chat[c].conv, s.seen = chat[c].seen,
         s.shown = chat[c].shown, s.selIds = chat[c].selIds, s.loading = chat[c].loading
  PROVE  \A d \in Chats : ListsKept(d)
<1> SUFFICES ASSUME NEW d \in Chats PROVE ListsKept(d)
  OBVIOUS
<1>1. CASE d = c
  BY <1>1 DEF ListsKept
<1>2. CASE d # c
  BY <1>2 DEF ListsKept
<1> QED
  BY <1>1, <1>2

LEMMA DeliveredLists ==
  ASSUME TypeInv, NEW c \in Chats, ThreadSnapshot(c)
  PROVE  Delivered(c) /\ \A d \in Chats : d = c \/ ListsKept(d)
<1> DEFINE s == chat[c]
           now == InConv(s.conv)
           removed == s.seen \ now
           added == now \ s.seen
           texts == {m \in added : ~log[m].photo}
           old == IF removed = {} THEN s.shown ELSE AfterRemoval(s)
           t == [s EXCEPT !.seen = now, !.shown = old \cup texts,
                          !.loading = @ \cup (added \ texts),
                          !.fresh = IF s.isNewMsg THEN @ \cup texts ELSE @]
<1>1. s \in ChatState /\ s.owner # NoOne
  BY InUse DEF ThreadSnapshot
<1>2. chat' = [chat EXCEPT ![c] = t] /\ UNCHANGED <<log, thread, screen>>
  BY DEF ThreadSnapshot, TypeInv, TypeOK
<1>3. /\ t.owner = s.owner /\ t.conv = s.conv /\ t.seen = now /\ t.selIds = s.selIds
      /\ t.shown = old \cup texts /\ t.loading = s.loading \cup (added \ texts)
  BY <1>1 DEF ChatState
<1>4. old = IF s.seen \subseteq now THEN s.shown ELSE s.shown \ s.selIds
  BY DEF AfterRemoval
<1>5. texts \in SUBSET added /\ (\A m \in texts : ~log[m].photo)
      /\ \A m \in added \ texts : log[m].photo
  OBVIOUS
<1> HIDE DEF t, old, texts
<1>6. chat \in [Chats -> ChatState]
  BY DEF TypeInv, TypeOK
<1>7. chat'[c] = t /\ \A d \in Chats : d # c => chat'[d] = chat[d]
  BY <1>2, <1>6
<1>8. Delivered(c)
  <2>1. chat'[c].shown = (IF s.seen \subseteq now THEN s.shown ELSE s.shown \ s.selIds)
                           \cup texts
        /\ chat'[c].loading = s.loading \cup ((now \ s.seen) \ texts)
    BY <1>3, <1>4, <1>7
  <2> QED
    BY <1>1, <1>2, <1>3, <1>5, <1>7, <2>1 DEF Delivered
<1> QED
  BY <1>7, <1>8 DEF ListsKept

LEMMA ListsChange ==
  ASSUME TypeInv, [Next]_vars, NEW c \in Chats
  PROVE  \/ ListsKept(c) \/ ListsEmpty(c) \/ Delivered(c)
         \/ \E m \in Ids : Selected(c, m) \/ PhotoDone(c, m)
<1>1. chat \in [Chats -> ChatState]
  BY DEF TypeInv, TypeOK
<1>2. ASSUME NEW u \in Users, Relaunch(u)
      PROVE  ListsKept(c) \/ ListsEmpty(c)
  BY <1>1, <1>2 DEF Relaunch, ListsKept, ListsEmpty, NoChat
<1>3. ASSUME NEW u \in Users, NEW k \in Convs, NEW d \in Chats,
             OpenFromHome(u, k, d) \/ OpenFromInbox(u, k, d)
      PROVE  ListsKept(c) \/ ListsEmpty(c)
  <2>1. PICK n \in BOOLEAN, l \in BOOLEAN, photo \in BOOLEAN :
          chat' = [chat EXCEPT ![d] = Opened(u, k, n, l, photo)]
    BY <1>3 DEF OpenFromHome, OpenFromInbox
  <2> DEFINE s == Opened(u, k, n, l, photo)
  <2>2. s.seen = {} /\ s.shown = {} /\ s.selIds = {} /\ s.loading = {}
        /\ s.owner = u /\ s.conv = k
    BY DEF Opened, NoChat
  <2>3. chat' = [chat EXCEPT ![d] = s]
    BY <2>1
  <2> HIDE DEF s
  <2>4. CASE c = d
    BY <1>1, <1>3, <2>2, <2>3, <2>4 DEF ListsEmpty
  <2>5. CASE c # d
    BY <1>1, <2>3, <2>5 DEF ListsKept
  <2> QED
    BY <2>4, <2>5
<1>4. ASSUME NEW d \in Chats, SendText(d)
      PROVE  ListsKept(c)
  <2> DEFINE s == [chat[d] EXCEPT !.isNewMsg = TRUE]
  <2>1. chat' = [chat EXCEPT ![d] = s]
    BY <1>1, <1>4 DEF SendText
  <2> QED
    BY <1>1, <2>1, RestChanged DEF ChatState
<1>5. ASSUME NEW d \in Chats, PickPhoto(d)
      PROVE  ListsKept(c)
  <2> DEFINE s == [chat[d] EXCEPT !.uploads = @ + 1]
  <2>1. chat' = [chat EXCEPT ![d] = s]
    BY <1>1, <1>5 DEF PickPhoto
  <2> QED
    BY <1>1, <2>1, RestChanged DEF ChatState
<1>6. ASSUME NEW d \in Chats, PhotoUploaded(d)
      PROVE  ListsKept(c)
  <2> DEFINE s == [chat[d] EXCEPT !.uploads = @ - 1, !.hud = FALSE]
  <2>1. chat' = [chat EXCEPT ![d] = s]
    BY <1>1, <1>6 DEF PhotoUploaded
  <2> QED
    BY <1>1, <2>1, RestChanged DEF ChatState
<1>7. ASSUME NEW d \in Chats, UploadFailed(d)
      PROVE  ListsKept(c)
  <2> DEFINE s == [chat[d] EXCEPT !.uploads = @ - 1]
  <2>1. chat' = [chat EXCEPT ![d] = s]
    BY <1>1, <1>7 DEF UploadFailed
  <2> QED
    BY <1>1, <2>1, RestChanged DEF ChatState
<1>8. ASSUME NEW d \in Chats, Delete(d)
      PROVE  ListsKept(c)
  <2> DEFINE s == [chat[d] EXCEPT !.fresh = @ \ (chat[d].selIds \cap chat[d].fresh)]
  <2>1. chat' = [chat EXCEPT ![d] = s]
    BY <1>1, <1>8 DEF Delete
  <2> QED
    BY <1>1, <2>1, RestChanged DEF ChatState
<1>9. ASSUME NEW d \in Chats, NEW m \in Ids, Tap(d, m)
      PROVE  ListsKept(c) \/ Selected(c, m)
  <2>1. chat[d] \in ChatState /\ chat' = [chat EXCEPT ![d].selIds = @ \cup {m}]
    BY <1>1, <1>9 DEF Tap
  <2> QED
    BY <1>1, <1>9, <2>1 DEF Tap, CanSelect, Selected, ListsKept, ChatState
<1>10. ASSUME NEW d \in Chats, NEW m \in Ids, PhotoLoaded(d, m)
       PROVE  ListsKept(c) \/ PhotoDone(c, m)
  <2> DEFINE s == [chat[d] EXCEPT !.loading = @ \ {m}, !.shown = @ \cup {m},
                     !.fresh = IF chat[d].isNewMsg THEN @ \cup {m} ELSE @]
  <2>1. chat' = [chat EXCEPT ![d] = s] /\ chat[d] \in ChatState
    BY <1>1, <1>10 DEF PhotoLoaded
  <2>2. /\ s.owner = chat[d].owner /\ s.conv = chat[d].conv /\ s.seen = chat[d].seen
        /\ s.selIds = chat[d].selIds /\ s.shown = chat[d].shown \cup {m}
        /\ s.loading = chat[d].loading \ {m}
    BY <2>1 DEF ChatState
  <2> HIDE DEF s
  <2> QED
    BY <1>1, <1>10, <2>1, <2>2 DEF PhotoLoaded, PhotoDone, ListsKept
<1>11. ASSUME NEW d \in Chats, NEW m \in Ids, PhotoNotLoaded(d, m)
       PROVE  ListsKept(c) \/ PhotoDone(c, m)
  <2>1. chat[d] \in ChatState /\ chat' = [chat EXCEPT ![d].loading = @ \ {m}]
    BY <1>1, <1>11 DEF PhotoNotLoaded
  <2> QED
    BY <1>1, <1>11, <2>1 DEF PhotoNotLoaded, PhotoDone, ListsKept, ChatState
<1>12. ASSUME NEW d \in Chats, ThreadSnapshot(d)
       PROVE  ListsKept(c) \/ Delivered(c)
  BY <1>12, DeliveredLists
<1>13. CASE UNCHANGED chat
  BY <1>13 DEF ListsKept
<1> QED
  BY <1>2, <1>3, <1>4, <1>5, <1>6, <1>7, <1>8, <1>9, <1>10, <1>11, <1>12, <1>13
  DEF Next, UserStep, SystemStep, vars, NameCommitted, InboxCrashes, ShowInbox, ShowHome, Back,
      DeleteCrashes, Commit,
      RecSnapshot, SendSnapshot, ThreadSnapshotCrashes

-----------------------------------------------------------------------------
(* The lists of a screen hold messages of the log; what is selected is its  *)
(* user's own; a photo on its way is neither listed nor selected; and what  *)
(* still exists was delivered before it got on any list.                    *)

ListsInv ==
  \A c \in Chats :
    LET s == chat[c] IN
    /\ s.owner = NoOne => s.shown = {} /\ s.selIds = {} /\ s.loading = {}
    /\ s.seen \cup s.shown \cup s.loading \subseteq 1..Len(log)
    /\ \A m \in s.selIds : m \in 1..Len(log) /\ log[m].from = s.owner
    /\ \A m \in s.loading : log[m].photo /\ log[m].conv = s.conv
    /\ (s.shown \cup s.selIds) \cap s.loading = {}
    /\ (s.shown \cup s.selIds \cup s.loading) \cap thread \subseteq s.seen

LEMMA ListsInitially == Init => ListsInv
BY DEF Init, NoChat, ListsInv

LEMMA ListsStep ==
  ASSUME TypeInv, ScreensInv, ListsInv, [Next]_vars
  PROVE  ListsInv'
<1>1. \A m \in 1..Len(log) : m \in 1..Len(log') /\ log'[m] = log[m]
                             /\ (m \in thread' => m \in thread)
  BY LogGrows, GoneForGood
<1> SUFFICES ASSUME NEW c \in Chats
             PROVE  LET s == chat'[c] IN
    /\ s.owner = NoOne => s.shown = {} /\ s.selIds = {} /\ s.loading = {}
    /\ s.seen \cup s.shown \cup s.loading \subseteq 1..Len(log')
    /\ \A m \in s.selIds : m \in 1..Len(log') /\ log'[m].from = s.owner
    /\ \A m \in s.loading : log'[m].photo /\ log'[m].conv = s.conv
    /\ (s.shown \cup s.selIds) \cap s.loading = {}
    /\ (s.shown \cup s.selIds \cup s.loading) \cap thread' \subseteq s.seen
  BY DEF ListsInv
<1>2. /\ chat[c].owner = NoOne =>
           chat[c].shown = {} /\ chat[c].selIds = {} /\ chat[c].loading = {}
      /\ chat[c].seen \cup chat[c].shown \cup chat[c].loading \subseteq 1..Len(log)
      /\ \A m \in chat[c].selIds : m \in 1..Len(log) /\ log[m].from = chat[c].owner
      /\ \A m \in chat[c].loading : log[m].photo /\ log[m].conv = chat[c].conv
      /\ (chat[c].shown \cup chat[c].selIds) \cap chat[c].loading = {}
      /\ (chat[c].shown \cup chat[c].selIds \cup chat[c].loading) \cap thread
           \subseteq chat[c].seen
  BY DEF ListsInv
<1>3. CASE ListsKept(c)
  BY <1>1, <1>2, <1>3 DEF ListsKept
<1>4. CASE ListsEmpty(c)
  BY <1>4 DEF ListsEmpty
<1>5. CASE Delivered(c)
  <2>1. \A m \in InConv(chat[c].conv) :
          m \in thread /\ m \in 1..Len(log) /\ log[m].conv = chat[c].conv
    BY DEF InConv, TypeInv, TypeOK
  <2> DEFINE now == InConv(chat[c].conv)
  <2> HIDE DEF now
  <2>2. PICK texts \in SUBSET (now \ chat[c].seen) :
          /\ \A m \in (now \ chat[c].seen) \ texts : log[m].photo
          /\ chat'[c].shown \subseteq chat[c].shown \cup texts
          /\ chat[c].seen \subseteq now \/ chat'[c].shown \cap chat[c].selIds \subseteq texts
          /\ chat'[c].loading = chat[c].loading \cup ((now \ chat[c].seen) \ texts)
    BY <1>5 DEF Delivered, now
  <2>3. /\ chat'[c].owner = chat[c].owner /\ chat'[c].conv = chat[c].conv
        /\ chat[c].owner # NoOne
        /\ chat'[c].seen = now /\ chat'[c].selIds = chat[c].selIds
        /\ log' = log /\ thread' = thread
    BY <1>5 DEF Delivered, now
  <2>4. \A m \in now : m \in thread /\ m \in 1..Len(log) /\ log[m].conv = chat[c].conv
    BY <2>1 DEF now
  <2>5. (chat'[c].shown \cup chat'[c].selIds) \cap chat'[c].loading = {}
    BY <1>2, <2>2, <2>3, <2>4
  <2>6. \A m \in chat[c].shown \cup chat[c].selIds \cup chat[c].loading :
          m \in thread => m \in now
    BY <1>2, <2>3 DEF ScreensInv, InConv, now
  <2>7. (chat'[c].shown \cup chat'[c].selIds \cup chat'[c].loading) \cap thread'
          \subseteq chat'[c].seen
    BY <2>2, <2>3, <2>4, <2>6
  <2> QED
    BY <1>2, <2>2, <2>3, <2>4, <2>5, <2>7
<1>6. ASSUME NEW m \in Ids, Selected(c, m)
      PROVE  LET s == chat'[c] IN
    /\ s.owner = NoOne => s.shown = {} /\ s.selIds = {} /\ s.loading = {}
    /\ s.seen \cup s.shown \cup s.loading \subseteq 1..Len(log')
    /\ \A i \in s.selIds : i \in 1..Len(log') /\ log'[i].from = s.owner
    /\ \A i \in s.loading : log'[i].photo /\ log'[i].conv = s.conv
    /\ (s.shown \cup s.selIds) \cap s.loading = {}
    /\ (s.shown \cup s.selIds \cup s.loading) \cap thread' \subseteq s.seen
  BY <1>2, <1>6 DEF Selected, OnTop
<1>7. ASSUME NEW m \in Ids, PhotoDone(c, m)
      PROVE  LET s == chat'[c] IN
    /\ s.owner = NoOne => s.shown = {} /\ s.selIds = {} /\ s.loading = {}
    /\ s.seen \cup s.shown \cup s.loading \subseteq 1..Len(log')
    /\ \A i \in s.selIds : i \in 1..Len(log') /\ log'[i].from = s.owner
    /\ \A i \in s.loading : log'[i].photo /\ log'[i].conv = s.conv
    /\ (s.shown \cup s.selIds) \cap s.loading = {}
    /\ (s.shown \cup s.selIds \cup s.loading) \cap thread' \subseteq s.seen
  BY <1>2, <1>7 DEF PhotoDone
<1> QED
  BY <1>3, <1>4, <1>5, <1>6, <1>7, ListsChange
-----------------------------------------------------------------------------
(* What a step does to the writes of a device and to its inbox.             *)

\* One of the pending writes is a message that is being sent.
SendsNow(u, w) ==
  \E c \in Chats :
    /\ chat[c].owner = u /\ w.conv = chat[c].conv /\ w.by = u
    /\ w.timestamp = Len(log) + 1 /\ Len(log') = Len(log) + 1
    /\ log'[Len(log) + 1].from = u /\ log'[Len(log) + 1].conv = w.conv

LEMMA OutboxChange ==
  ASSUME TypeInv, [Next]_vars, NEW u \in Users
  PROVE  \/ outbox'[u] = outbox[u]
         \/ Commit(u)
         \/ \E w \in Write : /\ outbox'[u] = Append(outbox[u], w)
                             /\ w.kind = "set" => SendsNow(u, w)
<1> DEFINE Goal == \/ outbox'[u] = outbox[u]
                   \/ Commit(u)
                   \/ \E w \in Write : /\ outbox'[u] = Append(outbox[u], w)
                                       /\ w.kind = "set" => SendsNow(u, w)
<1> HIDE DEF Goal
<1>1. outbox \in [Users -> Seq(Write)]
  BY DEF TypeInv, TypeOK
<1>2. ASSUME NEW v \in Users, NEW w \in Write, Issue(v, w), w.kind = "set" => SendsNow(v, w)
      PROVE  Goal
  BY <1>1, <1>2 DEF Issue, Goal
<1>3. ASSUME NEW v \in Users, NEW k \in Convs, Issue(v, ReadReset(v, k))
      PROVE  Goal
  <2>1. ReadReset(v, k) \in Write /\ ReadReset(v, k).kind = "clear"
    BY ReadResetType DEF ReadReset
  <2> QED
    BY <1>2, <1>3, <2>1
<1>4. ASSUME NEW c \in Chats, chat[c].owner # NoOne, NEW photo \in BOOLEAN, Save(c, photo)
      PROVE  Goal
  <2> DEFINE w == [kind |-> "set", conv |-> chat[c].conv, by |-> chat[c].owner,
                   unread |-> NextUnread(c), timestamp |-> Len(log) + 1]
  <2>1. chat[c].owner \in Users /\ chat[c].conv \in Convs
    BY <1>4, InUse
  <2>2. Len(log') = Len(log) + 1 /\ Len(log) \in Nat /\ Len(log) < MaxMsgs
    BY <1>4, SaveType, ThreadIds DEF TypeInv, Save
  <2>3. NextUnread(c) \in Int
    BY <2>1 DEF NextUnread, TypeInv, TypeOK, InboxState
  <2>4. Len(log) + 1 \in Ids
    BY <2>2, ChatAssumption DEF Ids
  <2>5. w \in Write
    BY <2>1, <2>3, <2>4 DEF Write
  <2>6. Issue(chat[c].owner, w)
    BY <1>4 DEF Save
  <2>7. SendsNow(chat[c].owner, w)
    <3> DEFINE m == [from |-> chat[c].owner, conv |-> chat[c].conv, photo |-> photo]
    <3>1. log' = Append(log, m) /\ m \in Message /\ log \in Seq(Message)
      BY <1>4, <2>1 DEF Save, Message, TypeInv, TypeOK
    <3>2. log'[Len(log) + 1] = m /\ m.from = chat[c].owner /\ m.conv = w.conv
      BY <3>1, AppendProperties
    <3> QED
      BY <2>2, <3>2 DEF SendsNow
  <2> QED
    BY <1>2, <2>1, <2>5, <2>6, <2>7
<1>5. ASSUME NEW c \in Chats, SendText(c) \/ PhotoUploaded(c)
      PROVE  Goal
  BY <1>4, <1>5 DEF SendText, PhotoUploaded, OnTop
<1>6. ASSUME NEW v \in Users, NEW k \in Convs, NEW c \in Chats, OpenFromInbox(v, k, c)
      PROVE  Goal
  BY <1>3, <1>6 DEF OpenFromInbox, Goal
<1>7. ASSUME NEW c \in Chats, Back(c)
      PROVE  Goal
  <2>1. chat[c].owner \in Users /\ inbox[chat[c].owner] \in InboxState
    BY <1>7, InUse DEF Back, OnTop, TypeInv, TypeOK
  <2>2. inbox[chat[c].owner].sel # NoConv => inbox[chat[c].owner].sel \in Convs
    BY <2>1 DEF InboxState
  <2> QED
    BY <1>3, <1>7, <2>1, <2>2 DEF Back, Goal
<1>8. ASSUME NEW c \in Chats, ThreadSnapshot(c)
      PROVE  Goal
  <2> DEFINE w == [kind |-> "count", conv |-> chat[c].conv, by |-> chat[c].owner,
                   unread |-> Corrected(inbox[chat[c].owner].unread), timestamp |-> 0]
  <2>1. chat[c].owner \in Users /\ chat[c].conv \in Convs
    BY <1>8, InUse DEF ThreadSnapshot
  <2>2. w \in Write /\ w.kind # "set"
    BY <2>1 DEF Write, Corrected, TypeInv, TypeOK, InboxState
  <2>3. outbox' = outbox \/ Issue(chat[c].owner, w)
    BY <1>8 DEF ThreadSnapshot
  <2> QED
    BY <1>2, <2>1, <2>2, <2>3 DEF Goal
<1>9. ASSUME NEW v \in Users, Commit(v)
      PROVE  Goal
  BY <1>1, <1>9 DEF Commit, Goal
<1>10. CASE UNCHANGED outbox
  BY <1>10 DEF Goal
<1> QED
  BY <1>5, <1>6, <1>7, <1>8, <1>9, <1>10
  DEF Next, UserStep, SystemStep, vars, NameCommitted, InboxCrashes, ShowInbox, ShowHome,
      Relaunch, OpenFromHome,
      PickPhoto, Delete, DeleteCrashes, Tap, RecSnapshot, SendSnapshot, UploadFailed,
      ThreadSnapshotCrashes, PhotoLoaded, PhotoNotLoaded, Goal

\* The rows and what the listeners delivered are as before.
RowsKept(u) ==
  /\ inbox'[u].acc = inbox[u].acc /\ inbox'[u].recSide = inbox[u].recSide
  /\ inbox'[u].sendSide = inbox[u].sendSide /\ inbox'[u].recSeen = inbox[u].recSeen
  /\ inbox'[u].sendSeen = inbox[u].sendSeen /\ inbox'[u].sendDue = inbox[u].sendDue
  /\ inbox'[u].sendOn = inbox[u].sendOn /\ inbox'[u].recDue \in {inbox[u].recDue, TRUE}
  /\ inbox'[u].last = inbox[u].last
  /\ inbox[u].loaded => inbox'[u].loaded

LEMMA InboxChange ==
  ASSUME TypeInv, [Next]_vars, NEW u \in Users
  PROVE  \/ RowsKept(u)
         \/ inbox'[u] = InitInbox /\ screen'[u] = "home"
         \/ RecSnapshot(u) \/ SendSnapshot(u)
<1>1. inbox \in [Users -> InboxState] /\ DOMAIN screen = Users
  BY DEF TypeInv, TypeOK
<1>2. ASSUME NEW v \in Users, NEW n, inbox' = [inbox EXCEPT ![v].unread = n]
      PROVE  RowsKept(u)
  <2>1. inbox[u] \in InboxState /\ inbox'[u] \in {inbox[u], [inbox[u] EXCEPT !.unread = n]}
    BY <1>1, <1>2
  <2> QED
    BY <2>1 DEF RowsKept, InboxState
<1>3. ASSUME NEW c \in Chats, Delete(c) \/ SendText(c) \/ PhotoUploaded(c)
      PROVE  RowsKept(u)
  <2>1. chat[c].owner \in Users
    BY <1>3, InUse DEF Delete, SendText, PhotoUploaded, OnTop
  <2>2. inbox' = inbox \/ \E n : inbox' = [inbox EXCEPT ![chat[c].owner].unread = n]
    BY <1>3 DEF Delete, SendText, PhotoUploaded, Save
  <2>3. CASE inbox' = inbox
    BY <2>3 DEF RowsKept
  <2> QED
    BY <1>2, <2>1, <2>2, <2>3
<1>4. ASSUME NEW v \in Users, ShowInbox(v)
      PROVE  RowsKept(u)
  <2>1. inbox[u] \in InboxState
        /\ inbox'[u] \in {inbox[u], [inbox[u] EXCEPT !.recDue = @ \/ ~inbox[u].loaded,
                                                      !.loaded = TRUE]}
    BY <1>1, <1>4 DEF ShowInbox
  <2> QED
    BY <2>1 DEF RowsKept, InboxState
<1>5. ASSUME NEW v \in Users, NEW k \in Convs, NEW c \in Chats, OpenFromInbox(v, k, c)
      PROVE  RowsKept(u)
  <2>1. inbox[u] \in InboxState
        /\ inbox'[u] \in {inbox[u], [inbox[u] EXCEPT !.sel = k,
                                                      !.unread = RowOf(v, k).unread]}
    BY <1>1, <1>5 DEF OpenFromInbox
  <2> QED
    BY <2>1 DEF RowsKept, InboxState
<1>6. ASSUME NEW c \in Chats, Back(c)
      PROVE  RowsKept(u)
  <2>1. inbox[u] \in InboxState
        /\ inbox'[u] \in {inbox[u], [inbox[u] EXCEPT !.sel = NoConv]}
    BY <1>1, <1>6 DEF Back
  <2> QED
    BY <2>1 DEF RowsKept, InboxState
<1>7. ASSUME NEW v \in Users, Relaunch(v)
      PROVE  RowsKept(u) \/ (inbox'[u] = InitInbox /\ screen'[u] = "home")
  BY <1>1, <1>7 DEF Relaunch, RowsKept
<1>8. ASSUME NEW v \in Users, RecSnapshot(v)
      PROVE  RowsKept(u) \/ RecSnapshot(u)
  BY <1>1, <1>8 DEF RecSnapshot, RowsKept
<1>9. ASSUME NEW v \in Users, SendSnapshot(v)
      PROVE  RowsKept(u) \/ SendSnapshot(u)
  BY <1>1, <1>9 DEF SendSnapshot, RowsKept
<1>10. CASE UNCHANGED inbox
  BY <1>10 DEF RowsKept
<1> QED
  BY <1>3, <1>4, <1>5, <1>6, <1>7, <1>8, <1>9, <1>10
  DEF Next, UserStep, SystemStep, vars, NameCommitted, InboxCrashes, ShowHome, OpenFromHome,
      PickPhoto,
      DeleteCrashes, Tap, Commit, UploadFailed, ThreadSnapshot,
      ThreadSnapshotCrashes, PhotoLoaded, PhotoNotLoaded
-----------------------------------------------------------------------------
(* Only members of a conversation write in it, and it is listed only by them. *)

MembersInv ==
  /\ \A c \in Chats : chat[c].owner # NoOne => chat[c].owner \in chat[c].conv
  /\ \A k \in Convs : doc[k].sender \in k \cup {NoOne}
  /\ \A u \in Users : \A i \in 1..Len(outbox[u]) :
       outbox[u][i].kind = "set" => outbox[u][i].by = u /\ u \in outbox[u][i].conv
  /\ \A u \in Users, k \in Convs :
       inbox[u].acc[k].listed \/ inbox[u].recSide[k].listed \/ inbox[u].sendSide[k].listed
         => u \in k

LEMMA MembersInitially == Init => MembersInv
BY DEF Init, MembersInv, NoChat, NoDoc, InitInbox, NoRow

\* What a user sees of a conversation as his own or as sent to him is one of his.
LEMMA OwnResults ==
  ASSUME TypeInv, MembersInv, NEW u \in Users, NEW k \in Convs
  PROVE  /\ RecResult(u)[k].sender # NoOne => u \in k
         /\ SendResult(u)[k].sender # NoOne => u \in k
<1> DEFINE set == LastPending(u, k, {"set"})
<1>1. ASSUME set # {}
      PROVE  u \in k
  <2>1. PICK i \in set : TRUE
    BY <1>1
  <2>2. i \in 1..Len(outbox[u]) /\ outbox[u][i].conv = k /\ outbox[u][i].kind = "set"
    BY <2>1 DEF LastPending
  <2> QED
    BY <2>2 DEF MembersInv
<1>2. doc[k].sender \in k \cup {NoOne}
  BY DEF MembersInv
<1>3. u # NoOne
  BY ChatAssumption
<1> HIDE DEF set
<1>4. View(u, k).sender = IF set = {} THEN doc[k].sender ELSE u
  BY DEF View, NoDoc, set
<1>5. View(u, k).sender = u => u \in k
  BY <1>1, <1>2, <1>3, <1>4
<1> QED
  BY <1>3, <1>5 DEF RecResult, SendResult, NoDoc

LEMMA MembersStep ==
  ASSUME TypeInv, MembersInv, [Next]_vars
  PROVE  MembersInv'
<1>1. ASSUME NEW c \in Chats, chat'[c].owner # NoOne
      PROVE  chat'[c].owner \in chat'[c].conv
  <2>1. CASE ListsEmpty(c)
    <3>1. PICK u \in Users, k \in Convs :
            /\ OpenFromHome(u, k, c) \/ OpenFromInbox(u, k, c)
            /\ chat'[c].owner = u /\ chat'[c].conv = k
      BY <1>1, <2>1 DEF ListsEmpty
    <3>2. OpenFromHome(u, k, c) => u \in k
      BY DEF OpenFromHome
    <3>3. ASSUME OpenFromInbox(u, k, c)
          PROVE  u \in k
      <4>1. inbox[u].recSide[k].listed \/ inbox[u].sendSide[k].listed
        BY <3>3 DEF OpenFromInbox, RowOf
      <4> QED
        BY <4>1 DEF MembersInv
    <3> QED
      BY <3>1, <3>2, <3>3
  <2>2. chat'[c].owner = chat[c].owner /\ chat'[c].conv = chat[c].conv
          => chat'[c].owner \in chat'[c].conv
    BY <1>1 DEF MembersInv
  <2> QED
    BY <2>1, <2>2, ListsChange DEF ListsKept, Delivered, Selected, PhotoDone
<1>2. ASSUME NEW k \in Convs
      PROVE  doc'[k].sender \in k \cup {NoOne}
  <2>1. doc[k].sender \in k \cup {NoOne}
    BY DEF MembersInv
  <2>2. ASSUME NEW u \in Users, Commit(u)
        PROVE  doc'[k].sender \in k \cup {NoOne}
    <3>1. outbox[u] \in Seq(Write) /\ outbox[u] # <<>>
      BY <2>2 DEF Commit, TypeInv, TypeOK
    <3> DEFINE w == Head(outbox[u])
    <3>2. w \in Write /\ 1 \in 1..Len(outbox[u]) /\ w = outbox[u][1]
      BY <3>1, HeadTailProperties, LenProperties, EmptySeq
    <3>3. w.kind = "set" => w.by \in w.conv
      BY <3>2 DEF MembersInv
    <3>4. doc' = [doc EXCEPT ![w.conv] = Apply(@, w)]
      BY <2>2 DEF Commit
    <3>5. doc \in [Convs -> Doc]
      BY DEF TypeInv, TypeOK
    <3> HIDE DEF w
    <3>6. CASE k = w.conv
      <4>1. Apply(doc[k], w).sender \in {doc[k].sender} \/
            (w.kind = "set" /\ Apply(doc[k], w).sender = w.by)
        BY <3>2, <3>5 DEF Apply, Doc, Write
      <4> QED
        BY <2>1, <3>3, <3>4, <3>5, <3>6, <4>1
    <3>7. CASE k # w.conv
      BY <2>1, <3>4, <3>5, <3>7
    <3> QED
      BY <3>6, <3>7
  <2>3. UNCHANGED doc \/ \E u \in Users : Commit(u)
    BY DEF Next, UserStep, SystemStep, vars, NameCommitted, InboxCrashes, ShowInbox, ShowHome,
           Relaunch, OpenFromHome,
           OpenFromInbox, Back, SendText, PickPhoto, Delete, DeleteCrashes, Tap,
           RecSnapshot, SendSnapshot, PhotoUploaded, UploadFailed, ThreadSnapshot,
           ThreadSnapshotCrashes, PhotoLoaded, PhotoNotLoaded
  <2> QED
    BY <2>1, <2>2, <2>3
<1>3. ASSUME NEW u \in Users, NEW i \in 1..Len(outbox'[u]), outbox'[u][i].kind = "set"
      PROVE  outbox'[u][i].by = u /\ u \in outbox'[u][i].conv
  <2>1. outbox[u] \in Seq(Write)
    BY DEF TypeInv, TypeOK
  <2>2. CASE outbox'[u] = outbox[u]
    BY <1>3, <2>2 DEF MembersInv
  <2>3. CASE Commit(u)
    <3>1. outbox'[u] = Tail(outbox[u]) /\ outbox[u] # <<>>
      BY <2>3 DEF Commit, TypeInv, TypeOK
    <3>2. i + 1 \in 1..Len(outbox[u]) /\ outbox'[u][i] = outbox[u][i + 1]
      BY <2>1, <3>1, HeadTailProperties, LenProperties
    <3> QED
      BY <1>3, <3>2 DEF MembersInv
  <2>4. ASSUME NEW w \in Write, outbox'[u] = Append(outbox[u], w),
               w.kind = "set" => SendsNow(u, w)
        PROVE  outbox'[u][i].by = u /\ u \in outbox'[u][i].conv
    <3>1. \/ i \in 1..Len(outbox[u]) /\ outbox'[u][i] = outbox[u][i]
          \/ outbox'[u][i] = w
      BY <2>1, <2>4, AppendProperties, LenProperties
    <3>2. w.kind = "set" => w.by = u /\ u \in w.conv
      BY <2>4, ChatAssumption DEF SendsNow, MembersInv
    <3> QED
      BY <1>3, <3>1, <3>2 DEF MembersInv
  <2> QED
    BY <2>2, <2>3, <2>4, OutboxChange
<1>4. ASSUME NEW u \in Users, NEW k \in Convs,
             \/ inbox'[u].acc[k].listed \/ inbox'[u].recSide[k].listed
             \/ inbox'[u].sendSide[k].listed
      PROVE  u \in k
  <2>1. inbox[u] \in InboxState /\ inbox \in [Users -> InboxState]
    BY DEF TypeInv, TypeOK
  <2>2. inbox[u].acc[k].listed \/ inbox[u].recSide[k].listed \/ inbox[u].sendSide[k].listed
          => u \in k
    BY DEF MembersInv
  <2>3. CASE RowsKept(u)
    BY <1>4, <2>2, <2>3 DEF RowsKept
  <2>4. CASE inbox'[u] = InitInbox
    BY <1>4, <2>4 DEF InitInbox, NoRow
  <2>5. CASE RecSnapshot(u)
    <3>1. PICK last : inbox'[u] = RecCallback(u, inbox[u], RecResult(u), last)
      BY <2>1, <2>5 DEF RecSnapshot
    <3> DEFINE acc == [j \in Convs |-> IF j \in Found(RecResult(u)) /\ Nameable(u, j)
                                       THEN RecRow(u, RecResult(u)[j]) ELSE inbox[u].acc[j]]
               side == [j \in Convs |-> IF acc[j].listed THEN NoRow ELSE inbox[u].sendSide[j]]
    <3>2. inbox'[u].acc = acc /\ inbox'[u].recSide = acc /\ inbox'[u].sendSide = side
      BY <2>1, <3>1 DEF RecCallback, InboxState
    <3>3. acc[k].listed => u \in k
      BY <2>2, OwnResults DEF Found
    <3>4. side[k].listed => u \in k
      BY <2>2 DEF NoRow
    <3> HIDE DEF acc, side
    <3> QED
      BY <1>4, <3>2, <3>3, <3>4
  <2>6. CASE SendSnapshot(u)
    <3> DEFINE rows == [j \in Convs |-> IF j \in Found(SendResult(u)) /\ Nameable(u, j)
                                        THEN SendRow(SendResult(u)[j]) ELSE NoRow]
               side == [j \in Convs |-> IF rows[j].listed THEN NoRow ELSE inbox[u].recSide[j]]
    <3>1. inbox'[u] = SendCallback(u, inbox[u], SendResult(u))
      BY <2>1, <2>6 DEF SendSnapshot
    <3>2. inbox'[u].acc = inbox[u].acc /\ inbox'[u].recSide = side
          /\ inbox'[u].sendSide = rows
      BY <2>1, <3>1 DEF SendCallback, InboxState
    <3>3. rows[k].listed => u \in k
      BY OwnResults DEF Found, NoRow
    <3>4. side[k].listed => u \in k
      BY <2>2 DEF NoRow
    <3> HIDE DEF rows, side
    <3> QED
      BY <1>4, <2>2, <3>2, <3>3, <3>4
  <2> QED
    BY <2>3, <2>4, <2>5, <2>6, InboxChange
<1> QED
  BY <1>1, <1>2, <1>3, <1>4 DEF MembersInv
-----------------------------------------------------------------------------
(* Chat implements the message log.                                         *)

LogInv == ScreensInv /\ ListsInv /\ MembersInv

\* A screen is as the log sees it: its user, its conversation and its list.
LEMMA LogFrame ==
  ASSUME TypeInv, \A c \in Chats : /\ chat'[c].owner = chat[c].owner
                                   /\ chat'[c].conv = chat[c].conv
                                   /\ chat'[c].shown = chat[c].shown
  PROVE  /\ [c \in Chats |-> chat'[c].owner] = [c \in Chats |-> chat[c].owner]
         /\ [c \in Chats |-> chat'[c].conv] = [c \in Chats |-> chat[c].conv]
         /\ [c \in Chats |-> chat'[c].shown] = [c \in Chats |-> chat[c].shown]
OBVIOUS

\* One screen's list changes by messages it may list and messages of its user.
LEMMA LogUpdate ==
  ASSUME TypeInv, NEW c \in Chats, chat[c].owner # NoOne,
         NEW more \in SUBSET (1..Len(log)), NEW less \in SUBSET (1..Len(log)),
         \A m \in more : log[m].conv = chat[c].conv /\ (m \in thread \/ log[m].photo),
         \A m \in less : log[m].from = chat[c].owner,
         chat'[c].shown = (chat[c].shown \ less) \cup more,
         \A d \in Chats : d # c => chat'[d].shown = chat[d].shown,
         \A d \in Chats : chat'[d].owner = chat[d].owner /\ chat'[d].conv = chat[d].conv,
         UNCHANGED <<log, thread>>
  PROVE  Log!Next
<1>1. /\ [d \in Chats |-> chat'[d].owner] = [d \in Chats |-> chat[d].owner]
      /\ [d \in Chats |-> chat'[d].conv] = [d \in Chats |-> chat[d].conv]
  OBVIOUS
<1>2. [d \in Chats |-> chat'[d].shown] =
        [[d \in Chats |-> chat[d].shown] EXCEPT ![c] = (@ \ less) \cup more]
  OBVIOUS
<1>3. Log!Update(c, more, less)
  BY <1>1, <1>2 DEF Log!Update
<1> QED
  BY <1>3 DEF Log!Next

\* A message is posted.
LEMMA LogPost ==
  ASSUME TypeInv, MembersInv, NEW c \in Chats, chat[c].owner # NoOne,
         NEW photo \in BOOLEAN, Save(c, photo), \A d \in Chats : ListsKept(d)
  PROVE  Log!Next
<1>1. chat[c].owner \in Users /\ chat[c].conv \in SUBSET Users
      /\ chat[c].owner \in chat[c].conv
  BY InUse DEF Convs, MembersInv
<1>2. Log!Post(chat[c].owner, chat[c].conv, photo)
  BY <1>1, LogFrame DEF Save, Log!Post, ListsKept
<1> QED
  BY <1>1, <1>2 DEF Log!Next

\* Messages of one user are deleted.
LEMMA LogRetract ==
  ASSUME TypeInv, ListsInv, NEW c \in Chats, OnTop(c), NEW ms \in SUBSET chat[c].selIds,
         thread' = thread \ ms, log' = log, \A d \in Chats : ListsKept(d)
  PROVE  Log!Next
<1>1. chat[c].owner \in Users
  BY InUse DEF OnTop
<1>2. (ms \cap thread) \in SUBSET thread /\ thread' = thread \ (ms \cap thread)
  OBVIOUS
<1>3. \A m \in ms \cap thread : m \in 1..Len(log) /\ log[m].from = chat[c].owner
  BY DEF ListsInv
<1>4. Log!Retract(chat[c].owner, ms \cap thread)
  BY <1>2, <1>3, LogFrame DEF Log!Retract, ListsKept
<1> QED
  BY <1>1, <1>2, <1>4 DEF Log!Next

\* A screen appears.
LEMMA LogEnter ==
  ASSUME TypeInv, LogInv, NEW u \in Users, NEW k \in Convs, NEW c \in Chats,
         OpenFromHome(u, k, c) \/ OpenFromInbox(u, k, c)
  PROVE  Log!Next
<1>1. PICK n \in BOOLEAN, l \in BOOLEAN, photo \in BOOLEAN :
        chat' = [chat EXCEPT ![c] = Opened(u, k, n, l, photo)]
  BY DEF OpenFromHome, OpenFromInbox
<1> DEFINE s == Opened(u, k, n, l, photo)
<1>2. s.owner = u /\ s.conv = k /\ s.shown = {}
  BY DEF Opened, NoChat
<1>3. u \in k /\ k \in SUBSET Users
  BY DEF OpenFromHome, OpenFromInbox, RowOf, LogInv, MembersInv, Convs
<1>4. chat[c].owner = NoOne /\ chat[c].shown = {} /\ UNCHANGED <<log, thread>>
  BY DEF OpenFromHome, OpenFromInbox, LogInv, ListsInv
<1> HIDE DEF s
<1>5. chat'[c] = s /\ \A d \in Chats : d # c => chat'[d] = chat[d]
  BY <1>1 DEF s, TypeInv, TypeOK
<1>6. /\ [d \in Chats |-> chat'[d].owner] = [[d \in Chats |-> chat[d].owner] EXCEPT ![c] = u]
      /\ [d \in Chats |-> chat'[d].conv] = [[d \in Chats |-> chat[d].conv] EXCEPT ![c] = k]
      /\ [d \in Chats |-> chat'[d].shown] = [d \in Chats |-> chat[d].shown]
  BY <1>2, <1>4, <1>5
<1>7. Log!Enter(c, u, k)
  BY <1>3, <1>4, <1>6 DEF Log!Enter
<1> QED
  BY <1>3, <1>7 DEF Log!Next

\* An app is started again.
LEMMA LogLeave ==
  ASSUME TypeInv, NEW u \in Users, Relaunch(u)
  PROVE  Log!Next
<1>1. /\ [c \in Chats |-> chat'[c].owner] =
           [c \in Chats |-> IF chat[c].owner = u THEN NoOne ELSE chat[c].owner]
      /\ [c \in Chats |-> chat'[c].conv] =
           [c \in Chats |-> IF chat[c].owner = u THEN {} ELSE chat[c].conv]
      /\ [c \in Chats |-> chat'[c].shown] =
           [c \in Chats |-> IF chat[c].owner = u THEN {} ELSE chat[c].shown]
  BY DEF Relaunch, NoChat, NoConv
<1>2. \A c \in Chats : [d \in Chats |-> chat[d].owner][c] = chat[c].owner
  OBVIOUS
<1>3. UNCHANGED <<log, thread>>
  BY DEF Relaunch
<1>4. Log!Leave(u)
  BY <1>1, <1>3 DEF Log!Leave
<1> QED
  BY <1>4 DEF Log!Next

LEMMA LogStep ==
  ASSUME TypeInv, LogInv, [Next]_vars
  PROVE  [Log!Next]_(Log!vars)
<1> DEFINE Goal == [Log!Next]_(Log!vars)
<1> HIDE DEF Goal
<1> USE DEF LogInv
<1>0. chat \in [Chats -> ChatState]
  BY DEF TypeInv, TypeOK
<1>1. Log!Next => Goal
  BY DEF Goal
<1>2. (\A c \in Chats : ListsKept(c)) /\ UNCHANGED <<log, thread>> => Goal
  BY LogFrame DEF ListsKept, Goal, Log!vars
<1>3. ASSUME NEW u \in Users, \/ ShowInbox(u) \/ ShowHome(u) \/ Commit(u)
                              \/ NameCommitted(u) \/ InboxCrashes(u)
                              \/ RecSnapshot(u) \/ SendSnapshot(u)
      PROVE  Goal
  BY <1>2, <1>3 DEF ShowInbox, ShowHome, Commit, NameCommitted, InboxCrashes, RecSnapshot,
                    SendSnapshot, ListsKept
<1>4. ASSUME NEW u \in Users, Relaunch(u)
      PROVE  Goal
  BY <1>1, <1>4, LogLeave
<1>5. ASSUME NEW u \in Users, NEW k \in Convs, NEW c \in Chats,
             OpenFromHome(u, k, c) \/ OpenFromInbox(u, k, c)
      PROVE  Goal
  BY <1>1, <1>5, LogEnter
<1>6. ASSUME NEW c \in Chats, SendText(c)
      PROVE  Goal
  <2> DEFINE s == [chat[c] EXCEPT !.isNewMsg = TRUE]
  <2>1. chat' = [chat EXCEPT ![c] = s]
    BY <1>0, <1>6 DEF SendText
  <2>2. \A d \in Chats : ListsKept(d)
    BY <1>0, <2>1, RestChanged DEF ChatState
  <2> QED
    BY <1>1, <1>6, <2>2, LogPost DEF SendText, OnTop
<1>7. ASSUME NEW c \in Chats, PhotoUploaded(c)
      PROVE  Goal
  <2> DEFINE s == [chat[c] EXCEPT !.uploads = @ - 1, !.hud = FALSE]
  <2>1. chat' = [chat EXCEPT ![c] = s]
    BY <1>0, <1>7 DEF PhotoUploaded
  <2>2. \A d \in Chats : ListsKept(d)
    BY <1>0, <2>1, RestChanged DEF ChatState
  <2> QED
    BY <1>1, <1>7, <2>2, LogPost DEF PhotoUploaded
<1>8. ASSUME NEW c \in Chats, PickPhoto(c) \/ UploadFailed(c)
      PROVE  Goal
  <2>1. PICK n : chat' = [chat EXCEPT ![c] = [chat[c] EXCEPT !.uploads = n]]
    BY <1>0, <1>8 DEF PickPhoto, UploadFailed
  <2> DEFINE s == [chat[c] EXCEPT !.uploads = n]
  <2>2. \A d \in Chats : ListsKept(d)
    BY <1>0, <2>1, RestChanged DEF ChatState
  <2> QED
    BY <1>2, <1>8, <2>2 DEF PickPhoto, UploadFailed
<1>9. ASSUME NEW c \in Chats, Delete(c)
      PROVE  Goal
  <2> DEFINE s == [chat[c] EXCEPT !.fresh = @ \ (chat[c].selIds \cap chat[c].fresh)]
  <2>1. chat' = [chat EXCEPT ![c] = s]
    BY <1>0, <1>9 DEF Delete
  <2>2. \A d \in Chats : ListsKept(d)
    BY <1>0, <2>1, RestChanged DEF ChatState
  <2> QED
    BY <1>1, <1>9, <2>2, LogRetract DEF Delete
<1>10. ASSUME NEW c \in Chats, DeleteCrashes(c)
       PROVE  Goal
  <2>1. PICK done \in SUBSET chat[c].selIds : thread' = thread \ done
    BY <1>10 DEF DeleteCrashes
  <2> QED
    BY <1>1, <1>10, <2>1, LogRetract DEF DeleteCrashes, ListsKept
<1>11. ASSUME NEW c \in Chats, Back(c) \/ ThreadSnapshotCrashes(c)
       PROVE  Goal
  BY <1>2, <1>11 DEF Back, ThreadSnapshotCrashes, ListsKept
<1>12. ASSUME NEW c \in Chats, NEW m \in Ids, Tap(c, m)
       PROVE  Goal
  <2> DEFINE s == [chat[c] EXCEPT !.selIds = @ \cup {m}]
  <2>1. chat' = [chat EXCEPT ![c] = s] /\ chat[c] \in ChatState
    BY <1>0, <1>12 DEF Tap
  <2>2. s.owner = chat[c].owner /\ s.conv = chat[c].conv /\ s.shown = chat[c].shown
    BY <2>1 DEF ChatState
  <2> HIDE DEF s
  <2>3. \A d \in Chats : /\ chat'[d].owner = chat[d].owner /\ chat'[d].conv = chat[d].conv
                         /\ chat'[d].shown = chat[d].shown
    BY <1>0, <2>1, <2>2
  <2> QED
    BY <1>12, <2>3, LogFrame DEF Tap, Goal, Log!vars
<1>13. ASSUME NEW c \in Chats, NEW m \in Ids, PhotoLoaded(c, m)
       PROVE  Goal
  <2> DEFINE s == [chat[c] EXCEPT !.loading = @ \ {m}, !.shown = @ \cup {m},
                     !.fresh = IF chat[c].isNewMsg THEN @ \cup {m} ELSE @]
  <2>1. chat' = [chat EXCEPT ![c] = s] /\ chat[c] \in ChatState
    BY <1>0, <1>13 DEF PhotoLoaded
  <2>2. s.owner = chat[c].owner /\ s.conv = chat[c].conv
        /\ s.shown = chat[c].shown \cup {m}
    BY <2>1 DEF ChatState
  <2> HIDE DEF s
  <2>3. /\ \A d \in Chats : chat'[d].owner = chat[d].owner /\ chat'[d].conv = chat[d].conv
        /\ \A d \in Chats : d # c => chat'[d].shown = chat[d].shown
        /\ chat'[c].shown = (chat[c].shown \ {}) \cup {m}
    BY <1>0, <2>1, <2>2
  <2>4. m \in 1..Len(log) /\ log[m].conv = chat[c].conv /\ log[m].photo
    BY <1>13 DEF PhotoLoaded, ListsInv
  <2>5. chat[c].owner # NoOne /\ UNCHANGED <<log, thread>>
    BY <1>13 DEF PhotoLoaded
  <2>6. {m} \in SUBSET (1..Len(log)) /\ {} \in SUBSET (1..Len(log))
    BY <2>4
  <2> DEFINE more == {m}
             less == {}
  <2>7. /\ more \in SUBSET (1..Len(log)) /\ less \in SUBSET (1..Len(log))
        /\ \A n \in more : log[n].conv = chat[c].conv /\ (n \in thread \/ log[n].photo)
        /\ \A n \in less : log[n].from = chat[c].owner
        /\ chat'[c].shown = (chat[c].shown \ less) \cup more
    BY <2>3, <2>4, <2>6
  <2> HIDE DEF more, less
  <2>8. Log!Next
    BY <2>3, <2>5, <2>7, LogUpdate, Zenon
  <2> QED
    BY <1>1, <2>8
<1>14. ASSUME NEW c \in Chats, NEW m \in Ids, PhotoNotLoaded(c, m)
       PROVE  Goal
  <2> DEFINE s == [chat[c] EXCEPT !.loading = @ \ {m}]
  <2>1. chat' = [chat EXCEPT ![c] = s] /\ chat[c] \in ChatState
    BY <1>0, <1>14 DEF PhotoNotLoaded
  <2>2. s.owner = chat[c].owner /\ s.conv = chat[c].conv /\ s.shown = chat[c].shown
    BY <2>1 DEF ChatState
  <2> HIDE DEF s
  <2>3. \A d \in Chats : /\ chat'[d].owner = chat[d].owner /\ chat'[d].conv = chat[d].conv
                         /\ chat'[d].shown = chat[d].shown
    BY <1>0, <2>1, <2>2
  <2> QED
    BY <1>14, <2>3, LogFrame DEF PhotoNotLoaded, Goal, Log!vars
<1>15. ASSUME NEW c \in Chats, ThreadSnapshot(c)
       PROVE  Goal
  <2>1. Delivered(c) /\ \A d \in Chats : d = c \/ ListsKept(d)
    BY <1>15, DeliveredLists
  <2> DEFINE now == InConv(chat[c].conv)
             less == IF chat[c].seen \subseteq now THEN {} ELSE chat[c].selIds
  <2>2. \A m \in now : m \in 1..Len(log) /\ log[m].conv = chat[c].conv /\ m \in thread
    BY DEF InConv, TypeInv, TypeOK
  <2>3. PICK texts \in SUBSET (now \ chat[c].seen) :
          chat'[c].shown = (chat[c].shown \ less) \cup texts
    BY <2>1 DEF Delivered
  <2>4. less \in SUBSET (1..Len(log)) /\ \A m \in less : log[m].from = chat[c].owner
    BY DEF ListsInv
  <2>5. texts \in SUBSET (1..Len(log))
        /\ \A m \in texts : log[m].conv = chat[c].conv /\ m \in thread
    BY <2>2, <2>3
  <2>6. /\ \A d \in Chats : chat'[d].owner = chat[d].owner /\ chat'[d].conv = chat[d].conv
        /\ \A d \in Chats : d # c => chat'[d].shown = chat[d].shown
        /\ chat[c].owner # NoOne /\ UNCHANGED <<log, thread>>
    BY <2>1 DEF Delivered, ListsKept
  <2> HIDE DEF now, less
  <2>8. \A m \in texts : log[m].conv = chat[c].conv /\ (m \in thread \/ log[m].photo)
    BY <2>5
  <2>9. texts \in SUBSET (1..Len(log))
    BY <2>5
  <2>7. Log!Next
    BY <2>3, <2>4, <2>6, <2>8, <2>9, LogUpdate, Zenon
  <2> QED
    BY <1>1, <2>7
<1>16. ASSUME UNCHANGED vars
       PROVE  Goal
  <2>1. UNCHANGED <<log, thread>> /\ \A c \in Chats : ListsKept(c)
    BY <1>16 DEF vars, ListsKept
  <2> QED
    BY <1>2, <2>1
<1>17. Goal
  BY <1>3, <1>4, <1>5, <1>6, <1>7, <1>8, <1>9, <1>10, <1>11, <1>12, <1>13, <1>14,
     <1>15, <1>16 DEF Next, UserStep, SystemStep
<1> QED
  BY <1>17 DEF Goal

\* Only authors retract messages; a screen lists only messages of its own
\* conversation and drops only messages of its own user.
THEOREM LogHolds == Spec => LogSpec
<1>1. Init => LogInv
  BY ListsInitially, MembersInitially DEF Init, NoChat, LogInv, ScreensInv
<1>2. TypeInv /\ LogInv /\ [Next]_vars => LogInv'
  BY ScreensStep, ListsStep, MembersStep DEF LogInv
<1>3. Init => Log!Init
  BY DEF Init, NoChat, NoConv, Log!Init
<1>4. TypeInv /\ LogInv /\ [Next]_vars => [Log!Next]_(Log!vars)
  BY LogStep
<1> QED
  BY <1>1, <1>2, <1>3, <1>4, TypeInvariant, PTL DEF Spec, LogSpec, Log!Spec
-----------------------------------------------------------------------------
(* Where a user deletes his messages, they go away.                         *)

\* On the screen in front, a deleted message of its user is a selected one, and
\* if it is still listed its removal has not been delivered.
ClearInv ==
  \A c \in Chats : OnTop(c) =>
    /\ \A m \in chat[c].shown \cup chat[c].loading \cup chat[c].seen :
         log[m].from = chat[c].owner /\ m \notin thread => m \in chat[c].selIds
    /\ (chat[c].shown \cap chat[c].selIds) \ thread \subseteq chat[c].seen

\* A screen that is in front now was in front before, or is new.
LEMMA FrontChange ==
  ASSUME TypeInv, [Next]_vars, NEW c \in Chats, OnTop(c)'
  PROVE  OnTop(c) \/ ListsEmpty(c)
<1>1. /\ screen \in [Users -> {"home", "inbox", "crashed"} \cup Chats]
      /\ chat'[c].owner # NoOne /\ screen'[chat'[c].owner] = c
  BY DEF TypeInv, TypeOK, OnTop
<1>2. chat'[c].owner = chat[c].owner \/ ListsEmpty(c)
  BY ListsChange DEF ListsKept, Delivered, Selected, PhotoDone
<1>3. c \notin {"home", "inbox", "crashed"}
  BY ChatAssumption
<1> SUFFICES ASSUME chat'[c].owner = chat[c].owner, ~ListsEmpty(c)
             PROVE  OnTop(c)
  BY <1>2
<1>4. chat[c].owner \in Users
  BY <1>1, InUse
<1> SUFFICES screen'[chat[c].owner] = c => screen[chat[c].owner] = c
  BY <1>1 DEF OnTop
<1>5. ASSUME NEW u \in Users, ShowInbox(u) \/ ShowHome(u) \/ Relaunch(u)
      PROVE  screen'[chat[c].owner] = c => screen[chat[c].owner] = c
  BY <1>1, <1>3, <1>4, <1>5 DEF ShowInbox, ShowHome, Relaunch
<1>6. ASSUME NEW u \in Users, NEW k \in Convs, NEW d \in Chats,
             OpenFromHome(u, k, d) \/ OpenFromInbox(u, k, d)
      PROVE  screen'[chat[c].owner] = c => screen[chat[c].owner] = c
  <2>1. chat[d].owner = NoOne /\ screen' = [screen EXCEPT ![u] = d]
    BY <1>6 DEF OpenFromHome, OpenFromInbox
  <2>2. c # d
    BY <1>1, <2>1
  <2> QED
    BY <1>1, <1>4, <2>1, <2>2
<1>7. ASSUME NEW d \in Chats, Back(d) \/ DeleteCrashes(d) \/ ThreadSnapshotCrashes(d)
      PROVE  screen'[chat[c].owner] = c => screen[chat[c].owner] = c
  <2>1. \E v, s : screen' = [screen EXCEPT ![v] = s] /\ s \in {"home", "inbox", "crashed"}
    BY <1>7 DEF Back, DeleteCrashes, ThreadSnapshotCrashes
  <2> QED
    BY <1>1, <1>3, <1>4, <2>1
<1>8. UNCHANGED screen => (screen'[chat[c].owner] = c => screen[chat[c].owner] = c)
  OBVIOUS
<1>9. ASSUME NEW u \in Users, InboxCrashes(u)
      PROVE  screen'[chat[c].owner] = c => screen[chat[c].owner] = c
  BY <1>1, <1>3, <1>4, <1>9 DEF InboxCrashes
<1> QED
  BY <1>5, <1>6, <1>7, <1>8, <1>9
  DEF Next, UserStep, SystemStep, vars, NameCommitted, SendText, PickPhoto, Delete, Tap, Commit,
      RecSnapshot, SendSnapshot, PhotoUploaded, UploadFailed, ThreadSnapshot,
      PhotoLoaded, PhotoNotLoaded

\* A message that goes was selected on the screen in front of its author.
LEMMA GoneBySelection ==
  ASSUME TypeInv, ListsInv, [Next]_vars, NEW m \in thread, m \notin thread'
  PROVE  /\ \A c \in Chats : ListsKept(c)
         /\ log' = log
         /\ \E d \in Chats : OnTop(d) /\ m \in chat[d].selIds /\ log[m].from = chat[d].owner
<1>1. chat \in [Chats -> ChatState]
  BY DEF TypeInv, TypeOK
<1>2. PICK d \in Chats : Delete(d) \/ DeleteCrashes(d)
  BY DEF Next, UserStep, SystemStep, vars, NameCommitted, InboxCrashes, ShowInbox, ShowHome,
         Relaunch, OpenFromHome,
         OpenFromInbox, Back, SendText, PickPhoto, Tap, Commit, RecSnapshot, SendSnapshot,
         PhotoUploaded, UploadFailed, ThreadSnapshot, ThreadSnapshotCrashes, PhotoLoaded,
         PhotoNotLoaded, Save
<1>3. OnTop(d) /\ m \in chat[d].selIds /\ log' = log
  BY <1>2 DEF Delete, DeleteCrashes
<1>4. CASE Delete(d)
  <2> DEFINE s == [chat[d] EXCEPT !.fresh = @ \ (chat[d].selIds \cap chat[d].fresh)]
  <2>1. chat' = [chat EXCEPT ![d] = s]
    BY <1>1, <1>4 DEF Delete
  <2>2. \A c \in Chats : ListsKept(c)
    BY <1>1, <2>1, RestChanged DEF ChatState
  <2> QED
    BY <1>3, <2>2 DEF ListsInv
<1>5. CASE DeleteCrashes(d)
  BY <1>3, <1>5 DEF DeleteCrashes, ListsKept, ListsInv
<1> QED
  BY <1>2, <1>4, <1>5

LEMMA ClearStep ==
  ASSUME TypeInv, ScreensInv, ListsInv, ClearInv, [Next]_vars
  PROVE  ClearInv'
<1> SUFFICES ASSUME NEW c \in Chats, OnTop(c)'
             PROVE  /\ \A m \in chat'[c].shown \cup chat'[c].loading \cup chat'[c].seen :
                         log'[m].from = chat'[c].owner /\ m \notin thread'
                           => m \in chat'[c].selIds
                    /\ (chat'[c].shown \cap chat'[c].selIds) \ thread' \subseteq chat'[c].seen
  BY DEF ClearInv
<1>1. CASE ListsEmpty(c)
  BY <1>1 DEF ListsEmpty
<1> SUFFICES ASSUME ~ListsEmpty(c)
             PROVE  /\ \A m \in chat'[c].shown \cup chat'[c].loading \cup chat'[c].seen :
                         log'[m].from = chat'[c].owner /\ m \notin thread'
                           => m \in chat'[c].selIds
                    /\ (chat'[c].shown \cap chat'[c].selIds) \ thread' \subseteq chat'[c].seen
  BY <1>1
<1>2. OnTop(c)
  BY FrontChange
<1>3. /\ \A m \in chat[c].shown \cup chat[c].loading \cup chat[c].seen :
           log[m].from = chat[c].owner /\ m \notin thread => m \in chat[c].selIds
      /\ (chat[c].shown \cap chat[c].selIds) \ thread \subseteq chat[c].seen
  BY <1>2 DEF ClearInv
<1>4. /\ chat[c].seen \cup chat[c].shown \cup chat[c].loading \subseteq 1..Len(log)
      /\ \A m \in chat[c].selIds : m \in 1..Len(log) /\ log[m].from = chat[c].owner
      /\ (chat[c].shown \cup chat[c].selIds) \cap chat[c].loading = {}
      /\ chat[c].shown \cap thread \subseteq chat[c].seen
  BY DEF ListsInv
<1>5. CASE ListsKept(c)
  <2>1. \A m \in 1..Len(log) : log'[m] = log[m]
    BY LogGrows
  <2>2. ASSUME NEW m \in thread, m \notin thread', log[m].from = chat[c].owner
        PROVE  m \in chat[c].selIds
    <3>1. PICK d \in Chats : OnTop(d) /\ m \in chat[d].selIds /\ log[m].from = chat[d].owner
      BY <2>2, GoneBySelection
    <3>2. d = c
      BY <1>2, <2>2, <3>1 DEF OnTop
    <3> QED
      BY <3>1, <3>2
  <2> QED
    BY <1>3, <1>4, <1>5, <2>1, <2>2 DEF ListsKept
<1>6. CASE Delivered(c)
  <2> DEFINE now == InConv(chat[c].conv)
  <2>1. \A m \in now : m \in thread
    BY DEF InConv
  <2> HIDE DEF now
  <2>2. PICK texts \in SUBSET (now \ chat[c].seen) :
          /\ chat'[c].shown = (IF chat[c].seen \subseteq now THEN chat[c].shown
                               ELSE chat[c].shown \ chat[c].selIds) \cup texts
          /\ chat'[c].loading = chat[c].loading \cup ((now \ chat[c].seen) \ texts)
    BY <1>6 DEF Delivered, now
  <2>3. /\ chat'[c].owner = chat[c].owner /\ chat'[c].seen = now
        /\ chat'[c].selIds = chat[c].selIds /\ UNCHANGED <<log, thread>>
    BY <1>6 DEF Delivered, now
  <2>4. CASE chat[c].seen \subseteq now
    BY <1>3, <1>4, <2>1, <2>2, <2>3, <2>4
  <2>5. CASE ~(chat[c].seen \subseteq now)
    BY <1>3, <1>4, <2>1, <2>2, <2>3, <2>5
  <2> QED
    BY <2>4, <2>5
<1>7. ASSUME NEW i \in Ids, Selected(c, i)
      PROVE  /\ \A m \in chat'[c].shown \cup chat'[c].loading \cup chat'[c].seen :
                  log'[m].from = chat'[c].owner /\ m \notin thread'
                    => m \in chat'[c].selIds
             /\ (chat'[c].shown \cap chat'[c].selIds) \ thread' \subseteq chat'[c].seen
  BY <1>3, <1>7 DEF Selected
<1>8. ASSUME NEW i \in Ids, PhotoDone(c, i)
      PROVE  /\ \A m \in chat'[c].shown \cup chat'[c].loading \cup chat'[c].seen :
                  log'[m].from = chat'[c].owner /\ m \notin thread'
                    => m \in chat'[c].selIds
             /\ (chat'[c].shown \cap chat'[c].selIds) \ thread' \subseteq chat'[c].seen
  <2>1. i \in chat[c].loading /\ i \notin chat[c].selIds
    BY <1>4, <1>8 DEF PhotoDone
  <2> QED
    BY <1>3, <1>8, <2>1 DEF PhotoDone
<1> QED
  BY <1>5, <1>6, <1>7, <1>8, ListsChange

\* On the screen a user looks at, no deleted message of his own is left once
\* the removal has been delivered.
THEOREM OwnDeletionsHold == Spec => []OwnDeletionsClear
<1>1. Init => ScreensInv /\ ListsInv /\ ClearInv
  BY ListsInitially DEF Init, NoChat, ScreensInv, ClearInv, OnTop
<1>2. TypeInv /\ ScreensInv /\ ListsInv /\ ClearInv /\ [Next]_vars
        => (ScreensInv /\ ListsInv /\ ClearInv)'
  BY ScreensStep, ListsStep, ClearStep
<1>3. ListsInv /\ ClearInv => OwnDeletionsClear
  BY DEF ListsInv, ClearInv, OwnDeletionsClear
<1> QED
  BY <1>1, <1>2, <1>3, TypeInvariant, PTL DEF Spec
-----------------------------------------------------------------------------
(* The rows of the inbox converge.                                          *)

\* A message is dated as it is sent: what a device has issued and the server not
\* applied is newer than everything of that user the server has, or had.
SetAt(v, i) == outbox[v][i].kind = "set"

DatedBy(v, t) == t \in 1..Len(log) /\ log[t].from = v

Past(d) ==
  d.sender \in Users =>
    /\ DatedBy(d.sender, d.timestamp)
    /\ \A i \in DOMAIN outbox[d.sender] :
         SetAt(d.sender, i) => d.timestamp < outbox[d.sender][i].timestamp

DatesInv ==
  /\ \A v \in Users : \A i \in DOMAIN outbox[v] :
       SetAt(v, i) => outbox[v][i].by = v /\ DatedBy(v, outbox[v][i].timestamp)
  /\ \A v \in Users : \A i, j \in DOMAIN outbox[v] :
       i < j /\ SetAt(v, i) /\ SetAt(v, j) => outbox[v][i].timestamp < outbox[v][j].timestamp
  /\ \A k \in Convs : Past(doc[k])
  /\ \A u \in Users, k \in Convs : Past(inbox[u].recSeen[k]) /\ inbox[u].recSeen[k].sender # u

\* The document the receiver listener of u delivered for k does not come back.
Superseded(u, k) ==
  \/ LastPending(u, k, {"set"}) # {}
  \/ doc[k].timestamp # inbox[u].recSeen[k].timestamp

\* The row of a conversation follows what the listeners delivered, except where
\* the sender listener took over, and then the receiver listener has news to come.
RowsInv ==
  \A u \in Users, k \in Convs : u \in k /\ Nameable(u, k) =>
    /\ inbox[u].recSeen[k].sender # NoOne =>
         inbox[u].recSide[k] = RecRow(u, inbox[u].recSeen[k]) \/ Superseded(u, k)
    /\ inbox[u].sendOn /\ ~inbox[u].sendDue /\ inbox[u].sendSeen[k].sender # NoOne =>
         inbox[u].sendSide[k] = SendRow(inbox[u].sendSeen[k])

LEMMA OutboxTyped ==
  ASSUME TypeInv, NEW v \in Users
  PROVE  /\ outbox[v] \in Seq(Write) /\ Len(outbox[v]) \in Nat
         /\ DOMAIN outbox[v] = 1..Len(outbox[v])
         /\ \A i \in DOMAIN outbox[v] : outbox[v][i] \in Write
<1>1. outbox[v] \in Seq(Write)
  BY DEF TypeInv, TypeOK
<1> QED
  BY <1>1, LenProperties, ElementOfSeq

\* What a step makes of the pending writes of v: one is applied, or one issued.
LEMMA PendingAfter ==
  ASSUME TypeInv, [Next]_vars, NEW v \in Users
  PROVE  \/ /\ outbox'[v] = outbox[v] /\ DOMAIN outbox'[v] = DOMAIN outbox[v]
         \/ /\ Commit(v) /\ 1 \in DOMAIN outbox[v] /\ Head(outbox[v]) = outbox[v][1]
            /\ \A i : i \in DOMAIN outbox'[v] <=> i \in Nat \ {0} /\ i + 1 \in DOMAIN outbox[v]
            /\ \A i \in DOMAIN outbox'[v] : outbox'[v][i] = outbox[v][i + 1]
         \/ \E w \in Write :
              /\ DOMAIN outbox'[v] = DOMAIN outbox[v] \cup {Len(outbox[v]) + 1}
              /\ outbox'[v][Len(outbox[v]) + 1] = w
              /\ \A i \in DOMAIN outbox[v] : outbox'[v][i] = outbox[v][i]
              /\ w.kind = "set" => SendsNow(v, w)
<1> DEFINE q == outbox[v]
           r == outbox'[v]
<1>0. q \in Seq(Write) /\ Len(q) \in Nat /\ DOMAIN q = 1..Len(q)
  BY OutboxTyped
<1>1. \/ r = q \/ Commit(v)
      \/ \E w \in Write : r = Append(q, w) /\ (w.kind = "set" => SendsNow(v, w))
  BY OutboxChange
<1>2. CASE r = q
  BY <1>2
<1>3. CASE Commit(v)
  <2>1. q # <<>> /\ r = Tail(q)
    BY <1>3 DEF Commit, TypeInv, TypeOK
  <2> HIDE DEF q, r
  <2>2. /\ Len(r) = Len(q) - 1 /\ r \in Seq(Write) /\ Len(q) >= 1
        /\ \A i \in 1..Len(r) : r[i] = q[i + 1]
        /\ Head(q) = q[1]
    BY <1>0, <2>1, HeadTailProperties, EmptySeq
  <2>3. DOMAIN r = 1..Len(r) /\ 1 \in DOMAIN q
    BY <1>0, <2>2
  <2>4. \A i : i \in DOMAIN r <=> i \in Nat \ {0} /\ i + 1 \in DOMAIN q
    BY <1>0, <2>2, <2>3
  <2> QED
    BY <1>3, <2>2, <2>3, <2>4 DEF q, r
<1>4. ASSUME NEW w \in Write, r = Append(q, w), w.kind = "set" => SendsNow(v, w)
      PROVE  /\ DOMAIN r = DOMAIN q \cup {Len(q) + 1} /\ r[Len(q) + 1] = w
             /\ \A i \in DOMAIN q : r[i] = q[i]
  <2> HIDE DEF q, r
  <2>1. /\ r \in Seq(Write) /\ Len(r) = Len(q) + 1 /\ r[Len(q) + 1] = w
        /\ \A i \in 1..Len(q) : r[i] = q[i]
    BY <1>0, <1>4, AppendProperties
  <2>2. DOMAIN r = 1..Len(q) + 1
    BY <2>1
  <2> QED
    BY <1>0, <2>1, <2>2
<1> QED
  BY <1>1, <1>2, <1>3, <1>4

\* Who wrote a document last, and when, changes only as a message is applied.
LEMMA DocChange ==
  ASSUME TypeInv, DatesInv, [Next]_vars, NEW k \in Convs
  PROVE  \/ doc'[k].sender = doc[k].sender /\ doc'[k].timestamp = doc[k].timestamp
         \/ \E v \in Users :
              /\ Commit(v) /\ 1 \in DOMAIN outbox[v] /\ SetAt(v, 1) /\ outbox[v][1].conv = k
              /\ doc'[k].sender = v /\ doc'[k].timestamp = outbox[v][1].timestamp
<1>1. UNCHANGED doc \/ \E v \in Users : Commit(v)
  BY DEF Next, UserStep, SystemStep, vars, NameCommitted, InboxCrashes, ShowInbox, ShowHome,
         Relaunch, OpenFromHome,
         OpenFromInbox, Back, SendText, PickPhoto, Delete, DeleteCrashes, Tap,
         RecSnapshot, SendSnapshot, PhotoUploaded, UploadFailed, ThreadSnapshot,
         ThreadSnapshotCrashes, PhotoLoaded, PhotoNotLoaded
<1>2. ASSUME NEW v \in Users, Commit(v)
      PROVE  \/ doc'[k].sender = doc[k].sender /\ doc'[k].timestamp = doc[k].timestamp
             \/ /\ 1 \in DOMAIN outbox[v] /\ SetAt(v, 1) /\ outbox[v][1].conv = k
                /\ doc'[k].sender = v /\ doc'[k].timestamp = outbox[v][1].timestamp
  <2>1. outbox[v] \in Seq(Write) /\ outbox[v] # <<>>
    BY <1>2, OutboxTyped DEF Commit
  <2> DEFINE w == Head(outbox[v])
  <2>2. w \in Write /\ 1 \in DOMAIN outbox[v] /\ w = outbox[v][1]
    BY <2>1, HeadTailProperties, LenProperties, EmptySeq
  <2>3. w.kind = "set" => w.by = v
    BY <2>2 DEF DatesInv, SetAt
  <2>4. doc' = [doc EXCEPT ![w.conv] = Apply(@, w)]
    BY <1>2 DEF Commit
  <2>5. doc \in [Convs -> Doc]
    BY DEF TypeInv, TypeOK
  <2>6. w.kind = "set" <=> SetAt(v, 1)
    BY <2>2 DEF SetAt
  <2> HIDE DEF w
  <2>7. CASE k = w.conv
    <3>1. doc'[k] = Apply(doc[k], w) /\ doc[k] \in Doc
      BY <2>4, <2>5, <2>7
    <3>2. CASE w.kind = "set"
      <4>1. doc'[k].sender = w.by /\ doc'[k].timestamp = w.timestamp
        BY <3>1, <3>2 DEF Apply
      <4> QED
        BY <2>2, <2>3, <2>6, <2>7, <3>2, <4>1
    <3>3. CASE w.kind = "clear"
      BY <3>1, <3>3 DEF Apply, Doc
    <3>4. CASE w.kind = "count"
      BY <3>1, <3>4 DEF Apply, Doc
    <3> QED
      BY <2>2, <3>2, <3>3, <3>4 DEF Write
  <2>8. CASE k # w.conv
    BY <2>4, <2>5, <2>8
  <2> QED
    BY <2>7, <2>8
<1> QED
  BY <1>1, <1>2

LEMMA DatedStays ==
  ASSUME TypeInv, [Next]_vars, NEW v, NEW t, DatedBy(v, t)
  PROVE  DatedBy(v, t)' /\ t < Len(log) + 1
BY LogGrows DEF DatedBy

\* The pending messages of v after a step: old ones, and later ones.
LEMMA SetsAfter ==
  ASSUME TypeInv, DatesInv, [Next]_vars, NEW v \in Users, NEW i \in DOMAIN outbox'[v],
         outbox'[v][i].kind = "set"
  PROVE  \/ \E j \in DOMAIN outbox[v] : SetAt(v, j) /\ outbox'[v][i] = outbox[v][j]
         \/ /\ outbox'[v][i].by = v /\ outbox'[v][i].timestamp = Len(log) + 1
            /\ log'[Len(log) + 1].conv = outbox'[v][i].conv
            /\ \A t : t = Len(log) + 1 => DatedBy(v, t)'
<1>1. ASSUME NEW w \in Write, w.kind = "set", SendsNow(v, w)
      PROVE  /\ w.by = v /\ w.timestamp = Len(log) + 1
             /\ log'[Len(log) + 1].conv = w.conv
             /\ \A t : t = Len(log) + 1 => DatedBy(v, t)'
  <2>1. /\ w.by = v /\ w.timestamp = Len(log) + 1 /\ Len(log') = Len(log) + 1
        /\ log'[Len(log) + 1].from = v /\ log'[Len(log) + 1].conv = w.conv
    BY <1>1 DEF SendsNow
  <2>2. Len(log) \in Nat
    BY LogGrows
  <2> QED
    BY <2>1, <2>2 DEF DatedBy
<1> QED
  BY <1>1, PendingAfter DEF SetAt

LEMMA PastStays ==
  ASSUME TypeInv, DatesInv, [Next]_vars, NEW d, Past(d)
  PROVE  Past(d)'
<1> SUFFICES ASSUME d.sender \in Users
             PROVE  /\ DatedBy(d.sender, d.timestamp)'
                    /\ \A i \in DOMAIN outbox'[d.sender] :
                         outbox'[d.sender][i].kind = "set" =>
                           d.timestamp < outbox'[d.sender][i].timestamp
  BY DEF Past, SetAt
<1> DEFINE v == d.sender
<1>1. DatedBy(v, d.timestamp)' /\ d.timestamp < Len(log) + 1
  BY DatedStays DEF Past
<1>2. ASSUME NEW i \in DOMAIN outbox'[v], outbox'[v][i].kind = "set"
      PROVE  d.timestamp < outbox'[v][i].timestamp
  <2>1. CASE \E j \in DOMAIN outbox[v] : SetAt(v, j) /\ outbox'[v][i] = outbox[v][j]
    BY <2>1 DEF Past
  <2>2. CASE outbox'[v][i].timestamp = Len(log) + 1
    BY <1>1, <2>2
  <2> QED
    BY <1>2, <2>1, <2>2, SetsAfter
<1> QED
  BY <1>1, <1>2

\* A document sent by another user is the server's.
LEMMA ViewSender ==
  ASSUME NEW u \in Users, NEW k \in Convs
  PROVE  /\ View(u, k).sender \notin {u, NoOne} =>
              /\ LastPending(u, k, {"set"}) = {}
              /\ View(u, k).sender = doc[k].sender /\ View(u, k).timestamp = doc[k].timestamp
         /\ View(u, k).sender = u =>
              LastPending(u, k, {"set"}) # {} \/ doc[k].sender = u
<1> DEFINE set == LastPending(u, k, {"set"})
<1> HIDE DEF set
<1>1. u # NoOne
  BY ChatAssumption
<1>2. View(u, k).sender = IF set = {} THEN doc[k].sender ELSE u
  BY DEF View, NoDoc, set
<1>3. set = {} /\ doc[k].sender # NoOne => View(u, k).timestamp = doc[k].timestamp
  BY DEF View, set
<1> QED
  BY <1>1, <1>2, <1>3 DEF set

\* What the receiver query finds.
LEMMA RecFound ==
  ASSUME TypeInv, DatesInv, NEW u \in Users, NEW k \in Convs
  PROVE  Past(RecResult(u)[k]) /\ RecResult(u)[k].sender # u
<1>1. u # NoOne /\ NoOne \notin Users
  BY ChatAssumption
<1>2. CASE u \in k /\ View(u, k).sender \notin {u, NoOne}
  <2>1. RecResult(u)[k] = View(u, k)
    BY <1>2 DEF RecResult
  <2>2. View(u, k).sender = doc[k].sender /\ View(u, k).timestamp = doc[k].timestamp
    BY <1>2, ViewSender
  <2>3. Past(doc[k])
    BY DEF DatesInv
  <2> HIDE DEF View
  <2> QED
    BY <1>2, <2>1, <2>2, <2>3 DEF Past
<1>3. CASE ~(u \in k /\ View(u, k).sender \notin {u, NoOne})
  <2>1. RecResult(u)[k] = NoDoc
    BY <1>3 DEF RecResult
  <2> QED
    BY <1>1, <2>1 DEF NoDoc, Past
<1> QED
  BY <1>2, <1>3

\* What a receiver snapshot, and a sender snapshot, leave in the inbox of u.
LEMMA RecSnapshotRows ==
  ASSUME TypeInv, NEW u \in Users, RecSnapshot(u), NEW k \in Convs
  PROVE  /\ inbox'[u].recSeen = RecResult(u) /\ inbox'[u].sendDue
         /\ k \in Found(RecResult(u)) /\ Nameable(u, k) =>
              inbox'[u].recSide[k] = RecRow(u, RecResult(u)[k])
<1>1. inbox[u] \in InboxState /\ inbox \in [Users -> InboxState]
  BY DEF TypeInv, TypeOK
<1>2. PICK last : inbox'[u] = RecCallback(u, inbox[u], RecResult(u), last)
  BY <1>1 DEF RecSnapshot
<1> DEFINE acc == [j \in Convs |-> IF j \in Found(RecResult(u)) /\ Nameable(u, j)
                                   THEN RecRow(u, RecResult(u)[j]) ELSE inbox[u].acc[j]]
<1>3. inbox'[u].recSide = acc /\ inbox'[u].recSeen = RecResult(u) /\ inbox'[u].sendDue
  BY <1>1, <1>2 DEF RecCallback, InboxState
<1> QED
  BY <1>3

LEMMA SendSnapshotRows ==
  ASSUME TypeInv, NEW u \in Users, SendSnapshot(u), NEW k \in Convs
  PROVE  /\ inbox'[u].recSeen = inbox[u].recSeen /\ inbox'[u].sendSeen = SendResult(u)
         /\ k \in Found(SendResult(u)) /\ Nameable(u, k) =>
              inbox'[u].sendSide[k] = SendRow(SendResult(u)[k])
         /\ k \notin Found(SendResult(u)) => inbox'[u].recSide[k] = inbox[u].recSide[k]
<1>1. inbox[u] \in InboxState /\ inbox \in [Users -> InboxState]
  BY DEF TypeInv, TypeOK
<1> DEFINE rows == [j \in Convs |-> IF j \in Found(SendResult(u)) /\ Nameable(u, j)
                                    THEN SendRow(SendResult(u)[j]) ELSE NoRow]
           side == [j \in Convs |-> IF rows[j].listed THEN NoRow ELSE inbox[u].recSide[j]]
<1>2. inbox'[u] = SendCallback(u, inbox[u], SendResult(u))
  BY <1>1 DEF SendSnapshot
<1>3. /\ inbox'[u].recSide = side /\ inbox'[u].sendSide = rows
      /\ inbox'[u].sendSeen = SendResult(u) /\ inbox'[u].recSeen = inbox[u].recSeen
  BY <1>1, <1>2 DEF SendCallback, InboxState
<1>4. k \notin Found(SendResult(u)) => side[k] = inbox[u].recSide[k]
  BY DEF NoRow
<1> QED
  BY <1>3, <1>4

LEMMA DatesStep ==
  ASSUME TypeInv, DatesInv, [Next]_vars
  PROVE  DatesInv'
<1>0. NoOne \notin Users
  BY ChatAssumption
<1>1. ASSUME NEW v \in Users, NEW i \in DOMAIN outbox'[v], outbox'[v][i].kind = "set"
      PROVE  outbox'[v][i].by = v /\ DatedBy(v, outbox[v][i].timestamp)'
  <2>1. CASE \E j \in DOMAIN outbox[v] : SetAt(v, j) /\ outbox'[v][i] = outbox[v][j]
    <3>1. PICK j \in DOMAIN outbox[v] : SetAt(v, j) /\ outbox'[v][i] = outbox[v][j]
      BY <2>1
    <3>2. outbox[v][j].by = v /\ DatedBy(v, outbox[v][j].timestamp)
      BY <3>1 DEF DatesInv
    <3> QED
      BY <3>1, <3>2, LogGrows DEF DatedBy
  <2>2. CASE /\ outbox'[v][i].by = v /\ outbox'[v][i].timestamp = Len(log) + 1
             /\ \A t : t = Len(log) + 1 => DatedBy(v, t)'
    BY <2>2 DEF DatedBy
  <2> QED
    BY <1>1, <2>1, <2>2, SetsAfter
<1>2. ASSUME NEW v \in Users, NEW i \in DOMAIN outbox'[v], NEW j \in DOMAIN outbox'[v], i < j,
             outbox'[v][i].kind = "set", outbox'[v][j].kind = "set"
      PROVE  outbox'[v][i].timestamp < outbox'[v][j].timestamp
  <2>0. DOMAIN outbox[v] = 1..Len(outbox[v]) /\ Len(outbox[v]) \in Nat
    BY OutboxTyped
  <2>1. CASE outbox'[v] = outbox[v] /\ DOMAIN outbox'[v] = DOMAIN outbox[v]
    BY <1>2, <2>1 DEF DatesInv, SetAt
  <2>2. CASE /\ \A n : n \in DOMAIN outbox'[v] <=> n \in Nat \ {0} /\ n + 1 \in DOMAIN outbox[v]
             /\ \A n \in DOMAIN outbox'[v] : outbox'[v][n] = outbox[v][n + 1]
    <3>1. i + 1 \in DOMAIN outbox[v] /\ j + 1 \in DOMAIN outbox[v] /\ i \in Nat /\ j \in Nat
      BY <2>2
    <3>2. i + 1 < j + 1
      BY <1>2, <3>1
    <3>3. SetAt(v, i + 1) /\ SetAt(v, j + 1)
      BY <1>2, <2>2 DEF SetAt
    <3>4. outbox[v][i + 1].timestamp < outbox[v][j + 1].timestamp
      BY <3>1, <3>2, <3>3 DEF DatesInv
    <3> QED
      BY <2>2, <3>4
  <2>3. ASSUME NEW w \in Write,
               DOMAIN outbox'[v] = DOMAIN outbox[v] \cup {Len(outbox[v]) + 1},
               outbox'[v][Len(outbox[v]) + 1] = w,
               \A n \in DOMAIN outbox[v] : outbox'[v][n] = outbox[v][n],
               w.kind = "set" => SendsNow(v, w)
        PROVE  outbox'[v][i].timestamp < outbox'[v][j].timestamp
    <3>1. i \in DOMAIN outbox[v]
      BY <1>2, <2>0, <2>3
    <3>2. CASE j \in DOMAIN outbox[v]
      BY <1>2, <2>3, <3>1, <3>2 DEF DatesInv, SetAt
    <3>3. CASE j = Len(outbox[v]) + 1
      <4>1. w.kind = "set" /\ w.timestamp = Len(log) + 1
        BY <1>2, <2>3, <3>3 DEF SendsNow
      <4>2. outbox[v][i].timestamp \in 1..Len(log) /\ Len(log) \in Nat
        BY <1>2, <2>3, <3>1, LogGrows DEF DatesInv, SetAt, DatedBy
      <4> QED
        BY <2>3, <3>1, <3>3, <4>1, <4>2
    <3> QED
      BY <2>3, <3>2, <3>3
  <2> QED
    BY <2>1, <2>2, <2>3, PendingAfter
<1>3. ASSUME NEW k \in Convs
      PROVE  Past(doc[k])'
  <2>1. CASE doc'[k].sender = doc[k].sender /\ doc'[k].timestamp = doc[k].timestamp
    <3>1. Past(doc[k])
      BY DEF DatesInv
    <3> DEFINE d == doc[k]
               e == doc'[k]
    <3>2. \A x : x = d => Past(x)'
      BY <3>1, PastStays
    <3>3. \A x : x = e => Past(x)'
      BY <2>1, <3>2 DEF Past
    <3> QED
      BY <3>3 DEF Past
  <2>2. ASSUME NEW v \in Users, Commit(v), 1 \in DOMAIN outbox[v], SetAt(v, 1),
               doc'[k].sender = v, doc'[k].timestamp = outbox[v][1].timestamp
        PROVE  Past(doc[k])'
    <3> DEFINE t == outbox[v][1].timestamp
    <3>1. DatedBy(v, t) /\ t < Len(log) + 1
      BY <2>2, LogGrows DEF DatesInv, DatedBy
    <3>2. \A x : x = t => DatedBy(v, x)'
      BY <3>1, DatedStays
    <3>3. ASSUME NEW i \in DOMAIN outbox'[v], outbox'[v][i].kind = "set"
          PROVE  t < outbox'[v][i].timestamp
      <4>0. DOMAIN outbox[v] = 1..Len(outbox[v]) /\ Len(outbox[v]) \in Nat
        BY OutboxTyped
      <4>1. outbox'[v] = Tail(outbox[v]) /\ outbox[v] # <<>> /\ outbox[v] \in Seq(Write)
        BY <2>2, OutboxTyped DEF Commit, TypeInv, TypeOK
      <4>2. i \in Nat \ {0} /\ i + 1 \in DOMAIN outbox[v] /\ outbox'[v][i] = outbox[v][i + 1]
        <5> DEFINE q == outbox[v]
                   r == outbox'[v]
        <5>1. i \in DOMAIN r /\ r = Tail(q) /\ q # <<>> /\ q \in Seq(Write)
          BY <4>1
        <5> HIDE DEF q, r
        <5>2. /\ Len(r) = Len(q) - 1 /\ r \in Seq(Write) /\ Len(q) \in Nat /\ DOMAIN q = 1..Len(q)
              /\ \A n \in 1..Len(r) : r[n] = q[n + 1]
          BY <5>1, HeadTailProperties
        <5>3. DOMAIN r = 1..Len(r)
          BY <5>2
        <5>4. i \in Nat \ {0} /\ i + 1 \in DOMAIN q /\ r[i] = q[i + 1]
          BY <5>1, <5>2, <5>3
        <5> QED
          BY <5>4 DEF q, r
      <4>3. 1 < i + 1 /\ SetAt(v, i + 1)
        BY <3>3, <4>2 DEF SetAt
      <4> QED
        BY <2>2, <4>2, <4>3 DEF DatesInv
    <3> HIDE DEF t
    <3> QED
      BY <2>2, <3>2, <3>3 DEF Past, t, SetAt
  <2> QED
    BY <2>1, <2>2, DocChange
<1>4. ASSUME NEW u \in Users, NEW k \in Convs
      PROVE  Past(inbox[u].recSeen[k])' /\ inbox'[u].recSeen[k].sender # u
  <2> DEFINE d == inbox[u].recSeen[k]
             e == inbox'[u].recSeen[k]
             r == RecResult(u)[k]
  <2>1. Past(d) /\ d.sender # u
    BY DEF DatesInv
  <2>2. (\A x : x = d => Past(x)') /\ (\A x : x = r => Past(x)') /\ r.sender # u
    BY <2>1, RecFound, PastStays
  <2>3. e = d \/ e = r \/ e = NoDoc
    <3>1. CASE RowsKept(u)
      BY <3>1 DEF RowsKept
    <3>2. CASE inbox'[u] = InitInbox
      BY <3>2 DEF InitInbox
    <3>3. CASE RecSnapshot(u)
      BY <3>3, RecSnapshotRows
    <3>4. CASE SendSnapshot(u)
      BY <3>4, SendSnapshotRows
    <3> QED
      BY <3>1, <3>2, <3>3, <3>4, InboxChange
  <2>4. \A x : x = NoDoc => Past(x)' /\ x.sender # u
    BY <1>0 DEF NoDoc, Past
  <2> HIDE DEF d, r
  <2>5. (\A x : x = e => Past(x)') /\ e.sender # u
    BY <2>1, <2>2, <2>3, <2>4
  <2> QED
    BY <2>5 DEF Past
<1> QED
  BY <1>1, <1>2, <1>3, <1>4 DEF DatesInv, SetAt

\* What the server has overwritten, or will, does not come back: a message is
\* applied once.
LEMMA SupersededStays ==
  ASSUME TypeInv, DatesInv, [Next]_vars, NEW u \in Users, NEW k \in Convs,
         inbox'[u].recSeen[k] = inbox[u].recSeen[k], inbox[u].recSeen[k].sender # NoOne,
         Superseded(u, k)
  PROVE  Superseded(u, k)'
<1> DEFINE d == inbox[u].recSeen[k]
           S == LastPending(u, k, {"set"})
<1>1. d.sender \in Users /\ d.sender # u /\ Past(d)
  <2>1. d \in Doc
    BY DEF TypeInv, TypeOK, InboxState
  <2> QED
    BY <2>1 DEF Doc, DatesInv
<1>2. ASSUME NEW v \in Users, 1 \in DOMAIN outbox[v], SetAt(v, 1)
      PROVE  outbox[v][1].timestamp # d.timestamp
  <2> SUFFICES ASSUME outbox[v][1].timestamp = d.timestamp PROVE FALSE
    OBVIOUS
  <2>1. log[d.timestamp].from = v /\ log[d.timestamp].from = d.sender
    BY <1>1, <1>2 DEF DatesInv, DatedBy, Past
  <2>2. v = d.sender
    BY <2>1
  <2>3. d.timestamp < outbox[v][1].timestamp
    <3> HIDE DEF d
    <3>1. \A i \in DOMAIN outbox[d.sender] :
            SetAt(d.sender, i) => d.timestamp < outbox[d.sender][i].timestamp
      BY <1>1 DEF Past
    <3> QED
      BY <1>2, <2>2, <3>1
  <2>4. Len(log) \in Nat /\ d.timestamp \in 1..Len(log)
    <3> HIDE DEF d
    <3> QED
      BY <1>1, LogGrows DEF Past, DatedBy
  <2>5. \A x \in 1..Len(log) : ~(x < x)
    BY <2>4
  <2> QED
    BY <2>3, <2>4, <2>5
<1>3. Superseded(u, k)' <=> (S' # {} \/ doc'[k].timestamp # d.timestamp)
  BY DEF Superseded
<1>4. CASE doc[k].timestamp # d.timestamp
  <2>1. CASE doc'[k].timestamp = doc[k].timestamp
    BY <1>3, <1>4, <2>1
  <2>2. ASSUME NEW v \in Users, 1 \in DOMAIN outbox[v], SetAt(v, 1),
               doc'[k].timestamp = outbox[v][1].timestamp
        PROVE  Superseded(u, k)'
    BY <1>2, <1>3, <2>2
  <2> QED
    BY <2>1, <2>2, DocChange
<1>5. CASE S # {}
  <2>0. DOMAIN outbox[u] = 1..Len(outbox[u]) /\ Len(outbox[u]) \in Nat
    BY OutboxTyped
  <2>1. PICK n \in DOMAIN outbox[u] :
          /\ outbox[u][n].conv = k /\ outbox[u][n].kind = "set"
          /\ \A j \in DOMAIN outbox[u] :
               outbox[u][j].conv = k /\ outbox[u][j].kind = "set" => j <= n
    BY <1>5, <2>0 DEF LastPending
  <2>d. ASSUME NEW m \in DOMAIN outbox'[u], outbox'[u] \in Seq(Write),
               outbox'[u][m].conv = k, outbox'[u][m].kind = "set",
               \A j \in DOMAIN outbox'[u] :
                 outbox'[u][j].conv = k /\ outbox'[u][j].kind = "set" => j <= m
        PROVE  S' # {}
    <3>1. DOMAIN outbox'[u] = 1..Len(outbox'[u])
      BY <2>d, LenProperties
    <3>2. m \in S'
      BY <2>d, <3>1 DEF LastPending
    <3> QED
      BY <3>2
  <2>t. outbox'[u] \in Seq(Write)
    BY NextTyped DEF TypeInv, TypeOK
  <2>2. CASE outbox'[u] = outbox[u]
    BY <1>3, <2>1, <2>2, <2>d, <2>t
  <2>3. CASE /\ Commit(u) /\ 1 \in DOMAIN outbox[u] /\ Head(outbox[u]) = outbox[u][1]
             /\ \A i : i \in DOMAIN outbox'[u] <=> i \in Nat \ {0} /\ i + 1 \in DOMAIN outbox[u]
             /\ \A i \in DOMAIN outbox'[u] : outbox'[u][i] = outbox[u][i + 1]
    <3>1. CASE n = 1
      <4>1. doc'[k].timestamp = outbox[u][1].timestamp
        <5>1. doc' = [doc EXCEPT ![outbox[u][1].conv] = Apply(@, outbox[u][1])]
          BY <2>3 DEF Commit
        <5>2. doc'[k] = Apply(doc[k], outbox[u][1])
          BY <2>1, <3>1, <5>1 DEF TypeInv, TypeOK
        <5> QED
          BY <2>1, <3>1, <5>2 DEF Apply
      <4> QED
        BY <1>2, <1>3, <2>1, <2>3, <3>1, <4>1 DEF SetAt
    <3>2. CASE n # 1
      <4> DEFINE m == n - 1
      <4>1. m \in Nat \ {0} /\ m + 1 = n /\ n \in Nat
        BY <2>0, <2>1, <3>2
      <4> HIDE DEF m
      <4>2. m \in DOMAIN outbox'[u] /\ outbox'[u][m] = outbox[u][n]
        BY <2>1, <2>3, <4>1
      <4>3. ASSUME NEW j \in DOMAIN outbox'[u], outbox'[u][j].conv = k, outbox'[u][j].kind = "set"
            PROVE  j <= m
        <5>1. j \in Nat /\ j + 1 \in DOMAIN outbox[u] /\ outbox'[u][j] = outbox[u][j + 1]
          BY <2>3, <4>3
        <5>2. j + 1 <= n
          BY <2>1, <4>3, <5>1
        <5> QED
          BY <4>1, <5>1, <5>2
      <4> QED
        BY <1>3, <2>1, <2>d, <2>t, <4>2, <4>3
    <3> QED
      BY <3>1, <3>2
  <2>4. ASSUME NEW w \in Write,
               DOMAIN outbox'[u] = DOMAIN outbox[u] \cup {Len(outbox[u]) + 1},
               outbox'[u][Len(outbox[u]) + 1] = w,
               \A i \in DOMAIN outbox[u] : outbox'[u][i] = outbox[u][i]
        PROVE  Superseded(u, k)'
    <3> DEFINE z == Len(outbox[u]) + 1
    <3>1. z \in DOMAIN outbox'[u] /\ \A j \in DOMAIN outbox'[u] : j <= z
      BY <2>0, <2>4
    <3>2. CASE w.conv = k /\ w.kind = "set"
      BY <1>3, <2>4, <2>d, <2>t, <3>1, <3>2
    <3>3. CASE ~(w.conv = k /\ w.kind = "set")
      <4>1. n \in DOMAIN outbox'[u] /\ outbox'[u][n] = outbox[u][n]
        BY <2>1, <2>4
      <4>2. ASSUME NEW j \in DOMAIN outbox'[u], outbox'[u][j].conv = k, outbox'[u][j].kind = "set"
            PROVE  j <= n
        <5>1. j \in DOMAIN outbox[u]
          BY <2>4, <3>3, <4>2
        <5> QED
          BY <2>1, <2>4, <4>2, <5>1
      <4> QED
        BY <1>3, <2>1, <2>d, <2>t, <4>1, <4>2
    <3> QED
      BY <3>2, <3>3
  <2> QED
    BY <2>2, <2>3, <2>4, PendingAfter
<1> QED
  BY <1>4, <1>5 DEF Superseded

\* The sender listener takes a row over only from a document that is superseded.
LEMMA TakenOver ==
  ASSUME TypeInv, DatesInv, NEW u \in Users, NEW k \in Convs,
         k \in Found(SendResult(u)), inbox[u].recSeen[k].sender # NoOne
  PROVE  Superseded(u, k)
<1> DEFINE d == inbox[u].recSeen[k]
<1>1. View(u, k).sender = u
  BY DEF Found, SendResult, NoDoc
<1>2. CASE LastPending(u, k, {"set"}) # {}
  BY <1>2 DEF Superseded
<1>3. CASE doc[k].sender = u
  <2>1. d.sender \in Users /\ d.sender # u /\ Past(d)
    <3>1. d \in Doc
      BY DEF TypeInv, TypeOK, InboxState
    <3> QED
      BY <3>1 DEF Doc, DatesInv
  <2>2. Past(doc[k])
    BY DEF DatesInv
  <2>3. doc[k].timestamp # d.timestamp
    BY <1>3, <2>1, <2>2 DEF Past, DatedBy
  <2> QED
    BY <2>3 DEF Superseded
<1> QED
  BY <1>1, <1>2, <1>3, ViewSender

\* A name that is given stays.
LEMMA NamesStay ==
  ASSUME TypeInv, [Next]_vars, NEW u \in Users, name[u] = "given"
  PROVE  name'[u] = "given"
<1>1. name \in [Users -> {"given", "coming", "none"}]
  BY DEF TypeInv, TypeOK
<1>2. UNCHANGED name \/ \E v \in Users : NameCommitted(v) \/ Relaunch(v)
  BY DEF Next, UserStep, SystemStep, vars, names, InboxCrashes, ShowInbox, ShowHome,
         OpenFromHome, OpenFromInbox, Back, SendText, PickPhoto, Delete, DeleteCrashes, Tap,
         Commit, RecSnapshot, SendSnapshot, PhotoUploaded, UploadFailed, ThreadSnapshot,
         ThreadSnapshotCrashes, PhotoLoaded, PhotoNotLoaded
<1> QED
  BY <1>1, <1>2 DEF NameCommitted, Relaunch

LEMMA RowsStep ==
  ASSUME TypeInv, DatesInv, RowsInv, [Next]_vars
  PROVE  RowsInv'
<1> SUFFICES ASSUME NEW u \in Users, NEW k \in Convs, u \in k, Nameable(u, k)
             PROVE  /\ inbox'[u].recSeen[k].sender # NoOne =>
                         \/ inbox'[u].recSide[k] = RecRow(u, inbox'[u].recSeen[k])
                         \/ Superseded(u, k)'
                    /\ inbox'[u].sendOn /\ ~inbox'[u].sendDue
                         /\ inbox'[u].sendSeen[k].sender # NoOne =>
                         inbox'[u].sendSide[k] = SendRow(inbox'[u].sendSeen[k])
  BY NamesStay DEF RowsInv, Nameable, RecRow, SendRow, Flagged
<1> DEFINE ib == inbox[u]
           jb == inbox'[u]
<1>1. /\ ib.recSeen[k].sender # NoOne =>
           ib.recSide[k] = RecRow(u, ib.recSeen[k]) \/ Superseded(u, k)
      /\ ib.sendOn /\ ~ib.sendDue /\ ib.sendSeen[k].sender # NoOne =>
           ib.sendSide[k] = SendRow(ib.sendSeen[k])
  BY DEF RowsInv
<1>2. ib.recSeen[k].sender # NoOne /\ jb.recSeen[k] = ib.recSeen[k] /\ Superseded(u, k)
        => Superseded(u, k)'
  BY SupersededStays
<1>3. CASE RowsKept(u)
  BY <1>1, <1>2, <1>3 DEF RowsKept
<1>4. CASE inbox'[u] = InitInbox
  BY <1>4 DEF InitInbox, NoDoc
<1>5. CASE RecSnapshot(u)
  <2>1. /\ jb.recSeen = RecResult(u) /\ jb.sendDue
        /\ k \in Found(RecResult(u)) => jb.recSide[k] = RecRow(u, RecResult(u)[k])
    BY <1>5, RecSnapshotRows
  <2>2. RecResult(u)[k].sender # NoOne => k \in Found(RecResult(u))
    BY DEF Found
  <2> QED
    BY <2>1, <2>2
<1>6. CASE SendSnapshot(u)
  <2>1. /\ jb.recSeen = ib.recSeen /\ jb.sendSeen = SendResult(u)
        /\ k \in Found(SendResult(u)) => jb.sendSide[k] = SendRow(SendResult(u)[k])
        /\ k \notin Found(SendResult(u)) => jb.recSide[k] = ib.recSide[k]
    BY <1>6, SendSnapshotRows
  <2>2. SendResult(u)[k].sender # NoOne => k \in Found(SendResult(u))
    BY DEF Found
  <2>3. CASE k \in Found(SendResult(u))
    BY <1>2, <2>1, <2>3, TakenOver
  <2>4. CASE k \notin Found(SendResult(u))
    BY <1>1, <1>2, <2>1, <2>2, <2>4
  <2> QED
    BY <2>3, <2>4
<1> QED
  BY <1>3, <1>4, <1>5, <1>6, InboxChange

LEMMA ConvergeInitially == Init => DatesInv /\ RowsInv
<1> SUFFICES ASSUME Init PROVE DatesInv /\ RowsInv
  OBVIOUS
<1>1. NoOne \notin Users
  BY ChatAssumption
<1>2. \A u \in Users : outbox[u] = <<>> /\ inbox[u] = InitInbox
  BY DEF Init
<1>3. \A k \in Convs : doc[k] = NoDoc
  BY DEF Init
<1>4. DatesInv
  BY <1>1, <1>2, <1>3 DEF DatesInv, Past, NoDoc, InitInbox
<1>5. RowsInv
  BY <1>2 DEF RowsInv, InitInbox, NoDoc
<1> QED
  BY <1>4, <1>5

\* Once both listeners have delivered everything there is, every conversation
\* has the row its document calls for, whatever went back and forth before.
THEOREM InboxConvergesHolds == Spec => []InboxConverges
<1>1. ASSUME TypeInv, DatesInv, RowsInv, ListedOnce
      PROVE  InboxConverges
  <2> SUFFICES ASSUME NEW u \in Users, UpToDate(u), NEW k \in Convs,
                      u \in k, Nameable(u, k), View(u, k).sender # NoOne
               PROVE  RowOf(u, k) = IF View(u, k).sender = u THEN SendRow(View(u, k))
                                                             ELSE RecRow(u, View(u, k))
    BY DEF InboxConverges
  <2> DEFINE ib == inbox[u]
  <2>1. CASE View(u, k).sender = u
    <3>1. ib.sendSeen[k] = View(u, k) /\ ib.sendOn /\ ~ib.sendDue
      BY <2>1 DEF UpToDate, SendResult
    <3>2. ib.sendSide[k] = SendRow(View(u, k))
      BY <1>1, <3>1 DEF RowsInv
    <3>3. ~ib.recSide[k].listed
      BY <1>1, <3>2 DEF ListedOnce, SendRow
    <3> QED
      BY <2>1, <3>2, <3>3 DEF RowOf
  <2>2. CASE View(u, k).sender # u
    <3>1. ib.recSeen[k] = View(u, k)
      BY <2>2 DEF UpToDate, RecResult
    <3>2. LastPending(u, k, {"set"}) = {} /\ View(u, k).timestamp = doc[k].timestamp
      BY <2>2, ViewSender
    <3>3. ~Superseded(u, k)
      BY <3>1, <3>2 DEF Superseded
    <3>4. ib.recSide[k] = RecRow(u, View(u, k))
      BY <1>1, <3>1, <3>3 DEF RowsInv
    <3> QED
      BY <2>2, <3>4 DEF RowOf, RecRow
  <2> QED
    BY <2>1, <2>2
<1>2. Spec => [](DatesInv /\ RowsInv)
  <2>1. TypeInv /\ DatesInv /\ RowsInv /\ [Next]_vars => DatesInv' /\ RowsInv'
    BY DatesStep, RowsStep
  <2> QED
    BY <2>1, ConvergeInitially, TypeInvariant, PTL DEF Spec
<1> QED
  BY <1>1, <1>2, TypeInvariant, ListedOnceHolds, PTL
-----------------------------------------------------------------------------
(* Crashes.  The documents of the inbox, and the writes under way to them,  *)
(* stand for messages of their conversation, so a document without a name   *)
(* gives away the message that has none.                                    *)

Filed(t, k) == t \in 1..Len(log) /\ log[t].conv = k

FiledInv ==
  /\ \A v \in Users : \A i \in DOMAIN outbox[v] :
       SetAt(v, i) => Filed(outbox[v][i].timestamp, outbox[v][i].conv)
  /\ \A k \in Convs : doc[k].sender # NoOne => Filed(doc[k].timestamp, k)
  /\ \A u \in Users : inbox[u].sendOn => inbox[u].loaded

CrashInv == ScreensInv /\ MembersInv /\ DatesInv /\ FiledInv /\ CrashHasCause

LEMMA FiledStep ==
  ASSUME TypeInv, DatesInv, FiledInv, [Next]_vars
  PROVE  FiledInv'
<1>2. ASSUME NEW v \in Users, NEW i \in DOMAIN outbox'[v], outbox'[v][i].kind = "set"
      PROVE  Filed(outbox[v][i].timestamp, outbox[v][i].conv)'
  <2>1. CASE \E j \in DOMAIN outbox[v] : SetAt(v, j) /\ outbox'[v][i] = outbox[v][j]
    <3>1. PICK j \in DOMAIN outbox[v] : SetAt(v, j) /\ outbox'[v][i] = outbox[v][j]
      BY <2>1
    <3>2. Filed(outbox[v][j].timestamp, outbox[v][j].conv)
      BY <3>1 DEF FiledInv
    <3> QED
      BY <3>1, <3>2, LogGrows DEF Filed
  <2>2. CASE /\ outbox'[v][i].timestamp = Len(log) + 1
             /\ log'[Len(log) + 1].conv = outbox'[v][i].conv
             /\ \A t : t = Len(log) + 1 => DatedBy(v, t)'
    BY <2>2 DEF Filed, DatedBy
  <2> QED
    BY <1>2, <2>1, <2>2, SetsAfter
<1>3. ASSUME NEW k \in Convs, doc'[k].sender # NoOne
      PROVE  Filed(doc[k].timestamp, k)'
  <2>1. CASE doc'[k].sender = doc[k].sender /\ doc'[k].timestamp = doc[k].timestamp
    <3>1. Filed(doc[k].timestamp, k)
      BY <1>3, <2>1 DEF FiledInv
    <3> QED
      BY <2>1, <3>1, LogGrows DEF Filed
  <2>2. ASSUME NEW v \in Users, 1 \in DOMAIN outbox[v], SetAt(v, 1), outbox[v][1].conv = k,
               doc'[k].timestamp = outbox[v][1].timestamp
        PROVE  Filed(doc[k].timestamp, k)'
    <3>1. Filed(outbox[v][1].timestamp, k)
      BY <2>2 DEF FiledInv
    <3> QED
      BY <2>2, <3>1, LogGrows DEF Filed
  <2> QED
    BY <2>1, <2>2, DocChange
<1>4. ASSUME NEW u \in Users, inbox'[u].sendOn
      PROVE  inbox'[u].loaded
  <2>1. inbox[u] \in InboxState /\ inbox \in [Users -> InboxState]
    BY DEF TypeInv, TypeOK
  <2>2. CASE RowsKept(u)
    BY <1>4, <2>1, <2>2 DEF RowsKept, FiledInv, InboxState
  <2>3. CASE inbox'[u] = InitInbox
    BY <1>4, <2>3 DEF InitInbox
  <2>4. CASE RecSnapshot(u)
    <3>1. PICK last : inbox'[u] = RecCallback(u, inbox[u], RecResult(u), last)
      BY <2>1, <2>4 DEF RecSnapshot
    <3> QED
      BY <2>1, <2>4, <3>1 DEF RecCallback, RecSnapshot, RecCalled, InboxState
  <2>5. CASE SendSnapshot(u)
    <3>1. inbox'[u] = SendCallback(u, inbox[u], SendResult(u)) /\ inbox[u].sendOn
      BY <2>1, <2>5 DEF SendSnapshot, SendCalled
    <3> QED
      BY <2>1, <3>1 DEF SendCallback, FiledInv, InboxState
  <2> QED
    BY <2>2, <2>3, <2>4, <2>5, InboxChange
<1> QED
  BY <1>2, <1>3, <1>4 DEF FiledInv, SetAt

\* What a user sees of a conversation stands for a message of it.
LEMMA ViewFiled ==
  ASSUME TypeInv, FiledInv, NEW u \in Users, NEW k \in Convs, View(u, k).sender # NoOne
  PROVE  Filed(View(u, k).timestamp, k)
<1> DEFINE set == LastPending(u, k, {"set"})
<1>1. ASSUME NEW i \in set
      PROVE  Filed(outbox[u][i].timestamp, k)
  <2>1. i \in DOMAIN outbox[u] /\ outbox[u][i].conv = k /\ SetAt(u, i)
    BY <1>1, OutboxTyped DEF LastPending, SetAt
  <2> QED
    BY <2>1 DEF FiledInv
<1>2. set # {} => (CHOOSE i \in set : TRUE) \in set
  OBVIOUS
<1> HIDE DEF set
<1>3. ~(doc[k].sender = NoOne /\ set = {})
  BY DEF View, NoDoc, set
<1>4. View(u, k).timestamp = IF set = {} THEN doc[k].timestamp
                             ELSE outbox[u][CHOOSE i \in set : TRUE].timestamp
  BY <1>3 DEF View, set
<1> QED
  BY <1>1, <1>2, <1>3, <1>4 DEF FiledInv

\* Who crashes in a step, and where.
LEMMA WhoCrashes ==
  ASSUME TypeInv, [Next]_vars, NEW u \in Users, screen'[u] = "crashed", screen[u] # "crashed"
  PROVE  \/ \E c \in Chats : /\ chat[c].owner = u
                             /\ DeleteCrashes(c) \/ ThreadSnapshotCrashes(c)
         \/ InboxCrashes(u)
<1>1. screen \in [Users -> {"home", "inbox", "crashed"} \cup Chats]
  BY DEF TypeInv, TypeOK
<1>2. ASSUME NEW c \in Chats, DeleteCrashes(c) \/ ThreadSnapshotCrashes(c)
      PROVE  chat[c].owner = u
  BY <1>1, <1>2 DEF DeleteCrashes, ThreadSnapshotCrashes
<1>3. ASSUME NEW v \in Users, ShowInbox(v) \/ ShowHome(v) \/ Relaunch(v)
      PROVE  FALSE
  BY <1>1, <1>3 DEF ShowInbox, ShowHome, Relaunch
<1>4. ASSUME NEW v \in Users, NEW k \in Convs, NEW c \in Chats,
             OpenFromHome(v, k, c) \/ OpenFromInbox(v, k, c)
      PROVE  FALSE
  BY <1>1, <1>4, ChatAssumption DEF OpenFromHome, OpenFromInbox
<1>5. ASSUME NEW c \in Chats, Back(c)
      PROVE  FALSE
  BY <1>1, <1>5 DEF Back
<1>6. ASSUME NEW v \in Users, InboxCrashes(v)
      PROVE  v = u
  BY <1>1, <1>6 DEF InboxCrashes
<1>7. ~UNCHANGED screen
  OBVIOUS
<1> QED
  BY <1>2, <1>3, <1>4, <1>5, <1>6, <1>7
  DEF Next, UserStep, SystemStep, vars, NameCommitted, SendText, PickPhoto, Delete, Tap,
      Commit, RecSnapshot, SendSnapshot, PhotoUploaded, UploadFailed, ThreadSnapshot,
      PhotoLoaded, PhotoNotLoaded

\* A screen that makes the app trap: opened from home, and around a deletion.
DeletionAt(c, u) ==
  /\ chat[c].owner = u /\ chat[c].isNewChat
  /\ \/ \E m \in 1..Len(log) : log[m].conv = chat[c].conv /\ m \notin thread
     \/ chat[c].selIds \cap chat[c].fresh # {}

\* A message of a conversation of u that shows no name in the inbox.
NamelessFor(u) == inbox[u].loaded /\ \E m \in unsigned : u \in log[m].conv

LEMMA UnsignedStays ==
  ASSUME TypeInv, [Next]_vars
  PROVE  unsigned \subseteq unsigned'
BY DEF Next, UserStep, SystemStep, vars, names, NameCommitted, InboxCrashes, ShowInbox,
       ShowHome, Relaunch, OpenFromHome, OpenFromInbox, Back, SendText, PickPhoto, Save,
       Delete, DeleteCrashes, Tap, Commit, RecSnapshot, SendSnapshot, PhotoUploaded,
       UploadFailed, ThreadSnapshot, ThreadSnapshotCrashes, PhotoLoaded, PhotoNotLoaded

\* What has brought an app down stays as it was.
LEMMA CauseStays ==
  ASSUME TypeInv, [Next]_vars, NEW u \in Users,
         screen[u] = "crashed", screen'[u] = "crashed"
  PROVE  /\ \A c \in Chats : DeletionAt(c, u) => DeletionAt(c, u)'
         /\ NamelessFor(u) => NamelessFor(u)'
<1>1. Len(log) \in Nat /\ Len(log') \in Nat /\ Len(log) <= Len(log')
      /\ \A m \in 1..Len(log) : m \in 1..Len(log') /\ log'[m] = log[m]
  BY LogGrows
<1>2. ~Running(u) /\ u # NoOne
  BY ChatAssumption DEF Running
<1>3. ASSUME NEW c \in Chats, DeletionAt(c, u)
      PROVE  DeletionAt(c, u)'
  <2>1. ~Renewed(c) /\ ~GoesOn(c) /\ ~ThreadSnapshot(c)
    BY <1>2, <1>3 DEF DeletionAt, Renewed, GoesOn, ThreadSnapshot
  <2>2. chat'[c] = chat[c]
    BY <2>1, ChatChange
  <2> QED
    BY <1>1, <1>3, <2>2, GoneForGood DEF DeletionAt
<1>4. ASSUME NamelessFor(u)
      PROVE  NamelessFor(u)'
  <2>1. inbox[u] \in InboxState /\ ~RecSnapshot(u) /\ ~SendSnapshot(u)
    BY <1>2 DEF RecSnapshot, RecCalled, SendSnapshot, SendCalled, TypeInv, TypeOK
  <2>2. RowsKept(u)
    BY <2>1, InboxChange
  <2>3. PICK m \in unsigned : u \in log[m].conv
    BY <1>4 DEF NamelessFor
  <2>4. m \in 1..Len(log)
    BY DEF TypeInv, TypeOK
  <2> QED
    BY <1>1, <1>4, <2>2, <2>3, <2>4, UnsignedStays DEF NamelessFor, RowsKept
<1> QED
  BY <1>3, <1>4

\* What makes a listener of the inbox trap.
LEMMA NulledCause ==
  ASSUME TypeInv, MembersInv, FiledInv, NEW u \in Users,
         Nulled(RecResult(u)) \/ Nulled(SendResult(u))
  PROVE  \E m \in unsigned : u \in log[m].conv
<1>1. ASSUME NEW result \in {RecResult(u), SendResult(u)}, NEW k \in Found(result),
             result[k].timestamp \in unsigned
      PROVE  \E m \in unsigned : u \in log[m].conv
  <2>1. k \in Convs /\ result[k].sender # NoOne
    BY <1>1 DEF Found
  <2>2. u \in k
    BY <1>1, <2>1, OwnResults
  <2>3. result[k] = View(u, k)
    BY <1>1, <2>1 DEF RecResult, SendResult, NoDoc
  <2>4. Filed(View(u, k).timestamp, k)
    BY <2>1, <2>3, ViewFiled
  <2> QED
    BY <1>1, <2>2, <2>3, <2>4 DEF Filed
<1> QED
  BY <1>1 DEF Nulled

LEMMA CrashStep ==
  ASSUME TypeInv, CrashInv, [Next]_vars
  PROVE  CrashHasCause'
<1>1. SUFFICES ASSUME NEW u \in Users, screen'[u] = "crashed"
               PROVE  (\E c \in Chats : DeletionAt(c, u)') \/ NamelessFor(u)'
  BY DEF CrashHasCause, DeletionAt, NamelessFor
<1>2. CASE screen[u] = "crashed"
  <2>1. (\E c \in Chats : DeletionAt(c, u)) \/ NamelessFor(u)
    BY <1>2 DEF CrashInv, CrashHasCause, DeletionAt, NamelessFor
  <2> QED
    BY <1>1, <1>2, <2>1, CauseStays
<1>3. ASSUME NEW c \in Chats, chat[c].owner = u, DeleteCrashes(c) \/ ThreadSnapshotCrashes(c)
      PROVE  DeletionAt(c, u)'
  <2>1. UNCHANGED <<chat, log>> /\ ~chat[c].linked /\ chat[c].owner # NoOne
    BY <1>3, ChatAssumption DEF DeleteCrashes, ThreadSnapshotCrashes
  <2>2. chat[c].isNewChat
    <3>1. chat[c] \in ChatState
      BY DEF TypeInv, TypeOK
    <3> QED
      BY <2>1, <3>1 DEF CrashInv, ScreensInv, ChatState
  <2>3. CASE DeleteCrashes(c)
    BY <1>3, <2>1, <2>2, <2>3 DEF DeleteCrashes, DeletionAt
  <2>4. CASE ThreadSnapshotCrashes(c)
    <3>1. PICK m \in chat[c].seen : m \notin InConv(chat[c].conv)
      BY <2>4 DEF ThreadSnapshotCrashes
    <3>2. m \in 1..Len(log) /\ log[m].conv = chat[c].conv
      BY <2>1, <3>1 DEF CrashInv, ScreensInv
    <3>3. m \notin thread /\ thread' = thread
      BY <2>4, <3>1, <3>2 DEF InConv, ThreadSnapshotCrashes
    <3> QED
      BY <1>3, <2>1, <2>2, <3>2, <3>3 DEF DeletionAt
  <2> QED
    BY <1>3, <2>3, <2>4
<1>4. CASE InboxCrashes(u)
  <2>1. inbox[u].loaded /\ (Nulled(RecResult(u)) \/ Nulled(SendResult(u)))
    BY <1>4 DEF InboxCrashes, RecCalled, SendCalled, CrashInv, FiledInv
  <2>2. UNCHANGED <<inbox, log, unsigned>>
    BY <1>4 DEF InboxCrashes, names
  <2> QED
    BY <2>1, <2>2, NulledCause DEF CrashInv, NamelessFor
<1> QED
  BY <1>1, <1>2, <1>3, <1>4, WhoCrashes

\* Only someone who wrote from the home feed sees the app trap around a deletion,
\* and only someone with a message from before its sender's name in one of his
\* conversations sees the inbox trap.
THEOREM CrashHolds == Spec => []CrashHasCause
<1>1. Init => CrashInv
  <2> SUFFICES ASSUME Init PROVE CrashInv
    OBVIOUS
  <2>1. FiledInv
    BY DEF Init, FiledInv, NoDoc, InitInbox
  <2>2. ScreensInv /\ CrashHasCause
    BY DEF Init, NoChat, ScreensInv, CrashHasCause
  <2> QED
    BY <2>1, <2>2, MembersInitially, ConvergeInitially DEF CrashInv
<1>2. TypeInv /\ CrashInv /\ [Next]_vars => CrashInv'
  BY ScreensStep, MembersStep, DatesStep, FiledStep, CrashStep DEF CrashInv
<1>3. CrashInv => CrashHasCause
  BY DEF CrashInv
<1> QED
  BY <1>1, <1>2, <1>3, TypeInvariant, PTL DEF Spec
-----------------------------------------------------------------------------
(* A reply leaves the other's unread mark alone.                            *)

\* There is only one conversation to be had.
OneCorrespondent == \A j, k \in Convs : j = k

\* The messages u has sent in k that the server has not applied.
PendingSets(u, k) == {i \in DOMAIN outbox[u] : SetAt(u, i) /\ outbox[u][i].conv = k}

\* What u sees of k is not, and will not be again, what the sender listener
\* delivered last.
Outdated(u, k) ==
  LET t == inbox[u].sendSeen[k].timestamp IN
  \/ \E i \in PendingSets(u, k) : t < outbox[u][i].timestamp
  \/ doc[k].timestamp # t /\ \A i \in PendingSets(u, k) : outbox[u][i].timestamp # t

\* Who wrote last is also the sender, and what a sender listener delivered is dated.
SentInv ==
  /\ \A k \in Convs : doc[k].latest # NoOne => doc[k].latest = doc[k].sender
  /\ \A u \in Users, k \in Convs :
       inbox[u].sendSeen[k].sender = u => DatedBy(u, inbox[u].sendSeen[k].timestamp)

\* The inbox behind a screen knows which conversation it opened, and once its
\* user has written there follows the sender listener.
FollowInv ==
  \A c \in Chats : OnTop(c) /\ chat[c].linked =>
    LET ib == inbox[chat[c].owner]
        k == chat[c].conv
    IN /\ ib.sel = k
       /\ chat[c].isNewMsg /\ ib.sendSeen[k].sender = chat[c].owner =>
            ib.last = ib.sendSeen[k].latest \/ Outdated(chat[c].owner, k)

\* A set of positions that is not empty has a last one.
LEMMA LastExists ==
  ASSUME NEW n \in Nat, NEW T, T \subseteq 1..n, T # {}
  PROVE  \E x \in T : \A y \in T : y <= x
<1> DEFINE D == {n - x : x \in T}
           R == OpToRel(<, Nat)
<1>1. IsWellFoundedOn(R, Nat)
  BY NatLessThanWellFounded
<1> HIDE DEF R
<1>2. D \subseteq Nat /\ D # {}
  <2>1. D \subseteq Nat
    OBVIOUS
  <2>2. PICK z \in T : TRUE
    OBVIOUS
  <2>3. n - z \in D
    OBVIOUS
  <2> QED
    BY <2>1, <2>3
<1> HIDE DEF D
<1>3. PICK d \in D : \A e \in D : <<e, d>> \notin R
  BY <1>1, <1>2, WFMin, Zenon
<1> USE DEF D
<1>4. PICK x \in T : d = n - x
  BY <1>3
<1>0. R = {ss \in Nat \X Nat : ss[1] < ss[2]}
  BY DEF R, OpToRel
<1>5. ASSUME NEW y \in T
      PROVE  y <= x
  <2>1. n - y \in D /\ n - y \in Nat /\ n - x \in Nat
    BY <1>2
  <2>2. <<n - y, n - x>> \notin R
    BY <2>1, <1>3, <1>4
  <2>3. ~(n - y < n - x)
    BY <2>1, <2>2, <1>0
  <2>4. y \in Nat /\ x \in Nat
    OBVIOUS
  <2> QED
    BY <2>3, <2>4
<1> QED
  BY <1>5

LEMMA NothingPending ==
  ASSUME TypeInv, NEW u \in Users, NEW k \in Convs
  PROVE  /\ LastPending(u, k, {"set"}) \subseteq PendingSets(u, k)
         /\ LastPending(u, k, {"set"}) = {} => PendingSets(u, k) = {}
         /\ \A n \in LastPending(u, k, {"set"}), i \in PendingSets(u, k) : i <= n
<1>1. DOMAIN outbox[u] = 1..Len(outbox[u]) /\ Len(outbox[u]) \in Nat
  BY OutboxTyped
<1> DEFINE S == PendingSets(u, k)
<1>2. LastPending(u, k, {"set"}) = {i \in S : \A j \in S : j <= i}
  BY <1>1 DEF LastPending, PendingSets, SetAt
<1>3. S \subseteq 1..Len(outbox[u])
  BY <1>1 DEF PendingSets
<1> HIDE DEF S
<1>4. S # {} => \E x \in S : \A y \in S : y <= x
  BY <1>1, <1>3, LastExists
<1> QED
  BY <1>2, <1>4 DEF S

\* What u sees of a conversation in which he wrote last.
LEMMA OwnView ==
  ASSUME TypeInv, DatesInv, SentInv, NEW u \in Users, NEW k \in Convs
  PROVE  /\ View(u, k).latest = u => View(u, k).sender = u
         /\ View(u, k).sender = u =>
              \/ \E n \in PendingSets(u, k) : /\ View(u, k).timestamp = outbox[u][n].timestamp
                                              /\ \A i \in PendingSets(u, k) : i <= n
              \/ /\ PendingSets(u, k) = {} /\ doc[k].sender = u
                 /\ View(u, k).timestamp = doc[k].timestamp
<1> DEFINE set == LastPending(u, k, {"set"})
           flags == LastPending(u, k, {"set", "clear"})
<1>1. u # NoOne
  BY ChatAssumption
<1>2. (\E i \in flags : outbox[u][i].kind = "set") => set # {}
  BY DEF LastPending
<1>3. doc[k].latest = u => doc[k].sender = u
  BY <1>1 DEF SentInv
<1> HIDE DEF set, flags
<1>4. /\ View(u, k).sender = IF set = {} THEN doc[k].sender ELSE u
      /\ ~(doc[k].sender = NoOne /\ set = {}) =>
           /\ View(u, k).latest = IF flags = {} THEN doc[k].latest
                                  ELSE IF \E i \in flags : outbox[u][i].kind = "set"
                                       THEN u ELSE NoOne
           /\ View(u, k).timestamp = IF set = {} THEN doc[k].timestamp
                                     ELSE outbox[u][CHOOSE i \in set : TRUE].timestamp
      /\ doc[k].sender = NoOne /\ set = {} => View(u, k).latest = NoOne
  BY DEF View, NoDoc, set, flags
<1>5. View(u, k).latest = u => View(u, k).sender = u
  BY <1>1, <1>2, <1>3, <1>4
<1>6. ASSUME View(u, k).sender = u
      PROVE  \/ \E n \in PendingSets(u, k) : /\ View(u, k).timestamp = outbox[u][n].timestamp
                                             /\ \A i \in PendingSets(u, k) : i <= n
             \/ /\ PendingSets(u, k) = {} /\ doc[k].sender = u
                /\ View(u, k).timestamp = doc[k].timestamp
  <2>1. CASE set = {}
    <3>1. doc[k].sender = u /\ View(u, k).timestamp = doc[k].timestamp
      BY <1>1, <1>4, <1>6, <2>1
    <3>2. PendingSets(u, k) = {}
      BY <2>1, NothingPending DEF set
    <3> QED
      BY <3>1, <3>2
  <2>2. CASE set # {}
    <3> DEFINE n == CHOOSE i \in set : TRUE
    <3>1. n \in set
      BY <2>2
    <3>2. View(u, k).timestamp = outbox[u][n].timestamp
      BY <1>4, <2>2
    <3> HIDE DEF n
    <3>3. n \in PendingSets(u, k) /\ \A i \in PendingSets(u, k) : i <= n
      BY <3>1, NothingPending DEF set
    <3> QED
      BY <3>2, <3>3
  <2> QED
    BY <2>1, <2>2
<1> QED
  BY <1>5, <1>6

\* It carries the date of a message of his.
LEMMA OwnViewDated ==
  ASSUME TypeInv, DatesInv, SentInv, NEW u \in Users, NEW k \in Convs, View(u, k).sender = u
  PROVE  DatedBy(u, View(u, k).timestamp)
<1>1. ASSUME NEW n \in PendingSets(u, k), View(u, k).timestamp = outbox[u][n].timestamp
      PROVE  DatedBy(u, View(u, k).timestamp)
  <2>1. DatedBy(u, outbox[u][n].timestamp)
    BY <1>1 DEF PendingSets, DatesInv
  <2> QED
    BY <1>1, <2>1
<1>2. CASE doc[k].sender = u /\ View(u, k).timestamp = doc[k].timestamp
  <2>1. DatedBy(u, doc[k].timestamp)
    BY <1>2 DEF DatesInv, Past
  <2> QED
    BY <1>2, <2>1
<1> QED
  BY <1>1, <1>2, OwnView

\* If he sees what was delivered it is not outdated.
LEMMA UpToDateView ==
  ASSUME TypeInv, DatesInv, SentInv, NEW u \in Users, NEW k \in Convs,
         View(u, k).sender = u, inbox[u].sendSeen[k] = View(u, k)
  PROVE  ~Outdated(u, k)
<1> DEFINE t == View(u, k).timestamp
<1>0. t \in Nat
  <2>1. Len(log) \in Nat
    BY LogGrows
  <2> QED
    BY <2>1, OwnViewDated DEF DatedBy
<1>1. ASSUME NEW n \in PendingSets(u, k), t = outbox[u][n].timestamp,
             \A i \in PendingSets(u, k) : i <= n
      PROVE  ~Outdated(u, k)
  <2>1. ASSUME NEW i \in PendingSets(u, k)
        PROVE  ~(t < outbox[u][i].timestamp)
    <3>1. i = n \/ i < n
      <4>1. i \in Nat /\ n \in Nat
        BY <1>1, <2>1, OutboxTyped DEF PendingSets
      <4> QED
        BY <1>1, <4>1
    <3>2. CASE i < n
      <4>1. outbox[u][i].timestamp < outbox[u][n].timestamp
        BY <1>1, <3>2 DEF PendingSets, DatesInv
      <4>2. outbox[u][i].timestamp \in Nat
        <5>1. Len(log) \in Nat
          BY LogGrows
        <5> QED
          BY <5>1 DEF PendingSets, DatesInv, DatedBy
      <4> HIDE DEF t
      <4> QED
        BY <1>0, <1>1, <4>1, <4>2
    <3>3. CASE i = n
      <4> HIDE DEF t
      <4> QED
        BY <1>0, <1>1, <3>3
    <3> QED
      BY <3>1, <3>2, <3>3
  <2> QED
    BY <1>1, <2>1 DEF Outdated
<1>2. CASE PendingSets(u, k) = {} /\ t = doc[k].timestamp
  BY <1>2 DEF Outdated
<1> QED
  BY <1>1, <1>2, OwnView

\* If he sees another's message it is.
LEMMA OthersView ==
  ASSUME TypeInv, DatesInv, NEW u \in Users, NEW k \in Convs,
         View(u, k).sender \notin {u, NoOne}, DatedBy(u, inbox[u].sendSeen[k].timestamp)
  PROVE  Outdated(u, k)
<1>1. PendingSets(u, k) = {} /\ doc[k].sender \notin {u, NoOne}
  BY ViewSender, NothingPending
<1>2. doc[k].sender \in Users
  BY <1>1 DEF TypeInv, TypeOK, Doc
<1>3. log[doc[k].timestamp].from = doc[k].sender
  BY <1>2 DEF DatesInv, Past, DatedBy
<1>4. doc[k].timestamp # inbox[u].sendSeen[k].timestamp
  BY <1>1, <1>3 DEF DatedBy
<1> QED
  BY <1>1, <1>4 DEF Outdated

\* What is outdated stays so: dates do not come back.
LEMMA OutdatedStays ==
  ASSUME TypeInv, DatesInv, [Next]_vars, NEW u \in Users, NEW k \in Convs,
         inbox'[u].sendSeen[k] = inbox[u].sendSeen[k],
         DatedBy(u, inbox[u].sendSeen[k].timestamp), Outdated(u, k)
  PROVE  Outdated(u, k)'
<1> DEFINE t == inbox[u].sendSeen[k].timestamp
           Pend(i) == outbox'[u][i].kind = "set" /\ outbox'[u][i].conv = k
<1>1. log[t].from = u /\ t \in Nat /\ t < Len(log) + 1 /\ Len(log) \in Nat
  BY LogGrows DEF DatedBy
<1>2. Outdated(u, k)' <=>
        \/ \E i \in DOMAIN outbox'[u] : Pend(i) /\ t < outbox'[u][i].timestamp
        \/ doc'[k].timestamp # t
             /\ \A i \in DOMAIN outbox'[u] : Pend(i) => outbox'[u][i].timestamp # t
  BY DEF Outdated, PendingSets, SetAt
<1> HIDE DEF t
<1>3. CASE doc[k].timestamp # t /\ \A i \in PendingSets(u, k) : outbox[u][i].timestamp # t
  <2>1. doc'[k].timestamp # t
    <3>1. ASSUME NEW v \in Users, 1 \in DOMAIN outbox[v], SetAt(v, 1), outbox[v][1].conv = k
          PROVE  outbox[v][1].timestamp # t
      <4>1. CASE v = u
        BY <1>3, <3>1, <4>1 DEF PendingSets
      <4>2. CASE v # u
        <5>1. log[outbox[v][1].timestamp].from = v
          BY <3>1 DEF DatesInv, DatedBy
        <5> QED
          BY <1>1, <4>2, <5>1
      <4> QED
        BY <4>1, <4>2
    <3> QED
      BY <1>3, <3>1, DocChange
  <2>2. ASSUME NEW i \in DOMAIN outbox'[u], Pend(i)
        PROVE  outbox'[u][i].timestamp # t
    <3>1. CASE \E j \in DOMAIN outbox[u] : SetAt(u, j) /\ outbox'[u][i] = outbox[u][j]
      BY <1>3, <2>2, <3>1 DEF PendingSets
    <3>2. CASE outbox'[u][i].timestamp = Len(log) + 1
      BY <1>1, <3>2
    <3> QED
      BY <2>2, <3>1, <3>2, SetsAfter
  <2> QED
    BY <1>2, <2>1, <2>2
<1>4. ASSUME NEW n \in PendingSets(u, k), t < outbox[u][n].timestamp
      PROVE  Outdated(u, k)'
  <2>0. n \in DOMAIN outbox[u] /\ n \in Nat /\ SetAt(u, n) /\ outbox[u][n].conv = k
    BY OutboxTyped DEF PendingSets
  <2>1. ASSUME NEW i \in DOMAIN outbox'[u], outbox'[u][i] = outbox[u][n]
        PROVE  Outdated(u, k)'
    BY <1>2, <1>4, <2>0, <2>1 DEF SetAt
  <2>2. CASE /\ Commit(u) /\ 1 \in DOMAIN outbox[u]
             /\ \A i : i \in DOMAIN outbox'[u] <=> i \in Nat \ {0} /\ i + 1 \in DOMAIN outbox[u]
             /\ \A i \in DOMAIN outbox'[u] : outbox'[u][i] = outbox[u][i + 1]
             /\ Head(outbox[u]) = outbox[u][1]
    <3>1. CASE n = 1
      <4>1. doc'[k].timestamp = outbox[u][1].timestamp
        <5>1. doc' = [doc EXCEPT ![outbox[u][1].conv] = Apply(@, outbox[u][1])]
          BY <2>2 DEF Commit
        <5>2. doc'[k] = Apply(doc[k], outbox[u][1])
          BY <2>0, <3>1, <5>1 DEF TypeInv, TypeOK
        <5> QED
          BY <2>0, <3>1, <5>2 DEF Apply, SetAt
      <4>2. outbox[u][1].timestamp \in Nat /\ t < outbox[u][1].timestamp
        BY <1>1, <1>4, <2>0, <3>1 DEF DatesInv, DatedBy
      <4>3. ASSUME NEW i \in DOMAIN outbox'[u], Pend(i)
            PROVE  outbox'[u][i].timestamp # t
        <5>1. /\ i \in Nat \ {0} /\ i + 1 \in DOMAIN outbox[u] /\ outbox'[u][i] = outbox[u][i + 1]
              /\ 1 < i + 1
          BY <2>2
        <5>2. SetAt(u, i + 1)
          BY <4>3, <5>1 DEF SetAt
        <5>3. /\ outbox[u][1].timestamp < outbox[u][i + 1].timestamp
              /\ outbox[u][i + 1].timestamp \in Nat
          BY <1>1, <2>0, <3>1, <5>1, <5>2 DEF DatesInv, DatedBy
        <5> QED
          BY <1>1, <4>2, <5>1, <5>3
      <4> QED
        BY <1>1, <1>2, <4>1, <4>2, <4>3
    <3>2. CASE n # 1
      <4>1. n - 1 \in Nat \ {0} /\ (n - 1) + 1 = n
        BY <2>0, <3>2, OutboxTyped
      <4>2. n - 1 \in DOMAIN outbox'[u] /\ outbox'[u][n - 1] = outbox[u][n]
        BY <2>0, <2>2, <4>1
      <4> QED
        BY <2>1, <4>2
    <3> QED
      BY <3>1, <3>2
  <2>3. CASE n \in DOMAIN outbox'[u] /\ outbox'[u][n] = outbox[u][n]
    BY <2>1, <2>3
  <2> QED
    BY <2>0, <2>2, <2>3, PendingAfter
<1> QED
  BY <1>3, <1>4 DEF Outdated, t

\* A message sent from a screen is not what the sender listener delivered.
LEMMA SentOutdates ==
  ASSUME TypeInv, DatesInv, [Next]_vars, NEW c \in Chats, SendText(c),
         DatedBy(chat[c].owner, inbox[chat[c].owner].sendSeen[chat[c].conv].timestamp)
  PROVE  Outdated(chat[c].owner, chat[c].conv)'
<1> DEFINE u == chat[c].owner
           k == chat[c].conv
           t == inbox[u].sendSeen[k].timestamp
           w == [kind |-> "set", conv |-> k, by |-> u,
                 unread |-> NextUnread(c), timestamp |-> Len(log) + 1]
<1>0. u \in Users /\ k \in Convs
  BY InUse DEF SendText, OnTop
<1>1. outbox[u] \in Seq(Write) /\ outbox \in [Users -> Seq(Write)]
  BY <1>0 DEF TypeInv, TypeOK
<1>2. outbox'[u] = Append(outbox[u], w) /\ outbox'[u] \in Seq(Write)
  <2>1. outbox' = [outbox EXCEPT ![u] = Append(@, w)]
    BY DEF SendText, Save, Issue
  <2>2. outbox' \in [Users -> Seq(Write)]
    BY NextTyped DEF TypeInv, TypeOK
  <2> HIDE DEF u, w
  <2> QED
    BY <1>0, <1>1, <2>1, <2>2
<1>3. w.kind = "set" /\ w.conv = k /\ w.timestamp = Len(log) + 1
  OBVIOUS
<1>4. chat'[c].owner = u /\ chat'[c].conv = k
  <2>1. chat[c] \in ChatState /\ chat' = [chat EXCEPT ![c] = [@ EXCEPT !.isNewMsg = TRUE]]
    BY DEF SendText, TypeInv, TypeOK
  <2> QED
    BY <2>1 DEF TypeInv, TypeOK, ChatState
<1>5. inbox'[u].sendSeen = inbox[u].sendSeen
  <2>1. inbox \in [Users -> InboxState]
    BY DEF TypeInv, TypeOK
  <2>2. inbox' = inbox \/ inbox' = [inbox EXCEPT ![u].unread = NextUnread(c)]
    BY DEF SendText, Save
  <2> HIDE DEF u
  <2>3. /\ inbox[u] \in InboxState
        /\ inbox'[u] \in {inbox[u], [inbox[u] EXCEPT !.unread = NextUnread(c)]}
    BY <1>0, <2>1, <2>2
  <2> QED
    BY <2>3 DEF InboxState
<1>6. t \in Nat /\ t < Len(log) + 1 /\ Len(log) \in Nat
  BY LogGrows DEF DatedBy
<1>7. \E i \in DOMAIN outbox'[u] : outbox'[u][i] = w
  <2> HIDE DEF u, w
  <2>1. Len(outbox'[u]) = Len(outbox[u]) + 1 /\ outbox'[u][Len(outbox[u]) + 1] = w
    BY <1>1, <1>2, AppendProperties
  <2>2. Len(outbox[u]) + 1 \in DOMAIN outbox'[u]
    BY <1>1, <1>2, <2>1, LenProperties
  <2> QED
    BY <2>1, <2>2
<1> HIDE DEF w
<1>8. PICK i \in DOMAIN outbox'[u] :
        /\ outbox'[u][i].kind = "set" /\ outbox'[u][i].conv = k
        /\ outbox'[u][i].timestamp = Len(log) + 1
  BY <1>3, <1>7
<1> QED
  BY <1>4, <1>5, <1>6, <1>8 DEF Outdated, PendingSets, SetAt

\* The screen stays the one it was, and is replied from only by sending a text.
SameScreen(c) ==
  /\ chat'[c].owner = chat[c].owner /\ chat'[c].conv = chat[c].conv
  /\ chat'[c].linked = chat[c].linked
  /\ chat'[c].isNewMsg => chat[c].isNewMsg \/ SendText(c)

LEMMA ScreenChange ==
  ASSUME TypeInv, [Next]_vars, NEW c \in Chats
  PROVE  \/ chat'[c] = NoChat
         \/ \E u \in Users, k \in Convs : OpenFromHome(u, k, c) \/ OpenFromInbox(u, k, c)
         \/ SameScreen(c)
<1>1. chat \in [Chats -> ChatState]
  BY DEF TypeInv, TypeOK
<1>2. ASSUME NEW d \in Chats, NEW s, chat' = [chat EXCEPT ![d] = s],
             s.owner = chat[d].owner, s.conv = chat[d].conv, s.linked = chat[d].linked,
             s.isNewMsg => chat[d].isNewMsg \/ SendText(d)
      PROVE  SameScreen(c)
  <2>1. CASE c = d
    BY <1>1, <1>2, <2>1 DEF SameScreen
  <2>2. CASE c # d
    BY <1>1, <1>2, <2>2 DEF SameScreen
  <2> QED
    BY <2>1, <2>2
<1>3. ASSUME NEW u \in Users, Relaunch(u)
      PROVE  chat'[c] = NoChat \/ SameScreen(c)
  BY <1>1, <1>3 DEF Relaunch, SameScreen
<1>4. ASSUME NEW u \in Users, NEW k \in Convs, NEW d \in Chats,
             OpenFromHome(u, k, d) \/ OpenFromInbox(u, k, d)
      PROVE  OpenFromHome(u, k, c) \/ OpenFromInbox(u, k, c) \/ SameScreen(c)
  <2>1. \E s : chat' = [chat EXCEPT ![d] = s]
    BY <1>4 DEF OpenFromHome, OpenFromInbox
  <2> QED
    BY <1>1, <1>4, <2>1 DEF SameScreen
<1>5. ASSUME NEW d \in Chats,
             SendText(d) \/ PickPhoto(d) \/ PhotoUploaded(d) \/ UploadFailed(d) \/ Delete(d)
      PROVE  SameScreen(c)
  <2>0. chat[d] \in ChatState
    BY <1>1
  <2>1. CASE SendText(d)
    <3> DEFINE s == [chat[d] EXCEPT !.isNewMsg = TRUE]
    <3>1. chat' = [chat EXCEPT ![d] = s]
      BY <1>1, <2>1 DEF SendText
    <3> QED
      BY <1>2, <2>0, <2>1, <3>1 DEF ChatState
  <2>2. CASE PickPhoto(d)
    <3> DEFINE s == [chat[d] EXCEPT !.uploads = @ + 1]
    <3>1. chat' = [chat EXCEPT ![d] = s]
      BY <1>1, <2>2 DEF PickPhoto
    <3> QED
      BY <1>2, <2>0, <3>1 DEF ChatState
  <2>3. CASE PhotoUploaded(d)
    <3> DEFINE s == [chat[d] EXCEPT !.uploads = @ - 1, !.hud = FALSE]
    <3>1. chat' = [chat EXCEPT ![d] = s]
      BY <1>1, <2>3 DEF PhotoUploaded
    <3> QED
      BY <1>2, <2>0, <3>1 DEF ChatState
  <2>4. CASE UploadFailed(d)
    <3> DEFINE s == [chat[d] EXCEPT !.uploads = @ - 1]
    <3>1. chat' = [chat EXCEPT ![d] = s]
      BY <1>1, <2>4 DEF UploadFailed
    <3> QED
      BY <1>2, <2>0, <3>1 DEF ChatState
  <2>5. CASE Delete(d)
    <3> DEFINE s == [chat[d] EXCEPT !.fresh = @ \ (chat[d].selIds \cap chat[d].fresh)]
    <3>1. chat' = [chat EXCEPT ![d] = s]
      BY <1>1, <2>5 DEF Delete
    <3> QED
      BY <1>2, <2>0, <3>1 DEF ChatState
  <2> QED
    BY <1>5, <2>1, <2>2, <2>3, <2>4, <2>5
<1>6. ASSUME NEW d \in Chats, NEW m \in Ids, Tap(d, m) \/ PhotoLoaded(d, m) \/ PhotoNotLoaded(d, m)
      PROVE  SameScreen(c)
  <2>0. chat[d] \in ChatState
    BY <1>1
  <2>1. CASE Tap(d, m)
    <3> DEFINE s == [chat[d] EXCEPT !.selIds = @ \cup {m}]
    <3>1. chat' = [chat EXCEPT ![d] = s]
      BY <1>1, <2>1 DEF Tap
    <3> QED
      BY <1>2, <2>0, <3>1 DEF ChatState
  <2>2. CASE PhotoLoaded(d, m)
    <3> DEFINE s == [chat[d] EXCEPT !.loading = @ \ {m}, !.shown = @ \cup {m},
                       !.fresh = IF chat[d].isNewMsg THEN @ \cup {m} ELSE @]
    <3>1. chat' = [chat EXCEPT ![d] = s]
      BY <1>1, <2>2 DEF PhotoLoaded
    <3> QED
      BY <1>2, <2>0, <3>1 DEF ChatState
  <2>3. CASE PhotoNotLoaded(d, m)
    <3> DEFINE s == [chat[d] EXCEPT !.loading = @ \ {m}]
    <3>1. chat' = [chat EXCEPT ![d] = s]
      BY <1>1, <2>3 DEF PhotoNotLoaded
    <3> QED
      BY <1>2, <2>0, <3>1 DEF ChatState
  <2> QED
    BY <1>6, <2>1, <2>2, <2>3
<1>7. ASSUME NEW d \in Chats, ThreadSnapshot(d)
      PROVE  SameScreen(c)
  <2> DEFINE s == chat[d]
             now == InConv(s.conv)
             removed == s.seen \ now
             added == now \ s.seen
             texts == {m \in added : ~log[m].photo}
             t == [s EXCEPT !.seen = now,
                            !.shown = (IF removed = {} THEN @ ELSE AfterRemoval(s)) \cup texts,
                            !.loading = @ \cup (added \ texts),
                            !.fresh = IF s.isNewMsg THEN @ \cup texts ELSE @]
  <2>1. s \in ChatState /\ chat' = [chat EXCEPT ![d] = t]
    BY <1>1, <1>7 DEF ThreadSnapshot
  <2>2. t.owner = s.owner /\ t.conv = s.conv /\ t.linked = s.linked /\ t.isNewMsg = s.isNewMsg
    BY <2>1 DEF ChatState
  <2> HIDE DEF t
  <2> QED
    BY <1>2, <2>1, <2>2
<1>8. CASE UNCHANGED chat
  BY <1>8 DEF SameScreen
<1> QED
  BY <1>3, <1>4, <1>5, <1>6, <1>7, <1>8
  DEF Next, UserStep, SystemStep, vars, NameCommitted, InboxCrashes, ShowInbox, ShowHome, Back,
      DeleteCrashes, Commit,
      RecSnapshot, SendSnapshot, ThreadSnapshotCrashes

\* What the inbox has selected changes only as a screen is opened or left.
LEMMA SelChange ==
  ASSUME TypeInv, [Next]_vars, NEW u \in Users
  PROVE  \/ inbox'[u].sel = inbox[u].sel
         \/ Relaunch(u)
         \/ \E k \in Convs, c \in Chats : OpenFromInbox(u, k, c) /\ inbox'[u].sel = k
         \/ \E c \in Chats : Back(c) /\ chat[c].owner = u
<1>1. inbox \in [Users -> InboxState]
  BY DEF TypeInv, TypeOK
<1>2. ASSUME NEW v \in Users, NEW b, inbox' = [inbox EXCEPT ![v] = b], b.sel = inbox[v].sel
      PROVE  inbox'[u].sel = inbox[u].sel
  BY <1>1, <1>2
<1>3. ASSUME NEW v \in Users, NEW n, inbox' = [inbox EXCEPT ![v].unread = n]
      PROVE  inbox'[u].sel = inbox[u].sel
  <2> DEFINE b == [inbox[v] EXCEPT !.unread = n]
  <2>1. inbox' = [inbox EXCEPT ![v] = b] /\ inbox[v] \in InboxState
    BY <1>1, <1>3
  <2> QED
    BY <1>2, <2>1 DEF InboxState
<1>4. ASSUME NEW c \in Chats, Delete(c) \/ SendText(c) \/ PhotoUploaded(c)
      PROVE  inbox'[u].sel = inbox[u].sel
  <2>1. chat[c].owner \in Users
    BY <1>4, InUse DEF Delete, SendText, PhotoUploaded, OnTop
  <2>2. inbox' = inbox \/ \E n : inbox' = [inbox EXCEPT ![chat[c].owner].unread = n]
    BY <1>4 DEF Delete, SendText, PhotoUploaded, Save
  <2> QED
    BY <1>3, <2>1, <2>2
<1>5. ASSUME NEW v \in Users, ShowInbox(v)
      PROVE  inbox'[u].sel = inbox[u].sel
  <2> DEFINE b == [inbox[v] EXCEPT !.recDue = @ \/ ~inbox[v].loaded, !.loaded = TRUE]
  <2>1. inbox' = [inbox EXCEPT ![v] = b] /\ inbox[v] \in InboxState
    BY <1>1, <1>5 DEF ShowInbox
  <2> QED
    BY <1>2, <2>1 DEF InboxState
<1>6. ASSUME NEW v \in Users, NEW k \in Convs, NEW c \in Chats, OpenFromInbox(v, k, c)
      PROVE  \/ inbox'[u].sel = inbox[u].sel
             \/ OpenFromInbox(u, k, c) /\ inbox'[u].sel = k
  <2> DEFINE b == [inbox[v] EXCEPT !.sel = k, !.unread = RowOf(v, k).unread]
  <2>1. inbox' = [inbox EXCEPT ![v] = b] /\ inbox[v] \in InboxState
    BY <1>1, <1>6 DEF OpenFromInbox
  <2>2. b.sel = k
    BY <2>1 DEF InboxState
  <2> HIDE DEF b
  <2> QED
    BY <1>1, <1>6, <2>1, <2>2
<1>7. ASSUME NEW c \in Chats, Back(c)
      PROVE  inbox'[u].sel = inbox[u].sel \/ chat[c].owner = u
  <2>1. inbox' = inbox \/ inbox' = [inbox EXCEPT ![chat[c].owner].sel = NoConv]
    BY <1>7 DEF Back
  <2> QED
    BY <1>1, <2>1
<1>8. ASSUME NEW v \in Users, Relaunch(v)
      PROVE  inbox'[u].sel = inbox[u].sel \/ Relaunch(u)
  BY <1>1, <1>8 DEF Relaunch
<1>9. ASSUME NEW v \in Users, RecSnapshot(v)
      PROVE  inbox'[u].sel = inbox[u].sel
  <2>1. PICK last : inbox' = [inbox EXCEPT ![v] = RecCallback(v, @, RecResult(v), last)]
    BY <1>9 DEF RecSnapshot
  <2> DEFINE b == RecCallback(v, inbox[v], RecResult(v), last)
  <2>2. inbox' = [inbox EXCEPT ![v] = b] /\ inbox[v] \in InboxState
    BY <1>1, <2>1
  <2>3. b.sel = inbox[v].sel
    BY <2>2 DEF RecCallback, InboxState
  <2> HIDE DEF b
  <2> QED
    BY <1>2, <2>2, <2>3
<1>10. ASSUME NEW v \in Users, SendSnapshot(v)
       PROVE  inbox'[u].sel = inbox[u].sel
  <2> DEFINE b == SendCallback(v, inbox[v], SendResult(v))
  <2>2. inbox' = [inbox EXCEPT ![v] = b] /\ inbox[v] \in InboxState
    BY <1>1, <1>10 DEF SendSnapshot
  <2>3. b.sel = inbox[v].sel
    BY <2>2 DEF SendCallback, InboxState
  <2> HIDE DEF b
  <2> QED
    BY <1>2, <2>2, <2>3
<1>11. CASE UNCHANGED inbox
  BY <1>11
<1> QED
  BY <1>4, <1>5, <1>6, <1>7, <1>8, <1>9, <1>10, <1>11
  DEF Next, UserStep, SystemStep, vars, NameCommitted, InboxCrashes, ShowHome, OpenFromHome,
      PickPhoto,
      DeleteCrashes, Tap, Commit, UploadFailed, ThreadSnapshot,
      ThreadSnapshotCrashes, PhotoLoaded, PhotoNotLoaded

\* The linked screen in front: just opened by the inbox, or in front before.
LEMMA FrontFollows ==
  ASSUME TypeInv, [Next]_vars, NEW c \in Chats, OnTop(c)', chat'[c].linked
  PROVE  LET u == chat'[c].owner
             k == chat'[c].conv
         IN /\ u \in Users /\ k \in Convs
            /\ \/ inbox'[u].sel = k /\ ~chat'[c].isNewMsg
               \/ /\ OnTop(c) /\ SameScreen(c)
                  /\ inbox'[u].sel = inbox[u].sel
<1> DEFINE u == chat'[c].owner
           k == chat'[c].conv
<1>0. u # NoOne /\ screen'[u] = c /\ chat \in [Chats -> ChatState]
      /\ inbox \in [Users -> InboxState]
      /\ screen \in [Users -> {"home", "inbox", "crashed"} \cup Chats]
  BY DEF OnTop, TypeInv, TypeOK
<1>1. c \notin {"home", "inbox", "crashed"}
  BY ChatAssumption
<1>2. u \in Users /\ k \in Convs
  <2>1. TypeInv'
    BY NextTyped
  <2> QED
    BY <1>0, <2>1 DEF TypeInv, TypeOK, OnConv, ChatState
<1>3. ASSUME NEW v \in Users, NEW j \in Convs, OpenFromHome(v, j, c)
      PROVE  FALSE
  <2>1. PICK photo \in BOOLEAN : chat' = [chat EXCEPT ![c] = Opened(v, j, TRUE, FALSE, photo)]
    BY <1>3 DEF OpenFromHome
  <2>2. chat'[c] = Opened(v, j, TRUE, FALSE, photo)
    BY <1>0, <2>1
  <2> QED
    BY <2>2 DEF Opened, NoChat
<1>4. ASSUME NEW v \in Users, NEW j \in Convs, OpenFromInbox(v, j, c)
      PROVE  inbox'[u].sel = k /\ ~chat'[c].isNewMsg
  <2>1. chat'[c] = Opened(v, j, FALSE, TRUE, FALSE)
    BY <1>0, <1>4 DEF OpenFromInbox
  <2>2. u = v /\ k = j /\ ~chat'[c].isNewMsg
    BY <2>1 DEF Opened, NoChat
  <2>3. inbox'[v] = [inbox[v] EXCEPT !.sel = j, !.unread = RowOf(v, j).unread]
        /\ inbox[v] \in InboxState
    BY <1>0, <1>4 DEF OpenFromInbox
  <2>4. inbox'[v].sel = j
    BY <2>3 DEF InboxState
  <2> QED
    BY <2>2, <2>4
<1>5. CASE SameScreen(c)
  <2>1. chat[c].owner = u /\ OnTop(c)
    <3>1. chat[c].owner = u
      BY <1>5 DEF SameScreen
    <3>2. ListsEmpty(c) => FALSE
      BY <1>0, <1>3, <1>5, <3>1 DEF ListsEmpty, OpenFromInbox
    <3> QED
      BY <3>1, <3>2, FrontChange
  <2>2. screen[u] = c
    BY <2>1 DEF OnTop
  <2>3. ASSUME NEW d \in Chats, Back(d), chat[d].owner = u
        PROVE  FALSE
    BY <1>0, <1>1, <1>2, <2>3 DEF Back
  <2>4. ~Relaunch(u)
    BY <1>0, <1>1, <1>2 DEF Relaunch
  <2>5. ASSUME NEW j \in Convs, NEW d \in Chats, OpenFromInbox(u, j, d)
        PROVE  FALSE
    BY <1>1, <2>2, <2>5 DEF OpenFromInbox
  <2>6. inbox'[u].sel = inbox[u].sel
    BY <1>2, <2>3, <2>4, <2>5, SelChange
  <2> QED
    BY <1>2, <1>5, <2>1, <2>6
<1>6. chat'[c] # NoChat
  BY <1>0 DEF NoChat
<1> QED
  BY <1>2, <1>3, <1>4, <1>5, <1>6, ScreenChange

LEMMA FollowInitially == Init => SentInv /\ FollowInv
<1>1. NoOne \notin Users
  BY ChatAssumption
<1> QED
  BY <1>1 DEF Init, SentInv, FollowInv, InitInbox, NoDoc, NoChat, OnTop

LEMMA SentStep ==
  ASSUME TypeInv, DatesInv, SentInv, [Next]_vars
  PROVE  SentInv'
<1>1. ASSUME NEW k \in Convs, doc'[k].latest # NoOne
      PROVE  doc'[k].latest = doc'[k].sender
  <2>1. UNCHANGED doc \/ \E v \in Users : Commit(v)
    BY DEF Next, UserStep, SystemStep, vars, NameCommitted, InboxCrashes, ShowInbox, ShowHome,
           Relaunch, OpenFromHome,
           OpenFromInbox, Back, SendText, PickPhoto, Delete, DeleteCrashes, Tap,
           RecSnapshot, SendSnapshot, PhotoUploaded, UploadFailed, ThreadSnapshot,
           ThreadSnapshotCrashes, PhotoLoaded, PhotoNotLoaded
  <2>2. CASE UNCHANGED doc
    BY <1>1, <2>2 DEF SentInv
  <2>3. ASSUME NEW v \in Users, Commit(v)
        PROVE  doc'[k].latest = doc'[k].sender
    <3>1. PICK w : doc' = [doc EXCEPT ![w.conv] = Apply(@, w)]
      BY <2>3 DEF Commit
    <3>2. doc \in [Convs -> Doc] /\ doc[k] \in Doc
      BY DEF TypeInv, TypeOK
    <3>3. doc'[k] = doc[k] \/ doc'[k] = Apply(doc[k], w)
      BY <3>1, <3>2
    <3>4. doc[k].latest # NoOne => doc[k].latest = doc[k].sender
      BY DEF SentInv
    <3>5. CASE doc'[k] = Apply(doc[k], w)
      BY <1>1, <3>2, <3>4, <3>5 DEF Apply, Doc
    <3> QED
      BY <1>1, <3>3, <3>4, <3>5
  <2> QED
    BY <2>1, <2>2, <2>3
<1>2. ASSUME NEW u \in Users, NEW k \in Convs, inbox'[u].sendSeen[k].sender = u
      PROVE  DatedBy(u, inbox[u].sendSeen[k].timestamp)'
  <2>1. CASE inbox'[u].sendSeen[k] = inbox[u].sendSeen[k]
    <3>1. DatedBy(u, inbox[u].sendSeen[k].timestamp)
      BY <1>2, <2>1 DEF SentInv
    <3>2. \A t : t = inbox[u].sendSeen[k].timestamp => DatedBy(u, t)'
      BY <3>1, DatedStays
    <3> QED
      BY <2>1, <3>2 DEF DatedBy
  <2>2. CASE SendSnapshot(u)
    <3>1. inbox'[u].sendSeen[k] = SendResult(u)[k]
      BY <2>2, SendSnapshotRows
    <3>2. View(u, k).sender = u /\ inbox'[u].sendSeen[k] = View(u, k)
      BY <1>2, <3>1, ChatAssumption DEF SendResult, NoDoc
    <3>3. DatedBy(u, View(u, k).timestamp)
      BY <3>2, OwnViewDated
    <3>4. \A t : t = View(u, k).timestamp => DatedBy(u, t)'
      BY <3>3, DatedStays
    <3> QED
      BY <3>2, <3>4 DEF DatedBy
  <2>3. CASE inbox'[u] = InitInbox
    BY <1>2, <2>3, ChatAssumption DEF InitInbox, NoDoc
  <2>4. CASE RecSnapshot(u)
    <3>1. inbox'[u].sendSeen = inbox[u].sendSeen
      <4>1. inbox[u] \in InboxState /\ inbox \in [Users -> InboxState]
        BY DEF TypeInv, TypeOK
      <4>2. PICK last : inbox'[u] = RecCallback(u, inbox[u], RecResult(u), last)
        BY <2>4, <4>1 DEF RecSnapshot
      <4> QED
        BY <4>1, <4>2 DEF RecCallback, InboxState
    <3> QED
      BY <2>1, <3>1
  <2> QED
    BY <2>1, <2>2, <2>3, <2>4, InboxChange DEF RowsKept
<1> QED
  BY <1>1, <1>2 DEF SentInv

\* A receiver snapshot of the only conversation moves the last member only when
\* the other has written last.
LEMMA RecLast ==
  ASSUME TypeInv, OneCorrespondent, NEW u \in Users, NEW k \in Convs, RecSnapshot(u)
  PROVE  /\ inbox'[u].sendSeen = inbox[u].sendSeen
         /\ inbox'[u].last = inbox[u].last \/ View(u, k).sender \notin {u, NoOne}
<1>1. inbox[u] \in InboxState /\ inbox \in [Users -> InboxState]
  BY DEF TypeInv, TypeOK
<1>2. PICK last \in LastMembers(u, inbox[u], RecResult(u)) :
        inbox'[u] = RecCallback(u, inbox[u], RecResult(u), last)
  BY <1>1 DEF RecSnapshot
<1>3. inbox'[u].sendSeen = inbox[u].sendSeen /\ inbox'[u].last = last
  BY <1>1, <1>2 DEF RecCallback, InboxState
<1>4. CASE View(u, k).sender \in {u, NoOne}
  <2>1. RecResult(u)[k].sender = NoOne
    BY <1>4 DEF RecResult, NoDoc
  <2>2. Found(RecResult(u)) = {}
    BY <2>1 DEF Found, OneCorrespondent
  <2>3. last = inbox[u].last
    BY <1>2, <2>2 DEF LastMembers
  <2> QED
    BY <1>3, <2>3
<1> QED
  BY <1>3, <1>4

LEMMA SendLast ==
  ASSUME TypeInv, NEW u \in Users, NEW k \in Convs, SendSnapshot(u), inbox[u].sel = k,
         inbox'[u].sendSeen[k].sender = u
  PROVE  inbox'[u].last = inbox'[u].sendSeen[k].latest
<1>1. inbox[u] \in InboxState /\ inbox \in [Users -> InboxState]
  BY DEF TypeInv, TypeOK
<1>2. inbox'[u] = SendCallback(u, inbox[u], SendResult(u))
  BY <1>1 DEF SendSnapshot
<1>3. inbox'[u].sendSeen = SendResult(u)
  BY SendSnapshotRows
<1>4. k \in Found(SendResult(u))
  BY <1>3, ChatAssumption DEF Found
<1>5. inbox'[u].last = SendResult(u)[k].latest
  BY <1>1, <1>2, <1>4 DEF SendCallback, InboxState
<1> QED
  BY <1>3, <1>5

LEMMA FollowStep ==
  ASSUME OneCorrespondent, TypeInv, DatesInv, SentInv, FollowInv, [Next]_vars
  PROVE  FollowInv'
<1> SUFFICES ASSUME NEW c \in Chats, OnTop(c)', chat'[c].linked
             PROVE  /\ inbox'[chat'[c].owner].sel = chat'[c].conv
                    /\ chat'[c].isNewMsg
                       /\ inbox'[chat'[c].owner].sendSeen[chat'[c].conv].sender = chat'[c].owner =>
                         \/ inbox'[chat'[c].owner].last
                              = inbox'[chat'[c].owner].sendSeen[chat'[c].conv].latest
                         \/ Outdated(chat[c].owner, chat[c].conv)'
  BY DEF FollowInv
<1> DEFINE u == chat'[c].owner
           k == chat'[c].conv
<1>1. /\ u \in Users /\ k \in Convs
      /\ \/ inbox'[u].sel = k /\ ~chat'[c].isNewMsg
         \/ OnTop(c) /\ SameScreen(c) /\ inbox'[u].sel = inbox[u].sel
  BY FrontFollows
<1> SUFFICES ASSUME OnTop(c), SameScreen(c), inbox'[u].sel = inbox[u].sel
             PROVE  /\ inbox'[u].sel = k
                    /\ chat'[c].isNewMsg /\ inbox'[u].sendSeen[k].sender = u =>
                         \/ inbox'[u].last = inbox'[u].sendSeen[k].latest
                         \/ Outdated(chat[c].owner, chat[c].conv)'
  BY <1>1
<1>2. chat[c].owner = u /\ chat[c].conv = k /\ chat[c].linked
  BY DEF SameScreen
<1>3. /\ inbox[u].sel = k
      /\ chat[c].isNewMsg /\ inbox[u].sendSeen[k].sender = u =>
           inbox[u].last = inbox[u].sendSeen[k].latest \/ Outdated(u, k)
  BY <1>2 DEF FollowInv
<1> SUFFICES ASSUME chat'[c].isNewMsg, inbox'[u].sendSeen[k].sender = u
             PROVE  \/ inbox'[u].last = inbox'[u].sendSeen[k].latest
                    \/ Outdated(chat[c].owner, chat[c].conv)'
  BY <1>3
<1>4. ASSUME NEW v, NEW j, v = u, j = k, v \in Users, j \in Convs, Outdated(v, j)'
      PROVE  Outdated(chat[c].owner, chat[c].conv)'
  BY <1>4
<1>5. ASSUME inbox[u].sendSeen[k].sender = u
      PROVE  DatedBy(u, inbox[u].sendSeen[k].timestamp)
  BY <1>1, <1>5 DEF SentInv
<1>6. ASSUME Outdated(u, k), inbox'[u].sendSeen = inbox[u].sendSeen
      PROVE  Outdated(chat[c].owner, chat[c].conv)'
  <2>1. DatedBy(u, inbox[u].sendSeen[k].timestamp)
    BY <1>5, <1>6
  <2>2. \A v \in Users, j \in Convs : v = u /\ j = k => Outdated(v, j)'
    <3> SUFFICES ASSUME NEW v \in Users, NEW j \in Convs, v = u, j = k
                 PROVE  Outdated(v, j)'
      OBVIOUS
    <3>1. Outdated(v, j) /\ DatedBy(v, inbox[v].sendSeen[j].timestamp)
          /\ inbox'[v].sendSeen[j] = inbox[v].sendSeen[j]
      BY <1>6, <2>1
    <3> HIDE DEF u, k
    <3> QED
      BY <3>1, OutdatedStays
  <2> QED
    BY <1>1, <2>2
<1>7. CASE SendText(c)
  <2>1. CASE inbox[u].sendSeen[k].sender = u
    BY <1>2, <1>5, <1>7, <2>1, SentOutdates
  <2>2. inbox'[u].sendSeen = inbox[u].sendSeen
    <3>1. inbox \in [Users -> InboxState]
      BY DEF TypeInv, TypeOK
    <3>2. inbox' = [inbox EXCEPT ![u].unread = NextUnread(c)]
      BY <1>2, <1>7 DEF SendText, Save
    <3> HIDE DEF u
    <3>3. inbox[u] \in InboxState /\ inbox'[u] = [inbox[u] EXCEPT !.unread = NextUnread(c)]
      BY <1>1, <3>1, <3>2
    <3> QED
      BY <3>3 DEF InboxState
  <2> QED
    BY <2>1, <2>2
<1>8. CASE chat[c].isNewMsg
  <2>1. CASE RowsKept(u)
    BY <1>3, <1>6, <1>8, <2>1 DEF RowsKept
  <2>2. CASE inbox'[u] = InitInbox
    BY <1>1, <2>2, ChatAssumption DEF InitInbox, NoDoc
  <2>3. CASE RecSnapshot(u)
    <3>1. /\ inbox'[u].sendSeen = inbox[u].sendSeen
          /\ inbox'[u].last = inbox[u].last \/ View(u, k).sender \notin {u, NoOne}
      BY <1>1, <2>3, RecLast
    <3>2. CASE inbox'[u].last = inbox[u].last
      BY <1>3, <1>6, <1>8, <3>1, <3>2
    <3>3. CASE View(u, k).sender \notin {u, NoOne}
      <4>1. Outdated(u, k)
        BY <1>1, <1>5, <3>1, <3>3, OthersView
      <4> QED
        BY <1>6, <3>1, <4>1
    <3> QED
      BY <3>1, <3>2, <3>3
  <2>4. CASE SendSnapshot(u)
    BY <1>1, <1>3, <2>4, SendLast
  <2> QED
    BY <1>1, <2>1, <2>2, <2>3, <2>4, InboxChange
<1> QED
  BY <1>7, <1>8 DEF SameScreen

\* With one correspondent, a user who has written from a screen and whose inbox
\* is up to date goes back without clearing the other's unread mark.
THEOREM ReplyKeepsMarkHolds ==
  ASSUME OneCorrespondent
  PROVE  Spec => []ReplyKeepsMark
<1>1. ASSUME TypeInv, DatesInv, SentInv, FollowInv
      PROVE  ReplyKeepsMark
  <2> SUFFICES ASSUME NEW c \in Chats, OnTop(c), chat[c].linked, chat[c].isNewMsg,
                      UpToDate(chat[c].owner),
                      View(chat[c].owner, chat[c].conv).latest = chat[c].owner
               PROVE  inbox[chat[c].owner].last = chat[c].owner
    BY DEF ReplyKeepsMark
  <2> DEFINE u == chat[c].owner
             k == chat[c].conv
  <2>1. u \in Users /\ k \in Convs
    BY <1>1, InUse DEF OnTop
  <2>2. View(u, k).sender = u
    BY <1>1, <2>1, OwnView
  <2>3. inbox[u].sendSeen[k] = View(u, k)
    BY <2>1, <2>2 DEF UpToDate, SendResult
  <2>4. ~Outdated(u, k)
    BY <1>1, <2>1, <2>2, <2>3, UpToDateView
  <2>5. inbox[u].last = inbox[u].sendSeen[k].latest
    BY <1>1, <2>2, <2>3, <2>4 DEF FollowInv
  <2> QED
    BY <2>3, <2>5
<1>2. TypeInv /\ DatesInv /\ SentInv /\ FollowInv /\ [Next]_vars
        => DatesInv' /\ SentInv' /\ FollowInv'
  BY DatesStep, SentStep, FollowStep
<1>3. Init => DatesInv /\ SentInv /\ FollowInv
  BY ConvergeInitially, FollowInitially
<1>4. TypeInv /\ DatesInv /\ SentInv /\ FollowInv => ReplyKeepsMark
  BY <1>1
<1> QED
  BY <1>2, <1>3, <1>4, TypeInvariant, PTL DEF Spec
=============================================================================
