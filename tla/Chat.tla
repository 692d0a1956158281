-------------------------------- MODULE Chat --------------------------------
(***************************************************************************)
(* One-to-one messaging: the chat screens (ChatViewController) and the     *)
(* inbox tab (InboxBarViewController) of several devices, over the "inbox" *)
(* documents and the "thread" sub-collections they share in Firestore.     *)
(*                                                                         *)
(* Firestore is external and modelled from its use: a write is applied to  *)
(* the writer's local view at once and reaches the server later, in the    *)
(* order the device issued it; a listener sees the difference between what *)
(* it last delivered and the present contents, whenever it gets to run.    *)
(***************************************************************************)
EXTENDS Integers, Sequences, FiniteSets

CONSTANTS
  Users,       \* signed-in users, one device each
  Chats,       \* instances of ChatViewController
  NoOne,       \* the empty latestMemberId, and the sender of a missing document
  Name,        \* display name of every user, once it is given; never "abc"
  MaxMsgs,     \* bound: messages ever sent
  MaxOutbox,   \* bound: inbox writes of a device the server has not applied
  MaxUploads,  \* bound: photo uploads in flight per chat screen
  Killed,      \* bound: the users whose app may also be killed while it works
  HomeUsers,   \* bound: the users who write from the home feed
  InboxUsers,  \* bound: the users who ever select the inbox tab
  NewUsers     \* bound: the users whose display name is still on its way at first

ASSUME ChatAssumption ==
  /\ NoOne \notin Users
  /\ Users \cap Chats = {}
  /\ {"home", "inbox", "crashed"} \cap Chats = {}
  /\ {Killed, HomeUsers, InboxUsers, NewUsers} \subseteq SUBSET Users
  /\ MaxMsgs \in Nat /\ MaxOutbox \in Nat /\ MaxUploads \in Nat

VARIABLES
  log,      \* every message ever added to a thread: index = messageId = sentDate
  thread,   \* the messages whose document still exists
  doc,      \* inbox/<conversation> on the server
  outbox,   \* writes to inbox documents a device has issued, oldest first
  screen,   \* what each user looks at: a tab, a chat screen, or a crashed app
  inbox,    \* the InboxBarViewController of each user
  chat,     \* the ChatViewController instances
  name,     \* displayName of each user: given, coming (being committed) or none
  unsigned  \* messages whose inbox write carries a null senderName

names == <<name, unsigned>>
vars  == <<log, thread, doc, outbox, screen, inbox, chat, names>>

-----------------------------------------------------------------------------
(* Data. *)

\* The conversation id joins both uids, the larger first: both sides compute
\* the same one.
Convs == {k \in SUBSET Users : \E u, v \in Users : u # v /\ k = {u, v}}
NoConv == {}

Message == [from : Users, conv : Convs, photo : BOOLEAN]

Ids == 1..MaxMsgs

Doc   == [sender : Users \cup {NoOne}, latest : Users \cup {NoOne}, unread : Int,
          timestamp : Ids \cup {0}]
NoDoc == [sender |-> NoOne, latest |-> NoOne, unread |-> 0, timestamp |-> 0]

\* A write to an inbox document: setData ("set"), the read reset ("clear"),
\* or the counter correction after a deletion ("count").
Write == [kind : {"set", "clear", "count"}, conv : Convs, by : Users, unread : Int,
          timestamp : Ids \cup {0}]
ReadReset(u, k) ==
  [kind |-> "clear", conv |-> k, by |-> u, unread |-> 0, timestamp |-> 0]

\* A row of the inbox table (Channel).
Row   == [listed : BOOLEAN, flag : BOOLEAN, unread : Int]
NoRow == [listed |-> FALSE, flag |-> FALSE, unread |-> 0]

InboxState ==
  [loaded : BOOLEAN,                   \* viewDidLoad has run
   sel : Convs \cup {NoConv},          \* selectedId
   unread : Int,                       \* selectedInboxUnreadMsgs
   last : Users \cup {NoOne},          \* selectedlastMemberID
   acc : [Convs -> Row],               \* retrieveChannels of the receiver listener
   recSide : [Convs -> Row],
   sendSide : [Convs -> Row],
   recSeen : [Convs -> Doc],           \* what the listeners last delivered
   sendSeen : [Convs -> Doc],
   recDue : BOOLEAN,                   \* registered, first snapshot still owed
   sendDue : BOOLEAN,
   sendOn : BOOLEAN]                   \* a sender listener is registered

InitInbox ==
  [loaded |-> FALSE, sel |-> NoConv, unread |-> 0, last |-> NoOne,
   acc |-> [k \in Convs |-> NoRow],
   recSide |-> [k \in Convs |-> NoRow], sendSide |-> [k \in Convs |-> NoRow],
   recSeen |-> [k \in Convs |-> NoDoc], sendSeen |-> [k \in Convs |-> NoDoc],
   recDue |-> FALSE, sendDue |-> FALSE, sendOn |-> FALSE]

ChatState ==
  [owner : Users \cup {NoOne},         \* NoOne: not created
   conv : Convs \cup {NoConv},
   isNewChat : BOOLEAN,                \* opened from home
   linked : BOOLEAN,                   \* inboxRef is not nil
   hud : BOOLEAN,                      \* the progress overlay covers the messages
   seen : SUBSET Ids,                  \* thread contents last delivered
   shown : SUBSET Ids,                 \* messages (kept sorted by sentDate)
   loading : SUBSET Ids,               \* photos being downloaded
   fresh : SUBSET Ids,                 \* newMessages
   selIds : SUBSET Ids,                \* selectedMsgIDs
   isNewMsg : BOOLEAN,
   uploads : 0..MaxUploads]

NoChat ==
  [owner |-> NoOne, conv |-> NoConv, isNewChat |-> FALSE, linked |-> FALSE, hud |-> FALSE,
   seen |-> {}, shown |-> {}, loading |-> {}, fresh |-> {}, selIds |-> {},
   isNewMsg |-> FALSE, uploads |-> 0]

\* Mutant: the inbox forgets to hand itself to the screen it opens.
UnlinkedOpened(u, k, isNewChat, linked, photo) ==
  [NoChat EXCEPT !.owner = u, !.conv = k, !.isNewChat = isNewChat, !.hud = photo,
                 !.uploads = IF photo THEN 1 ELSE 0]

Opened(u, k, isNewChat, linked, photo) ==
  [NoChat EXCEPT !.owner = u, !.conv = k, !.isNewChat = isNewChat, !.linked = linked,
                 !.hud = photo, !.uploads = IF photo THEN 1 ELSE 0]

Running(u) == screen[u] # "crashed"
OnTop(c)   == chat[c].owner # NoOne /\ screen[chat[c].owner] = c

-----------------------------------------------------------------------------
(* Firestore: server and local views of the inbox documents. *)

\* What the server makes of a write; an update of a missing document fails.
Apply(d, w) ==
  CASE w.kind = "set" -> [sender |-> w.by, latest |-> w.by, unread |-> w.unread,
                          timestamp |-> w.timestamp]
    [] w.kind = "clear" /\ d.sender # NoOne -> [d EXCEPT !.latest = NoOne, !.unread = 0]
    [] w.kind = "count" /\ d.sender # NoOne -> [d EXCEPT !.unread = w.unread]
    [] OTHER -> d

\* The last of a device's pending writes to k whose kind is one of kinds, as a
\* set of at most one index.
LastPending(u, k, kinds) ==
  LET pending == {i \in 1..Len(outbox[u]) :
                    outbox[u][i].conv = k /\ outbox[u][i].kind \in kinds}
  IN {i \in pending : \A j \in pending : j <= i}

\* The document as the device of u sees it: the server's, under the writes of
\* u that are still pending.
View(u, k) ==
  LET set   == LastPending(u, k, {"set"})
      flags == LastPending(u, k, {"set", "clear"})
      any   == LastPending(u, k, {"set", "clear", "count"})
  IN IF doc[k].sender = NoOne /\ set = {}
     THEN NoDoc
     ELSE [sender |-> IF set = {} THEN doc[k].sender ELSE u,
           latest |-> IF flags = {} THEN doc[k].latest
                      ELSE IF \E i \in flags : outbox[u][i].kind = "set" THEN u ELSE NoOne,
           unread |-> IF any = {} THEN doc[k].unread
                      ELSE outbox[u][CHOOSE i \in any : TRUE].unread,
           timestamp |-> IF set = {} THEN doc[k].timestamp
                         ELSE outbox[u][CHOOSE i \in set : TRUE].timestamp]

\* The device of u issues w.
Issue(u, w) ==
  /\ Len(outbox[u]) < MaxOutbox
  /\ outbox' = [outbox EXCEPT ![u] = Append(@, w)]

\* The server applies the oldest pending write of u.
Commit(u) ==
  /\ Running(u)
  /\ outbox[u] # <<>>
  /\ LET w == Head(outbox[u])
     IN doc' = [doc EXCEPT ![w.conv] = Apply(@, w)]
  /\ outbox' = [outbox EXCEPT ![u] = Tail(@)]
  /\ UNCHANGED <<log, thread, screen, inbox, chat, names>>

-----------------------------------------------------------------------------
(* Navigation. *)

Init ==
  /\ log = <<>>
  /\ thread = {}
  /\ doc = [k \in Convs |-> NoDoc]
  /\ outbox = [u \in Users |-> <<>>]
  /\ screen = [u \in Users |-> "home"]
  /\ inbox = [u \in Users |-> InitInbox]
  /\ chat = [c \in Chats |-> NoChat]
  /\ name = [u \in Users |-> IF u \in NewUsers THEN "coming" ELSE "given"]
  /\ unsigned = {}

\* The inbox tab is selected; its first appearance registers the receiver
\* listener.  No conversation is selected then, so nothing is reset.
ShowInbox(u) ==
  /\ u \in InboxUsers
  /\ screen[u] = "home"
  /\ screen' = [screen EXCEPT ![u] = "inbox"]
  /\ inbox' = [inbox EXCEPT ![u].recDue = @ \/ ~inbox[u].loaded, ![u].loaded = TRUE]
  /\ UNCHANGED <<log, thread, doc, outbox, chat, names>>

ShowHome(u) ==
  /\ screen[u] = "inbox"
  /\ screen' = [screen EXCEPT ![u] = "home"]
  /\ UNCHANGED <<log, thread, doc, outbox, inbox, chat, names>>

\* "Message" on a post of another user: the screen gets no inbox reference
\* and starts by sending the post's picture, if the cell shows one.
OpenFromHome(u, k, c) ==
  /\ u \in HomeUsers
  /\ screen[u] = "home"
  /\ u \in k
  /\ chat[c].owner = NoOne
  /\ \E photo \in BOOLEAN :
       /\ photo => MaxUploads > 0
       /\ chat' = [chat EXCEPT ![c] = Opened(u, k, TRUE, FALSE, photo)]
  /\ screen' = [screen EXCEPT ![u] = c]
  /\ UNCHANGED <<log, thread, doc, outbox, inbox, names>>

\* The rows of the table: the two sides, each conversation on one of them.
RowOf(u, k) ==
  IF inbox[u].recSide[k].listed THEN inbox[u].recSide[k] ELSE inbox[u].sendSide[k]

\* A row is selected: the inbox remembers it and its counter, and an unread
\* conversation is marked read.
OpenFromInbox(u, k, c) ==
  /\ screen[u] = "inbox"
  /\ RowOf(u, k).listed
  /\ chat[c].owner = NoOne
  /\ chat' = [chat EXCEPT ![c] = Opened(u, k, FALSE, TRUE, FALSE)]
  /\ screen' = [screen EXCEPT ![u] = c]
  /\ inbox' = [inbox EXCEPT ![u].sel = k, ![u].unread = RowOf(u, k).unread]
  /\ IF RowOf(u, k).flag
     THEN Issue(u, ReadReset(u, k))
     ELSE UNCHANGED outbox
  /\ UNCHANGED <<log, thread, doc, names>>

\* Back from a chat screen.  The instance stays alive: its listener holds it.
\* Coming back to the inbox clears the unread mark, unless the inbox believes
\* that its own user wrote last.
Back(c) ==
  LET u == chat[c].owner
      ib == inbox[u]
  IN
  /\ OnTop(c)
  /\ IF chat[c].linked
     THEN /\ screen' = [screen EXCEPT ![u] = "inbox"]
          /\ inbox' = [inbox EXCEPT ![u].sel = NoConv]
          /\ IF ib.last # u /\ ib.sel # NoConv
             THEN Issue(u, ReadReset(u, ib.sel))
             ELSE UNCHANGED outbox
     ELSE /\ screen' = [screen EXCEPT ![u] = "home"]
          /\ UNCHANGED <<inbox, outbox>>
  /\ UNCHANGED <<log, thread, doc, chat, names>>

\* A sign-up has presented the home feed; its name is committed later (Account).
NameCommitted(u) ==
  /\ Running(u) /\ name[u] = "coming"
  /\ name' = [name EXCEPT ![u] = "given"]
  /\ UNCHANGED <<log, thread, doc, outbox, screen, inbox, chat, unsigned>>

\* The app is killed (or has crashed) and is started again: every screen is
\* new; pending writes are persisted by the Firestore cache, and a name that
\* has not come yet never will.
Relaunch(u) ==
  /\ Running(u) => u \in Killed
  /\ screen' = [screen EXCEPT ![u] = "home"]
  /\ inbox' = [inbox EXCEPT ![u] = InitInbox]
  /\ chat' = [c \in Chats |-> IF chat[c].owner = u THEN NoChat ELSE chat[c]]
  /\ name' = [name EXCEPT ![u] = IF @ = "coming" THEN "none" ELSE @]
  /\ UNCHANGED <<log, thread, doc, outbox, unsigned>>

-----------------------------------------------------------------------------
(* Sending. *)

\* Mutant: the new message is counted in the inbox and again in the document.
TwiceCounted(c) ==
  IF chat[c].linked THEN inbox[chat[c].owner].unread + 2 ELSE 1

\* The unread counter that save writes.
NextUnread(c) ==
  IF chat[c].linked THEN inbox[chat[c].owner].unread + 1 ELSE 1

\* save: add the message document, count it, and overwrite the inbox document,
\* whose senderName is the displayName of the moment.
\* Returns nothing; the chat record itself is the caller's to update.
Save(c, photo) ==
  LET u == chat[c].owner IN
  /\ Len(log) < MaxMsgs
  /\ log' = Append(log, [from |-> u, conv |-> chat[c].conv, photo |-> photo])
  /\ thread' = thread \cup {Len(log) + 1}
  /\ inbox' = IF chat[c].linked THEN [inbox EXCEPT ![u].unread = NextUnread(c)] ELSE inbox
  /\ Issue(u, [kind |-> "set", conv |-> chat[c].conv, by |-> u,
             unread |-> NextUnread(c), timestamp |-> Len(log) + 1])
  /\ unsigned' = IF name[u] = "given" THEN unsigned ELSE unsigned \cup {Len(log) + 1}

SendText(c) ==
  /\ OnTop(c)
  /\ Save(c, FALSE)
  /\ chat' = [chat EXCEPT ![c].isNewMsg = TRUE]
  /\ UNCHANGED <<doc, screen, name>>

PickPhoto(c) ==
  /\ OnTop(c)
  /\ chat[c].uploads < MaxUploads
  /\ chat' = [chat EXCEPT ![c].uploads = @ + 1]
  /\ UNCHANGED <<log, thread, doc, outbox, screen, inbox, names>>

\* The upload ends, perhaps after the user has left the screen.
PhotoUploaded(c) ==
  /\ chat[c].owner # NoOne /\ Running(chat[c].owner)
  /\ chat[c].uploads > 0
  /\ Save(c, TRUE)
  /\ chat' = [chat EXCEPT ![c].uploads = @ - 1, ![c].hud = FALSE]
  /\ UNCHANGED <<doc, screen, name>>

\* No download URL: the photo is dropped and the overlay stays.
UploadFailed(c) ==
  /\ chat[c].owner # NoOne /\ Running(chat[c].owner)
  /\ chat[c].uploads > 0
  /\ chat' = [chat EXCEPT ![c].uploads = @ - 1]
  /\ UNCHANGED <<log, thread, doc, outbox, screen, inbox, names>>

-----------------------------------------------------------------------------
(* Selecting and deleting. *)

\* Mutant: any message can be selected.
AnySelectable(c, m) == TRUE

CanSelect(c, m) == log[m].from = chat[c].owner

Tap(c, m) ==
  /\ OnTop(c)
  /\ ~chat[c].hud
  /\ m \in chat[c].shown
  /\ CanSelect(c, m)
  /\ chat' = [chat EXCEPT ![c].selIds = @ \cup {m}]
  /\ UNCHANGED <<log, thread, doc, outbox, screen, inbox, names>>

\* "Delete": every selected message.  The selection itself is never emptied
\* (only selectedIndex is, which serves the highlighting alone).
Delete(c) ==
  LET u == chat[c].owner
      recent == chat[c].selIds \cap chat[c].fresh
  IN
  /\ OnTop(c)
  /\ chat[c].linked \/ recent = {}
  /\ thread' = thread \ chat[c].selIds
  /\ inbox' = IF chat[c].linked
              THEN [inbox EXCEPT ![u].unread = @ - Cardinality(recent)] ELSE inbox
  /\ chat' = [chat EXCEPT ![c].fresh = @ \ recent]
  /\ UNCHANGED <<log, doc, outbox, screen, names>>

\* inboxRef! on a screen opened from home: the loop stops at the first selected
\* message that is new, after deleting some of those before it.
DeleteCrashes(c) ==
  /\ OnTop(c)
  /\ ~chat[c].linked
  /\ chat[c].selIds \cap chat[c].fresh # {}
  /\ \E done \in SUBSET (chat[c].selIds \ chat[c].fresh) : thread' = thread \ done
  /\ screen' = [screen EXCEPT ![chat[c].owner] = "crashed"]
  /\ UNCHANGED <<log, doc, outbox, inbox, chat, names>>

-----------------------------------------------------------------------------
(* Listeners of a chat screen.  They run for as long as the instance lives, *)
(* also after the user has left it.                                         *)

InConv(k) == {m \in thread : log[m].conv = k}

\* Mutants: a removal empties the list, or leaves it alone.
ListEmptied(s) == {}
ListKept(s) == s.shown

\* A removal takes the selected messages off the list, whatever was removed.
AfterRemoval(s) == s.shown \ s.selIds

\* The counter written after a removal.
Corrected(n) == IF n < 0 THEN 0 ELSE n

\* Mutant: the thread is listened to by way of the inbox, which a screen
\* opened from home has no reference to.
HeardByInbox(s) == s.linked /\ InConv(s.conv) # s.seen

\* The listener has changes to deliver.
HasNews(s) == InConv(s.conv) # s.seen

\* handleDocumentChange over one snapshot: removals come before additions.
ThreadSnapshot(c) ==
  LET s == chat[c]
      u == s.owner
      now == InConv(s.conv)
      removed == s.seen \ now
      added == now \ s.seen
      texts == {m \in added : ~log[m].photo}
  IN
  /\ u # NoOne /\ Running(u)
  /\ HasNews(s)
  /\ removed # {} => s.linked
  /\ chat' = [chat EXCEPT
       ![c].seen = now,
       ![c].shown = (IF removed = {} THEN @ ELSE AfterRemoval(s)) \cup texts,
       ![c].loading = @ \cup (added \ texts),
       ![c].fresh = IF s.isNewMsg THEN @ \cup texts ELSE @]
  /\ IF removed = {}
     THEN UNCHANGED outbox
     ELSE Issue(u, [kind |-> "count", conv |-> s.conv, by |-> u,
                    unread |-> Corrected(inbox[u].unread), timestamp |-> 0])
  /\ UNCHANGED <<log, thread, doc, screen, inbox, names>>

\* A removal reaches a screen without an inbox reference: inboxRef! traps.
ThreadSnapshotCrashes(c) ==
  LET s == chat[c] IN
  /\ s.owner # NoOne /\ Running(s.owner)
  /\ s.seen \ InConv(s.conv) # {}
  /\ ~s.linked
  /\ screen' = [screen EXCEPT ![s.owner] = "crashed"]
  /\ UNCHANGED <<log, thread, doc, outbox, inbox, chat, names>>

PhotoLoaded(c, m) ==
  LET s == chat[c] IN
  /\ s.owner # NoOne /\ Running(s.owner)
  /\ m \in s.loading
  /\ chat' = [chat EXCEPT ![c].loading = @ \ {m},
                          ![c].shown = @ \cup {m},
                          ![c].fresh = IF s.isNewMsg THEN @ \cup {m} ELSE @]
  /\ UNCHANGED <<log, thread, doc, outbox, screen, inbox, names>>

\* Download failed, or more than the megabyte asked for.
PhotoNotLoaded(c, m) ==
  /\ chat[c].owner # NoOne /\ Running(chat[c].owner)
  /\ m \in chat[c].loading
  /\ chat' = [chat EXCEPT ![c].loading = @ \ {m}]
  /\ UNCHANGED <<log, thread, doc, outbox, screen, inbox, names>>

-----------------------------------------------------------------------------
(* Listeners of the inbox. *)

\* A conversation can be listed only under a name that is not the user's own,
\* which is "abc" as long as he has none.
Nameable(u, k) == name[u] = "given" => \A v \in k \ {u} : Name[v] # Name[u]

\* The two queries, as u sees them.
RecResult(u) ==
  [k \in Convs |-> IF u \in k /\ View(u, k).sender \notin {u, NoOne}
                   THEN View(u, k) ELSE NoDoc]
SendResult(u) ==
  [k \in Convs |-> IF View(u, k).sender = u THEN View(u, k) ELSE NoDoc]

Found(result) == {k \in Convs : result[k].sender # NoOne}

\* One of the documents has a null senderName, which is cast to String: that of
\* the message its timestamp tells.
Nulled(result) == \E k \in Found(result) : result[k].timestamp \in unsigned

\* Rows built from the receiver query carry the mark and the counter only if
\* the other side wrote last; rows of the sender query never carry the mark.
Flagged(u, d) == d.latest \notin {u, NoOne}
RecRow(u, d)  == [listed |-> TRUE, flag |-> Flagged(u, d),
                  unread |-> IF Flagged(u, d) THEN d.unread ELSE 0]
SendRow(d)    == [listed |-> TRUE, flag |-> FALSE, unread |-> d.unread]

\* Mutant: one sender listener is registered, with the first receiver snapshot.
RecCallbackOneListener(u, ib, result, last) ==
  LET found == Found(result)
      acc == [k \in Convs |-> IF k \in found /\ Nameable(u, k)
                              THEN RecRow(u, result[k]) ELSE ib.acc[k]]
  IN [ib EXCEPT !.recSeen = result, !.recDue = FALSE, !.acc = acc, !.recSide = acc,
                !.sendSide = [k \in Convs |-> IF acc[k].listed THEN NoRow ELSE @[k]],
                !.unread = IF ib.sel \in found THEN result[ib.sel].unread ELSE @,
                !.last = last,
                !.sendOn = TRUE, !.sendDue = @ \/ ~ib.sendOn]

\* What the inbox makes of a snapshot of the receiver query: the rows
\* accumulate over snapshots, the receiver side is replaced by them, and one
\* more sender listener is registered.
RecCallback(u, ib, result, last) ==
  LET found == Found(result)
      acc == [k \in Convs |-> IF k \in found /\ Nameable(u, k)
                              THEN RecRow(u, result[k]) ELSE ib.acc[k]]
  IN [ib EXCEPT !.recSeen = result, !.recDue = FALSE,
                !.acc = acc,
                !.recSide = acc,
                !.sendSide = [k \in Convs |-> IF acc[k].listed THEN NoRow ELSE @[k]],
                !.unread = IF ib.sel \in found THEN result[ib.sel].unread ELSE @,
                !.last = last,
                !.sendOn = TRUE, !.sendDue = TRUE]

\* Mutants: the receiver side keeps what the sender query took over; the last
\* member is not followed.
SendCallbackKeepingBoth(u, ib, result) ==
  LET rows == [k \in Convs |-> IF k \in Found(result) /\ Nameable(u, k)
                               THEN SendRow(result[k]) ELSE NoRow]
  IN [ib EXCEPT !.sendSeen = result, !.sendDue = FALSE, !.sendSide = rows,
                !.unread = IF ib.sel \in Found(result) THEN result[ib.sel].unread ELSE @,
                !.last = IF ib.sel \in Found(result) THEN result[ib.sel].latest ELSE @]
SendCallbackNoLast(u, ib, result) ==
  LET rows == [k \in Convs |-> IF k \in Found(result) /\ Nameable(u, k)
                               THEN SendRow(result[k]) ELSE NoRow]
  IN [ib EXCEPT !.sendSeen = result, !.sendDue = FALSE, !.sendSide = rows,
                !.recSide = [k \in Convs |-> IF rows[k].listed THEN NoRow ELSE @[k]],
                !.unread = IF ib.sel \in Found(result) THEN result[ib.sel].unread ELSE @]

\* Of a snapshot of the sender query: the sender side is rebuilt, and wins
\* over the other one.
SendCallback(u, ib, result) ==
  LET found == Found(result)
      rows == [k \in Convs |-> IF k \in found /\ Nameable(u, k)
                               THEN SendRow(result[k]) ELSE NoRow]
  IN [ib EXCEPT !.sendSeen = result, !.sendDue = FALSE,
                !.sendSide = rows,
                !.recSide = [k \in Convs |-> IF rows[k].listed THEN NoRow ELSE @[k]],
                !.unread = IF ib.sel \in found THEN result[ib.sel].unread ELSE @,
                !.last = IF ib.sel \in found THEN result[ib.sel].latest ELSE @]

\* selectedlastMemberID after a receiver snapshot: the last assignment of the
\* loop over its documents wins.
LastMembers(u, ib, result) ==
  LET assigning == {k \in Found(result) :
                      k = ib.sel \/ (Nameable(u, k) /\ Flagged(u, result[k]))}
  IN IF assigning = {} THEN {ib.last} ELSE {result[k].latest : k \in assigning}

\* A listener is called with its first result, then whenever the result changes.
RecCalled(u, result) ==
  Running(u) /\ inbox[u].loaded /\ (inbox[u].recDue \/ result # inbox[u].recSeen)
SendCalled(u, result) ==
  Running(u) /\ inbox[u].sendOn /\ (inbox[u].sendDue \/ result # inbox[u].sendSeen)

RecSnapshot(u) ==
  LET result == RecResult(u) IN
  /\ RecCalled(u, result)
  /\ ~Nulled(result)
  /\ \E last \in LastMembers(u, inbox[u], result) :
       inbox' = [inbox EXCEPT ![u] = RecCallback(u, @, result, last)]
  /\ UNCHANGED <<log, thread, doc, outbox, screen, chat, names>>

\* All the sender listeners registered so far do the same with the same
\* result, so one that runs after every registration and every change is enough.
SendSnapshot(u) ==
  LET result == SendResult(u) IN
  /\ SendCalled(u, result)
  /\ ~Nulled(result)
  /\ inbox' = [inbox EXCEPT ![u] = SendCallback(u, @, result)]
  /\ UNCHANGED <<log, thread, doc, outbox, screen, chat, names>>

\* as! String: every document of a snapshot is read again, so the app goes down
\* at the first snapshot of either query that has one without a name.
InboxCrashes(u) ==
  /\ \/ RecCalled(u, RecResult(u)) /\ Nulled(RecResult(u))
     \/ SendCalled(u, SendResult(u)) /\ Nulled(SendResult(u))
  /\ screen' = [screen EXCEPT ![u] = "crashed"]
  /\ UNCHANGED <<log, thread, doc, outbox, inbox, chat, names>>

-----------------------------------------------------------------------------
UserStep ==
  \/ \E u \in Users : ShowInbox(u) \/ ShowHome(u) \/ Relaunch(u)
  \/ \E u \in Users, k \in Convs, c \in Chats : OpenFromHome(u, k, c) \/ OpenFromInbox(u, k, c)
  \/ \E c \in Chats : Back(c) \/ SendText(c) \/ PickPhoto(c) \/ Delete(c) \/ DeleteCrashes(c)
  \/ \E c \in Chats, m \in Ids : Tap(c, m)

SystemStep ==
  \/ \E u \in Users : \/ Commit(u) \/ NameCommitted(u)
                      \/ RecSnapshot(u) \/ SendSnapshot(u) \/ InboxCrashes(u)
  \/ \E c \in Chats : \/ PhotoUploaded(c) \/ UploadFailed(c)
                      \/ ThreadSnapshot(c) \/ ThreadSnapshotCrashes(c)
  \/ \E c \in Chats, m \in Ids : PhotoLoaded(c, m) \/ PhotoNotLoaded(c, m)

Next == UserStep \/ SystemStep

Spec == Init /\ [][Next]_vars

\* Firestore keeps delivering and the SDK keeps calling back; users do nothing
\* they do not choose to.
Fairness ==
  /\ \A u \in Users : WF_vars(Commit(u))
  /\ \A c \in Chats : WF_vars(ThreadSnapshot(c) \/ ThreadSnapshotCrashes(c))

FairSpec == Spec /\ Fairness

-----------------------------------------------------------------------------
(* Properties. *)

TypeOK ==
  /\ log \in Seq(Message) /\ Len(log) <= MaxMsgs
  /\ thread \subseteq 1..Len(log)
  /\ doc \in [Convs -> Doc]
  /\ outbox \in [Users -> Seq(Write)]
  /\ screen \in [Users -> {"home", "inbox", "crashed"} \cup Chats]
  /\ inbox \in [Users -> InboxState]
  /\ chat \in [Chats -> ChatState]
  /\ name \in [Users -> {"given", "coming", "none"}]
  /\ unsigned \subseteq 1..Len(log)

\* The app traps for two reasons only: around a deletion, in someone who has
\* opened a chat from the home feed (those screens have no inbox reference); or
\* in the inbox tab, once a member of one of the user's conversations, who may be
\* himself, has written before his display name had come.
CrashHasCause ==
  \A u \in Users : screen[u] = "crashed" =>
    \/ \E c \in Chats :
         /\ chat[c].owner = u /\ chat[c].isNewChat
         /\ \/ \E m \in 1..Len(log) : log[m].conv = chat[c].conv /\ m \notin thread
            \/ chat[c].selIds \cap chat[c].fresh # {}
    \/ inbox[u].loaded /\ \E m \in unsigned : u \in log[m].conv

\* A text that was delivered and still exists stays on the screen unless its
\* author has selected it: then any deletion in the conversation hides it.
DeliveredStaysShown ==
  \A c \in Chats : \A m \in chat[c].seen \cap thread :
    ~log[m].photo => m \in chat[c].shown \cup chat[c].selIds

\* Where a user deletes his messages, they go away: on the screen he looks at
\* no deleted message of his own is left once the removal has been delivered.
OwnDeletionsClear ==
  \A c \in Chats : OnTop(c) =>
    \A m \in chat[c].shown \ thread :
      log[m].from = chat[c].owner => m \in chat[c].seen

\* A conversation never has two rows, although it moves between the two
\* queries every time the other side answers.
ListedOnce ==
  \A u \in Users, k \in Convs :
    ~(inbox[u].recSide[k].listed /\ inbox[u].sendSide[k].listed)

\* Both listeners have delivered everything there is.
UpToDate(u) ==
  /\ inbox[u].sendOn /\ ~inbox[u].recDue /\ ~inbox[u].sendDue
  /\ RecResult(u) = inbox[u].recSeen
  /\ SendResult(u) = inbox[u].sendSeen

\* Then every conversation has the row its document calls for: the stale rows
\* the receiver listener accumulates have been replaced.
InboxConverges ==
  \A u \in Users : UpToDate(u) =>
    \A k \in Convs :
      (u \in k /\ Nameable(u, k) /\ View(u, k).sender # NoOne) =>
        RowOf(u, k) = IF View(u, k).sender = u THEN SendRow(View(u, k))
                                               ELSE RecRow(u, View(u, k))

\* The unread counter is copied between the document, the rows and the
\* inbox, and each copy may be stale; yet no copy ever exceeds the number of
\* messages sent.
UnreadBounded ==
  /\ \A k \in Convs : doc[k].unread <= Len(log)
  /\ \A u \in Users : inbox[u].unread <= Len(log)
  /\ \A u \in Users, k \in Convs : RowOf(u, k).unread <= Len(log)

\* With one correspondent, a user who has written from this screen and whose
\* inbox is up to date leaves the other's unread mark alone when he goes back.
ReplyKeepsMark ==
  \A c \in Chats :
    LET u == chat[c].owner IN
    (OnTop(c) /\ chat[c].linked /\ chat[c].isNewMsg /\ UpToDate(u)
       /\ View(u, chat[c].conv).latest = u) => inbox[u].last = u

\* Chat implements the message log: only authors retract, a screen lists only
\* messages of its conversation and drops only those of its own user.
Log == INSTANCE MessageLog WITH
         Screens <- Chats,
         viewer <- [c \in Chats |-> chat[c].owner],
         topic  <- [c \in Chats |-> chat[c].conv],
         listed <- [c \in Chats |-> chat[c].shown]
LogSpec == Log!Spec

\* Every text in a thread reaches the screen its reader stays on, unless it is
\* deleted, selected for deletion, or the app goes down first.
Delivery ==
  \A c \in Chats, m \in Ids :
    (m \in thread /\ ~log[m].photo /\ log[m].conv = chat[c].conv /\ OnTop(c))
      ~> (m \notin thread \/ m \in chat[c].shown \cup chat[c].selIds \/ ~OnTop(c))
=============================================================================
