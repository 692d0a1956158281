# Furnitura in TLA+

Furnitura (`src/Furniture`) is an iOS app: a furniture catalogue with a cart, an augmented-reality
scene to try furniture in, and a small social network around it (a feed of posts with likes,
comments and notifications, and one-to-one messages). Every social screen works the same way: it
attaches Firestore listeners in `viewDidLoad`, keeps arrays of its own that callbacks rewrite, and
writes documents that other devices' listeners see. There is no test suite; the modules here are
models of that code, checked with TLC, and the theorems about them are proved with TLAPS.

## The system

| part | state | operations | interacts with |
|---|---|---|---|
| Chat screen (`Chat/ChatViewController`) | `messages`, `newMessages`, `selectedMsgIDs`, `isNewMsg`, the progress overlay | send text / photo, select, delete, thread snapshot, image download | writes `inbox/<id>` and its `thread`; reads and writes the counters of the inbox tab through `inboxRef` |
| Inbox tab (`Chat/InboxBarViewController`) | `recChannels`, `sendChannels`, `selectedId`, `selectedInboxUnreadMsgs`, `selectedlastMemberID` | two listeners, open a row, read reset on return | `inbox` collection; hands itself to chat screens |
| Home feed (`HomeViewController`, `HomeCell`) | `postsArr`, `likedIds`, `savedIds`, cells that captured their section | posts listener, delete, message the author, like, save, comment | `posts`, `liked`, `saved`, `notification`; opens chat screens without an inbox |
| New post (`NewPostViewController`) | the chosen picture | upload, add document, notify | Storage, `posts`, `notification` |
| Comments (`CommentsViewController`) | `commentsArr`, one captured `tempComments` per listener, `isDelete`, `fetchingMore` | fetch on scroll, post, swipe to delete | `comments/<post>/comment` |
| Notifications tab (`NotificationViewController`) | `notificationArray`, filled by three nested listeners | callbacks that attach further listeners and merge | `notification`, which feed, comments and new posts write |
| Sign-up, login (`SignUpViewController`, `LoginViewController`, `AppDelegate`) | `currentUser` (kept by Auth), the screens on each other | create the user, store the document, give the display name; launch | Auth, `users` |
| Profile (`ProfileViewController`) | saved posts, the picture under way | load, upload and commit the picture, sign out | Auth, Storage, `users`, `saved`, `posts` |
| Catalogue, cart, checkout | the list and its copies, `Global.cart`, a quantity label | search, sort, add, plus, minus, check out | a bundled JSON file; no server |
| AR scene (`MainViewController`) | `isLoadingObject`, the shared `VirtualObjectsManager`, session configuration, planes | choose, load (background queue), place, restart, interruption | ARKit delegate callbacks, `TextManager` |
| `TextManager` | four timers, one alert, `schedulingMessagesBlocked` | schedule, cancel, escalate | presents alerts on the scene |
| Gestures (`Gesture.swift`) | `currentGesture` with its touches, thresholds, object and refresh timer | begin, update, finish | fed by the touch handlers of the AR scene, moves the selected object |

### What is hard here

* **Listeners against user actions.** Everything arrives on the main queue, but in an order the
  user does not control: a snapshot can run between a write and its completion, between opening a
  screen and its first data, or after the screen was left.
* **Copies.** The unread counter exists in the document, in the rows of two queries and in the
  inbox itself, and every copy is written back from some other one.
* **Captured state.** Cells capture the section they were made for; closures of Firestore listeners
  keep their screens alive, so a conversation that was left goes on reacting; every fetch of
  comments captures its own array.
* **Steps of one operation that fail separately**: upload, then document; document, then counter.
* **Completions that ask who is signed in** when they run and not when they were asked for, while
  Auth changes the user on a queue of its own.
* **Completions that repeat a removal** that the snapshot of the same deletion has already made.

### What would be correct

* Chat: what was delivered stays on screen, only authors retract, own deletions disappear, every
  text reaches the screen its reader stays on; counters never exceed what was sent; a reply keeps
  the other side's mark; a conversation has one row, and the right one once things are quiet.
* Feed: every post reaches everyone; a cell's menu acts on the post it shows; the like and save
  buttons lag, but never invent.
* Comments: none missing, none twice, newest first; the swiped row is the deleted comment.
* Scene: the buttons come back after every load and every restart; hints are held back exactly
  while an alert is on screen; one object is loaded at a time.
* Cart: an item is in it once, with a quantity from 0 to 10 and a total made of its own cost; the
  prices met on the way are those of the list.
* Notifications: what is meant for a user is listed once, whichever listener brings it; a like
  reaches its author; listeners stay few.
* Account: the name a user bears is the one in his document; nobody is left without a name but by
  a failure; nobody's picture ends up with somebody else while he is there.
* Gestures: a gesture reads only fingers that are on the view; it does not keep an old object for
  ever; a drag is no tap.

## Modules

| module | models | checked by |
|---|---|---|
| `MessageLog` | abstract: an append-only log with retraction, and screens that list parts of it | refinement target |
| `Chat` | chat screens and inbox tabs of several devices over Firestore | `MCChat` |
| `ChatProofs` | theorems about `Chat`, its refinement of `MessageLog` among them | TLAPS |
| `Feed` | the posts collection, feeds, and new posts | `MCFeed` |
| `FeedProofs` | theorems about `Feed` | TLAPS |
| `Marks` | like and save buttons of one device | within `Notices` |
| `Comments` | the comments screen and its pile of listeners | `MCComments` |
| `CommentsProofs` | theorems about `Comments` | TLAPS |
| `Noticeboard` | abstract: notices that are put up, and a reader who finds those meant for him | refinement target |
| `Notifications` | the notifications tab and its nested listeners | within `Notices` |
| `Notices` | composes `Marks` and `Notifications`; comments and new posts notify as well | `MCNotices` |
| `NoticeProofs` | theorems about `Notifications` and `Notices` | TLAPS |
| `Scene` | the AR tab: loading and placing objects, alerts, hints, restarts | `MCScene` |
| `SceneProofs` | theorems about `Scene` | TLAPS |
| `Gestures` | fingers, gestures, timers and the object they act on | `MCGestures` |
| `GestureProofs` | theorems about `Gestures` | TLAPS |
| `Basket` | abstract: items with quantities that enter, change and leave one by one | refinement target |
| `Cart` | detail, cart and checkout screens over `Global.cart` | within `Shop` |
| `Catalogue` | the furniture list, its search and its readings | within `Shop` |
| `Shop` | composes `Catalogue` and `Cart` | `MCShop` |
| `ShopProofs` | theorems about `Cart` (its refinement of `Basket`) and about `Shop` | TLAPS |
| `Account` | signing up, in and out, the profile, launch and end of the app | `MCAccount` |
| `AccountProofs` | theorems about `Account` | TLAPS |

### Firestore

Firestore is not part of the sources and is modelled from its use. A write shows in the writer's
own view at once (latency compensation) and on the server later, in the order the device issued
it. A listener delivers, when it gets to run, the difference between the present contents and what
it delivered before; it may merge changes. `Comments` is more exact: callbacks and completions go
through one queue in the order they were issued, with the contents of that moment, because there
the *number* of callbacks matters. Refused writes (security rules, which are not in the
repository) are not modelled.

### Chat

`log` is every message ever sent; a message is its index, which stands for `messageId` and
`sentDate` (`representation`, `<`). `thread` is the set whose documents exist. `doc` is
`inbox/<conversation>`; the id joins both uids, larger first, so a conversation is the set of its
two users. `outbox` holds the writes to `doc` a device has issued and the server has not applied
(`LastPending`, `View`). `inbox[u]` is the view controller of the tab: `recSide`/`sendSide` are its
two arrays, `acc` the captured array of the first listener (never emptied in the code), `sel`,
`unread`, `last` the three `selected…` fields. `chat[c]` is one `ChatViewController`; it stays in
use after `Back` because the closure at `ChatViewController.swift:103` retains it.

`name[u]` is the display name: given, coming, or none. Signing up presents the feed before the name
is committed (`NameCommitted`; see `Account`), and an app that ends before that leaves its user
without one for good (`Relaunch`). `save` writes the name of the moment, null if there is none
(`ChatViewController.swift:235`); such messages are `unsigned`, and since the document has no
message of its own, its timestamp says which one wrote its `senderName`. Both inbox listeners cast
the field to a string for every document of every snapshot, so a snapshot with one such document
takes the app down (`InboxCrashes`), whichever side wrote it, until a later message overwrites the
name. `HomeUsers`, `InboxUsers` and `NewUsers` are bounds: who ever writes from the feed, opens the
inbox tab, and has a name still on its way at first; the theorems hold for all of them.

| action | code |
|---|---|
| `ShowInbox`, `Back` | `viewDidLoad`, `viewWillAppear` with the read reset (`InboxBarViewController.swift:27-79`) |
| `OpenFromInbox`, `OpenFromHome` | `didSelectRowAt`; the feed's "Message", which leaves `inboxRef` nil |
| `SendText`, `PickPhoto`, `PhotoUploaded`, `UploadFailed` | `save`, `sendPhoto`, `uploadImage` |
| `Tap`, `Delete`, `DeleteCrashes` | selection and `action(sender:)`, with `inboxRef!` |
| `ThreadSnapshot`, `ThreadSnapshotCrashes`, `PhotoLoaded`, `PhotoNotLoaded` | `handleDocumentChange` |
| `RecSnapshot`, `SendSnapshot`, `InboxCrashes` | the two inbox listeners, with `senderName as! String` (`InboxBarViewController.swift:102,155`) |
| `Commit`, `Relaunch` | the server; a killed and restarted app |
| `NameCommitted` | the display name of a new user (`SignUpViewController.swift:123-136`) |

### Feed, Marks, Comments

In `Feed` a post is its timestamp; `section[u]` holds what each cell captured. `Delete` is the
"Delete" entry, which uses the *row* (always 0) and so deletes the first post; `Deleted` is its
completion. `Message` looks the captured section up in the array of now. `Submit`, `Uploaded`,
`Announce` are the three stages of `addPost`.

`Marks` keeps what Firestore stores, the single reading of it, and the buttons. Making cells again
(`Answer`, `Reload`, `Scroll`) sets buttons from the reading. A feed can outlive the session of its
user: after signing out, `Back` leads to it again, and a late sign-in can put somebody else behind it
(`Account`). So `user` is the one who loaded the feed, another, or nobody (`Become`). `Press` does
what the code does in its order: it inverts the button, then returns if there is no user
(`HomeCell.swift:146-148`, `186-188`), and otherwise stores the new look for the current user, not
the one who loaded the feed. A like that turns on sends a notification to the author of the post.
`stored` is what is stored for the one who loaded the feed; `astray` is a history, the buttons whose
last press was not stored for him.

In `Comments`, `temp[l]` is the array captured by listener `l`; `mainQueue` the callbacks issued.
`shown` is `commentsArr`, `table` what the rows display: the completion (`Completed`) shrinks the
first and not the second. `Delete` traps when they differ, as `UITableView` does. A comment posted
on a screen whose user has gone has a null `senderID` (`unsigned`), which every callback that finds it
unwraps (`SnapshotCrashes`, `CommentsViewController.swift:161,167`); the text and the timestamp are
always written, so their unwraps cannot fail. The list of a
snapshot and the taking out of a comment are written with `Nth` and `Kept`, the n-th of a set and
what a set of positions leaves of a list, rather than with a sorted sequence and `SelectSeq`: the
provers can say what the former contain.

### Notifications and Notices

The screen asks three times, and each question is asked by a callback of the one before: a callback
of the listener for "All" attaches one for "All Managers", whose callback attaches one for the
user's own. Nobody ever writes to the managers, so theirs is called once, with nothing
(`ManagersCalled`), and only the number of those still to be called matters. Each listener has an
array of its own, `docs`; since nothing is deleted it holds what the query found when it was last
called. `rows` says how often `notificationArray` holds each notification: it is sorted at every
change, so its order carries no information. `Merged` is the removal of equal timestamps followed
by the append. `named` is whether the sender had a display name; without one the field is null and
`as! String` ends the app (`Traps`). That a missing name is the only thing that traps is the shape of
`Traps` and no property of its own; what the trap costs is in `EveryoneTold`. The user of this device is
taken to stay signed in; the one who presses buttons on the other device is not.

A notification takes its timestamp when it is made (`Notify`) and arrives later (`Arrive`), in any
order: a new post's waits for the upload of the picture. Two notifications of one timestamp are not
modelled. The screen drops notifications whose `senderID` is its user, but no writer sets
`senderID`, so nothing is ever dropped and the model has no such filter.

`Notices` puts the buttons of one device beside the tab of another. `Press` is `Marks`' own `Press`
joined with `Notify`, which happens only if somebody is signed in to send it; `Comment` and `NewPost` are the notifications of the comments screen, of the
field in the feed, and of `addPost`. A sender has a name or not at each call, since a name can come
later (see `Account`).


### Scene

Two threads: `loadVirtualObject` puts a block on a global queue, which is concurrent and may run
several, and that block puts another on the main queue. `stage[o]` says how far object `o` is
(`queued` and `loading` are the first block not begun and begun, `loaded` the second waiting).
`selected` is `virtualObjectSelected` of the shared manager, written from the first block. The
session's delegate calls arrive on the main queue.

| action | code |
|---|---|
| `ShowTab`, `LeaveTab` | `viewDidAppear`, with its hint; another tab |
| `OpenChooser`, `CloseChooser`, `Choose` | `chooseObject`, the popover, `didSelectObjectAt` |
| `Begin`, `Loaded`, `Place` | the two blocks of `loadVirtualObject`; `setNewVirtualObjectPosition` returns early without a frame |
| `PlaneAdded`, `FocusFound`, `HintShown` | what schedules, cancels and ends hints |
| `TrackingChanged`, `EscalationFires`, `AnswerEscalation` | `cameraDidChangeTrackingState`, `escalateFeedback` and the two buttons |
| `Interrupted` ... `AnswerFailure` | `sessionWasInterrupted`, `sessionInterruptionEnded`, `didFailWithError` |
| `AskRestart`, `RestartRuns`, `PauseEnds` | `restartExperience`: its guard, its block, its five-second timer |

UIKit is modelled from its contract: one thing is presented at a time, a further request is
dropped (`Present`). `held` tells whether `TextManager.alertController`, the alert made last, is
the one on screen, since that is the one a restart dismisses. The guard of `restartExperience` is
tested when it is called and not when its block runs, so restarts and loads cross freely.

### Gestures

Positions are left out. What the code computes from them is a choice: how far each movement is from
where the gesture began (`Levels`: below the threshold, beyond it, beyond the harder threshold used
once another movement has passed), whether the hit test met the object, and which movements the
two fingers may make. `Feed` is `updateGestureFromTouches`: the touches either fit the kind of the
gesture, and it is updated, or it is finished and, if it was one of a single finger, handed on to a
new one with the *old* object (`Following`). `Tick` is the refresh timer. `Select` is the line in
the background block of a load that selects another object in the middle of all this. `before` and
`movers` are histories: the fingers that were down when the object was selected, and those that
have moved one. Where the object goes is not modelled.

### Cart

`cart` is the list of rows; `label` the quantity the detail screen shows, kept while the cart
screen lies on top of it. `Requantify` is "add" for a piece that has a row: it sets the quantity
and leaves the total, so the two disagree until a plus or minus; this is why `TotalAtOwnCost` does
not name the quantity. `Open` picks any cost for the name because the catalogue draws costs at
random whenever it is read. Ordering leaves the cart as it is. `Basket` is what remains when cost,
total and order of the rows are forgotten.

### Catalogue and Shop

`beerData` is what the table shows, `searchArr` the copy taken when the search field is entered,
`beerArrRef` the rows as they were read. A text is the set of the names that contain it. `Fetched`
draws a cost for every name; `viewWillAppear` does it only when no row was left (`Appears`). In
`Shop` a detail is opened from a row (`Select`), the list is out of reach while another screen
covers it (`Above`), and it appears again when the last of them goes (`Uncover`). Sorting changes
only the order of the rows, which is left out; the filter is set by no screen that can be reached.

### Account

Auth changes `currentUser` on a queue of its own and then calls the completion on the main queue
(`Pods/FirebaseAuth`, used here only as a contract). `LetIn` is the change, `SignedUp` and
`SignedIn` the completions, and anything may happen in between: another sign-in, a sign-out, the
end of the app. `calls` counts the requests, since the buttons stay on; `answered` holds those whose
completion is queued.

A sign-up has four steps after the tap: the account (`LetIn`), the completion that reads the fields
and sends the document (`SignedUp`), the document stored (`Stored`, whose completion is then queued
as `block`), and that completion, which asks who is signed in and gives *him* the display name
(`BlockRuns`, `Committed`). Firestore sends a user's writes only while he is signed in (`Stored`
needs `session = r.of`) and hears of a change of user no later than that change's completion; so the
name goes astray only if another user comes in while `block` is queued. Those users are `crossed`,
and `OwnName` excludes exactly them: without the exception TLC finds the case.

`screens` is the stack of screens. Signing out *pushes* the start screen on the profile
(`popToRootViewController` has nothing to pop there, and the button's segue pushes), so `Back`
leads to a home and a profile without a user; their next tap unwraps nil. A completion presents
home only if its own screen is on top (`PresentHome`); `at` is that screen, 0 once it is gone.
`Relaunch` is the end of the app at any moment: completions are lost, while any part of Firestore's
queued writes may be kept (`Filled`). `cut` remembers whose sign-up was ended so, by an error or by
a trap. The pictures are `Pick`, `Uploaded`, `PictureCommitted`; the last writes to the document of
whoever is signed in then. The progress overlay covers only the profile's own view, so it keeps
nobody from going back and choosing another picture while the first is under way: `Pictures` is the
bound on those, as pairs of a user and a number. A post can be saved that was deleted meanwhile,
since a feed may still show it (`ToggleSaved`).

Left out: the checks of the fields, the notification counter (written at sign-up, read by nothing),
the `photoURL` kept by Auth, the user's own posts in the profile, a query that fails (`snapshot!`),
and signing out while a notifications screen is listening.

## Runs

| run | bounds | shows |
|---|---|---|
| `chat_inbox` | 2 users, both names still coming, 2 screens, 2 messages, 1 pending write, one user with an inbox, the other writing from the feed | the seven safety properties of chat and inbox |
| `chat_log` | 1 message, 1 upload, one app that may be killed | every step is one of `MessageLog`; a text reaches the screen its reader stays on |
| `feed_list` | 2 devices, 3 posts, 2 deletions each | list, cells and conversations |
| `feed_live` | 2 devices, 2 posts, 1 deletion each | every post reaches everyone |
| `comments` | 3 comments, 2 listeners, 2 deletions | list and rows; comments get listed |
| `notices` | 2 posts of 2 authors, likes, 2 notifications, signing out | listeners, nothing missing, buttons; a like reaches its author; refinement of `Noticeboard`; everyone is told unless a name is missing |
| `scene` | 2 objects, 2 restarts queued or pausing | loading flag, alerts, the pause of the button; every load gives the buttons back |
| `scene_loads` | 2 objects, 1 restart | a comment contradicted: two loads at once |
| `scene_blocked` | 2 objects, 1 restart | a comment contradicted: hints blocked without an alert |
| `shop` | 2 pieces, 2 costs, quantities to 2, 2 readings | totals, prices, refinement of `Basket` |
| `gestures` | 4 fingers, 3 objects | touches, objects and taps of gestures |
| `account` | 2 users, one of them new; 1 post; 2 pictures of the new one; 2 requests at a time; 4 screens | traps, names, pictures; a name comes |

Types are part of `feed_list` and `comments`. In the other modules the type invariant is a theorem
(see below) and is not checked again. The same goes for `OneRow`, `CartSpec`, `SelectedShown`,
`OneTimer`, `OneEasy` and `LikesAnnounced`, which TLC agreed to before they were proved: no run
repeats them.

Bounds are constants named in the modules (`MaxMsgs`, `MaxOutbox`, ...). Two messages are enough
for every race in chat: one in flight against one counted, selected or removed. `chat_log` has
one, since liveness needs the graph without symmetry; that chat implements `MessageLog` is also proved,
for any number (`LogHolds`). `chat_inbox` has one user who opens the inbox and one who writes from the
feed, which gives each cause of `CrashHasCause` and either author of a nameless message; names that
are lost for good need a relaunch, which happens there after a trap. Two screens give a
user one that was left and one that is open, or one on each side. Three posts give a cell a
neighbour on either side; two deletions let completions cross. Two listeners are the least that
can disagree. Two objects are a load and the one that overtakes it, two restarts a pause and the
one that cuts it short. Two notifications are one for everybody, which multiplies the listeners,
and one for the user, which each of them hands over; or two that arrive in the other order. Guests
are there just nobody, since with another user as well the run takes too long: what that one presses
differs only in that it is announced, and the theorems are about both. The new user may have two
pictures under way. Two
pieces are a row and its neighbour, quantities 0 to 2 have both ends and a middle, and two readings
are two costs of one piece. Four fingers are the least that end a gesture of two by a third and
leave one over; three objects are one kept, one handed on and one selected. Two requests are a
sign-up and what crosses it; four screens are a stack with a signed-out start screen on top of a
profile. Symmetry is used in `chat_inbox` and `feed_list` only, which check no liveness. Runs with
`CHECK_DEADLOCK FALSE` stop only when a bound is used up.

**Fairness.** Users do nothing they do not choose to, so no user action is fair. Firestore keeps
sending writes (`Commit`) and the SDK keeps calling listeners back on the main thread, which never
blocks: `WF` on the snapshot actions, with trapping as an alternative. `FairSpec` is used in the
runs with a liveness property (`chat_log`, `feed_live`, `comments`, `notices`, `scene`, `account`).
Safety does not rest on it, and the theorems are about the specifications without it. In
`Account` only what was asked of Firebase is answered, and its completions run (`Completion`); a
sign-in may stay unanswered. In `Scene` the blocks of each load are fair (`Begin`,
`Loaded`, `Place`): Grand Central Dispatch runs every block it was given, and loading a model from
the bundle returns.

### What the code does not keep

* `scene_loads`: `chooseObject` says it aborts "to avoid concurrent modifications of the scene"
  (`MainViewController.swift:97`), but the flag it tests is set by the background block
  (`MainViewController.swift:493`). Until that block runs the chooser opens again, and two objects
  are loaded at once. `SelectedShown` (proved) and `FlagMeansLoading` still hold.
* `scene_blocked`: `TextManager` names as the reason not to schedule that "a feedback escalation
  alert is still on screen" (`TextManager.swift:58`), but sets `schedulingMessagesBlocked` before
  presenting (`TextManager.swift:104`). When the chooser is open the alert never appears, and when
  a restart dismisses it no button is pressed; hints then stay blocked.

Other things a user may wonder at contradict no comment, and no run calls them a violation: a
total in the cart can be that of an earlier quantity (`FurnitureDetailViewController.swift:85`), an
order leaves the cart full, the comment button of the feed always means the first post, a user who
signs in at the wrong moment can get another's display name (`crossed`), and one whose sign-up was
cut short never gets one, which makes the app of everyone he then notifies trap at each start.

## Proofs

Every safety invariant that a passing run checks, and all three refinements, are theorems as well.

`ChatProofs` is about any number of users, screens, messages and pending writes. Types alone are not
inductive: sending from a screen uses its conversation, so `TypeInv` adds `OnConv` (a screen in use
is on a conversation).

* `ListedOnce`: each callback takes off one side what it puts on the other.
* `UnreadBounded`: copies flow document → listener → rows → inbox → pending write → document, so
  the invariant (`UnreadInv`) bounds all of them by `Len(log)`; `log` only grows.
* `DeliveredStaysShown`: with `seen` below `Len(log)` (`DeliveredInv`), since a message that left
  the thread never returns (`GoneForGood`), every action either renews a screen or keeps
  `seen ∩ thread` inside what is shown or selected.
* `CrashHasCause`: screens opened from the inbox are linked (`ScreensInv`), so a trap around a
  deletion has a screen from the feed as its witness. Wherever a timestamp is kept or on its way, on
  the server or in a pending write, it is that of a message of the same conversation (`FiledInv`),
  so a null name in the inbox has a message of one of the user's conversations as its witness
  (`NulledCause`). Either reason lasts (`CauseStays`).
* `LogSpec` (`LogHolds`): `ListsChange` says what a step can do to the lists of a screen (keep them,
  empty them, move one message, deliver a snapshot); with `ListsInv` (lists hold messages of the log,
  only own ones are selected) and `MembersInv` (only members write in a conversation) each is a step
  of `MessageLog` or a stutter.
* `OwnDeletionsClear`: a message goes only by being selected on the screen in front of its author
  (`GoneBySelection`); from then until the snapshot it is selected there and not yet delivered as
  gone (`ClearInv`), and the snapshot takes everything selected off the list.
* `InboxConverges`: the argument is about dates. A message is dated as it is sent, so what a device
  still holds back is newer than everything of its user on the server or delivered (`DatesInv`), and
  what the server has overwritten never comes back (`SupersededStays`). A row therefore shows what
  its listener delivered last, unless the sender listener took it over, and then the document that
  the receiver listener knows is superseded and it has news to come (`RowsInv`).
* `ReplyKeepsMark` has a premise, `OneCorrespondent` (there is one conversation): with several, the
  last assignment of the loop over all of them decides `selectedlastMemberID`, and the property
  says of itself that it is about one. `FollowInv` says that behind a screen its user has written
  on, the inbox has the last member of what the sender listener delivered, or that delivery is
  `Outdated`, which it stays (`OutdatedStays`); an inbox that is up to date is not outdated.

`FeedProofs` is about any devices, posts and deletions. The deletions of a device are what makes the
list and the cells disagree, so `QuietInv` says of a user without any that no completion is due and
every cell has captured the section its post is in (`Rendered`); `AddedInv`, that whatever exists or
was shown has been added, which is stable. `CrashCause` and `RightPartner` follow by them.
`LostOnlyNewest` is inductive: a completion drops the entry that is first by then, and entries are
in the order of time.

`CommentsProofs` is about any number of comments, listeners and deletions. First `Nth` is shown to
list each member of a finite set of numbers once, in order; the newest-first order of a snapshot and
the effect of `Without` follow. `QueueInv` treats the main queue as an event log: what exists of a
snapshot, or of any list of the screen, is in every later snapshot, the last snapshot holds
everything there is, and without one everything is shown. That is what makes `NothingMissing`
inductive although the flag `isDelete` lets whichever callback comes first forget its list. A callback
that trips over an unsigned comment leaves all this as it was; what was posted unsigned stays
(`UnsignedStay`), which is the cause `RowsMatch` names.
`InOrder` is `ListsInv`: no list has a comment twice, and those that exist come newest first.

`SceneProofs` proves the types and four invariants of `Scene` for any set of objects and any number of
restarts. Types are not inductive: the second block adds what is *selected*, so the invariant
(`SceneInv`) adds `SelectedByThen`, that something is once any object is being loaded. The others
are inductive over types, one step per action that touches them; `FlagMeansLoading`, for one,
because `Begin` sets the flag with its own stage and `Place` clears it whatever other loads run.

`ShopProofs` first proves types, `OneRow`, `TotalAtOwnCost` and the refinement of `Basket` of `Cart`,
for any catalogue, costs and limit. Three
lemmas on lists of rows without repeated names say what replacing, appending and taking out a row
do to the list and to the quantities it stands for (`Replaced`, `Appended`, `TakenOut`);
`StepEffect` says every step is one of these or leaves the rows alone. The invariant (`CartInv`)
and the refinement `Spec => BasketSpec` then follow by these cases, and the actions are opened
once.

It then shows that every step of `Shop` is one of `Cart` or leaves it alone (`CartHolds`), so
that `Cart`'s theorems hold whatever the list does. For `PricesAgree` the invariant says that all
copies of the list are rows of the last reading (`ShelfInv`) and that with one reading every row of
the cart is too (`FirstCosts`).

`GestureProofs` proves types and five properties for any fingers and number of objects. Its
invariant (`GestureInv`) is the conjunction of types, `TouchesFit`, `OneTimer` and
`OldObjectOldFinger` with two facts: a gesture is `Sound` (which gives `OneEasy`), and the finger of
a drag that has not passed its threshold has moved nothing (`NoMover`, which gives
`NoTapAfterMove`). `BegunGood`, `FedWell` and `FedKeeps` say what a new and a fed gesture is like,
and each handler is then a lemma of its own.

`NoticeProofs` is about any users, posts and number of notifications. `ScreenInv` says what each
listener has put in is listed, and counts the listeners: every callback for "All" after the first
had at least one more result than the one before, which bounds them (`ListenersBounded`).
`BoardHolds` is the refinement of `Noticeboard`: each callback is one `Find`. For the composition,
`ImplementsTab` shows `SocialSpec => Spec`, so that all of this carries over (`SocialMissesNothing`
for `NothingMissing`), and `MarksInv` with `LikesKeep` gives the buttons, whoever comes and goes. `LikesReach` joins them: `Marks` counts no notification that was not
written (`SentInv`), and a screen that has caught up lists what was written for its user.

`AccountProofs` is about any users and bounds. `Names` is the invariant behind `OwnName`: while a
sign-up is on its way its user has no name yet, only one of its stages exists, and from the moment
the document is stored it holds the name that is going to be given; each of these but for users who
crossed. `NamedOrCut` follows a sign-up from stage to stage. `Calm` says that before anybody has
come or gone there is nothing to trap on (`Quiet`), which makes `TrapCause` inductive, and
`Deserters` does the same for `StrayPicture`: a picture under way is its signed-in user's or has been
deserted, picture by picture.

Assumptions: only those of the modules (names are distinct; bounds, costs and the limit are
naturals; `None` and `All` are no users; posts are finitely many and have authors), and
`OneCorrespondent` for `ReplyKeepsMark` alone. Checked by TLC and not proved: all liveness
(`Delivery`, `EveryoneSees`, `CommentsShown`, `LoadsEnd`, `EveryoneTold`, `NameComes`), which is
beyond the prover, as are `ENABLED` and recursion.

## Not modelled

* Filters (its segue is never performed) and the settings of the scene (the storyboard has no such
  scene): neither can be reached.
* Geometry over floats, drawing, layout, the look of cells: nothing a finite model could say.
* Siri intents: stateless answers. Siri's and the pods' code is third-party or generated; the pods
  make up nearly all lines of the repository, and the models take only their contract from how the
  app uses them.
* Search in the inbox, sharing a post, the media viewer, the address form: they read and change
  nothing another part sees.
* The text of the comment field: `endEditing` before the answer posts the same comment twice
  (`HomeViewController.swift:303`), and the field always belongs to the first post; no text of the
  repository says what is meant, so there is nothing to check them against.
* The cart of the user before: `Global.cart` survives signing out, but nothing relates the two.

## Plan

1. Queries that fail (`snapshot!`, `try!`) and writes that security rules refuse.
2. Two screens of one kind at a time: two profiles, two notification tabs after a sign-out.
3. The user's own posts in the profile, over `Feed`.
4. Proofs: what liveness rests on, as far as it is safety: that a fair step is enabled while a
   delivery is owed, stated without `ENABLED`.
