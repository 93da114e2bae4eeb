# Message-App-Swift: specifications, model checking, proofs

Message-App-Swift is an iOS chat application (Swift, UIKit) on Firebase: users
find each other, ask for friendship, chat in pairs or in groups, send voice
messages and post to a wall. All data live in Firestore documents; the app has
no server code of its own. Everything that can go wrong between two users goes
wrong through the Firestore client library, whose source is vendored in
`Project_001/Pods/FirebaseFirestore`. The specifications therefore have three
layers: `GrpcStream.tla`, the stream to the backend that the client runs its
RPCs over; `Firestore.tla`, the part of the client every screen relies on, both
translated from the vendored source; and one module per group of screens on top
of it, translated from the Swift source. What pairs of users rely on is stated
apart from all this, in `MessageLog`, `Feed` and `Duplex`, and the modules are
shown to implement it.

All paths below are relative to `src/`; `Project_001/Project_001` is written
`App`, and `Project_001/Pods/FirebaseFirestore/Firestore` is written `Pod`.

## 1. Inventory

| Component | State | Operations | Hard behaviour | What makes it correct |
|---|---|---|---|---|
| Firestore client (`Pod/Source/Local`, `Pod/Source/Model`, `Pod/core/.../remote`) | per device: cached documents, mutation queue on disk, writes the worker has yet to put there, two streams | `setData`, `delete`, snapshot listeners, write stream, watch stream | every write is sent at least once; answers and watch events race; views show queued writes on top of the cache; each write is persisted by a task and a transaction of its own | a user's own data neither flickers nor diverges from the backend |
| RPC stream (`Pod/core/.../remote/grpc_stream.cc`, `grpc_completion.cc`) | pending completions, buffered writes, the gRPC call | start, write, finish, write and finish, callbacks of completed operations, connectivity monitor | three threads; completions outlive the stream that issued them; the worker waits in the middle of a task | nothing is used after the stream is destroyed, gRPC's rules are kept, the observer is told everything once and in order |
| Backend | documents | commits writes, tells listeners | not in the repository | external: accepts every write, keeps the order of each device's writes |
| Chat screen (`App/ChatViewController.swift`) | `keys`, `who`, `array`, `audio`, `sarray`, `timestamp`, `roomMember`; global `cacheMessage` | `viewWillAppear`, `buffercleaner`, `finishEditing`, snapshot callback, `Back`, the end of a recording's upload | listeners are never removed; three writes per message, which a kill may cut; the transcript is appended from several listeners; an upload ends wherever the user is by then | no message that got to disk is lost, both copies agree, the transcript is the conversation, in order, without repetition |
| Friend list and badges (`App/RecentViewController.swift`) | globals `listOfFriends`, `listOfId`, `listOfType`, `bufferChat`, `bufferGroupChat` | listeners of Friends, FriendRequestFrom, Buffer and ChatBuffer; row selection; search by name | callbacks are queued on the main thread and overwrite what the chat screen has just changed | badges are the buffer document's, a sender never clears one |
| Friend request list (`App/ContentViewController.swift`) | table rows; global `friendSelectedInformation` | `viewWillAppear`, row selection | rows are a copy and go stale | only what was a request is answered |
| Answering (`App/FriendRequestViewController.swift`) | `requestWithId` | `agreeClicked`, `disagreeClicked` | four (two) writes to documents of two users, each persisted alone | friendship is mutual, and by consent |
| Asking (`App/SearchResultProfileViewController.swift`) | `searchWithId` | `sendFriendRequest` | two writes; repeated requests cross answers to earlier ones | a pending request can be answered |
| Search results (`App/SearchResultViewController.swift`) | global `searchResult`, `searchInformation` | row selection | none | - |
| Group chats (`App/StartGroupChatViewController.swift`, group branches of the chat screen) | selection, `Group/<id>`, `ChatBuffer/<id>` | creation, fan-out, group messages | the fan-out runs after the answer; `roomMember` may not have arrived; the badges are written in a later turn of the main thread | whoever lists a group finds it, every member whose entry got to disk is told of it, a badge has a message behind it |
| Sessions (`App/LoginViewController.swift`, `App/AccountViewController.swift`) | signed-in account; globals | sign in, sign out | listeners and globals survive the account; answers come after the user has signed out | the badges on screen are some signed-in account's |
| Sign up (`App/SignupViewController.swift`) | account, profile, buffer document | sign up | the account exists before its documents, whose writes may be cut by a kill, or left in its queue by a kill or a sign-out | sign-up whose writes got to disk is finished in the end, and its buffer document never ends the app again |
| Discover (`App/DiscoverViewController.swift`, `App/DiscoverSendViewController.swift`) | `MyBlog`, `FriendBlog` | post, listen | one write per friend in a list that may be stale; friendships half written | those the author lists, and only they, see a post |
| Globals (`App/Information.swift`) | everything the screens share | - | written by callbacks of several screens | - |
| Application delegate, tests, vendored libraries | - | - | - | not modelled (section 8) |

Interaction: screens share the globals of `Information.swift`; users interact
only through documents. The documents a device writes but does not own are the
crucial ones: a sender writes the receiver's `Conversation` and `Buffer`, an
answer deletes and creates documents of both users.

`PROJECT.json` lists the hazards at their lines; section 4 says which run looks
at which.

## 2. Modules

| Module | What it is |
|---|---|
| `Firestore` | the client and the backend it talks to: state, actions, types; no specification of its own, the modules below take it with INSTANCE |
| `FirestoreClient` | devices that write anything in any of the ways the app does; the client's own properties |
| `Chat` | one-to-one chats and badges over `Firestore` |
| `MessageLog` | what two people who chat rely on: a log with two copies; `Chat` implements it |
| `FriendRequest` | requests and friendships over `Firestore` |
| `GroupChat` | groups, their messages and badges over `Firestore` |
| `Session` | signing up, in and out on one device, and what it does to badges, over `Firestore` |
| `Discover` | posts to friends over `Firestore` |
| `Feed` | what the users of Discover rely on; `Discover` implements it |
| `GrpcStream` | one RPC stream between three threads |
| `Duplex` | what `grpc_stream.h` promises of it; `GrpcStream` implements it |
| `MCFirestore`, `MCChat`, `MCFriendRequest`, `MCGroupChat`, `MCSession`, `MCDiscover` | constants for TLC (`GrpcStream` needs none) |
| `FirestoreLemmas` | what the operators and actions of `Firestore` return and keep (proved) |
| `FirestoreClient_proofs`, `FriendRequest_proofs`, `Chat_proofs`, `GroupChat_proofs`, `Session_proofs`, `Discover_proofs`, `GrpcStream_proofs` | the theorems |

### Firestore

A document is a set of fields, a field a record with a `key`; a mutation
replaces the keys it names (`merge: true`) or the whole document
(`merge: false`); a deletion replaces it by nothing.

| TLA+ | Source |
|---|---|
| `remoteDocs[d]` | remote document cache of `FSTLocalStore`, on disk |
| `mutationQueue[d]` | mutation queue of `FSTLocalStore`, on disk, and behind it the writes for which the worker has a block still to run |
| `persisted[d]` | how many of these writes are on disk |
| `LocallyWrite` | `setData`, `updateData` and `delete`, one call per write: each leaves a block for the worker (`FSTFirestoreClient writeMutations:`) |
| `Persist` | the worker runs the next block: one write, one transaction (`FSTSyncEngine writeMutations:`, `locallyWriteMutations:`) |
| `OnDisk`, `CutOff` | what the next launch finds of the queue (`startMutationQueue`), and what a kill has cut off it: the screens' relaunch actions use them |
| `LocalView`, `View` | `LocalDocumentsView::GetDocument`, `FSTMutationBatch applyToLocalDocument:` |
| `Commit` | `RemoteStore::FillWritePipeline` and the backend: writes that are on disk are sent, and committed, in queue order |
| `Acknowledge` | `applyBatchResult:`: the write leaves the queue and is applied to the cached document, unless the cache holds a version at least as new |
| `RestartStream` | `OnWriteStreamClose`, `AddToWritePipeline`: all that is in the queue is sent again |
| `Watch` | `applyRemoteEvent:`: the cached document is replaced |

A kill keeps none, some or all of a tap's writes, always a prefix: the worker
takes its blocks in the order of the calls. What is cut off is remembered in the
history variable `lost`, so that a property can say exactly which losses a kill
may cause. Section 7 says why a view includes a write from the tap on although
the worker has still to run it.

`applied[d]` is how many writes of the queue the backend has committed since
the stream was opened, and `caughtUp[d]` says which of them the cached document
already includes: together they stand for the version numbers the client
compares. `Watch` always brings the current state of the document; a delayed
watch event is a `Watch` that ran early followed by other steps, except that
the device cannot see an intermediate state after a later one, which the
library's version comparison excludes.

`FirestoreClient` lets every device write every mutation to the documents
`Writers` gives it. `SoleWriterViewIsStable` and `SoleWriterIsInSync` are about
documents only one device writes, such as a user's `MyBlog`: with several
writers an echo may legitimately move the view.

### Chat

| TLA+ | Source |
|---|---|
| `OpenChat` | `RecentViewController.tableView(_:didSelectRowAt:)`, then `ChatViewController.viewDidLoad/viewWillAppear` with `buffercleaner` and `addSnapshotListener` |
| `Back` | the storyboard's segue from the chat to a new tab bar with a new `RecentViewController`, whose `viewDidLoad` adds its own listener |
| `FinishEditing` | `finishEditing`: `Buffer` of the receiver, own `Conversation`, receiver's `Conversation` |
| `VoiceUploaded` | the closure of `voiceButtonPressing`'s upload: the three writes of `finishEditing`, from a controller opened earlier, on screen or not |
| `ConversationCallback` | the closure of `ChatViewController.viewWillAppear` |
| `BufferCallback` | the closure of `RecentViewController.listener()` for `ChatBuffer/Buffer` |
| `listeners[u][c][i]` | the `keys`, `who`, `array` of the i-th `ChatViewController` on chat c since launch: its listener is never removed and keeps it alive |
| `cacheMessage`, `bufferChat` | the globals of `Information.swift` |
| `mainQueue[u]` | callbacks the Firestore worker has dispatched to the main thread |
| `Relaunch` | the process is killed and launched again: the cache and what is on disk of the queue survive, nothing else does |

`Fresh` is the loop of the conversation closure. The closure tests whether the
*global* cache has the key but appends to the controller's *own* array and then
replaces the global by that array, so that after the first row that is missing
in the global, the test is against the own array. `Fresh` states which rows are
appended, `Ascending` in which order.

A message is `[key, from]`: the timestamp and the sender. The text, or the
address of the recording, is determined by them. Uploads in progress are not
counted: one may end at any time after its chat was opened, which allows every
order of uploads, texts and visits, and a kill forgets the controllers and with
them the uploads.

### FriendRequest

| TLA+ | Source |
|---|---|
| `SendFriendRequest` | `sendFriendRequest`: `FriendRequestTo` of the asker, `FriendRequestFrom` of the asked |
| `RequestsCallback` | the closure of `RecentViewController.listener()` for `FriendRequestFrom` |
| `ShowRequests`, `SelectRequest` | `ContentViewController.viewWillAppear`, `didSelectRowAt` |
| `AgreeClicked` | `agreeClicked`: two deletions, then the friendship on both sides |
| `DisagreeClicked` | `disagreeClicked`: the two deletions |
| `asked`, `agreed`, `lost` | history variables the properties refer to |

`AccountViewController.listener()` and `LoginViewController.listener()` make the
same assignments from the same queries as `RecentViewController.listener()`, so
that one callback action stands for them.

### GroupChat

| TLA+ | Source |
|---|---|
| `StartGroupChatNow` | `startGroupChatNow`: `addDocument`, then the segue |
| `GroupAdded` | the completion of `addDocument`, on the main thread: one write per list |
| `OpenRoom`, `RoomMemberArrives` | `buffercleaner` in a group: `getDocument` and its closure, `groupBuffer.delete()` |
| `FinishEditing`, `VoiceUploaded`, `WriteBadges` | the group branches of `finishEditing` and of the upload's closure; the block they leave on the main queue |
| `GroupBufferCallback`, `BadgeOf` | the closure of `chatGroupbuffer.addSnapshotListener`, which builds a new dictionary for every document |
| `awaiting[u]` | completions of `addDocument` the client will call, each with the group and the friends it captured; lost with the process |

### Session

One device. The client keeps a mutation queue per account and one cache; each
account is a "device" of `Firestore` of which only `clientUser`'s is sending.

| TLA+ | Source |
|---|---|
| `LoginClick`, `SignupClick`, `OtherScreen` | the two screens and the buttons between them |
| `Answer` | `FIRAuth updateCurrentUser:`: the user is current, the client is notified, then the closure runs |
| `SignedIn`, `Created`, `SignedUp` | the closures of `signIn`, `createUser` and the profile's `setData` |
| `SignOut` | both sign-out buttons |
| `CredentialDidChange` | `FSTSyncEngine credentialDidChangeWithUser:`: another queue is opened, listeners are told |
| `NewTabBar` | `RecentViewController.viewDidLoad`, which adds a listener for the account of that moment |
| `BufferCallback` | the closure of the buffer's listener, with the forced cast that may end the app |
| `OpenChat` | `buffercleaner`'s replacement of the buffer document |

Here, unlike elsewhere, a missing document and an empty one differ (`Exists`).

### Discover

| TLA+ | Source |
|---|---|
| `AgreeClicked` | the two `setData` of `agreeClicked`, behind its deletions, which FriendRequest has |
| `FriendsCallback` | the closure of the Friends listener, which fills `listOfId` |
| `SendStory`, `Story` | `sendStoryClicked`: `MyBlog`, the own `FriendBlog`, then each friend's, one call each |
| `Lists`, `Cut` | what `Feed` calls `lists` and `cut`: whose list at the backend names whom, and which copies of posts a kill has cut off |
| `BlogCallback` | the closure of `DiscoverViewController.viewDidLoad` |

### GrpcStream

| TLA+ | Source |
|---|---|
| `ops` | the operations given to gRPC, each with its `GrpcCompletion`: with gRPC, completed, taken off the queue (the promise), queued for the worker |
| `completions`, `buffer`, `activeWrite`, `callFinished` | `completions_`, `buffered_writer_`, `is_grpc_call_finished_` |
| `worker` | where the worker is in a task: a wait for promises splits a task in two, and the other threads go on in between |
| `Start`, `Write`, `Stop`, `StopWithLastWrite` | what `Stream` calls: `Start`, `Write`, `FinishImmediately`, `WriteAndFinish` |
| `ConnectivityChanged` | the callback of `GrpcConnection::RegisterConnectivityMonitor`: `FinishAndNotify` |
| `OnRead`, `OnWrite`, `OnFinish`, `OnOperationFailed`, `CancelledTask` | the task `GrpcCompletion::Complete` queues, by what its callback does |
| `Shutdown`, `Drained`, `Closed`, `LastWriteWaited` | `Shutdown`, `FinishGrpcCall` and `TryLastWrite` before and after their waits |
| `Poll`, `Enqueue` | `Datastore::PollGrpcQueue`, and `Complete`, whose two halves are two steps |

## 3. Properties

Each property is stated and explained in its module. The ones that carry the
project:

* `ImplementsLog` (Chat): the two `Conversation` documents
  are two copies of one log; a message is kept by its sender before it is
  delivered, and no copy loses or invents one.
* `NoMessageLost`, `CopiesAgree` (Chat): what the three writes of a message
  guarantee without a transaction. `CopiesAgree` says exactly when
  two transcripts differ for good: both users have sent a message at the same
  timestamp, or the sender was killed between the two copies.
* `RowsMirrorTheConversation`, `RowsInSendingOrder`, `RowsOnlyGrow` (Chat): the
  transcript on screen in spite of leaked controllers.
* `BadgesSettle`, `OnlyTheOwnerClearsBadges` (Chat): badges.
* `SentIsShown` (Chat): delivery, up to the rows, of what was on disk.
* `RequestCanBeAnswered`, `FriendshipIsMutual`, `FriendsOnlyByConsent`,
  `AgreedBecomeFriends`, `RequestsAreListed` (FriendRequest). A kill may leave a
  request without its other half, or a friendship one-sided, and nothing in the
  code mends it; these properties say that nothing else may, and which half it
  is that can be missing.
* `ListedGroupsExist`, `MembersAreTold`, `BadgesFollowMessages`,
  `BadgesAreForOthersMessages`, `OnlyLastUnreadHasBadge`, `BadgeIsSeen`
  (GroupChat). `OnlyLastUnreadHasBadge` says what the code does
  when several groups have unread messages: one badge, the last group's.
* `SignUpFinishes`, `BufferStaysReadable` (Session): a sign-up that was begun is
  finished in the end, unless a kill came before its last write was on disk
  (nothing in the app writes the rest again), and then no launch and no listener can trip over its
  buffer document again.
* `BadgesAreSomebodys`, `BadgesOfOneAccountStay` (Session): how far the mixing
  of accounts goes. Listeners and globals outlive a sign-out, so that one
  account's badges are shown to the next, and `buffercleaner` can store them in
  the next one's buffer document; a kill in between prevents both.
* `ImplementsFeed`, `PostIsShown`, `PostsStayOnScreen` (Discover): a post
  follows a list that names the reader. The list may be one-sided, so that a post
  can reach somebody who does not list its author.
* `NoUseAfterDestroy`, `OperationsObeyGrpc`, `AssertionsHold`,
  `ImplementsDuplex`, `StreamEnds`, `WritesGoOut` (GrpcStream).
* `SoleWriterViewIsStable`, `SoleWriterIsInSync` (FirestoreClient).

## 4. Runs

| Run | Bounds | Why they are enough |
|---|---|---|
| `firestore` | one device, two documents only it writes, two keys of which one has two values, queue of 2 | merges, replacements and deletions over each other; an answer before and after its watch event; resends after every number of commits, with new writes behind them |
| `chat_one_way` | a sends two messages, b opens the chat twice and is killed once | three controllers and listeners' worth of snapshots with two messages in every order: one missing, both missing, first missing |
| `chat_both_ways` | from a state where b has the chat open and a has left it: a sends a recording at 1, b a text at 1 or 2, a is killed or loses its stream once | the kill may come before, between or after the transactions of a's three writes, the break after any commit; the smallest instance where copies may differ, by a collision or by a kill, and one where they may not |
| `chat_live` | one message, one fault of the sender | the kill may cut any of the three writes; delivery of one message is independent of others: rows only grow |
| `friends_cross` | two requests in all, both of one user or one of each; only b looks at requests and answers; one fault, of either | requests crossing each other, a second request crossing the answer to the first, stale rows, resends of all four writes, a kill between any two |
| `friends_answer` | one request of a, which b answers; one fault, of either | listing and agreeing through a kill of the one who asks or of the one who answers, with any prefix of the writes on disk |
| `group_start` | three users, one group, one message, one fault of the founder | the founder may choose nobody, one, or both in either order; the fault may come before the answer, within the fan-out (before, between or after its transactions), or within the badges |
| `group_read` | two users, two rooms, two messages, the sender opens two rooms, one fault | two unread groups at once, messages before and after `roomMember`, in one room or two |
| `sign_up` | a new account and an old one, two requests per launch, two faults | a kill between the account and its documents, or between their transactions, and another while they are queued, with the other account in between |
| `session_badges` | two old accounts with a message each, two requests and three tab bars per launch, one kill | listeners of both accounts, snapshots of either waiting, both badges on screen |
| `discover` | two users; a agrees to b's request; one post each, a's for a alone; b posts to whoever is listed by then; one fault of either, none of a's if a posts | posts before, within and after the friendship; two authors in one feed; a friendship or a post cut at any place by a kill |
| `grpc_stream` | three writes, two reads, any number of operations that follow from them | a write active, one buffered and a last one; a read answered and one pending |

`MaxQueue`, `MaxEvents`, `MaxViews`, `MaxAsks`, `MaxStarts`, `MaxOpens`,
`MaxClicks`, `MaxFaults`, `MaxTime`, `Clock`, `MaxWrites` and `MaxReads` are the
bounds; each is a guard of an action and named in the module that declares it.
`OneEach` (`MCChat`), `Few` (`MCFriendRequest`) and `OneFault` (`MCDiscover`) bound
single runs further.
`MaxQueue` of a user who acts has room for everything one tap writes (3 for a
message, 4 for an agreement with its deletions, 2 for a post to oneself or a
group message, whose badges are not held back by the bound); `MaxEvents`
delays the client, never a user's callback. Deadlock is checked in `firestore`
only: elsewhere a run stops with every bound used up, or the stream destroyed.
No run uses symmetry: the users have different roles.

## 5. Fairness

Users are not assumed to do anything, and kills and broken streams happen as
often as the bounds allow. Of the rest:

* weak fairness of what runs on the main thread (`OnMain`, the callbacks): it
  drains its queue;
* weak fairness of `PersistWrite`: the worker runs its blocks;
* weak fairness of `CommitWrite` and `WriteAnswered`: the write stream is open or
  reopened with backoff, the queue's head is sent (`RemoteStore::FillWritePipeline`)
  and answered. A break disables the answer until the write has been sent again;
  faults are bounded in every run, so that weak fairness is enough. Strong in
  Session, where another account may be signed in for a while, again and again;
* weak fairness of `ReceiveSnapshot` for the documents the device listens to (in
  Session no liveness depends on it);
* weak fairness of `Answer` in Session: Auth answers a request;
* in GrpcStream: the worker and the poller run, the operations of a call that is
  over come back (gRPC's promise, on which `TryCancel` relies), and a write of a
  live call ends. Nothing is assumed of reads of a live call, which may stay out
  forever: that is why `StreamEnds` is not for free.

`SignUpFinishes` is conditional: the account keeps being signed in, for the
client sends no other account's writes. It and the other liveness properties
except what a kill has cut off before it was on disk: that is promised to nobody.

## 6. Proofs

`FirestoreLemmas` is about the client, whatever is written through it; the
modules of the screens cite it through an instance. It proves that documents
stay functions of their keys (`ApplyToType`, `LocalViewType`), that each action
keeps `FsTypeOK`, and three kinds of facts that survive resends and kills, for a
screen that shows them of its own writes. (`Killed` is what the relaunch actions
of the screens are to the client: each queue is cut to what is on disk. The
lemmas that begin with `Killed` say that all three kinds of facts are closed
under it, because a prefix is what is left.)

* keys (`KeysKept`, `NetworkKeepsKeys`, `ViewsGrow`): if no queued write takes
  the keys `K[p]` out of document p then neither the backend, nor a cache, nor a
  view loses one;
* fields (`OnlyFields`, `NetworkOnlyFields`): documents hold only what somebody
  queued;
* order (`InOrder`, `NetworkKeepsOrder`, `WillHave`): if each device queues a
  write only behind what the write needs then the backend has what it needs
  whenever it has the write, although an interrupted stream sends the queue from
  the start again.

`FirestoreClient_proofs` proves, for any number of devices, documents, keys and
resends:

* `AnsweredMeansInSync`, `OwnDataDoesNotFlicker`: `SoleWriterIsInSync` and the
  action property `SoleWriterViewIsStable`. The invariant, `SoleInv`, is that
  resending what is queued changes nothing the writer sees
  (`ResendsAreHarmless`), that the backend's document reflects what was
  committed of the queue and the cached one what it has caught up with
  (`CommittedShow`, `CachedShow`), and that these are in the order of the queue.

`FriendRequest_proofs` assumes nothing but `FriendRequestAssumption` (`NoOne`
is not a user, bounds are naturals) and proves, for any set of users, any bounds
and any number of faults:

* `TypeCorrect`: `TypeOK`. Every action is a step of the client
  (`NextIsClientStep`), and client steps keep the types (`ClientStepType`).
* `PendingRequestsAreAnswerable`: `RequestCanBeAnswered`. It is not inductive:
  a queue might hold a write of a sender's half that is not followed by one of
  the receiver's. `QueueShape` says that queues hold only writes of the
  protocol and that each first write of a pair is followed by its second, at
  every position of the queue, so that it holds for resends as well, or that the
  second was lost (`FollowedOrLost`): a kill cuts a queue at one place only
  (`KillCuts`). A commit that could break the property then has the write that
  mends it next in line, or the write is in `lost` (`NextOnTheWay`); other steps
  take nothing off the way (`OnlyCommits`).
* `FriendshipBecomesMutual`: `FriendshipIsMutual`. Besides `QueueShape` it needs
  `OwnSideFirst`: whoever has the second write of a friendship in the queue has
  its own side already, or before it on the way, for a kill cannot take the
  earlier write and leave the later one. A friendship is never removed
  (`FriendsStay`).
* `NoFriendWithoutConsent`: `FriendsOnlyByConsent`. The invariant follows a
  request from the tap to the queue, the backend, another device's cache, its
  list, its rows and its selection (`ClientJustified`, `ScreenJustified`):
  wherever a request or a friendship is found, it is justified by what has been
  asked and agreed, which only grows (`HistoryGrows`).

`Chat_proofs` assumes nothing but `ChatAssumption` (`NoChat` is not a user,
clocks and bounds are sets of timestamps and naturals) and proves:

* `TypeCorrect`: `TypeOK`, which includes that a waiting callback names a
  controller that exists. Controllers are only ever added between two launches
  (`Grown`, `StaysOK`), and a relaunch drops callbacks and controllers together
  (`RelaunchType`).
* `MessagesAreNotLost`, `OwnCopiesComeFirst`, `TranscriptsAgree`:
  `NoMessageLost`, `OwnCopyFirst`, `CopiesAgree`. The invariant they need,
  `ChatInv`, is about every position of every queue (`EntryOK`): a write
  replaces a document only if that is the owner's own buffer; a write to a
  conversation carries messages its sender really sent; what is counted as
  committed is in the document, so that a write may leave the queue
  (`AcknowledgeInv`); what a kill takes off the queue is in `lost` (`KillInv`);
  and a receiver's copy has the sender's own copy committed
  or before it in the queue, so that the order survives resends (`CommitInv`).
  No step takes a key out of a conversation (`CommitKeepsKeys`). `CopiesAgree`
  follows from these without being inductive (`InvGivesAgreement`).
* `OthersKeepBadges`: the action property `OnlyTheOwnerClearsBadges`.

* `ChatImplementsLog`: `ImplementsLog`. A commit must be a step of `MessageLog`,
  which puts one message into one copy: this needs `OneMessageEach`, that each
  queued write to a conversation carries one message (`OneMessage` of a sender at
  a time), and from `ChatInv` that the message was sent and, if the copy is the
  receiver's, is in the sender's own copy already. A resent write changes no keys
  and is a stutter; all other actions leave the documents alone.

The second half of `Chat_proofs` is what the screens of `Chat` show, from `ScreensInv`.
Whatever step is taken, a user hears nothing, hears of one document, or takes
the step (`EachHears`), so that the invariant is about one user and one chat at a
time:

* `BadgesComeFromTheBuffer`: `BadgesSettle`, by `BadgeOK`: the last snapshot of
  the buffer that waits, or `bufferChat` when none does, is the buffer document
  as the device sees it. Opening a chat changes both, in one step
  (`OpenChatBadges`).
* `RowsComeFromTheConversation`: `RowsMirrorTheConversation`, by `RowsOK`. Every
  controller ever opened on a chat listens, and each appends to its own array
  what is not in the global cache; only the first one's array is ever complete
  (`ArraysFit`). The reason is `RowsFit`: whatever a later controller is told is
  in the rows already, or in a snapshot that waits before it for the first. It
  needs that no view of a conversation loses a message while the app runs
  (`TranscriptsGrow`, from `KeysInv`), and that main queues keep their order (`RowsEnqueued`,
  `RowsDequeued`).
* `RowsStay`: the action property `RowsOnlyGrow`, from `NewRows`: what a callback
  leaves in the cache extends what was there.
* `MessagesInOrder`: `RowsInSendingOrder`. The keys of two senders interleave in
  any way, so that the rows are not sorted by key; what holds is that whoever has
  a message of a conversation has all its sender sent there before, but for what
  is lost (`Follows`). What is lost must then not turn up later: `Real` says that
  what a device sees of the other side's messages is on the sender's disk, and so
  safe from kills (`Safe`, `AtRisk`; `DiskIsSafe`, `SafeStays`), and what it sees
  of its own is gone from the screen if a kill cuts it off (`KilledSeen`); what
  is lost was sent and is queued no more (`LostWasSent`, `QueuedNotLost`).
  The invariant follows this from the queues (`QueuesInOrder`) into the documents
  (`CommitFollows`: what was sent before a write is committed by the time it is,
  or lost, by `NoMessageLost`), the caches, the view of each device
  (`ViewInOrder`; its own messages are there from the start, `SentIsSeen`), the
  snapshots that wait (`SnapsMove`) and the rows. A row is appended after all that
  are there, and one that is new was sent after each of its sender's that is not
  (`NewComesLater`).

`GroupChat_proofs` proves every safety property of `GroupChat`, from
`GroupAssumption`: users and groups are finitely many (the code turns sets of
members into arrays and keeps the document with the greatest id), `NoRoom` is no
group, bounds are naturals. The invariant is `Inductive`; its parts are
`QueuesOK` (every queued write is one of the five the screens make, conversations
lose no message, badges are queued behind both copies of the message),
`DocsRight` (so are the documents and caches), `GroupsWhole` (a group is
committed with all its members, and an answered one is there), `RoomsRight` and
`ShownRight` (what controllers and badges know is true of the backend),
`AwaitingRight` and `BlocksRight` (what a closure or block captured still holds
when it runs), `ListenersTold` (the last snapshot that waits is up to date) and
`RoomOnScreen`. Each is about this state only through what can only grow
(`Growing`, `BlockFits`), so that a step of one device leaves those of the others
alone; one lemma per action (`OpenRoomKeeps`, `WriteAnsweredKeeps`, ...) puts
them together. A kill leaves the documents and a prefix of one queue
(`KillKeepsClient`), and drops the blocks, closures and controllers that relied
on the rest of it; the first snapshot of the new process is of what is on disk
(`LaunchSnapshot`).

* `TypeCorrect`: `TypeOK`, by `BlocksRight` and `AwaitingRight`.
* `GroupsExist`: `ListedGroupsExist`. An entry of a list is queued only by the
  closure of `addDocument`, which runs when the group's document is committed.
* `BadgesAfterMessages`: `BadgesFollowMessages`, by the order of the queues.
* `BadgesAreOthers`: `BadgesAreForOthersMessages`. The badge on screen may come
  from a snapshot that is long out of date; that is why the invariant follows a
  badge from the block that writes it to documents, caches, snapshots and screen.
* `LastBadgeOnly`: `OnlyLastUnreadHasBadge`, by `ListenersTold` (`ToldOpened` is
  the delicate case: `buffercleaner` takes a badge out while snapshots wait).

`Session_proofs` proves every safety property of `Session`, for any accounts,
friends and bounds, from `SessionAssumption`: `NoOne` is no account, messages
are from friends to accounts, bounds are naturals, and no friend's id is the
name of the field `userID` (ids are document ids Firebase makes up; `document` is
the name the model gives to the existence of a document). The invariant is
`IInv`, shown action by action; its parts are `Types`, `Flow`, `Readable`,
`Settling` and `OwnBadges`.

* `TypesKept`: `TypeOK`. That the client's user and Auth's differ only while a
  notification waits needs `Flow`: what may wait on the main thread behind what
  (`InTurn`: behind the completion of a sign-up no notification, behind that of a
  sign-in only the one of a sign-out), and which screen goes with which request,
  completion and sign-up in progress. It also gives that sign-up and
  `buffercleaner` write through the queue of the account they mean
  (`CreatedWrites`, `OpenChatWrites`), which is the rest of `TypeOK`.
* `ReadableForGood`: `BufferStaysReadable`, by `Readable`. An account's queue
  holds sign-up's three writes in order and then `buffercleaner`'s (`QueueRight`,
  which says "before" of all positions, so that it holds for what an interrupted
  stream sends again); `userID` is in the document, or in the cached one, only
  while the write that deletes it is still to be committed, or to be seen to be
  (`UserIDGoes`); what the cache has seen of a document it has seen of all
  earlier writes to it (`CaughtRight`); and the document itself, once there,
  stays (`KeysKept`). When the last write is answered the first two have left the
  queue, and nothing is left that could bring `userID` back. All this is only
  said of accounts that are `Whole`: a kill may leave sign-up's first write on
  disk without the second, and that account's sign-up is never finished
  (`WholeBefore`, `StepFinished`). Of a whole account a kill leaves a prefix of
  the queue, behind which nothing is missing that the buffer document depends on
  (`RightCut`, `RightKill`). What any account's queue holds, whole or not, is
  `EntriesRight`.
* `BadgesSettle`: `BadgesAreSomebodys`, by `Settling`: the last snapshot that
  waits, or `bufferChat` if none does, is what some account with a listener sees.
  The listeners of several accounts go on, so that a step may take this from one
  account and give it to another: if any listener is told, the last snapshot is
  what its account sees now (`NewsSettle`); if none is, nobody who was told
  before sees anything new (`NobodySettles`). `OpenChat` is the delicate case: it
  changes `bufferChat` and the account's view in one step (`SettlingOpenChat`).
* `NoForeignBadges`: `BadgesOfOneAccountStay`, by `OwnBadges`: while all listeners
  are of one account, that account's friends are the only ones with badges on
  screen, in snapshots that wait, in queues, caches and documents. That needs all
  five places, for each is where the next one gets its badges from.

`Discover_proofs` proves, for any users, friendships, posts and faults:

* `PostsStay`: the action property `PostsStayOnScreen`, by `RowsInView` (the
  rows are keys the view has, and views of a feed lose none).
* `FeedIsSafe`: every step of `Discover` is a step of `Feed` or a stutter. A
  commit to a feed must come after the author's blog and within a friendship:
  `InOrder(PriorWrites)` and `ListedAreFriends`: whoever is in `listOfId` is in
  the author's list at the backend, or queued for it, and a kill that cuts the
  queue empties `listOfId` too. Of the other side of a friendship, which another
  device's kill may have cut off, nothing is used. A kill cuts off only copies of
  posts that were sent (`KillRefines`).

`GrpcStream_proofs` assumes that the bounds are naturals, uses them nowhere
else, and proves all safety properties of `GrpcStream` from one invariant,
`GrpcInv`, shown action by action (`InitKeeps`, `NextKeeps`). Its parts:
`QueueInv` (a task is queued once), `CompletionsInv` (what gRPC holds, and
whatever has a callback to run, is in `completions_`), `LifeInv` (what each
`stream` and each place of the worker go with), `WorkerInv`, `FinishInv` (one
finish, behind everything else), `ReadInv` and `WriteInv` (one of each at a
time; what is on its way is the next in order) and `WireInv` (what went out,
what gRPC holds and what the buffer has make up what was written). `Refinement`
follows each action: reads, writes, transmissions and the end are steps of
`Duplex`, the rest stutters.

Every safety property and every action property that a run checks is proved.
Only model-checked: the liveness properties (`SignUpFinishes`, `StreamEnds`,
`WritesGoOut` and the others of section 5) and the liveness half of
`ImplementsFeed`; the prover does not do liveness under fairness.

## 7. Abstractions

* A view includes a write from the tap on; in the code, from when the worker
  has run the write's block. No more is modelled because nothing can tell the
  difference. The main thread hears of the worker only through what the worker
  puts on its queue, and a tap only appends blocks to the worker's. Whatever
  the worker does between the tap and the write's block it could have done
  before the tap, since none of it reads what the tap does on the main thread;
  and between two writes of one tap it runs nothing but blocks that were there
  before. What it reports of these writes reaches the main thread behind what
  was waiting there at the tap, in the model as in the code. The snapshots
  after each write of a tap are of different documents and queries, so that no
  listener hears of two of them (sign-up writes one document twice, before
  anybody listens to it). What does make a difference is a kill, and for that
  the writes are put on disk one at a time (`Persist`): a write that is not on
  disk is neither sent, committed nor answered, and is gone after the kill
  together with everything the screens showed of it.
* What a kill cuts off stays in `lost` for good, so that a property that excepts
  it excepts it also after the same write was made again (a second request to
  the same user, say). Messages and posts are never the same twice.
* In Session every account's queue has its own `persisted`, and a kill may cut
  any of them. In the code the worker runs the blocks of one account before it
  changes to the next, so that only the last account's can be cut: the model
  allows more.
* The backend accepts every write. The repository has no rules file; the branch
  of the client that drops a refused write is not modelled.
* A missing document and an empty one are the same, except in Session. The app
  tells them apart in one place, the forced cast of the buffer snapshot
  (`App/RecentViewController.swift:300`); sign-up creates that document
  (`App/SignupViewController.swift:56`), and the other models start after it.
* Each account is used on one device; only Session puts several accounts on it.
* A badge is an entry of the buffer document. `buffercleaner` overwrites that
  document from a copy that may be stale, so that a badge can be lost; no
  property claims otherwise. `OnlyTheOwnerClearsBadges` is what holds.
* A collision of timestamps can lose a message; `CopiesAgree` and
  `NoMessageLost` speak of keys accordingly.
* In FriendRequest a callback runs as part of the action that reads the query:
  each replaces one global by a query's result, so that a late one is an early
  one followed by other steps. In Chat, where a late callback overwrites what
  `buffercleaner` has done, callbacks wait in `mainQueue`.
* GroupChat leaves out the rows of a group's transcript, which are those of Chat
  with one document for the room, and one-to-one messages.
* In Session the listeners of one query are told together and the queries in any
  order, which the client leaves to the order of a hash table.
* Session follows one Auth request at a time, because the screens wait for it;
  of the globals only `bufferChat` is followed. A snapshot taken before sign-up
  was answered may still be delivered after it and end the app, and so may
  signing out while the writes that make the buffer document are still queued;
  `BufferStaysReadable` says from when on this is over.
* Discover leaves out the ids of groups in `listOfId`, under which a document
  nobody reads is written, and the deletions of an agreement, which
  FriendRequest has. Two posts at one timestamp collide as messages do; the run
  keeps them apart.
* A sign-out during an upload, which ends the app at
  `App/ChatViewController.swift:230` or sends under another name, is not
  modelled.
* GrpcStream is one stream's life, with `Stream` as its observer, which always
  destroys the stream when it has finished. A finish never fails; completions
  leave gRPC's queue in any order, tasks run in the order they were queued. A
  write after the finish of a failed call was issued is possible (`Write` while
  `callFinished`): the comment in `Shutdown` (`grpc_stream.cc:201`) counts two
  possibilities and leaves this third one out. `OperationsObeyGrpc` allows it;
  the stream waits for it as for the finish. The result of `WriteAndFinish`,
  which nobody reads, is left out.
* The snapshot of a document whose view does not change is not delivered (the
  app does not ask for metadata changes).

## 8. Not modelled

Search results (no state but a copy of the selected row); the recorder, the
audio session, files, playback and the caches of images and sound; the profile
fields of the account screen; the application delegate (configures Firebase);
the test targets (the generated templates, which state no property); the
storyboard except for the segues `Back` and `OtherScreen` follow.

Of the Firestore client: rejected writes, limbo resolution, garbage collection,
transforms, transactions, index management; the credentials, backoff and idle
timer of `Stream`, of which the models see only that streams break and are
reopened. A backend that refuses writes would need rules, which the repository
does not have.

All other vendored libraries (BoringSSL, gRPC, LevelDB, abseil, nanopb, Protobuf,
Auth, Storage): third-party code that the app uses through the interfaces above.
They are almost all of the repository's lines in C and C++, so the models cover
a small share of those; the program's own logic is in its Swift files, and what
their handlers write to documents and to the globals that other steps read is in
the modules.

## 9. Plan

Done: `Firestore`, `FirestoreClient`, `Chat`, `FriendRequest`, `GroupChat`,
`Session`, `Discover`, `GrpcStream`, with `MessageLog`, `Feed` and `Duplex` and
the refinements; the safety properties of `FriendRequest` and `GrpcStream`
proved, and those of `Chat`, `GroupChat`, `Discover`, `Session` and
`FirestoreClient` as well.

Next would be what the models leave out (section 8): a backend that refuses
writes, and the recorder of the chat screen.
