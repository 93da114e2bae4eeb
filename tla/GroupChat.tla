----------------------------- MODULE GroupChat -----------------------------
(***************************************************************************)
(* Group chats: StartGroupChatViewController, and the group branches of    *)
(* ChatViewController and RecentViewController, over the Firestore client. *)
(*                                                                         *)
(* addDocument gives a group its id at once, but the members are told of   *)
(* it by the closure that runs when the backend has answered.  Who is in   *)
(* the room is fetched with getDocument when the chat opens, and is read   *)
(* by the block that finishEditing leaves on the main queue.  The rows of  *)
(* the transcript are those of Chat, with one document for the whole room, *)
(* and one-to-one messages do not touch what is here: both are left out,   *)
(* and with them the write of an unchanged ChatBuffer/Buffer.              *)
(***************************************************************************)
EXTENDS Naturals, FiniteSets, Sequences, SequencesExt, FiniteSetsExt

CONSTANTS
  User,        \* accounts, one device each, all friends of each other
  Group,       \* document ids of groups: numbers, for their order
  Rooms,       \* Rooms[g]: the members of a group that exists already, or {}
  NoRoom,      \* no group chat is on screen
  MaxTime,     \* bound: timestamps are 1..MaxTime
  Clock,       \* bound: Clock[u] are the timestamps u's device may give
  MaxStarts,   \* bound: groups u starts
  MaxViews,    \* bound: group chats u opens between two launches
  MaxQueue,    \* bound: unacknowledged writes of u's device
  MaxFaults    \* bound: broken streams and kills of u's app

ASSUME GroupAssumption ==
  /\ IsFiniteSet(User)
  /\ Group \subseteq Nat /\ IsFiniteSet(Group)
  /\ Rooms \in [Group -> SUBSET User]
  /\ NoRoom \notin Group
  /\ MaxTime \in Nat
  /\ Clock \in [User -> SUBSET (1..MaxTime)]
  /\ {MaxStarts, MaxViews, MaxQueue, MaxFaults} \subseteq [User -> Nat]

VARIABLES
  docs, remoteDocs, mutationQueue, persisted, applied, caughtUp,  \* see Firestore
  awaiting,         \* awaiting[u]: closures of addDocument not answered yet
  recents,          \* recents[u]: RecentViewControllers listening to badges
  inRoom,           \* inRoom[u]: the group on u's screen, or NoRoom
  rooms,            \* rooms[u][i]: the i-th controller u opened on a group
  bufferGroupChat,  \* bufferGroupChat[u]: the groups with a badge
  mainQueue,        \* mainQueue[u]: callbacks and blocks for u's main thread
  founded,          \* history: founded[g] = <<owner, members>>, or << >>
  sent,             \* history: every group message anyone sent
  visited,          \* history: <<u, g>> where u has opened g
  lost,             \* history: lost[u]: writes cut off by a kill of u's app
  faults            \* history: faults[u] broken streams and kills so far

Time == 1..MaxTime

Msg == [key: Time, from: User]

Member(u, owner) == [key |-> u, from |-> owner]

\* Group/<g>; User/<u>/Friends/<g>; Group/<g>/Chat/Conversation;
\* User/<u>/Friends/<g>/Chat/Conversation; User/<u>/ChatBuffer/<g>
GroupDoc(g) == [coll |-> "Group", group |-> g]

Entry(u, g) == [coll |-> "Friends", owner |-> u, group |-> g]

RoomConversation(g) == [coll |-> "Conversation", group |-> g]

OwnConversation(u, g) == [coll |-> "Conversation", owner |-> u, group |-> g]

GroupBuffer(u, g) == [coll |-> "ChatBuffer", owner |-> u, group |-> g]

GroupPath ==
  [coll: {"Group", "Conversation"}, group: Group] \cup
  [coll: {"Friends", "Conversation", "ChatBuffer"}, owner: User, group: Group]

INSTANCE Firestore WITH
  Device <- User, Path <- GroupPath, Field <- Msg \cup [key: User, from: User]

clientVars == <<docs, remoteDocs, mutationQueue, persisted, applied, caughtUp>>

history == <<founded, sent, visited, lost, faults>>

vars == <<clientVars, awaiting, recents, inRoom, rooms, bufferGroupChat, mainQueue, history>>
-----------------------------------------------------------------------------
\* The groups among the documents of User/<u>/ChatBuffer in a view of them.
Unread(view) == {g \in DOMAIN view : view[g] # {}}

BufferView(u) == [g \in Group |-> View(u, GroupBuffer(u, g))]

NewBufferView(u) ==
  [g \in Group |->
     LocalView(remoteDocs'[u][GroupBuffer(u, g)], mutationQueue'[u], GroupBuffer(u, g))]

LaunchBufferView(u) ==
  [g \in Group |-> LocalView(remoteDocs[u][GroupBuffer(u, g)], OnDisk(u), GroupBuffer(u, g))]

Snapshot(view) == [kind |-> "buffer", groups |-> Unread(view)]

\* What a step of the client gives every listener of the collection to say.
BufferCallbacks(u) ==
  IF NewBufferView(u) = BufferView(u) THEN << >>
  ELSE [i \in 1..recents[u] |-> Snapshot(NewBufferView(u))]

Enqueue(u, callbacks) == mainQueue' = [mainQueue EXCEPT ![u] = @ \o callbacks]

WaitingBuffers(u) == {i \in DOMAIN mainQueue[u] : mainQueue[u][i].kind = "buffer"}

KeysOf(doc) == {f.key : f \in doc}

\* setData({...}) of a new document; setData(..., merge: true); delete()
Put(p, fields) == [path |-> p, fields |-> fields, merge |-> FALSE]

MergeInto(p, m) == [path |-> p, fields |-> {m}, merge |-> TRUE]

Delete(p) == [path |-> p, fields |-> {}, merge |-> FALSE]

\* Some groups exist already, known to every device.
Existing(p) ==
  LET g == p.group
      owner == CHOOSE u \in Rooms[g] : TRUE
  IN  IF Rooms[g] = {} THEN {}
      ELSE IF p = GroupDoc(g) THEN {Member(u, owner) : u \in Rooms[g]}
      ELSE {Member(u, owner) : u \in {v \in Rooms[g] : p = Entry(v, g)}}

Init ==
  /\ docs = [p \in GroupPath |-> Existing(p)]
  /\ remoteDocs = [u \in User |-> docs]
  /\ mutationQueue = [u \in User |-> << >>]
  /\ persisted = [u \in User |-> 0]
  /\ applied = [u \in User |-> 0]
  /\ caughtUp = [u \in User |-> {}]
  /\ awaiting = [u \in User |-> {}]
  /\ recents = [u \in User |-> 1]
  /\ inRoom = [u \in User |-> NoRoom]
  /\ rooms = [u \in User |-> << >>]
  /\ bufferGroupChat = [u \in User |-> {}]
  /\ mainQueue = [u \in User |-> << >>]
  /\ founded = [g \in Group |->
       IF Rooms[g] = {} THEN << >> ELSE <<CHOOSE u \in Rooms[g] : TRUE, Rooms[g]>>]
  /\ sent = {}
  /\ visited = {}
  /\ lost = [u \in User |-> {}]
  /\ faults = [u \in User |-> 0]
-----------------------------------------------------------------------------
(***************************************************************************)
(* Starting a group.                                                       *)
(***************************************************************************)
\* A new tab bar, with a RecentViewController whose listeners are told the
\* present state of their documents.
NewTabBar(u) ==
  /\ recents' = [recents EXCEPT ![u] = @ + 1]
  /\ Enqueue(u, <<Snapshot(BufferView(u))>>)

\* The friends u has ticked, in that order.
Selections(u) == UNION {SetToSeqs(F) : F \in SUBSET (User \ {u})}

FoundedBy(u, g) == founded[g] # << >> /\ founded[g][1] = u

Started(u) == Cardinality({g \in Group : FoundedBy(u, g) /\ Rooms[g] = {}})

StartGroupChatNow(u, g, friends) ==
  /\ inRoom[u] = NoRoom
  /\ founded[g] = << >>
  /\ Started(u) < MaxStarts[u]
  /\ Len(mutationQueue[u]) < MaxQueue[u]
  /\ LET people == ToSet(friends) \cup {u}
     IN  /\ LocallyWrite(u, <<Put(GroupDoc(g), {Member(v, u) : v \in people})>>)
         /\ founded' = [founded EXCEPT ![g] = <<u, people>>]
  /\ awaiting' = [awaiting EXCEPT ![u] = @ \cup {[kind |-> "added", group |-> g, friends |-> friends]}]
  /\ NewTabBar(u)
  /\ UNCHANGED <<inRoom, rooms, bufferGroupChat, sent, visited, lost, faults>>

\* Mutant of Entries: everyone is told whom the owner could have chosen.
EntriesForAll(u, e) ==
  LET told == <<u>> \o SetToSeq(User \ {u})
  IN  [i \in DOMAIN told |-> Put(Entry(told[i], e.group), {Member(told[i], u)})]

\* The owner's own list first, then those of the friends.
Entries(u, e) ==
  LET told == <<u>> \o e.friends
  IN  [i \in DOMAIN told |-> Put(Entry(told[i], e.group), {Member(told[i], u)})]

\* The closure of addDocument: the group is put into the lists.
GroupAdded(u) ==
  /\ mainQueue[u] # << >>
  /\ Head(mainQueue[u]).kind = "added"
  /\ LocallyWrite(u, Entries(u, Head(mainQueue[u])))
  /\ mainQueue' = [mainQueue EXCEPT ![u] = Tail(@)]
  /\ UNCHANGED <<awaiting, recents, inRoom, rooms, bufferGroupChat, history>>
-----------------------------------------------------------------------------
(***************************************************************************)
(* A group on screen.                                                      *)
(***************************************************************************)
\* A row of the friend list is selected.  buffercleaner asks for the members,
\* takes the badge out of bufferGroupChat and deletes the badge's document.
OpenRoom(u, g) ==
  /\ inRoom[u] = NoRoom
  /\ View(u, Entry(u, g)) # {}
  /\ Len(rooms[u]) < MaxViews[u]
  /\ Len(mutationQueue[u]) < MaxQueue[u]
  /\ rooms' = [rooms EXCEPT ![u] = Append(@, [group |-> g, roomMember |-> {}, fetched |-> FALSE])]
  /\ bufferGroupChat' = [bufferGroupChat EXCEPT ![u] = @ \ {g}]
  /\ LocallyWrite(u, <<Delete(GroupBuffer(u, g))>>)
  /\ Enqueue(u, BufferCallbacks(u))
  /\ inRoom' = [inRoom EXCEPT ![u] = g]
  /\ visited' = visited \cup {<<u, g>>}
  /\ UNCHANGED <<awaiting, recents, founded, sent, lost, faults>>

\* The closure of getDocument: the backend's document or, where that is out
\* of reach, the cached one, which may be missing.
RoomMemberArrives(u, i) ==
  /\ ~rooms[u][i].fetched
  /\ LET p == GroupDoc(rooms[u][i].group)
         Fetched(doc) == rooms' = [rooms EXCEPT ![u][i].fetched = TRUE,
                                                ![u][i].roomMember = KeysOf(doc)]
     IN  \/ Watch(u, p) /\ Fetched(docs[p])
         \/ UNCHANGED clientVars /\ Fetched(View(u, p))
  /\ UNCHANGED <<awaiting, recents, inRoom, bufferGroupChat, mainQueue, history>>

\* Mutant of SendMessage: the badges are written first, as in a chat of two.
SendMessageBadgesFirst(u, i, t) ==
  /\ \A m \in sent : m.from = u => m.key < t
  /\ Len(mutationQueue[u]) + 2 <= MaxQueue[u]
  /\ LET g == rooms[u][i].group
         m == [key |-> t, from |-> u]
         others == SetToSeq(rooms[u][i].roomMember \ {u})
     IN  /\ LocallyWrite(u, [j \in DOMAIN others |-> MergeInto(GroupBuffer(others[j], g), m)] \o
                            <<MergeInto(OwnConversation(u, g), m), MergeInto(RoomConversation(g), m)>>)
         /\ sent' = sent \cup {[key |-> t, from |-> u, group |-> g]}
  /\ UNCHANGED <<awaiting, recents, inRoom, rooms, bufferGroupChat, mainQueue,
                 founded, visited, lost, faults>>

\* A message of controller i, with chatisGroupChat: the two copies are
\* written at once, the badges in a block that runs after it.
SendMessage(u, i, t) ==
  /\ \A m \in sent : m.from = u => m.key < t
  /\ Len(mutationQueue[u]) + 2 <= MaxQueue[u]
  /\ LET g == rooms[u][i].group
         m == [key |-> t, from |-> u]
     IN  /\ LocallyWrite(u, <<MergeInto(OwnConversation(u, g), m), MergeInto(RoomConversation(g), m)>>)
         /\ Enqueue(u, <<[kind |-> "badges", vc |-> i, msg |-> m]>>)
         /\ sent' = sent \cup {[key |-> t, from |-> u, group |-> g]}
  /\ UNCHANGED <<awaiting, recents, inRoom, rooms, bufferGroupChat,
                 founded, visited, lost, faults>>

FinishEditing(u, t) == inRoom[u] # NoRoom /\ SendMessage(u, Len(rooms[u]), t)

\* The upload of a recording is over: the closure of voiceButtonPressing
\* sends its address in the room it was made in, wherever u is by now.
VoiceUploaded(u, i, t) == SendMessage(u, i, t)

\* Mutant of WriteBadges: the sender's own buffer is not left out.
WriteBadgesToAll(u) ==
  /\ mainQueue[u] # << >>
  /\ Head(mainQueue[u]).kind = "badges"
  /\ LET e == Head(mainQueue[u])
         told == SetToSeq(rooms[u][e.vc].roomMember)
     IN  LocallyWrite(u, [i \in DOMAIN told |->
                            MergeInto(GroupBuffer(told[i], rooms[u][e.vc].group), e.msg)])
  /\ mainQueue' = [mainQueue EXCEPT ![u] = Tail(@)]
  /\ UNCHANGED <<awaiting, recents, inRoom, rooms, bufferGroupChat, history>>

\* The block: roomMember is whatever has arrived by now.
WriteBadges(u) ==
  /\ mainQueue[u] # << >>
  /\ Head(mainQueue[u]).kind = "badges"
  /\ LET e == Head(mainQueue[u])
         others == SetToSeq(rooms[u][e.vc].roomMember \ {u})
     IN  LocallyWrite(u, [i \in DOMAIN others |->
                            MergeInto(GroupBuffer(others[i], rooms[u][e.vc].group), e.msg)])
  /\ mainQueue' = [mainQueue EXCEPT ![u] = Tail(@)]
  /\ UNCHANGED <<awaiting, recents, inRoom, rooms, bufferGroupChat, history>>

Back(u) ==
  /\ inRoom[u] # NoRoom
  /\ inRoom' = [inRoom EXCEPT ![u] = NoRoom]
  /\ NewTabBar(u)
  /\ UNCHANGED <<clientVars, awaiting, rooms, bufferGroupChat, history>>

\* Mutant of BadgeOf: the first document's badge is kept.
FirstBadge(groups, shown) == IF groups = {} THEN shown ELSE {Min(groups)}

\* Each document of the collection replaces the whole dictionary, in the
\* order of the ids; a collection without groups leaves it as it is.
BadgeOf(groups, shown) == IF groups = {} THEN shown ELSE {Max(groups)}

\* The closure of chatGroupbuffer.addSnapshotListener.
GroupBufferCallback(u) ==
  /\ mainQueue[u] # << >>
  /\ Head(mainQueue[u]).kind = "buffer"
  /\ bufferGroupChat' = [bufferGroupChat EXCEPT ![u] = BadgeOf(Head(mainQueue[u]).groups, @)]
  /\ mainQueue' = [mainQueue EXCEPT ![u] = Tail(@)]
  /\ UNCHANGED <<clientVars, awaiting, recents, inRoom, rooms, history>>
-----------------------------------------------------------------------------
(***************************************************************************)
(* The network, and the process.                                           *)
(***************************************************************************)
PersistWrite(u) ==
  /\ Persist(u)
  /\ UNCHANGED <<awaiting, recents, inRoom, rooms, bufferGroupChat, mainQueue, history>>

CommitWrite(u) ==
  /\ Commit(u)
  /\ UNCHANGED <<awaiting, recents, inRoom, rooms, bufferGroupChat, mainQueue, history>>

\* The closures that the answer to the oldest write lets run.
Answered(u) == {e \in awaiting[u] : GroupDoc(e.group) = Head(mutationQueue[u]).path}

WriteAnswered(u) ==
  /\ Acknowledge(u)
  /\ awaiting' = [awaiting EXCEPT ![u] = @ \ Answered(u)]
  /\ Enqueue(u, SetToSeq(Answered(u)) \o BufferCallbacks(u))
  /\ UNCHANGED <<recents, inRoom, rooms, bufferGroupChat, history>>

Fault(u) ==
  /\ faults[u] < MaxFaults[u]
  /\ faults' = [faults EXCEPT ![u] = @ + 1]

StreamBroken(u) ==
  /\ RestartStream(u)
  /\ Fault(u)
  /\ UNCHANGED <<awaiting, recents, inRoom, rooms, bufferGroupChat, mainQueue,
                 founded, sent, visited, lost>>

\* The collections a RecentViewController listens to.
Listened(u) == {Entry(u, g) : g \in Group} \cup {GroupBuffer(u, g) : g \in Group}

ReceiveSnapshot(u, p) ==
  /\ IsStale(u, p)
  /\ Watch(u, p)
  /\ Enqueue(u, BufferCallbacks(u))
  /\ UNCHANGED <<awaiting, recents, inRoom, rooms, bufferGroupChat, history>>

\* Mutant of FreshProcess: what the old process had still to run is run.
FreshProcessKeepingCallbacks(u) ==
  /\ Fault(u)
  /\ lost' = [lost EXCEPT ![u] = @ \cup CutOff(u)]
  /\ applied' = [applied EXCEPT ![u] = 0]
  /\ caughtUp' = [caughtUp EXCEPT ![u] = {}]
  /\ recents' = [recents EXCEPT ![u] = 1]
  /\ inRoom' = [inRoom EXCEPT ![u] = NoRoom]
  /\ rooms' = [rooms EXCEPT ![u] = << >>]
  /\ bufferGroupChat' = [bufferGroupChat EXCEPT ![u] = {}]
  /\ UNCHANGED <<docs, remoteDocs, awaiting, mainQueue, founded, sent, visited>>

\* Killed and launched again: the closures, the blocks and the globals are
\* gone, and with them the writes the worker had still to run; the cache and
\* the rest of the queue are on disk.
FreshProcess(u) ==
  /\ Fault(u)
  /\ lost' = [lost EXCEPT ![u] = @ \cup CutOff(u)]
  /\ applied' = [applied EXCEPT ![u] = 0]
  /\ caughtUp' = [caughtUp EXCEPT ![u] = {}]
  /\ recents' = [recents EXCEPT ![u] = 1]
  /\ inRoom' = [inRoom EXCEPT ![u] = NoRoom]
  /\ rooms' = [rooms EXCEPT ![u] = << >>]
  /\ bufferGroupChat' = [bufferGroupChat EXCEPT ![u] = {}]
  /\ mainQueue' = [mainQueue EXCEPT ![u] = <<Snapshot(LaunchBufferView(u))>>]
  /\ awaiting' = [awaiting EXCEPT ![u] = {}]
  /\ UNCHANGED <<docs, remoteDocs, founded, sent, visited>>

\* Mutant of Relaunch: the queue of writes does not survive.
RelaunchWithoutPersistence(u) ==
  /\ FreshProcess(u)
  /\ mutationQueue' = [mutationQueue EXCEPT ![u] = << >>]
  /\ persisted' = [persisted EXCEPT ![u] = 0]

Relaunch(u) ==
  /\ FreshProcess(u)
  /\ mutationQueue' = [mutationQueue EXCEPT ![u] = OnDisk(u)]
  /\ UNCHANGED persisted

OnScreen(u) ==
  \/ \E g \in Group : \E friends \in Selections(u) : StartGroupChatNow(u, g, friends)
  \/ \E g \in Group : OpenRoom(u, g)
  \/ \E t \in Clock[u] : FinishEditing(u, t)
  \/ Back(u)

OnMain(u) == GroupAdded(u) \/ WriteBadges(u) \/ GroupBufferCallback(u)

Next ==
  \E u \in User :
    \/ OnScreen(u)
    \/ OnMain(u)
    \/ \E i \in DOMAIN rooms[u] :
         RoomMemberArrives(u, i) \/ \E t \in Clock[u] : VoiceUploaded(u, i, t)
    \/ PersistWrite(u)
    \/ CommitWrite(u)
    \/ WriteAnswered(u)
    \/ StreamBroken(u)
    \/ \E p \in Listened(u) : ReceiveSnapshot(u, p)
    \/ Relaunch(u)

Spec == Init /\ [][Next]_vars
-----------------------------------------------------------------------------
(***************************************************************************)
(* Safety.                                                                 *)
(***************************************************************************)
Room == [group: Group, roomMember: SUBSET User, fetched: BOOLEAN]

\* Types; a block that waits for the main thread names a controller that is
\* still there, and a group that waits for an answer is in the queue.
TypeOK ==
  /\ FsTypeOK
  /\ recents \in [User -> Nat]
  /\ inRoom \in [User -> Group \cup {NoRoom}]
  /\ rooms \in [User -> Seq(Room)]
  /\ bufferGroupChat \in [User -> SUBSET Group]
  /\ \A u \in User : \A i \in DOMAIN mainQueue[u] :
       LET e == mainQueue[u][i]
       IN  \/ e.kind = "buffer" /\ e.groups \subseteq Group
           \/ e.kind = "badges" /\ e.vc \in DOMAIN rooms[u] /\ e.msg \in Msg
           \/ e.kind = "added" /\ docs[GroupDoc(e.group)] # {}
  /\ \A u \in User : \A e \in awaiting[u] :
       \E i \in DOMAIN mutationQueue[u] : mutationQueue[u][i].path = GroupDoc(e.group)

People(g) == KeysOf(docs[GroupDoc(g)])

\* Whoever finds a group in the friend list, even one only this device has
\* written so far, is a member of a room that exists: the lists are written
\* only after the backend has answered for the group's document, so that
\* buffercleaner's getDocument has something to find.
ListedGroupsExist ==
  \A u, v \in User : \A g \in Group : View(u, Entry(v, g)) # {} => v \in People(g)

\* The block with the badges runs after both copies are queued: whoever has a
\* badge of a message finds the message in the room, through resends and
\* kills, and the sender finds it in the own copy.  (In a chat of two the
\* badge goes first and this does not hold.)
BadgesFollowMessages ==
  \A u \in User : \A g \in Group : \A f \in docs[GroupBuffer(u, g)] :
    /\ f.key \in KeysOf(docs[RoomConversation(g)])
    /\ f.key \in KeysOf(docs[OwnConversation(f.from, g)])

\* A badge on screen, however old the snapshot it comes from, is for someone
\* else's message in a room the user is in; there is a message of that time in
\* the room, although perhaps another member's, who sent one at the same time.
BadgesAreForOthersMessages ==
  \A u \in User : \A g \in bufferGroupChat[u] :
    /\ u \in People(g)
    /\ \E m \in sent : /\ m.group = g /\ m.from # u
                       /\ m.key \in KeysOf(docs[RoomConversation(g)])

\* When the callbacks that wait have run, the last unread group has a badge,
\* and no other has one: the closure starts a new dictionary for every
\* document.
OnlyLastUnreadHasBadge ==
  \A u \in User :
    WaitingBuffers(u) = {} /\ Unread(BufferView(u)) # {}
      => bufferGroupChat[u] \in {{Max(Unread(BufferView(u)))}}
-----------------------------------------------------------------------------
(***************************************************************************)
(* Liveness, with the fairness of Chat: a running device drains its main   *)
(* thread, resends its writes and is told of what it listens to.           *)
(***************************************************************************)
Fairness ==
  \A u \in User :
    /\ WF_vars(OnMain(u))
    /\ WF_vars(PersistWrite(u))
    /\ WF_vars(CommitWrite(u))
    /\ WF_vars(WriteAnswered(u))
    /\ \A g \in Group : /\ WF_vars(ReceiveSnapshot(u, Entry(u, g)))
                        /\ WF_vars(ReceiveSnapshot(u, GroupBuffer(u, g)))

FairSpec == Spec /\ Fairness

Lists(u, g) == View(u, Entry(u, g)) # {}

\* Every member's list shows g, but for those whose entry was not on disk when
\* the owner's app was killed.
AllTold(g) ==
  /\ founded[g] # << >>
  /\ LET owner == founded[g][1]
     IN  \A v \in founded[g][2] :
           Lists(v, g) \/ Put(Entry(v, g), {Member(v, owner)}) \in lost[owner]

BadgeOnDisk(u, p) ==
  \E i \in 1..persisted[u] : mutationQueue[u][i].path = p /\ mutationQueue[u][i].fields # {}

\* If the owner's list shows a group then every member's does in the end,
\* whoever's app is killed in between, but for a member whose entry was not
\* on disk when the owner's was.  (Killed before the answer, the owner leaves
\* a group nobody lists.)
MembersAreTold ==
  \A g \in Group : (\E u \in User : FoundedBy(u, g) /\ Lists(u, g)) ~> AllTold(g)

\* A badge that the sender's device has on disk is seen in the end, or its
\* group opened, whoever's app is killed in between; the badge on screen may
\* be another group's.
BadgeIsSeen ==
  \A v \in User : \A g \in Group :
    (\E u \in User : BadgeOnDisk(u, GroupBuffer(v, g)))
      ~> (bufferGroupChat[v] # {} \/ <<v, g>> \in visited)
=============================================================================
