------------------------------- MODULE Chat -------------------------------
(***************************************************************************)
(* One-to-one chat: RecentViewController (badges) and ChatViewController    *)
(* (transcript, sending) of every user, over the Firestore client.         *)
(*                                                                         *)
(* Going back from a chat presents a new tab bar, so every visit makes new *)
(* view controllers; none removes its snapshot listener, and each listener *)
(* keeps its controller alive.  listeners[u][c] holds, for each            *)
(* ChatViewController u opened on c since launch, its "keys" array.        *)
(* Callbacks of the Firestore worker run later, in order, on the main      *)
(* thread: mainQueue[u].  bufferChat and cacheMessage are the globals of   *)
(* Information.swift.  A message is the field [key, from]; its text is     *)
(* determined by them.                                                     *)
(***************************************************************************)
EXTENDS Naturals, Sequences, SequencesExt

CONSTANTS
  User,       \* accounts, one device each, all friends of each other
  NoChat,     \* no chat is on screen
  MaxTime,    \* bound: timestamps are 1..MaxTime
  Clock,      \* bound: Clock[u] are the timestamps u's device may give
  MaxViews,   \* bound: controllers u opens on one chat between two launches
  MaxQueue,   \* bound: unacknowledged writes of u's device
  MaxEvents,  \* bound: callbacks waiting on u's main thread
  MaxFaults   \* bound: broken streams and kills of u's app

ASSUME ChatAssumption ==
  /\ NoChat \notin User
  /\ MaxTime \in Nat
  /\ Clock \in [User -> SUBSET (1..MaxTime)]
  /\ {MaxViews, MaxQueue, MaxEvents, MaxFaults} \subseteq [User -> Nat]

VARIABLES
  docs, remoteDocs, mutationQueue, persisted, applied, caughtUp,  \* see Firestore
  listeners,     \* listeners[u][c][i]: keys of the i-th controller on chat c
  recents,       \* recents[u]: RecentViewControllers listening to the buffer
  inChat,        \* inChat[u]: the chat on u's screen, or NoChat
  cacheMessage,  \* cacheMessage[u][c]: the rows shown in chat c
  bufferChat,    \* bufferChat[u]: what the badges are counted from
  mainQueue,     \* mainQueue[u]: snapshot callbacks waiting on u's main thread
  sent,          \* history: every message anyone sent
  lost,          \* history: lost[u]: writes cut off by a kill of u's app
  faults         \* history: faults[u] broken streams and kills so far

Time == 1..MaxTime

Msg == [key: Time, from: User]

\* "User/<u>/Friends/<c>/Chat/Conversation" and "User/<u>/ChatBuffer/Buffer"
Conversation(u, c) == [coll |-> "Conversation", owner |-> u, peer |-> c]

Buffer(u) == [coll |-> "Buffer", owner |-> u, peer |-> u]

ChatPath ==
  UNION {{Conversation(u, c) : c \in User \ {u}} \cup {Buffer(u)} : u \in User}

INSTANCE Firestore WITH
  Device <- User, Path <- ChatPath, Field <- Msg

clientVars == <<docs, remoteDocs, mutationQueue, persisted, applied, caughtUp>>

appVars == <<listeners, recents, inChat, cacheMessage, bufferChat>>

vars == <<clientVars, appVars, mainQueue, sent, lost, faults>>
-----------------------------------------------------------------------------
KeysOf(S) == {m.key : m \in S}

Shown(u, c) == KeysOf(ToSet(cacheMessage[u][c]))

ListenerCount(u, p) ==
  IF p = Buffer(u) THEN recents[u]
  ELSE IF p.owner = u THEN Len(listeners[u][p.peer])
  ELSE 0

Listened(u) == {p \in ChatPath : ListenerCount(u, p) > 0}

\* One callback for each of the n listeners of p, in order of registration.
\* Buffer(u).peer is u, so "chat" also tells the buffer from the chats.
Callbacks(p, n, snap) ==
  [i \in 1..n |-> [chat |-> p.peer, vc |-> i, snap |-> snap]]

\* The listeners of p hear of a step of the client if p's view changes in it.
ViewCallbacks(u, p) ==
  LET newView == LocalView(remoteDocs'[u][p], mutationQueue'[u], p)
  IN  IF newView = View(u, p) THEN << >>
      ELSE Callbacks(p, ListenerCount(u, p), newView)

\* The callbacks of one chat, or of the buffer if c is u, that wait.
ChatCallbacks(u, c) == {i \in 1..Len(mainQueue[u]) : mainQueue[u][i].chat = c}

Enqueue(u, callbacks) ==
  /\ Len(mainQueue[u]) + Len(callbacks) <= MaxEvents[u]
  /\ mainQueue' = [mainQueue EXCEPT ![u] = @ \o callbacks]

Init ==
  /\ FsInit
  /\ listeners = [u \in User |-> [c \in User |-> << >>]]
  /\ recents = [u \in User |-> 1]
  /\ inChat = [u \in User |-> NoChat]
  /\ cacheMessage = [u \in User |-> [c \in User |-> << >>]]
  /\ bufferChat = [u \in User |-> {}]
  /\ mainQueue = [u \in User |-> Callbacks(Buffer(u), 1, {})]
  /\ sent = {}
  /\ lost = [u \in User |-> {}]
  /\ faults = [u \in User |-> 0]
-----------------------------------------------------------------------------
(***************************************************************************)
(* What the user does.                                                     *)
(***************************************************************************)
\* buffercleaner: the entries of the opened chat are taken out of bufferChat
\* and the rest replaces the whole buffer document.
Kept(u, c) == {m \in bufferChat[u] : m.from # c}

CleanBuffer(u, c) ==
  <<[path |-> Buffer(u), fields |-> Kept(u, c), merge |-> FALSE]>>

\* A row of the friend list is selected: viewDidLoad and viewWillAppear of a
\* new ChatViewController.  Its listener is told the document it finds.
OpenChat(u, c) ==
  /\ inChat[u] = NoChat
  /\ c # u
  /\ Len(listeners[u][c]) < MaxViews[u]
  /\ Len(mutationQueue[u]) < MaxQueue[u]
  /\ bufferChat' = [bufferChat EXCEPT ![u] = Kept(u, c)]
  /\ LocallyWrite(u, CleanBuffer(u, c))
  /\ listeners' = [listeners EXCEPT ![u][c] = Append(@, << >>)]
  /\ LET p == Conversation(u, c)
         first == [chat |-> c, vc |-> Len(listeners[u][c]) + 1, snap |-> View(u, p)]
     IN  Enqueue(u, ViewCallbacks(u, Buffer(u)) \o
                      IF View(u, p) = {} THEN << >> ELSE <<first>>)
  /\ inChat' = [inChat EXCEPT ![u] = c]
  /\ UNCHANGED <<recents, cacheMessage, sent, lost, faults>>

\* Mutant of Back: leaving a chat removes its listeners.
BackRemovingListeners(u) ==
  /\ inChat[u] # NoChat
  /\ recents[u] < MaxViews[u]
  /\ ChatCallbacks(u, inChat[u]) = {}
  /\ inChat' = [inChat EXCEPT ![u] = NoChat]
  /\ recents' = [recents EXCEPT ![u] = @ + 1]
  /\ listeners' = [listeners EXCEPT ![u][inChat[u]] = << >>]
  /\ Enqueue(u, <<[chat |-> u, vc |-> recents[u] + 1, snap |-> View(u, Buffer(u))]>>)
  /\ UNCHANGED <<clientVars, cacheMessage, bufferChat, sent, lost, faults>>

\* "Back" presents a new tab bar with a new RecentViewController; the
\* ChatViewController and its listener stay.
Back(u) ==
  /\ inChat[u] # NoChat
  /\ recents[u] < MaxViews[u]
  /\ inChat' = [inChat EXCEPT ![u] = NoChat]
  /\ recents' = [recents EXCEPT ![u] = @ + 1]
  /\ Enqueue(u, <<[chat |-> u, vc |-> recents[u] + 1, snap |-> View(u, Buffer(u))]>>)
  /\ UNCHANGED <<clientVars, listeners, cacheMessage, bufferChat, sent, lost, faults>>

\* setData([timestamp: message], merge: true)
MergeInto(p, m) == [path |-> p, fields |-> {m}, merge |-> TRUE]

\* Mutants of Copies: no merging; the receiver's copy before the sender's.
CopiesReplacing(u, c, m) ==
  LET Replace(p) == [path |-> p, fields |-> {m}, merge |-> FALSE]
  IN  <<Replace(Buffer(c)), Replace(Conversation(u, c)), Replace(Conversation(c, u))>>

CopiesReceiverFirst(u, c, m) ==
  <<MergeInto(Buffer(c), m), MergeInto(Conversation(c, u), m), MergeInto(Conversation(u, c), m)>>

\* finishEditing: the receiver's badge, the sender's copy, the receiver's.
Copies(u, c, m) ==
  <<MergeInto(Buffer(c), m), MergeInto(Conversation(u, c), m), MergeInto(Conversation(c, u), m)>>

\* One message from u to c.  The clock of a device never gives the same
\* timestamp twice; the clocks of two devices may.
SendMessage(u, c, t) ==
  /\ \A m \in sent : m.from = u => m.key < t
  /\ Len(mutationQueue[u]) + 3 <= MaxQueue[u]
  /\ LocallyWrite(u, Copies(u, c, [key |-> t, from |-> u]))
  /\ Enqueue(u, ViewCallbacks(u, Conversation(u, c)))
  /\ sent' = sent \cup {[key |-> t, from |-> u, to |-> c]}
  /\ UNCHANGED <<appVars, lost, faults>>

FinishEditing(u, t) == inChat[u] # NoChat /\ SendMessage(u, inChat[u], t)

\* The upload of a recording is over: the closure of voiceButtonPressing
\* sends its address in the chat it was made in, wherever u is by now.
VoiceUploaded(u, c, t) == listeners[u][c] # << >> /\ SendMessage(u, c, t)
-----------------------------------------------------------------------------
(***************************************************************************)
(* Snapshot callbacks, on the main thread.                                 *)
(***************************************************************************)
\* Mutant of Fresh: only the newest row of a snapshot is appended.
FreshNewestOnly(S, shown, keys) ==
  {m \in S : m.key \notin shown /\ \A n \in S : n.key <= m.key}

\* The rows a controller appends for snapshot S: from the first key that is
\* not cached on, the cache is the controller's own array, so the test is
\* against that array.
Fresh(S, shown, keys) ==
  {m \in S : /\ \E n \in S : n.key \notin shown /\ n.key <= m.key
             /\ \/ m.key \notin keys
                \/ m.key \notin shown /\ \A n \in S : n.key < m.key => n.key \in shown}

\* Mutant of Ascending: the loop runs over the newest message first.
Descending(S) ==
  {s \in SeqOf(S, MaxTime) :
     /\ ToSet(s) = S
     /\ \A i, j \in DOMAIN s : i < j => s[i].key > s[j].key}

\* S in ascending order of keys, the order of the loop.
Ascending(S) ==
  {s \in SeqOf(S, MaxTime) :
     /\ ToSet(s) = S
     /\ \A i, j \in DOMAIN s : i < j => s[i].key < s[j].key}

\* Mutant of BufferCallback: the snapshot is merged into bufferChat.
BufferCallbackMerging(u) ==
  /\ mainQueue[u] # << >>
  /\ Head(mainQueue[u]).chat = u
  /\ bufferChat' = [bufferChat EXCEPT ![u] = @ \cup Head(mainQueue[u]).snap]
  /\ mainQueue' = [mainQueue EXCEPT ![u] = Tail(@)]
  /\ UNCHANGED <<clientVars, listeners, recents, inChat, cacheMessage, sent, lost, faults>>

\* The closure RecentViewController.listener() gives the buffer document.
BufferCallback(u) ==
  /\ mainQueue[u] # << >>
  /\ Head(mainQueue[u]).chat = u
  /\ bufferChat' = [bufferChat EXCEPT ![u] = Head(mainQueue[u]).snap]
  /\ mainQueue' = [mainQueue EXCEPT ![u] = Tail(@)]
  /\ UNCHANGED <<clientVars, listeners, recents, inChat, cacheMessage, sent, lost, faults>>

\* The closure ChatViewController.viewWillAppear gives the conversation.
ConversationCallback(u) ==
  /\ mainQueue[u] # << >>
  /\ LET e == Head(mainQueue[u])
         c == e.chat
         keys == listeners[u][c][e.vc]
         fresh == Fresh(e.snap, Shown(u, c), KeysOf(ToSet(keys)))
     IN  /\ c # u
         /\ IF fresh = {}
            THEN UNCHANGED <<listeners, cacheMessage>>
            ELSE \E rows \in Ascending(fresh) :
                   /\ listeners' = [listeners EXCEPT ![u][c][e.vc] = keys \o rows]
                   /\ cacheMessage' = [cacheMessage EXCEPT ![u][c] = keys \o rows]
  /\ mainQueue' = [mainQueue EXCEPT ![u] = Tail(@)]
  /\ UNCHANGED <<clientVars, recents, inChat, bufferChat, sent, lost, faults>>
-----------------------------------------------------------------------------
(***************************************************************************)
(* The network, and the process.                                           *)
(***************************************************************************)
PersistWrite(u) ==
  /\ Persist(u)
  /\ UNCHANGED <<appVars, mainQueue, sent, lost, faults>>

CommitWrite(u) ==
  /\ Commit(u)
  /\ UNCHANGED <<appVars, mainQueue, sent, lost, faults>>

WriteAnswered(u) ==
  /\ Acknowledge(u)
  /\ Enqueue(u, ViewCallbacks(u, Head(mutationQueue[u]).path))
  /\ UNCHANGED <<appVars, sent, lost, faults>>

Fault(u) ==
  /\ faults[u] < MaxFaults[u]
  /\ faults' = [faults EXCEPT ![u] = @ + 1]

StreamBroken(u) ==
  /\ RestartStream(u)
  /\ Fault(u)
  /\ UNCHANGED <<appVars, mainQueue, sent, lost>>

ReceiveSnapshot(u, p) ==
  /\ p \in Listened(u)
  /\ IsStale(u, p)
  /\ Watch(u, p)
  /\ Enqueue(u, ViewCallbacks(u, p))
  /\ UNCHANGED <<appVars, sent, lost, faults>>

\* What a launch finds and what it does not, whatever is on disk.
FreshProcess(u) ==
  /\ Fault(u)
  /\ lost' = [lost EXCEPT ![u] = @ \cup CutOff(u)]
  /\ applied' = [applied EXCEPT ![u] = 0]
  /\ caughtUp' = [caughtUp EXCEPT ![u] = {}]
  /\ listeners' = [listeners EXCEPT ![u] = [c \in User |-> << >>]]
  /\ recents' = [recents EXCEPT ![u] = 1]
  /\ inChat' = [inChat EXCEPT ![u] = NoChat]
  /\ cacheMessage' = [cacheMessage EXCEPT ![u] = [c \in User |-> << >>]]
  /\ bufferChat' = [bufferChat EXCEPT ![u] = {}]
  /\ UNCHANGED <<docs, remoteDocs, sent>>

\* Mutants of Relaunch: callbacks outlive the process; the queue does not.
RelaunchKeepingCallbacks(u) ==
  /\ FreshProcess(u)
  /\ mutationQueue' = [mutationQueue EXCEPT ![u] = OnDisk(u)]
  /\ UNCHANGED <<persisted, mainQueue>>

RelaunchWithoutPersistence(u) ==
  /\ FreshProcess(u)
  /\ mutationQueue' = [mutationQueue EXCEPT ![u] = << >>]
  /\ persisted' = [persisted EXCEPT ![u] = 0]
  /\ mainQueue' = [mainQueue EXCEPT ![u] = Callbacks(Buffer(u), 1, remoteDocs[u][Buffer(u)])]

\* The process is killed and launched again: the globals and the controllers
\* are gone, and with them the writes the worker had still to run; the cache
\* and the rest of the queue are on disk, and the streams start anew.
Relaunch(u) ==
  /\ FreshProcess(u)
  /\ mutationQueue' = [mutationQueue EXCEPT ![u] = OnDisk(u)]
  /\ mainQueue' = [mainQueue EXCEPT ![u] =
       Callbacks(Buffer(u), 1, LocalView(remoteDocs[u][Buffer(u)], OnDisk(u), Buffer(u)))]
  /\ UNCHANGED persisted

Next ==
  \E u \in User :
    \/ \E c \in User : OpenChat(u, c)
    \/ Back(u)
    \/ \E t \in Clock[u] :
         FinishEditing(u, t) \/ \E c \in User \ {u} : VoiceUploaded(u, c, t)
    \/ BufferCallback(u)
    \/ ConversationCallback(u)
    \/ PersistWrite(u)
    \/ CommitWrite(u)
    \/ WriteAnswered(u)
    \/ StreamBroken(u)
    \/ \E p \in ChatPath : ReceiveSnapshot(u, p)
    \/ Relaunch(u)

Spec == Init /\ [][Next]_vars
-----------------------------------------------------------------------------
(***************************************************************************)
(* Safety.                                                                 *)
(***************************************************************************)
Callback == [chat: User, vc: Nat, snap: Document]

\* Types, and the numbering of controllers: a waiting callback names one
\* that exists, so the array it appends to is there.
TypeOK ==
  /\ FsTypeOK
  /\ listeners \in [User -> [User -> Seq(Seq(Msg))]]
  /\ recents \in [User -> Nat]
  /\ inChat \in [User -> User \cup {NoChat}]
  /\ \A u \in User : inChat[u] # u
  /\ cacheMessage \in [User -> [User -> Seq(Msg)]]
  /\ bufferChat \in [User -> Document]
  /\ mainQueue \in [User -> Seq(Callback)]
  /\ \A u \in User : \A i \in 1..Len(mainQueue[u]) :
       LET e == mainQueue[u][i]
       IN  e.vc \in 1..(IF e.chat = u THEN recents[u] ELSE Len(listeners[u][e.chat]))
  /\ sent \subseteq {m \in [key: Time, from: User, to: User] : m.from # m.to}
  /\ lost \in [User -> SUBSET Mutation]
  /\ faults \in [User -> Nat]

\* Write i of u's queue puts a message with this key into document p.
WritesKey(u, i, p, key) ==
  mutationQueue[u][i].path = p /\ key \in KeysOf(mutationQueue[u][i].fields)

HasKey(p, key) == key \in KeysOf(docs[p])

StillQueued(u, p, key) == \E i \in 1..Len(mutationQueue[u]) : WritesKey(u, i, p, key)

\* The copy of message m in document p was not on disk when its sender's app
\* was killed.
CopyLost(m, p) == MergeInto(p, [key |-> m.key, from |-> m.from]) \in lost[m.from]

\* No message is lost between finishEditing and the two Conversation
\* documents but by a kill that comes before the worker has put the copy on
\* disk: any other copy is committed, or still in its sender's queue, so that
\* later kills, broken streams and the other side's writes cannot drop it.
NoMessageLost ==
  \A m \in sent : \A p \in {Conversation(m.from, m.to), Conversation(m.to, m.from)} :
    HasKey(p, m.key) \/ StillQueued(m.from, p, m.key) \/ CopyLost(m, p)

QueuedFor(u, p) == \E i \in 1..Len(mutationQueue[u]) : mutationQueue[u][i].path = p

\* Both sides end up with the same conversation: when neither has a write to
\* either document left, a message that one of the two holds and the other
\* does not was cut off by a kill between its two copies, or both sides sent
\* one at that very timestamp and the other document holds the other one.
CopiesAgree ==
  \A u \in User : \A c \in User \ {u} :
    LET p == Conversation(u, c)
        q == Conversation(c, u)
    IN  (\A v \in {u, c} : ~QueuedFor(v, p) /\ ~QueuedFor(v, q)) =>
          \A f \in docs[p] \ docs[q] :
            \/ CopyLost(f, q)
            \/ /\ HasKey(q, f.key)
               /\ [key |-> f.key, from |-> u, to |-> c] \in sent
               /\ [key |-> f.key, from |-> c, to |-> u] \in sent

\* A message reaches its receiver's document only after its sender's own
\* (finishEditing writes docRefc1 before docRefc2): what the receiver can
\* read, the sender finds again in the chat after a reinstallation.
OwnCopyFirst ==
  \A u \in User : \A c \in User \ {u} : \A f \in docs[Conversation(c, u)] :
    f.from = u => HasKey(Conversation(u, c), f.key)

\* Once the callbacks of a chat have run, the rows of cacheMessage are the
\* conversation the device sees, though only the first controller's array
\* is ever complete and it may be three screens ago.
RowsMirrorTheConversation ==
  \A u \in User : \A c \in User \ {u} :
    listeners[u][c] # << >> /\ ChatCallbacks(u, c) = {}
      => Shown(u, c) = KeysOf(View(u, Conversation(u, c)))

\* No row twice, and the messages of one sender in the order they were sent,
\* whichever of the two copies, echoes and snapshots brought them.
RowsInSendingOrder ==
  \A u, c \in User : LET rows == cacheMessage[u][c]
                     IN  \A i, j \in DOMAIN rows : i < j =>
                           /\ rows[i].key # rows[j].key
                           /\ rows[i].from = rows[j].from => rows[i].key < rows[j].key

\* The badges are counted from the buffer document as the device sees it, or
\* will be when the callbacks that wait have run: an old snapshot that
\* overwrites buffercleaner's bufferChat does not stay.
BadgesSettle ==
  \A u \in User :
    LET waiting == ChatCallbacks(u, u)
    IN  View(u, Buffer(u)) =
          IF waiting = {} THEN bufferChat[u]
          ELSE mainQueue[u][CHOOSE i \in waiting : \A j \in waiting : j <= i].snap

\* Rows on screen never vanish or move while the app runs: cacheMessage is
\* replaced by a controller's whole array, which always extends it.
RowsOnlyGrow ==
  [][\A u, c \in User : IsPrefix(cacheMessage[u][c], cacheMessage'[u][c])
                         \/ (\A d \in User : listeners'[u][d] = << >>)]_vars

\* A sender adds to a buffer but never takes a badge away: only a write of
\* the owner (buffercleaner) removes an entry of another key.
OnlyTheOwnerClearsBadges ==
  [][\A u \in User : \A m \in docs[Buffer(u)] :
       HasKey(Buffer(u), m.key)' \/ applied'[u] > applied[u]]_vars
\* Chat implements the conversations of MessageLog: a Conversation document
\* is one side's copy, and a message is kept or delivered when the backend
\* commits the write that carries it.  Streams that break and writes sent
\* twice, callbacks, visits and kills are steps nobody sees there.
Copy(u, c) == IF c = u THEN {} ELSE KeysOf(docs[Conversation(u, c)])

Log == INSTANCE MessageLog WITH copies <- [u \in User |-> [c \in User |-> Copy(u, c)]]

ImplementsLog == Log!Spec
-----------------------------------------------------------------------------
(***************************************************************************)
(* Liveness.  A device that runs drains its main thread; its streams are   *)
(* reopened with backoff whenever they break, so that a write that is sent *)
(* again and again is answered in the end, and a listened document that    *)
(* changed is brought in the end.                                          *)
(***************************************************************************)
Fairness ==
  \A u \in User :
    /\ WF_vars(BufferCallback(u) \/ ConversationCallback(u))
    /\ WF_vars(PersistWrite(u))
    /\ WF_vars(CommitWrite(u))
    /\ WF_vars(WriteAnswered(u))
    /\ WF_vars(ReceiveSnapshot(u, Buffer(u)))
    /\ \A c \in User \ {u} : WF_vars(ReceiveSnapshot(u, Conversation(u, c)))

FairSpec == Spec /\ Fairness

\* A message sent to someone who has opened the chat is shown there in the
\* end, on whatever screen they are, unless their app is killed first, or the
\* sender's was killed before the receiver's copy was on disk.
SentIsShown ==
  \A u \in User : \A c \in User \ {u} : \A t \in Time :
    LET m == [key |-> t, from |-> u, to |-> c]
    IN  (m \in sent /\ listeners[c][u] # << >>)
          ~> (t \in Shown(c, u) \/ listeners[c][u] = << >> \/ CopyLost(m, Conversation(c, u)))
=============================================================================
