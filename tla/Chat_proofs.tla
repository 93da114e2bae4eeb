----------------------------- MODULE Chat_proofs -----------------------------
(***************************************************************************)
(* What Chat promises, for any number of users and any bounds: its types,  *)
(* that no message is lost on its way to the two Conversation documents,   *)
(* that the sender's own copy is there first, that the two documents agree *)
(* once nothing is queued for them, and that a user's badges are cleared   *)
(* by that user alone.  And what its screens show: the badges settle on    *)
(* the buffer document, the rows of a chat are the conversation its device *)
(* sees, they only grow, and they are in the order each sender sent them.  *)
(***************************************************************************)
EXTENDS Chat, TLAPS

Lemmas == INSTANCE FirestoreLemmas WITH
  Device <- User, Path <- ChatPath, Field <- Msg
-----------------------------------------------------------------------------
(***************************************************************************)
(* The steps of the client, as every action of the screens takes them.     *)
(***************************************************************************)
Restart(u) ==
  /\ applied' = [applied EXCEPT ![u] = 0]
  /\ caughtUp' = [caughtUp EXCEPT ![u] = {}]
  /\ UNCHANGED <<docs, remoteDocs, mutationQueue, persisted>>

Kill(u) ==
  /\ mutationQueue' = [mutationQueue EXCEPT ![u] = OnDisk(u)]
  /\ applied' = [applied EXCEPT ![u] = 0]
  /\ caughtUp' = [caughtUp EXCEPT ![u] = {}]
  /\ lost' = [lost EXCEPT ![u] = @ \cup CutOff(u)]
  /\ UNCHANGED <<docs, remoteDocs, persisted>>

ClientStep ==
  \/ \E u \in User, mutations \in Seq(Mutation) : LocallyWrite(u, mutations)
  \/ \E u \in User : Persist(u) \/ Commit(u) \/ Acknowledge(u) \/ Restart(u) \/ Kill(u)
  \/ \E u \in User, p \in ChatPath : Watch(u, p)
  \/ UNCHANGED clientVars

\* The client's types, stated here and in FirestoreLemmas, are the same.
LEMMA SameTypes ==
  /\ Lemmas!FirestoreAssumption
  /\ Lemmas!Document = Document
  /\ Lemmas!Mutation = Mutation
  /\ Lemmas!FsTypeOK <=> FsTypeOK
  /\ (Lemmas!FsTypeOK)' <=> FsTypeOK'
<1>1. Lemmas!FirestoreAssumption
  BY DEF Lemmas!FirestoreAssumption, Msg
<1>2. Lemmas!Document = Document
  BY DEF Lemmas!Document, Document
<1>3. Lemmas!Mutation = Mutation
  BY <1>2 DEF Lemmas!Mutation, Mutation
<1> QED  BY <1>1, <1>2, <1>3 DEF Lemmas!FsTypeOK, FsTypeOK

LEMMA SameKill ==
  ASSUME FsTypeOK, NEW u \in User, Kill(u)
  PROVE  Lemmas!Killed({u})
<1>1. PICK disk : disk = OnDisk(u)
  OBVIOUS
<1>2. Lemmas!OnDisk(u) = disk
  BY <1>1 DEF OnDisk, Lemmas!OnDisk
<1>3. mutationQueue' = [mutationQueue EXCEPT ![u] = disk]
  BY <1>1 DEF Kill
<1>4. /\ mutationQueue \in [User -> Seq(Mutation)]
      /\ applied \in [User -> Nat] /\ caughtUp \in [User -> SUBSET Nat]
  BY DEF FsTypeOK
<1>5. mutationQueue' = [d \in User |-> IF d \in {u} THEN Lemmas!OnDisk(d) ELSE mutationQueue[d]]
  BY <1>2, <1>3, <1>4
<1>6. /\ applied' = [d \in User |-> IF d \in {u} THEN 0 ELSE applied[d]]
      /\ caughtUp' = [d \in User |-> IF d \in {u} THEN {} ELSE caughtUp[d]]
  BY <1>4 DEF Kill
<1> QED  BY <1>5, <1>6 DEF Kill, Lemmas!Killed

\* Every step of the client keeps its types.
LEMMA ClientStepType ==
  ASSUME FsTypeOK, ClientStep
  PROVE  FsTypeOK'
<1> USE SameTypes
<1>1. ASSUME NEW u \in User, NEW mutations \in Seq(Mutation), LocallyWrite(u, mutations)
      PROVE  FsTypeOK'
  <2>1. Lemmas!LocallyWrite(u, mutations)
    BY <1>1 DEF LocallyWrite, Lemmas!LocallyWrite
  <2> QED  BY <1>1, <2>1, Lemmas!LocallyWriteType
<1>2. ASSUME NEW u \in User, Commit(u) PROVE FsTypeOK'
  <2>1. Lemmas!Commit(u)
    BY <1>2 DEF Commit, Lemmas!Commit, ApplyTo, Lemmas!ApplyTo,
                Overwrites, Lemmas!Overwrites
  <2> QED  BY <2>1, Lemmas!CommitType
<1>3. ASSUME NEW u \in User, Acknowledge(u) PROVE FsTypeOK'
  <2>1. Lemmas!Acknowledge(u)
    BY <1>3 DEF Acknowledge, Lemmas!Acknowledge, ApplyTo, Lemmas!ApplyTo,
                Overwrites, Lemmas!Overwrites
  <2> QED  BY <2>1, Lemmas!AcknowledgeType
<1>4. ASSUME NEW u \in User, Restart(u) PROVE FsTypeOK'
  BY <1>4, Lemmas!RestartStreamType DEF Restart
<1>5. ASSUME NEW u \in User, NEW p \in ChatPath, Watch(u, p) PROVE FsTypeOK'
  <2>1. Lemmas!Watch(u, p)
    BY <1>5 DEF Watch, Lemmas!Watch, CommittedOn, Lemmas!CommittedOn
  <2> QED  BY <2>1, Lemmas!WatchType
<1>6. CASE UNCHANGED clientVars
  BY <1>6 DEF clientVars, FsTypeOK
<1>7. ASSUME NEW u \in User, Persist(u) PROVE FsTypeOK'
  <2>1. Lemmas!Persist(u)
    BY <1>7 DEF Persist, Lemmas!Persist
  <2> QED  BY <2>1, Lemmas!PersistType
<1>8. ASSUME NEW u \in User, Kill(u) PROVE FsTypeOK'
  <2>1. Lemmas!Killed({u})
    BY <1>8, SameKill
  <2> QED  BY <2>1, Lemmas!KilledType
<1> QED  BY <1>1, <1>2, <1>3, <1>4, <1>5, <1>6, <1>7, <1>8 DEF ClientStep

-----------------------------------------------------------------------------
(***************************************************************************)
(* Facts about sequences and nested functions.                             *)
(***************************************************************************)
LEMMA ConcatMutations ==
  ASSUME NEW q \in Seq(Mutation), NEW r \in Seq(Mutation), NEW i \in 1..Len(q \o r)
  PROVE  \/ i \in 1..Len(q) /\ (q \o r)[i] = q[i]
         \/ i - Len(q) \in 1..Len(r) /\ (q \o r)[i] = r[i - Len(q)]
<1>1. Len(q \o r) = Len(q) + Len(r) /\ Len(q) \in Nat /\ Len(r) \in Nat
  OBVIOUS
<1>2. CASE i <= Len(q)
  BY <1>1, <1>2
<1>3. CASE i > Len(q)
  BY <1>1, <1>3
<1> QED  BY <1>1, <1>2, <1>3

LEMMA ConcatCallbacks ==
  ASSUME NEW q \in Seq(Callback), NEW r \in Seq(Callback), NEW i \in 1..Len(q \o r)
  PROVE  \/ i \in 1..Len(q) /\ (q \o r)[i] = q[i]
         \/ i - Len(q) \in 1..Len(r) /\ (q \o r)[i] = r[i - Len(q)]
<1>1. Len(q \o r) = Len(q) + Len(r) /\ Len(q) \in Nat /\ Len(r) \in Nat
  OBVIOUS
<1>2. CASE i <= Len(q)
  BY <1>1, <1>2
<1>3. CASE i > Len(q)
  BY <1>1, <1>3
<1> QED  BY <1>1, <1>2, <1>3

LEMMA OneCallback ==
  ASSUME NEW e \in Callback
  PROVE  \E q : q = <<e>> /\ q \in Seq(Callback) /\ Len(q) = 1 /\ q[1] = e
<1>1. <<e>> \in Seq(Callback) /\ Len(<<e>>) = 1 /\ <<e>>[1] = e
  OBVIOUS
<1> QED  BY <1>1

LEMMA ControllersExcept ==
  ASSUME NEW f \in [User -> [User -> Seq(Seq(Msg))]], NEW g, NEW u \in User, NEW c \in User,
         NEW v \in Seq(Seq(Msg)), g = [f EXCEPT ![u][c] = v]
  PROVE  /\ g \in [User -> [User -> Seq(Seq(Msg))]]
         /\ \A w, x \in User : g[w][x] = IF w = u /\ x = c THEN v ELSE f[w][x]
  OBVIOUS

LEMMA ControllersType ==
  ASSUME NEW f \in [User -> [User -> Seq(Seq(Msg))]], NEW u \in User, NEW c \in User
  PROVE  f[u][c] \in Seq(Seq(Msg)) /\ Len(f[u][c]) \in Nat
<1>1. f[u][c] \in Seq(Seq(Msg))
  OBVIOUS
<1> QED  BY <1>1
-----------------------------------------------------------------------------
(***************************************************************************)
(* Types.                                                                  *)
(***************************************************************************)
LEMMA Paths ==
  /\ \A u \in User : Buffer(u) \in ChatPath
  /\ \A u \in User : \A c \in User \ {u} : Conversation(u, c) \in ChatPath
  /\ \A p \in ChatPath : \/ p = Buffer(p.owner) /\ p.owner \in User /\ p.peer = p.owner
                         \/ /\ p = Conversation(p.owner, p.peer)
                            /\ p.owner \in User /\ p.peer \in User /\ p.owner # p.peer
  /\ \A u, v, w : Buffer(u) # Conversation(v, w)
  /\ \A u, v : Buffer(u) = Buffer(v) <=> u = v
  /\ \A u, v, x, y : Conversation(u, v) = Conversation(x, y) <=> u = x /\ v = y
<1>1. /\ \A u \in User : Buffer(u) \in ChatPath
      /\ \A u \in User : \A c \in User \ {u} : Conversation(u, c) \in ChatPath
  BY DEF ChatPath
<1>2. ASSUME NEW p \in ChatPath
      PROVE  \/ p = Buffer(p.owner) /\ p.owner \in User /\ p.peer = p.owner
             \/ /\ p = Conversation(p.owner, p.peer)
                /\ p.owner \in User /\ p.peer \in User /\ p.owner # p.peer
  <2>1. PICK u \in User : p = Buffer(u) \/ \E c \in User \ {u} : p = Conversation(u, c)
    BY DEF ChatPath
  <2>2. CASE p = Buffer(u)
    BY <2>2 DEF Buffer
  <2>3. ASSUME NEW c \in User \ {u}, p = Conversation(u, c)
        PROVE  /\ p = Conversation(p.owner, p.peer)
               /\ p.owner \in User /\ p.peer \in User /\ p.owner # p.peer
    BY <2>3 DEF Conversation
  <2> QED  BY <2>1, <2>2, <2>3
<1>3. \A u, v, w : Buffer(u) # Conversation(v, w)
  BY DEF Buffer, Conversation
<1>4. \A u, v : Buffer(u) = Buffer(v) <=> u = v
  BY DEF Buffer
<1>5. \A u, v, x, y : Conversation(u, v) = Conversation(x, y) <=> u = x /\ v = y
  BY DEF Conversation
<1> QED  BY <1>1, <1>2, <1>3, <1>4, <1>5

\* The parts of a write that carries a message.
LEMMA Carried ==
  \A p, m : MergeInto(p, m).path = p /\ MergeInto(p, m).fields = {m} /\ MergeInto(p, m).merge = TRUE
  BY DEF MergeInto

\* The writes of an action are mutations.
LEMMA CopiesType ==
  ASSUME NEW u \in User, NEW c \in User \ {u}, NEW m \in Msg
  PROVE  Copies(u, c, m) \in Seq(Mutation)
<1>1. {m} \in Document
  <2>1. {m} \in SUBSET Msg
    OBVIOUS
  <2> QED  BY <2>1 DEF Document
<1>2. \A p \in ChatPath : MergeInto(p, m) \in Mutation
  <2>1. TRUE \in BOOLEAN
    OBVIOUS
  <2> QED  BY <1>1, <2>1 DEF MergeInto, Mutation
<1>3. Buffer(c) \in ChatPath /\ Conversation(u, c) \in ChatPath /\ Conversation(c, u) \in ChatPath
  BY Paths
<1> QED  BY <1>2, <1>3 DEF Copies

LEMMA CleanBufferType ==
  ASSUME NEW u \in User, NEW c \in User, bufferChat \in [User -> Document]
  PROVE  Kept(u, c) \in Document /\ CleanBuffer(u, c) \in Seq(Mutation)
<1>1. Kept(u, c) \in Document
  BY DEF Kept, Document
<1> QED  BY <1>1, Paths DEF CleanBuffer, Mutation

\* Text and voice are sent in the same way, to somebody else.
LEMMA EachSends ==
  ASSUME TypeOK, NEW u \in User, NEW t \in Clock[u],
         FinishEditing(u, t) \/ \E c \in User \ {u} : VoiceUploaded(u, c, t)
  PROVE  \E c \in User \ {u} : SendMessage(u, c, t)
<1>1. CASE FinishEditing(u, t)
  <2>1. inChat[u] \in User \ {u} /\ SendMessage(u, inChat[u], t)
    BY <1>1 DEF FinishEditing, TypeOK
  <2> QED  BY <2>1
<1>2. CASE \E c \in User \ {u} : VoiceUploaded(u, c, t)
  BY <1>2 DEF VoiceUploaded
<1> QED  BY <1>1, <1>2

\* What a relaunch is to the client.
LEMMA RelaunchIsKill == ASSUME NEW u \in User, Relaunch(u) PROVE Kill(u)
  BY DEF Relaunch, FreshProcess, Kill

\* Every step of Chat is, as the client sees it, a client step.
LEMMA NextIsClientStep ==
  ASSUME TypeOK, [Next]_vars
  PROVE  ClientStep
<1>1. CASE UNCHANGED vars
  BY <1>1 DEF vars, ClientStep
<1>2. ASSUME NEW u \in User, NEW c \in User, OpenChat(u, c) PROVE ClientStep
  <2>1. CleanBuffer(u, c) \in Seq(Mutation)
    BY CleanBufferType DEF TypeOK
  <2> QED  BY <1>2, <2>1 DEF OpenChat, ClientStep
<1>3. ASSUME NEW u \in User, Back(u) \/ BufferCallback(u) \/ ConversationCallback(u)
      PROVE  ClientStep
  BY <1>3 DEF Back, BufferCallback, ConversationCallback, ClientStep
<1>4. ASSUME NEW u \in User, NEW c \in User \ {u}, NEW t \in Clock[u], SendMessage(u, c, t)
      PROVE  ClientStep
  <2>1. PICK m : m = [key |-> t, from |-> u]
    OBVIOUS
  <2>2. m \in Msg
    BY <2>1, ChatAssumption DEF Msg, Time
  <2>3. LocallyWrite(u, Copies(u, c, m))
    BY <1>4, <2>1 DEF SendMessage
  <2> QED  BY <2>2, <2>3, CopiesType DEF ClientStep
<1>5. ASSUME NEW u \in User, PersistWrite(u) \/ CommitWrite(u) \/ WriteAnswered(u) PROVE ClientStep
  BY <1>5 DEF PersistWrite, CommitWrite, WriteAnswered, ClientStep
<1>6. ASSUME NEW u \in User, NEW p \in ChatPath, ReceiveSnapshot(u, p) PROVE ClientStep
  BY <1>6 DEF ReceiveSnapshot, ClientStep
<1>7. ASSUME NEW u \in User, StreamBroken(u) PROVE ClientStep
  BY <1>7 DEF StreamBroken, RestartStream, Restart, ClientStep
<1>8. ASSUME NEW u \in User, Relaunch(u) PROVE ClientStep
  <2>1. Kill(u)
    BY <1>8, RelaunchIsKill
  <2> QED  BY <2>1 DEF ClientStep
<1> QED  BY <1>1, <1>2, <1>3, <1>4, <1>5, <1>6, <1>7, <1>8, EachSends DEF Next

\* What a device sees of a document is a document.
LEMMA ViewType ==
  ASSUME NEW doc \in Document, NEW queue \in Seq(Mutation), NEW p \in ChatPath
  PROVE  LocalView(doc, queue, p) \in Document
<1>1. Lemmas!LocalView(doc, queue, p) = LocalView(doc, queue, p)
  BY DEF Lemmas!LocalView, LocalView, Lemmas!Survives, Survives, Lemmas!Overwrites, Overwrites
<1> QED  BY <1>1, SameTypes, Lemmas!LocalViewType

\* A callback names a controller that exists.
CallbackOK(u, e) ==
  e \in Callback /\ e.vc \in 1..(IF e.chat = u THEN recents[u] ELSE Len(listeners[u][e.chat]))

QueueOK(u, q) == q \in Seq(Callback) /\ \A i \in 1..Len(q) : CallbackOK(u, q[i])

MainQueueOK == /\ mainQueue \in [User -> Seq(Callback)]
               /\ \A u \in User : QueueOK(u, mainQueue[u])

\* Every type but that of the main queue.
ScreenTypeOK ==
  /\ listeners \in [User -> [User -> Seq(Seq(Msg))]]
  /\ recents \in [User -> Nat]
  /\ inChat \in [User -> User \cup {NoChat}]
  /\ \A u \in User : inChat[u] # u
  /\ cacheMessage \in [User -> [User -> Seq(Msg)]]
  /\ bufferChat \in [User -> Document]
  /\ sent \subseteq {m \in [key: Time, from: User, to: User] : m.from # m.to}
  /\ lost \in [User -> SUBSET Mutation]
  /\ faults \in [User -> Nat]

LEMMA TypeParts == /\ TypeOK <=> FsTypeOK /\ ScreenTypeOK /\ MainQueueOK
                   /\ TypeOK' <=> FsTypeOK' /\ ScreenTypeOK' /\ MainQueueOK'
<1>1. ASSUME NEW q \in [User -> Seq(Callback)], NEW u \in User, NEW i \in 1..Len(q[u])
      PROVE  q[u][i] \in Callback
  BY <1>1
<1>2. TypeOK <=> FsTypeOK /\ ScreenTypeOK /\ MainQueueOK
  BY <1>1 DEF TypeOK, ScreenTypeOK, MainQueueOK, QueueOK, CallbackOK
<1>3. TypeOK' <=> FsTypeOK' /\ ScreenTypeOK' /\ MainQueueOK'
  BY <1>1 DEF TypeOK, ScreenTypeOK, MainQueueOK, QueueOK, CallbackOK
<1> QED  BY <1>2, <1>3

LEMMA CallbacksType ==
  ASSUME NEW p \in ChatPath, NEW n \in Nat, NEW snap \in Document
  PROVE  /\ Callbacks(p, n, snap) \in Seq(Callback)
         /\ Len(Callbacks(p, n, snap)) = n
         /\ \A i \in 1..n : /\ Callbacks(p, n, snap)[i].chat = p.peer
                            /\ Callbacks(p, n, snap)[i].vc = i
<1>1. p.peer \in User
  BY Paths
<1>2. \A i \in 1..n : [chat |-> p.peer, vc |-> i, snap |-> snap] \in Callback
  BY <1>1 DEF Callback
<1> QED  BY <1>2 DEF Callbacks

\* What the first RecentViewController of a process is told.
LEMMA FirstCallback ==
  ASSUME NEW u \in User, NEW snap \in Document, NEW q, q = Callbacks(Buffer(u), 1, snap)
  PROVE  q \in Seq(Callback) /\ Len(q) = 1 /\ q[1] \in Callback /\ q[1].chat = u /\ q[1].vc = 1
<1>1. PICK p \in ChatPath : p = Buffer(u)
  BY Paths
<1>2. PICK n \in Nat : n = 1
  OBVIOUS
<1>3. q = Callbacks(p, n, snap)
  BY <1>1, <1>2
<1>4. q \in Seq(Callback) /\ Len(q) = n /\ \A i \in 1..n : q[i].chat = p.peer /\ q[i].vc = i
  BY <1>3, CallbacksType
<1> QED  BY <1>1, <1>2, <1>4 DEF Buffer

\* A step of the client calls controllers that exist.
LEMMA ViewCallbacksType ==
  ASSUME FsTypeOK, FsTypeOK', ScreenTypeOK, MainQueueOK, NEW u \in User, NEW p \in ChatPath
  PROVE  QueueOK(u, ViewCallbacks(u, p))
<1>1. PICK n : n = ListenerCount(u, p)
  OBVIOUS
<1>2. PICK snap : snap = LocalView(remoteDocs'[u][p], mutationQueue'[u], p)
  OBVIOUS
<1>3. snap \in Document
  BY <1>2, ViewType DEF FsTypeOK
<1>4. n \in Nat /\ (n > 0 => n = IF p.peer = u THEN recents[u] ELSE Len(listeners[u][p.peer]))
  <2>1. recents[u] \in Nat /\ \A c \in User : Len(listeners[u][c]) \in Nat
    BY DEF ScreenTypeOK
  <2>2. CASE p = Buffer(u)
    BY <1>1, <2>1, <2>2 DEF ListenerCount, Buffer
  <2>3. CASE p # Buffer(u) /\ p.owner = u
    <3>1. p.peer \in User /\ p.peer # u
      BY <2>3, Paths
    <3> QED  BY <1>1, <2>1, <2>3, <3>1 DEF ListenerCount
  <2>4. CASE p # Buffer(u) /\ p.owner # u
    BY <1>1, <2>4 DEF ListenerCount
  <2> QED  BY <2>2, <2>3, <2>4
<1>5. QueueOK(u, Callbacks(p, n, snap))
  <2>1. PICK q : q = Callbacks(p, n, snap)
    OBVIOUS
  <2>2. /\ q \in Seq(Callback) /\ Len(q) = n
        /\ \A i \in 1..n : q[i].chat = p.peer /\ q[i].vc = i
    BY <1>3, <1>4, <2>1, CallbacksType
  <2>3. ASSUME NEW i \in 1..Len(q) PROVE CallbackOK(u, q[i])
    <3>1. q[i] \in Callback /\ q[i].chat = p.peer /\ q[i].vc = i /\ n > 0
      BY <1>4, <2>2
    <3>2. i \in 1..(IF p.peer = u THEN recents[u] ELSE Len(listeners[u][p.peer]))
      BY <1>4, <2>2, <3>1
    <3> QED  BY <3>1, <3>2 DEF CallbackOK
  <2> QED  BY <2>1, <2>2, <2>3 DEF QueueOK
<1>6. QueueOK(u, << >>)
  BY DEF QueueOK
<1> QED  BY <1>1, <1>2, <1>5, <1>6 DEF ViewCallbacks

\* Controllers are only ever added.
Grown ==
  /\ recents' \in [User -> Nat]
  /\ listeners' \in [User -> [User -> Seq(Seq(Msg))]]
  /\ \A u \in User : recents[u] <= recents'[u]
  /\ \A u, c \in User : Len(listeners[u][c]) <= Len(listeners'[u][c])

LEMMA StaysOK ==
  ASSUME ScreenTypeOK, Grown, NEW u \in User, NEW q, QueueOK(u, q)
  PROVE  QueueOK(u, q)'
<1>1. ASSUME NEW e, CallbackOK(u, e) PROVE CallbackOK(u, e)'
  <2>1. e.chat \in User /\ e.vc \in Nat
    BY <1>1 DEF CallbackOK, Callback
  <2>2. /\ recents[u] \in Nat /\ recents'[u] \in Nat
        /\ Len(listeners[u][e.chat]) \in Nat /\ Len(listeners'[u][e.chat]) \in Nat
    BY <2>1, ControllersType DEF ScreenTypeOK, Grown
  <2>3. recents[u] <= recents'[u] /\ Len(listeners[u][e.chat]) <= Len(listeners'[u][e.chat])
    BY <2>1 DEF Grown
  <2>4. CASE e.chat = u
    BY <1>1, <2>1, <2>2, <2>3, <2>4 DEF CallbackOK
  <2>5. CASE e.chat # u
    BY <1>1, <2>1, <2>2, <2>3, <2>5 DEF CallbackOK
  <2> QED  BY <2>4, <2>5
<1> QED  BY <1>1 DEF QueueOK

LEMMA EnqueueType ==
  ASSUME ScreenTypeOK, MainQueueOK, Grown, NEW u \in User, NEW cs, Enqueue(u, cs), QueueOK(u, cs)'
  PROVE  MainQueueOK'
<1>1. /\ mainQueue \in [User -> Seq(Callback)]
      /\ cs \in Seq(Callback)
      /\ mainQueue' = [mainQueue EXCEPT ![u] = @ \o cs]
  BY DEF MainQueueOK, QueueOK, Enqueue
<1>2. ASSUME NEW w \in User PROVE QueueOK(w, mainQueue[w])'
  <2>1. PICK q : q = mainQueue[w]
    OBVIOUS
  <2>2. q \in Seq(Callback) /\ QueueOK(w, q)'
    BY <2>1, <1>1, StaysOK DEF MainQueueOK
  <2>3. CASE w # u
    BY <1>1, <2>1, <2>2, <2>3
  <2>4. CASE w = u
    <3>1. mainQueue'[w] = q \o cs /\ q \o cs \in Seq(Callback)
      BY <1>1, <2>1, <2>2, <2>4
    <3>2. ASSUME NEW i \in 1..Len(q \o cs) PROVE CallbackOK(u, (q \o cs)[i])'
      <4>1. CASE i \in 1..Len(q) /\ (q \o cs)[i] = q[i]
        BY <2>2, <2>4, <4>1 DEF QueueOK
      <4>2. CASE i - Len(q) \in 1..Len(cs) /\ (q \o cs)[i] = cs[i - Len(q)]
        BY <4>2 DEF QueueOK
      <4> QED  BY <1>1, <2>2, <4>1, <4>2, ConcatCallbacks
    <3> QED  BY <2>4, <3>1, <3>2 DEF QueueOK
  <2> QED  BY <2>3, <2>4
<1> QED  BY <1>1, <1>2 DEF MainQueueOK

LEMMA DequeueType ==
  ASSUME ScreenTypeOK, MainQueueOK, Grown, NEW u \in User, mainQueue[u] # << >>,
         mainQueue' = [mainQueue EXCEPT ![u] = Tail(@)]
  PROVE  MainQueueOK'
<1>1. mainQueue \in [User -> Seq(Callback)]
  BY DEF MainQueueOK
<1>2. ASSUME NEW w \in User PROVE QueueOK(w, mainQueue[w])'
  <2>1. PICK q : q = mainQueue[w]
    OBVIOUS
  <2>2. q \in Seq(Callback) /\ QueueOK(w, q)'
    BY <2>1, <1>1, StaysOK DEF MainQueueOK
  <2>3. CASE w # u
    BY <1>1, <2>1, <2>2, <2>3
  <2>4. CASE w = u
    <3>1. mainQueue'[w] = Tail(q) /\ Tail(q) \in Seq(Callback)
      BY <1>1, <2>1, <2>2, <2>4
    <3>2. \A i \in 1..Len(Tail(q)) : i + 1 \in 1..Len(q) /\ Tail(q)[i] = q[i + 1]
      BY <2>1, <2>2, <2>4
    <3> QED  BY <2>2, <3>1, <3>2 DEF QueueOK
  <2> QED  BY <2>3, <2>4
<1> QED  BY <1>1, <1>2 DEF MainQueueOK

\* Steps that leave the controllers alone.
LEMMA NothingGrown == ASSUME ScreenTypeOK, UNCHANGED <<listeners, recents>> PROVE Grown
<1>1. \A u, c \in User : Len(listeners[u][c]) \in Nat /\ recents[u] \in Nat
  BY DEF ScreenTypeOK
<1> QED  BY <1>1 DEF Grown, ScreenTypeOK

LEMMA OpenChatType ==
  ASSUME FsTypeOK, FsTypeOK', ScreenTypeOK, MainQueueOK, NEW u \in User, NEW c \in User, OpenChat(u, c)
  PROVE  ScreenTypeOK' /\ MainQueueOK'
<1>1. c # u /\ Conversation(u, c) \in ChatPath /\ Buffer(u) \in ChatPath
  BY Paths DEF OpenChat
<1>2. listeners[u][c] \in Seq(Seq(Msg)) /\ << >> \in Seq(Msg)
  BY DEF ScreenTypeOK
<1>3. /\ Append(listeners[u][c], << >>) \in Seq(Seq(Msg))
      /\ Len(Append(listeners[u][c], << >>)) = Len(listeners[u][c]) + 1
      /\ Len(listeners[u][c]) \in Nat
  BY <1>2
<1>4. /\ listeners' = [listeners EXCEPT ![u][c] = Append(listeners[u][c], << >>)]
      /\ recents' = recents
  BY DEF OpenChat
<1>5. /\ listeners' \in [User -> [User -> Seq(Seq(Msg))]]
      /\ \A w, x \in User : listeners'[w][x] = IF w = u /\ x = c
                                               THEN Append(listeners[u][c], << >>)
                                               ELSE listeners[w][x]
  <2>1. PICK f, g, ls : f = listeners /\ g = listeners' /\ ls = Append(listeners[u][c], << >>)
    OBVIOUS
  <2>2. f \in [User -> [User -> Seq(Seq(Msg))]] /\ ls \in Seq(Seq(Msg)) /\ g = [f EXCEPT ![u][c] = ls]
    BY <1>3, <1>4, <2>1 DEF ScreenTypeOK
  <2>3. /\ g \in [User -> [User -> Seq(Seq(Msg))]]
        /\ \A w, x \in User : g[w][x] = IF w = u /\ x = c THEN ls ELSE f[w][x]
    BY <2>2, ControllersExcept
  <2> QED  BY <2>1, <2>3
<1>6. \A w, x \in User : listeners'[w][x] = IF w = u /\ x = c
                                            THEN Append(listeners[u][c], << >>)
                                            ELSE listeners[w][x]
  BY <1>5
<1>7. Grown
  <2>1. ASSUME NEW w \in User, NEW x \in User
        PROVE  Len(listeners[w][x]) <= Len(listeners'[w][x])
    <3>1. Len(listeners[w][x]) \in Nat
      BY ControllersType DEF ScreenTypeOK
    <3>2. CASE w = u /\ x = c
      <4>1. listeners'[w][x] = Append(listeners[u][c], << >>) /\ listeners[w][x] = listeners[u][c]
        BY <1>6, <3>2
      <4> QED  BY <1>3, <3>1, <4>1
    <3>3. CASE ~(w = u /\ x = c)
      <4>1. listeners'[w][x] = listeners[w][x]
        BY <1>6, <3>3
      <4> QED  BY <3>1, <4>1
    <3> QED  BY <3>2, <3>3
  <2>2. \A w \in User : recents[w] \in Nat
    BY DEF ScreenTypeOK
  <2>3. recents' \in [User -> Nat] /\ \A w \in User : recents[w] <= recents'[w]
    BY <1>4, <2>2 DEF ScreenTypeOK
  <2>4. listeners' \in [User -> [User -> Seq(Seq(Msg))]]
    BY <1>5
  <2> QED  BY <2>1, <2>3, <2>4 DEF Grown
<1>8. PICK first : first = [chat |-> c, vc |-> Len(listeners[u][c]) + 1,
                            snap |-> View(u, Conversation(u, c))]
  OBVIOUS
<1>9. CallbackOK(u, first)'
  <2>1. View(u, Conversation(u, c)) \in Document
    BY <1>1, ViewType DEF FsTypeOK, View
  <2>2. first \in Callback /\ first.chat = c /\ first.vc = Len(listeners[u][c]) + 1
    BY <1>3, <1>8, <2>1 DEF Callback
  <2>3. Len(listeners'[u][c]) = Len(listeners[u][c]) + 1
    BY <1>3, <1>6
  <2> QED  BY <1>1, <1>3, <2>2, <2>3 DEF CallbackOK
<1>10. PICK vs : vs = ViewCallbacks(u, Buffer(u)) /\ vs \in Seq(Callback) /\ QueueOK(u, vs)'
  <2>1. QueueOK(u, ViewCallbacks(u, Buffer(u)))
    BY <1>1, ViewCallbacksType
  <2>2. PICK vs : vs = ViewCallbacks(u, Buffer(u))
    OBVIOUS
  <2> QED  BY <1>7, <2>1, <2>2, StaysOK DEF QueueOK
<1>11. first \in Callback
  BY <1>9 DEF CallbackOK
<1>12. QueueOK(u, vs \o <<first>>)'
  <2>1. PICK one : one = <<first>> /\ one \in Seq(Callback) /\ Len(one) = 1 /\ one[1] = first
    BY <1>11, OneCallback
  <2>2. vs \o one \in Seq(Callback)
    BY <1>10, <2>1
  <2>3. ASSUME NEW i \in 1..Len(vs \o one) PROVE CallbackOK(u, (vs \o one)[i])'
    <3>1. CASE i \in 1..Len(vs) /\ (vs \o one)[i] = vs[i]
      BY <1>10, <3>1 DEF QueueOK
    <3>2. CASE i - Len(vs) \in 1..Len(one) /\ (vs \o one)[i] = one[i - Len(vs)]
      <4>1. i - Len(vs) = 1
        BY <2>1, <3>2
      <4> QED  BY <1>9, <2>1, <3>2, <4>1
    <3> QED  BY <1>10, <2>1, <3>1, <3>2, ConcatCallbacks
  <2> QED  BY <2>1, <2>2, <2>3 DEF QueueOK
<1>13. Enqueue(u, vs \o IF View(u, Conversation(u, c)) = {} THEN << >> ELSE <<first>>)
  BY <1>8, <1>10 DEF OpenChat
<1>14. MainQueueOK'
  <2>1. vs \o << >> = vs
    BY <1>10
  <2> QED  BY <1>7, <1>10, <1>12, <1>13, <2>1, EnqueueType
<1>15. ScreenTypeOK'
  <2>1. Kept(u, c) \in Document
    BY CleanBufferType DEF ScreenTypeOK
  <2>2. bufferChat' = [bufferChat EXCEPT ![u] = Kept(u, c)] /\ inChat' = [inChat EXCEPT ![u] = c]
    BY DEF OpenChat
  <2>3. bufferChat' \in [User -> Document]
    BY <2>1, <2>2 DEF ScreenTypeOK
  <2>4. inChat' \in [User -> User \cup {NoChat}] /\ \A w \in User : inChat'[w] # w
    BY <1>1, <2>2 DEF ScreenTypeOK
  <2> QED  BY <1>4, <1>5, <2>3, <2>4 DEF ScreenTypeOK, OpenChat
<1> QED  BY <1>14, <1>15

LEMMA BackType ==
  ASSUME FsTypeOK, ScreenTypeOK, MainQueueOK, NEW u \in User, Back(u)
  PROVE  ScreenTypeOK' /\ MainQueueOK'
<1>1. recents' = [recents EXCEPT ![u] = @ + 1] /\ listeners' = listeners /\ recents[u] \in Nat
  BY DEF Back, ScreenTypeOK
<1>2. recents' \in [User -> Nat] /\ \A w \in User : recents[w] <= recents'[w]
  BY <1>1 DEF ScreenTypeOK
<1>3. Grown
  <2>1. \A w, x \in User : Len(listeners[w][x]) \in Nat
    BY ControllersType DEF ScreenTypeOK
  <2> QED  BY <1>1, <1>2, <2>1 DEF Grown, ScreenTypeOK
<1>4. PICK e : e = [chat |-> u, vc |-> recents[u] + 1, snap |-> View(u, Buffer(u))]
  OBVIOUS
<1>5. CallbackOK(u, e)'
  <2>1. View(u, Buffer(u)) \in Document
    BY Paths, ViewType DEF FsTypeOK, View
  <2>2. e \in Callback /\ e.chat = u /\ e.vc = recents[u] + 1
    BY <1>1, <1>4, <2>1 DEF Callback
  <2>3. recents'[u] = recents[u] + 1
    BY <1>1 DEF ScreenTypeOK
  <2> QED  BY <1>1, <2>2, <2>3 DEF CallbackOK
<1>6. QueueOK(u, <<e>>)'
  BY <1>5 DEF QueueOK, CallbackOK
<1>7. Enqueue(u, <<e>>)
  BY <1>4 DEF Back
<1>8. MainQueueOK'
  BY <1>3, <1>6, <1>7, EnqueueType
<1>9. inChat' = [inChat EXCEPT ![u] = NoChat] /\ NoChat # u
  BY ChatAssumption DEF Back
<1>10. inChat' \in [User -> User \cup {NoChat}] /\ \A w \in User : inChat'[w] # w
  BY <1>9 DEF ScreenTypeOK
<1>11. UNCHANGED <<cacheMessage, bufferChat, sent, lost, faults>>
  BY DEF Back
<1>12. ScreenTypeOK'
  BY <1>1, <1>2, <1>10, <1>11 DEF ScreenTypeOK
<1> QED  BY <1>8, <1>12

\* The steps that make the client's callbacks wait.
LEMMA ClientCallsType ==
  ASSUME FsTypeOK, FsTypeOK', ScreenTypeOK, MainQueueOK, NEW u \in User, NEW p \in ChatPath,
         UNCHANGED <<listeners, recents>>, Enqueue(u, ViewCallbacks(u, p))
  PROVE  MainQueueOK'
<1>1. PICK vs : vs = ViewCallbacks(u, p)
  OBVIOUS
<1>2. Grown
  BY NothingGrown
<1>3. QueueOK(u, vs)'
  BY <1>1, <1>2, ViewCallbacksType, StaysOK
<1> QED  BY <1>1, <1>2, <1>3, EnqueueType

LEMMA SendMessageType ==
  ASSUME FsTypeOK, FsTypeOK', ScreenTypeOK, MainQueueOK, NEW u \in User,
         NEW c \in User \ {u}, NEW t \in Clock[u], SendMessage(u, c, t)
  PROVE  ScreenTypeOK' /\ MainQueueOK'
<1>1. t \in Time
  BY ChatAssumption DEF Time
<1>2. UNCHANGED <<appVars, lost, faults>> /\ UNCHANGED <<listeners, recents>>
  BY DEF SendMessage, appVars
<1>3. Enqueue(u, ViewCallbacks(u, Conversation(u, c)))
  BY DEF SendMessage
<1>4. MainQueueOK'
  BY <1>2, <1>3, Paths, ClientCallsType
<1>5. sent' = sent \cup {[key |-> t, from |-> u, to |-> c]}
  BY DEF SendMessage
<1>6. sent' \subseteq {m \in [key: Time, from: User, to: User] : m.from # m.to}
  BY <1>1, <1>5 DEF ScreenTypeOK
<1> QED  BY <1>2, <1>4, <1>6 DEF ScreenTypeOK, appVars

LEMMA BufferCallbackType ==
  ASSUME ScreenTypeOK, MainQueueOK, NEW u \in User, BufferCallback(u)
  PROVE  ScreenTypeOK' /\ MainQueueOK'
<1>1. mainQueue[u] \in Seq(Callback) /\ mainQueue[u] # << >>
  BY DEF MainQueueOK, BufferCallback
<1>2. Head(mainQueue[u]) \in Callback
  BY <1>1
<1>3. Head(mainQueue[u]).snap \in Document
  BY <1>2 DEF Callback
<1>4. UNCHANGED <<listeners, recents, inChat, cacheMessage, sent, lost, faults>>
  BY DEF BufferCallback
<1>5. bufferChat' = [bufferChat EXCEPT ![u] = Head(mainQueue[u]).snap]
      /\ mainQueue' = [mainQueue EXCEPT ![u] = Tail(@)]
  BY DEF BufferCallback
<1>6. bufferChat' \in [User -> Document]
  BY <1>3, <1>5 DEF ScreenTypeOK
<1>7. MainQueueOK'
  BY <1>1, <1>4, <1>5, NothingGrown, DequeueType
<1> QED  BY <1>4, <1>6, <1>7 DEF ScreenTypeOK

LEMMA ConversationCallbackType ==
  ASSUME ScreenTypeOK, MainQueueOK, NEW u \in User, ConversationCallback(u)
  PROVE  ScreenTypeOK' /\ MainQueueOK'
<1>1. mainQueue[u] \in Seq(Callback) /\ mainQueue[u] # << >>
  BY DEF MainQueueOK, ConversationCallback
<1>2. PICK e : e = Head(mainQueue[u])
  OBVIOUS
<1>3. e = mainQueue[u][1] /\ 1 \in 1..Len(mainQueue[u])
  BY <1>1, <1>2
<1>4. CallbackOK(u, e)
  BY <1>3 DEF MainQueueOK, QueueOK
<1>5. PICK c : c = e.chat
  OBVIOUS
<1>6. c \in User /\ c # u /\ e.snap \in Document /\ e.vc \in 1..Len(listeners[u][c])
  BY <1>2, <1>4, <1>5 DEF CallbackOK, Callback, ConversationCallback
<1>7. PICK keys : keys = listeners[u][c][e.vc]
  OBVIOUS
<1>8. listeners[u][c] \in Seq(Seq(Msg)) /\ keys \in Seq(Msg)
  <2>1. listeners[u][c] \in Seq(Seq(Msg))
    BY <1>6, ControllersType DEF ScreenTypeOK
  <2> QED  BY <1>6, <1>7, <2>1
<1>9. PICK fresh : fresh = Fresh(e.snap, Shown(u, c), KeysOf(ToSet(keys)))
  OBVIOUS
<1>10. fresh \subseteq Msg
  BY <1>6, <1>9 DEF Fresh, Document
<1>11. Grown /\ cacheMessage' \in [User -> [User -> Seq(Msg)]]
  <2>1. CASE UNCHANGED <<listeners, cacheMessage>>
    BY <2>1, NothingGrown DEF ConversationCallback, ScreenTypeOK
  <2>2. ASSUME NEW new \in Ascending(fresh),
               listeners' = [listeners EXCEPT ![u][c][e.vc] = keys \o new],
               cacheMessage' = [cacheMessage EXCEPT ![u][c] = keys \o new]
        PROVE  Grown /\ cacheMessage' \in [User -> [User -> Seq(Msg)]]
    <3>1. new \in Seq(Msg)
      BY <1>10 DEF Ascending, SeqOf
    <3>2. keys \o new \in Seq(Msg)
      BY <1>8, <3>1
    <3>3. cacheMessage' \in [User -> [User -> Seq(Msg)]]
      BY <1>6, <2>2, <3>2 DEF ScreenTypeOK
    <3>4. PICK ls : ls = [listeners[u][c] EXCEPT ![e.vc] = keys \o new]
      OBVIOUS
    <3>5. ls \in Seq(Seq(Msg)) /\ Len(ls) = Len(listeners[u][c])
      BY <1>6, <1>8, <3>2, <3>4
    <3>6. listeners' = [listeners EXCEPT ![u][c] = ls]
      BY <1>6, <2>2, <3>4 DEF ScreenTypeOK
    <3>7. /\ listeners' \in [User -> [User -> Seq(Seq(Msg))]]
          /\ \A w, x \in User : listeners'[w][x] = IF w = u /\ x = c THEN ls ELSE listeners[w][x]
      <4>1. PICK f, g : f = listeners /\ g = listeners'
        OBVIOUS
      <4>2. f \in [User -> [User -> Seq(Seq(Msg))]] /\ g = [f EXCEPT ![u][c] = ls]
        BY <3>6, <4>1 DEF ScreenTypeOK
      <4>3. /\ g \in [User -> [User -> Seq(Seq(Msg))]]
            /\ \A w, x \in User : g[w][x] = IF w = u /\ x = c THEN ls ELSE f[w][x]
        BY <1>6, <3>5, <4>2, ControllersExcept
      <4> QED  BY <4>1, <4>3
    <3>8. ASSUME NEW w \in User, NEW x \in User
          PROVE  Len(listeners'[w][x]) = Len(listeners[w][x]) /\ Len(listeners[w][x]) \in Nat
      <4>1. Len(listeners[w][x]) \in Nat
        BY ControllersType DEF ScreenTypeOK
      <4> QED  BY <3>5, <3>7, <4>1
    <3>9. recents' = recents /\ \A w \in User : recents[w] \in Nat
      BY DEF ConversationCallback, ScreenTypeOK
    <3> QED  BY <3>3, <3>7, <3>8, <3>9 DEF Grown, ScreenTypeOK
  <2>3. \/ UNCHANGED <<listeners, cacheMessage>>
        \/ \E new \in Ascending(fresh) :
             /\ listeners' = [listeners EXCEPT ![u][c][e.vc] = keys \o new]
             /\ cacheMessage' = [cacheMessage EXCEPT ![u][c] = keys \o new]
    BY <1>2, <1>5, <1>7, <1>9 DEF ConversationCallback
  <2> QED  BY <2>1, <2>2, <2>3
<1>12. UNCHANGED <<recents, inChat, bufferChat, sent, lost, faults>>
       /\ mainQueue' = [mainQueue EXCEPT ![u] = Tail(@)]
  BY DEF ConversationCallback
<1>13. MainQueueOK'
  BY <1>1, <1>11, <1>12, DequeueType
<1> QED  BY <1>11, <1>12, <1>13 DEF ScreenTypeOK, Grown

LEMMA CutOffType ==
  ASSUME FsTypeOK, NEW u \in User
  PROVE  CutOff(u) \subseteq Mutation
<1>1. mutationQueue[u] \in Seq(Mutation) /\ persisted[u] \in Nat
  BY DEF FsTypeOK
<1>2. (persisted[u] + 1)..Len(mutationQueue[u]) \subseteq 1..Len(mutationQueue[u])
  BY <1>1
<1> QED  BY <1>1, <1>2 DEF CutOff

LEMMA RelaunchType ==
  ASSUME FsTypeOK, FsTypeOK', ScreenTypeOK, MainQueueOK, NEW u \in User, Relaunch(u)
  PROVE  ScreenTypeOK' /\ MainQueueOK'
<1>1. /\ listeners' = [listeners EXCEPT ![u] = [c \in User |-> << >>]]
      /\ recents' = [recents EXCEPT ![u] = 1]
      /\ inChat' = [inChat EXCEPT ![u] = NoChat]
      /\ cacheMessage' = [cacheMessage EXCEPT ![u] = [c \in User |-> << >>]]
      /\ bufferChat' = [bufferChat EXCEPT ![u] = {}]
      /\ faults' = [faults EXCEPT ![u] = @ + 1]
      /\ lost' = [lost EXCEPT ![u] = @ \cup CutOff(u)]
      /\ sent' = sent
  BY DEF Relaunch, FreshProcess, Fault
<1>2. {} \in Document /\ NoChat # u
  BY ChatAssumption DEF Document
<1>3. ScreenTypeOK'
  <2>1. listeners' \in [User -> [User -> Seq(Seq(Msg))]]
    <3>1. PICK none : none = [c \in User |-> << >>]
      OBVIOUS
    <3>2. none \in [User -> Seq(Seq(Msg))]
      BY <3>1
    <3>3. listeners' = [listeners EXCEPT ![u] = none]
      BY <1>1, <3>1
    <3> QED  BY <3>2, <3>3 DEF ScreenTypeOK
  <2>2. cacheMessage' \in [User -> [User -> Seq(Msg)]]
    <3>1. PICK none : none = [c \in User |-> << >>]
      OBVIOUS
    <3>2. none \in [User -> Seq(Msg)]
      BY <3>1
    <3>3. cacheMessage' = [cacheMessage EXCEPT ![u] = none]
      BY <1>1, <3>1
    <3> QED  BY <3>2, <3>3 DEF ScreenTypeOK
  <2>3. recents' \in [User -> Nat] /\ faults' \in [User -> Nat]
    BY <1>1 DEF ScreenTypeOK
  <2>4. inChat' \in [User -> User \cup {NoChat}] /\ \A w \in User : inChat'[w] # w
    BY <1>1, <1>2 DEF ScreenTypeOK
  <2>5. bufferChat' \in [User -> Document]
    BY <1>1, <1>2 DEF ScreenTypeOK
  <2>6. lost' \in [User -> SUBSET Mutation]
    BY <1>1, CutOffType DEF ScreenTypeOK
  <2> QED  BY <1>1, <2>1, <2>2, <2>3, <2>4, <2>5, <2>6 DEF ScreenTypeOK
<1>4. PICK q : q = Callbacks(Buffer(u), 1, LocalView(remoteDocs[u][Buffer(u)], OnDisk(u), Buffer(u)))
  OBVIOUS
<1>5. mainQueue' = [mainQueue EXCEPT ![u] = q]
  BY <1>4 DEF Relaunch
<1>6. QueueOK(u, q)'
  <2>1. PICK snap : snap = LocalView(remoteDocs[u][Buffer(u)], OnDisk(u), Buffer(u))
    OBVIOUS
  <2>2. snap \in Document
    <3>1. OnDisk(u) \in Seq(Mutation)
      <4>1. mutationQueue' = [mutationQueue EXCEPT ![u] = OnDisk(u)]
        BY DEF Relaunch
      <4> QED  BY <4>1 DEF FsTypeOK
    <3> QED  BY <2>1, <3>1, Paths, ViewType DEF FsTypeOK
  <2>3. q \in Seq(Callback) /\ Len(q) = 1 /\ q[1] \in Callback /\ q[1].chat = u /\ q[1].vc = 1
    BY <1>4, <2>1, <2>2, FirstCallback
  <2>4. recents'[u] = 1
    BY <1>1 DEF ScreenTypeOK
  <2>5. CallbackOK(u, q[1])'
    BY <2>3, <2>4 DEF CallbackOK
  <2> QED  BY <2>3, <2>5 DEF QueueOK
<1>7. ASSUME NEW w \in User, w # u PROVE QueueOK(w, mainQueue[w])'
  <2>1. mainQueue'[w] = mainQueue[w] /\ recents'[w] = recents[w] /\ listeners'[w] = listeners[w]
    BY <1>1, <1>5, <1>7 DEF MainQueueOK, ScreenTypeOK
  <2> QED  BY <2>1 DEF MainQueueOK, QueueOK, CallbackOK
<1>8. MainQueueOK'
  <2>1. q \in Seq(Callback)
    BY <1>6 DEF QueueOK
  <2>2. mainQueue' \in [User -> Seq(Callback)] /\ mainQueue'[u] = q
    BY <1>5, <2>1 DEF MainQueueOK
  <2> QED  BY <1>6, <1>7, <2>2 DEF MainQueueOK
<1> QED  BY <1>3, <1>8

LEMMA NextType ==
  ASSUME TypeOK, [Next]_vars
  PROVE  TypeOK'
<1>1. FsTypeOK /\ ScreenTypeOK /\ MainQueueOK
  BY TypeParts
<1>2. FsTypeOK'
  BY <1>1, NextIsClientStep, ClientStepType
<1>3. ASSUME UNCHANGED <<appVars, mainQueue, sent, lost>>, faults' \in [User -> Nat]
      PROVE  ScreenTypeOK' /\ MainQueueOK'
  BY <1>1, <1>3 DEF appVars, ScreenTypeOK, MainQueueOK, QueueOK, CallbackOK
<1>4. ASSUME UNCHANGED vars PROVE ScreenTypeOK' /\ MainQueueOK'
  BY <1>1, <1>3, <1>4 DEF vars, ScreenTypeOK
<1>5. ASSUME NEW u \in User, NEW c \in User, OpenChat(u, c) PROVE ScreenTypeOK' /\ MainQueueOK'
  BY <1>1, <1>2, <1>5, OpenChatType
<1>6. ASSUME NEW u \in User, Back(u) PROVE ScreenTypeOK' /\ MainQueueOK'
  BY <1>1, <1>6, BackType
<1>7. ASSUME NEW u \in User, NEW c \in User \ {u}, NEW t \in Clock[u], SendMessage(u, c, t)
      PROVE  ScreenTypeOK' /\ MainQueueOK'
  BY <1>1, <1>2, <1>7, SendMessageType
<1>8. ASSUME NEW u \in User, BufferCallback(u) PROVE ScreenTypeOK' /\ MainQueueOK'
  BY <1>1, <1>8, BufferCallbackType
<1>9. ASSUME NEW u \in User, ConversationCallback(u) PROVE ScreenTypeOK' /\ MainQueueOK'
  BY <1>1, <1>9, ConversationCallbackType
<1>10. ASSUME NEW u \in User, PersistWrite(u) \/ CommitWrite(u) PROVE ScreenTypeOK' /\ MainQueueOK'
  BY <1>1, <1>3, <1>10 DEF PersistWrite, CommitWrite, ScreenTypeOK
<1>11. ASSUME NEW u \in User, StreamBroken(u) PROVE ScreenTypeOK' /\ MainQueueOK'
  <2>1. faults' \in [User -> Nat]
    BY <1>1, <1>11 DEF StreamBroken, Fault, ScreenTypeOK
  <2> QED  BY <1>3, <1>11, <2>1 DEF StreamBroken
<1>12. ASSUME NEW u \in User, NEW p \in ChatPath,
              Enqueue(u, ViewCallbacks(u, p)), UNCHANGED <<appVars, sent, lost, faults>>
       PROVE  ScreenTypeOK' /\ MainQueueOK'
  <2>1. MainQueueOK'
    BY <1>1, <1>2, <1>12, ClientCallsType DEF appVars
  <2>2. ScreenTypeOK'
    BY <1>1, <1>12 DEF ScreenTypeOK, appVars
  <2> QED  BY <2>1, <2>2
<1>13. ASSUME NEW u \in User, WriteAnswered(u) PROVE ScreenTypeOK' /\ MainQueueOK'
  <2>1. applied[u] > 0 /\ Enqueue(u, ViewCallbacks(u, Head(mutationQueue[u]).path))
    BY <1>13 DEF WriteAnswered, Acknowledge
  <2>2. mutationQueue[u] \in Seq(Mutation) /\ Len(mutationQueue[u]) > 0
    <3>1. /\ mutationQueue[u] \in Seq(Mutation) /\ applied[u] \in Nat /\ persisted[u] \in Nat
          /\ applied[u] <= persisted[u] /\ persisted[u] <= Len(mutationQueue[u])
      BY <1>1 DEF FsTypeOK
    <3> QED  BY <2>1, <3>1
  <2>3. PICK m \in Mutation : m = Head(mutationQueue[u])
    BY <2>2
  <2>4. PICK p \in ChatPath : p = m.path
    BY DEF Mutation
  <2>5. Enqueue(u, ViewCallbacks(u, p)) /\ UNCHANGED <<appVars, sent, lost, faults>>
    BY <1>13, <2>1, <2>3, <2>4 DEF WriteAnswered
  <2> QED  BY <1>12, <2>5
<1>14. ASSUME NEW u \in User, NEW p \in ChatPath, ReceiveSnapshot(u, p)
       PROVE  ScreenTypeOK' /\ MainQueueOK'
  BY <1>12, <1>14 DEF ReceiveSnapshot
<1>15. ASSUME NEW u \in User, Relaunch(u) PROVE ScreenTypeOK' /\ MainQueueOK'
  BY <1>1, <1>2, <1>15, RelaunchType
<1>16. ScreenTypeOK' /\ MainQueueOK'
  BY <1>4, <1>5, <1>6, <1>7, <1>8, <1>9, <1>10, <1>11, <1>13, <1>14, <1>15,
     EachSends DEF Next
<1> QED  BY <1>2, <1>16, TypeParts

LEMMA InitType == Init => TypeOK
<1> SUFFICES ASSUME Init PROVE TypeOK
  OBVIOUS
<1>1. FsTypeOK
  <2>1. Lemmas!FsInit
    BY DEF Init, FsInit, Lemmas!FsInit
  <2> QED  BY <2>1, SameTypes, Lemmas!FsInitType
<1>2. ScreenTypeOK
  <2>1. PICK none : none = [c \in User |-> << >>]
    OBVIOUS
  <2>2. none \in [User -> Seq(Seq(Msg))] /\ none \in [User -> Seq(Msg)]
    BY <2>1
  <2>3. listeners = [u \in User |-> none] /\ cacheMessage = [u \in User |-> none]
    BY <2>1 DEF Init
  <2>4. {} \in Document /\ \A u \in User : NoChat # u
    BY ChatAssumption DEF Document
  <2> QED  BY <2>2, <2>3, <2>4 DEF Init, ScreenTypeOK
<1>3. ASSUME NEW u \in User PROVE QueueOK(u, mainQueue[u])
  <2>1. PICK q : q = mainQueue[u]
    OBVIOUS
  <2>2. PICK snap : snap = {}
    OBVIOUS
  <2>3. q = Callbacks(Buffer(u), 1, snap) /\ snap \in Document /\ recents[u] = 1
    BY <2>1, <2>2 DEF Init, Document
  <2>4. q \in Seq(Callback) /\ Len(q) = 1 /\ q[1] \in Callback /\ q[1].chat = u /\ q[1].vc = 1
    BY <2>3, FirstCallback
  <2>5. CallbackOK(u, q[1])
    BY <2>3, <2>4 DEF CallbackOK
  <2> QED  BY <2>1, <2>4, <2>5 DEF QueueOK
<1>4. mainQueue \in [User -> Seq(Callback)]
  <2>1. DOMAIN mainQueue = User /\ mainQueue = [u \in User |-> mainQueue[u]]
    BY DEF Init
  <2>2. \A u \in User : mainQueue[u] \in Seq(Callback)
    BY <1>3 DEF QueueOK
  <2> QED  BY <2>1, <2>2
<1> QED  BY <1>1, <1>2, <1>3, <1>4, TypeParts DEF MainQueueOK

\* Every variable keeps its type, and every waiting callback names a
\* controller that exists when it runs, through visits, kills and relaunches.
THEOREM TypeCorrect == Spec => []TypeOK
<1>1. TypeOK /\ [Next]_vars => TypeOK'
  BY NextType
<1> QED  BY InitType, <1>1, PTL DEF Spec
-----------------------------------------------------------------------------
(***************************************************************************)
(* The invariant behind the transcripts.  What is queued for a             *)
(* Conversation document merges a message its sender really sent; what is  *)
(* committed is there and stays; and the receiver's copy stands behind the *)
(* sender's own.                                                           *)
(***************************************************************************)
Chats == {p \in ChatPath : p.coll = "Conversation"}

Said(p, f) ==
  \E m \in sent : /\ m.key = f.key /\ m.from = f.from
                  /\ \/ m.from = p.owner /\ m.to = p.peer
                     \/ m.from = p.peer /\ m.to = p.owner

\* The sender's own copy is committed, or is queued before write i.
OwnCopy(w, i, p, key) ==
  \/ HasKey(Conversation(w, p.owner), key)
  \/ \E j \in 1..(i - 1) : WritesKey(w, j, Conversation(w, p.owner), key)

EntryOK(w, i, e) ==
  /\ e.merge \/ e.path = Buffer(w)
  /\ e.path \in Chats =>
       \A f \in e.fields : /\ f.from = w /\ Said(e.path, f)
                           /\ i <= applied[w] => HasKey(e.path, f.key)
                           /\ e.path.owner # w => OwnCopy(w, i, e.path, f.key)

QueuesOK == \A w \in User : \A i \in 1..Len(mutationQueue[w]) :
              EntryOK(w, i, mutationQueue[w][i])

DocsOK == \A p \in Chats : \A f \in docs[p] : Said(p, f)

ChatInv == QueuesOK /\ DocsOK /\ NoMessageLost /\ OwnCopyFirst

LEMMA ChatsParts ==
  /\ \A p \in Chats : /\ p = Conversation(p.owner, p.peer) /\ p \in ChatPath
                      /\ p.owner \in User /\ p.peer \in User /\ p.owner # p.peer
                      /\ \A w : p # Buffer(w)
  /\ \A u \in User : \A c \in User \ {u} : Conversation(u, c) \in Chats
  /\ \A w : Buffer(w) \notin Chats
<1>1. \A u, c : Conversation(u, c).coll = "Conversation" /\ Buffer(u).coll = "Buffer"
  BY DEF Conversation, Buffer
<1>2. \A w : Buffer(w) \notin Chats
  BY <1>1 DEF Chats
<1>3. \A u \in User : \A c \in User \ {u} : Conversation(u, c) \in Chats
  BY <1>1, Paths DEF Chats
<1>4. ASSUME NEW p \in Chats
      PROVE  /\ p = Conversation(p.owner, p.peer) /\ p \in ChatPath
             /\ p.owner \in User /\ p.peer \in User /\ p.owner # p.peer
             /\ \A w : p # Buffer(w)
  BY <1>2, Paths DEF Chats
<1> QED  BY <1>2, <1>3, <1>4

\* Everything below needs of Conversation and Buffer is in ChatsParts.
LEMMA ConversationParts ==
  \A u, c : Conversation(u, c).owner = u /\ Conversation(u, c).peer = c
  BY DEF Conversation

\* The invariant of the queues survives when keys and messages are only added
\* and the queue and the number of committed writes stay.
LEMMA EntryStays ==
  ASSUME NEW w \in User, NEW i \in Nat, NEW e, EntryOK(w, i, e),
         \A p \in Chats : \A key : HasKey(p, key) => HasKey(p, key)',
         sent \subseteq sent',
         \A j \in 1..(i - 1) : \A p, key : WritesKey(w, j, p, key) => WritesKey(w, j, p, key)',
         i <= applied'[w] => i <= applied[w]
  PROVE  EntryOK(w, i, e)'
<1>1. ASSUME NEW p, NEW f, Said(p, f) PROVE Said(p, f)'
  BY <1>1 DEF Said
<1>2. ASSUME NEW p \in Chats, NEW key, p.owner # w, OwnCopy(w, i, p, key)
      PROVE  OwnCopy(w, i, p, key)'
  <2>1. Conversation(w, p.owner) \in Chats
    BY <1>2, ChatsParts
  <2> QED  BY <1>2, <2>1 DEF OwnCopy
<1>3. ASSUME e.path \in Chats, NEW f \in e.fields
      PROVE  /\ f.from = w /\ Said(e.path, f)'
             /\ i <= applied'[w] => HasKey(e.path, f.key)'
             /\ e.path.owner # w => OwnCopy(w, i, e.path, f.key)'
  <2>1. f.from = w /\ Said(e.path, f) /\ (i <= applied[w] => HasKey(e.path, f.key))
        /\ (e.path.owner # w => OwnCopy(w, i, e.path, f.key))
    BY <1>3 DEF EntryOK
  <2>2. i <= applied'[w] => HasKey(e.path, f.key)'
    BY <1>3, <2>1
  <2> QED  BY <1>1, <1>2, <1>3, <2>1, <2>2
<1> QED  BY <1>3 DEF EntryOK

\* The write the backend commits next is one that is on disk.
LEMMA NextOnDisk ==
  ASSUME FsTypeOK, NEW u \in User, Commit(u)
  PROVE  /\ applied[u] + 1 \in 1..Len(mutationQueue[u])
         /\ applied[u] \in Nat /\ persisted[u] \in Nat /\ applied[u] + 1 <= persisted[u]
<1>1. /\ applied[u] \in Nat /\ persisted[u] \in Nat /\ Len(mutationQueue[u]) \in Nat
      /\ persisted[u] <= Len(mutationQueue[u])
  BY DEF FsTypeOK
<1>2. applied[u] < persisted[u]
  BY DEF Commit
<1> QED  BY <1>1, <1>2

\* Only the owner of a buffer takes keys out of a document, and only of it.
LEMMA CommitKeepsKeys ==
  ASSUME FsTypeOK, QueuesOK, NEW u \in User, Commit(u),
         NEW p \in ChatPath, p # Buffer(u), NEW key, HasKey(p, key)
  PROVE  HasKey(p, key)'
<1>1. PICK n : n = applied[u] + 1
  OBVIOUS
<1>2. n \in 1..Len(mutationQueue[u])
  BY <1>1, NextOnDisk
<1>3. PICK m \in Mutation : m = mutationQueue[u][n]
  BY <1>2 DEF FsTypeOK
<1>4. m.merge \/ m.path # p
  BY <1>2, <1>3 DEF QueuesOK, EntryOK
<1>5. docs' = [docs EXCEPT ![m.path] = ApplyTo(m, @)]
  BY <1>1, <1>3 DEF Commit
<1>6. PICK f \in docs[p] : f.key = key
  BY DEF HasKey, KeysOf
<1>7. m.path \in ChatPath /\ DOMAIN docs = ChatPath
  BY DEF Mutation, FsTypeOK
<1>8. CASE m.path # p
  BY <1>5, <1>6, <1>7, <1>8 DEF HasKey, KeysOf
<1>9. CASE m.path = p /\ m.merge
  <2>1. docs'[p] = ApplyTo(m, docs[p])
    BY <1>5, <1>7, <1>9
  <2>2. \E g \in docs'[p] : g.key = key
    BY <1>6, <1>9, <2>1 DEF ApplyTo, Overwrites
  <2> QED  BY <2>2 DEF HasKey, KeysOf
<1> QED  BY <1>4, <1>8, <1>9

LEMMA QueueGrows ==
  ASSUME FsTypeOK, NEW u \in User, NEW ms \in Seq(Mutation), LocallyWrite(u, ms)
  PROVE  /\ UNCHANGED <<docs, applied>>
         /\ Len(mutationQueue[u]) \in Nat
         /\ \A j \in 1..Len(ms) : /\ Len(mutationQueue[u]) + j \in 1..Len(mutationQueue'[u])
                                  /\ mutationQueue'[u][Len(mutationQueue[u]) + j] = ms[j]
         /\ \A w \in User : \A i \in 1..Len(mutationQueue[w]) :
              i \in 1..Len(mutationQueue'[w]) /\ mutationQueue'[w][i] = mutationQueue[w][i]
         /\ \A w \in User : \A i \in 1..Len(mutationQueue'[w]) :
              \/ i \in 1..Len(mutationQueue[w])
              \/ /\ w = u /\ i - Len(mutationQueue[u]) \in 1..Len(ms)
                 /\ mutationQueue'[u][i] = ms[i - Len(mutationQueue[u])]
<1>1. PICK q \in Seq(Mutation) : q = mutationQueue[u]
  BY DEF FsTypeOK
<1>2. mutationQueue'[u] = q \o ms /\ \A w \in User \ {u} : mutationQueue'[w] = mutationQueue[w]
  BY <1>1 DEF LocallyWrite, FsTypeOK
<1>3. /\ Len(q) \in Nat /\ Len(ms) \in Nat /\ Len(q \o ms) = Len(q) + Len(ms)
      /\ \A i \in 1..Len(q) : (q \o ms)[i] = q[i]
      /\ \A j \in 1..Len(ms) : (q \o ms)[Len(q) + j] = ms[j]
  OBVIOUS
<1>4. \A i \in 1..Len(q \o ms) : \/ i \in 1..Len(q)
                                 \/ i - Len(q) \in 1..Len(ms) /\ (q \o ms)[i] = ms[i - Len(q)]
  BY ConcatMutations
<1>5. UNCHANGED <<docs, applied>> /\ Len(mutationQueue[u]) \in Nat
  BY <1>1 DEF LocallyWrite
<1>6. \A j \in 1..Len(ms) : Len(q) + j \in 1..Len(q \o ms)
  BY <1>3
<1>7. ASSUME NEW w \in User, NEW i \in 1..Len(mutationQueue[w])
      PROVE  i \in 1..Len(mutationQueue'[w]) /\ mutationQueue'[w][i] = mutationQueue[w][i]
  <2>1. CASE w = u
    BY <1>1, <1>2, <1>3, <2>1
  <2>2. CASE w # u
    BY <1>2, <2>2
  <2> QED  BY <2>1, <2>2
<1>8. ASSUME NEW w \in User, NEW i \in 1..Len(mutationQueue'[w])
      PROVE  \/ i \in 1..Len(mutationQueue[w])
             \/ /\ w = u /\ i - Len(mutationQueue[u]) \in 1..Len(ms)
                /\ mutationQueue'[u][i] = ms[i - Len(mutationQueue[u])]
  <2>1. CASE w = u
    BY <1>1, <1>2, <1>4, <2>1
  <2>2. CASE w # u
    BY <1>2, <2>2
  <2> QED  BY <2>1, <2>2
<1> QED  BY <1>1, <1>2, <1>3, <1>5, <1>6, <1>7, <1>8

LEMMA LocallyWriteInv ==
  ASSUME FsTypeOK, QueuesOK, DocsOK, OwnCopyFirst, sent \subseteq sent',
         NEW u \in User, NEW ms \in Seq(Mutation), LocallyWrite(u, ms),
         NEW n, n = Len(mutationQueue[u]), \A j \in 1..Len(ms) : EntryOK(u, n + j, ms[j])'
  PROVE  /\ QueuesOK' /\ DocsOK' /\ OwnCopyFirst'
         /\ \A w \in User : \A p, key : StillQueued(w, p, key) => StillQueued(w, p, key)'
<1>1. \A w \in User : \A i \in 1..Len(mutationQueue[w]) : \A p, key :
        WritesKey(w, i, p, key) => WritesKey(w, i, p, key)'
  BY QueueGrows DEF WritesKey
<1>2. \A p, key : HasKey(p, key) <=> HasKey(p, key)'
  BY QueueGrows DEF HasKey
<1>3. ASSUME NEW w \in User, NEW i \in 1..Len(mutationQueue'[w])
      PROVE  EntryOK(w, i, mutationQueue[w][i])'
  <2>1. CASE i \in 1..Len(mutationQueue[w])
    <3>1. PICK e : e = mutationQueue[w][i]
      OBVIOUS
    <3>2. EntryOK(w, i, e) /\ mutationQueue'[w][i] = e /\ applied' = applied
      BY <2>1, <3>1, QueueGrows DEF QueuesOK
    <3>3. 1..(i - 1) \subseteq 1..Len(mutationQueue[w])
      BY <2>1
    <3>4. \A j \in 1..(i - 1) : \A p, key : WritesKey(w, j, p, key) => WritesKey(w, j, p, key)'
      BY <1>1, <3>3
    <3>5. \A p \in Chats : \A key : HasKey(p, key) => HasKey(p, key)'
      BY <1>2
    <3>6. i \in Nat /\ (i <= applied'[w] => i <= applied[w])
      BY <2>1, <3>2
    <3>7. EntryOK(w, i, e)'
      BY <3>2, <3>4, <3>5, <3>6, EntryStays
    <3> QED  BY <3>2, <3>7
  <2>2. CASE /\ w = u /\ i - Len(mutationQueue[u]) \in 1..Len(ms)
             /\ mutationQueue'[u][i] = ms[i - Len(mutationQueue[u])]
    <3>1. PICK j \in 1..Len(ms) : j = i - Len(mutationQueue[u])
      BY <2>2
    <3>2. i = n + j
      BY <3>1, QueueGrows
    <3> QED  BY <2>2, <3>1, <3>2
  <2> QED  BY <2>1, <2>2, QueueGrows
<1>4. DocsOK'
  <2>1. \A p, f : Said(p, f) => Said(p, f)'
    BY DEF Said
  <2> QED  BY <2>1, QueueGrows DEF DocsOK
<1>5. OwnCopyFirst'
  BY <1>2, QueueGrows DEF OwnCopyFirst
<1>6. \A w \in User : \A p, key : StillQueued(w, p, key) => StillQueued(w, p, key)'
  BY <1>1, QueueGrows DEF StillQueued
<1> QED  BY <1>3, <1>4, <1>5, <1>6 DEF QueuesOK

LEMMA CommitInv ==
  ASSUME FsTypeOK, FsTypeOK', QueuesOK, DocsOK, OwnCopyFirst, sent' = sent, NEW u \in User, Commit(u)
  PROVE  QueuesOK' /\ DocsOK' /\ OwnCopyFirst'
<1>1. PICK n : n = applied[u] + 1
  OBVIOUS
<1>2. n \in 1..Len(mutationQueue[u]) /\ n \in Nat /\ applied[u] \in Nat
  BY <1>1, NextOnDisk
<1>3. PICK m \in Mutation : m = mutationQueue[u][n]
  BY <1>2 DEF FsTypeOK
<1>4. /\ mutationQueue' = mutationQueue
      /\ docs' = [docs EXCEPT ![m.path] = ApplyTo(m, @)]
      /\ applied'[u] = n /\ \A w \in User \ {u} : applied'[w] = applied[w]
  BY <1>1, <1>3 DEF Commit, FsTypeOK
<1>5. \A p \in Chats : \A key : HasKey(p, key) => HasKey(p, key)'
  BY CommitKeepsKeys, ChatsParts
<1>6. EntryOK(u, n, m)
  BY <1>2, <1>3 DEF QueuesOK
<1>7. ASSUME NEW p \in ChatPath
      PROVE  \/ docs'[p] = docs[p]
             \/ p = m.path /\ docs'[p] \subseteq docs[p] \cup m.fields /\ m.fields \subseteq docs'[p]
  <2>1. CASE p = m.path
    BY <1>4, <2>1 DEF ApplyTo, FsTypeOK
  <2>2. CASE p # m.path
    BY <1>4, <2>2 DEF FsTypeOK
  <2> QED  BY <2>1, <2>2
<1>8. m.path \in Chats => \A f \in m.fields : HasKey(m.path, f.key)'
  <2>1. m.path \in ChatPath /\ m.fields \subseteq docs'[m.path]
    BY <1>4 DEF Mutation, ApplyTo, FsTypeOK
  <2> QED  BY <2>1 DEF HasKey, KeysOf
<1>9. ASSUME NEW w \in User, NEW i \in 1..Len(mutationQueue[w])
      PROVE  EntryOK(w, i, mutationQueue[w][i])'
  <2>1. PICK e : e = mutationQueue[w][i]
    OBVIOUS
  <2>2. EntryOK(w, i, e) /\ mutationQueue'[w][i] = e
    BY <1>4, <2>1 DEF QueuesOK
  <2>3. \A j \in 1..(i - 1) : \A p, key : WritesKey(w, j, p, key) => WritesKey(w, j, p, key)'
    BY <1>4 DEF WritesKey
  <2>4. CASE ~(w = u /\ i = n)
    <3>1. i <= applied'[w] => i <= applied[w]
      BY <1>1, <1>2, <1>4, <2>4
    <3> QED  BY <1>5, <2>2, <2>3, <3>1, EntryStays
  <2>5. CASE w = u /\ i = n
    <3>1. e = m
      BY <1>3, <2>1, <2>5
    <3>2. ASSUME m.path \in Chats, NEW f \in m.fields
          PROVE  /\ f.from = w /\ Said(m.path, f)'
                 /\ i <= applied'[w] => HasKey(m.path, f.key)'
                 /\ m.path.owner # w => OwnCopy(w, i, m.path, f.key)'
      <4>1. /\ f.from = w /\ Said(m.path, f) /\ HasKey(m.path, f.key)'
            /\ m.path.owner # w => OwnCopy(w, i, m.path, f.key)
        BY <1>6, <1>8, <2>5, <3>2 DEF EntryOK
      <4>2. Said(m.path, f)'
        BY <4>1 DEF Said
      <4>3. m.path.owner # w => Conversation(w, m.path.owner) \in Chats
        BY <3>2, ChatsParts
      <4>4. m.path.owner # w => OwnCopy(w, i, m.path, f.key)'
        BY <1>5, <2>3, <4>1, <4>3 DEF OwnCopy
      <4> QED  BY <4>1, <4>2, <4>4
    <3> QED  BY <1>6, <2>2, <3>1, <3>2 DEF EntryOK
  <2> QED  BY <2>4, <2>5
<1>10. ASSUME NEW p \in Chats, NEW f \in docs'[p] PROVE Said(p, f)'
  <2>1. p \in ChatPath
    BY ChatsParts
  <2>2. f \in docs[p] \/ (p = m.path /\ f \in m.fields)
    BY <1>7, <1>10, <2>1
  <2>3. Said(p, f)
    BY <1>6, <2>2 DEF DocsOK, EntryOK
  <2> QED  BY <2>3 DEF Said
<1>11. ASSUME NEW v \in User, NEW c \in User \ {v}, NEW f \in docs'[Conversation(c, v)], f.from = v
       PROVE  HasKey(Conversation(v, c), f.key)'
  <2>1. PICK p \in Chats : p = Conversation(c, v)
    BY ChatsParts
  <2>2. PICK own \in Chats : own = Conversation(v, c)
    BY ChatsParts
  <2>3. p \in ChatPath /\ p.owner = c
    BY <2>1, ChatsParts, ConversationParts
  <2>4. CASE f \in docs[p]
    <3>1. HasKey(own, f.key)
      BY <1>11, <2>1, <2>2, <2>4 DEF OwnCopyFirst
    <3> QED  BY <1>5, <2>2, <3>1
  <2>5. CASE p = m.path /\ f \in m.fields
    <3>1. v = u /\ OwnCopy(u, n, p, f.key)
      BY <1>6, <1>11, <2>3, <2>5 DEF EntryOK
    <3>2. CASE HasKey(own, f.key)
      BY <1>5, <2>2, <3>2
    <3>3. ASSUME NEW j \in 1..(n - 1), WritesKey(u, j, own, f.key)
          PROVE  HasKey(own, f.key)
      <4>1. j \in 1..Len(mutationQueue[u]) /\ j <= applied[u]
        BY <1>1, <1>2
      <4>2. PICK e : e = mutationQueue[u][j]
        OBVIOUS
      <4>3. EntryOK(u, j, e) /\ e.path = own /\ f.key \in KeysOf(e.fields)
        BY <3>3, <4>1, <4>2 DEF QueuesOK, WritesKey
      <4>4. PICK g \in e.fields : g.key = f.key
        BY <4>3 DEF KeysOf
      <4> QED  BY <4>1, <4>3, <4>4 DEF EntryOK
    <3>4. HasKey(own, f.key)
      BY <2>2, <2>3, <3>1, <3>2, <3>3 DEF OwnCopy
    <3> QED  BY <1>5, <2>2, <3>4
  <2> QED  BY <1>7, <1>11, <2>1, <2>3, <2>4, <2>5
<1> QED  BY <1>4, <1>9, <1>10, <1>11 DEF QueuesOK, DocsOK, OwnCopyFirst

\* A queue from which its first write is taken.
LEMMA QueueShrinks ==
  ASSUME FsTypeOK, NEW u \in User, Acknowledge(u)
  PROVE  /\ docs' = docs /\ 1 <= applied[u] /\ applied'[u] = applied[u] - 1
         /\ 1 \in 1..Len(mutationQueue[u])
         /\ \A i \in Nat : i \in 1..Len(mutationQueue'[u]) <=> i + 1 \in 2..Len(mutationQueue[u])
         /\ \A i \in 1..Len(mutationQueue'[u]) : mutationQueue'[u][i] = mutationQueue[u][i + 1]
         /\ \A w \in User \ {u} : applied'[w] = applied[w] /\ mutationQueue'[w] = mutationQueue[w]
<1>1. PICK q \in Seq(Mutation) : q = mutationQueue[u]
  BY DEF FsTypeOK
<1>2. 1 <= applied[u] /\ applied[u] \in Nat /\ applied[u] <= Len(q) /\ Len(q) \in Nat
  <2>1. /\ applied[u] \in Nat /\ persisted[u] \in Nat /\ Len(q) \in Nat
        /\ applied[u] <= persisted[u] /\ persisted[u] <= Len(q) /\ applied[u] > 0
    BY <1>1 DEF Acknowledge, FsTypeOK
  <2> QED  BY <2>1
<1>3. mutationQueue'[u] = Tail(q) /\ \A w \in User \ {u} : mutationQueue'[w] = mutationQueue[w]
  BY <1>1 DEF Acknowledge, FsTypeOK
<1>4. Len(Tail(q)) = Len(q) - 1 /\ \A i \in 1..Len(Tail(q)) : Tail(q)[i] = q[i + 1]
  BY <1>2
<1>5. applied'[u] = applied[u] - 1 /\ \A w \in User \ {u} : applied'[w] = applied[w]
  BY DEF Acknowledge, FsTypeOK
<1>6. docs' = docs
  BY DEF Acknowledge
<1>7. \A i \in Nat : i \in 1..Len(Tail(q)) <=> i + 1 \in 2..Len(q)
  BY <1>2, <1>4
<1> QED  BY <1>1, <1>2, <1>3, <1>4, <1>5, <1>6, <1>7

LEMMA AcknowledgeInv ==
  ASSUME FsTypeOK, FsTypeOK', QueuesOK, DocsOK, OwnCopyFirst, sent' = sent, NEW u \in User,
         Acknowledge(u)
  PROVE  /\ QueuesOK' /\ DocsOK' /\ OwnCopyFirst'
         /\ \A w \in User : \A p \in Chats : \A key :
              StillQueued(w, p, key) => HasKey(p, key)' \/ StillQueued(w, p, key)'
<1>1. \A p, key : HasKey(p, key) <=> HasKey(p, key)'
  BY QueueShrinks DEF HasKey
<1>2. \A p, f : Said(p, f) <=> Said(p, f)'
  BY DEF Said
\* What leaves the queue is committed.
<1>3. ASSUME NEW p \in Chats, NEW key, WritesKey(u, 1, p, key) PROVE HasKey(p, key)
  <2>1. PICK e : e = mutationQueue[u][1]
    OBVIOUS
  <2>2. EntryOK(u, 1, e) /\ 1 <= applied[u]
    BY <2>1, QueueShrinks DEF QueuesOK
  <2>3. e.path = p /\ \E f \in e.fields : f.key = key
    BY <1>3, <2>1 DEF WritesKey, KeysOf
  <2> QED  BY <2>2, <2>3 DEF EntryOK
<1>4. ASSUME NEW i \in Nat, i + 1 \in 2..Len(mutationQueue[u]), NEW p, NEW key
      PROVE  WritesKey(u, i + 1, p, key) => WritesKey(u, i, p, key)'
  <2>1. mutationQueue'[u][i] = mutationQueue[u][i + 1]
    BY <1>4, QueueShrinks
  <2> QED  BY <2>1 DEF WritesKey
<1>5. ASSUME NEW w \in User, NEW i \in 1..Len(mutationQueue'[w])
      PROVE  EntryOK(w, i, mutationQueue[w][i])'
  <2>1. PICK e : e = mutationQueue'[w][i]
    OBVIOUS
  <2>2. CASE w # u
    <3>1. EntryOK(w, i, e) /\ applied'[w] = applied[w] /\ i \in Nat
      BY <2>1, <2>2, QueueShrinks DEF QueuesOK
    <3>2. \A j \in 1..(i - 1) : \A p, key : WritesKey(w, j, p, key) => WritesKey(w, j, p, key)'
      BY <2>2, QueueShrinks DEF WritesKey
    <3>3. \A p \in Chats : \A key : HasKey(p, key) => HasKey(p, key)'
      BY <1>1
    <3>4. i <= applied'[w] => i <= applied[w]
      BY <3>1
    <3>5. EntryOK(w, i, e)'
      BY <3>1, <3>2, <3>3, <3>4, EntryStays
    <3> QED  BY <2>1, <3>5
  <2>3. CASE w = u
    <3>1. i \in Nat /\ i + 1 \in 2..Len(mutationQueue[u]) /\ e = mutationQueue[u][i + 1]
      BY <2>1, <2>3, QueueShrinks
    <3>2. EntryOK(u, i + 1, e) /\ (i <= applied'[u] => i + 1 <= applied[u])
      <4>1. i + 1 \in 1..Len(mutationQueue[u])
        BY <3>1
      <4>2. applied[u] \in Nat /\ applied'[u] = applied[u] - 1
        BY QueueShrinks DEF FsTypeOK
      <4> QED  BY <3>1, <4>1, <4>2 DEF QueuesOK
    <3>3. ASSUME NEW p \in Chats, NEW key, p.owner # u, OwnCopy(u, i + 1, p, key)
          PROVE  OwnCopy(u, i, p, key)'
      <4>1. PICK own \in Chats : own = Conversation(u, p.owner)
        BY <3>3, ChatsParts
      <4>2. CASE HasKey(own, key)
        BY <1>1, <4>1, <4>2 DEF OwnCopy
      <4>3. ASSUME NEW j \in 1..i, WritesKey(u, j, own, key)
            PROVE  HasKey(own, key)' \/ \E k \in 1..(i - 1) : WritesKey(u, k, own, key)'
        <5>1. CASE j = 1
          BY <1>1, <1>3, <4>3, <5>1
        <5>2. CASE j # 1
          <6>1. PICK k \in 1..(i - 1) : j = k + 1
            BY <3>1, <5>2
          <6>2. k \in Nat /\ k + 1 \in 2..Len(mutationQueue[u])
            BY <3>1, <6>1
          <6> QED  BY <1>4, <4>3, <6>1, <6>2
        <5> QED  BY <5>1, <5>2
      <4>4. HasKey(own, key) \/ \E j \in 1..i : WritesKey(u, j, own, key)
        BY <3>1, <3>3, <4>1 DEF OwnCopy
      <4> QED  BY <4>1, <4>2, <4>3, <4>4 DEF OwnCopy
    <3>4. EntryOK(u, i, e)'
      BY <1>1, <1>2, <3>2, <3>3 DEF EntryOK
    <3> QED  BY <2>1, <2>3, <3>4
  <2> QED  BY <2>2, <2>3
<1>6. ASSUME NEW w \in User, NEW p \in Chats, NEW key, StillQueued(w, p, key)
      PROVE  HasKey(p, key)' \/ StillQueued(w, p, key)'
  <2>1. PICK j \in 1..Len(mutationQueue[w]) : WritesKey(w, j, p, key)
    BY <1>6 DEF StillQueued
  <2>2. CASE w # u
    BY <2>1, <2>2, QueueShrinks DEF StillQueued, WritesKey
  <2>3. CASE w = u /\ j = 1
    BY <1>1, <1>3, <2>1, <2>3
  <2>4. CASE w = u /\ j # 1
    <3>1. PICK k \in Nat : j = k + 1
      BY <2>1
    <3>2. k + 1 \in 2..Len(mutationQueue[u])
      BY <2>1, <2>4, <3>1
    <3>3. WritesKey(u, k, p, key)' /\ k \in 1..Len(mutationQueue'[u])
      BY <1>4, <2>1, <2>4, <3>1, <3>2, QueueShrinks
    <3> QED  BY <2>4, <3>3 DEF StillQueued
  <2> QED  BY <2>2, <2>3, <2>4
<1>7. DocsOK' /\ OwnCopyFirst'
  BY <1>1, <1>2, QueueShrinks DEF DocsOK, OwnCopyFirst
<1> QED  BY <1>5, <1>6, <1>7 DEF QueuesOK

\* A kill cuts the queue at one place, and counts what is behind it as lost.
IsCut(w) ==
  /\ Len(mutationQueue'[w]) \in Nat
  /\ \A i \in 1..Len(mutationQueue'[w]) :
       i \in 1..Len(mutationQueue[w]) /\ mutationQueue'[w][i] = mutationQueue[w][i]
  /\ \A i \in 1..Len(mutationQueue[w]) :
       i \in 1..Len(mutationQueue'[w]) \/ mutationQueue[w][i] \in lost'[w]

LEMMA KillCuts ==
  ASSUME TypeOK, NEW u \in User, Kill(u), NEW w \in User
  PROVE  IsCut(w)
<1>1. Lemmas!FsTypeOK /\ Lemmas!Killed({u})
  BY SameTypes, SameKill DEF TypeOK
<1>2. w = u => CutOff(u) \subseteq lost'[w]
  BY DEF Kill, TypeOK
<1>3. Lemmas!CutOff(u) = CutOff(u)
  BY DEF CutOff, Lemmas!CutOff
<1>4. \A i \in 1..Len(mutationQueue[w]) :
        \/ i \in 1..Len(mutationQueue'[w])
        \/ w \in {u} /\ mutationQueue[w][i] \in Lemmas!CutOff(w)
  BY <1>1, SameTypes, Lemmas!KilledQueues
<1>5. \A i \in 1..Len(mutationQueue'[w]) :
        i \in 1..Len(mutationQueue[w]) /\ mutationQueue'[w][i] = mutationQueue[w][i]
  BY <1>1, SameTypes, Lemmas!KilledQueues
<1>6. Len(mutationQueue'[w]) \in Nat
  BY <1>1, SameTypes, Lemmas!KilledQueues
<1> QED  BY <1>2, <1>3, <1>4, <1>5, <1>6 DEF IsCut

\* A write to a Conversation document carries one message.
OneMessage(e) == e.path \in Chats => \E f : e.fields = {f}

OneMessageEach == \A w \in User : \A i \in 1..Len(mutationQueue[w]) : OneMessage(mutationQueue[w][i])

LEMMA LocallyWriteOneMessage ==
  ASSUME FsTypeOK, OneMessageEach, NEW u \in User, NEW ms \in Seq(Mutation), LocallyWrite(u, ms),
         \A j \in 1..Len(ms) : OneMessage(ms[j])
  PROVE  OneMessageEach'
<1>1. ASSUME NEW w \in User, NEW i \in 1..Len(mutationQueue'[w])
      PROVE  OneMessage(mutationQueue'[w][i])
  <2>1. \/ i \in 1..Len(mutationQueue[w]) /\ mutationQueue'[w][i] = mutationQueue[w][i]
        \/ \E j \in 1..Len(ms) : mutationQueue'[w][i] = ms[j]
    <3>1. CASE i \in 1..Len(mutationQueue[w])
      BY <3>1, QueueGrows
    <3>2. CASE /\ w = u /\ i - Len(mutationQueue[u]) \in 1..Len(ms)
               /\ mutationQueue'[u][i] = ms[i - Len(mutationQueue[u])]
      <4>1. PICK j \in 1..Len(ms) : j = i - Len(mutationQueue[u])
        BY <3>2
      <4> QED  BY <3>2, <4>1
    <3>3. \/ i \in 1..Len(mutationQueue[w])
          \/ /\ w = u /\ i - Len(mutationQueue[u]) \in 1..Len(ms)
             /\ mutationQueue'[u][i] = ms[i - Len(mutationQueue[u])]
      BY QueueGrows
    <3> QED  BY <3>1, <3>2, <3>3
  <2> QED  BY <2>1 DEF OneMessageEach
<1>2. \A e : OneMessage(e)' <=> OneMessage(e)
  BY DEF OneMessage
<1> QED  BY <1>1, <1>2 DEF OneMessageEach, OneMessage

LEMMA OneMessageStep ==
  ASSUME TypeOK, OneMessageEach, [Next]_vars
  PROVE  OneMessageEach'
<1>1. FsTypeOK
  BY TypeParts
<1>2. ASSUME UNCHANGED mutationQueue PROVE OneMessageEach'
  BY <1>2 DEF OneMessageEach, OneMessage
<1>3. CASE UNCHANGED vars
  BY <1>2, <1>3 DEF vars, clientVars
<1>4. ASSUME NEW u \in User, NEW c \in User, OpenChat(u, c) PROVE OneMessageEach'
  <2>1. PICK ms \in Seq(Mutation) : ms = CleanBuffer(u, c)
    BY CleanBufferType DEF TypeOK
  <2>2. PICK e : e = [path |-> Buffer(u), fields |-> Kept(u, c), merge |-> FALSE]
    OBVIOUS
  <2>3. ms = <<e>> /\ e.path = Buffer(u)
    BY <2>1, <2>2 DEF CleanBuffer
  <2>4. \A j \in 1..Len(ms) : OneMessage(ms[j])
    <3>1. \A j \in 1..Len(ms) : ms[j] = e
      BY <2>3
    <3> QED  BY <2>3, <3>1, ChatsParts DEF OneMessage
  <2> QED  BY <1>1, <1>4, <2>1, <2>4, LocallyWriteOneMessage DEF OpenChat
<1>5. ASSUME NEW u \in User, Back(u) \/ BufferCallback(u) \/ ConversationCallback(u)
      PROVE  OneMessageEach'
  BY <1>2, <1>5 DEF Back, BufferCallback, ConversationCallback, clientVars
<1>6. ASSUME NEW u \in User, NEW c \in User \ {u}, NEW t \in Clock[u], SendMessage(u, c, t)
      PROVE  OneMessageEach'
  <2>1. t \in Time
    BY ChatAssumption DEF Time
  <2>2. PICK m \in Msg : m = [key |-> t, from |-> u]
    BY <2>1 DEF Msg
  <2>3. PICK ms \in Seq(Mutation) : ms = Copies(u, c, m)
    BY <2>1, CopiesType
  <2>4. ASSUME NEW j \in 1..Len(ms) PROVE OneMessage(ms[j])
    <3>1. ms[j].fields = {m}
      <4>1. Len(ms) = 3 /\ ms[1] = MergeInto(Buffer(c), m)
            /\ ms[2] = MergeInto(Conversation(u, c), m) /\ ms[3] = MergeInto(Conversation(c, u), m)
        BY <2>3 DEF Copies
      <4>2. j = 1 \/ j = 2 \/ j = 3
        BY <4>1
      <4> QED  BY <4>1, <4>2, Carried
    <3> QED  BY <3>1 DEF OneMessage
  <2>5. LocallyWrite(u, ms)
    BY <1>6, <2>2, <2>3 DEF SendMessage
  <2> QED  BY <1>1, <2>4, <2>5, LocallyWriteOneMessage
<1>7. ASSUME NEW u \in User, PersistWrite(u) \/ CommitWrite(u) PROVE OneMessageEach'
  BY <1>2, <1>7 DEF PersistWrite, Persist, CommitWrite, Commit
<1>8. ASSUME NEW u \in User, WriteAnswered(u) PROVE OneMessageEach'
  <2>1. Acknowledge(u)
    BY <1>8 DEF WriteAnswered
  <2>2. ASSUME NEW w \in User, NEW i \in 1..Len(mutationQueue'[w])
        PROVE  OneMessage(mutationQueue'[w][i])
    <3>1. CASE w # u
      BY <1>1, <2>1, <3>1, QueueShrinks DEF OneMessageEach
    <3>2. CASE w = u
      <4>1. i \in Nat /\ i + 1 \in 2..Len(mutationQueue[u])
            /\ mutationQueue'[u][i] = mutationQueue[u][i + 1]
        BY <1>1, <2>1, <3>2, QueueShrinks
      <4>2. i + 1 \in 1..Len(mutationQueue[u])
        BY <4>1
      <4> QED  BY <3>2, <4>1, <4>2 DEF OneMessageEach
    <3> QED  BY <3>1, <3>2
  <2> QED  BY <2>2 DEF OneMessageEach, OneMessage
<1>9. ASSUME NEW u \in User, StreamBroken(u) PROVE OneMessageEach'
  BY <1>2, <1>9 DEF StreamBroken, RestartStream
<1>10. ASSUME NEW u \in User, NEW p \in ChatPath, ReceiveSnapshot(u, p) PROVE OneMessageEach'
  BY <1>2, <1>10 DEF ReceiveSnapshot, Watch
<1>11. ASSUME NEW u \in User, Relaunch(u) PROVE OneMessageEach'
  <2>1. \A w \in User : IsCut(w)
    BY <1>11, RelaunchIsKill, KillCuts
  <2>2. ASSUME NEW w \in User, NEW i \in 1..Len(mutationQueue'[w])
        PROVE  OneMessage(mutationQueue'[w][i])
    <3>1. i \in 1..Len(mutationQueue[w]) /\ mutationQueue'[w][i] = mutationQueue[w][i]
      BY <2>1 DEF IsCut
    <3> QED  BY <3>1 DEF OneMessageEach
  <2> QED  BY <2>2 DEF OneMessageEach, OneMessage
<1> QED  BY <1>3, <1>4, <1>5, <1>6, <1>7, <1>8, <1>9, <1>10, <1>11, EachSends DEF Next

LEMMA OneMessageInit == Init => OneMessageEach
BY DEF Init, FsInit, OneMessageEach

\* What such a write is.
LEMMA OneCopy ==
  ASSUME TypeOK, QueuesOK, OneMessageEach, NEW w \in User, NEW j \in 1..Len(mutationQueue[w]),
         NEW p \in Chats, mutationQueue[w][j].path = p
  PROVE  \E k \in Time : mutationQueue[w][j] = MergeInto(p, [key |-> k, from |-> w])
<1>1. PICK e \in Mutation : e = mutationQueue[w][j]
  BY DEF TypeOK, FsTypeOK
<1>2. EntryOK(w, j, e) /\ e.path = p
  BY <1>1 DEF QueuesOK
<1>3. PICK f : e.fields = {f}
  BY <1>1, <1>2 DEF OneMessageEach, OneMessage
<1>4. e.merge = TRUE
  <2>1. e.merge
    BY <1>2, ChatsParts DEF EntryOK
  <2>2. e.merge \in BOOLEAN
    BY DEF Mutation
  <2> QED  BY <2>1, <2>2
<1>5. f \in Msg /\ f.from = w
  <2>1. f \in e.fields /\ e.fields \in Document
    BY <1>3 DEF Mutation
  <2> QED  BY <1>2, <2>1 DEF EntryOK, Document
<1>6. f = [key |-> f.key, from |-> w] /\ f.key \in Time
  BY <1>5 DEF Msg
<1>7. e = [path |-> e.path, fields |-> e.fields, merge |-> e.merge]
  BY DEF Mutation
<1>8. e = MergeInto(p, [key |-> f.key, from |-> w])
  BY <1>2, <1>3, <1>4, <1>6, <1>7 DEF MergeInto
<1> QED  BY <1>1, <1>6, <1>8

\* What a kill makes of the invariant: a copy it cuts off is lost.
LEMMA KillInv ==
  ASSUME TypeOK, ChatInv, OneMessageEach, NEW u \in User, Kill(u), sent' = sent
  PROVE  ChatInv'
<1>1. \A w \in User : IsCut(w)
  BY KillCuts
<1>2. docs' = docs /\ \A w \in User : applied'[w] = applied[w] \/ applied'[w] = 0
  BY DEF Kill, TypeOK, FsTypeOK
<1>3. \A p, key : HasKey(p, key) <=> HasKey(p, key)'
  BY <1>2 DEF HasKey
<1>4. \A p, f : Said(p, f) <=> Said(p, f)'
  BY DEF Said
<1>5. ASSUME NEW w \in User, NEW i \in 1..Len(mutationQueue'[w])
      PROVE  EntryOK(w, i, mutationQueue[w][i])'
  <2>1. PICK e : e = mutationQueue[w][i]
    OBVIOUS
  <2>2. i \in 1..Len(mutationQueue[w]) /\ mutationQueue'[w][i] = e
    BY <1>1, <2>1 DEF IsCut
  <2>3. EntryOK(w, i, e)
    BY <2>1, <2>2 DEF ChatInv, QueuesOK
  <2>4. \A j \in 1..(i - 1) : \A p, key : WritesKey(w, j, p, key) => WritesKey(w, j, p, key)'
    <3>1. \A j \in 1..(i - 1) : j \in 1..Len(mutationQueue'[w])
      BY <1>1 DEF IsCut
    <3> QED  BY <1>1, <3>1 DEF IsCut, WritesKey
  <2>5. i <= applied'[w] => i <= applied[w]
    <3>1. i > 0 /\ (applied'[w] = applied[w] \/ applied'[w] = 0)
      BY <1>2
    <3> QED  BY <3>1
  <2>6. EntryOK(w, i, e)'
    BY <1>3, <2>3, <2>4, <2>5, EntryStays
  <2> QED  BY <2>2, <2>6
<1>6. ASSUME NEW m \in sent, NEW p \in {Conversation(m.from, m.to), Conversation(m.to, m.from)}
      PROVE  HasKey(p, m.key)' \/ StillQueued(m.from, p, m.key)' \/ CopyLost(m, p)'
  <2>1. m.from \in User /\ p \in Chats
    <3>1. m.from \in User /\ m.to \in User /\ m.from # m.to
      BY TypeParts DEF ScreenTypeOK
    <3> QED  BY <3>1, ChatsParts
  <2>2. PICK w \in User : w = m.from
    BY <2>1
  <2>3. CASE HasKey(p, m.key)
    BY <1>3, <2>3
  <2>4. CASE StillQueued(w, p, m.key)
    <3>1. PICK j \in 1..Len(mutationQueue[w]) : WritesKey(w, j, p, m.key)
      BY <2>4 DEF StillQueued
    <3>2. CASE j \in 1..Len(mutationQueue'[w])
      <4>1. WritesKey(w, j, p, m.key)'
        BY <1>1, <3>1, <3>2 DEF IsCut, WritesKey
      <4> QED  BY <2>2, <3>2, <4>1 DEF StillQueued
    <3>3. CASE mutationQueue[w][j] \in lost'[w]
      <4>1. mutationQueue[w][j].path = p
        BY <3>1 DEF WritesKey
      <4>2. PICK k \in Time : mutationQueue[w][j] = MergeInto(p, [key |-> k, from |-> w])
        BY <2>1, <4>1, OneCopy DEF ChatInv
      <4>3. k = m.key
        BY <3>1, <4>2, Carried DEF WritesKey, KeysOf
      <4> QED  BY <2>2, <3>3, <4>2, <4>3 DEF CopyLost
    <3> QED  BY <1>1, <3>2, <3>3 DEF IsCut
  <2>5. CASE CopyLost(m, p)
    <3>1. lost[w] \subseteq lost'[w]
      BY TypeParts DEF Kill, ScreenTypeOK
    <3> QED  BY <2>2, <2>5, <3>1 DEF CopyLost
  <2> QED  BY <2>2, <2>3, <2>4, <2>5 DEF ChatInv, NoMessageLost
<1>7. QueuesOK' /\ NoMessageLost'
  BY <1>5, <1>6 DEF QueuesOK, NoMessageLost
<1> QED  BY <1>2, <1>3, <1>4, <1>7 DEF ChatInv, DocsOK, OwnCopyFirst

\* Steps after which the backend, the queues and the messages are the same.
LEMMA NothingWrittenInv ==
  ASSUME FsTypeOK, ChatInv, UNCHANGED <<docs, mutationQueue, sent, lost>>,
         \A w \in User : applied'[w] = applied[w] \/ applied'[w] = 0
  PROVE  ChatInv'
<1>1. \A p, key : HasKey(p, key) <=> HasKey(p, key)'
  BY DEF HasKey
<1>2. \A w, i, p, key : WritesKey(w, i, p, key) <=> WritesKey(w, i, p, key)'
  BY DEF WritesKey
<1>3. \A p, f : Said(p, f) <=> Said(p, f)'
  BY DEF Said
<1>4. ASSUME NEW w \in User, NEW i \in 1..Len(mutationQueue[w])
      PROVE  EntryOK(w, i, mutationQueue[w][i])'
  <2>1. PICK e : e = mutationQueue[w][i]
    OBVIOUS
  <2>2. EntryOK(w, i, e) /\ mutationQueue'[w][i] = e
    BY <2>1 DEF ChatInv, QueuesOK
  <2>3. i <= applied'[w] => i <= applied[w]
    OBVIOUS
  <2>4. EntryOK(w, i, e)'
    BY <1>1, <1>2, <2>2, <2>3, EntryStays
  <2> QED  BY <2>2, <2>4
<1>5. QueuesOK'
  BY <1>4 DEF QueuesOK
<1>6. NoMessageLost'
  BY <1>1, <1>2 DEF ChatInv, NoMessageLost, StillQueued, CopyLost
<1> QED  BY <1>1, <1>3, <1>5, <1>6 DEF ChatInv, DocsOK, OwnCopyFirst

LEMMA OpenChatInv ==
  ASSUME TypeOK, ChatInv, NEW u \in User, NEW c \in User, OpenChat(u, c)
  PROVE  ChatInv'
<1>1. PICK ms \in Seq(Mutation) : ms = CleanBuffer(u, c)
  BY CleanBufferType DEF TypeOK
<1>2. LocallyWrite(u, ms) /\ sent' = sent /\ lost' = lost
  BY <1>1 DEF OpenChat
<1>3. PICK n : n = Len(mutationQueue[u])
  OBVIOUS
<1>4. \A j \in 1..Len(ms) : EntryOK(u, n + j, ms[j])'
  <2>1. PICK e : e = [path |-> Buffer(u), fields |-> Kept(u, c), merge |-> FALSE]
    OBVIOUS
  <2>2. \A j \in 1..Len(ms) : ms[j] = e
    <3>1. ms = <<e>>
      BY <1>1, <2>1 DEF CleanBuffer
    <3> QED  BY <3>1
  <2>3. e.path = Buffer(u) /\ e.path \notin Chats
    BY <2>1, ChatsParts
  <2> QED  BY <2>2, <2>3 DEF EntryOK
<1>5. /\ QueuesOK' /\ DocsOK' /\ OwnCopyFirst'
      /\ \A w \in User : \A p, key : StillQueued(w, p, key) => StillQueued(w, p, key)'
  <2>1. FsTypeOK /\ QueuesOK /\ DocsOK /\ OwnCopyFirst /\ sent \subseteq sent'
    BY <1>2, TypeParts DEF ChatInv
  <2> QED  BY <1>2, <1>3, <1>4, <2>1, LocallyWriteInv
<1>6. \A p, key : HasKey(p, key) <=> HasKey(p, key)'
  BY <1>2 DEF LocallyWrite, HasKey
<1>7. NoMessageLost'
  <2>1. \A m \in sent : m.from \in User
    BY TypeParts DEF ScreenTypeOK
  <2> QED  BY <1>2, <1>5, <1>6, <2>1 DEF ChatInv, NoMessageLost, CopyLost
<1> QED  BY <1>5, <1>7 DEF ChatInv

LEMMA SendMessageInv ==
  ASSUME TypeOK, TypeOK', ChatInv, NEW u \in User, NEW c \in User \ {u}, NEW t \in Clock[u],
         SendMessage(u, c, t)
  PROVE  ChatInv'
<1>1. c \in User /\ c # u /\ t \in Time
  BY ChatAssumption DEF Time
<1>2. PICK m \in Msg : m = [key |-> t, from |-> u]
  BY <1>1 DEF Msg
<1>3. PICK own \in Chats : own = Conversation(u, c)
  BY <1>1, ChatsParts
<1>4. PICK p \in Chats : p = Conversation(c, u)
  BY <1>1, ChatsParts
<1>5. PICK ms \in Seq(Mutation) : ms = Copies(u, c, m)
  BY <1>1, CopiesType
<1>6. /\ Len(ms) = 3 /\ ms[1] = MergeInto(Buffer(c), m)
      /\ ms[2] = MergeInto(own, m) /\ ms[3] = MergeInto(p, m)
  BY <1>3, <1>4, <1>5 DEF Copies
<1>7. /\ LocallyWrite(u, ms) /\ lost' = lost
      /\ sent' = sent \cup {[key |-> t, from |-> u, to |-> c]}
  BY <1>2, <1>5 DEF SendMessage
<1>8. PICK n : n = Len(mutationQueue[u])
  OBVIOUS
<1>9. n \in Nat /\ applied'[u] \in Nat /\ applied'[u] <= n
  <2>1. applied[u] \in Nat /\ persisted[u] \in Nat /\ applied[u] <= persisted[u] /\ persisted[u] <= n
    BY <1>8, TypeParts DEF FsTypeOK
  <2>2. applied' = applied /\ n \in Nat
    BY <1>7, <1>8, TypeParts, QueueGrows
  <2> QED  BY <2>1, <2>2
<1>10. \A j \in 1..3 : n + j \in 1..Len(mutationQueue'[u]) /\ mutationQueue'[u][n + j] = ms[j]
  <2>1. FsTypeOK
    BY TypeParts
  <2>2. \A j \in 1..Len(ms) : /\ Len(mutationQueue[u]) + j \in 1..Len(mutationQueue'[u])
                              /\ mutationQueue'[u][Len(mutationQueue[u]) + j] = ms[j]
    BY <1>7, <2>1, QueueGrows
  <2> QED  BY <1>6, <1>8, <2>2
<1>11. Said(own, m)' /\ Said(p, m)'
  <2>1. PICK s \in sent' : s = [key |-> t, from |-> u, to |-> c]
    BY <1>7
  <2>2. s.key = m.key /\ s.from = m.from /\ s.from = u /\ s.to = c
    BY <1>2, <2>1
  <2>3. own.owner = u /\ own.peer = c /\ p.owner = c /\ p.peer = u
    BY <1>3, <1>4, ConversationParts
  <2>4. Said(own, m)'
    BY <2>2, <2>3 DEF Said
  <2>5. Said(p, m)'
    BY <2>2, <2>3 DEF Said
  <2> QED  BY <2>4, <2>5
<1>12. WritesKey(u, n + 2, own, t)' /\ WritesKey(u, n + 3, p, t)'
  BY <1>2, <1>6, <1>10, Carried DEF WritesKey, KeysOf
<1>13. EntryOK(u, n + 1, ms[1])'
  BY <1>6, Carried, ChatsParts DEF EntryOK
<1>14. EntryOK(u, n + 2, ms[2])'
  <2>1. ~(n + 2 <= applied'[u])
    BY <1>9
  <2> QED  BY <1>2, <1>3, <1>6, <1>11, <2>1, Carried, ConversationParts DEF EntryOK
<1>15. EntryOK(u, n + 3, ms[3])'
  <2>1. ~(n + 3 <= applied'[u]) /\ n + 2 \in 1..(n + 3 - 1)
    BY <1>9
  <2>2. OwnCopy(u, n + 3, p, t)'
    <3>1. own = Conversation(u, p.owner)
      BY <1>3, <1>4, ConversationParts
    <3>2. PICK k : k = n + 3
      OBVIOUS
    <3>3. n + 2 \in 1..(k - 1)
      BY <1>9, <3>2
    <3>4. OwnCopy(u, k, p, t)'
      BY <1>12, <3>1, <3>3 DEF OwnCopy
    <3> QED  BY <3>2, <3>4
  <2> QED  BY <1>2, <1>6, <1>11, <2>1, <2>2, Carried DEF EntryOK
<1>16. ASSUME NEW j \in 1..Len(ms) PROVE EntryOK(u, n + j, ms[j])'
  <2>1. j = 1 \/ j = 2 \/ j = 3
    BY <1>6
  <2> QED  BY <1>13, <1>14, <1>15, <2>1
<1>17. /\ QueuesOK' /\ DocsOK' /\ OwnCopyFirst'
       /\ \A w \in User : \A q, key : StillQueued(w, q, key) => StillQueued(w, q, key)'
  <2>1. FsTypeOK /\ QueuesOK /\ DocsOK /\ OwnCopyFirst /\ sent \subseteq sent'
    BY <1>7, TypeParts DEF ChatInv
  <2> QED  BY <1>7, <1>8, <1>16, <2>1, LocallyWriteInv
<1>18. \A q, key : HasKey(q, key) <=> HasKey(q, key)'
  BY <1>7 DEF LocallyWrite, HasKey
<1>19. StillQueued(u, own, t)' /\ StillQueued(u, p, t)'
  BY <1>10, <1>12 DEF StillQueued
<1>20. ASSUME NEW s \in sent', NEW q \in {Conversation(s.from, s.to), Conversation(s.to, s.from)}
       PROVE  HasKey(q, s.key)' \/ StillQueued(s.from, q, s.key)' \/ CopyLost(s, q)'
  <2>1. CASE s \in sent
    <3>1. s.from \in User
      BY <2>1, TypeParts DEF ScreenTypeOK
    <3>2. HasKey(q, s.key) \/ StillQueued(s.from, q, s.key) \/ CopyLost(s, q)
      BY <2>1 DEF ChatInv, NoMessageLost
    <3>3. CopyLost(s, q) <=> CopyLost(s, q)'
      BY <1>7 DEF CopyLost
    <3> QED  BY <1>17, <1>18, <3>1, <3>2, <3>3
  <2>2. CASE s = [key |-> t, from |-> u, to |-> c]
    BY <1>3, <1>4, <1>19, <2>2
  <2> QED  BY <1>7, <2>1, <2>2
<1> QED  BY <1>17, <1>20 DEF ChatInv, NoMessageLost

LEMMA NextInv ==
  ASSUME TypeOK, ChatInv, OneMessageEach, [Next]_vars
  PROVE  ChatInv'
<1>1. FsTypeOK /\ ScreenTypeOK /\ TypeOK' /\ FsTypeOK'
  BY NextType, TypeParts
<1>2. ASSUME UNCHANGED <<docs, mutationQueue, applied, sent, lost>> PROVE ChatInv'
  BY <1>1, <1>2, NothingWrittenInv
<1>3. CASE UNCHANGED vars
  BY <1>2, <1>3 DEF vars, clientVars
<1>4. ASSUME NEW u \in User, NEW c \in User, OpenChat(u, c) PROVE ChatInv'
  BY <1>4, OpenChatInv
<1>5. ASSUME NEW u \in User, Back(u) \/ BufferCallback(u) \/ ConversationCallback(u) PROVE ChatInv'
  BY <1>2, <1>5 DEF Back, BufferCallback, ConversationCallback, clientVars
<1>6. ASSUME NEW u \in User, NEW c \in User \ {u}, NEW t \in Clock[u], SendMessage(u, c, t)
      PROVE  ChatInv'
  BY <1>1, <1>6, SendMessageInv
\* Every message's copies are Conversation documents.
<1>7. \A m \in sent : /\ Conversation(m.from, m.to) \in Chats
                      /\ Conversation(m.to, m.from) \in Chats /\ m.from \in User
  BY <1>1, ChatsParts DEF ScreenTypeOK
<1>8. ASSUME NEW u \in User, CommitWrite(u) PROVE ChatInv'
  <2>1. Commit(u) /\ sent' = sent /\ lost' = lost /\ mutationQueue' = mutationQueue
    BY <1>8 DEF CommitWrite, Commit
  <2>2. QueuesOK' /\ DocsOK' /\ OwnCopyFirst'
    BY <1>1, <2>1, CommitInv DEF ChatInv
  <2>3. \A p \in Chats : \A key : HasKey(p, key) => HasKey(p, key)'
    BY <1>1, <2>1, CommitKeepsKeys, ChatsParts DEF ChatInv
  <2>4. \A w, p, key : StillQueued(w, p, key) => StillQueued(w, p, key)'
    BY <2>1 DEF StillQueued, WritesKey
  <2>5. NoMessageLost'
    BY <1>7, <2>1, <2>3, <2>4 DEF ChatInv, NoMessageLost, CopyLost
  <2> QED  BY <2>2, <2>5 DEF ChatInv
<1>9. ASSUME NEW u \in User, WriteAnswered(u) PROVE ChatInv'
  <2>1. Acknowledge(u) /\ sent' = sent /\ lost' = lost
    BY <1>9 DEF WriteAnswered
  <2>2. /\ QueuesOK' /\ DocsOK' /\ OwnCopyFirst'
        /\ \A w \in User : \A p \in Chats : \A key :
             StillQueued(w, p, key) => HasKey(p, key)' \/ StillQueued(w, p, key)'
    BY <1>1, <2>1, AcknowledgeInv DEF ChatInv
  <2>3. \A p, key : HasKey(p, key) => HasKey(p, key)'
    BY <2>1 DEF Acknowledge, HasKey
  <2>4. NoMessageLost'
    BY <1>7, <2>1, <2>2, <2>3 DEF ChatInv, NoMessageLost, CopyLost
  <2> QED  BY <2>2, <2>4 DEF ChatInv
<1>10. ASSUME NEW u \in User, StreamBroken(u) PROVE ChatInv'
  <2>1. UNCHANGED <<docs, mutationQueue, sent, lost>> /\ applied' = [applied EXCEPT ![u] = 0]
    BY <1>10 DEF StreamBroken, RestartStream
  <2>2. \A w \in User : applied'[w] = applied[w] \/ applied'[w] = 0
    BY <1>1, <2>1 DEF FsTypeOK
  <2> QED  BY <1>1, <2>1, <2>2, NothingWrittenInv
<1>11. ASSUME NEW u \in User, NEW p \in ChatPath, ReceiveSnapshot(u, p) PROVE ChatInv'
  BY <1>2, <1>11 DEF ReceiveSnapshot, Watch
<1>12. ASSUME NEW u \in User, PersistWrite(u) PROVE ChatInv'
  BY <1>2, <1>12 DEF PersistWrite, Persist
<1>13. ASSUME NEW u \in User, Relaunch(u) PROVE ChatInv'
  <2>1. sent' = sent
    BY <1>13 DEF Relaunch, FreshProcess
  <2> QED  BY <1>13, <2>1, RelaunchIsKill, KillInv
<1> QED  BY <1>3, <1>4, <1>5, <1>6, <1>8, <1>9, <1>10, <1>11, <1>12, <1>13, EachSends DEF Next

LEMMA InitInv == Init => ChatInv
<1> SUFFICES ASSUME Init PROVE ChatInv
  OBVIOUS
<1>1. /\ \A w \in User : Len(mutationQueue[w]) = 0
      /\ \A p \in ChatPath : docs[p] = {}
      /\ sent = {}
  BY DEF Init, FsInit
<1>2. OwnCopyFirst
  BY <1>1, Paths DEF OwnCopyFirst
<1> QED  BY <1>1, <1>2 DEF ChatInv, QueuesOK, DocsOK, NoMessageLost, Chats

\* The two documents of a conversation, once nothing is queued for them.
LEMMA InvGivesAgreement ==
  ASSUME TypeOK, ChatInv
  PROVE  CopiesAgree
<1> SUFFICES ASSUME NEW u \in User, NEW c \in User \ {u}, NEW p, NEW q,
                    p = Conversation(u, c), q = Conversation(c, u),
                    \A v \in {u, c} : ~QueuedFor(v, p) /\ ~QueuedFor(v, q),
                    NEW f \in docs[p] \ docs[q], ~CopyLost(f, q)
             PROVE  /\ HasKey(q, f.key)
                    /\ [key |-> f.key, from |-> u, to |-> c] \in sent
                    /\ [key |-> f.key, from |-> c, to |-> u] \in sent
  BY DEF CopiesAgree
<1>1. /\ p \in Chats /\ p.owner = u /\ p.peer = c
      /\ q \in Chats /\ q.owner = c /\ q.peer = u
  BY ChatsParts, ConversationParts
<1>2. ASSUME NEW d \in {p, q}, NEW g \in docs[d]
      PROVE  \E m \in sent : m.key = g.key /\ m.from = g.from /\ {m.from, m.to} = {u, c}
  BY <1>1 DEF ChatInv, DocsOK, Said
<1>3. PICK m \in sent : m.key = f.key /\ m.from = f.from /\ {m.from, m.to} = {u, c}
  BY <1>2
<1>4. HasKey(q, f.key)
  <2>1. (m.from = u /\ m.to = c) \/ (m.from = c /\ m.to = u)
    BY <1>3
  <2>2. ~StillQueued(m.from, q, m.key)
    BY <2>1 DEF StillQueued, QueuedFor, WritesKey
  <2>3. q \in {Conversation(m.from, m.to), Conversation(m.to, m.from)}
    BY <2>1
  <2>4. ~CopyLost(m, q)
    BY <1>3 DEF CopyLost
  <2> QED  BY <1>3, <2>2, <2>3, <2>4 DEF ChatInv, NoMessageLost
<1>5. PICK g \in docs[q] : g.key = f.key
  BY <1>4 DEF HasKey, KeysOf
<1>6. f \in Msg /\ g \in Msg
  BY <1>1, ChatsParts DEF TypeOK, FsTypeOK, Document
<1>7. f.from # g.from
  BY <1>5, <1>6 DEF Msg
<1>8. PICK k \in sent : k.key = f.key /\ k.from = g.from /\ {k.from, k.to} = {u, c}
  BY <1>2, <1>5
<1>9. ASSUME NEW s \in sent PROVE s = [key |-> s.key, from |-> s.from, to |-> s.to]
  BY TypeParts DEF ScreenTypeOK
<1> QED  BY <1>3, <1>4, <1>7, <1>8, <1>9

LEMMA Safety == Spec => [](TypeOK /\ ChatInv /\ OneMessageEach)
<1>1. Init => TypeOK /\ ChatInv /\ OneMessageEach
  BY InitType, InitInv, OneMessageInit
<1>2. (TypeOK /\ ChatInv /\ OneMessageEach) /\ [Next]_vars => (TypeOK /\ ChatInv /\ OneMessageEach)'
  BY NextType, NextInv, OneMessageStep
<1> QED  BY <1>1, <1>2, PTL DEF Spec

\* A message is lost only by a kill that comes between finishEditing and the
\* worker's transaction for a copy: any other copy is committed or still queued,
\* whatever breaks, or is killed, from then on.
THEOREM MessagesAreNotLost == Spec => []NoMessageLost
<1>1. ChatInv => NoMessageLost
  BY DEF ChatInv
<1> QED  BY <1>1, Safety, PTL

\* What the receiver can read, the sender's own document has too.
THEOREM OwnCopiesComeFirst == Spec => []OwnCopyFirst
<1>1. ChatInv => OwnCopyFirst
  BY DEF ChatInv
<1> QED  BY <1>1, Safety, PTL

\* Two users who have nothing queued for their conversation have the same
\* transcript, up to messages that a kill cut off between the two copies and
\* messages sent at the very same timestamp.
THEOREM TranscriptsAgree == Spec => []CopiesAgree
<1>1. TypeOK /\ ChatInv => CopiesAgree
  BY InvGivesAgreement
<1> QED  BY <1>1, Safety, PTL

\* An entry leaves a user's badges only by a write of that user.
THEOREM OthersKeepBadges == Spec => OnlyTheOwnerClearsBadges
<1> DEFINE KeepsBadges == \A u \in User : \A m \in docs[Buffer(u)] :
                            HasKey(Buffer(u), m.key)' \/ applied'[u] > applied[u]
<1>1. ASSUME TypeOK, ChatInv, [Next]_vars PROVE [KeepsBadges]_vars
  <2>1. CASE UNCHANGED docs
    <3>1. ASSUME NEW u \in User, NEW m \in docs[Buffer(u)] PROVE HasKey(Buffer(u), m.key)'
      BY <2>1 DEF HasKey, KeysOf
    <3> QED  BY <3>1
  <2>2. ASSUME NEW w \in User, Commit(w) PROVE KeepsBadges
    <3>1. ASSUME NEW u \in User, NEW m \in docs[Buffer(u)], u # w
          PROVE  HasKey(Buffer(u), m.key)'
      <4>1. Buffer(u) \in ChatPath /\ Buffer(u) # Buffer(w) /\ HasKey(Buffer(u), m.key)
        BY <3>1, Paths DEF HasKey, KeysOf
      <4> QED  BY <1>1, <2>2, <4>1, CommitKeepsKeys, TypeParts DEF ChatInv
    <3>2. applied'[w] > applied[w]
      <4>1. applied[w] \in Nat /\ applied' = [applied EXCEPT ![w] = @ + 1] /\ applied \in [User -> Nat]
        BY <1>1, <2>2, TypeParts DEF Commit, FsTypeOK
      <4> QED  BY <4>1
    <3> QED  BY <3>1, <3>2
  <2>3. UNCHANGED docs \/ \E w \in User : Commit(w)
    <3>1. CASE UNCHANGED vars
      BY <3>1 DEF vars, clientVars
    <3>2. ASSUME NEW u \in User, NEW c \in User, OpenChat(u, c) PROVE UNCHANGED docs
      BY <3>2 DEF OpenChat, LocallyWrite
    <3>3. ASSUME NEW u \in User, Back(u) \/ BufferCallback(u) \/ ConversationCallback(u)
          PROVE  UNCHANGED docs
      BY <3>3 DEF Back, BufferCallback, ConversationCallback, clientVars
    <3>4. ASSUME NEW u \in User, NEW c \in User, NEW t \in Clock[u], SendMessage(u, c, t)
          PROVE  UNCHANGED docs
      BY <3>4 DEF SendMessage, LocallyWrite
    <3>5. ASSUME NEW u \in User, CommitWrite(u) PROVE Commit(u)
      BY <3>5 DEF CommitWrite
    <3>6. ASSUME NEW u \in User,
                 PersistWrite(u) \/ WriteAnswered(u) \/ StreamBroken(u) \/ Relaunch(u)
          PROVE  UNCHANGED docs
      BY <3>6 DEF PersistWrite, Persist, WriteAnswered, Acknowledge, StreamBroken, RestartStream,
                  Relaunch, FreshProcess
    <3>7. ASSUME NEW u \in User, NEW p \in ChatPath, ReceiveSnapshot(u, p) PROVE UNCHANGED docs
      BY <3>7 DEF ReceiveSnapshot, Watch
    <3> QED  BY <1>1, <3>1, <3>2, <3>3, <3>4, <3>5, <3>6, <3>7, EachSends DEF Next
  <2> QED  BY <2>1, <2>2, <2>3
<1> QED  BY <1>1, Safety, PTL DEF Spec, OnlyTheOwnerClearsBadges
-----------------------------------------------------------------------------
(***************************************************************************)
(* Chat implements MessageLog.  Only the commit of a write to a            *)
(* Conversation document is a step of MessageLog's copies; every other     *)
(* step leaves them alone, and only finishEditing sends.  That a commit    *)
(* keeps or delivers a message that was sent, one at a time and in that    *)
(* order, is what ChatInv says of the write queues.                        *)
(***************************************************************************)
(***************************************************************************)
(* The table of copies.                                                    *)
(***************************************************************************)
TableOf == [u \in User |-> [c \in User |-> Copy(u, c)]]

LEMMA CopyType ==
  ASSUME TypeOK, TypeOK', NEW u \in User, NEW c \in User
  PROVE  Copy(u, c) \in SUBSET Time /\ Copy(u, c)' \in SUBSET Time
<1>1. ASSUME NEW p \in ChatPath PROVE docs[p] \subseteq Msg /\ docs'[p] \subseteq Msg
  BY DEF TypeOK, FsTypeOK, Document
<1>2. \A m \in Msg : m.key \in Time
  BY DEF Msg
<1> QED  BY <1>1, <1>2, Paths DEF Copy, KeysOf

\* The commit of a write keeps a message, delivers one, or is a stutter.
LEMMA CommitIsLogStep ==
  ASSUME TypeOK, TypeOK', ChatInv, OneMessageEach, NEW u \in User, Commit(u), sent' = sent
  PROVE  TableOf' = TableOf \/ \E m \in sent : Log!Keep(m) \/ Log!Deliver(m)
<1>1. PICK n : n = applied[u] + 1
  OBVIOUS
<1>2. n \in 1..Len(mutationQueue[u]) /\ n \in Nat /\ applied[u] \in Nat
  BY <1>1, NextOnDisk, TypeParts
<1>3. PICK e \in Mutation : e = mutationQueue[u][n]
  BY <1>2 DEF TypeOK, FsTypeOK
<1>4. docs' = [docs EXCEPT ![e.path] = ApplyTo(e, @)] /\ DOMAIN docs = ChatPath
  BY <1>1, <1>3 DEF Commit, TypeOK, FsTypeOK
<1>5. ASSUME NEW v \in User, NEW d \in User, Conversation(v, d) # e.path
      PROVE  Copy(v, d)' = Copy(v, d)
  BY <1>4, <1>5, Paths DEF Copy, KeysOf
<1>6. CASE e.path \notin Chats
  <2>1. \A v, d \in User : Copy(v, d)' = Copy(v, d)
    BY <1>5, <1>6, ChatsParts DEF Copy
  <2> QED  BY <2>1 DEF TableOf
<1>7. CASE e.path \in Chats
  <2>1. PICK p \in Chats : p = e.path
    BY <1>7
  <2>2. /\ p = Conversation(p.owner, p.peer) /\ p \in ChatPath
        /\ p.owner \in User /\ p.peer \in User /\ p.owner # p.peer
    BY ChatsParts
  <2>3. PICK f : e.fields = {f}
    BY <1>2, <1>3, <1>7 DEF OneMessageEach, OneMessage
  <2>4. EntryOK(u, n, e) /\ e.merge
    BY <1>2, <1>3, <2>1, ChatsParts DEF ChatInv, QueuesOK, EntryOK
  <2>5. docs'[p] = {g \in docs[p] : g.key # f.key} \cup {f}
    BY <1>4, <2>1, <2>2, <2>3, <2>4 DEF ApplyTo, Overwrites
  <2>6. Copy(p.owner, p.peer)' = Copy(p.owner, p.peer) \cup {f.key}
    <3>1. KeysOf(docs'[p]) = KeysOf(docs[p]) \cup {f.key}
      BY <2>5 DEF KeysOf
    <3>2. KeysOf(docs[p])' = KeysOf(docs'[p])
      BY DEF KeysOf
    <3> QED  BY <2>2, <3>1, <3>2 DEF Copy
  <2>7. ASSUME NEW v \in User, NEW d \in User, ~(v = p.owner /\ d = p.peer)
        PROVE  Copy(v, d)' = Copy(v, d)
    <3>1. Conversation(v, d) # p
      BY <2>7, ConversationParts
    <3> QED  BY <1>5, <2>1, <3>1
  <2>8. CASE f.key \in Copy(p.owner, p.peer)
    <3>1. \A v, d \in User : Copy(v, d)' = Copy(v, d)
      BY <2>2, <2>6, <2>7, <2>8
    <3> QED  BY <3>1 DEF TableOf
  <2>9. CASE f.key \notin Copy(p.owner, p.peer)
    <3>1. f.from = u /\ Said(p, f) /\ (p.owner # u => OwnCopy(u, n, p, f.key))
      BY <2>1, <2>3, <2>4 DEF EntryOK
    <3>2. PICK s \in sent : /\ s.key = f.key /\ s.from = u
                            /\ \/ s.from = p.owner /\ s.to = p.peer
                               \/ s.from = p.peer /\ s.to = p.owner
      BY <3>1 DEF Said
    <3>3. PICK a, b : a = TableOf /\ b = TableOf'
      OBVIOUS
    <3>4. \A v, d \in User : a[v][d] = Copy(v, d) /\ b[v][d] = Copy(v, d)'
      BY <3>3 DEF TableOf
    <3>5. a \in [User -> [User -> SUBSET Time]] /\ b \in [User -> [User -> SUBSET Time]]
      <4>1. \A v, d \in User : Copy(v, d) \in SUBSET Time /\ Copy(v, d)' \in SUBSET Time
        BY CopyType
      <4> QED  BY <3>3, <4>1 DEF TableOf
    <3>6. b = [a EXCEPT ![p.owner][p.peer] = @ \cup {f.key}] /\ f.key \notin a[p.owner][p.peer]
      <4>1. PICK v, d \in User : v = p.owner /\ d = p.peer
        BY <2>2
      <4>2. \A w, x \in User :
              b[w][x] = IF w = v /\ x = d THEN a[w][x] \cup {f.key} ELSE a[w][x]
        BY <2>6, <2>7, <3>4, <4>1
      <4>3. PICK h : h = [a EXCEPT ![v][d] = a[v][d] \cup {f.key}]
        OBVIOUS
      <4>4. ASSUME NEW w \in User PROVE b[w] = h[w]
        <5>1. CASE w # v
          <6>1. h[w] = a[w] /\ b[w] \in [User -> SUBSET Time] /\ a[w] \in [User -> SUBSET Time]
            BY <3>5, <4>3, <5>1
          <6>2. \A x \in User : b[w][x] = a[w][x]
            BY <4>2, <5>1
          <6> QED  BY <6>1, <6>2
        <5>2. CASE w = v
          <6>1. /\ h[v] = [a[v] EXCEPT ![d] = a[v][d] \cup {f.key}]
                /\ b[v] \in [User -> SUBSET Time] /\ a[v] \in [User -> SUBSET Time]
            BY <3>5, <4>3
          <6>2. \A x \in User : b[v][x] = IF x = d THEN a[v][d] \cup {f.key} ELSE a[v][x]
            BY <4>2
          <6> QED  BY <5>2, <6>1, <6>2
        <5> QED  BY <5>1, <5>2
      <4>5. DOMAIN h = User /\ h = [w \in User |-> h[w]]
        BY <3>5, <4>3
      <4>6. b = h
        BY <3>5, <4>4, <4>5
      <4> QED  BY <2>9, <3>4, <4>1, <4>3, <4>6
    <3>7. Log!Put(p.owner, p.peer, f.key)
      BY <3>3, <3>6 DEF Log!Put, TableOf
    <3>8. CASE s.from = p.owner /\ s.to = p.peer
      BY <3>2, <3>7, <3>8 DEF Log!Keep
    <3>9. CASE s.from = p.peer /\ s.to = p.owner
      <4>1. PICK own \in Chats : own = Conversation(u, p.owner)
        BY <2>2, <3>2, <3>9, ChatsParts
      <4>2. ASSUME NEW j \in 1..(n - 1), WritesKey(u, j, own, f.key) PROVE HasKey(own, f.key)
        <5>1. j \in 1..Len(mutationQueue[u]) /\ j <= applied[u]
          BY <1>1, <1>2
        <5>2. PICK x : x = mutationQueue[u][j]
          OBVIOUS
        <5>3. EntryOK(u, j, x) /\ x.path = own /\ \E g \in x.fields : g.key = f.key
          BY <4>2, <5>1, <5>2 DEF ChatInv, QueuesOK, WritesKey, KeysOf
        <5> QED  BY <5>1, <5>3 DEF EntryOK
      <4>3. HasKey(own, f.key)
        BY <2>2, <3>1, <3>2, <3>9, <4>1, <4>2 DEF OwnCopy
      <4>4. s.key \in TableOf[s.from][s.to]
        <5>1. f.key \in Copy(p.peer, p.owner)
          BY <2>2, <3>2, <3>9, <4>1, <4>3 DEF HasKey, Copy
        <5> QED  BY <2>2, <3>2, <3>3, <3>4, <3>9, <5>1
      <4> QED  BY <3>2, <3>7, <3>9, <4>4 DEF Log!Deliver, TableOf
    <3> QED  BY <3>2, <3>8, <3>9
  <2> QED  BY <2>8, <2>9
<1> QED  BY <1>6, <1>7

LEMMA NextIsLogStep ==
  ASSUME TypeOK, ChatInv, OneMessageEach, [Next]_vars
  PROVE  [Log!Next]_<<sent, TableOf>>
<1>1. ASSUME UNCHANGED docs PROVE TableOf' = TableOf
  BY <1>1 DEF TableOf, Copy, KeysOf
<1>2. ASSUME UNCHANGED <<docs, sent>> PROVE UNCHANGED <<sent, TableOf>>
  BY <1>1, <1>2
<1>3. CASE UNCHANGED vars
  BY <1>2, <1>3 DEF vars, clientVars
<1>4. ASSUME NEW u \in User, NEW c \in User, OpenChat(u, c) PROVE UNCHANGED <<sent, TableOf>>
  BY <1>2, <1>4 DEF OpenChat, LocallyWrite
<1>5. ASSUME NEW u \in User, Back(u) \/ BufferCallback(u) \/ ConversationCallback(u)
      PROVE  UNCHANGED <<sent, TableOf>>
  BY <1>2, <1>5 DEF Back, BufferCallback, ConversationCallback, clientVars
<1>6. ASSUME NEW u \in User, NEW c \in User \ {u}, NEW t \in Clock[u], SendMessage(u, c, t)
      PROVE  Log!Next
  <2>1. c \in User /\ c # u /\ t \in Time
    BY ChatAssumption DEF Time
  <2>2. /\ \A m \in sent : m.from = u => m.key < t
        /\ sent' = sent \cup {[key |-> t, from |-> u, to |-> c]}
        /\ UNCHANGED docs
    BY <1>6 DEF SendMessage, LocallyWrite
  <2>3. Log!Send(u, c, t)
    BY <1>1, <2>1, <2>2 DEF Log!Send, TableOf
  <2> QED  BY <2>1, <2>3 DEF Log!Next
<1>7. ASSUME NEW u \in User, CommitWrite(u) PROVE Log!Next \/ UNCHANGED <<sent, TableOf>>
  BY <1>7, NextType, CommitIsLogStep DEF CommitWrite, Log!Next
<1>8. ASSUME NEW u \in User,
             PersistWrite(u) \/ WriteAnswered(u) \/ StreamBroken(u) \/ Relaunch(u)
      PROVE  UNCHANGED <<sent, TableOf>>
  BY <1>2, <1>8 DEF PersistWrite, Persist, WriteAnswered, Acknowledge, StreamBroken, RestartStream,
                    Relaunch, FreshProcess
<1>9. ASSUME NEW u \in User, NEW p \in ChatPath, ReceiveSnapshot(u, p)
      PROVE  UNCHANGED <<sent, TableOf>>
  BY <1>2, <1>9 DEF ReceiveSnapshot, Watch
<1> QED  BY <1>3, <1>4, <1>5, <1>6, <1>7, <1>8, <1>9, EachSends DEF Next

LEMMA InitIsLogInit == Init => Log!Init
<1> SUFFICES ASSUME Init PROVE Log!Init
  OBVIOUS
<1>1. \A u, c \in User : Copy(u, c) = {}
  BY Paths DEF Init, FsInit, Copy, KeysOf
<1> QED  BY <1>1 DEF Init, Log!Init

\* Chat implements MessageLog: whatever the screens, the queues, the streams
\* and the kills do, the Conversation documents are two copies of one log of
\* sent messages, kept by the sender first and delivered to the receiver then.
THEOREM ChatImplementsLog == Spec => ImplementsLog
<1>4. TypeOK /\ ChatInv /\ OneMessageEach /\ [Next]_vars => [Log!Next]_<<sent, TableOf>>
  BY NextIsLogStep
<1>5. [Log!Next]_<<sent, TableOf>> => [Log!Next]_Log!logVars
  BY DEF Log!logVars, TableOf
<1> QED  BY <1>4, <1>5, InitIsLogInit, Safety, PTL DEF Spec, ImplementsLog, Log!Spec
-----------------------------------------------------------------------------
(***************************************************************************)
(* Views, and what each user hears of a step.                              *)
(***************************************************************************)
ViewNext(u, p) == LocalView(remoteDocs'[u][p], mutationQueue'[u], p)

ScreensStay(u) ==
  /\ listeners'[u] = listeners[u] /\ recents'[u] = recents[u]
  /\ cacheMessage'[u] = cacheMessage[u] /\ bufferChat'[u] = bufferChat[u]

\* No view of u's own documents moves, or only that of p, and u is told.
Quiet(u) ==
  /\ ScreensStay(u) /\ mainQueue'[u] = mainQueue[u]
  /\ \A x \in ChatPath : x.owner = u => ViewNext(u, x) = View(u, x)

OthersStay(u, p) ==
  \A x \in ChatPath : x.owner = u /\ x # p => ViewNext(u, x) = View(u, x)

Told(u, p) ==
  /\ ScreensStay(u) /\ mainQueue'[u] = mainQueue[u] \o ViewCallbacks(u, p)
  /\ OthersStay(u, p)

LEMMA NextView ==
  ASSUME NEW u, NEW p
  PROVE  View(u, p)' = ViewNext(u, p)
  BY DEF View, ViewNext, LocalView, Survives, Overwrites

LEMMA SameView ==
  ASSUME NEW doc, NEW queue, NEW p
  PROVE  LocalView(doc, queue, p) = Lemmas!LocalView(doc, queue, p)
  BY DEF LocalView, Lemmas!LocalView, Survives, Lemmas!Survives, Overwrites, Lemmas!Overwrites

\* A write moves the views of its device, and of the documents it names.
LEMMA WriteMoves ==
  ASSUME FsTypeOK, NEW u \in User, NEW ms \in Seq(Mutation), LocallyWrite(u, ms)
  PROVE  /\ \A w \in User : \A x \in ChatPath : w # u => ViewNext(w, x) = View(w, x)
         /\ \A x \in ChatPath : (\A i \in 1..Len(ms) : ms[i].path # x) => ViewNext(u, x) = View(u, x)
<1>1. /\ remoteDocs' = remoteDocs /\ mutationQueue[u] \in Seq(Mutation)
      /\ mutationQueue'[u] = mutationQueue[u] \o ms
      /\ \A w \in User : w # u => mutationQueue'[w] = mutationQueue[w]
  BY DEF LocallyWrite, FsTypeOK
<1>2. \A w \in User : \A x \in ChatPath : w # u => ViewNext(w, x) = View(w, x)
  BY <1>1 DEF ViewNext, View
<1>3. ASSUME NEW x \in ChatPath, \A i \in 1..Len(ms) : ms[i].path # x
      PROVE  ViewNext(u, x) = View(u, x)
  <2>1. PICK doc : doc = remoteDocs[u][x]
    OBVIOUS
  <2>2. PICK q : q = mutationQueue[u]
    OBVIOUS
  <2>3. doc \in Lemmas!Document /\ q \in Seq(Lemmas!Mutation) /\ ms \in Seq(Lemmas!Mutation)
    BY <1>1, <2>1, <2>2, SameTypes DEF FsTypeOK
  <2>4. Lemmas!LocalView(doc, q \o ms, x) = Lemmas!LocalView(doc, q, x)
    BY <1>3, <2>3, SameTypes, Lemmas!ViewOfOtherWrites
  <2> QED  BY <1>1, <2>1, <2>2, <2>4, SameView DEF ViewNext, View
<1> QED  BY <1>2, <1>3

\* A write that has been answered is on disk.
LEMMA FirstOnDisk ==
  ASSUME FsTypeOK, NEW u \in User, applied[u] > 0
  PROVE  /\ 1 \in 1..Len(mutationQueue[u]) /\ 1 <= persisted[u]
         /\ Len(mutationQueue[u]) > 0 /\ Len(mutationQueue[u]) \in Nat
<1>1. /\ applied[u] \in Nat /\ persisted[u] \in Nat /\ applied[u] <= persisted[u]
      /\ persisted[u] <= Len(mutationQueue[u]) /\ Len(mutationQueue[u]) \in Nat
  BY DEF FsTypeOK
<1> QED  BY <1>1

\* An answer moves the view of the document that was written, if any.
LEMMA AnswerMoves ==
  ASSUME FsTypeOK, FsTypeOK', NEW u \in User, Acknowledge(u)
  PROVE  /\ Head(mutationQueue[u]).path \in ChatPath
         /\ \A w \in User : \A x \in ChatPath :
              (w # u \/ x # Head(mutationQueue[u]).path) => ViewNext(w, x) = View(w, x)
<1>1. PICK q \in Seq(Mutation) : q = mutationQueue[u]
  BY DEF FsTypeOK
<1>2. Len(q) > 0 /\ q # << >>
  <2>1. applied[u] > 0
    BY DEF Acknowledge
  <2> QED  BY <1>1, <2>1, FirstOnDisk
<1>3. PICK m \in Mutation : m = Head(q) /\ m = q[1]
  BY <1>2
<1>4. m.path \in ChatPath
  BY DEF Mutation
<1>5. mutationQueue'[u] = Tail(q) /\ \A w \in User : w # u => mutationQueue'[w] = mutationQueue[w]
  BY <1>1 DEF Acknowledge, FsTypeOK
<1>6. \A w \in User : \A x \in ChatPath : (w # u \/ x # m.path) => remoteDocs'[w][x] = remoteDocs[w][x]
  <2>1. \/ remoteDocs' = remoteDocs
        \/ remoteDocs' = [remoteDocs EXCEPT ![u][m.path] = ApplyTo(m, @)]
    BY <1>1, <1>3 DEF Acknowledge
  <2> QED  BY <1>4, <2>1 DEF FsTypeOK
<1>7. ASSUME NEW x \in ChatPath, x # m.path PROVE ViewNext(u, x) = View(u, x)
  <2>1. PICK doc : doc = remoteDocs[u][x]
    OBVIOUS
  <2>2. doc \in Lemmas!Document /\ q \in Seq(Lemmas!Mutation) /\ q[1].path # x
    BY <1>1, <1>3, <1>7, <2>1, SameTypes DEF FsTypeOK
  <2>3. Lemmas!LocalView(doc, Tail(q), x) = Lemmas!LocalView(doc, q, x)
    BY <1>2, <2>2, SameTypes, Lemmas!ViewWithoutHead
  <2> QED  BY <1>1, <1>5, <1>6, <1>7, <2>1, <2>3, SameView DEF ViewNext, View
<1>8. \A w \in User : \A x \in ChatPath : w # u => ViewNext(w, x) = View(w, x)
  BY <1>5, <1>6 DEF ViewNext, View
<1> QED  BY <1>1, <1>3, <1>4, <1>7, <1>8

LEMMA WatchMoves ==
  ASSUME FsTypeOK, NEW u \in User, NEW p \in ChatPath, Watch(u, p)
  PROVE  \A w \in User : \A x \in ChatPath : (w # u \/ x # p) => ViewNext(w, x) = View(w, x)
<1>1. mutationQueue' = mutationQueue /\ remoteDocs' = [remoteDocs EXCEPT ![u][p] = docs[p]]
  BY DEF Watch
<1>2. \A w \in User : \A x \in ChatPath : (w # u \/ x # p) => remoteDocs'[w][x] = remoteDocs[w][x]
  BY <1>1 DEF FsTypeOK
<1> QED  BY <1>1, <1>2 DEF ViewNext, View

LEMMA NothingMoves ==
  ASSUME UNCHANGED <<remoteDocs, mutationQueue>>
  PROVE  \A w \in User : \A x \in ChatPath : ViewNext(w, x) = View(w, x)
  BY DEF ViewNext, View

\* A kill moves no view of another device; what the launch is told of the
\* buffer is what it finds on disk.
LEMMA KillMoves ==
  ASSUME TypeOK, TypeOK', NEW u \in User, Relaunch(u)
  PROVE  /\ \A w \in User : \A x \in ChatPath : w # u => ViewNext(w, x) = View(w, x)
         /\ mainQueue'[u] = Callbacks(Buffer(u), 1, ViewNext(u, Buffer(u)))
         /\ ViewNext(u, Buffer(u)) \in Document
<1>1. remoteDocs' = remoteDocs /\ mutationQueue' = [mutationQueue EXCEPT ![u] = OnDisk(u)]
  BY DEF Relaunch, FreshProcess
<1>2. PICK disk : disk = OnDisk(u)
  OBVIOUS
<1>3. mutationQueue'[u] = disk /\ \A w \in User : w # u => mutationQueue'[w] = mutationQueue[w]
  BY <1>1, <1>2, TypeParts DEF FsTypeOK
<1>4. \A w \in User : \A x \in ChatPath : w # u => ViewNext(w, x) = View(w, x)
  BY <1>1, <1>3 DEF ViewNext, View
<1>5. PICK b \in ChatPath : b = Buffer(u)
  BY Paths
<1>6. ViewNext(u, b) \in Document
  BY <1>5, ViewType, TypeParts DEF FsTypeOK, ViewNext
<1>7. ViewNext(u, b) = LocalView(remoteDocs[u][b], disk, b)
  BY <1>1, <1>3 DEF ViewNext
<1>8. mainQueue'[u] = Callbacks(b, 1, LocalView(remoteDocs[u][b], disk, b))
  BY <1>2, <1>5, TypeParts DEF Relaunch, MainQueueOK
<1> QED  BY <1>4, <1>5, <1>6, <1>7, <1>8

\* The main queue of u grows, and no other.
LEMMA Enqueued ==
  ASSUME TypeOK, NEW u \in User, NEW cs, Enqueue(u, cs)
  PROVE  /\ mainQueue'[u] = mainQueue[u] \o cs
         /\ \A w \in User : w # u => mainQueue'[w] = mainQueue[w]
  BY DEF Enqueue, TypeOK

\* What the closure of a conversation does: controller vc of chat c is told
\* snapshot S, and appends the rows it has not got to its array.
Appends(ls, vc, shown, S, lsNext, cache, cacheNext) ==
  LET fresh == Fresh(S, shown, KeysOf(ToSet(ls[vc])))
  IN  \/ fresh = {} /\ lsNext = ls /\ cacheNext = cache
      \/ /\ fresh # {}
         /\ \E rows \in Ascending(fresh) : /\ lsNext = [ls EXCEPT ![vc] = ls[vc] \o rows]
                                           /\ cacheNext = ls[vc] \o rows

\* Nobody else's chat changes.
OnlyHere(u, c, e) ==
  /\ Appends(listeners[u][c], e.vc, Shown(u, c), e.snap, listeners'[u][c],
             cacheMessage[u][c], cacheMessage'[u][c])
  /\ \A w, x \in User : w # u \/ x # c =>
       listeners'[w][x] = listeners[w][x] /\ cacheMessage'[w][x] = cacheMessage[w][x]
  /\ \A w \in User : w # u => listeners'[w] = listeners[w] /\ cacheMessage'[w] = cacheMessage[w]

Runs(u, c, e) ==
  /\ Len(mainQueue[u]) > 0 /\ e = mainQueue[u][1] /\ e.chat = c
  /\ e.vc \in 1..Len(listeners[u][c]) /\ e.snap \in Document
  /\ OnlyHere(u, c, e)

LEMMA CallbackRuns ==
  ASSUME TypeOK, NEW u \in User, ConversationCallback(u)
  PROVE  \E c \in User \ {u} : \E e \in Callback : Runs(u, c, e)
<1>1. mainQueue[u] \in Seq(Callback) /\ mainQueue[u] # << >> /\ MainQueueOK /\ ScreenTypeOK
  BY TypeParts DEF MainQueueOK, ConversationCallback
<1>2. PICK e \in Callback : e = Head(mainQueue[u])
  BY <1>1
<1>3. e = mainQueue[u][1] /\ 1 \in 1..Len(mainQueue[u]) /\ Len(mainQueue[u]) > 0
  BY <1>1, <1>2
<1>4. CallbackOK(u, e)
  BY <1>1, <1>3 DEF MainQueueOK, QueueOK
<1>5. PICK c : c = e.chat
  OBVIOUS
<1>6. c \in User /\ c # u /\ e.snap \in Document /\ e.vc \in 1..Len(listeners[u][c])
  BY <1>2, <1>4, <1>5 DEF CallbackOK, Callback, ConversationCallback
<1>7. PICK keys : keys = listeners[u][c][e.vc]
  OBVIOUS
<1>8. PICK fresh : fresh = Fresh(e.snap, Shown(u, c), KeysOf(ToSet(keys)))
  OBVIOUS
<1>9. \/ fresh = {} /\ UNCHANGED <<listeners, cacheMessage>>
      \/ /\ fresh # {}
         /\ \E rows \in Ascending(fresh) :
              /\ listeners' = [listeners EXCEPT ![u][c][e.vc] = keys \o rows]
              /\ cacheMessage' = [cacheMessage EXCEPT ![u][c] = keys \o rows]
  BY <1>2, <1>5, <1>7, <1>8 DEF ConversationCallback
<1>10. ASSUME fresh = {} /\ UNCHANGED <<listeners, cacheMessage>>
       PROVE  OnlyHere(u, c, e)
  BY <1>7, <1>8, <1>10 DEF Appends, OnlyHere
<1>11. ASSUME fresh # {}, NEW rows \in Ascending(fresh),
              listeners' = [listeners EXCEPT ![u][c][e.vc] = keys \o rows],
              cacheMessage' = [cacheMessage EXCEPT ![u][c] = keys \o rows]
       PROVE  OnlyHere(u, c, e)
  <2>1. PICK row : row = keys \o rows
    OBVIOUS
  <2>2. PICK ls : ls = [listeners[u][c] EXCEPT ![e.vc] = row]
    OBVIOUS
  <2>3. listeners' = [listeners EXCEPT ![u][c] = ls]
    BY <1>6, <1>11, <2>1, <2>2 DEF TypeOK
  <2>4. /\ listeners'[u][c] = ls
        /\ \A w, x \in User : w # u \/ x # c => listeners'[w][x] = listeners[w][x]
        /\ \A w \in User : w # u => listeners'[w] = listeners[w]
    <3>1. PICK f : f = listeners
      OBVIOUS
    <3>2. f \in [User -> [User -> Seq(Seq(Msg))]] /\ listeners' = [f EXCEPT ![u][c] = ls]
      BY <2>3, <3>1 DEF TypeOK
    <3> HIDE <1>11, <2>3
    <3>3. PICK g : g = [f EXCEPT ![u][c] = ls]
      OBVIOUS
    <3>4. /\ g[u][c] = ls
          /\ \A w, x \in User : w # u \/ x # c => g[w][x] = f[w][x]
          /\ \A w \in User : w # u => g[w] = f[w]
      BY <1>6, <3>2, <3>3
    <3> QED  BY <3>1, <3>2, <3>3, <3>4
  <2>5. /\ cacheMessage'[u][c] = row
        /\ \A w, x \in User : w # u \/ x # c => cacheMessage'[w][x] = cacheMessage[w][x]
        /\ \A w \in User : w # u => cacheMessage'[w] = cacheMessage[w]
    BY <1>6, <1>11, <2>1 DEF TypeOK
  <2>6. Appends(listeners[u][c], e.vc, Shown(u, c), e.snap, ls, cacheMessage[u][c], row)
    BY <1>7, <1>8, <1>11, <2>1, <2>2 DEF Appends
  <2> QED  BY <2>4, <2>5, <2>6 DEF OnlyHere
<1>12. OnlyHere(u, c, e)
  BY <1>9, <1>10, <1>11
<1>13. c \in User \ {u} /\ Runs(u, c, e)
  BY <1>3, <1>5, <1>6, <1>12 DEF Runs
<1> QED  BY <1>13

\* What a user hears of a step of Chat: nothing, of one document, or it is
\* the user's own step.
LEMMA EachHears ==
  ASSUME TypeOK, TypeOK', [Next]_vars, NEW w \in User
  PROVE  \/ Quiet(w)
         \/ \E p \in ChatPath : Told(w, p)
         \/ \E c \in User : OpenChat(w, c)
         \/ Back(w) \/ BufferCallback(w) \/ ConversationCallback(w) \/ Relaunch(w)
<1>1. FsTypeOK /\ FsTypeOK'
  BY TypeParts
<1>2. ASSUME UNCHANGED <<remoteDocs, mutationQueue>>, UNCHANGED <<appVars, mainQueue>> PROVE Quiet(w)
  BY <1>2, NothingMoves DEF Quiet, ScreensStay, appVars
<1>3. CASE UNCHANGED vars
  BY <1>2, <1>3 DEF vars, clientVars
<1>4. ASSUME NEW u \in User, NEW c \in User, OpenChat(u, c), w # u PROVE Quiet(w)
  <2>1. PICK ms \in Seq(Mutation) : ms = CleanBuffer(u, c)
    BY CleanBufferType DEF TypeOK
  <2>2. \A x \in ChatPath : ViewNext(w, x) = View(w, x)
    BY <1>1, <1>4, <2>1, WriteMoves DEF OpenChat
  <2>3. ScreensStay(w)
    BY <1>4 DEF OpenChat, ScreensStay, TypeOK
  <2>4. mainQueue'[w] = mainQueue[w]
    BY <1>4, Enqueued DEF OpenChat
  <2> QED  BY <2>2, <2>3, <2>4 DEF Quiet
<1>5. ASSUME NEW u \in User, Back(u) \/ BufferCallback(u) \/ ConversationCallback(u), w # u
      PROVE  Quiet(w)
  <2>1. \A x \in ChatPath : ViewNext(w, x) = View(w, x)
    BY <1>5, NothingMoves DEF Back, BufferCallback, ConversationCallback, clientVars
  <2>2. mainQueue'[w] = mainQueue[w]
    <3>1. CASE Back(u)
      BY <1>5, <3>1, Enqueued DEF Back
    <3>2. CASE BufferCallback(u) \/ ConversationCallback(u)
      <4>1. mainQueue' = [mainQueue EXCEPT ![u] = Tail(@)]
        BY <3>2 DEF BufferCallback, ConversationCallback
      <4> QED  BY <1>5, <4>1 DEF TypeOK
    <3> QED  BY <1>5, <3>1, <3>2
  <2>3. ScreensStay(w)
    <3>1. CASE Back(u)
      <4>1. recents'[w] = recents[w]
        BY <1>5, <3>1 DEF Back, TypeOK
      <4> QED  BY <3>1, <4>1 DEF Back, ScreensStay
    <3>2. CASE BufferCallback(u)
      BY <1>5, <3>2 DEF BufferCallback, ScreensStay, TypeOK
    <3>3. CASE ConversationCallback(u)
      <4>1. UNCHANGED <<recents, bufferChat>>
        BY <3>3 DEF ConversationCallback
      <4>2. listeners'[w] = listeners[w] /\ cacheMessage'[w] = cacheMessage[w]
        BY <1>5, <3>3, CallbackRuns DEF Runs, OnlyHere
      <4> QED  BY <4>1, <4>2 DEF ScreensStay
    <3> QED  BY <1>5, <3>1, <3>2, <3>3
  <2> QED  BY <2>1, <2>2, <2>3 DEF Quiet
<1>6. ASSUME NEW u \in User, NEW c \in User \ {u}, NEW t \in Clock[u], SendMessage(u, c, t)
      PROVE  Quiet(w) \/ \E p \in ChatPath : Told(w, p)
  <2>1. PICK m \in Msg : m = [key |-> t, from |-> u]
    BY ChatAssumption DEF Msg, Time
  <2>2. PICK ms \in Seq(Mutation) : ms = Copies(u, c, m)
    BY CopiesType
  <2>3. LocallyWrite(u, ms) /\ ScreensStay(w)
        /\ Enqueue(u, ViewCallbacks(u, Conversation(u, c)))
    BY <1>6, <2>1, <2>2 DEF SendMessage, ScreensStay, appVars
  <2>4. CASE w # u
    BY <1>1, <2>2, <2>3, <2>4, WriteMoves, Enqueued DEF Quiet
  <2>5. CASE w = u
    <3>1. PICK p \in ChatPath : p = Conversation(u, c)
      BY Paths
    <3>2. ASSUME NEW x \in ChatPath, x.owner = u, x # p, NEW i \in 1..Len(ms) PROVE ms[i].path # x
      <4>1. Buffer(c).owner = c /\ Conversation(c, u).owner = c /\ c # u
        BY DEF Buffer, Conversation
      <4>2. ms[i].path \in {Buffer(c), p, Conversation(c, u)}
        <5>1. Len(ms) = 3 /\ ms[1] = MergeInto(Buffer(c), m)
              /\ ms[2] = MergeInto(p, m) /\ ms[3] = MergeInto(Conversation(c, u), m)
          BY <2>2, <3>1 DEF Copies
        <5>2. i = 1 \/ i = 2 \/ i = 3
          BY <5>1
        <5> QED  BY <5>1, <5>2, Carried
      <4> QED  BY <3>2, <4>1, <4>2
    <3>3. OthersStay(u, p)
      BY <1>1, <2>2, <2>3, <3>2, WriteMoves DEF OthersStay
    <3> QED  BY <2>3, <2>5, <3>1, <3>3, Enqueued DEF Told
  <2> QED  BY <2>4, <2>5
<1>7. ASSUME NEW u \in User, NEW p \in ChatPath, UNCHANGED appVars, Enqueue(u, ViewCallbacks(u, p)),
             \A v \in User : \A x \in ChatPath : (v # u \/ x # p) => ViewNext(v, x) = View(v, x)
      PROVE  Quiet(w) \/ Told(w, p)
  <2>1. ScreensStay(w)
    BY <1>7 DEF ScreensStay, appVars
  <2>2. CASE w # u
    BY <1>7, <2>1, <2>2, Enqueued DEF Quiet
  <2>3. CASE w = u
    BY <1>7, <2>1, <2>3, Enqueued DEF Told, OthersStay
  <2> QED  BY <2>2, <2>3
<1>8. ASSUME NEW u \in User, PersistWrite(u) \/ CommitWrite(u) \/ StreamBroken(u) PROVE Quiet(w)
  BY <1>2, <1>8 DEF PersistWrite, Persist, CommitWrite, Commit, StreamBroken, RestartStream
<1>9. ASSUME NEW u \in User, WriteAnswered(u)
      PROVE  Quiet(w) \/ \E p \in ChatPath : Told(w, p)
  <2>1. PICK p \in ChatPath : p = Head(mutationQueue[u]).path
    BY <1>1, <1>9, AnswerMoves DEF WriteAnswered
  <2>2. \A v \in User : \A x \in ChatPath : (v # u \/ x # p) => ViewNext(v, x) = View(v, x)
    BY <1>1, <1>9, <2>1, AnswerMoves DEF WriteAnswered
  <2>3. UNCHANGED appVars /\ Enqueue(u, ViewCallbacks(u, p))
    BY <1>9, <2>1 DEF WriteAnswered
  <2> QED  BY <1>7, <2>2, <2>3
<1>10. ASSUME NEW u \in User, NEW p \in ChatPath, ReceiveSnapshot(u, p) PROVE Quiet(w) \/ Told(w, p)
  <2>1. UNCHANGED appVars /\ Enqueue(u, ViewCallbacks(u, p)) /\ Watch(u, p)
    BY <1>10 DEF ReceiveSnapshot
  <2> QED  BY <1>1, <1>7, <2>1, WatchMoves
<1>11. ASSUME NEW u \in User, Relaunch(u), w # u PROVE Quiet(w)
  <2>1. \A x \in ChatPath : ViewNext(w, x) = View(w, x)
    BY <1>11, KillMoves
  <2>2. ScreensStay(w) /\ mainQueue'[w] = mainQueue[w]
    BY <1>11 DEF Relaunch, FreshProcess, ScreensStay, TypeOK
  <2> QED  BY <2>1, <2>2 DEF Quiet
<1> QED  BY <1>3, <1>4, <1>5, <1>6, <1>8, <1>9, <1>10, <1>11, EachSends DEF Next

\* The callbacks a step of the client causes.
LEMMA HeardOf ==
  ASSUME TypeOK, TypeOK', NEW u \in User, NEW p \in ChatPath
  PROVE  \E r \in Seq(Callback) :
           /\ r = ViewCallbacks(u, p)
           /\ \/ ViewNext(u, p) = View(u, p) /\ r = << >>
              \/ /\ ViewNext(u, p) # View(u, p)
                 /\ ListenerCount(u, p) \in Nat /\ Len(r) = ListenerCount(u, p)
                 /\ \A i \in 1..Len(r) : /\ r[i].chat = p.peer /\ r[i].vc = i
                                         /\ r[i].snap = ViewNext(u, p)
<1>1. PICK n : n = ListenerCount(u, p)
  OBVIOUS
<1>2. PICK snap : snap = ViewNext(u, p)
  OBVIOUS
<1>3. snap \in Document
  BY <1>2, ViewType, TypeParts DEF FsTypeOK, ViewNext
<1>4. n \in Nat
  <2>1. recents[u] \in Nat /\ \A c \in User : Len(listeners[u][c]) \in Nat
    BY ControllersType DEF TypeOK
  <2> QED  BY <1>1, <2>1, Paths DEF ListenerCount
<1>5. CASE snap = View(u, p)
  <2>1. << >> \in Seq(Callback)
    OBVIOUS
  <2>2. << >> = ViewCallbacks(u, p)
    BY <1>2, <1>5 DEF ViewCallbacks, ViewNext
  <2> QED  BY <1>2, <1>5, <2>1, <2>2
<1>6. CASE snap # View(u, p)
  <2>1. PICK r : r = Callbacks(p, n, snap)
    OBVIOUS
  <2>2. r \in Seq(Callback) /\ Len(r) = n
        /\ \A i \in 1..n : r[i].chat = p.peer /\ r[i].vc = i
    BY <1>3, <1>4, <2>1, CallbacksType
  <2>3. \A i \in 1..n : r[i].snap = snap
    BY <2>1 DEF Callbacks
  <2>4. r = ViewCallbacks(u, p)
    BY <1>1, <1>2, <1>6, <2>1 DEF ViewCallbacks, ViewNext
  <2> QED  BY <1>1, <1>2, <1>4, <1>6, <2>2, <2>3, <2>4
<1> QED  BY <1>5, <1>6
-----------------------------------------------------------------------------
(***************************************************************************)
(* The badges: q is a main queue, buffer what the badges are counted from, *)
(* V the buffer document its device sees.                                  *)
(***************************************************************************)
Waiting(q, c) == {i \in 1..Len(q) : q[i].chat = c}

\* The snapshots the callbacks of one chat bring.
Snaps(q, c) == {q[i].snap : i \in Waiting(q, c)}

BadgesFit(u, q, buffer, V) ==
  IF Waiting(q, u) = {} THEN V = buffer
  ELSE \E i \in Waiting(q, u) : q[i].snap = V /\ \A j \in Waiting(q, u) : j <= i

\* Callbacks are added: none of the buffer, or at the end one with the view.
LEMMA BadgesEnqueued ==
  ASSUME NEW u, NEW q \in Seq(Callback), NEW r \in Seq(Callback), NEW buffer, NEW V,
         \/ Len(r) > 0 /\ r[Len(r)].chat = u /\ r[Len(r)].snap = V
         \/ (\A i \in 1..Len(r) : r[i].chat # u) /\ BadgesFit(u, q, buffer, V)
  PROVE  BadgesFit(u, q \o r, buffer, V)
<1>1. PICK s : s = q \o r
  OBVIOUS
<1>2. /\ Len(s) = Len(q) + Len(r) /\ Len(q) \in Nat /\ Len(r) \in Nat
      /\ \A i \in 1..Len(q) : s[i] = q[i]
      /\ \A i \in 1..Len(r) : s[Len(q) + i] = r[i]
  BY <1>1
<1>3. CASE Len(r) > 0 /\ r[Len(r)].chat = u /\ r[Len(r)].snap = V
  <2>1. Len(s) \in Waiting(s, u) /\ s[Len(s)].snap = V /\ \A j \in Waiting(s, u) : j <= Len(s)
    BY <1>2, <1>3 DEF Waiting
  <2> QED  BY <1>1, <2>1 DEF BadgesFit
<1>4. CASE (\A i \in 1..Len(r) : r[i].chat # u) /\ BadgesFit(u, q, buffer, V)
  <2>1. \A i \in 1..Len(s) : i \in 1..Len(q) \/ (i - Len(q) \in 1..Len(r) /\ i = Len(q) + (i - Len(q)))
    BY <1>2
  <2>2. Waiting(s, u) = Waiting(q, u)
    <3>1. \A i \in Waiting(s, u) : i \in 1..Len(q)
      BY <1>2, <1>4, <2>1 DEF Waiting
    <3>2. \A i \in 1..Len(q) : i \in 1..Len(s)
      BY <1>2
    <3> QED  BY <1>2, <3>1, <3>2 DEF Waiting
  <2>3. \A i \in Waiting(q, u) : s[i] = q[i]
    BY <1>2 DEF Waiting
  <2> QED  BY <1>1, <1>4, <2>2, <2>3 DEF BadgesFit
<1> QED  BY <1>3, <1>4

\* The first callback runs: the buffer's replaces what is counted.
LEMMA BadgesDequeued ==
  ASSUME NEW u, NEW q \in Seq(Callback), Len(q) > 0, NEW buffer, NEW V, BadgesFit(u, q, buffer, V),
         NEW bufferNext, bufferNext = IF q[1].chat = u THEN q[1].snap ELSE buffer
  PROVE  BadgesFit(u, Tail(q), bufferNext, V)
<1>1. PICK s : s = Tail(q)
  OBVIOUS
<1>2. /\ Len(s) = Len(q) - 1 /\ Len(q) \in Nat
      /\ \A i \in 1..Len(s) : s[i] = q[i + 1]
  BY <1>1
<1>3. \A i \in 1..Len(s) : i \in Waiting(s, u) <=> i + 1 \in Waiting(q, u)
  BY <1>2 DEF Waiting
<1>4. \A i \in Waiting(q, u) : i = 1 \/ (i - 1 \in Waiting(s, u) /\ s[i - 1] = q[i])
  <2> TAKE i \in Waiting(q, u)
  <2>1. i # 1 => i - 1 \in 1..Len(s) /\ (i - 1) + 1 = i
    BY <1>2 DEF Waiting
  <2> QED  BY <1>2, <1>3, <2>1
<1>5. \A i \in Waiting(s, u) : i \in 1..Len(s) /\ i + 1 \in Waiting(q, u)
  BY <1>3 DEF Waiting
<1>6. CASE Waiting(q, u) = {}
  <2>1. Waiting(s, u) = {} /\ q[1].chat # u
    BY <1>2, <1>5, <1>6 DEF Waiting
  <2> QED  BY <1>1, <1>6, <2>1 DEF BadgesFit
<1>7. ASSUME NEW n \in Waiting(q, u), q[n].snap = V, \A j \in Waiting(q, u) : j <= n
      PROVE  BadgesFit(u, s, bufferNext, V)
  <2>1. CASE n = 1
    <3>1. ASSUME NEW j \in Waiting(s, u) PROVE FALSE
      <4>1. j \in 1..Len(s) /\ j + 1 <= 1
        BY <1>5, <1>7, <2>1
      <4> QED  BY <1>2, <4>1
    <3>2. q[1].chat = u
      BY <1>7, <2>1 DEF Waiting
    <3> QED  BY <1>7, <2>1, <3>1, <3>2 DEF BadgesFit
  <2>2. CASE n # 1
    <3>1. n - 1 \in Waiting(s, u) /\ s[n - 1].snap = V
      BY <1>4, <1>7, <2>2
    <3>2. \A j \in Waiting(s, u) : j <= n - 1
      BY <1>5, <1>7 DEF Waiting
    <3> QED  BY <3>1, <3>2 DEF BadgesFit
  <2> QED  BY <2>1, <2>2
<1> QED  BY <1>1, <1>6, <1>7 DEF BadgesFit

BadgeOK(u) == recents[u] > 0 /\ BadgesFit(u, mainQueue[u], bufferChat[u], View(u, Buffer(u)))

LEMMA NextBadgeOK ==
  ASSUME NEW u \in User
  PROVE  BadgeOK(u)' <=> /\ recents'[u] > 0
                         /\ BadgesFit(u, mainQueue'[u], bufferChat'[u], ViewNext(u, Buffer(u)))
<1>1. View(u, Buffer(u))' = ViewNext(u, Buffer(u))
  BY NextView
<1> QED  BY <1>1 DEF BadgeOK, BadgesFit, Waiting

\* Which callbacks of a step are of the buffer.
LEMMA BadgesTold ==
  ASSUME TypeOK, TypeOK', NEW u \in User, NEW p \in ChatPath, recents[u] > 0,
         \/ p = Buffer(u)
         \/ p # Buffer(u) /\ ViewNext(u, Buffer(u)) = View(u, Buffer(u)),
         NEW q \in Seq(Callback), NEW buffer,
         \/ BadgesFit(u, q, buffer, View(u, Buffer(u)))
         \/ p = Buffer(u) /\ ViewNext(u, p) # View(u, p)
  PROVE  BadgesFit(u, q \o ViewCallbacks(u, p), buffer, ViewNext(u, Buffer(u)))
<1>1. PICK r \in Seq(Callback) :
        /\ r = ViewCallbacks(u, p)
        /\ \/ ViewNext(u, p) = View(u, p) /\ r = << >>
           \/ /\ ViewNext(u, p) # View(u, p)
              /\ ListenerCount(u, p) \in Nat /\ Len(r) = ListenerCount(u, p)
              /\ \A i \in 1..Len(r) : /\ r[i].chat = p.peer /\ r[i].vc = i
                                      /\ r[i].snap = ViewNext(u, p)
  BY HeardOf
<1>2. PICK V : V = ViewNext(u, Buffer(u))
  OBVIOUS
<1>3. CASE p = Buffer(u) /\ ViewNext(u, p) # View(u, p)
  <2>1. Len(r) = recents[u] /\ recents[u] \in Nat /\ p.peer = u
    BY <1>1, <1>3 DEF ListenerCount, TypeOK, Buffer
  <2>2. Len(r) > 0 /\ Len(r) \in 1..Len(r)
    BY <2>1
  <2>3. r[Len(r)].chat = u /\ r[Len(r)].snap = V
    BY <1>1, <1>2, <1>3, <2>1, <2>2
  <2> QED  BY <1>1, <1>2, <2>2, <2>3, BadgesEnqueued
<1>4. CASE ~(p = Buffer(u) /\ ViewNext(u, p) # View(u, p))
  <2>1. BadgesFit(u, q, buffer, V) /\ V = View(u, Buffer(u))
    BY <1>2, <1>4
  <2>2. ASSUME NEW i \in 1..Len(r) PROVE r[i].chat # u
    <3>1. r # << >> /\ r[i].chat = p.peer /\ Len(r) = ListenerCount(u, p) /\ p # Buffer(u)
      BY <1>1, <1>4, <2>2
    <3>2. CASE p.owner = u
      BY <3>1, <3>2, Paths
    <3>3. CASE p.owner # u
      <4>1. Len(r) = 0
        BY <3>1, <3>3 DEF ListenerCount
      <4> QED  BY <4>1, <2>2
    <3> QED  BY <3>2, <3>3
  <2> QED  BY <1>1, <1>2, <2>1, <2>2, BadgesEnqueued
<1> QED  BY <1>3, <1>4

LEMMA OpenChatBadges ==
  ASSUME TypeOK, TypeOK', NEW u \in User, BadgeOK(u), NEW c \in User, OpenChat(u, c)
  PROVE  BadgeOK(u)'
<1>1. PICK ms \in Seq(Mutation) : ms = CleanBuffer(u, c)
  BY CleanBufferType DEF TypeOK
<1>2. PICK p \in ChatPath : p = Buffer(u)
  BY Paths
<1>3. PICK m : m = [path |-> p, fields |-> Kept(u, c), merge |-> FALSE]
  OBVIOUS
<1>4. ms = <<m>> /\ m.path = p /\ ~m.merge /\ m.fields = Kept(u, c)
  BY <1>1, <1>2, <1>3 DEF CleanBuffer
<1>5. m \in Mutation
  <2>1. ms[1] \in Mutation
    <3>1. Len(ms) = 1
      BY <1>4
    <3> QED  BY <3>1
  <2> QED  BY <1>4, <2>1
<1>6. LocallyWrite(u, ms) /\ bufferChat'[u] = Kept(u, c) /\ recents' = recents
  BY <1>1 DEF OpenChat, TypeOK
<1>7. ViewNext(u, p) = bufferChat'[u]
  <2>1. PICK doc : doc = remoteDocs[u][p]
    OBVIOUS
  <2>2. PICK q : q = mutationQueue[u]
    OBVIOUS
  <2>3. doc \in Lemmas!Document /\ q \in Seq(Lemmas!Mutation) /\ m \in Lemmas!Mutation
    BY <1>5, <2>1, <2>2, SameTypes, TypeParts DEF FsTypeOK
  <2>4. Lemmas!LocalView(doc, q \o <<m>>, m.path) = m.fields
    BY <1>4, <2>3, SameTypes, Lemmas!ViewOfReplacing
  <2>5. remoteDocs'[u][p] = doc /\ mutationQueue'[u] = q \o <<m>>
    BY <1>4, <1>6, <2>1, <2>2, TypeParts DEF LocallyWrite, FsTypeOK
  <2> QED  BY <1>4, <1>6, <2>4, <2>5, SameView DEF ViewNext
<1>8. PICK r \in Seq(Callback) : r = ViewCallbacks(u, p)
  BY HeardOf
<1>9. PICK q \in Seq(Callback) : q = mainQueue[u]
  BY DEF TypeOK
<1>10. BadgesFit(u, q \o r, bufferChat'[u], ViewNext(u, p))
  <2>1. CASE ViewNext(u, p) # View(u, p)
    BY <1>2, <1>8, <1>9, <2>1, BadgesTold DEF BadgeOK
  <2>2. CASE ViewNext(u, p) = View(u, p)
    <3>1. BadgesFit(u, q, bufferChat'[u], View(u, p))
      BY <1>2, <1>7, <1>9, <2>2 DEF BadgeOK, BadgesFit
    <3> QED  BY <1>2, <1>8, <1>9, <3>1, BadgesTold DEF BadgeOK
  <2> QED  BY <2>1, <2>2
<1>11. PICK e : e = [chat |-> c, vc |-> Len(listeners[u][c]) + 1, snap |-> View(u, Conversation(u, c))]
  OBVIOUS
<1>12. PICK o : o = IF View(u, Conversation(u, c)) = {} THEN << >> ELSE <<e>>
  OBVIOUS
<1>13. c # u /\ mainQueue'[u] = q \o (r \o o)
  <2>1. Enqueue(u, r \o o)
    BY <1>2, <1>8, <1>11, <1>12 DEF OpenChat
  <2> QED  BY <1>9, <2>1, Enqueued DEF OpenChat
<1>14. o \in Seq(Callback) /\ \A i \in 1..Len(o) : o[i].chat # u
  <2>1. e \in Callback /\ e.chat = c
    <3>1. Len(listeners[u][c]) + 1 \in Nat
      BY ControllersType DEF TypeOK
    <3>2. View(u, Conversation(u, c)) \in Document
      <4>1. Conversation(u, c) \in ChatPath
        BY <1>13, Paths
      <4> QED  BY <4>1, ViewType, TypeParts DEF FsTypeOK, View
    <3> QED  BY <1>11, <3>1, <3>2 DEF Callback
  <2>2. PICK b : b = <<e>> /\ b \in Seq(Callback) /\ Len(b) = 1 /\ b[1] = e
    BY <2>1, OneCallback
  <2>3. CASE o = << >>
    BY <2>3
  <2>4. CASE o = b
    BY <1>13, <2>1, <2>2, <2>4
  <2> QED  BY <1>12, <2>2, <2>3, <2>4
<1>15. (q \o r) \in Seq(Callback) /\ q \o (r \o o) = (q \o r) \o o
  BY <1>14
<1>16. BadgesFit(u, mainQueue'[u], bufferChat'[u], ViewNext(u, p))
  BY <1>10, <1>13, <1>14, <1>15, BadgesEnqueued
<1> QED  BY <1>2, <1>6, <1>16, NextBadgeOK DEF BadgeOK

LEMMA BackBadges ==
  ASSUME TypeOK, TypeOK', NEW u \in User, BadgeOK(u), Back(u)
  PROVE  BadgeOK(u)'
<1>1. PICK V : V = View(u, Buffer(u))
  OBVIOUS
<1>2. V \in Document /\ V = ViewNext(u, Buffer(u))
  <2>1. Buffer(u) \in ChatPath
    BY Paths
  <2>2. V \in Document
    BY <1>1, <2>1, ViewType, TypeParts DEF FsTypeOK, View
  <2>3. UNCHANGED <<remoteDocs, mutationQueue>>
    BY DEF Back, clientVars
  <2> QED  BY <1>1, <2>1, <2>2, <2>3, NothingMoves
<1>3. recents[u] \in Nat /\ recents'[u] = recents[u] + 1
  BY DEF Back, TypeOK
<1>4. PICK e : e = [chat |-> u, vc |-> recents[u] + 1, snap |-> V]
  OBVIOUS
<1>5. e \in Callback /\ e.chat = u /\ e.snap = V
  BY <1>2, <1>3, <1>4 DEF Callback
<1>6. PICK r : r = <<e>> /\ r \in Seq(Callback) /\ Len(r) = 1 /\ r[1] = e
  BY <1>5, OneCallback
<1>7. PICK q \in Seq(Callback) : mainQueue'[u] = q \o r
  <2>1. Enqueue(u, r) /\ mainQueue[u] \in Seq(Callback)
    BY <1>1, <1>4, <1>6 DEF Back, TypeOK
  <2> QED  BY <2>1, Enqueued
<1>8. PICK buffer : buffer = bufferChat'[u]
  OBVIOUS
<1>9. BadgesFit(u, q \o r, buffer, V)
  <2>1. Len(r) > 0 /\ r[Len(r)].chat = u /\ r[Len(r)].snap = V
    BY <1>5, <1>6
  <2> QED  BY <2>1, <1>6, BadgesEnqueued
<1>10. BadgesFit(u, mainQueue'[u], bufferChat'[u], ViewNext(u, Buffer(u)))
  BY <1>2, <1>7, <1>8, <1>9
<1>11. recents'[u] > 0
  BY <1>3
<1> QED  BY <1>10, <1>11, NextBadgeOK

LEMMA CallbackBadges ==
  ASSUME TypeOK, NEW u \in User, BadgeOK(u), BufferCallback(u) \/ ConversationCallback(u)
  PROVE  BadgeOK(u)'
<1>1. PICK q \in Seq(Callback) : q = mainQueue[u]
  BY DEF TypeOK
<1>2. q # << >> /\ mainQueue'[u] = Tail(q) /\ recents' = recents
      /\ UNCHANGED <<remoteDocs, mutationQueue>>
  <2>1. /\ q # << >> /\ mainQueue' = [mainQueue EXCEPT ![u] = Tail(@)]
        /\ UNCHANGED recents /\ UNCHANGED clientVars
    BY <1>1 DEF BufferCallback, ConversationCallback
  <2>2. mainQueue'[u] = Tail(q)
    BY <1>1, <2>1 DEF TypeOK
  <2> QED  BY <2>1, <2>2 DEF clientVars
<1>3. Len(q) > 0 /\ Head(q) = q[1]
  BY <1>2
<1>4. bufferChat'[u] = IF q[1].chat = u THEN q[1].snap ELSE bufferChat[u]
  <2>1. CASE BufferCallback(u)
    BY <1>1, <1>3, <2>1 DEF BufferCallback, TypeOK
  <2>2. CASE ConversationCallback(u)
    BY <1>1, <1>3, <2>2 DEF ConversationCallback
  <2> QED  BY <2>1, <2>2
<1>5. PICK buffer : buffer = bufferChat'[u]
  OBVIOUS
<1>6. BadgesFit(u, Tail(q), buffer, View(u, Buffer(u)))
  BY <1>1, <1>3, <1>4, <1>5, BadgesDequeued DEF BadgeOK
<1>7. ViewNext(u, Buffer(u)) = View(u, Buffer(u))
  BY <1>2, Paths, NothingMoves
<1> QED  BY <1>2, <1>5, <1>6, <1>7, NextBadgeOK DEF BadgeOK

LEMMA RelaunchBadges ==
  ASSUME TypeOK, TypeOK', NEW u \in User, Relaunch(u)
  PROVE  BadgeOK(u)'
<1>1. PICK V : V = ViewNext(u, Buffer(u))
  OBVIOUS
<1>2. V \in Document
  BY <1>1, KillMoves
<1>3. PICK q : q = Callbacks(Buffer(u), 1, V)
  OBVIOUS
<1>4. q \in Seq(Callback) /\ Len(q) = 1 /\ q[1].chat = u
  BY <1>2, <1>3, FirstCallback
<1>5. q[1].snap = V
  BY <1>3 DEF Callbacks
<1>6. mainQueue'[u] = q /\ recents'[u] = 1
  <2>1. mainQueue'[u] = q
    BY <1>1, <1>3, KillMoves
  <2> QED  BY <2>1 DEF Relaunch, FreshProcess, TypeOK
<1>7. 1 \in Waiting(q, u) /\ \A j \in Waiting(q, u) : j <= 1
  BY <1>4 DEF Waiting
<1>8. BadgesFit(u, q, bufferChat'[u], V)
  BY <1>5, <1>7 DEF BadgesFit
<1> QED  BY <1>1, <1>6, <1>8, NextBadgeOK

LEMMA NextBadges ==
  ASSUME TypeOK, TypeOK', [Next]_vars, NEW u \in User, BadgeOK(u)
  PROVE  BadgeOK(u)'
<1>1. Buffer(u) \in ChatPath /\ Buffer(u).owner = u
  BY Paths DEF Buffer
<1>2. CASE Quiet(u)
  <2>1. ViewNext(u, Buffer(u)) = View(u, Buffer(u))
    BY <1>1, <1>2 DEF Quiet
  <2> QED  BY <1>2, <2>1, NextBadgeOK DEF BadgeOK, Quiet, ScreensStay
<1>3. ASSUME NEW p \in ChatPath, Told(u, p) PROVE BadgeOK(u)'
  <2>1. p = Buffer(u) \/ ViewNext(u, Buffer(u)) = View(u, Buffer(u))
    BY <1>1, <1>3 DEF Told, OthersStay
  <2>2. BadgesFit(u, mainQueue[u] \o ViewCallbacks(u, p), bufferChat[u], ViewNext(u, Buffer(u)))
    <3>1. mainQueue[u] \in Seq(Callback)
      BY DEF TypeOK
    <3> QED  BY <2>1, <3>1, BadgesTold DEF BadgeOK
  <2> QED  BY <1>3, <2>2, NextBadgeOK DEF BadgeOK, Told, ScreensStay
<1> QED  BY <1>2, <1>3, EachHears, OpenChatBadges, BackBadges, CallbackBadges, RelaunchBadges

LEMMA InitBadges ==
  ASSUME Init, NEW u \in User
  PROVE  BadgeOK(u)
<1>1. PICK q : q = Callbacks(Buffer(u), 1, {})
  OBVIOUS
<1>2. {} \in Document
  BY DEF Document
<1>3. q \in Seq(Callback) /\ Len(q) = 1 /\ q[1].chat = u
  BY <1>1, <1>2, FirstCallback
<1>4. q[1].snap = {}
  BY <1>1 DEF Callbacks
<1>5. mainQueue[u] = q /\ recents[u] = 1
  BY <1>1 DEF Init
<1>6. View(u, Buffer(u)) = {}
  <2>1. Buffer(u) \in ChatPath
    BY Paths
  <2>2. remoteDocs[u][Buffer(u)] = {} /\ mutationQueue[u] = << >>
    BY <2>1 DEF Init, FsInit
  <2> QED  BY <2>2 DEF View, LocalView
<1>7. 1 \in Waiting(q, u) /\ \A j \in Waiting(q, u) : j <= 1
  BY <1>3 DEF Waiting
<1> QED  BY <1>4, <1>5, <1>6, <1>7 DEF BadgeOK, BadgesFit

LEMMA BadgesSettled ==
  ASSUME \A u \in User : BadgeOK(u)
  PROVE  BadgesSettle
<1> SUFFICES ASSUME NEW u \in User, NEW waiting, waiting = ChatCallbacks(u, u)
             PROVE  View(u, Buffer(u)) =
                      IF waiting = {} THEN bufferChat[u]
                      ELSE mainQueue[u][CHOOSE i \in waiting : \A j \in waiting : j <= i].snap
  BY DEF BadgesSettle
<1>1. waiting = Waiting(mainQueue[u], u)
  BY DEF ChatCallbacks, Waiting
<1>2. BadgesFit(u, mainQueue[u], bufferChat[u], View(u, Buffer(u)))
  BY DEF BadgeOK
<1>3. CASE waiting = {}
  BY <1>1, <1>2, <1>3 DEF BadgesFit
<1>4. CASE waiting # {}
  <2>1. PICK n \in waiting : /\ mainQueue[u][n].snap = View(u, Buffer(u))
                             /\ \A j \in waiting : j <= n
    BY <1>1, <1>2, <1>4 DEF BadgesFit
  <2>2. PICK last : last = CHOOSE i \in waiting : \A j \in waiting : j <= i
    OBVIOUS
  <2>3. last \in waiting /\ \A j \in waiting : j <= last
    BY <2>1, <2>2
  <2>4. \A i \in waiting : i \in Nat
    BY <1>1 DEF Waiting
  <2>5. last = n
    BY <2>1, <2>3, <2>4
  <2> QED  BY <1>4, <2>1, <2>2, <2>5
<1> QED  BY <1>3, <1>4
-----------------------------------------------------------------------------
(***************************************************************************)
(* Keys.  The fields of a Conversation document are never taken away.      *)
(***************************************************************************)
PermanentKeys == [p \in ChatPath |-> IF p \in Chats THEN Time ELSE {}]

KeysInv == Lemmas!KeysKept(PermanentKeys)

LEMMA KeysOfPath ==
  /\ \A p \in Chats : PermanentKeys[p] = Time
  /\ \A w \in User : PermanentKeys[Buffer(w)] = {}
<1>1. \A p \in Chats : PermanentKeys[p] = Time
  BY ChatsParts DEF PermanentKeys
<1>2. \A w \in User : PermanentKeys[Buffer(w)] = {}
  BY ChatsParts, Paths DEF PermanentKeys
<1> QED  BY <1>1, <1>2

\* A step is one of the network, a kill, a visit, or a message.
LEMMA NextSplits ==
  ASSUME TypeOK, [Next]_vars
  PROVE  \/ Lemmas!NetworkStep /\ sent' = sent /\ lost' = lost
         \/ \E u \in User : Relaunch(u) /\ Lemmas!Killed({u}) /\ sent' = sent
         \/ \E u, c \in User : OpenChat(u, c)
         \/ \E u \in User : \E c \in User \ {u}, t \in Clock[u] : SendMessage(u, c, t)
<1>1. UNCHANGED clientVars => Lemmas!NetworkStep
  BY DEF clientVars, Lemmas!NetworkStep, Lemmas!fsVars
<1>2. CASE UNCHANGED vars
  BY <1>1, <1>2 DEF vars
<1>3. ASSUME NEW u \in User, Back(u) \/ BufferCallback(u) \/ ConversationCallback(u)
      PROVE  Lemmas!NetworkStep /\ sent' = sent /\ lost' = lost
  BY <1>1, <1>3 DEF Back, BufferCallback, ConversationCallback
<1>4. ASSUME NEW u \in User, CommitWrite(u) PROVE Lemmas!NetworkStep /\ sent' = sent /\ lost' = lost
  <2>1. Lemmas!Commit(u)
    BY <1>4 DEF CommitWrite, Commit, Lemmas!Commit, ApplyTo, Lemmas!ApplyTo,
                Overwrites, Lemmas!Overwrites
  <2> QED  BY <1>4, <2>1 DEF CommitWrite, Lemmas!NetworkStep
<1>5. ASSUME NEW u \in User, WriteAnswered(u) PROVE Lemmas!NetworkStep /\ sent' = sent /\ lost' = lost
  <2>1. Lemmas!Acknowledge(u)
    BY <1>5 DEF WriteAnswered, Acknowledge, Lemmas!Acknowledge, ApplyTo, Lemmas!ApplyTo,
                Overwrites, Lemmas!Overwrites
  <2> QED  BY <1>5, <2>1 DEF WriteAnswered, Lemmas!NetworkStep
<1>6. ASSUME NEW u \in User, StreamBroken(u) PROVE Lemmas!NetworkStep /\ sent' = sent /\ lost' = lost
  <2>1. Lemmas!Restart(u)
    BY <1>6 DEF StreamBroken, RestartStream, Lemmas!Restart
  <2> QED  BY <1>6, <2>1 DEF StreamBroken, Lemmas!NetworkStep
<1>7. ASSUME NEW u \in User, NEW p \in ChatPath, ReceiveSnapshot(u, p)
      PROVE  Lemmas!NetworkStep /\ sent' = sent /\ lost' = lost
  <2>1. Lemmas!Watch(u, p)
    BY <1>7 DEF ReceiveSnapshot, Watch, Lemmas!Watch, CommittedOn, Lemmas!CommittedOn
  <2> QED  BY <1>7, <2>1 DEF ReceiveSnapshot, Lemmas!NetworkStep
<1>8. ASSUME NEW u \in User, PersistWrite(u) PROVE Lemmas!NetworkStep /\ sent' = sent /\ lost' = lost
  <2>1. Lemmas!Persist(u)
    BY <1>8 DEF PersistWrite, Persist, Lemmas!Persist
  <2> QED  BY <1>8, <2>1 DEF PersistWrite, Lemmas!NetworkStep
<1>9. ASSUME NEW u \in User, Relaunch(u) PROVE Lemmas!Killed({u}) /\ sent' = sent
  <2>1. Lemmas!Killed({u})
    BY <1>9, RelaunchIsKill, SameKill, TypeParts
  <2> QED  BY <1>9, <2>1 DEF Relaunch, FreshProcess
<1> QED  BY <1>2, <1>3, <1>4, <1>5, <1>6, <1>7, <1>8, <1>9, EachSends DEF Next

\* The writes of a message.
LEMMA MessageWrites ==
  ASSUME TypeOK, NEW u \in User, NEW c \in User \ {u}, NEW t \in Clock[u], SendMessage(u, c, t)
  PROVE  \E m \in Msg, ms \in Seq(Mutation), own \in Chats, far \in Chats :
           /\ t \in Time /\ m = [key |-> t, from |-> u] /\ m.key = t /\ m.from = u
           /\ own = Conversation(u, c) /\ far = Conversation(c, u)
           /\ own.owner = u /\ own.peer = c /\ far.owner = c /\ far.peer = u
           /\ LocallyWrite(u, ms) /\ Lemmas!LocallyWrite(u, ms)
           /\ Len(ms) = 3 /\ \A i \in 1..Len(ms) : ms[i].merge /\ ms[i].fields = {m}
           /\ ms[1].path = Buffer(c) /\ ms[2].path = own /\ ms[3].path = far
           /\ Buffer(c) \in ChatPath /\ Buffer(c) \notin Chats
<1>1. t \in Time
  BY ChatAssumption DEF Time
<1>2. PICK m \in Msg : m = [key |-> t, from |-> u]
  BY <1>1 DEF Msg
<1>3. PICK own \in Chats : own = Conversation(u, c)
  BY ChatsParts
<1>4. PICK far \in Chats : far = Conversation(c, u)
  BY ChatsParts
<1>5. PICK ms \in Seq(Mutation) : ms = Copies(u, c, m)
  BY CopiesType
<1>6. /\ Len(ms) = 3 /\ ms[1] = MergeInto(Buffer(c), m)
      /\ ms[2] = MergeInto(own, m) /\ ms[3] = MergeInto(far, m)
  BY <1>3, <1>4, <1>5 DEF Copies
<1>7. LocallyWrite(u, ms) /\ Lemmas!LocallyWrite(u, ms)
  BY <1>2, <1>5 DEF SendMessage, LocallyWrite, Lemmas!LocallyWrite
<1>8. ms[1].path = Buffer(c) /\ ms[2].path = own /\ ms[3].path = far
  BY <1>6, Carried
<1>9. ASSUME NEW i \in 1..Len(ms) PROVE ms[i].merge /\ ms[i].fields = {m}
  <2>1. i = 1 \/ i = 2 \/ i = 3
    BY <1>6
  <2> QED  BY <1>6, <2>1, Carried
<1>10. own.owner = u /\ own.peer = c /\ far.owner = c /\ far.peer = u
  BY <1>3, <1>4, ConversationParts
<1>11. Buffer(c) \in ChatPath /\ Buffer(c) \notin Chats
  BY Paths, ChatsParts
<1>12. m.key = t /\ m.from = u
  BY <1>2
<1> QED  BY <1>1, <1>2, <1>3, <1>4, <1>6, <1>7, <1>8, <1>9, <1>10, <1>11, <1>12

\* Nothing but a kill takes a key of a conversation out of a queue.
LEMMA NextKeys ==
  ASSUME TypeOK, KeysInv, [Next]_vars
  PROVE  KeysInv' /\ (Lemmas!KeysGrow(PermanentKeys) \/ \E u \in User : Relaunch(u))
<1>1. Lemmas!FsTypeOK /\ Lemmas!FirestoreAssumption
  BY SameTypes, TypeParts
<1>2. CASE Lemmas!NetworkStep
  BY <1>1, <1>2, Lemmas!NetworkKeepsKeys DEF KeysInv
<1>3. ASSUME NEW u \in User, NEW c \in User, OpenChat(u, c)
      PROVE  KeysInv' /\ Lemmas!KeysGrow(PermanentKeys)
  <2>1. PICK ms \in Seq(Mutation) : ms = CleanBuffer(u, c)
    BY CleanBufferType DEF TypeOK
  <2>2. Lemmas!LocallyWrite(u, ms) /\ ms \in Seq(Lemmas!Mutation)
    BY <1>3, <2>1, SameTypes DEF OpenChat, LocallyWrite, Lemmas!LocallyWrite
  <2>3. ASSUME NEW i \in 1..Len(ms) PROVE Lemmas!KeepsKeys(ms[i], PermanentKeys)
    <3>1. ms[i].path = Buffer(u)
      BY <2>1 DEF CleanBuffer
    <3> QED  BY <3>1, KeysOfPath DEF Lemmas!KeepsKeys
  <2> QED  BY <1>1, <2>2, <2>3, Lemmas!WriteKeepsKeys DEF KeysInv
<1>4. ASSUME NEW u \in User, NEW c \in User \ {u}, NEW t \in Clock[u], SendMessage(u, c, t)
      PROVE  KeysInv' /\ Lemmas!KeysGrow(PermanentKeys)
  <2>1. PICK ms \in Seq(Mutation) : /\ Lemmas!LocallyWrite(u, ms)
                                    /\ \A i \in 1..Len(ms) : ms[i].merge
    BY <1>4, MessageWrites
  <2>2. \A i \in 1..Len(ms) : Lemmas!KeepsKeys(ms[i], PermanentKeys)
    BY <2>1 DEF Lemmas!KeepsKeys
  <2>3. ms \in Seq(Lemmas!Mutation)
    BY SameTypes
  <2> QED  BY <1>1, <2>1, <2>2, <2>3, Lemmas!WriteKeepsKeys DEF KeysInv
<1>5. ASSUME NEW u \in User, Relaunch(u), Lemmas!Killed({u}) PROVE KeysInv'
  BY <1>1, <1>5, Lemmas!KilledKeepsKeys DEF KeysInv
<1> QED  BY <1>2, <1>3, <1>4, <1>5, NextSplits

\* What a device sees of a conversation never loses a message while the app
\* runs there.
LEMMA TranscriptsGrow ==
  ASSUME TypeOK, TypeOK', KeysInv, [Next]_vars, NEW u \in User, ~Relaunch(u), NEW p \in Chats
  PROVE  KeysOf(View(u, p)) \subseteq KeysOf(ViewNext(u, p))
<1> SUFFICES ASSUME \A w \in User : ~Relaunch(w)
             PROVE  KeysOf(View(u, p)) \subseteq KeysOf(ViewNext(u, p))
  <2>1. ASSUME NEW w \in User, Relaunch(w) PROVE KeysOf(View(u, p)) \subseteq KeysOf(ViewNext(u, p))
    <3>1. w # u /\ p \in ChatPath
      BY <2>1, ChatsParts
    <3>2. ViewNext(u, p) = View(u, p)
      BY <2>1, <3>1, KillMoves
    <3> QED  BY <3>2
  <2> QED  BY <2>1
<1>1. /\ Lemmas!FsTypeOK /\ Lemmas!FsTypeOK' /\ Lemmas!FirestoreAssumption
      /\ Lemmas!KeysKept(PermanentKeys) /\ (Lemmas!KeysKept(PermanentKeys))'
      /\ Lemmas!KeysGrow(PermanentKeys)
  BY SameTypes, TypeParts, NextKeys DEF KeysInv
<1>2. p \in ChatPath /\ PermanentKeys[p] = Time
  BY ChatsParts, KeysOfPath
<1>3. ASSUME NEW m \in View(u, p) PROVE m.key \in KeysOf(ViewNext(u, p))
  <2>1. m.key \in Time
    <3>1. View(u, p) \in Document
      BY <1>2, ViewType, TypeParts DEF FsTypeOK, View
    <3> QED  BY <3>1 DEF Document, Msg
  <2>2. Lemmas!Has(Lemmas!View(u, p), m.key)
    BY SameView DEF View, Lemmas!View, Lemmas!Has
  <2>3. Lemmas!Has(Lemmas!LocalView(remoteDocs'[u][p], mutationQueue'[u], p), m.key)
    BY <1>1, <1>2, <2>1, <2>2, Lemmas!ViewsGrow
  <2> QED  BY <2>3, SameView DEF ViewNext, Lemmas!Has, KeysOf
<1> QED  BY <1>3 DEF KeysOf
-----------------------------------------------------------------------------
(***************************************************************************)
(* The rows of a chat: n controllers listen to it, shown are the keys of   *)
(* its rows, V those of the conversation its device sees.  Only the first  *)
(* controller ever appends: what a later one is told is shown by then.     *)
(***************************************************************************)
Keys(e) == KeysOf(e.snap)

\* The waiting callbacks of the first controller.
First(q, c) == {i \in Waiting(q, c) : q[i].vc = 1}

\* The rows are the conversation, or will be.
UpToDate(c, shown, q, V) == shown = V \/ \E i \in First(q, c) : Keys(q[i]) = V

RowsFit(c, n, shown, q, V) ==
  /\ shown \subseteq V
  /\ \A i \in Waiting(q, c) : q[i].vc \in 1..n /\ Keys(q[i]) \subseteq V
  /\ \A i \in First(q, c) : shown \subseteq Keys(q[i])
  /\ \A i, j \in First(q, c) : j <= i => Keys(q[j]) \subseteq Keys(q[i])
  /\ \A i \in Waiting(q, c) : \/ Keys(q[i]) \subseteq shown
                              \/ \E j \in First(q, c) : j <= i /\ Keys(q[i]) \subseteq Keys(q[j])
  /\ n > 0 => UpToDate(c, shown, q, V)

\* Callbacks are added to a main queue.
Joined(q, r, s, c) ==
  /\ Len(s) = Len(q) + Len(r) /\ Len(q) \in Nat /\ Len(r) \in Nat
  /\ \A i \in Waiting(q, c) : i \in Waiting(s, c) /\ s[i] = q[i] /\ i <= Len(q)
  /\ \A i \in Waiting(r, c) : Len(q) + i \in Waiting(s, c) /\ s[Len(q) + i] = r[i]
  /\ \A i \in Waiting(s, c) : \/ i \in Waiting(q, c)
                              \/ /\ i - Len(q) \in Waiting(r, c)
                                 /\ i = Len(q) + (i - Len(q))

LEMMA WaitingConcat ==
  ASSUME NEW q \in Seq(Callback), NEW r \in Seq(Callback), NEW c,
         NEW s, s = q \o r
  PROVE  Joined(q, r, s, c)
<1>1. /\ Len(s) = Len(q) + Len(r) /\ Len(q) \in Nat /\ Len(r) \in Nat
      /\ \A i \in 1..Len(q) : s[i] = q[i]
      /\ \A i \in 1..Len(r) : s[Len(q) + i] = r[i]
  OBVIOUS
<1>2. \A i \in Waiting(q, c) : i \in Waiting(s, c) /\ s[i] = q[i] /\ i <= Len(q)
  BY <1>1 DEF Waiting
<1>3. \A i \in Waiting(r, c) : Len(q) + i \in Waiting(s, c) /\ s[Len(q) + i] = r[i]
  BY <1>1 DEF Waiting
<1>4. ASSUME NEW i \in Waiting(s, c)
      PROVE  \/ i \in Waiting(q, c)
             \/ /\ i - Len(q) \in Waiting(r, c)
                /\ i = Len(q) + (i - Len(q))
  <2>1. i \in 1..(Len(q) + Len(r)) /\ s[i].chat = c
    BY <1>1 DEF Waiting
  <2>2. CASE i \in 1..Len(q)
    BY <1>1, <2>1, <2>2 DEF Waiting
  <2>3. CASE i \notin 1..Len(q)
    <3>1. i - Len(q) \in 1..Len(r) /\ i = Len(q) + (i - Len(q))
      BY <1>1, <2>1, <2>3
    <3> QED  BY <1>1, <2>1, <3>1 DEF Waiting
  <2> QED  BY <2>2, <2>3
<1> QED  BY <1>1, <1>2, <1>3, <1>4 DEF Joined

\* What is told is the whole conversation, to the first controller before the
\* others, or to others when the first has it or will.
LEMMA RowsEnqueued ==
  ASSUME NEW c, NEW n \in Nat, NEW nNext \in Nat, n <= nNext, NEW shown,
         NEW q \in Seq(Callback), NEW r \in Seq(Callback), NEW V, NEW VNext, V \subseteq VNext,
         RowsFit(c, n, shown, q, V),
         \A i \in Waiting(r, c) :
           /\ r[i].vc \in 1..nNext /\ Keys(r[i]) = VNext
           /\ UpToDate(c, shown, q, VNext) \/ \E j \in First(r, c) : j <= i,
         nNext > 0 => UpToDate(c, shown, q, VNext) \/ First(r, c) # {}
  PROVE  RowsFit(c, nNext, shown, q \o r, VNext)
<1>1. PICK s : s = q \o r
  OBVIOUS
<1>2. /\ Len(s) = Len(q) + Len(r) /\ Len(q) \in Nat /\ Len(r) \in Nat
      /\ \A i \in Waiting(q, c) : i \in Waiting(s, c) /\ s[i] = q[i] /\ i <= Len(q)
      /\ \A i \in Waiting(r, c) : Len(q) + i \in Waiting(s, c) /\ s[Len(q) + i] = r[i]
      /\ \A i \in Waiting(s, c) : \/ i \in Waiting(q, c)
                                  \/ /\ i - Len(q) \in Waiting(r, c)
                                     /\ i = Len(q) + (i - Len(q))
  <2>1. Joined(q, r, s, c)
    BY <1>1, WaitingConcat
  <2> QED  BY <2>1 DEF Joined
<1>3. /\ \A i \in First(q, c) : i \in First(s, c) /\ s[i] = q[i]
      /\ \A i \in First(r, c) : Len(q) + i \in First(s, c) /\ s[Len(q) + i] = r[i]
      /\ \A i \in First(s, c) : \/ i \in First(q, c)
                                \/ i - Len(q) \in First(r, c) /\ Keys(s[i]) = VNext
  <2>1. ASSUME NEW i \in First(s, c), i - Len(q) \in Waiting(r, c), i = Len(q) + (i - Len(q))
        PROVE  i - Len(q) \in First(r, c) /\ Keys(s[i]) = VNext
    <3>1. s[i] = r[i - Len(q)]
      BY <1>2, <2>1
    <3> QED  BY <2>1, <3>1 DEF First
  <2>2. \A i \in First(s, c) : i \in Waiting(q, c) => i \in First(q, c)
    BY <1>2 DEF First
  <2>3. \A i \in First(s, c) : i \in Waiting(s, c)
    BY DEF First
  <2>4. \A i \in First(q, c) : i \in First(s, c) /\ s[i] = q[i]
    BY <1>2 DEF First
  <2>5. \A i \in First(r, c) : Len(q) + i \in First(s, c) /\ s[Len(q) + i] = r[i]
    BY <1>2 DEF First
  <2> QED  BY <1>2, <2>1, <2>2, <2>3, <2>4, <2>5
<1>4. /\ shown \subseteq VNext
      /\ \A i \in First(q, c) : i \in Waiting(q, c) /\ Keys(q[i]) \subseteq VNext
  BY DEF RowsFit, First
<1>5. \A i \in Waiting(s, c) : s[i].vc \in 1..nNext /\ Keys(s[i]) \subseteq VNext
  <2>1. \A i \in Waiting(q, c) : s[i].vc \in 1..nNext /\ Keys(s[i]) \subseteq VNext
    BY <1>2 DEF RowsFit
  <2>2. ASSUME NEW i \in Waiting(s, c), i - Len(q) \in Waiting(r, c), i = Len(q) + (i - Len(q))
        PROVE  s[i].vc \in 1..nNext /\ Keys(s[i]) \subseteq VNext
    <3>1. s[i] = r[i - Len(q)]
      BY <1>2, <2>2
    <3> QED  BY <2>2, <3>1
  <2> QED  BY <1>2, <2>1, <2>2
<1>6. \A i \in First(s, c) : shown \subseteq Keys(s[i])
  BY <1>3, <1>4 DEF RowsFit
<1>7. ASSUME NEW i \in First(s, c), NEW j \in First(s, c), j <= i
      PROVE  Keys(s[j]) \subseteq Keys(s[i])
  <2>1. CASE i \in First(q, c)
    <3>1. i <= Len(q) /\ i \in Nat /\ j \in Nat
      BY <1>2, <2>1 DEF First, Waiting
    <3>2. ~(j - Len(q) \in First(r, c))
      BY <1>2, <1>7, <3>1 DEF First, Waiting
    <3> QED  BY <1>3, <1>7, <2>1, <3>2 DEF RowsFit
  <2>2. CASE i - Len(q) \in First(r, c) /\ Keys(s[i]) = VNext
    BY <1>3, <1>4, <2>2
  <2> QED  BY <1>3, <2>1, <2>2
<1>8. ASSUME UpToDate(c, shown, q, VNext)
      PROVE  shown = VNext \/ \E j \in First(s, c) : j <= Len(q) /\ Keys(s[j]) = VNext
  <2>1. \A j \in First(q, c) : j <= Len(q)
    BY <1>2 DEF First
  <2> QED  BY <1>3, <1>8, <2>1 DEF UpToDate
<1>9. ASSUME NEW i \in Waiting(s, c)
      PROVE  \/ Keys(s[i]) \subseteq shown
             \/ \E j \in First(s, c) : j <= i /\ Keys(s[i]) \subseteq Keys(s[j])
  <2>1. CASE i \in Waiting(q, c)
    BY <1>2, <1>3, <2>1 DEF RowsFit
  <2>2. CASE i - Len(q) \in Waiting(r, c) /\ i = Len(q) + (i - Len(q))
    <3>1. Keys(s[i]) = VNext /\ i \in Nat /\ i > Len(q)
      BY <1>2, <2>2 DEF Waiting
    <3>2. CASE UpToDate(c, shown, q, VNext)
      <4>1. CASE shown = VNext
        BY <3>1, <4>1
      <4>2. ASSUME NEW j \in First(s, c), j <= Len(q), Keys(s[j]) = VNext
            PROVE  \E k \in First(s, c) : k <= i /\ Keys(s[i]) \subseteq Keys(s[k])
        <5>1. j <= i
          BY <1>2, <3>1, <4>2 DEF First, Waiting
        <5> QED  BY <3>1, <4>2, <5>1
      <4> QED  BY <1>8, <3>2, <4>1, <4>2
    <3>3. ASSUME NEW j \in First(r, c), j <= i - Len(q)
          PROVE  \E k \in First(s, c) : k <= i /\ Keys(s[i]) \subseteq Keys(s[k])
      <4>1. Len(q) + j \in First(s, c) /\ Len(q) + j <= i
        BY <1>2, <1>3, <3>1, <3>3 DEF First, Waiting
      <4>2. Keys(s[Len(q) + j]) = VNext
        BY <1>3, <3>3 DEF First
      <4> QED  BY <3>1, <4>1, <4>2
    <3> QED  BY <2>2, <3>2, <3>3
  <2> QED  BY <1>2, <2>1, <2>2
<1>10. ASSUME nNext > 0 PROVE UpToDate(c, shown, s, VNext)
  <2>1. CASE UpToDate(c, shown, q, VNext)
    BY <1>8, <2>1 DEF UpToDate
  <2>2. ASSUME NEW j \in First(r, c) PROVE UpToDate(c, shown, s, VNext)
    <3>1. Len(q) + j \in First(s, c) /\ Keys(s[Len(q) + j]) = VNext
      BY <1>3 DEF First
    <3> QED  BY <3>1 DEF UpToDate
  <2> QED  BY <1>10, <2>1, <2>2
<1> QED  BY <1>1, <1>4, <1>5, <1>6, <1>7, <1>9, <1>10 DEF RowsFit

\* The first callback runs: one of a later controller brings nothing new.
LEMMA LaterBringsNothing ==
  ASSUME NEW c, NEW n, NEW shown, NEW q \in Seq(Callback), Len(q) > 0, NEW V,
         RowsFit(c, n, shown, q, V), q[1].chat = c, q[1].vc # 1
  PROVE  Keys(q[1]) \subseteq shown
<1>1. 1 \in Waiting(q, c) /\ 1 \notin First(q, c)
  BY DEF Waiting, First
<1>2. \A j \in First(q, c) : ~(j <= 1)
  BY <1>1 DEF First, Waiting
<1> QED  BY <1>1, <1>2 DEF RowsFit

LEMMA RowsDequeued ==
  ASSUME NEW c, NEW n \in Nat, NEW shown, NEW q \in Seq(Callback), Len(q) > 0, NEW V,
         RowsFit(c, n, shown, q, V),
         NEW shownNext,
         shownNext = IF q[1].chat = c THEN shown \cup Keys(q[1]) ELSE shown
  PROVE  RowsFit(c, n, shownNext, Tail(q), V)
<1>1. PICK s : s = Tail(q)
  OBVIOUS
<1>2. /\ Len(s) = Len(q) - 1 /\ Len(q) \in Nat
      /\ \A i \in 1..Len(s) : s[i] = q[i + 1]
  BY <1>1
<1>3. /\ \A i \in Waiting(s, c) : i \in Nat /\ i + 1 \in Waiting(q, c) /\ s[i] = q[i + 1]
      /\ \A i \in Waiting(q, c) : i \in Nat /\ i >= 1
                                  /\ (i # 1 => i - 1 \in Waiting(s, c) /\ s[i - 1] = q[i])
  <2>1. \A i \in 1..Len(q) : i # 1 => i - 1 \in 1..Len(s) /\ (i - 1) + 1 = i
    BY <1>2
  <2>2. \A i \in 1..Len(s) : i + 1 \in 1..Len(q)
    BY <1>2
  <2> QED  BY <1>2, <2>1, <2>2 DEF Waiting
<1>4. /\ \A i \in First(s, c) : i \in Nat /\ i + 1 \in First(q, c) /\ s[i] = q[i + 1]
      /\ \A i \in First(q, c) : i \in Nat /\ i >= 1
                                /\ (i # 1 => i - 1 \in First(s, c) /\ s[i - 1] = q[i])
  BY <1>3 DEF First
<1>5. q[1].chat = c => 1 \in Waiting(q, c)
  BY <1>2 DEF Waiting
<1>6. ASSUME q[1].chat = c, q[1].vc # 1 PROVE Keys(q[1]) \subseteq shown
  BY <1>6, LaterBringsNothing
<1>7. 1 \in First(q, c) => shownNext = Keys(q[1])
  BY DEF RowsFit, First, Waiting
<1>8. 1 \notin First(q, c) => shownNext = shown
  <2>1. CASE q[1].chat # c
    BY <2>1
  <2>2. CASE q[1].chat = c /\ 1 \notin First(q, c)
    <3>1. q[1].vc # 1
      BY <1>5, <2>2 DEF First
    <3> QED  BY <1>6, <2>2, <3>1
  <2> QED  BY <2>1, <2>2
<1>9. shownNext \subseteq V /\ shown \subseteq shownNext
  BY <1>5 DEF RowsFit
<1>10. \A i \in Waiting(s, c) : s[i].vc \in 1..n /\ Keys(s[i]) \subseteq V
  BY <1>3 DEF RowsFit
<1>11. ASSUME NEW i \in First(s, c) PROVE shownNext \subseteq Keys(s[i])
  <2>1. i + 1 \in First(q, c) /\ s[i] = q[i + 1] /\ 1 <= i + 1
    BY <1>4
  <2>2. CASE 1 \in First(q, c)
    BY <1>7, <2>1, <2>2 DEF RowsFit
  <2>3. CASE 1 \notin First(q, c)
    BY <1>8, <2>1, <2>3 DEF RowsFit
  <2> QED  BY <2>2, <2>3
<1>12. ASSUME NEW i \in First(s, c), NEW j \in First(s, c), j <= i
       PROVE  Keys(s[j]) \subseteq Keys(s[i])
  <2>1. j + 1 <= i + 1
    BY <1>4, <1>12
  <2> QED  BY <1>4, <2>1 DEF RowsFit
<1>13. ASSUME NEW i \in Waiting(s, c)
       PROVE  \/ Keys(s[i]) \subseteq shownNext
              \/ \E j \in First(s, c) : j <= i /\ Keys(s[i]) \subseteq Keys(s[j])
  <2>1. i \in Nat /\ i + 1 \in Waiting(q, c) /\ s[i] = q[i + 1]
    BY <1>3
  <2>2. CASE Keys(q[i + 1]) \subseteq shown
    BY <1>9, <2>1, <2>2
  <2>3. ASSUME NEW j \in First(q, c), j <= i + 1, Keys(q[i + 1]) \subseteq Keys(q[j])
        PROVE  \/ Keys(s[i]) \subseteq shownNext
               \/ \E k \in First(s, c) : k <= i /\ Keys(s[i]) \subseteq Keys(s[k])
    <3>1. CASE j = 1
      BY <1>7, <2>1, <2>3, <3>1
    <3>2. CASE j # 1
      <4>1. j - 1 \in First(s, c) /\ s[j - 1] = q[j] /\ j - 1 <= i
        BY <1>4, <2>1, <2>3, <3>2
      <4> QED  BY <2>1, <2>3, <4>1
    <3> QED  BY <3>1, <3>2
  <2> QED  BY <2>1, <2>2, <2>3 DEF RowsFit
<1>14. ASSUME n > 0 PROVE UpToDate(c, shownNext, s, V)
  <2>1. CASE shown = V
    BY <1>9, <2>1 DEF UpToDate
  <2>2. ASSUME NEW i \in First(q, c), Keys(q[i]) = V PROVE UpToDate(c, shownNext, s, V)
    <3>1. CASE i = 1
      BY <1>7, <2>2, <3>1 DEF UpToDate
    <3>2. CASE i # 1
      BY <1>4, <2>2, <3>2 DEF UpToDate
    <3> QED  BY <3>1, <3>2
  <2> QED  BY <1>14, <2>1, <2>2 DEF RowsFit, UpToDate
<1>15. RowsFit(c, n, shownNext, s, V)
  BY <1>9, <1>10, <1>11, <1>12, <1>13, <1>14 DEF RowsFit
<1> QED  BY <1>1, <1>15
-----------------------------------------------------------------------------
(***************************************************************************)
(* The arrays: the rows are the first controller's, the others' are empty. *)
(***************************************************************************)
ArraysFit(ls, cache) ==
  /\ \A i \in 1..Len(ls) : i > 1 => ls[i] = << >>
  /\ cache = IF ls = << >> THEN << >> ELSE ls[1]

\* The rows one callback appends are all the new ones, in order of their keys.
NewRows(cache, S, cacheNext) ==
  \E rows \in Seq(Msg) :
    /\ cacheNext = cache \o rows
    /\ ToSet(rows) = {m \in S : m.key \notin KeysOf(ToSet(cache))}
    /\ \A i, j \in 1..Len(rows) : i < j => rows[i].key < rows[j].key

LEMMA NoFresh ==
  ASSUME NEW S, NEW shown, NEW keys, KeysOf(S) \subseteq shown
  PROVE  Fresh(S, shown, keys) = {}
  BY DEF Fresh, KeysOf

LEMMA AllFresh ==
  ASSUME NEW S \in SUBSET Msg, NEW shown
  PROVE  Fresh(S, shown, shown) = {m \in S : m.key \notin shown}
<1>1. \A m \in S : m.key <= m.key
  BY DEF Msg, Time
<1> QED  BY <1>1 DEF Fresh

LEMMA InOrderOf ==
  ASSUME NEW S \in SUBSET Msg, NEW rows \in Ascending(S)
  PROVE  /\ rows \in Seq(Msg) /\ ToSet(rows) = S
         /\ \A i, j \in 1..Len(rows) : i < j => rows[i].key < rows[j].key
<1>1. rows \in SeqOf(S, MaxTime)
  BY DEF Ascending
<1>2. PICK n \in 0..MaxTime : rows \in [1..n -> S]
  BY <1>1 DEF SeqOf
<1>3. rows \in Seq(Msg) /\ DOMAIN rows = 1..Len(rows)
  BY <1>2, ChatAssumption
<1> QED  BY <1>3 DEF Ascending

LEMMA RowsTogether ==
  ASSUME NEW s \in Seq(Msg), NEW t \in Seq(Msg)
  PROVE  ToSet(s \o t) = ToSet(s) \cup ToSet(t)
<1>1. PICK r : r = s \o t
  OBVIOUS
<1>2. /\ DOMAIN r = 1..(Len(s) + Len(t)) /\ DOMAIN s = 1..Len(s) /\ DOMAIN t = 1..Len(t)
      /\ Len(s) \in Nat /\ Len(t) \in Nat
      /\ \A i \in 1..Len(s) : r[i] = s[i]
      /\ \A i \in 1..Len(t) : r[Len(s) + i] = t[i]
  BY <1>1
<1>3. ASSUME NEW x \in ToSet(r) PROVE x \in ToSet(s) \cup ToSet(t)
  <2>1. PICK i \in 1..(Len(s) + Len(t)) : x = r[i]
    BY <1>2 DEF ToSet
  <2>2. CASE i \in 1..Len(s)
    BY <1>2, <2>1, <2>2 DEF ToSet
  <2>3. CASE i \notin 1..Len(s)
    <3>1. i - Len(s) \in 1..Len(t) /\ Len(s) + (i - Len(s)) = i
      BY <1>2, <2>3
    <3> QED  BY <1>2, <2>1, <3>1 DEF ToSet
  <2> QED  BY <2>2, <2>3
<1>4. ASSUME NEW x \in ToSet(s) PROVE x \in ToSet(r)
  <2>1. PICK i \in 1..Len(s) : x = s[i]
    BY <1>2 DEF ToSet
  <2>2. i \in 1..(Len(s) + Len(t))
    BY <1>2
  <2> QED  BY <1>2, <2>1, <2>2 DEF ToSet
<1>5. ASSUME NEW x \in ToSet(t) PROVE x \in ToSet(r)
  <2>1. PICK i \in 1..Len(t) : x = t[i]
    BY <1>2 DEF ToSet
  <2>2. Len(s) + i \in 1..(Len(s) + Len(t))
    BY <1>2
  <2> QED  BY <1>2, <2>1, <2>2 DEF ToSet
<1> QED  BY <1>1, <1>3, <1>4, <1>5

LEMMA KeysTogether ==
  ASSUME NEW S, NEW T
  PROVE  KeysOf(S \cup T) = KeysOf(S) \cup KeysOf(T)
  BY DEF KeysOf

\* A closure appends what is new, and the arrays stay as they should be.
Extended(ls, cache, S, lsNext, cacheNext) ==
  /\ ArraysFit(lsNext, cacheNext) /\ Len(lsNext) = Len(ls)
  /\ KeysOf(ToSet(cacheNext)) = KeysOf(ToSet(cache)) \cup KeysOf(S)
  /\ NewRows(cache, S, cacheNext)

LEMMA Appended ==
  ASSUME NEW ls \in Seq(Seq(Msg)), NEW cache \in Seq(Msg), ArraysFit(ls, cache),
         NEW vc \in 1..Len(ls), NEW S \in SUBSET Msg,
         NEW shown, shown = KeysOf(ToSet(cache)),
         vc = 1 \/ KeysOf(S) \subseteq shown,
         NEW lsNext, NEW cacheNext, Appends(ls, vc, shown, S, lsNext, cache, cacheNext)
  PROVE  Extended(ls, cache, S, lsNext, cacheNext)
<1>1. PICK fresh : fresh = Fresh(S, shown, KeysOf(ToSet(ls[vc])))
  OBVIOUS
<1>2. \/ fresh = {} /\ lsNext = ls /\ cacheNext = cache
      \/ /\ fresh # {}
         /\ \E rows \in Ascending(fresh) : /\ lsNext = [ls EXCEPT ![vc] = ls[vc] \o rows]
                                           /\ cacheNext = ls[vc] \o rows
  BY <1>1 DEF Appends
<1>3. Len(ls) \in Nat /\ ls # << >> /\ cache = ls[1]
  BY DEF ArraysFit
<1>4. fresh = {m \in S : m.key \notin shown}
  <2>1. CASE vc = 1
    BY <1>1, <1>3, <2>1, AllFresh
  <2>2. CASE KeysOf(S) \subseteq shown
    <3>1. fresh = {}
      BY <1>1, <2>2, NoFresh
    <3> QED  BY <2>2, <3>1 DEF KeysOf
  <2> QED  BY <2>1, <2>2
<1>5. CASE fresh = {} /\ lsNext = ls /\ cacheNext = cache
  <2>1. KeysOf(S) \subseteq shown
    BY <1>4, <1>5 DEF KeysOf
  <2>2. NewRows(cache, S, cacheNext)
    <3>1. << >> \in Seq(Msg) /\ cache = cache \o << >> /\ Len(<< >>) = 0
      OBVIOUS
    <3>2. ToSet(<< >>) = {}
      BY DEF ToSet
    <3>3. PICK rows \in Seq(Msg) : rows = << >> /\ cache = cache \o rows /\ Len(rows) = 0
      BY <3>1
    <3>4. \A i, j \in 1..Len(rows) : i < j => rows[i].key < rows[j].key
      BY <3>3
    <3>5. cacheNext = cache \o rows /\ ToSet(rows) = {m \in S : m.key \notin KeysOf(ToSet(cache))}
      BY <1>4, <1>5, <3>2, <3>3
    <3> HIDE <3>3
    <3> QED  BY <3>4, <3>5 DEF NewRows
  <2> QED  BY <1>5, <2>1, <2>2 DEF Extended
<1>6. ASSUME fresh # {}, NEW rows \in Ascending(fresh), lsNext = [ls EXCEPT ![vc] = ls[vc] \o rows],
             cacheNext = ls[vc] \o rows
      PROVE  Extended(ls, cache, S, lsNext, cacheNext)
  <2>1. /\ rows \in Seq(Msg) /\ ToSet(rows) = fresh
        /\ \A i, j \in 1..Len(rows) : i < j => rows[i].key < rows[j].key
    <3>1. fresh \in SUBSET Msg
      BY <1>4
    <3> QED  BY <1>6, <3>1, InOrderOf
  <2>2. CASE vc = 1
    <3>1. cacheNext = cache \o rows /\ cacheNext \in Seq(Msg)
      BY <1>3, <1>6, <2>1, <2>2
    <3>2. lsNext \in Seq(Seq(Msg)) /\ Len(lsNext) = Len(ls) /\ lsNext[1] = cacheNext
          /\ \A i \in 1..Len(ls) : i > 1 => lsNext[i] = ls[i]
      <4>1. lsNext = [ls EXCEPT ![1] = cacheNext] /\ 1 \in 1..Len(ls)
        BY <1>6, <2>2
      <4> QED  BY <3>1, <4>1
    <3>3. ArraysFit(lsNext, cacheNext)
      <4>1. lsNext # << >>
        BY <1>3, <3>2
      <4> QED  BY <3>2, <4>1 DEF ArraysFit
    <3>4. KeysOf(ToSet(cacheNext)) = shown \cup KeysOf(fresh)
      BY <2>1, <3>1, RowsTogether, KeysTogether
    <3>5. shown \cup KeysOf(fresh) = shown \cup KeysOf(S)
      BY <1>4 DEF KeysOf
    <3>6. NewRows(cache, S, cacheNext)
      BY <1>4, <2>1, <3>1 DEF NewRows
    <3> QED  BY <3>2, <3>3, <3>4, <3>5, <3>6 DEF Extended
  <2>3. CASE vc # 1
    <3>1. fresh = {}
      BY <1>1, <2>3, NoFresh
    <3> QED  BY <1>6, <3>1
  <2> QED  BY <2>2, <2>3
<1> QED  BY <1>2, <1>5, <1>6
-----------------------------------------------------------------------------
(***************************************************************************)
(* The rows of every chat, over every step.                                *)
(***************************************************************************)
RowsOK(u, c) ==
  /\ ArraysFit(listeners[u][c], cacheMessage[u][c])
  /\ RowsFit(c, Len(listeners[u][c]), Shown(u, c), mainQueue[u], KeysOf(View(u, Conversation(u, c))))

LEMMA NextRowsOK ==
  ASSUME NEW u \in User, NEW c \in User, NEW n, n = Len(listeners'[u][c]),
         NEW shown, shown = KeysOf(ToSet(cacheMessage'[u][c])),
         NEW V, V = KeysOf(ViewNext(u, Conversation(u, c))),
         ArraysFit(listeners'[u][c], cacheMessage'[u][c]),
         RowsFit(c, n, shown, mainQueue'[u], V)
  PROVE  RowsOK(u, c)'
<1>1. View(u, Conversation(u, c))' = ViewNext(u, Conversation(u, c))
  BY NextView
<1>2. Shown(u, c)' = shown
  BY DEF Shown, KeysOf, ToSet
<1>3. KeysOf(View(u, Conversation(u, c)))' = V
  BY <1>1 DEF KeysOf
<1> QED  BY <1>2, <1>3 DEF RowsOK, ArraysFit, RowsFit, First, UpToDate, Waiting, Keys, KeysOf

\* No view of this chat moves, and what is added to the queue is of others.
LEMMA OthersAdded ==
  ASSUME NEW c, NEW n \in Nat, NEW shown, NEW q \in Seq(Callback), NEW r \in Seq(Callback), NEW V,
         RowsFit(c, n, shown, q, V), \A i \in 1..Len(r) : r[i].chat # c
  PROVE  RowsFit(c, n, shown, q \o r, V)
<1>1. Waiting(r, c) = {}
  BY DEF Waiting
<1>2. n > 0 => UpToDate(c, shown, q, V)
  BY DEF RowsFit
<1>3. \A i \in Waiting(r, c) :
        /\ r[i].vc \in 1..n /\ Keys(r[i]) = V
        /\ UpToDate(c, shown, q, V) \/ \E j \in First(r, c) : j <= i
  BY <1>1
<1>4. n <= n /\ V \subseteq V
  OBVIOUS
<1> QED  BY <1>2, <1>3, <1>4, RowsEnqueued

LEMMA RowsTold ==
  ASSUME TypeOK, TypeOK', NEW u \in User, NEW c \in User \ {u}, NEW p \in ChatPath,
         NEW n, n = Len(listeners[u][c]), NEW shown, NEW q \in Seq(Callback),
         NEW own \in ChatPath, own = Conversation(u, c),
         NEW V, V = KeysOf(View(u, own)), NEW VNext, VNext = KeysOf(ViewNext(u, own)),
         p = own \/ ViewNext(u, own) = View(u, own), V \subseteq VNext,
         RowsFit(c, n, shown, q, V)
  PROVE  RowsFit(c, n, shown, q \o ViewCallbacks(u, p), VNext)
<1>1. PICK r \in Seq(Callback) :
        /\ r = ViewCallbacks(u, p)
        /\ \/ ViewNext(u, p) = View(u, p) /\ r = << >>
           \/ /\ ViewNext(u, p) # View(u, p)
              /\ ListenerCount(u, p) \in Nat /\ Len(r) = ListenerCount(u, p)
              /\ \A i \in 1..Len(r) : /\ r[i].chat = p.peer /\ r[i].vc = i
                                      /\ r[i].snap = ViewNext(u, p)
  BY HeardOf
<1>2. n \in Nat
  BY ControllersType DEF TypeOK
<1>3. own.owner = u /\ own.peer = c /\ own # Buffer(u)
  BY ConversationParts, Paths
<1>4. CASE p = own /\ ViewNext(u, p) # View(u, p)
  <2>1. Len(r) = n
    BY <1>1, <1>3, <1>4 DEF ListenerCount
  <2>2. \A i \in 1..Len(r) : r[i].chat = c /\ r[i].vc = i /\ Keys(r[i]) = VNext
    BY <1>1, <1>3, <1>4 DEF Keys
  <2>3. Waiting(r, c) = 1..n
    BY <2>1, <2>2 DEF Waiting
  <2>4. n > 0 => 1 \in First(r, c)
    BY <1>2, <2>1, <2>2, <2>3 DEF First
  <2>5. ASSUME NEW i \in Waiting(r, c)
        PROVE  /\ r[i].vc \in 1..n /\ Keys(r[i]) = VNext
               /\ \E j \in First(r, c) : j <= i
    <3>1. i \in 1..n /\ n > 0 /\ 1 <= i
      BY <1>2, <2>3
    <3> QED  BY <2>1, <2>2, <2>4, <3>1
  <2>6. RowsFit(c, n, shown, q \o r, VNext)
    <3>1. \A i \in Waiting(r, c) :
            /\ r[i].vc \in 1..n /\ Keys(r[i]) = VNext
            /\ UpToDate(c, shown, q, VNext) \/ \E j \in First(r, c) : j <= i
      BY <2>5
    <3>2. n > 0 => UpToDate(c, shown, q, VNext) \/ First(r, c) # {}
      BY <2>4
    <3>3. n <= n
      BY <1>2
    <3> QED  BY <1>2, <3>1, <3>2, <3>3, RowsEnqueued
  <2> QED  BY <1>1, <2>6
<1>5. CASE ~(p = own /\ ViewNext(u, p) # View(u, p))
  <2>1. VNext = V
    BY <1>5
  <2>2. ASSUME NEW i \in 1..Len(r), r[i].chat = c PROVE FALSE
    <3>1. ViewNext(u, p) # View(u, p) /\ Len(r) = ListenerCount(u, p) /\ p.peer = c
      BY <1>1, <2>2
    <3>2. p # own
      BY <1>5, <3>1
    <3>3. CASE p.owner = u
      <4>1. p = Conversation(u, c)
        BY <3>1, <3>3, Paths
      <4> QED  BY <3>2, <4>1
    <3>4. CASE p.owner # u
      <4>1. p # Buffer(u)
        BY <3>4 DEF Buffer
      <4>2. Len(r) = 0
        BY <3>1, <3>4, <4>1 DEF ListenerCount
      <4> QED  BY <2>2, <4>2
    <3> QED  BY <3>3, <3>4
  <2> QED  BY <1>1, <1>2, <2>1, <2>2, OthersAdded
<1> QED  BY <1>4, <1>5

\* The views of a chat, before and after a step.
LEMMA ChatViews ==
  ASSUME TypeOK, TypeOK', KeysInv, [Next]_vars, NEW u \in User, ~Relaunch(u), NEW c \in User \ {u}
  PROVE  \E own \in ChatPath :
           /\ own = Conversation(u, c) /\ own.owner = u
           /\ KeysOf(View(u, own)) \subseteq KeysOf(ViewNext(u, own))
<1>1. PICK own \in Chats : own = Conversation(u, c)
  BY ChatsParts
<1>2. own \in ChatPath /\ own.owner = u
  BY <1>1, ChatsParts, ConversationParts
<1>3. KeysOf(View(u, own)) \subseteq KeysOf(ViewNext(u, own))
  BY TranscriptsGrow
<1> QED  BY <1>1, <1>2, <1>3

LEMMA QuietRows ==
  ASSUME TypeOK, NEW u \in User, NEW c \in User \ {u}, RowsOK(u, c), Quiet(u)
  PROVE  RowsOK(u, c)'
<1>1. Conversation(u, c) \in ChatPath /\ Conversation(u, c).owner = u
  BY Paths, ConversationParts
<1>2. KeysOf(View(u, Conversation(u, c))) = KeysOf(ViewNext(u, Conversation(u, c)))
  BY <1>1 DEF Quiet
<1>3. /\ listeners'[u] = listeners[u] /\ cacheMessage'[u] = cacheMessage[u]
      /\ mainQueue'[u] = mainQueue[u]
  BY DEF Quiet, ScreensStay
<1>4. KeysOf(ToSet(cacheMessage'[u][c])) = Shown(u, c)
  BY <1>3 DEF Shown
<1>5. /\ ArraysFit(listeners'[u][c], cacheMessage'[u][c])
      /\ RowsFit(c, Len(listeners'[u][c]), KeysOf(ToSet(cacheMessage'[u][c])), mainQueue'[u],
                 KeysOf(ViewNext(u, Conversation(u, c))))
  BY <1>2, <1>3, <1>4 DEF RowsOK
<1> QED  BY <1>5, NextRowsOK

LEMMA ToldRows ==
  ASSUME TypeOK, TypeOK', KeysInv, [Next]_vars, NEW u \in User, ~Relaunch(u), NEW c \in User \ {u},
         RowsOK(u, c), NEW p \in ChatPath, Told(u, p)
  PROVE  RowsOK(u, c)'
<1>1. PICK own \in ChatPath : /\ own = Conversation(u, c) /\ own.owner = u
                              /\ KeysOf(View(u, own)) \subseteq KeysOf(ViewNext(u, own))
  BY ChatViews
<1>2. p = own \/ ViewNext(u, own) = View(u, own)
  BY <1>1 DEF Told, OthersStay
<1>3. /\ listeners'[u] = listeners[u] /\ cacheMessage'[u] = cacheMessage[u]
      /\ mainQueue'[u] = mainQueue[u] \o ViewCallbacks(u, p)
  BY DEF Told, ScreensStay
<1>4. PICK q \in Seq(Callback) : q = mainQueue[u]
  BY DEF TypeOK
<1>5. PICK shown : shown = Shown(u, c)
  OBVIOUS
<1>6. PICK n : n = Len(listeners[u][c])
  OBVIOUS
<1>7. RowsFit(c, n, shown, q, KeysOf(View(u, own))) /\ ArraysFit(listeners[u][c], cacheMessage[u][c])
  BY <1>1, <1>4, <1>5, <1>6 DEF RowsOK
<1>8. RowsFit(c, n, shown, q \o ViewCallbacks(u, p), KeysOf(ViewNext(u, own)))
  BY <1>1, <1>2, <1>6, <1>7, RowsTold
<1>9. KeysOf(ToSet(cacheMessage'[u][c])) = shown
  BY <1>3, <1>5 DEF Shown
<1>10. /\ ArraysFit(listeners'[u][c], cacheMessage'[u][c])
       /\ RowsFit(c, Len(listeners'[u][c]), KeysOf(ToSet(cacheMessage'[u][c])), mainQueue'[u],
                  KeysOf(ViewNext(u, Conversation(u, c))))
  BY <1>1, <1>3, <1>4, <1>6, <1>7, <1>8, <1>9
<1> QED  BY <1>10, NextRowsOK

\* A new controller is told the conversation it finds, if there is one.
LEMMA ControllerAdded ==
  ASSUME NEW c, NEW n \in Nat, NEW shown, NEW q \in Seq(Callback), NEW V,
         RowsFit(c, n, shown, q, V),
         NEW o \in Seq(Callback),
         \/ o = << >> /\ V = {}
         \/ Len(o) = 1 /\ o[1].chat = c /\ o[1].vc = n + 1 /\ Keys(o[1]) = V
  PROVE  RowsFit(c, n + 1, shown, q \o o, V)
<1>1. n > 0 => UpToDate(c, shown, q, V)
  BY DEF RowsFit
<1>2. CASE o = << >> /\ V = {}
  <2>1. Waiting(o, c) = {}
    BY <1>2 DEF Waiting
  <2>2. UpToDate(c, shown, q, V)
    BY <1>2 DEF RowsFit, UpToDate
  <2>3. \A i \in Waiting(o, c) :
          /\ o[i].vc \in 1..(n + 1) /\ Keys(o[i]) = V
          /\ UpToDate(c, shown, q, V) \/ \E j \in First(o, c) : j <= i
    BY <2>1
  <2>4. n <= n + 1 /\ V \subseteq V /\ n + 1 \in Nat
    OBVIOUS
  <2> QED  BY <2>2, <2>3, <2>4, RowsEnqueued
<1>3. CASE Len(o) = 1 /\ o[1].chat = c /\ o[1].vc = n + 1 /\ Keys(o[1]) = V
  <2>1. Waiting(o, c) = {1}
    BY <1>3 DEF Waiting
  <2>2. n = 0 => 1 \in First(o, c)
    BY <1>3, <2>1 DEF First
  <2>3. UpToDate(c, shown, q, V) \/ 1 \in First(o, c)
    BY <1>1, <2>2
  <2>4. \A i \in Waiting(o, c) :
          /\ o[i].vc \in 1..(n + 1) /\ Keys(o[i]) = V
          /\ UpToDate(c, shown, q, V) \/ \E j \in First(o, c) : j <= i
    BY <1>3, <2>1, <2>3
  <2>5. n <= n + 1 /\ V \subseteq V /\ n + 1 \in Nat
    OBVIOUS
  <2>6. n + 1 > 0 => UpToDate(c, shown, q, V) \/ First(o, c) # {}
    BY <2>3
  <2> QED  BY <2>4, <2>5, <2>6, RowsEnqueued
<1> QED  BY <1>2, <1>3

LEMMA ArrayAdded ==
  ASSUME NEW ls \in Seq(Seq(Msg)), NEW cache, ArraysFit(ls, cache)
  PROVE  ArraysFit(Append(ls, << >>), cache) /\ Len(Append(ls, << >>)) = Len(ls) + 1
<1>1. PICK lsNext : lsNext = Append(ls, << >>)
  OBVIOUS
<1>2. << >> \in Seq(Msg)
  OBVIOUS
<1>3. /\ Len(lsNext) = Len(ls) + 1 /\ lsNext # << >> /\ Len(ls) \in Nat
      /\ lsNext[Len(ls) + 1] = << >>
      /\ \A i \in 1..Len(ls) : lsNext[i] = ls[i]
  BY <1>1, <1>2
<1>4. ASSUME NEW i \in 1..Len(lsNext), i > 1 PROVE lsNext[i] = << >>
  BY <1>3, <1>4 DEF ArraysFit
<1>5. cache = lsNext[1]
  <2>1. CASE ls = << >>
    BY <1>3, <2>1 DEF ArraysFit
  <2>2. CASE ls # << >>
    BY <1>3, <2>2 DEF ArraysFit
  <2> QED  BY <2>1, <2>2
<1> QED  BY <1>1, <1>3, <1>4, <1>5 DEF ArraysFit

LEMMA OpenChatRows ==
  ASSUME TypeOK, TypeOK', KeysInv, [Next]_vars, NEW u \in User, NEW c \in User \ {u},
         RowsOK(u, c), NEW d \in User, OpenChat(u, d)
  PROVE  RowsOK(u, c)'
<1>1. PICK own \in ChatPath : own = Conversation(u, c) /\ own.owner = u /\ own # Buffer(u)
  BY Paths, ConversationParts
<1>2. ViewNext(u, own) = View(u, own)
  <2>1. PICK ms \in Seq(Mutation) : ms = CleanBuffer(u, d)
    BY CleanBufferType DEF TypeOK
  <2>2. ASSUME NEW i \in 1..Len(ms) PROVE ms[i].path # own
    <3>1. ms[i].path = Buffer(u)
      BY <2>1 DEF CleanBuffer
    <3> QED  BY <1>1, <3>1
  <2> QED  BY <2>1, <2>2, TypeParts, WriteMoves DEF OpenChat
<1>3. PICK V : V = KeysOf(View(u, own))
  OBVIOUS
<1>4. PICK q \in Seq(Callback) : q = mainQueue[u]
  BY DEF TypeOK
<1>5. PICK shown : shown = Shown(u, c)
  OBVIOUS
<1>6. PICK ls \in Seq(Seq(Msg)) : ls = listeners[u][c]
  BY ControllersType DEF TypeOK
<1>7. PICK n \in Nat : n = Len(ls)
  OBVIOUS
<1>8. RowsFit(c, n, shown, q, V) /\ ArraysFit(ls, cacheMessage[u][c])
  BY <1>1, <1>3, <1>4, <1>5, <1>6, <1>7 DEF RowsOK
<1>9. PICK b \in ChatPath : b = Buffer(u)
  BY Paths
<1>10. PICK r \in Seq(Callback) : r = ViewCallbacks(u, b)
  BY HeardOf
<1>11. RowsFit(c, n, shown, q \o r, V)
  BY <1>1, <1>2, <1>3, <1>6, <1>7, <1>8, <1>10, RowsTold
<1>12. PICK e : e = [chat |-> d, vc |-> Len(listeners[u][d]) + 1, snap |-> View(u, Conversation(u, d))]
  OBVIOUS
<1>13. PICK o : o = IF View(u, Conversation(u, d)) = {} THEN << >> ELSE <<e>>
  OBVIOUS
<1>14. d # u /\ mainQueue'[u] = q \o (r \o o)
  <2>1. Enqueue(u, r \o o)
    BY <1>9, <1>10, <1>12, <1>13 DEF OpenChat
  <2> QED  BY <1>4, <2>1, Enqueued DEF OpenChat
<1>15. e \in Callback /\ e.chat = d /\ e.vc = Len(listeners[u][d]) + 1
       /\ e.snap = View(u, Conversation(u, d))
  <2>1. Len(listeners[u][d]) + 1 \in Nat
    BY ControllersType DEF TypeOK
  <2>2. View(u, Conversation(u, d)) \in Document
    <3>1. Conversation(u, d) \in ChatPath
      BY <1>14, Paths
    <3> QED  BY <3>1, ViewType, TypeParts DEF FsTypeOK, View
  <2> QED  BY <1>12, <2>1, <2>2 DEF Callback
<1>16. PICK one \in Seq(Callback) : one = <<e>> /\ Len(one) = 1 /\ one[1] = e
  BY <1>15, OneCallback
<1>17. o \in Seq(Callback) /\ (o = << >> \/ o = one)
  <2>1. << >> \in Seq(Callback)
    OBVIOUS
  <2> QED  BY <1>13, <1>16, <2>1
<1>18. (q \o r) \in Seq(Callback) /\ q \o (r \o o) = (q \o r) \o o
  BY <1>17
<1>19. PICK qr \in Seq(Callback) : qr = q \o r
  BY <1>18
<1>20. listeners'[u][c] = (IF c = d THEN Append(ls, << >>) ELSE ls) /\ cacheMessage' = cacheMessage
  <2>1. listeners' = [listeners EXCEPT ![u][d] = Append(@, << >>)] /\ cacheMessage' = cacheMessage
    BY DEF OpenChat
  <2>2. PICK v : v = Append(listeners[u][d], << >>)
    OBVIOUS
  <2>3. v \in Seq(Seq(Msg))
    <3>1. listeners[u][d] \in Seq(Seq(Msg)) /\ << >> \in Seq(Msg)
      BY ControllersType DEF TypeOK
    <3> QED  BY <2>2, <3>1
  <2>4. PICK f : f \in [User -> [User -> Seq(Seq(Msg))]] /\ f = listeners
    BY DEF TypeOK
  <2>5. PICK g : g = [f EXCEPT ![u][d] = v]
    OBVIOUS
  <2>6. g = listeners'
    BY <2>1, <2>2, <2>4, <2>5
  <2>7. g[u][c] = IF c = d THEN v ELSE f[u][c]
    BY <2>3, <2>4, <2>5, ControllersExcept
  <2> QED  BY <1>6, <2>1, <2>2, <2>4, <2>6, <2>7
<1>21. CASE c # d
  <2>1. \A i \in 1..Len(o) : o[i].chat # c
    BY <1>15, <1>16, <1>17, <1>21
  <2>2. RowsFit(c, n, shown, qr \o o, V)
    BY <1>11, <1>17, <1>19, <2>1, OthersAdded
  <2>3. RowsFit(c, n, shown, mainQueue'[u], V)
    BY <1>14, <1>18, <1>19, <2>2
  <2>4. /\ n = Len(listeners'[u][c]) /\ shown = KeysOf(ToSet(cacheMessage'[u][c]))
        /\ V = KeysOf(ViewNext(u, Conversation(u, c)))
        /\ ArraysFit(listeners'[u][c], cacheMessage'[u][c])
    BY <1>1, <1>2, <1>3, <1>5, <1>7, <1>8, <1>20, <1>21 DEF Shown
  <2> QED  BY <2>3, <2>4, NextRowsOK
<1>22. CASE c = d
  <2>1. \/ o = << >> /\ V = {}
        \/ Len(o) = 1 /\ o[1].chat = c /\ o[1].vc = n + 1 /\ Keys(o[1]) = V
    <3>1. CASE View(u, own) = {}
      <4>1. o = << >>
        BY <1>1, <1>13, <1>22, <3>1
      <4> QED  BY <1>3, <3>1, <4>1 DEF KeysOf
    <3>2. CASE View(u, own) # {}
      <4>1. o = one
        BY <1>1, <1>13, <1>16, <1>22, <3>2
      <4> QED  BY <1>1, <1>3, <1>6, <1>7, <1>15, <1>16, <1>22, <4>1 DEF Keys
    <3> QED  BY <3>1, <3>2
  <2>2. RowsFit(c, n + 1, shown, qr \o o, V)
    BY <1>11, <1>17, <1>19, <2>1, ControllerAdded
  <2>3. RowsFit(c, n + 1, shown, mainQueue'[u], V)
    BY <1>14, <1>18, <1>19, <2>2
  <2>4. ArraysFit(Append(ls, << >>), cacheMessage[u][c]) /\ Len(Append(ls, << >>)) = n + 1
    <3>1. PICK cache : cache = cacheMessage[u][c]
      OBVIOUS
    <3> QED  BY <1>7, <1>8, <3>1, ArrayAdded
  <2>5. /\ n + 1 = Len(listeners'[u][c]) /\ shown = KeysOf(ToSet(cacheMessage'[u][c]))
        /\ V = KeysOf(ViewNext(u, Conversation(u, c)))
        /\ ArraysFit(listeners'[u][c], cacheMessage'[u][c])
    BY <1>1, <1>2, <1>3, <1>5, <1>20, <1>22, <2>4 DEF Shown
  <2> QED  BY <2>3, <2>5, NextRowsOK
<1> QED  BY <1>21, <1>22

LEMMA BackRows ==
  ASSUME TypeOK, NEW u \in User, NEW c \in User \ {u}, RowsOK(u, c), Back(u)
  PROVE  RowsOK(u, c)'
<1>1. ViewNext(u, Conversation(u, c)) = View(u, Conversation(u, c))
  <2>1. UNCHANGED <<remoteDocs, mutationQueue>>
    BY DEF Back, clientVars
  <2> QED  BY <2>1, Paths, NothingMoves
<1>2. PICK e : e = [chat |-> u, vc |-> recents[u] + 1, snap |-> View(u, Buffer(u))]
  OBVIOUS
<1>3. e \in Callback /\ e.chat = u
  <2>1. View(u, Buffer(u)) \in Document
    <3>1. Buffer(u) \in ChatPath
      BY Paths
    <3> QED  BY <3>1, ViewType, TypeParts DEF FsTypeOK, View
  <2>2. recents[u] + 1 \in Nat
    BY DEF TypeOK
  <2> QED  BY <1>2, <2>1, <2>2 DEF Callback
<1>4. PICK r : r = <<e>> /\ r \in Seq(Callback) /\ Len(r) = 1 /\ r[1] = e
  BY <1>3, OneCallback
<1>5. PICK q \in Seq(Callback) : q = mainQueue[u] /\ mainQueue'[u] = q \o r
  <2>1. Enqueue(u, r) /\ mainQueue[u] \in Seq(Callback)
    BY <1>2, <1>4 DEF Back, TypeOK
  <2> QED  BY <2>1, Enqueued
<1>6. PICK V : V = KeysOf(View(u, Conversation(u, c)))
  OBVIOUS
<1>7. PICK shown : shown = Shown(u, c)
  OBVIOUS
<1>8. PICK n \in Nat : n = Len(listeners[u][c])
  BY ControllersType DEF TypeOK
<1>9. RowsFit(c, n, shown, q, V) /\ ArraysFit(listeners[u][c], cacheMessage[u][c])
  BY <1>5, <1>6, <1>7, <1>8 DEF RowsOK
<1>10. \A i \in 1..Len(r) : r[i].chat # c
  BY <1>3, <1>4
<1>11. RowsFit(c, n, shown, q \o r, V)
  BY <1>4, <1>9, <1>10, OthersAdded
<1>12. UNCHANGED <<listeners, cacheMessage>>
  BY DEF Back
<1>13. /\ n = Len(listeners'[u][c]) /\ shown = KeysOf(ToSet(cacheMessage'[u][c]))
       /\ V = KeysOf(ViewNext(u, Conversation(u, c)))
       /\ ArraysFit(listeners'[u][c], cacheMessage'[u][c])
  BY <1>1, <1>6, <1>7, <1>8, <1>9, <1>12 DEF Shown
<1>14. RowsFit(c, n, shown, mainQueue'[u], V)
  BY <1>5, <1>11
<1> QED  BY <1>13, <1>14, NextRowsOK

\* The first waiting callback has run; it was of another chat, or of this one.
LEMMA CacheType ==
  ASSUME TypeOK, NEW u \in User, NEW c \in User
  PROVE  cacheMessage[u][c] \in Seq(Msg)
<1>1. cacheMessage \in [User -> [User -> Seq(Msg)]]
  BY TypeParts DEF ScreenTypeOK
<1>2. cacheMessage[u] \in [User -> Seq(Msg)]
  BY <1>1
<1> QED  BY <1>2

LEMMA CallbackRows ==
  ASSUME TypeOK, NEW u \in User, NEW c \in User \ {u}, RowsOK(u, c),
         BufferCallback(u) \/ ConversationCallback(u)
  PROVE  RowsOK(u, c)' /\ \/ cacheMessage'[u][c] = cacheMessage[u][c]
                          \/ \E S \in Snaps(mainQueue[u], c) :
                               NewRows(cacheMessage[u][c], S, cacheMessage'[u][c])
<1>1. ViewNext(u, Conversation(u, c)) = View(u, Conversation(u, c))
  <2>1. UNCHANGED clientVars
    BY DEF BufferCallback, ConversationCallback
  <2>2. UNCHANGED <<remoteDocs, mutationQueue>>
    BY <2>1 DEF clientVars
  <2> QED  BY <2>2, Paths, NothingMoves
<1>2. PICK q \in Seq(Callback) : q = mainQueue[u]
  BY DEF TypeOK
<1>3. q # << >> /\ mainQueue'[u] = Tail(q)
  <2>1. mainQueue[u] # << >> /\ mainQueue' = [mainQueue EXCEPT ![u] = Tail(@)]
    BY DEF BufferCallback, ConversationCallback
  <2> QED  BY <1>2, <2>1 DEF TypeOK
<1>4. Len(q) > 0 /\ Head(q) = q[1]
  BY <1>3
<1>5. PICK V : V = KeysOf(View(u, Conversation(u, c)))
  OBVIOUS
<1>6. PICK cache \in Seq(Msg) : cache = cacheMessage[u][c]
  BY CacheType
<1>7. PICK shown : shown = Shown(u, c) /\ shown = KeysOf(ToSet(cache))
  BY <1>6 DEF Shown
<1>8. PICK ls \in Seq(Seq(Msg)) : ls = listeners[u][c]
  BY ControllersType DEF TypeOK
<1>9. PICK n \in Nat : n = Len(ls)
  OBVIOUS
<1>10. RowsFit(c, n, shown, q, V) /\ ArraysFit(ls, cache)
  BY <1>2, <1>5, <1>6, <1>7, <1>8, <1>9 DEF RowsOK
<1>11. PICK shownNext : shownNext = IF q[1].chat = c THEN shown \cup Keys(q[1]) ELSE shown
  OBVIOUS
<1>12. /\ RowsFit(c, n, shownNext, Tail(q), V)
       /\ q[1].chat = c => q[1].vc = 1 \/ Keys(q[1]) \subseteq shown
  <2>1. RowsFit(c, n, shown, q, V) /\ Len(q) > 0
    BY <1>4, <1>10
  <2>2. RowsFit(c, n, shownNext, Tail(q), V)
    BY <1>11, <2>1, RowsDequeued
  <2>3. ASSUME q[1].chat = c, q[1].vc # 1 PROVE Keys(q[1]) \subseteq shown
    BY <2>1, <2>3, LaterBringsNothing
  <2> QED  BY <2>2, <2>3
<1>13. ASSUME ArraysFit(listeners'[u][c], cacheMessage'[u][c]), Len(listeners'[u][c]) = n,
              KeysOf(ToSet(cacheMessage'[u][c])) = shownNext
       PROVE  RowsOK(u, c)'
  <2>1. V = KeysOf(ViewNext(u, Conversation(u, c))) /\ RowsFit(c, n, shownNext, mainQueue'[u], V)
    BY <1>1, <1>3, <1>5, <1>12
  <2> QED  BY <1>13, <2>1, NextRowsOK
<1>14. ASSUME q[1].chat # c, listeners'[u][c] = ls, cacheMessage'[u][c] = cache
       PROVE  RowsOK(u, c)' /\ cacheMessage'[u][c] = cacheMessage[u][c]
  BY <1>6, <1>7, <1>9, <1>10, <1>11, <1>13, <1>14
<1>15. CASE BufferCallback(u)
  <2>1. q[1].chat = u /\ UNCHANGED <<listeners, cacheMessage>>
    BY <1>2, <1>4, <1>15 DEF BufferCallback
  <2> QED  BY <1>6, <1>8, <1>14, <2>1
<1>16. CASE ConversationCallback(u)
  <2>1. PICK d \in User \ {u}, e \in Callback : Runs(u, d, e)
    BY <1>16, CallbackRuns
  <2>2. e = q[1] /\ e.chat = d /\ e.snap \in Document /\ OnlyHere(u, d, e)
        /\ e.vc \in 1..Len(listeners[u][d])
    BY <1>2, <2>1 DEF Runs
  <2>3. CASE d # c
    <3>1. listeners'[u][c] = ls /\ cacheMessage'[u][c] = cache
      BY <1>6, <1>8, <2>2, <2>3 DEF OnlyHere
    <3> QED  BY <1>14, <2>2, <2>3, <3>1
  <2>4. CASE d = c
    <3>1. PICK lsNext : lsNext = listeners'[u][c]
      OBVIOUS
    <3>2. PICK cacheNext : cacheNext = cacheMessage'[u][c]
      OBVIOUS
    <3>3. Appends(ls, e.vc, shown, e.snap, lsNext, cache, cacheNext)
      BY <1>6, <1>7, <1>8, <2>2, <2>4, <3>1, <3>2 DEF OnlyHere
    <3>4. PICK S \in SUBSET Msg : S = e.snap
      BY <2>2 DEF Document
    <3>5. PICK vc \in 1..Len(ls) : vc = e.vc
      BY <1>8, <2>2, <2>4
    <3>6. vc = 1 \/ KeysOf(S) \subseteq shown
      BY <1>12, <2>2, <2>4, <3>4, <3>5 DEF Keys
    <3>7. /\ ArraysFit(lsNext, cacheNext) /\ Len(lsNext) = Len(ls)
          /\ KeysOf(ToSet(cacheNext)) = shown \cup KeysOf(S)
          /\ NewRows(cache, S, cacheNext)
      <4>1. Appends(ls, vc, shown, S, lsNext, cache, cacheNext)
        BY <3>3, <3>4, <3>5
      <4>2. ArraysFit(ls, cache) /\ shown = KeysOf(ToSet(cache))
        BY <1>7, <1>10
      <4>3. Extended(ls, cache, S, lsNext, cacheNext)
        BY <3>6, <4>1, <4>2, Appended
      <4> QED  BY <4>2, <4>3 DEF Extended
    <3>8. shownNext = shown \cup KeysOf(S)
      BY <1>11, <2>2, <2>4, <3>4 DEF Keys
    <3>9. RowsOK(u, c)'
      BY <1>9, <1>13, <3>1, <3>2, <3>7, <3>8
    <3>10. S \in Snaps(mainQueue[u], c)
      <4>1. 1 \in Waiting(q, c) /\ S = q[1].snap
        BY <1>4, <2>2, <2>4, <3>4 DEF Waiting
      <4>2. S \in Snaps(q, c)
        BY <4>1 DEF Snaps
      <4> QED  BY <1>2, <4>2
    <3> QED  BY <1>6, <3>2, <3>7, <3>9, <3>10
  <2> QED  BY <2>3, <2>4
<1> QED  BY <1>15, <1>16

LEMMA RelaunchRows ==
  ASSUME TypeOK, TypeOK', NEW u \in User, NEW c \in User \ {u}, Relaunch(u)
  PROVE  RowsOK(u, c)'
<1>1. PICK q : q = Callbacks(Buffer(u), 1, ViewNext(u, Buffer(u)))
  OBVIOUS
<1>2. q \in Seq(Callback) /\ Len(q) = 1 /\ q[1].chat = u
  BY <1>1, KillMoves, FirstCallback
<1>3. mainQueue'[u] = q /\ listeners'[u][c] = << >> /\ cacheMessage'[u][c] = << >>
  <2>1. mainQueue'[u] = q
    BY <1>1, KillMoves
  <2> QED  BY <2>1 DEF Relaunch, FreshProcess, TypeOK
<1>4. Waiting(q, c) = {}
  BY <1>2 DEF Waiting
<1>5. PICK V : V = KeysOf(ViewNext(u, Conversation(u, c)))
  OBVIOUS
<1>6. ToSet(<< >>) = {} /\ Len(<< >>) = 0
  BY DEF ToSet
<1>7. PICK shown : shown = KeysOf(ToSet(cacheMessage'[u][c])) /\ shown = {}
  BY <1>3, <1>6 DEF KeysOf
<1>8. PICK n : n = Len(listeners'[u][c]) /\ n = 0
  BY <1>3, <1>6
<1>9. RowsFit(c, n, shown, mainQueue'[u], V)
  BY <1>3, <1>4, <1>7, <1>8 DEF RowsFit, First
<1>10. ArraysFit(listeners'[u][c], cacheMessage'[u][c])
  BY <1>3, <1>6 DEF ArraysFit
<1> QED  BY <1>5, <1>7, <1>8, <1>9, <1>10, NextRowsOK

LEMMA NextRows ==
  ASSUME TypeOK, TypeOK', KeysInv, [Next]_vars, NEW u \in User, NEW c \in User \ {u}, RowsOK(u, c)
  PROVE  RowsOK(u, c)'
<1>1. CASE Relaunch(u)
  BY <1>1, RelaunchRows
<1>2. CASE ~Relaunch(u)
  BY <1>2, EachHears, QuietRows, ToldRows, OpenChatRows, BackRows, CallbackRows
<1> QED  BY <1>1, <1>2

LEMMA InitRows ==
  ASSUME Init, NEW u \in User, NEW c \in User \ {u}
  PROVE  RowsOK(u, c)
<1>1. PICK q : q = Callbacks(Buffer(u), 1, {})
  OBVIOUS
<1>2. q \in Seq(Callback) /\ Len(q) = 1 /\ q[1].chat = u
  <2>1. {} \in Document
    BY DEF Document
  <2> QED  BY <1>1, <2>1, FirstCallback
<1>3. mainQueue[u] = q /\ listeners[u][c] = << >> /\ cacheMessage[u][c] = << >>
  BY <1>1 DEF Init
<1>4. Waiting(q, c) = {}
  BY <1>2 DEF Waiting
<1>5. ToSet(<< >>) = {} /\ Len(<< >>) = 0
  BY DEF ToSet
<1>6. Shown(u, c) = {} /\ Len(listeners[u][c]) = 0
  BY <1>3, <1>5 DEF Shown, KeysOf
<1>7. RowsFit(c, Len(listeners[u][c]), Shown(u, c), mainQueue[u], KeysOf(View(u, Conversation(u, c))))
  BY <1>3, <1>4, <1>6 DEF RowsFit, First
<1>8. ArraysFit(listeners[u][c], cacheMessage[u][c])
  BY <1>3, <1>5 DEF ArraysFit
<1> QED  BY <1>7, <1>8 DEF RowsOK

LEMMA RowsSettled ==
  ASSUME TypeOK, \A u \in User : \A c \in User \ {u} : RowsOK(u, c)
  PROVE  RowsMirrorTheConversation
<1> SUFFICES ASSUME NEW u \in User, NEW c \in User \ {u}, listeners[u][c] # << >>, ChatCallbacks(u, c) = {}
             PROVE  Shown(u, c) = KeysOf(View(u, Conversation(u, c)))
  BY DEF RowsMirrorTheConversation
<1>1. First(mainQueue[u], c) = {}
  BY DEF ChatCallbacks, First, Waiting
<1>2. Len(listeners[u][c]) > 0
  <2>1. PICK ls \in Seq(Seq(Msg)) : ls = listeners[u][c]
    BY ControllersType DEF TypeOK
  <2>2. ls # << >>
    BY <2>1
  <2>3. Len(ls) > 0
    BY <2>2
  <2> QED  BY <2>1, <2>3
<1> QED  BY <1>1, <1>2 DEF RowsOK, RowsFit, UpToDate
-----------------------------------------------------------------------------
(***************************************************************************)
(* What the screens show.                                                  *)
(***************************************************************************)
ScreensInv ==
  /\ TypeOK /\ KeysInv
  /\ \A u \in User : BadgeOK(u) /\ \A c \in User \ {u} : RowsOK(u, c)

LEMMA InitScreens == Init => ScreensInv
<1> SUFFICES ASSUME Init PROVE ScreensInv
  OBVIOUS
<1>1. KeysInv
  <2>1. /\ \A u \in User : mutationQueue[u] = << >> /\ applied[u] = 0 /\ caughtUp[u] = {}
        /\ \A p \in ChatPath : docs[p] = {} /\ \A u \in User : remoteDocs[u][p] = {}
    BY DEF Init, FsInit
  <2> QED  BY <2>1 DEF KeysInv, Lemmas!KeysKept, Lemmas!KeepsKeys, Lemmas!Has
<1> QED  BY <1>1, InitType, InitBadges, InitRows DEF ScreensInv

LEMMA NextScreens == ScreensInv /\ [Next]_vars => ScreensInv'
<1> SUFFICES ASSUME ScreensInv, [Next]_vars PROVE ScreensInv'
  OBVIOUS
<1>1. TypeOK /\ KeysInv /\ TypeOK' /\ KeysInv'
  BY NextType, NextKeys DEF ScreensInv
<1>2. ASSUME NEW u \in User PROVE BadgeOK(u)'
  BY <1>1, NextBadges DEF ScreensInv
<1>3. ASSUME NEW u \in User, NEW c \in User \ {u} PROVE RowsOK(u, c)'
  BY <1>1, NextRows DEF ScreensInv
<1> QED  BY <1>1, <1>2, <1>3 DEF ScreensInv

LEMMA ScreensInvariant == Spec => []ScreensInv
  BY InitScreens, NextScreens, PTL DEF Spec

\* The badges are counted from the buffer document the device sees, or will be
\* when the callbacks that wait have run, whatever buffercleaner,
\* other senders, late snapshots and kills did (RecentViewController.listener).
THEOREM BadgesComeFromTheBuffer == Spec => []BadgesSettle
<1>1. ScreensInv => BadgesSettle
  BY BadgesSettled DEF ScreensInv
<1> QED  BY <1>1, ScreensInvariant, PTL

\* Once the callbacks of a chat have run its rows are the conversation the
\* device sees, for any number of controllers left behind that listen to it
\* (ChatViewController.viewWillAppear).
THEOREM RowsComeFromTheConversation == Spec => []RowsMirrorTheConversation
<1>1. ScreensInv => RowsMirrorTheConversation
  BY RowsSettled DEF ScreensInv
<1> QED  BY <1>1, ScreensInvariant, PTL

LEMMA PrefixOfItself ==
  ASSUME NEW s \in Seq(Msg)
  PROVE  IsPrefix(s, s)
  BY DEF IsPrefix

LEMMA PrefixOfMore ==
  ASSUME NEW s \in Seq(Msg), NEW t \in Seq(Msg)
  PROVE  IsPrefix(s, s \o t)
  BY DEF IsPrefix

\* A step leaves the rows of a chat, adds to them, or kills the app.
RowsStep(u, c) ==
  \/ IsPrefix(cacheMessage[u][c], cacheMessage'[u][c])
  \/ \A d \in User : listeners'[u][d] = << >>

\* The rows of a chat are replaced by a kill, or extended by a callback.
LEMMA CacheMoves ==
  ASSUME TypeOK, TypeOK', ScreensInv, [Next]_vars, NEW u \in User, NEW c \in User
  PROVE  \/ cacheMessage'[u][c] = cacheMessage[u][c]
         \/ Relaunch(u) /\ cacheMessage'[u][c] = << >>
         \/ /\ c # u
            /\ \E S \in Snaps(mainQueue[u], c) :
                 NewRows(cacheMessage[u][c], S, cacheMessage'[u][c])
<1>1. CASE Quiet(u)
  BY <1>1 DEF Quiet, ScreensStay
<1>2. ASSUME NEW p \in ChatPath, Told(u, p) PROVE cacheMessage'[u][c] = cacheMessage[u][c]
  BY <1>2 DEF Told, ScreensStay
<1>3. ASSUME NEW d \in User, OpenChat(u, d) PROVE cacheMessage'[u][c] = cacheMessage[u][c]
  BY <1>3 DEF OpenChat
<1>4. CASE Back(u)
  BY <1>4 DEF Back
<1>5. CASE BufferCallback(u)
  BY <1>5 DEF BufferCallback
<1>6. CASE ConversationCallback(u)
  <2>1. CASE c # u
    <3>1. RowsOK(u, c)
      BY <2>1 DEF ScreensInv
    <3> QED  BY <1>6, <2>1, <3>1, CallbackRows
  <2>2. CASE c = u
    BY <1>6, <2>2, CallbackRuns DEF Runs, OnlyHere
  <2> QED  BY <2>1, <2>2
<1>7. CASE Relaunch(u)
  BY <1>7 DEF Relaunch, FreshProcess, TypeOK
<1> QED  BY <1>1, <1>2, <1>3, <1>4, <1>5, <1>6, <1>7, EachHears

LEMMA EachGrows ==
  ASSUME TypeOK, TypeOK', ScreensInv, [Next]_vars, NEW u \in User, NEW c \in User
  PROVE  RowsStep(u, c)
<1>1. PICK cache \in Seq(Msg) : cache = cacheMessage[u][c]
  BY CacheType
<1>2. CASE cacheMessage'[u][c] = cache
  BY <1>1, <1>2, PrefixOfItself DEF RowsStep
<1>3. CASE Relaunch(u)
  BY <1>3 DEF Relaunch, FreshProcess, RowsStep, TypeOK
<1>4. ASSUME NEW S, NewRows(cache, S, cacheMessage'[u][c]) PROVE RowsStep(u, c)
  <2>1. PICK rows \in Seq(Msg) : cacheMessage'[u][c] = cache \o rows
    BY <1>4 DEF NewRows
  <2> QED  BY <1>1, <2>1, PrefixOfMore DEF RowsStep
<1> QED  BY <1>1, <1>2, <1>3, <1>4, CacheMoves

\* Rows on screen never vanish or move while the app runs, though each
\* callback replaces cacheMessage by the array of one of the controllers.
THEOREM RowsStay == Spec => RowsOnlyGrow
<1>1. ScreensInv /\ ScreensInv' /\ [Next]_vars =>
        [\A u, c \in User : IsPrefix(cacheMessage[u][c], cacheMessage'[u][c])
                             \/ (\A d \in User : listeners'[u][d] = << >>)]_vars
  BY EachGrows DEF ScreensInv, RowsStep
<1> QED  BY <1>1, ScreensInvariant, PTL DEF Spec, RowsOnlyGrow
-----------------------------------------------------------------------------
(***************************************************************************)
(* The order of messages.  Whoever holds a message of a conversation has   *)
(* the keys of all that its sender sent there before and no kill has cut   *)
(* off, wherever the two copies, the caches, the queues and the snapshots  *)
(* have got to; and what they hold is not among what was cut off.          *)
(***************************************************************************)
About(p, m) == \/ m.from = p.owner /\ m.to = p.peer
               \/ m.from = p.peer /\ m.to = p.owner

CopyOf(p, f) == MergeInto(p, [key |-> f.key, from |-> f.from])

\* What w has lost, and what it would lose if its app were killed now.
AtRisk(w) == lost[w] \cup CutOff(w)

Safe(p, f) == CopyOf(p, f) \notin AtRisk(f.from)

\* What the owner of p sent there may still be cut off, and what is shown of
\* it is gone then; what the other one sent is on that one's disk.
Real(p, f) == ~CopyLost(f, p) /\ (f.from # p.owner => Safe(p, f))

\* Keys K have what the sender of f sent in conversation p before f.
Follows(p, f, K) ==
  \A m \in sent : About(p, m) /\ m.from = f.from /\ m.key < f.key => m.key \in K \/ CopyLost(m, p)

Complete(p, F, K) == \A f \in F : Said(p, f) /\ Real(p, f) /\ Follows(p, f, K)

\* The owner's own messages are in the view, if not in the document.
PeersComplete(p, doc) ==
  \A f \in doc : Said(p, f) /\ Safe(p, f) /\ (f.from = p.peer => Follows(p, f, KeysOf(doc)))

QueuesInOrder ==
  \A w \in User : \A i, j \in 1..Len(mutationQueue[w]) :
    i < j /\ mutationQueue[w][i].path \in Chats /\ mutationQueue[w][i].path = mutationQueue[w][j].path
      => \A f \in mutationQueue[w][i].fields, g \in mutationQueue[w][j].fields : f.key < g.key

\* What is lost was sent, and is in no queue any more.
LostWasSent ==
  \A w \in User : \A e \in lost[w] :
    e.path \in Chats => \A f \in e.fields : \E n \in sent : n.from = w /\ n.key = f.key

QueuedNotLost ==
  \A w \in User : \A i \in 1..Len(mutationQueue[w]) :
    mutationQueue[w][i].path \in Chats => mutationQueue[w][i] \notin lost[w]

DocsInOrder == \A p \in Chats : PeersComplete(p, docs[p])

CachesInOrder == \A p \in Chats : PeersComplete(p, remoteDocs[p.owner][p])

OwnSeen ==
  \A p \in Chats : \A m \in sent :
    m.from = p.owner /\ m.to = p.peer => m.key \in KeysOf(View(p.owner, p)) \/ CopyLost(m, p)

\* A clock does not go back.
SentInOrder ==
  /\ sent \subseteq sent'
  /\ \A m \in sent' : m \in sent \/ \A n \in sent : n.from = m.from => n.key < m.key

LEMMA NextSends ==
  ASSUME TypeOK, [Next]_vars
  PROVE  SentInOrder
<1>1. ASSUME sent' = sent PROVE SentInOrder
  BY <1>1 DEF SentInOrder
<1>2. ASSUME NEW u \in User, NEW c \in User, OpenChat(u, c) PROVE SentInOrder
  BY <1>1, <1>2 DEF OpenChat
<1>3. ASSUME NEW u \in User, NEW c \in User, NEW t \in Clock[u], SendMessage(u, c, t) PROVE SentInOrder
  <2>1. PICK m : m = [key |-> t, from |-> u, to |-> c]
    OBVIOUS
  <2>2. sent' = sent \cup {m} /\ \A n \in sent : n.from = m.from => n.key < m.key
    BY <1>3, <2>1 DEF SendMessage
  <2> QED  BY <2>2 DEF SentInOrder
<1> QED  BY <1>1, <1>2, <1>3, NextSplits

LEMMA SentTypes ==
  ASSUME TypeOK
  PROVE  \A m \in sent : m.key \in Nat /\ m.from \in User /\ m.to \in User /\ m.from # m.to
  BY DEF TypeOK, Time

\* Nothing but a kill of its app adds to what a user has lost.
LEMMA LostMoves ==
  ASSUME TypeOK, [Next]_vars, NEW u \in User
  PROVE  lost[u] \subseteq lost'[u] /\ (~Relaunch(u) => lost'[u] = lost[u])
<1>1. ASSUME NEW w \in User, Relaunch(w)
      PROVE  lost[u] \subseteq lost'[u] /\ (~Relaunch(u) => lost'[u] = lost[u])
  <2>1. lost' = [lost EXCEPT ![w] = @ \cup CutOff(w)] /\ lost \in [User -> SUBSET Mutation]
    BY <1>1, TypeParts DEF Relaunch, FreshProcess, ScreenTypeOK
  <2>2. CASE w = u
    BY <1>1, <2>1, <2>2
  <2>3. CASE w # u
    BY <2>1, <2>3
  <2> QED  BY <2>2, <2>3
<1>2. ASSUME NEW w \in User, NEW c \in User, OpenChat(w, c) PROVE lost' = lost
  BY <1>2 DEF OpenChat
<1>3. ASSUME NEW w \in User, NEW c \in User, NEW t \in Clock[w], SendMessage(w, c, t) PROVE lost' = lost
  BY <1>3 DEF SendMessage
<1> QED  BY <1>1, <1>2, <1>3, NextSplits

LEMMA CutOffParts ==
  ASSUME NEW w \in User, NEW e
  PROVE  /\ FsTypeOK => (e \in CutOff(w) <=> \E i \in 1..Len(mutationQueue[w]) :
                                                i > persisted[w] /\ e = mutationQueue[w][i])
         /\ FsTypeOK' => (e \in CutOff(w)' <=> \E i \in 1..Len(mutationQueue'[w]) :
                                                i > persisted'[w] /\ e = mutationQueue'[w][i])
<1>1. ASSUME NEW q, Len(q) \in Nat, NEW n \in Nat, NEW i
      PROVE  i \in (n + 1)..Len(q) <=> i \in 1..Len(q) /\ i > n
  BY <1>1
<1>2. FsTypeOK => persisted[w] \in Nat /\ Len(mutationQueue[w]) \in Nat
  BY DEF FsTypeOK
<1>3. FsTypeOK' => persisted'[w] \in Nat /\ Len(mutationQueue'[w]) \in Nat
  BY DEF FsTypeOK
<1>4. FsTypeOK => (e \in CutOff(w) <=> \E i \in 1..Len(mutationQueue[w]) :
                                          i > persisted[w] /\ e = mutationQueue[w][i])
  BY <1>1, <1>2 DEF CutOff
<1>5. FsTypeOK' => (e \in CutOff(w)' <=> \E i \in 1..Len(mutationQueue'[w]) :
                                            i > persisted'[w] /\ e = mutationQueue'[w][i])
  BY <1>1, <1>3 DEF CutOff
<1> QED  BY <1>4, <1>5

\* The network puts nothing back behind what is on disk.
LEMMA NetworkRisks ==
  ASSUME FsTypeOK, Lemmas!NetworkStep, NEW w \in User,
         NEW i \in 1..Len(mutationQueue'[w]), i > persisted'[w]
  PROVE  \E j \in 1..Len(mutationQueue[w]) :
           j > persisted[w] /\ mutationQueue'[w][i] = mutationQueue[w][j]
<1>1. PICK q \in Seq(Mutation) : q = mutationQueue[w]
  BY DEF FsTypeOK
<1>2. persisted[w] \in Nat /\ persisted \in [User -> Nat]
  BY DEF FsTypeOK
<1>3. CASE mutationQueue'[w] = q /\ persisted'[w] >= persisted[w]
  <2>1. i \in 1..Len(q) /\ i > persisted[w]
    <3>1. persisted'[w] \in Nat
      BY SameTypes, Lemmas!NetworkType DEF FsTypeOK
    <3> QED  BY <1>2, <1>3, <3>1
  <2> QED  BY <1>1, <1>3, <2>1
<1>4. CASE Lemmas!Acknowledge(w)
  <2>1. /\ mutationQueue'[w] = Tail(q) /\ persisted'[w] = persisted[w] - 1 /\ applied[w] > 0
    BY <1>1, <1>2, <1>4 DEF Lemmas!Acknowledge, FsTypeOK
  <2>2. Len(q) > 0
    BY <1>1, <2>1, FirstOnDisk
  <2>7. Len(Tail(q)) = Len(q) - 1 /\ Len(q) \in Nat
        /\ \A k \in 1..Len(Tail(q)) : Tail(q)[k] = q[k + 1]
    BY <2>2
  <2>3. PICK t : t = Tail(q) /\ Len(t) = Len(q) - 1 /\ Len(q) \in Nat
               /\ \A k \in 1..Len(t) : t[k] = q[k + 1]
    BY <2>7
  <2>4. i \in 1..Len(t) /\ i > persisted[w] - 1
    BY <2>1, <2>3
  <2>5. PICK j \in 1..Len(q) : j = i + 1
    BY <2>3, <2>4
  <2>6. j > persisted[w]
    BY <1>2, <2>4, <2>5
  <2> QED  BY <1>1, <2>1, <2>3, <2>4, <2>5, <2>6
<1>5. \/ mutationQueue'[w] = q /\ persisted'[w] >= persisted[w]
      \/ Lemmas!Acknowledge(w)
  <2>1. ASSUME NEW d \in User, Lemmas!Persist(d)
        PROVE  mutationQueue'[w] = q /\ persisted'[w] >= persisted[w]
    BY <1>1, <1>2, <2>1 DEF Lemmas!Persist
  <2>2. ASSUME NEW d \in User, Lemmas!Acknowledge(d), d # w
        PROVE  mutationQueue'[w] = q /\ persisted'[w] >= persisted[w]
    BY <1>1, <1>2, <2>2 DEF Lemmas!Acknowledge, FsTypeOK
  <2>3. ASSUME UNCHANGED <<mutationQueue, persisted>>
        PROVE  mutationQueue'[w] = q /\ persisted'[w] >= persisted[w]
    BY <1>1, <1>2, <2>3
  <2>4. ASSUME NEW d \in User, Lemmas!Commit(d) \/ Lemmas!Restart(d)
        PROVE  UNCHANGED <<mutationQueue, persisted>>
    BY <2>4 DEF Lemmas!Commit, Lemmas!Restart
  <2>5. ASSUME NEW d \in User, NEW p \in ChatPath, Lemmas!Watch(d, p)
        PROVE  UNCHANGED <<mutationQueue, persisted>>
    BY <2>5 DEF Lemmas!Watch
  <2>6. Lemmas!fsVars' = Lemmas!fsVars => UNCHANGED <<mutationQueue, persisted>>
    BY DEF Lemmas!fsVars
  <2> QED  BY <2>1, <2>2, <2>3, <2>4, <2>5, <2>6 DEF Lemmas!NetworkStep
<1> QED  BY <1>3, <1>4, <1>5

\* What is newly at risk was sent after all that had been sent.
LEMMA NewRisks ==
  ASSUME TypeOK, TypeOK', [Next]_vars, NEW w \in User, NEW e, e \in AtRisk(w)', e.path \in Chats
  PROVE  \/ e \in AtRisk(w)
         \/ \A f \in e.fields, n \in sent : n.from = w => n.key < f.key
<1>1. FsTypeOK /\ FsTypeOK' /\ persisted[w] \in Nat /\ Len(mutationQueue[w]) \in Nat
  BY TypeParts DEF FsTypeOK
<1>2. (e \in lost'[w] \/ e \in CutOff(w)')
      /\ (e \in lost[w] \/ e \in CutOff(w) => e \in AtRisk(w))
  BY DEF AtRisk
<1>3. ASSUME NEW i \in 1..Len(mutationQueue[w]), i > persisted[w], e = mutationQueue[w][i]
      PROVE  e \in AtRisk(w)
  BY <1>1, <1>2, <1>3, CutOffParts
<1>4. CASE Lemmas!NetworkStep /\ lost' = lost
  <2>1. ASSUME NEW i \in 1..Len(mutationQueue'[w]), i > persisted'[w], e = mutationQueue'[w][i]
        PROVE  e \in AtRisk(w)
    <3>1. PICK j \in 1..Len(mutationQueue[w]) :
             j > persisted[w] /\ mutationQueue'[w][i] = mutationQueue[w][j]
      BY <1>1, <1>4, <2>1, NetworkRisks
    <3> QED  BY <1>3, <2>1, <3>1
  <2> QED  BY <1>1, <1>2, <1>4, <2>1, CutOffParts
<1>5. ASSUME NEW u \in User, Relaunch(u), Lemmas!Killed({u}) PROVE e \in AtRisk(w)
  <2>1. Kill(u)
    BY <1>5, RelaunchIsKill
  <2>2. IsCut(w)
    BY <2>1, KillCuts
  <2>3. persisted' = persisted
    BY <2>1 DEF Kill
  <2>4. lost'[w] \subseteq lost[w] \cup CutOff(w)
    <3>1. lost' = [lost EXCEPT ![u] = @ \cup CutOff(u)] /\ lost \in [User -> SUBSET Mutation]
      BY <2>1, TypeParts DEF Kill, ScreenTypeOK
    <3>2. CASE u = w
      BY <3>1, <3>2
    <3>3. CASE u # w
      BY <3>1, <3>3
    <3> QED  BY <3>2, <3>3
  <2>5. ASSUME NEW i \in 1..Len(mutationQueue'[w]), i > persisted'[w], e = mutationQueue'[w][i]
        PROVE  e \in AtRisk(w)
    <3>1. i \in 1..Len(mutationQueue[w]) /\ mutationQueue'[w][i] = mutationQueue[w][i]
      BY <2>2 DEF IsCut
    <3> QED  BY <1>3, <2>3, <2>5, <3>1
  <2> QED  BY <1>1, <1>2, <2>4, <2>5, CutOffParts
<1>6. ASSUME NEW u \in User, NEW ms \in Seq(Mutation), LocallyWrite(u, ms), lost' = lost
      PROVE  e \in AtRisk(w) \/ (w = u /\ \E j \in 1..Len(ms) : e = ms[j])
  <2>1. persisted' = persisted
    BY <1>6 DEF LocallyWrite
  <2>2. ASSUME NEW i \in 1..Len(mutationQueue'[w]), i > persisted'[w], e = mutationQueue'[w][i]
        PROVE  e \in AtRisk(w) \/ (w = u /\ \E j \in 1..Len(ms) : e = ms[j])
    <3>1. CASE i \in 1..Len(mutationQueue[w])
      <4>1. mutationQueue'[w][i] = mutationQueue[w][i]
        BY <1>1, <1>6, <3>1, QueueGrows
      <4> QED  BY <1>3, <2>1, <2>2, <3>1, <4>1
    <3>2. CASE i \notin 1..Len(mutationQueue[w])
      <4>1. /\ w = u /\ i - Len(mutationQueue[u]) \in 1..Len(ms)
            /\ mutationQueue'[u][i] = ms[i - Len(mutationQueue[u])]
        BY <1>1, <1>6, <3>2, QueueGrows
      <4> QED  BY <2>2, <4>1
    <3> QED  BY <3>1, <3>2
  <2> QED  BY <1>1, <1>2, <1>6, <2>2, CutOffParts
<1>7. ASSUME NEW u \in User, NEW c \in User, OpenChat(u, c) PROVE e \in AtRisk(w)
  <2>1. PICK ms \in Seq(Mutation) : ms = CleanBuffer(u, c)
    BY CleanBufferType DEF TypeOK
  <2>2. LocallyWrite(u, ms) /\ lost' = lost
    BY <1>7, <2>1 DEF OpenChat
  <2>3. \A j \in 1..Len(ms) : ms[j].path = Buffer(u)
    BY <2>1 DEF CleanBuffer
  <2> QED  BY <1>6, <2>2, <2>3, ChatsParts
<1>8. ASSUME NEW u \in User, NEW c \in User \ {u}, NEW t \in Clock[u], SendMessage(u, c, t)
      PROVE  e \in AtRisk(w) \/ \A f \in e.fields, n \in sent : n.from = w => n.key < f.key
  <2>1. PICK m \in Msg, ms \in Seq(Mutation), own \in Chats, far \in Chats :
           /\ t \in Time /\ m = [key |-> t, from |-> u] /\ m.key = t /\ m.from = u
           /\ own = Conversation(u, c) /\ far = Conversation(c, u)
           /\ own.owner = u /\ own.peer = c /\ far.owner = c /\ far.peer = u
           /\ LocallyWrite(u, ms) /\ Lemmas!LocallyWrite(u, ms)
           /\ Len(ms) = 3 /\ \A i \in 1..Len(ms) : ms[i].merge /\ ms[i].fields = {m}
           /\ ms[1].path = Buffer(c) /\ ms[2].path = own /\ ms[3].path = far
           /\ Buffer(c) \in ChatPath /\ Buffer(c) \notin Chats
    BY <1>8, MessageWrites
  <2>2. lost' = lost /\ \A n \in sent : n.from = u => n.key < t
    BY <1>8 DEF SendMessage
  <2>3. CASE w = u /\ \E j \in 1..Len(ms) : e = ms[j]
    BY <2>1, <2>2, <2>3
  <2> QED  BY <1>6, <2>1, <2>2, <2>3
<1> QED  BY <1>4, <1>5, <1>7, <1>8, NextSplits

\* What cannot be lost any more stays so, whatever is sent and killed.
LEMMA SafeStays ==
  ASSUME TypeOK, TypeOK', [Next]_vars, NEW p \in Chats, NEW f, Said(p, f), Safe(p, f)
  PROVE  Safe(p, f)'
<1>1. PICK n \in sent : n.key = f.key /\ n.from = f.from
  BY DEF Said
<1>2. PICK w \in User : w = f.from
  BY <1>1, SentTypes
<1>3. PICK e : e = CopyOf(p, f)
  OBVIOUS
<1>4. e.path = p /\ e.fields = {[key |-> f.key, from |-> f.from]}
  BY <1>3, Carried DEF CopyOf
<1>5. e \notin AtRisk(w)
  BY <1>2, <1>3 DEF Safe
<1>6. ASSUME e \in AtRisk(w)' PROVE FALSE
  <2>1. \A g \in e.fields, k \in sent : k.from = w => k.key < g.key
    BY <1>4, <1>5, <1>6, NewRisks
  <2>2. n.key < f.key /\ n.key \in Nat
    BY <1>1, <1>2, <1>4, <2>1, SentTypes
  <2> QED  BY <1>1, <2>2
<1>7. CopyOf(p, f)' = e
  BY <1>3 DEF CopyOf, MergeInto
<1> QED  BY <1>2, <1>6, <1>7 DEF Safe, AtRisk

LEMMA LostStaysLost ==
  ASSUME TypeOK, [Next]_vars, NEW p, NEW m, m.from \in User
  PROVE  /\ CopyLost(m, p) => CopyLost(m, p)'
         /\ ~Relaunch(m.from) /\ ~CopyLost(m, p) => ~CopyLost(m, p)'
<1>1. PICK w \in User : w = m.from
  OBVIOUS
<1>2. lost[w] \subseteq lost'[w] /\ (~Relaunch(w) => lost'[w] = lost[w])
  BY LostMoves
<1>3. PICK e : e = MergeInto(p, [key |-> m.key, from |-> m.from])
  OBVIOUS
<1>4. (CopyLost(m, p) <=> e \in lost[w]) /\ (CopyLost(m, p)' <=> e \in lost'[w])
  BY <1>1, <1>3 DEF CopyLost, MergeInto
<1> QED  BY <1>1, <1>2, <1>4

LEMMA RealStays ==
  ASSUME TypeOK, TypeOK', [Next]_vars, NEW p \in Chats, ~Relaunch(p.owner),
         NEW f, Said(p, f), Real(p, f)
  PROVE  Real(p, f)'
<1>1. f.from \in User
  BY SentTypes DEF Said
<1>2. CASE f.from = p.owner
  <2>1. ~CopyLost(f, p)'
    BY <1>1, <1>2, LostStaysLost DEF Real
  <2> QED  BY <1>2, <2>1 DEF Real
<1>3. CASE f.from # p.owner
  <2>1. Safe(p, f)'
    BY <1>3, SafeStays DEF Real
  <2>2. ~CopyLost(f, p)'
    BY <2>1 DEF Safe, AtRisk, CopyOf, CopyLost
  <2> QED  BY <2>1, <2>2 DEF Real
<1> QED  BY <1>2, <1>3

LEMMA FollowsStays ==
  ASSUME TypeOK, TypeOK', [Next]_vars, NEW p, NEW f, NEW K, Said(p, f), Follows(p, f, K)
  PROVE  Said(p, f)' /\ Follows(p, f, K)'
<1>1. PICK n \in sent : n.key = f.key /\ n.from = f.from
  BY DEF Said
<1>2. \A m \in sent' : m.key \in Nat
  BY DEF TypeOK, Time
<1>3. SentInOrder
  BY NextSends
<1>4. ASSUME NEW m \in sent', m.from = f.from, m.key < f.key PROVE m \in sent
  <2>1. n \in sent' /\ ~(n.key < m.key)
    BY <1>1, <1>2, <1>3, <1>4 DEF SentInOrder
  <2> QED  BY <1>1, <1>3, <1>4, <2>1 DEF SentInOrder
<1>5. ASSUME NEW m \in sent', About(p, m), m.from = f.from, m.key < f.key
      PROVE  m.key \in K \/ CopyLost(m, p)'
  <2>1. m \in sent /\ m.from \in User
    BY <1>4, <1>5, SentTypes
  <2>2. m.key \in K \/ CopyLost(m, p)
    BY <1>5, <2>1 DEF Follows
  <2> QED  BY <2>1, <2>2, LostStaysLost
<1>6. Follows(p, f, K)'
  BY <1>5 DEF Follows, About
<1>7. Said(p, f)'
  BY <1>3 DEF Said, SentInOrder
<1> QED  BY <1>6, <1>7

LEMMA CompleteStays ==
  ASSUME TypeOK, TypeOK', [Next]_vars, NEW p \in Chats, ~Relaunch(p.owner),
         NEW F, NEW K, Complete(p, F, K)
  PROVE  Complete(p, F, K)'
<1>1. ASSUME NEW f \in F PROVE Said(p, f)' /\ Real(p, f)' /\ Follows(p, f, K)'
  BY FollowsStays, RealStays DEF Complete
<1> QED  BY <1>1 DEF Complete

LEMMA PeersCompleteStays ==
  ASSUME TypeOK, TypeOK', [Next]_vars, NEW p \in Chats, NEW doc, PeersComplete(p, doc)
  PROVE  PeersComplete(p, doc)'
<1>1. ASSUME NEW f \in doc
      PROVE  Said(p, f)' /\ Safe(p, f)' /\ (f.from = p.peer => Follows(p, f, KeysOf(doc))')
  <2>1. Said(p, f)' /\ Safe(p, f)'
    <3>1. Said(p, f) /\ Safe(p, f) /\ SentInOrder
      BY NextSends DEF PeersComplete
    <3>2. Said(p, f)'
      BY <3>1 DEF Said, SentInOrder
    <3> QED  BY <3>1, <3>2, SafeStays
  <2>2. ASSUME f.from = p.peer PROVE Follows(p, f, KeysOf(doc))'
    <3>1. PICK K : K = KeysOf(doc)
      OBVIOUS
    <3>2. Said(p, f) /\ Follows(p, f, K)
      BY <2>2, <3>1 DEF PeersComplete
    <3>3. Follows(p, f, K)'
      BY <3>2, FollowsStays
    <3> QED  BY <3>1, <3>3
  <2> QED  BY <2>1, <2>2
<1> QED  BY <1>1 DEF PeersComplete

\* A merge takes no key away.
LEMMA MergeAdds ==
  ASSUME NEW e, NEW doc, e.merge
  PROVE  /\ KeysOf(doc) \subseteq KeysOf(ApplyTo(e, doc))
         /\ ApplyTo(e, doc) \subseteq doc \cup e.fields
<1>1. ASSUME NEW f \in doc PROVE f.key \in KeysOf(ApplyTo(e, doc))
  BY DEF KeysOf, ApplyTo, Overwrites
<1>2. ApplyTo(e, doc) \subseteq doc \cup e.fields
  BY DEF ApplyTo
<1> QED  BY <1>1, <1>2 DEF KeysOf

LEMMA MergeFollows ==
  ASSUME NEW p, NEW e, NEW doc, e.merge, PeersComplete(p, doc),
         \A f \in e.fields : Said(p, f) /\ Safe(p, f)
                             /\ (f.from = p.peer => Follows(p, f, KeysOf(doc)))
  PROVE  PeersComplete(p, ApplyTo(e, doc))
<1>1. PICK next : next = ApplyTo(e, doc)
  OBVIOUS
<1>2. KeysOf(doc) \subseteq KeysOf(next) /\ next \subseteq doc \cup e.fields
  BY <1>1, MergeAdds
<1>3. ASSUME NEW f \in next
      PROVE  Said(p, f) /\ Safe(p, f) /\ (f.from = p.peer => Follows(p, f, KeysOf(next)))
  <2>1. Said(p, f) /\ Safe(p, f) /\ (f.from = p.peer => Follows(p, f, KeysOf(doc)))
    BY <1>2 DEF PeersComplete
  <2> QED  BY <1>2, <2>1 DEF Follows
<1> QED  BY <1>1, <1>3 DEF PeersComplete
-----------------------------------------------------------------------------
LEMMA SendersOf ==
  ASSUME TypeOK, NEW p \in Chats
  PROVE  /\ p.owner # p.peer /\ p.owner \in User /\ p.peer \in User
         /\ \A f : Said(p, f) => f.from = p.owner \/ f.from = p.peer
         /\ \A m \in sent : About(p, m) /\ m.from = p.peer => m.to = p.owner
         /\ \A m \in sent : About(p, m) /\ m.from = p.owner => m.to = p.peer
<1>1. p.owner # p.peer /\ p.owner \in User /\ p.peer \in User
  BY ChatsParts
<1>2. \A f : Said(p, f) => f.from = p.owner \/ f.from = p.peer
  BY DEF Said
<1> QED  BY <1>1, <1>2 DEF About

\* A write that is on disk is not lost in a kill.
LEMMA DiskNotAtRisk ==
  ASSUME TypeOK, ChatInv, OneMessageEach, QueuesInOrder, QueuedNotLost, NEW w \in User,
         NEW n \in 1..Len(mutationQueue[w]), n <= persisted[w], mutationQueue[w][n].path \in Chats
  PROVE  mutationQueue[w][n] \notin AtRisk(w)
<1>1. PICK e : e = mutationQueue[w][n]
  OBVIOUS
<1>2. PICK k \in Time : e = MergeInto(e.path, [key |-> k, from |-> w])
  BY <1>1, OneCopy DEF ChatInv
<1>3. PICK f : f = [key |-> k, from |-> w]
  OBVIOUS
<1>4. f \in e.fields /\ f.key \in Nat
  BY <1>2, <1>3, Carried DEF Time
<1>5. ASSUME NEW i \in 1..Len(mutationQueue[w]), i > persisted[w], e = mutationQueue[w][i]
      PROVE  FALSE
  <2>1. n < i
    <3>1. n \in Nat /\ i \in Nat /\ persisted[w] \in Nat
      BY TypeParts DEF FsTypeOK
    <3> QED  BY <1>5, <3>1
  <2>2. f.key < f.key
    BY <1>1, <1>4, <1>5, <2>1 DEF QueuesInOrder
  <2> QED  BY <1>4, <2>2
<1>6. e \notin CutOff(w)
  BY <1>5, CutOffParts, TypeParts
<1>7. e \notin lost[w]
  BY <1>1 DEF QueuedNotLost
<1> QED  BY <1>1, <1>6, <1>7 DEF AtRisk

LEMMA WhatACopyIs ==
  ASSUME TypeOK, ChatInv, OneMessageEach, NEW w \in User, NEW n \in 1..Len(mutationQueue[w]),
         NEW p \in Chats, mutationQueue[w][n].path = p, NEW f \in mutationQueue[w][n].fields
  PROVE  Said(p, f) /\ f.from = w /\ mutationQueue[w][n] = CopyOf(p, f)
<1>1. EntryOK(w, n, mutationQueue[w][n])
  BY DEF ChatInv, QueuesOK
<1>2. Said(p, f) /\ f.from = w
  BY <1>1 DEF EntryOK
<1>3. PICK k \in Time : mutationQueue[w][n] = MergeInto(p, [key |-> k, from |-> w])
  BY OneCopy DEF ChatInv
<1>4. PICK g : g = [key |-> k, from |-> w]
  OBVIOUS
<1>5. f = g
  BY <1>3, <1>4, Carried
<1>6. [key |-> f.key, from |-> f.from] = g
  BY <1>4, <1>5
<1> QED  BY <1>2, <1>3, <1>4, <1>6 DEF CopyOf

LEMMA DiskIsSafe ==
  ASSUME TypeOK, ChatInv, OneMessageEach, QueuesInOrder, QueuedNotLost, NEW w \in User,
         NEW n \in 1..Len(mutationQueue[w]), n <= persisted[w],
         NEW p \in Chats, mutationQueue[w][n].path = p, NEW f \in mutationQueue[w][n].fields
  PROVE  Said(p, f) /\ f.from = w /\ Safe(p, f)
<1>1. Said(p, f) /\ f.from = w /\ mutationQueue[w][n] = CopyOf(p, f)
  BY WhatACopyIs
<1>2. mutationQueue[w][n] \notin AtRisk(w)
  BY DiskNotAtRisk
<1> QED  BY <1>1, <1>2 DEF Safe

\* The next write of a queue comes after all that was sent before it.
LEMMA CommitFollows ==
  ASSUME TypeOK, ChatInv, OneMessageEach, QueuesInOrder, QueuedNotLost, NEW u \in User,
         NEW p \in Chats, NEW n \in 1..Len(mutationQueue[u]), n = applied[u] + 1,
         n <= persisted[u], mutationQueue[u][n].path = p, NEW f \in mutationQueue[u][n].fields
  PROVE  Said(p, f) /\ Safe(p, f) /\ (f.from = p.peer => Follows(p, f, KeysOf(docs[p])))
<1>1. Said(p, f) /\ f.from = u /\ Safe(p, f)
  BY DiskIsSafe
<1>2. /\ p.owner # p.peer /\ p = Conversation(p.owner, p.peer)
      /\ \A m \in sent : About(p, m) /\ m.from = p.peer => m.to = p.owner
  BY SendersOf, ChatsParts
<1>3. ASSUME f.from = p.peer, NEW m \in sent, About(p, m), m.from = f.from, m.key < f.key
      PROVE  HasKey(p, m.key) \/ CopyLost(m, p)
  <2>1. m.from = u /\ m.to = p.owner /\ p = Conversation(m.to, m.from)
    BY <1>1, <1>2, <1>3
  <2>2. HasKey(p, m.key) \/ StillQueued(u, p, m.key) \/ CopyLost(m, p)
    BY <2>1 DEF ChatInv, NoMessageLost
  <2>3. ASSUME NEW i \in 1..Len(mutationQueue[u]), mutationQueue[u][i].path = p,
               NEW g \in mutationQueue[u][i].fields, g.key = m.key
        PROVE  HasKey(p, m.key)
    <3>1. n \in Nat /\ i \in Nat /\ applied[u] \in Nat
      <4>1. applied[u] \in Nat
        BY TypeParts DEF FsTypeOK
      <4> QED  BY <4>1
    <3>2. m.key \in Nat /\ f.key \in Nat
      <4>1. \E k \in sent : k.key = f.key
        BY <1>1 DEF Said
      <4> QED  BY <4>1, SentTypes
    <3>3. CASE i < n
      <4>1. i <= applied[u] /\ EntryOK(u, i, mutationQueue[u][i])
        BY <3>1, <3>3 DEF ChatInv, QueuesOK
      <4> QED  BY <2>3, <4>1 DEF EntryOK
    <3>4. CASE i = n
      <4>1. f = g
        BY <2>3, <3>4 DEF OneMessageEach, OneMessage
      <4> QED  BY <1>3, <2>3, <3>2, <4>1
    <3>5. CASE n < i
      <4>1. f.key < g.key
        BY <2>3, <3>5 DEF QueuesInOrder
      <4> QED  BY <1>3, <2>3, <3>2, <4>1
    <3> QED  BY <3>1, <3>3, <3>4, <3>5
  <2> QED  BY <2>2, <2>3 DEF StillQueued, WritesKey, KeysOf
<1> QED  BY <1>1, <1>3 DEF Follows, HasKey

LEMMA QueuesStayInOrder ==
  ASSUME TypeOK, ChatInv, QueuesInOrder, [Next]_vars
  PROVE  QueuesInOrder'
<1>1. Lemmas!FsTypeOK /\ FsTypeOK
  BY SameTypes, TypeParts
<1>2. CASE Lemmas!NetworkStep
  <2>1. ASSUME NEW w \in User, NEW i \in 1..Len(mutationQueue'[w]), NEW j \in 1..Len(mutationQueue'[w]), i < j
        PROVE  \E x, y \in 1..Len(mutationQueue[w]) :
                 /\ x < y /\ mutationQueue'[w][i] = mutationQueue[w][x]
                 /\ mutationQueue'[w][j] = mutationQueue[w][y]
    <3>1. CASE mutationQueue'[w] = mutationQueue[w]
      BY <2>1, <3>1
    <3>2. CASE Lemmas!Acknowledge(w)
      <4>1. PICK q \in Seq(Mutation) : q = mutationQueue[w]
        BY <1>1 DEF FsTypeOK
      <4>2. mutationQueue'[w] = Tail(q) /\ Len(q) > 0
        BY <1>1, <3>2, <4>1 DEF Lemmas!Acknowledge, FsTypeOK
      <4>3. /\ Len(q) \in Nat /\ Len(Tail(q)) = Len(q) - 1
            /\ \A k \in 1..Len(Tail(q)) : Tail(q)[k] = q[k + 1]
        BY <4>2
      <4>4. PICK t : t = Tail(q)
        OBVIOUS
      <4>5. i \in 1..Len(t) /\ j \in 1..Len(t)
        BY <2>1, <4>2, <4>4
      <4>6. i + 1 \in 1..Len(q) /\ j + 1 \in 1..Len(q) /\ i + 1 < j + 1
        BY <2>1, <4>3, <4>4, <4>5
      <4>7. t[i] = q[i + 1] /\ t[j] = q[j + 1]
        BY <4>3, <4>4, <4>5
      <4>8. PICK x \in 1..Len(q), y \in 1..Len(q) : x = i + 1 /\ y = j + 1
        BY <4>6
      <4>9. x < y /\ mutationQueue'[w][i] = q[x] /\ mutationQueue'[w][j] = q[y]
        BY <4>2, <4>4, <4>6, <4>7, <4>8
      <4> QED  BY <4>1, <4>9
    <3>3. mutationQueue'[w] = mutationQueue[w] \/ Lemmas!Acknowledge(w)
      BY <1>1, <1>2, SameTypes, Lemmas!NetworkQueues
    <3> QED  BY <3>1, <3>2, <3>3
  <2>2. ASSUME NEW w \in User, NEW i \in 1..Len(mutationQueue'[w]), NEW j \in 1..Len(mutationQueue'[w]),
               i < j, mutationQueue'[w][i].path \in Chats,
               mutationQueue'[w][i].path = mutationQueue'[w][j].path,
               NEW f \in mutationQueue'[w][i].fields, NEW g \in mutationQueue'[w][j].fields
        PROVE  f.key < g.key
    <3>1. PICK x \in 1..Len(mutationQueue[w]), y \in 1..Len(mutationQueue[w]) :
             /\ x < y /\ mutationQueue'[w][i] = mutationQueue[w][x]
             /\ mutationQueue'[w][j] = mutationQueue[w][y]
      BY <2>1, <2>2
    <3> QED  BY <2>2, <3>1 DEF QueuesInOrder
  <2> QED  BY <2>2 DEF QueuesInOrder
<1>3. ASSUME NEW u \in User, NEW ms \in Seq(Mutation), LocallyWrite(u, ms),
             \A i, j \in 1..Len(ms) : i < j => ms[i].path # ms[j].path,
             \A i \in 1..Len(ms) : ms[i].path \in Chats =>
               \A g \in ms[i].fields, n \in sent : n.from = u => n.key < g.key
      PROVE  QueuesInOrder'
  <2>1. ASSUME NEW w \in User, NEW i \in 1..Len(mutationQueue'[w])
        PROVE  \/ i \in 1..Len(mutationQueue[w]) /\ mutationQueue'[w][i] = mutationQueue[w][i]
               \/ /\ w = u /\ i - Len(mutationQueue[u]) \in 1..Len(ms) /\ i > Len(mutationQueue[u])
                  /\ mutationQueue'[w][i] = ms[i - Len(mutationQueue[u])]
    <3>1. Len(mutationQueue[u]) \in Nat
      BY <1>1 DEF FsTypeOK
    <3> QED  BY <1>1, <1>3, <3>1, QueueGrows
  <2>2. ASSUME NEW w \in User, NEW i \in 1..Len(mutationQueue'[w]), NEW j \in 1..Len(mutationQueue'[w]),
               i < j, mutationQueue'[w][i].path \in Chats,
               mutationQueue'[w][i].path = mutationQueue'[w][j].path,
               NEW f \in mutationQueue'[w][i].fields, NEW g \in mutationQueue'[w][j].fields
        PROVE  f.key < g.key
    <3>1. Len(mutationQueue[u]) \in Nat
      BY <1>1 DEF FsTypeOK
    <3>2. CASE j \in 1..Len(mutationQueue[w]) /\ mutationQueue'[w][j] = mutationQueue[w][j]
      <4>1. i \in 1..Len(mutationQueue[w]) /\ mutationQueue'[w][i] = mutationQueue[w][i]
        BY <2>1, <2>2, <3>1, <3>2
      <4> QED  BY <2>2, <3>2, <4>1 DEF QueuesInOrder
    <3>3. CASE /\ w = u /\ j - Len(mutationQueue[u]) \in 1..Len(ms) /\ j > Len(mutationQueue[u])
               /\ mutationQueue'[w][j] = ms[j - Len(mutationQueue[u])]
      <4>1. PICK b \in 1..Len(ms) : b = j - Len(mutationQueue[u]) /\ mutationQueue'[w][j] = ms[b]
        BY <3>3
      <4>2. CASE i \in 1..Len(mutationQueue[w]) /\ mutationQueue'[w][i] = mutationQueue[w][i]
        <5>1. EntryOK(u, i, mutationQueue[u][i])
          BY <3>3, <4>2 DEF ChatInv, QueuesOK
        <5>2. \E n \in sent : n.key = f.key /\ n.from = u
          BY <2>2, <3>3, <4>2, <5>1 DEF EntryOK, Said
        <5> QED  BY <1>3, <2>2, <4>1, <5>2
      <4>3. CASE /\ i - Len(mutationQueue[u]) \in 1..Len(ms)
                 /\ mutationQueue'[w][i] = ms[i - Len(mutationQueue[u])]
        <5>1. PICK a \in 1..Len(ms) : a = i - Len(mutationQueue[u]) /\ mutationQueue'[w][i] = ms[a]
          BY <4>3
        <5>2. a < b
          BY <2>2, <3>1, <4>1, <5>1
        <5> QED  BY <1>3, <2>2, <4>1, <5>1, <5>2
      <4> QED  BY <2>1, <3>3, <4>2, <4>3
    <3> QED  BY <2>1, <3>2, <3>3
  <2> QED  BY <2>2 DEF QueuesInOrder
<1>6. ASSUME NEW u \in User, Relaunch(u) PROVE QueuesInOrder'
  <2>1. \A w \in User : IsCut(w)
    BY <1>6, RelaunchIsKill, KillCuts
  <2>2. \A w \in User : \A i \in 1..Len(mutationQueue'[w]) :
          i \in 1..Len(mutationQueue[w]) /\ mutationQueue'[w][i] = mutationQueue[w][i]
    BY <2>1 DEF IsCut
  <2> QED  BY <2>2 DEF QueuesInOrder
<1>4. ASSUME NEW u \in User, NEW c \in User, OpenChat(u, c) PROVE QueuesInOrder'
  <2>1. PICK ms \in Seq(Mutation) : ms = CleanBuffer(u, c)
    BY CleanBufferType DEF TypeOK
  <2>2. Len(ms) = 1 /\ ms[1].path = Buffer(u)
    BY <2>1 DEF CleanBuffer
  <2>3. \A i \in 1..Len(ms) : ms[i].path \notin Chats
    BY <2>2, ChatsParts
  <2>4. \A i, j \in 1..Len(ms) : ~(i < j)
    BY <2>2
  <2> QED  BY <1>3, <1>4, <2>1, <2>3, <2>4 DEF OpenChat
<1>5. ASSUME NEW u \in User, NEW c \in User \ {u}, NEW t \in Clock[u], SendMessage(u, c, t)
      PROVE  QueuesInOrder'
  <2>1. PICK m \in Msg, ms \in Seq(Mutation), own \in Chats, far \in Chats :
           /\ t \in Time /\ m = [key |-> t, from |-> u] /\ m.key = t /\ m.from = u
           /\ own = Conversation(u, c) /\ far = Conversation(c, u)
           /\ own.owner = u /\ own.peer = c /\ far.owner = c /\ far.peer = u
           /\ LocallyWrite(u, ms) /\ Lemmas!LocallyWrite(u, ms)
           /\ Len(ms) = 3 /\ \A i \in 1..Len(ms) : ms[i].merge /\ ms[i].fields = {m}
           /\ ms[1].path = Buffer(c) /\ ms[2].path = own /\ ms[3].path = far
           /\ Buffer(c) \in ChatPath /\ Buffer(c) \notin Chats
    BY <1>5, MessageWrites
  <2>2. \A i \in 1..Len(ms) : i = 1 \/ i = 2 \/ i = 3
    BY <2>1
  <2>3. \A i, j \in 1..Len(ms) : i < j => ms[i].path # ms[j].path
    BY <2>1, <2>2
  <2>4. \A n \in sent : n.from = u => n.key < t
    BY <1>5 DEF SendMessage
  <2>5. \A i \in 1..Len(ms) : \A g \in ms[i].fields, n \in sent : n.from = u => n.key < g.key
    BY <2>1, <2>4
  <2> QED  BY <1>3, <2>1, <2>3, <2>5
<1> QED  BY <1>2, <1>4, <1>5, <1>6, NextSplits

\* What is lost is lost for good: no later write is the same.
LEMMA LostStays ==
  ASSUME TypeOK, ChatInv, OneMessageEach, QueuesInOrder, LostWasSent, QueuedNotLost, [Next]_vars
  PROVE  LostWasSent' /\ QueuedNotLost'
<1>1. FsTypeOK /\ Lemmas!FsTypeOK /\ SentInOrder
  BY SameTypes, TypeParts, NextSends
<1>2. ASSUME NEW w \in User, NEW e \in lost[w], e.path \in Chats, NEW f \in e.fields
      PROVE  \E n \in sent' : n.from = w /\ n.key = f.key
  <2>1. PICK n \in sent : n.from = w /\ n.key = f.key
    BY <1>2 DEF LostWasSent
  <2> QED  BY <1>1, <2>1 DEF SentInOrder
<1>3. ASSUME lost' = lost PROVE LostWasSent'
  BY <1>2, <1>3 DEF LostWasSent
<1>4. CASE Lemmas!NetworkStep /\ lost' = lost
  <2>1. ASSUME NEW w \in User, NEW i \in 1..Len(mutationQueue'[w]), mutationQueue'[w][i].path \in Chats
        PROVE  mutationQueue'[w][i] \notin lost[w]
    <3>1. PICK j \in 1..Len(mutationQueue[w]) : mutationQueue'[w][i] = mutationQueue[w][j]
      BY <1>1, <1>4, SameTypes, Lemmas!NetworkEntries
    <3> QED  BY <2>1, <3>1 DEF QueuedNotLost
  <2> QED  BY <1>3, <1>4, <2>1 DEF QueuedNotLost
<1>5. ASSUME NEW u \in User, Relaunch(u) PROVE LostWasSent' /\ QueuedNotLost'
  <2>1. Kill(u) /\ \A w \in User : IsCut(w)
    BY <1>5, RelaunchIsKill, KillCuts
  <2>2. /\ lost' = [lost EXCEPT ![u] = @ \cup CutOff(u)] /\ lost \in [User -> SUBSET Mutation]
        /\ \A w \in User \ {u} : mutationQueue'[w] = mutationQueue[w]
    BY <2>1, TypeParts DEF Kill, ScreenTypeOK, FsTypeOK
  <2>3. \A w \in User : lost'[w] = lost[w] \/ (w = u /\ lost'[w] = lost[w] \cup CutOff(w))
    BY <2>2
  <2>4. ASSUME NEW w \in User, NEW e \in CutOff(w), e.path \in Chats, NEW f \in e.fields
        PROVE  \E n \in sent' : n.from = w /\ n.key = f.key
    <3>1. PICK i \in 1..Len(mutationQueue[w]) : e = mutationQueue[w][i]
      BY <1>1, <2>4, CutOffParts
    <3>2. EntryOK(w, i, e)
      BY <3>1 DEF ChatInv, QueuesOK
    <3>3. PICK n \in sent : n.key = f.key /\ n.from = f.from /\ f.from = w
      BY <2>4, <3>2 DEF EntryOK, Said
    <3> QED  BY <1>1, <3>3 DEF SentInOrder
  <2>5. LostWasSent'
    <3>1. ASSUME NEW w \in User, NEW e \in lost'[w], e.path \in Chats, NEW f \in e.fields
          PROVE  \E n \in sent' : n.from = w /\ n.key = f.key
      <4>1. e \in lost[w] \/ e \in CutOff(w)
        BY <2>3, <3>1
      <4> QED  BY <1>2, <2>4, <3>1, <4>1
    <3> QED  BY <3>1 DEF LostWasSent
  <2>6. ASSUME NEW w \in User, NEW i \in 1..Len(mutationQueue'[w]), mutationQueue'[w][i].path \in Chats
        PROVE  mutationQueue'[w][i] \notin lost'[w]
    <3>1. PICK e : e = mutationQueue[w][i]
      OBVIOUS
    <3>2. i \in 1..Len(mutationQueue[w]) /\ mutationQueue'[w][i] = e /\ e.path \in Chats
      BY <2>1, <2>6, <3>1 DEF IsCut
    <3>3. e \notin lost[w]
      BY <3>1, <3>2 DEF QueuedNotLost
    <3>4. ASSUME w = u PROVE e \notin AtRisk(u)
      <4>1. PICK q \in Seq(Mutation) : q = mutationQueue[u]
        BY <1>1 DEF FsTypeOK
      <4>2. PICK k \in Nat : k = persisted[u] /\ k <= Len(q)
        BY <1>1, <4>1 DEF FsTypeOK
      <4>3. mutationQueue'[u] = SubSeq(q, 1, k)
        BY <1>1, <2>1, <4>1, <4>2 DEF Kill, OnDisk, FsTypeOK
      <4>4. Len(SubSeq(q, 1, k)) = k
        BY <4>2
      <4>5. i <= k
        BY <2>6, <3>4, <4>3, <4>4
      <4> QED  BY <3>1, <3>2, <3>4, <4>2, <4>5, DiskNotAtRisk
    <3>5. w = u => e \notin CutOff(u)
      BY <3>4 DEF AtRisk
    <3> QED  BY <2>3, <3>2, <3>3, <3>5
  <2> QED  BY <2>5, <2>6 DEF QueuedNotLost
<1>6. ASSUME NEW u \in User, NEW ms \in Seq(Mutation), LocallyWrite(u, ms), lost' = lost,
             \A j \in 1..Len(ms) : ms[j].path \in Chats =>
               \E f \in ms[j].fields : f.key \in Nat /\ \A n \in sent : n.from = u => n.key < f.key
      PROVE  LostWasSent' /\ QueuedNotLost'
  <2>1. ASSUME NEW j \in 1..Len(ms), ms[j].path \in Chats, ms[j] \in lost[u] PROVE FALSE
    <3>1. PICK f \in ms[j].fields : f.key \in Nat /\ \A n \in sent : n.from = u => n.key < f.key
      BY <1>6, <2>1
    <3>2. PICK n \in sent : n.from = u /\ n.key = f.key
      BY <2>1 DEF LostWasSent
    <3> QED  BY <3>1, <3>2
  <2>2. ASSUME NEW w \in User, NEW i \in 1..Len(mutationQueue'[w]), mutationQueue'[w][i].path \in Chats
        PROVE  mutationQueue'[w][i] \notin lost[w]
    <3>1. CASE i \in 1..Len(mutationQueue[w])
      <4>1. mutationQueue'[w][i] = mutationQueue[w][i]
        BY <1>1, <1>6, <3>1, QueueGrows
      <4> QED  BY <2>2, <3>1, <4>1 DEF QueuedNotLost
    <3>2. CASE i \notin 1..Len(mutationQueue[w])
      <4>1. /\ w = u /\ i - Len(mutationQueue[u]) \in 1..Len(ms)
            /\ mutationQueue'[u][i] = ms[i - Len(mutationQueue[u])]
        BY <1>1, <1>6, <3>2, QueueGrows
      <4> QED  BY <2>1, <2>2, <4>1
    <3> QED  BY <3>1, <3>2
  <2> QED  BY <1>3, <1>6, <2>2 DEF QueuedNotLost
<1>7. ASSUME NEW u \in User, NEW c \in User, OpenChat(u, c) PROVE LostWasSent' /\ QueuedNotLost'
  <2>1. PICK ms \in Seq(Mutation) : ms = CleanBuffer(u, c)
    BY CleanBufferType DEF TypeOK
  <2>2. LocallyWrite(u, ms) /\ lost' = lost
    BY <1>7, <2>1 DEF OpenChat
  <2>3. \A j \in 1..Len(ms) : ms[j].path = Buffer(u)
    BY <2>1 DEF CleanBuffer
  <2>4. \A j \in 1..Len(ms) : ms[j].path \notin Chats
    BY <2>3, ChatsParts
  <2> QED  BY <1>6, <2>2, <2>4
<1>8. ASSUME NEW u \in User, NEW c \in User \ {u}, NEW t \in Clock[u], SendMessage(u, c, t)
      PROVE  LostWasSent' /\ QueuedNotLost'
  <2>1. PICK m \in Msg, ms \in Seq(Mutation), own \in Chats, far \in Chats :
           /\ t \in Time /\ m = [key |-> t, from |-> u] /\ m.key = t /\ m.from = u
           /\ own = Conversation(u, c) /\ far = Conversation(c, u)
           /\ own.owner = u /\ own.peer = c /\ far.owner = c /\ far.peer = u
           /\ LocallyWrite(u, ms) /\ Lemmas!LocallyWrite(u, ms)
           /\ Len(ms) = 3 /\ \A i \in 1..Len(ms) : ms[i].merge /\ ms[i].fields = {m}
           /\ ms[1].path = Buffer(c) /\ ms[2].path = own /\ ms[3].path = far
           /\ Buffer(c) \in ChatPath /\ Buffer(c) \notin Chats
    BY <1>8, MessageWrites
  <2>2. lost' = lost /\ \A n \in sent : n.from = u => n.key < t
    BY <1>8 DEF SendMessage
  <2>3. \A j \in 1..Len(ms) : m \in ms[j].fields /\ m.key \in Nat
    BY <2>1 DEF Time
  <2> QED  BY <1>6, <2>1, <2>2, <2>3
<1> QED  BY <1>4, <1>5, <1>7, <1>8, NextSplits
-----------------------------------------------------------------------------
LEMMA SameApply ==
  \A e, doc : Lemmas!ApplyTo(e, doc) = ApplyTo(e, doc)
  BY DEF ApplyTo, Lemmas!ApplyTo, Overwrites, Lemmas!Overwrites

\* A document, or a cached one, that only sees sent and the clock go on.
LEMMA DocStays ==
  ASSUME TypeOK, TypeOK', [Next]_vars, NEW p \in Chats, NEW doc, PeersComplete(p, doc)
  PROVE  PeersComplete(p, doc)'
  BY PeersCompleteStays

LEMMA DocsStayInOrder ==
  ASSUME TypeOK, TypeOK', ChatInv, OneMessageEach, QueuesInOrder, QueuedNotLost, DocsInOrder,
         [Next]_vars, NEW p \in Chats
  PROVE  PeersComplete(p, docs'[p])
<1>1. PICK doc : doc = docs[p]
  OBVIOUS
<1>2. PeersComplete(p, doc) /\ p \in ChatPath
  BY <1>1, ChatsParts DEF DocsInOrder
<1>3. CASE Lemmas!NetworkStep
  <2>1. CASE docs'[p] = doc
    BY <1>2, <1>3, <2>1
  <2>2. ASSUME NEW w \in User, NEW n \in 1..Len(mutationQueue[w]), n = applied[w] + 1,
               Lemmas!Commit(w), mutationQueue[w][n].path = p, docs'[p] = Lemmas!ApplyTo(mutationQueue[w][n], docs[p])
        PROVE  PeersComplete(p, docs'[p])
    <3>1. PICK e : e = mutationQueue[w][n]
      OBVIOUS
    <3>2. e.merge
      <4>1. EntryOK(w, n, e)
        BY <3>1 DEF ChatInv, QueuesOK
      <4> QED  BY <2>2, <3>1, <4>1, ChatsParts DEF EntryOK
    <3>3. n <= persisted[w]
      <4>1. applied[w] \in Nat /\ persisted[w] \in Nat
        BY TypeParts DEF FsTypeOK
      <4> QED  BY <2>2, <4>1 DEF Lemmas!Commit
    <3>5. \A f \in e.fields : Said(p, f) /\ Safe(p, f)
                              /\ (f.from = p.peer => Follows(p, f, KeysOf(doc)))
      BY <1>1, <2>2, <3>1, <3>3, CommitFollows
    <3>4. PeersComplete(p, ApplyTo(e, doc))
      BY <1>2, <3>2, <3>5, MergeFollows
    <3> QED  BY <1>1, <2>2, <3>1, <3>4, SameApply
  <2>3. \/ docs'[p] = doc
        \/ \E w \in User : \E n \in 1..Len(mutationQueue[w]) :
             /\ Lemmas!Commit(w) /\ n = applied[w] + 1
             /\ mutationQueue[w][n].path = p
             /\ docs'[p] = Lemmas!ApplyTo(mutationQueue[w][n], docs[p])
    BY <1>1, <1>2, <1>3, SameTypes, TypeParts, Lemmas!NetworkDocs
  <2>4. PeersComplete(p, docs'[p])
    BY <2>1, <2>2, <2>3
  <2> QED  BY <1>3, <2>4
<1>4. CASE docs' = docs
  BY <1>1, <1>2, <1>4
<1>5. ASSUME NEW u \in User, NEW ms, LocallyWrite(u, ms) PROVE docs' = docs
  BY <1>5 DEF LocallyWrite
<1>6. ASSUME NEW u \in User, NEW c \in User, OpenChat(u, c) PROVE docs' = docs
  BY <1>5, <1>6 DEF OpenChat
<1>7. ASSUME NEW u \in User, NEW c \in User, NEW t \in Clock[u], SendMessage(u, c, t) PROVE docs' = docs
  BY <1>5, <1>7 DEF SendMessage
<1>8. ASSUME NEW u \in User, Relaunch(u) PROVE docs' = docs
  BY <1>8 DEF Relaunch, FreshProcess
<1> QED  BY <1>3, <1>4, <1>6, <1>7, <1>8, NextSplits

LEMMA CachesStayInOrder ==
  ASSUME TypeOK, TypeOK', ChatInv, OneMessageEach, QueuesInOrder, QueuedNotLost, DocsInOrder,
         CachesInOrder, [Next]_vars, NEW p \in Chats
  PROVE  PeersComplete(p, remoteDocs'[p.owner][p])
<1>1. PICK u \in User : u = p.owner
  BY ChatsParts
<1>2. PICK doc : doc = remoteDocs[u][p]
  OBVIOUS
<1>3. PeersComplete(p, doc) /\ p \in ChatPath
  BY <1>1, <1>2, ChatsParts DEF CachesInOrder
<1>4. CASE Lemmas!NetworkStep
  <2>1. CASE remoteDocs'[u][p] = doc
    BY <1>1, <1>3, <2>1
  <2>2. CASE remoteDocs'[u][p] = docs[p]
    BY <1>1, <2>2 DEF DocsInOrder
  <2>3. CASE /\ Lemmas!Acknowledge(u) /\ mutationQueue[u][1].path = p
             /\ remoteDocs'[u][p] = Lemmas!ApplyTo(mutationQueue[u][1], remoteDocs[u][p])
    <3>1. PICK e : e = mutationQueue[u][1]
      OBVIOUS
    <3>2. EntryOK(u, 1, e) /\ 1 \in 1..Len(mutationQueue[u]) /\ 1 <= persisted[u]
      <4>1. applied[u] > 0
        BY <2>3 DEF Lemmas!Acknowledge
      <4>2. 1 \in 1..Len(mutationQueue[u]) /\ 1 <= persisted[u]
        BY <4>1, TypeParts, FirstOnDisk
      <4> QED  BY <3>1, <4>2 DEF ChatInv, QueuesOK
    <3>3. e.merge /\ e.path = p
      BY <2>3, <3>1, <3>2, ChatsParts DEF EntryOK
    <3>4. ASSUME NEW f \in e.fields PROVE Said(p, f) /\ Safe(p, f) /\ f.from # p.peer
      <4>1. Said(p, f) /\ f.from = u /\ Safe(p, f)
        BY <2>3, <3>1, <3>2, DiskIsSafe
      <4> QED  BY <1>1, <4>1, ChatsParts
    <3>5. PeersComplete(p, ApplyTo(e, doc))
      BY <1>3, <3>3, <3>4, MergeFollows
    <3> QED  BY <1>1, <1>2, <2>3, <3>1, <3>5, SameApply
  <2> QED  BY <1>2, <1>3, <1>4, <2>1, <2>2, <2>3, SameTypes, TypeParts, Lemmas!NetworkCaches
<1>5. CASE remoteDocs' = remoteDocs
  BY <1>1, <1>2, <1>3, <1>5
<1>6. ASSUME NEW w \in User, NEW ms, LocallyWrite(w, ms) PROVE remoteDocs' = remoteDocs
  BY <1>6 DEF LocallyWrite
<1>7. ASSUME NEW w \in User, NEW c \in User, OpenChat(w, c) PROVE remoteDocs' = remoteDocs
  BY <1>6, <1>7 DEF OpenChat
<1>8. ASSUME NEW w \in User, NEW c \in User, NEW t \in Clock[w], SendMessage(w, c, t)
      PROVE  remoteDocs' = remoteDocs
  BY <1>6, <1>8 DEF SendMessage
<1>9. ASSUME NEW w \in User, Relaunch(w) PROVE remoteDocs' = remoteDocs
  BY <1>9 DEF Relaunch, FreshProcess
<1> QED  BY <1>4, <1>5, <1>7, <1>8, <1>9, NextSplits

\* What is sent is seen at once by its sender, and from then on.
LEMMA SentIsSeen ==
  ASSUME TypeOK, TypeOK', KeysInv, NEW u \in User, NEW c \in User \ {u}, NEW t \in Clock[u],
         SendMessage(u, c, t), [Next]_vars
  PROVE  t \in KeysOf(ViewNext(u, Conversation(u, c)))
<1>1. PICK m \in Msg, ms \in Seq(Mutation), own \in Chats, far \in Chats :
           /\ t \in Time /\ m = [key |-> t, from |-> u] /\ m.key = t /\ m.from = u
           /\ own = Conversation(u, c) /\ far = Conversation(c, u)
           /\ own.owner = u /\ own.peer = c /\ far.owner = c /\ far.peer = u
           /\ LocallyWrite(u, ms) /\ Lemmas!LocallyWrite(u, ms)
           /\ Len(ms) = 3 /\ \A i \in 1..Len(ms) : ms[i].merge /\ ms[i].fields = {m}
           /\ ms[1].path = Buffer(c) /\ ms[2].path = own /\ ms[3].path = far
           /\ Buffer(c) \in ChatPath /\ Buffer(c) \notin Chats
  BY MessageWrites
<1>2. PICK q : q = mutationQueue'[u]
  OBVIOUS
<1>3. PICK doc : doc = remoteDocs'[u][own]
  OBVIOUS
<1>4. own \in ChatPath /\ PermanentKeys[own] = Time
  BY ChatsParts, KeysOfPath
<1>5. doc \in Lemmas!Document /\ q \in Seq(Lemmas!Mutation)
  <2>1. doc \in Document /\ q \in Seq(Mutation)
    BY <1>2, <1>3, <1>4, TypeParts DEF FsTypeOK
  <2> QED  BY <2>1, SameTypes
<1>6. \A i \in 1..Len(q) : Lemmas!KeepsKeys(q[i], PermanentKeys)
  <2>1. (Lemmas!KeysKept(PermanentKeys))'
    BY NextKeys DEF KeysInv
  <2>2. /\ Lemmas!FirestoreAssumption
        /\ \A w \in User : \A i \in 1..Len(mutationQueue'[w]) :
             Lemmas!KeepsKeys(mutationQueue'[w][i], PermanentKeys)
    BY <2>1, SameTypes, Lemmas!NextKeysKept
  <2> QED  BY <1>2, <2>2
<1>7. PICK i \in 1..Len(q) : q[i].path = own /\ q[i].fields = {m}
  <2>1. 2 \in 1..Len(ms)
    BY <1>1
  <2>2. /\ Len(mutationQueue[u]) + 2 \in 1..Len(mutationQueue'[u])
        /\ mutationQueue'[u][Len(mutationQueue[u]) + 2] = ms[2]
    BY <1>1, <2>1, QueueGrows, TypeParts
  <2> QED  BY <1>1, <1>2, <2>1, <2>2
<1>8. Lemmas!Has(q[i].fields, t)
  BY <1>1, <1>7 DEF Lemmas!Has
<1>9. Lemmas!Has(Lemmas!LocalView(doc, q, own), t)
  <2>1. t \in PermanentKeys[own] /\ Lemmas!FirestoreAssumption
    BY <1>1, <1>4, SameTypes
  <2> QED  BY <1>5, <1>6, <1>7, <1>8, <2>1, Lemmas!KeysSeen
<1>10. ViewNext(u, own) = Lemmas!LocalView(doc, q, own)
  BY <1>2, <1>3, SameView DEF ViewNext
<1> QED  BY <1>1, <1>9, <1>10 DEF Lemmas!Has, KeysOf

\* What a kill takes out of its sender's view is lost.
LEMMA KilledSeen ==
  ASSUME TypeOK, TypeOK', KeysInv, KeysInv', ChatInv, OneMessageEach, NEW w \in User, Relaunch(w),
         NEW p \in Chats, NEW k \in Time, k \in KeysOf(View(w, p))
  PROVE  \/ k \in KeysOf(ViewNext(w, p))
         \/ MergeInto(p, [key |-> k, from |-> w]) \in lost'[w]
<1>1. PICK q : q = mutationQueue[w]
  OBVIOUS
<1>2. PICK next : next = mutationQueue'[w]
  OBVIOUS
<1>3. PICK doc : doc = remoteDocs[w][p] /\ doc = remoteDocs'[w][p]
  BY DEF Relaunch, FreshProcess
<1>4. /\ doc \in Lemmas!Document /\ Lemmas!FirestoreAssumption
      /\ q \in Seq(Lemmas!Mutation) /\ next \in Seq(Lemmas!Mutation)
  <2>1. doc \in Document /\ q \in Seq(Mutation) /\ next \in Seq(Mutation)
    BY <1>1, <1>2, <1>3, ChatsParts, TypeParts DEF FsTypeOK
  <2> QED  BY <2>1, SameTypes
<1>5. /\ \A i \in 1..Len(q) : Lemmas!KeepsKeys(q[i], PermanentKeys)
      /\ \A i \in 1..Len(next) : Lemmas!KeepsKeys(next[i], PermanentKeys)
  <2>1. (Lemmas!KeysKept(PermanentKeys))' /\ Lemmas!FirestoreAssumption
    BY SameTypes DEF KeysInv
  <2>2. \A d \in User : \A i \in 1..Len(mutationQueue'[d]) :
          Lemmas!KeepsKeys(mutationQueue'[d][i], PermanentKeys)
    BY <2>1, Lemmas!NextKeysKept
  <2> QED  BY <1>1, <1>2, <2>2 DEF KeysInv, Lemmas!KeysKept
<1>6. k \in PermanentKeys[p]
  BY KeysOfPath
<1>7. View(w, p) = Lemmas!LocalView(doc, q, p) /\ ViewNext(w, p) = Lemmas!LocalView(doc, next, p)
  BY <1>1, <1>2, <1>3, SameView DEF View, ViewNext
<1>8. IsCut(w)
  BY RelaunchIsKill, KillCuts
<1>9. Lemmas!Has(doc, k) \/ \E i \in 1..Len(q) : q[i].path = p /\ Lemmas!Has(q[i].fields, k)
  <2>1. Lemmas!Has(Lemmas!LocalView(doc, q, p), k)
    BY <1>7 DEF Lemmas!Has, KeysOf
  <2> QED  BY <1>4, <1>5, <1>6, <2>1, Lemmas!KeysSeen
<1>10. ASSUME \/ Lemmas!Has(doc, k)
              \/ \E i \in 1..Len(next) : next[i].path = p /\ Lemmas!Has(next[i].fields, k)
       PROVE  k \in KeysOf(ViewNext(w, p))
  <2>1. Lemmas!Has(Lemmas!LocalView(doc, next, p), k)
    BY <1>4, <1>5, <1>6, <1>10, Lemmas!KeysSeen
  <2> QED  BY <1>7, <2>1 DEF Lemmas!Has, KeysOf
<1>11. ASSUME NEW i \in 1..Len(q), q[i].path = p, Lemmas!Has(q[i].fields, k)
       PROVE  \/ \E j \in 1..Len(next) : next[j].path = p /\ Lemmas!Has(next[j].fields, k)
              \/ MergeInto(p, [key |-> k, from |-> w]) \in lost'[w]
  <2>1. CASE i \in 1..Len(next)
    <3>1. next[i] = q[i]
      BY <1>1, <1>2, <1>8, <2>1 DEF IsCut
    <3> QED  BY <1>11, <2>1, <3>1
  <2>2. CASE q[i] \in lost'[w]
    <3>1. PICK f \in q[i].fields : f.key = k
      BY <1>11 DEF Lemmas!Has
    <3>2. f.from = w /\ q[i] = CopyOf(p, f)
      BY <1>1, <1>11, <3>1, WhatACopyIs
    <3> QED  BY <2>2, <3>1, <3>2 DEF CopyOf
  <2> QED  BY <1>1, <1>2, <1>8, <2>1, <2>2 DEF IsCut
<1> QED  BY <1>9, <1>10, <1>11

LEMMA OwnStaysSeen ==
  ASSUME TypeOK, TypeOK', KeysInv, ChatInv, OneMessageEach, OwnSeen, [Next]_vars
  PROVE  OwnSeen'
<1>1. ASSUME NEW p \in Chats, NEW m \in sent', m.from = p.owner, m.to = p.peer
      PROVE  m.key \in KeysOf(ViewNext(p.owner, p)) \/ CopyLost(m, p)'
  <2>1. PICK w \in User : w = p.owner
    BY ChatsParts
  <2>2. CASE m \in sent
    <3>1. m.key \in KeysOf(View(w, p)) \/ CopyLost(m, p)
      BY <1>1, <2>1, <2>2 DEF OwnSeen
    <3>2. CASE CopyLost(m, p)
      BY <1>1, <2>1, <3>2, LostStaysLost
    <3>3. CASE ~Relaunch(w) /\ m.key \in KeysOf(View(w, p))
      BY <2>1, <3>3, TranscriptsGrow
    <3>4. CASE Relaunch(w) /\ m.key \in KeysOf(View(w, p))
      <4>1. m.key \in Time /\ KeysInv'
        BY <2>2, NextKeys DEF TypeOK
      <4>2. \/ m.key \in KeysOf(ViewNext(w, p))
            \/ MergeInto(p, [key |-> m.key, from |-> w]) \in lost'[w]
        BY <3>4, <4>1, KilledSeen
      <4>3. CopyLost(m, p)' <=> MergeInto(p, [key |-> m.key, from |-> w]) \in lost'[w]
        BY <1>1, <2>1 DEF CopyLost, MergeInto
      <4> QED  BY <2>1, <4>2, <4>3
    <3> QED  BY <3>1, <3>2, <3>3, <3>4
  <2>3. ASSUME NEW u \in User, NEW c \in User \ {u}, NEW t \in Clock[u], SendMessage(u, c, t), m \notin sent
        PROVE  m.key \in KeysOf(ViewNext(p.owner, p))
    <3>1. m = [key |-> t, from |-> u, to |-> c]
      BY <2>3 DEF SendMessage
    <3>2. m.key = t /\ p.owner = u /\ p.peer = c
      BY <1>1, <3>1
    <3>3. p = Conversation(u, c)
      BY <3>2, ChatsParts
    <3> QED  BY <2>3, <3>2, <3>3, SentIsSeen
  <2>4. ASSUME NEW u \in User, NEW c \in User, OpenChat(u, c) PROVE sent' = sent
    BY <2>4 DEF OpenChat
  <2> QED  BY <2>2, <2>3, <2>4, NextSplits
<1>2. \A p : View(p.owner, p)' = ViewNext(p.owner, p)
  BY NextView
<1>3. ASSUME NEW p \in Chats, NEW m \in sent', m.from = p.owner, m.to = p.peer
      PROVE  (m.key \in KeysOf(View(p.owner, p)) \/ CopyLost(m, p))'
  BY <1>1, <1>2, <1>3 DEF KeysOf
<1> QED  BY <1>3 DEF OwnSeen

\* The conversation as its owner's device sees it.
LEMMA ViewInOrder ==
  ASSUME TypeOK, ChatInv, OneMessageEach, KeysInv, QueuedNotLost, CachesInOrder, OwnSeen,
         NEW p \in Chats
  PROVE  Complete(p, View(p.owner, p), KeysOf(View(p.owner, p)))
<1>1. PICK u \in User : u = p.owner
  BY ChatsParts
<1>2. PICK doc : doc = remoteDocs[u][p]
  OBVIOUS
<1>3. PICK q : q = mutationQueue[u]
  OBVIOUS
<1>4. PICK V : V = View(u, p)
  OBVIOUS
<1>5. doc \in Lemmas!Document /\ q \in Seq(Lemmas!Mutation) /\ Lemmas!FirestoreAssumption
  <2>1. doc \in Document /\ q \in Seq(Mutation)
    BY <1>2, <1>3, ChatsParts, TypeParts DEF FsTypeOK
  <2> QED  BY <2>1, SameTypes
<1>6. V = Lemmas!LocalView(doc, q, p)
  BY <1>2, <1>3, <1>4, SameView DEF View
<1>7. ASSUME NEW k \in KeysOf(doc), k \in Time PROVE k \in KeysOf(V)
  <2>1. k \in PermanentKeys[p] /\ Lemmas!Has(doc, k)
    BY <1>7, KeysOfPath DEF KeysOf, Lemmas!Has
  <2>2. \A i \in 1..Len(q) : Lemmas!KeepsKeys(q[i], PermanentKeys)
    BY <1>3 DEF KeysInv, Lemmas!KeysKept
  <2>3. Lemmas!Has(Lemmas!LocalView(doc, q, p), k)
    BY <1>5, <2>1, <2>2, Lemmas!KeysSeen
  <2> QED  BY <1>6, <2>3 DEF Lemmas!Has, KeysOf
<1>8. \A m \in sent : About(p, m) /\ m.from = u => m.key \in KeysOf(V) \/ CopyLost(m, p)
  BY <1>1, <1>4, SendersOf DEF OwnSeen, About
<1>9. ASSUME NEW f \in V PROVE Said(p, f) /\ Real(p, f) /\ Follows(p, f, KeysOf(V))
  <2>1. CASE f \in doc
    <3>1. Said(p, f) /\ Safe(p, f) /\ (f.from = p.peer => Follows(p, f, KeysOf(doc)))
      BY <1>1, <1>2, <2>1 DEF CachesInOrder, PeersComplete
    <3>2. \A m \in sent : m.key \in Time
      BY DEF TypeOK
    <3>3. ASSUME f.from = p.peer PROVE Follows(p, f, KeysOf(V))
      BY <1>7, <3>1, <3>2, <3>3 DEF Follows
    <3>4. ASSUME f.from = u PROVE Follows(p, f, KeysOf(V))
      BY <1>8, <3>1, <3>4 DEF Follows
    <3>5. Real(p, f)
      BY <3>1 DEF Real, Safe, AtRisk, CopyOf, CopyLost
    <3>6. Follows(p, f, KeysOf(V))
      BY <1>1, <3>1, <3>3, <3>4, SendersOf
    <3> QED  BY <3>1, <3>5, <3>6
  <2>2. ASSUME NEW i \in 1..Len(q), q[i].path = p, f \in q[i].fields
        PROVE  Said(p, f) /\ Real(p, f) /\ Follows(p, f, KeysOf(V))
    <3>1. Said(p, f) /\ f.from = u /\ q[i] = CopyOf(p, f)
      BY <1>3, <2>2, WhatACopyIs
    <3>2. q[i] \notin lost[u]
      BY <1>3, <2>2 DEF QueuedNotLost
    <3>3. Real(p, f)
      BY <1>1, <3>1, <3>2 DEF Real, CopyOf, CopyLost
    <3> QED  BY <1>8, <3>1, <3>3 DEF Follows
  <2> QED  BY <1>5, <1>6, <2>1, <2>2, Lemmas!InView
<1> QED  BY <1>1, <1>4, <1>9 DEF Complete
-----------------------------------------------------------------------------
\* Callbacks are added to a main queue, with this snapshot or for other chats.
LEMMA SnapsAdded ==
  ASSUME NEW q \in Seq(Callback), NEW r \in Seq(Callback), NEW c, NEW S,
         \A i \in 1..Len(r) : r[i].chat = c => r[i].snap = S
  PROVE  Snaps(q \o r, c) \subseteq Snaps(q, c) \cup {S}
<1>1. PICK s : s = q \o r
  OBVIOUS
<1>2. Joined(q, r, s, c)
  BY <1>1, WaitingConcat
<1>3. ASSUME NEW i \in Waiting(s, c) PROVE s[i].snap \in Snaps(q, c) \cup {S}
  <2>1. CASE i \in Waiting(q, c)
    BY <1>2, <2>1 DEF Joined, Snaps
  <2>2. ASSUME i - Len(q) \in Waiting(r, c), i = Len(q) + (i - Len(q))
        PROVE  s[i].snap = S
    <3>1. s[i] = r[i - Len(q)]
      BY <1>2, <2>2 DEF Joined
    <3> QED  BY <2>2, <3>1 DEF Waiting
  <2> QED  BY <1>2, <2>1, <2>2 DEF Joined
<1> QED  BY <1>1, <1>3 DEF Snaps

LEMMA SnapsTail ==
  ASSUME NEW q \in Seq(Callback), Len(q) > 0, NEW c
  PROVE  Snaps(Tail(q), c) \subseteq Snaps(q, c)
<1>1. PICK t : t = Tail(q)
  OBVIOUS
<1>2. Len(t) = Len(q) - 1 /\ Len(q) \in Nat /\ \A i \in 1..Len(t) : t[i] = q[i + 1]
  BY <1>1
<1>3. ASSUME NEW i \in Waiting(t, c) PROVE t[i].snap \in Snaps(q, c)
  <2>1. i \in 1..Len(t) /\ t[i].chat = c
    BY <1>3 DEF Waiting
  <2>2. PICK j \in 1..Len(q) : j = i + 1
    BY <1>2, <2>1
  <2>3. t[i] = q[j]
    BY <1>2, <2>1, <2>2
  <2> QED  BY <2>1, <2>2, <2>3 DEF Snaps, Waiting
<1> QED  BY <1>1, <1>3 DEF Snaps

\* Every snapshot of a conversation is one its device has seen.
LEMMA SnapsMove ==
  ASSUME TypeOK, TypeOK', [Next]_vars, NEW u \in User, NEW c \in User \ {u}
  PROVE  Snaps(mainQueue'[u], c) \subseteq
           Snaps(mainQueue[u], c) \cup {ViewNext(u, Conversation(u, c))}
<1>1. PICK own \in ChatPath : own = Conversation(u, c) /\ own.owner = u /\ own # Buffer(u)
  BY Paths, ConversationParts
<1>2. PICK V : V = ViewNext(u, own)
  OBVIOUS
<1>3. PICK q \in Seq(Callback) : q = mainQueue[u]
  BY DEF TypeOK
<1>4. ASSUME NEW r \in Seq(Callback), \A i \in 1..Len(r) : r[i].chat = c => r[i].snap = V,
             mainQueue'[u] = q \o r
      PROVE  Snaps(mainQueue'[u], c) \subseteq Snaps(q, c) \cup {V}
  BY <1>4, SnapsAdded
<1>5. ASSUME NEW p \in ChatPath
      PROVE  \E r \in Seq(Callback) : /\ r = ViewCallbacks(u, p)
                                      /\ \A i \in 1..Len(r) : r[i].chat = c => r[i].snap = V
  <2>1. PICK r \in Seq(Callback) :
           /\ r = ViewCallbacks(u, p)
           /\ \/ ViewNext(u, p) = View(u, p) /\ r = << >>
              \/ /\ ViewNext(u, p) # View(u, p)
                 /\ ListenerCount(u, p) \in Nat /\ Len(r) = ListenerCount(u, p)
                 /\ \A i \in 1..Len(r) : /\ r[i].chat = p.peer /\ r[i].vc = i
                                         /\ r[i].snap = ViewNext(u, p)
    BY HeardOf
  <2>2. ASSUME NEW i \in 1..Len(r), r[i].chat = c PROVE r[i].snap = V
    <3>1. /\ ListenerCount(u, p) \in Nat /\ Len(r) = ListenerCount(u, p)
          /\ r[i].chat = p.peer /\ r[i].snap = ViewNext(u, p)
      BY <2>1, <2>2
    <3>2. p.peer = c /\ ListenerCount(u, p) # 0
      BY <2>2, <3>1
    <3>3. p # Buffer(u)
      BY <3>2 DEF Buffer
    <3>4. p.owner = u
      BY <3>2, <3>3 DEF ListenerCount
    <3>5. p = own
      BY <1>1, <3>2, <3>4, Paths
    <3> QED  BY <1>2, <3>1, <3>5
  <2> QED  BY <2>1, <2>2
<1>6. CASE Quiet(u)
  BY <1>1, <1>2, <1>3, <1>6 DEF Quiet
<1>7. ASSUME NEW p \in ChatPath, Told(u, p) PROVE Snaps(mainQueue'[u], c) \subseteq Snaps(q, c) \cup {V}
  BY <1>3, <1>4, <1>5, <1>7 DEF Told
<1>8. ASSUME NEW d \in User, OpenChat(u, d)
      PROVE  Snaps(mainQueue'[u], c) \subseteq Snaps(q, c) \cup {V}
  <2>1. V = View(u, own)
    <3>1. PICK ms \in Seq(Mutation) : ms = CleanBuffer(u, d)
      BY CleanBufferType DEF TypeOK
    <3>2. ASSUME NEW i \in 1..Len(ms) PROVE ms[i].path # own
      <4>1. ms[i].path = Buffer(u)
        BY <3>1 DEF CleanBuffer
      <4> QED  BY <1>1, <4>1
    <3> QED  BY <1>2, <1>8, <3>1, <3>2, TypeParts, WriteMoves DEF OpenChat
  <2>2. PICK b \in ChatPath : b = Buffer(u)
    BY Paths
  <2>3. PICK r \in Seq(Callback) : /\ r = ViewCallbacks(u, b)
                                   /\ \A i \in 1..Len(r) : r[i].chat = c => r[i].snap = V
    BY <1>5
  <2>4. PICK e : e = [chat |-> d, vc |-> Len(listeners[u][d]) + 1, snap |-> View(u, Conversation(u, d))]
    OBVIOUS
  <2>5. PICK o : o = IF View(u, Conversation(u, d)) = {} THEN << >> ELSE <<e>>
    OBVIOUS
  <2>6. d # u /\ mainQueue'[u] = q \o (r \o o)
    <3>1. Enqueue(u, r \o o)
      BY <1>8, <2>2, <2>3, <2>4, <2>5 DEF OpenChat
    <3> QED  BY <1>3, <1>8, <3>1, Enqueued DEF OpenChat
  <2>7. e \in Callback /\ e.chat = d /\ e.snap = View(u, Conversation(u, d))
    <3>1. Len(listeners[u][d]) + 1 \in Nat
      BY ControllersType DEF TypeOK
    <3>2. View(u, Conversation(u, d)) \in Document
      <4>1. Conversation(u, d) \in ChatPath
        BY <2>6, Paths
      <4> QED  BY <4>1, ViewType, TypeParts DEF FsTypeOK, View
    <3> QED  BY <2>4, <3>1, <3>2 DEF Callback
  <2>8. PICK one \in Seq(Callback) : one = <<e>> /\ Len(one) = 1 /\ one[1] = e
    BY <2>7, OneCallback
  <2>9. o \in Seq(Callback) /\ \A i \in 1..Len(o) : o[i].chat = c => o[i].snap = V
    <3>1. CASE o = << >>
      BY <3>1
    <3>2. CASE o = one
      BY <1>1, <2>1, <2>7, <2>8, <3>2
    <3> QED  BY <2>5, <2>8, <3>1, <3>2
  <2>10. PICK s : s = q \o r /\ s \in Seq(Callback)
    <3>1. q \o r \in Seq(Callback)
      OBVIOUS
    <3> QED  BY <3>1
  <2>11. mainQueue'[u] = s \o o
    BY <2>3, <2>6, <2>9, <2>10
  <2>12. Snaps(s, c) \subseteq Snaps(q, c) \cup {V}
    BY <2>3, <2>10, SnapsAdded
  <2>13. Snaps(s \o o, c) \subseteq Snaps(s, c) \cup {V}
    <3>1. PICK last \in Seq(Callback) : last = o
      BY <2>9
    <3>2. \A i \in 1..Len(last) : last[i].chat = c => last[i].snap = V
      BY <2>9, <3>1
    <3>3. Snaps(s \o last, c) \subseteq Snaps(s, c) \cup {V}
      BY <2>10, <3>2, SnapsAdded
    <3> QED  BY <3>1, <3>3
  <2> QED  BY <2>11, <2>12, <2>13
<1>9. CASE Back(u)
  <2>1. PICK e : e = [chat |-> u, vc |-> recents[u] + 1, snap |-> View(u, Buffer(u))]
    OBVIOUS
  <2>2. e \in Callback /\ e.chat = u
    <3>1. View(u, Buffer(u)) \in Document
      <4>1. Buffer(u) \in ChatPath
        BY Paths
      <4> QED  BY <4>1, ViewType, TypeParts DEF FsTypeOK, View
    <3>2. recents[u] \in Nat
      BY TypeParts DEF ScreenTypeOK
    <3> QED  BY <2>1, <3>1, <3>2 DEF Callback
  <2>3. PICK r \in Seq(Callback) : r = <<e>> /\ Len(r) = 1 /\ r[1] = e
    BY <2>2, OneCallback
  <2>4. mainQueue'[u] = q \o r
    <3>1. Enqueue(u, r)
      BY <1>9, <2>1, <2>3 DEF Back
    <3> QED  BY <1>3, <3>1, Enqueued
  <2>5. \A i \in 1..Len(r) : r[i].chat = c => r[i].snap = V
    BY <2>2, <2>3
  <2> QED  BY <1>1, <1>2, <1>3, <1>4, <2>4, <2>5
<1>10. CASE BufferCallback(u) \/ ConversationCallback(u)
  <2>1. q # << >> /\ mainQueue' = [mainQueue EXCEPT ![u] = Tail(@)]
    BY <1>3, <1>10 DEF BufferCallback, ConversationCallback
  <2>2. Len(q) > 0 /\ mainQueue'[u] = Tail(q)
    BY <1>3, <2>1 DEF TypeOK
  <2> QED  BY <1>3, <2>2, SnapsTail
<1>11. CASE Relaunch(u)
  <2>1. PICK r : r = Callbacks(Buffer(u), 1, ViewNext(u, Buffer(u)))
    OBVIOUS
  <2>2. r \in Seq(Callback) /\ Len(r) = 1 /\ r[1].chat = u
    BY <1>11, <2>1, KillMoves, FirstCallback
  <2>3. mainQueue'[u] = r
    BY <1>11, <2>1, KillMoves
  <2>4. \A i \in 1..Len(r) : r[i].chat # c
    BY <2>2
  <2> QED  BY <2>3, <2>4 DEF Snaps, Waiting
<1> QED  BY <1>1, <1>2, <1>3, <1>6, <1>7, <1>8, <1>9, <1>10, <1>11, EachHears
-----------------------------------------------------------------------------
InSendingOrder(rows) ==
  \A i, j \in DOMAIN rows : i < j => /\ rows[i].key # rows[j].key
                                     /\ rows[i].from = rows[j].from => rows[i].key < rows[j].key

LEMMA MembersOf ==
  ASSUME NEW s \in Seq(Msg)
  PROVE  /\ DOMAIN s = 1..Len(s) /\ Len(s) \in Nat /\ ToSet(s) \in SUBSET Msg
         /\ \A i \in 1..Len(s) : s[i] \in ToSet(s) /\ s[i].key \in KeysOf(ToSet(s))
                                 /\ s[i].key \in Nat
<1>1. \A i \in 1..Len(s) : s[i] \in Msg
  OBVIOUS
<1>2. \A m \in Msg : m.key \in Nat
  BY DEF Msg, Time
<1> QED  BY <1>1, <1>2 DEF ToSet, KeysOf

\* A row that is new has been sent after every row of its sender: the
\* messages before it are all there.
LEMMA NewComesLater ==
  ASSUME TypeOK, NEW p, NEW F, NEW K, Complete(p, F, K), NEW n \in F, n.key \in K, n.key \in Nat,
         NEW m, m.key \in Nat, Said(p, m), m.from = n.from, m.key \notin K, ~CopyLost(m, p)
  PROVE  n.key < m.key
<1>1. PICK k \in sent : k.key = m.key /\ k.from = m.from /\ About(p, k)
  BY DEF Said, About
<1>2. Follows(p, n, K)
  BY DEF Complete
<1>3. ~(m.key < n.key)
  <2>1. ~CopyLost(k, p)
    BY <1>1 DEF CopyLost
  <2> QED  BY <1>1, <1>2, <2>1 DEF Follows
<1>4. m.key # n.key
  OBVIOUS
<1> QED  BY <1>3, <1>4

LEMMA AppendedInOrder ==
  ASSUME TypeOK, NEW p, NEW cache \in Seq(Msg), InSendingOrder(cache),
         Complete(p, ToSet(cache), KeysOf(ToSet(cache))),
         NEW S, Complete(p, S, KeysOf(S)), NEW next, NewRows(cache, S, next)
  PROVE  InSendingOrder(next) /\ Complete(p, ToSet(next), KeysOf(ToSet(next)))
<1>1. PICK rows \in Seq(Msg) :
         /\ next = cache \o rows
         /\ ToSet(rows) = {m \in S : m.key \notin KeysOf(ToSet(cache))}
         /\ \A i, j \in 1..Len(rows) : i < j => rows[i].key < rows[j].key
  BY DEF NewRows
<1>2. PICK F : F = ToSet(cache)
  OBVIOUS
<1>3. PICK K : K = KeysOf(F)
  OBVIOUS
<1>4. ToSet(next) = F \cup ToSet(rows)
  BY <1>1, <1>2, RowsTogether
<1>5. PICK L : L = KeysOf(ToSet(next))
  OBVIOUS
<1>6. K \subseteq L /\ KeysOf(S) \subseteq L
  <2>1. L = K \cup KeysOf(ToSet(rows))
    BY <1>3, <1>4, <1>5, KeysTogether
  <2>2. ASSUME NEW m \in S PROVE m.key \in K \/ m.key \in KeysOf(ToSet(rows))
    BY <1>1, <1>2, <1>3 DEF KeysOf
  <2> QED  BY <2>1, <2>2 DEF KeysOf
<1>7. ASSUME NEW f \in ToSet(next) PROVE Said(p, f) /\ Real(p, f) /\ Follows(p, f, L)
  <2>1. CASE f \in F
    BY <1>2, <1>3, <1>6, <2>1 DEF Complete, Follows
  <2>2. CASE f \in S
    BY <1>6, <2>2 DEF Complete, Follows
  <2> QED  BY <1>1, <1>4, <2>1, <2>2
<1>8. PICK a \in Nat : a = Len(cache)
  OBVIOUS
<1>9. PICK b \in Nat : b = Len(rows)
  OBVIOUS
<1>10. /\ DOMAIN next = 1..(a + b)
       /\ \A i \in 1..a : next[i] = cache[i]
       /\ \A i \in 1..(a + b) : i > a => i - a \in 1..b /\ next[i] = rows[i - a]
  BY <1>1, <1>8, <1>9
<1>11. ASSUME NEW i \in 1..(a + b), NEW j \in 1..(a + b), i < j
       PROVE  next[i].key # next[j].key /\ (next[i].from = next[j].from => next[i].key < next[j].key)
  <2>1. CASE j <= a
    <3>1. i \in DOMAIN cache /\ j \in DOMAIN cache /\ next[i] = cache[i] /\ next[j] = cache[j]
      BY <1>8, <1>10, <1>11, <2>1
    <3> QED  BY <1>11, <3>1 DEF InSendingOrder
  <2>2. CASE i > a
    <3>1. PICK x \in 1..b, y \in 1..b : x = i - a /\ y = j - a
      BY <1>10, <1>11, <2>2
    <3>2. x < y /\ next[i] = rows[x] /\ next[j] = rows[y]
      BY <1>10, <1>11, <2>2, <3>1
    <3>3. rows[x].key < rows[y].key /\ rows[x].key \in Nat /\ rows[y].key \in Nat
      BY <1>1, <1>9, <3>2, MembersOf
    <3>4. rows[x].key # rows[y].key
      BY <3>3
    <3> QED  BY <3>2, <3>3, <3>4
  <2>3. CASE i <= a /\ j > a
    <3>1. PICK n : n = cache[i] /\ next[i] = n
      BY <1>8, <1>10, <2>3
    <3>2. PICK y \in 1..b : y = j - a /\ next[j] = rows[y]
      BY <1>10, <2>3
    <3>3. PICK m : m = rows[y]
      OBVIOUS
    <3>4. n \in F /\ n.key \in K /\ n.key \in Nat
      BY <1>2, <1>3, <1>8, <2>3, <3>1, MembersOf
    <3>5. m \in ToSet(rows) /\ m.key \in Nat
      BY <1>9, <3>3, MembersOf
    <3>6. m \in S /\ m.key \notin K
      BY <1>1, <1>2, <1>3, <3>5
    <3>7. Said(p, m) /\ ~CopyLost(m, p) /\ Complete(p, F, K)
      BY <1>2, <1>3, <3>6 DEF Complete, Real
    <3>8. ASSUME n.from = m.from PROVE n.key < m.key
      BY <3>4, <3>5, <3>6, <3>7, <3>8, NewComesLater
    <3> QED  BY <3>1, <3>2, <3>3, <3>4, <3>6, <3>8
  <2> QED  BY <1>8, <2>1, <2>2, <2>3
<1>12. InSendingOrder(next)
  BY <1>10, <1>11 DEF InSendingOrder
<1>13. Complete(p, ToSet(next), KeysOf(ToSet(next)))
  BY <1>5, <1>7 DEF Complete
<1> QED  BY <1>12, <1>13
-----------------------------------------------------------------------------
\* What is below the screens; what the devices see; and the screens.
OrderInv ==
  /\ ScreensInv /\ ChatInv /\ OneMessageEach
  /\ QueuesInOrder /\ LostWasSent /\ QueuedNotLost
  /\ DocsInOrder /\ CachesInOrder /\ OwnSeen

ViewsInOrder == \A p \in Chats : Complete(p, View(p.owner, p), KeysOf(View(p.owner, p)))

RowsInOrder(u, c) ==
  LET rows == cacheMessage[u][c]
      p == Conversation(u, c)
  IN  /\ InSendingOrder(rows) /\ Complete(p, ToSet(rows), KeysOf(ToSet(rows)))
      /\ \A S \in Snaps(mainQueue[u], c) : Complete(p, S, KeysOf(S))

RowsOrdered ==
  \A u, c \in User : IF u = c THEN cacheMessage[u][c] = << >> ELSE RowsInOrder(u, c)

LEMMA OrderInit == Init => OrderInv
<1> SUFFICES ASSUME Init PROVE OrderInv
  OBVIOUS
<1>1. \A w \in User : mutationQueue[w] = << >>
  BY DEF Init, FsInit
<1>2. QueuesInOrder /\ LostWasSent /\ QueuedNotLost
  <2>1. \A w \in User : lost[w] = {}
    BY DEF Init
  <2> QED  BY <1>1, <2>1 DEF QueuesInOrder, LostWasSent, QueuedNotLost
<1>3. \A p \in Chats : docs[p] = {} /\ remoteDocs[p.owner][p] = {}
  BY ChatsParts DEF Init, FsInit
<1>4. DocsInOrder /\ CachesInOrder
  BY <1>3 DEF DocsInOrder, CachesInOrder, PeersComplete
<1>5. sent = {}
  BY DEF Init
<1>6. OwnSeen
  BY <1>5 DEF OwnSeen
<1> QED  BY <1>2, <1>4, <1>6, InitScreens, InitInv, OneMessageInit DEF OrderInv

LEMMA OrderStep == OrderInv /\ [Next]_vars => OrderInv'
<1> SUFFICES ASSUME OrderInv, [Next]_vars PROVE OrderInv'
  OBVIOUS
<1>1. /\ ScreensInv /\ ChatInv /\ OneMessageEach /\ TypeOK /\ KeysInv
      /\ QueuesInOrder /\ LostWasSent /\ QueuedNotLost
      /\ DocsInOrder /\ CachesInOrder /\ OwnSeen
  BY DEF OrderInv, ScreensInv
<1>2. ScreensInv' /\ TypeOK'
  BY <1>1, NextScreens, NextType
<1>3. ChatInv' /\ OneMessageEach' /\ QueuesInOrder' /\ LostWasSent' /\ QueuedNotLost'
  BY <1>1, NextInv, OneMessageStep, QueuesStayInOrder, LostStays
<1>4. OwnSeen'
  BY <1>1, <1>2, OwnStaysSeen
<1>5. ASSUME NEW p \in Chats PROVE PeersComplete(p, docs[p])'
  <2>1. PICK doc : doc = docs'[p]
    OBVIOUS
  <2>2. PeersComplete(p, doc)
    BY <1>1, <1>2, <2>1, DocsStayInOrder
  <2>3. PeersComplete(p, doc)'
    BY <1>1, <1>2, <2>2, DocStays
  <2> QED  BY <2>1, <2>3
<1>6. ASSUME NEW p \in Chats PROVE PeersComplete(p, remoteDocs[p.owner][p])'
  <2>1. PICK doc : doc = remoteDocs'[p.owner][p]
    OBVIOUS
  <2>2. PeersComplete(p, doc)
    BY <1>1, <1>2, <2>1, CachesStayInOrder
  <2>3. PeersComplete(p, doc)'
    BY <1>1, <1>2, <2>2, DocStays
  <2> QED  BY <2>1, <2>3
<1>7. DocsInOrder' /\ CachesInOrder'
  BY <1>5, <1>6 DEF DocsInOrder, CachesInOrder
<1> QED  BY <1>2, <1>3, <1>4, <1>7 DEF OrderInv

LEMMA Ordered == Spec => [](OrderInv /\ ViewsInOrder)
<1>1. OrderInv => ViewsInOrder
  BY ViewInOrder DEF OrderInv, ScreensInv, ViewsInOrder
<1> QED  BY <1>1, OrderInit, OrderStep, PTL DEF Spec

LEMMA RowsInit == Init => RowsOrdered
<1> SUFFICES ASSUME Init, NEW u \in User, NEW c \in User
             PROVE  cacheMessage[u][c] = << >> /\ (u # c => RowsInOrder(u, c))
  BY DEF RowsOrdered
<1>1. PICK q : q = Callbacks(Buffer(u), 1, {})
  OBVIOUS
<1>2. q \in Seq(Callback) /\ Len(q) = 1 /\ q[1].chat = u
  <2>1. {} \in Document
    BY DEF Document
  <2> QED  BY <1>1, <2>1, FirstCallback
<1>3. mainQueue[u] = q /\ cacheMessage[u][c] = << >>
  BY <1>1 DEF Init
<1>4. u # c => Snaps(q, c) = {}
  BY <1>2 DEF Snaps, Waiting
<1>5. ToSet(<< >>) = {} /\ DOMAIN << >> = {}
  BY DEF ToSet
<1>6. InSendingOrder(<< >>) /\ \A p, K : Complete(p, ToSet(<< >>), K)
  BY <1>5 DEF InSendingOrder, Complete
<1>7. u # c => RowsInOrder(u, c)
  BY <1>3, <1>4, <1>6 DEF RowsInOrder
<1> QED  BY <1>3, <1>7

LEMMA EachInOrder ==
  ASSUME TypeOK, TypeOK', ScreensInv, ViewsInOrder', [Next]_vars,
         NEW u \in User, NEW c \in User \ {u}, RowsInOrder(u, c)
  PROVE  RowsInOrder(u, c)'
<1>1. PICK p \in Chats : p = Conversation(u, c) /\ p.owner = u
  BY ChatsParts, ConversationParts
<1> SUFFICES ASSUME ~Relaunch(u) PROVE RowsInOrder(u, c)'
  <2>1. ASSUME Relaunch(u) PROVE RowsInOrder(u, c)'
    <3>1. PICK q : q = Callbacks(Buffer(u), 1, ViewNext(u, Buffer(u)))
      OBVIOUS
    <3>2. q \in Seq(Callback) /\ Len(q) = 1 /\ q[1].chat = u /\ mainQueue'[u] = q
      BY <2>1, <3>1, KillMoves, FirstCallback
    <3>3. Snaps(q, c) = {}
      BY <3>2 DEF Snaps, Waiting
    <3>4. cacheMessage'[u][c] = << >>
      BY <2>1 DEF Relaunch, FreshProcess, TypeOK
    <3>5. ToSet(<< >>) = {} /\ DOMAIN << >> = {}
      BY DEF ToSet
    <3>6. InSendingOrder(<< >>) /\ Complete(p, ToSet(<< >>), KeysOf(ToSet(<< >>)))'
      BY <3>5 DEF InSendingOrder, Complete
    <3> QED  BY <1>1, <3>2, <3>3, <3>4, <3>6 DEF RowsInOrder
  <2> QED  BY <2>1
<1>2. PICK cache \in Seq(Msg) : cache = cacheMessage[u][c]
  BY CacheType
<1>3. PICK next : next = cacheMessage'[u][c]
  OBVIOUS
<1>4. /\ InSendingOrder(cache) /\ Complete(p, ToSet(cache), KeysOf(ToSet(cache)))
      /\ \A S \in Snaps(mainQueue[u], c) : Complete(p, S, KeysOf(S))
  BY <1>1, <1>2 DEF RowsInOrder
<1>5. ASSUME NEW F, NEW K, Complete(p, F, K) PROVE Complete(p, F, K)'
  BY <1>1, <1>5, CompleteStays
<1>6. InSendingOrder(next) /\ Complete(p, ToSet(next), KeysOf(ToSet(next)))
  <2>1. CASE next = cache
    BY <1>4, <2>1
  <2>2. CASE next = << >>
    <3>1. ToSet(<< >>) = {} /\ DOMAIN << >> = {}
      BY DEF ToSet
    <3> QED  BY <2>2, <3>1 DEF InSendingOrder, Complete
  <2>3. ASSUME NEW S \in Snaps(mainQueue[u], c), NewRows(cache, S, next)
        PROVE  InSendingOrder(next) /\ Complete(p, ToSet(next), KeysOf(ToSet(next)))
    <3>1. Complete(p, S, KeysOf(S))
      BY <1>4
    <3> QED  BY <1>4, <2>3, <3>1, AppendedInOrder
  <2> QED  BY <1>2, <1>3, <2>1, <2>2, <2>3, CacheMoves
<1>7. Complete(p, ToSet(next), KeysOf(ToSet(next)))'
  <2>1. PICK F, K : F = ToSet(next) /\ K = KeysOf(F)
    OBVIOUS
  <2> QED  BY <1>5, <1>6, <2>1
<1>8. ASSUME NEW S \in Snaps(mainQueue'[u], c) PROVE Complete(p, S, KeysOf(S))'
  <2>1. PICK K : K = KeysOf(S)
    OBVIOUS
  <2>2. CASE S \in Snaps(mainQueue[u], c)
    BY <1>4, <1>5, <2>1, <2>2
  <2>3. CASE S = ViewNext(u, p)
    <3>1. Complete(p, View(u, p), KeysOf(View(u, p)))'
      BY <1>1 DEF ViewsInOrder
    <3>2. View(u, p)' = S
      BY <2>3, NextView
    <3> QED  BY <3>1, <3>2
  <2> QED  BY <1>1, <2>2, <2>3, SnapsMove
<1> QED  BY <1>1, <1>3, <1>6, <1>7, <1>8 DEF RowsInOrder

LEMMA RowsStepInOrder ==
  OrderInv /\ OrderInv' /\ ViewsInOrder' /\ RowsOrdered /\ [Next]_vars => RowsOrdered'
<1> SUFFICES ASSUME OrderInv, OrderInv', ViewsInOrder', RowsOrdered, [Next]_vars
             PROVE  RowsOrdered'
  OBVIOUS
<1>1. TypeOK /\ TypeOK' /\ ScreensInv
  BY NextType DEF OrderInv, ScreensInv
<1>2. ASSUME NEW u \in User PROVE cacheMessage'[u][u] = << >>
  BY <1>1, CacheMoves DEF RowsOrdered
<1>3. ASSUME NEW u \in User, NEW c \in User \ {u} PROVE RowsInOrder(u, c)'
  BY <1>1, EachInOrder DEF RowsOrdered
<1> QED  BY <1>2, <1>3 DEF RowsOrdered

LEMMA RowsInTheirOrder == RowsOrdered => RowsInSendingOrder
<1>1. DOMAIN << >> = {}
  OBVIOUS
<1> QED  BY <1>1 DEF RowsOrdered, RowsInOrder, InSendingOrder, RowsInSendingOrder

\* The rows of a chat hold no message twice and the messages of one sender in
\* the order they were sent: each copy, echo and snapshot that brings a message
\* has those its sender sent there before (ChatViewController.viewWillAppear,
\* finishEditing).
THEOREM MessagesInOrder == Spec => []RowsInSendingOrder
  BY Ordered, RowsInit, RowsStepInOrder, RowsInTheirOrder, PTL DEF Spec
=============================================================================
