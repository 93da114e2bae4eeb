-------------------------- MODULE GroupChat_proofs --------------------------
(***************************************************************************)
(* What GroupChat promises, for any finite number of users and groups and  *)
(* any bounds: its types, that a listed group exists, that badges follow   *)
(* their messages and are for others' messages, and which badge is shown.  *)
(***************************************************************************)
EXTENDS GroupChat, FiniteSetTheorems, TLAPS

Lemmas == INSTANCE FirestoreLemmas WITH
  Device <- User, Path <- GroupPath, Field <- Msg \cup [key: User, from: User]
-----------------------------------------------------------------------------
(***************************************************************************)
(* The writes.  dd, fd and ss stand for docs, founded and sent, so that    *)
(* the same definition speaks of this state and of the next.               *)
(***************************************************************************)
MemberOf(dd, v, g) == v \in KeysOf(dd[GroupDoc(g)])

Members(fd, g) ==
  {f \in [key: User, from: User] : fd[g] # << >> /\ f.from = fd[g][1] /\ f.key \in fd[g][2]}

IsGroup(fd, m) ==
  \E g \in Group : /\ m.path = GroupDoc(g) /\ fd[g] # << >>
                   /\ m.fields = Members(fd, g) /\ ~m.merge

IsEntry(dd, m) ==
  \E g \in Group : \E v \in User : m.path = Entry(v, g) /\ MemberOf(dd, v, g)

IsCopy(m) ==
  \E g \in Group : /\ m.path = RoomConversation(g) \/ \E v \in User : m.path = OwnConversation(v, g)
                   /\ m.merge

IsBadge(dd, ss, u, m) ==
  \E x \in ss : \E v \in User \ {u} :
    /\ x.from = u /\ MemberOf(dd, v, x.group)
    /\ m.path = GroupBuffer(v, x.group) /\ m.fields = {[key |-> x.key, from |-> u]}

IsClear(u, m) ==
  \E g \in Group : m.path = GroupBuffer(u, g) /\ m.fields = {} /\ ~m.merge

WrittenBy(dd, fd, ss, u, m) ==
  IsGroup(fd, m) \/ IsEntry(dd, m) \/ IsCopy(m) \/ IsBadge(dd, ss, u, m) \/ IsClear(u, m)

\* No write takes a message out of a conversation.
PermanentKeys == [p \in GroupPath |-> IF p.coll = "Conversation" THEN Time ELSE {}]

\* What u writes before it writes m: both copies of a message before a badge.
Prior(u, m) ==
  IF m.path.coll # "ChatBuffer" THEN {}
  ELSE {<<RoomConversation(m.path.group), f.key>> : f \in m.fields \cap Msg} \cup
       {<<OwnConversation(u, m.path.group), f.key>> : f \in m.fields \cap Msg}

PriorWrites == [u \in User |-> [m \in Mutation |-> Prior(u, m)]]
-----------------------------------------------------------------------------
(***************************************************************************)
(* The invariant.                                                          *)
(***************************************************************************)
TrueBadge(dd, ss, v, g, f) ==
  /\ MemberOf(dd, v, g) /\ f.from # v
  /\ \E x \in ss : x.key = f.key /\ x.from = f.from /\ x.group = g
  /\ Lemmas!Has(dd[RoomConversation(g)], f.key)
  /\ Lemmas!Has(dd[OwnConversation(f.from, g)], f.key)

\* Field f may be in document p.
Fits(dd, fd, ss, p, f) ==
  /\ p.coll = "Group" => f \in Members(fd, p.group)
  /\ p.coll = "Friends" => MemberOf(dd, p.owner, p.group)
  /\ p.coll = "ChatBuffer" => TrueBadge(dd, ss, p.owner, p.group, f)

HasBadge(dd, ss, u, g) ==
  /\ MemberOf(dd, u, g)
  /\ \E x \in ss : /\ x.group = g /\ x.from # u
                   /\ Lemmas!Has(dd[RoomConversation(g)], x.key)

\* The members u has chosen for a group, or has told of it.
Chosen(fd, u, e) ==
  /\ fd[e.group] # << >> /\ fd[e.group][1] = u /\ u \in fd[e.group][2]
  /\ \A i \in DOMAIN e.friends : e.friends[i] \in fd[e.group][2]

Added == [kind: {"added"}, group: Group, friends: Seq(User)]

Badges == [kind: {"badges"}, vc: Nat, msg: Msg]

Snapshots == [kind: {"buffer"}, groups: SUBSET Group]

Block == Snapshots \cup Badges \cup Added

Types ==
  /\ Lemmas!FsTypeOK
  /\ awaiting \in [User -> SUBSET Added]
  /\ \A u \in User : IsFiniteSet(awaiting[u])
  /\ recents \in [User -> Nat \ {0}]
  /\ inRoom \in [User -> Group \cup {NoRoom}]
  /\ rooms \in [User -> Seq(Room)]
  /\ bufferGroupChat \in [User -> SUBSET Group]
  /\ mainQueue \in [User -> Seq(Block)]
  /\ founded \in [Group -> {<< >>} \cup (User \X ((SUBSET User) \ {{}}))]
  /\ sent \subseteq [key: Time, from: User, group: Group]

\* Every queued write is one the screens make, and comes after what it needs.
QueuesOK ==
  /\ \A u \in User : \A i \in 1..Len(mutationQueue[u]) :
       WrittenBy(docs, founded, sent, u, mutationQueue[u][i])
  /\ Lemmas!KeysKept(PermanentKeys)
  /\ Lemmas!InOrder(PriorWrites)

\* So is every document, at the backend and in the caches.
DocsRight ==
  \A p \in GroupPath :
    /\ \A f \in docs[p] : Fits(docs, founded, sent, p, f)
    /\ \A u \in User : \A f \in remoteDocs[u][p] : Fits(docs, founded, sent, p, f)

\* A group is there with all its members, from the commit of its document on.
GroupsWhole ==
  /\ \A g \in Group : docs[GroupDoc(g)] # {} => Members(founded, g) \subseteq docs[GroupDoc(g)]
  /\ \A u \in User : \A i \in 1..applied[u] : \A g \in Group :
       mutationQueue[u][i].path = GroupDoc(g) => docs[GroupDoc(g)] # {}

\* Every controller is about a room of the user, and knows only its members.
RoomsRight ==
  \A u \in User : \A i \in 1..Len(rooms[u]) :
    /\ MemberOf(docs, u, rooms[u][i].group)
    /\ \A v \in rooms[u][i].roomMember : MemberOf(docs, v, rooms[u][i].group)

ShownRight == \A u \in User : \A g \in bufferGroupChat[u] : HasBadge(docs, sent, u, g)

\* A closure that waits for an answer waits for one that is still to come.
AwaitingRight ==
  \A u \in User : \A e \in awaiting[u] :
    /\ Chosen(founded, u, e)
    /\ \E i \in 1..Len(mutationQueue[u]) : mutationQueue[u][i].path = GroupDoc(e.group)

\* A device with the queue qq has or will write key k of document p.
Coming(dd, qq, p, k) ==
  \/ Lemmas!Has(dd[p], k)
  \/ \E j \in 1..Len(qq) : qq[j].path = p /\ Lemmas!Has(qq[j].fields, k)

\* The message of a block is sent, and both copies are on their way.
OnItsWay(dd, ss, qq, u, g, m) ==
  /\ m.from = u /\ [key |-> m.key, from |-> u, group |-> g] \in ss
  /\ Coming(dd, qq, RoomConversation(g), m.key)
  /\ Coming(dd, qq, OwnConversation(u, g), m.key)

\* A block e of u, whose queue is qq and whose controllers are rr.
BlockFits(dd, fd, ss, qq, rr, u, e) ==
  /\ e.kind = "buffer" => \A g \in e.groups : HasBadge(dd, ss, u, g)
  /\ e.kind = "badges" => e.vc \in 1..Len(rr) /\ OnItsWay(dd, ss, qq, u, rr[e.vc].group, e.msg)
  /\ e.kind = "added" => Chosen(fd, u, e) /\ dd[GroupDoc(e.group)] # {}

BlockRight(u, e) == BlockFits(docs, founded, sent, mutationQueue[u], rooms[u], u, e)

BlocksRight == \A u \in User : \A i \in 1..Len(mainQueue[u]) : BlockRight(u, mainQueue[u][i])

\* The last snapshot in a queue is up to date; without one, the badge is.
Told(unread, queue, shown) ==
  \/ \E i \in 1..Len(queue) : /\ queue[i].kind = "buffer" /\ queue[i].groups = unread
                              /\ \A j \in (i + 1)..Len(queue) : queue[j].kind # "buffer"
  \/ /\ \A j \in 1..Len(queue) : queue[j].kind # "buffer"
     /\ unread = {} \/ shown = {Max(unread)}

ListenersTold ==
  \A u \in User : Told(Unread(BufferView(u)), mainQueue[u], bufferGroupChat[u])

Right == /\ QueuesOK /\ DocsRight /\ GroupsWhole /\ RoomsRight /\ ShownRight
         /\ AwaitingRight /\ BlocksRight

IInv == Types /\ Right /\ ListenersTold
-----------------------------------------------------------------------------
(***************************************************************************)
(* The client's definitions, here and in FirestoreLemmas, are the same.    *)
(***************************************************************************)
LEMMA SameTypes ==
  /\ Lemmas!FirestoreAssumption
  /\ Lemmas!Document = Document
  /\ Lemmas!Mutation = Mutation
  /\ Lemmas!FsTypeOK <=> FsTypeOK
<1>1. Lemmas!FirestoreAssumption
  BY DEF Lemmas!FirestoreAssumption, Msg
<1>2. Lemmas!Document = Document
  BY DEF Lemmas!Document, Document
<1>3. Lemmas!Mutation = Mutation
  BY <1>2 DEF Lemmas!Mutation, Mutation
<1>4. Lemmas!FsTypeOK <=> FsTypeOK
  BY <1>2, <1>3 DEF Lemmas!FsTypeOK, FsTypeOK
<1> QED  BY <1>1, <1>2, <1>3, <1>4

LEMMA SameView ==
  ASSUME NEW doc, NEW queue, NEW p
  PROVE  LocalView(doc, queue, p) = Lemmas!LocalView(doc, queue, p)
  BY DEF LocalView, Lemmas!LocalView, Survives, Lemmas!Survives, Overwrites, Lemmas!Overwrites

LEMMA SameWrite ==
  ASSUME NEW u, NEW ms, LocallyWrite(u, ms)
  PROVE  Lemmas!LocallyWrite(u, ms)
  BY DEF LocallyWrite, Lemmas!LocallyWrite

LEMMA SameNetwork ==
  /\ \A u \in User : Persist(u) => Lemmas!NetworkStep
  /\ \A u \in User : Commit(u) => Lemmas!NetworkStep
  /\ \A u \in User : Acknowledge(u) => Lemmas!NetworkStep /\ Lemmas!Acknowledge(u)
  /\ \A u \in User : RestartStream(u) => Lemmas!NetworkStep
  /\ \A u \in User : \A p \in GroupPath : Watch(u, p) => Lemmas!NetworkStep
  /\ UNCHANGED clientVars => Lemmas!NetworkStep
<1>6. ASSUME NEW u \in User, Persist(u) PROVE Lemmas!Persist(u)
  BY <1>6 DEF Persist, Lemmas!Persist
<1>1. ASSUME NEW u \in User, Commit(u) PROVE Lemmas!Commit(u)
  BY <1>1 DEF Commit, Lemmas!Commit, ApplyTo, Lemmas!ApplyTo, Overwrites, Lemmas!Overwrites
<1>2. ASSUME NEW u \in User, Acknowledge(u) PROVE Lemmas!Acknowledge(u)
  BY <1>2 DEF Acknowledge, Lemmas!Acknowledge, ApplyTo, Lemmas!ApplyTo,
              Overwrites, Lemmas!Overwrites
<1>3. ASSUME NEW u \in User, RestartStream(u) PROVE Lemmas!Restart(u)
  BY <1>3 DEF RestartStream, Lemmas!Restart
<1>4. ASSUME NEW u \in User, NEW p \in GroupPath, Watch(u, p) PROVE Lemmas!Watch(u, p)
  BY <1>4 DEF Watch, Lemmas!Watch, CommittedOn, Lemmas!CommittedOn
<1>5. UNCHANGED clientVars => UNCHANGED Lemmas!fsVars
  BY DEF clientVars, Lemmas!fsVars
<1> QED  BY <1>1, <1>2, <1>3, <1>4, <1>5, <1>6 DEF Lemmas!NetworkStep

LEMMA SameKill ==
  ASSUME Types, NEW u \in User, Relaunch(u)
  PROVE  Lemmas!Killed({u}) /\ mutationQueue'[u] = OnDisk(u)
<1>1. PICK disk : disk = OnDisk(u)
  OBVIOUS
<1>2. Lemmas!OnDisk(u) = disk
  BY <1>1 DEF OnDisk, Lemmas!OnDisk
<1>3. mutationQueue' = [mutationQueue EXCEPT ![u] = disk]
  BY <1>1 DEF Relaunch
<1>4. /\ mutationQueue \in [User -> Seq(Lemmas!Mutation)]
      /\ applied \in [User -> Nat] /\ caughtUp \in [User -> SUBSET Nat]
  BY DEF Types, Lemmas!FsTypeOK
<1>5. /\ mutationQueue' = [d \in User |-> IF d \in {u} THEN Lemmas!OnDisk(d) ELSE mutationQueue[d]]
      /\ mutationQueue'[u] = disk
  BY <1>2, <1>3, <1>4
<1>6. /\ applied' = [d \in User |-> IF d \in {u} THEN 0 ELSE applied[d]]
      /\ caughtUp' = [d \in User |-> IF d \in {u} THEN {} ELSE caughtUp[d]]
  BY <1>4 DEF Relaunch, FreshProcess
<1>7. UNCHANGED <<docs, remoteDocs, persisted>>
  BY DEF Relaunch, FreshProcess
<1> QED  BY <1>1, <1>5, <1>6, <1>7 DEF Lemmas!Killed
-----------------------------------------------------------------------------
(***************************************************************************)
(* Paths and writes.                                                       *)
(***************************************************************************)
LEMMA Paths ==
  /\ \A g : GroupDoc(g).coll = "Group" /\ GroupDoc(g).group = g
  /\ \A u, g : /\ Entry(u, g).coll = "Friends"
               /\ Entry(u, g).owner = u /\ Entry(u, g).group = g
  /\ \A g : RoomConversation(g).coll = "Conversation"
  /\ \A u, g : OwnConversation(u, g).coll = "Conversation"
  /\ \A u, g : /\ GroupBuffer(u, g).coll = "ChatBuffer"
               /\ GroupBuffer(u, g).owner = u /\ GroupBuffer(u, g).group = g
  BY DEF GroupDoc, Entry, RoomConversation, OwnConversation, GroupBuffer

LEMMA PathTypes ==
  /\ \A g \in Group : GroupDoc(g) \in GroupPath /\ RoomConversation(g) \in GroupPath
  /\ \A u \in User, g \in Group : /\ Entry(u, g) \in GroupPath /\ OwnConversation(u, g) \in GroupPath
                                  /\ GroupBuffer(u, g) \in GroupPath
  /\ \A p \in GroupPath :
       \/ p.coll = "Group" /\ p.group \in Group /\ p = GroupDoc(p.group)
       \/ p.coll = "Friends" /\ p.group \in Group /\ p.owner \in User /\ p = Entry(p.owner, p.group)
       \/ p.coll = "ChatBuffer" /\ p.group \in Group /\ p.owner \in User
            /\ p = GroupBuffer(p.owner, p.group)
       \/ p.coll = "Conversation"
<1>1. \A g \in Group : GroupDoc(g) \in GroupPath /\ RoomConversation(g) \in GroupPath
  BY DEF GroupPath, GroupDoc, RoomConversation
<1>2. \A u \in User, g \in Group : /\ Entry(u, g) \in GroupPath /\ OwnConversation(u, g) \in GroupPath
                                   /\ GroupBuffer(u, g) \in GroupPath
  BY DEF GroupPath, Entry, OwnConversation, GroupBuffer
<1>3. ASSUME NEW p \in [coll: {"Group", "Conversation"}, group: Group]
      PROVE  /\ p.group \in Group
             /\ \/ p.coll = "Conversation"
                \/ p.coll = "Group" /\ p = GroupDoc(p.group)
  BY DEF GroupDoc
<1>4. ASSUME NEW p \in [coll: {"Friends", "Conversation", "ChatBuffer"}, owner: User, group: Group]
      PROVE  /\ p.group \in Group /\ p.owner \in User
             /\ \/ p.coll = "Conversation"
                \/ p.coll = "Friends" /\ p = Entry(p.owner, p.group)
                \/ p.coll = "ChatBuffer" /\ p = GroupBuffer(p.owner, p.group)
  <2>1. p = [coll |-> p.coll, owner |-> p.owner, group |-> p.group]
    OBVIOUS
  <2>2. p.group \in Group /\ p.owner \in User /\ p.coll \in {"Friends", "Conversation", "ChatBuffer"}
    OBVIOUS
  <2>3. CASE p.coll = "Friends"
    BY <2>1, <2>2, <2>3 DEF Entry
  <2>4. CASE p.coll = "ChatBuffer"
    BY <2>1, <2>2, <2>4 DEF GroupBuffer
  <2> QED  BY <2>2, <2>3, <2>4
<1>5. ASSUME NEW p \in GroupPath
      PROVE  \/ p.coll = "Group" /\ p.group \in Group /\ p = GroupDoc(p.group)
             \/ p.coll = "Friends" /\ p.group \in Group /\ p.owner \in User
                  /\ p = Entry(p.owner, p.group)
             \/ p.coll = "ChatBuffer" /\ p.group \in Group /\ p.owner \in User
                  /\ p = GroupBuffer(p.owner, p.group)
             \/ p.coll = "Conversation"
  BY <1>3, <1>4 DEF GroupPath
<1> QED  BY <1>1, <1>2, <1>5

LEMMA KeysOfPath ==
  /\ \A g \in Group : PermanentKeys[RoomConversation(g)] = Time
  /\ \A g \in Group : \A u \in User : PermanentKeys[OwnConversation(u, g)] = Time
  /\ \A p \in GroupPath : p.coll # "Conversation" => PermanentKeys[p] = {}
<1>1. \A p \in GroupPath : p.coll = "Conversation" => PermanentKeys[p] = Time
  BY DEF PermanentKeys
<1>2. \A p \in GroupPath : p.coll # "Conversation" => PermanentKeys[p] = {}
  BY DEF PermanentKeys
<1>3. \A g \in Group : RoomConversation(g) \in GroupPath /\ RoomConversation(g).coll = "Conversation"
  BY Paths, PathTypes
<1>4. \A g \in Group : \A u \in User : /\ OwnConversation(u, g) \in GroupPath
                                       /\ OwnConversation(u, g).coll = "Conversation"
  BY Paths, PathTypes
<1> QED  BY <1>1, <1>2, <1>3, <1>4

LEMMA FieldTypes ==
  /\ \A f \in Msg : f.key \in Time /\ f.from \in User
  /\ \A t \in Time, u \in User : /\ [key |-> t, from |-> u] \in Msg
                                 /\ [key |-> t, from |-> u].key = t
                                 /\ [key |-> t, from |-> u].from = u
  /\ \A u, v \in User : /\ Member(v, u) \in [key: User, from: User]
                        /\ Member(v, u).key = v /\ Member(v, u).from = u
<1>1. \A f \in Msg : f.key \in Time /\ f.from \in User
  BY DEF Msg
<1>2. \A t \in Time, u \in User : /\ [key |-> t, from |-> u] \in Msg
                                 /\ [key |-> t, from |-> u].key = t
                                 /\ [key |-> t, from |-> u].from = u
  BY DEF Msg
<1>3. \A u, v \in User : /\ Member(v, u) \in [key: User, from: User]
                        /\ Member(v, u).key = v /\ Member(v, u).from = u
  BY DEF Member
<1> QED  BY <1>1, <1>2, <1>3

LEMMA MembersDoc ==
  ASSUME NEW fd, NEW g
  PROVE  Members(fd, g) \in Document
<1>1. Members(fd, g) \in SUBSET (Msg \cup [key: User, from: User])
  BY DEF Members
<1>2. \A e, f \in Members(fd, g) : e.key = f.key => e = f
  BY DEF Members
<1> QED  BY <1>1, <1>2 DEF Document

LEMMA PutWrites ==
  ASSUME NEW p \in GroupPath, NEW fields \in Document
  PROVE  /\ Put(p, fields) \in Mutation
         /\ Put(p, fields).path = p /\ Put(p, fields).fields = fields /\ ~Put(p, fields).merge
  BY DEF Put, Mutation

LEMMA DeleteWrites ==
  ASSUME NEW p \in GroupPath
  PROVE  /\ Delete(p) \in Mutation
         /\ Delete(p).path = p /\ Delete(p).fields = {} /\ ~Delete(p).merge
<1>1. {} \in Document
  BY DEF Document
<1> QED  BY <1>1 DEF Delete, Mutation

LEMMA MergeWrites ==
  ASSUME NEW p \in GroupPath, NEW f \in Msg
  PROVE  /\ MergeInto(p, f) \in Mutation
         /\ MergeInto(p, f).path = p /\ MergeInto(p, f).merge
         /\ MergeInto(p, f).fields = {f}
         /\ Lemmas!Has(MergeInto(p, f).fields, f.key)
<1>1. {f} \in Document
  BY DEF Document
<1>2. MergeInto(p, f) \in Mutation
  BY <1>1 DEF MergeInto, Mutation
<1>3. MergeInto(p, f).path = p /\ MergeInto(p, f).merge /\ MergeInto(p, f).fields = {f}
  BY DEF MergeInto
<1> QED  BY <1>2, <1>3 DEF Lemmas!Has
-----------------------------------------------------------------------------
(***************************************************************************)
(* What a step leaves or adds.                                             *)
(***************************************************************************)
\* From dd, fd and ss to ddNext, fdNext and ssNext nothing is taken away.
Grows(dd, fd, ss, ddNext, fdNext, ssNext) ==
  /\ \A g \in Group : \A v : MemberOf(dd, v, g) => MemberOf(ddNext, v, g)
  /\ \A g \in Group : dd[GroupDoc(g)] # {} => ddNext[GroupDoc(g)] # {}
  /\ \A g \in Group : fd[g] # << >> => fdNext[g] = fd[g]
  /\ ss \subseteq ssNext
  /\ \A g \in Group : \A k \in Time :
       Lemmas!Has(dd[RoomConversation(g)], k) => Lemmas!Has(ddNext[RoomConversation(g)], k)
  /\ \A g \in Group : \A u \in User : \A k \in Time :
       Lemmas!Has(dd[OwnConversation(u, g)], k) => Lemmas!Has(ddNext[OwnConversation(u, g)], k)

Message == [key: Time, from: User, group: Group]

LEMMA MembersGrow ==
  ASSUME NEW fd, NEW fdNext, NEW g, fd[g] # << >> => fdNext[g] = fd[g]
  PROVE  /\ Members(fd, g) \subseteq Members(fdNext, g)
         /\ fd[g] # << >> => Members(fdNext, g) = Members(fd, g)
  BY DEF Members

LEMMA WritesGrow ==
  ASSUME NEW dd, NEW fd, NEW ss \in SUBSET Message, NEW ddNext, NEW fdNext, NEW ssNext,
         Grows(dd, fd, ss, ddNext, fdNext, ssNext),
         NEW u, NEW m, WrittenBy(dd, fd, ss, u, m)
  PROVE  WrittenBy(ddNext, fdNext, ssNext, u, m)
<1>1. ASSUME IsGroup(fd, m) PROVE IsGroup(fdNext, m)
  <2>1. PICK g \in Group : /\ m.path = GroupDoc(g) /\ fd[g] # << >>
                           /\ m.fields = Members(fd, g) /\ ~m.merge
    BY <1>1 DEF IsGroup
  <2>2. fdNext[g] = fd[g] /\ Members(fdNext, g) = Members(fd, g)
    BY <2>1, MembersGrow DEF Grows
  <2> QED  BY <2>1, <2>2 DEF IsGroup
<1>2. ASSUME IsEntry(dd, m) PROVE IsEntry(ddNext, m)
  BY <1>2 DEF IsEntry, Grows
<1>3. ASSUME IsBadge(dd, ss, u, m) PROVE IsBadge(ddNext, ssNext, u, m)
  <2>1. PICK x \in ss : \E v \in User \ {u} :
          /\ x.from = u /\ MemberOf(dd, v, x.group)
          /\ m.path = GroupBuffer(v, x.group) /\ m.fields = {[key |-> x.key, from |-> u]}
    BY <1>3 DEF IsBadge
  <2>2. x \in ssNext /\ x.group \in Group
    BY DEF Grows, Message
  <2>3. \A v : MemberOf(dd, v, x.group) => MemberOf(ddNext, v, x.group)
    BY <2>2 DEF Grows
  <2> QED  BY <2>1, <2>2, <2>3 DEF IsBadge
<1> QED  BY <1>1, <1>2, <1>3 DEF WrittenBy

LEMMA FitsGrow ==
  ASSUME NEW dd, NEW fd, NEW ss \in SUBSET Message, NEW ddNext, NEW fdNext, NEW ssNext,
         Grows(dd, fd, ss, ddNext, fdNext, ssNext),
         NEW p \in GroupPath, NEW f, Fits(dd, fd, ss, p, f)
  PROVE  Fits(ddNext, fdNext, ssNext, p, f)
<1>1. ASSUME p.coll = "Group" PROVE f \in Members(fdNext, p.group)
  <2>1. p.group \in Group /\ f \in Members(fd, p.group)
    BY <1>1, PathTypes DEF Fits
  <2> QED  BY <2>1, MembersGrow DEF Grows
<1>2. ASSUME p.coll = "Friends" PROVE MemberOf(ddNext, p.owner, p.group)
  <2>1. p.group \in Group /\ MemberOf(dd, p.owner, p.group)
    BY <1>2, PathTypes DEF Fits
  <2> QED  BY <2>1 DEF Grows
<1>3. ASSUME p.coll = "ChatBuffer" PROVE TrueBadge(ddNext, ssNext, p.owner, p.group, f)
  <2>1. p.group \in Group /\ TrueBadge(dd, ss, p.owner, p.group, f)
    BY <1>3, PathTypes DEF Fits
  <2>2. PICK x \in ss : x.key = f.key /\ x.from = f.from /\ x.group = p.group
    BY <2>1 DEF TrueBadge
  <2>3. f.key \in Time /\ f.from \in User /\ x \in ssNext
    BY <2>2 DEF Message, Grows
  <2>4. MemberOf(ddNext, p.owner, p.group) /\ f.from # p.owner
    BY <2>1 DEF Grows, TrueBadge
  <2>5. Lemmas!Has(ddNext[RoomConversation(p.group)], f.key)
    BY <2>1, <2>3 DEF Grows, TrueBadge
  <2>6. Lemmas!Has(ddNext[OwnConversation(f.from, p.group)], f.key)
    BY <2>1, <2>3 DEF Grows, TrueBadge
  <2> QED  BY <2>2, <2>3, <2>4, <2>5, <2>6 DEF TrueBadge
<1> QED  BY <1>1, <1>2, <1>3 DEF Fits

LEMMA BadgesGrow ==
  ASSUME NEW dd, NEW fd, NEW ss \in SUBSET Message, NEW ddNext, NEW fdNext, NEW ssNext,
         Grows(dd, fd, ss, ddNext, fdNext, ssNext),
         NEW u, NEW g \in Group, HasBadge(dd, ss, u, g)
  PROVE  HasBadge(ddNext, ssNext, u, g)
<1>1. PICK x \in ss : x.group = g /\ x.from # u /\ Lemmas!Has(dd[RoomConversation(g)], x.key)
  BY DEF HasBadge
<1>2. x \in ssNext /\ x.key \in Time
  BY DEF Grows, Message
<1>3. MemberOf(ddNext, u, g) /\ Lemmas!Has(ddNext[RoomConversation(g)], x.key)
  BY <1>1, <1>2 DEF Grows, HasBadge
<1> QED  BY <1>1, <1>2, <1>3 DEF HasBadge

LEMMA ChosenGrow ==
  ASSUME NEW fd, NEW fdNext, NEW u, NEW e, e.group \in Group,
         \A g \in Group : fd[g] # << >> => fdNext[g] = fd[g], Chosen(fd, u, e)
  PROVE  Chosen(fdNext, u, e)
  BY DEF Chosen
-----------------------------------------------------------------------------
(***************************************************************************)
(* What the writes do.                                                     *)
(***************************************************************************)
LEMMA WritesKeepKeys ==
  ASSUME NEW dd, NEW fd, NEW ss, NEW u, NEW m \in Mutation, WrittenBy(dd, fd, ss, u, m)
  PROVE  Lemmas!KeepsKeys(m, PermanentKeys)
<1>1. m.path \in GroupPath
  BY DEF Mutation
<1>2. CASE IsCopy(m)
  BY <1>2 DEF IsCopy, Lemmas!KeepsKeys
<1>3. CASE m.path.coll # "Conversation"
  BY <1>1, <1>3, KeysOfPath DEF Lemmas!KeepsKeys
<1>4. IsCopy(m) \/ m.path.coll # "Conversation"
  <2>1. ASSUME IsGroup(fd, m) PROVE m.path.coll # "Conversation"
    BY <2>1, Paths DEF IsGroup
  <2>2. ASSUME IsEntry(dd, m) PROVE m.path.coll # "Conversation"
    BY <2>2, Paths DEF IsEntry
  <2>3. ASSUME IsBadge(dd, ss, u, m) PROVE m.path.coll # "Conversation"
    BY <2>3, Paths DEF IsBadge
  <2>4. ASSUME IsClear(u, m) PROVE m.path.coll # "Conversation"
    BY <2>4, Paths DEF IsClear
  <2> QED  BY <2>1, <2>2, <2>3, <2>4 DEF WrittenBy
<1> QED  BY <1>2, <1>3, <1>4

\* A write of a group's document writes all its members.
LEMMA GroupWrites ==
  ASSUME NEW dd, NEW fd, NEW ss, NEW u, NEW m, WrittenBy(dd, fd, ss, u, m), NEW g \in Group,
         m.path = GroupDoc(g)
  PROVE  fd[g] # << >> /\ m.fields = Members(fd, g) /\ ~m.merge
<1>1. m.path.coll = "Group" /\ m.path.group = g
  BY Paths
<1>2. ~IsEntry(dd, m)
  BY <1>1, Paths DEF IsEntry
<1>3. ~IsCopy(m)
  BY <1>1, Paths DEF IsCopy
<1>4. ~IsBadge(dd, ss, u, m)
  BY <1>1, Paths DEF IsBadge
<1>5. ~IsClear(u, m)
  BY <1>1, Paths DEF IsClear
<1>6. IsGroup(fd, m)
  BY <1>2, <1>3, <1>4, <1>5 DEF WrittenBy
<1> QED  BY <1>1, <1>6, Paths DEF IsGroup

LEMMA EntryWrites ==
  ASSUME NEW dd, NEW fd, NEW ss, NEW u, NEW m, WrittenBy(dd, fd, ss, u, m), m.path.coll = "Friends"
  PROVE  MemberOf(dd, m.path.owner, m.path.group)
<1>1. ~IsGroup(fd, m)
  BY Paths DEF IsGroup
<1>2. ~IsCopy(m)
  BY Paths DEF IsCopy
<1>3. ~IsBadge(dd, ss, u, m)
  BY Paths DEF IsBadge
<1>4. ~IsClear(u, m)
  BY Paths DEF IsClear
<1>5. IsEntry(dd, m)
  BY <1>1, <1>2, <1>3, <1>4 DEF WrittenBy
<1> QED  BY <1>5, Paths DEF IsEntry

\* A device writes badges for others, and deletes its own.
LEMMA BadgeWrites ==
  ASSUME NEW dd, NEW fd, NEW ss, NEW u, NEW m, WrittenBy(dd, fd, ss, u, m), m.path.coll = "ChatBuffer"
  PROVE  \/ m.fields = {} /\ ~m.merge
         \/ /\ m.path.owner # u /\ MemberOf(dd, m.path.owner, m.path.group)
            /\ \E x \in ss : /\ x.from = u /\ x.group = m.path.group
                               /\ m.fields = {[key |-> x.key, from |-> u]}
<1>1. ~IsGroup(fd, m)
  BY Paths DEF IsGroup
<1>2. ~IsEntry(dd, m)
  BY Paths DEF IsEntry
<1>3. ~IsCopy(m)
  BY Paths DEF IsCopy
<1>4. CASE IsClear(u, m)
  BY <1>4 DEF IsClear
<1>5. CASE IsBadge(dd, ss, u, m)
  <2>1. PICK x \in ss : \E v \in User \ {u} :
          /\ x.from = u /\ MemberOf(dd, v, x.group)
          /\ m.path = GroupBuffer(v, x.group) /\ m.fields = {[key |-> x.key, from |-> u]}
    BY <1>5 DEF IsBadge
  <2>2. PICK v \in User \ {u} :
          /\ x.from = u /\ MemberOf(dd, v, x.group)
          /\ m.path = GroupBuffer(v, x.group) /\ m.fields = {[key |-> x.key, from |-> u]}
    BY <2>1
  <2>3. m.path.owner = v /\ m.path.group = x.group
    BY <2>2, Paths
  <2> QED  BY <2>2, <2>3
<1> QED  BY <1>1, <1>2, <1>3, <1>4, <1>5 DEF WrittenBy

LEMMA PriorKeys == Lemmas!KeysNeeded(PriorWrites, PermanentKeys)
<1>1. ASSUME NEW u \in User, NEW m \in Mutation, NEW r \in PriorWrites[u][m]
      PROVE  r[1] \in GroupPath /\ r[2] \in PermanentKeys[r[1]]
  <2>1. m.path \in GroupPath /\ r \in Prior(u, m)
    BY DEF Mutation, PriorWrites
  <2>2. m.path.coll = "ChatBuffer"
    BY <2>1 DEF Prior
  <2>3. m.path.group \in Group
    BY <2>1, <2>2, PathTypes
  <2>4. \E f \in Msg : \/ r = <<RoomConversation(m.path.group), f.key>>
                       \/ r = <<OwnConversation(u, m.path.group), f.key>>
    BY <2>1, <2>2 DEF Prior
  <2> QED  BY <2>3, <2>4, PathTypes, KeysOfPath, FieldTypes
<1> QED  BY <1>1, SameTypes DEF Lemmas!KeysNeeded
-----------------------------------------------------------------------------
(***************************************************************************)
(* Every step of the network keeps what is said of the client.             *)
(***************************************************************************)
\* What is committed, or is about to be, may be in the document it is for.
LEMMA CommittedFits ==
  ASSUME Types, QueuesOK, NEW u \in User, NEW n \in 1..Len(mutationQueue[u]),
         n = applied[u] + 1 \/ n \in 1..applied[u],
         NEW f \in mutationQueue[u][n].fields
  PROVE  Fits(docs, founded, sent, mutationQueue[u][n].path, f)
<1>1. Lemmas!FsTypeOK /\ Lemmas!FirestoreAssumption /\ Lemmas!KeysKept(PermanentKeys)
      /\ Lemmas!InOrder(PriorWrites)
  BY SameTypes DEF Types, QueuesOK
<1>2. PICK m \in Mutation : m = mutationQueue[u][n]
  BY <1>1, SameTypes DEF Lemmas!FsTypeOK
<1>3. m.path \in GroupPath /\ f \in m.fields
  BY <1>2 DEF Mutation
<1>4. WrittenBy(docs, founded, sent, u, m)
  BY <1>2 DEF QueuesOK
<1>5. ASSUME m.path.coll = "Group" PROVE f \in Members(founded, m.path.group)
  <2>1. m.path.group \in Group /\ m.path = GroupDoc(m.path.group)
    BY <1>3, <1>5, PathTypes
  <2> QED  BY <1>3, <1>4, <2>1, GroupWrites
<1>6. ASSUME m.path.coll = "Friends" PROVE MemberOf(docs, m.path.owner, m.path.group)
  BY <1>4, <1>6, EntryWrites
<1>7. ASSUME m.path.coll = "ChatBuffer"
      PROVE  TrueBadge(docs, sent, m.path.owner, m.path.group, f)
  <2>1. PICK g \in Group : g = m.path.group
    BY <1>3, <1>7, PathTypes
  <2>2. m.path.owner # u /\ MemberOf(docs, m.path.owner, g)
        /\ \E x \in sent : /\ x.from = u /\ x.group = g
                           /\ m.fields = {[key |-> x.key, from |-> u]}
    BY <1>3, <1>4, <1>7, <2>1, BadgeWrites
  <2>3. PICK x \in sent : x.from = u /\ x.group = g /\ m.fields = {[key |-> x.key, from |-> u]}
    BY <2>2
  <2>4. PICK t \in Time : t = x.key
    BY DEF Types
  <2>5. f = [key |-> t, from |-> u] /\ f.key = t /\ f.from = u /\ f \in Msg
    BY <1>3, <2>3, <2>4, FieldTypes
  <2>6. ASSUME NEW p \in GroupPath, t \in PermanentKeys[p],
               <<p, t>> \in Prior(u, m)
        PROVE  Lemmas!Has(docs[p], t)
    <3>1. PICK r : r = <<p, t>>
      OBVIOUS
    <3>2. r \in PriorWrites[u][m]
      BY <2>6, <3>1 DEF PriorWrites
    <3>3. Lemmas!Before(docs[r[1]], mutationQueue[u], n, r[1], r[2])
      BY <1>1, <1>2, <3>2 DEF Lemmas!InOrder
    <3>4. Lemmas!Before(docs[p], mutationQueue[u], n, p, t)
      BY <3>1, <3>3
    <3> QED  BY <1>1, <2>6, <3>4, Lemmas!CommittedBefore
  <2>7. <<RoomConversation(g), t>> \in Prior(u, m) /\ <<OwnConversation(u, g), t>> \in Prior(u, m)
    BY <1>3, <1>7, <2>1, <2>5 DEF Prior
  <2>8. Lemmas!Has(docs[RoomConversation(g)], t) /\ Lemmas!Has(docs[OwnConversation(u, g)], t)
    BY <2>6, <2>7, KeysOfPath, PathTypes
  <2> QED  BY <2>1, <2>2, <2>3, <2>4, <2>5, <2>8 DEF TrueBadge
<1> QED  BY <1>2, <1>5, <1>6, <1>7 DEF Fits

\* Only the whole group's document can be committed.
LEMMA NetworkGroups ==
  ASSUME Types, QueuesOK, DocsRight, Lemmas!NetworkStep, NEW g \in Group
  PROVE  docs'[GroupDoc(g)] = docs[GroupDoc(g)] \/ docs'[GroupDoc(g)] = Members(founded, g)
<1>1. Lemmas!FsTypeOK /\ GroupDoc(g) \in GroupPath
  BY PathTypes DEF Types
<1>2. ASSUME NEW d \in User, NEW n \in 1..Len(mutationQueue[d]),
             mutationQueue[d][n].path = GroupDoc(g),
             docs'[GroupDoc(g)] = Lemmas!ApplyTo(mutationQueue[d][n], docs[GroupDoc(g)])
      PROVE  docs'[GroupDoc(g)] = Members(founded, g)
  <2>1. WrittenBy(docs, founded, sent, d, mutationQueue[d][n])
    BY DEF QueuesOK
  <2>2. mutationQueue[d][n].fields = Members(founded, g) /\ ~mutationQueue[d][n].merge
    BY <1>2, <2>1, GroupWrites
  <2> QED  BY <1>2, <2>2 DEF Lemmas!ApplyTo, Lemmas!Overwrites
<1> QED  BY <1>1, <1>2, SameTypes, Lemmas!NetworkDocs

LEMMA GroupFields ==
  ASSUME DocsRight, NEW g \in Group
  PROVE  docs[GroupDoc(g)] \subseteq Members(founded, g)
<1>1. GroupDoc(g) \in GroupPath /\ GroupDoc(g).coll = "Group" /\ GroupDoc(g).group = g
  BY Paths, PathTypes
<1> QED  BY <1>1 DEF DocsRight, Fits

LEMMA SomeMember ==
  ASSUME Types, NEW g \in Group, founded[g] # << >>
  PROVE  Members(founded, g) # {}
<1>1. founded[g] \in User \X ((SUBSET User) \ {{}})
  BY DEF Types
<1>2. PICK o \in User, S \in (SUBSET User) \ {{}} : founded[g] = <<o, S>>
  BY <1>1
<1>3. founded[g][1] = o /\ founded[g][2] = S
  BY <1>2
<1>4. PICK v \in S : v \in User
  OBVIOUS
<1>5. [key |-> v, from |-> o] \in Members(founded, g)
  BY <1>3, <1>4 DEF Members
<1> QED  BY <1>5

LEMMA NetworkGrows ==
  ASSUME Types, QueuesOK, DocsRight, Lemmas!NetworkStep, UNCHANGED <<founded, sent>>
  PROVE  Grows(docs, founded, sent, docs', founded', sent')
<1>1. Lemmas!FsTypeOK /\ Lemmas!FirestoreAssumption /\ Lemmas!KeysKept(PermanentKeys)
  BY SameTypes DEF Types, QueuesOK
<1>2. ASSUME NEW g \in Group PROVE docs[GroupDoc(g)] \subseteq docs'[GroupDoc(g)]
  BY <1>2, NetworkGroups, GroupFields
<1>3. \A g \in Group : \A v : MemberOf(docs, v, g) => MemberOf(docs', v, g)
  BY <1>2 DEF MemberOf, KeysOf
<1>4. Lemmas!KeysGrow(PermanentKeys)
  BY <1>1, Lemmas!NetworkKeepsKeys
<1>5. \A p \in GroupPath : \A k \in PermanentKeys[p] : Lemmas!Has(docs[p], k) => Lemmas!Has(docs'[p], k)
  BY <1>4 DEF Lemmas!KeysGrow
<1>6. \A g \in Group : \A k \in Time :
        Lemmas!Has(docs[RoomConversation(g)], k) => Lemmas!Has(docs'[RoomConversation(g)], k)
  BY <1>5, PathTypes, KeysOfPath
<1>7. \A g \in Group : \A u \in User : \A k \in Time :
        Lemmas!Has(docs[OwnConversation(u, g)], k) => Lemmas!Has(docs'[OwnConversation(u, g)], k)
  BY <1>5, PathTypes, KeysOfPath
<1> QED  BY <1>2, <1>3, <1>6, <1>7 DEF Grows

LEMMA NextWrites ==
  (\A u \in User : \A i \in 1..Len(mutationQueue[u]) :
     WrittenBy(docs, founded, sent, u, mutationQueue[u][i]))'
  <=> \A u \in User : \A i \in 1..Len(mutationQueue'[u]) :
        WrittenBy(docs', founded', sent', u, mutationQueue'[u][i])
  BY DEF WrittenBy, IsGroup, IsEntry, IsCopy, IsBadge, IsClear, MemberOf, Members

LEMMA NextDocsRight ==
  DocsRight' <=>
    \A p \in GroupPath :
      /\ \A f \in docs'[p] : Fits(docs', founded', sent', p, f)
      /\ \A u \in User : \A f \in remoteDocs'[u][p] : Fits(docs', founded', sent', p, f)
  BY DEF DocsRight, Fits, TrueBadge, MemberOf, Members, Lemmas!Has

LEMMA NetworkKeepsQueues ==
  ASSUME Types, QueuesOK, DocsRight, Lemmas!NetworkStep, UNCHANGED <<founded, sent>>
  PROVE  QueuesOK'
<1>1. Lemmas!FsTypeOK /\ sent \in SUBSET Message
  BY DEF Types, Message
<1>2. (Lemmas!KeysKept(PermanentKeys))'
  BY <1>1, SameTypes, Lemmas!NetworkKeepsKeys DEF QueuesOK
<1>3. (Lemmas!InOrder(PriorWrites))'
  BY <1>1, SameTypes, PriorKeys, Lemmas!NetworkKeepsOrder DEF QueuesOK
<1>4. ASSUME NEW u \in User, NEW i \in 1..Len(mutationQueue'[u])
      PROVE  WrittenBy(docs', founded', sent', u, mutationQueue'[u][i])
  <2>1. PICK j \in 1..Len(mutationQueue[u]) : mutationQueue'[u][i] = mutationQueue[u][j]
    BY <1>1, SameTypes, Lemmas!NetworkEntries
  <2>2. WrittenBy(docs, founded, sent, u, mutationQueue[u][j])
    BY DEF QueuesOK
  <2> QED  BY <1>1, <2>1, <2>2, NetworkGrows, WritesGrow
<1> QED  BY <1>2, <1>3, <1>4, NextWrites DEF QueuesOK

LEMMA NetworkKeepsDocs ==
  ASSUME Types, QueuesOK, DocsRight, Lemmas!NetworkStep, UNCHANGED <<founded, sent>>
  PROVE  DocsRight'
<1>1. Lemmas!FsTypeOK /\ sent \in SUBSET Message
  BY DEF Types, Message
<1>2. ASSUME NEW p \in GroupPath, NEW f, Fits(docs, founded, sent, p, f)
      PROVE  Fits(docs', founded', sent', p, f)
  BY <1>1, <1>2, NetworkGrows, FitsGrow
<1>3. ASSUME NEW m, NEW doc, NEW f \in Lemmas!ApplyTo(m, doc) PROVE f \in m.fields \/ f \in doc
  BY DEF Lemmas!ApplyTo
<1>4. ASSUME NEW p \in GroupPath, NEW f \in docs'[p] PROVE Fits(docs, founded, sent, p, f)
  <2>1. CASE f \in docs[p]
    BY <2>1 DEF DocsRight
  <2>2. CASE f \notin docs[p]
    <3>1. PICK d \in User : \E n \in 1..Len(mutationQueue[d]) :
            /\ n = applied[d] + 1 /\ mutationQueue[d][n].path = p
            /\ f \in mutationQueue[d][n].fields
      BY <1>1, <1>3, <2>2, SameTypes, Lemmas!NetworkDocs
    <3> QED  BY <3>1, CommittedFits
  <2> QED  BY <2>1, <2>2
<1>5. ASSUME NEW p \in GroupPath, NEW u \in User, NEW f \in remoteDocs'[u][p]
      PROVE  Fits(docs, founded, sent, p, f)
  <2>1. CASE f \in docs[p] \/ f \in remoteDocs[u][p]
    BY <2>1 DEF DocsRight
  <2>2. CASE ~(f \in docs[p] \/ f \in remoteDocs[u][p])
    <3>1. /\ Lemmas!Acknowledge(u) /\ mutationQueue[u][1].path = p
          /\ f \in mutationQueue[u][1].fields
      BY <1>1, <1>3, <2>2, SameTypes, Lemmas!NetworkCaches
    <3>2. 1 \in 1..applied[u] /\ 1 \in 1..Len(mutationQueue[u])
      <4>1. /\ applied[u] \in Nat /\ persisted[u] \in Nat /\ Len(mutationQueue[u]) \in Nat
            /\ applied[u] <= persisted[u] /\ persisted[u] <= Len(mutationQueue[u])
        BY <1>1 DEF Lemmas!FsTypeOK
      <4> QED  BY <3>1, <4>1 DEF Lemmas!Acknowledge
    <3> QED  BY <3>1, <3>2, CommittedFits
  <2> QED  BY <2>1, <2>2
<1> QED  BY <1>2, <1>4, <1>5, NextDocsRight

LEMMA NextGroupsWhole ==
  GroupsWhole' <=>
    /\ \A g \in Group : docs'[GroupDoc(g)] # {} => Members(founded', g) \subseteq docs'[GroupDoc(g)]
    /\ \A u \in User : \A i \in 1..applied'[u] : \A g \in Group :
         mutationQueue'[u][i].path = GroupDoc(g) => docs'[GroupDoc(g)] # {}
  BY DEF GroupsWhole, Members

LEMMA NetworkKeepsGroups ==
  ASSUME Types, QueuesOK, DocsRight, GroupsWhole, Lemmas!NetworkStep, UNCHANGED <<founded, sent>>
  PROVE  GroupsWhole'
<1>1. Lemmas!FsTypeOK
  BY DEF Types
<1>2. ASSUME NEW g \in Group, docs'[GroupDoc(g)] # {}
      PROVE  Members(founded', g) \subseteq docs'[GroupDoc(g)]
  BY <1>2, NetworkGroups DEF GroupsWhole
<1>3. ASSUME NEW u \in User, NEW i \in 1..applied'[u], NEW g \in Group,
             mutationQueue'[u][i].path = GroupDoc(g)
      PROVE  docs'[GroupDoc(g)] # {}
  <2>1. CASE \E j \in 1..applied[u] : mutationQueue'[u][i] = mutationQueue[u][j]
    <3>1. docs[GroupDoc(g)] # {}
      BY <1>3, <2>1 DEF GroupsWhole
    <3> QED  BY <3>1, NetworkGrows DEF Grows
  <2>2. CASE /\ Lemmas!Commit(u) /\ i = applied[u] + 1 /\ i \in 1..Len(mutationQueue[u])
             /\ mutationQueue'[u][i] = mutationQueue[u][i]
    <3>1. mutationQueue[u][i].path = GroupDoc(g) /\ GroupDoc(g) \in GroupPath
      BY <1>3, <2>2, PathTypes
    <3>2. WrittenBy(docs, founded, sent, u, mutationQueue[u][i])
      BY <2>2 DEF QueuesOK
    <3>3. founded[g] # << >> /\ mutationQueue[u][i].fields = Members(founded, g)
          /\ ~mutationQueue[u][i].merge
      BY <3>1, <3>2, GroupWrites
    <3>4. docs'[GroupDoc(g)] = Lemmas!ApplyTo(mutationQueue[u][i], docs[GroupDoc(g)])
      BY <1>1, <2>2, <3>1 DEF Lemmas!Commit, Lemmas!FsTypeOK
    <3>5. docs'[GroupDoc(g)] = Members(founded, g)
      BY <3>3, <3>4 DEF Lemmas!ApplyTo, Lemmas!Overwrites
    <3> QED  BY <3>3, <3>5, SomeMember
  <2> QED  BY <1>1, <2>1, <2>2, SameTypes, Lemmas!NetworkCommits
<1> QED  BY <1>2, <1>3, NextGroupsWhole
-----------------------------------------------------------------------------
(***************************************************************************)
(* So does every write of the screens.                                     *)
(***************************************************************************)
LEMMA WriteKeepsClient ==
  ASSUME Types, QueuesOK, DocsRight, GroupsWhole, NEW u \in User, NEW ms \in Seq(Mutation),
         LocallyWrite(u, ms),
         \A g \in Group : founded[g] # << >> => founded'[g] = founded[g],
         sent \subseteq sent',
         \A i \in 1..Len(ms) : WrittenBy(docs, founded', sent', u, ms[i]),
         \A i \in 1..Len(ms) : \A r \in Prior(u, ms[i]) : Lemmas!WillHave(u, r[1], r[2])
  PROVE  /\ Lemmas!FsTypeOK'
         /\ Grows(docs, founded, sent, docs', founded', sent')
         /\ QueuesOK' /\ DocsRight' /\ GroupsWhole'
<1>1. /\ Lemmas!FsTypeOK /\ Lemmas!LocallyWrite(u, ms) /\ Lemmas!FirestoreAssumption
      /\ ms \in Seq(Lemmas!Mutation) /\ sent \in SUBSET Message
  BY SameTypes, SameWrite DEF Types, Message
<1>2. Lemmas!FsTypeOK'
  BY <1>1, Lemmas!LocallyWriteType
<1>3. UNCHANGED <<docs, remoteDocs, applied>>
  BY DEF LocallyWrite
<1>4. Grows(docs, founded, sent, docs', founded', sent')
  BY <1>3 DEF Grows
<1>5. (Lemmas!KeysKept(PermanentKeys))'
  <2>1. \A i \in 1..Len(ms) : Lemmas!KeepsKeys(ms[i], PermanentKeys)
    BY WritesKeepKeys
  <2> QED  BY <1>1, <2>1, Lemmas!WriteKeepsKeys DEF QueuesOK
<1>6. (Lemmas!InOrder(PriorWrites))'
  <2>1. \A i \in 1..Len(ms) : PriorWrites[u][ms[i]] = Prior(u, ms[i])
    BY DEF PriorWrites
  <2>2. \A i \in 1..Len(ms) : \A r \in PriorWrites[u][ms[i]] :
          Lemmas!WillHave(u, r[1], r[2]) \/ Lemmas!Before({}, ms, i, r[1], r[2])
    BY <2>1
  <2> QED  BY <1>1, <2>2, Lemmas!WriteKeepsOrder DEF QueuesOK
<1>7. ASSUME NEW w \in User, NEW i \in 1..Len(mutationQueue'[w])
      PROVE  WrittenBy(docs', founded', sent', w, mutationQueue'[w][i])
  <2>1. CASE \E j \in 1..Len(mutationQueue[w]) : mutationQueue'[w][i] = mutationQueue[w][j]
    <3>1. PICK j \in 1..Len(mutationQueue[w]) : mutationQueue'[w][i] = mutationQueue[w][j]
      BY <2>1
    <3>2. WrittenBy(docs, founded, sent, w, mutationQueue[w][j])
      BY DEF QueuesOK
    <3> QED  BY <1>1, <1>4, <3>1, <3>2, WritesGrow
  <2>2. CASE w = u /\ \E j \in 1..Len(ms) : mutationQueue'[w][i] = ms[j]
    BY <1>3, <2>2
  <2> QED  BY <1>1, <2>1, <2>2, Lemmas!WriteEntries
<1>8. QueuesOK'
  BY <1>5, <1>6, <1>7, NextWrites DEF QueuesOK
<1>9. DocsRight'
  <2>1. ASSUME NEW p \in GroupPath, NEW f, Fits(docs, founded, sent, p, f)
        PROVE  Fits(docs', founded', sent', p, f)
    BY <1>1, <1>4, <2>1, FitsGrow
  <2>2. ASSUME NEW p \in GroupPath, NEW f \in docs'[p] PROVE Fits(docs', founded', sent', p, f)
    BY <1>3, <2>1 DEF DocsRight
  <2>3. ASSUME NEW p \in GroupPath, NEW w \in User, NEW f \in remoteDocs'[w][p]
        PROVE  Fits(docs', founded', sent', p, f)
    BY <1>3, <2>1 DEF DocsRight
  <2> QED  BY <2>2, <2>3, NextDocsRight
<1>10. GroupsWhole'
  <2>1. ASSUME NEW g \in Group, docs'[GroupDoc(g)] # {}
        PROVE  Members(founded', g) \subseteq docs'[GroupDoc(g)]
    <3>1. docs[GroupDoc(g)] # {} /\ docs[GroupDoc(g)] \subseteq Members(founded, g)
      BY <1>3, <2>1, GroupFields
    <3>2. founded[g] # << >>
      BY <3>1 DEF Members
    <3>3. Members(founded', g) = Members(founded, g)
      BY <3>2, MembersGrow
    <3> QED  BY <1>3, <3>1, <3>3 DEF GroupsWhole
  <2>2. ASSUME NEW w \in User, NEW i \in 1..applied'[w], NEW g \in Group,
               mutationQueue'[w][i].path = GroupDoc(g)
        PROVE  docs'[GroupDoc(g)] # {}
    <3>1. i \in 1..applied[w] /\ i \in 1..Len(mutationQueue[w])
      BY <1>1, <1>3 DEF Lemmas!FsTypeOK
    <3>2. mutationQueue'[w][i] = mutationQueue[w][i]
      <4>1. PICK q \in Seq(Mutation) : q = mutationQueue[w]
        BY <1>1, SameTypes DEF Lemmas!FsTypeOK
      <4>2. mutationQueue'[w] = q \/ mutationQueue'[w] = q \o ms
        BY <4>1, <1>1 DEF LocallyWrite, Lemmas!FsTypeOK
      <4>3. (q \o ms)[i] = q[i]
        BY <3>1, <4>1, SameTypes, Lemmas!ConcatQueues
      <4> QED  BY <4>1, <4>2, <4>3
    <3> QED  BY <1>3, <2>2, <3>1, <3>2 DEF GroupsWhole
  <2> QED  BY <2>1, <2>2, NextGroupsWhole
<1> QED  BY <1>2, <1>4, <1>8, <1>9, <1>10
-----------------------------------------------------------------------------
(***************************************************************************)
(* What the snapshots say.                                                 *)
(***************************************************************************)
Shows(remote, queue, u, g) ==
  /\ remote[GroupBuffer(u, g)] # {}
  /\ \A i \in 1..Len(queue) : queue[i].path # GroupBuffer(u, g)

\* A device sees its own badges as the cache has them, until it deletes them.
LEMMA UnreadIs ==
  ASSUME NEW u \in User, NEW remote \in [GroupPath -> Document], NEW queue \in Seq(Mutation),
         NEW dd, NEW fd, NEW ss, \A i \in 1..Len(queue) : WrittenBy(dd, fd, ss, u, queue[i])
  PROVE  Unread([g \in Group |-> LocalView(remote[GroupBuffer(u, g)], queue, GroupBuffer(u, g))])
           = {g \in Group : Shows(remote, queue, u, g)}
<1>1. ASSUME NEW g \in Group
      PROVE  LocalView(remote[GroupBuffer(u, g)], queue, GroupBuffer(u, g)) # {}
               <=> Shows(remote, queue, u, g)
  <2>1. PICK p \in GroupPath : p = GroupBuffer(u, g) /\ p.coll = "ChatBuffer" /\ p.owner = u
    BY Paths, PathTypes
  <2>2. \A i \in 1..Len(queue) : queue[i].path = p => queue[i].fields = {} /\ ~queue[i].merge
    BY <2>1, BadgeWrites
  <2>3. remote[p] \in Lemmas!Document /\ queue \in Seq(Lemmas!Mutation)
    BY SameTypes
  <2>4. Lemmas!LocalView(remote[p], queue, p) =
          IF \E i \in 1..Len(queue) : queue[i].path = p THEN {} ELSE remote[p]
    BY <2>2, <2>3, SameTypes, Lemmas!ViewOfDeletes
  <2>5. LocalView(remote[p], queue, p) = Lemmas!LocalView(remote[p], queue, p)
    BY SameView
  <2> QED  BY <2>1, <2>4, <2>5 DEF Shows
<1> QED  BY <1>1 DEF Unread

LEMMA UnreadNow ==
  ASSUME Types, QueuesOK, NEW u \in User
  PROVE  Unread(BufferView(u)) = {g \in Group : Shows(remoteDocs[u], mutationQueue[u], u, g)}
<1>1. remoteDocs[u] \in [GroupPath -> Document] /\ mutationQueue[u] \in Seq(Mutation)
  BY SameTypes DEF Types, Lemmas!FsTypeOK
<1>2. \A i \in 1..Len(mutationQueue[u]) : WrittenBy(docs, founded, sent, u, mutationQueue[u][i])
  BY DEF QueuesOK
<1>3. BufferView(u) = [g \in Group |-> LocalView(remoteDocs[u][GroupBuffer(u, g)],
                                                 mutationQueue[u], GroupBuffer(u, g))]
  BY DEF BufferView, View
<1> QED  BY <1>1, <1>2, <1>3, UnreadIs

LEMMA UnreadNext ==
  ASSUME Lemmas!FsTypeOK', QueuesOK', NEW u \in User
  PROVE  Unread(NewBufferView(u)) = {g \in Group : Shows(remoteDocs'[u], mutationQueue'[u], u, g)}
<1>1. remoteDocs'[u] \in [GroupPath -> Document] /\ mutationQueue'[u] \in Seq(Mutation)
  BY SameTypes DEF Lemmas!FsTypeOK
<1>2. \A i \in 1..Len(mutationQueue'[u]) : WrittenBy(docs', founded', sent', u, mutationQueue'[u][i])
  BY NextWrites DEF QueuesOK
<1>3. NewBufferView(u) = [g \in Group |-> LocalView(remoteDocs'[u][GroupBuffer(u, g)],
                                                    mutationQueue'[u], GroupBuffer(u, g))]
  BY DEF NewBufferView
<1> QED  BY <1>1, <1>2, <1>3, UnreadIs

LEMMA NewView ==
  ASSUME NEW u
  PROVE  Unread(BufferView(u))' = Unread(NewBufferView(u))
  BY DEF BufferView, NewBufferView, View, Unread, LocalView, Survives, Overwrites

\* A badge in a cache is one of the user's.
LEMMA BadgesSeen ==
  ASSUME NEW dd, NEW fd, NEW ss, NEW u \in User, NEW remote, NEW queue, NEW g \in Group,
         \A p \in GroupPath : \A f \in remote[p] : Fits(dd, fd, ss, p, f),
         Shows(remote, queue, u, g)
  PROVE  HasBadge(dd, ss, u, g)
<1>1. PICK p \in GroupPath : /\ p = GroupBuffer(u, g) /\ p.coll = "ChatBuffer"
                             /\ p.owner = u /\ p.group = g
  BY Paths, PathTypes
<1>2. PICK f \in remote[p] : TRUE
  BY <1>1 DEF Shows
<1>3. TrueBadge(dd, ss, u, g, f)
  BY <1>1 DEF Fits
<1> QED  BY <1>3 DEF TrueBadge, HasBadge

LEMMA SnapshotNow ==
  ASSUME Types, QueuesOK, DocsRight, NEW u \in User
  PROVE  /\ Unread(BufferView(u)) \in SUBSET Group
         /\ \A g \in Unread(BufferView(u)) : HasBadge(docs, sent, u, g)
<1>1. \A p \in GroupPath : \A f \in remoteDocs[u][p] : Fits(docs, founded, sent, p, f)
  BY DEF DocsRight
<1> QED  BY <1>1, UnreadNow, BadgesSeen

LEMMA SnapshotNext ==
  ASSUME Lemmas!FsTypeOK', QueuesOK', DocsRight', NEW u \in User
  PROVE  /\ Unread(NewBufferView(u)) \in SUBSET Group
         /\ \A g \in Unread(NewBufferView(u)) : HasBadge(docs', sent', u, g)
<1>1. \A p \in GroupPath : \A f \in remoteDocs'[u][p] : Fits(docs', founded', sent', p, f)
  BY NextDocsRight
<1> QED  BY <1>1, UnreadNext, BadgesSeen
-----------------------------------------------------------------------------
(***************************************************************************)
(* Sets in some order, and the greatest of a set of groups.                *)
(***************************************************************************)
LEMMA OrderedType ==
  ASSUME NEW S, IsFiniteSet(S)
  PROVE  /\ \E n \in Nat : SetToSeq(S) \in [1..n -> S]
         /\ \A s \in SetToSeqs(S) : s \in Seq(S)
<1>1. PICK n \in Nat : n = Cardinality(S) /\ ExistsBijection(1..n, S)
  BY FS_CardinalityType
<1>2. PICK f \in [1..n -> S] : IsInjective(f)
  BY <1>1 DEF ExistsBijection, Bijection, Injection, IsInjective
<1>3. SetToSeq(S) = CHOOSE s \in [1..n -> S] : IsInjective(s)
  BY <1>1 DEF SetToSeq
<1>4. SetToSeq(S) \in [1..n -> S]
  BY <1>2, <1>3
<1>5. \A s \in SetToSeqs(S) : s \in [1..n -> S]
  BY <1>1 DEF SetToSeqs
<1> QED  BY <1>4, <1>5

LEMMA Greatest ==
  ASSUME NEW S \in SUBSET Group, S # {}
  PROVE  Max(S) \in S
<1> DEFINE Bounded(R) == \E b \in Nat : \A x \in R : x <= b
           Wrong == {k \in Nat : \E R \in SUBSET Group : Cardinality(R) = k /\ ~Bounded(R)}
<1>1. Group \subseteq Nat /\ IsFiniteSet(Group)
  BY GroupAssumption
<1>2. \A R \in SUBSET Group : IsFiniteSet(R) /\ Cardinality(R) \in Nat
  BY <1>1, FS_Subset, FS_CardinalityType
<1>3. Wrong = {}
  <2> SUFFICES ASSUME Wrong # {} PROVE FALSE
    OBVIOUS
  <2>1. PICK k \in Wrong : \A l \in Wrong : k <= l
    <3>1. Wrong \in SUBSET Nat
      OBVIOUS
    <3> HIDE DEF Wrong
    <3> QED  BY <3>1, SameTypes, Lemmas!Smallest
  <2>2. PICK R \in SUBSET Group : Cardinality(R) = k /\ ~Bounded(R)
    OBVIOUS
  <2>3. PICK x \in R : x \in Nat
    BY <1>1, <2>2
  <2>4. R \ {x} \in SUBSET Group /\ Cardinality(R \ {x}) = k - 1 /\ Cardinality(R \ {x}) \in Nat
    BY <1>2, <2>2, FS_RemoveElement
  <2>5. Bounded(R \ {x})
    BY <2>1, <2>4
  <2>6. PICK b \in Nat : \A y \in R \ {x} : y <= b
    BY <2>5
  <2>7. CASE x <= b
    <3>1. \A y \in R : y <= b
      BY <2>6, <2>7
    <3> QED  BY <2>2, <3>1
  <2>8. CASE ~(x <= b)
    <3>1. \A y \in R : y \in Nat /\ (y = x \/ y <= b)
      BY <1>1, <2>6
    <3>2. \A y \in R : y <= x
      BY <2>3, <2>8, <3>1
    <3> QED  BY <2>2, <2>3, <3>2
  <2> QED  BY <2>7, <2>8
<1>4. Bounded(S)
  BY <1>2, <1>3
<1> DEFINE B == {b \in Nat : \A x \in S : x <= b}
<1>5. PICK b \in B : \A c \in B : b <= c
  <2>1. B \in SUBSET Nat /\ B # {}
    BY <1>4
  <2> HIDE DEF B
  <2> QED  BY <2>1, SameTypes, Lemmas!Smallest
<1>6. b \in S
  <2> SUFFICES ASSUME b \notin S PROVE FALSE
    OBVIOUS
  <2>1. \A x \in S : x \in Nat /\ x <= b - 1
    BY <1>1
  <2>2. b - 1 \in B
    BY <2>1
  <2> QED  BY <1>5, <2>2
<1>7. \A y \in S : b >= y
  BY <1>1
<1> QED  BY <1>6, <1>7 DEF Max

LEMMA BadgeIsOfGroup ==
  ASSUME NEW groups \in SUBSET Group, NEW shown \in SUBSET Group
  PROVE  BadgeOf(groups, shown) \subseteq groups \cup shown
  BY Greatest DEF BadgeOf
-----------------------------------------------------------------------------
(***************************************************************************)
(* Main queues.                                                            *)
(***************************************************************************)
LEMMA Blocks ==
  /\ \A e \in Snapshots : e.kind = "buffer" /\ e.groups \in SUBSET Group
  /\ \A e \in Badges : e.kind = "badges" /\ e.vc \in Nat /\ e.msg \in Msg
  /\ \A e \in Added : e.kind = "added" /\ e.group \in Group /\ e.friends \in Seq(User)
  /\ \A e \in Block : \/ e.kind = "buffer" /\ e \in Snapshots
                      \/ e.kind = "badges" /\ e \in Badges
                      \/ e.kind = "added" /\ e \in Added
<1>1. \A e \in Snapshots : e.kind = "buffer" /\ e.groups \in SUBSET Group
  BY DEF Snapshots
<1>2. \A e \in Badges : e.kind = "badges" /\ e.vc \in Nat /\ e.msg \in Msg
  BY DEF Badges
<1>3. \A e \in Added : e.kind = "added" /\ e.group \in Group /\ e.friends \in Seq(User)
  BY DEF Added
<1> QED  BY <1>1, <1>2, <1>3 DEF Block

LEMMA TailOfBlocks ==
  ASSUME NEW q \in Seq(Block), q # << >>
  PROVE  /\ Tail(q) \in Seq(Block) /\ Head(q) = q[1] /\ q[1] \in Block
         /\ Len(q) \in Nat /\ Len(q) > 0 /\ Len(Tail(q)) = Len(q) - 1
         /\ \A i \in 1..Len(Tail(q)) : i + 1 \in 1..Len(q) /\ Tail(q)[i] = q[i + 1]
  OBVIOUS

LEMMA ConcatBlocks ==
  ASSUME NEW q \in Seq(Block), NEW r \in Seq(Block)
  PROVE  /\ q \o r \in Seq(Block)
         /\ Len(q) \in Nat /\ Len(r) \in Nat /\ Len(q \o r) = Len(q) + Len(r)
         /\ \A i \in 1..Len(q \o r) :
              \/ i \in 1..Len(q) /\ (q \o r)[i] = q[i]
              \/ i > Len(q) /\ i - Len(q) \in 1..Len(r) /\ (q \o r)[i] = r[i - Len(q)]
<1>1. /\ q \o r \in Seq(Block)
      /\ Len(q) \in Nat /\ Len(r) \in Nat /\ Len(q \o r) = Len(q) + Len(r)
  OBVIOUS
<1>2. ASSUME NEW i \in 1..Len(q \o r), i <= Len(q)
      PROVE  i \in 1..Len(q) /\ (q \o r)[i] = q[i]
  BY <1>1, <1>2
<1>3. ASSUME NEW i \in 1..Len(q \o r), i > Len(q)
      PROVE  i - Len(q) \in 1..Len(r) /\ (q \o r)[i] = r[i - Len(q)]
  BY <1>1, <1>3
<1>4. \A i \in 1..Len(q \o r) : i <= Len(q) \/ i > Len(q)
  BY <1>1
<1> QED  BY <1>1, <1>2, <1>3, <1>4

LEMMA ToldTail ==
  ASSUME NEW q \in Seq(Block), q # << >>, NEW unread, NEW shown, NEW next,
         Told(unread, q, shown),
         next = IF Head(q).kind = "buffer" THEN BadgeOf(Head(q).groups, shown) ELSE shown
  PROVE  Told(unread, Tail(q), next)
<1>1. /\ Head(q) = q[1] /\ Len(q) \in Nat /\ Len(q) > 0 /\ Len(Tail(q)) = Len(q) - 1
      /\ \A i \in 1..Len(Tail(q)) : i + 1 \in 1..Len(q) /\ Tail(q)[i] = q[i + 1]
  BY TailOfBlocks
<1>2. CASE \A j \in 1..Len(q) : q[j].kind # "buffer"
  <2>1. Head(q).kind # "buffer" /\ next = shown
    BY <1>1, <1>2
  <2>2. \A j \in 1..Len(Tail(q)) : Tail(q)[j].kind # "buffer"
    BY <1>1, <1>2
  <2>3. unread = {} \/ shown = {Max(unread)}
    BY <1>2 DEF Told
  <2> QED  BY <2>1, <2>2, <2>3 DEF Told
<1>3. ASSUME NEW i \in 1..Len(q), q[i].kind = "buffer", q[i].groups = unread,
             \A j \in (i + 1)..Len(q) : q[j].kind # "buffer"
      PROVE  Told(unread, Tail(q), next)
  <2>1. CASE i = 1
    <3>1. \A j \in 1..Len(Tail(q)) : j + 1 \in (i + 1)..Len(q)
      BY <1>1, <2>1
    <3>2. \A j \in 1..Len(Tail(q)) : Tail(q)[j].kind # "buffer"
      BY <1>1, <1>3, <3>1
    <3>3. unread = {} \/ next = {Max(unread)}
      BY <1>1, <1>3, <2>1 DEF BadgeOf
    <3> QED  BY <3>2, <3>3 DEF Told
  <2>2. CASE i # 1
    <3>1. PICK l \in 1..Len(Tail(q)) : i = l + 1
      <4>1. i - 1 \in 1..Len(Tail(q)) /\ i = (i - 1) + 1
        BY <1>1, <2>2
      <4> QED  BY <4>1
    <3>2. Tail(q)[l].kind = "buffer" /\ Tail(q)[l].groups = unread
      BY <1>1, <1>3, <3>1
    <3>3. \A j \in (l + 1)..Len(Tail(q)) : j \in 1..Len(Tail(q)) /\ j + 1 \in (i + 1)..Len(q)
      BY <1>1, <3>1
    <3>4. \A j \in (l + 1)..Len(Tail(q)) : Tail(q)[j].kind # "buffer"
      BY <1>1, <1>3, <3>3
    <3> QED  BY <3>2, <3>4 DEF Told
  <2> QED  BY <2>1, <2>2
<1> QED  BY <1>2, <1>3 DEF Told

LEMMA ToldLonger ==
  ASSUME NEW q \in Seq(Block), NEW r \in Seq(Block), NEW unread, NEW shown,
         \/ Told(unread, q, shown) /\ \A j \in 1..Len(r) : r[j].kind # "buffer"
         \/ /\ Len(r) > 0 /\ r[Len(r)].kind = "buffer" /\ r[Len(r)].groups = unread
  PROVE  Told(unread, q \o r, shown)
<1> DEFINE s == q \o r
<1>1. /\ Len(q) \in Nat /\ Len(r) \in Nat /\ Len(s) = Len(q) + Len(r)
      /\ \A i \in 1..Len(s) : \/ i \in 1..Len(q) /\ s[i] = q[i]
                              \/ i > Len(q) /\ i - Len(q) \in 1..Len(r) /\ s[i] = r[i - Len(q)]
  BY ConcatBlocks
<1> HIDE DEF s
<1>2. CASE /\ Len(r) > 0 /\ r[Len(r)].kind = "buffer" /\ r[Len(r)].groups = unread
  <2>1. Len(s) \in 1..Len(s) /\ ~(Len(s) \in 1..Len(q)) /\ Len(s) - Len(q) = Len(r)
    BY <1>1, <1>2
  <2>2. s[Len(s)].kind = "buffer" /\ s[Len(s)].groups = unread
    BY <1>1, <1>2, <2>1
  <2>3. \A j \in (Len(s) + 1)..Len(s) : s[j].kind # "buffer"
    BY <1>1
  <2> QED  BY <2>1, <2>2, <2>3 DEF Told, s
<1>3. ASSUME Told(unread, q, shown), \A j \in 1..Len(r) : r[j].kind # "buffer"
      PROVE  Told(unread, s, shown)
  <2>1. CASE \A j \in 1..Len(q) : q[j].kind # "buffer"
    <3>1. \A j \in 1..Len(s) : s[j].kind # "buffer"
      BY <1>1, <1>3, <2>1
    <3> QED  BY <1>3, <2>1, <3>1 DEF Told
  <2>2. ASSUME NEW i \in 1..Len(q), q[i].kind = "buffer", q[i].groups = unread,
               \A j \in (i + 1)..Len(q) : q[j].kind # "buffer"
        PROVE  Told(unread, s, shown)
    <3>1. i \in 1..Len(s) /\ s[i] = q[i]
      BY <1>1
    <3>2. ASSUME NEW j \in (i + 1)..Len(s) PROVE s[j].kind # "buffer"
      <4>1. j \in 1..Len(s) /\ (j \in 1..Len(q) => j \in (i + 1)..Len(q))
        BY <1>1
      <4> QED  BY <1>1, <1>3, <2>2, <4>1
    <3> QED  BY <2>2, <3>1, <3>2 DEF Told
  <2> QED  BY <1>3, <2>1, <2>2 DEF Told
<1> QED  BY <1>2, <1>3 DEF s

\* Nothing is unread of a group that is opened.
LEMMA ToldOpened ==
  ASSUME NEW q, NEW unread \in SUBSET Group, NEW shown, NEW g, g \notin unread,
         Told(unread, q, shown)
  PROVE  Told(unread, q, shown \ {g})
<1>1. ASSUME unread # {}, shown = {Max(unread)} PROVE shown \ {g} = shown
  BY <1>1, Greatest
<1> QED  BY <1>1 DEF Told
-----------------------------------------------------------------------------
(***************************************************************************)
(* What a step that takes nothing away leaves of the rest.                 *)
(***************************************************************************)
\* The copies that are on their way still are.
CopiesKept ==
  \A u \in User : \A p \in GroupPath : \A k \in PermanentKeys[p] :
    Coming(docs, mutationQueue[u], p, k) => Coming(docs', mutationQueue'[u], p, k)

RoomsKept(u) ==
  \A i \in 1..Len(rooms[u]) : i \in 1..Len(rooms'[u]) /\ rooms'[u][i].group = rooms[u][i].group

Growing == /\ Grows(docs, founded, sent, docs', founded', sent')
           /\ CopiesKept

LEMMA WillCome ==
  ASSUME NEW u, NEW p, NEW k
  PROVE  /\ Lemmas!WillHave(u, p, k) <=> Coming(docs, mutationQueue[u], p, k)
         /\ Lemmas!WillHave(u, p, k)' <=> Coming(docs', mutationQueue'[u], p, k)
  BY DEF Coming, Lemmas!WillHave, Lemmas!Has

LEMMA NetworkIsGrowing ==
  ASSUME Types, QueuesOK, DocsRight, Lemmas!NetworkStep, UNCHANGED <<founded, sent>>
  PROVE  Growing
<1>1. Lemmas!FsTypeOK /\ Lemmas!FirestoreAssumption /\ Lemmas!KeysKept(PermanentKeys)
  BY SameTypes DEF Types, QueuesOK
<1>2. ASSUME NEW u \in User, NEW p \in GroupPath, NEW k \in PermanentKeys[p]
      PROVE  Lemmas!WillHave(u, p, k) => Lemmas!WillHave(u, p, k)'
  BY <1>1, Lemmas!NetworkWillHave
<1>3. CopiesKept
  BY <1>2, WillCome DEF CopiesKept
<1> QED  BY <1>3, NetworkGrows DEF Growing

LEMMA WriteKeepsCopies ==
  ASSUME Types, NEW u \in User, NEW ms \in Seq(Mutation), LocallyWrite(u, ms)
  PROVE  CopiesKept
<1>1. Lemmas!FsTypeOK /\ Lemmas!FirestoreAssumption /\ ms \in Seq(Lemmas!Mutation)
      /\ Lemmas!LocallyWrite(u, ms)
  BY SameTypes, SameWrite DEF Types
<1>2. ASSUME NEW e \in User, NEW p, NEW k
      PROVE  Lemmas!WillHave(e, p, k) => Lemmas!WillHave(e, p, k)'
  BY <1>1, Lemmas!WriteWillHave
<1> QED  BY <1>2, WillCome DEF CopiesKept

LEMMA CopiesOnTheirWay ==
  ASSUME CopiesKept, NEW u \in User, NEW g \in Group, NEW t \in Time
  PROVE  /\ Coming(docs, mutationQueue[u], RoomConversation(g), t) =>
              Coming(docs', mutationQueue'[u], RoomConversation(g), t)
         /\ Coming(docs, mutationQueue[u], OwnConversation(u, g), t) =>
              Coming(docs', mutationQueue'[u], OwnConversation(u, g), t)
<1>1. /\ RoomConversation(g) \in GroupPath /\ t \in PermanentKeys[RoomConversation(g)]
      /\ OwnConversation(u, g) \in GroupPath /\ t \in PermanentKeys[OwnConversation(u, g)]
  BY PathTypes, KeysOfPath
<1> QED  BY <1>1 DEF CopiesKept

\* Block e of u will be right in the next state.
StaysRight(u, e) == BlockFits(docs', founded', sent', mutationQueue'[u], rooms'[u], u, e)

LEMMA BlockStays ==
  ASSUME Types, Growing, NEW u \in User, RoomsKept(u), NEW e \in Block, BlockRight(u, e)
  PROVE  StaysRight(u, e)
<1>1. sent \in SUBSET Message /\ rooms[u] \in Seq(Room)
      /\ Grows(docs, founded, sent, docs', founded', sent')
  BY DEF Types, Message, Growing
<1>2. ASSUME e.kind = "buffer", NEW g \in e.groups PROVE HasBadge(docs', sent', u, g)
  <2>1. g \in Group /\ HasBadge(docs, sent, u, g)
    BY <1>2, Blocks DEF BlockRight, BlockFits
  <2> QED  BY <1>1, <2>1, BadgesGrow
<1>3. ASSUME e.kind = "badges"
      PROVE  /\ e.vc \in 1..Len(rooms'[u])
             /\ OnItsWay(docs', sent', mutationQueue'[u], u, rooms'[u][e.vc].group, e.msg)
  <2>1. /\ e.vc \in 1..Len(rooms[u]) /\ e.msg \in Msg
        /\ OnItsWay(docs, sent, mutationQueue[u], u, rooms[u][e.vc].group, e.msg)
    BY <1>3, Blocks DEF BlockRight, BlockFits
  <2>2. PICK g \in Group : g = rooms[u][e.vc].group
    <3>1. rooms[u][e.vc] \in Room
      BY <1>1, <2>1
    <3> QED  BY <3>1 DEF Room
  <2>3. e.vc \in 1..Len(rooms'[u]) /\ rooms'[u][e.vc].group = g
    BY <2>1, <2>2 DEF RoomsKept
  <2>4. PICK m \in Msg : m = e.msg
    BY <2>1
  <2>5. m.key \in Time
    BY FieldTypes
  <2>6. OnItsWay(docs, sent, mutationQueue[u], u, g, m)
    BY <2>1, <2>2, <2>4
  <2>7. sent \subseteq sent'
    BY <1>1 DEF Grows
  <2>8. /\ Coming(docs', mutationQueue'[u], RoomConversation(g), m.key)
        /\ Coming(docs', mutationQueue'[u], OwnConversation(u, g), m.key)
    BY <2>5, <2>6, CopiesOnTheirWay DEF Growing, OnItsWay
  <2>9. OnItsWay(docs', sent', mutationQueue'[u], u, g, m)
    BY <2>6, <2>7, <2>8 DEF OnItsWay
  <2> QED  BY <2>3, <2>4, <2>9
<1>4. ASSUME e.kind = "added"
      PROVE  Chosen(founded', u, e) /\ docs'[GroupDoc(e.group)] # {}
  <2>1. e.group \in Group /\ Chosen(founded, u, e) /\ docs[GroupDoc(e.group)] # {}
    BY <1>4, Blocks DEF BlockRight, BlockFits
  <2> QED  BY <1>1, <2>1, ChosenGrow DEF Grows
<1> QED  BY <1>2, <1>3, <1>4 DEF StaysRight, BlockFits

LEMMA NextBlocksRight ==
  BlocksRight' <=>
    \A u \in User : \A i \in 1..Len(mainQueue'[u]) : StaysRight(u, mainQueue'[u][i])
  BY DEF BlocksRight, BlockRight, StaysRight, BlockFits, OnItsWay, Coming, HasBadge, MemberOf,
         Chosen, Lemmas!Has

\* Every block was there already, or is right now.
LEMMA BlocksStay ==
  ASSUME Types, BlocksRight, Growing,
         \A u \in User : \A i \in 1..Len(mainQueue'[u]) :
           \/ RoomsKept(u) /\ \E j \in 1..Len(mainQueue[u]) : mainQueue'[u][i] = mainQueue[u][j]
           \/ StaysRight(u, mainQueue'[u][i])
  PROVE  BlocksRight'
<1>1. ASSUME NEW u \in User, NEW i \in 1..Len(mainQueue'[u])
      PROVE  StaysRight(u, mainQueue'[u][i])
  <2>1. CASE RoomsKept(u) /\ \E j \in 1..Len(mainQueue[u]) : mainQueue'[u][i] = mainQueue[u][j]
    <3>1. PICK j \in 1..Len(mainQueue[u]) : mainQueue'[u][i] = mainQueue[u][j]
      BY <2>1
    <3>2. mainQueue[u] \in Seq(Block)
      BY DEF Types
    <3>3. PICK e \in Block : e = mainQueue[u][j] /\ BlockRight(u, e)
      BY <3>1, <3>2 DEF BlocksRight
    <3>4. StaysRight(u, e)
      BY <2>1, <3>3, BlockStays
    <3> QED  BY <3>1, <3>3, <3>4
  <2>2. CASE StaysRight(u, mainQueue'[u][i])
    BY <2>2
  <2> QED  BY <2>1, <2>2
<1> QED  BY <1>1, NextBlocksRight

LEMMA RoomsStay ==
  ASSUME Types, RoomsRight, Growing,
         \A u \in User : \A i \in 1..Len(rooms'[u]) :
           \/ i \in 1..Len(rooms[u]) /\ rooms'[u][i] = rooms[u][i]
           \/ /\ rooms'[u][i].group \in Group
              /\ MemberOf(docs, u, rooms'[u][i].group)
              /\ \A v \in rooms'[u][i].roomMember : MemberOf(docs, v, rooms'[u][i].group)
  PROVE  RoomsRight'
<1>1. \A g \in Group : \A v : MemberOf(docs, v, g) => MemberOf(docs', v, g)
  BY DEF Growing, Grows
<1>2. ASSUME NEW u \in User, NEW i \in 1..Len(rooms'[u])
      PROVE  /\ MemberOf(docs', u, rooms'[u][i].group)
             /\ \A v \in rooms'[u][i].roomMember : MemberOf(docs', v, rooms'[u][i].group)
  <2>1. CASE i \in 1..Len(rooms[u]) /\ rooms'[u][i] = rooms[u][i]
    <3>1. rooms[u][i] \in Room
      BY <2>1 DEF Types
    <3>2. rooms'[u][i].group \in Group
      BY <2>1, <3>1 DEF Room
    <3> QED  BY <1>1, <2>1, <3>2 DEF RoomsRight
  <2>2. CASE /\ rooms'[u][i].group \in Group
             /\ MemberOf(docs, u, rooms'[u][i].group)
             /\ \A v \in rooms'[u][i].roomMember : MemberOf(docs, v, rooms'[u][i].group)
    BY <1>1, <2>2
  <2> QED  BY <2>1, <2>2
<1> QED  BY <1>2 DEF RoomsRight, MemberOf

LEMMA ShownStays ==
  ASSUME Types, ShownRight, Growing,
         \A u \in User : \A g \in bufferGroupChat'[u] :
           g \in Group /\ (g \in bufferGroupChat[u] \/ HasBadge(docs, sent, u, g))
  PROVE  ShownRight'
<1>1. ASSUME NEW u \in User, NEW g \in bufferGroupChat'[u]
      PROVE  HasBadge(docs', sent', u, g)
  <2>1. sent \in SUBSET Message /\ Grows(docs, founded, sent, docs', founded', sent')
    BY DEF Types, Message, Growing
  <2>2. g \in Group /\ HasBadge(docs, sent, u, g)
    BY DEF ShownRight
  <2> QED  BY <2>1, <2>2, BadgesGrow
<1> QED  BY <1>1 DEF ShownRight, HasBadge, MemberOf, Lemmas!Has

LEMMA NextAwaitingRight ==
  AwaitingRight' <=>
    \A u \in User : \A e \in awaiting'[u] :
      /\ Chosen(founded', u, e)
      /\ \E i \in 1..Len(mutationQueue'[u]) : mutationQueue'[u][i].path = GroupDoc(e.group)
  BY DEF AwaitingRight, Chosen

LEMMA AwaitingStays ==
  ASSUME Types, AwaitingRight, Growing,
         \A u \in User : awaiting'[u] \subseteq awaiting[u],
         \A u \in User : \A e \in awaiting'[u] : \A i \in 1..Len(mutationQueue[u]) :
           mutationQueue[u][i].path = GroupDoc(e.group) =>
             \E j \in 1..Len(mutationQueue'[u]) : mutationQueue'[u][j].path = GroupDoc(e.group)
  PROVE  AwaitingRight'
<1>1. ASSUME NEW u \in User, NEW e \in awaiting'[u]
      PROVE  /\ Chosen(founded', u, e)
             /\ \E j \in 1..Len(mutationQueue'[u]) : mutationQueue'[u][j].path = GroupDoc(e.group)
  <2>1. e \in awaiting[u] /\ awaiting[u] \in SUBSET Added
    BY DEF Types
  <2>2. e.group \in Group
    BY <2>1, Blocks
  <2>3. Chosen(founded, u, e)
    BY <2>1 DEF AwaitingRight
  <2>4. Chosen(founded', u, e)
    BY <2>2, <2>3, ChosenGrow DEF Growing, Grows
  <2> QED  BY <2>1, <2>4 DEF AwaitingRight
<1> QED  BY <1>1, NextAwaitingRight
-----------------------------------------------------------------------------
(***************************************************************************)
(* What the listeners are told.                                            *)
(***************************************************************************)
LEMMA Callbacks ==
  ASSUME Types, Lemmas!FsTypeOK', QueuesOK', DocsRight', NEW u \in User
  PROVE  /\ BufferCallbacks(u) \in Seq(Block)
         /\ \A i \in 1..Len(BufferCallbacks(u)) :
              /\ BufferCallbacks(u)[i].kind = "buffer"
              /\ BufferCallbacks(u)[i].groups = Unread(NewBufferView(u))
              /\ StaysRight(u, BufferCallbacks(u)[i])
         /\ \/ BufferCallbacks(u) = << >> /\ Unread(NewBufferView(u)) = Unread(BufferView(u))
            \/ Len(BufferCallbacks(u)) \in Nat \ {0}
<1>1. Unread(NewBufferView(u)) \in SUBSET Group
      /\ \A g \in Unread(NewBufferView(u)) : HasBadge(docs', sent', u, g)
  BY SnapshotNext
<1>2. PICK e : e = Snapshot(NewBufferView(u))
  OBVIOUS
<1>3. /\ e \in Snapshots /\ e \in Block /\ e.kind = "buffer"
      /\ e.groups = Unread(NewBufferView(u))
  BY <1>1, <1>2 DEF Snapshot, Snapshots, Block
<1>4. StaysRight(u, e)
  BY <1>1, <1>3 DEF StaysRight, BlockFits
<1>5. CASE NewBufferView(u) = BufferView(u)
  <2>1. BufferCallbacks(u) = << >>
    BY <1>5 DEF BufferCallbacks
  <2> QED  BY <1>5, <2>1
<1>6. CASE NewBufferView(u) # BufferView(u)
  <2>1. PICK n \in Nat \ {0} : n = recents[u]
    BY DEF Types
  <2>2. BufferCallbacks(u) = [i \in 1..n |-> e]
    BY <1>2, <1>6, <2>1 DEF BufferCallbacks
  <2>3. [i \in 1..n |-> e] \in Seq(Block) /\ Len([i \in 1..n |-> e]) = n
    BY <1>3, <2>1
  <2> QED  BY <1>3, <1>4, <2>2, <2>3
<1> QED  BY <1>5, <1>6

LEMMA NextListenersTold ==
  ListenersTold' <=>
    \A u \in User : Told(Unread(NewBufferView(u)), mainQueue'[u], bufferGroupChat'[u])
  BY DEF ListenersTold, Told, BufferView, NewBufferView, View, Unread, LocalView, Survives, Overwrites

\* A step of u changes nothing for the others.
LEMMA OthersTold ==
  ASSUME ListenersTold, NEW u \in User,
         \A v \in User \ {u} : /\ remoteDocs'[v] = remoteDocs[v]
                               /\ mutationQueue'[v] = mutationQueue[v]
                               /\ mainQueue'[v] = mainQueue[v]
                               /\ bufferGroupChat'[v] = bufferGroupChat[v],
         Told(Unread(NewBufferView(u)), mainQueue'[u], bufferGroupChat'[u])
  PROVE  ListenersTold'
<1>1. ASSUME NEW v \in User \ {u}
      PROVE  Told(Unread(NewBufferView(v)), mainQueue'[v], bufferGroupChat'[v])
  <2>1. NewBufferView(v) = BufferView(v)
    BY DEF NewBufferView, BufferView, View
  <2> QED  BY <2>1 DEF ListenersTold
<1> QED  BY <1>1, NextListenersTold

\* A write elsewhere does not change what u has not read.
LEMMA UnreadKept ==
  ASSUME Types, QueuesOK, Lemmas!FsTypeOK', QueuesOK', NEW u \in User, NEW ms \in Seq(Mutation),
         LocallyWrite(u, ms), \A i \in 1..Len(ms) : \A g \in Group : ms[i].path # GroupBuffer(u, g)
  PROVE  Unread(NewBufferView(u)) = Unread(BufferView(u))
<1>1. /\ mutationQueue[u] \in Seq(Lemmas!Mutation) /\ ms \in Seq(Lemmas!Mutation)
      /\ mutationQueue'[u] = mutationQueue[u] \o ms /\ remoteDocs' = remoteDocs
  BY SameTypes DEF Types, Lemmas!FsTypeOK, LocallyWrite
<1>2. ASSUME NEW g \in Group
      PROVE  Shows(remoteDocs[u], mutationQueue[u] \o ms, u, g)
               <=> Shows(remoteDocs[u], mutationQueue[u], u, g)
  <2>1. PICK q : q = mutationQueue[u] \o ms
    OBVIOUS
  <2>2. \A i \in 1..Len(mutationQueue[u]) : i \in 1..Len(q) /\ q[i] = mutationQueue[u][i]
    BY <1>1, <2>1, SameTypes, Lemmas!ConcatQueues
  <2>3. \A i \in 1..Len(q) : \/ i \in 1..Len(mutationQueue[u]) /\ q[i] = mutationQueue[u][i]
                             \/ \E j \in 1..Len(ms) : q[i] = ms[j]
    BY <1>1, <2>1, SameTypes, Lemmas!ConcatQueues
  <2> QED  BY <2>1, <2>2, <2>3 DEF Shows
<1> QED  BY <1>1, <1>2, UnreadNow, UnreadNext

\* Nothing of a group is unread once its badge's deletion is queued.
LEMMA Cleared ==
  ASSUME Lemmas!FsTypeOK', QueuesOK', NEW u \in User, NEW g \in Group,
         \E i \in 1..Len(mutationQueue'[u]) : mutationQueue'[u][i].path = GroupBuffer(u, g)
  PROVE  g \notin Unread(NewBufferView(u))
  BY UnreadNext DEF Shows
-----------------------------------------------------------------------------
(***************************************************************************)
(* The steps, one by one: first what they share.                           *)
(***************************************************************************)
LEMMA Enqueued ==
  ASSUME Types, NEW u \in User, NEW blocks \in Seq(Block), Enqueue(u, blocks)
  PROVE  /\ mainQueue' \in [User -> Seq(Block)]
         /\ mainQueue'[u] = mainQueue[u] \o blocks
         /\ \A v \in User \ {u} : mainQueue'[v] = mainQueue[v]
         /\ \A v \in User : \A i \in 1..Len(mainQueue'[v]) :
              \/ \E j \in 1..Len(mainQueue[v]) : mainQueue'[v][i] = mainQueue[v][j]
              \/ v = u /\ \E j \in 1..Len(blocks) : mainQueue'[v][i] = blocks[j]
<1>1. mainQueue \in [User -> Seq(Block)]
  BY DEF Types
<1>2. PICK q \in Seq(Block) : q = mainQueue[u]
  BY <1>1
<1>3. mainQueue' = [mainQueue EXCEPT ![u] = q \o blocks] /\ q \o blocks \in Seq(Block)
  BY <1>2, ConcatBlocks DEF Enqueue
<1>4. mainQueue'[u] = q \o blocks /\ \A v \in User \ {u} : mainQueue'[v] = mainQueue[v]
  BY <1>1, <1>3
<1>5. mainQueue' \in [User -> Seq(Block)]
  BY <1>1, <1>3
<1>6. \A i \in 1..Len(q \o blocks) :
        \/ \E j \in 1..Len(q) : (q \o blocks)[i] = q[j]
        \/ \E j \in 1..Len(blocks) : (q \o blocks)[i] = blocks[j]
  BY ConcatBlocks
<1>7. ASSUME NEW v \in User, NEW i \in 1..Len(mainQueue'[v])
      PROVE  \/ \E j \in 1..Len(mainQueue[v]) : mainQueue'[v][i] = mainQueue[v][j]
             \/ v = u /\ \E j \in 1..Len(blocks) : mainQueue'[v][i] = blocks[j]
  <2>1. CASE v = u
    BY <1>2, <1>4, <1>6, <2>1
  <2>2. CASE v # u
    BY <1>4, <2>2
  <2> QED  BY <2>1, <2>2
<1> QED  BY <1>2, <1>4, <1>5, <1>7

LEMMA Dequeued ==
  ASSUME Types, NEW u \in User, mainQueue[u] # << >>,
         mainQueue' = [mainQueue EXCEPT ![u] = Tail(@)]
  PROVE  /\ mainQueue' \in [User -> Seq(Block)]
         /\ mainQueue'[u] = Tail(mainQueue[u])
         /\ \A v \in User \ {u} : mainQueue'[v] = mainQueue[v]
         /\ \A v \in User : \A i \in 1..Len(mainQueue'[v]) :
              \E j \in 1..Len(mainQueue[v]) : mainQueue'[v][i] = mainQueue[v][j]
<1>1. mainQueue \in [User -> Seq(Block)]
  BY DEF Types
<1>2. PICK q \in Seq(Block) : q = mainQueue[u] /\ q # << >>
  BY <1>1
<1>3. Tail(q) \in Seq(Block) /\ \A i \in 1..Len(Tail(q)) : i + 1 \in 1..Len(q) /\ Tail(q)[i] = q[i + 1]
  BY <1>2, TailOfBlocks
<1>4. /\ mainQueue' \in [User -> Seq(Block)]
      /\ mainQueue'[u] = Tail(q) /\ \A v \in User \ {u} : mainQueue'[v] = mainQueue[v]
  BY <1>1, <1>2, <1>3
<1>5. ASSUME NEW v \in User, NEW i \in 1..Len(mainQueue'[v])
      PROVE  \E j \in 1..Len(mainQueue[v]) : mainQueue'[v][i] = mainQueue[v][j]
  <2>1. CASE v = u
    BY <1>2, <1>3, <1>4, <2>1
  <2>2. CASE v # u
    BY <1>4, <2>2
  <2> QED  BY <2>1, <2>2
<1> QED  BY <1>2, <1>4, <1>5

LEMMA SameRooms ==
  ASSUME UNCHANGED rooms
  PROVE  \A v \in User : RoomsKept(v)
  BY DEF RoomsKept

LEMMA NetworkKeepsClient ==
  ASSUME Types, Right, Lemmas!NetworkStep, UNCHANGED <<founded, sent>>
  PROVE  /\ Lemmas!FsTypeOK'
         /\ Growing /\ QueuesOK' /\ DocsRight' /\ GroupsWhole'
<1>1. QueuesOK /\ DocsRight /\ GroupsWhole
  BY DEF Right
<1>2. Lemmas!FsTypeOK'
  BY SameTypes, Lemmas!NetworkType DEF Types
<1> QED  BY <1>1, <1>2, NetworkIsGrowing, NetworkKeepsQueues, NetworkKeepsDocs, NetworkKeepsGroups

\* A step of the network that no listener hears of.
LEMMA QuietStepKeeps ==
  ASSUME IInv, Lemmas!NetworkStep,
         UNCHANGED <<remoteDocs, mutationQueue, awaiting, recents, inRoom, rooms,
                     bufferGroupChat, mainQueue, founded, sent>>
  PROVE  IInv'
<1>1. Types /\ Right /\ ListenersTold /\ RoomsRight /\ ShownRight /\ AwaitingRight /\ BlocksRight
  BY DEF IInv, Right
<1>2. Lemmas!FsTypeOK' /\ Growing /\ QueuesOK' /\ DocsRight' /\ GroupsWhole'
  BY <1>1, NetworkKeepsClient
<1>3. Types'
  BY <1>1, <1>2 DEF Types
<1>4. RoomsRight'
  BY <1>1, <1>2, RoomsStay
<1>5. ShownRight'
  <2>1. \A v \in User : \A g \in bufferGroupChat'[v] : g \in Group /\ g \in bufferGroupChat[v]
    BY <1>1 DEF Types
  <2> QED  BY <1>1, <1>2, <2>1, ShownStays
<1>6. AwaitingRight'
  BY <1>1, <1>2, AwaitingStays
<1>7. BlocksRight'
  BY <1>1, <1>2, SameRooms, BlocksStay
<1>8. ListenersTold'
  <2>1. ASSUME NEW v \in User
        PROVE  Told(Unread(NewBufferView(v)), mainQueue'[v], bufferGroupChat'[v])
    <3>1. NewBufferView(v) = BufferView(v)
      BY DEF NewBufferView, BufferView, View
    <3> QED  BY <1>1, <3>1 DEF ListenersTold
  <2> QED  BY <2>1, NextListenersTold
<1> QED  BY <1>2, <1>3, <1>4, <1>5, <1>6, <1>7, <1>8 DEF IInv, Right

LEMMA CommitWriteKeeps ==
  ASSUME IInv, NEW u \in User, CommitWrite(u)
  PROVE  IInv'
  BY QuietStepKeeps, SameNetwork DEF CommitWrite, Commit, history

LEMMA PersistWriteKeeps ==
  ASSUME IInv, NEW u \in User, PersistWrite(u)
  PROVE  IInv'
  BY QuietStepKeeps, SameNetwork DEF PersistWrite, Persist, history

LEMMA StreamBrokenKeeps ==
  ASSUME IInv, NEW u \in User, StreamBroken(u)
  PROVE  IInv'
  BY QuietStepKeeps, SameNetwork DEF StreamBroken, RestartStream

LEMMA ReceiveSnapshotKeeps ==
  ASSUME IInv, NEW u \in User, NEW p \in GroupPath, ReceiveSnapshot(u, p)
  PROVE  IInv'
<1>1. Types /\ Right /\ ListenersTold /\ RoomsRight /\ ShownRight /\ AwaitingRight /\ BlocksRight
  BY DEF IInv, Right
<1>2. /\ Watch(u, p) /\ Enqueue(u, BufferCallbacks(u))
      /\ UNCHANGED <<docs, mutationQueue, awaiting, recents, inRoom, rooms, bufferGroupChat,
                     founded, sent>>
  BY DEF ReceiveSnapshot, Watch, history
<1>3. Lemmas!NetworkStep
  BY <1>2, SameNetwork
<1>4. Lemmas!FsTypeOK' /\ Growing /\ QueuesOK' /\ DocsRight' /\ GroupsWhole'
  BY <1>1, <1>2, <1>3, NetworkKeepsClient
<1> DEFINE cb == BufferCallbacks(u)
<1>5. /\ cb \in Seq(Block)
      /\ \A i \in 1..Len(cb) : /\ cb[i].kind = "buffer" /\ cb[i].groups = Unread(NewBufferView(u))
                               /\ StaysRight(u, cb[i])
      /\ \/ cb = << >> /\ Unread(NewBufferView(u)) = Unread(BufferView(u))
         \/ Len(cb) \in Nat \ {0}
  BY <1>1, <1>4, Callbacks
<1> HIDE DEF cb
<1>6. Enqueue(u, cb)
  BY <1>2 DEF cb
<1>7. /\ mainQueue' \in [User -> Seq(Block)]
      /\ mainQueue'[u] = mainQueue[u] \o cb
      /\ \A v \in User \ {u} : mainQueue'[v] = mainQueue[v]
      /\ \A v \in User : \A i \in 1..Len(mainQueue'[v]) :
           \/ \E j \in 1..Len(mainQueue[v]) : mainQueue'[v][i] = mainQueue[v][j]
           \/ v = u /\ \E j \in 1..Len(cb) : mainQueue'[v][i] = cb[j]
  <2>1. Types /\ cb \in Seq(Block)
    BY <1>1, <1>5
  <2> QED  BY <1>6, <2>1, Enqueued
<1>8. Types'
  BY <1>1, <1>2, <1>4, <1>7 DEF Types
<1>9. RoomsRight'
  BY <1>1, <1>2, <1>4, RoomsStay
<1>10. ShownRight'
  <2>1. \A v \in User : \A g \in bufferGroupChat'[v] : g \in Group /\ g \in bufferGroupChat[v]
    BY <1>1, <1>2 DEF Types
  <2> QED  BY <1>1, <1>4, <2>1, ShownStays
<1>11. AwaitingRight'
  BY <1>1, <1>2, <1>4, AwaitingStays
<1>12. BlocksRight'
  <2>1. \A v \in User : RoomsKept(v)
    BY <1>2, SameRooms
  <2>2. ASSUME NEW v \in User, NEW i \in 1..Len(mainQueue'[v]),
               v = u, NEW j \in 1..Len(cb), mainQueue'[v][i] = cb[j]
        PROVE  StaysRight(v, mainQueue'[v][i])
    BY <1>5, <2>2
  <2>3. ASSUME NEW v \in User, NEW i \in 1..Len(mainQueue'[v])
        PROVE  \/ RoomsKept(v) /\ \E j \in 1..Len(mainQueue[v]) : mainQueue'[v][i] = mainQueue[v][j]
               \/ StaysRight(v, mainQueue'[v][i])
    BY <1>7, <2>1, <2>2
  <2> QED  BY <1>1, <1>4, <2>3, BlocksStay
<1>13. ListenersTold'
  <2>1. \A v \in User \ {u} : remoteDocs'[v] = remoteDocs[v]
    BY <1>1, <1>2 DEF Watch, Types, Lemmas!FsTypeOK
  <2>2. Told(Unread(BufferView(u)), mainQueue[u], bufferGroupChat[u]) /\ mainQueue[u] \in Seq(Block)
    BY <1>1 DEF ListenersTold, Types
  <2>3. Told(Unread(NewBufferView(u)), mainQueue[u] \o cb, bufferGroupChat[u])
    BY <1>5, <2>2, ToldLonger
  <2> QED  BY <1>1, <1>2, <1>7, <2>1, <2>3, OthersTold
<1> QED  BY <1>4, <1>8, <1>9, <1>10, <1>11, <1>12, <1>13 DEF IInv, Right

\* What a device knows of a group is at the backend too.
LEMMA GroupViews ==
  ASSUME Types, QueuesOK, DocsRight, GroupsWhole, NEW u \in User, NEW g \in Group,
         docs[GroupDoc(g)] # {}
  PROVE  /\ \A v \in KeysOf(docs[GroupDoc(g)]) : v \in User /\ MemberOf(docs, v, g)
         /\ \A v \in KeysOf(View(u, GroupDoc(g))) : v \in User /\ MemberOf(docs, v, g)
<1>1. docs[GroupDoc(g)] \subseteq Members(founded, g) /\ Members(founded, g) \subseteq docs[GroupDoc(g)]
  BY GroupFields DEF GroupsWhole
<1>2. \A f \in Members(founded, g) : f.key \in User /\ MemberOf(docs, f.key, g)
  BY <1>1 DEF Members, MemberOf, KeysOf
<1>3. ASSUME NEW f \in View(u, GroupDoc(g)) PROVE f \in Members(founded, g)
  <2>1. CASE f \in remoteDocs[u][GroupDoc(g)]
    <3>1. GroupDoc(g) \in GroupPath /\ GroupDoc(g).coll = "Group" /\ GroupDoc(g).group = g
      BY Paths, PathTypes
    <3>2. Fits(docs, founded, sent, GroupDoc(g), f)
      BY <2>1, <3>1 DEF DocsRight
    <3> QED  BY <3>1, <3>2 DEF Fits
  <2>2. ASSUME NEW i \in 1..Len(mutationQueue[u]), mutationQueue[u][i].path = GroupDoc(g),
               f \in mutationQueue[u][i].fields
        PROVE  f \in Members(founded, g)
    <3>1. WrittenBy(docs, founded, sent, u, mutationQueue[u][i])
      BY DEF QueuesOK
    <3> QED  BY <2>2, <3>1, GroupWrites
  <2> QED  BY <2>1, <2>2 DEF View, LocalView
<1> QED  BY <1>1, <1>2, <1>3 DEF KeysOf

\* The members S have arrived at controller i of u.
MembersArrive(u, i, S) ==
  rooms' = [rooms EXCEPT ![u][i].fetched = TRUE, ![u][i].roomMember = S]

LEMMA RoomFetched ==
  ASSUME Types, NEW u \in User, NEW i \in 1..Len(rooms[u]), NEW S \in SUBSET User,
         MembersArrive(u, i, S)
  PROVE  /\ rooms' \in [User -> Seq(Room)]
         /\ \A v \in User : Len(rooms'[v]) = Len(rooms[v])
         /\ \A v \in User : \A j \in 1..Len(rooms[v]) :
              \/ rooms'[v][j] = rooms[v][j]
              \/ /\ v = u /\ j = i
                 /\ rooms'[v][j].group = rooms[u][i].group /\ rooms'[v][j].roomMember = S
<1>1. rooms \in [User -> Seq(Room)] /\ rooms[u] \in Seq(Room)
  BY DEF Types
<1>2. PICK n \in Nat : n = Len(rooms[u]) /\ rooms[u] \in [1..n -> Room]
  BY <1>1
<1>3. PICK r \in Room : r = rooms[u][i]
  BY <1>2
<1>4. PICK r2 \in Room : /\ r2 = [[r EXCEPT !.fetched = TRUE] EXCEPT !.roomMember = S]
                         /\ r2.group = r.group /\ r2.roomMember = S
  <2>1. \A b \in BOOLEAN : [r EXCEPT !.fetched = b] \in Room /\ [r EXCEPT !.fetched = b].group = r.group
    BY DEF Room
  <2>2. PICK r1 \in Room : r1 = [r EXCEPT !.fetched = TRUE] /\ r1.group = r.group
    BY <2>1
  <2>3. /\ [r1 EXCEPT !.roomMember = S] \in Room
        /\ [r1 EXCEPT !.roomMember = S].group = r1.group
        /\ [r1 EXCEPT !.roomMember = S].roomMember = S
    BY DEF Room
  <2> QED  BY <2>2, <2>3
<1>5. PICK q \in Seq(Room) : /\ q = [rooms[u] EXCEPT ![i] = r2] /\ Len(q) = n
                             /\ q[i] = r2 /\ \A j \in 1..n : j # i => q[j] = rooms[u][j]
  <2>1. PICK q2 : q2 = [rooms[u] EXCEPT ![i] = r2]
    OBVIOUS
  <2>2. q2 \in [1..n -> Room] /\ q2[i] = r2 /\ \A j \in 1..n : j # i => q2[j] = rooms[u][j]
    BY <1>2, <2>1
  <2>3. q2 \in Seq(Room) /\ Len(q2) = n
    BY <2>2
  <2> QED  BY <2>1, <2>2, <2>3
<1>6. rooms' = [rooms EXCEPT ![u] = q]
  BY <1>1, <1>2, <1>3, <1>4, <1>5 DEF MembersArrive
<1>7. rooms' \in [User -> Seq(Room)] /\ rooms'[u] = q
      /\ \A v \in User \ {u} : rooms'[v] = rooms[v]
  BY <1>1, <1>5, <1>6
<1>8. rooms'[u][i].group = rooms[u][i].group /\ rooms'[u][i].roomMember = S
  BY <1>3, <1>4, <1>5, <1>7
<1>9. \A j \in 1..n : j # i => rooms'[u][j] = rooms[u][j]
  BY <1>5, <1>7
<1>10. \A v \in User : Len(rooms'[v]) = Len(rooms[v])
  BY <1>2, <1>5, <1>7
<1>11. ASSUME NEW v \in User, NEW j \in 1..Len(rooms[v])
       PROVE  \/ rooms'[v][j] = rooms[v][j]
              \/ /\ v = u /\ j = i
                 /\ rooms'[v][j].group = rooms[u][i].group /\ rooms'[v][j].roomMember = S
  <2>1. CASE v # u
    BY <1>7, <2>1
  <2>2. CASE v = u /\ j # i
    BY <1>2, <1>9, <2>2
  <2>3. CASE v = u /\ j = i
    BY <1>8, <2>3
  <2> QED  BY <2>1, <2>2, <2>3
<1> QED  BY <1>7, <1>10, <1>11

LEMMA RoomMemberArrivesKeeps ==
  ASSUME IInv, NEW u \in User, NEW i \in DOMAIN rooms[u], RoomMemberArrives(u, i)
  PROVE  IInv'
<1>1. Types /\ Right /\ ListenersTold /\ RoomsRight /\ ShownRight /\ AwaitingRight /\ BlocksRight
      /\ QueuesOK /\ DocsRight /\ GroupsWhole
  BY DEF IInv, Right
<1>2. i \in 1..Len(rooms[u]) /\ rooms[u] \in Seq(Room)
  BY <1>1 DEF Types
<1>3. PICK g \in Group : g = rooms[u][i].group /\ MemberOf(docs, u, g)
  <2>1. rooms[u][i] \in Room
    BY <1>2
  <2> QED  BY <1>1, <1>2, <2>1 DEF Room, RoomsRight
<1>4. GroupDoc(g) \in GroupPath /\ docs[GroupDoc(g)] # {}
  BY <1>3, PathTypes DEF MemberOf, KeysOf
<1>5. PICK S \in SUBSET User : MembersArrive(u, i, S) /\ \A v \in S : MemberOf(docs, v, g)
  <2>1. \/ MembersArrive(u, i, KeysOf(docs[GroupDoc(g)]))
        \/ MembersArrive(u, i, KeysOf(View(u, GroupDoc(g))))
    BY <1>3 DEF RoomMemberArrives, MembersArrive
  <2>2. /\ KeysOf(docs[GroupDoc(g)]) \in SUBSET User
        /\ \A v \in KeysOf(docs[GroupDoc(g)]) : MemberOf(docs, v, g)
    BY <1>1, <1>4, GroupViews
  <2>3. /\ KeysOf(View(u, GroupDoc(g))) \in SUBSET User
        /\ \A v \in KeysOf(View(u, GroupDoc(g))) : MemberOf(docs, v, g)
    BY <1>1, <1>4, GroupViews
  <2> QED  BY <2>1, <2>2, <2>3
<1>6. Watch(u, GroupDoc(g)) \/ UNCHANGED clientVars
  BY <1>3 DEF RoomMemberArrives
<1>7. UNCHANGED <<docs, mutationQueue, awaiting, recents, inRoom, bufferGroupChat, mainQueue,
                  founded, sent>>
  BY <1>6 DEF RoomMemberArrives, history, Watch, clientVars
<1>8. Lemmas!NetworkStep
  BY <1>4, <1>6, SameNetwork
<1>9. Lemmas!FsTypeOK' /\ Growing /\ QueuesOK' /\ DocsRight' /\ GroupsWhole'
  BY <1>1, <1>7, <1>8, NetworkKeepsClient
<1>10. /\ rooms' \in [User -> Seq(Room)]
       /\ \A v \in User : Len(rooms'[v]) = Len(rooms[v])
       /\ \A v \in User : \A j \in 1..Len(rooms[v]) :
            \/ rooms'[v][j] = rooms[v][j]
            \/ rooms'[v][j].group = g /\ rooms'[v][j].roomMember = S /\ v = u /\ j = i
  <2>1. /\ rooms' \in [User -> Seq(Room)]
        /\ \A v \in User : Len(rooms'[v]) = Len(rooms[v])
        /\ \A v \in User : \A j \in 1..Len(rooms[v]) :
             \/ rooms'[v][j] = rooms[v][j]
             \/ /\ v = u /\ j = i
                /\ rooms'[v][j].group = rooms[u][i].group /\ rooms'[v][j].roomMember = S
    BY <1>1, <1>2, <1>5, RoomFetched
  <2> QED  BY <1>3, <2>1
<1>11. Types'
  BY <1>1, <1>7, <1>9, <1>10 DEF Types
<1>12. RoomsRight'
  <2>1. ASSUME NEW v \in User, NEW j \in 1..Len(rooms'[v])
        PROVE  \/ j \in 1..Len(rooms[v]) /\ rooms'[v][j] = rooms[v][j]
               \/ /\ rooms'[v][j].group \in Group
                  /\ MemberOf(docs, v, rooms'[v][j].group)
                  /\ \A w \in rooms'[v][j].roomMember : MemberOf(docs, w, rooms'[v][j].group)
    <3>1. j \in 1..Len(rooms[v])
      BY <1>10
    <3>2. CASE rooms'[v][j].group = g /\ rooms'[v][j].roomMember = S /\ v = u
      BY <1>3, <1>5, <3>2
    <3> QED  BY <1>10, <3>1, <3>2
  <2> QED  BY <1>1, <1>9, <2>1, RoomsStay
<1>13. ShownRight'
  <2>1. \A v \in User : \A h \in bufferGroupChat'[v] : h \in Group /\ h \in bufferGroupChat[v]
    BY <1>1, <1>7 DEF Types
  <2> QED  BY <1>1, <1>9, <2>1, ShownStays
<1>14. AwaitingRight'
  BY <1>1, <1>7, <1>9, AwaitingStays
<1>15. BlocksRight'
  <2>1. \A v \in User : RoomsKept(v)
    BY <1>3, <1>10 DEF RoomsKept
  <2> QED  BY <1>1, <1>7, <1>9, <2>1, BlocksStay
<1>16. ListenersTold'
  <2>1. ASSUME NEW v \in User
        PROVE  Told(Unread(NewBufferView(v)), mainQueue'[v], bufferGroupChat'[v])
    <3>1. ASSUME NEW h \in Group
          PROVE  remoteDocs'[v][GroupBuffer(v, h)] = remoteDocs[v][GroupBuffer(v, h)]
      <4>1. GroupBuffer(v, h) # GroupDoc(g) /\ GroupBuffer(v, h) \in GroupPath
        BY Paths, PathTypes
      <4>2. remoteDocs \in [User -> [GroupPath -> Document]]
        BY <1>1, SameTypes DEF Types, Lemmas!FsTypeOK
      <4> QED  BY <1>6, <4>1, <4>2 DEF Watch, clientVars
    <3>2. NewBufferView(v) = BufferView(v)
      BY <1>7, <3>1 DEF NewBufferView, BufferView, View
    <3> QED  BY <1>1, <1>7, <3>2 DEF ListenersTold
  <2> QED  BY <2>1, NextListenersTold
<1> QED  BY <1>9, <1>11, <1>12, <1>13, <1>14, <1>15, <1>16 DEF IInv, Right

LEMMA GroupBufferCallbackKeeps ==
  ASSUME IInv, NEW u \in User, GroupBufferCallback(u)
  PROVE  IInv'
<1>1. Types /\ Right /\ ListenersTold /\ RoomsRight /\ ShownRight /\ AwaitingRight /\ BlocksRight
  BY DEF IInv, Right
<1>2. /\ UNCHANGED <<docs, remoteDocs, mutationQueue, awaiting, recents, inRoom, rooms,
                     founded, sent>>
      /\ UNCHANGED clientVars
      /\ mainQueue[u] # << >> /\ mainQueue' = [mainQueue EXCEPT ![u] = Tail(@)]
  BY DEF GroupBufferCallback, history, clientVars
<1>3. Lemmas!FsTypeOK' /\ Growing /\ QueuesOK' /\ DocsRight' /\ GroupsWhole'
  BY <1>1, <1>2, SameNetwork, NetworkKeepsClient
<1>4. /\ mainQueue' \in [User -> Seq(Block)]
      /\ mainQueue'[u] = Tail(mainQueue[u])
      /\ \A v \in User \ {u} : mainQueue'[v] = mainQueue[v]
      /\ \A v \in User : \A i \in 1..Len(mainQueue'[v]) :
           \E j \in 1..Len(mainQueue[v]) : mainQueue'[v][i] = mainQueue[v][j]
  BY <1>1, <1>2, Dequeued
<1>5. PICK e \in Block : /\ e = Head(mainQueue[u]) /\ e.kind = "buffer"
                         /\ e.groups \in SUBSET Group
                         /\ \A g \in e.groups : HasBadge(docs, sent, u, g)
  <2>1. mainQueue[u] \in Seq(Block)
    BY <1>1 DEF Types
  <2>2. Head(mainQueue[u]) = mainQueue[u][1] /\ mainQueue[u][1] \in Block /\ Len(mainQueue[u]) \in Nat
        /\ Len(mainQueue[u]) > 0
    BY <1>2, <2>1, TailOfBlocks
  <2>3. BlockRight(u, mainQueue[u][1])
    BY <1>1, <2>2 DEF BlocksRight
  <2>4. Head(mainQueue[u]).kind = "buffer"
    BY DEF GroupBufferCallback
  <2> QED  BY <2>2, <2>3, <2>4, Blocks DEF BlockRight, BlockFits
<1>6. bufferGroupChat' = [bufferGroupChat EXCEPT ![u] = BadgeOf(e.groups, bufferGroupChat[u])]
  BY <1>5 DEF GroupBufferCallback
<1>7. bufferGroupChat \in [User -> SUBSET Group] /\ bufferGroupChat[u] \in SUBSET Group
  BY <1>1 DEF Types
<1>8. /\ BadgeOf(e.groups, bufferGroupChat[u]) \subseteq e.groups \cup bufferGroupChat[u]
      /\ BadgeOf(e.groups, bufferGroupChat[u]) \in SUBSET Group
  BY <1>5, <1>7, BadgeIsOfGroup
<1>9. /\ bufferGroupChat' \in [User -> SUBSET Group]
      /\ bufferGroupChat'[u] = BadgeOf(e.groups, bufferGroupChat[u])
      /\ \A v \in User \ {u} : bufferGroupChat'[v] = bufferGroupChat[v]
  BY <1>6, <1>7, <1>8
<1>10. Types'
  BY <1>1, <1>2, <1>3, <1>4, <1>9 DEF Types
<1>11. RoomsRight'
  BY <1>1, <1>2, <1>3, RoomsStay
<1>12. ShownRight'
  <2>1. ASSUME NEW v \in User, NEW g \in bufferGroupChat'[v]
        PROVE  g \in Group /\ (g \in bufferGroupChat[v] \/ HasBadge(docs, sent, v, g))
    BY <1>5, <1>8, <1>9
  <2> QED  BY <1>1, <1>3, <2>1, ShownStays
<1>13. AwaitingRight'
  BY <1>1, <1>2, <1>3, AwaitingStays
<1>14. BlocksRight'
  BY <1>1, <1>2, <1>3, <1>4, SameRooms, BlocksStay
<1>15. ListenersTold'
  <2>1. Told(Unread(BufferView(u)), mainQueue[u], bufferGroupChat[u]) /\ mainQueue[u] \in Seq(Block)
    BY <1>1 DEF ListenersTold, Types
  <2>2. bufferGroupChat'[u] = IF Head(mainQueue[u]).kind = "buffer"
                              THEN BadgeOf(Head(mainQueue[u]).groups, bufferGroupChat[u])
                              ELSE bufferGroupChat[u]
    BY <1>5, <1>9
  <2>3. Told(Unread(BufferView(u)), Tail(mainQueue[u]), bufferGroupChat'[u])
    BY <1>2, <2>1, <2>2, ToldTail
  <2>4. NewBufferView(u) = BufferView(u)
    BY <1>2 DEF NewBufferView, BufferView, View
  <2> QED  BY <1>1, <1>2, <1>4, <1>9, <2>3, <2>4, OthersTold
<1> QED  BY <1>3, <1>10, <1>11, <1>12, <1>13, <1>14, <1>15 DEF IInv, Right

\* A new listener is told what there is.
LEMMA FirstSnapshot ==
  ASSUME Types, QueuesOK, DocsRight, NEW u \in User
  PROVE  /\ <<Snapshot(BufferView(u))>> \in Seq(Block)
         /\ Len(<<Snapshot(BufferView(u))>>) = 1
         /\ <<Snapshot(BufferView(u))>>[1] = Snapshot(BufferView(u))
         /\ Snapshot(BufferView(u)).kind = "buffer"
         /\ Snapshot(BufferView(u)).groups = Unread(BufferView(u))
         /\ Snapshot(BufferView(u)) \in Block
         /\ BlockRight(u, Snapshot(BufferView(u)))
<1>1. /\ Unread(BufferView(u)) \in SUBSET Group
      /\ \A g \in Unread(BufferView(u)) : HasBadge(docs, sent, u, g)
  BY SnapshotNow
<1>2. PICK e : e = Snapshot(BufferView(u))
  OBVIOUS
<1>3. e \in Snapshots /\ e.kind = "buffer" /\ e.groups = Unread(BufferView(u))
  BY <1>1, <1>2 DEF Snapshot, Snapshots
<1>4. e \in Block /\ BlockRight(u, e)
  BY <1>1, <1>3 DEF Block, BlockRight, BlockFits
<1> QED  BY <1>2, <1>3, <1>4

LEMMA BackKeeps ==
  ASSUME IInv, NEW u \in User, Back(u)
  PROVE  IInv'
<1>1. Types /\ Right /\ ListenersTold /\ RoomsRight /\ ShownRight /\ AwaitingRight /\ BlocksRight
      /\ QueuesOK /\ DocsRight
  BY DEF IInv, Right
<1>2. /\ UNCHANGED <<docs, remoteDocs, mutationQueue, awaiting, rooms, bufferGroupChat,
                     founded, sent>>
      /\ UNCHANGED clientVars
  BY DEF Back, history, clientVars
<1>3. Lemmas!FsTypeOK' /\ Growing /\ QueuesOK' /\ DocsRight' /\ GroupsWhole'
  BY <1>1, <1>2, SameNetwork, NetworkKeepsClient
<1>4. PICK e \in Block : /\ <<e>> \in Seq(Block) /\ Len(<<e>>) = 1 /\ <<e>>[1] = e
                         /\ e.kind = "buffer" /\ e.groups = Unread(BufferView(u))
                         /\ BlockRight(u, e) /\ e = Snapshot(BufferView(u))
  BY <1>1, FirstSnapshot
<1>5. /\ recents' = [recents EXCEPT ![u] = @ + 1] /\ Enqueue(u, <<e>>)
      /\ inRoom' = [inRoom EXCEPT ![u] = NoRoom]
  BY <1>4 DEF Back, NewTabBar
<1>6. /\ mainQueue' \in [User -> Seq(Block)]
      /\ mainQueue'[u] = mainQueue[u] \o <<e>>
      /\ \A v \in User \ {u} : mainQueue'[v] = mainQueue[v]
      /\ \A v \in User : \A i \in 1..Len(mainQueue'[v]) :
           \/ \E j \in 1..Len(mainQueue[v]) : mainQueue'[v][i] = mainQueue[v][j]
           \/ v = u /\ \E j \in 1..Len(<<e>>) : mainQueue'[v][i] = <<e>>[j]
  BY <1>1, <1>4, <1>5, Enqueued
<1>7. recents' \in [User -> Nat \ {0}] /\ inRoom' \in [User -> Group \cup {NoRoom}]
  BY <1>1, <1>5 DEF Types
<1>8. Types'
  BY <1>1, <1>2, <1>3, <1>6, <1>7 DEF Types
<1>9. RoomsRight'
  BY <1>1, <1>2, <1>3, RoomsStay
<1>10. ShownRight'
  <2>1. \A v \in User : \A g \in bufferGroupChat'[v] : g \in Group /\ g \in bufferGroupChat[v]
    BY <1>1, <1>2 DEF Types
  <2> QED  BY <1>1, <1>3, <2>1, ShownStays
<1>11. AwaitingRight'
  BY <1>1, <1>2, <1>3, AwaitingStays
<1>12. BlocksRight'
  <2>1. StaysRight(u, e)
    BY <1>1, <1>2, <1>3, <1>4, SameRooms, BlockStays
  <2>2. \A j \in 1..Len(<<e>>) : <<e>>[j] = e
    BY <1>4
  <2>3. \A v \in User : \A i \in 1..Len(mainQueue'[v]) :
          \/ \E j \in 1..Len(mainQueue[v]) : mainQueue'[v][i] = mainQueue[v][j]
          \/ StaysRight(v, mainQueue'[v][i])
    BY <1>6, <2>1, <2>2
  <2> QED  BY <1>1, <1>2, <1>3, <2>3, SameRooms, BlocksStay
<1>13. ListenersTold'
  <2>1. Told(Unread(BufferView(u)), mainQueue[u], bufferGroupChat[u]) /\ mainQueue[u] \in Seq(Block)
    BY <1>1 DEF ListenersTold, Types
  <2>2. <<e>>[Len(<<e>>)] = e /\ Len(<<e>>) > 0
    BY <1>4
  <2>3. Told(Unread(BufferView(u)), mainQueue[u] \o <<e>>, bufferGroupChat[u])
    BY <1>4, <2>1, <2>2, ToldLonger
  <2>4. NewBufferView(u) = BufferView(u)
    BY <1>2 DEF NewBufferView, BufferView, View
  <2> QED  BY <1>1, <1>2, <1>6, <2>3, <2>4, OthersTold
<1> QED  BY <1>3, <1>8, <1>9, <1>10, <1>11, <1>12, <1>13 DEF IInv, Right

\* What a kill leaves: the documents, and of the queue what was on disk.
LEMMA KillKeepsClient ==
  ASSUME Types, Right, NEW u \in User, Relaunch(u)
  PROVE  /\ Lemmas!FsTypeOK'
         /\ QueuesOK' /\ DocsRight' /\ GroupsWhole'
         /\ UNCHANGED <<docs, remoteDocs, founded, sent>>
         /\ \A v \in User \ {u} : mutationQueue'[v] = mutationQueue[v]
<1>1. QueuesOK /\ DocsRight /\ GroupsWhole /\ Lemmas!FsTypeOK /\ Lemmas!Killed({u})
  BY SameKill DEF Right, Types
<1>2. UNCHANGED <<docs, remoteDocs, founded, sent>>
  BY DEF Relaunch, FreshProcess
<1>3. Lemmas!FsTypeOK'
  BY <1>1, SameTypes, Lemmas!KilledType
<1>4. (Lemmas!KeysKept(PermanentKeys))'
  BY <1>1, SameTypes, Lemmas!KilledKeepsKeys DEF QueuesOK
<1>5. (Lemmas!InOrder(PriorWrites))'
  BY <1>1, SameTypes, Lemmas!KilledKeepsOrder DEF QueuesOK
<1>6. ASSUME NEW v \in User, NEW i \in 1..Len(mutationQueue'[v])
      PROVE  WrittenBy(docs', founded', sent', v, mutationQueue'[v][i])
  <2>1. i \in 1..Len(mutationQueue[v]) /\ mutationQueue'[v][i] = mutationQueue[v][i]
    BY <1>1, SameTypes, Lemmas!KilledQueues
  <2>2. WrittenBy(docs, founded, sent, v, mutationQueue[v][i])
    BY <1>1, <2>1 DEF QueuesOK
  <2> QED  BY <1>2, <2>1, <2>2
<1>7. QueuesOK'
  BY <1>4, <1>5, <1>6, NextWrites DEF QueuesOK
<1>8. DocsRight'
  BY <1>1, <1>2, NextDocsRight DEF DocsRight
<1>9. \A v \in User \ {u} : mutationQueue'[v] = mutationQueue[v]
  BY <1>1, SameTypes, Lemmas!KilledQueues
<1>10. GroupsWhole'
  <2>1. applied'[u] = 0 /\ \A v \in User \ {u} : applied'[v] = applied[v]
    BY <1>1 DEF Lemmas!Killed
  <2>2. ASSUME NEW v \in User, NEW i \in 1..applied'[v], NEW g \in Group,
               mutationQueue'[v][i].path = GroupDoc(g)
        PROVE  docs'[GroupDoc(g)] # {}
    <3>1. v # u /\ i \in 1..applied[v] /\ mutationQueue'[v] = mutationQueue[v]
      BY <1>9, <2>1
    <3> QED  BY <1>1, <1>2, <2>2, <3>1 DEF GroupsWhole
  <2>3. \A g \in Group : docs'[GroupDoc(g)] # {} => Members(founded', g) \subseteq docs'[GroupDoc(g)]
    BY <1>1, <1>2 DEF GroupsWhole
  <2> QED  BY <2>2, <2>3, NextGroupsWhole
<1> QED  BY <1>2, <1>3, <1>7, <1>8, <1>9, <1>10

\* The first snapshot of the new process.
LEMMA LaunchSnapshot ==
  ASSUME Types, Right, NEW u \in User, Relaunch(u)
  PROVE  \E e \in Block : /\ <<e>> \in Seq(Block) /\ Len(<<e>>) = 1 /\ <<e>>[1] = e
                          /\ e.kind = "buffer" /\ e.groups = Unread(NewBufferView(u))
                          /\ StaysRight(u, e) /\ e = Snapshot(LaunchBufferView(u))
<1>1. /\ Lemmas!FsTypeOK' /\ QueuesOK' /\ DocsRight' /\ remoteDocs' = remoteDocs
      /\ mutationQueue'[u] = OnDisk(u)
  BY KillKeepsClient, SameKill
<1>2. /\ Unread(NewBufferView(u)) \in SUBSET Group
      /\ \A g \in Unread(NewBufferView(u)) : HasBadge(docs', sent', u, g)
  BY <1>1, SnapshotNext
<1>3. NewBufferView(u) = LaunchBufferView(u)
  BY <1>1 DEF NewBufferView, LaunchBufferView
<1>4. PICK e : e = Snapshot(LaunchBufferView(u))
  OBVIOUS
<1>5. e \in Snapshots /\ e.kind = "buffer" /\ e.groups = Unread(NewBufferView(u))
  BY <1>2, <1>3, <1>4 DEF Snapshot, Snapshots
<1>6. e \in Block /\ StaysRight(u, e)
  BY <1>2, <1>5 DEF Block, StaysRight, BlockFits
<1>7. <<e>> \in Seq(Block) /\ Len(<<e>>) = 1 /\ <<e>>[1] = e
  BY <1>6
<1> QED  BY <1>4, <1>5, <1>6, <1>7

LEMMA RelaunchKeeps ==
  ASSUME IInv, NEW u \in User, Relaunch(u)
  PROVE  IInv'
<1>1. Types /\ Right /\ ListenersTold /\ RoomsRight /\ ShownRight /\ AwaitingRight /\ BlocksRight
      /\ QueuesOK /\ DocsRight
  BY DEF IInv, Right
<1>4. /\ Lemmas!FsTypeOK' /\ QueuesOK' /\ DocsRight' /\ GroupsWhole'
      /\ UNCHANGED <<docs, remoteDocs, founded, sent>>
      /\ \A v \in User \ {u} : mutationQueue'[v] = mutationQueue[v]
  BY <1>1, KillKeepsClient
<1>5. PICK e \in Block : /\ <<e>> \in Seq(Block) /\ Len(<<e>>) = 1 /\ <<e>>[1] = e
                         /\ e.kind = "buffer" /\ e.groups = Unread(NewBufferView(u))
                         /\ StaysRight(u, e) /\ e = Snapshot(LaunchBufferView(u))
  BY <1>1, LaunchSnapshot
<1>6. /\ mainQueue' = [mainQueue EXCEPT ![u] = <<e>>]
      /\ awaiting' = [awaiting EXCEPT ![u] = {}] /\ recents' = [recents EXCEPT ![u] = 1]
      /\ inRoom' = [inRoom EXCEPT ![u] = NoRoom] /\ rooms' = [rooms EXCEPT ![u] = << >>]
      /\ bufferGroupChat' = [bufferGroupChat EXCEPT ![u] = {}]
  BY <1>5 DEF Relaunch, FreshProcess
<1>7. /\ mainQueue' \in [User -> Seq(Block)] /\ mainQueue'[u] = <<e>>
      /\ \A v \in User \ {u} : mainQueue'[v] = mainQueue[v]
  BY <1>1, <1>5, <1>6 DEF Types
<1>8. /\ awaiting' \in [User -> SUBSET Added] /\ awaiting'[u] = {}
      /\ \A v \in User \ {u} : awaiting'[v] = awaiting[v]
  BY <1>1, <1>6 DEF Types
<1>9. \A v \in User : IsFiniteSet(awaiting'[v])
  BY <1>1, <1>8, FS_EmptySet DEF Types
<1>10. recents' \in [User -> Nat \ {0}] /\ inRoom' \in [User -> Group \cup {NoRoom}]
  BY <1>1, <1>6 DEF Types
<1>11. /\ rooms' \in [User -> Seq(Room)] /\ Len(rooms'[u]) = 0
       /\ \A v \in User \ {u} : rooms'[v] = rooms[v]
  BY <1>1, <1>6 DEF Types
<1>12. /\ bufferGroupChat' \in [User -> SUBSET Group] /\ bufferGroupChat'[u] = {}
       /\ \A v \in User \ {u} : bufferGroupChat'[v] = bufferGroupChat[v]
  BY <1>1, <1>6 DEF Types
<1>13. Types'
  BY <1>1, <1>4, <1>7, <1>8, <1>9, <1>10, <1>11, <1>12 DEF Types
<1>14. RoomsRight'
  <2>1. ASSUME NEW v \in User, NEW i \in 1..Len(rooms'[v])
        PROVE  /\ MemberOf(docs', v, rooms'[v][i].group)
               /\ \A w \in rooms'[v][i].roomMember : MemberOf(docs', w, rooms'[v][i].group)
    <3>1. i \in 1..Len(rooms[v]) /\ rooms'[v] = rooms[v]
      BY <1>11
    <3> QED  BY <1>1, <1>4, <3>1 DEF RoomsRight
  <2> QED  BY <2>1 DEF RoomsRight, MemberOf
<1>15. ShownRight'
  <2>1. ASSUME NEW v \in User, NEW g \in bufferGroupChat'[v] PROVE HasBadge(docs', sent', v, g)
    <3>1. g \in bufferGroupChat[v]
      BY <1>12
    <3> QED  BY <1>1, <1>4, <3>1 DEF ShownRight
  <2> QED  BY <2>1 DEF ShownRight, HasBadge, MemberOf, Lemmas!Has
<1>16. AwaitingRight'
  <2>1. ASSUME NEW v \in User, NEW w \in awaiting'[v]
        PROVE  /\ Chosen(founded', v, w)
               /\ \E i \in 1..Len(mutationQueue'[v]) : mutationQueue'[v][i].path = GroupDoc(w.group)
    <3>1. v # u /\ w \in awaiting[v] /\ mutationQueue'[v] = mutationQueue[v]
      BY <1>4, <1>8
    <3> QED  BY <1>1, <1>4, <3>1 DEF AwaitingRight
  <2> QED  BY <2>1, NextAwaitingRight
<1>17. BlocksRight'
  <2>1. ASSUME NEW i \in 1..Len(mainQueue'[u]) PROVE StaysRight(u, mainQueue'[u][i])
    BY <1>5, <1>7
  <2>2. ASSUME NEW v \in User \ {u}, NEW i \in 1..Len(mainQueue'[v])
        PROVE  StaysRight(v, mainQueue'[v][i])
    <3>1. /\ i \in 1..Len(mainQueue[v]) /\ mainQueue'[v] = mainQueue[v]
          /\ mutationQueue'[v] = mutationQueue[v] /\ rooms'[v] = rooms[v]
      BY <1>4, <1>7, <1>11
    <3>2. BlockRight(v, mainQueue[v][i])
      BY <1>1, <3>1 DEF BlocksRight
    <3> QED  BY <1>4, <3>1, <3>2 DEF BlockRight, StaysRight
  <2> QED  BY <2>1, <2>2, NextBlocksRight
<1>18. ListenersTold'
  <2>1. Told(Unread(NewBufferView(u)), mainQueue'[u], bufferGroupChat'[u])
    BY <1>5, <1>7 DEF Told
  <2> QED  BY <1>1, <1>4, <1>7, <1>12, <2>1, OthersTold
<1> QED  BY <1>4, <1>13, <1>14, <1>15, <1>16, <1>17, <1>18 DEF IInv, Right

\* The closures that an answer lets run find their groups at the backend.
LEMMA AnsweredBlocks ==
  ASSUME Types, AwaitingRight, GroupsWhole, NEW u \in User, applied[u] > 0
  PROVE  /\ SetToSeq(Answered(u)) \in Seq(Block)
         /\ \A i \in 1..Len(SetToSeq(Answered(u))) :
              /\ SetToSeq(Answered(u))[i].kind = "added"
              /\ BlockRight(u, SetToSeq(Answered(u))[i])
<1>1. Answered(u) \subseteq awaiting[u] /\ awaiting[u] \in SUBSET Added /\ IsFiniteSet(awaiting[u])
  BY DEF Answered, Types
<1>2. PICK n \in Nat : SetToSeq(Answered(u)) \in [1..n -> Answered(u)]
  BY <1>1, FS_Subset, OrderedType
<1>3. mutationQueue[u] \in Seq(Mutation) /\ 1 \in 1..Len(mutationQueue[u]) /\ 1 \in 1..applied[u]
      /\ Head(mutationQueue[u]) = mutationQueue[u][1]
  <2>1. /\ mutationQueue[u] \in Seq(Mutation) /\ applied[u] \in Nat /\ persisted[u] \in Nat
        /\ applied[u] <= persisted[u] /\ persisted[u] <= Len(mutationQueue[u])
    BY SameTypes DEF Types, Lemmas!FsTypeOK
  <2> QED  BY <2>1
<1>4. ASSUME NEW e \in Answered(u)
      PROVE  e \in Block /\ e.kind = "added" /\ BlockRight(u, e)
  <2>1. e \in awaiting[u] /\ e \in Added /\ e.kind = "added" /\ e.group \in Group
    BY <1>1, Blocks
  <2>2. mutationQueue[u][1].path = GroupDoc(e.group)
    BY <1>3 DEF Answered
  <2>3. docs[GroupDoc(e.group)] # {}
    BY <1>3, <2>1, <2>2 DEF GroupsWhole
  <2>4. Chosen(founded, u, e)
    BY <2>1 DEF AwaitingRight
  <2> QED  BY <2>1, <2>3, <2>4 DEF BlockRight, BlockFits, Block
<1>5. PICK s \in [1..n -> Answered(u)] : s = SetToSeq(Answered(u))
  BY <1>2
<1>6. s \in Seq(Block) /\ Len(s) = n
  BY <1>4
<1> QED  BY <1>4, <1>5, <1>6

LEMMA WriteAnsweredKeeps ==
  ASSUME IInv, NEW u \in User, WriteAnswered(u)
  PROVE  IInv'
<1>1. Types /\ Right /\ ListenersTold /\ RoomsRight /\ ShownRight /\ AwaitingRight /\ BlocksRight
      /\ GroupsWhole
  BY DEF IInv, Right
<1>2. /\ Acknowledge(u) /\ applied[u] > 0
      /\ awaiting' = [awaiting EXCEPT ![u] = @ \ Answered(u)]
      /\ Enqueue(u, SetToSeq(Answered(u)) \o BufferCallbacks(u))
      /\ UNCHANGED <<recents, inRoom, rooms, bufferGroupChat, docs, founded, sent>>
  BY DEF WriteAnswered, Acknowledge, history
<1>3. Lemmas!NetworkStep
  BY <1>2, SameNetwork
<1>4. Lemmas!FsTypeOK' /\ Growing /\ QueuesOK' /\ DocsRight' /\ GroupsWhole'
  BY <1>1, <1>2, <1>3, NetworkKeepsClient
<1>5. PICK added \in Seq(Block) :
        /\ added = SetToSeq(Answered(u))
        /\ \A i \in 1..Len(added) : added[i].kind = "added" /\ BlockRight(u, added[i])
  BY <1>1, <1>2, AnsweredBlocks
<1>6. PICK cb \in Seq(Block) :
        /\ cb = BufferCallbacks(u)
        /\ \A i \in 1..Len(cb) : /\ cb[i].kind = "buffer" /\ cb[i].groups = Unread(NewBufferView(u))
                                 /\ StaysRight(u, cb[i])
        /\ \/ cb = << >> /\ Unread(NewBufferView(u)) = Unread(BufferView(u))
           \/ Len(cb) \in Nat \ {0}
  BY <1>1, <1>4, Callbacks
<1>7. PICK new \in Seq(Block) :
        /\ new = added \o cb
        /\ Len(added) \in Nat /\ Len(cb) \in Nat /\ Len(new) = Len(added) + Len(cb)
        /\ \A i \in 1..Len(new) :
             \/ i \in 1..Len(added) /\ new[i] = added[i]
             \/ i > Len(added) /\ i - Len(added) \in 1..Len(cb) /\ new[i] = cb[i - Len(added)]
  BY ConcatBlocks
<1>8. /\ mainQueue' \in [User -> Seq(Block)]
      /\ mainQueue'[u] = mainQueue[u] \o new
      /\ \A v \in User \ {u} : mainQueue'[v] = mainQueue[v]
      /\ \A v \in User : \A i \in 1..Len(mainQueue'[v]) :
           \/ \E j \in 1..Len(mainQueue[v]) : mainQueue'[v][i] = mainQueue[v][j]
           \/ v = u /\ \E j \in 1..Len(new) : mainQueue'[v][i] = new[j]
  <2>1. Enqueue(u, new)
    BY <1>2, <1>5, <1>6, <1>7
  <2> QED  BY <1>1, <2>1, Enqueued
<1>9. /\ awaiting' \in [User -> SUBSET Added] /\ awaiting'[u] = awaiting[u] \ Answered(u)
      /\ \A v \in User \ {u} : awaiting'[v] = awaiting[v]
  BY <1>1, <1>2 DEF Types
<1>10. \A v \in User : awaiting'[v] \subseteq awaiting[v] /\ IsFiniteSet(awaiting'[v])
  BY <1>1, <1>9, FS_Subset DEF Types
<1>11. Types'
  BY <1>1, <1>2, <1>4, <1>8, <1>9, <1>10 DEF Types
<1>12. RoomsRight'
  BY <1>1, <1>2, <1>4, RoomsStay
<1>13. ShownRight'
  <2>1. \A v \in User : \A g \in bufferGroupChat'[v] : g \in Group /\ g \in bufferGroupChat[v]
    BY <1>1, <1>2 DEF Types
  <2> QED  BY <1>1, <1>4, <2>1, ShownStays
<1>14. PICK q \in Seq(Mutation) :
         /\ q = mutationQueue[u] /\ mutationQueue'[u] = Tail(q) /\ Len(q) \in Nat /\ Len(q) > 0
         /\ Len(Tail(q)) = Len(q) - 1 /\ Head(q) = q[1]
         /\ \A i \in 1..Len(Tail(q)) : Tail(q)[i] = q[i + 1]
         /\ \A v \in User \ {u} : mutationQueue'[v] = mutationQueue[v]
  <2>1. /\ mutationQueue[u] \in Seq(Mutation) /\ applied[u] \in Nat /\ persisted[u] \in Nat
        /\ applied[u] <= persisted[u] /\ persisted[u] <= Len(mutationQueue[u])
    BY <1>1, SameTypes DEF Types, Lemmas!FsTypeOK
  <2>2. /\ mutationQueue'[u] = Tail(mutationQueue[u])
        /\ \A v \in User \ {u} : mutationQueue'[v] = mutationQueue[v]
    BY <1>1, <1>2 DEF Acknowledge, Types, Lemmas!FsTypeOK
  <2> QED  BY <1>2, <2>1, <2>2
<1>15. AwaitingRight'
  <2>1. ASSUME NEW v \in User, NEW e \in awaiting'[v], NEW i \in 1..Len(mutationQueue[v]),
               mutationQueue[v][i].path = GroupDoc(e.group)
        PROVE  \E j \in 1..Len(mutationQueue'[v]) : mutationQueue'[v][j].path = GroupDoc(e.group)
    <3>1. CASE v # u
      BY <1>14, <2>1, <3>1
    <3>2. CASE v = u
      <4>1. e \in awaiting[u] /\ e \notin Answered(u)
        BY <1>9, <3>2
      <4>2. q[1].path # GroupDoc(e.group)
        BY <1>14, <4>1 DEF Answered
      <4>3. i # 1 /\ i - 1 \in 1..Len(Tail(q)) /\ Tail(q)[i - 1] = q[i]
        BY <1>14, <2>1, <3>2, <4>2
      <4>4. i - 1 \in 1..Len(mutationQueue'[u]) /\ mutationQueue'[u][i - 1] = mutationQueue[u][i]
        BY <1>14, <4>3
      <4> QED  BY <2>1, <3>2, <4>4
    <3> QED  BY <3>1, <3>2
  <2> QED  BY <1>1, <1>4, <1>10, <2>1, AwaitingStays
<1>16. BlocksRight'
  <2>1. ASSUME NEW j \in 1..Len(new) PROVE StaysRight(u, new[j])
    <3>1. CASE j \in 1..Len(added) /\ new[j] = added[j]
      <4>1. PICK e \in Block : e = added[j] /\ BlockRight(u, e)
        BY <1>5, <3>1
      <4>2. StaysRight(u, e)
        BY <1>1, <1>2, <1>4, <4>1, SameRooms, BlockStays
      <4> QED  BY <3>1, <4>1, <4>2
    <3>2. CASE j - Len(added) \in 1..Len(cb) /\ new[j] = cb[j - Len(added)]
      BY <1>6, <3>2
    <3> QED  BY <1>7, <3>1, <3>2
  <2>2. \A v \in User : \A i \in 1..Len(mainQueue'[v]) :
          \/ \E j \in 1..Len(mainQueue[v]) : mainQueue'[v][i] = mainQueue[v][j]
          \/ StaysRight(v, mainQueue'[v][i])
    BY <1>8, <2>1
  <2> QED  BY <1>1, <1>2, <1>4, <2>2, SameRooms, BlocksStay
<1>17. ListenersTold'
  <2>1. \A v \in User \ {u} : remoteDocs'[v] = remoteDocs[v]
    BY <1>1, <1>2 DEF Acknowledge, Types, Lemmas!FsTypeOK
  <2>2. Told(Unread(BufferView(u)), mainQueue[u], bufferGroupChat[u]) /\ mainQueue[u] \in Seq(Block)
    BY <1>1 DEF ListenersTold, Types
  <2>3. CASE cb = << >> /\ Unread(NewBufferView(u)) = Unread(BufferView(u))
    <3>1. Len(cb) = 0
      BY <2>3
    <3>2. \A j \in 1..Len(new) : new[j].kind # "buffer"
      BY <1>5, <1>7, <3>1
    <3>3. Told(Unread(NewBufferView(u)), mainQueue[u] \o new, bufferGroupChat[u])
      BY <2>2, <2>3, <3>2, ToldLonger
    <3> QED  BY <1>1, <1>2, <1>8, <1>14, <2>1, <3>3, OthersTold
  <2>4. CASE Len(cb) \in Nat \ {0}
    <3>1. Len(new) > 0 /\ Len(new) \in 1..Len(new) /\ ~(Len(new) \in 1..Len(added))
          /\ Len(new) - Len(added) = Len(cb) /\ Len(cb) \in 1..Len(cb)
      BY <1>7, <2>4
    <3>2. new[Len(new)] = cb[Len(cb)]
      BY <1>7, <3>1
    <3>3. new[Len(new)].kind = "buffer" /\ new[Len(new)].groups = Unread(NewBufferView(u))
      BY <1>6, <3>1, <3>2
    <3>4. Told(Unread(NewBufferView(u)), mainQueue[u] \o new, bufferGroupChat[u])
      BY <2>2, <3>1, <3>3, ToldLonger
    <3> QED  BY <1>1, <1>2, <1>8, <1>14, <2>1, <3>4, OthersTold
  <2> QED  BY <1>6, <2>3, <2>4
<1> QED  BY <1>4, <1>11, <1>12, <1>13, <1>15, <1>16, <1>17 DEF IInv, Right
-----------------------------------------------------------------------------
(***************************************************************************)
(* The steps that write.                                                   *)
(***************************************************************************)
LEMMA Written ==
  ASSUME Types, NEW u \in User, NEW ms \in Seq(Mutation), LocallyWrite(u, ms)
  PROVE  /\ UNCHANGED <<docs, remoteDocs>>
         /\ mutationQueue'[u] = mutationQueue[u] \o ms
         /\ \A v \in User \ {u} : mutationQueue'[v] = mutationQueue[v]
         /\ \A v \in User : \A i \in 1..Len(mutationQueue[v]) :
              i \in 1..Len(mutationQueue'[v]) /\ mutationQueue'[v][i] = mutationQueue[v][i]
         /\ \A i \in 1..Len(ms) : \E j \in 1..Len(mutationQueue'[u]) : mutationQueue'[u][j] = ms[i]
<1>1. PICK q \in Seq(Mutation) : q = mutationQueue[u]
  BY SameTypes DEF Types, Lemmas!FsTypeOK
<1>2. /\ UNCHANGED <<docs, remoteDocs>> /\ mutationQueue'[u] = q \o ms
      /\ \A v \in User \ {u} : mutationQueue'[v] = mutationQueue[v]
  BY <1>1 DEF LocallyWrite, Types, Lemmas!FsTypeOK
<1>3. \A i \in 1..Len(q) : i \in 1..Len(q \o ms) /\ (q \o ms)[i] = q[i]
  OBVIOUS
<1>4. \A i \in 1..Len(ms) : Len(q) + i \in 1..Len(q \o ms) /\ (q \o ms)[Len(q) + i] = ms[i]
  OBVIOUS
<1>5. ASSUME NEW v \in User, NEW i \in 1..Len(mutationQueue[v])
      PROVE  i \in 1..Len(mutationQueue'[v]) /\ mutationQueue'[v][i] = mutationQueue[v][i]
  <2>1. CASE v = u
    BY <1>1, <1>2, <1>3, <2>1
  <2>2. CASE v # u
    BY <1>2, <2>2
  <2> QED  BY <2>1, <2>2
<1> QED  BY <1>1, <1>2, <1>4, <1>5

LEMMA WriteStep ==
  ASSUME Types, Right, NEW u \in User, NEW ms \in Seq(Mutation), LocallyWrite(u, ms),
         \A g \in Group : founded[g] # << >> => founded'[g] = founded[g],
         sent \subseteq sent',
         \A i \in 1..Len(ms) : WrittenBy(docs, founded', sent', u, ms[i]),
         \A i \in 1..Len(ms) : \A r \in Prior(u, ms[i]) : Coming(docs, mutationQueue[u], r[1], r[2])
  PROVE  /\ Lemmas!FsTypeOK'
         /\ Growing /\ QueuesOK' /\ DocsRight' /\ GroupsWhole'
<1>1. QueuesOK /\ DocsRight /\ GroupsWhole
  BY DEF Right
<1>2. \A i \in 1..Len(ms) : \A r \in Prior(u, ms[i]) : Lemmas!WillHave(u, r[1], r[2])
  BY WillCome
<1>3. /\ Lemmas!FsTypeOK'
      /\ Grows(docs, founded, sent, docs', founded', sent')
      /\ QueuesOK' /\ DocsRight' /\ GroupsWhole'
  BY <1>1, <1>2, WriteKeepsClient
<1>4. CopiesKept
  BY WriteKeepsCopies
<1> QED  BY <1>3, <1>4 DEF Growing

LEMMA PathsStay ==
  ASSUME Types, NEW u \in User, NEW ms \in Seq(Mutation), LocallyWrite(u, ms)
  PROVE  \A v \in User : \A e \in awaiting'[v] : \A i \in 1..Len(mutationQueue[v]) :
           mutationQueue[v][i].path = GroupDoc(e.group) =>
             \E j \in 1..Len(mutationQueue'[v]) : mutationQueue'[v][j].path = GroupDoc(e.group)
  BY Written

LEMMA OthersBadges ==
  ASSUME NEW u \in User, NEW p, p.coll # "ChatBuffer" \/ p.owner # u
  PROVE  \A g \in Group : p # GroupBuffer(u, g)
  BY Paths

LEMMA GroupAddedKeeps ==
  ASSUME IInv, NEW u \in User, GroupAdded(u)
  PROVE  IInv'
<1>1. Types /\ Right /\ ListenersTold /\ RoomsRight /\ ShownRight /\ AwaitingRight /\ BlocksRight
      /\ QueuesOK /\ DocsRight /\ GroupsWhole
  BY DEF IInv, Right
<1>2. PICK e \in Added :
        /\ e = Head(mainQueue[u]) /\ e.kind = "added" /\ e.group \in Group /\ e.friends \in Seq(User)
        /\ Chosen(founded, u, e) /\ docs[GroupDoc(e.group)] # {}
        /\ mainQueue[u] \in Seq(Block) /\ e = mainQueue[u][1]
  <2>1. mainQueue[u] \in Seq(Block) /\ mainQueue[u] # << >> /\ Head(mainQueue[u]).kind = "added"
    BY <1>1 DEF Types, GroupAdded
  <2>2. Head(mainQueue[u]) = mainQueue[u][1] /\ mainQueue[u][1] \in Block /\ Len(mainQueue[u]) \in Nat
        /\ Len(mainQueue[u]) > 0
    BY <2>1, TailOfBlocks
  <2>3. BlockRight(u, mainQueue[u][1])
    BY <1>1, <2>2 DEF BlocksRight
  <2>4. PICK e \in Block : e = mainQueue[u][1]
    BY <2>2
  <2>5. e.kind = "added" /\ e \in Added
    BY <2>1, <2>2, <2>4, Blocks
  <2> QED  BY <2>1, <2>2, <2>3, <2>4, <2>5, Blocks DEF BlockRight, BlockFits
<1>3. PICK g \in Group : g = e.group
  BY <1>2
<1>4. PICK told \in Seq(User) : /\ told = <<u>> \o e.friends
                                /\ \A i \in 1..Len(told) : MemberOf(docs, told[i], g)
  <2>1. PICK fr \in Seq(User) : fr = e.friends /\ \A i \in 1..Len(fr) : fr[i] \in founded[g][2]
    BY <1>2, <1>3 DEF Chosen
  <2>2. PICK s \in Seq(User) : s = <<u>> /\ Len(s) = 1 /\ s[1] = u
    <3>1. <<u>> \in Seq(User) /\ Len(<<u>>) = 1 /\ <<u>>[1] = u
      OBVIOUS
    <3> QED  BY <3>1
  <2>3. PICK t \in Seq(User) :
          /\ t = <<u>> \o fr
          /\ \A i \in 1..Len(t) : t[i] = u \/ \E j \in 1..Len(fr) : t[i] = fr[j]
    <3>1. s \o fr \in Seq(User) /\ Len(s \o fr) = 1 + Len(fr) /\ Len(fr) \in Nat
      BY <2>2
    <3>2. ASSUME NEW i \in 1..Len(s \o fr)
          PROVE  (s \o fr)[i] = u \/ \E j \in 1..Len(fr) : (s \o fr)[i] = fr[j]
      <4>1. CASE i = 1
        BY <2>2, <4>1
      <4>2. CASE i # 1
        <5>1. i - 1 \in 1..Len(fr) /\ (s \o fr)[i] = fr[i - 1]
          BY <2>2, <3>1, <4>2
        <5> QED  BY <5>1
      <4> QED  BY <4>1, <4>2
    <3> QED  BY <2>2, <3>1, <3>2
  <2>4. \A i \in 1..Len(t) : t[i] \in User /\ t[i] \in founded[g][2]
    BY <1>2, <1>3, <2>1, <2>3 DEF Chosen
  <2>5. ASSUME NEW v \in User, v \in founded[g][2] PROVE MemberOf(docs, v, g)
    <3>1. founded[g] # << >> /\ founded[g][1] = u
      BY <1>2, <1>3 DEF Chosen
    <3>2. [key |-> v, from |-> u] \in Members(founded, g)
      BY <2>5, <3>1 DEF Members
    <3>3. [key |-> v, from |-> u] \in docs[GroupDoc(g)]
      BY <1>1, <1>2, <1>3, <3>2 DEF GroupsWhole
    <3> QED  BY <3>3 DEF MemberOf, KeysOf
  <2> QED  BY <2>1, <2>3, <2>4, <2>5
<1>5. PICK ms \in Seq(Mutation) :
        /\ ms = Entries(u, e)
        /\ \A i \in 1..Len(ms) : i \in 1..Len(told) /\ ms[i].path = Entry(told[i], g)
  <2>1. ASSUME NEW v \in User
        PROVE  /\ Put(Entry(v, g), {Member(v, u)}) \in Mutation
               /\ Put(Entry(v, g), {Member(v, u)}).path = Entry(v, g)
    <3>1. {Member(v, u)} \in Document
      BY FieldTypes DEF Document
    <3> QED  BY <3>1, PathTypes, PutWrites
  <2>2. PICK n \in Nat : n = Len(told) /\ DOMAIN told = 1..n
    OBVIOUS
  <2>3. Entries(u, e) = [i \in 1..n |-> Put(Entry(told[i], g), {Member(told[i], u)})]
    BY <1>3, <1>4, <2>2 DEF Entries
  <2>4. \A i \in 1..n : told[i] \in User
    BY <2>2
  <2>5. PICK s : s = [i \in 1..n |-> Put(Entry(told[i], g), {Member(told[i], u)})]
    OBVIOUS
  <2>6. s \in [1..n -> Mutation] /\ \A i \in 1..n : s[i].path = Entry(told[i], g)
    BY <2>1, <2>4, <2>5
  <2>7. s \in Seq(Mutation) /\ Len(s) = n
    BY <2>6
  <2> QED  BY <2>2, <2>3, <2>5, <2>6, <2>7
<1>6. /\ LocallyWrite(u, ms) /\ mainQueue[u] # << >>
      /\ mainQueue' = [mainQueue EXCEPT ![u] = Tail(@)]
      /\ UNCHANGED <<awaiting, recents, inRoom, rooms, bufferGroupChat, founded, sent>>
  BY <1>2, <1>5 DEF GroupAdded, history
<1>7. ASSUME NEW i \in 1..Len(ms)
      PROVE  /\ WrittenBy(docs, founded', sent', u, ms[i]) /\ Prior(u, ms[i]) = {}
             /\ \A h \in Group : ms[i].path # GroupBuffer(u, h)
  <2>1. PICK v \in User : ms[i].path = Entry(v, g) /\ MemberOf(docs, v, g)
    <3>1. i \in 1..Len(told) /\ ms[i].path = Entry(told[i], g)
      BY <1>5
    <3>2. told[i] \in User /\ MemberOf(docs, told[i], g)
      BY <1>4, <3>1
    <3> QED  BY <3>1, <3>2
  <2>2. ms[i].path.coll = "Friends"
    BY <2>1, Paths
  <2>3. IsEntry(docs, ms[i])
    BY <2>1 DEF IsEntry
  <2> QED  BY <2>2, <2>3, OthersBadges DEF WrittenBy, Prior
<1>8. Lemmas!FsTypeOK' /\ Growing /\ QueuesOK' /\ DocsRight' /\ GroupsWhole'
  BY <1>1, <1>6, <1>7, WriteStep
<1>9. /\ mainQueue' \in [User -> Seq(Block)]
      /\ mainQueue'[u] = Tail(mainQueue[u])
      /\ \A v \in User \ {u} : mainQueue'[v] = mainQueue[v]
      /\ \A v \in User : \A i \in 1..Len(mainQueue'[v]) :
           \E j \in 1..Len(mainQueue[v]) : mainQueue'[v][i] = mainQueue[v][j]
  BY <1>1, <1>6, Dequeued
<1>10. Types'
  BY <1>1, <1>6, <1>8, <1>9 DEF Types
<1>11. RoomsRight'
  BY <1>1, <1>6, <1>8, RoomsStay
<1>12. ShownRight'
  <2>1. \A v \in User : \A h \in bufferGroupChat'[v] : h \in Group /\ h \in bufferGroupChat[v]
    BY <1>1, <1>6 DEF Types
  <2> QED  BY <1>1, <1>8, <2>1, ShownStays
<1>13. AwaitingRight'
  <2>1. \A v \in User : awaiting'[v] \subseteq awaiting[v]
    BY <1>6
  <2> QED  BY <1>1, <1>6, <1>8, <2>1, PathsStay, AwaitingStays
<1>14. BlocksRight'
  BY <1>1, <1>6, <1>8, <1>9, SameRooms, BlocksStay
<1>15. ListenersTold'
  <2>1. Told(Unread(BufferView(u)), mainQueue[u], bufferGroupChat[u])
    BY <1>1 DEF ListenersTold
  <2>2. bufferGroupChat'[u] = IF Head(mainQueue[u]).kind = "buffer"
                              THEN BadgeOf(Head(mainQueue[u]).groups, bufferGroupChat[u])
                              ELSE bufferGroupChat[u]
    BY <1>2, <1>6
  <2>3. Told(Unread(BufferView(u)), Tail(mainQueue[u]), bufferGroupChat'[u])
    BY <1>2, <1>6, <2>1, <2>2, ToldTail
  <2>4. Unread(NewBufferView(u)) = Unread(BufferView(u))
    BY <1>1, <1>6, <1>7, <1>8, UnreadKept
  <2>5. UNCHANGED remoteDocs /\ \A v \in User \ {u} : mutationQueue'[v] = mutationQueue[v]
    BY <1>1, <1>6, Written
  <2> QED  BY <1>1, <1>6, <1>9, <2>3, <2>4, <2>5, OthersTold
<1> QED  BY <1>8, <1>10, <1>11, <1>12, <1>13, <1>14, <1>15 DEF IInv, Right

\* u has sent the message of a block, and both copies are on their way.
LEMMA WriteBadgesKeeps ==
  ASSUME IInv, NEW u \in User, WriteBadges(u)
  PROVE  IInv'
<1>1. Types /\ Right /\ ListenersTold /\ RoomsRight /\ ShownRight /\ AwaitingRight /\ BlocksRight
      /\ QueuesOK /\ DocsRight /\ GroupsWhole
  BY DEF IInv, Right
<1>2. PICK e \in Badges :
        /\ e = Head(mainQueue[u]) /\ e.kind = "badges" /\ e.msg \in Msg
        /\ e.vc \in 1..Len(rooms[u])
        /\ OnItsWay(docs, sent, mutationQueue[u], u, rooms[u][e.vc].group, e.msg)
        /\ mainQueue[u] \in Seq(Block) /\ e = mainQueue[u][1]
  <2>1. mainQueue[u] \in Seq(Block) /\ mainQueue[u] # << >> /\ Head(mainQueue[u]).kind = "badges"
    BY <1>1 DEF Types, WriteBadges
  <2>2. Head(mainQueue[u]) = mainQueue[u][1] /\ mainQueue[u][1] \in Block /\ Len(mainQueue[u]) \in Nat
        /\ Len(mainQueue[u]) > 0
    BY <2>1, TailOfBlocks
  <2>3. BlockRight(u, mainQueue[u][1])
    BY <1>1, <2>2 DEF BlocksRight
  <2>4. PICK e \in Block : e = mainQueue[u][1]
    BY <2>2
  <2>5. e.kind = "badges" /\ e \in Badges
    BY <2>1, <2>2, <2>4, Blocks
  <2> QED  BY <2>1, <2>2, <2>3, <2>4, <2>5, Blocks DEF BlockRight, BlockFits
<1>3. PICK g \in Group, S \in SUBSET User :
        /\ g = rooms[u][e.vc].group /\ S = rooms[u][e.vc].roomMember
        /\ \A v \in S : MemberOf(docs, v, g)
  <2>1. rooms[u][e.vc] \in Room
    BY <1>1, <1>2 DEF Types
  <2> QED  BY <1>1, <1>2, <2>1 DEF Room, RoomsRight
<1>4. PICK t \in Time : /\ e.msg = [key |-> t, from |-> u] /\ e.msg.key = t
                        /\ [key |-> t, from |-> u, group |-> g] \in sent
                        /\ Coming(docs, mutationQueue[u], RoomConversation(g), t)
                        /\ Coming(docs, mutationQueue[u], OwnConversation(u, g), t)
  <2>1. e.msg = [key |-> e.msg.key, from |-> u] /\ e.msg.key \in Time
    BY <1>2 DEF OnItsWay, Msg
  <2> QED  BY <1>2, <1>3, <2>1 DEF OnItsWay
<1>5. PICK ms \in Seq(Mutation) :
        /\ LocallyWrite(u, ms)
        /\ \A i \in 1..Len(ms) : \E v \in S \ {u} : ms[i] = MergeInto(GroupBuffer(v, g), e.msg)
  <2>1. PICK n \in Nat : SetToSeq(S \ {u}) \in [1..n -> S \ {u}]
    <3>1. IsFiniteSet(S \ {u})
      BY FS_Subset, GroupAssumption
    <3> QED  BY <3>1, OrderedType
  <2>2. PICK others \in [1..n -> S \ {u}] : others = SetToSeq(S \ {u})
    BY <2>1
  <2>3. PICK s : s = [i \in 1..n |-> MergeInto(GroupBuffer(others[i], g), e.msg)]
    OBVIOUS
  <2>4. \A v \in S \ {u} : MergeInto(GroupBuffer(v, g), e.msg) \in Mutation
    BY <1>2, PathTypes, MergeWrites
  <2>5. s \in [1..n -> Mutation]
        /\ \A i \in 1..n : \E v \in S \ {u} : s[i] = MergeInto(GroupBuffer(v, g), e.msg)
    BY <2>3, <2>4
  <2>6. s \in Seq(Mutation) /\ Len(s) = n
    BY <2>5
  <2>7. LocallyWrite(u, s)
    <3>1. LocallyWrite(u, [i \in DOMAIN others |-> MergeInto(GroupBuffer(others[i], g), e.msg)])
      BY <1>2, <1>3, <2>2 DEF WriteBadges
    <3>2. DOMAIN others = 1..n
      OBVIOUS
    <3> QED  BY <2>3, <3>1, <3>2
  <2> QED  BY <2>5, <2>6, <2>7
<1>6. /\ mainQueue[u] # << >>
      /\ mainQueue' = [mainQueue EXCEPT ![u] = Tail(@)]
      /\ UNCHANGED <<awaiting, recents, inRoom, rooms, bufferGroupChat, founded, sent>>
  BY DEF WriteBadges, history
<1>7. ASSUME NEW i \in 1..Len(ms)
      PROVE  /\ WrittenBy(docs, founded', sent', u, ms[i])
             /\ \A r \in Prior(u, ms[i]) : Coming(docs, mutationQueue[u], r[1], r[2])
             /\ \A h \in Group : ms[i].path # GroupBuffer(u, h)
  <2>1. PICK v \in S \ {u} : ms[i] = MergeInto(GroupBuffer(v, g), e.msg)
    BY <1>5
  <2>2. /\ ms[i].path = GroupBuffer(v, g) /\ ms[i].fields = {e.msg}
        /\ ms[i].path.coll = "ChatBuffer" /\ ms[i].path.owner # u /\ ms[i].path.group = g
    BY <1>2, <2>1, Paths, PathTypes, MergeWrites
  <2>3. PICK x \in sent : x.key = t /\ x.from = u /\ x.group = g
    BY <1>4
  <2>4. IsBadge(docs, sent', u, ms[i])
    <3>1. ms[i].fields = {[key |-> x.key, from |-> u]} /\ MemberOf(docs, v, x.group)
          /\ v \in User \ {u} /\ ms[i].path = GroupBuffer(v, x.group) /\ x \in sent'
      BY <1>3, <1>4, <1>6, <2>1, <2>2, <2>3
    <3> QED  BY <2>3, <3>1 DEF IsBadge
  <2>5. ASSUME NEW r \in Prior(u, ms[i]) PROVE Coming(docs, mutationQueue[u], r[1], r[2])
    <3>1. r = <<RoomConversation(g), t>> \/ r = <<OwnConversation(u, g), t>>
      BY <1>2, <1>4, <2>2 DEF Prior
    <3> QED  BY <1>4, <3>1
  <2> QED  BY <2>2, <2>4, <2>5, OthersBadges DEF WrittenBy
<1>8. Lemmas!FsTypeOK' /\ Growing /\ QueuesOK' /\ DocsRight' /\ GroupsWhole'
  BY <1>1, <1>5, <1>6, <1>7, WriteStep
<1>9. /\ mainQueue' \in [User -> Seq(Block)]
      /\ mainQueue'[u] = Tail(mainQueue[u])
      /\ \A v \in User \ {u} : mainQueue'[v] = mainQueue[v]
      /\ \A v \in User : \A i \in 1..Len(mainQueue'[v]) :
           \E j \in 1..Len(mainQueue[v]) : mainQueue'[v][i] = mainQueue[v][j]
  BY <1>1, <1>6, Dequeued
<1>10. Types'
  BY <1>1, <1>6, <1>8, <1>9 DEF Types
<1>11. RoomsRight'
  BY <1>1, <1>6, <1>8, RoomsStay
<1>12. ShownRight'
  <2>1. \A v \in User : \A h \in bufferGroupChat'[v] : h \in Group /\ h \in bufferGroupChat[v]
    BY <1>1, <1>6 DEF Types
  <2> QED  BY <1>1, <1>8, <2>1, ShownStays
<1>13. AwaitingRight'
  <2>1. \A v \in User : awaiting'[v] \subseteq awaiting[v]
    BY <1>6
  <2> QED  BY <1>1, <1>5, <1>8, <2>1, PathsStay, AwaitingStays
<1>14. BlocksRight'
  BY <1>1, <1>6, <1>8, <1>9, SameRooms, BlocksStay
<1>15. ListenersTold'
  <2>1. Told(Unread(BufferView(u)), mainQueue[u], bufferGroupChat[u])
    BY <1>1 DEF ListenersTold
  <2>2. bufferGroupChat'[u] = IF Head(mainQueue[u]).kind = "buffer"
                              THEN BadgeOf(Head(mainQueue[u]).groups, bufferGroupChat[u])
                              ELSE bufferGroupChat[u]
    BY <1>2, <1>6
  <2>3. Told(Unread(BufferView(u)), Tail(mainQueue[u]), bufferGroupChat'[u])
    BY <1>2, <1>6, <2>1, <2>2, ToldTail
  <2>4. Unread(NewBufferView(u)) = Unread(BufferView(u))
    BY <1>1, <1>5, <1>7, <1>8, UnreadKept
  <2>5. UNCHANGED remoteDocs /\ \A v \in User \ {u} : mutationQueue'[v] = mutationQueue[v]
    BY <1>1, <1>5, Written
  <2> QED  BY <1>1, <1>6, <1>9, <2>3, <2>4, <2>5, OthersTold
<1> QED  BY <1>8, <1>10, <1>11, <1>12, <1>13, <1>14, <1>15 DEF IInv, Right

LEMMA SendMessageKeeps ==
  ASSUME IInv, NEW u \in User, NEW i \in 1..Len(rooms[u]), NEW t \in Time, SendMessage(u, i, t)
  PROVE  IInv'
<1>1. Types /\ Right /\ ListenersTold /\ RoomsRight /\ ShownRight /\ AwaitingRight /\ BlocksRight
      /\ QueuesOK /\ DocsRight /\ GroupsWhole
  BY DEF IInv, Right
<1>2. PICK g \in Group : g = rooms[u][i].group
  <2>1. rooms[u][i] \in Room
    BY <1>1 DEF Types
  <2> QED  BY <2>1 DEF Room
<1>3. PICK m \in Msg : m = [key |-> t, from |-> u] /\ m.key = t /\ m.from = u
  <2>1. PICK m : m = [key |-> t, from |-> u]
    OBVIOUS
  <2>2. m \in Msg /\ m.key = t /\ m.from = u
    BY <2>1 DEF Msg
  <2> QED  BY <2>1, <2>2
<1>4. PICK own \in Mutation, room \in Mutation :
        /\ own = MergeInto(OwnConversation(u, g), m) /\ room = MergeInto(RoomConversation(g), m)
        /\ own.path = OwnConversation(u, g) /\ own.merge /\ Lemmas!Has(own.fields, t)
        /\ room.path = RoomConversation(g) /\ room.merge /\ Lemmas!Has(room.fields, t)
  BY <1>3, PathTypes, MergeWrites
<1>5. PICK ms \in Seq(Mutation) : ms = <<own, room>> /\ Len(ms) = 2 /\ ms[1] = own /\ ms[2] = room
  <2>1. /\ <<own, room>> \in Seq(Mutation) /\ Len(<<own, room>>) = 2
        /\ <<own, room>>[1] = own /\ <<own, room>>[2] = room
    OBVIOUS
  <2> QED  BY <2>1
<1>6. PICK e \in Block : /\ e = [kind |-> "badges", vc |-> i, msg |-> m]
                         /\ e.kind = "badges" /\ e.vc = i /\ e.msg = m
  <2>1. PICK e : e = [kind |-> "badges", vc |-> i, msg |-> m]
    OBVIOUS
  <2>2. e \in Badges /\ e.kind = "badges" /\ e.vc = i /\ e.msg = m
    BY <2>1 DEF Badges
  <2> QED  BY <2>1, <2>2 DEF Block
<1>7. PICK new \in Seq(Block) : new = <<e>> /\ Len(new) = 1 /\ new[1] = e
  <2>1. <<e>> \in Seq(Block) /\ Len(<<e>>) = 1 /\ <<e>>[1] = e
    OBVIOUS
  <2> QED  BY <2>1
<1>8. /\ LocallyWrite(u, ms) /\ Enqueue(u, new)
      /\ sent' = sent \cup {[key |-> t, from |-> u, group |-> g]}
      /\ UNCHANGED <<awaiting, recents, inRoom, rooms, bufferGroupChat, founded>>
  BY <1>2, <1>3, <1>4, <1>5, <1>6, <1>7 DEF SendMessage
<1>9. ASSUME NEW j \in 1..Len(ms)
      PROVE  /\ WrittenBy(docs, founded', sent', u, ms[j]) /\ Prior(u, ms[j]) = {}
             /\ \A h \in Group : ms[j].path # GroupBuffer(u, h)
  <2>1. ms[j] = own \/ ms[j] = room
    BY <1>5
  <2>2. IsCopy(ms[j]) /\ ms[j].path.coll = "Conversation"
    BY <1>4, <2>1, Paths DEF IsCopy
  <2> QED  BY <2>2, OthersBadges DEF WrittenBy, Prior
<1>10. Lemmas!FsTypeOK' /\ Growing /\ QueuesOK' /\ DocsRight' /\ GroupsWhole'
  BY <1>1, <1>8, <1>9, WriteStep
<1>11. /\ mainQueue' \in [User -> Seq(Block)]
       /\ mainQueue'[u] = mainQueue[u] \o new
       /\ \A v \in User \ {u} : mainQueue'[v] = mainQueue[v]
       /\ \A v \in User : \A j \in 1..Len(mainQueue'[v]) :
            \/ \E k \in 1..Len(mainQueue[v]) : mainQueue'[v][j] = mainQueue[v][k]
            \/ v = u /\ \E k \in 1..Len(new) : mainQueue'[v][j] = new[k]
  BY <1>1, <1>8, Enqueued
<1>12. sent' \subseteq [key: Time, from: User, group: Group]
  BY <1>1, <1>8 DEF Types
<1>13. Types'
  BY <1>1, <1>8, <1>10, <1>11, <1>12 DEF Types
<1>14. RoomsRight'
  BY <1>1, <1>8, <1>10, RoomsStay
<1>15. ShownRight'
  <2>1. \A v \in User : \A h \in bufferGroupChat'[v] : h \in Group /\ h \in bufferGroupChat[v]
    BY <1>1, <1>8 DEF Types
  <2> QED  BY <1>1, <1>10, <2>1, ShownStays
<1>16. AwaitingRight'
  <2>1. \A v \in User : awaiting'[v] \subseteq awaiting[v]
    BY <1>8
  <2> QED  BY <1>1, <1>8, <1>10, <2>1, PathsStay, AwaitingStays
<1>17. BlocksRight'
  <2>0. \A k \in 1..Len(ms) : \E j \in 1..Len(mutationQueue'[u]) : mutationQueue'[u][j] = ms[k]
    BY <1>1, <1>8, Written
  <2>1. \E j \in 1..Len(mutationQueue'[u]) : mutationQueue'[u][j] = own
    BY <1>5, <2>0
  <2>2. \E j \in 1..Len(mutationQueue'[u]) : mutationQueue'[u][j] = room
    BY <1>5, <2>0
  <2>3. /\ Coming(docs', mutationQueue'[u], RoomConversation(g), t)
        /\ Coming(docs', mutationQueue'[u], OwnConversation(u, g), t)
    BY <1>4, <2>1, <2>2 DEF Coming
  <2>4. OnItsWay(docs', sent', mutationQueue'[u], u, g, m)
    BY <1>3, <1>8, <2>3 DEF OnItsWay
  <2>5. rooms'[u][e.vc].group = g /\ e.vc \in 1..Len(rooms'[u])
    BY <1>2, <1>6, <1>8
  <2>6. StaysRight(u, e)
    BY <1>6, <2>4, <2>5 DEF StaysRight, BlockFits
  <2>7. \A j \in 1..Len(new) : new[j] = e
    BY <1>7
  <2>8. \A v \in User : \A j \in 1..Len(mainQueue'[v]) :
          \/ \E k \in 1..Len(mainQueue[v]) : mainQueue'[v][j] = mainQueue[v][k]
          \/ StaysRight(v, mainQueue'[v][j])
    BY <1>11, <2>6, <2>7
  <2> QED  BY <1>1, <1>8, <1>10, <2>8, SameRooms, BlocksStay
<1>18. ListenersTold'
  <2>1. Told(Unread(BufferView(u)), mainQueue[u], bufferGroupChat[u]) /\ mainQueue[u] \in Seq(Block)
    BY <1>1 DEF ListenersTold, Types
  <2>2. \A j \in 1..Len(new) : new[j].kind # "buffer"
    BY <1>6, <1>7
  <2>3. Told(Unread(BufferView(u)), mainQueue[u] \o new, bufferGroupChat[u])
    BY <2>1, <2>2, ToldLonger
  <2>4. Unread(NewBufferView(u)) = Unread(BufferView(u))
    BY <1>1, <1>8, <1>9, <1>10, UnreadKept
  <2>5. UNCHANGED remoteDocs /\ \A v \in User \ {u} : mutationQueue'[v] = mutationQueue[v]
    BY <1>1, <1>8, Written
  <2> QED  BY <1>1, <1>8, <1>11, <2>3, <2>4, <2>5, OthersTold
<1> QED  BY <1>10, <1>13, <1>14, <1>15, <1>16, <1>17, <1>18 DEF IInv, Right

\* The friends u can tick are users, in some order.
LEMMA SelectedFriends ==
  ASSUME NEW u \in User, NEW friends \in Selections(u)
  PROVE  friends \in Seq(User) /\ ToSet(friends) \in SUBSET User
<1>1. PICK F \in SUBSET (User \ {u}) : friends \in SetToSeqs(F)
  BY DEF Selections
<1>2. IsFiniteSet(F)
  BY FS_Subset, GroupAssumption
<1>3. friends \in Seq(F)
  BY <1>1, <1>2, OrderedType
<1>4. friends \in Seq(User)
  BY <1>3
<1> QED  BY <1>4 DEF ToSet

LEMMA StartGroupChatNowKeeps ==
  ASSUME IInv, NEW u \in User, NEW g \in Group, NEW friends \in Selections(u),
         StartGroupChatNow(u, g, friends)
  PROVE  IInv'
<1>1. Types /\ Right /\ ListenersTold /\ RoomsRight /\ ShownRight /\ AwaitingRight /\ BlocksRight
      /\ QueuesOK /\ DocsRight /\ GroupsWhole
  BY DEF IInv, Right
<1>2. PICK people \in (SUBSET User) \ {{}} : people = ToSet(friends) \cup {u}
  BY SelectedFriends
<1>3. friends \in Seq(User) /\ u \in people /\ \A i \in DOMAIN friends : friends[i] \in people
  BY <1>2, SelectedFriends DEF ToSet
<1>4. /\ founded[g] = << >>
      /\ LocallyWrite(u, <<Put(GroupDoc(g), {Member(v, u) : v \in people})>>)
      /\ founded' = [founded EXCEPT ![g] = <<u, people>>]
      /\ awaiting' = [awaiting EXCEPT
           ![u] = @ \cup {[kind |-> "added", group |-> g, friends |-> friends]}]
      /\ recents' = [recents EXCEPT ![u] = @ + 1]
      /\ Enqueue(u, <<Snapshot(BufferView(u))>>)
      /\ UNCHANGED <<inRoom, rooms, bufferGroupChat, sent>>
  BY <1>2 DEF StartGroupChatNow, NewTabBar
<1>5. /\ founded' \in [Group -> {<< >>} \cup (User \X ((SUBSET User) \ {{}}))]
      /\ founded'[g] = <<u, people>> /\ founded'[g] # << >>
      /\ founded'[g][1] = u /\ founded'[g][2] = people
      /\ \A h \in Group : founded[h] # << >> => founded'[h] = founded[h]
  <2>1. founded \in [Group -> {<< >>} \cup (User \X ((SUBSET User) \ {{}}))]
    BY <1>1 DEF Types
  <2>2. PICK x \in User \X ((SUBSET User) \ {{}}) : /\ x = <<u, people>> /\ x # << >>
                                                    /\ x[1] = u /\ x[2] = people
    <3>1. <<u, people>> \in User \X ((SUBSET User) \ {{}}) /\ <<u, people>> # << >>
          /\ <<u, people>>[1] = u /\ <<u, people>>[2] = people
      OBVIOUS
    <3> QED  BY <3>1
  <2>3. founded' = [founded EXCEPT ![g] = x]
    BY <1>4, <2>2
  <2>4. founded' \in [Group -> {<< >>} \cup (User \X ((SUBSET User) \ {{}}))]
    BY <2>1, <2>3
  <2>5. founded'[g] = x /\ \A h \in Group : h # g => founded'[h] = founded[h]
    BY <2>1, <2>3
  <2> QED  BY <1>4, <2>2, <2>4, <2>5
<1>6. {Member(v, u) : v \in people} = Members(founded', g)
  <2>1. Members(founded', g) = {f \in [key: User, from: User] : f.from = u /\ f.key \in people}
    BY <1>5 DEF Members
  <2>2. ASSUME NEW v \in people PROVE Member(v, u) \in Members(founded', g)
    BY <2>1, FieldTypes
  <2>3. ASSUME NEW f \in Members(founded', g) PROVE \E v \in people : f = Member(v, u)
    BY <2>1 DEF Member
  <2> QED  BY <2>2, <2>3
<1>7. PICK m \in Mutation : /\ m = Put(GroupDoc(g), {Member(v, u) : v \in people})
                            /\ m.path = GroupDoc(g) /\ m.fields = Members(founded', g) /\ ~m.merge
  <2>1. PICK M \in Document : M = Members(founded', g)
    BY MembersDoc
  <2>2. GroupDoc(g) \in GroupPath
    BY PathTypes
  <2>3. /\ Put(GroupDoc(g), M) \in Mutation /\ Put(GroupDoc(g), M).path = GroupDoc(g)
        /\ Put(GroupDoc(g), M).fields = M /\ ~Put(GroupDoc(g), M).merge
    BY <2>2, PutWrites
  <2> QED  BY <1>6, <2>1, <2>3
<1>8. PICK ms \in Seq(Mutation) : ms = <<m>> /\ Len(ms) = 1 /\ ms[1] = m
  <2>1. <<m>> \in Seq(Mutation) /\ Len(<<m>>) = 1 /\ <<m>>[1] = m
    OBVIOUS
  <2> QED  BY <2>1
<1>9. LocallyWrite(u, ms)
  BY <1>4, <1>7, <1>8
<1>10. ASSUME NEW i \in 1..Len(ms)
       PROVE  /\ WrittenBy(docs, founded', sent', u, ms[i]) /\ Prior(u, ms[i]) = {}
              /\ \A h \in Group : ms[i].path # GroupBuffer(u, h)
  <2>1. ms[i] = m
    BY <1>8
  <2>2. IsGroup(founded', m)
    BY <1>5, <1>7 DEF IsGroup
  <2>3. m.path.coll = "Group"
    BY <1>7, Paths
  <2> QED  BY <2>1, <2>2, <2>3, OthersBadges DEF WrittenBy, Prior
<1>11. Lemmas!FsTypeOK' /\ Growing /\ QueuesOK' /\ DocsRight' /\ GroupsWhole'
  BY <1>1, <1>4, <1>5, <1>9, <1>10, WriteStep
<1>12. PICK e \in Block : /\ <<e>> \in Seq(Block) /\ Len(<<e>>) = 1 /\ <<e>>[1] = e
                          /\ e.kind = "buffer" /\ e.groups = Unread(BufferView(u))
                          /\ BlockRight(u, e) /\ e = Snapshot(BufferView(u))
  BY <1>1, FirstSnapshot
<1>13. PICK blocks \in Seq(Block) : blocks = <<e>> /\ Len(blocks) = 1 /\ blocks[1] = e
  BY <1>12
<1>14. /\ mainQueue' \in [User -> Seq(Block)]
       /\ mainQueue'[u] = mainQueue[u] \o blocks
       /\ \A v \in User \ {u} : mainQueue'[v] = mainQueue[v]
       /\ \A v \in User : \A i \in 1..Len(mainQueue'[v]) :
            \/ \E j \in 1..Len(mainQueue[v]) : mainQueue'[v][i] = mainQueue[v][j]
            \/ v = u /\ \E j \in 1..Len(blocks) : mainQueue'[v][i] = blocks[j]
  <2>1. Enqueue(u, blocks)
    BY <1>4, <1>12, <1>13
  <2> QED  BY <1>1, <2>1, Enqueued
<1>15. PICK a \in Added : /\ a = [kind |-> "added", group |-> g, friends |-> friends]
                          /\ a.group = g /\ a.friends = friends
  <2>1. PICK a : a = [kind |-> "added", group |-> g, friends |-> friends]
    OBVIOUS
  <2>2. a \in Added /\ a.group = g /\ a.friends = friends
    BY <1>3, <2>1 DEF Added
  <2> QED  BY <2>1, <2>2
<1>16. /\ awaiting' \in [User -> SUBSET Added] /\ awaiting'[u] = awaiting[u] \cup {a}
       /\ \A v \in User \ {u} : awaiting'[v] = awaiting[v]
  <2>1. awaiting' = [awaiting EXCEPT ![u] = awaiting[u] \cup {a}]
    BY <1>4, <1>15
  <2> QED  BY <1>1, <2>1 DEF Types
<1>17. \A v \in User : IsFiniteSet(awaiting'[v])
  <2>1. \A v \in User : IsFiniteSet(awaiting[v])
    BY <1>1 DEF Types
  <2>2. IsFiniteSet(awaiting[u] \cup {a})
    BY <2>1, FS_AddElement
  <2> QED  BY <1>16, <2>1, <2>2
<1>18. recents' \in [User -> Nat \ {0}]
  BY <1>1, <1>4 DEF Types
<1>19. Types'
  BY <1>1, <1>4, <1>5, <1>11, <1>14, <1>16, <1>17, <1>18 DEF Types
<1>20. RoomsRight'
  BY <1>1, <1>4, <1>11, RoomsStay
<1>21. ShownRight'
  <2>1. \A v \in User : \A h \in bufferGroupChat'[v] : h \in Group /\ h \in bufferGroupChat[v]
    BY <1>1, <1>4 DEF Types
  <2> QED  BY <1>1, <1>11, <2>1, ShownStays
<1>22. AwaitingRight'
  <2>1. ASSUME NEW v \in User, NEW b \in awaiting[v]
        PROVE  /\ Chosen(founded', v, b)
               /\ \E j \in 1..Len(mutationQueue'[v]) : mutationQueue'[v][j].path = GroupDoc(b.group)
    <3>1. b.group \in Group
      BY <1>1, Blocks DEF Types
    <3>2. Chosen(founded, v, b)
          /\ \E i \in 1..Len(mutationQueue[v]) : mutationQueue[v][i].path = GroupDoc(b.group)
      BY <1>1 DEF AwaitingRight
    <3>3. Chosen(founded', v, b)
      BY <1>5, <3>1, <3>2, ChosenGrow
    <3>4. \A i \in 1..Len(mutationQueue[v]) :
            i \in 1..Len(mutationQueue'[v]) /\ mutationQueue'[v][i] = mutationQueue[v][i]
      BY <1>1, <1>9, Written
    <3> QED  BY <3>2, <3>3, <3>4
  <2>2. Chosen(founded', u, a)
    BY <1>3, <1>5, <1>15 DEF Chosen
  <2>3. \E j \in 1..Len(mutationQueue'[u]) : mutationQueue'[u][j].path = GroupDoc(a.group)
    <3>1. \A k \in 1..Len(ms) : \E j \in 1..Len(mutationQueue'[u]) : mutationQueue'[u][j] = ms[k]
      BY <1>1, <1>9, Written
    <3>2. \E j \in 1..Len(mutationQueue'[u]) : mutationQueue'[u][j] = m
      BY <1>8, <3>1
    <3> QED  BY <1>7, <1>15, <3>2
  <2>4. ASSUME NEW v \in User, NEW b \in awaiting'[v]
        PROVE  b \in awaiting[v] \/ (v = u /\ b = a)
    <3>1. CASE v = u
      BY <1>16, <3>1
    <3>2. CASE v # u
      BY <1>16, <3>2
    <3> QED  BY <3>1, <3>2
  <2> QED  BY <2>1, <2>2, <2>3, <2>4, NextAwaitingRight
<1>23. BlocksRight'
  <2>1. StaysRight(u, e)
    BY <1>1, <1>4, <1>11, <1>12, SameRooms, BlockStays
  <2>2. \A j \in 1..Len(blocks) : blocks[j] = e
    BY <1>13
  <2>3. \A v \in User : \A i \in 1..Len(mainQueue'[v]) :
          \/ \E j \in 1..Len(mainQueue[v]) : mainQueue'[v][i] = mainQueue[v][j]
          \/ StaysRight(v, mainQueue'[v][i])
    <3>1. ASSUME NEW v \in User, NEW i \in 1..Len(mainQueue'[v]), v = u,
                 \E j \in 1..Len(blocks) : mainQueue'[v][i] = blocks[j]
          PROVE  StaysRight(v, mainQueue'[v][i])
      BY <2>1, <2>2, <3>1
    <3> QED  BY <1>14, <3>1
  <2> QED  BY <1>1, <1>4, <1>11, <2>3, SameRooms, BlocksStay
<1>24. ListenersTold'
  <2>1. Told(Unread(BufferView(u)), mainQueue[u], bufferGroupChat[u]) /\ mainQueue[u] \in Seq(Block)
    BY <1>1 DEF ListenersTold, Types
  <2>2. blocks[Len(blocks)] = e /\ Len(blocks) > 0
    BY <1>13
  <2>3. Told(Unread(BufferView(u)), mainQueue[u] \o blocks, bufferGroupChat[u])
    BY <1>12, <2>1, <2>2, ToldLonger
  <2>4. Unread(NewBufferView(u)) = Unread(BufferView(u))
    BY <1>1, <1>9, <1>10, <1>11, UnreadKept
  <2>5. UNCHANGED remoteDocs /\ \A v \in User \ {u} : mutationQueue'[v] = mutationQueue[v]
    BY <1>1, <1>9, Written
  <2> QED  BY <1>1, <1>4, <1>14, <2>3, <2>4, <2>5, OthersTold
<1> QED  BY <1>11, <1>19, <1>20, <1>21, <1>22, <1>23, <1>24 DEF IInv, Right

\* Only members are told of a group.
LEMMA ListedMembers ==
  ASSUME Types, QueuesOK, DocsRight, NEW u \in User, NEW v \in User, NEW g \in Group,
         View(u, Entry(v, g)) # {}
  PROVE  MemberOf(docs, v, g)
<1>1. PICK p \in GroupPath : p = Entry(v, g) /\ p.coll = "Friends" /\ p.owner = v /\ p.group = g
  BY Paths, PathTypes
<1>2. PICK f \in View(u, p) : TRUE
  BY <1>1
<1>3. CASE f \in remoteDocs[u][p]
  <2>1. Fits(docs, founded, sent, p, f)
    BY <1>3 DEF DocsRight
  <2> QED  BY <1>1, <2>1 DEF Fits
<1>4. ASSUME NEW i \in 1..Len(mutationQueue[u]), mutationQueue[u][i].path = p
      PROVE  MemberOf(docs, v, g)
  <2>1. WrittenBy(docs, founded, sent, u, mutationQueue[u][i])
    BY DEF QueuesOK
  <2>2. mutationQueue[u][i].path.coll = "Friends"
    BY <1>1, <1>4
  <2>3. MemberOf(docs, mutationQueue[u][i].path.owner, mutationQueue[u][i].path.group)
    BY <2>1, <2>2, EntryWrites
  <2> QED  BY <1>1, <1>4, <2>3
<1> QED  BY <1>3, <1>4 DEF View, LocalView

LEMMA OpenRoomKeeps ==
  ASSUME IInv, NEW u \in User, NEW g \in Group, OpenRoom(u, g)
  PROVE  IInv'
<1>1. Types /\ Right /\ ListenersTold /\ RoomsRight /\ ShownRight /\ AwaitingRight /\ BlocksRight
      /\ QueuesOK /\ DocsRight /\ GroupsWhole
  BY DEF IInv, Right
<1>2. MemberOf(docs, u, g)
  BY <1>1, ListedMembers DEF OpenRoom
<1>3. PICK m \in Mutation : /\ m = Delete(GroupBuffer(u, g)) /\ m.path = GroupBuffer(u, g)
                            /\ m.fields = {} /\ ~m.merge
  BY PathTypes, DeleteWrites
<1>4. PICK ms \in Seq(Mutation) : ms = <<m>> /\ Len(ms) = 1 /\ ms[1] = m
  <2>1. <<m>> \in Seq(Mutation) /\ Len(<<m>>) = 1 /\ <<m>>[1] = m
    OBVIOUS
  <2> QED  BY <2>1
<1>5. PICK r \in Room : /\ r = [group |-> g, roomMember |-> {}, fetched |-> FALSE]
                        /\ r.group = g /\ r.roomMember = {}
  <2>1. PICK r : r = [group |-> g, roomMember |-> {}, fetched |-> FALSE]
    OBVIOUS
  <2>2. r \in Room /\ r.group = g /\ r.roomMember = {}
    BY <2>1 DEF Room
  <2> QED  BY <2>1, <2>2
<1>6. /\ rooms' = [rooms EXCEPT ![u] = Append(@, r)]
      /\ bufferGroupChat' = [bufferGroupChat EXCEPT ![u] = @ \ {g}]
      /\ LocallyWrite(u, ms)
      /\ Enqueue(u, BufferCallbacks(u))
      /\ inRoom' = [inRoom EXCEPT ![u] = g]
      /\ UNCHANGED <<awaiting, recents, founded, sent>>
  BY <1>3, <1>4, <1>5 DEF OpenRoom
<1>7. ASSUME NEW i \in 1..Len(ms)
      PROVE  WrittenBy(docs, founded', sent', u, ms[i]) /\ Prior(u, ms[i]) = {}
  <2>1. ms[i] = m
    BY <1>4
  <2>2. IsClear(u, ms[i]) /\ ms[i].fields \cap Msg = {}
    BY <1>3, <2>1 DEF IsClear
  <2> QED  BY <2>2 DEF WrittenBy, Prior
<1>8. Lemmas!FsTypeOK' /\ Growing /\ QueuesOK' /\ DocsRight' /\ GroupsWhole'
  BY <1>1, <1>6, <1>7, WriteStep
<1>9. PICK cb \in Seq(Block) :
        /\ cb = BufferCallbacks(u)
        /\ \A i \in 1..Len(cb) : /\ cb[i].kind = "buffer" /\ cb[i].groups = Unread(NewBufferView(u))
                                 /\ StaysRight(u, cb[i])
        /\ \/ cb = << >> /\ Unread(NewBufferView(u)) = Unread(BufferView(u))
           \/ Len(cb) \in Nat \ {0}
  BY <1>1, <1>8, Callbacks
<1>10. /\ mainQueue' \in [User -> Seq(Block)]
       /\ mainQueue'[u] = mainQueue[u] \o cb
       /\ \A v \in User \ {u} : mainQueue'[v] = mainQueue[v]
       /\ \A v \in User : \A i \in 1..Len(mainQueue'[v]) :
            \/ \E j \in 1..Len(mainQueue[v]) : mainQueue'[v][i] = mainQueue[v][j]
            \/ v = u /\ \E j \in 1..Len(cb) : mainQueue'[v][i] = cb[j]
  <2>1. Enqueue(u, cb)
    BY <1>6, <1>9
  <2> QED  BY <1>1, <2>1, Enqueued
<1>11. PICK q \in Seq(Room) : /\ q = rooms[u] /\ Len(q) \in Nat
                              /\ Append(q, r) \in Seq(Room) /\ Len(Append(q, r)) = Len(q) + 1
                              /\ Append(q, r)[Len(q) + 1] = r
                              /\ \A i \in 1..Len(q) : Append(q, r)[i] = q[i]
  <2>1. PICK q \in Seq(Room) : q = rooms[u]
    BY <1>1 DEF Types
  <2>2. /\ Len(q) \in Nat
        /\ Append(q, r) \in Seq(Room) /\ Len(Append(q, r)) = Len(q) + 1
        /\ Append(q, r)[Len(q) + 1] = r
        /\ \A i \in 1..Len(q) : Append(q, r)[i] = q[i]
    OBVIOUS
  <2> QED  BY <2>1, <2>2
<1>12. /\ rooms' \in [User -> Seq(Room)] /\ rooms'[u] = Append(q, r)
       /\ \A v \in User \ {u} : rooms'[v] = rooms[v]
  <2>1. rooms' = [rooms EXCEPT ![u] = Append(q, r)]
    BY <1>6, <1>11
  <2> QED  BY <1>1, <1>11, <2>1 DEF Types
<1>13. /\ bufferGroupChat' \in [User -> SUBSET Group]
       /\ bufferGroupChat'[u] = bufferGroupChat[u] \ {g}
       /\ \A v \in User \ {u} : bufferGroupChat'[v] = bufferGroupChat[v]
  BY <1>1, <1>6 DEF Types
<1>14. inRoom' \in [User -> Group \cup {NoRoom}]
  BY <1>1, <1>6 DEF Types
<1>15. Types'
  BY <1>1, <1>6, <1>8, <1>10, <1>12, <1>13, <1>14 DEF Types
<1>16. RoomsRight'
  <2>1. ASSUME NEW v \in User, NEW i \in 1..Len(rooms'[v])
        PROVE  \/ i \in 1..Len(rooms[v]) /\ rooms'[v][i] = rooms[v][i]
               \/ v = u /\ rooms'[v][i] = r
    <3>1. CASE v = u
      <4>1. CASE i \in 1..Len(q)
        BY <1>11, <1>12, <3>1, <4>1
      <4>2. CASE i = Len(q) + 1
        BY <1>11, <1>12, <3>1, <4>2
      <4> QED  BY <1>11, <1>12, <3>1, <4>1, <4>2
    <3>2. CASE v # u
      BY <1>12, <3>2
    <3> QED  BY <3>1, <3>2
  <2>2. /\ r.group \in Group /\ MemberOf(docs, u, r.group)
        /\ \A w \in r.roomMember : MemberOf(docs, w, r.group)
    BY <1>2, <1>5
  <2>3. ASSUME NEW v \in User, NEW i \in 1..Len(rooms'[v])
        PROVE  \/ i \in 1..Len(rooms[v]) /\ rooms'[v][i] = rooms[v][i]
               \/ /\ rooms'[v][i].group \in Group
                  /\ MemberOf(docs, v, rooms'[v][i].group)
                  /\ \A w \in rooms'[v][i].roomMember : MemberOf(docs, w, rooms'[v][i].group)
    BY <2>1, <2>2
  <2> QED  BY <1>1, <1>8, <2>3, RoomsStay
<1>17. ShownRight'
  <2>1. ASSUME NEW v \in User, NEW h \in bufferGroupChat'[v]
        PROVE  h \in Group /\ h \in bufferGroupChat[v]
    BY <1>13
  <2> QED  BY <1>1, <1>8, <2>1, ShownStays
<1>18. AwaitingRight'
  <2>1. \A v \in User : awaiting'[v] \subseteq awaiting[v]
    BY <1>6
  <2> QED  BY <1>1, <1>6, <1>8, <2>1, PathsStay, AwaitingStays
<1>19. BlocksRight'
  <2>1. ASSUME NEW v \in User PROVE RoomsKept(v)
    <3>1. CASE v = u
      BY <1>11, <1>12, <3>1 DEF RoomsKept
    <3>2. CASE v # u
      BY <1>12, <3>2 DEF RoomsKept
    <3> QED  BY <3>1, <3>2
  <2>2. \A v \in User : \A i \in 1..Len(mainQueue'[v]) :
          \/ \E j \in 1..Len(mainQueue[v]) : mainQueue'[v][i] = mainQueue[v][j]
          \/ StaysRight(v, mainQueue'[v][i])
    <3>1. ASSUME NEW v \in User, NEW i \in 1..Len(mainQueue'[v]),
                 v = u, NEW j \in 1..Len(cb), mainQueue'[v][i] = cb[j]
          PROVE  StaysRight(v, mainQueue'[v][i])
      BY <1>9, <3>1
    <3> QED  BY <1>10, <3>1
  <2> QED  BY <1>1, <1>8, <2>1, <2>2, BlocksStay
<1>20. ListenersTold'
  <2>1. Told(Unread(BufferView(u)), mainQueue[u], bufferGroupChat[u]) /\ mainQueue[u] \in Seq(Block)
    BY <1>1 DEF ListenersTold, Types
  <2>2. UNCHANGED remoteDocs /\ \A v \in User \ {u} : mutationQueue'[v] = mutationQueue[v]
    BY <1>1, <1>6, Written
  <2>3. g \notin Unread(NewBufferView(u)) /\ Unread(NewBufferView(u)) \in SUBSET Group
    <3>1. \A k \in 1..Len(ms) : \E j \in 1..Len(mutationQueue'[u]) : mutationQueue'[u][j] = ms[k]
      BY <1>1, <1>6, Written
    <3>2. \E j \in 1..Len(mutationQueue'[u]) : mutationQueue'[u][j].path = GroupBuffer(u, g)
      BY <1>3, <1>4, <3>1
    <3> QED  BY <1>8, <3>2, Cleared, SnapshotNext
  <2>4. CASE cb = << >> /\ Unread(NewBufferView(u)) = Unread(BufferView(u))
    <3>1. Told(Unread(NewBufferView(u)), mainQueue[u], bufferGroupChat[u] \ {g})
      BY <2>1, <2>3, <2>4, ToldOpened
    <3>2. mainQueue[u] \o cb = mainQueue[u]
      BY <2>1, <2>4
    <3>3. Told(Unread(NewBufferView(u)), mainQueue'[u], bufferGroupChat'[u])
      BY <1>10, <1>13, <3>1, <3>2
    <3> QED  BY <1>1, <1>10, <1>13, <2>2, <3>3, OthersTold
  <2>5. CASE Len(cb) \in Nat \ {0}
    <3>1. Len(cb) > 0 /\ Len(cb) \in 1..Len(cb)
      BY <2>5
    <3>2. cb[Len(cb)].kind = "buffer" /\ cb[Len(cb)].groups = Unread(NewBufferView(u))
      BY <1>9, <3>1
    <3>3. Told(Unread(NewBufferView(u)), mainQueue[u] \o cb, bufferGroupChat[u] \ {g})
      BY <2>1, <3>1, <3>2, ToldLonger
    <3> QED  BY <1>1, <1>10, <1>13, <2>2, <3>3, OthersTold
  <2> QED  BY <1>9, <2>4, <2>5
<1> QED  BY <1>8, <1>15, <1>16, <1>17, <1>18, <1>19, <1>20 DEF IInv, Right
-----------------------------------------------------------------------------
(***************************************************************************)
(* The groups that exist already.                                          *)
(***************************************************************************)
Owner(g) == CHOOSE u \in Rooms[g] : TRUE

LEMMA ExistingIs ==
  /\ \A g \in Group : Existing(GroupDoc(g)) = {Member(v, Owner(g)) : v \in Rooms[g]}
  /\ \A u \in User, g \in Group : Existing(Entry(u, g)) # {} => u \in Rooms[g]
  /\ \A u \in User, g \in Group : Existing(GroupBuffer(u, g)) = {}
  /\ \A p \in GroupPath : Existing(p) \in Document
<1>1. ASSUME NEW g \in Group
      PROVE  Existing(GroupDoc(g)) = {Member(v, Owner(g)) : v \in Rooms[g]}
  <2>1. GroupDoc(g).group = g
    BY Paths
  <2>2. CASE Rooms[g] = {}
    BY <2>1, <2>2 DEF Existing
  <2>3. CASE Rooms[g] # {}
    BY <2>1, <2>3 DEF Existing, Owner
  <2> QED  BY <2>2, <2>3
<1>2. ASSUME NEW p \in GroupPath
      PROVE  /\ p.group \in Group
             /\ Existing(p) \subseteq {Member(v, Owner(p.group)) : v \in Rooms[p.group]}
             /\ Existing(p) # {} =>
                  p = GroupDoc(p.group) \/ \E v \in Rooms[p.group] : p = Entry(v, p.group)
  <2>1. p.group \in Group
    BY DEF GroupPath
  <2>2. CASE Rooms[p.group] = {}
    BY <2>1, <2>2 DEF Existing
  <2>3. CASE Rooms[p.group] # {} /\ p = GroupDoc(p.group)
    BY <2>1, <2>3 DEF Existing, Owner
  <2>4. CASE Rooms[p.group] # {} /\ p # GroupDoc(p.group)
    <3>1. Existing(p) = {Member(p.group, Owner(p.group)) : v \in {}} \cup
                        {Member(v, Owner(p.group)) : v \in {w \in Rooms[p.group] : p = Entry(w, p.group)}}
      BY <2>4 DEF Existing, Owner
    <3> QED  BY <2>1, <3>1
  <2> QED  BY <2>2, <2>3, <2>4
<1>3. ASSUME NEW u \in User, NEW g \in Group, Existing(Entry(u, g)) # {} PROVE u \in Rooms[g]
  <2>1. Entry(u, g) \in GroupPath /\ Entry(u, g).group = g /\ Entry(u, g).owner = u
        /\ Entry(u, g).coll = "Friends"
    BY Paths, PathTypes
  <2>2. Entry(u, g) # GroupDoc(g)
    BY <2>1, Paths
  <2>3. PICK v \in Rooms[g] : Entry(u, g) = Entry(v, g)
    BY <1>2, <1>3, <2>1, <2>2
  <2> QED  BY <2>3, Paths
<1>4. ASSUME NEW u \in User, NEW g \in Group PROVE Existing(GroupBuffer(u, g)) = {}
  <2>1. GroupBuffer(u, g) \in GroupPath /\ GroupBuffer(u, g).group = g
        /\ GroupBuffer(u, g).coll = "ChatBuffer"
    BY Paths, PathTypes
  <2>2. GroupBuffer(u, g) # GroupDoc(g) /\ \A v : GroupBuffer(u, g) # Entry(v, g)
    BY <2>1, Paths
  <2> QED  BY <1>2, <2>1, <2>2
<1>5. ASSUME NEW p \in GroupPath PROVE Existing(p) \in Document
  <2>1. PICK g \in Group : g = p.group /\ Existing(p) \subseteq {Member(v, Owner(g)) : v \in Rooms[g]}
    BY <1>2
  <2>2. Rooms[g] \in SUBSET User
    BY GroupAssumption
  <2>3. ASSUME NEW f \in Existing(p)
        PROVE  f \in [key: User, from: User] /\ f.from = Owner(g) /\ f = Member(f.key, Owner(g))
    <3>1. PICK v \in Rooms[g] : f = Member(v, Owner(g))
      BY <2>1
    <3>2. Owner(g) \in Rooms[g]
      BY DEF Owner
    <3> QED  BY <2>2, <3>1, <3>2, FieldTypes
  <2>4. \A e, f \in Existing(p) : e.key = f.key => e = f
    BY <2>3
  <2> QED  BY <2>3, <2>4 DEF Document
<1> QED  BY <1>1, <1>3, <1>4, <1>5

LEMMA FoundedAtFirst ==
  ASSUME Init, NEW g \in Group
  PROVE  /\ founded[g] \in {<< >>} \cup (User \X ((SUBSET User) \ {{}}))
         /\ docs[GroupDoc(g)] = Members(founded, g)
<1>1. Rooms[g] \in SUBSET User /\ docs[GroupDoc(g)] = {Member(v, Owner(g)) : v \in Rooms[g]}
  BY ExistingIs, PathTypes, GroupAssumption DEF Init
<1>2. CASE Rooms[g] = {}
  <2>1. founded[g] = << >>
    BY <1>2 DEF Init
  <2>2. Members(founded, g) = {}
    BY <2>1 DEF Members
  <2> QED  BY <1>1, <1>2, <2>1, <2>2
<1>3. CASE Rooms[g] # {}
  <2>1. Owner(g) \in Rooms[g] /\ Owner(g) \in User
    BY <1>1, <1>3 DEF Owner
  <2>2. founded[g] = <<Owner(g), Rooms[g]>>
    BY <1>3 DEF Init, Owner
  <2>3. /\ founded[g] \in User \X ((SUBSET User) \ {{}}) /\ founded[g] # << >>
        /\ founded[g][1] = Owner(g) /\ founded[g][2] = Rooms[g]
    BY <1>1, <1>3, <2>1, <2>2
  <2>4. Members(founded, g) = {f \in [key: User, from: User] : f.from = Owner(g) /\ f.key \in Rooms[g]}
    BY <2>3 DEF Members
  <2>5. ASSUME NEW v \in Rooms[g] PROVE Member(v, Owner(g)) \in Members(founded, g)
    BY <1>1, <2>1, <2>4, FieldTypes
  <2>6. ASSUME NEW f \in Members(founded, g) PROVE \E v \in Rooms[g] : f = Member(v, Owner(g))
    BY <2>4 DEF Member
  <2> QED  BY <1>1, <2>3, <2>5, <2>6
<1> QED  BY <1>2, <1>3

LEMMA InitInv == Init => IInv
<1> SUFFICES ASSUME Init PROVE IInv
  OBVIOUS
<1>1. /\ docs = [p \in GroupPath |-> Existing(p)] /\ remoteDocs = [u \in User |-> docs]
      /\ mutationQueue = [u \in User |-> << >>] /\ persisted = [u \in User |-> 0]
      /\ applied = [u \in User |-> 0]
      /\ caughtUp = [u \in User |-> {}] /\ awaiting = [u \in User |-> {}]
      /\ recents = [u \in User |-> 1] /\ inRoom = [u \in User |-> NoRoom]
      /\ rooms = [u \in User |-> << >>] /\ bufferGroupChat = [u \in User |-> {}]
      /\ mainQueue = [u \in User |-> << >>] /\ sent = {}
  BY DEF Init
<1>2. Lemmas!FsTypeOK
  <2>1. docs \in [GroupPath -> Document]
    BY <1>1, ExistingIs
  <2>2. remoteDocs \in [User -> [GroupPath -> Document]]
    BY <1>1, <2>1
  <2>3. mutationQueue \in [User -> Seq(Mutation)] /\ \A u \in User : Len(mutationQueue[u]) = 0
    BY <1>1
  <2>4. /\ persisted \in [User -> Nat] /\ applied \in [User -> Nat]
        /\ caughtUp \in [User -> SUBSET Nat]
        /\ \A u \in User : /\ persisted[u] = 0 /\ applied[u] <= 0
                           /\ caughtUp[u] \subseteq 1..applied[u]
    BY <1>1
  <2> QED  BY <2>1, <2>2, <2>3, <2>4, SameTypes DEF Lemmas!FsTypeOK
<1>3. Types
  <2>1. awaiting \in [User -> SUBSET Added] /\ \A u \in User : IsFiniteSet(awaiting[u])
    BY <1>1, FS_EmptySet
  <2>2. recents \in [User -> Nat \ {0}] /\ inRoom \in [User -> Group \cup {NoRoom}]
    BY <1>1
  <2>3. /\ rooms \in [User -> Seq(Room)] /\ bufferGroupChat \in [User -> SUBSET Group]
        /\ mainQueue \in [User -> Seq(Block)] /\ sent \subseteq [key: Time, from: User, group: Group]
    BY <1>1
  <2>4. founded \in [Group -> {<< >>} \cup (User \X ((SUBSET User) \ {{}}))]
    <3>1. founded = [g \in Group |-> founded[g]]
      BY DEF Init
    <3> QED  BY <3>1, FoundedAtFirst
  <2> QED  BY <1>2, <2>1, <2>2, <2>3, <2>4 DEF Types
<1>4. \A u \in User : Len(mutationQueue[u]) = 0 /\ Len(mainQueue[u]) = 0 /\ Len(rooms[u]) = 0
  BY <1>1
<1>5. QueuesOK
  <2>1. Lemmas!KeysKept(PermanentKeys)
    BY <1>1, <1>4 DEF Lemmas!KeysKept
  <2>2. Lemmas!InOrder(PriorWrites)
    BY <1>4 DEF Lemmas!InOrder
  <2> QED  BY <1>4, <2>1, <2>2 DEF QueuesOK
<1>6. ASSUME NEW p \in GroupPath, NEW f \in docs[p] PROVE Fits(docs, founded, sent, p, f)
  <2>1. Existing(p) # {}
    BY <1>1, <1>6
  <2>2. ASSUME p.coll = "Group" PROVE f \in Members(founded, p.group)
    BY <1>6, <2>2, PathTypes, FoundedAtFirst
  <2>3. ASSUME p.coll = "Friends" PROVE MemberOf(docs, p.owner, p.group)
    <3>1. PICK u \in User, g \in Group : u = p.owner /\ g = p.group /\ p = Entry(u, g)
      BY <2>3, PathTypes
    <3>2. u \in Rooms[g]
      BY <2>1, <3>1, ExistingIs
    <3>3. Member(u, Owner(g)) \in docs[GroupDoc(g)]
      BY <1>1, <3>2, ExistingIs, PathTypes
    <3>4. Member(u, Owner(g)).key = u
      BY DEF Member
    <3> QED  BY <3>1, <3>3, <3>4 DEF MemberOf, KeysOf
  <2>4. p.coll # "ChatBuffer"
    BY <2>1, ExistingIs, PathTypes
  <2> QED  BY <2>2, <2>3, <2>4 DEF Fits
<1>7. DocsRight
  BY <1>1, <1>6 DEF DocsRight
<1>8. GroupsWhole
  <2>1. \A g \in Group : Members(founded, g) \subseteq docs[GroupDoc(g)]
    BY FoundedAtFirst
  <2>2. \A u \in User : 1..applied[u] = {}
    BY <1>1
  <2> QED  BY <2>1, <2>2 DEF GroupsWhole
<1>9. Right
  <2>1. RoomsRight /\ BlocksRight
    BY <1>4 DEF RoomsRight, BlocksRight
  <2>2. ShownRight /\ AwaitingRight
    BY <1>1 DEF ShownRight, AwaitingRight
  <2> QED  BY <1>5, <1>7, <1>8, <2>1, <2>2 DEF Right
<1>10. ListenersTold
  <2>1. ASSUME NEW u \in User PROVE Unread(BufferView(u)) = {}
    <3>1. \A g \in Group : remoteDocs[u][GroupBuffer(u, g)] = {}
      BY <1>1, ExistingIs, PathTypes
    <3> QED  BY <1>3, <1>5, <3>1, UnreadNow DEF Shows
  <2> QED  BY <1>4, <2>1 DEF ListenersTold, Told
<1> QED  BY <1>3, <1>9, <1>10 DEF IInv
-----------------------------------------------------------------------------
(***************************************************************************)
(* The whole invariant.                                                    *)
(***************************************************************************)
\* The controller of the group on screen is the last one opened.
RoomOnScreen == \A u \in User : inRoom[u] # NoRoom => Len(rooms[u]) > 0

LEMMA RoomStaysOnScreen ==
  ASSUME Types, RoomOnScreen, [Next]_vars
  PROVE  RoomOnScreen'
<1>1. CASE UNCHANGED <<inRoom, rooms>>
  BY <1>1 DEF RoomOnScreen
<1>2. ASSUME NEW u \in User, NEW g \in Group, OpenRoom(u, g) PROVE RoomOnScreen'
  <2>1. PICK r \in Room : r = [group |-> g, roomMember |-> {}, fetched |-> FALSE]
    BY DEF Room
  <2>2. rooms' = [rooms EXCEPT ![u] = Append(@, r)] /\ inRoom' = [inRoom EXCEPT ![u] = g]
    BY <1>2, <2>1 DEF OpenRoom
  <2>3. rooms[u] \in Seq(Room) /\ rooms'[u] = Append(rooms[u], r)
    BY <2>2 DEF Types
  <2>4. Len(rooms'[u]) = Len(rooms[u]) + 1 /\ Len(rooms[u]) \in Nat
    BY <2>3
  <2>5. \A v \in User \ {u} : rooms'[v] = rooms[v] /\ inRoom'[v] = inRoom[v]
    BY <2>2 DEF Types
  <2> QED  BY <2>4, <2>5 DEF RoomOnScreen
<1>3. ASSUME NEW u \in User, inRoom' = [inRoom EXCEPT ![u] = NoRoom],
             \A v \in User \ {u} : rooms'[v] = rooms[v]
      PROVE  RoomOnScreen'
  BY <1>3 DEF RoomOnScreen, Types
<1>4. ASSUME NEW u \in User, Back(u) PROVE RoomOnScreen'
  BY <1>3, <1>4 DEF Back
<1>5. ASSUME NEW u \in User, Relaunch(u) PROVE RoomOnScreen'
  <2>1. inRoom' = [inRoom EXCEPT ![u] = NoRoom] /\ rooms' = [rooms EXCEPT ![u] = << >>]
    BY <1>5 DEF Relaunch, FreshProcess
  <2> QED  BY <1>3, <2>1 DEF Types
<1>6. ASSUME NEW u \in User, NEW i \in DOMAIN rooms[u], RoomMemberArrives(u, i)
      PROVE  RoomOnScreen'
  <2>1. PICK S \in {KeysOf(docs[GroupDoc(rooms[u][i].group)]),
                    KeysOf(View(u, GroupDoc(rooms[u][i].group)))} : MembersArrive(u, i, S)
    BY <1>6 DEF RoomMemberArrives, MembersArrive
  <2>2. PICK q : q = [[rooms[u] EXCEPT ![i].fetched = TRUE] EXCEPT ![i].roomMember = S]
    OBVIOUS
  <2>3. rooms' = [rooms EXCEPT ![u] = q] /\ UNCHANGED inRoom
    BY <1>6, <2>1, <2>2 DEF MembersArrive, RoomMemberArrives, Types
  <2>4. Len(q) = Len(rooms[u])
    <3>1. PICK n \in Nat : n = Len(rooms[u]) /\ DOMAIN rooms[u] = 1..n
      <4>1. rooms[u] \in Seq(Room)
        BY DEF Types
      <4> QED  BY <4>1
    <3>2. DOMAIN q = 1..n
      BY <2>2, <3>1
    <3> QED  BY <3>1, <3>2
  <2> QED  BY <2>3, <2>4 DEF RoomOnScreen, Types
<1>7. ASSUME NEW u \in User, NEW g \in Group, NEW friends, StartGroupChatNow(u, g, friends)
      PROVE  RoomOnScreen'
  BY <1>1, <1>7 DEF StartGroupChatNow
<1>8. ASSUME NEW u \in User, NEW i, NEW t, SendMessage(u, i, t) PROVE RoomOnScreen'
  BY <1>1, <1>8 DEF SendMessage
<1>9. ASSUME NEW u \in User, OnScreen(u) PROVE RoomOnScreen'
  BY <1>2, <1>4, <1>7, <1>8, <1>9 DEF OnScreen, FinishEditing
<1>10. ASSUME NEW u \in User, OnMain(u) PROVE RoomOnScreen'
  BY <1>1, <1>10 DEF OnMain, GroupAdded, WriteBadges, GroupBufferCallback
<1>11. ASSUME NEW u \in User,
              PersistWrite(u) \/ CommitWrite(u) \/ WriteAnswered(u) \/ StreamBroken(u)
       PROVE  RoomOnScreen'
  BY <1>1, <1>11 DEF PersistWrite, CommitWrite, WriteAnswered, StreamBroken
<1>12. ASSUME NEW u \in User, NEW p, ReceiveSnapshot(u, p) PROVE RoomOnScreen'
  BY <1>1, <1>12 DEF ReceiveSnapshot
<1>13. CASE UNCHANGED vars
  BY <1>1, <1>13 DEF vars
<1> QED  BY <1>5, <1>6, <1>8, <1>9, <1>10, <1>11, <1>12, <1>13 DEF Next, VoiceUploaded

Inductive == IInv /\ RoomOnScreen

LEMMA OnScreenKeeps ==
  ASSUME Inductive, NEW u \in User, OnScreen(u)
  PROVE  IInv'
<1>1. IInv /\ Types /\ RoomOnScreen
  BY DEF Inductive, IInv
<1>2. ASSUME NEW g \in Group, NEW friends \in Selections(u), StartGroupChatNow(u, g, friends)
      PROVE  IInv'
  BY <1>1, <1>2, StartGroupChatNowKeeps
<1>3. ASSUME NEW g \in Group, OpenRoom(u, g) PROVE IInv'
  BY <1>1, <1>3, OpenRoomKeeps
<1>4. ASSUME NEW t \in Clock[u], FinishEditing(u, t) PROVE IInv'
  <2>1. PICK i \in 1..Len(rooms[u]) : i = Len(rooms[u])
    <3>1. rooms[u] \in Seq(Room)
      BY <1>1 DEF Types
    <3>2. Len(rooms[u]) \in Nat /\ Len(rooms[u]) > 0
      BY <1>1, <1>4, <3>1 DEF FinishEditing, RoomOnScreen
    <3> QED  BY <3>2
  <2>2. t \in Time /\ SendMessage(u, i, t)
    BY <1>4, <2>1, GroupAssumption DEF Time, FinishEditing
  <2> QED  BY <1>1, <2>2, SendMessageKeeps
<1>5. ASSUME Back(u) PROVE IInv'
  BY <1>1, <1>5, BackKeeps
<1> QED  BY <1>2, <1>3, <1>4, <1>5 DEF OnScreen

LEMMA Invariance == Inductive /\ [Next]_vars => Inductive'
<1> SUFFICES ASSUME Inductive, [Next]_vars PROVE Inductive'
  OBVIOUS
<1>1. IInv /\ Types /\ RoomOnScreen
  BY DEF Inductive, IInv
<1>2. ASSUME NEW u \in User, OnMain(u) PROVE IInv'
  BY <1>1, <1>2, GroupAddedKeeps, WriteBadgesKeeps, GroupBufferCallbackKeeps DEF OnMain
<1>3. ASSUME NEW u \in User, NEW i \in DOMAIN rooms[u], RoomMemberArrives(u, i) PROVE IInv'
  BY <1>1, <1>3, RoomMemberArrivesKeeps
<1>4. ASSUME NEW u \in User, NEW i \in DOMAIN rooms[u], NEW t \in Clock[u], VoiceUploaded(u, i, t)
      PROVE  IInv'
  <2>1. i \in 1..Len(rooms[u])
    BY <1>1 DEF Types
  <2>2. t \in Time /\ SendMessage(u, i, t)
    BY <1>4, GroupAssumption DEF Time, VoiceUploaded
  <2> QED  BY <1>1, <2>1, <2>2, SendMessageKeeps
<1>5. ASSUME NEW u \in User, NEW p \in Listened(u), ReceiveSnapshot(u, p) PROVE IInv'
  <2>1. p \in GroupPath
    BY PathTypes DEF Listened
  <2> QED  BY <1>1, <1>5, <2>1, ReceiveSnapshotKeeps
<1>6. CASE UNCHANGED vars
  <2>1. /\ UNCHANGED clientVars
        /\ UNCHANGED <<remoteDocs, mutationQueue, awaiting, recents, inRoom, rooms,
                       bufferGroupChat, mainQueue, founded, sent>>
    BY <1>6 DEF vars, clientVars, history
  <2>2. Lemmas!NetworkStep
    BY <2>1, SameNetwork
  <2>3. IInv'
    BY <1>1, <2>1, <2>2, QuietStepKeeps
  <2>4. RoomOnScreen'
    BY <1>1, RoomStaysOnScreen
  <2> QED  BY <2>3, <2>4 DEF Inductive
<1>7. ASSUME NEW u \in User, \/ PersistWrite(u) \/ CommitWrite(u) \/ WriteAnswered(u)
                             \/ StreamBroken(u) \/ Relaunch(u)
      PROVE  IInv'
  BY <1>1, <1>7, PersistWriteKeeps, CommitWriteKeeps, WriteAnsweredKeeps, StreamBrokenKeeps, RelaunchKeeps
<1>8. CASE Next
  <2>1. PICK u \in User :
          \/ OnScreen(u)
          \/ OnMain(u)
          \/ \E i \in DOMAIN rooms[u] :
               RoomMemberArrives(u, i) \/ \E t \in Clock[u] : VoiceUploaded(u, i, t)
          \/ PersistWrite(u) \/ CommitWrite(u) \/ WriteAnswered(u) \/ StreamBroken(u)
          \/ Relaunch(u)
          \/ \E p \in Listened(u) : ReceiveSnapshot(u, p)
    BY <1>8 DEF Next
  <2>2. IInv'
    BY <1>2, <1>3, <1>4, <1>5, <1>7, <2>1, OnScreenKeeps
  <2>3. RoomOnScreen'
    BY <1>1, RoomStaysOnScreen
  <2> QED  BY <2>2, <2>3 DEF Inductive
<1> QED  BY <1>6, <1>8

LEMMA InductiveAlways == Spec => []Inductive
<1>1. Init => Inductive
  BY InitInv DEF Inductive, Init, RoomOnScreen
<1> QED  BY <1>1, Invariance, PTL DEF Spec
-----------------------------------------------------------------------------
(***************************************************************************)
(* What follows.                                                           *)
(***************************************************************************)
\* Types; every block on a main thread finds the controller it captured, and
\* every closure of addDocument that still waits has its write in the queue:
\* neither a relaunch nor a broken stream leaves one without the other.
THEOREM TypeCorrect == Spec => []TypeOK
<1>1. ASSUME Inductive PROVE TypeOK
  <2>1. Types /\ BlocksRight /\ AwaitingRight
    BY <1>1 DEF Inductive, IInv, Right
  <2>2. FsTypeOK /\ recents \in [User -> Nat] /\ inRoom \in [User -> Group \cup {NoRoom}]
        /\ rooms \in [User -> Seq(Room)] /\ bufferGroupChat \in [User -> SUBSET Group]
    BY <2>1, SameTypes DEF Types
  <2>3. ASSUME NEW u \in User, NEW i \in DOMAIN mainQueue[u]
        PROVE  \/ mainQueue[u][i].kind = "buffer" /\ mainQueue[u][i].groups \subseteq Group
               \/ /\ mainQueue[u][i].kind = "badges" /\ mainQueue[u][i].vc \in DOMAIN rooms[u]
                  /\ mainQueue[u][i].msg \in Msg
               \/ mainQueue[u][i].kind = "added" /\ docs[GroupDoc(mainQueue[u][i].group)] # {}
    <3>1. mainQueue[u] \in Seq(Block) /\ rooms[u] \in Seq(Room)
      BY <2>1 DEF Types
    <3>2. i \in 1..Len(mainQueue[u]) /\ DOMAIN rooms[u] = 1..Len(rooms[u])
      BY <3>1
    <3>3. mainQueue[u][i] \in Block
      BY <3>1, <3>2
    <3>4. BlockFits(docs, founded, sent, mutationQueue[u], rooms[u], u, mainQueue[u][i])
      BY <2>1, <3>2 DEF BlocksRight, BlockRight
    <3>5. CASE mainQueue[u][i] \in Snapshots
      BY <3>5 DEF Snapshots
    <3>6. CASE mainQueue[u][i] \in Badges
      BY <3>2, <3>4, <3>6 DEF Badges, BlockFits
    <3>7. CASE mainQueue[u][i] \in Added
      BY <3>4, <3>7 DEF Added, BlockFits
    <3> QED  BY <3>3, <3>5, <3>6, <3>7 DEF Block
  <2>4. ASSUME NEW u \in User, NEW e \in awaiting[u]
        PROVE  \E i \in DOMAIN mutationQueue[u] : mutationQueue[u][i].path = GroupDoc(e.group)
    <3>1. mutationQueue[u] \in Seq(Mutation)
      BY <2>2 DEF FsTypeOK
    <3> QED  BY <2>1, <2>4, <3>1 DEF AwaitingRight
  <2> QED  BY <2>2, <2>3, <2>4 DEF TypeOK
<1> QED  BY <1>1, InductiveAlways, PTL

\* The lists are written by the closure that runs when the backend has
\* answered for the group's document, and that document is never changed: a
\* group in anyone's list is there, and whoever lists it is a member.
THEOREM GroupsExist == Spec => []ListedGroupsExist
<1>1. ASSUME Inductive, NEW u \in User, NEW v \in User, NEW g \in Group, View(u, Entry(v, g)) # {}
      PROVE  v \in People(g)
  <2>1. Types /\ QueuesOK /\ DocsRight
    BY <1>1 DEF Inductive, IInv, Right
  <2> QED  BY <1>1, <2>1, ListedMembers DEF MemberOf, People
<1>2. Inductive => ListedGroupsExist
  BY <1>1 DEF ListedGroupsExist
<1> QED  BY <1>2, InductiveAlways, PTL

\* The queue of a device commits in order and is on disk, and the block that
\* writes the badges runs after both copies were queued: whatever is lost with
\* a killed app, no badge reaches the backend ahead of its message.
THEOREM BadgesAfterMessages == Spec => []BadgesFollowMessages
<1>1. ASSUME Inductive, NEW u \in User, NEW g \in Group, NEW f \in docs[GroupBuffer(u, g)]
      PROVE  /\ f.key \in KeysOf(docs[RoomConversation(g)])
             /\ f.key \in KeysOf(docs[OwnConversation(f.from, g)])
  <2>1. DocsRight
    BY <1>1 DEF Inductive, IInv, Right
  <2>2. /\ GroupBuffer(u, g) \in GroupPath /\ GroupBuffer(u, g).coll = "ChatBuffer"
        /\ GroupBuffer(u, g).owner = u /\ GroupBuffer(u, g).group = g
    BY Paths, PathTypes
  <2>3. Fits(docs, founded, sent, GroupBuffer(u, g), f)
    BY <2>1, <2>2 DEF DocsRight
  <2> QED  BY <2>2, <2>3 DEF Fits, TrueBadge, Lemmas!Has, KeysOf
<1>2. Inductive => BadgesFollowMessages
  BY <1>1 DEF BadgesFollowMessages
<1> QED  BY <1>2, InductiveAlways, PTL

\* roomMember is filled only from a document of the group, the sender leaves
\* itself out, and snapshots show only what the backend or the own queue had:
\* a badge on a screen is for a message another member sent to that room.
THEOREM BadgesAreOthers == Spec => []BadgesAreForOthersMessages
<1>1. ASSUME Inductive, NEW u \in User, NEW g \in bufferGroupChat[u]
      PROVE  /\ u \in People(g)
             /\ \E m \in sent : /\ m.group = g /\ m.from # u
                                /\ m.key \in KeysOf(docs[RoomConversation(g)])
  <2>1. HasBadge(docs, sent, u, g)
    BY <1>1 DEF Inductive, IInv, Right, ShownRight
  <2> QED  BY <2>1 DEF HasBadge, MemberOf, People, Lemmas!Has, KeysOf
<1>2. Inductive => BadgesAreForOthersMessages
  BY <1>1 DEF BadgesAreForOthersMessages
<1> QED  BY <1>2, InductiveAlways, PTL

\* Every change of what a device sees of its buffers leaves a snapshot on its
\* main thread, and each replaces the dictionary once per document: when none
\* is left, the last unread group alone has a badge.
THEOREM LastBadgeOnly == Spec => []OnlyLastUnreadHasBadge
<1>1. ASSUME Inductive, NEW u \in User, WaitingBuffers(u) = {}, Unread(BufferView(u)) # {}
      PROVE  bufferGroupChat[u] \in {{Max(Unread(BufferView(u)))}}
  <2>1. Types /\ ListenersTold
    BY <1>1 DEF Inductive, IInv
  <2>2. mainQueue[u] \in Seq(Block)
    BY <2>1 DEF Types
  <2>3. \A i \in 1..Len(mainQueue[u]) : mainQueue[u][i].kind # "buffer"
    BY <1>1, <2>2 DEF WaitingBuffers
  <2>4. Told(Unread(BufferView(u)), mainQueue[u], bufferGroupChat[u])
    BY <2>1 DEF ListenersTold
  <2> QED  BY <1>1, <2>3, <2>4 DEF Told
<1>2. Inductive => OnlyLastUnreadHasBadge
  BY <1>1 DEF OnlyLastUnreadHasBadge
<1> QED  BY <1>2, InductiveAlways, PTL
=============================================================================
