--------------------------- MODULE Discover_proofs ---------------------------
(***************************************************************************)
(* What Discover promises, for any finite number of users and any bounds:  *)
(* its types, that a post stays on screen, and the safety half of Feed: a  *)
(* post reaches nobody before its author's blog, and nobody whom the       *)
(* author does not list as a friend by then.                               *)
(***************************************************************************)
EXTENDS Discover, FiniteSetTheorems, TLAPS

Lemmas == INSTANCE FirestoreLemmas WITH
  Device <- User, Path <- BlogPath, Field <- Post \cup {Username}
-----------------------------------------------------------------------------
(***************************************************************************)
(* The invariant.                                                          *)
(***************************************************************************)
\* No write takes a friend off a list, or a timestamp out of a blog or feed.
PermanentKeys == [p \in BlogPath |-> IF p.coll = "Friends" THEN {0} ELSE Time]

FieldsOf == [p \in BlogPath |-> IF p.coll = "Friends" THEN {Username} ELSE Post]

\* What u writes before it writes m: the blog, and the own side of a
\* friendship, before a feed.
Prior(u, m) ==
  IF m.path.coll # "FriendBlog"
  THEN {}
  ELSE {<<MyBlog(u), f.key>> : f \in m.fields \cap Post}
         \cup (IF m.path.owner = u THEN {} ELSE {<<Friends(u, m.path.owner), 0>>})

PriorWrites == [u \in User |-> [m \in Mutation |-> Prior(u, m)]]

Sent(u, p, m) ==
  LET post == [key |-> p.key, from |-> u]
  IN  /\ p.from = u
      /\ m = MergeInto(MyBlog(u), post) \/ \E v \in p.to : m = MergeInto(FriendBlog(v), post)

WrittenBy(posts, u, m) ==
  \/ \E v \in User \ {u} : m = Befriend(Friends(u, v)) \/ m = Befriend(Friends(v, u))
  \/ \E p \in posts : Sent(u, p, m)

Posting == [key : Time, from : User, to : SUBSET User]

TypeOK ==
  /\ Lemmas!FsTypeOK
  /\ listOfId \in [User -> SUBSET User]
  /\ \A u \in User : u \notin listOfId[u]
  /\ discovers \in [User -> BOOLEAN]
  /\ blogRows \in [User -> SUBSET (Post \cup {Username})]
  /\ agreed \subseteq Requests
  /\ posted \subseteq Posting
  /\ lost \in [User -> SUBSET Mutation]
  /\ faults \in [User -> Nat]

\* Every queued write is one the screens make, in the order they make them.
QueuesOK ==
  /\ \A u \in User : \A i \in 1..Len(mutationQueue[u]) : WrittenBy(posted, u, mutationQueue[u][i])
  /\ Lemmas!KeysKept(PermanentKeys)
  /\ Lemmas!OnlyFields(FieldsOf)
  /\ Lemmas!InOrder(PriorWrites)

\* Whoever is in listOfId is committed to the own list, or queued for it: a
\* kill that cuts the queue empties listOfId too.
ListedAreFriends ==
  \A u \in User : \A v \in listOfId[u] : Lemmas!WillHave(u, Friends(u, v), 0)

\* The rows are an earlier view of the feed.
RowsInView ==
  \A u \in User : KeysOf(blogRows[u]) \subseteq KeysOf(View(u, FriendBlog(u)))

IInv == TypeOK /\ QueuesOK /\ ListedAreFriends /\ RowsInView
-----------------------------------------------------------------------------
(***************************************************************************)
(* The client's definitions, here and in FirestoreLemmas, are the same.    *)
(***************************************************************************)
LEMMA SameTypes ==
  /\ Lemmas!FirestoreAssumption
  /\ Lemmas!Document = Document
  /\ Lemmas!Mutation = Mutation
<1>1. Lemmas!FirestoreAssumption
  BY DEF Lemmas!FirestoreAssumption, Post, Username
<1>2. Lemmas!Document = Document
  BY DEF Lemmas!Document, Document
<1>3. Lemmas!Mutation = Mutation
  BY <1>2 DEF Lemmas!Mutation, Mutation
<1> QED  BY <1>1, <1>2, <1>3

LEMMA SameView ==
  ASSUME NEW u, NEW p
  PROVE  View(u, p) = Lemmas!View(u, p)
  BY DEF View, Lemmas!View, LocalView, Lemmas!LocalView, Survives, Lemmas!Survives,
         Overwrites, Lemmas!Overwrites

LEMMA SameWrite ==
  ASSUME NEW u, NEW ms, LocallyWrite(u, ms)
  PROVE  Lemmas!LocallyWrite(u, ms)
  BY DEF LocallyWrite, Lemmas!LocallyWrite

LEMMA SameNetwork ==
  /\ \A u \in User : Persist(u) => Lemmas!NetworkStep
  /\ \A u \in User : Commit(u) => Lemmas!NetworkStep
  /\ \A u \in User : Acknowledge(u) => Lemmas!NetworkStep
  /\ \A u \in User : RestartStream(u) => Lemmas!NetworkStep
  /\ \A u \in User : \A p \in BlogPath : Watch(u, p) => Lemmas!NetworkStep
  /\ UNCHANGED clientVars => Lemmas!NetworkStep
<1>6. ASSUME NEW u \in User, Persist(u) PROVE Lemmas!Persist(u)
  BY <1>6 DEF Persist, Lemmas!Persist
<1>1. ASSUME NEW u \in User, Commit(u) PROVE Lemmas!Commit(u)
  BY <1>1 DEF Commit, Lemmas!Commit, ApplyTo, Lemmas!ApplyTo, Overwrites, Lemmas!Overwrites
<1>2. ASSUME NEW u \in User, Acknowledge(u) PROVE Lemmas!Acknowledge(u)
  BY <1>2 DEF Acknowledge, Lemmas!Acknowledge, ApplyTo, Lemmas!ApplyTo,
              Overwrites, Lemmas!Overwrites
<1>3. ASSUME NEW u \in User, RestartStream(u) PROVE Lemmas!Restart(u)
  BY <1>3 DEF RestartStream, Lemmas!Restart
<1>4. ASSUME NEW u \in User, NEW p \in BlogPath, Watch(u, p) PROVE Lemmas!Watch(u, p)
  BY <1>4 DEF Watch, Lemmas!Watch, CommittedOn, Lemmas!CommittedOn
<1>5. UNCHANGED clientVars => UNCHANGED Lemmas!fsVars
  BY DEF clientVars, Lemmas!fsVars
<1> QED  BY <1>1, <1>2, <1>3, <1>4, <1>5, <1>6 DEF Lemmas!NetworkStep

LEMMA SameKill ==
  ASSUME TypeOK, NEW u \in User, Relaunch(u)
  PROVE  Lemmas!Killed({u})
<1>1. PICK disk : disk = OnDisk(u)
  OBVIOUS
<1>2. Lemmas!OnDisk(u) = disk
  BY <1>1 DEF OnDisk, Lemmas!OnDisk
<1>3. mutationQueue' = [mutationQueue EXCEPT ![u] = disk]
  BY <1>1 DEF Relaunch
<1>4. /\ mutationQueue \in [User -> Seq(Lemmas!Mutation)]
      /\ applied \in [User -> Nat] /\ caughtUp \in [User -> SUBSET Nat]
  BY DEF TypeOK, Lemmas!FsTypeOK
<1>5. mutationQueue' = [d \in User |-> IF d \in {u} THEN Lemmas!OnDisk(d) ELSE mutationQueue[d]]
  BY <1>2, <1>3, <1>4
<1>6. /\ applied' = [d \in User |-> IF d \in {u} THEN 0 ELSE applied[d]]
      /\ caughtUp' = [d \in User |-> IF d \in {u} THEN {} ELSE caughtUp[d]]
  BY <1>4 DEF Relaunch
<1> QED  BY <1>5, <1>6 DEF Relaunch, Lemmas!Killed
-----------------------------------------------------------------------------
(***************************************************************************)
(* Paths and writes.                                                       *)
(***************************************************************************)
LEMMA Paths ==
  /\ \A u \in User : /\ MyBlog(u) \in BlogPath /\ FriendBlog(u) \in BlogPath
                     /\ \A v \in User \ {u} : Friends(u, v) \in BlogPath
  /\ \A u, v : /\ Friends(u, v).coll = "Friends"
               /\ Friends(u, v).owner = u /\ Friends(u, v).peer = v
  /\ \A u : MyBlog(u).coll = "MyBlog" /\ MyBlog(u).owner = u
  /\ \A u : FriendBlog(u).coll = "FriendBlog" /\ FriendBlog(u).owner = u
  /\ \A p \in BlogPath :
       \/ p.coll = "Friends" /\ p.owner \in User /\ p.peer \in User \ {p.owner}
            /\ p = Friends(p.owner, p.peer)
       \/ p.coll = "MyBlog" /\ p.owner \in User /\ p = MyBlog(p.owner)
       \/ p.coll = "FriendBlog" /\ p.owner \in User /\ p = FriendBlog(p.owner)
<1>1. /\ \A u, v : /\ Friends(u, v).coll = "Friends"
                   /\ Friends(u, v).owner = u /\ Friends(u, v).peer = v
      /\ \A u : MyBlog(u).coll = "MyBlog" /\ MyBlog(u).owner = u
      /\ \A u : FriendBlog(u).coll = "FriendBlog" /\ FriendBlog(u).owner = u
  BY DEF Friends, MyBlog, FriendBlog
<1>2. \A p : p \in BlogPath <=> \E u \in User : \/ \E v \in User \ {u} : p = Friends(u, v)
                                               \/ p = MyBlog(u) \/ p = FriendBlog(u)
  BY DEF BlogPath
<1>3. ASSUME NEW p \in BlogPath
      PROVE  \/ p.coll = "Friends" /\ p.owner \in User /\ p.peer \in User \ {p.owner}
                  /\ p = Friends(p.owner, p.peer)
             \/ p.coll = "MyBlog" /\ p.owner \in User /\ p = MyBlog(p.owner)
             \/ p.coll = "FriendBlog" /\ p.owner \in User /\ p = FriendBlog(p.owner)
  <2>1. PICK u \in User : \/ \E v \in User \ {u} : p = Friends(u, v)
                          \/ p = MyBlog(u) \/ p = FriendBlog(u)
    BY <1>2
  <2>2. ASSUME NEW v \in User \ {u}, p = Friends(u, v)
        PROVE  p.coll = "Friends" /\ p.owner \in User /\ p.peer \in User \ {p.owner}
                  /\ p = Friends(p.owner, p.peer)
    BY <1>1, <2>2
  <2> QED  BY <1>1, <2>1, <2>2
<1>4. \A u \in User : /\ MyBlog(u) \in BlogPath /\ FriendBlog(u) \in BlogPath
                      /\ \A v \in User \ {u} : Friends(u, v) \in BlogPath
  BY <1>2
<1> QED  BY <1>1, <1>3, <1>4

LEMMA KeysOfPath ==
  /\ \A u \in User : PermanentKeys[MyBlog(u)] = Time /\ PermanentKeys[FriendBlog(u)] = Time
  /\ \A u \in User : \A v \in User \ {u} : PermanentKeys[Friends(u, v)] = {0}
  /\ \A u \in User : FieldsOf[MyBlog(u)] = Post /\ FieldsOf[FriendBlog(u)] = Post
  /\ \A u \in User : \A v \in User \ {u} : FieldsOf[Friends(u, v)] = {Username}
<1>1. \A p \in BlogPath : p.coll = "Friends" => PermanentKeys[p] = {0} /\ FieldsOf[p] = {Username}
  BY DEF PermanentKeys, FieldsOf
<1>2. \A p \in BlogPath : p.coll # "Friends" => PermanentKeys[p] = Time /\ FieldsOf[p] = Post
  BY DEF PermanentKeys, FieldsOf
<1>3. "Friends" # "MyBlog" /\ "Friends" # "FriendBlog"
  OBVIOUS
<1>4. \A u \in User : MyBlog(u) \in BlogPath /\ MyBlog(u).coll # "Friends"
  BY <1>3, Paths
<1>5. \A u \in User : FriendBlog(u) \in BlogPath /\ FriendBlog(u).coll # "Friends"
  BY <1>3, Paths
<1>6. \A u \in User : \A v \in User \ {u} : Friends(u, v) \in BlogPath /\ Friends(u, v).coll = "Friends"
  BY Paths
<1> QED  BY <1>1, <1>2, <1>4, <1>5, <1>6

LEMMA FieldKeys ==
  /\ Username.key = 0
  /\ \A f \in Post : f.key \in Time /\ f.from \in User
  /\ \A t \in Time, u \in User : /\ [key |-> t, from |-> u] \in Post
                                 /\ [key |-> t, from |-> u].key = t
  /\ 0 \notin Time
<1>1. Username.key = 0
  BY DEF Username
<1>2. \A f \in Post : f.key \in Time /\ f.from \in User
  BY DEF Post
<1>3. \A t \in Time, u \in User : /\ [key |-> t, from |-> u] \in Post
                                 /\ [key |-> t, from |-> u].key = t
  BY DEF Post
<1>4. 0 \notin Time
  BY DiscoverAssumption DEF Time
<1> QED  BY <1>1, <1>2, <1>3, <1>4

\* A write of one field.
LEMMA OneField ==
  ASSUME NEW p \in BlogPath, NEW f \in Post \cup {Username},
         NEW m \in [path : {p}, fields : {{f}}, merge : BOOLEAN]
  PROVE  /\ m \in Mutation /\ m.path = p /\ m.fields = {f}
         /\ \A k : Lemmas!Has(m.fields, k) <=> k = f.key
<1>1. {f} \in Document
  BY DEF Document
<1>2. m \in Mutation
  BY <1>1 DEF Mutation
<1> QED  BY <1>2 DEF Lemmas!Has

LEMMA BefriendWrites ==
  ASSUME NEW u \in User, NEW v \in User \ {u}
  PROVE  /\ Befriend(Friends(u, v)) \in Mutation
         /\ Befriend(Friends(u, v)).path = Friends(u, v)
         /\ Befriend(Friends(u, v)).fields = {Username}
         /\ \A k : Lemmas!Has(Befriend(Friends(u, v)).fields, k) <=> k = 0
<1>1. PICK m : m = Befriend(Friends(u, v))
  OBVIOUS
<1>2. m \in [path : {Friends(u, v)}, fields : {{Username}}, merge : BOOLEAN]
  BY <1>1 DEF Befriend
<1>3. Friends(u, v) \in BlogPath /\ Username \in Post \cup {Username} /\ Username.key = 0
  BY Paths, FieldKeys
<1>4. /\ m \in Mutation /\ m.path = Friends(u, v) /\ m.fields = {Username}
      /\ \A k : Lemmas!Has(m.fields, k) <=> k = Username.key
  BY <1>2, <1>3, OneField
<1> QED  BY <1>1, <1>3, <1>4

LEMMA MergeWrites ==
  ASSUME NEW p \in BlogPath, NEW f \in Post
  PROVE  /\ MergeInto(p, f) \in Mutation
         /\ MergeInto(p, f).path = p /\ MergeInto(p, f).merge
         /\ MergeInto(p, f).fields = {f}
         /\ \A k : Lemmas!Has(MergeInto(p, f).fields, k) <=> k = f.key
<1>1. PICK m : m = MergeInto(p, f)
  OBVIOUS
<1>2. m \in [path : {p}, fields : {{f}}, merge : BOOLEAN]
  BY <1>1 DEF MergeInto
<1>3. m.merge
  BY <1>1 DEF MergeInto
<1>4. /\ m \in Mutation /\ m.path = p /\ m.fields = {f}
      /\ \A k : Lemmas!Has(m.fields, k) <=> k = f.key
  BY <1>2, OneField
<1> QED  BY <1>1, <1>3, <1>4

\* What the screens write, document by document.
IsFriendship(u, m) ==
  \E v \in User \ {u} : /\ m.path = Friends(u, v) \/ m.path = Friends(v, u)
                        /\ m.fields = {Username}

IsPost(posts, u, m) ==
  \E p \in posts : /\ p.from = u /\ p.key \in Time /\ p.to \subseteq User
                   /\ m.fields = {[key |-> p.key, from |-> u]} /\ m.merge
                   /\ m.path = MyBlog(u) \/ \E v \in p.to : m.path = FriendBlog(v)

LEMMA Writes ==
  ASSUME NEW posts \in SUBSET Posting, NEW u \in User, NEW m, WrittenBy(posts, u, m)
  PROVE  IsFriendship(u, m) \/ IsPost(posts, u, m)
<1>1. ASSUME NEW v \in User \ {u}, m = Befriend(Friends(u, v)) \/ m = Befriend(Friends(v, u))
      PROVE  IsFriendship(u, m)
  BY <1>1 DEF Befriend, IsFriendship
<1>2. ASSUME NEW p \in posts, Sent(u, p, m) PROVE IsPost(posts, u, m)
  <2>1. /\ p.from = u /\ p.key \in Time /\ p.to \subseteq User
        /\ m.fields = {[key |-> p.key, from |-> u]} /\ m.merge
        /\ m.path = MyBlog(u) \/ \E v \in p.to : m.path = FriendBlog(v)
    BY <1>2 DEF Sent, MergeInto, Posting
  <2> QED  BY <2>1 DEF IsPost
<1> QED  BY <1>1, <1>2 DEF WrittenBy

LEMMA WritesKeepKeys ==
  ASSUME NEW posts \in SUBSET Posting, NEW u \in User, NEW m, WrittenBy(posts, u, m)
  PROVE  /\ Lemmas!KeepsKeys(m, PermanentKeys)
         /\ m.fields \subseteq FieldsOf[m.path]
<1>1. CASE IsFriendship(u, m)
  <2>1. m.fields = {Username} /\ PermanentKeys[m.path] = {0} /\ FieldsOf[m.path] = {Username}
    BY <1>1, KeysOfPath DEF IsFriendship
  <2> QED  BY <2>1, FieldKeys DEF Lemmas!KeepsKeys, Lemmas!Has
<1>2. CASE IsPost(posts, u, m)
  <2>1. PICK p \in posts : /\ p.key \in Time /\ p.to \subseteq User
                           /\ m.fields = {[key |-> p.key, from |-> u]} /\ m.merge
                           /\ m.path = MyBlog(u) \/ \E v \in p.to : m.path = FriendBlog(v)
    BY <1>2 DEF IsPost
  <2>2. FieldsOf[m.path] = Post
    BY <2>1, KeysOfPath
  <2> QED  BY <2>1, <2>2, FieldKeys DEF Lemmas!KeepsKeys
<1> QED  BY <1>1, <1>2, Writes

LEMMA PriorKeys == Lemmas!KeysNeeded(PriorWrites, PermanentKeys)
<1>1. ASSUME NEW u \in User, NEW m \in Mutation, NEW r \in PriorWrites[u][m]
      PROVE  r[1] \in BlogPath /\ r[2] \in PermanentKeys[r[1]]
  <2>1. m.path \in BlogPath
    BY DEF Mutation
  <2>2. r \in Prior(u, m)
    BY DEF PriorWrites
  <2>3. m.path.coll = "FriendBlog"
    BY <2>2 DEF Prior
  <2>4. \/ \E f \in Post : r = <<MyBlog(u), f.key>>
        \/ m.path.owner # u /\ r = <<Friends(u, m.path.owner), 0>>
    BY <2>2, <2>3 DEF Prior
  <2>5. m.path.owner \in User
    BY <2>1, Paths
  <2> QED  BY <2>4, <2>5, Paths, KeysOfPath, FieldKeys
<1> QED  BY <1>1, SameTypes DEF Lemmas!KeysNeeded
LEMMA NextWrites ==
  (\A u \in User : \A i \in 1..Len(mutationQueue[u]) : WrittenBy(posted, u, mutationQueue[u][i]))'
    <=> \A u \in User : \A i \in 1..Len(mutationQueue'[u]) : WrittenBy(posted', u, mutationQueue'[u][i])
  BY DEF WrittenBy, Sent
-----------------------------------------------------------------------------
(***************************************************************************)
(* The rows.                                                               *)
(***************************************************************************)
LEMMA KeysSeen ==
  ASSUME NEW u, NEW k
  PROVE  k \in KeysOf(View(u, FriendBlog(u))) <=> Lemmas!Has(Lemmas!View(u, FriendBlog(u)), k)
<1>1. PICK doc : doc = View(u, FriendBlog(u))
  OBVIOUS
<1>2. k \in KeysOf(doc) <=> Lemmas!Has(doc, k)
  BY DEF KeysOf, Lemmas!Has
<1> QED  BY <1>1, <1>2, SameView

LEMMA NextKeysSeen ==
  ASSUME NEW u, NEW k
  PROVE  (k \in KeysOf(View(u, FriendBlog(u))))' <=>
           Lemmas!Has(Lemmas!LocalView(remoteDocs'[u][FriendBlog(u)], mutationQueue'[u], FriendBlog(u)), k)
  BY DEF KeysOf, View, LocalView, Survives, Overwrites,
         Lemmas!Has, Lemmas!LocalView, Lemmas!Survives, Lemmas!Overwrites

\* Whatever was in the rows is in the next view of the feed.
LEMMA RowsStay ==
  ASSUME TypeOK, Lemmas!FsTypeOK', QueuesOK, QueuesOK', Lemmas!KeysGrow(PermanentKeys),
         NEW u \in User, NEW k \in KeysOf(View(u, FriendBlog(u)))
  PROVE  (k \in KeysOf(View(u, FriendBlog(u))))'
<1>1. Lemmas!Has(Lemmas!View(u, FriendBlog(u)), k)
  BY KeysSeen
<1>2. FriendBlog(u) \in BlogPath /\ PermanentKeys[FriendBlog(u)] = Time
  BY Paths, KeysOfPath
<1>3. Lemmas!FsTypeOK /\ Lemmas!KeysKept(PermanentKeys) /\ Lemmas!KeysKept(PermanentKeys)'
  BY DEF TypeOK, QueuesOK
<1>4. k \in Time
  <2>1. Lemmas!View(u, FriendBlog(u)) \subseteq Post
    BY <1>2, <1>3, SameTypes, KeysOfPath, Lemmas!OnlyFieldsSeen DEF QueuesOK
  <2> QED  BY <1>1, <2>1, FieldKeys DEF Lemmas!Has
<1> QED  BY <1>1, <1>2, <1>3, <1>4, SameTypes, Lemmas!ViewsGrow, NextKeysSeen
-----------------------------------------------------------------------------
(***************************************************************************)
(* Every step of the network keeps the parts that are about the client.    *)
(***************************************************************************)
LEMMA NetworkKeepsQueues ==
  ASSUME TypeOK, QueuesOK, Lemmas!NetworkStep, posted' = posted
  PROVE  QueuesOK'
<1>1. Lemmas!FsTypeOK
  BY DEF TypeOK
<1>2. (Lemmas!KeysKept(PermanentKeys))'
  BY <1>1, SameTypes, Lemmas!NetworkKeepsKeys DEF QueuesOK
<1>3. (Lemmas!OnlyFields(FieldsOf))'
  BY <1>1, SameTypes, Lemmas!NetworkOnlyFields DEF QueuesOK
<1>4. (Lemmas!InOrder(PriorWrites))'
  BY <1>1, SameTypes, PriorKeys, Lemmas!NetworkKeepsOrder DEF QueuesOK
<1>5. ASSUME NEW u \in User, NEW i \in 1..Len(mutationQueue'[u])
      PROVE  WrittenBy(posted', u, mutationQueue'[u][i])
  <2>1. PICK j \in 1..Len(mutationQueue[u]) : mutationQueue'[u][i] = mutationQueue[u][j]
    BY <1>1, SameTypes, Lemmas!NetworkEntries
  <2> QED  BY <2>1 DEF QueuesOK
<1> QED  BY <1>2, <1>3, <1>4, <1>5, NextWrites DEF QueuesOK

\* Lists and rows that stay, or that are emptied, are still right.
LEMMA NetworkKeepsScreens ==
  ASSUME TypeOK, QueuesOK, ListedAreFriends, RowsInView, Lemmas!NetworkStep, QueuesOK',
         Lemmas!FsTypeOK', \A u \in User : listOfId'[u] \subseteq listOfId[u],
         \A u \in User : blogRows'[u] \subseteq blogRows[u]
  PROVE  ListedAreFriends' /\ RowsInView'
<1>1. Lemmas!FsTypeOK /\ Lemmas!FirestoreAssumption /\ Lemmas!KeysKept(PermanentKeys)
      /\ Lemmas!KeysKept(PermanentKeys)'
  BY SameTypes DEF TypeOK, QueuesOK
<1>2. ASSUME NEW u \in User, NEW v \in listOfId'[u]
      PROVE  Lemmas!WillHave(u, Friends(u, v), 0)'
  <2>1. v \in listOfId[u] /\ v \in User \ {u}
    BY DEF TypeOK
  <2>2. Friends(u, v) \in BlogPath /\ 0 \in PermanentKeys[Friends(u, v)]
    BY <2>1, Paths, KeysOfPath
  <2>3. Lemmas!WillHave(u, Friends(u, v), 0)
    BY <2>1 DEF ListedAreFriends
  <2> QED  BY <1>1, <2>2, <2>3, Lemmas!NetworkWillHave
<1>3. Lemmas!KeysGrow(PermanentKeys)
  BY <1>1, Lemmas!NetworkKeepsKeys
<1>4. ASSUME NEW u \in User, NEW k \in KeysOf(blogRows'[u])
      PROVE  (k \in KeysOf(View(u, FriendBlog(u))))'
  <2>1. k \in KeysOf(blogRows[u])
    BY <1>4 DEF KeysOf
  <2>2. k \in KeysOf(View(u, FriendBlog(u)))
    BY <2>1 DEF RowsInView
  <2> QED  BY <1>3, <2>2, RowsStay
<1> QED  BY <1>2, <1>4 DEF ListedAreFriends, RowsInView
-----------------------------------------------------------------------------
(***************************************************************************)
(* So does every write of the screens.                                     *)
(***************************************************************************)
LEMMA WriteKeepsQueues ==
  ASSUME TypeOK, QueuesOK, NEW u \in User, NEW ms \in Seq(Mutation), LocallyWrite(u, ms),
         posted \subseteq posted', posted' \in SUBSET Posting,
         \A i \in 1..Len(ms) : WrittenBy(posted', u, ms[i]),
         \A i \in 1..Len(ms) : \A r \in Prior(u, ms[i]) :
           Lemmas!WillHave(u, r[1], r[2]) \/ Lemmas!Before({}, ms, i, r[1], r[2])
  PROVE  Lemmas!FsTypeOK' /\ QueuesOK' /\ Lemmas!KeysGrow(PermanentKeys)
<1>1. Lemmas!FsTypeOK /\ Lemmas!LocallyWrite(u, ms) /\ Lemmas!FirestoreAssumption
      /\ ms \in Seq(Lemmas!Mutation)
  BY SameTypes, SameWrite DEF TypeOK
<1>2. Lemmas!FsTypeOK'
  BY <1>1, Lemmas!LocallyWriteType
<1>3. \A i \in 1..Len(ms) : /\ Lemmas!KeepsKeys(ms[i], PermanentKeys)
                            /\ ms[i].fields \subseteq FieldsOf[ms[i].path]
  BY WritesKeepKeys
<1>4. (Lemmas!KeysKept(PermanentKeys))' /\ Lemmas!KeysGrow(PermanentKeys)
  BY <1>1, <1>3, Lemmas!WriteKeepsKeys DEF QueuesOK
<1>5. (Lemmas!OnlyFields(FieldsOf))'
  BY <1>1, <1>3, Lemmas!WriteOnlyFields DEF QueuesOK
<1>6. \A i \in 1..Len(ms) : \A r \in PriorWrites[u][ms[i]] :
        Lemmas!WillHave(u, r[1], r[2]) \/ Lemmas!Before({}, ms, i, r[1], r[2])
  <2>1. \A i \in 1..Len(ms) : PriorWrites[u][ms[i]] = Prior(u, ms[i])
    BY DEF PriorWrites
  <2> QED  BY <2>1
<1>7. (Lemmas!InOrder(PriorWrites))'
  BY <1>1, <1>6, Lemmas!WriteKeepsOrder DEF QueuesOK
<1>8. ASSUME NEW w \in User, NEW i \in 1..Len(mutationQueue'[w])
      PROVE  WrittenBy(posted', w, mutationQueue'[w][i])
  <2>1. CASE \E j \in 1..Len(mutationQueue[w]) : mutationQueue'[w][i] = mutationQueue[w][j]
    <3>1. PICK j \in 1..Len(mutationQueue[w]) : mutationQueue'[w][i] = mutationQueue[w][j]
      BY <2>1
    <3>2. WrittenBy(posted, w, mutationQueue[w][j])
      BY DEF QueuesOK
    <3> QED  BY <3>1, <3>2 DEF WrittenBy
  <2>2. CASE w = u /\ \E j \in 1..Len(ms) : mutationQueue'[w][i] = ms[j]
    BY <2>2
  <2> QED  BY <1>1, <2>1, <2>2, Lemmas!WriteEntries
<1> QED  BY <1>2, <1>4, <1>5, <1>7, <1>8, NextWrites DEF QueuesOK

LEMMA WriteKeepsScreens ==
  ASSUME TypeOK, QueuesOK, ListedAreFriends, RowsInView, QueuesOK', Lemmas!FsTypeOK',
         Lemmas!KeysGrow(PermanentKeys),
         NEW u \in User, NEW ms \in Seq(Mutation), LocallyWrite(u, ms),
         UNCHANGED <<listOfId, blogRows>>
  PROVE  ListedAreFriends' /\ RowsInView'
<1>1. Lemmas!FsTypeOK /\ Lemmas!LocallyWrite(u, ms) /\ Lemmas!FirestoreAssumption
      /\ ms \in Seq(Lemmas!Mutation)
  BY SameTypes, SameWrite DEF TypeOK
<1>2. ASSUME NEW w \in User, NEW v \in listOfId'[w]
      PROVE  Lemmas!WillHave(w, Friends(w, v), 0)'
  <2>1. Lemmas!WillHave(w, Friends(w, v), 0)
    BY DEF ListedAreFriends
  <2> QED  BY <1>1, <2>1, Lemmas!WriteWillHave
<1>3. ASSUME NEW w \in User, NEW k \in KeysOf(blogRows'[w])
      PROVE  (k \in KeysOf(View(w, FriendBlog(w))))'
  <2>1. k \in KeysOf(View(w, FriendBlog(w)))
    BY <1>3 DEF RowsInView
  <2> QED  BY <2>1, RowsStay
<1> QED  BY <1>2, <1>3 DEF ListedAreFriends, RowsInView

-----------------------------------------------------------------------------
(***************************************************************************)
(* The two actions that write.                                             *)
(***************************************************************************)
LEMMA AgreeKeeps ==
  ASSUME IInv, NEW u \in User, NEW v \in User, AgreeClicked(u, v)
  PROVE  IInv'
<1> DEFINE ms == Friendship(u, v)
<1>1. v \in User \ {u} /\ <<u, v>> \in Requests
  BY DiscoverAssumption DEF AgreeClicked
<1>2. LocallyWrite(u, ms) /\ UNCHANGED <<screenVars, posted, lost, faults>>
  BY DEF AgreeClicked, Queue
<1>3. /\ Befriend(Friends(u, v)) \in Mutation /\ Befriend(Friends(v, u)) \in Mutation
      /\ Befriend(Friends(u, v)).path = Friends(u, v)
      /\ Befriend(Friends(v, u)).path = Friends(v, u)
      /\ Lemmas!Has(Befriend(Friends(u, v)).fields, 0)
      /\ Lemmas!Has(Befriend(Friends(v, u)).fields, 0)
  BY <1>1, BefriendWrites
<1>4. ms \in Seq(Mutation) /\ Len(ms) = 2 /\ ms[1] = Befriend(Friends(u, v))
      /\ ms[2] = Befriend(Friends(v, u))
  BY <1>3 DEF Friendship
<1> HIDE DEF ms
<1>5. \A i \in 1..Len(ms) : i = 1 \/ i = 2
  BY <1>4
<1>6. \A i \in 1..Len(ms) : WrittenBy(posted', u, ms[i])
  BY <1>1, <1>4, <1>5 DEF WrittenBy
<1>7. \A i \in 1..Len(ms) : Prior(u, ms[i]) = {}
  <2>1. \A i \in 1..Len(ms) : ms[i].path.coll = "Friends"
    BY <1>3, <1>4, <1>5, Paths
  <2> QED  BY <2>1 DEF Prior
<1>8. TypeOK /\ QueuesOK /\ ListedAreFriends /\ RowsInView
  BY DEF IInv
<1>9. posted' = posted /\ posted' \in SUBSET Posting
  BY <1>2, <1>8 DEF TypeOK
<1>10. Lemmas!FsTypeOK' /\ QueuesOK' /\ Lemmas!KeysGrow(PermanentKeys)
  BY <1>2, <1>4, <1>6, <1>7, <1>8, <1>9, WriteKeepsQueues
<1>11. ListedAreFriends' /\ RowsInView'
  BY <1>2, <1>4, <1>8, <1>10, WriteKeepsScreens DEF screenVars
<1>13. TypeOK'
  BY <1>1, <1>2, <1>8, <1>10 DEF TypeOK, screenVars, AgreeClicked
<1> QED  BY <1>10, <1>11, <1>13 DEF IInv
LEMMA OrderedType ==
  ASSUME NEW ids \in SUBSET User
  PROVE  \E n \in Nat : Ordered(ids) \in [1..n -> ids]
<1>1. IsFiniteSet(ids)
  BY DiscoverAssumption, FS_Subset
<1>2. PICK n \in Nat : n = Cardinality(ids) /\ ExistsBijection(1..n, ids)
  BY <1>1, FS_CardinalityType
<1>3. SetToSeqs(ids) = {s \in [1..n -> ids] : \A i, j \in 1..n : i # j => s[i] # s[j]}
  BY <1>2 DEF SetToSeqs
<1>4. SetToSeqs(ids) # {}
  <2>1. PICK f \in [1..n -> ids] : \A i, j \in 1..n : f[i] = f[j] => i = j
    BY <1>2 DEF ExistsBijection, Bijection, Injection, IsInjective
  <2> QED  BY <1>3, <2>1
<1>5. Ordered(ids) \in SetToSeqs(ids)
  BY <1>4 DEF Ordered
<1> QED  BY <1>3, <1>5

\* What is written for a post, and in which order.
LEMMA StoryWrites ==
  ASSUME NEW u \in User, NEW post \in Post, NEW ids \in SUBSET User
  PROVE  /\ Story(u, post, ids) \in Seq(Mutation)
         /\ Len(Story(u, post, ids)) \in Nat /\ Len(Story(u, post, ids)) >= 2
         /\ Story(u, post, ids)[1] = MergeInto(MyBlog(u), post)
         /\ \A i \in 1..Len(Story(u, post, ids)) :
              i = 1 \/ \E v \in ids \cup {u} : Story(u, post, ids)[i] = MergeInto(FriendBlog(v), post)
<1>1. PICK n \in Nat : Ordered(ids) \in [1..n -> ids]
  BY OrderedType
<1>2. PICK order \in [1..n -> ids] : order = Ordered(ids)
  BY <1>1
<1> DEFINE first == <<MergeInto(MyBlog(u), post), MergeInto(FriendBlog(u), post)>>
           rest == [i \in 1..n |-> MergeInto(FriendBlog(order[i]), post)]
<1>3. Story(u, post, ids) = first \o rest
  BY <1>2 DEF Story
<1>4. /\ MergeInto(MyBlog(u), post) \in Mutation
      /\ \A v \in User : MergeInto(FriendBlog(v), post) \in Mutation
  BY Paths, MergeWrites
<1>5. first \in Seq(Mutation) /\ Len(first) = 2 /\ first[1] = MergeInto(MyBlog(u), post)
      /\ first[2] = MergeInto(FriendBlog(u), post)
  BY <1>4
<1>6. rest \in Seq(Mutation) /\ Len(rest) = n
      /\ \A i \in 1..n : order[i] \in ids /\ rest[i] = MergeInto(FriendBlog(order[i]), post)
  <2>1. \A i \in 1..n : order[i] \in ids /\ order[i] \in User
    OBVIOUS
  <2> QED  BY <1>4, <2>1
<1> HIDE DEF first, rest
<1>7. /\ first \o rest \in Seq(Mutation) /\ Len(first \o rest) = 2 + n
      /\ (first \o rest)[1] = first[1]
  <2>1. PICK a \in Seq(Mutation) : a = first
    BY <1>5
  <2>2. PICK b \in Seq(Mutation) : b = rest
    BY <1>6
  <2>3. /\ a \o b \in Seq(Mutation) /\ Len(a \o b) = Len(a) + Len(b)
        /\ \A i \in 1..Len(a) : (a \o b)[i] = a[i]
    BY SameTypes, Lemmas!ConcatQueues
  <2>4. Len(a) = 2 /\ Len(b) = n
    BY <1>5, <1>6, <2>1, <2>2
  <2> QED  BY <2>1, <2>2, <2>3, <2>4
<1>8. ASSUME NEW i \in 1..Len(first \o rest)
      PROVE  i = 1 \/ \E v \in ids \cup {u} : (first \o rest)[i] = MergeInto(FriendBlog(v), post)
  <2>1. CASE i = 1 \/ i = 2
    BY <1>5, <1>6, <2>1
  <2>2. CASE i > 2
    <3>1. i - 2 \in 1..n /\ (first \o rest)[i] = rest[i - 2]
      BY <1>5, <1>6, <1>7, <2>2
    <3> QED  BY <1>6, <3>1
  <2> QED  BY <1>7, <2>1, <2>2
<1> QED  BY <1>3, <1>5, <1>7, <1>8

LEMMA SendKeeps ==
  ASSUME IInv, NEW u \in User, NEW t \in Clock[u], SendStory(u, t)
  PROVE  IInv'
<1>1. TypeOK /\ QueuesOK /\ ListedAreFriends /\ RowsInView
  BY DEF IInv
<1>2. PICK ids \in SUBSET User : ids = listOfId[u] /\ u \notin ids
  BY <1>1 DEF TypeOK
<1>3. t \in Time
  BY DiscoverAssumption DEF Time
<1>4. PICK post \in Post : post = [key |-> t, from |-> u]
  BY <1>3, FieldKeys
<1>5. PICK p \in Posting : p = [key |-> t, from |-> u, to |-> ids \cup {u}]
  BY <1>2, <1>3 DEF Posting
<1>6. PICK ms \in Seq(Mutation) : ms = Story(u, post, ids)
  BY StoryWrites
<1>7. LocallyWrite(u, ms) /\ posted' = posted \cup {p} /\ UNCHANGED <<screenVars, agreed, lost, faults>>
  BY <1>2, <1>4, <1>5, <1>6 DEF SendStory, Queue
<1>8. /\ Len(ms) \in Nat /\ Len(ms) >= 2 /\ ms[1] = MergeInto(MyBlog(u), post)
      /\ \A i \in 1..Len(ms) : i = 1 \/ \E v \in ids \cup {u} : ms[i] = MergeInto(FriendBlog(v), post)
  BY <1>6, StoryWrites
<1>9. posted \subseteq posted' /\ posted' \in SUBSET Posting
  BY <1>1, <1>7 DEF TypeOK
<1>10. \A i \in 1..Len(ms) : WrittenBy(posted', u, ms[i])
  <2>1. p.key = t /\ p.from = u /\ p.to = ids \cup {u} /\ post = [key |-> p.key, from |-> u]
    BY <1>4, <1>5
  <2>2. \A i \in 1..Len(ms) : Sent(u, p, ms[i])
    BY <1>8, <2>1 DEF Sent
  <2> QED  BY <1>7, <2>2 DEF WrittenBy
<1>11. ASSUME NEW i \in 1..Len(ms), NEW r \in Prior(u, ms[i])
       PROVE  Lemmas!WillHave(u, r[1], r[2]) \/ Lemmas!Before({}, ms, i, r[1], r[2])
  <2>1. i # 1
    <3>1. ms[1].path.coll = "MyBlog"
      BY <1>8, Paths, MergeWrites
    <3> QED  BY <1>11, <3>1 DEF Prior
  <2>2. PICK v \in ids \cup {u} : ms[i] = MergeInto(FriendBlog(v), post)
    BY <1>8, <2>1
  <2>3. ms[i].path.coll = "FriendBlog" /\ ms[i].path.owner = v /\ ms[i].fields = {post}
    BY <2>2, Paths, MergeWrites
  <2>4. \/ r = <<MyBlog(u), t>>
        \/ v # u /\ r = <<Friends(u, v), 0>>
    BY <1>4, <1>11, <2>3 DEF Prior
  <2>5. CASE r = <<MyBlog(u), t>>
    <3>1. 1 \in 1..Len(ms) /\ 1 < i /\ ms[1].path = MyBlog(u) /\ Lemmas!Has(ms[1].fields, t)
      <4>1. MyBlog(u) \in BlogPath /\ post.key = t
        BY <1>4, Paths
      <4>2. ms[1].path = MyBlog(u) /\ Lemmas!Has(ms[1].fields, t)
        BY <1>8, <4>1, MergeWrites
      <4> QED  BY <1>8, <2>1, <4>2
    <3> QED  BY <2>5, <3>1 DEF Lemmas!Before
  <2>6. CASE v # u /\ r = <<Friends(u, v), 0>>
    <3>1. v \in listOfId[u] /\ v \in User \ {u}
      BY <1>2, <2>6
    <3>2. Lemmas!WillHave(u, Friends(u, v), 0)
      BY <1>1, <3>1 DEF ListedAreFriends
    <3> QED  BY <2>6, <3>2
  <2> QED  BY <2>4, <2>5, <2>6
<1>12. Lemmas!FsTypeOK' /\ QueuesOK' /\ Lemmas!KeysGrow(PermanentKeys)
  BY <1>1, <1>7, <1>9, <1>10, <1>11, WriteKeepsQueues
<1>13. ListedAreFriends' /\ RowsInView'
  BY <1>1, <1>7, <1>12, WriteKeepsScreens DEF screenVars
<1>15. TypeOK'
  BY <1>1, <1>7, <1>9, <1>12 DEF TypeOK, screenVars
<1> QED  BY <1>12, <1>13, <1>15 DEF IInv
-----------------------------------------------------------------------------
(***************************************************************************)
(* The other actions.                                                      *)
(***************************************************************************)
LEMMA FriendsCallbackKeeps ==
  ASSUME IInv, NEW u \in User, FriendsCallback(u)
  PROVE  IInv'
<1>1. TypeOK /\ QueuesOK /\ ListedAreFriends /\ RowsInView
  BY DEF IInv
<1>2. UNCHANGED <<clientVars, discovers, blogRows, agreed, posted, lost, faults>>
      /\ listOfId' = [listOfId EXCEPT ![u] = Listed(u)]
  BY DEF FriendsCallback
<1>3. Lemmas!NetworkStep /\ Lemmas!FsTypeOK'
  BY <1>1, <1>2, SameTypes, SameNetwork, Lemmas!NetworkType DEF TypeOK
<1>4. QueuesOK'
  BY <1>1, <1>2, <1>3, NetworkKeepsQueues
<1>5. TypeOK'
  BY <1>1, <1>2, <1>3 DEF TypeOK, Listed
<1>6. ASSUME NEW v \in Listed(u) PROVE Lemmas!WillHave(u, Friends(u, v), 0)
  <2>1. v \in User \ {u} /\ Lemmas!View(u, Friends(u, v)) # {}
    BY <1>6, SameView DEF Listed
  <2>2. Friends(u, v) \in BlogPath /\ PermanentKeys[Friends(u, v)] = {0}
        /\ FieldsOf[Friends(u, v)] = {Username}
    BY <2>1, Paths, KeysOfPath
  <2>3. Lemmas!FsTypeOK /\ Lemmas!KeysKept(PermanentKeys) /\ Lemmas!OnlyFields(FieldsOf)
    BY <1>1 DEF TypeOK, QueuesOK
  <2>4. Lemmas!View(u, Friends(u, v)) \subseteq {Username}
    BY <2>2, <2>3, SameTypes, Lemmas!OnlyFieldsSeen
  <2>5. Lemmas!Has(Lemmas!View(u, Friends(u, v)), 0)
    BY <2>1, <2>4, FieldKeys DEF Lemmas!Has
  <2> QED  BY <2>2, <2>3, <2>5, SameTypes, Lemmas!SeenWillBe
<1>7. ListedAreFriends'
  <2>1. ASSUME NEW w \in User, NEW v \in listOfId'[w] PROVE Lemmas!WillHave(w, Friends(w, v), 0)
    <3>1. CASE w = u
      BY <1>1, <1>2, <1>6, <3>1 DEF TypeOK
    <3>2. CASE w # u
      BY <1>1, <1>2, <3>2 DEF TypeOK, ListedAreFriends
    <3> QED  BY <3>1, <3>2
  <2>2. ASSUME NEW w \in User, NEW v \in listOfId'[w] PROVE Lemmas!WillHave(w, Friends(w, v), 0)'
    <3>1. docs' = docs /\ mutationQueue' = mutationQueue
      BY <1>2 DEF clientVars
    <3> QED  BY <2>1, <3>1, Lemmas!NextWillHave DEF Lemmas!WillHave
  <2> QED  BY <2>2 DEF ListedAreFriends
<1>8. RowsInView'
  <2>1. UNCHANGED <<remoteDocs, mutationQueue, blogRows>>
    BY <1>2 DEF clientVars
  <2> QED  BY <1>1, <2>1 DEF RowsInView, View
<1> QED  BY <1>4, <1>5, <1>7, <1>8 DEF IInv

LEMMA BlogCallbackKeeps ==
  ASSUME IInv, NEW u \in User, BlogCallback(u)
  PROVE  IInv'
<1>1. TypeOK /\ QueuesOK /\ ListedAreFriends /\ RowsInView
  BY DEF IInv
<1>2. UNCHANGED <<clientVars, listOfId, discovers, agreed, posted, lost, faults>>
      /\ blogRows' = [blogRows EXCEPT ![u] = View(u, FriendBlog(u))]
  BY DEF BlogCallback
<1>3. UNCHANGED <<docs, remoteDocs, mutationQueue>>
  BY <1>2 DEF clientVars
<1>4. Lemmas!NetworkStep /\ Lemmas!FsTypeOK'
  BY <1>1, <1>2, SameTypes, SameNetwork, Lemmas!NetworkType DEF TypeOK
<1>5. QueuesOK'
  BY <1>1, <1>2, <1>4, NetworkKeepsQueues
<1>6. View(u, FriendBlog(u)) \in SUBSET (Post \cup {Username})
  <2>1. FriendBlog(u) \in BlogPath
    BY Paths
  <2>2. remoteDocs[u][FriendBlog(u)] \in SUBSET (Post \cup {Username})
    BY <1>1, <2>1 DEF TypeOK, Lemmas!FsTypeOK, Lemmas!Document
  <2> QED  BY <2>2 DEF View, LocalView
<1>7. TypeOK'
  BY <1>1, <1>2, <1>4, <1>6 DEF TypeOK
<1>8. ListedAreFriends'
  <2>1. ASSUME NEW w \in User, NEW v \in listOfId'[w] PROVE Lemmas!WillHave(w, Friends(w, v), 0)'
    BY <1>1, <1>2, <1>3, Lemmas!NextWillHave DEF Lemmas!WillHave, ListedAreFriends
  <2> QED  BY <2>1 DEF ListedAreFriends
<1>9. RowsInView'
  <2>1. \A w \in User : KeysOf(blogRows'[w]) \subseteq KeysOf(View(w, FriendBlog(w)))
    BY <1>1, <1>2 DEF TypeOK, RowsInView
  <2> QED  BY <1>3, <2>1 DEF RowsInView, View
<1> QED  BY <1>5, <1>7, <1>8, <1>9 DEF IInv

\* A step of the network, of a fault or of opening the screen.
LEMMA OthersKeep ==
  ASSUME IInv, Lemmas!NetworkStep, UNCHANGED <<agreed, posted, lost>>,
         \A u \in User : listOfId'[u] \subseteq listOfId[u],
         \A u \in User : blogRows'[u] \subseteq blogRows[u],
         listOfId' \in [User -> SUBSET User], discovers' \in [User -> BOOLEAN],
         blogRows' \in [User -> SUBSET (Post \cup {Username})], faults' \in [User -> Nat]
  PROVE  IInv'
<1>1. TypeOK /\ QueuesOK /\ ListedAreFriends /\ RowsInView
  BY DEF IInv
<1>2. Lemmas!FsTypeOK'
  BY <1>1, SameTypes, Lemmas!NetworkType DEF TypeOK
<1>3. QueuesOK'
  BY <1>1, NetworkKeepsQueues
<1>4. TypeOK'
  BY <1>1, <1>2 DEF TypeOK
<1>5. ListedAreFriends' /\ RowsInView'
  BY <1>1, <1>2, <1>3, NetworkKeepsScreens
<1> QED  BY <1>3, <1>4, <1>5 DEF IInv

\* A kill: only what the device itself lists and shows depends on its queue.
LEMMA KillKeeps ==
  ASSUME IInv, NEW u \in User, Relaunch(u)
  PROVE  IInv'
<1>1. TypeOK /\ QueuesOK /\ ListedAreFriends /\ RowsInView
  BY DEF IInv
<1>2. Lemmas!FsTypeOK /\ Lemmas!FirestoreAssumption /\ Lemmas!Killed({u})
  BY <1>1, SameTypes, SameKill DEF TypeOK
<1>3. /\ posted' = posted /\ agreed' = agreed
      /\ lost' = [lost EXCEPT ![u] = @ \cup CutOff(u)]
      /\ listOfId' = [listOfId EXCEPT ![u] = {}]
      /\ discovers' = [discovers EXCEPT ![u] = FALSE]
      /\ blogRows' = [blogRows EXCEPT ![u] = {}]
      /\ UNCHANGED <<docs, remoteDocs>> /\ faults' = [faults EXCEPT ![u] = @ + 1]
  BY DEF Relaunch, Fault
<1>4. Lemmas!FsTypeOK'
  BY <1>2, Lemmas!KilledType
<1>5. (Lemmas!KeysKept(PermanentKeys))'
  BY <1>1, <1>2, Lemmas!KilledKeepsKeys DEF QueuesOK
<1>6. (Lemmas!OnlyFields(FieldsOf))'
  BY <1>1, <1>2, Lemmas!KilledOnlyFields DEF QueuesOK
<1>7. (Lemmas!InOrder(PriorWrites))'
  BY <1>1, <1>2, Lemmas!KilledKeepsOrder DEF QueuesOK
<1>8. ASSUME NEW w \in User, NEW i \in 1..Len(mutationQueue'[w])
      PROVE  WrittenBy(posted', w, mutationQueue'[w][i])
  <2>1. i \in 1..Len(mutationQueue[w]) /\ mutationQueue'[w][i] = mutationQueue[w][i]
    BY <1>2, Lemmas!KilledQueues
  <2> QED  BY <1>1, <1>3, <2>1 DEF QueuesOK
<1>9. QueuesOK'
  BY <1>5, <1>6, <1>7, <1>8, NextWrites DEF QueuesOK
<1>10. CutOff(u) \in SUBSET Mutation
  <2>1. mutationQueue[u] \in Seq(Mutation) /\ persisted[u] \in Nat
    BY <1>2, SameTypes DEF Lemmas!FsTypeOK
  <2>2. \A i \in (persisted[u] + 1)..Len(mutationQueue[u]) : mutationQueue[u][i] \in Mutation
    BY <2>1
  <2> QED  BY <2>2 DEF CutOff
<1>11. TypeOK'
  <2>1. lost' \in [User -> SUBSET Mutation]
    BY <1>1, <1>3, <1>10 DEF TypeOK
  <2> QED  BY <1>1, <1>3, <1>4, <2>1 DEF TypeOK
<1>12. \A w \in User : w # u => mutationQueue'[w] = mutationQueue[w]
  BY <1>2, Lemmas!KilledQueues
<1>13. \A w \in User : /\ w = u => listOfId'[w] = {} /\ blogRows'[w] = {}
                       /\ w # u => listOfId'[w] = listOfId[w] /\ blogRows'[w] = blogRows[w]
  BY <1>1, <1>3 DEF TypeOK
<1>14. ListedAreFriends'
  <2>1. ASSUME NEW w \in User, NEW v \in listOfId'[w] PROVE Lemmas!WillHave(w, Friends(w, v), 0)'
    <3>1. w # u /\ v \in listOfId[w] /\ docs' = docs /\ mutationQueue'[w] = mutationQueue[w]
      BY <1>3, <1>12, <1>13
    <3>2. Lemmas!WillHave(w, Friends(w, v), 0)
      BY <1>1, <3>1 DEF ListedAreFriends
    <3> QED  BY <3>1, <3>2, Lemmas!NextWillHave DEF Lemmas!WillHave
  <2> QED  BY <2>1 DEF ListedAreFriends
<1>15. RowsInView'
  <2>1. ASSUME NEW w \in User PROVE (KeysOf(blogRows[w]) \subseteq KeysOf(View(w, FriendBlog(w))))'
    <3>1. CASE w = u
      BY <1>13, <3>1 DEF KeysOf
    <3>2. CASE w # u
      <4>1. blogRows'[w] = blogRows[w] /\ mutationQueue'[w] = mutationQueue[w] /\ remoteDocs' = remoteDocs
        BY <1>3, <1>12, <1>13, <3>2
      <4>2. KeysOf(blogRows[w]) \subseteq KeysOf(View(w, FriendBlog(w)))
        BY <1>1 DEF RowsInView
      <4> QED  BY <4>1, <4>2 DEF View
    <3> QED  BY <3>1, <3>2
  <2> QED  BY <2>1 DEF RowsInView
<1> QED  BY <1>9, <1>11, <1>14, <1>15 DEF IInv

LEMMA Invariance == IInv /\ [Next]_vars => IInv'
<1> SUFFICES ASSUME IInv, [Next]_vars PROVE IInv'
  OBVIOUS
<1>1. /\ listOfId \in [User -> SUBSET User] /\ discovers \in [User -> BOOLEAN]
      /\ blogRows \in [User -> SUBSET (Post \cup {Username})] /\ faults \in [User -> Nat]
  BY DEF IInv, TypeOK
<1>2. ASSUME UNCHANGED <<screenVars, agreed, posted, lost>>, Lemmas!NetworkStep,
             faults' \in [User -> Nat]
      PROVE  IInv'
  BY <1>1, <1>2, OthersKeep DEF screenVars
<1>3. ASSUME NEW u \in User, Fault(u) PROVE faults' \in [User -> Nat]
  BY <1>1, <1>3 DEF Fault
<1>4. ASSUME NEW u \in User, OpenDiscover(u) PROVE IInv'
  <2>1. Lemmas!NetworkStep
    BY <1>4, SameNetwork DEF OpenDiscover
  <2> QED  BY <1>1, <1>4, <2>1, OthersKeep DEF OpenDiscover
<1>11. ASSUME NEW u \in User, PersistWrite(u) PROVE IInv'
  BY <1>1, <1>2, <1>11, SameNetwork DEF PersistWrite
<1>5. ASSUME NEW u \in User, CommitWrite(u) PROVE IInv'
  BY <1>1, <1>2, <1>5, SameNetwork DEF CommitWrite
<1>6. ASSUME NEW u \in User, WriteAnswered(u) PROVE IInv'
  BY <1>1, <1>2, <1>6, SameNetwork DEF WriteAnswered
<1>7. ASSUME NEW u \in User, NEW p \in BlogPath, ReceiveSnapshot(u, p) PROVE IInv'
  BY <1>1, <1>2, <1>7, SameNetwork DEF ReceiveSnapshot
<1>8. ASSUME NEW u \in User, StreamBroken(u) PROVE IInv'
  BY <1>2, <1>3, <1>8, SameNetwork DEF StreamBroken
<1>10. CASE UNCHANGED vars
  BY <1>1, <1>2, <1>10, SameNetwork DEF vars
<1> QED  BY <1>4, <1>5, <1>6, <1>7, <1>8, <1>10, <1>11, KillKeeps,
            AgreeKeeps, SendKeeps, FriendsCallbackKeeps, BlogCallbackKeeps DEF Next
LEMMA InitInv == Init => IInv
<1> SUFFICES ASSUME Init PROVE IInv
  OBVIOUS
<1>1. Lemmas!FsInit
  BY DEF Init, FsInit, Lemmas!FsInit
<1>2. docs = [p \in BlogPath |-> {}] /\ mutationQueue = [u \in User |-> << >>]
  BY <1>1 DEF Lemmas!FsInit
<1>3. QueuesOK
  BY <1>1, <1>2, SameTypes, Lemmas!KeysKeptInit, Lemmas!OnlyFieldsInit, Lemmas!InOrderInit DEF QueuesOK
<1>4. TypeOK
  BY <1>1, SameTypes, Lemmas!FsInitType DEF Init, TypeOK
<1>5. \A u \in User : \A v \in User \ {u} : ~Lemmas!WillHave(u, Friends(u, v), 0)
  BY <1>2, Paths DEF Lemmas!WillHave, Lemmas!Has
<1>6. ListedAreFriends /\ RowsInView
  BY <1>5 DEF Init, ListedAreFriends, RowsInView, KeysOf
<1> QED  BY <1>3, <1>4, <1>6 DEF IInv

LEMMA InvHolds == Spec => []IInv
  BY InitInv, Invariance, PTL DEF Spec

\* The client's state, the lists, the rows and the history keep their types.
THEOREM TypeCorrect == Spec => []TypeOK
<1>1. IInv => TypeOK
  BY DEF IInv
<1> QED  BY <1>1, InvHolds, PTL

\* A post on screen stays there while the app runs, whatever is written to
\* the feed, answered, sent again or heard of.
THEOREM PostsStay == Spec => PostsStayOnScreen
<1>1. IInv /\ [Next]_vars =>
        [\A u \in User : KeysOf(blogRows[u]) \subseteq KeysOf(blogRows'[u])
                           \/ faults'[u] > faults[u]]_vars
  <2> SUFFICES ASSUME IInv, Next, NEW u \in User
               PROVE  KeysOf(blogRows[u]) \subseteq KeysOf(blogRows'[u]) \/ faults'[u] > faults[u]
    OBVIOUS
  <2>1. blogRows \in [User -> SUBSET (Post \cup {Username})] /\ faults \in [User -> Nat]
        /\ KeysOf(blogRows[u]) \subseteq KeysOf(View(u, FriendBlog(u)))
    BY DEF IInv, TypeOK, RowsInView
  <2>2. ASSUME NEW w \in User, BlogCallback(w)
        PROVE  KeysOf(blogRows[u]) \subseteq KeysOf(blogRows'[u])
    BY <2>1, <2>2 DEF BlogCallback
  <2>3. ASSUME NEW w \in User, Relaunch(w)
        PROVE  blogRows'[u] = blogRows[u] \/ faults'[u] > faults[u]
    BY <2>1, <2>3 DEF Relaunch, Fault
  <2>4. blogRows' = blogRows \/ \E w \in User : BlogCallback(w) \/ Relaunch(w)
    BY DEF Next, AgreeClicked, OpenDiscover, SendStory, FriendsCallback, PersistWrite,
           CommitWrite, WriteAnswered, ReceiveSnapshot, StreamBroken, screenVars
  <2> QED  BY <2>2, <2>3, <2>4
<1> QED  BY <1>1, InvHolds, PTL DEF Spec, PostsStayOnScreen
-----------------------------------------------------------------------------
(***************************************************************************)
(* Discover implements the safety half of Feed.                            *)
(***************************************************************************)
Blogs == [u \in User |-> KeysOf(docs[MyBlog(u)])]

Feeds == [u \in User |-> KeysOf(docs[FriendBlog(u)])]

ListsIn(doc) ==
  {pair \in User \X User : pair[1] # pair[2] /\ doc[Friends(pair[1], pair[2])] # {}}

LEMMA SameLists == Lists = ListsIn(docs) /\ Lists' = ListsIn(docs')
  BY DEF Lists, ListsIn, Exists

LEMMA ListsAre ==
  ASSUME NEW doc
  PROVE  /\ ListsIn(doc) \subseteq User \X User
         /\ \A u, v \in User : <<u, v>> \in ListsIn(doc) <=> u # v /\ doc[Friends(u, v)] # {}
<1>1. ASSUME NEW u \in User, NEW v \in User
      PROVE  <<u, v>> \in ListsIn(doc) <=> u # v /\ doc[Friends(u, v)] # {}
  <2>1. PICK pair \in User \X User : pair = <<u, v>>
    OBVIOUS
  <2>2. pair[1] = u /\ pair[2] = v
    BY <2>1
  <2> QED  BY <2>1, <2>2 DEF ListsIn
<1>2. ListsIn(doc) \subseteq User \X User
  BY DEF ListsIn
<1> QED  BY <1>1, <1>2

LEMMA SameCut ==
  ASSUME lost' = lost
  PROVE  Cut' = Cut
  BY DEF Cut, CopyLost

LEMMA MergedKeys ==
  ASSUME NEW m, m.merge, NEW doc
  PROVE  KeysOf(ApplyTo(m, doc)) = KeysOf(doc) \cup KeysOf(m.fields)
  BY DEF KeysOf, ApplyTo, Overwrites

\* Only what the documents hold, and what was posted, is told apart.
LEMMA SameDocuments ==
  ASSUME docs' = docs, posted' = posted, lost' = lost
  PROVE  UNCHANGED TheFeed!feedVars
  BY SameCut DEF TheFeed!feedVars, Lists, Exists

LEMMA SendPublishes ==
  ASSUME IInv, NEW u \in User, NEW t \in Clock[u], SendStory(u, t)
  PROVE  TheFeed!Next
<1>1. docs' = docs
  BY DEF SendStory, Queue, LocallyWrite
<1>2. t \in Time
  BY DiscoverAssumption DEF Time
<1>3. listOfId[u] \in SUBSET User
  BY DEF IInv, TypeOK
<1>4. TheFeed!Publish(u, t, listOfId[u])
  BY <1>1, SameCut DEF SendStory, TheFeed!Publish, Lists, Exists
<1> QED  BY <1>2, <1>3, <1>4 DEF TheFeed!Next
\* What a write needs is committed when it is.
LEMMA PriorCommitted ==
  ASSUME TypeOK, QueuesOK, NEW u \in User, NEW n \in 1..Len(mutationQueue[u]),
         n = applied[u] + 1, NEW m \in Mutation, m = mutationQueue[u][n], NEW r \in Prior(u, m)
  PROVE  Lemmas!Has(docs[r[1]], r[2])
<1>1. Lemmas!FsTypeOK /\ Lemmas!FirestoreAssumption /\ Lemmas!KeysKept(PermanentKeys)
      /\ Lemmas!InOrder(PriorWrites)
  BY SameTypes DEF TypeOK, QueuesOK
<1>2. r \in PriorWrites[u][mutationQueue[u][n]]
  BY DEF PriorWrites
<1>3. Lemmas!Before(docs[r[1]], mutationQueue[u], n, r[1], r[2])
  BY <1>1, <1>2 DEF Lemmas!InOrder
<1>4. r[1] \in BlogPath /\ r[2] \in PermanentKeys[r[1]]
  BY <1>2, PriorKeys, SameTypes DEF Lemmas!KeysNeeded
<1> QED  BY <1>1, <1>3, <1>4, Lemmas!CommittedBefore

\* The list a write of a friendship adds to is only ever added to.
LEMMA FriendshipRefines ==
  ASSUME NEW u \in User, NEW m, IsFriendship(u, m), posted' = posted, lost' = lost,
         \A x \in BlogPath : docs'[x] = IF x = m.path THEN ApplyTo(m, docs[x]) ELSE docs[x]
  PROVE  TheFeed!Next \/ UNCHANGED TheFeed!feedVars
<1>1. PICK a \in User : \E b \in User \ {a} : m.path = Friends(a, b) /\ m.fields = {Username}
  BY DEF IsFriendship
<1>2. PICK b \in User \ {a} : m.path = Friends(a, b) /\ m.fields = {Username}
  BY <1>1
<1>3. \A x \in User : docs'[MyBlog(x)] = docs[MyBlog(x)] /\ docs'[FriendBlog(x)] = docs[FriendBlog(x)]
  <2>1. \A x \in User : /\ MyBlog(x) \in BlogPath /\ MyBlog(x) # Friends(a, b)
                        /\ FriendBlog(x) \in BlogPath /\ FriendBlog(x) # Friends(a, b)
    BY Paths
  <2> QED  BY <1>2, <2>1
<1>4. \A x \in User : \A y \in User \ {x} :
        (docs'[Friends(x, y)] # {}) <=> (docs[Friends(x, y)] # {} \/ (x = a /\ y = b))
  <2> TAKE x \in User
  <2> TAKE y \in User \ {x}
  <2>1. Friends(x, y) \in BlogPath /\ ((Friends(x, y) = Friends(a, b)) <=> (x = a /\ y = b))
    BY Paths
  <2>2. \A doc : ApplyTo(m, doc) # {}
    BY <1>2 DEF ApplyTo
  <2> QED  BY <1>2, <2>1, <2>2
<1>5. Lists' = Lists \cup {<<a, b>>}
  <2>1. \A x, y \in User : <<x, y>> \in Lists' <=> <<x, y>> \in Lists \/ (x = a /\ y = b)
    <3> TAKE x, y \in User
    <3>1. <<x, y>> \in Lists <=> x # y /\ docs[Friends(x, y)] # {}
      BY SameLists, ListsAre
    <3>2. <<x, y>> \in Lists' <=> x # y /\ docs'[Friends(x, y)] # {}
      BY SameLists, ListsAre
    <3> QED  BY <1>4, <3>1, <3>2
  <2>2. Lists \subseteq User \X User /\ Lists' \subseteq User \X User
    BY SameLists, ListsAre
  <2>3. \A pair \in User \X User : pair \in Lists' <=> pair \in Lists \cup {<<a, b>>}
    BY <2>1
  <2>4. <<a, b>> \in User \X User
    OBVIOUS
  <2> QED  BY <2>2, <2>3, <2>4
<1>6. Cut' = Cut
  BY SameCut
<1>7. CASE Lists' = Lists
  BY <1>3, <1>6, <1>7 DEF TheFeed!feedVars
<1>8. CASE Lists' # Lists
  <2>1. <<a, b>> \notin Lists
    BY <1>5, <1>8
  <2>2. TheFeed!Befriend(a, b)
    BY <1>3, <1>5, <1>6, <2>1 DEF TheFeed!Befriend
  <2> QED  BY <2>2 DEF TheFeed!Next
<1> QED  BY <1>7, <1>8

\* A post is kept, then delivered.
LEMMA PostRefines ==
  ASSUME TypeOK, NEW u \in User, NEW m, IsPost(posted, u, m), posted' = posted, lost' = lost,
         \A x \in BlogPath : docs'[x] = IF x = m.path THEN ApplyTo(m, docs[x]) ELSE docs[x],
         \A r \in Prior(u, m) : Lemmas!Has(docs[r[1]], r[2])
  PROVE  TheFeed!Next \/ UNCHANGED TheFeed!feedVars
<1>1. PICK p \in posted : /\ p.from = u /\ p.key \in Time /\ p.to \subseteq User
                          /\ m.fields = {[key |-> p.key, from |-> u]} /\ m.merge
                          /\ m.path = MyBlog(u) \/ \E v \in p.to : m.path = FriendBlog(v)
  BY DEF IsPost
<1>2. KeysOf(m.fields) = {p.key}
  BY <1>1 DEF KeysOf
<1>3. \A x \in BlogPath : KeysOf(docs'[x]) = IF x = m.path THEN KeysOf(docs[x]) \cup {p.key}
                                                          ELSE KeysOf(docs[x])
  <2>1. ASSUME NEW doc PROVE KeysOf(ApplyTo(m, doc)) = KeysOf(doc) \cup {p.key}
    <3>1. m.merge
      BY <1>1
    <3>2. KeysOf(ApplyTo(m, doc)) = KeysOf(doc) \cup KeysOf(m.fields)
      BY <3>1, MergedKeys
    <3> QED  BY <1>2, <3>2
  <2>2. KeysOf(docs'[m.path]) = KeysOf(ApplyTo(m, docs[m.path])) \/ m.path \notin BlogPath
    OBVIOUS
  <2>3. \A x \in BlogPath : x # m.path => docs'[x] = docs[x]
    OBVIOUS
  <2> QED  BY <2>1, <2>2, <2>3
<1>4. Lists' = Lists /\ Cut' = Cut
  <2>1. \A x \in User : \A y \in User \ {x} : docs'[Friends(x, y)] = docs[Friends(x, y)]
    <3>1. \A x \in User : \A y \in User \ {x} :
            /\ Friends(x, y) \in BlogPath /\ Friends(x, y) # MyBlog(u)
            /\ \A v \in User : Friends(x, y) # FriendBlog(v)
      BY Paths
    <3> QED  BY <1>1, <3>1
  <2>2. \A pair \in User \X User : pair[1] # pair[2] =>
          docs'[Friends(pair[1], pair[2])] = docs[Friends(pair[1], pair[2])]
    BY <2>1
  <2>3. Lists' = Lists
    BY <2>2, SameLists DEF ListsIn
  <2> QED  BY <2>3, SameCut
<1>5. /\ \A x \in User : MyBlog(x) \in BlogPath /\ FriendBlog(x) \in BlogPath
      /\ \A x, y : MyBlog(x) # FriendBlog(y)
      /\ \A x, y : MyBlog(x) = MyBlog(y) => x = y
      /\ \A x, y : FriendBlog(x) = FriendBlog(y) => x = y
  <2>1. \A x, y : MyBlog(x) # FriendBlog(y)
    BY Paths
  <2>2. \A x, y : MyBlog(x) = MyBlog(y) => x = y
    BY Paths
  <2>3. \A x, y : FriendBlog(x) = FriendBlog(y) => x = y
    BY Paths
  <2> QED  BY <2>1, <2>2, <2>3, Paths
<1>6. CASE m.path = MyBlog(u)
  <2>1. \A x \in User : KeysOf(docs'[FriendBlog(x)]) = KeysOf(docs[FriendBlog(x)])
    BY <1>3, <1>5, <1>6
  <2>2. \A x \in User : KeysOf(docs'[MyBlog(x)]) = IF x = u THEN KeysOf(docs[MyBlog(u)]) \cup {p.key}
                                                             ELSE KeysOf(docs[MyBlog(x)])
    BY <1>3, <1>5, <1>6
  <2>3. CASE p.key \in KeysOf(docs[MyBlog(u)])
    <3>1. \A x \in User : KeysOf(docs'[MyBlog(x)]) = KeysOf(docs[MyBlog(x)])
      BY <2>2, <2>3
    <3> QED  BY <1>4, <2>1, <3>1 DEF TheFeed!feedVars
  <2>4. CASE p.key \notin KeysOf(docs[MyBlog(u)])
    <3>1. [x \in User |-> KeysOf(docs'[MyBlog(x)])] =
            [[x \in User |-> KeysOf(docs[MyBlog(x)])] EXCEPT ![p.from] = @ \cup {p.key}]
      BY <1>1, <2>2
    <3>2. [x \in User |-> KeysOf(docs[FriendBlog(x)])]' = [x \in User |-> KeysOf(docs[FriendBlog(x)])]
      BY <2>1
    <3>3. TheFeed!Keep(p)
      BY <1>1, <1>4, <2>4, <3>1, <3>2 DEF TheFeed!Keep
    <3> QED  BY <3>3 DEF TheFeed!Next
  <2> QED  BY <2>3, <2>4
<1>7. ASSUME NEW v \in p.to, m.path = FriendBlog(v)
      PROVE  TheFeed!Next \/ UNCHANGED TheFeed!feedVars
  <2>1. \A x \in User : KeysOf(docs'[MyBlog(x)]) = KeysOf(docs[MyBlog(x)])
    BY <1>1, <1>3, <1>5, <1>7
  <2>2. \A x \in User : KeysOf(docs'[FriendBlog(x)]) =
          IF x = v THEN KeysOf(docs[FriendBlog(v)]) \cup {p.key} ELSE KeysOf(docs[FriendBlog(x)])
    BY <1>1, <1>3, <1>5, <1>7
  <2>3. CASE p.key \in KeysOf(docs[FriendBlog(v)])
    <3>1. \A x \in User : KeysOf(docs'[FriendBlog(x)]) = KeysOf(docs[FriendBlog(x)])
      BY <2>2, <2>3
    <3> QED  BY <1>4, <2>1, <3>1 DEF TheFeed!feedVars
  <2>4. CASE p.key \notin KeysOf(docs[FriendBlog(v)])
    <3>1. [x \in User |-> KeysOf(docs'[FriendBlog(x)])] =
            [[x \in User |-> KeysOf(docs[FriendBlog(x)])] EXCEPT ![v] = @ \cup {p.key}]
      BY <1>1, <2>2
    <3>2. [x \in User |-> KeysOf(docs[MyBlog(x)])]' = [x \in User |-> KeysOf(docs[MyBlog(x)])]
      BY <2>1
    <3>3. m.path.coll = "FriendBlog" /\ m.path.owner = v /\ [key |-> p.key, from |-> u] \in Post
      BY <1>1, <1>7, Paths, FieldKeys
    <3>4. p.key \in KeysOf(docs[MyBlog(u)])
      <4>1. <<MyBlog(u), p.key>> \in Prior(u, m)
        BY <1>1, <3>3 DEF Prior
      <4>2. PICK r : r = <<MyBlog(u), p.key>>
        OBVIOUS
      <4>3. Lemmas!Has(docs[r[1]], r[2])
        BY <4>1, <4>2
      <4> QED  BY <4>2, <4>3 DEF Lemmas!Has, KeysOf
    <3>5. v = u \/ <<u, v>> \in Lists
      <4> SUFFICES ASSUME v # u PROVE <<u, v>> \in Lists
        OBVIOUS
      <4>1. <<Friends(u, v), 0>> \in Prior(u, m)
        BY <3>3 DEF Prior
      <4>2. PICK r : r = <<Friends(u, v), 0>>
        OBVIOUS
      <4>3. Lemmas!Has(docs[r[1]], r[2])
        BY <4>1, <4>2
      <4>4. docs[Friends(u, v)] # {}
        BY <4>2, <4>3 DEF Lemmas!Has
      <4>5. v \in User
        BY <1>1
      <4> QED  BY <4>4, <4>5, ListsAre, SameLists
    <3>6. TheFeed!Deliver(p, v)
      BY <1>1, <1>4, <2>4, <3>1, <3>2, <3>4, <3>5 DEF TheFeed!Deliver
    <3> QED  BY <3>6 DEF TheFeed!Next
  <2> QED  BY <2>3, <2>4
<1> QED  BY <1>1, <1>6, <1>7

LEMMA CommitRefines ==
  ASSUME IInv, NEW u \in User, CommitWrite(u)
  PROVE  TheFeed!Next \/ UNCHANGED TheFeed!feedVars
<1>1. TypeOK /\ QueuesOK /\ Commit(u) /\ posted' = posted /\ lost' = lost
  BY DEF IInv, CommitWrite
<1>2. PICK n \in 1..Len(mutationQueue[u]) : n = applied[u] + 1
  BY <1>1, SameTypes DEF TypeOK, Lemmas!FsTypeOK, Commit
<1>3. PICK m \in Mutation : m = mutationQueue[u][n]
  BY <1>1, <1>2, SameTypes DEF TypeOK, Lemmas!FsTypeOK
<1>4. /\ m.path \in BlogPath
      /\ \A x \in BlogPath : docs'[x] = IF x = m.path THEN ApplyTo(m, docs[x]) ELSE docs[x]
  BY <1>1, <1>2, <1>3, SameTypes DEF TypeOK, Lemmas!FsTypeOK, Commit, Mutation
<1>5. IsFriendship(u, m) \/ IsPost(posted, u, m)
  BY <1>1, <1>3, Writes DEF TypeOK, QueuesOK
<1>6. \A r \in Prior(u, m) : Lemmas!Has(docs[r[1]], r[2])
  BY <1>1, <1>2, <1>3, PriorCommitted
<1>7. CASE IsFriendship(u, m)
  BY <1>1, <1>4, <1>7, FriendshipRefines
<1>8. CASE IsPost(posted, u, m)
  BY <1>1, <1>4, <1>6, <1>8, PostRefines
<1> QED  BY <1>5, <1>7, <1>8

\* What a kill cuts off is a copy of a post that was sent.
LEMMA KillRefines ==
  ASSUME IInv, NEW u \in User, Relaunch(u)
  PROVE  TheFeed!Die(u)
<1>1. /\ lost' = [lost EXCEPT ![u] = @ \cup CutOff(u)] /\ lost \in [User -> SUBSET Mutation]
      /\ docs' = docs /\ posted' = posted
      /\ mutationQueue[u] \in Seq(Mutation) /\ persisted[u] \in Nat /\ posted \subseteq Posting
  BY SameTypes DEF Relaunch, IInv, TypeOK, Lemmas!FsTypeOK
<1>2. Lists' = Lists /\ [x \in User |-> KeysOf(docs[MyBlog(x)])]' = [x \in User |-> KeysOf(docs[MyBlog(x)])]
      /\ [x \in User |-> KeysOf(docs[FriendBlog(x)])]' = [x \in User |-> KeysOf(docs[FriendBlog(x)])]
  BY <1>1 DEF Lists, Exists
<1>3. \A w \in User : lost[w] \subseteq lost'[w] /\ (w # u => lost'[w] = lost[w])
  BY <1>1
<1>4. Cut' \in SUBSET (User \X Time \X User)
  BY DEF Cut
<1>5. Cut \subseteq Cut'
  <2>1. \A w \in User : \A t, p : CopyLost(w, t, p) => CopyLost(w, t, p)'
    BY <1>3 DEF CopyLost
  <2> QED  BY <2>1 DEF Cut
<1>6. ASSUME NEW copy \in Cut' \ Cut
      PROVE  /\ copy[1] = u
             /\ \E p \in posted : p.from = u /\ p.key = copy[2] /\ copy[3] \in p.to
  <2> DEFINE w == copy[1]
             t == copy[2]
             v == copy[3]
  <2>1. CopyLost(w, t, FriendBlog(v))' /\ ~CopyLost(w, t, FriendBlog(v)) /\ w \in User
    BY <1>6 DEF Cut
  <2>2. PICK m : m = MergeInto(FriendBlog(v), [key |-> t, from |-> w])
    OBVIOUS
  <2> HIDE DEF w, t, v
  <2>3. m \in lost'[w] /\ m \notin lost[w]
    BY <2>1, <2>2 DEF CopyLost
  <2>4. w = u /\ m \in CutOff(u)
    BY <1>1, <1>3, <2>3
  <2>5. PICK i \in (persisted[u] + 1)..Len(mutationQueue[u]) : m = mutationQueue[u][i]
    BY <2>4 DEF CutOff
  <2>6. i \in 1..Len(mutationQueue[u])
    BY <1>1
  <2>7. WrittenBy(posted, u, m)
    BY <2>5, <2>6 DEF IInv, QueuesOK
  <2>8. m.path = FriendBlog(v) /\ m.fields = {[key |-> t, from |-> w]}
    BY <2>2 DEF MergeInto
  <2>9. ~IsFriendship(u, m)
    BY <2>8, Paths DEF IsFriendship
  <2>10. PICK p \in posted : /\ p.from = u /\ m.fields = {[key |-> p.key, from |-> u]}
                             /\ m.path = MyBlog(u) \/ \E x \in p.to : m.path = FriendBlog(x)
    <3>1. posted \in SUBSET Posting
      BY <1>1
    <3>2. IsPost(posted, u, m)
      BY <2>7, <2>9, <3>1, Writes
    <3> QED  BY <3>2 DEF IsPost
  <2>11. p.key = t
    <3>1. [key |-> p.key, from |-> u] = [key |-> t, from |-> w]
      BY <2>8, <2>10
    <3> QED  BY <3>1
  <2>12. v \in p.to
    BY <2>8, <2>10, Paths
  <2> QED  BY <2>4, <2>10, <2>11, <2>12 DEF w, t, v
<1> QED  BY <1>1, <1>2, <1>4, <1>5, <1>6 DEF TheFeed!Die

LEMMA StepRefines ==
  ASSUME IInv, [Next]_vars
  PROVE  [TheFeed!Next]_(TheFeed!feedVars)
<1>1. ASSUME docs' = docs, posted' = posted, lost' = lost PROVE UNCHANGED TheFeed!feedVars
  BY <1>1, SameDocuments
<1>2. ASSUME NEW u \in User, NEW v \in User, AgreeClicked(u, v)
      PROVE  UNCHANGED TheFeed!feedVars
  BY <1>1, <1>2 DEF AgreeClicked, Queue, LocallyWrite
<1>3. ASSUME NEW u \in User, OpenDiscover(u) \/ FriendsCallback(u) \/ BlogCallback(u)
      PROVE  UNCHANGED TheFeed!feedVars
  BY <1>1, <1>3 DEF OpenDiscover, FriendsCallback, BlogCallback, clientVars
<1>4. ASSUME NEW u \in User, PersistWrite(u) \/ WriteAnswered(u) \/ StreamBroken(u)
      PROVE  UNCHANGED TheFeed!feedVars
  BY <1>1, <1>4 DEF PersistWrite, Persist, WriteAnswered, Acknowledge, StreamBroken, RestartStream
<1>7. ASSUME NEW u \in User, Relaunch(u) PROVE TheFeed!Next
  BY <1>7, KillRefines DEF TheFeed!Next
<1>5. ASSUME NEW u \in User, NEW p \in BlogPath, ReceiveSnapshot(u, p)
      PROVE  UNCHANGED TheFeed!feedVars
  BY <1>1, <1>5 DEF ReceiveSnapshot, Watch
<1>6. CASE UNCHANGED vars
  BY <1>1, <1>6 DEF vars, clientVars
<1> QED  BY <1>2, <1>3, <1>4, <1>5, <1>6, <1>7, SendPublishes, CommitRefines DEF Next

LEMMA InitRefines == Init => TheFeed!Init
<1> SUFFICES ASSUME Init PROVE TheFeed!Init
  OBVIOUS
<1>1. docs = [p \in BlogPath |-> {}] /\ posted = {}
  BY DEF Init, FsInit
<1>2. Lists = {} /\ Cut = {}
  <2>1. \A u \in User : \A v \in User \ {u} : docs[Friends(u, v)] = {}
    BY <1>1, Paths
  <2>2. \A pair \in User \X User : pair[1] # pair[2] => docs[Friends(pair[1], pair[2])] = {}
    BY <2>1
  <2>3. \A u \in User : lost[u] = {}
    BY DEF Init
  <2> QED  BY <2>2, <2>3 DEF Lists, Exists, Cut, CopyLost
<1>3. \A u \in User : docs[MyBlog(u)] = {} /\ docs[FriendBlog(u)] = {}
  BY <1>1, Paths
<1> QED  BY <1>1, <1>2, <1>3 DEF TheFeed!Init, KeysOf

\* Discover does what Feed allows: a post reaches nobody before its author's
\* blog, nobody but those it was sent to, and nobody whom the author does not
\* list as a friend at the backend by then; no list, blog or feed loses
\* anything, and only a kill of the author's own app cuts copies off a post.
THEOREM FeedIsSafe == Spec => TheFeed!Spec
  BY InitRefines, StepRefines, InvHolds, PTL DEF Spec, TheFeed!Spec
=============================================================================
