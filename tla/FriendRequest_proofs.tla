------------------------ MODULE FriendRequest_proofs ------------------------
(***************************************************************************)
(* What FriendRequest promises, for any number of users and any bounds:    *)
(* its types, that a pending request can be answered, that friendship is   *)
(* mutual, and that nobody becomes a friend without consent.               *)
(***************************************************************************)
EXTENDS FriendRequest, TLAPS

Lemmas == INSTANCE FirestoreLemmas WITH
  Device <- User, Path <- FriendPath, Field <- {Data}
-----------------------------------------------------------------------------
(***************************************************************************)
(* The steps of the client, as every action of the screens takes them.     *)
(***************************************************************************)
Restart(u) ==
  /\ applied' = [applied EXCEPT ![u] = 0]
  /\ caughtUp' = [caughtUp EXCEPT ![u] = {}]
  /\ UNCHANGED <<docs, remoteDocs, mutationQueue, persisted>>

Kill(u) ==
  /\ mutationQueue' = [mutationQueue EXCEPT ![u] = OnDisk(u)]
  /\ applied' = [applied EXCEPT ![u] = 0]
  /\ caughtUp' = [caughtUp EXCEPT ![u] = {}]
  /\ lost' = [lost EXCEPT ![u] = @ \cup CutOff(u)]
  /\ UNCHANGED <<docs, remoteDocs, persisted>>

ClientStep ==
  \/ \E u \in User, mutations \in Seq(Mutation) : LocallyWrite(u, mutations)
  \/ \E u \in User : Persist(u) \/ Commit(u) \/ Acknowledge(u) \/ Restart(u) \/ Kill(u)
  \/ \E u \in User, p \in FriendPath : Watch(u, p)
  \/ UNCHANGED clientVars

\* The client's types, stated here and in FirestoreLemmas, are the same.
LEMMA SameTypes ==
  /\ Lemmas!FirestoreAssumption
  /\ Lemmas!Document = Document
  /\ Lemmas!Mutation = Mutation
  /\ Lemmas!FsTypeOK <=> FsTypeOK
  /\ (Lemmas!FsTypeOK)' <=> FsTypeOK'
<1>1. Lemmas!FirestoreAssumption
  BY DEF Lemmas!FirestoreAssumption, Data
<1>2. Lemmas!Document = Document
  BY DEF Lemmas!Document, Document
<1>3. Lemmas!Mutation = Mutation
  BY <1>2 DEF Lemmas!Mutation, Mutation
<1> QED  BY <1>1, <1>2, <1>3 DEF Lemmas!FsTypeOK, FsTypeOK

LEMMA SameKill ==
  ASSUME FsTypeOK, NEW u \in User, Kill(u)
  PROVE  Lemmas!Killed({u})
<1>1. PICK disk : disk = OnDisk(u)
  OBVIOUS
<1>2. Lemmas!OnDisk(u) = disk
  BY <1>1 DEF OnDisk, Lemmas!OnDisk
<1>3. mutationQueue' = [mutationQueue EXCEPT ![u] = disk]
  BY <1>1 DEF Kill
<1>4. /\ mutationQueue \in [User -> Seq(Mutation)]
      /\ applied \in [User -> Nat] /\ caughtUp \in [User -> SUBSET Nat]
  BY DEF FsTypeOK
<1>5. mutationQueue' = [d \in User |-> IF d \in {u} THEN Lemmas!OnDisk(d) ELSE mutationQueue[d]]
  BY <1>2, <1>3, <1>4
<1>6. /\ applied' = [d \in User |-> IF d \in {u} THEN 0 ELSE applied[d]]
      /\ caughtUp' = [d \in User |-> IF d \in {u} THEN {} ELSE caughtUp[d]]
  BY <1>4 DEF Kill
<1> QED  BY <1>5, <1>6 DEF Kill, Lemmas!Killed

\* Every step of the client keeps its types.
LEMMA ClientStepType ==
  ASSUME FsTypeOK, ClientStep
  PROVE  FsTypeOK'
<1> USE SameTypes
<1>1. ASSUME NEW u \in User, NEW mutations \in Seq(Mutation), LocallyWrite(u, mutations)
      PROVE  FsTypeOK'
  <2>1. Lemmas!LocallyWrite(u, mutations)
    BY <1>1 DEF LocallyWrite, Lemmas!LocallyWrite
  <2> QED  BY <1>1, <2>1, Lemmas!LocallyWriteType
<1>2. ASSUME NEW u \in User, Commit(u) PROVE FsTypeOK'
  <2>1. Lemmas!Commit(u)
    BY <1>2 DEF Commit, Lemmas!Commit, ApplyTo, Lemmas!ApplyTo,
                Overwrites, Lemmas!Overwrites
  <2> QED  BY <2>1, Lemmas!CommitType
<1>3. ASSUME NEW u \in User, Acknowledge(u) PROVE FsTypeOK'
  <2>1. Lemmas!Acknowledge(u)
    BY <1>3 DEF Acknowledge, Lemmas!Acknowledge, ApplyTo, Lemmas!ApplyTo,
                Overwrites, Lemmas!Overwrites
  <2> QED  BY <2>1, Lemmas!AcknowledgeType
<1>4. ASSUME NEW u \in User, Restart(u) PROVE FsTypeOK'
  BY <1>4, Lemmas!RestartStreamType DEF Restart
<1>5. ASSUME NEW u \in User, NEW p \in FriendPath, Watch(u, p) PROVE FsTypeOK'
  <2>1. Lemmas!Watch(u, p)
    BY <1>5 DEF Watch, Lemmas!Watch, CommittedOn, Lemmas!CommittedOn
  <2> QED  BY <2>1, Lemmas!WatchType
<1>6. CASE UNCHANGED clientVars
  BY <1>6 DEF clientVars, FsTypeOK
<1>7. ASSUME NEW u \in User, Persist(u) PROVE FsTypeOK'
  <2>1. Lemmas!Persist(u)
    BY <1>7 DEF Persist, Lemmas!Persist
  <2> QED  BY <2>1, Lemmas!PersistType
<1>8. ASSUME NEW u \in User, Kill(u) PROVE FsTypeOK'
  <2>1. Lemmas!Killed({u})
    BY <1>8, SameKill
  <2> QED  BY <2>1, Lemmas!KilledType
<1> QED  BY <1>1, <1>2, <1>3, <1>4, <1>5, <1>6, <1>7, <1>8 DEF ClientStep

\* The writes of a tap are mutations.
LEMMA WritesType ==
  ASSUME NEW u \in User, NEW v \in User
  PROVE  /\ RequestWrites(u, v) \in Seq(Mutation)
         /\ DeclineWrites(u, v) \in Seq(Mutation)
         /\ AgreeWrites(u, v) \in Seq(Mutation)
<1>1. \A p \in FriendPath : Set(p) \in Mutation /\ Delete(p) \in Mutation
  BY DEF Set, Delete, Mutation, Document
<1>2. \A x, y \in User : /\ RequestTo(x, y) \in FriendPath
                         /\ RequestFrom(x, y) \in FriendPath
                         /\ Friends(x, y) \in FriendPath
  BY DEF RequestTo, RequestFrom, Friends, FriendPath
<1> QED  BY <1>1, <1>2 DEF RequestWrites, DeclineWrites, AgreeWrites

\* Every step of FriendRequest is, as the client sees it, a client step.
LEMMA NextIsClientStep ==
  ASSUME TypeOK, [Next]_vars
  PROVE  ClientStep
<1>1. CASE UNCHANGED vars
  BY <1>1 DEF vars, ClientStep
<1>2. ASSUME NEW u \in User, NEW v \in User, SendFriendRequest(u, v) PROVE ClientStep
  BY <1>2, WritesType DEF SendFriendRequest, ClientStep
<1>3. ASSUME NEW u \in User,
             ShowRequests(u) \/ RequestsCallback(u) \/ \E v \in User : SelectRequest(u, v)
      PROVE  ClientStep
  BY <1>3 DEF ShowRequests, RequestsCallback, SelectRequest, ClientStep
<1>4. ASSUME NEW u \in User, AgreeClicked(u) \/ DisagreeClicked(u) PROVE ClientStep
  <2>1. friendSelectedInformation[u] # NoOne => friendSelectedInformation[u] \in User
    BY DEF TypeOK
  <2> QED  BY <1>4, <2>1, WritesType DEF AgreeClicked, DisagreeClicked, ClientStep
<1>5. ASSUME NEW u \in User, PersistWrite(u) \/ CommitWrite(u) \/ WriteAnswered(u)
      PROVE  ClientStep
  BY <1>5 DEF PersistWrite, CommitWrite, WriteAnswered, ClientStep
<1>6. ASSUME NEW u \in User, NEW p \in FriendPath, ReceiveSnapshot(u, p) PROVE ClientStep
  BY <1>6 DEF ReceiveSnapshot, ClientStep
<1>7. ASSUME NEW u \in User, StreamBroken(u) PROVE ClientStep
  BY <1>7 DEF StreamBroken, RestartStream, Restart, ClientStep
<1>8. ASSUME NEW u \in User, Relaunch(u) PROVE ClientStep
  BY <1>8 DEF Relaunch, FreshProcess, Kill, ClientStep
<1> QED  BY <1>1, <1>2, <1>3, <1>4, <1>5, <1>6, <1>7, <1>8 DEF Next
-----------------------------------------------------------------------------
(***************************************************************************)
(* Types.                                                                  *)
(***************************************************************************)
LEMMA InitType == Init => TypeOK
<1>1. FsInit => FsTypeOK
  BY SameTypes, Lemmas!FsInitType DEF FsInit, Lemmas!FsInit
<1> QED  BY <1>1 DEF Init, TypeOK

LEMMA NextType ==
  ASSUME TypeOK, [Next]_vars
  PROVE  TypeOK'
<1>1. FsTypeOK'
  BY NextIsClientStep, ClientStepType DEF TypeOK
<1> DEFINE ScreenTypeOK ==
      /\ friendRequestInformation \in [User -> SUBSET User]
      /\ rows \in [User -> SUBSET User]
      /\ friendSelectedInformation \in [User -> User \cup {NoOne}]
      /\ asked \in [User \X User -> Nat]
      /\ agreed \subseteq User \X User
      /\ lost \in [User -> SUBSET Mutation]
      /\ faults \in [User -> Nat]
<1>2. ScreenTypeOK
  BY DEF TypeOK
<1>3. UNCHANGED vars => ScreenTypeOK'
  BY <1>2 DEF vars, screenVars
<1>4. ASSUME NEW u \in User, NEW v \in User, SendFriendRequest(u, v) \/ SelectRequest(u, v)
      PROVE  ScreenTypeOK'
  BY <1>2, <1>4 DEF SendFriendRequest, SelectRequest, screenVars
<1>5. ASSUME NEW u \in User, ShowRequests(u) \/ RequestsCallback(u) PROVE ScreenTypeOK'
  BY <1>2, <1>5 DEF ShowRequests, RequestsCallback, Listed
<1>6. ASSUME NEW u \in User, AgreeClicked(u) \/ DisagreeClicked(u) PROVE ScreenTypeOK'
  BY <1>2, <1>6 DEF AgreeClicked, DisagreeClicked
<1>7. ASSUME NEW u \in User, PersistWrite(u) \/ CommitWrite(u) \/ WriteAnswered(u)
      PROVE  ScreenTypeOK'
  BY <1>2, <1>7 DEF PersistWrite, CommitWrite, WriteAnswered, screenVars
<1>8. ASSUME NEW u \in User, NEW p \in FriendPath, ReceiveSnapshot(u, p) PROVE ScreenTypeOK'
  BY <1>2, <1>8 DEF ReceiveSnapshot, screenVars
<1>9. ASSUME NEW u \in User, StreamBroken(u) \/ Relaunch(u) PROVE ScreenTypeOK'
  <2>1. faults' \in [User -> Nat]
    BY <1>2, <1>9 DEF StreamBroken, Relaunch, FreshProcess, Fault
  <2>2. CASE StreamBroken(u)
    BY <1>2, <2>1, <2>2 DEF StreamBroken, screenVars
  <2>3. CASE Relaunch(u)
    <3>1. mutationQueue[u] \in Seq(Mutation) /\ persisted[u] \in Nat
      BY DEF TypeOK, FsTypeOK
    <3>2. \A i \in (persisted[u] + 1)..Len(mutationQueue[u]) : mutationQueue[u][i] \in Mutation
      BY <3>1
    <3>3. CutOff(u) \subseteq Mutation
      BY <3>2 DEF CutOff
    <3>4. lost' \in [User -> SUBSET Mutation]
      BY <1>2, <2>3, <3>3 DEF Relaunch, FreshProcess
    <3> QED  BY <1>2, <2>1, <2>3, <3>4 DEF Relaunch, FreshProcess
  <2> QED  BY <1>9, <2>2, <2>3
<1>10. ScreenTypeOK'
  BY <1>3, <1>4, <1>5, <1>6, <1>7, <1>8, <1>9 DEF Next
<1> QED  BY <1>1, <1>10 DEF TypeOK

\* The types of FriendRequest: a device's queue holds writes to documents
\* of the request protocol, of which a prefix is committed, whatever the
\* users tap, however often streams break and apps are killed, and wherever a
\* kill cuts the queue.
THEOREM TypeCorrect == Spec => []TypeOK
<1>1. TypeOK /\ [Next]_vars => TypeOK'
  BY NextType
<1> QED  BY <1>1, InitType, PTL DEF Spec
-----------------------------------------------------------------------------
(***************************************************************************)
(* The queues.                                                             *)
(***************************************************************************)
\* The names of documents and writes are distinct.
LEMMA Distinct ==
  /\ \A p, q : /\ Set(p) = Set(q) <=> p = q
               /\ Delete(p) = Delete(q) <=> p = q
               /\ Set(p) # Delete(q)
  /\ \A a, b, c, d : /\ RequestTo(a, b) = RequestTo(c, d) <=> a = c /\ b = d
                     /\ RequestFrom(a, b) = RequestFrom(c, d) <=> a = c /\ b = d
                     /\ Friends(a, b) = Friends(c, d) <=> a = c /\ b = d
                     /\ RequestTo(a, b) # RequestFrom(c, d)
                     /\ RequestTo(a, b) # Friends(c, d)
                     /\ RequestFrom(a, b) # Friends(c, d)
<1>1. ASSUME NEW p, NEW q
      PROVE  /\ Set(p) = Set(q) <=> p = q
             /\ Delete(p) = Delete(q) <=> p = q
             /\ Set(p) # Delete(q)
  BY DEF Set, Delete
<1>2. ASSUME NEW a, NEW b, NEW c, NEW d
      PROVE  /\ RequestTo(a, b) = RequestTo(c, d) <=> a = c /\ b = d
             /\ RequestFrom(a, b) = RequestFrom(c, d) <=> a = c /\ b = d
             /\ Friends(a, b) = Friends(c, d) <=> a = c /\ b = d
             /\ RequestTo(a, b) # RequestFrom(c, d)
             /\ RequestTo(a, b) # Friends(c, d)
             /\ RequestFrom(a, b) # Friends(c, d)
  BY DEF RequestTo, RequestFrom, Friends
<1> QED  BY <1>1, <1>2

\* The parts of a write.
LEMMA Parts ==
  \A p : /\ Set(p).path = p /\ Set(p).fields # {}
         /\ Delete(p).path = p /\ Delete(p).fields = {}
<1> TAKE p
<1>1. Set(p).path = p /\ Set(p).fields = {Data}
  BY DEF Set
<1>2. Delete(p).path = p /\ Delete(p).fields = {}
  BY DEF Delete
<1> QED  BY <1>1, <1>2

\* What user w may tap about user v.
Taps(w, v) == {RequestWrites(w, v), DeclineWrites(w, v), AgreeWrites(w, v)}

\* What is lost stays lost.
LEMMA LostGrows ==
  ASSUME TypeOK, [Next]_vars, NEW u \in User
  PROVE  lost[u] \subseteq lost'[u]
<1>1. ASSUME NEW w \in User, Relaunch(w) PROVE lost[u] \subseteq lost'[u]
  BY <1>1 DEF Relaunch, FreshProcess, TypeOK
<1>2. lost' = lost \/ \E w \in User : Relaunch(w)
  BY DEF Next, vars, SendFriendRequest, ShowRequests, SelectRequest, AgreeClicked,
         DisagreeClicked, RequestsCallback, PersistWrite, CommitWrite, WriteAnswered,
         ReceiveSnapshot, StreamBroken
<1> QED  BY <1>1, <1>2

\* A kill cuts the queue at one place, and counts what is behind it as lost.
IsCut(w) ==
  /\ Len(mutationQueue'[w]) \in Nat
  /\ \A i \in 1..Len(mutationQueue'[w]) :
       i \in 1..Len(mutationQueue[w]) /\ mutationQueue'[w][i] = mutationQueue[w][i]
  /\ \A i \in 1..Len(mutationQueue[w]) :
       i \in 1..Len(mutationQueue'[w]) \/ mutationQueue[w][i] \in lost'[w]

LEMMA KillCuts ==
  ASSUME TypeOK, NEW u \in User, Kill(u), NEW w \in User
  PROVE  IsCut(w)
<1>1. Lemmas!FsTypeOK /\ Lemmas!Killed({u})
  BY SameTypes, SameKill DEF TypeOK
<1>2. w = u => CutOff(u) \subseteq lost'[w]
  BY DEF Kill, TypeOK
<1>3. Lemmas!CutOff(u) = CutOff(u)
  BY DEF CutOff, Lemmas!CutOff
<1>4. \A i \in 1..Len(mutationQueue[w]) :
        \/ i \in 1..Len(mutationQueue'[w])
        \/ w \in {u} /\ mutationQueue[w][i] \in Lemmas!CutOff(w)
  BY <1>1, SameTypes, Lemmas!KilledQueues
<1>5. \A i \in 1..Len(mutationQueue'[w]) :
        i \in 1..Len(mutationQueue[w]) /\ mutationQueue'[w][i] = mutationQueue[w][i]
  BY <1>1, SameTypes, Lemmas!KilledQueues
<1>6. Len(mutationQueue'[w]) \in Nat
  BY <1>1, SameTypes, Lemmas!KilledQueues
<1> QED  BY <1>2, <1>3, <1>4, <1>5, <1>6 DEF IsCut

\* A step leaves a queue alone, takes its head, cuts it, or appends the writes
\* of one tap of its user.
LEMMA QueueStep ==
  ASSUME TypeOK, [Next]_vars, NEW w \in User
  PROVE  \/ mutationQueue'[w] = mutationQueue[w]
         \/ /\ mutationQueue[w] # << >>
            /\ mutationQueue'[w] = Tail(mutationQueue[w])
         \/ IsCut(w)
         \/ \E v \in User : \E r \in Taps(w, v) :
              mutationQueue'[w] = mutationQueue[w] \o r
<1> DEFINE Goal ==
      \/ mutationQueue'[w] = mutationQueue[w]
      \/ /\ mutationQueue[w] # << >>
         /\ mutationQueue'[w] = Tail(mutationQueue[w])
      \/ IsCut(w)
      \/ \E v \in User : \E r \in Taps(w, v) :
           mutationQueue'[w] = mutationQueue[w] \o r
<1>1. UNCHANGED mutationQueue => Goal
  OBVIOUS
<1>2. mutationQueue \in [User -> Seq(Mutation)]
  BY DEF TypeOK, FsTypeOK
<1>3. ASSUME NEW u \in User, NEW v \in User, SendFriendRequest(u, v) PROVE Goal
  BY <1>2, <1>3 DEF SendFriendRequest, LocallyWrite, Taps
<1>4. ASSUME NEW u \in User, AgreeClicked(u) \/ DisagreeClicked(u) PROVE Goal
  <2>1. friendSelectedInformation[u] # NoOne => friendSelectedInformation[u] \in User
    BY DEF TypeOK
  <2> QED  BY <1>2, <1>4, <2>1 DEF AgreeClicked, DisagreeClicked, LocallyWrite, Taps
<1>5. ASSUME NEW u \in User, Acknowledge(u) PROVE Goal
  <2>1. Len(mutationQueue[u]) > 0
    BY <1>5 DEF Acknowledge, TypeOK, FsTypeOK
  <2> QED  BY <1>2, <1>5, <2>1 DEF Acknowledge
<1>7. ASSUME NEW u \in User, Relaunch(u) PROVE Goal
  <2>1. Kill(u)
    BY <1>7 DEF Relaunch, FreshProcess, Kill
  <2> QED  BY <2>1, KillCuts
<1>6. UNCHANGED mutationQueue
      \/ \E u \in User : \/ \E v \in User : SendFriendRequest(u, v)
                         \/ AgreeClicked(u) \/ DisagreeClicked(u) \/ Acknowledge(u)
                         \/ Relaunch(u)
  BY DEF Next, vars, clientVars, ShowRequests, SelectRequest, RequestsCallback, PersistWrite,
         Persist, CommitWrite, Commit, WriteAnswered, ReceiveSnapshot, Watch, StreamBroken,
         RestartStream
<1> QED  BY <1>1, <1>3, <1>4, <1>5, <1>6, <1>7

\* Wherever m is in the queue q, n is the next write.
Followed(q, m, n) ==
  \A i \in 1..Len(q) : q[i] = m => i + 1 \in 1..Len(q) /\ q[i + 1] = n

\* Followed survives taking the head and appending a tap that satisfies it.
LEMMA FollowedTail ==
  ASSUME NEW q \in Seq(Mutation), q # << >>, NEW m, NEW n, Followed(q, m, n)
  PROVE  Followed(Tail(q), m, n)
  BY DEF Followed

LEMMA FollowedConcat ==
  ASSUME NEW q \in Seq(Mutation), NEW r \in Seq(Mutation), NEW m, NEW n,
         Followed(q, m, n), Followed(r, m, n)
  PROVE  Followed(q \o r, m, n)
<1> SUFFICES ASSUME NEW i \in 1..Len(q \o r), (q \o r)[i] = m
             PROVE  i + 1 \in 1..Len(q \o r) /\ (q \o r)[i + 1] = n
  BY DEF Followed
<1>1. CASE i <= Len(q)
  BY <1>1 DEF Followed
<1>2. CASE i > Len(q)
  <2>1. i - Len(q) \in 1..Len(r) /\ r[i - Len(q)] = m
    BY <1>2
  <2> QED  BY <2>1 DEF Followed
<1> QED  BY <1>1, <1>2

\* The writes user w queues on account of user v.
Protocol(w, v) ==
  {Set(RequestTo(w, v)), Set(RequestFrom(v, w)), Delete(RequestFrom(w, v)),
   Delete(RequestTo(v, w)), Set(Friends(w, v)), Set(Friends(v, w))}

\* Queues hold only writes of the protocol, in the order of the taps, but for
\* what a kill has cut off.
FollowedOrLost(w, m, n) == Followed(mutationQueue[w], m, n) \/ n \in lost[w]

QueueShape ==
  \A w \in User :
    /\ \A i \in 1..Len(mutationQueue[w]) : \E v \in User : mutationQueue[w][i] \in Protocol(w, v)
    /\ \A v \in User :
         /\ FollowedOrLost(w, Set(RequestTo(w, v)), Set(RequestFrom(v, w)))
         /\ FollowedOrLost(w, Delete(RequestFrom(w, v)), Delete(RequestTo(v, w)))
         /\ v # w => FollowedOrLost(w, Set(Friends(w, v)), Set(Friends(v, w)))

\* Each tap queues its writes in that order.
LEMMA TapShape ==
  ASSUME NEW w \in User, NEW x \in User,
         NEW r \in Taps(w, x)
  PROVE  /\ \A i \in 1..Len(r) : r[i] \in Protocol(w, x)
         /\ \A v \in User :
              /\ Followed(r, Set(RequestTo(w, v)), Set(RequestFrom(v, w)))
              /\ Followed(r, Delete(RequestFrom(w, v)), Delete(RequestTo(v, w)))
              /\ v # w => Followed(r, Set(Friends(w, v)), Set(Friends(v, w)))
<1>1. CASE r = RequestWrites(w, x)
  <2>1. Len(r) = 2 /\ r[1] = Set(RequestTo(w, x)) /\ r[2] = Set(RequestFrom(x, w))
    BY <1>1 DEF RequestWrites
  <2> QED  BY <2>1, Distinct DEF Followed, Protocol
<1>2. CASE r = DeclineWrites(w, x)
  <2>1. Len(r) = 2 /\ r[1] = Delete(RequestFrom(w, x)) /\ r[2] = Delete(RequestTo(x, w))
    BY <1>2 DEF DeclineWrites
  <2> QED  BY <2>1, Distinct DEF Followed, Protocol
<1>3. CASE r = AgreeWrites(w, x)
  <2>1. /\ Len(r) = 4
        /\ r[1] = Delete(RequestFrom(w, x)) /\ r[2] = Delete(RequestTo(x, w))
        /\ r[3] = Set(Friends(w, x)) /\ r[4] = Set(Friends(x, w))
    BY <1>3 DEF AgreeWrites, DeclineWrites
  <2> QED  BY <2>1, Distinct DEF Followed, Protocol
<1> QED  BY <1>1, <1>2, <1>3 DEF Taps

LEMMA QueueShapeInit == Init => QueueShape
  BY DEF Init, FsInit, QueueShape, FollowedOrLost, Followed

LEMMA FollowedNext ==
  ASSUME TypeOK, [Next]_vars, NEW w \in User, NEW m, NEW n, FollowedOrLost(w, m, n),
         \A x \in User : \A r \in Taps(w, x) : Followed(r, m, n)
  PROVE  Followed(mutationQueue'[w], m, n) \/ n \in lost'[w]
<1> SUFFICES ASSUME n \notin lost'[w] PROVE Followed(mutationQueue'[w], m, n)
  OBVIOUS
<1>1. PICK q \in Seq(Mutation) : q = mutationQueue[w]
  BY DEF TypeOK, FsTypeOK
<1>2. Followed(q, m, n)
  BY <1>1, LostGrows DEF FollowedOrLost
<1>3. CASE mutationQueue'[w] = q
  BY <1>2, <1>3
<1>4. CASE q # << >> /\ mutationQueue'[w] = Tail(q)
  BY <1>2, <1>4, FollowedTail
<1>5. CASE IsCut(w)
  <2> SUFFICES ASSUME NEW i \in 1..Len(mutationQueue'[w]), mutationQueue'[w][i] = m
               PROVE  i + 1 \in 1..Len(mutationQueue'[w]) /\ mutationQueue'[w][i + 1] = n
    BY DEF Followed
  <2>1. i \in 1..Len(q) /\ q[i] = m
    BY <1>1, <1>5 DEF IsCut
  <2>2. i + 1 \in 1..Len(q) /\ q[i + 1] = n
    BY <1>2, <2>1 DEF Followed
  <2> QED  BY <1>1, <1>5, <2>2 DEF IsCut
<1>6. ASSUME NEW x \in User, NEW r \in Taps(w, x), mutationQueue'[w] = q \o r
      PROVE  Followed(mutationQueue'[w], m, n)
  <2>1. r \in Seq(Mutation)
    BY <1>6, WritesType DEF Taps
  <2> QED  BY <1>2, <1>6, <2>1, FollowedConcat
<1> QED  BY <1>1, <1>3, <1>4, <1>5, <1>6, QueueStep

LEMMA ProtocolNext ==
  ASSUME TypeOK, QueueShape, [Next]_vars, NEW w \in User, NEW i \in 1..Len(mutationQueue'[w])
  PROVE  \E v \in User : mutationQueue'[w][i] \in Protocol(w, v)
<1>1. PICK q \in Seq(Mutation) : q = mutationQueue[w]
  BY DEF TypeOK, FsTypeOK
<1>2. ASSUME NEW j \in 1..Len(q), mutationQueue'[w][i] = q[j]
      PROVE  \E v \in User : mutationQueue'[w][i] \in Protocol(w, v)
  BY <1>1, <1>2 DEF QueueShape
<1>3. CASE mutationQueue'[w] = q
  BY <1>2, <1>3
<1>4. CASE q # << >> /\ mutationQueue'[w] = Tail(q)
  <2>1. i + 1 \in 1..Len(q) /\ Tail(q)[i] = q[i + 1]
    BY <1>4
  <2> QED  BY <1>2, <1>4, <2>1
<1>5. CASE IsCut(w)
  BY <1>1, <1>2, <1>5 DEF IsCut
<1>6. ASSUME NEW x \in User, NEW r \in Taps(w, x), mutationQueue'[w] = q \o r
      PROVE  \E v \in User : mutationQueue'[w][i] \in Protocol(w, v)
  <2>1. r \in Seq(Mutation)
    BY <1>6, WritesType DEF Taps
  <2>2. \/ i \in 1..Len(q) /\ (q \o r)[i] = q[i]
        \/ i - Len(q) \in 1..Len(r) /\ (q \o r)[i] = r[i - Len(q)]
    BY <1>6, <2>1, SameTypes, Lemmas!ConcatQueues
  <2>3. CASE i - Len(q) \in 1..Len(r) /\ (q \o r)[i] = r[i - Len(q)]
    <3>1. r[i - Len(q)] \in Protocol(w, x)
      BY <2>3, TapShape
    <3> QED  BY <1>6, <2>3, <3>1
  <2> QED  BY <1>2, <1>6, <2>2, <2>3
<1> QED  BY <1>1, <1>3, <1>4, <1>5, <1>6, QueueStep

LEMMA QueueShapeNext ==
  ASSUME TypeOK, QueueShape, [Next]_vars
  PROVE  QueueShape'
<1>1. ASSUME NEW w \in User, NEW v \in User
      PROVE  /\ FollowedOrLost(w, Set(RequestTo(w, v)), Set(RequestFrom(v, w)))'
             /\ FollowedOrLost(w, Delete(RequestFrom(w, v)), Delete(RequestTo(v, w)))'
             /\ v # w => FollowedOrLost(w, Set(Friends(w, v)), Set(Friends(v, w)))'
  <2>1. ASSUME NEW m, NEW n
        PROVE  FollowedOrLost(w, m, n)' <=> Followed(mutationQueue'[w], m, n) \/ n \in lost'[w]
    BY DEF FollowedOrLost, Followed
  <2>2. \A x \in User : \A r \in Taps(w, x) :
          /\ Followed(r, Set(RequestTo(w, v)), Set(RequestFrom(v, w)))
          /\ Followed(r, Delete(RequestFrom(w, v)), Delete(RequestTo(v, w)))
          /\ v # w => Followed(r, Set(Friends(w, v)), Set(Friends(v, w)))
    BY TapShape
  <2>3. /\ FollowedOrLost(w, Set(RequestTo(w, v)), Set(RequestFrom(v, w)))
        /\ FollowedOrLost(w, Delete(RequestFrom(w, v)), Delete(RequestTo(v, w)))
        /\ v # w => FollowedOrLost(w, Set(Friends(w, v)), Set(Friends(v, w)))
    BY DEF QueueShape
  <2>4. FollowedOrLost(w, Set(RequestTo(w, v)), Set(RequestFrom(v, w)))'
    <3>1. PICK m, n : m = Set(RequestTo(w, v)) /\ n = Set(RequestFrom(v, w))
      OBVIOUS
    <3>2. FollowedOrLost(w, m, n) /\ \A x \in User : \A r \in Taps(w, x) : Followed(r, m, n)
      BY <2>2, <2>3, <3>1
    <3>3. FollowedOrLost(w, m, n)'
      BY <2>1, <3>2, FollowedNext
    <3> QED  BY <3>1, <3>3 DEF FollowedOrLost, Followed
  <2>5. FollowedOrLost(w, Delete(RequestFrom(w, v)), Delete(RequestTo(v, w)))'
    <3>1. PICK m, n : m = Delete(RequestFrom(w, v)) /\ n = Delete(RequestTo(v, w))
      OBVIOUS
    <3>2. FollowedOrLost(w, m, n) /\ \A x \in User : \A r \in Taps(w, x) : Followed(r, m, n)
      BY <2>2, <2>3, <3>1
    <3>3. FollowedOrLost(w, m, n)'
      BY <2>1, <3>2, FollowedNext
    <3> QED  BY <3>1, <3>3 DEF FollowedOrLost, Followed
  <2>6. ASSUME v # w PROVE FollowedOrLost(w, Set(Friends(w, v)), Set(Friends(v, w)))'
    <3>1. PICK m, n : m = Set(Friends(w, v)) /\ n = Set(Friends(v, w))
      OBVIOUS
    <3>2. FollowedOrLost(w, m, n) /\ \A x \in User : \A r \in Taps(w, x) : Followed(r, m, n)
      BY <2>2, <2>3, <2>6, <3>1
    <3>3. FollowedOrLost(w, m, n)'
      BY <2>1, <3>2, FollowedNext
    <3> QED  BY <3>1, <3>3 DEF FollowedOrLost, Followed
  <2> QED  BY <2>4, <2>5, <2>6
<1> QED  BY <1>1, ProtocolNext DEF QueueShape
-----------------------------------------------------------------------------
(***************************************************************************)
(* What is on the way: only a commit changes a document, and only a commit *)
(* takes a write off those that are not committed; a kill may lose it.     *)
(***************************************************************************)
LEMMA OnlyCommits ==
  ASSUME TypeOK, [Next]_vars
  PROVE  \/ \E w \in User : Commit(w)
         \/ /\ docs' = docs
            /\ \A u \in User : \A m : PendingOrLost(u, m) => PendingOrLost(u, m)'
<1>1. CASE \E w \in User : Commit(w)
  BY <1>1
<1>2. ASSUME NEW u \in User, NEW mutations \in Seq(Mutation), LocallyWrite(u, mutations)
      PROVE  /\ docs' = docs
             /\ \A w \in User : \A m : NotCommitted(w, m) => NotCommitted(w, m)'
  <2>1. SUFFICES ASSUME NEW w \in User, NEW i \in 1..Len(mutationQueue[w])
                 PROVE  i \in 1..Len(mutationQueue'[w]) /\ mutationQueue'[w][i] = mutationQueue[w][i]
    BY <1>2 DEF LocallyWrite, NotCommitted
  <2>2. mutationQueue \in [User -> Seq(Mutation)]
    BY DEF TypeOK, FsTypeOK
  <2>3. mutationQueue'[w] = IF w = u THEN mutationQueue[u] \o mutations ELSE mutationQueue[w]
    BY <1>2, <2>2 DEF LocallyWrite
  <2> QED  BY <2>2, <2>3
<1>3. ASSUME NEW u \in User, Acknowledge(u)
      PROVE  /\ docs' = docs
             /\ \A w \in User : \A m : NotCommitted(w, m) => NotCommitted(w, m)'
  <2>1. /\ mutationQueue \in [User -> Seq(Mutation)]
        /\ applied \in [User -> Nat]
        /\ Len(mutationQueue[u]) > 0
    BY <1>3 DEF Acknowledge, TypeOK, FsTypeOK
  <2>2. SUFFICES ASSUME NEW w \in User, NEW i \in 1..Len(mutationQueue[w]), i > applied[w]
                 PROVE  \E j \in 1..Len(mutationQueue'[w]) :
                          j > applied'[w] /\ mutationQueue'[w][j] = mutationQueue[w][i]
    BY <1>3 DEF Acknowledge, NotCommitted
  <2>3. CASE w # u
    BY <1>3, <2>1, <2>2, <2>3 DEF Acknowledge
  <2>4. CASE w = u
    <3>1. mutationQueue'[u] = Tail(mutationQueue[u]) /\ applied'[u] = applied[u] - 1 /\ applied[u] > 0
      BY <1>3, <2>1 DEF Acknowledge
    <3>2. /\ i - 1 \in 1..Len(Tail(mutationQueue[u]))
          /\ Tail(mutationQueue[u])[i - 1] = mutationQueue[u][i]
          /\ i - 1 > applied[u] - 1
      BY <2>1, <2>2, <2>4, <3>1
    <3> QED  BY <2>4, <3>1, <3>2
  <2> QED  BY <2>3, <2>4
<1>4. ASSUME NEW u \in User, Restart(u)
      PROVE  /\ docs' = docs
             /\ \A w \in User : \A m : NotCommitted(w, m) => NotCommitted(w, m)'
  <2>1. \A w \in User : applied'[w] <= applied[w] /\ applied[w] \in Nat /\ applied'[w] \in Nat
    BY <1>4 DEF Restart, TypeOK, FsTypeOK
  <2> QED  BY <1>4, <2>1 DEF Restart, NotCommitted
<1>5. ASSUME NEW u \in User, NEW p \in FriendPath, Watch(u, p)
      PROVE  /\ docs' = docs
             /\ \A w \in User : \A m : NotCommitted(w, m) => NotCommitted(w, m)'
  BY <1>5 DEF Watch, NotCommitted
<1>6. ASSUME UNCHANGED clientVars
      PROVE  /\ docs' = docs
             /\ \A w \in User : \A m : NotCommitted(w, m) => NotCommitted(w, m)'
  BY <1>6 DEF clientVars, NotCommitted
<1>7. ASSUME NEW u \in User, Persist(u)
      PROVE  /\ docs' = docs
             /\ \A w \in User : \A m : NotCommitted(w, m) => NotCommitted(w, m)'
  BY <1>7 DEF Persist, NotCommitted
<1>8. ASSUME NEW u \in User, Kill(u), NEW w \in User, NEW m, NotCommitted(w, m)
      PROVE  NotCommitted(w, m)' \/ m \in lost'[w]
  <2>1. IsCut(w)
    BY <1>8, KillCuts
  <2>2. PICK i \in 1..Len(mutationQueue[w]) : i > applied[w] /\ mutationQueue[w][i] = m
    BY <1>8 DEF NotCommitted
  <2>3. applied'[w] <= applied[w] /\ applied[w] \in Nat /\ applied'[w] \in Nat
    BY <1>8 DEF Kill, TypeOK, FsTypeOK
  <2>4. CASE i \in 1..Len(mutationQueue'[w])
    <3>1. i > applied'[w] /\ mutationQueue'[w][i] = m
      BY <2>1, <2>2, <2>3, <2>4 DEF IsCut
    <3> QED  BY <2>4, <3>1 DEF NotCommitted
  <2> QED  BY <2>1, <2>2, <2>4 DEF IsCut
<1>9. \A u \in User : lost[u] \subseteq lost'[u]
  BY LostGrows
<1>10. ASSUME \A w \in User : \A m : NotCommitted(w, m) => NotCommitted(w, m)' \/ m \in lost'[w]
       PROVE  \A w \in User : \A m : PendingOrLost(w, m) => PendingOrLost(w, m)'
  BY <1>9, <1>10 DEF PendingOrLost
<1>11. ASSUME NEW u \in User, Kill(u)
       PROVE  /\ docs' = docs
              /\ \A w \in User : \A m : PendingOrLost(w, m) => PendingOrLost(w, m)'
  BY <1>8, <1>10, <1>11 DEF Kill
<1> QED  BY <1>1, <1>2, <1>3, <1>4, <1>5, <1>6, <1>7, <1>10, <1>11, NextIsClientStep DEF ClientStep

\* Commit(w) carries out the next write m of w on one document, and m is all
\* that is not on the way any more.
Written(m) ==
  \A p \in FriendPath : /\ m = Set(p) => docs'[p] # {}
                        /\ m = Delete(p) => docs'[p] = {}
                        /\ m # Set(p) /\ m # Delete(p) => docs'[p] = docs[p]

OthersOnTheWay(w, m) ==
  \A u \in User : \A n : NotCommitted(u, n) => NotCommitted(u, n)' \/ (u = w /\ n = m)

NextOnTheWay(w, m) ==
  \A n : Followed(mutationQueue[w], m, n) => NotCommitted(w, n)'

CommitOf(w, m) ==
  /\ applied[w] + 1 \in 1..Len(mutationQueue[w])
  /\ mutationQueue[w][applied[w] + 1] = m
  /\ Written(m) /\ OthersOnTheWay(w, m) /\ NextOnTheWay(w, m)

LEMMA CommitEffect ==
  ASSUME TypeOK, QueueShape, NEW w \in User, Commit(w)
  PROVE  \E v \in User : \E m \in Protocol(w, v) : CommitOf(w, m)
<1> DEFINE i == applied[w] + 1
           m == mutationQueue[w][i]
<1>1. /\ applied \in [User -> Nat]
      /\ mutationQueue \in [User -> Seq(Mutation)]
      /\ mutationQueue' = mutationQueue
      /\ applied' = [applied EXCEPT ![w] = @ + 1]
      /\ i \in 1..Len(mutationQueue[w])
  BY DEF Commit, TypeOK, FsTypeOK
<1>2. PICK v \in User : m \in Protocol(w, v)
  BY <1>1 DEF QueueShape
<1>3. m.merge = FALSE
  BY <1>2 DEF Protocol, Set, Delete
<1>4. ApplyTo(m, docs[m.path]) = m.fields
  BY <1>3 DEF ApplyTo, Overwrites
<1>5. docs' = [docs EXCEPT ![m.path] = m.fields]
  BY <1>4 DEF Commit
<1>8. ASSUME NEW p \in FriendPath
      PROVE  /\ m = Set(p) => docs'[p] # {}
             /\ m = Delete(p) => docs'[p] = {}
             /\ m # Set(p) /\ m # Delete(p) => docs'[p] = docs[p]
  <2> HIDE DEF m
  <2>1. docs'[p] = IF m.path = p THEN m.fields ELSE docs[p]
    BY <1>5 DEF TypeOK, FsTypeOK
  <2>2. PICK q : m = Set(q) \/ m = Delete(q)
    BY <1>2 DEF Protocol
  <2> QED  BY <2>1, <2>2, Parts
<1>6. ASSUME NEW u \in User, NEW n, NotCommitted(u, n)
      PROVE  NotCommitted(u, n)' \/ (u = w /\ n = m)
  <2>1. PICK j \in 1..Len(mutationQueue[u]) : j > applied[u] /\ mutationQueue[u][j] = n
    BY <1>6 DEF NotCommitted
  <2>2. CASE u = w /\ j = i
    BY <2>1, <2>2
  <2>3. CASE ~(u = w /\ j = i)
    <3>1. j > applied'[u]
      BY <1>1, <2>1, <2>3
    <3> QED  BY <1>1, <2>1, <3>1 DEF NotCommitted
  <2> QED  BY <2>2, <2>3
<1>7. ASSUME NEW n, Followed(mutationQueue[w], m, n)
      PROVE  NotCommitted(w, n)'
  <2>1. /\ i + 1 > applied'[w]
        /\ i + 1 \in 1..Len(mutationQueue[w])
        /\ mutationQueue[w][i + 1] = n
    BY <1>1, <1>7 DEF Followed
  <2> QED  BY <1>1, <1>7, <2>1 DEF NotCommitted
<1>9. CommitOf(w, m)
  BY <1>1, <1>6, <1>7, <1>8 DEF CommitOf, Written, OthersOnTheWay, NextOnTheWay
<1> QED  BY <1>2, <1>9
-----------------------------------------------------------------------------
(***************************************************************************)
(* A pending request can be answered.  QueueShape makes it inductive: the  *)
(* half that is missing is the next write of the queue the step came from. *)
(***************************************************************************)
LEMMA AnswerNext ==
  ASSUME TypeOK, QueueShape, RequestCanBeAnswered, [Next]_vars
  PROVE  RequestCanBeAnswered'
<1>1. CASE /\ docs' = docs
           /\ \A u \in User : \A m : PendingOrLost(u, m) => PendingOrLost(u, m)'
  BY <1>1 DEF RequestCanBeAnswered, Exists
<1>2. ASSUME NEW w \in User, Commit(w)
      PROVE  RequestCanBeAnswered'
  <2>1. PICK x \in User : \E m \in Protocol(w, x) : CommitOf(w, m)
    BY <1>2, CommitEffect
  <2>2. PICK m \in Protocol(w, x) : Written(m) /\ OthersOnTheWay(w, m) /\ NextOnTheWay(w, m)
    BY <2>1 DEF CommitOf
  <2>3. SUFFICES ASSUME NEW u \in User, NEW v \in User, Exists(RequestTo(u, v))'
                 PROVE  \/ Exists(RequestFrom(v, u))'
                        \/ PendingOrLost(u, Set(RequestFrom(v, u)))'
                        \/ PendingOrLost(v, Delete(RequestTo(u, v)))'
    BY DEF RequestCanBeAnswered
  <2>4. RequestTo(u, v) \in FriendPath /\ RequestFrom(v, u) \in FriendPath
    BY DEF FriendPath, RequestTo, RequestFrom
  <2>5. m # Delete(RequestTo(u, v))
    BY <2>2, <2>3, <2>4 DEF Written, Exists
  <2>6. CASE m = Set(RequestTo(u, v))
    <3>1. w = u
      BY <2>6, Distinct DEF Protocol
    <3>2. FollowedOrLost(u, m, Set(RequestFrom(v, u)))
      BY <2>6 DEF QueueShape
    <3> QED  BY <2>2, <3>1, <3>2, LostGrows DEF NextOnTheWay, FollowedOrLost, PendingOrLost
  <2>7. CASE m = Delete(RequestFrom(v, u))
    <3>1. w = v
      BY <2>7, Distinct DEF Protocol
    <3>2. FollowedOrLost(v, m, Delete(RequestTo(u, v)))
      BY <2>7 DEF QueueShape
    <3> QED  BY <2>2, <3>1, <3>2, LostGrows DEF NextOnTheWay, FollowedOrLost, PendingOrLost
  <2>8. CASE m = Set(RequestFrom(v, u))
    BY <2>2, <2>4, <2>8 DEF Written, Exists
  <2>9. CASE m \notin {Set(RequestTo(u, v)), Set(RequestFrom(v, u)), Delete(RequestFrom(v, u))}
    <3>1. /\ docs'[RequestTo(u, v)] = docs[RequestTo(u, v)]
          /\ docs'[RequestFrom(v, u)] = docs[RequestFrom(v, u)]
      BY <2>2, <2>4, <2>5, <2>9, Distinct DEF Protocol, Written
    <3>2. \/ Exists(RequestFrom(v, u))
          \/ PendingOrLost(u, Set(RequestFrom(v, u)))
          \/ PendingOrLost(v, Delete(RequestTo(u, v)))
      BY <2>3, <3>1 DEF RequestCanBeAnswered, Exists
    <3> QED  BY <2>2, <2>5, <2>9, <3>1, <3>2, LostGrows DEF OthersOnTheWay, PendingOrLost, Exists
  <2> QED  BY <2>6, <2>7, <2>8, <2>9
<1> QED  BY <1>1, <1>2, OnlyCommits

\* A request that its sender sees as pending has its other half in place, or
\* on the way from the sender, or is about to be withdrawn by the receiver, or
\* one of these two writes was not on disk when its device was killed, for any
\* number of users, requests, answers, resends and kills.
THEOREM PendingRequestsAreAnswerable == Spec => []RequestCanBeAnswered
<1>1. Init => TypeOK /\ QueueShape /\ RequestCanBeAnswered
  <2>1. Init => RequestCanBeAnswered
    BY DEF Init, FsInit, RequestCanBeAnswered, Exists, RequestTo, FriendPath
  <2> QED  BY <2>1, InitType, QueueShapeInit
<1>2. /\ TypeOK /\ QueueShape /\ RequestCanBeAnswered
      /\ [Next]_vars
      => (TypeOK /\ QueueShape /\ RequestCanBeAnswered)'
  BY NextType, QueueShapeNext, AnswerNext
<1> QED  BY <1>1, <1>2, PTL DEF Spec
-----------------------------------------------------------------------------
(***************************************************************************)
(* Friendship is mutual.  It is made by two writes of one device; the      *)
(* invariant adds that the second is always queued behind the first, also  *)
(* when a broken stream sends both again and when a kill cuts the queue.   *)
(***************************************************************************)
\* Nothing takes a friend off a list.
FriendKeys == [p \in FriendPath |-> IF p.coll = "Friends" THEN {"username"} ELSE {}]

\* What w writes before it writes m.
OwnSide(w, m) ==
  IF m.path.coll = "Friends" /\ m.path.owner # w
  THEN {<<Friends(w, m.path.owner), "username">>}
  ELSE {}

OwnSideWrites == [w \in User |-> [m \in Mutation |-> OwnSide(w, m)]]

OwnSideFirst == Lemmas!KeysKept(FriendKeys) /\ Lemmas!InOrder(OwnSideWrites)

\* A friend is never removed.
LEMMA FriendsStay ==
  ASSUME TypeOK, QueueShape, [Next]_vars, NEW u \in User, NEW v \in User, Exists(Friends(u, v))
  PROVE  Exists(Friends(u, v))'
<1>1. ASSUME NEW w \in User, Commit(w) PROVE Exists(Friends(u, v))'
  <2>1. PICK x \in User : \E m \in Protocol(w, x) : CommitOf(w, m)
    BY <1>1, CommitEffect
  <2>2. PICK m \in Protocol(w, x) : Written(m)
    BY <2>1 DEF CommitOf
  <2>3. Friends(u, v) \in FriendPath
    BY DEF FriendPath, Friends
  <2>4. m # Delete(Friends(u, v))
    BY Distinct DEF Protocol
  <2> QED  BY <2>2, <2>3, <2>4 DEF Written, Exists
<1> QED  BY <1>1, OnlyCommits DEF Exists

LEMMA OwnSideKeys == Lemmas!KeysNeeded(OwnSideWrites, FriendKeys)
<1>1. ASSUME NEW w \in User, NEW m \in Mutation, NEW r \in OwnSideWrites[w][m]
      PROVE  r[1] \in FriendPath /\ r[2] \in FriendKeys[r[1]]
  <2>1. m.path \in FriendPath
    BY DEF Mutation
  <2>2. m.path.owner \in User
    BY <2>1 DEF FriendPath
  <2>3. PICK p : p = Friends(w, m.path.owner)
    OBVIOUS
  <2>4. p \in FriendPath /\ p.coll = "Friends"
    BY <2>2, <2>3 DEF Friends, FriendPath
  <2>5. FriendKeys[p] = {"username"}
    BY <2>4 DEF FriendKeys
  <2>6. r = <<p, "username">>
    BY <2>3 DEF OwnSideWrites, OwnSide
  <2> QED  BY <2>4, <2>5, <2>6
<1> QED  BY <1>1, SameTypes DEF Lemmas!KeysNeeded

\* The documents of the protocol.
LEMMA Paths ==
  \A u, v \in User : /\ RequestTo(u, v) \in FriendPath /\ RequestTo(u, v).coll = "FriendRequestTo"
                     /\ RequestFrom(u, v) \in FriendPath
                     /\ RequestFrom(u, v).coll = "FriendRequestFrom"
                     /\ Friends(u, v) \in FriendPath /\ Friends(u, v).coll = "Friends"
                     /\ Friends(u, v).owner = u
  BY DEF RequestTo, RequestFrom, Friends, FriendPath

\* No write of a tap takes a friend off a list, and the own side comes first.
LEMMA TapKeepsFriends ==
  ASSUME NEW w \in User, NEW x \in User, NEW r \in Taps(w, x), NEW i \in 1..Len(r)
  PROVE  /\ Lemmas!KeepsKeys(r[i], FriendKeys)
         /\ \A need \in OwnSide(w, r[i]) : Lemmas!Before({}, r, i, need[1], need[2])
<1>1. Data.key = "username"
  BY DEF Data
<1>2. \A p : Set(p).path = p /\ Lemmas!Has(Set(p).fields, "username")
  BY <1>1 DEF Set, Lemmas!Has
<1>3. \A p : Delete(p).path = p
  BY DEF Delete
<1>4. \A p \in FriendPath : /\ p.coll = "Friends" => FriendKeys[p] = {"username"}
                            /\ p.coll # "Friends" => FriendKeys[p] = {}
  BY DEF FriendKeys
<1>5. ASSUME NEW p \in FriendPath PROVE Lemmas!KeepsKeys(Set(p), FriendKeys)
  BY <1>2, <1>4 DEF Lemmas!KeepsKeys
<1>6. ASSUME NEW p \in FriendPath, p.coll # "Friends" PROVE Lemmas!KeepsKeys(Delete(p), FriendKeys)
  BY <1>3, <1>4, <1>6 DEF Lemmas!KeepsKeys
<1>7. ASSUME NEW p, p.coll # "Friends" PROVE OwnSide(w, Set(p)) = {} /\ OwnSide(w, Delete(p)) = {}
  BY <1>2, <1>3, <1>7 DEF OwnSide
<1>8. "FriendRequestTo" # "Friends" /\ "FriendRequestFrom" # "Friends"
  OBVIOUS
<1>9. CASE r = RequestWrites(w, x)
  <2>1. r[i] = Set(RequestTo(w, x)) \/ r[i] = Set(RequestFrom(x, w))
    BY <1>9 DEF RequestWrites
  <2> QED  BY <1>5, <1>7, <1>8, <2>1, Paths
<1>10. CASE r = DeclineWrites(w, x)
  <2>1. r[i] = Delete(RequestFrom(w, x)) \/ r[i] = Delete(RequestTo(x, w))
    BY <1>10 DEF DeclineWrites
  <2> QED  BY <1>6, <1>7, <1>8, <2>1, Paths
<1>11. CASE r = AgreeWrites(w, x)
  <2>1. /\ Len(r) = 4
        /\ r[1] = Delete(RequestFrom(w, x)) /\ r[2] = Delete(RequestTo(x, w))
        /\ r[3] = Set(Friends(w, x)) /\ r[4] = Set(Friends(x, w))
    BY <1>11 DEF AgreeWrites, DeclineWrites
  <2>2. CASE i \in {1, 2}
    <3>1. r[i] = Delete(RequestFrom(w, x)) \/ r[i] = Delete(RequestTo(x, w))
      BY <2>1, <2>2
    <3> QED  BY <1>6, <1>7, <1>8, <3>1, Paths
  <2>3. CASE i = 3
    <3>1. r[i].path.owner = w
      BY <1>2, <2>1, <2>3, Paths
    <3>2. OwnSide(w, r[i]) = {}
      BY <3>1 DEF OwnSide
    <3> QED  BY <1>5, <2>1, <2>3, <3>2, Paths
  <2>4. CASE i = 4
    <3>1. r[i].path = Friends(x, w) /\ Friends(x, w).owner = x
      BY <1>2, <2>1, <2>4, Paths
    <3>2. ASSUME NEW need \in OwnSide(w, r[i])
          PROVE  Lemmas!Before({}, r, i, need[1], need[2])
      <4>1. need = <<Friends(w, x), "username">>
        BY <3>1, <3>2 DEF OwnSide
      <4>2. 3 \in 1..Len(r) /\ 3 < i /\ r[3].path = Friends(w, x) /\ Lemmas!Has(r[3].fields, "username")
        BY <1>2, <2>1, <2>4
      <4> QED  BY <4>1, <4>2 DEF Lemmas!Before
    <3> QED  BY <1>5, <2>1, <2>4, <3>2, Paths
  <2> QED  BY <2>1, <2>2, <2>3, <2>4
<1> QED  BY <1>9, <1>10, <1>11 DEF Taps

\* A step is a tap, a step of the network, or a kill.
LEMMA NextKinds ==
  ASSUME TypeOK, [Next]_vars
  PROVE  \/ \E w, x \in User : \E r \in Taps(w, x) : LocallyWrite(w, r)
         \/ Lemmas!NetworkStep
         \/ \E w \in User : Lemmas!Killed({w})
<1>1. ASSUME NEW u \in User, Commit(u) PROVE Lemmas!Commit(u)
  BY <1>1 DEF Commit, Lemmas!Commit, ApplyTo, Lemmas!ApplyTo, Overwrites, Lemmas!Overwrites
<1>2. ASSUME NEW u \in User, Acknowledge(u) PROVE Lemmas!Acknowledge(u)
  BY <1>2 DEF Acknowledge, Lemmas!Acknowledge, ApplyTo, Lemmas!ApplyTo,
              Overwrites, Lemmas!Overwrites
<1>3. ASSUME NEW u \in User, RestartStream(u) PROVE Lemmas!Restart(u)
  BY <1>3 DEF RestartStream, Lemmas!Restart
<1>4. ASSUME NEW u \in User, NEW p \in FriendPath, Watch(u, p) PROVE Lemmas!Watch(u, p)
  BY <1>4 DEF Watch, Lemmas!Watch, CommittedOn, Lemmas!CommittedOn
<1>5. UNCHANGED clientVars => UNCHANGED Lemmas!fsVars
  BY DEF clientVars, Lemmas!fsVars
<1>6. ASSUME NEW u \in User, Persist(u) PROVE Lemmas!Persist(u)
  BY <1>6 DEF Persist, Lemmas!Persist
<1>7. ASSUME NEW u \in User, Relaunch(u) PROVE Lemmas!Killed({u})
  <2>1. Kill(u)
    BY <1>7 DEF Relaunch, FreshProcess, Kill
  <2> QED  BY <2>1, SameKill DEF TypeOK
<1>8. ASSUME NEW u \in User, NEW v \in User, SendFriendRequest(u, v)
      PROVE  \E r \in Taps(u, v) : LocallyWrite(u, r)
  BY <1>8 DEF SendFriendRequest, Taps
<1>9. ASSUME NEW u \in User, AgreeClicked(u) \/ DisagreeClicked(u)
      PROVE  \E v \in User : \E r \in Taps(u, v) : LocallyWrite(u, r)
  <2>1. friendSelectedInformation[u] # NoOne => friendSelectedInformation[u] \in User
    BY DEF TypeOK
  <2> QED  BY <1>9, <2>1 DEF AgreeClicked, DisagreeClicked, Taps
<1>10. \/ \E u, v \in User : SendFriendRequest(u, v)
       \/ \E u \in User : AgreeClicked(u) \/ DisagreeClicked(u) \/ Relaunch(u)
       \/ \E u \in User : Persist(u) \/ Commit(u) \/ Acknowledge(u) \/ RestartStream(u)
       \/ \E u \in User, p \in FriendPath : Watch(u, p)
       \/ UNCHANGED clientVars
  BY DEF Next, vars, ShowRequests, SelectRequest, RequestsCallback, PersistWrite, CommitWrite,
         WriteAnswered, ReceiveSnapshot, StreamBroken
<1> QED  BY <1>1, <1>2, <1>3, <1>4, <1>5, <1>6, <1>7, <1>8, <1>9, <1>10 DEF Lemmas!NetworkStep

LEMMA OwnSideFirstNext ==
  ASSUME TypeOK, OwnSideFirst, [Next]_vars
  PROVE  OwnSideFirst'
<1>1. /\ Lemmas!FsTypeOK /\ Lemmas!FirestoreAssumption /\ Lemmas!KeysKept(FriendKeys)
      /\ Lemmas!InOrder(OwnSideWrites) /\ Lemmas!KeysNeeded(OwnSideWrites, FriendKeys)
  BY SameTypes, OwnSideKeys DEF TypeOK, OwnSideFirst
<1>2. ASSUME NEW w \in User, NEW x \in User, NEW r \in Taps(w, x), LocallyWrite(w, r)
      PROVE  OwnSideFirst'
  <2>1. r \in Seq(Lemmas!Mutation) /\ r \in Seq(Mutation)
    BY <1>2, WritesType, SameTypes DEF Taps
  <2>2. Lemmas!LocallyWrite(w, r)
    BY <1>2 DEF LocallyWrite, Lemmas!LocallyWrite
  <2>3. \A i \in 1..Len(r) : Lemmas!KeepsKeys(r[i], FriendKeys)
    BY TapKeepsFriends
  <2>4. (Lemmas!KeysKept(FriendKeys))'
    BY <1>1, <2>1, <2>2, <2>3, Lemmas!WriteKeepsKeys
  <2>5. \A i \in 1..Len(r) : \A need \in OwnSideWrites[w][r[i]] :
          Lemmas!Before({}, r, i, need[1], need[2])
    <3>1. \A i \in 1..Len(r) : OwnSideWrites[w][r[i]] = OwnSide(w, r[i])
      BY <2>1 DEF OwnSideWrites
    <3> QED  BY <3>1, TapKeepsFriends
  <2>6. (Lemmas!InOrder(OwnSideWrites))'
    BY <1>1, <2>1, <2>2, <2>5, Lemmas!WriteKeepsOrder
  <2> QED  BY <2>4, <2>6 DEF OwnSideFirst
<1>3. CASE Lemmas!NetworkStep
  BY <1>1, <1>3, Lemmas!NetworkKeepsKeys, Lemmas!NetworkKeepsOrder DEF OwnSideFirst
<1>4. ASSUME NEW w \in User, Lemmas!Killed({w}) PROVE OwnSideFirst'
  BY <1>1, <1>4, Lemmas!KilledKeepsKeys, Lemmas!KilledKeepsOrder DEF OwnSideFirst
<1> QED  BY <1>2, <1>3, <1>4, NextKinds

\* By the time the other side of a friendship is committed, the own side is.
LEMMA OwnSideCommitted ==
  ASSUME TypeOK, OwnSideFirst, NEW w \in User, NEW u \in User, u # w,
         applied[w] + 1 \in 1..Len(mutationQueue[w]),
         mutationQueue[w][applied[w] + 1] = Set(Friends(u, w))
  PROVE  Exists(Friends(w, u))
<1>1. PICK n : n = applied[w] + 1
  OBVIOUS
<1>2. PICK m \in Mutation : m = mutationQueue[w][n]
  BY <1>1 DEF TypeOK, FsTypeOK
<1>3. m.path = Friends(u, w) /\ m.path.coll = "Friends" /\ m.path.owner = u
  BY <1>1, <1>2, Parts, Paths
<1>4. PICK p : p = Friends(w, u)
  OBVIOUS
<1>5. PICK r : r = <<p, "username">>
  OBVIOUS
<1>6. r \in OwnSideWrites[w][mutationQueue[w][n]]
  BY <1>2, <1>3, <1>4, <1>5 DEF OwnSideWrites, OwnSide
<1>7. /\ Lemmas!FsTypeOK /\ Lemmas!FirestoreAssumption /\ Lemmas!KeysKept(FriendKeys)
      /\ Lemmas!InOrder(OwnSideWrites)
  BY SameTypes DEF TypeOK, OwnSideFirst
<1>8. Lemmas!Before(docs[r[1]], mutationQueue[w], n, r[1], r[2])
  BY <1>1, <1>6, <1>7 DEF Lemmas!InOrder
<1>9. r[1] = p /\ r[2] = "username"
  BY <1>5
<1>10. p \in FriendPath /\ "username" \in FriendKeys[p]
  <2>1. p \in FriendPath /\ p.coll = "Friends"
    BY <1>4, Paths
  <2> QED  BY <2>1 DEF FriendKeys
<1>11. Lemmas!Has(docs[p], "username")
  BY <1>1, <1>7, <1>8, <1>9, <1>10, Lemmas!CommittedBefore
<1> QED  BY <1>4, <1>11 DEF Lemmas!Has, Exists

LEMMA MutualNext ==
  ASSUME TypeOK, QueueShape, OwnSideFirst, FriendshipIsMutual, [Next]_vars
  PROVE  FriendshipIsMutual'
<1> SUFFICES ASSUME NEW u \in User, NEW v \in User, Exists(Friends(u, v))', u # v
             PROVE  \/ Exists(Friends(v, u))'
                    \/ PendingOrLost(u, Set(Friends(v, u)))'
  BY DEF FriendshipIsMutual
<1>1. CASE /\ docs' = docs
           /\ \A w \in User : \A m : PendingOrLost(w, m) => PendingOrLost(w, m)'
  BY <1>1 DEF FriendshipIsMutual, Exists
<1>2. ASSUME NEW w \in User, Commit(w)
      PROVE  \/ Exists(Friends(v, u))'
             \/ PendingOrLost(u, Set(Friends(v, u)))'
  <2>1. PICK x \in User : \E m \in Protocol(w, x) : CommitOf(w, m)
    BY <1>2, CommitEffect
  <2>2. PICK m \in Protocol(w, x) : /\ Written(m) /\ OthersOnTheWay(w, m) /\ NextOnTheWay(w, m)
                                    /\ applied[w] + 1 \in 1..Len(mutationQueue[w])
                                    /\ mutationQueue[w][applied[w] + 1] = m
    BY <2>1 DEF CommitOf
  <2>3. Friends(u, v) \in FriendPath /\ Friends(v, u) \in FriendPath
    BY DEF FriendPath, Friends
  <2>4. m # Delete(Friends(u, v)) /\ m # Delete(Friends(v, u))
    BY Distinct DEF Protocol
  <2>5. CASE m = Set(Friends(v, u))
    BY <2>2, <2>3, <2>5 DEF Written, Exists
  <2>6. CASE m = Set(Friends(u, v)) /\ w = u
    <3>1. FollowedOrLost(u, m, Set(Friends(v, u)))
      BY <2>6 DEF QueueShape
    <3> QED  BY <2>2, <2>6, <3>1, LostGrows DEF NextOnTheWay, FollowedOrLost, PendingOrLost
  <2>7. CASE m = Set(Friends(u, v)) /\ w # u
    <3>1. w = v
      BY <2>7, Distinct DEF Protocol
    <3>2. Exists(Friends(v, u))
      BY <2>2, <2>7, <3>1, OwnSideCommitted
    <3> QED  BY <3>2, FriendsStay
  <2>8. CASE m # Set(Friends(v, u)) /\ m # Set(Friends(u, v))
    <3>1. /\ docs'[Friends(u, v)] = docs[Friends(u, v)]
          /\ docs'[Friends(v, u)] = docs[Friends(v, u)]
      BY <2>2, <2>3, <2>4, <2>8 DEF Written
    <3>2. Exists(Friends(v, u)) \/ PendingOrLost(u, Set(Friends(v, u)))
      BY <3>1 DEF FriendshipIsMutual, Exists
    <3> QED  BY <2>2, <2>8, <3>1, <3>2, LostGrows DEF OthersOnTheWay, PendingOrLost, Exists
  <2> QED  BY <2>5, <2>6, <2>7, <2>8
<1> QED  BY <1>1, <1>2, OnlyCommits

\* Friendship is mutual but for the second of agreeClicked's two writes, which
\* the device of the one listed already still holds, or lost when it was killed
\* before that write was on disk.
THEOREM FriendshipBecomesMutual == Spec => []FriendshipIsMutual
<1>1. Init => FriendshipIsMutual /\ OwnSideFirst
  <2>1. \A u, v \in User : Friends(u, v) \in FriendPath
    BY DEF Friends, FriendPath
  <2>2. Init => FriendshipIsMutual
    BY <2>1 DEF Init, FsInit, FriendshipIsMutual, Exists
  <2>3. Init => Lemmas!FsInit
    BY DEF Init, FsInit, Lemmas!FsInit
  <2>4. Init => OwnSideFirst
    BY <2>3, SameTypes, Lemmas!KeysKeptInit, Lemmas!InOrderInit DEF OwnSideFirst
  <2> QED  BY <2>2, <2>4
<1>2. /\ TypeOK /\ QueueShape /\ OwnSideFirst /\ FriendshipIsMutual
      /\ [Next]_vars
      => (TypeOK /\ QueueShape /\ OwnSideFirst /\ FriendshipIsMutual)'
  BY NextType, QueueShapeNext, OwnSideFirstNext, MutualNext
<1> QED  BY <1>1, <1>2, InitType, QueueShapeInit, PTL DEF Spec
-----------------------------------------------------------------------------
(***************************************************************************)
(* Consent.  A request or a friendship that is stored, cached, queued or   *)
(* on screen goes back to a tap of the one who asked and, for a            *)
(* friendship, a tap of the one who agreed.                                *)
(***************************************************************************)
Asked(u, v) == asked[<<u, v>>] > 0

Consent(u, v) == \/ <<u, v>> \in agreed /\ Asked(v, u)
                 \/ <<v, u>> \in agreed /\ Asked(u, v)

Justified(p) == /\ p.coll = "Friends" => Consent(p.owner, p.peer)
                /\ p.coll = "FriendRequestFrom" => Asked(p.peer, p.owner)

WritesJustified(queue) ==
  \A i \in 1..Len(queue) : queue[i].fields # {} => Justified(queue[i].path)

ClientJustified ==
  /\ \A p \in FriendPath : docs[p] # {} => Justified(p)
  /\ \A u \in User : \A p \in FriendPath : remoteDocs[u][p] # {} => Justified(p)
  /\ \A u \in User : WritesJustified(mutationQueue[u])

ScreenJustified ==
  \A u, v \in User :
    v \in friendRequestInformation[u] \/ v \in rows[u] \/ v = friendSelectedInformation[u]
      => Asked(v, u)

\* What has been asked and agreed is never taken back.
LEMMA HistoryGrows ==
  ASSUME TypeOK, [Next]_vars
  PROVE  /\ \A u, v \in User : Asked(u, v) => Asked(u, v)'
         /\ agreed \subseteq agreed'
<1>1. asked' = asked \/ \E u, v \in User : SendFriendRequest(u, v)
  BY DEF Next, vars, ShowRequests, SelectRequest, AgreeClicked, DisagreeClicked,
         RequestsCallback, PersistWrite, CommitWrite, WriteAnswered, ReceiveSnapshot,
         StreamBroken, Relaunch, FreshProcess
<1>2. ASSUME NEW u \in User, NEW v \in User, SendFriendRequest(u, v),
             NEW x \in User, NEW y \in User, Asked(x, y)
      PROVE  Asked(x, y)'
  <2>1. asked' = [asked EXCEPT ![<<u, v>>] = @ + 1] /\ asked \in [User \X User -> Nat]
    BY <1>2 DEF SendFriendRequest, TypeOK
  <2> QED  BY <1>2, <2>1 DEF Asked
<1>3. agreed \subseteq agreed'
  BY DEF Next, vars, SendFriendRequest, ShowRequests, SelectRequest, AgreeClicked,
         DisagreeClicked, RequestsCallback, PersistWrite, CommitWrite, WriteAnswered,
         ReceiveSnapshot, StreamBroken, Relaunch, FreshProcess
<1> QED  BY <1>1, <1>2, <1>3 DEF Asked

LEMMA StaysJustified ==
  ASSUME TypeOK, [Next]_vars, NEW p \in FriendPath, Justified(p)
  PROVE  Justified(p)'
<1>1. p.owner \in User /\ p.peer \in User
  BY DEF FriendPath
<1> QED  BY <1>1, HistoryGrows DEF Justified, Consent

\* The writes of a queue are of the right type, and justified.
LEMMA QueuedWrite ==
  ASSUME TypeOK, ClientJustified, NEW u \in User, NEW i \in 1..Len(mutationQueue[u]),
         NEW m, m = mutationQueue[u][i]
  PROVE  m.path \in FriendPath /\ (m.fields # {} => Justified(m.path))
<1>1. mutationQueue[u] \in Seq(Mutation)
  BY DEF TypeOK, FsTypeOK
<1>2. m \in Mutation
  BY <1>1
<1> QED  BY <1>2 DEF Mutation, ClientJustified, WritesJustified

\* The client moves documents about, but makes none up.
LEMMA ClientStaysJustified ==
  ASSUME TypeOK, ClientJustified, [Next]_vars,
         \/ \E u \in User : Persist(u) \/ Commit(u) \/ Acknowledge(u) \/ Restart(u) \/ Kill(u)
         \/ \E u \in User, p \in FriendPath : Watch(u, p)
         \/ UNCHANGED clientVars
  PROVE  ClientJustified'
<1>1. \A p \in FriendPath : Justified(p) => Justified(p)'
  BY StaysJustified
<1>2. /\ mutationQueue \in [User -> Seq(Mutation)]
      /\ docs \in [FriendPath -> Document]
      /\ remoteDocs \in [User -> [FriendPath -> Document]]
      /\ \A u \in User : /\ applied[u] \in Nat /\ persisted[u] \in Nat
                         /\ applied[u] <= persisted[u]
                         /\ persisted[u] <= Len(mutationQueue[u])
  BY DEF TypeOK, FsTypeOK
<1>3. \A u \in User : \A i \in 1..Len(mutationQueue[u]) :
        /\ mutationQueue[u][i].path \in FriendPath
        /\ mutationQueue[u][i].fields # {} => Justified(mutationQueue[u][i].path)
  BY QueuedWrite
<1>4. \A m, doc : ApplyTo(m, doc) # {} => m.fields # {} \/ doc # {}
  BY DEF ApplyTo
<1>5. ASSUME mutationQueue' = mutationQueue
      PROVE  \A u \in User : WritesJustified(mutationQueue[u])'
  BY <1>1, <1>3, <1>5 DEF WritesJustified
<1>6. ASSUME NEW u \in User, Commit(u) PROVE ClientJustified'
  <2>1. PICK m : m = mutationQueue[u][applied[u] + 1]
    OBVIOUS
  <2>2. applied[u] + 1 \in 1..Len(mutationQueue[u])
    BY <1>2, <1>6 DEF Commit
  <2>3. docs' = [docs EXCEPT ![m.path] = ApplyTo(m, @)]
    BY <1>6, <2>1 DEF Commit
  <2>4. m.path \in FriendPath /\ (m.fields # {} => Justified(m.path))
    BY <1>3, <2>1, <2>2
  <2>5. \A p \in FriendPath : docs'[p] # {} => Justified(p)
    BY <1>2, <1>4, <2>3, <2>4 DEF ClientJustified
  <2> QED  BY <1>1, <1>5, <1>6, <2>5 DEF Commit, ClientJustified
<1>7. ASSUME NEW u \in User, Acknowledge(u) PROVE ClientJustified'
  <2>1. PICK m : m = Head(mutationQueue[u])
    OBVIOUS
  <2>2. Len(mutationQueue[u]) > 0
    BY <1>2, <1>7 DEF Acknowledge
  <2>3. m = mutationQueue[u][1]
    BY <1>2, <2>1, <2>2
  <2>4. m.path \in FriendPath /\ (m.fields # {} => Justified(m.path))
    BY <1>2, <1>3, <2>2, <2>3
  <2>5. \/ remoteDocs' = remoteDocs
        \/ remoteDocs' = [remoteDocs EXCEPT ![u][m.path] = ApplyTo(m, @)]
    BY <1>7, <2>1 DEF Acknowledge
  <2>6. ASSUME NEW w \in User, NEW p \in FriendPath, remoteDocs'[w][p] # {} PROVE Justified(p)
    <3>1. \/ remoteDocs'[w][p] = remoteDocs[w][p]
          \/ p = m.path /\ remoteDocs'[w][p] = ApplyTo(m, remoteDocs[w][p])
      <4>1. CASE remoteDocs' = remoteDocs
        BY <4>1
      <4>2. CASE remoteDocs' = [remoteDocs EXCEPT ![u][m.path] = ApplyTo(m, @)]
        <5>1. remoteDocs'[w] = IF w = u THEN [remoteDocs[w] EXCEPT ![m.path] = ApplyTo(m, @)]
                                        ELSE remoteDocs[w]
          BY <1>2, <4>2
        <5>2. remoteDocs[w] \in [FriendPath -> Document]
          BY <1>2
        <5> QED  BY <5>1, <5>2
      <4> QED  BY <2>5, <4>1, <4>2
    <3> QED  BY <1>4, <2>4, <2>6, <3>1 DEF ClientJustified
  <2>7. mutationQueue' = [mutationQueue EXCEPT ![u] = Tail(@)]
    BY <1>7 DEF Acknowledge
  <2>8. \A i \in 1..Len(Tail(mutationQueue[u])) :
          /\ i + 1 \in 1..Len(mutationQueue[u])
          /\ Tail(mutationQueue[u])[i] = mutationQueue[u][i + 1]
    BY <1>2, <2>2
  <2>9. \A w \in User : WritesJustified(mutationQueue[w])'
    <3>1. ASSUME NEW w \in User, NEW i \in 1..Len(mutationQueue'[w])
          PROVE  \E k \in 1..Len(mutationQueue[w]) : mutationQueue'[w][i] = mutationQueue[w][k]
      <4>1. CASE w = u
        BY <1>2, <2>7, <2>8, <4>1
      <4>2. CASE w # u
        BY <1>2, <2>7, <4>2
      <4> QED  BY <4>1, <4>2
    <3> QED  BY <1>1, <1>3, <3>1 DEF WritesJustified
  <2> QED  BY <1>1, <1>7, <2>6, <2>9 DEF Acknowledge, ClientJustified
<1>8. ASSUME NEW u \in User, Restart(u) PROVE ClientJustified'
  BY <1>1, <1>5, <1>8 DEF Restart, ClientJustified
<1>9. ASSUME NEW u \in User, NEW p \in FriendPath, Watch(u, p) PROVE ClientJustified'
  <2>1. remoteDocs' = [remoteDocs EXCEPT ![u][p] = docs[p]]
    BY <1>9 DEF Watch
  <2>2. \A w \in User : \A x \in FriendPath : remoteDocs'[w][x] # {} => Justified(x)
    BY <1>2, <2>1 DEF ClientJustified
  <2> QED  BY <1>1, <1>5, <1>9, <2>2 DEF Watch, ClientJustified
<1>10. CASE UNCHANGED clientVars
  BY <1>1, <1>5, <1>10 DEF clientVars, ClientJustified
<1>11. ASSUME NEW u \in User, Persist(u) PROVE ClientJustified'
  BY <1>1, <1>5, <1>11 DEF Persist, ClientJustified
<1>12. ASSUME NEW u \in User, Kill(u) PROVE ClientJustified'
  <2>1. \A w \in User : \A i \in 1..Len(mutationQueue'[w]) :
          i \in 1..Len(mutationQueue[w]) /\ mutationQueue'[w][i] = mutationQueue[w][i]
    BY <1>12, KillCuts DEF IsCut
  <2>2. \A w \in User : WritesJustified(mutationQueue[w])'
    BY <1>1, <1>3, <2>1 DEF WritesJustified
  <2> QED  BY <1>1, <1>12, <2>2 DEF Kill, ClientJustified
<1> QED  BY <1>6, <1>7, <1>8, <1>9, <1>10, <1>11, <1>12

\* A tap queues what it justifies.
LEMMA TapStaysJustified ==
  ASSUME TypeOK, ClientJustified, [Next]_vars, NEW u \in User, NEW ms \in Seq(Mutation),
         LocallyWrite(u, ms),
         \A m : (\E i \in 1..Len(ms) : m = ms[i]) /\ m.fields # {} => Justified(m.path)'
  PROVE  ClientJustified'
<1>1. \A p \in FriendPath : Justified(p) => Justified(p)'
  BY StaysJustified
<1>2. mutationQueue \in [User -> Seq(Mutation)]
  BY DEF TypeOK, FsTypeOK
<1>3. \A w \in User : \A i \in 1..Len(mutationQueue[w]) : \A m :
        m = mutationQueue[w][i] /\ m.fields # {} => Justified(m.path)'
  BY <1>1, QueuedWrite
<1>4. mutationQueue' = [mutationQueue EXCEPT ![u] = @ \o ms]
  BY DEF LocallyWrite
<1>5. ASSUME NEW i \in 1..Len(mutationQueue[u] \o ms)
      PROVE  \/ i \in 1..Len(mutationQueue[u]) /\ (mutationQueue[u] \o ms)[i] = mutationQueue[u][i]
             \/ i - Len(mutationQueue[u]) \in 1..Len(ms)
                /\ (mutationQueue[u] \o ms)[i] = ms[i - Len(mutationQueue[u])]
  BY <1>2
<1>6. \A w \in User : WritesJustified(mutationQueue[w])'
  <2> SUFFICES ASSUME NEW w \in User, NEW i \in 1..Len(mutationQueue'[w]),
                      NEW m, m = mutationQueue'[w][i], m.fields # {}
               PROVE  Justified(m.path)'
    BY DEF WritesJustified
  <2>1. CASE w # u
    <3>1. mutationQueue'[w] = mutationQueue[w]
      BY <1>2, <1>4, <2>1
    <3> QED  BY <1>3, <3>1
  <2>2. CASE w = u
    <3>1. mutationQueue'[w] = mutationQueue[u] \o ms
      BY <1>2, <1>4, <2>2
    <3>2. CASE i \in 1..Len(mutationQueue[u]) /\ m = mutationQueue[u][i]
      BY <1>3, <3>2
    <3>3. CASE \E j \in 1..Len(ms) : m = ms[j]
      BY <3>3
    <3> QED  BY <1>5, <3>1, <3>2, <3>3
  <2> QED  BY <2>1, <2>2
<1> QED  BY <1>1, <1>6 DEF LocallyWrite, ClientJustified

\* What a screen lists and acts on has been asked.
LEMMA ScreenStaysJustified ==
  ASSUME TypeOK, ClientJustified, ScreenJustified, [Next]_vars
  PROVE  ScreenJustified'
<1>1. \A u, v \in User : Asked(v, u) => Asked(v, u)'
  BY HistoryGrows
<1>2. ASSUME NEW u \in User, NEW v \in Listed(u) PROVE Asked(v, u)
  <2>1. v \in User /\ View(u, RequestFrom(u, v)) # {}
    BY DEF Listed
  <2>2. PICK p \in FriendPath : p = RequestFrom(u, v)
    BY <2>1 DEF RequestFrom, FriendPath
  <2>3. \/ remoteDocs[u][p] # {}
        \/ \E i \in 1..Len(mutationQueue[u]) : /\ mutationQueue[u][i].path = p
                                               /\ mutationQueue[u][i].fields # {}
    BY <2>1, <2>2 DEF View, LocalView
  <2>4. Justified(p)
    BY <2>3 DEF ClientJustified, WritesJustified
  <2> QED  BY <2>2, <2>4 DEF Justified, RequestFrom
<1>3. ASSUME friendRequestInformation' = friendRequestInformation, rows' = rows,
             friendSelectedInformation' = friendSelectedInformation
      PROVE  ScreenJustified'
  BY <1>1, <1>3 DEF ScreenJustified
<1>4. ASSUME NEW u \in User, RequestsCallback(u) PROVE ScreenJustified'
  BY <1>1, <1>2, <1>4 DEF RequestsCallback, ScreenJustified, TypeOK
<1>5. ASSUME NEW u \in User, ShowRequests(u) PROVE ScreenJustified'
  BY <1>1, <1>5 DEF ShowRequests, ScreenJustified, TypeOK
<1>6. ASSUME NEW u \in User, NEW v \in User, SelectRequest(u, v) PROVE ScreenJustified'
  BY <1>1, <1>6 DEF SelectRequest, ScreenJustified, TypeOK
<1>7. ASSUME NEW u \in User, AgreeClicked(u) \/ DisagreeClicked(u) PROVE ScreenJustified'
  BY <1>1, <1>7, FriendRequestAssumption
     DEF AgreeClicked, DisagreeClicked, ScreenJustified, TypeOK
<1>8. ASSUME NEW u \in User, Relaunch(u) PROVE ScreenJustified'
  BY <1>1, <1>8, FriendRequestAssumption DEF Relaunch, FreshProcess, ScreenJustified, TypeOK
<1>9. \/ UNCHANGED screenVars
      \/ \E u \in User : \/ RequestsCallback(u) \/ ShowRequests(u)
                         \/ \E v \in User : SelectRequest(u, v)
                         \/ AgreeClicked(u) \/ DisagreeClicked(u) \/ Relaunch(u)
  BY DEF Next, vars, SendFriendRequest, PersistWrite, CommitWrite, WriteAnswered,
         ReceiveSnapshot, StreamBroken
<1> QED  BY <1>3, <1>4, <1>5, <1>6, <1>7, <1>8, <1>9 DEF screenVars

LEMMA JustifiedNext ==
  ASSUME TypeOK, ClientJustified, ScreenJustified, [Next]_vars
  PROVE  ClientJustified'
<1> DEFINE Backed(ms) ==
      \A m : (\E i \in 1..Len(ms) : m = ms[i]) /\ m.fields # {} => Justified(m.path)'
<1>1. ASSUME NEW u \in User, NEW v \in User, SendFriendRequest(u, v) PROVE ClientJustified'
  <2>1. Asked(u, v)'
    BY <1>1 DEF SendFriendRequest, Asked, TypeOK
  <2>2. Justified(RequestTo(u, v))' /\ Justified(RequestFrom(v, u))'
    BY <2>1 DEF Justified, RequestTo, RequestFrom
  <2>3. Backed(RequestWrites(u, v))
    BY <2>2, Parts DEF RequestWrites
  <2> QED  BY <1>1, <2>3, WritesType, TapStaysJustified DEF SendFriendRequest
<1>2. ASSUME NEW u \in User, NEW v \in User PROVE Backed(DeclineWrites(u, v))
  BY Parts DEF DeclineWrites
<1>3. ASSUME NEW u \in User, AgreeClicked(u) PROVE ClientJustified'
  <2>1. PICK v \in User : v = friendSelectedInformation[u]
    BY <1>3 DEF AgreeClicked, TypeOK
  <2>2. Asked(v, u)'
    BY <2>1, HistoryGrows DEF ScreenJustified
  <2>3. <<u, v>> \in agreed'
    BY <1>3, <2>1 DEF AgreeClicked
  <2>4. Justified(Friends(u, v))' /\ Justified(Friends(v, u))'
    BY <2>2, <2>3 DEF Justified, Consent, Friends
  <2>5. Backed(AgreeWrites(u, v))
    <3>1. SUFFICES ASSUME NEW m, NEW i \in 1..Len(AgreeWrites(u, v)),
                          m = AgreeWrites(u, v)[i], m.fields # {}
                   PROVE  Justified(m.path)'
      OBVIOUS
    <3>2. m \in {Delete(RequestFrom(u, v)), Delete(RequestTo(v, u)),
                 Set(Friends(u, v)), Set(Friends(v, u))}
      BY <3>1 DEF AgreeWrites, DeclineWrites
    <3> QED  BY <2>4, <3>1, <3>2, Parts
  <2> QED  BY <1>3, <2>1, <2>5, WritesType, TapStaysJustified DEF AgreeClicked
<1>4. ASSUME NEW u \in User, DisagreeClicked(u) PROVE ClientJustified'
  <2>1. PICK v \in User : v = friendSelectedInformation[u]
    BY <1>4 DEF DisagreeClicked, TypeOK
  <2> QED  BY <1>2, <1>4, <2>1, WritesType, TapStaysJustified DEF DisagreeClicked
<1>5. \/ \E u, v \in User : SendFriendRequest(u, v)
      \/ \E u \in User : AgreeClicked(u) \/ DisagreeClicked(u)
      \/ \E u \in User : Persist(u) \/ Commit(u) \/ Acknowledge(u) \/ Restart(u) \/ Kill(u)
      \/ \E u \in User, p \in FriendPath : Watch(u, p)
      \/ UNCHANGED clientVars
  BY DEF Next, vars, ShowRequests, SelectRequest, RequestsCallback, PersistWrite, CommitWrite,
         WriteAnswered, ReceiveSnapshot, StreamBroken, RestartStream, Restart, Relaunch,
         FreshProcess, Kill
<1> QED  BY <1>1, <1>3, <1>4, <1>5, ClientStaysJustified

\* Nobody is listed as a friend, on the backend, without having asked or
\* agreed, however stale the rows agreeClicked acts on.
THEOREM NoFriendWithoutConsent == Spec => []FriendsOnlyByConsent
<1>1. Init => ClientJustified /\ ScreenJustified
  BY FriendRequestAssumption
     DEF Init, FsInit, ClientJustified, WritesJustified, ScreenJustified
<1>2. /\ TypeOK /\ ClientJustified /\ ScreenJustified
      /\ [Next]_vars
      => (TypeOK /\ ClientJustified /\ ScreenJustified)'
  BY NextType, JustifiedNext, ScreenStaysJustified
<1>3. ClientJustified => FriendsOnlyByConsent
  <2> SUFFICES ASSUME ClientJustified, NEW u \in User, NEW v \in User, Exists(Friends(u, v))
               PROVE  Consent(u, v)
    BY DEF FriendsOnlyByConsent, Consent, Asked
  <2>1. Friends(u, v) \in FriendPath
    BY DEF Friends, FriendPath
  <2>2. Justified(Friends(u, v))
    BY <2>1 DEF ClientJustified, Exists
  <2> QED  BY <2>2 DEF Justified, Friends
<1> QED  BY <1>1, <1>2, <1>3, InitType, PTL DEF Spec
=============================================================================
