--------------------------- MODULE FirestoreLemmas ---------------------------
(***************************************************************************)
(* Facts about the operators and actions of Firestore that the proofs of   *)
(* the modules above it use: documents stay functions of their keys, every *)
(* action keeps FsTypeOK, keys that no write takes away stay, and what is  *)
(* queued behind another write is committed behind it.                     *)
(***************************************************************************)
EXTENDS Firestore, WellFoundedInduction, TLAPS

LEMMA MutationParts ==
  ASSUME NEW m \in Mutation
  PROVE  m.path \in Path /\ m.fields \in Document /\ m.merge \in BOOLEAN
  BY DEF Mutation

LEMMA ApplyToType ==
  ASSUME NEW m \in Mutation, NEW doc \in Document
  PROVE  ApplyTo(m, doc) \in Document
  BY DEF ApplyTo, Document, Mutation, Overwrites

LEMMA LocalViewType ==
  ASSUME NEW doc \in Document, NEW queue \in Seq(Mutation), NEW p \in Path
  PROVE  LocalView(doc, queue, p) \in Document
<1> DEFINE Wrote(f, i) == /\ queue[i].path = p
                          /\ f \in queue[i].fields
                          /\ Survives(f, queue, i + 1, p)
<1>1. LocalView(doc, queue, p) \in SUBSET Field
  BY DEF LocalView, Document
<1>2. ASSUME NEW f \in LocalView(doc, queue, p), NEW g \in LocalView(doc, queue, p),
             f.key = g.key
      PROVE  f = g
  <2>1. ASSUME NEW i \in 1..Len(queue), NEW x, NEW y, Wrote(x, i), x.key = y.key,
               NEW lo \in Nat, lo <= i
        PROVE  ~Survives(y, queue, lo, p)
    <3>1. queue[i] \in Mutation /\ i \in lo..Len(queue)
      BY <2>1
    <3>2. Overwrites(queue[i], y)
      BY <2>1 DEF Overwrites
    <3> QED  BY <2>1, <3>1, <3>2 DEF Survives
  <2>2. CASE f \in doc /\ Survives(f, queue, 1, p) /\ g \in doc
    BY <1>2, <2>2 DEF Document
  <2>3. ASSUME NEW i \in 1..Len(queue), Wrote(f, i) PROVE f = g
    <3>1. ~Survives(g, queue, 1, p)
      BY <1>2, <2>1, <2>3
    <3>2. PICK j \in 1..Len(queue) : Wrote(g, j)
      BY <3>1 DEF LocalView
    <3>3. i < j + 1 /\ j < i + 1
      <4>1. Survives(f, queue, i + 1, p) /\ Survives(g, queue, j + 1, p)
        BY <2>3, <3>2
      <4>2. ~(j + 1 <= i)
        BY <4>1, <1>2, <2>1, <2>3
      <4>3. ~(i + 1 <= j)
        BY <4>1, <1>2, <2>1, <3>2
      <4> QED  BY <4>2, <4>3
    <3>4. i = j
      BY <3>3
    <3>5. queue[i] \in Mutation
      OBVIOUS
    <3>6. queue[i].fields \in Document
      BY <3>5 DEF Mutation
    <3> QED  BY <1>2, <2>3, <3>2, <3>4, <3>6 DEF Document
  <2>4. ASSUME NEW j \in 1..Len(queue), Wrote(g, j), f \in doc, Survives(f, queue, 1, p)
        PROVE  f = g
    BY <1>2, <2>1, <2>4
  <2> QED  BY <2>2, <2>3, <2>4 DEF LocalView
<1> QED  BY <1>1, <1>2 DEF Document
-----------------------------------------------------------------------------
(***************************************************************************)
(* Queues and views.                                                       *)
(***************************************************************************)
\* What a device sees is what is left of the cached document, and of each
\* queued write.
LEMMA InView ==
  ASSUME NEW doc \in Document, NEW queue \in Seq(Mutation), NEW p, NEW f
  PROVE  f \in LocalView(doc, queue, p) <=>
           \/ f \in doc /\ Survives(f, queue, 1, p)
           \/ \E i \in 1..Len(queue) : /\ queue[i].path = p
                                       /\ f \in queue[i].fields
                                       /\ Survives(f, queue, i + 1, p)
<1>1. ASSUME NEW i \in 1..Len(queue), f \in queue[i].fields PROVE f \in Field
  <2>1. queue[i] \in Mutation
    OBVIOUS
  <2> QED  BY <1>1, <2>1, MutationParts DEF Document
<1> QED  BY <1>1 DEF LocalView

\* Positions in a queue without its head, and in a longer queue.
LEMMA TailOfQueue ==
  ASSUME NEW queue \in Seq(Mutation), Len(queue) > 0
  PROVE  /\ Tail(queue) \in Seq(Mutation)
         /\ Len(Tail(queue)) = Len(queue) - 1
         /\ Len(queue) \in Nat
         /\ \A i \in 1..Len(Tail(queue)) : Tail(queue)[i] = queue[i + 1]
         /\ Head(queue) = queue[1]
  OBVIOUS

LEMMA ConcatQueues ==
  ASSUME NEW q \in Seq(Mutation), NEW r \in Seq(Mutation)
  PROVE  /\ q \o r \in Seq(Mutation)
         /\ Len(q \o r) = Len(q) + Len(r)
         /\ Len(q) \in Nat /\ Len(r) \in Nat
         /\ \A i \in 1..Len(q) : (q \o r)[i] = q[i]
         /\ \A i \in 1..Len(q \o r) :
              \/ i \in 1..Len(q)
              \/ i - Len(q) \in 1..Len(r) /\ (q \o r)[i] = r[i - Len(q)]
<1>1. Len(q \o r) = Len(q) + Len(r) /\ Len(q) \in Nat /\ Len(r) \in Nat
  OBVIOUS
<1>2. ASSUME NEW i \in 1..Len(q \o r), i > Len(q)
      PROVE  i - Len(q) \in 1..Len(r) /\ (q \o r)[i] = r[i - Len(q)]
  BY <1>1, <1>2
<1>3. ASSUME NEW i \in 1..Len(q \o r)
      PROVE  i \in 1..Len(q) \/ i > Len(q)
  BY <1>1, <1>3
<1> QED  BY <1>1, <1>2, <1>3

LEMMA SurvivesTail ==
  ASSUME NEW queue \in Seq(Mutation), Len(queue) > 0, NEW f, NEW p, NEW lo \in Nat, lo > 0
  PROVE  Survives(f, Tail(queue), lo, p) <=> Survives(f, queue, lo + 1, p)
<1> DEFINE S(q, i) == q[i].path = p => ~Overwrites(q[i], f)
<1>1. ASSUME NEW i \in lo..Len(Tail(queue)), S(queue, i + 1) PROVE S(Tail(queue), i)
  <2>1. i \in 1..Len(Tail(queue))
    BY TailOfQueue
  <2> QED  BY <1>1, <2>1, TailOfQueue
<1>2. ASSUME NEW i \in (lo + 1)..Len(queue), S(Tail(queue), i - 1) PROVE S(queue, i)
  <2>1. i - 1 \in 1..Len(Tail(queue)) /\ (i - 1) + 1 = i
    BY TailOfQueue
  <2> QED  BY <1>2, <2>1, TailOfQueue
<1>3. \A i \in lo..Len(Tail(queue)) : i + 1 \in (lo + 1)..Len(queue)
  BY TailOfQueue
<1>4. \A i \in (lo + 1)..Len(queue) : i - 1 \in lo..Len(Tail(queue))
  BY TailOfQueue
<1> QED  BY <1>1, <1>2, <1>3, <1>4 DEF Survives

LEMMA SurvivesFirst ==
  ASSUME NEW queue \in Seq(Mutation), NEW f, NEW p, NEW lo \in 1..Len(queue)
  PROVE  Survives(f, queue, lo, p) <=>
           (queue[lo].path = p => ~Overwrites(queue[lo], f)) /\ Survives(f, queue, lo + 1, p)
<1>1. lo..Len(queue) = {lo} \cup (lo + 1)..Len(queue)
  OBVIOUS
<1> QED  BY <1>1 DEF Survives

\* The head of the queue may as well be in the document.
LEMMA ViewWithoutHead ==
  ASSUME NEW doc \in Document, NEW queue \in Seq(Mutation), Len(queue) > 0, NEW p,
         NEW new \in Document,
         new = IF queue[1].path = p THEN ApplyTo(queue[1], doc) ELSE doc
  PROVE  LocalView(new, Tail(queue), p) = LocalView(doc, queue, p)
<1> DEFINE q == Tail(queue)
<1>1. q \in Seq(Mutation) /\ 1 \in 1..Len(queue)
  BY TailOfQueue
<1>2. ASSUME NEW f PROVE f \in LocalView(new, q, p) <=> f \in LocalView(doc, queue, p)
  <2> DEFINE In(r, i) == r[i].path = p /\ f \in r[i].fields /\ Survives(f, r, i + 1, p)
  <2>1. \A i \in 1..Len(q) : In(q, i) <=> In(queue, i + 1)
    <3> TAKE i \in 1..Len(q)
    <3>1. i + 1 \in Nat /\ i + 1 > 0
      OBVIOUS
    <3>2. q[i] = queue[i + 1]
      BY TailOfQueue
    <3>3. Survives(f, q, i + 1, p) <=> Survives(f, queue, (i + 1) + 1, p)
      BY <3>1, SurvivesTail
    <3> QED  BY <3>2, <3>3
  <2>2. (\E i \in 1..Len(q) : In(q, i)) <=> \E i \in 2..Len(queue) : In(queue, i)
    <3>1. \A i \in 1..Len(q) : i + 1 \in 2..Len(queue)
      BY TailOfQueue
    <3>2. \A i \in 2..Len(queue) : i - 1 \in 1..Len(q) /\ (i - 1) + 1 = i
      BY TailOfQueue
    <3>3. ASSUME NEW i \in 2..Len(queue), In(queue, i) PROVE \E j \in 1..Len(q) : In(q, j)
      BY <2>1, <3>2, <3>3
    <3> QED  BY <2>1, <3>1, <3>3
  <2>3. Survives(f, q, 1, p) <=> Survives(f, queue, 2, p)
    BY SurvivesTail
  <2>4. Survives(f, queue, 1, p) <=>
          (queue[1].path = p => ~Overwrites(queue[1], f)) /\ Survives(f, queue, 2, p)
    BY <1>1, SurvivesFirst
  <2>5. (\E i \in 1..Len(queue) : In(queue, i)) <=>
          In(queue, 1) \/ \E i \in 2..Len(queue) : In(queue, i)
    <3>1. 1..Len(queue) = {1} \cup 2..Len(queue)
      BY <1>1
    <3> QED  BY <3>1
  <2>6. f \in new <=> IF queue[1].path = p
                       THEN f \in queue[1].fields \/ (f \in doc /\ ~Overwrites(queue[1], f))
                       ELSE f \in doc
    BY DEF ApplyTo
  <2>7. f \in LocalView(new, q, p) <=>
          (f \in new /\ Survives(f, q, 1, p)) \/ \E i \in 1..Len(q) : In(q, i)
    BY <1>1, InView
  <2>8. f \in LocalView(doc, queue, p) <=>
          (f \in doc /\ Survives(f, queue, 1, p)) \/ \E i \in 1..Len(queue) : In(queue, i)
    BY InView
  <2>9. In(queue, 1) <=> queue[1].path = p /\ f \in queue[1].fields /\ Survives(f, queue, 2, p)
    OBVIOUS
  <2> HIDE DEF In
  <2>10. CASE queue[1].path = p
    BY <2>2, <2>3, <2>4, <2>5, <2>6, <2>7, <2>8, <2>9, <2>10
  <2>11. CASE queue[1].path # p
    BY <2>2, <2>3, <2>4, <2>5, <2>6, <2>7, <2>8, <2>9, <2>11
  <2> QED  BY <2>10, <2>11
<1> QED  BY <1>2

\* Writes to other documents change nothing in what is seen of this one.
LEMMA ViewOfOtherWrites ==
  ASSUME NEW doc \in Document, NEW q \in Seq(Mutation), NEW r \in Seq(Mutation), NEW p,
         \A i \in 1..Len(r) : r[i].path # p
  PROVE  LocalView(doc, q \o r, p) = LocalView(doc, q, p)
<1>1. /\ q \o r \in Seq(Mutation) /\ Len(q \o r) = Len(q) + Len(r)
      /\ Len(q) \in Nat /\ Len(r) \in Nat
      /\ \A i \in 1..Len(q) : (q \o r)[i] = q[i]
  BY ConcatQueues
<1>2. ASSUME NEW i \in 1..Len(q \o r), i > Len(q) PROVE (q \o r)[i].path # p
  <2>1. i - Len(q) \in 1..Len(r) /\ (q \o r)[i] = r[i - Len(q)]
    BY <1>1, <1>2
  <2> QED  BY <2>1
<1>3. ASSUME NEW f, NEW lo \in Nat, lo > 0
      PROVE  Survives(f, q \o r, lo, p) <=> Survives(f, q, lo, p)
  <2>1. \A i \in lo..Len(q) : i \in lo..Len(q \o r) /\ i \in 1..Len(q)
    BY <1>1, <1>3
  <2>2. \A i \in lo..Len(q \o r) : i \in 1..Len(q \o r) /\ (i \in lo..Len(q) \/ i > Len(q))
    BY <1>1, <1>3
  <2>3. ASSUME Survives(f, q \o r, lo, p) PROVE Survives(f, q, lo, p)
    BY <1>1, <2>1, <2>3 DEF Survives
  <2>4. ASSUME Survives(f, q, lo, p) PROVE Survives(f, q \o r, lo, p)
    BY <1>1, <1>2, <2>1, <2>2, <2>4 DEF Survives
  <2> QED  BY <2>3, <2>4
<1>4. ASSUME NEW f PROVE f \in LocalView(doc, q \o r, p) <=> f \in LocalView(doc, q, p)
  <2> DEFINE In(x, i) == x[i].path = p /\ f \in x[i].fields /\ Survives(f, x, i + 1, p)
  <2>1. ASSUME NEW i \in 1..Len(q) PROVE i \in 1..Len(q \o r) /\ (In(q \o r, i) <=> In(q, i))
    <3>1. i + 1 \in Nat /\ i + 1 > 0 /\ i \in 1..Len(q \o r)
      BY <1>1
    <3>2. Survives(f, q \o r, i + 1, p) <=> Survives(f, q, i + 1, p)
      BY <1>3, <3>1
    <3> QED  BY <1>1, <3>1, <3>2
  <2>2. ASSUME NEW i \in 1..Len(q \o r), In(q \o r, i) PROVE i \in 1..Len(q)
    BY <1>1, <1>2, <2>2
  <2>3. (\E i \in 1..Len(q \o r) : In(q \o r, i)) <=> \E i \in 1..Len(q) : In(q, i)
    BY <2>1, <2>2
  <2>4. Survives(f, q \o r, 1, p) <=> Survives(f, q, 1, p)
    BY <1>3
  <2>5. f \in LocalView(doc, q \o r, p) <=>
          (f \in doc /\ Survives(f, q \o r, 1, p)) \/ \E i \in 1..Len(q \o r) : In(q \o r, i)
    BY <1>1, InView
  <2>6. f \in LocalView(doc, q, p) <=>
          (f \in doc /\ Survives(f, q, 1, p)) \/ \E i \in 1..Len(q) : In(q, i)
    BY InView
  <2> QED  BY <2>3, <2>4, <2>5, <2>6
<1>5. LocalView(doc, q \o r, p) \in SUBSET Field /\ LocalView(doc, q, p) \in SUBSET Field
  BY DEF LocalView, Document
<1> QED  BY <1>4, <1>5

\* A write that replaces the document is all that is seen of it.
LEMMA ViewOfReplacing ==
  ASSUME NEW doc \in Document, NEW q \in Seq(Mutation), NEW m \in Mutation, ~m.merge
  PROVE  LocalView(doc, q \o <<m>>, m.path) = m.fields
<1>1. PICK r : r = q \o <<m>>
  OBVIOUS
<1>2. /\ r \in Seq(Mutation) /\ Len(r) = Len(q) + 1 /\ Len(q) \in Nat /\ r[Len(r)] = m
      /\ Len(r) \in 1..Len(r)
  BY <1>1
<1>3. \A f : Overwrites(m, f)
  BY DEF Overwrites
<1>4. ASSUME NEW f PROVE f \in LocalView(doc, r, m.path) <=> f \in m.fields
  <2>1. \A lo \in 1..Len(r) : ~Survives(f, r, lo, m.path)
    BY <1>2, <1>3 DEF Survives
  <2>2. ASSUME NEW i \in 1..Len(r), Survives(f, r, i + 1, m.path) PROVE i = Len(r)
    BY <1>2, <2>1, <2>2
  <2>3. Survives(f, r, Len(r) + 1, m.path)
    BY <1>2 DEF Survives
  <2>4. ~Survives(f, r, 1, m.path)
    BY <1>2, <2>1
  <2> QED  BY <1>2, <2>2, <2>3, <2>4, InView
<1>5. LocalView(doc, r, m.path) \in SUBSET Field /\ m.fields \in SUBSET Field
  BY MutationParts DEF LocalView, Document
<1> QED  BY <1>1, <1>4, <1>5

\* A device that only ever deletes a document sees the cached one until it does.
LEMMA ViewOfDeletes ==
  ASSUME NEW doc \in Document, NEW queue \in Seq(Mutation), NEW p,
         \A i \in 1..Len(queue) : queue[i].path = p => queue[i].fields = {} /\ ~queue[i].merge
  PROVE  LocalView(doc, queue, p) = IF \E i \in 1..Len(queue) : queue[i].path = p THEN {} ELSE doc
<1>1. ASSUME NEW f
      PROVE  f \in LocalView(doc, queue, p)
               <=> f \in doc /\ \A i \in 1..Len(queue) : queue[i].path # p
  BY InView DEF Survives, Overwrites
<1> QED  BY <1>1

-----------------------------------------------------------------------------
(***************************************************************************)
(* Types.                                                                  *)
(***************************************************************************)
LEMMA FsInitType == FsInit => FsTypeOK
<1>1. {} \in Document /\ << >> \in Seq(Mutation)
  BY DEF Document
<1> QED  BY <1>1 DEF FsInit, FsTypeOK

LEMMA LocallyWriteType ==
  ASSUME FsTypeOK, NEW d \in Device, NEW mutations \in Seq(Mutation),
         LocallyWrite(d, mutations)
  PROVE  FsTypeOK'
<1>1. mutationQueue'[d] = mutationQueue[d] \o mutations
      /\ mutationQueue' \in [Device -> Seq(Mutation)]
  BY DEF LocallyWrite, FsTypeOK
<1>2. Len(mutationQueue'[d]) >= Len(mutationQueue[d])
  BY <1>1 DEF FsTypeOK
<1>3. \A e \in Device : persisted[e] <= Len(mutationQueue'[e])
  BY <1>1, <1>2 DEF LocallyWrite, FsTypeOK
<1> QED  BY <1>1, <1>3 DEF LocallyWrite, FsTypeOK

LEMMA PersistType ==
  ASSUME FsTypeOK, NEW d \in Device, Persist(d)
  PROVE  FsTypeOK'
<1>1. persisted' \in [Device -> Nat]
      /\ \A e \in Device : persisted[e] <= persisted'[e] /\ persisted'[e] <= Len(mutationQueue[e])
  BY DEF Persist, FsTypeOK
<1>2. \A e \in Device : applied[e] <= persisted'[e]
  BY <1>1 DEF FsTypeOK
<1> QED  BY <1>1, <1>2 DEF Persist, FsTypeOK

LEMMA CommitType ==
  ASSUME FsTypeOK, NEW d \in Device, Commit(d)
  PROVE  FsTypeOK'
<1> DEFINE m == mutationQueue[d][applied[d] + 1]
<1>1. m \in Mutation
  BY DEF Commit, FsTypeOK
<1>2. docs' \in [Path -> Document]
  BY <1>1, MutationParts, ApplyToType DEF Commit, FsTypeOK
<1>3. applied' \in [Device -> Nat]
      /\ \A e \in Device : applied[e] <= applied'[e] /\ applied'[e] <= persisted[e]
  BY DEF Commit, FsTypeOK
<1> QED  BY <1>2, <1>3 DEF Commit, FsTypeOK

LEMMA AcknowledgeType ==
  ASSUME FsTypeOK, NEW d \in Device, Acknowledge(d)
  PROVE  FsTypeOK'
<1> DEFINE m == Head(mutationQueue[d])
<1>1. mutationQueue[d] \in Seq(Mutation) /\ Len(mutationQueue[d]) > 0
  BY DEF Acknowledge, FsTypeOK
<1>2. m \in Mutation
  BY <1>1
<1>3. remoteDocs' \in [Device -> [Path -> Document]]
  BY <1>2, MutationParts, ApplyToType DEF Acknowledge, FsTypeOK
<1>4. /\ Tail(mutationQueue[d]) \in Seq(Mutation)
      /\ Len(Tail(mutationQueue[d])) = Len(mutationQueue[d]) - 1
  BY <1>1
<1>5. mutationQueue' \in [Device -> Seq(Mutation)]
  BY <1>4 DEF Acknowledge, FsTypeOK
<1>6. /\ applied' \in [Device -> Nat] /\ persisted' \in [Device -> Nat]
      /\ \A e \in Device : applied'[e] <= persisted'[e] /\ persisted'[e] <= Len(mutationQueue'[e])
  BY <1>4 DEF Acknowledge, FsTypeOK
<1>7. {i - 1 : i \in caughtUp[d] \ {1}} \subseteq 1..(applied[d] - 1)
  BY DEF Acknowledge, FsTypeOK
<1>8. /\ caughtUp' \in [Device -> SUBSET Nat]
      /\ \A e \in Device : caughtUp'[e] \subseteq 1..applied'[e]
  BY <1>7 DEF Acknowledge, FsTypeOK
<1> QED  BY <1>3, <1>5, <1>6, <1>8 DEF Acknowledge, FsTypeOK

LEMMA RestartStreamType ==
  ASSUME FsTypeOK, NEW d \in Device,
         applied' = [applied EXCEPT ![d] = 0],
         caughtUp' = [caughtUp EXCEPT ![d] = {}],
         UNCHANGED <<docs, remoteDocs, mutationQueue, persisted>>
  PROVE  FsTypeOK'
  BY DEF FsTypeOK

LEMMA WatchType ==
  ASSUME FsTypeOK, NEW d \in Device, NEW p \in Path, Watch(d, p)
  PROVE  FsTypeOK'
<1>1. remoteDocs' \in [Device -> [Path -> Document]]
  BY DEF Watch, FsTypeOK
<1>2. caughtUp[d] \cup CommittedOn(d, p) \subseteq 1..applied[d]
  BY DEF FsTypeOK, CommittedOn
<1>3. /\ caughtUp' \in [Device -> SUBSET Nat]
      /\ \A e \in Device : caughtUp'[e] \subseteq 1..applied[e]
  BY <1>2 DEF Watch, FsTypeOK
<1> QED  BY <1>1, <1>3 DEF Watch, FsTypeOK

\* What the network and the process do to the client.
Restart(d) ==
  /\ applied' = [applied EXCEPT ![d] = 0]
  /\ caughtUp' = [caughtUp EXCEPT ![d] = {}]
  /\ UNCHANGED <<docs, remoteDocs, mutationQueue, persisted>>

NetworkStep ==
  \/ UNCHANGED fsVars
  \/ \E d \in Device : Persist(d) \/ Commit(d) \/ Acknowledge(d) \/ Restart(d)
  \/ \E d \in Device, p \in Path : Watch(d, p)

LEMMA NetworkType == FsTypeOK /\ NetworkStep => FsTypeOK'
<1>1. ASSUME FsTypeOK, UNCHANGED fsVars PROVE FsTypeOK'
  BY <1>1 DEF fsVars, FsTypeOK
<1>2. ASSUME FsTypeOK, NEW d \in Device, Restart(d) PROVE FsTypeOK'
  BY <1>2, RestartStreamType DEF Restart
<1> QED  BY <1>1, <1>2, PersistType, CommitType, AcknowledgeType, WatchType DEF NetworkStep
-----------------------------------------------------------------------------
(***************************************************************************)
(* Keys.  K[p] are keys of document p that no write takes away.            *)
(***************************************************************************)
Has(doc, k) == \E f \in doc : f.key = k

KeepsKeys(m, K) == m.merge \/ \A k \in K[m.path] : Has(m.fields, k)

\* Every queued write keeps them; what is committed is in the document, what
\* is caught up with is in the cache, and what is in the cache was committed.
KeysKept(K) ==
  /\ \A d \in Device : \A i \in 1..Len(mutationQueue[d]) : KeepsKeys(mutationQueue[d][i], K)
  /\ \A d \in Device : \A i \in 1..applied[d] : \A k \in K[mutationQueue[d][i].path] :
       Has(mutationQueue[d][i].fields, k) => Has(docs[mutationQueue[d][i].path], k)
  /\ \A d \in Device : \A i \in caughtUp[d] : \A k \in K[mutationQueue[d][i].path] :
       Has(mutationQueue[d][i].fields, k) => Has(remoteDocs[d][mutationQueue[d][i].path], k)
  /\ \A d \in Device : \A p \in Path : \A k \in K[p] : Has(remoteDocs[d][p], k) => Has(docs[p], k)

\* No step takes a key out of a document, a cached document or a queue: it
\* may move from the queue into the cached document.
KeysGrow(K) ==
  /\ \A p \in Path : \A k \in K[p] : Has(docs[p], k) => Has(docs'[p], k)
  /\ \A d \in Device : \A p \in Path : \A k \in K[p] :
       Has(remoteDocs[d][p], k) => Has(remoteDocs'[d][p], k)
  /\ \A d \in Device : \A i \in 1..Len(mutationQueue[d]) :
       \A k \in K[mutationQueue[d][i].path] :
         Has(mutationQueue[d][i].fields, k) =>
           \/ Has(remoteDocs'[d][mutationQueue[d][i].path], k)
           \/ \E j \in 1..Len(mutationQueue'[d]) :
                /\ mutationQueue'[d][j].path = mutationQueue[d][i].path
                /\ Has(mutationQueue'[d][j].fields, k)

LEMMA Smallest ==
  ASSUME NEW T \in SUBSET Nat, T # {}
  PROVE  \E x \in T : \A y \in T : x <= y
<1>1. PICK R : R = OpToRel(<, Nat)
  OBVIOUS
<1>2. IsWellFoundedOn(R, Nat)
  BY <1>1, NatLessThanWellFounded
<1>3. PICK x \in T : \A y \in T : ~(<<y, x>> \in R)
  BY <1>2, WFMin
<1>4. \A y \in T : <<y, x>> \in R <=> y < x
  BY <1>1 DEF OpToRel
<1>5. \A y \in T : ~(y < x)
  BY <1>3, <1>4
<1>6. \A y \in T : x <= y
  BY <1>5
<1> QED  BY <1>6

LEMMA Largest ==
  ASSUME NEW n \in Nat, NEW T \in SUBSET (1..n), T # {}
  PROVE  \E x \in T : \A y \in T : y <= x
<1> DEFINE U == {n - i : i \in T}
<1>1. \A y \in T : y \in Nat /\ y <= n /\ n - y \in Nat
  OBVIOUS
<1>2. U \in SUBSET Nat /\ U # {}
  BY <1>1
<1>3. PICK u \in U : \A v \in U : u <= v
  BY <1>2, Smallest
<1>4. PICK x \in T : u = n - x
  OBVIOUS
<1>5. \A y \in T : n - x <= n - y
  BY <1>3, <1>4
<1> QED  BY <1>1, <1>5

\* A key that no write takes away is seen if it is in the cached document or
\* in a queued write: in what the last such write has left.
LEMMA KeysSeen ==
  ASSUME NEW doc \in Document, NEW queue \in Seq(Mutation), NEW p, NEW K, NEW k \in K[p],
         \A i \in 1..Len(queue) : KeepsKeys(queue[i], K)
  PROVE  Has(LocalView(doc, queue, p), k) <=>
           \/ Has(doc, k)
           \/ \E i \in 1..Len(queue) : queue[i].path = p /\ Has(queue[i].fields, k)
<1> DEFINE W == {i \in 1..Len(queue) : queue[i].path = p /\ Has(queue[i].fields, k)}
<1>1. ASSUME NEW f, f.key = k, NEW i \in 1..Len(queue), queue[i].path = p, Overwrites(queue[i], f)
      PROVE  i \in W
  <2>1. KeepsKeys(queue[i], K)
    OBVIOUS
  <2> QED  BY <1>1, <2>1 DEF KeepsKeys, Overwrites, Has
<1>2. CASE W = {}
  <2>1. \A f : f.key = k => Survives(f, queue, 1, p)
    BY <1>1, <1>2 DEF Survives
  <2>2. \A f : f \in LocalView(doc, queue, p) /\ f.key = k => f \in doc
    BY <1>2, InView DEF Has
  <2>3. \A f : f \in doc /\ f.key = k => f \in LocalView(doc, queue, p)
    BY <2>1, InView
  <2> QED  BY <1>2, <2>2, <2>3 DEF Has
<1>3. CASE W # {}
  <2>1. Len(queue) \in Nat /\ W \in SUBSET (1..Len(queue))
    OBVIOUS
  <2>2. PICK n \in W : \A i \in W : i <= n
    BY <1>3, <2>1, Largest
  <2>3. PICK f \in queue[n].fields : f.key = k
    BY DEF Has
  <2>4. Survives(f, queue, n + 1, p)
    <3>1. \A i \in (n + 1)..Len(queue) : i \in 1..Len(queue) /\ ~(i <= n)
      BY <2>1
    <3> QED  BY <1>1, <2>2, <2>3, <3>1 DEF Survives
  <2>5. f \in LocalView(doc, queue, p)
    BY <2>3, <2>4, InView
  <2> QED  BY <2>2, <2>3, <2>5 DEF Has
<1> QED  BY <1>2, <1>3

\* A write that keeps them leaves its own keys and those of the document.
LEMMA KeysApplied ==
  ASSUME NEW m, NEW doc, NEW K, NEW k \in K[m.path], KeepsKeys(m, K)
  PROVE  Has(ApplyTo(m, doc), k) <=> Has(m.fields, k) \/ Has(doc, k)
  BY DEF Has, ApplyTo, Overwrites, KeepsKeys

\* What the invariant says of the next state.
LEMMA NextKeysKept ==
  ASSUME NEW K
  PROVE  KeysKept(K)' <=>
    /\ \A d \in Device : \A i \in 1..Len(mutationQueue'[d]) : KeepsKeys(mutationQueue'[d][i], K)
    /\ \A d \in Device : \A i \in 1..applied'[d] : \A k \in K[mutationQueue'[d][i].path] :
         Has(mutationQueue'[d][i].fields, k) => Has(docs'[mutationQueue'[d][i].path], k)
    /\ \A d \in Device : \A i \in caughtUp'[d] : \A k \in K[mutationQueue'[d][i].path] :
         Has(mutationQueue'[d][i].fields, k) => Has(remoteDocs'[d][mutationQueue'[d][i].path], k)
    /\ \A d \in Device : \A p \in Path : \A k \in K[p] : Has(remoteDocs'[d][p], k) => Has(docs'[p], k)
  BY DEF KeysKept, KeepsKeys, Has

LEMMA KeysKeptInit ==
  ASSUME NEW K, FsInit
  PROVE  KeysKept(K)
  BY DEF FsInit, KeysKept, Has

LEMMA CommitKeepsKeys ==
  ASSUME FsTypeOK, NEW K, KeysKept(K), NEW d \in Device, Commit(d)
  PROVE  KeysKept(K)' /\ KeysGrow(K)
<1>1. UNCHANGED <<remoteDocs, mutationQueue, caughtUp>>
  BY DEF Commit
<1>2. PICK n : n = applied[d] + 1
  OBVIOUS
<1>3. /\ n \in 1..Len(mutationQueue[d]) /\ mutationQueue[d] \in Seq(Mutation)
      /\ applied[d] \in Nat
      /\ applied' = [applied EXCEPT ![d] = n]
      /\ applied \in [Device -> Nat]
  BY <1>2 DEF Commit, FsTypeOK
<1>4. PICK m \in Mutation : m = mutationQueue[d][n]
  BY <1>3
<1>5. KeepsKeys(m, K)
  BY <1>3, <1>4 DEF KeysKept
<1>6. \A p \in Path : docs'[p] = IF p = m.path THEN ApplyTo(m, docs[p]) ELSE docs[p]
  BY <1>2, <1>4 DEF Commit, FsTypeOK
<1>7. \A p \in Path : \A k \in K[p] : Has(docs[p], k) => Has(docs'[p], k)
  BY <1>5, <1>6, KeysApplied
<1>8. \A k \in K[m.path] : Has(m.fields, k) => Has(docs'[m.path], k)
  BY <1>4, <1>5, <1>6, KeysApplied, MutationParts
<1>9. KeysGrow(K)
  BY <1>1, <1>7 DEF KeysGrow
<1>10. ASSUME NEW e \in Device, NEW i \in 1..applied'[e], NEW k \in K[mutationQueue[e][i].path],
              Has(mutationQueue[e][i].fields, k)
       PROVE  Has(docs'[mutationQueue[e][i].path], k)
  <2>1. CASE e = d /\ i = n
    BY <1>4, <1>8, <1>10, <2>1
  <2>2. CASE ~(e = d /\ i = n)
    <3>1. i \in 1..applied[e]
      BY <1>2, <1>3, <2>2
    <3>2. i \in 1..Len(mutationQueue[e]) /\ mutationQueue[e] \in Seq(Mutation)
      BY <3>1 DEF FsTypeOK
    <3>3. mutationQueue[e][i].path \in Path
      BY <3>2, MutationParts
    <3> QED  BY <1>7, <1>10, <3>1, <3>3 DEF KeysKept
  <2> QED  BY <2>1, <2>2
<1>11. \A e \in Device : \A p \in Path : \A k \in K[p] : Has(remoteDocs[e][p], k) => Has(docs'[p], k)
  BY <1>7 DEF KeysKept
<1>12. \A e \in Device : \A i \in caughtUp[e] : \A k \in K[mutationQueue[e][i].path] :
         Has(mutationQueue[e][i].fields, k) => Has(remoteDocs[e][mutationQueue[e][i].path], k)
  BY DEF KeysKept
<1>13. \A e \in Device : \A i \in 1..Len(mutationQueue[e]) : KeepsKeys(mutationQueue[e][i], K)
  BY DEF KeysKept
<1> QED  BY <1>1, <1>9, <1>10, <1>11, <1>12, <1>13, NextKeysKept

LEMMA AcknowledgeKeepsKeys ==
  ASSUME FsTypeOK, NEW K, KeysKept(K), NEW d \in Device, Acknowledge(d)
  PROVE  KeysKept(K)' /\ KeysGrow(K)
<1> DEFINE q == mutationQueue[d]
<1>1. docs' = docs /\ q \in Seq(Mutation) /\ applied[d] \in Nat /\ applied[d] > 0
      /\ applied[d] <= Len(q) /\ Len(q) > 0
  BY DEF Acknowledge, FsTypeOK
<1>2. PICK m \in Mutation : m = q[1]
  BY <1>1
<1>3. m.path \in Path /\ KeepsKeys(m, K) /\ 1 \in 1..applied[d] /\ 1 \in 1..Len(q)
  BY <1>1, <1>2, MutationParts DEF KeysKept
<1>4. \A e \in Device : \A p \in Path :
        remoteDocs'[e][p] = IF e = d /\ p = m.path /\ 1 \notin caughtUp[d]
                            THEN ApplyTo(m, remoteDocs[e][p]) ELSE remoteDocs[e][p]
  <2>1. Head(q) = m
    BY <1>1, <1>2
  <2> QED  BY <2>1, <1>3 DEF Acknowledge, FsTypeOK
<1>5. \A e \in Device : e # d => /\ mutationQueue'[e] = mutationQueue[e]
                                 /\ applied'[e] = applied[e] /\ caughtUp'[e] = caughtUp[e]
  BY DEF Acknowledge, FsTypeOK
<1>6. /\ mutationQueue'[d] = Tail(q) /\ applied'[d] = applied[d] - 1
      /\ caughtUp'[d] = {i - 1 : i \in caughtUp[d] \ {1}}
  BY DEF Acknowledge, FsTypeOK
<1>7. /\ Len(Tail(q)) = Len(q) - 1
      /\ \A i \in 1..Len(Tail(q)) : Tail(q)[i] = q[i + 1] /\ i + 1 \in 1..Len(q)
  BY <1>1, TailOfQueue
<1>8. \A e \in Device : \A p \in Path : \A k \in K[p] :
        Has(remoteDocs[e][p], k) => Has(remoteDocs'[e][p], k)
  BY <1>3, <1>4, KeysApplied
<1>9. \A k \in K[m.path] : Has(m.fields, k) => Has(remoteDocs'[d][m.path], k) /\ Has(docs[m.path], k)
  <2>1. \A k \in K[m.path] : Has(m.fields, k) => Has(docs[m.path], k)
    BY <1>2, <1>3 DEF KeysKept
  <2>2. \A k \in K[m.path] : Has(m.fields, k) => Has(remoteDocs'[d][m.path], k)
    <3>1. CASE 1 \in caughtUp[d]
      BY <1>2, <1>3, <1>4, <3>1 DEF KeysKept
    <3>2. CASE 1 \notin caughtUp[d]
      BY <1>3, <1>4, <3>2, KeysApplied
    <3> QED  BY <3>1, <3>2
  <2> QED  BY <2>1, <2>2
<1>10. KeysGrow(K)
  <2>1. ASSUME NEW e \in Device, NEW i \in 1..Len(mutationQueue[e]),
               NEW k \in K[mutationQueue[e][i].path], Has(mutationQueue[e][i].fields, k)
        PROVE  \/ Has(remoteDocs'[e][mutationQueue[e][i].path], k)
               \/ \E j \in 1..Len(mutationQueue'[e]) :
                    /\ mutationQueue'[e][j].path = mutationQueue[e][i].path
                    /\ Has(mutationQueue'[e][j].fields, k)
    <3>1. CASE e # d
      BY <1>5, <2>1, <3>1
    <3>2. CASE e = d /\ i = 1
      BY <1>2, <1>9, <2>1, <3>2
    <3>3. CASE e = d /\ i # 1
      <4>1. i - 1 \in 1..Len(Tail(q)) /\ (i - 1) + 1 = i
        BY <1>1, <1>7, <3>3
      <4>2. mutationQueue'[e][i - 1] = mutationQueue[e][i]
        BY <1>6, <1>7, <3>3, <4>1
      <4> QED  BY <1>6, <2>1, <3>3, <4>1, <4>2
    <3> QED  BY <3>1, <3>2, <3>3
  <2> QED  BY <1>1, <1>8, <2>1 DEF KeysGrow
<1>11. ASSUME NEW e \in Device, NEW i \in 1..Len(mutationQueue'[e])
       PROVE  KeepsKeys(mutationQueue'[e][i], K)
  <2>1. CASE e # d
    BY <1>5, <2>1 DEF KeysKept
  <2>2. CASE e = d
    <3>1. mutationQueue'[e][i] = q[i + 1] /\ i + 1 \in 1..Len(q)
      BY <1>6, <1>7, <2>2
    <3> QED  BY <3>1 DEF KeysKept
  <2> QED  BY <2>1, <2>2
<1>12. ASSUME NEW e \in Device, NEW i \in 1..applied'[e], NEW k \in K[mutationQueue'[e][i].path],
              Has(mutationQueue'[e][i].fields, k)
       PROVE  Has(docs[mutationQueue'[e][i].path], k)
  <2>1. CASE e # d
    BY <1>5, <1>12, <2>1 DEF KeysKept
  <2>2. CASE e = d
    <3>1. i + 1 \in 1..applied[d] /\ i \in 1..Len(Tail(q))
      BY <1>1, <1>6, <1>7, <2>2
    <3>2. mutationQueue'[e][i] = q[i + 1]
      BY <1>6, <1>7, <2>2, <3>1
    <3> QED  BY <1>12, <3>1, <3>2 DEF KeysKept
  <2> QED  BY <2>1, <2>2
<1>13. ASSUME NEW e \in Device, NEW i \in caughtUp'[e], NEW k \in K[mutationQueue'[e][i].path],
              Has(mutationQueue'[e][i].fields, k)
       PROVE  Has(remoteDocs'[e][mutationQueue'[e][i].path], k)
  <2>1. CASE e # d
    <3>1. i \in 1..Len(mutationQueue[e]) /\ mutationQueue[e] \in Seq(Mutation)
      BY <1>5, <1>13, <2>1 DEF FsTypeOK
    <3>2. mutationQueue[e][i].path \in Path
      BY <3>1, MutationParts
    <3>3. Has(remoteDocs[e][mutationQueue[e][i].path], k)
      BY <1>5, <1>13, <2>1 DEF KeysKept
    <3> QED  BY <1>5, <1>8, <1>13, <2>1, <3>2, <3>3
  <2>2. CASE e = d
    <3>1. PICK j \in caughtUp[d] \ {1} : i = j - 1
      BY <1>6, <2>2
    <3>2. j \in 1..applied[d] /\ j # 1
      BY <3>1 DEF FsTypeOK
    <3>3. i + 1 = j /\ i \in 1..Len(Tail(q)) /\ j \in 1..Len(q)
      BY <1>1, <1>7, <3>1, <3>2
    <3>4. mutationQueue'[e][i] = q[j]
      BY <1>6, <1>7, <2>2, <3>3
    <3>5. q[j].path \in Path
      BY <1>1, <3>3, MutationParts
    <3>6. Has(remoteDocs[d][q[j].path], k)
      BY <1>13, <3>1, <3>4 DEF KeysKept
    <3> QED  BY <1>8, <1>13, <2>2, <3>4, <3>5, <3>6
  <2> QED  BY <2>1, <2>2
<1>14. ASSUME NEW e \in Device, NEW p \in Path, NEW k \in K[p], Has(remoteDocs'[e][p], k)
       PROVE  Has(docs[p], k)
  <2>1. Has(remoteDocs[e][p], k) => Has(docs[p], k)
    BY DEF KeysKept
  <2>2. CASE remoteDocs'[e][p] = remoteDocs[e][p]
    BY <1>14, <2>1, <2>2
  <2>3. CASE p = m.path /\ remoteDocs'[e][p] = ApplyTo(m, remoteDocs[e][p])
    <3>1. Has(m.fields, k) \/ Has(remoteDocs[e][p], k)
      BY <1>3, <1>14, <2>3, KeysApplied
    <3> QED  BY <1>9, <2>1, <2>3, <3>1
  <2> QED  BY <1>4, <2>2, <2>3
<1> QED  BY <1>1, <1>10, <1>11, <1>12, <1>13, <1>14, NextKeysKept

LEMMA RestartKeepsKeys ==
  ASSUME FsTypeOK, NEW K, KeysKept(K), NEW d \in Device, Restart(d)
  PROVE  KeysKept(K)' /\ KeysGrow(K)
<1>1. UNCHANGED <<docs, remoteDocs, mutationQueue>>
  BY DEF Restart
<1>2. \A e \in Device : \/ applied'[e] = applied[e] /\ caughtUp'[e] = caughtUp[e]
                        \/ applied'[e] = 0 /\ caughtUp'[e] = {}
  BY DEF Restart, FsTypeOK
<1>3. \A e \in Device : 1..applied'[e] \subseteq 1..applied[e] /\ caughtUp'[e] \subseteq caughtUp[e]
  BY <1>2
<1>4. KeysGrow(K)
  BY <1>1 DEF KeysGrow
<1>5. /\ \A e \in Device : \A i \in 1..applied'[e] : i \in 1..applied[e]
      /\ \A e \in Device : \A i \in caughtUp'[e] : i \in caughtUp[e]
  BY <1>3
<1> QED  BY <1>1, <1>4, <1>5, NextKeysKept DEF KeysKept

LEMMA WatchKeepsKeys ==
  ASSUME FsTypeOK, NEW K, KeysKept(K), NEW d \in Device, NEW p \in Path, Watch(d, p)
  PROVE  KeysKept(K)' /\ KeysGrow(K)
<1>1. UNCHANGED <<docs, mutationQueue, applied>>
  BY DEF Watch
<1>2. \A e \in Device : \A x \in Path :
        remoteDocs'[e][x] = IF e = d /\ x = p THEN docs[x] ELSE remoteDocs[e][x]
  BY DEF Watch, FsTypeOK
<1>3. \A e \in Device : caughtUp'[e] = IF e = d THEN caughtUp[e] \cup CommittedOn(d, p) ELSE caughtUp[e]
  BY DEF Watch, FsTypeOK
<1>4. \A e \in Device : \A x \in Path : \A k \in K[x] :
        Has(remoteDocs[e][x], k) => Has(remoteDocs'[e][x], k)
  BY <1>2 DEF KeysKept
<1>5. KeysGrow(K)
  BY <1>1, <1>4 DEF KeysGrow
<1>6. ASSUME NEW e \in Device, NEW i \in caughtUp'[e], NEW k \in K[mutationQueue[e][i].path],
             Has(mutationQueue[e][i].fields, k)
      PROVE  Has(remoteDocs'[e][mutationQueue[e][i].path], k)
  <2>1. CASE i \in caughtUp[e]
    <3>1. i \in 1..Len(mutationQueue[e]) /\ mutationQueue[e] \in Seq(Mutation)
      BY <2>1 DEF FsTypeOK
    <3>2. mutationQueue[e][i].path \in Path
      BY <3>1, MutationParts
    <3> QED  BY <1>4, <1>6, <2>1, <3>2 DEF KeysKept
  <2>2. CASE e = d /\ i \in CommittedOn(d, p)
    <3>1. i \in 1..applied[d] /\ mutationQueue[e][i].path = p
      BY <2>2 DEF CommittedOn
    <3>2. Has(docs[p], k)
      BY <1>6, <2>2, <3>1 DEF KeysKept
    <3> QED  BY <1>2, <2>2, <3>1, <3>2
  <2> QED  BY <1>3, <2>1, <2>2
<1>7. \A e \in Device : \A x \in Path : \A k \in K[x] : Has(remoteDocs'[e][x], k) => Has(docs[x], k)
  BY <1>2 DEF KeysKept
<1> QED  BY <1>1, <1>5, <1>6, <1>7, NextKeysKept DEF KeysKept

LEMMA WriteKeepsKeys ==
  ASSUME FsTypeOK, NEW K, KeysKept(K), NEW d \in Device, NEW ms \in Seq(Mutation),
         LocallyWrite(d, ms), \A i \in 1..Len(ms) : KeepsKeys(ms[i], K)
  PROVE  KeysKept(K)' /\ KeysGrow(K)
<1> DEFINE q == mutationQueue[d]
<1>1. UNCHANGED <<docs, remoteDocs, applied, caughtUp>>
  BY DEF LocallyWrite
<1>2. q \in Seq(Mutation) /\ mutationQueue'[d] = q \o ms
      /\ \A e \in Device : e # d => mutationQueue'[e] = mutationQueue[e]
  BY DEF LocallyWrite, FsTypeOK
<1>3. \A e \in Device : \A i \in 1..Len(mutationQueue[e]) :
        i \in 1..Len(mutationQueue'[e]) /\ mutationQueue'[e][i] = mutationQueue[e][i]
  <2>1. \A i \in 1..Len(q) : i \in 1..Len(q \o ms) /\ (q \o ms)[i] = q[i]
    BY <1>2, ConcatQueues
  <2> QED  BY <1>2, <2>1
<1>4. \A e \in Device : \A i \in 1..applied[e] : i \in 1..Len(mutationQueue[e])
  BY DEF FsTypeOK
<1>5. \A e \in Device : \A i \in caughtUp[e] : i \in 1..Len(mutationQueue[e])
  BY <1>4 DEF FsTypeOK
<1>6. ASSUME NEW e \in Device, NEW i \in 1..Len(mutationQueue'[e])
      PROVE  KeepsKeys(mutationQueue'[e][i], K)
  <2>1. CASE i \in 1..Len(mutationQueue[e])
    BY <1>3, <2>1 DEF KeysKept
  <2>2. CASE i \notin 1..Len(mutationQueue[e])
    <3>1. e = d
      BY <1>2, <2>2
    <3>2. i - Len(q) \in 1..Len(ms) /\ (q \o ms)[i] = ms[i - Len(q)]
      BY <1>2, <2>2, <3>1, ConcatQueues
    <3> QED  BY <1>2, <3>1, <3>2
  <2> QED  BY <2>1, <2>2
<1>7. KeysGrow(K)
  BY <1>1, <1>3 DEF KeysGrow
<1>8. \A e \in Device : \A i \in 1..applied[e] : \A k \in K[mutationQueue'[e][i].path] :
        Has(mutationQueue'[e][i].fields, k) => Has(docs[mutationQueue'[e][i].path], k)
  BY <1>3, <1>4 DEF KeysKept
<1>9. \A e \in Device : \A i \in caughtUp[e] : \A k \in K[mutationQueue'[e][i].path] :
        Has(mutationQueue'[e][i].fields, k) => Has(remoteDocs[e][mutationQueue'[e][i].path], k)
  BY <1>3, <1>5 DEF KeysKept
<1>10. \A e \in Device : \A p \in Path : \A k \in K[p] : Has(remoteDocs[e][p], k) => Has(docs[p], k)
  BY DEF KeysKept
<1> QED  BY <1>1, <1>6, <1>7, <1>8, <1>9, <1>10, NextKeysKept

LEMMA NetworkKeepsKeys ==
  ASSUME FsTypeOK, NEW K, KeysKept(K), NetworkStep
  PROVE  KeysKept(K)' /\ KeysGrow(K)
<1>1. CASE UNCHANGED fsVars
  BY <1>1 DEF fsVars, KeysKept, KeysGrow, KeepsKeys, Has
<1>2. ASSUME NEW d \in Device, Persist(d) PROVE KeysKept(K)' /\ KeysGrow(K)
  BY <1>2 DEF Persist, KeysKept, KeysGrow, KeepsKeys, Has
<1> QED  BY <1>1, <1>2, CommitKeepsKeys, AcknowledgeKeepsKeys, RestartKeepsKeys, WatchKeepsKeys DEF NetworkStep

\* What a device sees does not lose them either.
LEMMA ViewsGrow ==
  ASSUME FsTypeOK, FsTypeOK', NEW K, KeysKept(K), KeysKept(K)', KeysGrow(K),
         NEW d \in Device, NEW p \in Path, NEW k \in K[p], Has(View(d, p), k)
  PROVE  Has(LocalView(remoteDocs'[d][p], mutationQueue'[d], p), k)
<1>1. /\ remoteDocs[d][p] \in Document /\ mutationQueue[d] \in Seq(Mutation)
      /\ remoteDocs'[d][p] \in Document /\ mutationQueue'[d] \in Seq(Mutation)
  BY DEF FsTypeOK
<1>2. \A i \in 1..Len(mutationQueue[d]) : KeepsKeys(mutationQueue[d][i], K)
  BY DEF KeysKept
<1>3. \A i \in 1..Len(mutationQueue'[d]) : KeepsKeys(mutationQueue'[d][i], K)
  BY NextKeysKept
<1>4. \/ Has(remoteDocs[d][p], k)
      \/ \E i \in 1..Len(mutationQueue[d]) :
           mutationQueue[d][i].path = p /\ Has(mutationQueue[d][i].fields, k)
  BY <1>1, <1>2, KeysSeen DEF View
<1>5. \/ Has(remoteDocs'[d][p], k)
      \/ \E j \in 1..Len(mutationQueue'[d]) :
           mutationQueue'[d][j].path = p /\ Has(mutationQueue'[d][j].fields, k)
  <2>1. CASE Has(remoteDocs[d][p], k)
    BY <2>1 DEF KeysGrow
  <2>2. ASSUME NEW i \in 1..Len(mutationQueue[d]), mutationQueue[d][i].path = p,
               Has(mutationQueue[d][i].fields, k)
        PROVE  \/ Has(remoteDocs'[d][p], k)
               \/ \E j \in 1..Len(mutationQueue'[d]) :
                    mutationQueue'[d][j].path = p /\ Has(mutationQueue'[d][j].fields, k)
    BY <2>2 DEF KeysGrow
  <2> QED  BY <1>4, <2>1, <2>2
<1> QED  BY <1>1, <1>3, <1>5, KeysSeen
-----------------------------------------------------------------------------
(***************************************************************************)
(* Fields.  A[p] are the only fields anybody writes to document p.         *)
(***************************************************************************)
OnlyFields(A) ==
  /\ \A d \in Device : \A i \in 1..Len(mutationQueue[d]) :
       mutationQueue[d][i].fields \subseteq A[mutationQueue[d][i].path]
  /\ \A p \in Path : docs[p] \subseteq A[p]
  /\ \A d \in Device : \A p \in Path : remoteDocs[d][p] \subseteq A[p]

LEMMA OnlyFieldsInit ==
  ASSUME NEW A, FsInit
  PROVE  OnlyFields(A)
  BY DEF FsInit, OnlyFields

LEMMA OnlyFieldsSeen ==
  ASSUME FsTypeOK, NEW A, OnlyFields(A), NEW d \in Device, NEW p \in Path
  PROVE  View(d, p) \subseteq A[p]
<1>1. remoteDocs[d][p] \in Document /\ mutationQueue[d] \in Seq(Mutation)
  BY DEF FsTypeOK
<1>2. ASSUME NEW f \in View(d, p) PROVE f \in A[p]
  <2>1. \/ f \in remoteDocs[d][p]
        \/ \E i \in 1..Len(mutationQueue[d]) :
             mutationQueue[d][i].path = p /\ f \in mutationQueue[d][i].fields
    BY <1>1, <1>2, InView DEF View
  <2> QED  BY <2>1 DEF OnlyFields
<1> QED  BY <1>2

LEMMA WriteOnlyFields ==
  ASSUME FsTypeOK, NEW A, OnlyFields(A), NEW d \in Device, NEW ms \in Seq(Mutation),
         LocallyWrite(d, ms), \A i \in 1..Len(ms) : ms[i].fields \subseteq A[ms[i].path]
  PROVE  OnlyFields(A)'
<1> DEFINE q == mutationQueue[d]
<1>1. UNCHANGED <<docs, remoteDocs>>
  BY DEF LocallyWrite
<1>2. q \in Seq(Mutation) /\ mutationQueue'[d] = q \o ms
      /\ \A e \in Device : e # d => mutationQueue'[e] = mutationQueue[e]
  BY DEF LocallyWrite, FsTypeOK
<1>3. ASSUME NEW i \in 1..Len(q \o ms)
      PROVE  (q \o ms)[i].fields \subseteq A[(q \o ms)[i].path]
  <2>1. CASE i \in 1..Len(q)
    <3>1. (q \o ms)[i] = q[i]
      BY <1>2, <2>1, ConcatQueues
    <3> QED  BY <2>1, <3>1 DEF OnlyFields
  <2>2. CASE i - Len(q) \in 1..Len(ms) /\ (q \o ms)[i] = ms[i - Len(q)]
    BY <2>2
  <2> QED  BY <1>2, <2>1, <2>2, ConcatQueues
<1> QED  BY <1>1, <1>2, <1>3 DEF OnlyFields

LEMMA NetworkOnlyFields ==
  ASSUME FsTypeOK, NEW A, OnlyFields(A), NetworkStep
  PROVE  OnlyFields(A)'
<1>1. CASE UNCHANGED fsVars
  BY <1>1 DEF fsVars, OnlyFields
<1>2. ASSUME NEW d \in Device, Commit(d) PROVE OnlyFields(A)'
  <2>1. applied[d] + 1 \in 1..Len(mutationQueue[d])
    BY <1>2 DEF Commit, FsTypeOK
  <2>2. PICK m : m = mutationQueue[d][applied[d] + 1]
    OBVIOUS
  <2>3. m.fields \subseteq A[m.path]
    BY <2>1, <2>2 DEF OnlyFields
  <2>4. \A p \in Path : docs'[p] = IF p = m.path THEN ApplyTo(m, docs[p]) ELSE docs[p]
    BY <1>2, <2>2 DEF Commit, FsTypeOK
  <2>5. \A p \in Path : docs'[p] \subseteq A[p]
    BY <2>3, <2>4 DEF OnlyFields, ApplyTo
  <2> QED  BY <1>2, <2>5 DEF Commit, OnlyFields
<1>3. ASSUME NEW d \in Device, Acknowledge(d) PROVE OnlyFields(A)'
  <2>1. /\ mutationQueue[d] \in Seq(Mutation) /\ Len(mutationQueue[d]) > 0
        /\ 1 \in 1..Len(mutationQueue[d])
    BY <1>3 DEF Acknowledge, FsTypeOK
  <2>2. PICK m : m = Head(mutationQueue[d])
    OBVIOUS
  <2>3. m.fields \subseteq A[m.path]
    BY <2>1, <2>2, TailOfQueue DEF OnlyFields
  <2>4. \A e \in Device : \A p \in Path :
          \/ remoteDocs'[e][p] = remoteDocs[e][p]
          \/ p = m.path /\ remoteDocs'[e][p] = ApplyTo(m, remoteDocs[e][p])
    BY <1>3, <2>2 DEF Acknowledge, FsTypeOK
  <2>5. \A e \in Device : \A p \in Path : remoteDocs'[e][p] \subseteq A[p]
    BY <2>3, <2>4 DEF OnlyFields, ApplyTo
  <2>6. \A i \in 1..Len(Tail(mutationQueue[d])) :
          /\ Tail(mutationQueue[d])[i] = mutationQueue[d][i + 1]
          /\ i + 1 \in 1..Len(mutationQueue[d])
    BY <2>1, TailOfQueue
  <2>7. \A e \in Device : mutationQueue'[e] = IF e = d THEN Tail(mutationQueue[d])
                                                    ELSE mutationQueue[e]
    BY <1>3 DEF Acknowledge, FsTypeOK
  <2>8. \A e \in Device : \A i \in 1..Len(mutationQueue'[e]) :
          mutationQueue'[e][i].fields \subseteq A[mutationQueue'[e][i].path]
    <3>1. \A i \in 1..Len(Tail(mutationQueue[d])) :
            Tail(mutationQueue[d])[i].fields \subseteq A[Tail(mutationQueue[d])[i].path]
      BY <2>6 DEF OnlyFields
    <3>2. \A e \in Device : e # d => mutationQueue'[e] = mutationQueue[e]
      BY <2>7
    <3>3. mutationQueue'[d] = Tail(mutationQueue[d])
      BY <2>7
    <3> QED  BY <3>1, <3>2, <3>3 DEF OnlyFields
  <2>9. docs' = docs
    BY <1>3 DEF Acknowledge
  <2> QED  BY <2>5, <2>8, <2>9 DEF OnlyFields
<1>4. ASSUME NEW d \in Device, Persist(d) \/ Restart(d) PROVE OnlyFields(A)'
  BY <1>4 DEF Persist, Restart, OnlyFields
<1>5. ASSUME NEW d \in Device, NEW p \in Path, Watch(d, p) PROVE OnlyFields(A)'
  <2>1. \A e \in Device : \A x \in Path :
          \/ remoteDocs'[e][x] = remoteDocs[e][x]
          \/ remoteDocs'[e][x] = docs[x]
    BY <1>5 DEF Watch, FsTypeOK
  <2> QED  BY <1>5, <2>1 DEF Watch, OnlyFields
<1> QED  BY <1>1, <1>2, <1>3, <1>4, <1>5 DEF NetworkStep
-----------------------------------------------------------------------------
(***************************************************************************)
(* Order.  N[d][m] are the <<document, key>> a device d writes, or knows   *)
(* to be written, before it writes m.                                      *)
(***************************************************************************)
\* Key k of document p is committed, or queued at a position below n.
Before(doc, queue, n, p, k) ==
  \/ Has(doc, k)
  \/ \E j \in 1..Len(queue) : j < n /\ queue[j].path = p /\ Has(queue[j].fields, k)

\* ... or queued at all.
WillHave(d, p, k) ==
  \/ Has(docs[p], k)
  \/ \E j \in 1..Len(mutationQueue[d]) :
       mutationQueue[d][j].path = p /\ Has(mutationQueue[d][j].fields, k)

KeysNeeded(N, K) ==
  \A d \in Device : \A m \in Mutation : \A r \in N[d][m] : r[1] \in Path /\ r[2] \in K[r[1]]

InOrder(N) ==
  \A d \in Device : \A n \in 1..Len(mutationQueue[d]) : \A r \in N[d][mutationQueue[d][n]] :
    Before(docs[r[1]], mutationQueue[d], n, r[1], r[2])

LEMMA NextInOrder ==
  ASSUME NEW N
  PROVE  InOrder(N)' <=>
    \A d \in Device : \A n \in 1..Len(mutationQueue'[d]) : \A r \in N[d][mutationQueue'[d][n]] :
      Before(docs'[r[1]], mutationQueue'[d], n, r[1], r[2])
  BY DEF InOrder, Before, Has

LEMMA NextWillHave ==
  ASSUME NEW d, NEW p, NEW k
  PROVE  WillHave(d, p, k)' <=>
    \/ Has(docs'[p], k)
    \/ \E j \in 1..Len(mutationQueue'[d]) :
         mutationQueue'[d][j].path = p /\ Has(mutationQueue'[d][j].fields, k)
  BY DEF WillHave, Has

LEMMA InOrderInit ==
  ASSUME NEW N, FsInit
  PROVE  InOrder(N)
  BY DEF FsInit, InOrder

\* What is queued before a write is committed by the time it is.
LEMMA CommittedBefore ==
  ASSUME FsTypeOK, NEW K, KeysKept(K), NEW d \in Device, NEW p \in Path, NEW k \in K[p],
         NEW n, n = applied[d] + 1 \/ n \in 1..applied[d],
         Before(docs[p], mutationQueue[d], n, p, k)
  PROVE  Has(docs[p], k)
<1>1. ASSUME NEW j \in 1..Len(mutationQueue[d]), j < n, mutationQueue[d][j].path = p,
             Has(mutationQueue[d][j].fields, k)
      PROVE  Has(docs[p], k)
  <2>1. applied[d] \in Nat
    BY DEF FsTypeOK
  <2>2. j \in 1..applied[d]
    BY <1>1, <2>1
  <2> QED  BY <1>1, <2>2 DEF KeysKept
<1> QED  BY <1>1 DEF Before

LEMMA QueueGoesOn ==
  ASSUME NEW doc, NEW docNext, NEW queue, NEW queueNext, NEW n, NEW p, NEW k,
         Has(doc, k) => Has(docNext, k),
         \A j \in 1..Len(queue) : j \in 1..Len(queueNext) /\ queueNext[j] = queue[j],
         Before(doc, queue, n, p, k)
  PROVE  Before(docNext, queueNext, n, p, k)
  BY DEF Before

\* An answered write is committed.
LEMMA QueueMovesUp ==
  ASSUME FsTypeOK, NEW K, KeysKept(K), NEW d \in Device, NEW p \in Path, NEW k \in K[p],
         Acknowledge(d), NEW n \in Nat, Before(docs[p], mutationQueue[d], n + 1, p, k)
  PROVE  Before(docs[p], Tail(mutationQueue[d]), n, p, k)
<1> DEFINE q == mutationQueue[d]
<1>1. q \in Seq(Mutation) /\ Len(q) > 0 /\ 1 \in 1..applied[d]
  BY DEF Acknowledge, FsTypeOK
<1>2. ASSUME NEW j \in 1..Len(q), j < n + 1, q[j].path = p, Has(q[j].fields, k)
      PROVE  Before(docs[p], Tail(q), n, p, k)
  <2>1. CASE j = 1
    <3>1. Has(docs[p], k)
      BY <1>1, <1>2, <2>1 DEF KeysKept
    <3> QED  BY <3>1 DEF Before
  <2>2. CASE j # 1
    <3>1. j - 1 \in 1..Len(Tail(q)) /\ j - 1 < n /\ (j - 1) + 1 = j
      BY <1>1, <1>2, <2>2, TailOfQueue
    <3>2. Tail(q)[j - 1] = q[j]
      BY <1>1, <3>1, TailOfQueue
    <3> QED  BY <1>2, <3>1, <3>2 DEF Before
  <2> QED  BY <2>1, <2>2
<1> QED  BY <1>2 DEF Before

\* What a step other than an answer does to documents and queues.
LEMMA NetworkQueues ==
  ASSUME FsTypeOK, NetworkStep
  PROVE  \A d \in Device : mutationQueue'[d] = mutationQueue[d] \/ Acknowledge(d)
  BY DEF NetworkStep, fsVars, Persist, Commit, Acknowledge, Restart, Watch, FsTypeOK

\* Where the writes of the next queue, and what a document has next, come from.
LEMMA NetworkEntries ==
  ASSUME FsTypeOK, NetworkStep, NEW d \in Device, NEW i \in 1..Len(mutationQueue'[d])
  PROVE  \E j \in 1..Len(mutationQueue[d]) : mutationQueue'[d][i] = mutationQueue[d][j]
<1>1. CASE mutationQueue'[d] = mutationQueue[d]
  BY <1>1
<1>2. CASE Acknowledge(d)
  <2>1. /\ mutationQueue[d] \in Seq(Mutation) /\ Len(mutationQueue[d]) > 0
        /\ mutationQueue'[d] = Tail(mutationQueue[d])
    BY <1>2 DEF Acknowledge, FsTypeOK
  <2>2. i + 1 \in 1..Len(mutationQueue[d])
        /\ mutationQueue'[d][i] = mutationQueue[d][i + 1]
    BY <2>1, TailOfQueue
  <2> QED  BY <2>2
<1> QED  BY <1>1, <1>2, NetworkQueues

LEMMA WriteEntries ==
  ASSUME FsTypeOK, NEW d \in Device, NEW ms \in Seq(Mutation), LocallyWrite(d, ms),
         NEW e \in Device, NEW i \in 1..Len(mutationQueue'[e])
  PROVE  \/ \E j \in 1..Len(mutationQueue[e]) : mutationQueue'[e][i] = mutationQueue[e][j]
         \/ e = d /\ \E j \in 1..Len(ms) : mutationQueue'[e][i] = ms[j]
<1>1. mutationQueue'[d] = mutationQueue[d] \o ms /\ mutationQueue[d] \in Seq(Mutation)
      /\ (e # d => mutationQueue'[e] = mutationQueue[e])
  BY DEF LocallyWrite, FsTypeOK
<1>2. CASE e # d
  BY <1>1, <1>2
<1>3. CASE e = d
  <2>1. PICK q \in Seq(Mutation) : q = mutationQueue[d]
    BY <1>1
  <2>2. i \in 1..Len(q \o ms) /\ mutationQueue'[e][i] = (q \o ms)[i]
    BY <1>1, <1>3, <2>1
  <2>3. \/ i \in 1..Len(q) /\ (q \o ms)[i] = q[i]
        \/ i - Len(q) \in 1..Len(ms) /\ (q \o ms)[i] = ms[i - Len(q)]
    BY <2>2, ConcatQueues
  <2> QED  BY <1>3, <2>1, <2>2, <2>3
<1> QED  BY <1>2, <1>3

\* Only a commit changes a document, and only by what it commits.
LEMMA NetworkDocs ==
  ASSUME FsTypeOK, NetworkStep, NEW p \in Path
  PROVE  \/ docs'[p] = docs[p]
         \/ \E d \in Device : \E n \in 1..Len(mutationQueue[d]) :
              /\ Commit(d) /\ n = applied[d] + 1
              /\ mutationQueue[d][n].path = p
              /\ docs'[p] = ApplyTo(mutationQueue[d][n], docs[p])
<1>1. CASE docs' = docs
  BY <1>1
<1>2. ASSUME NEW d \in Device, Commit(d)
      PROVE  \/ docs'[p] = docs[p]
             \/ \E n \in 1..Len(mutationQueue[d]) :
                  /\ n = applied[d] + 1
                  /\ mutationQueue[d][n].path = p
                  /\ docs'[p] = ApplyTo(mutationQueue[d][n], docs[p])
  <2>1. PICK n \in 1..Len(mutationQueue[d]) : n = applied[d] + 1
    BY <1>2 DEF Commit, FsTypeOK
  <2>2. PICK m : m = mutationQueue[d][n]
    OBVIOUS
  <2>3. docs'[p] = IF p = m.path THEN ApplyTo(m, docs[p]) ELSE docs[p]
    BY <1>2, <2>1, <2>2 DEF Commit, FsTypeOK
  <2> QED  BY <2>1, <2>2, <2>3
<1>3. docs' = docs \/ \E d \in Device : Commit(d)
  BY DEF NetworkStep, fsVars, Persist, Acknowledge, Restart, Watch
<1> QED  BY <1>1, <1>2, <1>3

LEMMA NetworkBrings ==
  ASSUME FsTypeOK, NetworkStep, NEW p \in Path, NEW k, Has(docs'[p], k)
  PROVE  \/ Has(docs[p], k)
         \/ \E d \in Device : \E n \in 1..Len(mutationQueue[d]) :
              /\ Commit(d) /\ n = applied[d] + 1
              /\ mutationQueue[d][n].path = p /\ Has(mutationQueue[d][n].fields, k)
<1>1. ASSUME NEW m, docs'[p] = ApplyTo(m, docs[p]) PROVE Has(m.fields, k) \/ Has(docs[p], k)
  BY <1>1 DEF Has, ApplyTo
<1> QED  BY <1>1, NetworkDocs

\* A cached document changes to the backend's, or by the write that is answered.
LEMMA NetworkCaches ==
  ASSUME FsTypeOK, NetworkStep, NEW d \in Device, NEW p \in Path
  PROVE  \/ remoteDocs'[d][p] = remoteDocs[d][p]
         \/ remoteDocs'[d][p] = docs[p]
         \/ /\ Acknowledge(d) /\ mutationQueue[d][1].path = p
            /\ remoteDocs'[d][p] = ApplyTo(mutationQueue[d][1], remoteDocs[d][p])
<1>1. ASSUME NEW e \in Device, Acknowledge(e)
      PROVE  \/ remoteDocs'[d][p] = remoteDocs[d][p]
             \/ /\ Acknowledge(d) /\ mutationQueue[d][1].path = p
                /\ remoteDocs'[d][p] = ApplyTo(mutationQueue[d][1], remoteDocs[d][p])
  <2>1. Head(mutationQueue[e]) = mutationQueue[e][1]
    OBVIOUS
  <2> QED  BY <1>1, <2>1 DEF Acknowledge, FsTypeOK
<1>2. ASSUME NEW e \in Device, NEW x \in Path, Watch(e, x)
      PROVE  remoteDocs'[d][p] = remoteDocs[d][p] \/ remoteDocs'[d][p] = docs[p]
  BY <1>2 DEF Watch, FsTypeOK
<1>3. \/ remoteDocs' = remoteDocs
      \/ \E e \in Device : Acknowledge(e)
      \/ \E e \in Device, x \in Path : Watch(e, x)
  BY DEF NetworkStep, fsVars, Persist, Commit, Restart
<1> QED  BY <1>1, <1>2, <1>3

\* A write that is committed was committed before, or is now.
LEMMA NetworkCommits ==
  ASSUME FsTypeOK, NetworkStep, NEW d \in Device, NEW i \in 1..applied'[d]
  PROVE  \/ \E j \in 1..applied[d] : mutationQueue'[d][i] = mutationQueue[d][j]
         \/ /\ Commit(d) /\ i = applied[d] + 1 /\ i \in 1..Len(mutationQueue[d])
            /\ mutationQueue'[d][i] = mutationQueue[d][i]
<1>1. CASE Acknowledge(d)
  <2>1. /\ mutationQueue[d] \in Seq(Mutation) /\ Len(mutationQueue[d]) > 0
        /\ mutationQueue'[d] = Tail(mutationQueue[d])
        /\ applied[d] \in Nat /\ applied[d] <= Len(mutationQueue[d])
        /\ applied'[d] = applied[d] - 1
    BY <1>1 DEF Acknowledge, FsTypeOK
  <2>2. i + 1 \in 1..applied[d] /\ mutationQueue'[d][i] = mutationQueue[d][i + 1]
    BY <2>1, TailOfQueue
  <2> QED  BY <2>2
<1>2. CASE Commit(d)
  BY <1>2 DEF Commit, FsTypeOK
<1>3. CASE mutationQueue'[d] = mutationQueue[d] /\ applied'[d] \in {0, applied[d]}
  BY <1>3 DEF FsTypeOK
<1>4. \/ Acknowledge(d) \/ Commit(d)
      \/ mutationQueue'[d] = mutationQueue[d] /\ applied'[d] \in {0, applied[d]}
  BY DEF NetworkStep, fsVars, Persist, Commit, Acknowledge, Restart, Watch, FsTypeOK
<1> QED  BY <1>1, <1>2, <1>3, <1>4

LEMMA NetworkKeepsOrder ==
  ASSUME FsTypeOK, NEW K, KeysKept(K), NEW N, KeysNeeded(N, K), InOrder(N), NetworkStep
  PROVE  InOrder(N)'
<1>1. \A p \in Path : \A k \in K[p] : Has(docs[p], k) => Has(docs'[p], k)
  BY NetworkKeepsKeys DEF KeysGrow
<1>2. ASSUME NEW d \in Device, NEW n \in 1..Len(mutationQueue'[d]),
             NEW r \in N[d][mutationQueue'[d][n]]
      PROVE  Before(docs'[r[1]], mutationQueue'[d], n, r[1], r[2])
  <2> DEFINE q == mutationQueue[d]
  <2>1. q \in Seq(Mutation)
    BY DEF FsTypeOK
  <2>2. CASE mutationQueue'[d] = q
    <3>1. q[n] \in Mutation
      BY <2>1, <2>2
    <3>2. r[1] \in Path /\ r[2] \in K[r[1]]
      BY <2>2, <3>1 DEF KeysNeeded
    <3>3. Before(docs[r[1]], q, n, r[1], r[2])
      BY <2>2 DEF InOrder
    <3> QED  BY <1>1, <2>2, <3>2, <3>3, QueueGoesOn
  <2>3. CASE Acknowledge(d)
    <3>1. /\ mutationQueue'[d] = Tail(q) /\ docs' = docs /\ Len(q) > 0
          /\ n \in Nat
      BY <2>3 DEF Acknowledge, FsTypeOK
    <3>2. n + 1 \in 1..Len(q) /\ Tail(q)[n] = q[n + 1]
      BY <2>1, <3>1, TailOfQueue
    <3>3. q[n + 1] \in Mutation
      BY <2>1, <3>2
    <3>4. r[1] \in Path /\ r[2] \in K[r[1]]
      BY <3>1, <3>2, <3>3 DEF KeysNeeded
    <3>5. Before(docs[r[1]], q, n + 1, r[1], r[2])
      BY <3>1, <3>2 DEF InOrder
    <3>6. Before(docs[r[1]], Tail(q), n, r[1], r[2])
      BY <2>3, <3>1, <3>4, <3>5, QueueMovesUp
    <3> QED  BY <3>1, <3>6
  <2> QED  BY <2>2, <2>3, NetworkQueues
<1> QED  BY <1>2, NextInOrder

LEMMA WriteKeepsOrder ==
  ASSUME FsTypeOK, NEW N, InOrder(N), NEW d \in Device, NEW ms \in Seq(Mutation),
         LocallyWrite(d, ms),
         \A i \in 1..Len(ms) : \A r \in N[d][ms[i]] :
           WillHave(d, r[1], r[2]) \/ Before({}, ms, i, r[1], r[2])
  PROVE  InOrder(N)'
<1> DEFINE q == mutationQueue[d]
<1>1. docs' = docs
  BY DEF LocallyWrite
<1>2. q \in Seq(Mutation) /\ mutationQueue'[d] = q \o ms /\ Len(q) \in Nat
      /\ \A e \in Device : e # d => mutationQueue'[e] = mutationQueue[e]
  BY DEF LocallyWrite, FsTypeOK
<1>3. \A j \in 1..Len(q) : j \in 1..Len(q \o ms) /\ (q \o ms)[j] = q[j]
  BY <1>2, ConcatQueues
<1>4. \A j \in 1..Len(ms) : Len(q) + j \in 1..Len(q \o ms) /\ (q \o ms)[Len(q) + j] = ms[j]
  BY <1>2
<1>5. ASSUME NEW n \in 1..Len(q \o ms), NEW r \in N[d][(q \o ms)[n]]
      PROVE  Before(docs[r[1]], q \o ms, n, r[1], r[2])
  <2>1. CASE n \in 1..Len(q)
    <3>1. Before(docs[r[1]], q, n, r[1], r[2])
      BY <1>3, <2>1 DEF InOrder
    <3> QED  BY <1>3, <3>1 DEF Before
  <2>2. CASE n - Len(q) \in 1..Len(ms) /\ (q \o ms)[n] = ms[n - Len(q)]
    <3>1. CASE WillHave(d, r[1], r[2])
      <4>1. \A j \in 1..Len(q) : j < n
        BY <1>2, <2>2
      <4> QED  BY <1>3, <3>1, <4>1 DEF WillHave, Before
    <3>2. CASE Before({}, ms, n - Len(q), r[1], r[2])
      <4>1. PICK j \in 1..Len(ms) : j < n - Len(q) /\ ms[j].path = r[1] /\ Has(ms[j].fields, r[2])
        BY <3>2 DEF Before, Has
      <4>2. Len(q) + j < n
        BY <1>2, <4>1
      <4>3. Len(q) + j \in 1..Len(q \o ms) /\ (q \o ms)[Len(q) + j] = ms[j]
        BY <1>4
      <4> QED  BY <4>1, <4>2, <4>3 DEF Before
    <3> QED  BY <2>2, <3>1, <3>2
  <2> QED  BY <1>2, <2>1, <2>2, ConcatQueues
<1>6. ASSUME NEW e \in Device, e # d, NEW n \in 1..Len(mutationQueue[e]),
             NEW r \in N[e][mutationQueue[e][n]]
      PROVE  Before(docs[r[1]], mutationQueue[e], n, r[1], r[2])
  BY DEF InOrder
<1> QED  BY <1>1, <1>2, <1>5, <1>6, NextInOrder

LEMMA NetworkWillHave ==
  ASSUME FsTypeOK, NEW K, KeysKept(K), NetworkStep,
         NEW d \in Device, NEW p \in Path, NEW k \in K[p], WillHave(d, p, k)
  PROVE  WillHave(d, p, k)'
<1> DEFINE q == mutationQueue[d]
<1>1. Has(docs[p], k) => Has(docs'[p], k)
  BY NetworkKeepsKeys DEF KeysGrow
<1>2. CASE mutationQueue'[d] = q
  BY <1>1, <1>2, NextWillHave DEF WillHave
<1>3. CASE Acknowledge(d)
  <2>1. /\ mutationQueue'[d] = Tail(q) /\ docs' = docs /\ q \in Seq(Mutation)
        /\ Len(q) \in Nat /\ \A j \in 1..Len(q) : j < Len(q) + 1
    BY <1>3 DEF Acknowledge, FsTypeOK
  <2>2. Before(docs[p], q, Len(q) + 1, p, k)
    BY <2>1 DEF WillHave, Before
  <2>3. Before(docs[p], Tail(q), Len(q), p, k)
    BY <1>3, <2>1, <2>2, QueueMovesUp
  <2> QED  BY <2>1, <2>3, NextWillHave DEF Before
<1> QED  BY <1>2, <1>3, NetworkQueues

LEMMA WriteWillHave ==
  ASSUME FsTypeOK, NEW d \in Device, NEW ms \in Seq(Mutation), LocallyWrite(d, ms)
  PROVE  /\ \A e \in Device : \A p, k : WillHave(e, p, k) => WillHave(e, p, k)'
         /\ \A i \in 1..Len(ms) : \A k : Has(ms[i].fields, k) => WillHave(d, ms[i].path, k)'
         /\ \A e \in Device : \A p, k : WillHave(e, p, k)' =>
              \/ WillHave(e, p, k)
              \/ e = d /\ \E i \in 1..Len(ms) : ms[i].path = p /\ Has(ms[i].fields, k)
<1> DEFINE q == mutationQueue[d]
<1>1. docs' = docs
  BY DEF LocallyWrite
<1>2. q \in Seq(Mutation) /\ mutationQueue'[d] = q \o ms /\ Len(q) \in Nat
      /\ \A e \in Device : e # d => mutationQueue'[e] = mutationQueue[e]
  BY DEF LocallyWrite, FsTypeOK
<1>3. \A j \in 1..Len(q) : j \in 1..Len(q \o ms) /\ (q \o ms)[j] = q[j]
  BY <1>2, ConcatQueues
<1>4. \A j \in 1..Len(ms) : Len(q) + j \in 1..Len(q \o ms) /\ (q \o ms)[Len(q) + j] = ms[j]
  BY <1>2
<1>5. ASSUME NEW e \in Device, NEW p, NEW k, WillHave(e, p, k) PROVE WillHave(e, p, k)'
  <2>1. CASE Has(docs[p], k)
    BY <1>1, <2>1, NextWillHave
  <2>2. ASSUME NEW j \in 1..Len(mutationQueue[e]), mutationQueue[e][j].path = p,
               Has(mutationQueue[e][j].fields, k)
        PROVE  WillHave(e, p, k)'
    <3>1. j \in 1..Len(mutationQueue'[e]) /\ mutationQueue'[e][j] = mutationQueue[e][j]
      BY <1>2, <1>3
    <3> QED  BY <2>2, <3>1, NextWillHave
  <2> QED  BY <1>5, <2>1, <2>2 DEF WillHave
<1>6. ASSUME NEW i \in 1..Len(ms), NEW k, Has(ms[i].fields, k) PROVE WillHave(d, ms[i].path, k)'
  BY <1>2, <1>4, <1>6, NextWillHave
<1>7. ASSUME NEW e \in Device, NEW p, NEW k, WillHave(e, p, k)'
      PROVE  \/ WillHave(e, p, k)
             \/ e = d /\ \E i \in 1..Len(ms) : ms[i].path = p /\ Has(ms[i].fields, k)
  <2>1. CASE e # d
    BY <1>1, <1>2, <1>7, <2>1, NextWillHave DEF WillHave
  <2>2. CASE e = d
    <3>1. CASE Has(docs[p], k)
      BY <3>1 DEF WillHave
    <3>2. ASSUME NEW j \in 1..Len(q \o ms), (q \o ms)[j].path = p, Has((q \o ms)[j].fields, k)
          PROVE  \/ WillHave(d, p, k)
                 \/ \E i \in 1..Len(ms) : ms[i].path = p /\ Has(ms[i].fields, k)
      <4>1. CASE j \in 1..Len(q)
        BY <1>3, <3>2, <4>1 DEF WillHave
      <4>2. CASE j - Len(q) \in 1..Len(ms) /\ (q \o ms)[j] = ms[j - Len(q)]
        BY <3>2, <4>2
      <4> QED  BY <1>2, <4>1, <4>2, ConcatQueues
    <3> QED  BY <1>1, <1>2, <1>7, <2>2, <3>1, <3>2, NextWillHave
  <2> QED  BY <2>1, <2>2
<1> QED  BY <1>5, <1>6, <1>7

\* What a device sees is committed or queued.
LEMMA SeenWillBe ==
  ASSUME FsTypeOK, NEW K, KeysKept(K), NEW d \in Device, NEW p \in Path, NEW k \in K[p],
         Has(View(d, p), k)
  PROVE  WillHave(d, p, k)
<1>1. remoteDocs[d][p] \in Document /\ mutationQueue[d] \in Seq(Mutation)
  BY DEF FsTypeOK
<1>2. \A i \in 1..Len(mutationQueue[d]) : KeepsKeys(mutationQueue[d][i], K)
  BY DEF KeysKept
<1>3. Has(remoteDocs[d][p], k) \/ \E i \in 1..Len(mutationQueue[d]) :
        mutationQueue[d][i].path = p /\ Has(mutationQueue[d][i].fields, k)
  BY <1>1, <1>2, KeysSeen DEF View
<1>4. Has(remoteDocs[d][p], k) => Has(docs[p], k)
  BY DEF KeysKept
<1> QED  BY <1>3, <1>4 DEF WillHave
-----------------------------------------------------------------------------
(***************************************************************************)
(* A kill: the devices in D keep of their queues what is on disk.          *)
(***************************************************************************)
Killed(D) ==
  /\ mutationQueue' = [d \in Device |-> IF d \in D THEN OnDisk(d) ELSE mutationQueue[d]]
  /\ applied' = [d \in Device |-> IF d \in D THEN 0 ELSE applied[d]]
  /\ caughtUp' = [d \in Device |-> IF d \in D THEN {} ELSE caughtUp[d]]
  /\ UNCHANGED <<docs, remoteDocs, persisted>>

\* The queue is cut at one place; what is behind it is CutOff.
LEMMA KilledQueues ==
  ASSUME FsTypeOK, NEW D, Killed(D), NEW d \in Device
  PROVE  /\ mutationQueue'[d] \in Seq(Mutation)
         /\ Len(mutationQueue'[d]) \in Nat
         /\ persisted[d] <= Len(mutationQueue'[d])
         /\ \A i \in 1..Len(mutationQueue'[d]) :
              i \in 1..Len(mutationQueue[d]) /\ mutationQueue'[d][i] = mutationQueue[d][i]
         /\ \A i \in 1..Len(mutationQueue[d]) :
              \/ i \in 1..Len(mutationQueue'[d])
              \/ d \in D /\ mutationQueue[d][i] \in CutOff(d)
         /\ d \notin D => mutationQueue'[d] = mutationQueue[d]
<1>1. /\ mutationQueue[d] \in Seq(Mutation) /\ persisted[d] \in Nat
      /\ persisted[d] <= Len(mutationQueue[d]) /\ Len(mutationQueue[d]) \in Nat
  BY DEF FsTypeOK
<1>2. CASE d \in D
  <2>1. PICK q : q = SubSeq(mutationQueue[d], 1, persisted[d])
    OBVIOUS
  <2>2. mutationQueue'[d] = q
    BY <1>2, <2>1 DEF Killed, OnDisk
  <2>3. /\ q \in Seq(Mutation) /\ Len(q) = persisted[d]
        /\ \A i \in 1..persisted[d] : q[i] = mutationQueue[d][i] /\ i \in 1..Len(mutationQueue[d])
    BY <1>1, <2>1
  <2>4. ASSUME NEW i \in 1..Len(mutationQueue[d]), i \notin 1..persisted[d]
        PROVE  mutationQueue[d][i] \in CutOff(d)
    <3>1. i \in (persisted[d] + 1)..Len(mutationQueue[d])
      BY <1>1, <2>4
    <3> QED  BY <3>1 DEF CutOff
  <2> QED  BY <1>1, <1>2, <2>2, <2>3, <2>4
<1>3. CASE d \notin D
  BY <1>1, <1>3 DEF Killed
<1> QED  BY <1>2, <1>3

LEMMA KilledType ==
  ASSUME FsTypeOK, NEW D, Killed(D)
  PROVE  FsTypeOK'
<1>1. mutationQueue' \in [Device -> Seq(Mutation)]
  <2>1. \A d \in Device : mutationQueue'[d] \in Seq(Mutation)
    BY KilledQueues
  <2> QED  BY <2>1 DEF Killed
<1>2. /\ applied' \in [Device -> Nat] /\ caughtUp' \in [Device -> SUBSET Nat]
      /\ docs' = docs /\ remoteDocs' = remoteDocs /\ persisted' = persisted
  BY DEF Killed, FsTypeOK
<1>3. \A d \in Device : persisted[d] <= Len(mutationQueue'[d])
  BY KilledQueues
<1>4. \A d \in Device : applied'[d] <= persisted[d] /\ caughtUp'[d] \subseteq 1..applied'[d]
  BY DEF Killed, FsTypeOK
<1> QED  BY <1>1, <1>2, <1>3, <1>4 DEF FsTypeOK

LEMMA KilledKeepsKeys ==
  ASSUME FsTypeOK, NEW K, KeysKept(K), NEW D, Killed(D)
  PROVE  KeysKept(K)'
<1>1. UNCHANGED <<docs, remoteDocs>>
  BY DEF Killed
<1>2. \A d \in Device : \A i \in 1..Len(mutationQueue'[d]) : KeepsKeys(mutationQueue'[d][i], K)
  BY KilledQueues DEF KeysKept
<1>3. \A d \in Device : \/ d \in D /\ applied'[d] = 0 /\ caughtUp'[d] = {}
                        \/ /\ mutationQueue'[d] = mutationQueue[d]
                           /\ applied'[d] = applied[d] /\ caughtUp'[d] = caughtUp[d]
  BY DEF Killed
<1>4. \A d \in Device : \A i \in 1..applied'[d] :
        i \in 1..applied[d] /\ mutationQueue'[d] = mutationQueue[d]
  BY <1>3
<1>5. \A d \in Device : \A i \in caughtUp'[d] :
        i \in caughtUp[d] /\ mutationQueue'[d] = mutationQueue[d]
  BY <1>3
<1>6. \A d \in Device : \A i \in 1..applied'[d] : \A k \in K[mutationQueue'[d][i].path] :
        Has(mutationQueue'[d][i].fields, k) => Has(docs[mutationQueue'[d][i].path], k)
  BY <1>4 DEF KeysKept
<1>7. \A d \in Device : \A i \in caughtUp'[d] : \A k \in K[mutationQueue'[d][i].path] :
        Has(mutationQueue'[d][i].fields, k) => Has(remoteDocs[d][mutationQueue'[d][i].path], k)
  BY <1>5 DEF KeysKept
<1>8. \A d \in Device : \A p \in Path : \A k \in K[p] : Has(remoteDocs[d][p], k) => Has(docs[p], k)
  BY DEF KeysKept
<1> QED  BY <1>1, <1>2, <1>6, <1>7, <1>8, NextKeysKept

LEMMA KilledOnlyFields ==
  ASSUME FsTypeOK, NEW A, OnlyFields(A), NEW D, Killed(D)
  PROVE  OnlyFields(A)'
<1>1. UNCHANGED <<docs, remoteDocs>>
  BY DEF Killed
<1>2. \A d \in Device : \A i \in 1..Len(mutationQueue'[d]) :
        mutationQueue'[d][i].fields \subseteq A[mutationQueue'[d][i].path]
  BY KilledQueues DEF OnlyFields
<1> QED  BY <1>1, <1>2 DEF OnlyFields

LEMMA KilledKeepsOrder ==
  ASSUME FsTypeOK, NEW N, InOrder(N), NEW D, Killed(D)
  PROVE  InOrder(N)'
<1>1. docs' = docs
  BY DEF Killed
<1>2. ASSUME NEW d \in Device, NEW n \in 1..Len(mutationQueue'[d]),
             NEW r \in N[d][mutationQueue'[d][n]]
      PROVE  Before(docs'[r[1]], mutationQueue'[d], n, r[1], r[2])
  <2>1. n \in 1..Len(mutationQueue[d]) /\ mutationQueue'[d][n] = mutationQueue[d][n]
        /\ Len(mutationQueue'[d]) \in Nat /\ Len(mutationQueue[d]) \in Nat
    BY KilledQueues DEF FsTypeOK
  <2>2. Before(docs[r[1]], mutationQueue[d], n, r[1], r[2])
    BY <2>1 DEF InOrder
  <2>3. \A j \in 1..Len(mutationQueue[d]) :
          j < n => j \in 1..Len(mutationQueue'[d]) /\ mutationQueue'[d][j] = mutationQueue[d][j]
    <3>1. \A j \in 1..Len(mutationQueue[d]) : j < n => j \in 1..Len(mutationQueue'[d])
      BY <2>1
    <3> QED  BY <3>1, KilledQueues
  <2> QED  BY <1>1, <2>2, <2>3 DEF Before
<1> QED  BY <1>2, NextInOrder

\* What was committed or queued still is, or was queued behind the cut.
LEMMA KilledWillHave ==
  ASSUME FsTypeOK, NEW D, Killed(D), NEW d \in Device, NEW p, NEW k
  PROVE  /\ WillHave(d, p, k)' => WillHave(d, p, k)
         /\ WillHave(d, p, k) => \/ WillHave(d, p, k)'
                                 \/ d \in D /\ \E m \in CutOff(d) : m.path = p /\ Has(m.fields, k)
<1>1. docs' = docs
  BY DEF Killed
<1>2. WillHave(d, p, k)' => WillHave(d, p, k)
  BY <1>1, KilledQueues, NextWillHave DEF WillHave
<1>3. ASSUME NEW j \in 1..Len(mutationQueue[d]), mutationQueue[d][j].path = p,
             Has(mutationQueue[d][j].fields, k)
      PROVE  \/ WillHave(d, p, k)'
             \/ d \in D /\ \E m \in CutOff(d) : m.path = p /\ Has(m.fields, k)
  <2>1. CASE j \in 1..Len(mutationQueue'[d])
    <3>1. mutationQueue'[d][j] = mutationQueue[d][j]
      BY <2>1, KilledQueues
    <3> QED  BY <1>3, <2>1, <3>1, NextWillHave
  <2>2. CASE d \in D /\ mutationQueue[d][j] \in CutOff(d)
    BY <1>3, <2>2
  <2> QED  BY <2>1, <2>2, KilledQueues
<1>4. Has(docs[p], k) => WillHave(d, p, k)'
  BY <1>1, NextWillHave
<1> QED  BY <1>2, <1>3, <1>4 DEF WillHave
=============================================================================
