------------------------ MODULE FirestoreClient_proofs ------------------------
(***************************************************************************)
(* What a device may rely on for the documents it alone writes, for any    *)
(* devices, documents, fields and bounds.  The invariant says what resends *)
(* threaten: the queue, applied on top of the backend's document, gives    *)
(* what the device shows, however much of it the backend has committed     *)
(* already and will be sent again; and a write that was committed, or that *)
(* the cache has caught up with, shows in the document but for what later  *)
(* writes of the queue replace.                                            *)
(***************************************************************************)
EXTENDS FirestoreClient, FirestoreLemmas

\* doc shows the i-th write of the queue, but for what later ones replace.
Reflects(doc, queue, i) ==
  \A f \in Field : Survives(f, queue, i + 1, queue[i].path) =>
    /\ f \in queue[i].fields => f \in doc
    /\ f \in doc /\ Overwrites(queue[i], f) => f \in queue[i].fields

\* Applying the queue to the backend's document again gives the view.
ResendsAreHarmless(d, p) == LocalView(docs[p], mutationQueue[d], p) = View(d, p)

CommittedShow(d, p) ==
  \A i \in 1..applied[d] :
    mutationQueue[d][i].path = p => Reflects(docs[p], mutationQueue[d], i)

CachedShow(d, p) ==
  \A i \in caughtUp[d] :
    mutationQueue[d][i].path = p => Reflects(remoteDocs[d][p], mutationQueue[d], i)

\* The cache has caught up with a prefix of the writes to a document.
CaughtUpInOrder(d, p) ==
  \A i \in caughtUp[d] : \A j \in 1..i :
    mutationQueue[d][i].path = p /\ mutationQueue[d][j].path = p => j \in caughtUp[d]

WritersOnly ==
  \A d \in Device : \A i \in 1..Len(mutationQueue[d]) : d \in Writers[mutationQueue[d][i].path]

SoleInv(d, p) ==
  ResendsAreHarmless(d, p) /\ CommittedShow(d, p) /\ CachedShow(d, p) /\ CaughtUpInOrder(d, p)

ClientInv ==
  /\ FsTypeOK
  /\ WritersOnly
  /\ \A d \in Device, p \in Path : SoleWriter(d, p) => SoleInv(d, p)

\* Unfolding the types once.
LEMMA Parts ==
  ASSUME FsTypeOK, NEW d \in Device, NEW p \in Path
  PROVE  /\ docs[p] \in Document
         /\ remoteDocs[d][p] \in Document
         /\ mutationQueue[d] \in Seq(Mutation)
         /\ applied[d] \in Nat
         /\ applied[d] <= Len(mutationQueue[d])
         /\ caughtUp[d] \subseteq 1..applied[d]
  BY DEF FsTypeOK
-----------------------------------------------------------------------------
(***************************************************************************)
(* Reflects through the steps of a queue and of a document.                *)
(***************************************************************************)
\* Without the head, every position is one less.
LEMMA ReflectsTail ==
  ASSUME NEW doc, NEW queue \in Seq(Mutation), Len(queue) > 0,
         NEW i \in 1..Len(Tail(queue)), Reflects(doc, queue, i + 1)
  PROVE  Reflects(doc, Tail(queue), i)
<1>1. Tail(queue)[i] = queue[i + 1] /\ i + 1 \in Nat /\ i + 1 > 0
  BY TailOfQueue
<1>2. \A f : Survives(f, Tail(queue), i + 1, queue[i + 1].path)
               <=> Survives(f, queue, (i + 1) + 1, queue[i + 1].path)
  BY <1>1, SurvivesTail
<1> QED  BY <1>1, <1>2 DEF Reflects

\* In a longer queue there is more that may replace a field.
LEMMA ReflectsConcat ==
  ASSUME NEW doc, NEW queue \in Seq(Mutation), NEW more \in Seq(Mutation),
         NEW i \in 1..Len(queue), Reflects(doc, queue, i)
  PROVE  Reflects(doc, queue \o more, i)
<1>1. (queue \o more)[i] = queue[i]
  BY ConcatQueues
<1>2. ASSUME NEW f, NEW p, Survives(f, queue \o more, i + 1, p) PROVE Survives(f, queue, i + 1, p)
  <2>1. \A j \in (i + 1)..Len(queue) : /\ j \in 1..Len(queue)
                                       /\ j \in (i + 1)..Len(queue \o more)
    BY ConcatQueues
  <2>2. \A j \in 1..Len(queue) : (queue \o more)[j] = queue[j]
    BY ConcatQueues
  <2> QED  BY <1>2, <2>1, <2>2 DEF Survives
<1> QED  BY <1>1, <1>2 DEF Reflects

\* A write that is applied shows, and so do the writes before it.
LEMMA ReflectsApplied ==
  ASSUME NEW doc \in Document, NEW queue \in Seq(Mutation), NEW n \in 1..Len(queue),
         NEW new, new = ApplyTo(queue[n], doc)
  PROVE  /\ Reflects(new, queue, n)
         /\ \A i \in 1..(n - 1) :
              queue[i].path = queue[n].path /\ Reflects(doc, queue, i) => Reflects(new, queue, i)
<1>1. \A f : f \in new <=> f \in queue[n].fields \/ (f \in doc /\ ~Overwrites(queue[n], f))
  BY DEF ApplyTo
<1>2. \A f : f \in queue[n].fields => Overwrites(queue[n], f)
  BY DEF Overwrites
<1>3. Reflects(new, queue, n)
  BY <1>1, <1>2 DEF Reflects
<1>4. ASSUME NEW i \in 1..(n - 1), queue[i].path = queue[n].path, Reflects(doc, queue, i)
      PROVE  Reflects(new, queue, i)
  <2>1. n \in (i + 1)..Len(queue)
    BY <1>4
  <2>2. \A f : Survives(f, queue, i + 1, queue[i].path) => ~Overwrites(queue[n], f)
    BY <1>4, <2>1 DEF Survives
  <2> QED  BY <1>1, <1>2, <1>4, <2>2 DEF Reflects
<1> QED  BY <1>3, <1>4

\* A write of the queue may be in the document already.
LEMMA ViewOfApplied ==
  ASSUME NEW doc \in Document, NEW queue \in Seq(Mutation), NEW n \in 1..Len(queue),
         NEW new \in Document, new = ApplyTo(queue[n], doc)
  PROVE  LocalView(new, queue, queue[n].path) = LocalView(doc, queue, queue[n].path)
<1> DEFINE p == queue[n].path
<1>1. \A f : Survives(f, queue, 1, p) => ~Overwrites(queue[n], f)
  BY DEF Survives
<1>2. \A f : Survives(f, queue, 1, p) => (f \in new <=> f \in doc)
  BY <1>1 DEF ApplyTo, Overwrites
<1>3. \A f : f \in LocalView(new, queue, p) <=> f \in LocalView(doc, queue, p)
  BY <1>2, InView
<1> QED  BY <1>3

\* A head that shows in the document may be left out.
LEMMA ViewWithoutShownHead ==
  ASSUME NEW doc \in Document, NEW queue \in Seq(Mutation), Len(queue) > 0, NEW p \in Path,
         queue[1].path = p => Reflects(doc, queue, 1)
  PROVE  LocalView(doc, Tail(queue), p) = LocalView(doc, queue, p)
<1>1. CASE queue[1].path # p
  BY <1>1, ViewWithoutHead
<1>2. CASE queue[1].path = p
  <2>1. PICK m \in Mutation : m = queue[1]
    OBVIOUS
  <2>2. PICK new \in Document : new = ApplyTo(m, doc)
    BY ApplyToType
  <2>3. LocalView(new, Tail(queue), p) = LocalView(doc, queue, p)
    BY <1>2, <2>1, <2>2, ViewWithoutHead
  <2>4. ASSUME NEW f \in Field, Survives(f, Tail(queue), 1, p) PROVE f \in new <=> f \in doc
    <3>1. Survives(f, queue, 2, p)
      BY <2>4, SurvivesTail
    <3>2. /\ f \in m.fields => f \in doc
          /\ f \in doc /\ Overwrites(m, f) => f \in m.fields
      BY <1>2, <2>1, <3>1 DEF Reflects
    <3> QED  BY <2>2, <3>2 DEF ApplyTo
  <2>5. Tail(queue) \in Seq(Mutation) /\ doc \subseteq Field /\ new \subseteq Field
    BY TailOfQueue DEF Document
  <2>6. \A f : f \in LocalView(new, Tail(queue), p) <=> f \in LocalView(doc, Tail(queue), p)
    BY <2>4, <2>5, InView
  <2> QED  BY <2>3, <2>6
<1> QED  BY <1>1, <1>2
-----------------------------------------------------------------------------
(***************************************************************************)
(* One step of device e, and the documents that d alone writes.            *)
(***************************************************************************)
\* The next state of the invariant, its operators applied to the next values.
LEMMA NextSoleInv ==
  ASSUME NEW d, NEW p
  PROVE  /\ View(d, p)' = LocalView(remoteDocs'[d][p], mutationQueue'[d], p)
         /\ SoleInv(d, p)' <=>
              /\ LocalView(docs'[p], mutationQueue'[d], p) = View(d, p)'
              /\ \A i \in 1..applied'[d] :
                   mutationQueue'[d][i].path = p => Reflects(docs'[p], mutationQueue'[d], i)
              /\ \A i \in caughtUp'[d] :
                   mutationQueue'[d][i].path = p => Reflects(remoteDocs'[d][p], mutationQueue'[d], i)
              /\ \A i \in caughtUp'[d] : \A j \in 1..i :
                   mutationQueue'[d][i].path = p /\ mutationQueue'[d][j].path = p => j \in caughtUp'[d]
<1>1. View(d, p)' = LocalView(remoteDocs'[d][p], mutationQueue'[d], p)
  BY DEF View, LocalView, Survives, Overwrites
<1>2. ResendsAreHarmless(d, p)' <=> LocalView(docs'[p], mutationQueue'[d], p) = View(d, p)'
  BY DEF ResendsAreHarmless, LocalView, Survives, Overwrites
<1>3. CommittedShow(d, p)' <=>
        \A i \in 1..applied'[d] :
          mutationQueue'[d][i].path = p => Reflects(docs'[p], mutationQueue'[d], i)
  BY DEF CommittedShow, Reflects, Survives, Overwrites
<1>4. CachedShow(d, p)' <=>
        \A i \in caughtUp'[d] :
          mutationQueue'[d][i].path = p => Reflects(remoteDocs'[d][p], mutationQueue'[d], i)
  BY DEF CachedShow, Reflects, Survives, Overwrites
<1>5. CaughtUpInOrder(d, p)' <=>
        \A i \in caughtUp'[d] : \A j \in 1..i :
          mutationQueue'[d][i].path = p /\ mutationQueue'[d][j].path = p => j \in caughtUp'[d]
  BY DEF CaughtUpInOrder
<1> QED  BY <1>1, <1>2, <1>3, <1>4, <1>5 DEF SoleInv

\* What a step leaves alone keeps its invariant.
LEMMA LeftAlone ==
  ASSUME NEW d, NEW p, SoleInv(d, p), docs'[p] = docs[p], remoteDocs'[d][p] = remoteDocs[d][p],
         mutationQueue'[d] = mutationQueue[d], applied'[d] = applied[d], caughtUp'[d] = caughtUp[d]
  PROVE  SoleInv(d, p)' /\ View(d, p)' = View(d, p)
<1>1. View(d, p)' = View(d, p)
  BY NextSoleInv DEF View
<1> QED  BY <1>1, NextSoleInv DEF SoleInv, ResendsAreHarmless, CommittedShow, CachedShow, CaughtUpInOrder

LEMMA WriteSole ==
  ASSUME ClientInv, NEW e \in Device, NEW m \in Mutation, LocallyWrite(e, <<m>>),
         NEW d \in Device, NEW p \in Path, SoleWriter(d, p)
  PROVE  SoleInv(d, p)' /\ (View(d, p)' # View(d, p) => Len(mutationQueue'[d]) > Len(mutationQueue[d]))
<1> DEFINE q == mutationQueue[d]
<1>1. FsTypeOK /\ SoleInv(d, p)
  BY DEF ClientInv
<1>2. UNCHANGED <<docs, remoteDocs, applied, caughtUp>>
  BY DEF LocallyWrite
<1>3. CASE e # d
  <2>1. mutationQueue'[d] = q
    BY <1>1, <1>3 DEF LocallyWrite, FsTypeOK
  <2> QED  BY <1>1, <1>2, <2>1, LeftAlone
<1>4. CASE e = d
  <2>1. q \in Seq(Mutation) /\ <<m>> \in Seq(Mutation) /\ mutationQueue'[d] = q \o <<m>>
    BY <1>1, <1>4 DEF LocallyWrite, FsTypeOK
  <2>2. PICK r \in Seq(Mutation) : r = q \o <<m>>
    BY <2>1, ConcatQueues
  <2>3. Len(r) = Len(q) + 1 /\ Len(q) \in Nat /\ r[Len(q) + 1] = m
        /\ \A i \in 1..Len(q) : r[i] = q[i]
    BY <2>1, <2>2
  <2>4. \A i \in 1..applied[d] : i \in 1..Len(q)
    BY <1>1, <2>3, Parts
  <2>5. \A i \in caughtUp[d] : i \in 1..applied[d] /\ i \in 1..Len(q)
    BY <1>1, <2>4, Parts
  <2>6. \A doc \in Document : \A i \in 1..Len(q) : Reflects(doc, q, i) => Reflects(doc, r, i)
    BY <2>1, <2>2, ReflectsConcat
  <2>7. \A i \in 1..applied[d] : r[i].path = p => Reflects(docs[p], r, i)
    BY <1>1, <2>3, <2>4, <2>6, Parts DEF SoleInv, CommittedShow
  <2>8. \A i \in caughtUp[d] : r[i].path = p => Reflects(remoteDocs[d][p], r, i)
    BY <1>1, <2>3, <2>5, <2>6, Parts DEF SoleInv, CachedShow
  <2>9. \A i \in caughtUp[d] : \A j \in 1..i :
          r[i].path = p /\ r[j].path = p => j \in caughtUp[d]
    <3>1. \A i \in caughtUp[d] : \A j \in 1..i : j \in 1..Len(q)
      BY <2>3, <2>5
    <3> QED  BY <1>1, <2>3, <2>5, <3>1 DEF SoleInv, CaughtUpInOrder
  <2>10. LocalView(docs[p], r, p) = LocalView(remoteDocs[d][p], r, p)
    <3>1. LocalView(docs[p], q, p) = LocalView(remoteDocs[d][p], q, p)
      BY <1>1 DEF SoleInv, ResendsAreHarmless, View
    <3>2. ASSUME NEW doc \in Document, NEW f
          PROVE  f \in LocalView(doc, r, p) <=>
                   \/ f \in LocalView(doc, q, p) /\ ~(m.path = p /\ Overwrites(m, f))
                   \/ m.path = p /\ f \in m.fields
      <4>1. ASSUME NEW lo \in 1..Len(r)
            PROVE  Survives(f, r, lo, p)
                     <=> Survives(f, q, lo, p) /\ ~(m.path = p /\ Overwrites(m, f))
        <5>1. lo..Len(r) = (lo..Len(q)) \cup {Len(q) + 1}
          BY <2>3
        <5>2. \A i \in lo..Len(q) : r[i] = q[i]
          BY <2>3
        <5> QED  BY <2>3, <5>1, <5>2 DEF Survives
      <4>2. Survives(f, r, Len(r) + 1, p)
        BY <2>3 DEF Survives
      <4> DEFINE In(s, i) == s[i].path = p /\ f \in s[i].fields /\ Survives(f, s, i + 1, p)
      <4>3. \A i \in 1..Len(q) : In(r, i) <=> In(q, i) /\ ~(m.path = p /\ Overwrites(m, f))
        <5>1. \A i \in 1..Len(q) : i + 1 \in 1..Len(r)
          BY <2>3
        <5> QED  BY <2>3, <4>1, <5>1
      <4>4. In(r, Len(q) + 1) <=> m.path = p /\ f \in m.fields
        BY <2>3, <4>2
      <4>5. 1..Len(r) = (1..Len(q)) \cup {Len(q) + 1} /\ 1 \in 1..Len(r)
        BY <2>3
      <4>6. f \in LocalView(doc, r, p) <=>
              (f \in doc /\ Survives(f, r, 1, p)) \/ \E i \in 1..Len(r) : In(r, i)
        BY InView
      <4>7. f \in LocalView(doc, q, p) <=>
              (f \in doc /\ Survives(f, q, 1, p)) \/ \E i \in 1..Len(q) : In(q, i)
        BY <2>1, InView
      <4> HIDE DEF In
      <4>8. Survives(f, r, 1, p) <=> Survives(f, q, 1, p) /\ ~(m.path = p /\ Overwrites(m, f))
        BY <4>1, <4>5
      <4>9. (\E i \in 1..Len(r) : In(r, i)) <=>
              \/ (\E i \in 1..Len(q) : In(q, i)) /\ ~(m.path = p /\ Overwrites(m, f))
              \/ m.path = p /\ f \in m.fields
        BY <4>3, <4>4, <4>5
      <4> QED  BY <4>6, <4>7, <4>8, <4>9
    <3>3. \A f : f \in LocalView(docs[p], r, p) <=> f \in LocalView(remoteDocs[d][p], r, p)
      BY <1>1, <3>1, <3>2, Parts
    <3> QED  BY <3>3
  <2>11. mutationQueue'[d] = r /\ Len(mutationQueue'[d]) > Len(q)
    BY <2>1, <2>2, <2>3
  <2> QED  BY <1>2, <2>7, <2>8, <2>9, <2>10, <2>11, NextSoleInv
<1> QED  BY <1>3, <1>4

LEMMA CommitSole ==
  ASSUME ClientInv, NEW e \in Device, Commit(e),
         NEW d \in Device, NEW p \in Path, SoleWriter(d, p)
  PROVE  SoleInv(d, p)' /\ View(d, p)' = View(d, p)
<1>1. FsTypeOK /\ WritersOnly /\ SoleInv(d, p)
  BY DEF ClientInv
<1>2. UNCHANGED <<remoteDocs, mutationQueue, caughtUp>>
  BY DEF Commit
<1>3. PICK n : n = applied[e] + 1
  OBVIOUS
<1>4. n \in 1..Len(mutationQueue[e]) /\ mutationQueue[e] \in Seq(Mutation)
      /\ applied'[e] = n
  BY <1>1, <1>3 DEF Commit, FsTypeOK
<1>5. PICK m \in Mutation : m = mutationQueue[e][n]
  BY <1>4
<1>6. docs'[p] = IF m.path = p THEN ApplyTo(m, docs[p]) ELSE docs[p]
  BY <1>1, <1>3, <1>5 DEF Commit, FsTypeOK
<1>7. CASE e # d
  <2>1. m.path # p
    BY <1>1, <1>4, <1>5, <1>7 DEF WritersOnly, SoleWriter
  <2>2. applied'[d] = applied[d]
    BY <1>1, <1>7 DEF Commit, FsTypeOK
  <2> QED  BY <1>1, <1>2, <1>6, <2>1, <2>2, LeftAlone
<1>8. CASE e = d
  <2> DEFINE q == mutationQueue[d]
  <2>1. 1..n = (1..applied[d]) \cup {n} /\ \A i \in 1..applied[d] : i \in 1..(n - 1)
    BY <1>1, <1>3, <1>8, Parts
  <2>2. CASE m.path # p
    <3>1. \A i \in 1..n : q[i].path = p => Reflects(docs'[p], q, i)
      BY <1>1, <1>5, <1>6, <1>8, <2>1, <2>2 DEF SoleInv, CommittedShow
    <3> QED  BY <1>1, <1>2, <1>4, <1>6, <1>8, <2>2, <3>1, NextSoleInv
               DEF SoleInv, ResendsAreHarmless, CachedShow, CaughtUpInOrder, View
  <2>3. CASE m.path = p
    <3>1. docs[p] \in Document /\ q \in Seq(Mutation) /\ n \in 1..Len(q)
      BY <1>1, <1>4, <1>8, Parts
    <3>2. docs'[p] = ApplyTo(q[n], docs[p]) /\ q[n].path = p /\ docs'[p] \in Document
      BY <1>5, <1>6, <1>8, <2>3, <3>1, ApplyToType
    <3>3. LocalView(docs'[p], q, p) = LocalView(docs[p], q, p)
      BY <3>1, <3>2, ViewOfApplied
    <3>4. Reflects(docs'[p], q, n)
          /\ \A i \in 1..(n - 1) : q[i].path = p /\ Reflects(docs[p], q, i) => Reflects(docs'[p], q, i)
      BY <3>1, <3>2, ReflectsApplied
    <3>5. \A i \in 1..n : q[i].path = p => Reflects(docs'[p], q, i)
      BY <1>1, <2>1, <3>4 DEF SoleInv, CommittedShow
    <3> QED  BY <1>1, <1>2, <1>4, <1>8, <3>3, <3>5, NextSoleInv
               DEF SoleInv, ResendsAreHarmless, CachedShow, CaughtUpInOrder, View
  <2> QED  BY <2>2, <2>3
<1> QED  BY <1>7, <1>8

LEMMA AcknowledgeSole ==
  ASSUME ClientInv, NEW e \in Device, Acknowledge(e),
         NEW d \in Device, NEW p \in Path, SoleWriter(d, p)
  PROVE  SoleInv(d, p)' /\ View(d, p)' = View(d, p)
<1>1. FsTypeOK /\ WritersOnly /\ SoleInv(d, p)
  BY DEF ClientInv
<1>2. UNCHANGED docs
  BY DEF Acknowledge
<1>3. CASE e # d
  <2>1. /\ remoteDocs'[d][p] = remoteDocs[d][p]
        /\ mutationQueue'[d] = mutationQueue[d]
        /\ applied'[d] = applied[d]
        /\ caughtUp'[d] = caughtUp[d]
    BY <1>1, <1>3 DEF Acknowledge, FsTypeOK
  <2> QED  BY <1>1, <1>2, <2>1, LeftAlone
<1>4. CASE e = d
  <2> DEFINE q == mutationQueue[d]
             old == remoteDocs[d][p]
             new == remoteDocs'[d][p]
  <2>1. /\ q \in Seq(Mutation) /\ Len(q) > 0
        /\ applied[d] \in Nat /\ applied[d] > 0 /\ applied[d] <= Len(q)
        /\ docs[p] \in Document /\ old \in Document
    BY <1>1, <1>4, Parts DEF Acknowledge
  <2>2. /\ mutationQueue'[d] = Tail(q)
        /\ applied'[d] = applied[d] - 1
        /\ caughtUp'[d] = {i - 1 : i \in caughtUp[d] \ {1}}
    BY <1>1, <1>4 DEF Acknowledge, FsTypeOK
  <2>3. new = IF 1 \notin caughtUp[d] /\ q[1].path = p THEN ApplyTo(q[1], old) ELSE old
    <3>1. Head(q) = q[1]
      BY <2>1
    <3> QED  BY <1>1, <1>4, <3>1 DEF Acknowledge, FsTypeOK
  <2>4. 1 \in 1..Len(q) /\ q[1] \in Mutation /\ 1 \in 1..applied[d]
    BY <2>1
  <2>5. new \in Document
    BY <2>1, <2>3, <2>4, ApplyToType
  <2>6. ASSUME NEW i \in caughtUp'[d]
        PROVE  i + 1 \in caughtUp[d] /\ i \in 1..Len(Tail(q)) /\ i \in Nat
    <3>1. PICK j \in caughtUp[d] \ {1} : i = j - 1
      BY <2>2
    <3>2. j \in 1..applied[d]
      BY <1>1, Parts
    <3> QED  BY <2>1, <3>1, <3>2, TailOfQueue
  <2>7. \A i \in 1..Len(Tail(q)) : Tail(q)[i] = q[i + 1]
    BY <2>1, TailOfQueue
  <2>8. LocalView(new, Tail(q), p) = LocalView(old, q, p)
    <3>1. CASE 1 \in caughtUp[d]
      <4>1. q[1].path = p => Reflects(old, q, 1)
        BY <1>1, <3>1 DEF SoleInv, CachedShow
      <4> QED  BY <2>1, <2>3, <3>1, <4>1, ViewWithoutShownHead
    <3>2. CASE 1 \notin caughtUp[d]
      BY <2>1, <2>3, <2>5, <3>2, ViewWithoutHead
    <3> QED  BY <3>1, <3>2
  <2>9. LocalView(docs[p], Tail(q), p) = LocalView(docs[p], q, p)
    <3>1. q[1].path = p => Reflects(docs[p], q, 1)
      BY <1>1, <2>4 DEF SoleInv, CommittedShow
    <3> QED  BY <2>1, <3>1, ViewWithoutShownHead
  <2>10. \A i \in 1..(applied[d] - 1) : Tail(q)[i].path = p => Reflects(docs[p], Tail(q), i)
    <3> TAKE i \in 1..(applied[d] - 1)
    <3>1. i + 1 \in 1..applied[d] /\ i \in 1..Len(Tail(q))
      BY <2>1, TailOfQueue
    <3>2. q[i + 1].path = p => Reflects(docs[p], q, i + 1)
      BY <1>1, <3>1 DEF SoleInv, CommittedShow
    <3> QED  BY <2>1, <2>7, <3>1, <3>2, ReflectsTail
  <2>11. ASSUME NEW i \in caughtUp'[d], Tail(q)[i].path = p PROVE Reflects(new, Tail(q), i)
    <3>1. q[i + 1].path = p /\ i + 1 \in caughtUp[d] /\ i \in 1..Len(Tail(q)) /\ i \in Nat
      BY <2>6, <2>7, <2>11
    <3>2. Reflects(old, q, i + 1)
      BY <1>1, <3>1 DEF SoleInv, CachedShow
    <3>3. new = old
      <4>1. CASE q[1].path = p
        <5>1. 1 \in 1..(i + 1)
          BY <3>1
        <5>2. 1 \in caughtUp[d]
          BY <1>1, <3>1, <4>1, <5>1 DEF SoleInv, CaughtUpInOrder
        <5> QED  BY <2>3, <5>2
      <4>2. CASE q[1].path # p
        BY <2>3, <4>2
      <4> QED  BY <4>1, <4>2
    <3> QED  BY <2>1, <3>1, <3>2, <3>3, ReflectsTail
  <2>12. ASSUME NEW i \in caughtUp'[d], NEW j \in 1..i, Tail(q)[i].path = p, Tail(q)[j].path = p
         PROVE  j \in caughtUp'[d]
    <3>1. i + 1 \in caughtUp[d] /\ i \in 1..Len(Tail(q)) /\ i \in Nat
      BY <2>6
    <3>2. j \in 1..Len(Tail(q)) /\ j + 1 \in 1..(i + 1) /\ j + 1 # 1 /\ (j + 1) - 1 = j
      BY <3>1
    <3>3. q[i + 1].path = p /\ q[j + 1].path = p
      BY <2>7, <2>12, <3>1, <3>2
    <3>4. j + 1 \in caughtUp[d]
      BY <1>1, <3>1, <3>2, <3>3 DEF SoleInv, CaughtUpInOrder
    <3> QED  BY <2>2, <3>2, <3>4
  <2>13. View(d, p)' = View(d, p)
    BY <2>2, <2>8, NextSoleInv DEF View
  <2>14. LocalView(docs'[p], mutationQueue'[d], p) = View(d, p)'
    BY <1>1, <1>2, <2>2, <2>9, <2>13 DEF SoleInv, ResendsAreHarmless
  <2> HIDE DEF q, new, old
  <2>15. SoleInv(d, p)'
    <3>1. docs' = docs /\ applied'[d] = applied[d] - 1 /\ mutationQueue'[d] = Tail(q)
      BY <1>2, <2>2
    <3> QED  BY <2>10, <2>11, <2>12, <2>14, <3>1, NextSoleInv DEF new
  <2> QED  BY <2>13, <2>15
<1> QED  BY <1>3, <1>4

LEMMA RestartSole ==
  ASSUME ClientInv, NEW e \in Device, RestartStream(e),
         NEW d \in Device, NEW p \in Path, SoleWriter(d, p)
  PROVE  SoleInv(d, p)' /\ View(d, p)' = View(d, p)
<1>1. FsTypeOK /\ SoleInv(d, p)
  BY DEF ClientInv
<1>2. UNCHANGED <<docs, remoteDocs, mutationQueue>>
  BY DEF RestartStream
<1>3. \/ applied'[d] = applied[d] /\ caughtUp'[d] = caughtUp[d]
      \/ applied'[d] = 0 /\ caughtUp'[d] = {}
  BY <1>1 DEF RestartStream, FsTypeOK
<1>4. CASE applied'[d] = 0 /\ caughtUp'[d] = {}
  <2>1. View(d, p)' = View(d, p)
    BY <1>2, NextSoleInv DEF View
  <2>2. 1..applied'[d] = {}
    BY <1>4
  <2> QED  BY <1>1, <1>2, <1>4, <2>1, <2>2, NextSoleInv DEF SoleInv, ResendsAreHarmless
<1> QED  BY <1>1, <1>2, <1>3, <1>4, LeftAlone

LEMMA WatchSole ==
  ASSUME ClientInv, NEW e \in Device, NEW x \in Path, Watch(e, x),
         NEW d \in Device, NEW p \in Path, SoleWriter(d, p)
  PROVE  SoleInv(d, p)' /\ View(d, p)' = View(d, p)
<1> DEFINE q == mutationQueue[d]
<1>1. FsTypeOK /\ SoleInv(d, p)
  BY DEF ClientInv
<1>2. UNCHANGED <<docs, mutationQueue, applied>>
  BY DEF Watch
<1>3. remoteDocs'[d][p] = IF e = d /\ x = p THEN docs[p] ELSE remoteDocs[d][p]
  BY <1>1 DEF Watch, FsTypeOK
<1>4. caughtUp'[d] = IF e = d THEN caughtUp[d] \cup CommittedOn(d, x) ELSE caughtUp[d]
  BY <1>1 DEF Watch, FsTypeOK
<1>5. CASE e # d
  BY <1>1, <1>2, <1>3, <1>4, <1>5, LeftAlone
<1>6. CASE e = d
  <2>1. \A i \in caughtUp'[d] : i \in 1..applied[d]
    BY <1>1, <1>4, <1>6, Parts DEF CommittedOn
  <2>2. \A i \in CommittedOn(d, x) : q[i].path = x
    BY DEF CommittedOn
  <2>3. CASE x # p
    <3>1. \A i \in caughtUp'[d] : q[i].path = p => i \in caughtUp[d]
      BY <1>4, <1>6, <2>2, <2>3
    <3>2. \A i \in caughtUp[d] : i \in caughtUp'[d]
      BY <1>4, <1>6
    <3>3. remoteDocs'[d][p] = remoteDocs[d][p]
      BY <1>3, <2>3
    <3>4. View(d, p)' = View(d, p)
      BY <1>2, <3>3, NextSoleInv DEF View
    <3>5. \A i \in caughtUp'[d] : q[i].path = p => Reflects(remoteDocs'[d][p], q, i)
      BY <1>1, <3>1, <3>3 DEF SoleInv, CachedShow
    <3>6. \A i \in caughtUp'[d] : \A j \in 1..i : q[i].path = p /\ q[j].path = p => j \in caughtUp'[d]
      BY <1>1, <3>1, <3>2 DEF SoleInv, CaughtUpInOrder
    <3> QED  BY <1>1, <1>2, <3>4, <3>5, <3>6, NextSoleInv DEF SoleInv, ResendsAreHarmless, CommittedShow
  <2>4. CASE x = p
    <3>1. remoteDocs'[d][p] = docs[p]
      BY <1>3, <1>6, <2>4
    <3>2. View(d, p)' = View(d, p)
      BY <1>1, <1>2, <3>1, NextSoleInv DEF SoleInv, ResendsAreHarmless
    <3>3. \A i \in caughtUp'[d] : q[i].path = p => Reflects(docs[p], q, i)
      BY <1>1, <2>1 DEF SoleInv, CommittedShow
    <3>4. ASSUME NEW i \in caughtUp'[d], NEW j \in 1..i, q[j].path = p PROVE j \in caughtUp'[d]
      <4>1. i \in 1..applied[d] /\ applied[d] \in Nat
        BY <1>1, <2>1, Parts
      <4>2. j \in 1..applied[d]
        BY <4>1
      <4> QED  BY <1>4, <1>6, <2>4, <3>4, <4>2 DEF CommittedOn
    <3> QED  BY <1>1, <1>2, <3>1, <3>2, <3>3, <3>4, NextSoleInv
               DEF SoleInv, ResendsAreHarmless, CommittedShow
  <2> QED  BY <2>3, <2>4
<1> QED  BY <1>5, <1>6
-----------------------------------------------------------------------------
(***************************************************************************)
(* The invariant is inductive.                                             *)
(***************************************************************************)
LEMMA InitInv == FsInit => ClientInv
<1> SUFFICES ASSUME FsInit PROVE ClientInv
  OBVIOUS
<1>1. FsTypeOK
  BY FsInitType
<1>2. WritersOnly
  BY DEF FsInit, WritersOnly
<1>3. ASSUME NEW d \in Device, NEW p \in Path PROVE SoleInv(d, p)
  <2>1. docs[p] = remoteDocs[d][p] /\ applied[d] = 0 /\ caughtUp[d] = {}
    BY DEF FsInit
  <2> QED  BY <2>1 DEF SoleInv, ResendsAreHarmless, CommittedShow, CachedShow, CaughtUpInOrder, View
<1> QED  BY <1>1, <1>2, <1>3 DEF ClientInv

\* A step keeps types and writers.
LEMMA NextWriters ==
  ASSUME ClientInv, [Next]_fsVars
  PROVE  FsTypeOK' /\ WritersOnly'
<1>1. FsTypeOK /\ WritersOnly
  BY DEF ClientInv
<1>2. ASSUME UNCHANGED mutationQueue PROVE WritersOnly'
  BY <1>1, <1>2 DEF WritersOnly
<1>3. CASE UNCHANGED fsVars
  BY <1>1, <1>2, <1>3 DEF fsVars, FsTypeOK
<1>4. ASSUME NEW e \in Device, WriteSomething(e) PROVE FsTypeOK' /\ WritersOnly'
  <2>1. PICK m \in Mutation : e \in Writers[m.path] /\ LocallyWrite(e, <<m>>)
    BY <1>4 DEF WriteSomething
  <2>2. <<m>> \in Seq(Mutation)
    OBVIOUS
  <2>3. FsTypeOK'
    BY <1>1, <2>1, <2>2, LocallyWriteType
  <2>4. \A d \in Device : mutationQueue'[d] = IF d = e THEN mutationQueue[d] \o <<m>> ELSE mutationQueue[d]
    BY <1>1, <2>1 DEF LocallyWrite, FsTypeOK
  <2>5. ASSUME NEW i \in 1..Len(mutationQueue'[e]) PROVE e \in Writers[mutationQueue'[e][i].path]
    <3>1. mutationQueue[e] \in Seq(Mutation) /\ mutationQueue'[e] = mutationQueue[e] \o <<m>>
      BY <1>1, <2>4 DEF FsTypeOK
    <3>2. \/ i \in 1..Len(mutationQueue[e]) /\ mutationQueue'[e][i] = mutationQueue[e][i]
          \/ mutationQueue'[e][i] = m
      <4>1. CASE i \in 1..Len(mutationQueue[e])
        BY <3>1, <4>1
      <4>2. CASE i \notin 1..Len(mutationQueue[e])
        <5>1. i = Len(mutationQueue[e]) + 1
          BY <3>1, <4>2
        <5> QED  BY <3>1, <5>1
      <4> QED  BY <4>1, <4>2
    <3> QED  BY <1>1, <2>1, <3>2 DEF WritersOnly
  <2>6. WritersOnly'
    BY <1>1, <2>4, <2>5 DEF WritersOnly
  <2> QED  BY <2>3, <2>6
<1>5. ASSUME NEW e \in Device, Commit(e) PROVE FsTypeOK' /\ WritersOnly'
  BY <1>1, <1>2, <1>5, CommitType DEF Commit
<1>6. ASSUME NEW e \in Device, Acknowledge(e) PROVE FsTypeOK' /\ WritersOnly'
  <2>1. mutationQueue[e] \in Seq(Mutation) /\ Len(mutationQueue[e]) > 0
    BY <1>1, <1>6, Parts DEF Acknowledge, FsTypeOK
  <2>2. \A d \in Device : mutationQueue'[d] = IF d = e THEN Tail(mutationQueue[d]) ELSE mutationQueue[d]
    BY <1>1, <1>6 DEF Acknowledge, FsTypeOK
  <2>3. \A i \in 1..Len(mutationQueue'[e]) :
          i + 1 \in 1..Len(mutationQueue[e]) /\ mutationQueue'[e][i] = mutationQueue[e][i + 1]
    <3>1. mutationQueue'[e] = Tail(mutationQueue[e])
      BY <2>2
    <3> QED  BY <2>1, <3>1, TailOfQueue
  <2>4. WritersOnly'
    BY <1>1, <2>2, <2>3 DEF WritersOnly
  <2> QED  BY <1>1, <1>6, <2>4, AcknowledgeType
<1>7. ASSUME NEW e \in Device, RestartStream(e) PROVE FsTypeOK' /\ WritersOnly'
  BY <1>1, <1>2, <1>7, RestartStreamType DEF RestartStream
<1>8. ASSUME NEW e \in Device, NEW x \in Path, Watch(e, x) PROVE FsTypeOK' /\ WritersOnly'
  BY <1>1, <1>2, <1>8, WatchType DEF Watch
<1>9. ASSUME NEW e \in Device, Persist(e) PROVE FsTypeOK' /\ WritersOnly'
  BY <1>1, <1>2, <1>9, PersistType DEF Persist
<1> QED  BY <1>3, <1>4, <1>5, <1>6, <1>7, <1>8, <1>9 DEF Next

\* A step keeps the invariant of a document with one writer, and moves what
\* the writer sees of it only by a write.
LEMMA NextSole ==
  ASSUME ClientInv, [Next]_fsVars, NEW d \in Device, NEW p \in Path, SoleWriter(d, p)
  PROVE  SoleInv(d, p)' /\ (View(d, p)' # View(d, p) => Len(mutationQueue'[d]) > Len(mutationQueue[d]))
<1>1. CASE UNCHANGED fsVars
  BY <1>1, LeftAlone DEF fsVars, ClientInv
<1>2. ASSUME NEW e \in Device, WriteSomething(e)
      PROVE  SoleInv(d, p)' /\ (View(d, p)' # View(d, p) => Len(mutationQueue'[d]) > Len(mutationQueue[d]))
  BY <1>2, WriteSole DEF WriteSomething
<1>3. ASSUME NEW e \in Device, Commit(e) \/ Acknowledge(e) \/ RestartStream(e)
      PROVE  SoleInv(d, p)' /\ View(d, p)' = View(d, p)
  BY <1>3, CommitSole, AcknowledgeSole, RestartSole
<1>4. ASSUME NEW e \in Device, NEW x \in Path, Watch(e, x)
      PROVE  SoleInv(d, p)' /\ View(d, p)' = View(d, p)
  BY <1>4, WatchSole
<1>5. ASSUME NEW e \in Device, Persist(e) PROVE SoleInv(d, p)' /\ View(d, p)' = View(d, p)
  BY <1>5, LeftAlone DEF Persist, ClientInv
<1> QED  BY <1>1, <1>2, <1>3, <1>4, <1>5 DEF Next

LEMMA NextInv == ClientInv /\ [Next]_fsVars => ClientInv'
<1> SUFFICES ASSUME ClientInv, [Next]_fsVars PROVE ClientInv'
  OBVIOUS
<1>1. \A d \in Device, p \in Path : SoleWriter(d, p) => SoleInv(d, p)'
  BY NextSole
<1>2. \A d, p : SoleWriter(d, p)' <=> SoleWriter(d, p)
  BY DEF SoleWriter
<1> QED  BY <1>1, <1>2, NextWriters DEF ClientInv

LEMMA Inductive == Spec => []ClientInv
BY InitInv, NextInv, PTL DEF Spec

\* The client's types: the committed writes are a prefix of a device's queue
\* and the cache is ahead of the answers by committed writes only.
THEOREM TypeCorrect == Spec => []FsTypeOK
<1>1. ClientInv => FsTypeOK
  BY DEF ClientInv
<1> QED  BY <1>1, Inductive, PTL

\* Once a sole writer's writes are answered the backend holds what the device
\* shows, for any documents, fields and writes, resent however often.
THEOREM AnsweredMeansInSync == Spec => []SoleWriterIsInSync
<1>1. ClientInv => SoleWriterIsInSync
  <2> SUFFICES ASSUME ClientInv, NEW d \in Device, NEW p \in Path, SoleWriter(d, p),
                      \A i \in 1..Len(mutationQueue[d]) : mutationQueue[d][i].path # p
               PROVE  docs[p] = View(d, p)
    BY DEF SoleWriterIsInSync
  <2>1. docs[p] \in Document /\ mutationQueue[d] \in Seq(Mutation)
    BY Parts DEF ClientInv
  <2>2. \A f : Survives(f, mutationQueue[d], 1, p)
    BY DEF Survives
  <2>3. \A f : f \in LocalView(docs[p], mutationQueue[d], p) <=> f \in docs[p]
    BY <2>1, <2>2, InView
  <2>4. LocalView(docs[p], mutationQueue[d], p) = View(d, p)
    BY DEF ClientInv, SoleInv, ResendsAreHarmless
  <2> QED  BY <2>3, <2>4
<1> QED  BY <1>1, Inductive, PTL

\* Nothing but a device's own write moves what it sees of a document that it
\* alone writes: not a commit, an answer, a resend or a watch event.
THEOREM OwnDataDoesNotFlicker == Spec => SoleWriterViewIsStable
<1>1. ClientInv /\ [Next]_fsVars =>
        [\A d \in Device, p \in Path :
           SoleWriter(d, p) /\ View(d, p)' # View(d, p)
             => Len(mutationQueue'[d]) > Len(mutationQueue[d])]_fsVars
  BY NextSole
<1> QED  BY <1>1, Inductive, PTL DEF Spec, SoleWriterViewIsStable
=============================================================================
