----------------------------- MODULE Firestore -----------------------------
(***************************************************************************)
(* The part of the Firestore client every screen of the app runs on: each  *)
(* device keeps a persistent cache of the documents it has heard of and a  *)
(* persistent queue of its own writes; the backend applies a device's      *)
(* writes in queue order, acknowledges them one by one, and tells a device *)
(* the current state of the documents it listens to.                       *)
(*                                                                         *)
(* A call of setData or delete only leaves a block for the client's worker *)
(* thread; the worker runs the blocks in order, and each puts its one      *)
(* write on disk in a transaction of its own.  A process that is killed    *)
(* keeps the writes that are on disk, a prefix of mutationQueue[d].        *)
(*                                                                         *)
(* A document is the set of its fields.  A missing document and a document *)
(* without fields are both {}: no screen modelled here tells them apart.   *)
(* The backend accepts every write (the repository has no rules file).     *)
(***************************************************************************)
EXTENDS Naturals, Sequences

CONSTANTS
  Device,     \* installations of the app, one signed-in account each
  Path,       \* documents
  Field       \* document fields: records with at least the field "key"

ASSUME FirestoreAssumption == \A f \in Field : "key" \in DOMAIN f

VARIABLES
  docs,           \* the backend: docs[p] is the committed document
  remoteDocs,     \* remoteDocs[d][p]: the device's cache of docs[p]
  mutationQueue,  \* mutationQueue[d]: writes of d not acknowledged yet
  persisted,      \* the first persisted[d] of them are on disk
  applied,        \* the first applied[d] of them are committed
  caughtUp        \* those of them the cached document already includes

fsVars == <<docs, remoteDocs, mutationQueue, persisted, applied, caughtUp>>
-----------------------------------------------------------------------------
\* setData(fields, merge: true) replaces the fields it names, setData(fields,
\* merge: false) the whole document; delete() is setData({}, merge: false).
Document == {doc \in SUBSET Field : \A f, g \in doc : f.key = g.key => f = g}

Mutation == [path: Path, fields: Document, merge: BOOLEAN]

Overwrites(m, f) == ~m.merge \/ \E g \in m.fields : g.key = f.key

ApplyTo(m, doc) == {f \in doc : ~Overwrites(m, f)} \cup m.fields

\* What is left of field f of document p after the writes lo, lo+1, ... of a
\* queue.
Survives(f, queue, lo, p) ==
  \A i \in lo..Len(queue) : queue[i].path = p => ~Overwrites(queue[i], f)

\* A cached document with the queued writes applied on top, in order.
LocalView(doc, queue, p) ==
  {f \in doc : Survives(f, queue, 1, p)} \cup
  {f \in Field : \E i \in 1..Len(queue) :
      /\ queue[i].path = p
      /\ f \in queue[i].fields
      /\ Survives(f, queue, i + 1, p)}

View(d, p) == LocalView(remoteDocs[d][p], mutationQueue[d], p)
-----------------------------------------------------------------------------
FsInit ==
  /\ docs = [p \in Path |-> {}]
  /\ remoteDocs = [d \in Device |-> [p \in Path |-> {}]]
  /\ mutationQueue = [d \in Device |-> << >>]
  /\ persisted = [d \in Device |-> 0]
  /\ applied = [d \in Device |-> 0]
  /\ caughtUp = [d \in Device |-> {}]

\* The app calls setData/delete, once per write: the worker has a block for
\* each, and whatever the main thread is told from now on comes behind them.
LocallyWrite(d, mutations) ==
  /\ mutationQueue' = [mutationQueue EXCEPT ![d] = @ \o mutations]
  /\ UNCHANGED <<docs, remoteDocs, persisted, applied, caughtUp>>

\* The worker runs the next block: one write, one transaction.
Persist(d) ==
  /\ persisted[d] < Len(mutationQueue[d])
  /\ persisted' = [persisted EXCEPT ![d] = @ + 1]
  /\ UNCHANGED <<docs, remoteDocs, mutationQueue, applied, caughtUp>>

\* Mutant of Commit: the newest write on disk is committed first.
CommitNewestFirst(d) ==
  /\ applied[d] < persisted[d]
  /\ LET m == mutationQueue[d][persisted[d] - applied[d]]
     IN  docs' = [docs EXCEPT ![m.path] = ApplyTo(m, @)]
  /\ applied' = [applied EXCEPT ![d] = @ + 1]
  /\ UNCHANGED <<remoteDocs, mutationQueue, persisted, caughtUp>>

\* The backend commits the next write the device's write stream sent; the
\* stream is filled from what is on disk.
Commit(d) ==
  /\ applied[d] < persisted[d]
  /\ LET m == mutationQueue[d][applied[d] + 1]
     IN  docs' = [docs EXCEPT ![m.path] = ApplyTo(m, @)]
  /\ applied' = [applied EXCEPT ![d] = @ + 1]
  /\ UNCHANGED <<remoteDocs, mutationQueue, persisted, caughtUp>>

\* Mutant of Acknowledge: the write leaves the queue, the cache waits for watch.
AcknowledgeWithoutApplying(d) ==
  /\ applied[d] > 0
  /\ mutationQueue' = [mutationQueue EXCEPT ![d] = Tail(@)]
  /\ persisted' = [persisted EXCEPT ![d] = @ - 1]
  /\ applied' = [applied EXCEPT ![d] = @ - 1]
  /\ caughtUp' = [caughtUp EXCEPT ![d] = {i - 1 : i \in @ \ {1}}]
  /\ UNCHANGED <<docs, remoteDocs>>

\* The answer to the oldest write arrives: it leaves the queue, and is
\* applied to the cached document unless a newer version is cached already.
Acknowledge(d) ==
  /\ applied[d] > 0
  /\ LET m == Head(mutationQueue[d])
     IN  remoteDocs' = IF 1 \in caughtUp[d]
                       THEN remoteDocs
                       ELSE [remoteDocs EXCEPT ![d][m.path] = ApplyTo(m, @)]
  /\ mutationQueue' = [mutationQueue EXCEPT ![d] = Tail(@)]
  /\ persisted' = [persisted EXCEPT ![d] = @ - 1]
  /\ applied' = [applied EXCEPT ![d] = @ - 1]
  /\ caughtUp' = [caughtUp EXCEPT ![d] = {i - 1 : i \in @ \ {1}}]
  /\ UNCHANGED docs

\* The write stream breaks with answers outstanding: every write still in
\* the queue is sent, and committed, again.
RestartStream(d) ==
  /\ applied[d] > 0
  /\ applied' = [applied EXCEPT ![d] = 0]
  /\ caughtUp' = [caughtUp EXCEPT ![d] = {}]
  /\ UNCHANGED <<docs, remoteDocs, mutationQueue, persisted>>

\* The committed writes of d to document p.
CommittedOn(d, p) == {i \in 1..applied[d] : mutationQueue[d][i].path = p}

\* The backend has a version of document p that the device has not cached.
IsStale(d, p) == docs[p] # remoteDocs[d][p] \/ ~(CommittedOn(d, p) \subseteq caughtUp[d])

\* The watch stream brings document p: it replaces the cached one.
Watch(d, p) ==
  /\ remoteDocs' = [remoteDocs EXCEPT ![d][p] = docs[p]]
  /\ caughtUp' = [caughtUp EXCEPT ![d] = @ \cup CommittedOn(d, p)]
  /\ UNCHANGED <<docs, mutationQueue, persisted, applied>>

\* What a launch finds of a queue, and what a kill has cut off of it.
OnDisk(d) == SubSeq(mutationQueue[d], 1, persisted[d])

CutOff(d) == {mutationQueue[d][i] : i \in (persisted[d] + 1)..Len(mutationQueue[d])}
-----------------------------------------------------------------------------
\* The shape of the client's state: the committed writes are a prefix of those
\* on disk, which are a prefix of the queue, and the cached document includes
\* only committed ones.
FsTypeOK ==
  /\ docs \in [Path -> Document]
  /\ remoteDocs \in [Device -> [Path -> Document]]
  /\ mutationQueue \in [Device -> Seq(Mutation)]
  /\ persisted \in [Device -> Nat]
  /\ applied \in [Device -> Nat]
  /\ caughtUp \in [Device -> SUBSET Nat]
  /\ \A d \in Device : /\ applied[d] <= persisted[d]
                       /\ persisted[d] <= Len(mutationQueue[d])
                       /\ caughtUp[d] \subseteq 1..applied[d]
=============================================================================
