--------------------------- MODULE FirestoreClient ---------------------------
(***************************************************************************)
(* The client on its own: every device writes the documents it may write,  *)
(* in every way the app does, at most MaxQueue[d] writes outstanding.      *)
(***************************************************************************)
EXTENDS Firestore

CONSTANTS
  Writers,    \* Writers[p]: the devices that write document p
  MaxQueue    \* bound: MaxQueue[d] unacknowledged writes of device d

ASSUME ClientAssumption ==
  /\ Writers \in [Path -> SUBSET Device]
  /\ MaxQueue \in [Device -> Nat]

WriteSomething(d) ==
  /\ Len(mutationQueue[d]) < MaxQueue[d]
  /\ \E m \in Mutation : d \in Writers[m.path] /\ LocallyWrite(d, <<m>>)

Next ==
  \E d \in Device :
    \/ WriteSomething(d)
    \/ Persist(d)
    \/ Commit(d)
    \/ Acknowledge(d)
    \/ RestartStream(d)
    \/ \E p \in Path : Watch(d, p)

Spec == FsInit /\ [][Next]_fsVars
-----------------------------------------------------------------------------
SoleWriter(d, p) == Writers[p] = {d}

\* A device's view of a document only it writes is moved by its own writes
\* alone: commits, answers, resends and watch events, in any order, neither
\* add a field to it nor take one away (no flicker of the user's own data).
SoleWriterViewIsStable ==
  [][\A d \in Device, p \in Path :
       SoleWriter(d, p) /\ View(d, p)' # View(d, p)
         => Len(mutationQueue'[d]) > Len(mutationQueue[d])]_fsVars

\* When the last write of a sole writer has been answered, the backend holds
\* exactly what the device shows, however often writes were sent again.
SoleWriterIsInSync ==
  \A d \in Device, p \in Path :
    SoleWriter(d, p) /\ (\A i \in 1..Len(mutationQueue[d]) : mutationQueue[d][i].path # p)
      => docs[p] = View(d, p)
=============================================================================
