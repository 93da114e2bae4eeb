--------------------------- MODULE FriendRequest ---------------------------
(***************************************************************************)
(* Friend requests over the Firestore client.  A request of u to v is two  *)
(* documents, u's FriendRequestTo/v and v's FriendRequestFrom/u; a         *)
(* friendship is two documents, one under each user.  Every screen writes  *)
(* both halves itself, as separate writes of its own device.               *)
(*                                                                         *)
(* The listener of RecentViewController.listener() fills the global        *)
(* friendRequestInformation; ContentViewController copies it into table    *)
(* rows when it appears; selecting a row fixes the person the next screen  *)
(* agrees or disagrees with.  Callbacks that wait on the main thread are   *)
(* left out: each replaces the global by the query's result, so that one   *)
(* that runs late is one that ran early followed by other steps.           *)
(***************************************************************************)
EXTENDS Naturals, Sequences

CONSTANTS
  User,       \* accounts, one device each
  NoOne,      \* no request is selected
  MaxQueue,   \* bound: unacknowledged writes of u's device
  MaxAsks,    \* bound: requests of u to each other user
  MaxFaults   \* bound: broken streams and kills of u's app

ASSUME FriendRequestAssumption ==
  /\ NoOne \notin User
  /\ {MaxQueue, MaxAsks, MaxFaults} \subseteq [User -> Nat]

VARIABLES
  docs, remoteDocs, mutationQueue, persisted, applied, caughtUp,  \* see Firestore
  friendRequestInformation,   \* ids listed for u, from u's listener
  rows,                       \* rows of u's request table
  friendSelectedInformation,  \* the request u looks at, or NoOne
  asked,                      \* history: asked[<<u, v>>]: how often u has asked v
  agreed,                     \* history: <<u, v>>: u has agreed to v's request
  lost,                       \* history: lost[u]: writes cut off by a kill
  faults                      \* history: faults[u] broken streams and kills

\* "User/<u>/FriendRequestTo/<v>", "User/<u>/FriendRequestFrom/<v>" and
\* "User/<u>/Friends/<v>"
RequestTo(u, v) == [coll |-> "FriendRequestTo", owner |-> u, peer |-> v]

RequestFrom(u, v) == [coll |-> "FriendRequestFrom", owner |-> u, peer |-> v]

Friends(u, v) == [coll |-> "Friends", owner |-> u, peer |-> v]

FriendPath ==
  [coll: {"FriendRequestTo", "FriendRequestFrom", "Friends"}, owner: User, peer: User]

\* All that is told apart in these documents is whether they exist.
Data == [key |-> "username"]

INSTANCE Firestore WITH Device <- User, Path <- FriendPath, Field <- {Data}

Exists(p) == docs[p] # {}

Set(p) == [path |-> p, fields |-> {Data}, merge |-> FALSE]

Delete(p) == [path |-> p, fields |-> {}, merge |-> FALSE]

clientVars == <<docs, remoteDocs, mutationQueue, persisted, applied, caughtUp>>

screenVars == <<friendRequestInformation, rows, friendSelectedInformation>>

vars == <<clientVars, screenVars, asked, agreed, lost, faults>>

Init ==
  /\ FsInit
  /\ friendRequestInformation = [u \in User |-> {}]
  /\ rows = [u \in User |-> {}]
  /\ friendSelectedInformation = [u \in User |-> NoOne]
  /\ asked = [pair \in User \X User |-> 0]
  /\ agreed = {}
  /\ lost = [u \in User |-> {}]
  /\ faults = [u \in User |-> 0]
-----------------------------------------------------------------------------
(***************************************************************************)
(* What the user does.                                                     *)
(***************************************************************************)
HasRoom(u, mutations) == Len(mutationQueue[u]) + Len(mutations) <= MaxQueue[u]

\* sendFriendRequest, whatever v's profile says of earlier requests.
RequestWrites(u, v) == <<Set(RequestTo(u, v)), Set(RequestFrom(v, u))>>

SendFriendRequest(u, v) ==
  /\ u # v
  /\ asked[<<u, v>>] < MaxAsks[u]
  /\ HasRoom(u, RequestWrites(u, v))
  /\ LocallyWrite(u, RequestWrites(u, v))
  /\ asked' = [asked EXCEPT ![<<u, v>>] = @ + 1]
  /\ UNCHANGED <<screenVars, agreed, lost, faults>>

\* ContentViewController.viewWillAppear reloads the table.
ShowRequests(u) ==
  /\ rows' = [rows EXCEPT ![u] = friendRequestInformation[u]]
  /\ UNCHANGED <<clientVars, friendRequestInformation, friendSelectedInformation,
                 asked, agreed, lost, faults>>

\* Mutant of SelectRequest: the screen opens for anybody, row or not.
SelectAnyone(u, v) ==
  /\ v # u
  /\ friendSelectedInformation' = [friendSelectedInformation EXCEPT ![u] = v]
  /\ UNCHANGED <<clientVars, friendRequestInformation, rows, asked, agreed, lost, faults>>

\* A row is selected: the row as it was drawn, listed or not by now.
SelectRequest(u, v) ==
  /\ v \in rows[u]
  /\ friendSelectedInformation' = [friendSelectedInformation EXCEPT ![u] = v]
  /\ UNCHANGED <<clientVars, friendRequestInformation, rows, asked, agreed, lost, faults>>

\* Mutant of DeclineWrites: the sender's half is deleted first.
DeclineWritesSwapped(u, v) == <<Delete(RequestTo(v, u)), Delete(RequestFrom(u, v))>>

DeclineWrites(u, v) == <<Delete(RequestFrom(u, v)), Delete(RequestTo(v, u))>>

\* Mutant of AgreeWrites: the requester is left to find out.
AgreeWritesOwnSide(u, v) == DeclineWrites(u, v) \o <<Set(Friends(u, v))>>

AgreeWrites(u, v) == DeclineWrites(u, v) \o <<Set(Friends(u, v)), Set(Friends(v, u))>>

\* agreeClicked; the screen is left.
AgreeClicked(u) ==
  LET v == friendSelectedInformation[u]
  IN  /\ v # NoOne
      /\ HasRoom(u, AgreeWrites(u, v))
      /\ LocallyWrite(u, AgreeWrites(u, v))
      /\ agreed' = agreed \cup {<<u, v>>}
      /\ friendSelectedInformation' = [friendSelectedInformation EXCEPT ![u] = NoOne]
      /\ UNCHANGED <<friendRequestInformation, rows, asked, lost, faults>>

\* disagreeClicked; the screen is left.
DisagreeClicked(u) ==
  LET v == friendSelectedInformation[u]
  IN  /\ v # NoOne
      /\ HasRoom(u, DeclineWrites(u, v))
      /\ LocallyWrite(u, DeclineWrites(u, v))
      /\ friendSelectedInformation' = [friendSelectedInformation EXCEPT ![u] = NoOne]
      /\ UNCHANGED <<friendRequestInformation, rows, asked, agreed, lost, faults>>
-----------------------------------------------------------------------------
(***************************************************************************)
(* The listener, the network and the process.                              *)
(***************************************************************************)
Listed(u) == {v \in User : View(u, RequestFrom(u, v)) # {}}

\* The closure of the FriendRequestFrom query runs.
RequestsCallback(u) ==
  /\ friendRequestInformation[u] # Listed(u)
  /\ friendRequestInformation' = [friendRequestInformation EXCEPT ![u] = Listed(u)]
  /\ UNCHANGED <<clientVars, rows, friendSelectedInformation, asked, agreed, lost, faults>>

PersistWrite(u) ==
  /\ Persist(u)
  /\ UNCHANGED <<screenVars, asked, agreed, lost, faults>>

CommitWrite(u) ==
  /\ Commit(u)
  /\ UNCHANGED <<screenVars, asked, agreed, lost, faults>>

WriteAnswered(u) ==
  /\ Acknowledge(u)
  /\ UNCHANGED <<screenVars, asked, agreed, lost, faults>>

\* Mutant of ReceiveSnapshot: the requests are read once, not listened to.
ReceiveFriendsOnly(u, p) ==
  /\ p.owner = u
  /\ p.coll = "Friends"
  /\ IsStale(u, p)
  /\ Watch(u, p)
  /\ UNCHANGED <<screenVars, asked, agreed, lost, faults>>

\* Of the documents modelled here, a device listens to its own
\* FriendRequestFrom and Friends collections.
ReceiveSnapshot(u, p) ==
  /\ p.owner = u
  /\ p.coll # "FriendRequestTo"
  /\ IsStale(u, p)
  /\ Watch(u, p)
  /\ UNCHANGED <<screenVars, asked, agreed, lost, faults>>

Fault(u) ==
  /\ faults[u] < MaxFaults[u]
  /\ faults' = [faults EXCEPT ![u] = @ + 1]

StreamBroken(u) ==
  /\ RestartStream(u)
  /\ Fault(u)
  /\ UNCHANGED <<screenVars, asked, agreed, lost>>

\* What a launch does not find, whatever is on disk.
FreshProcess(u) ==
  /\ Fault(u)
  /\ lost' = [lost EXCEPT ![u] = @ \cup CutOff(u)]
  /\ applied' = [applied EXCEPT ![u] = 0]
  /\ friendRequestInformation' = [friendRequestInformation EXCEPT ![u] = {}]
  /\ rows' = [rows EXCEPT ![u] = {}]
  /\ friendSelectedInformation' = [friendSelectedInformation EXCEPT ![u] = NoOne]
  /\ UNCHANGED <<docs, remoteDocs, asked, agreed>>

\* Mutants of Relaunch: versions seen by the old streams are trusted; the
\* queue is lost.
RelaunchKeepingVersions(u) ==
  /\ FreshProcess(u)
  /\ mutationQueue' = [mutationQueue EXCEPT ![u] = OnDisk(u)]
  /\ UNCHANGED <<persisted, caughtUp>>

RelaunchWithoutPersistence(u) ==
  /\ FreshProcess(u)
  /\ caughtUp' = [caughtUp EXCEPT ![u] = {}]
  /\ mutationQueue' = [mutationQueue EXCEPT ![u] = << >>]
  /\ persisted' = [persisted EXCEPT ![u] = 0]

\* The process is killed, perhaps between the writes of one tap, and launched
\* again; what is on disk of the queue is sent again.
Relaunch(u) ==
  /\ FreshProcess(u)
  /\ caughtUp' = [caughtUp EXCEPT ![u] = {}]
  /\ mutationQueue' = [mutationQueue EXCEPT ![u] = OnDisk(u)]
  /\ UNCHANGED persisted

Next ==
  \E u \in User :
    \/ \E v \in User : SendFriendRequest(u, v)
    \/ ShowRequests(u)
    \/ \E v \in User : SelectRequest(u, v)
    \/ AgreeClicked(u)
    \/ DisagreeClicked(u)
    \/ RequestsCallback(u)
    \/ PersistWrite(u)
    \/ CommitWrite(u)
    \/ WriteAnswered(u)
    \/ \E p \in FriendPath : ReceiveSnapshot(u, p)
    \/ StreamBroken(u)
    \/ Relaunch(u)

Spec == Init /\ [][Next]_vars
-----------------------------------------------------------------------------
(***************************************************************************)
(* Safety.                                                                 *)
(***************************************************************************)
\* Types.
TypeOK ==
  /\ FsTypeOK
  /\ friendRequestInformation \in [User -> SUBSET User]
  /\ rows \in [User -> SUBSET User]
  /\ friendSelectedInformation \in [User -> User \cup {NoOne}]
  /\ asked \in [User \X User -> Nat]
  /\ agreed \subseteq User \X User
  /\ lost \in [User -> SUBSET Mutation]
  /\ faults \in [User -> Nat]

\* Write m of u's queue has not been committed since the stream was opened.
NotCommitted(u, m) ==
  \E i \in 1..Len(mutationQueue[u]) : i > applied[u] /\ mutationQueue[u][i] = m

\* Write m of u's is still to be committed, or was not on disk in a kill.
PendingOrLost(u, m) == NotCommitted(u, m) \/ m \in lost[u]

\* A request that its sender's profile screen calls "Is Requesting" can be
\* answered: the receiver's half exists, unless the sender has yet to write
\* it or the receiver, having answered, has yet to delete the sender's half,
\* or a kill came before that very write was on disk.  Repeated requests,
\* answers that cross them, resends and other kills do not break it.
RequestCanBeAnswered ==
  \A u, v \in User :
    Exists(RequestTo(u, v)) => \/ Exists(RequestFrom(v, u))
                               \/ PendingOrLost(u, Set(RequestFrom(v, u)))
                               \/ PendingOrLost(v, Delete(RequestTo(u, v)))

\* Friendship is mutual, but for the second of agreeClicked's two writes: it
\* is always the one who is listed already whose device has yet to send it,
\* or lost it in a kill before it was on disk (the friendship then stays
\* one-sided).
FriendshipIsMutual ==
  \A u, v \in User :
    Exists(Friends(u, v)) => Exists(Friends(v, u)) \/ PendingOrLost(u, Set(Friends(v, u)))

\* Nobody is listed as a friend who did not ask or agree: agreeClicked acts
\* on a row that may be out of date, but only ever on one that was a request.
FriendsOnlyByConsent ==
  \A u, v \in User :
    Exists(Friends(u, v)) => \/ <<u, v>> \in agreed /\ asked[<<v, u>>] > 0
                             \/ <<v, u>> \in agreed /\ asked[<<u, v>>] > 0
-----------------------------------------------------------------------------
(***************************************************************************)
(* Liveness, under the fairness of a device that runs and a network whose  *)
(* streams are reopened whenever they break.                               *)
(***************************************************************************)
Fairness ==
  \A u \in User :
    /\ WF_vars(RequestsCallback(u))
    /\ WF_vars(PersistWrite(u))
    /\ WF_vars(CommitWrite(u))
    /\ WF_vars(WriteAnswered(u))
    /\ \A v \in User \ {u} : WF_vars(ReceiveSnapshot(u, RequestFrom(u, v)))

FairSpec == Spec /\ Fairness

\* Whoever agrees to a request ends up with a friendship on both sides, but
\* for what a kill took before it was on disk: all of it or the other side's
\* half, never the own half alone.
AgreedBecomeFriends ==
  \A u \in User : \A v \in User \ {u} :
    <<u, v>> \in agreed
      ~> (/\ Exists(Friends(u, v)) \/ {Set(Friends(u, v)), Set(Friends(v, u))} \subseteq lost[u]
          /\ Exists(Friends(v, u)) \/ Set(Friends(v, u)) \in lost[u])

\* A request is listed on the receiver's device in the end, or is answered.
RequestsAreListed ==
  \A u \in User : \A v \in User \ {u} :
    Exists(RequestFrom(v, u))
      ~> (u \in friendRequestInformation[v] \/ ~Exists(RequestFrom(v, u)))
=============================================================================
