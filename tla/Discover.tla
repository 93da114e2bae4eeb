------------------------------ MODULE Discover ------------------------------
(***************************************************************************)
(* Discover: posts to one's friends, over the Firestore client.  A post is *)
(* written to the author's blog, to the author's own feed and to the feed  *)
(* of everyone in listOfId, the global the Friends listener fills, all in  *)
(* one turn of the main thread but as separate writes.  A friendship is    *)
(* two documents too, written by the one who agrees (FriendRequest).       *)
(*                                                                         *)
(* A post is the field [key, from]; its text is determined by them.  Each  *)
(* callback replaces all it is about by the view, so that one that runs    *)
(* late is one that ran early followed by other steps.                     *)
(***************************************************************************)
EXTENDS Naturals, Sequences, SequencesExt

CONSTANTS
  User,      \* accounts, one device each
  Requests,  \* bound: <<u, v>>: v's request, which u may agree to once
  MaxTime,   \* bound: timestamps are 1..MaxTime
  Clock,     \* bound: Clock[u] are the timestamps u's device may give
  MaxQueue,  \* bound: unacknowledged writes of u's device
  MaxFaults  \* bound: broken streams and kills of u's app

ASSUME DiscoverAssumption ==
  /\ IsFiniteSet(User)
  /\ \A r \in Requests : r \in User \X User /\ r[1] # r[2]
  /\ MaxTime \in Nat
  /\ Clock \in [User -> SUBSET (1..MaxTime)]
  /\ {MaxQueue, MaxFaults} \subseteq [User -> Nat]

VARIABLES
  docs, remoteDocs, mutationQueue, persisted, applied, caughtUp,  \* see Firestore
  listOfId,    \* listOfId[u]: ids of friends, from u's Friends listener
  discovers,   \* u has a DiscoverViewController, which listens
  blogRows,    \* blogRows[u]: the posts in its three row arrays
  agreed,      \* history: <<u, v>>: u has agreed to v's request
  posted,      \* history: every post, with those it was written to
  lost,        \* history: lost[u]: writes cut off by a kill of u's app
  faults       \* history: faults[u] broken streams and kills so far

Time == 1..MaxTime

Post == [key: Time, from: User]

\* All that is told apart in a Friends document is whether it exists.
Username == [key |-> 0]

\* "User/<u>/Friends/<v>", "User/<u>/MyBlog/Blog" and "User/<u>/FriendBlog/Blog"
Friends(u, v) == [coll |-> "Friends", owner |-> u, peer |-> v]

MyBlog(u) == [coll |-> "MyBlog", owner |-> u, peer |-> u]

FriendBlog(u) == [coll |-> "FriendBlog", owner |-> u, peer |-> u]

BlogPath ==
  UNION {{Friends(u, v) : v \in User \ {u}} \cup {MyBlog(u), FriendBlog(u)} : u \in User}

INSTANCE Firestore WITH
  Device <- User, Path <- BlogPath, Field <- Post \cup {Username}

clientVars == <<docs, remoteDocs, mutationQueue, persisted, applied, caughtUp>>

screenVars == <<listOfId, discovers, blogRows>>

vars == <<clientVars, screenVars, agreed, posted, lost, faults>>

Init ==
  /\ FsInit
  /\ listOfId = [u \in User |-> {}]
  /\ discovers = [u \in User |-> FALSE]
  /\ blogRows = [u \in User |-> {}]
  /\ agreed = {}
  /\ posted = {}
  /\ lost = [u \in User |-> {}]
  /\ faults = [u \in User |-> 0]
-----------------------------------------------------------------------------
(***************************************************************************)
(* What the user does.                                                     *)
(***************************************************************************)
Queue(u, mutations) ==
  /\ Len(mutationQueue[u]) + Len(mutations) <= MaxQueue[u]
  /\ LocallyWrite(u, mutations)

Befriend(p) == [path |-> p, fields |-> {Username}, merge |-> FALSE]

Friendship(u, v) == <<Befriend(Friends(u, v)), Befriend(Friends(v, u))>>

\* agreeClicked, without the two deletions of the request before.  Both
\* users may have asked, and both agree.
AgreeClicked(u, v) ==
  /\ <<u, v>> \in Requests \ agreed
  /\ Queue(u, Friendship(u, v))
  /\ agreed' = agreed \cup {<<u, v>>}
  /\ UNCHANGED <<screenVars, posted, lost, faults>>

\* The tab is selected: viewDidLoad.
OpenDiscover(u) ==
  /\ ~discovers[u]
  /\ discovers' = [discovers EXCEPT ![u] = TRUE]
  /\ UNCHANGED <<clientVars, listOfId, blogRows, agreed, posted, lost, faults>>

\* setData([timestamp: post], merge: true)
MergeInto(p, post) == [path |-> p, fields |-> {post}, merge |-> TRUE]

\* listOfId, an array, has some order.
Ordered(ids) == CHOOSE s \in SetToSeqs(ids) : TRUE

\* Mutants of Story: the feeds are written first; the documents are replaced.
StoryFeedsFirst(u, post, ids) ==
  LET order == Ordered(ids)
  IN  [i \in DOMAIN order |-> MergeInto(FriendBlog(order[i]), post)]
        \o <<MergeInto(MyBlog(u), post), MergeInto(FriendBlog(u), post)>>

StoryReplacing(u, post, ids) ==
  LET Replace(p) == [path |-> p, fields |-> {post}, merge |-> FALSE]
      order == Ordered(ids)
  IN  <<Replace(MyBlog(u)), Replace(FriendBlog(u))>>
        \o [i \in DOMAIN order |-> Replace(FriendBlog(order[i]))]

\* The writes of sendStoryClicked: the blog, the own feed, the others' in
\* the order of listOfId.
Story(u, post, ids) ==
  LET order == Ordered(ids)
  IN  <<MergeInto(MyBlog(u), post), MergeInto(FriendBlog(u), post)>>
        \o [i \in DOMAIN order |-> MergeInto(FriendBlog(order[i]), post)]

\* The clock of a device never gives the same timestamp twice; the clocks of
\* two devices may.
SendStory(u, t) ==
  /\ discovers[u]
  /\ \A p \in posted : p.from = u => p.key < t
  /\ Queue(u, Story(u, [key |-> t, from |-> u], listOfId[u]))
  /\ posted' = posted \cup {[key |-> t, from |-> u, to |-> listOfId[u] \cup {u}]}
  /\ UNCHANGED <<screenVars, agreed, lost, faults>>
-----------------------------------------------------------------------------
(***************************************************************************)
(* Listeners, the network and the process.                                 *)
(***************************************************************************)
Listed(u) == {v \in User \ {u} : View(u, Friends(u, v)) # {}}

\* The closure of the Friends query, in RecentViewController.viewDidLoad.
FriendsCallback(u) ==
  /\ listOfId[u] # Listed(u)
  /\ listOfId' = [listOfId EXCEPT ![u] = Listed(u)]
  /\ UNCHANGED <<clientVars, discovers, blogRows, agreed, posted, lost, faults>>

\* The closure of DiscoverViewController.viewDidLoad: the arrays are emptied
\* and filled again.  A document that does not exist leaves them alone.
BlogCallback(u) ==
  /\ discovers[u]
  /\ View(u, FriendBlog(u)) \notin {{}, blogRows[u]}
  /\ blogRows' = [blogRows EXCEPT ![u] = View(u, FriendBlog(u))]
  /\ UNCHANGED <<clientVars, listOfId, discovers, agreed, posted, lost, faults>>

PersistWrite(u) ==
  /\ Persist(u)
  /\ UNCHANGED <<screenVars, agreed, posted, lost, faults>>

CommitWrite(u) ==
  /\ Commit(u)
  /\ UNCHANGED <<screenVars, agreed, posted, lost, faults>>

WriteAnswered(u) ==
  /\ Acknowledge(u)
  /\ UNCHANGED <<screenVars, agreed, posted, lost, faults>>

\* Mutant of Listened: the feed is read once, not listened to.
ListenedFriends(u) == {Friends(u, v) : v \in User \ {u}}

Listened(u) ==
  {Friends(u, v) : v \in User \ {u}} \cup (IF discovers[u] THEN {FriendBlog(u)} ELSE {})

ReceiveSnapshot(u, p) ==
  /\ p \in Listened(u)
  /\ IsStale(u, p)
  /\ Watch(u, p)
  /\ UNCHANGED <<screenVars, agreed, posted, lost, faults>>

Fault(u) ==
  /\ faults[u] < MaxFaults[u]
  /\ faults' = [faults EXCEPT ![u] = @ + 1]

StreamBroken(u) ==
  /\ RestartStream(u)
  /\ Fault(u)
  /\ UNCHANGED <<screenVars, agreed, posted, lost>>

\* The process is killed and launched again: what is on disk of the queue is
\* sent again; the rest of it, the globals and the screens are gone.
Relaunch(u) ==
  /\ Fault(u)
  /\ lost' = [lost EXCEPT ![u] = @ \cup CutOff(u)]
  /\ mutationQueue' = [mutationQueue EXCEPT ![u] = OnDisk(u)]
  /\ applied' = [applied EXCEPT ![u] = 0]
  /\ caughtUp' = [caughtUp EXCEPT ![u] = {}]
  /\ listOfId' = [listOfId EXCEPT ![u] = {}]
  /\ discovers' = [discovers EXCEPT ![u] = FALSE]
  /\ blogRows' = [blogRows EXCEPT ![u] = {}]
  /\ UNCHANGED <<docs, remoteDocs, persisted, agreed, posted>>

Next ==
  \E u \in User :
    \/ \E v \in User : AgreeClicked(u, v)
    \/ OpenDiscover(u)
    \/ \E t \in Clock[u] : SendStory(u, t)
    \/ FriendsCallback(u)
    \/ BlogCallback(u)
    \/ PersistWrite(u)
    \/ CommitWrite(u)
    \/ WriteAnswered(u)
    \/ \E p \in BlogPath : ReceiveSnapshot(u, p)
    \/ StreamBroken(u)
    \/ Relaunch(u)

Spec == Init /\ [][Next]_vars
-----------------------------------------------------------------------------
(***************************************************************************)
(* Safety.                                                                 *)
(***************************************************************************)
KeysOf(S) == {m.key : m \in S}

\* A post on screen stays there while the app runs: the arrays are emptied
\* and filled from every snapshot, but no echo, answer, resend or post of
\* another author takes a timestamp out of the view they are filled from.
PostsStayOnScreen ==
  [][\A u \in User : KeysOf(blogRows[u]) \subseteq KeysOf(blogRows'[u])
                      \/ faults'[u] > faults[u]]_vars
-----------------------------------------------------------------------------
(***************************************************************************)
(* Liveness and refinement.  Devices run and streams are reopened whenever *)
(* they break.                                                             *)
(***************************************************************************)
Fairness ==
  \A u \in User :
    /\ WF_vars(BlogCallback(u))
    /\ WF_vars(PersistWrite(u))
    /\ WF_vars(CommitWrite(u))
    /\ WF_vars(WriteAnswered(u))
    /\ WF_vars(ReceiveSnapshot(u, FriendBlog(u)))

FairSpec == Spec /\ Fairness

\* The copy of the post u made at t for document p was not on disk when u's
\* app was killed.
CopyLost(u, t, p) == MergeInto(p, [key |-> t, from |-> u]) \in lost[u]

\* A post sent to someone who has Discover open is shown there in the end,
\* unless their app is killed first, or the author's was killed before this
\* copy was on disk.
PostIsShown ==
  \A u, v \in User : \A t \in Clock[u] :
    ((\E p \in posted : p.from = u /\ p.key = t /\ v \in p.to) /\ discovers[v])
      ~> (t \in KeysOf(blogRows[v]) \/ ~discovers[v] \/ CopyLost(u, t, FriendBlog(v)))

\* Discover implements Feed: a post is kept and delivered when the backend
\* commits the write that carries it, u lists v when the document in u's
\* Friends is committed, and a copy is cut when a kill of the author's app
\* comes before it was on disk.  It follows that a post reaches nobody before
\* its author's blog, nobody whom the author does not list at the backend
\* (though perhaps somebody who does not list the author: a friendship may
\* have been cut in half), and in the end everybody in listOfId but those
\* whose copies were cut, through any other kill and any broken stream.
Exists(p) == docs[p] # {}

Lists == {pair \in User \X User : pair[1] # pair[2] /\ Exists(Friends(pair[1], pair[2]))}

Cut ==
  {copy \in User \X Time \X User : CopyLost(copy[1], copy[2], FriendBlog(copy[3]))}

TheFeed == INSTANCE Feed WITH
  lists <- Lists,
  blogs <- [u \in User |-> KeysOf(docs[MyBlog(u)])],
  feeds <- [u \in User |-> KeysOf(docs[FriendBlog(u)])],
  cut <- Cut

ImplementsFeed == TheFeed!FairSpec
=============================================================================
