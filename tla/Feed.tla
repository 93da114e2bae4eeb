-------------------------------- MODULE Feed --------------------------------
(***************************************************************************)
(* What the users of Discover rely on, without devices, queues, streams or *)
(* screens: a post, once sent, is kept in its author's blog, then put into *)
(* the author's own feed and into those of the people it was sent to, whom *)
(* the author lists as friends by the time it gets there, and no blog or   *)
(* feed loses a post.  Each is told by the timestamps it holds.  The copy  *)
(* for somebody may be cut, and then need not be delivered.                *)
(***************************************************************************)
EXTENDS Naturals

CONSTANTS
  User,
  Time,    \* timestamps
  Clock    \* Clock[u]: the timestamps u's device may give

VARIABLES
  posted,  \* every post: who sent it, when, and to whom
  lists,   \* <<u, v>>: u lists v as a friend
  blogs,   \* blogs[u]: the timestamps of the posts kept for their author u
  feeds,   \* feeds[u]: the timestamps of the posts u can read
  cut      \* <<u, t, v>>: what u posted at t need not get to v's feed

feedVars == <<posted, lists, blogs, feeds, cut>>

Init ==
  /\ posted = {}
  /\ lists = {}
  /\ blogs = [u \in User |-> {}]
  /\ feeds = [u \in User |-> {}]
  /\ cut = {}

\* Nothing takes a friend off a list.
Befriend(u, v) ==
  /\ <<u, v>> \notin lists
  /\ lists' = lists \cup {<<u, v>>}
  /\ UNCHANGED <<posted, blogs, feeds, cut>>

\* An author's posts have increasing timestamps.
Publish(u, t, audience) ==
  /\ \A p \in posted : p.from = u => p.key < t
  /\ posted' = posted \cup {[key |-> t, from |-> u, to |-> audience \cup {u}]}
  /\ UNCHANGED <<lists, blogs, feeds, cut>>

Keep(p) ==
  /\ p.key \notin blogs[p.from]
  /\ blogs' = [blogs EXCEPT ![p.from] = @ \cup {p.key}]
  /\ UNCHANGED <<posted, lists, feeds, cut>>

Deliver(p, v) ==
  /\ p.key \in blogs[p.from]
  /\ v = p.from \/ <<p.from, v>> \in lists
  /\ p.key \notin feeds[v]
  /\ feeds' = [feeds EXCEPT ![v] = @ \cup {p.key}]
  /\ UNCHANGED <<posted, lists, blogs, cut>>

\* The author's device dies before it has stored some of the copies.
Die(u) ==
  /\ cut' \in SUBSET (User \X Time \X User)
  /\ cut \subseteq cut'
  /\ \A copy \in cut' \ cut :
       /\ copy[1] = u
       /\ \E p \in posted : p.from = u /\ p.key = copy[2] /\ copy[3] \in p.to
  /\ UNCHANGED <<posted, lists, blogs, feeds>>

Next ==
  \/ \E u \in User : \E v \in User \ {u} : Befriend(u, v)
  \/ \E u \in User : \E t \in Clock[u], audience \in SUBSET User : Publish(u, t, audience)
  \/ \E p \in posted : Keep(p) \/ \E v \in p.to : Deliver(p, v)
  \/ \E u \in User : Die(u)

Spec == Init /\ [][Next]_feedVars

PostsOf(u, t) == {p \in posted : p.from = u /\ p.key = t}

Uncut(u, t, v) == <<u, t, v>> \notin cut

\* What was posted is kept, unless even the author's own copy was cut, and
\* delivered to everyone it was sent to whose copy was not.
FairSpec ==
  /\ Spec
  /\ \A u \in User : \A t \in Clock[u] :
       /\ WF_feedVars(\E p \in PostsOf(u, t) : Uncut(u, t, u) /\ Keep(p))
       /\ \A v \in User :
            WF_feedVars(\E p \in PostsOf(u, t) : v \in p.to /\ Uncut(u, t, v) /\ Deliver(p, v))
=============================================================================
