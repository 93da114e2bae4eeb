-------------------------- MODULE MCFriendRequest --------------------------
(***************************************************************************)
(* Two users, and the bounds of the two runs: two requests in all, both of *)
(* a or one of each (Cross); one of a (Answer).  Only b looks at requests  *)
(* and answers them.  One of the two apps is killed, with any part of its  *)
(* writes on disk, or loses its stream.                                    *)
(***************************************************************************)
EXTENDS FriendRequest, TLC

CONSTANTS a, b

Each(x, y) == a :> x @@ b :> y

TwoAndFour == Each(2, 4)

CrossAsks == Each(2, 1)

AnswerAsks == Each(1, 0)

OneFaultEach == Each(1, 1)

\* Bounds: on the requests, on who answers, and on the faults.
Few ==
  /\ asked[<<a, b>>] + asked[<<b, a>>] <= 2
  /\ rows[a] = {}
  /\ faults[a] + faults[b] <= 1

CrossSpec == Init /\ [][Next /\ Few']_vars

AnswerSpec == CrossSpec /\ Fairness
=============================================================================
