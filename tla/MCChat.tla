------------------------------- MODULE MCChat -------------------------------
(***************************************************************************)
(* Two users who chat with each other, and the bounds of the three runs:   *)
(* a writes to b, who comes and goes (OneWay); both write, b in the chat   *)
(* and a by recordings whose uploads end after a has left it, one message  *)
(* each, at one timestamp or at two, and a's app is killed, with any part  *)
(* of its writes on disk, or its stream breaks (BothWays); everything a    *)
(* sends is shown to b, with the same faults (Live).                       *)
(***************************************************************************)
EXTENDS Chat

CONSTANTS a, b

Each(x, y) == a :> x @@ b :> y

OneWayClock == Each({1, 2}, {})

OneWayQueue == Each(4, 1)

OneWayViews == Each(1, 2)

OneWayEvents == Each(2, 3)

OneWayFaults == Each(0, 1)

BothWaysClock == Each({1}, {1, 2})

BothWaysQueue == Each(3, 3)

BothWaysViews == Each(1, 1)

BothWaysEvents == Each(1, 1)

BothWaysFaults == Each(1, 0)

\* Both users have opened the chat while it was empty, a has left it, and
\* everything that this does has been done.
Talking ==
  /\ FsInit
  /\ listeners = [u \in User |-> [c \in User |-> IF c = u THEN << >> ELSE <<<< >>>>]]
  /\ recents = Each(2, 1)
  /\ inChat = Each(NoChat, a)
  /\ cacheMessage = [u \in User |-> [c \in User |-> << >>]]
  /\ bufferChat = [u \in User |-> {}]
  /\ mainQueue = [u \in User |-> << >>]
  /\ sent = {}
  /\ lost = [u \in User |-> {}]
  /\ faults = [u \in User |-> 0]

\* A bound: nobody sends more than one message.
OneEach == \A m, n \in sent : m.from = n.from => m = n

TalkingSpec == Talking /\ [][Next /\ OneEach']_vars

LiveClock == Each({1}, {})

LiveQueue == Each(3, 1)

LiveViews == Each(1, 1)

LiveEvents == Each(1, 2)

LiveFaults == Each(1, 0)
=============================================================================
