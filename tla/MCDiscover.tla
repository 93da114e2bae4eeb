----------------------------- MODULE MCDiscover -----------------------------
(***************************************************************************)
(* Two users who post once each.  a agrees to b's request and posts for    *)
(* itself alone; b posts to whoever is listed by then.  One of the two     *)
(* apps is killed, with any part of its writes on disk, or loses its       *)
(* stream.                                                                 *)
(***************************************************************************)
EXTENDS Discover, TLC

CONSTANTS a, b

Each(x, y) == a :> x @@ b :> y

Agreeing == {<<a, b>>}

Clocks == Each({1}, {2})

Queues == Each(2, 3)

Faults == Each(1, 1)

\* Bounds: one fault in all, and none of a's if a posts.
OneFault ==
  /\ faults[a] + faults[b] <= 1
  /\ faults[a] = 1 => \A p \in posted : p.from # a

BoundedSpec == Init /\ [][Next /\ OneFault']_vars /\ Fairness
=============================================================================
