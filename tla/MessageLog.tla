----------------------------- MODULE MessageLog -----------------------------
(***************************************************************************)
(* What two people who chat rely on, without devices, queues, streams or   *)
(* screens: a message, once sent, is kept in its sender's copy of the      *)
(* conversation and then delivered to its receiver's, no copy ever loses a *)
(* message, and no copy holds one that was not sent.  Each copy is told by *)
(* the timestamps it holds, the keys of the document.                      *)
(***************************************************************************)
EXTENDS Naturals

CONSTANTS User, Time

VARIABLES
  sent,    \* every message anyone sent
  copies   \* copies[u][c]: the timestamps in u's copy of the chat with c

logVars == <<sent, copies>>

Init ==
  /\ sent = {}
  /\ copies = [u \in User |-> [c \in User |-> {}]]

\* A sender's messages have increasing timestamps, whoever they are for.
Send(u, c, t) ==
  /\ u # c
  /\ \A m \in sent : m.from = u => m.key < t
  /\ sent' = sent \cup {[key |-> t, from |-> u, to |-> c]}
  /\ UNCHANGED copies

Put(u, c, t) ==
  /\ t \notin copies[u][c]
  /\ copies' = [copies EXCEPT ![u][c] = @ \cup {t}]
  /\ UNCHANGED sent

Keep(m) == Put(m.from, m.to, m.key)

Deliver(m) ==
  /\ m.key \in copies[m.from][m.to]
  /\ Put(m.to, m.from, m.key)

Next ==
  \/ \E u, c \in User, t \in Time : Send(u, c, t)
  \/ \E m \in sent : Keep(m) \/ Deliver(m)

Spec == Init /\ [][Next]_logVars
=============================================================================
