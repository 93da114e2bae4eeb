---------------------------- MODULE MCGroupChat ----------------------------
(***************************************************************************)
(* a is the one who starts groups and sends.  Start: three users; a starts *)
(* a group, writes into it, and is killed or loses the stream once.        *)
(* Read: two rooms that exist, two messages of a, and what b sees of them. *)
(***************************************************************************)
EXTENDS GroupChat, TLC

CONSTANTS a, b, c

NoRooms == [g \in Group |-> {}]

SharedRooms == [g \in Group |-> User]

\* A bound that is n for a, m for b and 0 for everyone else.
Bound(n, m) == [u \in User |-> IF u = a THEN n ELSE IF u = b THEN m ELSE 0]

None == Bound(0, 0)

OneForA == Bound(1, 0)

TwoForA == Bound(2, 0)

TwoForAOneForB == Bound(2, 1)

ClockOfA == [u \in User |-> IF u = a THEN Time ELSE {}]
=============================================================================
