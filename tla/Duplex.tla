------------------------------- MODULE Duplex -------------------------------
(***************************************************************************)
(* What a GrpcStream promises to its observer (grpc_stream.h): messages    *)
(* go out and come in one by one, in order and none twice, until the       *)
(* stream ends, once, by the client or with a notification; then nothing   *)
(* goes out and nobody is told anything.                                   *)
(***************************************************************************)
EXTENDS Naturals, Sequences

VARIABLES
  written,  \* how many messages the client has written
  wire,     \* those that went out
  arrived,  \* how many messages the server has sent
  told,     \* those the client was told
  end       \* "none", "stopped" by the client or "notified" to it

vars == <<written, wire, arrived, told, end>>

Init == written = 0 /\ wire = << >> /\ arrived = 0 /\ told = << >> /\ end = "none"

Write ==
  /\ written' = written + 1
  /\ UNCHANGED <<wire, arrived, told>>

Transmit ==
  /\ Len(wire) < written
  /\ wire' = Append(wire, Len(wire) + 1)
  /\ UNCHANGED <<written, arrived, told>>

Arrive ==
  /\ arrived' = arrived + 1
  /\ UNCHANGED <<written, wire, told>>

Tell ==
  /\ Len(told) < arrived
  /\ told' = Append(told, Len(told) + 1)
  /\ UNCHANGED <<written, wire, arrived>>

End ==
  /\ end' \in {"stopped", "notified"}
  /\ UNCHANGED <<written, wire, arrived, told>>

Next ==
  /\ end = "none"
  /\ \/ (Write \/ Transmit \/ Arrive \/ Tell) /\ UNCHANGED end
     \/ End

Spec == Init /\ [][Next]_vars
=============================================================================
