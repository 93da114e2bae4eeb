---------------------------- MODULE MCFirestore ----------------------------
(***************************************************************************)
(* One device that alone writes two documents: fields of two keys, so that *)
(* merges keep some and replace others, and replacements delete.  What     *)
(* other devices write to other documents moves nothing the properties     *)
(* speak of; documents of several writers are the business of Chat and     *)
(* FriendRequest.                                                          *)
(***************************************************************************)
EXTENDS FirestoreClient, TLC

CONSTANTS d1, own, other

MCField == {[key |-> 1, value |-> "x"], [key |-> 1, value |-> "y"], [key |-> 2, value |-> "x"]}

MCMaxQueue == d1 :> 2

MCWriters == own :> {d1} @@ other :> {d1}
=============================================================================
