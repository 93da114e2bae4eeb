----------------------------- MODULE MCSession -----------------------------
(***************************************************************************)
(* One device: n is a new account, o one that was signed up elsewhere, and *)
(* f and g are their friends.  SignUp: n and o come and go on a device     *)
(* that is killed.  Badges: both accounts are old and have messages from   *)
(* different friends.                                                      *)
(***************************************************************************)
EXTENDS Session, TLC

CONSTANTS n, o, f, g

NoMessages == {}

MessageEach == {<<g, n>>, <<f, o>>}
=============================================================================
