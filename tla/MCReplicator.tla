---------------------------- MODULE MCReplicator ----------------------------
(***************************************************************************)
(* The replicator on small instances: two users are enough for one to be   *)
(* replicated, waited for or failing while the other one competes for the  *)
(* queue's head and for the last dsync client.                             *)
(***************************************************************************)
EXTENDS Replicator, TLC

CONSTANTS u1, u2, r1

\* The users are interchangeable.
UserSymmetry == Permutations(Users)
=============================================================================
