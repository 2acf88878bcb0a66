----------------------------- MODULE MCServices -----------------------------
(***************************************************************************)
(* Two components that share nothing and promise that something eventually *)
(* happens, in one run: svc says which of them moves, while the other      *)
(* stays as it began, with nothing to do (no fair action is enabled then). *)
(*                                                                         *)
(* indexer: two mailboxes of one user and one of another, two workers at   *)
(* most; three requests, so that one comes while its mailbox is being      *)
(* indexed and one while both workers are busy.                            *)
(*                                                                         *)
(* ipc: two clients, two processes, two commands; one client may leave     *)
(* while its command runs.                                                 *)
(***************************************************************************)
EXTENDS Indexer, Ipc

VARIABLE svc

MCKeys == {<<"u1", "a">>, <<"u1", "b">>, <<"u2", "a">>}

ServicesInit ==
  /\ svc \in {"indexer", "ipc"}
  /\ IxInit /\ IpcInit

ServicesNext ==
  /\ UNCHANGED svc
  /\ \/ svc = "indexer" /\ IxNext /\ UNCHANGED ipcVars
     \/ svc = "ipc" /\ IpcNext /\ UNCHANGED ixVars

ServicesSpec ==
  /\ ServicesInit /\ [][ServicesNext]_<<svc, ixVars, ipcVars>>
  /\ IxFairness /\ IpcFairness
=============================================================================
