-------------------------- MODULE MCMovesAndLocks ---------------------------
(***************************************************************************)
(* Two components that share nothing, in one run with their fairness: svc  *)
(* says which of them moves, while the other stays as it began, with       *)
(* nothing to do (no fair action is enabled then).                         *)
(*                                                                         *)
(* moves: three directors, one of which only passes the messages of a move *)
(* on, and logins before, during and after it.                             *)
(*                                                                         *)
(* dotlock: a process that died before, and two live ones on different     *)
(* hosts, one of which may die too.                                        *)
(***************************************************************************)
EXTENDS UserMove, Dotlock

VARIABLE svc

BothInit ==
  /\ svc \in {"moves", "dotlock"}
  /\ Init /\ DotInit
  /\ svc # "dotlock" => lock = NoLock

BothNext ==
  /\ UNCHANGED svc
  /\ \/ svc = "moves" /\ Next /\ UNCHANGED dotVars
     \/ svc = "dotlock" /\ DotNext /\ UNCHANGED vars

BothSpec == /\ BothInit /\ [][BothNext]_<<svc, vars, dotVars>>
            /\ Fairness /\ DotFairness
=============================================================================
