------------------------------ MODULE MCFaults ------------------------------
(***************************************************************************)
(* Four components that share nothing, each under all the failures it has  *)
(* to cope with, in one run: part says which of them moves, while the      *)
(* others stay as they began.                                              *)
(*                                                                         *)
(* director: a single director with five moves, so that contexts of old    *)
(* moves outlive the next one, host flushes, failing kills and timeouts.   *)
(*                                                                         *)
(* aggregator: one user waits for answers to its changes, the other does   *)
(* not.  A FIFO and a socket of one line fill up at once; two lines of     *)
(* queue are more than a block, so that a block ends inside the queue;     *)
(* with two changes each a user changes again before the answer comes.     *)
(*                                                                         *)
(* connect_limit: two pids, each used again after its process has failed,  *)
(* pipes of two lines, and an anvil process that fails once.               *)
(*                                                                         *)
(* penalty: an offset that overflows after three seconds, a list of two    *)
(* addresses, and an expiry time that is changed while records wait; in    *)
(* nine seconds each of them can be expired twice.                         *)
(***************************************************************************)
EXTENDS UserMove, Aggregator, ConnectLimit, Penalty

VARIABLE part

directorVars == vars
faultVars == <<part, directorVars, aggVars, anVars, penVars>>

FaultsInit ==
  /\ part \in {"director", "aggregator", "connect_limit", "penalty"}
  /\ Init /\ AggInit /\ AnInit /\ PenInit
  /\ part # "aggregator" => rc = NewConn /\ repl

FaultsNext ==
  /\ UNCHANGED part
  /\ \/ part = "director" /\ Next /\ UNCHANGED <<aggVars, anVars, penVars>>
     \/ part = "aggregator" /\ AggNext /\ UNCHANGED <<directorVars, anVars, penVars>>
     \/ part = "connect_limit" /\ AnNext /\ UNCHANGED <<directorVars, aggVars, penVars>>
     \/ part = "penalty" /\ PenNext /\ UNCHANGED <<directorVars, aggVars, anVars>>

FaultsSpec == FaultsInit /\ [][FaultsNext]_faultVars
=============================================================================
