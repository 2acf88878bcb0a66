----------------------------- MODULE MCDirector -----------------------------
(***************************************************************************)
(* Two parts of the director that share nothing, in one run: part says     *)
(* which of them moves, while the other stays as it began.                 *)
(*                                                                         *)
(* moves: two directors, one move, and everything that may come between its*)
(* steps: slow kills, refreshes, resets, timeouts, flushed hosts.          *)
(*                                                                         *)
(* hosts: three directors, so that a line passes around the ring both ways,*)
(* and two commands at any of them.  The ring looks the same from every    *)
(* director: the first command may as well be given at director 1, and at  *)
(* time 1.                                                                 *)
(***************************************************************************)
EXTENDS MCUserMove, HostSync

VARIABLE part

\* The hosts begin with the smallest vhost count.
DirectorInit ==
  /\ part \in {"moves", "hosts"}
  /\ Init /\ HostsInit
  /\ \A v \in Vhosts : dirs[1].host.vhosts <= v

FirstCommand == cmds = <<>> /\ cmds' # <<>> => dirs'[1] # dirs[1] /\ clock' = 1

DirectorNext ==
  /\ UNCHANGED part
  /\ \/ part = "moves" /\ Next /\ UNCHANGED hsVars
     \/ part = "hosts" /\ HostsNext /\ FirstCommand /\ UNCHANGED vars

DirectorSpec == DirectorInit /\ [][DirectorNext]_<<part, vars, hsVars>>
=============================================================================
