---------------------------- MODULE ConnectLimit ----------------------------
(***************************************************************************)
(* How many connections each user has from an address: imap and pop3       *)
(* processes tell the anvil process of every client, over one pipe; the    *)
(* master process tells it over another pipe of processes that failed      *)
(* (anvil/connect-limit.c, anvil/anvil-connection.c,                       *)
(* master/service-anvil.c, master/service-process-notify.c).               *)
(*                                                                         *)
(* The login processes only read the counts, over sockets of their own.    *)
(***************************************************************************)
EXTENDS Integers, Sequences, FiniteSets

CONSTANTS
  Pids,      \* the process ids that mail processes get
  Idents,    \* protocol, user and address
  AnEnv,     \* the events the environment may cause
  PipeMax,   \* lines that fit into a pipe
  MaxOpens,  \* bound on clients
  MaxFails,  \* bound on failures of mail processes
  MaxDies    \* bound on failures of anvil

\* PROC_FAIL: a mail process exits with a status other than 0, ANVIL_DIE: the
\* anvil process does, EARLY_DIE: even before it has read the VERSION lines.
ASSUME AnAssumption ==
  /\ AnEnv \subseteq {"PROC_FAIL", "ANVIL_DIE", "EARLY_DIE"}
  /\ PipeMax \in Nat \ {0} /\ MaxOpens \in Nat /\ MaxFails \in Nat /\ MaxDies \in Nat
  /\ IsFiniteSet(Pids) /\ IsFiniteSet(Idents)

VARIABLES
  proc,       \* mail processes: none, running, dead (not reaped yet)
  clients,    \* the clients a process has
  blocking,   \* the pipe the mail processes write to
  nonblock,   \* the pipe the master writes to
  kills,      \* the master's queue of processes it could not write yet
  anvil,      \* the anvil process: up, and version_received of its two pipes,
              \* "closed" when it has closed the pipe after an unknown command
  ident_hash, ident_pid_hash,
  opens, fails, dies, \* events so far
  anpanic,    \* history: "connect limit hash tables are inconsistent"
  off         \* history: processes whose clients anvil may miscount

anVars == <<proc, clients, blocking, nonblock, kills, anvil, ident_hash,
            ident_pid_hash, opens, fails, dies, anpanic, off>>
tables == <<ident_hash, ident_pid_hash, anpanic>>
mailVars == <<proc, clients, opens, fails>>

PipeEnds == {"blocking", "nonblock"}
VERSION == [cmd |-> "VERSION"]
Line(cmd, p, i) == [cmd |-> cmd, pid |-> p, ident |-> i]
KILL(p) == [cmd |-> "KILL", pid |-> p]
About(p) == {KILL(p)} \cup {Line(c, p, i) : c \in {"CONNECT", "DISCONNECT"}, i \in Idents}
Pending(pipe, p) == \E n \in 1..Len(pipe) : pipe[n] \in About(p)
NoClients == [i \in Idents |-> 0]

AnInit ==
  /\ proc = [p \in Pids |-> "none"]
  /\ clients = [p \in Pids |-> NoClients]
  /\ blocking = <<VERSION>> /\ nonblock = <<VERSION>> /\ kills = <<>>
  /\ anvil = [up |-> TRUE, ver |-> [f \in PipeEnds |-> "no"]]
  /\ ident_hash = NoClients
  /\ ident_pid_hash = [p \in Pids |-> NoClients]
  /\ opens = 0 /\ fails = 0 /\ dies = 0 /\ anpanic = FALSE /\ off = {}

-----------------------------------------------------------------------------
(* Mail processes.  A write blocks while the pipe is full, so the step is  *)
(* taken when there is room.                                               *)

master_service_anvil_send(line) ==
  /\ Len(blocking) < PipeMax
  /\ blocking' = Append(blocking, line)

ProcStart(p) ==
  /\ proc[p] = "none"
  /\ proc' = [proc EXCEPT ![p] = "running"]
  /\ UNCHANGED <<clients, blocking, nonblock, kills, anvil, tables, opens, fails, dies, off>>

\* client_create(), imap and pop3.
ClientCreate(p, i) ==
  /\ proc[p] = "running" /\ opens < MaxOpens
  /\ master_service_anvil_send(Line("CONNECT", p, i))
  /\ clients' = [clients EXCEPT ![p][i] = @ + 1]
  /\ opens' = opens + 1
  /\ off' = IF anvil.up THEN off ELSE off \cup {p}
  /\ UNCHANGED <<proc, nonblock, kills, anvil, tables, fails, dies>>

ClientDestroy(p, i) ==
  /\ proc[p] = "running" /\ clients[p][i] > 0
  /\ master_service_anvil_send(Line("DISCONNECT", p, i))
  /\ clients' = [clients EXCEPT ![p][i] = @ - 1]
  /\ UNCHANGED <<proc, nonblock, kills, anvil, tables, opens, fails, dies, off>>

\* A process exits with status 0 once its clients are gone.
ProcExit(p) ==
  /\ proc[p] = "running" /\ clients[p] = NoClients
  /\ proc' = [proc EXCEPT ![p] = "none"]
  /\ UNCHANGED <<clients, blocking, nonblock, kills, anvil, tables, opens, fails, dies, off>>

ProcFail(p) ==
  /\ "PROC_FAIL" \in AnEnv /\ proc[p] = "running" /\ fails < MaxFails
  /\ fails' = fails + 1
  /\ proc' = [proc EXCEPT ![p] = "dead"]
  /\ clients' = [clients EXCEPT ![p] = NoClients]
  /\ UNCHANGED <<blocking, nonblock, kills, anvil, tables, opens, dies, off>>

-----------------------------------------------------------------------------
(* The master process.                                                     *)

\* services_monitor_reap_children(), service_process_notify_add().
ReapFailed(p) ==
  /\ proc[p] = "dead"
  /\ proc' = [proc EXCEPT ![p] = "none"]
  /\ IF Len(nonblock) < PipeMax
     THEN nonblock' = Append(nonblock, KILL(p)) /\ UNCHANGED kills
     ELSE kills' = Append(kills, p) /\ UNCHANGED nonblock
  /\ UNCHANGED <<clients, blocking, anvil, tables, opens, fails, dies, off>>

notify_flush ==
  /\ kills # <<>> /\ Len(nonblock) < PipeMax
  /\ nonblock' = Append(nonblock, KILL(Head(kills)))
  /\ kills' = Tail(kills)
  /\ UNCHANGED <<mailVars, blocking, anvil, tables, dies, off>>

\* While there is no anvil process the master empties the pipes.
service_list_anvil_discard_input ==
  /\ ~anvil.up
  /\ \/ blocking # <<>> /\ blocking' = Tail(blocking) /\ UNCHANGED nonblock
     \/ nonblock # <<>> /\ nonblock' = Tail(nonblock) /\ UNCHANGED blocking
  /\ UNCHANGED <<mailVars, kills, anvil, tables, dies, off>>

\* The write to the blocking pipe waits for the new process to make room; the
\* one to the other pipe fails when that pipe is full.
service_anvil_process_created ==
  /\ ~anvil.up /\ Len(blocking) < PipeMax
  /\ anvil' = [anvil EXCEPT !.up = TRUE]
  /\ blocking' = Append(blocking, VERSION)
  /\ nonblock' = IF Len(nonblock) < PipeMax THEN Append(nonblock, VERSION) ELSE nonblock
  /\ UNCHANGED <<mailVars, kills, tables, dies, off>>

-----------------------------------------------------------------------------
(* The anvil process.                                                      *)

Limit == [total |-> ident_hash, pairs |-> ident_pid_hash, panic |-> anpanic]

connect_limit_connect(l, p, i) ==
  [l EXCEPT !.total[i] = @ + 1, !.pairs[p][i] = @ + 1]

\* n calls of connect_limit_ident_hash_unref().
ident_hash_unref(l, i, n) ==
  IF l.total[i] >= n THEN [l EXCEPT !.total[i] = @ - n]
  ELSE [l EXCEPT !.panic = TRUE]

\* Mutant: the counts go down for an unknown pair, too.
DisconnectUnknown(l, p, i) ==
  ident_hash_unref([l EXCEPT !.pairs[p][i] = @ - 1], i, 1)

connect_limit_disconnect(l, p, i) ==
  IF l.pairs[p][i] = 0 THEN l
  ELSE ident_hash_unref([l EXCEPT !.pairs[p][i] = @ - 1], i, 1)

\* Mutant: one reference per pair is dropped, not all of them.
DisconnectPidOnce(l, p) ==
  [total |-> [i \in Idents |-> IF l.pairs[p][i] > 0 /\ l.total[i] > 0
                               THEN l.total[i] - 1 ELSE l.total[i]],
   pairs |-> [l.pairs EXCEPT ![p] = NoClients], panic |-> l.panic]

connect_limit_disconnect_pid(l, p) ==
  [total |-> [i \in Idents |-> IF l.total[i] >= l.pairs[p][i]
                               THEN l.total[i] - l.pairs[p][i] ELSE 0],
   pairs |-> [l.pairs EXCEPT ![p] = NoClients],
   panic |-> l.panic \/ \E i \in Idents : l.total[i] < l.pairs[p][i]]

\* Mutant: a failed process keeps what it was counted for.
KillIgnored(l, line) ==
  CASE line.cmd = "CONNECT" -> connect_limit_connect(l, line.pid, line.ident)
    [] line.cmd = "DISCONNECT" -> connect_limit_disconnect(l, line.pid, line.ident)
    [] OTHER -> l

anvil_connection_request(l, line) ==
  CASE line.cmd = "CONNECT" -> connect_limit_connect(l, line.pid, line.ident)
    [] line.cmd = "DISCONNECT" -> connect_limit_disconnect(l, line.pid, line.ident)
    [] line.cmd = "KILL" -> connect_limit_disconnect_pid(l, line.pid)
    [] OTHER -> l

\* Lines before the VERSION line are what an earlier anvil process left; a
\* second VERSION line is an unknown command.  One line per step: the 1024
\* bytes that are read at a time may end after any line.
anvil_connection_input(pipe, line) ==
  LET l == IF anvil.ver[pipe] = "yes" THEN anvil_connection_request(Limit, line) ELSE Limit
  IN  /\ anvil.up /\ anvil.ver[pipe] # "closed" /\ ~anpanic
      /\ anvil' = [anvil EXCEPT !.ver[pipe] = CASE line # VERSION -> @
                                                [] @ = "no" -> "yes"
                                                [] OTHER -> "closed"]
      /\ ident_hash' = l.total /\ ident_pid_hash' = l.pairs /\ anpanic' = l.panic
      /\ UNCHANGED <<mailVars, kills, dies>>

ReadBlocking ==
  /\ blocking # <<>>
  /\ anvil_connection_input("blocking", Head(blocking))
  /\ blocking' = Tail(blocking)
  /\ UNCHANGED <<nonblock, off>>

ReadNonblocking ==
  /\ nonblock # <<>>
  /\ anvil_connection_input("nonblock", Head(nonblock))
  /\ nonblock' = Tail(nonblock)
  /\ off' = off \cup {p \in Pids : /\ Head(nonblock) = KILL(p)
                                   /\ Pending(blocking, p) \/ clients[p] # NoClients}
  /\ UNCHANGED blocking

AnvilDie ==
  /\ "ANVIL_DIE" \in AnEnv /\ anvil.up /\ dies < MaxDies
  /\ "EARLY_DIE" \in AnEnv \/ \A f \in PipeEnds : anvil.ver[f] # "no"
  /\ anvil' = [up |-> FALSE, ver |-> [f \in PipeEnds |-> "no"]]
  /\ ident_hash' = NoClients /\ ident_pid_hash' = [p \in Pids |-> NoClients]
  /\ dies' = dies + 1 /\ anpanic' = FALSE
  /\ off' = off \cup {p \in Pids : clients[p] # NoClients \/ Pending(blocking, p)}
  /\ UNCHANGED <<mailVars, blocking, nonblock, kills>>

AnNext ==
  \/ \E p \in Pids : ProcStart(p) \/ ProcExit(p) \/ ProcFail(p) \/ ReapFailed(p)
  \/ \E p \in Pids, i \in Idents : ClientCreate(p, i) \/ ClientDestroy(p, i)
  \/ notify_flush \/ service_list_anvil_discard_input
  \/ service_anvil_process_created
  \/ ReadBlocking \/ ReadNonblocking \/ AnvilDie

AnSpec == AnInit /\ [][AnNext]_anVars

-----------------------------------------------------------------------------
(* Properties.                                                             *)

Counts == [Idents -> Nat]

\* The references that the processes hold to a user's count, each by itself.
References(h, i) == UNION {{p} \X (1..h[p][i]) : p \in Pids}

\* The variables stay within their types: no count of connect_limit_disconnect()
\* goes below zero, and the pipes carry only what their writers write.
AnTypeOK ==
  /\ proc \in [Pids -> {"none", "running", "dead"}]
  /\ clients \in [Pids -> Counts] /\ opens \in Nat /\ fails \in Nat /\ dies \in Nat
  /\ kills \in Seq(Pids) /\ anpanic \in BOOLEAN /\ off \subseteq Pids
  /\ ident_hash \in Counts /\ ident_pid_hash \in [Pids -> Counts]
  /\ anvil \in [up : BOOLEAN, ver : [PipeEnds -> {"no", "yes", "closed"}]]
  /\ blocking \in Seq({VERSION} \cup UNION {About(p) : p \in Pids})
  /\ nonblock \in Seq({VERSION} \cup {KILL(p) : p \in Pids})

\* connect_limit_ident_hash_unref() never panics: the count of a user is the
\* sum of what the processes are counted for, whatever lines are lost, late or
\* repeated.
CountsAgree ==
  /\ ~anpanic
  /\ \A i \in Idents :
       ident_hash[i] = Cardinality(References(ident_pid_hash, i))

\* When the pipes are empty and every failed process is reaped, anvil counts a
\* process for exactly the clients it has, unless the KILL of the pid came
\* before lines of the failed process were read or after its successor with the
\* same pid had clients, or anvil was restarted while the process had clients.
QuietCount ==
  (/\ anvil.up /\ \A f \in PipeEnds : anvil.ver[f] = "yes"
   /\ blocking = <<>> /\ nonblock = <<>> /\ kills = <<>>
   /\ \A p \in Pids : proc[p] # "dead")
  => \A p \in Pids \ off : ident_pid_hash[p] = clients[p]
=============================================================================
