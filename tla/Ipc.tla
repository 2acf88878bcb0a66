-------------------------------- MODULE Ipc ---------------------------------
(***************************************************************************)
(* The ipc process: clients send commands to one process of a group or to  *)
(* all of them ("*"), and get one answer for each command                  *)
(* (ipc/client.c, ipc/ipc-group.c, ipc/ipc-connection.c).                  *)
(*                                                                         *)
(* There is one group.  Connection ids come from a counter and are used    *)
(* once.  ":" lines, which are passed on and change nothing, are left out. *)
(* A callback may call client_input() again for the lines the client has   *)
(* sent meanwhile; run is the stack of the loops that are in progress, and *)
(* the event loop goes on when it is empty.                                *)
(***************************************************************************)
EXTENDS Integers, Sequences, FiniteSets, SequencesExt

CONSTANTS
  IpcClients,
  Leaving,    \* the clients that may disconnect
  MaxConns,   \* bound on connections
  MaxCmds,    \* bound on commands
  IpcEnv      \* the events the environment may cause

\* WORKER_GONE: a process disconnects or sends garbage, IPC_STOP: the ipc
\* process is stopped.
ASSUME IpcAssumption ==
  /\ Leaving \subseteq IpcClients /\ MaxConns \in Nat /\ MaxCmds \in Nat
  /\ IpcEnv \subseteq {"WORKER_GONE", "IPC_STOP"}

VARIABLES
  icl,        \* struct client; wait: its io is removed, n: commands started
  icn,        \* struct ipc_connection: state, cmds, tag counter
  grp,        \* the ipc_group_cmd of a client's command: refcount, first_error
  named,      \* whether group->name is known
  run,        \* loops in progress, the innermost first
  from,       \* lines from a process that were not read yet
  work,       \* commands a process has not answered yet
  sent,       \* commands sent so far
  addressed,  \* history: the connections the client's command was sent to
  said,       \* history: the answers processes gave
  wrong,      \* history: a client was given a wrong answer
  freed       \* history: a callback was called with a freed client

ipcVars == <<icl, icn, grp, named, run, from, work, sent, addressed, said, wrong, freed>>
history == <<addressed, said, wrong, freed>>

NoGrp == [ref |-> 0, error |-> FALSE]
IpcConns == 1..MaxConns  \* connection ids, from connection_id_counter
ALL == 0                 \* "*"
Targets == {ALL} \cup IpcConns
Open == {c \in IpcConns : icn[c].st = "open"}
InputLoop(k) == [loop |-> "client_input", of |-> k]
DestroyLoop(c) == [loop |-> "ipc_connection_destroy", of |-> c]
Top(frame) == run # <<>> /\ Head(run) = frame

IpcInit ==
  /\ icl = [k \in IpcClients |-> [st |-> "open", buf |-> <<>>, eof |-> FALSE,
                                  wait |-> FALSE, n |-> 0]]
  /\ icn = [c \in IpcConns |-> [st |-> "none", hs |-> FALSE, cmds |-> <<>>, tag |-> 0]]
  /\ grp = [k \in IpcClients |-> NoGrp] /\ named = FALSE /\ run = <<>>
  /\ from = [c \in IpcConns |-> <<>>] /\ work = [c \in IpcConns |-> {}]
  /\ sent = 0 /\ addressed = [k \in IpcClients |-> {}]
  /\ said = {} /\ wrong = FALSE /\ freed = FALSE

-----------------------------------------------------------------------------
(* client.c and ipc_group_cmd().                                           *)

Cmd(c, k, isgroup) ==
  [tag |-> icn[c].tag + 1, client |-> k, n |-> icl[k].n + 1, isgroup |-> isgroup]

ipc_connection_cmd(k, to, isgroup) ==
  /\ icn' = [c \in IpcConns |->
               IF c \notin to THEN icn[c]
               ELSE [icn[c] EXCEPT !.tag = @ + 1, !.cmds = Append(@, Cmd(c, k, isgroup))]]
  /\ work' = [c \in IpcConns |->
                IF c \notin to THEN work[c] ELSE work[c] \cup {Cmd(c, k, isgroup)}]

\* ipc_group_cmd(): one reference per connection of the group.
GroupRefs(k, isgroup, to) ==
  grp' = IF isgroup THEN [grp EXCEPT ![k] = [ref |-> Cardinality(to), error |-> FALSE]]
         ELSE grp

\* Commands to an unknown group, an empty group or an unknown connection are
\* answered at once.
Recipients(target) ==
  IF ~named THEN {} ELSE IF target = ALL THEN Open ELSE {target} \cap Open

\* Mutant: lines are read on while a command is running.
ReadOn(k) == icl[k].buf # <<>>

MayReadLine(k) == ~icl[k].wait /\ icl[k].buf # <<>>

\* One line of client_input().  The client is not read from until the command
\* is finished.
ClientLine(k) ==
  LET target == Head(icl[k].buf)
      to == Recipients(target)
  IN  /\ Top(InputLoop(k)) /\ MayReadLine(k)
      /\ icl' = [icl EXCEPT ![k].buf = Tail(@), ![k].wait = @ \/ to # {},
                            ![k].n = IF to = {} THEN @ ELSE @ + 1]
      /\ ipc_connection_cmd(k, to, target = ALL)
      /\ GroupRefs(k, target = ALL /\ to # {}, to)
      /\ addressed' = [addressed EXCEPT ![k] = IF to = {} THEN @ ELSE to]
      /\ UNCHANGED <<named, run, from, sent, said, wrong, freed>>

\* The end of client_input(), client_destroy() when the input has ended.
ClientInputEnd(k) ==
  /\ Top(InputLoop(k)) /\ ~MayReadLine(k)
  /\ run' = Tail(run)
  /\ icl' = IF icl[k].eof /\ ~icl[k].wait THEN [icl EXCEPT ![k].st = "gone"] ELSE icl
  /\ UNCHANGED <<icn, grp, named, from, work, sent, history>>

ClientInput(k) ==
  /\ run = <<>> /\ icl[k].st = "open" /\ ~icl[k].wait /\ (icl[k].buf # <<>> \/ icl[k].eof)
  /\ run' = <<InputLoop(k)>>
  /\ UNCHANGED <<icl, icn, grp, named, from, work, sent, history>>

-----------------------------------------------------------------------------
(* Answers.                                                                *)

\* The last answer to the command of a client: "+" if ok, else "-".
client_cmd_input(k, ok) ==
  LET plus == {c \in IpcConns : <<c, k, icl[k].n, TRUE>> \in said}
      true == IF ok THEN addressed[k] \subseteq plus
              ELSE \E c \in addressed[k] : c \notin plus \/ icn[c].st = "gone"
  IN  /\ icl' = [icl EXCEPT ![k].wait = FALSE]
      /\ run' = IF icl[k].st = "open" THEN <<InputLoop(k)>> \o run ELSE run
      /\ addressed' = [addressed EXCEPT ![k] = {}]
      /\ said' = {x \in said : x[2] # k}
      /\ wrong' = (wrong \/ ~true)
      /\ freed' = (freed \/ icl[k].st = "gone")

\* first_error
GroupError(k, ok) == grp[k].error \/ ~ok

ipc_group_cmd_callback(k, ok) ==
  IF grp[k].ref > 1
  THEN /\ grp' = [grp EXCEPT ![k] = [ref |-> @.ref - 1, error |-> GroupError(k, ok)]]
       /\ UNCHANGED <<icl, run, history>>
  ELSE /\ grp' = [grp EXCEPT ![k] = NoGrp]
       /\ client_cmd_input(k, ~GroupError(k, ok))

Callback(cmd, ok) ==
  IF cmd.isgroup THEN ipc_group_cmd_callback(cmd.client, ok)
  ELSE client_cmd_input(cmd.client, ok) /\ UNCHANGED grp

-----------------------------------------------------------------------------
(* ipc-connection.c.                                                       *)

ipc_connection_create(c) ==
  /\ run = <<>> /\ icn[c].st = "none" /\ \A d \in 1..c - 1 : icn[d].st # "none"
  /\ icn' = [icn EXCEPT ![c].st = "open"]
  /\ UNCHANGED <<icl, grp, named, run, from, work, sent, history>>

\* The handshake of the first process names the group.
Handshake(c) ==
  /\ run = <<>> /\ icn[c].st = "open" /\ ~icn[c].hs
  /\ icn' = [icn EXCEPT ![c].hs = TRUE]
  /\ named' = TRUE
  /\ UNCHANGED <<icl, grp, run, from, work, sent, history>>

\* Mutant: the oldest command gets the answer, whatever its tag.
FindFirst(cmds, tag) == IF cmds = <<>> THEN 0 ELSE 1

ipc_connection_cmd_find(cmds, tag) == SelectInSeq(cmds, LAMBDA x : x.tag = tag)

ipc_connection_input_line(c) ==
  LET line == Head(from[c])
      i == ipc_connection_cmd_find(icn[c].cmds, line.tag)
  IN  /\ run = <<>> /\ icn[c].st = "open" /\ icn[c].hs /\ from[c] # <<>>
      /\ from' = [from EXCEPT ![c] = Tail(@)]
      /\ IF i = 0 THEN UNCHANGED <<icl, icn, grp, run, history>>
         ELSE /\ icn' = [icn EXCEPT ![c].cmds = RemoveAt(@, i)]
              /\ Callback(icn[c].cmds[i], line.ok)
      /\ UNCHANGED <<named, work, sent>>

\* The connection leaves the group, then every command it has not answered
\* fails.
ipc_connection_destroy(c) ==
  /\ "WORKER_GONE" \in IpcEnv /\ run = <<>> /\ icn[c].st = "open"
  /\ icn' = [icn EXCEPT ![c].st = "gone"]
  /\ run' = <<DestroyLoop(c)>>
  /\ from' = [from EXCEPT ![c] = <<>>]
  /\ work' = [work EXCEPT ![c] = {}]
  /\ UNCHANGED <<icl, grp, named, sent, history>>

\* Mutant: commands of a lost connection are dropped.
FreeSilently(c) ==
  /\ Top(DestroyLoop(c)) /\ icn[c].cmds # <<>>
  /\ icn' = [icn EXCEPT ![c].cmds = Tail(@)]
  /\ UNCHANGED <<icl, grp, named, run, from, work, sent, history>>

ipc_connection_cmd_free(c) ==
  /\ Top(DestroyLoop(c)) /\ icn[c].cmds # <<>>
  /\ icn' = [icn EXCEPT ![c].cmds = Tail(@)]
  /\ Callback(Head(icn[c].cmds), FALSE)
  /\ UNCHANGED <<named, from, work, sent>>

ConnectionDestroyEnd(c) ==
  /\ Top(DestroyLoop(c)) /\ icn[c].cmds = <<>>
  /\ run' = Tail(run)
  /\ UNCHANGED <<icl, icn, grp, named, from, work, sent, history>>

\* main(): the clients are destroyed before the connections.
IpcStop ==
  /\ "IPC_STOP" \in IpcEnv /\ run = <<>>
  /\ \E k \in IpcClients : icl[k].st = "open"
  /\ icl' = [k \in IpcClients |-> [icl[k] EXCEPT !.st = "gone"]]
  /\ icn' = [c \in IpcConns |-> [icn[c] EXCEPT !.st = "gone"]]
  /\ run' = SetToSeq({DestroyLoop(c) : c \in Open})
  /\ from' = [c \in IpcConns |-> <<>>]
  /\ work' = [c \in IpcConns |-> {}]
  /\ UNCHANGED <<grp, named, sent, history>>

-----------------------------------------------------------------------------
(* Clients and the processes they send commands to.                        *)

ClientSend(k, target) ==
  /\ icl[k].st = "open" /\ ~icl[k].eof /\ sent < MaxCmds
  /\ icl' = [icl EXCEPT ![k].buf = Append(@, target)]
  /\ sent' = sent + 1
  /\ UNCHANGED <<icn, grp, named, run, from, work, history>>

ClientClose(k) ==
  /\ k \in Leaving /\ icl[k].st = "open" /\ ~icl[k].eof
  /\ icl' = [icl EXCEPT ![k].eof = TRUE]
  /\ UNCHANGED <<icn, grp, named, run, from, work, sent, history>>

WorkerAnswer(c, cmd, ok) ==
  /\ cmd \in work[c] /\ icn[c].st = "open"
  /\ work' = [work EXCEPT ![c] = @ \ {cmd}]
  /\ from' = [from EXCEPT ![c] = Append(@, [tag |-> cmd.tag, ok |-> ok])]
  /\ said' = said \cup {<<c, cmd.client, cmd.n, ok>>}
  /\ UNCHANGED <<icl, icn, grp, named, run, sent, addressed, wrong, freed>>

Loops ==
  \/ \E k \in IpcClients : ClientLine(k) \/ ClientInputEnd(k)
  \/ \E c \in IpcConns : ipc_connection_cmd_free(c) \/ ConnectionDestroyEnd(c)

SomeAnswer(c) == \E cmd \in work[c], ok \in BOOLEAN : WorkerAnswer(c, cmd, ok)

IpcNext ==
  \/ Loops \/ IpcStop
  \/ \E c \in IpcConns : \/ Handshake(c) \/ ipc_connection_input_line(c) \/ SomeAnswer(c)
                         \/ ipc_connection_create(c) \/ ipc_connection_destroy(c)
  \/ \E k \in IpcClients : \/ ClientInput(k) \/ ClientClose(k)
                           \/ \E t \in Targets : ClientSend(k, t)

IpcSpec == IpcInit /\ [][IpcNext]_ipcVars

\* The event loop reads what came, and a process answers what it was sent.
IpcFairness ==
  /\ WF_ipcVars(Loops)
  /\ \A c \in IpcConns : /\ WF_ipcVars(Handshake(c) \/ ipc_connection_input_line(c))
                        /\ WF_ipcVars(SomeAnswer(c))
IpcFairSpec == IpcSpec /\ IpcFairness

-----------------------------------------------------------------------------
(* Properties.                                                             *)

\* A client is told "+" only when every process the command was sent to has
\* answered that command with "+", and "-" only when one has not or has
\* disconnected, even if answers come in another order than the commands went.
IpcAnswerTrue == ~wrong

\* While the process runs, a command that waits for an answer belongs to a
\* client that is connected and waits for it, and a group command has one
\* reference for each of its connections: no callback can come twice or to a
\* client that is freed.  (When the process is stopped, the clients are freed
\* first and the callbacks come to freed memory.)
IpcOwners ==
  LET Mine(k) == UNION {{c} \X {i \in 1..Len(icn[c].cmds) : icn[c].cmds[i].client = k} :
                          c \in IpcConns}
  IN  run = <<>> /\ ~freed =>
        \A k \in IpcClients :
          /\ icl[k].st = "gone" => Mine(k) = {}
          /\ icl[k].wait <=> Mine(k) # {}
          /\ grp[k].ref > 0 => grp[k].ref = Cardinality(Mine(k))
          /\ grp[k].ref = 0 => Cardinality(Mine(k)) <= 1

\* A client whose command waits for answers gets one, if the processes answer
\* or disconnect, or the ipc process is stopped.
IpcAnswered ==
  \A k \in IpcClients : icl[k].wait ~> (~icl[k].wait \/ icl[k].st = "gone")
=============================================================================
