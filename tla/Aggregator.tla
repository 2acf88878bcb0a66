----------------------------- MODULE Aggregator -----------------------------
(***************************************************************************)
(* How a change of a mailbox becomes known to the replicator: the          *)
(* replication plugin in the mail processes, the FIFO and the socket of    *)
(* the aggregator, the aggregator's notify connections and its one         *)
(* connection to the replicator (replication-plugin.c, notify-connection.c *)
(* and replicator-connection.c of the aggregator).                         *)
(*                                                                         *)
(* A mail process serves one user and is named by it.  Changes are         *)
(* numbered; a line carries (as history) the number of the last change     *)
(* it was written for.  The replicator is what Replicator promises its     *)
(* notify clients: it reads lines, answers sync requests in any order, and *)
(* dies with its connection.                                               *)
(***************************************************************************)
EXTENDS Integers, Sequences, FiniteSets, SequencesExt

CONSTANTS
  Users,
  SyncUsers,   \* the users with replication_sync_timeout set
  AggEnv,         \* the events the environment may cause
  FifoMax,     \* lines that fit into the FIFO
  WireMax,     \* lines that fit into the socket buffer to the replicator
  Block,       \* lines that fit into IO_BLOCK_SIZE
  QueueMax,    \* lines that fit into REPLICATOR_MEMBUF_MAX_SIZE
  IdMod,       \* 2^32: request_id_counter is an unsigned int
  MaxChanges,  \* bound on the changes
  Backlog      \* lines queued at the start, from a time without a replicator

\* REPL_DIE: the replicator stops.  MASTER: Dovecot is stopped, the FIFO with
\* it.  CONNFAIL: the notify socket refuses a connection.  DEINIT: a user
\* logs out.
AggEvents == {"REPL_DIE", "MASTER", "CONNFAIL", "DEINIT"}

ASSUME AggAssumption ==
  /\ SyncUsers \subseteq Users
  /\ AggEnv \subseteq AggEvents
  /\ FifoMax \in Nat /\ WireMax \in Nat \ {0} /\ Block \in Nat /\ QueueMax \in Nat
  /\ IdMod \in Nat \ {0, 1} /\ MaxChanges \in Nat
  /\ Backlog \in 0..QueueMax /\ Backlog < IdMod

NONE == 0
LOW == 1
HIGH == 2
SYNC == 3
Queues == LOW..SYNC

VARIABLES
  n,       \* history: the number of the user's last change
  plugin,  \* struct replication_user, and the process's fifo_fd, fifo_failed
  waiting, \* the user's process waits for the answer to a sync request
  fifo,    \* lines in replication-notify-fifo
  sock,    \* connections to the notify socket, one per sync request
  rc,      \* struct replicator_connection, its output stream and socket
  repl,    \* whether the replicator runs
  rsyncs,  \* sync requests that the replicator has read and not answered
  master,  \* whether Dovecot runs
  told,    \* history: the users whose last change the replicator knows of
  lost,    \* history: the users the line for whose last change was dropped
  good,    \* history: awaited sync requests that the replicator answered "+"
  panic    \* history: an assertion of the aggregator failed

aggVars == <<n, plugin, waiting, fifo, sock, rc, repl, rsyncs, master, told,
             lost, good, panic>>

-----------------------------------------------------------------------------
(* Data.                                                                   *)

\* A sync connection is named by the change it was opened for.
ConnIds == SyncUsers \X (1..MaxChanges)
Lines == [u : Users, p : Queues, id : 0..(IdMod - 1), n : 0..MaxChanges]
PluginRec == [prio : NONE..HIGH, to : BOOLEAN,
              fd : {"closed", "open", "stale"}, failed : BOOLEAN]
\* cl: the client has the connection open; line: its request is unread;
\* srv: the aggregator's end; ref: refcount, 0 when it is freed.
SockRec == [cl : BOOLEAN, line : BOOLEAN, srv : {"none", "backlog", "open", "closed"},
            ref : Nat, reply : Seq({"+", "-"})]
\* Nothing is left of a connection that both ends have closed.
NoSock == [cl |-> FALSE, line |-> FALSE, srv |-> "none", ref |-> 0, reply |-> <<>>]
Swept(s) == IF ~s.cl /\ s.srv = "closed" /\ s.ref = 0 THEN NoSock ELSE s
\* peer: the replicator's end of the connection; out: the output stream's
\* buffer; wire: the socket buffer; looping: inside the loop of
\* replicator_output().
NewConn == [fd |-> FALSE, to |-> FALSE, peer |-> FALSE,
            queue |-> [p \in Queues |-> <<>>], out |-> <<>>, wire |-> <<>>,
            pending |-> FALSE, looping |-> FALSE,
            requests |-> {}, counter |-> 0, replies |-> <<>>]

-----------------------------------------------------------------------------
(* The connection to the replicator.                                       *)

\* The output stream hands to the socket what fits.
Fit(r) ==
  LET k == IF Len(r.out) < WireMax - Len(r.wire) THEN Len(r.out) ELSE WireMax - Len(r.wire)
  IN  [r EXCEPT !.out = SubSeq(@, k + 1, Len(@)), !.wire = @ \o SubSeq(r.out, 1, k)]

\* replicator_connection_connect(): a failure arms the repeating timer.
replicator_connection_connect(r) ==
  CASE r.fd -> r
    [] ~r.fd /\ ~repl -> [r EXCEPT !.to = TRUE]
    [] OTHER -> [r EXCEPT !.to = FALSE, !.fd = TRUE, !.peer = TRUE, !.wire = <<>>,
                          !.out = <<>>, !.replies = <<>>, !.pending = FALSE]

Immediate(r) == r.fd /\ r.out = <<>>
\* Mutant: one line too many.
QueueFullLate(r, l) == Len(r.queue[l.p]) > QueueMax
QueueFull(r, l) == Len(r.queue[l.p]) >= QueueMax

\* replicator_send(): at once past the queues, or queued, or dropped.
replicator_send(r, l) ==
  CASE Immediate(r) -> IF r.peer THEN Fit([r EXCEPT !.out = <<l>>]) ELSE r
    [] ~Immediate(r) /\ QueueFull(r, l) -> r
    [] OTHER -> [r EXCEPT !.queue[l.p] = Append(@, l),
                          !.pending = r.fd]

\* What replicator_send() drops: the peer is gone, or the queue is full.
SendDrops(r, l) == IF Immediate(r) THEN ~r.peer ELSE QueueFull(r, l)

\* The id of a request: the counter wraps and 0 is skipped, though not in the
\* counter.
NextCounter(r) == (r.counter + 1) % IdMod
NextId(r) == IF NextCounter(r) = 0 THEN 1 ELSE NextCounter(r)
IdTaken(r) == \E q \in r.requests : q.id = NextId(r)

NewRequest(r, k) ==
  [r EXCEPT !.counter = NextCounter(r),
            !.requests = @ \cup {[id |-> NextId(r), conn |-> k]}]

\* Lines that are gone when their buffers are.  (The process that sent a sync
\* line waits for its answer and tells the change again if there is none.)
LinesOf(seqs) == UNION {Range(s) : s \in seqs}
OutLines(r) == LinesOf({r.out, r.wire})
QueueLines(r) == LinesOf({r.queue[p] : p \in Queues})
Lose(ls) == lost \cup {l.u : l \in {m \in ls : m.p # SYNC /\ m.n = n[m.u]}}

-----------------------------------------------------------------------------
(* The notify connections.                                                 *)

\* notify_connection_sync_callback() for the requests of the set ks: what is
\* written to a connection that was closed goes nowhere; notify_connection_unref().
sync_callback(ks, answer) ==
  [k \in ConnIds |->
     IF k \in ks
     THEN Swept([sock[k] EXCEPT !.reply = IF sock[k].srv = "open" /\ sock[k].cl
                                          THEN Append(@, answer) ELSE @,
                                !.ref = @ - 1])
     ELSE sock[k]]

\* The end of the process: every connection closes, the clients get EOF.
AllClosed == [k \in ConnIds |->
  IF sock[k].srv = "open" \/ sock[k].ref > 0
  THEN Swept([sock[k] EXCEPT !.srv = "closed", !.ref = 0, !.line = FALSE]) ELSE sock[k]]

\* Mutant: every connection counts its requests from 1.
DisconnectResetsIds(r) ==
  [r EXCEPT !.requests = {}, !.fd = FALSE, !.peer = FALSE, !.out = <<>>, !.counter = 0,
            !.wire = <<>>, !.pending = FALSE, !.looping = FALSE, !.replies = <<>>]

\* replicator_connection_disconnect(): all requests fail, also the ones whose
\* line is still queued and stays there.
replicator_connection_disconnect(r) ==
  [r EXCEPT !.requests = {}, !.fd = FALSE, !.peer = FALSE, !.out = <<>>,
            !.wire = <<>>, !.pending = FALSE, !.looping = FALSE, !.replies = <<>>]

Disconnect ==
  /\ sock' = sync_callback({q.conn : q \in rc.requests}, "-")
  /\ lost' = Lose(OutLines(rc))
  /\ rc' = replicator_connection_disconnect(rc)

\* The process ends with all its memory; master starts another one on demand.
Exit ==
  /\ sock' = AllClosed
  /\ lost' = Lose(OutLines(rc) \cup QueueLines(rc))
  /\ rc' = NewConn
  /\ rsyncs' = {}

Panic == Exit /\ panic' = TRUE

AggIdle == master /\ ~rc.looping

client_connected(k) ==
  /\ AggIdle /\ sock[k].srv = "backlog"
  /\ sock' = [sock EXCEPT ![k] = [sock[k] EXCEPT !.srv = "open", !.ref = 1]]
  /\ UNCHANGED <<n, plugin, waiting, fifo, rc, repl, rsyncs, master, told,
                 lost, good, panic>>

\* A low or high priority line from the FIFO.
notify_input_fifo ==
  /\ AggIdle /\ fifo # <<>>
  /\ fifo' = Tail(fifo)
  /\ LET r == replicator_connection_connect(rc)
         l == Head(fifo)
     IN  /\ rc' = replicator_send(r, l)
         /\ lost' = Lose(IF SendDrops(r, l) THEN {l} ELSE {})
  /\ UNCHANGED <<n, plugin, waiting, sock, repl, rsyncs, master, told, good,
                 panic>>

\* A sync line from a client: the request holds a reference.
notify_input_sync(k) ==
  /\ AggIdle /\ sock[k].srv = "open" /\ sock[k].line
  /\ LET r == replicator_connection_connect(rc)
         l == [u |-> k[1], p |-> SYNC, id |-> NextId(r), n |-> k[2]]
     IN  \/ /\ ~IdTaken(r)
            /\ sock' = [sock EXCEPT ![k] = [sock[k] EXCEPT !.line = FALSE, !.ref = @ + 1]]
            /\ rc' = replicator_send(NewRequest(r, k), l)
            /\ UNCHANGED <<rsyncs, lost, panic>>
         \/ /\ IdTaken(r)       \* hash_table_insert() asserts that the key is new
            /\ Panic
  /\ UNCHANGED <<n, plugin, waiting, fifo, repl, master, told, good>>

\* Mutant: a client that goes away takes the connection with it.
DestroyFrees(k) ==
  /\ AggIdle /\ sock[k].srv = "open" /\ ~sock[k].cl /\ ~sock[k].line
  /\ sock' = [sock EXCEPT ![k] = NoSock]
  /\ UNCHANGED <<n, plugin, waiting, fifo, rc, repl, rsyncs, master, told,
                 lost, good, panic>>

\* The client closed its connection.
notify_connection_destroy(k) ==
  /\ AggIdle /\ sock[k].srv = "open" /\ ~sock[k].cl /\ ~sock[k].line
  /\ sock' = [sock EXCEPT ![k] = Swept([sock[k] EXCEPT !.srv = "closed", !.ref = @ - 1])]
  /\ UNCHANGED <<n, plugin, waiting, fifo, rc, repl, rsyncs, master, told,
                 lost, good, panic>>

\* An answer of the replicator; one with an unknown id is only logged.
replicator_input_line ==
  /\ AggIdle /\ rc.fd /\ rc.replies # <<>>
  /\ LET a == Head(rc.replies)
         qs == {q \in rc.requests : q.id = a.id}
     IN  /\ sock' = sync_callback({q.conn : q \in qs}, a.answer)
         /\ rc' = [rc EXCEPT !.replies = Tail(@), !.requests = @ \ qs]
  /\ UNCHANGED <<n, plugin, waiting, fifo, repl, rsyncs, master, told, lost,
                 good, panic>>

replicator_input_eof ==
  /\ AggIdle /\ rc.fd /\ rc.replies = <<>> /\ ~rc.peer
  /\ Disconnect
  /\ UNCHANGED <<n, plugin, waiting, fifo, repl, rsyncs, master, told, good,
                 panic>>

\* One iteration of the loop in replicator_output(): the highest queue that is
\* not empty loses the lines up to the first LF at or after IO_BLOCK_SIZE.
FullQueues(r) == {p \in Queues : r.queue[p] # <<>>}
TopQueue(r) == CHOOSE p \in FullQueues(r) : \A q \in FullQueues(r) : q <= p
replicator_send_buf(r) ==
  LET q == r.queue[TopQueue(r)]
  IN  Fit([r EXCEPT !.out = SubSeq(q, 1, Block + 1),
                    !.queue[TopQueue(r)] = SubSeq(q, Block + 2, Len(q))])
\* "there is always LF": the search starts at the end of a shorter queue.
SendBufAssert(r) == Len(r.queue[TopQueue(r)]) > Block

\* replicator_output(), called when the socket can be written to and the
\* stream has data or a flush was asked for: what is buffered goes first.
replicator_output ==
  /\ AggIdle /\ rc.fd
  /\ rc.pending \/ rc.out # <<>>
  /\ \/ /\ rc.peer /\ Len(rc.wire) < WireMax
        /\ rc' = [Fit(rc) EXCEPT !.pending = FALSE, !.looping = TRUE]
        /\ UNCHANGED <<sock, lost>>
     \/ ~rc.peer /\ Disconnect
  /\ UNCHANGED <<n, plugin, waiting, fifo, repl, rsyncs, master, told, good,
                 panic>>

\* Its loop, which the replicator may read or die in the middle of.
OutputLoop ==
  /\ master /\ rc.looping
  /\ \/ /\ rc.out # <<>>
        /\ rc' = [rc EXCEPT !.pending = TRUE, !.looping = FALSE]
        /\ UNCHANGED <<sock, rsyncs, lost, panic>>
     \/ /\ rc.out = <<>> /\ FullQueues(rc) = {}
        /\ rc' = [rc EXCEPT !.looping = FALSE]
        /\ UNCHANGED <<sock, rsyncs, lost, panic>>
     \/ /\ rc.out = <<>> /\ FullQueues(rc) # {} /\ SendBufAssert(rc) /\ ~rc.peer
        /\ Disconnect
        /\ UNCHANGED <<rsyncs, panic>>
     \/ /\ rc.out = <<>> /\ FullQueues(rc) # {} /\ SendBufAssert(rc) /\ rc.peer
        /\ rc' = replicator_send_buf(rc)
        /\ UNCHANGED <<sock, rsyncs, lost, panic>>
     \/ /\ rc.out = <<>> /\ FullQueues(rc) # {} /\ ~SendBufAssert(rc)
        /\ Panic
  /\ UNCHANGED <<n, plugin, waiting, fifo, repl, master, told, good>>

replicator_reconnect_timeout ==
  /\ AggIdle /\ rc.to
  /\ rc' = replicator_connection_connect(rc)
  /\ UNCHANGED <<n, plugin, waiting, fifo, sock, repl, rsyncs, master, told,
                 lost, good, panic>>

-----------------------------------------------------------------------------
(* The plugin.                                                             *)

\* replication_fifo_notify(): ret, and what becomes of fifo_fd, fifo_failed
\* and the FIFO.
replication_fifo_notify(pl, f, l) ==
  CASE pl.failed -> [ret |-> -1, pl |-> pl, fifo |-> f]
    [] ~pl.failed /\ pl.fd = "closed" /\ ~master ->
         [ret |-> -1, pl |-> [pl EXCEPT !.failed = TRUE], fifo |-> f]
    [] ~pl.failed /\ pl.fd = "stale" ->
         [ret |-> -1, pl |-> [pl EXCEPT !.fd = "closed"], fifo |-> f]
    [] OTHER -> IF Len(f) >= FifoMax
                THEN [ret |-> 0, pl |-> [pl EXCEPT !.fd = "open"], fifo |-> f]
                ELSE [ret |-> 1, pl |-> [pl EXCEPT !.fd = "open"], fifo |-> Append(f, l)]

Cleared(pl) == [pl EXCEPT !.to = FALSE, !.prio = NONE]

\* Mutant: a busy FIFO ends the notification too.
NotifyNowForgets(pl, l) ==
  LET t == replication_fifo_notify(pl, fifo, l)
  IN  [t EXCEPT !.pl = Cleared(t.pl)]

\* replication_notify_now(): a second try if the FIFO was another one; a
\* failure gives up, EAGAIN leaves timer and priority.
replication_notify_now(pl, l) ==
  LET first == replication_fifo_notify(pl, fifo, l)
      t == IF first.ret < 0 /\ ~first.pl.failed
           THEN replication_fifo_notify(first.pl, first.fifo, l) ELSE first
  IN  [t EXCEPT !.pl = IF t.ret # 0 THEN Cleared(t.pl) ELSE t.pl]

FifoLine(u) == [u |-> u, p |-> plugin[u].prio, id |-> 0, n |-> n[u]]

\* replication_notify() below SYNC
replication_notify(pl, prio) ==
  [pl EXCEPT !.prio = IF @ < prio THEN prio ELSE @, !.to = TRUE]

\* A transaction commit with (new) or without new mails, or a change of the
\* mailbox list; sync requests block the process.
LastChange == Max({n[u] : u \in Users})
Change(u, new) ==
  /\ ~waiting[u] /\ LastChange < MaxChanges
  /\ n' = [n EXCEPT ![u] = LastChange + 1]
  /\ LET prio == IF ~new THEN LOW ELSE IF u \in SyncUsers THEN SYNC ELSE HIGH
     IN  \/ /\ prio # SYNC
            /\ plugin' = [plugin EXCEPT ![u] = replication_notify(plugin[u], prio)]
            /\ UNCHANGED <<waiting, sock>>
         \/ /\ prio = SYNC /\ master
            /\ waiting' = [waiting EXCEPT ![u] = TRUE]
            /\ sock' = [sock EXCEPT ![<<u, LastChange + 1>>] =
                          [NoSock EXCEPT !.cl = TRUE, !.line = TRUE, !.srv = "backlog"]]
            /\ UNCHANGED plugin
         \/ /\ prio = SYNC /\ (~master \/ "CONNFAIL" \in AggEnv)
            /\ plugin' = [plugin EXCEPT ![u] = replication_notify(plugin[u], HIGH)]
            /\ UNCHANGED <<waiting, sock>>
  /\ told' = told \ {u} /\ lost' = lost \ {u}
  /\ UNCHANGED <<fifo, rc, repl, rsyncs, master, good, panic>>

\* The end of replication_notify_sync(), and the rest of replication_notify().
SyncEnd(u, success) ==
  /\ waiting' = [waiting EXCEPT ![u] = FALSE]
  /\ sock' = [sock EXCEPT ![<<u, n[u]>>] =
                Swept([sock[<<u, n[u]>>] EXCEPT !.cl = FALSE, !.reply = <<>>])]
  /\ good' = good \ {<<u, n[u]>>}
  /\ plugin' = [plugin EXCEPT ![u] = IF success THEN Cleared(plugin[u])
                                     ELSE replication_notify(plugin[u], HIGH)]
  /\ UNCHANGED <<n, fifo, rc, repl, rsyncs, master, told, lost, panic>>

SyncRead(u) ==
  /\ waiting[u] /\ sock[<<u, n[u]>>].reply # <<>>
  /\ SyncEnd(u, Head(sock[<<u, n[u]>>].reply) = "+")

\* EOF on the connection, or the alarm after sync_secs.
SyncEof(u) ==
  /\ waiting[u] /\ sock[<<u, n[u]>>].reply = <<>> /\ sock[<<u, n[u]>>].srv = "closed"
  /\ SyncEnd(u, FALSE)

SyncAlarm(u) ==
  /\ waiting[u]
  /\ SyncEnd(u, FALSE)

WriteFifo(u, t) ==
  /\ fifo' = t.fifo
  /\ lost' = Lose(IF t.ret < 0 THEN {FifoLine(u)} ELSE {})
  /\ UNCHANGED <<n, waiting, sock, rc, repl, rsyncs, master, told, good, panic>>

\* The timer of 500 ms.
NotifyTimeout(u) ==
  /\ ~waiting[u] /\ plugin[u].to
  /\ LET t == replication_notify_now(plugin[u], FifoLine(u))
     IN  /\ plugin' = [plugin EXCEPT ![u] = t.pl]
         /\ WriteFifo(u, t)

\* The end of the user's session: one more try, and the process goes on to
\* serve the user's next session.
replication_user_deinit(u) ==
  /\ "DEINIT" \in AggEnv /\ ~waiting[u] /\ plugin[u].to
  /\ LET t == replication_notify_now(plugin[u], FifoLine(u))
     IN  /\ plugin' = [plugin EXCEPT ![u] = Cleared(t.pl)]
         /\ WriteFifo(u, [t EXCEPT !.ret = IF @ = 0 THEN -1 ELSE @])

-----------------------------------------------------------------------------
(* The replicator and master.                                              *)

ReplRead ==
  /\ repl /\ rc.peer /\ rc.wire # <<>>
  /\ LET l == Head(rc.wire)
     IN  /\ told' = IF l.n = n[l.u] THEN told \cup {l.u} ELSE told
         /\ rsyncs' = IF l.p = SYNC THEN rsyncs \cup {l} ELSE rsyncs
  /\ rc' = [rc EXCEPT !.wire = Tail(@)]
  /\ UNCHANGED <<n, plugin, waiting, fifo, sock, repl, master, lost, good, panic>>

ReplAnswer(l, answer) ==
  /\ repl /\ rc.peer /\ l \in rsyncs
  /\ rsyncs' = rsyncs \ {l}
  /\ rc' = [rc EXCEPT !.replies = Append(@, [id |-> l.id, answer |-> answer])]
  /\ good' = IF answer = "+" /\ l.n > 0 /\ sock[<<l.u, l.n>>].cl
             THEN good \cup {<<l.u, l.n>>} ELSE good
  /\ UNCHANGED <<n, plugin, waiting, fifo, sock, repl, master, told, lost, panic>>

ReplDie ==
  /\ "REPL_DIE" \in AggEnv /\ repl
  /\ repl' = FALSE
  /\ rsyncs' = {}
  /\ rc' = [rc EXCEPT !.peer = FALSE, !.wire = <<>>]
  /\ lost' = Lose(Range(rc.wire))
  /\ UNCHANGED <<n, plugin, waiting, fifo, sock, master, told, good, panic>>

ReplStart ==
  /\ ~repl
  /\ repl' = TRUE
  /\ UNCHANGED <<n, plugin, waiting, fifo, sock, rc, rsyncs, master, told,
                 lost, good, panic>>

\* The aggregator stops with master, and the FIFO loses its last reader.
MasterStop ==
  /\ "MASTER" \in AggEnv /\ master /\ ~rc.looping
  /\ master' = FALSE
  /\ sock' = [k \in ConnIds |-> IF sock[k].srv = "backlog"
                                THEN Swept([sock[k] EXCEPT !.srv = "closed", !.line = FALSE])
                                ELSE AllClosed[k]]
  /\ rc' = NewConn
  /\ rsyncs' = {}
  /\ fifo' = <<>>
  /\ lost' = Lose(OutLines(rc) \cup QueueLines(rc) \cup Range(fifo))
  /\ plugin' = [u \in Users |-> [plugin[u] EXCEPT !.fd = IF @ = "open" THEN "stale" ELSE @]]
  /\ UNCHANGED <<n, waiting, repl, told, good, panic>>

MasterStart ==
  /\ ~master
  /\ master' = TRUE
  /\ UNCHANGED <<n, plugin, waiting, fifo, sock, rc, repl, rsyncs, told, lost,
                 good, panic>>

-----------------------------------------------------------------------------
\* Lines of a user may be queued from a time before change 1, and the timer
\* runs: notifications, or sync requests that a disconnect has already failed.
QueuedFor(u, p) == [NewConn EXCEPT
  !.to = TRUE,
  !.counter = IF p = SYNC THEN Backlog ELSE 0,
  !.queue[p] = [i \in 1..Backlog |->
                  [u |-> u, p |-> p, id |-> IF p = SYNC THEN i ELSE 0, n |-> 0]]]

AggInit ==
  /\ n = [u \in Users |-> 0]
  /\ plugin = [u \in Users |-> [prio |-> NONE, to |-> FALSE, fd |-> "closed",
                                failed |-> FALSE]]
  /\ waiting = [u \in Users |-> FALSE]
  /\ fifo = <<>>
  /\ sock = [k \in ConnIds |-> NoSock]
  /\ \/ rc = NewConn /\ told = Users
     \/ Backlog > 0 /\ \E u \in Users : rc = QueuedFor(u, HIGH) /\ told = Users \ {u}
     \/ \E u \in SyncUsers : rc = QueuedFor(u, SYNC) /\ told = Users
  /\ repl \in BOOLEAN
  /\ rsyncs = {} /\ master = TRUE
  /\ lost = {}
  /\ good = {} /\ panic = FALSE

\* The event loop of the aggregator.
AggStep ==
  \/ \E k \in ConnIds : \/ client_connected(k)
                        \/ notify_input_sync(k)
                        \/ notify_connection_destroy(k)
  \/ notify_input_fifo
  \/ replicator_input_line
  \/ replicator_input_eof
  \/ replicator_output
  \/ OutputLoop
  \/ replicator_reconnect_timeout

PluginStep(u) == SyncRead(u) \/ SyncEof(u) \/ SyncAlarm(u) \/ NotifyTimeout(u)

AggNext ==
  \/ AggStep
  \/ \E u \in Users :
       \/ PluginStep(u)
       \/ \E new \in BOOLEAN : Change(u, new)
       \/ replication_user_deinit(u)
  \/ ReplRead
  \/ \E l \in rsyncs, answer \in {"+", "-"} : ReplAnswer(l, answer)
  \/ ReplDie \/ ReplStart \/ MasterStop \/ MasterStart

AggSpec == AggInit /\ [][AggNext]_aggVars

-----------------------------------------------------------------------------
(* Properties.                                                             *)

\* The variables stay within their types and the buffers within their limits.
AggTypeOK ==
  /\ n \in [Users -> 0..MaxChanges]
  /\ plugin \in [Users -> PluginRec]
  /\ waiting \in [Users -> BOOLEAN]
  /\ Range(fifo) \subseteq Lines /\ Len(fifo) <= FifoMax
  /\ \A k \in ConnIds : sock[k] \in SockRec
  /\ \A p \in Queues : Len(rc.queue[p]) <= QueueMax /\ Range(rc.queue[p]) \subseteq Lines
  /\ OutLines(rc) \subseteq Lines /\ Len(rc.wire) <= WireMax
  /\ rc.requests \subseteq [id : 1..(IdMod - 1), conn : ConnIds]
  /\ rsyncs \subseteq Lines /\ good \subseteq ConnIds
  /\ told \cup lost \subseteq Users
  /\ rc.looping => rc.fd

\* A notify connection is freed when neither its socket nor a request needs
\* it: the count in it is right, through failed requests, clients that gave
\* up and answers that come late (notify_connection_unref()).
RefsMatch ==
  \A k \in ConnIds :
    sock[k].ref = (IF sock[k].srv = "open" THEN 1 ELSE 0)
                  + Cardinality({q \in rc.requests : q.conn = k})

\* A client that waits is answered once, and with "+" only if the replicator
\* said so of this very request: not for the line of an earlier connection
\* that was still queued, nor for another client's.
ReplyTrue ==
  \A k \in ConnIds :
    /\ Len(sock[k].reply) <= 1
    /\ sock[k].reply = <<"+">> => k \in good

Carries(ls, u) == \E l \in ls : l.u = u /\ l.p # SYNC /\ l.n = n[u]

\* A change that the replicator has not heard of is still on its way to it, or
\* was lost at one of the places where the code gives up: nothing else in the
\* chain (a successful sync, a higher priority, a second change while the first
\* waits for a full FIFO) makes it disappear.
ChangeAccounted ==
  \A u \in Users :
    u \notin told =>
      \/ waiting[u] \/ plugin[u].to
      \/ Carries(Range(fifo) \cup QueueLines(rc) \cup OutLines(rc), u)
      \/ u \in lost

\* "there is always LF" (replicator_send_buf())
AggNoPanic == ~panic

=============================================================================
