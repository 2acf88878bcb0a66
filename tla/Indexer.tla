------------------------------ MODULE Indexer -------------------------------
(***************************************************************************)
(* The indexer process: clients ask it to index or optimize mailboxes, it  *)
(* queues the requests and hands them to indexer-worker processes, one     *)
(* worker per user at a time (indexer.c, indexer-queue.c, indexer-client.c,*)
(* worker-pool.c, worker-connection.c).                                    *)
(*                                                                         *)
(* Progress lines below 100% and max_recent_msgs are left out: they change *)
(* nothing but what is printed or sent on.                                 *)
(***************************************************************************)
EXTENDS Integers, Sequences, FiniteSets, SequencesExt

CONSTANTS
  IxUsers,
  Keys,          \* mailboxes: pairs of a user and a name
  IxClients,
  ConnIds,       \* memory for worker connections
  ProcessLimit,  \* process_limit of indexer-worker, from its handshake
  IxEnv,         \* the events the environment may cause
  Slots,         \* names for requests whose answer is awaited
  MaxAsks        \* bound on requests

\* WORKER_DIE: a worker exits or sends garbage.  CONNFAIL: connecting to
\* indexer-worker fails, CONNFAIL_BUSY: only while another worker is at work.
\* CLIENT_GONE: a client disconnects.  IX_STOP: the process is stopped.
IxEvents == {"WORKER_DIE", "CONNFAIL", "CONNFAIL_BUSY", "CLIENT_GONE", "IX_STOP"}

ASSUME IxAssumption ==
  /\ \A k \in Keys : k[1] \in IxUsers
  /\ ProcessLimit \in Nat \ {0} /\ MaxAsks \in Nat /\ IxEnv \subseteq IxEvents
  /\ IsFiniteSet(Slots) /\ IsFiniteSet(ConnIds) /\ Cardinality(ConnIds) > ProcessLimit

VARIABLES
  ixreq,         \* queue->requests: username and mailbox to request
  ixqueue,       \* queue->head .. queue->tail
  ixconn,        \* struct worker_connection
  busy, idle,    \* the pool's lists; the first of idle is used next
  pool_count,    \* pool->connection_count
  to_send_more,  \* whether the timeout is armed
  ixpc,          \* where the event loop is
  ixclient,      \* struct indexer_client: refcount, destroyed
  asks,          \* number of requests so far
  asked,         \* struct indexer_client_request, and what was asked for
  served,        \* history: requests a later pass was started for
  lied,          \* history: 100% was sent for a request that was not served
  ixfault        \* history: the assertion that failed, if one did

ixVars == <<ixreq, ixqueue, ixconn, busy, idle, pool_count, to_send_more, ixpc,
            ixclient, asks, asked, served, lied, ixfault>>
poolVars == <<ixconn, busy, idle, pool_count>>
queueVars == <<ixreq, ixqueue, asked, served, lied>>

-----------------------------------------------------------------------------
(* Data.                                                                   *)

NoUser == "none"
Ops == {"append", "prepend", "optimize"}
RequestRec == [st : {"none", "queued", "working"}, index : BOOLEAN,
               optimize : BOOLEAN, reindex : BOOLEAN, contexts : Seq(Slots),
               working_context_idx : Nat]
NoRequest == [st |-> "none", index |-> FALSE, optimize |-> FALSE,
              reindex |-> FALSE, contexts |-> <<>>, working_context_idx |-> 0]
\* hs: process_limit was received; q: request_queue
ConnRec == [fd : BOOLEAN, hs : BOOLEAN, user : IxUsers \cup {NoUser}, q : Seq(Keys)]
NoConn == [fd |-> FALSE, hs |-> FALSE, user |-> NoUser, q |-> <<>>]
AskRec == [client : IxClients, op : Ops]
NoAsk == [client |-> "none", op |-> "none"]
Pending == {i \in Slots : asked[i] # NoAsk}
ClientRec == [ref : Nat, destroyed : BOOLEAN]

Idle == [at |-> "idle"]
Sending == [at |-> "send"]        \* in queue_try_send_more()
Down == [at |-> "down"]
Cancelling(c) == [at |-> "cancel", conn |-> c]  \* in worker_connection_disconnect()

-----------------------------------------------------------------------------
(* The queue.                                                              *)

\* indexer_queue_append_request() and the flag its callers set.  A request that
\* is being worked on is done again afterwards.
Requested(r, op, ctxs) ==
  [r EXCEPT !.st = IF @ = "none" THEN "queued" ELSE @,
            !.contexts = @ \o ctxs,
            !.reindex = @ \/ r.st = "working",
            !.index = @ \/ op # "optimize",
            !.optimize = @ \/ op = "optimize"]

\* Mutant: a request that moves to the front also stays where it was.
QueuedTwice(k, op) ==
  CASE ixreq[k].st = "working" -> ixqueue
    [] ixreq[k].st = "queued" /\ op # "prepend" -> ixqueue
    [] ixreq[k].st # "working" /\ op = "prepend" -> <<k>> \o ixqueue
    [] OTHER -> Append(ixqueue, k)
QueuedAt(k, op) ==
  CASE ixreq[k].st = "working" -> ixqueue
    [] ixreq[k].st = "queued" /\ op # "prepend" -> ixqueue
    [] ixreq[k].st # "working" /\ op = "prepend" -> <<k>> \o RemoveFirst(ixqueue, k)
    [] OTHER -> Append(ixqueue, k)

\* Mutant: everyone who asked is told, also who asked during the pass.
StatusAll(r) == Range(r.contexts)

\* indexer_queue_request_status_int(): who is told about the running pass.
StatusContexts(r) == Range(SubSeq(r.contexts, 1, r.working_context_idx))

\* Mutant: the requests that came during the pass are dropped.
FinishedNoReindex(r) == NoRequest

\* indexer_queue_request_finish(): what is left of the request.  Both reindex
\* flags are cleared before reindex_head is looked at, so the request goes to
\* the end of the queue; working_context_idx stays as it is.
Finished(r) ==
  IF r.reindex
  THEN [r EXCEPT !.st = "queued", !.reindex = FALSE,
                 !.contexts = SubSeq(@, r.working_context_idx + 1, Len(@))]
  ELSE NoRequest

indexer_queue_request_finish(k, status) ==
  /\ asked' = [i \in Slots |-> IF i \in StatusContexts(ixreq[k]) THEN NoAsk ELSE asked[i]]
  /\ served' = served \ StatusContexts(ixreq[k])
  /\ lied' = (lied \/ (status = "ok" /\ ~(StatusContexts(ixreq[k]) \subseteq served)))
  /\ ixreq' = [ixreq EXCEPT ![k] = Finished(@)]
  /\ ixqueue' = IF Finished(ixreq[k]).st = "queued" THEN Append(ixqueue, k) ELSE ixqueue
  /\ ixclient' = [c \in IxClients |-> [ixclient[c] EXCEPT !.ref =
       @ - Cardinality({i \in StatusContexts(ixreq[k]) : asked[i].client = c})]]

-----------------------------------------------------------------------------
(* The pool of workers.                                                    *)

\* worker_pool_find_username_connection()
UserConns(u) == {c \in busy : ixconn[c].user = u}

\* worker_pool_get_connection() first drops dead connections at the front.
DropDead(s) ==
  LET live == {i \in 1..Len(s) : ixconn[s[i]].fd}
  IN  IF live = {} THEN <<>> ELSE SubSeq(s, Min(live), Len(s))

worker_pool_find_max_connections ==
  IF busy = {} THEN 1
  ELSE IF \E c \in busy : ixconn[c].hs THEN ProcessLimit ELSE 0

Freed(cs) == [c \in ConnIds |-> IF c \in cs THEN NoConn ELSE ixconn[c]]

\* worker_connection_request() asserts that the connection is there and is
\* this user's.
SendAsserts(cn, k) ==
  CASE ~cn.fd -> "not connected"
    [] cn.fd /\ cn.user \notin {NoUser, k[1]} -> "other user"
    [] OTHER -> ixfault

\* worker_send_request() of the first request over the connection c.
worker_send_request(c, conns) ==
  LET k == Head(ixqueue)
  IN  /\ ixqueue' = Tail(ixqueue)
      /\ ixreq' = [ixreq EXCEPT ![k] =
           [ixreq[k] EXCEPT !.st = "working", !.working_context_idx = Len(ixreq[k].contexts)]]
      /\ ixconn' = [conns EXCEPT ![c] = [conns[c] EXCEPT !.user = k[1], !.q = Append(@, k)]]
      /\ served' = served \cup {i \in Range(ixreq[k].contexts) :
                      IF asked[i].op = "optimize" THEN ixreq[k].optimize ELSE ixreq[k].index}
      /\ ixfault' = SendAsserts(conns[c], k)

-----------------------------------------------------------------------------
(* queue_try_send_more(), one iteration of its loop per step.              *)

SendEmpty ==
  /\ ixpc = Sending /\ ixqueue = <<>>
  /\ ixpc' = Idle
  /\ UNCHANGED <<queueVars, poolVars, to_send_more, ixclient, asks, ixfault>>

\* A worker that is busy with the user gets this request too.
SendSameUser ==
  /\ ixpc = Sending /\ ixqueue # <<>>
  /\ \E c \in UserConns(Head(ixqueue)[1]) : worker_send_request(c, ixconn)
  /\ UNCHANGED <<busy, idle, pool_count, to_send_more, ixpc, ixclient, asks, asked, lied>>

\* Mutant: the user of the request is not looked for among the busy workers.
NeedConnAlways == ixpc = Sending /\ ixqueue # <<>>
NeedConn == ixpc = Sending /\ ixqueue # <<>> /\ UserConns(Head(ixqueue)[1]) = {}

SendIdle ==
  /\ NeedConn
  /\ LET s == DropDead(idle)
     IN  /\ s # <<>>
         /\ idle' = Tail(s)
         /\ busy' = busy \cup {Head(s)}
         /\ pool_count' = pool_count - (Len(idle) - Len(s))
         /\ worker_send_request(Head(s), Freed(Range(idle) \ Range(s)))
  /\ UNCHANGED <<to_send_more, ixpc, ixclient, asks, asked, lied>>

SendNew ==
  /\ NeedConn /\ DropDead(idle) = <<>>
  /\ pool_count - Len(idle) < worker_pool_find_max_connections
  /\ LET c == CHOOSE x \in ConnIds : x \notin busy
     IN  /\ busy' = busy \cup {c}
         /\ worker_send_request(c, [Freed(Range(idle)) EXCEPT ![c] = [NoConn EXCEPT !.fd = TRUE]])
  /\ idle' = <<>>
  /\ pool_count' = pool_count - Len(idle) + 1
  /\ UNCHANGED <<to_send_more, ixpc, ixclient, asks, asked, lied>>

\* The limit is reached, no worker has sent its handshake, or connecting fails.
SendBlocked ==
  /\ NeedConn /\ DropDead(idle) = <<>>
  /\ \/ pool_count - Len(idle) >= worker_pool_find_max_connections
     \/ "CONNFAIL" \in IxEnv
     \/ "CONNFAIL_BUSY" \in IxEnv /\ busy # {}
  /\ idle' = <<>> /\ pool_count' = pool_count - Len(idle)
  /\ ixconn' = Freed(Range(idle))
  /\ ixpc' = Idle
  /\ UNCHANGED <<queueVars, busy, to_send_more, ixclient, asks, ixfault>>

-----------------------------------------------------------------------------
(* Events.                                                                 *)

NextSlot == CHOOSE i \in Slots : i \notin Pending

\* APPEND, PREPEND or OPTIMIZE; with tag 0 the client wants no answer.
indexer_client_request(c, k, op, tagged) ==
  /\ ixpc = Idle /\ ~ixclient[c].destroyed
  /\ asks < MaxAsks /\ asks' = asks + 1
  /\ tagged => Pending # Slots
  /\ asked' = IF tagged THEN [asked EXCEPT ![NextSlot] = [client |-> c, op |-> op]] ELSE asked
  /\ ixclient' = [ixclient EXCEPT ![c].ref = IF tagged THEN @ + 1 ELSE @]
  /\ ixqueue' = QueuedAt(k, op)
  /\ ixreq' = [ixreq EXCEPT ![k] =
       Requested(@, op, IF tagged THEN <<NextSlot>> ELSE <<>>)]
  /\ ixpc' = Sending /\ to_send_more' = FALSE
  /\ UNCHANGED <<poolVars, served, lied, ixfault>>

indexer_client_destroy(c) ==
  /\ "CLIENT_GONE" \in IxEnv /\ ixpc = Idle /\ ~ixclient[c].destroyed
  /\ ixclient' = [ixclient EXCEPT ![c] = [ref |-> @.ref - 1, destroyed |-> TRUE]]
  /\ UNCHANGED <<queueVars, poolVars, to_send_more, ixpc, asks, ixfault>>

SendMoreTimeout ==
  /\ ixpc = Idle /\ to_send_more
  /\ ixpc' = Sending /\ to_send_more' = FALSE
  /\ UNCHANGED <<queueVars, poolVars, ixclient, asks, ixfault>>

WorkerHandshake(c) ==
  /\ ixpc = Idle /\ ixconn[c].fd /\ ~ixconn[c].hs
  /\ ixconn' = [ixconn EXCEPT ![c].hs = TRUE]
  /\ UNCHANGED <<queueVars, busy, idle, pool_count, to_send_more, ixpc, ixclient,
                 asks, ixfault>>

\* 100 or -1 for the first request of the connection: worker_connection_input_line()
\* and worker_status_callback().  The last one releases the connection; idle ones
\* that are too old are closed then (old).
WorkerLine(c, status, old) ==
  /\ ixpc = Idle /\ c \in busy /\ ixconn[c].hs /\ ixconn[c].q # <<>>
  /\ indexer_queue_request_finish(Head(ixconn[c].q), status)
  /\ LET q == Tail(ixconn[c].q)
         last == q = <<>>
         dead == IF last /\ old THEN Range(idle) ELSE {}
     IN  /\ ixconn' = [Freed(dead) EXCEPT ![c] =
                         [ixconn[c] EXCEPT !.q = q, !.user = IF last THEN NoUser ELSE @]]
         /\ busy' = IF last THEN busy \ {c} ELSE busy
         /\ idle' = IF ~last THEN idle ELSE IF old THEN <<c>> ELSE <<c>> \o idle
         /\ pool_count' = pool_count - Cardinality(dead)
  /\ to_send_more' = TRUE
  /\ UNCHANGED <<ixpc, asks, ixfault>>

WorkerGone(c) ==
  /\ "WORKER_DIE" \in IxEnv /\ ixpc = Idle /\ ixconn[c].fd
  /\ ixconn' = [ixconn EXCEPT ![c].fd = FALSE]
  /\ ixpc' = IF ixconn[c].q # <<>> THEN Cancelling(c) ELSE Idle
  /\ UNCHANGED <<queueVars, busy, idle, pool_count, to_send_more, ixclient, asks,
                 ixfault>>

\* Mutant: more is sent at once, from within the disconnect.
CancelAndSend ==
  /\ ixpc.at = "cancel"
  /\ LET c == ixpc.conn
         q == Tail(ixconn[c].q)
     IN  /\ indexer_queue_request_finish(Head(ixconn[c].q), "fail")
         /\ ixconn' = IF q = <<>> THEN Freed({c})
                      ELSE [ixconn EXCEPT ![c].q = q]
         /\ busy' = IF q = <<>> THEN busy \ {c} ELSE busy
         /\ pool_count' = IF q = <<>> THEN pool_count - 1 ELSE pool_count
         /\ ixpc' = Sending
  /\ UNCHANGED <<idle, to_send_more, asks, ixfault>>

\* One iteration of the loop in worker_connection_disconnect().  After the last
\* the connection is released, which frees it.
CancelNext ==
  /\ ixpc.at = "cancel"
  /\ LET c == ixpc.conn
         q == Tail(ixconn[c].q)
     IN  /\ indexer_queue_request_finish(Head(ixconn[c].q), "fail")
         /\ ixconn' = IF q = <<>> THEN Freed({c})
                      ELSE [ixconn EXCEPT ![c].q = q]
         /\ busy' = IF q = <<>> THEN busy \ {c} ELSE busy
         /\ pool_count' = IF q = <<>> THEN pool_count - 1 ELSE pool_count
         /\ ixpc' = IF q = <<>> THEN Idle ELSE ixpc
  /\ to_send_more' = TRUE
  /\ UNCHANGED <<idle, asks, ixfault>>

\* main() after master_service_run(): the queued requests fail without a word to
\* who waits for their first pass; a request that waits for its second pass
\* still has the index of the first, which may be past its contexts.
IndexerStop ==
  /\ "IX_STOP" \in IxEnv /\ ixpc = Idle
  /\ ixpc' = Down
  /\ ixfault' = IF \E k \in Range(ixqueue) :
                     ixreq[k].working_context_idx > Len(ixreq[k].contexts)
                THEN "array_idx" ELSE ixfault
  /\ ixqueue' = <<>> /\ ixreq' = [k \in Keys |-> NoRequest]
  /\ ixconn' = [c \in ConnIds |-> NoConn]
  /\ busy' = {} /\ idle' = <<>> /\ pool_count' = 0
  /\ to_send_more' = FALSE
  /\ ixclient' = [c \in IxClients |-> [ref |-> 0, destroyed |-> TRUE]]
  /\ asked' = [i \in Slots |-> NoAsk] /\ served' = {}
  /\ UNCHANGED <<asks, lied>>

-----------------------------------------------------------------------------
IxInit ==
  /\ ixreq = [k \in Keys |-> NoRequest] /\ ixqueue = <<>>
  /\ ixconn = [c \in ConnIds |-> NoConn]
  /\ busy = {} /\ idle = <<>> /\ pool_count = 0
  /\ to_send_more = FALSE /\ ixpc = Idle
  /\ ixclient = [c \in IxClients |-> [ref |-> 1, destroyed |-> FALSE]]
  /\ asks = 0 /\ asked = [i \in Slots |-> NoAsk] /\ served = {} /\ lied = FALSE
  /\ ixfault = "none"

IxLoop == SendEmpty \/ SendSameUser \/ SendIdle \/ SendNew \/ SendBlocked \/ CancelNext

WorkerAnswers(c) == \E status \in {"ok", "fail"}, old \in BOOLEAN : WorkerLine(c, status, old)

IxNext ==
  \/ IxLoop
  \/ SendMoreTimeout
  \/ \E c \in IxClients : \/ indexer_client_destroy(c)
                          \/ \E k \in Keys, op \in Ops, tagged \in BOOLEAN :
                               indexer_client_request(c, k, op, tagged)
  \/ \E c \in ConnIds : WorkerHandshake(c) \/ WorkerAnswers(c) \/ WorkerGone(c)
  \/ IndexerStop

IxSpec == IxInit /\ [][IxNext]_ixVars

\* The event loop goes on, and workers say hello and finish what they are given.
IxFairness ==
  /\ WF_ixVars(IxLoop)
  /\ WF_ixVars(SendMoreTimeout)
  /\ \A c \in ConnIds : WF_ixVars(WorkerHandshake(c) \/ WorkerAnswers(c))

IxFairSpec == IxSpec /\ IxFairness

-----------------------------------------------------------------------------
(* Properties.                                                             *)

\* The variables stay within their types; what is queued is a queued request,
\* once, and what a worker has is a request that is being worked on.
IxTypeOK ==
  /\ ixreq \in [Keys -> RequestRec]
  /\ Range(ixqueue) = {k \in Keys : ixreq[k].st = "queued"}
  /\ IsInjective(ixqueue)
  /\ UNION {Range(ixconn[c].q) : c \in ConnIds} = {k \in Keys : ixreq[k].st = "working"}
  /\ ixconn \in [ConnIds -> ConnRec]
  /\ busy \subseteq ConnIds /\ Range(idle) \subseteq ConnIds \ busy
  /\ ixclient \in [IxClients -> ClientRec]
  /\ asked \in [Slots -> AskRec \cup {NoAsk}] /\ served \subseteq Pending

\* A client is told 100% only after a pass that began after its request and did
\* what it asked for, and a client's memory stays while answers for it are due,
\* through passes that are repeated, fail or lose their worker.
IxAnswerTrue ==
  /\ ~lied
  /\ ixpc # Down => \A c \in IxClients :
       ixclient[c].ref = (IF ixclient[c].destroyed THEN 0 ELSE 1)
         + Cardinality({i \in Pending : asked[i].client = c})

\* Two workers never index mailboxes of one user at the same time, and the
\* count of connections, which limits new ones, is right.
OneWorkerPerUser ==
  /\ \A c, d \in busy : ixconn[c].user = ixconn[d].user => c = d
  /\ \A c \in busy : ixconn[c].q # <<>> /\ \A k \in Range(ixconn[c].q) : k[1] = ixconn[c].user
  /\ pool_count = Cardinality(busy) + Len(idle)

\* Requests go only to connections that are there and are the user's: the
\* assertions of worker_connection_request() hold.
IxAsserts == ixfault \in {"none", "array_idx"}

\* Who asks for an answer gets one (or the process is stopped): nothing stays
\* in the queue while no worker and no timeout would take it from there.
IxAnswered == \A i \in Slots : (i \in Pending) ~> (i \notin Pending)

=============================================================================
