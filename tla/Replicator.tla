----------------------------- MODULE Replicator -----------------------------
(***************************************************************************)
(* The replicator process: the queue of users to replicate                 *)
(* (replicator-queue.c), the brain that hands them to dsync clients        *)
(* (replicator-brain.c, dsync-client.c), the notify and doveadm clients    *)
(* that change the queue, and the state file replicator.db (replicator.c). *)
(*                                                                         *)
(* The process is a single-threaded event loop: pc = "idle" is the loop    *)
(* waiting for an event.  Every event that changes the queue ends in       *)
(* replicator_brain_fill(), whose iterations are separate steps (pc =      *)
(* "fill"), after which the interrupted handler goes on (pc = "return",    *)
(* what is left of it in cont).                                            *)
(*                                                                         *)
(* Timestamps are kept as ages: the code only subtracts them from          *)
(* ioloop_time or compares them with each other.  An age saturates at      *)
(* MaxAge, from where on it is past both intervals.                        *)
(***************************************************************************)
EXTENDS Naturals, FiniteSets

CONSTANTS
  Users,                 \* usernames
  AuthUsers,             \* the users the userdb can list
  MaxConns,              \* replication_max_conns
  FullSyncInterval,      \* replication_full_sync_interval
  FailureResyncInterval, \* REPLICATOR_FAILURE_RESYNC_INTERVAL_SECS
  NoUsersSecs,           \* the 3600 of replicator_queue_pop()
  UpdatePriorities,      \* priorities notify clients and doveadm may give
  Requests,              \* sync requests, one per "U <user> sync <id>"
  Env,                   \* the events the environment may cause
  CrashBudget,           \* how often the process may die
  NULL, Freed            \* the null pointer, a pointer to freed memory

NONE == 0
LOW == 1
HIGH == 2
SYNC == 3

\* The _BUSY events are those at a bad moment: a user disappears or is removed
\* while a dsync or a sync request refers to it, the process is stopped while
\* a sync request waits.
Events == {"FAIL", "FORCE", "NOTIFY", "DUMP", "CRASH", "AUTH_FAIL",
           "NOUSER", "NOUSER_BUSY", "REMOVE", "REMOVE_BUSY",
           "STOP", "STOP_BUSY"}
MaxAge == IF FullSyncInterval > FailureResyncInterval
          THEN FullSyncInterval ELSE FailureResyncInterval

ASSUME ConstantsAssumption ==
  /\ AuthUsers \subseteq Users
  /\ MaxConns \in Nat \ {0}
  /\ FullSyncInterval \in Nat \ {0}
  /\ FailureResyncInterval \in Nat \ {0}
  /\ NoUsersSecs \in Nat \ {0}
  /\ UpdatePriorities \subseteq NONE..SYNC
  /\ Env \subseteq Events
  /\ CrashBudget \in Nat
  /\ NULL \notin Users /\ Freed \notin Users /\ NULL # Freed /\ NULL \notin Nat

Conns == 1..MaxConns

VARIABLES
  known,    \* the users in user_hash
  user,     \* struct replicator_user of every known user
  ordered,  \* no key changed under the heap since it was last trivial
  clients,  \* dsync_clients
  to,       \* seconds until brain->to fires, or NULL
  lookups,  \* sync_lookups
  db,       \* replicator.db
  pc,       \* where the process is
  cont,     \* what the handler that called the brain still has to do
  answer,   \* history: how each sync request was answered
  need,     \* history: what each user's replica lacks
  fault,    \* history: the assertion that failed, if one did
  crashes   \* history: number of crashes so far

vars == <<known, user, ordered, clients, to, lookups, db, pc, cont,
          answer, need, fault, crashes>>

UserRec == [priority : NONE..SYNC, popped : BOOLEAN,
            last_sync_failed : BOOLEAN, force_full_sync : BOOLEAN,
            fast : 0..MaxAge, full : 0..MaxAge]
\* what i_new() gives: both timestamps at the epoch
NewUser == [priority |-> NONE, popped |-> FALSE, last_sync_failed |-> FALSE,
            force_full_sync |-> FALSE, fast |-> MaxAge, full |-> MaxAge]

ClientRec == [busy : BOOLEAN, user : Users \union {NULL, Freed},
              full : BOOLEAN]
IdleClient == [busy |-> FALSE, user |-> NULL, full |-> FALSE]
\* cmd_sent stays set while the client's callback runs
CallbackClient == [busy |-> TRUE, user |-> NULL, full |-> FALSE]

\* name is whom the request asked for; user is the pointer in the lookup;
\* fresh records that a dsync of name began after the request came.
LookupRec == [name : Users \union {NULL}, user : Users \union {NULL, Freed},
              wait : BOOLEAN, fresh : BOOLEAN]
NoLookup == [name |-> NULL, user |-> NULL, wait |-> FALSE, fresh |-> FALSE]

\* What a user's replica lacks: nothing, an update that no dsync has picked
\* up, or an update that the running dsync is carrying over.
Clean == "clean"
Missing == "missing"
Carried == "carried"

Answers == {"none", "+", "-", "early"}

ContRec == [op : {"none", "force", "notify", "notify_full", "free", "nouser"},
            user : Users \union {NULL}, conn : 0..MaxConns]
NoCont == [op |-> "none", user |-> NULL, conn |-> 0]

-----------------------------------------------------------------------------
(* The queue                                                               *)

\* Mutant: popping leaves the user in the heap.
QueueKeepsPopped == known

\* user_queue holds the known users that are not popped.
Queue == {u \in known : ~user[u].popped}

\* user_priority_cmp(user1, user2) < 0: a larger age is an older timestamp.
user_priority_before(u1, u2) ==
  \/ u1.priority > u2.priority
  \/ /\ u1.priority = u2.priority
     /\ \/ u1.priority # NONE /\ u1.fast > u2.fast
        \/ /\ u1.priority = NONE
           /\ \/ u1.last_sync_failed /\ ~u2.last_sync_failed
              \/ /\ u1.last_sync_failed /\ u2.last_sync_failed
                 /\ u1.fast > u2.fast
              \/ /\ ~u1.last_sync_failed /\ ~u2.last_sync_failed
                 /\ u1.full > u2.full

\* What priorityq_peek() may return: the best user while the heap is in
\* order.  A timestamp changed in place can leave a user above a better one
\* of the same priority, never above one of a higher priority, because the
\* priority only changes around a remove and an add (PriorityQ.tla).
Heads ==
  {u \in Queue :
     \A v \in Queue :
       /\ user[v].priority <= user[u].priority
       /\ ordered => ~user_priority_before(user[v], user[u])}

\* Mutant: the time left is not compared with the present first.
SecsLeftUnchecked(rec) ==
  IF rec.last_sync_failed THEN FailureResyncInterval - rec.fast
  ELSE FullSyncInterval - rec.full

\* Seconds until next_sync, 0 when it is not in the future.
SecsLeft(rec) ==
  IF rec.last_sync_failed
  THEN IF rec.fast < FailureResyncInterval
       THEN FailureResyncInterval - rec.fast ELSE 0
  ELSE IF rec.full < FullSyncInterval
       THEN FullSyncInterval - rec.full ELSE 0

\* Mutants: failures are not retried; users are not synced periodically.
WantSyncNowNoRetry(rec) ==
  rec.priority # NONE \/ (~rec.last_sync_failed /\ SecsLeft(rec) = 0)
WantSyncNowNoPeriod(rec) == rec.priority # NONE

replicator_queue_want_sync_now(rec) ==
  rec.priority # NONE \/ SecsLeft(rec) = 0

\* Mutant: an update of a user that is being replicated is ignored.
AddIntSkipsPopped(u, p) ==
  /\ known' = known \union {u}
  /\ user' = IF user[u].priority > p \/ user[u].popped THEN user
             ELSE [user EXCEPT ![u].priority = p]

\* An unknown user has the record of a new one.
replicator_queue_add_int(u, p) ==
  /\ known' = known \union {u}
  /\ user' = IF user[u].priority > p THEN user
             ELSE [user EXCEPT ![u].priority = p]

\* The lookups when u is looked up and, if unknown, allocated: it may get the
\* memory of a removed user, whose lookups then point to it.
Allocations(u) ==
  LET dangling == {r \in Requests : lookups[r].user = Freed}
  IN  IF u \in known THEN {lookups}
      ELSE {[r \in Requests |-> IF r \in S
                                THEN [lookups[r] EXCEPT !.user = u]
                                ELSE lookups[r]] : S \in SUBSET dangling}

\* The user's memory is freed: lookups and dsync contexts that point to it
\* dangle.  The client conn, whose own callback is removing it, does not.
replicator_queue_remove(u) ==
  /\ known' = known \ {u}
  /\ user' = [user EXCEPT ![u] = NewUser]
  /\ ordered' = (ordered \/ Cardinality(Queue \ {u}) <= 1)
  /\ lookups' = [r \in Requests |->
                   IF lookups[r].user = u
                   THEN [lookups[r] EXCEPT !.user = Freed] ELSE lookups[r]]
  /\ need' = [need EXCEPT ![u] = Clean]

\* The lookups that a push of the users in S answers, and those it passes on
\* to the next push.
Ready(S) == {r \in Requests : lookups[r].user \in S /\ ~lookups[r].wait}
\* Mutant: wait_for_next_push is never cleared.
WaitingNever(S) == {}

Waiting(S) == {r \in Requests : lookups[r].user \in S /\ lookups[r].wait}

handle_sync_lookups(rec, S) ==
  /\ lookups' = [r \in Requests |->
                   IF r \in Ready(S) THEN NoLookup
                   ELSE IF r \in Waiting(S)
                        THEN [lookups[r] EXCEPT !.wait = FALSE]
                        ELSE lookups[r]]
  /\ answer' = [r \in Requests |->
                  IF r \notin Ready(S) THEN answer[r]
                  ELSE IF rec[lookups[r].user].last_sync_failed THEN "-"
                       ELSE IF lookups[r].fresh THEN "+" ELSE "early"]

\* replicator_queue_push() of the users in S, whose records are in rec.
replicator_queue_push(rec, S) ==
  /\ user' = [u \in Users |-> IF u \in S THEN [rec[u] EXCEPT !.popped = FALSE]
                              ELSE rec[u]]
  /\ handle_sync_lookups(rec, S)

\* The assertion in replicator_queue_handle_sync_lookups().
LookupAssert(rec, S) ==
  \A r \in Waiting(S) : rec[lookups[r].user].priority = SYNC

\* Go on at next if the assertion holds, panic if it does not.
AssertThen(ok, name, next) ==
  /\ pc' = IF ok THEN next ELSE "fault"
  /\ fault' = IF ok THEN fault ELSE name

-----------------------------------------------------------------------------
(* The brain                                                               *)

IdleConns == {c \in Conns : ~clients[c].busy}
\* The code takes the first; idle clients are all alike.
get_dsync_client == CHOOSE c \in Conns : c \in IdleConns

\* Mutant: the timer is only ever removed.
ArmTimerNot(secs) == to' = NULL

\* timeout_add(next_secs) at the end of replicator_brain_fill_next().
ArmTimer(secs) == to' = secs

\* The queue changed: run replicator_brain_fill(), then what k says.
ThenFill(k) == pc' = "fill" /\ cont' = k

\* replicator_brain_fill_next() with a user to sync and a client for it:
\* dsync_replicate() and dsync_client_sync().
FillStart(u) ==
  /\ pc = "fill" /\ u \in Heads
  /\ replicator_queue_want_sync_now(user[u])
  /\ IdleConns # {}
  /\ LET full == user[u].full >= FullSyncInterval
     IN  /\ clients' = [clients EXCEPT ![get_dsync_client] =
                          [busy |-> TRUE, user |-> u, full |-> full]]
         /\ user' = [user EXCEPT ![u] =
                       [@ EXCEPT !.popped = TRUE, !.priority = NONE, !.fast = 0,
                                 !.full = IF full \/ user[u].force_full_sync
                                          THEN 0 ELSE user[u].full,
                                 !.force_full_sync = FALSE]]
  /\ ordered' = (ordered \/ Cardinality(Queue \ {u}) <= 1)
  /\ need' = [need EXCEPT ![u] = IF @ = Missing THEN Carried ELSE @]
  /\ lookups' = [r \in Requests |->
                   IF lookups[r].user = u /\ lookups[r].name = u
                   THEN [lookups[r] EXCEPT !.fresh = TRUE] ELSE lookups[r]]
  /\ UNCHANGED <<known, to, db, pc, cont, answer, fault, crashes>>

\* The same with every client busy: the user is popped and pushed back.
FillFull(u) ==
  /\ pc = "fill" /\ u \in Heads
  /\ replicator_queue_want_sync_now(user[u])
  /\ IdleConns = {}
  /\ replicator_queue_push(user, {u})
  /\ AssertThen(LookupAssert(user, {u}), "lookup_priority", "return")
  /\ UNCHANGED <<known, ordered, clients, to, db, cont, need, crashes>>

\* The first user in the queue is not due: come back when it is.
FillWait(u) ==
  /\ pc = "fill" /\ u \in Heads
  /\ ~replicator_queue_want_sync_now(user[u])
  /\ ArmTimer(SecsLeft(user[u]))
  /\ pc' = "return"
  /\ UNCHANGED <<known, user, ordered, clients, lookups, db, cont,
                 answer, need, fault, crashes>>

\* The queue is empty.
FillEmpty ==
  /\ pc = "fill" /\ Queue = {}
  /\ ArmTimer(NoUsersSecs)
  /\ pc' = "return"
  /\ UNCHANGED <<known, user, ordered, clients, lookups, db, cont,
                 answer, need, fault, crashes>>

replicator_brain_timeout ==
  /\ pc = "idle" /\ to = 0
  /\ to' = NULL
  /\ ThenFill(NoCont)
  /\ UNCHANGED <<known, user, ordered, clients, lookups, db,
                 answer, need, fault, crashes>>

\* Mutant: a full sync does not count as a fast one.
NotifiedFullOnly(rec, full) ==
  IF full THEN [rec EXCEPT !.full = 0] ELSE [rec EXCEPT !.fast = 0]

\* The times client_input_notify() sets.
Notified(rec, full) ==
  [rec EXCEPT !.fast = 0, !.full = IF full THEN 0 ELSE @]

\* No sync request waits for u.
Unawaited(u) == \A r \in Requests : lookups[r].user # u

\* The environment's event may happen, at a bad moment only if it is harsh.
MayHappen(event, harsh, harmless) ==
  harsh \in Env \/ (event \in Env /\ harmless)

\* replicator_brain_fill() is over: the rest of the handler that caused it.
Return ==
  /\ pc = "return"
  /\ LET u == cont.user
         op == cont.op
     IN  /\ user' = IF op = "force"
                    THEN [user EXCEPT ![u].force_full_sync = TRUE]
                    ELSE IF op \in {"notify", "notify_full"}
                    THEN [user EXCEPT ![u] = Notified(@, op = "notify_full")]
                    ELSE user
         /\ ordered' = (ordered /\ (op \in {"notify", "notify_full"} /\ u \in Queue
                                      => Cardinality(Queue) <= 1))
         /\ clients' = IF op = "free"
                       THEN [clients EXCEPT ![cont.conn] = IdleClient]
                       ELSE clients
         /\ pc' = IF op = "nouser" THEN "fill" ELSE "idle"
         /\ cont' = IF op = "nouser" THEN [cont EXCEPT !.op = "free"]
                    ELSE NoCont
  /\ UNCHANGED <<known, to, lookups, db, answer, need, fault, crashes>>

\* dsync_callback(): a dsync finished, failed, was disconnected or could not
\* be started (dsync_fail_timeout).
dsync_callback(c, reply) ==
  /\ pc = "idle" /\ clients[c].user \in Users
  /\ reply = "FAIL" => "FAIL" \in Env
  /\ reply = "NOUSER" => MayHappen("NOUSER", "NOUSER_BUSY", Unawaited(clients[c].user))
  /\ LET u == clients[c].user
         rec == [user EXCEPT ![u].last_sync_failed = (reply # "OK")]
     IN  IF reply = "NOUSER"
         THEN /\ replicator_queue_remove(u)
              /\ ThenFill([op |-> "nouser", user |-> NULL, conn |-> c])
              /\ UNCHANGED <<answer, fault>>
         ELSE /\ replicator_queue_push(rec, {u})
              /\ need' = [need EXCEPT ![u] =
                            IF @ # Carried THEN @
                            ELSE IF reply = "OK" THEN Clean ELSE Missing]
              /\ AssertThen(LookupAssert(rec, {u}), "lookup_priority", "fill")
              /\ cont' = [op |-> "free", user |-> NULL, conn |-> c]
              /\ UNCHANGED <<known, ordered>>
  /\ clients' = [clients EXCEPT ![c] = CallbackClient]
  /\ UNCHANGED <<to, db, crashes>>

\* The same with a context whose user was removed: popped is read from freed
\* memory, where replicator_queue_push() asserts it to be set.
DsyncCallbackFreed(c) ==
  /\ pc = "idle" /\ clients[c].user = Freed
  /\ \E popped \in BOOLEAN :
       fault' = IF popped THEN "use_after_free" ELSE "push_popped"
  /\ pc' = "fault"
  /\ UNCHANGED <<known, user, ordered, clients, to, lookups, db, cont,
                 answer, need, crashes>>

-----------------------------------------------------------------------------
(* The clients of the queue                                                *)

\* An update of u was reported: some dsync has to carry it over.
Reported(u, p) ==
  need' = IF p = NONE THEN need ELSE [need EXCEPT ![u] = Missing]

\* "U <user> <priority>" from a notify client.
NotifyUpdate(u, p) ==
  /\ pc = "idle" /\ p # SYNC
  /\ replicator_queue_add_int(u, p)
  /\ lookups' \in Allocations(u)
  /\ Reported(u, p)
  /\ ThenFill(NoCont)
  /\ UNCHANGED <<ordered, clients, to, db, answer, fault, crashes>>

\* Mutants: every request waits for the next push; none does.
AlwaysWait(u) == TRUE
NeverWait(u) == FALSE

wait_for_next_push(u) == user[u].popped

\* "U <user> sync <id>": replicator_queue_add_sync().
NotifySync(u, r) ==
  /\ pc = "idle" /\ lookups[r] = NoLookup /\ answer[r] = "none"
  /\ replicator_queue_add_int(u, SYNC)
  /\ \E allocated \in Allocations(u) :
       lookups' = [allocated EXCEPT ![r] =
                     [name |-> u, user |-> u, wait |-> wait_for_next_push(u),
                      fresh |-> FALSE]]
  /\ Reported(u, SYNC)
  /\ ThenFill(NoCont)
  /\ UNCHANGED <<ordered, clients, to, db, answer, fault, crashes>>

\* "REPLICATE <priority> f <user>": force_full_sync is set when the queue's
\* change callback has returned.  Without the flag it is NotifyUpdate; a mask
\* does it for one user after the other.
client_input_replicate(u, p) ==
  /\ pc = "idle" /\ "FORCE" \in Env
  /\ replicator_queue_add_int(u, p)
  /\ lookups' \in Allocations(u)
  /\ Reported(u, p)
  /\ ThenFill([op |-> "force", user |-> u, conn |-> 0])
  /\ UNCHANGED <<ordered, clients, to, db, answer, fault, crashes>>

\* "ADD <user>", and one step of adding a mask's users from the userdb.
client_input_add(u) == NotifyUpdate(u, NONE)

\* "REMOVE <user>".
client_input_remove(u) ==
  /\ pc = "idle" /\ u \in known
  /\ MayHappen("REMOVE", "REMOVE_BUSY", ~user[u].popped /\ Unawaited(u))
  /\ replicator_queue_remove(u)
  /\ clients' = [c \in Conns |->
                   IF clients[c].user = u
                   THEN [clients[c] EXCEPT !.user = Freed] ELSE clients[c]]
  /\ ThenFill(NoCont)
  /\ UNCHANGED <<to, db, answer, fault, crashes>>

\* "NOTIFY <user> <flags>": the other side has just replicated this user.
client_input_notify(u, full) ==
  /\ pc = "idle" /\ "NOTIFY" \in Env
  /\ replicator_queue_add_int(u, NONE)
  /\ lookups' \in Allocations(u)
  /\ ThenFill([op |-> IF full THEN "notify_full" ELSE "notify",
               user |-> u, conn |-> 0])
  /\ UNCHANGED <<ordered, clients, to, db, answer, need, fault, crashes>>

-----------------------------------------------------------------------------
(* The process                                                             *)

\* replicator_queue_export() of the users in S; neither popped nor
\* force_full_sync is written.
Export(rec, S) ==
  [known |-> S,
   user |-> [u \in Users |->
               IF u \in S THEN [rec[u] EXCEPT !.popped = FALSE,
                                              !.force_full_sync = FALSE]
               ELSE NewUser]]

Gone ==
  /\ known' = {} /\ user' = [u \in Users |-> NewUser] /\ ordered' = TRUE
  /\ clients' = [c \in Conns |-> IdleClient] /\ to' = NULL
  /\ lookups' = [r \in Requests |-> NoLookup] /\ cont' = NoCont

\* The users that listing the userdb adds; the listing may fail half-way.
replicator_queue_add_auth_users ==
  {listed \in SUBSET AuthUsers : listed = AuthUsers \/ "AUTH_FAIL" \in Env}

\* Users from the userdb have last_update 0, so every record of the file
\* replaces theirs.
replicator_queue_import(listed) ==
  /\ known' = listed \union db.known
  /\ user' = db.user
  /\ ordered' = (db.known = {} \/ Cardinality(known') <= 1)

\* The users from the userdb, then what replicator.db says, then the first
\* replicator_brain_fill().
main_init ==
  /\ pc = "down"
  /\ \E listed \in replicator_queue_add_auth_users :
       replicator_queue_import(listed)
  /\ ThenFill(NoCont)
  /\ UNCHANGED <<clients, to, lookups, db, answer, need, fault, crashes>>

\* The users when the dsyncs of those in S have failed.
Disconnected(S) ==
  [u \in Users |-> IF u \in S THEN [user[u] EXCEPT !.last_sync_failed = TRUE]
                   ELSE user[u]]

\* Every running dsync is disconnected, which fails it; the queue is saved
\* and freed.
main_deinit ==
  LET running == {clients[c].user : c \in Conns} \ {NULL}
      rec == Disconnected(running)
      left == {r \in Requests : lookups[r] # NoLookup} \ Ready(running)
  IN  /\ pc = "idle"
      /\ MayHappen("STOP", "STOP_BUSY", \A r \in Requests : lookups[r] = NoLookup)
      /\ Gone
      /\ answer' = [r \in Requests |->
                      IF r \in Ready(running) THEN "-" ELSE answer[r]]
      /\ need' = [u \in Users |->
                    IF need[u] = Carried THEN Missing ELSE need[u]]
      /\ \/ /\ Freed \in running
            /\ AssertThen(FALSE, "push_popped", "down")
            /\ UNCHANGED db
         \/ /\ Freed \notin running /\ ~LookupAssert(rec, running)
            /\ AssertThen(FALSE, "lookup_priority", "down")
            /\ UNCHANGED db
         \/ /\ Freed \notin running /\ LookupAssert(rec, running)
            /\ AssertThen(left = {}, "deinit_lookups", "down")
            /\ db' = Export(rec, known)
      /\ UNCHANGED crashes

\* The process dies.  It may die in the middle of replicator_queue_export(),
\* which truncates the file first and writes one user after the other.
Crash ==
  /\ pc # "down"
  /\ \/ pc = "fault" /\ UNCHANGED <<db, crashes>>
     \/ /\ pc # "fault" /\ "CRASH" \in Env /\ crashes < CrashBudget
        /\ crashes' = crashes + 1
        /\ \/ UNCHANGED db
           \/ /\ pc = "idle" /\ "DUMP" \in Env
              /\ \E S \in SUBSET known : db' = Export(user, S)
  /\ Gone
  /\ pc' = "down"
  /\ need' = [u \in Users |-> IF need[u] = Carried THEN Missing ELSE need[u]]
  /\ UNCHANGED <<answer, fault>>

replicator_dump_timeout ==
  /\ pc = "idle" /\ "DUMP" \in Env
  /\ db' = Export(user, known)
  /\ UNCHANGED <<known, user, ordered, clients, to, lookups, pc, cont,
                 answer, need, fault, crashes>>

Older(rec) ==
  [rec EXCEPT !.fast = IF @ < MaxAge THEN @ + 1 ELSE @,
              !.full = IF @ < MaxAge THEN @ + 1 ELSE @]

\* A second passes.
Tick ==
  /\ pc \in {"idle", "down"}
  /\ user' = [u \in Users |-> Older(user[u])]
  /\ db' = [db EXCEPT !.user = [u \in Users |-> Older(db.user[u])]]
  /\ to' = IF to \in {NULL, 0} THEN to ELSE to - 1
  /\ UNCHANGED <<known, ordered, clients, lookups, pc, cont,
                 answer, need, fault, crashes>>

Init ==
  /\ pc = "down" /\ cont = NoCont
  /\ known = {} /\ user = [u \in Users |-> NewUser] /\ ordered = TRUE
  /\ clients = [c \in Conns |-> IdleClient] /\ to = NULL
  /\ lookups = [r \in Requests |-> NoLookup]
  /\ db = [known |-> {}, user |-> [u \in Users |-> NewUser]]
  /\ answer = [r \in Requests |-> "none"]
  /\ need = [u \in Users |-> Clean]
  /\ fault = "none" /\ crashes = 0

Fill ==
  \/ \E u \in Users : FillStart(u) \/ FillFull(u) \/ FillWait(u)
  \/ FillEmpty
  \/ Return

Command ==
  \E u \in Users :
    \/ \E p \in UpdatePriorities :
         NotifyUpdate(u, p) \/ client_input_replicate(u, p)
    \/ \E r \in Requests : NotifySync(u, r)
    \/ client_input_add(u) \/ client_input_remove(u)
    \/ \E full \in BOOLEAN : client_input_notify(u, full)

Replied ==
  \E c \in Conns :
    \/ \E reply \in {"OK", "FAIL", "NOUSER"} : dsync_callback(c, reply)
    \/ DsyncCallbackFreed(c)

Process == main_init \/ main_deinit \/ Crash \/ replicator_dump_timeout

Next == Fill \/ Command \/ Replied \/ replicator_brain_timeout \/ Process \/ Tick

Spec == Init /\ [][Next]_vars

\* Handlers run to their end.  Every round of the event loop runs the timers
\* and the descriptors that are ready, so no flood of commands holds them up
\* (strong fairness: they are not enabled inside a handler).  The master
\* starts the process when a client connects.  A dsync ends, and the dsyncs
\* of one user do not fail for ever.
Fairness ==
  /\ WF_vars(Fill) /\ SF_vars(replicator_brain_timeout) /\ SF_vars(Tick)
  /\ WF_vars(main_init)
  /\ \A u \in Users :
       SF_vars(\E c \in Conns : clients[c].user = u /\ dsync_callback(c, "OK"))

FairSpec == Spec /\ Fairness

-----------------------------------------------------------------------------
(* Properties                                                              *)

TypeOK ==
  /\ known \in SUBSET Users
  /\ user \in [Users -> UserRec]
  /\ ordered \in BOOLEAN
  /\ clients \in [Conns -> ClientRec]
  /\ to \in Nat \union {NULL}
  /\ lookups \in [Requests -> LookupRec]
  /\ db \in [known : SUBSET Users, user : [Users -> UserRec]]
  /\ pc \in {"down", "idle", "fill", "return", "fault"}
  /\ cont \in ContRec
  /\ answer \in [Requests -> Answers]
  /\ need \in [Users -> {Clean, Missing, Carried}]
  /\ fault \in {"none", "lookup_priority", "push_popped", "use_after_free",
                "deinit_lookups"}
  /\ crashes \in Nat

Running(u) == {c \in Conns : clients[c].user = u}

\* A user is out of the queue exactly while one dsync, and only one, runs for
\* its record: no user is dropped between pop and push, and no two dsyncs of
\* the same record run against each other.
OneSyncPerUser ==
  \A u \in Users :
    /\ user[u].popped <=> Running(u) # {}
    /\ \A c, d \in Running(u) : c = d

\* replicator-queue.h: "last_fast_sync is always >= last_full_sync.", in
\* memory and in the file.
FastSyncNotOlder ==
  \A u \in Users :
    /\ user[u].fast <= user[u].full
    /\ db.user[u].fast <= db.user[u].full

Retried(rec) == rec.priority # NONE \/ rec.last_sync_failed

\* "if more updates arrive during replication we'll do another replication to
\* make sure nothing gets lost" (dsync_replicate): an update that no dsync has
\* carried over successfully is being carried, or its user is queued with a
\* priority or for the retry of a failure, also across a clean restart.
NoUpdateLost ==
  \A u \in Users :
    /\ need[u] = Missing =>
         IF pc \in {"down", "fault"}
         THEN u \in db.known /\ Retried(db.user[u])
         ELSE u \in known /\ Retried(user[u])
    /\ need[u] = Carried => Running(u) # {}

\* None of the assertions of replicator-queue.c fails: a pushed user was
\* popped, a lookup that waits for the next push has its user at priority
\* SYNC, and no freed user is used.
NoPanic == fault = "none"

\* A sync request is answered "+" only when a dsync of its user that began
\* after the request has succeeded (replicator_queue_add_sync: "synchronously
\* wait for new emails to be replicated").
SyncAnswerTrue == \A r \in Requests : answer[r] # "early"

\* When the event loop is idle and no dsync runs, nothing with a priority is
\* left in the queue and the timer that will run the next fill is armed:
\* nobody waits for an event that will not come.
NotStalled ==
  pc = "idle" /\ (\A c \in Conns : ~clients[c].busy) =>
    /\ to # NULL
    /\ \A u \in Queue : user[u].priority = NONE

\* An update that no dsync has picked up is picked up by one, whatever other
\* users do and however often dsyncs fail.
UpdatePickedUp == \A u \in Users : need[u] = Missing ~> need[u] # Missing

\* A sync request is answered.
SyncAnswered ==
  \A r \in Requests : lookups[r] # NoLookup ~> lookups[r] = NoLookup
=============================================================================
