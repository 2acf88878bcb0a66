------------------------------ MODULE Dotlock -------------------------------
(***************************************************************************)
(* lib/file-dotlock.c: processes lock a file by creating another one next  *)
(* to it, and remove the lock file of a process that died.  A step is one  *)
(* system call on the lock file, with what the code does before the next.  *)
(*                                                                         *)
(* Locks are created with link() (the default); the number of a lock file  *)
(* stands for its inode and times.  Of time only what the code compares is *)
(* kept: whether a lock is younger than STALE_PID_CHECK_SECS, and whether  *)
(* it and the file it protects have not changed for stale_timeout, which   *)
(* is assumed to happen only to the lock of a dead process: that a live    *)
(* one touches its lock or is done in time is what its callers see to.     *)
(***************************************************************************)
EXTENDS Integers, FiniteSets

CONSTANTS
  Procs,
  Crashed,     \* the processes that died before, one of which may have left its lock
  Remote,      \* the processes on another host, whose pid cannot be checked
  DotEnv,      \* the events the environment may cause
  MaxLocks,    \* bound on lock files
  MaxCrashes   \* bound on crashes

\* TIMEOUT: a process gives up waiting, RETRY: and may come back at once, also if
\* it has just overridden the lock.  SLOW: a process may take longer to look
\* at a lock and unlink it than others sleep.
ASSUME DotAssumption ==
  /\ Crashed \subseteq Procs /\ Remote \subseteq Procs
  /\ DotEnv \subseteq {"TIMEOUT", "RETRY", "SLOW"}
  /\ MaxLocks \in Nat /\ MaxCrashes \in Nat

VARIABLES
  lock,     \* the lock file, NoLock if there is none
  dpc,      \* what a process does next
  info,     \* struct lock_info
  mine,     \* dotlock->ino: the number of the lock file a process created
  made,     \* lock files created so far
  crashes   \* crashes so far

dotVars == <<lock, dpc, info, mine, made, crashes>>

NoLock == [n |-> 0, owner |-> "none", young |-> FALSE, stale |-> FALSE]
NoInfo == [n |-> 0, pid_read |-> FALSE, have_pid |-> FALSE, pid |-> "none",
           stale |-> FALSE, overrode |-> FALSE]
Exists == lock # NoLock
\* kill(pid, 0)
Alive(p) == dpc[p] # "dead"
SameHost(p, q) == p \in Remote <=> q \in Remote
Goto(p, l) == dpc' = [dpc EXCEPT ![p] = l]

NewLock(n, p) == [n |-> n, owner |-> p, young |-> TRUE, stale |-> FALSE]

DotInit ==
  /\ lock \in {NoLock} \cup {NewLock(1, p) : p \in Crashed}
  /\ dpc = [p \in Procs |-> IF p \in Crashed THEN "dead" ELSE "idle"]
  /\ info = [p \in Procs |-> NoInfo] /\ mine = [p \in Procs |-> 0]
  /\ made = lock.n /\ crashes = 0

-----------------------------------------------------------------------------
(* dotlock_create().                                                       *)

Start(p) ==
  /\ dpc[p] = "idle" /\ made < MaxLocks
  /\ Goto(p, "stat")
  /\ UNCHANGED <<lock, info, mine, made, crashes>>

\* update_lock_info() and what check_lock() does until the pid is read: a young
\* lock's pid is not read, a lock without a pid is overridden when it is stale.
Stat(p) ==
  LET old == info[p]
      again == lock.n = old.n /\ old.pid_read
      seen == [old EXCEPT !.n = lock.n, !.stale = lock.stale, !.overrode = FALSE]
  IN  /\ dpc[p] = "stat"
      /\ IF ~Exists THEN Goto(p, "create") /\ info' = [info EXCEPT ![p].overrode = FALSE]
         ELSE IF (again /\ old.have_pid) \/ (~again /\ ~lock.young)
         THEN Goto(p, "read") /\ info' = [info EXCEPT ![p] = seen]
         ELSE /\ Goto(p, IF lock.stale THEN "unlink" ELSE "wait")
              /\ info' = [info EXCEPT ![p] =
                   IF again THEN seen ELSE [seen EXCEPT !.pid_read = FALSE, !.have_pid = FALSE]]
      /\ UNCHANGED <<lock, mine, made, crashes>>

\* read_local_pid().
ReadPid(p) ==
  LET known == Exists /\ SameHost(p, lock.owner)
  IN  /\ dpc[p] = "read"
      /\ info' = [info EXCEPT ![p].pid_read = TRUE, ![p].have_pid = known,
                              ![p].pid = IF known THEN lock.owner ELSE "none"]
      /\ Goto(p, IF known THEN "kill" ELSE IF info[p].stale THEN "unlink" ELSE "wait")
      /\ UNCHANGED <<lock, mine, made, crashes>>

\* Mutant: EPERM and ESRCH are taken for the same.
KillFailsSafe(p) ==
  /\ dpc[p] = "kill"
  /\ Goto(p, "wait")
  /\ UNCHANGED <<lock, info, mine, made, crashes>>

Kill(p) ==
  /\ dpc[p] = "kill"
  /\ Goto(p, IF Alive(info[p].pid) THEN "wait" ELSE "restat")
  /\ UNCHANGED <<lock, info, mine, made, crashes>>

\* check_lock() looks again whether the lock was just deleted or replaced.
Restat(p) ==
  /\ dpc[p] = "restat"
  /\ Goto(p, IF Exists /\ lock.n = info[p].n THEN "unlink" ELSE "create")
  /\ info' = [info EXCEPT ![p].n = IF Exists THEN lock.n ELSE @]
  /\ UNCHANGED <<lock, mine, made, crashes>>

\* dotlock_override() unlinks what there is now.
Override(p) ==
  /\ dpc[p] = "unlink"
  /\ lock' = NoLock
  /\ info' = [info EXCEPT ![p].overrode = TRUE]
  /\ Goto(p, "wait")
  /\ UNCHANGED <<mine, made, crashes>>

\* Mutant: no sleep after a lock was overridden.
NoSleep(p) == TRUE

\* Whoever overrode a lock sleeps until others that have looked at that lock are
\* done with it.
Slept(p) ==
  info[p].overrode /\ "SLOW" \notin DotEnv =>
    \A q \in Procs \ {p} :
      ~(dpc[q] \in {"read", "kill", "restat", "unlink"} /\ info[q].n = info[p].n)

Wait(p) ==
  /\ dpc[p] = "wait" /\ Slept(p)
  /\ Goto(p, "stat")
  /\ UNCHANGED <<lock, info, mine, made, crashes>>

Timeout(p) ==
  /\ "TIMEOUT" \in DotEnv /\ dpc[p] = "wait" /\ (Slept(p) \/ "RETRY" \in DotEnv)
  /\ Goto(p, "idle")
  /\ info' = [info EXCEPT ![p] = NoInfo]
  /\ UNCHANGED <<lock, mine, made, crashes>>

try_create_lock_hardlink(p) ==
  /\ dpc[p] = "create"
  /\ IF Exists THEN Goto(p, "wait") /\ UNCHANGED <<lock, mine, made>>
     ELSE /\ lock' = NewLock(made + 1, p)
          /\ made' = made + 1
          /\ mine' = [mine EXCEPT ![p] = made + 1]
          /\ Goto(p, "verify")
  /\ info' = [info EXCEPT ![p] = IF Exists THEN @ ELSE NoInfo]
  /\ UNCHANGED crashes

\* file_dotlock_create_real() fails if the lock is not there any more.
Verify(p) ==
  /\ dpc[p] = "verify"
  /\ Goto(p, IF lock.n = mine[p] THEN "hold" ELSE "idle")
  /\ UNCHANGED <<lock, info, mine, made, crashes>>

-----------------------------------------------------------------------------
(* file_dotlock_delete(), crashes and time.                                *)

DeleteStat(p) ==
  /\ dpc[p] = "hold"
  /\ Goto(p, IF lock.n = mine[p] THEN "delete" ELSE "idle")
  /\ UNCHANGED <<lock, info, mine, made, crashes>>

DeleteUnlink(p) ==
  /\ dpc[p] = "delete"
  /\ lock' = NoLock
  /\ Goto(p, "idle")
  /\ UNCHANGED <<info, mine, made, crashes>>

Crash(p) ==
  /\ dpc[p] \notin {"dead", "idle"} /\ crashes < MaxCrashes
  /\ crashes' = crashes + 1
  /\ Goto(p, "dead")
  /\ UNCHANGED <<lock, info, mine, made>>

\* STALE_PID_CHECK_SECS pass; then stale_timeout.
Age ==
  /\ Exists
  /\ \/ lock.young /\ lock' = [lock EXCEPT !.young = FALSE]
     \/ ~lock.young /\ ~Alive(lock.owner) /\ ~lock.stale /\ lock' = [lock EXCEPT !.stale = TRUE]
  /\ UNCHANGED <<dpc, info, mine, made, crashes>>

Trying(p) ==
  \/ Stat(p) \/ ReadPid(p) \/ Kill(p) \/ Restat(p) \/ Override(p) \/ Wait(p)
  \/ try_create_lock_hardlink(p) \/ Verify(p)

Holding(p) == DeleteStat(p) \/ DeleteUnlink(p)

DotNext ==
  \/ \E p \in Procs : Start(p) \/ Trying(p) \/ Holding(p) \/ Timeout(p) \/ Crash(p)
  \/ Age

DotSpec == DotInit /\ [][DotNext]_dotVars

\* Processes go on, locks are released, time passes.
DotFairness ==
  /\ \A p \in Procs : WF_dotVars(Trying(p) \/ Holding(p))
  /\ WF_dotVars(Age)
DotFairSpec == DotSpec /\ DotFairness

-----------------------------------------------------------------------------
(* Properties.                                                             *)

\* At most one process has the lock (file_dotlock_create() has returned 1 and
\* file_dotlock_delete() has not begun), while others find the lock of a dead
\* process stale and unlink it.
OneHolder ==
  \A p, q \in Procs : dpc[p] = "hold" /\ dpc[q] = "hold" => p = q

\* The lock file that a dead process left does not stay: some process that
\* waits for the lock removes it.
StaleRemoved ==
  []<>(Exists => Alive(lock.owner) \/ \A p \in Procs : dpc[p] \in {"idle", "dead", "hold"})
=============================================================================
