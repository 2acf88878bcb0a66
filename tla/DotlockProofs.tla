--------------------------- MODULE DotlockProofs ----------------------------
(***************************************************************************)
(* Proofs about dotlocks, for any processes on any hosts of which two live *)
(* and any number has died before, and for any number of lock files.       *)
(***************************************************************************)
EXTENDS Dotlock, TLAPS

\* At most two processes want the lock, and the sleep after an override is long
\* enough for the other one: it is neither too slow nor is the sleep cut short.
TwoContend ==
  /\ \A p, q, r \in Procs \ Crashed : p = q \/ p = r \/ q = r
  /\ "SLOW" \notin DotEnv /\ "RETRY" \notin DotEnv

-----------------------------------------------------------------------------
(* The inductive invariant.                                                *)

Labels == {"idle", "stat", "read", "kill", "restat", "unlink", "wait", "create", "verify",
           "hold", "delete", "dead"}
LockRec == [n : Nat \ {0}, owner : Procs, young : BOOLEAN, stale : BOOLEAN]
InfoRec == [n : Nat, pid_read : BOOLEAN, have_pid : BOOLEAN, pid : Procs \cup {"none"},
            stale : BOOLEAN, overrode : BOOLEAN]

DotTypes ==
  /\ made \in Nat
  /\ lock = NoLock \/ (lock \in LockRec /\ lock.n <= made)
  /\ dpc \in [Procs -> Labels] /\ mine \in [Procs -> Nat]
  /\ info \in [Procs -> InfoRec] /\ \A p \in Procs : info[p].n <= made

\* Who died before is dead, and so is the owner of a lock that has become stale.
DeadStay ==
  /\ \A p \in Crashed : dpc[p] = "dead"
  /\ Exists /\ lock.stale => dpc[lock.owner] = "dead"

\* Nobody unlinks the lock of a live process.
HolderHasLock ==
  \A p \in Procs : dpc[p] \in {"verify", "hold", "delete"} =>
    Exists /\ lock.owner = p /\ lock.n = mine[p]

\* The pid is that of the lock that was looked at, if that still is there.
PidFits(n, pid) == pid \in Procs /\ (Exists /\ lock.n = n => lock.owner = pid)
PidOfLock ==
  \A p \in Procs :
    /\ dpc[p] \in {"kill", "restat"} => PidFits(info[p].n, info[p].pid)
    /\ dpc[p] = "restat" => dpc[info[p].pid] = "dead"

\* What p is about to unlink: lock n of a dead process, or nothing, while the other
\* process, which has unlinked it, sleeps.
Doomed(p, n) ==
  \/ Exists /\ lock.n = n /\ dpc[lock.owner] = "dead"
  \/ /\ ~Exists
     /\ \A q \in Procs \ {p} :
          Alive(q) => dpc[q] = "wait" /\ info[q].overrode /\ info[q].n = n
Unlinks(p) == dpc[p] = "unlink" \/ (dpc[p] = "read" /\ info[p].stale)
UnlinksDoomed == \A p \in Procs : Unlinks(p) => Doomed(p, info[p].n)

DotInv == DotTypes /\ DeadStay /\ HolderHasLock /\ PidOfLock /\ UnlinksDoomed

LEMMA InfoFields ==
  ASSUME NEW i \in InfoRec
  PROVE  /\ i.n \in Nat /\ i.pid_read \in BOOLEAN /\ i.have_pid \in BOOLEAN
         /\ i.pid \in Procs \cup {"none"} /\ i.stale \in BOOLEAN /\ i.overrode \in BOOLEAN
  BY DEF InfoRec

LEMMA NoInfoType == NoInfo \in InfoRec /\ NoInfo.n = 0
  BY DEF NoInfo, InfoRec

\* Besides p there is at most one live process.
LEMMA OneOther ==
  ASSUME TwoContend, DotInv, NEW p \in Procs, NEW q \in Procs, NEW r \in Procs, Alive(p),
         Alive(q), Alive(r), p # q, p # r
  PROVE  q = r
  <1>1. p \notin Crashed /\ q \notin Crashed /\ r \notin Crashed
    BY DEF DotInv, DeadStay, Alive
  <1> QED BY <1>1 DEF TwoContend

\* What process p may go to with what it then knows of the lock.
Allowed(p, l, i) ==
  /\ l \in Labels /\ i \in InfoRec /\ i.n <= made
  /\ l \in {"verify", "hold", "delete"} => Exists /\ lock.owner = p /\ lock.n = mine[p]
  /\ l \in {"kill", "restat"} => PidFits(i.n, i.pid)
  /\ l = "restat" => dpc[i.pid] = "dead"
  /\ l = "unlink" \/ (l = "read" /\ i.stale) => Doomed(p, i.n)
  /\ dpc[p] = "wait" => l = "dead" \/ Slept(p)

\* A step that leaves the lock alone.
LEMMA LockAlone ==
  ASSUME TwoContend, DotInv, NEW p \in Procs, Alive(p), NEW l, NEW i, Allowed(p, l, i),
         dpc' = [dpc EXCEPT ![p] = l], info' = [info EXCEPT ![p] = i],
         UNCHANGED <<lock, mine, made>>
  PROVE  DotInv'
  <1>1. /\ dpc \in [Procs -> Labels] /\ info \in [Procs -> InfoRec] /\ l \in Labels /\ i \in InfoRec
        /\ lock' = lock /\ mine' = mine /\ made' = made /\ Exists' = Exists /\ dpc[p] # "dead"
    BY DEF DotInv, DotTypes, Allowed, Exists, Alive
  <1>2. /\ dpc'[p] = l /\ info'[p] = i
        /\ \A q \in Procs \ {p} : dpc'[q] = dpc[q] /\ info'[q] = info[q]
    BY <1>1
  <1>3. \A q \in Procs : dpc[q] = "dead" => dpc'[q] = "dead"
    BY <1>1, <1>2
  <1>4. DotTypes'
    <2>1. dpc' \in [Procs -> Labels] /\ info' \in [Procs -> InfoRec]
      BY <1>1
    <2>2. \A q \in Procs : info'[q].n <= made
      BY <1>2 DEF DotInv, DotTypes, Allowed
    <2> QED BY <1>1, <2>1, <2>2 DEF DotInv, DotTypes
  <1>5. Exists => lock.owner \in Procs
    BY DEF DotInv, DotTypes, Exists, LockRec
  <1>6. DeadStay'
    <2>1. \A q \in Crashed : q \in Procs
      BY DotAssumption
    <2> QED BY <1>1, <1>3, <1>5, <2>1 DEF DotInv, DeadStay
  <1>7. HolderHasLock'
    <2> SUFFICES ASSUME NEW q \in Procs, dpc'[q] \in {"verify", "hold", "delete"}
                 PROVE  Exists /\ lock.owner = q /\ lock.n = mine[q]
      BY <1>1 DEF HolderHasLock
    <2>1. CASE q = p
      BY <1>2, <2>1 DEF Allowed
    <2>2. CASE q # p
      BY <1>2, <2>2 DEF DotInv, HolderHasLock
    <2> QED BY <2>1, <2>2
  <1>8. PidOfLock'
    <2> SUFFICES ASSUME NEW q \in Procs
                 PROVE  /\ dpc'[q] \in {"kill", "restat"} => PidFits(info'[q].n, info'[q].pid)
                        /\ dpc'[q] = "restat" => dpc'[info'[q].pid] = "dead"
      BY <1>1 DEF PidOfLock, PidFits
    <2>1. CASE q = p
      <3>1. /\ l \in {"kill", "restat"} => PidFits(i.n, i.pid) /\ i.pid \in Procs
            /\ l = "restat" => dpc[i.pid] = "dead"
        BY DEF Allowed, PidFits
      <3> QED BY <1>2, <1>3, <2>1, <3>1
    <2>2. CASE q # p
      <3>1. /\ dpc[q] \in {"kill", "restat"} =>
                 PidFits(info[q].n, info[q].pid) /\ info[q].pid \in Procs
            /\ dpc[q] = "restat" => dpc[info[q].pid] = "dead"
        BY DEF DotInv, PidOfLock, PidFits
      <3> QED BY <1>2, <1>3, <2>2, <3>1
    <2> QED BY <2>1, <2>2
  <1>9. UnlinksDoomed'
    <2> SUFFICES ASSUME NEW q \in Procs,
                        dpc'[q] = "unlink" \/ (dpc'[q] = "read" /\ info'[q].stale)
                 PROVE  \/ Exists /\ lock.n = info'[q].n /\ dpc'[lock.owner] = "dead"
                        \/ /\ ~Exists
                           /\ \A r \in Procs \ {q} : dpc'[r] # "dead" =>
                                dpc'[r] = "wait" /\ info'[r].overrode /\ info'[r].n = info'[q].n
      BY <1>1 DEF UnlinksDoomed, Unlinks, Doomed, Alive
    <2>1. CASE q = p
      <3>1. Doomed(p, i.n)
        BY <1>2, <2>1 DEF Allowed
      <3>2. info'[q].n = i.n
        BY <1>2, <2>1
      <3> QED BY <1>2, <1>3, <1>5, <2>1, <3>1, <3>2 DEF Doomed, Alive
    <2>2. CASE q # p
      <3>1. Unlinks(q) /\ info'[q] = info[q] /\ dpc'[q] = dpc[q]
        BY <1>2, <2>2 DEF Unlinks
      <3>2. Doomed(q, info[q].n)
        BY <3>1 DEF DotInv, UnlinksDoomed
      <3>3. CASE Exists
        BY <1>3, <1>5, <3>1, <3>2, <3>3 DEF Doomed
      <3>4. CASE ~Exists
        <4>1. dpc[p] = "wait" /\ info[p].overrode /\ info[p].n = info[q].n
          BY <1>1, <2>2, <3>2, <3>4 DEF Doomed, Alive
        <4>2. ~Slept(p)
          BY <2>2, <3>1, <4>1 DEF Slept, Unlinks, TwoContend
        <4>3. dpc'[p] = "dead"
          BY <1>2, <4>1, <4>2 DEF Allowed
        <4> QED BY <1>2, <3>1, <3>2, <3>4, <4>3 DEF Doomed, Alive
      <3> QED BY <3>3, <3>4
    <2> QED BY <2>1, <2>2
  <1> QED BY <1>4, <1>6, <1>7, <1>8, <1>9 DEF DotInv

\* update_lock_info() and the part of check_lock() up to the pid.
LEMMA StatKeeps ==
  ASSUME TwoContend, DotInv, NEW p \in Procs, Stat(p)
  PROVE  DotInv'
  <1> DEFINE old == info[p]
             again == lock.n = old.n /\ old.pid_read
             b == lock.stale
             k == lock.n
             gone == [old EXCEPT !.overrode = FALSE]
             seen == [old EXCEPT !.n = k, !.stale = b, !.overrode = FALSE]
             other == [seen EXCEPT !.pid_read = FALSE, !.have_pid = FALSE]
  <1>1. /\ dpc[p] = "stat" /\ Alive(p) /\ UNCHANGED <<lock, mine, made>> /\ old \in InfoRec
        /\ made \in Nat /\ old.n <= made
    BY DEF Stat, DotInv, DotTypes, Alive
  <1>2. /\ Exists => k \in Nat /\ b \in BOOLEAN /\ k <= made
        /\ Exists /\ b => dpc[lock.owner] = "dead"
    BY DEF DotInv, DotTypes, DeadStay, Exists, LockRec
  <1>3. \/ ~Exists /\ Goto(p, "create") /\ info' = [info EXCEPT ![p].overrode = FALSE]
        \/ Exists /\ Goto(p, "read") /\ info' = [info EXCEPT ![p] = seen]
        \/ Exists /\ Goto(p, IF b THEN "unlink" ELSE "wait")
           /\ (info' = [info EXCEPT ![p] = seen] \/ info' = [info EXCEPT ![p] = other])
    BY DEF Stat
  <1>4. CASE ~Exists
    <2>1. dpc' = [dpc EXCEPT ![p] = "create"] /\ info' = [info EXCEPT ![p] = gone]
      BY <1>3, <1>4 DEF Goto
    <2>2. gone \in InfoRec /\ gone.n = old.n
      BY <1>1 DEF InfoRec
    <2> HIDE DEF gone
    <2>3. Allowed(p, "create", gone)
      BY <1>1, <2>2 DEF Allowed, Labels
    <2> QED BY <1>1, <2>1, <2>3, LockAlone
  <1>5. CASE Exists
    <2>1. k \in Nat /\ b \in BOOLEAN /\ k <= made /\ (b => Doomed(p, k))
      BY <1>2, <1>5 DEF Doomed
    <2> DEFINE l == IF b THEN "unlink" ELSE "wait"
    <2>2. \/ dpc' = [dpc EXCEPT ![p] = "read"] /\ info' = [info EXCEPT ![p] = seen]
          \/ dpc' = [dpc EXCEPT ![p] = l] /\ info' = [info EXCEPT ![p] = seen]
          \/ dpc' = [dpc EXCEPT ![p] = l] /\ info' = [info EXCEPT ![p] = other]
      BY <1>3, <1>5 DEF Goto
    <2> HIDE DEF k, b
    <2>3. seen \in InfoRec /\ seen.n = k /\ seen.stale = b
      BY <1>1, <2>1 DEF InfoRec
    <2> HIDE DEF seen
    <2>4. other \in InfoRec /\ other.n = k
      BY <2>3 DEF InfoRec
    <2> HIDE DEF other
    <2>5. /\ Allowed(p, "read", seen) /\ Allowed(p, l, seen) /\ Allowed(p, l, other)
      BY <1>1, <2>1, <2>3, <2>4 DEF Allowed, Labels
    <2> HIDE DEF l
    <2> QED BY <1>1, <2>2, <2>5, LockAlone
  <1> QED BY <1>4, <1>5

\* read_local_pid().
LEMMA ReadPidKeeps ==
  ASSUME TwoContend, DotInv, NEW p \in Procs, ReadPid(p)
  PROVE  DotInv'
  <1> DEFINE old == info[p]
             known == Exists /\ SameHost(p, lock.owner)
             pid == IF known THEN lock.owner ELSE "none"
             i == [old EXCEPT !.pid_read = TRUE, !.have_pid = known, !.pid = pid]
             l == IF known THEN "kill" ELSE IF old.stale THEN "unlink" ELSE "wait"
  <1>1. /\ dpc[p] = "read" /\ Alive(p) /\ UNCHANGED <<lock, mine, made>> /\ old \in InfoRec
        /\ made \in Nat /\ old.n <= made
    BY DEF ReadPid, DotInv, DotTypes, Alive
  <1>2. known \in BOOLEAN /\ pid \in Procs \cup {"none"} /\ (known => Exists /\ pid = lock.owner)
        /\ (known => pid \in Procs)
    BY DEF SameHost, DotInv, DotTypes, LockRec, Exists
  <1>3. dpc' = [dpc EXCEPT ![p] = l] /\ info' = [info EXCEPT ![p] = i]
    <2>1. /\ dpc' = [dpc EXCEPT ![p] = l]
          /\ info' = [info EXCEPT ![p].pid_read = TRUE, ![p].have_pid = known, ![p].pid = pid]
      BY DEF ReadPid, Goto
    <2>2. info \in [Procs -> InfoRec]
      BY DEF DotInv, DotTypes
    <2> HIDE DEF known, pid
    <2> QED BY <2>1, <2>2
  <1>4. old.stale => Doomed(p, old.n)
    BY <1>1 DEF DotInv, UnlinksDoomed, Unlinks
  <1>5. known => PidFits(old.n, pid)
    BY <1>2 DEF PidFits
  <1> HIDE DEF known, pid
  <1>6. i \in InfoRec /\ i.n = old.n /\ i.stale = old.stale /\ i.pid = pid
    BY <1>1, <1>2 DEF InfoRec
  <1> HIDE DEF i
  <1>7. Allowed(p, l, i)
    BY <1>1, <1>4, <1>5, <1>6 DEF Allowed, Labels
  <1> HIDE DEF l
  <1> QED BY <1>1, <1>3, <1>7, LockAlone

\* kill(pid, 0) and the second look at the lock in check_lock().
LEMMA KillRestatKeep ==
  ASSUME TwoContend, DotInv, NEW p \in Procs, Kill(p) \/ Restat(p)
  PROVE  DotInv'
  <1> DEFINE old == info[p]
             i == [old EXCEPT !.n = IF Exists THEN lock.n ELSE old.n]
  <1>1. /\ dpc[p] \in {"kill", "restat"} /\ Alive(p) /\ UNCHANGED <<lock, mine, made>>
        /\ old \in InfoRec /\ made \in Nat /\ old.n <= made /\ info \in [Procs -> InfoRec]
        /\ PidFits(old.n, old.pid)
    BY DEF Kill, Restat, DotInv, DotTypes, Alive, PidOfLock
  <1>2. CASE Kill(p)
    <2> DEFINE l == IF Alive(old.pid) THEN "wait" ELSE "restat"
    <2>1. /\ dpc[p] = "kill" /\ dpc' = [dpc EXCEPT ![p] = l] /\ info' = info
      BY <1>2 DEF Kill, Goto
    <2>2. info' = [info EXCEPT ![p] = old]
      BY <1>1, <2>1
    <2>3. Allowed(p, l, old)
      BY <1>1, <2>1 DEF Allowed, Labels, Alive
    <2> HIDE DEF l
    <2> QED BY <1>1, <2>1, <2>2, <2>3, LockAlone
  <1>3. CASE Restat(p)
    <2> DEFINE l == IF Exists /\ lock.n = old.n THEN "unlink" ELSE "create"
    <2>1. /\ dpc[p] = "restat" /\ dpc' = [dpc EXCEPT ![p] = l] /\ info' = [info EXCEPT ![p] = i]
      BY <1>3 DEF Restat, Goto
    <2>2. dpc[old.pid] = "dead"
      BY <2>1 DEF DotInv, PidOfLock
    <2>3. l = "unlink" => Doomed(p, old.n) /\ (IF Exists THEN lock.n ELSE old.n) = old.n
      BY <1>1, <2>2 DEF PidFits, Doomed
    <2>4. (IF Exists THEN lock.n ELSE old.n) \in Nat /\ (IF Exists THEN lock.n ELSE old.n) <= made
      BY <1>1, InfoFields DEF DotInv, DotTypes, LockRec, Exists
    <2>5. i \in InfoRec /\ i.n = IF Exists THEN lock.n ELSE old.n
      <3> DEFINE k == IF Exists THEN lock.n ELSE old.n
      <3>1. k \in Nat
        BY <2>4
      <3> HIDE DEF k
      <3>2. [old EXCEPT !.n = k] \in InfoRec /\ [old EXCEPT !.n = k].n = k
        BY <1>1, <3>1 DEF InfoRec
      <3> QED BY <3>2 DEF k
    <2> HIDE DEF i
    <2>6. Allowed(p, l, i)
      BY <2>1, <2>3, <2>4, <2>5 DEF Allowed, Labels
    <2> HIDE DEF l
    <2> QED BY <1>1, <2>1, <2>6, LockAlone
  <1> QED BY <1>2, <1>3

\* Steps that only go on: the lock was looked at before, or is p's own.
LEMMA GoOnKeeps ==
  ASSUME TwoContend, DotInv, NEW p \in Procs,
         \/ Start(p) \/ Wait(p) \/ Timeout(p) \/ Verify(p) \/ DeleteStat(p) \/ Crash(p)
         \/ try_create_lock_hardlink(p) /\ Exists
  PROVE  DotInv'
  <1>1. /\ info[p] \in InfoRec /\ made \in Nat /\ info[p].n <= made /\ info \in [Procs -> InfoRec]
    BY DEF DotInv, DotTypes
  <1>2. /\ Alive(p) /\ UNCHANGED <<lock, mine, made>>
        /\ \E l \in Labels, i \in {info[p], NoInfo} :
             /\ dpc' = [dpc EXCEPT ![p] = l] /\ info' = [info EXCEPT ![p] = i]
             /\ Allowed(p, l, i)
    <2>1. CASE Start(p)
      <3>1. /\ dpc[p] = "idle" /\ dpc' = [dpc EXCEPT ![p] = "stat"] /\ info' = info
            /\ UNCHANGED <<lock, mine, made>>
        BY <2>1 DEF Start, Goto
      <3>2. info' = [info EXCEPT ![p] = info[p]]
        BY <1>1, <3>1
      <3>3. Allowed(p, "stat", info[p]) /\ "stat" \in Labels
        BY <1>1, <3>1 DEF Allowed, Labels
      <3> QED BY <3>1, <3>2, <3>3 DEF Alive
    <2>2. CASE Wait(p)
      <3>1. /\ dpc[p] = "wait" /\ Slept(p) /\ dpc' = [dpc EXCEPT ![p] = "stat"] /\ info' = info
            /\ UNCHANGED <<lock, mine, made>>
        BY <2>2 DEF Wait, Goto
      <3>2. info' = [info EXCEPT ![p] = info[p]]
        BY <1>1, <3>1
      <3>3. Allowed(p, "stat", info[p]) /\ "stat" \in Labels
        BY <1>1, <3>1 DEF Allowed, Labels
      <3> QED BY <3>1, <3>2, <3>3 DEF Alive
    <2>3. CASE Timeout(p)
      <3>1. /\ dpc[p] = "wait" /\ Slept(p) /\ dpc' = [dpc EXCEPT ![p] = "idle"]
            /\ info' = [info EXCEPT ![p] = NoInfo] /\ UNCHANGED <<lock, mine, made>>
        BY <2>3 DEF Timeout, Goto, TwoContend
      <3>2. Allowed(p, "idle", NoInfo) /\ "idle" \in Labels
        BY <1>1, <3>1, NoInfoType DEF Allowed, Labels
      <3> QED BY <3>1, <3>2 DEF Alive
    <2>4. CASE Verify(p) \/ DeleteStat(p)
      <3>1. PICK l \in {"hold", "delete", "idle"} :
              /\ dpc[p] \in {"verify", "hold"} /\ dpc' = [dpc EXCEPT ![p] = l] /\ info' = info
              /\ UNCHANGED <<lock, mine, made>>
        BY <2>4 DEF Verify, DeleteStat, Goto
      <3>2. info' = [info EXCEPT ![p] = info[p]]
        BY <1>1, <3>1
      <3>3. Allowed(p, l, info[p]) /\ l \in Labels
        BY <1>1, <3>1 DEF Allowed, Labels, DotInv, HolderHasLock
      <3> QED BY <3>1, <3>2, <3>3 DEF Alive
    <2>5. CASE Crash(p)
      <3>1. /\ dpc[p] # "dead" /\ dpc' = [dpc EXCEPT ![p] = "dead"] /\ info' = info
            /\ UNCHANGED <<lock, mine, made>>
        BY <2>5 DEF Crash, Goto
      <3>2. info' = [info EXCEPT ![p] = info[p]]
        BY <1>1, <3>1
      <3>3. Allowed(p, "dead", info[p]) /\ "dead" \in Labels
        BY <1>1, <3>1 DEF Allowed, Labels
      <3> QED BY <3>1, <3>2, <3>3 DEF Alive
    <2>6. CASE try_create_lock_hardlink(p) /\ Exists
      <3>1. /\ dpc[p] = "create" /\ dpc' = [dpc EXCEPT ![p] = "wait"]
            /\ info' = [info EXCEPT ![p] = info[p]] /\ UNCHANGED <<lock, mine, made>>
        BY <2>6 DEF try_create_lock_hardlink, Goto
      <3>2. Allowed(p, "wait", info[p]) /\ "wait" \in Labels
        BY <1>1, <3>1 DEF Allowed, Labels
      <3> QED BY <3>1, <3>2 DEF Alive
    <2> QED BY <2>1, <2>2, <2>3, <2>4, <2>5, <2>6
  <1> QED BY <1>2, LockAlone

\* The lock is unlinked: nobody has it, and the one other process that is about to
\* unlink it too waits for p, which sleeps.
LEMMA OverrideKeeps ==
  ASSUME TwoContend, DotInv, NEW p \in Procs, Override(p)
  PROVE  DotInv'
  <1> DEFINE i == [info[p] EXCEPT !.overrode = TRUE]
  <1>1. /\ dpc[p] = "unlink" /\ Alive(p) /\ lock' = NoLock /\ dpc' = [dpc EXCEPT ![p] = "wait"]
        /\ info' = [info EXCEPT ![p] = i] /\ mine' = mine /\ made' = made
        /\ dpc \in [Procs -> Labels] /\ info \in [Procs -> InfoRec] /\ ~Exists'
    BY DEF Override, Goto, Alive, DotInv, DotTypes, Exists
  <1>2. i \in InfoRec /\ i.n = info[p].n /\ i.overrode = TRUE
    BY <1>1 DEF InfoRec
  <1> HIDE DEF i
  <1>3. /\ dpc'[p] = "wait" /\ info'[p] = i
        /\ \A q \in Procs \ {p} : dpc'[q] = dpc[q] /\ info'[q] = info[q]
    BY <1>1
  <1>4. \A q \in Procs : dpc[q] = "dead" => dpc'[q] = "dead"
    BY <1>1, <1>3
  <1>5. Doomed(p, info[p].n)
    BY <1>1 DEF DotInv, UnlinksDoomed, Unlinks
  <1>6. DotTypes'
    <2>1. dpc' \in [Procs -> Labels] /\ info' \in [Procs -> InfoRec]
      BY <1>1, <1>2 DEF Labels
    <2>2. \A q \in Procs : info'[q].n <= made
      BY <1>2, <1>3 DEF DotInv, DotTypes
    <2> QED BY <1>1, <2>1, <2>2 DEF DotInv, DotTypes
  <1>7. DeadStay'
    BY <1>1, <1>4, DotAssumption DEF DotInv, DeadStay
  <1>8. HolderHasLock'
    <2>1. \A q \in Procs : dpc[q] \notin {"verify", "hold", "delete"}
      BY <1>5 DEF DotInv, HolderHasLock, Doomed
    <2> QED BY <1>3, <2>1 DEF HolderHasLock
  <1>9. PidOfLock'
    <2> SUFFICES ASSUME NEW q \in Procs, dpc'[q] \in {"kill", "restat"}
                 PROVE  info'[q].pid \in Procs /\ (dpc'[q] = "restat" => dpc'[info'[q].pid] = "dead")
      BY <1>1 DEF PidOfLock, PidFits
    <2>1. q # p /\ dpc'[q] = dpc[q] /\ info'[q] = info[q]
      BY <1>3
    <2> QED BY <1>4, <2>1 DEF DotInv, PidOfLock, PidFits
  <1>10. UnlinksDoomed'
    <2> SUFFICES ASSUME NEW q \in Procs,
                        dpc'[q] = "unlink" \/ (dpc'[q] = "read" /\ info'[q].stale),
                        NEW r \in Procs \ {q}, dpc'[r] # "dead"
                 PROVE  dpc'[r] = "wait" /\ info'[r].overrode /\ info'[r].n = info'[q].n
      BY <1>1 DEF UnlinksDoomed, Unlinks, Doomed, Alive
    <2>1. q # p /\ Unlinks(q) /\ Alive(q) /\ info'[q] = info[q]
      BY <1>3 DEF Unlinks, Alive
    <2>2. Alive(r)
      BY <1>4 DEF Alive
    <2>3. r = p
      BY <1>1, <2>1, <2>2, OneOther
    <2>4. Doomed(q, info[q].n)
      BY <2>1 DEF DotInv, UnlinksDoomed
    <2>5. info[p].n = info[q].n
      BY <1>1, <1>5, <2>1, <2>4 DEF Doomed
    <2> QED BY <1>2, <1>3, <2>1, <2>3, <2>5
  <1> QED BY <1>6, <1>7, <1>8, <1>9, <1>10 DEF DotInv

LEMMA CreateKeeps ==
  ASSUME TwoContend, DotInv, NEW p \in Procs, try_create_lock_hardlink(p), ~Exists
  PROVE  DotInv'
  <1> DEFINE k == made + 1
  <1>1. /\ dpc[p] = "create" /\ lock' = NewLock(k, p) /\ dpc' = [dpc EXCEPT ![p] = "verify"]
        /\ info' = [info EXCEPT ![p] = NoInfo] /\ mine' = [mine EXCEPT ![p] = k] /\ made' = k
        /\ made \in Nat /\ dpc \in [Procs -> Labels] /\ info \in [Procs -> InfoRec]
        /\ mine \in [Procs -> Nat] /\ \A q \in Procs : info[q].n \in Nat /\ info[q].n <= made
    BY InfoFields DEF try_create_lock_hardlink, Goto, DotInv, DotTypes
  <1>2. k \in Nat /\ k > made
    BY <1>1
  <1> HIDE DEF k
  <1>3. /\ lock' \in LockRec /\ lock'.n = k /\ lock'.owner = p /\ ~lock'.stale
    BY <1>1, <1>2 DEF NewLock, LockRec
  <1>4. /\ dpc'[p] = "verify" /\ info'[p] = NoInfo /\ mine'[p] = k
        /\ \A q \in Procs \ {p} : dpc'[q] = dpc[q] /\ info'[q] = info[q] /\ mine'[q] = mine[q]
    BY <1>1
  <1>5. Exists'
    <2>1. NoLock.n = 0
      BY DEF NoLock
    <2>2. lock' # NoLock
      BY <1>1, <1>2, <1>3, <2>1
    <2> QED BY <2>2 DEF Exists
  <1>6. \A q \in Procs : dpc[q] = "dead" => dpc'[q] = "dead"
    BY <1>1, <1>4
  <1>7. DotTypes'
    <2>1. /\ dpc' \in [Procs -> Labels] /\ info' \in [Procs -> InfoRec]
          /\ mine' \in [Procs -> Nat]
      BY <1>1, <1>2, NoInfoType DEF Labels
    <2>2. \A q \in Procs : info'[q].n <= k
      <3> SUFFICES ASSUME NEW q \in Procs PROVE info'[q].n <= k
        OBVIOUS
      <3>1. CASE q = p
        BY <1>2, <1>4, <3>1, NoInfoType
      <3>2. CASE q # p
        BY <1>1, <1>2, <1>4, <3>2
      <3> QED BY <3>1, <3>2
    <2> QED BY <1>1, <1>2, <1>3, <2>1, <2>2 DEF DotTypes
  <1>8. DeadStay'
    BY <1>3, <1>6, DotAssumption DEF DotInv, DeadStay
  <1>9. HolderHasLock'
    <2>1. \A q \in Procs : dpc[q] \notin {"verify", "hold", "delete"}
      BY DEF DotInv, HolderHasLock
    <2> QED BY <1>3, <1>4, <1>5, <2>1 DEF HolderHasLock
  <1>10. PidOfLock'
    <2> SUFFICES ASSUME NEW q \in Procs, dpc'[q] \in {"kill", "restat"}
                 PROVE  /\ info'[q].pid \in Procs /\ lock'.n # info'[q].n
                        /\ dpc'[q] = "restat" => dpc'[info'[q].pid] = "dead"
      BY DEF PidOfLock, PidFits
    <2>1. q # p /\ dpc'[q] = dpc[q] /\ info'[q] = info[q]
      BY <1>4
    <2>2. lock'.n # info'[q].n
      BY <1>1, <1>2, <1>3, <2>1
    <2> QED BY <1>6, <2>1, <2>2 DEF DotInv, PidOfLock, PidFits
  <1>11. UnlinksDoomed'
    <2> SUFFICES ASSUME NEW q \in Procs,
                        dpc'[q] = "unlink" \/ (dpc'[q] = "read" /\ info'[q].stale)
                 PROVE  FALSE
      BY DEF UnlinksDoomed, Unlinks
    <2>1. q # p /\ Unlinks(q)
      BY <1>4 DEF Unlinks
    <2>2. Doomed(q, info[q].n)
      BY <2>1 DEF DotInv, UnlinksDoomed
    <2> QED BY <1>1, <2>1, <2>2 DEF Doomed, Alive
  <1> QED BY <1>7, <1>8, <1>9, <1>10, <1>11 DEF DotInv

LEMMA DeleteKeeps ==
  ASSUME TwoContend, DotInv, NEW p \in Procs, DeleteUnlink(p)
  PROVE  DotInv'
  <1>1. /\ dpc[p] = "delete" /\ lock' = NoLock /\ dpc' = [dpc EXCEPT ![p] = "idle"]
        /\ info' = info /\ mine' = mine /\ made' = made
        /\ dpc \in [Procs -> Labels] /\ info \in [Procs -> InfoRec] /\ ~Exists'
    BY DEF DeleteUnlink, Goto, DotInv, DotTypes, Exists
  <1>2. dpc'[p] = "idle" /\ \A q \in Procs \ {p} : dpc'[q] = dpc[q]
    BY <1>1
  <1>3. \A q \in Procs : dpc[q] = "dead" => dpc'[q] = "dead"
    BY <1>1, <1>2
  <1>4. Exists /\ lock.owner = p
    BY <1>1 DEF DotInv, HolderHasLock
  <1>5. DotTypes'
    <2>1. dpc' \in [Procs -> Labels]
      BY <1>1 DEF Labels
    <2> QED BY <1>1, <2>1 DEF DotInv, DotTypes
  <1>6. DeadStay'
    BY <1>1, <1>3, DotAssumption DEF DotInv, DeadStay
  <1>7. HolderHasLock'
    <2>1. \A q \in Procs \ {p} : dpc[q] \notin {"verify", "hold", "delete"}
      BY <1>4 DEF DotInv, HolderHasLock
    <2> QED BY <1>2, <2>1 DEF HolderHasLock
  <1>8. PidOfLock'
    <2> SUFFICES ASSUME NEW q \in Procs, dpc'[q] \in {"kill", "restat"}
                 PROVE  info[q].pid \in Procs /\ (dpc'[q] = "restat" => dpc'[info[q].pid] = "dead")
      BY <1>1 DEF PidOfLock, PidFits
    <2>1. q # p /\ dpc'[q] = dpc[q]
      BY <1>2
    <2> QED BY <1>3, <2>1 DEF DotInv, PidOfLock, PidFits
  <1>9. UnlinksDoomed'
    <2> SUFFICES ASSUME NEW q \in Procs,
                        dpc'[q] = "unlink" \/ (dpc'[q] = "read" /\ info[q].stale)
                 PROVE  FALSE
      BY <1>1 DEF UnlinksDoomed, Unlinks
    <2>1. q # p /\ Unlinks(q)
      BY <1>2 DEF Unlinks
    <2>2. Doomed(q, info[q].n)
      BY <2>1 DEF DotInv, UnlinksDoomed
    <2> QED BY <1>1, <1>4, <2>2 DEF Doomed
  <1> QED BY <1>5, <1>6, <1>7, <1>8, <1>9 DEF DotInv

LEMMA AgeKeeps ==
  ASSUME DotInv, Age
  PROVE  DotInv'
  <1>1. /\ Exists /\ UNCHANGED <<dpc, info, mine, made>> /\ lock \in LockRec
        /\ \/ lock' = [lock EXCEPT !.young = FALSE]
           \/ ~Alive(lock.owner) /\ lock' = [lock EXCEPT !.stale = TRUE]
    BY DEF Age, DotInv, DotTypes, Exists
  <1>2. /\ lock' \in LockRec /\ lock'.n = lock.n /\ lock'.owner = lock.owner
        /\ lock'.stale => lock.stale \/ ~Alive(lock.owner)
    BY <1>1 DEF LockRec
  <1>3. Exists'
    <2>1. lock'.n # 0 /\ NoLock.n = 0
      BY <1>2 DEF NoLock, LockRec
    <2> QED BY <2>1 DEF Exists
  <1>4. DotTypes'
    BY <1>1, <1>2 DEF DotInv, DotTypes, Exists
  <1>5. DeadStay'
    BY <1>1, <1>2 DEF DotInv, DeadStay, Alive
  <1>6. HolderHasLock'
    BY <1>1, <1>2, <1>3 DEF DotInv, HolderHasLock
  <1>7. PidOfLock'
    BY <1>1, <1>2 DEF DotInv, PidOfLock, PidFits
  <1>8. UnlinksDoomed'
    BY <1>1, <1>2, <1>3 DEF DotInv, UnlinksDoomed, Unlinks, Doomed, Alive
  <1> QED BY <1>4, <1>5, <1>6, <1>7, <1>8 DEF DotInv

LEMMA DotStarts == DotInit => DotInv
  <1> SUFFICES ASSUME DotInit PROVE DotInv
    OBVIOUS
  <1>1. /\ dpc = [p \in Procs |-> IF p \in Crashed THEN "dead" ELSE "idle"]
        /\ info = [p \in Procs |-> NoInfo] /\ mine = [p \in Procs |-> 0] /\ made = lock.n
    BY DEF DotInit
  <1>2. lock = NoLock \/ (lock \in LockRec /\ lock.n = 1 /\ ~lock.stale)
    <2>1. ASSUME NEW p \in Crashed, lock = NewLock(1, p)
          PROVE  lock \in LockRec /\ lock.n = 1 /\ ~lock.stale
      <3>1. p \in Procs
        BY DotAssumption
      <3> QED BY <2>1, <3>1 DEF NewLock, LockRec
    <2> QED BY <2>1 DEF DotInit
  <1>3. made \in Nat /\ NoLock.n = 0
    BY <1>1, <1>2 DEF NoLock
  <1>4. \A p \in Procs : dpc[p] \in {"dead", "idle"} /\ info[p] = NoInfo
    BY <1>1
  <1>5. DotTypes
    BY <1>1, <1>2, <1>3, NoInfoType DEF DotTypes, Labels
  <1>6. DeadStay
    BY <1>1, <1>2, DotAssumption DEF DeadStay, Exists
  <1>7. HolderHasLock /\ PidOfLock /\ UnlinksDoomed
    BY <1>4 DEF HolderHasLock, PidOfLock, UnlinksDoomed, Unlinks
  <1> QED BY <1>5, <1>6, <1>7 DEF DotInv

-----------------------------------------------------------------------------
(* The theorems.                                                           *)

\* A process that has created the lock file (try_create_lock_hardlink()) finds its
\* own file there until it deletes it (file_dotlock_delete()), whoever has found
\* the lock of a dead process stale before (check_lock(), dotlock_override()).
THEOREM LockNotTaken == TwoContend => (DotSpec => []HolderHasLock)
  <1> SUFFICES ASSUME TwoContend PROVE DotSpec => []HolderHasLock
    OBVIOUS
  <1>1. DotInv /\ [DotNext]_dotVars => DotInv'
    <2> SUFFICES ASSUME DotInv, [DotNext]_dotVars PROVE DotInv'
      OBVIOUS
    <2>1. CASE UNCHANGED dotVars
      BY <2>1 DEF dotVars, DotInv, DotTypes, DeadStay, HolderHasLock, PidOfLock, PidFits,
                  UnlinksDoomed, Unlinks, Doomed, Exists, Alive
    <2>2. CASE Age
      BY <2>2, AgeKeeps
    <2>3. ASSUME NEW p \in Procs, Start(p) \/ Trying(p) \/ Holding(p) \/ Timeout(p) \/ Crash(p)
          PROVE  DotInv'
      <3>1. CASE Stat(p)
        BY <3>1, StatKeeps
      <3>2. CASE ReadPid(p)
        BY <3>2, ReadPidKeeps
      <3>3. CASE Kill(p) \/ Restat(p)
        BY <3>3, KillRestatKeep
      <3>4. CASE Override(p)
        BY <3>4, OverrideKeeps
      <3>5. CASE try_create_lock_hardlink(p) /\ ~Exists
        BY <3>5, CreateKeeps
      <3>6. CASE DeleteUnlink(p)
        BY <3>6, DeleteKeeps
      <3>7. CASE \/ Start(p) \/ Wait(p) \/ Timeout(p) \/ Verify(p) \/ DeleteStat(p) \/ Crash(p)
                 \/ try_create_lock_hardlink(p) /\ Exists
        BY <3>7, GoOnKeeps
      <3> QED BY <2>3, <3>1, <3>2, <3>3, <3>4, <3>5, <3>6, <3>7 DEF Trying, Holding
    <2> QED BY <2>1, <2>2, <2>3 DEF DotNext
  <1>2. DotInv => HolderHasLock
    BY DEF DotInv
  <1> QED BY <1>1, <1>2, DotStarts, PTL DEF DotSpec

\* At most one process has the lock, while others find the lock of a dead process
\* stale and unlink it (file_dotlock_create(), check_lock()), with two live
\* processes and any number of dead ones.
THEOREM LockExclusive == TwoContend => (DotSpec => []OneHolder)
  <1> SUFFICES ASSUME TwoContend PROVE DotSpec => []OneHolder
    OBVIOUS
  <1>1. HolderHasLock => OneHolder
    BY DEF HolderHasLock, OneHolder
  <1> QED BY <1>1, LockNotTaken, PTL
=============================================================================
