-------------------------- MODULE ReplicatorProofs --------------------------
(***************************************************************************)
(* Proofs about the replicator, for any users, intervals, requests, number *)
(* of dsync clients and, unless a theorem says otherwise, any environment. *)
(***************************************************************************)
EXTENDS Replicator, FiniteSetTheorems, TLAPS

USE DEF NONE, LOW, HIGH, SYNC

LEMMA MaxAgeNat == MaxAge \in Nat
  BY ConstantsAssumption DEF MaxAge

LEMMA NewUserType == NewUser \in UserRec
  BY MaxAgeNat DEF NewUser, UserRec

LEMMA OlderType ==
  ASSUME NEW rec \in UserRec
  PROVE  /\ Older(rec) \in UserRec
         /\ Older(rec).fast \in 0..MaxAge /\ Older(rec).full \in 0..MaxAge
  <1>1. Older(rec).fast = IF rec.fast < MaxAge THEN rec.fast + 1 ELSE rec.fast
    BY DEF Older, UserRec
  <1>2. Older(rec).full = IF rec.full < MaxAge THEN rec.full + 1 ELSE rec.full
    BY DEF Older, UserRec
  <1>3. rec.fast \in 0..MaxAge /\ rec.full \in 0..MaxAge
    BY DEF UserRec
  <1>4. Older(rec).fast \in 0..MaxAge /\ Older(rec).full \in 0..MaxAge
    BY <1>1, <1>2, <1>3, MaxAgeNat
  <1>5. Older(rec) = [rec EXCEPT !.fast = Older(rec).fast, !.full = Older(rec).full]
    BY DEF Older, UserRec
  <1> QED BY <1>4, <1>5 DEF UserRec

LEMMA SecsLeftType == ASSUME NEW rec \in UserRec PROVE SecsLeft(rec) \in Nat
  BY MaxAgeNat, ConstantsAssumption DEF SecsLeft, UserRec

\* Updates of one field keep a record's type.
LEMMA LookupExcept ==
  ASSUME NEW l \in LookupRec, NEW b \in BOOLEAN, NEW u \in Users \union {Freed}
  PROVE  /\ [l EXCEPT !.wait = b] \in LookupRec
         /\ [l EXCEPT !.fresh = b] \in LookupRec
         /\ [l EXCEPT !.user = u] \in LookupRec
  BY DEF LookupRec

LEMMA UserFields ==
  ASSUME NEW rec \in UserRec
  PROVE  /\ rec.full \in 0..MaxAge /\ 0 \in 0..MaxAge /\ rec.fast \in 0..MaxAge
         /\ rec.popped \in BOOLEAN /\ rec.last_sync_failed \in BOOLEAN
         /\ rec.priority \in NONE..SYNC
  BY MaxAgeNat DEF UserRec

LEMMA UserExcept ==
  ASSUME NEW rec \in UserRec, NEW b \in BOOLEAN
  PROVE  /\ [rec EXCEPT !.last_sync_failed = b] \in UserRec
         /\ [rec EXCEPT !.force_full_sync = b] \in UserRec
         /\ [rec EXCEPT !.popped = b] \in UserRec
  <1>1. [rec EXCEPT !.last_sync_failed = b] \in UserRec
    BY DEF UserRec
  <1>2. [rec EXCEPT !.force_full_sync = b] \in UserRec
    BY DEF UserRec
  <1>3. [rec EXCEPT !.popped = b] \in UserRec
    BY DEF UserRec
  <1> QED BY <1>1, <1>2, <1>3

LEMMA UserAgesExcept ==
  ASSUME NEW rec \in UserRec, NEW full \in 0..MaxAge
  PROVE  /\ [rec EXCEPT !.fast = 0, !.full = full] \in UserRec
         /\ [rec EXCEPT !.popped = TRUE, !.priority = NONE, !.fast = 0,
                        !.full = full, !.force_full_sync = FALSE] \in UserRec
  <1>1. 0 \in 0..MaxAge /\ NONE \in NONE..SYNC
    BY MaxAgeNat
  <1>2. [rec EXCEPT !.fast = 0, !.full = full] \in UserRec
    BY <1>1 DEF UserRec
  <1>3. [rec EXCEPT !.popped = TRUE, !.priority = NONE, !.fast = 0,
                    !.full = full, !.force_full_sync = FALSE] \in UserRec
    BY <1>1 DEF UserRec
  <1> QED BY <1>2, <1>3

LEMMA NotifiedType ==
  ASSUME NEW rec \in UserRec, NEW full \in BOOLEAN
  PROVE  Notified(rec, full) \in UserRec
  <1> DEFINE age == IF full THEN 0 ELSE rec.full
  <1>1. age \in 0..MaxAge
    BY UserFields
  <1>2. Notified(rec, full) = [rec EXCEPT !.fast = 0, !.full = age]
    BY DEF Notified
  <1> HIDE DEF age
  <1> QED BY <1>1, <1>2, UserAgesExcept

\* A client that the brain takes is idle.
LEMMA IdleClientChosen ==
  ASSUME IdleConns # {}
  PROVE  get_dsync_client \in Conns /\ ~clients[get_dsync_client].busy
  BY DEF get_dsync_client, IdleConns

\* What the rest of a handler does to the users: nothing, force a full sync,
\* or note one done by the other side.
LEMMA ReturnUser ==
  ASSUME TypeOK, Return
  PROVE  \/ user' = user
         \/ /\ cont.user \in Users
            /\ \/ user' = [user EXCEPT ![cont.user] =
                              [user[cont.user] EXCEPT !.force_full_sync = TRUE]]
               \/ \E full \in BOOLEAN :
                    user' = [user EXCEPT ![cont.user] =
                               Notified(user[cont.user], full)]
  <1>1. user \in [Users -> UserRec]
    BY DEF TypeOK
  <1>2. \/ user' = user
        \/ user' = [user EXCEPT ![cont.user] =
                       [user[cont.user] EXCEPT !.force_full_sync = TRUE]]
        \/ \E full \in BOOLEAN :
             user' = [user EXCEPT ![cont.user] = Notified(user[cont.user], full)]
    BY DEF Return
  <1>3. CASE cont.user \notin Users
    BY <1>1, <1>2, <1>3
  <1> QED BY <1>2, <1>3

\* Its effect on one user's record.
LEMMA ReturnFields ==
  ASSUME TypeOK, Return, NEW u \in Users
  PROVE  /\ user'[u].popped = user[u].popped
         /\ user'[u].priority = user[u].priority
         /\ user'[u].last_sync_failed = user[u].last_sync_failed
         /\ \/ user'[u].fast = user[u].fast /\ user'[u].full = user[u].full
            \/ user'[u].fast = 0
  <1>1. user \in [Users -> UserRec] /\ user[u] \in UserRec
    BY DEF TypeOK
  <1>2. CASE user' = user \/ u # cont.user
    BY <1>1, <1>2, ReturnUser
  <1>3. CASE user'[u] = [user[u] EXCEPT !.force_full_sync = TRUE]
    BY <1>1, <1>3 DEF UserRec
  <1>4. ASSUME NEW full \in BOOLEAN, user'[u] = Notified(user[u], full)
        PROVE  /\ user'[u].popped = user[u].popped /\ user'[u].fast = 0
               /\ user'[u].priority = user[u].priority
               /\ user'[u].last_sync_failed = user[u].last_sync_failed
    BY <1>1, <1>4 DEF UserRec, Notified
  <1> QED BY <1>1, <1>2, <1>3, <1>4, ReturnUser

LEMMA ExportType ==
  ASSUME NEW S \in SUBSET Users, NEW rec \in [Users -> UserRec]
  PROVE  Export(rec, S) \in [known : SUBSET Users, user : [Users -> UserRec]]
  <1>1. ASSUME NEW u \in Users
        PROVE  [rec[u] EXCEPT !.popped = FALSE, !.force_full_sync = FALSE]
                 \in UserRec
    BY DEF UserRec
  <1> QED BY <1>1, NewUserType DEF Export

LEMMA DisconnectedFields ==
  ASSUME TypeOK, NEW S
  PROVE  /\ Disconnected(S) \in [Users -> UserRec]
         /\ \A u \in Users :
              /\ Disconnected(S)[u].fast = user[u].fast
              /\ Disconnected(S)[u].full = user[u].full
              /\ Disconnected(S)[u].priority = user[u].priority
              /\ Disconnected(S)[u].last_sync_failed =
                   (u \in S \/ user[u].last_sync_failed)
  <1>1. ASSUME NEW u \in Users
        PROVE  /\ user[u] \in UserRec
               /\ [user[u] EXCEPT !.last_sync_failed = TRUE] \in UserRec
    BY UserExcept DEF TypeOK
  <1>2. Disconnected(S) \in [Users -> UserRec]
    BY <1>1 DEF Disconnected
  <1>3. ASSUME NEW u \in Users
        PROVE  /\ Disconnected(S)[u].fast = user[u].fast
               /\ Disconnected(S)[u].full = user[u].full
               /\ Disconnected(S)[u].priority = user[u].priority
               /\ Disconnected(S)[u].last_sync_failed =
                    (u \in S \/ user[u].last_sync_failed)
    <2>1. CASE u \in S
      BY <1>1, <2>1 DEF Disconnected, UserRec
    <2>2. CASE u \notin S
      BY <1>1, <2>2 DEF Disconnected, UserRec
    <2> QED BY <2>1, <2>2
  <1> QED BY <1>2, <1>3

\* What a clean shutdown writes.
LEMMA DeinitDb ==
  ASSUME main_deinit
  PROVE  \/ db' = db
         \/ db' = Export(Disconnected({clients[c].user : c \in Conns} \ {NULL}), known)
  BY DEF main_deinit

LEMMA TypeInit == Init => TypeOK
  BY ConstantsAssumption, NewUserType
  DEF Init, TypeOK, IdleClient, ClientRec, NoLookup, LookupRec, NoCont, ContRec,
      Conns, Clean, Answers

LEMMA AllocationsType ==
  ASSUME TypeOK, NEW u \in Users, NEW l \in Allocations(u)
  PROVE  l \in [Requests -> LookupRec]
  BY DEF TypeOK, Allocations, LookupRec

LEMMA AddIntType ==
  ASSUME TypeOK, NEW u \in Users, NEW p \in NONE..SYNC,
         replicator_queue_add_int(u, p)
  PROVE  known' \in SUBSET Users /\ user' \in [Users -> UserRec]
  BY DEF TypeOK, replicator_queue_add_int, UserRec

LEMMA PushType ==
  ASSUME TypeOK, NEW S \in SUBSET Users, NEW rec \in [Users -> UserRec],
         replicator_queue_push(rec, S)
  PROVE  /\ user' \in [Users -> UserRec]
         /\ lookups' \in [Requests -> LookupRec]
         /\ answer' \in [Requests -> Answers]
  <1>1. user' \in [Users -> UserRec]
    BY DEF replicator_queue_push, UserRec
  <1>2. lookups' \in [Requests -> LookupRec]
    <2>1. NoLookup \in LookupRec
      BY DEF NoLookup, LookupRec
    <2>2. lookups \in [Requests -> LookupRec]
      BY DEF TypeOK
    <2>3. ASSUME NEW r \in Requests
          PROVE  [lookups[r] EXCEPT !.wait = FALSE] \in LookupRec
      BY <2>2, LookupExcept
    <2> QED BY <2>1, <2>2, <2>3 DEF replicator_queue_push, handle_sync_lookups
  <1>3. answer' \in [Requests -> Answers]
    <2>1. answer \in [Requests -> Answers]
      BY DEF TypeOK
    <2>2. "+" \in Answers /\ "-" \in Answers /\ "early" \in Answers
      BY DEF Answers
    <2> QED BY <2>1, <2>2 DEF replicator_queue_push, handle_sync_lookups
  <1> QED BY <1>1, <1>2, <1>3

LEMMA RemoveType ==
  ASSUME TypeOK, NEW u \in Users, replicator_queue_remove(u)
  PROVE  /\ known' \in SUBSET Users /\ user' \in [Users -> UserRec]
         /\ ordered' \in BOOLEAN /\ lookups' \in [Requests -> LookupRec]
         /\ need' \in [Users -> {Clean, Missing, Carried}]
  <1>1. lookups' \in [Requests -> LookupRec]
    <2>1. lookups \in [Requests -> LookupRec]
      BY DEF TypeOK
    <2>2. ASSUME NEW r \in Requests PROVE [lookups[r] EXCEPT !.user = Freed] \in LookupRec
      BY <2>1 DEF LookupRec
    <2> QED BY <2>1, <2>2 DEF replicator_queue_remove
  <1> QED BY <1>1, NewUserType DEF TypeOK, replicator_queue_remove

LEMMA FillType == ASSUME TypeOK, Fill PROVE TypeOK'
  <1>1. ASSUME NEW u \in Users, FillStart(u) PROVE TypeOK'
    <2> DEFINE full == user[u].full >= FullSyncInterval
               age == IF full \/ user[u].force_full_sync THEN 0 ELSE user[u].full
               rec == [user[u] EXCEPT !.popped = TRUE, !.priority = NONE,
                         !.fast = 0, !.full = age, !.force_full_sync = FALSE]
    <2>1. user' \in [Users -> UserRec]
      <3>1. user \in [Users -> UserRec] /\ user' = [user EXCEPT ![u] = rec]
        BY <1>1 DEF FillStart, TypeOK
      <3>2. age \in 0..MaxAge
        BY <3>1, UserFields
      <3>3. rec \in UserRec
        BY <3>1, <3>2, UserAgesExcept
      <3> QED BY <3>1, <3>3
    <2>2. clients' \in [Conns -> ClientRec]
      BY <1>1, IdleClientChosen DEF FillStart, TypeOK, ClientRec
    <2>3. lookups' \in [Requests -> LookupRec]
      BY <1>1, LookupExcept DEF FillStart, TypeOK
    <2>4. need' \in [Users -> {Clean, Missing, Carried}]
      BY <1>1 DEF FillStart, TypeOK
    <2> QED BY <1>1, <2>1, <2>2, <2>3, <2>4 DEF FillStart, TypeOK
  <1>2. ASSUME NEW u \in Users, FillFull(u) PROVE TypeOK'
    <2>1. user \in [Users -> UserRec] /\ {u} \in SUBSET Users
      BY DEF TypeOK
    <2>2. replicator_queue_push(user, {u})
      BY <1>2 DEF FillFull
    <2>3. pc' \in {"return", "fault"} /\ fault' \in {fault, "lookup_priority"}
      BY <1>2 DEF FillFull, AssertThen
    <2> QED BY <1>2, <2>1, <2>2, <2>3, PushType DEF FillFull, TypeOK
  <1>3. ASSUME NEW u \in Users, FillWait(u) PROVE TypeOK'
    BY <1>3, SecsLeftType DEF FillWait, ArmTimer, TypeOK
  <1>4. ASSUME FillEmpty PROVE TypeOK'
    BY <1>4, ConstantsAssumption DEF FillEmpty, ArmTimer, TypeOK
  <1>5. ASSUME Return PROVE TypeOK'
    <2>1. user' \in [Users -> UserRec]
      <3>1. user \in [Users -> UserRec]
        BY DEF TypeOK
      <3>2. ASSUME NEW u \in Users, NEW full \in BOOLEAN
            PROVE  /\ [user[u] EXCEPT !.force_full_sync = TRUE] \in UserRec
                   /\ Notified(user[u], full) \in UserRec
        BY <3>1, UserExcept, NotifiedType
      <3> QED BY <1>5, <3>1, <3>2, ReturnUser
    <2>2. clients' \in [Conns -> ClientRec]
      BY <1>5 DEF Return, TypeOK, ClientRec, IdleClient
    <2>3. cont' \in ContRec
      <3>1. cont \in ContRec /\ NoCont \in ContRec
        BY ConstantsAssumption DEF TypeOK, NoCont, ContRec
      <3>2. [cont EXCEPT !.op = "free"] \in ContRec
        BY <3>1 DEF ContRec
      <3> QED BY <1>5, <3>1, <3>2 DEF Return
    <2> QED BY <1>5, <2>1, <2>2, <2>3 DEF Return, TypeOK
  <1> QED BY <1>1, <1>2, <1>3, <1>4, <1>5 DEF Fill

LEMMA CommandType == ASSUME TypeOK, Command PROVE TypeOK'
  <1>1. ASSUME NEW u \in Users, NEW p \in NONE..SYNC PROVE
          /\ NotifyUpdate(u, p) => TypeOK'
          /\ client_input_replicate(u, p) => TypeOK'
    <2>1. ASSUME replicator_queue_add_int(u, p), lookups' \in Allocations(u),
                 Reported(u, p)
          PROVE  /\ known' \in SUBSET Users /\ user' \in [Users -> UserRec]
                 /\ lookups' \in [Requests -> LookupRec]
                 /\ need' \in [Users -> {Clean, Missing, Carried}]
      BY <2>1, AddIntType, AllocationsType DEF Reported, TypeOK
    <2>2. NoCont \in ContRec /\ [op |-> "force", user |-> u, conn |-> 0] \in ContRec
      BY ConstantsAssumption DEF NoCont, ContRec
    <2>3. NotifyUpdate(u, p) => TypeOK'
      BY <2>1, <2>2 DEF NotifyUpdate, ThenFill, TypeOK
    <2>4. client_input_replicate(u, p) => TypeOK'
      BY <2>1, <2>2 DEF client_input_replicate, ThenFill, TypeOK
    <2> QED BY <2>3, <2>4
  <1>2. ASSUME NEW u \in Users, NEW r \in Requests, NotifySync(u, r) PROVE TypeOK'
    <2>1. known' \in SUBSET Users /\ user' \in [Users -> UserRec]
      BY <1>2, AddIntType DEF NotifySync
    <2>2. lookups' \in [Requests -> LookupRec]
      <3>1. PICK l \in Allocations(u) :
              lookups' = [l EXCEPT ![r] = [name |-> u, user |-> u,
                            wait |-> wait_for_next_push(u), fresh |-> FALSE]]
        BY <1>2 DEF NotifySync
      <3>2. wait_for_next_push(u) \in BOOLEAN
        BY DEF wait_for_next_push, TypeOK, UserRec
      <3> QED BY <3>1, <3>2, AllocationsType DEF LookupRec
    <2>3. cont' \in ContRec
      BY <1>2, ConstantsAssumption DEF NotifySync, ThenFill, NoCont, ContRec
    <2> QED BY <1>2, <2>1, <2>2, <2>3 DEF NotifySync, ThenFill, Reported, TypeOK
  <1>3. ASSUME NEW u \in Users, client_input_remove(u) PROVE TypeOK'
    <2>1. clients' \in [Conns -> ClientRec]
      BY <1>3 DEF client_input_remove, TypeOK, ClientRec
    <2>2. cont' \in ContRec
      BY <1>3, ConstantsAssumption DEF client_input_remove, ThenFill, NoCont, ContRec
    <2> QED BY <1>3, <2>1, <2>2, RemoveType DEF client_input_remove, ThenFill, TypeOK
  <1>4. ASSUME NEW u \in Users, NEW full \in BOOLEAN, client_input_notify(u, full)
        PROVE  TypeOK'
    <2>1. known' \in SUBSET Users /\ user' \in [Users -> UserRec]
      BY <1>4, AddIntType DEF client_input_notify
    <2>2. lookups' \in [Requests -> LookupRec]
      BY <1>4, AllocationsType DEF client_input_notify
    <2>3. cont' \in ContRec
      BY <1>4, ConstantsAssumption DEF client_input_notify, ThenFill, ContRec
    <2> QED BY <1>4, <2>1, <2>2, <2>3 DEF client_input_notify, ThenFill, TypeOK
  <1>5. UpdatePriorities \subseteq NONE..SYNC /\ NONE \in NONE..SYNC
    BY ConstantsAssumption
  <1> QED BY <1>1, <1>2, <1>3, <1>4, <1>5 DEF Command, client_input_add

LEMMA ProcessType == ASSUME TypeOK, Process PROVE TypeOK'
  <1>1. ASSUME Gone
        PROVE  /\ known' \in SUBSET Users /\ user' \in [Users -> UserRec]
               /\ ordered' \in BOOLEAN /\ clients' \in [Conns -> ClientRec]
               /\ to' \in Nat \union {NULL} /\ lookups' \in [Requests -> LookupRec]
               /\ cont' \in ContRec
    BY <1>1, NewUserType, ConstantsAssumption
    DEF Gone, IdleClient, ClientRec, NoLookup, LookupRec, NoCont, ContRec
  <1>2. ASSUME main_init PROVE TypeOK'
    <2>1. known' \in SUBSET Users /\ user' \in [Users -> UserRec]
      BY <1>2, ConstantsAssumption
      DEF main_init, replicator_queue_import, replicator_queue_add_auth_users, TypeOK
    <2>2. ordered' \in BOOLEAN /\ cont' \in ContRec
      BY <1>2, ConstantsAssumption
      DEF main_init, replicator_queue_import, ThenFill, NoCont, ContRec
    <2> QED BY <1>2, <2>1, <2>2 DEF main_init, ThenFill, TypeOK
  <1>3. ASSUME main_deinit PROVE TypeOK'
    <2>2. db' \in [known : SUBSET Users, user : [Users -> UserRec]]
      <3>1. db' = db \/ \E rec \in [Users -> UserRec] : db' = Export(rec, known)
        BY <1>3, DeinitDb, DisconnectedFields
      <3>2. db \in [known : SUBSET Users, user : [Users -> UserRec]] /\ known \in SUBSET Users
        BY DEF TypeOK
      <3> DEFINE D == [known : SUBSET Users, user : [Users -> UserRec]]
      <3>3. \A rec \in [Users -> UserRec] : Export(rec, known) \in D
        BY <3>2, ExportType
      <3>4. db \in D
        BY <3>2
      <3> HIDE DEF D
      <3>5. db' \in D
        BY <3>1, <3>3, <3>4
      <3> QED BY <3>5 DEF D
    <2>3. answer' \in [Requests -> Answers]
      BY <1>3 DEF main_deinit, TypeOK, Answers
    <2>4. need' \in [Users -> {Clean, Missing, Carried}]
      BY <1>3 DEF main_deinit, TypeOK
    <2>5. /\ pc' \in {"down", "fault"} /\ crashes' \in Nat
          /\ fault' \in {fault, "push_popped", "lookup_priority", "deinit_lookups"}
      BY <1>3 DEF main_deinit, AssertThen, TypeOK
    <2> QED BY <1>1, <1>3, <2>2, <2>3, <2>4, <2>5 DEF main_deinit, TypeOK
  <1>4. ASSUME Crash PROVE TypeOK'
    <2>1. db' \in [known : SUBSET Users, user : [Users -> UserRec]]
      <3>1. user \in [Users -> UserRec] /\ known \in SUBSET Users
        BY DEF TypeOK
      <3>2. db' = db \/ \E S \in SUBSET known : db' = Export(user, S)
        BY <1>4 DEF Crash
      <3> DEFINE D == [known : SUBSET Users, user : [Users -> UserRec]]
      <3>3. \A S \in SUBSET known : Export(user, S) \in D
        BY <3>1, ExportType
      <3>4. db \in D
        BY DEF TypeOK
      <3> HIDE DEF D
      <3>5. db' \in D
        BY <3>2, <3>3, <3>4
      <3> QED BY <3>5 DEF D
    <2>2. need' \in [Users -> {Clean, Missing, Carried}] /\ crashes' \in Nat
      BY <1>4 DEF Crash, TypeOK
    <2> QED BY <1>1, <1>4, <2>1, <2>2 DEF Crash, TypeOK
  <1>5. ASSUME replicator_dump_timeout PROVE TypeOK'
    BY <1>5, ExportType DEF replicator_dump_timeout, TypeOK
  <1> QED BY <1>2, <1>3, <1>4, <1>5 DEF Process

LEMMA RepliedType == ASSUME TypeOK, Replied PROVE TypeOK'
  <1>1. ASSUME NEW c \in Conns, NEW reply \in {"OK", "FAIL", "NOUSER"},
               dsync_callback(c, reply)
        PROVE  TypeOK'
    <2> DEFINE u == clients[c].user
               rec == [user EXCEPT ![u].last_sync_failed = (reply # "OK")]
    <2>1. clients' \in [Conns -> ClientRec]
      BY <1>1 DEF dsync_callback, TypeOK, ClientRec, CallbackClient
    <2>2. cont' \in ContRec
      BY <1>1 DEF dsync_callback, ThenFill, ContRec, Conns
    <2>3. CASE reply = "NOUSER"
      BY <1>1, <2>1, <2>2, <2>3, RemoveType DEF dsync_callback, ThenFill, TypeOK
    <2>4. CASE reply # "NOUSER"
      <3>1. u \in Users /\ rec \in [Users -> UserRec]
        <4>1. u \in Users /\ user \in [Users -> UserRec] /\ user[u] \in UserRec
          BY <1>1 DEF dsync_callback, TypeOK
        <4>2. [user[u] EXCEPT !.last_sync_failed = (reply # "OK")] \in UserRec
          BY <4>1, UserExcept
        <4> QED BY <4>1, <4>2
      <3>2. replicator_queue_push(rec, {u})
        BY <1>1, <2>4 DEF dsync_callback
      <3>3. /\ user' \in [Users -> UserRec]
            /\ lookups' \in [Requests -> LookupRec]
            /\ answer' \in [Requests -> Answers]
        BY <3>1, <3>2, PushType
      <3>4. /\ pc' \in {"fill", "fault"} /\ fault' \in {fault, "lookup_priority"}
            /\ need' \in [Users -> {Clean, Missing, Carried}]
        BY <1>1, <2>4 DEF dsync_callback, AssertThen, TypeOK
      <3> QED BY <1>1, <2>1, <2>2, <2>4, <3>3, <3>4 DEF dsync_callback, TypeOK
    <2> QED BY <2>3, <2>4
  <1>2. ASSUME NEW c \in Conns, DsyncCallbackFreed(c) PROVE TypeOK'
    BY <1>2 DEF DsyncCallbackFreed, TypeOK
  <1> QED BY <1>1, <1>2 DEF Replied

\* The type invariant, for any environment: in particular no timer is armed
\* with a negative delay and no timestamp lies in the future.
THEOREM TypeCorrect == Spec => []TypeOK
  <1>1. TypeOK /\ [Next]_vars => TypeOK'
    <2> SUFFICES ASSUME TypeOK, [Next]_vars PROVE TypeOK'
      OBVIOUS
    <2>1. CASE replicator_brain_timeout
      BY <2>1, ConstantsAssumption
      DEF replicator_brain_timeout, ThenFill, TypeOK, NoCont, ContRec
    <2>2. CASE Tick
      <3>1. user' \in [Users -> UserRec]
        BY <2>2, OlderType DEF Tick, TypeOK
      <3>2. db' \in [known : SUBSET Users, user : [Users -> UserRec]]
        BY <2>2, OlderType DEF Tick, TypeOK
      <3>3. to' \in Nat \union {NULL}
        BY <2>2 DEF Tick, TypeOK
      <3> QED BY <2>2, <3>1, <3>2, <3>3 DEF Tick, TypeOK
    <2>3. CASE UNCHANGED vars
      BY <2>3 DEF vars, TypeOK
    <2> QED BY <2>1, <2>2, <2>3, FillType, CommandType, ProcessType, RepliedType
            DEF Next
  <1> QED BY <1>1, TypeInit, PTL DEF Spec

-----------------------------------------------------------------------------
(* One dsync per user.                                                      *)

\* Why OneSyncPerUser is preserved: a client without a command has no user;
\* the client whose callback is running is neither taken nor given a user;
\* the file holds no popped user and a process that is down no client.
SyncInv ==
  /\ OneSyncPerUser
  /\ \A c \in Conns : ~clients[c].busy => clients[c].user = NULL
  /\ cont.op \in {"free", "nouser"} =>
       cont.conn \in Conns /\ clients[cont.conn] = CallbackClient
  /\ \A u \in Users : ~db.user[u].popped
  /\ pc = "down" => \A c \in Conns : clients[c] = IdleClient

LEMMA NullIsNoUser == ASSUME NEW u \in Users PROVE u # NULL /\ u # Freed
  BY ConstantsAssumption

LEMMA SyncInvInit == Init => SyncInv
  BY ConstantsAssumption
  DEF Init, SyncInv, OneSyncPerUser, Running, IdleClient, NewUser, NoCont

\* Steps that leave popped, the clients and the file alone.
LEMMA SyncInvFrame ==
  ASSUME TypeOK, SyncInv, UNCHANGED <<clients, db>>,
         \A u \in Users : user'[u].popped = user[u].popped,
         pc' # "down" \/ pc' = pc,
         cont'.op \notin {"free", "nouser"} \/ cont' = cont
  PROVE  SyncInv'
  BY DEF SyncInv, OneSyncPerUser, Running

LEMMA SyncInvFillStart ==
  ASSUME TypeOK, SyncInv, NEW u \in Users, FillStart(u)
  PROVE  SyncInv'
  <1> DEFINE c == get_dsync_client
  <1>1. c \in Conns /\ ~clients[c].busy /\ clients[c].user = NULL
    BY IdleClientChosen DEF FillStart, SyncInv
  <1>2. /\ clients' \in [Conns -> ClientRec]
        /\ clients'[c].user = u /\ clients'[c].busy
        /\ \A d \in Conns : d # c => clients'[d] = clients[d]
    BY <1>1, FillType DEF FillStart, TypeOK, Fill
  <1>3. ~user[u].popped /\ u \in known
    BY DEF FillStart, Heads, Queue
  <1>4. /\ user'[u].popped
        /\ \A v \in Users : v # u => user'[v] = user[v]
    BY DEF FillStart, TypeOK, UserRec
  <1>5. /\ Running(u)' = {c}
        /\ \A v \in Users : v # u => Running(v)' = Running(v)
    <2>1. Running(u) = {}
      BY <1>3 DEF SyncInv, OneSyncPerUser
    <2>2. ASSUME NEW v \in Users PROVE v # NULL
      BY ConstantsAssumption
    <2> QED BY <1>1, <1>2, <2>1, <2>2 DEF Running
  <1>6. OneSyncPerUser'
    BY <1>4, <1>5 DEF SyncInv, OneSyncPerUser
  <1>7. cont.op \in {"free", "nouser"} => cont.conn # c
    BY <1>1 DEF SyncInv, CallbackClient
  <1>8. UNCHANGED <<pc, db, cont>> /\ pc = "fill"
    BY DEF FillStart
  <1> QED BY <1>1, <1>2, <1>6, <1>7, <1>8 DEF SyncInv

LEMMA SyncInvReturn == ASSUME TypeOK, SyncInv, Return PROVE SyncInv'
  <1>1. \A u \in Users : user'[u].popped = user[u].popped
    BY ReturnFields
  <1>2. CASE cont.op # "free"
    <2>1. UNCHANGED <<clients, db>> /\ pc' # "down"
      BY <1>2 DEF Return
    <2>2. cont'.op \in {"free", "nouser"} => cont.op = "nouser" /\ cont'.conn = cont.conn
      BY <1>2 DEF Return, NoCont, TypeOK, ContRec
    <2> QED BY <1>1, <2>1, <2>2 DEF SyncInv, OneSyncPerUser, Running
  <1>3. CASE cont.op = "free"
    <2>1. /\ cont.conn \in Conns /\ clients[cont.conn].user = NULL
          /\ clients' = [clients EXCEPT ![cont.conn] = IdleClient]
          /\ cont' = NoCont /\ UNCHANGED db /\ pc' = "idle"
      BY <1>3 DEF Return, SyncInv, CallbackClient
    <2>2. \A d \in Conns : /\ clients'[d].user = clients[d].user
                           /\ ~clients'[d].busy => clients'[d].user = NULL
      BY <2>1 DEF TypeOK, IdleClient, SyncInv
    <2>3. \A u \in Users : Running(u)' = Running(u)
      BY <2>2 DEF Running
    <2> QED BY <1>1, <2>1, <2>2, <2>3 DEF SyncInv, OneSyncPerUser, NoCont
  <1> QED BY <1>2, <1>3

\* A client reports, and its user goes back to the queue or is freed.
LEMMA SyncInvClientDone ==
  ASSUME TypeOK, SyncInv, NEW c \in Conns, clients[c].user \in Users,
         clients' = [clients EXCEPT ![c] = CallbackClient],
         ~user'[clients[c].user].popped,
         \A v \in Users : v # clients[c].user => user'[v] = user[v],
         UNCHANGED db, pc' # "down", cont'.conn = c
  PROVE  SyncInv'
  <1> PICK u \in Users : u = clients[c].user
    OBVIOUS
  <1>1. Running(u) = {c}
    BY DEF SyncInv, OneSyncPerUser, Running
  <1>2. /\ clients'[c] = CallbackClient /\ clients'[c].user = NULL /\ clients'[c].busy
        /\ \A d \in Conns : d # c => clients'[d] = clients[d]
    BY DEF TypeOK, CallbackClient
  <1>3. ASSUME NEW v \in Users PROVE v # NULL
    BY ConstantsAssumption
  <1>4. Running(u)' = {} /\ \A v \in Users : v # u => Running(v)' = Running(v)
    BY <1>1, <1>2, <1>3 DEF Running
  <1>5. OneSyncPerUser'
    BY <1>4 DEF SyncInv, OneSyncPerUser
  <1> QED BY <1>2, <1>5 DEF SyncInv

LEMMA SyncInvReplied == ASSUME TypeOK, SyncInv, Replied PROVE SyncInv'
  <1>1. ASSUME NEW c \in Conns, NEW reply \in {"OK", "FAIL", "NOUSER"},
               dsync_callback(c, reply)
        PROVE  SyncInv'
    <2> DEFINE u == clients[c].user
    <2>1. /\ u \in Users /\ clients' = [clients EXCEPT ![c] = CallbackClient]
          /\ UNCHANGED db /\ pc' # "down" /\ cont'.conn = c
      BY <1>1 DEF dsync_callback, ThenFill, AssertThen
    <2>2. ~user'[u].popped /\ \A v \in Users : v # u => user'[v] = user[v]
      <3>1. CASE reply = "NOUSER"
        BY <1>1, <2>1, <3>1 DEF dsync_callback, replicator_queue_remove, TypeOK, NewUser
      <3>2. CASE reply # "NOUSER"
        <4>1. PICK rec : /\ rec = [user EXCEPT ![u].last_sync_failed = (reply # "OK")]
                         /\ replicator_queue_push(rec, {u})
          BY <1>1, <3>2 DEF dsync_callback
        <4>2. rec[u] \in UserRec /\ \A v \in Users : v # u => rec[v] = user[v]
          BY <2>1, <4>1, UserExcept DEF TypeOK
        <4> QED BY <2>1, <4>1, <4>2 DEF replicator_queue_push, UserRec
      <3> QED BY <3>1, <3>2
    <2> QED BY <2>1, <2>2, SyncInvClientDone
  <1>2. ASSUME NEW c \in Conns, DsyncCallbackFreed(c) PROVE SyncInv'
    BY <1>2, SyncInvFrame DEF DsyncCallbackFreed
  <1> QED BY <1>1, <1>2 DEF Replied

LEMMA AddIntPopped ==
  ASSUME TypeOK, NEW u \in Users, NEW p \in NONE..SYNC,
         replicator_queue_add_int(u, p), NEW v \in Users
  PROVE  /\ user'[v].popped = user[v].popped
         /\ user'[v].last_sync_failed = user[v].last_sync_failed
         /\ user'[v].fast = user[v].fast /\ user'[v].full = user[v].full
         /\ user'[v].priority = IF v = u /\ user[u].priority <= p THEN p
                                ELSE user[v].priority
  BY DEF TypeOK, UserRec, replicator_queue_add_int

LEMMA SyncInvCommand == ASSUME TypeOK, SyncInv, Command PROVE SyncInv'
  <1>1. ASSUME NEW u \in Users, client_input_remove(u) PROVE SyncInv'
    <2>1. /\ ~user'[u].popped /\ \A v \in Users : v # u => user'[v] = user[v]
          /\ UNCHANGED db /\ pc' = "fill" /\ cont'.op = "none"
      BY <1>1 DEF client_input_remove, replicator_queue_remove, TypeOK, NewUser,
                  ThenFill, NoCont
    <2>2. \A c \in Conns : /\ clients'[c].busy = clients[c].busy
                           /\ clients[c].user # u => clients'[c] = clients[c]
                           /\ clients[c].user = u => clients'[c].user = Freed
      BY <1>1 DEF client_input_remove, TypeOK, ClientRec
    <2>3. ASSUME NEW v \in Users PROVE v # NULL /\ v # Freed
      BY ConstantsAssumption
    <2>4. Running(u)' = {} /\ \A v \in Users : v # u => Running(v)' = Running(v)
      BY <2>2, <2>3 DEF Running
    <2>5. OneSyncPerUser'
      BY <2>1, <2>4 DEF SyncInv, OneSyncPerUser
    <2> QED BY <2>1, <2>2, <2>3, <2>5 DEF SyncInv
  <1>2. ASSUME NEW u \in Users, NEW p \in NONE..SYNC,
               replicator_queue_add_int(u, p), UNCHANGED <<clients, db>>,
               pc' = "fill", cont'.op \notin {"free", "nouser"}
        PROVE  SyncInv'
    BY <1>2, AddIntPopped, SyncInvFrame
  <1>3. UpdatePriorities \subseteq NONE..SYNC /\ NONE \in NONE..SYNC /\ SYNC \in NONE..SYNC
    BY ConstantsAssumption
  <1>4. ASSUME NEW u \in Users, NEW p \in NONE..SYNC,
               NotifyUpdate(u, p) \/ client_input_replicate(u, p)
        PROVE  SyncInv'
    BY <1>2, <1>4 DEF NotifyUpdate, client_input_replicate, ThenFill, NoCont
  <1>5. ASSUME NEW u \in Users, NEW r \in Requests, NotifySync(u, r) PROVE SyncInv'
    BY <1>2, <1>3, <1>5 DEF NotifySync, ThenFill, NoCont
  <1>6. ASSUME NEW u \in Users, NEW full \in BOOLEAN, client_input_notify(u, full)
        PROVE  SyncInv'
    BY <1>2, <1>3, <1>6 DEF client_input_notify, ThenFill
  <1> QED BY <1>1, <1>3, <1>4, <1>5, <1>6 DEF Command, client_input_add

LEMMA ExportFields ==
  ASSUME NEW S, NEW rec \in [Users -> UserRec], NEW u \in Users
  PROVE  /\ ~Export(rec, S).user[u].popped
         /\ Export(rec, S).known = S
         /\ u \in S => /\ Export(rec, S).user[u].priority = rec[u].priority
                       /\ Export(rec, S).user[u].last_sync_failed =
                            rec[u].last_sync_failed
                       /\ Export(rec, S).user[u].fast = rec[u].fast
                       /\ Export(rec, S).user[u].full = rec[u].full
         /\ u \notin S => Export(rec, S).user[u] = NewUser
  BY DEF Export, UserRec, NewUser

\* What the state of a dead process is.
LEMMA GoneSyncInv ==
  ASSUME TypeOK, Gone, pc' \in {"down", "fault"},
         \A u \in Users : ~db'.user[u].popped
  PROVE  SyncInv'
  BY ConstantsAssumption
  DEF Gone, SyncInv, OneSyncPerUser, Running, IdleClient, NewUser, NoCont

LEMMA SyncInvProcess == ASSUME TypeOK, SyncInv, Process PROVE SyncInv'
  <1>1. ASSUME main_init PROVE SyncInv'
    <2>1. /\ pc = "down" /\ pc' = "fill" /\ cont'.op = "none"
          /\ UNCHANGED <<clients, db>> /\ user' = db.user
      BY <1>1 DEF main_init, replicator_queue_import, ThenFill, NoCont
    <2>2. \A u \in Users : Running(u) = {} /\ ~user'[u].popped
      BY <2>1, ConstantsAssumption DEF SyncInv, Running, IdleClient
    <2> QED BY <2>1, <2>2 DEF SyncInv, OneSyncPerUser, Running
  <1>2. ASSUME main_deinit PROVE SyncInv'
    <2>1. db' = db \/ \E rec \in [Users -> UserRec] : db' = Export(rec, known)
      BY <1>2, DeinitDb, DisconnectedFields
    <2>2. Gone /\ pc' \in {"down", "fault"}
      BY <1>2 DEF main_deinit, AssertThen
    <2>3. \A u \in Users : ~db'.user[u].popped
      BY <2>1, ExportFields DEF SyncInv
    <2> QED BY <2>2, <2>3, GoneSyncInv
  <1>3. ASSUME Crash PROVE SyncInv'
    <2>1. db' = db \/ \E S \in SUBSET known : db' = Export(user, S)
      BY <1>3 DEF Crash
    <2>2. Gone /\ pc' \in {"down", "fault"}
      BY <1>3 DEF Crash
    <2>3. \A u \in Users : ~db'.user[u].popped
      BY <2>1, ExportFields DEF SyncInv, TypeOK
    <2> QED BY <2>2, <2>3, GoneSyncInv
  <1>4. ASSUME replicator_dump_timeout PROVE SyncInv'
    <2>1. /\ UNCHANGED <<user, clients, pc, cont>> /\ db' = Export(user, known)
      BY <1>4 DEF replicator_dump_timeout
    <2>2. \A u \in Users : ~db'.user[u].popped
      BY <2>1, ExportFields DEF TypeOK
    <2> QED BY <2>1, <2>2 DEF SyncInv, OneSyncPerUser, Running
  <1> QED BY <1>1, <1>2, <1>3, <1>4 DEF Process

LEMMA OlderFields ==
  ASSUME NEW rec \in UserRec
  PROVE  /\ Older(rec).popped = rec.popped
         /\ Older(rec).priority = rec.priority
         /\ Older(rec).last_sync_failed = rec.last_sync_failed
         /\ rec.fast <= rec.full => Older(rec).fast <= Older(rec).full
  <1>1. /\ Older(rec).popped = rec.popped
        /\ Older(rec).priority = rec.priority
        /\ Older(rec).last_sync_failed = rec.last_sync_failed
        /\ Older(rec).fast = IF rec.fast < MaxAge THEN rec.fast + 1 ELSE rec.fast
        /\ Older(rec).full = IF rec.full < MaxAge THEN rec.full + 1 ELSE rec.full
    BY DEF Older, UserRec
  <1>2. rec.fast \in 0..MaxAge /\ rec.full \in 0..MaxAge
    BY UserFields
  <1> QED BY <1>1, <1>2, MaxAgeNat

LEMMA SyncInvNext == ASSUME TypeOK, SyncInv, [Next]_vars PROVE SyncInv'
  <1>1. CASE Fill
    <2>1. ASSUME NEW u \in Users, FillFull(u) PROVE SyncInv'
      <3>1. ~user[u].popped /\ user \in [Users -> UserRec]
        BY <2>1 DEF FillFull, Heads, Queue, TypeOK
      <3>2. \A v \in Users : user'[v].popped = user[v].popped
        BY <2>1, <3>1 DEF FillFull, replicator_queue_push, UserRec
      <3>3. pc' # "down" /\ UNCHANGED <<clients, db, cont>>
        BY <2>1 DEF FillFull, AssertThen
      <3> QED BY <3>2, <3>3, SyncInvFrame
    <2>2. ASSUME NEW u \in Users, FillWait(u) PROVE SyncInv'
      BY <2>2, SyncInvFrame DEF FillWait
    <2>3. ASSUME FillEmpty PROVE SyncInv'
      BY <2>3, SyncInvFrame DEF FillEmpty
    <2> QED BY <1>1, <2>1, <2>2, <2>3, SyncInvFillStart, SyncInvReturn DEF Fill
  <1>2. CASE replicator_brain_timeout
    BY <1>2, SyncInvFrame DEF replicator_brain_timeout, ThenFill, NoCont
  <1>3. CASE Tick
    <2>1. /\ \A u \in Users : /\ user'[u].popped = user[u].popped
                              /\ db'.user[u].popped = db.user[u].popped
          /\ UNCHANGED <<clients, pc, cont>>
      BY <1>3, OlderFields DEF Tick, TypeOK
    <2> QED BY <2>1 DEF SyncInv, OneSyncPerUser, Running
  <1>4. CASE UNCHANGED vars
    BY <1>4 DEF vars, SyncInv, OneSyncPerUser, Running
  <1> QED BY <1>1, <1>2, <1>3, <1>4, SyncInvCommand, SyncInvReplied, SyncInvProcess
          DEF Next

\* A user is out of the queue exactly while one dsync runs for its record,
\* whatever the environment does (pop, push, remove, restart, crash).
THEOREM OneSync == Spec => []OneSyncPerUser
  <1>1. TypeOK /\ SyncInv /\ [Next]_vars => SyncInv'
    BY SyncInvNext
  <1>2. SyncInv => OneSyncPerUser
    BY DEF SyncInv
  <1> QED BY <1>1, <1>2, SyncInvInit, TypeCorrect, PTL DEF Spec

-----------------------------------------------------------------------------
(* last_fast_sync is never older than last_full_sync.                       *)

LEMMA FastFrame ==
  ASSUME TypeOK, FastSyncNotOlder,
         \A u \in Users : \/ user'[u].fast = user[u].fast /\ user'[u].full = user[u].full
                          \/ user'[u].fast = 0 /\ user'[u].full \in Nat
                          \/ user'[u] = NewUser,
         db' = db
  PROVE  FastSyncNotOlder'
  BY MaxAgeNat DEF FastSyncNotOlder, NewUser

LEMMA FastExport ==
  ASSUME FastSyncNotOlder, NEW S, NEW rec \in [Users -> UserRec],
         \A u \in Users : rec[u].fast = user[u].fast /\ rec[u].full = user[u].full
  PROVE  \A u \in Users : Export(rec, S).user[u].fast <= Export(rec, S).user[u].full
  BY ExportFields, MaxAgeNat DEF FastSyncNotOlder, NewUser

LEMMA FastInv == ASSUME TypeOK, TypeOK', FastSyncNotOlder, [Next]_vars
                 PROVE  FastSyncNotOlder'
  <1> USE UserFields
  <1>1. CASE Fill
    <2>1. ASSUME NEW u \in Users, FillStart(u) PROVE FastSyncNotOlder'
      <3>1. /\ user'[u].fast = 0 /\ user'[u].full \in Nat
            /\ \A v \in Users : v # u => user'[v] = user[v]
        BY <2>1 DEF FillStart, TypeOK, UserRec
      <3> QED BY <2>1, <3>1, FastFrame DEF FillStart
    <2>2. ASSUME NEW u \in Users, FillFull(u) PROVE FastSyncNotOlder'
      BY <2>2, FastFrame DEF FillFull, replicator_queue_push, TypeOK, UserRec
    <2>3. ASSUME NEW u \in Users, FillWait(u) \/ FillEmpty PROVE FastSyncNotOlder'
      BY <2>3, FastFrame DEF FillWait, FillEmpty
    <2>4. ASSUME Return PROVE FastSyncNotOlder'
      <3>1. \A u \in Users : user'[u].full \in Nat
        BY MaxAgeNat DEF TypeOK, UserRec
      <3> QED BY <2>4, <3>1, ReturnFields, FastFrame DEF Return
    <2>5. ASSUME FillEmpty PROVE FastSyncNotOlder'
      BY <2>5, FastFrame DEF FillEmpty
    <2> QED BY <1>1, <2>1, <2>2, <2>3, <2>4, <2>5 DEF Fill
  <1>2. CASE Command
    <2>1. ASSUME NEW u \in Users, NEW p \in NONE..SYNC,
                 replicator_queue_add_int(u, p), UNCHANGED db
          PROVE  FastSyncNotOlder'
      BY <2>1, AddIntPopped, FastFrame
    <2>2. ASSUME NEW u \in Users, client_input_remove(u) PROVE FastSyncNotOlder'
      BY <2>2, FastFrame DEF client_input_remove, replicator_queue_remove, TypeOK
    <2>3. UpdatePriorities \subseteq NONE..SYNC /\ NONE \in NONE..SYNC /\ SYNC \in NONE..SYNC
      BY ConstantsAssumption
    <2> QED BY <1>2, <2>1, <2>2, <2>3
            DEF Command, client_input_add, NotifyUpdate, client_input_replicate,
                NotifySync, client_input_notify
  <1>3. CASE Replied
    <2>1. ASSUME NEW c \in Conns, NEW reply \in {"OK", "FAIL", "NOUSER"},
                 dsync_callback(c, reply)
          PROVE  FastSyncNotOlder'
      <3>1. CASE reply = "NOUSER"
        BY <2>1, <3>1, FastFrame DEF dsync_callback, replicator_queue_remove, TypeOK
      <3>2. CASE reply # "NOUSER"
        <4>1. PICK u \in Users :
                replicator_queue_push(
                  [user EXCEPT ![u].last_sync_failed = (reply # "OK")], {u})
          BY <2>1, <3>2 DEF dsync_callback
        <4>2. \A v \in Users : user'[v].fast = user[v].fast /\ user'[v].full = user[v].full
          BY <4>1 DEF replicator_queue_push, TypeOK, UserRec
        <4> QED BY <2>1, <4>2, FastFrame DEF dsync_callback
      <3> QED BY <3>1, <3>2
    <2>2. ASSUME NEW c \in Conns, DsyncCallbackFreed(c) PROVE FastSyncNotOlder'
      BY <2>2, FastFrame DEF DsyncCallbackFreed
    <2> QED BY <1>3, <2>1, <2>2 DEF Replied
  <1>4. CASE Process
    <2>1. ASSUME main_init PROVE FastSyncNotOlder'
      BY <2>1 DEF main_init, replicator_queue_import, FastSyncNotOlder
    <2>2. ASSUME main_deinit PROVE FastSyncNotOlder'
      <3>1. user' = [u \in Users |-> NewUser]
        BY <2>2 DEF main_deinit, Gone
      <3>3. db' = db \/ \E rec \in [Users -> UserRec] :
              /\ db' = Export(rec, known)
              /\ \A u \in Users : rec[u].fast = user[u].fast /\ rec[u].full = user[u].full
        BY <2>2, DeinitDb, DisconnectedFields
      <3>4. \A u \in Users : db'.user[u].fast <= db'.user[u].full
        BY <3>3, FastExport DEF FastSyncNotOlder
      <3> QED BY <3>1, <3>4, MaxAgeNat DEF FastSyncNotOlder, NewUser
    <2>3. ASSUME Crash PROVE FastSyncNotOlder'
      <3>1. user' = [u \in Users |-> NewUser]
        BY <2>3 DEF Crash, Gone
      <3>2. db' = db \/ \E S \in SUBSET known : db' = Export(user, S)
        BY <2>3 DEF Crash
      <3>3. \A u \in Users : db'.user[u].fast <= db'.user[u].full
        BY <3>2, FastExport DEF FastSyncNotOlder, TypeOK
      <3> QED BY <3>1, <3>3, MaxAgeNat DEF FastSyncNotOlder, NewUser
    <2>4. ASSUME replicator_dump_timeout PROVE FastSyncNotOlder'
      <3>1. db' = Export(user, known) /\ user' = user /\ user \in [Users -> UserRec]
        BY <2>4 DEF replicator_dump_timeout, TypeOK
      <3>2. \A u \in Users : db'.user[u].fast <= db'.user[u].full
        BY <3>1, FastExport
      <3> QED BY <3>1, <3>2 DEF FastSyncNotOlder
    <2> QED BY <1>4, <2>1, <2>2, <2>3, <2>4 DEF Process
  <1>5. CASE replicator_brain_timeout
    BY <1>5, FastFrame DEF replicator_brain_timeout
  <1>6. CASE Tick
    BY <1>6, OlderFields DEF Tick, TypeOK, FastSyncNotOlder
  <1>7. CASE UNCHANGED vars
    BY <1>7 DEF vars, FastSyncNotOlder
  <1> QED BY <1>1, <1>2, <1>3, <1>4, <1>5, <1>6, <1>7 DEF Next

\* The comment on struct replicator_user, "last_fast_sync is always >=
\* last_full_sync.", for every environment, in memory and in the file.
THEOREM FastSyncIsNewer == Spec => []FastSyncNotOlder
  <1>1. Init => FastSyncNotOlder
    BY MaxAgeNat DEF Init, FastSyncNotOlder, NewUser
  <1>2. TypeOK /\ TypeOK' /\ FastSyncNotOlder /\ [Next]_vars => FastSyncNotOlder'
    BY FastInv
  <1> QED BY <1>1, <1>2, TypeCorrect, PTL DEF Spec

-----------------------------------------------------------------------------
(* No update is lost and no assertion fails.                                *)

\* The environments in which that holds: the process is not killed, no user
\* is removed while it is being replicated or waited for.
Gentle == Env \intersect {"CRASH", "REMOVE_BUSY", "NOUSER_BUSY"} = {}

\* An update that came during a dsync has left its priority for the next one:
\* the priority was reset when the dsync began, not when it ended.
DuringSync ==
  \A u \in Users :
    user[u].popped /\ need[u] = Missing => user[u].priority # NONE

PoppedKnown == \A u \in Users : user[u].popped => u \in known

\* No pointer dangles, and a lookup that waits for the next push was made
\* while its user was popped, which gave the user priority SYNC.
LookupInv ==
  /\ \A c \in Conns : clients[c].user # Freed
  /\ \A r \in Requests :
       /\ lookups[r].user # Freed
       /\ lookups[r].wait => /\ lookups[r].user \in Users
                             /\ user[lookups[r].user].popped
                             /\ user[lookups[r].user].priority = SYNC

\* The only assertion that can fail is the one at the end of a shutdown,
\* when the file has been written.
FaultInv ==
  /\ pc = "fault" \/ fault # "none" => "STOP_BUSY" \in Env
  /\ pc = "fault" => \A c \in Conns : clients[c].user = NULL

LostInv == NoUpdateLost /\ DuringSync /\ PoppedKnown /\ LookupInv /\ FaultInv

Up == pc \notin {"down", "fault"}

LEMMA LostInvInit == Init => LostInv
  BY ConstantsAssumption
  DEF Init, LostInv, NoUpdateLost, DuringSync, PoppedKnown, LookupInv, FaultInv,
      NewUser, NoLookup, IdleClient, Clean, Missing, Carried

\* Steps that change nothing these invariants look at.
LEMMA LostFrame ==
  ASSUME TypeOK, LostInv, Up, Up',
         known \subseteq known',
         \A u \in Users : /\ user'[u].priority = user[u].priority
                          /\ user'[u].popped = user[u].popped
                          /\ user'[u].last_sync_failed = user[u].last_sync_failed,
         \A c \in Conns : clients'[c].user = clients[c].user,
         UNCHANGED <<need, lookups, fault>>
  PROVE  LostInv'
  <1>1. \A u \in Users : Running(u)' = Running(u)
    BY DEF Running
  <1>2. NoUpdateLost'
    BY <1>1 DEF LostInv, NoUpdateLost, Up, Retried
  <1>3. DuringSync' /\ PoppedKnown'
    BY DEF LostInv, DuringSync, PoppedKnown
  <1>4. LookupInv'
    BY DEF LostInv, LookupInv
  <1>5. FaultInv'
    BY DEF LostInv, FaultInv, Up
  <1> QED BY <1>2, <1>3, <1>4, <1>5 DEF LostInv

\* replicator_queue_add(), with or without a reported update.
LEMMA LostAdd ==
  ASSUME TypeOK, LostInv, Up, Up', NEW u \in Users, NEW p \in NONE..SYNC,
         replicator_queue_add_int(u, p),
         need' = need \/ (p # NONE /\ need' = [need EXCEPT ![u] = Missing]),
         UNCHANGED <<clients, fault>>
  PROVE  NoUpdateLost' /\ DuringSync' /\ PoppedKnown' /\ FaultInv'
  <1>1. /\ u \in known' /\ known \subseteq known'
        /\ \A v \in Users : Running(v)' = Running(v)
    BY DEF replicator_queue_add_int, Running
  <1>2. ASSUME NEW v \in Users
        PROVE  /\ user'[v].popped = user[v].popped
               /\ user'[v].last_sync_failed = user[v].last_sync_failed
               /\ user[v].priority # NONE => user'[v].priority # NONE
               /\ v = u /\ p # NONE => user'[v].priority # NONE
    <2>1. user[v].priority \in NONE..SYNC
      BY UserFields DEF TypeOK
    <2> QED BY <2>1, AddIntPopped
  <1>3. \A v \in Users : need'[v] = need[v] \/ (v = u /\ p # NONE /\ need'[v] = Missing)
    BY DEF TypeOK
  <1>4. NoUpdateLost'
    BY <1>1, <1>2, <1>3 DEF LostInv, NoUpdateLost, Up, Retried, Missing, Carried
  <1>5. DuringSync' /\ PoppedKnown'
    BY <1>1, <1>2, <1>3 DEF LostInv, DuringSync, PoppedKnown
  <1>6. FaultInv'
    BY DEF LostInv, FaultInv, Up
  <1> QED BY <1>4, <1>5, <1>6

\* A waiting lookup survives an add: nothing lowers priority SYNC.
LEMMA LookupAdd ==
  ASSUME TypeOK, LostInv, NEW u \in Users, NEW p \in NONE..SYNC,
         replicator_queue_add_int(u, p), UNCHANGED clients,
         NEW r \in Requests, lookups'[r] = lookups[r]
  PROVE  /\ lookups'[r].user # Freed
         /\ lookups'[r].wait => /\ lookups'[r].user \in Users
                                /\ user'[lookups'[r].user].popped
                                /\ user'[lookups'[r].user].priority = SYNC
  BY AddIntPopped DEF LostInv, LookupInv

LEMMA NoAllocation ==
  ASSUME TypeOK, LostInv, NEW u \in Users, NEW l \in Allocations(u)
  PROVE  \A r \in Requests : l[r] = lookups[r]
  BY DEF LostInv, LookupInv, Allocations

LEMMA LostCommand ==
  ASSUME Gentle, TypeOK, SyncInv, LostInv, Command PROVE LostInv'
  <1>0. UpdatePriorities \subseteq NONE..SYNC /\ NONE \in NONE..SYNC /\ SYNC \in NONE..SYNC
    BY ConstantsAssumption
  <1>1. ASSUME NEW u \in Users, NEW p \in NONE..SYNC,
               pc = "idle", replicator_queue_add_int(u, p),
               lookups' \in Allocations(u), need' = need \/ Reported(u, p),
               pc' = "fill", UNCHANGED <<clients, fault>>
        PROVE  LostInv'
    <2>1. NoUpdateLost' /\ DuringSync' /\ PoppedKnown' /\ FaultInv'
      BY <1>1, LostAdd DEF Up, Reported
    <2>2. LookupInv'
      BY <1>1, NoAllocation, LookupAdd DEF LostInv, LookupInv
    <2> QED BY <2>1, <2>2 DEF LostInv
  <1>2. ASSUME NEW u \in Users, NEW r \in Requests, NotifySync(u, r) PROVE LostInv'
    <2>1. NoUpdateLost' /\ DuringSync' /\ PoppedKnown' /\ FaultInv'
      BY <1>0, <1>2, LostAdd DEF NotifySync, Up, Reported, ThenFill
    <2>2. PICK l \in Allocations(u) :
            lookups' = [l EXCEPT ![r] = [name |-> u, user |-> u,
                          wait |-> wait_for_next_push(u), fresh |-> FALSE]]
      BY <1>2 DEF NotifySync
    <2>3. l \in [Requests -> LookupRec]
      BY AllocationsType
    <2>4. replicator_queue_add_int(u, SYNC) /\ UNCHANGED clients
      BY <1>2 DEF NotifySync
    <2>5. \A q \in Requests : q # r => lookups'[q] = lookups[q]
      BY <2>2, <2>3, NoAllocation
    <2>6. /\ lookups'[r].user = u /\ u # Freed
          /\ lookups'[r].wait = user[u].popped
      BY <2>2, <2>3, ConstantsAssumption DEF wait_for_next_push
    <2>7. user'[u].popped = user[u].popped /\ user'[u].priority = SYNC
      <3>1. user[u].priority \in NONE..SYNC
        BY UserFields DEF TypeOK
      <3> QED BY <1>0, <2>4, <3>1, AddIntPopped
    <2>8. LookupInv'
      BY <1>0, <2>4, <2>5, <2>6, <2>7, LookupAdd DEF LostInv, LookupInv
    <2> QED BY <2>1, <2>8 DEF LostInv
  <1>3. ASSUME NEW u \in Users, client_input_remove(u) PROVE LostInv'
    <2>1. /\ ~user[u].popped /\ \A r \in Requests : lookups[r].user # u
          /\ pc = "idle" /\ pc' = "fill" /\ fault' = fault
          /\ known' = known \ {u} /\ user' = [user EXCEPT ![u] = NewUser]
          /\ need' = [need EXCEPT ![u] = Clean]
      BY <1>3 DEF Gentle, client_input_remove, replicator_queue_remove, ThenFill,
                  MayHappen, Unawaited
    <2>2. \A r \in Requests : lookups'[r] = lookups[r]
      BY <1>3, <2>1 DEF client_input_remove, replicator_queue_remove
    <2>3. \A c \in Conns : clients[c].user # u
      BY <2>1 DEF SyncInv, OneSyncPerUser, Running
    <2>4. \A c \in Conns : clients'[c] = clients[c]
      BY <1>3, <2>3 DEF client_input_remove
    <2>5. /\ user'[u] = NewUser /\ \A v \in Users : v # u => user'[v] = user[v]
          /\ need'[u] = Clean /\ \A v \in Users : v # u => need'[v] = need[v]
      BY <2>1 DEF TypeOK
    <2>6. \A v \in Users : Running(v)' = Running(v)
      BY <2>4 DEF Running
    <2>7. NoUpdateLost' /\ DuringSync' /\ PoppedKnown'
      BY <2>1, <2>5, <2>6
      DEF LostInv, NoUpdateLost, DuringSync, PoppedKnown, NewUser, Clean, Missing, Carried
    <2>8. LookupInv' /\ FaultInv'
      BY <2>1, <2>2, <2>4, <2>5 DEF LostInv, LookupInv, FaultInv
    <2> QED BY <2>7, <2>8 DEF LostInv
  <1> QED BY <1>0, <1>1, <1>2, <1>3
          DEF Command, client_input_add, NotifyUpdate, client_input_replicate,
              client_input_notify, ThenFill

\* A dsync begins: the update it carries over is no longer missing.
LEMMA LostFillStart ==
  ASSUME TypeOK, SyncInv, LostInv, NEW u \in Users, FillStart(u) PROVE LostInv'
  <1> DEFINE c == get_dsync_client
  <1>1. c \in Conns /\ clients[c].user = NULL
    BY IdleClientChosen DEF FillStart, SyncInv
  <1>2. /\ clients'[c].user = u
        /\ \A d \in Conns : d # c => clients'[d] = clients[d]
    BY <1>1 DEF FillStart, TypeOK
  <1>3. ~user[u].popped /\ u \in known /\ pc = "fill" /\ UNCHANGED <<pc, known, fault>>
    BY DEF FillStart, Heads, Queue
  <1>4. \A v \in Users : v # u => user'[v] = user[v]
    BY DEF FillStart, TypeOK
  <1>5. need'[u] # Missing /\ \A v \in Users : v # u => need'[v] = need[v]
    BY DEF FillStart, TypeOK, Missing, Carried
  <1>6. /\ Running(u)' # {}
        /\ \A v \in Users : Running(v) # {} => Running(v)' # {}
    <2>1. c \in Running(u)'
      BY <1>1, <1>2 DEF Running
    <2>2. ASSUME NEW v \in Users, NEW d \in Running(v) PROVE d \in Running(v)'
      BY <1>1, <1>2, NullIsNoUser DEF Running
    <2> QED BY <2>1, <2>2
  <1>7. NoUpdateLost' /\ DuringSync' /\ PoppedKnown' /\ FaultInv'
    BY <1>3, <1>4, <1>5, <1>6
    DEF LostInv, NoUpdateLost, DuringSync, PoppedKnown, FaultInv
  <1>8. ASSUME NEW r \in Requests
        PROVE  lookups'[r].user = lookups[r].user /\ lookups'[r].wait = lookups[r].wait
    BY DEF FillStart, TypeOK, LookupRec
  <1>9. LookupInv'
    <2>1. \A d \in Conns : clients'[d].user # Freed
      BY <1>2, NullIsNoUser DEF LostInv, LookupInv
    <2>2. ASSUME NEW r \in Requests, lookups[r].wait
          PROVE  lookups[r].user \in Users /\ lookups[r].user # u
      BY <1>3, <2>2 DEF LostInv, LookupInv
    <2> QED BY <1>4, <1>8, <2>1, <2>2 DEF LostInv, LookupInv
  <1> QED BY <1>7, <1>9 DEF LostInv

\* Every client is busy: the user that is pushed back was not popped, so no
\* lookup waits for its next push and the assertion there holds.
LEMMA LostFillFull ==
  ASSUME TypeOK, LostInv, NEW u \in Users, FillFull(u) PROVE LostInv'
  <1>1. ~user[u].popped /\ pc = "fill"
    BY DEF FillFull, Heads, Queue
  <1>2. Waiting({u}) = {}
    BY <1>1 DEF Waiting, LostInv, LookupInv
  <1>3. pc' = "return" /\ fault' = fault /\ UNCHANGED <<known, clients, need>>
    BY <1>2 DEF FillFull, AssertThen, LookupAssert
  <1>4. \A v \in Users : /\ user'[v].priority = user[v].priority
                         /\ user'[v].popped = user[v].popped
                         /\ user'[v].last_sync_failed = user[v].last_sync_failed
    <2> SUFFICES ASSUME NEW v \in Users
                 PROVE  /\ user'[v].priority = user[v].priority
                        /\ user'[v].popped = user[v].popped
                        /\ user'[v].last_sync_failed = user[v].last_sync_failed
      OBVIOUS
    <2>1. user[v] \in UserRec
      BY DEF TypeOK
    <2>2. user'[v] = IF v \in {u} THEN [user[v] EXCEPT !.popped = FALSE] ELSE user[v]
      BY DEF FillFull, replicator_queue_push
    <2>3. CASE v = u
      <3>1. user'[v] = [user[v] EXCEPT !.popped = FALSE]
        BY <2>2, <2>3
      <3> QED BY <1>1, <2>1, <2>3, <3>1 DEF UserRec
    <2>4. CASE v # u
      BY <2>2, <2>4
    <2> QED BY <2>3, <2>4
  <1>5. \A r \in Requests : lookups'[r] = lookups[r] \/ lookups'[r] = NoLookup
    BY <1>2 DEF FillFull, replicator_queue_push, handle_sync_lookups, TypeOK
  <1>6. \A v \in Users : Running(v)' = Running(v)
    BY <1>3 DEF Running
  <1>7. NoUpdateLost'
    BY <1>1, <1>3, <1>4, <1>6 DEF LostInv, NoUpdateLost, Retried
  <1>8. DuringSync' /\ PoppedKnown' /\ FaultInv'
    BY <1>1, <1>3, <1>4 DEF LostInv, DuringSync, PoppedKnown, FaultInv
  <1>9. LookupInv'
    BY <1>3, <1>4, <1>5, ConstantsAssumption DEF LostInv, LookupInv, NoLookup
  <1> QED BY <1>7, <1>8, <1>9 DEF LostInv

LEMMA LostFill == ASSUME TypeOK, SyncInv, LostInv, Fill PROVE LostInv'
  <1>1. ASSUME NEW u \in Users, FillWait(u) PROVE LostInv'
    BY <1>1, LostFrame DEF FillWait, Up
  <1>2. ASSUME FillEmpty PROVE LostInv'
    BY <1>2, LostFrame DEF FillEmpty, Up
  <1>3. ASSUME Return PROVE LostInv'
    <2>1. \A c \in Conns : clients'[c].user = clients[c].user
      BY <1>3 DEF Return, SyncInv, CallbackClient, IdleClient, TypeOK
    <2>2. Up /\ Up' /\ UNCHANGED <<known, need, lookups, fault>>
      BY <1>3 DEF Return, Up
    <2> QED BY <1>3, <2>1, <2>2, ReturnFields, LostFrame
  <1> QED BY <1>1, <1>2, <1>3, LostFillStart, LostFillFull DEF Fill

\* A dsync ended: an update it failed to carry over is retried as a failure,
\* one that came meanwhile has kept its priority.
LEMMA LostReplied ==
  ASSUME Gentle, TypeOK, SyncInv, LostInv, Replied PROVE LostInv'
  <1>1. ASSUME NEW c \in Conns, NEW reply \in {"OK", "FAIL", "NOUSER"},
               dsync_callback(c, reply)
        PROVE  LostInv'
    <2> PICK u \in Users : u = clients[c].user
      BY <1>1 DEF dsync_callback
    <2>1. Running(u) = {c} /\ user[u].popped /\ u \in known /\ pc = "idle"
      BY <1>1 DEF dsync_callback, SyncInv, OneSyncPerUser, Running, LostInv, PoppedKnown
    <2>2. \A d \in Conns : /\ d # c => clients'[d] = clients[d]
                           /\ clients'[c].user = NULL
      BY <1>1 DEF dsync_callback, TypeOK, CallbackClient
    <2>3. Running(u)' = {} /\ \A v \in Users : v # u => Running(v)' = Running(v)
      BY <2>1, <2>2, NullIsNoUser DEF Running
    <2>4. \A d \in Conns : clients'[d].user # Freed
      BY <2>2, ConstantsAssumption DEF LostInv, LookupInv
    <2>5. CASE reply = "NOUSER"
      <3>1. /\ known' = known \ {u} /\ user' = [user EXCEPT ![u] = NewUser]
            /\ need' = [need EXCEPT ![u] = Clean] /\ pc' = "fill" /\ fault' = fault
            /\ \A r \in Requests : lookups[r].user # u /\ lookups'[r] = lookups[r]
        BY <1>1, <2>5 DEF dsync_callback, replicator_queue_remove, ThenFill, Gentle,
                          MayHappen, Unawaited
      <3>2. /\ ~user'[u].popped /\ \A v \in Users : v # u => user'[v] = user[v]
            /\ need'[u] = Clean /\ \A v \in Users : v # u => need'[v] = need[v]
        BY <3>1 DEF TypeOK, NewUser
      <3>3. NoUpdateLost' /\ DuringSync' /\ PoppedKnown'
        BY <2>1, <2>3, <3>1, <3>2
        DEF LostInv, NoUpdateLost, DuringSync, PoppedKnown, Clean, Missing, Carried
      <3>4. LookupInv' /\ FaultInv'
        BY <2>1, <2>4, <3>1, <3>2 DEF LostInv, LookupInv, FaultInv
      <3> QED BY <3>3, <3>4 DEF LostInv
    <2>6. CASE reply # "NOUSER"
      <3> DEFINE failed == reply # "OK"
                 rec == [user EXCEPT ![u].last_sync_failed = failed]
      <3>1. /\ replicator_queue_push(rec, {u}) /\ known' = known
            /\ need' = [need EXCEPT ![u] = IF @ # Carried THEN @
                                           ELSE IF reply = "OK" THEN Clean ELSE Missing]
            /\ AssertThen(LookupAssert(rec, {u}), "lookup_priority", "fill")
        BY <1>1, <2>6 DEF dsync_callback
      <3>2. /\ rec[u].priority = user[u].priority /\ rec[u].last_sync_failed = failed
            /\ rec[u] \in UserRec /\ \A v \in Users : v # u => rec[v] = user[v]
        <4>1. user \in [Users -> UserRec] /\ user[u] \in UserRec /\ failed \in BOOLEAN
          BY DEF TypeOK
        <4>2. rec[u] = [user[u] EXCEPT !.last_sync_failed = failed]
          BY <4>1
        <4>3. \A v \in Users : v # u => rec[v] = user[v]
          BY <4>1
        <4> HIDE DEF rec, failed
        <4>4. rec[u].priority = user[u].priority /\ rec[u].last_sync_failed = failed
          BY <4>1, <4>2 DEF UserRec
        <4>5. rec[u] \in UserRec
          BY <4>1, <4>2 DEF UserRec
        <4> QED BY <4>3, <4>4, <4>5
      <3> HIDE DEF rec
      <3>3. LookupAssert(rec, {u})
        BY <3>2 DEF LookupAssert, Waiting, LostInv, LookupInv
      <3>4. pc' = "fill" /\ fault' = fault
        BY <3>1, <3>3 DEF AssertThen
      <3>5. /\ user'[u].priority = user[u].priority /\ ~user'[u].popped
            /\ user'[u].last_sync_failed = failed
            /\ \A v \in Users : v # u => user'[v] = user[v]
        BY <3>1, <3>2 DEF replicator_queue_push, UserRec
      <3>6. /\ need'[u] = Missing => need[u] = Missing \/ (need[u] = Carried /\ failed)
            /\ need'[u] # Carried
            /\ \A v \in Users : v # u => need'[v] = need[v]
        BY <3>1 DEF TypeOK, Clean, Missing, Carried
      <3>7. NoUpdateLost' /\ DuringSync' /\ PoppedKnown'
        <4>1. need[u] = Missing => user[u].priority # NONE
          BY <2>1 DEF LostInv, DuringSync
        <4>2. need'[u] = Missing => u \in known' /\ Retried(user'[u])
          BY <2>1, <3>1, <3>5, <3>6, <4>1 DEF Retried
        <4>3. NoUpdateLost'
          BY <2>1, <2>3, <3>1, <3>4, <3>5, <3>6, <4>2 DEF LostInv, NoUpdateLost
        <4>4. DuringSync' /\ PoppedKnown'
          BY <3>1, <3>5, <3>6 DEF LostInv, DuringSync, PoppedKnown
        <4> QED BY <4>3, <4>4
      <3>8. ASSUME NEW r \in Requests
            PROVE  \/ lookups'[r] = NoLookup
                   \/ lookups'[r] = lookups[r] /\ (lookups[r].wait => lookups[r].user # u)
                   \/ lookups'[r].user = lookups[r].user /\ ~lookups'[r].wait
        BY <3>1 DEF replicator_queue_push, handle_sync_lookups, Ready, Waiting,
                    TypeOK, LookupRec
      <3>9. LookupInv' /\ FaultInv'
        BY <2>1, <2>4, <3>4, <3>5, <3>8, ConstantsAssumption
        DEF LostInv, LookupInv, FaultInv, NoLookup
      <3> QED BY <3>7, <3>9 DEF LostInv
    <2> QED BY <2>5, <2>6
  <1>2. ASSUME NEW c \in Conns, DsyncCallbackFreed(c) PROVE FALSE
    BY <1>2 DEF DsyncCallbackFreed, LostInv, LookupInv
  <1> QED BY <1>1, <1>2 DEF Replied

\* A clean shutdown saves every update that is not over: a dsync that it cuts
\* short has failed by the time the file is written.
LEMMA LostDeinit ==
  ASSUME Gentle, TypeOK, SyncInv, LostInv, main_deinit PROVE LostInv'
  <1> DEFINE running == {clients[c].user : c \in Conns} \ {NULL}
             rec == Disconnected(running)
             left == {r \in Requests : lookups[r] # NoLookup} \ Ready(running)
  <1>1. Freed \notin running
    BY DEF LostInv, LookupInv
  <1>2. /\ rec \in [Users -> UserRec]
        /\ \A u \in Users : /\ rec[u].priority = user[u].priority
                            /\ rec[u].last_sync_failed =
                                 (u \in running \/ user[u].last_sync_failed)
    BY DisconnectedFields
  <1>3. LookupAssert(rec, running)
    BY <1>2 DEF LookupAssert, Waiting, LostInv, LookupInv
  <1>4. /\ db' = Export(rec, known) /\ AssertThen(left = {}, "deinit_lookups", "down")
        /\ Gone /\ pc = "idle"
        /\ "STOP_BUSY" \in Env \/ \A r \in Requests : lookups[r] = NoLookup
        /\ need' = [u \in Users |-> IF need[u] = Carried THEN Missing ELSE need[u]]
    BY <1>1, <1>3 DEF main_deinit, MayHappen
  <1>5. /\ pc' \in {"down", "fault"}
        /\ pc' = "fault" \/ fault' # "none" => "STOP_BUSY" \in Env
    BY <1>4 DEF AssertThen, LostInv, FaultInv
  <1>6. NoUpdateLost'
    <2>1. ASSUME NEW u \in Users, need'[u] = Missing
          PROVE  u \in known /\ Retried(rec[u])
      <3>1. CASE need[u] = Missing
        BY <1>2, <1>4, <3>1 DEF LostInv, NoUpdateLost, Retried
      <3>2. CASE need[u] = Carried
        <4>1. PICK c \in Conns : clients[c].user = u
          BY <3>2 DEF LostInv, NoUpdateLost, Running
        <4>2. u \in running
          BY <4>1, NullIsNoUser
        <4>3. u \in known
          BY <4>1 DEF SyncInv, OneSyncPerUser, Running, LostInv, PoppedKnown
        <4> QED BY <1>2, <4>2, <4>3 DEF Retried
      <3> QED BY <1>4, <2>1, <3>1, <3>2
    <2>2. ASSUME NEW u \in Users, u \in known, Retried(rec[u])
          PROVE  u \in db'.known /\ Retried(db'.user[u])
      BY <1>2, <1>4, <2>2, ExportFields DEF Retried
    <2>3. \A u \in Users : need'[u] # Carried
      BY <1>4 DEF Missing, Carried
    <2> QED BY <1>5, <2>1, <2>2, <2>3 DEF NoUpdateLost
  <1>7. DuringSync' /\ PoppedKnown' /\ LookupInv'
    BY <1>4, ConstantsAssumption
    DEF Gone, DuringSync, PoppedKnown, LookupInv, NewUser, NoLookup, IdleClient
  <1>8. FaultInv'
    BY <1>4, <1>5 DEF FaultInv, Gone, IdleClient
  <1> QED BY <1>6, <1>7, <1>8 DEF LostInv

\* No lookup and no popped user outlives the process.
LEMMA DownEmpty ==
  ASSUME SyncInv, LostInv, pc \in {"down", "fault"}
  PROVE  \A u \in Users : Running(u) = {} /\ ~user[u].popped
  BY NullIsNoUser DEF SyncInv, OneSyncPerUser, Running, IdleClient, LostInv, FaultInv

LEMMA LostProcess ==
  ASSUME Gentle, TypeOK, SyncInv, LostInv, Process PROVE LostInv'
  <1>1. ASSUME main_init PROVE LostInv'
    <2>1. /\ pc = "down" /\ pc' = "fill" /\ UNCHANGED <<clients, lookups, need, fault>>
          /\ user' = db.user /\ db.known \subseteq known'
      BY <1>1 DEF main_init, replicator_queue_import, ThenFill
    <2>2. \A u \in Users : /\ ~user[u].popped /\ ~user'[u].popped
                           /\ Running(u) = {} /\ Running(u)' = {}
      BY <2>1, DownEmpty DEF SyncInv, Running
    <2>3. NoUpdateLost' /\ DuringSync' /\ PoppedKnown'
      BY <2>1, <2>2 DEF LostInv, NoUpdateLost, DuringSync, PoppedKnown
    <2>4. LookupInv' /\ FaultInv'
      BY <2>1, <2>2 DEF LostInv, LookupInv, FaultInv
    <2> QED BY <2>3, <2>4 DEF LostInv
  <1>2. ASSUME Crash PROVE LostInv'
    <2>1. /\ pc = "fault" /\ pc' = "down" /\ Gone /\ UNCHANGED <<db, fault>>
          /\ need' = [u \in Users |-> IF need[u] = Carried THEN Missing ELSE need[u]]
      BY <1>2 DEF Crash, Gentle
    <2>2. \A u \in Users : need[u] # Carried
      BY <2>1, DownEmpty DEF LostInv, NoUpdateLost
    <2>3. NoUpdateLost'
      BY <2>1, <2>2 DEF LostInv, NoUpdateLost
    <2>4. DuringSync' /\ PoppedKnown' /\ LookupInv'
      BY <2>1, ConstantsAssumption
      DEF Gone, DuringSync, PoppedKnown, LookupInv, NewUser, NoLookup, IdleClient
    <2>5. FaultInv'
      BY <2>1 DEF LostInv, FaultInv
    <2> QED BY <2>3, <2>4, <2>5 DEF LostInv
  <1>3. ASSUME replicator_dump_timeout PROVE LostInv'
    BY <1>3, LostFrame DEF replicator_dump_timeout, Up
  <1> QED BY <1>1, <1>2, <1>3, LostDeinit DEF Process

LEMMA LostTick == ASSUME TypeOK, SyncInv, LostInv, Tick PROVE LostInv'
  <1>1. \A u \in Users : /\ user'[u].popped = user[u].popped
                         /\ user'[u].priority = user[u].priority
                         /\ user'[u].last_sync_failed = user[u].last_sync_failed
                         /\ db'.user[u].priority = db.user[u].priority
                         /\ db'.user[u].last_sync_failed = db.user[u].last_sync_failed
    BY OlderFields DEF Tick, TypeOK
  <1>2. UNCHANGED <<known, clients, lookups, pc, need, fault>> /\ db'.known = db.known
    BY DEF Tick, TypeOK
  <1>3. NoUpdateLost' /\ DuringSync' /\ PoppedKnown'
    BY <1>1, <1>2 DEF LostInv, NoUpdateLost, DuringSync, PoppedKnown, Retried, Running
  <1>4. LookupInv' /\ FaultInv'
    BY <1>1, <1>2 DEF LostInv, LookupInv, FaultInv
  <1> QED BY <1>3, <1>4 DEF LostInv

LEMMA LostNext ==
  ASSUME Gentle, TypeOK, SyncInv, LostInv, [Next]_vars PROVE LostInv'
  <1>1. CASE replicator_brain_timeout
    BY <1>1, LostFrame DEF replicator_brain_timeout, ThenFill, Up
  <1>2. CASE UNCHANGED vars
    BY <1>2 DEF vars, LostInv, NoUpdateLost, DuringSync, PoppedKnown, LookupInv,
                FaultInv, Retried, Running
  <1> QED BY <1>1, <1>2, LostFill, LostCommand, LostReplied, LostProcess, LostTick
          DEF Next

LEMMA LostAlways == ASSUME Gentle PROVE Spec => [](TypeOK /\ SyncInv /\ LostInv)
  <1>1. TypeOK /\ SyncInv /\ [Next]_vars => SyncInv'
    BY SyncInvNext
  <1>2. TypeOK /\ SyncInv /\ LostInv /\ [Next]_vars => LostInv'
    BY Gentle, LostNext
  <1> QED BY <1>1, <1>2, TypeCorrect, SyncInvInit, LostInvInit, PTL DEF Spec

\* No reported update is lost: while the process is not killed and no user is
\* removed under a dsync or a lookup, an update that no dsync has carried over
\* keeps its user queued with a priority or as a failure, through any number
\* of updates during dsyncs, failures and clean restarts.
THEOREM NothingLost == ASSUME Gentle PROVE Spec => []NoUpdateLost
  <1>1. LostInv => NoUpdateLost
    BY DEF LostInv
  <1> QED BY <1>1, LostAlways, PTL

\* None of the assertions of replicator-queue.c fails in those environments,
\* unless the process is stopped while a sync request waits.
THEOREM AssertionsHold ==
  ASSUME Gentle, "STOP_BUSY" \notin Env
  PROVE  Spec => []NoPanic
  <1>1. LostInv => NoPanic
    BY DEF LostInv, FaultInv, NoPanic
  <1> QED BY <1>1, LostAlways, PTL

-----------------------------------------------------------------------------
(* The client whose callback is running.                                    *)

\* Only that client is busy without a user, and only while a handler runs.
CallbackInv ==
  /\ pc \in {"idle", "down"} => cont = NoCont
  /\ \A c \in Conns :
       clients[c].busy /\ clients[c].user = NULL =>
         cont.op \in {"free", "nouser"} /\ c = cont.conn

LEMMA CallbackInit == Init => CallbackInv
  BY DEF Init, CallbackInv, IdleClient

\* Handlers that start a fill and leave the clients to it.
LEMMA CallbackFrame ==
  ASSUME CallbackInv, UNCHANGED clients,
         \/ UNCHANGED <<pc, cont>>
         \/ cont' = cont /\ pc' \in {"return", "fault"}
         \/ pc \in {"idle", "down"} /\ pc' = "fill"
  PROVE  CallbackInv'
  BY DEF CallbackInv, NoCont

LEMMA CallbackFill == ASSUME TypeOK, SyncInv, CallbackInv, Fill PROVE CallbackInv'
  <1>1. ASSUME NEW u \in Users, FillStart(u) PROVE CallbackInv'
    <2> DEFINE k == get_dsync_client
    <2>1. k \in Conns
      BY <1>1, IdleClientChosen DEF FillStart
    <2>2. /\ clients'[k].user = u /\ u # NULL
          /\ \A c \in Conns : c # k => clients'[c] = clients[c]
      BY <1>1, <2>1, NullIsNoUser DEF FillStart, TypeOK
    <2>3. pc' = "fill" /\ cont' = cont
      BY <1>1 DEF FillStart
    <2> QED BY <2>2, <2>3 DEF CallbackInv
  <1>2. ASSUME NEW u \in Users, FillFull(u) \/ FillWait(u) PROVE CallbackInv'
    <2>1. UNCHANGED <<clients, cont>> /\ pc' \in {"return", "fault"}
      BY <1>2 DEF FillFull, FillWait, AssertThen
    <2> QED BY <2>1, CallbackFrame
  <1>3. ASSUME FillEmpty PROVE CallbackInv'
    BY <1>3, CallbackFrame DEF FillEmpty
  <1>4. ASSUME Return PROVE CallbackInv'
    <2>1. CASE cont.op = "free"
      <3>1. cont.conn \in Conns
        BY <2>1 DEF SyncInv
      <3>2. /\ clients'[cont.conn] = IdleClient /\ cont' = NoCont
            /\ \A c \in Conns : c # cont.conn => clients'[c] = clients[c]
        BY <1>4, <2>1, <3>1 DEF Return, TypeOK
      <3> QED BY <3>2 DEF CallbackInv, IdleClient
    <2>2. CASE cont.op = "nouser"
      <3>1. clients' = clients /\ pc' = "fill" /\ cont' = [cont EXCEPT !.op = "free"]
        BY <1>4, <2>2 DEF Return
      <3>2. cont'.op = "free" /\ cont'.conn = cont.conn
        BY <3>1 DEF TypeOK, ContRec
      <3> QED BY <3>1, <3>2 DEF CallbackInv
    <2>3. CASE cont.op \notin {"free", "nouser"}
      <3>1. clients' = clients /\ cont' = NoCont
        BY <1>4, <2>3 DEF Return
      <3> QED BY <2>3, <3>1 DEF CallbackInv
    <2> QED BY <2>1, <2>2, <2>3
  <1> QED BY <1>1, <1>2, <1>3, <1>4 DEF Fill

LEMMA CallbackCommand == ASSUME TypeOK, CallbackInv, Command PROVE CallbackInv'
  <1>1. ASSUME NEW u \in Users, client_input_remove(u) PROVE CallbackInv'
    <2>1. /\ pc = "idle" /\ pc' = "fill"
          /\ clients' = [c \in Conns |-> IF clients[c].user = u
                                         THEN [clients[c] EXCEPT !.user = Freed] ELSE clients[c]]
      BY <1>1 DEF client_input_remove, ThenFill
    <2>2. ASSUME NEW c \in Conns, clients'[c].busy, clients'[c].user = NULL PROVE FALSE
      <3>1. clients[c] \in ClientRec /\ NULL # Freed
        BY ConstantsAssumption DEF TypeOK
      <3>2. clients'[c] = clients[c]
        BY <2>1, <2>2, <3>1 DEF ClientRec
      <3>3. clients[c].busy /\ clients[c].user = NULL /\ pc = "idle"
        BY <2>1, <2>2, <3>2
      <3> QED BY <3>3 DEF CallbackInv, NoCont
    <2> QED BY <2>1, <2>2 DEF CallbackInv
  <1>2. CASE pc = "idle" /\ pc' = "fill" /\ UNCHANGED clients
    BY <1>2, CallbackFrame
  <1> QED BY <1>1, <1>2
          DEF Command, client_input_add, NotifyUpdate, NotifySync, client_input_replicate,
              client_input_notify, ThenFill

LEMMA CallbackNext == ASSUME TypeOK, SyncInv, CallbackInv, [Next]_vars PROVE CallbackInv'
  <1>1. ASSUME NEW c \in Conns, NEW reply \in {"OK", "FAIL", "NOUSER"}, dsync_callback(c, reply)
        PROVE  CallbackInv'
    <2>1. /\ pc = "idle" /\ pc' \in {"fill", "fault"}
          /\ cont'.op \in {"free", "nouser"} /\ cont'.conn = c
          /\ clients' = [clients EXCEPT ![c] = CallbackClient]
      BY <1>1 DEF dsync_callback, ThenFill, AssertThen
    <2>2. \A d \in Conns : d # c => clients'[d] = clients[d]
      BY <2>1 DEF TypeOK
    <2> QED BY <2>1, <2>2 DEF CallbackInv, NoCont
  <1>2. ASSUME NEW c \in Conns, DsyncCallbackFreed(c) PROVE CallbackInv'
    BY <1>2, CallbackFrame DEF DsyncCallbackFreed
  <1>3. CASE main_deinit \/ Crash
    <2>1. Gone
      BY <1>3 DEF main_deinit, Crash
    <2> QED BY <2>1 DEF Gone, CallbackInv, IdleClient
  <1>4. CASE main_init
    BY <1>4, CallbackFrame DEF main_init, ThenFill
  <1>5. CASE replicator_dump_timeout
    BY <1>5, CallbackFrame DEF replicator_dump_timeout
  <1>6. CASE replicator_brain_timeout
    BY <1>6, CallbackFrame DEF replicator_brain_timeout, ThenFill
  <1>7. CASE Tick
    BY <1>7, CallbackFrame DEF Tick
  <1>8. CASE UNCHANGED vars
    BY <1>8, CallbackFrame DEF vars
  <1> QED BY <1>1, <1>2, <1>3, <1>4, <1>5, <1>6, <1>7, <1>8, CallbackFill, CallbackCommand
          DEF Next, Replied, Process

LEMMA CallbackAlways == Spec => [](TypeOK /\ SyncInv /\ CallbackInv)
  <1>1. TypeOK /\ SyncInv /\ [Next]_vars => SyncInv'
    BY SyncInvNext
  <1>2. TypeOK /\ SyncInv /\ CallbackInv /\ [Next]_vars => CallbackInv'
    BY CallbackNext
  <1> QED BY <1>1, <1>2, TypeCorrect, SyncInvInit, CallbackInit, PTL DEF Spec

-----------------------------------------------------------------------------
(* The idle process has something to wait for.                              *)

\* The fill ended because nobody is due, and the timer is armed, or because no
\* client was idle; then one besides the client whose callback ran is busy.
StallInv ==
  /\ pc \in {"idle", "return"} /\ cont.op # "nouser" /\
     (\A c \in Conns : c # cont.conn => ~clients[c].busy) =>
       to \in Nat /\ \A u \in Queue : user[u].priority = NONE

LEMMA StallInit == Init => StallInv
  BY DEF Init, StallInv

LEMMA StallFill ==
  ASSUME MaxConns > 1, TypeOK, SyncInv, CallbackInv, StallInv, Fill PROVE StallInv'
  <1>1. ASSUME NEW u \in Users, FillStart(u) PROVE StallInv'
    BY <1>1 DEF FillStart, StallInv
  <1>2. ASSUME NEW u \in Users, FillFull(u) PROVE StallInv'
    <2>1. (\A c \in Conns : clients[c].busy) /\ UNCHANGED <<clients, cont>>
      BY <1>2 DEF FillFull, IdleConns
    <2>2. \E c \in Conns : c # cont.conn
      <3>1. 1 \in Conns /\ 2 \in Conns
        BY ConstantsAssumption DEF Conns
      <3> QED BY <3>1
    <2> QED BY <2>1, <2>2 DEF StallInv
  <1>3. ASSUME NEW u \in Users, FillWait(u) PROVE StallInv'
    <2>1. /\ u \in Heads /\ to' = SecsLeft(user[u]) /\ user[u].priority = NONE
          /\ UNCHANGED <<known, user>>
      BY <1>3 DEF FillWait, ArmTimer, replicator_queue_want_sync_now
    <2>2. to' \in Nat
      BY <2>1, SecsLeftType DEF TypeOK
    <2>3. ASSUME NEW v \in Queue PROVE user[v].priority = NONE
      <3>1. v \in Users /\ user[v].priority \in NONE..SYNC
        BY UserFields DEF Queue, TypeOK
      <3>2. user[v].priority <= user[u].priority
        BY <2>1 DEF Heads
      <3> QED BY <2>1, <3>1, <3>2
    <2>4. Queue' = Queue
      BY <2>1 DEF Queue
    <2> QED BY <2>1, <2>2, <2>3, <2>4 DEF StallInv
  <1>4. ASSUME FillEmpty PROVE StallInv'
    <2>1. Queue' = {} /\ to' \in Nat
      BY <1>4, ConstantsAssumption DEF FillEmpty, Queue, ArmTimer
    <2> QED BY <2>1 DEF StallInv
  <1>5. ASSUME Return PROVE StallInv'
    <2>1. /\ \A u \in Users : /\ user'[u].popped = user[u].popped
                             /\ user'[u].priority = user[u].priority
          /\ UNCHANGED <<known, to>> /\ pc = "return"
      BY <1>5, ReturnFields DEF Return
    <2>2. Queue' = Queue /\ Queue \subseteq Users
      BY <2>1 DEF Queue, TypeOK
    <2>3. CASE cont.op = "nouser"
      BY <1>5, <2>3 DEF Return, StallInv
    <2>4. CASE cont.op # "nouser"
      <3>1. \A c \in Conns : c # cont.conn => clients'[c] = clients[c]
        BY <1>5 DEF Return, TypeOK
      <3>2. cont' = NoCont /\ \A c \in Conns : c # NoCont.conn
        BY <1>5, <2>4 DEF Return, NoCont, Conns
      <3> QED BY <2>1, <2>2, <2>4, <3>1, <3>2 DEF StallInv
    <2> QED BY <2>3, <2>4
  <1> QED BY <1>1, <1>2, <1>3, <1>4, <1>5 DEF Fill

LEMMA StallNext ==
  ASSUME MaxConns > 1, TypeOK, SyncInv, CallbackInv, StallInv, [Next]_vars PROVE StallInv'
  <1>1. CASE pc' \in {"fill", "fault", "down"}
    BY <1>1 DEF StallInv
  <1>2. CASE Command
    BY <1>1, <1>2 DEF Command, client_input_add, NotifyUpdate, NotifySync, client_input_remove,
                      client_input_replicate, client_input_notify, ThenFill
  <1>3. CASE Replied
    BY <1>1, <1>3 DEF Replied, dsync_callback, DsyncCallbackFreed, ThenFill, AssertThen
  <1>4. CASE main_init \/ main_deinit \/ Crash \/ replicator_brain_timeout
    BY <1>1, <1>4 DEF main_init, main_deinit, Crash, replicator_brain_timeout, ThenFill, AssertThen
  <1>5. CASE replicator_dump_timeout
    BY <1>5 DEF replicator_dump_timeout, StallInv, Queue
  <1>6. CASE Tick
    <2>1. /\ \A u \in Users : /\ user'[u].popped = user[u].popped
                             /\ user'[u].priority = user[u].priority
          /\ UNCHANGED <<known, clients, pc, cont>>
      BY <1>6, OlderFields DEF Tick, TypeOK
    <2>2. Queue' = Queue /\ Queue \subseteq Users
      BY <2>1 DEF Queue, TypeOK
    <2>3. to \in Nat => to' \in Nat
      BY <1>6 DEF Tick
    <2> QED BY <2>1, <2>2, <2>3 DEF StallInv
  <1>7. CASE UNCHANGED vars
    BY <1>7 DEF vars, StallInv, Queue
  <1> QED BY <1>2, <1>3, <1>4, <1>5, <1>6, <1>7, StallFill DEF Next, Process

\* With at least two dsync clients the event loop is never idle with nothing to
\* wake it up: if no dsync runs, the timer of replicator_brain_fill() is armed
\* and no user with a priority is in the queue, for any users, priorities and
\* environment, crashes and removals included.
THEOREM NeverStalled == ASSUME MaxConns > 1 PROVE Spec => []NotStalled
  <1>1. TypeOK /\ SyncInv /\ CallbackInv /\ StallInv /\ [Next]_vars => StallInv'
    BY StallNext
  <1>2. CallbackInv /\ StallInv => NotStalled
    BY ConstantsAssumption DEF CallbackInv, StallInv, NotStalled, NoCont
  <1> QED BY <1>1, <1>2, StallInit, CallbackAlways, PTL DEF Spec

-----------------------------------------------------------------------------
(* A sync request is not answered too early.                                *)

\* A user that is pushed back because no client is idle is not synced, but its
\* sync requests are answered.  With more clients than users that never
\* happens: of the busy clients only one may be without a user.
Spare == IsFiniteSet(Users) /\ MaxConns > Cardinality(Users)

\* While a user is popped, the lookups that its push will answer have seen
\* the dsync begin.
FreshInv ==
  \A r \in Requests :
    lookups[r].user \in Users =>
      /\ lookups[r].name = lookups[r].user
      /\ user[lookups[r].user].popped /\ ~lookups[r].wait => lookups[r].fresh

AnswerInv == SyncAnswerTrue /\ FreshInv

LEMMA AnswerInit == Init => AnswerInv
  BY ConstantsAssumption
  DEF Init, AnswerInv, SyncAnswerTrue, FreshInv, NoLookup

\* A user in the queue has an idle client.
LEMMA ClientToSpare ==
  ASSUME Spare, TypeOK, SyncInv, LostInv, CallbackInv, NEW u \in Users, ~user[u].popped
  PROVE  IdleConns # {}
  <1> SUFFICES ASSUME IdleConns = {} PROVE FALSE
    OBVIOUS
  <1> DEFINE f == [c \in Conns |-> IF clients[c].user \in Users THEN clients[c].user ELSE u]
  <1>1. \A c \in Conns : clients[c].busy /\ (clients[c].user \in Users \/ clients[c].user = NULL)
    BY DEF IdleConns, TypeOK, ClientRec, LostInv, LookupInv
  <1>2. ASSUME NEW c \in Conns, NEW d \in Conns, f[c] = f[d] PROVE c = d
    <2>1. \A e \in Conns : clients[e].user # u
      BY DEF SyncInv, OneSyncPerUser, Running
    <2>2. CASE clients[c].user \in Users /\ clients[d].user \in Users
      BY <1>2, <2>2 DEF SyncInv, OneSyncPerUser, Running
    <2>3. CASE clients[c].user \notin Users /\ clients[d].user \notin Users
      BY <1>1, <2>3 DEF CallbackInv
    <2>4. ~(clients[c].user \in Users /\ clients[d].user \notin Users)
      BY <1>2, <2>1
    <2>5. ~(clients[c].user \notin Users /\ clients[d].user \in Users)
      BY <1>2, <2>1
    <2> QED BY <2>2, <2>3, <2>4, <2>5
  <1>3. f \in Injection(Conns, Users)
    <2>1. f \in [Conns -> Users]
      OBVIOUS
    <2> HIDE DEF f
    <2> QED BY <1>2, <2>1 DEF Injection, IsInjective
  <1>4. IsFiniteSet(Conns) /\ Cardinality(Conns) = MaxConns
    <2>1. MaxConns \in Nat /\ MaxConns > 0
      BY ConstantsAssumption
    <2>2. /\ IsFiniteSet(1..MaxConns)
          /\ Cardinality(1..MaxConns) = IF 1 > MaxConns THEN 0 ELSE MaxConns - 1 + 1
      BY <2>1, FS_Interval
    <2> QED BY <2>1, <2>2 DEF Conns
  <1>5. Cardinality(Conns) <= Cardinality(Users)
    <2> HIDE DEF f
    <2> QED BY <1>3, FS_Injection DEF Spare
  <1>6. Cardinality(Users) \in Nat /\ MaxConns \in Nat
    BY FS_CardinalityType, ConstantsAssumption DEF Spare
  <1> QED BY <1>4, <1>5, <1>6 DEF Spare

\* Steps that change nothing the invariant looks at.
LEMMA AnswerFrame ==
  ASSUME AnswerInv, UNCHANGED answer, \A r \in Requests : lookups'[r] = lookups[r],
         \A u \in Users : user'[u].popped => user[u].popped
  PROVE  AnswerInv'
  BY DEF AnswerInv, SyncAnswerTrue, FreshInv

LEMMA AnswerFill ==
  ASSUME Spare, TypeOK, SyncInv, LostInv, CallbackInv, AnswerInv, Fill PROVE AnswerInv'
  <1>1. ASSUME NEW u \in Users, FillStart(u) PROVE AnswerInv'
    <2>1. ~user[u].popped /\ answer' = answer
      BY <1>1 DEF FillStart, Heads, Queue
    <2>2. \A v \in Users : v # u => user'[v] = user[v]
      BY <1>1 DEF FillStart, TypeOK
    <2>3. ASSUME NEW r \in Requests
          PROVE  /\ lookups[r].user # u => lookups'[r] = lookups[r]
                 /\ lookups[r].user = u =>
                      lookups'[r].user = u /\ lookups'[r].name = u /\ lookups'[r].fresh
      <3>1. lookups[r] \in LookupRec
        BY DEF TypeOK
      <3>2. lookups'[r] = IF lookups[r].user = u /\ lookups[r].name = u
                          THEN [lookups[r] EXCEPT !.fresh = TRUE] ELSE lookups[r]
        BY <1>1 DEF FillStart
      <3>3. lookups[r].user = u => lookups[r].name = u
        BY DEF AnswerInv, FreshInv
      <3> QED BY <3>1, <3>2, <3>3 DEF LookupRec
    <2>4. FreshInv'
      BY <2>2, <2>3 DEF AnswerInv, FreshInv
    <2> QED BY <2>1, <2>4 DEF AnswerInv, SyncAnswerTrue
  <1>2. ASSUME NEW u \in Users, FillFull(u) PROVE FALSE
    <2>1. ~user[u].popped /\ IdleConns = {}
      BY <1>2 DEF FillFull, Heads, Queue
    <2> QED BY <2>1, ClientToSpare
  <1>3. ASSUME NEW u \in Users, FillWait(u) PROVE AnswerInv'
    BY <1>3, AnswerFrame DEF FillWait
  <1>4. ASSUME FillEmpty PROVE AnswerInv'
    BY <1>4, AnswerFrame DEF FillEmpty
  <1>5. ASSUME Return PROVE AnswerInv'
    BY <1>5, ReturnFields, AnswerFrame DEF Return
  <1> QED BY <1>1, <1>2, <1>3, <1>4, <1>5 DEF Fill

LEMMA AnswerCommand ==
  ASSUME Gentle, TypeOK, SyncInv, LostInv, AnswerInv, Command PROVE AnswerInv'
  <1>0. UpdatePriorities \subseteq NONE..SYNC /\ NONE \in NONE..SYNC /\ SYNC \in NONE..SYNC
    BY ConstantsAssumption
  <1>1. ASSUME NEW u \in Users, NEW p \in NONE..SYNC, replicator_queue_add_int(u, p),
               lookups' \in Allocations(u), UNCHANGED answer
        PROVE  AnswerInv'
    <2>1. \A v \in Users : user'[v].popped = user[v].popped
      BY <1>1, AddIntPopped
    <2> QED BY <1>1, <2>1, NoAllocation, AnswerFrame
  <1>2. ASSUME NEW u \in Users, NEW r \in Requests, NotifySync(u, r) PROVE AnswerInv'
    <2>1. PICK l \in Allocations(u) :
            lookups' = [l EXCEPT ![r] = [name |-> u, user |-> u,
                          wait |-> wait_for_next_push(u), fresh |-> FALSE]]
      BY <1>2 DEF NotifySync
    <2>2. l \in [Requests -> LookupRec]
      BY AllocationsType
    <2>3. \A q \in Requests : q # r => lookups'[q] = lookups[q]
      BY <2>1, <2>2, NoAllocation
    <2>4. lookups'[r].user = u /\ lookups'[r].name = u /\ lookups'[r].wait = user[u].popped
      BY <2>1, <2>2 DEF wait_for_next_push
    <2>5. replicator_queue_add_int(u, SYNC) /\ UNCHANGED <<answer, clients>>
      BY <1>2 DEF NotifySync
    <2>6. \A v \in Users : user'[v].popped = user[v].popped
      BY <1>0, <2>5, AddIntPopped
    <2>7. FreshInv'
      BY <2>3, <2>4, <2>6 DEF AnswerInv, FreshInv
    <2> QED BY <2>5, <2>7 DEF AnswerInv, SyncAnswerTrue
  <1>3. ASSUME NEW u \in Users, client_input_remove(u) PROVE AnswerInv'
    <2>1. /\ \A r \in Requests : lookups[r].user # u
          /\ user' = [user EXCEPT ![u] = NewUser] /\ answer' = answer
      BY <1>3 DEF Gentle, client_input_remove, replicator_queue_remove, MayHappen, Unawaited
    <2>2. \A r \in Requests : lookups'[r] = lookups[r]
      BY <1>3, <2>1 DEF client_input_remove, replicator_queue_remove
    <2>3. \A v \in Users : user'[v].popped => user[v].popped
      BY <2>1 DEF NewUser, TypeOK
    <2> QED BY <2>1, <2>2, <2>3, AnswerFrame
  <1> QED BY <1>0, <1>1, <1>2, <1>3
          DEF Command, client_input_add, NotifyUpdate, client_input_replicate,
              client_input_notify

LEMMA AnswerReplied ==
  ASSUME Gentle, TypeOK, SyncInv, LostInv, AnswerInv, Replied PROVE AnswerInv'
  <1>1. ASSUME NEW c \in Conns, NEW reply \in {"OK", "FAIL", "NOUSER"},
               dsync_callback(c, reply)
        PROVE  AnswerInv'
    <2> PICK u \in Users : u = clients[c].user
      BY <1>1 DEF dsync_callback
    <2>1. user[u].popped
      BY DEF SyncInv, OneSyncPerUser, Running
    <2>2. CASE reply = "NOUSER"
      <3>1. /\ user' = [user EXCEPT ![u] = NewUser] /\ answer' = answer
            /\ \A r \in Requests : lookups[r].user # u /\ lookups'[r] = lookups[r]
        BY <1>1, <2>2 DEF dsync_callback, replicator_queue_remove, Gentle, MayHappen, Unawaited
      <3>2. \A v \in Users : user'[v].popped => user[v].popped
        BY <3>1 DEF NewUser, TypeOK
      <3> QED BY <3>1, <3>2, AnswerFrame
    <2>3. CASE reply # "NOUSER"
      <3> DEFINE rec == [user EXCEPT ![u].last_sync_failed = (reply # "OK")]
      <3>1. replicator_queue_push(rec, {u})
        BY <1>1, <2>3 DEF dsync_callback
      <3>2. \A v \in Users : v # u => rec[v] = user[v]
        BY DEF TypeOK
      <3>3. user[u] \in UserRec /\ rec[u] = [user[u] EXCEPT !.last_sync_failed = (reply # "OK")]
        BY DEF TypeOK
      <3> HIDE DEF rec
      <3>4. ~user'[u].popped /\ \A v \in Users : v # u => user'[v] = user[v]
        <4>1. rec[u] \in UserRec
          BY <3>3 DEF UserRec
        <4> QED BY <3>1, <3>2, <4>1 DEF replicator_queue_push, UserRec
      <3>5. ASSUME NEW r \in Requests
            PROVE  /\ answer'[r] # "early"
                   /\ lookups'[r].user \in Users =>
                        /\ lookups'[r].user = lookups[r].user /\ lookups'[r].name = lookups[r].name
                        /\ lookups[r].user # u => lookups'[r] = lookups[r]
        <4>1. /\ answer'[r] = IF r \notin Ready({u}) THEN answer[r]
                              ELSE IF rec[lookups[r].user].last_sync_failed THEN "-"
                              ELSE IF lookups[r].fresh THEN "+" ELSE "early"
              /\ lookups'[r] = IF r \in Ready({u}) THEN NoLookup
                               ELSE IF r \in Waiting({u}) THEN [lookups[r] EXCEPT !.wait = FALSE]
                               ELSE lookups[r]
          BY <3>1 DEF replicator_queue_push, handle_sync_lookups
        <4>2. r \in Ready({u}) => lookups[r].fresh
          BY <2>1 DEF Ready, AnswerInv, FreshInv
        <4>3. answer'[r] # "early"
          BY <4>1, <4>2 DEF AnswerInv, SyncAnswerTrue
        <4>4. lookups[r] \in LookupRec /\ NULL \notin Users
          BY ConstantsAssumption DEF TypeOK
        <4>5. CASE r \in Ready({u})
          BY <4>1, <4>3, <4>4, <4>5 DEF NoLookup
        <4>6. CASE r \notin Ready({u})
          BY <4>1, <4>3, <4>4, <4>6 DEF LookupRec, Waiting
        <4> QED BY <4>5, <4>6
      <3>6. FreshInv'
        BY <3>4, <3>5 DEF AnswerInv, FreshInv
      <3> QED BY <3>5, <3>6 DEF AnswerInv, SyncAnswerTrue
    <2> QED BY <2>2, <2>3
  <1>2. ASSUME NEW c \in Conns, DsyncCallbackFreed(c) PROVE FALSE
    BY <1>2 DEF DsyncCallbackFreed, LostInv, LookupInv
  <1> QED BY <1>1, <1>2 DEF Replied

LEMMA AnswerNext ==
  ASSUME Gentle, Spare, TypeOK, SyncInv, LostInv, CallbackInv, AnswerInv, [Next]_vars
  PROVE  AnswerInv'
  <1>1. CASE main_deinit \/ Crash
    <2>1. /\ \A r \in Requests : lookups'[r] = NoLookup
          /\ \A r \in Requests : answer'[r] = answer[r] \/ answer'[r] = "-"
      BY <1>1 DEF main_deinit, Crash, Gone
    <2> QED BY <2>1, ConstantsAssumption DEF AnswerInv, SyncAnswerTrue, FreshInv, NoLookup
  <1>2. CASE main_init
    <2>1. /\ \A u \in Users : ~user'[u].popped
          /\ UNCHANGED <<lookups, answer>>
      BY <1>2 DEF main_init, replicator_queue_import, SyncInv
    <2> QED BY <2>1, AnswerFrame
  <1>3. CASE replicator_dump_timeout
    BY <1>3, AnswerFrame DEF replicator_dump_timeout
  <1>4. CASE replicator_brain_timeout
    BY <1>4, AnswerFrame DEF replicator_brain_timeout
  <1>5. CASE Tick
    BY <1>5, OlderFields, AnswerFrame DEF Tick, TypeOK
  <1>6. CASE UNCHANGED vars
    BY <1>6, AnswerFrame DEF vars
  <1> QED BY <1>1, <1>2, <1>3, <1>4, <1>5, <1>6, AnswerFill, AnswerCommand, AnswerReplied
          DEF Next, Process

\* A sync request is answered "+" only when a dsync of its user that began
\* after the request has succeeded (replicator_queue_add_sync(), wait_for_next_push),
\* if there are more dsync clients than users and the environment is gentle,
\* for any number of users, clients and requests.
THEOREM AnswersNotEarly == ASSUME Gentle, Spare PROVE Spec => []SyncAnswerTrue
  <1>1. TypeOK /\ SyncInv /\ LostInv /\ CallbackInv /\ AnswerInv /\ [Next]_vars => AnswerInv'
    BY AnswerNext
  <1>2. AnswerInv => SyncAnswerTrue
    BY DEF AnswerInv
  <1> QED BY <1>1, <1>2, AnswerInit, LostAlways, CallbackAlways, PTL DEF Spec
=============================================================================
