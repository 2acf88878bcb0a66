------------------------------ MODULE Penalty -------------------------------
(***************************************************************************)
(* anvil/penalty.c: for each address the penalty of its failed logins, in  *)
(* a list from which records expire oldest first by a single timer.  The   *)
(* time of the last update is kept as a small offset from the time of the  *)
(* last penalty, so that a repeated checksum (the same user and password)  *)
(* postpones the expiry and not the penalty.                               *)
(*                                                                         *)
(* The array of checksums is a sequence, most recently used first, of at   *)
(* most CHECKSUM_VALUE_PTR_COUNT elements; that the first two of them are  *)
(* kept in the record itself is left out.                                  *)
(***************************************************************************)
EXTENDS Integers, Sequences, SequencesExt, FiniteSetsExt

CONSTANTS
  PIdents,     \* addresses
  Checksums,   \* 0: no checksum
  Values,      \* penalties that auth asks for
  ExpireSecs,  \* values of expire_secs; the largest is the default
  UpdateMod,   \* 2 ^ LAST_UPDATE_BITS
  ChecksumMax, \* CHECKSUM_VALUE_PTR_COUNT
  MaxTime      \* bound on time

ASSUME PenAssumption ==
  /\ Checksums \subseteq Nat /\ Values \subseteq Nat /\ ExpireSecs \subseteq Nat \ {0}
  /\ \E m \in ExpireSecs : \A secs \in ExpireSecs : secs <= m
  /\ UpdateMod \in Nat \ {0} /\ ChecksumMax \in Nat \ {0} /\ MaxTime \in Nat

VARIABLES
  now,          \* ioloop_time
  plist,        \* penalty->oldest .. penalty->newest
  prec,         \* the records
  expire_secs,
  to,           \* when the timer fires, None if there is no timer
  touched       \* history: when penalty_inc() was last called

penVars == <<now, plist, prec, expire_secs, to, touched>>

None == -1
NewRec == [penalty |-> 0, last_penalty |-> 0, last_update |-> 0, sums |-> <<>>]
Unlinked(p) == RemoveFirst(plist, p)
MaxExpire == Max(ExpireSecs)

PenInit ==
  /\ now = 0 /\ plist = <<>> /\ to = None /\ expire_secs = MaxExpire
  /\ prec = [p \in PIdents |-> NewRec]
  /\ touched = [p \in PIdents |-> None]

\* penalty_bump_checksum() when the checksum is known, else penalty_add_checksum().
BumpChecksum(sums, c) ==
  LET s == <<c>> \o RemoveFirst(sums, c)
  IN  SubSeq(s, 1, IF Len(s) < ChecksumMax THEN Len(s) ELSE ChecksumMax)

\* Mutant: the offset is cut to its width.
OffsetWraps(r) == [r EXCEPT !.last_update = (now - r.last_penalty) % UpdateMod]

\* The offset from last_penalty has LAST_UPDATE_BITS bits.
Updated(r) ==
  IF now - r.last_penalty >= UpdateMod
  THEN [r EXCEPT !.last_update = UpdateMod - 1,
                 !.last_penalty = now - (UpdateMod - 1)]
  ELSE [r EXCEPT !.last_update = now - r.last_penalty]

Increased(r, c, v) ==
  IF c # 0 /\ Contains(r.sums, c)
  THEN [r EXCEPT !.penalty = v - 1, !.sums = BumpChecksum(r.sums, c)]
  ELSE [r EXCEPT !.penalty = v, !.last_penalty = now,
                 !.sums = IF c = 0 THEN @ ELSE BumpChecksum(r.sums, c)]

\* Mutant: the record keeps its place in the list.
IncInPlace(p, c, v) ==
  /\ v > 0 \/ c = 0
  /\ prec' = [prec EXCEPT ![p] = Updated(Increased(prec[p], c, v))]
  /\ plist' = IF Contains(plist, p) THEN plist ELSE Append(plist, p)
  /\ to' = IF to = None THEN now + expire_secs ELSE to
  /\ touched' = [touched EXCEPT ![p] = now]
  /\ UNCHANGED <<now, expire_secs>>

penalty_inc(p, c, v) ==
  /\ v > 0 \/ c = 0
  /\ prec' = [prec EXCEPT ![p] = Updated(Increased(prec[p], c, v))]
  /\ plist' = Append(Unlinked(p), p)
  /\ to' = IF to = None THEN now + expire_secs ELSE to
  /\ touched' = [touched EXCEPT ![p] = now]
  /\ UNCHANGED <<now, expire_secs>>

penalty_set_expire_secs(secs) ==
  /\ expire_secs' = secs
  /\ UNCHANGED <<now, plist, prec, to, touched>>

LastUpdate(p) == prec[p].last_penalty + prec[p].last_update
Fresh(p) == LastUpdate(p) > now - expire_secs

\* Records are dropped up to the first that is not old enough, and the timer is
\* set for when that one will be.
penalty_timeout ==
  LET left == SelectInSeq(plist, Fresh)
      kept == IF left = 0 THEN <<>> ELSE SubSeq(plist, left, Len(plist))
  IN  /\ to # None /\ now >= to
      /\ plist' = kept
      /\ prec' = [p \in PIdents |-> IF Contains(kept, p) THEN prec[p] ELSE NewRec]
      /\ to' = IF kept = <<>> THEN None
               ELSE now + LastUpdate(Head(kept)) - (now - expire_secs)
      /\ UNCHANGED <<now, expire_secs, touched>>

\* The event loop calls a timer that is due before a second has passed.
Second ==
  /\ now < MaxTime /\ (to = None \/ now < to)
  /\ now' = now + 1
  /\ UNCHANGED <<plist, prec, expire_secs, to, touched>>

PenNext ==
  \/ \E p \in PIdents, c \in Checksums, v \in Values : penalty_inc(p, c, v)
  \/ \E secs \in ExpireSecs : penalty_set_expire_secs(secs)
  \/ penalty_timeout \/ Second

PenSpec == PenInit /\ [][PenNext]_penVars

-----------------------------------------------------------------------------
(* Properties.                                                             *)

\* Every record is dropped in the end: none is older than the longest
\* expire_secs, though only one timer runs and it looks at the oldest record.
PenaltyAge ==
  \A p \in PIdents : Contains(plist, p) => now - touched[p] <= MaxExpire

\* No record is dropped early: penalty_timeout() frees a record only when
\* penalty_inc() was not called for it for expire_secs, although only a short
\* offset is stored of the time of the last call.
PenaltyNotEarly ==
  [][\A p \in PIdents : Contains(plist, p) /\ ~Contains(plist', p)
       => now - touched[p] >= expire_secs]_penVars
=============================================================================
