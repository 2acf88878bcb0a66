--------------------------- MODULE DirectorProofs ---------------------------
(***************************************************************************)
(* Proofs about the directors: user moves, for rings of any size, any      *)
(* hosts and every environment, and the mail hosts, for rings of any size, *)
(* any commands and any bounds.                                            *)
(***************************************************************************)
EXTENDS UserMove, HostSync, ListLemmas

-----------------------------------------------------------------------------
(***************************************************************************)
(* User moves (UserMove).                                                  *)
(***************************************************************************)

Links == [Directors -> [Sides -> Seq(MsgRec)]]
Counts == [kill : Nat, flush : Nat, freed : Nat]

\* A callback is pending only in the states that wait for one.
PendingKill(k) == k.pending => k.state \in {"killing", "killing_notify", "flushing"}

\* n counts the context k and the orphans o.
Counted(k, n, o) == n >= (IF k.state # "none" THEN 1 ELSE 0) + o.kill

CtxInv ==
  /\ kill \in [Directors -> KillRec]
  /\ moving \in [Directors -> Nat]
  /\ orphans \in [Directors -> Counts]
  /\ \A d \in Directors : /\ PendingKill(kill[d])
                          /\ Counted(kill[d], moving[d], orphans[d])

RingInv ==
  /\ host \in [Directors -> Hosts \union {NoHost}]
  /\ last_seq \in [Directors -> [Directors -> Nat]]
  /\ link \in Links

ProxyInv ==
  /\ conns \in [Directors -> SUBSET Hosts]
  /\ kicks \in [Directors -> SUBSET Hosts]
  /\ moves \in Nat /\ logins \in Nat

MoveInv == CtxInv /\ RingInv /\ ProxyInv /\ MoveAsserts

-----------------------------------------------------------------------------
(* Links and contexts                                                      *)

LEMMA SendRightType ==
  ASSUME NEW l \in Links, NEW d \in Directors, NEW m \in MsgRec
  PROVE  SendRight(l, d, m) \in Links
  BY DEF SendRight, Links, Sides

LEMMA UpdateSendType ==
  ASSUME NEW l \in Links, NEW d \in Directors, NEW src, NEW m \in MsgRec
  PROVE  director_update_send(l, d, src, m) \in Links
  BY DEF director_update_send, Links, Sides

LEMMA HostMsg ==
  ASSUME NEW cmd \in Commands \ Killed, NEW d \in Directors, NEW seq \in Nat,
         NEW h \in Hosts
  PROVE  Msg(cmd, d, seq, h) \in MsgRec
  BY DEF Msg, MsgRec

LEMMA KilledMsg ==
  ASSUME NEW cmd \in Killed, NEW d \in Directors, NEW seq \in Nat
  PROVE  Msg(cmd, d, seq, NoHost) \in MsgRec
  BY DEF Msg, MsgRec

LEMMA UserMsg ==
  ASSUME NEW d \in Directors, NEW h \in Hosts
  PROVE  USER(d, h) \in MsgRec
  BY HostMsg DEF USER, Commands, Killed

LEMMA NoKillType == NoKill \in KillRec /\ PendingKill(NoKill)
  BY DEF NoKill, KillRec, KillStates, PendingKill

LEMMA FlushUserType ==
  ASSUME NEW k \in KillRec, ~k.pending
  PROVE  /\ director_flush_user(k) \in KillRec
         /\ director_flush_user(k).state # "none"
         /\ PendingKill(director_flush_user(k))
  BY DEF director_flush_user, KillRec, KillStates, PendingKill

LEMMA FinishKillType ==
  ASSUME NEW k \in KillRec, ~k.pending, NEW self \in BOOLEAN
  PROVE  /\ director_finish_user_kill(k, self) \in KillRec
         /\ director_finish_user_kill(k, self).state # "none"
         /\ PendingKill(director_finish_user_kill(k, self))
  <1>1. CASE N = 1
    BY <1>1, FlushUserType DEF director_finish_user_kill
  <1>2. CASE N # 1
    BY <1>2 DEF director_finish_user_kill, KillRec, KillStates, PendingKill
  <1> QED BY <1>1, <1>2

LEMMA AnnouncedType ==
  ASSUME NEW l \in Links, NEW d \in Directors, NEW k
  PROVE  Announced(l, d, k) \in Links
  <1>1. USER_KILLED(d) \in MsgRec
    BY KilledMsg DEF USER_KILLED, Killed
  <1> QED BY <1>1, SendRightType DEF Announced

\* A step that touches the context, the count and the orphans of one director.
LEMMA CtxStep ==
  ASSUME CtxInv, NEW d \in Directors, NEW k \in KillRec, NEW n \in Nat,
         NEW o \in Counts, PendingKill(k), Counted(k, n, o),
         kill' = [kill EXCEPT ![d] = k], moving' = [moving EXCEPT ![d] = n],
         orphans' = [orphans EXCEPT ![d] = o]
  PROVE  CtxInv'
  <1>1. /\ kill' \in [Directors -> KillRec] /\ moving' \in [Directors -> Nat]
        /\ orphans' \in [Directors -> Counts]
    BY DEF CtxInv
  <1>2. ASSUME NEW e \in Directors
        PROVE  PendingKill(kill'[e]) /\ Counted(kill'[e], moving'[e], orphans'[e])
    <2>1. CASE e = d
      <3>1. kill'[e] = k /\ moving'[e] = n /\ orphans'[e] = o
        BY <2>1 DEF CtxInv
      <3> QED BY <3>1
    <2>2. CASE e # d
      <3>1. kill'[e] = kill[e] /\ moving'[e] = moving[e] /\ orphans'[e] = orphans[e]
        BY <2>2 DEF CtxInv
      <3> QED BY <3>1 DEF CtxInv
    <2> QED BY <2>1, <2>2
  <1>3. \A e \in Directors : PendingKill(kill[e])' /\ Counted(kill[e], moving[e], orphans[e])'
    BY <1>2 DEF PendingKill, Counted
  <1> QED BY <1>1, <1>3 DEF CtxInv

LEMMA CtxSame == ASSUME CtxInv, UNCHANGED <<kill, moving, orphans>> PROVE CtxInv'
  BY DEF CtxInv, PendingKill, Counted

\* A change of the context alone, while the count stays.
LEMMA CtxKill ==
  ASSUME CtxInv, NEW d \in Directors, NEW k \in KillRec, PendingKill(k),
         kill[d].state # "none", kill' = [kill EXCEPT ![d] = k],
         UNCHANGED <<moving, orphans>>
  PROVE  CtxInv'
  <1>1. /\ moving[d] \in Nat /\ orphans[d] \in Counts /\ kill[d] \in KillRec
        /\ Counted(kill[d], moving[d], orphans[d])
    BY DEF CtxInv
  <1>2. Counted(k, moving[d], orphans[d])
    BY <1>1 DEF Counted, Counts
  <1>3. /\ moving' = [moving EXCEPT ![d] = moving[d]]
        /\ orphans' = [orphans EXCEPT ![d] = orphans[d]]
    BY DEF CtxInv
  <1> DEFINE n == moving[d]  o == orphans[d]
  <1>4. /\ n \in Nat /\ o \in Counts /\ Counted(k, n, o)
        /\ moving' = [moving EXCEPT ![d] = n]
        /\ orphans' = [orphans EXCEPT ![d] = o]
    BY <1>1, <1>2, <1>3
  <1> HIDE DEF n, o
  <1> QED BY <1>4, CtxStep

\* director_user_move_free() of a context finds it counted.
LEMMA MoveFree ==
  ASSUME CtxInv, MoveAsserts, NEW d \in Directors, USER_IS_BEING_KILLED(d),
         director_user_move_free(d)
  PROVE  /\ fault' = fault
         /\ kill' = [kill EXCEPT ![d] = NoKill]
         /\ moving' = [moving EXCEPT ![d] = moving[d] - 1]
         /\ moving[d] - 1 \in Nat
         /\ \A o \in Counts : o.kill = orphans[d].kill =>
              Counted(NoKill, moving[d] - 1, o)
  <1>1. /\ moving[d] \in Nat /\ orphans[d] \in Counts
        /\ Counted(kill[d], moving[d], orphans[d]) /\ kill[d].state # "none"
    BY DEF CtxInv, USER_IS_BEING_KILLED
  <1>2. orphans[d].kill \in Nat /\ moving[d] >= 1 + orphans[d].kill
    BY <1>1 DEF Counted, Counts
  <1> QED BY <1>1, <1>2 DEF director_user_move_free, Counted, NoKill

LEMMA MoveFreeInv ==
  ASSUME CtxInv, MoveAsserts, NEW d \in Directors, USER_IS_BEING_KILLED(d),
         director_user_move_free(d), UNCHANGED orphans
  PROVE  CtxInv' /\ MoveAsserts'
  <1>1. orphans[d] \in Counts /\ orphans' = [orphans EXCEPT ![d] = orphans[d]]
    BY DEF CtxInv
  <1>2. CtxInv'
    BY <1>1, MoveFree, NoKillType, CtxStep
  <1> QED BY <1>2, MoveFree DEF MoveAsserts

-----------------------------------------------------------------------------
(* Kills, moves and freed users                                            *)

LEMMA KillUser ==
  ASSUME CtxInv, NEW l \in Links, NEW d \in Directors, NEW src, NEW old, NEW h,
         director_kill_user(l, d, src, old, h), UNCHANGED orphans
  PROVE  CtxInv' /\ link' \in Links
  <1>1. CASE USER_IS_BEING_KILLED(d)
    BY <1>1, CtxSame DEF director_kill_user
  <1>2. CASE ~USER_IS_BEING_KILLED(d)
    <2> DEFINE kick == old \notin {NoHost, h}
               ctx == [state |-> "killing", self |-> src = d, old |-> old # NoHost,
                       pending |-> kick]
               k == IF kick THEN ctx ELSE director_finish_user_kill(ctx, ctx.self)
               n == moving[d] + 1
               o == orphans[d]
    <2>1. /\ kill' = [kill EXCEPT ![d] = k] /\ link' = Announced(l, d, k)
          /\ moving' = [moving EXCEPT ![d] = n]
      BY <1>2 DEF director_kill_user
    <2>2. ctx \in KillRec /\ PendingKill(ctx) /\ ctx.self \in BOOLEAN
          /\ ctx.state # "none" /\ ctx.pending = kick
      BY DEF KillRec, KillStates, PendingKill
    <2>3. k \in KillRec /\ PendingKill(k) /\ k.state # "none"
      <3> HIDE DEF kick, ctx
      <3>1. CASE kick
        BY <3>1, <2>2
      <3>2. CASE ~kick
        BY <3>2, <2>2, FinishKillType
      <3> QED BY <3>1, <3>2
    <2>4. /\ moving[d] \in Nat /\ o \in Counts /\ kill[d].state = "none"
          /\ Counted(kill[d], moving[d], o)
      BY <1>2 DEF CtxInv, USER_IS_BEING_KILLED
    <2> HIDE DEF k
    <2>5. n \in Nat /\ Counted(k, n, o)
      BY <2>3, <2>4 DEF Counted, Counts
    <2>6. orphans' = [orphans EXCEPT ![d] = o]
      BY DEF CtxInv
    <2> HIDE DEF n, o
    <2>7. CtxInv'
      BY <2>1, <2>3, <2>4, <2>5, <2>6, CtxStep
    <2> QED BY <2>1, <2>7, AnnouncedType
  <1> QED BY <1>1, <1>2

LEMMA MoveUser ==
  ASSUME CtxInv, host \in [Directors -> Hosts \union {NoHost}],
         NEW l \in Links, NEW d \in Directors, NEW src, NEW orig \in Directors,
         NEW seq \in Nat, NEW h \in Hosts,
         director_move_user(l, d, src, orig, seq, h), UNCHANGED orphans
  PROVE  /\ CtxInv' /\ link' \in Links
         /\ host' \in [Directors -> Hosts \union {NoHost}]
  <1> DEFINE m == Msg("USER-MOVE", orig, seq, h)
             l2 == director_update_send(l, d, src, m)
             old == host[d]
  <1>1. m \in MsgRec
    BY HostMsg DEF Commands, Killed
  <1>2. l2 \in Links
    BY <1>1, UpdateSendType
  <1>3. director_kill_user(l2, d, src, old, h) /\ host' = [host EXCEPT ![d] = h]
    BY DEF director_move_user
  <1> HIDE DEF l2, old
  <1>4. CtxInv' /\ link' \in Links
    BY <1>2, <1>3, KillUser
  <1> QED BY <1>3, <1>4

LEMMA UserFreed ==
  ASSUME CtxInv, MoveAsserts, host \in [Directors -> Hosts \union {NoHost}],
         NEW d \in Directors, director_user_freed(d)
  PROVE  /\ CtxInv' /\ MoveAsserts'
         /\ host' \in [Directors -> Hosts \union {NoHost}]
  <1>1. host' \in [Directors -> Hosts \union {NoHost}]
    BY DEF director_user_freed
  <1>2. CASE kill[d].pending
    <2> DEFINE o == Orphaned(orphans[d], kill[d])
               n == moving[d]
    <2>1. /\ orphans' = [orphans EXCEPT ![d] = o] /\ UNCHANGED <<moving, fault>>
          /\ kill' = [kill EXCEPT ![d] = NoKill]
      BY <1>2 DEF director_user_freed
    <2>2. /\ orphans[d] \in Counts /\ n \in Nat /\ kill[d].state # "none"
          /\ Counted(kill[d], n, orphans[d])
      BY <1>2 DEF CtxInv, PendingKill
    <2>3. o \in Counts /\ Counted(NoKill, n, o)
      BY <2>2 DEF Counts, Counted, NoKill, Orphaned
    <2>4. moving' = [moving EXCEPT ![d] = n]
      BY <2>1 DEF CtxInv
    <2>5. fault' = fault
      BY <2>1
    <2> HIDE DEF o, n
    <2>6. CtxInv'
      BY <2>1, <2>2, <2>3, <2>4, NoKillType, CtxStep
    <2> QED BY <1>1, <2>5, <2>6 DEF MoveAsserts
  <1>3. CASE ~kill[d].pending /\ USER_IS_BEING_KILLED(d)
    BY <1>1, <1>3, MoveFreeInv DEF director_user_freed
  <1>4. CASE ~kill[d].pending /\ ~USER_IS_BEING_KILLED(d)
    BY <1>1, <1>4, CtxSame DEF director_user_freed, MoveAsserts
  <1> QED BY <1>2, <1>3, <1>4

LEMMA FlushHost ==
  ASSUME CtxInv, MoveAsserts, host \in [Directors -> Hosts \union {NoHost}],
         NEW l \in Links, NEW d \in Directors, NEW src, NEW orig \in Directors,
         NEW seq \in Nat, NEW h \in Hosts,
         director_flush_host(l, d, src, orig, seq, h)
  PROVE  /\ CtxInv' /\ MoveAsserts' /\ link' \in Links
         /\ host' \in [Directors -> Hosts \union {NoHost}]
  <1>1. Msg("HOST-FLUSH", orig, seq, h) \in MsgRec
    BY HostMsg DEF Commands, Killed
  <1>2. link' \in Links
    BY <1>1, UpdateSendType DEF director_flush_host
  <1>3. CASE host[d] = h
    BY <1>2, <1>3, UserFreed DEF director_flush_host
  <1>4. CASE host[d] # h
    BY <1>2, <1>4, CtxSame DEF director_flush_host, MoveAsserts
  <1> QED BY <1>3, <1>4

-----------------------------------------------------------------------------
(* One step per message                                                    *)

LEMMA SeqTypes ==
  ASSUME RingInv, NEW d \in Directors
  PROVE  /\ OwnSeq(d) \in Nat
         /\ NextSeq(d) \in [Directors -> [Directors -> Nat]]
  <1>1. last_seq[d] \in [Directors -> Nat] /\ last_seq[d][d] \in Nat
    BY DEF RingInv
  <1> QED BY <1>1 DEF RingInv, OwnSeq, NextSeq

LEMMA MarkSeenType ==
  ASSUME RingInv, NEW d \in Directors, NEW m \in MsgRec, MarkSeen(d, m)
  PROVE  last_seq' \in [Directors -> [Directors -> Nat]]
  <1>1. m.seq \in Nat /\ m.orig \in Directors
    BY DEF MsgRec
  <1> QED BY <1>1 DEF RingInv, MarkSeen

LEMMA MsgFields ==
  ASSUME NEW m \in MsgRec
  PROVE  /\ m.orig \in Directors /\ m.seq \in Nat
         /\ m.cmd \notin Killed => m.h \in Hosts
  BY DEF MsgRec

LEMMA UserRecv ==
  ASSUME MoveInv, NEW l \in Links, NEW d \in Directors, NEW src, NEW m \in MsgRec,
         m.cmd = "USER", RecvUser(l, d, src, m), UNCHANGED <<moves, logins>>
  PROVE  MoveInv'
  <1> DEFINE conflict == /\ host[d] \notin {NoHost, m.h}
                         /\ ~USER_IS_BEING_KILLED(d)
             forced == conflict /\ host[d] > m.h
             h == IF host[d] = NoHost \/ forced THEN m.h ELSE host[d]
             kicked == IF conflict
                       THEN director_update_send(l, d, d,
                              Msg("USER-KICK-HASH", d, OwnSeq(d), h))
                       ELSE l
  <1>1. m.h \in Hosts /\ host \in [Directors -> Hosts \union {NoHost}]
    BY MsgFields DEF Killed, MoveInv, RingInv
  <1>2. h \in Hosts
    BY <1>1
  <1>3. kicked \in Links
    <2> HIDE DEF h, conflict
    <2>1. Msg("USER-KICK-HASH", d, OwnSeq(d), h) \in MsgRec
      BY <1>2, SeqTypes, HostMsg DEF Commands, Killed, MoveInv
    <2> QED BY <2>1, UpdateSendType
  <1>4. /\ host' = [host EXCEPT ![d] = h]
        /\ last_seq' = IF conflict THEN NextSeq(d) ELSE last_seq
        /\ kicks' = IF conflict THEN [kicks EXCEPT ![d] = @ \union {h}] ELSE kicks
        /\ \E s : link' \in {director_update_send(kicked, d, s, USER(d, h)), l}
        /\ UNCHANGED <<kill, orphans, moving, conns, fault>>
    BY DEF RecvUser
  <1> HIDE DEF conflict, forced, h, kicked
  <1>5. link' \in Links
    BY <1>2, <1>3, <1>4, UserMsg, UpdateSendType
  <1>6. RingInv'
    BY <1>1, <1>2, <1>4, <1>5, SeqTypes DEF MoveInv, RingInv
  <1>7. ProxyInv'
    BY <1>2, <1>4 DEF MoveInv, ProxyInv
  <1> QED BY <1>4, <1>6, <1>7, CtxSame DEF MoveInv, MoveAsserts

LEMMA UserMoveRecv ==
  ASSUME MoveInv, NEW l \in Links, NEW d \in Directors, NEW src, NEW m \in MsgRec,
         m.cmd = "USER-MOVE", RecvUserMove(l, d, src, m), UNCHANGED <<moves, logins>>
  PROVE  MoveInv'
  <1>1. CASE Seen(d, m)
    BY <1>1, CtxSame DEF RecvUserMove, MoveInv, RingInv, ProxyInv, MoveAsserts
  <1>2. CASE ~Seen(d, m)
    <2> DEFINE seq == m.seq  orig == m.orig  h == m.h
    <2>1. seq \in Nat /\ orig \in Directors /\ h \in Hosts
      BY MsgFields DEF Killed
    <2>2. /\ MarkSeen(d, m) /\ director_move_user(l, d, src, orig, seq, h)
          /\ UNCHANGED <<orphans, conns, kicks, fault>>
      BY <1>2 DEF RecvUserMove
    <2> HIDE DEF seq, orig, h
    <2>3. /\ CtxInv' /\ link' \in Links
          /\ host' \in [Directors -> Hosts \union {NoHost}]
      BY <2>1, <2>2, MoveUser DEF MoveInv, RingInv
    <2>4. RingInv'
      BY <2>2, <2>3, MarkSeenType DEF RingInv, MoveInv
    <2> QED BY <2>2, <2>3, <2>4 DEF MoveInv, ProxyInv, MoveAsserts
  <1> QED BY <1>1, <1>2

LEMMA UserKilledRecv ==
  ASSUME MoveInv, NEW l \in Links, NEW d \in Directors,
         RecvUserKilled(l, d), UNCHANGED <<moves, logins>>
  PROVE  MoveInv'
  <1> DEFINE everywhere == director_update_send(l, d, d,
                             Msg("USER-KILLED-EVERYWHERE", d, OwnSeq(d), NoHost))
             k == kill[d]
             finished == director_finish_user_kill(k, TRUE)
  <1>1. everywhere \in Links
    <2>1. Msg("USER-KILLED-EVERYWHERE", d, OwnSeq(d), NoHost) \in MsgRec
      BY SeqTypes, KilledMsg DEF Killed, MoveInv
    <2> QED BY <2>1, UpdateSendType
  <1>2. k \in KillRec /\ PendingKill(k)
    BY DEF MoveInv, CtxInv
  <1>3. UNCHANGED <<host, orphans, moving, conns, kicks>>
    BY DEF RecvUserKilled
  <1>4. SUFFICES CtxInv' /\ fault' = fault /\ link' \in Links
                 /\ last_seq' \in [Directors -> [Directors -> Nat]]
    BY <1>3 DEF MoveInv, RingInv, ProxyInv, MoveAsserts
  <1>5. CtxInv /\ last_seq \in [Directors -> [Directors -> Nat]] /\ RingInv
    BY DEF MoveInv, RingInv
  <1>6. CASE k.state = "killing"
    <2> DEFINE notified == [k EXCEPT !.state = "killing_notify"]
    <2>1. notified \in KillRec /\ PendingKill(notified)
      BY <1>2 DEF KillRec, KillStates, PendingKill
    <2>2. /\ kill' = [kill EXCEPT ![d] = notified] /\ link' = l
          /\ UNCHANGED <<last_seq, fault>>
      BY <1>6 DEF RecvUserKilled
    <2> HIDE DEF notified
    <2>3. CtxInv'
      BY <1>3, <1>5, <1>6, <2>1, <2>2, CtxKill
    <2> QED BY <1>5, <2>2, <2>3
  <1>7. CASE k.state = "waiting_notify"
    <2>1. FinishAssert(k, TRUE) /\ ~k.pending
      BY <1>2, <1>7 DEF FinishAssert, PendingKill, KillRec
    <2>2. finished \in KillRec /\ PendingKill(finished)
      BY <1>2, <2>1, FinishKillType
    <2>3. /\ kill' = [kill EXCEPT ![d] = finished]
          /\ link' = Announced(l, d, finished) /\ UNCHANGED <<last_seq, fault>>
      BY <1>7, <2>1 DEF RecvUserKilled
    <2> HIDE DEF finished
    <2>4. CtxInv'
      BY <1>3, <1>5, <1>7, <2>2, <2>3, CtxKill
    <2> QED BY <1>5, <2>3, <2>4, AnnouncedType
  <1>8. CASE k.state \in {"flushing", "delay"}
    <2>1. link' = everywhere /\ last_seq' = NextSeq(d) /\ UNCHANGED <<kill, fault>>
      BY <1>8 DEF RecvUserKilled
    <2> HIDE DEF everywhere
    <2> QED BY <1>1, <1>3, <1>5, <2>1, CtxSame, SeqTypes
  <1>9. CASE k.state = "waiting_everyone"
    <2> DEFINE flushed == director_flush_user(k)
    <2>1. ~k.pending
      BY <1>2, <1>9 DEF PendingKill, KillRec
    <2>2. flushed \in KillRec /\ PendingKill(flushed)
      BY <1>2, <2>1, FlushUserType
    <2>3. /\ kill' = [kill EXCEPT ![d] = flushed]
          /\ link' = everywhere /\ last_seq' = NextSeq(d) /\ UNCHANGED fault
      BY <1>9 DEF RecvUserKilled
    <2> HIDE DEF flushed, everywhere
    <2>4. CtxInv'
      BY <1>3, <1>5, <1>9, <2>2, <2>3, CtxKill
    <2> QED BY <1>1, <1>5, <2>3, <2>4, SeqTypes
  <1>10. CASE k.state \in {"none", "killing_notify"}
    <2>1. link' = l /\ UNCHANGED <<kill, last_seq, fault>>
      BY <1>10 DEF RecvUserKilled
    <2> QED BY <1>3, <1>5, <2>1, CtxSame
  <1> QED BY <1>2, <1>6, <1>7, <1>8, <1>9, <1>10 DEF KillRec, KillStates

LEMMA KilledEverywhereRecv ==
  ASSUME MoveInv, NEW l \in Links, NEW d \in Directors, NEW src, NEW m \in MsgRec,
         RecvKilledEverywhere(l, d, src, m), UNCHANGED <<moves, logins>>
  PROVE  MoveInv'
  <1>1. UNCHANGED <<host, orphans, moving, conns, kicks, fault>>
    BY DEF RecvKilledEverywhere
  <1>2. last_seq' \in [Directors -> [Directors -> Nat]]
    BY MarkSeenType DEF RecvKilledEverywhere, MoveInv, RingInv
  <1>3. SUFFICES CtxInv' /\ link' \in Links
    BY <1>1, <1>2 DEF MoveInv, RingInv, ProxyInv, MoveAsserts
  <1>4. CASE ~Seen(d, m) /\ kill[d].state = "waiting_everyone"
    <2> DEFINE flushed == director_flush_user(kill[d])
    <2>1. kill[d] \in KillRec /\ ~kill[d].pending
      BY <1>4 DEF MoveInv, CtxInv, PendingKill, KillRec
    <2>2. flushed \in KillRec /\ PendingKill(flushed)
      BY <2>1, FlushUserType
    <2>3. /\ kill' = [kill EXCEPT ![d] = flushed]
          /\ link' = director_update_send(l, d, src, m)
      BY <1>4 DEF RecvKilledEverywhere
    <2> HIDE DEF flushed
    <2>4. CtxInv'
      BY <1>1, <1>4, <2>2, <2>3, CtxKill DEF MoveInv
    <2> QED BY <2>3, <2>4, UpdateSendType
  <1>5. CASE ~(~Seen(d, m) /\ kill[d].state = "waiting_everyone")
    BY <1>1, <1>5, CtxSame DEF RecvKilledEverywhere, MoveInv
  <1> QED BY <1>4, <1>5

LEMMA KickHashRecv ==
  ASSUME MoveInv, NEW l \in Links, NEW d \in Directors, NEW src, NEW m \in MsgRec,
         m.cmd = "USER-KICK-HASH", RecvKickHash(l, d, src, m),
         UNCHANGED <<moves, logins>>
  PROVE  MoveInv'
  <1>1. UNCHANGED <<host, kill, orphans, moving, conns, fault>>
    BY DEF RecvKickHash
  <1>2. CtxInv' /\ MoveAsserts'
    BY <1>1, CtxSame DEF MoveInv, MoveAsserts
  <1>3. link' \in Links
    BY UpdateSendType DEF RecvKickHash
  <1>4. last_seq' \in [Directors -> [Directors -> Nat]]
    BY MarkSeenType DEF RecvKickHash, MoveInv, RingInv
  <1>5. m.h \in Hosts
    BY MsgFields DEF Killed
  <1>6. kicks' \in [Directors -> SUBSET Hosts]
    BY <1>5 DEF RecvKickHash, MoveInv, ProxyInv
  <1> QED BY <1>1, <1>2, <1>3, <1>4, <1>6 DEF MoveInv, RingInv, ProxyInv

LEMMA HostFlushRecv ==
  ASSUME MoveInv, NEW l \in Links, NEW d \in Directors, NEW src, NEW m \in MsgRec,
         m.cmd = "HOST-FLUSH", RecvHostFlush(l, d, src, m),
         UNCHANGED <<moves, logins>>
  PROVE  MoveInv'
  <1>1. CASE Seen(d, m)
    BY <1>1, CtxSame DEF RecvHostFlush, MoveInv, RingInv, ProxyInv, MoveAsserts
  <1>2. CASE ~Seen(d, m)
    <2> DEFINE seq == m.seq  orig == m.orig  h == m.h
    <2>1. seq \in Nat /\ orig \in Directors /\ h \in Hosts
      BY MsgFields DEF Killed
    <2>2. /\ MarkSeen(d, m) /\ director_flush_host(l, d, src, orig, seq, h)
          /\ UNCHANGED <<conns, kicks>>
      BY <1>2 DEF RecvHostFlush
    <2> HIDE DEF seq, orig, h
    <2>3. /\ CtxInv' /\ MoveAsserts' /\ link' \in Links
          /\ host' \in [Directors -> Hosts \union {NoHost}]
      BY <2>1, <2>2, FlushHost DEF MoveInv, RingInv
    <2>4. RingInv'
      BY <2>2, <2>3, MarkSeenType DEF RingInv, MoveInv
    <2> QED BY <2>2, <2>3, <2>4 DEF MoveInv, ProxyInv
  <1> QED BY <1>1, <1>2

LEMMA PeerType ==
  ASSUME NEW d \in Directors, NEW side \in Sides
  PROVE  Peer(d, side) \in Directors /\ Opposite(side) \in Sides
  BY MoveAssumption DEF Peer, Opposite, Directors, Sides

LEMMA ReceiveInv ==
  ASSUME MoveInv, NEW d \in Directors, NEW side \in Sides, Receive(d, side)
  PROVE  MoveInv'
  <1> DEFINE src == Peer(d, side)
             s == Opposite(side)
             q == link[src][s]
             m == Head(q)
             l == [link EXCEPT ![src][s] = Tail(q)]
  <1>1. src \in Directors /\ s \in Sides
    BY PeerType
  <1>2. q \in Seq(MsgRec) /\ q # <<>>
    BY <1>1 DEF MoveInv, RingInv, Links, Receive
  <1>3. m \in MsgRec /\ Tail(q) \in Seq(MsgRec)
    BY <1>2
  <1>4. l \in Links
    BY <1>1, <1>3 DEF MoveInv, RingInv, Links
  <1>5. m.cmd \in Commands
    BY <1>3 DEF MsgRec, Killed, Commands
  <1>6. /\ UNCHANGED <<moves, logins>>
        /\ \/ m.cmd = "USER" /\ RecvUser(l, d, src, m)
           \/ m.cmd = "USER-MOVE" /\ RecvUserMove(l, d, src, m)
           \/ m.cmd = "USER-KILLED" /\ RecvUserKilled(l, d)
           \/ m.cmd = "USER-KILLED-EVERYWHERE" /\ RecvKilledEverywhere(l, d, src, m)
           \/ m.cmd = "USER-KICK-HASH" /\ RecvKickHash(l, d, src, m)
           \/ m.cmd = "HOST-FLUSH" /\ RecvHostFlush(l, d, src, m)
    BY <1>5 DEF Receive, Commands
  <1> HIDE DEF src, m, l
  <1> QED BY <1>3, <1>4, <1>6, UserRecv, UserMoveRecv, UserKilledRecv,
             KilledEverywhereRecv, KickHashRecv, HostFlushRecv

-----------------------------------------------------------------------------
(* Logins and administrators                                               *)

LEMMA LoginInv ==
  ASSUME MoveInv, NEW d \in Directors, Login(d)
  PROVE  MoveInv'
  <1> DEFINE h == IF host[d] = NoHost THEN DefaultHost ELSE host[d]
  <1>1. h \in Hosts
    BY MoveAssumption DEF MoveInv, RingInv
  <1>2. /\ host' = [host EXCEPT ![d] = h]
        /\ conns' = [conns EXCEPT ![d] = @ \union {h}]
        /\ link' = director_update_send(link, d, d, USER(d, h))
        /\ UNCHANGED <<kill, orphans, moving, last_seq, kicks, fault, moves>>
        /\ logins' = logins + 1
    BY DEF Login
  <1> HIDE DEF h
  <1>3. link' \in Links
    BY <1>1, <1>2, UserMsg, UpdateSendType DEF MoveInv, RingInv
  <1>4. RingInv' /\ ProxyInv'
    BY <1>1, <1>2, <1>3 DEF MoveInv, RingInv, ProxyInv
  <1> QED BY <1>2, <1>4, CtxSame DEF MoveInv, MoveAsserts

\* A move that d starts itself.
LEMMA OwnMove ==
  ASSUME MoveInv, NEW d \in Directors, NEW h \in Hosts, last_seq' = NextSeq(d),
         director_move_user(link, d, d, d, OwnSeq(d), h),
         moves' = moves + 1, UNCHANGED <<orphans, conns, kicks, fault, logins>>
  PROVE  MoveInv'
  <1> DEFINE seq == OwnSeq(d)  l == link
  <1>1. seq \in Nat /\ NextSeq(d) \in [Directors -> [Directors -> Nat]] /\ l \in Links
    BY SeqTypes DEF MoveInv, RingInv
  <1>2. director_move_user(l, d, d, d, seq, h)
    OBVIOUS
  <1> HIDE DEF seq, l
  <1>3. /\ CtxInv' /\ link' \in Links
        /\ host' \in [Directors -> Hosts \union {NoHost}]
    BY <1>1, <1>2, MoveUser DEF MoveInv, RingInv
  <1> QED BY <1>1, <1>3 DEF MoveInv, RingInv, ProxyInv, MoveAsserts

LEMMA AdminInv ==
  ASSUME MoveInv, NEW d \in Directors, Admin(d)
  PROVE  MoveInv'
  <1>1. PICK h \in Hosts : \/ doveadm_cmd_user_move(d, h)
                           \/ director_host_reset_users(d, h)
                           \/ doveadm_cmd_host_flush(d, h)
    BY DEF Admin
  <1>2. CASE doveadm_cmd_user_move(d, h) /\ host[d] = h
    <2>1. /\ link' = director_update_send(link, d, d, USER(d, h))
          /\ UNCHANGED <<host, kill, moving, last_seq, orphans, conns, kicks,
                         fault, logins>>
          /\ moves' = moves + 1
      BY <1>2 DEF doveadm_cmd_user_move
    <2>2. link' \in Links
      BY <2>1, UserMsg, UpdateSendType DEF MoveInv, RingInv
    <2> QED BY <2>1, <2>2, CtxSame DEF MoveInv, RingInv, ProxyInv, MoveAsserts
  <1>3. CASE doveadm_cmd_user_move(d, h) /\ host[d] # h
    BY <1>3, OwnMove DEF doveadm_cmd_user_move
  <1>4. CASE director_host_reset_users(d, h)
    BY <1>4, OwnMove DEF director_host_reset_users
  <1>5. CASE doveadm_cmd_host_flush(d, h)
    <2> DEFINE seq == OwnSeq(d)  l == link
    <2>1. /\ director_flush_host(l, d, d, d, seq, h) /\ last_seq' = NextSeq(d)
          /\ UNCHANGED <<conns, kicks, logins>> /\ moves' = moves + 1
      BY <1>5 DEF doveadm_cmd_host_flush
    <2>2. seq \in Nat /\ NextSeq(d) \in [Directors -> [Directors -> Nat]] /\ l \in Links
      BY SeqTypes DEF MoveInv, RingInv
    <2> HIDE DEF seq, l
    <2>3. /\ CtxInv' /\ MoveAsserts' /\ link' \in Links
          /\ host' \in [Directors -> Hosts \union {NoHost}]
      BY <2>1, <2>2, FlushHost DEF MoveInv, RingInv
    <2> QED BY <2>1, <2>2, <2>3 DEF MoveInv, RingInv, ProxyInv
  <1> QED BY <1>1, <1>2, <1>3, <1>4, <1>5

-----------------------------------------------------------------------------
(* Callbacks and timers                                                    *)

LEMMA KillCallbackInv ==
  ASSUME MoveInv, NEW d \in Directors, NEW ok \in BOOLEAN,
         director_kill_user_callback(d, ok)
  PROVE  MoveInv'
  <1> DEFINE k == [kill[d] EXCEPT !.pending = FALSE]
             self == kill[d].self
             finished == director_finish_user_kill(k, self)
  <1>1. kill[d] \in KillRec /\ kill[d].pending /\ kill[d].state # "flushing"
        /\ PendingKill(kill[d])
    BY DEF MoveInv, CtxInv, director_kill_user_callback
  <1>2. kill[d].state \in {"killing", "killing_notify"} /\ self \in BOOLEAN
    BY <1>1 DEF PendingKill, KillRec
  <1>3. FinishAssert(kill[d], self)
    BY <1>2 DEF FinishAssert
  <1>4. k \in KillRec /\ ~k.pending
    BY <1>1 DEF KillRec
  <1>5. /\ kill' = [kill EXCEPT ![d] = finished]
        /\ link' = Announced(link, d, finished)
        /\ conns' = IF ok THEN [conns EXCEPT ![d] = {}] ELSE conns
        /\ fault' = fault
        /\ UNCHANGED <<host, orphans, moving, last_seq, kicks, moves, logins>>
    BY <1>2, <1>3 DEF director_kill_user_callback
  <1> HIDE DEF k, self
  <1>6. finished \in KillRec /\ PendingKill(finished)
    BY <1>2, <1>4, FinishKillType
  <1> HIDE DEF finished
  <1>7. CtxInv'
    BY <1>2, <1>5, <1>6, CtxKill DEF MoveInv
  <1>8. link' \in Links
    BY <1>5, AnnouncedType DEF MoveInv, RingInv
  <1> QED BY <1>5, <1>7, <1>8 DEF MoveInv, RingInv, ProxyInv, MoveAsserts

LEMMA FlushContinueInv ==
  ASSUME MoveInv, NEW d \in Directors, NEW skip_delay \in BOOLEAN,
         director_flush_user_continue(d, skip_delay)
  PROVE  MoveInv'
  <1>1. UNCHANGED <<host, orphans, last_seq, conns, kicks, link, moves, logins>>
        /\ kill[d].state = "flushing"
    BY DEF director_flush_user_continue
  <1>2. SUFFICES CtxInv' /\ MoveAsserts'
    BY <1>1 DEF MoveInv, RingInv, ProxyInv
  <1>3. CASE skip_delay
    BY <1>1, <1>3, MoveFreeInv
       DEF director_flush_user_continue, MoveInv, USER_IS_BEING_KILLED
  <1>4. CASE ~skip_delay
    <2> DEFINE k == [kill[d] EXCEPT !.state = "delay", !.pending = FALSE]
    <2>1. kill[d] \in KillRec /\ kill \in [Directors -> KillRec]
      BY DEF MoveInv, CtxInv
    <2>2. k \in KillRec /\ PendingKill(k)
      BY <2>1 DEF KillRec, KillStates, PendingKill
    <2>3. kill' = [kill EXCEPT ![d] = k] /\ UNCHANGED <<moving, fault>>
      BY <1>4, <2>1 DEF director_flush_user_continue
    <2> HIDE DEF k
    <2>4. CtxInv'
      BY <1>1, <2>2, <2>3, CtxKill DEF MoveInv
    <2> QED BY <2>3, <2>4 DEF MoveInv, MoveAsserts
  <1> QED BY <1>3, <1>4

LEMMA LateInv ==
  ASSUME MoveInv, NEW d \in Directors, Late(d)
  PROVE  MoveInv'
  <1>1. /\ kill[d] \in KillRec /\ PendingKill(kill[d]) /\ moving[d] \in Nat
        /\ orphans[d] \in Counts /\ Counted(kill[d], moving[d], orphans[d])
        /\ CtxInv /\ conns \in [Directors -> SUBSET Hosts]
    BY DEF MoveInv, CtxInv, ProxyInv
  <1>2. CASE KillCallbackOrphan(d)
    <2> DEFINE k == kill[d]
               n == moving[d] - 1
               o == [orphans[d] EXCEPT !.kill = @ - 1]
    <2>1. /\ orphans[d].kill > 0
          /\ UNCHANGED <<host, kill, last_seq, kicks, link, moves, logins>>
      BY <1>2 DEF KillCallbackOrphan
    <2>2. moving[d] > 0 /\ n \in Nat /\ o \in Counts /\ Counted(k, n, o)
      BY <1>1, <2>1 DEF Counted, Counts
    <2>3. /\ orphans' = [orphans EXCEPT ![d] = o]
          /\ moving' = [moving EXCEPT ![d] = n] /\ fault' = fault
          /\ kill' = [kill EXCEPT ![d] = k]
          /\ conns' \in [Directors -> SUBSET Hosts]
      BY <1>1, <1>2, <2>1, <2>2 DEF KillCallbackOrphan, CtxInv
    <2> HIDE DEF k, n, o
    <2>4. CtxInv'
      BY <1>1, <2>2, <2>3, CtxStep DEF k
    <2> QED BY <2>1, <2>3, <2>4 DEF MoveInv, RingInv, ProxyInv, MoveAsserts
  <1>3. CASE KillCallbackFreed(d)
    <2> DEFINE k == kill[d]
               n == moving[d]
               o == [orphans[d] EXCEPT !.freed = @ - 1]
    <2>1. /\ orphans[d].freed > 0 /\ fault' = "use_after_free"
          /\ UNCHANGED <<host, kill, moving, last_seq, kicks, link, moves, logins>>
      BY <1>3 DEF KillCallbackFreed
    <2>2. n \in Nat /\ o \in Counts /\ Counted(k, n, o)
      BY <1>1, <2>1 DEF Counted, Counts
    <2>3. /\ orphans' = [orphans EXCEPT ![d] = o]
          /\ moving' = [moving EXCEPT ![d] = n]
          /\ kill' = [kill EXCEPT ![d] = k]
          /\ conns' \in [Directors -> SUBSET Hosts]
      BY <1>1, <1>3, <2>1, <2>2 DEF KillCallbackFreed, CtxInv
    <2> HIDE DEF k, n, o
    <2>4. CtxInv'
      BY <1>1, <2>2, <2>3, CtxStep DEF k
    <2> QED BY <2>1, <2>3, <2>4 DEF MoveInv, RingInv, ProxyInv, MoveAsserts
  <1>4. CASE FlushContinueOrphan(d)
    <2> DEFINE k == kill[d]
               n == moving[d]
               o == [orphans[d] EXCEPT !.flush = @ - 1]
    <2>1. /\ orphans[d].flush > 0
          /\ UNCHANGED <<host, kill, moving, last_seq, conns, kicks, link, fault,
                         moves, logins>>
      BY <1>4 DEF FlushContinueOrphan
    <2>2. n \in Nat /\ o \in Counts /\ Counted(k, n, o)
      BY <1>1, <2>1 DEF Counted, Counts
    <2>3. /\ orphans' = [orphans EXCEPT ![d] = o]
          /\ moving' = [moving EXCEPT ![d] = n]
          /\ kill' = [kill EXCEPT ![d] = k]
      BY <1>1, <1>4, <2>1, <2>2 DEF FlushContinueOrphan, CtxInv
    <2> HIDE DEF k, n, o
    <2>4. CtxInv'
      BY <1>1, <2>2, <2>3, CtxStep DEF k
    <2> QED BY <2>1, <2>4 DEF MoveInv, RingInv, ProxyInv, MoveAsserts
  <1> QED BY <1>2, <1>3, <1>4 DEF Late

LEMMA TimeoutInv ==
  ASSUME MoveInv, NEW d \in Directors, director_user_move_timeout(d)
  PROVE  MoveInv'
  <1> DEFINE busy == kill[d].pending /\ kill[d].state # "flushing"
             n == moving[d] - 1
             o == IF busy THEN [orphans[d] EXCEPT !.freed = @ + 1] ELSE orphans[d]
  <1>1. orphans[d] \in Counts /\ orphans \in [Directors -> Counts]
    BY DEF MoveInv, CtxInv
  <1>2. o \in Counts /\ o.kill = orphans[d].kill
    BY <1>1 DEF Counts
  <1>3. USER_IS_BEING_KILLED(d) /\ director_user_move_free(d)
        /\ UNCHANGED <<host, last_seq, conns, kicks, link, moves, logins>>
    BY DEF director_user_move_timeout
  <1>4. orphans' = [orphans EXCEPT ![d] = o]
    <2>1. CASE busy
      BY <2>1 DEF director_user_move_timeout
    <2>2. CASE ~busy
      BY <1>1, <2>2 DEF director_user_move_timeout
    <2> QED BY <2>1, <2>2
  <1> HIDE DEF o
  <1>5. /\ kill' = [kill EXCEPT ![d] = NoKill] /\ moving' = [moving EXCEPT ![d] = n]
        /\ n \in Nat /\ Counted(NoKill, n, o) /\ fault' = fault
    BY <1>2, <1>3, MoveFree DEF MoveInv
  <1> HIDE DEF n
  <1>6. CtxInv'
    BY <1>2, <1>4, <1>5, NoKillType, CtxStep DEF MoveInv
  <1> QED BY <1>3, <1>5, <1>6 DEF MoveInv, RingInv, ProxyInv, MoveAsserts

LEMMA DelayInv ==
  ASSUME MoveInv, NEW d \in Directors, director_user_kill_finish_delayed_to(d)
  PROVE  MoveInv'
  <1>1. /\ USER_IS_BEING_KILLED(d) /\ director_user_move_free(d)
        /\ UNCHANGED <<host, orphans, last_seq, conns, kicks, link, moves, logins>>
    BY DEF director_user_kill_finish_delayed_to, USER_IS_BEING_KILLED
  <1>2. CtxInv' /\ MoveAsserts'
    BY <1>1, MoveFreeInv DEF MoveInv
  <1> QED BY <1>1, <1>2 DEF MoveInv, RingInv, ProxyInv

LEMMA KickedInv ==
  ASSUME MoveInv, NEW d \in Directors, Kicked(d)
  PROVE  MoveInv'
  <1>1. PICK h \in Hosts : KICK_DIRECTOR_HASH(d, h)
    BY DEF Kicked
  <1>2. ProxyInv'
    BY <1>1 DEF KICK_DIRECTOR_HASH, MoveInv, ProxyInv
  <1> QED BY <1>1, <1>2, CtxSame DEF KICK_DIRECTOR_HASH, MoveInv, RingInv, MoveAsserts

-----------------------------------------------------------------------------
(* The invariant                                                           *)

LEMMA MoveInvInit == Init => MoveInv
  <1> SUFFICES ASSUME Init PROVE MoveInv
    OBVIOUS
  <1>1. CtxInv
    <2>1. [kill |-> 0, flush |-> 0, freed |-> 0] \in Counts
      BY DEF Counts
    <2>2. /\ kill \in [Directors -> KillRec] /\ moving \in [Directors -> Nat]
          /\ orphans \in [Directors -> Counts]
      BY <2>1, NoKillType DEF Init
    <2>3. ASSUME NEW d \in Directors
          PROVE  PendingKill(kill[d]) /\ Counted(kill[d], moving[d], orphans[d])
      BY NoKillType DEF Init, Counted, NoKill
    <2> QED BY <2>2, <2>3 DEF CtxInv
  <1>2. RingInv
    <2>1. [side \in Sides |-> <<>>] \in [Sides -> Seq(MsgRec)]
      OBVIOUS
    <2> QED BY <2>1 DEF Init, RingInv, Links
  <1>3. ProxyInv /\ MoveAsserts
    BY DEF Init, ProxyInv, MoveAsserts
  <1> QED BY <1>1, <1>2, <1>3 DEF MoveInv

LEMMA MoveInvNext == ASSUME MoveInv, [Next]_vars PROVE MoveInv'
  <1>1. CASE UNCHANGED vars
    BY <1>1, CtxSame DEF vars, MoveInv, RingInv, ProxyInv, MoveAsserts
  <1>2. CASE Next
    <2>1. PICK d \in Directors :
            \/ \E side \in Sides : Receive(d, side)
            \/ Login(d) \/ Admin(d) \/ Answer(d) \/ Late(d) \/ Kicked(d)
            \/ director_user_kill_finish_delayed_to(d)
            \/ director_user_move_timeout(d)
      BY <1>2 DEF Next
    <2>2. CASE \E side \in Sides : Receive(d, side)
      BY <2>2, ReceiveInv
    <2>3. CASE Answer(d)
      BY <2>3, KillCallbackInv, FlushContinueInv DEF Answer
    <2> QED BY <2>1, <2>2, <2>3, LoginInv, AdminInv, LateInv, KickedInv,
               DelayInv, TimeoutInv
  <1> QED BY <1>1, <1>2

LEMMA MoveInvAlways == Spec => []MoveInv
  BY MoveInvInit, MoveInvNext, PTL DEF Spec

\* Type correctness of the directors' state, users_moving_count among it: an
\* unsigned counter that no order of moves, flushes, callbacks and timeouts
\* brings below zero.
THEOREM MoveTypeCorrect == Spec => []MoveTypeOK
  <1>1. MoveInv => MoveTypeOK
    BY DEF MoveInv, CtxInv, RingInv, ProxyInv, MoveAsserts, MoveTypeOK, Links, Counts
  <1> QED BY <1>1, MoveInvAlways, PTL

\* No move goes uncounted in director_user_move_finished().
THEOREM MovesCounted == Spec => []NoMoveUncounted
  <1>1. MoveInv => NoMoveUncounted
    BY DEF MoveInv, CtxInv, NoMoveUncounted, Counted, USER_IS_BEING_KILLED
  <1> QED BY <1>1, MoveInvAlways, PTL

\* No assertion on kill contexts in director.c fails, in any ring and under
\* any events.
THEOREM MoveAssertsHold == Spec => []MoveAsserts
  <1>1. MoveInv => MoveAsserts
    BY DEF MoveInv
  <1> QED BY <1>1, MoveInvAlways, PTL

-----------------------------------------------------------------------------
(***************************************************************************)
(* One move and logins, in a ring of any size.                             *)
(*                                                                         *)
(* Director a has moved the user from DefaultHost to h.  A director is at  *)
(* "before" until the USER-MOVE gets to it and then goes through the states*)
(* of its kill context to "done"; it is through when it waits for everyone *)
(* or is further.  A USER-KILLED on a right link is a token: only directors*)
(* that are through send one, one each, and a director other than a gets   *)
(* through on the token of its left neighbour.  So when the token comes    *)
(* back to a, every director is through.                                   *)
(***************************************************************************)

Phases == {"before", "killing", "killing_notify", "waiting_notify",
           "waiting_everyone", "delay", "done"}
Moved(p) == p # "before"
Through(p) == p \in {"waiting_everyone", "delay", "done"}
AllThrough(ph) == \A d \in Directors : Through(ph[d])
NobodyDone(ph) == \A d \in Directors : ph[d] # "done"

Token(m) == m.cmd = "USER-KILLED"
NoToken(q) == \A i \in 1..Len(q) : ~Token(q[i])
OneToken(q) == \A i, j \in 1..Len(q) : Token(q[i]) /\ Token(q[j]) => i = j

\* No USER that names h goes before the USER-MOVE in q.
MoveAhead(q, h) ==
  \E i \in 1..Len(q) :
    /\ q[i].cmd = "USER-MOVE"
    /\ \A j \in 1..Len(q) : j < i => ~(q[j].cmd = "USER" /\ q[j].h = h)

\* What e may have sent to one side.
MsgOK(m, e, side, ph, a, h) ==
  \/ m.cmd = "USER" /\ m.h = DefaultHost /\ NobodyDone(ph)
  \/ m.cmd = "USER" /\ m.h = h /\ Moved(ph[e])
  \/ m.cmd = "USER-MOVE" /\ m.orig = a /\ m.seq = 1 /\ m.h = h /\ Moved(ph[e])
  \/ m.cmd = "USER-KILLED" /\ side = "right"
  \/ m.cmd = "USER-KILLED-EVERYWHERE" /\ AllThrough(ph)

Messages(l, ph, a, h) ==
  \A e \in Directors, side \in Sides : \A i \in 1..Len(l[e][side]) :
    MsgOK(l[e][side][i], e, side, ph, a, h)

Tokens(l, ph) ==
  \A e \in Directors : /\ OneToken(l[e]["right"])
                       /\ NoToken(l[e]["right"]) \/ Through(ph[e])

\* A token has got e where it is.
Passed(p) == Through(p) \/ p = "killing_notify"
Handed(l, ph, e) ==
  /\ Through(ph[Peer(e, "left")])
  /\ NoToken(l[Peer(e, "left")]["right"])
Chain(l, ph, a) ==
  \A e \in Directors : e # a /\ Passed(ph[e]) => Handed(l, ph, e)

RingMoves(l, ph, a, h) ==
  /\ ph \in [Directors -> Phases]
  /\ Messages(l, ph, a, h) /\ Tokens(l, ph) /\ Chain(l, ph, a)
  /\ \A e \in Directors : ph[e] \in {"delay", "done"} => AllThrough(ph)
  /\ ph[a] \in {"killing", "waiting_everyone", "delay", "done"}

\* The move has been sent to every neighbour that has not moved yet, apart
\* from d.
AheadBut(l, ph, h, d) ==
  \A e \in Directors, side \in Sides :
    Peer(e, side) # d /\ Moved(ph[e]) /\ ~Moved(ph[Peer(e, side)])
      => MoveAhead(l[e][side], h)
Ahead(l, ph, h) ==
  \A e \in Directors, side \in Sides :
    Moved(ph[e]) /\ ~Moved(ph[Peer(e, side)]) => MoveAhead(l[e][side], h)

-----------------------------------------------------------------------------
(* Queues                                                                  *)

LEMMA Appended ==
  ASSUME NEW q \in Seq(MsgRec), NEW m \in MsgRec
  PROVE  /\ Append(q, m) \in Seq(MsgRec)
         /\ Len(Append(q, m)) = Len(q) + 1 /\ Len(q) \in Nat
         /\ \A i \in 1..Len(q) : Append(q, m)[i] = q[i]
         /\ Append(q, m)[Len(q) + 1] = m
         /\ \A i \in 1..Len(Append(q, m)) : i \in 1..Len(q) \/ i = Len(q) + 1
  OBVIOUS

LEMMA Popped ==
  ASSUME NEW q \in Seq(MsgRec), q # <<>>
  PROVE  /\ Tail(q) \in Seq(MsgRec)
         /\ Len(q) \in Nat \ {0} /\ Len(Tail(q)) = Len(q) - 1
         /\ \A i \in 1..Len(Tail(q)) : Tail(q)[i] = q[i + 1] /\ i + 1 \in 1..Len(q)
         /\ Head(q) = q[1] /\ Head(q) \in MsgRec
  OBVIOUS

LEMMA TokenAppend ==
  ASSUME NEW q \in Seq(MsgRec), NEW m \in MsgRec
  PROVE  /\ NoToken(q) /\ ~Token(m) => NoToken(Append(q, m))
         /\ OneToken(q) /\ ~Token(m) => OneToken(Append(q, m))
         /\ NoToken(q) => OneToken(Append(q, m))
  <1> DEFINE r == Append(q, m)
  <1>1. /\ Len(r) = Len(q) + 1 /\ Len(q) \in Nat
        /\ \A i \in 1..Len(q) : r[i] = q[i]
        /\ r[Len(q) + 1] = m
        /\ \A i \in 1..Len(r) : i \in 1..Len(q) \/ i = Len(q) + 1
    BY Appended
  <1> HIDE DEF r
  <1>2. NoToken(q) /\ ~Token(m) => NoToken(r)
    BY <1>1 DEF NoToken
  <1>3. OneToken(q) /\ ~Token(m) => OneToken(r)
    BY <1>1 DEF OneToken
  <1>4. NoToken(q) => OneToken(r)
    BY <1>1 DEF NoToken, OneToken
  <1> QED BY <1>2, <1>3, <1>4 DEF r

LEMMA TokenTail ==
  ASSUME NEW q \in Seq(MsgRec), q # <<>>
  PROVE  /\ NoToken(q) => NoToken(Tail(q))
         /\ OneToken(q) => OneToken(Tail(q))
         /\ OneToken(q) /\ Token(Head(q)) => NoToken(Tail(q))
         /\ Token(Head(q)) => ~NoToken(q)
  <1> DEFINE r == Tail(q)
  <1>1. /\ Len(q) \in Nat \ {0} /\ Len(r) = Len(q) - 1
        /\ \A i \in 1..Len(r) : r[i] = q[i + 1] /\ i + 1 \in 1..Len(q)
        /\ Head(q) = q[1] /\ 1 \in 1..Len(q)
    BY Popped
  <1> HIDE DEF r
  <1>2. NoToken(q) => NoToken(r)
    BY <1>1 DEF NoToken
  <1>3. OneToken(q) => OneToken(r)
    <2> SUFFICES ASSUME OneToken(q), NEW i \in 1..Len(r), NEW j \in 1..Len(r),
                        Token(r[i]), Token(r[j])
                 PROVE  i = j
      BY DEF OneToken
    <2>1. i + 1 = j + 1
      BY <1>1 DEF OneToken
    <2> QED BY <2>1
  <1>4. OneToken(q) /\ Token(Head(q)) => NoToken(r)
    <2> SUFFICES ASSUME OneToken(q), Token(q[1]), NEW i \in 1..Len(r), Token(r[i])
                 PROVE  FALSE
      BY <1>1 DEF NoToken
    <2>1. i + 1 = 1
      BY <1>1 DEF OneToken
    <2> QED BY <2>1
  <1>5. Token(Head(q)) => ~NoToken(q)
    BY <1>1 DEF NoToken
  <1> QED BY <1>2, <1>3, <1>4, <1>5 DEF r

LEMMA MoveAppend ==
  ASSUME NEW q \in Seq(MsgRec), NEW m \in MsgRec, NEW h
  PROVE  /\ MoveAhead(q, h) => MoveAhead(Append(q, m), h)
         /\ /\ m.cmd = "USER-MOVE"
            /\ \A i \in 1..Len(q) : ~(q[i].cmd = "USER" /\ q[i].h = h)
            => MoveAhead(Append(q, m), h)
  <1> DEFINE r == Append(q, m)
  <1>1. /\ Len(r) = Len(q) + 1 /\ Len(q) \in Nat
        /\ \A i \in 1..Len(q) : r[i] = q[i]
        /\ r[Len(q) + 1] = m
        /\ \A i \in 1..Len(r) : i \in 1..Len(q) \/ i = Len(q) + 1
    BY Appended
  <1> HIDE DEF r
  <1>2. MoveAhead(q, h) => MoveAhead(r, h)
    <2> SUFFICES ASSUME MoveAhead(q, h) PROVE MoveAhead(r, h)
      OBVIOUS
    <2>1. PICK i \in 1..Len(q) :
            /\ q[i].cmd = "USER-MOVE"
            /\ \A j \in 1..Len(q) : j < i => ~(q[j].cmd = "USER" /\ q[j].h = h)
      BY DEF MoveAhead
    <2>2. i \in 1..Len(r) /\ r[i].cmd = "USER-MOVE"
      BY <1>1, <2>1
    <2>3. ASSUME NEW j \in 1..Len(r), j < i PROVE ~(r[j].cmd = "USER" /\ r[j].h = h)
      BY <1>1, <2>1, <2>3
    <2> QED BY <2>2, <2>3 DEF MoveAhead
  <1>3. ASSUME m.cmd = "USER-MOVE",
               \A i \in 1..Len(q) : ~(q[i].cmd = "USER" /\ q[i].h = h)
        PROVE  MoveAhead(r, h)
    <2>1. Len(q) + 1 \in 1..Len(r) /\ r[Len(q) + 1].cmd = "USER-MOVE"
      BY <1>1, <1>3
    <2>2. ASSUME NEW j \in 1..Len(r), j < Len(q) + 1
          PROVE ~(r[j].cmd = "USER" /\ r[j].h = h)
      BY <1>1, <1>3, <2>2
    <2> QED BY <2>1, <2>2 DEF MoveAhead
  <1> QED BY <1>2, <1>3 DEF r

LEMMA MoveTail ==
  ASSUME NEW q \in Seq(MsgRec), q # <<>>, NEW h, MoveAhead(q, h)
  PROVE  /\ Head(q).cmd # "USER-MOVE" => MoveAhead(Tail(q), h)
         /\ ~(Head(q).cmd = "USER" /\ Head(q).h = h)
  <1> DEFINE r == Tail(q)
  <1>1. /\ Len(q) \in Nat \ {0} /\ Len(r) = Len(q) - 1
        /\ \A i \in 1..Len(r) : r[i] = q[i + 1] /\ i + 1 \in 1..Len(q)
        /\ Head(q) = q[1] /\ 1 \in 1..Len(q)
    BY Popped
  <1>2. PICK i \in 1..Len(q) :
          /\ q[i].cmd = "USER-MOVE"
          /\ \A j \in 1..Len(q) : j < i => ~(q[j].cmd = "USER" /\ q[j].h = h)
    BY DEF MoveAhead
  <1> HIDE DEF r
  <1>3. ~(q[1].cmd = "USER" /\ q[1].h = h)
    <2>1. CASE i = 1
      BY <1>2, <2>1
    <2>2. CASE i # 1
      BY <1>1, <1>2, <2>2
    <2> QED BY <2>1, <2>2
  <1>4. ASSUME q[1].cmd # "USER-MOVE" PROVE MoveAhead(r, h)
    <2>1. i # 1
      BY <1>2, <1>4
    <2>2. i - 1 \in 1..Len(r) /\ r[i - 1] = q[i]
      BY <1>1, <2>1
    <2>3. ASSUME NEW j \in 1..Len(r), j < i - 1 PROVE ~(r[j].cmd = "USER" /\ r[j].h = h)
      <3>1. j + 1 \in 1..Len(q) /\ j + 1 < i /\ r[j] = q[j + 1]
        BY <1>1, <2>3
      <3> QED BY <3>1, <1>2
    <2> QED BY <1>2, <2>2, <2>3 DEF MoveAhead
  <1> QED BY <1>1, <1>3, <1>4 DEF r

-----------------------------------------------------------------------------
(* The ring                                                                *)

LEMMA Peers ==
  ASSUME NEW d \in Directors
  PROVE  /\ Peer(d, "right") \in Directors /\ Peer(d, "left") \in Directors
         /\ Peer(d, "right") = IF d = N - 1 THEN 0 ELSE d + 1
         /\ Peer(d, "left") = IF d = 0 THEN N - 1 ELSE d - 1
  <1>1. N \in Nat /\ N > 0 /\ d \in Nat /\ d < N
    BY MoveAssumption DEF Directors
  <1>2. (d + 1) % N = IF d = N - 1 THEN 0 ELSE d + 1
    BY <1>1
  <1>3. (d + N - 1) % N = IF d = 0 THEN N - 1 ELSE d - 1
    BY <1>1
  <1> QED BY <1>1, <1>2, <1>3 DEF Peer, Directors

LEMMA PeerBack ==
  ASSUME NEW d \in Directors, NEW side \in Sides
  PROVE  /\ Peer(d, side) \in Directors /\ Opposite(side) \in Sides
         /\ Peer(Peer(d, side), Opposite(side)) = d
         /\ N # 1 => Peer(d, side) # d
         /\ Opposite(side) = "right" => side = "left"
  <1>1. N \in Nat /\ N > 0 /\ d \in Nat /\ d < N
    BY MoveAssumption DEF Directors
  <1>2. CASE side = "right"
    BY <1>1, <1>2, Peers DEF Opposite, Sides, Directors
  <1>3. CASE side = "left"
    BY <1>1, <1>3, Peers DEF Opposite, Sides, Directors
  <1> QED BY <1>2, <1>3 DEF Sides

\* A director other than a that is through has got there after its left
\* neighbour: if the one before a is through, all are.
LEMMA AroundTheRing ==
  ASSUME NEW a \in Directors, NEW S, Peer(a, "left") \in S,
         \A e \in Directors : e # a /\ e \in S => Peer(e, "left") \in S
  PROVE  Directors \subseteq S
  <1>1. N \in Nat /\ N > 0 /\ a \in Nat /\ a < N /\ Directors = 0..(N - 1)
    BY MoveAssumption DEF Directors
  <1>2. \A e \in Directors : Peer(e, "left") = IF e = 0 THEN N - 1 ELSE e - 1
    BY Peers
  <1>3. ASSUME NEW e \in Directors, e # N - 1, e + 1 # a, e \notin S
        PROVE  e + 1 \in Directors /\ e + 1 \notin S
    <2>1. e + 1 \in Directors /\ e + 1 # 0
      BY <1>1, <1>3
    <2>2. Peer(e + 1, "left") = e
      BY <1>1, <1>2, <2>1
    <2> QED BY <1>3, <2>1, <2>2
  <1>4. \A e \in Directors : e < a => e \in S
    <2> DEFINE I == {e \in 0..(N - 1) : e < a /\ e \notin S}
    <2> SUFFICES ASSUME I # {} PROVE FALSE
      BY <1>1
    <2>1. I \subseteq 0..(N - 1) /\ N - 1 \in Nat
      BY <1>1
    <2> DEFINE g == Max(I)
    <2>2. g \in I /\ \A y \in I : y <= g
      <3> HIDE DEF I
      <3> QED BY <2>1, GreatestNumber
    <2> HIDE DEF g
    <2>3. g \in Directors /\ g < a /\ g \notin S /\ g # N - 1 /\ g \in Nat
      BY <1>1, <2>2
    <2>4. CASE g + 1 = a
      <3>1. a # 0 /\ a - 1 = g
        BY <1>1, <2>3, <2>4
      <3> QED BY <1>2, <2>3, <3>1
    <2>5. CASE g + 1 # a
      <3>1. g + 1 \in I
        BY <1>1, <1>3, <2>3, <2>5
      <3>2. g + 1 <= g
        BY <2>2, <3>1
      <3> QED BY <2>3, <3>2
    <2> QED BY <2>4, <2>5
  <1>5. N - 1 \in S
    <2>1. CASE a = 0
      BY <1>1, <1>2, <2>1
    <2>2. CASE a # 0
      <3>1. 0 \in S /\ 0 \in Directors
        BY <1>1, <1>4, <2>2
      <3> QED BY <1>2, <2>2, <3>1
    <2> QED BY <2>1, <2>2
  <1>6. \A e \in Directors : e >= a => e \in S
    <2> DEFINE I == {e \in 0..(N - 1) : e >= a /\ e \notin S}
    <2> SUFFICES ASSUME I # {} PROVE FALSE
      BY <1>1
    <2>1. I \subseteq 0..(N - 1) /\ N - 1 \in Nat
      BY <1>1
    <2> DEFINE g == Max(I)
    <2>2. g \in I /\ \A y \in I : y <= g
      <3> HIDE DEF I
      <3> QED BY <2>1, GreatestNumber
    <2> HIDE DEF g
    <2>3. g \in Directors /\ g >= a /\ g \notin S /\ g \in Nat
      BY <1>1, <2>2
    <2>4. g # N - 1 /\ g + 1 # a
      BY <1>1, <1>5, <2>3
    <2>5. g + 1 \in I
      BY <1>1, <1>3, <2>3, <2>4
    <2>6. g + 1 <= g
      BY <2>2, <2>5
    <2> QED BY <2>3, <2>6
  <1> QED BY <1>1, <1>4, <1>6

\* d has sent m, on one side or on both.
Sent(l, l2, d, m) ==
  /\ l2 \in Links
  /\ \A e \in Directors, side \in Sides :
       \/ l2[e][side] = l[e][side]
       \/ e = d /\ l2[e][side] = Append(l[e][side], m)

LEMMA SendUpdate ==
  ASSUME NEW l \in Links, NEW d \in Directors, NEW src, NEW m \in MsgRec
  PROVE  /\ Sent(l, director_update_send(l, d, src, m), d, m)
         /\ \A side \in Sides :
              N # 1 /\ (Peer(d, side) # src \/ src = d) =>
                director_update_send(l, d, src, m)[d][side] = Append(l[d][side], m)
  <1> DEFINE row == [side \in Sides |->
                      IF N = 1 \/ (Peer(d, side) = src /\ src # d) THEN l[d][side]
                      ELSE Append(l[d][side], m)]
             l2 == director_update_send(l, d, src, m)
  <1>1. l2 = [l EXCEPT ![d] = row]
    BY DEF director_update_send
  <1>2. l2 \in Links
    BY UpdateSendType
  <1>3. \A side \in Sides : row[side] = IF N = 1 \/ (Peer(d, side) = src /\ src # d)
                                        THEN l[d][side] ELSE Append(l[d][side], m)
    OBVIOUS
  <1> HIDE DEF row, l2
  <1>4. l2[d] = row /\ \A e \in Directors : e # d => l2[e] = l[e]
    BY <1>1 DEF Links
  <1> QED BY <1>2, <1>3, <1>4 DEF Sent, l2

LEMMA SendToken ==
  ASSUME NEW l \in Links, NEW d \in Directors, NEW m \in MsgRec
  PROVE  /\ Sent(l, SendRight(l, d, m), d, m)
         /\ SendRight(l, d, m)[d]["left"] = l[d]["left"]
         /\ SendRight(l, d, m)[d]["right"] = Append(l[d]["right"], m)
         /\ \A e \in Directors : e # d => SendRight(l, d, m)[e] = l[e]
  <1> DEFINE l2 == SendRight(l, d, m)
  <1>1. l2 \in Links
    BY SendRightType
  <1>2. /\ \A e \in Directors : e # d => l2[e] = l[e]
        /\ l2[d]["right"] = Append(l[d]["right"], m) /\ l2[d]["left"] = l[d]["left"]
    BY DEF SendRight, Links, Sides
  <1> HIDE DEF l2
  <1>3. Sent(l, l2, d, m)
    BY <1>1, <1>2 DEF Sent, Sides
  <1> QED BY <1>2, <1>3 DEF l2

LEMMA QueueType ==
  ASSUME NEW l \in Links, NEW e \in Directors, NEW side \in Sides
  PROVE  l[e][side] \in Seq(MsgRec)
  BY DEF Links

-----------------------------------------------------------------------------
(* The messages and the phases of a move                                   *)

\* When a queue gets a message that is no token, nothing is lost.
LEMMA SentQueue ==
  ASSUME NEW l \in Links, NEW l2, NEW d \in Directors, NEW m \in MsgRec,
         Sent(l, l2, d, m), ~Token(m), NEW e \in Directors, NEW side \in Sides
  PROVE  /\ \A i \in 1..Len(l2[e][side]) :
              \/ \E j \in 1..Len(l[e][side]) : l2[e][side][i] = l[e][side][j]
              \/ e = d /\ l2[e][side][i] = m
         /\ NoToken(l[e][side]) => NoToken(l2[e][side])
         /\ OneToken(l[e][side]) => OneToken(l2[e][side])
         /\ \A h : MoveAhead(l[e][side], h) => MoveAhead(l2[e][side], h)
  <1> DEFINE q == l[e][side]
             r == l2[e][side]
  <1>1. q \in Seq(MsgRec)
    BY QueueType
  <1>2. r = q \/ (e = d /\ r = Append(q, m))
    BY DEF Sent
  <1> HIDE DEF q, r
  <1>3. CASE r = q
    BY <1>3 DEF q, r
  <1>4. CASE e = d /\ r = Append(q, m)
    <2>1. \A i \in 1..Len(r) : (\E j \in 1..Len(q) : r[i] = q[j]) \/ r[i] = m
      BY <1>1, <1>4, Appended
    <2>2. /\ NoToken(q) => NoToken(r)
          /\ OneToken(q) => OneToken(r)
      BY <1>1, <1>4, TokenAppend
    <2>3. \A h : MoveAhead(q, h) => MoveAhead(r, h)
      BY <1>1, <1>4, MoveAppend
    <2> QED BY <1>4, <2>1, <2>2, <2>3 DEF q, r
  <1> QED BY <1>2, <1>3, <1>4

LEMMA RingSend ==
  ASSUME NEW l \in Links, NEW l2, NEW ph, NEW a \in Directors, NEW h,
         NEW d \in Directors, NEW m \in MsgRec, Sent(l, l2, d, m), ~Token(m),
         RingMoves(l, ph, a, h),
         \A side \in Sides : MsgOK(m, d, side, ph, a, h)
  PROVE  /\ RingMoves(l2, ph, a, h)
         /\ Ahead(l, ph, h) => Ahead(l2, ph, h)
  <1>1. \A e \in Directors, side \in Sides :
          /\ \A i \in 1..Len(l2[e][side]) :
               \/ \E j \in 1..Len(l[e][side]) : l2[e][side][i] = l[e][side][j]
               \/ e = d /\ l2[e][side][i] = m
          /\ NoToken(l[e][side]) => NoToken(l2[e][side])
          /\ OneToken(l[e][side]) => OneToken(l2[e][side])
          /\ \A g : MoveAhead(l[e][side], g) => MoveAhead(l2[e][side], g)
    BY SentQueue
  <1>2. Messages(l2, ph, a, h)
    <2> SUFFICES ASSUME NEW e \in Directors, NEW side \in Sides,
                        NEW i \in 1..Len(l2[e][side])
                 PROVE  MsgOK(l2[e][side][i], e, side, ph, a, h)
      BY DEF Messages
    <2>1. CASE \E j \in 1..Len(l[e][side]) : l2[e][side][i] = l[e][side][j]
      BY <2>1 DEF RingMoves, Messages
    <2>2. CASE e = d /\ l2[e][side][i] = m
      BY <2>2
    <2> QED BY <1>1, <2>1, <2>2
  <1>3. Tokens(l2, ph)
    BY <1>1 DEF RingMoves, Tokens, Sides
  <1>4. Chain(l2, ph, a)
    <2> SUFFICES ASSUME NEW e \in Directors, e # a, Passed(ph[e])
                 PROVE  Handed(l2, ph, e)
      BY DEF Chain
    <2>1. Handed(l, ph, e) /\ Peer(e, "left") \in Directors /\ "right" \in Sides
      BY Peers DEF RingMoves, Chain, Sides
    <2> QED BY <1>1, <2>1 DEF Handed
  <1>5. Ahead(l, ph, h) => Ahead(l2, ph, h)
    BY <1>1 DEF Ahead
  <1> QED BY <1>2, <1>3, <1>4, <1>5 DEF RingMoves

\* The token comes back to a only when all are through.
LEMMA AllAreThrough ==
  ASSUME NEW l, NEW ph, NEW a \in Directors, NEW h, RingMoves(l, ph, a, h),
         Through(ph[Peer(a, "left")])
  PROVE  AllThrough(ph)
  <1> DEFINE S == {e \in Directors : Through(ph[e])}
  <1>1. Peer(a, "left") \in S
    BY Peers
  <1>2. \A e \in Directors : e # a /\ e \in S => Peer(e, "left") \in S
    BY Peers DEF RingMoves, Chain, Passed, Handed
  <1> HIDE DEF S
  <1>3. Directors \subseteq S
    BY <1>1, <1>2, AroundTheRing
  <1> QED BY <1>3 DEF S, AllThrough

\* What is so when d has read m, the first message on side s of src, and the
\* ring has become l2.
PopOK(l, l2, ph, a, h, d, src, s, m) ==
  /\ src \in Directors /\ s \in Sides /\ Peer(src, s) = d
  /\ l2 \in Links /\ m \in MsgRec
  /\ MsgOK(m, src, s, ph, a, h)
  /\ RingMoves(l2, ph, a, h) /\ AheadBut(l2, ph, h, d)
  /\ m.cmd # "USER-MOVE" \/ Moved(ph[d]) => Ahead(l2, ph, h)
  /\ m.cmd = "USER" /\ m.h = h => Moved(ph[d]) \/ ~Moved(ph[src])
  /\ Token(m) => /\ s = "right" /\ src = Peer(d, "left")
                 /\ Handed(l2, ph, d) /\ ~Handed(l, ph, d)

LEMMA RingPop ==
  ASSUME NEW l \in Links, NEW ph, NEW a \in Directors, NEW h,
         NEW d \in Directors, NEW side \in Sides, NEW src, NEW s, NEW q, NEW l2,
         src = Peer(d, side), s = Opposite(side), q = l[src][s], q # <<>>,
         l2 = [l EXCEPT ![src][s] = Tail(q)],
         RingMoves(l, ph, a, h), Ahead(l, ph, h)
  PROVE  PopOK(l, l2, ph, a, h, d, src, s, Head(q))
  <1>1. /\ src \in Directors /\ s \in Sides /\ Peer(src, s) = d
        /\ s = "right" => side = "left"
    BY PeerBack
  <1>2. q \in Seq(MsgRec)
    BY <1>1, QueueType
  <1>3. /\ Tail(q) \in Seq(MsgRec)
        /\ Len(q) \in Nat \ {0} /\ 1 \in 1..Len(q)
        /\ \A i \in 1..Len(Tail(q)) : Tail(q)[i] = q[i + 1] /\ i + 1 \in 1..Len(q)
        /\ Head(q) = q[1] /\ Head(q) \in MsgRec
    BY <1>2, Popped
  <1> DEFINE t == Tail(q)
  <1> HIDE DEF t
  <1>4. l2 \in Links
    BY <1>1, <1>3 DEF Links
  <1>5. \A e \in Directors, z \in Sides :
          l2[e][z] = IF e = src /\ z = s THEN t ELSE l[e][z]
    BY <1>1 DEF Links, t
  <1>6. MsgOK(Head(q), src, s, ph, a, h)
    BY <1>1, <1>3 DEF RingMoves, Messages
  <1>7. Messages(l2, ph, a, h)
    <2> SUFFICES ASSUME NEW e \in Directors, NEW z \in Sides, NEW i \in 1..Len(l2[e][z])
                 PROVE  MsgOK(l2[e][z][i], e, z, ph, a, h)
      BY DEF Messages
    <2>1. CASE e = src /\ z = s
      <3>1. l2[e][z] = t
        BY <1>5, <2>1
      <3>2. t[i] = q[i + 1] /\ i + 1 \in 1..Len(q)
        BY <1>3, <3>1 DEF t
      <3> QED BY <2>1, <3>1, <3>2, <1>1 DEF RingMoves, Messages
    <2>2. CASE ~(e = src /\ z = s)
      <3>1. l2[e][z] = l[e][z]
        BY <1>5, <2>2
      <3> QED BY <3>1 DEF RingMoves, Messages
    <2> QED BY <2>1, <2>2
  <1>8. /\ NoToken(q) => NoToken(t)
        /\ OneToken(q) => OneToken(t)
        /\ OneToken(q) /\ Token(Head(q)) => NoToken(t)
        /\ Token(Head(q)) => ~NoToken(q)
    BY <1>2, TokenTail DEF t
  <1>9. \A e \in Directors : /\ NoToken(l[e]["right"]) => NoToken(l2[e]["right"])
                             /\ OneToken(l[e]["right"]) => OneToken(l2[e]["right"])
    BY <1>5, <1>8 DEF Sides
  <1>10. Tokens(l2, ph)
    BY <1>9 DEF RingMoves, Tokens
  <1>11. Chain(l2, ph, a)
    <2> SUFFICES ASSUME NEW e \in Directors, e # a, Passed(ph[e])
                 PROVE  Handed(l2, ph, e)
      BY DEF Chain
    <2>1. Handed(l, ph, e) /\ Peer(e, "left") \in Directors
      BY Peers DEF RingMoves, Chain
    <2> QED BY <1>9, <2>1 DEF Handed
  <1>12. RingMoves(l2, ph, a, h)
    BY <1>7, <1>10, <1>11 DEF RingMoves
  <1>13. AheadBut(l2, ph, h, d)
    <2> SUFFICES ASSUME NEW e \in Directors, NEW z \in Sides, Peer(e, z) # d,
                        Moved(ph[e]), ~Moved(ph[Peer(e, z)])
                 PROVE  MoveAhead(l2[e][z], h)
      BY DEF AheadBut
    <2>1. l2[e][z] = l[e][z]
      BY <1>1, <1>5
    <2> QED BY <2>1 DEF Ahead
  <1>14. ASSUME Moved(ph[src]), ~Moved(ph[d]) PROVE MoveAhead(q, h)
    BY <1>1, <1>14 DEF Ahead
  <1>15. ASSUME Head(q).cmd # "USER-MOVE" \/ Moved(ph[d]) PROVE Ahead(l2, ph, h)
    <2> SUFFICES ASSUME NEW e \in Directors, NEW z \in Sides,
                        Moved(ph[e]), ~Moved(ph[Peer(e, z)])
                 PROVE  MoveAhead(l2[e][z], h)
      BY DEF Ahead
    <2>1. CASE e = src /\ z = s
      <3>1. MoveAhead(t, h)
        BY <1>1, <1>2, <1>14, <1>15, <2>1, MoveTail DEF t
      <3> QED BY <1>5, <2>1, <3>1
    <2>2. CASE ~(e = src /\ z = s)
      <3>1. l2[e][z] = l[e][z]
        BY <1>5, <2>2
      <3> QED BY <3>1 DEF Ahead
    <2> QED BY <2>1, <2>2
  <1>16. Head(q).cmd = "USER" /\ Head(q).h = h => Moved(ph[d]) \/ ~Moved(ph[src])
    BY <1>2, <1>14, MoveTail
  <1>17. ASSUME Token(Head(q))
         PROVE  /\ s = "right" /\ src = Peer(d, "left")
                /\ Handed(l2, ph, d) /\ ~Handed(l, ph, d)
    <2>1. s = "right"
      BY <1>6, <1>17 DEF MsgOK, Token
    <2>2. src = Peer(d, "left")
      BY <1>1, <2>1
    <2>3. OneToken(q) /\ ~NoToken(q) /\ Through(ph[src])
      BY <1>1, <1>8, <1>17, <2>1 DEF RingMoves, Tokens
    <2>4. NoToken(l2[src]["right"]) /\ ~NoToken(l[src]["right"])
      BY <1>1, <1>5, <1>8, <1>17, <2>1, <2>3
    <2> QED BY <2>1, <2>2, <2>3, <2>4 DEF Handed
  <1> QED BY <1>1, <1>3, <1>4, <1>6, <1>12, <1>13, <1>15, <1>16, <1>17 DEF PopOK

LEMMA PhaseAt ==
  ASSUME NEW ph \in [Directors -> Phases], NEW d \in Directors, NEW p \in Phases,
         NEW ph2, ph2 = [ph EXCEPT ![d] = p]
  PROVE  /\ ph2 \in [Directors -> Phases] /\ ph2[d] = p
         /\ \A e \in Directors : e # d => ph2[e] = ph[e]
  OBVIOUS

\* While one director is not through, nobody is past waiting for everyone.
LEMMA NotAllThrough ==
  ASSUME NEW l, NEW ph, NEW a, NEW h, RingMoves(l, ph, a, h),
         NEW d \in Directors, ~Through(ph[d])
  PROVE  /\ ~AllThrough(ph) /\ NobodyDone(ph)
         /\ \A e \in Directors : ph[e] \notin {"delay", "done"}
  BY DEF RingMoves, AllThrough, NobodyDone

\* A kill is over on the left side only, or on this side only.
LEMMA RingWaits ==
  ASSUME NEW l \in Links, NEW ph, NEW a \in Directors, NEW h,
         RingMoves(l, ph, a, h), Ahead(l, ph, h),
         NEW d \in Directors, d # a, ph[d] = "killing",
         NEW p \in {"killing_notify", "waiting_notify"},
         p = "killing_notify" => Handed(l, ph, d),
         NEW ph2, ph2 = [ph EXCEPT ![d] = p]
  PROVE  RingMoves(l, ph2, a, h) /\ Ahead(l, ph2, h)
  <1>1. ph \in [Directors -> Phases] /\ p \in Phases
    BY DEF RingMoves, Phases
  <1>2. /\ ph2 \in [Directors -> Phases] /\ ph2[d] = p
        /\ \A e \in Directors : e # d => ph2[e] = ph[e]
    BY <1>1, PhaseAt
  <1>3. /\ ~Through(ph[d]) /\ ~Through(p) /\ Moved(ph[d]) /\ Moved(p)
    BY DEF Through, Moved
  <1>4. /\ ~AllThrough(ph) /\ NobodyDone(ph)
        /\ \A e \in Directors : ph[e] \notin {"delay", "done"}
    BY <1>3, NotAllThrough
  <1>5. \A e \in Directors : /\ Through(ph2[e]) <=> Through(ph[e])
                             /\ Moved(ph2[e]) <=> Moved(ph[e])
                             /\ ph2[e] \notin {"delay", "done"}
    BY <1>2, <1>3, <1>4 DEF Through
  <1>6. NobodyDone(ph2)
    BY <1>5 DEF NobodyDone
  <1>7. Messages(l, ph2, a, h)
    BY <1>4, <1>5, <1>6 DEF RingMoves, Messages, MsgOK
  <1>8. Tokens(l, ph2)
    BY <1>5 DEF RingMoves, Tokens
  <1>9. Chain(l, ph2, a)
    <2> SUFFICES ASSUME NEW e \in Directors, e # a, Passed(ph2[e])
                 PROVE  Handed(l, ph2, e)
      BY DEF Chain
    <2>1. Handed(l, ph, e)
      <3>1. CASE e = d
        BY <1>2, <1>3, <3>1 DEF Passed
      <3>2. CASE e # d
        BY <1>2, <3>2 DEF RingMoves, Chain
      <3> QED BY <3>1, <3>2
    <2>2. Peer(e, "left") \in Directors
      BY Peers
    <2> QED BY <1>5, <2>1, <2>2 DEF Handed
  <1>10. Ahead(l, ph2, h)
    BY <1>5, PeerType DEF Ahead
  <1> QED BY <1>2, <1>5, <1>7, <1>8, <1>9, <1>10 DEF RingMoves

\* d gets through and tells the right side.
LEMMA RingToken ==
  ASSUME NEW l \in Links, NEW ph, NEW a \in Directors, NEW h,
         RingMoves(l, ph, a, h), Ahead(l, ph, h), N # 1,
         NEW d \in Directors, ~Through(ph[d]), Moved(ph[d]),
         d # a => Handed(l, ph, d),
         NEW ph2, ph2 = [ph EXCEPT ![d] = "waiting_everyone"],
         NEW l2, l2 = SendRight(l, d, USER_KILLED(d))
  PROVE  /\ l2 \in Links
         /\ RingMoves(l2, ph2, a, h) /\ Ahead(l2, ph2, h)
  <1> DEFINE m == USER_KILLED(d)
  <1>1. m \in MsgRec /\ m.cmd = "USER-KILLED"
    BY KilledMsg DEF USER_KILLED, Killed, Msg
  <1>2. ph \in [Directors -> Phases] /\ "waiting_everyone" \in Phases
    BY DEF RingMoves, Phases
  <1>3. /\ ph2 \in [Directors -> Phases] /\ ph2[d] = "waiting_everyone"
        /\ \A e \in Directors : e # d => ph2[e] = ph[e]
    BY <1>2, PhaseAt
  <1> HIDE DEF m
  <1>4. /\ l2 \in Links
        /\ l2[d]["left"] = l[d]["left"] /\ l2[d]["right"] = Append(l[d]["right"], m)
        /\ \A e \in Directors : e # d => l2[e] = l[e]
    BY <1>1, SendToken DEF Sent, m
  <1>5. /\ ~AllThrough(ph) /\ NobodyDone(ph)
        /\ \A e \in Directors : ph[e] \notin {"delay", "done"}
    BY NotAllThrough
  <1>6. \A e \in Directors : /\ Moved(ph2[e]) <=> Moved(ph[e])
                             /\ Through(ph[e]) => Through(ph2[e])
                             /\ ph2[e] \notin {"delay", "done"}
    BY <1>3, <1>5 DEF Moved
  <1>7. NobodyDone(ph2) /\ Through(ph2[d])
    BY <1>3, <1>6 DEF NobodyDone, Through
  <1>8. "right" \in Sides /\ "left" \in Sides /\ \A z \in Sides : z = "right" \/ z = "left"
    BY DEF Sides
  <1>9. l[d]["right"] \in Seq(MsgRec) /\ NoToken(l[d]["right"])
    BY <1>8, QueueType DEF RingMoves, Tokens
  <1>10. \A i \in 1..Len(l2[d]["right"]) :
           \/ \E j \in 1..Len(l[d]["right"]) : l2[d]["right"][i] = l[d]["right"][j]
           \/ l2[d]["right"][i] = m
    BY <1>1, <1>4, <1>9, Appended
  <1>11. ASSUME NEW x, NEW e \in Directors, NEW z \in Sides, MsgOK(x, e, z, ph, a, h)
         PROVE  MsgOK(x, e, z, ph2, a, h)
    BY <1>5, <1>6, <1>7, <1>11 DEF MsgOK
  <1>12. Messages(l2, ph2, a, h)
    <2> SUFFICES ASSUME NEW e \in Directors, NEW z \in Sides, NEW i \in 1..Len(l2[e][z])
                 PROVE  MsgOK(l2[e][z][i], e, z, ph2, a, h)
      BY DEF Messages
    <2>1. CASE \E j \in 1..Len(l[e][z]) : l2[e][z][i] = l[e][z][j]
      BY <1>11, <2>1 DEF RingMoves, Messages
    <2>2. CASE e = d /\ z = "right" /\ l2[e][z][i] = m
      BY <1>1, <2>2 DEF MsgOK
    <2>3. CASE ~(e = d /\ z = "right")
      <3>1. l2[e][z] = l[e][z]
        BY <1>4, <1>8, <2>3
      <3> QED BY <2>1, <3>1
    <2> QED BY <1>10, <2>1, <2>2, <2>3
  <1>13. Tokens(l2, ph2)
    <2> SUFFICES ASSUME NEW e \in Directors
                 PROVE  /\ OneToken(l2[e]["right"])
                        /\ NoToken(l2[e]["right"]) \/ Through(ph2[e])
      BY DEF Tokens
    <2>1. CASE e = d
      BY <1>1, <1>4, <1>7, <1>9, <2>1, TokenAppend
    <2>2. CASE e # d
      BY <1>4, <1>6, <2>2 DEF RingMoves, Tokens
    <2> QED BY <2>1, <2>2
  <1>14. Chain(l2, ph2, a)
    <2> SUFFICES ASSUME NEW e \in Directors, e # a, Passed(ph2[e])
                 PROVE  Handed(l2, ph2, e)
      BY DEF Chain
    <2>1. Handed(l, ph, e)
      <3>1. CASE e = d
        BY <3>1
      <3>2. CASE e # d
        BY <1>3, <3>2 DEF RingMoves, Chain
      <3> QED BY <3>1, <3>2
    <2>2. Peer(e, "left") \in Directors /\ Peer(e, "left") # d
      BY <2>1, Peers DEF Handed
    <2> QED BY <1>4, <1>6, <2>1, <2>2 DEF Handed
  <1>15. Ahead(l2, ph2, h)
    <2> SUFFICES ASSUME NEW e \in Directors, NEW z \in Sides,
                        Moved(ph2[e]), ~Moved(ph2[Peer(e, z)])
                 PROVE  MoveAhead(l2[e][z], h)
      BY DEF Ahead
    <2>1. MoveAhead(l[e][z], h)
      BY <1>6, PeerType DEF Ahead
    <2>2. CASE e = d /\ z = "right"
      BY <1>1, <1>4, <1>9, <2>1, <2>2, MoveAppend
    <2>3. CASE ~(e = d /\ z = "right")
      BY <1>4, <1>8, <2>1, <2>3
    <2> QED BY <2>2, <2>3
  <1>16. ph2[a] \in {"killing", "waiting_everyone", "delay", "done"}
    BY <1>3 DEF RingMoves
  <1> QED BY <1>3, <1>4, <1>6, <1>12, <1>13, <1>14, <1>15, <1>16 DEF RingMoves

\* All are through, and d goes on.
LEMMA RingEnds ==
  ASSUME NEW l \in Links, NEW ph, NEW a \in Directors, NEW h,
         RingMoves(l, ph, a, h), Ahead(l, ph, h), AllThrough(ph),
         NEW d \in Directors, NEW p \in {"delay", "done"},
         p = "done" => \A e \in Directors, z \in Sides : \A i \in 1..Len(l[e][z]) :
                         l[e][z][i].cmd = "USER" => l[e][z][i].h = h,
         NEW ph2, ph2 = [ph EXCEPT ![d] = p]
  PROVE  RingMoves(l, ph2, a, h) /\ Ahead(l, ph2, h) /\ AllThrough(ph2)
  <1>1. ph \in [Directors -> Phases] /\ p \in Phases
    BY DEF RingMoves, Phases
  <1>2. /\ ph2 \in [Directors -> Phases] /\ ph2[d] = p
        /\ \A e \in Directors : e # d => ph2[e] = ph[e]
    BY <1>1, PhaseAt
  <1>3. AllThrough(ph2)
    BY <1>2 DEF AllThrough, Through
  <1>4. \A e \in Directors : /\ Through(ph2[e]) /\ Through(ph[e])
                             /\ Moved(ph2[e]) /\ Moved(ph[e])
                             /\ Passed(ph2[e]) /\ Passed(ph[e])
    BY <1>3 DEF AllThrough, Through, Moved, Passed
  <1>5. Messages(l, ph2, a, h)
    <2> SUFFICES ASSUME NEW e \in Directors, NEW z \in Sides, NEW i \in 1..Len(l[e][z])
                 PROVE  MsgOK(l[e][z][i], e, z, ph2, a, h)
      BY DEF Messages
    <2>1. MsgOK(l[e][z][i], e, z, ph, a, h)
      BY DEF RingMoves, Messages
    <2>2. CASE p = "done"
      BY <1>3, <1>4, <2>1, <2>2 DEF MsgOK
    <2>3. CASE p # "done"
      <3>1. NobodyDone(ph) => NobodyDone(ph2)
        BY <1>2, <2>3 DEF NobodyDone
      <3> QED BY <1>3, <1>4, <2>1, <3>1 DEF MsgOK
    <2> QED BY <2>2, <2>3
  <1>6. Tokens(l, ph2)
    BY <1>4 DEF RingMoves, Tokens
  <1>7. Chain(l, ph2, a)
    BY <1>4, Peers DEF RingMoves, Chain, Handed
  <1>8. Ahead(l, ph2, h)
    BY <1>4, PeerType DEF Ahead
  <1>9. ph2[a] \in {"killing", "waiting_everyone", "delay", "done"}
    BY <1>2 DEF RingMoves
  <1> QED BY <1>2, <1>3, <1>5, <1>6, <1>7, <1>8, <1>9 DEF RingMoves

\* A director alone need not wait for others.
LEMMA RingAlone ==
  ASSUME NEW l \in Links, NEW ph, NEW a \in Directors, NEW h,
         RingMoves(l, ph, a, h), N = 1, ph[a] = "killing",
         NEW ph2, ph2 = [ph EXCEPT ![a] = "delay"]
  PROVE  RingMoves(l, ph2, a, h) /\ Ahead(l, ph2, h)
  <1>1. Directors = {a}
    BY DEF Directors
  <1>2. ph \in [Directors -> Phases] /\ "delay" \in Phases
    BY DEF RingMoves, Phases
  <1>3. ph2 \in [Directors -> Phases] /\ ph2[a] = "delay"
    BY <1>2, PhaseAt
  <1>4. AllThrough(ph2) /\ NobodyDone(ph2)
    BY <1>1, <1>3 DEF AllThrough, NobodyDone, Through
  <1>5. Moved(ph2[a]) /\ Through(ph2[a])
    BY <1>3 DEF Moved, Through
  <1>6. Messages(l, ph2, a, h)
    BY <1>1, <1>4, <1>5 DEF RingMoves, Messages, MsgOK
  <1>7. Tokens(l, ph2)
    BY <1>1, <1>5 DEF RingMoves, Tokens
  <1>8. Chain(l, ph2, a)
    BY <1>1 DEF Chain
  <1>9. Ahead(l, ph2, h)
    BY <1>1, <1>5, PeerType DEF Ahead
  <1> QED BY <1>1, <1>3, <1>4, <1>6, <1>7, <1>8, <1>9 DEF RingMoves

\* The move gets to d.
LEMMA RingMove ==
  ASSUME NEW l \in Links, NEW ph, NEW a \in Directors, NEW h \in Hosts, h # DefaultHost,
         NEW d \in Directors, NEW src \in Directors, src # d,
         RingMoves(l, ph, a, h), AheadBut(l, ph, h, d), ph[d] = "before", Moved(ph[src]),
         NEW m, m = Msg("USER-MOVE", a, 1, h),
         NEW l2, l2 = director_update_send(l, d, src, m),
         NEW ph2, ph2 = [ph EXCEPT ![d] = "killing"]
  PROVE  /\ l2 \in Links /\ d # a
         /\ RingMoves(l2, ph2, a, h) /\ Ahead(l2, ph2, h)
  <1>1. m \in MsgRec /\ ~Token(m) /\ m.cmd = "USER-MOVE" /\ m.orig = a /\ m.seq = 1 /\ m.h = h
    <2>1. m \in MsgRec
      BY HostMsg DEF Commands, Killed
    <2> QED BY <2>1 DEF Msg, Token
  <1>2. ph \in [Directors -> Phases] /\ "killing" \in Phases
    BY DEF RingMoves, Phases
  <1>3. /\ ph2 \in [Directors -> Phases] /\ ph2[d] = "killing"
        /\ \A e \in Directors : e # d => ph2[e] = ph[e]
    BY <1>2, PhaseAt
  <1>4. d # a /\ ~Through(ph[d]) /\ ~Moved(ph[d])
    BY DEF RingMoves, Through, Moved
  <1>5. N # 1
    BY DEF Directors
  <1>6. /\ ~AllThrough(ph) /\ NobodyDone(ph)
        /\ \A e \in Directors : ph[e] \notin {"delay", "done"}
    BY <1>4, NotAllThrough
  <1>7. \A e \in Directors : /\ Through(ph2[e]) <=> Through(ph[e])
                             /\ Passed(ph2[e]) <=> Passed(ph[e])
                             /\ Moved(ph[e]) => Moved(ph2[e])
                             /\ ph2[e] \notin {"delay", "done"}
    BY <1>3, <1>4, <1>6 DEF Through, Passed, Moved
  <1>8. NobodyDone(ph2) /\ Moved(ph2[d])
    BY <1>3, <1>7 DEF NobodyDone, Moved
  <1>9. /\ Sent(l, l2, d, m)
        /\ \A z \in Sides : Peer(d, z) # src => l2[d][z] = Append(l[d][z], m)
    BY <1>1, <1>5, SendUpdate
  <1>10. \A e \in Directors, z \in Sides :
           /\ \A i \in 1..Len(l2[e][z]) :
                \/ \E j \in 1..Len(l[e][z]) : l2[e][z][i] = l[e][z][j]
                \/ e = d /\ l2[e][z][i] = m
           /\ NoToken(l[e][z]) => NoToken(l2[e][z])
           /\ OneToken(l[e][z]) => OneToken(l2[e][z])
           /\ \A g : MoveAhead(l[e][z], g) => MoveAhead(l2[e][z], g)
    <2>1. m \in MsgRec /\ ~Token(m) /\ Sent(l, l2, d, m)
      BY <1>1, <1>9
    <2> QED BY ONLY <2>1, SentQueue, l \in Links, d \in Directors
  <1>11. ASSUME NEW x, NEW e \in Directors, NEW z \in Sides, MsgOK(x, e, z, ph, a, h)
         PROVE  MsgOK(x, e, z, ph2, a, h)
    BY <1>6, <1>7, <1>8, <1>11 DEF MsgOK
  <1>12. Messages(l2, ph2, a, h)
    <2> SUFFICES ASSUME NEW e \in Directors, NEW z \in Sides, NEW i \in 1..Len(l2[e][z])
                 PROVE  MsgOK(l2[e][z][i], e, z, ph2, a, h)
      BY DEF Messages
    <2>1. CASE \E j \in 1..Len(l[e][z]) : l2[e][z][i] = l[e][z][j]
      BY <1>11, <2>1 DEF RingMoves, Messages
    <2>2. CASE e = d /\ l2[e][z][i] = m
      BY <1>1, <1>8, <2>2 DEF MsgOK
    <2> QED BY <1>10, <2>1, <2>2
  <1>13. Tokens(l2, ph2)
    BY <1>7, <1>10 DEF RingMoves, Tokens, Sides
  <1>14. Chain(l2, ph2, a)
    <2> SUFFICES ASSUME NEW e \in Directors, e # a, Passed(ph2[e])
                 PROVE  Handed(l2, ph2, e)
      BY DEF Chain
    <2>1. Handed(l, ph, e) /\ Peer(e, "left") \in Directors /\ "right" \in Sides
      BY <1>7, Peers DEF RingMoves, Chain, Sides
    <2> QED BY <1>7, <1>10, <2>1 DEF Handed
  <1>15. Ahead(l2, ph2, h)
    <2> SUFFICES ASSUME NEW e \in Directors, NEW z \in Sides,
                        Moved(ph2[e]), ~Moved(ph2[Peer(e, z)])
                 PROVE  MoveAhead(l2[e][z], h)
      BY DEF Ahead
    <2>1. Peer(e, z) \in Directors /\ Peer(e, z) # d /\ ~Moved(ph[Peer(e, z)])
      BY <1>7, <1>8, PeerType
    <2>2. CASE e = d
      <3> DEFINE q == l[d][z]
      <3>1. q \in Seq(MsgRec)
        BY QueueType
      <3>2. l2[e][z] = Append(q, m)
        BY <1>9, <2>1, <2>2
      <3>3. ASSUME NEW i \in 1..Len(q), q[i].cmd = "USER", q[i].h = h PROVE FALSE
        <4>1. MsgOK(q[i], d, z, ph, a, h)
          BY DEF RingMoves, Messages
        <4> QED BY <1>4, <3>3, <4>1 DEF MsgOK
      <3>4. \A i \in 1..Len(q) : ~(q[i].cmd = "USER" /\ q[i].h = h)
        BY <3>3
      <3> HIDE DEF q
      <3>5. MoveAhead(Append(q, m), h)
        BY <1>1, <3>1, <3>4, MoveAppend
      <3> QED BY <3>2, <3>5
    <2>3. CASE e # d
      <3>1. Moved(ph[e])
        BY <1>3, <2>3
      <3>2. MoveAhead(l[e][z], h)
        BY <2>1, <3>1 DEF AheadBut
      <3> QED BY <1>10, <3>2
    <2> QED BY <2>2, <2>3
  <1>16. ph2[a] = ph[a] /\ l2 \in Links
    BY <1>3, <1>4, <1>9 DEF Sent
  <1> QED BY <1>3, <1>4, <1>7, <1>12, <1>13, <1>14, <1>15, <1>16 DEF RingMoves

\* The move starts at a, while there are only USER messages.
LEMMA RingStart ==
  ASSUME NEW l \in Links, NEW a \in Directors, NEW h \in Hosts, h # DefaultHost,
         \A e \in Directors, z \in Sides : \A i \in 1..Len(l[e][z]) :
           l[e][z][i].cmd = "USER" /\ l[e][z][i].h = DefaultHost,
         NEW m, m = Msg("USER-MOVE", a, 1, h),
         NEW l2, l2 = director_update_send(l, a, a, m),
         NEW ph, ph = [e \in Directors |-> IF e = a THEN "killing" ELSE "before"]
  PROVE  /\ l2 \in Links
         /\ RingMoves(l2, ph, a, h) /\ Ahead(l2, ph, h)
  <1>1. m \in MsgRec /\ ~Token(m) /\ m.cmd = "USER-MOVE" /\ m.orig = a /\ m.seq = 1 /\ m.h = h
    <2>1. m \in MsgRec
      BY HostMsg DEF Commands, Killed
    <2> QED BY <2>1 DEF Msg, Token
  <1>2. /\ ph \in [Directors -> Phases] /\ ph[a] = "killing"
        /\ \A e \in Directors : e # a => ph[e] = "before"
    BY DEF Phases
  <1>3. \A e \in Directors : /\ ~Through(ph[e]) /\ ~Passed(ph[e])
                             /\ ph[e] \notin {"delay", "done"}
                             /\ Moved(ph[e]) <=> e = a
    BY <1>2 DEF Through, Passed, Moved
  <1>4. NobodyDone(ph)
    BY <1>3 DEF NobodyDone
  <1>5. /\ Sent(l, l2, a, m)
        /\ \A z \in Sides : N # 1 => l2[a][z] = Append(l[a][z], m)
    BY <1>1, SendUpdate
  <1>6. \A e \in Directors, z \in Sides :
          /\ \A i \in 1..Len(l2[e][z]) :
               \/ \E j \in 1..Len(l[e][z]) : l2[e][z][i] = l[e][z][j]
               \/ e = a /\ l2[e][z][i] = m
          /\ NoToken(l[e][z]) => NoToken(l2[e][z])
          /\ OneToken(l[e][z]) => OneToken(l2[e][z])
    BY <1>1, <1>5, SentQueue
  <1>7. \A e \in Directors, z \in Sides : NoToken(l[e][z]) /\ OneToken(l[e][z])
    BY DEF NoToken, OneToken, Token
  <1>8. Messages(l2, ph, a, h)
    <2> SUFFICES ASSUME NEW e \in Directors, NEW z \in Sides, NEW i \in 1..Len(l2[e][z])
                 PROVE  MsgOK(l2[e][z][i], e, z, ph, a, h)
      BY DEF Messages
    <2>1. CASE \E j \in 1..Len(l[e][z]) : l2[e][z][i] = l[e][z][j]
      BY <1>4, <2>1 DEF MsgOK
    <2>2. CASE e = a /\ l2[e][z][i] = m
      BY <1>1, <1>3, <2>2 DEF MsgOK
    <2> QED BY <1>6, <2>1, <2>2
  <1>9. Tokens(l2, ph)
    BY <1>6, <1>7 DEF Tokens, Sides
  <1>10. Chain(l2, ph, a)
    BY <1>3 DEF Chain
  <1>11. Ahead(l2, ph, h)
    <2> SUFFICES ASSUME NEW e \in Directors, NEW z \in Sides,
                        Moved(ph[e]), ~Moved(ph[Peer(e, z)])
                 PROVE  MoveAhead(l2[e][z], h)
      BY DEF Ahead
    <2>1. e = a /\ Peer(a, z) \in Directors /\ Peer(a, z) # a
      BY <1>3, PeerType
    <2>2. N # 1
      BY <2>1 DEF Directors
    <2> DEFINE q == l[a][z]
    <2>3. q \in Seq(MsgRec) 
          /\ \A i \in 1..Len(q) : ~(q[i].cmd = "USER" /\ q[i].h = h)
      BY QueueType
    <2>4. l2[e][z] = Append(q, m)
      BY <1>5, <2>1, <2>2
    <2> HIDE DEF q
    <2>5. MoveAhead(Append(q, m), h)
      BY <1>1, <2>3, MoveAppend
    <2> QED BY <2>4, <2>5
  <1>12. l2 \in Links
    BY <1>5 DEF Sent
  <1> QED BY <1>2, <1>3, <1>8, <1>9, <1>10, <1>11, <1>12 DEF RingMoves

-----------------------------------------------------------------------------
(* The directors in a move                                                 *)

PhaseOf(ho, k, h) ==
  IF ho # h THEN "before" ELSE IF k.state = "none" THEN "done" ELSE k.state

\* A director in phase p with the user's host ho, context k, connections c and
\* the last command s of a; all: everyone is through; self: it is a.
DirOK(ho, k, c, s, p, all, self, h) ==
  /\ p = PhaseOf(ho, k, h)
  /\ p = "before" => /\ ho \in {NoHost, DefaultHost} /\ k.state = "none"
                     /\ c \subseteq {ho} /\ s = 0
  /\ p # "before" => s >= 1
  /\ p \in {"killing", "killing_notify"} => k.pending /\ c \subseteq {DefaultHost}
  /\ p \notin {"before", "killing", "killing_notify"}
       => c \subseteq {h} /\ (c # {} => all)
  /\ k.state # "none" => (k.self <=> self)

Dirs(ph, a, h) ==
  \A d \in Directors : DirOK(host[d], kill[d], conns[d], last_seq[d][a], ph[d],
                             AllThrough(ph), d = a, h)

MovingInv(a, h) ==
  \E ph : RingMoves(link, ph, a, h) /\ Ahead(link, ph, h) /\ Dirs(ph, a, h)

\* A step of one director.
LEMMA OneMoves ==
  ASSUME NEW a \in Directors, NEW h, NEW ph, Dirs(ph, a, h),
         NEW ph2, NEW d \in Directors,
         \A e \in Directors : e # d =>
           /\ host'[e] = host[e] /\ kill'[e] = kill[e] /\ conns'[e] = conns[e]
           /\ last_seq'[e][a] = last_seq[e][a] /\ ph2[e] = ph[e],
         AllThrough(ph) => AllThrough(ph2),
         DirOK(host'[d], kill'[d], conns'[d], last_seq'[d][a], ph2[d], AllThrough(ph2), d = a, h),
         RingMoves(link', ph2, a, h), Ahead(link', ph2, h)
  PROVE  MovingInv(a, h)'
  <1>1. ASSUME NEW e \in Directors
        PROVE  DirOK(host'[e], kill'[e], conns'[e], last_seq'[e][a], ph2[e],
                     AllThrough(ph2), e = a, h)
    <2>1. CASE e = d
      BY <2>1
    <2>2. CASE e # d
      <3>1. DirOK(host[e], kill[e], conns[e], last_seq[e][a], ph[e], AllThrough(ph), e = a, h)
        BY DEF Dirs
      <3>2. DirOK(host[e], kill[e], conns[e], last_seq[e][a], ph[e], AllThrough(ph2), e = a, h)
        BY <3>1 DEF DirOK
      <3> QED BY <2>2, <3>2
    <2> QED BY <2>1, <2>2
  <1>2. Dirs(ph2, a, h)'
    BY <1>1 DEF Dirs
  <1> QED BY <1>2 DEF MovingInv

LEMMA PhaseIs ==
  ASSUME MoveInv, NEW a \in Directors, NEW h \in Hosts, h # DefaultHost, NEW ph,
         NEW l, RingMoves(l, ph, a, h), Dirs(ph, a, h), NEW d \in Directors
  PROVE  /\ ph[d] \in Phases /\ kill[d] \in KillRec /\ kill[d].state # "flushing"
         /\ kill[d].state # "none" => ph[d] = kill[d].state
         /\ kill[d].state = "none" <=> ph[d] \in {"before", "done"}
         /\ ph[d] = "before" =>
              /\ host[d] \in {NoHost, DefaultHost} /\ conns[d] \subseteq {host[d]}
              /\ last_seq[d][a] = 0
         /\ ph[d] # "before" => host[d] = h /\ last_seq[d][a] >= 1
         /\ ph[d] \in {"killing", "killing_notify"} =>
              kill[d].pending /\ conns[d] \subseteq {DefaultHost}
         /\ kill[d].pending => ph[d] \in {"killing", "killing_notify"}
         /\ ph[d] \notin {"before", "killing", "killing_notify"} =>
              conns[d] \subseteq {h} /\ (conns[d] # {} => AllThrough(ph))
         /\ kill[d].state # "none" => (kill[d].self <=> d = a)
  <1>1. ph[d] \in Phases
    BY DEF RingMoves
  <1>2. kill[d] \in KillRec /\ PendingKill(kill[d])
    BY DEF MoveInv, CtxInv
  <1>3. kill[d].state \in KillStates
    BY <1>2 DEF KillRec
  <1>4. DirOK(host[d], kill[d], conns[d], last_seq[d][a], ph[d], AllThrough(ph), d = a, h)
    BY DEF Dirs
  <1>5. DefaultHost # NoHost /\ h # NoHost
    BY MoveAssumption
  <1>6. /\ kill[d].state # "none" => ph[d] = kill[d].state
        /\ kill[d].state = "none" <=> ph[d] \in {"before", "done"}
        /\ kill[d].state # "flushing"
    BY <1>1, <1>3, <1>4, <1>5 DEF DirOK, PhaseOf, Phases, KillStates
  <1>7. kill[d].pending => ph[d] \in {"killing", "killing_notify"}
    BY <1>2, <1>6 DEF PendingKill
  <1>8. ph[d] # "before" => host[d] = h
    BY <1>4 DEF DirOK, PhaseOf
  <1> QED BY <1>1, <1>2, <1>4, <1>6, <1>7, <1>8 DEF DirOK

-----------------------------------------------------------------------------
(* The steps of a move                                                     *)

\* l is the ring without the message m that d has read from src.
ReadFrom(l, ph, a, h, d, src, m) ==
  /\ l \in Links /\ m \in MsgRec /\ src \in Directors
  /\ RingMoves(l, ph, a, h) /\ AheadBut(l, ph, h, d)
  /\ \E s \in Sides : MsgOK(m, src, s, ph, a, h)
  /\ m.cmd # "USER-MOVE" \/ Moved(ph[d]) => Ahead(l, ph, h)
  /\ m.cmd = "USER" /\ m.h = h => Moved(ph[d]) \/ ~Moved(ph[src])
  /\ Token(m) => /\ src = Peer(d, "left") /\ Handed(l, ph, d)
                 /\ d # a => ~Passed(ph[d])

LEMMA MovingUser ==
  ASSUME MoveInv, NEW a \in Directors, NEW h \in Hosts, h # DefaultHost,
         NEW ph, Dirs(ph, a, h), NEW d \in Directors, NEW l, NEW src, NEW m,
         ReadFrom(l, ph, a, h, d, src, m), m.cmd = "USER", RecvUser(l, d, src, m)
  PROVE  MovingInv(a, h)' /\ UNCHANGED <<kicks, orphans>>
  <1> DEFINE g == IF host[d] = NoHost THEN m.h ELSE host[d]
  <1>1. /\ l \in Links /\ src \in Directors /\ RingMoves(l, ph, a, h) /\ Ahead(l, ph, h)
        /\ \/ m.h = DefaultHost /\ NobodyDone(ph)
           \/ m.h = h /\ Moved(ph[d])
    BY DEF ReadFrom, MsgOK
  <1>2. DefaultHost # NoHost /\ h # NoHost /\ DefaultHost \in Hosts
    BY MoveAssumption
  <1>3. ph[d] = "before" =>
          host[d] \in {NoHost, DefaultHost} /\ conns[d] \subseteq {host[d]}
    BY <1>1, PhaseIs
  <1>4. ph[d] # "before" => host[d] = h
    BY <1>1, PhaseIs
  <1>5. kill[d].state = "none" <=> ph[d] \in {"before", "done"}
    BY <1>1, PhaseIs
  <1>6. ~(host[d] \notin {NoHost, m.h} /\ ~USER_IS_BEING_KILLED(d))
    BY <1>1, <1>2, <1>3, <1>4, <1>5 DEF NobodyDone, Moved, USER_IS_BEING_KILLED
  <1>7. /\ ph[d] = "before" => g = DefaultHost
        /\ ph[d] # "before" => g = h
    BY <1>1, <1>2, <1>3, <1>4 DEF Moved
  <1>8. /\ host' = [host EXCEPT ![d] = g] /\ last_seq' = last_seq /\ kicks' = kicks
        /\ UNCHANGED <<kill, orphans, conns>>
        /\ link' = l \/ link' = director_update_send(l, d, src, USER(d, g))
    BY <1>6 DEF RecvUser
  <1>9. g \in Hosts
    BY <1>2, <1>7
  <1> HIDE DEF g
  <1>10. RingMoves(link', ph, a, h) /\ Ahead(link', ph, h)
    <2>1. USER(d, g) \in MsgRec /\ USER(d, g).cmd = "USER" /\ USER(d, g).h = g
      BY <1>9, UserMsg DEF USER, Msg
    <2>2. \A side \in Sides : MsgOK(USER(d, g), d, side, ph, a, h)
      <3>1. CASE ph[d] = "before"
        <4>1. NobodyDone(ph)
          BY <1>1, <3>1 DEF Moved
        <4> QED BY <1>7, <2>1, <3>1, <4>1 DEF MsgOK
      <3>2. CASE ph[d] # "before"
        BY <1>7, <2>1, <3>2 DEF MsgOK, Moved
      <3> QED BY <3>1, <3>2
    <2> DEFINE x == USER(d, g)
    <2>3. ~Token(x)
      BY <2>1 DEF Token
    <2>4. x \in MsgRec /\ \A side \in Sides : MsgOK(x, d, side, ph, a, h)
      BY <2>1, <2>2
    <2> HIDE DEF x
    <2>5. CASE link' = director_update_send(l, d, src, x)
      <3>1. Sent(l, link', d, x)
        BY <1>1, <2>4, <2>5, SendUpdate
      <3> QED BY <1>1, <2>3, <2>4, <3>1, RingSend
    <2> QED BY <1>1, <1>8, <2>5 DEF x
  <1>11. DirOK(host'[d], kill'[d], conns'[d], last_seq'[d][a], ph[d], AllThrough(ph), d = a, h)
    <2>1. DirOK(host[d], kill[d], conns[d], last_seq[d][a], ph[d], AllThrough(ph), d = a, h)
      BY DEF Dirs
    <2>2. host'[d] = g
      BY <1>8 DEF MoveInv, RingInv
    <2>3. conns[d] \subseteq Hosts /\ NoHost \notin Hosts
      BY MoveAssumption DEF MoveInv, ProxyInv
    <2>4. CASE ph[d] = "before"
      <3>1. conns[d] \subseteq {DefaultHost}
        BY <1>3, <2>3, <2>4
      <3> QED BY <1>2, <1>7, <1>8, <2>1, <2>2, <2>4, <3>1 DEF DirOK, PhaseOf
    <2>5. CASE ph[d] # "before"
      BY <1>4, <1>7, <1>8, <2>1, <2>2, <2>5
    <2> QED BY <2>4, <2>5
  <1>12. \A e \in Directors : e # d =>
           /\ host'[e] = host[e] /\ kill'[e] = kill[e] /\ conns'[e] = conns[e]
           /\ last_seq'[e][a] = last_seq[e][a] /\ ph[e] = ph[e]
    BY <1>8 DEF MoveInv, RingInv
  <1> QED BY <1>8, <1>10, <1>11, <1>12, OneMoves

LEMMA FlushIs ==
  ASSUME ~FlushSocket, NEW k \in KillRec
  PROVE  /\ director_flush_user(k) \in KillRec /\ director_flush_user(k).state = "delay"
         /\ director_flush_user(k).self = k.self
  BY DEF director_flush_user, KillRec, KillStates

LEMMA FinishIs ==
  ASSUME ~FlushSocket, NEW k \in KillRec, NEW self
  PROVE  /\ director_finish_user_kill(k, self) \in KillRec
         /\ director_finish_user_kill(k, self).self = k.self
         /\ director_finish_user_kill(k, self).state =
              IF N = 1 THEN "delay"
              ELSE IF self \/ k.state = "killing_notify" THEN "waiting_everyone"
              ELSE "waiting_notify"
  <1>1. CASE N = 1
    BY <1>1, FlushIs DEF director_finish_user_kill
  <1>2. CASE N # 1
    <2> DEFINE x == IF self \/ k.state = "killing_notify" THEN "waiting_everyone"
                    ELSE "waiting_notify"
    <2>1. director_finish_user_kill(k, self) = [k EXCEPT !.state = x]
      BY <1>2 DEF director_finish_user_kill
    <2>2. x \in KillStates
      BY DEF KillStates
    <2>3. x = IF self \/ k.state = "killing_notify" THEN "waiting_everyone"
              ELSE "waiting_notify"
      OBVIOUS
    <2> HIDE DEF x
    <2>4. /\ [k EXCEPT !.state = x] \in KillRec
          /\ [k EXCEPT !.state = x].self = k.self /\ [k EXCEPT !.state = x].state = x
      BY <2>2 DEF KillRec
    <2> QED BY <1>2, <2>1, <2>3, <2>4
  <1> QED BY <1>1, <1>2

\* The new context k of director_kill_user(), and what is sent of it.
NewKill(l, l2, k, d, src, old, h) ==
  /\ k.self <=> src = d
  /\ old \notin {NoHost, h} => k.state = "killing" /\ k.pending
  /\ old \in {NoHost, h} =>
       k.state = IF N = 1 THEN "delay"
                 ELSE IF src = d THEN "waiting_everyone" ELSE "waiting_notify"
  /\ l2 = IF k.state = "waiting_everyone" THEN SendRight(l, d, USER_KILLED(d)) ELSE l

LEMMA KillStarts ==
  ASSUME ~FlushSocket, NEW l, NEW d \in Directors, NEW src, NEW old, NEW h,
         director_kill_user(l, d, src, old, h), ~USER_IS_BEING_KILLED(d)
  PROVE  \E k \in KillRec : kill' = [kill EXCEPT ![d] = k] /\ NewKill(l, link', k, d, src, old, h)
  <1> DEFINE kick == old \notin {NoHost, h}
             ctx == [state |-> "killing", self |-> src = d, old |-> old # NoHost,
                     pending |-> kick]
             k == IF kick THEN ctx ELSE director_finish_user_kill(ctx, ctx.self)
  <1>1. kill' = [kill EXCEPT ![d] = k] /\ link' = Announced(l, d, k)
    BY DEF director_kill_user
  <1>2. ctx \in KillRec /\ (ctx.self <=> src = d) /\ ctx.state = "killing"
        /\ (ctx.pending <=> kick)
    BY DEF KillRec, KillStates
  <1>3. /\ k \in KillRec /\ (k.self <=> src = d)
        /\ kick => k.state = "killing" /\ k.pending
        /\ ~kick => k.state = IF N = 1 THEN "delay"
                              ELSE IF src = d THEN "waiting_everyone" ELSE "waiting_notify"
    <2> HIDE DEF kick, ctx
    <2>1. CASE kick
      BY <1>2, <2>1
    <2>2. CASE ~kick
      <3> DEFINE own == ctx.self
      <3> HIDE DEF own
      <3>1. /\ director_finish_user_kill(ctx, own) \in KillRec
            /\ director_finish_user_kill(ctx, own).self = ctx.self
            /\ director_finish_user_kill(ctx, own).state =
                 IF N = 1 THEN "delay"
                 ELSE IF own \/ ctx.state = "killing_notify" THEN "waiting_everyone"
                 ELSE "waiting_notify"
        BY <1>2, FinishIs
      <3>2. k = director_finish_user_kill(ctx, own)
        BY <2>2 DEF own
      <3> HIDE DEF k
      <3> QED BY <1>2, <2>2, <3>1, <3>2 DEF own
    <2> QED BY <2>1, <2>2
  <1> HIDE DEF k
  <1>4. NewKill(l, link', k, d, src, old, h)
    BY <1>1, <1>3 DEF Announced, NewKill, kick
  <1> QED BY <1>1, <1>3, <1>4

LEMMA MovingMove ==
  ASSUME MoveInv, ~FlushSocket, NEW a \in Directors, NEW h \in Hosts, h # DefaultHost,
         NEW ph, Dirs(ph, a, h), NEW d \in Directors, NEW l, NEW src, NEW m,
         ReadFrom(l, ph, a, h, d, src, m), m.cmd = "USER-MOVE", RecvUserMove(l, d, src, m)
  PROVE  MovingInv(a, h)' /\ UNCHANGED <<kicks, orphans>>
  <1>1. /\ l \in Links /\ src \in Directors /\ RingMoves(l, ph, a, h) /\ AheadBut(l, ph, h, d)
        /\ Moved(ph[d]) => Ahead(l, ph, h)
        /\ m.orig = a /\ m.seq = 1 /\ m.h = h /\ Moved(ph[src])
    BY DEF ReadFrom, MsgOK
  <1>2. DefaultHost # NoHost /\ h # NoHost /\ DefaultHost \in Hosts /\ NoHost \notin Hosts
    BY MoveAssumption
  <1>3. /\ ph[d] = "before" =>
             /\ host[d] \in {NoHost, DefaultHost} /\ conns[d] \subseteq {host[d]}
             /\ last_seq[d][a] = 0
        /\ ph[d] # "before" => last_seq[d][a] >= 1
        /\ kill[d].state = "none" <=> ph[d] \in {"before", "done"}
    BY <1>1, PhaseIs
  <1>4. last_seq[d][a] \in Nat
    BY DEF MoveInv, RingInv
  <1>5. CASE ph[d] # "before"
    <2>1. Seen(d, m)
      BY <1>1, <1>3, <1>4, <1>5 DEF Seen
    <2>2. link' = l /\ UNCHANGED <<host, kill, orphans, last_seq, conns, kicks>>
      BY <2>1 DEF RecvUserMove
    <2>3. RingMoves(link', ph, a, h) /\ Ahead(link', ph, h)
      BY <1>1, <1>5, <2>2 DEF Moved
    <2>4. DirOK(host'[d], kill'[d], conns'[d], last_seq'[d][a], ph[d], AllThrough(ph), d = a, h)
      BY <2>2 DEF Dirs
    <2> QED BY <2>2, <2>3, <2>4, OneMoves
  <1>6. CASE ph[d] = "before"
    <2>1. ~Seen(d, m)
      BY <1>1, <1>3, <1>4, <1>6 DEF Seen
    <2> DEFINE l1 == director_update_send(l, d, src, Msg("USER-MOVE", a, 1, h))
               old == host[d]
    <2>2. /\ last_seq' = [last_seq EXCEPT ![d][a] = 1]
          /\ director_kill_user(l1, d, src, old, h) /\ host' = [host EXCEPT ![d] = h]
          /\ UNCHANGED <<orphans, conns, kicks>>
      BY <1>1, <2>1 DEF RecvUserMove, director_move_user, MarkSeen
    <2>3. ~USER_IS_BEING_KILLED(d) /\ old \in {NoHost, DefaultHost} /\ src # d
      BY <1>1, <1>3, <1>6 DEF USER_IS_BEING_KILLED, Moved
    <2> DEFINE ph1 == [ph EXCEPT ![d] = "killing"]
    <2>4. l1 \in Links /\ RingMoves(l1, ph1, a, h) /\ Ahead(l1, ph1, h) /\ d # a
      <3> HIDE DEF l1, ph1
      <3> QED BY <1>1, <1>6, <2>3, RingMove DEF l1, ph1
    <2> HIDE DEF l1, old
    <2>5. PICK k \in KillRec : kill' = [kill EXCEPT ![d] = k] /\ NewKill(l1, link', k, d, src, old, h)
      BY <2>2, <2>3, KillStarts
    <2>6. N # 1
      BY <2>4 DEF Directors
    <2>7. /\ link' = l1 /\ k.self = FALSE
          /\ \/ k.state = "killing" /\ k.pending /\ old = DefaultHost
             \/ k.state = "waiting_notify" /\ old = NoHost
      BY <1>2, <2>3, <2>5, <2>6 DEF KillRec, NewKill
    <2> DEFINE p == k.state
               ph2 == [ph EXCEPT ![d] = p]
    <2>8. ph \in [Directors -> Phases] /\ p \in {"killing", "waiting_notify"}
      BY <1>1, <2>7 DEF RingMoves
    <2> HIDE DEF p
    <2>9. /\ ph1[d] = "killing" /\ ph2 = [ph1 EXCEPT ![d] = p] /\ ph2[d] = p
          /\ \A e \in Directors : e # d => ph2[e] = ph[e]
          /\ p = "killing" => ph2 = ph1
      BY <2>8
    <2> HIDE DEF ph1, ph2
    <2>10. RingMoves(link', ph2, a, h) /\ Ahead(link', ph2, h)
      <3>1. CASE p = "killing"
        BY <2>4, <2>7, <2>9, <3>1
      <3>2. CASE p = "waiting_notify"
        <4>1. RingMoves(l1, ph2, a, h) /\ Ahead(l1, ph2, h)
          BY <2>4, <2>9, <3>2, RingWaits
        <4> QED BY <2>7, <4>1
      <3> QED BY <2>8, <3>1, <3>2
    <2>11. ~AllThrough(ph)
      BY <1>6 DEF AllThrough, Through
    <2>12. /\ host'[d] = h /\ kill'[d] = k /\ conns'[d] = conns[d] /\ last_seq'[d][a] = 1
      BY <2>2, <2>5 DEF MoveInv, RingInv, CtxInv
    <2>13. \A e \in Directors : e # d =>
             /\ host'[e] = host[e] /\ kill'[e] = kill[e] /\ conns'[e] = conns[e]
             /\ last_seq'[e][a] = last_seq[e][a] /\ ph2[e] = ph[e]
      BY <2>2, <2>5, <2>9 DEF MoveInv, RingInv, CtxInv
    <2>14. DirOK(h, k, conns[d], 1, p, AllThrough(ph2), d = a, h)
      <3>1. conns[d] \subseteq Hosts /\ conns[d] \subseteq {old}
        BY <1>3, <1>6 DEF MoveInv, ProxyInv, old
      <3>2. CASE p = "killing"
        BY <2>4, <2>7, <3>1, <3>2 DEF DirOK, PhaseOf, p
      <3>3. CASE p = "waiting_notify"
        <4>1. conns[d] = {}
          BY <1>2, <2>7, <3>1, <3>3 DEF p
        <4> QED BY <2>4, <2>7, <3>3, <4>1 DEF DirOK, PhaseOf, p
      <3> QED BY <2>8, <3>2, <3>3
    <2>15. DirOK(host'[d], kill'[d], conns'[d], last_seq'[d][a], ph2[d], AllThrough(ph2), d = a, h)
      BY <2>9, <2>12, <2>14
    <2>16. MovingInv(a, h)'
      BY <2>10, <2>11, <2>13, <2>15, OneMoves
    <2> QED BY <2>2, <2>16
  <1> QED BY <1>5, <1>6

\* A director that has moved stays as it is when it sees a later command.
LEMMA LaterSeen ==
  ASSUME NEW ho, NEW k, NEW c, NEW s \in Nat, NEW p, NEW all, NEW self, NEW h,
         DirOK(ho, k, c, s, p, all, self, h), p # "before", NEW s2 \in Nat, s2 >= s
  PROVE  DirOK(ho, k, c, s2, p, all, self, h)
  BY DEF DirOK

\* All are through, and the context of d is k with nobody connected to
\* DefaultHost any more.
LEMMA DelayIs ==
  ASSUME ~FlushSocket, MoveInv, NEW a \in Directors, NEW h \in Hosts, h # DefaultHost,
         NEW ph, NEW l, RingMoves(l, ph, a, h), Dirs(ph, a, h), NEW d \in Directors,
         ph[d] = "waiting_everyone", NEW s \in Nat, s >= last_seq[d][a]
  PROVE  DirOK(host[d], director_flush_user(kill[d]), conns[d], s, "delay", TRUE, d = a, h)
  <1>1. /\ kill[d] \in KillRec /\ host[d] = h /\ kill[d].state # "none"
        /\ conns[d] \subseteq {h} /\ (kill[d].self <=> d = a) /\ last_seq[d][a] >= 1
    BY PhaseIs
  <1>2. last_seq[d][a] \in Nat
    BY DEF MoveInv, RingInv
  <1> DEFINE k == director_flush_user(kill[d])
  <1>3. k.state = "delay" /\ k.self = kill[d].self
    BY <1>1, FlushIs
  <1> HIDE DEF k
  <1>4. DirOK(host[d], k, conns[d], s, "delay", TRUE, d = a, h)
    BY <1>1, <1>2, <1>3 DEF DirOK, PhaseOf
  <1> QED BY <1>4 DEF k

LEMMA EverywhereSent ==
  ASSUME NEW a \in Directors, NEW h, NEW ph, NEW l \in Links, RingMoves(l, ph, a, h),
         Ahead(l, ph, h), AllThrough(ph), NEW d \in Directors, NEW src, NEW m \in MsgRec,
         m.cmd = "USER-KILLED-EVERYWHERE"
  PROVE  /\ RingMoves(director_update_send(l, d, src, m), ph, a, h)
         /\ Ahead(director_update_send(l, d, src, m), ph, h)
  <1> DEFINE l2 == director_update_send(l, d, src, m)
  <1>1. Sent(l, l2, d, m) /\ ~Token(m)
    BY SendUpdate DEF Token
  <1>2. \A side \in Sides : MsgOK(m, d, side, ph, a, h)
    BY DEF MsgOK
  <1> HIDE DEF l2
  <1>3. RingMoves(l2, ph, a, h) /\ Ahead(l2, ph, h)
    BY <1>1, <1>2, RingSend
  <1> QED BY <1>3 DEF l2

\* The token comes back to a.
LEMMA TokenBack ==
  ASSUME MoveInv, ~FlushSocket, NEW a \in Directors, NEW h \in Hosts, h # DefaultHost,
         NEW ph, Dirs(ph, a, h), NEW l, NEW src, NEW m,
         ReadFrom(l, ph, a, h, a, src, m), m.cmd = "USER-KILLED", RecvUserKilled(l, a)
  PROVE  MovingInv(a, h)' /\ UNCHANGED <<kicks, orphans>>
  <1>1. /\ l \in Links /\ RingMoves(l, ph, a, h) /\ Ahead(l, ph, h) /\ Handed(l, ph, a)
    BY DEF ReadFrom, Token
  <1>2. AllThrough(ph)
    BY <1>1, AllAreThrough DEF Handed
  <1>3. ph \in [Directors -> Phases] /\ Through(ph[a])
    BY <1>1, <1>2 DEF RingMoves, AllThrough
  <1>4. /\ kill[a].state # "none" => ph[a] = kill[a].state
        /\ kill[a].state = "none" <=> ph[a] \in {"before", "done"}
    BY <1>1, PhaseIs
  <1>5. DirOK(host[a], kill[a], conns[a], last_seq[a][a], ph[a], AllThrough(ph), a = a, h)
    BY DEF Dirs
  <1>6. last_seq[a][a] \in Nat /\ last_seq \in [Directors -> [Directors -> Nat]]
    BY DEF MoveInv, RingInv
  <1> DEFINE m2 == Msg("USER-KILLED-EVERYWHERE", a, OwnSeq(a), NoHost)
  <1>7. m2 \in MsgRec /\ m2.cmd = "USER-KILLED-EVERYWHERE"
    <2>1. OwnSeq(a) \in Nat
      BY <1>6 DEF OwnSeq
    <2> QED BY <2>1, KilledMsg DEF Killed, Msg
  <1>8. /\ UNCHANGED <<host, conns, kicks, orphans>>
        /\ kill[a].state = "none" => link' = l /\ UNCHANGED <<kill, last_seq>>
        /\ kill[a].state = "delay" =>
             link' = director_update_send(l, a, a, m2) /\ kill' = kill /\ last_seq' = NextSeq(a)
        /\ kill[a].state = "waiting_everyone" =>
             /\ link' = director_update_send(l, a, a, m2) /\ last_seq' = NextSeq(a)
             /\ kill' = [kill EXCEPT ![a] = director_flush_user(kill[a])]
    BY DEF RecvUserKilled
  <1> HIDE DEF m2
  <1>9. last_seq' = NextSeq(a) =>
          /\ last_seq'[a][a] = last_seq[a][a] + 1
          /\ \A e \in Directors : e # a => last_seq'[e][a] = last_seq[e][a]
    BY <1>6 DEF NextSeq
  <1>10. CASE ph[a] = "done"
    <2>1. link' = l /\ UNCHANGED <<kill, last_seq>>
      BY <1>4, <1>8, <1>10
    <2>2. RingMoves(link', ph, a, h) /\ Ahead(link', ph, h)
      BY <1>1, <2>1
    <2>3. DirOK(host'[a], kill'[a], conns'[a], last_seq'[a][a], ph[a], AllThrough(ph), a = a, h)
      BY <1>5, <1>8, <2>1
    <2> QED BY <1>8, <2>1, <2>2, <2>3, OneMoves
  <1>11. CASE ph[a] = "delay"
    <2>1. link' = director_update_send(l, a, a, m2) /\ kill' = kill /\ last_seq' = NextSeq(a)
      BY <1>4, <1>8, <1>11
    <2>2. RingMoves(link', ph, a, h) /\ Ahead(link', ph, h)
      BY <1>1, <1>2, <1>7, <2>1, EverywhereSent
    <2>3. DirOK(host[a], kill[a], conns[a], last_seq[a][a] + 1, ph[a], AllThrough(ph), a = a, h)
      BY <1>5, <1>6, <1>11, LaterSeen
    <2>4. DirOK(host'[a], kill'[a], conns'[a], last_seq'[a][a], ph[a], AllThrough(ph), a = a, h)
      BY <1>8, <1>9, <2>1, <2>3
    <2> QED BY <1>8, <1>9, <2>1, <2>2, <2>4, OneMoves
  <1>12. CASE ph[a] = "waiting_everyone"
    <2>1. /\ link' = director_update_send(l, a, a, m2) /\ last_seq' = NextSeq(a)
          /\ kill' = [kill EXCEPT ![a] = director_flush_user(kill[a])]
      BY <1>4, <1>8, <1>12
    <2> DEFINE ph2 == [ph EXCEPT ![a] = "delay"]
    <2>2. ph2[a] = "delay" /\ \A e \in Directors : e # a => ph2[e] = ph[e]
      BY <1>3
    <2>3. RingMoves(l, ph2, a, h) /\ Ahead(l, ph2, h) /\ AllThrough(ph2)
      BY <1>1, <1>2, RingEnds
    <2> HIDE DEF ph2
    <2>4. RingMoves(link', ph2, a, h) /\ Ahead(link', ph2, h)
      BY <1>1, <1>7, <2>1, <2>3, EverywhereSent
    <2>5. DirOK(host[a], director_flush_user(kill[a]), conns[a], last_seq[a][a] + 1, "delay",
                AllThrough(ph2), a = a, h)
      <3> DEFINE s == last_seq[a][a] + 1
      <3>1. s \in Nat /\ s >= last_seq[a][a]
        BY <1>6
      <3>2. AllThrough(ph2) = TRUE
        BY <2>3 DEF AllThrough
      <3> HIDE DEF s
      <3>3. ASSUME NEW d \in Directors, d = a
            PROVE  DirOK(host[d], director_flush_user(kill[d]), conns[d], s, "delay", TRUE,
                         d = a, h)
        <4>1. ph[d] = "waiting_everyone" /\ s \in Nat /\ s >= last_seq[d][a]
          BY <1>12, <3>1, <3>3
        <4> QED BY <1>1, <4>1, DelayIs
      <3> QED BY <3>2, <3>3 DEF s
    <2>6. kill'[a] = director_flush_user(kill[a]) /\ \A e \in Directors : e # a => kill'[e] = kill[e]
      BY <2>1 DEF MoveInv, CtxInv
    <2>7. DirOK(host'[a], kill'[a], conns'[a], last_seq'[a][a], ph2[a], AllThrough(ph2), a = a, h)
      BY <1>8, <1>9, <2>1, <2>2, <2>5, <2>6
    <2>8. \A e \in Directors : e # a =>
            /\ host'[e] = host[e] /\ kill'[e] = kill[e] /\ conns'[e] = conns[e]
            /\ last_seq'[e][a] = last_seq[e][a] /\ ph2[e] = ph[e]
      BY <1>8, <1>9, <2>1, <2>2, <2>6
    <2>9. AllThrough(ph) => AllThrough(ph2)
      BY <2>3
    <2>10. MovingInv(a, h)'
      BY <2>4, <2>7, <2>8, <2>9, OneMoves
    <2> QED BY <1>8, <2>10
  <1> QED BY <1>3, <1>10, <1>11, <1>12 DEF Through

\* A token comes to another director.
LEMMA TokenPassed ==
  ASSUME MoveInv, ~FlushSocket, NEW a \in Directors, NEW h \in Hosts, h # DefaultHost,
         NEW ph, Dirs(ph, a, h), NEW d \in Directors, d # a, NEW l, NEW src, NEW m,
         ReadFrom(l, ph, a, h, d, src, m), m.cmd = "USER-KILLED", RecvUserKilled(l, d)
  PROVE  MovingInv(a, h)' /\ UNCHANGED <<kicks, orphans>>
  <1>1. /\ l \in Links /\ RingMoves(l, ph, a, h) /\ Ahead(l, ph, h) /\ Handed(l, ph, d)
        /\ ~Passed(ph[d])
    BY DEF ReadFrom, Token
  <1>2. ph \in [Directors -> Phases] /\ ph[d] \in {"before", "killing", "waiting_notify"}
    BY <1>1 DEF RingMoves, Passed, Through, Phases
  <1>3. N # 1
    BY DEF Directors
  <1>4. /\ kill[d].state # "none" => ph[d] = kill[d].state
        /\ kill[d].state = "none" <=> ph[d] \in {"before", "done"}
        /\ ph[d] # "before" => host[d] = h
        /\ kill[d].state # "none" => (kill[d].self <=> d = a)
        /\ ph[d] = "waiting_notify" => conns[d] \subseteq {h} /\ (conns[d] # {} => AllThrough(ph))
    BY <1>1, PhaseIs
  <1>5. DirOK(host[d], kill[d], conns[d], last_seq[d][a], ph[d], AllThrough(ph), d = a, h)
    BY DEF Dirs
  <1> DEFINE k2 == director_finish_user_kill(kill[d], TRUE)
             k1 == [kill[d] EXCEPT !.state = "killing_notify"]
  <1>6. /\ UNCHANGED <<host, conns, kicks, orphans>>
        /\ kill[d].state = "none" => link' = l /\ UNCHANGED <<kill, last_seq>>
        /\ kill[d].state = "killing" =>
             link' = l /\ kill' = [kill EXCEPT ![d].state = "killing_notify"] /\ last_seq' = last_seq
        /\ kill[d].state = "waiting_notify" =>
             /\ link' = Announced(l, d, k2) /\ last_seq' = last_seq
             /\ kill' = [kill EXCEPT ![d] = k2]
    BY DEF RecvUserKilled
  <1>7. kill[d] \in KillRec
    BY DEF MoveInv, CtxInv
  <1>8. CASE ph[d] = "before"
    <2>1. link' = l /\ UNCHANGED <<kill, last_seq>>
      BY <1>4, <1>6, <1>8
    <2>2. RingMoves(link', ph, a, h) /\ Ahead(link', ph, h)
      BY <1>1, <2>1
    <2>3. DirOK(host'[d], kill'[d], conns'[d], last_seq'[d][a], ph[d], AllThrough(ph), d = a, h)
      BY <1>5, <1>6, <2>1
    <2> QED BY <1>6, <2>1, <2>2, <2>3, OneMoves
  <1>9. CASE ph[d] = "killing"
    <2>1. /\ link' = l /\ kill' = [kill EXCEPT ![d].state = "killing_notify"]
          /\ last_seq' = last_seq
      BY <1>4, <1>6, <1>9
    <2> DEFINE ph2 == [ph EXCEPT ![d] = "killing_notify"]
    <2>2. ph2[d] = "killing_notify" /\ \A e \in Directors : e # d => ph2[e] = ph[e]
      BY <1>2
    <2>3. RingMoves(l, ph2, a, h) /\ Ahead(l, ph2, h)
      BY <1>1, <1>9, RingWaits
    <2>4. ~AllThrough(ph)
      BY <1>9 DEF AllThrough, Through
    <2> HIDE DEF ph2
    <2>5. kill'[d] = k1 /\ \A e \in Directors : e # d => kill'[e] = kill[e]
      BY <2>1 DEF MoveInv, CtxInv
    <2>6. k1.state = "killing_notify" /\ k1.self = kill[d].self /\ k1.pending = kill[d].pending
      BY <1>7 DEF KillRec
    <2> HIDE DEF k1
    <2>7. DirOK(host[d], k1, conns[d], last_seq[d][a], "killing_notify", AllThrough(ph2), d = a, h)
      BY <1>4, <1>5, <1>9, <2>6 DEF DirOK, PhaseOf
    <2>8. DirOK(host'[d], kill'[d], conns'[d], last_seq'[d][a], ph2[d], AllThrough(ph2), d = a, h)
      BY <1>6, <2>1, <2>2, <2>5, <2>7
    <2>9. RingMoves(link', ph2, a, h) /\ Ahead(link', ph2, h)
      BY <2>1, <2>3
    <2>10. MovingInv(a, h)'
      BY <1>6, <2>1, <2>2, <2>4, <2>5, <2>8, <2>9, OneMoves
    <2> QED BY <1>6, <2>10
  <1>10. CASE ph[d] = "waiting_notify"
    <2>1. /\ link' = Announced(l, d, k2) /\ last_seq' = last_seq
          /\ kill' = [kill EXCEPT ![d] = k2]
      BY <1>4, <1>6, <1>10
    <2>2. k2.state = "waiting_everyone" /\ k2.self = kill[d].self
      BY <1>3, <1>7, FinishIs
    <2> HIDE DEF k2
    <2> DEFINE ph2 == [ph EXCEPT ![d] = "waiting_everyone"]
               l2 == SendRight(l, d, USER_KILLED(d))
    <2>3. ph2[d] = "waiting_everyone" /\ \A e \in Directors : e # d => ph2[e] = ph[e]
      BY <1>2
    <2>4. link' = l2
      BY <2>1, <2>2 DEF Announced
    <2>5. ~Through(ph[d]) /\ Moved(ph[d])
      BY <1>10 DEF Through, Moved
    <2>6. ~AllThrough(ph)
      BY <2>5 DEF AllThrough
    <2> HIDE DEF ph2, l2
    <2>7. RingMoves(l2, ph2, a, h) /\ Ahead(l2, ph2, h)
      BY <1>1, <1>3, <2>5, RingToken DEF ph2, l2
    <2>8. kill'[d] = k2 /\ \A e \in Directors : e # d => kill'[e] = kill[e]
      BY <2>1 DEF MoveInv, CtxInv
    <2>9. DirOK(host[d], k2, conns[d], last_seq[d][a], "waiting_everyone", AllThrough(ph2), d = a, h)
      BY <1>4, <1>5, <1>10, <2>2, <2>6 DEF DirOK, PhaseOf
    <2>10. DirOK(host'[d], kill'[d], conns'[d], last_seq'[d][a], ph2[d], AllThrough(ph2), d = a, h)
      BY <1>6, <2>1, <2>3, <2>8, <2>9
    <2>11. RingMoves(link', ph2, a, h) /\ Ahead(link', ph2, h)
      BY <2>4, <2>7
    <2>12. MovingInv(a, h)'
      BY <1>6, <2>1, <2>3, <2>6, <2>8, <2>10, <2>11, OneMoves
    <2> QED BY <1>6, <2>12
  <1> QED BY <1>2, <1>8, <1>9, <1>10

LEMMA MovingEverywhere ==
  ASSUME MoveInv, ~FlushSocket, NEW a \in Directors, NEW h \in Hosts, h # DefaultHost,
         NEW ph, Dirs(ph, a, h), NEW d \in Directors, NEW l, NEW src, NEW m,
         ReadFrom(l, ph, a, h, d, src, m), m.cmd = "USER-KILLED-EVERYWHERE",
         RecvKilledEverywhere(l, d, src, m)
  PROVE  MovingInv(a, h)' /\ UNCHANGED <<kicks, orphans>>
  <1>1. /\ l \in Links /\ RingMoves(l, ph, a, h) /\ Ahead(l, ph, h) /\ AllThrough(ph)
        /\ m \in MsgRec
    BY DEF ReadFrom, MsgOK
  <1>2. ph \in [Directors -> Phases] /\ ph[d] # "before"
    BY <1>1 DEF RingMoves, AllThrough, Through
  <1>3. /\ kill[d].state # "none" => ph[d] = kill[d].state
        /\ kill[d].state = "none" <=> ph[d] \in {"before", "done"}
    BY <1>1, PhaseIs
  <1>4. DirOK(host[d], kill[d], conns[d], last_seq[d][a], ph[d], AllThrough(ph), d = a, h)
    BY DEF Dirs
  <1>5. m.orig \in Directors /\ m.seq \in Nat
    BY <1>1 DEF MsgRec
  <1>6. last_seq \in [Directors -> [Directors -> Nat]] /\ last_seq[d][a] \in Nat
    BY DEF MoveInv, RingInv
  <1>7. /\ last_seq'[d][a] \in Nat /\ last_seq'[d][a] >= last_seq[d][a]
        /\ \A e \in Directors : e # d => last_seq'[e][a] = last_seq[e][a]
    <2>1. CASE Seen(d, m)
      <3>1. last_seq' = last_seq
        BY <2>1 DEF RecvKilledEverywhere
      <3> QED BY <1>6, <3>1
    <2>2. CASE ~Seen(d, m)
      <3>1. last_seq' = [last_seq EXCEPT ![d][m.orig] = m.seq]
        BY <2>2 DEF RecvKilledEverywhere, MarkSeen
      <3>2. m.seq >= last_seq[d][m.orig]
        BY <1>5, <1>6, <2>2 DEF Seen
      <3> QED BY <1>5, <1>6, <3>1, <3>2
    <2> QED BY <2>1, <2>2
  <1>8. UNCHANGED <<host, orphans, conns, kicks>>
    BY DEF RecvKilledEverywhere
  <1> DEFINE k == director_flush_user(kill[d])
  <1>9. \/ link' = l /\ kill' = kill
        \/ /\ kill[d].state = "waiting_everyone"
           /\ kill' = [kill EXCEPT ![d] = k] /\ link' = director_update_send(l, d, src, m)
    BY DEF RecvKilledEverywhere
  <1> HIDE DEF k
  <1>10. CASE link' = l /\ kill' = kill
    <2>1. RingMoves(link', ph, a, h) /\ Ahead(link', ph, h)
      BY <1>1, <1>10
    <2> DEFINE s == last_seq'[d][a]
    <2>2. s \in Nat /\ s >= last_seq[d][a]
      BY <1>7
    <2> HIDE DEF s
    <2>3. DirOK(host[d], kill[d], conns[d], s, ph[d], AllThrough(ph), d = a, h)
      BY <1>2, <1>4, <1>6, <2>2, LaterSeen
    <2>4. DirOK(host'[d], kill'[d], conns'[d], last_seq'[d][a], ph[d], AllThrough(ph), d = a, h)
      BY <1>8, <1>10, <2>3 DEF s
    <2>5. \A e \in Directors : e # d =>
            /\ host'[e] = host[e] /\ kill'[e] = kill[e] /\ conns'[e] = conns[e]
            /\ last_seq'[e][a] = last_seq[e][a] /\ ph[e] = ph[e]
      BY <1>7, <1>8, <1>10
    <2>6. MovingInv(a, h)'
      BY <2>1, <2>4, <2>5, OneMoves
    <2> QED BY <1>8, <2>6
  <1>11. CASE /\ kill[d].state = "waiting_everyone"
              /\ kill' = [kill EXCEPT ![d] = k] /\ link' = director_update_send(l, d, src, m)
    <2> DEFINE ph2 == [ph EXCEPT ![d] = "delay"]
    <2>1. ph2[d] = "delay" /\ \A e \in Directors : e # d => ph2[e] = ph[e]
      BY <1>2
    <2>2. RingMoves(l, ph2, a, h) /\ Ahead(l, ph2, h) /\ AllThrough(ph2)
      BY <1>1, RingEnds
    <2> HIDE DEF ph2
    <2>3. RingMoves(link', ph2, a, h) /\ Ahead(link', ph2, h)
      BY <1>1, <1>11, <2>2, EverywhereSent
    <2> DEFINE s == last_seq'[d][a]
    <2>4. s \in Nat /\ s >= last_seq[d][a]
      BY <1>7
    <2> HIDE DEF s
    <2>5. AllThrough(ph2) = TRUE
      BY <2>2 DEF AllThrough
    <2>6. DirOK(host[d], k, conns[d], s, "delay", AllThrough(ph2), d = a, h)
      <3>1. ph[d] = "waiting_everyone"
        BY <1>3, <1>11
      <3>2. DirOK(host[d], director_flush_user(kill[d]), conns[d], s, "delay", TRUE, d = a, h)
        BY <1>1, <2>4, <3>1, DelayIs
      <3> QED BY <2>5, <3>2 DEF k
    <2>7. kill'[d] = k /\ \A e \in Directors : e # d => kill'[e] = kill[e]
      BY <1>11 DEF MoveInv, CtxInv
    <2>8. DirOK(host'[d], kill'[d], conns'[d], last_seq'[d][a], ph2[d], AllThrough(ph2), d = a, h)
      BY <1>8, <2>1, <2>6, <2>7 DEF s
    <2>9. \A e \in Directors : e # d =>
            /\ host'[e] = host[e] /\ kill'[e] = kill[e] /\ conns'[e] = conns[e]
            /\ last_seq'[e][a] = last_seq[e][a] /\ ph2[e] = ph[e]
      BY <1>7, <1>8, <2>1, <2>7
    <2>10. AllThrough(ph) => AllThrough(ph2)
      BY <2>2
    <2>11. MovingInv(a, h)'
      BY <2>3, <2>8, <2>9, <2>10, OneMoves
    <2> QED BY <1>8, <2>11
  <1> QED BY <1>9, <1>10, <1>11

LEMMA MovingReceive ==
  ASSUME MoveInv, ~FlushSocket, NEW a \in Directors, NEW h \in Hosts, h # DefaultHost,
         MovingInv(a, h), NEW d \in Directors, NEW side \in Sides, Receive(d, side)
  PROVE  MovingInv(a, h)' /\ UNCHANGED <<kicks, orphans>>
  <1>1. PICK ph : RingMoves(link, ph, a, h) /\ Ahead(link, ph, h) /\ Dirs(ph, a, h)
    BY DEF MovingInv
  <1> DEFINE src == Peer(d, side)
             s == Opposite(side)
             q == link[src][s]
             m == Head(q)
             l == [link EXCEPT ![src][s] = Tail(q)]
  <1>2. link \in Links
    BY DEF MoveInv, RingInv
  <1>3. q # <<>>
    BY DEF Receive
  <1>4. PopOK(link, l, ph, a, h, d, src, s, m)
    <2>1. /\ src = Peer(d, side) /\ s = Opposite(side) /\ q = link[src][s]
          /\ l = [link EXCEPT ![src][s] = Tail(q)] /\ m = Head(q)
      OBVIOUS
    <2> HIDE DEF src, s, q, l, m
    <2>2. PopOK(link, l, ph, a, h, d, src, s, Head(q))
      BY <1>1, <1>2, <1>3, <2>1, RingPop
    <2> QED BY <2>1, <2>2
  <1>5. d # a /\ Token(m) => ~Passed(ph[d])
    BY <1>1, <1>4 DEF PopOK, RingMoves, Chain
  <1>6. ReadFrom(l, ph, a, h, d, src, m)
    BY <1>4, <1>5 DEF PopOK, ReadFrom
  <1>7. m.cmd \in {"USER", "USER-MOVE", "USER-KILLED", "USER-KILLED-EVERYWHERE"}
    BY <1>4 DEF PopOK, MsgOK
  <1>8. \/ m.cmd = "USER" /\ RecvUser(l, d, src, m)
        \/ m.cmd = "USER-MOVE" /\ RecvUserMove(l, d, src, m)
        \/ m.cmd = "USER-KILLED" /\ RecvUserKilled(l, d)
        \/ m.cmd = "USER-KILLED-EVERYWHERE" /\ RecvKilledEverywhere(l, d, src, m)
    BY <1>7 DEF Receive
  <1> HIDE DEF src, s, q, l, m
  <1>9. CASE m.cmd = "USER-KILLED" /\ RecvUserKilled(l, d)
    BY <1>1, <1>6, <1>9, TokenBack, TokenPassed
  <1> QED BY <1>1, <1>6, <1>8, <1>9, MovingUser, MovingMove, MovingEverywhere

LEMMA MovingLogin ==
  ASSUME MoveInv, NEW a \in Directors, NEW h \in Hosts, h # DefaultHost,
         MovingInv(a, h), NEW d \in Directors, Login(d)
  PROVE  MovingInv(a, h)' /\ UNCHANGED <<kicks, orphans>>
  <1>1. PICK ph : RingMoves(link, ph, a, h) /\ Ahead(link, ph, h) /\ Dirs(ph, a, h)
    BY DEF MovingInv
  <1>2. DefaultHost # NoHost /\ h # NoHost /\ DefaultHost \in Hosts /\ NoHost \notin Hosts
    BY MoveAssumption
  <1>3. /\ kill[d].state = "none" <=> ph[d] \in {"before", "done"}
        /\ ph[d] = "before" =>
             host[d] \in {NoHost, DefaultHost} /\ conns[d] \subseteq {host[d]}
        /\ ph[d] # "before" => host[d] = h
        /\ ph[d] = "done" => conns[d] \subseteq {h}
    BY <1>1, PhaseIs
  <1>4. ph[d] \in {"before", "done"}
    BY <1>3 DEF Login, USER_IS_BEING_KILLED
  <1> DEFINE g == IF host[d] = NoHost THEN DefaultHost ELSE host[d]
  <1>5. /\ ph[d] = "before" => g = DefaultHost
        /\ ph[d] = "done" => g = h
    BY <1>2, <1>3
  <1>6. /\ host' = [host EXCEPT ![d] = g] /\ conns' = [conns EXCEPT ![d] = conns[d] \union {g}]
        /\ link' = director_update_send(link, d, d, USER(d, g))
        /\ UNCHANGED <<kill, orphans, last_seq, kicks>>
    BY DEF Login, MoveInv, ProxyInv
  <1>7. g \in Hosts
    BY <1>2, <1>4, <1>5
  <1> HIDE DEF g
  <1>8. USER(d, g) \in MsgRec /\ USER(d, g).cmd = "USER" /\ USER(d, g).h = g
    BY <1>7, UserMsg DEF USER, Msg
  <1>9. \A side \in Sides : MsgOK(USER(d, g), d, side, ph, a, h)
    <2>1. CASE ph[d] = "before"
      <3>1. ~Through(ph[d])
        BY <2>1 DEF Through
      <3>2. NobodyDone(ph)
        BY <1>1, <3>1, NotAllThrough
      <3> QED BY <1>5, <1>8, <2>1, <3>2 DEF MsgOK
    <2>2. CASE ph[d] = "done"
      BY <1>5, <1>8, <2>2 DEF MsgOK, Moved
    <2> QED BY <1>4, <2>1, <2>2
  <1>10. RingMoves(link', ph, a, h) /\ Ahead(link', ph, h)
    <2> DEFINE x == USER(d, g)
    <2>1. x \in MsgRec /\ ~Token(x) /\ \A side \in Sides : MsgOK(x, d, side, ph, a, h)
      BY <1>8, <1>9 DEF Token
    <2>2. link \in Links /\ link' = director_update_send(link, d, d, x)
      BY <1>6 DEF MoveInv, RingInv
    <2> HIDE DEF x
    <2>3. Sent(link, link', d, x)
      BY <2>1, <2>2, SendUpdate
    <2> QED BY <1>1, <2>1, <2>2, <2>3, RingSend
  <1>11. /\ host'[d] = g /\ conns'[d] = conns[d] \union {g}
         /\ \A e \in Directors : e # d => host'[e] = host[e] /\ conns'[e] = conns[e]
    BY <1>6 DEF MoveInv, RingInv, ProxyInv
  <1>12. DirOK(g, kill[d], conns[d] \union {g}, last_seq[d][a], ph[d], AllThrough(ph), d = a, h)
    <2>1. DirOK(host[d], kill[d], conns[d], last_seq[d][a], ph[d], AllThrough(ph), d = a, h)
      BY <1>1 DEF Dirs
    <2>2. conns[d] \subseteq Hosts
      BY DEF MoveInv, ProxyInv
    <2>3. CASE ph[d] = "before"
      <3>1. conns[d] \union {g} \subseteq {g}
        BY <1>2, <1>3, <1>5, <2>2, <2>3
      <3> QED BY <1>2, <1>5, <2>1, <2>3, <3>1 DEF DirOK, PhaseOf
    <2>4. CASE ph[d] = "done"
      <3>1. conns[d] \union {g} \subseteq {h} /\ g = host[d]
        BY <1>3, <1>5, <2>4
      <3>2. AllThrough(ph)
        BY <1>1, <2>4 DEF RingMoves
      <3> QED BY <2>1, <2>4, <3>1, <3>2 DEF DirOK
    <2> QED BY <1>4, <2>3, <2>4
  <1>13. DirOK(host'[d], kill'[d], conns'[d], last_seq'[d][a], ph[d], AllThrough(ph), d = a, h)
    BY <1>6, <1>11, <1>12
  <1>14. \A e \in Directors : e # d =>
           /\ host'[e] = host[e] /\ kill'[e] = kill[e] /\ conns'[e] = conns[e]
           /\ last_seq'[e][a] = last_seq[e][a] /\ ph[e] = ph[e]
    BY <1>6, <1>11
  <1>15. MovingInv(a, h)'
    BY <1>1, <1>10, <1>13, <1>14, OneMoves
  <1> QED BY <1>6, <1>15

LEMMA MovingCallback ==
  ASSUME MoveInv, ~FlushSocket, NEW a \in Directors, NEW h \in Hosts, h # DefaultHost,
         MovingInv(a, h), NEW d \in Directors, director_kill_user_callback(d, TRUE)
  PROVE  MovingInv(a, h)' /\ UNCHANGED <<kicks, orphans>>
  <1>1. PICK ph : RingMoves(link, ph, a, h) /\ Ahead(link, ph, h) /\ Dirs(ph, a, h)
    BY DEF MovingInv
  <1>2. /\ kill[d] \in KillRec /\ kill[d].pending
    BY DEF MoveInv, CtxInv, director_kill_user_callback
  <1>3. ph[d] \in {"killing", "killing_notify"}
    BY <1>1, <1>2, PhaseIs
  <1>4. /\ kill[d].state = ph[d] /\ host[d] = h /\ last_seq[d][a] >= 1
        /\ (kill[d].self <=> d = a)
    BY <1>1, <1>3, PhaseIs
  <1> DEFINE k1 == [kill[d] EXCEPT !.pending = FALSE]
             k == director_finish_user_kill(k1, kill[d].self)
  <1>5. k1 \in KillRec /\ k1.state = ph[d] /\ k1.self = kill[d].self
    BY <1>2, <1>4 DEF KillRec
  <1>6. /\ conns' = [conns EXCEPT ![d] = {}] /\ kill' = [kill EXCEPT ![d] = k]
        /\ link' = Announced(link, d, k)
        /\ UNCHANGED <<host, orphans, last_seq, kicks>>
    BY DEF director_kill_user_callback
  <1> HIDE DEF k1
  <1>7. /\ k.self = kill[d].self
        /\ k.state = IF N = 1 THEN "delay"
                     ELSE IF d = a \/ ph[d] = "killing_notify" THEN "waiting_everyone"
                     ELSE "waiting_notify"
    BY <1>4, <1>5, FinishIs
  <1> HIDE DEF k
  <1> DEFINE p == k.state
             ph2 == [ph EXCEPT ![d] = p]
  <1>8. ph \in [Directors -> Phases] /\ p \in {"delay", "waiting_everyone", "waiting_notify"}
    BY <1>1, <1>7 DEF RingMoves
  <1>9. link \in Links /\ ~Through(ph[d]) /\ Moved(ph[d])
    BY <1>3 DEF MoveInv, RingInv, Through, Moved
  <1>10. ~AllThrough(ph)
    BY <1>9 DEF AllThrough
  <1>11. p \in Phases
    BY <1>8 DEF Phases
  <1> HIDE DEF p
  <1>12. ph2[d] = p /\ \A e \in Directors : e # d => ph2[e] = ph[e]
    BY <1>8, <1>11
  <1> DEFINE l2 == SendRight(link, d, USER_KILLED(d))
  <1>13. link' = IF p = "waiting_everyone" THEN l2 ELSE link
    BY <1>6 DEF Announced, p
  <1> HIDE DEF l2
  <1>14. RingMoves(link', ph2, a, h) /\ Ahead(link', ph2, h)
    <2>1. CASE N = 1
      <3>1. d = a /\ p = "delay"
        BY <1>7, <2>1 DEF Directors, p
      <3>2. ph[a] = "killing"
        BY <1>1, <1>3, <3>1 DEF RingMoves
      <3>3. RingMoves(link, ph2, a, h) /\ Ahead(link, ph2, h)
        BY <1>1, <1>9, <2>1, <3>1, <3>2, RingAlone
      <3> QED BY <1>13, <3>1, <3>3
    <2>2. CASE N # 1 /\ (d = a \/ ph[d] = "killing_notify")
      <3>1. p = "waiting_everyone"
        BY <1>7, <2>2 DEF p
      <3>2. d # a => Handed(link, ph, d)
        BY <1>1, <2>2 DEF RingMoves, Chain, Passed
      <3>3. ph2 = [ph EXCEPT ![d] = "waiting_everyone"]
        BY <3>1
      <3> HIDE DEF ph2
      <3>4. RingMoves(l2, ph2, a, h) /\ Ahead(l2, ph2, h)
        BY <1>1, <1>9, <2>2, <3>2, <3>3, RingToken DEF l2
      <3> QED BY <1>13, <3>1, <3>4
    <2>3. CASE N # 1 /\ d # a /\ ph[d] = "killing"
      <3>1. p = "waiting_notify"
        BY <1>7, <2>3 DEF p
      <3>2. RingMoves(link, ph2, a, h) /\ Ahead(link, ph2, h)
        BY <1>1, <1>9, <2>3, <3>1, RingWaits
      <3> QED BY <1>13, <3>1, <3>2
    <2> QED BY <1>3, <2>1, <2>2, <2>3
  <1> HIDE DEF ph2
  <1>15. DirOK(host[d], k, {}, last_seq[d][a], p, AllThrough(ph2), d = a, h)
    BY <1>4, <1>7, <1>8 DEF DirOK, PhaseOf, p
  <1>16. /\ kill'[d] = k /\ conns'[d] = {}
         /\ \A e \in Directors : e # d => kill'[e] = kill[e] /\ conns'[e] = conns[e]
    BY <1>6 DEF MoveInv, CtxInv, ProxyInv
  <1>17. DirOK(host'[d], kill'[d], conns'[d], last_seq'[d][a], ph2[d], AllThrough(ph2), d = a, h)
    BY <1>6, <1>12, <1>15, <1>16
  <1>18. \A e \in Directors : e # d =>
           /\ host'[e] = host[e] /\ kill'[e] = kill[e] /\ conns'[e] = conns[e]
           /\ last_seq'[e][a] = last_seq[e][a] /\ ph2[e] = ph[e]
    BY <1>6, <1>12, <1>16
  <1>19. MovingInv(a, h)'
    BY <1>1, <1>10, <1>14, <1>17, <1>18, OneMoves
  <1> QED BY <1>6, <1>19

LEMMA MovingDelay ==
  ASSUME MoveInv, "SLOW" \notin Env, NEW a \in Directors, NEW h \in Hosts, h # DefaultHost,
         MovingInv(a, h), NEW d \in Directors, director_user_kill_finish_delayed_to(d)
  PROVE  MovingInv(a, h)' /\ UNCHANGED <<kicks, orphans>>
  <1>1. PICK ph : RingMoves(link, ph, a, h) /\ Ahead(link, ph, h) /\ Dirs(ph, a, h)
    BY DEF MovingInv
  <1>2. kill[d].state = "delay" /\ Settled(d)
    BY DEF director_user_kill_finish_delayed_to
  <1>3. ph[d] = "delay" /\ host[d] = h /\ last_seq[d][a] >= 1 /\ conns[d] \subseteq {h}
    BY <1>1, <1>2, PhaseIs
  <1>4. /\ kill' = [kill EXCEPT ![d] = NoKill]
        /\ UNCHANGED <<host, orphans, last_seq, conns, kicks, link>>
    BY DEF director_user_kill_finish_delayed_to, director_user_move_free
  <1>5. AllThrough(ph) /\ ph \in [Directors -> Phases] /\ link \in Links
    BY <1>1, <1>3 DEF RingMoves, MoveInv, RingInv
  <1>6. ASSUME NEW e \in Directors, NEW z \in Sides, NEW i \in 1..Len(link[e][z]),
               link[e][z][i].cmd = "USER"
        PROVE  link[e][z][i].h = h
    <2>1. link[e][z] \in Seq(MsgRec)
      BY <1>5, QueueType
    <2>2. i \in DOMAIN link[e][z]
      BY <2>1
    <2> DEFINE S == {link[e][z][j] : j \in DOMAIN link[e][z]}
               all == {{link[f][side][j] : j \in DOMAIN link[f][side]} :
                         f \in Directors, side \in Sides}
    <2>3. link[e][z][i] \in InFlight("USER")
      <3>1. link[e][z][i] \in S /\ S \in all
        BY <2>2
      <3>2. InFlight("USER") = {m \in UNION all : m.cmd = "USER"}
        BY DEF InFlight
      <3> HIDE DEF S, all
      <3> QED BY <1>6, <3>1, <3>2
    <2> QED BY <1>2, <1>3, <2>3 DEF Settled
  <1> DEFINE ph2 == [ph EXCEPT ![d] = "done"]
  <1>7. ph2[d] = "done" /\ \A e \in Directors : e # d => ph2[e] = ph[e]
    BY <1>5
  <1>8. RingMoves(link, ph2, a, h) /\ Ahead(link, ph2, h) /\ AllThrough(ph2)
    <2> DEFINE p == "done"
    <2>1. /\ p \in {"delay", "done"} /\ ph2 = [ph EXCEPT ![d] = p]
          /\ \A e \in Directors, z \in Sides : \A i \in 1..Len(link[e][z]) :
               link[e][z][i].cmd = "USER" => link[e][z][i].h = h
      BY <1>6
    <2> HIDE DEF ph2, p
    <2> QED BY <1>1, <1>5, <2>1, RingEnds
  <1> HIDE DEF ph2
  <1>9. DirOK(host[d], NoKill, conns[d], last_seq[d][a], "done", AllThrough(ph2), d = a, h)
    BY <1>3, <1>8 DEF DirOK, PhaseOf, NoKill
  <1>10. kill'[d] = NoKill /\ \A e \in Directors : e # d => kill'[e] = kill[e]
    BY <1>4 DEF MoveInv, CtxInv
  <1>11. DirOK(host'[d], kill'[d], conns'[d], last_seq'[d][a], ph2[d], AllThrough(ph2), d = a, h)
    BY <1>4, <1>7, <1>9, <1>10
  <1>12. \A e \in Directors : e # d =>
           /\ host'[e] = host[e] /\ kill'[e] = kill[e] /\ conns'[e] = conns[e]
           /\ last_seq'[e][a] = last_seq[e][a] /\ ph2[e] = ph[e]
    BY <1>4, <1>7, <1>10
  <1>13. RingMoves(link', ph2, a, h) /\ Ahead(link', ph2, h) /\ (AllThrough(ph) => AllThrough(ph2))
    BY <1>4, <1>8
  <1>14. MovingInv(a, h)'
    BY <1>1, <1>11, <1>12, <1>13, OneMoves
  <1> QED BY <1>4, <1>14

-----------------------------------------------------------------------------
(* Before the move, and when it is to DefaultHost                          *)

SameLinks(l, C) ==
  \A e \in Directors, z \in Sides : \A i \in 1..Len(l[e][z]) :
    l[e][z][i].cmd \in C /\ l[e][z][i].h \in {NoHost, DefaultHost}

MoveCmds == {"USER", "USER-MOVE"} \union Killed

SameInv ==
  /\ \A d \in Directors : /\ host[d] \in {NoHost, DefaultHost}
                          /\ conns[d] \subseteq {host[d]}
  /\ SameLinks(link, MoveCmds)
  /\ moves = 0 =>
       /\ SameLinks(link, {"USER"})
       /\ \A d \in Directors : /\ kill[d].state = "none"
                               /\ \A e \in Directors : last_seq[d][e] = 0

LEMMA SameSent ==
  ASSUME NEW l \in Links, NEW l2, NEW C, SameLinks(l, C), NEW d \in Directors,
         NEW m \in MsgRec, m.cmd \in C, m.h \in {NoHost, DefaultHost}, Sent(l, l2, d, m)
  PROVE  SameLinks(l2, C)
  <1> SUFFICES ASSUME NEW e \in Directors, NEW z \in Sides, NEW i \in 1..Len(l2[e][z])
               PROVE  l2[e][z][i].cmd \in C /\ l2[e][z][i].h \in {NoHost, DefaultHost}
    BY DEF SameLinks
  <1> DEFINE q == l[e][z]
             r == l2[e][z]
  <1>1. q \in Seq(MsgRec)
    BY QueueType
  <1>2. r = q \/ r = Append(q, m)
    BY DEF Sent
  <1>3. \A j \in 1..Len(q) : q[j].cmd \in C /\ q[j].h \in {NoHost, DefaultHost}
    BY DEF SameLinks
  <1>4. i \in 1..Len(r)
    OBVIOUS
  <1> HIDE DEF q, r
  <1>5. r[i].cmd \in C /\ r[i].h \in {NoHost, DefaultHost}
    <2>1. CASE r = q
      BY <1>3, <1>4, <2>1
    <2>2. CASE r = Append(q, m)
      BY <1>1, <1>3, <1>4, <2>2, Appended
    <2> QED BY <1>2, <2>1, <2>2
  <1> QED BY <1>5 DEF r

LEMMA SamePop ==
  ASSUME NEW l \in Links, NEW C, SameLinks(l, C), NEW src \in Directors,
         NEW s \in Sides, NEW q, q = l[src][s], q # <<>>,
         NEW l2, l2 = [l EXCEPT ![src][s] = Tail(q)]
  PROVE  /\ SameLinks(l2, C)
         /\ Head(q).cmd \in C /\ Head(q).h \in {NoHost, DefaultHost}
  <1>1. q \in Seq(MsgRec)
    BY QueueType
  <1>2. /\ 1 \in 1..Len(q) /\ Head(q) = q[1]
        /\ \A i \in 1..Len(Tail(q)) : Tail(q)[i] = q[i + 1] /\ i + 1 \in 1..Len(q)
    BY <1>1, Popped
  <1> DEFINE t == Tail(q)
  <1> HIDE DEF t
  <1>3. \A e \in Directors, z \in Sides :
          l2[e][z] = IF e = src /\ z = s THEN t ELSE l[e][z]
    BY DEF Links, t
  <1>4. SameLinks(l2, C)
    <2> SUFFICES ASSUME NEW e \in Directors, NEW z \in Sides, NEW i \in 1..Len(l2[e][z])
                 PROVE  l2[e][z][i].cmd \in C /\ l2[e][z][i].h \in {NoHost, DefaultHost}
      BY DEF SameLinks
    <2>1. CASE e = src /\ z = s
      <3>1. l2[e][z] = t
        BY <1>3, <2>1
      <3>2. t[i] = q[i + 1] /\ i + 1 \in 1..Len(q)
        BY <1>2, <3>1 DEF t
      <3> QED BY <3>1, <3>2 DEF SameLinks
    <2>2. CASE ~(e = src /\ z = s)
      <3>1. l2[e][z] = l[e][z]
        BY <1>3, <2>2
      <3> QED BY <3>1 DEF SameLinks
    <2> QED BY <2>1, <2>2
  <1>5. Head(q).cmd \in C /\ Head(q).h \in {NoHost, DefaultHost}
    BY <1>2 DEF SameLinks
  <1> QED BY <1>4, <1>5

LEMMA SameUpdate ==
  ASSUME NEW l \in Links, NEW C, SameLinks(l, C), NEW d \in Directors, NEW src,
         NEW m \in MsgRec, m.cmd \in C, m.h \in {NoHost, DefaultHost}
  PROVE  SameLinks(director_update_send(l, d, src, m), C)
  <1>1. Sent(l, director_update_send(l, d, src, m), d, m)
    BY SendUpdate
  <1> DEFINE l2 == director_update_send(l, d, src, m)
  <1> HIDE DEF l2
  <1>2. SameLinks(l2, C)
    BY <1>1, SameSent DEF l2
  <1> QED BY <1>2 DEF l2

LEMMA SameAnnounced ==
  ASSUME NEW l \in Links, SameLinks(l, MoveCmds), NEW d \in Directors, NEW k
  PROVE  SameLinks(Announced(l, d, k), MoveCmds)
  <1> DEFINE m == USER_KILLED(d)
             l2 == SendRight(l, d, m)
  <1>1. m \in MsgRec /\ m.cmd \in MoveCmds /\ m.h = NoHost
    <2>1. m \in MsgRec
      BY KilledMsg DEF USER_KILLED, Killed
    <2> QED BY <2>1 DEF USER_KILLED, Msg, MoveCmds, Killed
  <1> HIDE DEF m
  <1>2. Sent(l, l2, d, m)
    BY <1>1, SendToken
  <1> HIDE DEF l2
  <1>3. SameLinks(l2, MoveCmds)
    BY <1>1, <1>2, SameSent
  <1>4. Announced(l, d, k) = IF k.state = "waiting_everyone" THEN l2 ELSE l
    BY DEF Announced, l2, m
  <1> QED BY <1>3, <1>4

\* A step that leaves the hosts, moves nobody and only drops connections.
LEMMA SameStep ==
  ASSUME SameInv, UNCHANGED <<host, moves>>, moves # 0,
         \A d \in Directors : conns'[d] \subseteq conns[d],
         SameLinks(link', MoveCmds)
  PROVE  SameInv'
  BY DEF SameInv

LEMMA SameUser ==
  ASSUME MoveInv, SameInv, NEW d \in Directors, NEW src, NEW l \in Links,
         SameLinks(l, MoveCmds), moves = 0 => SameLinks(l, {"USER"}),
         NEW m \in MsgRec, m.cmd = "USER", m.h \in {NoHost, DefaultHost},
         RecvUser(l, d, src, m), UNCHANGED moves
  PROVE  SameInv' /\ UNCHANGED <<kicks, orphans>>
  <1>1. m.h = DefaultHost /\ DefaultHost \in Hosts /\ NoHost \notin Hosts
    <2>1. m.h \in Hosts
      BY DEF MsgRec, Killed
    <2> QED BY <2>1, MoveAssumption
  <1>2. host[d] \in {NoHost, DefaultHost}
    BY DEF SameInv
  <1>3. /\ host' = [host EXCEPT ![d] = DefaultHost]
        /\ UNCHANGED <<last_seq, kicks, kill, orphans, conns>>
        /\ link' = l \/ link' = director_update_send(l, d, src, USER(d, DefaultHost))
    BY <1>1, <1>2 DEF RecvUser
  <1>4. /\ USER(d, DefaultHost) \in MsgRec /\ USER(d, DefaultHost).cmd = "USER"
        /\ USER(d, DefaultHost).h = DefaultHost
    BY <1>1, UserMsg DEF USER, Msg
  <1> DEFINE x == USER(d, DefaultHost)
  <1>5. "USER" \in MoveCmds
    BY DEF MoveCmds
  <1> HIDE DEF x
  <1>6. SameLinks(link', MoveCmds) /\ (moves = 0 => SameLinks(link', {"USER"}))
    BY <1>3, <1>4, <1>5, SameUpdate DEF x
  <1>7. /\ host'[d] = DefaultHost /\ \A e \in Directors : e # d => host'[e] = host[e]
    BY <1>3 DEF MoveInv, RingInv
  <1>8. \A e \in Directors : host'[e] \in {NoHost, DefaultHost} /\ conns'[e] \subseteq {host'[e]}
    <2> SUFFICES ASSUME NEW e \in Directors
                 PROVE  host'[e] \in {NoHost, DefaultHost} /\ conns'[e] \subseteq {host'[e]}
      OBVIOUS
    <2>1. /\ host[e] \in {NoHost, DefaultHost} /\ conns[e] \subseteq {host[e]}
          /\ conns[e] \subseteq Hosts /\ conns' = conns
      BY <1>3 DEF SameInv, MoveInv, ProxyInv
    <2>2. CASE e = d
      BY <1>1, <1>7, <2>1, <2>2
    <2>3. CASE e # d
      BY <1>7, <2>1, <2>3
    <2> QED BY <2>2, <2>3
  <1>9. SameInv'
    BY <1>3, <1>6, <1>8 DEF SameInv
  <1> QED BY <1>3, <1>9

LEMMA SameUserMove ==
  ASSUME MoveInv, SameInv, NEW d \in Directors, NEW src, NEW l \in Links,
         SameLinks(l, MoveCmds), NEW orig \in Directors, NEW seq \in Nat,
         director_move_user(l, d, src, orig, seq, DefaultHost), UNCHANGED conns, moves' # 0
  PROVE  SameInv'
  <1>1. DefaultHost \in Hosts /\ NoHost \notin Hosts
    BY MoveAssumption
  <1> DEFINE m == Msg("USER-MOVE", orig, seq, DefaultHost)
             l1 == director_update_send(l, d, src, m)
             old == host[d]
  <1>2. m \in MsgRec /\ m.cmd \in MoveCmds /\ m.h = DefaultHost
    <2>1. m \in MsgRec
      BY <1>1, HostMsg DEF Commands, Killed
    <2> QED BY <2>1 DEF Msg, MoveCmds
  <1> HIDE DEF m
  <1>3. l1 \in Links /\ SameLinks(l1, MoveCmds)
    BY <1>2, SameUpdate, UpdateSendType
  <1>4. host' = [host EXCEPT ![d] = DefaultHost]
        /\ director_kill_user(l1, d, src, old, DefaultHost)
    BY DEF director_move_user, m
  <1> HIDE DEF l1, old
  <1>5. link' = l1 \/ \E k : link' = Announced(l1, d, k)
    BY <1>4 DEF director_kill_user
  <1>6. SameLinks(link', MoveCmds)
    BY <1>3, <1>5, SameAnnounced
  <1>7. /\ host'[d] = DefaultHost /\ \A e \in Directors : e # d => host'[e] = host[e]
    BY <1>4 DEF MoveInv, RingInv
  <1>8. \A e \in Directors : host'[e] \in {NoHost, DefaultHost} /\ conns'[e] \subseteq {host'[e]}
    <2> SUFFICES ASSUME NEW e \in Directors
                 PROVE  host'[e] \in {NoHost, DefaultHost} /\ conns'[e] \subseteq {host'[e]}
      OBVIOUS
    <2>1. /\ host[e] \in {NoHost, DefaultHost} /\ conns[e] \subseteq {host[e]}
          /\ conns[e] \subseteq Hosts /\ conns' = conns
      BY DEF SameInv, MoveInv, ProxyInv
    <2>2. CASE e = d
      BY <1>1, <1>7, <2>1, <2>2
    <2>3. CASE e # d
      BY <1>7, <2>1, <2>3
    <2> QED BY <2>2, <2>3
  <1> QED BY <1>6, <1>8 DEF SameInv

LEMMA SameReceive ==
  ASSUME MoveInv, SameInv, NEW d \in Directors, NEW side \in Sides, Receive(d, side)
  PROVE  SameInv' /\ UNCHANGED <<kicks, orphans, moves>>
  <1> DEFINE src == Peer(d, side)
             s == Opposite(side)
             q == link[src][s]
             m == Head(q)
             l == [link EXCEPT ![src][s] = Tail(q)]
  <1>1. src \in Directors /\ s \in Sides /\ link \in Links
    BY PeerType DEF MoveInv, RingInv
  <1>2. q \in Seq(MsgRec) /\ q # <<>>
    BY <1>1, QueueType DEF Receive
  <1>3. m \in MsgRec /\ Tail(q) \in Seq(MsgRec)
    BY <1>2
  <1>4. l \in Links
    BY <1>1, <1>3 DEF Links
  <1>5. /\ SameLinks(l, MoveCmds) /\ (moves = 0 => SameLinks(l, {"USER"}))
        /\ m.cmd \in MoveCmds /\ m.h \in {NoHost, DefaultHost}
        /\ moves = 0 => m.cmd = "USER"
    <2>1. /\ q = link[src][s] /\ l = [link EXCEPT ![src][s] = Tail(q)] /\ m = Head(q)
          /\ SameLinks(link, MoveCmds) /\ (moves = 0 => SameLinks(link, {"USER"}))
      BY DEF SameInv
    <2> HIDE DEF src, s, q, l, m
    <2>2. /\ SameLinks(l, MoveCmds)
          /\ Head(q).cmd \in MoveCmds /\ Head(q).h \in {NoHost, DefaultHost}
      BY <1>1, <1>2, <2>1, SamePop
    <2>3. moves = 0 => SameLinks(l, {"USER"}) /\ Head(q).cmd \in {"USER"}
      BY <1>1, <1>2, <2>1, SamePop
    <2> QED BY <2>1, <2>2, <2>3
  <1>6. /\ UNCHANGED moves
        /\ \/ m.cmd = "USER" /\ RecvUser(l, d, src, m)
           \/ m.cmd = "USER-MOVE" /\ RecvUserMove(l, d, src, m)
           \/ m.cmd = "USER-KILLED" /\ RecvUserKilled(l, d)
           \/ m.cmd = "USER-KILLED-EVERYWHERE" /\ RecvKilledEverywhere(l, d, src, m)
    BY <1>5 DEF Receive, MoveCmds, Killed
  <1> HIDE DEF src, s, q, l, m
  <1>7. CASE m.cmd = "USER" /\ RecvUser(l, d, src, m)
    BY <1>3, <1>4, <1>5, <1>6, <1>7, SameUser
  <1>8. CASE m.cmd = "USER-MOVE" /\ RecvUserMove(l, d, src, m)
    <2>1. moves # 0
      BY <1>5, <1>8
    <2>2. m.h = DefaultHost /\ m.orig \in Directors /\ m.seq \in Nat
      <3>1. m.h \in Hosts /\ m.orig \in Directors /\ m.seq \in Nat
        BY <1>3, <1>8 DEF MsgRec, Killed
      <3> QED BY <1>5, <3>1, MoveAssumption
    <2>3. CASE Seen(d, m)
      <3>1. link' = l /\ UNCHANGED <<host, conns, kicks, orphans>>
        BY <1>8, <2>3 DEF RecvUserMove
      <3> QED BY <1>5, <1>6, <2>1, <3>1, SameStep
    <2>4. CASE ~Seen(d, m)
      <3>1. /\ director_move_user(l, d, src, m.orig, m.seq, DefaultHost)
            /\ UNCHANGED <<conns, kicks, orphans>>
        BY <1>8, <2>2, <2>4 DEF RecvUserMove
      <3> QED BY <1>4, <1>5, <1>6, <2>1, <2>2, <3>1, SameUserMove
    <2> QED BY <2>3, <2>4
  <1>9. CASE m.cmd = "USER-KILLED" /\ RecvUserKilled(l, d)
    <2>1. moves # 0
      BY <1>5, <1>9
    <2> DEFINE x == Msg("USER-KILLED-EVERYWHERE", d, OwnSeq(d), NoHost)
    <2>2. x \in MsgRec /\ x.cmd \in MoveCmds /\ x.h = NoHost
      <3>1. OwnSeq(d) \in Nat
        BY DEF OwnSeq, MoveInv, RingInv
      <3>2. x \in MsgRec
        BY <3>1, KilledMsg DEF Killed
      <3> QED BY <3>2 DEF Msg, MoveCmds, Killed
    <2>3. /\ UNCHANGED <<host, conns, kicks, orphans>>
          /\ \/ link' = l \/ \E k : link' = Announced(l, d, k)
             \/ link' = director_update_send(l, d, d, x)
      <3>1. kill[d].state \in KillStates
        BY DEF MoveInv, CtxInv, KillRec
      <3> QED BY <1>9, <3>1 DEF RecvUserKilled, KillStates
    <2> HIDE DEF x
    <2>4. SameLinks(link', MoveCmds)
      BY <1>4, <1>5, <2>2, <2>3, SameAnnounced, SameUpdate
    <2> QED BY <1>6, <2>1, <2>3, <2>4, SameStep
  <1>10. CASE m.cmd = "USER-KILLED-EVERYWHERE" /\ RecvKilledEverywhere(l, d, src, m)
    <2>1. moves # 0
      BY <1>5, <1>10
    <2>2. /\ UNCHANGED <<host, conns, kicks, orphans>>
          /\ link' = l \/ link' = director_update_send(l, d, src, m)
      BY <1>10 DEF RecvKilledEverywhere
    <2>3. SameLinks(link', MoveCmds)
      BY <1>3, <1>4, <1>5, <2>2, SameUpdate
    <2> QED BY <1>6, <2>1, <2>2, <2>3, SameStep
  <1> QED BY <1>6, <1>7, <1>8, <1>9, <1>10

LEMMA SameLogin ==
  ASSUME MoveInv, SameInv, NEW d \in Directors, Login(d)
  PROVE  SameInv' /\ UNCHANGED <<kicks, orphans, moves>>
  <1>1. DefaultHost \in Hosts /\ NoHost \notin Hosts
    BY MoveAssumption
  <1>2. host[d] \in {NoHost, DefaultHost} /\ link \in Links
    BY DEF SameInv, MoveInv, RingInv
  <1>3. /\ host' = [host EXCEPT ![d] = DefaultHost]
        /\ conns' = [conns EXCEPT ![d] = conns[d] \union {DefaultHost}]
        /\ link' = director_update_send(link, d, d, USER(d, DefaultHost))
        /\ UNCHANGED <<kill, orphans, last_seq, kicks, moves>>
    BY <1>2 DEF Login, MoveInv, ProxyInv
  <1> DEFINE x == USER(d, DefaultHost)
  <1>4. x \in MsgRec /\ x.cmd = "USER" /\ x.h = DefaultHost /\ "USER" \in MoveCmds
    BY <1>1, UserMsg DEF USER, Msg, MoveCmds
  <1>5. SameLinks(link, MoveCmds) /\ (moves = 0 => SameLinks(link, {"USER"}))
    BY DEF SameInv
  <1> HIDE DEF x
  <1>6. SameLinks(link', MoveCmds) /\ (moves = 0 => SameLinks(link', {"USER"}))
    BY <1>2, <1>3, <1>4, <1>5, SameUpdate DEF x
  <1>7. /\ host'[d] = DefaultHost /\ conns'[d] = conns[d] \union {DefaultHost}
        /\ \A e \in Directors : e # d => host'[e] = host[e] /\ conns'[e] = conns[e]
    BY <1>3 DEF MoveInv, RingInv, ProxyInv
  <1>8. \A e \in Directors : host'[e] \in {NoHost, DefaultHost} /\ conns'[e] \subseteq {host'[e]}
    <2> SUFFICES ASSUME NEW e \in Directors
                 PROVE  host'[e] \in {NoHost, DefaultHost} /\ conns'[e] \subseteq {host'[e]}
      OBVIOUS
    <2>1. /\ host[e] \in {NoHost, DefaultHost} /\ conns[e] \subseteq {host[e]}
          /\ conns[e] \subseteq Hosts
      BY DEF SameInv, MoveInv, ProxyInv
    <2>2. CASE e = d
      BY <1>1, <1>7, <2>1, <2>2
    <2>3. CASE e # d
      BY <1>7, <2>1, <2>3
    <2> QED BY <2>2, <2>3
  <1>9. SameInv'
    BY <1>3, <1>6, <1>8 DEF SameInv
  <1> QED BY <1>3, <1>9

\* The first command moves the user elsewhere.
LEMMA MovingStarts ==
  ASSUME MoveInv, SameInv, moves = 0, ~FlushSocket, NEW a \in Directors,
         NEW h \in Hosts, h # DefaultHost,
         director_move_user(link, a, a, a, OwnSeq(a), h), last_seq' = NextSeq(a),
         UNCHANGED conns
  PROVE  MovingInv(a, h)'
  <1>1. DefaultHost # NoHost /\ h # NoHost /\ NoHost \notin Hosts
    BY MoveAssumption
  <1>2. /\ OwnSeq(a) = 1 /\ last_seq'[a][a] = 1
        /\ \A e \in Directors : e # a => last_seq'[e][a] = last_seq[e][a]
    BY DEF SameInv, OwnSeq, NextSeq, MoveInv, RingInv
  <1>3. link \in Links /\ SameLinks(link, {"USER"})
    BY DEF MoveInv, RingInv, SameInv
  <1>4. ASSUME NEW e \in Directors, NEW z \in Sides, NEW i \in 1..Len(link[e][z])
        PROVE  link[e][z][i].cmd = "USER" /\ link[e][z][i].h = DefaultHost
    <2>1. link[e][z][i].cmd = "USER" /\ link[e][z][i].h \in {NoHost, DefaultHost}
      BY <1>3 DEF SameLinks
    <2>2. link[e][z] \in Seq(MsgRec)
      BY <1>3, QueueType
    <2>3. link[e][z][i] \in MsgRec
      BY <2>2
    <2> QED BY <1>1, <2>1, <2>3 DEF MsgRec, Killed
  <1> DEFINE ph0 == [e \in Directors |-> "before"]
             ph1 == [e \in Directors |-> IF e = a THEN "killing" ELSE "before"]
             l1 == director_update_send(link, a, a, Msg("USER-MOVE", a, 1, h))
             old == host[a]
  <1>5. l1 \in Links /\ RingMoves(l1, ph1, a, h) /\ Ahead(l1, ph1, h)
    <2> HIDE DEF l1, ph1
    <2> QED BY <1>3, <1>4, RingStart DEF l1, ph1
  <1>6. director_kill_user(l1, a, a, old, h) /\ host' = [host EXCEPT ![a] = h]
    BY <1>2 DEF director_move_user
  <1>7. /\ ~USER_IS_BEING_KILLED(a) /\ old \in {NoHost, DefaultHost}
        /\ conns[a] \subseteq {old} /\ conns[a] \subseteq Hosts
    BY DEF SameInv, USER_IS_BEING_KILLED, MoveInv, ProxyInv
  <1>8. Dirs(ph0, a, h)
    <2>1. ASSUME NEW d \in Directors
          PROVE  DirOK(host[d], kill[d], conns[d], last_seq[d][a], ph0[d], AllThrough(ph0), d = a, h)
      <3>1. /\ host[d] \in {NoHost, DefaultHost} /\ kill[d].state = "none"
            /\ conns[d] \subseteq {host[d]} /\ last_seq[d][a] = 0
        BY DEF SameInv
      <3>2. ph0[d] = "before"
        OBVIOUS
      <3> HIDE DEF ph0
      <3> QED BY <1>1, <3>1, <3>2 DEF DirOK, PhaseOf
    <2> HIDE DEF ph0
    <2> QED BY <2>1 DEF Dirs
  <1>9. ~AllThrough(ph0)
    BY DEF AllThrough, Through
  <1> HIDE DEF l1, old
  <1>10. PICK k \in KillRec : kill' = [kill EXCEPT ![a] = k] /\ NewKill(l1, link', k, a, a, old, h)
    BY <1>6, <1>7, KillStarts
  <1> DEFINE p == k.state
             ph2 == [ph1 EXCEPT ![a] = p]
             l2 == SendRight(l1, a, USER_KILLED(a))
  <1>11. /\ k.self = TRUE /\ link' = IF p = "waiting_everyone" THEN l2 ELSE l1
         /\ \/ p = "killing" /\ k.pending /\ old = DefaultHost
            \/ p = "delay" /\ old = NoHost /\ N = 1
            \/ p = "waiting_everyone" /\ old = NoHost /\ N # 1
    BY <1>1, <1>7, <1>10 DEF KillRec, NewKill
  <1>12. /\ ph1[a] = "killing" /\ ph2[a] = p
         /\ \A e \in Directors : e # a => ph2[e] = ph0[e]
         /\ p = "killing" => ph2 = ph1
    OBVIOUS
  <1> HIDE DEF p, ph0, ph1, l2
  <1>13. RingMoves(link', ph2, a, h) /\ Ahead(link', ph2, h)
    <2>1. CASE p = "killing"
      BY <1>5, <1>11, <1>12, <2>1
    <2>2. CASE p = "delay" /\ N = 1
      <3>1. RingMoves(l1, ph2, a, h) /\ Ahead(l1, ph2, h)
        BY <1>5, <1>12, <2>2, RingAlone
      <3> QED BY <1>11, <2>2, <3>1
    <2>3. CASE p = "waiting_everyone" /\ N # 1
      <3>1. ~Through(ph1[a]) /\ Moved(ph1[a])
        BY <1>12 DEF Through, Moved
      <3>2. ph2 = [ph1 EXCEPT ![a] = "waiting_everyone"]
        BY <2>3
      <3> HIDE DEF ph2
      <3>3. RingMoves(l2, ph2, a, h) /\ Ahead(l2, ph2, h)
        BY <1>5, <2>3, <3>1, <3>2, RingToken DEF l2
      <3> QED BY <1>11, <2>3, <3>3
    <2> QED BY <1>11, <2>1, <2>2, <2>3
  <1> HIDE DEF ph2
  <1>14. DirOK(h, k, conns[a], 1, p, AllThrough(ph2), a = a, h)
    <2>1. CASE p = "killing"
      BY <1>7, <1>11, <2>1 DEF DirOK, PhaseOf, p
    <2>2. CASE p # "killing"
      <3>1. conns[a] = {}
        BY <1>1, <1>7, <1>11, <2>2
      <3> QED BY <1>11, <2>2, <3>1 DEF DirOK, PhaseOf, p
    <2> QED BY <2>1, <2>2
  <1>15. /\ host'[a] = h /\ kill'[a] = k
         /\ \A e \in Directors : e # a => host'[e] = host[e] /\ kill'[e] = kill[e]
    BY <1>6, <1>10 DEF MoveInv, RingInv, CtxInv
  <1>16. DirOK(host'[a], kill'[a], conns'[a], last_seq'[a][a], ph2[a], AllThrough(ph2), a = a, h)
    BY <1>2, <1>12, <1>14, <1>15
  <1>17. \A e \in Directors : e # a =>
           /\ host'[e] = host[e] /\ kill'[e] = kill[e] /\ conns'[e] = conns[e]
           /\ last_seq'[e][a] = last_seq[e][a] /\ ph2[e] = ph0[e]
    BY <1>2, <1>12, <1>15
  <1> QED BY <1>8, <1>9, <1>13, <1>16, <1>17, OneMoves

\* One command at most, and no event that a kill may meet: the flush script, slow
\* messages, timeouts and login processes that cannot be reached are left out.
Calm == MaxMoves <= 1 /\ ~FlushSocket /\ Env \subseteq {"RESET", "REFRESH"}

OneInv ==
  /\ \A d \in Directors : /\ kicks[d] = {} /\ orphans[d].kill = 0
                          /\ orphans[d].flush = 0 /\ orphans[d].freed = 0
  /\ \/ SameInv
     \/ moves # 0 /\ \E a \in Directors, h \in Hosts \ {DefaultHost} : MovingInv(a, h)

LEMMA OneInvInit == Init => OneInv
  <1> SUFFICES ASSUME Init PROVE OneInv
    OBVIOUS
  <1>1. \A d \in Directors : /\ kicks[d] = {} /\ orphans[d].kill = 0
                             /\ orphans[d].flush = 0 /\ orphans[d].freed = 0
    BY DEF Init
  <1>2. \A e \in Directors, z \in Sides : link[e][z] = <<>>
    BY DEF Init
  <1>3. SameLinks(link, MoveCmds) /\ SameLinks(link, {"USER"})
    BY <1>2 DEF SameLinks
  <1>4. SameInv
    BY <1>3 DEF Init, SameInv, NoKill
  <1> QED BY <1>1, <1>4 DEF OneInv

LEMMA SameAdmin ==
  ASSUME Calm, MoveInv, SameInv, NEW d \in Directors, NEW h \in Hosts,
         doveadm_cmd_user_move(d, h) \/ director_host_reset_users(d, h)
  PROVE  /\ UNCHANGED <<kicks, orphans>> /\ moves' # 0
         /\ SameInv' \/ (h # DefaultHost /\ MovingInv(d, h)')
  <1>1. /\ moves < MaxMoves /\ moves' = moves + 1 /\ UNCHANGED <<kicks, orphans, conns>>
    BY DEF doveadm_cmd_user_move, director_host_reset_users
  <1>2. moves = 0 /\ moves' # 0
    BY <1>1, MoveAssumption DEF Calm, MoveInv, ProxyInv
  <1>3. DefaultHost \in Hosts /\ NoHost \notin Hosts /\ link \in Links
    BY MoveAssumption DEF MoveInv, RingInv
  <1>4. /\ host[d] \in {NoHost, DefaultHost} /\ SameLinks(link, MoveCmds)
        /\ OwnSeq(d) \in Nat
    BY DEF SameInv, OwnSeq, MoveInv, RingInv
  <1>5. CASE host[d] = h
    <2>1. h = DefaultHost
      BY <1>3, <1>4, <1>5
    <2>2. link' = director_update_send(link, d, d, USER(d, h)) /\ UNCHANGED host
      BY <1>5 DEF doveadm_cmd_user_move, director_host_reset_users
    <2> DEFINE x == USER(d, h)
    <2>3. x \in MsgRec /\ x.cmd \in MoveCmds /\ x.h = DefaultHost
      BY <1>3, <2>1, UserMsg DEF USER, Msg, MoveCmds
    <2> HIDE DEF x
    <2>4. SameLinks(link', MoveCmds)
      BY <1>3, <1>4, <2>2, <2>3, SameUpdate DEF x
    <2>5. SameInv'
      BY <1>1, <1>2, <2>2, <2>4 DEF SameInv
    <2> QED BY <1>1, <1>2, <2>5
  <1>6. CASE host[d] # h
    <2>1. last_seq' = NextSeq(d) /\ director_move_user(link, d, d, d, OwnSeq(d), h)
      BY <1>6 DEF doveadm_cmd_user_move, director_host_reset_users
    <2>2. CASE h = DefaultHost
      BY <1>1, <1>2, <1>3, <1>4, <2>1, <2>2, SameUserMove
    <2>3. CASE h # DefaultHost
      BY <1>1, <1>2, <2>1, <2>3, MovingStarts DEF Calm
    <2> QED BY <2>2, <2>3
  <1> QED BY <1>5, <1>6

LEMMA OneInvNext ==
  ASSUME Calm, MoveInv, OneInv, [Next]_vars
  PROVE  OneInv'
  <1>1. ~FlushSocket /\ "SLOW" \notin Env /\ "KILL_FAIL" \notin Env /\ "TIMEOUT" \notin Env
        /\ "TIMEOUT_BUSY" \notin Env /\ "HOST_FLUSH" \notin Env
    BY DEF Calm
  <1>2. ASSUME UNCHANGED <<kicks, orphans>>,
               \/ SameInv'
               \/ moves' # 0 /\ \E a \in Directors, h \in Hosts \ {DefaultHost} : MovingInv(a, h)'
        PROVE  OneInv'
    BY <1>2 DEF OneInv
  <1>3. CASE UNCHANGED vars
    <2>1. SameInv => SameInv'
      BY <1>3 DEF SameInv, vars
    <2>2. ASSUME NEW a \in Directors, NEW h \in Hosts, MovingInv(a, h) PROVE MovingInv(a, h)'
      <3>1. PICK ph : RingMoves(link, ph, a, h) /\ Ahead(link, ph, h) /\ Dirs(ph, a, h)
        BY <2>2 DEF MovingInv
      <3>2. RingMoves(link', ph, a, h) /\ Ahead(link', ph, h) /\ Dirs(ph, a, h)'
        BY <1>3, <3>1 DEF vars, Dirs
      <3> QED BY <3>2 DEF MovingInv
    <2>3. moves' = moves /\ UNCHANGED <<kicks, orphans>>
      BY <1>3 DEF vars
    <2> QED BY <1>2, <2>1, <2>2, <2>3 DEF OneInv
  <1>4. ASSUME Next PROVE OneInv'
    <2>1. PICK d \in Directors :
            \/ \E side \in Sides : Receive(d, side)
            \/ Login(d) \/ Admin(d) \/ Answer(d) \/ Late(d) \/ Kicked(d)
            \/ director_user_kill_finish_delayed_to(d)
            \/ director_user_move_timeout(d)
      BY <1>4 DEF Next
    <2>2. ~Late(d) /\ ~Kicked(d)
      BY DEF OneInv, Late, KillCallbackOrphan, KillCallbackFreed, FlushContinueOrphan,
             Kicked, KICK_DIRECTOR_HASH
    <2>3. ~director_user_move_timeout(d)
      BY <1>1 DEF director_user_move_timeout
    <2>4. ASSUME NEW h \in Hosts, doveadm_cmd_host_flush(d, h) PROVE FALSE
      BY <1>1, <2>4 DEF doveadm_cmd_host_flush
    <2>5. /\ \A side \in Sides : Receive(d, side) => UNCHANGED moves
          /\ Login(d) => UNCHANGED moves
          /\ director_user_kill_finish_delayed_to(d) => UNCHANGED moves
          /\ \A ok \in BOOLEAN : director_kill_user_callback(d, ok) => UNCHANGED moves
      BY DEF Receive, Login, director_user_kill_finish_delayed_to, director_kill_user_callback
    <2>6. \A ok \in BOOLEAN : director_kill_user_callback(d, ok) => ok = TRUE
      BY <1>1 DEF director_kill_user_callback
    <2>7. CASE SameInv
      <3>1. CASE \E side \in Sides : Receive(d, side)
        BY <1>2, <2>7, <3>1, SameReceive
      <3>2. CASE Login(d)
        BY <1>2, <2>7, <3>2, SameLogin
      <3>3. CASE Admin(d)
        <4>1. PICK h \in Hosts : doveadm_cmd_user_move(d, h) \/ director_host_reset_users(d, h)
          BY <2>4, <3>3 DEF Admin
        <4>2. /\ UNCHANGED <<kicks, orphans>> /\ moves' # 0
              /\ SameInv' \/ (h # DefaultHost /\ MovingInv(d, h)')
          BY <2>7, <4>1, SameAdmin
        <4>3. CASE SameInv'
          BY <1>2, <4>2, <4>3
        <4>4. CASE h # DefaultHost /\ MovingInv(d, h)'
          <5>1. h \in Hosts \ {DefaultHost}
            BY <4>4
          <5> QED BY <1>2, <4>2, <4>4, <5>1
        <4> QED BY <4>2, <4>3, <4>4
      <3>4. ASSUME kill[d].state # "none",
                   \/ Answer(d)
                   \/ director_user_kill_finish_delayed_to(d)
            PROVE  OneInv'
        <4>1. moves # 0
          BY <2>7, <3>4 DEF SameInv
        <4>2. /\ UNCHANGED <<host, moves, kicks, orphans>>
              /\ conns' = conns \/ conns' = [conns EXCEPT ![d] = {}]
              /\ link' = link \/ \E k : link' = Announced(link, d, k)
          BY <2>6, <3>4 DEF Answer, director_kill_user_callback, director_flush_user_continue,
             director_user_kill_finish_delayed_to
        <4>3. \A e \in Directors : conns'[e] \subseteq conns[e]
          BY <4>2 DEF MoveInv, ProxyInv
        <4>4. SameLinks(link', MoveCmds)
          BY <2>7, <4>2, SameAnnounced DEF SameInv, MoveInv, RingInv
        <4>5. SameInv'
          BY <2>7, <4>1, <4>2, <4>3, <4>4, SameStep
        <4> QED BY <1>2, <4>2, <4>5
      <3>5. ASSUME Answer(d) \/ director_user_kill_finish_delayed_to(d)
            PROVE  kill[d].state # "none"
        <4>1. PendingKill(kill[d])
          BY DEF MoveInv, CtxInv
        <4> QED BY <3>5, <4>1 DEF Answer, director_kill_user_callback,
                   director_flush_user_continue, director_user_kill_finish_delayed_to, PendingKill
      <3> QED BY <2>1, <2>2, <2>3, <3>1, <3>2, <3>3, <3>4, <3>5
    <2>8. CASE ~SameInv
      <3>1. PICK a \in Directors, h \in Hosts \ {DefaultHost} : MovingInv(a, h)
        BY <2>8 DEF OneInv
      <3>2. moves # 0 /\ h \in Hosts /\ h # DefaultHost
        BY <2>8, <3>1 DEF OneInv
      <3>3. ASSUME MovingInv(a, h)', UNCHANGED <<kicks, orphans, moves>> PROVE OneInv'
        BY <1>2, <3>1, <3>2, <3>3
      <3>4. CASE \E side \in Sides : Receive(d, side)
        BY <1>1, <2>5, <3>1, <3>2, <3>3, <3>4, MovingReceive
      <3>5. CASE Login(d)
        BY <2>5, <3>1, <3>2, <3>3, <3>5, MovingLogin
      <3>6. ~Admin(d)
        <4>1. ~(moves < MaxMoves)
          BY <3>2, MoveAssumption DEF Calm, MoveInv, ProxyInv
        <4> QED BY <4>1 DEF Admin, doveadm_cmd_user_move, director_host_reset_users,
                   doveadm_cmd_host_flush
      <3>7. CASE Answer(d)
        <4>1. kill[d].state # "flushing"
          <5>1. PICK ph : RingMoves(link, ph, a, h) /\ Dirs(ph, a, h)
            BY <3>1 DEF MovingInv
          <5> QED BY <3>2, <5>1, PhaseIs
        <4>2. director_kill_user_callback(d, TRUE)
          BY <2>6, <3>7, <4>1 DEF Answer, director_flush_user_continue
        <4> QED BY <1>1, <2>5, <3>1, <3>2, <3>3, <4>2, MovingCallback
      <3>8. CASE director_user_kill_finish_delayed_to(d)
        BY <1>1, <2>5, <3>1, <3>2, <3>3, <3>8, MovingDelay
      <3> QED BY <2>1, <2>2, <2>3, <3>4, <3>5, <3>6, <3>7, <3>8
    <2> QED BY <2>7, <2>8
  <1> QED BY <1>3, <1>4

LEMMA OneInvAlways == ASSUME Calm PROVE Spec => []OneInv
  <1>1. MoveInv /\ OneInv /\ [Next]_vars => OneInv'
    BY OneInvNext
  <1> QED BY <1>1, OneInvInit, MoveInvAlways, PTL DEF Spec

\* Connected to one host only, and the host of its own director is that one,
\* unless the director is killing it.
LEMMA OneHost ==
  ASSUME MoveInv, OneInv
  PROVE  /\ OneBackend
         /\ \A d \in Directors : ~USER_IS_BEING_KILLED(d) => conns[d] \subseteq {host[d]}
  <1>1. CASE SameInv
    <2>1. \A d \in Directors : conns[d] \subseteq {DefaultHost} /\ conns[d] \subseteq {host[d]}
      <3>1. \A d \in Directors : /\ host[d] \in {NoHost, DefaultHost} /\ conns[d] \subseteq {host[d]}
                                 /\ conns[d] \subseteq Hosts
        BY <1>1 DEF SameInv, MoveInv, ProxyInv
      <3> QED BY <3>1, MoveAssumption
    <2> QED BY <2>1 DEF OneBackend
  <1>2. CASE ~SameInv
    <2>1. PICK a \in Directors, h \in Hosts \ {DefaultHost} : MovingInv(a, h)
      BY <1>2 DEF OneInv
    <2>2. PICK ph : RingMoves(link, ph, a, h) /\ Dirs(ph, a, h)
      BY <2>1 DEF MovingInv
    <2>3. h \in Hosts /\ h # DefaultHost /\ NoHost \notin Hosts
      BY <2>1, MoveAssumption
    <2>4. ASSUME NEW d \in Directors
          PROVE  /\ conns[d] \subseteq {h} \/ (conns[d] \subseteq {DefaultHost} /\ ~Through(ph[d]))
                 /\ h \in conns[d] => AllThrough(ph)
                 /\ ~USER_IS_BEING_KILLED(d) => conns[d] \subseteq {host[d]}
      <3>1. /\ ph[d] = "before" =>
                 host[d] \in {NoHost, DefaultHost} /\ conns[d] \subseteq {host[d]}
            /\ ph[d] # "before" => host[d] = h
            /\ ph[d] \in {"killing", "killing_notify"} => conns[d] \subseteq {DefaultHost}
            /\ ph[d] \notin {"before", "killing", "killing_notify"} =>
                 conns[d] \subseteq {h} /\ (conns[d] # {} => AllThrough(ph))
            /\ kill[d].state = "none" <=> ph[d] \in {"before", "done"}
        BY <2>2, <2>3, PhaseIs
      <3>2. conns[d] \subseteq Hosts
        BY DEF MoveInv, ProxyInv
      <3>3. CASE ph[d] = "before"
        <4>1. conns[d] \subseteq {DefaultHost} /\ ~Through(ph[d])
          BY <2>3, <3>1, <3>2, <3>3 DEF Through
        <4> QED BY <2>3, <3>1, <3>3, <4>1
      <3>4. CASE ph[d] \in {"killing", "killing_notify"}
        BY <2>3, <3>1, <3>4 DEF Through, USER_IS_BEING_KILLED
      <3>5. CASE ph[d] \notin {"before", "killing", "killing_notify"}
        <4>1. conns[d] \subseteq {h} /\ (h \in conns[d] => AllThrough(ph)) /\ host[d] = h
          BY <3>1, <3>5
        <4> QED BY <4>1
      <3> QED BY <3>3, <3>4, <3>5
    <2>5. ASSUME NEW d \in Directors, NEW e \in Directors, NEW g \in conns[d], NEW f \in conns[e]
          PROVE  g = f
      <3>1. CASE g = h \/ f = h
        <4>1. AllThrough(ph)
          BY <2>4, <3>1
        <4>2. Through(ph[d]) /\ Through(ph[e])
          BY <4>1 DEF AllThrough
        <4> QED BY <2>4, <4>2
      <3>2. CASE g # h /\ f # h
        BY <2>4, <3>2
      <3> QED BY <3>1, <3>2
    <2> QED BY <2>4, <2>5 DEF OneBackend
  <1> QED BY <1>1, <1>2

\* "don't allow new connections until all directors have killed the user's
\* connections" (struct user): while one move and any logins go on, in a ring of any
\* size and in any order, the user is never connected to two backends.
THEOREM NeverTwoBackends == Calm => (Spec => []OneBackend)
  <1> SUFFICES ASSUME Calm PROVE Spec => []OneBackend
    OBVIOUS
  <1>1. MoveInv /\ OneInv => OneBackend
    BY OneHost
  <1> QED BY <1>1, OneInvAlways, MoveInvAlways, PTL

\* When nothing is under way, live connections go to one backend, and every director
\* that has some has the user there (director_user_refresh()).
THEOREM QuietlyAgreed == Calm => (Spec => []QuietAgreement)
  <1> SUFFICES ASSUME Calm PROVE Spec => []QuietAgreement
    OBVIOUS
  <1>1. MoveInv /\ OneInv => QuietAgreement
    BY OneHost DEF QuietAgreement, Quiet
  <1> QED BY <1>1, OneInvAlways, MoveInvAlways, PTL

-----------------------------------------------------------------------------
(***************************************************************************)
(* The mail hosts (HostSync).                                              *)
(***************************************************************************)

-----------------------------------------------------------------------------
(* Types.                                                                  *)

MailHosts ==
  {h \in [in : BOOLEAN, vhosts : Nat, down : BOOLEAN, at : Nat, desynced : BOOLEAN] :
     /\ h.in => h.vhosts \in Vhosts
     /\ ~h.in => h.vhosts = 0 /\ h.down = FALSE /\ h.desynced = FALSE}
HostLines == [cmd : {"HOST"}, from : Ring, seq : Nat, vhosts : Vhosts, down : BOOLEAN, at : Nat]
RemoveLines == [cmd : {"HOST-REMOVE"}, from : Ring, seq : Nat]
SyncLines == [cmd : {"SYNC"}, from : Ring, seq : Nat, hash : Int]
RingLines == HostLines \cup RemoveLines \cup SyncLines
DirRec ==
  [host : MailHosts, last_seq : [Ring -> Nat], bad_hash : [Ring -> Int], sync_seq : Nat,
   ring_synced : BOOLEAN, frozen : BOOLEAN, pending : BOOLEAN,
   out : [RingSides -> Seq(RingLines)]]

-----------------------------------------------------------------------------
(* The inductive invariant, for states dd of the directors.                *)

Hash(s) == mail_hosts_hash(s.host)
IsSync(m, o, seq) == m.cmd = "SYNC" /\ m.from = o /\ m.seq = seq

\* A SYNC goes to the right only, and with the current sequence of its director it
\* has the hash of that director's hosts.
SyncsGood(dd) ==
  \A f \in Ring, side \in RingSides : \A m \in Range(dd[f].out[side]) :
    m.cmd = "SYNC" =>
      /\ side = "right" /\ m.seq <= dd[m.from].sync_seq
      /\ m.seq = dd[m.from].sync_seq => m.hash = Hash(dd[m.from])

\* The directors from e to f, to the right.
Arc(e, f) == {d \in Ring : IF e <= f THEN e <= d /\ d <= f ELSE e <= d \/ d <= f}

\* The director whose hosts changed last: its current SYNC has come only as far as
\* there are directors with the same hosts, all the way around if it is synced.
Latest(dd, e) ==
  /\ dd[e].ring_synced => \A d \in Ring : Hash(dd[d]) = Hash(dd[e])
  /\ \A f \in Ring : \A m \in Range(dd[f].out["right"]) :
       IsSync(m, e, dd[e].sync_seq) => \A d \in Arc(e, f) : Hash(dd[d]) = Hash(dd[e])

RingHosts(dd) ==
  /\ dd \in [Ring -> DirRec]
  /\ SyncsGood(dd)
  /\ \E e \in Ring : Latest(dd, e)

HostsInv == RingHosts(dirs) /\ clock \in Nat /\ surprised = FALSE

-----------------------------------------------------------------------------
(* The ring.                                                               *)

LEMMA RingFacts ==
  ASSUME NEW d \in Ring, NEW side \in RingSides
  PROVE  /\ Neighbour(d, side) \in Ring /\ Neighbour(d, side) # d
         /\ OtherSide(side) \in RingSides /\ (OtherSide(side) = "right" <=> side = "left")
  BY HostAssumption DEF Ring, Neighbour, OtherSide, RingSides

LEMMA ArcFacts ==
  ASSUME NEW e \in Ring
  PROVE  /\ \A f \in Ring : Arc(e, f) \subseteq Ring /\ e \in Arc(e, f)
         /\ \A d \in Arc(e, e) : d = e
         /\ Arc(e, Neighbour(e, "left")) = Ring
         /\ \A d \in Ring : d # e => Arc(e, d) \subseteq Arc(e, Neighbour(d, "left")) \cup {d}
  BY HostAssumption DEF Ring, Neighbour, Arc

-----------------------------------------------------------------------------
(* What handling a line, or a part of it, does to a director.              *)

\* s becomes t: what is sent, and how hosts, sequence and synced state may change
\* when line m was read.
Effect(d, s, t, m) ==
  /\ t \in DirRec
  /\ \A x \in Range(t.out["left"]) : x \in Range(s.out["left"]) \/ x.cmd # "SYNC"
  /\ \A x \in Range(t.out["right"]) :
       \/ x \in Range(s.out["right"]) \/ x.cmd # "SYNC"
       \/ IsSync(x, d, t.sync_seq) /\ x.hash = Hash(t)
       \/ x = m /\ x.from # d /\ x.hash = Hash(t)
  /\ t.sync_seq >= s.sync_seq
  /\ Hash(t) = Hash(s) \/ (t.sync_seq > s.sync_seq /\ ~t.ring_synced)
  /\ t.ring_synced => s.ring_synced \/ IsSync(m, d, t.sync_seq)

LEMMA HashType == ASSUME NEW h \in MailHosts PROVE mail_hosts_hash(h) \in Int
  BY DEF mail_hosts_hash, MailHosts

LEMMA DirFields ==
  ASSUME NEW s \in DirRec
  PROVE  /\ s.host \in MailHosts /\ s.last_seq \in [Ring -> Nat] /\ s.bad_hash \in [Ring -> Int]
         /\ s.sync_seq \in Nat /\ s.ring_synced \in BOOLEAN /\ s.frozen \in BOOLEAN
         /\ s.pending \in BOOLEAN /\ s.out \in [RingSides -> Seq(RingLines)]
         /\ s.out["left"] \in Seq(RingLines) /\ s.out["right"] \in Seq(RingLines)
         /\ Hash(s) \in Int
  <1>1. /\ s.host \in MailHosts /\ s.last_seq \in [Ring -> Nat] /\ s.bad_hash \in [Ring -> Int]
        /\ s.sync_seq \in Nat /\ s.ring_synced \in BOOLEAN /\ s.frozen \in BOOLEAN
        /\ s.pending \in BOOLEAN /\ s.out \in [RingSides -> Seq(RingLines)]
    BY DEF DirRec
  <1> QED BY <1>1, HashType DEF RingSides, Hash

\* A director that differs from s in the lines it has sent only.
SameBut(t, s) ==
  /\ t \in DirRec /\ t.host = s.host /\ t.sync_seq = s.sync_seq /\ t.ring_synced = s.ring_synced
  /\ t.frozen = s.frozen /\ t.pending = s.pending /\ t.last_seq = s.last_seq

LEMMA UpdateSend ==
  ASSUME NEW s \in DirRec, NEW d, NEW src, NEW line \in RingLines
  PROVE  /\ SameBut(HostUpdateSend(s, d, src, line), s)
         /\ \A side \in RingSides :
              Range(HostUpdateSend(s, d, src, line).out[side])
                \subseteq Range(s.out[side]) \cup {line}
  <1> DEFINE o == [side \in RingSides |-> IF Neighbour(d, side) = src THEN s.out[side]
                                          ELSE Append(s.out[side], line)]
             t == HostUpdateSend(s, d, src, line)
  <1>1. s.out \in [RingSides -> Seq(RingLines)]
    BY DirFields
  <1>2. \A side \in RingSides :
          /\ o[side] \in Seq(RingLines)
          /\ Range(o[side]) \subseteq Range(s.out[side]) \cup {line}
    <2> SUFFICES ASSUME NEW side \in RingSides
                 PROVE  /\ o[side] \in Seq(RingLines)
                        /\ Range(o[side]) \subseteq Range(s.out[side]) \cup {line}
      OBVIOUS
    <2> DEFINE q == s.out[side]
               a == Append(q, line)
    <2>1. q \in Seq(RingLines)
      BY <1>1
    <2>2. a \in Seq(RingLines) /\ Range(a) = Range(q) \cup {line}
      BY <2>1, AppendLines
    <2>3. o[side] = q \/ o[side] = a
      OBVIOUS
    <2> HIDE DEF a, q, o
    <2>4. /\ o[side] \in Seq(RingLines) /\ Range(o[side]) \subseteq Range(q) \cup {line}
      BY <2>1, <2>2, <2>3
    <2> QED BY <2>4 DEF q
  <1>3. o \in [RingSides -> Seq(RingLines)]
    BY <1>2
  <1>4. t = [s EXCEPT !.out = o]
    BY DEF HostUpdateSend
  <1> HIDE DEF o, t
  <1>5. SameBut(t, s) /\ t.out = o
    BY <1>3, <1>4 DEF SameBut, DirRec
  <1> QED BY <1>2, <1>5 DEF t

LEMMA SyncSend ==
  ASSUME NEW s \in DirRec, NEW line \in RingLines
  PROVE  /\ SameBut(director_sync_send(s, line), s)
         /\ director_sync_send(s, line).out["left"] = s.out["left"]
         /\ Range(director_sync_send(s, line).out["right"]) = Range(s.out["right"]) \cup {line}
  <1> DEFINE a == Append(s.out["right"], line)
             o == [s.out EXCEPT !["right"] = a]
             t == director_sync_send(s, line)
  <1>1. s.out \in [RingSides -> Seq(RingLines)] /\ s.out["right"] \in Seq(RingLines)
    BY DirFields
  <1>2. a \in Seq(RingLines) /\ Range(a) = Range(s.out["right"]) \cup {line}
    BY <1>1, AppendLines
  <1>3. t = [s EXCEPT !.out = o]
    BY DEF director_sync_send
  <1> HIDE DEF a, t
  <1>4. o \in [RingSides -> Seq(RingLines)] /\ o["left"] = s.out["left"] /\ o["right"] = a
    BY <1>1, <1>2 DEF RingSides
  <1> HIDE DEF o
  <1>5. SameBut(t, s) /\ t.out = o
    BY <1>3, <1>4 DEF SameBut, DirRec
  <1> QED BY <1>2, <1>4, <1>5 DEF t

LEMMA OwnSyncType ==
  ASSUME NEW s \in DirRec, NEW d \in Ring
  PROVE  /\ OwnSync(s, d) \in RingLines /\ IsSync(OwnSync(s, d), d, s.sync_seq)
         /\ OwnSync(s, d).hash = Hash(s)
  <1>1. s.sync_seq \in Nat /\ Hash(s) \in Int
    BY DirFields
  <1> DEFINE n == s.sync_seq
             h == Hash(s)
  <1>2. OwnSync(s, d) = [cmd |-> "SYNC", from |-> d, seq |-> n, hash |-> h]
    BY DEF OwnSync, SyncLine, Hash
  <1> HIDE DEF n, h
  <1>3. /\ OwnSync(s, d) \in SyncLines /\ OwnSync(s, d).cmd = "SYNC" /\ OwnSync(s, d).from = d
        /\ OwnSync(s, d).seq = n /\ OwnSync(s, d).hash = h
    BY <1>1, <1>2 DEF SyncLines, n, h
  <1> QED BY <1>3 DEF RingLines, IsSync, n, h

\* A director starts a new SYNC.
LEMMA SyncStarts ==
  ASSUME NEW s \in DirRec, NEW d \in Ring
  PROVE  LET t == director_sync(s, d)
         IN  /\ t \in DirRec /\ t.host = s.host /\ t.sync_seq = s.sync_seq + 1
             /\ ~t.ring_synced /\ t.frozen = s.frozen
             /\ t.out["left"] = s.out["left"]
             /\ \A x \in Range(t.out["right"]) :
                  \/ x \in Range(s.out["right"])
                  \/ IsSync(x, d, t.sync_seq) /\ x.hash = Hash(t)
  <1> DEFINE n == s.sync_seq + 1
             f == s.frozen
             new == [s EXCEPT !.sync_seq = n, !.ring_synced = FALSE, !.pending = f]
             t == director_sync(s, d)
  <1>1. n \in Nat /\ f \in BOOLEAN
    BY DirFields
  <1>2. t = IF f THEN new ELSE director_sync_send(new, OwnSync(new, d))
    BY DEF director_sync
  <1> HIDE DEF n, f, t
  <1>3. /\ new \in DirRec /\ new.host = s.host /\ new.sync_seq = n /\ new.ring_synced = FALSE
        /\ new.frozen = s.frozen /\ new.out = s.out
    BY <1>1 DEF DirRec
  <1> HIDE DEF new
  <1>4. /\ OwnSync(new, d) \in RingLines /\ IsSync(OwnSync(new, d), d, n)
        /\ OwnSync(new, d).hash = Hash(new)
    BY <1>3, OwnSyncType
  <1>5. CASE f
    BY <1>2, <1>3, <1>5 DEF n, t
  <1>6. CASE ~f
    <2>1. t = director_sync_send(new, OwnSync(new, d))
      BY <1>2, <1>6
    <2>2. /\ SameBut(t, new) /\ t.out["left"] = s.out["left"]
          /\ Range(t.out["right"]) = Range(s.out["right"]) \cup {OwnSync(new, d)}
      BY <1>3, <1>4, <2>1, SyncSend
    <2>3. t.host = new.host /\ t.sync_seq = n /\ Hash(t) = Hash(new)
      BY <1>3, <2>2 DEF SameBut, Hash
    <2> QED BY <1>3, <1>4, <2>2, <2>3 DEF n, t, SameBut
  <1> QED BY <1>5, <1>6

\* Lines that are not SYNCs are sent and the hosts may change, then a SYNC starts.
LEMMA Restarts ==
  ASSUME NEW s \in DirRec, NEW u \in DirRec, NEW d \in Ring, NEW m, u.sync_seq = s.sync_seq,
         \A side \in RingSides : \A x \in Range(u.out[side]) :
           x \in Range(s.out[side]) \/ x.cmd # "SYNC"
  PROVE  Effect(d, s, director_sync(u, d), m)
  <1> DEFINE t == director_sync(u, d)
  <1>1. /\ t \in DirRec /\ t.host = u.host /\ t.sync_seq = u.sync_seq + 1
        /\ ~t.ring_synced /\ t.out["left"] = u.out["left"]
        /\ \A x \in Range(t.out["right"]) :
             \/ x \in Range(u.out["right"])
             \/ IsSync(x, d, t.sync_seq) /\ x.hash = Hash(t)
    BY SyncStarts
  <1>2. "left" \in RingSides /\ "right" \in RingSides /\ s.sync_seq \in Nat
    BY DirFields DEF RingSides
  <1> HIDE DEF t
  <1>3. t.sync_seq > s.sync_seq /\ t.sync_seq >= s.sync_seq
    BY <1>1, <1>2
  <1>4. /\ \A x \in Range(t.out["left"]) : x \in Range(s.out["left"]) \/ x.cmd # "SYNC"
        /\ \A x \in Range(t.out["right"]) :
             \/ x \in Range(s.out["right"]) \/ x.cmd # "SYNC"
             \/ IsSync(x, d, t.sync_seq) /\ x.hash = Hash(t)
    BY <1>1, <1>2
  <1>5. Effect(d, s, t, m)
    BY <1>1, <1>3, <1>4 DEF Effect
  <1> QED BY <1>5 DEF t

LEMMA LineTypes ==
  ASSUME NEW o \in Ring, NEW seq \in Nat, NEW h \in MailHosts
  PROVE  /\ h.in => HOST(o, seq, h) \in RingLines /\ HOST(o, seq, h).cmd # "SYNC"
         /\ HOST_REMOVE(o, seq) \in RingLines /\ HOST_REMOVE(o, seq).cmd # "SYNC"
  <1>1. /\ h.in => h.vhosts \in Vhosts
        /\ h.down \in BOOLEAN /\ h.at \in Nat
    BY DEF MailHosts
  <1> DEFINE v == h.vhosts
             b == h.down
             a == h.at
  <1>2. HOST(o, seq, h) =
          [cmd |-> "HOST", from |-> o, seq |-> seq, vhosts |-> v, down |-> b, at |-> a]
    BY DEF HOST
  <1>3. /\ h.in => v \in Vhosts
        /\ b \in BOOLEAN /\ a \in Nat
    BY <1>1
  <1> HIDE DEF v, b, a
  <1>4. h.in => HOST(o, seq, h) \in HostLines
    BY <1>2, <1>3 DEF HostLines
  <1>5. HOST(o, seq, h).cmd = "HOST"
    BY <1>2
  <1>6. HOST_REMOVE(o, seq) \in RemoveLines /\ HOST_REMOVE(o, seq).cmd = "HOST-REMOVE"
    BY DEF HOST_REMOVE, RemoveLines
  <1> QED BY <1>4, <1>5, <1>6 DEF RingLines

LEMMA NextSeqType ==
  ASSUME NEW s \in DirRec, NEW d \in Ring
  PROVE  /\ NextLastSeq(s, d) \in DirRec /\ NextLastSeq(s, d).out = s.out
         /\ NextLastSeq(s, d).sync_seq = s.sync_seq /\ NextLastSeq(s, d).host = s.host
         /\ NextLastSeq(s, d).ring_synced = s.ring_synced
  <1> DEFINE l == [s.last_seq EXCEPT ![d] = s.last_seq[d] + 1]
             t == NextLastSeq(s, d)
  <1>1. s.last_seq \in [Ring -> Nat]
    BY DirFields
  <1>2. l \in [Ring -> Nat]
    BY <1>1
  <1>3. t = [s EXCEPT !.last_seq = l]
    BY DEF NextLastSeq
  <1> HIDE DEF l, t
  <1>4. t \in DirRec /\ t.out = s.out /\ t.sync_seq = s.sync_seq /\ t.host = s.host
        /\ t.ring_synced = s.ring_synced
    BY <1>2, <1>3 DEF DirRec
  <1> QED BY <1>4 DEF t

\* The lines about one host are sent, then its new state is stored.
LEMMA HostStored ==
  ASSUME NEW s \in DirRec, NEW d \in Ring, NEW src, NEW line \in RingLines, line.cmd # "SYNC",
         NEW u \in DirRec, u.out = s.out, u.sync_seq = s.sync_seq, NEW g \in MailHosts, NEW m
  PROVE  Effect(d, s, director_sync([HostUpdateSend(u, d, src, line) EXCEPT !.host = g], d), m)
  <1> DEFINE v == HostUpdateSend(u, d, src, line)
             w == [v EXCEPT !.host = g]
  <1>1. /\ SameBut(v, u)
        /\ \A side \in RingSides : Range(v.out[side]) \subseteq Range(u.out[side]) \cup {line}
    BY UpdateSend
  <1> HIDE DEF v
  <1>2. v \in DirRec /\ v.sync_seq = s.sync_seq
    BY <1>1 DEF SameBut
  <1>3. w \in DirRec /\ w.out = v.out /\ w.sync_seq = v.sync_seq
    BY <1>2 DEF DirRec
  <1> HIDE DEF w
  <1>4. \A side \in RingSides : \A x \in Range(w.out[side]) :
          x \in Range(s.out[side]) \/ x.cmd # "SYNC"
    BY <1>1, <1>3
  <1>5. Effect(d, s, director_sync(w, d), m)
    BY <1>2, <1>3, <1>4, Restarts
  <1> QED BY <1>5 DEF v, w

LEMMA UpdateHost ==
  ASSUME NEW s \in DirRec, NEW d \in Ring, NEW src, NEW o \in Ring, NEW h \in MailHosts, h.in,
         NEW m
  PROVE  Effect(d, s, director_update_host(s, d, src, o, h), m)
  <1> DEFINE u == IF o = d THEN NextLastSeq(s, d) ELSE s
             line == HOST(o, u.last_seq[o], h)
             g == [h EXCEPT !.desynced = TRUE]
  <1>1. u \in DirRec /\ u.out = s.out /\ u.sync_seq = s.sync_seq
    BY NextSeqType
  <1>2. director_update_host(s, d, src, o, h) =
          director_sync([HostUpdateSend(u, d, src, line) EXCEPT !.host = g], d)
    BY DEF director_update_host
  <1> HIDE DEF u
  <1>3. u.last_seq[o] \in Nat
    <2>1. u.last_seq \in [Ring -> Nat]
      BY <1>1, DirFields
    <2> QED BY <2>1
  <1>4. line \in RingLines /\ line.cmd # "SYNC"
    BY <1>3, LineTypes
  <1>5. g \in MailHosts
    BY DEF MailHosts
  <1> HIDE DEF line, g
  <1>6. Effect(d, s, director_sync([HostUpdateSend(u, d, src, line) EXCEPT !.host = g], d), m)
    BY <1>1, <1>4, <1>5, HostStored
  <1> QED BY <1>2, <1>6

LEMMA RemoveHost ==
  ASSUME NEW s \in DirRec, NEW d \in Ring, NEW src, NEW o \in Ring, NEW m
  PROVE  Effect(d, s, director_remove_host(s, d, src, o), m)
  <1> DEFINE u == IF o = d THEN NextLastSeq(s, d) ELSE s
             line == HOST_REMOVE(o, u.last_seq[o])
  <1>1. u \in DirRec /\ u.out = s.out /\ u.sync_seq = s.sync_seq
    BY NextSeqType
  <1>2. director_remove_host(s, d, src, o) =
          director_sync([HostUpdateSend(u, d, src, line) EXCEPT !.host = NoMailHost], d)
    BY DEF director_remove_host
  <1> HIDE DEF u
  <1>3. u.last_seq[o] \in Nat /\ s.host \in MailHosts
    <2>1. u.last_seq \in [Ring -> Nat]
      BY <1>1, DirFields
    <2> QED BY <2>1, DirFields
  <1>4. line \in RingLines /\ line.cmd # "SYNC"
    BY <1>3, LineTypes
  <1>5. NoMailHost \in MailHosts
    BY DEF MailHosts, NoMailHost
  <1> HIDE DEF line
  <1>6. Effect(d, s, director_sync([HostUpdateSend(u, d, src, line) EXCEPT !.host = NoMailHost], d), m)
    BY <1>1, <1>4, <1>5, HostStored
  <1> QED BY <1>2, <1>6

\* Nothing but lines other than SYNCs.
LEMMA NoEffect ==
  ASSUME NEW s \in DirRec, NEW t \in DirRec, NEW d \in Ring, NEW m, t.host = s.host,
         t.sync_seq = s.sync_seq, t.ring_synced => s.ring_synced,
         \A side \in RingSides : \A x \in Range(t.out[side]) :
           x \in Range(s.out[side]) \/ x.cmd # "SYNC"
  PROVE  Effect(d, s, t, m)
  <1>1. "left" \in RingSides /\ "right" \in RingSides /\ s.sync_seq \in Nat
    BY DirFields DEF RingSides
  <1>2. Hash(t) = Hash(s)
    BY DEF Hash
  <1>3. t.sync_seq >= s.sync_seq
    BY <1>1
  <1> QED BY <1>1, <1>2, <1>3 DEF Effect

LEMMA ResendHosts ==
  ASSUME NEW s \in DirRec, NEW d \in Ring, NEW m
  PROVE  Effect(d, s, director_resend_hosts(s, d), m)
  <1> DEFINE u == NextLastSeq(s, d)
             line == HOST(d, u.last_seq[d], s.host)
             v == HostUpdateSend(u, d, d, line)
  <1>1. /\ u \in DirRec /\ u.out = s.out /\ u.sync_seq = s.sync_seq /\ u.host = s.host
        /\ u.ring_synced = s.ring_synced
    BY NextSeqType
  <1>2. director_resend_hosts(s, d) = IF s.host.in THEN v ELSE s
    BY DEF director_resend_hosts
  <1> HIDE DEF u
  <1>3. CASE ~s.host.in
    <2>1. Effect(d, s, s, m)
      BY NoEffect
    <2> QED BY <1>2, <1>3, <2>1
  <1>4. CASE s.host.in
    <2>1. u.last_seq[d] \in Nat /\ s.host \in MailHosts
      <3>1. u.last_seq \in [Ring -> Nat]
        BY <1>1, DirFields
      <3> QED BY <3>1, DirFields
    <2>2. line \in RingLines /\ line.cmd # "SYNC"
      BY <1>4, <2>1, LineTypes
    <2> HIDE DEF line
    <2>3. /\ SameBut(v, u)
          /\ \A side \in RingSides : Range(v.out[side]) \subseteq Range(u.out[side]) \cup {line}
      BY <1>1, <2>2, UpdateSend
    <2> HIDE DEF v
    <2>4. /\ v \in DirRec /\ v.host = s.host /\ v.sync_seq = s.sync_seq
          /\ v.ring_synced = s.ring_synced
      BY <1>1, <2>3 DEF SameBut
    <2>5. \A side \in RingSides : \A x \in Range(v.out[side]) :
            x \in Range(s.out[side]) \/ x.cmd # "SYNC"
      BY <1>1, <2>2, <2>3
    <2>6. Effect(d, s, v, m)
      BY <2>4, <2>5, NoEffect
    <2> QED BY <1>2, <1>4, <2>6
  <1> QED BY <1>3, <1>4

LEMMA EffectFrom ==
  ASSUME NEW s, NEW u, NEW t, NEW d, NEW m, Effect(d, u, t, m), u.out = s.out,
         u.sync_seq = s.sync_seq, u.host = s.host, u.ring_synced = s.ring_synced
  PROVE  Effect(d, s, t, m)
  <1>1. Hash(u) = Hash(s)
    BY DEF Hash
  <1> QED BY <1>1 DEF Effect

LEMMA SeenType ==
  ASSUME NEW s \in DirRec, NEW m \in RingLines
  PROVE  LET u == HostSeen(s, m)
         IN  /\ u \in DirRec /\ u.out = s.out /\ u.sync_seq = s.sync_seq /\ u.host = s.host
             /\ u.ring_synced = s.ring_synced
  <1>1. m.from \in Ring /\ m.seq \in Nat
    BY DEF RingLines, HostLines, RemoveLines, SyncLines
  <1> DEFINE l == [s.last_seq EXCEPT ![m.from] = m.seq]
             u == HostSeen(s, m)
  <1>2. s.last_seq \in [Ring -> Nat]
    BY DirFields
  <1>3. l \in [Ring -> Nat]
    BY <1>1, <1>2
  <1>4. u = [s EXCEPT !.last_seq = l]
    BY DEF HostSeen
  <1> HIDE DEF l, u
  <1>5. /\ u \in DirRec /\ u.out = s.out /\ u.sync_seq = s.sync_seq /\ u.host = s.host
        /\ u.ring_synced = s.ring_synced
    BY <1>3, <1>4 DEF DirRec
  <1> QED BY <1>5 DEF u

LEMMA HostChanges ==
  ASSUME NEW h \in MailHosts, NEW m \in HostLines
  PROVE  /\ Changed(h, m) \in MailHosts /\ Changed(h, m).in
         /\ h.desynced => /\ Changed(h, Merged(h, m)) \in MailHosts
                          /\ Changed(h, Merged(h, m)).in
  <1>1. /\ h.vhosts \in Nat /\ h.down \in BOOLEAN /\ h.at \in Nat
        /\ h.desynced => h.vhosts \in Vhosts
        /\ m.vhosts \in Vhosts /\ m.down \in BOOLEAN /\ m.at \in Nat /\ Vhosts \subseteq Nat
    BY HostAssumption DEF MailHosts, HostLines
  <1>2. ASSUME NEW u, u.vhosts \in Vhosts, u.down \in BOOLEAN, u.at \in Nat
        PROVE  Changed(h, u) \in MailHosts /\ Changed(h, u).in
    <2> DEFINE v == u.vhosts
               b == u.down
               a == IF h.down # u.down THEN u.at ELSE h.at
    <2>1. v \in Vhosts /\ v \in Nat /\ b \in BOOLEAN /\ a \in Nat
      BY <1>1, <1>2
    <2>2. Changed(h, u) = [h EXCEPT !.in = TRUE, !.vhosts = v, !.down = b, !.at = a]
      BY DEF Changed
    <2> HIDE DEF v, b, a
    <2> QED BY <2>1, <2>2 DEF MailHosts
  <1>3. ASSUME h.desynced
        PROVE  /\ Merged(h, m).vhosts \in Vhosts /\ Merged(h, m).down \in BOOLEAN
               /\ Merged(h, m).at \in Nat
    BY <1>1, <1>3 DEF Merged
  <1>4. Changed(h, m) \in MailHosts /\ Changed(h, m).in
    BY <1>1, <1>2
  <1>5. ASSUME h.desynced
        PROVE  Changed(h, Merged(h, m)) \in MailHosts /\ Changed(h, Merged(h, m)).in
    BY <1>2, <1>3, <1>5
  <1> QED BY <1>4, <1>5

LEMMA CmdHost ==
  ASSUME NEW s \in DirRec, NEW d \in Ring, NEW src, NEW m \in HostLines
  PROVE  Effect(d, s, director_cmd_host(s, d, src, m), m)
  <1> DEFINE h == s.host
             update == ~h.in \/ h.vhosts # m.vhosts \/ h.down # m.down
  <1>1. h \in MailHosts /\ m.from \in Ring
    BY DirFields DEF HostLines
  <1>2. /\ Changed(h, m) \in MailHosts /\ Changed(h, m).in
        /\ h.desynced => /\ Changed(h, Merged(h, m)) \in MailHosts
                         /\ Changed(h, Merged(h, m)).in
    BY <1>1, HostChanges
  <1>3. director_cmd_host(s, d, src, m) =
          IF ~update THEN s
          ELSE IF h.desynced THEN director_update_host(s, d, d, d, Changed(h, Merged(h, m)))
          ELSE director_update_host(s, d, src, m.from, Changed(h, m))
    BY DEF director_cmd_host
  <1>4. Effect(d, s, s, m)
    BY NoEffect
  <1>5. h.desynced => Effect(d, s, director_update_host(s, d, d, d, Changed(h, Merged(h, m))), m)
    BY <1>1, <1>2, UpdateHost
  <1>6. Effect(d, s, director_update_host(s, d, src, m.from, Changed(h, m)), m)
    BY <1>1, <1>2, UpdateHost
  <1> HIDE DEF h, update
  <1> QED BY <1>3, <1>4, <1>5, <1>6

\* A director sends the SYNC that it waits for again.
LEMMA OwnSyncEffect ==
  ASSUME NEW s \in DirRec, NEW d \in Ring, NEW m
  PROVE  Effect(d, s, director_sync_send(s, OwnSync(s, d)), m)
  <1> DEFINE own == director_sync_send(s, OwnSync(s, d))
  <1>1. /\ OwnSync(s, d) \in RingLines /\ IsSync(OwnSync(s, d), d, s.sync_seq)
        /\ OwnSync(s, d).hash = Hash(s)
    BY OwnSyncType
  <1>2. /\ SameBut(own, s) /\ own.out["left"] = s.out["left"]
        /\ Range(own.out["right"]) = Range(s.out["right"]) \cup {OwnSync(s, d)}
    BY <1>1, SyncSend
  <1> HIDE DEF own
  <1>3. Hash(own) = Hash(s) /\ own.sync_seq = s.sync_seq /\ own.sync_seq >= s.sync_seq
    BY <1>2, DirFields DEF SameBut, Hash
  <1>4. Effect(d, s, own, m)
    BY <1>1, <1>2, <1>3 DEF Effect, SameBut
  <1> QED BY <1>4 DEF own

\* A director's own SYNC is back.
LEMMA SyncIsBack ==
  ASSUME NEW s \in DirRec, NEW d \in Ring, NEW m \in SyncLines, m.from = d
  PROVE  Effect(d, s, SyncBack(s, d, m), m)
  <1> DEFINE own == director_sync_send(s, OwnSync(s, d))
             h == [s.host EXCEPT !.desynced = FALSE]
             t == [s EXCEPT !.ring_synced = TRUE, !.host = h]
  <1>1. Effect(d, s, s, m)
    BY NoEffect
  <1>2. Effect(d, s, own, m)
    BY OwnSyncEffect
  <1>3. ASSUME m.seq = s.sync_seq PROVE Effect(d, s, t, m)
    <2>1. h \in MailHosts /\ mail_hosts_hash(h) = mail_hosts_hash(s.host)
      BY DirFields DEF MailHosts, mail_hosts_hash
    <2> HIDE DEF h
    <2>2. /\ t \in DirRec /\ t.host = h /\ t.out = s.out /\ t.sync_seq = s.sync_seq
      BY <2>1 DEF DirRec
    <2> HIDE DEF t
    <2>3. Hash(t) = Hash(s) /\ t.sync_seq >= s.sync_seq
      BY <2>1, <2>2, DirFields DEF Hash
    <2>4. IsSync(m, d, t.sync_seq)
      BY <1>3, <2>2 DEF IsSync, SyncLines
    <2> QED BY <2>2, <2>3, <2>4 DEF Effect
  <1>4. \/ SyncBack(s, d, m) = s \/ SyncBack(s, d, m) = own
        \/ m.seq = s.sync_seq /\ SyncBack(s, d, m) = t
    BY DEF SyncBack
  <1> HIDE DEF own, t
  <1> QED BY <1>1, <1>2, <1>3, <1>4

\* A SYNC of another director.
LEMMA SyncPassesOn ==
  ASSUME NEW s \in DirRec, NEW d \in Ring, NEW m \in SyncLines, m.from # d
  PROVE  Effect(d, s, SyncPasses(s, d, m), m)
  <1>1. m \in RingLines /\ m.from \in Ring /\ m.hash \in Int
    BY DEF RingLines, SyncLines
  <1>2. ASSUME NEW z \in Int
        PROVE  LET u == [s EXCEPT !.bad_hash[m.from] = z]
               IN  /\ u \in DirRec /\ u.out = s.out /\ u.sync_seq = s.sync_seq /\ u.host = s.host
                   /\ u.ring_synced = s.ring_synced
    <2> DEFINE b == [s.bad_hash EXCEPT ![m.from] = z]
               u == [s EXCEPT !.bad_hash = b]
    <2>1. b \in [Ring -> Int]
      BY <1>1, DirFields
    <2>2. u = [s EXCEPT !.bad_hash[m.from] = z]
      OBVIOUS
    <2> HIDE DEF b
    <2>3. /\ u \in DirRec /\ u.out = s.out /\ u.sync_seq = s.sync_seq /\ u.host = s.host
          /\ u.ring_synced = s.ring_synced
      BY <2>1 DEF DirRec
    <2> HIDE DEF u
    <2> QED BY <2>2, <2>3
  <1> DEFINE u == [s EXCEPT !.bad_hash[m.from] = 0]
             w == [s EXCEPT !.bad_hash[m.from] = m.hash]
             t == director_sync_send(u, m)
  <1>3. /\ u \in DirRec /\ u.out = s.out /\ u.sync_seq = s.sync_seq /\ u.host = s.host
        /\ u.ring_synced = s.ring_synced
    BY <1>2
  <1>4. /\ w \in DirRec /\ w.out = s.out /\ w.sync_seq = s.sync_seq /\ w.host = s.host
        /\ w.ring_synced = s.ring_synced
    BY <1>1, <1>2
  <1>5. \/ m.hash = mail_hosts_hash(s.host) /\ SyncPasses(s, d, m) = t
        \/ SyncPasses(s, d, m) = director_resend_hosts(s, d)
        \/ SyncPasses(s, d, m) = w
    BY DEF SyncPasses
  <1> HIDE DEF u, w
  <1>6. ASSUME m.hash = mail_hosts_hash(s.host) PROVE Effect(d, s, t, m)
    <2>1. /\ SameBut(t, u) /\ t.out["left"] = u.out["left"]
          /\ Range(t.out["right"]) = Range(u.out["right"]) \cup {m}
      BY <1>1, <1>3, SyncSend
    <2> HIDE DEF t
    <2>2. /\ Hash(t) = Hash(s) /\ t.sync_seq = s.sync_seq /\ t.sync_seq >= s.sync_seq
          /\ m.hash = Hash(t)
      BY <1>3, <1>6, <2>1, DirFields DEF SameBut, Hash
    <2> QED BY <1>3, <2>1, <2>2 DEF Effect, SameBut
  <1>7. Effect(d, s, director_resend_hosts(s, d), m)
    BY ResendHosts
  <1>8. Effect(d, s, w, m)
    BY <1>4, NoEffect
  <1> HIDE DEF t
  <1> QED BY <1>5, <1>6, <1>7, <1>8

LEMMA HandleLine ==
  ASSUME NEW s \in DirRec, NEW d \in Ring, NEW src, NEW m \in RingLines
  PROVE  Effect(d, s, director_connection_handle_line(s, d, src, m), m)
  <1> DEFINE t == director_connection_handle_line(s, d, src, m)
             u == HostSeen(s, m)
  <1>1. /\ u \in DirRec /\ u.out = s.out /\ u.sync_seq = s.sync_seq /\ u.host = s.host
        /\ u.ring_synced = s.ring_synced
    BY SeenType
  <1>2. m.cmd \in {"HOST", "HOST-REMOVE", "SYNC"} /\ m.from \in Ring
    BY DEF RingLines, HostLines, RemoveLines, SyncLines
  <1>3. /\ m.cmd = "SYNC" => m \in SyncLines
        /\ m.cmd = "HOST" => m \in HostLines
    BY DEF RingLines, HostLines, RemoveLines, SyncLines
  <1>4. \/ m.cmd = "SYNC" /\ m.from = d /\ t = SyncBack(s, d, m)
        \/ m.cmd = "SYNC" /\ m.from # d /\ t = SyncPasses(s, d, m)
        \/ t = s
        \/ m.cmd = "HOST" /\ t = director_cmd_host(u, d, src, m)
        \/ t = director_cmd_host_remove(u, d, src, m)
    BY <1>2 DEF director_connection_handle_line
  <1> HIDE DEF t, u
  <1>5. Effect(d, s, s, m)
    BY NoEffect
  <1>6. ASSUME m.cmd = "HOST" PROVE Effect(d, s, director_cmd_host(u, d, src, m), m)
    <2>1. Effect(d, u, director_cmd_host(u, d, src, m), m)
      BY <1>1, <1>3, <1>6, CmdHost
    <2> QED BY <1>1, <2>1, EffectFrom
  <1>7. Effect(d, s, director_cmd_host_remove(u, d, src, m), m)
    <2>1. Effect(d, u, director_remove_host(u, d, src, m.from), m)
      BY <1>1, <1>2, RemoveHost
    <2>2. Effect(d, u, u, m)
      BY <1>1, NoEffect
    <2>3. Effect(d, u, director_cmd_host_remove(u, d, src, m), m)
      BY <2>1, <2>2 DEF director_cmd_host_remove
    <2> QED BY <1>1, <2>3, EffectFrom
  <1>8. ASSUME m.cmd = "SYNC", m.from = d PROVE Effect(d, s, SyncBack(s, d, m), m)
    BY <1>3, <1>8, SyncIsBack
  <1>9. ASSUME m.cmd = "SYNC", m.from # d PROVE Effect(d, s, SyncPasses(s, d, m), m)
    BY <1>3, <1>9, SyncPassesOn
  <1>10. Effect(d, s, t, m)
    BY <1>4, <1>5, <1>6, <1>7, <1>8, <1>9
  <1> QED BY <1>10 DEF t

LEMMA FreezeThaw ==
  ASSUME NEW s \in DirRec, NEW d \in Ring, NEW m
  PROVE  Effect(d, s, director_sync_freeze(s), m) /\ Effect(d, s, director_sync_thaw(s, d), m)
  <1> DEFINE f == director_sync_freeze(s)
             t == [s EXCEPT !.frozen = FALSE, !.pending = FALSE]
  <1>1. /\ f \in DirRec /\ f.out = s.out /\ f.sync_seq = s.sync_seq /\ f.host = s.host
        /\ f.ring_synced = s.ring_synced
    BY DEF director_sync_freeze, DirRec
  <1>2. /\ t \in DirRec /\ t.out = s.out /\ t.sync_seq = s.sync_seq /\ t.host = s.host
        /\ t.ring_synced = s.ring_synced
    BY DEF DirRec
  <1>3. director_sync_thaw(s, d) = IF s.pending THEN director_sync(t, d) ELSE t
    BY DEF director_sync_thaw
  <1> HIDE DEF f, t
  <1>4. Effect(d, s, f, m) /\ Effect(d, s, t, m)
    BY <1>1, <1>2, NoEffect
  <1>5. Effect(d, s, director_sync(t, d), m)
    BY <1>2, Restarts
  <1> QED BY <1>3, <1>4, <1>5 DEF f

-----------------------------------------------------------------------------
(* A step of one director keeps the invariant.                             *)

\* Line m is no SYNC, or is the SYNC that d has read from its left neighbour.
Carried(dd, d, m) ==
  m.cmd = "SYNC" => m \in Range(dd[Neighbour(d, "left")].out["right"])

\* Director d has done its step; from the others, lines have been read only.
StepOf(dd, ee, d, t) ==
  /\ ee \in [Ring -> DirRec] /\ ee[d] = t
  /\ \A f \in Ring \ {d} :
       /\ ee[f].host = dd[f].host /\ ee[f].sync_seq = dd[f].sync_seq
       /\ ee[f].ring_synced = dd[f].ring_synced
       /\ \A side \in RingSides : Range(ee[f].out[side]) \subseteq Range(dd[f].out[side])

LEMMA SentLines ==
  ASSUME NEW dd \in [Ring -> DirRec], NEW f \in Ring, NEW side \in RingSides,
         NEW x \in Range(dd[f].out[side])
  PROVE  /\ x \in RingLines /\ x.from \in Ring /\ x.seq \in Nat
         /\ dd[x.from].sync_seq \in Nat
  <1>1. dd[f].out[side] \in Seq(RingLines)
    BY DirFields
  <1>2. x \in RingLines
    BY <1>1 DEF Range
  <1>3. x.from \in Ring /\ x.seq \in Nat
    BY <1>2 DEF RingLines, HostLines, RemoveLines, SyncLines
  <1> QED BY <1>2, <1>3, DirFields

LEMMA RingStep ==
  ASSUME NEW dd, RingHosts(dd), NEW d \in Ring, NEW t, NEW m, Effect(d, dd[d], t, m),
         Carried(dd, d, m), NEW ee, StepOf(dd, ee, d, t)
  PROVE  RingHosts(ee)
  <1>1. /\ dd \in [Ring -> DirRec] /\ SyncsGood(dd) /\ ee \in [Ring -> DirRec] /\ ee[d] = t
        /\ t \in DirRec /\ dd[d] \in DirRec
    BY DEF RingHosts, StepOf, Effect
  <1>2. "left" \in RingSides /\ "right" \in RingSides
    BY DEF RingSides
  <1>3. /\ t.sync_seq \in Nat /\ dd[d].sync_seq \in Nat /\ t.sync_seq >= dd[d].sync_seq
        /\ Hash(t) = Hash(dd[d]) \/ (t.sync_seq > dd[d].sync_seq /\ ~t.ring_synced)
    BY <1>1, DirFields DEF Effect
  <1>4. \A f \in Ring \ {d} : Hash(ee[f]) = Hash(dd[f])
    BY DEF StepOf, Hash
  <1> DEFINE l == Neighbour(d, "left")
             Fine(x, gg) == /\ x.seq <= gg[x.from].sync_seq
                            /\ x.seq = gg[x.from].sync_seq => x.hash = Hash(gg[x.from])
             New(x) == \/ IsSync(x, d, t.sync_seq) /\ x.hash = Hash(t)
                       \/ x = m /\ x.from # d /\ x.hash = Hash(t)
  <1>5. l \in Ring
    BY <1>2, RingFacts
  <1>6. m.cmd = "SYNC" => /\ m \in Range(dd[l].out["right"]) /\ m.from \in Ring /\ m.seq \in Nat
                          /\ Fine(m, dd)
    <2> SUFFICES ASSUME m.cmd = "SYNC"
                 PROVE  /\ m \in Range(dd[l].out["right"]) /\ m.from \in Ring /\ m.seq \in Nat
                        /\ Fine(m, dd)
      OBVIOUS
    <2>1. m \in Range(dd[l].out["right"])
      BY DEF Carried
    <2> QED BY <1>1, <1>2, <1>5, <2>1, SentLines DEF SyncsGood
  <1>7. ASSUME NEW f \in Ring, NEW side \in RingSides, NEW x \in Range(ee[f].out[side]),
               x.cmd = "SYNC"
        PROVE  \/ x \in Range(dd[f].out[side])
               \/ f = d /\ side = "right" /\ New(x)
    <2>1. CASE f # d
      BY <2>1 DEF StepOf
    <2>2. CASE f = d /\ side = "left"
      BY <1>1, <1>7, <2>2 DEF Effect
    <2>3. CASE f = d /\ side = "right"
      BY <1>1, <1>7, <2>3 DEF Effect
    <2> QED BY <2>1, <2>2, <2>3 DEF RingSides
  <1> HIDE DEF l, New
  <1>8. ASSUME NEW x, x.from \in Ring, x.seq \in Nat, Fine(x, dd)
        PROVE  Fine(x, ee)
    <2>1. CASE x.from # d
      <3>1. ee[x.from].sync_seq = dd[x.from].sync_seq /\ Hash(ee[x.from]) = Hash(dd[x.from])
        BY <1>4, <1>8, <2>1 DEF StepOf
      <3> QED BY <1>8, <3>1
    <2>2. CASE x.from = d
      BY <1>1, <1>3, <1>8, <2>2
    <2> QED BY <2>1, <2>2
  <1>9. SyncsGood(ee)
    <2> SUFFICES ASSUME NEW f \in Ring, NEW side \in RingSides, NEW x \in Range(ee[f].out[side]),
                        x.cmd = "SYNC"
                 PROVE  side = "right" /\ Fine(x, ee)
      BY DEF SyncsGood
    <2>1. CASE x \in Range(dd[f].out[side])
      <3>1. side = "right" /\ Fine(x, dd) /\ x.from \in Ring /\ x.seq \in Nat
        BY <1>1, <2>1, SentLines DEF SyncsGood
      <3> HIDE DEF Fine
      <3> QED BY <1>8, <3>1
    <2>2. CASE f = d /\ side = "right" /\ New(x)
      <3>1. CASE IsSync(x, d, t.sync_seq) /\ x.hash = Hash(t)
        BY <1>1, <1>3, <2>2, <3>1 DEF IsSync
      <3>2. CASE x = m /\ x.from # d /\ x.hash = Hash(t)
        <4> HIDE DEF Fine
        <4> QED BY <1>6, <1>8, <2>2, <3>2
      <3> QED BY <2>2, <3>1, <3>2 DEF New
    <2> QED BY <1>7, <2>1, <2>2
  <1>10. PICK e \in Ring : Latest(dd, e)
    BY DEF RingHosts
  <1>11. CASE Hash(t) # Hash(dd[d])
    <2>1. t.sync_seq > dd[d].sync_seq /\ ~t.ring_synced
      BY <1>3, <1>11
    <2>2. ASSUME NEW f \in Ring, NEW x \in Range(ee[f].out["right"]), IsSync(x, d, t.sync_seq)
          PROVE  \A g \in Arc(d, f) : Hash(ee[g]) = Hash(ee[d])
      <3>1. x.cmd = "SYNC" /\ x.from = d /\ x.seq = t.sync_seq
        BY <2>2 DEF IsSync
      <3>2. x \notin Range(dd[f].out["right"])
        BY <1>1, <1>2, <1>3, <2>1, <3>1 DEF SyncsGood
      <3>3. f = d
        BY <1>2, <1>7, <2>2, <3>1, <3>2
      <3> QED BY <3>3, ArcFacts
    <2>3. Latest(ee, d)
      BY <1>1, <2>1, <2>2 DEF Latest
    <2> QED BY <1>1, <1>9, <2>3 DEF RingHosts
  <1>12. CASE Hash(t) = Hash(dd[d])
    <2>1. \A g \in Ring : Hash(ee[g]) = Hash(dd[g])
      BY <1>1, <1>4, <1>12
    <2>2. ee[e].sync_seq \in Nat /\ dd[e].sync_seq \in Nat /\ dd[e].sync_seq <= ee[e].sync_seq
      <3>1. CASE e = d
        BY <1>1, <1>3, <3>1
      <3>2. CASE e # d
        <4>1. dd[e] \in DirRec /\ dd[e].sync_seq \in Nat
          BY <1>1, DirFields
        <4>2. ee[e].sync_seq = dd[e].sync_seq
          BY <3>2 DEF StepOf
        <4> QED BY <4>1, <4>2
      <3> QED BY <3>1, <3>2
    <2>3. ASSUME ee[e].ring_synced PROVE \A g \in Ring : Hash(dd[g]) = Hash(dd[e])
      <3>1. CASE dd[e].ring_synced
        BY <1>10, <3>1 DEF Latest
      <3>2. CASE ~dd[e].ring_synced
        <4>1. e = d
          BY <2>3, <3>2 DEF StepOf
        <4>2. IsSync(m, d, t.sync_seq)
          BY <1>1, <2>3, <3>2, <4>1 DEF Effect
        <4>3. m \in Range(dd[l].out["right"]) /\ IsSync(m, e, dd[e].sync_seq)
          BY <1>3, <1>6, <4>1, <4>2 DEF IsSync
        <4>4. Arc(d, l) = Ring
          BY ArcFacts DEF l
        <4> QED BY <1>5, <1>10, <4>1, <4>3, <4>4 DEF Latest
      <3> QED BY <3>1, <3>2
    <2>4. ASSUME NEW f \in Ring, NEW x \in Range(ee[f].out["right"]),
                 IsSync(x, e, ee[e].sync_seq), NEW g \in Arc(e, f)
          PROVE  Hash(dd[g]) = Hash(dd[e])
      <3>1. x.cmd = "SYNC" /\ x.from = e /\ x.seq = ee[e].sync_seq
        BY <2>4 DEF IsSync
      <3>2. CASE x \in Range(dd[f].out["right"])
        <4>1. x.seq <= dd[e].sync_seq
          BY <1>1, <1>2, <3>1, <3>2 DEF SyncsGood
        <4>2. IsSync(x, e, dd[e].sync_seq)
          BY <2>2, <3>1, <4>1 DEF IsSync
        <4> QED BY <1>10, <2>4, <3>2, <4>2 DEF Latest
      <3>3. CASE f = d /\ New(x)
        <4>1. CASE x.from = d
          BY <2>4, <3>1, <3>3, <4>1, ArcFacts
        <4>2. CASE x = m /\ x.from # d /\ x.hash = Hash(t)
          <5>1. m \in Range(dd[l].out["right"]) /\ Fine(m, dd)
            BY <1>6, <3>1, <4>2
          <5>2. ee[e].sync_seq = dd[e].sync_seq
            BY <3>1, <4>2 DEF StepOf
          <5>3. IsSync(m, e, dd[e].sync_seq) /\ Hash(t) = Hash(dd[e])
            BY <3>1, <4>2, <5>1, <5>2 DEF IsSync
          <5>4. \A k \in Arc(e, l) : Hash(dd[k]) = Hash(dd[e])
            BY <1>5, <1>10, <5>1, <5>3 DEF Latest
          <5>5. g \in Arc(e, l) \/ g = d
            BY <2>4, <3>1, <3>3, <4>2, ArcFacts DEF l
          <5> QED BY <1>12, <5>3, <5>4, <5>5
        <4> QED BY <3>3, <4>1, <4>2 DEF New, IsSync
      <3> QED BY <1>2, <1>7, <2>4, <3>1, <3>2, <3>3
    <2>5. Latest(ee, e)
      <3>1. \A f \in Ring : \A g \in Arc(e, f) : g \in Ring
        BY ArcFacts
      <3> QED BY <2>1, <2>3, <2>4, <3>1 DEF Latest
    <2> QED BY <1>1, <1>9, <2>5 DEF RingHosts
  <1> QED BY <1>11, <1>12

-----------------------------------------------------------------------------
(* The states of a director while it reads its input.                      *)

ReadsAs(f, d, src, pipe, n) ==
  f = [k \in 0..n |->
         IF k = 0 THEN director_sync_freeze(dirs[d])
         ELSE director_connection_handle_line(f[k - 1], d, src, pipe[k])]

LEMMA ReadingExists ==
  ASSUME NEW d, NEW src, NEW pipe, NEW n \in Nat
  PROVE  \E f : ReadsAs(f, d, src, pipe, n)
  <1> DEFINE I == {i \in Nat : ~\E f : ReadsAs(f, d, src, pipe, i)}
  <1> SUFFICES ASSUME I # {} PROVE FALSE
    OBVIOUS
  <1> DEFINE i == Min(I)
  <1>1. i \in I /\ \A j \in I : i <= j
    <2>1. I \subseteq Nat
      OBVIOUS
    <2> HIDE DEF I
    <2> QED BY <2>1, LeastIndex
  <1> HIDE DEF i
  <1>2. i \in Nat /\ ~\E f : ReadsAs(f, d, src, pipe, i)
    BY <1>1
  <1>3. CASE i = 0
    <2> DEFINE g == [k \in 0..0 |-> director_sync_freeze(dirs[d])]
    <2>1. ReadsAs(g, d, src, pipe, 0)
      BY DEF ReadsAs
    <2> QED BY <1>2, <1>3, <2>1
  <1>4. CASE i # 0
    <2>1. i - 1 \in Nat /\ i - 1 \notin I
      BY <1>1, <1>2, <1>4
    <2>2. PICK f : ReadsAs(f, d, src, pipe, i - 1)
      BY <2>1
    <2> DEFINE last == director_connection_handle_line(f[i - 1], d, src, pipe[i])
               g == [k \in 0..i |-> IF k = i THEN last ELSE f[k]]
               r == [k \in 0..i |->
                       IF k = 0 THEN director_sync_freeze(dirs[d])
                       ELSE director_connection_handle_line(g[k - 1], d, src, pipe[k])]
    <2>3. ASSUME NEW k \in 0..i PROVE g[k] = r[k]
      <3>1. CASE k = i
        <4>1. g[i] = last
          BY <1>2
        <4>2. g[i - 1] = f[i - 1]
          <5>1. i - 1 \in 0..i /\ i - 1 # i
            BY <1>2, <2>1
          <5> HIDE DEF last
          <5> QED BY <5>1
        <4> HIDE DEF g
        <4>3. r[i] = director_connection_handle_line(g[i - 1], d, src, pipe[i])
          BY <1>2, <1>4
        <4> HIDE DEF r
        <4> QED BY <3>1, <4>1, <4>2, <4>3
      <3>2. CASE k # i
        <4>1. k \in 0..(i - 1)
          BY <1>2, <3>2
        <4>2. f[k] = IF k = 0 THEN director_sync_freeze(dirs[d])
                     ELSE director_connection_handle_line(f[k - 1], d, src, pipe[k])
          BY <2>2, <4>1 DEF ReadsAs
        <4>3. g[k] = f[k] /\ (k # 0 => g[k - 1] = f[k - 1])
          <5>1. k \in 0..i /\ (k # 0 => k - 1 \in 0..i /\ k - 1 # i)
            BY <1>2, <4>1
          <5> HIDE DEF last
          <5> QED BY <3>2, <5>1
        <4> HIDE DEF g
        <4> QED BY <4>2, <4>3
      <3> QED BY <3>1, <3>2
    <2>4. g = r
      <3>1. DOMAIN g = 0..i /\ DOMAIN r = 0..i
        OBVIOUS
      <3>2. g = [k \in 0..i |-> g[k]] /\ r = [k \in 0..i |-> r[k]]
        OBVIOUS
      <3> HIDE DEF g, r
      <3> QED BY <2>3, <3>2
    <2>5. ReadsAs(g, d, src, pipe, i)
      BY <2>4 DEF ReadsAs
    <2> QED BY <1>2, <2>5
  <1> QED BY <1>3, <1>4

LEMMA ReadingIs ==
  ASSUME NEW d, NEW src, NEW pipe, NEW n \in Nat
  PROVE  /\ Reading(d, src, pipe, n)[0] = director_sync_freeze(dirs[d])
         /\ \A k \in 1..n :
              Reading(d, src, pipe, n)[k] =
                director_connection_handle_line(Reading(d, src, pipe, n)[k - 1], d, src, pipe[k])
  <1> DEFINE r == Reading(d, src, pipe, n)
  <1>1. PICK f : ReadsAs(f, d, src, pipe, n)
    BY ReadingExists
  <1>2. r = [k \in 0..n |-> IF k = 0 THEN director_sync_freeze(dirs[d])
                            ELSE director_connection_handle_line(r[k - 1], d, src, pipe[k])]
    BY <1>1 DEF ReadsAs, Reading
  <1> HIDE DEF r
  <1>3. r[0] = director_sync_freeze(dirs[d])
    BY <1>2
  <1>4. ASSUME NEW k \in 1..n
        PROVE  r[k] = director_connection_handle_line(r[k - 1], d, src, pipe[k])
    <2>1. k \in 0..n /\ k # 0
      OBVIOUS
    <2> QED BY <1>2, <2>1
  <1> QED BY <1>3, <1>4 DEF r

LEMMA OthersSame ==
  ASSUME NEW dd \in [Ring -> DirRec], NEW d \in Ring, NEW s \in DirRec, NEW t \in DirRec
  PROVE  StepOf([dd EXCEPT ![d] = s], [dd EXCEPT ![d] = t], d, t)
  BY DEF StepOf

\* A line that a neighbour has sent is read.
LEMMA LineRead ==
  ASSUME NEW dd, RingHosts(dd), NEW d \in Ring, NEW side \in RingSides,
         NEW m \in Range(dd[Neighbour(d, side)].out[OtherSide(side)])
  PROVE  /\ m \in RingLines /\ Carried(dd, d, m) /\ ~Unexpected(dd[d], d, m)
  <1>1. dd \in [Ring -> DirRec] /\ SyncsGood(dd)
    BY DEF RingHosts
  <1>2. /\ Neighbour(d, side) \in Ring /\ OtherSide(side) \in RingSides
        /\ OtherSide(side) = "right" => side = "left"
    BY RingFacts
  <1>3. m \in RingLines
    BY <1>1, <1>2, SentLines
  <1>4. ASSUME m.cmd = "SYNC"
        PROVE  /\ OtherSide(side) = "right" /\ side = "left"
               /\ m.seq = dd[m.from].sync_seq => m.hash = Hash(dd[m.from])
    BY <1>1, <1>2, <1>4 DEF SyncsGood
  <1>5. Carried(dd, d, m)
    BY <1>4 DEF Carried
  <1>6. ~Unexpected(dd[d], d, m)
    BY <1>4 DEF Unexpected, Hash
  <1> QED BY <1>3, <1>5, <1>6

\* The invariant holds behind each line of the input, were its lines still there.
LEMMA ReadingKeeps ==
  ASSUME RingHosts(dirs), NEW d \in Ring, NEW side \in RingSides, NEW n \in Nat,
         n <= Len(dirs[Neighbour(d, side)].out[OtherSide(side)])
  PROVE  LET pipe == dirs[Neighbour(d, side)].out[OtherSide(side)]
             r == Reading(d, Neighbour(d, side), pipe, n)
         IN  /\ \A k \in 0..n : RingHosts([dirs EXCEPT ![d] = r[k]])
             /\ \A k \in 1..n : ~Unexpected(r[k - 1], d, pipe[k])
  <1> DEFINE src == Neighbour(d, side)
             pipe == dirs[src].out[OtherSide(side)]
             r == Reading(d, src, pipe, n)
             D(k) == [dirs EXCEPT ![d] = r[k]]
  <1>1. dirs \in [Ring -> DirRec] /\ src \in Ring /\ src # d /\ OtherSide(side) \in RingSides
    BY RingFacts DEF RingHosts
  <1>2. /\ r[0] = director_sync_freeze(dirs[d])
        /\ \A k \in 1..n : r[k] = director_connection_handle_line(r[k - 1], d, src, pipe[k])
    BY ReadingIs
  <1> HIDE DEF r
  <1>3. pipe \in Seq(RingLines) /\ \A k \in 1..n : pipe[k] \in Range(pipe)
    <2>1. pipe \in Seq(RingLines)
      BY <1>1, DirFields
    <2> QED BY <2>1 DEF Range
  <1>4. RingHosts(D(0))
    <2> DEFINE m == HOST_REMOVE(d, 0)
    <2>1. m.cmd # "SYNC"
      BY DEF HOST_REMOVE
    <2> HIDE DEF m
    <2>2. dirs[d] \in DirRec
      BY <1>1
    <2>3. Effect(d, dirs[d], r[0], m)
      BY <1>2, <2>2, FreezeThaw
    <2>4. r[0] \in DirRec
      BY <2>3 DEF Effect
    <2>5. StepOf([dirs EXCEPT ![d] = dirs[d]], D(0), d, r[0])
      BY <1>1, <2>2, <2>4, OthersSame
    <2>6. [dirs EXCEPT ![d] = dirs[d]] = dirs
      BY <1>1
    <2>7. Carried(dirs, d, m)
      BY <2>1 DEF Carried
    <2> QED BY <2>3, <2>5, <2>6, <2>7, RingStep
  <1>5. ASSUME NEW k \in 1..n, RingHosts(D(k - 1))
        PROVE  RingHosts(D(k)) /\ ~Unexpected(r[k - 1], d, pipe[k])
    <2> DEFINE m == pipe[k]
    <2>1. D(k - 1)[d] = r[k - 1] /\ D(k - 1)[src] = dirs[src]
      BY <1>1
    <2>2. m \in Range(D(k - 1)[src].out[OtherSide(side)])
      BY <1>3, <2>1
    <2>3. r[k - 1] \in DirRec
      BY <1>5, <2>1 DEF RingHosts
    <2>4. m \in RingLines /\ Carried(D(k - 1), d, m) /\ ~Unexpected(D(k - 1)[d], d, m)
      <3> HIDE DEF D, pipe, m
      <3> QED BY <1>5, <2>2, LineRead DEF src
    <2>5. Effect(d, r[k - 1], r[k], m)
      BY <1>2, <2>3, <2>4, HandleLine
    <2>6. r[k] \in DirRec
      BY <2>5 DEF Effect
    <2>7. StepOf(D(k - 1), D(k), d, r[k])
      BY <1>1, <2>3, <2>6, OthersSame
    <2> HIDE DEF D, m, pipe
    <2>8. RingHosts(D(k))
      BY <1>5, <2>1, <2>4, <2>5, <2>7, RingStep
    <2> QED BY <2>1, <2>4, <2>8 DEF m
  <1> HIDE DEF D
  <1>6. \A k \in 0..n : RingHosts(D(k))
    <2> DEFINE I == {k \in 0..n : ~RingHosts(D(k))}
    <2> SUFFICES ASSUME I # {} PROVE FALSE
      OBVIOUS
    <2> DEFINE i == Min(I)
    <2>1. i \in I /\ \A j \in I : i <= j
      <3>1. I \subseteq Nat
        OBVIOUS
      <3> HIDE DEF I
      <3> QED BY <3>1, LeastIndex
    <2> HIDE DEF i
    <2>2. i \in 0..n /\ ~RingHosts(D(i))
      BY <2>1
    <2>3. i # 0
      BY <1>4, <2>2
    <2>4. i \in 1..n /\ i - 1 \in 0..n /\ i - 1 \notin I
      BY <2>1, <2>2, <2>3
    <2>5. RingHosts(D(i - 1))
      BY <2>4
    <2> QED BY <1>5, <2>2, <2>4, <2>5
  <1>7. ASSUME NEW k \in 1..n PROVE ~Unexpected(r[k - 1], d, pipe[k])
    <2>1. k - 1 \in 0..n
      OBVIOUS
    <2> QED BY <1>5, <1>6, <2>1
  <1> QED BY <1>6, <1>7 DEF D, r

LEMMA InputKeeps ==
  ASSUME HostsInv, NEW d \in Ring, NEW side \in RingSides, NEW n \in 1..MaxLines,
         director_connection_input(d, side, n)
  PROVE  HostsInv'
  <1> DEFINE src == Neighbour(d, side)
             opp == OtherSide(side)
             pipe == dirs[src].out[opp]
             r == Reading(d, src, pipe, n)
             after == director_sync_thaw(r[n], d)
             rest == SubSeq(pipe, n + 1, Len(pipe))
             D == [dirs EXCEPT ![d] = r[n]]
  <1>1. /\ n \in Nat /\ n <= Len(pipe)
        /\ dirs' = [dirs EXCEPT ![d] = after, ![src].out[opp] = SubSeq(@, n + 1, Len(@))]
        /\ surprised' = (surprised \/ \E k \in 1..n : Unexpected(r[k - 1], d, pipe[k]))
        /\ clock' = clock
    <2>1. n \in Nat
      BY HostAssumption
    <2> QED BY <2>1 DEF director_connection_input
  <1>2. /\ RingHosts(dirs) /\ dirs \in [Ring -> DirRec] /\ clock \in Nat /\ surprised = FALSE
        /\ src \in Ring /\ src # d /\ opp \in RingSides
    BY RingFacts DEF HostsInv, RingHosts
  <1>3. /\ \A k \in 0..n : RingHosts([dirs EXCEPT ![d] = r[k]])
        /\ \A k \in 1..n : ~Unexpected(r[k - 1], d, pipe[k])
    BY <1>1, <1>2, ReadingKeeps
  <1> HIDE DEF r
  <1>4. RingHosts(D) /\ D[d] = r[n] /\ r[n] \in DirRec
    <2>1. n \in 0..n
      BY <1>1
    <2>2. RingHosts(D)
      BY <1>3, <2>1
    <2>3. D[d] = r[n]
      BY <1>2
    <2> QED BY <2>2, <2>3 DEF RingHosts
  <1> DEFINE m == HOST_REMOVE(d, 0)
  <1>5. Effect(d, r[n], after, m) /\ Carried(D, d, m)
    BY <1>4, FreezeThaw DEF HOST_REMOVE, Carried
  <1>6. after \in DirRec
    BY <1>5 DEF Effect
  <1>7. pipe \in Seq(RingLines) /\ rest \in Seq(RingLines) /\ Range(rest) \subseteq Range(pipe)
    <2>1. pipe \in Seq(RingLines)
      BY <1>2, DirFields
    <2> HIDE DEF pipe
    <2>2. n \in 0..Len(pipe)
      BY <1>1, <2>1
    <2> QED BY <2>1, <2>2, SplitLines
  <1> DEFINE o == [dirs[src].out EXCEPT ![opp] = rest]
             e == [dirs[src] EXCEPT !.out = o]
  <1>8. dirs' = [dirs EXCEPT ![d] = after, ![src] = e]
    <2> HIDE DEF after
    <2> QED BY <1>1, <1>2
  <1> HIDE DEF after, m
  <1>9. /\ o \in [RingSides -> Seq(RingLines)]
        /\ \A z \in RingSides : Range(o[z]) \subseteq Range(dirs[src].out[z])
    <2>1. dirs[src].out \in [RingSides -> Seq(RingLines)]
      BY <1>2, DirFields
    <2> DEFINE q == dirs[src].out
    <2>2. q \in [RingSides -> Seq(RingLines)] /\ Range(rest) \subseteq Range(q[opp])
          /\ o = [q EXCEPT ![opp] = rest]
      BY <1>7, <2>1
    <2> HIDE DEF q, rest, o
    <2>3. /\ o \in [RingSides -> Seq(RingLines)]
          /\ \A z \in RingSides : Range(o[z]) \subseteq Range(q[z])
      BY <1>2, <1>7, <2>2
    <2> QED BY <2>3 DEF q
  <1> HIDE DEF o
  <1>10. /\ e \in DirRec /\ e.host = dirs[src].host /\ e.sync_seq = dirs[src].sync_seq
         /\ e.ring_synced = dirs[src].ring_synced /\ e.out = o
    <2>1. dirs[src] \in DirRec
      BY <1>2
    <2> QED BY <1>9, <2>1 DEF DirRec
  <1> HIDE DEF e
  <1>11. StepOf(D, dirs', d, after)
    <2>1. dirs' \in [Ring -> DirRec] /\ dirs'[d] = after /\ dirs'[src] = e /\ D[src] = dirs[src]
      BY <1>2, <1>6, <1>8, <1>10
    <2>2. \A f \in Ring : f # d /\ f # src => dirs'[f] = D[f]
      BY <1>2, <1>8
    <2> HIDE DEF D
    <2> QED BY <1>9, <1>10, <2>1, <2>2 DEF StepOf
  <1> HIDE DEF D
  <1>12. RingHosts(dirs')
    BY <1>4, <1>5, <1>11, RingStep
  <1>13. surprised' = FALSE /\ clock' \in Nat
    BY <1>1, <1>2, <1>3
  <1> QED BY <1>12, <1>13 DEF HostsInv, RingHosts, SyncsGood, Latest, IsSync, Hash

-----------------------------------------------------------------------------
(* The other steps, and the theorems.                                      *)

\* A step of director d alone, in which it reads no line.
LEMMA AloneKeeps ==
  ASSUME HostsInv, NEW d \in Ring, NEW t, NEW m, m.cmd # "SYNC", Effect(d, dirs[d], t, m),
         dirs' = [dirs EXCEPT ![d] = t], surprised' = surprised, clock' \in Nat
  PROVE  HostsInv'
  <1>1. /\ RingHosts(dirs) /\ dirs \in [Ring -> DirRec] /\ surprised = FALSE /\ t \in DirRec
        /\ dirs[d] \in DirRec
    BY DEF HostsInv, RingHosts, Effect
  <1>2. [dirs EXCEPT ![d] = dirs[d]] = dirs
    BY <1>1
  <1>3. StepOf([dirs EXCEPT ![d] = dirs[d]], [dirs EXCEPT ![d] = t], d, t)
    BY <1>1, OthersSame
  <1>4. StepOf(dirs, dirs', d, t)
    BY <1>2, <1>3
  <1>5. RingHosts(dirs')
    BY <1>1, <1>4, RingStep DEF Carried
  <1> QED BY <1>1, <1>5 DEF HostsInv, RingHosts, SyncsGood, Latest, IsSync, Hash

LEMMA CommandsKeep ==
  ASSUME HostsInv, NEW d \in Ring,
         \/ \E v \in Vhosts : doveadm_cmd_host_set(d, v)
         \/ doveadm_cmd_host_updown(d)
         \/ doveadm_cmd_host_remove(d)
  PROVE  HostsInv'
  <1> DEFINE h == dirs[d].host
             m == HOST_REMOVE(d, 0)
  <1>1. dirs[d] \in DirRec /\ h \in MailHosts /\ clock \in Nat
    BY DirFields DEF HostsInv, RingHosts
  <1>2. m.cmd # "SYNC"
    BY DEF HOST_REMOVE
  <1> HIDE DEF m
  <1>3. ASSUME NEW v \in Vhosts, doveadm_cmd_host_set(d, v) PROVE HostsInv'
    <2> DEFINE g == [h EXCEPT !.in = TRUE, !.vhosts = v]
               t == director_update_host(dirs[d], d, d, d, g)
    <2>1. dirs' = [dirs EXCEPT ![d] = t] /\ surprised' = surprised /\ clock' \in Nat
      BY <1>1, <1>3 DEF doveadm_cmd_host_set, HostCommand
    <2>2. g \in MailHosts /\ g.in
      BY <1>1, HostAssumption DEF MailHosts
    <2> HIDE DEF g
    <2>3. Effect(d, dirs[d], t, m)
      BY <1>1, <2>2, UpdateHost
    <2> HIDE DEF t
    <2> QED BY <1>2, <2>1, <2>3, AloneKeeps
  <1>4. ASSUME doveadm_cmd_host_updown(d) PROVE HostsInv'
    <2> DEFINE b == ~h.down
               c == clock'
               g == [h EXCEPT !.down = b, !.at = c]
               t == director_update_host(dirs[d], d, d, d, g)
    <2>1. /\ dirs' = [dirs EXCEPT ![d] = t] /\ surprised' = surprised /\ h.in
          /\ clock' \in {clock, clock + 1}
      BY <1>4 DEF doveadm_cmd_host_updown, HostCommand
    <2>2. c \in Nat /\ b \in BOOLEAN
      BY <1>1, <2>1 DEF MailHosts
    <2>3. clock' \in Nat
      BY <2>2
    <2> HIDE DEF b, c
    <2>4. g \in MailHosts /\ g.in
      BY <1>1, <2>1, <2>2 DEF MailHosts
    <2> HIDE DEF g
    <2>5. Effect(d, dirs[d], t, m)
      BY <1>1, <2>4, UpdateHost
    <2> HIDE DEF t
    <2> QED BY <1>2, <2>1, <2>3, <2>5, AloneKeeps
  <1>5. ASSUME doveadm_cmd_host_remove(d) PROVE HostsInv'
    <2> DEFINE t == director_remove_host(dirs[d], d, d, d)
    <2>1. dirs' = [dirs EXCEPT ![d] = t] /\ surprised' = surprised /\ clock' \in Nat
      BY <1>1, <1>5 DEF doveadm_cmd_host_remove, HostCommand
    <2>2. Effect(d, dirs[d], t, m)
      BY <1>1, RemoveHost
    <2> HIDE DEF t
    <2> QED BY <1>2, <2>1, <2>2, AloneKeeps
  <1> QED BY <1>3, <1>4, <1>5

LEMMA TimeoutKeeps ==
  ASSUME HostsInv, NEW d \in Ring, director_sync_timeout(d)
  PROVE  HostsInv'
  <1> DEFINE s == dirs[d]
             own == director_sync_send(s, OwnSync(s, d))
             m == HOST_REMOVE(d, 0)
  <1>1. s \in DirRec /\ clock \in Nat
    BY DEF HostsInv, RingHosts
  <1>2. dirs' = [dirs EXCEPT ![d] = own] /\ surprised' = surprised /\ clock' \in Nat
    BY <1>1 DEF director_sync_timeout
  <1>3. Effect(d, s, own, m)
    BY <1>1, OwnSyncEffect
  <1>4. m.cmd # "SYNC"
    BY DEF HOST_REMOVE
  <1> HIDE DEF own, m
  <1> QED BY <1>2, <1>3, <1>4, AloneKeeps

LEMMA HostsStart == HostsInit => HostsInv
  <1> SUFFICES ASSUME HostsInit PROVE HostsInv
    OBVIOUS
  <1> USE DEF HostsInit
  <1>1. PICK v \in Vhosts :
          dirs = [d \in Ring |->
            [host |-> [NoMailHost EXCEPT !.in = TRUE, !.vhosts = v],
             last_seq |-> [o \in Ring |-> 0], bad_hash |-> [o \in Ring |-> 0],
             sync_seq |-> 0, ring_synced |-> TRUE, frozen |-> FALSE, pending |-> FALSE,
             out |-> [side \in RingSides |-> <<>>]]]
    OBVIOUS
  <1> DEFINE h == [NoMailHost EXCEPT !.in = TRUE, !.vhosts = v]
             z == [o \in Ring |-> 0]
             e == <<>>
             n == [side \in RingSides |-> e]
  <1>2. h \in MailHosts
    BY HostAssumption DEF MailHosts, NoMailHost
  <1>3. z \in [Ring -> Nat] /\ z \in [Ring -> Int] /\ e \in Seq(RingLines) /\ Range(e) = {}
    BY DEF Range
  <1> HIDE DEF h, z, e
  <1>4. n \in [RingSides -> Seq(RingLines)] /\ \A side \in RingSides : Range(n[side]) = {}
    BY <1>3
  <1>5. \A d \in Ring : dirs[d] = [host |-> h, last_seq |-> z, bad_hash |-> z, sync_seq |-> 0,
                                   ring_synced |-> TRUE, frozen |-> FALSE, pending |-> FALSE,
                                   out |-> n]
    BY <1>1 DEF h, z, e
  <1> HIDE DEF n
  <1>6. /\ dirs \in [Ring -> DirRec]
        /\ \A d \in Ring : dirs[d].host = h /\ dirs[d].out = n
    <2>1. \A d \in Ring : dirs[d] \in DirRec /\ dirs[d].host = h /\ dirs[d].out = n
      BY <1>2, <1>3, <1>4, <1>5 DEF DirRec
    <2>2. dirs = [d \in Ring |-> dirs[d]]
      BY <1>1
    <2> QED BY <2>1, <2>2
  <1>7. 1 \in Ring /\ "right" \in RingSides
    BY HostAssumption DEF Ring, RingSides
  <1>8. SyncsGood(dirs)
    BY <1>4, <1>6 DEF SyncsGood
  <1>9. Latest(dirs, 1)
    BY <1>4, <1>6, <1>7 DEF Latest, Hash
  <1> QED BY <1>6, <1>7, <1>8, <1>9 DEF HostsInv, RingHosts

\* Every SYNC with the current sequence of its director has the hash of that
\* director's hosts, and the SYNC of the director whose hosts changed last is only
\* where every director behind it has the same hash (director_sync(),
\* director_connection_sync_host(), director_update_host()).
THEOREM HostsInvariant == HostsSpec => []HostsInv
  <1>1. HostsInv /\ [HostsNext]_hsVars => HostsInv'
    <2> SUFFICES ASSUME HostsInv, [HostsNext]_hsVars PROVE HostsInv'
      OBVIOUS
    <2>1. CASE UNCHANGED hsVars
      BY <2>1 DEF hsVars, HostsInv, RingHosts, SyncsGood, Latest, IsSync, Hash
    <2>2. CASE HostsNext
      <3>1. PICK d \in Ring :
              \/ \E v \in Vhosts : doveadm_cmd_host_set(d, v)
              \/ doveadm_cmd_host_updown(d)
              \/ doveadm_cmd_host_remove(d)
              \/ \E side \in RingSides, n \in 1..MaxLines : director_connection_input(d, side, n)
              \/ director_sync_timeout(d)
        BY <2>2 DEF HostsNext
      <3>2. CASE \/ \E v \in Vhosts : doveadm_cmd_host_set(d, v)
                 \/ doveadm_cmd_host_updown(d) \/ doveadm_cmd_host_remove(d)
        BY <3>2, CommandsKeep
      <3>3. CASE \E side \in RingSides, n \in 1..MaxLines : director_connection_input(d, side, n)
        BY <3>3, InputKeeps
      <3>4. CASE director_sync_timeout(d)
        BY <3>4, TimeoutKeeps
      <3> QED BY <3>1, <3>2, <3>3, <3>4
    <2> QED BY <2>1, <2>2
  <1> QED BY <1>1, HostsStart, PTL DEF HostsSpec

\* "Hosts unexpectedly changed during SYNC reply" is never logged, whatever the
\* commands, the order in which lines are read and the SYNCs that are repeated
\* (director_connection_sync_host()).
THEOREM NeverSurprised == HostsSpec => []NoSurprise
  <1>1. HostsInv => NoSurprise
    BY DEF HostsInv, NoSurprise
  <1> QED BY <1>1, HostsInvariant, PTL

\* When every director says that the ring is synced, all of them have the same
\* hash of the hosts, though lines may still be under way.
THEOREM SyncedHash == HostsSpec => [](AllSynced => \A d, e \in Ring : Hash(dirs[d]) = Hash(dirs[e]))
  <1>1. HostsInv => (AllSynced => \A d, e \in Ring : Hash(dirs[d]) = Hash(dirs[e]))
    BY DEF HostsInv, RingHosts, Latest, AllSynced
  <1> QED BY <1>1, HostsInvariant, PTL

\* No two vhost counts differ in the lowest bit only, the one that mail_hosts_hash()
\* flips for a host that is down: a host up with 100 vhosts and one down with 101
\* have the same hash.
HashTells == \A v \in Vhosts : v % 2 = 0 => v + 1 \notin Vhosts

LEMMA HashesTell ==
  ASSUME HashTells, NEW g \in MailHosts, NEW h \in MailHosts,
         mail_hosts_hash(g) = mail_hosts_hash(h)
  PROVE  g.in = h.in /\ g.vhosts = h.vhosts /\ g.down = h.down
  <1>1. /\ g.in => g.vhosts \in Vhosts
        /\ ~g.in => g.vhosts = 0 /\ g.down = FALSE
        /\ h.in => h.vhosts \in Vhosts
        /\ ~h.in => h.vhosts = 0 /\ h.down = FALSE
        /\ {g.in, g.down, h.in, h.down} \subseteq BOOLEAN /\ g.vhosts \in Nat /\ h.vhosts \in Nat
    BY DEF MailHosts
  <1> DEFINE a == g.vhosts
             b == h.vhosts
             Flip(v) == IF v % 2 = 0 THEN v + 1 ELSE v - 1
  <1>2. ASSUME NEW v \in Nat PROVE v % 2 \in {0, 1} /\ Flip(v) \in Nat /\ Flip(Flip(v)) = v
    OBVIOUS
  <1>3. ASSUME NEW v \in Vhosts, NEW w \in Vhosts PROVE v # Flip(w)
    <2>1. v \in Nat /\ w \in Nat
      BY HostAssumption
    <2>2. CASE w % 2 = 0
      BY <2>1, <2>2 DEF HashTells
    <2>3. CASE w % 2 # 0
      <3>1. w = Flip(w) + 1 /\ Flip(w) % 2 = 0
        BY <2>1, <2>3
      <3> HIDE DEF Flip
      <3> QED BY <3>1 DEF HashTells
    <2> QED BY <2>2, <2>3
  <1>4. /\ mail_hosts_hash(g) = IF ~g.in THEN 1 ELSE 2 + (IF ~g.down THEN a ELSE Flip(a))
        /\ mail_hosts_hash(h) = IF ~h.in THEN 1 ELSE 2 + (IF ~h.down THEN b ELSE Flip(b))
    BY DEF mail_hosts_hash
  <1>5. /\ a \in Nat /\ b \in Nat /\ Flip(a) \in Nat /\ Flip(b) \in Nat
        /\ Flip(Flip(a)) = a /\ Flip(Flip(b)) = b
    BY <1>1, <1>2
  <1>6. g.in /\ h.in => a # Flip(b) /\ b # Flip(a)
    BY <1>1, <1>3
  <1> HIDE DEF Flip
  <1> DEFINE x == IF ~g.down THEN a ELSE Flip(a)
             y == IF ~h.down THEN b ELSE Flip(b)
  <1>7. x \in Nat /\ y \in Nat
    BY <1>5
  <1>8. (IF ~g.in THEN 1 ELSE 2 + x) = (IF ~h.in THEN 1 ELSE 2 + y)
    BY <1>4
  <1>9. (g.in <=> h.in) /\ (g.in => x = y)
    <2> HIDE DEF x, y
    <2> QED BY <1>7, <1>8
  <1>10. ASSUME g.in PROVE a = b /\ g.down = h.down
    <2>1. x = y
      BY <1>9, <1>10
    <2>2. g.down = h.down
      BY <1>1, <1>6, <1>9, <1>10, <2>1
    <2> QED BY <1>5, <2>1, <2>2
  <1> QED BY <1>1, <1>9, <1>10

\* When every director says that the ring is synced, all of them have the same
\* hosts, with the same vhost counts and the same hosts down
\* (director_set_ring_synced(), director_connection_sync_host()), if the vhost
\* counts in use are such that the hash tells the hosts apart.
THEOREM SyncedHostsAgree == HashTells => (HostsSpec => []HostsAgree)
  <1>1. HashTells /\ HostsInv => HostsAgree
    <2> SUFFICES ASSUME HashTells, HostsInv, AllSynced, NEW d \in Ring, NEW e \in Ring
                 PROVE  /\ dirs[d].host.in = dirs[e].host.in
                        /\ dirs[d].host.vhosts = dirs[e].host.vhosts
                        /\ dirs[d].host.down = dirs[e].host.down
      BY DEF HostsAgree
    <2>1. dirs[d].host \in MailHosts /\ dirs[e].host \in MailHosts
      BY DirFields DEF HostsInv, RingHosts
    <2>2. mail_hosts_hash(dirs[d].host) = mail_hosts_hash(dirs[e].host)
      BY DEF HostsInv, RingHosts, Latest, AllSynced, Hash
    <2> QED BY <2>1, <2>2, HashesTell
  <1>2. CASE HashTells
    BY <1>1, <1>2, HostsInvariant, PTL
  <1>3. CASE ~HashTells
    BY <1>3
  <1> QED BY <1>2, <1>3
=============================================================================
