------------------------------ MODULE UserMove ------------------------------
(***************************************************************************)
(* Directors in a ring decide together on which backend a user is, and     *)
(* move a user to another backend: every director kills the user's         *)
(* connections, and none lets the user log in until all have (director.c,  *)
(* director-connection.c, director-request.c).                             *)
(*                                                                         *)
(* The ring is handshaked and stays connected, and one username hash is    *)
(* modelled: users of other hashes do not touch it.  The user is neither   *)
(* weak nor near its expiry.                                               *)
(***************************************************************************)
EXTENDS Integers, Sequences, FiniteSets

CONSTANTS
  N,            \* number of directors
  Hosts,        \* backends, numbered in the order of their IPs
  DefaultHost,  \* mail_host_get_by_hash() of the user
  FlushSocket,  \* whether director_flush_socket is set
  Env,          \* the events the environment may cause
  MaxMoves,     \* bound on commands that move or flush the user
  MaxLogins     \* bound on logins

\* RESET: "doveadm director flush" moves a user that may be moving already.
\* HOST_FLUSH: users are dropped.  KILL_FAIL: the login processes cannot be
\* told to kill connections.  TIMEOUT: a move takes longer than 30 seconds,
\* TIMEOUT_BUSY: also while a callback is pending.  SLOW: a USER message is
\* on its way for longer than director_user_kick_delay.  REFRESH: a USER
\* comes in a later second than the last one.
Events == {"RESET", "HOST_FLUSH", "KILL_FAIL", "TIMEOUT", "TIMEOUT_BUSY",
           "SLOW", "REFRESH"}

Directors == 0..(N - 1)
NoHost == 0

ASSUME MoveAssumption ==
  /\ N \in Nat \ {0}
  /\ Hosts \subseteq Nat \ {NoHost}
  /\ DefaultHost \in Hosts
  /\ FlushSocket \in BOOLEAN
  /\ Env \subseteq Events
  /\ MaxMoves \in Nat /\ MaxLogins \in Nat

VARIABLES
  host,      \* user->host, or NoHost when the director does not know the user
  kill,      \* user->kill_ctx
  orphans,   \* kill contexts with a pending callback whose user was freed
  moving,    \* users_moving_count
  last_seq,  \* last_seq of every director as this director knows it
  conns,     \* backends to which this director's login processes proxy
  kicks,     \* KICK-DIRECTOR-HASH commands under way: the excepted hosts
  link,      \* messages on the way to the right and to the left neighbour
  fault,     \* history: the assertion that failed, if one did
  moves, logins

vars == <<host, kill, orphans, moving, last_seq, conns, kicks, link,
          fault, moves, logins>>

KillStates == {"none", "killing", "killing_notify", "waiting_notify",
               "waiting_everyone", "flushing", "delay"}
\* self: kill_is_self_initiated; old: old_host_ip is set; pending:
\* callback_pending.
KillRec == [state : KillStates, self : BOOLEAN, old : BOOLEAN,
            pending : BOOLEAN]
NoKill == [state |-> "none", self |-> FALSE, old |-> FALSE, pending |-> FALSE]

USER_IS_BEING_KILLED(d) == kill[d].state # "none"

Sides == {"right", "left"}
Opposite(side) == IF side = "right" THEN "left" ELSE "right"
Peer(d, side) == IF side = "right" THEN (d + 1) % N ELSE (d + N - 1) % N

\* A message; orig and seq are there for the commands that must not be
\* handled twice, h for those that name a host.
Msg(cmd, orig, seq, h) == [cmd |-> cmd, orig |-> orig, seq |-> seq, h |-> h]
Killed == {"USER-KILLED", "USER-KILLED-EVERYWHERE"}
Commands == {"USER", "USER-MOVE", "USER-KILLED", "USER-KILLED-EVERYWHERE",
             "USER-KICK-HASH", "HOST-FLUSH"}
MsgRec ==
  [cmd : Commands \ Killed, orig : Directors, seq : Nat, h : Hosts]
    \union [cmd : Killed, orig : Directors, seq : Nat, h : {NoHost}]
USER(d, h) == Msg("USER", d, 0, h)
USER_KILLED(d) == Msg("USER-KILLED", d, 0, NoHost)

-----------------------------------------------------------------------------
(* Sending                                                                 *)

\* director_connection_send(dir->right)
SendRight(l, d, m) == [l EXCEPT ![d]["right"] = Append(@, m)]

\* director_update_send(): to every connection but those of src.
director_update_send(l, d, src, m) ==
  [l EXCEPT ![d] = [side \in Sides |->
                      IF N = 1 \/ (Peer(d, side) = src /\ src # d) THEN l[d][side]
                      ELSE Append(l[d][side], m)]]

\* last_seq when d starts a command of its own, and its number.
NextSeq(d) == [last_seq EXCEPT ![d][d] = @ + 1]
OwnSeq(d) == last_seq[d][d] + 1

-----------------------------------------------------------------------------
(* Kill contexts                                                           *)

\* director_flush_user(): FLUSHING while the flush script runs.  A script
\* that cannot even be started is FlushContinue with result 0.
director_flush_user(k) ==
  IF FlushSocket /\ k.old /\ k.self
  THEN [k EXCEPT !.state = "flushing", !.pending = TRUE]
  ELSE [k EXCEPT !.state = "delay"]

\* Mutants: the left side is not waited for; its notice is forgotten.
FinishKillNoWait(k, self) ==
  IF N = 1 THEN director_flush_user(k)
  ELSE [k EXCEPT !.state = "waiting_everyone"]
FinishKillForgets(k, self) ==
  IF N = 1 THEN director_flush_user(k)
  ELSE [k EXCEPT !.state = IF self THEN "waiting_everyone" ELSE "waiting_notify"]

director_finish_user_kill(k, self) ==
  IF N = 1 THEN director_flush_user(k)
  ELSE [k EXCEPT !.state = IF self \/ k.state = "killing_notify"
                           THEN "waiting_everyone" ELSE "waiting_notify"]

\* The assertions in director_finish_user_kill().
FinishAssert(k, self) ==
  /\ k.state \notin {"flushing", "delay"}
  /\ N = 1 \/ self \/ k.state \in {"killing_notify", "killing"}

\* A context that has just got to waiting_everyone tells the right side.
Announced(l, d, k) ==
  IF k.state = "waiting_everyone" THEN SendRight(l, d, USER_KILLED(d)) ELSE l

\* Mutant: the kill counts as done when it has been asked for.
KillUserEager(l, d, src, old, h) ==
  IF USER_IS_BEING_KILLED(d)
  THEN link' = l /\ UNCHANGED <<kill, moving>>
  ELSE LET k == director_finish_user_kill(
                  [state |-> "killing", self |-> src = d, old |-> old # NoHost,
                   pending |-> old \notin {NoHost, h}], src = d)
       IN  /\ kill' = [kill EXCEPT ![d] = k]
           /\ moving' = [moving EXCEPT ![d] = @ + 1]
           /\ link' = Announced(l, d, k)

\* director_kill_user() of the user that is now on h and was on old; the
\* links are l before it.  forced_kick is for a director without any host.
director_kill_user(l, d, src, old, h) ==
  IF USER_IS_BEING_KILLED(d)
  THEN link' = l /\ UNCHANGED <<kill, moving>>
  ELSE LET kick == old \notin {NoHost, h}
           ctx == [state |-> "killing", self |-> src = d, old |-> old # NoHost,
                   pending |-> kick]
           k == IF kick THEN ctx ELSE director_finish_user_kill(ctx, ctx.self)
       IN  /\ kill' = [kill EXCEPT ![d] = k]
           /\ moving' = [moving EXCEPT ![d] = @ + 1]
           /\ link' = Announced(l, d, k)

\* director_user_move_free() and director_user_move_finished()
director_user_move_free(d) ==
  /\ kill' = [kill EXCEPT ![d] = NoKill]
  /\ moving' = [moving EXCEPT ![d] = @ - 1]
  /\ fault' = IF moving[d] > 0 THEN fault ELSE "moving_count"

\* director_move_user() with the command's number already in last_seq; the
\* message goes on to everyone but src.
director_move_user(l, d, src, orig, seq, h) ==
  /\ host' = [host EXCEPT ![d] = h]
  /\ director_kill_user(
       director_update_send(l, d, src, Msg("USER-MOVE", orig, seq, h)),
       d, src, host[d], h)

\* Mutants: the context is finished although a callback will finish it again;
\* the user's context is freed without a look at it.
UserFreedTwice(d) ==
  /\ host' = [host EXCEPT ![d] = NoHost]
  /\ orphans' = IF kill[d].pending THEN [orphans EXCEPT ![d].kill = @ + 1]
                ELSE orphans
  /\ IF USER_IS_BEING_KILLED(d) THEN director_user_move_free(d)
     ELSE UNCHANGED <<kill, moving, fault>>
UserFreedBlindly(d) ==
  /\ host' = [host EXCEPT ![d] = NoHost]
  /\ director_user_move_free(d)
  /\ UNCHANGED orphans

\* The contexts in o and k.
Orphaned(o, k) ==
  IF k.state = "flushing" THEN [o EXCEPT !.flush = @ + 1]
  ELSE [o EXCEPT !.kill = @ + 1]

\* director_user_freed(): the user is freed, its context stays if a callback
\* still has it as its parameter.
director_user_freed(d) ==
  /\ host' = [host EXCEPT ![d] = NoHost]
  /\ IF kill[d].pending
     THEN /\ orphans' = [orphans EXCEPT ![d] = Orphaned(@, kill[d])]
          /\ kill' = [kill EXCEPT ![d] = NoKill]
          /\ UNCHANGED <<moving, fault>>
     ELSE /\ UNCHANGED orphans
          /\ IF USER_IS_BEING_KILLED(d) THEN director_user_move_free(d)
             ELSE UNCHANGED <<kill, moving, fault>>

\* director_flush_host(): user_directory_remove_host() frees the user if it
\* is on h.
director_flush_host(l, d, src, orig, seq, h) ==
  /\ link' = director_update_send(l, d, src, Msg("HOST-FLUSH", orig, seq, h))
  /\ IF host[d] = h THEN director_user_freed(d)
     ELSE UNCHANGED <<host, kill, orphans, moving, fault>>
-----------------------------------------------------------------------------
(* Messages from the ring                                                  *)

\* director_cmd_is_seen()
Seen(d, m) == m.seq <= last_seq[d][m.orig]
MarkSeen(d, m) == last_seq' = [last_seq EXCEPT ![d][m.orig] = m.seq]

\* Mutant: the directors agree on a host, but nobody is kicked.
RecvUserNoKick(l, d, src, m) ==
  LET conflict == /\ host[d] \notin {NoHost, m.h}
                  /\ ~USER_IS_BEING_KILLED(d)
      h == IF host[d] = NoHost \/ (conflict /\ host[d] > m.h) THEN m.h ELSE host[d]
  IN  /\ host' = [host EXCEPT ![d] = h]
      /\ link' = IF host[d] = NoHost \/ conflict
                 THEN director_update_send(l, d, d, USER(d, h)) ELSE l
      /\ UNCHANGED <<kill, orphans, moving, last_seq, conns, kicks, fault>>

\* USER: director_user_refresh() and the forwarding of director_cmd_user().
\* Two directors that put the user on different hosts agree on the lower IP.
\* A USER that changes nothing is forwarded if it refreshes the timestamp.
RecvUser(l, d, src, m) ==
  LET conflict == /\ host[d] \notin {NoHost, m.h}
                  /\ ~USER_IS_BEING_KILLED(d)
      forced == conflict /\ host[d] > m.h
      h == IF host[d] = NoHost \/ forced THEN m.h ELSE host[d]
      kicked == IF conflict
                THEN director_update_send(l, d, d,
                       Msg("USER-KICK-HASH", d, OwnSeq(d), h))
                ELSE l
  IN  /\ host' = [host EXCEPT ![d] = h]
      /\ last_seq' = IF conflict THEN NextSeq(d) ELSE last_seq
      /\ kicks' = IF conflict THEN [kicks EXCEPT ![d] = @ \union {h}] ELSE kicks
      /\ \E refresh \in {FALSE, "REFRESH" \in Env} :
           link' = IF host[d] = NoHost \/ conflict \/ refresh
                   THEN director_update_send(kicked, d, IF forced THEN d ELSE src,
                                             USER(d, h))
                   ELSE l
      /\ UNCHANGED <<kill, orphans, moving, conns, fault>>

RecvUserMove(l, d, src, m) ==
  IF Seen(d, m)
  THEN /\ link' = l
       /\ UNCHANGED <<host, kill, orphans, moving, last_seq, conns,
                      kicks, fault>>
  ELSE /\ MarkSeen(d, m)
       /\ director_move_user(l, d, src, m.orig, m.seq, m.h)
       /\ UNCHANGED <<orphans, conns, kicks, fault>>

\* USER-KILLED: director_user_tag_killed().  A director whose kill is over
\* answers with USER-KILLED-EVERYWHERE; the one that waits for everyone
\* knows now that everyone is done.
RecvUserKilled(l, d) ==
  LET everywhere == director_update_send(l, d, d,
                      Msg("USER-KILLED-EVERYWHERE", d, OwnSeq(d), NoHost))
      k == kill[d]
      finished == director_finish_user_kill(k, TRUE)
  IN  /\ CASE k.state = "killing" ->
                /\ kill' = [kill EXCEPT ![d].state = "killing_notify"]
                /\ link' = l /\ UNCHANGED <<last_seq, fault>>
           [] k.state = "waiting_notify" ->
                /\ kill' = [kill EXCEPT ![d] = finished]
                /\ link' = Announced(l, d, finished)
                /\ fault' = IF FinishAssert(k, TRUE) THEN fault ELSE "finish_kill"
                /\ UNCHANGED last_seq
           [] k.state \in {"flushing", "delay"} ->
                /\ link' = everywhere /\ last_seq' = NextSeq(d)
                /\ UNCHANGED <<kill, fault>>
           [] k.state = "waiting_everyone" ->
                /\ kill' = [kill EXCEPT ![d] = director_flush_user(k)]
                /\ link' = everywhere /\ last_seq' = NextSeq(d)
                /\ UNCHANGED fault
           [] k.state \in {"none", "killing_notify"} ->
                /\ link' = l /\ UNCHANGED <<kill, last_seq, fault>>
      /\ UNCHANGED <<host, orphans, moving, conns, kicks>>

\* USER-KILLED-EVERYWHERE: only a director that waits for it forwards it.
RecvKilledEverywhere(l, d, src, m) ==
  /\ IF Seen(d, m) THEN UNCHANGED last_seq ELSE MarkSeen(d, m)
  /\ IF ~Seen(d, m) /\ kill[d].state = "waiting_everyone"
     THEN /\ kill' = [kill EXCEPT ![d] = director_flush_user(@)]
          /\ link' = director_update_send(l, d, src, m)
     ELSE link' = l /\ UNCHANGED kill
  /\ UNCHANGED <<host, orphans, moving, conns, kicks, fault>>

\* USER-KICK-HASH: director_kick_user_hash()
RecvKickHash(l, d, src, m) ==
  /\ IF Seen(d, m)
     THEN link' = l /\ UNCHANGED <<last_seq, kicks>>
     ELSE /\ MarkSeen(d, m)
          /\ kicks' = [kicks EXCEPT ![d] = @ \union {m.h}]
          /\ link' = director_update_send(l, d, src, m)
  /\ UNCHANGED <<host, kill, orphans, moving, conns, fault>>

RecvHostFlush(l, d, src, m) ==
  IF Seen(d, m)
  THEN /\ link' = l
       /\ UNCHANGED <<host, kill, orphans, moving, last_seq, conns,
                      kicks, fault>>
  ELSE /\ MarkSeen(d, m)
       /\ director_flush_host(l, d, src, m.orig, m.seq, m.h)
       /\ UNCHANGED <<conns, kicks>>

\* d reads the next command from its neighbour on one side.
Receive(d, side) ==
  LET src == Peer(d, side)
      q == link[src][Opposite(side)]
      m == Head(q)
      l == [link EXCEPT ![src][Opposite(side)] = Tail(q)]
  IN  /\ q # <<>>
      /\ CASE m.cmd = "USER" -> RecvUser(l, d, src, m)
           [] m.cmd = "USER-MOVE" -> RecvUserMove(l, d, src, m)
           [] m.cmd = "USER-KILLED" -> RecvUserKilled(l, d)
           [] m.cmd = "USER-KILLED-EVERYWHERE" -> RecvKilledEverywhere(l, d, src, m)
           [] m.cmd = "USER-KICK-HASH" -> RecvKickHash(l, d, src, m)
           [] m.cmd = "HOST-FLUSH" -> RecvHostFlush(l, d, src, m)
      /\ UNCHANGED <<moves, logins>>

-----------------------------------------------------------------------------
(* Logins and administrators                                               *)

InFlight(cmd) ==
  {m \in UNION {{link[d][side][i] : i \in DOMAIN link[d][side]} :
                  d \in Directors, side \in Sides} : m.cmd = cmd}

\* director_request_continue(): the login process proxies to the user's
\* host.  A user that is being killed has to wait, and a new user until the
\* ring is synced, which it is not while a HOST-FLUSH goes round.
Login(d) ==
  /\ logins < MaxLogins /\ logins' = logins + 1
  /\ ~USER_IS_BEING_KILLED(d)
  /\ host[d] = NoHost => InFlight("HOST-FLUSH") = {}
  /\ LET h == IF host[d] = NoHost THEN DefaultHost ELSE host[d]
     IN  /\ host' = [host EXCEPT ![d] = h]
         /\ conns' = [conns EXCEPT ![d] = @ \union {h}]
         /\ link' = director_update_send(link, d, d, USER(d, h))
  /\ UNCHANGED <<kill, orphans, moving, last_seq, kicks, fault, moves>>

\* "doveadm director move".  A user that is being killed is TRYAGAIN.
doveadm_cmd_user_move(d, h) ==
  /\ moves < MaxMoves /\ moves' = moves + 1
  /\ ~USER_IS_BEING_KILLED(d)
  /\ IF host[d] = h
     THEN /\ link' = director_update_send(link, d, d, USER(d, h))
          /\ UNCHANGED <<host, kill, moving, last_seq>>
     ELSE /\ last_seq' = NextSeq(d)
          /\ director_move_user(link, d, d, d, OwnSeq(d), h)
  /\ UNCHANGED <<orphans, conns, kicks, fault, logins>>

\* director_host_reset_users(): the user belongs to another host by now, and
\* is moved there even if it is moving already.
director_host_reset_users(d, h) ==
  /\ "RESET" \in Env /\ moves < MaxMoves /\ moves' = moves + 1
  /\ host[d] \notin {NoHost, h}
  /\ last_seq' = NextSeq(d)
  /\ director_move_user(link, d, d, d, OwnSeq(d), h)
  /\ UNCHANGED <<orphans, conns, kicks, fault, logins>>

\* "doveadm director flush -F"
doveadm_cmd_host_flush(d, h) ==
  /\ "HOST_FLUSH" \in Env /\ moves < MaxMoves /\ moves' = moves + 1
  /\ last_seq' = NextSeq(d)
  /\ director_flush_host(link, d, d, d, OwnSeq(d), h)
  /\ UNCHANGED <<conns, kicks, logins>>

-----------------------------------------------------------------------------
(* Callbacks and timers                                                    *)

\* director_kill_user_callback() while the context is the user's.  By now
\* the login processes have dropped the user's connections, unless they
\* could not be reached.
director_kill_user_callback(d, ok) ==
  LET k == kill[d]
      finished == director_finish_user_kill([k EXCEPT !.pending = FALSE], k.self)
  IN  /\ k.pending /\ k.state # "flushing"
      /\ ok \/ "KILL_FAIL" \in Env
      /\ conns' = IF ok THEN [conns EXCEPT ![d] = {}] ELSE conns
      /\ kill' = [kill EXCEPT ![d] = finished]
      /\ link' = Announced(link, d, finished)
      /\ fault' = IF /\ k.state \in {"killing", "killing_notify"}
                     /\ FinishAssert(k, k.self)
                  THEN fault ELSE "kill_callback"
      /\ UNCHANGED <<host, orphans, moving, last_seq, kicks, moves, logins>>

\* The same with the context of a freed user.
KillCallbackOrphan(d) ==
  /\ orphans[d].kill > 0
  /\ orphans' = [orphans EXCEPT ![d].kill = @ - 1]
  /\ moving' = [moving EXCEPT ![d] = @ - 1]
  /\ fault' = IF moving[d] > 0 THEN fault ELSE "moving_count"
  /\ \E left \in SUBSET conns[d] : conns' = [conns EXCEPT ![d] = left]
  /\ UNCHANGED <<host, kill, last_seq, kicks, link, moves, logins>>

\* The same with a context that the move timeout has freed.
KillCallbackFreed(d) ==
  /\ orphans[d].freed > 0
  /\ orphans' = [orphans EXCEPT ![d].freed = @ - 1]
  /\ fault' = "use_after_free"
  /\ \E left \in SUBSET conns[d] : conns' = [conns EXCEPT ![d] = left]
  /\ UNCHANGED <<host, kill, moving, last_seq, kicks, link, moves, logins>>

\* director_flush_user_continue(): skip_delay if the flush script says so.
director_flush_user_continue(d, skip_delay) ==
  /\ kill[d].state = "flushing"
  /\ IF skip_delay THEN director_user_move_free(d)
     ELSE /\ kill' = [kill EXCEPT ![d].state = "delay", ![d].pending = FALSE]
          /\ UNCHANGED <<moving, fault>>
  /\ UNCHANGED <<host, orphans, last_seq, conns, kicks, link, moves, logins>>

\* The same with the context of a freed user.
FlushContinueOrphan(d) ==
  /\ orphans[d].flush > 0
  /\ orphans' = [orphans EXCEPT ![d].flush = @ - 1]
  /\ UNCHANGED <<host, kill, moving, last_seq, conns, kicks, link,
                 fault, moves, logins>>

\* No USER message that places the user elsewhere is still under way.
Settled(d) == \A m \in InFlight("USER") : m.h = host[d]

director_user_kill_finish_delayed_to(d) ==
  /\ kill[d].state = "delay"
  /\ Settled(d) \/ "SLOW" \in Env
  /\ director_user_move_free(d)
  /\ UNCHANGED <<host, orphans, last_seq, conns, kicks, link, moves, logins>>

\* The flush script is stopped; the login processes' answer may still come.
director_user_move_timeout(d) ==
  LET busy == kill[d].pending /\ kill[d].state # "flushing"
  IN  /\ USER_IS_BEING_KILLED(d) /\ kill[d].state # "delay"
      /\ "TIMEOUT_BUSY" \in Env \/ ("TIMEOUT" \in Env /\ ~busy)
      /\ director_user_move_free(d)
      /\ orphans' = IF busy THEN [orphans EXCEPT ![d].freed = @ + 1] ELSE orphans
      /\ UNCHANGED <<host, last_seq, conns, kicks, link, moves, logins>>

\* The login processes drop the user's connections but those to h.
KICK_DIRECTOR_HASH(d, h) ==
  /\ h \in kicks[d]
  /\ kicks' = [kicks EXCEPT ![d] = @ \ {h}]
  /\ conns' = [conns EXCEPT ![d] = @ \intersect {h}]
  /\ UNCHANGED <<host, kill, orphans, moving, last_seq, link, fault,
                 moves, logins>>

Init ==
  /\ host = [d \in Directors |-> NoHost]
  /\ kill = [d \in Directors |-> NoKill]
  /\ orphans = [d \in Directors |-> [kill |-> 0, flush |-> 0, freed |-> 0]]
  /\ moving = [d \in Directors |-> 0]
  /\ last_seq = [d \in Directors |-> [e \in Directors |-> 0]]
  /\ conns = [d \in Directors |-> {}]
  /\ kicks = [d \in Directors |-> {}]
  /\ link = [d \in Directors |-> [side \in Sides |-> <<>>]]
  /\ fault = "none" /\ moves = 0 /\ logins = 0

Answer(d) ==
  \/ \E ok \in BOOLEAN : director_kill_user_callback(d, ok)
  \/ \E skip_delay \in BOOLEAN : director_flush_user_continue(d, skip_delay)

Admin(d) ==
  \E h \in Hosts : \/ doveadm_cmd_user_move(d, h)
                   \/ director_host_reset_users(d, h)
                   \/ doveadm_cmd_host_flush(d, h)

Late(d) == KillCallbackOrphan(d) \/ KillCallbackFreed(d) \/ FlushContinueOrphan(d)

Kicked(d) == \E h \in Hosts : KICK_DIRECTOR_HASH(d, h)

Next ==
  \E d \in Directors :
    \/ \E side \in Sides : Receive(d, side)
    \/ Login(d) \/ Admin(d) \/ Answer(d) \/ Late(d) \/ Kicked(d)
    \/ director_user_kill_finish_delayed_to(d)
    \/ director_user_move_timeout(d)

Spec == Init /\ [][Next]_vars

\* The links deliver, the login processes and the flush script answer, and
\* timers fire.
Fairness ==
  \A d \in Directors :
    /\ \A side \in Sides : WF_vars(Receive(d, side))
    /\ WF_vars(Answer(d)) /\ WF_vars(Late(d)) /\ WF_vars(Kicked(d))
    /\ WF_vars(director_user_kill_finish_delayed_to(d))
    /\ WF_vars(director_user_move_timeout(d))

FairSpec == Spec /\ Fairness

-----------------------------------------------------------------------------
(* Properties                                                              *)

MoveTypeOK ==
  /\ host \in [Directors -> Hosts \union {NoHost}]
  /\ kill \in [Directors -> KillRec]
  /\ orphans \in [Directors -> [kill : Nat, flush : Nat, freed : Nat]]
  /\ moving \in [Directors -> Nat]
  /\ last_seq \in [Directors -> [Directors -> Nat]]
  /\ conns \in [Directors -> SUBSET Hosts]
  /\ kicks \in [Directors -> SUBSET Hosts]
  /\ link \in [Directors -> [Sides -> Seq(MsgRec)]]
  /\ fault \in {"none", "moving_count", "finish_kill", "kill_callback",
                "use_after_free"}
  /\ moves \in Nat /\ logins \in Nat

\* "don't allow new connections until all directors have killed the user's
\* connections" (struct user): the user never has connections to two backends.
OneBackend ==
  \A d, e \in Directors : \A g \in conns[d], h \in conns[e] : g = h

\* No assertion of director_finish_user_kill(), director_kill_user_callback()
\* or director_user_move_finished() fails, whatever events meet a kill.
MoveAsserts == fault \in {"none", "use_after_free"}

\* No move goes uncounted: director_user_move_finished() finds users_moving_count
\* positive whenever a context ends, however it ends.
NoMoveUncounted ==
  \A d \in Directors :
    moving[d] >= (IF USER_IS_BEING_KILLED(d) THEN 1 ELSE 0) + orphans[d].kill

Quiet ==
  \A d \in Directors : /\ ~USER_IS_BEING_KILLED(d) /\ kicks[d] = {}
                       /\ \A side \in Sides : link[d][side] = <<>>

\* When no message, kick or move is under way, all live connections go to
\* one backend, and no director that has some thinks the user is elsewhere:
\* directors that disagree settle it when the next USER comes round
\* (director_user_refresh: "we want all the directors to redirect the user to
\* same server").
QuietAgreement ==
  Quiet => /\ OneBackend
           /\ \A d \in Directors : \A h \in conns[d] : host[d] \in {NoHost, h}

\* A move ends everywhere.
MoveFinishes ==
  \A d \in Directors : USER_IS_BEING_KILLED(d) ~> ~USER_IS_BEING_KILLED(d)
=============================================================================
