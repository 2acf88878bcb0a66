------------------------------ MODULE HostSync ------------------------------
(***************************************************************************)
(* How the directors agree on the mail hosts (director.c,                  *)
(* director-connection.c, mail-host.c, the HOST commands of                *)
(* doveadm-connection.c).  A change is sent both ways around the ring; the *)
(* director then sends a SYNC to the right, which every director passes on *)
(* if its hosts have the same hash, and is synced when the SYNC is back.   *)
(*                                                                         *)
(* The ring is complete and stays connected.  One mail host changes, the   *)
(* others do not: their lines, which change nothing, are left out.  The    *)
(* clocks of the directors agree.  A SYNC is repeated only by its      *)
(* timeout, seconds later, and SYNCs of a director stay in order, so the   *)
(* timestamp in it always is newer than the last one and is left out.      *)
(***************************************************************************)
EXTENDS Integers, Sequences

CONSTANTS
  RingSize,
  Vhosts,       \* vhost counts
  HostCmds,     \* the doveadm commands: "SET", "UPDOWN", "REMOVE"
  MaxClock,     \* bound on time
  MaxHostCmds,  \* bound on doveadm commands
  MaxResyncs,   \* bound on SYNC timeouts of a director
  MaxLines      \* bound on lines in a connection

ASSUME HostAssumption ==
  /\ RingSize \in Nat \ {0, 1} /\ Vhosts \subseteq Nat /\ Vhosts # {}
  /\ HostCmds \subseteq {"SET", "UPDOWN", "REMOVE"}
  /\ MaxClock \in Nat /\ MaxHostCmds \in Nat /\ MaxResyncs \in Nat
  /\ MaxLines \in Nat

VARIABLES
  dirs,         \* struct director of every director, and the lines it has sent
  clock,        \* ioloop_time
  cmds,         \* history: the commands given
  resyncs,      \* SYNC timeouts of each director
  surprised     \* history: "Hosts unexpectedly changed during SYNC reply"

hsVars == <<dirs, clock, cmds, resyncs, surprised>>

Ring == 1..RingSize
RingSides == {"left", "right"}
Neighbour(d, side) ==
  IF side = "right" THEN IF d = RingSize THEN 1 ELSE d + 1
  ELSE IF d = 1 THEN RingSize ELSE d - 1
OtherSide(side) == IF side = "left" THEN "right" ELSE "left"

NoMailHost == [in |-> FALSE, vhosts |-> 0, down |-> FALSE, at |-> 0, desynced |-> FALSE]
HOST(o, seq, h) ==
  [cmd |-> "HOST", from |-> o, seq |-> seq, vhosts |-> h.vhosts, down |-> h.down, at |-> h.at]
HOST_REMOVE(o, seq) == [cmd |-> "HOST-REMOVE", from |-> o, seq |-> seq]
SyncLine(o, seq, hash) == [cmd |-> "SYNC", from |-> o, seq |-> seq, hash |-> hash]

\* mail_hosts_sort(): the down flag is XORed into the vhost count.  1 stands for
\* the hash of the other hosts, so it never is 0, which would match any hosts.
mail_hosts_hash(h) ==
  IF ~h.in THEN 1
  ELSE 2 + (IF ~h.down THEN h.vhosts
            ELSE IF h.vhosts % 2 = 0 THEN h.vhosts + 1 ELSE h.vhosts - 1)

HostsInit ==
  /\ \E v \in Vhosts :
       dirs = [d \in Ring |->
         [host |-> [NoMailHost EXCEPT !.in = TRUE, !.vhosts = v],
          last_seq |-> [o \in Ring |-> 0],       \* director_host->last_seq of o
          bad_hash |-> [o \in Ring |-> 0],       \* its desynced_hosts_hash
          sync_seq |-> 0, ring_synced |-> TRUE,
          frozen |-> FALSE, pending |-> FALSE,   \* sync_frozen, sync_pending
          out |-> [side \in RingSides |-> <<>>]]]
  /\ clock = 1 /\ cmds = <<>> /\ resyncs = [d \in Ring |-> 0] /\ surprised = FALSE

-----------------------------------------------------------------------------
(* Operations on s, the state of director d.                               *)

\* director_update_send(): to every connection but those to src.
HostUpdateSend(s, d, src, line) ==
  [s EXCEPT !.out = [side \in RingSides |->
     IF Neighbour(d, side) = src THEN @[side] ELSE Append(@[side], line)]]

director_sync_send(s, line) == [s EXCEPT !.out["right"] = Append(@, line)]

OwnSync(s, d) == SyncLine(d, s.sync_seq, mail_hosts_hash(s.host))

\* Mutant: a director that is unsynced already keeps its sequence.
SyncSameSeq(s, d) ==
  LET new == [s EXCEPT !.sync_seq = IF s.ring_synced THEN @ + 1 ELSE @,
                       !.ring_synced = FALSE, !.pending = s.frozen]
  IN  IF s.frozen THEN new ELSE director_sync_send(new, OwnSync(new, d))

director_sync(s, d) ==
  LET new == [s EXCEPT !.sync_seq = @ + 1, !.ring_synced = FALSE, !.pending = s.frozen]
  IN  IF s.frozen THEN new ELSE director_sync_send(new, OwnSync(new, d))

director_sync_freeze(s) == [s EXCEPT !.frozen = TRUE]
director_sync_thaw(s, d) ==
  LET thawed == [s EXCEPT !.frozen = FALSE, !.pending = FALSE]
  IN  IF s.pending THEN director_sync(thawed, d) ELSE thawed

NextLastSeq(s, d) == [s EXCEPT !.last_seq[d] = @ + 1]

\* director_update_host(): a line of director o that came from src is passed on, a
\* change of our own (o = d = src) is sent with a new sequence.
director_update_host(s, d, src, o, h) ==
  LET s1 == IF o = d THEN NextLastSeq(s, d) ELSE s
      s2 == HostUpdateSend(s1, d, src, HOST(o, s1.last_seq[o], h))
  IN  director_sync([s2 EXCEPT !.host = [h EXCEPT !.desynced = TRUE]], d)

director_remove_host(s, d, src, o) ==
  LET s1 == IF o = d THEN NextLastSeq(s, d) ELSE s
      s2 == HostUpdateSend(s1, d, src, HOST_REMOVE(o, s1.last_seq[o]))
  IN  director_sync([s2 EXCEPT !.host = NoMailHost], d)

\* Mutant: the hosts are sent again with the old sequence.
ResendHostsSameSeq(s, d) ==
  IF s.host.in THEN HostUpdateSend(s, d, d, HOST(d, s.last_seq[d], s.host)) ELSE s

director_resend_hosts(s, d) ==
  LET s1 == NextLastSeq(s, d)
  IN  IF s.host.in THEN HostUpdateSend(s1, d, d, HOST(d, s1.last_seq[d], s.host)) ELSE s

-----------------------------------------------------------------------------
(* doveadm.                                                                *)

HostCommand(name, d, s) ==
  /\ name \in HostCmds /\ Len(cmds) < MaxHostCmds
  /\ cmds' = Append(cmds, name)
  /\ dirs' = [dirs EXCEPT ![d] = s]
  /\ UNCHANGED <<resyncs, surprised>>

\* HOST-SET and HOST-UPDATE
doveadm_cmd_host_set(d, v) ==
  LET h == dirs[d].host
  IN  /\ ~h.desynced
      /\ HostCommand("SET", d,
           director_update_host(dirs[d], d, d, d, [h EXCEPT !.in = TRUE, !.vhosts = v]))
      /\ UNCHANGED clock

\* mail_host_set_down() keeps the time of the change; time may have passed.
doveadm_cmd_host_updown(d) ==
  LET h == dirs[d].host
  IN  /\ h.in /\ ~h.desynced
      /\ clock' \in {clock, clock + 1} /\ clock' <= MaxClock
      /\ HostCommand("UPDOWN", d,
           director_update_host(dirs[d], d, d, d, [h EXCEPT !.down = ~@, !.at = clock']))

doveadm_cmd_host_remove(d) ==
  /\ dirs[d].host.in
  /\ HostCommand("REMOVE", d, director_remove_host(dirs[d], d, d, d))
  /\ UNCHANGED clock

-----------------------------------------------------------------------------
(* Lines from a neighbour src: the state of d after line m.                *)

\* director_cmd_host_int(): the received state merged with an update of ours that
\* the ring has not synced yet.
Merged(h, m) ==
  LET ours == h.down # m.down /\ h.at > m.at
  IN  [vhosts |-> IF m.vhosts < h.vhosts THEN m.vhosts ELSE h.vhosts,
       down |-> IF ours THEN h.down ELSE m.down,
       at |-> IF m.at > h.at THEN m.at ELSE h.at]

\* mail_host_set_down(), mail_host_set_vhost_count()
Changed(h, u) ==
  [h EXCEPT !.in = TRUE, !.vhosts = u.vhosts, !.down = u.down,
            !.at = IF h.down # u.down THEN u.at ELSE @]

director_cmd_is_seen(s, m) == m.seq <= s.last_seq[m.from]
HostSeen(s, m) == [s EXCEPT !.last_seq[m.from] = m.seq]

director_cmd_host(s, d, src, m) ==
  LET h == s.host
      update == ~h.in \/ h.vhosts # m.vhosts \/ h.down # m.down
  IN  IF ~update THEN s
      ELSE IF h.desynced THEN director_update_host(s, d, d, d, Changed(h, Merged(h, m)))
      ELSE director_update_host(s, d, src, m.from, Changed(h, m))

director_cmd_host_remove(s, d, src, m) ==
  IF s.host.in THEN director_remove_host(s, d, src, m.from) ELSE s

\* director_connection_sync_host(): our own SYNC is back.
\* director_set_ring_synced() with mail_hosts_set_synced().
SyncBack(s, d, m) ==
  CASE m.seq # s.sync_seq -> s
    [] m.seq = s.sync_seq /\ m.hash # mail_hosts_hash(s.host) ->
         IF s.ring_synced THEN s ELSE director_sync_send(s, OwnSync(s, d))
    [] OTHER -> IF s.ring_synced THEN s
                ELSE [s EXCEPT !.ring_synced = TRUE, !.host.desynced = FALSE]

\* Mutant: the hosts are not compared.
SyncPassesUnchecked(s, d, m) == director_sync_send(s, m)

\* Somebody else's SYNC.  The hosts are sent again when the same wrong hash comes
\* twice.
SyncPasses(s, d, m) ==
  CASE m.hash = mail_hosts_hash(s.host) ->
         director_sync_send([s EXCEPT !.bad_hash[m.from] = 0], m)
    [] m.hash # mail_hosts_hash(s.host) /\ m.hash = s.bad_hash[m.from] ->
         director_resend_hosts(s, d)
    [] OTHER -> [s EXCEPT !.bad_hash[m.from] = m.hash]

director_connection_handle_line(s, d, src, m) ==
  CASE m.cmd = "SYNC" -> IF m.from = d THEN SyncBack(s, d, m) ELSE SyncPasses(s, d, m)
    [] m.cmd # "SYNC" /\ director_cmd_is_seen(s, m) -> s
    [] m.cmd = "HOST" /\ ~director_cmd_is_seen(s, m) ->
         director_cmd_host(HostSeen(s, m), d, src, m)
    [] OTHER -> director_cmd_host_remove(HostSeen(s, m), d, src, m)

\* The "Hosts unexpectedly changed" error.
Unexpected(s, d, m) ==
  /\ m.cmd = "SYNC" /\ m.from = d /\ m.seq = s.sync_seq
  /\ m.hash # mail_hosts_hash(s.host)

\* Director d after each of the first n lines of pipe, with SYNCs of its own frozen.
Reading(d, src, pipe, n) ==
  LET Read[k \in 0..n] ==
        IF k = 0 THEN director_sync_freeze(dirs[d])
        ELSE director_connection_handle_line(Read[k - 1], d, src, pipe[k])
  IN  Read

\* All the lines that have come, n of them, are read.
director_connection_input(d, side, n) ==
  LET src == Neighbour(d, side)
      pipe == dirs[src].out[OtherSide(side)]
      read == Reading(d, src, pipe, n)
      after == director_sync_thaw(read[n], d)
  IN  /\ n <= Len(pipe)
      /\ \A out \in RingSides : Len(after.out[out]) <= MaxLines
      /\ dirs' = [dirs EXCEPT ![d] = after,
                              ![src].out[OtherSide(side)] = SubSeq(@, n + 1, Len(@))]
      /\ surprised' = (surprised \/ \E k \in 1..n : Unexpected(read[k - 1], d, pipe[k]))
      /\ UNCHANGED <<clock, cmds, resyncs>>

HostsInFlight == \E d \in Ring, side \in RingSides : dirs[d].out[side] # <<>>

\* director_resend_sync() after five seconds, in which every line that was sent has
\* been read.
director_sync_timeout(d) ==
  /\ ~dirs[d].ring_synced /\ ~HostsInFlight /\ resyncs[d] < MaxResyncs
  /\ \A e \in Ring : ~dirs[e].ring_synced => resyncs[d] <= resyncs[e]
  /\ resyncs' = [resyncs EXCEPT ![d] = @ + 1]
  /\ dirs' = [dirs EXCEPT ![d] = director_sync_send(@, OwnSync(@, d))]
  /\ UNCHANGED <<clock, cmds, surprised>>

HostsNext ==
  \E d \in Ring :
    \/ \E v \in Vhosts : doveadm_cmd_host_set(d, v)
    \/ doveadm_cmd_host_updown(d)
    \/ doveadm_cmd_host_remove(d)
    \/ \E side \in RingSides, n \in 1..MaxLines : director_connection_input(d, side, n)
    \/ director_sync_timeout(d)

HostsSpec == HostsInit /\ [][HostsNext]_hsVars

-----------------------------------------------------------------------------
(* Correctness.                                                            *)

AllSynced == \A d \in Ring : dirs[d].ring_synced

\* When every director says that the ring is synced, all of them have the same
\* hosts, with the same vhost counts and the same hosts down, though lines may
\* still be under way: users are hashed to the same backend whichever director
\* they reach.  (director_cmd_host_int() merges concurrent updates, SYNC compares
\* the hashes.)
HostsAgree ==
  AllSynced =>
    \A d, e \in Ring : /\ dirs[d].host.in = dirs[e].host.in /\ dirs[d].host.vhosts = dirs[e].host.vhosts
                       /\ dirs[d].host.down = dirs[e].host.down

\* "Hosts unexpectedly changed during SYNC reply" is never logged: the SYNC that
\* comes back to its director with the current sequence has the hash that the
\* director has now, since every change of the hosts starts a new SYNC.
NoSurprise == ~surprised

\* Vhost and up/down changes never leave the ring unsynced for good: after
\* MaxResyncs rounds of SYNC timeouts, with the hosts resent whenever a SYNC came
\* with a wrong hash twice, every director is synced.  (A removed host that an old
\* HOST line brings back is not removed by resending, hence the restriction.)
NotStuck ==
  (/\ ~HostsInFlight /\ \A i \in 1..Len(cmds) : cmds[i] # "REMOVE"
   /\ \A d \in Ring : dirs[d].ring_synced \/ resyncs[d] = MaxResyncs) => AllSynced
=============================================================================
