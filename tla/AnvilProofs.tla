---------------------------- MODULE AnvilProofs -----------------------------
(***************************************************************************)
(* Proofs about anvil: the connection counts, for any processes and users, *)
(* any length of the pipes and any failures, and the penalties, for any    *)
(* addresses, checksums, penalties, expiry times and widths of the stored  *)
(* offset.                                                                 *)
(***************************************************************************)
EXTENDS ConnectLimit, Penalty, ListLemmas

-----------------------------------------------------------------------------
(***************************************************************************)
(* The connection counts (ConnectLimit).                                   *)
(***************************************************************************)

\* What the two pipes may carry, and a struct connect_limit.
BlockingLines == {VERSION} \cup UNION {About(p) : p \in Pids}
NonblockLines == {VERSION} \cup {KILL(p) : p \in Pids}
Limits == [total : Counts, pairs : [Pids -> Counts], panic : BOOLEAN]

LEMMA NoClientsType == NoClients \in Counts
  BY DEF NoClients, Counts

\* What a line says, by the pipe it comes through.
LEMMA BlockingCmd ==
  ASSUME NEW line \in BlockingLines
  PROVE  \/ line = VERSION /\ line.cmd = "VERSION"
         \/ line.cmd = "KILL" /\ line.pid \in Pids /\ line = KILL(line.pid)
         \/ /\ line.cmd \in {"CONNECT", "DISCONNECT"} /\ line.pid \in Pids /\ line.ident \in Idents
            /\ line = Line(line.cmd, line.pid, line.ident)
  BY DEF BlockingLines, About, VERSION, KILL, Line

LEMMA NonblockCmd ==
  ASSUME NEW line \in NonblockLines
  PROVE  \/ line = VERSION /\ line.cmd = "VERSION"
         \/ line.cmd = "KILL" /\ line.pid \in Pids /\ line = KILL(line.pid)
  BY DEF NonblockLines, VERSION, KILL

-----------------------------------------------------------------------------
(* The operations of connect-limit.c.                                      *)

\* One count of a function of counts is changed.
LEMMA CountExcept ==
  ASSUME NEW c \in Counts, NEW i \in Idents, NEW n \in Nat
  PROVE  [c EXCEPT ![i] = n] \in Counts
  BY DEF Counts

LEMMA PairExcept ==
  ASSUME NEW h \in [Pids -> Counts], NEW p \in Pids, NEW i \in Idents, NEW n \in Nat
  PROVE  [h EXCEPT ![p] = [h[p] EXCEPT ![i] = n]] \in [Pids -> Counts]
  BY CountExcept

LEMMA LimitFields ==
  ASSUME NEW l \in Limits, NEW p \in Pids, NEW i \in Idents
  PROVE  /\ l.total \in Counts /\ l.pairs \in [Pids -> Counts] /\ l.panic \in BOOLEAN
         /\ l.total[i] \in Nat /\ l.pairs[p] \in Counts /\ l.pairs[p][i] \in Nat
  BY DEF Limits, Counts

LEMMA ConnectIs ==
  ASSUME NEW l \in Limits, NEW p \in Pids, NEW i \in Idents
  PROVE  /\ connect_limit_connect(l, p, i) \in Limits
         /\ connect_limit_connect(l, p, i).total = [l.total EXCEPT ![i] = l.total[i] + 1]
         /\ connect_limit_connect(l, p, i).pairs =
              [l.pairs EXCEPT ![p] = [l.pairs[p] EXCEPT ![i] = l.pairs[p][i] + 1]]
         /\ connect_limit_connect(l, p, i).panic = l.panic
  <1> DEFINE t == [l.total EXCEPT ![i] = l.total[i] + 1]
             h == [l.pairs EXCEPT ![p] = [l.pairs[p] EXCEPT ![i] = l.pairs[p][i] + 1]]
  <1>1. connect_limit_connect(l, p, i) = [l EXCEPT !.total = t, !.pairs = h]
    BY DEF connect_limit_connect, Limits
  <1>2. l.total[i] + 1 \in Nat /\ l.pairs[p][i] + 1 \in Nat
    BY LimitFields
  <1>3. t \in Counts /\ h \in [Pids -> Counts]
    BY <1>2, LimitFields, CountExcept, PairExcept
  <1> HIDE DEF t, h
  <1>4. LET m == [l EXCEPT !.total = t, !.pairs = h]
        IN  m \in Limits /\ m.total = t /\ m.pairs = h /\ m.panic = l.panic
    BY <1>3 DEF Limits
  <1> QED BY <1>1, <1>4 DEF t, h

LEMMA DisconnectIs ==
  ASSUME NEW l \in Limits, NEW p \in Pids, NEW i \in Idents, l.pairs[p][i] # 0
  PROVE  /\ connect_limit_disconnect(l, p, i) \in Limits
         /\ connect_limit_disconnect(l, p, i).pairs =
              [l.pairs EXCEPT ![p] = [l.pairs[p] EXCEPT ![i] = l.pairs[p][i] - 1]]
         /\ l.total[i] >= 1 =>
              /\ connect_limit_disconnect(l, p, i).total = [l.total EXCEPT ![i] = l.total[i] - 1]
              /\ connect_limit_disconnect(l, p, i).panic = l.panic
  <1> DEFINE h == [l.pairs EXCEPT ![p] = [l.pairs[p] EXCEPT ![i] = l.pairs[p][i] - 1]]
             m == [l EXCEPT !.pairs = h]
  <1>1. [l EXCEPT !.pairs[p][i] = @ - 1] = m
    BY DEF Limits
  <1>2. connect_limit_disconnect(l, p, i) = ident_hash_unref(m, i, 1)
    BY <1>1 DEF connect_limit_disconnect
  <1>3. l.pairs[p][i] - 1 \in Nat
    BY LimitFields
  <1>4. h \in [Pids -> Counts]
    BY <1>3, LimitFields, PairExcept
  <1> HIDE DEF h
  <1>5. m \in Limits /\ m.total = l.total /\ m.pairs = h /\ m.panic = l.panic
    BY <1>4 DEF Limits
  <1> HIDE DEF m
  <1>6. CASE l.total[i] >= 1
    <2> DEFINE t == [m.total EXCEPT ![i] = m.total[i] - 1]
    <2>1. ident_hash_unref(m, i, 1) = [m EXCEPT !.total = t]
      BY <1>5, <1>6 DEF ident_hash_unref, Limits
    <2>2. t \in Counts
      BY <1>5, <1>6, LimitFields, CountExcept
    <2> HIDE DEF t
    <2>3. LET o == [m EXCEPT !.total = t]
          IN  o \in Limits /\ o.total = t /\ o.pairs = h /\ o.panic = l.panic
      BY <1>5, <2>2 DEF Limits
    <2> QED BY <1>2, <1>5, <2>1, <2>3 DEF t, h
  <1>7. CASE ~(l.total[i] >= 1)
    <2>1. ident_hash_unref(m, i, 1) = [m EXCEPT !.panic = TRUE]
      BY <1>5, <1>7 DEF ident_hash_unref
    <2>2. [m EXCEPT !.panic = TRUE] \in Limits /\ [m EXCEPT !.panic = TRUE].pairs = h
      BY <1>5 DEF Limits
    <2> QED BY <1>2, <1>7, <2>1, <2>2 DEF h
  <1> QED BY <1>6, <1>7

LEMMA ConnectType ==
  ASSUME NEW l \in Limits, NEW p \in Pids, NEW i \in Idents
  PROVE  /\ connect_limit_connect(l, p, i) \in Limits
         /\ connect_limit_disconnect(l, p, i) \in Limits
  BY ConnectIs, DisconnectIs DEF connect_limit_disconnect

LEMMA DisconnectPidType ==
  ASSUME NEW l \in Limits, NEW p \in Pids
  PROVE  connect_limit_disconnect_pid(l, p) \in Limits
  <1>1. ASSUME NEW i \in Idents
        PROVE  (IF l.total[i] >= l.pairs[p][i] THEN l.total[i] - l.pairs[p][i] ELSE 0) \in Nat
    BY DEF Limits, Counts
  <1>2. [i \in Idents |-> IF l.total[i] >= l.pairs[p][i]
                          THEN l.total[i] - l.pairs[p][i] ELSE 0] \in Counts
    BY <1>1 DEF Counts
  <1>3. [l.pairs EXCEPT ![p] = NoClients] \in [Pids -> Counts]
    BY NoClientsType DEF Limits
  <1> QED BY <1>2, <1>3 DEF connect_limit_disconnect_pid, Limits

\* One line of one of the two pipes.
LEMMA RequestType ==
  ASSUME NEW l \in Limits, NEW line \in BlockingLines \cup NonblockLines
  PROVE  anvil_connection_request(l, line) \in Limits
  <1>1. CASE line.cmd = "CONNECT"
    BY <1>1, BlockingCmd, NonblockCmd, ConnectType DEF anvil_connection_request
  <1>2. CASE line.cmd = "DISCONNECT"
    BY <1>2, BlockingCmd, NonblockCmd, ConnectType DEF anvil_connection_request
  <1>3. CASE line.cmd = "KILL"
    BY <1>3, BlockingCmd, NonblockCmd, DisconnectPidType DEF anvil_connection_request
  <1>4. CASE line.cmd = "VERSION"
    BY <1>4 DEF anvil_connection_request
  <1> QED BY <1>1, <1>2, <1>3, <1>4, BlockingCmd, NonblockCmd

-----------------------------------------------------------------------------
(* Types.                                                                  *)

LEMMA LimitType == ASSUME AnTypeOK PROVE Limit \in Limits
  BY DEF AnTypeOK, Limit, Limits

LEMMA InputType ==
  ASSUME AnTypeOK, NEW f \in PipeEnds, NEW line \in BlockingLines \cup NonblockLines,
         anvil_connection_input(f, line)
  PROVE  /\ ident_hash' \in Counts /\ ident_pid_hash' \in [Pids -> Counts]
         /\ anpanic' \in BOOLEAN
         /\ anvil' \in [up : BOOLEAN, ver : [PipeEnds -> {"no", "yes", "closed"}]]
  <1> DEFINE l == IF anvil.ver[f] = "yes" THEN anvil_connection_request(Limit, line) ELSE Limit
             v == CASE line # VERSION -> anvil.ver[f]
                    [] line = VERSION /\ anvil.ver[f] = "no" -> "yes"
                    [] OTHER -> "closed"
  <1>1. l \in Limits
    BY LimitType, RequestType
  <1>2. ident_hash' = l.total /\ ident_pid_hash' = l.pairs /\ anpanic' = l.panic
    BY DEF anvil_connection_input
  <1>3. anvil \in [up : BOOLEAN, ver : [PipeEnds -> {"no", "yes", "closed"}]]
    BY DEF AnTypeOK
  <1>4. v \in {"no", "yes", "closed"}
    BY <1>3
  <1>5. anvil' = [anvil EXCEPT !.ver = [anvil.ver EXCEPT ![f] = v]]
    BY <1>3 DEF anvil_connection_input
  <1> HIDE DEF l, v
  <1>6. anvil' \in [up : BOOLEAN, ver : [PipeEnds -> {"no", "yes", "closed"}]]
    BY <1>3, <1>4, <1>5
  <1> QED BY <1>1, <1>2, <1>6 DEF Limits

LEMMA SeqOneLine ==
  /\ <<VERSION>> \in Seq(BlockingLines) /\ <<VERSION>> \in Seq(NonblockLines)
  BY DEF BlockingLines, NonblockLines

LEMMA TypeInit == AnInit => AnTypeOK
  <1> SUFFICES ASSUME AnInit PROVE AnTypeOK
    OBVIOUS
  <1>1. [p \in Pids |-> NoClients] \in [Pids -> Counts]
    BY NoClientsType
  <1>2. [up |-> TRUE, ver |-> [f \in PipeEnds |-> "no"]]
          \in [up : BOOLEAN, ver : [PipeEnds -> {"no", "yes", "closed"}]]
    OBVIOUS
  <1>3. blocking \in Seq(BlockingLines) /\ nonblock \in Seq(NonblockLines) /\ kills \in Seq(Pids)
    BY SeqOneLine DEF AnInit
  <1>4. clients \in [Pids -> Counts] /\ ident_pid_hash \in [Pids -> Counts] /\ ident_hash \in Counts
    BY <1>1, NoClientsType DEF AnInit
  <1> QED BY <1>2, <1>3, <1>4 DEF AnInit, AnTypeOK, BlockingLines, NonblockLines

\* The sequences in the pipes after a step.
LEMMA PipeSteps ==
  ASSUME NEW S, NEW s \in Seq(S), NEW x \in S
  PROVE  /\ Append(s, x) \in Seq(S)
         /\ s # <<>> => Tail(s) \in Seq(S) /\ Head(s) \in S
  OBVIOUS

LEMMA ClientsExcept ==
  ASSUME AnTypeOK, NEW p \in Pids, NEW i \in Idents
  PROVE  /\ clients[p][i] \in Nat
         /\ [clients EXCEPT ![p][i] = clients[p][i] + 1] \in [Pids -> Counts]
         /\ clients[p][i] > 0 => [clients EXCEPT ![p][i] = clients[p][i] - 1] \in [Pids -> Counts]
         /\ [clients EXCEPT ![p] = NoClients] \in [Pids -> Counts]
  <1>1. clients \in [Pids -> Counts] /\ clients[p][i] \in Nat
    BY DEF AnTypeOK, Counts
  <1>2. ASSUME NEW n \in Nat
        PROVE  [clients EXCEPT ![p][i] = n] \in [Pids -> Counts]
    <2>1. [clients EXCEPT ![p][i] = n] = [clients EXCEPT ![p] = [clients[p] EXCEPT ![i] = n]]
      BY <1>1
    <2> QED BY <1>1, <2>1, PairExcept
  <1>3. clients[p][i] + 1 \in Nat /\ (clients[p][i] > 0 => clients[p][i] - 1 \in Nat)
    BY <1>1
  <1> QED BY <1>1, <1>2, <1>3, NoClientsType

LEMMA TypeNext == AnTypeOK /\ [AnNext]_anVars => AnTypeOK'
  <1> SUFFICES ASSUME AnTypeOK, [AnNext]_anVars PROVE AnTypeOK'
    OBVIOUS
  <1> DEFINE MailTypes == /\ proc \in [Pids -> {"none", "running", "dead"}]
                          /\ clients \in [Pids -> Counts] /\ opens \in Nat /\ fails \in Nat
                          /\ dies \in Nat /\ off \subseteq Pids
             PipeTypes == /\ blocking \in Seq(BlockingLines) /\ nonblock \in Seq(NonblockLines)
                          /\ kills \in Seq(Pids)
             TableTypes == /\ ident_hash \in Counts /\ ident_pid_hash \in [Pids -> Counts]
                           /\ anpanic \in BOOLEAN
                           /\ anvil \in [up : BOOLEAN, ver : [PipeEnds -> {"no", "yes", "closed"}]]
             Types == MailTypes /\ PipeTypes /\ TableTypes
  <1>1. AnTypeOK <=> Types
    BY DEF AnTypeOK, BlockingLines, NonblockLines
  <1>2. AnTypeOK' <=> Types'
    BY DEF AnTypeOK, BlockingLines, NonblockLines
  <1>3. /\ VERSION \in BlockingLines /\ VERSION \in NonblockLines
        /\ \A p \in Pids : KILL(p) \in NonblockLines
        /\ \A p \in Pids, i \in Idents : /\ Line("CONNECT", p, i) \in BlockingLines
                                         /\ Line("DISCONNECT", p, i) \in BlockingLines
    BY DEF BlockingLines, NonblockLines, About
  <1> SUFFICES Types'
    BY <1>2
  <1>4. ASSUME NEW p \in Pids, ProcStart(p) \/ ProcExit(p)
        PROVE  Types'
    BY <1>1, <1>4 DEF ProcStart, ProcExit, tables
  <1>5. ASSUME NEW p \in Pids, ProcFail(p)
        PROVE  Types'
    BY <1>1, <1>5, NoClientsType DEF ProcFail, tables
  <1>6. ASSUME NEW p \in Pids, ReapFailed(p)
        PROVE  Types'
    <2>1. MailTypes'
      BY <1>1, <1>6 DEF ReapFailed, tables
    <2>2. PipeTypes'
      <3>1. CASE Len(nonblock) < PipeMax
        <4>1. nonblock' = Append(nonblock, KILL(p)) /\ kills' = kills /\ blocking' = blocking
          BY <1>6, <3>1 DEF ReapFailed
        <4>2. KILL(p) \in NonblockLines
          BY <1>3
        <4> QED BY <1>1, <4>1, <4>2
      <3>2. CASE ~(Len(nonblock) < PipeMax)
        <4>1. kills' = Append(kills, p) /\ nonblock' = nonblock /\ blocking' = blocking
          BY <1>6, <3>2 DEF ReapFailed
        <4> QED BY <1>1, <4>1
      <3> QED BY <3>1, <3>2
    <2>3. TableTypes'
      BY <1>1, <1>6 DEF ReapFailed, tables
    <2> QED BY <2>1, <2>2, <2>3
  <1>7. ASSUME NEW p \in Pids, NEW i \in Idents, ClientCreate(p, i)
        PROVE  Types'
    <2>1. MailTypes'
      <3>1. clients' \in [Pids -> Counts]
        BY <1>7, ClientsExcept DEF ClientCreate
      <3>2. off' \subseteq Pids
        BY <1>1, <1>7 DEF ClientCreate
      <3> QED BY <1>1, <1>7, <3>1, <3>2 DEF ClientCreate
    <2>2. PipeTypes'
      BY <1>1, <1>7, <1>3 DEF ClientCreate, master_service_anvil_send, tables
    <2>3. TableTypes'
      BY <1>1, <1>7 DEF ClientCreate, master_service_anvil_send, tables
    <2> QED BY <2>1, <2>2, <2>3
  <1>8. ASSUME NEW p \in Pids, NEW i \in Idents, ClientDestroy(p, i)
        PROVE  Types'
    <2>1. MailTypes'
      BY <1>1, <1>8, ClientsExcept DEF ClientDestroy, master_service_anvil_send, tables
    <2>2. PipeTypes'
      BY <1>1, <1>8, <1>3 DEF ClientDestroy, master_service_anvil_send, tables
    <2>3. TableTypes'
      BY <1>1, <1>8 DEF ClientDestroy, master_service_anvil_send, tables
    <2> QED BY <2>1, <2>2, <2>3
  <1>9. CASE notify_flush
    BY <1>1, <1>3, <1>9 DEF notify_flush, tables, mailVars
  <1>10. CASE service_list_anvil_discard_input
    <2>1. MailTypes'
      BY <1>1, <1>10 DEF service_list_anvil_discard_input, tables, mailVars
    <2>2. PipeTypes'
      <3>1. CASE blocking # <<>> /\ blocking' = Tail(blocking) /\ UNCHANGED nonblock
        BY <1>1, <1>10, <3>1 DEF service_list_anvil_discard_input
      <3>2. CASE nonblock # <<>> /\ nonblock' = Tail(nonblock) /\ UNCHANGED blocking
        BY <1>1, <1>10, <3>2 DEF service_list_anvil_discard_input
      <3> QED BY <1>10, <3>1, <3>2 DEF service_list_anvil_discard_input
    <2>3. TableTypes'
      BY <1>1, <1>10 DEF service_list_anvil_discard_input, tables, mailVars
    <2> QED BY <2>1, <2>2, <2>3
  <1>11. CASE service_anvil_process_created
    <2>1. MailTypes'
      BY <1>1, <1>11 DEF service_anvil_process_created, tables, mailVars
    <2>2. PipeTypes'
      BY <1>1, <1>11, <1>3 DEF service_anvil_process_created, tables, mailVars
    <2>3. TableTypes'
      BY <1>1, <1>11 DEF service_anvil_process_created, tables, mailVars
    <2> QED BY <2>1, <2>2, <2>3
  <1>12. CASE ReadBlocking
    <2>1. Head(blocking) \in BlockingLines /\ Tail(blocking) \in Seq(BlockingLines)
      BY <1>1, <1>12 DEF ReadBlocking
    <2>2. TableTypes'
      BY <1>12, <2>1, InputType DEF ReadBlocking, PipeEnds
    <2> QED BY <1>1, <1>12, <2>1, <2>2 DEF ReadBlocking, anvil_connection_input, mailVars
  <1>13. CASE ReadNonblocking
    <2>1. Head(nonblock) \in NonblockLines /\ Tail(nonblock) \in Seq(NonblockLines)
      BY <1>1, <1>13 DEF ReadNonblocking
    <2>2. TableTypes'
      BY <1>13, <2>1, InputType DEF ReadNonblocking, PipeEnds
    <2> QED BY <1>1, <1>13, <2>1, <2>2 DEF ReadNonblocking, anvil_connection_input, mailVars
  <1>14. CASE AnvilDie
    <2>1. MailTypes'
      BY <1>1, <1>14 DEF AnvilDie, mailVars
    <2>2. PipeTypes'
      BY <1>1, <1>14 DEF AnvilDie, mailVars
    <2>3. TableTypes'
      BY <1>1, <1>14, NoClientsType DEF AnvilDie, mailVars
    <2> QED BY <2>1, <2>2, <2>3
  <1>15. CASE UNCHANGED anVars
    BY <1>1, <1>15 DEF anVars
  <1> QED BY <1>4, <1>5, <1>6, <1>7, <1>8, <1>9, <1>10, <1>11, <1>12, <1>13, <1>14, <1>15
      DEF AnNext

\* Counts never go below zero and the pipes carry what their writers write
\* (connect-limit.c), whatever processes fail and whenever anvil does.
THEOREM AnvilTypes == AnSpec => []AnTypeOK
  BY TypeInit, TypeNext, PTL DEF AnSpec

-----------------------------------------------------------------------------
(* The count of a user is the number of references to it.                  *)

LEMMA ReferenceIs ==
  ASSUME NEW h, NEW i, NEW x
  PROVE  x \in References(h, i) <=> \E p \in Pids : \E n \in 1..h[p][i] : x = <<p, n>>
  BY DEF References

LEMMA ReferencesFinite ==
  ASSUME NEW h \in [Pids -> Counts], NEW i \in Idents
  PROVE  IsFiniteSet(References(h, i))
  <1> DEFINE Of(p) == {p} \X (1..h[p][i])
             T == {Of(p) : p \in Pids}
             f == [p \in Pids |-> Of(p)]
  <1>1. f \in Surjection(Pids, T)
    BY DEF Surjection
  <1>2. IsFiniteSet(T)
    BY <1>1, FS_Surjection, AnAssumption
  <1>3. ASSUME NEW p \in Pids PROVE IsFiniteSet(Of(p))
    <2>1. h[p][i] \in Nat
      BY DEF Counts
    <2>2. IsFiniteSet(1..h[p][i])
      BY <2>1, FS_Interval
    <2>3. IsFiniteSet({p})
      BY FS_Singleton
    <2> QED BY <2>2, <2>3, FS_Product
  <1>4. \A t \in T : IsFiniteSet(t)
    BY <1>3
  <1> HIDE DEF T
  <1>5. IsFiniteSet(UNION T)
    BY <1>2, <1>4, FS_UNION
  <1> QED BY <1>5 DEF References, T

\* The references of one process.
LEMMA ProcessReferences ==
  ASSUME NEW h \in [Pids -> Counts], NEW i \in Idents, NEW p \in Pids
  PROVE  LET R == {p} \X (1..h[p][i])
         IN  /\ R \subseteq References(h, i) /\ IsFiniteSet(R) /\ Cardinality(R) = h[p][i]
             /\ h[p][i] <= Cardinality(References(h, i))
  <1> DEFINE R == {p} \X (1..h[p][i])
  <1>1. h[p][i] \in Nat
    BY DEF Counts
  <1>2. IsFiniteSet(1..h[p][i]) /\ Cardinality(1..h[p][i]) = h[p][i]
    <2> DEFINE m == h[p][i]
    <2>1. m \in Nat /\ m \in Int /\ 1 \in Int
      BY <1>1
    <2> HIDE DEF m
    <2>2. IsFiniteSet(1..m) /\ Cardinality(1..m) = IF 1 > m THEN 0 ELSE m - 1 + 1
      BY ONLY <2>1, FS_Interval
    <2>3. Cardinality(1..m) = m
      BY <2>1, <2>2
    <2> QED BY <2>2, <2>3 DEF m
  <1>3. IsFiniteSet({p}) /\ Cardinality({p}) = 1
    BY FS_Singleton
  <1>4. IsFiniteSet(R) /\ Cardinality(R) = 1 * h[p][i]
    <2> DEFINE P == {p}
               N == 1..h[p][i]
    <2>1. IsFiniteSet(P) /\ IsFiniteSet(N) /\ Cardinality(P) = 1 /\ Cardinality(N) = h[p][i]
      BY <1>2, <1>3
    <2> HIDE DEF P, N
    <2>2. IsFiniteSet(P \X N) /\ Cardinality(P \X N) = Cardinality(P) * Cardinality(N)
      BY ONLY <2>1, FS_Product
    <2>3. IsFiniteSet(P \X N) /\ Cardinality(P \X N) = 1 * h[p][i]
      BY <2>1, <2>2
    <2> QED BY <2>3 DEF P, N
  <1>5. R \subseteq References(h, i)
    BY ReferenceIs
  <1>6. Cardinality(R) <= Cardinality(References(h, i))
    BY <1>5, ReferencesFinite, FS_Subset
  <1> QED BY <1>1, <1>4, <1>5, <1>6

\* g counts one client more than h, of user i in process p.
Adds(g, h, p, i) == g = [h EXCEPT ![p] = [h[p] EXCEPT ![i] = h[p][i] + 1]]

LEMMA OneMore ==
  ASSUME NEW h \in [Pids -> Counts], NEW i \in Idents, NEW p \in Pids,
         NEW g, Adds(g, h, p, i), NEW j \in Idents
  PROVE  Cardinality(References(g, j)) =
           Cardinality(References(h, j)) + (IF j = i THEN 1 ELSE 0)
  <1>1. h[p][i] \in Nat /\ IsFiniteSet(References(h, j))
    BY ReferencesFinite DEF Counts
  <1>2. CASE j # i
    <2>1. \A q \in Pids : g[q][j] = h[q][j]
      BY <1>2 DEF Counts, Adds
    <2>2. References(g, j) = References(h, j)
      BY <2>1 DEF References
    <2>3. Cardinality(References(h, j)) \in Nat
      BY <1>1, FS_CardinalityType
    <2> QED BY <1>2, <2>2, <2>3
  <1>3. CASE j = i
    <2> DEFINE x == <<p, h[p][i] + 1>>
    <2>1. \A q \in Pids : g[q][i] = IF q = p THEN h[p][i] + 1 ELSE h[q][i]
      BY DEF Counts, Adds
    <2>2. x \notin References(h, i)
      BY <1>1, ReferenceIs
    <2>3. References(g, i) = References(h, i) \cup {x}
      <3>1. ASSUME NEW y \in References(g, i) PROVE y \in References(h, i) \cup {x}
        <4>1. PICK q \in Pids : \E n \in 1..g[q][i] : y = <<q, n>>
          BY <3>1 DEF References
        <4>2. PICK n \in 1..g[q][i] : y = <<q, n>>
          BY <4>1
        <4>3. CASE q = p /\ n = h[p][i] + 1
          BY <4>2, <4>3
        <4>4. CASE ~(q = p /\ n = h[p][i] + 1)
          <5>1. n \in 1..h[q][i]
            BY <1>1, <2>1, <4>2, <4>4
          <5> QED BY <4>2, <5>1, ReferenceIs
        <4> QED BY <4>3, <4>4
      <3>2. ASSUME NEW y \in References(h, i) PROVE y \in References(g, i)
        <4>1. PICK q \in Pids : \E n \in 1..h[q][i] : y = <<q, n>>
          BY <3>2, ReferenceIs
        <4>2. h[q][i] \in Nat
          BY DEF Counts
        <4>3. 1..h[q][i] \subseteq 1..g[q][i]
          BY <1>1, <2>1, <4>2
        <4> QED BY <4>1, <4>3, ReferenceIs
      <3>3. x \in References(g, i)
        <4>1. h[p][i] + 1 \in 1..g[p][i]
          BY <1>1, <2>1
        <4> QED BY <4>1, ReferenceIs
      <3> HIDE DEF x
      <3> QED BY <3>1, <3>2, <3>3
    <2> HIDE DEF x
    <2>4. Cardinality(References(h, i) \cup {x}) = Cardinality(References(h, i)) + 1
      BY <1>1, <1>3, <2>2, FS_AddElement
    <2> QED BY <1>3, <2>3, <2>4
  <1> QED BY <1>2, <1>3

LEMMA NoneLeft ==
  ASSUME NEW h \in [Pids -> Counts], NEW p \in Pids, NEW i \in Idents
  PROVE  Cardinality(References([h EXCEPT ![p] = NoClients], i)) =
           Cardinality(References(h, i)) - h[p][i]
  <1> DEFINE R == {p} \X (1..h[p][i])
             g == [h EXCEPT ![p] = NoClients]
  <1>1. \A q \in Pids : g[q][i] = IF q = p THEN 0 ELSE h[q][i]
    BY DEF NoClients
  <1>2. References(g, i) = References(h, i) \ R
    <2>1. ASSUME NEW x PROVE x \in References(g, i) <=> x \in References(h, i) /\ x \notin R
      <3> HIDE DEF g
      <3>1. x \in References(g, i) <=> \E q \in Pids : q # p /\ \E n \in 1..h[q][i] : x = <<q, n>>
        BY <1>1, ReferenceIs
      <3> QED BY <3>1, ReferenceIs
    <2> QED BY <2>1
  <1>3. References(h, i) \cap R = R /\ Cardinality(R) = h[p][i]
    BY ProcessReferences
  <1> HIDE DEF R, g
  <1>4. Cardinality(References(h, i) \ R) = Cardinality(References(h, i)) - Cardinality(R)
    <2>1. IsFiniteSet(References(h, i))
      BY ReferencesFinite
    <2>2. Cardinality(References(h, i) \ R) =
            Cardinality(References(h, i)) - Cardinality(References(h, i) \cap R)
      BY <2>1, FS_Difference
    <2> QED BY <1>3, <2>2
  <1> QED BY <1>2, <1>3, <1>4 DEF g

\* CountsAgree for one struct connect_limit.
Agree(l) == ~l.panic /\ \A i \in Idents : l.total[i] = Cardinality(References(l.pairs, i))

LEMMA ConnectAgrees ==
  ASSUME NEW l \in Limits, Agree(l), NEW p \in Pids, NEW i \in Idents
  PROVE  Agree(connect_limit_connect(l, p, i))
  <1> DEFINE m == connect_limit_connect(l, p, i)
  <1>1. /\ m.total = [l.total EXCEPT ![i] = l.total[i] + 1] /\ m.panic = l.panic
        /\ m.pairs = [l.pairs EXCEPT ![p] = [l.pairs[p] EXCEPT ![i] = l.pairs[p][i] + 1]]
    BY ConnectIs
  <1> HIDE DEF m
  <1>2. ASSUME NEW j \in Idents
        PROVE  m.total[j] = Cardinality(References(m.pairs, j))
    <2>1. l.total \in Counts /\ l.pairs \in [Pids -> Counts] /\ l.total[j] \in Nat
      BY LimitFields
    <2>2. Cardinality(References(m.pairs, j)) =
            Cardinality(References(l.pairs, j)) + (IF j = i THEN 1 ELSE 0)
      BY <1>1, <2>1, OneMore DEF Adds
    <2>3. m.total[j] = l.total[j] + (IF j = i THEN 1 ELSE 0)
      BY <1>1, <2>1 DEF Counts
    <2> QED BY <2>2, <2>3 DEF Agree
  <1> QED BY <1>1, <1>2 DEF Agree, m

LEMMA DisconnectAgrees ==
  ASSUME NEW l \in Limits, Agree(l), NEW p \in Pids, NEW i \in Idents
  PROVE  Agree(connect_limit_disconnect(l, p, i))
  <1>1. CASE l.pairs[p][i] = 0
    BY <1>1 DEF connect_limit_disconnect
  <1>2. CASE l.pairs[p][i] # 0
    <2> DEFINE m == connect_limit_disconnect(l, p, i)
    <2>1. l.pairs[p][i] <= l.total[i] /\ l.pairs[p][i] \in Nat /\ l.total[i] \in Nat
      BY LimitFields, ProcessReferences DEF Agree
    <2>2. /\ m.total = [l.total EXCEPT ![i] = l.total[i] - 1] /\ m.panic = l.panic
          /\ m.pairs = [l.pairs EXCEPT ![p] = [l.pairs[p] EXCEPT ![i] = l.pairs[p][i] - 1]]
          /\ m.pairs \in [Pids -> Counts]
      BY <1>2, <2>1, DisconnectIs DEF Limits
    <2> HIDE DEF m
    <2>3. l.pairs = [m.pairs EXCEPT ![p] = [m.pairs[p] EXCEPT ![i] = m.pairs[p][i] + 1]]
      <3>1. l.pairs \in [Pids -> Counts] /\ l.pairs[p] \in Counts
        BY LimitFields
      <3>2. m.pairs[p] = [l.pairs[p] EXCEPT ![i] = l.pairs[p][i] - 1]
        BY <2>2, <3>1
      <3>3. [m.pairs[p] EXCEPT ![i] = m.pairs[p][i] + 1] = l.pairs[p]
        BY <2>1, <3>1, <3>2 DEF Counts
      <3> QED BY <2>2, <3>1, <3>3
    <2>4. ASSUME NEW j \in Idents
          PROVE  m.total[j] = Cardinality(References(m.pairs, j))
      <3>1. l.total \in Counts /\ l.total[j] \in Nat
        BY LimitFields
      <3>2. Cardinality(References(l.pairs, j)) =
              Cardinality(References(m.pairs, j)) + (IF j = i THEN 1 ELSE 0)
        <4> DEFINE h == m.pairs
                   g == l.pairs
        <4>1. h \in [Pids -> Counts] /\ Adds(g, h, p, i)
          BY <2>2, <2>3 DEF Adds
        <4> HIDE DEF h, g
        <4>2. Cardinality(References(g, j)) =
                Cardinality(References(h, j)) + (IF j = i THEN 1 ELSE 0)
          BY <4>1, OneMore
        <4> QED BY <4>2 DEF h, g
      <3>3. Cardinality(References(m.pairs, j)) \in Nat
        BY <2>2, ReferencesFinite, FS_CardinalityType
      <3>4. m.total[j] = l.total[j] - (IF j = i THEN 1 ELSE 0)
        BY <2>2, <3>1 DEF Counts
      <3> QED BY <3>1, <3>2, <3>3, <3>4 DEF Agree
    <2> QED BY <2>2, <2>4 DEF Agree, m
  <1> QED BY <1>1, <1>2

LEMMA DisconnectPidAgrees ==
  ASSUME NEW l \in Limits, Agree(l), NEW p \in Pids
  PROVE  Agree(connect_limit_disconnect_pid(l, p))
  <1> DEFINE m == connect_limit_disconnect_pid(l, p)
  <1>1. ASSUME NEW i \in Idents
        PROVE  l.pairs[p][i] <= l.total[i] /\ l.pairs[p][i] \in Nat /\ l.total[i] \in Nat
    BY LimitFields, ProcessReferences DEF Agree
  <1>2. ~m.panic /\ m.pairs = [l.pairs EXCEPT ![p] = NoClients]
    <2>1. m.panic = (l.panic \/ \E i \in Idents : l.total[i] < l.pairs[p][i])
      BY DEF connect_limit_disconnect_pid
    <2>2. \A i \in Idents : ~(l.total[i] < l.pairs[p][i])
      BY <1>1
    <2>3. m.pairs = [l.pairs EXCEPT ![p] = NoClients]
      BY DEF connect_limit_disconnect_pid
    <2> HIDE DEF m
    <2> QED BY <2>1, <2>2, <2>3 DEF Agree
  <1>3. ASSUME NEW i \in Idents
        PROVE  m.total[i] = Cardinality(References(m.pairs, i))
    <2>1. m.total[i] = l.total[i] - l.pairs[p][i]
      BY <1>1 DEF connect_limit_disconnect_pid
    <2>2. l.pairs \in [Pids -> Counts]
      BY LimitFields
    <2> HIDE DEF m
    <2> QED BY <1>2, <2>1, <2>2, NoneLeft DEF Agree
  <1> HIDE DEF m
  <1>4. Agree(m)
    BY <1>2, <1>3 DEF Agree
  <1> QED BY <1>4 DEF m

LEMMA RequestAgrees ==
  ASSUME NEW l \in Limits, Agree(l), NEW line \in BlockingLines \cup NonblockLines
  PROVE  Agree(anvil_connection_request(l, line))
  <1>1. CASE line.cmd = "CONNECT"
    BY <1>1, BlockingCmd, NonblockCmd, ConnectAgrees DEF anvil_connection_request
  <1>2. CASE line.cmd = "DISCONNECT"
    BY <1>2, BlockingCmd, NonblockCmd, DisconnectAgrees DEF anvil_connection_request
  <1>3. CASE line.cmd = "KILL"
    BY <1>3, BlockingCmd, NonblockCmd, DisconnectPidAgrees DEF anvil_connection_request
  <1>4. CASE line.cmd = "VERSION"
    BY <1>4 DEF anvil_connection_request
  <1> QED BY <1>1, <1>2, <1>3, <1>4, BlockingCmd, NonblockCmd

LEMMA InputAgrees ==
  ASSUME AnTypeOK, CountsAgree, NEW f \in PipeEnds, NEW line \in BlockingLines \cup NonblockLines,
         anvil_connection_input(f, line)
  PROVE  CountsAgree'
  <1> DEFINE l == IF anvil.ver[f] = "yes" THEN anvil_connection_request(Limit, line) ELSE Limit
  <1>1. Agree(Limit)
    BY DEF CountsAgree, Agree, Limit
  <1>2. Agree(l)
    BY <1>1, LimitType, RequestAgrees
  <1>3. ident_hash' = l.total /\ ident_pid_hash' = l.pairs /\ anpanic' = l.panic
    BY DEF anvil_connection_input
  <1> HIDE DEF l
  <1> QED BY <1>2, <1>3 DEF CountsAgree, Agree

LEMMA NoReferences ==
  ASSUME NEW i \in Idents
  PROVE  Cardinality(References([p \in Pids |-> NoClients], i)) = 0
  <1>1. References([p \in Pids |-> NoClients], i) = {}
    BY DEF References, NoClients
  <1> QED BY <1>1, FS_EmptySet

LEMMA AgreeNext == AnTypeOK /\ CountsAgree /\ [AnNext]_anVars => CountsAgree'
  <1> SUFFICES ASSUME AnTypeOK, CountsAgree, [AnNext]_anVars PROVE CountsAgree'
    OBVIOUS
  <1>1. CASE UNCHANGED tables
    BY <1>1 DEF tables, CountsAgree
  <1>2. CASE ReadBlocking
    <2>1. Head(blocking) \in BlockingLines
      BY <1>2 DEF ReadBlocking, AnTypeOK, BlockingLines
    <2> QED BY <1>2, <2>1, InputAgrees DEF ReadBlocking, PipeEnds
  <1>3. CASE ReadNonblocking
    <2>1. Head(nonblock) \in NonblockLines
      BY <1>3 DEF ReadNonblocking, AnTypeOK, NonblockLines
    <2> QED BY <1>3, <2>1, InputAgrees DEF ReadNonblocking, PipeEnds
  <1>4. CASE AnvilDie
    BY <1>4, NoReferences DEF AnvilDie, CountsAgree, NoClients
  <1>5. ReadBlocking \/ ReadNonblocking \/ AnvilDie \/ UNCHANGED tables
    BY DEF AnNext, ProcStart, ProcExit, ProcFail, ReapFailed, ClientCreate, ClientDestroy,
           notify_flush, service_list_anvil_discard_input, service_anvil_process_created,
           anVars, tables
  <1> QED BY <1>1, <1>2, <1>3, <1>4, <1>5

\* connect_limit_ident_hash_unref() never panics: what a user is counted for is
\* always the sum of what the processes are counted for, whatever lines are lost,
\* late or repeated, for any number of processes and users.
THEOREM AnvilCounts == AnSpec => []CountsAgree
  <1>1. AnInit => CountsAgree
    BY NoReferences DEF AnInit, CountsAgree, NoClients
  <1> QED BY <1>1, AgreeNext, AnvilTypes, PTL DEF AnSpec

-----------------------------------------------------------------------------
(* Quiet counts.  While anvil reads its pipes, a process that is not in    *)
(* off is counted for its clients as they were before the lines that are   *)
(* still in the pipe, or a KILL of it is on the way and will be heeded.    *)

\* What a line adds to the count of a process.
Delta(line, p, i) ==
  IF line = Line("CONNECT", p, i) THEN 1 ELSE IF line = Line("DISCONNECT", p, i) THEN -1 ELSE 0

\* The lines of a pipe take a count from a to b and never below zero.
Leads(pipe, p, i, a, b) ==
  \E v \in [0..Len(pipe) -> Nat] :
    /\ v[0] = a /\ v[Len(pipe)] = b
    /\ \A k \in 1..Len(pipe) : v[k] = v[k - 1] + Delta(pipe[k], p, i)

\* What is in the blocking pipe takes anvil's counts of a process to its clients.
Balanced(p) ==
  \A i \in Idents : Leads(blocking, p, i, ident_pid_hash[p][i], clients[p][i])

\* Lines of a process count only behind a VERSION line.
Behind(pipe, p) ==
  \E m \in 1..Len(pipe) : pipe[m] = VERSION /\ \A k \in 1..m : pipe[k] \notin About(p)

\* A KILL of the process that anvil will read and obey.
KillIn(pipe, ver, p) ==
  \E k \in 1..Len(pipe) :
    pipe[k] = KILL(p) /\ (ver = "no" => \E m \in 1..(k - 1) : pipe[m] = VERSION)
KillDue(p) ==
  \/ proc[p] = "dead"
  \/ \E k \in 1..Len(kills) : kills[k] = p
  \/ KillIn(nonblock, anvil.ver["nonblock"], p)

HasVersion(pipe) == \E m \in 1..Len(pipe) : pipe[m] = VERSION

\* Both pipes are read, or will be once their VERSION line is.
Reading ==
  /\ anvil.up /\ \A f \in PipeEnds : anvil.ver[f] # "closed"
  /\ anvil.ver["nonblock"] = "no" => HasVersion(nonblock)

\* Master writes KILL to the other pipe only.
NoKills == \A k \in 1..Len(blocking) : blocking[k].cmd # "KILL"

\* Without an anvil process nothing is counted that anvil should know of.
DownInv ==
  ~anvil.up =>
    /\ \A f \in PipeEnds : anvil.ver[f] = "no"
    /\ \A p \in Pids \ off :
         clients[p] = NoClients /\ ident_pid_hash[p] = NoClients /\ ~Pending(blocking, p)

\* A running anvil that reads both pipes has a KILL of the process to come, or
\* will have counted it right when the blocking pipe is read.
UpInv ==
  anvil.up => \A p \in Pids \ off :
    /\ anvil.ver["blocking"] = "no" => Behind(blocking, p)
    /\ Reading => KillDue(p) \/ Balanced(p)

QuietInv == NoKills /\ DownInv /\ UpInv

LEMMA DeltaIs == ASSUME NEW line, NEW p, NEW i PROVE Delta(line, p, i) \in {-1, 0, 1}
  BY DEF Delta

LEMMA DeltaOther ==
  ASSUME NEW line, NEW p \in Pids, NEW i \in Idents, line \notin About(p)
  PROVE  Delta(line, p, i) = 0
  BY DEF Delta, About

\* What Append and Tail do to the places in a pipe.
LEMMA AppendPlaces ==
  ASSUME NEW S, NEW s \in Seq(S), NEW x \in S
  PROVE  /\ Len(s) \in Nat /\ Len(Append(s, x)) = Len(s) + 1
         /\ Append(s, x)[Len(s) + 1] = x
         /\ \A k \in 1..Len(s) : Append(s, x)[k] = s[k]
  OBVIOUS

LEMMA TailPlaces ==
  ASSUME NEW S, NEW s \in Seq(S), s # <<>>
  PROVE  /\ Len(s) \in Nat \ {0} /\ Len(Tail(s)) = Len(s) - 1 /\ Head(s) = s[1]
         /\ \A k \in 1..(Len(s) - 1) : Tail(s)[k] = s[k + 1]
  OBVIOUS

LEMMA LeadsEmpty ==
  ASSUME NEW p, NEW i, NEW a, NEW b, Leads(<<>>, p, i, a, b)
  PROVE  a = b
  BY DEF Leads

LEMMA LeadsTail ==
  ASSUME NEW S, NEW s \in Seq(S), s # <<>>, NEW p, NEW i, NEW a, NEW b, Leads(s, p, i, a, b)
  PROVE  a + Delta(Head(s), p, i) \in Nat /\ Leads(Tail(s), p, i, a + Delta(Head(s), p, i), b)
  <1> DEFINE m == Len(s)
             t == Tail(s)
  <1>1. PICK v \in [0..m -> Nat] :
             /\ v[0] = a /\ v[m] = b
             /\ \A k \in 1..m : v[k] = v[k - 1] + Delta(s[k], p, i)
    BY DEF Leads
  <1>2. /\ m \in Nat \ {0} /\ Len(t) = m - 1 /\ Head(s) = s[1]
        /\ \A k \in 1..(m - 1) : t[k] = s[k + 1]
    BY TailPlaces
  <1> HIDE DEF m, t
  <1> DEFINE w == [k \in 0..(m - 1) |-> v[k + 1]]
  <1>3. v[1] = a + Delta(s[1], p, i) /\ v[1] \in Nat
    BY <1>1, <1>2
  <1>4. w \in [0..(m - 1) -> Nat] /\ w[0] = v[1] /\ w[m - 1] = b
    BY <1>1, <1>2
  <1>5. ASSUME NEW k \in 1..(m - 1) PROVE w[k] = w[k - 1] + Delta(t[k], p, i)
    <2>1. k + 1 \in 1..m /\ (k + 1) - 1 = k /\ k - 1 \in 0..(m - 1) /\ (k - 1) + 1 = k /\ k \in 0..(m - 1)
      BY <1>2
    <2>2. v[k + 1] = v[k] + Delta(s[k + 1], p, i)
      BY <1>1, <2>1
    <2> QED BY <1>2, <2>1, <2>2
  <1> HIDE DEF w
  <1>6. Leads(t, p, i, v[1], b)
    BY <1>2, <1>4, <1>5 DEF Leads
  <1> QED BY <1>2, <1>3, <1>6 DEF t

LEMMA LeadsAppend ==
  ASSUME NEW S, NEW s \in Seq(S), NEW x \in S, NEW p, NEW i, NEW a, NEW b, Leads(s, p, i, a, b),
         NEW c \in Nat, c = b + Delta(x, p, i)
  PROVE  Leads(Append(s, x), p, i, a, c)
  <1> DEFINE m == Len(s)
             t == Append(s, x)
  <1>1. PICK v \in [0..m -> Nat] :
             /\ v[0] = a /\ v[m] = b
             /\ \A k \in 1..m : v[k] = v[k - 1] + Delta(s[k], p, i)
    BY DEF Leads
  <1>2. m \in Nat /\ Len(t) = m + 1 /\ t[m + 1] = x /\ \A k \in 1..m : t[k] = s[k]
    BY AppendPlaces
  <1> HIDE DEF m, t
  <1> DEFINE w == [k \in 0..(m + 1) |-> IF k = m + 1 THEN c ELSE v[k]]
  <1>3. w \in [0..(m + 1) -> Nat] /\ w[0] = a /\ w[m + 1] = c
    BY <1>1, <1>2
  <1>4. ASSUME NEW k \in 1..(m + 1) PROVE w[k] = w[k - 1] + Delta(t[k], p, i)
    <2>1. CASE k = m + 1
      <3>1. k - 1 = m /\ m \in 0..(m + 1) /\ m # m + 1
        BY <1>2, <2>1
      <3>2. w[k] = c /\ w[k - 1] = b
        BY <1>1, <2>1, <3>1
      <3> QED BY <1>2, <2>1, <3>2
    <2>2. CASE k # m + 1
      <3>1. k \in 1..m /\ k - 1 \in 0..m /\ k - 1 # m + 1
        BY <1>2, <2>2
      <3>2. w[k] = v[k] /\ w[k - 1] = v[k - 1]
        BY <1>2, <2>2, <3>1
      <3> QED BY <1>1, <1>2, <3>1, <3>2
    <2> QED BY <2>1, <2>2
  <1> HIDE DEF w
  <1>5. Leads(t, p, i, a, c)
    BY <1>2, <1>3, <1>4 DEF Leads
  <1> QED BY <1>5 DEF t

LEMMA LeadsStill ==
  ASSUME NEW S, NEW s \in Seq(S), NEW p \in Pids, NEW i \in Idents, ~Pending(s, p), NEW a \in Nat
  PROVE  Leads(s, p, i, a, a)
  <1> DEFINE m == Len(s)
             v == [k \in 0..m |-> a]
  <1>1. m \in Nat
    OBVIOUS
  <1>2. \A k \in 1..m : Delta(s[k], p, i) = 0
    BY DeltaOther DEF Pending
  <1> HIDE DEF m
  <1>3. v \in [0..m -> Nat] /\ v[0] = a /\ v[m] = a
    BY <1>1
  <1>4. \A k \in 1..m : v[k] = v[k - 1] + Delta(s[k], p, i)
    BY <1>1, <1>2
  <1> HIDE DEF v
  <1> QED BY <1>3, <1>4 DEF Leads, m

LEMMA VersionOther == ASSUME NEW p PROVE VERSION \notin About(p) /\ VERSION # KILL(p)
  <1>1. VERSION.cmd = "VERSION" /\ KILL(p).cmd = "KILL"
    BY DEF VERSION, KILL
  <1>2. \A c, i : Line(c, p, i).cmd = c
    BY DEF Line
  <1> QED BY <1>1, <1>2 DEF About

LEMMA PipeAppend ==
  ASSUME NEW S, NEW s \in Seq(S), NEW x \in S, NEW p
  PROVE  /\ Behind(s, p) => Behind(Append(s, x), p)
         /\ HasVersion(s) => HasVersion(Append(s, x))
         /\ \A ver : KillIn(s, ver, p) => KillIn(Append(s, x), ver, p)
         /\ \A ver : x = KILL(p) /\ (ver = "no" => HasVersion(s)) => KillIn(Append(s, x), ver, p)
         /\ x = VERSION /\ ~Pending(s, p) => Behind(Append(s, x), p)
  <1> DEFINE m == Len(s)
             t == Append(s, x)
  <1>1. m \in Nat /\ Len(t) = m + 1 /\ t[m + 1] = x /\ \A k \in 1..m : t[k] = s[k]
    BY AppendPlaces
  <1>2. m + 1 \in 1..(m + 1) /\ 1..m \subseteq 1..(m + 1) /\ (m + 1) - 1 = m
        /\ \A k \in 1..m : 1..k \subseteq 1..m /\ 1..(k - 1) \subseteq 1..m
    BY <1>1
  <1>3. \A k \in 1..(m + 1) : k # m + 1 => k \in 1..m
    BY <1>1
  <1> HIDE DEF t
  <1>4. Behind(s, p) => Behind(t, p)
    BY <1>1, <1>2 DEF Behind
  <1>5. HasVersion(s) => HasVersion(t)
    BY <1>1, <1>2 DEF HasVersion
  <1>6. ASSUME NEW ver PROVE KillIn(s, ver, p) => KillIn(t, ver, p)
    BY <1>1, <1>2 DEF KillIn
  <1>7. ASSUME NEW ver, x = KILL(p), ver = "no" => HasVersion(s) PROVE KillIn(t, ver, p)
    BY <1>1, <1>2, <1>7 DEF KillIn, HasVersion
  <1>8. ASSUME x = VERSION, ~Pending(s, p) PROVE Behind(t, p)
    BY <1>1, <1>2, <1>3, <1>8, VersionOther DEF Behind, Pending
  <1> QED BY <1>4, <1>5, <1>6, <1>7, <1>8 DEF t

LEMMA PipeTail ==
  ASSUME NEW S, NEW s \in Seq(S), s # <<>>, NEW p
  PROVE  /\ Pending(Tail(s), p) => Pending(s, p)
         /\ Behind(s, p) => Head(s) \notin About(p)
         /\ Behind(s, p) /\ Head(s) # VERSION => Behind(Tail(s), p)
         /\ HasVersion(s) /\ Head(s) # VERSION => HasVersion(Tail(s))
         /\ KillIn(s, "no", p) => KillIn(Tail(s), IF Head(s) = VERSION THEN "yes" ELSE "no", p)
         /\ \A ver : ver # "no" /\ KillIn(s, ver, p) /\ Head(s) # KILL(p) => KillIn(Tail(s), ver, p)
  <1> DEFINE m == Len(s)
             t == Tail(s)
  <1>1. m \in Nat \ {0} /\ Len(t) = m - 1 /\ Head(s) = s[1] /\ \A k \in 1..(m - 1) : t[k] = s[k + 1]
    BY TailPlaces
  <1>2. \A k \in 1..m : k # 1 => k - 1 \in 1..(m - 1) /\ t[k - 1] = s[k]
    BY <1>1
  <1>3. \A k \in 1..(m - 1) : k + 1 \in 1..m
    BY <1>1
  <1> HIDE DEF t
  <1>4. Pending(t, p) => Pending(s, p)
    BY <1>1, <1>3 DEF Pending
  <1>5. Behind(s, p) => Head(s) \notin About(p)
    <2> SUFFICES ASSUME NEW a \in 1..m, \A k \in 1..a : s[k] \notin About(p) PROVE s[1] \notin About(p)
      BY <1>1 DEF Behind
    <2> QED BY <1>1
  <1>6. ASSUME Behind(s, p), Head(s) # VERSION PROVE Behind(t, p)
    <2>1. PICK a \in 1..m : s[a] = VERSION /\ \A k \in 1..a : s[k] \notin About(p)
      BY <1>6 DEF Behind
    <2>2. a # 1
      BY <1>1, <1>6, <2>1
    <2>3. a - 1 \in 1..(m - 1) /\ t[a - 1] = VERSION
      BY <1>2, <2>1, <2>2
    <2>4. ASSUME NEW k \in 1..(a - 1) PROVE t[k] \notin About(p)
      <3>1. k \in 1..(m - 1) /\ k + 1 \in 1..a
        BY <1>1, <2>1
      <3> QED BY <1>1, <2>1, <3>1
    <2> QED BY <1>1, <2>3, <2>4 DEF Behind
  <1>7. HasVersion(s) /\ Head(s) # VERSION => HasVersion(t)
    BY <1>1, <1>2 DEF HasVersion
  <1>8. ASSUME KillIn(s, "no", p) PROVE KillIn(t, IF Head(s) = VERSION THEN "yes" ELSE "no", p)
    <2>1. PICK k \in 1..m : s[k] = KILL(p) /\ \E a \in 1..(k - 1) : s[a] = VERSION
      BY <1>8 DEF KillIn
    <2>2. PICK a \in 1..(k - 1) : s[a] = VERSION
      BY <2>1
    <2>3. k - 1 \in 1..(m - 1) /\ t[k - 1] = KILL(p)
      BY <1>1, <1>2, <2>1, <2>2
    <2>4. CASE Head(s) = VERSION
      BY <1>1, <2>3, <2>4 DEF KillIn
    <2>5. CASE Head(s) # VERSION
      <3>1. a # 1 /\ a \in 1..m
        BY <1>1, <2>1, <2>2, <2>5
      <3>2. a - 1 \in 1..((k - 1) - 1) /\ t[a - 1] = VERSION
        BY <1>1, <1>2, <2>1, <2>2, <3>1
      <3> QED BY <1>1, <2>3, <2>5, <3>2 DEF KillIn
    <2> QED BY <2>4, <2>5
  <1>9. ASSUME NEW ver, ver # "no", KillIn(s, ver, p), Head(s) # KILL(p) PROVE KillIn(t, ver, p)
    <2>1. PICK k \in 1..m : s[k] = KILL(p)
      BY <1>9 DEF KillIn
    <2>2. k # 1
      BY <1>1, <1>9, <2>1
    <2> QED BY <1>1, <1>2, <1>9, <2>1, <2>2 DEF KillIn
  <1> QED BY <1>4, <1>5, <1>6, <1>7, <1>8, <1>9 DEF t

\* What reading a line does to the flags and to the count of a process.
LEMMA InputIs ==
  ASSUME AnTypeOK, NEW f \in PipeEnds, NEW line \in BlockingLines \cup NonblockLines,
         anvil_connection_input(f, line)
  PROVE  /\ anvil.up /\ anvil'.up /\ anvil.ver[f] # "closed"
         /\ \A g \in PipeEnds : anvil'.ver[g] =
              IF g # f \/ line # VERSION THEN anvil.ver[g]
              ELSE IF anvil.ver[g] = "no" THEN "yes" ELSE "closed"
         /\ anvil.ver[f] # "yes" => ident_pid_hash' = ident_pid_hash
         /\ anvil.ver[f] = "yes" => ident_pid_hash' = anvil_connection_request(Limit, line).pairs
  <1> DEFINE v == CASE line # VERSION -> anvil.ver[f]
                    [] line = VERSION /\ anvil.ver[f] = "no" -> "yes"
                    [] OTHER -> "closed"
  <1>1. anvil \in [up : BOOLEAN, ver : [PipeEnds -> {"no", "yes", "closed"}]]
    BY DEF AnTypeOK
  <1>2. anvil' = [anvil EXCEPT !.ver = [anvil.ver EXCEPT ![f] = v]] /\ anvil.up /\ anvil.ver[f] # "closed"
    BY <1>1 DEF anvil_connection_input
  <1>3. /\ line # VERSION => v = anvil.ver[f]
        /\ line = VERSION => v = IF anvil.ver[f] = "no" THEN "yes" ELSE "closed"
    OBVIOUS
  <1> HIDE DEF v
  <1>4. anvil'.up = anvil.up /\ anvil'.ver = [anvil.ver EXCEPT ![f] = v]
    BY <1>1, <1>2
  <1>5. /\ anvil.ver[f] # "yes" => ident_pid_hash' = ident_pid_hash
        /\ anvil.ver[f] = "yes" => ident_pid_hash' = anvil_connection_request(Limit, line).pairs
    BY DEF anvil_connection_input, Limit
  <1> QED BY <1>1, <1>2, <1>3, <1>4, <1>5

\* One count of one process is moved.
Moved(h, g, q, j, d) ==
  \A p \in Pids, i \in Idents : g[p][i] = IF q = p /\ j = i THEN h[p][i] + d ELSE h[p][i]

LEMMA MovedExcept ==
  ASSUME NEW h \in [Pids -> Counts], NEW q \in Pids, NEW j \in Idents, NEW d
  PROVE  Moved(h, [h EXCEPT ![q] = [h[q] EXCEPT ![j] = h[q][j] + d]], q, j, d)
  BY DEF Moved, Counts

LEMMA ConnectMoves ==
  ASSUME NEW l \in Limits, NEW q \in Pids, NEW j \in Idents
  PROVE  Moved(l.pairs, connect_limit_connect(l, q, j).pairs, q, j, 1)
  <1> DEFINE m == connect_limit_connect(l, q, j)
  <1>1. /\ m.total = [l.total EXCEPT ![j] = l.total[j] + 1] /\ m.panic = l.panic
        /\ m.pairs = [l.pairs EXCEPT ![q] = [l.pairs[q] EXCEPT ![j] = l.pairs[q][j] + 1]]
    BY ConnectIs
  <1>2. l.pairs \in [Pids -> Counts]
    BY LimitFields
  <1> HIDE DEF m
  <1>3. Moved(l.pairs, m.pairs, q, j, 1)
    BY <1>1, <1>2, MovedExcept
  <1> QED BY <1>3 DEF m

LEMMA DisconnectMoves ==
  ASSUME NEW l \in Limits, NEW q \in Pids, NEW j \in Idents, l.pairs[q][j] # 0
  PROVE  Moved(l.pairs, connect_limit_disconnect(l, q, j).pairs, q, j, -1)
  <1> DEFINE m == connect_limit_disconnect(l, q, j)
  <1>1. /\ m \in Limits
        /\ m.pairs = [l.pairs EXCEPT ![q] = [l.pairs[q] EXCEPT ![j] = l.pairs[q][j] - 1]]
        /\ l.total[j] >= 1 => m.total = [l.total EXCEPT ![j] = l.total[j] - 1] /\ m.panic = l.panic
    BY DisconnectIs
  <1>2. l.pairs \in [Pids -> Counts] /\ \A p \in Pids, i \in Idents : l.pairs[p][i] \in Nat
    BY LimitFields
  <1> HIDE DEF m
  <1>3. Moved(l.pairs, m.pairs, q, j, -1)
    BY <1>1, <1>2 DEF Moved, Counts
  <1> QED BY <1>3 DEF m

\* A line other than KILL moves the count by what it adds.
LEMMA RequestCounts ==
  ASSUME NEW l \in Limits, NEW line \in BlockingLines, line.cmd # "KILL", NEW p \in Pids, NEW i \in Idents,
         l.pairs[p][i] + Delta(line, p, i) \in Nat
  PROVE  anvil_connection_request(l, line).pairs[p][i] = l.pairs[p][i] + Delta(line, p, i)
  <1> DEFINE h == anvil_connection_request(l, line).pairs
  <1>0. l.pairs[p][i] \in Nat
    BY LimitFields
  <1>1. ASSUME NEW q \in Pids, NEW j \in Idents, line = Line("CONNECT", q, j)
        PROVE  h[p][i] = l.pairs[p][i] + Delta(line, p, i)
    <2>1. line.cmd = "CONNECT" /\ line.pid = q /\ line.ident = j
      BY <1>1 DEF Line
    <2>2. h = connect_limit_connect(l, q, j).pairs
      BY <2>1 DEF anvil_connection_request
    <2>3. Delta(line, p, i) = IF q = p /\ j = i THEN 1 ELSE 0
      <3>1. line = Line("CONNECT", p, i) <=> (q = p /\ j = i)
        BY <1>1 DEF Line
      <3>2. line # Line("DISCONNECT", p, i)
        BY <2>1 DEF Line
      <3> QED BY <3>1, <3>2 DEF Delta
    <2> HIDE DEF h
    <2>4. Moved(l.pairs, h, q, j, 1)
      BY <2>2, ConnectMoves
    <2> QED BY <1>0, <2>3, <2>4 DEF Moved
  <1>2. ASSUME NEW q \in Pids, NEW j \in Idents, line = Line("DISCONNECT", q, j)
        PROVE  h[p][i] = l.pairs[p][i] + Delta(line, p, i)
    <2>1. line.cmd = "DISCONNECT" /\ line.pid = q /\ line.ident = j
      BY <1>2 DEF Line
    <2>2. h = connect_limit_disconnect(l, q, j).pairs
      BY <2>1 DEF anvil_connection_request
    <2>3. Delta(line, p, i) = IF q = p /\ j = i THEN -1 ELSE 0
      <3>1. line = Line("DISCONNECT", p, i) <=> (q = p /\ j = i)
        BY <1>2 DEF Line
      <3>2. line # Line("CONNECT", p, i)
        BY <2>1 DEF Line
      <3> QED BY <3>1, <3>2 DEF Delta
    <2>4. CASE l.pairs[q][j] = 0
      <3>1. h = l.pairs
        BY <2>2, <2>4 DEF connect_limit_disconnect
      <3>2. ~(q = p /\ j = i)
        BY <1>0, <2>3, <2>4
      <3> QED BY <1>0, <2>3, <3>1, <3>2
    <2>5. CASE l.pairs[q][j] # 0
      <3> HIDE DEF h
      <3>1. Moved(l.pairs, h, q, j, -1)
        BY <2>2, <2>5, DisconnectMoves
      <3> QED BY <1>0, <2>3, <3>1 DEF Moved
    <2> QED BY <2>4, <2>5
  <1>3. CASE line = VERSION
    <2>1. Delta(line, p, i) = 0
      BY <1>3, VersionOther, DeltaOther
    <2>2. line.cmd = "VERSION"
      BY <1>3 DEF VERSION
    <2>3. h = l.pairs
      BY <2>2 DEF anvil_connection_request
    <2> QED BY <1>0, <2>1, <2>3
  <1> QED BY <1>1, <1>2, <1>3, BlockingCmd

\* A KILL takes the count of its process away, and no other.
LEMMA KillCounts ==
  ASSUME NEW l \in Limits, NEW q \in Pids, NEW p \in Pids
  PROVE  anvil_connection_request(l, KILL(q)).pairs[p] = IF p = q THEN NoClients ELSE l.pairs[p]
  <1>1. KILL(q).cmd = "KILL" /\ KILL(q).pid = q
    BY DEF KILL
  <1>2. anvil_connection_request(l, KILL(q)) = connect_limit_disconnect_pid(l, q)
    BY <1>1 DEF anvil_connection_request
  <1>3. connect_limit_disconnect_pid(l, q).pairs = [l.pairs EXCEPT ![q] = NoClients]
    BY DEF connect_limit_disconnect_pid
  <1>4. l.pairs \in [Pids -> Counts]
    BY DEF Limits
  <1> QED BY <1>2, <1>3, <1>4

-----------------------------------------------------------------------------
(* Each step keeps QuietInv.                                               *)

LEMMA QuietTypes ==
  ASSUME AnTypeOK
  PROVE  /\ blocking \in Seq(BlockingLines) /\ nonblock \in Seq(NonblockLines) /\ kills \in Seq(Pids)
         /\ clients \in [Pids -> Counts] /\ ident_pid_hash \in [Pids -> Counts]
         /\ proc \in [Pids -> {"none", "running", "dead"}]
         /\ \A f \in PipeEnds : anvil.ver[f] \in {"no", "yes", "closed"}
         /\ \A p \in Pids, i \in Idents : clients[p][i] \in Nat /\ ident_pid_hash[p][i] \in Nat
         /\ "blocking" \in PipeEnds /\ "nonblock" \in PipeEnds
         /\ VERSION \in BlockingLines /\ VERSION \in NonblockLines
  BY DEF AnTypeOK, BlockingLines, NonblockLines, Counts, PipeEnds

LEMMA NoClientsIs == \A i \in Idents : NoClients[i] = 0
  BY DEF NoClients

\* A process starts, exits or fails.
LEMMA QuietProc ==
  ASSUME AnTypeOK, QuietInv, NEW q \in Pids, ProcStart(q) \/ ProcExit(q) \/ ProcFail(q)
  PROVE  QuietInv'
  <1>1. UNCHANGED <<blocking, nonblock, kills, anvil, ident_pid_hash, off>>
    BY DEF ProcStart, ProcExit, ProcFail, tables
  <1>2. \A p \in Pids : /\ proc[p] = "dead" => proc'[p] = "dead"
                        /\ clients'[p] \in {clients[p], NoClients}
                        /\ clients'[p] # clients[p] => proc'[p] = "dead"
    BY QuietTypes DEF ProcStart, ProcExit, ProcFail
  <1>3. NoKills'
    BY <1>1 DEF QuietInv, NoKills
  <1>4. DownInv'
    BY <1>1, <1>2 DEF QuietInv, DownInv
  <1>5. Reading' => Reading
    BY <1>1 DEF Reading
  <1>6. ASSUME NEW p \in Pids, KillDue(p) \/ Balanced(p) PROVE KillDue(p)' \/ Balanced(p)'
    BY <1>1, <1>2, <1>6 DEF KillDue, Balanced
  <1>7. UpInv'
    BY <1>1, <1>5, <1>6 DEF QuietInv, UpInv
  <1> QED BY <1>3, <1>4, <1>7 DEF QuietInv

\* The master writes a KILL, or keeps it for later.
LEMMA QuietKill ==
  ASSUME AnTypeOK, QuietInv, notify_flush \/ \E q \in Pids : ReapFailed(q)
  PROVE  QuietInv'
  <1>1. UNCHANGED <<blocking, clients, anvil, ident_pid_hash, off>>
    BY DEF notify_flush, ReapFailed, tables, mailVars
  <1>2. NoKills'
    BY <1>1 DEF QuietInv, NoKills
  <1>3. DownInv'
    BY <1>1 DEF QuietInv, DownInv
  <1>4. /\ nonblock' = nonblock \/ \E q \in Pids : nonblock' = Append(nonblock, KILL(q))
    <2>1. CASE notify_flush
      <3>1. Head(kills) \in Pids
        BY <2>1, QuietTypes DEF notify_flush
      <3> QED BY <2>1, <3>1 DEF notify_flush
    <2>2. CASE \E q \in Pids : ReapFailed(q)
      BY <2>2 DEF ReapFailed
    <2> QED BY <2>1, <2>2
  <1>5. Reading' => Reading
    <2> SUFFICES ASSUME ~HasVersion(nonblock), anvil.ver["nonblock"] = "no" PROVE ~HasVersion(nonblock')
      BY <1>1 DEF Reading
    <2>1. ASSUME NEW q \in Pids, nonblock' = Append(nonblock, KILL(q)) PROVE ~HasVersion(nonblock')
      <3> DEFINE m == Len(nonblock)
                 t == Append(nonblock, KILL(q))
      <3>1. m \in Nat /\ Len(t) = m + 1 /\ t[m + 1] = KILL(q) /\ \A k \in 1..m : t[k] = nonblock[k]
        <4>1. KILL(q) \in NonblockLines
          BY DEF NonblockLines
        <4> QED BY <4>1, QuietTypes, AppendPlaces
      <3> HIDE DEF t
      <3>2. \A k \in 1..(m + 1) : k = m + 1 \/ k \in 1..m
        BY <3>1
      <3>3. ~HasVersion(t)
        BY <3>1, <3>2, VersionOther DEF HasVersion
      <3> QED BY <2>1, <3>3 DEF t
    <2> QED BY <1>4, <2>1
  <1>6. ASSUME NEW p \in Pids, Reading, KillDue(p) PROVE KillDue(p)'
    <2> DEFINE ver == anvil.ver["nonblock"]
    <2>1. ver = "no" => HasVersion(nonblock)
      BY <1>6 DEF Reading
    <2>2. KILL(p) \in NonblockLines
      BY DEF NonblockLines
    <2>3. KillIn(nonblock, ver, p) => KillIn(nonblock', ver, p)
      <3>1. ASSUME NEW q \in Pids PROVE KillIn(nonblock, ver, p) => KillIn(Append(nonblock, KILL(q)), ver, p)
        <4>1. KILL(q) \in NonblockLines
          BY DEF NonblockLines
        <4> QED BY <4>1, QuietTypes, PipeAppend
      <3> QED BY <1>4, <3>1
    <2>4. nonblock' = Append(nonblock, KILL(p)) => KillIn(nonblock', ver, p)
      BY <2>1, <2>2, QuietTypes, PipeAppend
    <2>5. CASE notify_flush
      <3>1. /\ nonblock' = Append(nonblock, KILL(Head(kills))) /\ kills' = Tail(kills) /\ kills # <<>>
            /\ proc' = proc
        BY <2>5 DEF notify_flush, mailVars
      <3>2. CASE proc[p] = "dead" \/ KillIn(nonblock, ver, p)
        BY <1>1, <2>3, <3>1, <3>2 DEF KillDue
      <3>3. ASSUME NEW k \in 1..Len(kills), kills[k] = p PROVE KillDue(p)'
        <4> DEFINE m == Len(kills)
                   t == Tail(kills)
        <4>1. m \in Nat \ {0} /\ Len(t) = m - 1 /\ Head(kills) = kills[1] /\ \A x \in 1..(m - 1) : t[x] = kills[x + 1]
          BY <3>1, QuietTypes, TailPlaces
        <4>2. CASE k = 1
          BY <1>1, <2>4, <3>1, <3>3, <4>1, <4>2 DEF KillDue
        <4>3. CASE k # 1
          <5>1. k - 1 \in 1..(m - 1) /\ t[k - 1] = p
            BY <3>3, <4>1, <4>3
          <5> QED BY <3>1, <4>1, <5>1 DEF KillDue
        <4> QED BY <4>2, <4>3
      <3> QED BY <1>6, <3>2, <3>3 DEF KillDue
    <2>6. ASSUME NEW q \in Pids, ReapFailed(q) PROVE KillDue(p)'
      <3>1. /\ proc' = [proc EXCEPT ![q] = "none"]
            /\ \/ nonblock' = Append(nonblock, KILL(q)) /\ kills' = kills
               \/ nonblock' = nonblock /\ kills' = Append(kills, q)
        BY <2>6 DEF ReapFailed
      <3>2. /\ Len(kills) \in Nat /\ Len(Append(kills, q)) = Len(kills) + 1
            /\ Append(kills, q)[Len(kills) + 1] = q
            /\ \A k \in 1..Len(kills) : Append(kills, q)[k] = kills[k]
        BY QuietTypes, AppendPlaces
      <3>3. CASE KillIn(nonblock, ver, p)
        BY <1>1, <2>3, <3>3 DEF KillDue
      <3>4. CASE \E k \in 1..Len(kills) : kills[k] = p
        <4>1. PICK k \in 1..Len(kills) : kills[k] = p
          BY <3>4
        <4>2. k \in 1..Len(kills') /\ kills'[k] = p
          BY <3>1, <3>2, <4>1
        <4> QED BY <4>2 DEF KillDue
      <3>5. CASE proc[p] = "dead"
        <4>1. CASE p # q
          BY <3>1, <3>5, <4>1, QuietTypes DEF KillDue
        <4>2. CASE p = q /\ nonblock' = Append(nonblock, KILL(q))
          BY <1>1, <2>4, <4>2 DEF KillDue
        <4>3. CASE p = q /\ kills' = Append(kills, q)
          <5>1. Len(kills) + 1 \in 1..Len(kills') /\ kills'[Len(kills) + 1] = p
            BY <3>2, <4>3
          <5> QED BY <5>1 DEF KillDue
        <4> QED BY <3>1, <4>1, <4>2, <4>3
      <3> QED BY <1>6, <3>3, <3>4, <3>5 DEF KillDue
    <2> QED BY <2>5, <2>6
  <1>7. ASSUME NEW p \in Pids, Balanced(p) PROVE Balanced(p)'
    BY <1>1, <1>7 DEF Balanced
  <1>8. UpInv'
    BY <1>1, <1>5, <1>6, <1>7 DEF QuietInv, UpInv
  <1> QED BY <1>2, <1>3, <1>8 DEF QuietInv

\* A client comes or goes, and its line goes into the pipe.
ClientTo(q, j, line, d) ==
  /\ line \in BlockingLines /\ line.cmd # "KILL" /\ Delta(line, q, j) = d
  /\ \A p \in Pids, i \in Idents : ~(p = q /\ i = j) => Delta(line, p, i) = 0
  /\ blocking' = Append(blocking, line)
  /\ clients' \in [Pids -> Counts] /\ clients'[q][j] = clients[q][j] + d
  /\ \A p \in Pids, i \in Idents : ~(p = q /\ i = j) => clients'[p][i] = clients[p][i]
  /\ off \subseteq off' /\ (~anvil.up => q \in off')
  /\ UNCHANGED <<proc, nonblock, kills, anvil, ident_pid_hash>>

LEMMA LineIs ==
  ASSUME NEW q \in Pids, NEW j \in Idents, NEW c \in {"CONNECT", "DISCONNECT"}
  PROVE  /\ Line(c, q, j) \in BlockingLines /\ Line(c, q, j).cmd # "KILL"
         /\ Line(c, q, j) # VERSION
         /\ \A p \in Pids : Line(c, q, j) \in About(p) <=> p = q
         /\ \A p \in Pids, i \in Idents :
              Delta(Line(c, q, j), p, i) =
                IF p = q /\ i = j THEN (IF c = "CONNECT" THEN 1 ELSE -1) ELSE 0
  <1>1. Line(c, q, j).cmd = c /\ VERSION.cmd = "VERSION"
    BY DEF Line, VERSION
  <1>2. Line(c, q, j) \in BlockingLines
    BY DEF BlockingLines, About
  <1>3. \A e, p, i : Line(c, q, j) = Line(e, p, i) <=> c = e /\ q = p /\ j = i
    BY DEF Line
  <1>4. \A p : Line(c, q, j) # KILL(p)
    <2>1. \A p : KILL(p).cmd = "KILL"
      BY DEF KILL
    <2> QED BY <1>1, <2>1
  <1>5. \A p \in Pids : Line(c, q, j) \in About(p) <=> p = q
    BY <1>3, <1>4 DEF About
  <1>6. \A p \in Pids, i \in Idents :
          Delta(Line(c, q, j), p, i) =
            IF p = q /\ i = j THEN (IF c = "CONNECT" THEN 1 ELSE -1) ELSE 0
    BY <1>3 DEF Delta
  <1> QED BY <1>1, <1>2, <1>5, <1>6

LEMMA ClientSteps ==
  ASSUME AnTypeOK, QuietInv, NEW q \in Pids, NEW j \in Idents,
         ClientCreate(q, j) \/ ClientDestroy(q, j)
  PROVE  \E line \in BlockingLines, d \in {-1, 1} : ClientTo(q, j, line, d)
  <1>1. clients \in [Pids -> Counts] /\ clients[q] \in [Idents -> Nat] /\ clients[q][j] \in Nat
    BY QuietTypes DEF Counts
  <1>2. CASE ClientCreate(q, j)
    <2> DEFINE line == Line("CONNECT", q, j)
    <2>1. /\ line \in BlockingLines /\ line.cmd # "KILL" /\ Delta(line, q, j) = 1
          /\ \A p \in Pids, i \in Idents : ~(p = q /\ i = j) => Delta(line, p, i) = 0
      BY LineIs
    <2>2. /\ blocking' = Append(blocking, line)
          /\ off' = (IF anvil.up THEN off ELSE off \cup {q})
          /\ UNCHANGED <<proc, nonblock, kills, anvil, ident_pid_hash>>
      BY <1>2 DEF ClientCreate, master_service_anvil_send, tables
    <2>3. clients' = [clients EXCEPT ![q][j] = clients[q][j] + 1]
      BY <1>1, <1>2 DEF ClientCreate
    <2>4. clients' \in [Pids -> Counts]
      BY <2>3, ClientsExcept
    <2>5. /\ clients'[q][j] = clients[q][j] + 1
          /\ \A p \in Pids, i \in Idents : ~(p = q /\ i = j) => clients'[p][i] = clients[p][i]
      BY <1>1, <2>3 DEF Counts
    <2> HIDE DEF line
    <2>6. ClientTo(q, j, line, 1)
      BY <2>1, <2>2, <2>4, <2>5 DEF ClientTo
    <2> QED BY <2>1, <2>6
  <1>3. CASE ClientDestroy(q, j)
    <2> DEFINE line == Line("DISCONNECT", q, j)
    <2>1. /\ line \in BlockingLines /\ line.cmd # "KILL" /\ Delta(line, q, j) = -1
          /\ \A p \in Pids, i \in Idents : ~(p = q /\ i = j) => Delta(line, p, i) = 0
      BY LineIs
    <2>2. /\ blocking' = Append(blocking, line) /\ off' = off /\ clients[q][j] > 0
          /\ UNCHANGED <<proc, nonblock, kills, anvil, ident_pid_hash>>
      BY <1>3 DEF ClientDestroy, master_service_anvil_send, tables
    <2>3. clients' = [clients EXCEPT ![q][j] = clients[q][j] - 1]
      BY <1>1, <1>3 DEF ClientDestroy
    <2>4. clients' \in [Pids -> Counts]
      BY <2>2, <2>3, ClientsExcept
    <2>5. /\ clients'[q][j] = clients[q][j] - 1 /\ clients[q][j] - 1 = clients[q][j] + (-1)
          /\ \A p \in Pids, i \in Idents : ~(p = q /\ i = j) => clients'[p][i] = clients[p][i]
      BY <1>1, <2>3 DEF Counts
    <2>6. ~anvil.up => q \in off'
      <3>1. clients[q] # NoClients
        BY <2>2, NoClientsIs
      <3> QED BY <2>2, <3>1 DEF QuietInv, DownInv
    <2> HIDE DEF line
    <2>7. ClientTo(q, j, line, -1)
      BY <2>1, <2>2, <2>4, <2>5, <2>6 DEF ClientTo
    <2> QED BY <2>1, <2>7
  <1> QED BY <1>2, <1>3

LEMMA AppendNoKills ==
  ASSUME AnTypeOK, NoKills, NEW line \in BlockingLines, line.cmd # "KILL", blocking' = Append(blocking, line)
  PROVE  NoKills'
  <1> DEFINE m == Len(blocking)
             t == Append(blocking, line)
  <1>1. m \in Nat /\ Len(t) = m + 1 /\ t[m + 1] = line /\ \A k \in 1..m : t[k] = blocking[k]
    BY QuietTypes, AppendPlaces
  <1>2. \A k \in 1..(m + 1) : k = m + 1 \/ k \in 1..m
    BY <1>1
  <1> HIDE DEF t
  <1>3. \A k \in 1..Len(t) : t[k].cmd # "KILL"
    BY <1>1, <1>2 DEF NoKills
  <1> QED BY <1>3 DEF NoKills, t

LEMMA QuietClient ==
  ASSUME AnTypeOK, QuietInv, NEW q \in Pids, NEW j \in Idents, NEW line \in BlockingLines,
         NEW d \in {-1, 1}, ClientTo(q, j, line, d)
  PROVE  QuietInv'
  <1> USE DEF ClientTo
  <1>1. NoKills'
    BY AppendNoKills DEF QuietInv
  <1>2. Reading' => Reading
    BY DEF Reading
  <1>3. ASSUME NEW p \in Pids, p # q, ~Pending(blocking, p) PROVE ~Pending(blocking', p)
    <2> DEFINE m == Len(blocking)
               t == Append(blocking, line)
    <2>1. m \in Nat /\ Len(t) = m + 1 /\ t[m + 1] = line /\ \A k \in 1..m : t[k] = blocking[k]
      BY QuietTypes, AppendPlaces
    <2>2. \A k \in 1..(m + 1) : k = m + 1 \/ k \in 1..m
      BY <2>1
    <2>3. line \notin About(p)
      <3>1. Delta(line, q, j) # 0
        OBVIOUS
      <3>2. line = Line("CONNECT", q, j) \/ line = Line("DISCONNECT", q, j)
        BY <3>1 DEF Delta
      <3> QED BY <1>3, <3>2, LineIs
    <2> HIDE DEF t
    <2>4. ~Pending(t, p)
      BY <1>3, <2>1, <2>2, <2>3 DEF Pending
    <2> QED BY <2>4 DEF t
  <1>4. DownInv'
    <2> SUFFICES ASSUME ~anvil.up
                 PROVE  /\ \A f \in PipeEnds : anvil.ver[f] = "no"
                        /\ \A p \in Pids \ off' : /\ clients'[p] = NoClients /\ ident_pid_hash[p] = NoClients
                                                  /\ ~Pending(blocking', p)
      BY DEF DownInv
    <2>1. ASSUME NEW p \in Pids \ off'
          PROVE  clients'[p] = NoClients /\ ident_pid_hash[p] = NoClients /\ ~Pending(blocking', p)
      <3>1. p # q /\ p \in Pids \ off
        OBVIOUS
      <3>2. clients[p] = NoClients /\ ident_pid_hash[p] = NoClients /\ ~Pending(blocking, p)
        BY <3>1 DEF QuietInv, DownInv
      <3>3. clients'[p] = clients[p]
        BY <3>1, QuietTypes DEF Counts
      <3> QED BY <1>3, <3>1, <3>2, <3>3
    <2> QED BY <2>1 DEF QuietInv, DownInv
  <1>5. ASSUME NEW p \in Pids, Balanced(p) PROVE Balanced(p)'
    <2> SUFFICES ASSUME NEW i \in Idents
                 PROVE  Leads(blocking', p, i, ident_pid_hash[p][i], clients'[p][i])
      BY DEF Balanced
    <2>1. Leads(blocking, p, i, ident_pid_hash[p][i], clients[p][i])
      BY <1>5 DEF Balanced
    <2>2. clients'[p][i] \in Nat /\ clients[p][i] \in Nat
      BY QuietTypes DEF Counts
    <2>3. clients'[p][i] = clients[p][i] + Delta(line, p, i)
      BY <2>2
    <2> QED BY <2>1, <2>2, <2>3, QuietTypes, LeadsAppend
  <1>6. ASSUME NEW p \in Pids, KillDue(p) PROVE KillDue(p)'
    BY <1>6 DEF KillDue
  <1>7. UpInv'
    <2> SUFFICES ASSUME anvil.up, NEW p \in Pids \ off'
                 PROVE  /\ anvil.ver["blocking"] = "no" => Behind(blocking', p)
                        /\ Reading' => KillDue(p)' \/ Balanced(p)'
      BY DEF UpInv
    <2>1. p \in Pids \ off
      OBVIOUS
    <2>2. Behind(blocking, p) => Behind(blocking', p)
      BY QuietTypes, PipeAppend
    <2> QED BY <1>2, <1>5, <1>6, <2>1, <2>2 DEF QuietInv, UpInv
  <1> QED BY <1>1, <1>4, <1>7 DEF QuietInv

\* Without anvil the pipes are emptied.
LEMMA TailNoKills ==
  ASSUME AnTypeOK, NoKills, blocking # <<>>, blocking' = Tail(blocking)
  PROVE  NoKills' /\ Head(blocking).cmd # "KILL"
  <1> DEFINE m == Len(blocking)
             t == Tail(blocking)
  <1>1. /\ m \in Nat \ {0} /\ Len(t) = m - 1 /\ Head(blocking) = blocking[1]
        /\ \A k \in 1..(m - 1) : t[k] = blocking[k + 1]
    BY QuietTypes, TailPlaces
  <1>2. 1 \in 1..m /\ \A k \in 1..(m - 1) : k + 1 \in 1..m
    BY <1>1
  <1> HIDE DEF t
  <1>3. \A k \in 1..Len(t) : t[k].cmd # "KILL"
    BY <1>1, <1>2 DEF NoKills
  <1>4. Head(blocking).cmd # "KILL"
    BY <1>1, <1>2 DEF NoKills
  <1> QED BY <1>3, <1>4 DEF NoKills, t

LEMMA QuietDiscard ==
  ASSUME AnTypeOK, QuietInv, service_list_anvil_discard_input
  PROVE  QuietInv'
  <1>1. /\ ~anvil.up /\ UNCHANGED <<clients, anvil, ident_pid_hash, off>>
        /\ blocking' = blocking \/ (blocking # <<>> /\ blocking' = Tail(blocking))
    BY DEF service_list_anvil_discard_input, mailVars, tables
  <1>2. NoKills'
    <2>1. CASE blocking' = blocking
      BY <2>1 DEF QuietInv, NoKills
    <2>2. CASE blocking # <<>> /\ blocking' = Tail(blocking)
      BY <2>2, TailNoKills DEF QuietInv
    <2> QED BY <1>1, <2>1, <2>2
  <1>3. \A p \in Pids : Pending(blocking', p) => Pending(blocking, p)
    BY <1>1, QuietTypes, PipeTail
  <1>4. DownInv'
    BY <1>1, <1>3 DEF QuietInv, DownInv
  <1>5. UpInv'
    BY <1>1 DEF UpInv
  <1> QED BY <1>2, <1>4, <1>5 DEF QuietInv

LEMMA QuietCreated ==
  ASSUME AnTypeOK, QuietInv, service_anvil_process_created
  PROVE  QuietInv'
  <1>1. /\ ~anvil.up /\ anvil' = [anvil EXCEPT !.up = TRUE] /\ blocking' = Append(blocking, VERSION)
        /\ UNCHANGED <<clients, ident_pid_hash, off>>
    BY DEF service_anvil_process_created, mailVars, tables
  <1>2. anvil'.up /\ anvil'.ver = anvil.ver
    BY <1>1 DEF AnTypeOK
  <1>3. NoKills'
    <2>1. VERSION.cmd # "KILL"
      BY DEF VERSION
    <2> QED BY <1>1, <2>1, QuietTypes, AppendNoKills DEF QuietInv
  <1>4. DownInv'
    BY <1>2 DEF DownInv
  <1>5. ASSUME NEW p \in Pids \ off PROVE Behind(blocking', p) /\ Balanced(p)'
    <2>1. clients[p] = NoClients /\ ident_pid_hash[p] = NoClients /\ ~Pending(blocking, p)
      BY <1>1 DEF QuietInv, DownInv
    <2>2. Behind(blocking', p)
      BY <1>1, <2>1, QuietTypes, PipeAppend
    <2>3. ASSUME NEW i \in Idents PROVE Leads(blocking', p, i, 0, 0)
      <3>1. Leads(blocking, p, i, 0, 0)
        BY <2>1, QuietTypes, LeadsStill
      <3>2. 0 = 0 + Delta(VERSION, p, i)
        BY VersionOther, DeltaOther
      <3> QED BY <1>1, <3>1, <3>2, QuietTypes, LeadsAppend
    <2>4. Balanced(p)'
      BY <1>1, <2>1, <2>3, NoClientsIs DEF Balanced
    <2> QED BY <2>2, <2>4
  <1>6. UpInv'
    BY <1>1, <1>5 DEF UpInv
  <1> QED BY <1>3, <1>4, <1>6 DEF QuietInv

LEMMA QuietDie == ASSUME AnTypeOK, QuietInv, AnvilDie PROVE QuietInv'
  <1>1. /\ anvil' = [up |-> FALSE, ver |-> [f \in PipeEnds |-> "no"]]
        /\ ident_pid_hash' = [p \in Pids |-> NoClients]
        /\ off' = off \cup {p \in Pids : clients[p] # NoClients \/ Pending(blocking, p)}
        /\ UNCHANGED <<clients, blocking>>
    BY DEF AnvilDie, mailVars
  <1>2. ~anvil'.up /\ \A f \in PipeEnds : anvil'.ver[f] = "no"
    BY <1>1
  <1>3. NoKills'
    BY <1>1 DEF QuietInv, NoKills
  <1>4. DownInv'
    BY <1>1, <1>2 DEF DownInv
  <1>5. UpInv'
    BY <1>2 DEF UpInv
  <1> QED BY <1>3, <1>4, <1>5 DEF QuietInv

\* anvil reads a line of a mail process.
LEMMA QuietRead == ASSUME AnTypeOK, QuietInv, ReadBlocking PROVE QuietInv'
  <1> DEFINE line == Head(blocking)
             ver == anvil.ver["blocking"]
  <1>1. /\ blocking # <<>> /\ blocking' = Tail(blocking) /\ anvil_connection_input("blocking", line)
        /\ UNCHANGED <<proc, clients, nonblock, kills, off>>
    BY DEF ReadBlocking, anvil_connection_input, mailVars
  <1>2. line \in BlockingLines
    BY <1>1, QuietTypes
  <1>3. NoKills' /\ line.cmd # "KILL"
    BY <1>1, TailNoKills DEF QuietInv
  <1>4. /\ anvil.up /\ anvil'.up /\ ver # "closed"
        /\ \A g \in PipeEnds : anvil'.ver[g] =
             IF g # "blocking" \/ line # VERSION THEN anvil.ver[g]
             ELSE IF anvil.ver[g] = "no" THEN "yes" ELSE "closed"
        /\ ver # "yes" => ident_pid_hash' = ident_pid_hash
        /\ ver = "yes" => ident_pid_hash' = anvil_connection_request(Limit, line).pairs
    <2> HIDE DEF line
    <2>1. "blocking" \in PipeEnds
      BY DEF PipeEnds
    <2> QED BY <1>1, <1>2, <2>1, InputIs
  <1>5. anvil'.ver["nonblock"] = anvil.ver["nonblock"] /\ "nonblock" \in PipeEnds /\ "blocking" \in PipeEnds
    BY <1>4 DEF PipeEnds
  <1>6. anvil'.ver["blocking"] = IF line # VERSION THEN ver ELSE IF ver = "no" THEN "yes" ELSE "closed"
    BY <1>4, <1>5
  <1>7. DownInv'
    BY <1>4 DEF DownInv
  <1>8. Reading' => Reading /\ ~(ver = "yes" /\ line = VERSION)
    BY <1>1, <1>4, <1>5, <1>6 DEF Reading, PipeEnds
  <1>9. ASSUME NEW p \in Pids, KillDue(p) PROVE KillDue(p)'
    BY <1>1, <1>5, <1>9 DEF KillDue
  <1>10. ASSUME NEW p \in Pids \ off PROVE ver = "no" => line \notin About(p)
    <2>1. ver = "no" => Behind(blocking, p)
      BY <1>4 DEF QuietInv, UpInv
    <2> QED BY <1>1, <2>1, QuietTypes, PipeTail
  <1>11. ASSUME NEW p \in Pids \ off, Balanced(p) PROVE Balanced(p)'
    <2> SUFFICES ASSUME NEW i \in Idents
                 PROVE  Leads(blocking', p, i, ident_pid_hash'[p][i], clients[p][i])
      BY <1>1 DEF Balanced
    <2> DEFINE a == ident_pid_hash[p][i]
    <2>1. Leads(blocking, p, i, a, clients[p][i])
      BY <1>11 DEF Balanced
    <2>2. a + Delta(line, p, i) \in Nat /\ Leads(Tail(blocking), p, i, a + Delta(line, p, i), clients[p][i])
      BY <1>1, <2>1, QuietTypes, LeadsTail
    <2>3. ident_pid_hash'[p][i] = a + Delta(line, p, i)
      <3>1. a \in Nat
        BY QuietTypes
      <3>2. CASE ver = "no"
        <4>1. Delta(line, p, i) = 0
          BY <1>10, <3>2, DeltaOther
        <4> QED BY <1>4, <3>1, <3>2, <4>1
      <3>3. CASE ver = "yes"
        <4> HIDE DEF line
        <4>1. Limit \in Limits /\ Limit.pairs = ident_pid_hash
          BY LimitType DEF Limit
        <4>2. Limit.pairs[p][i] + Delta(line, p, i) \in Nat
          BY <2>2, <4>1
        <4>3. anvil_connection_request(Limit, line).pairs[p][i] = Limit.pairs[p][i] + Delta(line, p, i)
          BY <1>2, <1>3, <4>1, <4>2, RequestCounts
        <4> QED BY <1>4, <3>3, <4>1, <4>3
      <3>4. ver \in {"no", "yes", "closed"}
        BY QuietTypes
      <3> QED BY <1>4, <3>2, <3>3, <3>4
    <2> QED BY <1>1, <2>2, <2>3
  <1>12. ASSUME NEW p \in Pids \ off, anvil'.ver["blocking"] = "no" PROVE Behind(blocking', p)
    <2>1. ver = "no" /\ line # VERSION
      BY <1>6, <1>12
    <2>2. Behind(blocking, p)
      BY <1>4, <2>1 DEF QuietInv, UpInv
    <2> QED BY <1>1, <2>1, <2>2, QuietTypes, PipeTail
  <1>13. UpInv'
    <2> SUFFICES ASSUME NEW p \in Pids \ off
                 PROVE  /\ anvil'.ver["blocking"] = "no" => Behind(blocking', p)
                        /\ Reading' => KillDue(p)' \/ Balanced(p)'
      BY <1>1 DEF UpInv
    <2>1. Reading => KillDue(p) \/ Balanced(p)
      BY <1>4 DEF QuietInv, UpInv
    <2> QED BY <1>8, <1>9, <1>11, <1>12, <2>1
  <1> QED BY <1>3, <1>7, <1>13 DEF QuietInv

\* anvil reads a KILL.
LEMMA QuietReadKill == ASSUME AnTypeOK, QuietInv, ReadNonblocking PROVE QuietInv'
  <1> DEFINE line == Head(nonblock)
             ver == anvil.ver["nonblock"]
  <1>1. /\ nonblock # <<>> /\ nonblock' = Tail(nonblock) /\ anvil_connection_input("nonblock", line)
        /\ off' = off \cup {p \in Pids : line = KILL(p) /\ (Pending(blocking, p) \/ clients[p] # NoClients)}
        /\ UNCHANGED <<proc, clients, blocking, kills>>
    BY DEF ReadNonblocking, anvil_connection_input, mailVars
  <1>2. line \in NonblockLines
    BY <1>1, QuietTypes
  <1>3. NoKills'
    BY <1>1 DEF QuietInv, NoKills
  <1>4. /\ anvil.up /\ anvil'.up /\ ver # "closed"
        /\ \A g \in PipeEnds : anvil'.ver[g] =
             IF g # "nonblock" \/ line # VERSION THEN anvil.ver[g]
             ELSE IF anvil.ver[g] = "no" THEN "yes" ELSE "closed"
        /\ ver # "yes" => ident_pid_hash' = ident_pid_hash
        /\ ver = "yes" => ident_pid_hash' = anvil_connection_request(Limit, line).pairs
    <2> HIDE DEF line
    <2>1. "nonblock" \in PipeEnds
      BY DEF PipeEnds
    <2> QED BY <1>1, <1>2, <2>1, InputIs
  <1>5. /\ anvil'.ver["blocking"] = anvil.ver["blocking"] /\ "nonblock" \in PipeEnds
        /\ "blocking" \in PipeEnds /\ ver \in {"no", "yes", "closed"}
    BY <1>4, QuietTypes DEF PipeEnds
  <1>6. anvil'.ver["nonblock"] = IF line # VERSION THEN ver ELSE IF ver = "no" THEN "yes" ELSE "closed"
    BY <1>4, <1>5
  <1>7. DownInv'
    BY <1>4 DEF DownInv
  <1>8. ASSUME Reading' PROVE Reading /\ ~(ver = "yes" /\ line = VERSION)
    <2>1. ~(ver = "yes" /\ line = VERSION)
      BY <1>5, <1>6, <1>8 DEF Reading
    <2>2. ver = "no" => HasVersion(nonblock)
      <3>1. CASE line = VERSION
        <4>1. Len(nonblock) \in Nat \ {0} /\ nonblock[1] = VERSION
          BY <1>1, <3>1, QuietTypes, TailPlaces
        <4> QED BY <4>1 DEF HasVersion
      <3>2. CASE line # VERSION /\ ver = "no"
        <4> DEFINE m == Len(nonblock)
                   t == Tail(nonblock)
        <4>1. HasVersion(t)
          BY <1>1, <1>6, <1>8, <3>2 DEF Reading
        <4>2. /\ m \in Nat \ {0} /\ Len(t) = m - 1 /\ \A k \in 1..(m - 1) : t[k] = nonblock[k + 1]
          BY <1>1, QuietTypes, TailPlaces
        <4>3. \A k \in 1..(m - 1) : k + 1 \in 1..m
          BY <4>2
        <4> HIDE DEF t
        <4> QED BY <4>1, <4>2, <4>3 DEF HasVersion
      <3> QED BY <3>1, <3>2
    <2> QED BY <1>4, <1>5, <1>8, <2>1, <2>2 DEF Reading, PipeEnds
  <1>9. ASSUME NEW p \in Pids, KillDue(p), ~(ver = "yes" /\ line = VERSION),
               ~(ver = "yes" /\ line = KILL(p))
        PROVE  KillDue(p)'
    <2>1. CASE proc[p] = "dead" \/ \E k \in 1..Len(kills) : kills[k] = p
      BY <1>1, <2>1 DEF KillDue
    <2>2. CASE KillIn(nonblock, ver, p)
      <3>1. KillIn(nonblock', anvil'.ver["nonblock"], p)
        <4>1. CASE ver = "no"
          BY <1>1, <1>6, <2>2, <4>1, QuietTypes, PipeTail
        <4>2. CASE ver = "yes"
          BY <1>1, <1>6, <1>9, <2>2, <4>2, QuietTypes, PipeTail
        <4> QED BY <1>4, <1>5, <4>1, <4>2
      <3> QED BY <3>1 DEF KillDue
    <2> QED BY <1>9, <2>1, <2>2 DEF KillDue
  <1>10. ASSUME NEW p \in Pids, ~(ver = "yes" /\ line = KILL(p)) PROVE ident_pid_hash'[p] = ident_pid_hash[p]
    <2>1. CASE ver # "yes"
      BY <1>4, <2>1
    <2>2. CASE ver = "yes"
      <3>1. Limit \in Limits /\ Limit.pairs = ident_pid_hash
        BY LimitType DEF Limit
      <3> HIDE DEF line
      <3>2. CASE line = VERSION /\ line.cmd = "VERSION"
        BY <1>4, <2>2, <3>1, <3>2 DEF anvil_connection_request
      <3>3. ASSUME NEW q \in Pids, line = KILL(q) PROVE ident_pid_hash'[p] = ident_pid_hash[p]
        <4>1. anvil_connection_request(Limit, KILL(q)).pairs[p] = IF p = q THEN NoClients ELSE Limit.pairs[p]
          BY <3>1, KillCounts
        <4> QED BY <1>4, <1>10, <2>2, <3>1, <3>3, <4>1
      <3> QED BY <1>2, <3>2, <3>3, NonblockCmd
    <2> QED BY <2>1, <2>2
  <1>11. ASSUME NEW p \in Pids, ver = "yes", line = KILL(p), p \notin off' PROVE Balanced(p)'
    <2>1. ~Pending(blocking, p) /\ clients[p] = NoClients
      BY <1>1, <1>11
    <2>2. ident_pid_hash'[p] = NoClients
      <3>1. Limit \in Limits
        BY LimitType
      <3>2. anvil_connection_request(Limit, KILL(p)).pairs[p] = NoClients
        BY <3>1, KillCounts
      <3> QED BY <1>4, <1>11, <3>2
    <2>3. \A i \in Idents : Leads(blocking, p, i, 0, 0)
      BY <2>1, QuietTypes, LeadsStill
    <2> QED BY <1>1, <2>1, <2>2, <2>3, NoClientsIs DEF Balanced
  <1>12. UpInv'
    <2> SUFFICES ASSUME NEW p \in Pids \ off'
                 PROVE  /\ anvil'.ver["blocking"] = "no" => Behind(blocking, p)
                        /\ Reading' => KillDue(p)' \/ Balanced(p)'
      BY <1>1 DEF UpInv
    <2>1. p \in Pids \ off
      BY <1>1
    <2>2. anvil'.ver["blocking"] = "no" => Behind(blocking, p)
      BY <1>4, <1>5, <2>1 DEF QuietInv, UpInv
    <2>3. ASSUME Reading' PROVE KillDue(p)' \/ Balanced(p)'
      <3>1. Reading /\ ~(ver = "yes" /\ line = VERSION)
        BY <1>8, <2>3
      <3>2. CASE ver = "yes" /\ line = KILL(p)
        BY <1>11, <3>2
      <3>3. CASE ~(ver = "yes" /\ line = KILL(p))
        <4>1. KillDue(p) \/ Balanced(p)
          BY <1>4, <2>1, <3>1 DEF QuietInv, UpInv
        <4>2. Balanced(p) => Balanced(p)'
          BY <1>1, <1>10, <3>3 DEF Balanced
        <4> QED BY <1>9, <3>1, <3>3, <4>1, <4>2
      <3> QED BY <3>2, <3>3
    <2> QED BY <2>2, <2>3
  <1> QED BY <1>3, <1>7, <1>12 DEF QuietInv

LEMMA QuietInit == ASSUME AnInit PROVE QuietInv
  <1>0. AnTypeOK
    BY TypeInit
  <1>1. /\ blocking = <<VERSION>> /\ clients = [p \in Pids |-> NoClients] /\ anvil.up
        /\ ident_pid_hash = [p \in Pids |-> NoClients]
    BY DEF AnInit
  <1>2. Len(blocking) = 1 /\ blocking[1] = VERSION /\ VERSION.cmd = "VERSION"
    BY <1>1 DEF VERSION
  <1>3. NoKills
    BY <1>2 DEF NoKills
  <1>4. ASSUME NEW p \in Pids PROVE Behind(blocking, p) /\ Balanced(p)
    <2>1. \A k \in 1..Len(blocking) : blocking[k] \notin About(p)
      BY <1>2, VersionOther
    <2>2. Behind(blocking, p)
      BY <1>2, <2>1 DEF Behind
    <2>3. \A i \in Idents : Leads(blocking, p, i, 0, 0)
      <3>1. ~Pending(blocking, p)
        BY <2>1 DEF Pending
      <3> QED BY <1>0, <3>1, QuietTypes, LeadsStill
    <2>4. Balanced(p)
      BY <1>1, <2>3, NoClientsIs DEF Balanced
    <2> QED BY <2>2, <2>4
  <1> QED BY <1>1, <1>3, <1>4 DEF QuietInv, DownInv, UpInv

LEMMA QuietNext == AnTypeOK /\ QuietInv /\ [AnNext]_anVars => QuietInv'
  <1> SUFFICES ASSUME AnTypeOK, QuietInv, [AnNext]_anVars PROVE QuietInv'
    OBVIOUS
  <1>1. ASSUME NEW q \in Pids, ProcStart(q) \/ ProcExit(q) \/ ProcFail(q) PROVE QuietInv'
    BY <1>1, QuietProc
  <1>2. CASE notify_flush \/ \E q \in Pids : ReapFailed(q)
    BY <1>2, QuietKill
  <1>3. ASSUME NEW q \in Pids, NEW j \in Idents, ClientCreate(q, j) \/ ClientDestroy(q, j) PROVE QuietInv'
    BY <1>3, ClientSteps, QuietClient
  <1>4. CASE service_list_anvil_discard_input
    BY <1>4, QuietDiscard
  <1>5. CASE service_anvil_process_created
    BY <1>5, QuietCreated
  <1>6. CASE ReadBlocking
    BY <1>6, QuietRead
  <1>7. CASE ReadNonblocking
    BY <1>7, QuietReadKill
  <1>8. CASE AnvilDie
    BY <1>8, QuietDie
  <1>9. CASE UNCHANGED anVars
    BY <1>9 DEF anVars, QuietInv, NoKills, DownInv, UpInv, Reading, KillDue, Balanced
  <1> QED BY <1>1, <1>2, <1>3, <1>4, <1>5, <1>6, <1>7, <1>8, <1>9 DEF AnNext

LEMMA QuietIs == ASSUME AnTypeOK, QuietInv PROVE QuietCount
  <1> SUFFICES ASSUME anvil.up, \A f \in PipeEnds : anvil.ver[f] = "yes",
                      blocking = <<>>, nonblock = <<>>, kills = <<>>, \A p \in Pids : proc[p] # "dead",
                      NEW p \in Pids \ off
               PROVE  ident_pid_hash[p] = clients[p]
    BY DEF QuietCount
  <1>1. Reading
    BY DEF Reading, PipeEnds
  <1>2. ~KillDue(p)
    BY DEF KillDue, KillIn
  <1>3. Balanced(p)
    BY <1>1, <1>2 DEF QuietInv, UpInv
  <1>4. \A i \in Idents : ident_pid_hash[p][i] = clients[p][i]
    BY <1>3, LeadsEmpty DEF Balanced
  <1>5. ident_pid_hash[p] \in [Idents -> Nat] /\ clients[p] \in [Idents -> Nat]
    BY QuietTypes DEF Counts
  <1> QED BY <1>4, <1>5

\* When both pipes are empty and every failed process is reaped, anvil counts
\* each process for exactly its clients (connect_limit_connect(),
\* connect_limit_disconnect(), connect_limit_disconnect_pid()), through failed
\* processes, reused pids and restarts of anvil: except the processes in off,
\* whose KILL overtook or was overtaken, or whose clients an earlier anvil knew.
THEOREM AnvilQuietCount == AnSpec => []QuietCount
  <1>1. AnInit => QuietInv
    BY QuietInit
  <1>2. AnTypeOK /\ QuietInv => QuietCount
    BY QuietIs
  <1> QED BY <1>1, <1>2, QuietNext, AnvilTypes, PTL DEF AnSpec

-----------------------------------------------------------------------------
(***************************************************************************)
(* The penalties (Penalty).                                                *)
(***************************************************************************)

-----------------------------------------------------------------------------
(* The inductive invariant.                                                *)

Recs == [penalty : Int, last_penalty : Int, last_update : Int, sums : Seq(Checksums)]

PenTypes ==
  /\ now \in Nat /\ plist \in Seq(PIdents) /\ expire_secs \in ExpireSecs
  /\ prec \in [PIdents -> Recs]
  /\ to \in Nat \cup {None} /\ touched \in [PIdents -> Nat \cup {None}]

\* The list is in the order of the updates, each address is in it once, and the
\* time of its update can be told from what the record stores.
ListInv ==
  /\ \A i, j \in 1..Len(plist) :
       i < j => plist[i] # plist[j] /\ touched[plist[i]] <= touched[plist[j]]
  /\ \A i \in 1..Len(plist) :
       touched[plist[i]] \in 0..now /\ LastUpdate(plist[i]) = touched[plist[i]]

\* The timer runs while there are records, for the oldest of them or earlier.
TimerInv ==
  /\ to = None <=> plist = <<>>
  /\ plist # <<>> => now <= to /\ to <= touched[plist[1]] + MaxExpire

PenInv == PenTypes /\ ListInv /\ TimerInv

-----------------------------------------------------------------------------
(* A record.                                                               *)

LEMMA MaxExpireIs == MaxExpire \in Nat /\ \A secs \in ExpireSecs : secs \in Nat \ {0} /\ secs <= MaxExpire
  <1>1. PICK m \in ExpireSecs : \A secs \in ExpireSecs : m >= secs
    BY PenAssumption
  <1>2. MaxExpire \in ExpireSecs /\ \A secs \in ExpireSecs : MaxExpire >= secs
    BY <1>1 DEF MaxExpire, Max
  <1> QED BY <1>2, PenAssumption

LEMMA BumpType ==
  ASSUME NEW sums \in Seq(Checksums), NEW c \in Checksums
  PROVE  BumpChecksum(sums, c) \in Seq(Checksums)
  <1> DEFINE s == <<c>> \o RemoveFirst(sums, c)
  <1>1. RemoveFirst(sums, c) \in Seq(Checksums)
    BY RemoveFirstDrops
  <1>2. s \in Seq(Checksums) /\ Len(s) \in Nat
    BY <1>1
  <1> HIDE DEF s
  <1>3. \A k \in 0..Len(s) : SubSeq(s, 1, k) \in Seq(Checksums)
    BY <1>2
  <1>4. (IF Len(s) < ChecksumMax THEN Len(s) ELSE ChecksumMax) \in 0..Len(s)
    BY <1>2, PenAssumption
  <1> QED BY <1>3, <1>4 DEF BumpChecksum, s

LEMMA IncreasedType ==
  ASSUME now \in Nat, NEW r \in Recs, NEW c \in Checksums, NEW v \in Values
  PROVE  Increased(r, c, v) \in Recs
  <1> DEFINE b == BumpChecksum(r.sums, c)
             w == v - 1
             d == IF c = 0 THEN r.sums ELSE b
             t == now
  <1>1. t \in Int /\ b \in Seq(Checksums) /\ v \in Int /\ w \in Int /\ d \in Seq(Checksums)
    BY BumpType, PenAssumption DEF Recs
  <1>2. \/ Increased(r, c, v) = [r EXCEPT !.penalty = w, !.sums = b]
        \/ Increased(r, c, v) = [r EXCEPT !.penalty = v, !.last_penalty = t, !.sums = d]
    BY DEF Increased
  <1> HIDE DEF b, w, d, t
  <1>3. [r EXCEPT !.penalty = w, !.sums = b] \in Recs
    BY <1>1 DEF Recs
  <1>4. [r EXCEPT !.penalty = v, !.last_penalty = t, !.sums = d] \in Recs
    <2> DEFINE m == [r EXCEPT !.penalty = v, !.last_penalty = t]
    <2>1. m \in Recs
      BY <1>1 DEF Recs
    <2>2. [m EXCEPT !.sums = d] \in Recs
      <3> HIDE DEF m
      <3> QED BY <1>1, <2>1 DEF Recs
    <2>3. [r EXCEPT !.penalty = v, !.last_penalty = t, !.sums = d] = [m EXCEPT !.sums = d]
      BY DEF Recs
    <2> QED BY <2>2, <2>3
  <1> QED BY <1>2, <1>3, <1>4

LEMMA UpdatedIs ==
  ASSUME now \in Nat, NEW r \in Recs
  PROVE  /\ Updated(r) \in Recs
         /\ Updated(r).last_penalty + Updated(r).last_update = now
  <1> DEFINE a == now - r.last_penalty
             b == UpdateMod - 1
             d == now - (UpdateMod - 1)
  <1>1. r.last_penalty \in Int /\ a \in Int /\ b \in Int /\ d \in Int
    BY PenAssumption DEF Recs
  <1>2. \/ Updated(r) = [r EXCEPT !.last_update = b, !.last_penalty = d]
        \/ Updated(r) = [r EXCEPT !.last_update = a]
    BY DEF Updated
  <1>3. b + d = now /\ r.last_penalty + a = now /\ d + b = now
    BY PenAssumption, <1>1
  <1> HIDE DEF a, b, d
  <1>4. LET m == [r EXCEPT !.last_update = b, !.last_penalty = d]
        IN  m \in Recs /\ m.last_update = b /\ m.last_penalty = d
    BY <1>1 DEF Recs
  <1>5. LET m == [r EXCEPT !.last_update = a]
        IN  m \in Recs /\ m.last_update = a /\ m.last_penalty = r.last_penalty
    BY <1>1 DEF Recs
  <1> QED BY <1>2, <1>3, <1>4, <1>5

-----------------------------------------------------------------------------
(* Every step keeps the invariant.                                         *)

LEMMA PenInvInit == PenInit => PenInv
  <1> SUFFICES ASSUME PenInit PROVE PenInv
    OBVIOUS
  <1>1. NewRec \in Recs
    BY DEF NewRec, Recs
  <1>2. MaxExpire \in ExpireSecs
    BY PenAssumption DEF MaxExpire, Max
  <1> QED BY <1>1, <1>2 DEF PenInit, PenInv, PenTypes, ListInv, TimerInv

LEMMA IncInv ==
  ASSUME PenInv, NEW p \in PIdents, NEW c \in Checksums, NEW v \in Values, penalty_inc(p, c, v)
  PROVE  PenInv'
  <1> DEFINE U == Unlinked(p)
             L == Append(U, p)
             N(q) == prec'[q].last_penalty + prec'[q].last_update
  <1>1. now \in Nat /\ prec[p] \in Recs /\ expire_secs \in Nat \ {0} /\ expire_secs <= MaxExpire
    BY MaxExpireIs DEF PenInv, PenTypes
  <1>2. /\ prec' \in [PIdents -> Recs] /\ \A q \in PIdents \ {p} : prec'[q] = prec[q]
        /\ prec'[p].last_penalty + prec'[p].last_update = now
    <2> DEFINE r == Updated(Increased(prec[p], c, v))
    <2>1. r \in Recs /\ r.last_penalty + r.last_update = now
      BY <1>1, IncreasedType, UpdatedIs
    <2>2. prec' = [prec EXCEPT ![p] = r]
      BY DEF penalty_inc
    <2> HIDE DEF r
    <2> QED BY <2>1, <2>2 DEF PenInv, PenTypes
  <1>3. /\ now' = now /\ expire_secs' = expire_secs /\ plist' = L
        /\ touched' = [touched EXCEPT ![p] = now]
        /\ to' = IF to = None THEN now + expire_secs ELSE to
    BY DEF penalty_inc
  <1>4. plist \in Seq(PIdents) /\ touched \in [PIdents -> Nat \cup {None}]
    BY DEF PenInv, PenTypes
  <1>5. \/ U = plist /\ ~Contains(plist, p)
        \/ \E k \in 1..Len(plist) : plist[k] = p /\ U \in Seq(PIdents) /\ Drops(U, plist, k)
    BY <1>4, RemoveFirstDrops DEF Unlinked
  <1> HIDE DEF U
  <1>6. U \in Seq(PIdents)
    BY <1>4, <1>5
  <1>7. /\ L \in Seq(PIdents) /\ Len(L) = Len(U) + 1 /\ L[Len(U) + 1] = p
        /\ \A i \in 1..Len(U) : L[i] = U[i]
    BY <1>6
  <1>8. ASSUME NEW i \in 1..Len(U)
        PROVE  /\ U[i] # p /\ U[i] \in PIdents /\ plist # <<>>
               /\ touched[U[i]] \in 0..now /\ LastUpdate(U[i]) = touched[U[i]]
               /\ touched[plist[1]] <= touched[U[i]]
               /\ \A j \in 1..Len(U) : i < j => U[i] # U[j] /\ touched[U[i]] <= touched[U[j]]
    <2>1. CASE U = plist /\ ~Contains(plist, p)
      BY <1>4, <2>1 DEF PenInv, ListInv, Contains
    <2>2. ASSUME NEW k \in 1..Len(plist), plist[k] = p, U \in Seq(PIdents), Drops(U, plist, k)
          PROVE  <1>8!2
      <3> DEFINE g(x) == IF x < k THEN x ELSE x + 1
      <3>1. \A x \in 1..Len(U) : U[x] = plist[g(x)] /\ g(x) \in 1..Len(plist) /\ g(x) # k
        BY <2>2, <1>4 DEF Drops
      <3>2. \A x, y \in 1..Len(U) : x < y => g(x) < g(y)
        OBVIOUS
      <3> HIDE DEF g
      <3>3. U[i] # p
        <4>1. \A x, y \in 1..Len(plist) : x # y => plist[x] # plist[y]
          <5> SUFFICES ASSUME NEW x \in 1..Len(plist), NEW y \in 1..Len(plist), x # y
                       PROVE  plist[x] # plist[y]
            OBVIOUS
          <5>1. x < y \/ y < x
            OBVIOUS
          <5> QED BY <5>1 DEF PenInv, ListInv
        <4> QED BY <2>2, <3>1, <4>1
      <3>4. touched[U[i]] \in 0..now /\ LastUpdate(U[i]) = touched[U[i]]
        BY <3>1 DEF PenInv, ListInv
      <3>5. touched[plist[1]] <= touched[U[i]]
        <4>1. CASE g(i) = 1
          BY <3>1, <3>4, <4>1
        <4>2. CASE g(i) # 1
          <5> DEFINE m == g(i)
          <5>1. m \in 1..Len(plist) /\ 1 \in 1..Len(plist) /\ 1 < m /\ U[i] = plist[m]
            BY <3>1, <4>2, <1>4
          <5> HIDE DEF m
          <5> QED BY <5>1 DEF PenInv, ListInv
        <4> QED BY <4>1, <4>2
      <3>6. \A j \in 1..Len(U) : i < j => U[i] # U[j] /\ touched[U[i]] <= touched[U[j]]
        <4> SUFFICES ASSUME NEW j \in 1..Len(U), i < j
                     PROVE  U[i] # U[j] /\ touched[U[i]] <= touched[U[j]]
          OBVIOUS
        <4>1. g(i) \in 1..Len(plist) /\ g(j) \in 1..Len(plist) /\ g(i) < g(j)
          BY <3>1, <3>2
        <4>2. plist[g(i)] # plist[g(j)] /\ touched[plist[g(i)]] <= touched[plist[g(j)]]
          BY <4>1 DEF PenInv, ListInv
        <4> QED BY <3>1, <4>2
      <3> QED BY <1>4, <1>6, <3>3, <3>4, <3>5, <3>6
    <2> QED BY <1>5, <2>1, <2>2
  <1>9. \A q \in PIdents : touched'[q] = IF q = p THEN now ELSE touched[q]
    BY <1>3, <1>4
  <1>10. N(p) = now /\ \A q \in PIdents \ {p} : N(q) = LastUpdate(q)
    BY <1>2 DEF LastUpdate
  <1> HIDE DEF L, N
  <1>11. PenTypes'
    BY <1>1, <1>2, <1>3, <1>7 DEF PenInv, PenTypes
  <1>12. ListInv'
    <2>1. ASSUME NEW i \in 1..Len(L)
          PROVE  /\ L[i] \in PIdents /\ touched'[L[i]] \in 0..now
                 /\ N(L[i]) = touched'[L[i]]
      <3>1. CASE i \in 1..Len(U)
        BY <1>7, <1>8, <1>9, <1>10, <3>1
      <3>2. CASE i = Len(U) + 1
        BY <1>1, <1>7, <1>9, <1>10, <3>2
      <3> QED BY <1>6, <1>7, <3>1, <3>2
    <2>2. ASSUME NEW i \in 1..Len(L), NEW j \in 1..Len(L), i < j
          PROVE  L[i] # L[j] /\ touched'[L[i]] <= touched'[L[j]]
      <3>1. i \in 1..Len(U) /\ L[i] = U[i]
        BY <1>6, <1>7, <2>2
      <3>2. CASE j \in 1..Len(U)
        BY <1>7, <1>8, <1>9, <2>2, <3>1, <3>2
      <3>3. CASE j = Len(U) + 1
        BY <1>7, <1>8, <1>9, <3>1, <3>3
      <3> QED BY <1>6, <1>7, <3>2, <3>3
    <2>3. ListInv' = (/\ \A i, j \in 1..Len(L) :
                          i < j => L[i] # L[j] /\ touched'[L[i]] <= touched'[L[j]]
                      /\ \A i \in 1..Len(L) :
                          touched'[L[i]] \in 0..now /\ N(L[i]) = touched'[L[i]])
      BY <1>3 DEF ListInv, LastUpdate, N
    <2> QED BY <2>1, <2>2, <2>3
  <1>13. TimerInv'
    <2>1. L # <<>>
      BY <1>7, <1>6
    <2>2. CASE to = None
      <3>1. plist = <<>>
        BY <2>2 DEF PenInv, TimerInv
      <3>2. L[1] = p
        BY <1>6, <1>7, <1>8, <3>1
      <3>3. to' = now + expire_secs /\ to' # None
        BY <1>1, <1>3, <2>2 DEF None
      <3> QED BY <1>1, <1>3, <1>9, <2>1, <3>2, <3>3, MaxExpireIs DEF TimerInv
    <2>3. CASE to # None
      <3>1. to' = to /\ now <= to /\ to <= touched[plist[1]] + MaxExpire /\ to \in Nat
        BY <1>3, <2>3 DEF PenInv, TimerInv, PenTypes
      <3>2. plist # <<>> /\ plist[1] \in PIdents /\ touched[plist[1]] \in 0..now
        BY <1>4, <2>3 DEF PenInv, TimerInv, ListInv
      <3>3. L[1] \in PIdents /\ touched[plist[1]] <= touched'[L[1]] /\ touched'[L[1]] \in Nat
        <4>1. CASE Len(U) = 0
          BY <1>1, <1>7, <1>9, <3>2, <4>1
        <4>2. CASE Len(U) # 0
          BY <1>6, <1>7, <1>8, <1>9, <4>2
        <4> QED BY <4>1, <4>2
      <3> QED BY <1>1, <1>3, <2>1, <2>3, <3>1, <3>2, <3>3, MaxExpireIs DEF TimerInv
    <2> QED BY <2>2, <2>3
  <1> QED BY <1>11, <1>12, <1>13 DEF PenInv

\* What penalty_timeout() keeps: a tail of the list; all before it is too old.
Kept ==
  LET left == SelectInSeq(plist, Fresh)
  IN  IF left = 0 THEN <<>> ELSE SubSeq(plist, left, Len(plist))

KeptFrom(K, k) ==
  /\ Len(K) = Len(plist) + 1 - k
  /\ \A i \in 1..Len(K) : K[i] = plist[i + k - 1]
  /\ \A i \in 1..(k - 1) : ~Fresh(plist[i])
  /\ k <= Len(plist) => Fresh(plist[k])

LEMMA KeptIs ==
  ASSUME plist \in Seq(PIdents)
  PROVE  Kept \in Seq(PIdents) /\ \E k \in 1..(Len(plist) + 1) : KeptFrom(Kept, k)
  <1> DEFINE I == {i \in 1..Len(plist) : Fresh(plist[i])}
  <1>1. SelectInSeq(plist, Fresh) = IF I # {} THEN Min(I) ELSE 0
    BY DEF SelectInSeq
  <1>2. I \subseteq 1..Len(plist)
    OBVIOUS
  <1>3. CASE I = {}
    <2>1. Kept = <<>>
      BY <1>1, <1>3 DEF Kept
    <2>2. KeptFrom(Kept, Len(plist) + 1)
      BY <1>3, <2>1 DEF KeptFrom
    <2> QED BY <2>1, <2>2
  <1>4. CASE I # {}
    <2> DEFINE k == Min(I)
    <2>1. k \in I /\ \A y \in I : k <= y
      <3>1. I \subseteq Nat
        BY <1>2
      <3> HIDE DEF I
      <3> QED BY <1>4, <3>1, LeastIndex
    <2> HIDE DEF k
    <2>2. Kept = SubSeq(plist, k, Len(plist)) /\ k \in 1..Len(plist)
      <3>1. k \in 1..Len(plist) /\ k # 0
        BY <2>1
      <3>2. SelectInSeq(plist, Fresh) = k
        BY <1>1, <1>4 DEF k
      <3> QED BY <3>1, <3>2 DEF Kept
    <2>3. Kept \in Seq(PIdents) /\ Len(Kept) = Len(plist) + 1 - k
      BY <2>2, SubSeqProperties
    <2>4. \A i \in 1..Len(Kept) : Kept[i] = plist[i + k - 1]
      BY <2>2, <2>3, SubSeqProperties
    <2>5. KeptFrom(Kept, k)
      BY <2>1, <2>2, <2>3, <2>4 DEF KeptFrom
    <2> QED BY <2>2, <2>3, <2>5
  <1> QED BY <1>3, <1>4

LEMMA TimeoutInv == ASSUME PenInv, penalty_timeout PROVE PenInv'
  <1> DEFINE K == Kept
             N(q) == prec'[q].last_penalty + prec'[q].last_update
  <1>1. /\ now \in Nat /\ plist \in Seq(PIdents) /\ touched \in [PIdents -> Nat \cup {None}]
        /\ prec \in [PIdents -> Recs] /\ expire_secs \in ExpireSecs
        /\ expire_secs \in Nat \ {0} /\ expire_secs <= MaxExpire
    BY MaxExpireIs DEF PenInv, PenTypes
  <1>2. /\ plist' = K /\ now' = now /\ expire_secs' = expire_secs /\ touched' = touched
        /\ prec' = [p \in PIdents |-> IF Contains(K, p) THEN prec[p] ELSE NewRec]
        /\ to' = IF K = <<>> THEN None ELSE now + LastUpdate(Head(K)) - (now - expire_secs)
    BY DEF penalty_timeout, Kept
  <1>3. K \in Seq(PIdents)
    BY <1>1, KeptIs
  <1>4. PICK k \in 1..(Len(plist) + 1) : KeptFrom(K, k)
    BY <1>1, KeptIs
  <1> HIDE DEF K, N
  <1>5. \A i \in 1..Len(K) : /\ i + k - 1 \in 1..Len(plist) /\ K[i] = plist[i + k - 1]
                             /\ K[i] \in PIdents /\ N(K[i]) = LastUpdate(K[i])
    <2> SUFFICES ASSUME NEW i \in 1..Len(K)
                 PROVE  /\ i + k - 1 \in 1..Len(plist) /\ K[i] = plist[i + k - 1]
                        /\ K[i] \in PIdents /\ N(K[i]) = LastUpdate(K[i])
      OBVIOUS
    <2>1. i + k - 1 \in 1..Len(plist) /\ K[i] = plist[i + k - 1] /\ K[i] \in PIdents
      BY <1>1, <1>3, <1>4 DEF KeptFrom
    <2>2. prec'[K[i]] = prec[K[i]]
      BY <1>2, <2>1 DEF Contains
    <2> QED BY <2>1, <2>2 DEF LastUpdate, N
  <1>6. \A i, j \in 1..Len(K) : i < j => K[i] # K[j] /\ touched[K[i]] <= touched[K[j]]
    <2> SUFFICES ASSUME NEW i \in 1..Len(K), NEW j \in 1..Len(K), i < j
                 PROVE  K[i] # K[j] /\ touched[K[i]] <= touched[K[j]]
      OBVIOUS
    <2> DEFINE a == i + k - 1
               b == j + k - 1
    <2>1. a < b /\ a \in 1..Len(plist) /\ b \in 1..Len(plist) /\ K[i] = plist[a] /\ K[j] = plist[b]
      BY <1>5
    <2> HIDE DEF a, b
    <2> QED BY <2>1 DEF PenInv, ListInv
  <1>7. \A i \in 1..Len(K) : touched[K[i]] \in 0..now /\ N(K[i]) = touched[K[i]]
    <2> SUFFICES ASSUME NEW i \in 1..Len(K)
                 PROVE  touched[K[i]] \in 0..now /\ N(K[i]) = touched[K[i]]
      OBVIOUS
    <2> DEFINE a == i + k - 1
    <2>1. a \in 1..Len(plist) /\ K[i] = plist[a] /\ N(K[i]) = LastUpdate(K[i])
      BY <1>5
    <2> HIDE DEF a
    <2> QED BY <2>1 DEF PenInv, ListInv
  <1>8. ListInv'
    <2>1. ListInv' = (/\ \A i, j \in 1..Len(K) :
                          i < j => K[i] # K[j] /\ touched[K[i]] <= touched[K[j]]
                      /\ \A i \in 1..Len(K) :
                          touched[K[i]] \in 0..now /\ N(K[i]) = touched[K[i]])
      BY <1>2 DEF ListInv, LastUpdate, N
    <2> QED BY <1>6, <1>7, <2>1
  <1>9. K # <<>> => /\ to' = touched[K[1]] + expire_secs /\ now <= to' /\ to' \in Nat
                    /\ touched[K[1]] \in 0..now
    <2> SUFFICES ASSUME K # <<>>
                 PROVE  /\ to' = touched[K[1]] + expire_secs /\ now <= to' /\ to' \in Nat
                        /\ touched[K[1]] \in 0..now
      OBVIOUS
    <2>1. 1 \in 1..Len(K) /\ Head(K) = K[1]
      BY <1>3
    <2>2. K[1] = plist[k] /\ k <= Len(plist) /\ Fresh(plist[k])
      BY <1>5, <2>1, <1>4 DEF KeptFrom
    <2>3. LastUpdate(K[1]) = touched[K[1]] /\ touched[K[1]] \in 0..now
      BY <1>5, <1>7, <2>1
    <2>4. touched[K[1]] > now - expire_secs
      BY <2>2, <2>3 DEF Fresh
    <2>5. to' = now + touched[K[1]] - (now - expire_secs)
      BY <1>2, <2>1, <2>3
    <2> QED BY <1>1, <2>3, <2>4, <2>5
  <1>10. TimerInv'
    <2>1. K = <<>> => to' = None
      BY <1>2
    <2> QED BY <1>1, <1>2, <1>9, <2>1, MaxExpireIs DEF TimerInv, None
  <1>11. PenTypes'
    <2>1. NewRec \in Recs
      BY DEF NewRec, Recs
    <2>2. prec' \in [PIdents -> Recs]
      BY <1>1, <1>2, <2>1
    <2>3. to' \in Nat \cup {None}
      BY <1>2, <1>9
    <2> QED BY <1>1, <1>2, <1>3, <2>2, <2>3 DEF PenTypes
  <1> QED BY <1>8, <1>10, <1>11 DEF PenInv

LEMMA PenInvNext == ASSUME PenInv, [PenNext]_penVars PROVE PenInv'
  <1>1. ASSUME NEW p \in PIdents, NEW c \in Checksums, NEW v \in Values, penalty_inc(p, c, v)
        PROVE  PenInv'
    BY <1>1, IncInv
  <1>2. ASSUME NEW secs \in ExpireSecs, penalty_set_expire_secs(secs) PROVE PenInv'
    BY <1>2 DEF penalty_set_expire_secs, PenInv, PenTypes, ListInv, TimerInv, LastUpdate
  <1>3. CASE penalty_timeout
    BY <1>3, TimeoutInv
  <1>4. CASE Second
    <2>1. PenTypes' /\ TimerInv'
      BY <1>4 DEF Second, PenInv, PenTypes, TimerInv
    <2>2. ListInv'
      BY <1>4 DEF Second, PenInv, PenTypes, ListInv, LastUpdate
    <2> QED BY <2>1, <2>2 DEF PenInv
  <1>5. CASE UNCHANGED penVars
    BY <1>5 DEF penVars, PenInv, PenTypes, ListInv, TimerInv, LastUpdate
  <1> QED BY <1>1, <1>2, <1>3, <1>4, <1>5 DEF PenNext

LEMMA PenInvAlways == PenSpec => []PenInv
  BY PenInvInit, PenInvNext, PTL DEF PenSpec

-----------------------------------------------------------------------------
(* The theorems.                                                           *)

\* No record outlives the longest expire_secs, though penalty_timeout() looks
\* only at the head of the list and one timer serves all of it.
THEOREM PenaltyAges == PenSpec => []PenaltyAge
  <1>1. ASSUME PenInv PROVE PenaltyAge
    <2> SUFFICES ASSUME NEW i \in 1..Len(plist)
                 PROVE  now - touched[plist[i]] <= MaxExpire
      BY DEF PenaltyAge, Contains
    <2>1. now \in Nat /\ to \in Nat \cup {None} /\ plist # <<>>
      BY <1>1 DEF PenInv, PenTypes
    <2>2. to \in Nat /\ now <= to /\ to <= touched[plist[1]] + MaxExpire
      BY <1>1, <2>1 DEF PenInv, TimerInv
    <2>3. touched[plist[1]] <= touched[plist[i]] /\ touched[plist[1]] \in Nat
          /\ touched[plist[i]] \in Nat
      BY <1>1 DEF PenInv, ListInv
    <2> QED BY <2>1, <2>2, <2>3, MaxExpireIs
  <1> QED BY <1>1, PenInvAlways, PTL

\* penalty_timeout() frees no record before expire_secs have passed since the
\* last penalty_inc() for it, although a record keeps only a short offset.
THEOREM NoEarlyExpiry == PenSpec => PenaltyNotEarly
  <1> DEFINE A == \A p \in PIdents : Contains(plist, p) /\ ~Contains(plist', p)
                                     => now - touched[p] >= expire_secs
  <1>1. ASSUME PenInv, [PenNext]_penVars PROVE [A]_penVars
    <2> SUFFICES ASSUME NEW x \in 1..Len(plist), ~Contains(plist', plist[x]), PenNext
                 PROVE  now - touched[plist[x]] >= expire_secs
      BY <1>1 DEF Contains
    <2>1. plist \in Seq(PIdents) /\ now \in Nat /\ expire_secs \in Nat
      BY <1>1, MaxExpireIs DEF PenInv, PenTypes
    <2>2. ASSUME NEW p \in PIdents, NEW c \in Checksums, NEW v \in Values, penalty_inc(p, c, v)
          PROVE  FALSE
      <3> DEFINE U == Unlinked(p)
      <3>1. plist' = Append(U, p)
        BY <2>2 DEF penalty_inc
      <3>2. \/ U = plist
            \/ \E k \in 1..Len(plist) : plist[k] = p /\ U \in Seq(PIdents) /\ Drops(U, plist, k)
        BY <2>1, RemoveFirstDrops DEF Unlinked
      <3> HIDE DEF U
      <3>3. Contains(Append(U, p), plist[x])
        <4>1. CASE U = plist
          <5>1. x \in 1..Len(Append(U, p)) /\ Append(U, p)[x] = plist[x]
            BY <2>1, <4>1
          <5> QED BY <5>1 DEF Contains
        <4>2. ASSUME NEW k \in 1..Len(plist), plist[k] = p, U \in Seq(PIdents), Drops(U, plist, k)
              PROVE  Contains(Append(U, p), plist[x])
          <5>1. CASE x = k
            <6>1. Len(U) + 1 \in 1..Len(Append(U, p)) /\ Append(U, p)[Len(U) + 1] = plist[x]
              BY <4>2, <5>1
            <6> QED BY <6>1 DEF Contains
          <5>2. CASE x < k
            <6>1. x \in 1..Len(U) /\ U[x] = plist[x]
              BY <2>1, <4>2, <5>2 DEF Drops
            <6>2. x \in 1..Len(Append(U, p)) /\ Append(U, p)[x] = plist[x]
              BY <4>2, <6>1
            <6> QED BY <6>2 DEF Contains
          <5>3. CASE x > k
            <6>1. x - 1 \in 1..Len(U) /\ U[x - 1] = plist[x]
              BY <2>1, <4>2, <5>3 DEF Drops
            <6>2. x - 1 \in 1..Len(Append(U, p)) /\ Append(U, p)[x - 1] = plist[x]
              BY <4>2, <6>1
            <6> QED BY <6>2 DEF Contains
          <5> QED BY <5>1, <5>2, <5>3
        <4> QED BY <3>2, <4>1, <4>2
      <3> QED BY <3>1, <3>3
    <2>3. CASE penalty_timeout
      <3> DEFINE K == Kept
      <3>1. plist' = K
        BY <2>3 DEF penalty_timeout, Kept
      <3>2. PICK k \in 1..(Len(plist) + 1) : KeptFrom(K, k)
        BY <2>1, KeptIs
      <3> HIDE DEF K
      <3>3. CASE x < k
        <4>1. ~Fresh(plist[x]) /\ LastUpdate(plist[x]) = touched[plist[x]]
              /\ touched[plist[x]] \in Nat
          BY <1>1, <3>2, <3>3 DEF KeptFrom, PenInv, ListInv
        <4> QED BY <2>1, <4>1 DEF Fresh
      <3>4. CASE x >= k
        <4>1. x + 1 - k \in 1..Len(K) /\ K[x + 1 - k] = plist[x]
          BY <2>1, <3>2, <3>4 DEF KeptFrom
        <4> QED BY <3>1, <4>1 DEF Contains
      <3> QED BY <3>3, <3>4
    <2>4. ASSUME NEW secs \in ExpireSecs, penalty_set_expire_secs(secs) PROVE FALSE
      BY <2>4 DEF penalty_set_expire_secs, Contains
    <2>5. CASE Second
      BY <2>5 DEF Second, Contains
    <2> QED BY <2>2, <2>3, <2>4, <2>5 DEF PenNext
  <1> QED BY <1>1, PenInvAlways, PTL DEF PenSpec, PenaltyNotEarly
=============================================================================
