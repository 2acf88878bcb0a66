-------------------------- MODULE AggregatorProofs --------------------------
(***************************************************************************)
(* Proofs about the way of a change to the replicator, for any users,      *)
(* sizes of the FIFO, the socket buffer, the block and the queues, and any *)
(* environment.  What is said of answers holds until the request id, an    *)
(* unsigned int, wraps (NoWrap).                                           *)
(***************************************************************************)
EXTENDS Aggregator, ListLemmas

-----------------------------------------------------------------------------
(* The inductive invariant: types, then the notify connections, then the   *)
(* answers and what became of a change.                                    *)

\* Only the users that wait for answers have sync lines.
AggLines == {l \in Lines : l.p = SYNC => l.u \in SyncUsers}
RequestRec == [id : 1..(IdMod - 1), conn : ConnIds]
AnswerRec == [id : 0..(IdMod - 1), answer : {"+", "-"}]
RcRec == [fd : BOOLEAN, to : BOOLEAN, peer : BOOLEAN, queue : [Queues -> Seq(AggLines)],
          out : Seq(AggLines), wire : Seq(AggLines), pending : BOOLEAN,
          looping : BOOLEAN, requests : SUBSET RequestRec, counter : 0..(IdMod - 1),
          replies : Seq(AnswerRec)]

\* A connection to the replicator: its buffers keep within their limits, and
\* nothing is in the buffers of a connection that is closed.
RcOK(r) ==
  /\ r \in RcRec
  /\ Len(r.wire) <= WireMax /\ \A p \in Queues : Len(r.queue[p]) <= QueueMax
  /\ r.looping => r.fd
  /\ ~r.fd => r.out = <<>> /\ r.wire = <<>>

\* The lines of the connection to the replicator, and all that are under way.
RcLines(r) == QueueLines(r) \cup OutLines(r)
AllLines == Range(fifo) \cup RcLines(rc) \cup rsyncs

PluginInv ==
  /\ plugin \in [Users -> PluginRec]
  /\ \A u \in Users : plugin[u].to => plugin[u].prio # NONE
FifoInv == fifo \in Seq(AggLines) /\ Len(fifo) <= FifoMax /\ \A l \in Range(fifo) : l.p # SYNC
HistInv ==
  /\ n \in [Users -> 0..MaxChanges] /\ waiting \in [Users -> BOOLEAN]
  /\ rsyncs \subseteq {l \in AggLines : l.p = SYNC} /\ good \subseteq ConnIds
  /\ told \subseteq Users /\ lost \subseteq Users

\* Of one user's changes no line is newer than the last.
LinesOld == \A l \in AllLines : l.n <= n[l.u]

AggTypes == PluginInv /\ FifoInv /\ HistInv /\ RcOK(rc) /\ sock \in [ConnIds -> SockRec]

\* What holds a reference to a notify connection.
Asked(r, k) == \E q \in r.requests : q.conn = k
Held(s, r, k) == (IF s.srv = "open" THEN 1 ELSE 0) + (IF Asked(r, k) THEN 1 ELSE 0)

\* One notify connection: its reference count, the one request it makes, and
\* that it was opened for a change that has been.
SockOK(s, r, k) ==
  /\ s.ref = Held(s, r, k)
  /\ s.srv = "none" => s = NoSock
  /\ s.srv = "backlog" => s.line
  /\ s.line => s.srv \in {"backlog", "open"} /\ ~Asked(r, k)
  /\ s.line \/ Asked(r, k) => s.reply = <<>>
  /\ Len(s.reply) <= 1

SockInv ==
  /\ \A q1, q2 \in rc.requests : q1.conn = q2.conn => q1 = q2
  /\ \A k \in ConnIds : SockOK(sock[k], rc, k)
\* A connection belongs to a change that was made, and a process that waits
\* has its connection open.
OpenInv ==
  /\ \A k \in ConnIds : sock[k].srv # "none" => k[2] <= n[k[1]]
  /\ \A u \in Users : waiting[u] => <<u, n[u]>> \in ConnIds /\ sock[<<u, n[u]>>].cl

AggInv == AggTypes /\ SockInv /\ OpenInv /\ LinesOld

\* request_id_counter has not wrapped: fewer than 2^32 requests since the
\* process started.
NoWrap == rc.counter + 1 < IdMod

\* The ids of lines, requests and answers have been given out, and the line
\* and the request of one id belong together.
IdsUsed ==
  /\ \A l \in RcLines(rc) \cup rsyncs : l.p = SYNC => l.id \in 1..rc.counter
  /\ \A q \in rc.requests : q.id <= rc.counter
  /\ \A a \in Range(rc.replies) : a.id <= rc.counter
IdsMatch ==
  \A l \in RcLines(rc) \cup rsyncs, q \in rc.requests :
    l.p = SYNC /\ l.id = q.id => q.conn = <<l.u, l.n>>
\* A "+" on its way to a client, from the replicator or to the socket, is an
\* answer to the client's own request.
AnswersGood ==
  \A a \in Range(rc.replies), q \in rc.requests :
    a.answer = "+" /\ a.id = q.id /\ sock[q.conn].cl => q.conn \in good
RepliesGood == \A k \in ConnIds : sock[k].reply = <<"+">> => k \in good
\* The replicator was told of what it answered.
GoodTold ==
  /\ \A k \in good : k[2] <= n[k[1]] /\ (k[2] = n[k[1]] => k[1] \in told)
  /\ \A l \in rsyncs : l.n = n[l.u] => l.u \in told

\* ChangeAccounted, with the lines as one set.
Accounted ==
  \A u \in Users : u \notin told =>
    \/ waiting[u] \/ plugin[u].to \/ u \in lost
    \/ \E l \in Range(fifo) \cup RcLines(rc) : l.u = u /\ l.p # SYNC /\ l.n = n[u]

AnswerInv ==
  IdsUsed /\ IdsMatch /\ AnswersGood /\ RepliesGood /\ GoodTold /\ Accounted

-----------------------------------------------------------------------------
(* What the functions on a connection to the replicator do to it.          *)

LEMMA RcLinesIs ==
  ASSUME NEW r, NEW l
  PROVE  l \in RcLines(r) <=> \/ \E p \in Queues : l \in Range(r.queue[p])
                              \/ l \in Range(r.out) \/ l \in Range(r.wire)
  BY DEF RcLines, QueueLines, OutLines, LinesOf

LEMMA SameLines ==
  ASSUME NEW r, NEW s, s.queue = r.queue, s.out = r.out, s.wire = r.wire
  PROVE  RcLines(s) = RcLines(r)
  BY DEF RcLines, QueueLines, OutLines

\* s has the requests of r, and no answers that r does not have.
Like(r, s) ==
  /\ s.requests = r.requests /\ s.counter = r.counter
  /\ Range(s.replies) \subseteq Range(r.replies)

LEMMA NoLines == Range(<<>>) = {}
  BY DEF Range

\* Fit(): lines go from the stream's buffer to the socket.
LEMMA FitOK ==
  ASSUME NEW r \in RcRec, Len(r.wire) <= WireMax
  PROVE  /\ Fit(r) \in RcRec /\ Len(Fit(r).wire) <= WireMax
         /\ Fit(r).fd = r.fd /\ Fit(r).peer = r.peer /\ Fit(r).queue = r.queue
         /\ Fit(r).looping = r.looping /\ Fit(r).to = r.to
         /\ Fit(r).requests = r.requests /\ Fit(r).counter = r.counter
         /\ Fit(r).replies = r.replies
         /\ RcLines(Fit(r)) = RcLines(r)
  <1> DEFINE k == IF Len(r.out) < WireMax - Len(r.wire) THEN Len(r.out) ELSE WireMax - Len(r.wire)
             a == SubSeq(r.out, 1, k)
             b == SubSeq(r.out, k + 1, Len(r.out))
             c == r.wire \o a
             f == [r EXCEPT !.out = b, !.wire = c]
  <1>1. r.out \in Seq(AggLines) /\ r.wire \in Seq(AggLines)
    BY DEF RcRec
  <1>2. k \in 0..Len(r.out) /\ Len(r.wire) + k <= WireMax
    <2> DEFINE x == Len(r.out)
               y == Len(r.wire)
    <2>1. x \in Nat /\ y \in Nat /\ WireMax \in Nat /\ y <= WireMax
      BY <1>1, AggAssumption
    <2>2. k = IF x < WireMax - y THEN x ELSE WireMax - y
      OBVIOUS
    <2> HIDE DEF x, y, k
    <2>3. k \in 0..x /\ y + k <= WireMax
      BY <2>1, <2>2
    <2> QED BY <2>3 DEF x, y
  <1>3. Fit(r) = f
    BY DEF Fit
  <1> HIDE DEF k
  <1>4. /\ a \in Seq(AggLines) /\ Len(a) = k /\ b \in Seq(AggLines)
        /\ Range(r.out) = Range(a) \cup Range(b)
    BY <1>1, <1>2, SplitLines
  <1> HIDE DEF a, b
  <1>5. c \in Seq(AggLines) /\ Len(c) = Len(r.wire) + k /\ Range(c) = Range(r.wire) \cup Range(a)
    <2> DEFINE w == r.wire
    <2> HIDE DEF w
    <2>1. w \in Seq(AggLines)
      BY <1>1 DEF w
    <2>2. w \o a \in Seq(AggLines) /\ Len(w \o a) = Len(w) + Len(a) /\ Range(w \o a) = Range(w) \cup Range(a)
      BY <2>1, <1>4, ConcatLines
    <2> QED BY <2>2, <1>4 DEF w
  <1> HIDE DEF c
  <1>6. f \in RcRec /\ f.out = b /\ f.wire = c
    BY <1>4, <1>5 DEF RcRec
  <1>7. /\ f.fd = r.fd /\ f.peer = r.peer /\ f.queue = r.queue /\ f.looping = r.looping
        /\ f.to = r.to /\ f.requests = r.requests /\ f.counter = r.counter /\ f.replies = r.replies
    BY DEF RcRec
  <1> HIDE DEF f
  <1>8. RcLines(f) = RcLines(r)
    <2> SUFFICES ASSUME NEW l PROVE l \in RcLines(f) <=> l \in RcLines(r)
      OBVIOUS
    <2> QED BY <1>4, <1>5, <1>6, <1>7, RcLinesIs
  <1> QED BY <1>2, <1>3, <1>5, <1>6, <1>7, <1>8

\* replicator_connection_connect() keeps the queues and the requests.
LEMMA ConnectOK ==
  ASSUME NEW r, RcOK(r)
  PROVE  /\ RcOK(replicator_connection_connect(r)) /\ Like(r, replicator_connection_connect(r))
         /\ RcLines(replicator_connection_connect(r)) = RcLines(r)
         /\ replicator_connection_connect(r).looping = r.looping
         /\ ~replicator_connection_connect(r).fd => ~r.fd
  <1> DEFINE s == replicator_connection_connect(r)
  <1>0. r \in RcRec
    BY DEF RcOK
  <1>1. CASE r.fd
    BY <1>1 DEF replicator_connection_connect, Like
  <1>2. CASE ~r.fd /\ ~repl
    <2> DEFINE t == [r EXCEPT !.to = TRUE]
    <2>1. s = t
      BY <1>2 DEF replicator_connection_connect
    <2>2. /\ t \in RcRec /\ t.fd = r.fd /\ t.peer = r.peer /\ t.queue = r.queue /\ t.out = r.out
          /\ t.wire = r.wire /\ t.looping = r.looping /\ t.requests = r.requests
          /\ t.counter = r.counter /\ t.replies = r.replies
      BY <1>0 DEF RcRec
    <2> HIDE DEF t, s
    <2>3. RcLines(t) = RcLines(r)
      BY <2>2, SameLines
    <2> QED BY <2>1, <2>2, <2>3, <1>2 DEF RcOK, Like, s
  <1>3. CASE ~r.fd /\ repl
    <2> DEFINE t == [r EXCEPT !.to = FALSE, !.fd = TRUE, !.peer = TRUE, !.wire = <<>>,
                              !.out = <<>>, !.replies = <<>>, !.pending = FALSE]
    <2>1. s = t
      BY <1>3 DEF replicator_connection_connect
    <2>2. /\ t \in RcRec /\ t.fd /\ t.peer /\ t.queue = r.queue /\ t.out = <<>>
          /\ t.wire = <<>> /\ t.looping = r.looping /\ t.requests = r.requests
          /\ t.counter = r.counter /\ t.replies = <<>>
      <3>1. /\ t.fd /\ t.peer /\ t.queue = r.queue /\ t.out = <<>>
            /\ t.wire = <<>> /\ t.looping = r.looping /\ t.requests = r.requests
            /\ t.counter = r.counter /\ t.replies = <<>>
        BY <1>0 DEF RcRec
      <3>2. t \in RcRec
        <4> DEFINE e == <<>>
        <4>1. e \in Seq(AggLines) /\ e \in Seq(AnswerRec) /\ t = [r EXCEPT !.to = FALSE, !.fd = TRUE,
                 !.peer = TRUE, !.wire = e, !.out = e, !.replies = e, !.pending = FALSE]
          OBVIOUS
        <4> HIDE DEF e, t
        <4> QED BY <1>0, <4>1 DEF RcRec
      <3> QED BY <3>1, <3>2
    <2> HIDE DEF t, s
    <2>3. r.out = <<>> /\ r.wire = <<>>
      BY <1>3 DEF RcOK
    <2>4. RcLines(t) = RcLines(r)
      BY <2>2, <2>3, SameLines
    <2>5. Len(t.wire) <= WireMax
      BY <2>2, AggAssumption
    <2> QED BY <2>1, <2>2, <2>4, <2>5, <1>3, NoLines DEF RcOK, Like, s
  <1> QED BY <1>1, <1>2, <1>3, <1>0 DEF RcRec

\* replicator_send(): the line is in r, unless it is dropped.
LEMMA SendOK ==
  ASSUME NEW r, RcOK(r), NEW l \in AggLines
  PROVE  /\ RcOK(replicator_send(r, l)) /\ Like(r, replicator_send(r, l))
         /\ RcLines(replicator_send(r, l)) = RcLines(r) \cup (IF SendDrops(r, l) THEN {} ELSE {l})
  <1> DEFINE s == replicator_send(r, l)
  <1>0. r \in RcRec /\ l.p \in Queues /\ r.fd \in BOOLEAN /\ r.peer \in BOOLEAN
        /\ r.queue[l.p] \in Seq(AggLines) /\ QueueMax \in Nat /\ Len(r.queue[l.p]) \in Nat
    <2>1. l.p \in Queues
      BY DEF AggLines, Lines
    <2> QED BY <2>1, AggAssumption DEF RcOK, RcRec
  <1>1. CASE Immediate(r) /\ r.peer
    <2> DEFINE e == <<l>>
               t == [r EXCEPT !.out = e]
    <2>1. e \in Seq(AggLines) /\ Range(e) = {l}
      BY DEF Range
    <2>2. s = Fit(t) /\ ~SendDrops(r, l) /\ r.fd /\ r.out = <<>>
      BY <1>1 DEF replicator_send, SendDrops, Immediate
    <2> HIDE DEF e, s
    <2>3. /\ t \in RcRec /\ t.fd = r.fd /\ t.queue = r.queue /\ t.out = e
          /\ t.wire = r.wire /\ t.looping = r.looping /\ t.requests = r.requests
          /\ t.counter = r.counter /\ t.replies = r.replies
      BY <1>0, <2>1 DEF RcRec
    <2> HIDE DEF t
    <2>4. RcLines(t) = RcLines(r) \cup {l}
      <3> SUFFICES ASSUME NEW x PROVE x \in RcLines(t) <=> x \in RcLines(r) \/ x = l
        OBVIOUS
      <3>1. x \notin Range(r.out)
        BY <2>2, NoLines
      <3> QED BY <2>1, <2>3, <3>1, RcLinesIs
    <2>5. Len(t.wire) <= WireMax
      BY <2>3 DEF RcOK
    <2> DEFINE f == Fit(t)
    <2>6. /\ f \in RcRec /\ Len(f.wire) <= WireMax /\ f.fd = t.fd /\ f.queue = t.queue
          /\ f.requests = t.requests /\ f.counter = t.counter
          /\ f.replies = t.replies /\ RcLines(f) = RcLines(t)
      BY <2>3, <2>5, FitOK
    <2> HIDE DEF f
    <2>7. RcOK(f) /\ Like(r, f)
      BY <2>2, <2>3, <2>6 DEF RcOK, Like
    <2> QED BY <2>2, <2>4, <2>6, <2>7 DEF f, s
  <1>2. CASE \/ Immediate(r) /\ ~r.peer
             \/ ~Immediate(r) /\ QueueFull(r, l)
    <2>1. s = r /\ SendDrops(r, l)
      BY <1>2 DEF replicator_send, SendDrops
    <2> QED BY <2>1 DEF Like
  <1>3. CASE ~Immediate(r) /\ ~QueueFull(r, l)
    <2> DEFINE a == Append(r.queue[l.p], l)
               q == [r.queue EXCEPT ![l.p] = a]
               d == r.fd
               t == [r EXCEPT !.queue = q, !.pending = d]
    <2>1. s = t /\ ~SendDrops(r, l)
      BY <1>3, <1>0 DEF replicator_send, SendDrops
    <2>2. /\ a \in Seq(AggLines) /\ Len(a) = Len(r.queue[l.p]) + 1
          /\ Range(a) = Range(r.queue[l.p]) \cup {l}
      BY <1>0, AppendLines
    <2>3. Len(a) <= QueueMax
      BY <1>3, <1>0, <2>2 DEF QueueFull
    <2> HIDE DEF a, s
    <2>4. q \in [Queues -> Seq(AggLines)] /\ \A p \in Queues : Len(q[p]) <= QueueMax
      BY <1>0, <2>2, <2>3 DEF RcOK, RcRec
    <2>5. \A x \in Queues : q[x] = IF x = l.p THEN a ELSE r.queue[x]
      BY <1>0 DEF RcRec
    <2> HIDE DEF q, d
    <2>6. /\ t \in RcRec /\ t.fd = r.fd /\ t.queue = q /\ t.out = r.out
          /\ t.wire = r.wire /\ t.looping = r.looping /\ t.requests = r.requests
          /\ t.counter = r.counter /\ t.replies = r.replies
      <3>1. d \in BOOLEAN
        BY <1>0 DEF d
      <3> QED BY <1>0, <2>4, <3>1 DEF RcRec
    <2> HIDE DEF t
    <2>7. RcLines(t) = RcLines(r) \cup {l}
      <3> SUFFICES ASSUME NEW x PROVE x \in RcLines(t) <=> x \in RcLines(r) \/ x = l
        OBVIOUS
      <3>1. (\E y \in Queues : x \in Range(q[y]))
               <=> x = l \/ \E y \in Queues : x \in Range(r.queue[y])
        BY <1>0, <2>2, <2>5
      <3> QED BY <2>6, <3>1, RcLinesIs
    <2>8. RcOK(t) /\ Like(r, t)
      BY <2>4, <2>6 DEF RcOK, Like
    <2> QED BY <2>1, <2>7, <2>8 DEF s
  <1> QED BY <1>1, <1>2, <1>3, <1>0

\* replicator_send_buf(): lines go from a queue to the stream's buffer.
LEMMA SendBufOK ==
  ASSUME NEW r, RcOK(r), r.fd, r.out = <<>>, FullQueues(r) # {}, SendBufAssert(r)
  PROVE  /\ RcOK(replicator_send_buf(r)) /\ Like(r, replicator_send_buf(r))
         /\ RcLines(replicator_send_buf(r)) = RcLines(r)
  <1> DEFINE p == TopQueue(r)
             o == r.queue[p]
             a == SubSeq(o, 1, Block + 1)
             b == SubSeq(o, Block + 2, Len(o))
             q == [r.queue EXCEPT ![p] = b]
             t == [r EXCEPT !.out = a, !.queue = q]
  <1>0. r \in RcRec /\ Block \in Nat /\ QueueMax \in Nat
    BY AggAssumption DEF RcOK
  <1>1. p \in Queues
    <2>1. FullQueues(r) \subseteq 1..3
      BY DEF FullQueues, Queues, LOW, SYNC
    <2>2. \E x \in FullQueues(r) : \A y \in FullQueues(r) : y <= x
      BY <2>1
    <2>3. TopQueue(r) \in FullQueues(r)
      BY <2>2 DEF TopQueue
    <2> QED BY <2>3 DEF FullQueues
  <1>2. replicator_send_buf(r) = Fit(t)
    BY DEF replicator_send_buf
  <1>3. o \in Seq(AggLines) /\ Len(o) > Block /\ Len(o) <= QueueMax
    BY <1>0, <1>1 DEF SendBufAssert, RcOK, RcRec
  <1> HIDE DEF p, o
  <1>4. Block + 1 \in 0..Len(o) /\ Block + 2 = (Block + 1) + 1
    BY <1>0, <1>3
  <1>5. /\ a \in Seq(AggLines) /\ b \in Seq(AggLines) /\ Len(b) = Len(o) - (Block + 1)
        /\ Range(o) = Range(a) \cup Range(b)
    BY <1>3, <1>4, SplitLines
  <1> HIDE DEF a, b
  <1>6. Len(b) <= QueueMax
    BY <1>0, <1>3, <1>5
  <1>7. /\ q \in [Queues -> Seq(AggLines)] /\ \A x \in Queues : Len(q[x]) <= QueueMax
        /\ \A x \in Queues : q[x] = IF x = p THEN b ELSE r.queue[x]
    BY <1>0, <1>1, <1>5, <1>6 DEF RcOK, RcRec
  <1> HIDE DEF q
  <1>8. /\ t \in RcRec /\ t.fd = r.fd /\ t.queue = q /\ t.out = a
        /\ t.wire = r.wire /\ t.looping = r.looping /\ t.requests = r.requests
        /\ t.counter = r.counter /\ t.replies = r.replies
    BY <1>0, <1>5, <1>7 DEF RcRec
  <1> HIDE DEF t
  <1>9. RcLines(t) = RcLines(r)
    <2> SUFFICES ASSUME NEW x PROVE x \in RcLines(t) <=> x \in RcLines(r)
      OBVIOUS
    <2>1. x \notin Range(r.out)
      BY NoLines
    <2>2. (\E y \in Queues : x \in Range(r.queue[y]))
             <=> x \in Range(a) \/ \E y \in Queues : x \in Range(q[y])
      BY <1>1, <1>5, <1>7 DEF o
    <2> QED BY <1>8, <2>1, <2>2, RcLinesIs
  <1>10. Len(t.wire) <= WireMax
    BY <1>8 DEF RcOK
  <1> DEFINE f == Fit(t)
  <1>11. /\ f \in RcRec /\ Len(f.wire) <= WireMax /\ f.fd = t.fd /\ f.queue = t.queue
         /\ f.requests = t.requests /\ f.counter = t.counter
         /\ f.replies = t.replies /\ RcLines(f) = RcLines(t)
    BY <1>8, <1>10, FitOK
  <1> HIDE DEF f
  <1>12. RcOK(f) /\ Like(r, f)
    BY <1>7, <1>8, <1>11 DEF RcOK, Like
  <1> QED BY <1>2, <1>9, <1>11, <1>12 DEF f

-----------------------------------------------------------------------------
(* Steps that only move lines within the connection to the replicator.     *)

LEMMA AccountedIs == Accounted => ChangeAccounted
  <1>1. Range(fifo) \cup QueueLines(rc) \cup OutLines(rc) = Range(fifo) \cup RcLines(rc)
    BY DEF RcLines
  <1> QED BY <1>1 DEF ChangeAccounted, Carries, Accounted

LEMMA AskedLike ==
  ASSUME NEW r, NEW s, s.requests = r.requests
  PROVE  \A k, x : SockOK(x, r, k) => SockOK(x, s, k)
  BY DEF SockOK, Held, Asked

\* Any step that leaves the requests and the lines of the connection.
CalmStep ==
  /\ RcOK(rc') /\ Like(rc, rc') /\ RcLines(rc') = RcLines(rc)
  /\ UNCHANGED <<n, plugin, waiting, fifo, sock, rsyncs, told, lost, good>>

LEMMA CalmInv == ASSUME AggInv, CalmStep PROVE AggInv'
  <1>1. AggTypes'
    BY DEF AggInv, AggTypes, CalmStep, PluginInv, FifoInv, HistInv, RcOK
  <1>2. SockInv'
    BY AskedLike DEF AggInv, SockInv, CalmStep, Like
  <1>3. OpenInv'
    BY DEF AggInv, OpenInv, CalmStep
  <1>4. LinesOld'
    BY DEF AggInv, LinesOld, CalmStep, AllLines
  <1> QED BY <1>1, <1>2, <1>3, <1>4 DEF AggInv

LEMMA CalmAnswer == ASSUME AggInv, AnswerInv, CalmStep PROVE AnswerInv'
  <1>1. IdsUsed' /\ IdsMatch'
    BY DEF AnswerInv, IdsUsed, IdsMatch, CalmStep, Like
  <1>2. AnswersGood' /\ RepliesGood' /\ GoodTold'
    BY DEF AnswerInv, AnswersGood, RepliesGood, GoodTold, CalmStep, Like
  <1>3. Accounted'
    BY DEF AnswerInv, Accounted, CalmStep
  <1> QED BY <1>1, <1>2, <1>3 DEF AnswerInv

-----------------------------------------------------------------------------
(* What the functions on notify connections do to them.                    *)

LEMMA NoSockIs ==
  /\ NoSock \in SockRec /\ NoSock.cl = FALSE /\ NoSock.line = FALSE /\ NoSock.srv = "none"
  /\ NoSock.ref = 0 /\ NoSock.reply = <<>>
  BY DEF NoSock, SockRec

LEMMA SweptIs ==
  ASSUME NEW s \in SockRec
  PROVE  /\ Swept(s) \in SockRec /\ Swept(s).cl = s.cl
         /\ Swept(s).srv # "none" => s.srv # "none"
         /\ Swept(s).reply \in {s.reply, <<>>}
  <1>1. CASE ~s.cl /\ s.srv = "closed" /\ s.ref = 0
    <2>1. Swept(s) = NoSock /\ s.cl = FALSE
      BY <1>1 DEF Swept, SockRec
    <2> QED BY <2>1, NoSockIs
  <1>2. CASE ~(~s.cl /\ s.srv = "closed" /\ s.ref = 0)
    BY <1>2 DEF Swept
  <1> QED BY <1>1, <1>2

LEMMA SweptOK ==
  ASSUME NEW s \in SockRec, NEW r, NEW k, SockOK(s, r, k)
  PROVE  SockOK(Swept(s), r, k)
  <1>1. CASE ~s.cl /\ s.srv = "closed" /\ s.ref = 0
    <2>1. Swept(s) = NoSock
      BY <1>1 DEF Swept
    <2>2. ~Asked(r, k)
      BY <1>1 DEF SockOK, Held
    <2>3. NoSock.ref = Held(NoSock, r, k)
      BY <2>2, NoSockIs DEF Held
    <2>4. Len(NoSock.reply) <= 1
      BY NoSockIs
    <2> QED BY <2>1, <2>2, <2>3, <2>4, NoSockIs DEF SockOK
  <1>2. CASE ~(~s.cl /\ s.srv = "closed" /\ s.ref = 0)
    BY <1>2 DEF Swept
  <1> QED BY <1>1, <1>2

\* Unchanged for the client, and not there if it was not there.
SockLike(s, t) == t.cl = s.cl /\ (t.srv # "none" => s.srv # "none")

LEMMA OneReply ==
  /\ <<>> \in Seq({"+", "-"}) /\ Len(<<>>) = 0
  /\ \A a \in {"+", "-"} : /\ <<a>> \in Seq({"+", "-"}) /\ Len(<<a>>) = 1
                           /\ Append(<<>>, a) = <<a>> /\ Head(<<a>>) = a /\ <<a>> # <<>>
  OBVIOUS

\* notify_connection_sync_callback() for one connection: the request is in r
\* and no more in q.
Answered(s, r, q, k, answer, t) ==
  /\ s \in SockRec /\ SockOK(s, r, k) /\ Asked(r, k) /\ ~Asked(q, k) /\ answer \in {"+", "-"}
  /\ t = [s EXCEPT !.reply = IF s.srv = "open" /\ s.cl THEN Append(s.reply, answer) ELSE s.reply,
                   !.ref = s.ref - 1]

LEMMA AnsweredOK ==
  ASSUME NEW s, NEW r, NEW q, NEW k, NEW answer, NEW t, Answered(s, r, q, k, answer, t)
  PROVE  /\ t \in SockRec /\ SockOK(t, q, k) /\ SockLike(s, t)
         /\ t.reply \in {s.reply, <<>>} \/ (t.reply = <<answer>> /\ s.cl)
  <1> DEFINE reply == IF s.srv = "open" /\ s.cl THEN Append(s.reply, answer) ELSE s.reply
  <1>0. /\ s \in SockRec /\ SockOK(s, r, k) /\ Asked(r, k) /\ ~Asked(q, k) /\ answer \in {"+", "-"}
        /\ t = [s EXCEPT !.reply = reply, !.ref = s.ref - 1]
    BY DEF Answered
  <1> USE <1>0
  <1>1. s.reply = <<>> /\ ~s.line /\ s.ref = (IF s.srv = "open" THEN 1 ELSE 0) + 1
    BY DEF SockOK, Held
  <1>2. reply \in Seq({"+", "-"}) /\ Len(reply) <= 1 /\ (reply = <<>> \/ (reply = <<answer>> /\ s.cl))
    <2>1. CASE s.srv = "open" /\ s.cl
      <3>1. reply = Append(<<>>, answer)
        BY <1>1, <2>1
      <3>2. reply = <<answer>>
        BY <3>1, OneReply
      <3> HIDE DEF reply
      <3>3. reply \in Seq({"+", "-"}) /\ Len(reply) = 1
        BY ONLY <3>2, OneReply, <1>0
      <3>4. Len(reply) <= 1
        BY ONLY <3>3
      <3> QED BY <2>1, <3>2, <3>3, <3>4, Zenon
    <2>2. CASE ~(s.srv = "open" /\ s.cl)
      <3>1. reply = <<>>
        BY <1>1, <2>2
      <3> HIDE DEF reply
      <3>2. reply \in Seq({"+", "-"}) /\ Len(reply) = 0
        BY ONLY <3>1, OneReply
      <3>3. Len(reply) <= 1
        BY ONLY <3>2
      <3> QED BY ONLY <3>1, <3>2, <3>3
    <2> QED BY <2>1, <2>2
  <1> DEFINE m == s.ref - 1
  <1>3. m = (IF s.srv = "open" THEN 1 ELSE 0) /\ m \in Nat
    BY <1>1
  <1>4. t = [s EXCEPT !.reply = reply, !.ref = m]
    OBVIOUS
  <1> HIDE DEF m, reply
  <1>5. /\ t \in SockRec /\ t.reply = reply /\ t.ref = m /\ t.cl = s.cl /\ t.line = s.line
        /\ t.srv = s.srv
    BY <1>2, <1>3, <1>4 DEF SockRec
  <1>6. t.srv # "none" /\ t.srv # "backlog"
    <2>1. s.srv # "none"
      BY <1>1, NoSockIs DEF SockOK, SockRec
    <2>2. s.srv # "backlog"
      BY <1>1 DEF SockOK
    <2> QED BY <1>5, <2>1, <2>2
  <1>7. SockOK(t, q, k)
    BY <1>1, <1>2, <1>3, <1>5, <1>6 DEF SockOK, Held
  <1> QED BY <1>1, <1>2, <1>5, <1>7 DEF SockLike

\* The whole of sock after a change that keeps what the invariant says.
SocksTo(g, r) ==
  /\ g \in [ConnIds -> SockRec]
  /\ \A k \in ConnIds : SockOK(g[k], r, k) /\ SockLike(sock[k], g[k])

LEMMA CallbackOK ==
  ASSUME AggInv, NEW ks \in SUBSET ConnIds, NEW q, NEW answer \in {"+", "-"},
         \A k \in ks : Asked(rc, k) /\ ~Asked(q, k),
         \A k \in ConnIds \ ks : Asked(q, k) <=> Asked(rc, k)
  PROVE  /\ SocksTo(sync_callback(ks, answer), q)
         /\ \A k \in ConnIds : \/ sync_callback(ks, answer)[k].reply \in {sock[k].reply, <<>>}
                               \/ /\ k \in ks /\ sock[k].cl
                                  /\ sync_callback(ks, answer)[k].reply = <<answer>>
  <1> DEFINE g == sync_callback(ks, answer)
             a(k) == IF sock[k].srv = "open" /\ sock[k].cl THEN Append(sock[k].reply, answer)
                     ELSE sock[k].reply
             m(k) == [sock[k] EXCEPT !.reply = a(k), !.ref = sock[k].ref - 1]
  <1>1. /\ sock \in [ConnIds -> SockRec] /\ \A k \in ConnIds : sock[k] \in SockRec
        /\ \A k \in ConnIds : SockOK(sock[k], rc, k)
    BY DEF AggInv, AggTypes, SockInv
  <1>2. /\ DOMAIN g = ConnIds /\ g = [k \in ConnIds |-> g[k]]
        /\ \A k \in ConnIds : g[k] = IF k \in ks THEN Swept(m(k)) ELSE sock[k]
    BY DEF sync_callback
  <1> HIDE DEF g
  <1>3. ASSUME NEW k \in ConnIds
        PROVE  /\ g[k] \in SockRec /\ SockOK(g[k], q, k) /\ SockLike(sock[k], g[k])
               /\ \/ g[k].reply \in {sock[k].reply, <<>>}
                  \/ k \in ks /\ sock[k].cl /\ g[k].reply = <<answer>>
    <2>1. CASE k \in ks
      <3> DEFINE t == m(k)
                 reply == a(k)
                 s == sock[k]
      <3>1. s \in SockRec /\ SockOK(s, rc, k) /\ Asked(rc, k) /\ ~Asked(q, k)
        BY <1>1, <2>1
      <3>2. /\ reply = IF s.srv = "open" /\ s.cl THEN Append(s.reply, answer) ELSE s.reply
            /\ t = [s EXCEPT !.reply = reply, !.ref = s.ref - 1]
            /\ g[k] = Swept(t)
        BY <1>2, <2>1
      <3> HIDE DEF t, reply, s
      <3>3. /\ t \in SockRec /\ SockOK(t, q, k) /\ SockLike(s, t)
            /\ t.reply \in {s.reply, <<>>} \/ (t.reply = <<answer>> /\ s.cl)
        <4>1. Answered(s, rc, q, k, answer, t)
          BY <3>1, <3>2 DEF Answered
        <4> QED BY <4>1, AnsweredOK
      <3>4. SockOK(Swept(t), q, k)
        BY <3>3, SweptOK
      <3>5. /\ Swept(t) \in SockRec /\ Swept(t).cl = t.cl
            /\ Swept(t).srv # "none" => t.srv # "none"
            /\ Swept(t).reply \in {t.reply, <<>>}
        BY <3>3, SweptIs
      <3>6. SockLike(s, Swept(t))
        BY <3>3, <3>5 DEF SockLike
      <3> QED BY <2>1, <3>2, <3>3, <3>4, <3>5, <3>6 DEF s
    <2>2. CASE k \notin ks
      <3>1. g[k] = sock[k] /\ (Asked(q, k) <=> Asked(rc, k))
        BY <1>2, <2>2
      <3>2. SockOK(sock[k], q, k)
        BY <1>1, <3>1 DEF SockOK, Held
      <3> QED BY <1>1, <3>1, <3>2 DEF SockLike
    <2> QED BY <2>1, <2>2
  <1>4. g \in [ConnIds -> SockRec]
    BY <1>2, <1>3
  <1> QED BY <1>3, <1>4 DEF g, SocksTo

\* The end of the process, for one connection.
Closed(s) == Swept([s EXCEPT !.srv = "closed", !.ref = 0, !.line = FALSE])

LEMMA ClosedOK ==
  ASSUME NEW s \in SockRec, NEW r, NEW q, NEW k, SockOK(s, r, k), ~Asked(q, k)
  PROVE  /\ s.srv = "open" \/ s.ref > 0 =>
              /\ Closed(s) \in SockRec /\ SockOK(Closed(s), q, k) /\ SockLike(s, Closed(s))
              /\ Closed(s).reply \in {s.reply, <<>>}
         /\ ~(s.srv = "open" \/ s.ref > 0) => SockOK(s, q, k)
  <1>1. ASSUME s.srv = "open" \/ s.ref > 0
        PROVE  /\ Closed(s) \in SockRec /\ SockOK(Closed(s), q, k) /\ SockLike(s, Closed(s))
               /\ Closed(s).reply \in {s.reply, <<>>}
    <2> DEFINE m == [s EXCEPT !.srv = "closed", !.ref = 0, !.line = FALSE]
    <2>1. /\ m \in SockRec /\ m.srv = "closed" /\ m.ref = 0 /\ m.line = FALSE /\ m.reply = s.reply
          /\ m.cl = s.cl
      BY DEF SockRec
    <2>2. SockOK(m, q, k)
      BY <2>1 DEF SockOK, Held
    <2>3. s.srv # "none"
      BY <1>1, NoSockIs DEF SockOK
    <2>4. Closed(s) = Swept(m)
      BY DEF Closed
    <2> HIDE DEF m
    <2>5. SockOK(Swept(m), q, k)
      BY <2>1, <2>2, SweptOK
    <2>6. /\ Swept(m) \in SockRec /\ Swept(m).cl = m.cl /\ Swept(m).reply \in {m.reply, <<>>}
      BY <2>1, SweptIs
    <2> QED BY <2>1, <2>3, <2>4, <2>5, <2>6 DEF SockLike
  <1>2. ASSUME ~(s.srv = "open" \/ s.ref > 0) PROVE SockOK(s, q, k)
    <2>1. s.ref = 0
      BY <1>2 DEF SockRec
    <2> QED BY <1>2, <2>1 DEF SockOK, Held
  <1> QED BY <1>1, <1>2

-----------------------------------------------------------------------------
(* The connection to the replicator, or the process, ends.                 *)

LEMMA LoseIs ==
  ASSUME NEW ls, NEW u
  PROVE  u \in Lose(ls) <=> u \in lost \/ \E l \in ls : l.u = u /\ l.p # SYNC /\ l.n = n[u]
  BY DEF Lose

LEMMA RcLinesType ==
  ASSUME NEW r \in RcRec
  PROVE  RcLines(r) \subseteq AggLines
  <1> SUFFICES ASSUME NEW l \in RcLines(r) PROVE l \in AggLines
    OBVIOUS
  <1>1. r.out \in Seq(AggLines) /\ r.wire \in Seq(AggLines) /\ \A p \in Queues : r.queue[p] \in Seq(AggLines)
    BY DEF RcRec
  <1>2. \A s \in Seq(AggLines) : Range(s) \subseteq AggLines
    BY DEF Range
  <1> QED BY <1>1, <1>2, RcLinesIs

LEMMA LineFields == \A l \in AggLines : l.u \in Users /\ l.n \in 0..MaxChanges
  BY DEF AggLines, Lines

LEMMA LoseType ==
  ASSUME lost \subseteq Users, NEW ls \in SUBSET AggLines
  PROVE  Lose(ls) \subseteq Users
  BY LoseIs, LineFields

LEMMA LinesType ==
  ASSUME AggTypes
  PROVE  /\ RcLines(rc) \subseteq AggLines /\ OutLines(rc) \subseteq RcLines(rc)
         /\ QueueLines(rc) \subseteq RcLines(rc) /\ Range(fifo) \subseteq AggLines
  <1>1. RcLines(rc) \subseteq AggLines
    BY RcLinesType DEF AggTypes, RcOK
  <1>2. \A l \in Range(fifo) : l \in AggLines
    BY DEF AggTypes, FifoInv, Range
  <1> QED BY <1>1, <1>2 DEF RcLines

LEMMA DisconnectOK ==
  ASSUME NEW r, RcOK(r), NEW t, t = replicator_connection_disconnect(r)
  PROVE  /\ RcOK(t) /\ t.requests = {} /\ t.counter = r.counter /\ t.replies = <<>>
         /\ RcLines(t) = QueueLines(r)
  <1> DEFINE e == <<>>
  <1>1. e \in Seq(AggLines) /\ e \in Seq(AnswerRec) /\ r \in RcRec
    BY DEF RcOK
  <1>2. t = [r EXCEPT !.requests = {}, !.fd = FALSE, !.peer = FALSE, !.out = e,
                      !.wire = e, !.pending = FALSE, !.looping = FALSE, !.replies = e]
    BY DEF replicator_connection_disconnect
  <1> HIDE DEF e
  <1>3. /\ t.queue = r.queue /\ t.out = e /\ t.wire = e /\ t.looping = FALSE /\ t.fd = FALSE
        /\ t.requests = {} /\ t.counter = r.counter /\ t.replies = e
    BY <1>1, <1>2 DEF RcRec
  <1>4. t \in RcRec
    BY <1>1, <1>2 DEF RcRec
  <1>5. Len(e) = 0 /\ 0 <= WireMax /\ e = <<>>
    BY AggAssumption DEF e
  <1>6. RcOK(t)
    BY <1>3, <1>4, <1>5 DEF RcOK
  <1>7. RcLines(t) = QueueLines(r)
    BY <1>3, <1>5, NoLines DEF RcLines, QueueLines, OutLines, LinesOf
  <1> QED BY <1>3, <1>5, <1>6, <1>7

LEMMA NewConnOK ==
  /\ RcOK(NewConn) /\ NewConn.requests = {} /\ NewConn.counter = 0 /\ NewConn.replies = <<>>
  /\ RcLines(NewConn) = {} /\ NewConn.fd = FALSE
  <1>1. /\ NewConn.queue = [p \in Queues |-> <<>>] /\ NewConn.out = <<>> /\ NewConn.wire = <<>>
        /\ NewConn.requests = {} /\ NewConn.counter = 0 /\ NewConn.replies = <<>>
        /\ NewConn.fd = FALSE /\ NewConn.looping = FALSE /\ NewConn.to = FALSE
        /\ NewConn.peer = FALSE /\ NewConn.pending = FALSE
    BY DEF NewConn
  <1>2. NewConn \in RcRec
    BY AggAssumption DEF NewConn, RcRec
  <1>3. \A l : l \notin RcLines(NewConn)
    BY <1>1, NoLines, RcLinesIs
  <1>4. Len(NewConn.wire) <= WireMax /\ \A p \in Queues : Len(NewConn.queue[p]) <= QueueMax
    BY <1>1, AggAssumption
  <1> QED BY <1>1, <1>2, <1>3, <1>4 DEF RcOK

LEMMA NothingAsked == ASSUME NEW r, r.requests = {}, NEW k PROVE ~Asked(r, k)
  BY DEF Asked

DisconnectStep == Disconnect /\ UNCHANGED <<n, plugin, waiting, fifo, rsyncs, told, good>>

LEMMA DisconnectRc ==
  ASSUME AggInv, DisconnectStep
  PROVE  /\ RcOK(rc') /\ rc'.requests = {} /\ rc'.counter = rc.counter /\ rc'.replies = <<>>
         /\ RcLines(rc') = QueueLines(rc) /\ lost' = Lose(OutLines(rc))
         /\ SocksTo(sock', rc')
         /\ \A k \in ConnIds : sock'[k].reply \in {sock[k].reply, <<>>} \/ sock'[k].reply = <<"-">>
  <1>1. /\ sock' = sync_callback({q.conn : q \in rc.requests}, "-") /\ lost' = Lose(OutLines(rc))
        /\ rc' = replicator_connection_disconnect(rc)
    BY DEF DisconnectStep, Disconnect
  <1>2. /\ RcOK(rc') /\ rc'.requests = {} /\ rc'.counter = rc.counter /\ rc'.replies = <<>>
        /\ RcLines(rc') = QueueLines(rc)
    BY <1>1, DisconnectOK DEF AggInv, AggTypes
  <1> DEFINE ks == {q.conn : q \in rc.requests}
  <1>3. ks \in SUBSET ConnIds
    BY DEF AggInv, AggTypes, RcOK, RcRec, RequestRec
  <1>4. \A k : (k \in ks <=> Asked(rc, k)) /\ ~Asked(rc', k)
    BY <1>2 DEF Asked
  <1> DEFINE a == "-"
  <1>5. a \in {"+", "-"} /\ sock' = sync_callback(ks, a)
    BY <1>1
  <1> HIDE DEF ks, a
  <1>6. /\ SocksTo(sync_callback(ks, a), rc')
        /\ \A k \in ConnIds : \/ sync_callback(ks, a)[k].reply \in {sock[k].reply, <<>>}
                              \/ sync_callback(ks, a)[k].reply = <<a>>
    BY <1>3, <1>4, <1>5, CallbackOK
  <1> QED BY <1>1, <1>2, <1>5, <1>6 DEF a

LEMMA DisconnectInv == ASSUME AggInv, DisconnectStep PROVE AggInv'
  <1>0. /\ RcOK(rc') /\ rc'.requests = {} /\ RcLines(rc') = QueueLines(rc) /\ SocksTo(sock', rc')
        /\ lost' = Lose(OutLines(rc))
    BY DisconnectRc
  <1>1. UNCHANGED <<n, plugin, waiting, fifo, rsyncs, told, good>>
    BY DEF DisconnectStep
  <1>2. OutLines(rc) \in SUBSET AggLines /\ QueueLines(rc) \subseteq RcLines(rc)
    BY LinesType DEF AggInv
  <1>3. lost' \subseteq Users
    BY <1>0, <1>2, LoseType DEF AggInv, AggTypes, HistInv
  <1>4. AggTypes'
    BY <1>0, <1>1, <1>3 DEF AggInv, AggTypes, PluginInv, FifoInv, HistInv, SocksTo, RcOK
  <1>5. SockInv'
    BY <1>0 DEF SockInv, SocksTo
  <1>6. OpenInv'
    BY <1>0, <1>1 DEF AggInv, OpenInv, SocksTo, SockLike
  <1>7. LinesOld'
    BY <1>0, <1>1, <1>2 DEF AggInv, LinesOld, AllLines
  <1> QED BY <1>4, <1>5, <1>6, <1>7 DEF AggInv

LEMMA DisconnectAnswer == ASSUME AggInv, AnswerInv, DisconnectStep PROVE AnswerInv'
  <1>0. /\ rc'.requests = {} /\ rc'.counter = rc.counter /\ rc'.replies = <<>>
        /\ RcLines(rc') = QueueLines(rc) /\ lost' = Lose(OutLines(rc))
        /\ \A k \in ConnIds : sock'[k].reply \in {sock[k].reply, <<>>} \/ sock'[k].reply = <<"-">>
    BY DisconnectRc
  <1>1. UNCHANGED <<n, plugin, waiting, fifo, rsyncs, told, good>>
    BY DEF DisconnectStep
  <1>2. RcLines(rc') \subseteq RcLines(rc) /\ RcLines(rc) = RcLines(rc') \cup OutLines(rc)
    BY <1>0 DEF RcLines
  <1>3. IdsUsed' /\ IdsMatch' /\ AnswersGood'
    BY <1>0, <1>1, <1>2, NoLines DEF AnswerInv, IdsUsed, IdsMatch, AnswersGood
  <1>4. RepliesGood'
    <2>1. <<"-">> # <<"+">> /\ <<>> # <<"+">>
      OBVIOUS
    <2> QED BY <1>0, <1>1, <2>1 DEF AnswerInv, RepliesGood
  <1>5. GoodTold'
    BY <1>1 DEF AnswerInv, GoodTold
  <1>6. Accounted'
    BY <1>0, <1>1, <1>2, LoseIs DEF AnswerInv, Accounted
  <1> QED BY <1>3, <1>4, <1>5, <1>6 DEF AnswerInv

\* The process ends, and with master also the FIFO.
EndStep ==
  /\ rc' = NewConn /\ rsyncs' = {} /\ SocksTo(sock', NewConn)
  /\ \A k \in ConnIds : sock'[k].reply \in {sock[k].reply, <<>>}
  /\ PluginInv' /\ \A u \in Users : plugin'[u].to = plugin[u].to
  /\ \/ fifo' = fifo /\ lost' = Lose(RcLines(rc))
     \/ fifo' = <<>> /\ lost' = Lose(RcLines(rc) \cup Range(fifo))
  /\ UNCHANGED <<n, waiting, told, good>>

LEMMA EndInv == ASSUME AggInv, EndStep PROVE AggInv'
  <1>1. /\ RcLines(rc) \in SUBSET AggLines /\ RcLines(rc) \cup Range(fifo) \in SUBSET AggLines
    BY LinesType DEF AggInv
  <1>2. lost' \subseteq Users
    BY <1>1, LoseType DEF EndStep, AggInv, AggTypes, HistInv
  <1>3. FifoInv'
    <2>1. CASE fifo' = fifo
      BY <2>1 DEF AggInv, AggTypes, FifoInv
    <2>2. CASE fifo' = <<>>
      BY <2>2, NoLines, AggAssumption DEF FifoInv
    <2> QED BY <2>1, <2>2 DEF EndStep
  <1>4. AggTypes'
    BY <1>2, <1>3, NewConnOK DEF EndStep, AggInv, AggTypes, HistInv, SocksTo
  <1>5. SockInv'
    BY NewConnOK DEF SockInv, SocksTo, EndStep
  <1>6. OpenInv'
    BY DEF AggInv, OpenInv, SocksTo, SockLike, EndStep
  <1>7. LinesOld'
    <2>1. Range(fifo') \subseteq Range(fifo) /\ RcLines(rc') = {} /\ rsyncs' = {}
      BY NoLines, NewConnOK DEF EndStep
    <2> QED BY <2>1 DEF AggInv, LinesOld, AllLines, EndStep
  <1> QED BY <1>4, <1>5, <1>6, <1>7 DEF AggInv

LEMMA EndAnswer == ASSUME AggInv, AnswerInv, EndStep PROVE AnswerInv'
  <1>1. /\ rc'.requests = {} /\ rc'.replies = <<>> /\ RcLines(rc') = {} /\ rsyncs' = {}
    BY NewConnOK DEF EndStep
  <1>2. IdsUsed' /\ IdsMatch' /\ AnswersGood'
    BY <1>1, NoLines DEF IdsUsed, IdsMatch, AnswersGood
  <1>3. RepliesGood'
    <2>1. <<>> # <<"+">>
      OBVIOUS
    <2> QED BY <2>1 DEF AnswerInv, RepliesGood, EndStep
  <1>4. GoodTold'
    BY <1>1 DEF AnswerInv, GoodTold, EndStep
  <1>5. Accounted'
    <2> SUFFICES ASSUME NEW u \in Users, u \notin told, ~waiting[u], ~plugin[u].to
                 PROVE  \/ u \in lost'
                        \/ \E l \in Range(fifo') : l.u = u /\ l.p # SYNC /\ l.n = n[u]
      BY DEF Accounted, EndStep
    <2>1. \/ u \in lost
          \/ \E l \in Range(fifo) \cup RcLines(rc) : l.u = u /\ l.p # SYNC /\ l.n = n[u]
      BY DEF AnswerInv, Accounted
    <2>2. CASE fifo' = fifo /\ lost' = Lose(RcLines(rc))
      BY <2>1, <2>2, LoseIs
    <2>3. CASE fifo' = <<>> /\ lost' = Lose(RcLines(rc) \cup Range(fifo))
      BY <2>1, <2>3, LoseIs
    <2> QED BY <2>2, <2>3 DEF EndStep
  <1> QED BY <1>2, <1>3, <1>4, <1>5 DEF AnswerInv

LEMMA AllClosedOK ==
  ASSUME AggInv
  PROVE  /\ SocksTo(AllClosed, NewConn)
         /\ \A k \in ConnIds : AllClosed[k].reply \in {sock[k].reply, <<>>}
  <1>1. \A k \in ConnIds : sock[k] \in SockRec /\ SockOK(sock[k], rc, k)
    BY DEF AggInv, AggTypes, SockInv
  <1> DEFINE g == AllClosed
  <1>2. /\ g = [k \in ConnIds |-> g[k]] /\ DOMAIN g = ConnIds
        /\ \A k \in ConnIds : g[k] = IF sock[k].srv = "open" \/ sock[k].ref > 0 THEN Closed(sock[k]) ELSE sock[k]
    BY DEF AllClosed, Closed
  <1> HIDE DEF g
  <1>3. ASSUME NEW k \in ConnIds
        PROVE  /\ g[k] \in SockRec /\ SockOK(g[k], NewConn, k) /\ SockLike(sock[k], g[k])
               /\ g[k].reply \in {sock[k].reply, <<>>}
    <2> DEFINE s == sock[k]
    <2>1. s \in SockRec /\ SockOK(s, rc, k) /\ ~Asked(NewConn, k)
      BY <1>1, NewConnOK, NothingAsked
    <2>2. g[k] = IF s.srv = "open" \/ s.ref > 0 THEN Closed(s) ELSE s
      BY <1>2
    <2> HIDE DEF s
    <2>3. CASE s.srv = "open" \/ s.ref > 0
      BY <2>1, <2>2, <2>3, ClosedOK DEF s
    <2>4. CASE ~(s.srv = "open" \/ s.ref > 0)
      <3>1. SockOK(s, NewConn, k)
        BY <2>1, <2>4, ClosedOK
      <3> QED BY <2>1, <2>2, <2>4, <3>1 DEF s, SockLike
    <2> QED BY <2>3, <2>4
  <1>4. g \in [ConnIds -> SockRec]
    BY <1>2, <1>3
  <1> QED BY <1>3, <1>4 DEF g, SocksTo

ExitStep == Exit /\ UNCHANGED <<n, plugin, waiting, fifo, told, good>>

LEMMA ExitEnds == ASSUME AggInv, ExitStep PROVE EndStep
  <1>1. OutLines(rc) \cup QueueLines(rc) = RcLines(rc)
    BY DEF RcLines
  <1>2. PluginInv'
    BY DEF AggInv, AggTypes, PluginInv, ExitStep
  <1> QED BY <1>1, <1>2, AllClosedOK DEF ExitStep, Exit, EndStep

LEMMA MasterEnds == ASSUME AggInv, MasterStop PROVE EndStep
  <1>1. OutLines(rc) \cup QueueLines(rc) \cup Range(fifo) = RcLines(rc) \cup Range(fifo)
    BY DEF RcLines
  <1>2. PluginInv' /\ \A u \in Users : plugin'[u].to = plugin[u].to
    <2>1. plugin \in [Users -> PluginRec]
      BY DEF AggInv, AggTypes, PluginInv
    <2> DEFINE f(u) == IF plugin[u].fd = "open" THEN "stale" ELSE plugin[u].fd
               m(u) == [plugin[u] EXCEPT !.fd = f(u)]
    <2>2. plugin' = [u \in Users |-> m(u)]
      BY DEF MasterStop
    <2>3. \A u \in Users : f(u) \in {"closed", "open", "stale"}
      BY <2>1 DEF PluginRec
    <2> HIDE DEF f
    <2>4. \A u \in Users : m(u) \in PluginRec /\ m(u).to = plugin[u].to /\ m(u).prio = plugin[u].prio
      BY <2>1, <2>3 DEF PluginRec
    <2> HIDE DEF m
    <2> QED BY <2>2, <2>4 DEF AggInv, AggTypes, PluginInv
  <1>3. /\ SocksTo(sock', NewConn) /\ \A k \in ConnIds : sock'[k].reply \in {sock[k].reply, <<>>}
    <2>1. /\ SocksTo(AllClosed, NewConn)
          /\ \A k \in ConnIds : AllClosed[k].reply \in {sock[k].reply, <<>>}
      BY AllClosedOK
    <2> DEFINE m(k) == Swept([sock[k] EXCEPT !.srv = "closed", !.line = FALSE])
    <2>2. sock' = [k \in ConnIds |-> IF sock[k].srv = "backlog" THEN m(k) ELSE AllClosed[k]]
      BY DEF MasterStop
    <2>3. ASSUME NEW k \in ConnIds, sock[k].srv = "backlog"
          PROVE  /\ m(k) \in SockRec /\ SockOK(m(k), NewConn, k) /\ SockLike(sock[k], m(k))
                 /\ m(k).reply \in {sock[k].reply, <<>>}
      <3> DEFINE s == sock[k]
                 t == [s EXCEPT !.srv = "closed", !.line = FALSE]
      <3>1. s \in SockRec /\ SockOK(s, rc, k) /\ ~Asked(NewConn, k)
        BY NewConnOK, NothingAsked DEF AggInv, AggTypes, SockInv
      <3>2. s.ref = 0 /\ s.srv = "backlog"
        BY <2>3, <3>1 DEF SockOK, Held
      <3>3. m(k) = Swept(t)
        OBVIOUS
      <3> HIDE DEF s
      <3>4. /\ t \in SockRec /\ t.srv = "closed" /\ t.line = FALSE /\ t.ref = s.ref
            /\ t.reply = s.reply /\ t.cl = s.cl
        BY <3>1 DEF SockRec
      <3> HIDE DEF t
      <3>5. SockOK(t, NewConn, k)
        BY <3>1, <3>2, <3>4 DEF SockOK, Held
      <3>6. SockOK(Swept(t), NewConn, k)
        BY <3>4, <3>5, SweptOK
      <3>7. Swept(t) \in SockRec /\ Swept(t).cl = t.cl /\ Swept(t).reply \in {t.reply, <<>>}
        BY <3>4, SweptIs
      <3> QED BY <3>2, <3>3, <3>4, <3>6, <3>7 DEF s, SockLike
    <2> HIDE DEF m
    <2> QED BY <2>1, <2>2, <2>3 DEF SocksTo
  <1> QED BY <1>1, <1>2, <1>3 DEF MasterStop, EndStep

-----------------------------------------------------------------------------
(* Steps of the notify connections.                                        *)

\* A step that only changes the aggregator's end of notify connections.
SockStep ==
  /\ SocksTo(sock', rc) /\ \A k \in ConnIds : sock'[k].reply \in {sock[k].reply, <<>>}
  /\ UNCHANGED <<n, plugin, waiting, fifo, rc, rsyncs, told, lost, good>>

LEMMA SockStepInv == ASSUME AggInv, SockStep PROVE AggInv'
  <1>1. AggTypes'
    BY DEF AggInv, AggTypes, SockStep, PluginInv, FifoInv, HistInv, RcOK, SocksTo
  <1>2. SockInv'
    BY DEF AggInv, SockInv, SockStep, SocksTo
  <1>3. OpenInv'
    BY DEF AggInv, OpenInv, SockStep, SocksTo, SockLike
  <1>4. LinesOld'
    BY DEF AggInv, LinesOld, SockStep, AllLines
  <1> QED BY <1>1, <1>2, <1>3, <1>4 DEF AggInv

LEMMA SockStepAnswer == ASSUME AggInv, AnswerInv, SockStep PROVE AnswerInv'
  <1>1. IdsUsed' /\ IdsMatch' /\ GoodTold'
    BY DEF AnswerInv, IdsUsed, IdsMatch, GoodTold, SockStep
  <1>2. AnswersGood'
    <2>1. \A q \in rc.requests : q.conn \in ConnIds
      BY DEF AggInv, AggTypes, RcOK, RcRec, RequestRec
    <2> QED BY <2>1 DEF AnswerInv, AnswersGood, SockStep, SocksTo, SockLike
  <1>3. RepliesGood'
    <2>1. <<>> # <<"+">>
      OBVIOUS
    <2> QED BY <2>1 DEF AnswerInv, RepliesGood, SockStep
  <1>4. Accounted'
    BY DEF AnswerInv, Accounted, SockStep
  <1> QED BY <1>1, <1>2, <1>3, <1>4 DEF AnswerInv

\* One connection replaced.
LEMMA OneSock ==
  ASSUME AggInv, NEW k \in ConnIds, NEW t \in SockRec, SockOK(t, rc, k), SockLike(sock[k], t),
         sock' = [sock EXCEPT ![k] = t]
  PROVE  SocksTo(sock', rc)
  <1>1. /\ sock \in [ConnIds -> SockRec] /\ \A x \in ConnIds : SockOK(sock[x], rc, x)
    BY DEF AggInv, AggTypes, SockInv
  <1>2. \A x \in ConnIds : sock'[x] = IF x = k THEN t ELSE sock[x]
    BY <1>1
  <1> QED BY <1>1, <1>2 DEF SocksTo, SockLike

LEMMA ConnectedSteps == ASSUME AggInv, NEW k \in ConnIds, client_connected(k) PROVE SockStep
  <1> DEFINE s == sock[k]
             t == [s EXCEPT !.srv = "open", !.ref = 1]
  <1>1. s \in SockRec /\ SockOK(s, rc, k) /\ s.srv = "backlog"
    BY DEF AggInv, AggTypes, SockInv, client_connected
  <1>2. sock' = [sock EXCEPT ![k] = t]
    BY DEF client_connected
  <1> HIDE DEF s
  <1>3. /\ t \in SockRec /\ t.srv = "open" /\ t.ref = 1 /\ t.cl = s.cl /\ t.line = s.line
        /\ t.reply = s.reply
    BY <1>1 DEF SockRec
  <1> HIDE DEF t
  <1>4. SockOK(t, rc, k) /\ SockLike(s, t)
    BY <1>1, <1>3 DEF SockOK, SockLike, Held
  <1>5. SocksTo(sock', rc)
    BY <1>2, <1>3, <1>4, OneSock DEF s
  <1>6. \A x \in ConnIds : sock'[x].reply = sock[x].reply
    BY <1>2, <1>3 DEF s, AggInv, AggTypes
  <1> QED BY <1>5, <1>6 DEF SockStep, client_connected

LEMMA DestroySteps == ASSUME AggInv, NEW k \in ConnIds, notify_connection_destroy(k) PROVE SockStep
  <1> DEFINE s == sock[k]
             m == s.ref - 1
             t == [s EXCEPT !.srv = "closed", !.ref = m]
  <1>1. s \in SockRec /\ SockOK(s, rc, k) /\ s.srv = "open" /\ ~s.line
    BY DEF AggInv, AggTypes, SockInv, notify_connection_destroy
  <1>2. sock' = [sock EXCEPT ![k] = Swept(t)]
    BY DEF notify_connection_destroy
  <1> HIDE DEF s
  <1>3. m = (IF Asked(rc, k) THEN 1 ELSE 0) /\ m \in Nat
    BY <1>1 DEF SockOK, Held
  <1> HIDE DEF m
  <1>4. /\ t \in SockRec /\ t.srv = "closed" /\ t.ref = m /\ t.cl = s.cl /\ t.line = s.line
        /\ t.reply = s.reply
    BY <1>1, <1>3 DEF SockRec
  <1> HIDE DEF t
  <1>5. SockOK(t, rc, k)
    BY <1>1, <1>3, <1>4 DEF SockOK, Held
  <1>6. SockOK(Swept(t), rc, k)
    BY <1>4, <1>5, SweptOK
  <1>7. Swept(t) \in SockRec /\ Swept(t).cl = t.cl /\ Swept(t).reply \in {t.reply, <<>>}
    BY <1>4, SweptIs
  <1>8. SockLike(s, Swept(t))
    BY <1>1, <1>4, <1>7 DEF SockLike
  <1>9. SocksTo(sock', rc)
    BY <1>2, <1>6, <1>7, <1>8, OneSock DEF s
  <1>10. \A x \in ConnIds : sock'[x].reply \in {sock[x].reply, <<>>}
    BY <1>2, <1>4, <1>7 DEF s, AggInv, AggTypes
  <1> QED BY <1>9, <1>10 DEF SockStep, notify_connection_destroy

\* A line of the FIFO is queued, sent or dropped.
FifoTo(l, drops) ==
  /\ RcOK(rc') /\ Like(rc, rc')
  /\ RcLines(rc') = RcLines(rc) \cup (IF drops THEN {} ELSE {l})
  /\ lost' = Lose(IF drops THEN {l} ELSE {})
  /\ fifo' \in Seq(AggLines) /\ Len(fifo') <= FifoMax /\ l \in AggLines
  /\ Range(fifo) = Range(fifo') \cup {l}
  /\ UNCHANGED <<n, plugin, waiting, sock, rsyncs, told, good>>

LEMMA FifoRc ==
  ASSUME AggInv, notify_input_fifo
  PROVE  \E l \in Range(fifo), drops \in BOOLEAN : FifoTo(l, drops)
  <1> DEFINE r == replicator_connection_connect(rc)
             l == Head(fifo)
             drops == IF SendDrops(r, l) THEN TRUE ELSE FALSE
             t == replicator_send(r, l)
  <1>1. /\ fifo # <<>> /\ fifo' = Tail(fifo) /\ rc' = t
        /\ lost' = Lose(IF drops THEN {l} ELSE {})
        /\ UNCHANGED <<n, plugin, waiting, sock, rsyncs, told, good>>
    BY DEF notify_input_fifo
  <1>2. fifo \in Seq(AggLines) /\ Len(fifo) <= FifoMax /\ FifoMax \in Nat /\ RcOK(rc)
    BY AggAssumption DEF AggInv, AggTypes, FifoInv
  <1>3. /\ fifo' \in Seq(AggLines) /\ l \in AggLines /\ Len(fifo') = Len(fifo) - 1
        /\ Range(fifo) = Range(fifo') \cup {l}
    BY <1>1, <1>2, TailLines
  <1>4. Len(fifo') <= FifoMax
    BY <1>1, <1>2, <1>3
  <1>5. RcOK(r) /\ Like(rc, r) /\ RcLines(r) = RcLines(rc)
    BY <1>2, ConnectOK
  <1> HIDE DEF r, l
  <1>6. RcOK(t) /\ Like(r, t) /\ RcLines(t) = RcLines(r) \cup (IF drops THEN {} ELSE {l})
    BY <1>3, <1>5, SendOK
  <1>7. drops \in BOOLEAN
    OBVIOUS
  <1> HIDE DEF drops, t
  <1>8. Like(rc, rc')
    BY <1>1, <1>5, <1>6 DEF Like
  <1>9. l \in Range(fifo)
    BY <1>3
  <1>10. FifoTo(l, drops)
    BY <1>1, <1>3, <1>4, <1>5, <1>6, <1>8 DEF FifoTo
  <1> QED BY <1>7, <1>9, <1>10

LEMMA FifoInvStep == ASSUME AggInv, notify_input_fifo PROVE AggInv'
  <1>1. PICK l \in Range(fifo), drops \in BOOLEAN : FifoTo(l, drops)
    BY FifoRc
  <1> USE DEF FifoTo
  <1>2. lost' \subseteq Users
    BY <1>1, LoseType DEF AggInv, AggTypes, HistInv
  <1>3. FifoInv'
    BY <1>1 DEF AggInv, AggTypes, FifoInv
  <1>4. AggTypes'
    BY <1>1, <1>2, <1>3 DEF AggInv, AggTypes, PluginInv, HistInv, RcOK
  <1>5. SockInv'
    BY <1>1, AskedLike DEF AggInv, SockInv, Like
  <1>6. OpenInv'
    BY <1>1 DEF AggInv, OpenInv
  <1>7. LinesOld'
    BY <1>1 DEF AggInv, LinesOld, AllLines
  <1> QED BY <1>4, <1>5, <1>6, <1>7 DEF AggInv

LEMMA FifoAnswer == ASSUME AggInv, AnswerInv, notify_input_fifo PROVE AnswerInv'
  <1>1. PICK l \in Range(fifo), drops \in BOOLEAN : FifoTo(l, drops)
    BY FifoRc
  <1> USE DEF FifoTo
  <1>2. l.p # SYNC
    BY DEF AggInv, AggTypes, FifoInv
  <1>3. IdsUsed' /\ IdsMatch'
    BY <1>1, <1>2 DEF AnswerInv, IdsUsed, IdsMatch, Like
  <1>4. AnswersGood' /\ RepliesGood' /\ GoodTold'
    BY <1>1 DEF AnswerInv, AnswersGood, RepliesGood, GoodTold, Like
  <1>5. Accounted'
    <2> SUFFICES ASSUME NEW u \in Users, u \notin told, ~waiting[u], ~plugin[u].to
                 PROVE  \/ u \in lost'
                        \/ \E x \in Range(fifo') \cup RcLines(rc') : x.u = u /\ x.p # SYNC /\ x.n = n[u]
      BY <1>1 DEF Accounted
    <2>1. \/ u \in lost
          \/ \E x \in Range(fifo) \cup RcLines(rc) : x.u = u /\ x.p # SYNC /\ x.n = n[u]
      BY DEF AnswerInv, Accounted
    <2>2. CASE drops
      BY <1>1, <2>1, <2>2, LoseIs
    <2>3. CASE ~drops
      BY <1>1, <2>1, <2>3, LoseIs
    <2> QED BY <2>2, <2>3
  <1> QED BY <1>3, <1>4, <1>5 DEF AnswerInv

\* request_id_counter
LEMMA IdOK ==
  ASSUME NEW r, r.counter \in 0..(IdMod - 1)
  PROVE  /\ NextCounter(r) \in 0..(IdMod - 1) /\ NextId(r) \in 1..(IdMod - 1)
         /\ r.counter + 1 < IdMod => NextCounter(r) = r.counter + 1 /\ NextId(r) = r.counter + 1
  <1> DEFINE c == r.counter
             m == (c + 1) % IdMod
  <1>1. IdMod \in Nat /\ IdMod > 1 /\ c \in 0..(IdMod - 1)
    BY AggAssumption
  <1>2. NextCounter(r) = m /\ NextId(r) = IF m = 0 THEN 1 ELSE m
    BY DEF NextCounter, NextId
  <1>3. m \in 0..(IdMod - 1) /\ (c + 1 < IdMod => m = c + 1)
    BY <1>1
  <1> QED BY <1>1, <1>2, <1>3

LEMMA RequestOK ==
  ASSUME NEW r, RcOK(r), NEW k \in ConnIds, NEW t, t = NewRequest(r, k)
  PROVE  /\ RcOK(t) /\ t.counter = NextCounter(r) /\ t.replies = r.replies
         /\ t.requests = r.requests \cup {[id |-> NextId(r), conn |-> k]}
         /\ RcLines(t) = RcLines(r)
  <1> DEFINE c == NextCounter(r)
             q == r.requests \cup {[id |-> NextId(r), conn |-> k]}
  <1>1. r \in RcRec /\ c \in 0..(IdMod - 1) /\ NextId(r) \in 1..(IdMod - 1)
    BY IdOK DEF RcOK, RcRec
  <1>2. q \in SUBSET RequestRec
    BY <1>1 DEF RcRec, RequestRec
  <1>3. t = [r EXCEPT !.counter = c, !.requests = q]
    BY DEF NewRequest
  <1>4. c = NextCounter(r) /\ q = r.requests \cup {[id |-> NextId(r), conn |-> k]}
    OBVIOUS
  <1> HIDE DEF c, q
  <1>5. /\ t \in RcRec /\ t.fd = r.fd /\ t.queue = r.queue /\ t.out = r.out
        /\ t.wire = r.wire /\ t.looping = r.looping /\ t.requests = q
        /\ t.counter = c /\ t.replies = r.replies
    BY <1>1, <1>2, <1>3 DEF RcRec
  <1>6. RcLines(t) = RcLines(r)
    BY <1>5, SameLines
  <1>7. RcOK(t)
    BY <1>5 DEF RcOK
  <1> QED BY <1>4, <1>5, <1>6, <1>7

\* A sync line l of the client of connection k becomes request q.
SyncTo(k, l, q, s) ==
  /\ RcOK(rc') /\ rc'.counter = NextCounter(rc)
  /\ q.id = NextId(rc) /\ q.conn = k /\ rc'.requests = rc.requests \cup {q}
  /\ Range(rc'.replies) \subseteq Range(rc.replies)
  /\ l.u = k[1] /\ l.p = SYNC /\ l.n = k[2] /\ l.id = NextId(rc)
  /\ RcLines(rc) \subseteq RcLines(rc') /\ RcLines(rc') \subseteq RcLines(rc) \cup {l}
  /\ sock' = [sock EXCEPT ![k] = s] /\ sock[k].srv = "open" /\ sock[k].line
  /\ s.cl = sock[k].cl /\ s.line = FALSE /\ s.srv = "open" /\ s.ref = sock[k].ref + 1
  /\ s.reply = sock[k].reply
  /\ UNCHANGED <<n, plugin, waiting, fifo, rsyncs, told, lost, good>>

LEMMA SyncRc ==
  ASSUME AggInv, NEW k \in ConnIds, notify_input_sync(k), ~ExitStep
  PROVE  \E l \in AggLines, q \in RequestRec, s \in SockRec : SyncTo(k, l, q, s)
  <1> DEFINE r == replicator_connection_connect(rc)
             i == NextId(r)
             l == [u |-> k[1], p |-> SYNC, id |-> i, n |-> k[2]]
             q == [id |-> i, conn |-> k]
             t == NewRequest(r, k)
             w == replicator_send(t, l)
             m == sock[k].ref + 1
             s == [sock[k] EXCEPT !.line = FALSE, !.ref = m]
  <1>1. RcOK(rc) /\ RcOK(r) /\ Like(rc, r) /\ RcLines(r) = RcLines(rc)
    BY ConnectOK DEF AggInv, AggTypes
  <1>2. /\ sock' = [sock EXCEPT ![k] = s] /\ rc' = w /\ sock[k].srv = "open" /\ sock[k].line
        /\ UNCHANGED <<n, plugin, waiting, fifo, rsyncs, told, lost, good>>
    BY DEF notify_input_sync, Panic, ExitStep
  <1>3. sock[k] \in SockRec /\ m \in Nat /\ m = sock[k].ref + 1
    BY DEF AggInv, AggTypes, SockRec
  <1>4. NextId(rc) = i /\ NextCounter(rc) = NextCounter(r)
    BY <1>1 DEF Like, NextId, NextCounter
  <1>5. i \in 1..(IdMod - 1)
    BY <1>1, IdOK DEF RcOK, RcRec
  <1>6. k[1] \in SyncUsers /\ k[1] \in Users /\ k[2] \in 1..MaxChanges
    BY AggAssumption DEF ConnIds
  <1> HIDE DEF i, r
  <1>7. l \in AggLines /\ l.u = k[1] /\ l.p = SYNC /\ l.n = k[2] /\ l.id = i
    <2>1. i \in 0..(IdMod - 1) /\ k[2] \in 0..MaxChanges /\ SYNC \in Queues
      BY <1>5, <1>6, AggAssumption DEF SYNC, Queues, LOW
    <2> QED BY <1>6, <2>1 DEF AggLines, Lines
  <1>8. q \in RequestRec /\ q.id = i /\ q.conn = k
    BY <1>5 DEF RequestRec
  <1> HIDE DEF m
  <1>9. /\ s \in SockRec /\ s.cl = sock[k].cl /\ s.line = FALSE /\ s.srv = sock[k].srv /\ s.ref = m
        /\ s.reply = sock[k].reply
    BY <1>3 DEF SockRec
  <1>10. /\ RcOK(t) /\ t.counter = NextCounter(r) /\ t.replies = r.replies
         /\ t.requests = r.requests \cup {q} /\ RcLines(t) = RcLines(r)
    BY <1>1, RequestOK DEF i
  <1> HIDE DEF l, t
  <1>11. RcOK(w) /\ Like(t, w) /\ RcLines(w) = RcLines(t) \cup (IF SendDrops(t, l) THEN {} ELSE {l})
    BY <1>7, <1>10, SendOK
  <1> HIDE DEF q, w, s
  <1>12. /\ rc'.counter = NextCounter(rc) /\ rc'.requests = rc.requests \cup {q}
         /\ Range(rc'.replies) \subseteq Range(rc.replies)
    BY <1>1, <1>2, <1>4, <1>10, <1>11 DEF Like
  <1>13. RcLines(rc) \subseteq RcLines(rc') /\ RcLines(rc') \subseteq RcLines(rc) \cup {l}
    BY <1>1, <1>2, <1>10, <1>11
  <1>14. SyncTo(k, l, q, s)
    BY <1>2, <1>3, <1>4, <1>7, <1>8, <1>9, <1>11, <1>12, <1>13 DEF SyncTo
  <1> QED BY <1>7, <1>8, <1>9, <1>14

LEMMA SyncInvStep == ASSUME AggInv, NEW k \in ConnIds, notify_input_sync(k), ~ExitStep PROVE AggInv'
  <1>1. PICK l \in AggLines, q \in RequestRec, s \in SockRec : SyncTo(k, l, q, s)
    BY SyncRc
  <1> USE DEF SyncTo
  <1>2. /\ sock \in [ConnIds -> SockRec] /\ SockOK(sock[k], rc, k) /\ ~Asked(rc, k) /\ Asked(rc', k)
        /\ \A x \in ConnIds : sock'[x] = IF x = k THEN s ELSE sock[x]
    <2>1. sock \in [ConnIds -> SockRec] /\ SockOK(sock[k], rc, k)
      BY DEF AggInv, AggTypes, SockInv
    <2>2. ~Asked(rc, k) /\ Asked(rc', k)
      BY <1>1, <2>1 DEF SockOK, Asked
    <2> QED BY <1>1, <2>1, <2>2
  <1>3. AggTypes'
    BY <1>1, <1>2 DEF AggInv, AggTypes, PluginInv, FifoInv, HistInv, RcOK
  <1>4. SockInv'
    <2>1. \A q1, q2 \in rc'.requests : q1.conn = q2.conn => q1 = q2
      BY <1>1, <1>2 DEF AggInv, SockInv, Asked
    <2>2. SockOK(s, rc', k)
      <3>1. s.ref = 2 /\ Held(s, rc', k) = 2
        BY <1>1, <1>2 DEF SockOK, Held
      <3>2. s.reply = <<>> /\ Len(s.reply) <= 1
        BY <1>1, <1>2 DEF SockOK
      <3> QED BY <1>1, <3>1, <3>2 DEF SockOK
    <2>3. \A x \in ConnIds \ {k} : SockOK(sock[x], rc', x)
      <3>1. \A x \in ConnIds \ {k} : Asked(rc', x) <=> Asked(rc, x)
        BY <1>1 DEF Asked
      <3> QED BY <3>1 DEF AggInv, SockInv, SockOK, Held
    <2> QED BY <1>2, <2>1, <2>2, <2>3 DEF SockInv
  <1>5. k[2] <= n[k[1]]
    BY <1>1 DEF AggInv, OpenInv
  <1>6. OpenInv'
    BY <1>1, <1>2, <1>5 DEF AggInv, OpenInv
  <1>7. LinesOld'
    BY <1>1, <1>5 DEF AggInv, LinesOld, AllLines
  <1> QED BY <1>3, <1>4, <1>6, <1>7 DEF AggInv

LEMMA SyncAnswer ==
  ASSUME AggInv, AnswerInv, NoWrap, NEW k \in ConnIds, notify_input_sync(k), ~ExitStep
  PROVE  AnswerInv'
  <1>1. PICK l \in AggLines, q \in RequestRec, s \in SockRec : SyncTo(k, l, q, s)
    BY SyncRc
  <1> USE DEF SyncTo
  <1>2. rc.counter \in Nat /\ rc.counter \in 0..(IdMod - 1)
    BY AggAssumption DEF AggInv, AggTypes, RcOK, RcRec
  <1>3. q.id = rc.counter + 1 /\ l.id = rc.counter + 1 /\ rc'.counter = rc.counter + 1
    BY <1>1, <1>2, IdOK DEF NoWrap
  <1> DEFINE c == rc.counter
             d == rc'.counter
  <1>4. c \in Nat /\ d = c + 1 /\ q.id = c + 1 /\ l.id = c + 1
    BY <1>2, <1>3
  <1> HIDE DEF c, d
  <1>5. /\ \A x \in ConnIds : sock'[x].cl = sock[x].cl /\ sock'[x].reply = sock[x].reply
        /\ \A x \in rc.requests : x.conn \in ConnIds /\ x.id \in Nat
        /\ \A x \in RcLines(rc) \cup rsyncs : x.id \in Nat
        /\ \A x \in Range(rc.replies) : x.id \in Nat
    <2>1. \A x \in ConnIds : sock'[x].cl = sock[x].cl /\ sock'[x].reply = sock[x].reply
      BY <1>1 DEF AggInv, AggTypes
    <2>2. \A x \in rc.requests : x.conn \in ConnIds /\ x.id \in Nat
      BY DEF AggInv, AggTypes, RcOK, RcRec, RequestRec
    <2>3. \A x \in AggLines : x.id \in Nat
      BY DEF AggLines, Lines
    <2>4. RcLines(rc) \cup rsyncs \subseteq AggLines
      BY LinesType DEF AggInv, AggTypes, HistInv
    <2>5. rc.replies \in Seq(AnswerRec)
      BY DEF AggInv, AggTypes, RcOK, RcRec
    <2>6. \A x \in Range(rc.replies) : x.id \in Nat
      <3>1. \A x \in Range(rc.replies) : x \in AnswerRec
        BY <2>5 DEF Range
      <3> QED BY <3>1 DEF AnswerRec
    <2> QED BY <2>1, <2>2, <2>3, <2>4, <2>6
  <1>6. /\ \A x \in RcLines(rc) \cup rsyncs : x.p = SYNC => x.id \in 1..c
        /\ \A x \in rc.requests : x.id <= c
        /\ \A x \in Range(rc.replies) : x.id <= c
    BY DEF AnswerInv, IdsUsed, c
  <1>7. IdsUsed'
    <2>1. \A x \in RcLines(rc') \cup rsyncs' : x.p = SYNC => x.id \in 1..d
      BY <1>1, <1>4, <1>6
    <2>2. \A x \in rc'.requests : x.id <= d
      BY <1>1, <1>4, <1>5, <1>6
    <2>3. \A x \in Range(rc'.replies) : x.id <= d
      BY <1>1, <1>4, <1>5, <1>6
    <2> QED BY <2>1, <2>2, <2>3 DEF IdsUsed, d
  <1>8. IdsMatch'
    <2>1. k = <<k[1], k[2]>>
      BY DEF ConnIds
    <2>2. ASSUME NEW x \in RcLines(rc') \cup rsyncs', NEW y \in rc'.requests, x.p = SYNC, x.id = y.id
          PROVE  y.conn = <<x.u, x.n>>
      <3>1. CASE x = l /\ y = q
        BY <1>1, <2>1, <3>1
      <3>2. CASE x = l /\ y \in rc.requests
        BY <1>4, <1>5, <1>6, <2>2, <3>2
      <3>3. CASE x \in RcLines(rc) \cup rsyncs /\ y = q
        BY <1>4, <1>5, <1>6, <2>2, <3>3
      <3>4. CASE x \in RcLines(rc) \cup rsyncs /\ y \in rc.requests
        BY <2>2, <3>4 DEF AnswerInv, IdsMatch
      <3> QED BY <1>1, <3>1, <3>2, <3>3, <3>4
    <2> QED BY <2>2 DEF IdsMatch
  <1>9. AnswersGood'
    <2> SUFFICES ASSUME NEW a \in Range(rc'.replies), NEW y \in rc'.requests,
                        a.answer = "+", a.id = y.id, sock'[y.conn].cl
                 PROVE  y.conn \in good'
      BY DEF AnswersGood
    <2>1. y # q
      BY <1>1, <1>4, <1>5, <1>6
    <2> QED BY <1>1, <1>5, <2>1 DEF AnswerInv, AnswersGood
  <1>10. RepliesGood' /\ GoodTold'
    BY <1>1, <1>5 DEF AnswerInv, RepliesGood, GoodTold
  <1>11. Accounted'
    BY <1>1 DEF AnswerInv, Accounted
  <1> QED BY <1>7, <1>8, <1>9, <1>10, <1>11 DEF AnswerInv

-----------------------------------------------------------------------------
(* Answers, and the other steps of the replicator.                         *)

\* The answer a is read, and given to the clients of the requests qs.
InputTo(a, qs) ==
  /\ a \in AnswerRec /\ Range(rc.replies) = Range(rc'.replies) \cup {a}
  /\ qs = {q \in rc.requests : q.id = a.id}
  /\ RcOK(rc') /\ rc'.counter = rc.counter /\ rc'.requests = rc.requests \ qs
  /\ RcLines(rc') = RcLines(rc)
  /\ sock' = sync_callback({q.conn : q \in qs}, a.answer)
  /\ UNCHANGED <<n, plugin, waiting, fifo, rsyncs, told, lost, good>>

LEMMA InputRc ==
  ASSUME AggInv, replicator_input_line
  PROVE  \E a \in AnswerRec : InputTo(a, {q \in rc.requests : q.id = a.id})
  <1> DEFINE a == Head(rc.replies)
             b == Tail(rc.replies)
             qs == {q \in rc.requests : q.id = a.id}
             w == rc.requests \ qs
             t == [rc EXCEPT !.replies = b, !.requests = w]
  <1>1. /\ rc.replies # <<>> /\ rc' = t /\ sock' = sync_callback({q.conn : q \in qs}, a.answer)
        /\ UNCHANGED <<n, plugin, waiting, fifo, rsyncs, told, lost, good>>
    BY DEF replicator_input_line
  <1>2. RcOK(rc) /\ rc \in RcRec /\ rc.replies \in Seq(AnswerRec)
    BY DEF AggInv, AggTypes, RcOK, RcRec
  <1>3. b \in Seq(AnswerRec) /\ a \in AnswerRec /\ Range(rc.replies) = Range(b) \cup {a}
    BY <1>1, <1>2, TailLines
  <1>4. w \in SUBSET RequestRec
    BY <1>2 DEF RcRec
  <1> HIDE DEF a, b, w
  <1>5. /\ t \in RcRec /\ t.fd = rc.fd /\ t.queue = rc.queue /\ t.out = rc.out
        /\ t.wire = rc.wire /\ t.looping = rc.looping /\ t.requests = w
        /\ t.counter = rc.counter /\ t.replies = b
    BY <1>2, <1>3, <1>4 DEF RcRec
  <1> HIDE DEF t
  <1>6. RcLines(t) = RcLines(rc)
    BY <1>5, SameLines
  <1>7. RcOK(t)
    BY <1>2, <1>5 DEF RcOK
  <1>8. InputTo(a, qs)
    BY <1>1, <1>3, <1>5, <1>6, <1>7 DEF InputTo, w
  <1> QED BY <1>3, <1>8

LEMMA InputSocks ==
  ASSUME AggInv, NEW a, NEW qs, InputTo(a, qs)
  PROVE  /\ SocksTo(sock', rc')
         /\ \A k \in ConnIds : \/ sock'[k].reply \in {sock[k].reply, <<>>}
                               \/ /\ sock[k].cl /\ sock'[k].reply = <<a.answer>>
                                  /\ \E q \in qs : q.conn = k
  <1> DEFINE ks == {q.conn : q \in qs}
             answer == a.answer
  <1>1. qs \subseteq rc.requests /\ rc'.requests = rc.requests \ qs /\ sock' = sync_callback(ks, answer)
    BY DEF InputTo
  <1>2. ks \in SUBSET ConnIds /\ answer \in {"+", "-"}
    BY <1>1 DEF AggInv, AggTypes, RcOK, RcRec, RequestRec, InputTo, AnswerRec
  <1>3. \A k \in ks : Asked(rc, k) /\ ~Asked(rc', k)
    BY <1>1 DEF Asked, AggInv, SockInv
  <1>4. \A k \in ConnIds \ ks : Asked(rc', k) <=> Asked(rc, k)
    BY <1>1 DEF Asked
  <1>5. \A k : k \in ks => \E q \in qs : q.conn = k
    OBVIOUS
  <1> HIDE DEF ks, answer
  <1>6. /\ SocksTo(sync_callback(ks, answer), rc')
        /\ \A k \in ConnIds : \/ sync_callback(ks, answer)[k].reply \in {sock[k].reply, <<>>}
                              \/ /\ k \in ks /\ sock[k].cl
                                 /\ sync_callback(ks, answer)[k].reply = <<answer>>
    BY <1>2, <1>3, <1>4, CallbackOK
  <1> QED BY <1>1, <1>5, <1>6 DEF answer

LEMMA InputInv == ASSUME AggInv, replicator_input_line PROVE AggInv'
  <1>1. PICK a \in AnswerRec : InputTo(a, {q \in rc.requests : q.id = a.id})
    BY InputRc
  <1>2. SocksTo(sock', rc')
    BY <1>1, InputSocks
  <1>3. AggTypes'
    BY <1>1, <1>2 DEF InputTo, AggInv, AggTypes, PluginInv, FifoInv, HistInv, SocksTo, RcOK
  <1>4. SockInv'
    BY <1>1, <1>2 DEF InputTo, AggInv, SockInv, SocksTo
  <1>5. OpenInv'
    BY <1>1, <1>2 DEF InputTo, AggInv, OpenInv, SocksTo, SockLike
  <1>6. LinesOld'
    BY <1>1 DEF InputTo, AggInv, LinesOld, AllLines
  <1> QED BY <1>3, <1>4, <1>5, <1>6 DEF AggInv

LEMMA InputAnswer == ASSUME AggInv, AnswerInv, replicator_input_line PROVE AnswerInv'
  <1>1. PICK a \in AnswerRec : InputTo(a, {q \in rc.requests : q.id = a.id})
    BY InputRc
  <1> DEFINE qs == {q \in rc.requests : q.id = a.id}
  <1>2. /\ \A k \in ConnIds : SockLike(sock[k], sock'[k])
        /\ \A k \in ConnIds : \/ sock'[k].reply \in {sock[k].reply, <<>>}
                              \/ /\ sock[k].cl /\ sock'[k].reply = <<a.answer>>
                                 /\ \E q \in qs : q.conn = k
    BY <1>1, InputSocks DEF SocksTo
  <1>3. \A q \in rc.requests : q.conn \in ConnIds
    BY DEF AggInv, AggTypes, RcOK, RcRec, RequestRec
  <1>4. IdsUsed' /\ IdsMatch' /\ GoodTold'
    BY <1>1 DEF AnswerInv, IdsUsed, IdsMatch, GoodTold, InputTo
  <1>5. AnswersGood'
    BY <1>1, <1>2, <1>3 DEF AnswerInv, AnswersGood, InputTo, SockLike
  <1>6. RepliesGood'
    <2> SUFFICES ASSUME NEW k \in ConnIds, sock'[k].reply = <<"+">> PROVE k \in good
      BY <1>1 DEF RepliesGood, InputTo
    <2>1. <<>> # <<"+">> /\ (<<a.answer>> = <<"+">> => a.answer = "+")
      OBVIOUS
    <2>2. CASE sock'[k].reply = sock[k].reply
      BY <2>2 DEF AnswerInv, RepliesGood
    <2>3. CASE sock[k].cl /\ a.answer = "+" /\ \E q \in qs : q.conn = k
      <3>1. a \in Range(rc.replies)
        BY <1>1 DEF InputTo
      <3> QED BY <2>3, <3>1 DEF AnswerInv, AnswersGood
    <2> QED BY <1>2, <2>1, <2>2, <2>3
  <1>7. Accounted'
    BY <1>1 DEF AnswerInv, Accounted, InputTo
  <1> QED BY <1>4, <1>5, <1>6, <1>7 DEF AnswerInv

\* The replicator reads the line l.
ReadTo(l) ==
  /\ l \in RcLines(rc) /\ RcLines(rc) = RcLines(rc') \cup {l}
  /\ RcOK(rc') /\ Like(rc, rc')
  /\ told' = IF l.n = n[l.u] THEN told \cup {l.u} ELSE told
  /\ rsyncs' = IF l.p = SYNC THEN rsyncs \cup {l} ELSE rsyncs
  /\ UNCHANGED <<n, plugin, waiting, fifo, sock, lost, good>>

LEMMA ReadRc == ASSUME AggInv, ReplRead PROVE \E l \in AggLines : ReadTo(l)
  <1> DEFINE l == Head(rc.wire)
             b == Tail(rc.wire)
             t == [rc EXCEPT !.wire = b]
  <1>1. /\ rc.wire # <<>> /\ rc' = t
        /\ told' = IF l.n = n[l.u] THEN told \cup {l.u} ELSE told
        /\ rsyncs' = IF l.p = SYNC THEN rsyncs \cup {l} ELSE rsyncs
        /\ UNCHANGED <<n, plugin, waiting, fifo, sock, lost, good>>
    BY DEF ReplRead
  <1>2. RcOK(rc) /\ rc \in RcRec /\ rc.wire \in Seq(AggLines) /\ Len(rc.wire) <= WireMax
        /\ WireMax \in Nat /\ Len(rc.wire) \in Nat
    BY AggAssumption DEF AggInv, AggTypes, RcOK, RcRec
  <1>3. b \in Seq(AggLines) /\ l \in AggLines /\ Range(rc.wire) = Range(b) \cup {l} /\ Len(b) = Len(rc.wire) - 1
    BY <1>1, <1>2, TailLines
  <1>4. Len(b) <= WireMax
    BY <1>2, <1>3
  <1> HIDE DEF l, b
  <1>5. /\ t \in RcRec /\ t.fd = rc.fd /\ t.queue = rc.queue /\ t.out = rc.out
        /\ t.wire = b /\ t.looping = rc.looping /\ t.requests = rc.requests
        /\ t.counter = rc.counter /\ t.replies = rc.replies
    BY <1>2, <1>3 DEF RcRec
  <1> HIDE DEF t
  <1>6. l \in RcLines(rc) /\ RcLines(rc) = RcLines(t) \cup {l}
    <2> SUFFICES ASSUME NEW x PROVE x \in RcLines(rc) <=> x \in RcLines(t) \/ x = l
      OBVIOUS
    <2> QED BY <1>3, <1>5, RcLinesIs
  <1>7. rc.fd
    BY <1>1, <1>2 DEF RcOK
  <1>8. RcOK(t) /\ Like(rc, t)
    BY <1>2, <1>4, <1>5, <1>7 DEF RcOK, Like
  <1>9. ReadTo(l)
    BY <1>1, <1>6, <1>8 DEF ReadTo
  <1> QED BY <1>3, <1>9

LEMMA ReadInv == ASSUME AggInv, ReplRead PROVE AggInv'
  <1>1. PICK l \in AggLines : ReadTo(l)
    BY ReadRc
  <1>2. told' \subseteq Users /\ rsyncs' \subseteq {x \in AggLines : x.p = SYNC}
    BY <1>1, LineFields DEF ReadTo, AggInv, AggTypes, HistInv
  <1>3. AggTypes'
    BY <1>1, <1>2 DEF ReadTo, AggInv, AggTypes, PluginInv, FifoInv, HistInv, RcOK
  <1>4. SockInv'
    BY <1>1, AskedLike DEF ReadTo, AggInv, SockInv, Like
  <1>5. OpenInv'
    BY <1>1 DEF ReadTo, AggInv, OpenInv
  <1>6. LinesOld'
    BY <1>1 DEF ReadTo, AggInv, LinesOld, AllLines
  <1> QED BY <1>3, <1>4, <1>5, <1>6 DEF AggInv

LEMMA ReadAnswer == ASSUME AggInv, AnswerInv, ReplRead PROVE AnswerInv'
  <1>1. PICK l \in AggLines : ReadTo(l)
    BY ReadRc
  <1>2. IdsUsed' /\ IdsMatch'
    BY <1>1 DEF AnswerInv, IdsUsed, IdsMatch, ReadTo, Like
  <1>3. AnswersGood' /\ RepliesGood'
    BY <1>1 DEF AnswerInv, AnswersGood, RepliesGood, ReadTo, Like
  <1>4. GoodTold'
    BY <1>1 DEF AnswerInv, GoodTold, ReadTo
  <1>5. Accounted'
    <2> SUFFICES ASSUME NEW u \in Users, u \notin told', ~waiting[u], ~plugin[u].to, u \notin lost
                 PROVE  \E x \in Range(fifo) \cup RcLines(rc') : x.u = u /\ x.p # SYNC /\ x.n = n[u]
      BY <1>1 DEF Accounted, ReadTo
    <2>1. u \notin told
      BY <1>1 DEF ReadTo
    <2>2. PICK x \in Range(fifo) \cup RcLines(rc) : x.u = u /\ x.p # SYNC /\ x.n = n[u]
      BY <2>1 DEF AnswerInv, Accounted
    <2>3. x # l
      BY <1>1, <2>2 DEF ReadTo
    <2> QED BY <1>1, <2>2, <2>3 DEF ReadTo
  <1> QED BY <1>2, <1>3, <1>4, <1>5 DEF AnswerInv

\* The replicator answers the request of line l.
AnswerTo(l, a) ==
  /\ l \in rsyncs /\ a \in AnswerRec /\ a.id = l.id
  /\ Range(rc'.replies) = Range(rc.replies) \cup {a}
  /\ RcOK(rc') /\ rc'.requests = rc.requests /\ rc'.counter = rc.counter
  /\ RcLines(rc') = RcLines(rc) /\ rsyncs' = rsyncs \ {l}
  /\ good' = IF a.answer = "+" /\ l.n > 0 /\ sock[<<l.u, l.n>>].cl
             THEN good \cup {<<l.u, l.n>>} ELSE good
  /\ UNCHANGED <<n, plugin, waiting, fifo, sock, told, lost>>

LEMMA AnswerRc ==
  ASSUME AggInv, NEW l \in rsyncs, NEW answer \in {"+", "-"}, ReplAnswer(l, answer)
  PROVE  \E a \in AnswerRec : AnswerTo(l, a)
  <1> DEFINE a == [id |-> l.id, answer |-> answer]
             b == Append(rc.replies, a)
             t == [rc EXCEPT !.replies = b]
  <1>1. /\ rsyncs' = rsyncs \ {l} /\ rc' = t
        /\ good' = IF answer = "+" /\ l.n > 0 /\ sock[<<l.u, l.n>>].cl
                   THEN good \cup {<<l.u, l.n>>} ELSE good
        /\ UNCHANGED <<n, plugin, waiting, fifo, sock, told, lost>>
    BY DEF ReplAnswer
  <1>2. RcOK(rc) /\ rc \in RcRec /\ rc.replies \in Seq(AnswerRec)
    BY DEF AggInv, AggTypes, RcOK, RcRec
  <1>3. a \in AnswerRec /\ a.id = l.id /\ a.answer = answer
    BY DEF AggInv, AggTypes, HistInv, AggLines, Lines, AnswerRec
  <1> HIDE DEF a
  <1>4. b \in Seq(AnswerRec) /\ Range(b) = Range(rc.replies) \cup {a}
    BY <1>2, <1>3, AppendLines
  <1> HIDE DEF b
  <1>5. /\ t \in RcRec /\ t.fd = rc.fd /\ t.queue = rc.queue /\ t.out = rc.out
        /\ t.wire = rc.wire /\ t.looping = rc.looping /\ t.requests = rc.requests
        /\ t.counter = rc.counter /\ t.replies = b
    BY <1>2, <1>4 DEF RcRec
  <1> HIDE DEF t
  <1>6. RcLines(t) = RcLines(rc)
    BY <1>5, SameLines
  <1>7. RcOK(t)
    BY <1>2, <1>5 DEF RcOK
  <1>8. AnswerTo(l, a)
    BY <1>1, <1>3, <1>4, <1>5, <1>6, <1>7 DEF AnswerTo
  <1> QED BY <1>3, <1>8

LEMMA SyncLineKey ==
  ASSUME AggInv, NEW l \in rsyncs, l.n > 0
  PROVE  <<l.u, l.n>> \in ConnIds
  BY AggAssumption DEF AggInv, AggTypes, HistInv, AggLines, Lines, ConnIds

LEMMA ReplAnswerInv ==
  ASSUME AggInv, NEW l \in rsyncs, NEW answer \in {"+", "-"}, ReplAnswer(l, answer)
  PROVE  AggInv'
  <1>1. PICK a \in AnswerRec : AnswerTo(l, a)
    BY AnswerRc
  <1>2. good' \subseteq ConnIds /\ rsyncs' \subseteq rsyncs
    BY <1>1, SyncLineKey DEF AnswerTo, AggInv, AggTypes, HistInv
  <1>3. AggTypes'
    BY <1>1, <1>2 DEF AnswerTo, AggInv, AggTypes, PluginInv, FifoInv, HistInv, RcOK
  <1>4. SockInv'
    BY <1>1, AskedLike DEF AnswerTo, AggInv, SockInv
  <1>5. OpenInv'
    BY <1>1 DEF AnswerTo, AggInv, OpenInv
  <1>6. LinesOld'
    BY <1>1 DEF AnswerTo, AggInv, LinesOld, AllLines
  <1> QED BY <1>3, <1>4, <1>5, <1>6 DEF AggInv

LEMMA ReplAnswerAnswer ==
  ASSUME AggInv, AnswerInv, NEW l \in rsyncs, NEW answer \in {"+", "-"}, ReplAnswer(l, answer)
  PROVE  AnswerInv'
  <1>1. PICK a \in AnswerRec : AnswerTo(l, a)
    BY AnswerRc
  <1>2. l \in AggLines /\ l.p = SYNC /\ l.n \in Nat
    BY LineFields DEF AggInv, AggTypes, HistInv
  <1>3. IdsUsed'
    <2>1. l.id <= rc.counter
      BY <1>2 DEF AnswerInv, IdsUsed, AggInv, AggTypes, RcOK, RcRec
    <2> QED BY <1>1, <2>1 DEF AnswerInv, IdsUsed, AnswerTo
  <1>4. IdsMatch'
    BY <1>1 DEF AnswerInv, IdsMatch, AnswerTo
  <1>5. AnswersGood'
    <2> SUFFICES ASSUME NEW b \in Range(rc'.replies), NEW q \in rc.requests,
                        b.answer = "+", b.id = q.id, sock[q.conn].cl
                 PROVE  q.conn \in good'
      BY <1>1 DEF AnswersGood, AnswerTo
    <2>1. CASE b = a
      <3>1. q.conn = <<l.u, l.n>>
        BY <1>1, <1>2, <2>1 DEF AnswerInv, IdsMatch, AnswerTo
      <3>2. q.conn \in ConnIds
        BY DEF AggInv, AggTypes, RcOK, RcRec, RequestRec
      <3>3. l.n > 0
        BY <3>1, <3>2 DEF ConnIds
      <3> QED BY <1>1, <2>1, <3>1, <3>3 DEF AnswerTo
    <2>2. CASE b \in Range(rc.replies)
      BY <1>1, <2>2 DEF AnswerInv, AnswersGood, AnswerTo
    <2> QED BY <1>1, <2>1, <2>2 DEF AnswerTo
  <1>6. RepliesGood'
    BY <1>1 DEF AnswerInv, RepliesGood, AnswerTo
  <1>7. GoodTold'
    <2>1. l.n <= n[l.u] /\ (l.n = n[l.u] => l.u \in told)
      BY DEF AnswerInv, GoodTold, AggInv, LinesOld, AllLines
    <2>2. \A k \in good' : k \in good \/ (k[1] = l.u /\ k[2] = l.n)
      BY <1>1 DEF AnswerTo
    <2> QED BY <1>1, <2>1, <2>2 DEF AnswerInv, GoodTold, AnswerTo
  <1>8. Accounted'
    BY <1>1 DEF AnswerInv, Accounted, AnswerTo
  <1> QED BY <1>3, <1>4, <1>5, <1>6, <1>7, <1>8 DEF AnswerInv

\* The replicator dies with what it had read and not answered.
DieTo ==
  /\ RcOK(rc') /\ Like(rc, rc') /\ rsyncs' = {}
  /\ RcLines(rc') \subseteq RcLines(rc) /\ RcLines(rc) = RcLines(rc') \cup Range(rc.wire)
  /\ lost' = Lose(Range(rc.wire))
  /\ UNCHANGED <<n, plugin, waiting, fifo, sock, told, good>>

LEMMA DieRc == ASSUME AggInv, ReplDie PROVE DieTo
  <1> DEFINE e == <<>>
             t == [rc EXCEPT !.peer = FALSE, !.wire = e]
  <1>1. /\ rc' = t /\ rsyncs' = {} /\ lost' = Lose(Range(rc.wire))
        /\ UNCHANGED <<n, plugin, waiting, fifo, sock, told, good>>
    BY DEF ReplDie
  <1>2. RcOK(rc) /\ rc \in RcRec
    BY DEF AggInv, AggTypes, RcOK
  <1>3. e \in Seq(AggLines) /\ Len(e) = 0 /\ Range(e) = {} /\ e = <<>> /\ 0 <= WireMax
    BY NoLines, AggAssumption
  <1> HIDE DEF e
  <1>4. /\ t \in RcRec /\ t.fd = rc.fd /\ t.queue = rc.queue /\ t.out = rc.out
        /\ t.wire = e /\ t.looping = rc.looping /\ t.requests = rc.requests
        /\ t.counter = rc.counter /\ t.replies = rc.replies
    BY <1>2, <1>3 DEF RcRec
  <1> HIDE DEF t
  <1>5. RcLines(t) \subseteq RcLines(rc) /\ RcLines(rc) = RcLines(t) \cup Range(rc.wire)
    <2> SUFFICES ASSUME NEW x PROVE x \in RcLines(rc) <=> x \in RcLines(t) \/ x \in Range(rc.wire)
      OBVIOUS
    <2> QED BY <1>3, <1>4, RcLinesIs
  <1>6. RcOK(t) /\ Like(rc, t)
    BY <1>2, <1>3, <1>4 DEF RcOK, Like
  <1> QED BY <1>1, <1>5, <1>6 DEF DieTo

LEMMA DieInv == ASSUME AggInv, DieTo PROVE AggInv'
  <1>1. Range(rc.wire) \in SUBSET AggLines
    BY LinesType DEF DieTo, AggInv
  <1>2. lost' \subseteq Users
    BY <1>1, LoseType DEF DieTo, AggInv, AggTypes, HistInv
  <1>3. AggTypes'
    BY <1>2 DEF DieTo, AggInv, AggTypes, PluginInv, FifoInv, HistInv, RcOK
  <1>4. SockInv'
    BY AskedLike DEF DieTo, AggInv, SockInv, Like
  <1>5. OpenInv'
    BY DEF DieTo, AggInv, OpenInv
  <1>6. LinesOld'
    BY DEF DieTo, AggInv, LinesOld, AllLines
  <1> QED BY <1>3, <1>4, <1>5, <1>6 DEF AggInv

LEMMA DieAnswer == ASSUME AggInv, AnswerInv, DieTo PROVE AnswerInv'
  <1>1. IdsUsed' /\ IdsMatch'
    BY DEF AnswerInv, IdsUsed, IdsMatch, DieTo, Like
  <1>2. AnswersGood' /\ RepliesGood' /\ GoodTold'
    BY DEF AnswerInv, AnswersGood, RepliesGood, GoodTold, DieTo, Like
  <1>3. Accounted'
    <2> SUFFICES ASSUME NEW u \in Users, u \notin told, ~waiting[u], ~plugin[u].to
                 PROVE  \/ u \in lost'
                        \/ \E l \in Range(fifo) \cup RcLines(rc') : l.u = u /\ l.p # SYNC /\ l.n = n[u]
      BY DEF Accounted, DieTo
    <2>1. \/ u \in lost
          \/ \E l \in Range(fifo) \cup RcLines(rc) : l.u = u /\ l.p # SYNC /\ l.n = n[u]
      BY DEF AnswerInv, Accounted
    <2> QED BY <2>1, LoseIs DEF DieTo
  <1> QED BY <1>1, <1>2, <1>3 DEF AnswerInv

-----------------------------------------------------------------------------
(* Steps of the mail processes.                                            *)

\* The states of the plugin for one user.
PluginOK(pl) == pl \in PluginRec /\ (pl.to => pl.prio # NONE)

LEMMA PluginIs == ASSUME AggInv PROVE \A u \in Users : PluginOK(plugin[u])
  BY DEF AggInv, AggTypes, PluginInv, PluginOK

LEMMA OnePlugin ==
  ASSUME AggInv, NEW u \in Users, NEW pl, PluginOK(pl), plugin' = [plugin EXCEPT ![u] = pl]
  PROVE  PluginInv' /\ \A v \in Users : plugin'[v] = IF v = u THEN pl ELSE plugin[v]
  BY DEF AggInv, AggTypes, PluginInv, PluginOK

LEMMA NotifyOK ==
  ASSUME NEW pl, PluginOK(pl), NEW prio \in {LOW, HIGH}
  PROVE  PluginOK(replication_notify(pl, prio)) /\ replication_notify(pl, prio).to
  <1> DEFINE m == IF pl.prio < prio THEN prio ELSE pl.prio
             t == [pl EXCEPT !.prio = m, !.to = TRUE]
  <1>1. replication_notify(pl, prio) = t
    BY DEF replication_notify
  <1>2. m \in NONE..HIGH /\ m # NONE
    BY DEF PluginOK, PluginRec, NONE, LOW, HIGH
  <1> HIDE DEF m
  <1>3. t \in PluginRec /\ t.prio = m /\ t.to = TRUE
    BY <1>2 DEF PluginOK, PluginRec
  <1> QED BY <1>1, <1>2, <1>3 DEF PluginOK

LEMMA ClearedOK == ASSUME NEW pl, pl \in PluginRec PROVE PluginOK(Cleared(pl))
  <1> DEFINE t == [pl EXCEPT !.to = FALSE, !.prio = NONE]
  <1>1. Cleared(pl) = t
    BY DEF Cleared
  <1>2. NONE \in NONE..HIGH
    BY DEF NONE, HIGH
  <1>3. t \in PluginRec /\ t.to = FALSE
    BY <1>2 DEF PluginRec
  <1> QED BY <1>1, <1>3 DEF PluginOK

LEMMA LastIs ==
  ASSUME AggInv, NEW u \in Users
  PROVE  LastChange \in 0..MaxChanges /\ \A v \in Users : n[v] <= LastChange
  <1> DEFINE I == {n[v] : v \in Users}
  <1>1. I \subseteq 0..MaxChanges /\ I # {} /\ MaxChanges \in Nat
    BY AggAssumption DEF AggInv, AggTypes, HistInv
  <1>2. Max(I) \in I /\ \A y \in I : y <= Max(I)
    BY <1>1, GreatestNumber
  <1> QED BY <1>1, <1>2 DEF LastChange

\* A change of user u, with number m; either the timer runs or the process waits.
ChangeTo(u, m) ==
  /\ ~waiting[u] /\ m \in 1..MaxChanges /\ \A v \in Users : n[v] < m
  /\ n' = [n EXCEPT ![u] = m] /\ told' = told \ {u} /\ lost' = lost \ {u}
  /\ PluginInv' /\ \A v \in Users \ {u} : plugin'[v] = plugin[v]
  /\ \/ /\ plugin'[u].to /\ UNCHANGED <<waiting, sock>>
     \/ /\ u \in SyncUsers /\ waiting' = [waiting EXCEPT ![u] = TRUE]
        /\ sock' = [sock EXCEPT ![<<u, m>>] =
                      [NoSock EXCEPT !.cl = TRUE, !.line = TRUE, !.srv = "backlog"]]
  /\ UNCHANGED <<fifo, rc, rsyncs, good>>

LEMMA ChangeSteps ==
  ASSUME AggInv, NEW u \in Users, NEW new \in BOOLEAN, Change(u, new)
  PROVE  ChangeTo(u, LastChange + 1)
  <1> DEFINE m == LastChange + 1
  <1>1. m \in 1..MaxChanges /\ \A v \in Users : n[v] < m
    <2>1. LastChange \in 0..MaxChanges /\ \A v \in Users : n[v] <= LastChange
      BY LastIs
    <2>2. LastChange < MaxChanges /\ MaxChanges \in Nat /\ \A v \in Users : n[v] \in Nat
      BY AggAssumption DEF Change, AggInv, AggTypes, HistInv
    <2> QED BY <2>1, <2>2
  <1>2. /\ ~waiting[u] /\ n' = [n EXCEPT ![u] = m] /\ told' = told \ {u} /\ lost' = lost \ {u}
        /\ UNCHANGED <<fifo, rc, rsyncs, good>>
    BY DEF Change
  <1>3. PluginOK(plugin[u])
    BY PluginIs
  <1>4. \/ /\ \E prio \in {LOW, HIGH} : plugin' = [plugin EXCEPT ![u] = replication_notify(plugin[u], prio)]
           /\ UNCHANGED <<waiting, sock>>
        \/ /\ u \in SyncUsers /\ waiting' = [waiting EXCEPT ![u] = TRUE]
           /\ sock' = [sock EXCEPT ![<<u, m>>] =
                         [NoSock EXCEPT !.cl = TRUE, !.line = TRUE, !.srv = "backlog"]]
           /\ UNCHANGED plugin
    BY DEF Change, LOW, HIGH, SYNC
  <1> HIDE DEF m
  <1>5. CASE /\ \E prio \in {LOW, HIGH} : plugin' = [plugin EXCEPT ![u] = replication_notify(plugin[u], prio)]
             /\ UNCHANGED <<waiting, sock>>
    <2>1. PICK prio \in {LOW, HIGH} : plugin' = [plugin EXCEPT ![u] = replication_notify(plugin[u], prio)]
      BY <1>5
    <2> DEFINE pl == replication_notify(plugin[u], prio)
    <2>2. PluginOK(pl) /\ pl.to
      BY <1>3, NotifyOK
    <2> HIDE DEF pl
    <2>3. PluginInv' /\ \A v \in Users : plugin'[v] = IF v = u THEN pl ELSE plugin[v]
      BY <2>1, <2>2, OnePlugin DEF pl
    <2>4. plugin'[u].to /\ \A v \in Users \ {u} : plugin'[v] = plugin[v]
      BY <2>2, <2>3
    <2> QED BY <1>1, <1>2, <1>5, <2>3, <2>4 DEF ChangeTo, m
  <1>6. CASE /\ u \in SyncUsers /\ waiting' = [waiting EXCEPT ![u] = TRUE]
             /\ sock' = [sock EXCEPT ![<<u, m>>] =
                           [NoSock EXCEPT !.cl = TRUE, !.line = TRUE, !.srv = "backlog"]]
             /\ UNCHANGED plugin
    <2>1. PluginInv'
      BY <1>6 DEF AggInv, AggTypes, PluginInv
    <2> QED BY <1>1, <1>2, <1>6, <2>1 DEF ChangeTo, m
  <1> QED BY <1>4, <1>5, <1>6

\* The connection that is opened for it is a new one.
LEMMA ChangeSocks ==
  ASSUME AggInv, NEW u \in Users, NEW m, ChangeTo(u, m)
  PROVE  /\ sock' \in [ConnIds -> SockRec] /\ \A k \in ConnIds : SockOK(sock'[k], rc, k)
         /\ \A k \in ConnIds : /\ k # <<u, m>> => sock'[k] = sock[k]
                               /\ k = <<u, m>> => ~Asked(rc, k) /\ sock'[k].reply = <<>>
         /\ waiting' \in [Users -> BOOLEAN] /\ \A v \in Users \ {u} : waiting'[v] = waiting[v]
         /\ waiting'[u] => <<u, m>> \in ConnIds /\ sock'[<<u, m>>].cl
         /\ ~waiting'[u] => plugin'[u].to
  <1>1. /\ sock \in [ConnIds -> SockRec] /\ \A k \in ConnIds : SockOK(sock[k], rc, k)
        /\ waiting \in [Users -> BOOLEAN] /\ n \in [Users -> 0..MaxChanges]
    BY DEF AggInv, AggTypes, SockInv, HistInv
  <1>2. m \in 1..MaxChanges /\ n[u] \in Nat /\ n[u] < m /\ ~waiting[u]
    BY <1>1, AggAssumption DEF ChangeTo
  <1>3. <<u, m>> \in ConnIds => sock[<<u, m>>] = NoSock /\ ~Asked(rc, <<u, m>>)
    <2> SUFFICES ASSUME <<u, m>> \in ConnIds PROVE sock[<<u, m>>] = NoSock /\ ~Asked(rc, <<u, m>>)
      OBVIOUS
    <2> DEFINE k == <<u, m>>
    <2>1. k[1] = u /\ k[2] = m /\ k \in ConnIds
      OBVIOUS
    <2> HIDE DEF k
    <2>2. sock[k].srv = "none"
      BY <1>2, <2>1 DEF AggInv, OpenInv
    <2>3. sock[k] = NoSock /\ ~Asked(rc, k)
      BY <1>1, <2>1, <2>2, NoSockIs DEF SockOK, Held
    <2> QED BY <2>3 DEF k
  <1>4. CASE plugin'[u].to /\ UNCHANGED <<waiting, sock>>
    BY <1>1, <1>2, <1>3, <1>4, NoSockIs
  <1>5. CASE /\ u \in SyncUsers /\ waiting' = [waiting EXCEPT ![u] = TRUE]
             /\ sock' = [sock EXCEPT ![<<u, m>>] =
                           [NoSock EXCEPT !.cl = TRUE, !.line = TRUE, !.srv = "backlog"]]
    <2> DEFINE k == <<u, m>>
               t == [NoSock EXCEPT !.cl = TRUE, !.line = TRUE, !.srv = "backlog"]
    <2>1. k \in ConnIds
      BY <1>2, <1>5 DEF ConnIds
    <2>2. /\ t \in SockRec /\ t.cl = TRUE /\ t.line = TRUE /\ t.srv = "backlog"
          /\ t.ref = 0 /\ t.reply = <<>>
      BY NoSockIs DEF SockRec
    <2>3. ~Asked(rc, k)
      BY <1>3, <2>1
    <2>4. sock' = [sock EXCEPT ![k] = t]
      BY <1>5
    <2> HIDE DEF t, k
    <2>5. SockOK(t, rc, k)
      BY <2>2, <2>3, OneReply DEF SockOK, Held
    <2>6. \A x \in ConnIds : sock'[x] = IF x = k THEN t ELSE sock[x]
      BY <1>1, <2>4
    <2>7. sock' \in [ConnIds -> SockRec] /\ \A x \in ConnIds : SockOK(sock'[x], rc, x)
      BY <1>1, <2>2, <2>4, <2>5, <2>6
    <2>8. /\ waiting' \in [Users -> BOOLEAN] /\ waiting'[u] = TRUE
          /\ \A v \in Users \ {u} : waiting'[v] = waiting[v]
      BY <1>1, <1>5
    <2> QED BY <2>1, <2>2, <2>3, <2>6, <2>7, <2>8 DEF k
  <1> QED BY <1>4, <1>5 DEF ChangeTo

LEMMA ChangeInv == ASSUME AggInv, NEW u \in Users, NEW m, ChangeTo(u, m) PROVE AggInv'
  <1>1. /\ sock' \in [ConnIds -> SockRec] /\ \A k \in ConnIds : SockOK(sock'[k], rc, k)
        /\ \A k \in ConnIds : k # <<u, m>> => sock'[k] = sock[k]
        /\ waiting' \in [Users -> BOOLEAN] /\ \A v \in Users \ {u} : waiting'[v] = waiting[v]
        /\ waiting'[u] => <<u, m>> \in ConnIds /\ sock'[<<u, m>>].cl
    BY ChangeSocks
  <1>2. /\ n \in [Users -> 0..MaxChanges] /\ m \in 1..MaxChanges /\ n' = [n EXCEPT ![u] = m]
        /\ MaxChanges \in Nat /\ \A v \in Users : n[v] < m
    BY AggAssumption DEF ChangeTo, AggInv, AggTypes, HistInv
  <1>3. /\ n' \in [Users -> 0..MaxChanges] /\ n'[u] = m
        /\ \A v \in Users : n[v] \in Nat /\ n'[v] \in Nat /\ n[v] <= n'[v]
        /\ \A v \in Users \ {u} : n'[v] = n[v]
    BY <1>2
  <1>4. AggTypes'
    BY <1>1, <1>3 DEF ChangeTo, AggInv, AggTypes, FifoInv, HistInv, RcOK
  <1>5. SockInv'
    BY <1>1 DEF ChangeTo, AggInv, SockInv
  <1>6. OpenInv'
    <2>1. ASSUME NEW k \in ConnIds, sock'[k].srv # "none" PROVE k[2] <= n'[k[1]]
      <3>1. k[1] \in Users /\ k[2] \in Nat
        BY AggAssumption DEF ConnIds
      <3>2. CASE k = <<u, m>>
        BY <1>2, <1>3, <3>1, <3>2
      <3>3. CASE k # <<u, m>>
        <4>1. k[2] <= n[k[1]]
          BY <1>1, <2>1, <3>3 DEF AggInv, OpenInv
        <4>2. n[k[1]] \in Nat /\ n'[k[1]] \in Nat /\ n[k[1]] <= n'[k[1]]
          BY <1>3, <3>1
        <4> QED BY <3>1, <4>1, <4>2
      <3> QED BY <3>2, <3>3
    <2>2. ASSUME NEW v \in Users, waiting'[v] PROVE <<v, n'[v]>> \in ConnIds /\ sock'[<<v, n'[v]>>].cl
      <3>1. CASE v = u
        BY <1>1, <1>3, <2>2, <3>1
      <3>2. CASE v # u
        BY <1>1, <1>3, <2>2, <3>2 DEF AggInv, OpenInv
      <3> QED BY <3>1, <3>2
    <2> QED BY <2>1, <2>2 DEF OpenInv
  <1>7. LinesOld'
    <2> SUFFICES ASSUME NEW l \in AllLines PROVE l.n <= n'[l.u]
      BY DEF ChangeTo, LinesOld, AllLines
    <2>1. l \in AggLines
      BY LinesType DEF AggInv, AggTypes, HistInv, AllLines
    <2>2. l.u \in Users /\ l.n \in Nat
      BY <2>1, LineFields
    <2>3. l.n <= n[l.u]
      BY DEF AggInv, LinesOld
    <2>4. n[l.u] \in Nat /\ n'[l.u] \in Nat /\ n[l.u] <= n'[l.u]
      BY <1>3, <2>2
    <2> QED BY <2>2, <2>3, <2>4
  <1> QED BY <1>4, <1>5, <1>6, <1>7 DEF AggInv

LEMMA ChangeAnswer ==
  ASSUME AggInv, AnswerInv, NEW u \in Users, NEW m, ChangeTo(u, m)
  PROVE  AnswerInv'
  <1>1. /\ \A k \in ConnIds : /\ k # <<u, m>> => sock'[k] = sock[k]
                              /\ k = <<u, m>> => ~Asked(rc, k) /\ sock'[k].reply = <<>>
        /\ \A v \in Users \ {u} : waiting'[v] = waiting[v]
        /\ ~waiting'[u] => plugin'[u].to
    BY ChangeSocks
  <1>2. /\ n \in [Users -> 0..MaxChanges] /\ m \in 1..MaxChanges /\ n' = [n EXCEPT ![u] = m]
        /\ MaxChanges \in Nat /\ \A v \in Users : n[v] < m
    BY AggAssumption DEF ChangeTo, AggInv, AggTypes, HistInv
  <1>3. n'[u] = m /\ n[u] \in Nat /\ m \in Nat /\ n[u] < m /\ \A v \in Users \ {u} : n'[v] = n[v]
    BY <1>2
  <1>4. IdsUsed' /\ IdsMatch'
    BY DEF AnswerInv, IdsUsed, IdsMatch, ChangeTo
  <1>5. AnswersGood'
    <2>1. \A q \in rc.requests : q.conn \in ConnIds /\ Asked(rc, q.conn)
      BY DEF AggInv, AggTypes, RcOK, RcRec, RequestRec, Asked
    <2>2. \A q \in rc.requests : sock'[q.conn] = sock[q.conn]
      BY <1>1, <2>1
    <2> QED BY <2>2 DEF AnswerInv, AnswersGood, ChangeTo
  <1>6. RepliesGood'
    <2>1. <<>> # <<"+">>
      OBVIOUS
    <2> QED BY <1>1, <2>1 DEF AnswerInv, RepliesGood, ChangeTo
  <1>7. GoodTold'
    <2>1. ASSUME NEW k \in good PROVE k[2] <= n'[k[1]] /\ (k[2] = n'[k[1]] => k[1] \in told')
      <3>1. k[1] \in Users /\ k[2] \in Nat
        BY AggAssumption DEF ConnIds, AggInv, AggTypes, HistInv
      <3>2. k[2] <= n[k[1]] /\ (k[2] = n[k[1]] => k[1] \in told)
        BY DEF AnswerInv, GoodTold
      <3>3. CASE k[1] = u
        BY <1>3, <3>1, <3>2, <3>3
      <3>4. CASE k[1] # u
        BY <1>3, <3>1, <3>2, <3>4 DEF ChangeTo
      <3> QED BY <3>3, <3>4
    <2>2. ASSUME NEW l \in rsyncs, l.n = n'[l.u] PROVE l.u \in told'
      <3>1. l.u \in Users /\ l.n <= n[l.u] /\ l.n \in Nat
        BY LineFields DEF AggInv, AggTypes, HistInv, LinesOld, AllLines
      <3>2. l.u # u
        BY <1>3, <2>2, <3>1
      <3> QED BY <1>3, <2>2, <3>1, <3>2 DEF ChangeTo, AnswerInv, GoodTold
    <2> QED BY <2>1, <2>2 DEF GoodTold, ChangeTo
  <1>8. Accounted'
    <2> SUFFICES ASSUME NEW v \in Users, v \notin told', ~waiting'[v], ~plugin'[v].to, v \notin lost'
                 PROVE  \E l \in Range(fifo) \cup RcLines(rc) : l.u = v /\ l.p # SYNC /\ l.n = n'[v]
      BY DEF Accounted, ChangeTo
    <2>1. v # u
      BY <1>1
    <2>2. v \notin told /\ ~waiting[v] /\ ~plugin[v].to /\ v \notin lost /\ n'[v] = n[v]
      BY <1>1, <1>3, <2>1 DEF ChangeTo
    <2> QED BY <2>2 DEF AnswerInv, Accounted
  <1> QED BY <1>4, <1>5, <1>6, <1>7, <1>8 DEF AnswerInv

\* The process of user u no longer waits for the answer on connection k.
SyncEndTo(u, k) ==
  /\ waiting[u] /\ k = <<u, n[u]>> /\ k \in ConnIds
  /\ waiting' \in [Users -> BOOLEAN] /\ ~waiting'[u]
  /\ \A v \in Users \ {u} : waiting'[v] = waiting[v]
  /\ sock' \in [ConnIds -> SockRec] /\ SockOK(sock'[k], rc, k)
  /\ ~sock'[k].cl /\ sock'[k].reply = <<>> /\ sock[k].srv # "none"
  /\ \A x \in ConnIds \ {k} : sock'[x] = sock[x]
  /\ good' = good \ {k}
  /\ PluginInv' /\ \A v \in Users \ {u} : plugin'[v] = plugin[v]
  /\ UNCHANGED <<n, fifo, rc, rsyncs, told, lost>>

LEMMA SyncEndSteps ==
  ASSUME AggInv, NEW u \in Users, waiting[u], NEW success \in BOOLEAN, SyncEnd(u, success)
  PROVE  SyncEndTo(u, <<u, n[u]>>) /\ (success \/ plugin'[u].to)
  <1> DEFINE k == <<u, n[u]>>
             s == sock[k]
             t == [s EXCEPT !.cl = FALSE, !.reply = <<>>]
             pl == IF success THEN Cleared(plugin[u]) ELSE replication_notify(plugin[u], HIGH)
  <1>1. /\ waiting' = [waiting EXCEPT ![u] = FALSE] /\ sock' = [sock EXCEPT ![k] = Swept(t)]
        /\ good' = good \ {k} /\ plugin' = [plugin EXCEPT ![u] = pl]
        /\ UNCHANGED <<n, fifo, rc, rsyncs, told, lost>>
    BY DEF SyncEnd
  <1>2. k \in ConnIds /\ s.cl
    BY DEF AggInv, OpenInv
  <1>3. /\ sock \in [ConnIds -> SockRec] /\ s \in SockRec /\ SockOK(s, rc, k)
        /\ waiting \in [Users -> BOOLEAN]
    BY <1>2 DEF AggInv, AggTypes, SockInv, HistInv
  <1>4. s.srv # "none"
    BY <1>2, <1>3, NoSockIs DEF SockOK
  <1>5. PluginInv' /\ (\A v \in Users \ {u} : plugin'[v] = plugin[v]) /\ (success \/ plugin'[u].to)
    <2>1. PluginOK(plugin[u]) /\ plugin[u] \in PluginRec /\ HIGH \in {LOW, HIGH}
      BY PluginIs DEF PluginOK
    <2>2. PluginOK(pl) /\ (success \/ pl.to)
      BY <2>1, ClearedOK, NotifyOK
    <2> HIDE DEF pl
    <2>3. PluginInv' /\ \A v \in Users : plugin'[v] = IF v = u THEN pl ELSE plugin[v]
      BY <1>1, <2>2, OnePlugin
    <2> QED BY <2>2, <2>3
  <1> HIDE DEF k, s, pl
  <1>6. /\ t \in SockRec /\ t.cl = FALSE /\ t.reply = <<>> /\ t.srv = s.srv /\ t.ref = s.ref
        /\ t.line = s.line
    BY <1>3, OneReply DEF SockRec
  <1> HIDE DEF t
  <1>7. SockOK(t, rc, k)
    BY <1>3, <1>4, <1>6, OneReply DEF SockOK, Held
  <1>8. SockOK(Swept(t), rc, k)
    BY <1>6, <1>7, SweptOK
  <1>9. Swept(t) \in SockRec /\ Swept(t).cl = FALSE /\ Swept(t).reply = <<>>
    BY <1>6, SweptIs
  <1>10. /\ sock' \in [ConnIds -> SockRec] /\ sock'[k] = Swept(t)
         /\ \A x \in ConnIds \ {k} : sock'[x] = sock[x]
    BY <1>1, <1>2, <1>3, <1>9
  <1>11. /\ waiting' \in [Users -> BOOLEAN] /\ ~waiting'[u]
         /\ \A v \in Users \ {u} : waiting'[v] = waiting[v]
    BY <1>1, <1>3
  <1>12. ~sock'[k].cl /\ sock'[k].reply = <<>> /\ SockOK(sock'[k], rc, k)
    BY <1>8, <1>9, <1>10
  <1> QED BY <1>1, <1>2, <1>4, <1>5, <1>10, <1>11, <1>12 DEF SyncEndTo, k, s

LEMMA SyncEndInv == ASSUME AggInv, NEW u \in Users, NEW k, SyncEndTo(u, k) PROVE AggInv'
  <1>1. AggTypes'
    BY DEF SyncEndTo, AggInv, AggTypes, FifoInv, HistInv, RcOK
  <1>2. SockInv'
    BY DEF SyncEndTo, AggInv, SockInv
  <1>3. OpenInv'
    <2>1. \A x \in ConnIds : sock'[x].srv # "none" => x[2] <= n[x[1]]
      BY DEF SyncEndTo, AggInv, OpenInv
    <2>2. ASSUME NEW v \in Users, waiting'[v] PROVE <<v, n[v]>> \in ConnIds /\ sock'[<<v, n[v]>>].cl
      <3>1. v # u /\ waiting[v]
        BY <2>2 DEF SyncEndTo
      <3>2. <<v, n[v]>> # k
        BY <3>1 DEF SyncEndTo
      <3> QED BY <3>1, <3>2 DEF SyncEndTo, AggInv, OpenInv
    <2> QED BY <2>1, <2>2 DEF OpenInv, SyncEndTo
  <1>4. LinesOld'
    BY DEF SyncEndTo, AggInv, LinesOld, AllLines
  <1> QED BY <1>1, <1>2, <1>3, <1>4 DEF AggInv

LEMMA SyncEndAnswer ==
  ASSUME AggInv, AnswerInv, NEW u \in Users, NEW k, SyncEndTo(u, k), plugin'[u].to \/ u \in told
  PROVE  AnswerInv'
  <1>1. IdsUsed' /\ IdsMatch' /\ GoodTold'
    BY DEF AnswerInv, IdsUsed, IdsMatch, GoodTold, SyncEndTo
  <1>2. AnswersGood'
    <2>1. \A q \in rc.requests : q.conn \in ConnIds
      BY DEF AggInv, AggTypes, RcOK, RcRec, RequestRec
    <2> QED BY <2>1 DEF AnswerInv, AnswersGood, SyncEndTo
  <1>3. RepliesGood'
    <2>1. <<>> # <<"+">>
      OBVIOUS
    <2> QED BY <2>1 DEF AnswerInv, RepliesGood, SyncEndTo
  <1>4. Accounted'
    <2> SUFFICES ASSUME NEW v \in Users, v \notin told, ~waiting'[v], ~plugin'[v].to, v \notin lost
                 PROVE  \E l \in Range(fifo) \cup RcLines(rc) : l.u = v /\ l.p # SYNC /\ l.n = n[v]
      BY DEF Accounted, SyncEndTo
    <2>1. v # u /\ ~waiting[v] /\ ~plugin[v].to
      BY DEF SyncEndTo
    <2> QED BY <2>1 DEF AnswerInv, Accounted
  <1> QED BY <1>1, <1>2, <1>3, <1>4 DEF AnswerInv

\* An answer that begins with "+" is no more than that.
LEMMA PlusIs ==
  ASSUME NEW y \in Seq({"+", "-"}), Len(y) <= 1, y # <<>>, Head(y) = "+"
  PROVE  y = <<"+">>
  <1>1. Len(y) # 0
    BY EmptySeq
  <1> DEFINE c == Len(y)
  <1>2. c \in Nat /\ c # 0 /\ c <= 1
    BY <1>1
  <1> HIDE DEF c
  <1>3. c = 1
    BY ONLY <1>2
  <1>4. Len(y) = 1 /\ y[1] = "+"
    BY <1>3, HeadTailProperties DEF c
  <1> QED BY <1>4

\* A "+" is read only for a change that the replicator knows of.
LEMMA PlusTold ==
  ASSUME AggInv, AnswerInv, NEW u \in Users, waiting[u], sock[<<u, n[u]>>].reply # <<>>,
         Head(sock[<<u, n[u]>>].reply) = "+"
  PROVE  u \in told
  <1> DEFINE k == <<u, n[u]>>
             y == sock[k].reply
  <1>1. k \in ConnIds /\ k[1] = u /\ k[2] = n[u]
    BY DEF AggInv, OpenInv
  <1>2. y \in Seq({"+", "-"}) /\ Len(y) <= 1 /\ y # <<>> /\ Head(y) = "+"
    BY <1>1 DEF AggInv, AggTypes, SockRec, SockInv, SockOK
  <1>3. y = <<"+">>
    BY <1>2, PlusIs
  <1>4. k \in good
    BY <1>1, <1>3 DEF AnswerInv, RepliesGood
  <1> QED BY <1>1, <1>4 DEF AnswerInv, GoodTold

\* replication_fifo_notify(): the line is in the FIFO if the result is 1, and
\* priority and timer are left alone.
FifoNotified(t, pl, f, l) ==
  /\ t.ret \in {-1, 0, 1} /\ t.pl \in PluginRec /\ t.pl.to = pl.to /\ t.pl.prio = pl.prio
  /\ t.ret = 1 => t.fifo = Append(f, l) /\ Len(f) < FifoMax
  /\ t.ret # 1 => t.fifo = f

LEMMA FifoNotifyOK ==
  ASSUME NEW pl \in PluginRec, NEW f \in Seq(AggLines), NEW l
  PROVE  FifoNotified(replication_fifo_notify(pl, f, l), pl, f, l)
  <1> DEFINE t == replication_fifo_notify(pl, f, l)
  <1>1. pl.failed \in BOOLEAN /\ pl.fd \in {"closed", "open", "stale"} /\ Len(f) \in Nat /\ FifoMax \in Nat
    BY AggAssumption DEF PluginRec
  <1>2. /\ [pl EXCEPT !.failed = TRUE] \in PluginRec /\ [pl EXCEPT !.failed = TRUE].to = pl.to
        /\ [pl EXCEPT !.failed = TRUE].prio = pl.prio
    BY DEF PluginRec
  <1>3. /\ [pl EXCEPT !.fd = "closed"] \in PluginRec /\ [pl EXCEPT !.fd = "closed"].to = pl.to
        /\ [pl EXCEPT !.fd = "closed"].prio = pl.prio
    BY DEF PluginRec
  <1>4. /\ [pl EXCEPT !.fd = "open"] \in PluginRec /\ [pl EXCEPT !.fd = "open"].to = pl.to
        /\ [pl EXCEPT !.fd = "open"].prio = pl.prio
    BY DEF PluginRec
  <1> DEFINE a == [pl EXCEPT !.failed = TRUE]
             b == [pl EXCEPT !.fd = "closed"]
             c == [pl EXCEPT !.fd = "open"]
  <1>5. \/ t = [ret |-> -1, pl |-> pl, fifo |-> f]
        \/ t = [ret |-> -1, pl |-> a, fifo |-> f]
        \/ t = [ret |-> -1, pl |-> b, fifo |-> f]
        \/ t = [ret |-> 0, pl |-> c, fifo |-> f]
        \/ ~(Len(f) >= FifoMax) /\ t = [ret |-> 1, pl |-> c, fifo |-> Append(f, l)]
    BY <1>1 DEF replication_fifo_notify
  <1> HIDE DEF a, b, c, t
  <1>6. /\ a \in PluginRec /\ a.to = pl.to /\ a.prio = pl.prio
        /\ b \in PluginRec /\ b.to = pl.to /\ b.prio = pl.prio
        /\ c \in PluginRec /\ c.to = pl.to /\ c.prio = pl.prio
    BY <1>2, <1>3, <1>4 DEF a, b, c
  <1>7. ~(Len(f) >= FifoMax) => Len(f) < FifoMax
    BY <1>1
  <1>8. FifoNotified(t, pl, f, l)
    BY <1>5, <1>6, <1>7 DEF FifoNotified
  <1> QED BY <1>8 DEF t

\* replication_notify_now(): the timer goes on only if the FIFO was full.
NowDone(t, pl, l) ==
  /\ t.ret \in {-1, 0, 1} /\ PluginOK(t.pl)
  /\ t.ret = 1 => t.fifo = Append(fifo, l) /\ Len(fifo) < FifoMax
  /\ t.ret # 1 => t.fifo = fifo
  /\ t.ret = 0 => t.pl.to = pl.to

LEMMA NotifyNowOK ==
  ASSUME NEW pl, PluginOK(pl), fifo \in Seq(AggLines), NEW l
  PROVE  NowDone(replication_notify_now(pl, l), pl, l)
  <1> DEFINE first == replication_fifo_notify(pl, fifo, l)
             second == replication_fifo_notify(first.pl, first.fifo, l)
             t == IF first.ret < 0 /\ ~first.pl.failed THEN second ELSE first
             p == IF t.ret # 0 THEN Cleared(t.pl) ELSE t.pl
             w == [t EXCEPT !.pl = p]
  <1>1. replication_notify_now(pl, l) = w
    BY DEF replication_notify_now
  <1>2. pl \in PluginRec
    BY DEF PluginOK
  <1>3. FifoNotified(first, pl, fifo, l)
    BY <1>2, FifoNotifyOK
  <1>4. first.pl \in PluginRec /\ (first.ret < 0 => first.fifo = fifo)
    BY <1>3 DEF FifoNotified
  <1>5. first.ret < 0 => FifoNotified(second, pl, fifo, l)
    <2> HIDE DEF first
    <2> SUFFICES ASSUME first.ret < 0 PROVE FifoNotified(second, pl, fifo, l)
      OBVIOUS
    <2>1. second = replication_fifo_notify(first.pl, fifo, l)
      BY <1>4
    <2>2. FifoNotified(second, first.pl, fifo, l)
      BY <1>4, <2>1, FifoNotifyOK
    <2> QED BY <1>3, <2>2 DEF FifoNotified
  <1>6. DOMAIN first = {"ret", "pl", "fifo"} /\ DOMAIN second = {"ret", "pl", "fifo"}
    BY DEF replication_fifo_notify
  <1> HIDE DEF first, second
  <1>7. FifoNotified(t, pl, fifo, l) /\ "pl" \in DOMAIN t /\ "ret" \in DOMAIN t /\ "fifo" \in DOMAIN t
    BY <1>3, <1>5, <1>6
  <1> HIDE DEF t
  <1>8. PluginOK(p) /\ (t.ret = 0 => p.to = pl.to)
    <2>1. CASE t.ret # 0
      BY <1>7, <2>1, ClearedOK DEF FifoNotified
    <2>2. CASE t.ret = 0
      BY <1>7, <2>2 DEF FifoNotified, PluginOK
    <2> QED BY <2>1, <2>2
  <1> HIDE DEF p
  <1>9. w.pl = p /\ w.ret = t.ret /\ w.fifo = t.fifo
    BY <1>7
  <1> HIDE DEF w
  <1> QED BY <1>1, <1>7, <1>8, <1>9 DEF NowDone, FifoNotified

\* The timer, or the end of the session.
NotifyTo(u, pl, l) ==
  /\ ~waiting[u] /\ PluginOK(pl) /\ plugin' = [plugin EXCEPT ![u] = pl]
  /\ l \in AggLines /\ l.u = u /\ l.p # SYNC /\ l.n = n[u]
  /\ \/ fifo' = Append(fifo, l) /\ Len(fifo) < FifoMax /\ lost' = Lose({})
     \/ fifo' = fifo /\ lost' = Lose({l})
     \/ fifo' = fifo /\ lost' = Lose({}) /\ pl.to
  /\ UNCHANGED <<n, waiting, sock, rc, rsyncs, told, good>>

LEMMA FifoLineOK ==
  ASSUME AggInv, NEW u \in Users, plugin[u].to
  PROVE  /\ FifoLine(u) \in AggLines /\ FifoLine(u).u = u /\ FifoLine(u).p # SYNC
         /\ FifoLine(u).n = n[u]
  <1>1. plugin[u].prio \in 1..2 /\ n[u] \in 0..MaxChanges /\ 0 \in 0..(IdMod - 1)
    BY AggAssumption, PluginIs DEF PluginOK, PluginRec, NONE, HIGH, AggInv, AggTypes, HistInv
  <1>2. plugin[u].prio \in Queues /\ plugin[u].prio # SYNC
    BY <1>1 DEF Queues, LOW, SYNC
  <1> QED BY <1>1, <1>2 DEF FifoLine, AggLines, Lines

LEMMA TimeoutSteps ==
  ASSUME AggInv, NEW u \in Users, NotifyTimeout(u)
  PROVE  \E pl \in PluginRec : NotifyTo(u, pl, FifoLine(u))
  <1> DEFINE l == FifoLine(u)
             t == replication_notify_now(plugin[u], l)
  <1>1. /\ ~waiting[u] /\ plugin[u].to /\ plugin' = [plugin EXCEPT ![u] = t.pl] /\ fifo' = t.fifo
        /\ lost' = Lose(IF t.ret < 0 THEN {l} ELSE {})
        /\ UNCHANGED <<n, waiting, sock, rc, rsyncs, told, good>>
    BY DEF NotifyTimeout, WriteFifo
  <1>2. NowDone(t, plugin[u], l)
    BY PluginIs, NotifyNowOK DEF AggInv, AggTypes, FifoInv
  <1>3. l \in AggLines /\ l.u = u /\ l.p # SYNC /\ l.n = n[u]
    BY <1>1, FifoLineOK
  <1> HIDE DEF t, l
  <1>4. NotifyTo(u, t.pl, l) /\ t.pl \in PluginRec
    <2>1. t.ret \in {-1, 0, 1} /\ PluginOK(t.pl) /\ t.pl \in PluginRec
      BY <1>2 DEF NowDone, PluginOK
    <2>2. CASE t.ret = 1
      BY <1>1, <1>2, <1>3, <2>1, <2>2 DEF NotifyTo, NowDone
    <2>3. CASE t.ret = 0
      <3>1. t.pl.to = plugin[u].to /\ t.fifo = fifo
        BY <1>2, <2>3 DEF NowDone
      <3>2. t.pl.to
        BY <1>1, <3>1, Zenon
      <3>3. lost' = Lose({})
        <4>1. ~(t.ret < 0)
          BY <2>3
        <4> QED BY <1>1, <4>1
      <3> QED BY <1>1, <1>3, <2>1, <3>1, <3>2, <3>3 DEF NotifyTo
    <2>4. CASE t.ret = -1
      BY <1>1, <1>2, <1>3, <2>1, <2>4 DEF NotifyTo, NowDone
    <2> QED BY <2>1, <2>2, <2>3, <2>4
  <1> QED BY <1>4 DEF l

LEMMA DeinitSteps ==
  ASSUME AggInv, NEW u \in Users, replication_user_deinit(u)
  PROVE  \E pl \in PluginRec : NotifyTo(u, pl, FifoLine(u))
  <1> DEFINE l == FifoLine(u)
             t == replication_notify_now(plugin[u], l)
             c == IF t.ret = 0 THEN -1 ELSE t.ret
             w == [t EXCEPT !.ret = c]
             pl == Cleared(t.pl)
  <1>1. /\ ~waiting[u] /\ plugin[u].to /\ plugin' = [plugin EXCEPT ![u] = pl] /\ fifo' = w.fifo
        /\ lost' = Lose(IF w.ret < 0 THEN {l} ELSE {})
        /\ UNCHANGED <<n, waiting, sock, rc, rsyncs, told, good>>
    BY DEF replication_user_deinit, WriteFifo
  <1>2. NowDone(t, plugin[u], l)
    BY PluginIs, NotifyNowOK DEF AggInv, AggTypes, FifoInv
  <1>3. l \in AggLines /\ l.u = u /\ l.p # SYNC /\ l.n = n[u]
    BY <1>1, FifoLineOK
  <1>4. DOMAIN t = {"ret", "pl", "fifo"}
    BY DEF replication_notify_now, replication_fifo_notify
  <1> HIDE DEF t, l
  <1>5. w.ret = c /\ w.fifo = t.fifo
    BY <1>4
  <1>6. t.ret \in {-1, 0, 1} /\ t.pl \in PluginRec
    BY <1>2 DEF NowDone, PluginOK
  <1>7. PluginOK(pl) /\ pl \in PluginRec
    BY <1>6, ClearedOK DEF PluginOK
  <1> HIDE DEF w, pl
  <1>8. NotifyTo(u, pl, l)
    <2>1. CASE t.ret = 1
      BY <1>1, <1>2, <1>3, <1>5, <1>7, <2>1 DEF NotifyTo, NowDone
    <2>2. CASE t.ret # 1
      <3>1. w.ret < 0 /\ fifo' = fifo
        BY <1>1, <1>2, <1>5, <1>6, <2>2 DEF NowDone
      <3> QED BY <1>1, <1>3, <1>7, <3>1 DEF NotifyTo
    <2> QED BY <2>1, <2>2
  <1> QED BY <1>7, <1>8 DEF l

LEMMA NotifyInv == ASSUME AggInv, NEW u \in Users, NEW pl, NEW l, NotifyTo(u, pl, l) PROVE AggInv'
  <1>1. PluginInv'
    BY OnePlugin DEF NotifyTo
  <1>2. {} \in SUBSET AggLines /\ {l} \in SUBSET AggLines
    BY DEF NotifyTo
  <1>3. lost' \subseteq Users
    BY <1>2, LoseType DEF NotifyTo, AggInv, AggTypes, HistInv
  <1>4. FifoInv' /\ Range(fifo') \subseteq Range(fifo) \cup {l}
    <2>1. fifo \in Seq(AggLines) /\ Len(fifo) \in Nat /\ FifoMax \in Nat /\ l \in AggLines
      BY AggAssumption DEF AggInv, AggTypes, FifoInv, NotifyTo
    <2>2. CASE fifo' = Append(fifo, l) /\ Len(fifo) < FifoMax
      <3>1. fifo' \in Seq(AggLines) /\ Len(fifo') = Len(fifo) + 1 /\ Range(fifo') = Range(fifo) \cup {l}
        BY <2>1, <2>2, AppendLines
      <3>2. Len(fifo') <= FifoMax
        BY <2>1, <2>2, <3>1
      <3> QED BY <3>1, <3>2 DEF AggInv, AggTypes, FifoInv, NotifyTo
    <2>3. CASE fifo' = fifo
      BY <2>3 DEF AggInv, AggTypes, FifoInv
    <2> QED BY <2>2, <2>3 DEF NotifyTo
  <1>5. AggTypes'
    BY <1>1, <1>3, <1>4 DEF NotifyTo, AggInv, AggTypes, HistInv, RcOK
  <1>6. SockInv' /\ OpenInv'
    BY DEF NotifyTo, AggInv, SockInv, OpenInv
  <1>7. LinesOld'
    <2>1. l.n <= n[l.u]
      BY AggAssumption DEF NotifyTo, AggInv, AggTypes, HistInv
    <2> QED BY <1>4, <2>1 DEF NotifyTo, AggInv, LinesOld, AllLines
  <1> QED BY <1>5, <1>6, <1>7 DEF AggInv

LEMMA NotifyAnswer ==
  ASSUME AggInv, AnswerInv, NEW u \in Users, NEW pl, NEW l, NotifyTo(u, pl, l)
  PROVE  AnswerInv'
  <1>1. IdsUsed' /\ IdsMatch' /\ AnswersGood'
    BY DEF AnswerInv, IdsUsed, IdsMatch, AnswersGood, NotifyTo
  <1>2. RepliesGood' /\ GoodTold'
    BY DEF AnswerInv, RepliesGood, GoodTold, NotifyTo
  <1>3. \A v \in Users : plugin'[v] = IF v = u THEN pl ELSE plugin[v]
    <2>1. PluginOK(pl) /\ plugin' = [plugin EXCEPT ![u] = pl]
      BY DEF NotifyTo
    <2> QED BY <2>1, OnePlugin
  <1>4. Range(fifo) \subseteq Range(fifo') /\ \/ l \in Range(fifo') \/ lost' = Lose({l}) \/ pl.to
    <2>1. fifo \in Seq(AggLines) /\ l \in AggLines
      BY DEF AggInv, AggTypes, FifoInv, NotifyTo
    <2>2. CASE fifo' = Append(fifo, l)
      BY <2>1, <2>2, AppendLines
    <2>3. CASE fifo' = fifo /\ (lost' = Lose({l}) \/ pl.to)
      BY <2>3
    <2> QED BY <2>2, <2>3 DEF NotifyTo
  <1>5. Accounted'
    <2> SUFFICES ASSUME NEW v \in Users, v \notin told, ~waiting[v], ~plugin'[v].to, v \notin lost'
                 PROVE  \E x \in Range(fifo') \cup RcLines(rc) : x.u = v /\ x.p # SYNC /\ x.n = n[v]
      BY DEF Accounted, NotifyTo
    <2>1. CASE v = u
      BY <1>3, <1>4, <2>1, LoseIs DEF NotifyTo
    <2>2. CASE v # u
      <3>1. ~plugin[v].to /\ v \notin lost
        BY <1>3, <2>2, LoseIs DEF NotifyTo
      <3> QED BY <1>4, <3>1 DEF AnswerInv, Accounted
    <2> QED BY <2>1, <2>2
  <1> QED BY <1>1, <1>2, <1>5 DEF AnswerInv

-----------------------------------------------------------------------------
(* The initial states.                                                     *)

\* A line that waits since before the start.
OldLine(u, p, i) == [u |-> u, p |-> p, id |-> IF p = SYNC THEN i ELSE 0, n |-> 0]

LEMMA OldLineOK ==
  ASSUME NEW u \in Users, NEW p \in {HIGH, SYNC}, p = SYNC => u \in SyncUsers, NEW i \in 1..Backlog
  PROVE  /\ OldLine(u, p, i) \in AggLines /\ OldLine(u, p, i).u = u /\ OldLine(u, p, i).p = p
         /\ OldLine(u, p, i).n = 0 /\ OldLine(u, p, i).id = IF p = SYNC THEN i ELSE 0
  <1> DEFINE d == IF p = SYNC THEN i ELSE 0
             l == OldLine(u, p, i)
  <1>1. d \in 0..(IdMod - 1) /\ 0 \in 0..MaxChanges
    BY AggAssumption
  <1>2. l = [u |-> u, p |-> p, id |-> d, n |-> 0]
    BY DEF OldLine
  <1>3. p \in Queues
    BY DEF Queues, LOW, HIGH, SYNC
  <1> HIDE DEF d, l
  <1>4. l \in AggLines /\ l.u = u /\ l.p = p /\ l.n = 0 /\ l.id = d
    BY <1>1, <1>2, <1>3 DEF AggLines, Lines
  <1> QED BY <1>4 DEF d, l

LEMMA QueuedOK ==
  ASSUME NEW u \in Users, NEW p \in {HIGH, SYNC}, p = SYNC => u \in SyncUsers
  PROVE  /\ RcOK(QueuedFor(u, p)) /\ QueuedFor(u, p).requests = {}
         /\ QueuedFor(u, p).replies = <<>>
         /\ QueuedFor(u, p).counter = IF p = SYNC THEN Backlog ELSE 0
         /\ \A l : l \in RcLines(QueuedFor(u, p)) <=> \E i \in 1..Backlog : l = OldLine(u, p, i)
  <1> DEFINE c == IF p = SYNC THEN Backlog ELSE 0
             a == [i \in 1..Backlog |-> OldLine(u, p, i)]
             g == [NewConn.queue EXCEPT ![p] = a]
             r == [NewConn EXCEPT !.to = TRUE, !.counter = c, !.queue = g]
  <1>1. QueuedFor(u, p) = r
    BY DEF QueuedFor, OldLine, NewConn
  <1>2. p \in Queues /\ c \in 0..(IdMod - 1) /\ Backlog \in Nat /\ Backlog <= QueueMax /\ QueueMax \in Nat
    BY AggAssumption DEF Queues, LOW, HIGH, SYNC
  <1>3. a \in Seq(AggLines) /\ Len(a) = Backlog /\ \A l : l \in Range(a) <=> \E i \in 1..Backlog : l = OldLine(u, p, i)
    BY <1>2, OldLineOK DEF Range
  <1>4. /\ NewConn \in RcRec /\ NewConn.queue \in [Queues -> Seq(AggLines)]
        /\ \A x \in Queues : NewConn.queue[x] = <<>>
        /\ NewConn.out = <<>> /\ NewConn.wire = <<>> /\ NewConn.requests = {} /\ NewConn.replies = <<>>
        /\ NewConn.looping = FALSE
    <2>1. NewConn \in RcRec
      BY NewConnOK DEF RcOK
    <2> QED BY <2>1 DEF RcRec, NewConn
  <1> HIDE DEF a
  <1>5. /\ g \in [Queues -> Seq(AggLines)] /\ g[p] = a
        /\ \A x \in Queues : g[x] = IF x = p THEN a ELSE <<>>
    BY <1>2, <1>3, <1>4
  <1> HIDE DEF g, c
  <1>6. /\ r \in RcRec /\ r.queue = g /\ r.counter = c /\ r.out = NewConn.out /\ r.wire = NewConn.wire
        /\ r.requests = NewConn.requests /\ r.replies = NewConn.replies /\ r.looping = NewConn.looping
    BY <1>2, <1>4, <1>5 DEF RcRec
  <1> HIDE DEF r
  <1>7. \A x \in Queues : Len(r.queue[x]) <= QueueMax
    BY <1>2, <1>3, <1>5, <1>6
  <1>8. Len(r.wire) <= WireMax
    BY <1>4, <1>6, AggAssumption
  <1>9. RcOK(r)
    BY <1>4, <1>6, <1>7, <1>8 DEF RcOK
  <1>10. \A l : l \in RcLines(r) <=> l \in Range(a)
    BY <1>2, <1>4, <1>5, <1>6, NoLines, RcLinesIs
  <1> QED BY <1>1, <1>3, <1>4, <1>6, <1>9, <1>10 DEF c

\* What the initial connection may be.
StartOK ==
  /\ RcOK(rc) /\ rc.requests = {} /\ rc.replies = <<>> /\ told \subseteq Users
  /\ \A l \in RcLines(rc) : l \in AggLines /\ l.n = 0 /\ (l.p = SYNC => l.id \in 1..rc.counter)
  /\ \A u \in Users \ told : \E l \in RcLines(rc) : l.u = u /\ l.p # SYNC /\ l.n = 0

LEMMA StartIs == ASSUME AggInit PROVE StartOK
  <1>1. CASE rc = NewConn /\ told = Users
    BY <1>1, NewConnOK DEF StartOK
  <1>2. ASSUME NEW u \in Users, Backlog > 0, rc = QueuedFor(u, HIGH), told = Users \ {u} PROVE StartOK
    <2>1. HIGH \in {HIGH, SYNC} /\ HIGH # SYNC /\ 1 \in 1..Backlog
      BY <1>2, AggAssumption DEF HIGH, SYNC
    <2>2. /\ RcOK(rc) /\ rc.requests = {} /\ rc.replies = <<>>
          /\ \A l : l \in RcLines(rc) <=> \E i \in 1..Backlog : l = OldLine(u, HIGH, i)
      BY <1>2, <2>1, QueuedOK
    <2>3. \A l \in RcLines(rc) : l \in AggLines /\ l.n = 0 /\ l.p # SYNC
      BY <2>1, <2>2, OldLineOK
    <2>4. OldLine(u, HIGH, 1) \in RcLines(rc) /\ OldLine(u, HIGH, 1).u = u
      BY <2>1, <2>2, OldLineOK
    <2> QED BY <1>2, <2>2, <2>3, <2>4 DEF StartOK
  <1>3. ASSUME NEW u \in SyncUsers, rc = QueuedFor(u, SYNC), told = Users PROVE StartOK
    <2>1. u \in Users /\ SYNC \in {HIGH, SYNC}
      BY AggAssumption
    <2>2. /\ RcOK(rc) /\ rc.requests = {} /\ rc.replies = <<>> /\ rc.counter = Backlog
          /\ \A l : l \in RcLines(rc) <=> \E i \in 1..Backlog : l = OldLine(u, SYNC, i)
      BY <1>3, <2>1, QueuedOK
    <2>3. \A l \in RcLines(rc) : l \in AggLines /\ l.n = 0 /\ l.id \in 1..rc.counter
      BY <2>1, <2>2, OldLineOK
    <2> QED BY <1>3, <2>2, <2>3 DEF StartOK
  <1> QED BY <1>1, <1>2, <1>3 DEF AggInit

LEMMA AggInvInit == ASSUME AggInit PROVE AggInv
  <1>1. StartOK
    BY StartIs
  <1>2. /\ n = [u \in Users |-> 0] /\ waiting = [u \in Users |-> FALSE] /\ fifo = <<>> /\ rsyncs = {}
        /\ sock = [k \in ConnIds |-> NoSock] /\ lost = {} /\ good = {}
    BY DEF AggInit
  <1>3. PluginInv
    BY DEF AggInit, PluginInv, PluginRec, NONE, HIGH
  <1>4. FifoInv /\ HistInv
    BY <1>1, <1>2, NoLines, AggAssumption DEF FifoInv, HistInv, StartOK
  <1>5. AggTypes
    BY <1>1, <1>2, <1>3, <1>4, NoSockIs DEF AggTypes, StartOK
  <1>6. SockInv
    <2>1. \A k \in ConnIds : SockOK(NoSock, rc, k)
      BY <1>1, NoSockIs, NothingAsked DEF SockOK, Held, StartOK
    <2> QED BY <1>1, <1>2, <2>1 DEF SockInv, StartOK
  <1>7. OpenInv
    BY <1>2, NoSockIs DEF OpenInv
  <1>8. LinesOld
    <2>1. \A l \in AllLines : l \in AggLines /\ l.n = 0
      BY <1>1, <1>2, NoLines DEF AllLines, StartOK
    <2> QED BY <1>2, <2>1, LineFields DEF LinesOld
  <1> QED BY <1>5, <1>6, <1>7, <1>8 DEF AggInv

LEMMA AnswerInit == ASSUME AggInit PROVE AnswerInv
  <1>1. StartOK
    BY StartIs
  <1>2. n = [u \in Users |-> 0] /\ rsyncs = {} /\ sock = [k \in ConnIds |-> NoSock] /\ good = {}
    BY DEF AggInit
  <1>3. IdsUsed /\ IdsMatch /\ AnswersGood
    BY <1>1, <1>2, NoLines DEF IdsUsed, IdsMatch, AnswersGood, StartOK
  <1>4. RepliesGood
    <2>1. NoSock.reply # <<"+">>
      BY NoSockIs
    <2> QED BY <1>2, <2>1 DEF RepliesGood
  <1>5. GoodTold
    BY <1>2 DEF GoodTold
  <1>6. Accounted
    BY <1>1, <1>2 DEF Accounted, StartOK
  <1> QED BY <1>3, <1>4, <1>5, <1>6 DEF AnswerInv

-----------------------------------------------------------------------------
(* The next-state relation.                                                *)

\* Every step of the output loop is one of three kinds.
OutputKinds == CalmStep \/ DisconnectStep \/ ExitStep

LEMMA OutputSteps == ASSUME AggInv, replicator_output PROVE OutputKinds
  <1>1. CASE rc' = [Fit(rc) EXCEPT !.pending = FALSE, !.looping = TRUE] /\ UNCHANGED <<sock, lost>>
    <2> DEFINE f == Fit(rc)
               t == [f EXCEPT !.pending = FALSE, !.looping = TRUE]
    <2>1. rc \in RcRec /\ Len(rc.wire) <= WireMax /\ RcOK(rc) /\ rc.fd
      BY DEF AggInv, AggTypes, RcOK, replicator_output
    <2>2. /\ f \in RcRec /\ Len(f.wire) <= WireMax /\ f.fd = rc.fd /\ f.queue = rc.queue
          /\ f.requests = rc.requests /\ f.counter = rc.counter /\ f.replies = rc.replies
          /\ RcLines(f) = RcLines(rc)
      BY <2>1, FitOK
    <2>3. rc' = t
      BY <1>1
    <2> HIDE DEF f
    <2>4. /\ t \in RcRec /\ t.fd = f.fd /\ t.queue = f.queue /\ t.out = f.out /\ t.wire = f.wire
          /\ t.requests = f.requests /\ t.counter = f.counter /\ t.replies = f.replies
      BY <2>2 DEF RcRec
    <2> HIDE DEF t
    <2>5. RcLines(t) = RcLines(rc)
      BY <2>2, <2>4, SameLines
    <2>6. RcOK(t) /\ Like(rc, t)
      BY <2>1, <2>2, <2>4 DEF RcOK, Like
    <2>7. CalmStep
      BY <1>1, <2>3, <2>5, <2>6 DEF CalmStep, replicator_output
    <2> QED BY <2>7 DEF OutputKinds
  <1>2. CASE Disconnect
    BY <1>2 DEF OutputKinds, DisconnectStep, replicator_output
  <1> QED BY <1>1, <1>2 DEF replicator_output

\* The flags of a connection may change as long as it is open.
LEMMA FlagsOK ==
  ASSUME NEW r, RcOK(r), r.fd, NEW p \in BOOLEAN, NEW b \in BOOLEAN
  PROVE  /\ RcOK([r EXCEPT !.pending = p, !.looping = b])
         /\ Like(r, [r EXCEPT !.pending = p, !.looping = b])
         /\ RcLines([r EXCEPT !.pending = p, !.looping = b]) = RcLines(r)
  <1> DEFINE t == [r EXCEPT !.pending = p, !.looping = b]
  <1>1. /\ t \in RcRec /\ t.fd = r.fd /\ t.queue = r.queue /\ t.out = r.out /\ t.wire = r.wire
        /\ t.requests = r.requests /\ t.counter = r.counter /\ t.replies = r.replies
    BY DEF RcOK, RcRec
  <1> HIDE DEF t
  <1>2. RcLines(t) = RcLines(r)
    BY <1>1, SameLines
  <1>3. RcOK(t) /\ Like(r, t)
    BY <1>1 DEF RcOK, Like
  <1> QED BY <1>2, <1>3 DEF t

LEMMA LoopSteps == ASSUME AggInv, OutputLoop PROVE OutputKinds
  <1>1. RcOK(rc) /\ rc.fd /\ rc.pending \in BOOLEAN
    BY DEF AggInv, AggTypes, RcOK, RcRec, OutputLoop
  <1>2. CASE rc' = [rc EXCEPT !.pending = TRUE, !.looping = FALSE] /\ UNCHANGED <<sock, rsyncs, lost, panic>>
    <2>1. RcOK(rc') /\ Like(rc, rc') /\ RcLines(rc') = RcLines(rc)
      BY <1>1, <1>2, FlagsOK
    <2> QED BY <1>2, <2>1 DEF OutputKinds, CalmStep, OutputLoop
  <1>3. CASE rc' = [rc EXCEPT !.looping = FALSE] /\ UNCHANGED <<sock, rsyncs, lost, panic>>
    <2>1. rc' = [rc EXCEPT !.pending = rc.pending, !.looping = FALSE]
      BY <1>1, <1>3 DEF RcOK, RcRec
    <2>2. RcOK(rc') /\ Like(rc, rc') /\ RcLines(rc') = RcLines(rc)
      BY <1>1, <2>1, FlagsOK
    <2> QED BY <1>3, <2>2 DEF OutputKinds, CalmStep, OutputLoop
  <1>4. CASE Disconnect /\ UNCHANGED <<rsyncs, panic>>
    BY <1>4 DEF OutputKinds, DisconnectStep, OutputLoop
  <1>5. CASE /\ rc.out = <<>> /\ FullQueues(rc) # {} /\ SendBufAssert(rc)
             /\ rc' = replicator_send_buf(rc) /\ UNCHANGED <<sock, rsyncs, lost, panic>>
    <2>1. RcOK(rc') /\ Like(rc, rc') /\ RcLines(rc') = RcLines(rc)
      BY <1>1, <1>5, SendBufOK
    <2> QED BY <1>5, <2>1 DEF OutputKinds, CalmStep, OutputLoop
  <1>6. CASE Panic
    BY <1>6 DEF OutputKinds, ExitStep, Panic, OutputLoop
  <1> QED BY <1>2, <1>3, <1>4, <1>5, <1>6 DEF OutputLoop

LEMMA ReconnectSteps == ASSUME AggInv, replicator_reconnect_timeout PROVE CalmStep
  <1>1. RcOK(rc)
    BY DEF AggInv, AggTypes
  <1> QED BY <1>1, ConnectOK DEF CalmStep, replicator_reconnect_timeout

LEMMA StillSteps ==
  ASSUME AggInv, ReplStart \/ MasterStart \/ UNCHANGED aggVars
  PROVE  CalmStep
  <1>1. RcOK(rc') /\ rc' = rc /\ UNCHANGED <<n, plugin, waiting, fifo, sock, rsyncs, told, lost, good>>
    BY DEF AggInv, AggTypes, RcOK, ReplStart, MasterStart, aggVars
  <1> QED BY <1>1 DEF CalmStep, Like

\* A request ends, with success only for a change that is known.
LEMMA RequestEnds ==
  ASSUME AggInv, NEW u \in Users, SyncRead(u) \/ SyncEof(u) \/ SyncAlarm(u)
  PROVE  /\ SyncEndTo(u, <<u, n[u]>>)
         /\ AnswerInv => plugin'[u].to \/ u \in told
  <1>1. waiting[u]
    BY DEF SyncRead, SyncEof, SyncAlarm
  <1>2. CASE SyncRead(u)
    <2> DEFINE plus == Head(sock[<<u, n[u]>>].reply) = "+"
    <2>1. SyncEnd(u, plus) /\ sock[<<u, n[u]>>].reply # <<>> /\ plus \in BOOLEAN
      BY <1>2 DEF SyncRead
    <2>2. AnswerInv => (plus => u \in told)
      BY <1>1, <2>1, PlusTold
    <2> HIDE DEF plus
    <2>3. SyncEndTo(u, <<u, n[u]>>) /\ (plus \/ plugin'[u].to)
      BY <1>1, <2>1, SyncEndSteps
    <2> QED BY <2>2, <2>3
  <1>3. CASE SyncEof(u) \/ SyncAlarm(u)
    <2>1. SyncEnd(u, FALSE)
      BY <1>3 DEF SyncEof, SyncAlarm
    <2> QED BY <1>1, <2>1, SyncEndSteps
  <1> QED BY <1>2, <1>3

\* The steps, by what they do.
KindsInv == CalmStep \/ DisconnectStep \/ EndStep \/ SockStep

LEMMA KindInv == ASSUME AggInv, KindsInv PROVE AggInv'
  BY CalmInv, DisconnectInv, EndInv, SockStepInv DEF KindsInv

LEMMA KindAnswer == ASSUME AggInv, AnswerInv, KindsInv PROVE AnswerInv'
  BY CalmAnswer, DisconnectAnswer, EndAnswer, SockStepAnswer DEF KindsInv

\* The steps that are of one of these kinds.
LEMMA PlainSteps ==
  ASSUME AggInv,
         \/ \E k \in ConnIds : client_connected(k) \/ notify_connection_destroy(k)
         \/ replicator_input_eof \/ replicator_output \/ OutputLoop
         \/ replicator_reconnect_timeout \/ MasterStop
         \/ ReplStart \/ MasterStart \/ UNCHANGED aggVars \/ ExitStep
  PROVE  KindsInv
  <1> USE DEF KindsInv
  <1>1. CASE \E k \in ConnIds : client_connected(k) \/ notify_connection_destroy(k)
    BY <1>1, ConnectedSteps, DestroySteps
  <1>2. CASE replicator_input_eof
    BY <1>2 DEF replicator_input_eof, DisconnectStep
  <1>3. CASE replicator_output \/ OutputLoop
    <2>1. OutputKinds
      BY <1>3, OutputSteps, LoopSteps
    <2> QED BY <2>1, ExitEnds DEF OutputKinds
  <1>4. CASE replicator_reconnect_timeout
    BY <1>4, ReconnectSteps
  <1>5. CASE MasterStop \/ ExitStep
    BY <1>5, MasterEnds, ExitEnds
  <1>6. CASE ReplStart \/ MasterStart \/ UNCHANGED aggVars
    BY <1>6, StillSteps
  <1> QED BY <1>1, <1>2, <1>3, <1>4, <1>5, <1>6

LEMMA AggInvNext == ASSUME AggInv, [AggNext]_aggVars PROVE AggInv'
  <1>1. ASSUME \/ \E k \in ConnIds : client_connected(k) \/ notify_connection_destroy(k)
               \/ replicator_input_eof \/ replicator_output \/ OutputLoop
               \/ replicator_reconnect_timeout \/ MasterStop
               \/ ReplStart \/ MasterStart \/ UNCHANGED aggVars \/ ExitStep
        PROVE  AggInv'
    BY <1>1, PlainSteps, KindInv
  <1>2. ASSUME NEW k \in ConnIds, notify_input_sync(k) PROVE AggInv'
    BY <1>1, <1>2, SyncInvStep
  <1>3. CASE notify_input_fifo
    BY <1>3, FifoInvStep
  <1>4. CASE replicator_input_line
    BY <1>4, InputInv
  <1>5. ASSUME NEW u \in Users, SyncRead(u) \/ SyncEof(u) \/ SyncAlarm(u) PROVE AggInv'
    BY <1>5, RequestEnds, SyncEndInv
  <1>6. ASSUME NEW u \in Users, NotifyTimeout(u) \/ replication_user_deinit(u) PROVE AggInv'
    <2>1. PICK pl \in PluginRec : NotifyTo(u, pl, FifoLine(u))
      BY <1>6, TimeoutSteps, DeinitSteps
    <2> QED BY <2>1, NotifyInv
  <1>7. ASSUME NEW u \in Users, NEW new \in BOOLEAN, Change(u, new) PROVE AggInv'
    BY <1>7, ChangeSteps, ChangeInv
  <1>8. CASE ReplRead
    BY <1>8, ReadInv
  <1>9. ASSUME NEW l \in rsyncs, NEW answer \in {"+", "-"}, ReplAnswer(l, answer) PROVE AggInv'
    BY <1>9, ReplAnswerInv
  <1>10. CASE ReplDie
    BY <1>10, DieRc, DieInv
  <1> QED BY <1>1, <1>2, <1>3, <1>4, <1>5, <1>6, <1>7, <1>8, <1>9, <1>10
          DEF AggNext, AggStep, PluginStep

LEMMA AnswerNext == ASSUME AggInv, AnswerInv, NoWrap, [AggNext]_aggVars PROVE AnswerInv'
  <1>1. ASSUME \/ \E k \in ConnIds : client_connected(k) \/ notify_connection_destroy(k)
               \/ replicator_input_eof \/ replicator_output \/ OutputLoop
               \/ replicator_reconnect_timeout \/ MasterStop
               \/ ReplStart \/ MasterStart \/ UNCHANGED aggVars \/ ExitStep
        PROVE  AnswerInv'
    BY <1>1, PlainSteps, KindAnswer
  <1>2. ASSUME NEW k \in ConnIds, notify_input_sync(k) PROVE AnswerInv'
    BY <1>1, <1>2, SyncAnswer
  <1>3. CASE notify_input_fifo
    BY <1>3, FifoAnswer
  <1>4. CASE replicator_input_line
    BY <1>4, InputAnswer
  <1>5. ASSUME NEW u \in Users, SyncRead(u) \/ SyncEof(u) \/ SyncAlarm(u) PROVE AnswerInv'
    BY <1>5, RequestEnds, SyncEndAnswer
  <1>6. ASSUME NEW u \in Users, NotifyTimeout(u) \/ replication_user_deinit(u) PROVE AnswerInv'
    <2>1. PICK pl \in PluginRec : NotifyTo(u, pl, FifoLine(u))
      BY <1>6, TimeoutSteps, DeinitSteps
    <2> QED BY <2>1, NotifyAnswer
  <1>7. ASSUME NEW u \in Users, NEW new \in BOOLEAN, Change(u, new) PROVE AnswerInv'
    BY <1>7, ChangeSteps, ChangeAnswer
  <1>8. CASE ReplRead
    BY <1>8, ReadAnswer
  <1>9. ASSUME NEW l \in rsyncs, NEW answer \in {"+", "-"}, ReplAnswer(l, answer) PROVE AnswerInv'
    BY <1>9, ReplAnswerAnswer
  <1>10. CASE ReplDie
    BY <1>10, DieRc, DieAnswer
  <1> QED BY <1>1, <1>2, <1>3, <1>4, <1>5, <1>6, <1>7, <1>8, <1>9, <1>10
          DEF AggNext, AggStep, PluginStep

-----------------------------------------------------------------------------
(* The theorems.                                                           *)

\* What the invariant says of the buffers.
LEMMA TypesIs == AggInv => AggTypeOK
  <1> SUFFICES ASSUME AggInv PROVE AggTypeOK
    OBVIOUS
  <1>1. AggLines \subseteq Lines
    BY DEF AggLines
  <1>2. RcLines(rc) \subseteq AggLines /\ OutLines(rc) \subseteq RcLines(rc) /\ Range(fifo) \subseteq AggLines
    BY LinesType DEF AggInv, RcLines
  <1>3. \A p \in Queues : Range(rc.queue[p]) \subseteq RcLines(rc)
    BY RcLinesIs
  <1>4. /\ n \in [Users -> 0..MaxChanges] /\ waiting \in [Users -> BOOLEAN] /\ plugin \in [Users -> PluginRec]
        /\ Len(fifo) <= FifoMax /\ sock \in [ConnIds -> SockRec]
        /\ rsyncs \subseteq AggLines /\ good \subseteq ConnIds /\ told \cup lost \subseteq Users
    BY DEF AggInv, AggTypes, HistInv, PluginInv, FifoInv
  <1>5. /\ \A p \in Queues : Len(rc.queue[p]) <= QueueMax
        /\ Len(rc.wire) <= WireMax /\ (rc.looping => rc.fd)
        /\ rc.requests \subseteq [id : 1..(IdMod - 1), conn : ConnIds]
    BY DEF AggInv, AggTypes, RcOK, RcRec, RequestRec
  <1> QED BY <1>1, <1>2, <1>3, <1>4, <1>5 DEF AggTypeOK

\* A connection has at most one request.
LEMMA RefsIs == AggInv => RefsMatch
  <1> SUFFICES ASSUME AggInv, NEW k \in ConnIds
               PROVE  sock[k].ref = (IF sock[k].srv = "open" THEN 1 ELSE 0)
                                    + Cardinality({q \in rc.requests : q.conn = k})
    BY DEF RefsMatch
  <1> DEFINE qs == {q \in rc.requests : q.conn = k}
  <1>1. sock[k].ref = Held(sock[k], rc, k)
    BY DEF AggInv, SockInv, SockOK
  <1>2. Cardinality(qs) = IF Asked(rc, k) THEN 1 ELSE 0
    <2>1. CASE Asked(rc, k)
      <3>1. PICK q \in rc.requests : q.conn = k
        BY <2>1 DEF Asked
      <3>2. qs = {q}
        BY <3>1 DEF AggInv, SockInv
      <3> QED BY <2>1, <3>2, FS_Singleton
    <2>2. CASE ~Asked(rc, k)
      <3>1. qs = {}
        BY <2>2 DEF Asked
      <3> QED BY <2>2, <3>1, FS_EmptySet
    <2> QED BY <2>1, <2>2
  <1> QED BY <1>1, <1>2 DEF Held

LEMMA AggAlways == AggSpec => []AggInv
  <1>1. AggInit => AggInv
    BY AggInvInit
  <1>2. AggInv /\ [AggNext]_aggVars => AggInv'
    BY AggInvNext
  <1> QED BY <1>1, <1>2, PTL DEF AggSpec

LEMMA AnswerAlways == AggSpec /\ []NoWrap => []AnswerInv
  <1>1. AggInit => AnswerInv
    BY AnswerInit
  <1>2. AggInv /\ AnswerInv /\ NoWrap /\ [AggNext]_aggVars => AnswerInv'
    BY AnswerNext
  <1> QED BY <1>1, <1>2, AggAlways, PTL DEF AggSpec

\* The variables keep their types: no queue outgrows
\* REPLICATOR_MEMBUF_MAX_SIZE, no line that is not well-formed is in a buffer,
\* and the output loop runs only while the connection is open.
THEOREM AggregatorTypes == AggSpec => []AggTypeOK
  <1> QED BY AggAlways, TypesIs, PTL

\* The reference count of a notify connection is its socket and its requests,
\* whichever of the client, the answer, the disconnect and the end of the
\* process comes first (notify_connection_unref(),
\* notify_connection_sync_callback(), replicator_connection_disconnect()).
THEOREM ConnectionRefs == AggSpec => []RefsMatch
  <1> QED BY AggAlways, RefsIs, PTL

\* A client of the notify socket is answered at most once and gets "+" only
\* for its own request (replicator_connection_input_line(),
\* replicator_connection_disconnect()), as long as request_id_counter has not
\* wrapped.
THEOREM RepliesTrue == AggSpec /\ []NoWrap => []ReplyTrue
  <1>1. AggInv /\ AnswerInv => ReplyTrue
    BY DEF AggInv, SockInv, SockOK, AnswerInv, RepliesGood, ReplyTrue
  <1> QED BY <1>1, AggAlways, AnswerAlways, PTL

\* A change that the replicator does not know of is in the plugin's timer, in
\* a sync request, in the FIFO or in a buffer of the aggregator, or one of the
\* code's error paths dropped it (replication_notify_now(), replicator_send(),
\* replicator_connection_disconnect()).
THEOREM ChangesAccounted == AggSpec /\ []NoWrap => []ChangeAccounted
  <1>1. AnswerInv => ChangeAccounted
    BY AccountedIs DEF AnswerInv
  <1> QED BY <1>1, AnswerAlways, PTL

=============================================================================
