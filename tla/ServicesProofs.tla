--------------------------- MODULE ServicesProofs ---------------------------
(***************************************************************************)
(* Proofs about two helper processes: the indexer, for any users,          *)
(* mailboxes, clients, numbers of workers and requests, and ipc, for any   *)
(* clients, any number of processes and of commands; both in any           *)
(* environment.                                                            *)
(***************************************************************************)
EXTENDS Indexer, Ipc, ListLemmas

-----------------------------------------------------------------------------
(***************************************************************************)
(* The indexer (Indexer).                                                  *)
(***************************************************************************)

(* The inductive invariant, in three parts: the queue and what the workers *)
(* have, the pool, and the answers that are due.                           *)

QueueTypes == ixreq \in [Keys -> RequestRec] /\ ixqueue \in Seq(Keys)
PoolTypes ==
  /\ ixconn \in [ConnIds -> ConnRec] /\ busy \subseteq ConnIds /\ idle \in Seq(ConnIds)
  /\ pool_count \in Int
  /\ ixpc \in {Idle, Sending, Down} \cup {Cancelling(c) : c \in ConnIds}
AnswerTypes ==
  /\ ixclient \in [IxClients -> ClientRec]
  /\ asked \in [Slots -> AskRec \cup {NoAsk}] /\ served \subseteq Pending

\* A request is in the queue, or one worker has it, once.
QueueInv ==
  /\ Distinct(ixqueue)
  /\ \A k \in Keys : ixreq[k].st = "queued" <=> Contains(ixqueue, k)
WorkInv ==
  /\ \A k \in Keys : ixreq[k].st = "working" <=> \E c \in ConnIds : Contains(ixconn[c].q, k)
  /\ \A c \in ConnIds : Distinct(ixconn[c].q)
  /\ \A c, d \in ConnIds : \A k \in Keys :
       Contains(ixconn[c].q, k) /\ Contains(ixconn[d].q, k) => c = d

\* A worker that has requests is busy and connected, or it is just being
\* disconnected, and nothing is sent meanwhile.
PoolInv ==
  /\ Distinct(idle) /\ \A c \in busy : ~Contains(idle, c)
  /\ \A c \in ConnIds : c \in busy <=> ixconn[c].q # <<>>
  /\ \A c \in ConnIds : c \notin busy => ixconn[c].user = NoUser
  /\ \A c \in busy : \A k \in Keys : Contains(ixconn[c].q, k) => k[1] = ixconn[c].user
  /\ \A c \in busy : ixconn[c].fd \/ ixpc = Cancelling(c)
  /\ \A c, d \in busy : ixconn[c].user = ixconn[d].user => c = d
  /\ \A c \in ConnIds : ixpc = Cancelling(c) => c \in busy
PoolCount == pool_count = Cardinality(busy) + Len(idle)

\* Who waits for an answer waits for one request, which has the flag for what
\* was asked; who is told about the running pass asked before it began.
Wants(k, i) == IF asked[i].op = "optimize" THEN ixreq[k].optimize ELSE ixreq[k].index
ContextInv ==
  /\ \A k \in Keys : Distinct(ixreq[k].contexts)
  /\ \A k, l \in Keys : \A i \in Slots :
       Contains(ixreq[k].contexts, i) /\ Contains(ixreq[l].contexts, i) => k = l
  /\ \A k \in Keys : \A i \in Slots :
       Contains(ixreq[k].contexts, i) => i \in Pending /\ Wants(k, i)
PassInv ==
  \A k \in Keys : ixreq[k].st = "working" =>
    /\ ixreq[k].working_context_idx <= Len(ixreq[k].contexts)
    /\ StatusContexts(ixreq[k]) \subseteq served

IxInv == /\ QueueTypes /\ PoolTypes /\ AnswerTypes /\ QueueInv /\ WorkInv
         /\ PoolInv /\ PoolCount /\ ContextInv /\ PassInv /\ IxAnswerTrue /\ IxAsserts

-----------------------------------------------------------------------------
(* The places of the event loop, and the fields of a request.              *)

LEMMA Places ==
  /\ Idle # Sending /\ Idle # Down /\ Sending # Down
  /\ \A c : Cancelling(c) # Idle /\ Cancelling(c) # Sending /\ Cancelling(c) # Down
  /\ \A c, d : Cancelling(c) = Cancelling(d) => c = d
  /\ Idle.at # "cancel" /\ Sending.at # "cancel" /\ Down.at # "cancel"
  /\ \A c : Cancelling(c).conn = c
  BY DEF Idle, Sending, Down, Cancelling

LEMMA RequestFields ==
  ASSUME NEW r \in RequestRec
  PROVE  /\ r.st \in {"none", "queued", "working"} /\ r.index \in BOOLEAN
         /\ r.optimize \in BOOLEAN /\ r.reindex \in BOOLEAN
         /\ r.contexts \in Seq(Slots) /\ r.working_context_idx \in Nat
  BY DEF RequestRec

LEMMA NoRequestIs ==
  /\ NoRequest \in RequestRec /\ NoRequest.st = "none" /\ NoRequest.contexts = <<>>
  BY DEF NoRequest, RequestRec

LEMMA RequestedIs ==
  ASSUME NEW r \in RequestRec, NEW op \in Ops, NEW ctxs \in Seq(Slots),
         r.contexts \o ctxs \in Seq(Slots)
  PROVE  LET m == Requested(r, op, ctxs) IN
         /\ m \in RequestRec
         /\ m.st = (IF r.st = "none" THEN "queued" ELSE r.st)
         /\ m.contexts = r.contexts \o ctxs
         /\ m.index = (r.index \/ op # "optimize") /\ m.optimize = (r.optimize \/ op = "optimize")
         /\ m.working_context_idx = r.working_context_idx
  <1> DEFINE a == IF r.st = "none" THEN "queued" ELSE r.st
             b == r.contexts \o ctxs
             d == (r.reindex \/ r.st = "working")
             e == (r.index \/ op # "optimize")
             g == (r.optimize \/ op = "optimize")
  <1>1. /\ a \in {"none", "queued", "working"} /\ b \in Seq(Slots)
        /\ d \in BOOLEAN /\ e \in BOOLEAN /\ g \in BOOLEAN
    BY RequestFields
  <1>2. Requested(r, op, ctxs) = [r EXCEPT !.st = a, !.contexts = b, !.reindex = d,
                                            !.index = e, !.optimize = g]
    BY DEF Requested
  <1> HIDE DEF a, b, d, e, g
  <1>3. LET m == [r EXCEPT !.st = a, !.contexts = b, !.reindex = d, !.index = e, !.optimize = g]
        IN  /\ m \in RequestRec /\ m.st = a /\ m.contexts = b /\ m.index = e /\ m.optimize = g
            /\ m.working_context_idx = r.working_context_idx
    BY <1>1 DEF RequestRec
  <1> QED BY <1>2, <1>3 DEF a, b, e, g

LEMMA SentIs ==
  ASSUME NEW r \in RequestRec
  PROVE  LET m == [r EXCEPT !.st = "working", !.working_context_idx = Len(r.contexts)] IN
         /\ m \in RequestRec /\ m.st = "working" /\ m.contexts = r.contexts
         /\ m.index = r.index /\ m.optimize = r.optimize
         /\ m.working_context_idx = Len(r.contexts)
  <1> DEFINE x == Len(r.contexts)
  <1>1. x \in Nat
    BY RequestFields
  <1> HIDE DEF x
  <1>2. LET m == [r EXCEPT !.st = "working", !.working_context_idx = x] IN
         /\ m \in RequestRec /\ m.st = "working" /\ m.contexts = r.contexts
         /\ m.index = r.index /\ m.optimize = r.optimize
         /\ m.working_context_idx = x
    BY <1>1 DEF RequestRec
  <1> QED BY <1>2 DEF x

\* The contexts that were there when the pass began are told, the others wait
\* for the next one.
LEMMA StatusIs ==
  ASSUME NEW r \in RequestRec, Distinct(r.contexts), r.working_context_idx <= Len(r.contexts)
  PROVE  /\ StatusContexts(r) \subseteq Slots
         /\ \A i \in StatusContexts(r) : Contains(r.contexts, i)
         /\ IsFiniteSet(StatusContexts(r))
  <1> DEFINE w == r.working_context_idx
             s == SubSeq(r.contexts, 1, w)
  <1>1. w \in Nat /\ r.contexts \in Seq(Slots)
    BY RequestFields
  <1>2. s \in Seq(Slots) /\ Len(s) = w /\ \A i \in 1..w : s[i] = r.contexts[i]
    BY <1>1, SubSeqProperties
  <1> HIDE DEF s
  <1>3. StatusContexts(r) = {s[i] : i \in 1..w}
    <2>1. DOMAIN s = 1..w
      BY <1>1, <1>2
    <2>2. StatusContexts(r) = Range(s)
      BY DEF StatusContexts, s
    <2> QED BY <2>1, <2>2 DEF Range
  <1>4. ASSUME NEW i \in 1..w PROVE s[i] \in Slots /\ Contains(r.contexts, s[i])
    <2>1. i \in 1..Len(r.contexts)
      BY <1>1
    <2> QED BY <1>1, <1>2, <2>1 DEF Contains
  <1>5. IsFiniteSet(StatusContexts(r))
    BY <1>3, <1>4, FS_Subset, IxAssumption
  <1> HIDE DEF w
  <1> QED BY <1>3, <1>4, <1>5

LEMMA FinishedIs ==
  ASSUME NEW r \in RequestRec, Distinct(r.contexts), r.st = "working",
         r.working_context_idx <= Len(r.contexts)
  PROVE  LET m == Finished(r) IN
         /\ m \in RequestRec /\ m.st \in {"none", "queued"} /\ Distinct(m.contexts)
         /\ \A i : Contains(m.contexts, i) =>
              /\ Contains(r.contexts, i) /\ i \notin StatusContexts(r)
              /\ m.index = r.index /\ m.optimize = r.optimize
  <1> DEFINE w == r.working_context_idx
             s == SubSeq(r.contexts, 1, w)
             t == SubSeq(r.contexts, w + 1, Len(r.contexts))
  <1>1. w \in Nat /\ r.contexts \in Seq(Slots)
    BY RequestFields
  <1>2. s \in Seq(Slots) /\ Len(s) = w /\ \A i \in 1..w : s[i] = r.contexts[i]
    BY <1>1, SubSeqProperties
  <1>3. /\ t \in Seq(Slots) /\ Len(t) = Len(r.contexts) - w
        /\ \A i \in 1..(Len(r.contexts) - w) : t[i] = r.contexts[w + i]
    <2> DEFINE q == r.contexts
    <2>1. q \in Seq(Slots) /\ Len(q) \in Nat /\ w \in Nat /\ w <= Len(q)
      BY <1>1
    <2> HIDE DEF q, w
    <2>2. /\ SubSeq(q, w + 1, Len(q)) \in Seq(Slots)
          /\ Len(SubSeq(q, w + 1, Len(q))) = Len(q) - w
      BY <2>1, SubSeqProperties
    <2>3. ASSUME NEW i \in 1..(Len(q) - w) PROVE SubSeq(q, w + 1, Len(q))[i] = q[w + i]
      BY <2>1
    <2> QED BY <2>2, <2>3 DEF q, w
  <1> HIDE DEF s
  <1>4. StatusContexts(r) = {s[i] : i \in 1..w}
    <2>1. DOMAIN s = 1..w
      BY <1>1, <1>2
    <2>2. StatusContexts(r) = Range(s)
      BY DEF StatusContexts, s
    <2> QED BY <2>1, <2>2 DEF Range
  <1>5. CASE ~r.reindex
    BY <1>5, NoRequestIs, EmptyList DEF Finished
  <1>6. CASE r.reindex
    <2> DEFINE m == Finished(r)
    <2>1. m = [r EXCEPT !.st = "queued", !.reindex = FALSE, !.contexts = t]
      BY <1>6 DEF Finished
    <2> HIDE DEF t
    <2>2. /\ m \in RequestRec /\ m.st = "queued" /\ m.contexts = t
          /\ m.index = r.index /\ m.optimize = r.optimize
      BY <2>1, <1>3 DEF RequestRec
    <2> HIDE DEF m
    <2>3. \A i \in 1..Len(t) : /\ w + i \in 1..Len(r.contexts) /\ t[i] = r.contexts[w + i]
                              /\ \A j \in 1..w : j \in 1..Len(r.contexts) /\ j # w + i
      BY <1>1, <1>3
    <2> HIDE DEF w
    <2>4. Distinct(t)
      <3> SUFFICES ASSUME NEW i \in 1..Len(t), NEW j \in 1..Len(t), t[i] = t[j] PROVE i = j
        BY DEF Distinct
      <3>1. w + i = w + j
        BY <2>3 DEF Distinct
      <3> QED BY <1>1, <1>3, <3>1
    <2>5. ASSUME NEW x, Contains(t, x) PROVE Contains(r.contexts, x) /\ x \notin StatusContexts(r)
      <3>1. PICK i \in 1..Len(t) : t[i] = x
        BY <2>5 DEF Contains
      <3>2. Contains(r.contexts, x)
        BY <2>3, <3>1 DEF Contains
      <3>3. ASSUME NEW j \in 1..w, s[j] = x PROVE FALSE
        <4> DEFINE e == w + i
        <4>1. /\ e \in 1..Len(r.contexts) /\ j \in 1..Len(r.contexts) /\ j # e
              /\ r.contexts[e] = x
          BY <2>3, <3>1
        <4>2. r.contexts[j] = x
          BY <1>2, <3>3, <4>1 DEF w
        <4> HIDE DEF e
        <4> QED BY <4>1, <4>2 DEF Distinct
      <3> QED BY <1>4, <3>2, <3>3
    <2> QED BY <2>2, <2>4, <2>5 DEF m
  <1> QED BY <1>5, <1>6

-----------------------------------------------------------------------------
(* A client asks.                                                          *)

LEMMA QueuedAtIs ==
  ASSUME QueueTypes, QueueInv, NEW k \in Keys, NEW op \in Ops
  PROVE  LET q == QueuedAt(k, op) IN
         /\ q \in Seq(Keys) /\ Distinct(q)
         /\ \A x : Contains(q, x) <=> Contains(ixqueue, x) \/ (x = k /\ ixreq[k].st # "working")
  <1>1. ixqueue \in Seq(Keys) /\ ixreq[k].st \in {"none", "queued", "working"} /\ Distinct(ixqueue)
    BY RequestFields DEF QueueTypes, QueueInv
  <1>2. ixreq[k].st = "queued" <=> Contains(ixqueue, k)
    BY DEF QueueInv
  <1> DEFINE R == RemoveFirst(ixqueue, k)
  <1>3. /\ R \in Seq(Keys) /\ Distinct(R)
        /\ \A x : Contains(R, x) <=> Contains(ixqueue, x) /\ x # k
    BY <1>1, RemoveFirstList
  <1> HIDE DEF R
  <1>4. /\ <<k>> \o R \in Seq(Keys) /\ Distinct(<<k>> \o R)
        /\ \A x : Contains(<<k>> \o R, x) <=> Contains(R, x) \/ x = k
    BY <1>3, ConsList
  <1>5. CASE ixreq[k].st = "working" \/ (ixreq[k].st = "queued" /\ op # "prepend")
    <2>1. QueuedAt(k, op) = ixqueue
      BY <1>5 DEF QueuedAt
    <2> QED BY <1>1, <1>2, <1>5, <2>1
  <1>6. CASE ixreq[k].st # "working" /\ op = "prepend"
    <2>1. QueuedAt(k, op) = <<k>> \o R
      BY <1>6 DEF QueuedAt, R
    <2> QED BY <1>3, <1>4, <1>6, <2>1
  <1>7. CASE ixreq[k].st = "none" /\ op # "prepend"
    <2>1. QueuedAt(k, op) = Append(ixqueue, k)
      BY <1>7 DEF QueuedAt
    <2> QED BY <1>1, <1>2, <1>7, <2>1, AppendList
  <1> QED BY <1>1, <1>5, <1>6, <1>7

Due(c) == {i \in Pending : asked[i].client = c}

LEMMA PendingFinite ==
  ASSUME NEW S, S \subseteq Slots
  PROVE  IsFiniteSet(S) /\ Cardinality(S) \in Nat
  BY IxAssumption, FS_Subset, FS_CardinalityType

LEMMA AskNotNone == ASSUME NEW c, NEW op \in Ops PROVE [client |-> c, op |-> op] # NoAsk
  BY DEF NoAsk, Ops

LEMMA SameStatus ==
  ASSUME NEW r \in RequestRec, NEW m \in RequestRec, NEW t \in Seq(Slots),
         r.working_context_idx <= Len(r.contexts), m.contexts = r.contexts \o t,
         m.working_context_idx = r.working_context_idx
  PROVE  StatusContexts(m) = StatusContexts(r) /\ m.working_context_idx <= Len(m.contexts)
  <1>1. r.contexts \in Seq(Slots) /\ r.working_context_idx \in Nat
    BY RequestFields
  <1>2. Len(m.contexts) = Len(r.contexts) + Len(t)
    BY <1>1
  <1> DEFINE a == SubSeq(r.contexts, 1, r.working_context_idx)
             b == SubSeq(m.contexts, 1, r.working_context_idx)
  <1>3. a = b
    BY <1>1, SubSeqOfConcat1
  <1>4. StatusContexts(m) = Range(b) /\ StatusContexts(r) = Range(a)
    BY DEF StatusContexts
  <1>5. r.working_context_idx <= Len(r.contexts) + Len(t) /\ Len(t) \in Nat
    BY <1>1
  <1> HIDE DEF a, b
  <1> QED BY <1>2, <1>3, <1>4, <1>5

LEMMA RequestInv ==
  ASSUME IxInv, NEW c \in IxClients, NEW k \in Keys, NEW op \in Ops, NEW tagged \in BOOLEAN,
         indexer_client_request(c, k, op, tagged)
  PROVE  IxInv'
  <1> DEFINE t == IF tagged THEN <<NextSlot>> ELSE <<>>
             r == ixreq[k]
             m == Requested(r, op, t)
  <1>1. /\ ixpc = Idle /\ ixpc' = Sending /\ ixqueue' = QueuedAt(k, op)
        /\ ixreq' = [ixreq EXCEPT ![k] = m] /\ UNCHANGED <<poolVars, served, lied, ixfault>>
        /\ tagged => Pending # Slots
        /\ asked' = IF tagged THEN [asked EXCEPT ![NextSlot] = [client |-> c, op |-> op]] ELSE asked
        /\ ixclient' = [ixclient EXCEPT ![c].ref = IF tagged THEN @ + 1 ELSE @]
    BY DEF indexer_client_request
  <1>2. tagged => NextSlot \in Slots /\ NextSlot \notin Pending
    BY <1>1 DEF NextSlot, Pending
  <1>3. r \in RequestRec /\ t \in Seq(Slots) /\ r.contexts \in Seq(Slots)
    BY <1>2, RequestFields DEF IxInv, QueueTypes
  <1>4. /\ m \in RequestRec /\ m.st = (IF r.st = "none" THEN "queued" ELSE r.st)
        /\ m.contexts = r.contexts \o t
        /\ m.index = (r.index \/ op # "optimize") /\ m.optimize = (r.optimize \/ op = "optimize")
        /\ m.working_context_idx = r.working_context_idx
    <2>1. r.contexts \o t \in Seq(Slots)
      BY <1>3
    <2> HIDE DEF r, t
    <2> QED BY <1>3, <2>1, RequestedIs
  <1> HIDE DEF m
  <1>5. /\ ixreq' \in [Keys -> RequestRec] /\ ixreq'[k] = m
        /\ \A l \in Keys \ {k} : ixreq'[l] = ixreq[l]
    BY <1>1, <1>4 DEF IxInv, QueueTypes
  <1>6. QueueTypes' /\ QueueInv'
    <2>1. /\ ixqueue' \in Seq(Keys) /\ Distinct(ixqueue')
          /\ \A x : Contains(ixqueue', x) <=> Contains(ixqueue, x) \/ (x = k /\ r.st # "working")
      BY <1>1, QueuedAtIs DEF IxInv
    <2>2. r.st \in {"none", "queued", "working"}
      BY <1>3, RequestFields
    <2>3. ASSUME NEW l \in Keys PROVE ixreq'[l].st = "queued" <=> Contains(ixqueue', l)
      <3>1. CASE l = k
        <4>1. ixreq[k].st = "queued" <=> Contains(ixqueue, k)
          BY DEF IxInv, QueueInv
        <4> QED BY <1>4, <1>5, <2>1, <2>2, <3>1, <4>1
      <3>2. CASE l # k
        <4>1. ixreq[l].st = "queued" <=> Contains(ixqueue, l)
          BY DEF IxInv, QueueInv
        <4> QED BY <1>5, <2>1, <3>2, <4>1
      <3> QED BY <3>1, <3>2
    <2> QED BY <1>5, <2>1, <2>3 DEF QueueTypes, QueueInv
  <1>7. WorkInv'
    <2>1. \A l \in Keys : ixreq'[l].st = "working" <=> ixreq[l].st = "working"
      BY <1>3, <1>4, <1>5, RequestFields
    <2>2. ixconn' = ixconn
      BY <1>1 DEF poolVars
    <2> QED BY <2>1, <2>2 DEF IxInv, WorkInv
  <1>8. PoolTypes' /\ PoolInv' /\ PoolCount'
    <2>1. ixconn' = ixconn /\ busy' = busy /\ idle' = idle /\ pool_count' = pool_count
      BY <1>1 DEF poolVars
    <2>2. PoolTypes' /\ PoolCount'
      BY <1>1, <2>1 DEF IxInv, PoolTypes, PoolCount
    <2>3. PoolInv'
      BY <1>1, <2>1, Places DEF IxInv, PoolInv
    <2> QED BY <2>2, <2>3
  <1>9. /\ m.contexts \in Seq(Slots)
        /\ tagged => /\ asked' = [asked EXCEPT ![NextSlot] = [client |-> c, op |-> op]]
                     /\ Pending' = Pending \cup {NextSlot}
        /\ ~tagged => asked' = asked /\ Pending' = Pending
        /\ Pending \subseteq Slots
    <2>1. tagged => Pending' = Pending \cup {NextSlot}
      BY <1>1, <1>2, AskNotNone DEF Pending, IxInv, AnswerTypes
    <2> QED BY <1>1, <1>4, <2>1, RequestFields DEF Pending
  <1>10. \A i : Contains(m.contexts, i) <=> Contains(r.contexts, i) \/ (tagged /\ i = NextSlot)
    <2>1. CASE tagged
      <3>1. m.contexts = Append(r.contexts, NextSlot)
        BY <1>3, <1>4, <2>1
      <3> QED BY <1>2, <1>3, <2>1, <3>1, AppendList
    <2>2. CASE ~tagged
      BY <1>3, <1>4, <2>2
    <2> QED BY <2>1, <2>2
  <1>11. tagged => \A l \in Keys : ~Contains(ixreq[l].contexts, NextSlot)
    BY <1>2 DEF IxInv, ContextInv
  <1>12. Distinct(m.contexts)
    <2>1. CASE tagged
      <3>1. m.contexts = Append(r.contexts, NextSlot)
        BY <1>3, <1>4, <2>1
      <3> QED BY <1>2, <1>3, <1>11, <2>1, <3>1, AppendList DEF IxInv, ContextInv
    <2>2. CASE ~tagged
      <3>1. m.contexts = r.contexts
        BY <1>3, <1>4, <2>2
      <3> QED BY <3>1 DEF IxInv, ContextInv
    <2> QED BY <2>1, <2>2
  <1> HIDE DEF t
  <1>13. ContextInv'
    <2>1. \A l \in Keys : Distinct(ixreq'[l].contexts)
      BY <1>5, <1>12 DEF IxInv, ContextInv
    <2>2. ASSUME NEW l \in Keys, NEW i \in Slots, Contains(ixreq'[l].contexts, i)
          PROVE  \/ Contains(ixreq[l].contexts, i)
                 \/ l = k /\ tagged /\ i = NextSlot
      BY <1>5, <1>10, <2>2
    <2>3. ASSUME NEW l \in Keys, NEW h \in Keys, NEW i \in Slots,
                 Contains(ixreq'[l].contexts, i), Contains(ixreq'[h].contexts, i)
          PROVE  l = h
      BY <1>11, <2>2, <2>3 DEF IxInv, ContextInv
    <2>4. ASSUME NEW l \in Keys, NEW i \in Slots, Contains(ixreq'[l].contexts, i)
          PROVE  i \in Pending' /\ IF asked'[i].op = "optimize" THEN ixreq'[l].optimize
                                                              ELSE ixreq'[l].index
      <3>1. CASE Contains(ixreq[l].contexts, i)
        <4>1. /\ i \in Pending
              /\ IF asked[i].op = "optimize" THEN ixreq[l].optimize ELSE ixreq[l].index
          BY <3>1 DEF IxInv, ContextInv, Wants
        <4>2. asked'[i] = asked[i] /\ i \in Pending'
          BY <1>2, <1>9, <4>1 DEF IxInv, AnswerTypes
        <4>3. (ixreq[l].optimize => ixreq'[l].optimize) /\ (ixreq[l].index => ixreq'[l].index)
          BY <1>4, <1>5
        <4> QED BY <4>1, <4>2, <4>3
      <3>2. CASE l = k /\ tagged /\ i = NextSlot
        <4>1. asked'[i] = [client |-> c, op |-> op] /\ i \in Pending'
          BY <1>2, <1>9, <3>2 DEF IxInv, AnswerTypes
        <4>2. asked'[i].op = op
          BY <4>1
        <4> QED BY <1>4, <1>5, <3>2, <4>1, <4>2
      <3> QED BY <2>2, <2>4, <3>1, <3>2
    <2> QED BY <2>1, <2>3, <2>4 DEF ContextInv, Wants
  <1>14. PassInv'
    <2> SUFFICES ASSUME NEW l \in Keys, ixreq'[l].st = "working"
                 PROVE  /\ ixreq'[l].working_context_idx <= Len(ixreq'[l].contexts)
                        /\ StatusContexts(ixreq'[l]) \subseteq served
      BY <1>1 DEF PassInv
    <2>1. CASE l # k
      BY <1>5, <2>1 DEF IxInv, PassInv
    <2>2. CASE l = k
      <3>1. r.st = "working"
        BY <1>3, <1>4, <1>5, <2>2, RequestFields
      <3>2. r.working_context_idx <= Len(r.contexts) /\ StatusContexts(r) \subseteq served
        BY <3>1 DEF IxInv, PassInv
      <3> HIDE DEF r
      <3> QED BY <1>3, <1>4, <1>5, <2>2, <3>2, SameStatus
    <2> QED BY <2>1, <2>2
  <1>15. AnswerTypes' /\ IxAnswerTrue'
    <2>1. ixclient[c] \in ClientRec /\ ixclient[c].ref \in Nat
      BY DEF IxInv, AnswerTypes, ClientRec
    <2>2. LET d == ixclient'[c] IN
          /\ d \in ClientRec /\ d.destroyed = ixclient[c].destroyed
          /\ d.ref = IF tagged THEN ixclient[c].ref + 1 ELSE ixclient[c].ref
      <3> DEFINE x == IF tagged THEN ixclient[c].ref + 1 ELSE ixclient[c].ref
      <3>1. x \in Nat
        BY <2>1
      <3>2. ixclient'[c] = [ixclient[c] EXCEPT !.ref = x]
        <4>1. c \in DOMAIN ixclient
          BY DEF IxInv, AnswerTypes
        <4>2. ixclient' = [ixclient EXCEPT ![c] = [ixclient[c] EXCEPT !.ref = x]]
          BY <1>1
        <4> HIDE DEF x
        <4> QED BY <4>1, <4>2
      <3> HIDE DEF x
      <3>3. LET d == ixclient'[c] IN
            d \in ClientRec /\ d.destroyed = ixclient[c].destroyed /\ d.ref = x
        BY <2>1, <3>1, <3>2 DEF ClientRec
      <3> QED BY <3>3 DEF x
    <2>3. ixclient' \in [IxClients -> ClientRec] /\ \A d \in IxClients \ {c} : ixclient'[d] = ixclient[d]
      BY <1>1, <2>2 DEF IxInv, AnswerTypes
    <2>4. AnswerTypes'
      <3>1. asked' \in [Slots -> AskRec \cup {NoAsk}]
        <4>1. [client |-> c, op |-> op] \in AskRec
          BY DEF AskRec
        <4> QED BY <1>9, <4>1 DEF IxInv, AnswerTypes
      <3> QED BY <1>1, <1>9, <2>3, <3>1 DEF IxInv, AnswerTypes
    <2>5. ASSUME NEW d \in IxClients
          PROVE  ixclient'[d].ref = (IF ixclient'[d].destroyed THEN 0 ELSE 1) + Cardinality(Due(d)')
      <3>1. ixclient[d].ref = (IF ixclient[d].destroyed THEN 0 ELSE 1) + Cardinality(Due(d))
        BY <1>1, Places DEF IxInv, IxAnswerTrue, Due
      <3>2. IsFiniteSet(Due(d)) /\ Cardinality(Due(d)) \in Nat
        BY PendingFinite DEF Due, Pending
      <3>3. CASE ~tagged
        BY <1>9, <2>2, <2>3, <3>1, <3>3 DEF Due
      <3>4. CASE tagged /\ d # c
        <4>1. Due(d)' = Due(d)
          BY <1>2, <1>9, <3>4 DEF Due, IxInv, AnswerTypes
        <4> QED BY <2>3, <3>1, <3>4, <4>1
      <3>5. CASE tagged /\ d = c
        <4>1. Due(d)' = Due(d) \cup {NextSlot} /\ NextSlot \notin Due(d)
          BY <1>2, <1>9, <3>5 DEF Due, IxInv, AnswerTypes
        <4>2. Cardinality(Due(d)') = Cardinality(Due(d)) + 1
          BY <3>2, <4>1, FS_AddElement
        <4> QED BY <2>1, <2>2, <3>1, <3>2, <3>5, <4>2
      <3> QED BY <3>3, <3>4, <3>5
    <2>6. ~lied'
      BY <1>1 DEF IxInv, IxAnswerTrue
    <2> QED BY <2>4, <2>5, <2>6 DEF IxAnswerTrue, Due
  <1>16. IxAsserts'
    BY <1>1 DEF IxInv, IxAsserts
  <1> QED BY <1>6, <1>7, <1>8, <1>13, <1>14, <1>15, <1>16 DEF IxInv

-----------------------------------------------------------------------------
(* A request is sent to a worker.                                          *)

LEMMA ConnFields ==
  ASSUME NEW r \in ConnRec
  PROVE  /\ r.fd \in BOOLEAN /\ r.hs \in BOOLEAN /\ r.user \in IxUsers \cup {NoUser}
         /\ r.q \in Seq(Keys)
  BY DEF ConnRec

LEMMA NoConnIs == NoConn \in ConnRec /\ NoConn.q = <<>> /\ NoConn.user = NoUser /\ ~NoConn.fd
  BY DEF NoConn, ConnRec

\* What queue_try_send_more() has seen to when it calls worker_send_request():
\* the connection is there and is the user's, or is new and no other is.
SendTo(c, conns) ==
  /\ ixpc = Sending /\ ixqueue # <<>>
  /\ conns \in [ConnIds -> ConnRec] /\ conns[c].fd
  /\ \A d \in busy : conns[d] = ixconn[d]
  /\ \A d \in ConnIds \ busy : conns[d].user = NoUser /\ conns[d].q = <<>>
  /\ c \in busy => ixconn[c].user = Head(ixqueue)[1]
  /\ c \notin busy => UserConns(Head(ixqueue)[1]) = {}
  /\ worker_send_request(c, conns)
  /\ busy' = busy \cup {c} /\ idle' \in Seq(ConnIds) /\ Distinct(idle')
  /\ \A d \in busy \cup {c} : ~Contains(idle', d)
  /\ pool_count' \in Int /\ PoolCount'
  /\ UNCHANGED <<ixpc, ixclient, asked, lied>>

LEMMA SendInv == ASSUME IxInv, NEW c \in ConnIds, NEW conns, SendTo(c, conns) PROVE IxInv'
  <1> DEFINE k == Head(ixqueue)
             r == ixreq[k]
             m == [r EXCEPT !.st = "working", !.working_context_idx = Len(r.contexts)]
             g == [conns[c] EXCEPT !.user = k[1], !.q = Append(conns[c].q, k)]
  <1>1. /\ ixqueue' = Tail(ixqueue) /\ ixreq' = [ixreq EXCEPT ![k] = m]
        /\ ixconn' = [conns EXCEPT ![c] = g]
        /\ served' = served \cup {i \in Range(r.contexts) : Wants(k, i)}
        /\ ixfault' = SendAsserts(conns[c], k)
    BY DEF SendTo, worker_send_request, Wants
  <1>2. /\ ixqueue \in Seq(Keys) /\ ixqueue # <<>> /\ Distinct(ixqueue)
        /\ ixpc = Sending /\ ixpc' = Sending
    BY DEF SendTo, IxInv, QueueTypes, QueueInv
  <1>3. /\ ixqueue' \in Seq(Keys) /\ k \in Keys /\ Distinct(ixqueue') /\ Contains(ixqueue, k)
        /\ \A x : Contains(ixqueue', x) <=> Contains(ixqueue, x) /\ x # k
    BY <1>1, <1>2, TailList
  <1>4. r.st = "queued" /\ r \in RequestRec /\ k[1] \in IxUsers
    BY <1>3, IxAssumption DEF IxInv, QueueInv, QueueTypes
  <1> HIDE DEF k
  <1>5. /\ m \in RequestRec /\ m.st = "working" /\ m.contexts = r.contexts
        /\ m.index = r.index /\ m.optimize = r.optimize
        /\ m.working_context_idx = Len(r.contexts)
    BY <1>4, SentIs
  <1> HIDE DEF m
  <1>6. /\ ixreq' \in [Keys -> RequestRec] /\ ixreq'[k] = m
        /\ \A l \in Keys \ {k} : ixreq'[l] = ixreq[l]
    BY <1>1, <1>3, <1>5 DEF IxInv, QueueTypes
  <1>7. QueueTypes' /\ QueueInv'
    BY <1>3, <1>5, <1>6 DEF IxInv, QueueTypes, QueueInv
  <1>8. conns \in [ConnIds -> ConnRec] /\ conns[c] \in ConnRec /\ conns[c].q \in Seq(Keys)
    BY ConnFields DEF SendTo
  <1>9. \A d \in ConnIds : conns[d].q = ixconn[d].q
    BY DEF SendTo, IxInv, PoolInv
  <1>10. \A d \in ConnIds : ~Contains(ixconn[d].q, k)
    BY <1>3, <1>4 DEF IxInv, WorkInv
  <1>11. /\ Append(conns[c].q, k) \in Seq(Keys) /\ Append(conns[c].q, k) # <<>>
         /\ Distinct(Append(conns[c].q, k))
         /\ \A x : Contains(Append(conns[c].q, k), x) <=> Contains(ixconn[c].q, x) \/ x = k
    BY <1>3, <1>8, <1>9, <1>10, AppendList DEF IxInv, WorkInv
  <1>12. /\ g \in ConnRec /\ g.user = k[1] /\ g.q = Append(conns[c].q, k) /\ g.fd = conns[c].fd
    <2> DEFINE u == k[1]
               q == Append(conns[c].q, k)
               h == conns[c]
    <2>1. h \in ConnRec /\ u \in IxUsers /\ q \in Seq(Keys) /\ g = [h EXCEPT !.user = u, !.q = q]
      BY <1>4, <1>8, <1>11
    <2> HIDE DEF u, q, h, g
    <2>2. g \in ConnRec /\ g.user = u /\ g.q = q /\ g.fd = h.fd
      BY <2>1 DEF ConnRec
    <2> QED BY <2>2 DEF u, q, h
  <1> HIDE DEF g
  <1>13. /\ ixconn' \in [ConnIds -> ConnRec] /\ ixconn'[c] = g
         /\ \A d \in ConnIds \ {c} : ixconn'[d] = conns[d]
    BY <1>1, <1>8, <1>12
  <1>14. ASSUME NEW d \in ConnIds
         PROVE  /\ Distinct(ixconn'[d].q)
                /\ \A x : Contains(ixconn'[d].q, x) <=> Contains(ixconn[d].q, x) \/ (x = k /\ d = c)
    <2>1. CASE d = c
      BY <1>11, <1>12, <1>13, <2>1
    <2>2. CASE d # c
      <3>1. ixconn'[d].q = ixconn[d].q
        BY <1>9, <1>13, <2>2
      <3> QED BY <2>2, <3>1 DEF IxInv, WorkInv
    <2> QED BY <2>1, <2>2
  <1>15. WorkInv'
    <2>1. ASSUME NEW l \in Keys
          PROVE  ixreq'[l].st = "working" <=> \E d \in ConnIds : Contains(ixconn'[d].q, l)
      <3>1. CASE l = k
        BY <1>5, <1>6, <1>14, <3>1
      <3>2. CASE l # k
        BY <1>6, <1>14, <3>2 DEF IxInv, WorkInv
      <3> QED BY <3>1, <3>2
    <2>2. ASSUME NEW d \in ConnIds, NEW e \in ConnIds, NEW l \in Keys,
                 Contains(ixconn'[d].q, l), Contains(ixconn'[e].q, l)
          PROVE  d = e
      BY <1>10, <1>14, <2>2 DEF IxInv, WorkInv
    <2> QED BY <1>14, <2>1, <2>2 DEF WorkInv
  <1>16. PoolTypes' /\ PoolCount'
    BY <1>2, <1>13 DEF SendTo, IxInv, PoolTypes
  <1>17. PoolInv'
    <2>1. busy' = busy \cup {c} /\ busy \subseteq ConnIds
      BY DEF SendTo, IxInv, PoolTypes
    <2>2. ASSUME NEW d \in ConnIds PROVE d \in busy' <=> ixconn'[d].q # <<>>
      <3>1. CASE d = c
        BY <1>11, <1>12, <1>13, <2>1, <3>1
      <3>2. CASE d # c
        BY <1>9, <1>13, <2>1, <3>2 DEF IxInv, PoolInv
      <3> QED BY <3>1, <3>2
    <2>3. ASSUME NEW d \in ConnIds, d \notin busy' PROVE ixconn'[d].user = NoUser
      BY <1>13, <2>1, <2>3 DEF SendTo
    <2>4. ASSUME NEW d \in busy', d # c PROVE d \in busy /\ ixconn'[d] = ixconn[d]
      BY <1>13, <2>1, <2>4 DEF SendTo
    <2>5. ASSUME NEW d \in busy', NEW l \in Keys, Contains(ixconn'[d].q, l)
          PROVE  l[1] = ixconn'[d].user
      <3>1. CASE d # c
        BY <2>4, <2>5, <3>1 DEF IxInv, PoolInv
      <3>2. CASE d = c /\ l = k
        BY <1>12, <1>13, <3>2
      <3>3. CASE d = c /\ l # k
        <4>1. Contains(ixconn[c].q, l)
          BY <1>14, <2>5, <3>3
        <4>2. c \in busy
          BY <4>1, EmptyList DEF IxInv, PoolInv
        <4>3. l[1] = ixconn[c].user /\ ixconn[c].user = k[1]
          BY <4>1, <4>2 DEF IxInv, PoolInv, SendTo, k
        <4> QED BY <1>12, <1>13, <3>3, <4>3
      <3> QED BY <3>1, <3>2, <3>3
    <2>6. ASSUME NEW d \in busy' PROVE ixconn'[d].fd
      <3>1. CASE d = c
        BY <1>12, <1>13, <3>1 DEF SendTo
      <3>2. CASE d # c
        BY <1>2, <2>4, <3>2, Places DEF IxInv, PoolInv
      <3> QED BY <3>1, <3>2
    <2>7. ASSUME NEW d \in busy', d # c PROVE ixconn'[d].user # ixconn'[c].user
      <3>1. ixconn'[c].user = k[1] /\ d \in busy /\ ixconn'[d].user = ixconn[d].user
        BY <1>12, <1>13, <2>4, <2>7
      <3>2. CASE c \in busy
        BY <2>7, <3>1, <3>2 DEF SendTo, k, IxInv, PoolInv
      <3>3. CASE c \notin busy
        BY <3>1, <3>3 DEF SendTo, k, UserConns
      <3> QED BY <3>2, <3>3
    <2>8. ASSUME NEW d \in busy', NEW e \in busy', ixconn'[d].user = ixconn'[e].user
          PROVE  d = e
      <3>1. CASE d = c \/ e = c
        BY <2>7, <2>8, <3>1
      <3>2. CASE d # c /\ e # c
        BY <2>4, <2>8, <3>2 DEF IxInv, PoolInv
      <3> QED BY <3>1, <3>2
    <2>9. Distinct(idle') /\ \A d \in busy' : ~Contains(idle', d)
      BY <2>1 DEF SendTo
    <2> QED BY <1>2, <2>2, <2>3, <2>5, <2>6, <2>8, <2>9, Places DEF PoolInv
  <1>18. UNCHANGED <<ixclient, asked, lied, Pending>>
    BY DEF SendTo, Pending
  <1>19. \A l \in Keys : /\ ixreq'[l].contexts = ixreq[l].contexts
                         /\ ixreq'[l].index = ixreq[l].index
                         /\ ixreq'[l].optimize = ixreq[l].optimize
    BY <1>5, <1>6
  <1>20. ContextInv'
    BY <1>18, <1>19 DEF IxInv, ContextInv, Wants
  <1>21. PassInv'
    <2> SUFFICES ASSUME NEW l \in Keys, ixreq'[l].st = "working"
                 PROVE  /\ ixreq'[l].working_context_idx <= Len(ixreq'[l].contexts)
                        /\ StatusContexts(ixreq'[l]) \subseteq served'
      BY DEF PassInv
    <2>1. CASE l # k
      BY <1>1, <1>6, <2>1 DEF IxInv, PassInv
    <2>2. CASE l = k
      <3>1. r.contexts \in Seq(Slots) /\ Distinct(r.contexts)
        BY <1>3, <1>4, RequestFields DEF IxInv, ContextInv
      <3>2. m.working_context_idx <= Len(m.contexts)
        BY <1>5, <3>1
      <3>3. ASSUME NEW i \in StatusContexts(m) PROVE i \in served'
        <4>1. i \in Slots /\ Contains(r.contexts, i)
          BY <1>5, <3>1, <3>2, <3>3, StatusIs
        <4>2. i \in Range(r.contexts)
          BY <3>1, <4>1, RangeList
        <4>3. Wants(k, i)
          BY <1>3, <4>1 DEF IxInv, ContextInv
        <4> QED BY <1>1, <4>2, <4>3
      <3> QED BY <1>6, <2>2, <3>2, <3>3
    <2> QED BY <2>1, <2>2
  <1>22. AnswerTypes' /\ IxAnswerTrue'
    <2>1. r.contexts \in Seq(Slots)
      BY <1>4, RequestFields
    <2>2. ASSUME NEW i \in Range(r.contexts) PROVE i \in Pending
      <3>1. Contains(r.contexts, i)
        BY <2>1, <2>2, RangeList
      <3>2. i \in Slots
        BY <2>1, <3>1 DEF Contains
      <3> QED BY <1>3, <3>1, <3>2 DEF IxInv, ContextInv
    <2>3. AnswerTypes'
      BY <1>1, <1>18, <2>2 DEF IxInv, AnswerTypes
    <2>4. IxAnswerTrue'
      BY <1>2, <1>18 DEF IxInv, IxAnswerTrue
    <2> QED BY <2>3, <2>4
  <1>23. IxAsserts'
    <2>1. conns[c].fd /\ conns[c].user \in {NoUser, k[1]}
      BY DEF SendTo, k
    <2>2. ixfault' = ixfault
      BY <1>1, <2>1 DEF SendAsserts
    <2> QED BY <2>2 DEF IxInv, IxAsserts
  <1> QED BY <1>7, <1>15, <1>16, <1>17, <1>20, <1>21, <1>22, <1>23 DEF IxInv

LEMMA FreedIs ==
  ASSUME ixconn \in [ConnIds -> ConnRec], NEW cs
  PROVE  /\ Freed(cs) \in [ConnIds -> ConnRec]
         /\ \A d \in ConnIds : Freed(cs)[d] = IF d \in cs THEN NoConn ELSE ixconn[d]
  BY NoConnIs DEF Freed

\* Only idle connections are freed: the pool without the connections in cs.
LEMMA FreedIdle ==
  ASSUME PoolTypes, PoolInv, NEW cs, \A d \in cs : Contains(idle, d)
  PROVE  /\ Freed(cs) \in [ConnIds -> ConnRec]
         /\ \A d \in busy : Freed(cs)[d] = ixconn[d]
         /\ \A d \in ConnIds : Freed(cs)[d].q = ixconn[d].q /\ Freed(cs)[d].user = ixconn[d].user
         /\ \A d \in ConnIds \ busy : Freed(cs)[d].user = NoUser /\ Freed(cs)[d].q = <<>>
  <1>1. ixconn \in [ConnIds -> ConnRec] /\ busy \subseteq ConnIds
    BY DEF PoolTypes
  <1>2. \A d \in busy : d \notin cs
    BY DEF PoolInv
  <1>3. \A d \in ConnIds \ busy : ixconn[d].user = NoUser /\ ixconn[d].q = <<>>
    BY DEF PoolInv
  <1> QED BY <1>1, <1>2, <1>3, FreedIs, NoConnIs

LEMMA DropDeadIs ==
  ASSUME idle \in Seq(ConnIds), Distinct(idle)
  PROVE  LET s == DropDead(idle) IN
         /\ s \in Seq(ConnIds) /\ Distinct(s) /\ Len(s) \in 0..Len(idle)
         /\ \A x : Contains(s, x) => Contains(idle, x)
         /\ s # <<>> => ixconn[Head(s)].fd
  <1> DEFINE live == {i \in 1..Len(idle) : ixconn[idle[i]].fd}
             s == DropDead(idle)
             n == Min(live)
  <1>1. CASE live = {}
    <2>1. s = <<>>
      BY <1>1 DEF DropDead
    <2> HIDE DEF s
    <2>2. Len(s) = 0 /\ s \in Seq(ConnIds)
      BY <2>1
    <2> QED BY <2>1, <2>2, EmptyList DEF s
  <1>2. CASE live # {}
    <2>1. n \in live
      <3>1. live \subseteq Nat
        OBVIOUS
      <3> HIDE DEF live
      <3> QED BY <1>2, <3>1, LeastIndex
    <2>2. n \in 1..Len(idle) /\ ixconn[idle[n]].fd
      BY <2>1
    <2>3. s = SubSeq(idle, n, Len(idle))
      BY <1>2 DEF DropDead
    <2> HIDE DEF n, s
    <2>4. /\ s \in Seq(ConnIds) /\ Len(s) = Len(idle) - n + 1
          /\ \A i \in 1..Len(s) : s[i] = idle[n + i - 1] /\ n + i - 1 \in 1..Len(idle)
      BY <2>2, <2>3, SubSeqProperties
    <2>5. Distinct(s)
      <3> SUFFICES ASSUME NEW i \in 1..Len(s), NEW j \in 1..Len(s), s[i] = s[j] PROVE i = j
        BY DEF Distinct
      <3> DEFINE a == n + i - 1
                 b == n + j - 1
      <3>1. a \in 1..Len(idle) /\ b \in 1..Len(idle) /\ idle[a] = idle[b]
        BY <2>4
      <3>2. a = b
        BY ONLY <3>1, Distinct(idle) DEF Distinct
      <3> QED BY <2>2, <2>4, <3>2
    <2>6. ASSUME NEW x, Contains(s, x) PROVE Contains(idle, x)
      BY <2>4, <2>6 DEF Contains
    <2>7. s # <<>> /\ Head(s) = idle[n] /\ Len(s) \in 0..Len(idle)
      BY <2>2, <2>4
    <2> QED BY <2>2, <2>4, <2>5, <2>6, <2>7 DEF s
  <1> QED BY <1>1, <1>2

LEMMA BusyFinite ==
  ASSUME PoolTypes
  PROVE  /\ IsFiniteSet(busy) /\ Cardinality(busy) \in Nat
         /\ \A c \in ConnIds : c \notin busy => Cardinality(busy \cup {c}) = Cardinality(busy) + 1
         /\ \A c \in busy : Cardinality(busy \ {c}) = Cardinality(busy) - 1
  <1>1. IsFiniteSet(busy) /\ Cardinality(busy) \in Nat
    BY IxAssumption, FS_Subset, FS_CardinalityType DEF PoolTypes
  <1>2. ASSUME NEW c \in ConnIds, c \notin busy PROVE Cardinality(busy \cup {c}) = Cardinality(busy) + 1
    BY <1>1, <1>2, FS_AddElement
  <1>3. ASSUME NEW c \in busy PROVE Cardinality(busy \ {c}) = Cardinality(busy) - 1
    BY <1>1, FS_RemoveElement
  <1> QED BY <1>1, <1>2, <1>3

LEMMA SendSameUserInv == ASSUME IxInv, SendSameUser PROVE IxInv'
  <1>1. PICK c \in UserConns(Head(ixqueue)[1]) : worker_send_request(c, ixconn)
    BY DEF SendSameUser
  <1>2. c \in busy /\ ixconn[c].user = Head(ixqueue)[1]
    BY DEF UserConns
  <1>3. /\ ixpc = Sending /\ ixqueue # <<>> /\ UNCHANGED <<ixpc, ixclient, asked, lied>>
        /\ UNCHANGED <<busy, idle, pool_count>>
    BY DEF SendSameUser
  <1>4. c \in ConnIds /\ busy \cup {c} = busy /\ ixconn[c].fd
    BY <1>2, <1>3, Places DEF IxInv, PoolTypes, PoolInv
  <1>5. /\ \A d \in ConnIds \ busy : ixconn[d].user = NoUser /\ ixconn[d].q = <<>>
        /\ Distinct(idle) /\ \A d \in busy : ~Contains(idle, d)
    BY DEF IxInv, PoolInv
  <1>6. /\ ixconn \in [ConnIds -> ConnRec] /\ idle' \in Seq(ConnIds) /\ pool_count' \in Int
        /\ PoolCount'
    BY <1>3 DEF IxInv, PoolTypes, PoolCount
  <1>7. SendTo(c, ixconn)
    BY <1>1, <1>2, <1>3, <1>4, <1>5, <1>6 DEF SendTo
  <1> QED BY <1>4, <1>7, SendInv

LEMMA SendIdleInv == ASSUME IxInv, SendIdle PROVE IxInv'
  <1> DEFINE s == DropDead(idle)
             c == Head(s)
             conns == Freed(Range(idle) \ Range(s))
  <1>1. /\ NeedConn /\ s # <<>> /\ idle' = Tail(s) /\ busy' = busy \cup {c}
        /\ pool_count' = pool_count - (Len(idle) - Len(s))
        /\ worker_send_request(c, conns) /\ UNCHANGED <<ixpc, ixclient, asked, lied>>
    BY DEF SendIdle
  <1>2. /\ PoolTypes /\ PoolInv /\ PoolCount /\ idle \in Seq(ConnIds) /\ Distinct(idle)
        /\ pool_count \in Int /\ \A d \in busy : ~Contains(idle, d)
    BY DEF IxInv, PoolInv, PoolTypes
  <1>3. /\ s \in Seq(ConnIds) /\ Distinct(s) /\ Len(s) \in 0..Len(idle)
        /\ \A x : Contains(s, x) => Contains(idle, x)
        /\ ixconn[c].fd
    BY <1>1, <1>2, DropDeadIs
  <1> HIDE DEF s
  <1>4. /\ idle' \in Seq(ConnIds) /\ c \in ConnIds /\ Len(idle') = Len(s) - 1
        /\ Distinct(idle') /\ Contains(s, c)
        /\ \A x : Contains(idle', x) <=> Contains(s, x) /\ x # c
    BY <1>1, <1>3, TailList
  <1> HIDE DEF c
  <1>5. c \notin busy /\ \A d \in busy \cup {c} : ~Contains(idle', d)
    BY <1>2, <1>3, <1>4
  <1>6. /\ conns \in [ConnIds -> ConnRec] /\ \A d \in busy : conns[d] = ixconn[d]
        /\ \A d \in ConnIds \ busy : conns[d].user = NoUser /\ conns[d].q = <<>>
    <2> DEFINE cs == Range(idle) \ Range(s)
    <2>1. \A d \in cs : Contains(idle, d)
      BY <1>2, RangeList
    <2>2. conns = Freed(cs)
      OBVIOUS
    <2> HIDE DEF cs, conns
    <2> QED BY <1>2, <2>1, <2>2, FreedIdle
  <1>7. conns[c].fd
    <2>1. c \in Range(s)
      BY <1>3, <1>4, RangeList
    <2>2. conns[c] = ixconn[c]
      BY <1>2, <1>4, <2>1, FreedIs DEF PoolTypes
    <2> QED BY <1>3, <2>2
  <1> HIDE DEF conns
  <1>8. pool_count' \in Int /\ PoolCount'
    <2>1. Cardinality(busy') = Cardinality(busy) + 1 /\ Cardinality(busy) \in Nat
      BY <1>1, <1>2, <1>4, <1>5, BusyFinite
    <2> QED BY <1>1, <1>2, <1>3, <1>4, <2>1 DEF PoolCount
  <1>9. SendTo(c, conns)
    BY <1>1, <1>4, <1>5, <1>6, <1>7, <1>8 DEF SendTo, NeedConn
  <1> QED BY <1>4, <1>9, SendInv

LEMMA SendNewInv == ASSUME IxInv, SendNew PROVE IxInv'
  <1> DEFINE c == CHOOSE x \in ConnIds : x \notin busy
             n == [NoConn EXCEPT !.fd = TRUE]
             conns == [Freed(Range(idle)) EXCEPT ![c] = n]
  <1>1. /\ NeedConn /\ idle' = <<>> /\ busy' = busy \cup {c}
        /\ pool_count' = pool_count - Len(idle) + 1
        /\ pool_count - Len(idle) < worker_pool_find_max_connections
        /\ worker_send_request(c, conns) /\ UNCHANGED <<ixpc, ixclient, asked, lied>>
    BY DEF SendNew
  <1>2. /\ PoolTypes /\ PoolInv /\ PoolCount /\ idle \in Seq(ConnIds) /\ pool_count \in Int
        /\ busy \subseteq ConnIds
    BY DEF IxInv, PoolTypes
  <1>3. IsFiniteSet(busy) /\ Cardinality(busy) \in Nat /\ pool_count - Len(idle) = Cardinality(busy)
    BY <1>2, BusyFinite DEF PoolCount
  <1>4. busy # ConnIds
    <2>1. worker_pool_find_max_connections <= ProcessLimit /\ ProcessLimit \in Nat
          /\ worker_pool_find_max_connections \in Nat
      BY IxAssumption DEF worker_pool_find_max_connections
    <2>2. Cardinality(busy) < ProcessLimit
      BY <1>1, <1>3, <2>1
    <2>3. Cardinality(ConnIds) > ProcessLimit /\ Cardinality(ConnIds) \in Nat
      BY IxAssumption, FS_CardinalityType
    <2> QED BY <1>3, <2>1, <2>2, <2>3
  <1>5. c \in ConnIds /\ c \notin busy
    BY <1>2, <1>4
  <1> HIDE DEF c
  <1>6. n \in ConnRec /\ n.fd = TRUE /\ n.user = NoUser /\ n.q = <<>>
    BY NoConnIs DEF ConnRec
  <1> HIDE DEF n
  <1>7. /\ Freed(Range(idle)) \in [ConnIds -> ConnRec]
        /\ \A d \in busy : Freed(Range(idle))[d] = ixconn[d]
        /\ \A d \in ConnIds \ busy : Freed(Range(idle))[d].user = NoUser /\ Freed(Range(idle))[d].q = <<>>
    <2> DEFINE cs == Range(idle)
    <2>1. \A d \in cs : Contains(idle, d)
      BY <1>2, RangeList
    <2> HIDE DEF cs
    <2>2. /\ Freed(cs) \in [ConnIds -> ConnRec]
          /\ \A d \in busy : Freed(cs)[d] = ixconn[d]
          /\ \A d \in ConnIds \ busy : Freed(cs)[d].user = NoUser /\ Freed(cs)[d].q = <<>>
      BY <1>2, <2>1, FreedIdle
    <2> QED BY <2>2 DEF cs
  <1>8. /\ conns \in [ConnIds -> ConnRec] /\ \A d \in busy : conns[d] = ixconn[d]
        /\ \A d \in ConnIds \ busy : conns[d].user = NoUser /\ conns[d].q = <<>>
        /\ conns[c].fd
    <2> DEFINE F == Freed(Range(idle))
    <2> HIDE DEF F
    <2>1. /\ F \in [ConnIds -> ConnRec] /\ \A d \in busy : F[d] = ixconn[d]
          /\ \A d \in ConnIds \ busy : F[d].user = NoUser /\ F[d].q = <<>>
      BY <1>7 DEF F
    <2>2. conns = [F EXCEPT ![c] = n]
      BY DEF F
    <2> HIDE DEF conns
    <2>3. conns[c] = n /\ \A d \in ConnIds \ {c} : conns[d] = F[d]
      BY <1>5, <2>1, <2>2
    <2>4. conns \in [ConnIds -> ConnRec]
      BY <1>6, <2>1, <2>2
    <2> QED BY <1>2, <1>5, <1>6, <2>1, <2>3, <2>4
  <1> HIDE DEF conns
  <1>9. pool_count' \in Int /\ PoolCount'
    <2>1. Cardinality(busy') = Cardinality(busy) + 1
      BY <1>1, <1>2, <1>5, BusyFinite
    <2>2. Len(idle') = 0
      BY <1>1
    <2> QED BY <1>1, <1>2, <1>3, <2>1, <2>2 DEF PoolCount
  <1>10. SendTo(c, conns)
    <2>1. idle' \in Seq(ConnIds) /\ Distinct(idle') /\ \A d \in busy \cup {c} : ~Contains(idle', d)
      BY <1>1, EmptyList
    <2> QED BY <1>1, <1>5, <1>8, <1>9, <2>1 DEF SendTo, NeedConn
  <1> QED BY <1>5, <1>10, SendInv

-----------------------------------------------------------------------------
(* Steps that only change the pool.                                        *)

LEMMA PoolOnly ==
  ASSUME IxInv, UNCHANGED <<queueVars, ixclient, ixfault>>,
         \A c \in ConnIds : ixconn'[c].q = ixconn[c].q,
         ixpc # Down, PoolTypes', PoolInv', PoolCount'
  PROVE  IxInv'
  <1>1. UNCHANGED <<ixreq, ixqueue, asked, served, lied, Pending>>
    BY DEF queueVars, Pending
  <1>2. QueueTypes' /\ QueueInv'
    BY <1>1 DEF IxInv, QueueTypes, QueueInv
  <1>3. WorkInv'
    BY <1>1 DEF IxInv, WorkInv
  <1>4. AnswerTypes' /\ IxAnswerTrue' /\ IxAsserts'
    BY <1>1 DEF IxInv, AnswerTypes, IxAnswerTrue, IxAsserts
  <1>5. ContextInv' /\ PassInv'
    BY <1>1 DEF IxInv, ContextInv, PassInv, Wants
  <1> QED BY <1>2, <1>3, <1>4, <1>5 DEF IxInv

\* A connection that is not busy may lose its data, an idle one its place.
LEMMA SendBlockedInv == ASSUME IxInv, SendBlocked PROVE IxInv'
  <1>1. /\ NeedConn /\ idle' = <<>> /\ pool_count' = pool_count - Len(idle)
        /\ ixconn' = Freed(Range(idle)) /\ ixpc' = Idle /\ busy' = busy
        /\ UNCHANGED <<queueVars, ixclient, ixfault>>
    BY DEF SendBlocked
  <1>2. /\ PoolTypes /\ PoolInv /\ PoolCount /\ idle \in Seq(ConnIds) /\ ixpc = Sending
        /\ pool_count \in Int /\ busy \subseteq ConnIds
    BY <1>1 DEF IxInv, NeedConn, PoolTypes
  <1>3. /\ ixconn' \in [ConnIds -> ConnRec]
        /\ \A d \in busy : ixconn'[d] = ixconn[d]
        /\ \A d \in ConnIds : ixconn'[d].q = ixconn[d].q /\ ixconn'[d].user = ixconn[d].user
    <2> DEFINE cs == Range(idle)
    <2>1. (\A d \in cs : Contains(idle, d)) /\ ixconn' = Freed(cs)
      BY <1>1, <1>2, RangeList
    <2> HIDE DEF cs
    <2> QED BY <1>2, <2>1, FreedIdle
  <1>4. PoolTypes' /\ PoolCount'
    <2>1. Len(idle') = 0 /\ idle' \in Seq(ConnIds)
      BY <1>1
    <2>2. Cardinality(busy) \in Nat
      BY <1>2, BusyFinite
    <2> QED BY <1>1, <1>2, <1>3, <2>1, <2>2 DEF PoolTypes, PoolCount
  <1>5. PoolInv'
    <2>1. \A d \in busy : ixconn[d].fd
      BY <1>2, Places DEF PoolInv
    <2> QED BY <1>1, <1>2, <1>3, <2>1, EmptyList, Places DEF PoolInv
  <1> QED BY <1>1, <1>2, <1>3, <1>4, <1>5, Places, PoolOnly

LEMMA LoopInv ==
  ASSUME IxInv, SendEmpty \/ SendMoreTimeout
  PROVE  IxInv'
  <1>1. /\ ixpc \in {Idle, Sending} /\ ixpc' \in {Idle, Sending}
        /\ UNCHANGED <<queueVars, ixclient, ixfault>> /\ UNCHANGED <<ixconn, busy, idle, pool_count>>
    BY DEF SendEmpty, SendMoreTimeout, poolVars
  <1>2. PoolTypes' /\ PoolCount'
    BY <1>1 DEF IxInv, PoolTypes, PoolCount
  <1>3. PoolInv'
    BY <1>1, Places DEF IxInv, PoolInv
  <1> QED BY <1>1, <1>2, <1>3, Places, PoolOnly

LEMMA HandshakeInv == ASSUME IxInv, NEW c \in ConnIds, WorkerHandshake(c) PROVE IxInv'
  <1> DEFINE m == [ixconn[c] EXCEPT !.hs = TRUE]
  <1>1. /\ ixpc = Idle /\ ixpc' = Idle /\ ixconn' = [ixconn EXCEPT ![c] = m]
        /\ UNCHANGED <<queueVars, ixclient, ixfault>> /\ UNCHANGED <<busy, idle, pool_count>>
    BY DEF WorkerHandshake
  <1>2. ixconn \in [ConnIds -> ConnRec]
    BY DEF IxInv, PoolTypes
  <1>3. m \in ConnRec /\ m.q = ixconn[c].q /\ m.user = ixconn[c].user /\ m.fd = ixconn[c].fd
    BY <1>2 DEF ConnRec
  <1> HIDE DEF m
  <1>4. /\ ixconn' \in [ConnIds -> ConnRec]
        /\ \A d \in ConnIds : /\ ixconn'[d].q = ixconn[d].q /\ ixconn'[d].user = ixconn[d].user
                               /\ ixconn'[d].fd = ixconn[d].fd
    BY <1>1, <1>2, <1>3
  <1>5. PoolTypes' /\ PoolCount'
    BY <1>1, <1>4 DEF IxInv, PoolTypes, PoolCount
  <1>6. PoolInv'
    BY <1>1, <1>4, Places DEF IxInv, PoolInv, PoolTypes
  <1> QED BY <1>1, <1>4, <1>5, <1>6, Places, PoolOnly

LEMMA WorkerGoneInv == ASSUME IxInv, NEW c \in ConnIds, WorkerGone(c) PROVE IxInv'
  <1> DEFINE m == [ixconn[c] EXCEPT !.fd = FALSE]
  <1>1. /\ ixpc = Idle /\ ixconn' = [ixconn EXCEPT ![c] = m]
        /\ ixpc' = IF ixconn[c].q # <<>> THEN Cancelling(c) ELSE Idle
        /\ UNCHANGED <<queueVars, ixclient, ixfault>> /\ UNCHANGED <<busy, idle, pool_count>>
    BY DEF WorkerGone
  <1>2. ixconn \in [ConnIds -> ConnRec]
    BY DEF IxInv, PoolTypes
  <1>3. m \in ConnRec /\ m.q = ixconn[c].q /\ m.user = ixconn[c].user
    BY <1>2 DEF ConnRec
  <1> HIDE DEF m
  <1>4. /\ ixconn' \in [ConnIds -> ConnRec]
        /\ \A d \in ConnIds : ixconn'[d].q = ixconn[d].q /\ ixconn'[d].user = ixconn[d].user
        /\ \A d \in ConnIds \ {c} : ixconn'[d].fd = ixconn[d].fd
    BY <1>1, <1>2, <1>3
  <1>5. PoolTypes' /\ PoolCount'
    BY <1>1, <1>4 DEF IxInv, PoolTypes, PoolCount
  <1>6. \A d \in busy : ixconn'[d].fd \/ ixpc' = Cancelling(d)
    BY <1>1, <1>4, Places DEF IxInv, PoolInv, PoolTypes
  <1>7. \A d \in ConnIds : ixpc' = Cancelling(d) => d \in busy
    BY <1>1, Places DEF IxInv, PoolInv
  <1>8. PoolInv'
    BY <1>1, <1>4, <1>6, <1>7 DEF IxInv, PoolInv, PoolTypes
  <1> QED BY <1>1, <1>4, <1>5, <1>8, Places, PoolOnly

LEMMA DestroyInv == ASSUME IxInv, NEW c \in IxClients, indexer_client_destroy(c) PROVE IxInv'
  <1> DEFINE m == [ref |-> ixclient[c].ref - 1, destroyed |-> TRUE]
  <1>1. /\ ixpc = Idle /\ ~ixclient[c].destroyed /\ ixclient' = [ixclient EXCEPT ![c] = m]
        /\ UNCHANGED <<queueVars, poolVars, ixpc, ixfault>>
    BY DEF indexer_client_destroy
  <1>2. ixclient \in [IxClients -> ClientRec] /\ ixclient[c].ref \in Nat
    BY DEF IxInv, AnswerTypes, ClientRec
  <1>3. ASSUME NEW d \in IxClients
        PROVE  ixclient[d].ref = (IF ixclient[d].destroyed THEN 0 ELSE 1) + Cardinality(Due(d))
    BY <1>1, Places DEF IxInv, IxAnswerTrue, Due
  <1>4. Cardinality(Due(c)) \in Nat
    BY PendingFinite DEF Due, Pending
  <1>5. ixclient[c].ref - 1 \in Nat /\ ixclient[c].ref - 1 = Cardinality(Due(c))
    BY <1>1, <1>3, <1>4
  <1>6. m \in ClientRec /\ m.ref = Cardinality(Due(c)) /\ m.destroyed
    BY <1>5 DEF ClientRec
  <1> HIDE DEF m
  <1>7. /\ ixclient' \in [IxClients -> ClientRec] /\ ixclient'[c] = m
        /\ \A d \in IxClients \ {c} : ixclient'[d] = ixclient[d]
    BY <1>1, <1>2, <1>6
  <1>8. UNCHANGED <<ixreq, ixqueue, asked, served, lied, Pending, ixconn, busy, idle, pool_count, ixpc>>
    BY <1>1 DEF queueVars, poolVars, Pending
  <1>9. AnswerTypes' /\ IxAnswerTrue' /\ IxAsserts'
    <2>1. ASSUME NEW d \in IxClients
          PROVE  ixclient'[d].ref = (IF ixclient'[d].destroyed THEN 0 ELSE 1) + Cardinality(Due(d))
      BY <1>3, <1>4, <1>6, <1>7
    <2>2. IxAnswerTrue'
      BY <1>8, <2>1 DEF IxInv, IxAnswerTrue, Due
    <2> QED BY <1>1, <1>7, <1>8, <2>2 DEF IxInv, AnswerTypes, IxAsserts
  <1>10. QueueTypes' /\ QueueInv' /\ WorkInv' /\ ContextInv' /\ PassInv'
    BY <1>8 DEF IxInv, QueueTypes, QueueInv, WorkInv, ContextInv, PassInv, Wants
  <1>11. PoolTypes' /\ PoolInv' /\ PoolCount'
    BY <1>8 DEF IxInv, PoolTypes, PoolInv, PoolCount
  <1> QED BY <1>9, <1>10, <1>11 DEF IxInv

-----------------------------------------------------------------------------
(* A worker is done with a request, or lost it.                            *)

\* The first request of a busy connection is finished and leaves it.
FinishAt(c, status) ==
  /\ ixpc # Down /\ c \in busy
  /\ indexer_queue_request_finish(Head(ixconn[c].q), status)
  /\ ixconn'[c].q = Tail(ixconn[c].q)
  /\ \A d \in ConnIds \ {c} : ixconn'[d].q = ixconn[d].q
  /\ PoolTypes' /\ PoolInv' /\ PoolCount' /\ UNCHANGED ixfault

LEMMA FinishInv == ASSUME IxInv, NEW c \in ConnIds, NEW status, FinishAt(c, status) PROVE IxInv'
  <1> DEFINE q == ixconn[c].q
             k == Head(q)
             r == ixreq[k]
             m == Finished(r)
             T == StatusContexts(r)
  <1>1. /\ asked' = [i \in Slots |-> IF i \in T THEN NoAsk ELSE asked[i]]
        /\ served' = served \ T
        /\ lied' = (lied \/ (status = "ok" /\ ~(T \subseteq served)))
        /\ ixreq' = [ixreq EXCEPT ![k] = m]
        /\ ixqueue' = IF m.st = "queued" THEN Append(ixqueue, k) ELSE ixqueue
        /\ ixclient' = [d \in IxClients |-> [ixclient[d] EXCEPT !.ref =
             @ - Cardinality({i \in T : asked[i].client = d})]]
    BY DEF FinishAt, indexer_queue_request_finish
  <1>2. q \in Seq(Keys) /\ q # <<>> /\ Distinct(q)
    BY ConnFields DEF FinishAt, IxInv, PoolTypes, PoolInv, WorkInv
  <1>3. /\ k \in Keys /\ Contains(q, k) /\ Distinct(Tail(q))
        /\ \A x : Contains(Tail(q), x) <=> Contains(q, x) /\ x # k
    BY <1>2, TailList
  <1> HIDE DEF k
  <1>4. r.st = "working" /\ r \in RequestRec /\ Distinct(r.contexts)
        /\ r.working_context_idx <= Len(r.contexts) /\ T \subseteq served
    <2>1. r.st = "working"
      BY <1>3 DEF IxInv, WorkInv
    <2> QED BY <1>3, <2>1 DEF IxInv, QueueTypes, ContextInv, PassInv
  <1>5. /\ m \in RequestRec /\ m.st \in {"none", "queued"} /\ Distinct(m.contexts)
        /\ \A i : Contains(m.contexts, i) =>
              /\ Contains(r.contexts, i) /\ i \notin T
              /\ m.index = r.index /\ m.optimize = r.optimize
    BY <1>4, FinishedIs
  <1>6. T \subseteq Slots /\ IsFiniteSet(T) /\ \A i \in T : Contains(r.contexts, i)
    BY <1>4, StatusIs
  <1> HIDE DEF m, T
  <1>7. /\ ixreq' \in [Keys -> RequestRec] /\ ixreq'[k] = m
        /\ \A l \in Keys \ {k} : ixreq'[l] = ixreq[l]
    BY <1>1, <1>3, <1>5 DEF IxInv, QueueTypes
  <1>8. QueueTypes' /\ QueueInv'
    <2>1. ixqueue \in Seq(Keys) /\ Distinct(ixqueue) /\ ~Contains(ixqueue, k)
      BY <1>3, <1>4 DEF IxInv, QueueTypes, QueueInv
    <2>2. /\ ixqueue' \in Seq(Keys) /\ Distinct(ixqueue')
          /\ \A x : Contains(ixqueue', x) <=> Contains(ixqueue, x) \/ (x = k /\ m.st = "queued")
      <3>1. CASE m.st = "queued"
        BY <1>1, <1>3, <2>1, <3>1, AppendList
      <3>2. CASE m.st # "queued"
        BY <1>1, <2>1, <3>2
      <3> QED BY <3>1, <3>2
    <2> QED BY <1>7, <2>1, <2>2 DEF IxInv, QueueTypes, QueueInv
  <1>9. ASSUME NEW d \in ConnIds
        PROVE  /\ Distinct(ixconn'[d].q)
               /\ \A x : Contains(ixconn'[d].q, x) <=> Contains(ixconn[d].q, x) /\ (d = c => x # k)
    <2>1. CASE d = c
      BY <1>3, <2>1 DEF FinishAt
    <2>2. CASE d # c
      <3>1. ixconn'[d].q = ixconn[d].q
        BY <2>2 DEF FinishAt
      <3> QED BY <2>2, <3>1 DEF IxInv, WorkInv
    <2> QED BY <2>1, <2>2
  <1>10. WorkInv'
    <2>1. ASSUME NEW l \in Keys
          PROVE  ixreq'[l].st = "working" <=> \E d \in ConnIds : Contains(ixconn'[d].q, l)
      <3>1. CASE l = k
        <4>1. \A d \in ConnIds : Contains(ixconn[d].q, k) => d = c
          BY <1>3 DEF IxInv, WorkInv
        <4> QED BY <1>5, <1>7, <1>9, <3>1, <4>1
      <3>2. CASE l # k
        <4>1. ixreq[l].st = "working" <=> \E d \in ConnIds : Contains(ixconn[d].q, l)
          BY DEF IxInv, WorkInv
        <4> QED BY <1>7, <1>9, <3>2, <4>1
      <3> QED BY <3>1, <3>2
    <2>2. ASSUME NEW d \in ConnIds, NEW e \in ConnIds, NEW l \in Keys,
                 Contains(ixconn'[d].q, l), Contains(ixconn'[e].q, l)
          PROVE  d = e
      BY <1>9, <2>2 DEF IxInv, WorkInv
    <2> QED BY <1>9, <2>1, <2>2 DEF WorkInv
  <1>11. T \subseteq Pending /\ Pending' = Pending \ T
         /\ \A i \in Slots \ T : asked'[i] = asked[i]
    <2>1. T \subseteq Pending
      BY <1>3, <1>6 DEF IxInv, ContextInv
    <2>2. \A i \in Slots : asked'[i] = IF i \in T THEN NoAsk ELSE asked[i]
      BY <1>1
    <2> QED BY <2>1, <2>2 DEF Pending
  <1>12. \A l \in Keys \ {k} : \A i \in Slots : Contains(ixreq[l].contexts, i) => i \notin T
    BY <1>3, <1>6 DEF IxInv, ContextInv
  <1>13. ContextInv'
    <2>1. \A l \in Keys : Distinct(ixreq'[l].contexts)
      BY <1>5, <1>7 DEF IxInv, ContextInv
    <2>2. ASSUME NEW l \in Keys, NEW i \in Slots, Contains(ixreq'[l].contexts, i)
          PROVE  /\ Contains(ixreq[l].contexts, i) /\ i \notin T
                 /\ ixreq'[l].index = ixreq[l].index /\ ixreq'[l].optimize = ixreq[l].optimize
      <3>1. CASE l = k
        BY <1>5, <1>7, <2>2, <3>1
      <3>2. CASE l # k
        BY <1>7, <1>12, <2>2, <3>2
      <3> QED BY <3>1, <3>2
    <2>3. ASSUME NEW l \in Keys, NEW h \in Keys, NEW i \in Slots,
                 Contains(ixreq'[l].contexts, i), Contains(ixreq'[h].contexts, i)
          PROVE  l = h
      BY <2>2, <2>3 DEF IxInv, ContextInv
    <2>4. ASSUME NEW l \in Keys, NEW i \in Slots, Contains(ixreq'[l].contexts, i)
          PROVE  i \in Pending' /\ IF asked'[i].op = "optimize" THEN ixreq'[l].optimize
                                                              ELSE ixreq'[l].index
      BY <1>11, <2>2, <2>4 DEF IxInv, ContextInv, Wants
    <2> QED BY <2>1, <2>3, <2>4 DEF ContextInv, Wants
  <1>14. PassInv'
    <2> SUFFICES ASSUME NEW l \in Keys, ixreq'[l].st = "working"
                 PROVE  /\ ixreq'[l].working_context_idx <= Len(ixreq'[l].contexts)
                        /\ StatusContexts(ixreq'[l]) \subseteq served'
      BY DEF PassInv
    <2>1. l # k /\ ixreq'[l] = ixreq[l]
      BY <1>5, <1>7
    <2>2. /\ ixreq[l].working_context_idx <= Len(ixreq[l].contexts)
          /\ StatusContexts(ixreq[l]) \subseteq served
          /\ ixreq[l] \in RequestRec /\ Distinct(ixreq[l].contexts)
      BY <2>1 DEF IxInv, PassInv, QueueTypes, ContextInv
    <2>3. \A i \in StatusContexts(ixreq[l]) : i \in Slots /\ Contains(ixreq[l].contexts, i)
      BY <2>2, StatusIs
    <2>4. \A i \in StatusContexts(ixreq[l]) : i \notin T
      BY <1>12, <2>1, <2>3
    <2> QED BY <1>1, <2>1, <2>2, <2>4
  <1>15. ASSUME NEW d \in IxClients
         PROVE  /\ ixclient'[d] \in ClientRec
                /\ ixclient'[d].ref = (IF ixclient'[d].destroyed THEN 0 ELSE 1) + Cardinality(Due(d)')
    <2> DEFINE G == {i \in T : asked[i].client = d}
               x == ixclient[d].ref - Cardinality(G)
    <2>1. ixclient[d].ref = (IF ixclient[d].destroyed THEN 0 ELSE 1) + Cardinality(Due(d))
      BY DEF FinishAt, IxInv, IxAnswerTrue, Due
    <2>2. G \subseteq Due(d) /\ Due(d)' = Due(d) \ G /\ Due(d) \subseteq Slots
      BY <1>11 DEF Due, Pending
    <2>3. IsFiniteSet(Due(d)) /\ Cardinality(Due(d)) \in Nat
      BY <2>2, PendingFinite
    <2>4. IsFiniteSet(G) /\ Cardinality(G) \in Nat /\ Cardinality(G) <= Cardinality(Due(d))
      BY <2>2, <2>3, FS_Subset, FS_CardinalityType
    <2>5. Due(d) \cap G = G
      BY <2>2
    <2>6. Cardinality(Due(d) \ G) = Cardinality(Due(d)) - Cardinality(G)
      <3> DEFINE D == Due(d)
      <3> HIDE DEF D, G
      <3>1. Cardinality(D \ G) = Cardinality(D) - Cardinality(D \cap G)
        BY <2>3, FS_Difference DEF D
      <3> QED BY <2>5, <3>1 DEF D
    <2>7. x \in Nat /\ x = (IF ixclient[d].destroyed THEN 0 ELSE 1) + Cardinality(Due(d)')
      BY <2>1, <2>2, <2>3, <2>4, <2>6
    <2>8. ixclient'[d] = [ixclient[d] EXCEPT !.ref = x] /\ ixclient[d] \in ClientRec
      BY <1>1 DEF IxInv, AnswerTypes
    <2> HIDE DEF x
    <2>9. /\ ixclient'[d] \in ClientRec /\ ixclient'[d].ref = x
          /\ ixclient'[d].destroyed = ixclient[d].destroyed
      BY <2>7, <2>8 DEF ClientRec
    <2> QED BY <2>7, <2>9
  <1>16. AnswerTypes'
    <2>1. ixclient' \in [IxClients -> ClientRec]
      BY <1>1, <1>15
    <2>2. asked' \in [Slots -> AskRec \cup {NoAsk}]
      BY <1>1 DEF IxInv, AnswerTypes
    <2> QED BY <1>1, <1>11, <2>1, <2>2 DEF IxInv, AnswerTypes
  <1>17. IxAnswerTrue'
    <2>1. ~lied'
      BY <1>1, <1>4 DEF IxInv, IxAnswerTrue, T
    <2> QED BY <1>15, <2>1 DEF IxAnswerTrue, Due
  <1>18. PoolTypes' /\ PoolInv' /\ PoolCount' /\ IxAsserts'
    BY DEF FinishAt, IxInv, IxAsserts
  <1> QED BY <1>8, <1>10, <1>13, <1>14, <1>16, <1>17, <1>18 DEF IxInv

LEMMA CancelInv == ASSUME IxInv, CancelNext PROVE IxInv'
  <1> DEFINE c == ixpc.conn
             q == Tail(ixconn[c].q)
  <1>1. PICK e \in ConnIds : ixpc = Cancelling(e)
    BY Places DEF CancelNext, IxInv, PoolTypes
  <1>2. c \in ConnIds /\ ixpc = Cancelling(c) /\ ixpc # Down
    BY <1>1, Places
  <1>3. c \in busy
    BY <1>2 DEF IxInv, PoolInv
  <1>4. /\ indexer_queue_request_finish(Head(ixconn[c].q), "fail")
        /\ ixconn' = IF q = <<>> THEN Freed({c}) ELSE [ixconn EXCEPT ![c].q = q]
        /\ busy' = IF q = <<>> THEN busy \ {c} ELSE busy
        /\ pool_count' = IF q = <<>> THEN pool_count - 1 ELSE pool_count
        /\ ixpc' = IF q = <<>> THEN Idle ELSE ixpc
        /\ UNCHANGED <<idle, ixfault>>
    BY DEF CancelNext
  <1>5. /\ ixconn \in [ConnIds -> ConnRec] /\ busy \subseteq ConnIds /\ idle \in Seq(ConnIds)
        /\ pool_count \in Int
    BY DEF IxInv, PoolTypes
  <1>6. /\ ixconn[c] \in ConnRec /\ ixconn[c].q \in Seq(Keys) /\ ixconn[c].q # <<>>
        /\ Distinct(ixconn[c].q)
    BY <1>2, <1>3, <1>5, ConnFields DEF IxInv, PoolInv, WorkInv
  <1>7. q \in Seq(Keys) /\ \A x : Contains(q, x) => Contains(ixconn[c].q, x)
    BY <1>6, TailList
  <1> HIDE DEF c
  <1>8. CASE q = <<>>
    <2>1. /\ ixconn' \in [ConnIds -> ConnRec] /\ ixconn'[c] = NoConn
          /\ \A d \in ConnIds \ {c} : ixconn'[d] = ixconn[d]
      BY <1>2, <1>4, <1>5, <1>8, FreedIs
    <2>2. PoolTypes'
      <3>1. busy' = busy \ {c} /\ pool_count' = pool_count - 1 /\ ixpc' = Idle /\ idle' = idle
        BY <1>4, <1>8
      <3>2. busy' \subseteq ConnIds /\ pool_count' \in Int
        BY <1>5, <3>1
      <3> QED BY <1>5, <2>1, <3>1, <3>2 DEF PoolTypes
    <2>3. PoolCount'
      <3>1. Cardinality(busy') = Cardinality(busy) - 1 /\ Cardinality(busy) \in Nat
        BY <1>3, <1>4, <1>8, BusyFinite DEF IxInv
      <3> QED BY <1>4, <1>5, <1>8, <3>1 DEF IxInv, PoolCount
    <2>4. PoolInv'
      <3>1. busy' = busy \ {c} /\ ixpc' = Idle /\ idle' = idle
        BY <1>4, <1>8
      <3>2. \A d \in busy' : d \in busy /\ d \in ConnIds /\ ixconn'[d] = ixconn[d] /\ ixconn[d].fd
        BY <1>2, <1>5, <2>1, <3>1, Places DEF IxInv, PoolInv
      <3>3. ASSUME NEW d \in ConnIds
            PROVE  /\ d \in busy' <=> ixconn'[d].q # <<>>
                   /\ d \notin busy' => ixconn'[d].user = NoUser
        <4>1. CASE d = c
          BY <2>1, <3>1, <4>1, NoConnIs
        <4>2. CASE d # c
          BY <2>1, <3>1, <4>2 DEF IxInv, PoolInv
        <4> QED BY <4>1, <4>2
      <3> QED BY <3>1, <3>2, <3>3, Places DEF IxInv, PoolInv
    <2>5. /\ ixconn'[c].q = q /\ \A d \in ConnIds \ {c} : ixconn'[d].q = ixconn[d].q
      BY <1>8, <2>1, NoConnIs
    <2>6. FinishAt(c, "fail")
      BY <1>2, <1>3, <1>4, <2>2, <2>3, <2>4, <2>5 DEF FinishAt
    <2> QED BY <1>2, <2>6, FinishInv
  <1>9. CASE q # <<>>
    <2> DEFINE m == [ixconn[c] EXCEPT !.q = q]
    <2> HIDE DEF q
    <2>1. m \in ConnRec /\ m.q = q /\ m.user = ixconn[c].user /\ m.fd = ixconn[c].fd
      BY <1>6, <1>7 DEF ConnRec
    <2>2. ixconn' = [ixconn EXCEPT ![c] = m]
      BY <1>4, <1>9
    <2> HIDE DEF m
    <2>3. /\ ixconn' \in [ConnIds -> ConnRec] /\ ixconn'[c] = m
          /\ \A d \in ConnIds \ {c} : ixconn'[d] = ixconn[d]
      BY <1>2, <1>5, <2>1, <2>2
    <2>4. busy' = busy /\ idle' = idle /\ pool_count' = pool_count /\ ixpc' = ixpc
      BY <1>4, <1>9
    <2>5. PoolTypes' /\ PoolCount'
      BY <2>3, <2>4 DEF IxInv, PoolTypes, PoolCount
    <2>6. PoolInv'
      <3>1. \A d \in ConnIds : /\ ixconn'[d].user = ixconn[d].user /\ ixconn'[d].fd = ixconn[d].fd
                               /\ \A x : Contains(ixconn'[d].q, x) => Contains(ixconn[d].q, x)
                               /\ ixconn'[d].q = <<>> <=> ixconn[d].q = <<>>
        BY <1>6, <1>7, <1>9, <2>1, <2>3
      <3>2. \A d \in busy' : \A k \in Keys : Contains(ixconn'[d].q, k) => k[1] = ixconn'[d].user
        BY <1>5, <2>4, <3>1 DEF IxInv, PoolInv
      <3>3. \A d, x \in busy' : ixconn'[d].user = ixconn'[x].user => d = x
        BY <1>5, <2>4, <3>1 DEF IxInv, PoolInv
      <3>4. \A d \in busy' : ixconn'[d].fd \/ ixpc' = Cancelling(d)
        BY <1>5, <2>4, <3>1 DEF IxInv, PoolInv
      <3>5. \A d \in ConnIds : /\ d \in busy' <=> ixconn'[d].q # <<>>
                               /\ d \notin busy' => ixconn'[d].user = NoUser
                               /\ ixpc' = Cancelling(d) => d \in busy'
        BY <2>4, <3>1 DEF IxInv, PoolInv
      <3>6. Distinct(idle') /\ \A d \in busy' : ~Contains(idle', d)
        BY <2>4 DEF IxInv, PoolInv
      <3> QED BY <3>2, <3>3, <3>4, <3>5, <3>6 DEF PoolInv
    <2>7. FinishAt(c, "fail")
      BY <1>2, <1>3, <1>4, <2>1, <2>3, <2>5, <2>6 DEF FinishAt, q
    <2> QED BY <1>2, <2>7, FinishInv
  <1> QED BY <1>8, <1>9

LEMMA WorkerLineInv ==
  ASSUME IxInv, NEW c \in ConnIds, NEW status, NEW old \in BOOLEAN, WorkerLine(c, status, old)
  PROVE  IxInv'
  <1> DEFINE q == Tail(ixconn[c].q)
             last == q = <<>>
             dead == IF last /\ old THEN Range(idle) ELSE {}
             m == [ixconn[c] EXCEPT !.q = q, !.user = IF last THEN NoUser ELSE ixconn[c].user]
  <1>1. /\ ixpc = Idle /\ ixpc' = Idle /\ c \in busy /\ UNCHANGED ixfault
        /\ indexer_queue_request_finish(Head(ixconn[c].q), status)
        /\ ixconn' = [Freed(dead) EXCEPT ![c] = m]
        /\ busy' = IF last THEN busy \ {c} ELSE busy
        /\ idle' = IF ~last THEN idle ELSE IF old THEN <<c>> ELSE <<c>> \o idle
        /\ pool_count' = pool_count - Cardinality(dead)
    BY DEF WorkerLine
  <1>2. /\ ixconn \in [ConnIds -> ConnRec] /\ busy \subseteq ConnIds /\ idle \in Seq(ConnIds)
        /\ pool_count \in Int /\ PoolTypes /\ PoolInv /\ PoolCount
        /\ Distinct(idle) /\ \A d \in busy : ~Contains(idle, d)
    BY DEF IxInv, PoolTypes, PoolInv
  <1>3. /\ ixconn[c] \in ConnRec /\ ixconn[c].q \in Seq(Keys) /\ ixconn[c].q # <<>>
        /\ Distinct(ixconn[c].q) /\ ixconn[c].fd
    BY <1>1, <1>2, ConnFields, Places DEF IxInv, PoolInv, WorkInv
  <1>4. q \in Seq(Keys) /\ \A x : Contains(q, x) => Contains(ixconn[c].q, x)
    BY <1>3, TailList
  <1> HIDE DEF q
  <1>5. /\ m \in ConnRec /\ m.q = q /\ m.fd = ixconn[c].fd
        /\ m.user = IF last THEN NoUser ELSE ixconn[c].user
    <2> DEFINE u == IF last THEN NoUser ELSE ixconn[c].user
    <2>1. u \in IxUsers \cup {NoUser}
      BY <1>3, ConnFields
    <2>2. m = [ixconn[c] EXCEPT !.q = q, !.user = u]
      OBVIOUS
    <2> HIDE DEF u, m
    <2>3. m \in ConnRec /\ m.q = q /\ m.fd = ixconn[c].fd /\ m.user = u
      BY <1>3, <1>4, <2>1, <2>2 DEF ConnRec
    <2> QED BY <2>3 DEF u
  <1> HIDE DEF m
  <1>6. \A d \in dead : Contains(idle, d)
    BY <1>2, RangeList
  <1>7. Cardinality(dead) = IF last /\ old THEN Len(idle) ELSE 0
    BY <1>2, DistinctLength, FS_EmptySet
  <1> HIDE DEF dead
  <1>8. /\ ixconn' \in [ConnIds -> ConnRec] /\ ixconn'[c] = m
        /\ \A d \in busy : d # c => ixconn'[d] = ixconn[d]
        /\ \A d \in ConnIds \ {c} : ixconn'[d].q = ixconn[d].q /\ ixconn'[d].user = ixconn[d].user
    <2> DEFINE F == Freed(dead)
    <2>1. /\ F \in [ConnIds -> ConnRec] /\ \A d \in busy : F[d] = ixconn[d]
          /\ \A d \in ConnIds : F[d].q = ixconn[d].q /\ F[d].user = ixconn[d].user
      BY <1>2, <1>6, FreedIdle
    <2>2. ixconn' = [F EXCEPT ![c] = m]
      BY <1>1
    <2> HIDE DEF F
    <2>3. ixconn'[c] = m /\ \A d \in ConnIds \ {c} : ixconn'[d] = F[d]
      BY <2>1, <2>2
    <2>4. ixconn' \in [ConnIds -> ConnRec]
      BY <1>5, <2>1, <2>2
    <2> QED BY <1>2, <2>1, <2>3, <2>4
  <1>9. /\ idle' \in Seq(ConnIds) /\ Distinct(idle') /\ \A d \in busy' : ~Contains(idle', d)
        /\ PoolCount' /\ pool_count' \in Int
    <2>1. Cardinality(busy) \in Nat /\ Cardinality(busy \ {c}) = Cardinality(busy) - 1
      BY <1>1, <1>2, BusyFinite
    <2>2. CASE ~last
      BY <1>1, <1>2, <1>7, <2>1, <2>2 DEF PoolCount
    <2>3. CASE last /\ ~old
      <3>1. /\ idle' = <<c>> \o idle /\ busy' = busy \ {c} /\ pool_count' = pool_count - 0
        BY <1>1, <1>7, <2>3
      <3>2. /\ idle' \in Seq(ConnIds) /\ Len(idle') = Len(idle) + 1 /\ Distinct(idle')
            /\ \A x : Contains(idle', x) <=> Contains(idle, x) \/ x = c
        <4> DEFINE L == <<c>> \o idle
        <4>1. /\ L \in Seq(ConnIds) /\ Len(L) = Len(idle) + 1 /\ Distinct(L)
              /\ \A x : Contains(L, x) <=> Contains(idle, x) \/ x = c
          BY <1>1, <1>2, ConsList
        <4> HIDE DEF L
        <4> QED BY <3>1, <4>1 DEF L
      <3> QED BY <1>2, <2>1, <3>1, <3>2 DEF PoolCount
    <2>4. CASE last /\ old
      <3>1. /\ idle' = <<c>> /\ busy' = busy \ {c} /\ pool_count' = pool_count - Len(idle)
        BY <1>1, <1>7, <2>4
      <3>2. idle' \in Seq(ConnIds) /\ Len(idle') = 1 /\ idle'[1] = c
        BY <3>1
      <3>3. Distinct(idle') /\ \A d \in busy' : ~Contains(idle', d)
        BY <3>1, <3>2 DEF Distinct, Contains
      <3>4. PoolCount' /\ pool_count' \in Int
        BY <1>2, <2>1, <3>1, <3>2 DEF PoolCount
      <3> QED BY <3>2, <3>3, <3>4
    <2> QED BY <2>2, <2>3, <2>4
  <1>10. PoolTypes'
    BY <1>1, <1>2, <1>8, <1>9 DEF PoolTypes
  <1>11. PoolInv'
    <2>1. ASSUME NEW d \in ConnIds
          PROVE  /\ d \in busy' <=> ixconn'[d].q # <<>>
                 /\ d \notin busy' => ixconn'[d].user = NoUser
      <3>1. CASE d = c
        BY <1>1, <1>5, <1>8, <3>1
      <3>2. CASE d # c
        BY <1>1, <1>8, <3>2 DEF IxInv, PoolInv
      <3> QED BY <3>1, <3>2
    <2>2. ASSUME NEW d \in busy'
          PROVE  /\ d \in busy /\ ixconn'[d].user = ixconn[d].user /\ ixconn'[d].fd
                 /\ \A x : Contains(ixconn'[d].q, x) => Contains(ixconn[d].q, x)
      <3>1. d \in busy /\ (d = c => ~last)
        BY <1>1, <2>2
      <3>2. CASE d = c
        BY <1>3, <1>4, <1>5, <1>8, <3>1, <3>2
      <3>3. CASE d # c
        BY <1>1, <1>8, <3>1, <3>3, Places DEF IxInv, PoolInv
      <3> QED BY <3>1, <3>2, <3>3
    <2>3. \A d \in busy' : \A k \in Keys : Contains(ixconn'[d].q, k) => k[1] = ixconn'[d].user
      BY <2>2 DEF IxInv, PoolInv
    <2>4. \A d, e \in busy' : ixconn'[d].user = ixconn'[e].user => d = e
      BY <2>2 DEF IxInv, PoolInv
    <2>5. \A d \in busy' : ixconn'[d].fd \/ ixpc' = Cancelling(d)
      BY <2>2
    <2>6. \A d \in ConnIds : ixpc' # Cancelling(d)
      BY <1>1, Places
    <2> QED BY <1>9, <2>1, <2>3, <2>4, <2>5, <2>6 DEF PoolInv
  <1>12. FinishAt(c, status)
    BY <1>1, <1>5, <1>8, <1>9, <1>10, <1>11, Places DEF FinishAt, q
  <1> QED BY <1>12, FinishInv

-----------------------------------------------------------------------------
(* The start and the end, and every step.                                  *)

LEMMA EmptyPool ==
  ASSUME ixconn = [c \in ConnIds |-> NoConn], busy = {}, idle = <<>>, pool_count = 0,
         ixpc \in {Idle, Down}
  PROVE  PoolTypes /\ PoolInv /\ PoolCount
  <1>1. PoolTypes
    BY NoConnIs DEF PoolTypes
  <1>2. PoolInv
    BY NoConnIs, EmptyList, Places DEF PoolInv
  <1>3. PoolCount
    BY FS_EmptySet DEF PoolCount
  <1> QED BY <1>1, <1>2, <1>3

LEMMA EmptyQueue ==
  ASSUME ixreq = [k \in Keys |-> NoRequest], ixqueue = <<>>,
         ixconn = [c \in ConnIds |-> NoConn]
  PROVE  QueueTypes /\ QueueInv /\ WorkInv /\ ContextInv /\ PassInv
  <1>1. QueueTypes /\ QueueInv
    BY NoRequestIs, EmptyList DEF QueueTypes, QueueInv
  <1>2. WorkInv
    BY NoRequestIs, NoConnIs, EmptyList DEF WorkInv
  <1>3. ContextInv /\ PassInv
    BY NoRequestIs, EmptyList DEF ContextInv, PassInv
  <1> QED BY <1>1, <1>2, <1>3

LEMMA IxInvInit == IxInit => IxInv
  <1> SUFFICES ASSUME IxInit PROVE IxInv
    OBVIOUS
  <1>1. PoolTypes /\ PoolInv /\ PoolCount
    BY EmptyPool DEF IxInit
  <1>2. QueueTypes /\ QueueInv /\ WorkInv /\ ContextInv /\ PassInv
    BY EmptyQueue DEF IxInit
  <1>3. Pending = {} /\ AnswerTypes /\ IxAsserts
    BY DEF IxInit, Pending, AnswerTypes, ClientRec, IxAsserts
  <1>4. IxAnswerTrue
    <2>1. \A c \in IxClients : ixclient[c].ref = 1 /\ ~ixclient[c].destroyed
      BY DEF IxInit
    <2>2. \A c \in IxClients : {i \in Pending : asked[i].client = c} = {}
      BY <1>3
    <2>3. ~lied
      BY DEF IxInit
    <2>4. \A c \in IxClients : Cardinality({i \in Pending : asked[i].client = c}) = 0
      BY <2>2, FS_EmptySet
    <2>5. \A c \in IxClients : ixclient[c].ref = (IF ixclient[c].destroyed THEN 0 ELSE 1) + 0
      BY <2>1
    <2> QED BY <2>3, <2>4, <2>5 DEF IxAnswerTrue
  <1> QED BY <1>1, <1>2, <1>3, <1>4 DEF IxInv

LEMMA StopInv == ASSUME IxInv, IndexerStop PROVE IxInv'
  <1>1. /\ ixreq' = [k \in Keys |-> NoRequest] /\ ixqueue' = <<>>
        /\ ixconn' = [c \in ConnIds |-> NoConn] /\ busy' = {} /\ idle' = <<>> /\ pool_count' = 0
        /\ ixpc' = Down /\ ixclient' = [c \in IxClients |-> [ref |-> 0, destroyed |-> TRUE]]
        /\ asked' = [i \in Slots |-> NoAsk] /\ served' = {} /\ lied' = lied
        /\ ixfault' \in {"array_idx", ixfault}
    BY DEF IndexerStop
  <1>2. (PoolTypes /\ PoolInv /\ PoolCount)'
    <2>1. PoolTypes'
      BY <1>1, NoConnIs DEF PoolTypes
    <2>2. PoolInv'
      BY <1>1, NoConnIs, EmptyList, Places DEF PoolInv
    <2>3. PoolCount'
      BY <1>1, FS_EmptySet DEF PoolCount
    <2> QED BY <2>1, <2>2, <2>3
  <1>3. (QueueTypes /\ QueueInv /\ WorkInv /\ ContextInv /\ PassInv)'
    <2>1. (QueueTypes /\ QueueInv)'
      BY <1>1, NoRequestIs, EmptyList DEF QueueTypes, QueueInv
    <2>2. WorkInv'
      BY <1>1, NoRequestIs, NoConnIs, EmptyList DEF WorkInv
    <2>3. (ContextInv /\ PassInv)'
      BY <1>1, NoRequestIs, EmptyList DEF ContextInv, PassInv
    <2> QED BY <2>1, <2>2, <2>3
  <1>4. AnswerTypes' /\ IxAsserts' /\ IxAnswerTrue'
    BY <1>1 DEF IxInv, AnswerTypes, ClientRec, Pending, IxAsserts, IxAnswerTrue
  <1> QED BY <1>2, <1>3, <1>4 DEF IxInv

LEMMA IxInvNext == ASSUME IxInv, [IxNext]_ixVars PROVE IxInv'
  <1>1. CASE IxLoop
    BY <1>1, LoopInv, SendSameUserInv, SendIdleInv, SendNewInv, SendBlockedInv, CancelInv DEF IxLoop
  <1>2. CASE SendMoreTimeout
    BY <1>2, LoopInv
  <1>3. ASSUME NEW c \in IxClients, indexer_client_destroy(c) PROVE IxInv'
    BY <1>3, DestroyInv
  <1>4. ASSUME NEW c \in IxClients, NEW k \in Keys, NEW op \in Ops, NEW tagged \in BOOLEAN,
               indexer_client_request(c, k, op, tagged)
        PROVE  IxInv'
    BY <1>4, RequestInv
  <1>5. ASSUME NEW c \in ConnIds, WorkerHandshake(c) \/ WorkerAnswers(c) \/ WorkerGone(c)
        PROVE  IxInv'
    <2>1. CASE WorkerAnswers(c)
      BY <2>1, WorkerLineInv DEF WorkerAnswers
    <2> QED BY <1>5, <2>1, HandshakeInv, WorkerGoneInv
  <1>6. CASE IndexerStop
    BY <1>6, StopInv
  <1>7. CASE UNCHANGED ixVars
    <2>1. UNCHANGED <<queueVars, ixclient, ixfault, ixconn, busy, idle, pool_count, ixpc, Pending>>
      BY <1>7 DEF ixVars, queueVars, Pending
    <2>2. QueueTypes' /\ QueueInv' /\ WorkInv' /\ ContextInv' /\ PassInv'
      BY <2>1 DEF queueVars, IxInv, QueueTypes, QueueInv, WorkInv, ContextInv, PassInv, Wants
    <2>3. PoolTypes' /\ PoolInv' /\ PoolCount'
      BY <2>1 DEF IxInv, PoolTypes, PoolInv, PoolCount
    <2>4. AnswerTypes' /\ IxAsserts' /\ IxAnswerTrue'
      BY <2>1 DEF queueVars, IxInv, AnswerTypes, IxAsserts, IxAnswerTrue
    <2> QED BY <2>2, <2>3, <2>4 DEF IxInv
  <1> QED BY <1>1, <1>2, <1>3, <1>4, <1>5, <1>6, <1>7 DEF IxNext

LEMMA IxInvAlways == IxSpec => []IxInv
  BY IxInvInit, IxInvNext, PTL DEF IxSpec

-----------------------------------------------------------------------------
(* The theorems.                                                           *)

\* indexer-queue.c: a mailbox is queued once or one worker has it, through
\* requests that move it to the front, passes that are repeated and workers
\* that are lost.
THEOREM IndexerTypes == IxSpec => []IxTypeOK
  <1>1. ASSUME IxInv PROVE IxTypeOK
    <2>1. Range(ixqueue) = {k \in Keys : ixreq[k].st = "queued"}
      <3>1. ixqueue \in Seq(Keys)
        BY <1>1 DEF IxInv, QueueTypes
      <3>2. \A x : x \in Range(ixqueue) <=> Contains(ixqueue, x)
        BY <3>1, RangeList
      <3>3. \A x : Contains(ixqueue, x) => x \in Keys
        BY <3>1 DEF Contains
      <3> QED BY <1>1, <3>2, <3>3 DEF IxInv, QueueInv
    <2>2. IsInjective(ixqueue)
      <3>1. DOMAIN ixqueue = 1..Len(ixqueue)
        BY <1>1 DEF IxInv, QueueTypes
      <3> QED BY <1>1, <3>1 DEF IxInv, QueueInv, Distinct, IsInjective
    <2>3. UNION {Range(ixconn[c].q) : c \in ConnIds} = {k \in Keys : ixreq[k].st = "working"}
      <3>1. \A c \in ConnIds : ixconn[c].q \in Seq(Keys)
        BY <1>1, ConnFields DEF IxInv, PoolTypes
      <3>2. \A c \in ConnIds : \A x : x \in Range(ixconn[c].q) <=> Contains(ixconn[c].q, x)
        BY <3>1, RangeList
      <3>3. \A c \in ConnIds : \A x : Contains(ixconn[c].q, x) => x \in Keys
        BY <3>1 DEF Contains
      <3> QED BY <1>1, <3>2, <3>3 DEF IxInv, WorkInv
    <2>4. Range(idle) \subseteq ConnIds \ busy
      <3>1. idle \in Seq(ConnIds)
        BY <1>1 DEF IxInv, PoolTypes
      <3>2. \A x : x \in Range(idle) <=> Contains(idle, x)
        BY <3>1, RangeList
      <3>3. \A x : Contains(idle, x) => x \in ConnIds
        BY <3>1 DEF Contains
      <3> QED BY <1>1, <3>2, <3>3 DEF IxInv, PoolInv
    <2> QED BY <1>1, <2>1, <2>2, <2>3, <2>4 DEF IxTypeOK, IxInv, QueueTypes, PoolTypes, AnswerTypes
  <1> QED BY <1>1, IxInvAlways, PTL

\* worker-pool.c: two workers never index mailboxes of one user at the same
\* time, and connection_count, which limits new ones, is right.
THEOREM WorkerPerUser == IxSpec => []OneWorkerPerUser
  <1>1. ASSUME IxInv PROVE OneWorkerPerUser
    <2>1. \A c \in busy : c \in ConnIds /\ ixconn[c].q \in Seq(Keys)
      BY <1>1, ConnFields DEF IxInv, PoolTypes
    <2>2. \A c \in busy : \A k \in Range(ixconn[c].q) : k \in Keys /\ Contains(ixconn[c].q, k)
      <3> SUFFICES ASSUME NEW c \in busy, NEW k \in Range(ixconn[c].q)
                   PROVE  k \in Keys /\ Contains(ixconn[c].q, k)
        OBVIOUS
      <3>1. Contains(ixconn[c].q, k)
        BY <2>1, RangeList
      <3> QED BY <2>1, <3>1 DEF Contains
    <2> QED BY <1>1, <2>1, <2>2 DEF IxInv, PoolInv, PoolCount, OneWorkerPerUser
  <1> QED BY <1>1, IxInvAlways, PTL

\* worker_connection_request() finds the connection open and the user's own:
\* its assertions hold, whenever workers exit and clients come and go.
THEOREM RequestAsserts == IxSpec => []IxAsserts
  <1>1. IxInv => IxAsserts
    BY DEF IxInv
  <1> QED BY <1>1, IxInvAlways, PTL

\* indexer_queue_request_status_int() tells 100% only to who asked before the
\* pass began and for what it did, and the reference count of each client is
\* the number of the answers that are due to it, plus its connection.
THEOREM AnswersTrue == IxSpec => []IxAnswerTrue
  <1>1. IxInv => IxAnswerTrue
    BY DEF IxInv
  <1> QED BY <1>1, IxInvAlways, PTL

-----------------------------------------------------------------------------
(***************************************************************************)
(* The ipc process (Ipc).                                                  *)
(***************************************************************************)

(* The inductive invariant: the loops in progress, what each process was   *)
(* asked and has said, and what each client waits for.                     *)

CmdRec == [tag : Nat, client : IpcClients, n : Nat, isgroup : BOOLEAN]
LineRec == [tag : Nat, ok : BOOLEAN]
Frames == {InputLoop(k) : k \in IpcClients} \cup {DestroyLoop(c) : c \in IpcConns}
IpcClientRec == [st : {"open", "gone"}, buf : Seq(Targets), eof : BOOLEAN,
              wait : BOOLEAN, n : Nat]
IpcConnRec == [st : {"none", "open", "gone"}, hs : BOOLEAN, cmds : Seq(CmdRec), tag : Nat]

IpcTypes ==
  /\ icl \in [IpcClients -> IpcClientRec] /\ icn \in [IpcConns -> IpcConnRec]
  /\ grp \in [IpcClients -> [ref : Nat, error : BOOLEAN]]
  /\ run \in Seq(Frames) /\ from \in [IpcConns -> Seq(LineRec)]
  /\ work \in [IpcConns -> SUBSET CmdRec]
  /\ addressed \in [IpcClients -> SUBSET IpcConns]

\* A process has answered command n of a client.
Said(c, k, n, ok) == <<c, k, n, ok>> \in said
Has(c, x) == Contains(icn[c].cmds, x)

\* The connections whose answer to a client's command is still to come.
Conns(k) == {c \in IpcConns : \E x \in CmdRec : Has(c, x) /\ x.client = k}

\* Only the innermost loop reads from a client, and a connection that is gone
\* and has commands is being destroyed.
RunInv ==
  /\ \A k \in IpcClients : \A i \in 1..Len(run) :
       run[i] = InputLoop(k) => i = 1 /\ icl[k].st = "open"
  /\ \A c \in IpcConns :
       /\ Contains(run, DestroyLoop(c)) => icn[c].st = "gone"
       /\ icn[c].st = "gone" /\ icn[c].cmds # <<>> => Contains(run, DestroyLoop(c))

\* A line from a process is its answer to one command that is still there.
LineOK(c, line) ==
  \E x \in CmdRec :
    /\ Has(c, x) /\ x.tag = line.tag /\ x \notin work[c]
    /\ Said(c, x.client, x.n, line.ok)
    /\ \A ok \in BOOLEAN : Said(c, x.client, x.n, ok) => ok = line.ok

\* One process: it has at most one command of each client, and each of them is
\* unanswered or its answer is under way.
CmdsOK(c) ==
  /\ Distinct(icn[c].cmds)
  /\ \A x, y \in CmdRec : Has(c, x) /\ Has(c, y) /\ (x.client = y.client \/ x.tag = y.tag)
                          => x = y
  /\ \A x \in CmdRec : Has(c, x) => x.tag <= icn[c].tag
  /\ icn[c].st = "none" => icn[c].cmds = <<>>
FromOK(c) ==
  /\ icn[c].st # "open" => work[c] = {} /\ from[c] = <<>>
  /\ \A x \in work[c] : Has(c, x) /\ \A ok \in BOOLEAN : ~Said(c, x.client, x.n, ok)
  /\ Distinct(from[c])
  /\ \A l, m \in LineRec : Contains(from[c], l) /\ Contains(from[c], m) /\ l.tag = m.tag
                           => l = m
  /\ \A l \in LineRec : Contains(from[c], l) => LineOK(c, l)

\* One client: it waits as long as an answer is to come, a group command has a
\* reference for each of them, and first_error tells of those that came.
RefOK(k) ==
  /\ icl[k].wait <=> Conns(k) # {}
  /\ \A c \in IpcConns : \A x \in CmdRec : Has(c, x) /\ x.client = k =>
       x.n = icl[k].n /\ (x.isgroup <=> grp[k].ref > 0) /\ c \in addressed[k]
  /\ grp[k].ref > 0 => grp[k].ref = Cardinality(Conns(k))
  /\ grp[k].ref = 0 => grp[k].error = FALSE /\ \A c, d \in Conns(k) : c = d
  /\ icl[k].st = "gone" /\ icl[k].wait => \A c \in IpcConns : icn[c].st = "gone"
SaidOK(k) ==
  /\ \A c \in IpcConns, n \in Nat, ok \in BOOLEAN :
       Said(c, k, n, ok) => icl[k].wait /\ n = icl[k].n
  /\ ~icl[k].wait => addressed[k] = {}
  /\ grp[k].error = FALSE =>
       \A c \in addressed[k] \ Conns(k) : Said(c, k, icl[k].n, TRUE)
  /\ grp[k].error = TRUE =>
       \E c \in addressed[k] \ Conns(k) : ~Said(c, k, icl[k].n, TRUE) \/ icn[c].st = "gone"

ConnOK(c) == CmdsOK(c) /\ FromOK(c)
ClientOK(k) == RefOK(k) /\ SaidOK(k)

IpcInv ==
  /\ IpcTypes /\ RunInv
  /\ \A c \in IpcConns : ConnOK(c)
  /\ \A k \in IpcClients : ClientOK(k)
  /\ IpcAnswerTrue

-----------------------------------------------------------------------------
(* What a step leaves alone.                                               *)

KeepsConn(c) ==
  /\ icn'[c].cmds = icn[c].cmds /\ icn'[c].tag = icn[c].tag /\ icn'[c].st = icn[c].st
  /\ work'[c] = work[c] /\ from'[c] = from[c]
  /\ \A x \in CmdRec : Has(c, x) =>
       \A ok \in BOOLEAN : Said(c, x.client, x.n, ok)' <=> Said(c, x.client, x.n, ok)

KeepsClient(k) ==
  /\ icl'[k].wait = icl[k].wait /\ icl'[k].n = icl[k].n
  /\ \/ icl'[k].st = icl[k].st \/ ~icl[k].wait
     \/ \A c \in IpcConns : icn'[c].st = "gone"
  /\ grp'[k] = grp[k] /\ addressed'[k] = addressed[k]
  /\ \A c \in IpcConns : icn[c].st = "gone" => icn'[c].st = "gone"
  /\ \A c \in IpcConns : \A x \in CmdRec : x.client = k => (Has(c, x)' <=> Has(c, x))
  /\ \A c \in IpcConns, n \in Nat, ok \in BOOLEAN : Said(c, k, n, ok)' <=> Said(c, k, n, ok)

LEMMA SameConn ==
  ASSUME NEW c \in IpcConns, IpcTypes, ConnOK(c), KeepsConn(c)
  PROVE  ConnOK(c)'
  <1>1. \A x \in CmdRec : Has(c, x)' <=> Has(c, x)
    BY DEF Has, KeepsConn
  <1>2. CmdsOK(c)'
    BY <1>1 DEF ConnOK, CmdsOK, KeepsConn
  <1>3. \A x \in work[c] : x \in CmdRec
    BY DEF IpcTypes
  <1>4. ASSUME NEW l \in LineRec, Contains(from[c], l) PROVE LineOK(c, l)'
    <2>1. PICK x \in CmdRec :
             /\ Has(c, x) /\ x.tag = l.tag /\ x \notin work[c]
             /\ Said(c, x.client, x.n, l.ok)
             /\ \A ok \in BOOLEAN : Said(c, x.client, x.n, ok) => ok = l.ok
      BY <1>4 DEF ConnOK, FromOK, LineOK
    <2>2. l.ok \in BOOLEAN
      BY DEF LineRec
    <2>3. /\ Has(c, x)' /\ x \notin work'[c] /\ Said(c, x.client, x.n, l.ok)'
          /\ \A ok \in BOOLEAN : Said(c, x.client, x.n, ok)' => ok = l.ok
      BY <1>1, <2>1, <2>2 DEF KeepsConn
    <2> QED BY <2>1, <2>3 DEF LineOK
  <1>5. ASSUME NEW x \in work'[c]
        PROVE  Has(c, x)' /\ \A ok \in BOOLEAN : ~Said(c, x.client, x.n, ok)'
    <2>1. x \in work[c] /\ x \in CmdRec
      BY <1>3 DEF KeepsConn
    <2>2. Has(c, x) /\ \A ok \in BOOLEAN : ~Said(c, x.client, x.n, ok)
      BY <2>1 DEF ConnOK, FromOK
    <2> QED BY <1>1, <2>1, <2>2 DEF KeepsConn
  <1>6. FromOK(c)'
    <2>1. /\ icn'[c].st # "open" => work'[c] = {} /\ from'[c] = <<>>
          /\ Distinct(from'[c])
          /\ \A l, m \in LineRec : Contains(from'[c], l) /\ Contains(from'[c], m) /\ l.tag = m.tag
                                   => l = m
      BY DEF ConnOK, FromOK, KeepsConn
    <2>2. \A l \in LineRec : Contains(from'[c], l) => LineOK(c, l)'
      BY <1>4 DEF KeepsConn
    <2> QED BY <1>5, <2>1, <2>2 DEF FromOK
  <1> QED BY <1>2, <1>6 DEF ConnOK

LEMMA SameConns ==
  ASSUME NEW k \in IpcClients,
         \A c \in IpcConns : \A x \in CmdRec : x.client = k => (Has(c, x)' <=> Has(c, x))
  PROVE  Conns(k)' = Conns(k)
  BY DEF Conns

LEMMA SameClient ==
  ASSUME NEW k \in IpcClients, IpcTypes, ClientOK(k), KeepsClient(k)
  PROVE  ClientOK(k)'
  <1>1. Conns(k)' = Conns(k)
    BY SameConns DEF KeepsClient
  <1>2. icl[k].n \in Nat /\ addressed[k] \subseteq IpcConns
    BY DEF IpcTypes, IpcClientRec
  <1>3. RefOK(k)'
    <2>1. icl'[k].wait <=> Conns(k)' # {}
      BY <1>1 DEF ClientOK, RefOK, KeepsClient
    <2>2. \A c \in IpcConns : \A x \in CmdRec : Has(c, x)' /\ x.client = k =>
            x.n = icl'[k].n /\ (x.isgroup <=> grp'[k].ref > 0) /\ c \in addressed'[k]
      BY DEF ClientOK, RefOK, KeepsClient
    <2>3. /\ grp'[k].ref > 0 => grp'[k].ref = Cardinality(Conns(k)')
          /\ grp'[k].ref = 0 => grp'[k].error = FALSE /\ \A c, d \in Conns(k)' : c = d
      BY <1>1 DEF ClientOK, RefOK, KeepsClient
    <2>4. icl'[k].st = "gone" /\ icl'[k].wait => \A c \in IpcConns : icn'[c].st = "gone"
      BY DEF ClientOK, RefOK, KeepsClient
    <2> QED BY <2>1, <2>2, <2>3, <2>4 DEF RefOK
  <1>4. SaidOK(k)'
    <2>1. /\ \A c \in IpcConns, n \in Nat, ok \in BOOLEAN :
               Said(c, k, n, ok)' => icl'[k].wait /\ n = icl'[k].n
          /\ ~icl'[k].wait => addressed'[k] = {}
      BY DEF ClientOK, SaidOK, KeepsClient
    <2>2. ASSUME grp'[k].error = FALSE, NEW c \in addressed'[k] \ Conns(k)'
          PROVE  Said(c, k, icl[k].n, TRUE)'
      BY <1>1, <1>2, <2>2 DEF ClientOK, SaidOK, KeepsClient
    <2>3. ASSUME grp'[k].error = TRUE
          PROVE  \E c \in addressed'[k] \ Conns(k)' :
                   ~Said(c, k, icl[k].n, TRUE)' \/ icn'[c].st = "gone"
      BY <1>1, <1>2, <2>3 DEF ClientOK, SaidOK, KeepsClient
    <2> QED BY <2>1, <2>2, <2>3 DEF SaidOK
  <1> QED BY <1>3, <1>4 DEF ClientOK

-----------------------------------------------------------------------------
(* Lists of loops and of commands.                                         *)

LEMMA FrameIs ==
  /\ \A k \in IpcClients, c \in IpcConns : InputLoop(k) # DestroyLoop(c)
  /\ \A k \in IpcClients : InputLoop(k) \in Frames
  /\ \A c \in IpcConns : DestroyLoop(c) \in Frames
  /\ \A k, l \in IpcClients : InputLoop(k) = InputLoop(l) => k = l
  /\ \A c, d \in IpcConns : DestroyLoop(c) = DestroyLoop(d) => c = d
  <1>1. \A k \in IpcClients : InputLoop(k).loop = "client_input" /\ InputLoop(k).of = k
    BY DEF InputLoop
  <1>2. \A c \in IpcConns :
          DestroyLoop(c).loop = "ipc_connection_destroy" /\ DestroyLoop(c).of = c
    BY DEF DestroyLoop
  <1>3. \A k \in IpcClients, c \in IpcConns : InputLoop(k) # DestroyLoop(c)
    BY <1>1, <1>2
  <1> QED BY <1>1, <1>2, <1>3 DEF Frames

\* SetToSeq() lists the elements of a finite set.
LEMMA ListOfSet ==
  ASSUME NEW S, IsFiniteSet(S)
  PROVE  SetToSeq(S) \in Seq(S) /\ \A x \in S : Contains(SetToSeq(S), x)
  <1> DEFINE m == Cardinality(S)
             P(f) == IsInjective(f)
  <1>1. m \in Nat /\ ExistsBijection(1..m, S)
    BY FS_CardinalityType
  <1>2. PICK g \in Bijection(1..m, S) : TRUE
    BY <1>1 DEF ExistsBijection
  <1>3. g \in [1..m -> S] /\ \A i, j \in 1..m : g[i] = g[j] => i = j
    BY <1>2 DEF Bijection, Injection, IsInjective
  <1>4. \A f \in [1..m -> S] : IsInjective(f) <=> \A i, j \in 1..m : f[i] = f[j] => i = j
    BY DEF IsInjective
  <1> DEFINE f == SetToSeq(S)
  <1>5. f \in [1..m -> S] /\ IsInjective(f)
    <2>1. \E h \in [1..m -> S] : IsInjective(h)
      BY <1>3, <1>4
    <2> QED BY <2>1 DEF SetToSeq
  <1> HIDE DEF f, m
  <1>6. f \in Seq(S) /\ Len(f) = m
    BY <1>1, <1>5
  <1>7. ASSUME NEW x \in S PROVE Contains(f, x)
    <2>1. f \in Injection(1..m, S)
      BY <1>4, <1>5 DEF Injection, IsInjective
    <2>2. IsFiniteSet(1..m) /\ Cardinality(1..m) = m
      <3>1. m \in Int /\ 1 \in Int
        BY <1>1
      <3>2. IsFiniteSet(1..m) /\ Cardinality(1..m) = IF 1 > m THEN 0 ELSE m - 1 + 1
        BY ONLY <3>1, FS_Interval
      <3> QED BY <1>1, <3>2
    <2>3. Cardinality(1..m) = Cardinality(S)
      BY <2>2 DEF m
    <2> DEFINE I == 1..m
    <2>4. IsFiniteSet(S) /\ Cardinality(I) = Cardinality(S) /\ f \in Injection(I, S)
          /\ IsFiniteSet(I)
      BY <2>1, <2>2, <2>3
    <2> HIDE DEF I
    <2>5. f \in Surjection(I, S)
      BY ONLY <2>4, FS_Injection
    <2>6. \E i \in 1..m : f[i] = x
      BY <2>5 DEF Surjection, I
    <2> QED BY <1>6, <2>6 DEF Contains
  <1> QED BY <1>6, <1>7 DEF f

\* The command with a tag, if there is one.
LEMMA FindIs ==
  ASSUME NEW s \in Seq(CmdRec), NEW tag
  PROVE  LET i == ipc_connection_cmd_find(s, tag)
         IN  \/ i = 0 /\ \A x : Contains(s, x) => x.tag # tag
             \/ i \in 1..Len(s) /\ s[i].tag = tag
  <1> DEFINE I == {j \in 1..Len(s) : s[j].tag = tag}
             i == ipc_connection_cmd_find(s, tag)
  <1>1. i = IF I # {} THEN Min(I) ELSE 0
    BY DEF ipc_connection_cmd_find, SelectInSeq
  <1>2. I \subseteq 1..Len(s) /\ I \subseteq Nat
    OBVIOUS
  <1>3. CASE I = {}
    BY <1>1, <1>3 DEF Contains
  <1>4. CASE I # {}
    <2>1. Min(I) \in I
      <3> HIDE DEF I
      <3> QED BY <1>2, <1>4, LeastIndex
    <2>2. i \in I
      BY <1>1, <1>4, <2>1
    <2> QED BY <2>2
  <1> QED BY <1>3, <1>4

\* A list without one of its elements.
LEMMA RemoveAtList ==
  ASSUME NEW S, NEW s \in Seq(S), Distinct(s), NEW i \in 1..Len(s)
  PROVE  /\ RemoveAt(s, i) \in Seq(S) /\ Distinct(RemoveAt(s, i))
         /\ \A x : Contains(RemoveAt(s, i), x) <=> Contains(s, x) /\ x # s[i]
  <1> DEFINE r == RemoveAt(s, i)
             g(x) == IF x < i THEN x ELSE x + 1
  <1>1. r \in Seq(S) /\ Drops(r, s, i)
    BY RemoveAtDrops
  <1> HIDE DEF r
  <1>2. \A x \in 1..Len(r) : r[x] = s[g(x)] /\ g(x) \in 1..Len(s) /\ g(x) # i
    BY <1>1 DEF Drops
  <1>3. \A x, y \in 1..Len(r) : g(x) = g(y) => x = y
    BY <1>1
  <1>4. \A y \in 1..Len(s) : y # i => \E x \in 1..Len(r) : g(x) = y
    <2> SUFFICES ASSUME NEW y \in 1..Len(s), y # i PROVE \E x \in 1..Len(r) : g(x) = y
      OBVIOUS
    <2>1. CASE y < i
      <3>1. y \in 1..Len(r) /\ g(y) = y
        BY <1>1, <2>1 DEF Drops
      <3> QED BY <3>1
    <2>2. CASE ~(y < i)
      <3>1. y - 1 \in 1..Len(r) /\ g(y - 1) = y
        BY <1>1, <2>2 DEF Drops
      <3> QED BY <3>1
    <2> QED BY <2>1, <2>2
  <1> HIDE DEF g
  <1>5. Distinct(r)
    BY <1>2, <1>3 DEF Distinct
  <1>6. ASSUME NEW x PROVE Contains(r, x) <=> Contains(s, x) /\ x # s[i]
    <2>1. ASSUME Contains(r, x) PROVE Contains(s, x) /\ x # s[i]
      <3>1. PICK j \in 1..Len(r) : r[j] = x
        BY <2>1 DEF Contains
      <3>2. s[g(j)] = x /\ g(j) \in 1..Len(s) /\ g(j) # i
        BY <1>2, <3>1
      <3> QED BY <3>2 DEF Contains, Distinct
    <2>2. ASSUME Contains(s, x), x # s[i] PROVE Contains(r, x)
      <3>1. PICK y \in 1..Len(s) : s[y] = x
        BY <2>2 DEF Contains
      <3>2. PICK j \in 1..Len(r) : g(j) = y
        BY <1>4, <2>2, <3>1
      <3> QED BY <1>2, <3>1, <3>2 DEF Contains
    <2> QED BY <2>1, <2>2
  <1> QED BY <1>1, <1>5, <1>6 DEF r

-----------------------------------------------------------------------------
(* A command gets its answer.                                              *)

NoInputLoop == \A k \in IpcClients : \A i \in 1..Len(run) : run[i] # InputLoop(k)

\* Command x leaves the list of connection c and its callback is called.
Answered(c, x, ok) ==
  /\ Has(c, x) /\ x \notin work[c] /\ NoInputLoop
  /\ \A d \in IpcConns \ {c} : icn'[d] = icn[d] /\ from'[d] = from[d]
  /\ icn'[c].st = icn[c].st /\ icn'[c].tag = icn[c].tag /\ Distinct(icn'[c].cmds)
  /\ \A y \in CmdRec : Has(c, y)' <=> Has(c, y) /\ y # x
  /\ work' = work
  /\ Distinct(from'[c]) /\ (from[c] = <<>> => from'[c] = <<>>)
  /\ \A l \in LineRec : Contains(from'[c], l) => Contains(from[c], l) /\ l.tag # x.tag
  /\ ok = TRUE => Said(c, x.client, x.n, TRUE)
  /\ ok = FALSE => ~Said(c, x.client, x.n, TRUE) \/ icn[c].st = "gone"
  /\ Callback(x, ok)

\* ipc_group_cmd_callback() waits for other answers.
Counted(k, ok) ==
  /\ grp[k].ref > 1 /\ UNCHANGED <<icl, run, addressed, said, wrong, freed>>
  /\ grp'[k].ref = grp[k].ref - 1
  /\ (grp'[k].error = TRUE <=> grp[k].error = TRUE \/ ok = FALSE)
  /\ \A j \in IpcClients \ {k} : grp'[j] = grp[j]

\* The answer was the last one, and the client gets e.
Ended(c, k, ok, e) ==
  /\ Conns(k) = {c} /\ client_cmd_input(k, e)
  /\ (e = TRUE <=> grp[k].error = FALSE /\ ok = TRUE)
  /\ grp'[k].ref = 0 /\ grp'[k].error = FALSE
  /\ \A j \in IpcClients \ {k} : grp'[j] = grp[j]

LEMMA AnsweredIs ==
  ASSUME IpcInv, NEW c \in IpcConns, NEW x \in CmdRec, NEW ok \in BOOLEAN, Answered(c, x, ok)
  PROVE  \/ Counted(x.client, ok)
         \/ \E e \in BOOLEAN : Ended(c, x.client, ok, e)
  <1> DEFINE k == x.client
  <1>1. k \in IpcClients /\ x.isgroup \in BOOLEAN
    BY DEF CmdRec
  <1>2. /\ grp[k] \in [ref : Nat, error : BOOLEAN]
        /\ grp \in [IpcClients -> [ref : Nat, error : BOOLEAN]]
    BY <1>1 DEF IpcInv, IpcTypes
  <1>3. RefOK(k) /\ Has(c, x)
    BY <1>1 DEF IpcInv, ClientOK, Answered
  <1>4. c \in Conns(k)
    BY <1>3 DEF Conns
  <1>5. (x.isgroup <=> grp[k].ref > 0)
    BY <1>3 DEF RefOK
  <1>6. IsFiniteSet(Conns(k))
    <2>1. IsFiniteSet(1..MaxConns)
      BY FS_Interval, IpcAssumption
    <2>2. Conns(k) \subseteq 1..MaxConns
      BY DEF Conns, IpcConns
    <2> QED BY <2>1, <2>2, FS_Subset
  <1>7. CASE x.isgroup /\ grp[k].ref > 1
    <2>1. /\ grp' = [grp EXCEPT ![k] = [ref |-> grp[k].ref - 1, error |-> GroupError(k, ok)]]
          /\ UNCHANGED <<icl, run, history>>
      BY <1>7 DEF Answered, Callback, ipc_group_cmd_callback
    <2>2. grp'[k] = [ref |-> grp[k].ref - 1, error |-> GroupError(k, ok)]
      BY <1>1, <1>2, <2>1
    <2>3. grp'[k].ref = grp[k].ref - 1 /\ grp'[k].error = GroupError(k, ok)
      BY <2>2
    <2>4. grp'[k].error = TRUE <=> grp[k].error = TRUE \/ ok = FALSE
      BY <1>2, <2>3 DEF GroupError
    <2>5. \A j \in IpcClients \ {k} : grp'[j] = grp[j]
      BY <1>2, <2>1
    <2> QED BY <1>7, <2>1, <2>3, <2>4, <2>5 DEF Counted, history
  <1>8. CASE x.isgroup /\ ~(grp[k].ref > 1)
    <2>1. grp[k].ref = 1 /\ Cardinality(Conns(k)) = 1
      BY <1>2, <1>3, <1>5, <1>8 DEF RefOK
    <2>2. Conns(k) = {c}
      BY <1>4, <1>6, <2>1, FS_Singleton
    <2>3. grp' = [grp EXCEPT ![k] = NoGrp] /\ client_cmd_input(k, ~GroupError(k, ok))
      BY <1>8 DEF Answered, Callback, ipc_group_cmd_callback
    <2>4. grp'[k].ref = 0 /\ grp'[k].error = FALSE
      BY <1>1, <1>2, <2>3 DEF NoGrp
    <2>5. \A j \in IpcClients \ {k} : grp'[j] = grp[j]
      BY <1>2, <2>3
    <2> DEFINE e == ~GroupError(k, ok)
    <2>6. e \in BOOLEAN /\ (e = TRUE <=> grp[k].error = FALSE /\ ok = TRUE)
      BY <1>2 DEF GroupError
    <2> HIDE DEF e
    <2>7. client_cmd_input(k, e)
      BY <2>3 DEF e
    <2>8. Ended(c, k, ok, e)
      BY <2>2, <2>4, <2>5, <2>6, <2>7 DEF Ended
    <2> QED BY <2>6, <2>8
  <1>9. CASE ~x.isgroup
    <2>1. grp[k].ref = 0 /\ grp[k].error = FALSE /\ \A a, b \in Conns(k) : a = b
      BY <1>2, <1>3, <1>5, <1>9 DEF RefOK
    <2>2. Conns(k) = {c}
      BY <1>4, <2>1
    <2>3. grp' = grp /\ client_cmd_input(k, ok)
      BY <1>9 DEF Answered, Callback
    <2>4. Ended(c, k, ok, ok)
      BY <2>1, <2>2, <2>3 DEF Ended
    <2> QED BY <2>4
  <1> QED BY <1>1, <1>7, <1>8, <1>9

LEMMA ConnsLeft ==
  ASSUME IpcInv, NEW c \in IpcConns, NEW x \in CmdRec, NEW ok \in BOOLEAN, Answered(c, x, ok)
  PROVE  /\ \A j \in IpcClients \ {x.client} : Conns(j)' = Conns(j)
         /\ Conns(x.client)' = Conns(x.client) \ {c} /\ c \in Conns(x.client)
         /\ \A d \in IpcConns : \A y \in CmdRec : Has(d, y)' => Has(d, y)
         /\ \A d \in IpcConns : \A y \in CmdRec : y.client # x.client => (Has(d, y)' <=> Has(d, y))
  <1>1. \A d \in IpcConns \ {c} : \A y \in CmdRec : Has(d, y)' <=> Has(d, y)
    BY DEF Answered, Has
  <1>2. \A y \in CmdRec : Has(c, y)' <=> Has(c, y) /\ y # x
    BY DEF Answered
  <1>3. Has(c, x)
    BY DEF Answered
  <1>4. \A y \in CmdRec : Has(c, y) /\ y.client = x.client => y = x
    BY <1>3 DEF IpcInv, ConnOK, CmdsOK
  <1>5. \A d \in IpcConns : \A y \in CmdRec : y.client # x.client => (Has(d, y)' <=> Has(d, y))
    BY <1>1, <1>2
  <1>6. ASSUME NEW j \in IpcClients \ {x.client} PROVE Conns(j)' = Conns(j)
    BY <1>5 DEF Conns
  <1>7. ASSUME NEW d \in IpcConns
        PROVE  d \in Conns(x.client)' <=> d \in Conns(x.client) /\ d # c
    BY <1>1, <1>2, <1>4 DEF Conns
  <1>8. Conns(x.client)' = Conns(x.client) \ {c}
    <2>1. Conns(x.client)' \subseteq IpcConns /\ Conns(x.client) \subseteq IpcConns
      BY DEF Conns
    <2> QED BY <1>7, <2>1
  <1>9. c \in Conns(x.client)
    BY <1>3 DEF Conns
  <1> QED BY <1>1, <1>2, <1>5, <1>6, <1>8, <1>9

\* The command of a client is over, and nothing is left of it.
EndsClient(k) ==
  /\ \A j \in IpcClients \ {k} :
       icl'[j] = icl[j] /\ addressed'[j] = addressed[j] /\ grp'[j] = grp[j]
  /\ icl'[k].wait = FALSE /\ icl'[k].n = icl[k].n /\ icl'[k].st = icl[k].st
  /\ addressed'[k] = {} /\ grp'[k].ref = 0 /\ grp'[k].error = FALSE
  /\ \A d \in IpcConns, j \in IpcClients, n \in Nat, o \in BOOLEAN :
       Said(d, j, n, o)' <=> Said(d, j, n, o) /\ j # k
  /\ \/ run' = run
     \/ icl[k].st = "open" /\ run' = <<InputLoop(k)>> \o run

LEMMA EndedIs ==
  ASSUME IpcTypes, NEW c \in IpcConns, NEW k \in IpcClients, NEW ok \in BOOLEAN,
         NEW e \in BOOLEAN, Ended(c, k, ok, e)
  PROVE  EndsClient(k)
  <1>1. /\ icl' = [icl EXCEPT ![k].wait = FALSE]
        /\ run' = IF icl[k].st = "open" THEN <<InputLoop(k)>> \o run ELSE run
        /\ addressed' = [addressed EXCEPT ![k] = {}]
        /\ said' = {x \in said : x[2] # k}
    BY DEF Ended, client_cmd_input
  <1>2. icl[k] \in IpcClientRec /\ icl \in [IpcClients -> IpcClientRec]
        /\ addressed \in [IpcClients -> SUBSET IpcConns]
    BY DEF IpcTypes
  <1>3. icl'[k].wait = FALSE /\ icl'[k].n = icl[k].n /\ icl'[k].st = icl[k].st
    BY <1>1, <1>2 DEF IpcClientRec
  <1>4. \A j \in IpcClients \ {k} : icl'[j] = icl[j] /\ addressed'[j] = addressed[j]
    BY <1>1, <1>2
  <1>5. ASSUME NEW d \in IpcConns, NEW j \in IpcClients, NEW n \in Nat, NEW o \in BOOLEAN
        PROVE  Said(d, j, n, o)' <=> Said(d, j, n, o) /\ j # k
    <2>1. <<d, j, n, o>>[2] = j
      OBVIOUS
    <2> DEFINE q == <<d, j, n, o>>
    <2>2. q \in said' <=> q \in said /\ q[2] # k
      <3> HIDE DEF q
      <3> QED BY <1>1
    <2> QED BY <2>1, <2>2 DEF Said
  <1>6. addressed'[k] = {}
    BY <1>1, <1>2
  <1> QED BY <1>1, <1>3, <1>4, <1>5, <1>6 DEF Ended, EndsClient

\* What the client is told is true.
LEMMA ToldTrue ==
  ASSUME IpcInv, NEW c \in IpcConns, NEW x \in CmdRec, NEW ok \in BOOLEAN, Answered(c, x, ok),
         NEW e \in BOOLEAN, Ended(c, x.client, ok, e)
  PROVE  IpcAnswerTrue'
  <1> DEFINE k == x.client
             plus == {d \in IpcConns : <<d, k, icl[k].n, TRUE>> \in said}
             true == IF e THEN addressed[k] \subseteq plus
                     ELSE \E d \in addressed[k] : d \notin plus \/ icn[d].st = "gone"
  <1>1. k \in IpcClients
    BY DEF CmdRec
  <1>2. RefOK(k) /\ SaidOK(k) /\ addressed[k] \subseteq IpcConns
        /\ grp[k].error \in BOOLEAN
    BY <1>1 DEF IpcInv, ClientOK, IpcTypes
  <1>3. Has(c, x)
    BY DEF Answered
  <1>4. x.n = icl[k].n /\ c \in addressed[k]
    BY <1>2, <1>3 DEF RefOK
  <1>5. Conns(k) = {c} /\ (e = TRUE <=> grp[k].error = FALSE /\ ok = TRUE)
    BY DEF Ended
  <1>6. \A d \in IpcConns : d \in plus <=> Said(d, k, icl[k].n, TRUE)
    BY DEF Said
  <1> HIDE DEF plus
  <1>7. ASSUME e = TRUE PROVE true
    <2>1. Said(c, k, icl[k].n, TRUE)
      BY <1>4, <1>5, <1>7 DEF Answered
    <2>2. \A d \in addressed[k] \ {c} : Said(d, k, icl[k].n, TRUE)
      BY <1>2, <1>5, <1>7 DEF SaidOK
    <2>3. addressed[k] \subseteq plus
      BY <1>2, <1>6, <2>1, <2>2
    <2> QED BY <1>7, <2>3
  <1>8. ASSUME e = FALSE PROVE true
    <2>1. CASE ok = FALSE
      <3>1. ~Said(c, k, icl[k].n, TRUE) \/ icn[c].st = "gone"
        BY <1>4, <2>1 DEF Answered
      <3>2. c \notin plus \/ icn[c].st = "gone"
        BY <1>6, <3>1
      <3> QED BY <1>4, <1>8, <3>2
    <2>2. CASE ok = TRUE
      <3>1. grp[k].error = TRUE
        BY <1>2, <1>5, <1>8, <2>2
      <3>2. PICK d \in addressed[k] \ Conns(k) :
              ~Said(d, k, icl[k].n, TRUE) \/ icn[d].st = "gone"
        BY <1>2, <3>1 DEF SaidOK
      <3>3. d \in addressed[k] /\ (d \notin plus \/ icn[d].st = "gone")
        BY <1>2, <1>6, <3>2
      <3> QED BY <1>8, <3>3
    <2> QED BY <2>1, <2>2
  <1>9. true
    BY <1>7, <1>8
  <1>10. wrong' = (wrong \/ ~true)
    BY DEF Ended, client_cmd_input, plus
  <1> HIDE DEF true
  <1> QED BY <1>9, <1>10 DEF IpcInv, IpcAnswerTrue

\* What the answer changes in the history of answers.
SaidLess(k) ==
  \A d \in IpcConns, j \in IpcClients, n \in Nat, o \in BOOLEAN :
    /\ Said(d, j, n, o)' => Said(d, j, n, o)
    /\ (j # k \/ d \in Conns(k)') => (Said(d, j, n, o)' <=> Said(d, j, n, o))

LEMMA AnsweredSaid ==
  ASSUME IpcInv, NEW c \in IpcConns, NEW x \in CmdRec, NEW ok \in BOOLEAN, Answered(c, x, ok)
  PROVE  SaidLess(x.client)
  <1>1. x.client \in IpcClients
    BY DEF CmdRec
  <1>2. CASE Counted(x.client, ok)
    BY <1>2 DEF Counted, SaidLess, Said
  <1>3. ASSUME NEW e \in BOOLEAN, Ended(c, x.client, ok, e) PROVE SaidLess(x.client)
    <2>1. Conns(x.client)' = {}
      BY <1>3, ConnsLeft DEF Ended
    <2>2. \A d \in IpcConns, j \in IpcClients, n \in Nat, o \in BOOLEAN :
            Said(d, j, n, o)' <=> Said(d, j, n, o) /\ j # x.client
      <3>1. IpcTypes
        BY DEF IpcInv
      <3>2. EndsClient(x.client)
        BY <1>1, <1>3, <3>1, EndedIs
      <3> QED BY <3>2 DEF EndsClient
    <2> QED BY <2>1, <2>2 DEF SaidLess
  <1> QED BY <1>2, <1>3, AnsweredIs

LEMMA AnsweredConn ==
  ASSUME IpcInv, NEW c \in IpcConns, NEW x \in CmdRec, NEW ok \in BOOLEAN, Answered(c, x, ok)
  PROVE  ConnOK(c)'
  <1>1. /\ CmdsOK(c) /\ FromOK(c) /\ Has(c, x) /\ x \notin work[c]
        /\ icn'[c].st = icn[c].st /\ icn'[c].tag = icn[c].tag
        /\ Distinct(icn'[c].cmds) /\ work'[c] = work[c] /\ work[c] \subseteq CmdRec
        /\ \A y \in CmdRec : Has(c, y)' <=> Has(c, y) /\ y # x
    BY DEF IpcInv, ConnOK, Answered, IpcTypes
  <1>2. /\ Distinct(from'[c]) /\ (from[c] = <<>> => from'[c] = <<>>)
        /\ \A l \in LineRec : Contains(from'[c], l) => Contains(from[c], l) /\ l.tag # x.tag
    BY DEF Answered
  <1>3. SaidLess(x.client) /\ x.client \in IpcClients
    BY AnsweredSaid DEF CmdRec
  <1>4. \A y \in CmdRec : y.client \in IpcClients /\ y.n \in Nat
    BY DEF CmdRec
  <1>5. icn[c].st # "none"
    <2>1. icn[c].cmds # <<>>
      BY <1>1, EmptyList DEF Has
    <2> QED BY <1>1, <2>1 DEF CmdsOK
  <1>6. CmdsOK(c)'
    BY <1>1, <1>5 DEF CmdsOK
  <1>7. \A y \in CmdRec, o \in BOOLEAN :
          /\ Said(c, y.client, y.n, o)' => Said(c, y.client, y.n, o)
          /\ y.client # x.client => (Said(c, y.client, y.n, o)' <=> Said(c, y.client, y.n, o))
    BY <1>3, <1>4 DEF SaidLess
  <1>8. ASSUME NEW l \in LineRec, Contains(from'[c], l) PROVE LineOK(c, l)'
    <2>1. Contains(from[c], l) /\ l.tag # x.tag /\ l.ok \in BOOLEAN
      BY <1>2, <1>8 DEF LineRec
    <2>2. PICK y \in CmdRec :
             /\ Has(c, y) /\ y.tag = l.tag /\ y \notin work[c]
             /\ Said(c, y.client, y.n, l.ok)
             /\ \A o \in BOOLEAN : Said(c, y.client, y.n, o) => o = l.ok
      BY <1>1, <2>1 DEF FromOK, LineOK
    <2>3. y # x /\ y.client # x.client
      BY <1>1, <2>1, <2>2 DEF CmdsOK
    <2>4. /\ Has(c, y)' /\ y \notin work'[c] /\ Said(c, y.client, y.n, l.ok)'
          /\ \A o \in BOOLEAN : Said(c, y.client, y.n, o)' => o = l.ok
      BY <1>1, <1>7, <2>1, <2>2, <2>3
    <2> QED BY <2>2, <2>4 DEF LineOK
  <1>9. ASSUME NEW y \in work'[c]
        PROVE  Has(c, y)' /\ \A o \in BOOLEAN : ~Said(c, y.client, y.n, o)'
    <2>1. y \in work[c] /\ y \in CmdRec /\ y # x
      BY <1>1
    <2>2. Has(c, y) /\ \A o \in BOOLEAN : ~Said(c, y.client, y.n, o)
      BY <1>1, <2>1 DEF FromOK
    <2> QED BY <1>1, <1>7, <2>1, <2>2
  <1>10. FromOK(c)'
    <2>1. icn'[c].st # "open" => work'[c] = {} /\ from'[c] = <<>>
      BY <1>1, <1>2 DEF FromOK
    <2>2. \A l, m \in LineRec : Contains(from'[c], l) /\ Contains(from'[c], m) /\ l.tag = m.tag
                                 => l = m
      BY <1>1, <1>2 DEF FromOK
    <2> QED BY <1>2, <1>8, <1>9, <2>1, <2>2 DEF FromOK
  <1> QED BY <1>6, <1>10 DEF ConnOK

LEMMA AnsweredConns ==
  ASSUME IpcInv, NEW c \in IpcConns, NEW x \in CmdRec, NEW ok \in BOOLEAN, Answered(c, x, ok),
         NEW d \in IpcConns
  PROVE  ConnOK(d)'
  <1>1. CASE d = c
    BY <1>1, AnsweredConn
  <1>2. CASE d # c
    <2>1. icn'[d] = icn[d] /\ from'[d] = from[d] /\ work'[d] = work[d]
      BY <1>2 DEF Answered
    <2>2. ASSUME NEW y \in CmdRec, Has(d, y), NEW o \in BOOLEAN
          PROVE  Said(d, y.client, y.n, o)' <=> Said(d, y.client, y.n, o)
      <3>1. y.client \in IpcClients /\ y.n \in Nat
        BY DEF CmdRec
      <3>2. y.client = x.client => d \in Conns(x.client)'
        <4>1. Has(d, y)'
          BY <2>1, <2>2 DEF Has
        <4> QED BY <4>1 DEF Conns
      <3> QED BY <3>1, <3>2, AnsweredSaid DEF SaidLess
    <2>3. KeepsConn(d)
      BY <2>1, <2>2 DEF KeepsConn
    <2> QED BY <2>3, SameConn DEF IpcInv
  <1> QED BY <1>1, <1>2

\* The other clients.
LEMMA AnsweredOthers ==
  ASSUME IpcInv, NEW c \in IpcConns, NEW x \in CmdRec, NEW ok \in BOOLEAN, Answered(c, x, ok),
         NEW j \in IpcClients, j # x.client
  PROVE  ClientOK(j)'
  <1>1. x.client \in IpcClients
    BY DEF CmdRec
  <1>2. icl'[j] = icl[j] /\ grp'[j] = grp[j] /\ addressed'[j] = addressed[j]
    <2>1. CASE Counted(x.client, ok)
      BY <2>1 DEF Counted
    <2>2. ASSUME NEW e \in BOOLEAN, Ended(c, x.client, ok, e)
          PROVE  icl'[j] = icl[j] /\ grp'[j] = grp[j] /\ addressed'[j] = addressed[j]
      <3>1. IpcTypes
        BY DEF IpcInv
      <3>2. EndsClient(x.client)
        BY <1>1, <2>2, <3>1, EndedIs
      <3> QED BY <3>2 DEF EndsClient
    <2> QED BY <2>1, <2>2, AnsweredIs
  <1>3. \A d \in IpcConns : icn'[d].st = icn[d].st
    BY DEF Answered
  <1>4. \A d \in IpcConns : \A y \in CmdRec : y.client = j => (Has(d, y)' <=> Has(d, y))
    BY ConnsLeft
  <1>5. \A d \in IpcConns, n \in Nat, o \in BOOLEAN : Said(d, j, n, o)' <=> Said(d, j, n, o)
    BY AnsweredSaid DEF SaidLess
  <1>6. KeepsClient(j)
    BY <1>2, <1>3, <1>4, <1>5 DEF KeepsClient
  <1> QED BY <1>6, SameClient DEF IpcInv

LEMMA CountedClient ==
  ASSUME IpcInv, NEW c \in IpcConns, NEW x \in CmdRec, NEW ok \in BOOLEAN, Answered(c, x, ok),
         Counted(x.client, ok)
  PROVE  ClientOK(x.client)'
  <1> DEFINE k == x.client
  <1>1. /\ k \in IpcClients /\ RefOK(k) /\ SaidOK(k) /\ grp[k].ref \in Nat
        /\ grp[k].error \in BOOLEAN /\ addressed[k] \subseteq IpcConns /\ icl[k].n \in Nat
    BY DEF CmdRec, IpcInv, ClientOK, IpcTypes, IpcClientRec
  <1>2. /\ icl' = icl /\ addressed' = addressed /\ said' = said
        /\ grp[k].ref > 1 /\ grp'[k].ref = grp[k].ref - 1
        /\ (grp'[k].error = TRUE <=> grp[k].error = TRUE \/ ok = FALSE)
    BY DEF Counted
  <1>3. Conns(k)' = Conns(k) \ {c} /\ c \in Conns(k)
        /\ \A d \in IpcConns : \A y \in CmdRec : Has(d, y)' => Has(d, y)
    BY ConnsLeft
  <1>4. IsFiniteSet(Conns(k)) /\ grp[k].ref = Cardinality(Conns(k))
    <2>1. IsFiniteSet(1..MaxConns)
      BY FS_Interval, IpcAssumption
    <2>2. Conns(k) \subseteq 1..MaxConns
      BY DEF Conns, IpcConns
    <2>3. grp[k].ref = Cardinality(Conns(k))
      BY <1>1, <1>2 DEF RefOK
    <2> QED BY <2>1, <2>2, <2>3, FS_Subset
  <1>5. Cardinality(Conns(k)') = grp'[k].ref /\ Conns(k)' # {}
    <2>1. Cardinality(Conns(k) \ {c}) = Cardinality(Conns(k)) - 1
      BY <1>3, <1>4, FS_RemoveElement
    <2>2. Cardinality(Conns(k)') = grp'[k].ref /\ grp'[k].ref # 0
      BY <1>1, <1>2, <1>3, <1>4, <2>1
    <2> QED BY <2>2, FS_EmptySet
  <1>6. \A d \in IpcConns : icn'[d].st = icn[d].st
    BY DEF Answered
  <1>7. x.n = icl[k].n /\ c \in addressed[k] /\ icl[k].wait /\ Conns(k) # {}
    BY <1>1, <1>3 DEF RefOK, Answered
  <1>8. RefOK(k)'
    <2>1. icl'[k].wait <=> Conns(k)' # {}
      BY <1>2, <1>5, <1>7
    <2>2. \A d \in IpcConns : \A y \in CmdRec : Has(d, y)' /\ y.client = k =>
            y.n = icl'[k].n /\ (y.isgroup <=> grp'[k].ref > 0) /\ d \in addressed'[k]
      BY <1>1, <1>2, <1>3 DEF RefOK
    <2>3. /\ grp'[k].ref > 0 => grp'[k].ref = Cardinality(Conns(k)')
          /\ grp'[k].ref # 0
      BY <1>1, <1>2, <1>5
    <2>4. icl'[k].st = "gone" /\ icl'[k].wait => \A d \in IpcConns : icn'[d].st = "gone"
      BY <1>1, <1>2, <1>6 DEF RefOK
    <2> QED BY <2>1, <2>2, <2>3, <2>4 DEF RefOK
  <1>9. SaidOK(k)'
    <2>0. \A d, n, o : Said(d, k, n, o)' <=> Said(d, k, n, o)
      BY <1>2 DEF Said
    <2>1. /\ \A d \in IpcConns, n \in Nat, o \in BOOLEAN :
               Said(d, k, n, o)' => icl'[k].wait /\ n = icl'[k].n
          /\ ~icl'[k].wait => addressed'[k] = {}
      BY <1>1, <1>2, <2>0 DEF SaidOK
    <2>2. ASSUME grp'[k].error = FALSE, NEW d \in addressed[k] \ Conns(k)'
          PROVE  Said(d, k, icl[k].n, TRUE)
      <3>1. grp[k].error = FALSE /\ ok = TRUE
        BY <1>1, <1>2, <2>2
      <3>2. CASE d = c
        BY <1>7, <3>1, <3>2 DEF Answered
      <3>3. CASE d # c
        BY <1>1, <1>3, <3>1, <3>3 DEF SaidOK
      <3> QED BY <3>2, <3>3
    <2>3. ASSUME grp'[k].error = TRUE
          PROVE  \E d \in addressed[k] \ Conns(k)' :
                   ~Said(d, k, icl[k].n, TRUE) \/ icn[d].st = "gone"
      <3>1. CASE ok = FALSE
        BY <1>3, <1>7, <3>1 DEF Answered
      <3>2. CASE ok = TRUE
        <4>1. grp[k].error = TRUE
          BY <1>2, <2>3, <3>2
        <4> QED BY <1>1, <1>3, <4>1 DEF SaidOK
      <3> QED BY <3>1, <3>2
    <2>4. grp'[k].error = FALSE =>
            \A d \in addressed'[k] \ Conns(k)' : Said(d, k, icl[k].n, TRUE)'
      BY <1>2, <2>0, <2>2
    <2>5. grp'[k].error = TRUE =>
            \E d \in addressed'[k] \ Conns(k)' :
              ~Said(d, k, icl[k].n, TRUE)' \/ icn'[d].st = "gone"
      BY <1>1, <1>2, <1>6, <2>0, <2>3
    <2> QED BY <2>1, <2>4, <2>5 DEF SaidOK
  <1> QED BY <1>8, <1>9 DEF ClientOK

LEMMA EndedClient ==
  ASSUME IpcInv, NEW c \in IpcConns, NEW x \in CmdRec, NEW ok \in BOOLEAN, Answered(c, x, ok),
         NEW e \in BOOLEAN, Ended(c, x.client, ok, e)
  PROVE  ClientOK(x.client)'
  <1> DEFINE k == x.client
  <1>1. k \in IpcClients /\ IpcTypes
    BY DEF CmdRec, IpcInv
  <1>2. /\ icl'[k].wait = FALSE /\ addressed'[k] = {} /\ grp'[k].ref = 0 /\ grp'[k].error = FALSE
        /\ \A d \in IpcConns, n \in Nat, o \in BOOLEAN : ~Said(d, k, n, o)'
    <2>1. EndsClient(k)
      BY <1>1, EndedIs
    <2> QED BY <1>1, <2>1 DEF EndsClient
  <1>3. Conns(k)' = {}
    BY ConnsLeft DEF Ended
  <1>4. \A d \in IpcConns : \A y \in CmdRec : ~(Has(d, y)' /\ y.client = k)
    BY <1>3 DEF Conns
  <1>5. RefOK(k)'
    BY <1>2, <1>3, <1>4 DEF RefOK
  <1>6. SaidOK(k)'
    BY <1>2 DEF SaidOK
  <1> QED BY <1>5, <1>6 DEF ClientOK

LEMMA AnsweredRun ==
  ASSUME IpcInv, NEW c \in IpcConns, NEW x \in CmdRec, NEW ok \in BOOLEAN, Answered(c, x, ok)
  PROVE  RunInv'
  <1>1. x.client \in IpcClients /\ IpcTypes /\ run \in Seq(Frames) /\ RunInv
    BY DEF CmdRec, IpcInv, IpcTypes
  <1>2. \A d \in IpcConns : icn'[d].st = icn[d].st
    BY DEF Answered
  <1>3. \A d \in IpcConns : icn'[d].cmds # <<>> => icn[d].cmds # <<>>
    <2>1. icn[c].cmds # <<>>
      BY EmptyList DEF Answered, Has
    <2> QED BY <2>1 DEF Answered
  <1>4. \A k \in IpcClients : \A i \in 1..Len(run) : run[i] # InputLoop(k)
    BY DEF Answered, NoInputLoop
  <1>5. CASE run' = run
    BY <1>1, <1>2, <1>3, <1>4, <1>5 DEF RunInv
  <1>6. ASSUME NEW k \in IpcClients, icl[k].st = "open", icl'[k].st = icl[k].st,
               run' = <<InputLoop(k)>> \o run
        PROVE  RunInv'
    <2> DEFINE f == InputLoop(k)
               r == <<f>> \o run
    <2>1. f \in Frames /\ \A d \in IpcConns : f # DestroyLoop(d)
      BY FrameIs
    <2>2. /\ Len(r) = Len(run) + 1
          /\ \A y : Contains(r, y) <=> Contains(run, y) \/ y = f
      BY <1>1, <2>1, ConsList
    <2>3. \A i \in 1..Len(r) : i # 1 => i - 1 \in 1..Len(run) /\ r[i] = run[i - 1]
      BY <1>1, <2>1
    <2>4. r[1] = f
      BY <1>1, <2>1
    <2>5. run' = r
      BY <1>6
    <2> HIDE DEF f, r
    <2>6. ASSUME NEW j \in IpcClients, NEW i \in 1..Len(r), r[i] = InputLoop(j)
          PROVE  i = 1 /\ icl'[j].st = "open"
      <3>1. i = 1
        BY <1>4, <2>3, <2>6
      <3>2. j = k
        BY <2>4, <2>6, <3>1, FrameIs DEF f
      <3> QED BY <1>6, <3>1, <3>2
    <2>7. \A d \in IpcConns : Contains(r, DestroyLoop(d)) <=> Contains(run, DestroyLoop(d))
      BY <2>1, <2>2
    <2> QED BY <1>1, <1>2, <1>3, <2>5, <2>6, <2>7 DEF RunInv
  <1>7. CASE Counted(x.client, ok)
    BY <1>5, <1>7 DEF Counted
  <1>8. ASSUME NEW e \in BOOLEAN, Ended(c, x.client, ok, e) PROVE RunInv'
    <2>1. EndsClient(x.client)
      BY <1>1, <1>8, EndedIs
    <2> QED BY <1>1, <1>5, <1>6, <2>1 DEF EndsClient
  <1> QED BY <1>7, <1>8, AnsweredIs

LEMMA AnsweredInv ==
  ASSUME IpcInv, IpcTypes', NEW c \in IpcConns, NEW x \in CmdRec, NEW ok \in BOOLEAN,
         Answered(c, x, ok)
  PROVE  IpcInv'
  <1>1. RunInv' /\ \A d \in IpcConns : ConnOK(d)'
    BY AnsweredRun, AnsweredConns
  <1>2. \A j \in IpcClients : j # x.client => ClientOK(j)'
    BY AnsweredOthers
  <1>3. ClientOK(x.client)' /\ IpcAnswerTrue'
    <2>1. CASE Counted(x.client, ok)
      <3>1. wrong' = wrong
        BY <2>1 DEF Counted
      <3> QED BY <2>1, <3>1, CountedClient DEF IpcInv, IpcAnswerTrue
    <2>2. ASSUME NEW e \in BOOLEAN, Ended(c, x.client, ok, e)
          PROVE  ClientOK(x.client)' /\ IpcAnswerTrue'
      BY <2>2, EndedClient, ToldTrue
    <2> QED BY <2>1, <2>2, AnsweredIs
  <1> QED BY <1>1, <1>2, <1>3 DEF IpcInv

-----------------------------------------------------------------------------
(* The types.                                                              *)

LEMMA ClientFields ==
  ASSUME NEW r \in IpcClientRec
  PROVE  /\ r.st \in {"open", "gone"} /\ r.buf \in Seq(Targets) /\ r.wait \in BOOLEAN
         /\ r.n \in Nat /\ r.eof \in BOOLEAN
         /\ \A st \in {"open", "gone"} : [r EXCEPT !.st = st] \in IpcClientRec
         /\ \A b \in BOOLEAN : [r EXCEPT !.wait = b] \in IpcClientRec
         /\ \A b \in BOOLEAN : [r EXCEPT !.eof = b] \in IpcClientRec
         /\ \A buf \in Seq(Targets) : [r EXCEPT !.buf = buf] \in IpcClientRec
  BY DEF IpcClientRec

LEMMA IpcConnFields ==
  ASSUME NEW r \in IpcConnRec
  PROVE  /\ r.st \in {"none", "open", "gone"} /\ r.cmds \in Seq(CmdRec) /\ r.tag \in Nat
         /\ \A st \in {"none", "open", "gone"} : [r EXCEPT !.st = st] \in IpcConnRec
         /\ \A b \in BOOLEAN : [r EXCEPT !.hs = b] \in IpcConnRec
         /\ \A cmds \in Seq(CmdRec) : [r EXCEPT !.cmds = cmds] \in IpcConnRec
  BY DEF IpcConnRec

LEMMA GroupTypes ==
  ASSUME IpcTypes, NEW x \in CmdRec, NEW ok \in BOOLEAN, Callback(x, ok)
  PROVE  /\ icl' \in [IpcClients -> IpcClientRec]
         /\ grp' \in [IpcClients -> [ref : Nat, error : BOOLEAN]]
         /\ run' \in Seq(Frames) /\ addressed' \in [IpcClients -> SUBSET IpcConns]
  <1> DEFINE k == x.client
             G == [ref : Nat, error : BOOLEAN]
  <1>1. /\ k \in IpcClients /\ icl \in [IpcClients -> IpcClientRec] /\ run \in Seq(Frames)
        /\ grp \in [IpcClients -> G] /\ addressed \in [IpcClients -> SUBSET IpcConns]
    BY DEF IpcTypes, CmdRec
  <1>2. ASSUME NEW e, client_cmd_input(k, e)
        PROVE  /\ icl' \in [IpcClients -> IpcClientRec] /\ run' \in Seq(Frames)
               /\ addressed' \in [IpcClients -> SUBSET IpcConns]
    <2>1. /\ icl' = [icl EXCEPT ![k].wait = FALSE]
          /\ run' = IF icl[k].st = "open" THEN <<InputLoop(k)>> \o run ELSE run
          /\ addressed' = [addressed EXCEPT ![k] = {}]
      BY <1>2 DEF client_cmd_input
    <2>2. icl' \in [IpcClients -> IpcClientRec]
      <3>1. [icl[k] EXCEPT !.wait = FALSE] \in IpcClientRec
        BY <1>1, ClientFields
      <3> QED BY <1>1, <2>1, <3>1
    <2>3. run' \in Seq(Frames)
      <3>1. InputLoop(k) \in Frames
        BY <1>1 DEF Frames
      <3>2. <<InputLoop(k)>> \o run \in Seq(Frames)
        BY <1>1, <3>1, ConsList
      <3> QED BY <1>1, <2>1, <3>2
    <2> QED BY <1>1, <2>1, <2>2, <2>3
  <1>3. NoGrp \in G
    BY DEF NoGrp
  <1>4. grp[k].ref > 1 => [ref |-> grp[k].ref - 1, error |-> GroupError(k, ok)] \in G
    <2>1. grp[k] \in G
      BY <1>1
    <2>2. grp[k].ref \in Nat /\ GroupError(k, ok) \in BOOLEAN
      BY <2>1 DEF GroupError
    <2> DEFINE m == grp[k].ref
               b == GroupError(k, ok)
    <2>3. m > 1 => m - 1 \in Nat
      BY <2>2
    <2> HIDE DEF m, b
    <2>4. m > 1 => [ref |-> m - 1, error |-> b] \in G
      BY <2>2, <2>3 DEF b
    <2> QED BY <2>4 DEF m, b
  <1> HIDE DEF G
  <1>5. CASE x.isgroup /\ grp[k].ref > 1
    <2>1. /\ grp' = [grp EXCEPT ![k] = [ref |-> grp[k].ref - 1, error |-> GroupError(k, ok)]]
          /\ UNCHANGED <<icl, run, history>>
      BY <1>5 DEF Callback, ipc_group_cmd_callback
    <2>2. grp' \in [IpcClients -> G]
      BY <1>1, <1>4, <1>5, <2>1
    <2> QED BY <1>1, <2>1, <2>2 DEF history, G
  <1>6. CASE x.isgroup /\ ~(grp[k].ref > 1)
    <2>1. grp' = [grp EXCEPT ![k] = NoGrp] /\ client_cmd_input(k, ~GroupError(k, ok))
      BY <1>6 DEF Callback, ipc_group_cmd_callback
    <2>2. grp' \in [IpcClients -> G]
      BY <1>1, <1>3, <2>1
    <2> QED BY <1>2, <2>1, <2>2 DEF G
  <1>7. CASE ~x.isgroup
    <2>1. grp' = grp /\ client_cmd_input(k, ok)
      BY <1>7 DEF Callback
    <2> QED BY <1>1, <1>2, <2>1 DEF G
  <1> QED BY <1>5, <1>6, <1>7

-----------------------------------------------------------------------------
(* The steps that answer a command.                                        *)

\* Command x is taken off the list of a connection.
LEMMA Unlinked ==
  ASSUME IpcTypes, NEW c \in IpcConns, NEW t \in Seq(CmdRec),
         icn' = [icn EXCEPT ![c].cmds = t]
  PROVE  /\ icn' \in [IpcConns -> IpcConnRec] /\ icn'[c].cmds = t
         /\ icn'[c].st = icn[c].st /\ icn'[c].tag = icn[c].tag
         /\ \A d \in IpcConns \ {c} : icn'[d] = icn[d]
  <1>1. icn \in [IpcConns -> IpcConnRec] /\ icn[c] \in IpcConnRec
    BY DEF IpcTypes
  <1>2. [icn[c] EXCEPT !.cmds = t] \in IpcConnRec
    BY <1>1, IpcConnFields
  <1>3. icn'[c] = [icn[c] EXCEPT !.cmds = t]
    BY <1>1
  <1>4. icn'[c].cmds = t /\ icn'[c].st = icn[c].st /\ icn'[c].tag = icn[c].tag
    BY <1>1, <1>3 DEF IpcConnRec
  <1>5. icn' \in [IpcConns -> IpcConnRec]
    BY <1>1, <1>2
  <1> QED BY <1>1, <1>4, <1>5

LEMMA InputLineInv ==
  ASSUME IpcInv, NEW c \in IpcConns, ipc_connection_input_line(c)
  PROVE  IpcInv'
  <1> DEFINE line == Head(from[c])
             s == icn[c].cmds
             i == ipc_connection_cmd_find(s, line.tag)
             x == s[i]
  <1>1. IpcTypes /\ icn[c] \in IpcConnRec /\ from[c] \in Seq(LineRec) /\ s \in Seq(CmdRec)
        /\ from \in [IpcConns -> Seq(LineRec)] /\ CmdsOK(c) /\ FromOK(c)
    BY IpcConnFields DEF IpcInv, IpcTypes, ConnOK
  <1>2. /\ run = <<>> /\ icn[c].st = "open" /\ from[c] # <<>>
        /\ from' = [from EXCEPT ![c] = Tail(from[c])] /\ work' = work
    BY <1>1 DEF ipc_connection_input_line
  <1>3. /\ Tail(from[c]) \in Seq(LineRec) /\ line \in LineRec /\ Distinct(Tail(from[c]))
        /\ Contains(from[c], line)
        /\ \A l : Contains(Tail(from[c]), l) <=> Contains(from[c], l) /\ l # line
    BY <1>1, <1>2, TailList DEF FromOK
  <1>4. LineOK(c, line) /\ line.ok \in BOOLEAN
    BY <1>1, <1>3 DEF FromOK, LineRec
  <1>5. PICK y \in CmdRec :
            /\ Has(c, y) /\ y.tag = line.tag /\ y \notin work[c]
            /\ Said(c, y.client, y.n, line.ok)
            /\ \A ok \in BOOLEAN : Said(c, y.client, y.n, ok) => ok = line.ok
    BY <1>4 DEF LineOK
  <1>6. i \in 1..Len(s) /\ x.tag = line.tag
    <2>1. \/ i = 0 /\ \A z : Contains(s, z) => z.tag # line.tag
          \/ i \in 1..Len(s) /\ s[i].tag = line.tag
      BY <1>1, FindIs
    <2> QED BY <1>5, <2>1 DEF Has
  <1>7. x \in CmdRec /\ Has(c, x)
    BY <1>1, <1>6 DEF Has, Contains
  <1>8. x = y
    BY <1>1, <1>5, <1>6, <1>7 DEF CmdsOK
  <1>9. icn' = [icn EXCEPT ![c].cmds = RemoveAt(s, i)] /\ Callback(x, line.ok)
    BY <1>6 DEF ipc_connection_input_line
  <1>10. /\ RemoveAt(s, i) \in Seq(CmdRec) /\ Distinct(RemoveAt(s, i))
         /\ \A z : Contains(RemoveAt(s, i), z) <=> Contains(s, z) /\ z # x
    BY <1>1, <1>6, RemoveAtList DEF CmdsOK
  <1> DEFINE t == RemoveAt(s, i)
             ok == line.ok
             u == Tail(from[c])
  <1>11. /\ icn' \in [IpcConns -> IpcConnRec] /\ icn'[c].cmds = t
         /\ icn'[c].st = icn[c].st /\ icn'[c].tag = icn[c].tag
         /\ \A d \in IpcConns \ {c} : icn'[d] = icn[d]
    BY <1>1, <1>9, <1>10, Unlinked
  <1>12. from' \in [IpcConns -> Seq(LineRec)] /\ from'[c] = u
         /\ \A d \in IpcConns \ {c} : from'[d] = from[d]
    BY <1>1, <1>2, <1>3
  <1> HIDE DEF t, u, x, s, i, line, ok
  <1>13. IpcTypes'
    <2>1. /\ icl' \in [IpcClients -> IpcClientRec]
          /\ grp' \in [IpcClients -> [ref : Nat, error : BOOLEAN]]
          /\ run' \in Seq(Frames) /\ addressed' \in [IpcClients -> SUBSET IpcConns]
      BY <1>1, <1>4, <1>7, <1>9, GroupTypes DEF ok
    <2> QED BY <1>1, <1>2, <1>11, <1>12, <2>1 DEF IpcTypes
  <1>14. Answered(c, x, ok)
    <2>1. \A l \in LineRec : Contains(u, l) => Contains(from[c], l) /\ l.tag # x.tag
      BY <1>1, <1>3, <1>6 DEF FromOK, u
    <2>2. \A z \in CmdRec : Has(c, z)' <=> Has(c, z) /\ z # x
      BY <1>10, <1>11 DEF Has, t, s
    <2>3. ok = TRUE => Said(c, x.client, x.n, TRUE)
      BY <1>5, <1>8 DEF ok
    <2>4. ok = FALSE => ~Said(c, x.client, x.n, TRUE)
      BY <1>5, <1>8 DEF ok
    <2>5. NoInputLoop
      BY <1>2 DEF NoInputLoop
    <2>6. Distinct(icn'[c].cmds) /\ Distinct(from'[c]) /\ from[c] # <<>> /\ x \notin work[c]
      BY <1>2, <1>3, <1>5, <1>8, <1>10, <1>11, <1>12 DEF t, u
    <2> QED BY <1>2, <1>7, <1>9, <1>11, <1>12, <2>1, <2>2, <2>3, <2>4, <2>5, <2>6
        DEF Answered, ok
  <1> QED BY <1>4, <1>7, <1>13, <1>14, AnsweredInv DEF ok

LEMMA CmdFreeInv ==
  ASSUME IpcInv, NEW c \in IpcConns, ipc_connection_cmd_free(c)
  PROVE  IpcInv'
  <1> DEFINE s == icn[c].cmds
             x == Head(s)
             t == Tail(s)
  <1>1. IpcTypes /\ icn[c] \in IpcConnRec /\ s \in Seq(CmdRec) /\ CmdsOK(c) /\ FromOK(c) /\ RunInv
        /\ run \in Seq(Frames)
    BY IpcConnFields DEF IpcInv, IpcTypes, ConnOK
  <1>2. /\ run # <<>> /\ Head(run) = DestroyLoop(c) /\ s # <<>>
        /\ icn' = [icn EXCEPT ![c].cmds = t] /\ Callback(x, FALSE)
        /\ from' = from /\ work' = work
    BY <1>1 DEF ipc_connection_cmd_free, Top
  <1>3. run[1] = DestroyLoop(c) /\ 1 \in 1..Len(run)
    BY <1>1, <1>2
  <1>4. icn[c].st = "gone" /\ work[c] = {} /\ from[c] = <<>>
    <2>1. Contains(run, DestroyLoop(c))
      BY <1>3 DEF Contains
    <2>2. icn[c].st = "gone"
      BY <1>1, <2>1 DEF RunInv
    <2> QED BY <1>1, <2>2 DEF FromOK
  <1>5. NoInputLoop
    <2> SUFFICES ASSUME NEW k \in IpcClients, NEW i \in 1..Len(run), run[i] = InputLoop(k)
                 PROVE  FALSE
      BY DEF NoInputLoop
    <2>1. i = 1
      BY <1>1 DEF RunInv
    <2> QED BY <1>3, <2>1, FrameIs
  <1>6. /\ t \in Seq(CmdRec) /\ x \in CmdRec /\ Distinct(t) /\ Contains(s, x)
        /\ \A z : Contains(t, z) <=> Contains(s, z) /\ z # x
    BY <1>1, <1>2, TailList DEF CmdsOK
  <1>7. /\ icn' \in [IpcConns -> IpcConnRec] /\ icn'[c].cmds = t
        /\ icn'[c].st = icn[c].st /\ icn'[c].tag = icn[c].tag
        /\ \A d \in IpcConns \ {c} : icn'[d] = icn[d]
    BY <1>1, <1>2, <1>6, Unlinked
  <1> HIDE DEF s, t, x
  <1>8. IpcTypes'
    <2>1. /\ icl' \in [IpcClients -> IpcClientRec]
          /\ grp' \in [IpcClients -> [ref : Nat, error : BOOLEAN]]
          /\ run' \in Seq(Frames) /\ addressed' \in [IpcClients -> SUBSET IpcConns]
      BY <1>1, <1>2, <1>6, GroupTypes
    <2> QED BY <1>1, <1>2, <1>7, <2>1 DEF IpcTypes
  <1>9. Answered(c, x, FALSE)
    <2>1. \A z \in CmdRec : Has(c, z)' <=> Has(c, z) /\ z # x
      BY <1>6, <1>7 DEF Has, s
    <2>2. Has(c, x)
      BY <1>6 DEF Has, s
    <2>3. \A l \in LineRec : ~Contains(from'[c], l)
      BY <1>2, <1>4, EmptyList
    <2>4. Distinct(from'[c]) /\ Distinct(icn'[c].cmds)
      BY <1>2, <1>4, <1>6, <1>7, EmptyList
    <2> QED BY <1>2, <1>4, <1>5, <1>7, <2>1, <2>2, <2>3, <2>4 DEF Answered
  <1> QED BY <1>6, <1>8, <1>9, AnsweredInv

-----------------------------------------------------------------------------
(* The other steps.                                                        *)

LEMMA KeptInv ==
  ASSUME IpcInv, IpcTypes', RunInv', wrong' = wrong,
         \A c \in IpcConns : KeepsConn(c), \A k \in IpcClients : KeepsClient(k)
  PROVE  IpcInv'
  <1>1. \A c \in IpcConns : ConnOK(c)'
    BY SameConn DEF IpcInv
  <1>2. \A k \in IpcClients : ClientOK(k)'
    BY SameClient DEF IpcInv
  <1> QED BY <1>1, <1>2 DEF IpcInv, IpcAnswerTrue

\* A step that changes neither commands nor answers.
Quiet ==
  /\ UNCHANGED <<grp, from, work, addressed, said, wrong>>
  /\ \A c \in IpcConns : icn'[c].cmds = icn[c].cmds /\ icn'[c].tag = icn[c].tag
  /\ \A k \in IpcClients : icl'[k].wait = icl[k].wait /\ icl'[k].n = icl[k].n

LEMMA QuietKeeps ==
  ASSUME IpcInv, Quiet, IpcTypes', RunInv',
         \A c \in IpcConns : icn'[c].st = icn[c].st,
         \A k \in IpcClients : icl'[k].st = icl[k].st \/ ~icl[k].wait
  PROVE  IpcInv'
  <1>1. \A c \in IpcConns : \A x : Has(c, x)' <=> Has(c, x)
    BY DEF Quiet, Has
  <1>2. \A c, k, n, ok : Said(c, k, n, ok)' <=> Said(c, k, n, ok)
    BY DEF Quiet, Said
  <1>3. \A c \in IpcConns : KeepsConn(c)
    BY <1>2 DEF KeepsConn, Quiet
  <1>4. \A k \in IpcClients : KeepsClient(k)
    BY <1>1, <1>2 DEF KeepsClient, Quiet
  <1> QED BY <1>3, <1>4, KeptInv DEF Quiet

\* The innermost loop ends.
LEMMA LoopEnds ==
  ASSUME IpcInv, run # <<>>, run' = Tail(run),
         \A c \in IpcConns : icn'[c] = icn[c],
         \A c \in IpcConns : Head(run) = DestroyLoop(c) => icn[c].cmds = <<>>
  PROVE  RunInv' /\ run' \in Seq(Frames)
  <1>1. run \in Seq(Frames) /\ RunInv
    BY DEF IpcInv, IpcTypes
  <1> DEFINE t == Tail(run)
             h == Head(run)
  <1>2. /\ t \in Seq(Frames) /\ h = run[1] /\ 1 \in 1..Len(run)
        /\ \A i \in 1..Len(t) : i + 1 \in 1..Len(run) /\ t[i] = run[i + 1] /\ i + 1 # 1
    BY <1>1
  <1>3. \A i \in 1..Len(run) : i # 1 => i - 1 \in 1..Len(t) /\ t[i - 1] = run[i]
    BY <1>1
  <1> HIDE DEF t, h
  <1>4. ASSUME NEW k \in IpcClients, NEW i \in 1..Len(t) PROVE t[i] # InputLoop(k)
    BY <1>1, <1>2 DEF RunInv
  <1>5. ASSUME NEW c \in IpcConns, Contains(t, DestroyLoop(c)) PROVE Contains(run, DestroyLoop(c))
    <2>1. PICK i \in 1..Len(t) : t[i] = DestroyLoop(c)
      BY <1>5 DEF Contains
    <2> QED BY <1>2, <2>1 DEF Contains
  <1>6. ASSUME NEW c \in IpcConns, Contains(run, DestroyLoop(c)), h # DestroyLoop(c)
        PROVE  Contains(t, DestroyLoop(c))
    <2>1. PICK i \in 1..Len(run) : run[i] = DestroyLoop(c)
      BY <1>6 DEF Contains
    <2>2. i # 1
      BY <1>2, <1>6, <2>1
    <2> QED BY <1>3, <2>1, <2>2 DEF Contains
  <1>7. ASSUME NEW c \in IpcConns
        PROVE  /\ Contains(t, DestroyLoop(c)) => icn[c].st = "gone"
               /\ icn[c].st = "gone" /\ icn[c].cmds # <<>> => Contains(t, DestroyLoop(c))
    BY <1>1, <1>5, <1>6 DEF RunInv, h
  <1>8. run' = t
    BY DEF t
  <1> QED BY <1>2, <1>4, <1>7, <1>8 DEF RunInv

LEMMA InputEndInv ==
  ASSUME IpcInv, NEW k \in IpcClients, ClientInputEnd(k)
  PROVE  IpcInv'
  <1>1. /\ run # <<>> /\ Head(run) = InputLoop(k) /\ run' = Tail(run)
        /\ icl' = IF icl[k].eof /\ ~icl[k].wait THEN [icl EXCEPT ![k].st = "gone"] ELSE icl
        /\ UNCHANGED <<icn, grp, from, work, addressed, said, wrong>>
    BY DEF ClientInputEnd, Top, history
  <1>2. IpcTypes /\ icl \in [IpcClients -> IpcClientRec]
    BY DEF IpcInv, IpcTypes
  <1>3. icl' \in [IpcClients -> IpcClientRec]
    BY <1>1, <1>2, ClientFields
  <1>4. \A j \in IpcClients : /\ icl'[j].wait = icl[j].wait /\ icl'[j].n = icl[j].n
                              /\ icl'[j].st = icl[j].st \/ ~icl[j].wait
    BY <1>1, <1>2 DEF IpcClientRec
  <1>5. RunInv' /\ run' \in Seq(Frames)
    BY <1>1, FrameIs, LoopEnds
  <1>6. IpcTypes'
    BY <1>1, <1>2, <1>3, <1>5 DEF IpcTypes
  <1>7. Quiet
    BY <1>1, <1>4 DEF Quiet
  <1> QED BY <1>1, <1>4, <1>5, <1>6, <1>7, QuietKeeps

LEMMA DestroyEndInv ==
  ASSUME IpcInv, NEW c \in IpcConns, ConnectionDestroyEnd(c)
  PROVE  IpcInv'
  <1>1. /\ run # <<>> /\ Head(run) = DestroyLoop(c) /\ run' = Tail(run) /\ icn[c].cmds = <<>>
        /\ UNCHANGED <<icl, icn, grp, from, work, addressed, said, wrong>>
    BY DEF ConnectionDestroyEnd, Top, history
  <1>2. \A d \in IpcConns : Head(run) = DestroyLoop(d) => icn[d].cmds = <<>>
    BY <1>1, FrameIs
  <1>3. RunInv' /\ run' \in Seq(Frames)
    BY <1>1, <1>2, LoopEnds
  <1>4. IpcTypes'
    BY <1>1, <1>3 DEF IpcTypes, IpcInv
  <1>5. Quiet
    BY <1>1 DEF Quiet
  <1> QED BY <1>1, <1>3, <1>4, <1>5, QuietKeeps

\* With no loop in progress, what a connection that is gone was asked is answered.
LEMMA NoLoops ==
  ASSUME IpcInv, run = <<>>
  PROVE  \A c \in IpcConns : icn[c].st = "gone" => icn[c].cmds = <<>>
  BY EmptyList DEF IpcInv, RunInv

LEMMA ClientInputInv ==
  ASSUME IpcInv, NEW k \in IpcClients, ClientInput(k)
  PROVE  IpcInv'
  <1>1. /\ run = <<>> /\ icl[k].st = "open" /\ run' = <<InputLoop(k)>>
        /\ UNCHANGED <<icl, icn, grp, from, work, addressed, said, wrong>>
    BY DEF ClientInput, history
  <1> DEFINE f == InputLoop(k)
             r == <<f>>
  <1>2. f \in Frames /\ \A d \in IpcConns : f # DestroyLoop(d)
    BY FrameIs
  <1>3. r \in Seq(Frames) /\ Len(r) = 1 /\ r[1] = f
    BY <1>2
  <1>4. run' = r
    BY <1>1
  <1>5. \A j \in IpcClients : f = InputLoop(j) => j = k
    BY FrameIs
  <1> HIDE DEF f, r
  <1>6. \A d \in IpcConns : ~Contains(r, DestroyLoop(d))
    BY <1>2, <1>3 DEF Contains
  <1>7. RunInv'
    BY <1>1, <1>3, <1>4, <1>5, <1>6, NoLoops DEF RunInv
  <1>8. IpcTypes'
    BY <1>1, <1>3, <1>4 DEF IpcTypes, IpcInv
  <1>9. Quiet
    BY <1>1 DEF Quiet
  <1> QED BY <1>1, <1>7, <1>8, <1>9, QuietKeeps

LEMMA IpcHandshakeInv ==
  ASSUME IpcInv, NEW c \in IpcConns, Handshake(c)
  PROVE  IpcInv'
  <1>1. /\ icn' = [icn EXCEPT ![c].hs = TRUE]
        /\ UNCHANGED <<icl, grp, run, from, work, addressed, said, wrong>>
    BY DEF Handshake, history
  <1>2. IpcTypes /\ icn \in [IpcConns -> IpcConnRec] /\ RunInv
    BY DEF IpcInv, IpcTypes
  <1>3. icn' \in [IpcConns -> IpcConnRec]
    BY <1>1, <1>2, IpcConnFields
  <1>4. \A d \in IpcConns : /\ icn'[d].cmds = icn[d].cmds /\ icn'[d].tag = icn[d].tag
                            /\ icn'[d].st = icn[d].st
    BY <1>1, <1>2 DEF IpcConnRec
  <1>5. IpcTypes' /\ RunInv'
    BY <1>1, <1>2, <1>3, <1>4 DEF IpcTypes, RunInv
  <1>6. Quiet
    BY <1>1, <1>4 DEF Quiet
  <1> QED BY <1>1, <1>4, <1>5, <1>6, QuietKeeps

LEMMA SendCloseInv ==
  ASSUME IpcInv, NEW k \in IpcClients,
         (\E t \in Targets : ClientSend(k, t)) \/ ClientClose(k)
  PROVE  IpcInv'
  <1>1. IpcTypes /\ icl \in [IpcClients -> IpcClientRec] /\ icl[k] \in IpcClientRec /\ RunInv
    BY DEF IpcInv, IpcTypes
  <1>2. UNCHANGED <<icn, grp, run, from, work, addressed, said, wrong>>
    BY DEF ClientSend, ClientClose, history
  <1>3. /\ icl' \in [IpcClients -> IpcClientRec]
        /\ \A j \in IpcClients : /\ icl'[j].wait = icl[j].wait /\ icl'[j].n = icl[j].n
                                 /\ icl'[j].st = icl[j].st
    <2>1. ASSUME NEW t \in Targets, ClientSend(k, t) PROVE <1>3
      <3> DEFINE b == Append(icl[k].buf, t)
      <3>1. b \in Seq(Targets)
        <4>1. icl[k].buf \in Seq(Targets)
          BY <1>1, ClientFields
        <4> QED BY <4>1
      <3>2. icl' = [icl EXCEPT ![k].buf = b]
        BY <2>1 DEF ClientSend
      <3> HIDE DEF b
      <3>3. [icl[k] EXCEPT !.buf = b] \in IpcClientRec
        BY <1>1, <3>1, ClientFields
      <3>4. icl' \in [IpcClients -> IpcClientRec]
        BY <1>1, <3>2, <3>3
      <3>5. \A j \in IpcClients : /\ icl'[j].wait = icl[j].wait /\ icl'[j].n = icl[j].n
                                  /\ icl'[j].st = icl[j].st
        BY <1>1, <3>2 DEF IpcClientRec
      <3> QED BY <3>4, <3>5
    <2>2. CASE ClientClose(k)
      <3>1. icl' = [icl EXCEPT ![k].eof = TRUE]
        BY <2>2 DEF ClientClose
      <3>2. [icl[k] EXCEPT !.eof = TRUE] \in IpcClientRec
        BY <1>1, ClientFields
      <3>3. icl' \in [IpcClients -> IpcClientRec]
        BY <1>1, <3>1, <3>2
      <3>4. \A j \in IpcClients : /\ icl'[j].wait = icl[j].wait /\ icl'[j].n = icl[j].n
                                  /\ icl'[j].st = icl[j].st
        BY <1>1, <3>1 DEF IpcClientRec
      <3> QED BY <3>3, <3>4
    <2> QED BY <2>1, <2>2
  <1>4. IpcTypes' /\ RunInv'
    BY <1>1, <1>2, <1>3 DEF IpcTypes, RunInv
  <1>5. Quiet
    BY <1>2, <1>3 DEF Quiet
  <1> QED BY <1>2, <1>3, <1>4, <1>5, QuietKeeps

\* A connection with nothing under way is opened or goes.
LEMMA EmptiedConn ==
  ASSUME NEW c \in IpcConns, ConnOK(c), icn'[c].cmds = icn[c].cmds, icn'[c].tag = icn[c].tag,
         icn'[c].st # "none", work'[c] = {}, from'[c] = <<>>
  PROVE  ConnOK(c)'
  <1>1. \A x : Has(c, x)' <=> Has(c, x)
    BY DEF Has
  <1>2. CmdsOK(c)'
    BY <1>1 DEF ConnOK, CmdsOK
  <1>3. FromOK(c)'
    BY EmptyList DEF FromOK
  <1> QED BY <1>2, <1>3 DEF ConnOK

LEMMA CreateInv ==
  ASSUME IpcInv, NEW c \in IpcConns, ipc_connection_create(c)
  PROVE  IpcInv'
  <1>1. /\ icn[c].st = "none" /\ run = <<>> /\ icn' = [icn EXCEPT ![c].st = "open"]
        /\ UNCHANGED <<icl, grp, run, from, work, addressed, said, wrong>>
    BY DEF ipc_connection_create, history
  <1>2. IpcTypes /\ icn \in [IpcConns -> IpcConnRec] /\ icn[c] \in IpcConnRec /\ RunInv /\ ConnOK(c)
    BY DEF IpcInv, IpcTypes
  <1>3. icn' \in [IpcConns -> IpcConnRec]
    BY <1>1, <1>2, IpcConnFields
  <1>4. /\ \A d \in IpcConns : icn'[d].cmds = icn[d].cmds /\ icn'[d].tag = icn[d].tag
        /\ \A d \in IpcConns \ {c} : icn'[d].st = icn[d].st
        /\ icn'[c].st = "open"
    BY <1>1, <1>2 DEF IpcConnRec
  <1>5. IpcTypes'
    BY <1>1, <1>2, <1>3 DEF IpcTypes
  <1>6. RunInv'
    BY <1>1, <1>2, <1>4, EmptyList DEF RunInv
  <1>7. \A d \in IpcConns : \A x : Has(d, x)' <=> Has(d, x)
    BY <1>4 DEF Has
  <1>8. \A d, k, n, ok : Said(d, k, n, ok)' <=> Said(d, k, n, ok)
    BY <1>1 DEF Said
  <1>9. \A d \in IpcConns : ConnOK(d)'
    <2>1. ConnOK(c)'
      <3>1. work[c] = {} /\ from[c] = <<>>
        BY <1>1, <1>2 DEF ConnOK, FromOK
      <3> QED BY <1>1, <1>2, <1>4, <3>1, EmptiedConn
    <2>2. \A d \in IpcConns \ {c} : KeepsConn(d)
      BY <1>1, <1>4, <1>8 DEF KeepsConn
    <2> QED BY <2>1, <2>2, SameConn DEF IpcInv
  <1>10. \A k \in IpcClients : KeepsClient(k)
    BY <1>1, <1>4, <1>7, <1>8 DEF KeepsClient
  <1>11. \A k \in IpcClients : ClientOK(k)'
    BY <1>10, SameClient DEF IpcInv
  <1> QED BY <1>1, <1>5, <1>6, <1>9, <1>11 DEF IpcInv, IpcAnswerTrue

LEMMA DestroyStepInv ==
  ASSUME IpcInv, NEW c \in IpcConns, ipc_connection_destroy(c)
  PROVE  IpcInv'
  <1>1. /\ icn[c].st = "open" /\ run = <<>> /\ run' = <<DestroyLoop(c)>>
        /\ icn' = [icn EXCEPT ![c].st = "gone"]
        /\ from' = [from EXCEPT ![c] = <<>>] /\ work' = [work EXCEPT ![c] = {}]
        /\ UNCHANGED <<icl, grp, addressed, said, wrong>>
    BY DEF ipc_connection_destroy, history
  <1>2. /\ IpcTypes /\ icn \in [IpcConns -> IpcConnRec] /\ icn[c] \in IpcConnRec
        /\ from \in [IpcConns -> Seq(LineRec)] /\ work \in [IpcConns -> SUBSET CmdRec]
    BY DEF IpcInv, IpcTypes
  <1>3. icn' \in [IpcConns -> IpcConnRec]
    BY <1>1, <1>2, IpcConnFields
  <1>4. /\ \A d \in IpcConns : icn'[d].cmds = icn[d].cmds /\ icn'[d].tag = icn[d].tag
        /\ \A d \in IpcConns \ {c} : icn'[d].st = icn[d].st
        /\ icn'[c].st = "gone"
    BY <1>1, <1>2 DEF IpcConnRec
  <1>5. /\ from' \in [IpcConns -> Seq(LineRec)] /\ from'[c] = <<>>
        /\ \A d \in IpcConns \ {c} : from'[d] = from[d]
    <2> DEFINE e == <<>>
    <2>1. e \in Seq(LineRec)
      OBVIOUS
    <2>2. from' = [from EXCEPT ![c] = e]
      BY <1>1
    <2> HIDE DEF e
    <2>3. /\ from' \in [IpcConns -> Seq(LineRec)] /\ from'[c] = e
          /\ \A d \in IpcConns \ {c} : from'[d] = from[d]
      BY <1>2, <2>1, <2>2
    <2> QED BY <2>3 DEF e
  <1>6. /\ work' \in [IpcConns -> SUBSET CmdRec] /\ work'[c] = {}
        /\ \A d \in IpcConns \ {c} : work'[d] = work[d]
    BY <1>1, <1>2
  <1> DEFINE f == DestroyLoop(c)
             r == <<f>>
  <1>7. f \in Frames /\ \A k \in IpcClients : f # InputLoop(k)
    BY FrameIs
  <1>8. r \in Seq(Frames) /\ Len(r) = 1 /\ r[1] = f /\ run' = r
    BY <1>1, <1>7
  <1>9. \A d \in IpcConns : DestroyLoop(d) = f <=> d = c
    BY FrameIs
  <1> HIDE DEF f, r
  <1>10. \A d \in IpcConns : Contains(r, DestroyLoop(d)) <=> d = c
    BY <1>8, <1>9 DEF Contains
  <1>11. RunInv'
    BY <1>1, <1>4, <1>7, <1>8, <1>10, NoLoops DEF RunInv
  <1>12. IpcTypes'
    BY <1>1, <1>2, <1>3, <1>5, <1>6, <1>8 DEF IpcTypes
  <1>13. \A d \in IpcConns : \A x : Has(d, x)' <=> Has(d, x)
    BY <1>4 DEF Has
  <1>14. \A d, k, n, ok : Said(d, k, n, ok)' <=> Said(d, k, n, ok)
    BY <1>1 DEF Said
  <1>15. \A d \in IpcConns : ConnOK(d)'
    <2>1. ConnOK(c)'
      BY <1>4, <1>5, <1>6, EmptiedConn DEF IpcInv
    <2>2. \A d \in IpcConns \ {c} : KeepsConn(d)
      BY <1>4, <1>5, <1>6, <1>14 DEF KeepsConn
    <2> QED BY <2>1, <2>2, SameConn DEF IpcInv
  <1>16. \A k \in IpcClients : KeepsClient(k)
    BY <1>1, <1>4, <1>13, <1>14 DEF KeepsClient
  <1>17. \A k \in IpcClients : ClientOK(k)'
    BY <1>16, SameClient DEF IpcInv
  <1> QED BY <1>1, <1>11, <1>12, <1>15, <1>17 DEF IpcInv, IpcAnswerTrue

LEMMA ReadStopInv == ASSUME IpcInv, IpcStop PROVE IpcInv'
  <1> DEFINE F == {DestroyLoop(c) : c \in Open}
             r == SetToSeq(F)
  <1>1. /\ run = <<>> /\ run' = r
        /\ icl' = [k \in IpcClients |-> [icl[k] EXCEPT !.st = "gone"]]
        /\ icn' = [c \in IpcConns |-> [icn[c] EXCEPT !.st = "gone"]]
        /\ from' = [c \in IpcConns |-> <<>>] /\ work' = [c \in IpcConns |-> {}]
        /\ UNCHANGED <<grp, addressed, said, wrong>>
    BY DEF IpcStop, history
  <1>2. IpcTypes /\ icn \in [IpcConns -> IpcConnRec] /\ icl \in [IpcClients -> IpcClientRec]
    BY DEF IpcInv, IpcTypes
  <1>3. /\ icl' \in [IpcClients -> IpcClientRec]
        /\ \A k \in IpcClients : icl'[k].wait = icl[k].wait /\ icl'[k].n = icl[k].n
    <2>1. ASSUME NEW k \in IpcClients
          PROVE  /\ [icl[k] EXCEPT !.st = "gone"] \in IpcClientRec
                 /\ icl'[k].wait = icl[k].wait /\ icl'[k].n = icl[k].n
      <3>1. icl[k] \in IpcClientRec /\ icl'[k] = [icl[k] EXCEPT !.st = "gone"]
        BY <1>1, <1>2
      <3>2. [icl[k] EXCEPT !.st = "gone"] \in IpcClientRec
        BY <3>1, ClientFields
      <3>3. icl'[k].wait = icl[k].wait /\ icl'[k].n = icl[k].n
        BY <3>1 DEF IpcClientRec
      <3> QED BY <3>2, <3>3
    <2> QED BY <1>1, <2>1
  <1>4. /\ icn' \in [IpcConns -> IpcConnRec]
        /\ \A c \in IpcConns : /\ icn'[c].cmds = icn[c].cmds /\ icn'[c].tag = icn[c].tag
                               /\ icn'[c].st = "gone"
    <2>1. ASSUME NEW c \in IpcConns
          PROVE  /\ [icn[c] EXCEPT !.st = "gone"] \in IpcConnRec
                 /\ icn'[c].cmds = icn[c].cmds /\ icn'[c].tag = icn[c].tag
                 /\ icn'[c].st = "gone"
      <3>1. icn[c] \in IpcConnRec /\ icn'[c] = [icn[c] EXCEPT !.st = "gone"]
        BY <1>1, <1>2
      <3>2. [icn[c] EXCEPT !.st = "gone"] \in IpcConnRec
        BY <3>1, IpcConnFields
      <3>3. icn'[c].cmds = icn[c].cmds /\ icn'[c].tag = icn[c].tag /\ icn'[c].st = "gone"
        BY <3>1 DEF IpcConnRec
      <3> QED BY <3>2, <3>3
    <2> QED BY <1>1, <2>1
  <1>5. /\ from' \in [IpcConns -> Seq(LineRec)] /\ work' \in [IpcConns -> SUBSET CmdRec]
        /\ \A c \in IpcConns : from'[c] = <<>> /\ work'[c] = {}
    BY <1>1
  <1>6. IsFiniteSet(F)
    <2>1. IsFiniteSet(1..MaxConns)
      BY FS_Interval, IpcAssumption
    <2>2. IsFiniteSet(Open)
      <3>1. Open \subseteq 1..MaxConns
        BY DEF Open, IpcConns
      <3> QED BY <2>1, <3>1, FS_Subset
    <2> DEFINE g == [c \in Open |-> DestroyLoop(c)]
    <2>3. g \in Surjection(Open, F)
      BY DEF Surjection
    <2> HIDE DEF g, F
    <2> QED BY <2>2, <2>3, FS_Surjection
  <1>7. F \subseteq Frames /\ \A k \in IpcClients : InputLoop(k) \notin F
    BY FrameIs DEF Open
  <1>8. \A c \in IpcConns : DestroyLoop(c) \in F <=> icn[c].st = "open"
    BY FrameIs DEF Open
  <1> HIDE DEF F
  <1>9. r \in Seq(F) /\ \A x \in F : Contains(r, x)
    BY <1>6, ListOfSet
  <1> HIDE DEF r
  <1>10. r \in Seq(Frames) /\ \A i \in 1..Len(r) : r[i] \in F
    BY <1>7, <1>9
  <1>11. IpcTypes'
    BY <1>1, <1>2, <1>3, <1>4, <1>5, <1>10 DEF IpcTypes
  <1>12. \A c \in IpcConns : icn[c].cmds # <<>> => icn[c].st = "open"
    <2> SUFFICES ASSUME NEW c \in IpcConns, icn[c].cmds # <<>> PROVE icn[c].st = "open"
      OBVIOUS
    <2>1. icn[c].st \in {"none", "open", "gone"}
      BY <1>2, IpcConnFields
    <2>2. icn[c].st # "none"
      BY DEF IpcInv, ConnOK, CmdsOK
    <2>3. icn[c].st # "gone"
      BY <1>1, NoLoops
    <2> QED BY <2>1, <2>2, <2>3
  <1>13. RunInv'
    <2>1. \A k \in IpcClients : \A i \in 1..Len(r) : r[i] # InputLoop(k)
      BY <1>7, <1>10
    <2>2. \A c \in IpcConns : icn[c].cmds # <<>> => Contains(r, DestroyLoop(c))
      BY <1>8, <1>9, <1>12
    <2> QED BY <1>1, <1>4, <2>1, <2>2 DEF RunInv
  <1>14. \A d \in IpcConns : \A x : Has(d, x)' <=> Has(d, x)
    BY <1>4 DEF Has
  <1>15. \A d, k, n, ok : Said(d, k, n, ok)' <=> Said(d, k, n, ok)
    BY <1>1 DEF Said
  <1>16. \A d \in IpcConns : ConnOK(d)'
    BY <1>4, <1>5, EmptiedConn DEF IpcInv
  <1>17. \A k \in IpcClients : KeepsClient(k)
    BY <1>1, <1>3, <1>4, <1>14, <1>15 DEF KeepsClient
  <1>18. \A k \in IpcClients : ClientOK(k)'
    BY <1>17, SameClient DEF IpcInv
  <1> QED BY <1>1, <1>11, <1>13, <1>16, <1>18 DEF IpcInv, IpcAnswerTrue

\* A process answers: its answer is new, and that of no other command changes.
LEMMA WorkerAnswerInv ==
  ASSUME IpcInv, NEW c \in IpcConns, NEW cmd \in work[c], NEW ok \in BOOLEAN,
         WorkerAnswer(c, cmd, ok)
  PROVE  IpcInv'
  <1> DEFINE k == cmd.client
             line == [tag |-> cmd.tag, ok |-> ok]
             u == Append(from[c], line)
  <1>1. /\ IpcTypes /\ RunInv /\ work \in [IpcConns -> SUBSET CmdRec] /\ cmd \in CmdRec
        /\ from \in [IpcConns -> Seq(LineRec)] /\ from[c] \in Seq(LineRec)
        /\ CmdsOK(c) /\ FromOK(c) /\ work[c] \subseteq CmdRec
    BY DEF IpcInv, IpcTypes, ConnOK
  <1>2. /\ icn[c].st = "open" /\ work' = [work EXCEPT ![c] = work[c] \ {cmd}]
        /\ from' = [from EXCEPT ![c] = u]
        /\ said' = said \cup {<<c, k, cmd.n, ok>>}
        /\ UNCHANGED <<icl, icn, grp, run, addressed, wrong>>
    BY <1>1 DEF WorkerAnswer
  <1>3. /\ k \in IpcClients /\ cmd.n \in Nat /\ cmd.tag \in Nat /\ line \in LineRec
        /\ line.tag = cmd.tag /\ line.ok = ok
    BY <1>1 DEF CmdRec, LineRec
  <1> HIDE DEF line
  <1>4. \A x \in CmdRec : x.client \in IpcClients /\ x.n \in Nat
    BY DEF CmdRec
  <1>5. \A d, j, n, o : Said(d, j, n, o)' <=>
           Said(d, j, n, o) \/ (d = c /\ j = k /\ n = cmd.n /\ o = ok)
    BY <1>2 DEF Said
  <1>6. Has(c, cmd) /\ \A o \in BOOLEAN : ~Said(c, k, cmd.n, o)
    BY <1>1 DEF FromOK
  <1>7. \A d, x : Has(d, x)' <=> Has(d, x)
    BY <1>2 DEF Has
  <1>8. \A x \in CmdRec : Has(c, x) /\ x # cmd => x.client # k /\ x.tag # cmd.tag
    BY <1>1, <1>6 DEF CmdsOK
  <1>9. ASSUME NEW l \in LineRec, Contains(from[c], l)
        PROVE  l.tag # cmd.tag /\ LineOK(c, l)'
    <2>1. PICK y \in CmdRec :
             /\ Has(c, y) /\ y.tag = l.tag /\ y \notin work[c]
             /\ Said(c, y.client, y.n, l.ok)
             /\ \A o \in BOOLEAN : Said(c, y.client, y.n, o) => o = l.ok
      BY <1>1, <1>9 DEF FromOK, LineOK
    <2>2. y # cmd
      BY <2>1
    <2>3. y.client # k /\ l.tag # cmd.tag
      BY <1>8, <2>1, <2>2
    <2>4. /\ Has(c, y)' /\ y \notin work'[c] /\ Said(c, y.client, y.n, l.ok)'
          /\ \A o \in BOOLEAN : Said(c, y.client, y.n, o)' => o = l.ok
      BY <1>1, <1>2, <1>5, <1>7, <2>1, <2>3
    <2> QED BY <2>1, <2>3, <2>4 DEF LineOK
  <1>10. ~Contains(from[c], line)
    BY <1>3, <1>9
  <1>11. /\ u \in Seq(LineRec) /\ Distinct(u)
         /\ \A l : Contains(u, l) <=> Contains(from[c], l) \/ l = line
    BY <1>1, <1>3, <1>10, AppendList DEF FromOK
  <1> HIDE DEF u
  <1>12. /\ from' \in [IpcConns -> Seq(LineRec)] /\ from'[c] = u
         /\ \A d \in IpcConns \ {c} : from'[d] = from[d]
    BY <1>1, <1>2, <1>11
  <1>13. /\ work' \in [IpcConns -> SUBSET CmdRec] /\ work'[c] = work[c] \ {cmd}
         /\ \A d \in IpcConns \ {c} : work'[d] = work[d]
    BY <1>1, <1>2
  <1>14. IpcTypes' /\ RunInv'
    <2>1. IpcTypes'
      BY <1>1, <1>2, <1>12, <1>13 DEF IpcTypes
    <2>2. RunInv'
      BY <1>1, <1>2 DEF RunInv
    <2> QED BY <2>1, <2>2
  <1>15. CmdsOK(c)'
    BY <1>1, <1>2, <1>7 DEF CmdsOK
  <1>16. LineOK(c, line)'
    <2>1. /\ Has(c, cmd)' /\ cmd.tag = line.tag /\ cmd \notin work'[c]
          /\ Said(c, k, cmd.n, line.ok)'
          /\ \A o \in BOOLEAN : Said(c, k, cmd.n, o)' => o = line.ok
      BY <1>3, <1>5, <1>6, <1>7, <1>13
    <2> QED BY <1>1, <2>1 DEF LineOK
  <1>17. FromOK(c)'
    <2>1. icn'[c].st = "open"
      BY <1>2
    <2>2. ASSUME NEW x \in work'[c]
          PROVE  Has(c, x)' /\ \A o \in BOOLEAN : ~Said(c, x.client, x.n, o)'
      <3>1. x \in work[c] /\ x \in CmdRec /\ x # cmd
        BY <1>1, <1>13
      <3>2. Has(c, x) /\ \A o \in BOOLEAN : ~Said(c, x.client, x.n, o)
        BY <1>1, <3>1 DEF FromOK
      <3>3. x.client # k
        BY <1>8, <3>1, <3>2
      <3> QED BY <1>5, <1>7, <3>2, <3>3
    <2>3. \A l, m \in LineRec : Contains(u, l) /\ Contains(u, m) /\ l.tag = m.tag => l = m
      BY <1>1, <1>3, <1>9, <1>11 DEF FromOK
    <2>4. \A l \in LineRec : Contains(u, l) => LineOK(c, l)'
      BY <1>9, <1>11, <1>16
    <2> QED BY <1>11, <1>12, <2>1, <2>2, <2>3, <2>4 DEF FromOK
  <1>18. \A d \in IpcConns \ {c} : KeepsConn(d)
    BY <1>2, <1>5, <1>12, <1>13 DEF KeepsConn
  <1>19. \A d \in IpcConns : ConnOK(d)'
    <2>1. ConnOK(c)'
      BY <1>15, <1>17 DEF ConnOK
    <2> QED BY <1>18, <2>1, SameConn DEF IpcInv
  <1>20. \A j \in IpcClients \ {k} : KeepsClient(j)
    BY <1>2, <1>5, <1>7 DEF KeepsClient
  <1>21. ClientOK(k)'
    <2>1. RefOK(k) /\ SaidOK(k) /\ addressed[k] \subseteq IpcConns
      BY <1>1, <1>3 DEF IpcInv, ClientOK, IpcTypes
    <2>2. Conns(k)' = Conns(k) /\ c \in Conns(k)
      BY <1>1, <1>6, <1>7 DEF Conns
    <2>3. icl[k].wait /\ cmd.n = icl[k].n
      BY <1>1, <1>6, <2>1, <2>2 DEF RefOK
    <2>4. RefOK(k)'
      BY <1>2, <1>7, <2>1, <2>2 DEF RefOK
    <2>5. SaidOK(k)'
      <3>1. /\ \A d \in IpcConns, n \in Nat, o \in BOOLEAN :
                 Said(d, k, n, o)' => icl'[k].wait /\ n = icl'[k].n
            /\ ~icl'[k].wait => addressed'[k] = {}
        BY <1>2, <1>5, <2>1, <2>3 DEF SaidOK
      <3>2. grp'[k].error = FALSE =>
              \A d \in addressed'[k] \ Conns(k)' : Said(d, k, icl[k].n, TRUE)'
        BY <1>2, <1>5, <2>1, <2>2 DEF SaidOK
      <3>3. grp'[k].error = TRUE =>
              \E d \in addressed'[k] \ Conns(k)' :
                ~Said(d, k, icl[k].n, TRUE)' \/ icn'[d].st = "gone"
        BY <1>2, <1>5, <2>1, <2>2 DEF SaidOK
      <3> QED BY <3>1, <3>2, <3>3 DEF SaidOK
    <2> QED BY <2>4, <2>5 DEF ClientOK
  <1>22. \A j \in IpcClients : ClientOK(j)'
    BY <1>20, <1>21, SameClient DEF IpcInv
  <1> QED BY <1>2, <1>14, <1>19, <1>22 DEF IpcInv, IpcAnswerTrue

\* A client's command is sent to some of the open connections.
Asked(k, to, g) ==
  /\ to \subseteq Open /\ to # {} /\ ~icl[k].wait /\ icl[k].st = "open"
  /\ icl'[k].wait /\ icl'[k].n = icl[k].n + 1
  /\ \A j \in IpcClients : icl'[j].st = icl[j].st
  /\ \A j \in IpcClients \ {k} :
       /\ icl'[j].wait = icl[j].wait /\ icl'[j].n = icl[j].n
       /\ grp'[j] = grp[j] /\ addressed'[j] = addressed[j]
  /\ \A c \in IpcConns : icn'[c].st = icn[c].st
  /\ \A c \in to : /\ icn'[c].tag = icn[c].tag + 1
                   /\ icn'[c].cmds = Append(icn[c].cmds, Cmd(c, k, g))
                   /\ work'[c] = work[c] \cup {Cmd(c, k, g)}
  /\ \A c \in IpcConns \ to : /\ icn'[c].tag = icn[c].tag /\ icn'[c].cmds = icn[c].cmds
                              /\ work'[c] = work[c]
  /\ IF g THEN grp'[k].ref = Cardinality(to) /\ grp'[k].error = FALSE
     ELSE grp'[k] = grp[k] /\ \A c, d \in to : c = d
  /\ addressed'[k] = to
  /\ UNCHANGED <<run, from, said, wrong>>

LEMMA CmdIs ==
  ASSUME IpcTypes, NEW c \in IpcConns, NEW k \in IpcClients, NEW g \in BOOLEAN
  PROVE  /\ Cmd(c, k, g) \in CmdRec /\ Cmd(c, k, g).tag = icn[c].tag + 1
         /\ Cmd(c, k, g).client = k /\ Cmd(c, k, g).n = icl[k].n + 1
         /\ Cmd(c, k, g).isgroup = g /\ icn[c].cmds \in Seq(CmdRec)
  <1>1. icn[c] \in IpcConnRec /\ icl[k] \in IpcClientRec
    BY DEF IpcTypes
  <1>2. icn[c].tag \in Nat /\ icl[k].n \in Nat /\ icn[c].cmds \in Seq(CmdRec)
    BY <1>1, IpcConnFields, ClientFields
  <1> DEFINE t == icn[c].tag + 1
             n == icl[k].n + 1
  <1>3. t \in Nat /\ n \in Nat
    BY <1>2
  <1> HIDE DEF t, n
  <1>4. Cmd(c, k, g) = [tag |-> t, client |-> k, n |-> n, isgroup |-> g]
    BY DEF Cmd, t, n
  <1>5. /\ Cmd(c, k, g) \in CmdRec /\ Cmd(c, k, g).tag = t /\ Cmd(c, k, g).client = k
        /\ Cmd(c, k, g).n = n /\ Cmd(c, k, g).isgroup = g
    BY <1>3, <1>4 DEF CmdRec
  <1> QED BY <1>2, <1>5 DEF t, n

\* A client that does not wait has no command anywhere and no answer.
LEMMA IdleClient ==
  ASSUME IpcInv, NEW k \in IpcClients, ~icl[k].wait
  PROVE  /\ \A c \in IpcConns : \A x \in CmdRec : Has(c, x) => x.client # k
         /\ \A c \in IpcConns, n \in Nat, ok \in BOOLEAN : ~Said(c, k, n, ok)
         /\ grp[k].ref = 0 /\ grp[k].error = FALSE
  <1>1. RefOK(k) /\ SaidOK(k) /\ grp[k].ref \in Nat
    BY DEF IpcInv, ClientOK, IpcTypes
  <1>2. Conns(k) = {}
    BY <1>1 DEF RefOK
  <1>3. \A c \in IpcConns : \A x \in CmdRec : Has(c, x) => x.client # k
    BY <1>2 DEF Conns
  <1>4. Cardinality(Conns(k)) = 0
    BY <1>2, FS_EmptySet
  <1>5. grp[k].ref = 0
    BY <1>1, <1>4 DEF RefOK
  <1> QED BY <1>1, <1>3, <1>5 DEF RefOK, SaidOK

\* A connection that is sent the command.
LEMMA AskedConn ==
  ASSUME IpcInv, NEW k \in IpcClients, NEW to, NEW g \in BOOLEAN, Asked(k, to, g),
         NEW c \in to
  PROVE  ConnOK(c)' /\ \A x : Has(c, x)' <=> Has(c, x) \/ x = Cmd(c, k, g)
  <1> DEFINE cmd == Cmd(c, k, g)
             s == icn[c].cmds
             a == Append(s, cmd)
  <1>1. /\ c \in IpcConns /\ icn[c].st = "open" /\ ~icl[k].wait /\ IpcTypes
        /\ CmdsOK(c) /\ FromOK(c)
    BY DEF Asked, Open, IpcInv, ConnOK
  <1>2. icn[c].tag \in Nat /\ work[c] \subseteq CmdRec
    <2>1. icn[c] \in IpcConnRec /\ work[c] \subseteq CmdRec
      BY <1>1 DEF IpcTypes
    <2> QED BY <2>1, IpcConnFields
  <1>3. /\ cmd \in CmdRec /\ cmd.tag = icn[c].tag + 1 /\ cmd.client = k
        /\ cmd.n = icl[k].n + 1 /\ s \in Seq(CmdRec)
    BY <1>1, CmdIs
  <1>4. /\ icn'[c].tag = icn[c].tag + 1 /\ icn'[c].cmds = a /\ icn'[c].st = "open"
        /\ work'[c] = work[c] \cup {cmd} /\ from'[c] = from[c] /\ said' = said
    BY <1>1 DEF Asked
  <1>5. /\ \A x \in CmdRec : Has(c, x) => x.client # k
        /\ \A n \in Nat, ok \in BOOLEAN : ~Said(c, k, n, ok)
    BY <1>1, IdleClient
  <1> HIDE DEF cmd
  <1>6. ~Contains(s, cmd)
    BY <1>3, <1>5 DEF Has
  <1>7. Distinct(a) /\ a # <<>> /\ \A x : Contains(a, x) <=> Contains(s, x) \/ x = cmd
    BY <1>1, <1>3, <1>6, AppendList DEF CmdsOK
  <1> HIDE DEF a
  <1>8. \A x : Has(c, x)' <=> Has(c, x) \/ x = cmd
    BY <1>4, <1>7 DEF Has
  <1>9. \A x \in CmdRec : x.tag \in Nat /\ x.n \in Nat
    BY DEF CmdRec
  <1>10. \A n, j, ok : Said(c, j, n, ok)' <=> Said(c, j, n, ok)
    BY <1>4 DEF Said
  <1>11. \A x \in CmdRec : Has(c, x) => x.tag <= icn[c].tag
    BY <1>1 DEF CmdsOK
  <1>12. \A x \in CmdRec : Has(c, x) => x.tag # cmd.tag /\ x.client # k /\ x # cmd
    BY <1>2, <1>3, <1>5, <1>9, <1>11
  <1>13. CmdsOK(c)'
    <2>1. \A x, y \in CmdRec : Has(c, x)' /\ Has(c, y)' /\ (x.client = y.client \/ x.tag = y.tag)
                               => x = y
      BY <1>1, <1>3, <1>8, <1>12 DEF CmdsOK
    <2>2. \A x \in CmdRec : Has(c, x)' => x.tag <= icn'[c].tag
      BY <1>2, <1>3, <1>4, <1>8, <1>9, <1>11
    <2> QED BY <1>4, <1>7, <2>1, <2>2 DEF CmdsOK
  <1>14. ASSUME NEW x \in work'[c]
         PROVE  Has(c, x)' /\ \A ok \in BOOLEAN : ~Said(c, x.client, x.n, ok)'
    <2>1. CASE x = cmd
      BY <1>3, <1>5, <1>8, <1>9, <1>10, <2>1
    <2>2. CASE x \in work[c]
      BY <1>1, <1>8, <1>10, <2>2 DEF FromOK
    <2> QED BY <1>4, <2>1, <2>2
  <1>15. ASSUME NEW l \in LineRec, Contains(from[c], l) PROVE LineOK(c, l)'
    <2>1. PICK y \in CmdRec :
             /\ Has(c, y) /\ y.tag = l.tag /\ y \notin work[c]
             /\ Said(c, y.client, y.n, l.ok)
             /\ \A o \in BOOLEAN : Said(c, y.client, y.n, o) => o = l.ok
      BY <1>1, <1>15 DEF FromOK, LineOK
    <2>2. Has(c, y)' /\ y \notin work'[c]
      BY <1>4, <1>8, <1>12, <2>1
    <2> QED BY <1>10, <2>1, <2>2 DEF LineOK
  <1>16. FromOK(c)'
    <2>1. Distinct(from'[c]) /\ \A l, m \in LineRec :
             Contains(from'[c], l) /\ Contains(from'[c], m) /\ l.tag = m.tag => l = m
      BY <1>1, <1>4 DEF FromOK
    <2> QED BY <1>4, <1>14, <1>15, <2>1 DEF FromOK
  <1> QED BY <1>8, <1>13, <1>16 DEF ConnOK, cmd

LEMMA AskedInv ==
  ASSUME IpcInv, IpcTypes', NEW k \in IpcClients, NEW to, NEW g \in BOOLEAN, Asked(k, to, g)
  PROVE  IpcInv'
  <1>1. /\ IpcTypes /\ to \subseteq IpcConns /\ to # {} /\ ~icl[k].wait
        /\ \A c \in to : icn[c].st = "open"
    BY DEF Asked, Open, IpcInv
  <1>2. \A c \in to : ConnOK(c)' /\ \A x : Has(c, x)' <=> Has(c, x) \/ x = Cmd(c, k, g)
    BY AskedConn
  <1>3. \A c \in IpcConns \ to : \A x : Has(c, x)' <=> Has(c, x)
    BY DEF Asked, Has
  <1>4. \A c, j, n, ok : Said(c, j, n, ok)' <=> Said(c, j, n, ok)
    BY DEF Asked, Said
  <1>5. \A c \in IpcConns \ to : KeepsConn(c)
    BY <1>4 DEF KeepsConn, Asked
  <1>6. \A c \in IpcConns : ConnOK(c)'
    BY <1>1, <1>2, <1>5, SameConn DEF IpcInv
  <1>7. RunInv'
    BY <1>1 DEF Asked, RunInv, IpcInv
  <1>8. \A c \in to : Cmd(c, k, g) \in CmdRec /\ Cmd(c, k, g).client = k
                      /\ Cmd(c, k, g).n = icl[k].n + 1 /\ Cmd(c, k, g).isgroup = g
    BY <1>1, CmdIs
  <1>9. ASSUME NEW j \in IpcClients \ {k} PROVE KeepsClient(j)
    <2>1. \A c \in IpcConns : \A x \in CmdRec : x.client = j => (Has(c, x)' <=> Has(c, x))
      BY <1>1, <1>2, <1>3, <1>8
    <2> QED BY <1>4, <2>1 DEF KeepsClient, Asked
  <1>10. /\ \A c \in IpcConns : \A x \in CmdRec : Has(c, x) => x.client # k
         /\ \A c \in IpcConns, n \in Nat, ok \in BOOLEAN : ~Said(c, k, n, ok)
         /\ grp[k].ref = 0 /\ grp[k].error = FALSE
    BY <1>1, IdleClient
  <1>11. \A c \in IpcConns : \A x \in CmdRec :
           Has(c, x)' /\ x.client = k => c \in to /\ x = Cmd(c, k, g)
    BY <1>2, <1>3, <1>10
  <1>12. Conns(k)' = to
    <2>1. \A c \in to : c \in Conns(k)'
      BY <1>1, <1>2, <1>8 DEF Conns
    <2>2. \A c \in Conns(k)' : c \in to
      BY <1>11 DEF Conns
    <2> QED BY <2>1, <2>2
  <1>13. Cardinality(to) > 0
    <2>1. IsFiniteSet(IpcConns)
      BY IpcAssumption, FS_Interval DEF IpcConns
    <2>2. IsFiniteSet(to)
      BY <1>1, <2>1, FS_Subset
    <2>3. Cardinality(to) \in Nat /\ Cardinality(to) # 0
      BY <1>1, <2>2, FS_CardinalityType, FS_EmptySet
    <2> QED BY <2>3
  <1>14. RefOK(k)'
    <2>1. icl'[k].wait /\ icl'[k].n = icl[k].n + 1 /\ icl'[k].st = "open" /\ addressed'[k] = to
      BY DEF Asked
    <2>2. g <=> grp'[k].ref > 0
      BY <1>10, <1>13 DEF Asked
    <2>3. grp'[k].ref > 0 => grp'[k].ref = Cardinality(to)
      BY <2>2 DEF Asked
    <2>4. grp'[k].ref = 0 => grp'[k].error = FALSE /\ \A c, d \in to : c = d
      BY <1>10, <1>13 DEF Asked
    <2>5. \A c \in IpcConns : \A x \in CmdRec : Has(c, x)' /\ x.client = k =>
            x.n = icl'[k].n /\ (x.isgroup <=> grp'[k].ref > 0) /\ c \in addressed'[k]
      BY <1>8, <1>11, <2>1, <2>2
    <2> QED BY <1>1, <1>12, <2>1, <2>3, <2>4, <2>5 DEF RefOK
  <1>15. SaidOK(k)'
    <2>1. icl'[k].wait /\ addressed'[k] \ Conns(k)' = {} /\ grp'[k].error = FALSE
      BY <1>10, <1>12 DEF Asked
    <2> QED BY <1>4, <1>10, <2>1 DEF SaidOK
  <1>16. \A j \in IpcClients : ClientOK(j)'
    BY <1>9, <1>14, <1>15, SameClient DEF IpcInv, ClientOK
  <1> QED BY <1>6, <1>7, <1>16 DEF IpcInv, IpcAnswerTrue, Asked

\* One line of a client: it is answered at once or sent.
LEMMA ClientLineInv ==
  ASSUME IpcInv, NEW k \in IpcClients, ClientLine(k)
  PROVE  IpcInv'
  <1> DEFINE target == Head(icl[k].buf)
             to == Recipients(target)
             g == target = ALL
             b == Tail(icl[k].buf)
             w == icl[k].wait \/ to # {}
             m == IF to = {} THEN icl[k].n ELSE icl[k].n + 1
             r == [icl[k] EXCEPT !.buf = b, !.wait = w, !.n = m]
             G == [ref : Nat, error : BOOLEAN]
  <1>1. /\ IpcTypes /\ icl \in [IpcClients -> IpcClientRec] /\ icl[k] \in IpcClientRec
        /\ icn \in [IpcConns -> IpcConnRec] /\ work \in [IpcConns -> SUBSET CmdRec]
        /\ grp \in [IpcClients -> G] /\ addressed \in [IpcClients -> SUBSET IpcConns]
        /\ run \in Seq(Frames) /\ RunInv
    BY DEF IpcInv, IpcTypes
  <1>2. /\ icl[k].wait \in BOOLEAN /\ icl[k].n \in Nat /\ icl[k].buf \in Seq(Targets)
        /\ \A c \in IpcConns : icn[c].tag \in Nat /\ icn[c].cmds \in Seq(CmdRec)
    BY <1>1, ClientFields, IpcConnFields
  <1>3. /\ run # <<>> /\ Head(run) = InputLoop(k) /\ ~icl[k].wait /\ icl[k].buf # <<>>
        /\ icl' = [icl EXCEPT ![k] = r]
        /\ ipc_connection_cmd(k, to, g) /\ GroupRefs(k, g /\ to # {}, to)
        /\ addressed' = [addressed EXCEPT ![k] = IF to = {} THEN addressed[k] ELSE to]
        /\ UNCHANGED <<run, from, said, wrong>>
    BY DEF ClientLine, Top, MayReadLine
  <1>4. icl[k].st = "open"
    <2>1. 1 \in 1..Len(run) /\ run[1] = InputLoop(k)
      BY <1>1, <1>3
    <2> QED BY <1>1, <2>1 DEF RunInv
  <1>5. to \subseteq Open /\ to \subseteq IpcConns /\ (~g => \A c, d \in to : c = d)
    BY DEF Recipients, Open
  <1>6. b \in Seq(Targets) /\ w \in BOOLEAN /\ m \in Nat /\ g \in BOOLEAN
    BY <1>2, <1>3
  <1> HIDE DEF target, to, g, b, w, m
  <1>7. r \in IpcClientRec /\ r.wait = w /\ r.n = m /\ r.st = icl[k].st
    BY <1>1, <1>6 DEF IpcClientRec
  <1> HIDE DEF r
  <1>8. /\ icl' \in [IpcClients -> IpcClientRec] /\ icl'[k] = r
        /\ \A j \in IpcClients \ {k} : icl'[j] = icl[j]
    BY <1>1, <1>3, <1>7
  <1>9. ASSUME NEW c \in to
        PROVE  /\ icn'[c] \in IpcConnRec /\ icn'[c].tag = icn[c].tag + 1
               /\ icn'[c].st = icn[c].st
               /\ icn'[c].cmds = Append(icn[c].cmds, Cmd(c, k, g))
               /\ work'[c] = work[c] \cup {Cmd(c, k, g)} /\ work'[c] \subseteq CmdRec
    <2> DEFINE t == icn[c].tag + 1
               a == Append(icn[c].cmds, Cmd(c, k, g))
    <2>1. c \in IpcConns /\ icn[c] \in IpcConnRec /\ work[c] \subseteq CmdRec
      BY <1>1, <1>5
    <2>2. Cmd(c, k, g) \in CmdRec /\ t \in Nat
      BY <1>1, <1>2, <1>6, <2>1, CmdIs
    <2>3. a \in Seq(CmdRec)
      BY <1>2, <2>1, <2>2
    <2>4. icn'[c] = [icn[c] EXCEPT !.tag = t, !.cmds = a]
      BY <1>3, <2>1 DEF ipc_connection_cmd
    <2>5. work'[c] = work[c] \cup {Cmd(c, k, g)}
      BY <1>3, <2>1 DEF ipc_connection_cmd
    <2> HIDE DEF a, t
    <2>6. /\ icn'[c] \in IpcConnRec /\ icn'[c].tag = t /\ icn'[c].cmds = a
          /\ icn'[c].st = icn[c].st
      BY <2>1, <2>2, <2>3, <2>4 DEF IpcConnRec
    <2> QED BY <2>1, <2>2, <2>5, <2>6 DEF a, t
  <1>10. \A c \in IpcConns \ to : icn'[c] = icn[c] /\ work'[c] = work[c]
    BY <1>3 DEF ipc_connection_cmd
  <1>11. /\ icn' = [c \in IpcConns |-> icn'[c]] /\ work' = [c \in IpcConns |-> work'[c]]
    BY <1>3 DEF ipc_connection_cmd
  <1>12. icn' \in [IpcConns -> IpcConnRec] /\ work' \in [IpcConns -> SUBSET CmdRec]
    <2>1. \A c \in IpcConns : icn'[c] \in IpcConnRec /\ work'[c] \in SUBSET CmdRec
      BY <1>1, <1>9, <1>10
    <2> QED BY <1>11, <2>1
  <1>13. /\ addressed' \in [IpcClients -> SUBSET IpcConns]
         /\ addressed'[k] = IF to = {} THEN addressed[k] ELSE to
         /\ \A j \in IpcClients \ {k} : addressed'[j] = addressed[j]
    BY <1>1, <1>3, <1>5
  <1> DEFINE q == [ref |-> Cardinality(to), error |-> FALSE]
  <1>14. q \in G /\ q.ref = Cardinality(to) /\ q.error = FALSE
    <2>1. IsFiniteSet(IpcConns)
      BY IpcAssumption, FS_Interval DEF IpcConns
    <2>2. IsFiniteSet(to)
      BY <1>5, <2>1, FS_Subset
    <2>3. Cardinality(to) \in Nat
      BY <2>2, FS_CardinalityType
    <2> QED BY <2>3
  <1>15. grp' = IF g /\ to # {} THEN [grp EXCEPT ![k] = q] ELSE grp
    BY <1>3 DEF GroupRefs
  <1> HIDE DEF q
  <1>16. /\ grp' \in [IpcClients -> G] /\ (g /\ to # {} => grp'[k] = q)
         /\ ~(g /\ to # {}) => grp' = grp
         /\ \A j \in IpcClients \ {k} : grp'[j] = grp[j]
    BY <1>1, <1>14, <1>15
  <1>17. IpcTypes'
    BY <1>1, <1>3, <1>8, <1>12, <1>13, <1>16 DEF IpcTypes
  <1>18. CASE to = {}
    <2>1. /\ \A c \in IpcConns : icn'[c] = icn[c]
          /\ work' = work /\ grp' = grp /\ addressed' = addressed
      <3>1. \A c \in IpcConns : icn'[c] = icn[c] /\ work'[c] = work[c]
        BY <1>10, <1>18
      <3>2. work' = work
        BY <1>1, <1>12, <3>1
      <3>3. addressed' = addressed
        BY <1>1, <1>3, <1>18
      <3> QED BY <1>16, <1>18, <3>1, <3>2, <3>3
    <2>2. w = icl[k].wait /\ m = icl[k].n
      BY <1>2, <1>18 DEF w, m
    <2>3. \A j \in IpcClients : /\ icl'[j].wait = icl[j].wait /\ icl'[j].n = icl[j].n
                                /\ icl'[j].st = icl[j].st
      BY <1>7, <1>8, <2>2
    <2>4. RunInv'
      <3>1. run' = run /\ RunInv
        BY <1>1, <1>3
      <3> QED BY <2>1, <2>3, <3>1 DEF RunInv
    <2>5. Quiet
      BY <1>3, <2>1, <2>3 DEF Quiet
    <2> QED BY <1>17, <2>1, <2>3, <2>4, <2>5, QuietKeeps
  <1>19. CASE to # {}
    <2>1. w /\ m = icl[k].n + 1 /\ addressed'[k] = to
      BY <1>13, <1>19 DEF w, m
    <2>2. \A c \in IpcConns : icn'[c].st = icn[c].st
      BY <1>9, <1>10
    <2>3. \A j \in IpcClients : icl'[j].st = icl[j].st
      BY <1>7, <1>8
    <2>4. IF g THEN grp'[k].ref = Cardinality(to) /\ grp'[k].error = FALSE
          ELSE grp'[k] = grp[k] /\ \A c, d \in to : c = d
      BY <1>5, <1>14, <1>16, <1>19
    <2>5. Asked(k, to, g)
      BY <1>3, <1>4, <1>5, <1>7, <1>8, <1>9, <1>10, <1>13, <1>16, <1>19, <2>1, <2>2, <2>3, <2>4
      DEF Asked
    <2> QED BY <1>6, <1>17, <2>5, AskedInv
  <1> QED BY <1>18, <1>19

-----------------------------------------------------------------------------
(* The invariant holds.                                                    *)

LEMMA IpcStarts == ASSUME IpcInit PROVE IpcInv
  <1> DEFINE e == <<>>
             cl == [st |-> "open", buf |-> e, eof |-> FALSE, wait |-> FALSE, n |-> 0]
             cn == [st |-> "none", hs |-> FALSE, cmds |-> e, tag |-> 0]
  <1>1. e \in Seq(Targets) /\ e \in Seq(CmdRec) /\ e \in Seq(LineRec) /\ e \in Seq(Frames)
    OBVIOUS
  <1>2. /\ Distinct(e) /\ Len(e) = 0 /\ \A x : ~Contains(e, x)
    BY EmptyList
  <1>3. /\ icl = [k \in IpcClients |-> cl] /\ icn = [c \in IpcConns |-> cn]
        /\ grp = [k \in IpcClients |-> NoGrp] /\ run = e
        /\ from = [c \in IpcConns |-> e] /\ work = [c \in IpcConns |-> {}]
        /\ addressed = [k \in IpcClients |-> {}] /\ said = {} /\ wrong = FALSE
    BY DEF IpcInit
  <1>4. e = <<>>
    OBVIOUS
  <1> HIDE DEF e
  <1>5. cl \in IpcClientRec /\ cl.wait = FALSE /\ cl.st = "open"
    BY <1>1 DEF IpcClientRec
  <1>6. cn \in IpcConnRec /\ cn.st = "none" /\ cn.cmds = e
    BY <1>1 DEF IpcConnRec
  <1>7. NoGrp \in [ref : Nat, error : BOOLEAN] /\ NoGrp.ref = 0 /\ NoGrp.error = FALSE
    BY DEF NoGrp
  <1> HIDE DEF cl, cn
  <1>8. IpcTypes
    BY <1>1, <1>3, <1>5, <1>6, <1>7 DEF IpcTypes
  <1>9. RunInv
    BY <1>2, <1>3, <1>6 DEF RunInv
  <1>10. \A c \in IpcConns : icn[c].st = "none" /\ icn[c].cmds = e /\ \A x : ~Has(c, x)
    BY <1>2, <1>3, <1>6 DEF Has
  <1>11. \A c \in IpcConns : ConnOK(c)
    BY <1>2, <1>3, <1>4, <1>10 DEF ConnOK, CmdsOK, FromOK
  <1>12. ASSUME NEW k \in IpcClients PROVE ClientOK(k)
    <2>1. icl[k].wait = FALSE /\ grp[k].ref = 0 /\ grp[k].error = FALSE /\ addressed[k] = {}
      BY <1>3, <1>5, <1>7
    <2>2. Conns(k) = {}
      BY <1>10 DEF Conns
    <2>3. RefOK(k)
      BY <1>10, <2>1, <2>2 DEF RefOK
    <2>4. SaidOK(k)
      BY <1>3, <2>1 DEF SaidOK, Said
    <2> QED BY <2>3, <2>4 DEF ClientOK
  <1> QED BY <1>3, <1>8, <1>9, <1>11, <1>12 DEF IpcInv, IpcAnswerTrue

LEMMA IpcSteps == ASSUME IpcInv, IpcNext \/ UNCHANGED ipcVars PROVE IpcInv'
  <1>1. CASE Loops
    <2>1. ASSUME NEW k \in IpcClients, ClientLine(k) PROVE IpcInv'
      BY <2>1, ClientLineInv
    <2>2. ASSUME NEW k \in IpcClients, ClientInputEnd(k) PROVE IpcInv'
      BY <2>2, InputEndInv
    <2>3. ASSUME NEW c \in IpcConns, ipc_connection_cmd_free(c) PROVE IpcInv'
      BY <2>3, CmdFreeInv
    <2>4. ASSUME NEW c \in IpcConns, ConnectionDestroyEnd(c) PROVE IpcInv'
      BY <2>4, DestroyEndInv
    <2> QED BY <1>1, <2>1, <2>2, <2>3, <2>4 DEF Loops
  <1>2. CASE IpcStop
    BY <1>2, ReadStopInv
  <1>3. ASSUME NEW c \in IpcConns, Handshake(c) PROVE IpcInv'
    BY <1>3, IpcHandshakeInv
  <1>4. ASSUME NEW c \in IpcConns, ipc_connection_input_line(c) PROVE IpcInv'
    BY <1>4, InputLineInv
  <1>5. ASSUME NEW c \in IpcConns, SomeAnswer(c) PROVE IpcInv'
    <2>1. PICK cmd \in work[c], ok \in BOOLEAN : WorkerAnswer(c, cmd, ok)
      BY <1>5 DEF SomeAnswer
    <2> QED BY <2>1, WorkerAnswerInv
  <1>6. ASSUME NEW c \in IpcConns, ipc_connection_create(c) PROVE IpcInv'
    BY <1>6, CreateInv
  <1>7. ASSUME NEW c \in IpcConns, ipc_connection_destroy(c) PROVE IpcInv'
    BY <1>7, DestroyStepInv
  <1>8. ASSUME NEW k \in IpcClients, ClientInput(k) PROVE IpcInv'
    BY <1>8, ClientInputInv
  <1>9. ASSUME NEW k \in IpcClients,
               ClientClose(k) \/ \E t \in Targets : ClientSend(k, t)
        PROVE  IpcInv'
    BY <1>9, SendCloseInv
  <1>10. CASE UNCHANGED ipcVars
    <2>1. UNCHANGED <<icl, icn, grp, run, from, work, addressed, said, wrong>>
      BY <1>10 DEF ipcVars
    <2>2. IpcTypes' /\ RunInv'
      BY <2>1 DEF IpcInv, IpcTypes, RunInv
    <2>3. Quiet
      BY <2>1 DEF Quiet
    <2> QED BY <2>1, <2>2, <2>3, QuietKeeps
  <1> QED BY <1>1, <1>2, <1>3, <1>4, <1>5, <1>6, <1>7, <1>8, <1>9, <1>10 DEF IpcNext

LEMMA IpcInvariant == IpcSpec => []IpcInv
  <1>1. IpcInit => IpcInv
    BY IpcStarts
  <1>2. IpcInv /\ [IpcNext]_ipcVars => IpcInv'
    BY IpcSteps
  <1> QED BY <1>1, <1>2, PTL DEF IpcSpec

\* A client is told "+" only when every process its command was sent to has
\* answered it with "+", and "-" only when one has not or has disconnected, for
\* any number of clients, processes and commands and in whatever order the
\* answers come (ipc-group.c: first_error, ipc-connection.c: the tags).
THEOREM IpcAnswersTrue == IpcSpec => []IpcAnswerTrue
  <1>1. IpcInv => IpcAnswerTrue
    BY DEF IpcInv
  <1> QED BY <1>1, IpcInvariant, PTL

\* The places of a client's commands in the lists of the connections.
IpcPlaces(k) == UNION {{c} \X {i \in 1..Len(icn[c].cmds) : icn[c].cmds[i].client = k} :
                      c \in IpcConns}

\* There is one of them for each connection that is to answer.
LEMMA PlacesCount ==
  ASSUME IpcInv, NEW k \in IpcClients
  PROVE  /\ IpcPlaces(k) = {} <=> Conns(k) = {}
         /\ IsFiniteSet(Conns(k)) /\ Cardinality(IpcPlaces(k)) = Cardinality(Conns(k))
  <1> DEFINE P(c) == {i \in 1..Len(icn[c].cmds) : icn[c].cmds[i].client = k}
             At(c) == CHOOSE i \in P(c) : TRUE
             f == [c \in Conns(k) |-> <<c, At(c)>>]
             S == Conns(k)
             T == IpcPlaces(k)
  <1>1. \A c \in IpcConns : icn[c].cmds \in Seq(CmdRec) /\ CmdsOK(c)
    <2>1. icn \in [IpcConns -> IpcConnRec] /\ \A c \in IpcConns : CmdsOK(c)
      BY DEF IpcInv, IpcTypes, ConnOK
    <2> QED BY <2>1, IpcConnFields
  <1>2. \A c \in IpcConns : \A i, j \in P(c) : i = j
    <2> SUFFICES ASSUME NEW c \in IpcConns, NEW i \in P(c), NEW j \in P(c) PROVE i = j
      OBVIOUS
    <2> DEFINE s == icn[c].cmds
    <2>1. /\ s \in Seq(CmdRec) /\ CmdsOK(c) /\ i \in 1..Len(s) /\ j \in 1..Len(s)
          /\ s[i].client = k /\ s[j].client = k
      BY <1>1
    <2>2. s[i] \in CmdRec /\ s[j] \in CmdRec /\ Has(c, s[i]) /\ Has(c, s[j])
      BY <2>1 DEF Has, Contains
    <2>3. s[i] = s[j]
      BY <2>1, <2>2 DEF CmdsOK
    <2> QED BY <2>1, <2>3 DEF CmdsOK, Distinct
  <1>3. \A c \in IpcConns : c \in S <=> P(c) # {}
    <2> SUFFICES ASSUME NEW c \in IpcConns PROVE c \in S <=> P(c) # {}
      OBVIOUS
    <2> DEFINE s == icn[c].cmds
    <2>1. s \in Seq(CmdRec)
      BY <1>1
    <2>2. ASSUME NEW i \in P(c) PROVE c \in S
      <3>1. i \in 1..Len(s) /\ s[i] \in CmdRec /\ s[i].client = k
        BY <2>1
      <3>2. Has(c, s[i])
        BY <3>1 DEF Has, Contains
      <3> QED BY <3>1, <3>2 DEF Conns
    <2>3. ASSUME c \in S PROVE P(c) # {}
      <3>1. PICK x \in CmdRec : Has(c, x) /\ x.client = k
        BY <2>3 DEF Conns
      <3>2. PICK i \in 1..Len(s) : s[i] = x
        BY <3>1 DEF Has, Contains
      <3> QED BY <3>1, <3>2
    <2> QED BY <2>2, <2>3
  <1>4. T = UNION {{c} \X P(c) : c \in IpcConns} /\ S \subseteq IpcConns
    BY DEF IpcPlaces, Conns
  <1> HIDE DEF P, T, S
  <1>5. \A c \in S : At(c) \in P(c)
    BY <1>3, <1>4
  <1> HIDE DEF At
  <1>6. \A c \in S : <<c, At(c)>> \in T
    BY <1>4, <1>5
  <1>7. \A t \in T : \E c \in S : <<c, At(c)>> = t
    <2> SUFFICES ASSUME NEW t \in T PROVE \E c \in S : <<c, At(c)>> = t
      OBVIOUS
    <2>1. PICK c \in IpcConns : t \in {c} \X P(c)
      BY <1>4
    <2>2. PICK i \in P(c) : t = <<c, i>>
      BY <2>1
    <2>3. c \in S
      BY <1>3, <2>2
    <2>4. i = At(c)
      BY <1>2, <1>5, <2>2, <2>3
    <2> QED BY <2>2, <2>3, <2>4
  <1>8. f = [c \in S |-> <<c, At(c)>>]
    BY DEF S
  <1> HIDE DEF f
  <1>9. f \in [S -> T] /\ \A c, d \in S : f[c] = f[d] => c = d
    BY <1>6, <1>8
  <1>10. \A t \in T : \E c \in S : f[c] = t
    BY <1>7, <1>8
  <1>11. ExistsBijection(S, T)
    <2>1. DOMAIN f = S
      BY <1>8
    <2>2. IsInjective(f)
      BY <1>9, <2>1 DEF IsInjective
    <2>3. f \in Bijection(S, T)
      BY <1>9, <1>10, <2>2 DEF Bijection, Injection, Surjection
    <2> QED BY <2>3 DEF ExistsBijection
  <1>12. IsFiniteSet(S)
    <2>1. IsFiniteSet(IpcConns)
      BY IpcAssumption, FS_Interval DEF IpcConns
    <2> QED BY <1>4, <2>1, FS_Subset
  <1>13. Cardinality(T) = Cardinality(S)
    BY <1>11, <1>12, FS_Bijection
  <1>14. T = {} <=> S = {}
    BY <1>6, <1>7
  <1> QED BY <1>12, <1>13, <1>14 DEF S, T

\* While no loop is in progress, a command that waits for an answer belongs to
\* a client that is connected and waits for it, and a group command holds one
\* reference for each connection that is to answer: the callback of a command
\* comes once and never to a client that is freed (client.c: io,
\* ipc-group.c: refcount).
THEOREM CommandOwners == IpcSpec => []IpcOwners
  <1>1. IpcInv => IpcOwners
    <2> SUFFICES ASSUME IpcInv, run = <<>>, NEW k \in IpcClients
                 PROVE  /\ icl[k].st = "gone" => IpcPlaces(k) = {}
                        /\ icl[k].wait <=> IpcPlaces(k) # {}
                        /\ grp[k].ref > 0 => grp[k].ref = Cardinality(IpcPlaces(k))
                        /\ grp[k].ref = 0 => Cardinality(IpcPlaces(k)) <= 1
      BY DEF IpcOwners, IpcPlaces
    <2>1. RefOK(k)
      BY DEF IpcInv, ClientOK
    <2>2. /\ IpcPlaces(k) = {} <=> Conns(k) = {}
          /\ IsFiniteSet(Conns(k)) /\ Cardinality(IpcPlaces(k)) = Cardinality(Conns(k))
      BY PlacesCount
    <2>3. icl[k].st = "gone" => Conns(k) = {}
      <3>1. ASSUME icl[k].st = "gone", NEW c \in Conns(k) PROVE FALSE
        <4>1. c \in IpcConns /\ icl[k].wait
          BY <2>1 DEF RefOK, Conns
        <4>2. icn[c].cmds = <<>>
          BY <2>1, <3>1, <4>1, NoLoops DEF RefOK
        <4> QED BY <4>2, EmptyList DEF Conns, Has
      <3> QED BY <3>1
    <2>4. ASSUME grp[k].ref = 0 PROVE Cardinality(Conns(k)) <= 1
      <3>1. \A c, d \in Conns(k) : c = d
        BY <2>1, <2>4 DEF RefOK
      <3>2. CASE Conns(k) = {}
        BY <3>2, FS_EmptySet
      <3>3. ASSUME NEW c \in Conns(k) PROVE Cardinality(Conns(k)) <= 1
        <4>1. Conns(k) = {c}
          BY <3>1
        <4>2. Cardinality({c}) = 1
          BY FS_Singleton
        <4> QED BY <4>1, <4>2
      <3> QED BY <3>2, <3>3
    <2> QED BY <2>1, <2>2, <2>3, <2>4 DEF RefOK
  <1> QED BY <1>1, IpcInvariant, PTL
=============================================================================
