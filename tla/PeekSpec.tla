------------------------------ MODULE PeekSpec ------------------------------
(***************************************************************************)
(* What a user of lib/priorityq.c may rely on.  Items are in or out; peek  *)
(* returns the best item, "the item with the highest priority"             *)
(* (priorityq.h), as long as no key changes while its item is in the       *)
(* queue.  After such a change peek still returns an item of the best      *)
(* class, the part of the key that never changes in place.                 *)
(***************************************************************************)
EXTENDS Naturals, FiniteSets

CONSTANTS
  Items,     \* the items callers own
  Classes,   \* the part of a key that is fixed while the item is queued
  Ranks,     \* the part of a key that callers may change in place
  NoItem     \* what peek returns from an empty queue

VARIABLES
  content,   \* the items in the queue
  key,       \* every item's key, as the comparison callback sees it
  ordered,   \* no key was changed in place since the queue was trivial
  top        \* the item priorityq_peek() returns

vars == <<content, key, ordered, top>>

Keys == Classes \X Ranks

\* cmp_callback(i, j) < 0: a larger class is better, then a smaller rank.
KeyBefore(k, l) == k[1] > l[1] \/ (k[1] = l[1] /\ k[2] < l[2])

Peekable(S, k, ord) ==
  IF S = {} THEN {NoItem}
  ELSE {i \in S : \A j \in S : /\ k[j][1] <= k[i][1]
                               /\ ord => ~KeyBefore(k[j], k[i])}

Init ==
  /\ content = {} /\ key \in [Items -> Keys]
  /\ ordered = TRUE /\ top = NoItem

\* Every operation leaves something peekable on top.
Becomes(S, k, ord) ==
  /\ content' = S /\ key' = k
  /\ ordered' = (ord \/ Cardinality(S) <= 1)
  /\ top' \in Peekable(content', key', ordered')

Add(i, k) ==
  i \notin content /\ Becomes(content \union {i}, [key EXCEPT ![i] = k], ordered)

\* Outside the queue the item is its owner's again, with whatever key.
Remove(i) ==
  i \in content /\ \E k \in Keys :
                     Becomes(content \ {i}, [key EXCEPT ![i] = k], ordered)

Touch(i, rank) ==
  i \in content /\ Becomes(content, [key EXCEPT ![i][2] = rank], FALSE)

Next ==
  \E i \in Items :
    \/ \E k \in Keys : Add(i, k)
    \/ Remove(i)
    \/ \E rank \in Ranks : Touch(i, rank)

Spec == Init /\ [][Next]_vars
=============================================================================
