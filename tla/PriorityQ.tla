----------------------------- MODULE PriorityQ ------------------------------
(***************************************************************************)
(* lib/priorityq.c: a binary heap in an array, [0] its root, in which each *)
(* item stores its own index so that it can be removed from the middle.    *)
(* Callers may change the rank of a queued item in place, which the        *)
(* replicator does (client_input_notify, replicator_queue_import_line).    *)
(***************************************************************************)
EXTENDS Naturals, FiniteSets, Functions

CONSTANTS Items, Classes, Ranks, NoItem

ASSUME PriorityAssumption ==
  /\ IsFiniteSet(Items) /\ NoItem \notin Items
  /\ Classes \subseteq Nat /\ 0 \in Classes /\ Ranks \subseteq Nat /\ 0 \in Ranks

VARIABLES
  items,    \* the array, a function on 0..count-1
  idx,      \* item->idx
  key,      \* what cmp_callback compares
  ordered   \* history: as in PeekSpec

vars == <<items, idx, key, ordered>>

UINT_MAX == Cardinality(Items)
Keys == Classes \X Ranks

Count(h) == Cardinality(DOMAIN h.items)
PARENT_IDX(i) == (i - 1) \div 2
LEFT_CHILD_IDX(i) == i * 2 + 1
RIGHT_CHILD_IDX(i) == i * 2 + 2

\* cmp_callback(items[a], items[b]) < 0
Before(h, k, a, b) ==
  LET x == k[h.items[a]]
      y == k[h.items[b]]
  IN  x[1] > y[1] \/ (x[1] = y[1] /\ x[2] < y[2])

\* Mutant: only one of the two items learns its new index.
SwapForgetsIndex(h, a, b) ==
  [items |-> [h.items EXCEPT ![a] = h.items[b], ![b] = h.items[a]],
   idx |-> [h.idx EXCEPT ![h.items[a]] = b]]

heap_items_swap(h, a, b) ==
  [items |-> [h.items EXCEPT ![a] = h.items[b], ![b] = h.items[a]],
   idx |-> [h.idx EXCEPT ![h.items[a]] = b, ![h.items[b]] = a]]

\* A round of the loop: the heap and the index of the item.
UpRound(s, k) ==
  LET parent == PARENT_IDX(s.at)
  IN  IF s.at > 0 /\ Before(s.heap, k, s.at, parent)
      THEN [heap |-> heap_items_swap(s.heap, s.at, parent), at |-> parent]
      ELSE s

\* After each round; the index becomes smaller in each, so i of them are enough.
UpRounds(h, k, i) ==
  LET Round[n \in 0..i] == IF n = 0 THEN [heap |-> h, at |-> i] ELSE UpRound(Round[n - 1], k)
  IN  Round

\* The heap and the index where the item ends up.
heap_item_bubble_up(h, k, i) == UpRounds(h, k, i)[i]

MinChild(h, k, i) ==
  IF RIGHT_CHILD_IDX(i) >= Count(h) \/
     Before(h, k, LEFT_CHILD_IDX(i), RIGHT_CHILD_IDX(i))
  THEN LEFT_CHILD_IDX(i) ELSE RIGHT_CHILD_IDX(i)

DownRound(s, k) ==
  LET child == MinChild(s.heap, k, s.at)
  IN  IF LEFT_CHILD_IDX(s.at) < Count(s.heap) /\ Before(s.heap, k, child, s.at)
      THEN [heap |-> heap_items_swap(s.heap, s.at, child), at |-> child]
      ELSE s

\* The index grows in each round and stays below the count.
DownRounds(h, k, i) ==
  LET Round[n \in 0..Count(h)] ==
        IF n = 0 THEN [heap |-> h, at |-> i] ELSE DownRound(Round[n - 1], k)
  IN  Round
heap_item_bubble_down(h, k, i) == DownRounds(h, k, i)[Count(h)].heap

HeapAdd(h, k, item) ==
  LET n == Count(h)
      appended == [items |-> [i \in 0..n |-> IF i = n THEN item ELSE h.items[i]],
                   idx |-> [h.idx EXCEPT ![item] = n]]
  IN  heap_item_bubble_up(appended, k, n).heap

\* The last item takes the place of the removed one and is moved to where it
\* belongs.
Shrunk(h, i) ==
  LET last == Count(h) - 1
      swapped == heap_items_swap(h, i, last)
  IN  [items |-> Restrict(swapped.items, 0..last - 1),
       idx |-> [swapped.idx EXCEPT ![h.items[i]] = UINT_MAX]]

\* Mutant: the moved item is only compared with its children.
RemoveIdxDownOnly(h, k, i) ==
  IF i < Count(h) - 1 THEN heap_item_bubble_down(Shrunk(h, i), k, i)
  ELSE Shrunk(h, i)

priorityq_remove_idx(h, k, i) ==
  LET up == heap_item_bubble_up(Shrunk(h, i), k, i)
  IN  IF i < Count(h) - 1 THEN heap_item_bubble_down(up.heap, k, up.at)
      ELSE Shrunk(h, i)

-----------------------------------------------------------------------------
Heap == [items |-> items, idx |-> idx]
Becomes(h, ord) ==
  /\ items' = h.items /\ idx' = h.idx
  /\ ordered' = (ord \/ Count(h) <= 1)

\* Items outside the queue have a canonical key, so that they are alike.
Outside == <<0, 0>>

Init ==
  /\ items = [i \in {} |-> NoItem] /\ idx = [i \in Items |-> UINT_MAX]
  /\ key = [i \in Items |-> Outside] /\ ordered = TRUE

priorityq_add(item, k) ==
  /\ idx[item] = UINT_MAX
  /\ key' = [key EXCEPT ![item] = k]
  /\ Becomes(HeapAdd(Heap, key', item), ordered)

\* priorityq_remove(), and priorityq_pop() when the item is the root.
priorityq_remove(item) ==
  /\ idx[item] # UINT_MAX
  /\ Becomes(priorityq_remove_idx(Heap, key, idx[item]), ordered)
  /\ key' = [key EXCEPT ![item] = Outside]

\* A caller changes a key under the heap.
Touch(item, rank) ==
  /\ idx[item] # UINT_MAX
  /\ key' = [key EXCEPT ![item][2] = rank]
  /\ Becomes(Heap, FALSE)

Next ==
  \E item \in Items :
    \/ \E k \in Keys : priorityq_add(item, k)
    \/ priorityq_remove(item)
    \/ \E rank \in Ranks : Touch(item, rank)

Spec == Init /\ [][Next]_vars

-----------------------------------------------------------------------------
priorityq_peek == IF items = [i \in {} |-> NoItem] THEN NoItem ELSE items[0]

\* The array holds each queued item once, at the index the item believes to be
\* at, which is what priorityq_remove() relies on and heap_items_swap()
\* asserts.
IndexesMatch ==
  /\ \A i \in DOMAIN items : idx[items[i]] = i
  /\ \A item \in Items : idx[item] # UINT_MAX => items[idx[item]] = item

\* The heap does what PeekSpec promises: the root is a best item while the
\* keys stay put, and of the best class whatever callers do to the ranks.
Abstract == INSTANCE PeekSpec WITH
  content <- {items[i] : i \in DOMAIN items}, top <- priorityq_peek
PeekReturnsBest == Abstract!Spec
=============================================================================
