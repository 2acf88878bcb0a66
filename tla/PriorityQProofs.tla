-------------------------- MODULE PriorityQProofs ---------------------------
(***************************************************************************)
(* Proofs about lib/priorityq.c, for any number of items and any keys.     *)
(***************************************************************************)
EXTENDS PriorityQ, ListLemmas

-----------------------------------------------------------------------------
(* The tree in the array.                                                  *)

LEMMA ParentFacts ==
  ASSUME NEW j \in Nat, j > 0
  PROVE  /\ PARENT_IDX(j) \in Nat /\ PARENT_IDX(j) < j
         /\ j = LEFT_CHILD_IDX(PARENT_IDX(j)) \/ j = RIGHT_CHILD_IDX(PARENT_IDX(j))
  BY DEF PARENT_IDX, LEFT_CHILD_IDX, RIGHT_CHILD_IDX

LEMMA ChildFacts ==
  ASSUME NEW i \in Nat
  PROVE  /\ PARENT_IDX(LEFT_CHILD_IDX(i)) = i /\ PARENT_IDX(RIGHT_CHILD_IDX(i)) = i
         /\ LEFT_CHILD_IDX(i) \in Nat /\ LEFT_CHILD_IDX(i) > i
         /\ RIGHT_CHILD_IDX(i) = LEFT_CHILD_IDX(i) + 1
  BY DEF PARENT_IDX, LEFT_CHILD_IDX, RIGHT_CHILD_IDX

-----------------------------------------------------------------------------
(* Orders of the items: at least as good.  The code compares whole keys;   *)
(* what it does keeps the heap sorted by any order that goes along with    *)
(* them, the order by class alone too.                                     *)

KeyBefore(k, x, y) == k[x][1] > k[y][1] \/ (k[x][1] = k[y][1] /\ k[x][2] < k[y][2])

Order(R, k) ==
  /\ \A x, y, z \in Items : <<x, y>> \in R /\ <<y, z>> \in R => <<x, z>> \in R
  /\ \A x, y \in Items : /\ KeyBefore(k, x, y) => <<x, y>> \in R
                         /\ ~KeyBefore(k, x, y) => <<y, x>> \in R

ByClass(k) == {p \in Items \X Items : k[p[1]][1] >= k[p[2]][1]}
ByKey(k) == {p \in Items \X Items : ~KeyBefore(k, p[2], p[1])}

LEMMA OrdersFit ==
  ASSUME NEW k \in [Items -> Keys]
  PROVE  Order(ByClass(k), k) /\ Order(ByKey(k), k)
  <1>1. \A x \in Items : k[x][1] \in Nat /\ k[x][2] \in Nat
    BY PriorityAssumption DEF Keys
  <1>2. \A x, y \in Items : /\ <<x, y>> \in ByClass(k) <=> k[x][1] >= k[y][1]
                            /\ <<x, y>> \in ByKey(k) <=> ~KeyBefore(k, y, x)
    BY DEF ByClass, ByKey
  <1>3. \A x, y \in Items : KeyBefore(k, x, y) => k[x][1] >= k[y][1] /\ ~KeyBefore(k, y, x)
    BY <1>1 DEF KeyBefore
  <1>4. \A x, y \in Items : ~KeyBefore(k, x, y) => k[y][1] >= k[x][1]
    BY <1>1 DEF KeyBefore
  <1>5. \A x, y, z \in Items : /\ k[x][1] >= k[y][1] /\ k[y][1] >= k[z][1] => k[x][1] >= k[z][1]
                               /\ ~KeyBefore(k, y, x) /\ ~KeyBefore(k, z, y) => ~KeyBefore(k, z, x)
    BY <1>1 DEF KeyBefore
  <1> QED BY <1>2, <1>3, <1>4, <1>5 DEF Order

-----------------------------------------------------------------------------
(* Heaps with a hole: f holds n items, and the one at i may be misplaced.  *)

Sorted(f, n, R) == \A j \in 1..(n - 1) : <<f[PARENT_IDX(j)], f[j]>> \in R

\* Sorted but for i, and what is above i is better than what is below.
SortedBut(f, n, R, i) ==
  \A j \in 1..(n - 1) :
    /\ j # i /\ PARENT_IDX(j) # i => <<f[PARENT_IDX(j)], f[j]>> \in R
    /\ i > 0 /\ PARENT_IDX(j) = i => <<f[PARENT_IDX(i)], f[j]>> \in R

KidsSorted(f, n, R, i) == \A j \in 1..(n - 1) : PARENT_IDX(j) = i => <<f[i], f[j]>> \in R
ParentSorted(f, R, i) == i > 0 => <<f[PARENT_IDX(i)], f[i]>> \in R

Swapped(f, a, b) == [f EXCEPT ![a] = f[b], ![b] = f[a]]

LEMMA Unholed ==
  ASSUME NEW n \in Nat, NEW f \in [0..(n - 1) -> Items], NEW R, NEW k, Order(R, k),
         NEW i \in 0..(n - 1)
  PROVE  /\ SortedBut(f, n, R, i) /\ KidsSorted(f, n, R, i) /\ ParentSorted(f, R, i)
              => Sorted(f, n, R)
         /\ Sorted(f, n, R) =>
              SortedBut(f, n, R, i) /\ KidsSorted(f, n, R, i) /\ ParentSorted(f, R, i)
  <1>1. \A j \in 1..(n - 1) : PARENT_IDX(j) \in 0..(n - 1)
    BY ParentFacts
  <1>2. ASSUME SortedBut(f, n, R, i), KidsSorted(f, n, R, i), ParentSorted(f, R, i)
        PROVE  Sorted(f, n, R)
    <2> SUFFICES ASSUME NEW j \in 1..(n - 1) PROVE <<f[PARENT_IDX(j)], f[j]>> \in R
      BY DEF Sorted
    <2>1. CASE j = i
      <3>1. i > 0
        BY <2>1
      <3> QED BY <1>2, <2>1, <3>1 DEF ParentSorted
    <2>2. CASE PARENT_IDX(j) = i
      BY <1>2, <2>2 DEF KidsSorted
    <2>3. CASE j # i /\ PARENT_IDX(j) # i
      BY <1>2, <2>3 DEF SortedBut
    <2> QED BY <2>1, <2>2, <2>3
  <1>3. ASSUME Sorted(f, n, R)
        PROVE  SortedBut(f, n, R, i) /\ KidsSorted(f, n, R, i) /\ ParentSorted(f, R, i)
    <2>1. KidsSorted(f, n, R, i) /\ ParentSorted(f, R, i)
      BY <1>3 DEF KidsSorted, ParentSorted, Sorted
    <2>2. ASSUME NEW j \in 1..(n - 1), i > 0, PARENT_IDX(j) = i
          PROVE  <<f[PARENT_IDX(i)], f[j]>> \in R
      <3>1. i \in 1..(n - 1) /\ PARENT_IDX(i) \in 0..(n - 1)
        BY <1>1, <2>2
      <3>2. <<f[PARENT_IDX(i)], f[i]>> \in R /\ <<f[i], f[j]>> \in R
        BY <1>3, <2>2, <3>1 DEF Sorted
      <3>3. f[PARENT_IDX(i)] \in Items /\ f[i] \in Items /\ f[j] \in Items
        BY <3>1
      <3> QED BY <3>2, <3>3 DEF Order
    <2> QED BY <1>3, <2>1, <2>2 DEF SortedBut, Sorted
  <1> QED BY <1>2, <1>3

\* The item at i is better than its parent and takes its place.
LEMMA SwapUp ==
  ASSUME NEW n \in Nat, NEW f \in [0..(n - 1) -> Items], NEW R, NEW k, Order(R, k),
         NEW i \in 1..(n - 1), SortedBut(f, n, R, i), <<f[i], f[PARENT_IDX(i)]>> \in R
  PROVE  LET p == PARENT_IDX(i)
             g == Swapped(f, i, p)
         IN  SortedBut(g, n, R, p) /\ KidsSorted(g, n, R, p)
  <1> DEFINE p == PARENT_IDX(i)
             g == Swapped(f, i, p)
  <1>1. p \in 0..(n - 1) /\ p < i /\ p # i
    BY ParentFacts
  <1>2. /\ g \in [0..(n - 1) -> Items] /\ g[i] = f[p] /\ g[p] = f[i]
        /\ \A j \in 0..(n - 1) : j # i /\ j # p => g[j] = f[j]
    BY <1>1 DEF Swapped
  <1>3. \A j \in 1..(n - 1) : PARENT_IDX(j) \in 0..(n - 1) /\ PARENT_IDX(j) < j
    BY ParentFacts
  <1>4. \A x, y, z \in Items : <<x, y>> \in R /\ <<y, z>> \in R => <<x, z>> \in R
    BY DEF Order
  <1>5. \A j \in 0..(n - 1) : f[j] \in Items
    OBVIOUS
  <1>6. ASSUME NEW j \in 1..(n - 1), PARENT_IDX(j) = p, j # i
        PROVE  <<f[p], f[j]>> \in R
    BY <1>1, <1>6 DEF SortedBut
  <1>7. ASSUME p > 0 PROVE /\ PARENT_IDX(p) \in 0..(n - 1) /\ PARENT_IDX(p) < p
                           /\ <<f[PARENT_IDX(p)], f[p]>> \in R
    <2>1. p \in 1..(n - 1)
      BY <1>1, <1>7
    <2>2. PARENT_IDX(p) # i
      BY <1>1, <1>3, <2>1
    <2> QED BY <1>1, <1>3, <2>1, <2>2 DEF SortedBut
  <1> HIDE DEF g
  <1>8. KidsSorted(g, n, R, p)
    <2> SUFFICES ASSUME NEW j \in 1..(n - 1), PARENT_IDX(j) = p PROVE <<g[p], g[j]>> \in R
      BY DEF KidsSorted
    <2>1. CASE j = i
      BY <1>2, <2>1
    <2>2. CASE j # i
      <3>1. j # p /\ j \in 0..(n - 1)
        BY <1>3
      <3>2. g[j] = f[j]
        BY <1>2, <2>2, <3>1
      <3>3. <<f[p], f[j]>> \in R
        BY <1>6, <2>2
      <3> QED BY <1>1, <1>2, <1>4, <1>5, <3>1, <3>2, <3>3
    <2> QED BY <2>1, <2>2
  <1>9. SortedBut(g, n, R, p)
    <2>1. ASSUME NEW j \in 1..(n - 1), j # p, PARENT_IDX(j) # p
          PROVE  <<g[PARENT_IDX(j)], g[j]>> \in R
      <3>1. j # i /\ j \in 0..(n - 1) /\ PARENT_IDX(j) \in 0..(n - 1) /\ g[j] = f[j]
        BY <1>2, <1>3, <2>1
      <3>2. CASE PARENT_IDX(j) = i
        <4>1. i > 0
          OBVIOUS
        <4>2. <<f[p], f[j]>> \in R
          BY <3>2, <4>1 DEF SortedBut
        <4> QED BY <1>2, <3>1, <3>2, <4>2
      <3>3. CASE PARENT_IDX(j) # i
        BY <1>2, <2>1, <3>1, <3>3 DEF SortedBut
      <3> QED BY <3>2, <3>3
    <2>2. ASSUME NEW j \in 1..(n - 1), p > 0, PARENT_IDX(j) = p
          PROVE  <<g[PARENT_IDX(p)], g[j]>> \in R
      <3>1. g[PARENT_IDX(p)] = f[PARENT_IDX(p)]
        BY <1>1, <1>2, <1>7, <2>2
      <3>2. CASE j = i
        BY <1>2, <1>7, <2>2, <3>1, <3>2
      <3>3. CASE j # i
        <4>1. j # p /\ j \in 0..(n - 1)
          BY <1>3, <2>2
        <4>2. g[j] = f[j] /\ <<f[p], f[j]>> \in R
          BY <1>2, <1>6, <2>2, <3>3, <4>1
        <4> QED BY <1>1, <1>4, <1>5, <1>7, <2>2, <3>1, <4>1, <4>2
      <3> QED BY <3>2, <3>3
    <2> QED BY <2>1, <2>2 DEF SortedBut
  <1> QED BY <1>8, <1>9 DEF g

\* The better child c of i is better than the item at i and takes its place.
LEMMA SwapDown ==
  ASSUME NEW n \in Nat, NEW f \in [0..(n - 1) -> Items], NEW R, NEW k, Order(R, k),
         NEW i \in 0..(n - 1), SortedBut(f, n, R, i), ParentSorted(f, R, i),
         NEW c \in 1..(n - 1), PARENT_IDX(c) = i, <<f[c], f[i]>> \in R,
         \A j \in 1..(n - 1) : PARENT_IDX(j) = i => <<f[c], f[j]>> \in R
  PROVE  LET g == Swapped(f, i, c)
         IN  SortedBut(g, n, R, c) /\ ParentSorted(g, R, c)
  <1> DEFINE g == Swapped(f, i, c)
  <1>1. \A j \in 1..(n - 1) : PARENT_IDX(j) \in 0..(n - 1) /\ PARENT_IDX(j) < j
    BY ParentFacts
  <1>2. i < c /\ i # c /\ c \in 0..(n - 1)
    BY <1>1
  <1>3. /\ g \in [0..(n - 1) -> Items] /\ g[i] = f[c] /\ g[c] = f[i]
        /\ \A j \in 0..(n - 1) : j # i /\ j # c => g[j] = f[j]
    BY <1>2 DEF Swapped
  <1> HIDE DEF g
  <1>4. ParentSorted(g, R, c)
    BY <1>3 DEF ParentSorted
  <1>5. ASSUME NEW j \in 1..(n - 1), j # c, PARENT_IDX(j) # c
        PROVE  <<g[PARENT_IDX(j)], g[j]>> \in R
    <2>1. CASE j = i
      <3>1. PARENT_IDX(i) \in 0..(n - 1) /\ PARENT_IDX(i) < i /\ i > 0
        BY <1>1, <2>1
      <3>2. g[PARENT_IDX(i)] = f[PARENT_IDX(i)]
        BY <1>2, <1>3, <3>1
      <3>3. <<f[PARENT_IDX(i)], f[c]>> \in R
        BY <3>1 DEF SortedBut
      <3> QED BY <1>3, <2>1, <3>2, <3>3
    <2>2. CASE j # i
      <3>1. j \in 0..(n - 1) /\ g[j] = f[j] /\ PARENT_IDX(j) \in 0..(n - 1)
        BY <1>1, <1>3, <1>5, <2>2
      <3>2. CASE PARENT_IDX(j) = i
        BY <1>3, <3>1, <3>2
      <3>3. CASE PARENT_IDX(j) # i
        <4>1. g[PARENT_IDX(j)] = f[PARENT_IDX(j)]
          BY <1>3, <1>5, <3>1, <3>3
        <4> QED BY <2>2, <3>1, <3>3, <4>1 DEF SortedBut
      <3> QED BY <3>2, <3>3
    <2> QED BY <2>1, <2>2
  <1>6. ASSUME NEW j \in 1..(n - 1), PARENT_IDX(j) = c
        PROVE  <<g[PARENT_IDX(c)], g[j]>> \in R
    <2>1. c < j /\ j \in 0..(n - 1) /\ j # i /\ j # c
      BY <1>1, <1>2, <1>6
    <2>2. g[j] = f[j]
      BY <1>3, <2>1
    <2>3. <<f[c], f[j]>> \in R
      BY <1>2, <1>6, <2>1 DEF SortedBut
    <2> QED BY <1>3, <2>2, <2>3
  <1> QED BY <1>4, <1>5, <1>6 DEF SortedBut, g

-----------------------------------------------------------------------------
(* Heaps whose items know their indexes.                                   *)

HeapOf(h, n) ==
  /\ n \in Nat /\ n <= UINT_MAX
  /\ h.items \in [0..(n - 1) -> Items] /\ h.idx \in [Items -> 0..UINT_MAX]
  /\ \A i \in 0..(n - 1) : h.idx[h.items[i]] = i
  /\ \A x \in Items : h.idx[x] # UINT_MAX => h.idx[x] < n /\ h.items[h.idx[x]] = x

InHeap(h) == {x \in Items : h.idx[x] # UINT_MAX}

LEMMA MaxIsNumber == UINT_MAX \in Nat
  BY PriorityAssumption, FS_CardinalityType DEF UINT_MAX

LEMMA HeapCount ==
  ASSUME NEW h, NEW n, HeapOf(h, n)
  PROVE  Count(h) = n
  <1>1. n \in Nat /\ DOMAIN h.items = 0..(n - 1)
    BY DEF HeapOf
  <1>2. Cardinality(0..(n - 1)) = n
    <2>1. 0 \in Int /\ n - 1 \in Int
      BY <1>1
    <2>2. Cardinality(0..(n - 1)) = IF 0 > n - 1 THEN 0 ELSE (n - 1) - 0 + 1
      BY <2>1, FS_Interval
    <2> QED BY <1>1, <2>2
  <1> QED BY <1>1, <1>2 DEF Count

LEMMA SwapHeap ==
  ASSUME NEW h, NEW n, HeapOf(h, n), NEW a \in 0..(n - 1), NEW b \in 0..(n - 1)
  PROVE  LET g == heap_items_swap(h, a, b)
         IN  HeapOf(g, n) /\ InHeap(g) = InHeap(h) /\ g.items = Swapped(h.items, a, b)
  <1> DEFINE f == h.items
             d == h.idx
             x == f[a]
             y == f[b]
             e == [d EXCEPT ![x] = b, ![y] = a]
             w == Swapped(f, a, b)
             g == heap_items_swap(h, a, b)
  <1>1. /\ n \in Nat /\ n <= UINT_MAX /\ f \in [0..(n - 1) -> Items] /\ d \in [Items -> 0..UINT_MAX]
        /\ \A i \in 0..(n - 1) : d[f[i]] = i
        /\ \A z \in Items : d[z] # UINT_MAX => d[z] < n /\ f[d[z]] = z
    BY DEF HeapOf
  <1>2. g.items = w /\ g.idx = e
    BY DEF heap_items_swap, Swapped
  <1> HIDE DEF g
  <1>3. UINT_MAX \in Nat
    BY MaxIsNumber
  <1>4. x \in Items /\ y \in Items /\ d[x] = a /\ d[y] = b
    BY <1>1
  <1>5. /\ w \in [0..(n - 1) -> Items] /\ w[a] = y /\ w[b] = x
        /\ \A i \in 0..(n - 1) : i # a /\ i # b => w[i] = f[i]
    BY <1>1 DEF Swapped
  <1> HIDE DEF f, d, x, y, w
  <1>6. /\ e \in [Items -> 0..UINT_MAX] /\ e[y] = a /\ e[x] = b
        /\ \A z \in Items : z # x /\ z # y => e[z] = d[z]
    <2>1. e \in [Items -> 0..UINT_MAX]
      BY <1>1, <1>3, <1>4
    <2>2. e[y] = a /\ \A z \in Items : z # x /\ z # y => e[z] = d[z]
      BY <1>1, <1>4
    <2>3. e[x] = b
      BY <1>1, <1>4
    <2> QED BY <2>1, <2>2, <2>3
  <1> HIDE DEF e
  <1>7. ASSUME NEW i \in 0..(n - 1) PROVE e[w[i]] = i
    <2>1. CASE i = a \/ i = b
      BY <1>5, <1>6, <2>1
    <2>2. CASE i # a /\ i # b
      <3>1. w[i] = f[i] /\ d[f[i]] = i /\ f[i] \in Items
        BY <1>1, <1>5, <2>2
      <3>2. f[i] # x /\ f[i] # y
        BY <1>4, <2>2, <3>1
      <3> QED BY <1>6, <3>1, <3>2
    <2> QED BY <2>1, <2>2
  <1>8. ASSUME NEW z \in Items
        PROVE  /\ e[z] # UINT_MAX <=> d[z] # UINT_MAX
               /\ e[z] # UINT_MAX => e[z] < n /\ w[e[z]] = z
    <2>1. CASE z = x \/ z = y
      <3>1. a < n /\ b < n /\ a # UINT_MAX /\ b # UINT_MAX
        BY <1>1, <1>3
      <3>2. CASE z = y
        BY <1>4, <1>5, <1>6, <3>1, <3>2
      <3>3. CASE z = x
        BY <1>4, <1>5, <1>6, <3>1, <3>3
      <3> QED BY <2>1, <3>2, <3>3
    <2>2. CASE z # x /\ z # y
      <3>1. e[z] = d[z]
        BY <1>6, <2>2
      <3>2. ASSUME d[z] # UINT_MAX PROVE d[z] < n /\ w[d[z]] = z
        <4>1. d[z] < n /\ f[d[z]] = z /\ d[z] \in 0..(n - 1)
          BY <1>1, <1>3, <3>2
        <4>2. d[z] # a /\ d[z] # b
          BY <2>2, <4>1 DEF x, y
        <4> QED BY <1>5, <4>1, <4>2
      <3> QED BY <3>1, <3>2
    <2> QED BY <2>1, <2>2
  <1>9. HeapOf(g, n)
    BY <1>1, <1>2, <1>5, <1>6, <1>7, <1>8 DEF HeapOf
  <1>10. InHeap(g) = InHeap(h)
    BY <1>2, <1>8 DEF InHeap, d
  <1> QED BY <1>2, <1>9, <1>10 DEF g, w, f

-----------------------------------------------------------------------------
(* heap_item_bubble_up().                                                  *)

RoundsUp(f, h, k, at, n) ==
  f = [j \in 0..n |-> IF j = 0 THEN [heap |-> h, at |-> at] ELSE UpRound(f[j - 1], k)]

LEMMA UpExists ==
  ASSUME NEW h, NEW k, NEW at, NEW n \in Nat
  PROVE  \E f : RoundsUp(f, h, k, at, n)
  <1> DEFINE I == {i \in Nat : ~\E f : RoundsUp(f, h, k, at, i)}
  <1> SUFFICES ASSUME I # {} PROVE FALSE
    OBVIOUS
  <1> DEFINE i == Min(I)
  <1>1. i \in I /\ \A j \in I : i <= j
    <2>1. I \subseteq Nat
      OBVIOUS
    <2> HIDE DEF I
    <2> QED BY <2>1, LeastIndex
  <1> HIDE DEF i
  <1>2. i \in Nat /\ ~\E f : RoundsUp(f, h, k, at, i)
    BY <1>1
  <1>3. CASE i = 0
    <2>1. RoundsUp([j \in 0..0 |-> [heap |-> h, at |-> at]], h, k, at, 0)
      BY DEF RoundsUp
    <2> QED BY <1>2, <1>3, <2>1
  <1>4. CASE i # 0
    <2>1. i - 1 \in Nat /\ i - 1 \notin I
      <3> HIDE DEF I
      <3> QED BY <1>1, <1>2, <1>4
    <2>2. PICK f : RoundsUp(f, h, k, at, i - 1)
      BY <2>1
    <2> DEFINE last == UpRound(f[i - 1], k)
               g == [j \in 0..i |-> IF j = i THEN last ELSE f[j]]
               r == [j \in 0..i |-> IF j = 0 THEN [heap |-> h, at |-> at] ELSE UpRound(g[j - 1], k)]
    <2>3. ASSUME NEW j \in 0..i PROVE g[j] = r[j]
      <3>1. CASE j = i
        <4>1. g[i] = last
          BY <1>2
        <4>2. g[i - 1] = f[i - 1]
          <5>1. i - 1 \in 0..i /\ i - 1 # i
            BY <1>2, <2>1
          <5> HIDE DEF last
          <5> QED BY <5>1
        <4> HIDE DEF g
        <4>3. r[i] = UpRound(g[i - 1], k)
          BY <1>2, <1>4
        <4> HIDE DEF r
        <4> QED BY <3>1, <4>1, <4>2, <4>3
      <3>2. CASE j # i
        <4>1. j \in 0..(i - 1)
          BY <1>2, <3>2
        <4>2. f[j] = IF j = 0 THEN [heap |-> h, at |-> at] ELSE UpRound(f[j - 1], k)
          BY <2>2, <4>1 DEF RoundsUp
        <4>3. g[j] = f[j] /\ (j # 0 => g[j - 1] = f[j - 1])
          <5>1. j \in 0..i /\ (j # 0 => j - 1 \in 0..i /\ j - 1 # i)
            BY <1>2, <4>1
          <5> HIDE DEF last
          <5> QED BY <3>2, <5>1
        <4> HIDE DEF g
        <4> QED BY <4>2, <4>3
      <3> QED BY <3>1, <3>2
    <2>4. g = r
      <3>1. g = [j \in 0..i |-> g[j]] /\ r = [j \in 0..i |-> r[j]]
        OBVIOUS
      <3> HIDE DEF g, r
      <3> QED BY <2>3, <3>1
    <2>5. RoundsUp(g, h, k, at, i)
      BY <2>4 DEF RoundsUp
    <2> HIDE DEF g
    <2> QED BY <1>2, <2>5
  <1> QED BY <1>3, <1>4

LEMMA UpRoundsAre ==
  ASSUME NEW h, NEW k, NEW i \in Nat
  PROVE  /\ UpRounds(h, k, i)[0] = [heap |-> h, at |-> i]
         /\ \A n \in 1..i : UpRounds(h, k, i)[n] = UpRound(UpRounds(h, k, i)[n - 1], k)
  <1> DEFINE r == UpRounds(h, k, i)
  <1>1. PICK f : RoundsUp(f, h, k, i, i)
    BY UpExists
  <1>2. r = [n \in 0..i |-> IF n = 0 THEN [heap |-> h, at |-> i] ELSE UpRound(r[n - 1], k)]
    BY <1>1 DEF UpRounds, RoundsUp
  <1> HIDE DEF r
  <1>3. r[0] = [heap |-> h, at |-> i]
    BY <1>2
  <1>4. ASSUME NEW n \in 1..i PROVE r[n] = UpRound(r[n - 1], k)
    <2>1. n \in 0..i /\ n # 0
      OBVIOUS
    <2> QED BY <1>2, <2>1
  <1> QED BY <1>3, <1>4 DEF r

UpStopped(s, k) == s.at = 0 \/ ~Before(s.heap, k, s.at, PARENT_IDX(s.at))

\* After j of i rounds, with the item at most i - j.
UpState(s, n, S, R, kids) ==
  /\ HeapOf(s.heap, n) /\ InHeap(s.heap) = S /\ s.at \in 0..(n - 1)
  /\ SortedBut(s.heap.items, n, R, s.at)
  /\ kids => KidsSorted(s.heap.items, n, R, s.at)

LEMMA UpRoundKeeps ==
  ASSUME NEW s, NEW n, NEW S, NEW R, NEW k, NEW kids \in BOOLEAN, Order(R, k),
         UpState(s, n, S, R, kids), NEW j \in Int, UpStopped(s, k) \/ s.at <= j
  PROVE  LET t == UpRound(s, k)
         IN  UpState(t, n, S, R, kids) /\ (UpStopped(t, k) \/ t.at <= j - 1)
  <1> DEFINE h == s.heap
             i == s.at
             p == PARENT_IDX(i)
             g == heap_items_swap(h, i, p)
             t == UpRound(s, k)
  <1>1. CASE UpStopped(s, k)
    <2>1. t = s
      BY <1>1 DEF UpRound, UpStopped, UpState
    <2> QED BY <1>1, <2>1
  <1>2. CASE ~UpStopped(s, k)
    <2>1. /\ n \in Nat /\ HeapOf(h, n) /\ h.items \in [0..(n - 1) -> Items] /\ i \in 0..(n - 1) /\ i # 0
          /\ InHeap(h) = S /\ SortedBut(h.items, n, R, i) /\ Before(h, k, i, p) /\ i <= j
      BY <1>2 DEF UpState, UpStopped, HeapOf
    <2>2. i \in 1..(n - 1) /\ p \in 0..(n - 1) /\ p < i
      BY <2>1, ParentFacts
    <2>3. t = [heap |-> g, at |-> p]
      BY <2>1 DEF UpRound
    <2>4. HeapOf(g, n) /\ InHeap(g) = S /\ g.items = Swapped(h.items, i, p)
      BY <2>1, <2>2, SwapHeap
    <2>5. <<h.items[i], h.items[p]>> \in R
      <3>1. h.items[i] \in Items /\ h.items[p] \in Items
        BY <2>1, <2>2
      <3>2. KeyBefore(k, h.items[i], h.items[p])
        BY <2>1 DEF Before, KeyBefore
      <3> QED BY <3>1, <3>2 DEF Order
    <2>6. SortedBut(g.items, n, R, p) /\ KidsSorted(g.items, n, R, p)
      <3> DEFINE f == h.items
      <3> HIDE DEF f
      <3>1. SortedBut(Swapped(f, i, p), n, R, p) /\ KidsSorted(Swapped(f, i, p), n, R, p)
        <4>1. f \in [0..(n - 1) -> Items] /\ SortedBut(f, n, R, i) /\ <<f[i], f[PARENT_IDX(i)]>> \in R
          BY <2>1, <2>5 DEF f
        <4> QED BY <2>1, <2>2, <4>1, SwapUp
      <3> QED BY <2>4, <3>1 DEF f
    <2> HIDE DEF g
    <2>7. t.heap = g /\ t.at = p
      BY <2>3
    <2>8. t.at <= j - 1
      BY <2>1, <2>2, <2>7
    <2>9. UpState(t, n, S, R, kids)
      BY <2>2, <2>4, <2>6, <2>7 DEF UpState
    <2> QED BY <2>8, <2>9
  <1> QED BY <1>1, <1>2

LEMMA BubbleUp ==
  ASSUME NEW h, NEW n, NEW R, NEW k, Order(R, k), HeapOf(h, n), NEW i \in 0..(n - 1),
         SortedBut(h.items, n, R, i)
  PROVE  LET s == heap_item_bubble_up(h, k, i)
         IN  /\ UpState(s, n, InHeap(h), R, KidsSorted(h.items, n, R, i))
             /\ ParentSorted(s.heap.items, R, s.at)
  <1> DEFINE r == UpRounds(h, k, i)
             S == InHeap(h)
             kids == KidsSorted(h.items, n, R, i)
             Good(j) == UpState(r[j], n, S, R, kids) /\ (UpStopped(r[j], k) \/ r[j].at <= i - j)
  <1>1. i \in Nat /\ n \in Nat
    BY DEF HeapOf
  <1>2. r[0] = [heap |-> h, at |-> i] /\ \A j \in 1..i : r[j] = UpRound(r[j - 1], k)
    BY <1>1, UpRoundsAre
  <1> HIDE DEF r, S, kids
  <1>3. kids \in BOOLEAN
    BY DEF kids, KidsSorted
  <1>4. Good(0)
    <2>1. r[0].heap = h /\ r[0].at = i
      BY <1>2
    <2>2. UpState(r[0], n, S, R, kids)
      BY <2>1 DEF UpState, S, kids
    <2> QED BY <1>1, <2>1, <2>2
  <1>5. ASSUME NEW j \in 1..i, Good(j - 1) PROVE Good(j)
    <2> DEFINE s == r[j - 1]
    <2>1. UpState(s, n, S, R, kids) /\ (UpStopped(s, k) \/ s.at <= i - j + 1) /\ i - j + 1 \in Int
      BY <1>1, <1>5
    <2>2. r[j] = UpRound(s, k)
      BY <1>2
    <2> HIDE DEF s
    <2>3. /\ UpState(UpRound(s, k), n, S, R, kids)
          /\ UpStopped(UpRound(s, k), k) \/ UpRound(s, k).at <= (i - j + 1) - 1
      BY <1>3, <2>1, UpRoundKeeps
    <2>4. (i - j + 1) - 1 = i - j
      BY <1>1
    <2> QED BY <2>2, <2>3, <2>4
  <1> HIDE DEF Good
  <1>6. Good(i)
    <2> DEFINE I == {j \in 0..i : ~Good(j)}
    <2> SUFFICES ASSUME I # {} PROVE FALSE
      BY <1>1
    <2> DEFINE m == Min(I)
    <2>1. m \in I /\ \A j \in I : m <= j
      <3>1. I \subseteq Nat
        BY <1>1
      <3> HIDE DEF I
      <3> QED BY <3>1, LeastIndex
    <2> HIDE DEF m
    <2>2. m \in 0..i /\ ~Good(m)
      BY <2>1
    <2>3. m # 0
      BY <1>4, <2>2
    <2>4. m \in 1..i /\ m - 1 \in 0..i /\ m - 1 \notin I
      BY <1>1, <2>1, <2>2, <2>3
    <2>5. Good(m - 1)
      BY <2>4
    <2> QED BY <1>5, <2>2, <2>4, <2>5
  <1> DEFINE s == r[i]
  <1>7. UpState(s, n, S, R, kids) /\ (UpStopped(s, k) \/ s.at <= 0)
    BY <1>1, <1>6 DEF Good
  <1>8. s = heap_item_bubble_up(h, k, i)
    BY DEF heap_item_bubble_up, r
  <1> HIDE DEF s
  <1>9. ParentSorted(s.heap.items, R, s.at)
    <2> SUFFICES ASSUME s.at > 0 PROVE <<s.heap.items[PARENT_IDX(s.at)], s.heap.items[s.at]>> \in R
      BY DEF ParentSorted
    <2> DEFINE f == s.heap.items
               a == s.at
    <2>1. a \in 0..(n - 1) /\ f \in [0..(n - 1) -> Items] /\ n \in Nat
      BY <1>7 DEF UpState, HeapOf
    <2>2. ~KeyBefore(k, f[a], f[PARENT_IDX(a)])
      BY <1>7, <2>1 DEF UpStopped, Before, KeyBefore
    <2>3. PARENT_IDX(a) \in 0..(n - 1)
      BY <2>1, ParentFacts
    <2>4. f[a] \in Items /\ f[PARENT_IDX(a)] \in Items
      BY <2>1, <2>3
    <2> HIDE DEF f, a
    <2>5. <<f[PARENT_IDX(a)], f[a]>> \in R
      BY <2>2, <2>4 DEF Order
    <2> QED BY <2>5 DEF f, a
  <1> QED BY <1>7, <1>8, <1>9 DEF S, kids

-----------------------------------------------------------------------------
(* heap_item_bubble_down().                                                *)

RoundsDown(f, h, k, at, n) ==
  f = [j \in 0..n |-> IF j = 0 THEN [heap |-> h, at |-> at] ELSE DownRound(f[j - 1], k)]

LEMMA DownExists ==
  ASSUME NEW h, NEW k, NEW at, NEW n \in Nat
  PROVE  \E f : RoundsDown(f, h, k, at, n)
  <1> DEFINE I == {i \in Nat : ~\E f : RoundsDown(f, h, k, at, i)}
  <1> SUFFICES ASSUME I # {} PROVE FALSE
    OBVIOUS
  <1> DEFINE i == Min(I)
  <1>1. i \in I /\ \A j \in I : i <= j
    <2>1. I \subseteq Nat
      OBVIOUS
    <2> HIDE DEF I
    <2> QED BY <2>1, LeastIndex
  <1> HIDE DEF i
  <1>2. i \in Nat /\ ~\E f : RoundsDown(f, h, k, at, i)
    BY <1>1
  <1>3. CASE i = 0
    <2>1. RoundsDown([j \in 0..0 |-> [heap |-> h, at |-> at]], h, k, at, 0)
      BY DEF RoundsDown
    <2> QED BY <1>2, <1>3, <2>1
  <1>4. CASE i # 0
    <2>1. i - 1 \in Nat /\ i - 1 \notin I
      <3> HIDE DEF I
      <3> QED BY <1>1, <1>2, <1>4
    <2>2. PICK f : RoundsDown(f, h, k, at, i - 1)
      BY <2>1
    <2> DEFINE last == DownRound(f[i - 1], k)
               g == [j \in 0..i |-> IF j = i THEN last ELSE f[j]]
               r == [j \in 0..i |-> IF j = 0 THEN [heap |-> h, at |-> at] ELSE DownRound(g[j - 1], k)]
    <2>3. ASSUME NEW j \in 0..i PROVE g[j] = r[j]
      <3>1. CASE j = i
        <4>1. g[i] = last
          BY <1>2
        <4>2. g[i - 1] = f[i - 1]
          <5>1. i - 1 \in 0..i /\ i - 1 # i
            BY <1>2, <2>1
          <5> HIDE DEF last
          <5> QED BY <5>1
        <4> HIDE DEF g
        <4>3. r[i] = DownRound(g[i - 1], k)
          BY <1>2, <1>4
        <4> HIDE DEF r
        <4> QED BY <3>1, <4>1, <4>2, <4>3
      <3>2. CASE j # i
        <4>1. j \in 0..(i - 1)
          BY <1>2, <3>2
        <4>2. f[j] = IF j = 0 THEN [heap |-> h, at |-> at] ELSE DownRound(f[j - 1], k)
          BY <2>2, <4>1 DEF RoundsDown
        <4>3. g[j] = f[j] /\ (j # 0 => g[j - 1] = f[j - 1])
          <5>1. j \in 0..i /\ (j # 0 => j - 1 \in 0..i /\ j - 1 # i)
            BY <1>2, <4>1
          <5> HIDE DEF last
          <5> QED BY <3>2, <5>1
        <4> HIDE DEF g
        <4> QED BY <4>2, <4>3
      <3> QED BY <3>1, <3>2
    <2>4. g = r
      <3>1. g = [j \in 0..i |-> g[j]] /\ r = [j \in 0..i |-> r[j]]
        OBVIOUS
      <3> HIDE DEF g, r
      <3> QED BY <2>3, <3>1
    <2>5. RoundsDown(g, h, k, at, i)
      BY <2>4 DEF RoundsDown
    <2> HIDE DEF g
    <2> QED BY <1>2, <2>5
  <1> QED BY <1>3, <1>4

LEMMA DownRoundsAre ==
  ASSUME NEW h, NEW k, NEW i, Count(h) \in Nat
  PROVE  /\ DownRounds(h, k, i)[0] = [heap |-> h, at |-> i]
         /\ \A n \in 1..Count(h) :
              DownRounds(h, k, i)[n] = DownRound(DownRounds(h, k, i)[n - 1], k)
  <1> DEFINE r == DownRounds(h, k, i)
             c == Count(h)
  <1>1. PICK f : RoundsDown(f, h, k, i, c)
    BY DownExists
  <1>2. r = [n \in 0..c |-> IF n = 0 THEN [heap |-> h, at |-> i] ELSE DownRound(r[n - 1], k)]
    BY <1>1 DEF DownRounds, RoundsDown
  <1> HIDE DEF r, c
  <1>3. c \in Nat
    BY DEF c
  <1>4. r[0] = [heap |-> h, at |-> i]
    BY <1>2, <1>3
  <1>5. ASSUME NEW n \in 1..c PROVE r[n] = DownRound(r[n - 1], k)
    <2>1. n \in 0..c /\ n # 0
      BY <1>3
    <2> QED BY <1>2, <2>1
  <1> QED BY <1>4, <1>5 DEF r, c

\* The better of the children of i.
LEMMA MinChildIs ==
  ASSUME NEW h, NEW n, NEW R, NEW k, Order(R, k), HeapOf(h, n), NEW i \in 0..(n - 1),
         LEFT_CHILD_IDX(i) < n
  PROVE  LET c == MinChild(h, k, i)
         IN  /\ c \in 1..(n - 1) /\ PARENT_IDX(c) = i
             /\ \A j \in 1..(n - 1) : PARENT_IDX(j) = i => <<h.items[c], h.items[j]>> \in R
  <1> DEFINE f == h.items
             a == LEFT_CHILD_IDX(i)
             b == RIGHT_CHILD_IDX(i)
             c == MinChild(h, k, i)
  <1>1. n \in Nat /\ f \in [0..(n - 1) -> Items] /\ Count(h) = n /\ i \in Nat
    <2>1. Count(h) = n
      BY HeapCount
    <2>2. n \in Nat /\ f \in [0..(n - 1) -> Items]
      BY DEF HeapOf
    <2> QED BY <2>1, <2>2
  <1>2. a \in 1..(n - 1) /\ PARENT_IDX(a) = i /\ PARENT_IDX(b) = i /\ b = a + 1
    <2>1. /\ PARENT_IDX(a) = i /\ PARENT_IDX(b) = i /\ a \in Nat /\ a > i /\ b = a + 1 /\ a < n
      BY <1>1, ChildFacts
    <2> HIDE DEF a, b
    <2> QED BY <1>1, <2>1
  <1>3. \A j \in 1..(n - 1) : PARENT_IDX(j) = i => j = a \/ j = b
    BY ParentFacts
  <1>4. c = IF b >= n \/ KeyBefore(k, f[a], f[b]) THEN a ELSE b
    BY <1>1 DEF MinChild, Before, KeyBefore
  <1> HIDE DEF f, a, b, c
  <1>5. \A x \in Items : <<x, x>> \in R
    BY DEF Order
  <1>6. CASE b >= n
    <2>1. c = a /\ \A j \in 1..(n - 1) : PARENT_IDX(j) = i => j = a
      BY <1>1, <1>2, <1>3, <1>4, <1>6
    <2>2. f[a] \in Items
      BY <1>1, <1>2
    <2> QED BY <1>2, <1>5, <2>1, <2>2 DEF c, f
  <1>7. CASE ~(b >= n)
    <2>1. b \in 1..(n - 1) /\ f[a] \in Items /\ f[b] \in Items
      BY <1>1, <1>2, <1>7
    <2>2. c \in {a, b} /\ <<f[c], f[a]>> \in R /\ <<f[c], f[b]>> \in R
      BY <1>4, <1>5, <1>7, <2>1 DEF Order
    <2> QED BY <1>2, <1>3, <2>1, <2>2 DEF c, f
  <1> QED BY <1>6, <1>7

DownStopped(s, k) ==
  \/ ~(LEFT_CHILD_IDX(s.at) < Count(s.heap))
  \/ ~Before(s.heap, k, MinChild(s.heap, k, s.at), s.at)

DownState(s, n, S, R) ==
  /\ HeapOf(s.heap, n) /\ InHeap(s.heap) = S /\ s.at \in 0..(n - 1)
  /\ SortedBut(s.heap.items, n, R, s.at) /\ ParentSorted(s.heap.items, R, s.at)

LEMMA DownRoundKeeps ==
  ASSUME NEW s, NEW n, NEW S, NEW R, NEW k, Order(R, k), DownState(s, n, S, R),
         NEW j \in Int, DownStopped(s, k) \/ s.at >= j
  PROVE  LET t == DownRound(s, k)
         IN  DownState(t, n, S, R) /\ (DownStopped(t, k) \/ t.at >= j + 1)
  <1> DEFINE h == s.heap
             i == s.at
             c == MinChild(h, k, i)
             g == heap_items_swap(h, i, c)
             t == DownRound(s, k)
  <1>1. CASE DownStopped(s, k)
    <2>1. t = s
      BY <1>1 DEF DownRound, DownStopped
    <2> QED BY <1>1, <2>1
  <1>2. CASE ~DownStopped(s, k)
    <2>1. /\ n \in Nat /\ HeapOf(h, n) /\ h.items \in [0..(n - 1) -> Items] /\ i \in 0..(n - 1)
          /\ InHeap(h) = S /\ SortedBut(h.items, n, R, i) /\ ParentSorted(h.items, R, i)
          /\ LEFT_CHILD_IDX(i) < Count(h) /\ Before(h, k, c, i) /\ i >= j
      BY <1>2 DEF DownState, DownStopped, HeapOf
    <2>2. LEFT_CHILD_IDX(i) < n
      BY <2>1, HeapCount
    <2>3. /\ c \in 1..(n - 1) /\ PARENT_IDX(c) = i
          /\ \A m \in 1..(n - 1) : PARENT_IDX(m) = i => <<h.items[c], h.items[m]>> \in R
      BY <2>1, <2>2, MinChildIs
    <2>4. t = [heap |-> g, at |-> c]
      BY <2>1 DEF DownRound
    <2> HIDE DEF c
    <2>5. i < c /\ c \in 0..(n - 1)
      BY <2>1, <2>3, ParentFacts
    <2>6. HeapOf(g, n) /\ InHeap(g) = S /\ g.items = Swapped(h.items, i, c)
      BY <2>1, <2>5, SwapHeap
    <2>7. <<h.items[c], h.items[i]>> \in R
      <3>1. h.items[i] \in Items /\ h.items[c] \in Items
        BY <2>1, <2>5
      <3>2. KeyBefore(k, h.items[c], h.items[i])
        BY <2>1 DEF Before, KeyBefore
      <3> QED BY <3>1, <3>2 DEF Order
    <2>8. SortedBut(g.items, n, R, c) /\ ParentSorted(g.items, R, c)
      <3> DEFINE f == h.items
      <3>1. /\ f \in [0..(n - 1) -> Items] /\ SortedBut(f, n, R, i) /\ ParentSorted(f, R, i)
            /\ <<f[c], f[i]>> \in R
            /\ \A m \in 1..(n - 1) : PARENT_IDX(m) = i => <<f[c], f[m]>> \in R
        BY <2>1, <2>3, <2>7
      <3>2. g.items = Swapped(f, i, c)
        BY <2>6
      <3> HIDE DEF f
      <3>3. SortedBut(Swapped(f, i, c), n, R, c) /\ ParentSorted(Swapped(f, i, c), R, c)
        BY <2>1, <2>3, <3>1, SwapDown
      <3> QED BY <3>2, <3>3
    <2> HIDE DEF g
    <2>9. t.heap = g /\ t.at = c
      BY <2>4
    <2>10. t.at >= j + 1
      BY <2>1, <2>5, <2>9
    <2>11. DownState(t, n, S, R)
      BY <2>5, <2>6, <2>8, <2>9 DEF DownState
    <2> QED BY <2>10, <2>11
  <1> QED BY <1>1, <1>2

LEMMA BubbleDown ==
  ASSUME NEW h, NEW n, NEW R, NEW k, Order(R, k), HeapOf(h, n), NEW i \in 0..(n - 1),
         SortedBut(h.items, n, R, i), ParentSorted(h.items, R, i)
  PROVE  LET g == heap_item_bubble_down(h, k, i)
         IN  HeapOf(g, n) /\ InHeap(g) = InHeap(h) /\ Sorted(g.items, n, R)
  <1> DEFINE r == DownRounds(h, k, i)
             S == InHeap(h)
             Good(j) == DownState(r[j], n, S, R) /\ (DownStopped(r[j], k) \/ r[j].at >= j)
  <1>1. n \in Nat /\ Count(h) = n
    BY HeapCount DEF HeapOf
  <1>2. r[0] = [heap |-> h, at |-> i] /\ \A j \in 1..n : r[j] = DownRound(r[j - 1], k)
    BY <1>1, DownRoundsAre
  <1> HIDE DEF r, S
  <1>3. Good(0)
    <2>1. r[0].heap = h /\ r[0].at = i
      BY <1>2
    <2>2. DownState(r[0], n, S, R)
      BY <2>1 DEF DownState, S
    <2> QED BY <1>1, <2>1, <2>2
  <1>4. ASSUME NEW j \in 1..n, Good(j - 1) PROVE Good(j)
    <2> DEFINE s == r[j - 1]
    <2>1. DownState(s, n, S, R) /\ (DownStopped(s, k) \/ s.at >= j - 1) /\ j - 1 \in Int
      BY <1>1, <1>4
    <2>2. r[j] = DownRound(s, k)
      BY <1>2
    <2> HIDE DEF s
    <2>3. /\ DownState(DownRound(s, k), n, S, R)
          /\ DownStopped(DownRound(s, k), k) \/ DownRound(s, k).at >= (j - 1) + 1
      BY <2>1, DownRoundKeeps
    <2>4. (j - 1) + 1 = j
      BY <1>1
    <2> QED BY <2>2, <2>3, <2>4
  <1> HIDE DEF Good
  <1>5. Good(n)
    <2> DEFINE I == {j \in 0..n : ~Good(j)}
    <2> SUFFICES ASSUME I # {} PROVE FALSE
      BY <1>1
    <2> DEFINE m == Min(I)
    <2>1. m \in I /\ \A j \in I : m <= j
      <3>1. I \subseteq Nat
        BY <1>1
      <3> HIDE DEF I
      <3> QED BY <3>1, LeastIndex
    <2> HIDE DEF m
    <2>2. m \in 0..n /\ ~Good(m)
      BY <2>1
    <2>3. m # 0
      BY <1>3, <2>2
    <2>4. m \in 1..n /\ m - 1 \in 0..n /\ m - 1 \notin I
      BY <1>1, <2>1, <2>2, <2>3
    <2>5. Good(m - 1)
      BY <2>4
    <2> QED BY <1>4, <2>2, <2>4, <2>5
  <1> DEFINE s == r[n]
             g == s.heap
             f == g.items
             a == s.at
             c == MinChild(g, k, a)
  <1>6. DownState(s, n, S, R) /\ DownStopped(s, k)
    BY <1>1, <1>5 DEF Good, DownState
  <1>7. heap_item_bubble_down(h, k, i) = g
    BY <1>1 DEF heap_item_bubble_down, r
  <1>8. /\ HeapOf(g, n) /\ InHeap(g) = S /\ f \in [0..(n - 1) -> Items] /\ a \in 0..(n - 1)
        /\ SortedBut(f, n, R, a) /\ ParentSorted(f, R, a) /\ Count(g) = n
    <2>1. /\ HeapOf(g, n) /\ InHeap(g) = S /\ a \in 0..(n - 1)
          /\ SortedBut(f, n, R, a) /\ ParentSorted(f, R, a)
      BY <1>6 DEF DownState
    <2>2. Count(g) = n
      BY <2>1, HeapCount
    <2>3. f \in [0..(n - 1) -> Items]
      BY <2>1 DEF HeapOf
    <2> QED BY <2>1, <2>2, <2>3
  <1>9. KidsSorted(f, n, R, a)
    <2> SUFFICES ASSUME NEW j \in 1..(n - 1), PARENT_IDX(j) = a PROVE <<f[a], f[j]>> \in R
      BY DEF KidsSorted
    <2>1. a \in Nat /\ (j = LEFT_CHILD_IDX(a) \/ j = RIGHT_CHILD_IDX(a))
      BY <1>8, ParentFacts
    <2>2. LEFT_CHILD_IDX(a) < n
      BY <1>1, <2>1, ChildFacts
    <2>3. c \in 1..(n - 1) /\ <<f[c], f[j]>> \in R
      BY <1>8, <2>2, MinChildIs
    <2>4. ~KeyBefore(k, f[c], f[a])
      BY <1>6, <1>8, <2>2 DEF DownStopped, Before, KeyBefore
    <2> HIDE DEF c, f, a
    <2>5. f[c] \in Items /\ f[a] \in Items /\ f[j] \in Items
      BY <1>8, <2>3
    <2>6. <<f[a], f[c]>> \in R
      BY <2>4, <2>5 DEF Order
    <2> QED BY <2>3, <2>5, <2>6 DEF Order
  <1>10. Sorted(f, n, R)
    <2> HIDE DEF f, a
    <2> QED BY <1>1, <1>8, <1>9, Unholed
  <1> QED BY <1>7, <1>8, <1>10 DEF S

-----------------------------------------------------------------------------
(* Adding and removing an item.                                            *)

LEMMA HeapSize ==
  ASSUME NEW h, NEW n, HeapOf(h, n)
  PROVE  /\ InHeap(h) = {h.items[i] : i \in DOMAIN h.items}
         /\ IsFiniteSet(InHeap(h)) /\ Cardinality(InHeap(h)) = n
  <1> DEFINE f == h.items
             D == 0..(n - 1)
             T == InHeap(h)
  <1>1. /\ n \in Nat /\ n <= UINT_MAX /\ f \in [D -> Items] /\ h.idx \in [Items -> 0..UINT_MAX]
        /\ \A i \in D : h.idx[f[i]] = i
        /\ \A x \in Items : h.idx[x] # UINT_MAX => h.idx[x] < n /\ f[h.idx[x]] = x
    BY DEF HeapOf
  <1>2. UINT_MAX \in Nat
    BY MaxIsNumber
  <1>3. \A i \in D : f[i] \in T
    BY <1>1, <1>2 DEF InHeap
  <1>4. \A x \in T : h.idx[x] \in D /\ f[h.idx[x]] = x
    BY <1>1, <1>2 DEF InHeap
  <1>5. IsFiniteSet(D) /\ Cardinality(D) = n
    <2>1. 0 \in Int /\ n - 1 \in Int
      BY <1>1
    <2>2. IsFiniteSet(D) /\ Cardinality(D) = IF 0 > n - 1 THEN 0 ELSE (n - 1) - 0 + 1
      BY <2>1, FS_Interval
    <2> QED BY <1>1, <2>2
  <1>6. DOMAIN f = D /\ \A i, j \in D : f[i] = f[j] => i = j
    BY <1>1
  <1> HIDE DEF f, D, T
  <1>7. f \in [D -> T]
    BY <1>1, <1>3
  <1>8. f \in Bijection(D, T)
    BY <1>4, <1>6, <1>7 DEF Bijection, Injection, Surjection, IsInjective
  <1>9. IsFiniteSet(T) /\ Cardinality(T) = n
    <2>1. ExistsBijection(D, T)
      BY <1>8 DEF ExistsBijection
    <2> QED BY <1>5, <2>1, FS_Bijection
  <1>10. T = {f[i] : i \in DOMAIN f}
    BY <1>3, <1>4, <1>6
  <1> QED BY <1>9, <1>10 DEF T, f

\* There is room for an item that is not in the heap.
LEMMA HeapRoom ==
  ASSUME NEW h, NEW n, HeapOf(h, n), NEW item \in Items, item \notin InHeap(h)
  PROVE  n < UINT_MAX
  <1> DEFINE T == InHeap(h)
             U == Items \ {item}
  <1>1. Cardinality(T) = n /\ n \in Nat /\ UINT_MAX \in Nat
    BY HeapSize, MaxIsNumber DEF HeapOf
  <1>2. T \subseteq U
    BY DEF InHeap
  <1>3. IsFiniteSet(U) /\ Cardinality(U) = UINT_MAX - 1
    BY PriorityAssumption, FS_RemoveElement DEF UINT_MAX
  <1> HIDE DEF T, U
  <1>4. Cardinality(T) <= Cardinality(U)
    BY <1>2, <1>3, FS_Subset
  <1> QED BY <1>1, <1>3, <1>4

LEMMA Adds ==
  ASSUME NEW h, NEW n, NEW R, NEW k, Order(R, k), HeapOf(h, n), NEW item \in Items,
         item \notin InHeap(h), Sorted(h.items, n, R)
  PROVE  LET g == HeapAdd(h, k, item)
         IN  HeapOf(g, n + 1) /\ InHeap(g) = InHeap(h) \cup {item} /\ Sorted(g.items, n + 1, R)
  <1> DEFINE f == h.items
             d == h.idx
             w == [i \in 0..n |-> IF i = n THEN item ELSE f[i]]
             e == [d EXCEPT ![item] = n]
             app == [items |-> w, idx |-> e]
             s == heap_item_bubble_up(app, k, n)
  <1>1. /\ n \in Nat /\ n <= UINT_MAX /\ f \in [0..(n - 1) -> Items] /\ d \in [Items -> 0..UINT_MAX]
        /\ \A i \in 0..(n - 1) : d[f[i]] = i
        /\ \A x \in Items : d[x] # UINT_MAX => d[x] < n /\ f[d[x]] = x
    BY DEF HeapOf
  <1>2. n < UINT_MAX /\ UINT_MAX \in Nat /\ n + 1 \in Nat /\ (n + 1) - 1 = n
    BY <1>1, HeapRoom, MaxIsNumber
  <1>3. d[item] = UINT_MAX
    BY <1>1 DEF InHeap
  <1>4. HeapAdd(h, k, item) = s.heap
    <2>1. Count(h) = n
      BY HeapCount
    <2> QED BY <2>1 DEF HeapAdd
  <1>5. app.items = w /\ app.idx = e
    OBVIOUS
  <1> HIDE DEF f, d, app
  <1>6. /\ w \in [0..n -> Items] /\ w[n] = item /\ \A i \in 0..(n - 1) : w[i] = f[i]
    BY <1>1
  <1>7. /\ e \in [Items -> 0..UINT_MAX] /\ e[item] = n
        /\ \A x \in Items : x # item => e[x] = d[x]
    BY <1>1, <1>2
  <1> HIDE DEF w, e
  <1>8. HeapOf(app, n + 1)
    <2>1. ASSUME NEW i \in 0..n PROVE e[w[i]] = i
      <3>1. CASE i = n
        BY <1>6, <1>7, <3>1
      <3>2. CASE i # n
        <4>1. i \in 0..(n - 1)
          BY <1>1, <3>2
        <4>2. w[i] = f[i] /\ f[i] \in Items /\ d[f[i]] = i
          BY <1>1, <1>6, <4>1
        <4>3. f[i] # item
          BY <1>2, <1>3, <4>1, <4>2
        <4> QED BY <1>7, <4>2, <4>3
      <3> QED BY <3>1, <3>2
    <2>2. ASSUME NEW x \in Items, e[x] # UINT_MAX PROVE e[x] < n + 1 /\ w[e[x]] = x
      <3>1. CASE x = item
        BY <1>1, <1>6, <1>7, <3>1
      <3>2. CASE x # item
        <4>1. e[x] = d[x] /\ d[x] < n /\ f[d[x]] = x /\ d[x] \in 0..(n - 1)
          BY <1>1, <1>2, <1>7, <2>2, <3>2
        <4> QED BY <1>1, <1>6, <4>1
      <3> QED BY <3>1, <3>2
    <2>3. n + 1 <= UINT_MAX
      BY <1>1, <1>2
    <2> QED BY <1>2, <1>5, <1>6, <1>7, <2>1, <2>2, <2>3 DEF HeapOf
  <1>9. InHeap(app) = InHeap(h) \cup {item}
    <2>1. \A x \in Items : e[x] # UINT_MAX <=> d[x] # UINT_MAX \/ x = item
      BY <1>2, <1>7
    <2> QED BY <1>5, <2>1 DEF InHeap, d
  <1>10. SortedBut(w, n + 1, R, n) /\ KidsSorted(w, n + 1, R, n)
    <2>1. ASSUME NEW j \in 1..n PROVE PARENT_IDX(j) # n /\ PARENT_IDX(j) \in 0..(n - 1)
      BY <1>1, ParentFacts
    <2>2. ASSUME NEW j \in 1..n, j # n PROVE <<w[PARENT_IDX(j)], w[j]>> \in R
      <3>1. j \in 1..(n - 1) /\ j \in 0..(n - 1)
        BY <1>1, <2>2
      <3>2. w[PARENT_IDX(j)] = f[PARENT_IDX(j)] /\ w[j] = f[j]
        BY <1>6, <2>1, <3>1
      <3>3. <<f[PARENT_IDX(j)], f[j]>> \in R
        BY <3>1 DEF Sorted, f
      <3> QED BY <3>2, <3>3
    <2> QED BY <1>2, <2>1, <2>2 DEF SortedBut, KidsSorted
  <1>11. n \in 0..((n + 1) - 1)
    BY <1>1
  <1>12. /\ UpState(s, n + 1, InHeap(app), R, KidsSorted(app.items, n + 1, R, n))
         /\ ParentSorted(s.heap.items, R, s.at)
    BY <1>5, <1>8, <1>10, <1>11, BubbleUp
  <1> DEFINE u == s.heap.items
             a == s.at
  <1>13. /\ HeapOf(s.heap, n + 1) /\ InHeap(s.heap) = InHeap(app)
         /\ u \in [0..((n + 1) - 1) -> Items] /\ a \in 0..((n + 1) - 1)
         /\ SortedBut(u, n + 1, R, a) /\ KidsSorted(u, n + 1, R, a) /\ ParentSorted(u, R, a)
    BY <1>5, <1>10, <1>12 DEF UpState, HeapOf
  <1>14. Sorted(u, n + 1, R)
    <2> HIDE DEF u, a
    <2> QED BY <1>2, <1>13, Unholed
  <1> HIDE DEF s
  <1> QED BY <1>4, <1>9, <1>13, <1>14

\* The last item takes the place of the removed one.
LEMMA Shrinks ==
  ASSUME NEW h, NEW n, NEW R, NEW k, Order(R, k), HeapOf(h, n), NEW i \in 0..(n - 1),
         Sorted(h.items, n, R)
  PROVE  LET g == Shrunk(h, i)
         IN  /\ HeapOf(g, n - 1) /\ InHeap(g) = InHeap(h) \ {h.items[i]}
             /\ i < n - 1 => SortedBut(g.items, n - 1, R, i)
             /\ i = n - 1 => Sorted(g.items, n - 1, R)
  <1> DEFINE l == n - 1
             b == heap_items_swap(h, i, l)
             f == b.items
             d == b.idx
             x == h.items[i]
             w == Restrict(f, 0..(l - 1))
             e == [d EXCEPT ![x] = UINT_MAX]
             g == Shrunk(h, i)
  <1>1. n \in Nat /\ l \in Nat /\ l \in 0..(n - 1) /\ UINT_MAX \in Nat /\ n <= UINT_MAX
    BY MaxIsNumber DEF HeapOf
  <1>2. HeapOf(b, n) /\ InHeap(b) = InHeap(h) /\ f = Swapped(h.items, i, l)
    BY <1>1, SwapHeap
  <1>3. g.items = w /\ g.idx = e
    <2>1. Count(h) = n
      BY HeapCount
    <2> QED BY <2>1 DEF Shrunk
  <1>4. /\ f \in [0..(n - 1) -> Items] /\ d \in [Items -> 0..UINT_MAX]
        /\ \A j \in 0..(n - 1) : d[f[j]] = j
        /\ \A y \in Items : d[y] # UINT_MAX => d[y] < n /\ f[d[y]] = y
    BY <1>2 DEF HeapOf
  <1>5. /\ x \in Items /\ f[l] = x
        /\ \A j \in 0..(n - 1) : j # i /\ j # l => f[j] = h.items[j]
    <2>1. h.items \in [0..(n - 1) -> Items]
      BY DEF HeapOf
    <2> QED BY <1>1, <1>2, <2>1 DEF Swapped
  <1>6. InHeap(b) = {y \in Items : d[y] # UINT_MAX}
    BY DEF InHeap
  <1> HIDE DEF b, f, d, g, x
  <1>7. w \in [0..(l - 1) -> Items] /\ \A j \in 0..(l - 1) : w[j] = f[j]
    BY <1>1, <1>4 DEF Restrict
  <1>8. /\ e \in [Items -> 0..UINT_MAX] /\ e[x] = UINT_MAX
        /\ \A y \in Items : y # x => e[y] = d[y]
    BY <1>1, <1>4, <1>5
  <1> HIDE DEF w, e
  <1>9. HeapOf(g, l)
    <2>1. ASSUME NEW j \in 0..(l - 1) PROVE e[w[j]] = j
      <3>1. j \in 0..(n - 1) /\ j # l
        BY <1>1
      <3>2. w[j] = f[j] /\ f[j] \in Items /\ d[f[j]] = j /\ d[f[l]] = l
        BY <1>1, <1>4, <1>7, <3>1
      <3>3. f[j] # x
        BY <1>5, <3>1, <3>2
      <3> QED BY <1>8, <3>2, <3>3
    <2>2. ASSUME NEW y \in Items, e[y] # UINT_MAX PROVE e[y] < l /\ w[e[y]] = y
      <3>1. y # x /\ e[y] = d[y] /\ d[y] < n /\ f[d[y]] = y
        BY <1>4, <1>8, <2>2
      <3>2. d[y] # l
        BY <1>5, <3>1
      <3>3. d[y] \in 0..(l - 1)
        BY <1>1, <1>4, <3>1, <3>2
      <3> QED BY <1>1, <1>7, <3>1, <3>3
    <2>3. l <= UINT_MAX
      BY <1>1
    <2> QED BY <1>1, <1>3, <1>7, <1>8, <2>1, <2>2, <2>3 DEF HeapOf
  <1>10. InHeap(g) = InHeap(h) \ {x}
    BY <1>2, <1>3, <1>6, <1>8 DEF InHeap
  <1>11. \A j \in 1..(l - 1) : PARENT_IDX(j) \in 0..(l - 1) /\ j \in 0..(l - 1) /\ j \in 1..(n - 1)
    BY <1>1, ParentFacts
  <1>12. \A j \in 0..(l - 1) : j # i => w[j] = h.items[j]
    BY <1>1, <1>5, <1>7
  <1>13. SortedBut(h.items, n, R, i)
    BY <1>1, Unholed DEF HeapOf
  <1>14. ASSUME i < l PROVE SortedBut(w, l, R, i)
    <2>1. ASSUME NEW j \in 1..(l - 1), j # i, PARENT_IDX(j) # i
          PROVE  <<w[PARENT_IDX(j)], w[j]>> \in R
      <3>1. w[PARENT_IDX(j)] = h.items[PARENT_IDX(j)] /\ w[j] = h.items[j] /\ j \in 1..(n - 1)
        BY <1>11, <1>12, <2>1
      <3> QED BY <2>1, <3>1 DEF Sorted
    <2>2. ASSUME NEW j \in 1..(l - 1), i > 0, PARENT_IDX(j) = i
          PROVE  <<w[PARENT_IDX(i)], w[j]>> \in R
      <3>1. /\ j \in 1..(n - 1) /\ j \in 0..(l - 1) /\ j # i
            /\ PARENT_IDX(i) \in 0..(l - 1) /\ PARENT_IDX(i) # i
        BY <1>1, <1>11, <1>14, <2>2, ParentFacts
      <3>2. w[PARENT_IDX(i)] = h.items[PARENT_IDX(i)] /\ w[j] = h.items[j]
        BY <1>12, <3>1
      <3> QED BY <1>13, <2>2, <3>1, <3>2 DEF SortedBut
    <2> QED BY <2>1, <2>2 DEF SortedBut
  <1>15. ASSUME i = l PROVE Sorted(w, l, R)
    <2> SUFFICES ASSUME NEW j \in 1..(l - 1) PROVE <<w[PARENT_IDX(j)], w[j]>> \in R
      BY DEF Sorted
    <2>1. PARENT_IDX(j) # i /\ j # i
      BY <1>1, <1>11, <1>15
    <2>2. w[PARENT_IDX(j)] = h.items[PARENT_IDX(j)] /\ w[j] = h.items[j] /\ j \in 1..(n - 1)
      BY <1>11, <1>12, <2>1
    <2> QED BY <2>2 DEF Sorted
  <1> QED BY <1>3, <1>9, <1>10, <1>14, <1>15 DEF g, x

LEMMA Removes ==
  ASSUME NEW h, NEW n, NEW R, NEW k, Order(R, k), HeapOf(h, n), NEW i \in 0..(n - 1),
         Sorted(h.items, n, R)
  PROVE  LET g == priorityq_remove_idx(h, k, i)
         IN  /\ HeapOf(g, n - 1) /\ InHeap(g) = InHeap(h) \ {h.items[i]}
             /\ Sorted(g.items, n - 1, R)
  <1> DEFINE m == n - 1
             b == Shrunk(h, i)
             s == heap_item_bubble_up(b, k, i)
             u == s.heap
             g == heap_item_bubble_down(u, k, s.at)
  <1>1. /\ HeapOf(b, m) /\ InHeap(b) = InHeap(h) \ {h.items[i]}
        /\ i < m => SortedBut(b.items, m, R, i)
        /\ i = m => Sorted(b.items, m, R)
    BY Shrinks
  <1>2. priorityq_remove_idx(h, k, i) = IF i < m THEN g ELSE b
    <2>1. Count(h) = n
      BY HeapCount
    <2> QED BY <2>1 DEF priorityq_remove_idx
  <1>3. n \in Nat /\ m \in Nat
    BY <1>1 DEF HeapOf
  <1> HIDE DEF b
  <1>4. CASE i < m
    <2>1. i \in 0..(m - 1)
      BY <1>3, <1>4
    <2>2. UpState(s, m, InHeap(b), R, KidsSorted(b.items, m, R, i)) /\ ParentSorted(u.items, R, s.at)
      <3> HIDE DEF m
      <3> QED BY <1>1, <1>4, <2>1, BubbleUp
    <2> HIDE DEF s
    <2>3. /\ HeapOf(u, m) /\ InHeap(u) = InHeap(b) /\ s.at \in 0..(m - 1)
          /\ SortedBut(u.items, m, R, s.at)
      BY <2>2 DEF UpState
    <2> HIDE DEF u
    <2>4. HeapOf(g, m) /\ InHeap(g) = InHeap(u) /\ Sorted(g.items, m, R)
      <3> HIDE DEF m
      <3> QED BY <2>2, <2>3, BubbleDown
    <2> HIDE DEF g
    <2> QED BY <1>1, <1>2, <1>4, <2>3, <2>4
  <1>5. CASE ~(i < m)
    <2>1. i = m
      BY <1>3, <1>5
    <2> QED BY <1>1, <1>2, <1>5, <2>1
  <1> QED BY <1>4, <1>5

-----------------------------------------------------------------------------
(* The root, and keys that change.                                         *)

LEMMA RootIsBest ==
  ASSUME NEW n \in Nat, NEW f \in [0..(n - 1) -> Items], NEW R, NEW k, Order(R, k),
         Sorted(f, n, R)
  PROVE  \A j \in 0..(n - 1) : <<f[0], f[j]>> \in R
  <1> DEFINE I == {j \in 0..(n - 1) : <<f[0], f[j]>> \notin R}
  <1> SUFFICES ASSUME I # {} PROVE FALSE
    OBVIOUS
  <1> DEFINE m == Min(I)
  <1>1. m \in I /\ \A j \in I : m <= j
    <2>1. I \subseteq Nat
      OBVIOUS
    <2> HIDE DEF I
    <2> QED BY <2>1, LeastIndex
  <1> HIDE DEF m
  <1>2. m \in 0..(n - 1) /\ <<f[0], f[m]>> \notin R
    BY <1>1
  <1>3. m # 0
    <2> SUFFICES ASSUME m = 0 PROVE FALSE
      OBVIOUS
    <2>1. f[0] \in Items
      BY <1>2
    <2>2. <<f[0], f[0]>> \in R
      BY <2>1 DEF Order
    <2> QED BY <1>2, <2>2
  <1>4. m \in 1..(n - 1) /\ m \in Nat /\ m > 0
    BY <1>2, <1>3
  <1> DEFINE p == PARENT_IDX(m)
  <1>5. p \in Nat /\ p < m
    BY <1>4, ParentFacts
  <1> HIDE DEF p
  <1>6. p \in 0..(n - 1) /\ p \notin I /\ 0 \in 0..(n - 1)
    <2>1. p \notin I
      <3> HIDE DEF I
      <3> QED BY <1>1, <1>4, <1>5
    <2> QED BY <1>2, <1>4, <1>5, <2>1
  <1>7. <<f[0], f[p]>> \in R /\ <<f[p], f[m]>> \in R
    BY <1>4, <1>6 DEF Sorted, p
  <1>8. f[0] \in Items /\ f[p] \in Items /\ f[m] \in Items
    BY <1>2, <1>6
  <1> QED BY <1>2, <1>7, <1>8 DEF Order

\* What the queue's order amounts to while keys may be changed in place.
InOrder(f, n, k, ord) ==
  /\ Sorted(f, n, ByClass(k))
  /\ ord => Sorted(f, n, ByKey(k))

LEMMA SameKeys ==
  ASSUME NEW n \in Nat, NEW f \in [0..(n - 1) -> Items], NEW k, NEW l, NEW ord,
         \A i \in 0..(n - 1) : k[f[i]] = l[f[i]], InOrder(f, n, k, ord)
  PROVE  InOrder(f, n, l, ord)
  <1>1. ASSUME NEW j \in 1..(n - 1)
        PROVE  LET x == f[PARENT_IDX(j)]
                   y == f[j]
               IN  /\ <<x, y>> \in ByClass(k) <=> <<x, y>> \in ByClass(l)
                   /\ <<x, y>> \in ByKey(k) <=> <<x, y>> \in ByKey(l)
    <2> DEFINE x == f[PARENT_IDX(j)]
               y == f[j]
    <2>1. PARENT_IDX(j) \in 0..(n - 1) /\ j \in 0..(n - 1)
      BY ParentFacts
    <2>2. x \in Items /\ y \in Items /\ k[x] = l[x] /\ k[y] = l[y]
      BY <2>1
    <2> HIDE DEF x, y
    <2>3. <<x, y>> \in ByClass(k) <=> <<x, y>> \in ByClass(l)
      BY <2>2 DEF ByClass
    <2>4. <<x, y>> \in ByKey(k) <=> <<x, y>> \in ByKey(l)
      BY <2>2 DEF ByKey, KeyBefore
    <2> QED BY <2>3, <2>4 DEF x, y
  <1> QED BY <1>1 DEF InOrder, Sorted

LEMMA SameClasses ==
  ASSUME NEW n \in Nat, NEW f \in [0..(n - 1) -> Items], NEW k, NEW l,
         \A x \in Items : k[x][1] = l[x][1], Sorted(f, n, ByClass(k))
  PROVE  Sorted(f, n, ByClass(l))
  <1>1. ByClass(k) = ByClass(l)
    BY DEF ByClass
  <1> QED BY <1>1

\* The rank of a key is changed and its class is not.
LEMMA Reranked ==
  ASSUME NEW k \in [Items -> Keys], NEW item \in Items, NEW rank \in Ranks
  PROVE  LET l == [k EXCEPT ![item][2] = rank]
         IN  l \in [Items -> Keys] /\ \A x \in Items : l[x][1] = k[x][1]
  <1> DEFINE t == k[item]
             u == [t EXCEPT ![2] = rank]
             l == [k EXCEPT ![item] = u]
  <1>1. t \in Classes \X Ranks
    BY DEF Keys
  <1>2. t[1] \in Classes /\ t = <<t[1], t[2]>>
    BY <1>1
  <1>3. u = <<t[1], rank>>
    BY <1>2
  <1>4. u \in Keys /\ u[1] = t[1]
    BY <1>2, <1>3 DEF Keys
  <1>5. l = [k EXCEPT ![item][2] = rank]
    OBVIOUS
  <1> HIDE DEF u
  <1>6. l \in [Items -> Keys] /\ \A x \in Items : l[x][1] = k[x][1]
    BY <1>4
  <1> QED BY <1>5, <1>6

-----------------------------------------------------------------------------
(* The queue.                                                              *)

QueueOf(h, n, k, ord) ==
  /\ k \in [Items -> Keys] /\ ord \in BOOLEAN
  /\ HeapOf(h, n) /\ InOrder(h.items, n, k, ord)

QueueInv == \E n \in Nat : QueueOf(Heap, n, key, ordered)

LEMMA HeapFields == Heap.items = items /\ Heap.idx = idx
  BY DEF Heap

LEMMA QueueInit == Init => QueueInv
  <1> SUFFICES ASSUME Init PROVE QueueOf(Heap, 0, key, ordered)
    BY DEF QueueInv
  <1>1. 0..(0 - 1) = {}
    OBVIOUS
  <1>2. items \in [0..(0 - 1) -> Items] /\ idx \in [Items -> 0..UINT_MAX]
    BY <1>1, MaxIsNumber DEF Init
  <1>3. HeapOf(Heap, 0)
    BY <1>2, HeapFields, MaxIsNumber DEF HeapOf, Init
  <1>4. key \in [Items -> Keys] /\ ordered \in BOOLEAN
    BY PriorityAssumption DEF Init, Outside, Keys
  <1>5. InOrder(Heap.items, 0, key, ordered)
    BY DEF InOrder, Sorted
  <1> QED BY <1>3, <1>4, <1>5 DEF QueueOf

\* What each operation does to the queue.
AddStep(item, k, n) ==
  /\ item \notin InHeap(Heap) /\ InHeap(Heap)' = InHeap(Heap) \cup {item}
  /\ key' = [key EXCEPT ![item] = k]
  /\ ordered' = (ordered \/ n + 1 <= 1)
  /\ QueueOf(Heap, n + 1, key, ordered)'

RemoveStep(item, n) ==
  /\ item \in InHeap(Heap) /\ InHeap(Heap)' = InHeap(Heap) \ {item}
  /\ key' = [key EXCEPT ![item] = Outside]
  /\ ordered' = (ordered \/ n - 1 <= 1)
  /\ QueueOf(Heap, n - 1, key, ordered)'

TouchStep(item, rank, n) ==
  /\ item \in InHeap(Heap) /\ InHeap(Heap)' = InHeap(Heap)
  /\ key' = [key EXCEPT ![item][2] = rank]
  /\ ordered' = (n <= 1)
  /\ QueueOf(Heap, n, key, ordered)'

\* In a queue of one every order holds.
LEMMA Trivial ==
  ASSUME NEW n \in Nat, n <= 1, NEW f, NEW R
  PROVE  Sorted(f, n, R)
  <1>1. 1..(n - 1) = {}
    OBVIOUS
  <1> QED BY <1>1 DEF Sorted

LEMMA AddKeeps ==
  ASSUME NEW n \in Nat, QueueOf(Heap, n, key, ordered), NEW item \in Items, NEW k \in Keys,
         priorityq_add(item, k)
  PROVE  AddStep(item, k, n)
  <1> DEFINE h == Heap
             l == [key EXCEPT ![item] = k]
             g == HeapAdd(h, l, item)
  <1>1. /\ key \in [Items -> Keys] /\ ordered \in BOOLEAN /\ HeapOf(h, n)
        /\ h.items \in [0..(n - 1) -> Items] /\ InOrder(h.items, n, key, ordered)
    BY DEF QueueOf, HeapOf
  <1>2. item \notin InHeap(h)
    BY HeapFields DEF priorityq_add, InHeap
  <1>3. /\ key' = l /\ items' = g.items /\ idx' = g.idx
        /\ ordered' = (ordered \/ Count(g) <= 1)
    BY DEF priorityq_add, Becomes
  <1>4. l \in [Items -> Keys] /\ \A x \in Items : x # item => l[x] = key[x]
    BY <1>1
  <1> HIDE DEF h, l
  <1>5. \A i \in 0..(n - 1) : h.items[i] \in Items /\ h.items[i] # item
    <2>1. UINT_MAX \in Nat
      BY MaxIsNumber
    <2> QED BY <1>1, <1>2, <2>1 DEF HeapOf, InHeap
  <1>6. InOrder(h.items, n, l, ordered)
    <2>1. \A i \in 0..(n - 1) : key[h.items[i]] = l[h.items[i]]
      BY <1>4, <1>5
    <2> QED BY <1>1, <2>1, SameKeys
  <1>7. Order(ByClass(l), l) /\ Order(ByKey(l), l)
    BY <1>4, OrdersFit
  <1>8. HeapOf(g, n + 1) /\ InHeap(g) = InHeap(h) \cup {item} /\ Sorted(g.items, n + 1, ByClass(l))
    BY <1>1, <1>2, <1>6, <1>7, Adds DEF InOrder
  <1>9. ordered => Sorted(g.items, n + 1, ByKey(l))
    BY <1>1, <1>2, <1>6, <1>7, Adds DEF InOrder
  <1> HIDE DEF g
  <1>10. Count(g) = n + 1
    BY <1>8, HeapCount
  <1>11. ordered' => Sorted(g.items, n + 1, ByKey(l))
    <2>1. CASE ordered
      BY <1>9, <2>1
    <2>2. CASE ~ordered
      <3> SUFFICES ASSUME n + 1 <= 1 PROVE Sorted(g.items, n + 1, ByKey(l))
        BY <1>3, <1>10, <2>2
      <3>1. n + 1 \in Nat
        OBVIOUS
      <3> QED BY <3>1, Trivial
    <2> QED BY <2>1, <2>2
  <1>12. HeapOf(Heap, n + 1)' /\ InHeap(Heap)' = InHeap(g)
    <2>1. Heap'.items = g.items /\ Heap'.idx = g.idx
      BY <1>3 DEF Heap
    <2> QED BY <1>8, <2>1 DEF HeapOf, InHeap
  <1>13. InOrder(Heap.items, n + 1, key, ordered)'
    <2>1. Heap'.items = g.items
      BY <1>3 DEF Heap
    <2> QED BY <1>3, <1>8, <1>11, <2>1 DEF InOrder
  <1>14. ordered' \in BOOLEAN
    BY <1>1, <1>3
  <1>15. QueueOf(Heap, n + 1, key, ordered)'
    BY <1>3, <1>4, <1>12, <1>13, <1>14 DEF QueueOf
  <1> QED BY <1>2, <1>3, <1>8, <1>10, <1>12, <1>15 DEF AddStep, h, l

LEMMA RemoveKeeps ==
  ASSUME NEW n \in Nat, QueueOf(Heap, n, key, ordered), NEW item \in Items, priorityq_remove(item)
  PROVE  n - 1 \in Nat /\ RemoveStep(item, n)
  <1> DEFINE h == Heap
             i == h.idx[item]
             l == [key EXCEPT ![item] = Outside]
             g == priorityq_remove_idx(h, key, i)
             m == n - 1
  <1>1. /\ key \in [Items -> Keys] /\ ordered \in BOOLEAN /\ HeapOf(h, n)
        /\ h.items \in [0..(n - 1) -> Items] /\ InOrder(h.items, n, key, ordered)
    BY DEF QueueOf, HeapOf
  <1>2. item \in InHeap(h) /\ i # UINT_MAX
    BY HeapFields DEF priorityq_remove, InHeap
  <1>3. /\ key' = l /\ items' = g.items /\ idx' = g.idx
        /\ ordered' = (ordered \/ Count(g) <= 1)
    BY HeapFields DEF priorityq_remove, Becomes
  <1>4. l \in [Items -> Keys] /\ \A x \in Items : x # item => l[x] = key[x]
    BY <1>1, PriorityAssumption DEF Outside, Keys
  <1> HIDE DEF h, l
  <1>5. i \in 0..(n - 1) /\ h.items[i] = item
    <2>1. UINT_MAX \in Nat
      BY MaxIsNumber
    <2> QED BY <1>1, <1>2, <2>1 DEF HeapOf
  <1>6. m \in Nat
    BY <1>5
  <1> HIDE DEF i
  <1>7. Order(ByClass(key), key) /\ Order(ByKey(key), key)
    BY <1>1, OrdersFit
  <1>8. HeapOf(g, m) /\ InHeap(g) = InHeap(h) \ {item} /\ Sorted(g.items, m, ByClass(key))
    BY <1>1, <1>5, <1>7, Removes DEF InOrder
  <1>9. ordered => Sorted(g.items, m, ByKey(key))
    BY <1>1, <1>5, <1>7, Removes DEF InOrder
  <1> HIDE DEF g, m
  <1>10. Count(g) = m
    BY <1>8, HeapCount
  <1>11. InOrder(g.items, m, key, ordered')
    <2>1. CASE ordered
      BY <1>8, <1>9, <2>1 DEF InOrder
    <2>2. CASE ~ordered
      <3>1. ordered' => m <= 1
        BY <1>3, <1>10, <2>2
      <3>2. ordered' => Sorted(g.items, m, ByKey(key))
        BY <1>6, <3>1, Trivial
      <3> QED BY <1>8, <3>2 DEF InOrder
    <2> QED BY <2>1, <2>2
  <1>12. g.items \in [0..(m - 1) -> Items]
    BY <1>8 DEF HeapOf
  <1>13. \A j \in 0..(m - 1) : g.items[j] \in Items /\ g.items[j] # item
    <2>1. UINT_MAX \in Nat
      BY MaxIsNumber
    <2>2. \A j \in 0..(m - 1) : g.items[j] \in InHeap(g)
      BY <1>6, <1>8, <1>12, <2>1 DEF HeapOf, InHeap
    <2> QED BY <1>8, <1>12, <2>2
  <1>14. InOrder(g.items, m, l, ordered')
    <2>1. \A j \in 0..(m - 1) : key[g.items[j]] = l[g.items[j]]
      BY <1>4, <1>13
    <2> QED BY <1>6, <1>11, <1>12, <2>1, SameKeys
  <1>15. HeapOf(Heap, m)' /\ InHeap(Heap)' = InHeap(g) /\ InOrder(Heap.items, m, key, ordered)'
    <2>1. Heap'.items = g.items /\ Heap'.idx = g.idx
      BY <1>3 DEF Heap
    <2>2. HeapOf(Heap', m) /\ InHeap(Heap') = InHeap(g)
      BY <1>8, <2>1 DEF HeapOf, InHeap
    <2>3. InOrder(Heap'.items, m, key', ordered')
      BY <1>3, <1>14, <2>1
    <2>4. m' = m
      BY DEF m
    <2> QED BY <2>2, <2>3, <2>4
  <1>16. ordered' \in BOOLEAN
    BY <1>1, <1>3
  <1>17. QueueOf(Heap, n - 1, key, ordered)'
    BY <1>3, <1>4, <1>15, <1>16 DEF QueueOf, m
  <1> QED BY <1>2, <1>3, <1>6, <1>8, <1>10, <1>15, <1>17 DEF RemoveStep, h, l, m

LEMMA TouchKeeps ==
  ASSUME NEW n \in Nat, QueueOf(Heap, n, key, ordered), NEW item \in Items, NEW rank \in Ranks,
         Touch(item, rank)
  PROVE  TouchStep(item, rank, n)
  <1> DEFINE l == [key EXCEPT ![item][2] = rank]
  <1>1. /\ key \in [Items -> Keys] /\ HeapOf(Heap, n) /\ items \in [0..(n - 1) -> Items]
        /\ Sorted(items, n, ByClass(key))
    BY HeapFields DEF QueueOf, HeapOf, InOrder
  <1>2. item \in InHeap(Heap)
    BY HeapFields DEF Touch, InHeap
  <1>3. Count(Heap) = n
    BY <1>1, HeapCount
  <1>4. key' = l /\ items' = items /\ idx' = idx /\ ordered' = (n <= 1)
    BY <1>3, HeapFields DEF Touch, Becomes
  <1>5. l \in [Items -> Keys] /\ \A x \in Items : l[x][1] = key[x][1]
    BY <1>1, Reranked
  <1> HIDE DEF l
  <1>6. Sorted(items, n, ByClass(l))
    BY <1>1, <1>5, SameClasses
  <1>7. n <= 1 => Sorted(items, n, ByKey(l))
    BY Trivial
  <1>8. Heap' = Heap
    BY <1>4 DEF Heap
  <1>9. InOrder(items, n, l, ordered')
    BY <1>4, <1>6, <1>7 DEF InOrder
  <1>10. QueueOf(Heap', n, key', ordered')
    BY <1>1, <1>4, <1>5, <1>8, <1>9, HeapFields DEF QueueOf
  <1> QED BY <1>2, <1>4, <1>8, <1>10 DEF TouchStep, l

LEMMA QueueNext == QueueInv /\ [Next]_vars => QueueInv'
  <1> SUFFICES ASSUME QueueInv, [Next]_vars PROVE QueueInv'
    OBVIOUS
  <1>1. PICK n \in Nat : QueueOf(Heap, n, key, ordered)
    BY DEF QueueInv
  <1>2. ASSUME NEW item \in Items, NEW k \in Keys, priorityq_add(item, k) PROVE QueueInv'
    <2>1. QueueOf(Heap, n + 1, key, ordered)' /\ n + 1 \in Nat
      BY <1>1, <1>2, AddKeeps DEF AddStep
    <2> QED BY <2>1 DEF QueueInv
  <1>3. ASSUME NEW item \in Items, priorityq_remove(item) PROVE QueueInv'
    <2>1. QueueOf(Heap, n - 1, key, ordered)' /\ n - 1 \in Nat
      BY <1>1, <1>3, RemoveKeeps DEF RemoveStep
    <2> QED BY <2>1 DEF QueueInv
  <1>4. ASSUME NEW item \in Items, NEW rank \in Ranks, Touch(item, rank) PROVE QueueInv'
    <2>1. QueueOf(Heap, n, key, ordered)'
      BY <1>1, <1>4, TouchKeeps DEF TouchStep
    <2> QED BY <2>1 DEF QueueInv
  <1>5. CASE UNCHANGED vars
    BY <1>5 DEF vars, QueueInv, QueueOf, Heap, HeapOf, InOrder, Sorted
  <1> QED BY <1>2, <1>3, <1>4, <1>5 DEF Next

\* The heap is a heap: every item knows its index, the array has no item
\* twice, and parents are at least as good as their children, by class
\* whatever callers do to the ranks and by the whole key if they leave them.
THEOREM QueueInvariant == Spec => []QueueInv
  BY QueueInit, QueueNext, PTL DEF Spec

\* priorityq_remove() of any queued item finds it where the item says it is,
\* and no other item is there: for any number of items and any keys.
THEOREM IndexesTrue == Spec => []IndexesMatch
  <1>1. QueueInv => IndexesMatch
    <2> SUFFICES ASSUME QueueInv PROVE IndexesMatch
      OBVIOUS
    <2>1. PICK n \in Nat : QueueOf(Heap, n, key, ordered)
      BY DEF QueueInv
    <2> QED BY <2>1, HeapFields DEF QueueOf, HeapOf, IndexesMatch
  <1> QED BY <1>1, QueueInvariant, PTL

-----------------------------------------------------------------------------
(* The heap implements PeekSpec.                                           *)

Content(h) == {h.items[i] : i \in DOMAIN h.items}
Top(h) == IF h.items = [i \in {} |-> NoItem] THEN NoItem ELSE h.items[0]

\* What there is in the queue, and what is on top of it.
LEMMA TopPeekable ==
  ASSUME NEW h, NEW n \in Nat, NEW k, NEW ord, QueueOf(h, n, k, ord)
  PROVE  /\ Content(h) = InHeap(h) /\ Cardinality(Content(h)) = n
         /\ Top(h) \in Abstract!Peekable(Content(h), k, ord)
  <1> DEFINE f == h.items
             S == Content(h)
  <1>1. /\ k \in [Items -> Keys] /\ HeapOf(h, n) /\ f \in [0..(n - 1) -> Items]
        /\ Sorted(f, n, ByClass(k)) /\ (ord => Sorted(f, n, ByKey(k)))
    BY DEF QueueOf, HeapOf, InOrder
  <1>2. S = InHeap(h) /\ Cardinality(S) = n
    BY <1>1, HeapSize DEF Content
  <1>3. S = {f[i] : i \in DOMAIN f} /\ Top(h) = IF f = [i \in {} |-> NoItem] THEN NoItem ELSE f[0]
    BY DEF Content, Top
  <1> HIDE DEF f, S
  <1>4. CASE n = 0
    <2>1. DOMAIN f = {}
      BY <1>1, <1>4
    <2>2. f = [i \in {} |-> NoItem] /\ S = {}
      BY <1>1, <1>3, <2>1
    <2>3. Top(h) \in Abstract!Peekable(S, k, ord)
      BY <1>3, <2>2 DEF Abstract!Peekable
    <2> QED BY <1>2, <2>3 DEF S
  <1>5. CASE n # 0
    <2>1. 0 \in 0..(n - 1) /\ DOMAIN f = 0..(n - 1)
      BY <1>1, <1>5
    <2>2. f # [i \in {} |-> NoItem] /\ S # {} /\ f[0] \in S
      <3>1. DOMAIN [i \in {} |-> NoItem] = {}
        OBVIOUS
      <3> QED BY <1>3, <2>1, <3>1
    <2>3. Top(h) = f[0]
      BY <1>3, <2>2
    <2>4. Order(ByClass(k), k) /\ Order(ByKey(k), k)
      BY <1>1, OrdersFit
    <2>5. \A i \in 0..(n - 1) : <<f[0], f[i]>> \in ByClass(k)
      BY <1>1, <2>4, RootIsBest
    <2>6. ord => \A i \in 0..(n - 1) : <<f[0], f[i]>> \in ByKey(k)
      BY <1>1, <2>4, RootIsBest
    <2>7. ASSUME NEW x \in S
          PROVE  k[x][1] <= k[f[0]][1] /\ (ord => ~Abstract!KeyBefore(k[x], k[f[0]]))
      <3>1. PICK i \in 0..(n - 1) : x = f[i]
        BY <1>3, <2>1
      <3>2. /\ <<f[0], x>> \in ByClass(k)
            /\ ord => <<f[0], x>> \in ByKey(k)
        BY <2>5, <2>6, <3>1
      <3>3. k[f[0]][1] >= k[x][1] /\ (ord => ~KeyBefore(k, x, f[0]))
        BY <3>2 DEF ByClass, ByKey
      <3>4. k[f[0]][1] \in Nat /\ k[x][1] \in Nat
        BY <1>1, <2>1, <3>1, PriorityAssumption DEF Keys
      <3> QED BY <3>3, <3>4 DEF KeyBefore, Abstract!KeyBefore
    <2>8. f[0] \in Abstract!Peekable(S, k, ord)
      BY <2>2, <2>7 DEF Abstract!Peekable
    <2> QED BY <1>2, <2>3, <2>8 DEF S
  <1> QED BY <1>4, <1>5

LEMMA Mapped ==
  /\ Content(Heap) = {items[i] : i \in DOMAIN items} /\ Top(Heap) = priorityq_peek
  /\ Content(Heap') = {items'[i] : i \in DOMAIN items'} /\ Top(Heap') = priorityq_peek'
  BY DEF Content, Top, Heap, priorityq_peek

\* The queue of a step is one of PeekSpec, with the same items and key.
LEMMA PeekStep ==
  ASSUME NEW m \in Nat, QueueOf(Heap', m, key', ordered'), NEW ord \in BOOLEAN,
         ordered' = (ord \/ m <= 1)
  PROVE  Abstract!Becomes(InHeap(Heap'), key', ord)
  <1>1. /\ Content(Heap') = InHeap(Heap') /\ Cardinality(Content(Heap')) = m
        /\ Top(Heap') \in Abstract!Peekable(Content(Heap'), key', ordered')
    BY TopPeekable
  <1>2. \A S : Abstract!Cardinality(S) = Cardinality(S)
    BY DEF Abstract!Cardinality, Cardinality
  <1> QED BY <1>1, <1>2, Mapped DEF Abstract!Becomes

\* Whatever callers do, a step of the heap is one PeekSpec allows.
LEMMA PeekNext ==
  ASSUME QueueInv, Next PROVE Abstract!Next
  <1>1. PICK n \in Nat : QueueOf(Heap, n, key, ordered)
    BY DEF QueueInv
  <1>2. InHeap(Heap) = {items[i] : i \in DOMAIN items}
    BY <1>1, TopPeekable, Mapped
  <1>3. ASSUME NEW item \in Items, NEW k \in Keys, priorityq_add(item, k) PROVE Abstract!Next
    <2>1. AddStep(item, k, n) /\ n + 1 \in Nat
      BY <1>1, <1>3, AddKeeps
    <2>2. Abstract!Becomes(InHeap(Heap'), key', ordered)
      <3>1. QueueOf(Heap', n + 1, key', ordered')
        BY <2>1 DEF AddStep
      <3>2. ordered' = (ordered \/ n + 1 <= 1) /\ ordered \in BOOLEAN
        BY <1>1, <2>1 DEF AddStep, QueueOf
      <3>3. PICK o \in BOOLEAN : o = ordered
        BY <3>2
      <3>4. Abstract!Becomes(InHeap(Heap'), key', o)
        BY <2>1, <3>1, <3>2, <3>3, PeekStep
      <3> QED BY <3>3, <3>4 DEF Abstract!Becomes
    <2>3. Abstract!Add(item, k)
      BY <1>2, <2>1, <2>2 DEF AddStep, Abstract!Add
    <2> QED BY <2>3 DEF Abstract!Next, Abstract!Keys, Keys
  <1>4. ASSUME NEW item \in Items, priorityq_remove(item) PROVE Abstract!Next
    <2>1. RemoveStep(item, n) /\ n - 1 \in Nat
      BY <1>1, <1>4, RemoveKeeps
    <2>2. Abstract!Becomes(InHeap(Heap'), key', ordered)
      <3>1. QueueOf(Heap', n - 1, key', ordered')
        BY <2>1 DEF RemoveStep
      <3>2. ordered' = (ordered \/ n - 1 <= 1) /\ ordered \in BOOLEAN
        BY <1>1, <2>1 DEF RemoveStep, QueueOf
      <3>3. PICK o \in BOOLEAN : o = ordered
        BY <3>2
      <3>4. Abstract!Becomes(InHeap(Heap'), key', o)
        BY <2>1, <3>1, <3>2, <3>3, PeekStep
      <3> QED BY <3>3, <3>4 DEF Abstract!Becomes
    <2>3. Outside \in Abstract!Keys
      BY PriorityAssumption DEF Abstract!Keys, Outside
    <2>4. Abstract!Remove(item)
      BY <1>2, <2>1, <2>2, <2>3 DEF RemoveStep, Abstract!Remove
    <2> QED BY <2>4 DEF Abstract!Next
  <1>5. ASSUME NEW item \in Items, NEW rank \in Ranks, Touch(item, rank) PROVE Abstract!Next
    <2>1. TouchStep(item, rank, n)
      BY <1>1, <1>5, TouchKeeps
    <2>2. Abstract!Becomes(InHeap(Heap'), key', FALSE)
      <3>1. QueueOf(Heap', n, key', ordered')
        BY <2>1 DEF TouchStep
      <3>2. ordered' = (FALSE \/ n <= 1) /\ FALSE \in BOOLEAN
        BY <1>1, <2>1 DEF TouchStep, QueueOf
      <3> QED BY <2>1, <3>1, <3>2, PeekStep
    <2>3. Abstract!Touch(item, rank)
      BY <1>2, <2>1, <2>2 DEF TouchStep, Abstract!Touch
    <2> QED BY <2>3 DEF Abstract!Next
  <1> QED BY <1>3, <1>4, <1>5 DEF Next

\* peek returns "the item with the highest priority" (priorityq.h) as long as
\* keys stay put, and an item of the best class whatever callers do to the
\* ranks: the heap implements PeekSpec for any number of items and any keys.
THEOREM ReturnsBest == Spec => PeekReturnsBest
  <1>1. Init => Abstract!Init
    <2> SUFFICES ASSUME Init PROVE Abstract!Init
      OBVIOUS
    <2>1. items = [i \in {} |-> NoItem] /\ DOMAIN items = {}
      BY DEF Init
    <2>2. {items[i] : i \in DOMAIN items} = {} /\ priorityq_peek = NoItem
      BY <2>1 DEF priorityq_peek
    <2>3. key \in [Items -> Abstract!Keys]
      BY PriorityAssumption DEF Init, Outside, Abstract!Keys
    <2> QED BY <2>2, <2>3 DEF Init, Abstract!Init
  <1>2. QueueInv /\ [Next]_vars => [Abstract!Next]_(Abstract!vars)
    <2> SUFFICES ASSUME QueueInv, [Next]_vars PROVE [Abstract!Next]_(Abstract!vars)
      OBVIOUS
    <2>1. CASE Next
      BY <2>1, PeekNext
    <2>2. CASE UNCHANGED vars
      BY <2>2 DEF vars, Abstract!vars, priorityq_peek
    <2> QED BY <2>1, <2>2
  <1> QED BY <1>1, <1>2, QueueInvariant, PTL DEF Spec, PeekReturnsBest, Abstract!Spec

=============================================================================
