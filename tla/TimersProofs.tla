------------------------------ MODULE TimersProofs ------------------------------
(***************************************************************************)
(* Theorems about Timers, for any number of timers, any delays, any        *)
(* repetitions, any clock and any length of the heap's array at first,     *)
(* when the program deletes no timer itself and callbacks add no moment    *)
(* that is already past.                                                   *)
(***************************************************************************)
EXTENDS Timers, FiniteSetTheorems, SequenceTheorems, WellFoundedInduction, TLAPS

Slots == 1..MaxTimers

HeapRecord ==
    [table : [Slots -> Timer \cup {NULL}], count : 0..MaxTimers, index : [Timer -> 0..MaxTimers]]

\* The used slots hold timers, and each knows its slot.
Shaped(h) ==
    /\ h \in HeapRecord
    /\ \A k \in 1..h.count : h.table[k] \in Timer /\ h.index[h.table[k]] = k

\* The keys of a heap, slot by slot.
Keys(h, f) == [k \in 1..h.count |-> f[h.table[k]]]

\* The parent of slot k.
Up(k) == k \div 2

Sorted(v, n) == \A k \in 2..n : v[Up(k)] <= v[k]

\* The children of slot a are in order with its parent.
Over(v, n, a) == a > 1 => \A k \in 2..n : Up(k) = a => v[Up(a)] <= v[k]

\* In the loop of heap_up: only slot a may be less than its parent.
SortedBut(v, n, a) == Over(v, n, a) /\ \A k \in 2..n : k # a => v[Up(k)] <= v[k]

\* In the loop of heap_down: only slot a may be greater than its children.
SortedAbove(v, n, a) == Over(v, n, a) /\ \A k \in 2..n : Up(k) # a => v[Up(k)] <= v[k]

\* What check_timers or the program is doing, whatever loop of the heap it waits for.
Phase == IF pc \in {"up", "down"} THEN back ELSE pc

Types ==
    /\ kind \in Kinds /\ Shaped(heap)
    /\ key \in [Timer -> Int] /\ after \in [Timer -> Int] /\ repeat \in [Timer -> {-1} \cup Nat]
    /\ free \in Seq(Timer) /\ made \in 0..MaxTimers /\ leaving \in Timer \cup {NULL}
    /\ now \in Nat /\ limit \in Nat /\ limit <= now
    /\ cur \in Timer \cup {NULL}
    /\ size \in Nat /\ size >= 2 /\ heap.count < size

\* Between the loops the array is a heap; heap_up runs after a push and heap_down
\* from the top, and in them at most one slot is out of place.
Loops ==
    \/ pc \in {"yield", "loop", "called"} /\ leaving = NULL
       /\ Sorted(Keys(heap, key), heap.count)
    \/ pc = "up" /\ back \in {"yield", "called"} /\ leaving = NULL
       /\ at \in 1..heap.count /\ SortedBut(Keys(heap, key), heap.count, at)
    \/ pc = "down" /\ back = "loop" /\ at \in Nat \ {0}
       /\ SortedAbove(Keys(heap, key), heap.count, at)

\* The timer whose callback runs is on top and stays there: what the callback
\* adds is not due in this round, so it never rises past what is.
Running ==
    IF Phase = "called"
    THEN /\ heap.count > 0 /\ cur = heap.table[1] /\ key[cur] < limit
         /\ pc = "up" => key[heap.table[at]] >= limit
    ELSE cur = NULL

\* The inductive invariant.
TInv == Types /\ Loops /\ Running /\ ChunksConserved

-----------------------------------------------------------------------------
(* The slots of the tree.                                                   *)

LEMMA UpBelow ==
    ASSUME NEW k \in Nat, k > 1
    PROVE  Up(k) \in Nat /\ 1 <= Up(k) /\ Up(k) < k
  BY DEF Up

\* An array of two slots or more grows.
LEMMA Growing ==
    ASSUME NEW z \in Nat, z >= 2
    PROVE  \E y \in Nat : y = z + z \div 2 /\ z < y
<1>1. z \div 2 \in Nat /\ z \div 2 >= 1
  OBVIOUS
<1> QED  BY <1>1

LEMMA UpIs ==
    ASSUME NEW k \in Nat, NEW a \in Nat
    PROVE  Up(k) = a <=> k = 2 * a \/ k = 2 * a + 1
  BY DEF Up

LEMMA UpIn ==
    ASSUME NEW n \in Nat, NEW k \in 2..n
    PROVE  Up(k) \in 1..n /\ Up(k) # k /\ Up(k) < k
<1>1. k \in Nat /\ k > 1 /\ k <= n
  OBVIOUS
<1>2. Up(k) \in Nat /\ 1 <= Up(k) /\ Up(k) < k
  BY <1>1, UpBelow
<1> QED  BY <1>1, <1>2

\* A set of numbers that is not empty has a least one.
LEMMA Least ==
    ASSUME NEW T \in SUBSET Nat, T # {}
    PROVE  \E x \in T : \A y \in T : x <= y
<1> DEFINE less == {ss \in Nat \X Nat : ss[1] < ss[2]}
<1>1. IsWellFoundedOn(less, Nat)
  BY NatLessThanWellFounded DEF OpToRel
<1>2. \A x, y \in Nat : <<y, x>> \in less <=> y < x
  OBVIOUS
<1> HIDE DEF less
<1>3. PICK x \in T : \A y \in T : <<y, x>> \notin less
  BY <1>1, WFMin
<1>4. \A y \in T : x <= y
  <2> TAKE y \in T
  <2>1. x \in Nat /\ y \in Nat
    OBVIOUS
  <2>2. ~(y < x)
    BY <2>1, <1>2, <1>3
  <2> QED  BY <2>1, <2>2
<1> QED  BY <1>4

-----------------------------------------------------------------------------
(* Keys in the tree.                                                        *)

\* The top of a heap is the least.
LEMMA TopLeast ==
    ASSUME NEW n \in Nat, NEW v \in [1..n -> Int], Sorted(v, n), NEW k \in 1..n
    PROVE  v[1] <= v[k]
<1> DEFINE T == {j \in 1..n : ~(v[1] <= v[j])}
<1> SUFFICES ASSUME T # {} PROVE FALSE
  OBVIOUS
<1>1. PICK m \in T : \A j \in T : m <= j
  <2>1. T \in SUBSET Nat
    OBVIOUS
  <2> HIDE DEF T
  <2> QED  BY <2>1, Least
<1>2. m \in 1..n /\ ~(v[1] <= v[m]) /\ 1 \in 1..n
  OBVIOUS
<1>3. m # 1
  <2>1. v[1] \in Int
    BY <1>2
  <2> QED  BY <1>2, <2>1
<1>4. m \in 2..n
  BY <1>2, <1>3
<1>5. Up(m) \in 1..n /\ Up(m) < m
  BY <1>4, UpIn
<1>6. Up(m) \notin T
  BY <1>1, <1>2, <1>5
<1>7. v[1] <= v[Up(m)]
  BY <1>5, <1>6
<1>8. v[Up(m)] <= v[m]
  BY <1>4 DEF Sorted
<1>9. v[1] \in Int /\ v[m] \in Int /\ v[Up(m)] \in Int
  BY <1>2, <1>5
<1> QED  BY <1>2, <1>7, <1>8, <1>9

\* w is v with the values of a and b exchanged.
Crossed(w, v, n, a, b) ==
    /\ w[a] = v[b] /\ w[b] = v[a]
    /\ \A k \in 1..n : k # a /\ k # b => w[k] = v[k]

\* A turn of heap_up moves what is out of place one level up.
LEMMA RisingKeeps ==
    ASSUME NEW n \in Nat, NEW v \in [1..n -> Int], NEW w \in [1..n -> Int],
           NEW a \in 2..n, SortedBut(v, n, a), v[a] < v[Up(a)], NEW p, p = Up(a),
           Crossed(w, v, n, a, p)
    PROVE  SortedBut(w, n, p)
<1>1. a \in 1..n /\ p \in 1..n /\ p < a /\ a > 1
  BY UpIn
<1>2. v[a] < v[p] /\ w[a] = v[p] /\ w[p] = v[a]
  BY DEF Crossed
<1>3. \A k \in 1..n : k # a /\ k # p => w[k] = v[k]
  BY DEF Crossed
<1>4. \A k \in 1..n : v[k] \in Int /\ w[k] \in Int
  OBVIOUS
<1>5. ASSUME NEW k \in 2..n, k # p PROVE w[Up(k)] <= w[k]
  <2>1. k \in 1..n /\ Up(k) \in 1..n /\ Up(k) # k
    BY UpIn
  <2>2. CASE k = a
    BY <2>2, <1>1, <1>2, <1>4
  <2>3. CASE k # a /\ Up(k) = a
    <3>1. v[p] <= v[k]
      BY <2>3, <1>1 DEF SortedBut, Over
    <3> QED  BY <3>1, <2>1, <2>3, <1>2, <1>3, <1>5
  <2>4. CASE k # a /\ Up(k) = p
    <3>1. v[p] <= v[k]
      BY <2>4 DEF SortedBut
    <3>2. w[k] = v[k] /\ w[Up(k)] = v[a]
      BY <2>1, <2>4, <1>2, <1>3, <1>5
    <3> QED  BY <3>1, <3>2, <2>1, <1>1, <1>2, <1>4
  <2>5. CASE k # a /\ Up(k) # a /\ Up(k) # p
    <3>1. v[Up(k)] <= v[k]
      BY <2>5 DEF SortedBut
    <3> QED  BY <3>1, <2>1, <2>5, <1>3, <1>5
  <2> QED  BY <2>2, <2>3, <2>4, <2>5
<1>6. ASSUME p > 1, NEW k \in 2..n, Up(k) = p PROVE w[Up(p)] <= w[k]
  <2>1. p \in 2..n
    BY <1>1, <1>6
  <2>2. PICK g \in 1..n : g = Up(p) /\ g < p
    BY <2>1, UpIn
  <2>3. g # p /\ g # a
    BY <2>2, <1>1
  <2>4. v[g] <= v[p] /\ w[g] = v[g]
    BY <2>1, <2>2, <2>3, <1>1, <1>3 DEF SortedBut
  <2>5. CASE k = a
    BY <2>2, <2>4, <2>5, <1>2
  <2>6. CASE k # a
    <3>1. k \in 1..n /\ k # p
      BY <1>6, UpIn
    <3>2. v[p] <= v[k] /\ w[k] = v[k]
      BY <3>1, <2>6, <1>3, <1>6 DEF SortedBut
    <3> QED  BY <3>1, <3>2, <2>2, <2>4, <1>1, <1>4
  <2> QED  BY <2>5, <2>6
<1> QED  BY <1>5, <1>6 DEF SortedBut, Over

LEMMA RisenSorted ==
    ASSUME NEW n \in Nat, NEW v \in [1..n -> Int], NEW a \in 1..n, SortedBut(v, n, a),
           ~(a > 1 /\ v[a] < v[Up(a)])
    PROVE  Sorted(v, n)
<1> SUFFICES ASSUME NEW k \in 2..n PROVE v[Up(k)] <= v[k]
  BY DEF Sorted
<1>1. k \in 1..n /\ Up(k) \in 1..n
  BY UpIn
<1>2. CASE k = a
  <2>1. a > 1
    BY <1>2
  <2>2. v[a] \in Int /\ v[Up(a)] \in Int
    BY <1>1, <1>2
  <2> QED  BY <2>1, <2>2, <1>2
<1>3. CASE k # a
  BY <1>3 DEF SortedBut
<1> QED  BY <1>2, <1>3

\* c is the child of a that heap_down compares with.
Lesser(v, n, a, c) ==
    /\ c \in 2..n /\ Up(c) = a
    /\ \A k \in 2..n : Up(k) = a => v[c] <= v[k]

\* A turn of heap_down moves it one level down.
LEMMA SinkingKeeps ==
    ASSUME NEW n \in Nat, NEW v \in [1..n -> Int], NEW w \in [1..n -> Int],
           NEW a \in 1..n, NEW c, Lesser(v, n, a, c), SortedAbove(v, n, a), v[c] < v[a],
           Crossed(w, v, n, a, c)
    PROVE  SortedAbove(w, n, c)
<1>1. c \in 2..n /\ c \in 1..n /\ Up(c) = a /\ a < c
  BY UpIn DEF Lesser
<1>2. w[a] = v[c] /\ w[c] = v[a]
  BY DEF Crossed
<1>3. \A k \in 1..n : k # a /\ k # c => w[k] = v[k]
  BY DEF Crossed
<1>4. \A k \in 1..n : v[k] \in Int /\ w[k] \in Int
  OBVIOUS
<1>5. ASSUME NEW k \in 2..n, Up(k) # c PROVE w[Up(k)] <= w[k]
  <2>1. k \in 1..n /\ Up(k) \in 1..n /\ Up(k) # k
    BY UpIn
  <2>2. CASE k = c
    BY <2>2, <1>1, <1>2, <1>4
  <2>3. CASE k # c /\ Up(k) = a
    <3>1. v[c] <= v[k]
      BY <2>3 DEF Lesser
    <3> QED  BY <3>1, <2>1, <2>3, <1>2, <1>3
  <2>4. CASE k = a
    <3>1. a > 1
      BY <2>4
    <3>2. v[Up(a)] <= v[c]
      BY <3>1, <1>1 DEF SortedAbove, Over
    <3>3. w[Up(a)] = v[Up(a)]
      BY <2>1, <2>4, <1>3, <1>5
    <3> QED  BY <3>2, <3>3, <2>4, <1>2
  <2>5. CASE k # a /\ k # c /\ Up(k) # a
    <3>1. v[Up(k)] <= v[k]
      BY <2>5 DEF SortedAbove
    <3> QED  BY <3>1, <2>1, <2>5, <1>3, <1>5
  <2> QED  BY <2>2, <2>3, <2>4, <2>5
<1>6. ASSUME NEW k \in 2..n, Up(k) = c PROVE w[Up(c)] <= w[k]
  <2>1. k \in 1..n /\ k > c
    BY <1>6, UpIn
  <2>2. v[c] <= v[k]
    <3>1. Up(k) # a
      BY <1>1, <1>6
    <3> QED  BY <3>1, <1>6 DEF SortedAbove
  <2>3. w[k] = v[k] /\ w[Up(c)] = v[c]
    BY <2>1, <1>1, <1>2, <1>3
  <2> QED  BY <2>2, <2>3
<1> QED  BY <1>5, <1>6 DEF SortedAbove, Over

LEMMA SunkSorted ==
    ASSUME NEW n \in Nat, NEW v \in [1..n -> Int], NEW a \in Nat \ {0}, SortedAbove(v, n, a),
           \A k \in 2..n : Up(k) = a => v[a] <= v[k]
    PROVE  Sorted(v, n)
  BY DEF Sorted, SortedAbove

\* A heap with one more element at its end, whatever its key.
LEMMA PushedSorted ==
    ASSUME NEW n \in Nat, NEW v, NEW w, Sorted(v, n),
           \A k \in 1..n : w[k] = v[k]
    PROVE  SortedBut(w, n + 1, n + 1)
<1>1. ASSUME NEW k \in 2..(n + 1), k # n + 1 PROVE w[Up(k)] <= w[k]
  <2>1. k \in 2..n /\ k \in 1..n
    BY <1>1
  <2>2. Up(k) \in 1..n
    BY <2>1, UpIn
  <2>3. v[Up(k)] <= v[k]
    BY <2>1 DEF Sorted
  <2> QED  BY <2>1, <2>2, <2>3
<1>2. ASSUME NEW k \in 2..(n + 1), Up(k) = n + 1 PROVE FALSE
  <2>1. Up(k) < k
    BY UpIn
  <2> QED  BY <2>1, <1>2
<1> QED  BY <1>1, <1>2 DEF SortedBut, Over

\* A heap of which only the top may be out of place.
LEMMA ToppedSorted ==
    ASSUME NEW n \in Nat, NEW m \in 0..n, NEW v, NEW w, Sorted(v, n),
           \A k \in 2..m : w[k] = v[k]
    PROVE  SortedAbove(w, m, 1)
<1>1. ASSUME NEW k \in 2..m, Up(k) # 1 PROVE w[Up(k)] <= w[k]
  <2>1. k \in 2..n
    OBVIOUS
  <2>2. Up(k) \in 1..m
    BY UpIn
  <2>3. Up(k) \in 2..m
    BY <2>2, <1>1
  <2>4. v[Up(k)] <= v[k]
    BY <2>1 DEF Sorted
  <2> QED  BY <2>3, <2>4
<1> QED  BY <1>1 DEF SortedAbove, Over

-----------------------------------------------------------------------------
(* The operations of the heap.                                              *)

LEMMA Sizes == MaxTimers \in Nat /\ Timer = 1..MaxTimers /\ NULL \notin Timer
  BY TimersAssumption DEF Timer

LEMMA ShapedIs ==
    ASSUME NEW h, Shaped(h)
    PROVE  /\ h.count \in Nat /\ h.count <= MaxTimers /\ h.count \in 0..MaxTimers
           /\ \A k \in 1..h.count : k \in Slots /\ h.table[k] \in Timer
                                     /\ h.index[h.table[k]] = k
           /\ \A j, k \in 1..h.count : h.table[j] = h.table[k] => j = k
           /\ h.table \in [Slots -> Timer \cup {NULL}] /\ h.index \in [Timer -> 0..MaxTimers]
           /\ \A e : e \in H!Elements(h) <=> \E k \in 1..h.count : h.table[k] = e
<1>1. h.count \in Nat /\ h.count <= MaxTimers /\ h.count \in 0..MaxTimers
  BY Sizes DEF Shaped, HeapRecord
<1>2. \A k \in 1..h.count : k \in Slots
  BY <1>1, Sizes DEF Slots
<1>3. h.table \in [Slots -> Timer \cup {NULL}] /\ h.index \in [Timer -> 0..MaxTimers]
  BY DEF Shaped, HeapRecord
<1>4. \A k \in 1..h.count : h.table[k] \in Timer /\ h.index[h.table[k]] = k
  BY DEF Shaped
<1>5. \A e : e \in H!Elements(h) <=> \E k \in 1..h.count : h.table[k] = e
  BY DEF H!Elements
<1> QED  BY <1>1, <1>2, <1>3, <1>4, <1>5

LEMMA KeysTyped ==
    ASSUME NEW h, Shaped(h), NEW f \in [Timer -> Int]
    PROVE  /\ Keys(h, f) \in [1..h.count -> Int]
           /\ \A k \in 1..h.count : Keys(h, f)[k] = f[h.table[k]]
<1>1. \A k \in 1..h.count : f[h.table[k]] \in Int
  BY ShapedIs
<1> QED  BY <1>1 DEF Keys

\* g is h with the elements of slots a and b exchanged.
Exchanged(g, h, a, b) ==
    /\ Shaped(g) /\ g.count = h.count /\ H!Elements(g) = H!Elements(h)
    /\ g.table[a] = h.table[b] /\ g.table[b] = h.table[a]
    /\ \A k \in 1..h.count : k # a /\ k # b => g.table[k] = h.table[k]

LEMMA SwapDoes ==
    ASSUME NEW h, Shaped(h), NEW a \in 1..h.count, NEW b \in 1..h.count, a # b
    PROVE  Exchanged(H!Swap(h, a, b), h, a, b)
<1>1. PICK x \in Timer, y \in Timer :
        /\ x = h.table[a] /\ y = h.table[b] /\ x # y
        /\ a \in Slots /\ b \in Slots
  BY ShapedIs
<1>2. PICK t : t = [h.table EXCEPT ![a] = y, ![b] = x]
  OBVIOUS
<1>3. PICK ix : ix = [h.index EXCEPT ![y] = a, ![x] = b]
  OBVIOUS
<1>4. PICK n \in 0..MaxTimers : n = h.count
  BY ShapedIs
<1>5. H!Swap(h, a, b) = [table |-> t, count |-> n, index |-> ix]
  <2>1. H!Swap(h, a, b) = [h EXCEPT !.table = t, !.index = ix]
    BY <1>1, <1>2, <1>3 DEF H!Swap
  <2>2. h \in HeapRecord
    BY DEF Shaped
  <2>3. PICK ta, cc, ii : h = [table |-> ta, count |-> cc, index |-> ii]
    BY <2>2 DEF HeapRecord
  <2>4. cc = n
    BY <2>3, <1>4
  <2> QED  BY <2>1, <2>3, <2>4
<1>6. t \in [Slots -> Timer \cup {NULL}] /\ t[a] = y /\ t[b] = x
      /\ \A k \in Slots : k # a /\ k # b => t[k] = h.table[k]
  BY <1>1, <1>2, ShapedIs
<1>7. a \in 0..MaxTimers /\ b \in 0..MaxTimers
  BY <1>4, Sizes
<1>8. ix \in [Timer -> 0..MaxTimers] /\ ix[y] = a /\ ix[x] = b
      /\ \A e \in Timer : e # x /\ e # y => ix[e] = h.index[e]
  BY <1>1, <1>3, <1>7, ShapedIs
<1>9. PICK g : g = [table |-> t, count |-> n, index |-> ix]
  OBVIOUS
<1>10. g.table = t /\ g.count = n /\ g.index = ix /\ g \in HeapRecord
  BY <1>6, <1>8, <1>9 DEF HeapRecord
<1>11. \A k \in 1..n : t[k] \in Timer /\ ix[t[k]] = k
  <2> TAKE k \in 1..n
  <2>1. k \in Slots /\ h.table[k] \in Timer /\ h.index[h.table[k]] = k
    BY <1>4, ShapedIs
  <2>2. CASE k = a
    BY <2>2, <1>6, <1>8
  <2>3. CASE k = b
    BY <2>3, <1>6, <1>8
  <2>4. CASE k # a /\ k # b
    <3>1. h.table[k] # x /\ h.table[k] # y
      BY <2>4, <1>1, <1>4, ShapedIs
    <3> QED  BY <3>1, <2>1, <2>4, <1>6, <1>8
  <2> QED  BY <2>2, <2>3, <2>4
<1>12. Shaped(g)
  BY <1>10, <1>11 DEF Shaped
<1>13. \A e : e \in H!Elements(g) <=> e \in H!Elements(h)
  <2>1. \A e : e \in H!Elements(g) <=> \E k \in 1..n : t[k] = e
    BY <1>10 DEF H!Elements
  <2>2. \A e : e \in H!Elements(h) <=> \E k \in 1..n : h.table[k] = e
    BY <1>4 DEF H!Elements
  <2>3. \A k \in 1..n : k \in Slots
    BY <1>4, ShapedIs
  <2>4. a \in 1..n /\ b \in 1..n
    BY <1>4
  <2>5. ASSUME NEW e, NEW k \in 1..n, t[k] = e PROVE \E j \in 1..n : h.table[j] = e
    BY <2>3, <2>4, <2>5, <1>1, <1>6
  <2>6. ASSUME NEW e, NEW k \in 1..n, h.table[k] = e PROVE \E j \in 1..n : t[j] = e
    BY <2>3, <2>4, <2>6, <1>1, <1>6
  <2> QED  BY <2>1, <2>2, <2>5, <2>6
<1>14. H!Elements(g) = H!Elements(h)
  BY <1>13
<1>15. \A k \in 1..h.count : k # a /\ k # b => t[k] = h.table[k]
  BY <1>6, ShapedIs
<1> QED  BY <1>1, <1>4, <1>5, <1>6, <1>9, <1>10, <1>12, <1>14, <1>15 DEF Exchanged

\* The keys change places with the elements.
LEMMA SwapKeys ==
    ASSUME NEW h, Shaped(h), NEW a \in 1..h.count, NEW b \in 1..h.count,
           NEW g, Exchanged(g, h, a, b), NEW f \in [Timer -> Int]
    PROVE  Crossed(Keys(g, f), Keys(h, f), h.count, a, b)
<1>1. PICK v : v = Keys(h, f) /\ \A k \in 1..h.count : v[k] = f[h.table[k]]
  BY KeysTyped
<1>2. PICK w : w = Keys(g, f) /\ \A k \in 1..g.count : w[k] = f[g.table[k]]
  BY KeysTyped DEF Exchanged
<1>3. w[a] = v[b] /\ w[b] = v[a]
  BY <1>1, <1>2 DEF Exchanged
<1>4. \A k \in 1..h.count : k # a /\ k # b => w[k] = v[k]
  BY <1>1, <1>2 DEF Exchanged
<1> QED  BY <1>1, <1>2, <1>3, <1>4 DEF Crossed


\* g is h with e behind its last element.
Joined(g, h, e) ==
    /\ Shaped(g) /\ g.count = h.count + 1 /\ H!Elements(g) = H!Elements(h) \cup {e}
    /\ g.table[h.count + 1] = e
    /\ \A k \in 1..h.count : g.table[k] = h.table[k]

\* There is a slot for an element that is not in the heap.
LEMMA Room ==
    ASSUME NEW h, Shaped(h), NEW e \in Timer, e \notin H!Elements(h)
    PROVE  h.count + 1 \in Slots /\ h.count + 1 \in 0..MaxTimers
<1>1. PICK n \in Nat : n = h.count /\ n <= MaxTimers
  BY ShapedIs
<1>2. PICK f : f = [k \in 1..n |-> h.table[k]]
  OBVIOUS
<1>3. f \in [1..n -> Timer \ {e}]
  <2>1. \A k \in 1..n : h.table[k] \in Timer /\ h.table[k] # e
    BY <1>1, ShapedIs
  <2> QED  BY <1>2, <2>1
<1>4. \A j, k \in 1..n : f[j] = f[k] => j = k
  BY <1>1, <1>2, ShapedIs
<1>5. IsFiniteSet(1..n) /\ Cardinality(1..n) = n
  <2>1. 1 \in Int /\ n \in Int
    BY <1>1
  <2>2. /\ IsFiniteSet(1..n)
        /\ Cardinality(1..n) = IF 1 > n THEN 0 ELSE n - 1 + 1
    BY <2>1, FS_Interval
  <2>3. (IF 1 > n THEN 0 ELSE n - 1 + 1) = n
    BY <1>1
  <2> QED  BY <2>2, <2>3
<1>6. IsFiniteSet(Timer) /\ Cardinality(Timer) = MaxTimers
  BY Sizes, FS_Interval
<1>7. IsFiniteSet(Timer \ {e}) /\ Cardinality(Timer \ {e}) = MaxTimers - 1
  BY <1>6, FS_RemoveElement
<1>8. ~(MaxTimers - 1 < n)
  <2>1. CASE Cardinality(Timer \ {e}) < Cardinality(1..n)
    BY <2>1, <1>3, <1>4, <1>5, <1>7, FS_PigeonHole
  <2> QED  BY <2>1, <1>5, <1>7
<1> QED  BY <1>1, <1>8, Sizes DEF Slots

LEMMA PushedDoes ==
    ASSUME NEW h, Shaped(h), NEW e \in Timer, e \notin H!Elements(h)
    PROVE  Joined(H!Pushed(h, e), h, e)
<1>1. PICK n \in Nat : n = h.count
  BY ShapedIs
<1>2. n + 1 \in Slots /\ n + 1 \in 0..MaxTimers
  BY <1>1, Room
<1>3. PICK m \in Nat : m = n + 1
  BY <1>1
<1>4. PICK t : t = [h.table EXCEPT ![m] = e]
  OBVIOUS
<1>5. PICK ix : ix = [h.index EXCEPT ![e] = m]
  OBVIOUS
<1>6. t \in [Slots -> Timer \cup {NULL}] /\ t[m] = e
      /\ \A k \in Slots : k # m => t[k] = h.table[k]
  BY <1>2, <1>3, <1>4, ShapedIs
<1>7. ix \in [Timer -> 0..MaxTimers] /\ ix[e] = m
      /\ \A x \in Timer : x # e => ix[x] = h.index[x]
  BY <1>2, <1>3, <1>5, ShapedIs
<1>8. PICK g : g = [table |-> t, count |-> m, index |-> ix]
  OBVIOUS
<1>9. g.table = t /\ g.count = m /\ g.index = ix /\ g \in HeapRecord
  BY <1>2, <1>3, <1>6, <1>7, <1>8 DEF HeapRecord
<1>10. H!Pushed(h, e) = g
  BY <1>1, <1>3, <1>4, <1>5, <1>8 DEF H!Pushed
<1>11. \A k \in 1..m : k \in 1..n \/ k = m
  BY <1>3
<1>12. \A k \in 1..n : k \in Slots /\ k # m /\ h.table[k] \in Timer /\ h.table[k] # e
                       /\ h.index[h.table[k]] = k
  BY <1>1, <1>3, ShapedIs
<1>13. \A k \in 1..m : t[k] \in Timer /\ ix[t[k]] = k
  BY <1>6, <1>7, <1>11, <1>12
<1>14. Shaped(g)
  BY <1>9, <1>13 DEF Shaped
<1>15. \A x : x \in H!Elements(g) <=> x \in H!Elements(h) \/ x = e
  <2>1. \A x : x \in H!Elements(g) <=> \E k \in 1..m : t[k] = x
    BY <1>9 DEF H!Elements
  <2>2. \A x : x \in H!Elements(h) <=> \E k \in 1..n : h.table[k] = x
    BY <1>1 DEF H!Elements
  <2>3. m \in 1..m /\ \A k \in 1..n : k \in 1..m
    BY <1>3
  <2> QED  BY <2>1, <2>2, <2>3, <1>6, <1>11, <1>12
<1>16. H!Elements(g) = H!Elements(h) \cup {e}
  BY <1>15
<1>17. \A k \in 1..n : g.table[k] = h.table[k]
  BY <1>6, <1>9, <1>12
<1> QED  BY <1>1, <1>3, <1>6, <1>9, <1>10, <1>14, <1>16, <1>17 DEF Joined

\* g is h without its top; the last element takes its place.
Topped(g, h) ==
    /\ Shaped(g) /\ g.count = h.count - 1 /\ H!Elements(g) = H!Elements(h) \ {h.table[1]}
    /\ \A k \in 2..g.count : g.table[k] = h.table[k]

LEMMA FilledDoes ==
    ASSUME NEW h, Shaped(h), h.count > 0
    PROVE  Topped(H!Filled(h, 1), h)
<1>1. PICK n \in Nat : n = h.count /\ n > 0 /\ n <= MaxTimers
  BY ShapedIs
<1>2. PICK m \in Nat : m = n - 1 /\ m \in 0..MaxTimers /\ n = m + 1
  BY <1>1, Sizes
<1>3. PICK x \in Timer, last \in Timer : x = h.table[1] /\ last = h.table[n]
  <2>1. 1 \in 1..n /\ n \in 1..n
    BY <1>1
  <2> QED  BY <2>1, <1>1, ShapedIs
<1>4. PICK t : t = [h.table EXCEPT ![1] = last]
  OBVIOUS
<1>5. PICK ix : ix = [h.index EXCEPT ![last] = 1]
  OBVIOUS
<1>6. 1 \in Slots /\ 1 \in 0..MaxTimers
  BY <1>1, Sizes DEF Slots
<1>7. t \in [Slots -> Timer \cup {NULL}] /\ t[1] = last
      /\ \A k \in Slots : k # 1 => t[k] = h.table[k]
  BY <1>4, <1>6, ShapedIs
<1>8. ix \in [Timer -> 0..MaxTimers] /\ ix[last] = 1
      /\ \A e \in Timer : e # last => ix[e] = h.index[e]
  BY <1>5, <1>6, ShapedIs
<1>9. PICK g : g = [table |-> t, count |-> m, index |-> ix]
  OBVIOUS
<1>10. g.table = t /\ g.count = m /\ g.index = ix /\ g \in HeapRecord
  BY <1>2, <1>7, <1>8, <1>9 DEF HeapRecord
<1>11. H!Filled(h, 1) = g
  BY <1>1, <1>2, <1>3, <1>4, <1>5, <1>9 DEF H!Filled
<1>12. \A k \in 1..n : k \in Slots /\ h.table[k] \in Timer /\ h.index[h.table[k]] = k
  BY <1>1, ShapedIs
<1>13. \A j, k \in 1..n : h.table[j] = h.table[k] => j = k
  BY <1>1, ShapedIs
<1>14. \A k \in 1..m : k \in 1..n /\ k # n
  BY <1>2
<1>15. 1 \in 1..n /\ n \in 1..n
  BY <1>1
<1>16. \A k \in 1..m : t[k] \in Timer /\ ix[t[k]] = k
  <2> TAKE k \in 1..m
  <2>1. CASE k = 1
    BY <2>1, <1>7, <1>8
  <2>2. CASE k # 1
    <3>1. t[k] = h.table[k] /\ h.table[k] \in Timer /\ h.index[h.table[k]] = k
      BY <2>2, <1>7, <1>12, <1>14
    <3>2. h.table[k] # last
      BY <1>3, <1>13, <1>14, <1>15
    <3> QED  BY <3>1, <3>2, <1>8
  <2> QED  BY <2>1, <2>2
<1>17. Shaped(g)
  BY <1>10, <1>16 DEF Shaped
<1>18. \A e : e \in H!Elements(g) <=> e \in H!Elements(h) /\ e # x
  <2>1. \A e : e \in H!Elements(g) <=> \E k \in 1..m : t[k] = e
    BY <1>10 DEF H!Elements
  <2>2. \A e : e \in H!Elements(h) <=> \E k \in 1..n : h.table[k] = e
    BY <1>1 DEF H!Elements
  <2>3. ASSUME NEW k \in 1..m PROVE t[k] # x /\ \E j \in 1..n : h.table[j] = t[k]
    <3>1. CASE k = 1
      <4>1. n # 1
        BY <3>1, <1>2
      <4>2. last # x
        BY <4>1, <1>3, <1>13, <1>15
      <4> QED  BY <4>2, <3>1, <1>3, <1>7, <1>15
    <3>2. CASE k # 1
      <4>1. k \in 1..n /\ t[k] = h.table[k]
        BY <3>2, <1>7, <1>12, <1>14
      <4>2. h.table[k] # x
        BY <4>1, <3>2, <1>3, <1>13, <1>15
      <4> QED  BY <4>1, <4>2
    <3> QED  BY <3>1, <3>2
  <2>4. ASSUME NEW k \in 1..n, h.table[k] # x PROVE \E j \in 1..m : t[j] = h.table[k]
    <3>1. k # 1
      BY <2>4, <1>3
    <3>2. CASE k = n
      <4>1. 1 \in 1..m
        BY <3>1, <3>2, <1>2
      <4> QED  BY <4>1, <3>2, <1>3, <1>7
    <3>3. CASE k # n
      <4>1. k \in 1..m
        BY <3>3, <1>2
      <4>2. t[k] = h.table[k]
        BY <3>1, <1>7, <1>12
      <4> QED  BY <4>1, <4>2
    <3> QED  BY <3>2, <3>3
  <2> QED  BY <2>1, <2>2, <2>3, <2>4
<1>19. H!Elements(g) = H!Elements(h) \ {x}
  BY <1>18
<1>20. \A k \in 2..m : g.table[k] = h.table[k]
  <2>1. \A k \in 2..m : k \in 1..m /\ k # 1
    OBVIOUS
  <2> QED  BY <2>1, <1>7, <1>10, <1>12, <1>14
<1> QED  BY <1>1, <1>2, <1>3, <1>10, <1>11, <1>17, <1>19, <1>20 DEF Topped

\* g is h as far as it is used.
Alike(g, h) ==
    /\ Shaped(g) /\ g.count = h.count /\ H!Elements(g) = H!Elements(h)
    /\ \A k \in 1..h.count : g.table[k] = h.table[k]

LEMMA TrimmedDoes ==
    ASSUME NEW h, Shaped(h)
    PROVE  Alike(H!Trimmed(h), h)
<1>1. PICK n \in 0..MaxTimers : n = h.count
  BY ShapedIs
<1>2. PICK t : t = [k \in Slots |-> IF k <= n THEN h.table[k] ELSE NULL]
  OBVIOUS
<1>3. PICK in : in = {h.table[k] : k \in 1..n}
  OBVIOUS
<1>4. PICK ix : ix = [e \in Timer |-> IF e \in in THEN h.index[e] ELSE 0]
  OBVIOUS
<1>5. H!Trimmed(h) = [table |-> t, count |-> n, index |-> ix]
  <2>1. H!Trimmed(h) = [h EXCEPT !.table = t, !.index = ix]
    BY <1>1, <1>2, <1>3, <1>4 DEF H!Trimmed, H!Slot, Slots
  <2>2. h \in HeapRecord
    BY DEF Shaped
  <2>3. PICK ta, cc, ii : h = [table |-> ta, count |-> cc, index |-> ii]
    BY <2>2 DEF HeapRecord
  <2>4. cc = n
    BY <2>3, <1>1
  <2> QED  BY <2>1, <2>3, <2>4
<1>6. \A k \in 1..n : k \in Slots /\ k <= n /\ h.table[k] \in in
  BY <1>1, <1>3, ShapedIs
<1>7. \A k \in 1..n : t[k] = h.table[k] /\ h.table[k] \in Timer /\ ix[t[k]] = k
  BY <1>1, <1>2, <1>4, <1>6, ShapedIs
<1>8. t \in [Slots -> Timer \cup {NULL}]
  BY <1>2, ShapedIs
<1>9. ix \in [Timer -> 0..MaxTimers]
  <2>1. 0 \in 0..MaxTimers
    BY Sizes
  <2> QED  BY <2>1, <1>4, ShapedIs
<1>10. PICK g : g = [table |-> t, count |-> n, index |-> ix]
  OBVIOUS
<1>11. g.table = t /\ g.count = n /\ g.index = ix /\ g \in HeapRecord
  BY <1>8, <1>9, <1>10 DEF HeapRecord
<1>12. Shaped(g)
  BY <1>7, <1>11 DEF Shaped
<1>13. H!Elements(g) = H!Elements(h)
  <2>1. \A x : x \in H!Elements(g) <=> \E k \in 1..n : t[k] = x
    BY <1>11 DEF H!Elements
  <2>2. \A x : x \in H!Elements(h) <=> \E k \in 1..n : h.table[k] = x
    BY <1>1 DEF H!Elements
  <2>3. \A x : x \in H!Elements(g) <=> x \in H!Elements(h)
    BY <2>1, <2>2, <1>7
  <2> QED  BY <2>3
<1> QED  BY <1>1, <1>5, <1>7, <1>10, <1>11, <1>12, <1>13 DEF Alike

LEMMA AlikeKeys ==
    ASSUME NEW g, NEW h, Alike(g, h), NEW f \in [Timer -> Int], NEW u \in [Timer -> Int],
           \A e \in H!Elements(h) : u[e] = f[e]
    PROVE  Keys(g, u) = Keys(h, f)
<1>1. \A k \in 1..h.count : h.table[k] \in H!Elements(h) /\ g.table[k] = h.table[k]
  BY DEF Alike, H!Elements
<1>2. \A k \in 1..h.count : u[g.table[k]] = f[h.table[k]]
  BY <1>1
<1>3. g.count = h.count
  BY DEF Alike
<1> QED  BY <1>2, <1>3 DEF Keys

\* The turns of the loops, in terms of the keys in the tree.
LEMMA RisesIs ==
    ASSUME NEW h, Shaped(h), NEW f \in [Timer -> Int], NEW a \in 1..h.count,
           NEW v, v = Keys(h, f)
    PROVE  H!Rises(h, f, a) <=> a > 1 /\ v[a] < v[Up(a)]
<1>1. \A k \in 1..h.count : v[k] = f[h.table[k]]
  BY KeysTyped
<1>2. h.count \in Nat
  BY ShapedIs
<1>3. ASSUME a > 1 PROVE Up(a) \in 1..h.count
  <2>1. a \in 2..h.count
    BY <1>2, <1>3
  <2> QED  BY <2>1, <1>2, UpIn
<1> QED  BY <1>1, <1>3 DEF H!Rises, H!Parent, Up

LEMMA ChildrenOf ==
    ASSUME NEW n \in Nat, NEW a \in Nat \ {0}, NEW k \in 2..n, Up(k) = a
    PROVE  (k = 2 * a \/ k = 2 * a + 1) /\ a \in 1..n /\ 2 * a <= n
<1>1. k \in Nat /\ a \in Nat
  OBVIOUS
<1>2. k = 2 * a \/ k = 2 * a + 1
  BY <1>1, UpIs
<1> QED  BY <1>2

LEMMA SinksIs ==
    ASSUME NEW h, Shaped(h), NEW f \in [Timer -> Int], NEW a \in Nat \ {0},
           NEW v, v = Keys(h, f), NEW n, n = h.count, NEW c, c = H!LesserChild(h, f, a)
    PROVE  IF H!Sinks(h, f, a)
           THEN a \in 1..n /\ Lesser(v, n, a, c) /\ v[c] < v[a]
           ELSE \A k \in 2..n : Up(k) = a => v[a] <= v[k]
<1>1. n \in Nat
  BY ShapedIs
<1>2. v \in [1..n -> Int] /\ \A k \in 1..n : v[k] = f[h.table[k]]
  BY KeysTyped
<1>3. CASE ~(2 * a <= n)
  <2>1. ~H!Sinks(h, f, a)
    BY <1>3 DEF H!Sinks
  <2>2. ASSUME NEW k \in 2..n, Up(k) = a PROVE FALSE
    BY <2>2, <1>1, <1>3, ChildrenOf
  <2> QED  BY <2>1, <2>2
<1>4. CASE 2 * a <= n
  <2>1. a \in 1..n /\ 2 * a \in 1..n /\ 2 * a \in 2..n
    BY <1>1, <1>4
  <2>2. Up(2 * a) = a /\ Up(2 * a + 1) = a
    BY UpIs
  <2>3. 2 * a < n => 2 * a + 1 \in 1..n /\ 2 * a + 1 \in 2..n
    BY <1>1, <1>4
  <2>4. PICK l \in Int : l = v[2 * a] /\ l = f[h.table[2 * a]]
    BY <2>1, <1>2
  <2>5. c = IF 2 * a < n /\ f[h.table[2 * a + 1]] < l THEN 2 * a + 1 ELSE 2 * a
    BY <2>4 DEF H!LesserChild
  <2>6. H!Sinks(h, f, a) <=> f[h.table[c]] < f[h.table[a]]
    BY <1>4 DEF H!Sinks
  <2>7. Lesser(v, n, a, c)
    <3>1. c \in 2..n /\ Up(c) = a
      BY <2>1, <2>2, <2>3, <2>5
    <3>2. ASSUME NEW k \in 2..n, Up(k) = a PROVE v[c] <= v[k]
      <4>1. k = 2 * a \/ k = 2 * a + 1
        BY <3>2, <1>1, ChildrenOf
      <4>2. CASE 2 * a < n
        <5>1. PICK r \in Int : r = v[2 * a + 1] /\ r = f[h.table[2 * a + 1]]
          BY <4>2, <2>3, <1>2
        <5>2. (k = 2 * a /\ v[k] = l) \/ (k = 2 * a + 1 /\ v[k] = r)
          BY <4>1, <5>1, <2>4
        <5>3. CASE r < l
          <6>1. c = 2 * a + 1
            BY <5>1, <5>3, <4>2, <2>5
          <6>2. v[c] = r
            BY <6>1, <5>1
          <6> QED  BY <6>2, <5>2, <5>3
        <5>4. CASE ~(r < l)
          <6>1. c = 2 * a
            BY <5>1, <5>4, <2>5
          <6>2. v[c] = l
            BY <6>1, <2>4
          <6> QED  BY <6>2, <5>2, <5>4
        <5> QED  BY <5>3, <5>4
      <4>3. CASE ~(2 * a < n)
        <5>1. k = 2 * a /\ c = 2 * a
          BY <4>1, <4>3, <2>5, <1>1
        <5> QED  BY <5>1, <2>4
      <4> QED  BY <4>2, <4>3
    <3> QED  BY <3>1, <3>2 DEF Lesser
  <2>8. c \in 1..n /\ v[c] \in Int /\ v[a] \in Int
    BY <2>1, <2>3, <2>5, <1>2
  <2>9. H!Sinks(h, f, a) <=> v[c] < v[a]
    BY <2>1, <2>6, <2>8, <1>2
  <2>10. ASSUME ~(v[c] < v[a]), NEW k \in 2..n, Up(k) = a PROVE v[a] <= v[k]
    <3>1. v[c] <= v[k]
      BY <2>7, <2>10 DEF Lesser
    <3>2. k \in 1..n /\ v[k] \in Int
      BY <1>1, <1>2
    <3> QED  BY <3>1, <3>2, <2>8, <2>10
  <2> QED  BY <2>1, <2>7, <2>9, <2>10
<1> QED  BY <1>3, <1>4

-----------------------------------------------------------------------------
(* The chunks.                                                              *)

Members(s) == {s[i] : i \in 1..Len(s)}

Once(s) == \A i, j \in 1..Len(s) : s[i] = s[j] => i = j

\* The n chunks are those of l, the recycled ones of f and those of o and x.
Kept(l, f, o, x, n) ==
    /\ Once(f) /\ l \cup Members(f) \cup o \cup x = 1..n
    /\ l \cap Members(f) = {} /\ (l \cup Members(f)) \cap o = {}
    /\ (l \cup Members(f) \cup o) \cap x = {}

Out(t) == IF t = NULL THEN {} ELSE {t}

LEMMA KeptIs == ChunksConserved <=> Kept(Live, free, Out(leaving), lost, made)
  BY DEF ChunksConserved, Kept, Once, Members, Out

LEMMA MembersAppend ==
    ASSUME NEW s \in Seq(Timer), NEW b \in Timer
    PROVE  /\ Append(s, b) \in Seq(Timer) /\ Members(Append(s, b)) = Members(s) \cup {b}
           /\ Once(s) /\ b \notin Members(s) => Once(Append(s, b))
<1>1. PICK n \in Nat : n = Len(s)
  OBVIOUS
<1>2. PICK r \in Seq(Timer) :
        /\ r = Append(s, b) /\ Len(r) = n + 1 /\ r[n + 1] = b
        /\ \A i \in 1..n : r[i] = s[i]
  <2>1. /\ Append(s, b) \in Seq(Timer)
        /\ Len(Append(s, b)) = n + 1 /\ Append(s, b)[n + 1] = b
        /\ \A i \in 1..n : Append(s, b)[i] = s[i]
    BY <1>1, AppendProperties
  <2> QED  BY <2>1
<1>3. n + 1 \in 1..(n + 1) /\ \A i \in 1..n : i \in 1..(n + 1)
  BY <1>1
<1>4. \A i \in 1..(n + 1) : i \in 1..n \/ i = n + 1
  BY <1>1
<1>5. \A e : e \in Members(r) <=> e \in Members(s) \/ e = b
  BY <1>1, <1>2, <1>3, <1>4 DEF Members
<1>6. Members(r) = Members(s) \cup {b}
  BY <1>5
<1>7. ASSUME Once(s), b \notin Members(s) PROVE Once(r)
  <2> SUFFICES ASSUME NEW i \in 1..(n + 1), NEW j \in 1..(n + 1), r[i] = r[j]
               PROVE  i = j
    BY <1>2 DEF Once
  <2>1. \A k \in 1..n : r[k] # b
    BY <1>1, <1>2, <1>7 DEF Members
  <2>2. CASE i \in 1..n /\ j \in 1..n
    BY <2>2, <1>1, <1>2, <1>7 DEF Once
  <2> QED  BY <2>1, <2>2, <1>2, <1>4
<1> QED  BY <1>2, <1>6, <1>7

LEMMA MembersTail ==
    ASSUME NEW s \in Seq(Timer), s # <<>>
    PROVE  /\ Head(s) \in Timer /\ Tail(s) \in Seq(Timer)
           /\ Members(s) = {Head(s)} \cup Members(Tail(s))
           /\ Once(s) => Once(Tail(s)) /\ Head(s) \notin Members(Tail(s))
<1>1. PICK r \in Seq(Timer), b \in Timer :
        /\ r = Tail(s) /\ b = Head(s) /\ b = s[1]
        /\ Len(r) = Len(s) - 1 /\ \A i \in 1..Len(r) : r[i] = s[i + 1]
  <2>1. /\ Head(s) \in Timer /\ Tail(s) \in Seq(Timer) /\ Head(s) = s[1]
        /\ Len(Tail(s)) = Len(s) - 1
        /\ \A i \in 1..Len(Tail(s)) : Tail(s)[i] = s[i + 1]
    BY HeadTailProperties
  <2> QED  BY <2>1
<1>2. PICK n \in Nat : n = Len(r) /\ Len(s) = n + 1 /\ \A i \in 1..n : r[i] = s[i + 1]
  <2>1. PICK n \in Nat : n = Len(r)
    OBVIOUS
  <2>2. Len(s) \in Nat /\ n = Len(s) - 1
    BY <2>1, <1>1
  <2>3. Len(s) = n + 1
    BY <2>2
  <2> QED  BY <2>1, <2>3, <1>1
<1>3. 1 \in 1..(n + 1) /\ \A i \in 1..n : i + 1 \in 1..(n + 1) /\ i + 1 # 1
  BY <1>2
<1>4. \A i \in 1..(n + 1) : i = 1 \/ \E k \in 1..n : i = k + 1
  <2> TAKE i \in 1..(n + 1)
  <2>1. i # 1 => i - 1 \in 1..n /\ i = (i - 1) + 1
    BY <1>2
  <2> QED  BY <2>1
<1>5. \A e : e \in Members(s) <=> e = b \/ e \in Members(r)
  <2>1. \A e : e \in Members(s) <=> \E i \in 1..(n + 1) : e = s[i]
    BY <1>2 DEF Members
  <2>2. \A e : e \in Members(r) <=> \E i \in 1..n : e = s[i + 1]
    BY <1>2 DEF Members
  <2>3. ASSUME NEW e, e \in Members(s) PROVE e = b \/ e \in Members(r)
    <3>1. PICK i \in 1..(n + 1) : e = s[i]
      BY <2>1, <2>3
    <3> QED  BY <3>1, <2>2, <1>1, <1>4
  <2>4. ASSUME NEW e, e = b \/ e \in Members(r) PROVE e \in Members(s)
    BY <2>1, <2>2, <2>4, <1>1, <1>3
  <2> QED  BY <2>3, <2>4
<1>6. Members(s) = {b} \cup Members(r)
  BY <1>5
<1>7. ASSUME Once(s) PROVE Once(r) /\ b \notin Members(r)
  <2>1. \A i, j \in 1..(n + 1) : s[i] = s[j] => i = j
    BY <1>2, <1>7 DEF Once
  <2>2. \A i, j \in 1..n : i + 1 = j + 1 => i = j
    BY <1>2
  <2>3. \A i, j \in 1..n : s[i + 1] = s[j + 1] => i = j
    BY <2>1, <2>2, <1>3
  <2>4. Once(r)
    BY <2>3, <1>2 DEF Once
  <2>5. \A i \in 1..n : s[i + 1] # b
    BY <2>1, <1>1, <1>3
  <2> QED  BY <2>4, <2>5, <1>2 DEF Members
<1> QED  BY <1>1, <1>6, <1>7

\* A chunk that is extracted is none that is in use.
LEMMA Extracting ==
    ASSUME free \in Seq(Timer), made \in 0..MaxTimers,
           NEW l, NEW x, Kept(l, free, {}, x, made), CanExtract, Extract
    PROVE  /\ Extracted \in Timer /\ Extracted \notin l /\ Extracted \notin x
           /\ free' \in Seq(Timer) /\ made' \in 0..MaxTimers
           /\ Kept(l \cup {Extracted}, free', {}, x, made')
           /\ Kept(l, free', {}, x \cup {Extracted}, made')
<1>1. CASE free # <<>>
  <2>1. PICK b, r : b = Head(free) /\ r = Tail(free)
    OBVIOUS
  <2>2. Extracted = b /\ free' = r /\ made' = made
    BY <1>1, <2>1 DEF Extract, Extracted
  <2>3. /\ b \in Timer /\ r \in Seq(Timer)
        /\ Members(free) = {b} \cup Members(r)
        /\ Once(free) => Once(r) /\ b \notin Members(r)
    BY <1>1, <2>1, MembersTail
  <2>4. b \notin l /\ b \notin x
    BY <2>3 DEF Kept
  <2>5. (l \cup {b}) \cup Members(r) \cup {} \cup x = 1..made
        /\ l \cup Members(r) \cup {} \cup (x \cup {b}) = 1..made
    BY <2>3 DEF Kept
  <2>6. Kept(l \cup {b}, r, {}, x, made)
    BY <2>3, <2>4, <2>5 DEF Kept
  <2>7. Kept(l, r, {}, x \cup {b}, made)
    BY <2>3, <2>4, <2>5 DEF Kept
  <2> QED  BY <2>2, <2>3, <2>4, <2>6, <2>7
<1>2. CASE free = <<>>
  <2>1. PICK n \in Nat : n = made + 1 /\ n \in 1..MaxTimers
    BY <1>2, Sizes DEF CanExtract
  <2>2. Extracted = n /\ free' = free /\ made' = n
    BY <1>2, <2>1 DEF Extract, Extracted
  <2>3. Members(free) = {}
    BY <1>2 DEF Members
  <2>4. n \notin 1..made /\ (1..made) \cup {n} = 1..n
    BY <2>1, Sizes
  <2>5. n \notin l /\ n \notin x
    BY <2>3, <2>4 DEF Kept
  <2>6. (l \cup {n}) \cup Members(free) \cup {} \cup x = 1..n
        /\ l \cup Members(free) \cup {} \cup (x \cup {n}) = 1..n
    BY <2>3, <2>4 DEF Kept
  <2>7. Kept(l \cup {n}, free, {}, x, n)
    BY <2>3, <2>5, <2>6 DEF Kept
  <2>8. Kept(l, free, {}, x \cup {n}, n)
    BY <2>3, <2>5, <2>6 DEF Kept
  <2> QED  BY <2>1, <2>2, <2>5, <2>7, <2>8, Sizes
<1> QED  BY <1>1, <1>2

LEMMA Taking ==
    ASSUME NEW l, NEW f, NEW x, NEW n, Kept(l, f, {}, x, n), NEW e, e \in l
    PROVE  Kept(l \ {e}, f, {e}, x, n)
  BY DEF Kept

LEMMA Recycling ==
    ASSUME NEW l, NEW f \in Seq(Timer), NEW e \in Timer, NEW x, NEW n, Kept(l, f, {e}, x, n)
    PROVE  Kept(l, Append(f, e), {}, x, n)
<1>1. /\ Members(Append(f, e)) = Members(f) \cup {e}
      /\ Once(f) /\ e \notin Members(f) => Once(Append(f, e))
  BY MembersAppend
<1>2. PICK g : g = Append(f, e)
  OBVIOUS
<1>3. Once(f) /\ e \notin Members(f) /\ e \notin l
  BY DEF Kept
<1>4. l \cup Members(g) \cup {} \cup x = 1..n
  BY <1>1, <1>2 DEF Kept
<1> QED  BY <1>1, <1>2, <1>3, <1>4 DEF Kept

-----------------------------------------------------------------------------
(* Every step keeps the invariant.                                          *)

LEMMA StartsRight == Init => TInv
<1> SUFFICES ASSUME Init PROVE TInv
  OBVIOUS
<1>1. MaxTimers \in Nat /\ 0 \in 0..MaxTimers /\ NULL \notin Timer
  BY Sizes
<1>2. PICK h : h = heap /\ h = [table |-> [k \in Slots |-> NULL], count |-> 0,
                                index |-> [e \in Timer |-> 0]]
  BY DEF Init, H!EmptyHeap, H!Slot, Slots
<1>3. h.count = 0 /\ h \in HeapRecord
  BY <1>1, <1>2 DEF HeapRecord
<1>4. Shaped(heap) /\ heap.count = 0
  BY <1>2, <1>3 DEF Shaped
<1>5. Types
  <2>1. size = HeapSize
    BY DEF Init
  <2>2. size \in Nat /\ size >= 2 /\ heap.count < size
    BY <2>1, <1>4, TimersAssumption
  <2> QED  BY <2>2, <1>1, <1>4 DEF Types, Init
<1>6. Loops /\ Running
  BY <1>4 DEF Loops, Running, Phase, Sorted, Init
<1>7. Live = {}
  BY <1>4 DEF Live, H!Elements
<1>8. free = <<>> /\ leaving = NULL /\ made = 0 /\ lost = {}
  BY DEF Init
<1>9. Kept({}, <<>>, {}, {}, 0)
  <2>1. Len(<<>>) = 0
    OBVIOUS
  <2> QED  BY <2>1 DEF Kept, Once, Members
<1>10. ChunksConserved
  BY <1>7, <1>8, <1>9, KeptIs DEF Out
<1> QED  BY <1>5, <1>6, <1>10 DEF TInv

LEMMA UpKeeps ==
    ASSUME TInv, HeapUp
    PROVE  TInv' /\ Live' = Live
<1>1. PICK h, f, a, n : h = heap /\ f = key /\ a = at /\ n = h.count
  OBVIOUS
<1>2. /\ Shaped(h) /\ f \in [Timer -> Int] /\ n \in Nat
      /\ a \in 1..n /\ back \in {"yield", "called"} /\ leaving = NULL
      /\ SortedBut(Keys(h, f), n, a)
  BY <1>1, ShapedIs DEF TInv, Types, Loops, HeapUp
<1>3. PICK v : v = Keys(h, f)
  OBVIOUS
<1>4. v \in [1..n -> Int] /\ \A k \in 1..n : v[k] = f[h.table[k]]
  BY <1>1, <1>2, <1>3, KeysTyped
<1>5. a > 1 /\ v[a] < v[Up(a)]
  BY <1>1, <1>2, <1>3, RisesIs DEF HeapUp
<1>6. a \in 2..n
  BY <1>2, <1>5
<1>7. PICK p \in 1..n : p = Up(a) /\ p # a /\ p < a
  BY <1>2, <1>6, UpIn
<1>8. PICK g : g = H!Swap(h, a, p) /\ Exchanged(g, h, a, p)
  BY <1>1, <1>2, <1>7, SwapDoes
<1>9. heap' = g /\ at' = p
  BY <1>1, <1>7, <1>8 DEF HeapUp, H!Parent, Up
<1>10. key' = f /\ UNCHANGED <<kind, after, repeat, free, made, size, lost, leaving, now, limit, pc,
                            back, cur>>
  BY <1>1 DEF HeapUp, fields, store, clock
<1>11. Shaped(g) /\ g.count = n /\ H!Elements(g) = H!Elements(h)
  BY <1>1, <1>8 DEF Exchanged
<1>12. PICK w : w = Keys(g, f)
  OBVIOUS
<1>13. w \in [1..n -> Int] /\ \A k \in 1..n : w[k] = f[g.table[k]]
  BY <1>2, <1>11, <1>12, KeysTyped
<1>14. SortedBut(w, n, p)
  <2>1. Crossed(w, v, n, a, p)
    BY <1>1, <1>2, <1>3, <1>7, <1>8, <1>12, SwapKeys
  <2> QED  BY <2>1, <1>2, <1>3, <1>4, <1>5, <1>6, <1>7, <1>13, RisingKeeps
<1>15. Types'
  BY <1>1, <1>9, <1>10, <1>11 DEF TInv, Types
<1>16. Loops'
  <2>1. pc = "up"
    BY DEF HeapUp
  <2> QED  BY <2>1, <1>2, <1>7, <1>9, <1>10, <1>11, <1>12, <1>14 DEF Loops
<1>17. Running'
  <2>1. pc = "up" /\ Phase = back /\ Phase' = back
    BY <1>10 DEF HeapUp, Phase
  <2>2. CASE back = "called"
    <3>1. n > 0 /\ cur = h.table[1] /\ f[cur] < limit /\ f[h.table[a]] >= limit
      BY <2>1, <2>2, <1>1 DEF TInv, Running
    <3>2. limit \in Int
      BY DEF TInv, Types
    <3>3. 1 \in 1..n /\ p # 1
      <4>1. 1 \in 1..n
        BY <1>2, <1>7
      <4>2. v[1] < limit /\ v[a] >= limit
        BY <3>1, <4>1, <1>2, <1>4
      <4>3. v[1] \in Int /\ v[a] \in Int /\ v[p] \in Int
        BY <4>1, <1>2, <1>4
      <4> QED  BY <4>1, <4>2, <4>3, <3>2, <1>5, <1>7
    <3>4. g.table[1] = h.table[1] /\ g.table[p] = h.table[a]
      BY <3>3, <1>1, <1>5, <1>8 DEF Exchanged
    <3> QED  BY <2>1, <2>2, <3>1, <3>4, <1>1, <1>9, <1>10, <1>11 DEF Running
  <2>3. CASE back # "called"
    BY <2>1, <2>3, <1>10 DEF TInv, Running
  <2> QED  BY <2>2, <2>3
<1>18. ChunksConserved'
  BY <1>1, <1>9, <1>10, <1>11 DEF TInv, ChunksConserved, Live
<1> QED  BY <1>1, <1>9, <1>11, <1>15, <1>16, <1>17, <1>18 DEF TInv, Live

LEMMA DownKeeps ==
    ASSUME TInv, HeapDown
    PROVE  TInv' /\ Live' = Live
<1>1. PICK h, f, a, n : h = heap /\ f = key /\ a = at /\ n = h.count
  OBVIOUS
<1>2. /\ Shaped(h) /\ f \in [Timer -> Int] /\ n \in Nat
      /\ a \in Nat \ {0} /\ back = "loop"
      /\ SortedAbove(Keys(h, f), n, a)
  BY <1>1, ShapedIs DEF TInv, Types, Loops, HeapDown
<1>3. PICK v : v = Keys(h, f)
  OBVIOUS
<1>4. v \in [1..n -> Int] /\ \A k \in 1..n : v[k] = f[h.table[k]]
  BY <1>1, <1>2, <1>3, KeysTyped
<1>5. PICK c : c = H!LesserChild(h, f, a)
  OBVIOUS
<1>6. a \in 1..n /\ Lesser(v, n, a, c) /\ v[c] < v[a]
  <2>1. H!Sinks(h, f, a)
    BY <1>1 DEF HeapDown
  <2> QED  BY <2>1, <1>1, <1>2, <1>3, <1>5, SinksIs
<1>7. c \in 1..n /\ c # a
  BY <1>2, <1>6, UpIn DEF Lesser
<1>8. PICK g : g = H!Swap(h, c, a) /\ Exchanged(g, h, c, a)
  BY <1>1, <1>2, <1>6, <1>7, SwapDoes
<1>9. heap' = g /\ at' = c
  BY <1>1, <1>5, <1>8 DEF HeapDown
<1>10. key' = f /\ UNCHANGED <<kind, after, repeat, free, made, size, lost, leaving, now, limit, pc,
                            back, cur>>
  BY <1>1 DEF HeapDown, fields, store, clock
<1>11. Shaped(g) /\ g.count = n /\ H!Elements(g) = H!Elements(h)
  BY <1>1, <1>8 DEF Exchanged
<1>12. PICK w : w = Keys(g, f)
  OBVIOUS
<1>13. w \in [1..n -> Int] /\ \A k \in 1..n : w[k] = f[g.table[k]]
  BY <1>2, <1>11, <1>12, KeysTyped
<1>14. SortedAbove(w, n, c)
  <2>1. Crossed(w, v, n, c, a)
    BY <1>1, <1>2, <1>3, <1>6, <1>7, <1>8, <1>12, SwapKeys
  <2>2. Crossed(w, v, n, a, c)
    BY <2>1 DEF Crossed
  <2> QED  BY <2>2, <1>2, <1>3, <1>4, <1>6, <1>13, SinkingKeeps
<1>15. Types'
  BY <1>1, <1>9, <1>10, <1>11 DEF TInv, Types
<1>16. Loops'
  <2>1. pc = "down" /\ c \in Nat \ {0}
    BY <1>7 DEF HeapDown
  <2> QED  BY <2>1, <1>2, <1>9, <1>10, <1>11, <1>12, <1>14 DEF Loops
<1>17. Running'
  BY <1>2, <1>10 DEF TInv, Running, Phase, HeapDown
<1>18. ChunksConserved'
  BY <1>1, <1>9, <1>10, <1>11 DEF TInv, ChunksConserved, Live
<1> QED  BY <1>1, <1>9, <1>11, <1>15, <1>16, <1>17, <1>18 DEF TInv, Live

LEMMA SettleKeeps ==
    ASSUME TInv, Settle
    PROVE  TInv' /\ Live' = Live /\ leaving \notin Live
<1>1. PICK h, f, a, n : h = heap /\ f = key /\ a = at /\ n = h.count
  OBVIOUS
<1>2. Shaped(h) /\ f \in [Timer -> Int] /\ n \in Nat /\ pc \in {"up", "down"}
  BY <1>1, ShapedIs DEF TInv, Types, Settle
<1>3. leaving \in Timer \cup {NULL} /\ free \in Seq(Timer)
  BY DEF TInv, Types
<1>4. Kept(Live, free, Out(leaving), lost, made) /\ Live = H!Elements(h)
  BY <1>1, KeptIs DEF TInv, Live
<1>5. PICK g : g = H!Trimmed(h) /\ Alike(g, h) /\ g = heap'
  BY <1>1, <1>2, TrimmedDoes DEF Settle
<1>6. Shaped(g) /\ g.count = n /\ H!Elements(g) = H!Elements(h)
      /\ \A k \in 1..n : g.table[k] = h.table[k]
  BY <1>1, <1>5 DEF Alike
<1>7. PICK u : u = key' /\ u = Cleared(f)
  BY <1>1 DEF Settle
<1>8. u \in [Timer -> Int] /\ (\A e \in Timer : e # leaving => u[e] = f[e])
      /\ (leaving = NULL => u = f)
  BY <1>2, <1>3, <1>7 DEF Cleared
<1>9. \A e \in H!Elements(h) : e \in Timer /\ e # leaving
  <2>1. \A e \in H!Elements(h) : e \in Timer
    BY <1>2, ShapedIs
  <2>2. leaving # NULL => leaving \notin Live
    BY <1>4 DEF Kept, Out
  <2> QED  BY <2>1, <2>2, <1>4, Sizes
<1>10. Keys(g, u) = Keys(h, f)
  BY <1>2, <1>5, <1>8, <1>9, AlikeKeys
<1>11. Sorted(Keys(h, f), n)
  <2>1. PICK v : v = Keys(h, f)
    OBVIOUS
  <2>2. v \in [1..n -> Int]
    BY <2>1, <1>1, <1>2, KeysTyped
  <2>3. CASE pc = "up"
    <3>1. a \in 1..n /\ SortedBut(v, n, a)
      BY <2>1, <2>3, <1>1 DEF TInv, Loops
    <3>2. ~H!Rises(h, f, a)
      BY <2>3, <1>1 DEF Settle
    <3>3. ~(a > 1 /\ v[a] < v[Up(a)])
      BY <3>1, <3>2, <2>1, <1>1, <1>2, RisesIs
    <3> QED  BY <3>1, <3>3, <2>1, <2>2, <1>2, RisenSorted
  <2>4. CASE pc = "down"
    <3>1. a \in Nat \ {0} /\ SortedAbove(v, n, a)
      BY <2>1, <2>4, <1>1 DEF TInv, Loops
    <3>2. ~H!Sinks(h, f, a)
      BY <2>4, <1>1 DEF Settle
    <3>3. \A k \in 2..n : Up(k) = a => v[a] <= v[k]
      BY <3>1, <3>2, <2>1, <1>1, <1>2, SinksIs
    <3> QED  BY <3>1, <3>3, <2>1, <2>2, <1>2, SunkSorted
  <2> QED  BY <2>3, <2>4, <1>2
<1>12. /\ leaving' = NULL /\ pc' = back /\ back \in {"yield", "called", "loop"}
       /\ UNCHANGED <<kind, made, size, lost, now, limit, cur>>
  BY DEF TInv, Loops, Settle, clock
<1>13. Types'
  <2>1. after' \in [Timer -> Int]
    <3>1. after \in [Timer -> Int]
      BY DEF TInv, Types
    <3> QED  BY <3>1, <1>3 DEF Settle, Cleared
  <2>2. repeat' \in [Timer -> {-1} \cup Nat]
    <3>1. repeat \in [Timer -> {-1} \cup Nat] /\ 0 \in {-1} \cup Nat
      BY DEF TInv, Types
    <3> QED  BY <3>1, <1>3 DEF Settle, Cleared
  <2>3. free' \in Seq(Timer)
    BY <1>3, MembersAppend DEF Settle
  <2>4. size \in Nat /\ size >= 2 /\ n < size
    BY <1>1 DEF TInv, Types
  <2>5. size' \in Nat /\ size' >= 2 /\ g.count < size'
    BY <2>4, <1>6, <1>12
  <2> QED  BY <2>1, <2>2, <2>3, <2>5, <1>5, <1>6, <1>7, <1>8, <1>12 DEF TInv, Types
<1>14. Loops'
  BY <1>5, <1>6, <1>7, <1>10, <1>11, <1>12 DEF Loops
<1>15. Running'
  <2>1. Phase = back /\ Phase' = back
    BY <1>2, <1>12 DEF Phase
  <2>2. CASE back = "called"
    <3>1. n > 0 /\ cur = h.table[1] /\ f[cur] < limit
      BY <2>1, <2>2, <1>1 DEF TInv, Running
    <3>2. leaving = NULL
      BY <2>2, <1>2 DEF TInv, Loops
    <3>3. u = f
      BY <3>2, <1>8
    <3>4. 1 \in 1..n
      BY <3>1, <1>2
    <3>5. g.table[1] = h.table[1]
      BY <3>4, <1>6
    <3>6. pc' # "up"
      BY <2>2, <1>12
    <3> QED  BY <2>1, <2>2, <3>1, <3>3, <3>5, <3>6, <1>5, <1>6, <1>7, <1>12 DEF Running
  <2>3. CASE back # "called"
    BY <2>1, <2>3, <1>12 DEF TInv, Running
  <2> QED  BY <2>2, <2>3
<1>16. ChunksConserved'
  <2>1. Live' = H!Elements(h) /\ Out(leaving') = {}
    BY <1>5, <1>6, <1>12 DEF Live, Out
  <2>2. Kept(Live, free', {}, lost, made)
    <3>1. CASE leaving = NULL
      BY <3>1, <1>4 DEF Out, Settle
    <3>2. CASE leaving # NULL
      <4>1. leaving \in Timer /\ Out(leaving) = {leaving} /\ free' = Append(free, leaving)
        BY <3>2, <1>3 DEF Out, Settle
      <4> QED  BY <4>1, <1>3, <1>4, Recycling
    <3> QED  BY <3>1, <3>2
  <2>3. Kept(Live', free', Out(leaving'), lost', made')
    BY <2>1, <2>2, <1>4, <1>12
  <2> QED  BY <2>3 DEF ChunksConserved, Kept, Once, Members, Out
<1> QED  BY <1>1, <1>5, <1>6, <1>9, <1>13, <1>14, <1>15, <1>16 DEF TInv, Live

LEMMA ArmKeeps ==
    ASSUME TInv, NEW due \in Int, NEW interval \in Int, NEW times \in {-1} \cup Nat,
           Arm(due, interval, times), pc = "called" => due >= limit
    PROVE  /\ TInv' /\ Extracted \in Timer /\ Extracted \notin Live
           /\ Live' = Live \cup {Extracted}
<1>1. PICK h, f, n, t : h = heap /\ f = key /\ n = h.count /\ t = Extracted
  OBVIOUS
<1>2. Shaped(h) /\ f \in [Timer -> Int] /\ n \in Nat /\ pc \in {"yield", "called"}
  BY <1>1, ShapedIs DEF TInv, Types, Arm, ProgramRuns
<1>3. leaving = NULL /\ Sorted(Keys(h, f), n) /\ Phase = pc
  BY <1>1, <1>2 DEF TInv, Loops, Phase
<1>4. /\ t \in Timer /\ t \notin Live
      /\ free' \in Seq(Timer) /\ made' \in 0..MaxTimers
      /\ Kept(Live \cup {t}, free', {}, lost, made')
  <2>1. Kept(Live, free, {}, lost, made)
    BY <1>3, KeptIs DEF TInv, Out
  <2>2. free \in Seq(Timer) /\ made \in 0..MaxTimers /\ CanExtract /\ Extract
    BY DEF TInv, Types, Arm
  <2> QED  BY <2>1, <2>2, <1>1, Extracting
<1>5. Live = H!Elements(h)
  BY <1>1 DEF Live
<1>6. PICK g : g = H!Pushed(h, t) /\ Joined(g, h, t) /\ g = heap'
  BY <1>1, <1>2, <1>4, <1>5, PushedDoes DEF Arm
<1>7. PICK m \in Nat : m = n + 1 /\ m = g.count /\ m \in 1..m
  BY <1>1, <1>2, <1>6 DEF Joined
<1>8. /\ Shaped(g) /\ H!Elements(g) = H!Elements(h) \cup {t} /\ g.table[m] = t
      /\ \A k \in 1..n : g.table[k] = h.table[k]
  BY <1>1, <1>6, <1>7 DEF Joined
<1>9. PICK u : u = key' /\ u = [f EXCEPT ![t] = due]
  BY <1>1 DEF Arm
<1>10. u \in [Timer -> Int] /\ u[t] = due /\ \A e \in Timer : e # t => u[e] = f[e]
  BY <1>2, <1>4, <1>9
<1>11. pc' = "up" /\ at' = m /\ back' = pc /\ leaving' = NULL
       /\ UNCHANGED <<kind, lost, now, limit, cur>>
  BY <1>1, <1>3, <1>7 DEF Arm, GoUp, clock
<1>12. \A k \in 1..n : h.table[k] \in Timer /\ h.table[k] # t
  BY <1>1, <1>2, <1>4, <1>5, ShapedIs
<1>13. SortedBut(Keys(g, u), m, m)
  <2>1. PICK v, w : v = Keys(h, f) /\ w = Keys(g, u)
    OBVIOUS
  <2>2. \A k \in 1..n : v[k] = f[h.table[k]]
    BY <2>1, <1>1, <1>2, KeysTyped
  <2>3. \A k \in 1..m : w[k] = u[g.table[k]]
    BY <2>1, <1>7, <1>8, <1>10, KeysTyped
  <2>4. \A k \in 1..n : k \in 1..m
    BY <1>2, <1>7
  <2>5. \A k \in 1..n : w[k] = v[k]
    BY <2>2, <2>3, <2>4, <1>8, <1>10, <1>12
  <2> QED  BY <2>1, <2>5, <1>2, <1>3, <1>7, PushedSorted
<1>14. Types'
  <2>1. after' \in [Timer -> Int] /\ repeat' \in [Timer -> {-1} \cup Nat]
    BY <1>1 DEF Arm, TInv, Types
  <2>2. size' \in Nat /\ size' >= 2 /\ m < size'
    <3>1. PICK z \in Nat : z = size /\ z >= 2 /\ n < z
      <4>1. size \in Nat /\ size >= 2 /\ n < size
        BY <1>1 DEF TInv, Types
      <4> QED  BY <4>1
    <3>2. size' = IF m = z THEN z + z \div 2 ELSE z
      <4>1. H!Full(heap, size) <=> m = z
        BY <3>1, <1>1, <1>7 DEF H!Full
      <4>2. H!Grown(size) = z + z \div 2
        BY <3>1 DEF H!Grown
      <4>3. size' = IF H!Full(heap, size) THEN H!Grown(size) ELSE size
        BY DEF Arm
      <4> QED  BY <4>1, <4>2, <4>3, <3>1
    <3>3. PICK y \in Nat : y = z + z \div 2 /\ z < y
      BY <3>1, Growing
    <3>4. size' = IF m = z THEN y ELSE z
      BY <3>2, <3>3
    <3>5. m <= z
      BY <3>1, <1>2, <1>7
    <3>6. CASE m = z
      BY <3>1, <3>3, <3>4, <3>6
    <3>7. CASE m # z
      BY <3>1, <3>4, <3>5, <3>7
    <3> QED  BY <3>6, <3>7
  <2>3. heap'.count < size'
    BY <2>2, <1>6, <1>7
  <2>4. leaving' \in Timer \cup {NULL}
    BY <1>11
  <2>5. /\ kind' \in Kinds /\ now' \in Nat /\ limit' \in Nat /\ limit' <= now'
        /\ cur' \in Timer \cup {NULL}
    BY <1>11 DEF TInv, Types
  <2> QED  BY <2>1, <2>2, <2>3, <2>4, <2>5, <1>4, <1>6, <1>8, <1>9, <1>10 DEF Types
<1>15. Loops'
  BY <1>2, <1>6, <1>7, <1>9, <1>11, <1>13 DEF Loops
<1>16. Running'
  <2>1. Phase' = pc
    BY <1>11 DEF Phase
  <2>2. CASE pc = "called"
    <3>1. n > 0 /\ cur = h.table[1] /\ f[cur] < limit /\ due >= limit
      BY <2>2, <1>1, <1>3 DEF TInv, Running
    <3>2. 1 \in 1..n /\ m > 0
      BY <3>1, <1>2, <1>7
    <3>3. g.table[1] = cur /\ u[cur] = f[cur]
      BY <3>1, <3>2, <1>8, <1>10, <1>12
    <3> QED  BY <2>1, <2>2, <3>1, <3>2, <3>3, <1>6, <1>7, <1>8, <1>9, <1>10, <1>11 DEF Running
  <2>3. CASE pc # "called"
    BY <2>1, <2>3, <1>3, <1>11 DEF TInv, Running
  <2> QED  BY <2>2, <2>3
<1>17. ChunksConserved'
  <2>1. Live' = Live \cup {t} /\ Out(leaving') = {}
    BY <1>5, <1>6, <1>8, <1>11 DEF Live, Out
  <2>2. Kept(Live', free', Out(leaving'), lost', made')
    BY <2>1, <1>4, <1>11
  <2> QED  BY <2>2 DEF ChunksConserved, Kept, Once, Members, Out
<1> QED  BY <1>1, <1>4, <1>5, <1>6, <1>8, <1>14, <1>15, <1>16, <1>17 DEF TInv, Live

\* A push that fails takes a chunk and leaves the heap alone.
LEMMA ForgetKeeps ==
    ASSUME TInv, Forget
    PROVE  TInv' /\ UNCHANGED <<key, after, repeat, pc, back, now, limit, cur, Live>>
<1>1. /\ pc \in {"yield", "called"} /\ CanExtract /\ Extract
      /\ lost' = lost \cup {Extracted}
      /\ UNCHANGED <<kind, heap, key, after, repeat, size, leaving, now, limit, pc, at, back, cur>>
  BY DEF Forget, ProgramRuns, fields, clock
<1>2. leaving = NULL
  BY <1>1 DEF TInv, Loops
<1>3. free' \in Seq(Timer) /\ made' \in 0..MaxTimers
      /\ Kept(Live, free', {}, lost', made')
  <2>1. Kept(Live, free, {}, lost, made)
    BY <1>2, KeptIs DEF TInv, Out
  <2>2. free \in Seq(Timer) /\ made \in 0..MaxTimers
    BY DEF TInv, Types
  <2> QED  BY <2>1, <2>2, <1>1, Extracting
<1>4. UNCHANGED <<Live, Phase>>
  BY <1>1 DEF Live, Phase
<1>5. Types'
  BY <1>1, <1>3 DEF TInv, Types
<1>6. Loops' /\ Running'
  BY <1>1, <1>4 DEF TInv, Loops, Running
<1>7. ChunksConserved'
  <2>1. Out(leaving') = {}
    BY <1>1, <1>2 DEF Out
  <2>2. Kept(Live', free', Out(leaving'), lost', made')
    BY <2>1, <1>3, <1>4
  <2> QED  BY <2>2 DEF ChunksConserved, Kept, Once, Members, Out
<1> QED  BY <1>1, <1>4, <1>5, <1>6, <1>7 DEF TInv

\* What the heap is when a callback returns: its timer is on top.
LEMMA Returning ==
    ASSUME TInv, pc = "called"
    PROVE  /\ Shaped(heap) /\ heap.count \in Nat /\ heap.count > 0 /\ 1 \in 1..heap.count
           /\ cur \in Timer /\ cur = heap.table[1] /\ heap.index[cur] = 1 /\ cur \in Live
           /\ leaving = NULL /\ key \in [Timer -> Int]
           /\ Sorted(Keys(heap, key), heap.count)
<1>1. /\ Shaped(heap) /\ heap.count > 0 /\ cur = heap.table[1] /\ leaving = NULL
      /\ key \in [Timer -> Int] /\ Sorted(Keys(heap, key), heap.count)
  BY DEF TInv, Types, Loops, Running, Phase
<1>2. heap.count \in Nat
  BY <1>1, ShapedIs
<1>3. 1 \in 1..heap.count
  BY <1>1, <1>2
<1> QED  BY <1>1, <1>2, <1>3, ShapedIs DEF Live

LEMMA RepeatedKeeps ==
    ASSUME TInv, Repeated
    PROVE  TInv'
<1>1. PICK h, f, n, c : h = heap /\ f = key /\ n = h.count /\ c = cur
  OBVIOUS
<1>2. /\ Shaped(h) /\ n \in Nat /\ n > 0 /\ 1 \in 1..n
      /\ c \in Timer /\ c = h.table[1] /\ h.index[c] = 1
      /\ leaving = NULL /\ f \in [Timer -> Int] /\ Sorted(Keys(h, f), n)
  BY <1>1, Returning DEF Repeated
<1>3. after \in [Timer -> Int] /\ repeat \in [Timer -> {-1} \cup Nat]
  BY DEF TInv, Types
<1>4. PICK u : u = key' /\ u = [f EXCEPT ![c] = f[c] + after[c]]
  BY <1>1 DEF Repeated
<1>5. u \in [Timer -> Int] /\ \A e \in Timer : e # c => u[e] = f[e]
  BY <1>2, <1>3, <1>4
<1>6. heap' = h /\ pc' = "down" /\ at' = 1 /\ back' = "loop" /\ cur' = NULL /\ leaving' = NULL
      /\ UNCHANGED <<kind, free, made, size, lost, after, now, limit>>
  BY <1>1, <1>2 DEF Repeated, GoDown, store, clock
<1>7. SortedAbove(Keys(h, u), n, 1)
  <2>1. PICK v, w : v = Keys(h, f) /\ w = Keys(h, u)
    OBVIOUS
  <2>2. \A k \in 1..n : v[k] = f[h.table[k]] /\ w[k] = u[h.table[k]]
    <3>1. h.count = n
      BY <1>1
    <3>2. \A k \in 1..n : v[k] = f[h.table[k]]
      BY <3>1, <2>1 DEF Keys
    <3>3. \A k \in 1..n : w[k] = u[h.table[k]]
      BY <3>1, <2>1 DEF Keys
    <3> QED  BY <3>2, <3>3
  <2>3. \A k \in 2..n : k \in 1..n /\ k # 1
    OBVIOUS
  <2>4. \A k \in 2..n : h.table[k] \in Timer /\ h.table[k] # c
    BY <2>3, <1>1, <1>2, ShapedIs
  <2>5. \A k \in 2..n : w[k] = v[k]
    BY <2>2, <2>3, <2>4, <1>5
  <2>6. n \in 0..n
    BY <1>2
  <2> QED  BY <2>1, <2>5, <2>6, <1>2, ToppedSorted
<1>8. Types'
  <2>1. repeat' \in [Timer -> {-1} \cup Nat]
    <3>1. PICK r \in {-1} \cup Nat : r = repeat[c]
      BY <1>2, <1>3
    <3>2. (IF r > 0 THEN r - 1 ELSE r) \in {-1} \cup Nat
      OBVIOUS
    <3>3. repeat' = [repeat EXCEPT ![c] = IF r > 0 THEN r - 1 ELSE r]
      BY <3>1, <1>1 DEF Repeated
    <3> QED  BY <3>2, <3>3, <1>3
  <2> QED  BY <2>1, <1>1, <1>4, <1>5, <1>6 DEF TInv, Types
<1>9. Loops'
  BY <1>1, <1>4, <1>6, <1>7 DEF Loops
<1>10. Running'
  BY <1>6 DEF Running, Phase
<1>11. ChunksConserved'
  BY <1>1, <1>2, <1>6 DEF TInv, ChunksConserved, Live
<1> QED  BY <1>8, <1>9, <1>10, <1>11 DEF TInv

LEMMA FinishedKeeps ==
    ASSUME TInv, NEW below \in BOOLEAN, Finished(below)
    PROVE  TInv' /\ Live' = Live \ {cur}
<1>1. PICK h, f, n, c : h = heap /\ f = key /\ n = h.count /\ c = cur
  OBVIOUS
<1>2. /\ Shaped(h) /\ n \in Nat /\ n > 0 /\ 1 \in 1..n
      /\ c \in Timer /\ c = h.table[1] /\ h.index[c] = 1 /\ c \in Live
      /\ leaving = NULL /\ f \in [Timer -> Int] /\ Sorted(Keys(h, f), n)
  BY <1>1, Returning DEF Finished
<1>3. PICK g : g = H!Filled(h, 1) /\ Topped(g, h) /\ g = heap'
  BY <1>1, <1>2, FilledDoes DEF Finished, Erase
<1>4. PICK m \in Nat : m = n - 1 /\ m = g.count /\ m \in 0..n
  BY <1>1, <1>2, <1>3 DEF Topped
<1>5. /\ Shaped(g) /\ H!Elements(g) = H!Elements(h) \ {c}
      /\ \A k \in 2..m : g.table[k] = h.table[k]
  BY <1>2, <1>3, <1>4 DEF Topped
<1>6. leaving' = c /\ pc' = "down" /\ at' = 1 /\ back' = "loop" /\ cur' = NULL /\ key' = f
      /\ UNCHANGED <<kind, after, repeat, free, made, size, lost, now, limit>>
  BY <1>1, <1>2 DEF Finished, Erase, GoDown, fields, store, clock
<1>7. SortedAbove(Keys(g, f), m, 1)
  <2>1. PICK v, w : v = Keys(h, f) /\ w = Keys(g, f)
    OBVIOUS
  <2>2. \A k \in 1..n : v[k] = f[h.table[k]]
    BY <2>1, <1>1, <1>2, KeysTyped
  <2>3. \A k \in 1..m : w[k] = f[g.table[k]]
    BY <2>1, <1>2, <1>4, <1>5, KeysTyped
  <2>4. \A k \in 2..m : k \in 1..n /\ k \in 1..m
    BY <1>2, <1>4
  <2>5. \A k \in 2..m : w[k] = v[k]
    BY <2>2, <2>3, <2>4, <1>5
  <2> QED  BY <2>1, <2>5, <1>2, <1>4, ToppedSorted
<1>8. Types'
  <2>1. size \in Nat /\ n < size
    BY <1>1 DEF TInv, Types
  <2>2. m < size
    BY <2>1, <1>2, <1>4
  <2> QED  BY <2>2, <1>1, <1>2, <1>3, <1>4, <1>5, <1>6 DEF TInv, Types
<1>9. Loops'
  BY <1>3, <1>4, <1>6, <1>7 DEF Loops
<1>10. Running'
  BY <1>6 DEF Running, Phase
<1>11. ChunksConserved'
  <2>1. Live = H!Elements(h) /\ Live' = Live \ {c}
    BY <1>1, <1>3, <1>5 DEF Live
  <2>2. Out(leaving') = {c}
    BY <1>2, <1>6, Sizes DEF Out
  <2>3. Kept(Live, free, {}, lost, made)
    BY <1>2, KeptIs DEF TInv, Out
  <2>4. Kept(Live', free', Out(leaving'), lost', made')
    BY <2>1, <2>2, <2>3, <1>2, <1>6, Taking
  <2> QED  BY <2>4 DEF ChunksConserved, Kept, Once, Members, Out
<1> QED  BY <1>1, <1>3, <1>5, <1>8, <1>9, <1>10, <1>11 DEF TInv, Live

\* The steps that leave heap and chunks alone.
LEMMA OthersKeep ==
    ASSUME TInv, Check \/ Fire \/ CheckEnd \/ Tick
    PROVE  TInv'
<1>1. /\ pc \in {"yield", "loop", "called"} /\ pc' \in {"yield", "loop", "called"}
      /\ UNCHANGED <<kind, heap, key, after, repeat, free, made, size, lost, leaving, at, back>>
  BY DEF Check, Fire, CheckEnd, Tick, ProgramRuns, fields, store
<1>2. leaving = NULL /\ Sorted(Keys(heap, key), heap.count)
  BY <1>1 DEF TInv, Loops
<1>3. Loops'
  BY <1>1, <1>2 DEF Loops
<1>4. ChunksConserved'
  BY <1>1 DEF TInv, ChunksConserved, Live
<1>5. Shaped(heap) /\ now \in Nat /\ limit \in Nat /\ limit <= now /\ cur \in Timer \cup {NULL}
  BY DEF TInv, Types
<1>6. CASE Fire
  <2>1. /\ cur' = heap.table[1] /\ pc' = "called" /\ pc = "loop" /\ UNCHANGED <<now, limit>>
        /\ heap.count > 0 /\ key[heap.table[1]] < limit
    BY <1>6 DEF Fire, IsDue, clock
  <2>2. 1 \in 1..heap.count
    BY <2>1, <1>5, ShapedIs
  <2>3. heap.table[1] \in Timer
    BY <2>2, <1>5, ShapedIs
  <2>4. Types'
    BY <2>1, <2>3, <1>1 DEF TInv, Types
  <2>5. Running'
    BY <2>1, <1>1 DEF Running, Phase
  <2> QED  BY <2>4, <2>5, <1>3, <1>4 DEF TInv
<1>7. CASE Check \/ CheckEnd
  <2>1. pc' \in {"yield", "loop"} /\ pc \in {"yield", "loop"} /\ cur' = cur
    BY <1>7 DEF Check, CheckEnd
  <2>2. limit' \in Nat /\ now' \in Nat /\ limit' <= now'
    BY <1>5, <1>7 DEF Check, CheckEnd
  <2>3. Types'
    BY <2>1, <2>2, <1>1 DEF TInv, Types
  <2>4. Running'
    BY <2>1 DEF TInv, Running, Phase
  <2> QED  BY <2>3, <2>4, <1>3, <1>4 DEF TInv
<1>8. CASE Tick
  <2>1. now' \in Nat /\ now' > now /\ UNCHANGED <<limit, pc, cur>>
    BY <1>8, TimersAssumption DEF Tick
  <2>2. limit' \in Nat /\ limit' <= now'
    BY <2>1, <1>5
  <2>3. Types'
    BY <2>1, <2>2, <1>1 DEF TInv, Types
  <2>4. Running'
    BY <2>1, <1>1 DEF TInv, Running, Phase
  <2> QED  BY <2>3, <2>4, <1>3, <1>4 DEF TInv
<1> QED  BY <1>6, <1>7, <1>8

LEMMA StepsKeep ==
    ASSUME Deletes = FALSE, Past = FALSE, TInv, [Next]_vars
    PROVE  TInv'
<1>1. ASSUME NEW d \in Delays, add_moment(d) PROVE TInv'
  <2>1. now \in Int /\ limit \in Int /\ limit <= now /\ d \in Int
    BY TimersAssumption DEF TInv, Types
  <2>2. PICK due \in Int : due = now + d
    BY <2>1
  <2>3. \/ Arm(due, 0, 0) /\ (pc = "called" => due >= limit)
        \/ Forget
    BY <2>1, <2>2, <1>1 DEF add_moment
  <2>4. 0 \in Int /\ 0 \in {-1} \cup Nat
    OBVIOUS
  <2> QED  BY <2>3, <2>4, ArmKeeps, ForgetKeeps
<1>2. ASSUME NEW d \in Delays, NEW n \in Repeats, add_timer(d, n) PROVE TInv'
  <2>1. now \in Int /\ limit \in Int /\ limit <= now /\ d \in Int /\ n \in {-1} \cup Nat
    BY TimersAssumption DEF TInv, Types
  <2>2. PICK due \in Int : due = now + d
    BY <2>1
  <2>3. \/ Arm(due, d, n) /\ due >= limit
        \/ Forget
    BY <2>1, <2>2, <1>2 DEF add_timer
  <2> QED  BY <2>1, <2>3, ArmKeeps, ForgetKeeps
<1>3. ASSUME NEW t \in Timer, NEW below \in BOOLEAN, del_timer(t, below) PROVE TInv'
  BY <1>3 DEF del_timer
<1>4. CASE UNCHANGED vars
  BY <1>4 DEF vars, fields, store, clock, TInv, Types, Loops, Running, Phase,
              ChunksConserved, Live
<1> QED
  BY <1>1, <1>2, <1>3, <1>4, UpKeeps, DownKeeps, SettleKeeps, RepeatedKeeps, FinishedKeeps,
     OthersKeep DEF Next, HeapStep, Return

-----------------------------------------------------------------------------
(* The agenda.                                                              *)

\* What the agenda's armed stands for.
Entries ==
    [t \in Timer |->
       IF t \in Live THEN [due |-> key[t], after |-> after[t], repeat |-> repeat[t]] ELSE NULL]

LEMMA EntriesAre ==
    ASSUME TInv
    PROVE  /\ Live \subseteq Timer
           /\ \A t \in Live : Entries[t] \in agenda!Entry /\ Entries[t] # NULL
           /\ \A t \in Timer \ Live : Entries[t] = NULL
           /\ agenda!Armed = Live
<1>1. \A e \in Live : e \in Timer
  <2>1. PICK h : h = heap /\ Shaped(h) /\ Live = H!Elements(h)
    BY DEF TInv, Types, Live
  <2>2. ASSUME NEW e \in H!Elements(h) PROVE e \in Timer
    <3>1. PICK k \in 1..h.count : h.table[k] = e
      BY <2>1, <2>2, ShapedIs
    <3> QED  BY <3>1, <2>1, ShapedIs
  <2> QED  BY <2>1, <2>2
<1>2. key \in [Timer -> Int] /\ after \in [Timer -> Int] /\ repeat \in [Timer -> Int]
  <2>1. key \in [Timer -> Int] /\ after \in [Timer -> Int]
    BY DEF TInv, Types
  <2>2. repeat \in [Timer -> {-1} \cup Nat]
    BY DEF TInv, Types
  <2>3. repeat \in [Timer -> Int]
    BY <2>2
  <2> QED  BY <2>1, <2>3
<1>3. NULL \notin [due : Int, after : Int, repeat : Int]
  BY TimersAssumption
<1>4. \A t \in Live : Entries[t] \in [due : Int, after : Int, repeat : Int]
  BY <1>1, <1>2 DEF Entries
<1>5. \A t \in Timer \ Live : Entries[t] = NULL
  BY DEF Entries
<1>6. agenda!Armed = {t \in Timer : Entries[t] # NULL}
  BY DEF agenda!Armed, Entries
<1>7. \A t : t \in agenda!Armed <=> t \in Live
  BY <1>1, <1>3, <1>4, <1>5, <1>6
<1> QED  BY <1>1, <1>3, <1>4, <1>5, <1>7 DEF agenda!Entry

\* A step that keeps the live timers and their fields.
LEMMA SameEntries ==
    ASSUME TInv, Live' = Live,
           \A t \in Live : key'[t] = key[t] /\ after'[t] = after[t] /\ repeat'[t] = repeat[t]
    PROVE  Entries' = Entries
  BY DEF Entries

LEMMA HeapStepsStutter ==
    ASSUME TInv, HeapStep
    PROVE  UNCHANGED <<Entries, Phase, now, limit, cur>>
<1>1. CASE HeapUp \/ HeapDown
  <2>1. Live' = Live
    BY <1>1, UpKeeps, DownKeeps
  <2>2. UNCHANGED <<key, after, repeat, now, limit, cur, pc, back>>
    BY <1>1 DEF HeapUp, HeapDown, fields, clock
  <2> QED  BY <2>1, <2>2, SameEntries DEF Phase
<1>2. CASE Settle
  <2>1. Live' = Live /\ leaving \notin Live
    BY <1>2, SettleKeeps
  <2>2. /\ Live \subseteq Timer /\ leaving \in Timer \cup {NULL}
        /\ key \in [Timer -> Int] /\ after \in [Timer -> Int]
        /\ repeat \in [Timer -> {-1} \cup Nat]
    BY EntriesAre DEF TInv, Types
  <2>3. \A t \in Live : key'[t] = key[t] /\ after'[t] = after[t] /\ repeat'[t] = repeat[t]
    BY <2>1, <2>2, <1>2 DEF Settle, Cleared
  <2>4. UNCHANGED <<now, limit, cur>> /\ pc \in {"up", "down"} /\ pc' = back
    BY <1>2 DEF Settle, clock
  <2>5. back \in {"yield", "called", "loop"}
    BY <2>4 DEF TInv, Loops
  <2>6. Phase' = Phase
    BY <2>4, <2>5 DEF Phase
  <2> QED  BY <2>1, <2>3, <2>4, <2>6, SameEntries
<1> QED  BY <1>1, <1>2 DEF HeapStep

LEMMA ArmIsArm ==
    ASSUME TInv, NEW due \in Int, NEW interval \in Int, NEW times \in {-1} \cup Nat,
           Arm(due, interval, times), pc = "called" => due >= limit
    PROVE  \E t \in Timer : agenda!Arm(t)
<1>1. PICK t : t = Extracted
  OBVIOUS
<1>2. TInv' /\ t \in Timer /\ t \notin Live /\ Live' = Live \cup {t}
  BY <1>1, ArmKeeps
<1>3. t \notin agenda!Armed
  BY <1>2, EntriesAre
<1>4. Phase \in {"yield", "called"} /\ Phase' = Phase /\ UNCHANGED <<now, limit, cur>>
  BY DEF Arm, ProgramRuns, GoUp, Phase, clock
<1>5. Entries'[t] \in agenda!Entry
  <2>1. [due |-> key'[t], after |-> after'[t], repeat |-> repeat'[t]] \in agenda!Entry
    BY <1>2 DEF TInv, Types, agenda!Entry
  <2> QED  BY <2>1, <1>2 DEF Entries
<1>6. \A e \in Timer : e # t => Entries'[e] = Entries[e]
  <2>1. /\ key \in [Timer -> Int] /\ after \in [Timer -> Int]
        /\ repeat \in [Timer -> {-1} \cup Nat]
    BY DEF TInv, Types
  <2>2. \A e \in Timer : e # t => key'[e] = key[e] /\ after'[e] = after[e]
                                  /\ repeat'[e] = repeat[e]
    BY <2>1, <1>1 DEF Arm
  <2>3. \A e \in Timer : e # t => (e \in Live' <=> e \in Live)
    BY <1>2
  <2> QED  BY <2>2, <2>3 DEF Entries
<1>7. Entries' = [Entries EXCEPT ![t] = Entries'[t]]
  BY <1>2, <1>6 DEF Entries
<1>8. agenda!Arm(t)
  BY <1>3, <1>4, <1>5, <1>7 DEF agenda!Arm, Entries, Phase
<1> QED  BY <1>2, <1>8

LEMMA ReturnIsReturn ==
    ASSUME TInv, Return
    PROVE  agenda!Return
<1>1. PICK c : c = cur
  OBVIOUS
<1>2. pc = "called" /\ Phase = "called" /\ Phase' = "loop" /\ cur' = NULL
      /\ UNCHANGED <<now, limit>>
  <2>1. CASE Repeated
    BY <2>1 DEF Repeated, GoDown, Phase, clock
  <2>2. CASE \E below \in BOOLEAN : Finished(below)
    <3>1. heap.index[cur] = 1
      BY <2>2, Returning DEF Finished
    <3> QED  BY <2>2, <3>1 DEF Finished, Erase, GoDown, Phase, clock
  <2> QED  BY <2>1, <2>2 DEF Return
<1>3. c \in Timer /\ c \in Live
  BY <1>1, <1>2, Returning
<1>4. /\ key \in [Timer -> Int] /\ after \in [Timer -> Int]
      /\ repeat \in [Timer -> {-1} \cup Nat]
  BY DEF TInv, Types
<1>5. PICK k \in Int, a \in Int, r \in {-1} \cup Nat : k = key[c] /\ a = after[c] /\ r = repeat[c]
  BY <1>3, <1>4
<1>6. PICK e : e = [due |-> k, after |-> a, repeat |-> r]
  OBVIOUS
<1>7. Entries[c] = e
  BY <1>3, <1>5, <1>6 DEF Entries
<1>8. CASE Repeated
  <2>1. Live' = Live /\ r # 0
    BY <1>1, <1>5, <1>8 DEF Repeated, Live
  <2>2. key'[c] = k + a /\ after'[c] = a /\ repeat'[c] = IF r > 0 THEN r - 1 ELSE r
    BY <1>1, <1>3, <1>4, <1>5, <1>8 DEF Repeated
  <2>3. \A t \in Timer : t # c => key'[t] = key[t] /\ after'[t] = after[t]
                                  /\ repeat'[t] = repeat[t]
    BY <1>1, <1>4, <1>8 DEF Repeated
  <2>4. agenda!Again(e) = [due |-> k + a, after |-> a, repeat |-> IF r > 0 THEN r - 1 ELSE r]
    <3>1. CASE r = -1
      BY <3>1, <1>6 DEF agenda!Again
    <3>2. CASE r > 0
      <4>1. e.due = k /\ e.after = a /\ e.repeat = r /\ r # -1
        BY <3>2, <1>6
      <4>2. [e EXCEPT !.due = k + a, !.repeat = r - 1]
              = [due |-> k + a, after |-> a, repeat |-> r - 1]
        <5>1. PICK d, q : d = k + a /\ q = r - 1
          OBVIOUS
        <5>2. PICK g : g = [e EXCEPT !.due = d, !.repeat = q]
          OBVIOUS
        <5>3. g = [due |-> d, after |-> a, repeat |-> q]
          BY <5>2, <1>6
        <5> QED  BY <5>1, <5>2, <5>3
      <4> QED  BY <4>1, <4>2, <3>2 DEF agenda!Again
    <3> QED  BY <3>1, <3>2, <2>1
  <2>5. Entries' = [Entries EXCEPT ![c] = agenda!Again(e)]
    BY <2>1, <2>2, <2>3, <2>4, <1>3 DEF Entries
  <2> QED  BY <2>5, <1>1, <1>2, <1>7 DEF agenda!Return, Entries, Phase
<1>9. CASE \E below \in BOOLEAN : Finished(below)
  <2>1. Live' = Live \ {c}
    BY <1>1, <1>9, FinishedKeeps
  <2>2. r = 0 /\ UNCHANGED <<key, after, repeat>>
    BY <1>1, <1>5, <1>9 DEF Finished, fields
  <2>3. agenda!Again(e) = NULL
    BY <2>2, <1>6 DEF agenda!Again
  <2>4. Entries' = [Entries EXCEPT ![c] = agenda!Again(e)]
    BY <2>1, <2>2, <2>3, <1>3 DEF Entries
  <2> QED  BY <2>4, <1>1, <1>2, <1>7 DEF agenda!Return, Entries, Phase
<1> QED  BY <1>8, <1>9 DEF Return

\* The top of the heap is due first.
LEMMA TopFirst ==
    ASSUME TInv, pc = "loop", NEW t \in Live
    PROVE  heap.count > 0 /\ heap.table[1] \in Live /\ key[heap.table[1]] <= key[t]
<1>1. PICK h, f, n : h = heap /\ f = key /\ n = h.count
  OBVIOUS
<1>2. Shaped(h) /\ f \in [Timer -> Int] /\ n \in Nat /\ Sorted(Keys(h, f), n)
  BY <1>1, ShapedIs DEF TInv, Types, Loops
<1>3. PICK k \in 1..n : h.table[k] = t
  BY <1>1, <1>2, ShapedIs DEF Live
<1>4. n > 0 /\ 1 \in 1..n
  BY <1>2, <1>3
<1>5. PICK v : v = Keys(h, f)
  OBVIOUS
<1>6. v \in [1..n -> Int] /\ \A j \in 1..n : v[j] = f[h.table[j]]
  BY <1>1, <1>2, <1>5, KeysTyped
<1>7. v[1] <= v[k]
  BY <1>2, <1>5, <1>6, TopLeast
<1>8. h.table[1] \in H!Elements(h)
  BY <1>1, <1>2, <1>4, ShapedIs
<1> QED  BY <1>1, <1>3, <1>4, <1>6, <1>7, <1>8 DEF Live

LEMMA FireIsRun ==
    ASSUME TInv, Fire
    PROVE  \E t \in Timer : agenda!Run(t)
<1>1. PICK t : t = heap.table[1]
  OBVIOUS
<1>2. /\ pc = "loop" /\ cur' = t /\ pc' = "called" /\ heap.count > 0 /\ key[t] < limit
      /\ UNCHANGED <<heap, key, after, repeat, now, limit>>
  BY <1>1 DEF Fire, IsDue, fields, clock
<1>3. t \in Live /\ t \in Timer
  <2>1. Shaped(heap) /\ heap.count \in Nat
    BY ShapedIs DEF TInv, Types
  <2>2. 1 \in 1..heap.count
    BY <2>1, <1>2
  <2> QED  BY <2>1, <2>2, <1>1, ShapedIs DEF Live
<1>4. \A u \in Live : key[t] <= key[u]
  BY <1>1, <1>2, TopFirst
<1>5. \A u \in Live : Entries[u].due = key[u]
  BY EntriesAre DEF Entries
<1>6. t \in agenda!Due
  <2>1. agenda!Due = {u \in agenda!Armed : Entries[u].due < limit}
    BY DEF agenda!Due, Entries
  <2> QED  BY <2>1, <1>2, <1>3, <1>5, EntriesAre
<1>7. \A u \in agenda!Armed : Entries[t].due <= Entries[u].due
  BY <1>3, <1>4, <1>5, EntriesAre
<1>8. Phase = "loop" /\ Phase' = "called" /\ Entries' = Entries
  BY <1>2 DEF Phase, Entries, Live
<1>9. agenda!Run(t)
  BY <1>2, <1>6, <1>7, <1>8 DEF agenda!Run, Entries, Phase
<1> QED  BY <1>3, <1>9

LEMMA CheckEndIsEnd ==
    ASSUME TInv, CheckEnd
    PROVE  agenda!End
<1>1. pc = "loop" /\ pc' = "yield" /\ limit' = 0 /\ ~IsDue
      /\ UNCHANGED <<heap, key, after, repeat, now, cur>>
  BY DEF CheckEnd, fields
<1>2. ASSUME NEW t \in Live PROVE ~(key[t] < limit)
  <2>1. heap.count > 0 /\ heap.table[1] \in Live /\ key[heap.table[1]] <= key[t]
    BY <1>1, TopFirst
  <2>2. key[heap.table[1]] \in Int /\ key[t] \in Int /\ limit \in Int
    BY <2>1, EntriesAre DEF TInv, Types
  <2>3. ~(key[heap.table[1]] < limit)
    BY <2>1, <1>1 DEF IsDue
  <2> QED  BY <2>1, <2>2, <2>3
<1>3. agenda!Due = {}
  <2>1. agenda!Due = {u \in agenda!Armed : Entries[u].due < limit}
    BY DEF agenda!Due, Entries
  <2>2. \A u \in Live : Entries[u].due = key[u]
    BY EntriesAre DEF Entries
  <2> QED  BY <2>1, <2>2, <1>2, EntriesAre
<1>4. Phase = "loop" /\ Phase' = "yield" /\ Entries' = Entries
  BY <1>1 DEF Phase, Entries, Live
<1> QED  BY <1>1, <1>3, <1>4 DEF agenda!End, Entries, Phase

LEMMA OthersAre ==
    ASSUME Check \/ Tick
    PROVE  agenda!Begin \/ agenda!Tick
<1>1. UNCHANGED Entries
  BY DEF Check, Tick, Entries, Live, fields
<1>2. CASE Check
  <2>1. Phase = "yield" /\ Phase' = "loop" /\ limit' = now /\ UNCHANGED <<now, cur>>
    BY <1>2 DEF Check, Phase
  <2> QED  BY <2>1, <1>1 DEF agenda!Begin, Entries, Phase
<1>3. CASE Tick
  <2>1. Phase' = Phase /\ now' > now /\ UNCHANGED <<limit, cur>>
    BY <1>3, TimersAssumption DEF Tick, Phase
  <2> QED  BY <2>1, <1>1 DEF agenda!Tick, Entries, Phase
<1> QED  BY <1>2, <1>3

LEMMA StepsAreAgenda ==
    ASSUME Deletes = FALSE, Past = FALSE, TInv, [Next]_vars
    PROVE  [agenda!Next]_(agenda!vars)
<1>1. ASSUME UNCHANGED <<Entries, Phase, now, limit, cur>> PROVE UNCHANGED agenda!vars
  BY <1>1 DEF agenda!vars, Entries, Phase
<1>2. CASE HeapStep
  BY <1>1, <1>2, HeapStepsStutter
<1>3. ASSUME NEW due \in Int, NEW interval \in Int, NEW times \in {-1} \cup Nat,
             Arm(due, interval, times), pc = "called" => due >= limit
      PROVE  agenda!Next
  BY <1>3, ArmIsArm DEF agenda!Next
<1>4. now \in Int /\ limit \in Int /\ limit <= now
  BY DEF TInv, Types
<1>5. ASSUME Forget PROVE UNCHANGED agenda!vars
  <2>1. UNCHANGED <<key, after, repeat, pc, back, now, limit, cur, Live>>
    BY <1>5, ForgetKeeps
  <2>2. UNCHANGED <<Entries, Phase, now, limit, cur>>
    BY <2>1 DEF Entries, Phase
  <2> QED  BY <2>2, <1>1
<1>6. ASSUME NEW d \in Delays, add_moment(d) PROVE agenda!Next \/ UNCHANGED agenda!vars
  <2>1. d \in Int
    BY TimersAssumption
  <2>2. PICK due \in Int : due = now + d
    BY <2>1, <1>4
  <2>3. \/ Arm(due, 0, 0) /\ (pc = "called" => due >= limit)
        \/ Forget
    BY <2>1, <2>2, <1>4, <1>6 DEF add_moment
  <2>4. 0 \in Int /\ 0 \in {-1} \cup Nat
    OBVIOUS
  <2> QED  BY <2>3, <2>4, <1>3, <1>5
<1>7. ASSUME NEW d \in Delays, NEW n \in Repeats, add_timer(d, n)
      PROVE  agenda!Next \/ UNCHANGED agenda!vars
  <2>1. d \in Int /\ n \in {-1} \cup Nat
    BY TimersAssumption
  <2>2. PICK due \in Int : due = now + d
    BY <2>1, <1>4
  <2>3. \/ Arm(due, d, n) /\ due >= limit
        \/ Forget
    BY <2>1, <2>2, <1>4, <1>7 DEF add_timer
  <2> QED  BY <2>1, <2>3, <1>3, <1>5
<1>8. ASSUME NEW t \in Timer, NEW below \in BOOLEAN, del_timer(t, below) PROVE FALSE
  BY <1>8 DEF del_timer
<1>9. CASE Check \/ Tick
  BY <1>9, OthersAre DEF agenda!Next
<1>10. CASE Fire
  BY <1>10, FireIsRun DEF agenda!Next
<1>11. CASE Return
  BY <1>11, ReturnIsReturn DEF agenda!Next
<1>12. CASE CheckEnd
  BY <1>12, CheckEndIsEnd DEF agenda!Next
<1>13. CASE UNCHANGED vars
  <2>1. UNCHANGED <<Entries, Phase, now, limit, cur>>
    BY <1>13 DEF vars, fields, store, clock, Entries, Live, Phase
  <2> QED  BY <2>1, <1>1
<1> QED  BY <1>2, <1>6, <1>7, <1>8, <1>9, <1>10, <1>11, <1>12, <1>13 DEF Next

-----------------------------------------------------------------------------
(* The theorems.                                                            *)

\* Without deletion by the program and moments that callbacks add in the past, the
\* invariant holds.
THEOREM Invariance ==
    ASSUME Deletes = FALSE, Past = FALSE
    PROVE  Spec => []TInv
<1>1. Init => TInv
  BY StartsRight
<1>2. TInv /\ [Next]_vars => TInv'
  BY StepsKeep
<1> QED  BY <1>1, <1>2, PTL DEF Spec

\* No chunk is given out twice, and none is lost but by a push that fails
\* (timer.c:22,54-55,62).
THEOREM NoChunkLost ==
    ASSUME Deletes = FALSE, Past = FALSE
    PROVE  Spec => []ChunksConserved
<1>1. TInv => ChunksConserved
  BY DEF TInv
<1> QED  BY <1>1, Invariance, PTL

\* The array stays a heap whose elements know their slots, and these stay within
\* it through every growth (timer.c:8, heap.h:16).
THEOREM StaysHeap ==
    ASSUME Deletes = FALSE, Past = FALSE
    PROVE  Spec => []HeapOrdered
<1>1. TInv => HeapOrdered
  <2> SUFFICES ASSUME TInv, pc \notin {"up", "down"}
               PROVE  H!Ordered(heap, key) /\ H!Indexed(heap)
    BY DEF HeapOrdered, TInv, Types
  <2>1. Shaped(heap) /\ key \in [Timer -> Int] /\ heap.count \in Nat
        /\ Sorted(Keys(heap, key), heap.count)
    BY ShapedIs DEF TInv, Types, Loops
  <2>2. H!Indexed(heap)
    BY <2>1, ShapedIs DEF H!Indexed
  <2>3. \A k \in 2..heap.count : k \in 1..heap.count /\ Up(k) \in 1..heap.count
    BY <2>1, UpIn
  <2>4. H!Ordered(heap, key)
    BY <2>1, <2>3, KeysTyped DEF H!Ordered, H!Parent, Up, Sorted
  <2> QED  BY <2>2, <2>4
<1> QED  BY <1>1, Invariance, PTL

\* check_timers runs what is due, earliest first, each timer as often as asked,
\* and ends a round when nothing is due (timer.h:29, timer.c:85-114).
THEOREM ImplementsAgenda ==
    ASSUME Deletes = FALSE, Past = FALSE
    PROVE  Spec => IsAgenda
<1>1. Init => agenda!Init
  <2> SUFFICES ASSUME Init PROVE agenda!Init
    OBVIOUS
  <2>1. heap.count = 0
    BY DEF Init, H!EmptyHeap
  <2>2. Live = {}
    BY <2>1 DEF Live, H!Elements
  <2>3. Entries = [t \in Timer |-> NULL] /\ Phase = "yield"
    BY <2>2 DEF Entries, Phase, Init
  <2> QED  BY <2>3 DEF agenda!Init, Init, Entries, Phase
<1>2. TInv /\ [Next]_vars => [agenda!Next]_(agenda!vars)
  BY StepsAreAgenda
<1> QED  BY <1>1, <1>2, Invariance, PTL DEF Spec, IsAgenda, agenda!Spec

================================================================================
