--------------------------- MODULE LinkedListsProofs ---------------------------
(***************************************************************************)
(* Every program that obeys the discipline of LinkedLists keeps its lists  *)
(* faithful and its iterations exact, whatever the elements, the lists and *)
(* the order of the operations.                                            *)
(***************************************************************************)
EXTENDS LinkedLists, IntrusiveListProofs

\* left elements of s, the next of them item, form a contiguous run of s, and
\* they are the last ones of o, the sequence when the walk began: appending and
\* erasing visited elements cannot break the run.
Ahead(left, item, s, o) ==
    /\ left \in 0..Len(o)
    /\ left > 0 =>
         \E k \in 1..Len(s) :
           /\ item = s[k]
           /\ k + left - 1 <= Len(s)
           /\ \A j \in 0..(left - 1) : s[k + j] = o[Len(o) - left + 1 + j]

Pending == walk.on => Ahead(walk.left, walk.item, lists[walk.list], snap)

Inv == TypeOK /\ ListsFaithful /\ Pending

-----------------------------------------------------------------------------
LEMMA InitInv == Init => Inv
<1> SUFFICES ASSUME Init PROVE Inv
  OBVIOUS
<1>1. EmptyMemory \in Memory
  BY DEF EmptyMemory, Memory, Pointer
<1>2. <<>> \in Seq(Item) /\ Len(<<>>) = 0 /\ ToSet(<<>>) = {}
  BY EmptySeq DEF ToSet
<1>3. TypeOK
  BY <1>1, <1>2, ListAssumption DEF Init, TypeOK, NoWalk, Pointer
<1>4. ListsFaithful
  <2>1. \A l \in ListName : Represents(mem, l, <<>>)
    BY <1>2 DEF Init, EmptyMemory, Represents
  <2> QED  BY <1>2, <2>1 DEF Init, EmptyMemory, ListsFaithful, Faithful
<1>5. Pending
  BY DEF Init, NoWalk, Pending
<1> QED  BY <1>3, <1>4, <1>5 DEF Inv

\* The condition of the loop holds while elements are pending.
LEMMA PendingGoesOn ==
    ASSUME Inv, walk.on, walk.left > 0
    PROVE  /\ walk.item \in Item /\ walk.item # NULL
           /\ mem.next[walk.item] \in Item /\ mem.next[walk.item] # NULL
<1>1. /\ walk.list \in ListName /\ lists[walk.list] \in Seq(Item)
      /\ Represents(mem, walk.list, lists[walk.list])
  BY DEF Inv, TypeOK, ListsFaithful, Faithful
<1>2. PICK k \in 1..Len(lists[walk.list]) : walk.item = lists[walk.list][k]
  BY DEF Inv, Pending, Ahead
<1>3. walk.item \in Item
  BY <1>1, <1>2, ElementOfSeq
<1>4. mem.next[walk.item] = After(lists[walk.list], k)
  BY <1>1, <1>2 DEF Represents
<1>5. After(lists[walk.list], k) \in Item
  BY <1>1, <1>2, Neighbours
<1> QED  BY <1>3, <1>4, <1>5, ListAssumption

\* Pending is the invariant that makes an iteration exact.
LEMMA PendingExact == Inv => WalkExact
<1> SUFFICES ASSUME Inv, walk.on PROVE
      /\ walk.left \in 0..Len(snap)
      /\ walk.left > 0 => walk.item = snap[Len(snap) - walk.left + 1]
      /\ WalkGoesOn \/ walk.left = 0
  BY DEF WalkExact
<1>1. walk.left \in 0..Len(snap) /\ Len(snap) \in Nat
  BY LenProperties DEF Inv, TypeOK, Pending, Ahead
<1>2. CASE walk.left = 0
  BY <1>1, <1>2
<1>3. CASE walk.left # 0
  <2>1. walk.left > 0
    BY <1>1, <1>3
  <2>2. PICK k \in 1..Len(lists[walk.list]) :
             /\ walk.item = lists[walk.list][k]
             /\ \A j \in 0..(walk.left - 1) :
                   lists[walk.list][k + j] = snap[Len(snap) - walk.left + 1 + j]
    BY <2>1 DEF Inv, Pending, Ahead
  <2>3. 0 \in 0..(walk.left - 1) /\ k + 0 = k
        /\ Len(snap) - walk.left + 1 + 0 = Len(snap) - walk.left + 1
    BY <1>1, <2>1
  <2>4. walk.item = snap[Len(snap) - walk.left + 1]
    BY <2>2, <2>3
  <2>5. WalkGoesOn
    BY <2>1, PendingGoesOn DEF WalkGoesOn
  <2> QED  BY <1>1, <2>4, <2>5
<1> QED  BY <1>2, <1>3

-----------------------------------------------------------------------------
(* The lists.                                                               *)

\* Inserting before position i.
LEMMA InsertBeforeStep ==
    ASSUME Inv, NEW l \in ListName, NEW i \in 1..Len(lists[l]), NEW x \in Item, Loose(x)
    PROVE  /\ InsertBefore(mem, l, lists[l][i], x) \in Memory
           /\ [lists EXCEPT ![l] = InsertAt(@, i, x)] \in [ListName -> Seq(Item)]
           /\ Faithful(InsertBefore(mem, l, lists[l][i], x),
                       [lists EXCEPT ![l] = InsertAt(@, i, x)])
<1> DEFINE s == lists[l]
           t == InsertAt(s, i, x)
           r == InsertBefore(mem, l, s[i], x)
<1>1. /\ mem \in Memory /\ lists \in [ListName -> Seq(Item)] /\ Faithful(mem, lists)
      /\ s \in Seq(Item) /\ Represents(mem, l, s)
  BY DEF Inv, TypeOK, ListsFaithful, Faithful
<1>2. \A k \in ListName : x \notin ToSet(lists[k])
  BY DEF Loose
<1>3. i \in 1..(Len(s) + 1) /\ i \in 1..Len(s)
  BY <1>1, LenProperties
<1>4. t \in Seq(Item) /\ ToSet(t) = ToSet(s) \cup {x}
  <2> HIDE DEF s
  <2> QED  BY <1>1, <1>3, InsertAtElements, InsertAtRange DEF Inserted
<1>5. Local(mem, r, l, ToSet(s) \cup {x}) /\ Represents(r, l, t)
  <2>1. x \notin ToSet(s)
    BY <1>2
  <2> HIDE DEF s
  <2> QED  BY <1>1, <1>3, <2>1, InsertBeforeRep
<1> HIDE DEF r, t
<1>6. /\ r \in Memory /\ [lists EXCEPT ![l] = t] \in [ListName -> Seq(Item)]
      /\ Faithful(r, [lists EXCEPT ![l] = t])
  BY <1>1, <1>2, <1>4, <1>5, FaithfulInsert
<1> QED  BY <1>6 DEF r, t

\* Inserting after position i.
LEMMA InsertAfterStep ==
    ASSUME Inv, NEW l \in ListName, NEW i \in 1..Len(lists[l]), NEW x \in Item, Loose(x)
    PROVE  /\ InsertAfter(mem, l, lists[l][i], x) \in Memory
           /\ [lists EXCEPT ![l] = InsertAt(@, i + 1, x)] \in [ListName -> Seq(Item)]
           /\ Faithful(InsertAfter(mem, l, lists[l][i], x),
                       [lists EXCEPT ![l] = InsertAt(@, i + 1, x)])
<1> DEFINE s == lists[l]
           t == InsertAt(s, i + 1, x)
           r == InsertAfter(mem, l, s[i], x)
<1>1. /\ mem \in Memory /\ lists \in [ListName -> Seq(Item)] /\ Faithful(mem, lists)
      /\ s \in Seq(Item) /\ Represents(mem, l, s)
  BY DEF Inv, TypeOK, ListsFaithful, Faithful
<1>2. \A k \in ListName : x \notin ToSet(lists[k])
  BY DEF Loose
<1>3. i + 1 \in 1..(Len(s) + 1) /\ i \in 1..Len(s)
  BY <1>1, LenProperties
<1>4. t \in Seq(Item) /\ ToSet(t) = ToSet(s) \cup {x}
  <2> HIDE DEF s
  <2> QED  BY <1>1, <1>3, InsertAtElements, InsertAtRange DEF Inserted
<1>5. Local(mem, r, l, ToSet(s) \cup {x}) /\ Represents(r, l, t)
  <2>1. x \notin ToSet(s)
    BY <1>2
  <2> HIDE DEF s
  <2> QED  BY <1>1, <1>3, <2>1, InsertAfterRep
<1> HIDE DEF r, t
<1>6. /\ r \in Memory /\ [lists EXCEPT ![l] = t] \in [ListName -> Seq(Item)]
      /\ Faithful(r, [lists EXCEPT ![l] = t])
  BY <1>1, <1>2, <1>4, <1>5, FaithfulInsert
<1> QED  BY <1>6 DEF r, t

\* Pushing in front.
LEMMA PushFrontStep ==
    ASSUME Inv, NEW l \in ListName, NEW x \in Item, Loose(x)
    PROVE  /\ PushFront(mem, l, x) \in Memory
           /\ [lists EXCEPT ![l] = InsertAt(@, 1, x)] \in [ListName -> Seq(Item)]
           /\ Faithful(PushFront(mem, l, x), [lists EXCEPT ![l] = InsertAt(@, 1, x)])
<1> DEFINE s == lists[l]
           t == InsertAt(s, 1, x)
           r == PushFront(mem, l, x)
<1>1. /\ mem \in Memory /\ lists \in [ListName -> Seq(Item)] /\ Faithful(mem, lists)
      /\ s \in Seq(Item) /\ Represents(mem, l, s)
  BY DEF Inv, TypeOK, ListsFaithful, Faithful
<1>2. \A k \in ListName : x \notin ToSet(lists[k])
  BY DEF Loose
<1>3. 1 \in 1..(Len(s) + 1)
  BY <1>1, LenProperties
<1>4. t \in Seq(Item) /\ ToSet(t) = ToSet(s) \cup {x}
  <2> HIDE DEF s
  <2> QED  BY <1>1, <1>3, InsertAtElements, InsertAtRange DEF Inserted
<1>5. Local(mem, r, l, ToSet(s) \cup {x}) /\ Represents(r, l, t)
  <2>1. x \notin ToSet(s)
    BY <1>2
  <2> HIDE DEF s
  <2> QED  BY <1>1, <2>1, PushFrontRep
<1> HIDE DEF r, t
<1>6. /\ r \in Memory /\ [lists EXCEPT ![l] = t] \in [ListName -> Seq(Item)]
      /\ Faithful(r, [lists EXCEPT ![l] = t])
  BY <1>1, <1>2, <1>4, <1>5, FaithfulInsert
<1> QED  BY <1>6 DEF r, t

\* The only or first element is at the head, the last at the tail.
LEMMA EndsOfList ==
    ASSUME Inv, NEW l \in ListName, mem.size[l] > 0
    PROVE  /\ 1 \in 1..Len(lists[l]) /\ mem.head[l] = lists[l][1]
           /\ Len(lists[l]) \in 1..Len(lists[l]) /\ mem.tail[l] = lists[l][Len(lists[l])]
<1>1. /\ lists[l] \in Seq(Item) /\ Represents(mem, l, lists[l])
  BY DEF Inv, TypeOK, ListsFaithful, Faithful
<1>2. Len(lists[l]) \in Nat /\ mem.size[l] = Len(lists[l])
  BY <1>1, LenProperties DEF Represents
<1>3. lists[l] # <<>>
  BY <1>2
<1> QED  BY <1>1, <1>2, <1>3 DEF Represents

\* Erasing a position, as erase, pop_front and pop_back do.
LEMMA EraseStep ==
    ASSUME Inv, NEW l \in ListName, NEW i \in 1..Len(lists[l])
    PROVE  /\ Erase(mem, l, lists[l][i]) \in Memory
           /\ [lists EXCEPT ![l] = RemoveAt(lists[l], i)] \in [ListName -> Seq(Item)]
           /\ Faithful(Erase(mem, l, lists[l][i]),
                       [lists EXCEPT ![l] = RemoveAt(lists[l], i)])
<1>1. mem \in Memory /\ lists \in [ListName -> Seq(Item)] /\ Faithful(mem, lists)
  BY DEF Inv, TypeOK, ListsFaithful
<1> QED  BY <1>1, FaithfulErase

-----------------------------------------------------------------------------
(* The iteration.                                                           *)

\* Appending to the walked list leaves the run as it is.
LEMMA AheadAppend ==
    ASSUME NEW s \in Seq(Item), NEW o \in Seq(Item), NEW x \in Item,
           NEW left, NEW item, Ahead(left, item, s, o)
    PROVE  Ahead(left, item, Append(s, x), o)
<1>1. /\ left \in Nat /\ left \in 0..Len(o)
      /\ Len(s) \in Nat /\ Len(o) \in Nat
  BY LenProperties DEF Ahead
<1>2. /\ Len(Append(s, x)) = Len(s) + 1
      /\ \A j \in 1..Len(s) : Append(s, x)[j] = s[j]
  BY AppendProperties
<1>3. ASSUME left > 0
      PROVE  \E k \in 1..Len(Append(s, x)) :
               /\ item = Append(s, x)[k]
               /\ k + left - 1 <= Len(Append(s, x))
               /\ \A j \in 0..(left - 1) :
                     Append(s, x)[k + j] = o[Len(o) - left + 1 + j]
  <2>1. PICK k \in 1..Len(s) :
               /\ item = s[k]
               /\ k + left - 1 <= Len(s)
               /\ \A j \in 0..(left - 1) : s[k + j] = o[Len(o) - left + 1 + j]
    BY <1>3 DEF Ahead
  <2>2. \A j \in 0..(left - 1) : k + j \in 1..Len(s)
    BY <1>1, <2>1
  <2>3. k \in 1..Len(Append(s, x)) /\ k + left - 1 <= Len(Append(s, x))
    BY <1>1, <1>2, <2>1
  <2>4. \A j \in 0..(left - 1) : Append(s, x)[k + j] = s[k + j]
    BY <1>2, <2>2
  <2> QED  BY <1>2, <2>1, <2>3, <2>4
<1> QED  BY <1>1, <1>3 DEF Ahead

\* A visit leaves the rest of the run ahead, whether the body kept the element
\* or erased it.
LEMMA AheadVisit ==
    ASSUME NEW s \in Seq(Item), NEW o \in Seq(Item), NEW left,
           NEW k \in 1..Len(s), \A i, j \in 1..Len(s) : s[i] = s[j] => i = j,
           left > 0, Ahead(left, s[k], s, o)
    PROVE  /\ Ahead(left - 1, After(s, k), s, o)
           /\ Ahead(left - 1, After(s, k), RemoveAt(s, k), o)
<1> DEFINE t == RemoveAt(s, k)
<1>1. PICK n \in Nat : n = Len(s)
  BY LenProperties
<1>2. PICK e \in Nat : e = Len(o)
  BY LenProperties
<1>3. left \in 1..e /\ left \in Nat /\ left - 1 \in 0..e
  BY <1>2 DEF Ahead
<1>4. PICK h \in 1..n :
             /\ s[k] = s[h]
             /\ h + left - 1 <= n
             /\ \A j \in 0..(left - 1) : s[h + j] = o[e - left + 1 + j]
  BY <1>1, <1>2 DEF Ahead
<1>5. h = k /\ k \in 1..n
  BY <1>1, <1>4
<1>6. /\ Len(t) = n - 1
      /\ \A j \in 1..(n - 1) : t[j] = IF j < k THEN s[j] ELSE s[j + 1]
  BY <1>1, RemoveAtElements DEF Removed
<1> HIDE DEF t
<1>7. ASSUME left - 1 > 0
      PROVE  /\ k \in 1..(n - 1) /\ k + 1 \in 1..n /\ k + (left - 1) <= n
             /\ After(s, k) = s[k + 1] /\ t[k] = s[k + 1]
  <2>1. k \in 1..(n - 1) /\ k + 1 \in 1..n /\ k # n /\ k + (left - 1) <= n
    <3>1. k \in Int /\ 1 <= k /\ k + left - 1 <= n /\ left \in Nat /\ left >= 2
      BY <1>3, <1>4, <1>5, <1>7
    <3>2. n \in Int
      BY <1>1
    <3>3. 1 <= k /\ k <= n - 1 /\ k + 1 <= n /\ 1 <= k + 1
      BY <3>1, <3>2
    <3>4. k + (left - 1) <= n
      BY <3>1, <3>2
    <3>6. k # n
      BY <3>1, <3>2
    <3>5. k \in 1..(n - 1) /\ k + 1 \in 1..n
      BY <3>1, <3>2, <3>3
    <3> QED  BY <3>4, <3>5, <3>6
  <2>2. After(s, k) = s[k + 1]
    BY <1>1, <2>1 DEF After
  <2>3. t[k] = s[k + 1]
    BY <1>6, <2>1, <1>5
  <2> QED  BY <2>1, <2>2, <2>3
<1>8. ASSUME NEW j \in 0..(left - 1 - 1)
      PROVE  /\ s[k + 1 + j] = o[e - (left - 1) + 1 + j]
             /\ left - 1 > 0 => t[k + j] = o[e - (left - 1) + 1 + j]
  <2>1. PICK i \in 0..(left - 1) : i = j + 1
    BY <1>3
  <2>2. s[k + i] = o[e - left + 1 + i]
    BY <1>4, <1>5
  <2>3. k + i = k + 1 + j
    BY <1>5, <2>1
  <2>4. e - left + 1 + i = e - (left - 1) + 1 + j
    BY <1>3, <2>1
  <2>5. s[k + 1 + j] = o[e - (left - 1) + 1 + j]
    BY <2>2, <2>3, <2>4
  <2>6. ASSUME left - 1 > 0
        PROVE  t[k + j] = s[k + 1 + j]
    <3>1. k + (left - 1) <= n
      BY <1>7, <2>6
    <3>2. k + j \in 1..(n - 1) /\ ~(k + j < k) /\ (k + j) + 1 = k + 1 + j
      BY <3>1, <1>3, <1>5
    <3> QED  BY <1>6, <3>2
  <2> QED  BY <2>5, <2>6
<1>9. Ahead(left - 1, After(s, k), s, o)
  <2>1. ASSUME left - 1 > 0
        PROVE  \E q \in 1..Len(s) :
                 /\ After(s, k) = s[q]
                 /\ q + (left - 1) - 1 <= Len(s)
                 /\ \A j \in 0..(left - 1 - 1) : s[q + j] = o[Len(o) - (left - 1) + 1 + j]
    <3>1. PICK q \in 1..n : q = k + 1
      BY <1>7, <2>1
    <3>2. After(s, k) = s[q]
      BY <1>7, <2>1, <3>1
    <3>3. q + (left - 1) - 1 <= n
      BY <1>3, <1>5, <1>7, <2>1, <3>1
    <3>4. \A j \in 0..(left - 1 - 1) : s[q + j] = o[e - (left - 1) + 1 + j]
      BY <1>8, <3>1
    <3> QED  BY <1>1, <1>2, <3>2, <3>3, <3>4
  <2> QED  BY <1>2, <1>3, <2>1 DEF Ahead
<1>10. Ahead(left - 1, After(s, k), t, o)
  <2>1. ASSUME left - 1 > 0
        PROVE  \E q \in 1..Len(t) :
                 /\ After(s, k) = t[q]
                 /\ q + (left - 1) - 1 <= Len(t)
                 /\ \A j \in 0..(left - 1 - 1) : t[q + j] = o[Len(o) - (left - 1) + 1 + j]
    <3>1. k \in 1..Len(t)
      BY <1>6, <1>7, <2>1
    <3>2. After(s, k) = t[k]
      BY <1>7, <2>1
    <3>3. k + (left - 1) - 1 <= Len(t)
      BY <1>1, <1>3, <1>5, <1>6, <1>7, <2>1
    <3>4. \A j \in 0..(left - 1 - 1) : t[k + j] = o[e - (left - 1) + 1 + j]
      BY <1>8, <2>1
    <3> QED  BY <1>2, <3>1, <3>2, <3>3, <3>4
  <2> QED  BY <1>2, <1>3, <2>1 DEF Ahead
<1> QED  BY <1>9, <1>10 DEF t

\* The element of the walk is in the walked list, once.
LEMMA WalkedElement ==
    ASSUME Inv, WalkGoesOn
    PROVE  /\ walk.list \in ListName /\ lists[walk.list] \in Seq(Item) /\ snap \in Seq(Item)
           /\ walk.left > 0 /\ walk.item \in Item
           /\ \E k \in 1..Len(lists[walk.list]) :
                /\ walk.item = lists[walk.list][k]
                /\ RemoveFirst(lists[walk.list], walk.item) = RemoveAt(lists[walk.list], k)
                /\ Advance(walk, mem) \in [on : BOOLEAN, list : ListName, left : Nat, item : Pointer]
                /\ Advance(walk, mem).on /\ Advance(walk, mem).list = walk.list
                /\ Ahead(Advance(walk, mem).left, Advance(walk, mem).item, lists[walk.list], snap)
                /\ Ahead(Advance(walk, mem).left, Advance(walk, mem).item,
                         RemoveAt(lists[walk.list], k), snap)
<1> DEFINE s == lists[walk.list]
           w == Advance(walk, mem)
<1>1. /\ walk.list \in ListName /\ s \in Seq(Item) /\ snap \in Seq(Item)
      /\ walk \in [on : BOOLEAN, list : ListName, left : Nat, item : Pointer]
      /\ walk.on /\ walk.left > 0 /\ Ahead(walk.left, walk.item, s, snap)
  BY DEF Inv, TypeOK, WalkGoesOn, Pending
<1>2. Represents(mem, walk.list, s)
  BY <1>1 DEF Inv, ListsFaithful, Faithful
<1> HIDE DEF s
<1>3. \A i, j \in 1..Len(s) : s[i] = s[j] => i = j
  BY <1>2 DEF Represents
<1>4. PICK k \in 1..Len(s) : walk.item = s[k]
  BY <1>1 DEF Ahead
<1>5. s[k] \in Item
  BY <1>1, <1>4, ElementOfSeq
<1>6. RemoveFirst(s, s[k]) = RemoveAt(s, k)
  BY <1>1, <1>3, RemoveFirstIsRemoveAt
<1>7. mem.next[walk.item] = After(s, k)
  BY <1>2, <1>4 DEF Represents
<1>8. After(s, k) \in Item
  BY <1>1, Neighbours
<1>9. /\ w.left = walk.left - 1 /\ w.item = After(s, k) /\ w.on = walk.on
      /\ w.list = walk.list
      /\ w \in [on : BOOLEAN, list : ListName, left : Nat, item : Pointer]
  <2>1. PICK q \in Item : q = After(s, k)
    BY <1>8
  <2>2. w = [walk EXCEPT !.left = walk.left - 1, !.item = q]
    BY <1>7, <2>1 DEF Advance
  <2>3. q \in Pointer /\ walk.left - 1 \in Nat
    BY <1>1 DEF Pointer
  <2> HIDE DEF w
  <2>4. w.left = walk.left - 1 /\ w.item = q /\ w.on = walk.on /\ w.list = walk.list
    BY <1>1, <2>2
  <2>5. w \in [on : BOOLEAN, list : ListName, left : Nat, item : Pointer]
    BY <1>1, <2>2, <2>3
  <2> QED  BY <2>1, <2>4, <2>5
<1>10. Ahead(walk.left, s[k], s, snap)
  BY <1>1, <1>4
<1>11. Ahead(walk.left - 1, After(s, k), s, snap)
       /\ Ahead(walk.left - 1, After(s, k), RemoveAt(s, k), snap)
  BY <1>1, <1>3, <1>10, AheadVisit
<1> QED  BY <1>1, <1>4, <1>5, <1>6, <1>9, <1>11 DEF s

-----------------------------------------------------------------------------
(* The steps.                                                               *)

\* Every operation of the lists and every step of an iteration preserves the
\* invariant.
LEMMA NextInv == Inv /\ [Next]_vars => Inv'
<1> SUFFICES ASSUME Inv, [Next]_vars PROVE Inv'
  OBVIOUS
<1>0. /\ TypeOK /\ ListsFaithful /\ Pending
      /\ mem \in Memory /\ lists \in [ListName -> Seq(Item)] /\ Faithful(mem, lists)
      /\ snap \in Seq(Item)
      /\ walk \in [on : BOOLEAN, list : ListName, left : Nat, item : Pointer]
  BY DEF Inv, TypeOK, ListsFaithful
<1>a. ASSUME NEW l \in ListName, Still(l), walk' = walk, snap' = snap,
             NEW s \in Seq(Item), lists' = [lists EXCEPT ![l] = s],
             mem' \in Memory, lists' \in [ListName -> Seq(Item)], Faithful(mem', lists')
      PROVE  Inv'
  <2>1. walk.on => lists'[walk.list] = lists[walk.list]
    BY <1>0, <1>a DEF Still
  <2>2. Pending'
    BY <1>0, <1>a, <2>1 DEF Pending
  <2> QED  BY <1>0, <1>a, <2>2 DEF Inv, TypeOK, ListsFaithful
<1>1. ASSUME NEW l \in ListName, NEW x \in Item, NEW i \in 1..Len(lists[l]),
             InsertBeforeItem(l, i, x)
      PROVE  Inv'
  <2>1. Still(l) /\ Loose(x) /\ walk' = walk /\ snap' = snap
        /\ mem' = InsertBefore(mem, l, lists[l][i], x)
        /\ lists' = [lists EXCEPT ![l] = InsertAt(lists[l], i, x)]
    BY <1>1 DEF InsertBeforeItem
  <2>2. mem' \in Memory /\ lists' \in [ListName -> Seq(Item)] /\ Faithful(mem', lists')
    BY <2>1, InsertBeforeStep
  <2>3. InsertAt(lists[l], i, x) \in Seq(Item)
    BY <1>0, <2>1, <2>2
  <2> QED  BY <1>a, <2>1, <2>2, <2>3
<1>2. ASSUME NEW l \in ListName, NEW x \in Item, NEW i \in 1..Len(lists[l]),
             InsertAfterItem(l, i, x)
      PROVE  Inv'
  <2>1. Still(l) /\ Loose(x) /\ walk' = walk /\ snap' = snap
        /\ mem' = InsertAfter(mem, l, lists[l][i], x)
        /\ lists' = [lists EXCEPT ![l] = InsertAt(lists[l], i + 1, x)]
    BY <1>2 DEF InsertAfterItem
  <2>2. mem' \in Memory /\ lists' \in [ListName -> Seq(Item)] /\ Faithful(mem', lists')
    BY <2>1, InsertAfterStep
  <2>3. InsertAt(lists[l], i + 1, x) \in Seq(Item)
    BY <1>0, <2>1, <2>2
  <2> QED  BY <1>a, <2>1, <2>2, <2>3
<1>3. ASSUME NEW l \in ListName, NEW x \in Item, PushFrontItem(l, x)
      PROVE  Inv'
  <2>1. Still(l) /\ Loose(x) /\ walk' = walk /\ snap' = snap
        /\ mem' = PushFront(mem, l, x)
        /\ lists' = [lists EXCEPT ![l] = InsertAt(lists[l], 1, x)]
    BY <1>3 DEF PushFrontItem
  <2>2. mem' \in Memory /\ lists' \in [ListName -> Seq(Item)] /\ Faithful(mem', lists')
    BY <2>1, PushFrontStep
  <2>3. InsertAt(lists[l], 1, x) \in Seq(Item)
    BY <1>0, <2>1, <2>2
  <2> QED  BY <1>a, <2>1, <2>2, <2>3
<1>4. ASSUME NEW l \in ListName, NEW x \in Item, PushBackItem(l, x)
      PROVE  Inv'
  <2>1. Loose(x) /\ walk' = walk /\ snap' = snap
        /\ mem' = PushBack(mem, l, x)
        /\ lists' = [lists EXCEPT ![l] = Append(lists[l], x)]
    BY <1>4 DEF PushBackItem
  <2>2. mem' \in Memory /\ lists' \in [ListName -> Seq(Item)] /\ Faithful(mem', lists')
    BY <1>0, <2>1, FaithfulPushBack DEF Loose
  <2>3. Pending'
    <3>1. CASE walk.on /\ walk.list = l
      <4>1. lists[l] \in Seq(Item) /\ lists'[l] = Append(lists[l], x)
        BY <1>0, <2>1
      <4>2. Ahead(walk.left, walk.item, Append(lists[l], x), snap)
        BY <1>0, <3>1, <4>1, AheadAppend DEF Pending
      <4> QED  BY <2>1, <3>1, <4>1, <4>2 DEF Pending
    <3>2. CASE ~(walk.on /\ walk.list = l)
      <4>1. walk.on => lists'[walk.list] = lists[walk.list]
        BY <1>0, <2>1, <3>2
      <4> QED  BY <1>0, <2>1, <4>1 DEF Pending
    <3> QED  BY <3>1, <3>2
  <2> QED  BY <1>0, <2>1, <2>2, <2>3 DEF Inv, TypeOK, ListsFaithful
<1>5. ASSUME NEW l \in ListName, NEW i \in 1..Len(lists[l]), Still(l),
             walk' = walk, snap' = snap, mem' = Erase(mem, l, lists[l][i]),
             lists' = [lists EXCEPT ![l] = RemoveAt(lists[l], i)]
      PROVE  Inv'
  <2>1. mem' \in Memory /\ lists' \in [ListName -> Seq(Item)] /\ Faithful(mem', lists')
    BY <1>5, EraseStep
  <2>2. RemoveAt(lists[l], i) \in Seq(Item)
    BY <1>0, <1>5, <2>1
  <2> QED  BY <1>a, <1>5, <2>1, <2>2
<1>6. ASSUME NEW l \in ListName, PopFrontItem(l) PROVE Inv'
  BY <1>5, <1>6, EndsOfList DEF PopFrontItem, PopFront
<1>7. ASSUME NEW l \in ListName, PopBackItem(l) PROVE Inv'
  BY <1>5, <1>7, EndsOfList DEF PopBackItem, PopBack
<1>8. ASSUME NEW l \in ListName, BeginWalk(l) PROVE Inv'
  <2>1. /\ mem' = mem /\ lists' = lists /\ snap' = lists[l]
        /\ walk' = [on |-> TRUE, list |-> l, left |-> mem.size[l], item |-> mem.head[l]]
    BY <1>8 DEF BeginWalk
  <2>2. /\ lists[l] \in Seq(Item) /\ Represents(mem, l, lists[l])
        /\ mem.size[l] \in Int /\ mem.head[l] \in Pointer
    BY <1>0 DEF Faithful, Memory
  <2>3. Ahead(mem.size[l], mem.head[l], lists[l], lists[l])
    <3> DEFINE s == lists[l]
    <3>1. PICK n \in Nat : n = Len(s)
      BY <2>2, LenProperties
    <3>2. mem.size[l] = n
      BY <2>2, <3>1 DEF Represents
    <3>3. ASSUME n > 0
          PROVE  1 \in 1..n /\ mem.head[l] = s[1] /\ 1 + n - 1 <= n
                 /\ \A j \in 0..(n - 1) : s[1 + j] = s[n - n + 1 + j]
      <4>1. s # <<>>
        BY <3>1, <3>3
      <4>2. mem.head[l] = s[1]
        BY <2>2, <4>1 DEF Represents
      <4>3. \A j \in 0..(n - 1) : 1 + j = n - n + 1 + j
        OBVIOUS
      <4> QED  BY <3>3, <4>2, <4>3
    <3> HIDE DEF s
    <3>4. n > 0 => \E k \in 1..n :
             /\ mem.head[l] = s[k]
             /\ k + n - 1 <= n
             /\ \A j \in 0..(n - 1) : s[k + j] = s[n - n + 1 + j]
      BY <3>3
    <3>5. n \in 0..n
      OBVIOUS
    <3>6. Ahead(n, mem.head[l], s, s)
      BY <3>1, <3>4, <3>5 DEF Ahead
    <3> QED  BY <3>2, <3>6 DEF s
  <2>4. Pending'
    BY <2>1, <2>3 DEF Pending
  <2>5. walk' \in [on : BOOLEAN, list : ListName, left : Nat, item : Pointer]
    <3>1. mem.size[l] \in Nat
      BY <2>2, LenProperties DEF Represents
    <3> QED  BY <2>1, <2>2, <3>1
  <2> QED  BY <1>0, <2>1, <2>2, <2>4, <2>5 DEF Inv, TypeOK, ListsFaithful
<1>9. ASSUME VisitKeep PROVE Inv'
  <2>1. /\ WalkGoesOn /\ walk' = Advance(walk, mem)
        /\ mem' = mem /\ lists' = lists /\ snap' = snap
    BY <1>9 DEF VisitKeep
  <2>2. /\ walk' \in [on : BOOLEAN, list : ListName, left : Nat, item : Pointer]
        /\ walk'.list = walk.list
        /\ Ahead(walk'.left, walk'.item, lists[walk.list], snap)
    BY <2>1, WalkedElement
  <2>3. Pending'
    BY <2>1, <2>2 DEF Pending
  <2> QED  BY <1>0, <2>1, <2>2, <2>3 DEF Inv, TypeOK, ListsFaithful
<1>10. ASSUME VisitErase PROVE Inv'
  <2>1. /\ WalkGoesOn /\ walk' = Advance(walk, mem) /\ snap' = snap
        /\ mem' = Erase(mem, walk.list, walk.item)
        /\ lists' = [lists EXCEPT ![walk.list] = RemoveFirst(lists[walk.list], walk.item)]
    BY <1>10 DEF VisitErase
  <2>2. PICK k \in 1..Len(lists[walk.list]) :
          /\ walk.item = lists[walk.list][k]
          /\ RemoveFirst(lists[walk.list], walk.item) = RemoveAt(lists[walk.list], k)
          /\ walk.list \in ListName
          /\ walk' \in [on : BOOLEAN, list : ListName, left : Nat, item : Pointer]
          /\ walk'.list = walk.list
          /\ Ahead(walk'.left, walk'.item, RemoveAt(lists[walk.list], k), snap)
    BY <2>1, WalkedElement
  <2>3. lists' = [lists EXCEPT ![walk.list] = RemoveAt(lists[walk.list], k)]
        /\ mem' = Erase(mem, walk.list, lists[walk.list][k])
    BY <2>1, <2>2
  <2>4. mem' \in Memory /\ lists' \in [ListName -> Seq(Item)] /\ Faithful(mem', lists')
    BY <2>2, <2>3, EraseStep
  <2>5. lists'[walk.list] = RemoveAt(lists[walk.list], k)
    BY <1>0, <2>2, <2>3
  <2>6. Pending'
    BY <2>1, <2>2, <2>5 DEF Pending
  <2> QED  BY <1>0, <2>1, <2>2, <2>4, <2>6 DEF Inv, TypeOK, ListsFaithful
<1>11. ASSUME NEW l \in ListName, VisitMove(l) PROVE Inv'
  <2> DEFINE x == walk.item
             p == walk.list
             gone(k) == [lists EXCEPT ![p] = RemoveAt(lists[p], k)]
  <2>1. /\ WalkGoesOn /\ l # p /\ walk' = Advance(walk, mem) /\ snap' = snap
        /\ mem' = PushBack(Erase(mem, p, x), l, x)
        /\ lists' = [lists EXCEPT ![p] = RemoveFirst(lists[p], x),
                                  ![l] = Append([lists EXCEPT ![p] = RemoveFirst(lists[p], x)][l], x)]
    BY <1>0, <1>11 DEF VisitMove
  <2>2. PICK k \in 1..Len(lists[p]) :
          /\ x = lists[p][k]
          /\ RemoveFirst(lists[p], x) = RemoveAt(lists[p], k)
          /\ p \in ListName /\ x \in Item
          /\ walk' \in [on : BOOLEAN, list : ListName, left : Nat, item : Pointer]
          /\ walk'.list = p
          /\ Ahead(walk'.left, walk'.item, RemoveAt(lists[p], k), snap)
    BY <2>1, WalkedElement
  <2>3. /\ Erase(mem, p, x) \in Memory /\ gone(k) \in [ListName -> Seq(Item)]
        /\ Faithful(Erase(mem, p, x), gone(k))
    BY <2>2, EraseStep
  <2>4. lists' = [gone(k) EXCEPT ![l] = Append(gone(k)[l], x)]
    BY <2>1, <2>2
  <2>5. \A j \in ListName : x \notin ToSet(gone(k)[j])
    <3>1. x \notin ToSet(gone(k)[p])
      <4>1. lists[p] \in Seq(Item)
            /\ \A i, j \in 1..Len(lists[p]) : lists[p][i] = lists[p][j] => i = j
        BY <1>0, <2>2 DEF Faithful, Represents
      <4>2. ToSet(RemoveAt(lists[p], k)) = ToSet(lists[p]) \ {x}
        <5>1. PICK s \in Seq(Item) : s = lists[p]
          BY <4>1
        <5>2. k \in 1..Len(s) /\ x = s[k] /\ \A i, j \in 1..Len(s) : s[i] = s[j] => i = j
          BY <2>2, <4>1, <5>1
        <5>3. ToSet(RemoveAt(s, k)) = ToSet(s) \ {s[k]}
          BY <5>2, RemoveAtRange
        <5> QED  BY <5>1, <5>2, <5>3
      <4>3. gone(k)[p] = RemoveAt(lists[p], k)
        BY <1>0, <2>2
      <4> QED  BY <4>2, <4>3
    <3>2. ASSUME NEW j \in ListName, j # p PROVE x \notin ToSet(gone(k)[j])
      <4>1. gone(k)[j] = lists[j]
        BY <1>0, <3>2
      <4>2. x \in ToSet(lists[p])
        BY <1>0, <2>2 DEF ToSet
      <4>3. ToSet(lists[j]) \cap ToSet(lists[p]) = {}
        BY <1>0, <2>2, <3>2 DEF Faithful
      <4> QED  BY <4>1, <4>2, <4>3
    <3> QED  BY <3>1, <3>2
  <2> HIDE DEF gone
  <2>6. mem' \in Memory /\ lists' \in [ListName -> Seq(Item)] /\ Faithful(mem', lists')
    <3>1. PICK m \in Memory : m = Erase(mem, p, x)
      BY <2>3
    <3>2. PICK ls \in [ListName -> Seq(Item)] : ls = gone(k)
      BY <2>3
    <3>3. Faithful(m, ls) /\ \A j \in ListName : x \notin ToSet(ls[j])
      BY <2>3, <2>5, <3>1, <3>2
    <3>4. mem' = PushBack(m, l, x) /\ lists' = [ls EXCEPT ![l] = Append(ls[l], x)]
      BY <2>1, <2>4, <3>1, <3>2
    <3>5. x \in Item
      BY <2>2
    <3> HIDE DEF x, p
    <3> QED  BY <3>3, <3>4, <3>5, FaithfulPushBack
  <2>7. lists'[p] = RemoveAt(lists[p], k)
    BY <1>0, <2>1, <2>2, <2>3, <2>4 DEF gone
  <2>8. Pending'
    BY <2>1, <2>2, <2>7 DEF Pending
  <2> QED  BY <1>0, <2>1, <2>2, <2>6, <2>8 DEF Inv, TypeOK, ListsFaithful
<1>12. ASSUME EndWalk PROVE Inv'
  <2>1. /\ mem' = mem /\ lists' = lists /\ snap' = <<>> /\ walk' = NoWalk
    BY <1>12 DEF EndWalk
  <2>2. walk' \in [on : BOOLEAN, list : ListName, left : Nat, item : Pointer] /\ ~walk'.on
    BY <2>1, ListAssumption DEF NoWalk, Pointer
  <2>3. Pending' /\ snap' \in Seq(Item)
    BY <2>1, <2>2, EmptySeq DEF Pending
  <2> QED  BY <1>0, <2>1, <2>2, <2>3 DEF Inv, TypeOK, ListsFaithful
<1>13. ASSUME UNCHANGED vars PROVE Inv'
  BY <1>0, <1>13 DEF vars, Inv, TypeOK, ListsFaithful, Pending
<1>14. ASSUME NEW l \in ListName, NEW i \in 1..Len(lists[l]), EraseItem(l, i) PROVE Inv'
  BY <1>5, <1>14 DEF EraseItem
<1> QED
  BY <1>1, <1>2, <1>3, <1>4, <1>6, <1>7, <1>8, <1>9, <1>10, <1>11, <1>12, <1>13, <1>14
  DEF Next, WalkStep

LEMMA Invariance == Spec => []Inv
BY InitInv, NextInv, PTL DEF Spec

-----------------------------------------------------------------------------
\* The variables keep their types.
THEOREM Typing == Spec => []TypeOK
<1>1. Inv => TypeOK
  BY DEF Inv
<1> QED  BY <1>1, Invariance, PTL

\* Whatever the elements, the lists and the history of insertions, erasures and
\* iterations, the links describe exactly the sequences the program believes
\* in, and no null pointer was followed (src/c-stl/list.c:34-155).
THEOREM ListsAreFaithful == Spec => []ListsFaithful
<1>1. Inv => ListsFaithful
  BY DEF Inv
<1> QED  BY <1>1, Invariance, PTL

\* Every iteration visits exactly the elements the list had when it began,
\* whatever its body does to the visited ones (src/c-stl/list.h:85-88).
THEOREM WalksAreExact == Spec => []WalkExact
BY Invariance, PendingExact, PTL

================================================================================
