------------------------------- MODULE LogProofs -------------------------------
(***************************************************************************)
(* Theorems about CircularQueue, for any elements and capacities: the       *)
(* circular table, through every growth, implements the queue of Fifo; and  *)
(* about Log, which uses it, for any number of buffers, lines and sizes of  *)
(* its tables.                                                              *)
(***************************************************************************)
EXTENDS Log, SequenceTheorems, FiniteSetTheorems, TLAPS

-----------------------------------------------------------------------------
(* The circular queue.                                                      *)

\* The remainder, under a name that keeps the provers from dividing.
Mod(a, c) == a % c

\* The elements of a table t of capacity c, from h on: Contents, as a function
\* of the variables.
Listed(t, h, s, c) == [i \in 1..s |-> t[Mod(h + i - 1, c)]]

Slots(c) == 0..(c - 1)

\* The occupied slots hold elements: no null, and nothing that realloc left.
Occupied ==
    \A i \in 1..size : table[(head + i - 1) % capacity] \in Element

\* IndexesAgree and the types say where the elements are, not that what is there
\* was pushed; a pop returns it, so that even the types need Occupied.
Inv == TypeOK /\ IndexesAgree /\ Occupied

-----------------------------------------------------------------------------
(* Arithmetic of the indexes.                                               *)

LEMMA WrapIndex ==
    ASSUME NEW c \in Nat \ {0}, NEW a \in 0..(2 * c - 1)
    PROVE  Mod(a, c) = IF a < c THEN a ELSE a - c
<1>1. CASE a < c
  BY <1>1 DEF Mod
<1>2. CASE ~(a < c)
  BY <1>2 DEF Mod
<1> QED  BY <1>1, <1>2

\* The index of the i-th element, without the division.
LEMMA SlotOf ==
    ASSUME NEW c \in Nat \ {0}, NEW h \in Slots(c), NEW i \in 1..c
    PROVE  /\ Mod(h + i - 1, c) = IF h + i - 1 < c THEN h + i - 1 ELSE h + i - 1 - c
           /\ Mod(h + i - 1, c) \in Slots(c)
<1>1. PICK a \in 0..(2 * c - 1) : a = h + i - 1
  BY DEF Slots
<1>2. Mod(a, c) = IF a < c THEN a ELSE a - c
  BY <1>1, WrapIndex
<1>3. (IF a < c THEN a ELSE a - c) \in Slots(c)
  BY <1>1 DEF Slots
<1>4. Mod(a, c) \in Slots(c)
  BY <1>2, <1>3
<1> QED  BY <1>1, <1>2, <1>4 DEF Slots

\* The index behind the last of s elements.
LEMMA EndOf ==
    ASSUME NEW c \in Nat \ {0}, NEW h \in Slots(c), NEW s \in Slots(c)
    PROVE  /\ Mod(h + s, c) = IF h + s < c THEN h + s ELSE h + s - c
           /\ Mod(h + s, c) \in Slots(c)
<1>1. PICK a \in 0..(2 * c - 1) : a = h + s
  BY DEF Slots
<1>2. Mod(a, c) = IF a < c THEN a ELSE a - c
  BY <1>1, WrapIndex
<1>3. (IF a < c THEN a ELSE a - c) \in Slots(c)
  BY <1>1 DEF Slots
<1>4. Mod(a, c) \in Slots(c)
  BY <1>2, <1>3
<1> QED  BY <1>1, <1>2, <1>4 DEF Slots

LEMMA NextOf ==
    ASSUME NEW c \in Nat \ {0}, NEW a \in Slots(c)
    PROVE  /\ Mod(a + 1, c) = IF a + 1 < c THEN a + 1 ELSE 0
           /\ Mod(a + 1, c) \in Slots(c)
<1>1. PICK b \in 0..(2 * c - 1) : b = a + 1 /\ b <= c
  BY DEF Slots
<1>2. Mod(b, c) = IF b < c THEN b ELSE b - c
  BY <1>1, WrapIndex
<1>3. (IF b < c THEN b ELSE b - c) = (IF b < c THEN b ELSE 0)
  BY <1>1
<1>4. (IF b < c THEN b ELSE 0) \in Slots(c)
  BY <1>1 DEF Slots
<1> QED  BY <1>1, <1>2, <1>3, <1>4

\* The table is full exactly when one slot is left.
LEMMA FullMeans ==
    ASSUME NEW c \in Nat \ {0}, NEW h \in Slots(c), NEW s \in Slots(c)
    PROVE  h = Mod(Mod(h + s, c) + 1, c) <=> s = c - 1
<1> DEFINE e == Mod(h + s, c)
<1>1. /\ e = IF h + s < c THEN h + s ELSE h + s - c
      /\ e \in Slots(c)
  BY EndOf
<1> HIDE DEF e
<1>2. Mod(e + 1, c) = IF e + 1 < c THEN e + 1 ELSE 0
  BY <1>1, NextOf
<1>3. h = (IF e + 1 < c THEN e + 1 ELSE 0) <=> s = c - 1
  BY <1>1 DEF Slots
<1> QED  BY <1>2, <1>3 DEF e

LEMMA GrownMore ==
    ASSUME NEW c \in Nat, c > 1
    PROVE  c + c \div 2 \in Nat /\ c + c \div 2 > c
  OBVIOUS

-----------------------------------------------------------------------------
(* What the operations do to the listed elements.                           *)

\* The table with x behind the last of s elements.
PutIn(t, h, s, c, x) == [t EXCEPT ![Mod(h + s, c)] = x]

\* Writing behind the last element appends it.
LEMMA ListedPut ==
    ASSUME NEW c \in Nat \ {0}, NEW h \in Slots(c), NEW s \in Slots(c), s + 1 < c,
           NEW t \in [Slots(c) -> Element \cup {NULL, Junk}], NEW x \in Element,
           Listed(t, h, s, c) \in Seq(Element)
    PROVE  Listed(PutIn(t, h, s, c, x), h, s + 1, c) = Append(Listed(t, h, s, c), x)
<1> DEFINE e == Mod(h + s, c)
           u == [t EXCEPT ![e] = x]
           q == Listed(t, h, s, c)
           r == Listed(u, h, s + 1, c)
<1>1. /\ e = IF h + s < c THEN h + s ELSE h + s - c
      /\ e \in Slots(c)
  BY EndOf
<1>2. s \in Nat /\ s + 1 \in Nat /\ s + 1 \in 1..c
  BY DEF Slots
<1>3. Len(q) = s /\ \A i \in 1..s : q[i] = t[Mod(h + i - 1, c)]
  BY <1>2 DEF Listed
<1>4. /\ Append(q, x) \in Seq(Element) /\ Len(Append(q, x)) = s + 1
      /\ \A i \in 1..s : Append(q, x)[i] = q[i]
      /\ Append(q, x)[s + 1] = x
  BY <1>3, AppendProperties
<1>5. r = [i \in 1..(s + 1) |-> u[Mod(h + i - 1, c)]]
  BY DEF Listed
<1>6. ASSUME NEW i \in 1..s PROVE u[Mod(h + i - 1, c)] = q[i]
  <2>1. i \in 1..c
    BY <1>2
  <2>2. /\ Mod(h + i - 1, c) = IF h + i - 1 < c THEN h + i - 1 ELSE h + i - 1 - c
        /\ Mod(h + i - 1, c) \in Slots(c)
    BY <2>1, SlotOf
  <2>3. Mod(h + i - 1, c) # e
    BY <2>2, <1>1 DEF Slots
  <2> QED  BY <2>2, <2>3, <1>3
<1>7. u[Mod(h + (s + 1) - 1, c)] = x
  <2>1. h + (s + 1) - 1 = h + s
    BY DEF Slots
  <2> QED  BY <2>1, <1>1
<1>8. \A i \in 1..(s + 1) : u[Mod(h + i - 1, c)] = Append(q, x)[i]
  <2> TAKE i \in 1..(s + 1)
  <2>1. i \in 1..s \/ i = s + 1
    BY <1>2
  <2> QED  BY <2>1, <1>4, <1>6, <1>7
<1>9. Append(q, x) = [i \in 1..(s + 1) |-> Append(q, x)[i]]
  BY <1>4, LenProperties
<1> QED  BY <1>5, <1>8, <1>9 DEF PutIn

\* Dropping the slot at the head drops the first element.
LEMMA ListedDrop ==
    ASSUME NEW c \in Nat \ {0}, NEW h \in Slots(c), NEW s \in Slots(c), s > 0,
           NEW t \in [Slots(c) -> Element \cup {NULL, Junk}],
           Listed(t, h, s, c) \in Seq(Element)
    PROVE  /\ Listed([t EXCEPT ![h] = NULL], Mod(h + 1, c), s - 1, c)
                = Tail(Listed(t, h, s, c))
           /\ Listed(t, h, s, c) # <<>>
           /\ Head(Listed(t, h, s, c)) = t[h]
<1> DEFINE g == Mod(h + 1, c)
           u == [t EXCEPT ![h] = NULL]
           q == Listed(t, h, s, c)
<1>1. /\ g = IF h + 1 < c THEN h + 1 ELSE 0
      /\ g \in Slots(c)
  BY NextOf
<1>2. s \in Nat /\ s - 1 \in Nat /\ 1 \in 1..s
  BY DEF Slots
<1>3. Len(q) = s /\ \A i \in 1..s : q[i] = t[Mod(h + i - 1, c)]
  BY <1>2 DEF Listed
<1>4. q # <<>>
  BY <1>2, <1>3, EmptySeq
<1>5. /\ Tail(q) \in Seq(Element) /\ Len(Tail(q)) = s - 1
      /\ \A i \in 1..(s - 1) : Tail(q)[i] = q[i + 1]
  BY <1>3, <1>4, HeadTailProperties
<1>6. ASSUME NEW i \in 1..(s - 1) PROVE u[Mod(g + i - 1, c)] = Tail(q)[i]
  <2>1. i \in 1..c /\ i + 1 \in 1..c /\ i + 1 \in 1..s
    BY <1>2 DEF Slots
  <2>2. /\ Mod(g + i - 1, c) = IF g + i - 1 < c THEN g + i - 1 ELSE g + i - 1 - c
        /\ Mod(g + i - 1, c) \in Slots(c)
    BY <2>1, <1>1, SlotOf
  <2>3. Mod(h + (i + 1) - 1, c)
          = IF h + (i + 1) - 1 < c THEN h + (i + 1) - 1 ELSE h + (i + 1) - 1 - c
    BY <2>1, SlotOf
  <2>4. /\ Mod(g + i - 1, c) = Mod(h + (i + 1) - 1, c)
        /\ Mod(g + i - 1, c) # h
    BY <2>1, <2>2, <2>3, <1>1 DEF Slots
  <2>5. q[i + 1] = t[Mod(h + (i + 1) - 1, c)]
    BY <2>1, <1>3
  <2> QED  BY <2>2, <2>4, <2>5, <1>5
<1>7. Listed(u, g, s - 1, c) = [i \in 1..(s - 1) |-> u[Mod(g + i - 1, c)]]
  BY DEF Listed
<1>8. Tail(q) = [i \in 1..(s - 1) |-> Tail(q)[i]]
  BY <1>5, LenProperties
<1>9. Listed(u, g, s - 1, c) = Tail(q)
  BY <1>6, <1>7, <1>8
<1>10. Head(q) = t[h]
  <2>1. 1 \in 1..c
    BY DEF Slots
  <2>2. Mod(h + 1 - 1, c) = h
    <3>1. Mod(h + 1 - 1, c) = IF h + 1 - 1 < c THEN h + 1 - 1 ELSE h + 1 - 1 - c
      BY <2>1, SlotOf
    <3>2. h + 1 - 1 = h /\ h < c
      BY DEF Slots
    <3> QED  BY <3>1, <3>2
  <2>3. Head(q) = q[1]
    BY <1>4
  <2> QED  BY <2>2, <2>3, <1>2, <1>3
<1> QED  BY <1>4, <1>9, <1>10

\* What the types say of the indexes.
LEMMA Indexes ==
    ASSUME TypeOK
    PROVE  /\ capacity \in Nat \ {0} /\ capacity > 1
           /\ head \in Slots(capacity) /\ tail \in Slots(capacity)
           /\ size \in Slots(capacity)
           /\ table \in [Slots(capacity) -> Element \cup {NULL, Junk}]
  BY QueueAssumption DEF TypeOK, Slots

\* Growing moves the elements and the head together: the list is the same, and
\* it still ends at the tail (queue.c:45-66).
LEMMA Growth ==
    ASSUME TypeOK, IndexesAgree, Full
    PROVE  /\ size = capacity - 1
           /\ Grown \in Nat /\ Grown > capacity
           /\ MovedHead \in Slots(Grown)
           /\ MovedTable \in [Slots(Grown) -> Element \cup {NULL, Junk}]
           /\ Listed(MovedTable, MovedHead, size, Grown) = Listed(table, head, size, capacity)
           /\ Mod(MovedHead + size, Grown) = tail
<1>1. /\ capacity \in Nat \ {0} /\ capacity > 1
      /\ head \in Slots(capacity) /\ tail \in Slots(capacity) /\ size \in Slots(capacity)
      /\ table \in [Slots(capacity) -> Element \cup {NULL, Junk}]
  BY Indexes
<1>2. tail = Mod(head + size, capacity) /\ head = Mod(tail + 1, capacity)
  BY DEF IndexesAgree, Full, Mod
<1>3. size = capacity - 1
  BY <1>1, <1>2, FullMeans
<1>4. Grown \in Nat /\ Grown > capacity
  BY <1>1, GrownMore DEF Grown
<1>5. head = IF tail + 1 < capacity THEN tail + 1 ELSE 0
  BY <1>1, <1>2, NextOf
<1>6. MovedHead = IF head > tail THEN head + (Grown - capacity) ELSE 0
  BY <1>1, <1>5 DEF MovedHead, Slots
<1>7. MovedHead \in Slots(Grown)
  BY <1>1, <1>4, <1>6 DEF Slots
<1>8. MovedTable \in [Slots(Grown) -> Element \cup {NULL, Junk}]
  <2>1. \A i \in Slots(Grown) :
           (IF head > tail /\ i >= MovedHead THEN table[i - (Grown - capacity)]
            ELSE IF i < capacity THEN table[i] ELSE Junk) \in Element \cup {NULL, Junk}
    <3> TAKE i \in Slots(Grown)
    <3>1. CASE head > tail /\ i >= MovedHead
      <4>1. i - (Grown - capacity) \in Slots(capacity)
        BY <3>1, <1>1, <1>4, <1>6 DEF Slots
      <4> QED  BY <4>1, <3>1, <1>1
    <3>2. CASE ~(head > tail /\ i >= MovedHead) /\ i < capacity
      <4>1. i \in Slots(capacity)
        BY <3>2, <1>1, <1>4 DEF Slots
      <4> QED  BY <4>1, <3>2, <1>1
    <3>3. CASE ~(head > tail /\ i >= MovedHead) /\ ~(i < capacity)
      BY <3>3
    <3> QED  BY <3>1, <3>2, <3>3
  <2> QED  BY <2>1 DEF MovedTable, Slots
<1>9. \A i \in 1..size : MovedTable[Mod(MovedHead + i - 1, Grown)] = table[Mod(head + i - 1, capacity)]
  <2> TAKE i \in 1..size
  <2>1. i \in 1..capacity /\ i \in 1..Grown
    BY <1>1, <1>3, <1>4 DEF Slots
  <2>2. PICK p \in Slots(Grown) :
           /\ p = Mod(MovedHead + i - 1, Grown)
           /\ p = IF MovedHead + i - 1 < Grown THEN MovedHead + i - 1 ELSE MovedHead + i - 1 - Grown
    BY <2>1, <1>1, <1>4, <1>7, SlotOf
  <2>3. PICK q \in Slots(capacity) :
           /\ q = Mod(head + i - 1, capacity)
           /\ q = IF head + i - 1 < capacity THEN head + i - 1 ELSE head + i - 1 - capacity
    BY <2>1, <1>1, SlotOf
  <2>4. MovedTable[p] = IF head > tail /\ p >= MovedHead THEN table[p - (Grown - capacity)]
                        ELSE IF p < capacity THEN table[p] ELSE Junk
    BY DEF MovedTable, Slots
  <2>5. CASE head > tail /\ head + i - 1 < capacity
    <3>1. p >= MovedHead /\ p - (Grown - capacity) = q
      BY SMTT(30), <2>5, <2>1, <2>2, <2>3, <1>1, <1>4, <1>6 DEF Slots
    <3> QED  BY <3>1, <2>5, <2>2, <2>3, <2>4
  <2>6. CASE head > tail /\ ~(head + i - 1 < capacity)
    <3>1. MovedHead = head + (Grown - capacity) /\ ~(MovedHead + i - 1 < Grown)
      BY <2>6, <2>1, <1>1, <1>4, <1>6 DEF Slots
    <3>2. p = MovedHead + i - 1 - Grown /\ q = head + i - 1 - capacity
      BY <3>1, <2>2, <2>3, <2>6
    <3>3. p = q /\ p < MovedHead /\ p < capacity
      BY <3>1, <3>2, <2>1, <1>1, <1>3, <1>4 DEF Slots
    <3>4. ~(p >= MovedHead)
      BY <3>3, <1>1, <1>4, <1>7 DEF Slots
    <3>5. MovedTable[p] = table[q]
      BY <3>3, <3>4, <2>4
    <3> QED  BY <3>5, <2>2, <2>3
  <2>7. CASE ~(head > tail)
    <3>1. p = q /\ p < capacity
      BY <2>7, <2>1, <2>2, <2>3, <1>1, <1>3, <1>4, <1>5, <1>6 DEF Slots
    <3> QED  BY <3>1, <2>7, <2>2, <2>3, <2>4
  <2> QED  BY <2>5, <2>6, <2>7
<1>10. Listed(MovedTable, MovedHead, size, Grown) = Listed(table, head, size, capacity)
  BY <1>9 DEF Listed
<1>11. Mod(MovedHead + size, Grown) = tail
  <2>1. size \in Slots(Grown)
    BY <1>1, <1>3, <1>4 DEF Slots
  <2>2. Grown \in Nat \ {0}
    BY <1>1, <1>4
  <2>3. Mod(MovedHead + size, Grown)
          = IF MovedHead + size < Grown THEN MovedHead + size ELSE MovedHead + size - Grown
    BY <2>1, <2>2, <1>7, EndOf DEF Slots
  <2> QED  BY <2>3, <1>1, <1>3, <1>4, <1>5, <1>6 DEF Slots
<1> QED  BY <1>3, <1>4, <1>7, <1>8, <1>10, <1>11

-----------------------------------------------------------------------------
(* The queue's contents, and the steps.                                     *)

LEMMA ContentsListed ==
    ASSUME Inv
    PROVE  /\ Contents = Listed(table, head, size, capacity)
           /\ Contents \in Seq(Element)
           /\ tail = Mod(head + size, capacity)
<1>1. size \in Nat /\ \A i \in 1..size : table[(head + i - 1) % capacity] \in Element
  BY DEF Inv, TypeOK, Occupied
<1>2. Contents \in Seq(Element)
  BY <1>1, IsASeq DEF Contents
<1>3. Contents = Listed(table, head, size, capacity)
  BY DEF Contents, Listed, Mod
<1>4. tail = Mod(head + size, capacity)
  BY DEF Inv, IndexesAgree, Mod
<1> QED  BY <1>2, <1>3, <1>4

\* If the listed elements are known, the slots they are in hold elements.
LEMMA ListedOccupied ==
    ASSUME NEW s \in Nat, NEW t, NEW h, NEW c, Listed(t, h, s, c) \in Seq(Element)
    PROVE  \A i \in 1..s : t[(h + i - 1) % c] \in Element
<1> DEFINE q == Listed(t, h, s, c)
<1>1. Len(q) = s /\ \A i \in 1..s : q[i] = t[Mod(h + i - 1, c)]
  BY DEF Listed
<1>2. \A i \in 1..s : q[i] \in Element
  BY <1>1, ElementOfSeq
<1> QED  BY <1>1, <1>2 DEF Mod

\* The assignments that end both pushes, on a table that has room.
LEMMA PutKeeps ==
    ASSUME NEW c \in InitCapacity..MaxCapacity, NEW h \in Slots(c), NEW s \in Slots(c),
           s + 1 < c, NEW t \in [Slots(c) -> Element \cup {NULL, Junk}],
           NEW x \in Element, Listed(t, h, s, c) \in Seq(Element),
           s = size, tail = Mod(h + s, c), popped \in Element \cup {NULL},
           head' = h, Put(x, t, c)
    PROVE  Inv' /\ Contents' = Append(Listed(t, h, s, c), x)
<1>1. c \in Nat \ {0} /\ c > 1 /\ s + 1 \in Slots(c) /\ s + 1 \in Nat
  BY QueueAssumption DEF Slots
<1>2. tail \in Slots(c) /\ tail = IF h + s < c THEN h + s ELSE h + s - c
  BY <1>1, EndOf
<1>3. /\ table' = [t EXCEPT ![tail] = x] /\ capacity' = c
      /\ tail' = Mod(tail + 1, c) /\ size' = s + 1 /\ popped' = popped /\ head' = h
  BY DEF Put, Mod
<1>4. Listed(table', h, s + 1, c) = Append(Listed(t, h, s, c), x)
  <2>1. Listed(PutIn(t, h, s, c, x), h, s + 1, c) = Append(Listed(t, h, s, c), x)
    BY <1>1, ListedPut
  <2> QED  BY <2>1, <1>3 DEF PutIn
<1>5. Append(Listed(t, h, s, c), x) \in Seq(Element)
  BY AppendProperties
<1>6. Contents' = Append(Listed(t, h, s, c), x)
  BY <1>3, <1>4 DEF Contents, Listed, Mod
<1>7. Occupied'
  <2>1. Listed(table', h, s + 1, c) \in Seq(Element)
    BY <1>4, <1>5
  <2>2. \A i \in 1..(s + 1) : table'[(h + i - 1) % c] \in Element
    BY <2>1, <1>1, ListedOccupied
  <2> QED  BY <2>2, <1>3 DEF Occupied
<1>8. IndexesAgree'
  <2>1. tail' = IF tail + 1 < c THEN tail + 1 ELSE 0
    BY <1>1, <1>2, <1>3, NextOf
  <2>2. Mod(h + (s + 1), c) = IF h + (s + 1) < c THEN h + (s + 1) ELSE h + (s + 1) - c
    BY <1>1, EndOf
  <2>3. tail' = Mod(h + (s + 1), c)
    BY <2>1, <2>2, <1>2 DEF Slots
  <2> QED  BY <2>3, <1>3 DEF IndexesAgree, Mod
<1>9. TypeOK'
  <2>1. table' \in [Slots(c) -> Element \cup {NULL, Junk}]
    BY <1>2, <1>3
  <2>2. tail' \in Slots(c)
    BY <1>1, <1>2, <1>3, NextOf
  <2> QED  BY <2>1, <2>2, <1>1, <1>3 DEF TypeOK, Slots
<1> QED  BY <1>6, <1>7, <1>8, <1>9 DEF Inv

\* Both pushes append, whether or not the table grows.
LEMMA PushKeeps ==
    ASSUME Inv, NEW x \in Element, queue_push(x) \/ queue_push_fixed(x)
    PROVE  Inv' /\ Contents' = Append(Contents, x) /\ popped' = popped
<1>1. /\ capacity \in Nat \ {0} /\ capacity > 1
      /\ head \in Slots(capacity) /\ tail \in Slots(capacity) /\ size \in Slots(capacity)
      /\ table \in [Slots(capacity) -> Element \cup {NULL, Junk}]
      /\ popped \in Element \cup {NULL} /\ capacity \in InitCapacity..MaxCapacity
  BY Indexes DEF Inv, TypeOK
<1>2. /\ Contents = Listed(table, head, size, capacity)
      /\ Contents \in Seq(Element)
      /\ tail = Mod(head + size, capacity)
  BY ContentsListed
<1>3. CASE ~Full /\ head' = head /\ Put(x, table, capacity)
  <2>1. ~(head = Mod(Mod(head + size, capacity) + 1, capacity))
    BY <1>2, <1>3 DEF Full, Mod
  <2>2. size # capacity - 1
    BY <2>1, <1>1, FullMeans
  <2>3. size + 1 < capacity
    BY <2>2, <1>1 DEF Slots
  <2>4. Inv' /\ Contents' = Append(Contents, x)
    BY <2>3, <1>1, <1>2, <1>3, PutKeeps
  <2> QED  BY <2>4, <1>3 DEF Put
<1>4. CASE Full /\ Grown <= MaxCapacity /\ head' = MovedHead /\ Put(x, MovedTable, Grown)
  <2>1. /\ size = capacity - 1
        /\ Grown \in Nat /\ Grown > capacity
        /\ MovedHead \in Slots(Grown)
        /\ MovedTable \in [Slots(Grown) -> Element \cup {NULL, Junk}]
        /\ Listed(MovedTable, MovedHead, size, Grown) = Contents
        /\ Mod(MovedHead + size, Grown) = tail
    BY <1>2, <1>4, Growth DEF Inv
  <2>2. Grown \in InitCapacity..MaxCapacity /\ size \in Slots(Grown) /\ size + 1 < Grown
    <3>1. InitCapacity \in Nat
      BY QueueAssumption
    <3>2. PICK g \in Nat, c \in Nat : g = Grown /\ c = capacity /\ g > c /\ g <= MaxCapacity
                                   /\ c >= InitCapacity /\ size = c - 1 /\ c > 1
      BY <2>1, <1>1, <1>4
    <3>3. g \in InitCapacity..MaxCapacity /\ c - 1 \in 0..(g - 1) /\ (c - 1) + 1 < g
      BY <3>1, <3>2
    <3> QED  BY <3>2, <3>3 DEF Slots
  <2>3. Inv' /\ Contents' = Append(Contents, x)
    <3>1. PICK g \in InitCapacity..MaxCapacity : g = Grown
      BY <2>2
    <3>2. PICK h \in Slots(g), s \in Slots(g),
               t \in [Slots(g) -> Element \cup {NULL, Junk}] :
            h = MovedHead /\ s = size /\ t = MovedTable /\ s + 1 < g
      BY <2>1, <2>2, <3>1
    <3>3. /\ Listed(t, h, s, g) = Contents /\ Contents \in Seq(Element)
          /\ tail = Mod(h + s, g) /\ popped \in Element \cup {NULL}
      BY <2>1, <1>1, <1>2, <3>1, <3>2
    <3>4. head' = h /\ Put(x, t, g)
      BY <1>4, <3>1, <3>2
    <3>5. Inv' /\ Contents' = Append(Listed(t, h, s, g), x)
      BY <3>2, <3>3, <3>4, PutKeeps
    <3> QED  BY <3>3, <3>5
  <2> QED  BY <2>3, <1>4 DEF Put
<1> QED  BY <1>3, <1>4 DEF queue_push, queue_push_fixed

\* A pop removes and returns the first element.
LEMMA PopKeeps ==
    ASSUME Inv, queue_pop
    PROVE  /\ Inv' /\ Contents # <<>>
           /\ Contents' = Tail(Contents) /\ popped' = Head(Contents)
<1>1. /\ capacity \in Nat \ {0} /\ capacity > 1
      /\ head \in Slots(capacity) /\ tail \in Slots(capacity) /\ size \in Slots(capacity)
      /\ table \in [Slots(capacity) -> Element \cup {NULL, Junk}]
      /\ capacity \in InitCapacity..MaxCapacity
  BY Indexes DEF Inv, TypeOK
<1>2. /\ Contents = Listed(table, head, size, capacity)
      /\ Contents \in Seq(Element)
      /\ tail = Mod(head + size, capacity)
  BY ContentsListed
<1>3. /\ size > 0 /\ popped' = table[head] /\ table' = [table EXCEPT ![head] = NULL]
      /\ head' = Mod(head + 1, capacity) /\ size' = size - 1
      /\ capacity' = capacity /\ tail' = tail
  BY DEF queue_pop, Mod
<1>4. /\ Listed(table', head', size', capacity) = Tail(Contents)
      /\ Contents # <<>> /\ Head(Contents) = table[head]
  <2>1. Listed(table, head, size, capacity) \in Seq(Element)
    BY <1>2
  <2>2. /\ Listed([table EXCEPT ![head] = NULL], Mod(head + 1, capacity), size - 1, capacity)
             = Tail(Listed(table, head, size, capacity))
        /\ Listed(table, head, size, capacity) # <<>>
        /\ Head(Listed(table, head, size, capacity)) = table[head]
    BY <2>1, <1>1, <1>3, ListedDrop
  <2> QED  BY <2>2, <1>2, <1>3
<1>5. Tail(Contents) \in Seq(Element) /\ Head(Contents) \in Element
  BY <1>2, <1>4, HeadTailProperties
<1>6. Contents' = Tail(Contents)
  BY <1>3, <1>4 DEF Contents, Listed, Mod
<1>7. size' \in Slots(capacity) /\ size' \in Nat
  BY <1>1, <1>3 DEF Slots
<1>8. /\ head' = IF head + 1 < capacity THEN head + 1 ELSE 0
      /\ head' \in Slots(capacity)
  BY <1>1, <1>3, NextOf
<1>9. Occupied'
  <2>1. \A i \in 1..size' : table'[(head' + i - 1) % capacity] \in Element
    BY <1>4, <1>5, <1>7, ListedOccupied
  <2> QED  BY <2>1, <1>3 DEF Occupied
<1>10. IndexesAgree'
  <2>1. Mod(head' + size', capacity)
          = IF head' + size' < capacity THEN head' + size' ELSE head' + size' - capacity
    BY <1>1, <1>7, <1>8, EndOf
  <2>2. tail = IF head + size < capacity THEN head + size ELSE head + size - capacity
    BY <1>1, <1>2, EndOf
  <2>3. tail = Mod(head' + size', capacity)
    BY <2>1, <2>2, <1>1, <1>3, <1>8 DEF Slots
  <2> QED  BY <2>3, <1>3 DEF IndexesAgree, Mod
<1>11. TypeOK'
  <2>1. table' \in [Slots(capacity) -> Element \cup {NULL, Junk}]
    BY <1>1, <1>3
  <2> QED  BY <2>1, <1>1, <1>3, <1>4, <1>5, <1>7, <1>8 DEF TypeOK, Slots
<1> QED  BY <1>3, <1>4, <1>6, <1>9, <1>10, <1>11 DEF Inv

-----------------------------------------------------------------------------
LEMMA InitInv == Init => Inv /\ Contents = <<>> /\ popped = NULL
<1> SUFFICES ASSUME Init PROVE Inv /\ Contents = <<>> /\ popped = NULL
  OBVIOUS
<1>1. InitCapacity \in Nat \ {0} /\ 0 \in Slots(InitCapacity)
  BY QueueAssumption DEF Slots
<1>2. TypeOK
  BY <1>1, QueueAssumption DEF Init, TypeOK, Slots
<1>3. IndexesAgree
  <2>1. Mod(0 + 0, InitCapacity) = IF 0 + 0 < InitCapacity THEN 0 + 0 ELSE 0 + 0 - InitCapacity
    BY <1>1, EndOf
  <2>2. Mod(0 + 0, InitCapacity) = 0
    BY <2>1, <1>1
  <2> QED  BY <2>2 DEF Init, IndexesAgree, Mod
<1>4. Occupied /\ Contents = <<>>
  BY DEF Init, Occupied, Contents
<1> QED  BY <1>2, <1>3, <1>4 DEF Inv, Init

LEMMA NextInv == Inv /\ [Next]_vars => Inv'
<1> SUFFICES ASSUME Inv, [Next]_vars PROVE Inv'
  OBVIOUS
<1>1. CASE \E x \in Element : queue_push(x) \/ queue_push_fixed(x)
  BY <1>1, PushKeeps
<1>2. CASE queue_pop
  BY <1>2, PopKeeps
<1>3. CASE UNCHANGED vars
  BY <1>3 DEF vars, Inv, TypeOK, IndexesAgree, Occupied
<1> QED  BY <1>1, <1>2, <1>3 DEF Next

LEMMA Invariance == Spec => []Inv
  BY InitInv, NextInv, PTL DEF Spec

\* The indexes stay in the table, and a pop returns an element, never a slot
\* that realloc added or a pop cleared (queue.c:33-116).
THEOREM Typing == Spec => []TypeOK
<1>1. Inv => TypeOK
  BY DEF Inv
<1> QED  BY <1>1, Invariance, PTL

\* size, head and tail agree through every growth (queue.c:43-74, 105-113).
THEOREM IndexesAlwaysAgree == Spec => []IndexesAgree
<1>1. Inv => IndexesAgree
  BY DEF Inv
<1> QED  BY <1>1, Invariance, PTL

\* The circular table implements the queue: every step is an enqueue, a dequeue
\* of the oldest element, or none, for any capacity (queue.c:33-116).
THEOREM ImplementsFifo == Spec => IsFifo
<1>1. Init => Queue!Init
  BY InitInv DEF Queue!Init
<1>2. Inv /\ [Next]_vars => [Queue!Next]_(Queue!vars)
  <2> SUFFICES ASSUME Inv, [Next]_vars PROVE [Queue!Next]_(Queue!vars)
    OBVIOUS
  <2>1. CASE \E x \in Element : queue_push(x) \/ queue_push_fixed(x)
    <3>1. PICK x \in Element : queue_push(x) \/ queue_push_fixed(x)
      BY <2>1
    <3>2. Contents' = Append(Contents, x) /\ popped' = popped
      BY <3>1, PushKeeps
    <3> QED  BY <3>2 DEF Queue!Next, Queue!Enqueue
  <2>2. CASE queue_pop
    BY <2>2, PopKeeps DEF Queue!Next, Queue!Dequeue
  <2>3. CASE UNCHANGED vars
    BY <2>3 DEF vars, Queue!vars, Contents
  <2> QED  BY <2>1, <2>2, <2>3 DEF Next
<1> QED  BY <1>1, <1>2, Invariance, PTL DEF Spec, IsFifo, Queue!Spec

-----------------------------------------------------------------------------
(* The log.                                                                 *)

\* The members of a sequence, and that none occurs twice.
Members(s) == {s[i] : i \in 1..Len(s)}

Once(s) == \A i, j \in 1..Len(s) : s[i] = s[j] => i = j

\* Every buffer that was ever allocated is in the store, in the queue or lost,
\* in one of them, and once.
Kept(s, q, l, n) ==
    /\ Once(s) /\ Once(q)
    /\ Members(s) \cap Members(q) = {}
    /\ (Members(s) \cup Members(q)) \cap l = {}
    /\ Members(s) \cup Members(q) \cup l = 1..n

\* The same, with one more buffer in hand: b.
Spare(b, s, q, l, n) ==
    /\ Once(s) /\ Once(q)
    /\ Members(s) \cap Members(q) = {}
    /\ (Members(s) \cup Members(q)) \cap l = {}
    /\ b \notin Members(s) \cup Members(q) \cup l
    /\ Members(s) \cup Members(q) \cup l \cup {b} = 1..n

\* The lines of the buffers of q, and those of the lost buffers.
LinesOf(q, t) == [i \in 1..Len(q) |-> t[q[i]]]
LinesIn(l, t) == UNION {{t[b][k] : k \in DOMAIN t[b]} : b \in l}

\* A buffer that is neither queued nor lost holds nothing: extract_buffer gives
\* an empty one.
Blank(q, l, t) == \A b \in Element : b \notin Members(q) \cup l => t[b] = <<>>

\* all is the numbers from 1 to n in order, without those of gone.
Ordered(all, gone, n) ==
    /\ \A i \in 1..Len(all) : Len(all[i]) = 1
    /\ \A i, j \in 1..Len(all) : i < j => all[i][1] < all[j][1]
    /\ {all[i][1] : i \in 1..Len(all)} = (1..n) \ gone

\* The buffers there are after an extraction.
Used == IF Extracted > count THEN Extracted ELSE count

\* The types of what Log adds to the queue.
LogTypes ==
    /\ store \in Seq(Element) /\ count \in 0..MaxBuffers
    /\ ready \subseteq Element /\ lost \subseteq Element
    /\ text \in [Element -> Seq(Nat)] /\ lines \in Nat
    /\ file \in Seq(Seq(Nat))

\* The inductive invariant: the queue's, the types, each buffer in one place, the
\* queued ones initialised, the idle ones empty, and the lines in order.
LogInv ==
    /\ Inv /\ LogTypes
    /\ Kept(store, Contents, lost, count)
    /\ Members(Contents) \subseteq ready
    /\ Blank(Contents, lost, text)
    /\ LinesIn(lost, text) \subseteq 1..lines
    /\ Ordered(file \o LinesOf(Contents, text), LinesIn(lost, text), lines)

-----------------------------------------------------------------------------
(* The members of a sequence, and the lines of a sequence of buffers.       *)

\* r is s, of n elements, with b behind it.
Longer(r, s, b, n) ==
    /\ r = Append(s, b) /\ Len(r) = n + 1 /\ r[n + 1] = b
    /\ \A i \in 1..n : r[i] = s[i]

LEMMA AppendOf ==
    ASSUME NEW S, NEW s \in Seq(S), NEW b \in S, NEW n \in Nat, Len(s) = n
    PROVE  \E r \in Seq(S) : Longer(r, s, b, n)
<1> DEFINE r == Append(s, b)
<1>1. /\ r \in Seq(S) /\ Len(r) = n + 1 /\ r[n + 1] = b
      /\ \A i \in 1..n : r[i] = s[i]
  BY AppendProperties
<1>2. Longer(r, s, b, n)
  BY <1>1 DEF Longer
<1> QED  BY <1>1, <1>2

\* r is s, of n + 1 elements, without its first.
Shorter(r, s, n) ==
    /\ Len(s) = n + 1 /\ r = Tail(s) /\ Len(r) = n
    /\ \A i \in 1..n : r[i] = s[i + 1]

LEMMA TailOf ==
    ASSUME NEW S, NEW s \in Seq(S), s # <<>>
    PROVE  \E n \in Nat, r \in Seq(S) : Shorter(r, s, n)
<1>1. PICK k \in Nat \ {0} : k = Len(s)
  BY EmptySeq
<1>2. PICK r \in Seq(S) :
        r = Tail(s) /\ Len(r) = Len(s) - 1 /\ \A i \in 1..Len(r) : r[i] = s[i + 1]
  BY HeadTailProperties
<1>3. PICK n \in Nat : n = Len(r)
  BY LenProperties
<1>4. k = n + 1
  <2>1. n = k - 1
    BY <1>1, <1>2, <1>3
  <2> QED  BY <2>1
<1>5. Shorter(r, s, n)
  BY <1>1, <1>2, <1>3, <1>4 DEF Shorter
<1> QED  BY <1>5

LEMMA MembersAppend ==
    ASSUME NEW S, NEW s \in Seq(S), NEW b \in S
    PROVE  /\ Members(Append(s, b)) = Members(s) \cup {b}
           /\ Once(s) /\ b \notin Members(s) => Once(Append(s, b))
<1> DEFINE r == Append(s, b)
<1>1. PICK n \in Nat : n = Len(s)
  BY LenProperties
<1>2. Len(r) = n + 1 /\ r[n + 1] = b /\ \A i \in 1..n : r[i] = s[i]
  BY <1>1, AppendProperties
<1> HIDE DEF r
<1>3. \A e : e \in Members(r) <=> e \in Members(s) \/ e = b
  <2>1. \A i \in 1..(n + 1) : i \in 1..n \/ i = n + 1
    BY <1>1
  <2>2. 1..n \subseteq 1..(n + 1) /\ n + 1 \in 1..(n + 1)
    BY <1>1
  <2> QED  BY <2>1, <2>2, <1>1, <1>2 DEF Members
<1>4. ASSUME Once(s), b \notin Members(s) PROVE Once(r)
  <2> SUFFICES ASSUME NEW i \in 1..(n + 1), NEW j \in 1..(n + 1), r[i] = r[j]
               PROVE  i = j
    BY <1>2 DEF Once
  <2>1. (i \in 1..n \/ i = n + 1) /\ (j \in 1..n \/ j = n + 1)
    BY <1>1
  <2>2. \A k \in 1..n : r[k] # b
    BY <1>1, <1>2, <1>4 DEF Members
  <2>3. CASE i \in 1..n /\ j \in 1..n
    BY <2>3, <1>1, <1>2, <1>4 DEF Once
  <2> QED  BY <2>1, <2>2, <2>3, <1>2
<1>5. Members(r) = Members(s) \cup {b}
  BY <1>3
<1> QED  BY <1>4, <1>5 DEF r

LEMMA MembersTail ==
    ASSUME NEW S, NEW s \in Seq(S), s # <<>>
    PROVE  /\ Members(s) = {Head(s)} \cup Members(Tail(s))
           /\ Once(s) => Once(Tail(s)) /\ Head(s) \notin Members(Tail(s))
<1>1. PICK n \in Nat, r \in Seq(S) :
        /\ Len(s) = n + 1 /\ r = Tail(s) /\ Len(r) = n
        /\ \A i \in 1..n : r[i] = s[i + 1]
  BY TailOf DEF Shorter
<1>2. PICK b : b = Head(s) /\ b = s[1]
  OBVIOUS
<1>3. \A i \in 1..(n + 1) : i = 1 \/ \E j \in 1..n : i = j + 1
  <2> TAKE i \in 1..(n + 1)
  <2>1. i = 1 \/ (i - 1 \in 1..n /\ i = (i - 1) + 1)
    BY <1>1
  <2> QED  BY <2>1
<1>4. 1 \in 1..(n + 1) /\ \A j \in 1..n : j + 1 \in 1..(n + 1) /\ j + 1 # 1
  BY <1>1
<1>5. \A e : e \in Members(s) <=> e = b \/ e \in Members(r)
  <2>1. \A e : e \in Members(s) <=> \E i \in 1..(n + 1) : e = s[i]
    BY <1>1 DEF Members
  <2>2. \A e : e \in Members(r) <=> \E j \in 1..n : e = s[j + 1]
    BY <1>1 DEF Members
  <2>3. ASSUME NEW e PROVE e \in Members(s) => e = b \/ e \in Members(r)
    BY <2>1, <2>2, <1>2, <1>3
  <2>4. ASSUME NEW e PROVE e = b \/ e \in Members(r) => e \in Members(s)
    BY <2>1, <2>2, <1>2, <1>4
  <2> QED  BY <2>3, <2>4
<1>6. ASSUME Once(s) PROVE Once(r) /\ b \notin Members(r)
  <2>1. b \notin Members(r)
    BY <1>1, <1>2, <1>4, <1>6 DEF Members, Once
  <2>2. ASSUME NEW i \in 1..n, NEW j \in 1..n, r[i] = r[j] PROVE i = j
    <3>1. i + 1 = j + 1
      BY <2>2, <1>1, <1>2, <1>4, <1>6 DEF Once
    <3> QED  BY <3>1
  <2> QED  BY <2>1, <2>2, <1>1 DEF Once
<1>7. Members(s) = {b} \cup Members(r)
  BY <1>5
<1> QED  BY <1>1, <1>2, <1>6, <1>7

LEMMA MembersIn ==
    ASSUME NEW S, NEW s \in Seq(S)
    PROVE  Members(s) \subseteq S
  BY ElementOfSeq DEF Members

LEMMA MembersNone == Members(<<>>) = {} /\ Once(<<>>)
  BY EmptySeq DEF Members, Once

\* f holds, for each buffer of q, what t has for it.
Told(f, q, t) ==
    /\ f = LinesOf(q, t) /\ Len(f) = Len(q)
    /\ \A i \in 1..Len(q) : f[i] = t[q[i]]

LEMMA LinesTyped ==
    ASSUME NEW Line, NEW q \in Seq(Element), NEW t \in [Element -> Line]
    PROVE  \E f \in Seq(Line) : Told(f, q, t)
<1>1. PICK n \in Nat : n = Len(q)
  BY LenProperties
<1>2. \A i \in 1..n : t[q[i]] \in Line
  BY <1>1, ElementOfSeq
<1>3. [i \in 1..n |-> t[q[i]]] \in Seq(Line)
  BY <1>2, IsASeq
<1>4. Len([i \in 1..n |-> t[q[i]]]) = n
  BY <1>1
<1>5. PICK f \in Seq(Line) : f = LinesOf(q, t) /\ Len(f) = n /\ f = [i \in 1..n |-> t[q[i]]]
  BY <1>1, <1>3, <1>4 DEF LinesOf
<1>6. Told(f, q, t)
  BY <1>1, <1>5 DEF Told
<1> QED  BY <1>6

\* u and t tell the same of every buffer but b.
Agree(u, t, b) == \A c \in Element : c # b => u[c] = t[c]

\* What is written to a buffer outside the sequence does not show.
LEMMA LinesElsewhere ==
    ASSUME NEW q \in Seq(Element), NEW b \in Element, b \notin Members(q),
           NEW t, NEW u, Agree(u, t, b)
    PROVE  LinesOf(q, u) = LinesOf(q, t)
<1>1. \A i \in 1..Len(q) : q[i] \in Element /\ q[i] # b
  BY ElementOfSeq DEF Members
<1>2. \A i \in 1..Len(q) : u[q[i]] = t[q[i]]
  BY <1>1 DEF Agree
<1> QED  BY <1>2 DEF LinesOf

LEMMA LinesAppend ==
    ASSUME NEW Line, NEW q \in Seq(Element), NEW t \in [Element -> Line], NEW b \in Element
    PROVE  LinesOf(Append(q, b), t) = Append(LinesOf(q, t), t[b])
<1>1. PICK n \in Nat : n = Len(q)
  BY LenProperties
<1>2. PICK r \in Seq(Element) : Longer(r, q, b, n)
  BY <1>1, AppendOf
<1>3. PICK g \in Seq(Line) : Told(g, q, t)
  BY LinesTyped
<1>4. PICK f \in Seq(Line) : Told(f, r, t)
  BY LinesTyped
<1>5. PICK v \in Line : v = t[b]
  OBVIOUS
<1>6. Len(g) = n
  BY <1>1, <1>3 DEF Told
<1>7. PICK a \in Seq(Line) : Longer(a, g, v, n)
  BY <1>6, AppendOf
<1>8. Len(f) = n + 1 /\ Len(a) = n + 1
  BY <1>2, <1>4, <1>7 DEF Longer, Told
<1>9. \A i \in 1..(n + 1) : f[i] = a[i]
  <2> TAKE i \in 1..(n + 1)
  <2>1. i \in 1..n \/ i = n + 1
    BY <1>1
  <2>2. f[i] = t[r[i]]
    BY <1>2, <1>4 DEF Told, Longer
  <2>3. CASE i \in 1..n
    <3>1. r[i] = q[i] /\ a[i] = g[i]
      BY <2>3, <1>2, <1>7 DEF Longer
    <3>2. g[i] = t[q[i]]
      BY <2>3, <1>1, <1>3 DEF Told
    <3> QED  BY <2>2, <3>1, <3>2
  <2>4. CASE i = n + 1
    BY <2>2, <2>4, <1>2, <1>5, <1>7 DEF Longer
  <2> QED  BY <2>1, <2>3, <2>4
<1>10. f = a
  BY <1>8, <1>9, SeqEqual
<1> QED  BY <1>2, <1>3, <1>4, <1>5, <1>7, <1>10 DEF Longer, Told

LEMMA LinesTail ==
    ASSUME NEW Line, NEW q \in Seq(Element), NEW t \in [Element -> Line], q # <<>>
    PROVE  /\ LinesOf(q, t) \in Seq(Line) /\ LinesOf(q, t) # <<>>
           /\ Head(LinesOf(q, t)) = t[Head(q)]
           /\ Tail(LinesOf(q, t)) = LinesOf(Tail(q), t)
<1>1. PICK n \in Nat, r \in Seq(Element) : Shorter(r, q, n)
  BY TailOf
<1>2. PICK g \in Seq(Line) : Told(g, q, t)
  BY LinesTyped
<1>3. PICK f \in Seq(Line) : Told(f, r, t)
  BY LinesTyped
<1>4. Len(g) = n + 1 /\ Len(f) = n
  BY <1>1, <1>2, <1>3 DEF Shorter, Told
<1>5. g # <<>>
  BY <1>4, EmptySeq
<1>6. PICK m \in Nat, h \in Seq(Line) : Shorter(h, g, m)
  BY <1>5, TailOf
<1>7. m = n /\ Len(h) = n
  BY <1>4, <1>6 DEF Shorter
<1>8. \A i \in 1..n : i + 1 \in 1..(n + 1)
  BY <1>1
<1>9. \A i \in 1..n : h[i] = f[i]
  <2> TAKE i \in 1..n
  <2>1. h[i] = g[i + 1]
    BY <1>6, <1>7 DEF Shorter
  <2>2. g[i + 1] = t[q[i + 1]]
    BY <1>1, <1>2, <1>8 DEF Told, Shorter
  <2>3. q[i + 1] = r[i]
    BY <1>1 DEF Shorter
  <2>4. f[i] = t[r[i]]
    BY <1>1, <1>3 DEF Told, Shorter
  <2> QED  BY <2>1, <2>2, <2>3, <2>4
<1>10. h = f
  BY <1>4, <1>7, <1>9, SeqEqual
<1>11. Head(g) = t[Head(q)]
  <2>1. 1 \in 1..(n + 1)
    BY <1>1
  <2>2. g[1] = t[q[1]]
    BY <2>1, <1>1, <1>2 DEF Told, Shorter
  <2> QED  BY <2>2
<1> QED  BY <1>1, <1>2, <1>3, <1>5, <1>6, <1>10, <1>11 DEF Shorter, Told

\* What is written to buffers that are not lost does not show either.
LEMMA LostElsewhere ==
    ASSUME NEW l \in SUBSET Element, NEW b \in Element, b \notin l,
           NEW t, NEW u, Agree(u, t, b)
    PROVE  LinesIn(l, u) = LinesIn(l, t)
<1>1. \A c \in l : u[c] = t[c]
  BY DEF Agree
<1>2. \A e : e \in LinesIn(l, u) <=> e \in LinesIn(l, t)
  BY <1>1 DEF LinesIn
<1> QED  BY <1>2

\* m has the lines of l and the number n.
OneMore(m, l, t, n) == LinesIn(m, t) = LinesIn(l, t) \cup {n}

LEMMA LostMore ==
    ASSUME NEW l \in SUBSET Element, NEW m \in SUBSET Element, NEW b \in Element,
           NEW t, NEW n \in Nat, m = l \cup {b}, Len(t[b]) = 1, t[b] \in Seq(Nat),
           t[b][1] = n
    PROVE  OneMore(m, l, t, n)
<1>1. DOMAIN t[b] = {1}
  BY LenProperties
<1>2. \A e : e \in LinesIn(m, t) <=> e \in LinesIn(l, t) \/ e = n
  BY <1>1 DEF LinesIn
<1>3. LinesIn(m, t) = LinesIn(l, t) \cup {n}
  BY <1>2
<1> QED  BY <1>3 DEF OneMore

-----------------------------------------------------------------------------
(* The order of the lines.                                                  *)

\* Passing the first line of the queue to the file leaves the whole as it is.
LEMMA Passed ==
    ASSUME NEW S, NEW f \in Seq(S), NEW g \in Seq(S), g # <<>>
    PROVE  Append(f, Head(g)) \o Tail(g) = f \o g
<1>1. PICK a \in S : a = Head(g)
  BY HeadTailProperties
<1>2. PICK h \in Seq(S) : h = Tail(g) /\ Len(h) = Len(g) - 1
                           /\ \A i \in 1..Len(h) : h[i] = g[i + 1]
  BY HeadTailProperties
<1>3. <<a>> \in Seq(S)
  OBVIOUS
<1>4. Append(f, a) = f \o <<a>>
  BY AppendIsConcat
<1>5. (f \o <<a>>) \o h = f \o (<<a>> \o h)
  BY <1>3, ConcatAssociative
<1>6. <<a>> \o h = g
  <2>1. Len(g) \in Nat \ {0} /\ Len(h) \in Nat
    BY EmptySeq, LenProperties
  <2>2. /\ <<a>> \o h \in Seq(S) /\ Len(<<a>> \o h) = 1 + Len(h)
        /\ \A i \in 1..(1 + Len(h)) :
             (<<a>> \o h)[i] = IF i <= 1 THEN <<a>>[i] ELSE h[i - 1]
    <3>1. Len(<<a>>) = 1
      OBVIOUS
    <3> QED  BY <3>1, <1>3, ConcatProperties
  <2>3. 1 + Len(h) = Len(g)
    BY <2>1, <1>2
  <2>4. \A i \in 1..Len(g) : (<<a>> \o h)[i] = g[i]
    <3> TAKE i \in 1..Len(g)
    <3>1. CASE i = 1
      BY <3>1, <2>2, <2>3, <1>1
    <3>2. CASE i # 1
      <4>1. i - 1 \in 1..Len(h) /\ ~(i <= 1) /\ (i - 1) + 1 = i
        BY <3>2, <2>1, <2>3
      <4> QED  BY <4>1, <2>2, <2>3, <1>2
    <3> QED  BY <3>1, <3>2
  <2> QED  BY <2>2, <2>3, <2>4, SeqEqual
<1> QED  BY <1>1, <1>2, <1>4, <1>5, <1>6

LEMMA Behind ==
    ASSUME NEW S, NEW f \in Seq(S), NEW g \in Seq(S), NEW x \in S
    PROVE  g \o Append(f, x) = Append(g \o f, x)
<1>1. <<x>> \in Seq(S)
  OBVIOUS
<1>2. Append(f, x) = f \o <<x>>
  BY AppendIsConcat
<1>3. (g \o f) \o <<x>> = g \o (f \o <<x>>)
  BY <1>1, ConcatAssociative
<1>4. g \o f \in Seq(S)
  BY ConcatProperties
<1>5. Append(g \o f, x) = (g \o f) \o <<x>>
  BY <1>4, AppendIsConcat
<1> QED  BY <1>2, <1>3, <1>5

\* A line that is accepted is behind the others.
LEMMA OrderedAppend ==
    ASSUME NEW Line, NEW all \in Seq(Line), NEW n \in Nat, NEW gone \in SUBSET (1..n),
           Ordered(all, gone, n), NEW v \in Line, Len(v) = 1, v[1] = n + 1
    PROVE  Ordered(Append(all, v), gone, n + 1)
<1>1. PICK k \in Nat : k = Len(all)
  BY LenProperties
<1>3. PICK a \in Seq(Line) :
        /\ a = Append(all, v) /\ Len(a) = k + 1
        /\ a[k + 1] = v /\ \A i \in 1..k : a[i] = all[i]
  <2>1. PICK a \in Seq(Line) : Longer(a, all, v, k)
    BY <1>1, AppendOf
  <2> QED  BY <2>1 DEF Longer
<1>4. \A i \in 1..(k + 1) : i \in 1..k \/ i = k + 1
  BY <1>1
<1>5. 1..k \subseteq 1..(k + 1) /\ k + 1 \in 1..(k + 1)
  BY <1>1
<1>6. \A i \in 1..k : Len(a[i]) = 1 /\ a[i][1] \in 1..n /\ a[i][1] \notin gone
  BY <1>1, <1>3 DEF Ordered
<1>7. \A i \in 1..(k + 1) : Len(a[i]) = 1
  BY <1>3, <1>4, <1>6
<1>8. ASSUME NEW i \in 1..(k + 1), NEW j \in 1..(k + 1), i < j PROVE a[i][1] < a[j][1]
  <2>1. i \in 1..k
    BY <1>8, <1>1
  <2>2. CASE j \in 1..k
    <3>1. all[i][1] < all[j][1]
      BY <2>1, <2>2, <1>1, <1>8 DEF Ordered
    <3> QED  BY <3>1, <2>1, <2>2, <1>3
  <2>3. CASE j = k + 1
    <3>1. a[i][1] \in 1..n /\ a[j][1] = n + 1
      BY <2>1, <2>3, <1>3, <1>6
    <3> QED  BY <3>1
  <2> QED  BY <2>2, <2>3, <1>4
<1>9. \A e : e \in {a[i][1] : i \in 1..(k + 1)} <=> e \in (1..(n + 1)) \ gone
  <2>1. \A e : e \in {all[i][1] : i \in 1..k} <=> e \in (1..n) \ gone
    BY <1>1 DEF Ordered
  <2>2. \A e : e \in 1..(n + 1) <=> e \in 1..n \/ e = n + 1
    OBVIOUS
  <2>3. n + 1 \notin gone
    OBVIOUS
  <2>4. \A e : e \in {a[i][1] : i \in 1..(k + 1)} <=> e \in {all[i][1] : i \in 1..k} \/ e = n + 1
    BY <1>3, <1>4, <1>5
  <2> QED  BY <2>1, <2>2, <2>3, <2>4
<1>10. {a[i][1] : i \in 1..(k + 1)} = (1..(n + 1)) \ gone
  BY <1>9
<1>11. Ordered(a, gone, n + 1)
  BY <1>3, <1>7, <1>8, <1>10 DEF Ordered
<1> QED  BY <1>3, <1>11

\* A line that is lost leaves a gap.
LEMMA OrderedGap ==
    ASSUME NEW all, NEW n \in Nat, NEW gone \in SUBSET (1..n), Ordered(all, gone, n)
    PROVE  Ordered(all, gone \cup {n + 1}, n + 1)
<1>1. \A e : e \in (1..(n + 1)) \ (gone \cup {n + 1}) <=> e \in (1..n) \ gone
  OBVIOUS
<1>2. (1..(n + 1)) \ (gone \cup {n + 1}) = (1..n) \ gone
  BY <1>1
<1> QED  BY <1>2 DEF Ordered

-----------------------------------------------------------------------------
(* Taking a buffer in hand and putting it down.                             *)

LEMMA Taken ==
    ASSUME NEW S, NEW s \in Seq(S), NEW q \in Seq(S), NEW l \in SUBSET S, NEW n \in Nat,
           Kept(s, q, l, n)
    PROVE  /\ s # <<>> => Spare(Head(s), Tail(s), q, l, n)
           /\ q # <<>> => Spare(Head(q), s, Tail(q), l, n)
           /\ Spare(n + 1, s, q, l, n + 1)
<1>1. ASSUME s # <<>> PROVE Spare(Head(s), Tail(s), q, l, n)
  <2>1. /\ Members(s) = {Head(s)} \cup Members(Tail(s))
        /\ Once(s) => Once(Tail(s)) /\ Head(s) \notin Members(Tail(s))
    BY <1>1, MembersTail
  <2> QED  BY <2>1 DEF Kept, Spare
<1>2. ASSUME q # <<>> PROVE Spare(Head(q), s, Tail(q), l, n)
  <2>1. /\ Members(q) = {Head(q)} \cup Members(Tail(q))
        /\ Once(q) => Once(Tail(q)) /\ Head(q) \notin Members(Tail(q))
    BY <1>2, MembersTail
  <2> QED  BY <2>1 DEF Kept, Spare
<1>3. Spare(n + 1, s, q, l, n + 1)
  <2>1. n + 1 \notin 1..n /\ (1..n) \cup {n + 1} = 1..(n + 1)
    OBVIOUS
  <2> QED  BY <2>1 DEF Kept, Spare
<1> QED  BY <1>1, <1>2, <1>3

LEMMA PutDown ==
    ASSUME NEW S, NEW s \in Seq(S), NEW q \in Seq(S), NEW l \in SUBSET S, NEW n \in Nat,
           NEW b \in S, Spare(b, s, q, l, n)
    PROVE  /\ Kept(Append(s, b), q, l, n)
           /\ Kept(s, Append(q, b), l, n)
           /\ Kept(s, q, l \cup {b}, n)
<1>1. /\ Members(Append(s, b)) = Members(s) \cup {b}
      /\ Once(s) /\ b \notin Members(s) => Once(Append(s, b))
  BY MembersAppend
<1>2. /\ Members(Append(q, b)) = Members(q) \cup {b}
      /\ Once(q) /\ b \notin Members(q) => Once(Append(q, b))
  BY MembersAppend
<1>3. Kept(Append(s, b), q, l, n)
  BY <1>1 DEF Kept, Spare
<1>4. Kept(s, Append(q, b), l, n)
  BY <1>2 DEF Kept, Spare
<1>5. Kept(s, q, l \cup {b}, n)
  BY DEF Kept, Spare
<1> QED  BY <1>3, <1>4, <1>5

\* extract_buffer gives a buffer that nothing holds, and an empty one
\* (buffer.c:155-175, store.c:31-57).
LEMMA Extracting ==
    ASSUME LogInv, CanExtract
    PROVE  /\ Extracted \in Element /\ text[Extracted] = <<>>
           /\ StoreLeft \in Seq(Element) /\ Used \in 0..MaxBuffers
           /\ Spare(Extracted, StoreLeft, Contents, lost, Used)
<1>1. /\ store \in Seq(Element) /\ Contents \in Seq(Element) /\ lost \in SUBSET Element
      /\ count \in Nat /\ count <= MaxBuffers /\ MaxBuffers \in Nat
      /\ Kept(store, Contents, lost, count)
  BY ContentsListed, LogAssumption DEF LogInv, LogTypes
<1>2. CASE store # <<>>
  <2>1. Extracted = Head(store) /\ StoreLeft = Tail(store)
    BY <1>2 DEF Extracted, StoreLeft
  <2>2. Head(store) \in Element /\ Tail(store) \in Seq(Element)
    BY <1>1, <1>2, HeadTailProperties
  <2>3. Spare(Head(store), Tail(store), Contents, lost, count)
    BY <1>1, <1>2, Taken
  <2>4. Head(store) \in 1..count
    BY <2>3 DEF Spare
  <2>5. Used = count
    BY <2>1, <2>4, <1>1 DEF Used
  <2> QED  BY <2>1, <2>2, <2>3, <2>5, <1>1 DEF LogInv, Blank, Spare
<1>3. CASE store = <<>>
  <2>1. Extracted = count + 1 /\ StoreLeft = store /\ count < MaxBuffers
    BY <1>3 DEF Extracted, StoreLeft, CanExtract
  <2>2. count + 1 \in Element
    BY <2>1, <1>1, LogAssumption
  <2>3. Spare(count + 1, store, Contents, lost, count + 1)
    BY <1>1, Taken
  <2>4. Used = count + 1
    BY <2>1, <1>1 DEF Used
  <2>5. count + 1 \in 0..MaxBuffers
    BY <2>1, <1>1
  <2>6. text[count + 1] = <<>>
    BY <2>2, <2>3 DEF LogInv, Blank, Spare
  <2> QED  BY <2>1, <2>2, <2>3, <2>4, <2>5, <2>6, <1>1
<1> QED  BY <1>2, <1>3

-----------------------------------------------------------------------------
(* The steps.                                                               *)

LEMMA RestQueue ==
    ASSUME UNCHANGED vars
    PROVE  (Inv => Inv') /\ Contents' = Contents
  BY DEF vars, Inv, TypeOK, IndexesAgree, Occupied, Contents

LEMMA StartsKept == LogInit => LogInv
<1> SUFFICES ASSUME LogInit PROVE LogInv
  OBVIOUS
<1>1. Inv /\ Contents = <<>>
  BY InitInv DEF LogInit
<1>2. /\ store = <<>> /\ count = 0 /\ ready = {} /\ lost = {}
      /\ text = [b \in Element |-> <<>>] /\ lines = 0 /\ file = <<>>
  BY DEF LogInit
<1>3. LogTypes
  <2>1. <<>> \in Seq(Element) /\ <<>> \in Seq(Seq(Nat)) /\ <<>> \in Seq(Nat)
    BY EmptySeq
  <2> QED  BY <2>1, <1>2, LogAssumption DEF LogTypes
<1>4. Kept(<<>>, <<>>, {}, 0)
  <2>1. 1..0 = {}
    OBVIOUS
  <2> QED  BY <2>1, MembersNone DEF Kept
<1>5. Blank(<<>>, {}, text)
  BY <1>2 DEF Blank
<1>6. LinesIn({}, text) = {}
  BY DEF LinesIn
<1>7. PICK f \in Seq(Seq(Nat)) : f = <<>> /\ f = LinesOf(<<>>, text)
  <2>1. PICK q \in Seq(Element) : q = <<>> /\ Len(q) = 0
    BY EmptySeq
  <2>2. text \in [Element -> Seq(Nat)]
    BY <1>3 DEF LogTypes
  <2>3. PICK f \in Seq(Seq(Nat)) : Told(f, q, text)
    BY <2>2, LinesTyped
  <2>4. f = LinesOf(q, text) /\ Len(f) = 0
    BY <2>1, <2>3 DEF Told
  <2>5. f = <<>>
    BY <2>4, EmptySeq
  <2> QED  BY <2>1, <2>4, <2>5
<1>8. <<>> \o f = <<>>
  BY <1>7, ConcatEmptySeq
<1>9. Ordered(<<>>, {}, 0)
  BY EmptySeq DEF Ordered
<1> QED  BY <1>1, <1>2, <1>3, <1>4, <1>5, <1>6, <1>7, <1>8, <1>9, MembersNone DEF LogInv

\* The new buffer that cannot be initialised goes to the store, empty.
LEMMA RefusedKeeps ==
    ASSUME LogInv, AddRefused
    PROVE  LogInv'
<1>1. /\ Extracted \in Element /\ StoreLeft \in Seq(Element) /\ Used \in 0..MaxBuffers
      /\ Spare(Extracted, StoreLeft, Contents, lost, Used)
  BY Extracting DEF AddRefused
<1>2. /\ store' = Append(StoreLeft, Extracted) /\ count' = Used
      /\ ready' = ready /\ text' = text /\ lost' = lost /\ lines' = lines /\ file' = file
  BY DEF AddRefused, Used
<1>3. Inv' /\ Contents' = Contents
  BY RestQueue DEF AddRefused, LogInv
<1>4. Contents \in Seq(Element) /\ lost \in SUBSET Element /\ Used \in Nat
  BY <1>1, ContentsListed, LogAssumption DEF LogInv, LogTypes
<1>5. Kept(Append(StoreLeft, Extracted), Contents, lost, Used)
  BY <1>1, <1>4, PutDown
<1>6. Append(StoreLeft, Extracted) \in Seq(Element)
  BY <1>1, AppendProperties
<1>7. LogTypes'
  BY <1>1, <1>2, <1>6 DEF LogInv, LogTypes
<1> QED  BY <1>2, <1>3, <1>5, <1>7 DEF LogInv

\* The line is queued with its buffer, or lost with it when the table cannot
\* grow (log.c, queue.c:43-74).
LEMMA AddKeeps ==
    ASSUME LogInv, Add
    PROVE  LogInv'
<1>1. PICK b \in Element : b = Extracted
  BY Extracting DEF Add
<1>2. /\ text[b] = <<>> /\ StoreLeft \in Seq(Element) /\ Used \in 0..MaxBuffers
      /\ Spare(b, StoreLeft, Contents, lost, Used)
  BY <1>1, Extracting DEF Add
<1>3. PICK n \in Nat : n = lines
  BY DEF LogInv, LogTypes
<1>4. PICK x \in Seq(Nat) : x = <<n + 1>> /\ Len(x) = 1 /\ x[1] = n + 1
  <2>1. n + 1 \in Nat
    OBVIOUS
  <2>2. <<n + 1>> \in Seq(Nat)
    BY <2>1
  <2> QED  BY <2>2
<1>5. PICK t \in [Element -> Seq(Nat)] : t = text
  BY DEF LogInv, LogTypes
<1>6. PICK u \in [Element -> Seq(Nat)] :
        u = [t EXCEPT ![b] = x] /\ u[b] = x /\ Agree(u, t, b)
  <2> DEFINE u == [t EXCEPT ![b] = x]
  <2>1. u \in [Element -> Seq(Nat)] /\ u[b] = x
    BY <1>5
  <2>2. Agree(u, t, b)
    BY DEF Agree
  <2> HIDE DEF u
  <2>3. u = [t EXCEPT ![b] = x]
    BY DEF u
  <2> QED  BY <2>1, <2>2, <2>3
<1>7. text' = u
  <2>1. text' = [text EXCEPT ![b] = Append(text[b], n + 1)]
    BY <1>1, <1>3 DEF Add
  <2>2. Append(text[b], n + 1) = x
    BY <1>2, <1>4
  <2> QED  BY <2>1, <2>2, <1>5, <1>6
<1>8. /\ store' = StoreLeft /\ count' = Used /\ ready' = ready \cup {b}
      /\ lines' = n + 1 /\ file' = file /\ Push(b)
  BY <1>1, <1>3 DEF Add, Used
<1>9. PICK q \in Seq(Element) : q = Contents
  BY ContentsListed DEF LogInv
<1>10. PICK l \in SUBSET Element : l = lost
  BY DEF LogInv, LogTypes
<1>11. b \notin Members(q) /\ b \notin l
  BY <1>2, <1>9, <1>10 DEF Spare
<1>12. PICK m \in Nat, s \in Seq(Element) :
        m = Used /\ s = StoreLeft /\ Spare(b, s, q, l, m)
  BY <1>2, <1>9, <1>10, LogAssumption
<1>13. LinesOf(q, u) = LinesOf(q, t) /\ LinesIn(l, u) = LinesIn(l, t)
  <2>1. LinesOf(q, u) = LinesOf(q, t)
    BY <1>6, <1>11, LinesElsewhere
  <2>2. LinesIn(l, u) = LinesIn(l, t)
    BY <1>6, <1>11, LostElsewhere
  <2> QED  BY <2>1, <2>2
<1>14. PICK all \in Seq(Seq(Nat)) : all = file \o LinesOf(q, t)
  <2>1. PICK f \in Seq(Seq(Nat)) : f = LinesOf(q, t)
    BY LinesTyped DEF Told
  <2>2. file \in Seq(Seq(Nat))
    BY DEF LogInv, LogTypes
  <2> QED  BY <2>1, <2>2, ConcatProperties
<1>15. PICK gone \in SUBSET (1..n) : gone = LinesIn(l, t)
  BY <1>3, <1>5, <1>10 DEF LogInv
<1>16. Ordered(all, gone, n)
  BY <1>3, <1>5, <1>9, <1>10, <1>14, <1>15 DEF LogInv
<1>17. ASSUME NEW c \in Element, c # b, c \notin Members(q) \cup l PROVE u[c] = <<>>
  <2>1. t[c] = <<>>
    BY <1>5, <1>9, <1>10, <1>17 DEF LogInv, Blank
  <2> QED  BY <2>1, <1>6, <1>17
<1>18. CASE queue_push(b) /\ UNCHANGED lost
  <2>1. Inv' /\ Contents' = Append(q, b)
    BY <1>9, <1>18, PushKeeps DEF LogInv
  <2>2. /\ Kept(StoreLeft, Append(q, b), l, Used)
        /\ Members(Append(q, b)) = Members(q) \cup {b}
    <3>1. Kept(s, Append(q, b), l, m)
      BY <1>12, PutDown
    <3>2. Members(Append(q, b)) = Members(q) \cup {b}
      BY MembersAppend
    <3> QED  BY <3>1, <3>2, <1>12
  <2>3. Blank(Append(q, b), l, u)
    BY <2>2, <1>17 DEF Blank
  <2>4. LinesOf(Append(q, b), u) = Append(LinesOf(q, t), x)
    <3>1. LinesOf(Append(q, b), u) = Append(LinesOf(q, u), u[b])
      BY LinesAppend
    <3> QED  BY <3>1, <1>6, <1>13
  <2>5. file \o Append(LinesOf(q, t), x) = Append(all, x)
    <3>1. PICK f \in Seq(Seq(Nat)) : f = LinesOf(q, t)
      BY LinesTyped DEF Told
    <3>2. PICK g \in Seq(Seq(Nat)) : g = file
      BY DEF LogInv, LogTypes
    <3>3. g \o Append(f, x) = Append(g \o f, x)
      BY Behind
    <3> QED  BY <3>1, <3>2, <3>3, <1>14
  <2>6. Ordered(Append(all, x), gone, n + 1)
    BY <1>4, <1>16, OrderedAppend
  <2>7. gone \subseteq 1..(n + 1)
    OBVIOUS
  <2>8. lost' = l
    BY <1>10, <1>18
  <2>9. Members(q) \subseteq ready /\ ready \subseteq Element
    BY <1>9 DEF LogInv, LogTypes
  <2>10. LogTypes'
    <3>1. store' \in Seq(Element) /\ count' \in 0..MaxBuffers
      BY <1>2, <1>8
    <3>2. ready' \subseteq Element /\ lost' \subseteq Element
      BY <2>8, <2>9, <1>8
    <3>3. text' \in [Element -> Seq(Nat)] /\ lines' \in Nat
      BY <1>7, <1>8
    <3>4. file' \in Seq(Seq(Nat))
      BY <1>8 DEF LogInv, LogTypes
    <3> QED  BY <3>1, <3>2, <3>3, <3>4 DEF LogTypes
  <2>11. LinesIn(l, u) = gone /\ LinesOf(Append(q, b), u) = Append(LinesOf(q, t), x)
    BY <2>4, <1>13, <1>15
  <2>12. Ordered(file' \o LinesOf(Contents', text'), LinesIn(lost', text'), lines')
    BY <2>1, <2>5, <2>6, <2>8, <2>11, <1>7, <1>8
  <2>13. /\ Kept(store', Contents', lost', count') /\ Blank(Contents', lost', text')
         /\ Members(Contents') \subseteq ready' /\ LinesIn(lost', text') \subseteq 1..lines'
    BY <2>1, <2>2, <2>3, <2>7, <2>8, <2>9, <2>11, <1>7, <1>8
  <2> QED  BY <2>1, <2>10, <2>12, <2>13 DEF LogInv
<1>19. CASE lost' = lost \cup {b} /\ UNCHANGED vars
  <2>1. Inv' /\ Contents' = q
    BY <1>9, <1>19, RestQueue DEF LogInv
  <2>2. Kept(StoreLeft, q, l \cup {b}, Used)
    <3>1. Kept(s, q, l \cup {b}, m)
      BY <1>12, PutDown
    <3> QED  BY <3>1, <1>12
  <2>3. Blank(q, l \cup {b}, u)
    BY <1>17 DEF Blank
  <2>4. LinesIn(l \cup {b}, u) = gone \cup {n + 1}
    <3>1. PICK k \in Nat : k = n + 1
      OBVIOUS
    <3>2. l \cup {b} \in SUBSET Element
      OBVIOUS
    <3>3. PICK more \in SUBSET Element : more = l \cup {b}
      BY <3>2
    <3>4. OneMore(more, l, u, k)
      BY <3>1, <3>3, <1>4, <1>6, LostMore
    <3> QED  BY <3>1, <3>3, <3>4, <1>13, <1>15 DEF OneMore
  <2>5. Ordered(all, gone \cup {n + 1}, n + 1)
    BY <1>16, OrderedGap
  <2>6. gone \cup {n + 1} \subseteq 1..(n + 1)
    OBVIOUS
  <2>7. lost' = l \cup {b}
    BY <1>10, <1>19
  <2>8. Members(q) \subseteq ready /\ ready \subseteq Element
    BY <1>9 DEF LogInv, LogTypes
  <2>9. LogTypes'
    <3>1. store' \in Seq(Element) /\ count' \in 0..MaxBuffers
      BY <1>2, <1>8
    <3>2. ready' \subseteq Element /\ lost' \subseteq Element
      BY <2>7, <2>8, <1>8
    <3>3. text' \in [Element -> Seq(Nat)] /\ lines' \in Nat
      BY <1>7, <1>8
    <3>4. file' \in Seq(Seq(Nat))
      BY <1>8 DEF LogInv, LogTypes
    <3> QED  BY <3>1, <3>2, <3>3, <3>4 DEF LogTypes
  <2>10. Ordered(file' \o LinesOf(Contents', text'), LinesIn(lost', text'), lines')
    BY <2>1, <2>4, <2>5, <2>7, <1>7, <1>8, <1>13, <1>14
  <2>11. /\ Kept(store', Contents', lost', count') /\ Blank(Contents', lost', text')
         /\ Members(Contents') \subseteq ready' /\ LinesIn(lost', text') \subseteq 1..lines'
    BY <2>1, <2>2, <2>3, <2>4, <2>6, <2>7, <2>8, <1>7, <1>8
  <2> QED  BY <2>1, <2>9, <2>10, <2>11 DEF LogInv
<1> QED  BY <1>8, <1>18, <1>19 DEF Push

\* write_log passes the oldest line to the file and gives its buffer back, empty
\* (log.c, buffer.c:177-185).
LEMMA WriteKeeps ==
    ASSUME LogInv, Write
    PROVE  LogInv'
<1>1. PICK q \in Seq(Element) : q = Contents
  BY ContentsListed DEF LogInv
<1>2. /\ Inv' /\ q # <<>> /\ Contents' = Tail(q) /\ Head(q) = table[head]
  BY <1>1, PopKeeps DEF Write, LogInv, queue_pop
<1>3. PICK b \in Element, r \in Seq(Element) : b = Head(q) /\ r = Tail(q)
  BY <1>2, HeadTailProperties
<1>4. PICK n \in Nat, s \in Seq(Element), l \in SUBSET Element :
        n = count /\ s = store /\ l = lost /\ Spare(b, s, r, l, n)
  <2>1. /\ count \in Nat /\ store \in Seq(Element) /\ lost \in SUBSET Element
        /\ Kept(store, q, lost, count)
    BY <1>1, LogAssumption DEF LogInv, LogTypes
  <2>2. Spare(Head(q), store, Tail(q), lost, count)
    BY <2>1, <1>2, Taken
  <2> QED  BY <2>1, <2>2, <1>3
<1>5. PICK t \in [Element -> Seq(Nat)] : t = text
  BY DEF LogInv, LogTypes
<1>6. PICK u \in [Element -> Seq(Nat)] :
        u = [t EXCEPT ![b] = <<>>] /\ u[b] = <<>> /\ Agree(u, t, b)
  <2> DEFINE u == [t EXCEPT ![b] = <<>>]
  <2>1. <<>> \in Seq(Nat)
    BY EmptySeq
  <2>2. u \in [Element -> Seq(Nat)] /\ u[b] = <<>>
    BY <2>1, <1>5
  <2>3. Agree(u, t, b)
    BY DEF Agree
  <2> HIDE DEF u
  <2>4. u = [t EXCEPT ![b] = <<>>]
    BY DEF u
  <2> QED  BY <2>2, <2>3, <2>4
<1>7. PICK f \in Seq(Seq(Nat)) : f = file
  BY DEF LogInv, LogTypes
<1>8. /\ file' = Append(f, t[b]) /\ store' = Append(s, b) /\ text' = u
      /\ count' = n /\ ready' = ready /\ lost' = l /\ lines' = lines
  BY <1>2, <1>3, <1>4, <1>5, <1>6, <1>7 DEF Write, Recycle
<1>9. Kept(Append(s, b), r, l, n)
  BY <1>4, PutDown
<1>10. b \notin Members(r) /\ b \notin l
  BY <1>4 DEF Spare
<1>11. LinesOf(r, u) = LinesOf(r, t)
  BY <1>6, <1>10, LinesElsewhere
<1>12. LinesIn(l, u) = LinesIn(l, t)
  BY <1>6, <1>10, LostElsewhere
<1>13. PICK g \in Seq(Seq(Nat)) :
         g = LinesOf(q, t) /\ g # <<>> /\ Head(g) = t[b] /\ Tail(g) = LinesOf(r, t)
  <2>1. /\ LinesOf(q, t) \in Seq(Seq(Nat)) /\ LinesOf(q, t) # <<>>
        /\ Head(LinesOf(q, t)) = t[Head(q)]
        /\ Tail(LinesOf(q, t)) = LinesOf(Tail(q), t)
    BY <1>2, LinesTail
  <2> QED  BY <2>1, <1>3
<1>14. Append(f, Head(g)) \o Tail(g) = f \o g
  BY <1>13, Passed
<1>15. file' \o LinesOf(Contents', text') = file \o LinesOf(Contents, text)
  BY <1>1, <1>2, <1>3, <1>5, <1>7, <1>8, <1>11, <1>13, <1>14
<1>16. LinesIn(lost', text') = LinesIn(lost, text)
  BY <1>4, <1>5, <1>8, <1>12
<1>17. Members(q) = {b} \cup Members(r)
  BY <1>2, <1>3, MembersTail
<1>18. Blank(r, l, u)
  <2> SUFFICES ASSUME NEW c \in Element, c \notin Members(r) \cup l PROVE u[c] = <<>>
    BY DEF Blank
  <2>1. CASE c = b
    BY <2>1, <1>6
  <2>2. CASE c # b
    <3>1. u[c] = t[c]
      BY <2>2, <1>6 DEF Agree
    <3>2. c \notin Members(q) \cup l
      BY <2>2, <1>17
    <3>3. t[c] = <<>>
      BY <3>2, <1>1, <1>4, <1>5 DEF LogInv, Blank
    <3> QED  BY <3>1, <3>3
  <2> QED  BY <2>1, <2>2
<1>19. LogTypes'
  <2>1. file' \in Seq(Seq(Nat))
    <3>1. PICK v \in Seq(Nat) : v = t[b]
      OBVIOUS
    <3>2. Append(f, v) \in Seq(Seq(Nat))
      BY AppendProperties
    <3> QED  BY <3>1, <3>2, <1>8
  <2>2. store' \in Seq(Element)
    BY <1>8, AppendProperties
  <2>3. count' \in 0..MaxBuffers /\ ready' \subseteq Element /\ lost' \subseteq Element
    BY <1>4, <1>8 DEF LogInv, LogTypes
  <2>4. text' \in [Element -> Seq(Nat)] /\ lines' \in Nat
    BY <1>8 DEF LogInv, LogTypes
  <2> QED  BY <2>1, <2>2, <2>3, <2>4 DEF LogTypes
<1>20. Kept(store', Contents', lost', count') /\ Blank(Contents', lost', text')
  BY <1>2, <1>3, <1>8, <1>9, <1>18
<1>21. Members(Contents') \subseteq ready'
  BY <1>1, <1>2, <1>3, <1>8, <1>17 DEF LogInv
<1>22. /\ LinesIn(lost', text') \subseteq 1..lines'
       /\ Ordered(file' \o LinesOf(Contents', text'), LinesIn(lost', text'), lines')
  BY <1>8, <1>15, <1>16 DEF LogInv
<1> QED  BY <1>2, <1>19, <1>20, <1>21, <1>22 DEF LogInv

LEMMA StepsKeep == LogInv /\ [LogNext]_<<vars, logVars>> => LogInv'
<1> SUFFICES ASSUME LogInv, [LogNext]_<<vars, logVars>> PROVE LogInv'
  OBVIOUS
<1>1. CASE AddRefused
  BY <1>1, RefusedKeeps
<1>2. CASE Add
  BY <1>2, AddKeeps
<1>3. CASE Write
  BY <1>3, WriteKeeps
<1>4. CASE UNCHANGED <<store, count, ready, text, lost, lines, file, vars>>
  <2>1. Inv' /\ Contents' = Contents
    BY <1>4, RestQueue DEF LogInv
  <2> QED  BY <2>1, <1>4 DEF LogInv, LogTypes
<1>5. CASE WriteBegin
  BY <1>4, <1>5 DEF WriteBegin
<1>6. CASE WriteEnd
  BY <1>4, <1>6 DEF WriteEnd
<1>7. CASE UNCHANGED <<vars, logVars>>
  BY <1>4, <1>7 DEF logVars
<1> QED  BY <1>1, <1>2, <1>3, <1>5, <1>6, <1>7 DEF LogNext

LEMMA LogKeeps == LogSpec => []LogInv
  BY StartsKept, StepsKeep, PTL DEF LogSpec

-----------------------------------------------------------------------------
(* What follows.                                                            *)

LEMMA TimesIs ==
    ASSUME NEW s, NEW S, s \in Seq(S), Once(s), NEW b
    PROVE  Times(b, s) = IF b \in Members(s) THEN 1 ELSE 0
<1> DEFINE at == {i \in DOMAIN s : s[i] = b}
<1>1. DOMAIN s = 1..Len(s)
  BY LenProperties
<1>2. CASE b \in Members(s)
  <2>1. PICK i \in 1..Len(s) : s[i] = b
    BY <1>2 DEF Members
  <2>2. at = {i}
    BY <2>1, <1>1 DEF Once
  <2>3. Cardinality({i}) = 1
    BY FS_Singleton
  <2> QED  BY <2>2, <2>3, <1>2 DEF Times
<1>3. CASE b \notin Members(s)
  <2>1. at = {}
    BY <1>1, <1>3 DEF Members
  <2>2. Cardinality({}) = 0
    BY FS_EmptySet
  <2> QED  BY <2>1, <2>2, <1>3 DEF Times
<1> QED  BY <1>2, <1>3

LEMMA KeptConserves == LogInv => BuffersConserved
<1> SUFFICES ASSUME LogInv, NEW b \in 1..count
             PROVE  /\ Times(b, store) + Times(b, Contents) + (IF b \in lost THEN 1 ELSE 0) = 1
                    /\ Times(b, store) = 1 => text[b] = <<>>
                    /\ Queued(b) => b \in ready
  BY DEF BuffersConserved
<1>1. store \in Seq(Element) /\ Contents \in Seq(Element) /\ Kept(store, Contents, lost, count)
  BY ContentsListed DEF LogInv, LogTypes
<1>2. /\ Times(b, store) = IF b \in Members(store) THEN 1 ELSE 0
      /\ Times(b, Contents) = IF b \in Members(Contents) THEN 1 ELSE 0
  BY <1>1, TimesIs DEF Kept
<1>3. \/ b \in Members(store) /\ b \notin Members(Contents) /\ b \notin lost
      \/ b \notin Members(store) /\ b \in Members(Contents) /\ b \notin lost
      \/ b \notin Members(store) /\ b \notin Members(Contents) /\ b \in lost
  BY <1>1 DEF Kept
<1>4. Times(b, store) + Times(b, Contents) + (IF b \in lost THEN 1 ELSE 0) = 1
  BY <1>2, <1>3
<1>5. b \in Element
  BY LogAssumption DEF LogInv, LogTypes
<1>6. Times(b, store) = 1 => text[b] = <<>>
  BY <1>2, <1>3, <1>5 DEF LogInv, Blank
<1>7. Queued(b) => b \in ready
  <2>1. size \in Nat /\ Len(Contents) = size
    BY DEF LogInv, Inv, TypeOK, Contents
  <2>2. Queued(b) => b \in Members(Contents)
    BY <2>1 DEF Queued, Members
  <2> QED  BY <2>2 DEF LogInv
<1> QED  BY <1>4, <1>6, <1>7

LEMMA OrderedLines == LogInv => LinesInOrder
<1> SUFFICES ASSUME LogInv PROVE LinesInOrder
  OBVIOUS
<1>1. Contents \in Seq(Element) /\ text \in [Element -> Seq(Nat)] /\ file \in Seq(Seq(Nat))
  BY ContentsListed DEF LogInv, LogTypes
<1>2. size \in Nat /\ Len(Contents) = size
  BY DEF LogInv, Inv, TypeOK, Contents
<1>3. LinesOf(Contents, text) = [i \in 1..size |-> text[Contents[i]]]
  BY <1>2 DEF LinesOf
<1>4. PICK g \in Seq(Seq(Nat)) : g = LinesOf(Contents, text)
  BY <1>1, LinesTyped DEF Told
<1>5. PICK all \in Seq(Seq(Nat)) : all = file \o g
  BY <1>1, ConcatProperties
<1>6. DOMAIN all = 1..Len(all)
  BY LenProperties
<1>7. Ordered(all, LinesIn(lost, text), lines)
  BY <1>4, <1>5 DEF LogInv
<1>8. all = file \o [i \in 1..size |-> text[Contents[i]]]
  BY <1>3, <1>4, <1>5
<1> QED  BY <1>6, <1>7, <1>8 DEF LinesInOrder, Ordered, LinesIn

\* The log never uses the queue but by its operations on buffers, whatever the
\* interleaving of add_log and write_log: a run of the log, seen from the queue,
\* is a run of the queue (log.c, queue.c:33-116).
THEOREM QueueWellUsed == LogSpec => Spec
<1>1. LogInit => Init
  BY DEF LogInit
<1>2. LogInv /\ [LogNext]_<<vars, logVars>> => [Next]_vars
  <2> SUFFICES ASSUME LogInv, [LogNext]_<<vars, logVars>> PROVE [Next]_vars
    OBVIOUS
  <2>1. CASE Add
    <3>1. Extracted \in Element
      BY <2>1, Extracting DEF Add
    <3> QED  BY <2>1, <3>1 DEF Add, Push, Next
  <2>2. CASE Write
    BY <2>2 DEF Write, Next
  <2>3. CASE AddRefused \/ WriteBegin \/ WriteEnd \/ UNCHANGED <<vars, logVars>>
    BY <2>3 DEF AddRefused, WriteBegin, WriteEnd
  <2> QED  BY <2>1, <2>2, <2>3 DEF LogNext
<1> QED  BY <1>1, <1>2, LogKeeps, PTL DEF LogSpec, Spec

\* A buffer is in the store, in the queue or lost, in one place and once, so that
\* no two lines share one; in the store it is empty (buffer.c:155-185, log.c).
THEOREM BuffersStayApart == LogSpec => []BuffersConserved
  BY LogKeeps, KeptConserves, PTL

\* The file and the queue together hold the accepted lines, whole, once and in
\* order, but for those a refused push lost (log.c, queue.c:33-116).
THEOREM LogInOrder == LogSpec => []LinesInOrder
  BY LogKeeps, OrderedLines, PTL

\* The table of the log is a queue, through its growths and refusals.
THEOREM LogQueueIsFifo == LogSpec => []TypeOK /\ []IndexesAgree /\ IsFifo
  BY QueueWellUsed, Typing, IndexesAlwaysAgree, ImplementsFifo, PTL

================================================================================
