-------------------------- MODULE IntrusiveListProofs --------------------------
(***************************************************************************)
(* What each operation of IntrusiveList does to the sequences its lists    *)
(* represent, for every set of elements and of lists.  Each lemma has two  *)
(* halves: the list operated on represents the new sequence, and           *)
(* everything outside it is as it was (Local), which is what makes the     *)
(* operation invisible to the other lists that share the heap of links.    *)
(***************************************************************************)
EXTENDS IntrusiveList, SequenceTheorems, TLAPS

\* Only the header of l and the links of the elements of touched may differ.
Local(m, r, l, touched) ==
    /\ r \in Memory
    /\ r.fault = m.fault
    /\ \A k \in ListName \ {l} : /\ r.size[k] = m.size[k]
                                 /\ r.head[k] = m.head[k]
                                 /\ r.tail[k] = m.tail[k]
    /\ \A y \in Item \ touched : r.next[y] = m.next[y] /\ r.prev[y] = m.prev[y]

-----------------------------------------------------------------------------
(* Sequences.                                                               *)

\* t is s with x at position i and the rest shifted by one.
Inserted(t, s, i, x) ==
    /\ t \in Seq(Item)
    /\ Len(t) = Len(s) + 1
    /\ \A j \in 1..(Len(s) + 1) :
          t[j] = IF j < i THEN s[j] ELSE IF j = i THEN x ELSE s[j - 1]

\* t is s without its position i.
Removed(t, s, i) ==
    /\ t \in Seq(Item)
    /\ Len(t) = Len(s) - 1
    /\ \A j \in 1..(Len(s) - 1) : t[j] = IF j < i THEN s[j] ELSE s[j + 1]

\* Inserting at a position shifts the rest by one (SequencesExt's InsertAt,
\* which stands for the links list_insert_before and list_insert_after write).
LEMMA InsertAtElements ==
    ASSUME NEW s \in Seq(Item), NEW i \in 1..(Len(s) + 1), NEW x \in Item
    PROVE  Inserted(InsertAt(s, i, x), s, i, x)
<1> DEFINE a == SubSeq(s, 1, i - 1)
           b == SubSeq(s, i, Len(s))
<1>1. /\ a \in Seq(Item) /\ Len(a) = i - 1
      /\ \A j \in 1..(i - 1) : a[j] = s[j]
  <2>1. \A j \in 1..(i - 1) : s[j] \in Item
    BY ElementOfSeq
  <2> QED  BY <2>1, SubSeqProperties
<1>2. /\ b \in Seq(Item) /\ Len(b) = Len(s) - i + 1
      /\ \A j \in 1..(Len(s) - i + 1) : b[j] = s[i + j - 1]
  <2>1. \A j \in i..Len(s) : s[j] \in Item
    BY ElementOfSeq
  <2>2. Len(s) \in Nat
    BY LenProperties
  <2> QED  BY <2>1, <2>2, SubSeqProperties
<1> HIDE DEF a, b
<1>3. <<x>> \in Seq(Item) /\ Len(<<x>>) = 1 /\ <<x>>[1] = x
  OBVIOUS
<1>4. /\ a \o <<x>> \in Seq(Item) /\ Len(a \o <<x>>) = i
      /\ \A j \in 1..i : (a \o <<x>>)[j] = IF j < i THEN s[j] ELSE x
  BY <1>1, <1>3, ConcatProperties
<1>n. Len(s) \in Nat
  BY LenProperties
<1>5. /\ (a \o <<x>>) \o b \in Seq(Item)
      /\ Len((a \o <<x>>) \o b) = Len(s) + 1
      /\ \A j \in 1..(Len(s) + 1) :
            ((a \o <<x>>) \o b)[j] = IF j <= i THEN (a \o <<x>>)[j] ELSE b[j - i]
  <2> DEFINE c == a \o <<x>>
  <2>1. c \in Seq(Item) /\ Len(c) = i
    BY <1>4
  <2> HIDE DEF c
  <2>2. /\ c \o b \in Seq(Item)
        /\ Len(c \o b) = Len(c) + Len(b)
        /\ \A j \in 1..(Len(c) + Len(b)) :
              (c \o b)[j] = IF j <= Len(c) THEN c[j] ELSE b[j - Len(c)]
    BY <1>2, <2>1, ConcatProperties
  <2>3. Len(c) + Len(b) = Len(s) + 1
    BY <1>2, <2>1, <1>n
  <2>4. /\ c \o b \in Seq(Item)
        /\ Len(c \o b) = Len(s) + 1
        /\ \A j \in 1..(Len(s) + 1) :
              (c \o b)[j] = IF j <= i THEN c[j] ELSE b[j - i]
    BY <2>1, <2>2, <2>3
  <2> QED  BY <2>4 DEF c
<1>6. InsertAt(s, i, x) = (a \o <<x>>) \o b
  BY DEF InsertAt, a, b
<1>7. \A j \in (i + 1)..(Len(s) + 1) : b[j - i] = s[j - 1]
  <2> TAKE j \in (i + 1)..(Len(s) + 1)
  <2>1. j - i \in 1..(Len(s) - i + 1) /\ i + (j - i) - 1 = j - 1
    BY <1>n
  <2> QED  BY <2>1, <1>2
<1> QED  BY <1>n, <1>4, <1>5, <1>6, <1>7 DEF Inserted

\* Removing a position shifts the rest back by one (SequencesExt's RemoveAt,
\* which stands for the links list_erase writes).
LEMMA RemoveAtElements ==
    ASSUME NEW s \in Seq(Item), NEW i \in 1..Len(s)
    PROVE  Removed(RemoveAt(s, i), s, i)
<1> DEFINE a == SubSeq(s, 1, i - 1)
           b == SubSeq(s, i + 1, Len(s))
<1>1. /\ a \in Seq(Item) /\ Len(a) = i - 1
      /\ \A j \in 1..(i - 1) : a[j] = s[j]
  <2>1. \A j \in 1..(i - 1) : s[j] \in Item
    BY ElementOfSeq
  <2> QED  BY <2>1, SubSeqProperties
<1>2. /\ b \in Seq(Item) /\ Len(b) = Len(s) - i
      /\ \A j \in 1..(Len(s) - i) : b[j] = s[i + j]
  <2>1. \A j \in (i + 1)..Len(s) : s[j] \in Item
    BY ElementOfSeq
  <2>2. Len(s) \in Nat
    BY LenProperties
  <2> QED  BY <2>1, <2>2, SubSeqProperties
<1> HIDE DEF a, b
<1>n. Len(s) \in Nat
  BY LenProperties
<1>3. /\ a \o b \in Seq(Item)
      /\ Len(a \o b) = Len(s) - 1
      /\ \A j \in 1..(Len(s) - 1) :
            (a \o b)[j] = IF j <= i - 1 THEN a[j] ELSE b[j - (i - 1)]
  <2>1. Len(a) + Len(b) = Len(s) - 1
    BY <1>1, <1>2, <1>n
  <2>2. /\ a \o b \in Seq(Item)
        /\ Len(a \o b) = Len(a) + Len(b)
        /\ \A j \in 1..(Len(a) + Len(b)) :
              (a \o b)[j] = IF j <= Len(a) THEN a[j] ELSE b[j - Len(a)]
    BY <1>1, <1>2, ConcatProperties
  <2> QED  BY <1>1, <2>1, <2>2
<1>4. RemoveAt(s, i) = a \o b
  BY DEF RemoveAt, a, b
<1>5. \A j \in i..(Len(s) - 1) : b[j - (i - 1)] = s[j + 1]
  <2> TAKE j \in i..(Len(s) - 1)
  <2>1. j - (i - 1) \in 1..(Len(s) - i) /\ i + (j - (i - 1)) = j + 1
    BY <1>n
  <2> QED  BY <2>1, <1>2
<1>6. ASSUME NEW j \in 1..(Len(s) - 1)
      PROVE  (a \o b)[j] = IF j < i THEN s[j] ELSE s[j + 1]
  <2>1. CASE j < i
    <3>1. j <= i - 1 /\ j \in 1..(i - 1)
      BY <1>n, <2>1
    <3> QED  BY <3>1, <2>1, <1>1, <1>3
  <2>2. CASE j >= i
    <3>1. ~(j <= i - 1) /\ ~(j < i) /\ j \in i..(Len(s) - 1)
      BY <1>n, <2>2
    <3> QED  BY <3>1, <1>3, <1>5
  <2>3. j < i \/ j >= i
    BY <1>n
  <2> QED  BY <2>1, <2>2, <2>3
<1> QED  BY <1>3, <1>4, <1>6 DEF Removed

\* In a sequence without repetition, removing the first occurrence of the
\* element at a position is removing that position.
LEMMA RemoveFirstIsRemoveAt ==
    ASSUME NEW s \in Seq(Item), NEW i \in 1..Len(s),
           \A j, k \in 1..Len(s) : s[j] = s[k] => j = k
    PROVE  RemoveFirst(s, s[i]) = RemoveAt(s, i)
<1>1. {j \in 1..Len(s) : s[j] = s[i]} = {i}
  OBVIOUS
<1>2. Min({i}) = i
  BY DEF Min
<1>3. SelectInSeq(s, LAMBDA v : v = s[i]) = i
  BY <1>1, <1>2 DEF SelectInSeq
<1> QED  BY <1>3 DEF RemoveFirst

-----------------------------------------------------------------------------
(* The operations.                                                          *)

\* g is f but at a and b.
Updated(g, f, a, u, b, v) ==
    /\ g \in [Item -> Pointer] /\ g[a] = u /\ g[b] = v
    /\ \A y \in Item : y # a /\ y # b => g[y] = f[y]

\* Two assignments to a field of links.
LEMMA TwoUpdates ==
    ASSUME NEW f \in [Item -> Pointer], NEW a \in Item, NEW b \in Item, a # b,
           NEW u \in Pointer, NEW v \in Pointer,
           NEW g, g = [[f EXCEPT ![a] = u] EXCEPT ![b] = v]
    PROVE  Updated(g, f, a, u, b, v)
BY DEF Updated

\* A list is not affected by a change that leaves its header and its elements alone.
LEMMA Frame ==
    ASSUME NEW m \in Memory, NEW r, NEW l \in ListName, NEW touched,
           Local(m, r, l, touched),
           NEW k \in ListName \ {l}, NEW t \in Seq(Item),
           Represents(m, k, t), ToSet(t) \cap touched = {}
    PROVE  Represents(r, k, t)
<1>1. \A i \in 1..Len(t) : t[i] \in Item /\ t[i] \notin touched
  BY ElementOfSeq DEF ToSet
<1> QED  BY <1>1 DEF Local, Represents

\* The neighbours of an element are elements.
LEMMA Neighbours ==
    ASSUME NEW s \in Seq(Item), NEW i \in 1..Len(s)
    PROVE  After(s, i) \in ToSet(s) /\ Preceding(s, i) \in ToSet(s) /\ ToSet(s) \subseteq Item
<1>1. Len(s) \in Nat
  BY LenProperties
<1>2. 1 \in 1..Len(s) /\ Len(s) \in 1..Len(s)
  BY <1>1
<1>3. i # Len(s) => i + 1 \in 1..Len(s)
  BY <1>1
<1>4. i # 1 => i - 1 \in 1..Len(s)
  BY <1>1
<1>5. \A j \in 1..Len(s) : s[j] \in ToSet(s)
  BY LenProperties DEF ToSet
<1>6. ToSet(s) \subseteq Item
  BY LenProperties, ElementOfSeq DEF ToSet
<1> QED  BY <1>2, <1>3, <1>4, <1>5, <1>6 DEF After, Preceding

\* The macro list_insert_first makes a one-element circle.
LEMMA InsertFirstRep ==
    ASSUME NEW m \in Memory, NEW l \in ListName, NEW x \in Item
    PROVE  /\ Local(m, InsertFirst(m, l, x), l, {x})
           /\ Represents(InsertFirst(m, l, x), l, <<x>>)
<1> DEFINE r == InsertFirst(m, l, x)
<1>1. Local(m, r, l, {x})
  BY DEF Local, InsertFirst, Memory, Pointer
<1>2. Len(<<x>>) = 1 /\ <<x>>[1] = x /\ <<x>> # <<>>
  OBVIOUS
<1>3. /\ r.size[l] = 1 /\ r.head[l] = x /\ r.tail[l] = x
      /\ r.next[x] = x /\ r.prev[x] = x
  BY DEF InsertFirst, Memory
<1>4. Represents(r, l, <<x>>)
  <2>1. \A i \in 1..1 : i = 1
    OBVIOUS
  <2> QED  BY <1>2, <1>3, <2>1 DEF Represents, After, Preceding
<1> QED  BY <1>1, <1>4

\* list_insert_after at position i of a list puts the new element at i + 1.
LEMMA InsertAfterRep ==
    ASSUME NEW m \in Memory, NEW l \in ListName, NEW s \in Seq(Item),
           Represents(m, l, s), NEW i \in 1..Len(s),
           NEW x \in Item, x \notin ToSet(s)
    PROVE  /\ Local(m, InsertAfter(m, l, s[i], x), l, ToSet(s) \cup {x})
           /\ Represents(InsertAfter(m, l, s[i], x), l, InsertAt(s, i + 1, x))
<1> DEFINE r == InsertAfter(m, l, s[i], x)
           t == InsertAt(s, i + 1, x)
<1>0. PICK n \in Nat : n = Len(s)
  BY LenProperties
<1>1. i \in 1..n /\ i + 1 \in 1..(n + 1)
  BY <1>0
<1>2. /\ \A j \in 1..n : s[j] \in Item /\ s[j] \in ToSet(s) /\ s[j] # x
      /\ \A j, k \in 1..n : s[j] = s[k] => j = k
  <2>1. \A j \in 1..n : s[j] \in ToSet(s)
    BY <1>0, LenProperties DEF ToSet
  <2>2. \A j \in 1..n : s[j] \in Item
    BY <1>0, ElementOfSeq
  <2> QED  BY <1>0, <2>1, <2>2 DEF Represents
<1>3. /\ \A j \in 1..n : m.next[s[j]] = After(s, j) /\ m.prev[s[j]] = Preceding(s, j)
      /\ m.size[l] = n /\ s # <<>> /\ m.head[l] = s[1] /\ m.tail[l] = s[n]
  BY <1>0, <1>1 DEF Represents
<1>4. After(s, i) \in Item /\ After(s, i) \in ToSet(s) /\ After(s, i) # x
  BY Neighbours
<1>5. r = [prev |-> [[m.prev EXCEPT ![After(s, i)] = x] EXCEPT ![x] = s[i]],
           next |-> [[m.next EXCEPT ![x] = After(s, i)] EXCEPT ![s[i]] = x],
           head |-> m.head,
           tail |-> [m.tail EXCEPT ![l] = IF @ = s[i] THEN x ELSE @],
           size |-> [m.size EXCEPT ![l] = @ + 1], fault |-> m.fault]
  <2>1. m.next[s[i]] = After(s, i) /\ s[i] # NULL /\ m.next[s[i]] # NULL
    <3>1. m.next[s[i]] = After(s, i)
      BY <1>1, <1>3
    <3>2. s[i] \in Item
      BY <1>1, <1>2
    <3> QED  BY <3>1, <3>2, <1>4, ListAssumption
  <2> QED  BY <2>1 DEF InsertAfter
<1> HIDE DEF r
<1>6. /\ r.prev \in [Item -> Pointer] /\ r.next \in [Item -> Pointer]
      /\ r.head = m.head /\ r.fault = m.fault
      /\ r.tail = [m.tail EXCEPT ![l] = IF @ = s[i] THEN x ELSE @]
      /\ r.size = [m.size EXCEPT ![l] = @ + 1]
      /\ r.prev[x] = s[i] /\ r.next[s[i]] = x
      /\ r.next[x] = After(s, i) /\ r.prev[After(s, i)] = x
      /\ \A y \in Item : y # x /\ y # After(s, i) => r.prev[y] = m.prev[y]
      /\ \A y \in Item : y # x /\ y # s[i] => r.next[y] = m.next[y]
  <2>1. m.prev \in [Item -> Pointer] /\ m.next \in [Item -> Pointer]
    BY DEF Memory
  <2>2. s[i] \in Item /\ s[i] # x
    BY <1>1, <1>2
  <2> QED  BY <1>4, <1>5, <2>1, <2>2 DEF Pointer
<1>b. Local(m, r, l, ToSet(s) \cup {x})
  <2>1. r \in Memory
    <3>1. /\ r.tail \in [ListName -> Pointer] /\ r.size \in [ListName -> Int]
          /\ r.head \in [ListName -> Pointer] /\ r.fault \in BOOLEAN
      BY <1>6 DEF Memory, Pointer
    <3>2. r = [prev |-> r.prev, next |-> r.next, head |-> r.head, tail |-> r.tail,
               size |-> r.size, fault |-> r.fault]
      BY <1>5
    <3> QED  BY <1>6, <3>1, <3>2 DEF Memory
  <2>2. \A y \in Item \ (ToSet(s) \cup {x}) : r.next[y] = m.next[y] /\ r.prev[y] = m.prev[y]
    BY <1>1, <1>2, <1>4, <1>6
  <2>3. \A k \in ListName \ {l} : /\ r.size[k] = m.size[k]
                                  /\ r.head[k] = m.head[k]
                                  /\ r.tail[k] = m.tail[k]
    BY <1>6 DEF Memory
  <2> QED  BY <1>6, <2>1, <2>2, <2>3 DEF Local
<1>7. /\ t \in Seq(Item) /\ Len(t) = n + 1
      /\ \A j \in 1..(n + 1) :
            t[j] = IF j < i + 1 THEN s[j] ELSE IF j = i + 1 THEN x ELSE s[j - 1]
  <2>1. i + 1 \in 1..(Len(s) + 1)
    BY <1>0, <1>1
  <2>2. Inserted(t, s, i + 1, x)
    BY <2>1, InsertAtElements
  <2> QED  BY <1>0, <2>2 DEF Inserted
<1> HIDE DEF t
<1>a. /\ \A j \in 1..n : After(s, j) = IF j = n THEN s[1] ELSE s[j + 1]
      /\ \A j \in 1..n : Preceding(s, j) = IF j = 1 THEN s[n] ELSE s[j - 1]
      /\ \A j \in 1..(n + 1) : After(t, j) = IF j = n + 1 THEN t[1] ELSE t[j + 1]
      /\ \A j \in 1..(n + 1) : Preceding(t, j) = IF j = 1 THEN t[n + 1] ELSE t[j - 1]
  BY <1>0, <1>7 DEF After, Preceding
<1>8. /\ r.next[x] = After(s, i) /\ r.prev[x] = s[i]
      /\ \A j \in 1..n : /\ r.next[s[j]] = IF j = i THEN x ELSE After(s, j)
                         /\ r.prev[s[j]] = IF s[j] = After(s, i) THEN x ELSE Preceding(s, j)
  BY <1>1, <1>2, <1>3, <1>6
<1>9. /\ r.size[l] = n + 1 /\ r.head[l] = s[1]
      /\ r.tail[l] = IF i = n THEN x ELSE s[n]
  <2>1. m.tail \in [ListName -> Pointer] /\ m.size \in [ListName -> Int]
    BY DEF Memory
  <2>2. s[n] = s[i] <=> i = n
    <3>1. n \in 1..n
      BY <1>1
    <3> QED  BY <1>1, <1>2, <3>1
  <2> QED  BY <1>3, <1>6, <2>1, <2>2
<1>10. ASSUME NEW j \in 1..(n + 1)
       PROVE  r.next[t[j]] = After(t, j) /\ r.prev[t[j]] = Preceding(t, j)
  <2>1. CASE j = i + 1
    <3>1. t[j] = x /\ Preceding(t, j) = t[i] /\ t[i] = s[i]
      BY <2>1, <1>1, <1>7, <1>a
    <3>2. CASE i = n
      <4>1. After(t, j) = t[1] /\ t[1] = s[1] /\ After(s, i) = s[1]
        BY <2>1, <3>2, <1>1, <1>7, <1>a
      <4> QED  BY <3>1, <4>1, <1>8
    <3>3. CASE i # n
      <4>1. i + 1 \in 1..n /\ j + 1 \in 1..(n + 1) /\ j # n + 1
        BY <2>1, <3>3, <1>1
      <4>2. After(t, j) = t[j + 1] /\ t[j + 1] = s[j] /\ After(s, i) = s[i + 1]
        BY <2>1, <3>3, <4>1, <1>1, <1>7, <1>a
      <4> QED  BY <2>1, <3>1, <4>2, <1>8
    <3> QED  BY <3>2, <3>3
  <2>2. CASE j < i + 1
    <3>1. j \in 1..n /\ t[j] = s[j] /\ j # n + 1 /\ j + 1 \in 1..(n + 1)
      BY <2>2, <1>1, <1>7
    <3>2. After(t, j) = t[j + 1]
      BY <3>1, <1>a
    <3>3. r.next[s[j]] = t[j + 1]
      <4>1. CASE j = i
        BY <4>1, <3>1, <1>1, <1>7, <1>8
      <4>2. CASE j # i
        <5>1. j + 1 < i + 1 /\ j # n /\ j + 1 \in 1..n
          BY <2>2, <4>2, <1>1
        <5>2. After(s, j) = s[j + 1] /\ t[j + 1] = s[j + 1]
          BY <3>1, <5>1, <1>7, <1>a
        <5> QED  BY <3>1, <4>2, <5>2, <1>8
      <4> QED  BY <4>1, <4>2
    <3>4. r.prev[s[j]] = Preceding(t, j)
      <4>1. CASE j = 1
        <5>1. Preceding(t, j) = t[n + 1] /\ Preceding(s, j) = s[n] /\ n \in 1..n
          BY <4>1, <1>1, <1>a
        <5>2. CASE i = n
          <6>1. t[n + 1] = x /\ After(s, i) = s[j]
            BY <4>1, <5>2, <1>1, <1>7, <1>a
          <6> QED  BY <3>1, <5>1, <6>1, <1>8
        <5>3. CASE i # n
          <6>1. t[n + 1] = s[n]
            BY <5>3, <1>1, <1>7
          <6>2. After(s, i) = s[i + 1] /\ i + 1 \in 1..n /\ i + 1 # j
            BY <4>1, <5>3, <1>1, <1>a
          <6>3. s[j] # After(s, i)
            BY <3>1, <6>2, <1>2
          <6> QED  BY <3>1, <5>1, <6>1, <6>3, <1>8
        <5> QED  BY <5>2, <5>3
      <4>2. CASE j # 1
        <5>1. j - 1 \in 1..n /\ j - 1 \in 1..(n + 1) /\ j - 1 < i + 1
          BY <2>2, <3>1, <4>2, <1>1
        <5>2. Preceding(t, j) = t[j - 1] /\ t[j - 1] = s[j - 1] /\ Preceding(s, j) = s[j - 1]
          BY <3>1, <4>2, <5>1, <1>7, <1>a
        <5>3. s[j] # After(s, i)
          <6>1. CASE i = n
            BY <6>1, <3>1, <4>2, <1>1, <1>2, <1>a
          <6>2. CASE i # n
            <7>1. i + 1 \in 1..n /\ After(s, i) = s[i + 1] /\ i + 1 # j
              BY <2>2, <6>2, <1>1, <1>a
            <7> QED  BY <3>1, <7>1, <1>2
          <6> QED  BY <6>1, <6>2
        <5> QED  BY <3>1, <5>2, <5>3, <1>8
      <4> QED  BY <4>1, <4>2
    <3> QED  BY <3>1, <3>2, <3>3, <3>4
  <2>3. CASE j > i + 1
    <3>1. /\ j - 1 \in 1..n /\ t[j] = s[j - 1] /\ j - 1 # i
          /\ i # n /\ i + 1 \in 1..n /\ j # 1
      BY <2>3, <1>1, <1>7
    <3>2. r.next[s[j - 1]] = After(t, j)
      <4>1. r.next[s[j - 1]] = After(s, j - 1)
        BY <3>1, <1>8
      <4>2. CASE j = n + 1
        <5>1. j - 1 = n
          BY <4>2, <1>1
        <5>2. After(s, j - 1) = s[1]
          BY <3>1, <5>1, <1>a
        <5>3. After(t, j) = t[1]
          BY <4>2, <1>1, <1>7, <1>a
        <5>4. t[1] = s[1]
          BY <1>1, <1>7
        <5> QED  BY <4>1, <5>2, <5>3, <5>4
      <4>3. CASE j # n + 1
        <5>1. j + 1 \in 1..(n + 1) /\ j - 1 # n /\ (j - 1) + 1 = j /\ (j + 1) - 1 = j
          BY <3>1, <4>3
        <5>2. After(t, j) = t[j + 1] /\ After(s, j - 1) = s[j]
          BY <3>1, <4>3, <5>1, <1>a
        <5>3. t[j + 1] = s[j]
          BY <2>3, <5>1, <1>1, <1>7
        <5> QED  BY <4>1, <5>2, <5>3
      <4> QED  BY <4>2, <4>3
    <3>3. r.prev[s[j - 1]] = Preceding(t, j)
      <4>1. Preceding(t, j) = t[j - 1] /\ After(s, i) = s[i + 1]
        BY <3>1, <1>1, <1>a
      <4>2. CASE j = i + 2
        <5>1. t[j - 1] = x /\ j - 1 = i + 1
          BY <4>2, <1>1, <1>7
        <5> QED  BY <3>1, <4>1, <5>1, <1>8
      <4>3. CASE j # i + 2
        <5>1. j - 1 # i + 1 /\ j - 1 > i + 1 /\ j - 1 # 1 /\ j - 1 \in 1..(n + 1)
          BY <2>3, <3>1, <4>3, <1>1
        <5>2. t[j - 1] = s[(j - 1) - 1]
          BY <5>1, <1>1, <1>7
        <5>4. Preceding(s, j - 1) = s[(j - 1) - 1]
          BY <3>1, <5>1, <1>a
        <5>3. s[j - 1] # After(s, i)
          BY <3>1, <4>1, <5>1, <1>2
        <5> QED  BY <3>1, <4>1, <5>2, <5>3, <5>4, <1>8
      <4> QED  BY <4>2, <4>3
    <3> QED  BY <3>1, <3>2, <3>3
  <2> QED  BY <2>1, <2>2, <2>3, <1>1
<1>11. \A j, k \in 1..(n + 1) : t[j] = t[k] => j = k
  BY <1>1, <1>2, <1>7, SMTT(40)
<1>12. t # <<>> /\ t[1] = s[1] /\ t[n + 1] = IF i = n THEN x ELSE s[n]
  BY <1>1, <1>7
<1>13. Represents(r, l, t)
  BY <1>7, <1>9, <1>10, <1>11, <1>12 DEF Represents
<1> QED  BY <1>b, <1>13 DEF r, t

\* list_insert_before at the first element puts the new one in front.
LEMMA InsertBeforeHeadRep ==
    ASSUME NEW m \in Memory, NEW l \in ListName, NEW s \in Seq(Item),
           Represents(m, l, s), s # <<>>, NEW x \in Item, x \notin ToSet(s)
    PROVE  /\ Local(m, InsertBefore(m, l, s[1], x), l, ToSet(s) \cup {x})
           /\ Represents(InsertBefore(m, l, s[1], x), l, InsertAt(s, 1, x))
<1> DEFINE r == InsertBefore(m, l, s[1], x)
           t == InsertAt(s, 1, x)
<1>0. PICK n \in Nat : n = Len(s) /\ n # 0
  BY LenProperties, EmptySeq
<1>1. 1 \in 1..n /\ n \in 1..n
  BY <1>0
<1>2. /\ \A j \in 1..n : s[j] \in Item /\ s[j] \in ToSet(s) /\ s[j] # x
      /\ \A j, k \in 1..n : s[j] = s[k] => j = k
      /\ \A j \in 1..n : m.next[s[j]] = IF j = n THEN s[1] ELSE s[j + 1]
      /\ \A j \in 1..n : m.prev[s[j]] = IF j = 1 THEN s[n] ELSE s[j - 1]
      /\ m.size[l] = n /\ m.head[l] = s[1] /\ m.tail[l] = s[n]
  <2>1. \A j \in 1..n : s[j] \in ToSet(s)
    BY <1>0, LenProperties DEF ToSet
  <2>2. \A j \in 1..n : s[j] \in Item
    BY <1>0, ElementOfSeq
  <2>3. /\ \A j, k \in 1..n : s[j] = s[k] => j = k
        /\ \A j \in 1..n : m.next[s[j]] = After(s, j) /\ m.prev[s[j]] = Preceding(s, j)
        /\ m.size[l] = n /\ m.head[l] = s[1] /\ m.tail[l] = s[n]
    BY <1>0 DEF Represents
  <2> QED  BY <1>0, <2>1, <2>2, <2>3 DEF After, Preceding
<1>3. r = [prev |-> [[m.prev EXCEPT ![x] = s[n]] EXCEPT ![s[1]] = x],
           next |-> [[m.next EXCEPT ![s[n]] = x] EXCEPT ![x] = s[1]],
           head |-> [m.head EXCEPT ![l] = x],
           tail |-> m.tail,
           size |-> [m.size EXCEPT ![l] = @ + 1], fault |-> m.fault]
  <2>1. m.prev[s[1]] = s[n] /\ s[1] # NULL /\ s[n] # NULL /\ m.head[l] = s[1]
    BY <1>1, <1>2, ListAssumption
  <2> QED  BY <2>1 DEF InsertBefore
<1> HIDE DEF r
<1>4. /\ r.prev \in [Item -> Pointer] /\ r.next \in [Item -> Pointer]
      /\ r.tail = m.tail /\ r.fault = m.fault
      /\ r.head = [m.head EXCEPT ![l] = x]
      /\ r.size = [m.size EXCEPT ![l] = @ + 1]
      /\ r.prev[x] = s[n] /\ r.next[s[n]] = x
      /\ r.next[x] = s[1] /\ r.prev[s[1]] = x
      /\ \A y \in Item : y # x /\ y # s[1] => r.prev[y] = m.prev[y]
      /\ \A y \in Item : y # x /\ y # s[n] => r.next[y] = m.next[y]
  <2>1. m.prev \in [Item -> Pointer] /\ m.next \in [Item -> Pointer]
    BY DEF Memory
  <2>2. s[1] \in Item /\ s[1] # x /\ s[n] \in Item /\ s[n] # x
    BY <1>1, <1>2
  <2> QED  BY <1>3, <2>1, <2>2 DEF Pointer
<1>5. Local(m, r, l, ToSet(s) \cup {x})
  <2>1. r \in Memory
    <3>1. /\ r.tail \in [ListName -> Pointer] /\ r.size \in [ListName -> Int]
          /\ r.head \in [ListName -> Pointer] /\ r.fault \in BOOLEAN
      BY <1>4 DEF Memory, Pointer
    <3>2. r = [prev |-> r.prev, next |-> r.next, head |-> r.head, tail |-> r.tail,
               size |-> r.size, fault |-> r.fault]
      BY <1>3
    <3> QED  BY <1>4, <3>1, <3>2 DEF Memory
  <2>2. \A y \in Item \ (ToSet(s) \cup {x}) : r.next[y] = m.next[y] /\ r.prev[y] = m.prev[y]
    BY <1>1, <1>2, <1>4
  <2>3. \A k \in ListName \ {l} : /\ r.size[k] = m.size[k]
                                  /\ r.head[k] = m.head[k]
                                  /\ r.tail[k] = m.tail[k]
    BY <1>4 DEF Memory
  <2> QED  BY <1>4, <2>1, <2>2, <2>3 DEF Local
<1>6. /\ t \in Seq(Item) /\ Len(t) = n + 1 /\ t # <<>> /\ t[1] = x
      /\ \A j \in 1..n : t[j + 1] = s[j]
  <2>1. 1 \in 1..(Len(s) + 1)
    BY <1>0
  <2>2. Inserted(t, s, 1, x)
    BY <2>1, InsertAtElements
  <2>3. /\ t \in Seq(Item) /\ Len(t) = n + 1
        /\ \A j \in 1..(n + 1) : t[j] = IF j < 1 THEN s[j] ELSE IF j = 1 THEN x ELSE s[j - 1]
    BY <1>0, <2>2 DEF Inserted
  <2>4. t[1] = x /\ t # <<>>
    BY <1>0, <2>3
  <2>5. ASSUME NEW j \in 1..n  PROVE t[j + 1] = s[j]
    <3>1. j + 1 \in 1..(n + 1) /\ ~(j + 1 < 1) /\ j + 1 # 1 /\ (j + 1) - 1 = j
      OBVIOUS
    <3> QED  BY <2>3, <3>1
  <2> QED  BY <2>3, <2>4, <2>5
<1> HIDE DEF t
<1>7. ASSUME NEW j \in 1..n
      PROVE  /\ r.next[s[j]] = After(t, j + 1)
             /\ r.prev[s[j]] = Preceding(t, j + 1)
  <2>1. Preceding(t, j + 1) = t[j] /\ j + 1 # 1
    <3>1. j + 1 # 1 /\ (j + 1) - 1 = j
      OBVIOUS
    <3> QED  BY <3>1 DEF Preceding
  <2>2. r.prev[s[j]] = t[j]
    <3>1. CASE j = 1
      BY <3>1, <1>4, <1>6
    <3>2. CASE j # 1
      <4>1. j - 1 \in 1..n /\ (j - 1) + 1 = j /\ s[j] # s[1] /\ s[j] \in Item /\ s[j] # x
        BY <3>2, <1>1, <1>2
      <4>2. t[j] = s[j - 1]
        BY <4>1, <1>6
      <4>3. \A y \in Item : y # x /\ y # s[1] => r.prev[y] = m.prev[y]
        BY <1>4
      <4>4. r.prev[s[j]] = m.prev[s[j]]
        BY <4>1, <4>3
      <4>5. m.prev[s[j]] = s[j - 1]
        BY <3>2, <1>2
      <4> QED  BY <4>2, <4>4, <4>5
    <3> QED  BY <3>1, <3>2
  <2>3. r.next[s[j]] = After(t, j + 1)
    <3>1. CASE j = n
      <4>1. After(t, j + 1) = x
        BY <3>1, <1>6 DEF After
      <4> QED  BY <3>1, <4>1, <1>4
    <3>2. CASE j # n
      <4>1. j + 1 \in 1..n /\ j + 1 # n + 1 /\ s[j] # s[n] /\ s[j] \in Item /\ s[j] # x
        BY <3>2, <1>1, <1>2
      <4>2. After(t, j + 1) = s[j + 1]
        BY <4>1, <1>6 DEF After
      <4>3. \A y \in Item : y # x /\ y # s[n] => r.next[y] = m.next[y]
        BY <1>4
      <4>4. r.next[s[j]] = m.next[s[j]]
        BY <4>1, <4>3
      <4>5. m.next[s[j]] = s[j + 1]
        BY <3>2, <1>2
      <4> QED  BY <4>2, <4>4, <4>5
    <3> QED  BY <3>1, <3>2
  <2> QED  BY <2>1, <2>2, <2>3
<1>8. r.next[x] = After(t, 1) /\ r.prev[x] = Preceding(t, 1)
  <2>1. t[n + 1] = s[n] /\ t[1 + 1] = s[1] /\ 1 # n + 1
    BY <1>1, <1>6
  <2> QED  BY <2>1, <1>4, <1>6 DEF After, Preceding
<1>9. \A j \in 1..(n + 1) : j = 1 \/ \E k \in 1..n : j = k + 1
  <2> TAKE j \in 1..(n + 1)
  <2>1. j # 1 => j - 1 \in 1..n /\ j = (j - 1) + 1
    OBVIOUS
  <2> QED  BY <2>1
<1>10. ASSUME NEW j \in 1..(n + 1)
       PROVE  r.next[t[j]] = After(t, j) /\ r.prev[t[j]] = Preceding(t, j)
  <2>1. CASE j = 1
    BY <2>1, <1>6, <1>8
  <2>2. ASSUME NEW k \in 1..n, j = k + 1
        PROVE  r.next[t[j]] = After(t, j) /\ r.prev[t[j]] = Preceding(t, j)
    <3>1. t[j] = s[k]
      BY <2>2, <1>6
    <3> QED  BY <3>1, <2>2, <1>7
  <2> QED  BY <2>1, <2>2, <1>9
<1>11. ASSUME NEW j \in 1..(n + 1), NEW k \in 1..(n + 1), t[j] = t[k]
       PROVE  j = k
  <2>1. ASSUME NEW a \in 1..n  PROVE t[a + 1] # t[1]
    <3>1. t[a + 1] = s[a] /\ s[a] # x
      BY <1>2, <1>6
    <3> QED  BY <3>1, <1>6
  <2>2. ASSUME NEW a \in 1..n, NEW b \in 1..n, t[a + 1] = t[b + 1]  PROVE a = b
    BY <2>2, <1>2, <1>6
  <2>3. CASE j = 1
    BY <2>1, <2>3, <1>9, <1>11
  <2>4. ASSUME NEW a \in 1..n, j = a + 1  PROVE j = k
    <3>1. k # 1
      BY <2>1, <2>4, <1>11
    <3>2. PICK b \in 1..n : k = b + 1
      BY <3>1, <1>9
    <3> QED  BY <2>2, <2>4, <3>2, <1>11
  <2> QED  BY <2>3, <2>4, <1>9
<1>12. r.size[l] = n + 1 /\ r.head[l] = x /\ r.tail[l] = s[n] /\ t[n + 1] = s[n]
  <2>1. m.head \in [ListName -> Pointer] /\ m.size \in [ListName -> Int]
    BY DEF Memory
  <2> QED  BY <1>1, <1>2, <1>4, <1>6, <2>1
<1>13. Represents(r, l, t)
  BY <1>6, <1>10, <1>11, <1>12 DEF Represents
<1> QED  BY <1>5, <1>13 DEF r, t

\* list_insert_before at any position i puts the new element at i: beyond the
\* first element it writes the same links as list_insert_after one earlier.
LEMMA InsertBeforeRep ==
    ASSUME NEW m \in Memory, NEW l \in ListName, NEW s \in Seq(Item),
           Represents(m, l, s), NEW i \in 1..Len(s),
           NEW x \in Item, x \notin ToSet(s)
    PROVE  /\ Local(m, InsertBefore(m, l, s[i], x), l, ToSet(s) \cup {x})
           /\ Represents(InsertBefore(m, l, s[i], x), l, InsertAt(s, i, x))
<1>1. CASE i = 1
  <2>1. s # <<>>
    OBVIOUS
  <2> QED  BY <1>1, <2>1, InsertBeforeHeadRep
<1>2. CASE i # 1
  <2>1. PICK n \in Nat : n = Len(s)
    BY LenProperties
  <2>2. i \in 1..n /\ 1 \in 1..n /\ n \in 1..n /\ i - 1 \in 1..n /\ i - 1 # n /\ (i - 1) + 1 = i
    BY <1>2, <2>1
  <2>3. PICK h \in 1..n : h = i - 1
    BY <2>2
  <2>4. h # n /\ h + 1 = i
    BY <2>2, <2>3
  <2>5. /\ \A j \in 1..n : s[j] \in Item /\ s[j] # x
        /\ \A j, k \in 1..n : s[j] = s[k] => j = k
        /\ \A j \in 1..n : m.next[s[j]] = After(s, j) /\ m.prev[s[j]] = Preceding(s, j)
        /\ m.head[l] = s[1] /\ m.tail[l] = s[n]
    <3>1. \A j \in 1..n : s[j] \in ToSet(s)
      BY <2>1, LenProperties DEF ToSet
    <3>2. \A j \in 1..n : s[j] \in Item
      BY <2>1, ElementOfSeq
    <3>3. s # <<>>
      BY <2>1, <2>2
    <3> QED  BY <2>1, <3>1, <3>2, <3>3 DEF Represents
  <2>6. /\ m.next[s[h]] = s[i] /\ m.prev[s[i]] = s[h]
        /\ s[i] \in Item /\ s[h] \in Item /\ s[i] # x /\ s[h] # x /\ s[i] # s[h]
        /\ m.head[l] # s[i] /\ m.tail[l] # s[h]
    <3>1. After(s, h) = s[i] /\ Preceding(s, i) = s[h]
      BY <1>2, <2>1, <2>3, <2>4 DEF After, Preceding
    <3>2. s[1] # s[i] /\ s[n] # s[h] /\ s[i] # s[h]
      BY <1>2, <2>2, <2>4, <2>5
    <3> QED  BY <2>2, <2>5, <3>1, <3>2
  <2>7. InsertBefore(m, l, s[i], x)
          = [prev |-> [[m.prev EXCEPT ![x] = s[h]] EXCEPT ![s[i]] = x],
             next |-> [[m.next EXCEPT ![s[h]] = x] EXCEPT ![x] = s[i]],
             head |-> m.head, tail |-> m.tail,
             size |-> [m.size EXCEPT ![l] = @ + 1], fault |-> m.fault]
    <3>1. [m.head EXCEPT ![l] = IF @ = s[i] THEN x ELSE @] = m.head
      BY <2>6 DEF Memory
    <3> QED  BY <2>6, <3>1, ListAssumption DEF InsertBefore
  <2>8. InsertAfter(m, l, s[h], x)
          = [prev |-> [[m.prev EXCEPT ![s[i]] = x] EXCEPT ![x] = s[h]],
             next |-> [[m.next EXCEPT ![x] = s[i]] EXCEPT ![s[h]] = x],
             head |-> m.head, tail |-> m.tail,
             size |-> [m.size EXCEPT ![l] = @ + 1], fault |-> m.fault]
    <3>1. [m.tail EXCEPT ![l] = IF @ = s[h] THEN x ELSE @] = m.tail
      BY <2>6 DEF Memory
    <3> QED  BY <2>6, <3>1, ListAssumption DEF InsertAfter
  <2>9. /\ [[m.prev EXCEPT ![x] = s[h]] EXCEPT ![s[i]] = x]
             = [[m.prev EXCEPT ![s[i]] = x] EXCEPT ![x] = s[h]]
        /\ [[m.next EXCEPT ![s[h]] = x] EXCEPT ![x] = s[i]]
             = [[m.next EXCEPT ![x] = s[i]] EXCEPT ![s[h]] = x]
    <3>1. m.prev \in [Item -> Pointer] /\ m.next \in [Item -> Pointer]
      BY DEF Memory
    <3> QED  BY <2>6, <3>1
  <2>10. InsertBefore(m, l, s[i], x) = InsertAfter(m, l, s[h], x)
    BY <2>7, <2>8, <2>9
  <2>11. h \in 1..Len(s)
    BY <2>1
  <2>12. /\ Local(m, InsertAfter(m, l, s[h], x), l, ToSet(s) \cup {x})
         /\ Represents(InsertAfter(m, l, s[h], x), l, InsertAt(s, h + 1, x))
    BY <2>11, InsertAfterRep
  <2> QED  BY <2>4, <2>10, <2>12
<1> QED  BY <1>1, <1>2

\* list_push_back appends.
LEMMA PushBackRep ==
    ASSUME NEW m \in Memory, NEW l \in ListName, NEW s \in Seq(Item),
           Represents(m, l, s), NEW x \in Item, x \notin ToSet(s)
    PROVE  /\ Local(m, PushBack(m, l, x), l, ToSet(s) \cup {x})
           /\ Represents(PushBack(m, l, x), l, Append(s, x))
<1>1. CASE s = <<>>
  <2>1. PushBack(m, l, x) = InsertFirst(m, l, x)
    BY <1>1 DEF PushBack, Represents
  <2>2. Append(s, x) = <<x>>
    BY <1>1
  <2>3. ToSet(s) \cup {x} = {x}
    BY <1>1 DEF ToSet
  <2> QED  BY <2>1, <2>2, <2>3, InsertFirstRep
<1>2. CASE s # <<>>
  <2>1. PICK n \in 1..Len(s) : n = Len(s)
    BY <1>2, LenProperties, EmptySeq
  <2>2. PushBack(m, l, x) = InsertAfter(m, l, s[n], x)
    BY <1>2, <2>1 DEF PushBack, Represents
  <2>3. InsertAt(s, n + 1, x) = Append(s, x)
    <3>1. n + 1 \in 1..(Len(s) + 1)
      BY <2>1
    <3>2. Inserted(InsertAt(s, n + 1, x), s, n + 1, x)
      BY <3>1, InsertAtElements
    <3>3. /\ Append(s, x) \in Seq(Item) /\ Len(Append(s, x)) = Len(s) + 1
          /\ \A j \in 1..Len(s) : Append(s, x)[j] = s[j]
          /\ Append(s, x)[Len(s) + 1] = x
      BY AppendProperties
    <3>4. ASSUME NEW j \in 1..(Len(s) + 1)
          PROVE  InsertAt(s, n + 1, x)[j] = Append(s, x)[j]
      <4>1. InsertAt(s, n + 1, x)[j] = IF j < n + 1 THEN s[j] ELSE IF j = n + 1 THEN x ELSE s[j - 1]
        BY <3>2 DEF Inserted
      <4>2. CASE j \in 1..Len(s)
        BY <4>1, <4>2, <2>1, <3>3
      <4>3. CASE j = Len(s) + 1
        <5>1. ~(j < n + 1) /\ j = n + 1
          BY <4>3, <2>1
        <5> QED  BY <4>1, <4>3, <5>1, <3>3
      <4> QED  BY <4>2, <4>3, <2>1
    <3>5. Len(InsertAt(s, n + 1, x)) = Len(s) + 1 /\ InsertAt(s, n + 1, x) \in Seq(Item)
      BY <3>2 DEF Inserted
    <3> QED  BY <3>3, <3>4, <3>5, SeqEqual
  <2> QED  BY <2>1, <2>2, <2>3, InsertAfterRep
<1> QED  BY <1>1, <1>2

\* list_push_front prepends.
LEMMA PushFrontRep ==
    ASSUME NEW m \in Memory, NEW l \in ListName, NEW s \in Seq(Item),
           Represents(m, l, s), NEW x \in Item, x \notin ToSet(s)
    PROVE  /\ Local(m, PushFront(m, l, x), l, ToSet(s) \cup {x})
           /\ Represents(PushFront(m, l, x), l, InsertAt(s, 1, x))
<1>1. CASE s = <<>>
  <2>1. PushFront(m, l, x) = InsertFirst(m, l, x)
    BY <1>1 DEF PushFront, Represents
  <2>2. InsertAt(s, 1, x) = <<x>>
    <3>0. 1 \in 1..(Len(s) + 1)
      BY <1>1
    <3>1. Inserted(InsertAt(s, 1, x), s, 1, x)
      BY <3>0, InsertAtElements
    <3>2. /\ InsertAt(s, 1, x) \in Seq(Item) /\ Len(InsertAt(s, 1, x)) = 1
          /\ InsertAt(s, 1, x)[1] = x
      BY <1>1, <3>1 DEF Inserted
    <3>3. <<x>> \in Seq(Item) /\ Len(<<x>>) = 1 /\ <<x>>[1] = x
      OBVIOUS
    <3>4. \A j \in 1..1 : InsertAt(s, 1, x)[j] = <<x>>[j]
      BY <3>2, <3>3
    <3> HIDE DEF InsertAt
    <3> QED  BY <3>2, <3>3, <3>4, SeqEqual
  <2>3. ToSet(s) \cup {x} = {x}
    BY <1>1 DEF ToSet
  <2> QED  BY <2>1, <2>2, <2>3, InsertFirstRep
<1>2. CASE s # <<>>
  <2>1. PushFront(m, l, x) = InsertBefore(m, l, s[1], x)
    BY <1>2, LenProperties, EmptySeq DEF PushFront, Represents
  <2> QED  BY <1>2, <2>1, InsertBeforeHeadRep
<1> QED  BY <1>1, <1>2

\* What an erasure leaves behind: the list without the position, nothing else
\* touched, and an element whose links are null and that is no longer in it.
Erased(m, r, l, s, i) ==
    /\ Local(m, r, l, ToSet(s))
    /\ r.next[s[i]] = NULL /\ r.prev[s[i]] = NULL
    /\ Represents(r, l, RemoveAt(s, i))
    /\ ToSet(RemoveAt(s, i)) = ToSet(s) \ {s[i]}

\* The elements left by a removal from a sequence without repetition.
LEMMA RemoveAtRange ==
    ASSUME NEW s \in Seq(Item), NEW i \in 1..Len(s),
           \A j, k \in 1..Len(s) : s[j] = s[k] => j = k
    PROVE  ToSet(RemoveAt(s, i)) = ToSet(s) \ {s[i]}
<1> DEFINE t == RemoveAt(s, i)
<1>0. PICK n \in Nat : n = Len(s)
  BY LenProperties
<1>1. /\ t \in Seq(Item) /\ Len(t) = n - 1
      /\ \A j \in 1..(n - 1) : t[j] = IF j < i THEN s[j] ELSE s[j + 1]
  BY <1>0, RemoveAtElements DEF Removed
<1> HIDE DEF t
<1>2. i \in 1..n /\ n - 1 \in Nat
  BY <1>0
<1>3. DOMAIN s = 1..n /\ DOMAIN t = 1..(n - 1)
  BY <1>0, <1>1, LenProperties
<1>4. ASSUME NEW j \in 1..(n - 1)  PROVE t[j] \in ToSet(s) /\ t[j] # s[i]
  <2>1. CASE j < i
    <3>1. j \in 1..n /\ j # i /\ t[j] = s[j]
      BY <2>1, <1>1, <1>2
    <3> QED  BY <3>1, <1>0, <1>3 DEF ToSet
  <2>2. CASE ~(j < i)
    <3>1. j + 1 \in 1..n /\ j + 1 # i /\ t[j] = s[j + 1]
      BY <2>2, <1>1, <1>2
    <3> QED  BY <3>1, <1>0, <1>3 DEF ToSet
  <2> QED  BY <2>1, <2>2
<1>5. ASSUME NEW j \in 1..n, j # i  PROVE s[j] \in ToSet(t)
  <2>1. CASE j < i
    <3>1. j \in 1..(n - 1) /\ t[j] = s[j]
      BY <2>1, <1>1, <1>2
    <3> QED  BY <3>1, <1>3 DEF ToSet
  <2>2. CASE ~(j < i)
    <3>1. PICK k \in 1..(n - 1) : k = j - 1
      BY <2>2, <1>5, <1>2
    <3>2. ~(k < i) /\ k + 1 = j
      BY <2>2, <3>1, <1>5, <1>2
    <3>3. t[k] = s[j]
      BY <3>2, <1>1
    <3> QED  BY <3>3, <1>3 DEF ToSet
  <2> QED  BY <2>1, <2>2
<1>6. ToSet(t) = {t[j] : j \in 1..(n - 1)} /\ ToSet(s) = {s[j] : j \in 1..n}
  BY <1>3 DEF ToSet
<1>7. \A e : e \in ToSet(t) => e \in ToSet(s) \ {s[i]}
  <2> TAKE e
  <2> HAVE e \in ToSet(t)
  <2>1. PICK j \in 1..(n - 1) : e = t[j]
    BY <1>6
  <2> QED  BY <2>1, <1>4
<1>8. \A e : e \in ToSet(s) \ {s[i]} => e \in ToSet(t)
  <2> TAKE e
  <2> HAVE e \in ToSet(s) \ {s[i]}
  <2>1. PICK j \in 1..n : e = s[j]
    BY <1>6
  <2>2. j # i
    BY <2>1
  <2> QED  BY <2>1, <2>2, <1>5
<1>9. ToSet(t) = ToSet(s) \ {s[i]}
  BY <1>7, <1>8, Zenon
<1> QED  BY <1>9 DEF t

\* list_erase of the only element empties the list.
LEMMA EraseOnlyRep ==
    ASSUME NEW m \in Memory, NEW l \in ListName, NEW s \in Seq(Item),
           Represents(m, l, s), Len(s) = 1
    PROVE  Erased(m, Erase(m, l, s[1]), l, s, 1)
<1> DEFINE x == s[1]
           r == Erase(m, l, x)
<1>1. x \in Item /\ x # NULL
  BY ElementOfSeq, ListAssumption
<1>2. m.size[l] = 1
  BY DEF Represents
<1>3. r = [prev |-> [m.prev EXCEPT ![x] = NULL], next |-> [m.next EXCEPT ![x] = NULL],
           head |-> [m.head EXCEPT ![l] = NULL], tail |-> [m.tail EXCEPT ![l] = NULL],
           size |-> [m.size EXCEPT ![l] = @ - 1], fault |-> m.fault]
  BY <1>1, <1>2 DEF Erase, EraseOnly
<1>4. DOMAIN s = 1..1 /\ ToSet(s) = {x}
  <2>1. DOMAIN s = 1..1
    BY LenProperties
  <2>2. 1..1 = {1}
    OBVIOUS
  <2> QED  BY <2>1, <2>2 DEF ToSet
<1> HIDE DEF r, x
<1>5. Local(m, r, l, {x}) /\ r.next[x] = NULL /\ r.prev[x] = NULL
  BY <1>1, <1>3 DEF Local, Memory, Pointer
<1>6. r.size[l] = 0 /\ r.head[l] = NULL /\ r.tail[l] = NULL
  BY <1>2, <1>3 DEF Memory
<1>7. RemoveAt(s, 1) = <<>>
  <2>1. Removed(RemoveAt(s, 1), s, 1)
    BY RemoveAtElements
  <2>2. RemoveAt(s, 1) \in Seq(Item) /\ Len(RemoveAt(s, 1)) = 0
    BY <2>1 DEF Removed
  <2> QED  BY <2>2, EmptySeq
<1>8. Represents(r, l, <<>>)
  BY <1>6 DEF Represents
<1>9. ToSet(<<>>) = {}
  BY DEF ToSet
<1> QED  BY <1>4, <1>5, <1>7, <1>8, <1>9 DEF Erased, r, x

\* list_erase of position i of a longer list joins its neighbours.
LEMMA EraseLinkedRep ==
    ASSUME NEW m \in Memory, NEW l \in ListName, NEW s \in Seq(Item),
           Represents(m, l, s), NEW i \in 1..Len(s), Len(s) # 1
    PROVE  Erased(m, Erase(m, l, s[i]), l, s, i)
<1> DEFINE r == Erase(m, l, s[i])
           t == RemoveAt(s, i)
           p == Preceding(s, i)
           q == After(s, i)
<1>0. PICK n \in Nat : n = Len(s)
  BY LenProperties
<1>1. i \in 1..n /\ n >= 2 /\ 1 \in 1..n /\ n \in 1..n /\ n - 1 \in 1..n /\ n - 1 \in Nat
  BY <1>0
<1>2. /\ \A j \in 1..n : s[j] \in Item /\ s[j] \in ToSet(s)
      /\ \A j, k \in 1..n : s[j] = s[k] => j = k
  <2>1. \A j \in 1..n : s[j] \in ToSet(s)
    BY <1>0, LenProperties DEF ToSet
  <2>2. \A j \in 1..n : s[j] \in Item
    BY <1>0, ElementOfSeq
  <2> QED  BY <1>0, <2>1, <2>2 DEF Represents
<1>3. /\ \A j \in 1..n : m.next[s[j]] = After(s, j) /\ m.prev[s[j]] = Preceding(s, j)
      /\ m.size[l] = n /\ m.head[l] = s[1] /\ m.tail[l] = s[n]
  <2>1. s # <<>>
    BY <1>0, <1>1
  <2> QED  BY <1>0, <2>1 DEF Represents
<1>4. /\ \A j \in 1..n : After(s, j) = IF j = n THEN s[1] ELSE s[j + 1]
      /\ \A j \in 1..n : Preceding(s, j) = IF j = 1 THEN s[n] ELSE s[j - 1]
  BY <1>0 DEF After, Preceding
<1>5. /\ p \in Item /\ q \in Item /\ p \in ToSet(s) /\ q \in ToSet(s)
      /\ p # s[i] /\ q # s[i]
  <2>1. /\ p \in Item /\ q \in Item /\ p \in ToSet(s) /\ q \in ToSet(s)
    BY Neighbours
  <2>2. p # s[i]
    <3>1. CASE i = 1
      BY <3>1, <1>1, <1>2, <1>4
    <3>2. CASE i # 1
      <4>1. i - 1 \in 1..n /\ p = s[i - 1]
        BY <3>2, <1>1, <1>4
      <4> QED  BY <4>1, <1>1, <1>2
    <3> QED  BY <3>1, <3>2
  <2>3. q # s[i]
    <3>1. CASE i = n
      BY <3>1, <1>1, <1>2, <1>4
    <3>2. CASE i # n
      <4>1. i + 1 \in 1..n /\ q = s[i + 1]
        BY <3>2, <1>1, <1>4
      <4> QED  BY <4>1, <1>1, <1>2
    <3> QED  BY <3>1, <3>2
  <2> QED  BY <2>1, <2>2, <2>3
<1>6. s[i] \in Item /\ m.next[s[i]] = q /\ m.prev[s[i]] = p
  BY <1>1, <1>2, <1>3
<1> HIDE DEF p, q
<1>7. r = [prev |-> [[m.prev EXCEPT ![q] = p] EXCEPT ![s[i]] = NULL],
           next |-> [[m.next EXCEPT ![p] = q] EXCEPT ![s[i]] = NULL],
           head |-> [m.head EXCEPT ![l] = IF @ = s[i] THEN q ELSE @],
           tail |-> [m.tail EXCEPT ![l] = IF m.head[l] # s[i] /\ @ = s[i] THEN p ELSE @],
           size |-> [m.size EXCEPT ![l] = @ - 1], fault |-> m.fault]
  <2>1. s[i] # NULL /\ m.size[l] # 1 /\ p # NULL /\ q # NULL
    BY <1>1, <1>3, <1>5, <1>6, ListAssumption
  <2>2. r = EraseLinked(m, l, s[i])
    BY <2>1 DEF Erase
  <2> QED  BY <2>1, <2>2, <1>6 DEF EraseLinked
<1> HIDE DEF r
<1>8. /\ r.prev \in [Item -> Pointer] /\ r.next \in [Item -> Pointer]
      /\ r.head \in [ListName -> Pointer] /\ r.tail \in [ListName -> Pointer]
      /\ r.size \in [ListName -> Int] /\ r.fault = m.fault
      /\ r.next[s[i]] = NULL /\ r.prev[s[i]] = NULL
      /\ r.next[p] = q /\ r.prev[q] = p
      /\ \A y \in Item : y # s[i] /\ y # q => r.prev[y] = m.prev[y]
      /\ \A y \in Item : y # s[i] /\ y # p => r.next[y] = m.next[y]
      /\ r.size[l] = m.size[l] - 1
      /\ r.head[l] = IF m.head[l] = s[i] THEN q ELSE m.head[l]
      /\ r.tail[l] = IF m.head[l] # s[i] /\ m.tail[l] = s[i] THEN p ELSE m.tail[l]
      /\ \A k \in ListName \ {l} : /\ r.size[k] = m.size[k]
                                   /\ r.head[k] = m.head[k]
                                   /\ r.tail[k] = m.tail[k]
  <2>1. /\ m.prev \in [Item -> Pointer] /\ m.next \in [Item -> Pointer]
        /\ m.head \in [ListName -> Pointer] /\ m.tail \in [ListName -> Pointer]
        /\ m.size \in [ListName -> Int]
    BY DEF Memory
  <2>2. /\ r.prev = [[m.prev EXCEPT ![q] = p] EXCEPT ![s[i]] = NULL]
        /\ r.next = [[m.next EXCEPT ![p] = q] EXCEPT ![s[i]] = NULL]
        /\ r.head = [m.head EXCEPT ![l] = IF @ = s[i] THEN q ELSE @]
        /\ r.tail = [m.tail EXCEPT ![l] = IF m.head[l] # s[i] /\ @ = s[i] THEN p ELSE @]
        /\ r.size = [m.size EXCEPT ![l] = @ - 1] /\ r.fault = m.fault
    BY <1>7
  <2>3. /\ r.prev \in [Item -> Pointer] /\ r.next \in [Item -> Pointer]
        /\ r.next[s[i]] = NULL /\ r.prev[s[i]] = NULL
        /\ r.next[p] = q /\ r.prev[q] = p
        /\ \A y \in Item : y # s[i] /\ y # q => r.prev[y] = m.prev[y]
        /\ \A y \in Item : y # s[i] /\ y # p => r.next[y] = m.next[y]
    <3>1. NULL \in Pointer /\ p \in Pointer /\ q \in Pointer
      BY <1>5 DEF Pointer
    <3>2. Updated(r.prev, m.prev, q, p, s[i], NULL)
      BY <1>5, <1>6, <2>1, <2>2, <3>1, TwoUpdates
    <3>3. Updated(r.next, m.next, p, q, s[i], NULL)
      BY <1>5, <1>6, <2>1, <2>2, <3>1, TwoUpdates
    <3> QED  BY <3>2, <3>3 DEF Updated
  <2>4. /\ r.size \in [ListName -> Int] /\ r.size[l] = m.size[l] - 1
        /\ \A k \in ListName \ {l} : r.size[k] = m.size[k]
    BY <2>1, <2>2
  <2>5. /\ r.head \in [ListName -> Pointer]
        /\ r.head[l] = IF m.head[l] = s[i] THEN q ELSE m.head[l]
        /\ \A k \in ListName \ {l} : r.head[k] = m.head[k]
    BY <1>5, <2>1, <2>2 DEF Pointer
  <2>6. /\ r.tail \in [ListName -> Pointer]
        /\ r.tail[l] = IF m.head[l] # s[i] /\ m.tail[l] = s[i] THEN p ELSE m.tail[l]
        /\ \A k \in ListName \ {l} : r.tail[k] = m.tail[k]
    BY <1>5, <2>1, <2>2 DEF Pointer
  <2> QED  BY <2>2, <2>3, <2>4, <2>5, <2>6
<1>9. Local(m, r, l, ToSet(s))
  <2>1. r \in Memory
    <3>1. r = [prev |-> r.prev, next |-> r.next, head |-> r.head, tail |-> r.tail,
               size |-> r.size, fault |-> r.fault] /\ m.fault \in BOOLEAN
      BY <1>7 DEF Memory
    <3> QED  BY <1>8, <3>1 DEF Memory
  <2>2. \A y \in Item \ ToSet(s) : r.next[y] = m.next[y] /\ r.prev[y] = m.prev[y]
    BY <1>1, <1>2, <1>5, <1>8
  <2> QED  BY <1>8, <2>1, <2>2 DEF Local
<1>10. /\ t \in Seq(Item) /\ Len(t) = n - 1
       /\ \A j \in 1..(n - 1) : t[j] = IF j < i THEN s[j] ELSE s[j + 1]
  BY <1>0, RemoveAtElements DEF Removed
<1>11. ToSet(t) = ToSet(s) \ {s[i]}
  BY <1>0, <1>2, RemoveAtRange
<1> HIDE DEF t
<1>12. /\ \A j \in 1..(n - 1) : After(t, j) = IF j = n - 1 THEN t[1] ELSE t[j + 1]
       /\ \A j \in 1..(n - 1) : Preceding(t, j) = IF j = 1 THEN t[n - 1] ELSE t[j - 1]
  BY <1>10 DEF After, Preceding
<1>13. /\ p = IF i = 1 THEN s[n] ELSE s[i - 1]
       /\ q = IF i = n THEN s[1] ELSE s[i + 1]
       /\ t[1] = IF i = 1 THEN s[2] ELSE s[1]
       /\ t[n - 1] = IF i = n THEN s[n - 1] ELSE s[n]
  <2>1. p = IF i = 1 THEN s[n] ELSE s[i - 1]
    BY <1>1, <1>4 DEF p
  <2>2. q = IF i = n THEN s[1] ELSE s[i + 1]
    BY <1>1, <1>4 DEF q
  <2>3. t[1] = IF i = 1 THEN s[2] ELSE s[1]
    <3>1. 1 \in 1..(n - 1) /\ (1 < i <=> i # 1) /\ 1 + 1 = 2
      BY <1>1
    <3> QED  BY <3>1, <1>10
  <2>4. t[n - 1] = IF i = n THEN s[n - 1] ELSE s[n]
    <3>1. n - 1 \in 1..(n - 1) /\ (n - 1 < i <=> i = n) /\ (n - 1) + 1 = n
      BY <1>1
    <3> QED  BY <3>1, <1>10
  <2> QED  BY <2>1, <2>2, <2>3, <2>4
<1>14. ASSUME NEW j \in 1..(n - 1)
       PROVE  r.next[t[j]] = After(t, j) /\ r.prev[t[j]] = Preceding(t, j)
  <2>1. CASE j < i
    <3>1. j \in 1..n /\ j # n /\ j # i /\ i # 1 /\ j + 1 \in 1..n /\ t[j] = s[j]
      BY <2>1, <1>1, <1>10
    <3>2. s[j] \in Item /\ s[j] # s[i] /\ m.next[s[j]] = s[j + 1] /\ p = s[i - 1]
      BY <3>1, <1>1, <1>2, <1>3, <1>4, <1>13
    <3>3. r.next[s[j]] = After(t, j)
      <4>1. CASE j + 1 = i
        <5>1. s[j] = p
          <6>1. i - 1 = j
            BY <4>1, <1>1
          <6> QED  BY <6>1, <3>2
        <5>2. CASE i = n
          <6>1. j = n - 1
            BY <4>1, <5>2, <1>1
          <6> QED  BY <5>1, <5>2, <6>1, <3>1, <1>8, <1>12, <1>13
        <5>3. CASE i # n
          <6>1. j # n - 1 /\ j + 1 \in 1..(n - 1) /\ ~(j + 1 < i)
            BY <4>1, <5>3, <1>1
          <6>2. After(t, j) = t[j + 1] /\ t[j + 1] = s[(j + 1) + 1]
            BY <6>1, <1>10, <1>12
          <6>3. q = s[(j + 1) + 1]
            BY <4>1, <5>3, <1>13
          <6> QED  BY <5>1, <6>2, <6>3, <1>8
        <5> QED  BY <5>2, <5>3
      <4>2. CASE j + 1 # i
        <5>1. j + 1 < i /\ j # n - 1 /\ j + 1 \in 1..(n - 1) /\ i - 1 # j /\ i - 1 \in 1..n
          BY <2>1, <4>2, <3>1, <1>1
        <5>2. s[j] # p
          BY <3>1, <3>2, <5>1, <1>2
        <5>3. After(t, j) = t[j + 1] /\ t[j + 1] = s[j + 1]
          BY <5>1, <1>10, <1>12
        <5> QED  BY <3>2, <5>2, <5>3, <1>8
      <4> QED  BY <4>1, <4>2
    <3>4. r.prev[s[j]] = Preceding(t, j)
      <4>1. CASE j = 1
        <5>1. Preceding(t, j) = t[n - 1] /\ m.prev[s[j]] = s[n]
          BY <4>1, <3>1, <1>3, <1>4, <1>12
        <5>2. CASE i = n
          BY <4>1, <5>1, <5>2, <3>1, <1>8, <1>13
        <5>3. CASE i # n
          <6>1. i + 1 \in 1..n /\ i + 1 # j /\ q = s[i + 1]
            BY <2>1, <5>3, <1>1, <1>13
          <6>2. s[j] # q
            BY <3>1, <6>1, <1>2
          <6> QED  BY <5>1, <5>3, <6>2, <3>2, <1>8, <1>13
        <5> QED  BY <5>2, <5>3
      <4>2. CASE j # 1
        <5>1. j - 1 \in 1..(n - 1) /\ j - 1 < i
          BY <2>1, <4>2, <1>1
        <5>2. Preceding(t, j) = t[j - 1] /\ t[j - 1] = s[j - 1] /\ m.prev[s[j]] = s[j - 1]
          BY <3>1, <4>2, <5>1, <1>3, <1>4, <1>10, <1>12
        <5>3. s[j] # q
          <6>1. CASE i = n
            BY <6>1, <4>2, <3>1, <1>1, <1>2, <1>13
          <6>2. CASE i # n
            <7>1. i + 1 \in 1..n /\ i + 1 # j /\ q = s[i + 1]
              BY <2>1, <6>2, <1>1, <1>13
            <7> QED  BY <3>1, <7>1, <1>2
          <6> QED  BY <6>1, <6>2
        <5> QED  BY <3>2, <5>2, <5>3, <1>8
      <4> QED  BY <4>1, <4>2
    <3> QED  BY <3>1, <3>3, <3>4
  <2>2. CASE ~(j < i)
    <3>1. PICK k \in 1..n : k = j + 1
      BY <1>1
    <3>2. k > i /\ k # i /\ k # 1 /\ i # n /\ t[j] = s[k] /\ i + 1 \in 1..n /\ j = k - 1
      BY <2>2, <3>1, <1>1, <1>10
    <3>3. s[k] \in Item /\ s[k] # s[i] /\ m.prev[s[k]] = s[k - 1] /\ q = s[i + 1]
      BY <3>2, <1>1, <1>2, <1>3, <1>4, <1>13
    <3>4. r.next[s[k]] = After(t, j)
      <4>1. CASE k = n
        <5>1. After(t, j) = t[1] /\ m.next[s[k]] = s[1]
          BY <4>1, <3>2, <1>3, <1>4, <1>12
        <5>2. CASE i = 1
          <6>1. s[k] = p /\ q = s[2] /\ t[1] = s[2]
            BY <4>1, <5>2, <3>2, <1>13
          <6> QED  BY <5>1, <6>1, <1>8
        <5>3. CASE i # 1
          <6>1. i - 1 \in 1..n /\ i - 1 # k /\ p = s[i - 1] /\ t[1] = s[1]
            BY <3>2, <5>3, <1>1, <1>13
          <6>2. s[k] # p
            BY <6>1, <1>2
          <6> QED  BY <5>1, <6>1, <6>2, <3>3, <1>8
        <5> QED  BY <5>2, <5>3
      <4>2. CASE k # n
        <5>1. j # n - 1 /\ k \in 1..(n - 1) /\ ~(k < i) /\ k = j + 1
          BY <4>2, <3>1, <3>2
        <5>2. After(t, j) = t[k] /\ t[k] = s[k + 1]
          BY <5>1, <1>10, <1>12
        <5>3. m.next[s[k]] = s[k + 1]
          BY <4>2, <1>3, <1>4
        <5>4. s[k] # p
          <6>1. CASE i = 1
            BY <6>1, <4>2, <1>1, <1>2, <1>13
          <6>2. CASE i # 1
            <7>1. i - 1 \in 1..n /\ i - 1 # k /\ p = s[i - 1]
              BY <3>2, <6>2, <1>1, <1>13
            <7> QED  BY <7>1, <1>2
          <6> QED  BY <6>1, <6>2
        <5> QED  BY <5>2, <5>3, <5>4, <3>3, <1>8
      <4> QED  BY <4>1, <4>2
    <3>5. r.prev[s[k]] = Preceding(t, j)
      <4>1. CASE j = i
        <5>1. s[k] = q
          BY <4>1, <3>1, <3>3
        <5>2. CASE j = 1
          <6>1. Preceding(t, j) = t[n - 1] /\ t[n - 1] = s[n] /\ p = s[n]
            BY <4>1, <5>2, <3>2, <1>12, <1>13
          <6> QED  BY <5>1, <6>1, <1>8
        <5>3. CASE j # 1
          <6>1. j - 1 \in 1..(n - 1) /\ j - 1 < i
            BY <4>1, <5>3, <1>1
          <6>2. Preceding(t, j) = t[j - 1] /\ t[j - 1] = s[j - 1] /\ p = s[j - 1]
            BY <4>1, <5>3, <6>1, <1>10, <1>12, <1>13
          <6> QED  BY <5>1, <6>2, <1>8
        <5> QED  BY <5>2, <5>3
      <4>2. CASE j # i
        <5>1. j - 1 \in 1..(n - 1) /\ ~(j - 1 < i) /\ (j - 1) + 1 = j /\ j # 1 /\ i + 1 # k
          BY <2>2, <4>2, <3>1, <1>1
        <5>2. t[j - 1] = s[(j - 1) + 1]
          BY <5>1, <1>10
        <5>3. Preceding(t, j) = t[j - 1]
          BY <5>1, <1>12
        <5>4. s[k] # q
          BY <3>2, <3>3, <5>1, <1>2
        <5>5. r.prev[s[k]] = m.prev[s[k]]
          BY <3>3, <5>4, <1>8
        <5> QED  BY <3>2, <3>3, <5>1, <5>2, <5>3, <5>5
      <4> QED  BY <4>1, <4>2
    <3> QED  BY <3>2, <3>4, <3>5
  <2> QED  BY <2>1, <2>2
<1>15. ASSUME NEW j \in 1..(n - 1), NEW k \in 1..(n - 1), t[j] = t[k]
       PROVE  j = k
  <2>1. PICK a \in 1..n : a = (IF j < i THEN j ELSE j + 1) /\ t[j] = s[a]
    BY <1>1, <1>10
  <2>2. PICK b \in 1..n : b = (IF k < i THEN k ELSE k + 1) /\ t[k] = s[b]
    BY <1>1, <1>10
  <2>3. a = b
    BY <1>2, <1>15, <2>1, <2>2
  <2> QED  BY <1>1, <2>1, <2>2, <2>3
<1>16. r.size[l] = n - 1 /\ r.head[l] = t[1] /\ r.tail[l] = t[n - 1] /\ t # <<>>
  <2>1. r.size[l] = n - 1
    BY <1>3, <1>8
  <2>2. m.head[l] = s[i] <=> i = 1
    BY <1>1, <1>2, <1>3
  <2>3. m.tail[l] = s[i] <=> i = n
    BY <1>1, <1>2, <1>3
  <2>4. r.head[l] = t[1]
    <3>1. CASE i = 1
      <4>1. q = s[2] /\ t[1] = s[2]
        BY <3>1, <1>1, <1>13
      <4> QED  BY <3>1, <4>1, <2>2, <1>8
    <3>2. CASE i # 1
      BY <3>2, <2>2, <1>3, <1>8, <1>13
    <3> QED  BY <3>1, <3>2
  <2>5. r.tail[l] = t[n - 1]
    <3>1. CASE i = n
      <4>1. i # 1 /\ p = s[n - 1] /\ t[n - 1] = s[n - 1]
        BY <3>1, <1>1, <1>13
      <4> QED  BY <3>1, <4>1, <2>2, <2>3, <1>8
    <3>2. CASE i # n
      BY <3>2, <2>3, <1>3, <1>8, <1>13
    <3> QED  BY <3>1, <3>2
  <2>6. t # <<>>
    BY <1>1, <1>10
  <2> QED  BY <2>1, <2>4, <2>5, <2>6
<1>17. Represents(r, l, t)
  BY <1>10, <1>14, <1>15, <1>16 DEF Represents
<1> QED  BY <1>8, <1>9, <1>11, <1>17 DEF Erased, r, t

\* list_erase of any position of a list.
LEMMA EraseRep ==
    ASSUME NEW m \in Memory, NEW l \in ListName, NEW s \in Seq(Item),
           Represents(m, l, s), NEW i \in 1..Len(s)
    PROVE  Erased(m, Erase(m, l, s[i]), l, s, i)
<1>1. CASE Len(s) = 1
  <2>1. i = 1
    BY <1>1
  <2> QED  BY <1>1, <2>1, EraseOnlyRep
<1>2. CASE Len(s) # 1
  BY <1>2, EraseLinkedRep
<1> QED  BY <1>1, <1>2

-----------------------------------------------------------------------------
(* A heap of lists.                                                         *)

\* The elements after an insertion.
LEMMA InsertAtRange ==
    ASSUME NEW s \in Seq(Item), NEW i \in 1..(Len(s) + 1), NEW x \in Item
    PROVE  ToSet(InsertAt(s, i, x)) = ToSet(s) \cup {x}
<1> DEFINE t == InsertAt(s, i, x)
<1>0. PICK n \in Nat : n = Len(s)
  BY LenProperties
<1>1. /\ t \in Seq(Item) /\ Len(t) = n + 1
      /\ \A j \in 1..(n + 1) : t[j] = IF j < i THEN s[j] ELSE IF j = i THEN x ELSE s[j - 1]
  <2>1. Inserted(t, s, i, x)
    BY InsertAtElements
  <2> QED  BY <1>0, <2>1 DEF Inserted
<1> HIDE DEF t
<1>2. i \in 1..(n + 1)
  BY <1>0
<1>3. ToSet(t) = {t[j] : j \in 1..(n + 1)} /\ ToSet(s) = {s[j] : j \in 1..n}
  BY <1>0, <1>1, LenProperties DEF ToSet
<1>4. ASSUME NEW j \in 1..(n + 1)  PROVE t[j] \in ToSet(s) \cup {x}
  <2>1. CASE j < i
    <3>1. j \in 1..n /\ t[j] = s[j]
      BY <2>1, <1>1, <1>2
    <3> QED  BY <3>1, <1>3
  <2>2. CASE j > i
    <3>1. j - 1 \in 1..n /\ t[j] = s[j - 1]
      BY <2>2, <1>1, <1>2
    <3> QED  BY <3>1, <1>3
  <2>3. CASE j = i
    BY <2>3, <1>1, <1>2
  <2> QED  BY <2>1, <2>2, <2>3, <1>2
<1>5. ASSUME NEW j \in 1..n  PROVE s[j] \in ToSet(t)
  <2>1. CASE j < i
    <3>1. j \in 1..(n + 1) /\ t[j] = s[j]
      BY <2>1, <1>1, <1>2
    <3> QED  BY <3>1, <1>3
  <2>2. CASE ~(j < i)
    <3>1. PICK k \in 1..(n + 1) : k = j + 1
      OBVIOUS
    <3>2. ~(k < i) /\ k # i /\ k - 1 = j
      BY <2>2, <3>1, <1>2
    <3>3. t[k] = s[j]
      BY <3>2, <1>1
    <3> QED  BY <3>3, <1>3
  <2> QED  BY <2>1, <2>2
<1>6. x \in ToSet(t)
  <2>1. t[i] = x
    BY <1>1, <1>2
  <2> QED  BY <2>1, <1>2, <1>3
<1> QED  BY <1>3, <1>4, <1>5, <1>6 DEF t

\* Adding a loose element to one list leaves a faithful heap.
LEMMA FaithfulInsert ==
    ASSUME NEW m \in Memory, NEW ls \in [ListName -> Seq(Item)], Faithful(m, ls),
           NEW l \in ListName, NEW x \in Item,
           \A k \in ListName : x \notin ToSet(ls[k]),
           NEW r, Local(m, r, l, ToSet(ls[l]) \cup {x}),
           NEW t \in Seq(Item), Represents(r, l, t), ToSet(t) = ToSet(ls[l]) \cup {x}
    PROVE  /\ r \in Memory
           /\ [ls EXCEPT ![l] = t] \in [ListName -> Seq(Item)]
           /\ Faithful(r, [ls EXCEPT ![l] = t])
<1> DEFINE us == [ls EXCEPT ![l] = t]
<1>1. /\ us \in [ListName -> Seq(Item)] /\ us[l] = t
      /\ \A k \in ListName \ {l} : us[k] = ls[k]
  OBVIOUS
<1> HIDE DEF us
<1>2. ASSUME NEW k \in ListName \ {l}  PROVE Represents(r, k, us[k])
  <2>1. ToSet(ls[k]) \cap (ToSet(ls[l]) \cup {x}) = {}
    BY DEF Faithful
  <2>2. Represents(m, k, ls[k]) /\ ls[k] \in Seq(Item)
    BY DEF Faithful
  <2>3. Represents(r, k, ls[k])
    BY <2>1, <2>2, Frame
  <2> QED  BY <2>3, <1>1
<1>3. \A k \in ListName : Represents(r, k, us[k])
  BY <1>1, <1>2
<1>4. \A j, k \in ListName : j # k => ToSet(us[j]) \cap ToSet(us[k]) = {}
  <2> TAKE j, k \in ListName
  <2> HAVE j # k
  <2>1. CASE j = l
    BY <2>1, <1>1 DEF Faithful
  <2>2. CASE k = l
    BY <2>2, <1>1 DEF Faithful
  <2>3. CASE j # l /\ k # l
    BY <2>3, <1>1 DEF Faithful
  <2> QED  BY <2>1, <2>2, <2>3
<1>5. ASSUME NEW y \in Item, \A k \in ListName : y \notin ToSet(us[k])
      PROVE  r.next[y] = NULL /\ r.prev[y] = NULL
  <2>1. y # x /\ \A k \in ListName : y \notin ToSet(ls[k])
    BY <1>1, <1>5
  <2>2. m.next[y] = NULL /\ m.prev[y] = NULL
    BY <2>1 DEF Faithful
  <2> QED  BY <2>1, <2>2 DEF Local
<1>6. r \in Memory /\ ~r.fault
  BY DEF Local, Faithful
<1> QED  BY <1>1, <1>3, <1>4, <1>5, <1>6 DEF Faithful, us

\* Erasing a position of one list leaves a faithful heap, the element loose.
LEMMA FaithfulErase ==
    ASSUME NEW m \in Memory, NEW ls \in [ListName -> Seq(Item)], Faithful(m, ls),
           NEW l \in ListName, NEW i \in 1..Len(ls[l]),
           NEW r, r = Erase(m, l, ls[l][i])
    PROVE  /\ r \in Memory
           /\ [ls EXCEPT ![l] = RemoveAt(ls[l], i)] \in [ListName -> Seq(Item)]
           /\ Faithful(r, [ls EXCEPT ![l] = RemoveAt(ls[l], i)])
<1> DEFINE s == ls[l]
           t == RemoveAt(s, i)
           us == [ls EXCEPT ![l] = t]
<1>1. s \in Seq(Item) /\ Represents(m, l, s)
  BY DEF Faithful
<1>2. Erased(m, r, l, s, i)
  <2>1. i \in 1..Len(s)
    OBVIOUS
  <2> HIDE DEF s
  <2>2. Erased(m, Erase(m, l, s[i]), l, s, i)
    BY <1>1, <2>1, EraseRep
  <2> QED  BY <2>2 DEF s
<1>3. t \in Seq(Item)
  BY <1>1, RemoveAtElements DEF Removed
<1>4. /\ Local(m, r, l, ToSet(s)) /\ Represents(r, l, t)
      /\ ToSet(t) = ToSet(s) \ {s[i]}
      /\ r.next[s[i]] = NULL /\ r.prev[s[i]] = NULL
  BY <1>2 DEF Erased
<1>5. /\ us \in [ListName -> Seq(Item)] /\ us[l] = t
      /\ \A k \in ListName \ {l} : us[k] = ls[k]
  BY <1>3
<1> HIDE DEF us, t, s
<1>6. ASSUME NEW k \in ListName \ {l}  PROVE Represents(r, k, us[k])
  <2>1. ToSet(ls[k]) \cap ToSet(s) = {}
    BY DEF Faithful, s
  <2>2. Represents(m, k, ls[k]) /\ ls[k] \in Seq(Item)
    BY DEF Faithful
  <2>3. Represents(r, k, ls[k])
    BY <1>4, <2>1, <2>2, Frame
  <2> QED  BY <2>3, <1>5
<1>7. \A k \in ListName : Represents(r, k, us[k])
  BY <1>4, <1>5, <1>6
<1>8. \A j, k \in ListName : j # k => ToSet(us[j]) \cap ToSet(us[k]) = {}
  <2> TAKE j, k \in ListName
  <2> HAVE j # k
  <2>1. CASE j = l
    BY <2>1, <1>4, <1>5 DEF Faithful, s
  <2>2. CASE k = l
    BY <2>2, <1>4, <1>5 DEF Faithful, s
  <2>3. CASE j # l /\ k # l
    BY <2>3, <1>5 DEF Faithful
  <2> QED  BY <2>1, <2>2, <2>3
<1>9. ASSUME NEW y \in Item, \A k \in ListName : y \notin ToSet(us[k])
      PROVE  r.next[y] = NULL /\ r.prev[y] = NULL
  <2>1. CASE y = s[i]
    BY <2>1, <1>4
  <2>2. CASE y # s[i]
    <3>1. y \notin ToSet(t)
      BY <1>5, <1>9
    <3>2. y \notin ToSet(s)
      BY <2>2, <3>1, <1>4
    <3>3. \A k \in ListName : y \notin ToSet(ls[k])
      BY <3>2, <1>5, <1>9 DEF s
    <3>4. m.next[y] = NULL /\ m.prev[y] = NULL
      BY <3>3 DEF Faithful
    <3> QED  BY <3>2, <3>4, <1>4 DEF Local
  <2> QED  BY <2>1, <2>2
<1>10. r \in Memory /\ ~r.fault
  BY <1>4 DEF Local, Faithful
<1> QED  BY <1>5, <1>7, <1>8, <1>9, <1>10 DEF Faithful, us, t, s

\* The elements of a list to which one more is pushed (list_push_back).
LEMMA AppendRange ==
    ASSUME NEW s \in Seq(Item), NEW x \in Item
    PROVE  Append(s, x) \in Seq(Item) /\ ToSet(Append(s, x)) = ToSet(s) \cup {x}
<1> DEFINE t == Append(s, x)
<1>1. PICK n \in Nat : n = Len(s)
  BY LenProperties
<1>2. /\ t \in Seq(Item) /\ Len(t) = n + 1 /\ t[n + 1] = x
      /\ \A j \in 1..n : t[j] = s[j]
  BY <1>1, AppendProperties
<1>3. ToSet(t) = {t[j] : j \in 1..(n + 1)} /\ ToSet(s) = {s[j] : j \in 1..n}
  BY <1>1, <1>2, LenProperties DEF ToSet
<1> HIDE DEF t
<1>4. 1..(n + 1) = (1..n) \cup {n + 1}
  OBVIOUS
<1>5. t \in Seq(Item) /\ ToSet(t) = ToSet(s) \cup {x}
  BY <1>2, <1>3, <1>4
<1> QED  BY <1>5 DEF t

\* Appending a loose element to one list leaves a faithful heap.
LEMMA FaithfulPushBack ==
    ASSUME NEW m \in Memory, NEW ls \in [ListName -> Seq(Item)], Faithful(m, ls),
           NEW l \in ListName, NEW x \in Item,
           \A k \in ListName : x \notin ToSet(ls[k])
    PROVE  /\ PushBack(m, l, x) \in Memory
           /\ [ls EXCEPT ![l] = Append(ls[l], x)] \in [ListName -> Seq(Item)]
           /\ Faithful(PushBack(m, l, x), [ls EXCEPT ![l] = Append(ls[l], x)])
           /\ ToSet(Append(ls[l], x)) = ToSet(ls[l]) \cup {x}
<1> DEFINE s == ls[l]
           t == Append(s, x)
           r == PushBack(m, l, x)
<1>1. s \in Seq(Item) /\ Represents(m, l, s) /\ x \notin ToSet(s)
  BY DEF Faithful
<1>2. t \in Seq(Item) /\ ToSet(t) = ToSet(s) \cup {x}
  <2> HIDE DEF s
  <2> QED  BY <1>1, AppendRange
<1>3. Local(m, r, l, ToSet(s) \cup {x}) /\ Represents(r, l, t)
  <2> HIDE DEF s
  <2> QED  BY <1>1, PushBackRep
<1> HIDE DEF r, t
<1>4. /\ r \in Memory /\ [ls EXCEPT ![l] = t] \in [ListName -> Seq(Item)]
      /\ Faithful(r, [ls EXCEPT ![l] = t])
  BY <1>2, <1>3, FaithfulInsert
<1> QED  BY <1>2, <1>4 DEF r, t

================================================================================
