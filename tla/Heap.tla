---------------------------------- MODULE Heap ----------------------------------
(***************************************************************************)
(* The binary heap of src/c-stl/heap.c: an array of pointers from slot 1,  *)
(* whose elements carry the slot they are in.  Operators on a record       *)
(*                                                                         *)
(*   [table : slot -> element, count, index : element -> slot]             *)
(*                                                                         *)
(* and a function key.  The loops of heap_up and heap_down are left to the *)
(* module that uses them, one step per turn: Rises and Sinks are their     *)
(* conditions and Swap is their body.  The length of the array is a number *)
(* of the module that uses the heap, which Full and Grown are about; the   *)
(* table has the slots that can ever be used.                              *)
(***************************************************************************)
EXTENDS Integers

CONSTANTS
    NULL,    \* the null pointer
    Element, \* the structures that may be in the heap
    Size     \* bound: the largest number of elements

Slot == 1..Size

EmptyHeap ==
    [table |-> [k \in Slot |-> NULL],
     count |-> 0,
     index |-> [e \in Element |-> 0]]

\* heap_swap
Swap(h, a, b) ==
    [h EXCEPT !.table = [h.table EXCEPT ![a] = h.table[b], ![b] = h.table[a]],
              !.index = [h.index EXCEPT ![h.table[b]] = a, ![h.table[a]] = b]]

\* heap_full: slot 0 is not used.
Full(h, size) == h.count + 1 = size

\* heap_push grows a full array; realloc may fail.
Grown(size) == size + size \div 2

\* heap_push once there is room, before the element rises.
Pushed(h, e) ==
    [table |-> [h.table EXCEPT ![h.count + 1] = e],
     count |-> h.count + 1,
     index |-> [h.index EXCEPT ![e] = h.count + 1]]

\* heap_erase refuses slots that are not in use.
CanErase(h, k) == k > 0 /\ k <= h.count

\* heap_erase, before the adjustment: the last element fills slot k.
Filled(h, k) ==
    LET last == h.table[h.count]
    IN  [table |-> [h.table EXCEPT ![k] = last],
         count |-> h.count - 1,
         index |-> [h.index EXCEPT ![last] = k]]

\* Slots above count, and the index of an element that is out, are never read
\* again: the model empties them.
Trimmed(h) ==
    LET in == {h.table[k] : k \in 1..h.count}
    IN  [h EXCEPT !.table = [k \in Slot |-> IF k <= h.count THEN h.table[k] ELSE NULL],
                  !.index = [e \in Element |-> IF e \in in THEN h.index[e] ELSE 0]]

Parent(k) == k \div 2

\* The condition of heap_up at slot k.
Rises(h, key, k) == k > 1 /\ key[h.table[k]] < key[h.table[Parent(k)]]

\* Mutant of LesserChild: the right child is forgotten.
LeftChild(h, key, i) == 2 * i

\* The child that heap_down compares with.
LesserChild(h, key, i) ==
    IF 2 * i < h.count /\ key[h.table[2 * i + 1]] < key[h.table[2 * i]]
    THEN 2 * i + 1
    ELSE 2 * i

\* The condition of heap_down at slot i.
Sinks(h, key, i) ==
    2 * i <= h.count /\ key[h.table[LesserChild(h, key, i)]] < key[h.table[i]]

-----------------------------------------------------------------------------
\* What a heap should be.

Elements(h) == {h.table[k] : k \in 1..h.count}

\* Every element knows its slot.
Indexed(h) == \A k \in 1..h.count : h.table[k] \in Element /\ h.index[h.table[k]] = k

\* No element is less than its parent.
Ordered(h, key) == \A k \in 2..h.count : key[h.table[Parent(k)]] <= key[h.table[k]]

================================================================================
