----------------------------- MODULE CircularQueue -----------------------------
(***************************************************************************)
(* The circular queue of src/c-stl/queue.[ch], used by one thread: one     *)
(* slot stays empty so that head = tail means empty; queue_push grows the  *)
(* table, queue_push_fixed refuses when it is full.                        *)
(***************************************************************************)
EXTENDS Integers, Sequences

CONSTANTS
    Element,      \* the pointers that are queued
    NULL,         \* the null pointer
    Junk,         \* what a slot holds that realloc added
    InitCapacity, \* capacity given to queue_init
    MaxCapacity   \* bound: realloc fails beyond it

ASSUME QueueAssumption ==
    /\ NULL \notin Element /\ Junk \notin Element
    /\ InitCapacity \in Nat /\ InitCapacity > 1
    /\ MaxCapacity \in Nat /\ InitCapacity <= MaxCapacity

VARIABLES
    table, capacity, head, tail, size,
    popped  \* what the last queue_pop returned

vars == <<table, capacity, head, tail, size, popped>>

\* queue_init
Init ==
    /\ table = [i \in 0..(InitCapacity - 1) |-> NULL]
    /\ capacity = InitCapacity
    /\ head = 0 /\ tail = 0 /\ size = 0
    /\ popped = NULL

\* Mutant of Full: no slot stays empty.
FullLate == size = capacity

Full == head = (tail + 1) % capacity

Grown == capacity + capacity \div 2

-----------------------------------------------------------------------------
\* Mutant of MovedHead: the head stays when the elements behind it move.
MovedHeadKept == head

\* The head after growing: the elements from head on move to the bottom of the
\* new table when the contents wrap.
MovedHead == IF head > tail THEN head + (Grown - capacity) ELSE head

MovedTable ==
    [i \in 0..(Grown - 1) |->
        IF head > tail /\ i >= MovedHead THEN table[i - (Grown - capacity)]
        ELSE IF i < capacity THEN table[i] ELSE Junk]

\* The assignments that end both pushes.
Put(x, t, c) ==
    /\ table' = [t EXCEPT ![tail] = x]
    /\ capacity' = c
    /\ tail' = (tail + 1) % c
    /\ size' = size + 1
    /\ UNCHANGED popped

queue_push(x) ==
    \/ ~Full /\ head' = head /\ Put(x, table, capacity)
    \/ Full /\ Grown <= MaxCapacity /\ head' = MovedHead /\ Put(x, MovedTable, Grown)

queue_push_fixed(x) ==
    /\ ~Full
    /\ head' = head /\ Put(x, table, capacity)

\* Mutant of queue_pop: the head does not wrap with the table.
queue_popShort ==
    /\ size > 0
    /\ popped' = table[head]
    /\ table' = [table EXCEPT ![head] = NULL]
    /\ head' = (head + 1) % InitCapacity
    /\ size' = size - 1
    /\ UNCHANGED <<capacity, tail>>

queue_pop ==
    /\ size > 0
    /\ popped' = table[head]
    /\ table' = [table EXCEPT ![head] = NULL]
    /\ head' = (head + 1) % capacity
    /\ size' = size - 1
    /\ UNCHANGED <<capacity, tail>>

\* A refused push changes nothing and is not a step.
Next == \/ \E x \in Element : queue_push(x) \/ queue_push_fixed(x)
        \/ queue_pop

Spec == Init /\ [][Next]_vars

-----------------------------------------------------------------------------
\* The queued elements, oldest first (queue_foreach).
Contents == [i \in 1..size |-> table[(head + i - 1) % capacity]]

\* Types and ranges of the variables.
TypeOK ==
    /\ capacity \in InitCapacity..MaxCapacity
    /\ table \in [0..(capacity - 1) -> Element \cup {NULL, Junk}]
    /\ head \in 0..(capacity - 1) /\ tail \in 0..(capacity - 1)
    /\ size \in 0..(capacity - 1)
    /\ popped \in Element \cup {NULL}

\* size, head and tail tell the same story, and one slot stays empty, so that
\* a full table is never taken for an empty one (queue.c:43, 88, 105).
IndexesAgree == tail = (head + size) % capacity

\* The table is a queue, through any sequence of pushes, pops and growths: each
\* pop returns the oldest element, none is lost, repeated or made up
\* (queue.c:33-116).
Queue == INSTANCE Fifo WITH contents <- Contents, out <- popped, None <- NULL
IsFifo == Queue!Spec

================================================================================
