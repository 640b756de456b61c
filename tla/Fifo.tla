---------------------------------- MODULE Fifo ----------------------------------
(* What a queue of src/c-stl/queue.h promises: elements leave in the order   *)
(* they entered, each as often as it entered.  Capacity is not part of it.   *)
EXTENDS Sequences

CONSTANTS Element, None

VARIABLES
    contents,
    out         \* the element that left last

vars == <<contents, out>>

Init == contents = <<>> /\ out = None

Enqueue ==
    /\ \E x \in Element : contents' = Append(contents, x)
    /\ UNCHANGED out

Dequeue ==
    /\ contents # <<>>
    /\ out' = Head(contents)
    /\ contents' = Tail(contents)

Next == Enqueue \/ Dequeue

Spec == Init /\ [][Next]_vars

================================================================================
