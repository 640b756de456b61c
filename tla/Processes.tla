------------------------------- MODULE Processes -------------------------------
(***************************************************************************)
(* What coroutine.h promises: processes that take turns, each with a stack *)
(* of its own that nobody else touches and that it finds, after a yield,   *)
(* as it left it.  Abstract: nothing of it is code.                        *)
(***************************************************************************)
EXTENDS Integers, Sequences

CONSTANTS Id, Word

VARIABLES
    frames,  \* the stack of each process that lives
    current  \* the process whose turn it is, or -1

Init == frames = [id \in {} |-> <<>>] /\ current = -1

Live == DOMAIN frames

Create(id) ==
    /\ id \notin Live
    /\ frames' = [p \in Live \cup {id} |-> IF p = id THEN <<>> ELSE frames[p]]
    /\ UNCHANGED current

Resume(id) == current = -1 /\ id \in Live /\ current' = id /\ UNCHANGED frames

Call(w) ==
    /\ current # -1
    /\ frames' = [frames EXCEPT ![current] = Append(@, w)]
    /\ UNCHANGED current

Return ==
    /\ current # -1 /\ frames[current] # <<>>
    /\ frames' = [frames EXCEPT ![current] = SubSeq(@, 1, Len(@) - 1)]
    /\ UNCHANGED current

Yield == current # -1 /\ current' = -1 /\ UNCHANGED frames

End ==
    /\ current # -1 /\ frames[current] = <<>>
    /\ frames' = [p \in Live \ {current} |-> frames[p]]
    /\ current' = -1

Next ==
    \/ \E id \in Id : Create(id) \/ Resume(id)
    \/ \E w \in Word : Call(w)
    \/ Return \/ Yield \/ End

Spec == Init /\ [][Next]_<<frames, current>>

================================================================================
