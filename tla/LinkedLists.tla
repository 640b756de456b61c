------------------------------ MODULE LinkedLists ------------------------------
(***************************************************************************)
(* A program that keeps its elements in several lists of src/c-stl/list.c  *)
(* and obeys the one rule the single pair of links imposes: it inserts     *)
(* only elements that are in no list, and erases an element only from the  *)
(* list that holds it.  lists is a history variable, the sequences such a  *)
(* program believes its lists to be; mem is what the C code really holds.  *)
(*                                                                         *)
(* walk is a list_foreach in progress (list_for_each visits alike).  Its   *)
(* body may erase the element it is given and even link it elsewhere, as   *)
(* check_alive does (src/src/alive.c:18-41); elements may be appended      *)
(* meanwhile; anything else on the walked list waits for the walk to end.  *)
(***************************************************************************)
EXTENDS IntrusiveList

VARIABLES
    mem,    \* links and headers
    lists,  \* history: what each list should be
    walk,   \* the iteration: index (left), item, and the list it walks
    snap    \* history: what the walked list was when the walk began

vars == <<mem, lists, walk, snap>>

NoWalk == [on |-> FALSE, list |-> CHOOSE l \in ListName : TRUE,
           left |-> 0, item |-> NULL]

\* A zeroed element, in no list.
Loose(x) == \A l \in ListName : x \notin ToSet(lists[l])

\* No iteration over l is in progress.
Still(l) == ~(walk.on /\ walk.list = l)

Init ==
    /\ mem = EmptyMemory
    /\ lists = [l \in ListName |-> <<>>]
    /\ walk = NoWalk
    /\ snap = <<>>

-----------------------------------------------------------------------------
InsertBeforeItem(l, i, x) ==
    /\ Still(l) /\ Loose(x)
    /\ mem' = InsertBefore(mem, l, lists[l][i], x)
    /\ lists' = [lists EXCEPT ![l] = InsertAt(@, i, x)]
    /\ UNCHANGED <<walk, snap>>

InsertAfterItem(l, i, x) ==
    /\ Still(l) /\ Loose(x)
    /\ mem' = InsertAfter(mem, l, lists[l][i], x)
    /\ lists' = [lists EXCEPT ![l] = InsertAt(@, i + 1, x)]
    /\ UNCHANGED <<walk, snap>>

PushFrontItem(l, x) ==
    /\ Still(l) /\ Loose(x)
    /\ mem' = PushFront(mem, l, x)
    /\ lists' = [lists EXCEPT ![l] = InsertAt(@, 1, x)]
    /\ UNCHANGED <<walk, snap>>

PushBackItem(l, x) ==
    /\ Loose(x)
    /\ mem' = PushBack(mem, l, x)
    /\ lists' = [lists EXCEPT ![l] = Append(@, x)]
    /\ UNCHANGED <<walk, snap>>

EraseItem(l, i) ==
    /\ Still(l)
    /\ mem' = Erase(mem, l, lists[l][i])
    /\ lists' = [lists EXCEPT ![l] = RemoveAt(@, i)]
    /\ UNCHANGED <<walk, snap>>

PopFrontItem(l) ==
    /\ Still(l) /\ mem.size[l] > 0
    /\ mem' = PopFront(mem, l)
    /\ lists' = [lists EXCEPT ![l] = RemoveAt(@, 1)]
    /\ UNCHANGED <<walk, snap>>

PopBackItem(l) ==
    /\ Still(l) /\ mem.size[l] > 0
    /\ mem' = PopBack(mem, l)
    /\ lists' = [lists EXCEPT ![l] = RemoveAt(@, Len(@))]
    /\ UNCHANGED <<walk, snap>>

-----------------------------------------------------------------------------
(* list_foreach(list, index, item, temp).  temp, the next element, is read  *)
(* before the body runs.                                                    *)

BeginWalk(l) ==
    /\ ~walk.on
    /\ walk' = [on |-> TRUE, list |-> l, left |-> mem.size[l], item |-> mem.head[l]]
    /\ snap' = lists[l]
    /\ UNCHANGED <<mem, lists>>

\* Mutant of WalkGoesOn: the index is not tested, and the list is circular.
WalkGoesOnUncounted == /\ walk.on /\ walk.item # NULL
                       /\ mem.next[walk.item] # NULL

\* The loop condition of the macro.
WalkGoesOn == /\ walk.on /\ walk.left > 0
              /\ walk.item # NULL
              /\ mem.next[walk.item] # NULL

\* Mutant of Advance: the index is never decremented.
AdvanceUncounted(w, m) == [w EXCEPT !.item = m.next[w.item]]

Advance(w, m) == [w EXCEPT !.left = @ - 1, !.item = m.next[w.item]]

\* The body leaves the element where it is.
VisitKeep ==
    /\ WalkGoesOn
    /\ walk' = Advance(walk, mem)
    /\ UNCHANGED <<mem, lists, snap>>

\* Mutant of VisitErase: the next element is read after the body.
VisitEraseLate ==
    /\ WalkGoesOn
    /\ mem' = Erase(mem, walk.list, walk.item)
    /\ lists' = [lists EXCEPT ![walk.list] = RemoveFirst(@, walk.item)]
    /\ walk' = Advance(walk, mem')
    /\ UNCHANGED snap

\* The body erases the element.
VisitErase ==
    /\ WalkGoesOn
    /\ mem' = Erase(mem, walk.list, walk.item)
    /\ lists' = [lists EXCEPT ![walk.list] = RemoveFirst(@, walk.item)]
    /\ walk' = Advance(walk, mem)
    /\ UNCHANGED snap

\* The body erases the element and appends it to another list.
VisitMove(k) ==
    /\ WalkGoesOn /\ k # walk.list
    /\ mem' = PushBack(Erase(mem, walk.list, walk.item), k, walk.item)
    /\ lists' = [lists EXCEPT ![walk.list] = RemoveFirst(@, walk.item),
                              ![k] = Append(@, walk.item)]
    /\ walk' = Advance(walk, mem)
    /\ UNCHANGED snap

EndWalk ==
    /\ walk.on /\ ~WalkGoesOn
    /\ walk' = NoWalk
    /\ snap' = <<>>
    /\ UNCHANGED <<mem, lists>>

WalkStep == VisitKeep \/ VisitErase \/ (\E k \in ListName : VisitMove(k)) \/ EndWalk

Next ==
    \/ \E l \in ListName, x \in Item :
          \/ PushFrontItem(l, x)
          \/ PushBackItem(l, x)
          \/ \E i \in 1..Len(lists[l]) : InsertBeforeItem(l, i, x)
          \/ \E i \in 1..Len(lists[l]) : InsertAfterItem(l, i, x)
    \/ \E l \in ListName :
          \/ \E i \in 1..Len(lists[l]) : EraseItem(l, i)
          \/ PopFrontItem(l)
          \/ PopBackItem(l)
          \/ BeginWalk(l)
    \/ WalkStep

Spec == Init /\ [][Next]_vars

\* A loop that has been entered is executed to its end.
FairSpec == Spec /\ WF_vars(WalkStep)

-----------------------------------------------------------------------------
\* Types of the variables.
TypeOK ==
    /\ mem \in Memory
    /\ lists \in [ListName -> Seq(Item)]
    /\ walk \in [on : BOOLEAN, list : ListName, left : Nat, item : Pointer]
    /\ snap \in Seq(Item)

\* The links, heads, tails and sizes left by any sequence of insertions and
\* erasures over all the lists describe exactly the sequences the program
\* believes in, no element is in two lists, an element in no list has null
\* links, and no operation dereferenced a null pointer (list.c:34-155).
ListsFaithful == Faithful(mem, lists)

\* A foreach visits the elements the list had when the walk began, in order,
\* whatever its body did to the elements already visited and whatever was
\* appended: the next element to visit is the next of the snapshot, and the
\* loop condition fails only when all of them were visited (list.h:85-88).
WalkExact ==
    walk.on => /\ walk.left \in 0..Len(snap)
               /\ walk.left > 0 => walk.item = snap[Len(snap) - walk.left + 1]
               /\ WalkGoesOn \/ walk.left = 0

\* A foreach ends, even over a list that keeps growing (list.h:85-88).
WalkEnds == walk.on ~> ~walk.on

================================================================================
