----------------------------- MODULE IntrusiveList -----------------------------
(***************************************************************************)
(* The circular, intrusive, doubly linked list of src/c-stl/list.[ch].     *)
(*                                                                         *)
(* An element embeds ONE pair of links (the macro as_list_item), so the    *)
(* links belong to the element and not to a list: an element that two      *)
(* lists claim at once makes both follow the same pair.  That is why the   *)
(* state here is a heap of links shared by all the lists of a program, and *)
(* why every operator below writes through the links exactly as the C      *)
(* code does, whether or not the element is where the caller thinks it is. *)
(*                                                                         *)
(* A dereference of a null pointer or a failed assert stops the process:   *)
(* fault becomes TRUE.                                                     *)
(***************************************************************************)
EXTENDS Integers, Sequences, SequencesExt

CONSTANTS
    Item,       \* the elements (structures that embed list_item)
    ListName,   \* the list headers
    NULL        \* the null pointer

ASSUME ListAssumption == NULL \notin Item /\ ListName # {}

Pointer == Item \cup {NULL}

\* All links and list headers of the process.
Memory == [prev : [Item -> Pointer], next : [Item -> Pointer],
           head : [ListName -> Pointer], tail : [ListName -> Pointer],
           size : [ListName -> Int], fault : BOOLEAN]

\* list_create: a zeroed header; the links of an element are zeroed by its owner.
EmptyMemory == [prev |-> [x \in Item |-> NULL], next |-> [x \in Item |-> NULL],
                head |-> [l \in ListName |-> NULL],
                tail |-> [l \in ListName |-> NULL],
                size |-> [l \in ListName |-> 0], fault |-> FALSE]

Crash(m) == [m EXCEPT !.fault = TRUE]

InsertFirst(m, l, x) ==
    [prev |-> [m.prev EXCEPT ![x] = x], next |-> [m.next EXCEPT ![x] = x],
     head |-> [m.head EXCEPT ![l] = x], tail |-> [m.tail EXCEPT ![l] = x],
     size |-> [m.size EXCEPT ![l] = 1], fault |-> m.fault]

InsertBefore(m, l, pos, x) ==
    IF pos = NULL \/ m.prev[pos] = NULL THEN Crash(m)
    ELSE [prev |-> [[m.prev EXCEPT ![x] = m.prev[pos]] EXCEPT ![pos] = x],
          next |-> [[m.next EXCEPT ![m.prev[pos]] = x] EXCEPT ![x] = pos],
          head |-> [m.head EXCEPT ![l] = IF @ = pos THEN x ELSE @],
          tail |-> m.tail,
          size |-> [m.size EXCEPT ![l] = @ + 1], fault |-> m.fault]

\* Mutant of InsertAfter: the tail is not moved when the new element is last.
InsertAfterTailKept(m, l, pos, x) ==
    IF pos = NULL \/ m.next[pos] = NULL THEN Crash(m)
    ELSE [prev |-> [[m.prev EXCEPT ![m.next[pos]] = x] EXCEPT ![x] = pos],
          next |-> [[m.next EXCEPT ![x] = m.next[pos]] EXCEPT ![pos] = x],
          head |-> m.head, tail |-> m.tail,
          size |-> [m.size EXCEPT ![l] = @ + 1], fault |-> m.fault]

InsertAfter(m, l, pos, x) ==
    IF pos = NULL \/ m.next[pos] = NULL THEN Crash(m)
    ELSE [prev |-> [[m.prev EXCEPT ![m.next[pos]] = x] EXCEPT ![x] = pos],
          next |-> [[m.next EXCEPT ![x] = m.next[pos]] EXCEPT ![pos] = x],
          head |-> m.head,
          tail |-> [m.tail EXCEPT ![l] = IF @ = pos THEN x ELSE @],
          size |-> [m.size EXCEPT ![l] = @ + 1], fault |-> m.fault]

PushFront(m, l, x) ==
    IF m.size[l] = 0 THEN InsertFirst(m, l, x)
                     ELSE InsertBefore(m, l, m.head[l], x)

PushBack(m, l, x) ==
    IF m.size[l] = 0 THEN InsertFirst(m, l, x)
                     ELSE InsertAfter(m, l, m.tail[l], x)

\* list_erase with one element left: the header is cleared whoever x is.
EraseOnly(m, l, x) ==
    [prev |-> [m.prev EXCEPT ![x] = NULL], next |-> [m.next EXCEPT ![x] = NULL],
     head |-> [m.head EXCEPT ![l] = NULL], tail |-> [m.tail EXCEPT ![l] = NULL],
     size |-> [m.size EXCEPT ![l] = @ - 1], fault |-> m.fault]

\* list_erase otherwise: x is unlinked from its neighbours, whichever list they
\* are in, and l's own pointers move only if they pointed at x.
EraseLinked(m, l, x) ==
    IF m.prev[x] = NULL \/ m.next[x] = NULL THEN Crash(m)
    ELSE [prev |-> [[m.prev EXCEPT ![m.next[x]] = m.prev[x]] EXCEPT ![x] = NULL],
          next |-> [[m.next EXCEPT ![m.prev[x]] = m.next[x]] EXCEPT ![x] = NULL],
          head |-> [m.head EXCEPT ![l] = IF @ = x THEN m.next[x] ELSE @],
          tail |-> [m.tail EXCEPT ![l] = IF m.head[l] # x /\ @ = x
                                         THEN m.prev[x] ELSE @],
          size |-> [m.size EXCEPT ![l] = @ - 1], fault |-> m.fault]

Erase(m, l, x) ==
    IF x = NULL THEN Crash(m)
    ELSE IF m.size[l] = 1 THEN EraseOnly(m, l, x) ELSE EraseLinked(m, l, x)

PopFront(m, l) == Erase(m, l, m.head[l])
PopBack(m, l)  == Erase(m, l, m.tail[l])

(***************************************************************************)
(* What a list stands for.                                                 *)
(***************************************************************************)

\* The circular successor and predecessor of position i in s.
After(s, i)    == IF i = Len(s) THEN s[1] ELSE s[i + 1]
Preceding(s, i) == IF i = 1 THEN s[Len(s)] ELSE s[i - 1]

\* List l of memory m is the circular list of the elements of s, in that order.
Represents(m, l, s) ==
    /\ m.size[l] = Len(s)
    /\ m.head[l] = IF s = <<>> THEN NULL ELSE s[1]
    /\ m.tail[l] = IF s = <<>> THEN NULL ELSE s[Len(s)]
    /\ \A i \in 1..Len(s) : /\ m.next[s[i]] = After(s, i)
                            /\ m.prev[s[i]] = Preceding(s, i)
    /\ \A i, j \in 1..Len(s) : s[i] = s[j] => i = j

\* m holds the lists that ls says, and nothing else: no pointer was followed to
\* nowhere, no element is in two lists, one in no list has null links.
Faithful(m, ls) ==
    /\ ~m.fault
    /\ \A l \in ListName : Represents(m, l, ls[l])
    /\ \A k, l \in ListName : k # l => ToSet(ls[k]) \cap ToSet(ls[l]) = {}
    /\ \A x \in Item : (\A l \in ListName : x \notin ToSet(ls[l]))
                         => m.next[x] = NULL /\ m.prev[x] = NULL

================================================================================
