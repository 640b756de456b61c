--------------------------------- MODULE Timers ---------------------------------
(***************************************************************************)
(* The timers of src/src/timer.c and, with the same code but absolute      *)
(* times and no repetition, the moments of src/src/moment.c: the heap of   *)
(* Heap, a store of recycled chunks, and the coroutine check_timers with   *)
(* callbacks that add and delete timers.                                   *)
(*                                                                         *)
(* One action is one call of the program, one turn of the loop of          *)
(* check_timers, or one turn of the loop of heap_up or heap_down, during   *)
(* which nothing else runs.                                                *)
(***************************************************************************)
EXTENDS Integers, Sequences

CONSTANTS
    NULL,      \* the null pointer
    MaxTimers, \* bound: chunks that exist at once
    Instants,  \* bound: the times the clock may show, from 0 on
    Kinds,     \* which of "timer" and "moment" are considered
    Delays,    \* seconds from now at which something may be due
    Repeats,   \* repetitions: 0 for none, -1 without end
    HeapSize,  \* the length of the heap's array at first, 128 in the code
    Deletes,   \* whether the program calls del_timer itself
    Past       \* whether callbacks add moments that are past

ASSUME TimersAssumption ==
    /\ MaxTimers \in Nat
    /\ Instants \subseteq Nat /\ 0 \in Instants
    /\ NULL \notin Int /\ NULL \notin [due : Int, after : Int, repeat : Int]
    /\ Kinds \subseteq {"timer", "moment"}
    /\ Delays \subseteq Int
    /\ Repeats \subseteq {-1} \cup Nat
    /\ HeapSize \in Nat /\ HeapSize >= 2
    /\ Deletes \in BOOLEAN /\ Past \in BOOLEAN

Timer == 1..MaxTimers \* chunks, in the order in which malloc returns them

H == INSTANCE Heap WITH Element <- Timer, Size <- MaxTimers

VARIABLES
    kind,      \* what this manager manages
    heap,      \* g_timers
    size,      \* g_timers->size, the length of its array
    key, after, repeat,  \* the fields of each chunk
    free,      \* g_timer_store: recycled chunks, first in first out
    made,      \* chunks that were ever allocated
    lost,      \* history: the chunks of calls whose heap_push failed
    leaving,   \* the chunk that heap_erase took out and is not recycled yet
    now,       \* the clock
    limit,     \* check_timers: the clock as read at the head of the round, 0 between
    pc,        \* "yield", "loop", "called", or in heap code "up", "down"
    at,        \* heap_up, heap_down: the current slot
    back,      \* where the heap code returns to
    cur        \* check_timers: the timer whose callback runs

clock  == <<now, limit>>
fields == <<key, after, repeat>>
store  == <<free, made, size, lost>>
vars == <<kind, heap, fields, store, leaving, clock, pc, at, back, cur>>

Init ==
    /\ kind \in Kinds
    /\ heap = H!EmptyHeap /\ size = HeapSize
    /\ key = [t \in Timer |-> 0]
    /\ after = [t \in Timer |-> 0]
    /\ repeat = [t \in Timer |-> 0]
    /\ free = <<>> /\ made = 0 /\ lost = {}
    /\ leaving = NULL
    /\ now = 0 /\ limit = 0
    /\ pc = "yield" /\ at = 0 /\ back = "yield"
    /\ cur = NULL

\* The program runs between rounds and in callbacks.
ProgramRuns == pc \in {"yield", "called"}

Live == H!Elements(heap)

-----------------------------------------------------------------------------
(* The store.                                                              *)

\* extract_chunk: a recycled chunk, or a new one.
CanExtract == free # <<>> \/ made < MaxTimers
Extracted  == IF free # <<>> THEN Head(free) ELSE made + 1

Extract ==
    IF free # <<>> THEN free' = Tail(free) /\ made' = made
                   ELSE free' = free /\ made' = made + 1

-----------------------------------------------------------------------------
(* The loops of the heap.                                                  *)

GoUp(k, to)   == pc' = "up" /\ at' = k /\ back' = to
GoDown(k, to) == pc' = "down" /\ at' = k /\ back' = to

HeapUp ==
    /\ pc = "up" /\ H!Rises(heap, key, at)
    /\ heap' = H!Swap(heap, at, H!Parent(at))
    /\ at' = H!Parent(at)
    /\ UNCHANGED <<kind, fields, store, leaving, clock, pc, back, cur>>

HeapDown ==
    /\ pc = "down" /\ H!Sinks(heap, key, at)
    /\ LET next == H!LesserChild(heap, key, at)
       IN  heap' = H!Swap(heap, next, at) /\ at' = next
    /\ UNCHANGED <<kind, fields, store, leaving, clock, pc, back, cur>>

\* The fields of a recycled chunk are never read: the model clears them.
Cleared(field) ==
    IF leaving = NULL THEN field ELSE [field EXCEPT ![leaving] = 0]

\* Mutant of Settle: the chunk is not recycled.
SettleLeak ==
    /\ \/ pc = "up" /\ ~H!Rises(heap, key, at)
       \/ pc = "down" /\ ~H!Sinks(heap, key, at)
    /\ pc' = back
    /\ at' = 0 /\ back' = "yield"
    /\ heap' = H!Trimmed(heap)
    /\ key' = Cleared(key) /\ after' = Cleared(after) /\ repeat' = Cleared(repeat)
    /\ leaving' = NULL
    /\ UNCHANGED <<kind, store, clock, cur>>

\* The loop breaks; after heap_erase del_timer recycles the chunk.
Settle ==
    /\ \/ pc = "up" /\ ~H!Rises(heap, key, at)
       \/ pc = "down" /\ ~H!Sinks(heap, key, at)
    /\ pc' = back
    /\ at' = 0 /\ back' = "yield"
    /\ heap' = H!Trimmed(heap)
    /\ free' = IF leaving = NULL THEN free ELSE Append(free, leaving)
    /\ key' = Cleared(key) /\ after' = Cleared(after) /\ repeat' = Cleared(repeat)
    /\ leaving' = NULL
    /\ UNCHANGED <<kind, made, size, lost, clock, cur>>

\* heap_erase of slot k: heap_adjust compares pointers instead of keys
\* (heap.h:24), so below, which chunk lies lower in memory, decides whether the
\* element that fills the slot goes up or down.
Erase(k, below, to) ==
    /\ H!CanErase(heap, k)
    /\ leaving' = heap.table[k]
    /\ heap' = H!Filled(heap, k)
    /\ IF k > 1 /\ below THEN GoUp(k, to) ELSE GoDown(k, to)

-----------------------------------------------------------------------------
(* The program.                                                            *)

\* A chunk is filled in and pushed; the array has room or grows.
Arm(due, interval, times) ==
    /\ ProgramRuns /\ CanExtract
    /\ Extract
    /\ size' = IF H!Full(heap, size) THEN H!Grown(size) ELSE size
    /\ LET t == Extracted
       IN  /\ key' = [key EXCEPT ![t] = due]
           /\ after' = [after EXCEPT ![t] = interval]
           /\ repeat' = [repeat EXCEPT ![t] = times]
           /\ heap' = H!Pushed(heap, t)
    /\ GoUp(heap.count + 1, pc)
    /\ UNCHANGED <<kind, lost, leaving, clock, cur>>

\* The array is full and cannot grow: the caller gets NULL, and the chunk that
\* was extracted is neither armed nor recycled (timer.c:54-55).  What was
\* written into it is never read.
Forget ==
    /\ ProgramRuns /\ CanExtract
    /\ H!Full(heap, size)
    /\ Extract
    /\ lost' = lost \cup {Extracted}
    /\ UNCHANGED <<kind, heap, size, fields, leaving, clock, pc, at, back, cur>>

\* Without end and without delay, check_timers would never leave its loop.
add_timer(interval, times) ==
    /\ kind = "timer"
    /\ interval >= 0 /\ (times = -1 => interval > 0)
    /\ Arm(now + interval, interval, times) \/ Forget

\* A moment may be in the past.
add_moment(delay) ==
    /\ kind = "moment"
    /\ pc = "called" /\ delay < 0 => Past
    /\ Arm(now + delay, 0, 0) \/ Forget

\* The program deletes what it added; in a callback, not the timer that runs.
del_timer(t, below) ==
    /\ ProgramRuns /\ Deletes
    /\ t \in Live /\ t # cur
    /\ Erase(heap.index[t], below, pc)
    /\ UNCHANGED <<kind, fields, store, clock, cur>>

-----------------------------------------------------------------------------
(* check_timers and check_moments.                                         *)

\* Mutant of Check: the clock is read once, when the coroutine starts.
CheckOnce ==
    /\ pc = "yield"
    /\ pc' = "loop"
    /\ UNCHANGED <<kind, heap, fields, store, leaving, clock, at, back, cur>>

Check ==
    /\ pc = "yield"
    /\ pc' = "loop"
    /\ limit' = now
    /\ UNCHANGED <<kind, heap, fields, store, leaving, now, at, back, cur>>

IsDue == heap.count > 0 /\ key[heap.table[1]] < limit

Fire ==
    /\ pc = "loop" /\ IsDue
    /\ cur' = heap.table[1]
    /\ pc' = "called"
    /\ UNCHANGED <<kind, heap, fields, store, leaving, clock, at, back>>

\* Mutant of Repeated: the interval counts from now.
RepeatedDrift ==
    /\ pc = "called" /\ repeat[cur] # 0
    /\ key' = [key EXCEPT ![cur] = now + after[cur]]
    /\ repeat' = [repeat EXCEPT ![cur] = IF @ > 0 THEN @ - 1 ELSE @]
    /\ GoDown(heap.index[cur], "loop")
    /\ cur' = NULL
    /\ UNCHANGED <<kind, heap, after, store, leaving, clock>>

\* The callback returned and the timer runs again later.
Repeated ==
    /\ pc = "called" /\ repeat[cur] # 0
    /\ key' = [key EXCEPT ![cur] = @ + after[cur]]
    /\ repeat' = [repeat EXCEPT ![cur] = IF @ > 0 THEN @ - 1 ELSE @]
    /\ GoDown(heap.index[cur], "loop")
    /\ cur' = NULL
    /\ UNCHANGED <<kind, heap, after, store, leaving, clock>>

\* The callback returned and that was the last time.
Finished(below) ==
    /\ pc = "called" /\ repeat[cur] = 0
    /\ Erase(heap.index[cur], below, "loop")
    /\ cur' = NULL
    /\ UNCHANGED <<kind, fields, store, clock>>

CheckEnd ==
    /\ pc = "loop" /\ ~IsDue
    /\ pc' = "yield"
    /\ limit' = 0
    /\ UNCHANGED <<kind, heap, fields, store, leaving, now, at, back, cur>>

Tick ==
    /\ ProgramRuns
    /\ \E n \in Instants : n > now /\ now' = n
    /\ UNCHANGED <<kind, heap, fields, store, leaving, limit, pc, at, back, cur>>

-----------------------------------------------------------------------------
Return == Repeated \/ \E below \in BOOLEAN : Finished(below)
HeapStep == HeapUp \/ HeapDown \/ Settle

Next ==
    \/ HeapStep
    \/ \E d \in Delays : add_moment(d) \/ \E n \in Repeats : add_timer(d, n)
    \/ \E t \in Timer, below \in BOOLEAN : del_timer(t, below)
    \/ Check \/ Fire \/ Return \/ CheckEnd
    \/ Tick

Spec == Init /\ [][Next]_vars

\* The thread never blocks: loops go on, the coroutines take turns, so that
\* check_timers has its turn again and again, and callbacks return.
FairSpec ==
    /\ Spec
    /\ WF_vars(HeapStep) /\ WF_vars(Fire) /\ WF_vars(CheckEnd)
    /\ SF_vars(Check) /\ SF_vars(Return)

-----------------------------------------------------------------------------
\* Whenever no loop of the heap runs, it is the heap with the least key on top
\* that timer.c:8 calls it, and every timer knows its slot; the slots that are
\* used are in the array (heap.h:16), however often that grew.
HeapOrdered ==
    /\ pc \notin {"up", "down"} => H!Ordered(heap, key) /\ H!Indexed(heap)
    /\ heap.count < size

\* Every chunk that was allocated is armed, recycled, on its way from the one to
\* the other (timer.c:22,62), or was lost when heap_push failed (timer.c:54-55):
\* exactly one of them, so that none is given out twice, and none is lost in any
\* other way.
ChunksConserved ==
    LET recycled == {free[i] : i \in 1..Len(free)}
        out      == IF leaving = NULL THEN {} ELSE {leaving}
    IN  /\ \A i, j \in 1..Len(free) : free[i] = free[j] => i = j
        /\ Live \cup recycled \cup out \cup lost = 1..made
        /\ Live \cap recycled = {} /\ (Live \cup recycled) \cap out = {}
        /\ (Live \cup recycled \cup out) \cap lost = {}

\* Timers run earliest first, each one time more than its repetitions
\* (timer.h:29), and a round ends only when nothing is due (timer.c:85-114).
agenda == INSTANCE Agenda WITH
    armed   <- [t \in Timer |->
                  IF t \in Live
                  THEN [due |-> key[t], after |-> after[t], repeat |-> repeat[t]]
                  ELSE NULL],
    phase   <- IF pc \in {"up", "down"} THEN back ELSE pc,
    running <- cur

IsAgenda == agenda!Spec

\* A callback adds a moment that is past.
ArmsPast == pc = "called" /\ \E d \in Delays : d < 0 /\ add_moment(d)

\* If callbacks stop adding what is already past, again and again a round ends,
\* which gives the thread back to the other coroutines, with nothing overdue
\* (timer.c:79-119, moment.c:69-94).
NothingStaysOverdue ==
    <>[][~ArmsPast]_vars => []<>(pc = "yield" /\ \A t \in Live : key[t] >= now)

================================================================================
