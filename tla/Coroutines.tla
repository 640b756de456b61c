------------------------------- MODULE Coroutines -------------------------------
(***************************************************************************)
(* src/coroutine/coroutine.c: coroutines that run in turn on one stack.    *)
(* The part of the stack that is in use is copied out when a coroutine     *)
(* yields and copied back when it is resumed; the pool doubles when a new  *)
(* coroutine, which a running one may create, finds no slot.               *)
(*                                                                         *)
(* The stack is counted in words from its top, where a coroutine starts:   *)
(* stack[1] is the outermost frame, stack[sp] the innermost.               *)
(***************************************************************************)
EXTENDS Integers, Sequences, FiniteSets

CONSTANTS
    NULL,       \* an empty slot of the pool
    Word,       \* what a frame may hold
    StackSize,  \* STACK_SIZE
    InitPool,   \* DEFAULT_COROUTINE
    MaxPool,    \* bound: slots of the pool
    MaxLive,    \* bound: coroutines that live at once
    MaxDeep     \* bound: coroutines that have saved words of the stack

ASSUME CoroutinesAssumption ==
    /\ StackSize \in Nat \ {0}
    /\ InitPool \in Nat \ {0} /\ MaxPool \in Nat /\ InitPool <= MaxPool
    /\ MaxLive \in Nat /\ MaxDeep \in Nat
    /\ Word # {}
    /\ NULL \notin [status : {"ready", "running", "suspended"},
                    saved : Seq(Word), size : 0..StackSize, sp : 0..StackSize]

VARIABLES
    co,      \* the pool: slot -> coroutine or NULL
    cap,     \* slots in the pool
    nco,     \* coroutines in it
    running, \* the slot of the one that runs, or -1
    stack,   \* the shared stack
    sp,      \* the register: words of the stack in use (main uses none)
    phase,   \* the thread before, in and after coroutine_run
    turn     \* coroutine_run: the slot to look at next

vars == <<co, cap, nco, running, stack, sp, phase, turn>>

Slot == 0..(cap - 1)

\* What the memory of the stack holds at first.
SomeWord == CHOOSE w \in Word : TRUE

\* coroutine_open.
Init ==
    /\ cap = InitPool /\ nco = 0 /\ running = -1
    /\ co = [id \in 0..(InitPool - 1) |-> NULL]
    /\ stack = [k \in 1..StackSize |-> SomeWord] /\ sp = 0
    /\ phase = "setup" /\ turn = 0

-----------------------------------------------------------------------------
(* coroutine_new, by the thread before it runs the scheduler or by the       *)
(* coroutine that runs.                                                      *)

\* _co_new.  saved is what C->stack points to, sp the stack pointer in ctx.
Fresh == [status |-> "ready", saved |-> <<>>, size |-> 0, sp |-> 0]

MayCreate == (phase = "setup" \/ running # -1) /\ nco < MaxLive

\* Mutant of Enlarge: the table grows, its capacity is not recorded.
EnlargeUncounted ==
    /\ MayCreate /\ nco >= cap /\ 2 * cap <= MaxPool
    /\ co' = [id \in 0..(2 * cap - 1) |->
                IF id < cap THEN co[id] ELSE IF id = cap THEN Fresh ELSE NULL]
    /\ nco' = nco + 1
    /\ UNCHANGED <<cap, running, stack, sp, phase, turn>>

\* The pool is full: it doubles, and the first new slot is taken.
Enlarge ==
    /\ MayCreate /\ nco >= cap /\ 2 * cap <= MaxPool
    /\ co' = [id \in 0..(2 * cap - 1) |->
                IF id < cap THEN co[id] ELSE IF id = cap THEN Fresh ELSE NULL]
    /\ cap' = 2 * cap
    /\ nco' = nco + 1
    /\ UNCHANGED <<running, stack, sp, phase, turn>>

\* The i-th slot that is looked at.
Probe(i) == (i + nco) % cap

Occupy ==
    /\ MayCreate /\ nco < cap
    /\ \E i \in Slot : /\ co[Probe(i)] = NULL
                       /\ \A j \in Slot : j < i => co[Probe(j)] # NULL
                       /\ co' = [co EXCEPT ![Probe(i)] = Fresh]
    /\ nco' = nco + 1
    /\ UNCHANGED <<cap, running, stack, sp, phase, turn>>

-----------------------------------------------------------------------------
(* The coroutine that runs.                                                  *)

Call(w) ==
    /\ running # -1 /\ sp < StackSize
    /\ Cardinality({id \in Slot \ {running} : co[id] # NULL /\ co[id].saved # <<>>}) < MaxDeep
    /\ sp' = sp + 1
    /\ stack' = [stack EXCEPT ![sp + 1] = w]
    /\ UNCHANGED <<co, cap, nco, running, phase, turn>>

Return ==
    /\ running # -1 /\ sp > 0
    /\ sp' = sp - 1
    /\ UNCHANGED <<co, cap, nco, running, stack, phase, turn>>

\* Mutant of SaveStack: the size is recorded only when the copy is enlarged.
SaveStackSizeKept(c) ==
    IF Len(c.saved) < sp
    THEN [c EXCEPT !.saved = [k \in 1..sp |-> stack[sp - k + 1]], !.size = sp]
    ELSE [c EXCEPT !.saved = [k \in 1..Len(@) |->
                                IF k <= sp THEN stack[sp - k + 1] ELSE @[k]]]

\* _save_stack: the words in use, innermost first; the copy only grows.
SaveStack(c) ==
    [c EXCEPT !.saved = [k \in 1..(IF Len(@) < sp THEN sp ELSE Len(@)) |->
                           IF k <= sp THEN stack[sp - k + 1] ELSE @[k]],
              !.size = sp]

\* coroutine_yield.
Yield ==
    /\ running # -1
    /\ co' = [co EXCEPT ![running] =
                [SaveStack(@) EXCEPT !.status = "suspended", !.sp = sp]]
    /\ running' = -1 /\ sp' = 0
    /\ UNCHANGED <<cap, nco, stack, phase, turn>>

\* Mutant of End: the coroutine is still counted.
EndCounted ==
    /\ running # -1 /\ sp = 0
    /\ co' = [co EXCEPT ![running] = NULL]
    /\ running' = -1
    /\ UNCHANGED <<cap, nco, stack, sp, phase, turn>>

\* The function of the coroutine returned to mainfunc.
End ==
    /\ running # -1 /\ sp = 0
    /\ co' = [co EXCEPT ![running] = NULL]
    /\ nco' = nco - 1
    /\ running' = -1
    /\ UNCHANGED <<cap, stack, sp, phase, turn>>

-----------------------------------------------------------------------------
(* coroutine_run and coroutine_resume.                                       *)

InLoop == phase = "run" /\ running = -1

Start ==
    /\ phase = "setup"
    /\ phase' = "run" /\ turn' = cap
    /\ UNCHANGED <<co, cap, nco, running, stack, sp>>

\* The end of the for loop, and the test of the while loop.
Round ==
    /\ InLoop /\ turn >= cap
    /\ IF nco > 0 THEN turn' = 0 /\ UNCHANGED phase
                  ELSE phase' = "done" /\ UNCHANGED turn
    /\ UNCHANGED <<co, cap, nco, running, stack, sp>>

Skip ==
    /\ InLoop /\ turn < cap /\ co[turn] = NULL
    /\ turn' = turn + 1
    /\ UNCHANGED <<co, cap, nco, running, stack, sp, phase>>

\* A coroutine that was suspended has its words copied back to the top.
Restored(c) ==
    [k \in 1..StackSize |-> IF k <= c.size THEN c.saved[c.size - k + 1] ELSE stack[k]]

\* Mutant of Resume: the loop goes no further than there are coroutines.
ResumeCounted ==
    /\ InLoop /\ turn < cap /\ co[turn] # NULL
    /\ stack' = IF co[turn].status = "suspended" THEN Restored(co[turn]) ELSE stack
    /\ sp' = co[turn].sp
    /\ running' = turn
    /\ co' = [co EXCEPT ![turn].status = "running"]
    /\ turn' = IF turn + 1 < nco THEN turn + 1 ELSE cap
    /\ UNCHANGED <<cap, nco, phase>>

\* coroutine_resume.  The stack of a coroutine that is ready is empty.
Resume ==
    /\ InLoop /\ turn < cap /\ co[turn] # NULL
    /\ stack' = IF co[turn].status = "suspended" THEN Restored(co[turn]) ELSE stack
    /\ sp' = co[turn].sp
    /\ running' = turn
    /\ co' = [co EXCEPT ![turn].status = "running"]
    /\ turn' = turn + 1
    /\ UNCHANGED <<cap, nco, phase>>

-----------------------------------------------------------------------------
Main == Start \/ Round \/ Skip \/ Resume

Next ==
    \/ Enlarge \/ Occupy
    \/ \E w \in Word : Call(w)
    \/ Return \/ Yield \/ End
    \/ Main

Spec == Init /\ [][Next]_vars

\* The loop of coroutine_run goes on, and every coroutine yields: all those of
\* the program do so at the end of each turn of their endless loops.
FairSpec == Spec /\ WF_vars(Main) /\ WF_vars(Yield)

-----------------------------------------------------------------------------
Coroutine == [status : {"ready", "running", "suspended"},
              saved : Seq(Word), size : 0..StackSize, sp : 0..StackSize]

\* Types of the variables.
TypeOK ==
    /\ cap \in Nat \ {0} /\ nco \in Nat /\ turn \in Nat
    /\ running \in {-1} \cup Slot
    /\ co \in [Slot -> Coroutine \cup {NULL}]
    /\ stack \in [1..StackSize -> Word] /\ sp \in 0..StackSize
    /\ phase \in {"setup", "run", "done"}

Live == {id \in Slot : co[id] # NULL}

\* A coroutine is marked as running if and only if it is the one that runs, so
\* that no assertion of coroutine_resume fails (coroutine.c:135-162); and nco
\* is the number of coroutines: the search for a slot does not fail while one
\* is free (coroutine.c:117), nor does the scheduler stop while one lives.
Accounted ==
    /\ \A id \in Live : co[id].status = "running" <=> id = running
    /\ running # -1 => running \in Live
    /\ nco = Cardinality(Live)
    /\ phase = "done" => Live = {}

\* The stack of a coroutine, wherever its words are.
FramesOf(id) ==
    IF id = running THEN [k \in 1..sp |-> stack[k]]
    ELSE [k \in 1..co[id].sp |-> co[id].saved[co[id].size - k + 1]]

Abstract == INSTANCE Processes WITH
    Id <- 0..(MaxPool - 1),
    frames <- [id \in Live |-> FramesOf(id)],
    current <- running

\* Coroutines are processes with stacks of their own: whatever the others do
\* with the shared stack between a yield and the resume that follows, a
\* coroutine goes on with the words it had.
RunsPrivately == Abstract!Spec

\* Every coroutine that lives gets its turn again and again, also those that
\* are created while the scheduler is in the middle of a round.
EveryTurn ==
    \A id \in 0..(MaxPool - 1) :
        phase = "run" /\ id < cap /\ co[id] # NULL ~> running = id

================================================================================
