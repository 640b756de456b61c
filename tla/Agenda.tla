--------------------------------- MODULE Agenda ---------------------------------
(***************************************************************************)
(* What timers promise (src/src/timer.h), without a heap: a set of armed   *)
(* timers, each with the time it is due, its interval and the number of    *)
(* runs that follow the next one.  Each round reads the clock once, runs   *)
(* what was due before, earliest first, and ends when nothing is left.     *)
(***************************************************************************)
EXTENDS Integers

CONSTANTS NULL, Timer

VARIABLES
    armed,   \* for each timer NULL, or [due, after, repeat]
    phase,   \* "yield" between rounds, "loop" in one, "called" in a callback
    now,     \* the clock
    limit,   \* the clock as the round read it, 0 between rounds
    running  \* the timer whose callback runs

vars == <<armed, phase, now, limit, running>>

Entry == [due : Int, after : Int, repeat : Int]
Armed == {t \in Timer : armed[t] # NULL}
Due   == {t \in Armed : armed[t].due < limit}

Init ==
    /\ armed = [t \in Timer |-> NULL]
    /\ phase = "yield" /\ running = NULL
    /\ now = 0 /\ limit = 0

Arm(t) ==
    /\ phase # "loop" /\ t \notin Armed
    /\ armed'[t] \in Entry
    /\ armed' = [armed EXCEPT ![t] = armed'[t]]
    /\ UNCHANGED <<phase, now, limit, running>>

Cancel(t) ==
    /\ phase # "loop" /\ t \in Armed /\ t # running
    /\ armed' = [armed EXCEPT ![t] = NULL]
    /\ UNCHANGED <<phase, now, limit, running>>

Begin ==
    /\ phase = "yield"
    /\ phase' = "loop" /\ limit' = now
    /\ UNCHANGED <<armed, now, running>>

\* Earliest first.
Run(t) ==
    /\ phase = "loop" /\ t \in Due
    /\ \A u \in Armed : armed[t].due <= armed[u].due
    /\ phase' = "called" /\ running' = t
    /\ UNCHANGED <<armed, now, limit>>

\* A repetition counts down and keeps the rhythm; the last run disarms.
Again(e) ==
    CASE e.repeat = -1 -> [e EXCEPT !.due = e.due + e.after]
      [] e.repeat > 0  -> [e EXCEPT !.due = e.due + e.after, !.repeat = e.repeat - 1]
      [] OTHER         -> NULL

Return ==
    /\ phase = "called"
    /\ armed' = [armed EXCEPT ![running] = Again(armed[running])]
    /\ phase' = "loop" /\ running' = NULL
    /\ UNCHANGED <<now, limit>>

End ==
    /\ phase = "loop" /\ Due = {}
    /\ phase' = "yield" /\ limit' = 0
    /\ UNCHANGED <<armed, now, running>>

Tick ==
    /\ now' > now
    /\ UNCHANGED <<armed, phase, limit, running>>

Next ==
    \/ \E t \in Timer : Arm(t) \/ Cancel(t) \/ Run(t)
    \/ Begin \/ Return \/ End \/ Tick

Spec == Init /\ [][Next]_vars

================================================================================
