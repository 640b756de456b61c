------------------------------ MODULE ThreadsProofs ------------------------------
(***************************************************************************)
(* Theorems about what runs concurrently.                                  *)
(*                                                                         *)
(* Coroutines, for any pool, any size of the stack and any words: the pool *)
(* is accounted for, and coroutines that share one stack behave as the     *)
(* processes with stacks of their own of Processes.                        *)
(*                                                                         *)
(* DbQueue, for any capacity and any number of messages: the race of the   *)
(* two threads on size may lose messages, but the indexes stay in the      *)
(* table and no message is run twice.                                      *)
(***************************************************************************)
EXTENDS Coroutines, DbQueue, SequenceTheorems, FiniteSetTheorems, TLAPS

-----------------------------------------------------------------------------
(* The coroutine scheduler.                                                 *)

\* What a coroutine that does not run has saved: all its words, and none if it
\* never ran.
Kept ==
    \A id \in Live : id # running =>
        /\ co[id].sp = co[id].size /\ co[id].size <= Len(co[id].saved)
        /\ co[id].status = "ready" => co[id].sp = 0

\* The words that are copied back are words only if they were all saved, so
\* that not even the types are inductive without Kept.
Inv == TypeOK /\ Accounted /\ cap <= MaxPool /\ Kept

Stacks == [id \in Live |-> FramesOf(id)]

-----------------------------------------------------------------------------
(* Sequences, coroutines and the set of those that live.                    *)

LEMMA FunctionIsSeq ==
    ASSUME NEW n \in Nat, NEW f \in [1..n -> Word]
    PROVE  f \in Seq(Word) /\ Len(f) = n
  OBVIOUS

LEMMA FreshIsCoroutine ==
    Fresh \in Coroutine /\ Fresh # NULL
<1>1. <<>> \in Seq(Word)
  BY EmptySeq
<1>2. Fresh \in Coroutine
  BY <1>1, CoroutinesAssumption DEF Fresh, Coroutine
<1> QED  BY <1>2, CoroutinesAssumption DEF Coroutine

\* The fields of a coroutine that lives.
LEMMA Fields ==
    ASSUME TypeOK, NEW id \in Live
    PROVE  /\ id \in Slot /\ co[id] \in Coroutine
           /\ co[id].saved \in Seq(Word)
           /\ co[id].size \in 0..StackSize /\ co[id].sp \in 0..StackSize
  BY DEF TypeOK, Live, Coroutine

LEMMA LiveFinite == TypeOK => IsFiniteSet(Live)
<1> SUFFICES ASSUME TypeOK PROVE IsFiniteSet(Live)
  OBVIOUS
<1>1. IsFiniteSet(0..(cap - 1))
  BY FS_Interval DEF TypeOK
<1> QED  BY <1>1, FS_Subset DEF Live, Slot

\* A stack is a sequence of words.
LEMMA StackIsSeq ==
    ASSUME Inv, NEW id \in Live
    PROVE  /\ FramesOf(id) \in Seq(Word)
           /\ Len(FramesOf(id)) = IF id = running THEN sp ELSE co[id].sp
<1>1. CASE id = running
  <2>1. FramesOf(id) \in [1..sp -> Word] /\ sp \in Nat
    BY <1>1, CoroutinesAssumption DEF Inv, TypeOK, FramesOf
  <2> QED  BY <1>1, <2>1, FunctionIsSeq
<1>2. CASE id # running
  <2>1. PICK n \in Nat : n = co[id].sp
    BY Fields, CoroutinesAssumption DEF Inv
  <2>2. n = co[id].size /\ n <= Len(co[id].saved)
    BY <1>2, <2>1 DEF Inv, Kept
  <2>3. ASSUME NEW k \in 1..n PROVE co[id].saved[n - k + 1] \in Word
    <3>1. n - k + 1 \in 1..Len(co[id].saved)
      BY <2>2, Fields, LenProperties DEF Inv
    <3> QED  BY <3>1, Fields, ElementOfSeq DEF Inv
  <2>4. FramesOf(id) = [k \in 1..n |-> co[id].saved[n - k + 1]]
    BY <1>2, <2>1, <2>2 DEF FramesOf
  <2>5. FramesOf(id) \in [1..n -> Word]
    BY <2>3, <2>4
  <2> QED  BY <1>2, <2>1, <2>5, FunctionIsSeq
<1> QED  BY <1>1, <1>2

-----------------------------------------------------------------------------
LEMMA InitInv == Init => Inv /\ Abstract!Init
<1> SUFFICES ASSUME Init PROVE Inv /\ Abstract!Init
  OBVIOUS
<1>1. Live = {}
  BY DEF Init, Live, Slot
<1>2. TypeOK
  BY CoroutinesAssumption DEF Init, TypeOK, Slot, SomeWord
<1>3. Accounted
  BY <1>1, FS_EmptySet DEF Init, Accounted
<1>4. Inv
  BY <1>1, <1>2, <1>3, CoroutinesAssumption DEF Init, Inv, Kept
<1>5. Abstract!Init
  BY <1>1 DEF Init, Abstract!Init
<1> QED  BY <1>4, <1>5

-----------------------------------------------------------------------------
(* coroutine_new.                                                           *)

\* The pool, grown or not, is the old one with a new coroutine in a slot that
\* was free.
Created(id) ==
    /\ Live' = Live \cup {id} /\ id \notin Live /\ id \in Slot'
    /\ co'[id] = Fresh
    /\ \A j \in Live : co'[j] = co[j]
    /\ nco' = nco + 1
    /\ phase # "done"
    /\ UNCHANGED <<running, stack, sp, phase, turn>>

LEMMA EnlargeCreates ==
    ASSUME Inv, Enlarge
    PROVE  TypeOK' /\ cap' <= MaxPool /\ Created(cap)
<1> USE DEF Inv, TypeOK
<1>1. cap' = 2 * cap /\ cap \in Slot' /\ Slot \subseteq Slot' /\ cap' <= MaxPool
  BY CoroutinesAssumption DEF Enlarge, Slot
<1>2. \A j \in Slot' : co'[j] = IF j < cap THEN co[j] ELSE IF j = cap THEN Fresh ELSE NULL
  BY <1>1 DEF Enlarge, Slot
<1>3. \A j \in Slot : co'[j] = co[j]
  BY <1>1, <1>2 DEF Slot
<1>4. co' \in [Slot' -> Coroutine \cup {NULL}]
  <2>1. \A j \in Slot' : co'[j] \in Coroutine \cup {NULL}
    BY <1>2, FreshIsCoroutine DEF Slot
  <2>2. co' = [j \in Slot' |-> co'[j]]
    BY <1>1 DEF Enlarge, Slot
  <2> QED  BY <2>1, <2>2
<1>5. nco' = nco + 1 /\ UNCHANGED <<running, stack, sp, phase, turn>>
  BY DEF Enlarge
<1>6. TypeOK'
  BY <1>1, <1>4, <1>5
<1>7. Live' = Live \cup {cap} /\ cap \notin Live
  <2>1. co'[cap] # NULL /\ cap \notin Slot
    BY <1>1, <1>2, FreshIsCoroutine DEF Slot
  <2>2. ASSUME NEW j PROVE j \in Live' <=> j \in Live \/ j = cap
    BY <1>1, <1>2, <1>3, <2>1 DEF Live, Slot
  <2> QED  BY <2>1, <2>2 DEF Live
<1>8. phase # "done"
  BY DEF Enlarge, MayCreate, Accounted
<1>9. co'[cap] = Fresh /\ \A j \in Live : co'[j] = co[j]
  BY <1>1, <1>2, <1>3 DEF Live
<1>10. Created(cap)
  BY <1>1, <1>5, <1>7, <1>8, <1>9 DEF Created
<1> QED  BY <1>1, <1>6, <1>10

LEMMA OccupyCreates ==
    ASSUME Inv, Occupy
    PROVE  TypeOK' /\ cap' <= MaxPool /\ \E id \in Slot : Created(id)
<1> USE DEF Inv, TypeOK
<1>1. PICK i \in Slot : co[Probe(i)] = NULL /\ co' = [co EXCEPT ![Probe(i)] = Fresh]
  BY DEF Occupy
<1>2. PICK id : id = Probe(i)
  OBVIOUS
<1>3. id \in Slot
  BY <1>2 DEF Probe, Slot
<1>4. co[id] = NULL /\ co' = [co EXCEPT ![id] = Fresh] /\ cap' = cap
  BY <1>1, <1>2 DEF Occupy
<1>5. Slot' = Slot
  BY <1>4 DEF Slot
<1>6. co' \in [Slot' -> Coroutine \cup {NULL}]
  BY <1>3, <1>4, <1>5, FreshIsCoroutine
<1>7. TypeOK'
  BY <1>5, <1>6 DEF Occupy
<1>8. Live' = Live \cup {id} /\ id \notin Live
  <2>1. ASSUME NEW j PROVE j \in Live' <=> j \in Live \/ j = id
    BY <1>3, <1>4, <1>5, FreshIsCoroutine DEF Live
  <2> QED  BY <1>4, <2>1 DEF Live
<1>9. phase # "done"
  BY DEF Occupy, MayCreate, Accounted
<1>10. Created(id)
  BY <1>3, <1>4, <1>5, <1>8, <1>9 DEF Created, Occupy, Live
<1> QED  BY <1>3, <1>4, <1>7, <1>10

LEMMA CreationKeeps ==
    ASSUME Inv, TypeOK', cap' <= MaxPool, NEW id, Created(id)
    PROVE  Inv' /\ Abstract!Create(id)
<1>1. \A j \in Live : co'[j] = co[j]
  BY DEF Created
<1>2. running # id /\ (running # -1 => running \in Live)
  BY DEF Inv, Accounted, Created, TypeOK, Live, Slot
<1>3. Cardinality(Live') = Cardinality(Live) + 1
  BY LiveFinite, FS_AddElement DEF Created, Inv
<1>4. Accounted'
  BY <1>1, <1>2, <1>3 DEF Created, Inv, Accounted, Fresh
<1>5. Kept'
  <2>1. Len(<<>>) = 0
    BY EmptySeq
  <2> QED  BY <1>1, <2>1 DEF Created, Inv, Kept, Fresh
<1>6. Inv'
  BY <1>4, <1>5 DEF Inv
<1>7. \A j \in Live : FramesOf(j)' = FramesOf(j)
  BY <1>1 DEF Created, FramesOf
<1>8. FramesOf(id)' = <<>>
  <2>1. id \in Live' /\ running' # id /\ co'[id].sp = 0
    BY <1>2 DEF Created, Fresh
  <2>2. FramesOf(id)' \in [1..0 -> Word]
    BY <2>1 DEF FramesOf
  <2>3. FramesOf(id)' \in Seq(Word) /\ Len(FramesOf(id)') = 0
    BY <2>2, FunctionIsSeq
  <2> QED  BY <2>3, EmptySeq
<1>9. Abstract!Create(id)
  BY <1>7, <1>8 DEF Created, Abstract!Create, Abstract!Live
<1> QED  BY <1>6, <1>9

-----------------------------------------------------------------------------
(* The coroutine that runs.                                                 *)

\* Only the stack of the coroutine that runs has changed.
LEMMA OwnStackChanges ==
    ASSUME Inv, running # -1, UNCHANGED <<co, cap, nco, running, phase, turn>>,
           stack' \in [1..StackSize -> Word], sp' \in 0..StackSize
    PROVE  /\ Inv' /\ running \in Live /\ Live' = Live
           /\ \A id \in Live : id # running => FramesOf(id)' = FramesOf(id)
           /\ FramesOf(running)' = [k \in 1..sp' |-> stack'[k]]
<1>1. Slot' = Slot /\ Live' = Live /\ running \in Live
  BY DEF Slot, Live, Inv, Accounted
<1>2. TypeOK'
  BY <1>1 DEF Inv, TypeOK
<1>3. Accounted'
  BY <1>1 DEF Inv, Accounted
<1>4. Kept'
  BY <1>1 DEF Inv, Kept
<1>5. Inv'
  BY <1>2, <1>3, <1>4 DEF Inv
<1> QED  BY <1>1, <1>5 DEF FramesOf

LEMMA CallKeeps ==
    ASSUME Inv, NEW w \in Word, Call(w)
    PROVE  Inv' /\ Abstract!Call(w)
<1>1. /\ running # -1 /\ UNCHANGED <<co, cap, nco, running, phase, turn>>
      /\ stack \in [1..StackSize -> Word] /\ StackSize \in Nat
      /\ sp \in 0..StackSize /\ sp < StackSize
      /\ sp' = sp + 1 /\ stack' = [stack EXCEPT ![sp + 1] = w]
  BY CoroutinesAssumption DEF Call, Inv, TypeOK
<1>2. stack' \in [1..StackSize -> Word] /\ sp' \in 0..StackSize
  BY <1>1
<1>3. /\ Inv' /\ running \in Live /\ Live' = Live
      /\ \A id \in Live : id # running => FramesOf(id)' = FramesOf(id)
      /\ FramesOf(running)' = [k \in 1..sp' |-> stack'[k]]
  BY <1>1, <1>2, OwnStackChanges
<1>4. FramesOf(running)' = Append(FramesOf(running), w)
  <2>1. PICK s : s = FramesOf(running)
    OBVIOUS
  <2>2. s = [k \in 1..sp |-> stack[k]] /\ s \in Seq(Word) /\ Len(s) = sp
    BY <1>3, <2>1, StackIsSeq DEF FramesOf
  <2>3. PICK t : t = [k \in 1..(sp + 1) |-> stack'[k]]
    OBVIOUS
  <2>4. t \in Seq(Word) /\ Len(t) = sp + 1
    <3>1. t \in [1..(sp + 1) -> Word]
      BY <1>1, <1>2, <2>3
    <3> QED  BY <1>1, <3>1, FunctionIsSeq
  <2>5. \A k \in 1..(sp + 1) : t[k] = IF k <= sp THEN s[k] ELSE w
    BY <1>1, <2>2, <2>3
  <2>6. \A k \in 1..(sp + 1) : t[k] = Append(s, w)[k]
    BY <1>1, <2>2, <2>5, AppendProperties
  <2>7. Append(s, w) = t
    BY <1>1, <2>2, <2>4, <2>6, AppendProperties, SeqEqual
  <2> QED  BY <1>1, <1>3, <2>1, <2>3, <2>7
<1> QED  BY <1>1, <1>3, <1>4 DEF Abstract!Call

LEMMA ReturnKeeps ==
    ASSUME Inv, Return
    PROVE  Inv' /\ Abstract!Return
<1>1. /\ running # -1 /\ UNCHANGED <<co, cap, nco, running, stack, phase, turn>>
      /\ stack \in [1..StackSize -> Word] /\ StackSize \in Nat
      /\ sp \in 0..StackSize /\ sp > 0 /\ sp' = sp - 1
  BY CoroutinesAssumption DEF Return, Inv, TypeOK
<1>2. stack' \in [1..StackSize -> Word] /\ sp' \in 0..StackSize
  BY <1>1
<1>3. /\ Inv' /\ running \in Live /\ Live' = Live
      /\ \A id \in Live : id # running => FramesOf(id)' = FramesOf(id)
      /\ FramesOf(running)' = [k \in 1..sp' |-> stack'[k]]
  BY <1>1, <1>2, OwnStackChanges
<1>4. PICK s : s = FramesOf(running)
  OBVIOUS
<1>5. s = [k \in 1..sp |-> stack[k]] /\ s \in Seq(Word) /\ Len(s) = sp
  BY <1>3, <1>4, StackIsSeq DEF FramesOf
<1>6. FramesOf(running)' = SubSeq(s, 1, Len(s) - 1)
  <2>1. PICK t : t = [k \in 1..(sp - 1) |-> stack[k]]
    OBVIOUS
  <2>2. PICK n \in Nat : n = sp - 1
    BY <1>1
  <2>3. t \in Seq(Word) /\ Len(t) = n
    <3>1. t \in [1..n -> Word]
      BY <1>1, <2>1, <2>2
    <3> QED  BY <3>1, FunctionIsSeq
  <2>4. \A k \in 1..n : t[k] = s[k]
    BY <1>1, <1>5, <2>1, <2>2
  <2>5. /\ SubSeq(s, 1, n) \in Seq(Word) /\ Len(SubSeq(s, 1, n)) = n
        /\ \A k \in 1..n : SubSeq(s, 1, n)[k] = s[k]
    <3>1. \A k \in 1..n : s[k] \in Word
      BY <1>1, <1>5, <2>2
    <3>2. \A k \in 1..(n - 1 + 1) : SubSeq(s, 1, n)[k] = s[1 + k - 1]
      BY <3>1, SubSeqProperties
    <3>3. SubSeq(s, 1, n) \in Seq(Word) /\ Len(SubSeq(s, 1, n)) = IF 1 <= n THEN n - 1 + 1 ELSE 0
      BY <3>1, SubSeqProperties
    <3> QED  BY <3>2, <3>3
  <2>6. SubSeq(s, 1, n) = t
    BY <2>3, <2>4, <2>5, SeqEqual
  <2>7. Len(s) - 1 = n
    BY <1>1, <1>5, <2>2
  <2> QED  BY <1>1, <1>3, <2>1, <2>6, <2>7
<1>7. s # <<>>
  BY <1>1, <1>5, EmptySeq
<1> QED  BY <1>1, <1>3, <1>4, <1>6, <1>7 DEF Abstract!Return

\* What _save_stack leaves in the copy: all the words, innermost first.
LEMMA SavedWords ==
    ASSUME TypeOK, NEW c \in Coroutine
    PROVE  /\ SaveStack(c) \in Coroutine
           /\ SaveStack(c).size = sp /\ sp <= Len(SaveStack(c).saved)
           /\ SaveStack(c).status = c.status /\ SaveStack(c).sp = c.sp
           /\ \A k \in 1..sp : SaveStack(c).saved[k] = stack[sp - k + 1]
<1>1. PICK n \in Nat : n = Len(c.saved)
  BY LenProperties DEF Coroutine
<1>2. c.saved \in Seq(Word) /\ sp \in 0..StackSize /\ StackSize \in Nat
  BY CoroutinesAssumption DEF Coroutine, TypeOK
<1>3. PICK m \in Nat : m = IF n < sp THEN sp ELSE n
  BY <1>2
<1>4. PICK s : s = [k \in 1..m |-> IF k <= sp THEN stack[sp - k + 1] ELSE c.saved[k]]
  OBVIOUS
<1>5. s \in Seq(Word) /\ Len(s) = m
  <2>1. \A k \in 1..m : k > sp => c.saved[k] \in Word
    BY <1>1, <1>2, <1>3, ElementOfSeq
  <2>2. \A k \in 1..m : k <= sp => stack[sp - k + 1] \in Word
    BY <1>2 DEF TypeOK
  <2>3. s \in [1..m -> Word]
    BY <1>2, <1>4, <2>1, <2>2
  <2> QED  BY <2>3, FunctionIsSeq
<1>6. SaveStack(c) = [c EXCEPT !.saved = s, !.size = sp]
  BY <1>1, <1>3, <1>4 DEF SaveStack
<1>7. SaveStack(c) \in Coroutine
  BY <1>2, <1>5, <1>6 DEF Coroutine
<1>8. SaveStack(c).saved = s /\ SaveStack(c).size = sp
      /\ SaveStack(c).status = c.status /\ SaveStack(c).sp = c.sp
  BY <1>6 DEF Coroutine
<1>9. sp <= m /\ \A k \in 1..sp : s[k] = stack[sp - k + 1]
  BY <1>2, <1>3, <1>4
<1> QED  BY <1>5, <1>7, <1>8, <1>9

LEMMA YieldKeeps ==
    ASSUME Inv, Yield
    PROVE  Inv' /\ Abstract!Yield
<1>1. /\ running # -1 /\ running \in Live /\ running \in Slot /\ TypeOK
      /\ co[running] \in Coroutine /\ StackSize \in Nat /\ sp \in 0..StackSize
  BY Fields, CoroutinesAssumption DEF Yield, Inv, Accounted, TypeOK
<1>2. PICK c : c = SaveStack(co[running])
  OBVIOUS
<1>3. c \in Coroutine /\ c.size = sp /\ sp <= Len(c.saved)
      /\ \A k \in 1..sp : c.saved[k] = stack[sp - k + 1]
  BY <1>1, <1>2, SavedWords
<1>4. PICK d : d = [c EXCEPT !.status = "suspended", !.sp = sp]
  OBVIOUS
<1>5. /\ d \in Coroutine /\ d # NULL /\ d.status = "suspended" /\ d.sp = sp
      /\ d.size = sp /\ d.saved = c.saved
  BY <1>1, <1>3, <1>4, CoroutinesAssumption DEF Coroutine
<1>6. co' = [co EXCEPT ![running] = d]
      /\ UNCHANGED <<cap, nco, stack, phase, turn>> /\ running' = -1 /\ sp' = 0
  BY <1>2, <1>4 DEF Yield
<1>7. Slot' = Slot /\ co \in [Slot -> Coroutine \cup {NULL}]
  BY <1>6 DEF Slot, Inv, TypeOK
<1>8. co'[running] = d /\ \A id \in Slot : id # running => co'[id] = co[id]
  BY <1>1, <1>6, <1>7
<1>9. Live' = Live
  BY <1>1, <1>5, <1>7, <1>8 DEF Live
<1>10. TypeOK'
  BY <1>1, <1>5, <1>6, <1>7 DEF Inv, TypeOK
<1>11. Accounted'
  <2>1. \A id \in Live : co'[id].status # "running"
    BY <1>5, <1>8 DEF Inv, Accounted, Live
  <2>2. -1 \notin Live
    BY <1>1 DEF Live, Slot, TypeOK
  <2> QED  BY <1>6, <1>9, <2>1, <2>2 DEF Inv, Accounted
<1>12. Kept'
  BY <1>3, <1>5, <1>6, <1>8, <1>9 DEF Inv, Kept, Live
<1>13. Inv'
  BY <1>6, <1>10, <1>11, <1>12 DEF Inv
<1>14. \A id \in Live : id # running => FramesOf(id)' = FramesOf(id)
  <2>1. \A id \in Live : id # -1
    BY <1>1 DEF Live, Slot, TypeOK
  <2> QED  BY <1>6, <1>8, <2>1 DEF FramesOf, Live
<1>15. ASSUME NEW id \in Live, id = running PROVE FramesOf(id)' = FramesOf(id)
  <2>1. \A k \in 1..sp : sp - k + 1 \in 1..sp /\ sp - (sp - k + 1) + 1 = k
    BY <1>1
  <2>2. \A k \in 1..sp : d.saved[d.size - k + 1] = stack[k]
    BY <1>3, <1>5, <2>1
  <2>3. FramesOf(id)' = [k \in 1..d.sp |-> d.saved[d.size - k + 1]]
    BY <1>1, <1>6, <1>8, <1>15 DEF FramesOf
  <2>4. FramesOf(id) = [k \in 1..sp |-> stack[k]]
    BY <1>15 DEF FramesOf
  <2> QED  BY <1>5, <2>2, <2>3, <2>4
<1>16. Stacks' = Stacks
  BY <1>9, <1>14, <1>15 DEF Stacks
<1> QED  BY <1>1, <1>6, <1>13, <1>16 DEF Abstract!Yield, Stacks

LEMMA EndKeeps ==
    ASSUME Inv, End
    PROVE  Inv' /\ Abstract!End
<1>1. /\ running # -1 /\ running \in Live /\ running \in Slot /\ TypeOK
      /\ sp = 0 /\ cap \in Nat
  BY Fields DEF End, Inv, Accounted, TypeOK
<1>2. co' = [co EXCEPT ![running] = NULL] /\ nco' = nco - 1 /\ running' = -1
      /\ UNCHANGED <<cap, stack, sp, phase, turn>>
  BY DEF End
<1>3. Slot' = Slot /\ co \in [Slot -> Coroutine \cup {NULL}]
  BY <1>2 DEF Slot, Inv, TypeOK
<1>4. co'[running] = NULL /\ \A id \in Slot : id # running => co'[id] = co[id]
  BY <1>1, <1>2, <1>3
<1>5. Live' = Live \ {running}
  <2>1. ASSUME NEW id PROVE id \in Live' <=> id \in Live /\ id # running
    BY <1>1, <1>3, <1>4 DEF Live
  <2> QED  BY <2>1
<1>6. Cardinality(Live') = Cardinality(Live) - 1
  BY <1>1, <1>5, LiveFinite, FS_RemoveElement
<1>7. nco' \in Nat
  <2>1. Cardinality(Live') \in Nat
    BY <1>1, <1>5, LiveFinite, FS_RemoveElement, FS_CardinalityType
  <2> QED  BY <1>2, <1>6, <2>1 DEF Inv, Accounted
<1>8. TypeOK'
  BY <1>2, <1>3, <1>7 DEF Inv, TypeOK
<1>9. -1 \notin Live
  BY <1>1 DEF Live, Slot
<1>10. Accounted'
  <2>1. phase # "done"
    BY <1>1 DEF Inv, Accounted
  <2>2. \A id \in Live' : co'[id].status # "running" /\ id # -1
    BY <1>4, <1>5, <1>9 DEF Inv, Accounted, Live
  <2> QED  BY <1>2, <1>6, <2>1, <2>2 DEF Inv, Accounted
<1>11. Kept'
  BY <1>4, <1>5 DEF Inv, Kept, Live
<1>12. Inv'
  BY <1>2, <1>8, <1>10, <1>11 DEF Inv
<1>13. ASSUME NEW id \in Live' PROVE FramesOf(id)' = FramesOf(id)
  <2>1. id \in Live /\ id # running /\ id # running' /\ co'[id] = co[id]
    BY <1>2, <1>4, <1>5, <1>9 DEF Live
  <2> QED  BY <2>1 DEF FramesOf
<1>14. FramesOf(running) = <<>>
  BY <1>1, StackIsSeq, EmptySeq
<1> QED  BY <1>1, <1>2, <1>5, <1>12, <1>13, <1>14 DEF Abstract!End, Abstract!Live

-----------------------------------------------------------------------------
(* The loop of the scheduler.                                               *)

LEMMA ResumeKeeps ==
    ASSUME Inv, Resume
    PROVE  Inv' /\ Abstract!Resume(turn)
<1>1. /\ running = -1 /\ turn \in Slot /\ turn \in Live /\ TypeOK /\ turn # -1
      /\ phase = "run" /\ \A id \in Live : id # running /\ id \in Slot
  BY DEF Resume, InLoop, Inv, TypeOK, Slot, Live
<1>2. PICK c : c = co[turn]
  OBVIOUS
<1>3. /\ c \in Coroutine /\ c.saved \in Seq(Word) /\ StackSize \in Nat
      /\ c.size \in 0..StackSize /\ c.sp = c.size /\ c.size <= Len(c.saved)
      /\ c.status \in {"ready", "running", "suspended"}
      /\ c.status # "running" /\ (c.status = "ready" => c.sp = 0)
  BY <1>1, <1>2, Fields, CoroutinesAssumption DEF Inv, Kept, Accounted, Coroutine
<1>4. PICK d : d = [c EXCEPT !.status = "running"]
  OBVIOUS
<1>5. /\ d \in Coroutine /\ d # NULL /\ d.status = "running" /\ d.sp = c.sp
  BY <1>3, <1>4, CoroutinesAssumption DEF Coroutine
<1>6. /\ co' = [co EXCEPT ![turn] = d] /\ running' = turn /\ sp' = c.sp
      /\ stack' = (IF c.status = "suspended" THEN Restored(c) ELSE stack)
      /\ turn' = turn + 1 /\ UNCHANGED <<cap, nco, phase>>
  BY <1>2, <1>4 DEF Resume
<1>7. Slot' = Slot /\ co \in [Slot -> Coroutine \cup {NULL}]
  BY <1>6 DEF Slot, Inv, TypeOK
<1>8. co'[turn] = d /\ \A id \in Slot : id # turn => co'[id] = co[id]
  BY <1>1, <1>6, <1>7
<1>9. Live' = Live
  BY <1>1, <1>5, <1>7, <1>8 DEF Live
<1>10. \A k \in 1..c.size : c.size - k + 1 \in 1..Len(c.saved)
  BY <1>3, LenProperties
<1>11. stack' \in [1..StackSize -> Word]
  <2>1. \A k \in 1..c.size : c.saved[c.size - k + 1] \in Word
    BY <1>3, <1>10, ElementOfSeq
  <2>2. stack \in [1..StackSize -> Word]
    BY <1>1 DEF TypeOK
  <2>3. Restored(c) \in [1..StackSize -> Word]
    BY <1>3, <2>1, <2>2 DEF Restored
  <2> QED  BY <1>6, <2>2, <2>3
<1>12. TypeOK'
  <2>1. co' \in [Slot -> Coroutine \cup {NULL}]
    BY <1>1, <1>5, <1>6, <1>7
  <2>2. turn' \in Nat /\ sp' \in 0..StackSize
    BY <1>1, <1>3, <1>6 DEF TypeOK
  <2> QED  BY <1>1, <1>6, <1>7, <1>11, <2>1, <2>2 DEF TypeOK
<1>13. Accounted'
  <2>1. \A id \in Live : co'[id].status = "running" <=> id = turn
    BY <1>1, <1>5, <1>8 DEF Inv, Accounted, Live
  <2> QED  BY <1>1, <1>6, <1>9, <2>1 DEF Inv, Accounted
<1>14. Kept'
  BY <1>1, <1>6, <1>8, <1>9 DEF Inv, Kept, Live
<1>15. Inv'
  BY <1>6, <1>12, <1>13, <1>14 DEF Inv
<1>16. ASSUME NEW id \in Live, id # turn PROVE FramesOf(id)' = FramesOf(id)
  <2>1. id # running /\ id # running' /\ co'[id] = co[id]
    BY <1>1, <1>6, <1>8, <1>16 DEF Live, Slot, TypeOK
  <2> QED  BY <2>1 DEF FramesOf
<1>17. ASSUME NEW id \in Live, id = turn PROVE FramesOf(id)' = FramesOf(id)
  <2>1. FramesOf(id)' = [k \in 1..c.sp |-> stack'[k]]
    BY <1>6, <1>17 DEF FramesOf
  <2>2. FramesOf(id) = [k \in 1..c.sp |-> c.saved[c.size - k + 1]]
    BY <1>1, <1>2, <1>17 DEF FramesOf
  <2>3. \A k \in 1..c.sp : stack'[k] = c.saved[c.size - k + 1]
    <3>1. CASE c.status = "suspended"
      BY <1>3, <1>6, <3>1 DEF Restored
    <3>2. CASE c.status = "ready"
      BY <1>3, <3>2
    <3> QED  BY <1>3, <3>1, <3>2
  <2> QED  BY <2>1, <2>2, <2>3
<1>18. Stacks' = Stacks
  BY <1>9, <1>16, <1>17 DEF Stacks
<1> QED
  BY <1>1, <1>6, <1>15, <1>18 DEF Abstract!Resume, Abstract!Live, Stacks

\* The steps of the loop in which no coroutine is resumed, and stuttering.
LEMMA LoopKeeps ==
    ASSUME Inv, Start \/ Round \/ Skip \/ UNCHANGED vars
    PROVE  Inv' /\ Stacks' = Stacks /\ running' = running
<1>1. UNCHANGED <<co, cap, nco, running, stack, sp>>
  BY DEF Start, Round, Skip, vars
<1>2. Slot' = Slot /\ Live' = Live
  BY <1>1 DEF Slot, Live
<1>3. turn' \in Nat /\ phase' \in {"setup", "run", "done"}
  BY DEF Inv, TypeOK, Start, Round, Skip, vars
<1>4. TypeOK'
  BY <1>1, <1>2, <1>3 DEF Inv, TypeOK
<1>5. phase' = "done" => phase = "done" \/ nco = 0
  BY DEF Start, Round, Skip, vars, Inv, TypeOK
<1>6. phase' = "done" => Live = {}
  BY <1>5, LiveFinite, FS_EmptySet DEF Inv, Accounted
<1>7. Accounted'
  BY <1>1, <1>2, <1>6 DEF Inv, Accounted
<1>8. Kept'
  BY <1>1, <1>2 DEF Inv, Kept
<1>9. Inv'
  BY <1>1, <1>4, <1>7, <1>8 DEF Inv
<1> QED  BY <1>1, <1>2, <1>9 DEF Stacks, FramesOf

-----------------------------------------------------------------------------
(* The theorems.                                                            *)

LEMMA StepKeeps ==
    ASSUME Inv, [Next]_vars
    PROVE  Inv' /\ [Abstract!Next]_<<Stacks, running>>
<1>1. CASE Enlarge
  <2>1. Inv' /\ Abstract!Create(cap)
    BY <1>1, EnlargeCreates, CreationKeeps
  <2>2. cap \in 0..(MaxPool - 1)
    BY <1>1, CoroutinesAssumption DEF Enlarge, Inv, TypeOK
  <2> QED  BY <2>1, <2>2 DEF Abstract!Next
<1>2. CASE Occupy
  <2>1. PICK id \in Slot : Created(id) /\ TypeOK' /\ cap' <= MaxPool
    BY <1>2, OccupyCreates
  <2>2. Inv' /\ Abstract!Create(id)
    BY <2>1, CreationKeeps
  <2>3. id \in 0..(MaxPool - 1)
    BY CoroutinesAssumption DEF Inv, TypeOK, Slot
  <2> QED  BY <2>2, <2>3 DEF Abstract!Next
<1>3. ASSUME NEW w \in Word, Call(w) PROVE Inv' /\ Abstract!Next
  BY <1>3, CallKeeps DEF Abstract!Next
<1>4. CASE Return
  BY <1>4, ReturnKeeps DEF Abstract!Next
<1>5. CASE Yield
  BY <1>5, YieldKeeps DEF Abstract!Next
<1>6. CASE End
  BY <1>6, EndKeeps DEF Abstract!Next
<1>7. CASE Resume
  <2>1. turn \in 0..(MaxPool - 1)
    BY <1>7, CoroutinesAssumption DEF Resume, Inv, TypeOK
  <2> QED  BY <1>7, <2>1, ResumeKeeps DEF Abstract!Next
<1>8. CASE Start \/ Round \/ Skip \/ UNCHANGED vars
  BY <1>8, LoopKeeps
<1> QED
  BY <1>1, <1>2, <1>3, <1>4, <1>5, <1>6, <1>7, <1>8 DEF Next, Main

LEMMA Invariance == Spec => []Inv
<1>1. Init => Inv
  BY InitInv
<1>2. Inv /\ [Next]_vars => Inv'
  BY StepKeeps
<1> QED  BY <1>1, <1>2, PTL DEF Spec

\* The types, for any pool and stack (coroutine.c:20-40).
THEOREM Typing == Spec => []TypeOK
<1>1. Inv => TypeOK
  BY DEF Inv
<1> QED  BY <1>1, Invariance, PTL

\* No assertion of coroutine_resume fails, and nco counts the coroutines, so that
\* neither the search for a slot nor the scheduler goes wrong (coroutine.c:117).
THEOREM PoolAccounted == Spec => []Accounted
<1>1. Inv => Accounted
  BY DEF Inv
<1> QED  BY <1>1, Invariance, PTL

\* Coroutines that share one stack behave as processes with stacks of their own,
\* whatever is copied out and in between (coroutine.c:134-187).
THEOREM StacksArePrivate == Spec => RunsPrivately
<1>1. Init => Abstract!Init
  BY InitInv
<1>2. Inv /\ [Next]_vars => [Abstract!Next]_<<Stacks, running>>
  BY StepKeeps
<1> QED
  BY <1>1, <1>2, Invariance, PTL DEF Spec, RunsPrivately, Abstract!Spec, Stacks

-----------------------------------------------------------------------------
(* The queue of the database thread.                                        *)

\* What a message number can be at all: posted so far.
Posted ==
    /\ \A i \in Index : table[i] # None => table[i] <= posts
    /\ \A k \in 1..Len(handled) : handled[k] <= posts
    /\ db.item # None => db.item <= posts

\* A message that is about to be written into its slot is nowhere else.
NewMessage ==
    net.at = "slot" =>
        /\ posts \in Message
        /\ \A i \in Index : table[i] # posts
        /\ \A k \in 1..Len(handled) : handled[k] # posts
        /\ db.item # posts

\* A message waits in at most one slot.
TableOnce ==
    \A i, j \in Index : table[i] = table[j] /\ table[i] # None => i = j

\* The message that the database thread holds is in no slot but, before it has
\* cleared that one, the head.
HeldOnce ==
    \A i \in Index : table[i] = db.item /\ db.item # None => db.at = "clear" /\ i = head

\* A message that was run is in no slot and is not held.
RunGone ==
    \A k \in 1..Len(handled) :
        /\ handled[k] # db.item
        /\ \A i \in Index : table[i] # handled[k]

\* RunAtMostOnce alone is not inductive: where a message is between the post and
\* the run, and that it is in one place, has to be said too.
DbInv ==
    /\ DbTypeOK /\ Posted /\ NewMessage /\ TableOnce /\ HeldOnce /\ RunGone /\ RunAtMostOnce

-----------------------------------------------------------------------------
\* The next index stays in the table.
LEMMA NextIndex ==
    ASSUME NEW i \in Index PROVE (i + 1) % Capacity \in Index
  BY DbQueueAssumption DEF Index

\* A message is a number, so it is not the null pointer.
LEMMA MessageNotNull == Message \subseteq Int /\ None \notin Message
  BY DbQueueAssumption DEF Message

LEMMA DbInitInv == DbInit => DbInv
<1> SUFFICES ASSUME DbInit PROVE DbInv
  OBVIOUS
<1>1. handled \in Seq(Message) /\ Len(handled) = 0
  BY EmptySeq DEF DbInit
<1>2. 0 \in Index /\ 0 \in 0..MaxPosts
  BY DbQueueAssumption DEF Index
<1>3. DbTypeOK
  BY <1>1, <1>2 DEF DbInit, DbTypeOK
<1> QED
  BY <1>1, <1>3 DEF DbInit, DbInv, Posted, NewMessage, TableOnce, HeldOnce, RunGone, RunAtMostOnce

\* Every message in the shared state has the type of a message.
LEMMA DbTypes ==
    ASSUME DbInv
    PROVE  /\ \A i \in Index : table[i] \in Message \cup {None}
           /\ \A k \in 1..Len(handled) : handled[k] \in Message
           /\ db.item \in Message \cup {None} /\ posts \in 0..MaxPosts
           /\ head \in Index /\ tail \in Index /\ Len(handled) \in Nat
  BY ElementOfSeq, LenProperties DEF DbInv, DbTypeOK

\* The steps that touch neither the table, the message held, nor what was run:
\* they cannot begin to hold a message, nor leave the state of being cleared.
Elsewhere ==
    /\ table' = table /\ handled' = handled /\ db'.item = db.item
    /\ head' = head /\ posts' = posts
    /\ net'.at = "slot" => net.at = "slot"
    /\ db.at = "clear" => db'.at = "clear"

LEMMA ElsewhereKeeps ==
    ASSUME DbInv, Elsewhere, DbTypeOK'
    PROVE  DbInv'
  BY DEF DbInv, Elsewhere, Posted, NewMessage, TableOnce, HeldOnce, RunGone, RunAtMostOnce

\* post_db_msg of a message that the queue refuses.
LEMMA PostRefusedKeeps == ASSUME DbInv, PostRefused PROVE DbInv'
<1>1. DbTypeOK'
  BY DbQueueAssumption DEF DbInv, DbTypeOK, PostRefused
<1>2. posts \in 0..MaxPosts /\ posts' = posts + 1 /\ net.at = "idle"
  BY DEF DbInv, DbTypeOK, PostRefused
<1>3. Posted'
  BY <1>2, DbTypes, MessageNotNull DEF DbInv, PostRefused, Posted, Message
<1>4. NewMessage' /\ TableOnce' /\ HeldOnce' /\ RunGone' /\ RunAtMostOnce'
  BY <1>2 DEF DbInv, PostRefused, NewMessage, TableOnce, HeldOnce, RunGone, RunAtMostOnce
<1> QED  BY <1>1, <1>3, <1>4 DEF DbInv

\* A new message has a number above all those in the system.
LEMMA PostBeginKeeps == ASSUME DbInv, PostBegin PROVE DbInv'
<1>1. DbTypeOK'
  BY DbQueueAssumption DEF DbInv, DbTypeOK, PostBegin
<1>2. /\ posts \in 0..MaxPosts /\ posts' = posts + 1 /\ posts < MaxPosts
      /\ table' = table /\ handled' = handled /\ db' = db /\ head' = head
  BY DEF DbInv, DbTypeOK, PostBegin
<1>3. posts' \in Message
  BY <1>2, DbQueueAssumption DEF Message
<1>4. \A e \in Message \cup {None} : (e # None => e <= posts) => e # posts' /\ (e # None => e <= posts')
  BY <1>2, <1>3, MessageNotNull DEF Message
<1>5. Posted'
  <2>1. (\A i \in Index : table[i] # None => table[i] <= posts')
    BY <1>4, DbTypes DEF DbInv, Posted
  <2>2. \A k \in 1..Len(handled) : handled[k] <= posts'
    BY <1>4, DbTypes, MessageNotNull DEF DbInv, Posted
  <2>3. db.item # None => db.item <= posts'
    BY <1>4, DbTypes DEF DbInv, Posted
  <2> QED  BY <2>1, <2>2, <2>3, <1>2 DEF Posted
<1>6. NewMessage'
  <2>1. \A i \in Index : table[i] # posts'
    BY <1>4, DbTypes DEF DbInv, Posted
  <2>2. \A k \in 1..Len(handled) : handled[k] # posts'
    BY <1>4, DbTypes, MessageNotNull DEF DbInv, Posted
  <2>3. db.item # posts'
    BY <1>4, DbTypes DEF DbInv, Posted
  <2> QED  BY <2>1, <2>2, <2>3, <1>2, <1>3 DEF NewMessage
<1>7. TableOnce' /\ HeldOnce' /\ RunGone' /\ RunAtMostOnce'
  BY <1>2 DEF DbInv, TableOnce, HeldOnce, RunGone, RunAtMostOnce
<1> QED  BY <1>1, <1>5, <1>6, <1>7 DEF DbInv

\* The new message enters a slot, whatever was there.
LEMMA PostSlotKeeps == ASSUME DbInv, PostSlot PROVE DbInv'
<1>1. /\ posts \in Message /\ tail \in Index /\ posts # None
      /\ \A i \in Index : table'[i] = IF i = tail THEN posts ELSE table[i]
  BY DbTypes, MessageNotNull DEF DbInv, DbTypeOK, PostSlot, NewMessage
<1>2. /\ handled' = handled /\ db' = db /\ head' = head /\ posts' = posts
      /\ net'.at # "slot" /\ net.at = "slot"
  BY DEF DbInv, DbTypeOK, PostSlot
<1>3. DbTypeOK'
  BY <1>1 DEF DbInv, DbTypeOK, PostSlot
<1>4. Posted'
  BY <1>1, <1>2 DEF DbInv, Posted, Message
<1>5. NewMessage'
  BY <1>2 DEF NewMessage
<1>6. TableOnce'
  BY <1>1, <1>2 DEF DbInv, TableOnce, NewMessage
<1>7. HeldOnce'
  BY <1>1, <1>2 DEF DbInv, HeldOnce, NewMessage
<1>8. RunGone' /\ RunAtMostOnce'
  BY <1>1, <1>2 DEF DbInv, RunGone, RunAtMostOnce, NewMessage
<1> QED  BY <1>3, <1>4, <1>5, <1>6, <1>7, <1>8 DEF DbInv

LEMMA PostLoadSizeKeeps == ASSUME DbInv, PostLoadSize PROVE DbInv'
<1>1. DbTypeOK'
  BY DEF DbInv, DbTypeOK, PostLoadSize
<1>2. Elsewhere
  BY DEF DbInv, DbTypeOK, PostLoadSize, Elsewhere
<1> QED  BY <1>1, <1>2, ElsewhereKeeps

LEMMA PostStoreSizeKeeps == ASSUME DbInv, PostStoreSize PROVE DbInv'
<1>1. DbTypeOK'
  BY DEF DbInv, DbTypeOK, PostStoreSize
<1>2. Elsewhere
  BY DEF DbInv, DbTypeOK, PostStoreSize, Elsewhere
<1> QED  BY <1>1, <1>2, ElsewhereKeeps

LEMMA PostTailKeeps == ASSUME DbInv, PostTail PROVE DbInv'
<1>1. DbTypeOK'
  BY NextIndex DEF DbInv, DbTypeOK, PostTail
<1>2. Elsewhere
  BY DEF DbInv, DbTypeOK, PostTail, Elsewhere
<1> QED  BY <1>1, <1>2, ElsewhereKeeps

LEMMA PopBeginKeeps == ASSUME DbInv, PopBegin PROVE DbInv'
<1>1. DbTypeOK'
  BY DEF DbInv, DbTypeOK, PopBegin, shared
<1>2. Elsewhere
  BY DEF DbInv, DbTypeOK, PopBegin, Elsewhere, shared
<1> QED  BY <1>1, <1>2, ElsewhereKeeps

LEMMA PopLoadSizeKeeps == ASSUME DbInv, PopLoadSize PROVE DbInv'
<1>1. DbTypeOK'
  BY DEF DbInv, DbTypeOK, PopLoadSize, shared
<1>2. Elsewhere
  BY DEF DbInv, DbTypeOK, PopLoadSize, Elsewhere, shared
<1> QED  BY <1>1, <1>2, ElsewhereKeeps

\* The message at the head is read: it is held, and still in its slot.
LEMMA PopSlotKeeps == ASSUME DbInv, PopSlot PROVE DbInv'
<1>1. /\ head \in Index /\ table[head] \in Message \cup {None}
      /\ db'.item = table[head] /\ db'.at = "clear"
  BY DbTypes DEF DbInv, DbTypeOK, PopSlot
<1>2. /\ table' = table /\ handled' = handled /\ head' = head /\ posts' = posts
      /\ net' = net
  BY DEF PopSlot, shared
<1>3. DbTypeOK'
  BY <1>1 DEF DbInv, DbTypeOK, PopSlot, shared
<1>4. Posted' /\ NewMessage'
  BY <1>1, <1>2 DEF DbInv, Posted, NewMessage
<1>5. TableOnce' /\ HeldOnce'
  BY <1>1, <1>2 DEF DbInv, TableOnce, HeldOnce
<1>6. RunGone' /\ RunAtMostOnce'
  BY <1>1, <1>2 DEF DbInv, RunGone, RunAtMostOnce
<1> QED  BY <1>3, <1>4, <1>5, <1>6 DEF DbInv

\* The head slot is cleared, whatever it holds by now: what is held is in no slot.
LEMMA PopClearKeeps == ASSUME DbInv, PopClear PROVE DbInv'
<1>1. /\ head \in Index
      /\ \A i \in Index : table'[i] = IF i = head THEN None ELSE table[i]
      /\ db'.item = db.item
  BY DbTypes DEF DbInv, DbTypeOK, PopClear
<1>2. /\ handled' = handled /\ head' = head /\ posts' = posts /\ net' = net
  BY DEF PopClear
<1>3. DbTypeOK'
  BY DEF DbInv, DbTypeOK, PopClear
<1>4. Posted'
  BY <1>1, <1>2 DEF DbInv, Posted
<1>5. NewMessage'
  BY <1>1, <1>2, MessageNotNull DEF DbInv, NewMessage
<1>6. TableOnce' /\ HeldOnce'
  BY <1>1, <1>2 DEF DbInv, TableOnce, HeldOnce
<1>7. RunGone' /\ RunAtMostOnce'
  BY <1>1, <1>2, DbTypes, MessageNotNull DEF DbInv, RunGone, RunAtMostOnce
<1> QED  BY <1>3, <1>4, <1>5, <1>6, <1>7 DEF DbInv

LEMMA PopStoreSizeKeeps == ASSUME DbInv, PopStoreSize PROVE DbInv'
<1>1. DbTypeOK'
  BY DEF DbInv, DbTypeOK, PopStoreSize
<1>2. Elsewhere
  BY DEF DbInv, DbTypeOK, PopStoreSize, Elsewhere
<1> QED  BY <1>1, <1>2, ElsewhereKeeps

\* The head moves and the message held is run; it was run by no one before.
LEMMA PopHeadKeeps == ASSUME DbInv, PopHead PROVE DbInv'
<1> DEFINE x == db.item
<1>1. /\ db.at = "head" /\ db'.item = None /\ table' = table /\ net' = net
      /\ posts' = posts
      /\ handled' = IF x = None THEN handled ELSE Append(handled, x)
  BY DEF PopHead
<1>2. x \in Message \cup {None} /\ handled \in Seq(Message)
  BY DEF DbInv, DbTypeOK
<1>3. PICK n \in Nat : n = Len(handled)
  BY DbTypes
<1>4. /\ handled' \in Seq(Message)
      /\ \A k \in 1..Len(handled') :
            (k \in 1..n /\ handled'[k] = handled[k]) \/ (k = n + 1 /\ x # None /\ handled'[k] = x)
  <2>1. CASE x = None
    BY <2>1, <1>1, <1>2, <1>3
  <2>2. CASE x # None
    <3>1. /\ handled' = Append(handled, x) /\ x \in Message
      BY <2>2, <1>1, <1>2
    <3>2. /\ handled' \in Seq(Message) /\ Len(handled') = n + 1 /\ handled'[n + 1] = x
          /\ \A k \in 1..n : handled'[k] = handled[k]
      BY <3>1, <1>2, <1>3, AppendProperties
    <3>3. \A k \in 1..(n + 1) : k \in 1..n \/ k = n + 1
      BY <1>3
    <3> QED  BY <3>2, <3>3, <2>2
  <2> QED  BY <2>1, <2>2
<1>5. DbTypeOK'
  BY <1>4, NextIndex DEF DbInv, DbTypeOK, PopHead
<1>6. Posted'
  <2>1. \A k \in 1..Len(handled') : handled'[k] <= posts
    BY <1>3, <1>4 DEF DbInv, Posted
  <2> QED  BY <2>1, <1>1 DEF DbInv, Posted
<1>7. NewMessage'
  <2>1. net.at = "slot" => \A k \in 1..Len(handled') : handled'[k] # posts
    BY <1>3, <1>4 DEF DbInv, NewMessage
  <2> QED  BY <2>1, <1>1, MessageNotNull DEF DbInv, NewMessage
<1>8. TableOnce' /\ HeldOnce'
  BY <1>1 DEF DbInv, TableOnce, HeldOnce
<1>9. RunGone'
  <2>1. x # None => \A i \in Index : table[i] # x
    BY <1>1 DEF DbInv, HeldOnce
  <2>2. \A k \in 1..Len(handled') : handled'[k] # None
    BY <1>3, <1>4, DbTypes, MessageNotNull
  <2>3. \A k \in 1..Len(handled') : \A i \in Index : table[i] # handled'[k]
    BY <2>1, <1>3, <1>4 DEF DbInv, RunGone
  <2> QED  BY <2>2, <2>3, <1>1 DEF RunGone
<1>10. RunAtMostOnce'
  <2> SUFFICES ASSUME NEW j \in 1..Len(handled'), NEW k \in 1..Len(handled'),
                      handled'[j] = handled'[k]
               PROVE  j = k
    BY DEF RunAtMostOnce
  <2>1. \A m \in 1..n : handled[m] # x
    BY <1>3 DEF DbInv, RunGone
  <2>2. \A l, m \in 1..n : handled[l] = handled[m] => l = m
    BY <1>3 DEF DbInv, RunAtMostOnce
  <2>3. (j \in 1..n /\ handled'[j] = handled[j]) \/ (j = n + 1 /\ handled'[j] = x)
    BY <1>4
  <2>4. (k \in 1..n /\ handled'[k] = handled[k]) \/ (k = n + 1 /\ handled'[k] = x)
    BY <1>4
  <2> QED  BY <2>1, <2>2, <2>3, <2>4
<1> QED  BY <1>5, <1>6, <1>7, <1>8, <1>9, <1>10 DEF DbInv

-----------------------------------------------------------------------------
\* Every access of either thread preserves the invariant.
LEMMA DbNextInv == DbInv /\ [DbNext]_dbVars => DbInv'
<1> SUFFICES ASSUME DbInv, [DbNext]_dbVars PROVE DbInv'
  OBVIOUS
<1>1. CASE Post
  BY <1>1, PostRefusedKeeps, PostBeginKeeps, PostSlotKeeps, PostLoadSizeKeeps,
     PostStoreSizeKeeps, PostTailKeeps DEF Post
<1>2. CASE Pop
  BY <1>2, PopBeginKeeps, PopLoadSizeKeeps, PopSlotKeeps, PopClearKeeps,
     PopStoreSizeKeeps, PopHeadKeeps DEF Pop
<1>3. CASE UNCHANGED dbVars
  BY <1>3 DEF dbVars, DbInv, DbTypeOK, Posted, NewMessage, TableOnce, HeldOnce, RunGone, RunAtMostOnce
<1> QED  BY <1>1, <1>2, <1>3 DEF DbNext

LEMMA DbInvariance == DbSpec => []DbInv
<1> QED  BY DbInitInv, DbNextInv, PTL DEF DbSpec

\* Both indexes stay in the table and every value keeps its type, whatever the
\* two threads do to the size they share (queue.c:93-95, 110-113).
THEOREM DbTyping == DbSpec => []DbTypeOK
<1>1. DbInv => DbTypeOK
  BY DEF DbInv
<1> QED  BY <1>1, DbInvariance, PTL

\* For any capacity and any number of posts, in every interleaving of the
\* accesses of the two threads, no message is run twice (database.c:23-53).
THEOREM NoMessageRunsTwice == DbSpec => []RunAtMostOnce
<1>1. DbInv => RunAtMostOnce
  BY DEF DbInv
<1> QED  BY <1>1, DbInvariance, PTL

================================================================================
