----------------------------------- MODULE Log -----------------------------------
(***************************************************************************)
(* The log: any coroutine adds lines (src/src/log.c, add_log), each in a   *)
(* buffer of the store (src/common/buffer.c, store.c), to a queue that the *)
(* coroutine write_log empties into the file, recycling the buffers.       *)
(*                                                                         *)
(* A line is its number; the contents of a buffer are the lines that were  *)
(* written to it since it was reset.  The list of the store is a sequence: *)
(* IntrusiveList shows that its links keep one.                            *)
(***************************************************************************)
EXTENDS CircularQueue, FiniteSets

CONSTANTS
    MaxBuffers,  \* bound: buffers that malloc can provide
    MaxLines     \* bound: lines that are logged

ASSUME LogAssumption ==
    /\ MaxBuffers \in Nat /\ MaxLines \in Nat
    /\ Element = 1..MaxBuffers

VARIABLES
    store,   \* the recycled buffers, in the order of chunk_list
    count,   \* buffers allocated so far
    ready,   \* those whose buffer_init succeeded (buf->init)
    text,    \* what each buffer holds
    lost,    \* buffers that nothing refers to any more
    lines,   \* lines add_log has accepted so far
    file,    \* what was written, write by write
    turn     \* whose turn it is: write_log's or another coroutine's

logVars == <<store, count, ready, text, lost, lines, file, turn>>

LogInit ==
    /\ Init
    /\ store = <<>> /\ count = 0 /\ ready = {} /\ lost = {}
    /\ text = [b \in Element |-> <<>>]
    /\ lines = 0 /\ file = <<>> /\ turn = "others"

-----------------------------------------------------------------------------
(* extract_buffer and recycle_buffer, on extract_chunk and recycle_chunk.    *)

CanExtract == store # <<>> \/ count < MaxBuffers

Extracted == IF store # <<>> THEN Head(store) ELSE count + 1
StoreLeft == IF store # <<>> THEN Tail(store) ELSE store

\* Mutant of Recycle: the buffer is not reset.
RecycleAsIs(b) == store' = Append(store, b) /\ UNCHANGED text

Recycle(b) == store' = Append(store, b) /\ text' = [text EXCEPT ![b] = <<>>]

-----------------------------------------------------------------------------
(* add_log, for a line of a level that is logged.                            *)

\* The buffer is new and cannot be initialised: it goes to the store as it is.
AddRefused ==
    /\ turn = "others" /\ CanExtract /\ Extracted \notin ready
    /\ store' = Append(StoreLeft, Extracted)
    /\ count' = IF Extracted > count THEN Extracted ELSE count
    /\ UNCHANGED <<ready, text, lost, lines, file, turn, vars>>

\* queue_push fails when the table cannot grow; add_log does not notice.
Push(b) ==
    \/ queue_push(b) /\ UNCHANGED lost
    \/ Full /\ Grown > MaxCapacity /\ lost' = lost \cup {b} /\ UNCHANGED vars

\* Mutant of Add: the buffer stays in the store while it is queued.
AddShared ==
    /\ turn = "others" /\ CanExtract /\ lines < MaxLines
    /\ store' = store
    /\ count' = IF Extracted > count THEN Extracted ELSE count
    /\ ready' = ready \cup {Extracted}
    /\ lines' = lines + 1
    /\ text' = [text EXCEPT ![Extracted] = Append(@, lines + 1)]
    /\ Push(Extracted)
    /\ UNCHANGED <<file, turn>>

Add ==
    /\ turn = "others" /\ CanExtract /\ lines < MaxLines
    /\ store' = StoreLeft
    /\ count' = IF Extracted > count THEN Extracted ELSE count
    /\ ready' = ready \cup {Extracted}
    /\ lines' = lines + 1
    /\ text' = [text EXCEPT ![Extracted] = Append(@, lines + 1)]
    /\ Push(Extracted)
    /\ UNCHANGED <<file, turn>>

-----------------------------------------------------------------------------
(* write_log.                                                                *)

WriteBegin ==
    /\ turn = "others"
    /\ turn' = "write_log"
    /\ UNCHANGED <<store, count, ready, text, lost, lines, file, vars>>

Write ==
    /\ turn = "write_log" /\ queue_pop
    /\ file' = Append(file, text[table[head]])
    /\ Recycle(table[head])
    /\ UNCHANGED <<count, ready, lost, lines, turn>>

\* Mutant of WriteEnd: a single buffer is left for the next turn, for ever.
WriteEndEarly ==
    /\ turn = "write_log" /\ size <= 1
    /\ turn' = "others"
    /\ UNCHANGED <<store, count, ready, text, lost, lines, file, vars>>

WriteEnd ==
    /\ turn = "write_log" /\ size = 0
    /\ turn' = "others"
    /\ UNCHANGED <<store, count, ready, text, lost, lines, file, vars>>

-----------------------------------------------------------------------------
LogNext == AddRefused \/ Add \/ WriteBegin \/ Write \/ WriteEnd

LogSpec == LogInit /\ [][LogNext]_<<vars, logVars>>

\* write_log gets its turn, and then runs until the queue is empty.
LogFairSpec == LogSpec /\ WF_<<vars, logVars>>(WriteBegin \/ Write \/ WriteEnd)

-----------------------------------------------------------------------------
Queued(b) == \E i \in 1..size : Contents[i] = b
Times(b, s) == Cardinality({i \in DOMAIN s : s[i] = b})

\* A buffer that was ever allocated is in one place at a time: in the store,
\* empty; in the queue, initialised; or lost for good, which only a push that
\* fails does.  So no two lines share a buffer (buffer.c:155-185).
BuffersConserved ==
    \A b \in 1..count :
        /\ Times(b, store) + Times(b, Contents) + (IF b \in lost THEN 1 ELSE 0) = 1
        /\ Times(b, store) = 1 => text[b] = <<>>
        /\ Queued(b) => b \in ready

\* The file, continued by the queue, holds every line that was accepted, whole,
\* once and in the order of acceptance, except those lost with their buffers.
LinesInOrder ==
    LET all  == file \o [i \in 1..size |-> text[Contents[i]]]
        gone == UNION {{text[b][k] : k \in DOMAIN text[b]} : b \in lost}
    IN  /\ \A i \in DOMAIN all : Len(all[i]) = 1
        /\ \A i, j \in DOMAIN all : i < j => all[i][1] < all[j][1]
        /\ {all[i][1] : i \in DOMAIN all} = (1..lines) \ gone

\* A line that is queued is written.
Written ==
    \A n \in 1..MaxLines :
        (\E i \in 1..size : text[Contents[i]] = <<n>>) ~> (\E i \in DOMAIN file : file[i] = <<n>>)

==================================================================================
