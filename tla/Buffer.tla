--------------------------------- MODULE Buffer ---------------------------------
(***************************************************************************)
(* The circular buffer of src/common/buffer.c: operators on a record       *)
(*                                                                         *)
(*   [read, write, seek, len, gap, size, end, cell]                        *)
(*                                                                         *)
(* with one cell per byte.  Every piece that is written is contiguous; a   *)
(* piece that does not fit at the end goes to the start, which leaves a    *)
(* gap between end and size.                                               *)
(***************************************************************************)
EXTENDS Integers, Sequences

CONSTANTS
    Junk,      \* what an unwritten cell holds
    FirstSize, \* CLI_BUF_ORIGIN_SIZE
    Growth,    \* how often the need fits into what a buffer grows by: 10
    MaxSize    \* bound: the largest buffer for which there is memory

ASSUME BufferAssumption ==
    /\ Junk \notin Nat
    /\ FirstSize \in Nat \ {0} /\ Growth \in Nat \ {0}
    /\ MaxSize \in Nat /\ MaxSize >= FirstSize

Cell == 0..(MaxSize - 1)

Larger(a, b) == IF a > b THEN a ELSE b

\* buffer_init
EmptyBuffer ==
    [read |-> 0, write |-> 0, seek |-> 0, len |-> 0, gap |-> 0,
     size |-> FirstSize, end |-> 0, cell |-> [i \in Cell |-> Junk]]

Reset(b) == [b EXCEPT !.read = 0, !.write = 0, !.seek = 0,
                      !.len = 0, !.gap = 0, !.end = 0]

Surplus(b) == b.size - b.len - b.gap

\* Mutant of Realloc: the contents stay where they are.
ReallocInPlace(b, newSize) == [b EXCEPT !.size = newSize, !.gap = 0]

\* buffer_realloc: in a hollow buffer what is above read moves to the top.
Realloc(b, newSize) ==
    LET hollow == b.len > 0 /\ b.read >= b.write
        up     == newSize - b.end
        moved  == [i \in Cell |-> IF i >= b.read + up /\ i < newSize
                                  THEN b.cell[i - up] ELSE b.cell[i]]
    IN  IF hollow
        THEN [b EXCEPT !.cell = moved, !.read = @ + up, !.end = newSize,
                       !.size = newSize, !.gap = 0]
        ELSE [b EXCEPT !.size = newSize, !.gap = 0]

\* The size that a buffer grows to.
Grown(size, need) == size + Larger(size \div 2, need * Growth)

\* buffer_rectify: make room for need contiguous bytes.
Rectify(b, need) ==
    LET grown == Realloc(b, Grown(b.size, need))
    IN  CASE \/ Surplus(b) < need
             \/ b.write < b.read /\ b.write + need > b.read -> grown
          [] OTHER ->
             IF b.write >= b.read /\ b.write + need > b.size
             THEN CASE b.len = 0      -> Reset(b)
                    [] b.len # 0 /\ b.read >= need ->
                         [b EXCEPT !.write = 0, !.gap = b.size - b.end]
                    [] OTHER          -> grown
             ELSE b

\* Mutant of SeekWrite: the write index does not go back to the start.
SeekWriteOn(b, n) ==
    LET write == b.write + n
    IN  [b EXCEPT !.len = @ + n, !.end = Larger(write, @), !.write = write]

SeekWrite(b, n) ==
    LET write == b.write + n
    IN  [b EXCEPT !.len = @ + n, !.end = Larger(write, @),
                  !.write = IF write = b.size THEN 0 ELSE write]

\* Mutant of SeekRead: the end of the contents is not corrected.
SeekReadEndKept(b, n) ==
    LET read == b.read + n
    IN  IF read >= b.end /\ read # b.write
        THEN [b EXCEPT !.len = @ - n, !.read = 0, !.gap = 0]
        ELSE [b EXCEPT !.len = @ - n, !.read = read]

SeekRead(b, n) ==
    LET read == b.read + n
    IN  IF read >= b.end /\ read # b.write
        THEN [b EXCEPT !.len = @ - n, !.read = 0, !.gap = 0, !.end = b.write]
        ELSE [b EXCEPT !.len = @ - n, !.read = read]

\* recv at write_ptr: n bytes, the first of which is number first.
Received(b, first, n) ==
    [b EXCEPT !.cell = [i \in Cell |-> IF i >= b.write /\ i < b.write + n
                                       THEN first + i - b.write ELSE b.cell[i]]]

\* The string terminator.
Zero == 0

\* Mutant of Write: no room is made for the terminator.
WriteTight(b, first, n) ==
    LET w == SeekWrite(Received(Rectify(b, n), first, n), n)
    IN  [w EXCEPT !.cell[w.write] = Zero]

\* buffer_write: n bytes, and a terminator that the next write overwrites.
Write(b, first, n) ==
    LET w == SeekWrite(Received(Rectify(b, n + 1), first, n), n)
    IN  [w EXCEPT !.cell[w.write] = Zero]

\* The n cells from slot at on, as a pointer to them sees them.
View(b, at, n) == [i \in 1..n |-> IF at + i - 1 \in Cell THEN b.cell[at + i - 1] ELSE Junk]

\* What the buffer holds, in the order in which it is read.
Contents(b) ==
    IF b.len > 0 /\ b.read >= b.write
    THEN View(b, b.read, b.end - b.read) \o View(b, 0, b.write)
    ELSE View(b, b.read, b.write - b.read)

================================================================================
