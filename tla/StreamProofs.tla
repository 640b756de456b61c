------------------------------ MODULE StreamProofs ------------------------------
(***************************************************************************)
(* Theorems about the two halves of a client's stream, Framing (what is    *)
(* read) and Sending (what is sent), and about the Buffer that both use,   *)
(* for any sizes of messages and buffers, any number of messages and any   *)
(* way in which the bytes arrive and leave.                                *)
(*                                                                         *)
(* Bytes are their numbers, so that the invariants say which bytes the     *)
(* buffer holds (Holds) and how they lie in it (Shaped); the lemmas say of *)
(* each operator of Buffer what it does to both.                           *)
(***************************************************************************)
EXTENDS Framing, Sending, SequenceTheorems, TLAPS

-----------------------------------------------------------------------------
(* The buffer.                                                               *)

\* Buffers with no more than the memory allows, and members of V in the cells.
Buffers(V) ==
    [read : 0..MaxSize, write : 0..MaxSize, seek : 0..MaxSize, len : 0..MaxSize,
     gap : 0..MaxSize, size : 1..MaxSize, end : 0..MaxSize, cell : [Cell -> V]]

\* The contents are in one piece, or go on at the start.
Flat(b) ==
    b.read <= b.write /\ b.len = b.write - b.read /\ b.end = b.write /\ b.gap = 0

\* They go on at the start; the gap is what was left free at the end.
Hollow(b) ==
    /\ b.write <= b.read /\ b.read < b.end
    /\ b.len = b.end - b.read + b.write /\ b.gap = b.size - b.end

\* The write index is always inside the buffer.
Shaped(b) == b.write < b.size /\ b.end <= b.size /\ (Flat(b) \/ Hollow(b))

\* The bytes that are read before the contents go on at the start.
Top(b) == b.end - b.read

\* There is room for n bytes in one piece.
Spare(b, n) == b.write + n <= IF Hollow(b) THEN b.read ELSE b.size

\* The slot of the i-th byte of the contents.
SlotOf(b, i) == IF i <= Top(b) THEN b.read + i - 1 ELSE i - Top(b) - 1

\* The contents are the bytes from number first on.
Holds(b, first) == \A i \in 1..b.len : b.cell[SlotOf(b, i)] = first + i - 1

-----------------------------------------------------------------------------
(* What the operators make of each member.                                   *)

\* What the shape says of the top, the slots, and the test for a hollow buffer
\* that buffer_realloc makes.
LEMMA ShapedMore ==
    ASSUME NEW V, NEW b \in Buffers(V), Shaped(b)
    PROVE  /\ Top(b) \in 0..b.len
           /\ Flat(b) => Top(b) = b.len
           /\ ~(Flat(b) /\ Hollow(b))
           /\ Hollow(b) <=> b.len > 0 /\ b.read >= b.write
           /\ \A i \in 1..b.len : SlotOf(b, i) \in Cell
<1>1. /\ b.read \in Nat /\ b.write \in Nat /\ b.len \in Nat /\ b.end \in Nat
      /\ b.size \in Nat /\ b.size <= MaxSize /\ MaxSize \in Nat
  BY BufferAssumption DEF Buffers
<1>2. Flat(b) => Top(b) = b.len /\ ~Hollow(b) /\ ~(b.len > 0 /\ b.read >= b.write)
  BY <1>1 DEF Flat, Hollow, Top
<1>3. Hollow(b) => Top(b) \in 0..b.len /\ b.len > 0 /\ b.read >= b.write
  BY <1>1 DEF Hollow, Top
<1>4. b.end <= b.size /\ (Flat(b) \/ Hollow(b)) /\ b.write < b.size
  BY DEF Shaped
<1>5. Top(b) \in 0..b.len
  BY <1>1, <1>2, <1>3, <1>4
<1>6. b.len - Top(b) <= b.write
  BY <1>1, <1>2, <1>4 DEF Hollow, Top
<1>7. ASSUME NEW i \in 1..b.len
      PROVE  SlotOf(b, i) \in Cell
  <2>1. CASE i <= Top(b)
    BY <1>1, <1>4, <2>1 DEF SlotOf, Top, Cell
  <2>2. CASE i > Top(b)
    BY <1>1, <1>4, <1>5, <1>6, <2>2 DEF SlotOf, Cell
  <2> QED  BY <1>1, <1>5, <2>1, <2>2
<1> QED  BY <1>2, <1>3, <1>4, <1>5, <1>7

\* Field by field, what buffer_realloc leaves and what it changes.
LEMMA ReallocIs ==
    ASSUME NEW V, NEW b \in Buffers(V), NEW s \in Nat, NEW r, r = Realloc(b, s)
    PROVE  /\ r.write = b.write /\ r.seek = b.seek /\ r.len = b.len
           /\ r.gap = 0 /\ r.size = s
           /\ IF b.len > 0 /\ b.read >= b.write
              THEN /\ r.read = b.read + (s - b.end) /\ r.end = s
                   /\ r.cell = [i \in Cell |-> IF i >= b.read + (s - b.end) /\ i < s
                                  THEN b.cell[i - (s - b.end)] ELSE b.cell[i]]
              ELSE r.read = b.read /\ r.end = b.end /\ r.cell = b.cell
<1>1. CASE b.len > 0 /\ b.read >= b.write
  <2>1. r = [b EXCEPT !.cell = [i \in Cell |-> IF i >= b.read + (s - b.end) /\ i < s
                                  THEN b.cell[i - (s - b.end)] ELSE b.cell[i]],
                      !.read = @ + (s - b.end), !.end = s, !.size = s, !.gap = 0]
    BY <1>1 DEF Realloc
  <2> QED  BY <1>1, <2>1 DEF Buffers
<1>2. CASE ~(b.len > 0 /\ b.read >= b.write)
  <2>1. r = [b EXCEPT !.size = s, !.gap = 0]
    BY <1>2 DEF Realloc
  <2> QED  BY <1>2, <2>1 DEF Buffers
<1> QED  BY <1>1, <1>2

\* The write index and the piece that is read stay where they are.
LEMMA ReallocLeaves ==
    ASSUME NEW V, NEW b \in Buffers(V), NEW s \in Nat
    PROVE  /\ Realloc(b, s).write = b.write /\ Realloc(b, s).seek = b.seek
           /\ Realloc(b, s).size = s
<1>1. PICK r : r = Realloc(b, s)
  OBVIOUS
<1>2. CASE b.len > 0 /\ b.read >= b.write
  <2>1. PICK c, read : r = [b EXCEPT !.cell = c, !.read = read, !.end = s, !.size = s, !.gap = 0]
    BY <1>1, <1>2 DEF Realloc
  <2> QED  BY <1>1, <2>1 DEF Buffers
<1>3. CASE ~(b.len > 0 /\ b.read >= b.write)
  <2>1. r = [b EXCEPT !.size = s, !.gap = 0]
    BY <1>1, <1>3 DEF Realloc
  <2> QED  BY <1>1, <2>1 DEF Buffers
<1> QED  BY <1>2, <1>3

\* A buffer that grows gets larger by at least what is needed.
LEMMA GrownMore ==
    ASSUME NEW s \in Nat, NEW n \in Nat
    PROVE  Grown(s, n) \in Nat /\ Grown(s, n) >= s + n
<1>1. PICK k \in Nat : Growth = k + 1
  <2>1. Growth \in Nat /\ Growth # 0
    BY BufferAssumption
  <2>2. Growth - 1 \in Nat /\ Growth = (Growth - 1) + 1
    BY <2>1
  <2> QED  BY <2>2
<1>2. n * (k + 1) = n * k + n
  OBVIOUS
<1>3. n * k \in Nat
  OBVIOUS
<1>4. PICK g \in Nat : g = n * Growth /\ g >= n
  BY <1>1, <1>2, <1>3
<1>5. s \div 2 \in Nat
  OBVIOUS
<1>6. PICK h \in Nat : h = s \div 2
  BY <1>5
<1>7. Grown(s, n) = s + IF h > g THEN h ELSE g
  BY <1>4, <1>6 DEF Grown, Larger
<1> QED  BY <1>4, <1>7

\* The four ways to make room.
LEMMA RectifyWays ==
    ASSUME NEW V, NEW b \in Buffers(V), Shaped(b), NEW n \in Nat \ {0}
    PROVE  \/ Spare(b, n) /\ Rectify(b, n) = b
           \/ Rectify(b, n) = Realloc(b, Grown(b.size, n))
           \/ /\ b.len = 0 /\ b.write + n > b.size /\ n <= b.size
              /\ Rectify(b, n) = Reset(b)
           \/ /\ Flat(b) /\ b.len # 0 /\ b.read >= n /\ b.write + n > b.size
              /\ Rectify(b, n) = [b EXCEPT !.write = 0, !.gap = b.size - b.end]
<1> DEFINE tight == \/ Surplus(b) < n
                    \/ b.write < b.read /\ b.write + n > b.read
           beyond == b.write >= b.read /\ b.write + n > b.size
<1>1. /\ b.read \in Nat /\ b.write \in Nat /\ b.len \in Nat /\ b.end \in Nat
      /\ b.size \in Nat /\ b.gap \in Nat
  BY DEF Buffers
<1>2. CASE tight
  BY <1>2 DEF Rectify
<1>3. CASE ~tight /\ ~beyond
  <2>1. Rectify(b, n) = b
    BY <1>3 DEF Rectify
  <2>2. CASE Flat(b)
    <3>1. b.write + n <= b.size /\ ~Hollow(b)
      BY <1>1, <1>3, <2>2 DEF Flat, Hollow
    <3> QED  BY <2>1, <3>1 DEF Spare
  <2>3. CASE Hollow(b)
    <3>1. b.write + n <= b.read
      BY <1>1, <1>3, <2>3 DEF Hollow, Surplus
    <3> QED  BY <2>1, <2>3, <3>1 DEF Spare
  <2> QED  BY <2>2, <2>3 DEF Shaped
<1>4. CASE ~tight /\ beyond
  <2>1. Flat(b) /\ b.gap = 0 /\ n <= b.size
    <3>1. ~Hollow(b)
      BY <1>1, <1>4 DEF Hollow, Surplus
    <3>2. Flat(b)
      BY <3>1 DEF Shaped
    <3> QED  BY <1>1, <1>4, <3>2 DEF Flat, Surplus
  <2>2. CASE b.len = 0
    BY <1>4, <2>1, <2>2 DEF Rectify
  <2>3. CASE b.len # 0 /\ b.read >= n
    BY <1>4, <2>1, <2>3 DEF Rectify
  <2>4. CASE b.len # 0 /\ ~(b.read >= n)
    BY <1>4, <2>4 DEF Rectify
  <2> QED  BY <2>2, <2>3, <2>4
<1> QED  BY <1>2, <1>3, <1>4
-----------------------------------------------------------------------------
(* What keeps the contents.                                                  *)

\* r has the contents of b, and is as large or has grown for n bytes.
Alike(r, b, first) ==
    Shaped(r) /\ r.len = b.len /\ Top(r) = Top(b) /\ Holds(r, first)

\* buffer_realloc keeps the contents, the top of a hollow buffer at its new end,
\* and makes room in one piece.
LEMMA ReallocKeeps ==
    ASSUME NEW V, NEW b \in Buffers(V), Shaped(b), NEW n \in Nat \ {0},
           NEW first \in Int, Holds(b, first),
           NEW r, r = Realloc(b, Grown(b.size, n)), r.size <= MaxSize
    PROVE  r \in Buffers(V) /\ Alike(r, b, first) /\ Spare(r, n)
<1>1. PICK s \in Nat : s = Grown(b.size, n) /\ s >= b.size + n
  <2>1. b.size \in Nat
    BY DEF Buffers
  <2> QED  BY <2>1, GrownMore
<1>2. /\ b.read \in Nat /\ b.write \in Nat /\ b.len \in Nat /\ b.end \in Nat
      /\ b.size \in Nat /\ b.gap \in Nat /\ b.size > 0 /\ MaxSize \in Nat
      /\ b.end <= b.size /\ b.write < b.size
  BY BufferAssumption DEF Buffers, Shaped
<1>3. /\ r.write = b.write /\ r.seek = b.seek /\ r.len = b.len
      /\ r.gap = 0 /\ r.size = s
      /\ IF b.len > 0 /\ b.read >= b.write
         THEN /\ r.read = b.read + (s - b.end) /\ r.end = s
              /\ r.cell = [i \in Cell |-> IF i >= b.read + (s - b.end) /\ i < s
                             THEN b.cell[i - (s - b.end)] ELSE b.cell[i]]
         ELSE r.read = b.read /\ r.end = b.end /\ r.cell = b.cell
  BY <1>1, ReallocIs
<1>4. s <= MaxSize
  BY <1>3
<1>5. r = [read |-> r.read, write |-> r.write, seek |-> r.seek, len |-> r.len,
           gap |-> r.gap, size |-> r.size, end |-> r.end, cell |-> r.cell]
  <2>1. CASE b.len > 0 /\ b.read >= b.write
    <3>1. PICK c : c = [i \in Cell |-> IF i >= b.read + (s - b.end) /\ i < s
                             THEN b.cell[i - (s - b.end)] ELSE b.cell[i]]
      OBVIOUS
    <3>2. r = [b EXCEPT !.cell = c, !.read = @ + (s - b.end), !.end = s,
                        !.size = s, !.gap = 0]
      BY <1>1, <2>1, <3>1 DEF Realloc
    <3> QED  BY <3>2 DEF Buffers
  <2>2. CASE ~(b.len > 0 /\ b.read >= b.write)
    <3>1. r = [b EXCEPT !.size = s, !.gap = 0]
      BY <1>1, <2>2 DEF Realloc
    <3> QED  BY <3>1 DEF Buffers
  <2> QED  BY <2>1, <2>2
<1>6. CASE Hollow(b)
  <2>1. b.len > 0 /\ b.read >= b.write
    BY <1>6, ShapedMore
  <2>2. PICK up \in Nat : up = s - b.end /\ up >= n
    BY <1>1, <1>2
  <2>3. /\ r.read = b.read + up /\ r.end = s
        /\ r.cell = [i \in Cell |-> IF i >= b.read + up /\ i < s
                             THEN b.cell[i - up] ELSE b.cell[i]]
    BY <1>3, <2>1, <2>2
  <2>4. /\ b.write <= b.read /\ b.read < b.end
        /\ b.len = b.end - b.read + b.write
    BY <1>6 DEF Hollow
  <2>5. r.read \in 0..MaxSize /\ r.end \in 0..MaxSize /\ b.read + up < s
    BY <1>1, <1>2, <1>4, <2>2, <2>3, <2>4
  <2>6. r.cell \in [Cell -> V]
    <3>1. b.cell \in [Cell -> V]
      BY DEF Buffers
    <3>2. ASSUME NEW i \in Cell, i >= b.read + up, i < s
          PROVE  i - up \in Cell
      BY <1>2, <2>2, <2>4, <3>2 DEF Cell
    <3> QED  BY <2>3, <3>1, <3>2
  <2>7. Hollow(r)
    BY <1>1, <1>2, <1>3, <2>2, <2>3, <2>4, <2>5 DEF Hollow
  <2>8. Shaped(r)
    BY <1>1, <1>2, <1>3, <2>3, <2>7 DEF Shaped
  <2>9. Top(r) = Top(b)
    BY <1>1, <1>2, <2>2, <2>3 DEF Top
  <2>10. Spare(r, n)
    BY <1>2, <1>3, <2>2, <2>3, <2>4, <2>7 DEF Spare
  <2>11. ASSUME NEW i \in 1..r.len
         PROVE  r.cell[SlotOf(r, i)] = first + i - 1
    <3> i \in Nat /\ i >= 1
      BY <1>2, <1>3
    <3>1. b.cell[SlotOf(b, i)] = first + i - 1 /\ SlotOf(b, i) \in Cell
      BY <1>3, ShapedMore DEF Holds
    <3>2. CASE i <= Top(b)
      <4>1. SlotOf(r, i) = b.read + up + i - 1 /\ SlotOf(b, i) = b.read + i - 1
        BY <1>2, <2>2, <2>3, <2>9, <3>2 DEF SlotOf
      <4>2. SlotOf(r, i) \in Cell /\ SlotOf(r, i) >= b.read + up /\ SlotOf(r, i) < s
        <5>1. i <= b.end - b.read /\ up = s - b.end
          BY <2>2, <3>2 DEF Top
        <5> QED  BY <1>1, <1>2, <1>4, <4>1, <5>1 DEF Cell
      <4>3. r.cell[SlotOf(r, i)] = b.cell[SlotOf(r, i) - up]
        BY <2>3, <4>2
      <4>4. SlotOf(r, i) - up = SlotOf(b, i)
        BY <1>2, <1>3, <2>2, <4>1
      <4> QED  BY <3>1, <4>3, <4>4
    <3>3. CASE ~(i <= Top(b))
      <4>1. SlotOf(r, i) = SlotOf(b, i) /\ SlotOf(b, i) = i - Top(b) - 1
        BY <2>9, <3>3 DEF SlotOf
      <4>2. SlotOf(b, i) < b.read + up
        BY <1>2, <1>3, <2>2, <2>4, <4>1 DEF Top
      <4>3. r.cell[SlotOf(b, i)] = b.cell[SlotOf(b, i)]
        <5>1. PICK j \in Cell : j = SlotOf(b, i) /\ j < b.read + up
          BY <3>1, <4>2
        <5>2. ~(j >= b.read + up)
          BY <1>2, <2>2, <5>1 DEF Cell
        <5>3. r.cell[j] = b.cell[j]
          BY <2>3, <5>2
        <5> QED  BY <5>1, <5>3
      <4> QED  BY <3>1, <4>1, <4>3
    <3> QED  BY <3>2, <3>3
  <2>12. r \in Buffers(V)
    BY <1>2, <1>3, <1>4, <1>5, <2>5, <2>6 DEF Buffers
  <2> QED  BY <1>3, <2>8, <2>9, <2>10, <2>11, <2>12 DEF Alike, Holds
<1>7. CASE Flat(b)
  <2>1. ~(b.len > 0 /\ b.read >= b.write)
    BY <1>7, ShapedMore
  <2>2. r.read = b.read /\ r.end = b.end /\ r.cell = b.cell
    BY <1>3, <2>1
  <2>3. Flat(r) /\ ~Hollow(r)
    <3>1. r.write = b.write /\ r.len = b.len /\ r.gap = 0
      BY <1>3
    <3> QED  BY <1>2, <1>7, <2>2, <3>1 DEF Flat, Hollow
  <2>4. Shaped(r)
    BY <1>1, <1>2, <1>3, <2>2, <2>3 DEF Shaped
  <2>5. Top(r) = Top(b) /\ \A i : SlotOf(r, i) = SlotOf(b, i)
    BY <2>2 DEF Top, SlotOf
  <2>6. Holds(r, first)
    BY <1>3, <2>2, <2>5 DEF Holds
  <2>7. Spare(r, n)
    BY <1>1, <1>2, <1>3, <2>3 DEF Spare
  <2>8. r \in Buffers(V)
    <3>1. s \in 1..MaxSize
      BY <1>1, <1>2, <1>4
    <3> QED  BY <1>2, <1>3, <1>5, <2>2, <3>1 DEF Buffers
  <2> QED  BY <1>3, <2>4, <2>5, <2>6, <2>7, <2>8 DEF Alike
<1> QED  BY <1>6, <1>7 DEF Shaped

\* buffer_rectify keeps the contents and makes room in one piece; only growing
\* changes the size, and the write index moves to the start or not at all.
LEMMA RectifyKeeps ==
    ASSUME NEW V, NEW b \in Buffers(V), Shaped(b), NEW n \in Nat \ {0},
           NEW first \in Int, Holds(b, first),
           NEW r, r = Rectify(b, n), r.size <= MaxSize
    PROVE  /\ r \in Buffers(V) /\ Alike(r, b, first) /\ Spare(r, n)
           /\ r.size \in {b.size, Grown(b.size, n)}
           /\ b.write + n <= b.size => r.write = b.write /\ r.seek = b.seek
           /\ r.write \in {b.write, 0}
<1>1. CASE Spare(b, n) /\ r = b
  BY <1>1 DEF Alike
<1>2. CASE r = Realloc(b, Grown(b.size, n))
  <2>1. r.write = b.write /\ r.seek = b.seek /\ r.size = Grown(b.size, n)
    <3>1. PICK s \in Nat : s = Grown(b.size, n)
      <4>1. b.size \in Nat
        BY DEF Buffers
      <4> QED  BY <4>1, GrownMore
    <3>2. r = Realloc(b, s)
      BY <1>2, <3>1
    <3>3. r.write = b.write /\ r.seek = b.seek /\ r.size = s
      BY <3>2, ReallocLeaves
    <3> QED  BY <3>1, <3>3
  <2> QED  BY <1>2, <2>1, ReallocKeeps
<1>3. CASE b.len = 0 /\ b.write + n > b.size /\ n <= b.size /\ r = Reset(b)
  <2>1. r = [read |-> 0, write |-> 0, seek |-> 0, len |-> 0, gap |-> 0,
             size |-> b.size, end |-> 0, cell |-> b.cell]
    BY <1>3 DEF Reset, Buffers
  <2>2. r \in Buffers(V)
    BY <2>1, BufferAssumption DEF Buffers
  <2>3. Flat(r) /\ ~Hollow(r) /\ Top(r) = 0 /\ b.size \in Nat /\ b.size > 0
    BY <2>1 DEF Flat, Hollow, Top, Buffers
  <2>4. Shaped(r) /\ Spare(r, n)
    BY <1>3, <2>1, <2>3 DEF Shaped, Spare
  <2>5. Top(b) = 0
    BY <1>3, ShapedMore
  <2>6. Holds(r, first)
    BY <2>1 DEF Holds
  <2>7. b.write \in Nat /\ ~(b.write + n <= b.size)
    BY <1>3, <2>3 DEF Buffers
  <2> QED  BY <1>3, <2>1, <2>2, <2>3, <2>4, <2>5, <2>6, <2>7 DEF Alike
<1>4. CASE /\ Flat(b) /\ b.len # 0 /\ b.read >= n /\ b.write + n > b.size
           /\ r = [b EXCEPT !.write = 0, !.gap = b.size - b.end]
  <2>1. r = [read |-> b.read, write |-> 0, seek |-> b.seek, len |-> b.len,
             gap |-> b.size - b.end, size |-> b.size, end |-> b.end, cell |-> b.cell]
    BY <1>4 DEF Buffers
  <2>2. /\ b.read \in Nat /\ b.write \in Nat /\ b.len \in Nat /\ b.end \in Nat
        /\ b.size \in Nat /\ b.size > 0 /\ b.end <= b.size /\ b.size <= MaxSize
        /\ MaxSize \in Nat
    BY BufferAssumption DEF Buffers, Shaped
  <2>3. b.size - b.end \in 0..MaxSize
    BY <2>2
  <2>4. r \in Buffers(V)
    BY <2>1, <2>3, BufferAssumption DEF Buffers
  <2>5. Hollow(r)
    BY <1>4, <2>1, <2>2 DEF Flat, Hollow
  <2>6. Shaped(r) /\ Spare(r, n)
    BY <1>4, <2>1, <2>2, <2>5 DEF Shaped, Spare
  <2>7. Top(r) = Top(b) /\ \A i : SlotOf(r, i) = SlotOf(b, i)
    BY <2>1 DEF Top, SlotOf
  <2>8. Holds(r, first)
    BY <2>1, <2>7 DEF Holds
  <2>9. ~(b.write + n <= b.size)
    BY <1>4, <2>2
  <2> QED  BY <2>1, <2>4, <2>6, <2>7, <2>8, <2>9 DEF Alike
<1> QED  BY <1>1, <1>2, <1>3, <1>4, RectifyWays

\* The buffer once n bytes were written from the write index on.
Fill(b, x, n) == SeekWrite(Received(b, x, n), n)

\* Field by field, what is written and the seek of the write index.
LEMMA FillIs ==
    ASSUME NEW V, NEW b \in Buffers(V), NEW n \in Nat, NEW x \in Int,
           NEW w, w = b.write + n,
           NEW c, c = [i \in Cell |-> IF i >= b.write /\ i < w
                                   THEN x + i - b.write ELSE b.cell[i]]
    PROVE  Fill(b, x, n) =
             [read |-> b.read, write |-> IF w = b.size THEN 0 ELSE w,
              seek |-> b.seek, len |-> b.len + n, gap |-> b.gap, size |-> b.size,
              end |-> IF w > b.end THEN w ELSE b.end, cell |-> c]
<1>1. PICK e : e = [read |-> b.read, write |-> b.write,
                    seek |-> b.seek, len |-> b.len, gap |-> b.gap, size |-> b.size,
                    end |-> b.end, cell |-> c]
  OBVIOUS
<1>2. Received(b, x, n) = e
  BY <1>1 DEF Received, Buffers
<1>3. e.write = b.write /\ e.size = b.size /\ e.end = b.end /\ e.len = b.len
  BY <1>1
<1>4. SeekWrite(e, n) = [e EXCEPT !.len = b.len + n, !.end = IF w > b.end THEN w ELSE b.end,
                                  !.write = IF w = b.size THEN 0 ELSE w]
  BY <1>3 DEF SeekWrite, Larger
<1>5. SeekWrite(e, n) =
        [read |-> b.read, write |-> IF w = b.size THEN 0 ELSE w,
         seek |-> b.seek, len |-> b.len + n, gap |-> b.gap, size |-> b.size,
         end |-> IF w > b.end THEN w ELSE b.end, cell |-> c]
  BY <1>1, <1>4
<1> QED  BY <1>2, <1>5 DEF Fill

\* n bytes written where there is room for them follow the contents and overwrite
\* none of them, also when the write index goes back to the start.
LEMMA FillKeeps ==
    ASSUME NEW V, NEW b \in Buffers(V), Shaped(b), NEW n \in Nat, Spare(b, n),
           NEW first \in Int, Holds(b, first), NEW x, x = first + b.len,
           \A j \in 1..n : x + j - 1 \in V,
           NEW f, f = Fill(b, x, n)
    PROVE  /\ f \in Buffers(V) /\ Shaped(f) /\ Holds(f, first)
           /\ f.len = b.len + n /\ f.size = b.size /\ f.seek = b.seek
           /\ Hollow(b) => Top(f) = Top(b)
           /\ Hollow(f) => Hollow(b) \/ Top(f) = b.len + n
           /\ f.write = IF b.write + n = b.size THEN 0 ELSE b.write + n
           /\ \A j \in 1..n : f.cell[b.write + j - 1] = x + j - 1
           /\ \A m \in Nat \ {0} :
                  Spare(b, n + m) => Spare(f, m) /\ (Hollow(f) => Hollow(b))
           /\ \A i \in Cell : i < b.write => f.cell[i] = b.cell[i]
           /\ b.write + n <= b.size
<1>1. /\ b.read \in Nat /\ b.write \in Nat /\ b.len \in Nat /\ b.end \in Nat
      /\ b.size \in Nat /\ b.gap \in Nat /\ b.size > 0 /\ MaxSize \in Nat
      /\ b.end <= b.size /\ b.write < b.size /\ b.size <= MaxSize
  BY BufferAssumption DEF Buffers, Shaped
<1>2. PICK w \in Nat : w = b.write + n
  BY <1>1
<1>3. x \in Int
  BY <1>1
<1>4. PICK c : c = [i \in Cell |-> IF i >= b.write /\ i < w
                                 THEN x + i - b.write ELSE b.cell[i]]
  OBVIOUS
<1>5. f = [read |-> b.read, write |-> IF w = b.size THEN 0 ELSE w,
           seek |-> b.seek, len |-> b.len + n, gap |-> b.gap, size |-> b.size,
           end |-> IF w > b.end THEN w ELSE b.end, cell |-> c]
  BY <1>2, <1>3, <1>4, FillIs
<1>6. /\ f.read = b.read /\ f.write = (IF w = b.size THEN 0 ELSE w) /\ f.seek = b.seek
      /\ f.len = b.len + n /\ f.gap = b.gap /\ f.size = b.size
      /\ f.end = (IF w > b.end THEN w ELSE b.end) /\ f.cell = c
  BY <1>5
<1>7. w <= b.size
  <2>1. CASE Flat(b)
    BY <1>2, <2>1, ShapedMore DEF Spare
  <2>2. CASE Hollow(b)
    BY <1>1, <1>2, <2>2 DEF Spare, Hollow
  <2> QED  BY <2>1, <2>2 DEF Shaped
<1>8. c \in [Cell -> V]
  <2>1. b.cell \in [Cell -> V]
    BY DEF Buffers
  <2>2. ASSUME NEW i \in Cell, i >= b.write, i < w
        PROVE  x + i - b.write \in V
    <3>1. i - b.write + 1 \in 1..n
      BY <1>1, <1>2, <2>2 DEF Cell
    <3>2. x + (i - b.write + 1) - 1 = x + i - b.write
      BY <1>1, <1>3, <3>1 DEF Cell
    <3> QED  BY <3>1, <3>2
  <2> QED  BY <1>4, <2>1, <2>2
<1>9. ASSUME NEW j \in 1..n
      PROVE  f.cell[b.write + j - 1] = x + j - 1
  <2>1. PICK i \in Cell : i = b.write + j - 1 /\ i >= b.write /\ i < w
    BY <1>1, <1>2, <1>7 DEF Cell
  <2>2. c[i] = x + i - b.write
    BY <1>4, <2>1
  <2>3. x + i - b.write = x + j - 1
    BY <1>1, <1>3, <2>1
  <2> QED  BY <1>6, <2>1, <2>2, <2>3
<1>10. ASSUME NEW i \in Cell, ~(i >= b.write /\ i < w)
       PROVE  f.cell[i] = b.cell[i]
  BY <1>4, <1>6, <1>10
<1>13. \A i \in Cell : i < b.write => f.cell[i] = b.cell[i]
  <2>1. \A i \in Cell : i < b.write => ~(i >= b.write /\ i < w)
    BY <1>1 DEF Cell
  <2> QED  BY <1>10, <2>1
<1>11. CASE Hollow(b)
  <2>1. /\ b.write <= b.read /\ b.read < b.end
        /\ b.len = b.end - b.read + b.write /\ b.gap = b.size - b.end
    BY <1>11 DEF Hollow
  <2>2. w <= b.read
    BY <1>2, <1>11 DEF Spare
  <2>3. f.write = w /\ f.end = b.end
    BY <1>1, <1>6, <2>1, <2>2
  <2>4. Hollow(f)
    BY <1>1, <1>2, <1>6, <2>1, <2>2, <2>3 DEF Hollow
  <2>5. Shaped(f)
    BY <1>1, <1>6, <2>1, <2>2, <2>3, <2>4 DEF Shaped
  <2>6. Top(f) = Top(b)
    BY <1>6, <2>3 DEF Top
  <2>7. f \in Buffers(V)
    <3>1. f.len \in 0..MaxSize
      BY <1>1, <1>2, <1>6, <2>1, <2>2
    <3>2. w \in 0..MaxSize
      BY <1>1, <1>7
    <3> QED  BY <1>1, <1>5, <1>6, <1>8, <2>3, <3>1, <3>2 DEF Buffers
  <2>8. ASSUME NEW i \in 1..f.len
        PROVE  f.cell[SlotOf(f, i)] = first + i - 1
    <3>1. SlotOf(f, i) = SlotOf(b, i) /\ i \in Nat /\ i >= 1
      BY <1>1, <1>6, <2>6 DEF SlotOf
    <3>2. CASE i <= b.len
      <4>1. SlotOf(b, i) \in Cell /\ b.cell[SlotOf(b, i)] = first + i - 1
        BY <3>1, <3>2, <1>1, ShapedMore DEF Holds
      <4>2. PICK k \in Cell : k = SlotOf(b, i)
        BY <4>1
      <4>3. ~(k >= b.write /\ k < w)
        <5>1. CASE i <= Top(b)
          BY <1>1, <2>2, <3>1, <4>2, <5>1 DEF SlotOf
        <5>2. CASE ~(i <= Top(b))
          BY <1>1, <2>1, <3>1, <3>2, <4>2, <5>2 DEF SlotOf, Top
        <5> QED  BY <5>1, <5>2
      <4> QED  BY <1>10, <3>1, <4>1, <4>2, <4>3
    <3>3. CASE ~(i <= b.len)
      <4>1. PICK j \in 1..n : i = b.len + j
        <5>1. i - b.len \in 1..n /\ i = b.len + (i - b.len)
          BY <1>1, <1>6, <3>1, <3>3
        <5> QED  BY <5>1
      <4>2. ~(i <= Top(b))
        BY <1>1, <2>1, <3>1, <3>3 DEF Top
      <4>3. SlotOf(b, i) = b.write + j - 1
        BY <1>1, <2>1, <4>1, <4>2 DEF SlotOf, Top
      <4>4. x + j - 1 = first + i - 1
        BY <1>1, <4>1
      <4> QED  BY <1>9, <3>1, <4>3, <4>4
    <3> QED  BY <3>2, <3>3
  <2>9. \A m \in Nat \ {0} : Spare(b, n + m) => Spare(f, m)
    BY <1>1, <1>2, <1>6, <1>11, <2>3, <2>4 DEF Spare
  <2> QED  BY <1>2, <1>1, <1>6, <1>7, <1>9, <1>11, <1>13, <2>5, <2>6, <2>7, <2>8, <2>9 DEF Holds
<1>12. CASE Flat(b)
  <2>1. b.read <= b.write /\ b.len = b.write - b.read /\ b.end = b.write /\ b.gap = 0
    BY <1>12 DEF Flat
  <2>2. f.end = w
    BY <1>1, <1>2, <1>6, <2>1
  <2>3. Top(f) = b.len + n /\ Top(f) = f.len
    BY <1>1, <1>2, <1>6, <2>1, <2>2 DEF Top
  <2>4. ASSUME w = b.size
        PROVE  Shaped(f) /\ f.write = 0 /\ \A m \in Nat \ {0} : ~Spare(b, n + m)
    <3>1. f.write = 0
      BY <1>6, <2>4
    <3>2. Hollow(f)
      <4>1. f.read = b.read /\ f.len = b.len + n /\ f.gap = 0 /\ f.size = w
        BY <1>6, <2>1, <2>4
      <4>2. b.read < w /\ b.len + n = w - b.read
        BY <1>1, <1>2, <2>1, <2>4
      <4> QED  BY <1>1, <2>2, <3>1, <4>1, <4>2 DEF Hollow
    <3>3. Shaped(f)
      BY <1>1, <1>6, <1>7, <2>2, <3>1, <3>2 DEF Shaped
    <3>4. \A m \in Nat \ {0} : ~Spare(b, n + m)
      <4>1. ~Hollow(b)
        BY <1>12, ShapedMore
      <4> QED  BY <1>1, <1>2, <2>4, <4>1 DEF Spare
    <3> QED  BY <3>1, <3>3, <3>4
  <2>5. ASSUME w # b.size
        PROVE  /\ Shaped(f) /\ f.write = w /\ ~Hollow(f)
               /\ \A m \in Nat \ {0} : Spare(b, n + m) => Spare(f, m)
    <3>1. f.write = w
      BY <1>6, <2>5
    <3>2. Flat(f)
      BY <1>1, <1>2, <1>6, <2>1, <2>2, <3>1 DEF Flat
    <3>3. Shaped(f)
      BY <1>1, <1>6, <1>7, <2>2, <2>5, <3>1, <3>2 DEF Shaped
    <3>4. ~Hollow(f) /\ ~Hollow(b)
      <4>1. ~Hollow(b)
        BY <1>12, ShapedMore
      <4>2. f.read = b.read
        BY <1>6
      <4> QED  BY <1>1, <1>2, <2>1, <2>2, <3>1, <4>1, <4>2 DEF Hollow
    <3>5. \A m \in Nat \ {0} : Spare(b, n + m) => Spare(f, m)
      BY <1>1, <1>2, <1>6, <3>1, <3>4 DEF Spare
    <3> QED  BY <3>1, <3>3, <3>4, <3>5
  <2>6. f \in Buffers(V)
    <3>1. f.len \in 0..MaxSize
      BY <1>1, <1>2, <1>6, <1>7, <2>1
    <3>2. f.write \in 0..MaxSize /\ w \in 0..MaxSize
      BY <1>1, <1>6, <1>7
    <3> QED  BY <1>1, <1>5, <1>6, <1>8, <2>2, <3>1, <3>2 DEF Buffers
  <2>7. ASSUME NEW i \in 1..f.len
        PROVE  f.cell[SlotOf(f, i)] = first + i - 1
    <3>1. SlotOf(f, i) = b.read + i - 1 /\ i \in Nat /\ i >= 1
      BY <1>1, <1>6, <2>3 DEF SlotOf
    <3>2. CASE i <= b.len
      <4>1. SlotOf(b, i) \in Cell /\ b.cell[SlotOf(b, i)] = first + i - 1
        BY <3>1, <3>2, <1>1, ShapedMore DEF Holds
      <4>2. SlotOf(b, i) = b.read + i - 1
        BY <1>12, <3>2, ShapedMore DEF SlotOf
      <4>3. PICK k \in Cell : k = SlotOf(b, i) /\ k = b.read + i - 1
        BY <4>1, <4>2
      <4>4. ~(k >= b.write /\ k < w)
        BY <1>1, <2>1, <3>1, <3>2, <4>3
      <4> QED  BY <1>10, <3>1, <4>1, <4>2, <4>3, <4>4
    <3>3. CASE ~(i <= b.len)
      <4>1. PICK j \in 1..n : i = b.len + j
        <5>1. i - b.len \in 1..n /\ i = b.len + (i - b.len)
          BY <1>1, <1>6, <3>1, <3>3
        <5> QED  BY <5>1
      <4>2. SlotOf(f, i) = b.write + j - 1
        BY <1>1, <2>1, <3>1, <4>1
      <4>3. x + j - 1 = first + i - 1
        BY <1>1, <4>1
      <4> QED  BY <1>9, <4>2, <4>3
    <3> QED  BY <3>2, <3>3
  <2>8. ~Hollow(b)
    BY <1>12, ShapedMore
  <2> QED  BY <1>1, <1>2, <1>6, <1>7, <1>9, <1>13, <2>3, <2>4, <2>5, <2>6, <2>7, <2>8 DEF Holds
<1> QED  BY <1>11, <1>12 DEF Shaped

\* Reading n bytes from the top leaves the bytes that follow them, and takes no
\* room from the writer.
LEMMA DrainKeeps ==
    ASSUME NEW V, NEW b \in Buffers(V), Shaped(b), NEW n \in 0..Top(b),
           NEW first \in Int, Holds(b, first), NEW r, r = SeekRead(b, n)
    PROVE  /\ r \in Buffers(V) /\ Shaped(r) /\ Holds(r, first + n)
           /\ r.len = b.len - n /\ r.size = b.size /\ r.write = b.write /\ r.seek = b.seek
           /\ r.cell = b.cell
           /\ Hollow(r) => Hollow(b) /\ Top(r) = Top(b) - n
           /\ \A m \in Nat \ {0} : Spare(b, m) => Spare(r, m)
<1>1. /\ b.read \in Nat /\ b.write \in Nat /\ b.len \in Nat /\ b.end \in Nat
      /\ b.size \in Nat /\ b.gap \in Nat /\ b.size > 0 /\ MaxSize \in Nat
      /\ b.end <= b.size /\ b.write < b.size /\ b.size <= MaxSize
  BY BufferAssumption DEF Buffers, Shaped
<1>2. n \in Nat /\ n <= Top(b) /\ n <= b.len /\ Top(b) \in Nat /\ Top(b) = b.end - b.read
  BY <1>1, ShapedMore DEF Top
<1>3. PICK read \in Nat : read = b.read + n /\ read <= b.end
  BY <1>1, <1>2
<1>4. CASE read >= b.end /\ read # b.write
  <2>1. Hollow(b)
    <3>1. ASSUME Flat(b)
          PROVE  FALSE
      BY <1>1, <1>3, <1>4, <3>1 DEF Flat
    <3> QED  BY <3>1 DEF Shaped
  <2>2. /\ b.write <= b.read /\ b.read < b.end
        /\ b.len = b.end - b.read + b.write /\ b.gap = b.size - b.end
    BY <2>1 DEF Hollow
  <2>3. n = Top(b) /\ b.len - n = b.write
    BY <1>1, <1>2, <1>3, <1>4, <2>2
  <2>4. r = [b EXCEPT !.len = b.len - n, !.read = 0, !.gap = 0, !.end = b.write]
    BY <1>3, <1>4 DEF SeekRead
  <2>5. r = [read |-> 0, write |-> b.write, seek |-> b.seek, len |-> b.write,
             gap |-> 0, size |-> b.size, end |-> b.write, cell |-> b.cell]
    BY <2>3, <2>4 DEF Buffers
  <2>6. r \in Buffers(V)
    <3>1. b.write \in 0..MaxSize /\ 0 \in 0..MaxSize
      BY <1>1
    <3> QED  BY <2>5, <3>1 DEF Buffers
  <2>7. Flat(r) /\ Shaped(r)
    BY <1>1, <2>5 DEF Flat, Shaped
  <2>8. ~Hollow(r) /\ Top(r) = b.write
    BY <1>1, <2>5 DEF Hollow, Top
  <2>9. ASSUME NEW i \in 1..r.len
        PROVE  r.cell[SlotOf(r, i)] = (first + n) + i - 1
    <3>1. i \in Nat /\ i >= 1 /\ i <= b.write /\ i + n \in 1..b.len
      BY <1>1, <1>2, <2>3, <2>5
    <3>2. SlotOf(r, i) = i - 1
      BY <2>5, <2>8, <3>1 DEF SlotOf
    <3>3. SlotOf(b, i + n) = i - 1
      BY <1>1, <1>2, <2>3, <3>1 DEF SlotOf
    <3>4. b.cell[SlotOf(b, i + n)] = first + (i + n) - 1
      BY <3>1 DEF Holds
    <3> QED  BY <1>2, <2>5, <3>1, <3>2, <3>3, <3>4
  <2>10. \A m \in Nat \ {0} : Spare(b, m) => Spare(r, m)
    BY <1>1, <2>1, <2>2, <2>5, <2>8 DEF Spare
  <2> QED  BY <2>3, <2>5, <2>6, <2>7, <2>8, <2>9, <2>10 DEF Holds
<1>5. CASE ~(read >= b.end /\ read # b.write)
  <2>1. r = [b EXCEPT !.len = b.len - n, !.read = read]
    BY <1>3, <1>5 DEF SeekRead
  <2>2. r = [read |-> read, write |-> b.write, seek |-> b.seek, len |-> b.len - n,
             gap |-> b.gap, size |-> b.size, end |-> b.end, cell |-> b.cell]
    BY <2>1 DEF Buffers
  <2>3. /\ r.read = read /\ r.write = b.write /\ r.len = b.len - n /\ r.gap = b.gap
        /\ r.size = b.size /\ r.end = b.end /\ r.cell = b.cell /\ r.seek = b.seek
    BY <2>2
  <2>4. r \in Buffers(V)
    <3>1. b.len <= MaxSize
      BY DEF Buffers
    <3>2. b.len - n \in 0..MaxSize /\ read \in 0..MaxSize
      BY <1>1, <1>2, <1>3, <3>1
    <3> QED  BY <2>2, <3>2 DEF Buffers
  <2>5. Top(r) = Top(b) - n
    BY <1>1, <1>2, <1>3, <2>3 DEF Top
  <2>6. (Hollow(b) => Hollow(r)) /\ (Flat(b) => Flat(r))
    <3>1. ASSUME Flat(b)
          PROVE  Flat(r)
      BY <1>1, <1>2, <1>3, <2>3, <3>1 DEF Flat
    <3>2. ASSUME Hollow(b)
          PROVE  Hollow(r)
      <4>1. /\ b.write <= b.read /\ b.read < b.end
            /\ b.len = b.end - b.read + b.write /\ b.gap = b.size - b.end
        BY <3>2 DEF Hollow
      <4>2. read < b.end
        BY <1>1, <1>2, <1>3, <1>5, <4>1
      <4> QED  BY <1>1, <1>2, <1>3, <2>3, <4>1, <4>2 DEF Hollow
    <3> QED  BY <3>1, <3>2
  <2>7. Shaped(r)
    BY <2>3, <2>6 DEF Shaped
  <2>8. Hollow(r) => Hollow(b)
    BY <2>4, <2>6, <2>7, ShapedMore DEF Shaped
  <2>9. ASSUME NEW i \in 1..r.len
        PROVE  r.cell[SlotOf(r, i)] = (first + n) + i - 1
    <3>1. i \in Nat /\ i >= 1 /\ i + n \in 1..b.len
      BY <1>1, <1>2, <2>3
    <3>2. SlotOf(r, i) = SlotOf(b, i + n)
      BY <1>1, <1>2, <1>3, <2>3, <2>5, <3>1 DEF SlotOf
    <3>4. b.cell[SlotOf(b, i + n)] = first + (i + n) - 1
      BY <3>1 DEF Holds
    <3> QED  BY <1>2, <2>3, <3>1, <3>2, <3>4
  <2>10. \A m \in Nat \ {0} : Spare(b, m) => Spare(r, m)
    <3>1. ASSUME NEW m \in Nat \ {0}, Spare(b, m)
          PROVE  Spare(r, m)
      <4>1. CASE Hollow(b)
        BY <1>1, <1>2, <1>3, <2>3, <2>6, <3>1, <4>1 DEF Spare
      <4>2. CASE ~Hollow(b)
        BY <2>3, <2>8, <3>1, <4>2 DEF Spare
      <4> QED  BY <4>1, <4>2
    <3> QED  BY <3>1
  <2> QED  BY <2>3, <2>4, <2>5, <2>7, <2>8, <2>9, <2>10 DEF Holds
<1> QED  BY <1>4, <1>5

\* Bytes with numbers one after the other, as a sequence.
LEMMA BytesAre ==
    ASSUME NEW from \in Int, NEW n \in Nat
    PROVE  /\ Bytes(from, n) \in Seq(Int) /\ Len(Bytes(from, n)) = n
           /\ \A i \in 1..n : Bytes(from, n)[i] = from + i - 1
<1>1. \A i \in 1..n : from + i - 1 \in Int
  OBVIOUS
<1>2. [i \in 1..n |-> from + i - 1] \in Seq(Int)
  BY <1>1, IsASeq
<1> QED  BY <1>2 DEF Bytes

\* What a pointer to the read index sees.
LEMMA ViewIs ==
    ASSUME NEW V, NEW b \in Buffers(V), Shaped(b),
           NEW first \in Int, Holds(b, first), NEW n \in 0..Top(b)
    PROVE  View(b, b.read, n) = Bytes(first, n)
<1>1. n <= b.len /\ b.len \in Nat /\ b.read \in Nat
  BY ShapedMore DEF Buffers
<1>2. ASSUME NEW i \in 1..n
      PROVE  b.read + i - 1 \in Cell /\ b.cell[b.read + i - 1] = first + i - 1
  <2>1. i \in 1..b.len /\ i <= Top(b)
    BY <1>1, ShapedMore
  <2>2. SlotOf(b, i) = b.read + i - 1
    BY <2>1 DEF SlotOf
  <2> QED  BY <2>1, <2>2, ShapedMore DEF Holds
<1> QED  BY <1>2 DEF View, Bytes

\* The contents are the two pieces one after the other.
LEMMA ContentsIs ==
    ASSUME NEW V, NEW b \in Buffers(V), Shaped(b), NEW first \in Int, Holds(b, first)
    PROVE  Contents(b) = Bytes(first, b.len)
<1>1. /\ b.read \in Nat /\ b.write \in Nat /\ b.len \in Nat /\ b.end \in Nat
  BY DEF Buffers
<1>2. CASE Flat(b)
  <2>1. ~(b.len > 0 /\ b.read >= b.write) /\ Top(b) = b.len
    BY <1>2, ShapedMore
  <2>2. b.write - b.read = b.len
    BY <1>2 DEF Flat
  <2>3. Contents(b) = View(b, b.read, b.len)
    BY <2>1, <2>2 DEF Contents
  <2>4. b.len \in 0..Top(b)
    BY <1>1, <2>1
  <2> QED  BY <2>3, <2>4, ViewIs
<1>3. CASE Hollow(b)
  <2>1. b.len > 0 /\ b.read >= b.write
    BY <1>3, ShapedMore
  <2>2. PICK n \in Nat : n = Top(b) /\ n = b.end - b.read /\ b.len = n + b.write
    BY <1>1, <1>3, ShapedMore DEF Top, Hollow
  <2>3. Contents(b) = View(b, b.read, n) \o View(b, 0, b.write)
    BY <2>1, <2>2 DEF Contents
  <2>4. View(b, b.read, n) = Bytes(first, n)
    <3>1. n \in 0..Top(b)
      BY <2>2
    <3> QED  BY <3>1, ViewIs
  <2>5. View(b, 0, b.write) = Bytes(first + n, b.write)
    <3>1. ASSUME NEW i \in 1..b.write
          PROVE  0 + i - 1 \in Cell /\ b.cell[0 + i - 1] = (first + n) + i - 1
      <4>1. i + n \in 1..b.len /\ ~(i + n <= Top(b))
        BY <1>1, <2>2
      <4>2. SlotOf(b, i + n) = 0 + i - 1
        BY <1>1, <2>2, <4>1 DEF SlotOf
      <4>3. b.cell[SlotOf(b, i + n)] = first + (i + n) - 1 /\ SlotOf(b, i + n) \in Cell
        BY <4>1, ShapedMore DEF Holds
      <4>4. first + (i + n) - 1 = (first + n) + i - 1
        BY <1>1, <2>2
      <4> QED  BY <4>2, <4>3, <4>4
    <3> QED  BY <3>1 DEF View, Bytes
  <2>6. Bytes(first, n) \o Bytes(first + n, b.write) = Bytes(first, n + b.write)
    <3>1. PICK s : s = Bytes(first, n)
      OBVIOUS
    <3>2. PICK t : t = Bytes(first + n, b.write)
      OBVIOUS
    <3>3. /\ s \in Seq(Int) /\ Len(s) = n /\ t \in Seq(Int) /\ Len(t) = b.write
          /\ \A i \in 1..n : s[i] = first + i - 1
          /\ \A i \in 1..b.write : t[i] = (first + n) + i - 1
      <4>1. first + n \in Int
        BY <2>2
      <4> QED  BY <1>1, <2>2, <3>1, <3>2, <4>1, BytesAre
    <3>4. s \o t \in Seq(Int) /\ Len(s \o t) = n + b.write
      <4>1. s \in Seq(Int) /\ t \in Seq(Int)
        BY <3>3
      <4>2. s \o t \in Seq(Int) /\ Len(s \o t) = Len(s) + Len(t)
        BY <4>1, ConcatProperties
      <4> QED  BY <3>3, <4>2
    <3>5. ASSUME NEW i \in 1..(n + b.write)
          PROVE  (s \o t)[i] = first + i - 1
      <4>1. CASE i <= n
        BY <1>1, <3>3, <4>1
      <4>2. CASE ~(i <= n)
        <5>1. (s \o t)[i] = t[i - n] /\ i - n \in 1..b.write
          BY SMTT(30), <1>1, <3>3, <4>2
        <5>2. t[i - n] = (first + n) + (i - n) - 1
          BY <3>3, <5>1
        <5> QED  BY <5>1, <5>2
      <4> QED  BY <4>1, <4>2
    <3>6. PICK u : u = Bytes(first, n + b.write)
      OBVIOUS
    <3>7. /\ u \in Seq(Int) /\ Len(u) = n + b.write
          /\ \A i \in 1..(n + b.write) : u[i] = first + i - 1
      BY <1>1, <2>2, <3>6, BytesAre
    <3>8. s \o t = u
      BY <1>1, <3>4, <3>5, <3>7, SeqEqual
    <3> QED  BY <3>1, <3>2, <3>6, <3>8
  <2> QED  BY <2>2, <2>3, <2>4, <2>5, <2>6
<1> QED  BY <1>2, <1>3 DEF Shaped

-----------------------------------------------------------------------------
(* The stream: the messages lie one behind the other.                        *)

\* The last byte of the first k messages.
EndOf(s, k) == IF k = 0 THEN 0 ELSE End(s[k])

\* Every message begins behind the one before it.
Chained(s) ==
    \A j \in 1..Len(s) : /\ s[j].start = EndOf(s, j - 1) + 1
                         /\ \A i \in 0..(j - 1) : EndOf(s, i) < s[j].start

\* Byte x is the last of a piece: of a head, or of a message.
Boundary(s, x) ==
    \/ \E k \in 0..Len(s) : x = EndOf(s, k)
    \/ \E k \in 1..Len(s) : x = s[k].start + HeadSize - 1

\* What the chain says of the messages, in arithmetic.
LEMMA ChainIs ==
    ASSUME NEW s \in Seq(Message), Chained(s)
    PROVE  /\ \A k \in 0..Len(s) : EndOf(s, k) \in Nat
           /\ EndOf(s, 0) = 0
           /\ \A j \in 1..Len(s) :
                 /\ s[j] \in Message /\ s[j].start \in Nat /\ s[j].size \in Nat
                 /\ s[j].size \in DataSizes /\ s[j].kernel \in BOOLEAN
                 /\ s[j].start = EndOf(s, j - 1) + 1
                 /\ EndOf(s, j) = EndOf(s, j - 1) + HeadSize + s[j].size
                 /\ EndOf(s, j) = s[j].start + HeadSize + s[j].size - 1
           /\ \A i, j \in 0..Len(s) : i < j => EndOf(s, i) < EndOf(s, j)
           /\ \A i \in 0..Len(s), j \in 1..Len(s) :
                 i < j => EndOf(s, i) + 1 <= s[j].start
<1>1. /\ HeadSize \in Nat /\ HeadSize > 0 /\ DataSizes \subseteq Nat
      /\ Kernels \subseteq BOOLEAN /\ Len(s) \in Nat
  BY FramingAssumption, LenProperties
<1>2. ASSUME NEW j \in 1..Len(s)
      PROVE  /\ s[j] \in Message /\ s[j].start \in Nat /\ s[j].size \in Nat
             /\ s[j].size \in DataSizes /\ s[j].kernel \in BOOLEAN
             /\ s[j].start = EndOf(s, j - 1) + 1
             /\ EndOf(s, j) = s[j].start + HeadSize + s[j].size - 1
  <2>1. s[j] \in Message
    BY ElementOfSeq
  <2>2. s[j].start \in Nat /\ s[j].size \in DataSizes /\ s[j].kernel \in Kernels
    BY <2>1 DEF Message
  <2>3. EndOf(s, j) = s[j].start + HeadSize + s[j].size - 1
    BY DEF EndOf, End
  <2> QED  BY <1>1, <2>1, <2>2, <2>3 DEF Chained
<1>3. EndOf(s, 0) = 0
  BY DEF EndOf
<1>4. \A k \in 0..Len(s) : EndOf(s, k) \in Nat
  <2> TAKE k \in 0..Len(s)
  <2>1. CASE k = 0
    BY <1>3, <2>1
  <2>2. CASE k # 0
    <3>1. k \in 1..Len(s)
      BY <1>1, <2>2
    <3>2. /\ s[k].start \in Nat /\ s[k].size \in Nat
          /\ EndOf(s, k) = s[k].start + HeadSize + s[k].size - 1
      BY <1>2, <3>1
    <3> QED  BY SMTT(30), <1>1, <3>2
  <2> QED  BY <2>1, <2>2
<1>5. ASSUME NEW i \in 0..Len(s), NEW j \in 1..Len(s), i < j
      PROVE  EndOf(s, i) + 1 <= s[j].start /\ EndOf(s, i) < EndOf(s, j)
  <2>1. i \in 0..(j - 1)
    BY <1>1, <1>5
  <2>2. EndOf(s, i) < s[j].start
    BY <2>1 DEF Chained
  <2>3. /\ s[j].start \in Nat /\ s[j].size \in Nat /\ EndOf(s, i) \in Nat
        /\ EndOf(s, j) = s[j].start + HeadSize + s[j].size - 1
    BY <1>2, <1>4
  <2> QED  BY SMTT(30), <1>1, <2>2, <2>3
<1>6. ASSUME NEW i \in 0..Len(s), NEW j \in 0..Len(s), i < j
      PROVE  EndOf(s, i) < EndOf(s, j)
  <2>1. j \in 1..Len(s)
    BY <1>1, <1>6
  <2> QED  BY <1>5, <1>6, <2>1
<1>7. ASSUME NEW j \in 1..Len(s)
      PROVE  EndOf(s, j) = EndOf(s, j - 1) + HeadSize + s[j].size
  <2>1. EndOf(s, j - 1) \in Nat
    BY <1>1, <1>4
  <2>2. /\ s[j].size \in Nat /\ s[j].start = EndOf(s, j - 1) + 1
        /\ EndOf(s, j) = s[j].start + HeadSize + s[j].size - 1
    BY <1>2
  <2> QED  BY <1>1, <2>1, <2>2
<1> QED  BY <1>2, <1>3, <1>4, <1>5, <1>6, <1>7

\* Another message goes behind the last.
Longer(s, z, kernel) ==
    Append(s, [start |-> EndOf(s, Len(s)) + 1, size |-> z, kernel |-> kernel])

\* One more message lengthens the chain at its end and moves no boundary of it.
LEMMA ChainAppend ==
    ASSUME NEW s \in Seq(Message), Chained(s), NEW z \in DataSizes, NEW kernel \in Kernels,
           NEW t, t = Longer(s, z, kernel)
    PROVE  /\ t \in Seq(Message) /\ Chained(t) /\ Len(t) = Len(s) + 1
           /\ \A j \in 1..Len(s) : t[j] = s[j]
           /\ \A k \in 0..Len(s) : EndOf(t, k) = EndOf(s, k)
           /\ \A x : Boundary(s, x) => Boundary(t, x)
           /\ EndOf(t, Len(t)) > EndOf(s, Len(s))
           /\ t[Len(t)].start = EndOf(s, Len(s)) + 1
<1>0. PICK m : m = [start |-> EndOf(s, Len(s)) + 1, size |-> z, kernel |-> kernel]
  OBVIOUS
<1>1. Len(s) \in Nat /\ EndOf(s, Len(s)) \in Nat
  BY ChainIs, LenProperties
<1>2. m \in Message
  BY <1>0, <1>1 DEF Message
<1>3. /\ t \in Seq(Message) /\ Len(t) = Len(s) + 1 /\ t[Len(s) + 1] = m
      /\ \A j \in 1..Len(s) : t[j] = s[j]
  BY <1>0, <1>2, AppendProperties DEF Longer
<1>4. \A k \in 0..Len(s) : EndOf(t, k) = EndOf(s, k)
  <2> TAKE k \in 0..Len(s)
  <2>1. k # 0 => k \in 1..Len(s)
    BY <1>1
  <2> QED  BY <1>3, <2>1 DEF EndOf
<1>5. m.start = EndOf(s, Len(s)) + 1 /\ m.size \in Nat
  BY <1>0, FramingAssumption
<1>6. Chained(t)
  <2> SUFFICES ASSUME NEW j \in 1..Len(t)
               PROVE  /\ t[j].start = EndOf(t, j - 1) + 1
                      /\ \A i \in 0..(j - 1) : EndOf(t, i) < t[j].start
    BY DEF Chained
  <2>1. \A i \in 0..(j - 1) : EndOf(t, i) = EndOf(s, i) /\ i \in 0..Len(s)
    BY <1>1, <1>3, <1>4
  <2>2. CASE j \in 1..Len(s)
    <3>1. /\ s[j].start = EndOf(s, j - 1) + 1
          /\ \A i \in 0..(j - 1) : EndOf(s, i) < s[j].start
      BY <2>2 DEF Chained
    <3>2. t[j] = s[j] /\ j - 1 \in 0..(j - 1)
      BY <1>1, <1>3, <2>2
    <3> QED  BY <2>1, <3>1, <3>2
  <2>3. CASE j = Len(s) + 1
    <3>1. \A i \in 0..Len(s) : EndOf(s, i) <= EndOf(s, Len(s)) /\ EndOf(s, i) \in Nat
      BY SMTT(30), <1>1, ChainIs
    <3>2. t[j].start = EndOf(s, Len(s)) + 1 /\ j - 1 = Len(s)
      BY <1>1, <1>3, <1>5, <2>3
    <3>3. EndOf(t, j - 1) = EndOf(s, Len(s))
      BY <1>1, <1>4, <3>2
    <3>4. \A i \in 0..(j - 1) : EndOf(t, i) < t[j].start
      BY <1>1, <2>1, <3>1, <3>2
    <3> QED  BY <3>2, <3>3, <3>4
  <2> QED  BY <1>1, <1>3, <2>2, <2>3
<1>7. ASSUME NEW x, Boundary(s, x)
      PROVE  Boundary(t, x)
  <2>1. CASE \E k \in 0..Len(s) : x = EndOf(s, k)
    <3>1. PICK k \in 0..Len(s) : x = EndOf(s, k)
      BY <2>1
    <3>2. k \in 0..Len(t) /\ x = EndOf(t, k)
      BY <1>1, <1>3, <1>4, <3>1
    <3> QED  BY <3>2 DEF Boundary
  <2>2. CASE \E k \in 1..Len(s) : x = s[k].start + HeadSize - 1
    <3>1. PICK k \in 1..Len(s) : x = s[k].start + HeadSize - 1
      BY <2>2
    <3>2. k \in 1..Len(t) /\ x = t[k].start + HeadSize - 1
      BY <1>1, <1>3, <3>1
    <3> QED  BY <3>2 DEF Boundary
  <2> QED  BY <1>7, <2>1, <2>2 DEF Boundary
<1>8. EndOf(t, Len(t)) > EndOf(s, Len(s)) /\ t[Len(t)].start = EndOf(s, Len(s)) + 1
  <2>1. Len(t) \in 1..Len(t) /\ t[Len(t)] = m
    BY <1>1, <1>3
  <2>2. EndOf(t, Len(t)) = m.start + HeadSize + m.size - 1
    BY <1>3, <1>6, <2>1, ChainIs
  <2> QED  BY <1>1, <1>5, <2>1, <2>2, FramingAssumption
<1> QED  BY <1>3, <1>4, <1>6, <1>7, <1>8

\* The boundary that follows the end of a message is that of the next head, and
\* the one that follows a head is the end of its message.
LEMMA NextBoundary ==
    ASSUME NEW s \in Seq(Message), Chained(s), NEW d \in 0..Len(s),
           NEW x \in Int, Boundary(s, x), x > EndOf(s, d)
    PROVE  /\ d + 1 \in 1..Len(s)
           /\ x >= EndOf(s, d) + HeadSize
           /\ x > EndOf(s, d) + HeadSize => x >= EndOf(s, d + 1)
<1>1. Len(s) \in Nat /\ HeadSize \in Nat /\ HeadSize > 0
  BY LenProperties, FramingAssumption
<1>2. ASSUME NEW k \in 1..Len(s), k > d,
             x = EndOf(s, k) \/ x = s[k].start + HeadSize - 1
      PROVE  /\ d + 1 \in 1..Len(s)
             /\ x >= EndOf(s, d) + HeadSize
             /\ x > EndOf(s, d) + HeadSize => x >= EndOf(s, d + 1)
  <2>1. d + 1 \in 1..Len(s) /\ d \in Nat /\ d + 1 \in 0..Len(s) /\ k \in 0..Len(s)
    BY <1>1, <1>2
  <2>2. /\ EndOf(s, d) + 1 <= s[k].start /\ s[k].start \in Nat /\ s[k].size \in Nat
        /\ EndOf(s, k) = s[k].start + HeadSize + s[k].size - 1
        /\ EndOf(s, d) \in Nat
    BY <1>2, ChainIs
  <2>3. x >= s[k].start + HeadSize - 1
    <3>1. CASE x = EndOf(s, k)
      <4>1. x = s[k].start + HeadSize + s[k].size - 1
        BY <2>2, <3>1
      <4>2. \A a, h, z \in Nat : a + h + z - 1 >= a + h - 1
        OBVIOUS
      <4>3. s[k].start + HeadSize + s[k].size - 1 >= s[k].start + HeadSize - 1
        BY <1>1, <2>2, <4>2
      <4> QED  BY <4>1, <4>3
    <3>2. CASE x = s[k].start + HeadSize - 1
      BY <1>1, <2>2, <3>2
    <3> QED  BY <1>2, <3>1, <3>2
  <2>6. x >= EndOf(s, d) + HeadSize
    BY <1>1, <2>2, <2>3
  <2>4. CASE k = d + 1
    <3>1. s[k].start = EndOf(s, d) + 1
      <4>1. k - 1 = d
        BY <2>1, <2>4
      <4> QED  BY <4>1, ChainIs
    <3>2. x > EndOf(s, d) + HeadSize => x = EndOf(s, d + 1)
      BY <1>1, <1>2, <2>2, <2>4, <3>1
    <3> QED  BY <2>1, <2>2, <2>4, <2>6, <3>2
  <2>5. CASE k # d + 1
    <3>1. d + 1 < k
      BY <1>1, <1>2, <2>1, <2>5
    <3>2. EndOf(s, d + 1) + 1 <= s[k].start /\ EndOf(s, d + 1) \in Nat
      BY <2>1, <3>1, ChainIs
    <3>3. x >= EndOf(s, d + 1)
      BY SMTT(30), <1>1, <2>2, <2>3, <3>2
    <3> QED  BY <2>1, <2>6, <3>3
  <2> QED  BY <2>4, <2>5
<1>3. CASE \E k \in 0..Len(s) : x = EndOf(s, k)
  <2>1. PICK k \in 0..Len(s) : x = EndOf(s, k)
    BY <1>3
  <2>2. EndOf(s, k) \in Nat /\ EndOf(s, d) \in Nat /\ (k < d => EndOf(s, k) < EndOf(s, d))
    BY ChainIs
  <2>3. k > d
    BY <1>1, <2>1, <2>2
  <2>4. k \in 1..Len(s)
    BY <1>1, <2>3
  <2> QED  BY <1>2, <2>1, <2>3, <2>4
<1>4. CASE \E k \in 1..Len(s) : x = s[k].start + HeadSize - 1
  <2>1. PICK k \in 1..Len(s) : x = s[k].start + HeadSize - 1
    BY <1>4
  <2>2. /\ EndOf(s, k) = s[k].start + HeadSize + s[k].size - 1
        /\ s[k].start \in Nat /\ s[k].size \in Nat /\ EndOf(s, k) \in Nat
        /\ k \in 0..Len(s)
    BY <1>1, ChainIs
  <2>3. EndOf(s, d) \in Nat /\ (k < d => EndOf(s, k) < EndOf(s, d))
    BY <2>2, ChainIs
  <2>4. k > d
    BY SMTT(30), <1>1, <2>1, <2>2, <2>3
  <2> QED  BY <1>2, <2>1, <2>4
<1> QED  BY <1>3, <1>4 DEF Boundary

-----------------------------------------------------------------------------
(* The inductive invariant.                                                  *)

\* Buffer b holds the bytes up to number t that follow the first d messages of s,
\* and goes on at the start only between two pieces.
Carries(b, s, d, t) ==
    /\ b \in Buffers(1..EndOf(s, Len(s)) \cup {Junk})
    /\ Shaped(b) /\ Holds(b, EndOf(s, d) + 1)
    /\ b.len = t - EndOf(s, d)
    /\ Hollow(b) => Boundary(s, EndOf(s, d) + Top(b))

\* With t bytes the reader is in a head, or at the data of a message.
AtHead(c, s, t) ==
    /\ c.status = "head" /\ c.need = HeadSize /\ c.read < HeadSize
    /\ \E k \in 0..Len(s) : t = EndOf(s, k) + c.read

\* It wants the data of a message of which it has read the head, and a part of the
\* data perhaps.
AtData(c, s, t) ==
    /\ c.status = "data" /\ c.read < c.need /\ c.need > 0 /\ c.need <= MaxData
    /\ \E k \in 1..Len(s) : c.need = s[k].size /\ t = s[k].start + HeadSize - 1 + c.read

\* t bytes end before the first message does.
Early(s, t) == Len(s) = 0 \/ t < EndOf(s, 1)

\* Until the first message is complete the client is not ready.
Waits(c, p, s, t) == Early(s, t) => ~c.is_ok /\ ~c.is_ready /\ p # "deal"

\* After it the reader leaves its loop in a head only.
Rests(c, p, s, t) == p \in {"poll", "deal"} => c.status = "head" \/ Early(s, t)

\* What the reader keeps of a client.
Client == [need : Nat, read : Nat, status : {"head", "data"},
           is_ok : BOOLEAN, is_ready : BOOLEAN]

\* What arrived is a part of what was sent that does not end inside the data of a
\* message, but of the first.
StreamInv ==
    /\ sent \in Seq(Message) /\ Chained(sent)
    /\ arrived \in 0..EndOf(sent, Len(sent)) /\ taken \in 0..arrived
    /\ dealt \in 0..Len(sent)
    /\ event \in BOOLEAN
    /\ EndsInData(arrived) => Early(sent, arrived)

\* The buffer holds what was taken and not yet dealt with.
BufferInv == Carries(in, sent, dealt, taken)

\* The reader is at a place of the stream where a head, or the data that the last
\* head announced, goes on; the room for the rest of a piece is there already.
ReaderInv ==
    /\ cli \in Client
    /\ AtHead(cli, sent, taken) \/ AtData(cli, sent, taken)
    /\ cli.read > 0 => Spare(in, cli.need - cli.read)
    /\ pc \in {"poll", "read", "deal", "closed"}
    /\ Waits(cli, pc, sent, taken) /\ Rests(cli, pc, sent, taken)
    /\ misread \in {"nothing", "head"}

\* MessagesExact is about the step that deals with a message; it is safe because
\* the buffer holds whole pieces from a message's start on.  That follows only from
\* where the reader is in the stream, and this from what the buffer shows it.
Inv == StreamInv /\ BufferInv /\ ReaderInv

-----------------------------------------------------------------------------
(* The initial state.                                                        *)

\* The buffer of a new client holds the bytes from any number on: none.
LEMMA EmptyIs ==
    ASSUME NEW V, Junk \in V
    PROVE  /\ EmptyBuffer \in Buffers(V) /\ Shaped(EmptyBuffer) /\ Flat(EmptyBuffer)
           /\ EmptyBuffer.len = 0 /\ EmptyBuffer.write = 0 /\ EmptyBuffer.seek = 0
           /\ EmptyBuffer.size = FirstSize /\ ~Hollow(EmptyBuffer)
           /\ \A first : Holds(EmptyBuffer, first)
<1>1. PICK c : c = [i \in Cell |-> Junk]
  OBVIOUS
<1>2. EmptyBuffer = [read |-> 0, write |-> 0, seek |-> 0, len |-> 0, gap |-> 0,
                     size |-> FirstSize, end |-> 0, cell |-> c]
  BY <1>1 DEF EmptyBuffer
<1>3. c \in [Cell -> V]
  BY <1>1
<1>4. FirstSize \in 1..MaxSize /\ 0 \in 0..MaxSize /\ FirstSize > 0
  BY BufferAssumption
<1>5. EmptyBuffer \in Buffers(V)
  BY <1>2, <1>3, <1>4 DEF Buffers
<1>6. /\ EmptyBuffer.read = 0 /\ EmptyBuffer.write = 0 /\ EmptyBuffer.seek = 0
      /\ EmptyBuffer.len = 0 /\ EmptyBuffer.gap = 0 /\ EmptyBuffer.end = 0
      /\ EmptyBuffer.size = FirstSize
  BY <1>2
<1>7. Flat(EmptyBuffer) /\ ~Hollow(EmptyBuffer)
  BY <1>6 DEF Flat, Hollow
<1>8. Shaped(EmptyBuffer)
  BY <1>4, <1>6, <1>7 DEF Shaped
<1>9. \A first : Holds(EmptyBuffer, first)
  BY <1>6 DEF Holds
<1> QED  BY <1>5, <1>6, <1>7, <1>8, <1>9

\* The invariant holds at the start.
LEMMA InitInv == Init => Inv
<1> SUFFICES ASSUME Init PROVE Inv
  OBVIOUS
<1>1. /\ sent = <<>> /\ arrived = 0 /\ taken = 0 /\ event = FALSE
      /\ in = EmptyBuffer /\ pc = "poll" /\ dealt = 0 /\ misread = "nothing"
      /\ cli = [need |-> HeadSize, read |-> 0, status |-> "head",
                is_ok |-> FALSE, is_ready |-> FALSE]
  BY DEF Init
<1>2. /\ Len(sent) = 0 /\ sent \in Seq(Message)
      /\ EndOf(sent, Len(sent)) = 0 /\ EndOf(sent, dealt) = 0
  BY <1>1 DEF EndOf
<1>3. Chained(sent) /\ ~EndsInData(arrived)
  BY <1>2 DEF Chained, EndsInData
<1>4. StreamInv
  <2>1. arrived \in 0..EndOf(sent, Len(sent)) /\ taken \in 0..arrived /\ dealt \in 0..Len(sent)
    <3>1. arrived = 0 /\ taken = 0 /\ dealt = 0
      BY <1>1
    <3> QED  BY <1>2, <3>1
  <2>2. event \in BOOLEAN
    BY <1>1
  <2> QED  BY <1>2, <1>3, <2>1, <2>2 DEF StreamInv
<1>5. BufferInv
  <2>1. PICK V : V = 1..EndOf(sent, Len(sent)) \cup {Junk}
    OBVIOUS
  <2>2. /\ in \in Buffers(V) /\ Shaped(in) /\ ~Hollow(in) /\ in.len = 0
        /\ Holds(in, EndOf(sent, dealt) + 1)
    BY <1>1, <2>1, EmptyIs
  <2>3. taken - EndOf(sent, dealt) = 0
    BY <1>1, <1>2
  <2> QED  BY <2>1, <2>2, <2>3 DEF BufferInv, Carries
<1>6. HeadSize \in Nat /\ HeadSize > 0
  BY FramingAssumption
<1>7. AtHead(cli, sent, taken)
  <2>1. dealt \in 0..Len(sent) /\ taken = EndOf(sent, dealt) + 0
    BY <1>1, <1>2
  <2> QED  BY <1>1, <1>6, <2>1 DEF AtHead
<1>8. ReaderInv
  BY <1>1, <1>6, <1>7 DEF ReaderInv, Client, Waits, Rests
<1> QED  BY <1>4, <1>5, <1>8 DEF Inv

\* What ends before the first message does, and what does not.
LEMMA EarlyIs ==
    ASSUME NEW s \in Seq(Message), Chained(s)
    PROVE  /\ \A t \in Nat, u \in Nat : t <= u /\ Early(s, u) => Early(s, t)
           /\ \A k \in 1..Len(s) : ~Early(s, EndOf(s, k))
<1>1. Len(s) \in Nat
  BY LenProperties
<1>2. Len(s) # 0 => 1 \in 0..Len(s) /\ EndOf(s, 1) \in Nat
  BY <1>1, ChainIs
<1>3. \A t \in Nat, u \in Nat : t <= u /\ Early(s, u) => Early(s, t)
  BY <1>2 DEF Early
<1>4. ASSUME NEW k \in 1..Len(s) PROVE ~Early(s, EndOf(s, k))
  <2>1. k \in 0..Len(s) /\ 1 \in 0..Len(s) /\ EndOf(s, k) \in Nat
    BY <1>1, ChainIs
  <2>2. 1 < k => EndOf(s, 1) < EndOf(s, k)
    BY <2>1, ChainIs
  <2>3. ~(EndOf(s, k) < EndOf(s, 1))
    <3>1. CASE k = 1
      BY <2>1, <3>1
    <3>2. CASE k # 1
      BY <1>1, <1>2, <2>1, <2>2, <3>2
    <3> QED  BY <3>1, <3>2
  <2> QED  BY <1>1, <2>3 DEF Early
<1> QED  BY <1>3, <1>4

-----------------------------------------------------------------------------
(* The reader's turn.                                                        *)

\* What is left to read of a piece, and what recv returns of it.
LEMMA WantedIs ==
    ASSUME Inv
    PROVE  /\ cli.need \in Nat \ {0} /\ cli.read \in Nat /\ cli.read < cli.need
           /\ Wanted \in Nat \ {0} /\ Wanted = cli.need - cli.read
           /\ Got \in 0..Wanted /\ taken + Got <= arrived
           /\ taken \in Nat /\ arrived \in Nat
           /\ Got < Wanted => AtHead(cli, sent, taken) \/ Early(sent, taken + Got)
           /\ cli.status = "head" => AtHead(cli, sent, taken)
           /\ cli.status = "data" => AtData(cli, sent, taken)
<1>1. /\ HeadSize \in Nat /\ HeadSize > 0 /\ cli.need \in Nat /\ cli.read \in Nat
      /\ AtHead(cli, sent, taken) \/ AtData(cli, sent, taken)
  BY FramingAssumption DEF Inv, ReaderInv, Client
<1>2. /\ taken \in Nat /\ arrived \in Nat /\ taken <= arrived
      /\ EndsInData(arrived) => Early(sent, arrived)
  <2>1. EndOf(sent, Len(sent)) \in Nat
    BY ChainIs, LenProperties DEF Inv, StreamInv
  <2> QED  BY <2>1 DEF Inv, StreamInv
<1>3. cli.need \in Nat \ {0} /\ cli.read < cli.need
  BY <1>1 DEF AtHead, AtData
<1>4. Wanted \in Nat \ {0} /\ Wanted = cli.need - cli.read
  BY <1>1, <1>3 DEF Wanted
<1>5. Got \in 0..Wanted /\ taken + Got <= arrived
  BY <1>2, <1>4 DEF Got
<1>6. ASSUME AtData(cli, sent, taken), Got < Wanted
      PROVE  Early(sent, taken + Got)
  <2>1. PICK k \in 1..Len(sent) :
          cli.need = sent[k].size /\ taken = sent[k].start + HeadSize - 1 + cli.read
    BY <1>6 DEF AtData
  <2>2. /\ sent[k].start \in Nat /\ sent[k].size \in Nat
        /\ End(sent[k]) = sent[k].start + HeadSize + sent[k].size - 1
    BY ChainIs DEF Inv, StreamInv, End
  <2>3. Got = arrived - taken /\ taken + Got = arrived
    BY <1>2, <1>4, <1>6 DEF Got
  <2>4. PICK a \in Nat, h \in Nat, z \in Nat, r \in Nat :
          /\ a = sent[k].start /\ h = HeadSize /\ z = sent[k].size /\ r = cli.read
          /\ Wanted = z - r /\ taken = a + h - 1 + r
    BY <1>1, <1>4, <2>1, <2>2
  <2>5. PICK n \in Nat, t \in Nat : n = arrived /\ t = taken /\ t <= n /\ n - t < Wanted
    BY <1>2, <1>6, <2>3
  <2>6. n - t < z - r /\ t = a + h - 1 + r /\ r < z
    BY <1>1, <1>3, <2>1, <2>4, <2>5
  <2>7. arrived < a + h + z - 1 /\ arrived >= a + h - 1
    <3>1. n < a + h + z - 1 /\ n >= a + h - 1
      BY <2>5, <2>6
    <3> QED  BY <2>5, <3>1
  <2>8. EndsInData(arrived)
    BY <2>2, <2>4, <2>7 DEF EndsInData
  <2> QED  BY <1>2, <2>3, <2>8
<1>7. /\ cli.status = "head" => AtHead(cli, sent, taken)
      /\ cli.status = "data" => AtData(cli, sent, taken)
  BY <1>1 DEF AtHead, AtData
<1> QED  BY <1>1, <1>2, <1>3, <1>4, <1>5, <1>6, <1>7

\* Between two pieces.
LEMMA BetweenPieces ==
    ASSUME Inv, cli.read = 0
    PROVE  Boundary(sent, taken)
<1>1. CASE AtHead(cli, sent, taken)
  <2>1. PICK k \in 0..Len(sent) : taken = EndOf(sent, k) + cli.read
    BY <1>1 DEF AtHead
  <2>2. EndOf(sent, k) \in Nat
    BY ChainIs DEF Inv, StreamInv
  <2>3. taken = EndOf(sent, k)
    BY <2>1, <2>2
  <2> QED  BY <2>3 DEF Boundary
<1>2. CASE AtData(cli, sent, taken)
  <2>1. PICK k \in 1..Len(sent) : taken = sent[k].start + HeadSize - 1 + cli.read
    BY <1>2 DEF AtData
  <2>2. sent[k].start \in Nat /\ HeadSize \in Nat
    BY ChainIs, FramingAssumption DEF Inv, StreamInv
  <2>3. taken = sent[k].start + HeadSize - 1
    BY <2>1, <2>2
  <2> QED  BY <2>3 DEF Boundary
<1> QED  BY <1>1, <1>2 DEF Inv, ReaderInv

\* Room is made with the contents kept.
LEMMA RoomKeeps ==
    ASSUME Inv, NEW room, room = Room, Fits(room)
    PROVE  /\ Carries(room, sent, dealt, taken) /\ Spare(room, Wanted)
           /\ cli.read > 0 => room = in
           /\ room.size \in {in.size, Grown(in.size, cli.need)}
           /\ cli.read = 0 /\ in.write + cli.need <= in.size =>
                  room.write = in.write /\ room.seek = in.seek
           /\ room.write \in {in.write, 0}
<1> DEFINE V == 1..EndOf(sent, Len(sent)) \cup {Junk}
           o == EndOf(sent, dealt)
<1>1. /\ in \in Buffers(V) /\ Shaped(in) /\ Holds(in, o + 1) /\ in.len = taken - o
      /\ (Hollow(in) => Boundary(sent, o + Top(in)))
  BY DEF Inv, BufferInv, Carries
<1>2. /\ cli.need \in Nat \ {0} /\ cli.read \in Nat /\ Wanted = cli.need - cli.read
      /\ taken \in Nat
  BY WantedIs
<1>3. CASE cli.read > 0
  <2>1. room = in
    BY <1>2, <1>3 DEF Room
  <2>2. Spare(in, Wanted)
    BY <1>2, <1>3 DEF Inv, ReaderInv
  <2> QED  BY <1>2, <1>3, <2>1, <2>2 DEF Inv, BufferInv
<1>4. CASE cli.read = 0
  <2>1. room = Rectify(in, cli.need) /\ room.size <= MaxSize
    BY <1>4 DEF Room, Fits
  <2>2. o \in Nat /\ o + 1 \in Int
    BY ChainIs DEF Inv, StreamInv
  <2>3. /\ room \in Buffers(V) /\ Alike(room, in, o + 1) /\ Spare(room, cli.need)
        /\ room.size \in {in.size, Grown(in.size, cli.need)}
        /\ in.write + cli.need <= in.size => room.write = in.write /\ room.seek = in.seek
        /\ room.write \in {in.write, 0}
    <3>1. PICK n \in Nat \ {0} : n = cli.need
      BY <1>2
    <3>2. PICK first \in Int : first = o + 1
      BY <2>2
    <3>3. room = Rectify(in, n) /\ Holds(in, first)
      BY <1>1, <2>1, <3>1, <3>2
    <3>4. /\ room \in Buffers(V) /\ Alike(room, in, first) /\ Spare(room, n)
          /\ room.size \in {in.size, Grown(in.size, n)}
          /\ in.write + n <= in.size => room.write = in.write /\ room.seek = in.seek
          /\ room.write \in {in.write, 0}
      BY <1>1, <2>1, <3>3, RectifyKeeps
    <3> QED  BY <3>1, <3>2, <3>4
  <2>4. Shaped(room) /\ room.len = in.len /\ Top(room) = Top(in) /\ Holds(room, o + 1)
    BY <2>3 DEF Alike
  <2>5. Hollow(room) => Boundary(sent, o + Top(room))
    <3>1. CASE Hollow(in)
      BY <1>1, <2>4, <3>1
    <3>2. CASE Flat(in)
      <4>1. Top(in) = in.len
        BY <1>1, <3>2, ShapedMore
      <4>2. o + Top(room) = taken
        BY <1>1, <1>2, <2>2, <2>4, <4>1
      <4> QED  BY <1>4, <4>2, BetweenPieces
    <3> QED  BY <1>1, <3>1, <3>2 DEF Shaped
  <2>6. Carries(room, sent, dealt, taken)
    BY <1>1, <2>3, <2>4, <2>5 DEF Carries
  <2>7. Wanted = cli.need
    BY <1>2, <1>4
  <2> QED  BY <1>2, <1>4, <2>3, <2>6, <2>7
<1> QED  BY <1>2, <1>3, <1>4

\* Got bytes are put where there is room for what is wanted.
LEMMA FilledKeeps ==
    ASSUME Inv, NEW room, Carries(room, sent, dealt, taken), Spare(room, Wanted),
           NEW f, f = Filled(room)
    PROVE  /\ Got < Wanted => Carries(f, sent, dealt, taken + Got) /\ Spare(f, Wanted - Got)
           /\ Got = Wanted /\ Boundary(sent, taken + Got) =>
                  Carries(f, sent, dealt, taken + Got)
           /\ f.size = room.size /\ f.seek = room.seek /\ f.write \in 0..MaxSize
           /\ room.write + Got <= room.size /\ room.write \in Nat /\ room.size \in Nat
           /\ f.write = IF room.write + Got = room.size THEN 0 ELSE room.write + Got
           /\ \A j \in 1..Got : f.cell[room.write + j - 1] = taken + j
           /\ \A i \in Cell : i < room.write => f.cell[i] = room.cell[i]
<1>0. PICK V, o : V = 1..EndOf(sent, Len(sent)) \cup {Junk} /\ o = EndOf(sent, dealt)
  OBVIOUS
<1>1. /\ room \in Buffers(V) /\ Shaped(room) /\ Holds(room, o + 1)
      /\ room.len = taken - o
      /\ (Hollow(room) => Boundary(sent, o + Top(room)))
  BY <1>0 DEF Carries
<1>2. /\ Wanted \in Nat \ {0} /\ Got \in 0..Wanted /\ taken + Got <= arrived
      /\ taken \in Nat /\ arrived \in Nat
  BY WantedIs
<1>3. o \in Nat /\ EndOf(sent, Len(sent)) \in Nat /\ arrived <= EndOf(sent, Len(sent))
  BY <1>0, ChainIs, LenProperties DEF Inv, StreamInv
<1>4. PICK n \in Nat : n = Got
  BY <1>2
<1>5. PICK first \in Int : first = o + 1
  BY <1>3
<1>6. PICK x : x = first + room.len
  OBVIOUS
<1>7. x = taken + 1
  BY <1>1, <1>2, <1>3, <1>5, <1>6
<1>8. f = Fill(room, x, n)
  BY <1>4, <1>7 DEF Filled, Fill
<1>9. Holds(room, first)
  BY <1>1, <1>5
<1>10. Spare(room, n)
  <2>1. room.write \in Nat /\ room.read \in Nat /\ room.size \in Nat
    BY <1>1 DEF Buffers
  <2> QED  BY <1>2, <1>4, <2>1 DEF Spare
<1>11. \A j \in 1..n : x + j - 1 \in V
  BY <1>0, <1>2, <1>3, <1>4, <1>7
<1>12. /\ f \in Buffers(V) /\ Shaped(f) /\ Holds(f, first)
       /\ f.len = room.len + n /\ f.size = room.size /\ f.seek = room.seek
       /\ Hollow(room) => Top(f) = Top(room)
       /\ Hollow(f) => Hollow(room) \/ Top(f) = room.len + n
       /\ f.write = IF room.write + n = room.size THEN 0 ELSE room.write + n
       /\ \A j \in 1..n : f.cell[room.write + j - 1] = x + j - 1
       /\ \A m \in Nat \ {0} :
              Spare(room, n + m) => Spare(f, m) /\ (Hollow(f) => Hollow(room))
       /\ \A i \in Cell : i < room.write => f.cell[i] = room.cell[i]
       /\ room.write + n <= room.size
  BY <1>1, <1>6, <1>8, <1>9, <1>10, <1>11, FillKeeps
<1>13. f.len = (taken + Got) - o
  BY <1>1, <1>2, <1>3, <1>4, <1>12
<1>14. ASSUME Hollow(f) => Boundary(sent, o + Top(f))
       PROVE  Carries(f, sent, dealt, taken + Got)
  <2>1. o = EndOf(sent, dealt)
    BY <1>0
  <2>2. f \in Buffers(1..EndOf(sent, Len(sent)) \cup {Junk})
    BY <1>0, <1>12
  <2>3. Shaped(f) /\ Holds(f, EndOf(sent, dealt) + 1)
    BY <1>5, <1>12, <2>1
  <2>4. f.len = (taken + Got) - EndOf(sent, dealt)
    BY <1>13, <2>1
  <2>5. Hollow(f) => Boundary(sent, EndOf(sent, dealt) + Top(f))
    BY <1>14, <2>1
  <2> QED  BY <2>2, <2>3, <2>4, <2>5 DEF Carries
<1>15. ASSUME Got < Wanted
       PROVE  Carries(f, sent, dealt, taken + Got) /\ Spare(f, Wanted - Got)
  <2>1. Wanted - Got \in Nat \ {0} /\ n + (Wanted - Got) = Wanted
    BY <1>2, <1>4, <1>15
  <2>2. Spare(f, Wanted - Got) /\ (Hollow(f) => Hollow(room))
    BY <1>12, <2>1
  <2> QED  BY <1>1, <1>12, <1>14, <2>2
<1>16. ASSUME Got = Wanted, Boundary(sent, taken + Got)
       PROVE  Carries(f, sent, dealt, taken + Got)
  <2>1. Hollow(f) /\ ~Hollow(room) => o + Top(f) = taken + Got
    BY <1>1, <1>2, <1>3, <1>4, <1>12
  <2> QED  BY <1>1, <1>12, <1>14, <1>16, <2>1
<1>17. \A j \in 1..Got : f.cell[room.write + j - 1] = taken + j
  BY <1>2, <1>4, <1>7, <1>12
<1>18. f.write \in 0..MaxSize /\ room.write \in Nat /\ room.size \in Nat
  BY <1>1, <1>12 DEF Buffers
<1> QED  BY <1>4, <1>12, <1>15, <1>16, <1>17, <1>18

\* seek is not part of what the buffer carries.
LEMMA SeekKeeps ==
    ASSUME NEW b, NEW s, NEW d, NEW t, Carries(b, s, d, t), NEW w \in 0..MaxSize,
           NEW r, r = [b EXCEPT !.seek = w]
    PROVE  /\ Carries(r, s, d, t)
           /\ r.write = b.write /\ r.size = b.size /\ r.seek = w /\ r.cell = b.cell
<1>1. PICK V : V = 1..EndOf(s, Len(s)) \cup {Junk}
  OBVIOUS
<1>2. b \in Buffers(V)
  BY <1>1 DEF Carries
<1>3. /\ r.read = b.read /\ r.write = b.write /\ r.len = b.len /\ r.gap = b.gap
      /\ r.size = b.size /\ r.end = b.end /\ r.cell = b.cell /\ r.seek = w
      /\ r \in Buffers(V)
  BY <1>2 DEF Buffers
<1>4. /\ Flat(r) <=> Flat(b)
      /\ Hollow(r) <=> Hollow(b)
      /\ Top(r) = Top(b)
      /\ \A i : SlotOf(r, i) = SlotOf(b, i)
  BY <1>3 DEF Flat, Hollow, Top, SlotOf
<1>5. Shaped(r) /\ Holds(r, EndOf(s, d) + 1)
  BY <1>3, <1>4 DEF Carries, Shaped, Holds
<1>6. r.len = t - EndOf(s, d) /\ (Hollow(r) => Boundary(s, EndOf(s, d) + Top(r)))
  BY <1>3, <1>4 DEF Carries
<1> QED  BY <1>1, <1>3, <1>5, <1>6 DEF Carries

\* ReaderInv of the next state.
LEMMA ReaderNext ==
    ReaderInv' <=>
        /\ cli' \in Client
        /\ AtHead(cli', sent', taken') \/ AtData(cli', sent', taken')
        /\ cli'.read > 0 => Spare(in', cli'.need - cli'.read)
        /\ pc' \in {"poll", "read", "deal", "closed"}
        /\ Waits(cli', pc', sent', taken') /\ Rests(cli', pc', sent', taken')
        /\ misread' \in {"nothing", "head"}
BY DEF ReaderInv, Client, AtHead, AtData, Spare, Hollow, EndOf, Waits, Rests, Early

\* recv returned less than is wanted: in a head, or in the data of the first message.
LEMMA ReadPartKeeps ==
    ASSUME Inv, pc = "read", NEW room, room = Room, Fits(room), Got < Wanted, ReadPart(room)
    PROVE  Inv'
<1>1. /\ in' = Filled(room) /\ taken' = taken + Got /\ pc' = "poll"
      /\ cli' = [cli EXCEPT !.read = @ + Got, !.is_ready = cli.is_ok \/ @]
      /\ sent' = sent /\ arrived' = arrived /\ event' = event /\ dealt' = dealt
      /\ misread' = misread
  BY DEF ReadPart
<1>2. Carries(room, sent, dealt, taken) /\ Spare(room, Wanted)
  BY RoomKeeps
<1>3. Carries(Filled(room), sent, dealt, taken + Got) /\ Spare(Filled(room), Wanted - Got)
  BY <1>2, FilledKeeps
<1>4. /\ cli.need \in Nat \ {0} /\ cli.read \in Nat /\ cli.read < cli.need
      /\ Wanted = cli.need - cli.read /\ Got \in 0..Wanted /\ taken + Got <= arrived
      /\ taken \in Nat /\ arrived \in Nat
      /\ AtHead(cli, sent, taken) \/ Early(sent, taken + Got)
      /\ AtHead(cli, sent, taken) \/ AtData(cli, sent, taken)
  BY WantedIs DEF Inv, ReaderInv
<1>5. BufferInv'
  <2>1. BufferInv' <=> Carries(in', sent', dealt', taken')
    BY DEF BufferInv, Carries, Boundary, EndOf, Holds
  <2> QED  BY <1>1, <1>3, <2>1
<1>6. StreamInv'
  <2>1. taken' \in 0..arrived
    BY <1>1, <1>4
  <2> QED  BY <1>1, <2>1 DEF Inv, StreamInv, EndsInData, Early, EndOf
<1>7. cli \in Client
  BY DEF Inv, ReaderInv
<1>8. PICK r : r = cli.read + Got /\ r \in Nat /\ r < cli.need
  BY <1>4
<1>9. PICK ready \in BOOLEAN : ready = (cli.is_ok \/ cli.is_ready)
  OBVIOUS
<1>10. PICK c : c = cli' /\ c = [cli EXCEPT !.read = r, !.is_ready = ready]
  BY <1>1, <1>8, <1>9
<1>11. /\ c \in Client /\ c.status = cli.status /\ c.need = cli.need
       /\ c.read = r /\ c.is_ok = cli.is_ok /\ c.is_ready = ready
  BY <1>7, <1>8, <1>10 DEF Client
<1>12. AtHead(c, sent, taken + Got) \/ AtData(c, sent, taken + Got)
  <2>1. CASE AtHead(cli, sent, taken)
    <3>1. PICK k \in 0..Len(sent) : taken = EndOf(sent, k) + cli.read
      BY <2>1 DEF AtHead
    <3>2. EndOf(sent, k) \in Nat
      BY ChainIs DEF Inv, StreamInv
    <3>3. taken + Got = EndOf(sent, k) + r
      BY SMTT(30), <1>4, <1>8, <3>1, <3>2
    <3> QED  BY <1>8, <1>11, <2>1, <3>3 DEF AtHead
  <2>2. CASE AtData(cli, sent, taken)
    <3>1. PICK k \in 1..Len(sent) :
            cli.need = sent[k].size /\ taken = sent[k].start + HeadSize - 1 + cli.read
      BY <2>2 DEF AtData
    <3>2. sent[k].start \in Nat /\ HeadSize \in Nat
      BY ChainIs, FramingAssumption DEF Inv, StreamInv
    <3>3. PICK p \in Int : p = sent[k].start + HeadSize - 1
      BY <3>2
    <3>4. taken + Got = p + r
      BY <1>4, <1>8, <3>1, <3>3
    <3> QED  BY <1>8, <1>11, <2>2, <3>1, <3>3, <3>4 DEF AtData
  <2> QED  BY <1>4, <2>1, <2>2
<1>13. c.need - c.read = Wanted - Got
  BY <1>4, <1>8, <1>11
<1>14. Waits(c, "poll", sent, taken + Got) /\ Rests(c, "poll", sent, taken + Got)
  <2>1. Early(sent, taken + Got) => ~cli.is_ok /\ ~cli.is_ready
    <3>1. Early(sent, taken + Got) => Early(sent, taken)
      <4>1. taken + Got \in Nat /\ taken <= taken + Got
        BY <1>4
      <4> QED  BY <1>4, <4>1, EarlyIs DEF Inv, StreamInv
    <3> QED  BY <3>1 DEF Inv, ReaderInv, Waits
  <2>2. c.status = "head" \/ Early(sent, taken + Got)
    BY <1>4, <1>11 DEF AtHead
  <2> QED  BY <1>9, <1>11, <2>1, <2>2 DEF Waits, Rests
<1>15. ReaderInv'
  <2>1. Spare(in', c.need - c.read)
    BY <1>1, <1>3, <1>13
  <2> QED  BY <1>1, <1>10, <1>11, <1>12, <1>14, <2>1, ReaderNext DEF Inv, ReaderInv
<1> QED  BY <1>5, <1>6, <1>15 DEF Inv

\* Nothing is read, and at most pc and misread change.
LEMMA StopKeeps ==
    ASSUME Inv, UNCHANGED <<sent, arrived, taken, event, in, cli, dealt>>,
           pc' = "closed", misread' \in {"nothing", "head"}
    PROVE  Inv'
<1>1. BufferInv'
  BY DEF Inv, BufferInv, Carries, Boundary, EndOf, Holds
<1>2. StreamInv'
  BY DEF Inv, StreamInv, EndsInData, Early, EndOf
<1>3. ReaderInv'
  <2>1. Waits(cli, "closed", sent, taken) /\ Rests(cli, "closed", sent, taken)
    BY DEF Inv, ReaderInv, Waits, Rests
  <2> QED  BY <2>1, ReaderNext DEF Inv, ReaderInv
<1> QED  BY <1>1, <1>2, <1>3 DEF Inv

\* Where the reader is when a piece is complete.
LEMMA PieceIs ==
    ASSUME Inv, Got = Wanted, NEW size \in Nat, NEW c, c = NextPiece(size),
           cli.status = "head" =>
               \E m \in 1..Len(sent) : /\ sent[m].start + HeadSize = taken + Got + 1
                                       /\ size = sent[m].size /\ size <= MaxData
    PROVE  /\ Boundary(sent, taken + Got) /\ c \in Client /\ c.read = 0
           /\ AtHead(c, sent, taken + Got) \/ AtData(c, sent, taken + Got)
           /\ c.is_ready = cli.is_ready
           /\ c.is_ok = cli.is_ok \/ ~Early(sent, taken + Got)
<1>1. /\ cli.need \in Nat \ {0} /\ cli.read \in Nat /\ cli.read < cli.need
      /\ Wanted = cli.need - cli.read /\ taken \in Nat /\ arrived \in Nat
      /\ cli.status = "head" => AtHead(cli, sent, taken)
      /\ cli.status = "data" => AtData(cli, sent, taken)
      /\ HeadSize \in Nat /\ HeadSize > 0 /\ Got \in Nat
  BY WantedIs, FramingAssumption
<1>2. PICK n \in Nat, r \in Nat, status \in {"head", "data"}, ok \in BOOLEAN, ready \in BOOLEAN :
        cli = [need |-> n, read |-> r, status |-> status, is_ok |-> ok, is_ready |-> ready]
  BY DEF Inv, ReaderInv, Client
<1>3. CASE cli.status = "head"
  <2>1. PICK m \in 1..Len(sent) : /\ sent[m].start + HeadSize = taken + Got + 1
                                  /\ size = sent[m].size /\ size <= MaxData
    BY <1>3
  <2>2. /\ sent[m].start \in Nat
        /\ EndOf(sent, m) = sent[m].start + HeadSize + sent[m].size - 1
    BY ChainIs DEF Inv, StreamInv
  <2>3. PICK g \in Nat : g = taken + Got
    BY <1>1, WantedIs
  <2>8. PICK a \in Nat : a = sent[m].start /\ a + HeadSize = g + 1
    BY <2>1, <2>2, <2>3
  <2>4. g = sent[m].start + HeadSize - 1
    <3>1. PICK h \in Nat : h = HeadSize
      BY FramingAssumption
    <3>2. a + h = g + 1
      BY <2>8, <3>1
    <3>3. g = a + h - 1
      BY <3>2
    <3> QED  BY <2>8, <3>1, <3>3
  <2>5. Boundary(sent, g)
    BY <2>4 DEF Boundary
  <2>6. CASE size > 0
    <3>1. c = [cli EXCEPT !.status = "data", !.need = size, !.read = 0]
      BY <1>3, <2>6 DEF NextPiece
    <3>4. c = [need |-> size, read |-> 0, status |-> "data", is_ok |-> ok, is_ready |-> ready]
      BY <1>2, <3>1
    <3>2. /\ c \in Client /\ c.read = 0 /\ c.status = "data" /\ c.need = size
          /\ c.is_ready = cli.is_ready /\ c.is_ok = cli.is_ok
      BY <1>2, <3>4 DEF Client
    <3>3. AtData(c, sent, g)
      <4>1. PICK p \in Int : p = sent[m].start + HeadSize - 1
        BY <1>1, <2>2
      <4>2. g = p + c.read
        BY <2>4, <3>2, <4>1
      <4> QED  BY <2>1, <2>6, <3>2, <4>1, <4>2 DEF AtData
    <3> QED  BY <2>3, <2>5, <3>2, <3>3
  <2>7. CASE size = 0
    <3>1. c = [cli EXCEPT !.is_ok = TRUE, !.read = 0]
      BY <1>3, <2>7 DEF NextPiece
    <3>2. /\ c \in Client /\ c.read = 0 /\ c.status = "head" /\ c.need = HeadSize
          /\ c.is_ready = cli.is_ready
      <4>1. c = [need |-> n, read |-> 0, status |-> status, is_ok |-> TRUE, is_ready |-> ready]
        BY <1>2, <3>1
      <4>2. n = HeadSize /\ status = "head"
        BY <1>1, <1>2, <1>3 DEF AtHead
      <4> QED  BY <1>2, <4>1, <4>2 DEF Client
    <3>3. g = EndOf(sent, m) + c.read
      <4>1. EndOf(sent, m) = a + HeadSize + 0 - 1
        BY <2>1, <2>2, <2>7, <2>8
      <4>2. g + 0 = a + HeadSize + 0 - 1
        BY SMTT(30), <1>1, <2>8
      <4> QED  BY <2>3, <3>2, <4>1, <4>2
    <3>4. m \in 0..Len(sent)
      BY LenProperties DEF Inv, StreamInv
    <3>5. AtHead(c, sent, g)
      BY <1>1, <3>2, <3>3, <3>4 DEF AtHead
    <3>6. g = EndOf(sent, m)
      BY <2>3, <3>2, <3>3, <3>4, ChainIs DEF Inv, StreamInv
    <3>7. ~Early(sent, g)
      BY <3>6, EarlyIs DEF Inv, StreamInv
    <3> QED  BY <2>3, <2>5, <3>2, <3>5, <3>7
  <2> QED  BY <2>6, <2>7
<1>4. CASE cli.status = "data"
  <2>1. PICK k \in 1..Len(sent) :
          cli.need = sent[k].size /\ taken = sent[k].start + HeadSize - 1 + cli.read
    BY <1>1, <1>4 DEF AtData
  <2>2. /\ sent[k].start \in Nat /\ EndOf(sent, k) \in Nat
        /\ EndOf(sent, k) = sent[k].start + HeadSize + sent[k].size - 1
        /\ k \in 0..Len(sent)
    <3>1. k \in 0..Len(sent)
      BY LenProperties DEF Inv, StreamInv
    <3> QED  BY <3>1, ChainIs DEF Inv, StreamInv
  <2>3. PICK g \in Nat : g = taken + Got
    BY <1>1, WantedIs
  <2>4. g = EndOf(sent, k)
    <3>1. PICK p \in Int : p = sent[k].start + HeadSize - 1
      BY <1>1, <2>2
    <3>2. g = p + sent[k].size
      <4>1. PICK q \in Nat, z \in Nat : q = cli.read /\ z = sent[k].size
        BY <1>1, <2>1
      <4>2. taken = p + q /\ Got = z - q
        BY <1>1, <2>1, <3>1, <4>1
      <4>3. (p + q) + (z - q) = p + z
        OBVIOUS
      <4> QED  BY <2>3, <4>1, <4>2, <4>3
    <3>3. PICK a \in Nat, h \in Nat, z \in Nat :
            /\ a = sent[k].start /\ h = HeadSize /\ z = sent[k].size
            /\ EndOf(sent, k) = a + h + z - 1 /\ p = a + h - 1 /\ g = p + z
      BY <1>1, <2>1, <2>2, <3>1, <3>2
    <3>4. a + h + z - 1 = (a + h - 1) + z
      OBVIOUS
    <3> QED  BY <3>3, <3>4
  <2>5. Boundary(sent, g)
    BY <2>2, <2>4 DEF Boundary
  <2>6. c = [cli EXCEPT !.status = "head", !.need = HeadSize, !.is_ok = TRUE, !.read = 0]
    BY <1>4 DEF NextPiece
  <2>7. /\ c \in Client /\ c.read = 0 /\ c.status = "head" /\ c.need = HeadSize
        /\ c.is_ready = cli.is_ready
    <3>1. c = [need |-> HeadSize, read |-> 0, status |-> "head", is_ok |-> TRUE, is_ready |-> ready]
      BY <1>2, <2>6
    <3> QED  BY <1>1, <1>2, <3>1 DEF Client
  <2>8. AtHead(c, sent, g)
    <3>1. g = EndOf(sent, k) + c.read
      BY <2>2, <2>4, <2>7
    <3> QED  BY <1>1, <2>2, <2>7, <3>1 DEF AtHead
  <2>9. ~Early(sent, g)
    BY <2>4, EarlyIs DEF Inv, StreamInv
  <2> QED  BY <2>3, <2>5, <2>7, <2>8, <2>9
<1> QED  BY <1>2, <1>3, <1>4

\* The heads that the guide may take for the one that was just read.
Heads(filled) == {m \in HeadsAt(filled, filled.seek) :
                    sent[m].start + HeadSize = taken + Got + 1}

\* A piece is complete: the guide does not find the head, the message is too long,
\* or the reader goes on with the size that the head of a message says.
LEMMA ReadPieceWays ==
    ASSUME Inv, NEW room, ReadPiece(room), NEW f, f = Filled(room)
    PROVE  \/ cli.status = "head" /\ Heads(f) = {} /\ Misread("head")
           \/ Close
           \/ \E size \in Nat :
                /\ cli.status = "head" =>
                     \E m \in 1..Len(sent) : /\ sent[m].start + HeadSize = taken + Got + 1
                                             /\ size = sent[m].size /\ size <= MaxData
                /\ in' = [f EXCEPT !.seek = f.write]
                /\ cli' = NextPiece(size)
                /\ taken' = taken + Got
                /\ pc' \in {"closed", "read"}
                /\ UNCHANGED <<sent, arrived, event, dealt, misread>>
<1>1. PICK heads : heads = Heads(f)
  OBVIOUS
<1>6. PICK head : head = CHOOSE m \in heads : TRUE
  OBVIOUS
<1>2. PICK size : size = IF cli.status = "head" THEN sent[head].size ELSE 0
  OBVIOUS
<1>3. CASE cli.status = "head" /\ heads = {}
  <2>1. Misread("head")
    BY <1>1, <1>3 DEF ReadPiece, Heads
  <2> QED  BY <1>1, <1>3, <2>1
<1>4. CASE cli.status = "head" /\ heads # {} /\ size > MaxData
  <2>1. Close
    BY <1>1, <1>2, <1>4, <1>6 DEF ReadPiece, Heads
  <2> QED  BY <2>1
<1>5. CASE cli.status = "head" => heads # {} /\ ~(size > MaxData)
  <2>1. \E result \in Returns :
          /\ in' = [f EXCEPT !.seek = f.write]
          /\ cli' = NextPiece(size)
          /\ taken' = taken + Got
          /\ pc' = IF result = "negative" THEN "closed" ELSE "read"
          /\ UNCHANGED <<sent, arrived, event, dealt, misread>>
    BY <1>1, <1>2, <1>5, <1>6 DEF ReadPiece, Heads
  <2>2. cli.status = "head" =>
          \E m \in 1..Len(sent) : /\ sent[m].start + HeadSize = taken + Got + 1
                                  /\ size = sent[m].size /\ size <= MaxData
    <3>1. SUFFICES ASSUME cli.status = "head"
                   PROVE  \E m \in 1..Len(sent) :
                            /\ sent[m].start + HeadSize = taken + Got + 1
                            /\ size = sent[m].size /\ size <= MaxData
      OBVIOUS
    <3>2. head \in heads
      BY <1>5, <1>6, <3>1
    <3>3. head \in 1..Len(sent) /\ sent[head].start + HeadSize = taken + Got + 1
      BY <1>1, <3>2 DEF Heads, HeadsAt
    <3>4. size = sent[head].size /\ size \in Nat
      BY <1>2, <3>1, <3>2, <3>3, ChainIs DEF Inv, StreamInv
    <3>5. size <= MaxData
      BY <1>5, <3>1, <3>4, FramingAssumption
    <3> QED  BY <3>3, <3>4, <3>5
  <2>3. size \in Nat
    <3>1. CASE cli.status = "head"
      BY <2>2, <3>1, ChainIs DEF Inv, StreamInv
    <3>2. CASE cli.status # "head"
      BY <1>2, <3>2
    <3> QED  BY <3>1, <3>2
  <2>4. PICK result \in Returns :
          /\ in' = [f EXCEPT !.seek = f.write]
          /\ cli' = NextPiece(size)
          /\ taken' = taken + Got
          /\ pc' = IF result = "negative" THEN "closed" ELSE "read"
          /\ UNCHANGED <<sent, arrived, event, dealt, misread>>
    BY <2>1
  <2>5. pc' \in {"closed", "read"}
    BY <2>4
  <2> QED  BY <2>2, <2>3, <2>4, <2>5
<1> QED  BY <1>3, <1>4, <1>5

\* A complete piece takes the reader to the next boundary.
LEMMA ReadPieceKeeps ==
    ASSUME Inv, pc = "read", NEW room, room = Room, Fits(room), Got = Wanted, ReadPiece(room)
    PROVE  Inv'
<1>1. PICK f : f = Filled(room)
  OBVIOUS
<1>2. ASSUME Misread("head")
      PROVE  Inv'
  BY <1>2, StopKeeps DEF Misread
<1>3. ASSUME Close
      PROVE  Inv'
  <2>1. misread' \in {"nothing", "head"}
    BY <1>3 DEF Close, Inv, ReaderInv
  <2> QED  BY <1>3, <2>1, StopKeeps DEF Close
<1>4. ASSUME NEW size \in Nat,
             cli.status = "head" =>
               \E m \in 1..Len(sent) : /\ sent[m].start + HeadSize = taken + Got + 1
                                       /\ size = sent[m].size /\ size <= MaxData,
             in' = [f EXCEPT !.seek = f.write], cli' = NextPiece(size),
             taken' = taken + Got, pc' \in {"closed", "read"},
             UNCHANGED <<sent, arrived, event, dealt, misread>>
      PROVE  Inv'
  <2>1. PICK c : c = NextPiece(size)
    OBVIOUS
  <2>2. /\ Boundary(sent, taken + Got) /\ c \in Client /\ c.read = 0
        /\ AtHead(c, sent, taken + Got) \/ AtData(c, sent, taken + Got)
        /\ c.is_ready = cli.is_ready
        /\ c.is_ok = cli.is_ok \/ ~Early(sent, taken + Got)
    BY <1>4, <2>1, PieceIs
  <2>3. Carries(room, sent, dealt, taken) /\ Spare(room, Wanted)
    BY RoomKeeps
  <2>4. Carries(f, sent, dealt, taken + Got) /\ f.write \in 0..MaxSize
    BY <1>1, <2>2, <2>3, FilledKeeps
  <2>5. Carries(in', sent, dealt, taken + Got)
    <3>1. PICK w \in 0..MaxSize : w = f.write
      BY <2>4
    <3>4. PICK r : r = [f EXCEPT !.seek = w]
      OBVIOUS
    <3>2. PICK t : t = taken + Got
      OBVIOUS
    <3>3. Carries(r, sent, dealt, t)
      BY <2>4, <3>2, <3>4, SeekKeeps
    <3> QED  BY <1>4, <3>1, <3>2, <3>3, <3>4
  <2>6. BufferInv'
    <3>1. BufferInv' <=> Carries(in', sent', dealt', taken')
      BY DEF BufferInv, Carries, Boundary, EndOf, Holds
    <3> QED  BY <1>4, <2>5, <3>1
  <2>7. StreamInv'
    <3>1. taken' \in 0..arrived
      BY <1>4, WantedIs
    <3> QED  BY <1>4, <3>1 DEF Inv, StreamInv, EndsInData, Early, EndOf
  <2>8. ReaderInv'
    <3>1. cli' \in Client /\ cli'.read = 0
      BY <1>4, <2>1, <2>2
    <3>2. AtHead(cli', sent', taken') \/ AtData(cli', sent', taken')
      BY <1>4, <2>1, <2>2
    <3>3. /\ ~(cli'.read > 0) /\ ~(pc' \in {"poll", "deal"})
          /\ pc' \in {"poll", "read", "deal", "closed"} /\ misread' \in {"nothing", "head"}
      BY <1>4, <3>1 DEF Inv, ReaderInv
    <3>4. Waits(c, pc', sent, taken + Got)
      <4>1. Early(sent, taken + Got) => Early(sent, taken)
        <5>1. taken \in Nat /\ taken + Got \in Nat /\ taken <= taken + Got
          BY WantedIs
        <5> QED  BY <5>1, EarlyIs DEF Inv, StreamInv
      <4>2. Early(sent, taken) => ~cli.is_ok /\ ~cli.is_ready
        BY DEF Inv, ReaderInv, Waits
      <4> QED  BY <2>2, <3>3, <4>1, <4>2 DEF Waits
    <3>5. Rests(c, pc', sent, taken + Got)
      BY <3>3 DEF Rests
    <3> QED  BY <1>4, <2>1, <3>1, <3>2, <3>3, <3>4, <3>5, ReaderNext
  <2> QED  BY <2>6, <2>7, <2>8 DEF Inv
<1> QED  BY <1>1, <1>2, <1>3, <1>4, ReadPieceWays

\* One turn of read_data.
LEMMA ReadTurnKeeps == ASSUME Inv, ReadTurn PROVE Inv'
<1>1. PICK room : room = Room
  OBVIOUS
<1>2. pc = "read"
  BY DEF ReadTurn
<1>3. ASSUME Fits(room) PROVE Sane(room)
  <2>1. Carries(room, sent, dealt, taken) /\ Spare(room, Wanted)
    BY <1>1, <1>3, RoomKeeps
  <2>2. room.write + Got <= room.size
    <3>1. PICK f : f = Filled(room)
      OBVIOUS
    <3> QED  BY <2>1, <3>1, FilledKeeps
  <2> QED  BY <2>2, WantedIs DEF Sane
<1>4. CASE ~Fits(room)
  <2>1. Close
    BY <1>1, <1>4 DEF ReadTurn
  <2>2. misread' \in {"nothing", "head"}
    BY <2>1 DEF Close, Inv, ReaderInv
  <2> QED  BY <2>1, <2>2, StopKeeps DEF Close
<1>5. CASE Fits(room) /\ Got < Wanted
  <2>1. ReadPart(room)
    BY <1>1, <1>3, <1>5 DEF ReadTurn
  <2> QED  BY <1>1, <1>2, <1>5, <2>1, ReadPartKeeps
<1>6. CASE Fits(room) /\ ~(Got < Wanted)
  <2>1. ReadPiece(room)
    BY <1>1, <1>3, <1>6 DEF ReadTurn
  <2>2. Got = Wanted
    BY <1>6, WantedIs
  <2> QED  BY <1>1, <1>2, <1>6, <2>1, <2>2, ReadPieceKeeps
<1> QED  BY <1>4, <1>5, <1>6

-----------------------------------------------------------------------------
(* The parser's turn.                                                        *)

\* A head that the parser finds is followed by its whole message: once there is a
\* message to be dealt with, the reader yields only in a head.
LEMMA MessageIsThere ==
    ASSUME Inv, pc = "deal", in.len >= HeadSize,
           NEW o, o = EndOf(sent, dealt), NEW V, V = 1..EndOf(sent, Len(sent)) \cup {Junk}
    PROVE  /\ dealt + 1 \in 1..Len(sent)
           /\ sent[dealt + 1].start = o + 1 /\ sent[dealt + 1].size \in Nat
           /\ EndOf(sent, dealt + 1) = o + HeadSize + sent[dealt + 1].size
           /\ HeadSize + sent[dealt + 1].size <= in.len
           /\ o \in Nat /\ in.len = taken - o /\ taken \in Nat
           /\ HeadSize \in 0..Top(in)
           /\ Hollow(in) /\ Top(in) > HeadSize =>
                  Top(in) >= HeadSize + sent[dealt + 1].size
           /\ HeadsAt(in, in.read) = {dealt + 1}
<1>1. /\ HeadSize \in Nat /\ HeadSize > 0 /\ taken \in Nat /\ Len(sent) \in Nat
      /\ dealt \in 0..Len(sent) /\ AtHead(cli, sent, taken)
      /\ cli.read \in Nat /\ cli.read < HeadSize
  <2>1. cli.status = "head"
    BY DEF Inv, ReaderInv, Waits, Rests
  <2>2. AtHead(cli, sent, taken) /\ taken \in Nat /\ cli.read \in Nat
    BY <2>1, WantedIs
  <2>3. cli.read < HeadSize
    BY <2>2 DEF AtHead
  <2> QED  BY <2>2, <2>3, FramingAssumption, LenProperties DEF Inv, StreamInv
<1>2. /\ in \in Buffers(V) /\ Shaped(in) /\ Holds(in, o + 1) /\ in.len = taken - o
      /\ (Hollow(in) => Boundary(sent, o + Top(in)))
  BY DEF Inv, BufferInv, Carries
<1>3. o \in Nat /\ in.len \in Nat
  BY <1>1, <1>2, ChainIs DEF Inv, StreamInv, Buffers
<1>4. PICK k \in 0..Len(sent) : taken = EndOf(sent, k) + cli.read
  BY <1>1 DEF AtHead
<1>5. EndOf(sent, k) \in Nat /\ (k < dealt => EndOf(sent, k) < o)
  BY <1>1, ChainIs DEF Inv, StreamInv
<1>6. dealt < k
  <2>1. taken >= o + HeadSize
    BY <1>1, <1>2, <1>3
  <2>2. EndOf(sent, k) > o
    BY <1>1, <1>3, <1>4, <1>5, <2>1
  <2>3. k # dealt
    BY <1>3, <2>2
  <2> QED  BY <1>1, <1>3, <1>5, <2>2, <2>3
<1>7. PICK m \in 1..Len(sent) : m = dealt + 1 /\ m - 1 = dealt /\ m \in 0..Len(sent)
  BY <1>1, <1>6
<1>8. /\ sent[m].start = o + 1 /\ sent[m].size \in Nat
      /\ EndOf(sent, m) = o + HeadSize + sent[m].size
      /\ EndOf(sent, m) \in Nat /\ (m < k => EndOf(sent, m) < EndOf(sent, k))
  BY <1>7, ChainIs DEF Inv, StreamInv
<1>9. EndOf(sent, m) <= taken
  <2>1. m <= k
    BY <1>1, <1>6, <1>7
  <2>2. EndOf(sent, m) <= EndOf(sent, k)
    BY <1>1, <1>5, <1>8, <2>1
  <2> QED  BY <1>1, <1>4, <1>5, <1>8, <2>2
<1>17. PICK h \in Nat, z \in Nat, e \in Nat, l \in Nat :
         /\ h = HeadSize /\ h > 0 /\ z = sent[m].size /\ e = EndOf(sent, m)
         /\ l = in.len /\ e = o + h + z /\ e <= taken /\ l = taken - o
  BY <1>1, <1>2, <1>3, <1>8, <1>9
<1>19. e = o + h + z /\ h > 0 /\ e >= o + h /\ e >= o + 1
  <2>1. e = o + h + z /\ h > 0
    BY <1>17
  <2> QED  BY <1>3, <2>1
<1>18. h + z <= l
  BY SMTT(30), <1>1, <1>3, <1>17
<1>10. HeadSize + sent[m].size <= in.len
  BY <1>17, <1>18
<1>11. Top(in) \in Nat /\ Top(in) <= in.len /\ (Flat(in) => Top(in) = in.len)
  BY <1>2, <1>3, ShapedMore
<1>12. ASSUME Hollow(in)
       PROVE  Top(in) >= HeadSize /\ (Top(in) > HeadSize => Top(in) >= HeadSize + sent[m].size)
  <2>1. PICK x \in Int : x = o + Top(in)
    BY <1>3, <1>11
  <2>2. Top(in) > 0
    BY <1>2, <1>12 DEF Hollow, Top, Buffers
  <2>3. Boundary(sent, x) /\ x > o
    BY <1>2, <1>3, <1>11, <1>12, <2>1, <2>2
  <2>4. x >= o + HeadSize /\ (x > o + HeadSize => x >= EndOf(sent, m))
    BY <1>1, <1>7, <2>3, NextBoundary DEF Inv, StreamInv
  <2>5. x >= o + h /\ (x > o + h => x >= o + h + z)
    BY <1>17, <2>4
  <2>6. Top(in) >= h /\ (Top(in) > h => Top(in) >= h + z)
    <3>1. PICK top \in Nat : top = Top(in) /\ x = o + top
      BY <1>11, <2>1
    <3>2. top >= h /\ (top > h => top >= h + z)
      BY SMTT(30), <1>3, <2>5, <3>1
    <3> QED  BY <3>1, <3>2
  <2> QED  BY <1>17, <2>6
<1>13. HeadSize \in 0..Top(in)
  <2>1. HeadSize <= in.len
    BY <1>1, <1>3, <1>8, <1>10
  <2> QED  BY <1>1, <1>2, <1>11, <1>12, <2>1 DEF Shaped
<1>14. PICK first \in Int : first = o + 1
  BY <1>3
<1>15. View(in, in.read, HeadSize) = Bytes(first, HeadSize)
  BY <1>2, <1>13, <1>14, ViewIs
<1>16. HeadsAt(in, in.read) = {m}
  <2>1. PICK seen : seen = View(in, in.read, HeadSize)
    OBVIOUS
  <2>2. seen = Bytes(first, HeadSize) /\ seen[1] = first
    <3>1. 1 \in 1..HeadSize /\ first + 1 - 1 = first
      BY <1>1
    <3>2. PICK n \in Nat : n = HeadSize
      BY <1>1
    <3>3. Bytes(first, n)[1] = first + 1 - 1
      BY <3>1, <3>2, BytesAre
    <3> QED  BY <1>15, <2>1, <3>1, <3>2, <3>3
  <2>3. HeadsAt(in, in.read) =
           {j \in 1..Len(sent) : seen[1] = sent[j].start /\ seen = Bytes(sent[j].start, HeadSize)}
    BY <2>1 DEF HeadsAt
  <2>4. sent[m].start = first
    BY <1>8, <1>14
  <2>5. ASSUME NEW j \in 1..Len(sent), sent[j].start = first
        PROVE  j = m
    <3>1. /\ sent[j].start = EndOf(sent, j - 1) + 1 /\ sent[j].start \in Nat
          /\ (j < m => EndOf(sent, j) + 1 <= sent[m].start)
          /\ (m < j => EndOf(sent, m) + 1 <= sent[j].start)
          /\ EndOf(sent, j) = sent[j].start + HeadSize + sent[j].size - 1
          /\ sent[j].size \in Nat
      <4>1. j \in 0..Len(sent)
        BY <1>1
      <4> QED  BY <1>7, <4>1, ChainIs DEF Inv, StreamInv
    <3>2. ~(m < j)
      <4>1. PICK a \in Nat : a = sent[j].start /\ a = o + 1
        BY <1>14, <2>5, <3>1
      <4>2. ~(e + 1 <= a)
        BY SMTT(30), <1>3, <1>19, <4>1
      <4> QED  BY <1>17, <3>1, <4>1, <4>2
    <3>3. ~(j < m)
      <4>1. EndOf(sent, j) >= first
        <5>1. PICK a \in Nat, y \in Nat, g \in Nat \ {0} : a = first /\ y = sent[j].size /\ g = HeadSize
          BY <1>1, <2>5, <3>1
        <5>2. EndOf(sent, j) = a + g + y - 1
          BY <2>5, <3>1, <5>1
        <5> QED  BY <5>1, <5>2
      <4>2. PICK b \in Int : b = EndOf(sent, j) /\ b >= first
        <5>1. EndOf(sent, j) \in Nat
          <6>1. j \in 0..Len(sent)
            BY <1>1
          <6> QED  BY <6>1, ChainIs DEF Inv, StreamInv
        <5> QED  BY <4>1, <5>1
      <4>3. ~(b + 1 <= first)
        BY <4>2
      <4> QED  BY <2>4, <3>1, <4>2, <4>3
    <3> QED  BY <1>1, <1>7, <3>2, <3>3
  <2> QED  BY <2>2, <2>3, <2>4, <2>5
<1> QED  BY <1>1, <1>2, <1>3, <1>7, <1>8, <1>10, <1>12, <1>13, <1>16

\* The handler sees the data of the message; what is left carries on with the next.
LEMMA MessageIsIntact ==
    ASSUME Inv, pc = "deal", in.len >= HeadSize, NEW m, m = dealt + 1,
           NEW data, data = SeekRead(in, HeadSize),
           NEW rest, rest = SeekRead(data, sent[m].size)
    PROVE  /\ View(data, data.read, sent[m].size)
                = Bytes(sent[m].start + HeadSize, sent[m].size)
           /\ Carries(rest, sent, m, taken) /\ m \in 1..Len(sent)
           /\ rest.write = in.write /\ rest.seek = in.seek /\ rest.size = in.size
           /\ rest.cell = in.cell
           /\ \A n \in Nat \ {0} : Spare(in, n) => Spare(rest, n)
<1>1. PICK V, o : V = 1..EndOf(sent, Len(sent)) \cup {Junk} /\ o = EndOf(sent, dealt)
  OBVIOUS
<1>2. /\ in \in Buffers(V) /\ Shaped(in) /\ Holds(in, o + 1) /\ in.len = taken - o
      /\ (Hollow(in) => Boundary(sent, o + Top(in)))
  BY <1>1 DEF Inv, BufferInv, Carries
<1>0. /\ m \in 1..Len(sent) /\ sent[m].start = o + 1 /\ sent[m].size \in Nat
      /\ EndOf(sent, m) = o + HeadSize + sent[m].size
      /\ HeadSize + sent[m].size <= in.len /\ o \in Nat /\ taken \in Nat
      /\ HeadSize \in 0..Top(in)
      /\ (Hollow(in) /\ Top(in) > HeadSize => Top(in) >= HeadSize + sent[m].size)
  BY <1>1, MessageIsThere
<1>3. PICK z \in Nat, h \in Nat : z = sent[m].size /\ h = HeadSize /\ h > 0
  BY <1>0, FramingAssumption
<1>4. /\ m \in 1..Len(sent) /\ sent[m].start = o + 1 /\ EndOf(sent, m) = o + h + z
      /\ h + z <= in.len /\ o \in Nat /\ taken \in Nat /\ h \in 0..Top(in)
      /\ (Hollow(in) /\ Top(in) > h => Top(in) >= h + z)
  BY <1>0, <1>3
<1>5. PICK first \in Int : first = o + 1
  BY <1>4
<1>6. /\ data \in Buffers(V) /\ Shaped(data) /\ Holds(data, first + h)
      /\ data.len = in.len - h /\ data.size = in.size /\ data.write = in.write
      /\ data.seek = in.seek /\ data.cell = in.cell
      /\ (Hollow(data) => Hollow(in) /\ Top(data) = Top(in) - h)
      /\ \A n \in Nat \ {0} : Spare(in, n) => Spare(data, n)
  BY SMTT(30), <1>2, <1>3, <1>4, <1>5, DrainKeeps
<1>7. /\ in.len \in Nat /\ data.len \in Nat /\ Top(in) \in Nat /\ Top(data) \in Nat
      /\ (Flat(data) => Top(data) = data.len)
  <2>1. in.len \in Nat /\ data.len \in Nat
    BY <1>2, <1>6 DEF Buffers
  <2> QED  BY <1>2, <1>6, <2>1, ShapedMore
<1>8. z \in 0..Top(data)
  <2>1. CASE Flat(data)
    BY <1>4, <1>6, <1>7, <2>1
  <2>2. CASE Hollow(data)
    <3>1. Top(data) > 0
      BY <1>6, <2>2 DEF Hollow, Top, Buffers
    <3> QED  BY SMTT(30), <1>3, <1>4, <1>6, <1>7, <2>2, <3>1
  <2> QED  BY <1>6, <2>1, <2>2 DEF Shaped
<1>9. PICK second \in Int : second = first + h
  OBVIOUS
<1>10. View(data, data.read, z) = Bytes(second, z)
  BY <1>6, <1>8, <1>9, ViewIs
<1>11. sent[m].start + HeadSize = second
  BY <1>3, <1>4, <1>5, <1>9
<1>12. /\ rest \in Buffers(V) /\ Shaped(rest) /\ Holds(rest, second + z)
       /\ rest.len = data.len - z /\ rest.size = data.size /\ rest.write = data.write
       /\ rest.seek = data.seek /\ rest.cell = data.cell
       /\ (Hollow(rest) => Hollow(data) /\ Top(rest) = Top(data) - z)
       /\ \A n \in Nat \ {0} : Spare(data, n) => Spare(rest, n)
  <2>1. rest = SeekRead(data, z) /\ Holds(data, second)
    BY <1>3, <1>6, <1>9
  <2> QED  BY <1>6, <1>8, <2>1, DrainKeeps
<1>13. PICK e \in Nat : e = EndOf(sent, m) /\ e = o + h + z
  BY <1>4
<1>14. second + z = e + 1 /\ rest.len = taken - e
  <2>1. PICK l \in Int, k \in Int : l = in.len /\ k = data.len /\ l = taken - o /\ k = l - h
    BY <1>2, <1>6, <1>7
  <2>2. rest.len = k - z
    BY <1>12, <2>1
  <2>3. k - z = taken - e
    BY <1>3, <1>4, <1>13, <2>1
  <2>4. second + z = e + 1
    BY <1>3, <1>4, <1>5, <1>9, <1>13
  <2> QED  BY <2>2, <2>3, <2>4
<1>15. ASSUME Hollow(rest)
       PROVE  Boundary(sent, e + Top(rest))
  <2>1. Hollow(in) /\ Top(rest) = Top(in) - h - z
    BY <1>6, <1>7, <1>12, <1>15
  <2>2. e + Top(rest) = o + Top(in)
    BY <1>4, <1>7, <1>13, <2>1
  <2> QED  BY <1>2, <2>1, <2>2
<1>16. Carries(rest, sent, m, taken)
  <2>1. rest \in Buffers(1..EndOf(sent, Len(sent)) \cup {Junk})
    BY <1>1, <1>12
  <2>2. Holds(rest, EndOf(sent, m) + 1) /\ rest.len = taken - EndOf(sent, m)
    BY <1>12, <1>13, <1>14
  <2>3. Hollow(rest) => Boundary(sent, EndOf(sent, m) + Top(rest))
    BY <1>13, <1>15
  <2> QED  BY <1>12, <2>1, <2>2, <2>3 DEF Carries
<1>17. View(data, data.read, sent[m].size) = Bytes(sent[m].start + HeadSize, sent[m].size)
  BY <1>3, <1>10, <1>11
<1> QED  BY <1>4, <1>6, <1>12, <1>16, <1>17

\* deal_tcp_msg closes the client or deals with the next message, and never with
\* a part of one or with anything else that it takes for a message.
LEMMA DealWays ==
    ASSUME Inv, Deal
    PROVE  /\ pc = "deal" /\ in.len >= HeadSize
           /\ Close \/ DealMessage(dealt + 1)
<1>1. pc = "deal" /\ in.len >= HeadSize
  BY DEF Deal
<1>2. PICK heads : heads = HeadsAt(in, in.read)
  OBVIOUS
<1>3. /\ heads = {dealt + 1}
      /\ HeadSize + sent[dealt + 1].size <= in.len /\ sent[dealt + 1].size \in Nat
      /\ in.len \in Int
  <2>1. in.len \in Int
    BY DEF Inv, BufferInv, Carries, Buffers
  <2> QED  BY <1>1, <1>2, <2>1, MessageIsThere
<1>4. PICK m \in heads :
        CASE sent[m].size > MaxData -> Close
          [] sent[m].size <= MaxData /\ HeadSize + sent[m].size > in.len -> DealPart(m)
          [] OTHER -> DealMessage(m)
  BY <1>2, <1>3 DEF Deal
<1>5. m = dealt + 1
  BY <1>3, <1>4
<1>6. ~(HeadSize + sent[m].size > in.len)
  BY <1>3, <1>5, FramingAssumption
<1>7. Close \/ DealMessage(m)
  <2>1. CASE sent[m].size > MaxData
    <3>1. ~(sent[m].size <= MaxData)
      BY <1>3, <1>5, <2>1, FramingAssumption
    <3> QED  BY <1>4, <2>1, <3>1
  <2>2. CASE ~(sent[m].size > MaxData)
    BY <1>4, <1>6, <2>2
  <2> QED  BY <2>1, <2>2
<1> QED  BY <1>1, <1>5, <1>7

\* What dealing with a message does; it is never taken for another.
LEMMA DealMessageIs ==
    ASSUME Inv, pc = "deal", in.len >= HeadSize, DealMessage(dealt + 1)
    PROVE  /\ Carries(in', sent, dealt', taken) /\ dealt' \in 0..Len(sent)
           /\ in'.write = in.write /\ in'.seek = in.seek /\ in'.size = in.size
           /\ in'.cell = in.cell
           /\ \A n \in Nat \ {0} : Spare(in, n) => Spare(in', n)
           /\ cli' \in {cli, Returned(cli, in')} /\ pc' \in {"poll", "deal"}
           /\ UNCHANGED <<sent, arrived, taken, event, misread>>
<1>1. PICK m : m = dealt + 1
  OBVIOUS
<1>2. PICK data : data = SeekRead(in, HeadSize)
  OBVIOUS
<1>3. PICK rest : rest = SeekRead(data, sent[m].size)
  OBVIOUS
<1>4. /\ View(data, data.read, sent[m].size)
                = Bytes(sent[m].start + HeadSize, sent[m].size)
      /\ Carries(rest, sent, m, taken) /\ m \in 1..Len(sent)
      /\ rest.write = in.write /\ rest.seek = in.seek /\ rest.size = in.size
      /\ rest.cell = in.cell
      /\ \A n \in Nat \ {0} : Spare(in, n) => Spare(rest, n)
  BY <1>1, <1>2, <1>3, MessageIsIntact
<1>5. /\ in' = rest
      /\ dealt' = m
      /\ pc' = IF sent[m].kernel THEN "poll" ELSE "deal"
      /\ cli' = IF sent[m].kernel THEN Returned(cli, rest) ELSE cli
      /\ UNCHANGED <<sent, arrived, taken, event, misread>>
  BY <1>1, <1>2, <1>3, <1>4 DEF DealMessage
<1>6. m \in 0..Len(sent)
  BY <1>4, LenProperties DEF Inv, StreamInv
<1> QED  BY <1>4, <1>5, <1>6

\* A handler that returns leaves the reader where it is.
LEMMA ReturnedIs ==
    ASSUME NEW c \in Client, NEW b, b.len \in Int, NEW r, r = Returned(c, b)
    PROVE  /\ r \in Client /\ r.need = c.need /\ r.read = c.read /\ r.status = c.status
<1>1. PICK ready \in BOOLEAN : ready = (b.len > c.need)
  <2>1. c.need \in Int
    BY DEF Client
  <2>2. (b.len > c.need) \in BOOLEAN
    BY <2>1
  <2> QED  BY <2>2
<1>2. r = [c EXCEPT !.is_ready = ready]
  BY <1>1 DEF Returned
<1> QED  BY <1>2 DEF Client

\* A client with the same need, read and status is at the same place.
LEMMA SamePlace ==
    ASSUME NEW c, NEW d, c.need = d.need, c.read = d.read, c.status = d.status,
           NEW s, NEW t
    PROVE  AtHead(c, s, t) => AtHead(d, s, t)
BY DEF AtHead

\* deal_tcp_msg.
LEMMA DealKeeps == ASSUME Inv, Deal PROVE Inv'
<1>1. pc = "deal" /\ in.len >= HeadSize
  BY DealWays
<1>2. ASSUME Close PROVE Inv'
  <2>1. misread' \in {"nothing", "head"}
    BY <1>2 DEF Close, Inv, ReaderInv
  <2> QED  BY <1>2, <2>1, StopKeeps DEF Close
<1>3. ASSUME DealMessage(dealt + 1) PROVE Inv'
  <2>1. /\ Carries(in', sent, dealt', taken) /\ dealt' \in 0..Len(sent)
        /\ \A n \in Nat \ {0} : Spare(in, n) => Spare(in', n)
        /\ cli' \in {cli, Returned(cli, in')} /\ pc' \in {"poll", "deal"}
        /\ UNCHANGED <<sent, arrived, taken, event, misread>>
    BY <1>1, <1>3, DealMessageIs
  <2>2. BufferInv'
    <3>1. BufferInv' <=> Carries(in', sent', dealt', taken')
      BY DEF BufferInv, Carries, Boundary, EndOf, Holds
    <3> QED  BY <2>1, <3>1
  <2>3. StreamInv'
    BY <2>1 DEF Inv, StreamInv, EndsInData, Early, EndOf
  <2>4. /\ cli \in Client /\ cli.status = "head" /\ AtHead(cli, sent, taken)
        /\ ~Early(sent, taken)
    BY <1>1, WantedIs DEF Inv, ReaderInv, Waits, Rests
  <2>5. PICK c : c = cli'
    OBVIOUS
  <2>6. c \in Client /\ c.need = cli.need /\ c.read = cli.read /\ c.status = cli.status
    <3>1. in'.len \in Int
      BY <2>1 DEF Carries, Buffers
    <3> QED  BY <2>1, <2>4, <2>5, <3>1, ReturnedIs
  <2>7. AtHead(c, sent, taken)
    BY <2>4, <2>6, SamePlace
  <2>8. cli.read > 0 => Spare(in', cli.need - cli.read)
    <3>1. cli.read > 0 => Spare(in, cli.need - cli.read)
      BY DEF Inv, ReaderInv
    <3>2. cli.need - cli.read \in Nat \ {0}
      BY WantedIs
    <3> QED  BY <2>1, <3>1, <3>2
  <2>9. ReaderInv'
    <3>1. Waits(c, pc', sent, taken) /\ Rests(c, pc', sent, taken)
      BY <2>4, <2>6 DEF Waits, Rests
    <3>2. AtHead(cli', sent', taken')
      BY <2>1, <2>5, <2>7
    <3>3. cli'.read > 0 => Spare(in', cli'.need - cli'.read)
      BY <2>5, <2>6, <2>8
    <3>4. misread' \in {"nothing", "head"} /\ pc' \in {"poll", "read", "deal", "closed"}
      BY <2>1 DEF Inv, ReaderInv
    <3> QED  BY <2>1, <2>4, <2>5, <2>6, <3>1, <3>2, <3>3, <3>4, ReaderNext
  <2> QED  BY <2>2, <2>3, <2>9 DEF Inv
<1> QED  BY <1>2, <1>3, DealWays

\* deal_tcp_msg without a head in the buffer.
LEMMA DealNoHeadKeeps == ASSUME Inv, DealNoHead PROVE Inv'
<1>1. /\ pc = "deal" /\ pc' = "poll"
      /\ UNCHANGED <<sent, arrived, taken, event, in, dealt, misread>>
      /\ cli' = Returned([cli EXCEPT !.need = IF in.len <= 0 THEN HeadSize ELSE @], in)
  BY DEF DealNoHead
<1>2. /\ cli \in Client /\ cli.status = "head" /\ AtHead(cli, sent, taken)
      /\ cli.need = HeadSize /\ ~Early(sent, taken)
  BY <1>1, WantedIs DEF Inv, ReaderInv, AtHead, Waits, Rests
<1>3. [cli EXCEPT !.need = IF in.len <= 0 THEN HeadSize ELSE @] = cli
  BY <1>2 DEF Client
<1>4. PICK c : c = cli' /\ c = Returned(cli, in)
  BY <1>1, <1>3
<1>5. c \in Client /\ c.need = cli.need /\ c.read = cli.read /\ c.status = cli.status
  <2>1. in.len \in Int
    BY DEF Inv, BufferInv, Carries, Buffers
  <2> QED  BY <1>2, <1>4, <2>1, ReturnedIs
<1>6. AtHead(c, sent, taken)
  BY <1>2, <1>5, SamePlace
<1>7. BufferInv' /\ StreamInv'
  BY <1>1 DEF Inv, BufferInv, Carries, Boundary, EndOf, Holds, StreamInv, EndsInData, Early
<1>8. ReaderInv'
  <2>1. Waits(c, "poll", sent, taken) /\ Rests(c, "poll", sent, taken)
    BY <1>2, <1>5 DEF Waits, Rests
  <2>2. AtHead(cli', sent', taken')
    BY <1>1, <1>4, <1>6
  <2>3. cli.read > 0 => Spare(in, cli.need - cli.read)
    BY DEF Inv, ReaderInv
  <2>4. cli'.read > 0 => Spare(in', cli'.need - cli'.read)
    BY <1>1, <1>4, <1>5, <2>3
  <2>5. misread' \in {"nothing", "head"}
    BY <1>1 DEF Inv, ReaderInv
  <2> QED  BY <1>1, <1>2, <1>4, <1>5, <2>1, <2>2, <2>4, <2>5, ReaderNext
<1> QED  BY <1>7, <1>8 DEF Inv

-----------------------------------------------------------------------------
(* The peer, and the whole.                                                  *)

\* A longer stream carries what the shorter one did.
LEMMA CarriesOn ==
    ASSUME NEW s \in Seq(Message), NEW u \in Seq(Message), Chained(s), Chained(u),
           Len(s) <= Len(u),
           \A k \in 0..Len(s) : EndOf(u, k) = EndOf(s, k),
           \A x : Boundary(s, x) => Boundary(u, x),
           EndOf(s, Len(s)) <= EndOf(u, Len(u)),
           NEW b, NEW d \in 0..Len(s), NEW t, Carries(b, s, d, t)
    PROVE  Carries(b, u, d, t)
<1>1. EndOf(s, Len(s)) \in Nat /\ EndOf(u, Len(u)) \in Nat
  BY ChainIs, LenProperties
<1>2. PICK V, W : /\ V = 1..EndOf(s, Len(s)) \cup {Junk}
                  /\ W = 1..EndOf(u, Len(u)) \cup {Junk}
  OBVIOUS
<1>3. V \subseteq W
  BY <1>1, <1>2
<1>4. b \in Buffers(V)
  BY <1>2 DEF Carries
<1>5. b \in Buffers(W)
  BY <1>3, <1>4 DEF Buffers
<1>6. EndOf(u, d) = EndOf(s, d)
  OBVIOUS
<1>7. /\ Shaped(b) /\ Holds(b, EndOf(u, d) + 1) /\ b.len = t - EndOf(u, d)
      /\ (Hollow(b) => Boundary(u, EndOf(u, d) + Top(b)))
  BY <1>6 DEF Carries
<1>8. b \in Buffers(1..EndOf(u, Len(u)) \cup {Junk})
  BY <1>2, <1>5
<1> QED  BY <1>7, <1>8 DEF Carries

\* The peer sends one more message.
LEMMA SendKeeps ==
    ASSUME Inv, NEW size \in DataSizes, NEW kernel \in Kernels, Send(size, kernel)
    PROVE  Inv'
<1>1. /\ sent \in Seq(Message) /\ Chained(sent) /\ dealt \in 0..Len(sent)
      /\ Len(sent) \in Nat /\ HeadSize \in Nat /\ HeadSize > 0
      /\ EndOf(sent, Len(sent)) \in Nat
  BY ChainIs, LenProperties, FramingAssumption DEF Inv, StreamInv
<1>2. Total = EndOf(sent, Len(sent))
  BY <1>1, EmptySeq DEF Total, EndOf
<1>3. PICK u : u = Longer(sent, size, kernel)
  OBVIOUS
<1>4. sent' = u /\ UNCHANGED <<arrived, taken, event, in, cli, pc, dealt, misread>>
  BY <1>2, <1>3 DEF Send, Longer
<1>5. /\ u \in Seq(Message) /\ Chained(u) /\ Len(u) = Len(sent) + 1
      /\ \A j \in 1..Len(sent) : u[j] = sent[j]
      /\ \A k \in 0..Len(sent) : EndOf(u, k) = EndOf(sent, k)
      /\ \A x : Boundary(sent, x) => Boundary(u, x)
      /\ EndOf(u, Len(u)) > EndOf(sent, Len(sent))
      /\ u[Len(u)].start = EndOf(sent, Len(sent)) + 1
  <2>1. sent \in Seq(Message) /\ Chained(sent)
    BY <1>1
  <2> QED  BY <2>1, <1>3, ChainAppend
<1>6. EndOf(u, Len(u)) \in Nat
  BY <1>5, ChainIs, LenProperties
<1>7. BufferInv'
  <2>1. Carries(in, u, dealt, taken)
    BY <1>1, <1>5, <1>6, CarriesOn DEF Inv, BufferInv
  <2>2. BufferInv' <=> Carries(in', sent', dealt', taken')
    BY DEF BufferInv, Carries, Boundary, EndOf, Holds
  <2> QED  BY <1>4, <2>1, <2>2
<1>8. /\ arrived \in Nat /\ arrived <= EndOf(sent, Len(sent))
      /\ EndsInData(arrived) => Early(sent, arrived)
  BY <1>1 DEF Inv, StreamInv
<1>9. \A t : Len(sent) # 0 => (Early(u, t) <=> Early(sent, t))
  BY <1>1, <1>5 DEF Early
<1>10. ASSUME NEW j \in 1..Len(u), arrived >= u[j].start + HeadSize - 1, arrived < End(u[j])
       PROVE  Early(u, arrived)
  <2>1. CASE j \in 1..Len(sent)
    <3>1. EndsInData(arrived) /\ Len(sent) # 0
      BY <1>5, <1>10, <2>1 DEF EndsInData
    <3> QED  BY <1>9, <1>8, <3>1
  <2>2. CASE j = Len(u)
    BY <1>1, <1>5, <1>8, <1>10, <2>2
  <2> QED  BY <1>1, <1>5, <2>1, <2>2
<1>11. StreamInv'
  <2>1. arrived \in 0..EndOf(u, Len(u)) /\ dealt \in 0..Len(u)
    BY <1>1, <1>5, <1>6, <1>8
  <2>2. (EndsInData(arrived) => Early(sent, arrived))'
    <3>1. EndsInData(arrived)' => Early(u, arrived)
      BY <1>4, <1>10 DEF EndsInData
    <3>2. Early(sent, arrived)' <=> Early(sent', arrived')
      BY DEF Early, EndOf
    <3> QED  BY <1>4, <3>1, <3>2
  <2> QED  BY <1>4, <1>5, <2>1, <2>2 DEF Inv, StreamInv
<1>12. ReaderInv'
  <2>1. AtHead(cli, sent, taken) => AtHead(cli, u, taken)
    <3>1. ASSUME AtHead(cli, sent, taken) PROVE AtHead(cli, u, taken)
      <4>1. PICK k \in 0..Len(sent) : taken = EndOf(sent, k) + cli.read
        BY <3>1 DEF AtHead
      <4>2. k \in 0..Len(u) /\ taken = EndOf(u, k) + cli.read
        BY <1>1, <1>5, <4>1
      <4> QED  BY <3>1, <4>2 DEF AtHead
    <3> QED  BY <3>1
  <2>2. AtData(cli, sent, taken) => AtData(cli, u, taken)
    <3>1. ASSUME AtData(cli, sent, taken) PROVE AtData(cli, u, taken)
      <4>1. PICK k \in 1..Len(sent) :
              cli.need = sent[k].size /\ taken = sent[k].start + HeadSize - 1 + cli.read
        BY <3>1 DEF AtData
      <4>2. k \in 1..Len(u) /\ u[k] = sent[k]
        BY <1>1, <1>5, <4>1
      <4> QED  BY <3>1, <4>1, <4>2 DEF AtData
    <3> QED  BY <3>1
  <2>3. AtHead(cli, u, taken) \/ AtData(cli, u, taken)
    BY <2>1, <2>2 DEF Inv, ReaderInv
  <2>4. Waits(cli, pc, u, taken) /\ Rests(cli, pc, u, taken)
    <3>1. Waits(cli, pc, sent, taken) /\ Rests(cli, pc, sent, taken)
      BY DEF Inv, ReaderInv
    <3>2. CASE Len(sent) # 0
      BY <1>9, <3>1, <3>2 DEF Waits, Rests
    <3>3. CASE Len(sent) = 0
      <4>1. Early(sent, taken) /\ Early(u, taken)
        <5>1. EndOf(sent, Len(sent)) = 0
          BY <3>3 DEF EndOf
        <5>2. taken = 0
          BY <1>8, <5>1, WantedIs DEF Inv, StreamInv
        <5>3. Len(u) = 1 /\ EndOf(u, Len(u)) > 0
          BY <1>5, <3>3, <5>1
        <5> QED  BY <3>3, <5>2, <5>3 DEF Early
      <4> QED  BY <3>1, <4>1 DEF Waits, Rests
    <3> QED  BY <3>2, <3>3
  <2> QED  BY <1>4, <2>3, <2>4, ReaderNext DEF Inv, ReaderInv
<1> QED  BY <1>7, <1>11, <1>12 DEF Inv

\* Steps of the network and of the scheduler, which leave the buffer alone.
LEMMA ElsewhereKeeps ==
    ASSUME Inv, UNCHANGED <<sent, taken, in, cli, dealt, misread>>,
           arrived' \in Nat, taken <= arrived', arrived' <= EndOf(sent, Len(sent)),
           EndsInData(arrived') => Early(sent, arrived'), event' \in BOOLEAN,
           pc' \in {"poll", "read", "deal", "closed"},
           pc' \in {pc, "read"} \/ (pc = "poll" /\ cli.is_ready)
    PROVE  Inv'
<1>1. BufferInv'
  BY DEF Inv, BufferInv, Carries, Boundary, EndOf, Holds
<1>2. taken \in Nat /\ EndOf(sent, Len(sent)) \in Nat
  BY WantedIs, ChainIs, LenProperties DEF Inv, StreamInv
<1>3. arrived' \in 0..EndOf(sent, Len(sent)) /\ taken \in 0..arrived'
  BY <1>2
<1>4. (EndsInData(arrived) => Early(sent, arrived))'
  BY DEF EndsInData, Early, EndOf
<1>5. StreamInv'
  BY <1>3, <1>4 DEF Inv, StreamInv
<1>6. ReaderInv'
  <2>1. Waits(cli, pc, sent, taken) /\ Rests(cli, pc, sent, taken)
    BY DEF Inv, ReaderInv
  <2>2. Waits(cli, pc', sent, taken) /\ Rests(cli, pc', sent, taken)
    BY <2>1 DEF Waits, Rests
  <2> QED  BY <2>2, ReaderNext DEF Inv, ReaderInv
<1> QED  BY <1>1, <1>5, <1>6 DEF Inv

\* As long as the network delivers the data of a message after the first with its
\* last byte, the invariant is kept by every step.
LEMMA NextInv == ASSUME Splits = FALSE, Inv, [Next]_vars PROVE Inv'
<1>0. /\ arrived \in Nat /\ taken <= arrived /\ arrived <= EndOf(sent, Len(sent))
      /\ EndsInData(arrived) => Early(sent, arrived)
      /\ event \in BOOLEAN /\ pc \in {"poll", "read", "deal", "closed"}
  BY WantedIs, ChainIs, LenProperties DEF Inv, StreamInv, ReaderInv
<1>1. CASE ReadEvent
  BY <1>0, <1>1, ElsewhereKeeps DEF ReadEvent
<1>2. CASE ReadTurn
  BY <1>2, ReadTurnKeeps
<1>3. CASE Dispatch
  BY <1>0, <1>3, ElsewhereKeeps DEF Dispatch
<1>4. CASE DealNoHead
  BY <1>4, DealNoHeadKeeps
<1>5. CASE Deal
  BY <1>5, DealKeeps
<1>6. CASE Deliver
  <2>1. sent \in Seq(Message) /\ Chained(sent)
    BY DEF Inv, StreamInv
  <2>2. Total = EndOf(sent, Len(sent)) /\ EndOf(sent, Len(sent)) \in Nat
    BY <2>1, EmptySeq, ChainIs, LenProperties DEF Total, EndOf
  <2>3. PICK n \in (arrived + 1)..Total : (EndsInData(n) => n < End(sent[1])) /\ arrived' = n
    BY <1>6 DEF Deliver
  <2>4. arrived' \in Nat /\ taken <= arrived' /\ arrived' <= EndOf(sent, Len(sent))
    BY <1>0, <2>2, <2>3, WantedIs
  <2>5. End(sent[1]) = EndOf(sent, 1)
    BY DEF EndOf
  <2>6. EndsInData(arrived') => Early(sent, arrived')
    BY <2>3, <2>5 DEF Early
  <2> QED  BY <1>0, <1>6, <2>4, <2>6, ElsewhereKeeps DEF Deliver
<1>7. ASSUME NEW size \in DataSizes, NEW kernel \in Kernels, Send(size, kernel)
      PROVE  Inv'
  BY <1>7, SendKeeps
<1>8. CASE UNCHANGED vars
  BY <1>0, <1>8, ElsewhereKeeps DEF vars
<1> QED  BY <1>1, <1>2, <1>3, <1>4, <1>5, <1>6, <1>7, <1>8 DEF Next, Reader, Parser, Peer

\* The invariant always holds.
LEMMA Invariance == ASSUME Splits = FALSE PROVE Spec => []Inv
<1>1. Inv /\ [Next]_vars => Inv'
  BY NextInv
<1> QED  BY <1>1, InitInv, PTL DEF Spec

-----------------------------------------------------------------------------
(* The theorems.                                                             *)

\* The bytes sent, and those of the messages that were dealt with.
LEMMA TotalIs == ASSUME Inv PROVE Total = EndOf(sent, Len(sent)) /\ Out = EndOf(sent, dealt)
BY EmptySeq DEF Inv, StreamInv, Total, EndOf, Out

\* The invariant says what the variables are.
LEMMA InvTypes == Inv => TypeOK
<1> SUFFICES ASSUME Inv PROVE TypeOK
  OBVIOUS
<1>1. PICK V : V = 1..Total \cup {Junk}
  OBVIOUS
<1>2. in \in Buffers(V) /\ Shaped(in)
  BY <1>1, TotalIs DEF Inv, BufferInv, Carries
<1>3. /\ in.read \in Nat /\ in.write \in Nat /\ in.len \in Nat /\ in.end \in Nat
      /\ in.size \in Nat /\ in.gap \in Nat
  BY <1>2 DEF Buffers
<1>4. in.write < in.size /\ in.len + in.gap <= in.size
  <2>1. in.write < in.size /\ in.end <= in.size /\ (Flat(in) \/ Hollow(in))
    BY <1>2 DEF Shaped
  <2>2. CASE Flat(in)
    BY <1>3, <2>1, <2>2 DEF Flat
  <2>3. CASE Hollow(in)
    BY <1>3, <2>1, <2>3 DEF Hollow
  <2> QED  BY <2>1, <2>2, <2>3
<1>5. in \in [read : 0..MaxSize, write : 0..MaxSize, seek : 0..MaxSize,
              len : 0..MaxSize, gap : 0..MaxSize, size : 1..MaxSize,
              end : 0..MaxSize, cell : [Cell -> 1..Total \cup {Junk}]]
  BY <1>1, <1>2 DEF Buffers
<1>6. /\ sent \in Seq(Message) /\ arrived \in 0..Total /\ taken \in 0..arrived
      /\ dealt \in 0..Len(sent) /\ event \in BOOLEAN
  BY TotalIs DEF Inv, StreamInv
<1>7. /\ cli \in [need : Nat, read : Nat, status : {"head", "data"},
                 is_ok : BOOLEAN, is_ready : BOOLEAN]
      /\ pc \in {"poll", "read", "deal", "closed"}
      /\ misread \in {"nothing", "head", "need", "message"}
  BY DEF Inv, ReaderInv, Client
<1> QED  BY <1>4, <1>5, <1>6, <1>7 DEF TypeOK

\* The invariant says what the buffer holds.
LEMMA InvContents == Inv => ContentsFaithful
<1> SUFFICES ASSUME Inv PROVE ContentsFaithful
  OBVIOUS
<1>1. PICK V, o : V = 1..EndOf(sent, Len(sent)) \cup {Junk} /\ o = Out
  OBVIOUS
<1>2. /\ in \in Buffers(V) /\ Shaped(in) /\ Holds(in, o + 1) /\ in.len = taken - o
  BY <1>1, TotalIs DEF Inv, BufferInv, Carries
<1>3. PICK first \in Int : first = o + 1
  BY <1>1, TotalIs, ChainIs DEF Inv, StreamInv
<1>4. Contents(in) = Bytes(first, in.len)
  BY <1>2, <1>3, ContentsIs
<1> QED  BY <1>1, <1>2, <1>3, <1>4 DEF ContentsFaithful

\* Whatever the peer sends and however the buffer wraps, moves and grows, the
\* variables keep their types and the write index stays inside the buffer, as long
\* as the data of every message but the first arrives with its last byte (Splits).
THEOREM Typing == ASSUME Splits = FALSE PROVE Spec => []TypeOK
<1>1. Spec => []Inv
  BY Invariance
<1> QED  BY <1>1, InvTypes, PTL

\* As long as the data of every message but the first arrives with its last byte
\* (Splits), the buffer holds the bytes that were received and not yet read, in
\* their order.
THEOREM BufferIsFaithful == ASSUME Splits = FALSE PROVE Spec => []ContentsFaithful
<1>1. Spec => []Inv
  BY Invariance
<1> QED  BY <1>1, InvContents, PTL

\* As long as the data of every message but the first arrives with its last byte
\* (Splits), the handler gets the messages that were sent, each once, in order and
\* intact, whatever their sizes: deal_tcp_msg never takes anything else for a message.
THEOREM MessagesAreExact == ASSUME Splits = FALSE PROVE Spec => []MessagesExact
<1>1. Spec => []Inv
  BY Invariance
<1>2. Inv => MessagesExact
  BY DEF Inv, ReaderInv, MessagesExact
<1> QED  BY <1>1, <1>2, PTL

-----------------------------------------------------------------------------
(* The reader keeps in step where everything is a multiple of a head.        *)

\* C holds the sizes that the buffer can get to; they and what can be wanted are
\* multiples of a head.
Capacities(C) ==
    /\ C \subseteq 1..MaxSize /\ FirstSize \in C
    /\ \A size \in C, need \in {HeadSize} \cup (Accepted \ {0}) :
           Grown(size, need) <= MaxSize => Grown(size, need) \in C
    /\ \A n \in C \cup Accepted : Multiple(n)

\* What was read of a head lies from seek on.
Lined(b, c, t, C) ==
    /\ b.size \in C /\ Multiple(b.write - c.read)
    /\ c.status = "head" =>
          /\ b.seek = b.write - c.read
          /\ \A j \in 1..c.read : b.cell[b.seek + j - 1] = t - c.read + j

\* The reader is in step.
StepInv(C) == Lined(in, cli, taken, C) /\ misread = "nothing"

\* Zero and a head are multiples of a head, sums of multiples are, and two
\* different ones lie a head apart.
LEMMA MultipleIs ==
    /\ Multiple(0) /\ Multiple(HeadSize)
    /\ \A a \in Nat, b \in Nat : Multiple(a) /\ Multiple(b) => Multiple(a + b)
    /\ \A a \in Nat, b \in Nat : Multiple(a) /\ Multiple(b) /\ a < b => a + HeadSize <= b
<1>1. PICK h \in Nat : h = HeadSize /\ h > 0
  BY FramingAssumption
<1>2. \A n \in Nat : Multiple(n) <=> \E k \in 0..n : n = k * h
  BY <1>1 DEF Multiple
<1>3. \A k \in Nat : k * h \in Nat /\ k <= k * h
  <2> TAKE k \in Nat
  <2>1. PICK g \in Nat : h = g + 1
    <3>1. h - 1 \in Nat /\ h = (h - 1) + 1
      BY <1>1
    <3> QED  BY <3>1
  <2>2. k * h = k * g + k /\ k * g \in Nat
    BY <2>1
  <2> QED  BY <2>2
<1>4. \A n \in Nat : Multiple(n) <=> \E k \in Nat : n = k * h
  <2> TAKE n \in Nat
  <2>1. ASSUME NEW k \in Nat, n = k * h PROVE k \in 0..n
    BY <1>3, <2>1
  <2>2. (\E k \in Nat : n = k * h) => (\E k \in 0..n : n = k * h)
    <3>1. ASSUME NEW k \in Nat, n = k * h PROVE \E m \in 0..n : n = m * h
      <4>1. k \in 0..n
        BY <2>1, <3>1
      <4> QED  BY <3>1, <4>1
    <3> QED  BY <3>1
  <2>3. (\E k \in 0..n : n = k * h) => (\E k \in Nat : n = k * h)
    <3>1. \A k \in 0..n : k \in Nat
      OBVIOUS
    <3> QED  BY <3>1
  <2> QED  BY <1>2, <2>2, <2>3
<1>5. Multiple(0)
  <2>1. 0 = 0 * h
    BY <1>1
  <2> QED  BY <1>4, <2>1
<1>6. Multiple(HeadSize)
  <2>1. h = 1 * h
    BY <1>1
  <2> QED  BY <1>1, <1>4, <2>1
<1>7. ASSUME NEW a \in Nat, NEW b \in Nat, Multiple(a), Multiple(b)
      PROVE  Multiple(a + b) /\ (a < b => a + h <= b)
  <2>1. PICK k \in Nat, l \in Nat : a = k * h /\ b = l * h
    BY <1>4, <1>7
  <2>2. a + b = (k + l) * h /\ k + l \in Nat /\ a + b \in Nat
    BY <2>1
  <2>3. Multiple(a + b)
    BY <1>4, <2>2
  <2>4. ASSUME a < b PROVE a + h <= b
    <3>1. k < l
      <4>1. SUFFICES ASSUME l <= k PROVE FALSE
        OBVIOUS
      <4>2. PICK d \in Nat : k = l + d
        <5>1. k - l \in Nat /\ k = l + (k - l)
          BY <4>1
        <5> QED  BY <5>1
      <4>3. a = b + d * h /\ d * h \in Nat
        BY <2>1, <4>2
      <4> QED  BY <2>4, <4>3
    <3>2. PICK d \in Nat : l = k + 1 + d
      <4>1. l - k - 1 \in Nat /\ l = k + 1 + (l - k - 1)
        BY <3>1
      <4> QED  BY <4>1
    <3>3. b = a + h + d * h /\ d * h \in Nat
      BY <2>1, <3>2
    <3> QED  BY <3>3
  <2> QED  BY <2>3, <2>4
<1> QED  BY <1>1, <1>5, <1>6, <1>7

\* What is known of the size of the buffer and of where a head begins.
LEMMA CapacitiesAre ==
    ASSUME NEW C, Capacities(C), NEW b, NEW c, NEW t, Lined(b, c, t, C)
    PROVE  /\ b.size \in C /\ Multiple(b.size) /\ b.size \in Nat
           /\ Multiple(b.write - c.read)
<1>1. b.size \in C /\ Multiple(b.write - c.read)
  BY DEF Lined
<1>2. PICK size : size = b.size /\ size \in C
  BY <1>1
<1>3. Multiple(size) /\ size \in 1..MaxSize
  BY <1>2 DEF Capacities
<1>4. size \in Nat
  BY <1>3, BufferAssumption
<1> QED  BY <1>1, <1>2, <1>3, <1>4

\* Room for a head is made where the head begins, and room for data at a multiple.
LEMMA RoomLined ==
    ASSUME NEW C, Capacities(C), Inv, StepInv(C), NEW room, room = Room, Fits(room)
    PROVE  /\ Lined(room, cli, taken, C)
           /\ room.write \in Nat /\ room.write - cli.read \in Nat
<1>1. /\ cli.need \in Nat \ {0} /\ cli.read \in Nat /\ cli.read < cli.need
      /\ cli.status = "head" => AtHead(cli, sent, taken)
      /\ cli.status = "data" => AtData(cli, sent, taken)
      /\ cli.status \in {"head", "data"}
  <2>1. cli.status \in {"head", "data"}
    BY DEF Inv, ReaderInv, Client
  <2> QED  BY <2>1, WantedIs
<1>2. /\ Lined(in, cli, taken, C) /\ in.write \in Nat /\ in.size \in Nat /\ in.size <= MaxSize
      /\ in.write < in.size /\ Multiple(in.size) /\ Multiple(in.write - cli.read)
      /\ in.size \in C
  <2>1. in.write \in Nat /\ in.size \in Nat /\ in.size <= MaxSize /\ in.write < in.size
    BY BufferAssumption DEF Inv, BufferInv, Carries, Buffers, Shaped
  <2> QED  BY <2>1, CapacitiesAre DEF StepInv
<1>3. /\ cli.read > 0 => room = in
      /\ room.size \in {in.size, Grown(in.size, cli.need)}
      /\ cli.read = 0 /\ in.write + cli.need <= in.size =>
             room.write = in.write /\ room.seek = in.seek
      /\ room.write \in {in.write, 0}
  BY RoomKeeps
<1>4. in.write - cli.read \in Nat
  <2>1. \E k \in 0..(in.write - cli.read) : TRUE
    BY <1>2 DEF Multiple
  <2> QED  BY <1>1, <1>2, <2>1
<1>5. CASE cli.read > 0
  BY <1>2, <1>3, <1>4, <1>5
<1>6. CASE cli.read = 0
  <2>1. Multiple(in.write) /\ Multiple(0)
    <3>1. in.write - cli.read = in.write
      BY <1>2, <1>6
    <3> QED  BY <1>2, <3>1, MultipleIs
  <2>2. room.write \in Nat /\ Multiple(room.write) /\ room.write - cli.read = room.write
    BY <1>2, <1>3, <1>6, <2>1
  <2>3. cli.need \in {HeadSize} \cup (Accepted \ {0})
    <3>1. CASE cli.status = "head"
      BY <1>1, <3>1 DEF AtHead
    <3>2. CASE cli.status = "data"
      <4>1. PICK k \in 1..Len(sent) : cli.need = sent[k].size
        BY <1>1, <3>2 DEF AtData
      <4>2. cli.need \in DataSizes /\ cli.need <= MaxData
        BY <1>1, <3>2, <4>1, ChainIs DEF Inv, StreamInv, AtData
      <4> QED  BY <1>1, <4>2 DEF Accepted
    <3> QED  BY <1>1, <3>1, <3>2
  <2>4. room.size \in C
    <3>1. Grown(in.size, cli.need) <= MaxSize => Grown(in.size, cli.need) \in C
      BY <1>2, <2>3 DEF Capacities
    <3> QED  BY <1>2, <1>3, <3>1 DEF Fits
  <2>5. ASSUME cli.status = "head"
        PROVE  room.write = in.write /\ room.seek = in.seek
    <3>1. cli.need = HeadSize
      BY <1>1, <2>5 DEF AtHead
    <3>2. in.write + HeadSize <= in.size
      BY <1>2, <2>1, MultipleIs
    <3> QED  BY <1>3, <1>6, <3>1, <3>2
  <2>6. cli.status = "head" => in.seek = in.write - cli.read
    BY <1>2 DEF Lined
  <2>7. cli.status = "head" => room.seek = room.write - cli.read
    BY <2>5, <2>6
  <2>8. \A j \in 1..cli.read : FALSE
    BY <1>6
  <2> QED  BY <2>2, <2>4, <2>7, <2>8 DEF Lined
<1> QED  BY <1>1, <1>5, <1>6

\* What is read of a head lies behind what was read of it before.
LEMMA FilledLined ==
    ASSUME NEW C, Inv, NEW room, Carries(room, sent, dealt, taken), Spare(room, Wanted),
           Lined(room, cli, taken, C), cli.status = "head",
           room.write \in Nat, room.write - cli.read \in Nat,
           NEW f, f = Filled(room)
    PROVE  /\ f.seek = room.write - cli.read
           /\ \A j \in 1..(cli.read + Got) : f.cell[f.seek + j - 1] = (taken - cli.read) + j
           /\ f.size = room.size
           /\ f.write = IF room.write + Got = room.size THEN 0 ELSE room.write + Got
           /\ f.seek + cli.read + Got <= room.size /\ room.size <= MaxSize
<1>1. /\ cli.read \in Nat /\ Got \in Nat /\ taken \in Nat
  BY WantedIs
<1>2. /\ f.size = room.size /\ f.seek = room.seek
      /\ room.write + Got <= room.size /\ room.size \in Nat
      /\ f.write = IF room.write + Got = room.size THEN 0 ELSE room.write + Got
      /\ \A j \in 1..Got : f.cell[room.write + j - 1] = taken + j
      /\ \A i \in Cell : i < room.write => f.cell[i] = room.cell[i]
  BY FilledKeeps
<1>3. /\ room.seek = room.write - cli.read
      /\ \A j \in 1..cli.read : room.cell[room.seek + j - 1] = taken - cli.read + j
  BY DEF Lined
<1>4. room.size <= MaxSize /\ MaxSize \in Nat
  BY BufferAssumption DEF Carries, Buffers
<1>5. PICK w \in Nat, r \in Nat, g \in Nat, s \in Nat, z \in Nat :
        /\ w = room.write /\ r = cli.read /\ g = Got /\ s = w - r /\ z = room.size
        /\ s = f.seek /\ s = room.seek /\ w + g <= z /\ z <= MaxSize
  BY <1>1, <1>2, <1>3, <1>4
<1>6. ASSUME NEW j \in 1..(r + g)
      PROVE  f.cell[s + j - 1] = (taken - r) + j
  <2>1. CASE j <= r
    <3>1. PICK i : i = s + j - 1
      OBVIOUS
    <3>2. i \in Cell /\ i < w
      BY <1>4, <1>5, <2>1, <3>1 DEF Cell
    <3>3. room.cell[i] = (taken - r) + j
      <4>1. j \in 1..r
        BY <2>1
      <4> QED  BY <1>3, <1>5, <3>1, <4>1
    <3> QED  BY <1>2, <1>5, <3>1, <3>2, <3>3
  <2>2. CASE ~(j <= r)
    <3>1. PICK k \in 1..g : k = j - r
      BY <2>2
    <3>2. f.cell[w + k - 1] = taken + k
      BY <1>2, <1>5
    <3>3. w + k - 1 = s + j - 1 /\ taken + k = (taken - r) + j
      BY <1>1, <1>5, <3>1
    <3> QED  BY <3>2, <3>3
  <2> QED  BY <2>1, <2>2
<1> QED  BY <1>2, <1>3, <1>4, <1>5, <1>6

\* The guide finds the head that was just read.
LEMMA HeadIsFound ==
    ASSUME Inv, cli.status = "head", Got = Wanted, NEW f,
           \A j \in 1..(cli.read + Got) : f.cell[f.seek + j - 1] = (taken - cli.read) + j,
           f.seek \in Nat, f.seek + cli.read + Got <= MaxSize
    PROVE  Heads(f) # {}
<1>1. /\ cli.need \in Nat \ {0} /\ cli.read \in Nat /\ cli.read < cli.need
      /\ Wanted = cli.need - cli.read /\ taken + Got <= arrived
      /\ taken \in Nat /\ arrived \in Nat /\ AtHead(cli, sent, taken) /\ Got \in Nat
  BY WantedIs
<1>2. PICK h \in Nat, r \in Nat, g \in Nat, s \in Nat :
        /\ h = HeadSize /\ h > 0 /\ r = cli.read /\ g = Got /\ r + g = h /\ s = f.seek
        /\ s + h <= MaxSize /\ cli.need = h
  <2>1. cli.need = HeadSize /\ HeadSize \in Nat /\ HeadSize > 0
    BY <1>1, FramingAssumption DEF AtHead
  <2>2. cli.read + Got = HeadSize
    BY <1>1, <2>1
  <2>3. f.seek + (cli.read + Got) <= MaxSize
    BY <1>1
  <2> QED  BY <1>1, <2>1, <2>2, <2>3
<1>3. PICK k \in 0..Len(sent) : taken = EndOf(sent, k) + r
  BY <1>1, <1>2 DEF AtHead
<1>4. /\ EndOf(sent, k) \in Nat /\ EndOf(sent, Len(sent)) \in Nat /\ Len(sent) \in Nat
      /\ arrived <= EndOf(sent, Len(sent))
  BY ChainIs, LenProperties DEF Inv, StreamInv
<1>15. r + g = h /\ h > 0 /\ s + h <= MaxSize /\ MaxSize \in Nat
  BY <1>2, BufferAssumption
<1>5. PICK e \in Nat : e = EndOf(sent, k) /\ e + h <= arrived /\ taken = e + r
  <2>1. PICK e \in Nat : e = EndOf(sent, k)
    BY <1>4
  <2>2. taken = e + r /\ taken + g <= arrived
    BY <1>1, <1>2, <1>3, <2>1
  <2>3. e + h <= arrived
    BY <1>1, <1>15, <2>2
  <2> QED  BY <2>1, <2>2, <2>3
<1>6. PICK m \in 1..Len(sent) : m = k + 1 /\ m - 1 = k
  <2>1. k # Len(sent)
    BY <1>1, <1>2, <1>4, <1>5
  <2> QED  BY <1>4, <2>1
<1>7. sent[m].start = e + 1
  BY <1>5, <1>6, ChainIs DEF Inv, StreamInv
<1>8. PICK first \in Int : first = e + 1
  OBVIOUS
<1>9. PICK seen : seen = View(f, s, h)
  OBVIOUS
<1>10. ASSUME NEW j \in 1..h
       PROVE  s + j - 1 \in Cell /\ f.cell[s + j - 1] = first + j - 1
  <2>1. s + j - 1 \in Cell
    BY <1>15 DEF Cell
  <2>2. j \in 1..(cli.read + Got)
    BY <1>2
  <2>3. f.cell[s + j - 1] = (taken - cli.read) + j
    BY <1>2, <2>2
  <2>4. (taken - cli.read) + j = first + j - 1
    <3>1. taken - r = e
      BY <1>5
    <3>2. e + j = first + j - 1
      BY <1>8
    <3> QED  BY <1>2, <3>1, <3>2
  <2> QED  BY <2>1, <2>3, <2>4
<1>11. seen = Bytes(first, h)
  BY <1>9, <1>10 DEF View, Bytes
<1>12. seen[1] = first
  <2>1. 1 \in 1..h /\ first + 1 - 1 = first
    BY <1>2
  <2> QED  BY <1>11, <2>1 DEF Bytes
<1>13. m \in HeadsAt(f, f.seek)
  BY <1>2, <1>7, <1>8, <1>9, <1>11, <1>12 DEF HeadsAt
<1>14. sent[m].start + HeadSize = taken + Got + 1
  <2>1. taken + Got = e + h
    BY <1>2, <1>5
  <2> QED  BY <1>1, <1>2, <1>7, <2>1
<1> QED  BY <1>13, <1>14 DEF Heads

\* A turn of read_data leaves the reader in step.
LEMMA ReadTurnInStep ==
    ASSUME NEW C, Capacities(C), Inv, StepInv(C), ReadTurn
    PROVE  StepInv(C)'
<1>1. PICK room, f : room = Room /\ f = Filled(room)
  OBVIOUS
<1>2. pc = "read"
  BY DEF ReadTurn
<1>3. ASSUME UNCHANGED <<in, cli, taken, misread>> PROVE StepInv(C)'
  BY <1>3 DEF StepInv, Lined
<1>4. CASE ~Fits(room)
  <2>1. Close
    BY <1>1, <1>4 DEF ReadTurn
  <2> QED  BY <1>3, <2>1 DEF Close
<1>5. CASE Fits(room)
  <2>1. /\ Carries(room, sent, dealt, taken) /\ Spare(room, Wanted)
        /\ Lined(room, cli, taken, C)
        /\ room.write \in Nat /\ room.write - cli.read \in Nat
    BY <1>1, <1>5, RoomKeeps, RoomLined
  <2>2. /\ f.size = room.size /\ room.write + Got <= room.size
        /\ f.write = IF room.write + Got = room.size THEN 0 ELSE room.write + Got
        /\ room.size \in Nat /\ f.write \in 0..MaxSize
        /\ Got = Wanted /\ Boundary(sent, taken + Got) =>
               Carries(f, sent, dealt, taken + Got)
    BY <1>1, <2>1, FilledKeeps
  <2>3. /\ cli.need \in Nat \ {0} /\ cli.read \in Nat /\ cli.read < cli.need
        /\ Wanted = cli.need - cli.read /\ taken \in Nat /\ Got \in Nat /\ Got <= Wanted
        /\ cli.status = "head" => AtHead(cli, sent, taken)
        /\ cli.status = "data" => AtData(cli, sent, taken)
        /\ cli.status \in {"head", "data"} /\ cli \in Client
    <3>1. cli.status \in {"head", "data"} /\ cli \in Client
      BY DEF Inv, ReaderInv, Client
    <3> QED  BY <3>1, WantedIs
  <2>4. room.size \in C /\ Multiple(room.write - cli.read)
    BY <2>1, CapacitiesAre
  <2>5. cli.status = "head" =>
          /\ f.seek = room.write - cli.read
          /\ \A j \in 1..(cli.read + Got) : f.cell[f.seek + j - 1] = (taken - cli.read) + j
          /\ f.seek + cli.read + Got <= room.size /\ room.size <= MaxSize
    BY <1>1, <2>1, FilledLined
  <2>6. Sane(room)
    BY <2>2, <2>3 DEF Sane
  <2>7. CASE Got < Wanted
    <3>1. ReadPart(room)
      BY <1>1, <1>5, <2>6, <2>7 DEF ReadTurn
    <3>2. /\ in' = f /\ taken' = taken + Got /\ misread' = misread
          /\ cli' = [cli EXCEPT !.read = @ + Got, !.is_ready = cli.is_ok \/ @]
      BY <1>1, <3>1 DEF ReadPart
    <3>3. cli'.read = cli.read + Got /\ cli'.status = cli.status
      BY <2>3, <2>7, <3>2 DEF Client
    <3>4. f.write = room.write + Got
      <4>1. room.write + Wanted <= room.size
        <5>1. (room.read \in Nat /\ room.read <= room.end /\ room.end <= room.size) \/ ~Hollow(room)
          BY <2>1 DEF Carries, Shaped, Hollow, Buffers
        <5>2. room.end \in Nat
          BY <2>1 DEF Carries, Buffers
        <5> QED  BY <2>1, <2>2, <2>3, <5>1, <5>2 DEF Spare
      <4> QED  BY <2>1, <2>2, <2>3, <2>7, <4>1
    <3>5. f.write - cli'.read = room.write - cli.read
      BY <2>1, <2>3, <3>3, <3>4
    <3>6. Multiple(f.write - cli'.read) /\ f.size \in C
      BY <2>2, <2>4, <3>5
    <3>7. cli'.status = "head" => f.seek = f.write - cli'.read
      BY <2>5, <3>3, <3>5
    <3>8. ASSUME cli'.status = "head", NEW j \in 1..cli'.read
          PROVE  f.cell[f.seek + j - 1] = taken' - cli'.read + j
      <4>1. taken' - cli'.read = taken - cli.read
        BY <2>3, <3>2, <3>3
      <4> QED  BY <2>5, <3>3, <3>8, <4>1
    <3>9. Lined(f, cli', taken', C)
      BY <3>6, <3>7, <3>8 DEF Lined
    <3>10. Lined(in, cli, taken, C)' <=> Lined(in', cli', taken', C)
      BY DEF Lined
    <3> QED  BY <3>2, <3>9, <3>10 DEF StepInv
  <2>8. CASE ~(Got < Wanted)
    <3>1. ReadPiece(room) /\ Got = Wanted
      BY <1>1, <1>5, <2>3, <2>6, <2>8 DEF ReadTurn
    <3>2. cli.status = "head" => Heads(f) # {}
      <4>1. SUFFICES ASSUME cli.status = "head" PROVE Heads(f) # {}
        OBVIOUS
      <4>2. f.seek \in Nat /\ f.seek + cli.read + Got <= MaxSize
        <5>1. MaxSize \in Nat
          BY BufferAssumption
        <5> QED  BY <2>1, <2>2, <2>3, <2>5, <4>1, <5>1
      <4> QED  BY <2>5, <3>1, <4>1, <4>2, HeadIsFound
    <3>3. CASE Close
      BY <1>3, <3>3 DEF Close
    <3>4. ASSUME NEW size \in Nat,
                 cli.status = "head" =>
                   \E m \in 1..Len(sent) : /\ sent[m].start + HeadSize = taken + Got + 1
                                           /\ size = sent[m].size /\ size <= MaxData,
                 in' = [f EXCEPT !.seek = f.write], cli' = NextPiece(size),
                 taken' = taken + Got, misread' = misread
          PROVE  StepInv(C)'
      <4>1. Boundary(sent, taken + Got) /\ cli'.read = 0
        BY <3>1, <3>4, PieceIs
      <4>2. Carries(f, sent, dealt, taken + Got)
        BY <2>2, <3>1, <4>1
      <4>3. in'.write = f.write /\ in'.size = f.size /\ in'.seek = f.write
        <5>1. PICK w \in 0..MaxSize : w = f.write
          BY <2>2
        <5>2. PICK t : t = taken + Got
          OBVIOUS
        <5>3. in' = [f EXCEPT !.seek = w] /\ Carries(f, sent, dealt, t)
          BY <3>4, <4>2, <5>1, <5>2
        <5> QED  BY <5>1, <5>3, SeekKeeps
      <4>4. Multiple(cli.need)
        <5>1. CASE cli.status = "head"
          BY <2>3, <5>1, MultipleIs DEF AtHead
        <5>2. CASE cli.status = "data"
          <6>1. PICK k \in 1..Len(sent) : cli.need = sent[k].size
            BY <2>3, <5>2 DEF AtData
          <6>2. cli.need \in DataSizes /\ cli.need <= MaxData
            BY <2>3, <5>2, <6>1, ChainIs DEF Inv, StreamInv, AtData
          <6> QED  BY <6>2 DEF Accepted, Capacities
        <5> QED  BY <2>3, <5>1, <5>2
      <4>5. Multiple(room.write + Got)
        <5>1. room.write + Got = (room.write - cli.read) + cli.need
          BY <2>1, <2>3, <3>1
        <5> QED  BY <2>1, <2>3, <2>4, <4>4, <5>1, MultipleIs
      <4>6. Multiple(f.write) /\ f.write \in Nat /\ f.write - 0 = f.write
        BY <2>1, <2>2, <2>3, <4>5, MultipleIs
      <4>7. \A j \in 1..cli'.read : FALSE
        BY <4>1
      <4>8. Lined(in', cli', taken', C)
        BY <2>2, <2>4, <4>1, <4>3, <4>6, <4>7 DEF Lined
      <4>9. Lined(in, cli, taken, C)' <=> Lined(in', cli', taken', C)
        BY DEF Lined
      <4> QED  BY <3>4, <4>8, <4>9 DEF StepInv
    <3> QED  BY <1>1, <3>1, <3>2, <3>3, <3>4, ReadPieceWays
  <2> QED  BY <2>7, <2>8
<1> QED  BY <1>4, <1>5

\* What deals with messages does not touch where the reader is.
LEMMA DealInStep ==
    ASSUME NEW C, Inv, StepInv(C), Deal \/ DealNoHead
    PROVE  StepInv(C)'
<1>1. ASSUME NEW b, b.write = in.write, b.seek = in.seek, b.size = in.size, b.cell = in.cell,
             NEW c, c.read = cli.read, c.status = cli.status,
             in' = b, cli' = c, taken' = taken, misread' = misread
      PROVE  StepInv(C)'
  BY <1>1 DEF StepInv, Lined
<1>2. cli \in Client
  BY DEF Inv, ReaderInv
<1>3. CASE DealNoHead
  <2>1. PICK c : c = cli' /\ c.read = cli.read /\ c.status = cli.status
    <3>1. PICK d : /\ d = [cli EXCEPT !.need = IF in.len <= 0 THEN HeadSize ELSE @]
                   /\ cli' = Returned(d, in)
      BY <1>3 DEF DealNoHead
    <3>2. d.read = cli.read /\ d.status = cli.status
      BY <1>2, <3>1 DEF Client
    <3>3. PICK n : d = [cli EXCEPT !.need = n]
      BY <3>1
    <3>4. PICK ready : cli' = [d EXCEPT !.is_ready = ready]
      BY <3>1 DEF Returned
    <3>5. cli'.read = d.read /\ cli'.status = d.status
      BY <1>2, <3>3, <3>4 DEF Client
    <3> QED  BY <3>2, <3>5
  <2>2. in' = in /\ taken' = taken /\ misread' = misread
    BY <1>3 DEF DealNoHead
  <2> QED  BY <1>1, <2>1, <2>2
<1>4. CASE Close
  BY <1>1, <1>4 DEF Close
<1>5. CASE pc = "deal" /\ in.len >= HeadSize /\ DealMessage(dealt + 1)
  <2>1. /\ in'.write = in.write /\ in'.seek = in.seek /\ in'.size = in.size
        /\ in'.cell = in.cell /\ cli' \in {cli, Returned(cli, in')}
        /\ taken' = taken /\ misread' = misread /\ Carries(in', sent, dealt', taken)
    BY <1>5, DealMessageIs
  <2>2. in'.len \in Int
    BY <2>1 DEF Carries, Buffers
  <2>3. PICK b, c : b = in' /\ c = cli'
    OBVIOUS
  <2>4. c.read = cli.read /\ c.status = cli.status
    BY <1>2, <2>1, <2>2, <2>3, ReturnedIs
  <2> QED  BY <1>1, <2>1, <2>3, <2>4
<1> QED  BY <1>3, <1>4, <1>5, DealWays

\* Every step leaves the reader in step.
LEMMA NextInStep ==
    ASSUME NEW C, Capacities(C), Inv, StepInv(C), [Next]_vars
    PROVE  StepInv(C)'
<1>1. ASSUME UNCHANGED <<in, cli, taken, misread>> PROVE StepInv(C)'
  BY <1>1 DEF StepInv, Lined
<1>2. CASE ReadEvent
  BY <1>1, <1>2 DEF ReadEvent
<1>3. CASE ReadTurn
  BY <1>3, ReadTurnInStep
<1>4. CASE Dispatch
  BY <1>1, <1>4 DEF Dispatch
<1>5. CASE Deal \/ DealNoHead
  BY <1>5, DealInStep
<1>6. CASE Deliver
  BY <1>1, <1>6 DEF Deliver
<1>7. ASSUME NEW size \in DataSizes, NEW kernel \in Kernels, Send(size, kernel)
      PROVE  StepInv(C)'
  BY <1>1, <1>7 DEF Send
<1>8. CASE UNCHANGED vars
  BY <1>1, <1>8 DEF vars
<1> QED  BY <1>2, <1>3, <1>4, <1>5, <1>6, <1>7, <1>8 DEF Next, Reader, Parser, Peer

\* The reader begins in step.
LEMMA InitInStep ==
    ASSUME NEW C, Capacities(C), Init
    PROVE  StepInv(C)
<1>1. /\ in = EmptyBuffer /\ misread = "nothing"
      /\ cli = [need |-> HeadSize, read |-> 0, status |-> "head",
                is_ok |-> FALSE, is_ready |-> FALSE]
  BY DEF Init
<1>2. in.size = FirstSize /\ in.write = 0 /\ in.seek = 0
  BY <1>1, EmptyIs
<1>3. FirstSize \in C /\ Multiple(0)
  BY MultipleIs DEF Capacities
<1>4. cli.read = 0 /\ in.write - cli.read = 0 /\ \A j \in 1..cli.read : FALSE
  BY <1>1, <1>2
<1> QED  BY <1>1, <1>2, <1>3, <1>4 DEF StepInv, Lined

\* Where every size of data and every capacity is a multiple of a head's size
\* (Aligned), and the data of every message but the first arrives with its last byte
\* (Splits), no head is ever put elsewhere than where the guide looks for it
\* (proto.c:40), and read_data never asks recv for more than there is room for.
THEOREM ReaderStaysInStep == ASSUME Splits = FALSE, Aligned PROVE Spec => []ReaderInStep
<1>1. PICK C : Capacities(C)
  BY DEF Aligned, Capacities
<1>2. Spec => []Inv
  BY Invariance
<1>3. Init => StepInv(C)
  BY <1>1, InitInStep
<1>4. Inv /\ StepInv(C) /\ [Next]_vars => StepInv(C)'
  BY <1>1, NextInStep
<1>5. StepInv(C) => ReaderInStep
  BY DEF StepInv, ReaderInStep
<1> QED  BY <1>2, <1>3, <1>4, <1>5, PTL DEF Spec

-----------------------------------------------------------------------------
(* buffer_write.                                                             *)

\* A buffer of any contents: the size alone is known.
Record(b) ==
    /\ b = [read |-> b.read, write |-> b.write, seek |-> b.seek, len |-> b.len,
            gap |-> b.gap, size |-> b.size, end |-> b.end, cell |-> b.cell]
    /\ b.size \in Nat

\* No buffer gets smaller.
LEMMA RectifyGrows ==
    ASSUME NEW b, Record(b), NEW n \in Nat, NEW r, r = Rectify(b, n)
    PROVE  Record(r) /\ r.size >= b.size
<1>1. PICK g \in Nat : g = Grown(b.size, n) /\ g >= b.size
  <2>1. Grown(b.size, n) \in Nat /\ Grown(b.size, n) >= b.size + n /\ b.size \in Nat
    BY GrownMore DEF Record
  <2> QED  BY <2>1
<1>2. \/ r = b \/ r = Realloc(b, g) \/ r = Reset(b)
      \/ r = [b EXCEPT !.write = 0, !.gap = b.size - b.end]
  BY <1>1 DEF Rectify
<1>3. b.size \in Nat
  BY DEF Record
<1>4. CASE r = Realloc(b, g)
  <2>1. CASE b.len > 0 /\ b.read >= b.write
    <3>1. PICK cell, read :
            /\ cell = [i \in Cell |-> IF i >= b.read + (g - b.end) /\ i < g
                                      THEN b.cell[i - (g - b.end)] ELSE b.cell[i]]
            /\ read = b.read + (g - b.end)
      OBVIOUS
    <3>2. r = [b EXCEPT !.cell = cell, !.read = read, !.end = g, !.size = g, !.gap = 0]
      BY <1>4, <2>1, <3>1 DEF Realloc
    <3>3. r = [read |-> read, write |-> b.write, seek |-> b.seek, len |-> b.len,
               gap |-> 0, size |-> g, end |-> g, cell |-> cell]
      BY <3>2 DEF Record
    <3> QED  BY <1>1, <3>3 DEF Record
  <2>2. CASE ~(b.len > 0 /\ b.read >= b.write)
    <3>1. r = [b EXCEPT !.size = g, !.gap = 0]
      BY <1>4, <2>2 DEF Realloc
    <3>2. r = [read |-> b.read, write |-> b.write, seek |-> b.seek, len |-> b.len,
               gap |-> 0, size |-> g, end |-> b.end, cell |-> b.cell]
      BY <3>1 DEF Record
    <3> QED  BY <1>1, <3>2 DEF Record
  <2> QED  BY <2>1, <2>2
<1>5. CASE r = Reset(b)
  <2>1. r = [read |-> 0, write |-> 0, seek |-> 0, len |-> 0,
             gap |-> 0, size |-> b.size, end |-> 0, cell |-> b.cell]
    BY <1>5 DEF Record, Reset
  <2> QED  BY <1>3, <2>1 DEF Record
<1>6. CASE r = [b EXCEPT !.write = 0, !.gap = b.size - b.end]
  <2>1. PICK gap : gap = b.size - b.end
    OBVIOUS
  <2>2. r = [read |-> b.read, write |-> 0, seek |-> b.seek, len |-> b.len,
             gap |-> gap, size |-> b.size, end |-> b.end, cell |-> b.cell]
    BY <1>6, <2>1 DEF Record
  <2> QED  BY <1>3, <2>2 DEF Record
<1> QED  BY <1>2, <1>3, <1>4, <1>5, <1>6

\* buffer_write changes the size only by making room.
LEMMA WriteGrows ==
    ASSUME NEW b, Record(b), NEW n \in Nat, NEW x, NEW r, r = Write(b, x, n)
    PROVE  r.size = Rectify(b, n + 1).size /\ r.size >= b.size
<1>1. PICK a : a = Rectify(b, n + 1) /\ Record(a) /\ a.size >= b.size
  <2>1. n + 1 \in Nat
    OBVIOUS
  <2> QED  BY <2>1, RectifyGrows
<1>2. PICK cell : Received(a, x, n) = [a EXCEPT !.cell = cell]
  BY DEF Received
<1>3. PICK d : d = [a EXCEPT !.cell = cell]
  OBVIOUS
<1>4. d = [read |-> a.read, write |-> a.write, seek |-> a.seek, len |-> a.len,
           gap |-> a.gap, size |-> a.size, end |-> a.end, cell |-> cell]
  BY <1>1, <1>3 DEF Record
<1>5. PICK len, end, write : SeekWrite(d, n) = [d EXCEPT !.len = len, !.end = end, !.write = write]
  BY DEF SeekWrite
<1>6. PICK w : w = SeekWrite(d, n) /\ w.size = a.size
            /\ w = [read |-> a.read, write |-> write, seek |-> a.seek, len |-> len,
                    gap |-> a.gap, size |-> a.size, end |-> end, cell |-> cell]
  BY <1>4, <1>5
<1>7. r = [w EXCEPT !.cell[w.write] = Zero]
  BY <1>1, <1>2, <1>3, <1>6 DEF Write
<1>8. PICK c : r = [w EXCEPT !.cell = c]
  BY <1>7
<1>9. r.size = a.size
  BY <1>6, <1>8
<1> QED  BY <1>1, <1>9

\* What is written follows what is there, and the terminator spoils nothing.
LEMMA WriteKeeps ==
    ASSUME NEW V, Int \subseteq V, NEW b \in Buffers(V), Shaped(b), NEW n \in Nat \ {0},
           NEW first \in Int, Holds(b, first), NEW x, x = first + b.len,
           NEW r, r = Write(b, x, n), r.size <= MaxSize
    PROVE  /\ r \in Buffers(V) /\ Shaped(r) /\ Holds(r, first) /\ r.len = b.len + n
           /\ b.len = 0 => Flat(r)
<1>1. Record(b)
  BY BufferAssumption DEF Buffers, Record
<1>2. PICK m \in Nat \ {0} : m = n + 1
  OBVIOUS
<1>3. PICK a : a = Rectify(b, m)
  OBVIOUS
<1>4. a.size <= MaxSize
  BY <1>1, <1>2, <1>3, WriteGrows
<1>5. a \in Buffers(V) /\ Alike(a, b, first) /\ Spare(a, m)
  BY <1>2, <1>3, <1>4, RectifyKeeps
<1>6. /\ Shaped(a) /\ a.len = b.len /\ Top(a) = Top(b) /\ Holds(a, first)
      /\ a.read \in Nat /\ a.write \in Nat /\ a.size \in Nat /\ a.len \in Nat
  BY <1>5 DEF Alike, Buffers
<1>7. Spare(a, n)
  BY <1>2, <1>5, <1>6 DEF Spare
<1>8. \A j \in 1..n : x + j - 1 \in V
  <2>1. x \in Int
    BY <1>6
  <2> QED  BY <2>1
<1>9. PICK w : w = Fill(a, x, n)
  OBVIOUS
<1>10. /\ w \in Buffers(V) /\ Shaped(w) /\ Holds(w, first)
       /\ w.len = a.len + n /\ w.size = a.size
       /\ w.write = IF a.write + n = a.size THEN 0 ELSE a.write + n
       /\ \A k \in Nat \ {0} : Spare(a, n + k) => Spare(w, k) /\ (Hollow(w) => Hollow(a))
  <2>1. x = first + a.len
    BY <1>6
  <2> QED  BY <1>5, <1>6, <1>7, <1>8, <1>9, <2>1, FillKeeps
<1>11. Spare(w, 1) /\ (Hollow(w) => Hollow(a))
  BY <1>2, <1>5, <1>10
<1>12. PICK at \in Cell : at = w.write
  <2>1. w.write \in Nat /\ w.size \in Nat /\ w.size <= MaxSize /\ MaxSize \in Nat
    BY <1>10, BufferAssumption DEF Buffers
  <2>2. w.write < w.size
    BY <1>10 DEF Shaped
  <2>3. w.write \in Cell
    BY <2>1, <2>2 DEF Cell
  <2> QED  BY <2>3
<1>13. PICK cell : cell = [w.cell EXCEPT ![at] = Zero]
  OBVIOUS
<1>14. r = [w EXCEPT !.cell = cell]
  BY <1>2, <1>3, <1>9, <1>12, <1>13 DEF Write, Fill
<1>15. w.cell \in [Cell -> V] /\ Zero \in V
  BY <1>10 DEF Buffers, Zero
<1>16. cell \in [Cell -> V] /\ \A i \in Cell : i # at => cell[i] = w.cell[i]
  BY <1>12, <1>13, <1>15
<1>17. /\ r \in Buffers(V) /\ r.read = w.read /\ r.write = w.write /\ r.len = w.len
       /\ r.gap = w.gap /\ r.size = w.size /\ r.end = w.end /\ r.cell = cell
  BY <1>10, <1>14, <1>16 DEF Buffers
<1>18. /\ (Flat(r) <=> Flat(w)) /\ (Hollow(r) <=> Hollow(w)) /\ Top(r) = Top(w)
       /\ \A i : SlotOf(r, i) = SlotOf(w, i)
  BY <1>17 DEF Flat, Hollow, Top, SlotOf
<1>19. Shaped(r)
  BY <1>10, <1>17, <1>18 DEF Shaped
<1>20. ASSUME NEW i \in 1..w.len
       PROVE  SlotOf(w, i) \in Cell /\ SlotOf(w, i) # at
  <2>1. /\ w.read \in Nat /\ w.write \in Nat /\ w.len \in Nat /\ w.end \in Nat /\ i \in Nat
        /\ w.size \in Nat
    BY <1>10 DEF Buffers
  <2>2. SlotOf(w, i) \in Cell
    BY <1>10, ShapedMore
  <2>3. CASE Flat(w)
    <3>1. Top(w) = w.len
      BY <1>10, <2>3, ShapedMore
    <3>2. SlotOf(w, i) = w.read + i - 1 /\ w.read + w.len = w.write
      BY <2>1, <2>3, <3>1 DEF SlotOf, Flat
    <3> QED  BY <1>12, <2>1, <2>2, <3>2
  <2>4. CASE Hollow(w)
    <3>1. w.write + 1 <= w.read /\ w.len = w.end - w.read + w.write /\ w.read < w.end
      BY <1>11, <2>4 DEF Spare, Hollow
    <3>2. CASE i <= Top(w)
      BY <1>12, <2>1, <2>2, <3>1, <3>2 DEF SlotOf
    <3>3. CASE ~(i <= Top(w))
      BY <1>12, <2>1, <2>2, <3>1, <3>3 DEF SlotOf, Top
    <3> QED  BY <3>2, <3>3
  <2> QED  BY <1>10, <2>3, <2>4 DEF Shaped
<1>21. Holds(r, first)
  BY <1>10, <1>16, <1>17, <1>18, <1>20 DEF Holds
<1>22. r.len = b.len + n
  BY <1>6, <1>10, <1>17
<1>23. b.len = 0 => Flat(r)
  <2>1. b.len = 0 => ~Hollow(a)
    BY <1>6, ShapedMore, <1>5
  <2>2. b.len = 0 => ~Hollow(r)
    BY <1>11, <1>18, <2>1
  <2> QED  BY <1>19, <2>2 DEF Shaped
<1> QED  BY <1>17, <1>19, <1>21, <1>22, <1>23

-----------------------------------------------------------------------------
(* The sending half.                                                         *)

\* A buffer that is reset holds the bytes from any number on: none.
LEMMA ResetIs ==
    ASSUME NEW V, NEW b \in Buffers(V), NEW r, r = Reset(b)
    PROVE  /\ r \in Buffers(V) /\ Shaped(r) /\ r.len = 0
           /\ \A first : Holds(r, first)
<1>1. r = [read |-> 0, write |-> 0, seek |-> 0, len |-> 0, gap |-> 0,
           size |-> b.size, end |-> 0, cell |-> b.cell]
  BY DEF Reset, Buffers
<1>2. r \in Buffers(V)
  BY <1>1, BufferAssumption DEF Buffers
<1>3. b.size \in Nat /\ b.size > 0
  BY BufferAssumption DEF Buffers
<1>4. Shaped(r) /\ r.len = 0
  BY <1>1, <1>3 DEF Shaped, Flat
<1>5. \A first : Holds(r, first)
  BY <1>4 DEF Holds
<1> QED  BY <1>2, <1>4, <1>5

\* What the cells hold.
Values == Int \cup {Junk}

\* Byte i of the connection is the number that send_tcp gave it.
Numbered(s, base, n) ==
    s \in Seq(Int) /\ Len(s) <= n /\ \A i \in 1..Len(s) : s[i] = base + i

\* The buffer holds the last of the n bytes that were given for the connection.
Last(b, base, n) ==
    b \in Buffers(Values) /\ Shaped(b) /\ Holds(b, base + (n - b.len) + 1)

\* The number before the first of the connection.
Base == conn * MaxBytes

\* What the variables are.
SendTypes ==
    /\ conn \in Nat /\ open \in BOOLEAN /\ broken \in BOOLEAN /\ given \in Nat
    /\ call = [sent |-> call.sent, total |-> call.total]
    /\ call.sent \in Nat /\ call.total \in Nat
    /\ wire \in Seq(Int) /\ got \in Seq(Int)

\* A call sends all that the buffer holds, of a client with a socket.
CallFits ==
    call # Idle => /\ open /\ call.total = out.len /\ call.total > 0
                     /\ call.sent <= call.total

\* On an intact connection the kernel has what was given, but for what the call
\* in progress has still to send.
NothingLost ==
    open /\ ~broken =>
        IF call = Idle THEN out.len = 0 /\ Len(Stream) = given
        ELSE Flat(out) /\ Len(Stream) = (given - call.total) + call.sent

\* The stream of a connection is what was given for it, in the kernel or with the
\* peer, and the buffer holds the end of it.
SendInv ==
    /\ SendTypes
    /\ Last(out, Base, given) /\ Numbered(Stream, Base, given)
    /\ CallFits /\ NothingLost
    /\ ~open => out.len = 0

\* The invariant holds at the start.
LEMMA SendInit == ASSUME SendingInit PROVE SendInv
<1>1. /\ conn = 0 /\ open = FALSE /\ broken = FALSE /\ out = EmptyBuffer
      /\ given = 0 /\ call = Idle /\ wire = <<>> /\ got = <<>>
  BY DEF SendingInit
<1>2. SendTypes
  <2>1. open \in BOOLEAN /\ broken \in BOOLEAN
    BY <1>1
  <2>2. call = [sent |-> call.sent, total |-> call.total]
        /\ call.sent \in Nat /\ call.total \in Nat
    BY <1>1 DEF Idle
  <2> QED  BY <1>1, <2>1, <2>2 DEF SendTypes
<1>3. Last(out, Base, given) /\ out.len = 0
  <2>1. out \in Buffers(Values) /\ Shaped(out) /\ out.len = 0 /\ \A first : Holds(out, first)
    BY <1>1, EmptyIs DEF Values
  <2> QED  BY <2>1 DEF Last
<1>4. Numbered(Stream, Base, given)
  <2>1. Stream = <<>>
    BY <1>1 DEF Stream
  <2> QED  BY <1>1, <2>1 DEF Numbered
<1>5. CallFits /\ NothingLost
  BY <1>1 DEF CallFits, NothingLost
<1> QED  BY <1>2, <1>3, <1>4, <1>5 DEF SendInv

\* Taking the first byte off the wire leaves the stream as it is.
LEMMA StreamMoves ==
    ASSUME NEW s \in Seq(Int), NEW t \in Seq(Int), t # <<>>
    PROVE  /\ Append(s, Head(t)) \o Tail(t) = s \o t
           /\ Append(s, Head(t)) \in Seq(Int) /\ Tail(t) \in Seq(Int)
<1>1. PICK e \in Int, r \in Seq(Int) : e = Head(t) /\ r = Tail(t)
  BY HeadTailProperties
<1>2. Append(s, e) = s \o <<e>>
  BY AppendIsConcat
<1>3. <<e>> \in Seq(Int)
  OBVIOUS
<1>4. (s \o <<e>>) \o r = s \o (<<e>> \o r)
  BY <1>3, ConcatAssociative
<1>5. <<e>> \o r = t
  <2>1. <<e>> \o r \in Seq(Int) /\ Len(<<e>> \o r) = Len(<<e>>) + Len(r)
        /\ \A i \in 1..Len(<<e>>) + Len(r) :
             (<<e>> \o r)[i] = IF i <= Len(<<e>>) THEN <<e>>[i] ELSE r[i - Len(<<e>>)]
    BY <1>3, ConcatProperties
  <2>2. Len(<<e>>) = 1 /\ <<e>>[1] = e
    OBVIOUS
  <2>3. Len(t) \in Nat /\ Len(r) = Len(t) - 1 /\ t[1] = e
        /\ \A i \in 1..Len(r) : r[i] = t[i + 1]
    BY <1>1, HeadTailProperties, LenProperties
  <2>4. \A i \in 1..Len(t) : (<<e>> \o r)[i] = t[i]
    <3> TAKE i \in 1..Len(t)
    <3>1. CASE i = 1
      BY <2>1, <2>2, <2>3, <3>1
    <3>2. CASE i # 1
      <4>1. i \in 1..(Len(<<e>>) + Len(r)) /\ i - 1 \in 1..Len(r) /\ (i - 1) + 1 = i
        BY <2>2, <2>3, <3>2
      <4> QED  BY <2>1, <2>2, <2>3, <3>2, <4>1
    <3> QED  BY <3>1, <3>2
  <2>5. PICK u \in Seq(Int) : u = <<e>> \o r
    BY <2>1
  <2>6. Len(u) = Len(t) /\ \A i \in 1..Len(t) : u[i] = t[i]
    BY <2>1, <2>2, <2>3, <2>4, <2>5
  <2>7. u = t
    BY <2>6, SeqEqual
  <2> QED  BY <2>5, <2>7
<1>6. Append(s, e) \in Seq(Int)
  BY AppendProperties
<1> QED  BY <1>1, <1>2, <1>4, <1>5, <1>6

\* What the peer reads was on the wire: the stream is the same.
LEMMA PeerReadsKeeps == ASSUME SendInv, PeerReads PROVE SendInv'
<1>1. /\ wire # <<>> /\ got' = Append(got, Head(wire)) /\ wire' = Tail(wire)
      /\ UNCHANGED <<conn, open, broken, out, given, call>>
  BY DEF PeerReads
<1>2. wire \in Seq(Int) /\ got \in Seq(Int)
  BY DEF SendInv, SendTypes
<1>3. Stream' = Stream /\ wire' \in Seq(Int) /\ got' \in Seq(Int)
  BY <1>1, <1>2, StreamMoves DEF Stream
<1>4. SendTypes'
  BY <1>1, <1>3 DEF SendInv, SendTypes
<1>5. Last(out, Base, given)' /\ Numbered(Stream, Base, given)'
  BY <1>1, <1>3 DEF SendInv, Last, Numbered, Base, Holds, SlotOf, Top, Shaped, Flat, Hollow
<1>6. CallFits' /\ NothingLost'
  BY <1>1, <1>3 DEF SendInv, CallFits, NothingLost, Flat, Idle
<1> QED  BY <1>1, <1>4, <1>5, <1>6 DEF SendInv

\* What reached the peer before a connection ended is still numbered.
LEMMA GotOnly ==
    ASSUME NEW g \in Seq(Int), NEW w \in Seq(Int), NEW base \in Int, NEW n \in Nat,
           Numbered(g \o w, base, n)
    PROVE  Numbered(g \o <<>>, base, n)
<1>1. g \o <<>> = g
  BY ConcatEmptySeq
<1>2. Len(g) \in Nat /\ Len(w) \in Nat
  BY LenProperties
<1>3. Len(g \o w) = Len(g) + Len(w) /\ \A i \in 1..Len(g) : (g \o w)[i] = g[i]
  BY <1>2, ConcatProperties
<1>4. Len(g) <= n /\ \A i \in 1..Len(g) : g[i] = base + i
  BY <1>2, <1>3 DEF Numbered
<1> QED  BY <1>1, <1>4 DEF Numbered

\* The bytes of a connection have whole numbers.
LEMMA BaseIs == ASSUME SendTypes PROVE Base \in Int
BY SendingAssumption DEF SendTypes, Base

\* A new connection: the buffer is empty, and the numbers begin again.
LEMMA AcceptKeeps == ASSUME SendInv, Accept PROVE SendInv'
<1>1. /\ ~open /\ conn' = conn + 1 /\ open' = TRUE /\ broken' = FALSE
      /\ given' = 0 /\ wire' = <<>> /\ got' = <<>> /\ out' = out /\ call' = call
  BY DEF Accept
<1>2. call = Idle /\ out.len = 0
  BY <1>1 DEF SendInv, CallFits
<1>3. SendTypes'
  <2>1. open' \in BOOLEAN /\ broken' \in BOOLEAN
    BY <1>1
  <2>2. conn' \in Nat /\ given' \in Nat /\ wire' \in Seq(Int) /\ got' \in Seq(Int)
    BY <1>1 DEF SendInv, SendTypes
  <2> QED  BY <1>1, <2>1, <2>2 DEF SendInv, SendTypes
<1>4. Last(out, Base, given)'
  <2>1. out \in Buffers(Values) /\ Shaped(out)
    BY DEF SendInv, Last
  <2>2. \A first : Holds(out, first)
    BY <1>2 DEF Holds
  <2>3. Last(out, Base', given')
    BY <2>1, <2>2 DEF Last
  <2> QED  BY <1>1, <2>3 DEF Last, Holds, SlotOf, Top, Shaped, Flat, Hollow
<1>5. Numbered(Stream, Base, given)' /\ Len(Stream') = 0
  <2>1. Stream' = <<>>
    BY <1>1 DEF Stream
  <2> QED  BY <1>1, <2>1 DEF Numbered
<1>6. CallFits' /\ NothingLost'
  BY <1>1, <1>2, <1>5 DEF CallFits, NothingLost, Idle
<1> QED  BY <1>1, <1>3, <1>4, <1>5, <1>6 DEF SendInv

\* The kernel forgets what the peer has not read.
LEMMA PeerResetsKeeps == ASSUME SendInv, PeerResets PROVE SendInv'
<1>1. /\ open /\ broken' = TRUE /\ wire' = <<>>
      /\ UNCHANGED <<conn, open, out, given, call, got>>
  BY DEF PeerResets
<1>2. SendTypes'
  <2>1. broken' \in BOOLEAN /\ wire' \in Seq(Int)
    BY <1>1
  <2> QED  BY <1>1, <2>1 DEF SendInv, SendTypes
<1>3. Last(out, Base, given)'
  BY <1>1 DEF SendInv, Last, Base, Holds, SlotOf, Top, Shaped, Flat, Hollow
<1>4. Numbered(Stream, Base, given)'
  <2>1. Numbered(got \o <<>>, Base, given)
    BY BaseIs, GotOnly DEF SendInv, SendTypes, Stream
  <2> QED  BY <1>1, <2>1 DEF Stream, Base, Numbered
<1>5. CallFits' /\ NothingLost'
  BY <1>1 DEF SendInv, CallFits, NothingLost, Idle
<1> QED  BY <1>1, <1>2, <1>3, <1>4, <1>5 DEF SendInv

\* Closing empties the buffer, and the kernel forgets what it still held.
LEMMA CloseSocketKeeps == ASSUME SendInv, CloseSocket PROVE SendInv'
<1>1. /\ open /\ call = Idle /\ open' = FALSE /\ out' = Reset(out) /\ wire' = <<>>
      /\ UNCHANGED <<conn, broken, given, call, got>>
  BY DEF CloseSocket
<1>2. SendTypes'
  <2>1. open' \in BOOLEAN
    BY <1>1
  <2>2. wire' \in Seq(Int)
    BY <1>1
  <2> QED  BY <1>1, <2>1, <2>2 DEF SendInv, SendTypes
<1>3. Last(out, Base, given)' /\ out'.len = 0
  <2>1. out \in Buffers(Values)
    BY DEF SendInv, Last
  <2>2. PICK r : r = out'
    OBVIOUS
  <2>3. r \in Buffers(Values) /\ Shaped(r) /\ r.len = 0 /\ \A first : Holds(r, first)
    BY <1>1, <2>1, <2>2, ResetIs
  <2>4. Last(r, Base', given')
    BY <2>3 DEF Last
  <2> QED  BY <2>2, <2>3, <2>4 DEF Last, Holds, SlotOf, Top, Shaped, Flat, Hollow
<1>4. Numbered(Stream, Base, given)'
  <2>1. Numbered(got \o <<>>, Base, given)
    BY BaseIs, GotOnly DEF SendInv, SendTypes, Stream
  <2> QED  BY <1>1, <2>1 DEF Stream, Base, Numbered
<1>5. CallFits' /\ NothingLost'
  BY <1>1 DEF SendInv, CallFits, NothingLost, Idle
<1> QED  BY <1>1, <1>2, <1>3, <1>4, <1>5 DEF SendInv

\* circle_send returns: the buffer is emptied, or nothing was sent of it.
LEMMA SendReturnKeeps == ASSUME SendInv, SendReturn PROVE SendInv'
<1>1. /\ call # Idle /\ (call.sent = call.total \/ broken)
      /\ out' = (IF call.sent > 0 THEN Reset(out) ELSE out) /\ call' = Idle
      /\ UNCHANGED <<conn, open, broken, given, wire, got>>
  BY DEF SendReturn, Emptied
<1>2. /\ open /\ call.total > 0 /\ call.sent <= call.total
      /\ call.sent \in Nat /\ call.total \in Nat
  BY <1>1 DEF SendInv, CallFits, SendTypes
<1>3. SendTypes'
  BY <1>1 DEF SendInv, SendTypes, Idle
<1>4. Last(out, Base, given)' /\ (~broken => out'.len = 0)
  <2>1. Last(out, Base, given) /\ out \in Buffers(Values)
    BY DEF SendInv, Last
  <2>2. PICK r : r = out'
    OBVIOUS
  <2>3. Last(r, Base, given) /\ (~broken => r.len = 0)
    <3>1. CASE call.sent > 0
      <4>1. r \in Buffers(Values) /\ Shaped(r) /\ r.len = 0 /\ \A first : Holds(r, first)
        BY <1>1, <2>1, <2>2, <3>1, ResetIs
      <4> QED  BY <4>1 DEF Last
    <3>2. CASE ~(call.sent > 0)
      BY <1>1, <1>2, <2>1, <2>2, <3>2
    <3> QED  BY <3>1, <3>2
  <2>4. Base' = Base /\ given' = given
    BY <1>1 DEF Base
  <2> QED  BY <2>2, <2>3, <2>4 DEF Last, Holds, SlotOf, Top, Shaped, Flat, Hollow
<1>5. Numbered(Stream, Base, given)' /\ Stream' = Stream
  BY <1>1 DEF SendInv, Stream, Base, Numbered
<1>6. CallFits'
  BY <1>1 DEF CallFits
<1>7. NothingLost'
  <2>1. ASSUME ~broken
        PROVE  Len(Stream) = given
    <3>1. Len(Stream) = (given - call.total) + call.sent /\ given \in Nat
      BY <1>1, <1>2, <2>1 DEF SendInv, NothingLost, SendTypes
    <3> QED  BY <1>1, <1>2, <2>1, <3>1
  <2> QED  BY <1>1, <1>4, <1>5, <2>1 DEF NothingLost, Idle
<1> QED  BY <1>1, <1>2, <1>3, <1>4, <1>5, <1>6, <1>7 DEF SendInv

\* send_tcp: the message follows what the buffer holds.
LEMMA SendTcpKeeps ==
    ASSUME Late = FALSE, SendInv, NEW n \in Sizes, SendTcp(n)
    PROVE  SendInv'
<1>1. /\ call = Idle /\ open /\ given' = given + n
      /\ out' = Write(Rectify(out, n), conn * MaxBytes + given + 1, n)
      /\ out'.size <= MaxSize
      /\ call' = [sent |-> 0, total |-> out'.len]
      /\ UNCHANGED <<conn, open, broken, wire, got>>
  BY DEF SendTcp
<1>2. n \in Nat \ {0} /\ given \in Nat /\ Base \in Int
  BY SendingAssumption, BaseIs DEF SendInv, SendTypes
<1>3. PICK base \in Int : base = Base
  BY <1>2
<1>4. PICK b \in Buffers(Values) : b = out
  BY DEF SendInv, Last
<1>5. Shaped(b) /\ Holds(b, base + (given - b.len) + 1) /\ b.len \in Nat
  BY <1>3, <1>4 DEF SendInv, Last, Buffers
<1>6. PICK first \in Int : first = base + (given - b.len) + 1
  BY <1>2, <1>5
<1>7. PICK x : x = conn * MaxBytes + given + 1 /\ x = first + b.len
  <2>1. conn * MaxBytes + given + 1 = base + given + 1
    BY <1>3 DEF Base
  <2>2. base + given + 1 = first + b.len
    BY <1>2, <1>5, <1>6
  <2> QED  BY <2>1, <2>2
<1>8. PICK a, r : a = Rectify(b, n) /\ r = Write(a, x, n) /\ r = out'
  BY <1>1, <1>4, <1>7
<1>9. Record(b)
  BY DEF Buffers, Record
<1>10. Record(a) /\ a.size \in Nat
  BY <1>2, <1>8, <1>9, RectifyGrows DEF Record
<1>11. r.size >= a.size /\ r.size = Rectify(a, n + 1).size
  BY <1>2, <1>8, <1>10, WriteGrows
<1>12. n + 1 \in Nat /\ MaxSize \in Nat /\ r.size <= MaxSize
  BY <1>1, <1>2, <1>8, BufferAssumption
<1>13. r.size \in Nat
  BY <1>10, <1>11, <1>12, RectifyGrows DEF Record
<1>14. a.size <= MaxSize
  BY <1>10, <1>11, <1>12, <1>13
<1>15. a \in Buffers(Values) /\ Alike(a, b, first)
  BY <1>2, <1>5, <1>6, <1>8, <1>14, RectifyKeeps
<1>16. Shaped(a) /\ a.len = b.len /\ Holds(a, first) /\ x = first + a.len
  BY <1>7, <1>15 DEF Alike
<1>17. Int \subseteq Values
  BY DEF Values
<1>18. /\ r \in Buffers(Values) /\ Shaped(r) /\ Holds(r, first) /\ r.len = a.len + n
       /\ a.len = 0 => Flat(r)
  <2>1. r = Write(a, x, n) /\ r.size <= MaxSize
    BY <1>8, <1>12
  <2> QED  BY <1>2, <1>15, <1>16, <1>17, <2>1, WriteKeeps
<1>19. Last(r, base, given + n)
  <2>1. base + ((given + n) - r.len) + 1 = first
    BY <1>2, <1>5, <1>6, <1>16, <1>18
  <2> QED  BY <1>18, <2>1 DEF Last
<1>20. Base' = base
  BY <1>1, <1>3 DEF Base
<1>21. Last(out, Base, given)'
  <2>1. Last(out', Base', given')
    BY <1>1, <1>8, <1>19, <1>20
  <2> QED  BY <2>1 DEF Last, Holds, SlotOf, Top, Shaped, Flat, Hollow
<1>22. r.len \in Nat /\ r.len > 0
  BY <1>2, <1>5, <1>16, <1>18
<1>23. SendTypes'
  <2>1. given' \in Nat /\ call' = [sent |-> 0, total |-> r.len]
    BY <1>1, <1>2, <1>8
  <2>2. call' = [sent |-> call'.sent, total |-> call'.total]
        /\ call'.sent \in Nat /\ call'.total \in Nat
    BY <1>22, <2>1
  <2> QED  BY <1>1, <2>1, <2>2 DEF SendInv, SendTypes
<1>24. Stream' = Stream
  BY <1>1 DEF Stream
<1>25. Numbered(Stream, Base, given)'
  <2>1. PICK s : s = Stream /\ Numbered(s, base, given)
    BY <1>3 DEF SendInv
  <2>2. Len(s) \in Nat
    BY <2>1, LenProperties DEF Numbered
  <2>3. Numbered(s, base, given + n)
    BY <1>2, <2>1, <2>2 DEF Numbered
  <2>4. Stream' = s /\ given' = given + n
    BY <1>1, <1>24, <2>1
  <2> QED  BY <1>20, <2>3, <2>4 DEF Numbered
<1>26. CallFits'
  BY <1>1, <1>8, <1>22 DEF CallFits
<1>27. NothingLost'
  <2>1. ASSUME ~broken
        PROVE  Flat(r) /\ Len(Stream) = ((given + n) - r.len) + 0
    <3>1. b.len = 0 /\ Len(Stream) = given
      BY <1>1, <1>4, <2>1 DEF SendInv, NothingLost
    <3>2. r.len = n
      BY <1>2, <1>16, <1>18, <3>1
    <3> QED  BY <1>2, <1>16, <1>18, <3>1, <3>2
  <2>2. call' # Idle
    BY <1>1, <1>8, <1>22 DEF Idle
  <2>3. call'.sent = 0 /\ call'.total = r.len
    BY <1>1, <1>8
  <2>4. ASSUME ~broken
        PROVE  Flat(out)' /\ Len(Stream') = (given' - call'.total) + call'.sent
    <3>1. Flat(out')
      BY <1>8, <2>1, <2>4
    <3> QED  BY <1>1, <1>24, <2>1, <2>3, <2>4, <3>1 DEF Flat
  <2>5. call # Idle /\ ~broken => FALSE
    BY <1>1
  <2> QED  BY <1>1, <2>2, <2>4 DEF NothingLost, Idle
<1> QED  BY <1>1, <1>21, <1>23, <1>25, <1>26, <1>27 DEF SendInv

\* k of n bytes, after the first ones.
Piece(first, n, at, k) == SubSeq(Bytes(first, n), at + 1, at + k)

\* A piece of numbered bytes is numbered from its first one.
LEMMA BytesPiece ==
    ASSUME NEW first \in Int, NEW n \in Nat, NEW at \in Nat, NEW k \in Nat, at + k <= n
    PROVE  /\ Piece(first, n, at, k) \in Seq(Int) /\ Len(Piece(first, n, at, k)) = k
           /\ \A i \in 1..k : Piece(first, n, at, k)[i] = first + at + i - 1
<1> DEFINE p == Piece(first, n, at, k)
<1>1. PICK s \in Seq(Int) : s = Bytes(first, n) /\ Len(s) = n
                            /\ \A i \in 1..n : s[i] = first + i - 1
  BY BytesAre
<1>2. at + 1 \in 1..(n + 1) /\ at + k \in 0..n
  OBVIOUS
<1>3. PICK lo, hi \in Int : lo = at + 1 /\ hi = at + k
  OBVIOUS
<1>4. \A i \in lo..hi : s[i] \in Int
  BY <1>1, <1>3
<1>5. /\ p = SubSeq(s, lo, hi) /\ p \in Seq(Int)
      /\ Len(p) = k /\ \A i \in 1..k : p[i] = s[at + i]
  <2>1. p = SubSeq(s, lo, hi)
    BY <1>1, <1>3 DEF Piece
  <2>2. SubSeq(s, lo, hi) \in Seq(Int)
    BY <1>4, SubSeqProperties, Zenon
  <2>3. Len(SubSeq(s, lo, hi)) = IF lo <= hi THEN hi - lo + 1 ELSE 0
    BY <1>4, SubSeqProperties
  <2>4. (IF lo <= hi THEN hi - lo + 1 ELSE 0) = k
    BY <1>3
  <2>5. p \in Seq(Int) /\ Len(p) = k
    BY <2>1, <2>2, <2>3, <2>4, Zenon
  <2>6. \A i \in 1..hi - lo + 1 : SubSeq(s, lo, hi)[i] = s[lo + i - 1]
    BY <1>4, SubSeqProperties
  <2>7. \A i \in 1..k : i \in 1..(hi - lo + 1) /\ lo + i - 1 = at + i
    BY <1>3
  <2>8. \A i \in 1..k : p[i] = s[at + i]
    BY <2>1, <2>6, <2>7
  <2> QED  BY <2>1, <2>5, <2>8
<1>6. \A i \in 1..k : at + i \in 1..n /\ first + (at + i) - 1 = first + at + i - 1
  OBVIOUS
<1> QED  BY <1>1, <1>5, <1>6

\* The next bytes make a numbered stream longer.
LEMMA StreamGrows ==
    ASSUME NEW s, NEW base \in Int, NEW n \in Nat, Numbered(s, base, n),
           NEW k \in Nat, Len(s) + k <= n, NEW p \in Seq(Int), Len(p) = k,
           \A i \in 1..k : p[i] = base + Len(s) + i
    PROVE  Numbered(s \o p, base, n) /\ Len(s \o p) = Len(s) + k
<1>1. s \in Seq(Int) /\ Len(s) \in Nat /\ \A i \in 1..Len(s) : s[i] = base + i
  BY LenProperties DEF Numbered
<1>2. PICK m \in Nat : m = Len(s)
  BY <1>1
<1>3. PICK t \in Seq(Int) : t = s \o p /\ Len(t) = m + k
             /\ \A i \in 1..(m + k) : t[i] = IF i <= m THEN s[i] ELSE p[i - m]
  <2>1. PICK q \in Seq(Int) : q = s
    BY <1>1
  <2>2. /\ q \o p \in Seq(Int) /\ Len(q \o p) = Len(q) + Len(p)
        /\ \A i \in 1..Len(q) + Len(p) :
             (q \o p)[i] = IF i <= Len(q) THEN q[i] ELSE p[i - Len(q)]
    BY ConcatProperties
  <2>3. Len(q) = m /\ Len(p) = k
    BY <1>2, <2>1
  <2>4. PICK r \in Seq(Int) : r = q \o p
    BY <2>2
  <2>5. /\ Len(r) = m + k
        /\ \A i \in 1..(m + k) : r[i] = IF i <= m THEN q[i] ELSE p[i - m]
    BY <2>2, <2>3, <2>4, Zenon
  <2> QED  BY <2>1, <2>4, <2>5
<1>4. \A i \in 1..(m + k) : t[i] = base + i
  <2> TAKE i \in 1..(m + k)
  <2>1. CASE i <= m
    BY <1>1, <1>2, <1>3, <2>1
  <2>2. CASE ~(i <= m)
    <3>1. i - m \in 1..k /\ base + m + (i - m) = base + i
      BY <2>2
    <3> QED  BY <1>2, <1>3, <2>2, <3>1
  <2> QED  BY <2>1, <2>2
<1> QED  BY <1>2, <1>3, <1>4 DEF Numbered

\* send: the kernel takes the bytes that follow those it has.
LEMMA SendBytesKeeps ==
    ASSUME SendInv, NEW n \in Nat \ {0}, SendSome(n)
    PROVE  SendInv'
<1>1. /\ call.sent < call.total /\ ~broken /\ n <= call.total - call.sent
      /\ wire' = wire \o SubSeq(ToSend, call.sent + 1, call.sent + n)
      /\ call' = [call EXCEPT !.sent = @ + n]
      /\ UNCHANGED <<conn, open, broken, out, given, got>>
  BY DEF SendSome
<1>2. PICK at \in Nat, total \in Nat, g \in Nat, u \in Seq(Int), v \in Seq(Int) :
        /\ at = call.sent /\ total = call.total /\ call = [sent |-> at, total |-> total]
        /\ given = g /\ wire = u /\ got = v
  BY DEF SendInv, SendTypes
<1>3. call' = [sent |-> at + n, total |-> total] /\ at + n <= total
  BY SMTT(30), <1>1, <1>2
<1>4. call # Idle
  BY <1>1, <1>2 DEF Idle
<1>5. open /\ total = out.len /\ total > 0
  BY <1>2, <1>4 DEF SendInv, CallFits
<1>6. Flat(out) /\ Len(Stream) = (given - total) + at
  BY <1>1, <1>2, <1>4, <1>5 DEF SendInv, NothingLost
<1>7. PICK base \in Int : base = Base
  BY BaseIs DEF SendInv
<1>8. PICK first \in Int : first = base + (g - total) + 1
  OBVIOUS
<1>9. PICK b \in Buffers(Values) : b = out
  BY DEF SendInv, Last
<1>10. Shaped(b) /\ Flat(b) /\ b.len = total /\ Holds(b, first)
  BY <1>2, <1>5, <1>6, <1>7, <1>8, <1>9 DEF SendInv, Last
<1>11. Top(b) = total
  BY <1>10, ShapedMore
<1>12. View(b, b.read, total) = Bytes(first, total)
  <2>1. total \in 0..Top(b)
    BY <1>2, <1>11
  <2> QED  BY <1>10, <2>1, ViewIs
<1>13. ToSend = Bytes(first, total)
  BY <1>2, <1>9, <1>12 DEF ToSend
<1>14. PICK p : p = SubSeq(Bytes(first, total), at + 1, at + n)
  OBVIOUS
<1>15. p \in Seq(Int) /\ Len(p) = n /\ \A i \in 1..n : p[i] = first + at + i - 1
  <2>1. PICK k \in Nat : k = n /\ at + k <= total
    BY <1>3
  <2>2. p = Piece(first, total, at, k)
    BY <1>14, <2>1 DEF Piece
  <2>3. /\ Piece(first, total, at, k) \in Seq(Int) /\ Len(Piece(first, total, at, k)) = k
        /\ \A i \in 1..k : Piece(first, total, at, k)[i] = first + at + i - 1
    BY <2>1, BytesPiece
  <2>4. p \in Seq(Int) /\ Len(p) = k /\ \A i \in 1..k : p[i] = first + at + i - 1
    BY <2>2, <2>3
  <2> QED  BY <2>1, <2>4
<1>16. wire' = wire \o p
  BY <1>1, <1>2, <1>13, <1>14
<1>17. PICK s : s = Stream /\ Numbered(s, base, g) /\ Len(s) = (g - total) + at
  BY <1>2, <1>6, <1>7 DEF SendInv
<1>18. Stream' = s \o p
  <2>1. (v \o u) \o p = v \o (u \o p)
    BY SMTT(30), <1>15, ConcatAssociative
  <2> QED  BY <1>1, <1>2, <1>16, <1>17, <2>1 DEF Stream
<1>19. Len(s) + n <= g
  <2>1. n \in Nat
    OBVIOUS
  <2>2. (g - total) + at + n <= g
    BY <1>3, <2>1
  <2> QED  BY <1>17, <2>2
<1>20. \A i \in 1..n : p[i] = base + Len(s) + i
  <2>1. n \in Nat
    OBVIOUS
  <2>2. \A i \in 1..n : first + at + i - 1 = base + ((g - total) + at) + i
    BY <1>8, <2>1
  <2> QED  BY <1>15, <1>17, <2>2
<1>21. Numbered(s \o p, base, g) /\ Len(s \o p) = Len(s) + n
  <2>1. PICK k \in Nat : k = n
    OBVIOUS
  <2>2. Numbered(s, base, g) /\ Len(s) + k <= g /\ p \in Seq(Int) /\ Len(p) = k
        /\ \A i \in 1..k : p[i] = base + Len(s) + i
    BY <1>15, <1>17, <1>19, <1>20, <2>1
  <2> QED  BY <2>1, <2>2, StreamGrows
<1>22. SendTypes'
  <2>1. wire' \in Seq(Int)
    BY <1>2, <1>15, <1>16, ConcatProperties
  <2>2. at + n \in Nat
    BY <1>2
  <2> QED  BY <1>1, <1>2, <1>3, <2>1, <2>2 DEF SendInv, SendTypes
<1>23. Last(out, Base, given)'
  BY <1>1 DEF SendInv, Last, Base, Holds, SlotOf, Top, Shaped, Flat, Hollow
<1>24. Numbered(Stream, Base, given)'
  <2>1. Base' = base
    BY <1>1, <1>7 DEF Base
  <2> QED  BY <1>1, <1>2, <1>18, <1>21, <2>1 DEF Numbered
<1>25. call' # Idle /\ call'.sent = at + n /\ call'.total = total
  BY <1>3, <1>5 DEF Idle
<1>26. CallFits'
  BY <1>1, <1>3, <1>5, <1>25 DEF CallFits
<1>27. NothingLost'
  <2>1. n \in Nat
    OBVIOUS
  <2>2. ((g - total) + at) + n = (g - total) + (at + n)
    BY <2>1
  <2>3. Len(Stream') = (given' - total) + (at + n)
    BY <1>1, <1>2, <1>17, <1>18, <1>21, <2>2
  <2>4. Flat(out)'
    BY <1>1, <1>6 DEF Flat
  <2> QED  BY <1>1, <1>25, <2>3, <2>4 DEF NothingLost, Idle
<1> QED  BY <1>1, <1>5, <1>22, <1>23, <1>24, <1>26, <1>27 DEF SendInv

\* Every step keeps the invariant, if no message is sent to a closed client.
LEMMA SendNext ==
    ASSUME Late = FALSE, SendInv, [SendingNext]_sendingVars
    PROVE  SendInv'
<1>1. CASE Accept
  BY <1>1, AcceptKeeps
<1>2. CASE CloseSocket
  BY <1>2, CloseSocketKeeps
<1>3. CASE PeerReads
  BY <1>3, PeerReadsKeeps
<1>4. CASE PeerResets
  BY <1>4, PeerResetsKeeps
<1>5. CASE \E n \in Sizes : SendTcp(n)
  BY <1>5, SendTcpKeeps
<1>6. CASE \E n \in 1..KernelRoom : SendSome(n)
  <2>1. PICK n \in 1..KernelRoom : SendSome(n)
    BY <1>6
  <2>2. n \in Nat \ {0}
    BY SendingAssumption
  <2> QED  BY <2>1, <2>2, SendBytesKeeps
<1>7. CASE SendReturn
  BY <1>7, SendReturnKeeps
<1>8. CASE UNCHANGED sendingVars
  <2>1. UNCHANGED <<conn, open, broken, out, given, call, wire, got>>
    BY <1>8 DEF sendingVars
  <2>2. SendTypes' /\ CallFits' /\ Last(out, Base, given)'
    BY <2>1 DEF SendInv, SendTypes, CallFits, Idle, Last, Base, Holds, SlotOf, Top,
                Shaped, Flat, Hollow
  <2>3. Numbered(Stream, Base, given)' /\ NothingLost'
    BY <2>1 DEF SendInv, Numbered, Base, Stream, NothingLost, Flat, Idle
  <2> QED  BY <2>1, <2>2, <2>3 DEF SendInv
<1> QED
  BY <1>1, <1>2, <1>3, <1>4, <1>5, <1>6, <1>7, <1>8 DEF SendingNext, Thread

\* The invariant implies what the runs check.
LEMMA SendExact == ASSUME SendInv PROVE StreamExact /\ HandedOver
<1>1. PICK s : s = Stream /\ s \in Seq(Int) /\ Len(s) <= given
               /\ \A i \in 1..Len(s) : s[i] = Base + i
  BY DEF SendInv, Numbered
<1>2. DOMAIN s = 1..Len(s)
  BY <1>1, LenProperties
<1>3. StreamExact
  BY <1>1, <1>2 DEF StreamExact, Base
<1>4. HandedOver
  BY DEF SendInv, NothingLost, HandedOver
<1> QED  BY <1>3, <1>4

\* The stream that reaches the peer is what the program gave to send_tcp for
\* this connection (server.c:167-189, epollet.c:387-425): the kernel may take the
\* message in any pieces, the buffer may grow or have grown for an earlier
\* connection, and neither repeats, skips nor reorders a byte, as long as the
\* program does not send to a client that is closed (Late).
THEOREM StreamIsExact ==
    ASSUME Late = FALSE PROVE SendingSpec => []StreamExact
<1>1. SendingInit => SendInv
  BY SendInit
<1>2. SendInv /\ [SendingNext]_sendingVars => SendInv'
  BY SendNext
<1>3. SendInv => StreamExact
  BY SendExact
<1> QED  BY <1>1, <1>2, <1>3, PTL DEF SendingSpec

\* A send_tcp that has returned on an intact connection has handed over all that
\* it was given and left the buffer empty: nothing waits for a write event.
THEOREM SendHandsOver ==
    ASSUME Late = FALSE PROVE SendingSpec => []HandedOver
<1>1. SendingInit => SendInv
  BY SendInit
<1>2. SendInv /\ [SendingNext]_sendingVars => SendInv'
  BY SendNext
<1>3. SendInv => HandedOver
  BY SendExact
<1> QED  BY <1>1, <1>2, <1>3, PTL DEF SendingSpec

================================================================================
