--------------------------------- MODULE Framing ---------------------------------
(***************************************************************************)
(* One connection: bytes from the peer, the reader (read_data and tcp_read *)
(* of src/epollet/epollet.c with the guide of src/proto/proto.c), and the  *)
(* parser (deal_tcp_msg of src/proto/proto.c as issue_tcp_msg calls it),   *)
(* which agree on where messages begin only through the client's fields    *)
(* and its buffer.                                                         *)
(*                                                                         *)
(* A byte is its number in the stream, so that a cell tells which byte of  *)
(* which message it holds.  One action is one turn of a loop.  Reader and  *)
(* parser are coroutines of one thread; the peer is not.                   *)
(***************************************************************************)
EXTENDS Buffer

CONSTANTS
    HeadSize,      \* sizeof(cmd_head_t)
    DataSizes,     \* sizes of the data of the messages that the peer sends
    MaxData,       \* MAX_CMDDATA_LEN
    Kernels,       \* the values of "it is a kernel message" considered
    Mixed,         \* whether kernel messages are sent while others are on the way
    Window,        \* bound: messages sent and not yet dealt with
    MaxMessages,   \* bound: messages sent in all
    Splits,        \* whether the data of later messages than the first may arrive in parts
    Heard,         \* whether the low half of the client's address exceeds g_epoll_fd
    Returns        \* what the guide may return on success

ASSUME FramingAssumption ==
    /\ HeadSize \in Nat \ {0} /\ DataSizes \subseteq Nat /\ MaxData \in Nat
    /\ Kernels \subseteq BOOLEAN /\ Splits \in BOOLEAN /\ Mixed \in BOOLEAN
    /\ Heard \in BOOLEAN
    /\ Window \in Nat /\ MaxMessages \in Nat
    /\ Returns \subseteq {"zero", "negative"}

\* The sizes of the data that the guide lets through.
Accepted == {size \in DataSizes : size <= MaxData}

\* Every size of data, and every size that the buffer can grow to, is a multiple
\* of the head's.
Multiple(n) == \E k \in 0..n : n = k * HeadSize

Aligned ==
    \E capacities \in SUBSET (1..MaxSize) :
        /\ FirstSize \in capacities
        /\ \A size \in capacities, need \in {HeadSize} \cup (Accepted \ {0}) :
               Grown(size, need) <= MaxSize => Grown(size, need) \in capacities
        /\ \A n \in capacities \cup Accepted : Multiple(n)

VARIABLES
    sent,     \* the messages the peer sent
    arrived,  \* bytes that reached this host
    taken,    \* bytes that recv returned
    event,    \* whether epoll has an event of the connection to report
    in,       \* cli->in
    cli,      \* need, read, status, is_ok, is_ready
    pc,       \* "poll", or "read", "deal" in a loop, or "closed"
    dealt,    \* messages that deal_tcp_msg took out
    misread   \* history: what was first taken for something that it is not

vars == <<sent, arrived, taken, event, in, cli, pc, dealt, misread>>

\* A message, by the number of its first byte.
Message == [start : Nat, size : DataSizes, kernel : Kernels]

Init ==
    /\ sent = <<>> /\ arrived = 0 /\ taken = 0 /\ event = FALSE
    /\ in = EmptyBuffer
    /\ cli = [need |-> HeadSize, read |-> 0, status |-> "head",
              is_ok |-> FALSE, is_ready |-> FALSE]
    /\ pc = "poll"
    /\ dealt = 0
    /\ misread = "nothing"

-----------------------------------------------------------------------------
(* The stream.                                                              *)

End(m)  == m.start + HeadSize + m.size - 1
Total   == IF sent = <<>> THEN 0 ELSE End(sent[Len(sent)])
Out     == IF dealt = 0 THEN 0 ELSE End(sent[dealt])
Bytes(from, n) == [i \in 1..n |-> from + i - 1]

\* The messages whose head a pointer to slot at sees: one, or none.
HeadsAt(b, at) ==
    LET seen == View(b, at, HeadSize)
    IN  {m \in 1..Len(sent) : seen[1] = sent[m].start /\ seen = Bytes(sent[m].start, HeadSize)}

-----------------------------------------------------------------------------
(* The peer and the network.                                                *)

Send(size, kernel) ==
    /\ pc # "closed"
    /\ Len(sent) < MaxMessages /\ Len(sent) - dealt < Window
    /\ Len(sent) > dealt => Mixed \/ ~(kernel \/ sent[Len(sent)].kernel)
    /\ sent' = Append(sent, [start |-> Total + 1, size |-> size, kernel |-> kernel])
    /\ UNCHANGED <<arrived, taken, event, in, cli, pc, dealt, misread>>

\* Whether the first n bytes end within the data of a message.
EndsInData(n) ==
    \E m \in 1..Len(sent) : n >= sent[m].start + HeadSize - 1 /\ n < End(sent[m])

Deliver ==
    /\ pc # "closed"
    /\ \E n \in (arrived + 1)..Total :
         /\ EndsInData(n) => Splits \/ n < End(sent[1])
         /\ arrived' = n
    /\ event' = TRUE
    /\ UNCHANGED <<sent, taken, in, cli, pc, dealt, misread>>

-----------------------------------------------------------------------------
(* The reader.                                                              *)

\* epollet_run compares the low half of the client's address, as a signed number,
\* with a descriptor, and passes over the events of clients that fail.
ReadEvent ==
    /\ pc = "poll" /\ event
    /\ pc' = IF Heard THEN "read" ELSE "poll"
    /\ event' = FALSE
    /\ UNCHANGED <<sent, arrived, taken, in, cli, dealt, misread>>

Misread(what) ==
    /\ misread' = what /\ pc' = "closed"
    /\ UNCHANGED <<sent, arrived, taken, event, in, cli, dealt>>

Close ==
    /\ pc' = "closed"
    /\ UNCHANGED <<sent, arrived, taken, event, in, cli, dealt, misread>>

\* Mutant of Room: room is made at each read and not when a piece begins.
RoomAlways == Rectify(in, cli.need)

\* read_data makes room when a new piece begins.
Room == IF cli.read = 0 THEN Rectify(in, cli.need) ELSE in

\* Otherwise there is no memory: realloc fails, and read_data closes the
\* connection.
Fits(room) == room.size <= MaxSize

Wanted == cli.need - cli.read
Got == IF arrived - taken < Wanted THEN arrived - taken ELSE Wanted

\* What recv is trusted with: to want something, and to have room for it.
Sane(room) == Wanted > 0 /\ room.write + Got <= room.size

\* The buffer once recv has returned Got bytes.
Filled(room) == SeekWrite(Received(room, taken + 1, Got), Got)

\* Mutant of NextPiece: a message without data does not count.
NextPieceNotOk(size) ==
    CASE cli.status = "head" /\ size > 0 ->
           [cli EXCEPT !.status = "data", !.need = size, !.read = 0]
      [] cli.status = "head" /\ size = 0 -> [cli EXCEPT !.read = 0]
      [] OTHER ->
           [cli EXCEPT !.status = "head", !.need = HeadSize, !.is_ok = TRUE, !.read = 0]

\* What tcp_guide makes of the client when a piece is complete.
NextPiece(size) ==
    CASE cli.status = "head" /\ size > 0 ->
           [cli EXCEPT !.status = "data", !.need = size, !.read = 0]
      [] cli.status = "head" /\ size = 0 ->
           [cli EXCEPT !.is_ok = TRUE, !.read = 0]
      [] OTHER ->
           [cli EXCEPT !.status = "head", !.need = HeadSize, !.is_ok = TRUE, !.read = 0]

\* A turn of tcp_read's loop that does not complete a piece, and is the last: a
\* client that has a message becomes ready.
ReadPart(room) ==
    /\ in' = Filled(room)
    /\ cli' = [cli EXCEPT !.read = @ + Got, !.is_ready = cli.is_ok \/ @]
    /\ taken' = taken + Got
    /\ pc' = "poll"
    /\ UNCHANGED <<sent, arrived, event, dealt, misread>>

\* A turn that completes a piece.  In the head state the guide looks for the
\* head that was just read at seek, and closes if it announces too much.  On
\* success its return value is undefined (proto.c:69-73): a negative one makes
\* tcp_read close the connection.
ReadPiece(room) ==
    LET filled == Filled(room)
        heads  == {m \in HeadsAt(filled, filled.seek) :
                     sent[m].start + HeadSize = taken + Got + 1}
        size   == IF cli.status = "head" THEN sent[CHOOSE m \in heads : TRUE].size ELSE 0
    IN  CASE cli.status = "head" /\ heads = {} -> Misread("head")
          [] cli.status = "head" /\ heads # {} /\ size > MaxData -> Close
          [] OTHER ->
             \E result \in Returns :
               /\ in' = [filled EXCEPT !.seek = filled.write]
               /\ cli' = NextPiece(size)
               /\ taken' = taken + Got
               /\ pc' = IF result = "negative" THEN "closed" ELSE "read"
               /\ UNCHANGED <<sent, arrived, event, dealt, misread>>

ReadTurn ==
    /\ pc = "read"
    /\ LET room == Room IN
       CASE ~Fits(room)                                 -> Close
         [] Fits(room) /\ ~Sane(room)                   -> Misread("need")
         [] Fits(room) /\ Sane(room) /\ Got < Wanted   -> ReadPart(room)
         [] OTHER                                       -> ReadPiece(room)

-----------------------------------------------------------------------------
(* The parser.                                                              *)

Dispatch ==
    /\ pc = "poll" /\ cli.is_ready
    /\ pc' = "deal"
    /\ UNCHANGED <<sent, arrived, taken, event, in, cli, dealt, misread>>

\* issue_tcp_msg once the handler returned: a client that has more than it
\* needs stays in the ready list.
Returned(c, b) == [c EXCEPT !.is_ready = b.len > c.need]

\* verify says no to less than a head.
DealNoHead ==
    /\ pc = "deal" /\ in.len < HeadSize
    /\ LET c == [cli EXCEPT !.need = IF in.len <= 0 THEN HeadSize ELSE @]
       IN  cli' = Returned(c, in)
    /\ pc' = "poll"
    /\ UNCHANGED <<sent, arrived, taken, event, in, dealt, misread>>

\* verify says no to a message that is not complete, and sets need.
DealPart(m) ==
    /\ cli' = Returned([cli EXCEPT !.need = HeadSize + sent[m].size], in)
    /\ pc' = "poll"
    /\ UNCHANGED <<sent, arrived, taken, event, in, dealt, misread>>

\* One message, of which the handler sees size bytes from the read index on.  A
\* kernel message ends the loop at once.
DealMessage(m) ==
    LET data   == SeekRead(in, HeadSize)
        rest   == SeekRead(data, sent[m].size)
        intact == View(data, data.read, sent[m].size)
                    = Bytes(sent[m].start + HeadSize, sent[m].size)
    IN  IF m = dealt + 1 /\ intact
        THEN /\ in' = rest
             /\ dealt' = m
             /\ pc' = IF sent[m].kernel THEN "poll" ELSE "deal"
             /\ cli' = IF sent[m].kernel THEN Returned(cli, rest) ELSE cli
             /\ UNCHANGED <<sent, arrived, taken, event, misread>>
        ELSE Misread("message")

\* A turn of deal_tcp_msg with at least a head in the buffer.
Deal ==
    /\ pc = "deal" /\ in.len >= HeadSize
    /\ LET heads == HeadsAt(in, in.read) IN
       IF heads = {} THEN Misread("message")
       ELSE \E m \in heads :
              CASE sent[m].size > MaxData -> Close
                [] sent[m].size <= MaxData /\ HeadSize + sent[m].size > in.len -> DealPart(m)
                [] OTHER -> DealMessage(m)

-----------------------------------------------------------------------------
Reader == ReadEvent \/ ReadTurn
Parser == Dispatch \/ DealNoHead \/ Deal
Peer   == Deliver \/ \E size \in DataSizes, kernel \in Kernels : Send(size, kernel)

Next == Reader \/ Parser \/ Peer

Spec == Init /\ [][Next]_vars

\* Reader or parser takes a turn of its loop: nothing but the peer sends or
\* delivers.
Turn == pc \in {"read", "deal"} /\ UNCHANGED <<sent, arrived>>

\* Weak fairness of a turn, with its ENABLED, pc \in {"read", "deal"}, written out.
TurnsGoOn == []<>(pc \notin {"read", "deal"}) \/ []<><<Turn>>_vars

\* The network delivers, the coroutines take turns, and a loop goes on until it
\* ends: its thread does not block.
FairSpec == Spec /\ WF_vars(Deliver) /\ SF_vars(ReadEvent) /\ SF_vars(Dispatch)
                 /\ TurnsGoOn

-----------------------------------------------------------------------------
\* Types of the variables; the write index is inside the buffer (write_ptr in
\* epollet.c:374), and what is counted fits into it.
TypeOK ==
    /\ sent \in Seq(Message)
    /\ arrived \in 0..Total /\ taken \in 0..arrived /\ dealt \in 0..Len(sent)
    /\ event \in BOOLEAN
    /\ in \in [read : 0..MaxSize, write : 0..MaxSize, seek : 0..MaxSize,
              len : 0..MaxSize, gap : 0..MaxSize, size : 1..MaxSize,
              end : 0..MaxSize, cell : [Cell -> 1..Total \cup {Junk}]]
    /\ in.write < in.size /\ in.len + in.gap <= in.size
    /\ cli \in [need : Nat, read : Nat, status : {"head", "data"},
               is_ok : BOOLEAN, is_ready : BOOLEAN]
    /\ pc \in {"poll", "read", "deal", "closed"}
    /\ misread \in {"nothing", "head", "need", "message"}

\* Through wraps, gaps and growth the buffer holds exactly the bytes that were
\* received and not yet read, in their order (buffer.h:8-12).
ContentsFaithful ==
    pc # "closed" => /\ in.len = taken - Out
                     /\ Contents(in) = Bytes(Out + 1, taken - Out)

\* The guide finds a head where it looks for one, and what is read next fits
\* (seek_ptr in proto.c:39; buffer.h:84 puts seek between read and write).
ReaderInStep == misread \notin {"head", "need"}

\* The handler gets the messages that were sent, each once, in order, and its
\* data in one piece (proto.c:133-161).
MessagesExact == misread # "message"

\* Every message that was sent is dealt with, unless the connection is closed
\* (proto.c:132).
AllDealt == \A n \in 1..MaxMessages : Len(sent) >= n ~> (dealt >= n \/ pc = "closed")

================================================================================
