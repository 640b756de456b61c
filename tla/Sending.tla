--------------------------------- MODULE Sending ---------------------------------
(***************************************************************************)
(* The sending half of a client: send_tcp (src/src/server.c) writes a      *)
(* message to the output buffer (src/common/buffer.c) and calls            *)
(* circle_send (src/epollet/epollet.c), which does not leave its loop      *)
(* before the kernel has taken everything or the connection has failed.    *)
(* One client structure serves one connection after another.               *)
(*                                                                         *)
(* A byte is its number: those given to send_tcp for connection c are      *)
(* numbered from c * MaxBytes + 1.  While send_tcp runs no other coroutine *)
(* does; the kernel and the peer go on.                                    *)
(***************************************************************************)
EXTENDS Buffer

CONSTANTS
    Sizes,       \* sizes of the messages that are sent
    KernelRoom,  \* bytes the kernel holds that the peer has not read
    Late,        \* whether the program sends to clients that are closed
    MaxConns,    \* bound: connections that the structure serves
    MaxBytes     \* bound: bytes given to send_tcp for one connection

ASSUME SendingAssumption ==
    /\ Sizes \subseteq Nat \ {0} /\ Late \in BOOLEAN
    /\ KernelRoom \in Nat \ {0} /\ MaxConns \in Nat /\ MaxBytes \in Nat

VARIABLES
    conn,    \* the connection that the structure serves, or served last
    open,    \* cli->fd is valid
    broken,  \* the connection was reset: send fails
    out,     \* cli->out
    given,   \* bytes given to send_tcp for this connection
    call,    \* the loop of circle_send: what it sent, of how much
    wire,    \* bytes in the kernel
    got      \* bytes that the peer has read

sendingVars == <<conn, open, broken, out, given, call, wire, got>>

\* No call is in progress.
Idle == [sent |-> 0, total |-> 0]

SendingInit ==
    /\ conn = 0 /\ open = FALSE /\ broken = FALSE
    /\ out = EmptyBuffer
    /\ given = 0 /\ call = Idle
    /\ wire = <<>> /\ got = <<>>

-----------------------------------------------------------------------------
(* The connection.                                                           *)

\* tcp_accept gives the structure to a connection; the buffers stay as they are.
Accept ==
    /\ ~open /\ conn < MaxConns
    /\ conn' = conn + 1 /\ open' = TRUE /\ broken' = FALSE
    /\ given' = 0 /\ wire' = <<>> /\ got' = <<>>
    /\ UNCHANGED <<out, call>>

\* close_socket and client_reset, called by another coroutine.  SO_LINGER with a
\* time of 0 (create_tcp_socket) discards what the kernel still holds.
CloseSocket ==
    /\ open /\ call = Idle
    /\ open' = FALSE
    /\ out' = Reset(out)
    /\ wire' = <<>>
    /\ UNCHANGED <<conn, broken, given, call, got>>

PeerReads ==
    /\ wire # <<>>
    /\ got' = Append(got, Head(wire)) /\ wire' = Tail(wire)
    /\ UNCHANGED <<conn, open, broken, out, given, call>>

PeerResets ==
    /\ open /\ ~broken
    /\ broken' = TRUE /\ wire' = <<>>
    /\ UNCHANGED <<conn, open, out, given, call, got>>

-----------------------------------------------------------------------------
(* send_tcp.                                                                 *)

\* The message is in the buffer; circle_send refuses a client without a socket.
SendTcp(n) ==
    /\ call = Idle /\ conn > 0 /\ (open \/ Late)
    /\ given + n <= MaxBytes
    /\ given' = given + n
    /\ out' = Write(Rectify(out, n), conn * MaxBytes + given + 1, n)
    /\ out'.size <= MaxSize
    /\ call' = IF open THEN [sent |-> 0, total |-> out'.len] ELSE Idle
    /\ UNCHANGED <<conn, open, broken, wire, got>>

\* What circle_send was told to send: as many bytes from the read pointer on.
ToSend == View(out, out.read, call.total)

\* What the kernel takes at once of a send of circle_send.  Accepted sockets are
\* blocking (only the listening one is not, epollet.c:47), so that send waits, and
\* the thread with it, until the kernel has room for the rest; a signal ends the
\* call and the loop makes the next one.
SendSome(n) ==
    /\ call.sent < call.total /\ ~broken
    /\ n <= call.total - call.sent /\ n <= KernelRoom - Len(wire)
    /\ wire' = wire \o SubSeq(ToSend, call.sent + 1, call.sent + n)
    /\ call' = [call EXCEPT !.sent = @ + n]
    /\ UNCHANGED <<conn, open, broken, out, given, got>>

\* Mutant of Emptied: the buffer keeps what was sent.
EmptiedNot == out

\* send_tcp empties the buffer if anything was sent.
Emptied == IF call.sent > 0 THEN Reset(out) ELSE out

\* Mutant of SendReturn: the loop is left only when everything was taken.
SendReturnAll ==
    /\ call # Idle
    /\ call.sent = call.total
    /\ out' = Emptied
    /\ call' = Idle
    /\ UNCHANGED <<conn, open, broken, given, wire, got>>

\* circle_send returns: everything was taken, or send failed.
SendReturn ==
    /\ call # Idle
    /\ call.sent = call.total \/ broken
    /\ out' = Emptied
    /\ call' = Idle
    /\ UNCHANGED <<conn, open, broken, given, wire, got>>

-----------------------------------------------------------------------------
Thread == (\E n \in 1..KernelRoom : SendSome(n)) \/ SendReturn

SendingNext ==
    \/ Accept \/ CloseSocket \/ PeerReads \/ PeerResets
    \/ \E n \in Sizes : SendTcp(n)
    \/ Thread

SendingSpec == SendingInit /\ [][SendingNext]_sendingVars

\* The kernel takes what it has room for, and the loop goes on.
ThreadFairSpec == SendingSpec /\ WF_sendingVars(Thread)

\* The peer reads what arrives as well.
SendingFairSpec == ThreadFairSpec /\ WF_sendingVars(PeerReads)

-----------------------------------------------------------------------------
\* Bytes that reached the kernel: read by the peer, or waiting.
Stream == got \o wire

\* What reaches the peer is a prefix of what was given to send_tcp for this
\* connection, in order, nothing twice and nothing of another connection,
\* whatever the kernel takes at a time and wherever the buffer has grown.
StreamExact ==
    /\ \A i \in DOMAIN Stream : Stream[i] = conn * MaxBytes + i
    /\ Len(Stream) <= given

\* A send_tcp that has returned on a connection that is intact has handed over
\* everything: nothing is left in the buffer for the write event to send.
HandedOver == call = Idle /\ open /\ ~broken => out.len = 0 /\ Len(Stream) = given

\* send_tcp returns (server.c:177: what cannot be sent at once is left to the
\* write event).
SendReturns == call # Idle ~> call = Idle

==================================================================================
