--------------------------------- MODULE Server ---------------------------------
(***************************************************************************)
(* The event loop of the server: the coroutines that share its thread, the *)
(* connections they hand to each other, and the three lists a connection   *)
(* can be in, which share its one pair of links.                           *)
(*                                                                         *)
(*   issue   src/src/server.c    hands ready connections to the program    *)
(*   epoll   src/epollet/epollet.c    accepts, reads, closes               *)
(*   timer   src/src/alive.c     closes idle connections (keep_alive only) *)
(*                                                                         *)
(* A coroutine runs until it yields, so one action is one iteration of a   *)
(* loop of one coroutine.  The operators on a world                        *)
(*   w = [heart, mem, lists, cli, reg, open, stored]                       *)
(* are the functions the coroutines call: a close may be called twice in   *)
(* one step and must be able to see what the first call left.              *)
(***************************************************************************)
EXTENDS IntrusiveList, FiniteSets

CONSTANTS
    MaxClients,  \* bound: client structures malloc can provide
    Fd,          \* descriptors that accept can return: numbers, lowest first
    Port,        \* listening sockets
    Regimes,     \* the sets of ports that keep_alive may be called for
    Interval,    \* ALIVE_INTERVAL
    ReadResults, \* how read_data can end: "drained", "closed", "garbage"
                 \* (of connections that are not, and that are, kept alive)
    Completes,   \* likewise, the values of "a read completes a message"
    Hangups,     \* the values of "the peer may hang up"
    Kicks,       \* the values of "the handler calls close_socket"
    Leftovers    \* the values of "the handler leaves more bytes than needed"

Client == 0..(MaxClients - 1)

ASSUME ServerAssumption ==
    /\ MaxClients \in Nat \ {0}
    /\ Item = Client /\ ListName = {"free", "ready", "alive"}
    /\ Fd \subseteq Nat \ {0} /\ IsFiniteSet(Fd) /\ NULL \notin Fd
    /\ Regimes \subseteq SUBSET Port /\ NULL \notin Port
    /\ Port \cap {"issue", "visit", "epoll", "dispatch", "timer", "check"} = {}
    /\ Interval \in Nat \ {0}
    /\ ReadResults \in [BOOLEAN -> SUBSET {"drained", "closed", "garbage"}]
    /\ Completes \in [BOOLEAN -> SUBSET BOOLEAN]
    /\ Hangups \subseteq BOOLEAN
    /\ Kicks \subseteq BOOLEAN /\ Leftovers \subseteq BOOLEAN

\* The promises are made for ports that are all short or all kept alive; short
\* connections are not closed by read_data, by the guide or by a handler, and no
\* handler leaves bytes; no message is completed on a connection kept alive.
Separate ==
    /\ Regimes \subseteq {{}, Port}
    /\ "closed" \notin ReadResults[FALSE]
    /\ TRUE \notin Completes[TRUE]
    /\ TRUE \notin Kicks /\ TRUE \notin Leftovers

VARIABLES
    world,  \* connections, lists and descriptors
    pc,     \* the coroutine that runs, and where it is in its loop; a port: in
            \* the loop of tcp_accept on it
    cursor, \* the iteration of issue_tcp_msg or check_alive: index, item
    batch,  \* events epoll_wait returned and epollet_run has not reached
    due     \* seconds until the timer of keep_alive fires

vars == <<world, pc, cursor, batch, due>>

\* INVALID_SOCKET, and no registration.
NoFd == NULL
\* An alive_time older than any limit: a fresh structure has alive_time 0.
Stale == Interval + 1

\* client_init.  age is now - alive_time; need whether cli->need is not zero.
\* History: told, the last callback the program got for this client ("twice"
\* when it was the same as the one before).
FreshClient == [fd |-> NoFd, parent |-> NULL, need |-> FALSE, is_ok |-> FALSE,
                is_ready |-> FALSE, is_safe |-> FALSE, age |-> Stale,
                told |-> "none"]

Init ==
    /\ \E heart \in Regimes :
       world = [heart |-> heart, mem |-> EmptyMemory, lists |-> [l \in ListName |-> <<>>],
                cli |-> [c \in Client |-> FreshClient],
                reg |-> [f \in Fd |-> NULL], open |-> {}, stored |-> 0]
    /\ pc = "issue"
    /\ cursor = [left |-> 0, item |-> NULL]
    /\ batch = {}
    /\ due = Interval

-----------------------------------------------------------------------------
(* Lists.  world.lists is what the code believes its lists to be.           *)

Link(w, l, c) == [w EXCEPT !.mem = PushBack(@, l, c),
                           !.lists[l] = Append(@, c)]

Unlink(w, l, c) == [w EXCEPT !.mem = Erase(@, l, c),
                             !.lists[l] = RemoveFirst(@, c)]

In(w, l, c) == c \in ToSet(w.lists[l])

-----------------------------------------------------------------------------
(* src/epollet/client.c                                                     *)

\* client_reset leaves is_ok, read, parent and alive_time as they were.
Reset(w, c) ==
    [w EXCEPT !.cli[c].fd = NoFd, !.cli[c].need = FALSE,
              !.cli[c].is_ready = FALSE, !.cli[c].is_safe = FALSE]

recycle_client(w, c) == Link(Reset(w, c), "free", c)

\* extract_client finds a recycled structure or can allocate one more.
CanExtract(w) == w.mem.size["free"] > 0 \/ w.stored < MaxClients

\* Mutant of extract_client: a recycled structure is stored a second time.
extract_clientStored(w) ==
    IF w.mem.size["free"] > 0
    THEN [client |-> w.mem.head["free"],
          world |-> [Unlink(w, "free", w.mem.head["free"]) EXCEPT !.stored = @ + 1]]
    ELSE [client |-> w.stored, world |-> [w EXCEPT !.stored = @ + 1]]

extract_client(w) ==
    IF w.mem.size["free"] > 0
    THEN [client |-> w.mem.head["free"], world |-> Unlink(w, "free", w.mem.head["free"])]
    ELSE [client |-> w.stored, world |-> [w EXCEPT !.stored = @ + 1]]

-----------------------------------------------------------------------------
(* Calls into the program.                                                  *)

Told(before, now) ==
    IF (now = "shut") = (before = "link") THEN now ELSE "twice"

CallShut(w, c) == [w EXCEPT !.cli[c].told = Told(@, "shut")]

CallLink(w, c) == [w EXCEPT !.cli[c].told = Told(@, "link")]

-----------------------------------------------------------------------------
(* close_socket                                                             *)

\* Mutant of CloseFd: the structure is marked, the socket stays.
CloseFdForgotten(w, c) == [w EXCEPT !.cli[c].fd = NoFd]

\* The descriptor of c leaves epoll and is closed, unless it is invalid.
CloseFd(w, c) ==
    LET f == w.cli[c].fd IN
    IF f = NoFd THEN w
    ELSE [w EXCEPT !.reg[f] = NULL, !.open = @ \ {f}, !.cli[c].fd = NoFd]

\* tfd->heart of the port a client came from.
Heart(w, c) == w.cli[c].parent \in w.heart

\* Mutant of close_socket: a short connection is not recycled.
close_socketLeak(w, c) == CallShut(CloseFd(w, c), c)

close_socket(w, c) ==
    LET closed == CloseFd(w, c)
    IN  CallShut(IF Heart(w, c) THEN closed ELSE recycle_client(closed, c), c)

-----------------------------------------------------------------------------
\* Where the thread is; a process that crashed is nowhere.
At(p) == pc = p /\ ~world.mem.fault

-----------------------------------------------------------------------------
(* The coroutine epollet_run.                                               *)

\* The events of the listening sockets, which are no client's.
Listening == [port : Port]

\* Any registered sockets may have an event; it carries the pointer that was
\* registered with the socket.
EpollWait ==
    /\ At("epoll")
    /\ \E fds \in SUBSET {f \in Fd : world.reg[f] # NULL}, linking \in SUBSET Listening :
          batch' = {[fd |-> f, client |-> world.reg[f]] : f \in fds} \cup linking
    /\ pc' = "dispatch"
    /\ UNCHANGED <<world, cursor, due>>

AcceptBegin(e) ==
    /\ At("dispatch") /\ e \in batch
    /\ batch' = batch \ {e}
    /\ pc' = e.port
    /\ UNCHANGED <<world, cursor, due>>

\* Mutant of Watch: the connection is not added.
WatchNone(w, c) == w

\* add_alive, for a port with keep_alive.
Watch(w, c) == IF Heart(w, c) THEN Link(w, "alive", c) ELSE w

\* One turn of the loop of tcp_accept.  accept gives the lowest closed number.
\* registered: epoll_ctl succeeded; otherwise the client keeps its descriptor.
tcp_accept(f, registered) ==
    /\ \E p \in Port : At(p)
    /\ f \notin world.open
    /\ \A g \in Fd \ world.open : f <= g
    /\ LET w == [world EXCEPT !.open = @ \cup {f}] IN
       IF ~CanExtract(w)
       THEN ~registered /\ world' = w
       ELSE LET got == extract_client(w)
                c   == got.client
                x   == [got.world EXCEPT !.cli[c].fd = f, !.cli[c].parent = pc]
                y   == Watch([x EXCEPT !.reg[f] = c], c)
            IN  world' = IF registered THEN CallLink([y EXCEPT !.cli[c].need = TRUE], c)
                                       ELSE x
    /\ UNCHANGED <<pc, cursor, batch, due>>

AcceptEnd ==
    /\ \E p \in Port : At(p)
    /\ pc' = "dispatch"
    /\ UNCHANGED <<world, cursor, batch, due>>

\* The tail of tcp_read: a client whose message is complete becomes ready.
Enlist(w, c) ==
    IF w.cli[c].is_ok /\ ~w.cli[c].is_ready
    THEN [Link(w, "ready", c) EXCEPT !.cli[c].is_ready = TRUE]
    ELSE w

\* tcp_read when read_data failed: the client is closed here, whether or not
\* read_data or the guide has closed it already; is_ready is not cleared.
Reject(w, c) ==
    close_socket(IF w.cli[c].is_ready THEN Unlink(w, "ready", c) ELSE w, c)

\* What reading leaves.  complete: a message was completed, so that the guide
\* set is_ok; the return value of the guide is then undefined (proto.c:69-73),
\* and "garbage" is the outcome where it happens to be negative.
Read(w, c, result, complete) ==
    LET ok == [w EXCEPT !.cli[c].is_ok = @ \/ complete]
    IN  CASE result = "drained" -> Enlist(ok, c)
          [] result = "closed"  -> Reject(close_socket(ok, c), c)
          [] result = "garbage" -> Reject(ok, c)

\* tcp_read with data.  A client that needs nothing reads nothing; circle_recv
\* asserts that the descriptor is valid.
ReadEvent(e, result, complete) ==
    /\ At("dispatch") /\ e \in batch
    /\ LET c == e.client IN
       /\ ~world.cli[c].need => result = "drained" /\ ~complete
       /\ world' = IF world.cli[c].need /\ world.cli[c].fd = NoFd
                   THEN [world EXCEPT !.mem = Crash(@)]
                   ELSE Read(world, c, result, complete)
    /\ batch' = batch \ {e}
    /\ UNCHANGED <<pc, cursor, due>>

\* Mutant of HangupEvent: the event stays, and is handled again.
HangupEventKept(e) ==
    /\ At("dispatch") /\ e \in batch
    /\ world' = close_socket(world, e.client)
    /\ UNCHANGED <<pc, cursor, batch, due>>

\* tcp_read when the peer hung up.
HangupEvent(e) ==
    /\ At("dispatch") /\ e \in batch
    /\ world' = close_socket(world, e.client)
    /\ batch' = batch \ {e}
    /\ UNCHANGED <<pc, cursor, due>>

\* The socket became writable, or the low half of the client's address, read as
\* a signed number, is not above the descriptor of epoll (epollet.c:520): nothing
\* of what is modelled changes.
PassedOver(e) ==
    /\ At("dispatch") /\ e \in batch
    /\ batch' = batch \ {e}
    /\ UNCHANGED <<world, pc, cursor, due>>

\* Mutant of DispatchEnd: the coroutine polls again instead of yielding.
DispatchEndNoYield ==
    /\ At("dispatch") /\ batch = {}
    /\ pc' = "epoll"
    /\ UNCHANGED <<world, cursor, batch, due>>

DispatchEnd ==
    /\ At("dispatch") /\ batch = {}
    /\ pc' = IF world.heart # {} THEN "timer" ELSE "issue"
    /\ UNCHANGED <<world, cursor, batch, due>>

-----------------------------------------------------------------------------
(* list_foreach, for the two coroutines that iterate.                       *)

Foreach(l) == [left |-> world.mem.size[l], item |-> world.mem.head[l]]

More == /\ cursor.left > 0 /\ cursor.item # NULL
        /\ world.mem.next[cursor.item] # NULL

\* The next element was read before the body.
Step == [left |-> cursor.left - 1, item |-> world.mem.next[cursor.item]]

-----------------------------------------------------------------------------
(* The coroutine issue_tcp_msg.                                             *)

IssueBegin ==
    /\ At("issue")
    /\ cursor' = Foreach("ready")
    /\ pc' = "visit"
    /\ UNCHANGED <<world, batch, due>>

\* Mutant of Dismiss: the flag is not cleared.
DismissFlagKept(w, c) == Unlink(w, "ready", c)

Dismiss(w, c) == [Unlink(w, "ready", c) EXCEPT !.cli[c].is_ready = FALSE]

\* The handler of the program runs for c.  It may declare the client safe and
\* close it; a client that was recycled has an empty buffer.
Handled(w, c, safe, kick) ==
    LET a == [w EXCEPT !.cli[c].age = IF w.heart # {} THEN 0 ELSE @,
                       !.cli[c].is_safe = @ \/ safe]
    IN  IF kick THEN close_socket(a, c) ELSE a

Visit(safe, kick, left) ==
    /\ At("visit") /\ More
    /\ kick /\ ~Heart(world, cursor.item) => ~left
    /\ LET w == Handled(world, cursor.item, safe, kick)
       IN  world' = IF left THEN w ELSE Dismiss(w, cursor.item)
    /\ cursor' = Step
    /\ UNCHANGED <<pc, batch, due>>

IssueEnd ==
    /\ At("visit") /\ ~More
    /\ pc' = "epoll"
    /\ cursor' = [left |-> 0, item |-> NULL]
    /\ UNCHANGED <<world, batch, due>>

-----------------------------------------------------------------------------
(* The coroutine check_timers, with the one timer of keep_alive.            *)

TimerIdle ==
    /\ At("timer") /\ due > 0
    /\ pc' = "issue"
    /\ UNCHANGED <<world, cursor, batch, due>>

CheckBegin ==
    /\ At("timer") /\ due = 0
    /\ cursor' = Foreach("alive")
    /\ pc' = "check"
    /\ UNCHANGED <<world, batch, due>>

\* One connection in check_alive.
Expired(w, c) == w.cli[c].age > Interval

\* Mutant of CheckStep: a client that is already closed is recycled in place.
CheckStepNotErased ==
    /\ At("check") /\ More
    /\ LET c == cursor.item IN
       world' =
         IF world.cli[c].fd = NoFd THEN recycle_client(world, c)
         ELSE IF Expired(world, c)
         THEN recycle_client(Unlink(close_socket(world, c), "alive", c), c)
         ELSE world
    /\ cursor' = Step
    /\ UNCHANGED <<pc, batch, due>>

CheckStep ==
    /\ At("check") /\ More
    /\ LET c == cursor.item IN
       world' =
         IF world.cli[c].fd = NoFd THEN recycle_client(Unlink(world, "alive", c), c)
         ELSE IF Expired(world, c)
         THEN recycle_client(Unlink(close_socket(world, c), "alive", c), c)
         ELSE world
    /\ cursor' = Step
    /\ UNCHANGED <<pc, batch, due>>

CheckEnd ==
    /\ At("check") /\ ~More
    /\ cursor' = [left |-> 0, item |-> NULL]
    /\ pc' = "issue"
    /\ due' = Interval
    /\ UNCHANGED <<world, batch>>

-----------------------------------------------------------------------------
\* The age of a connection, which saturates.
Older(client) == [client EXCEPT !.age = IF @ < Stale THEN @ + 1 ELSE @]

\* A second passes.  The loop turns many times a second, so the timer is
\* served before the next one.
Tick ==
    /\ world.heart # {} /\ due > 0 /\ ~world.mem.fault
    /\ due' = due - 1
    /\ world' = [world EXCEPT !.cli = [c \in Client |-> Older(world.cli[c])]]
    /\ UNCHANGED <<pc, cursor, batch>>

Dispatch == \E e \in batch \ Listening : LET kept == Heart(world, e.client) IN
               \/ \E result \in ReadResults[kept], complete \in Completes[kept] :
                     ReadEvent(e, result, complete)
               \/ TRUE \in Hangups /\ HangupEvent(e)
               \/ PassedOver(e)

Program ==
    \/ IssueBegin \/ IssueEnd
    \/ \E safe \in BOOLEAN, kick \in Kicks, left \in Leftovers : Visit(safe, kick, left)
    \/ EpollWait \/ AcceptEnd \/ DispatchEnd
    \/ \E e \in Listening : AcceptBegin(e)
    \/ \E f \in Fd, registered \in BOOLEAN : tcp_accept(f, registered)
    \/ Dispatch
    \/ TimerIdle \/ CheckBegin \/ CheckStep \/ CheckEnd

Next == Program \/ Tick

Spec == Init /\ [][Next]_vars

\* The coroutines take turns and time passes: epoll_wait and recv return at once
\* (epollet.c:280,502), server.c has no lock, and a handler returns.  A handler
\* that sends is Sending's subject: its send may block.
FairSpec == Spec /\ WF_vars(Program) /\ WF_vars(Tick)

-----------------------------------------------------------------------------
Connection == [fd : Fd \cup {NoFd}, parent : Port \cup {NULL}, need : BOOLEAN,
               is_ok : BOOLEAN, is_ready : BOOLEAN, is_safe : BOOLEAN,
               age : 0..Stale, told : {"none", "link", "shut", "twice"}]

World == [heart : Regimes, mem : Memory, lists : [ListName -> Seq(Client)],
          cli : [Client -> Connection], reg : [Fd -> Client \cup {NULL}],
          open : SUBSET Fd, stored : 0..MaxClients]

\* Types of the variables.
TypeOK ==
    /\ world \in World
    /\ pc \in {"issue", "visit", "epoll", "dispatch", "timer", "check"} \cup Port
    /\ cursor \in [left : Int, item : Pointer]
    /\ batch \subseteq [fd : Fd, client : Client] \cup Listening
    /\ due \in 0..Interval

Registered(c) == \E f \in Fd : world.reg[f] = c

\* The free, ready and alive lists are whole and disjoint, and no step followed
\* a null link or failed an assertion.
ListsFaithful == Faithful(world.mem, world.lists)

\* is_ready says whether the client is in the ready list (client.h:43): after
\* any step of any coroutine, so that no client is lost or enlisted twice.
ReadyFlag == \A c \in Client : world.cli[c].is_ready <=> In(world, "ready", c)

\* The client of a socket is its own: two sockets never share the structure
\* whose id the program uses for them (client.h:32).
OneClientPerSocket ==
    \A f, g \in Fd : world.reg[f] = world.reg[g] /\ world.reg[f] # NULL => f = g

\* What epoll knows is what the clients hold: a registered descriptor is open
\* and is the one its client would read (epollet.c:463-472, 546-558).
Ownership ==
    \A f \in Fd : world.reg[f] # NULL =>
        f \in world.open /\ world.cli[world.reg[f]].fd = f

\* Every structure ever allocated is either free or held, by a descriptor or by
\* the alive list, and never both: none leaks, none is given out twice.
ClientsConserved ==
    \A c \in Client : c < world.stored =>
        (In(world, "free", c) <=> world.cli[c].fd = NoFd /\ ~In(world, "alive", c))

\* An event that epoll_wait returned is still about the connection it was
\* returned for when the loop reaches it, whatever the loop did meanwhile.
BatchFresh == \A e \in batch \ Listening : world.reg[e.fd] = e.client

\* The program holds exactly the connections that are registered: it heard of
\* the link of each and, but for connections that are kept alive, whose failed
\* reads close them twice, of the shut of every other once.
LinkShutAlternate ==
    \A c \in Client : /\ world.cli[c].told = "twice" => Heart(world, c)
                      /\ world.cli[c].told = "link" <=> Registered(c)

\* The structure of a new connection is reset (client.h:7): nothing that the last
\* one was permitted or had read is left, so that no part of a message of the new
\* one counts as a whole one (client.h:42).  This does NOT hold: is_ok survives
\* (client.h:8).
FreshLink ==
    [][\A c \in Client :
         world.cli[c].told # "link" /\ world'.cli[c].told = "link"
           => /\ ~world'.cli[c].is_safe /\ ~world'.cli[c].is_ok
              /\ ~In(world', "ready", c)]_vars

\* A ready client is handed to the program and leaves the ready list.
ReadyServed == \A c \in Client : world.cli[c].is_ready ~> ~world.cli[c].is_ready

\* With keep_alive, every connection whose peer sends no message, and every
\* one that was closed, ends up in the free list.
Reclaimed ==
    \A c \in Client : In(world, "alive", c) \/ (Heart(world, c) /\ Registered(c))
                         ~> In(world, "free", c)

================================================================================
