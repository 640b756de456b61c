--------------------------------- MODULE Ports ---------------------------------
(***************************************************************************)
(* Where messages go: the ports a program listens on (listen_port in       *)
(* src/proto/proto.c, listen_tcp and listen_udp in src/src/server.c,       *)
(* create_tcp_fd and create_udp_fd in src/epollet/epollet.c), the handlers *)
(* it registers, and the maps between a descriptor, a command code and a   *)
(* handler.  All of it is done by one thread; every system call may fail,  *)
(* and every allocation, that of the string of a key in a lookup included, *)
(* and the program may try again.  Only the lookups that epollet_run makes *)
(* for the descriptor of an event are taken to find memory.                *)
(***************************************************************************)
EXTENDS Integers

CONSTANTS
    Fd,         \* descriptors that sockets get
    Port,       \* numbers of ports
    Cmd,        \* command codes (above those of the kernel's messages)
    Func,       \* handlers of the program
    Entry,      \* structures in memory: tcp_fd, udp_fd, msg_func_item
    NULL,       \* the null pointer
    Garbage,    \* what malloc leaves in a member that nobody sets
    Many        \* whether the program listens on several ports of one type

\* Numbers of at most five digits, for which the hash does not reach the bits that
\* the elf hash folds back; and command codes, which have 16 bits.
FiveDigits == 0..99999
Codes == 16..65535

ASSUME PortsAssumption ==
    /\ Fd \subseteq FiveDigits /\ Cmd \subseteq Codes
    /\ NULL \notin Entry \cup Func /\ Garbage \notin Func \cup {NULL}
    /\ Many \in BOOLEAN

Tcp == {"user", "manage"}
Type == Tcp \cup {"udp"}

\* The maps by type of message, and those of the descriptors.
Name == Type \cup {"tcp_fds", "udp_fds"}

Invalid == -1   \* INVALID_SOCKET

H == INSTANCE HashMap WITH Key <- Fd \cup Cmd, MapName <- Name

VARIABLES
    maps,       \* the five maps and the entries in them
    item,       \* what a structure holds: msg_func, or the link of a tcp_fd
    used,       \* structures that are allocated
    kernel,     \* open sockets, the ports they are bound to, epoll's interest
    global,     \* g_tcp_fd_user, g_tcp_fd_manage and g_udp_fd
    told        \* what the program was told: ports that it listens on, handlers

vars == <<maps, item, used, kernel, global, told>>

None == [x \in {} |-> x]

\* f with x mapped to y.
With(f, x, y) == [z \in DOMAIN f \cup {x} |-> IF z = x THEN y ELSE f[z]]

\* proto_init has succeeded.
Init ==
    /\ maps = H!EmptyMaps
    /\ item = [e \in Entry |-> NULL] /\ used = {}
    /\ kernel = [port |-> None, watched |-> {}]
    /\ global = [t \in Type |-> Invalid]
    /\ told = [type |-> None, link |-> None, msgs |-> [t \in Type |-> None]]

-----------------------------------------------------------------------------
(* Sockets.                                                                  *)

Opened(k, fd, binding) == [k EXCEPT !.port = With(@, fd, binding)]

\* close, which takes the descriptor out of epoll as well.
Closed(k, fd) ==
    [port |-> [f \in DOMAIN k.port \ {fd} |-> k.port[f]], watched |-> k.watched \ {fd}]

Watched(k, fd) == [k EXCEPT !.watched = @ \cup {fd}]

\* Two TCP sockets cannot listen on one port; two UDP sockets can share one.
Taken(k, binding) ==
    binding[1] = "tcp" /\ \E f \in DOMAIN k.port : k.port[f] = binding

\* The step of creating a port at which it fails, if it does.
Failure == {"socket", "bind", "epoll_add", "malloc", "map_put", "none"}

\* Mutant of Sockets: the error path forgets the descriptor.
SocketsLeak(k, fd, binding, failure) ==
    CASE failure = "socket"                -> k
      [] failure = "bind"                  -> Closed(Opened(k, fd, binding), fd)
      [] failure \in {"epoll_add", "malloc", "map_put"} -> Opened(k, fd, binding)
      [] failure = "none"                  -> Watched(Opened(k, fd, binding), fd)

\* create_tcp_socket or create_udp_socket, then epoll_add; close if a step fails.
Sockets(k, fd, binding, failure) ==
    CASE failure = "socket"                -> k
      [] failure = "bind"                  -> Closed(Opened(k, fd, binding), fd)
      [] failure = "epoll_add"             -> Closed(Opened(k, fd, binding), fd)
      [] failure \in {"malloc", "map_put"} -> Closed(Watched(Opened(k, fd, binding), fd), fd)
      [] failure = "none"                  -> Watched(Opened(k, fd, binding), fd)

MapOf(t) == IF t \in Tcp THEN "tcp_fds" ELSE "udp_fds"

\* create_tcp_fd and create_udp_fd.  The structure of a port that could not be
\* put into its map is freed.
CreateFd(t, fd, e, binding, failure) ==
    /\ Taken(kernel, binding) => failure \in {"socket", "bind"}
    /\ failure = "none" => H!Fresh(maps, MapOf(t), fd)
    /\ kernel' = Sockets(kernel, fd, binding, failure)
    /\ IF failure = "none"
       THEN /\ maps' = H!Put(maps, MapOf(t), e, fd)
            /\ used' = used \cup {e}
            /\ item' = [item EXCEPT ![e] = Garbage]
       ELSE UNCHANGED <<maps, used, item>>

\* listen_port through listen_tcp or listen_udp: the global of the type takes the
\* descriptor, or Invalid.
listen_port(t, fd, e, number, failure) ==
    /\ Many \/ \A f \in DOMAIN told.type : told.type[f] # t
    /\ fd \notin DOMAIN kernel.port /\ e \notin used
    /\ CreateFd(t, fd, e, <<IF t \in Tcp THEN "tcp" ELSE "udp", number>>, failure)
    /\ global' = [global EXCEPT ![t] = IF failure = "none" THEN fd ELSE Invalid]
    /\ told' = IF failure = "none" THEN [told EXCEPT !.type = With(@, fd, t)] ELSE told

-----------------------------------------------------------------------------
(* Handlers.                                                                 *)

\* reg_tcp_msg and reg_udp_msg, when there is memory for the item; keyed: also for
\* the string of its key.  An item under a code that is taken, or without a key,
\* stays allocated, in no map.
reg_msg(t, c, f, e, keyed) ==
    /\ e \notin used
    /\ used' = used \cup {e}
    /\ item' = [item EXCEPT ![e] = f]
    /\ maps' = IF keyed THEN H!Put(maps, t, e, c) ELSE maps
    /\ told' = IF keyed /\ H!Fresh(maps, t, c)
               THEN [told EXCEPT !.msgs[t] = With(@, c, f)] ELSE told
    /\ UNCHANGED <<kernel, global>>

\* reg_link_event; without memory for the key it does nothing, and does not say so.
reg_link_event(fd, f) ==
    LET tfd == H!Get(maps, "tcp_fds", fd)
    IN  /\ tfd # NULL
        /\ item' = [item EXCEPT ![tfd] = f]
        /\ told' = [told EXCEPT !.link = With(@, fd, f)]
        /\ UNCHANGED <<maps, used, kernel, global>>

\* Structures are alike: the allocator hands out some one that is free.
Malloc == CHOOSE e \in Entry : e \notin used

Listen ==
    /\ used # Entry
    /\ \E t \in Type, fd \in Fd, number \in Port, failure \in Failure :
           listen_port(t, fd, Malloc, number, failure)

Register ==
    /\ used # Entry
    /\ \E t \in Type, c \in Cmd, f \in Func, keyed \in BOOLEAN :
           reg_msg(t, c, f, Malloc, keyed)

RegisterLink == \E fd \in DOMAIN told.type, f \in Func : reg_link_event(fd, f)

Next == Listen \/ Register \/ RegisterLink

Spec == Init /\ [][Next]_vars

-----------------------------------------------------------------------------
(* Dispatch.                                                                 *)

\* The handler that the map of type t gives for code c; none without memory.
Handler(t, c, keyed) ==
    LET entry == H!Lookup(maps, t, c, keyed) IN IF entry = NULL THEN NULL ELSE item[entry]

\* Mutant of MessageMap: every connection uses the map of the user port.
MessageMapUser(fd) == "user"

\* The map deal_tcp_msg takes for a connection that was accepted at fd.
MessageMap(fd) == IF fd = global["user"] THEN "user" ELSE "manage"

deal_tcp_msg(fd, c, keyed) == Handler(MessageMap(fd), c, keyed)

\* udp_read and deal_udp_msg, of a datagram that is one whole message.
deal_udp_msg(c, keyed) == Handler("udp", c, keyed)

\* The handler that runs for command c arriving at fd, by the order in which
\* epollet_run asks the two maps.
Dispatched(fd, c, keyed) ==
    IF H!Get(maps, "tcp_fds", fd) # NULL THEN deal_tcp_msg(fd, c, keyed)
    ELSE IF H!Get(maps, "udp_fds", fd) # NULL THEN deal_udp_msg(c, keyed)
    ELSE NULL

-----------------------------------------------------------------------------
\* A port that listen_port reported is bound, watched by epoll and known to the
\* map of its kind; one that failed, at whatever step, leaves nothing behind.
PortsServed ==
    /\ DOMAIN kernel.port = DOMAIN told.type
    /\ kernel.watched = DOMAIN told.type
    /\ \A fd \in Fd : \A n \in {"tcp_fds", "udp_fds"} :
           H!Get(maps, n, fd) # NULL <=> fd \in DOMAIN told.type /\ MapOf(told.type[fd]) = n

\* A message goes to the handler that was registered for its code and for the
\* type of the port it came through, or to none if the lookup finds no memory, and
\* a new connection to the link handler of its port, whatever else was registered,
\* failed or came under a code with the same hash ("one or more TCP and UDP ports
\* at the same time", README.md:5).
Routed ==
    /\ \A fd \in DOMAIN told.type, c \in Cmd, keyed \in BOOLEAN :
           LET known == told.msgs[told.type[fd]]
           IN  Dispatched(fd, c, keyed)
               = IF keyed /\ c \in DOMAIN known THEN known[c] ELSE NULL
    /\ \A fd \in DOMAIN told.link : item[H!Get(maps, "tcp_fds", fd)] = told.link[fd]

=================================================================================
