# hlnet in TLA+

hlnet is a single-threaded network framework for Linux: an `epoll` loop with
edge-triggered sockets, coroutines, timers and intrusive containers, and one
extra thread that talks to a database.  This directory holds a formal model of
its core, the TLC runs that check it on small instances, and proofs, checked by
TLAPS, of what holds for every instance.

Contents

1. Inventory of the system
2. The modules and the code they stand for
3. The runs: what each shows, its bounds
4. Fairness
5. Disagreements between code and documentation
6. What is proved, and how
7. What is only model-checked, and what is not modelled
8. Plan

How to run (in this directory): `tlc -config MCServer.cfg MCServer.tla` and so
on for the runs of section 3; `tlapm IntrusiveListProofs.tla`, and likewise
`LinkedListsProofs`, `ServerProofs`, `StreamProofs`, `PortsProofs`, `LogProofs`,
`TimersProofs` and `ThreadsProofs`, for the proofs.

## 1. Inventory of the system

All paths are relative to `src/`, the root of the repository; the program's own
`src` directory is therefore `src/src/`.

### Threads and coroutines

`listen_tcp` creates a coroutine `issue_tcp_msg` for every TCP port, and `serv_run`
(`src/src/server.c`) creates `epollet_run` and, if they are in use, `write_log`,
`check_timers` and `check_moments`; `coroutine_run` then resumes all of them in
rounds on one thread, which `epollet_run` lets sleep 2 microseconds per round.  A coroutine
gives up the thread only by yielding at the end of its outer loop, so between
two yields no other coroutine runs.  The interleavings that matter are those of
*loop iterations*: what one coroutine left in a list is found by the next.  The
database thread (`src/src/database.c`) runs in parallel with all of this and
shares two things with it, a circular queue and a store of buffers.  Neither
has a lock.

### Components

| Component | State | Operations | Used by | What is hard | What makes it correct |
|---|---|---|---|---|---|
| Intrusive list (`c-stl/list.*`) | `prev`, `next` in the element; `head`, `tail`, `size` in the header | `push_front`, `push_back`, `insert`, `erase`, `pop_*`, `foreach` | clients, chunks | circular, special cases of one element; erasing or moving the element visited; one pair of links for several lists | the links describe the intended sequence after every legal sequence of calls; an iteration visits each element once and ends |
| Client store (`epollet/client.*`) | array of clients, list of recycled ones | extract, recycle, reset, get by id | event loop, keep-alive | reuse: which fields survive a connection | no structure leaks or is given out twice; a connection should inherit nothing, and does (section 5) |
| Event loop (`epollet/epollet.*`) | registrations, descriptors, ready list, one batch of events, the maps of ports | `epollet_run`, `tcp_accept`, `tcp_read`, `circle_recv`, `circle_send`, `close_socket`, `create_*_fd` | program, dispatch | events of a batch carry pointers taken before other events were handled; one connection is closed from several places; creating a port fails half-way | events reach the connection they are about; descriptor, registration and client agree; link and shut alternate; what is sent arrives once and in order |
| Message dispatch (`src/server.*`) | the ready list | `issue_tcp_msg`, `send_tcp`, `listen_*` | program | handlers that leave bytes, or close the client; sending to a peer that does not read | a ready client is served; the flag tells the truth; a message goes to its handler |
| Keep-alive (`src/alive.*`) | the alive list, `alive_time`, a timer | `add_alive`, `check_alive`, `alive`, `safe` | event loop | shares its links with the ready list; recycles what the event loop closed | only idle connections are closed; every closed one is recycled |
| Circular queue (`c-stl/queue.*`) | ring, `head`, `tail`, `size`, `max_size` | `push` (grows), `push_fixed`, `pop` | log, database | growth when the contents wrap; two threads | a first-in first-out queue |
| Database thread (`src/database.*`) | fixed queue, message map | `post_db_msg`, `issue_db_msg` | program | two threads without a lock | each message posted is run, once |
| Buffer and framing (`common/buffer.*`, `proto/proto.*`) | read, write and seek indexes, `need`, `is_ok` | read, write, seek, `tcp_guide`, `verify`, `deal_tcp_msg` | event loop, program | messages split and joined at any byte; wrap | the parser and the reader agree where a message begins |
| Chunk store (`common/store.*`) | list of free chunks | extract, recycle | buffers, both threads | two threads without a lock | a chunk has one owner |
| Heap, timers, moments (`c-stl/heap.*`, `src/timer.*`, `src/moment.*`) | heap of timers by due time | add, delete, check | keep-alive, program | erasure from the middle; an array that cannot grow; callbacks that add and delete timers, past moments among them; zero delays | timers fire in order, the right number of times; none is lost |
| Coroutine scheduler (`coroutine/*`) | pool, status, one shared stack, a copy per coroutine | create, resume, yield, run | everything | copying in and out; creation while the loop is in the pool | each coroutine finds its stack as it left it, and gets its turn |
| Log (`src/log.*`) | queue of lines, the file | `add_log`, `write_log` | program | a push that fails; buffers that come back from the store | each line is written once, whole, in order |
| Map (`c-stl/map.*`) | table of chains, entries in the elements | put, get | ports, handlers | one hash for many keys; a lookup that needs memory | what was put under a key is found under it, and nothing else is |
| Array, stack, algorithms, MySQL helper | see `PROJECT.json` | | | | |

### Interactions

```
          epoll events                        ready list
 kernel ---------------> epollet_run  ------------------------> issue_tcp_msg --> program
                          |   ^  \                                    |              |
            extract,      |   |   \  add_alive                        | alive        | close_socket
            recycle       v   |    v                                  v              |
                      client store   alive list <---- check_alive <---- check_timers |
                          ^                               | close, recycle           |
                          +-------------------------------+--------------------------+

 program --post_db_msg--> fixed queue --issue_db_msg--> database thread
```

A client structure is in at most one of three lists by design (free, ready,
alive), since it has a single pair of links; nothing in the code enforces it.
That, and everything that is captured before and used after somebody else's
close, is where this system is hard to test.  The individual hazards, each at its
line and with the properties that cover it, are under `hazards` in
`PROJECT.json`.

## 2. The modules and the code they stand for

| Module | Stands for | State and actions |
|---|---|---|
| `IntrusiveList` | `c-stl/list.c`, `list.h` | no variables: operators on a *memory* `[next, prev, head, tail, size, fault]`. `PushFront`, `PushBack`, `InsertBefore`, `InsertAfter`, `Erase` write the links the code writes, in its order and with its special cases. `fault` becomes TRUE when the code would follow a null pointer or fail an assertion. `Faithful(m, s)` says that the memory describes the sequences `s`. |
| `LinkedLists` | any legal user of the above | `mem`, the intended sequences `lists`, and one iteration `walk` (`list_foreach`, which reads the successor before its body). Actions: insertions at all four places, erasures, and the steps of an iteration whose body keeps, erases or moves what it visits. |
| `Server` | `epollet/epollet.c`, `epollet/client.c`, `src/server.c`, `src/alive.c` | `world` (links and lists, clients, registrations, open descriptors, store size), `pc` (which coroutine has the thread and where it is), `cursor` (the iteration in progress), `batch` (events returned and not reached), `due` (the timer of keep-alive). |
| `Fifo`, `CircularQueue` | `c-stl/queue.c`, `queue.h` | a sequence; and the ring that implements it, with growth. `IsFifo` is the refinement, under the mapping that reads the ring from head to tail. |
| `DbQueue` | `queue_push_fixed`, `queue_pop` as called by `src/database.c` | both threads, one action per access of the shared queue. |
| `Heap` | `c-stl/heap.c`, `heap.h` | no variables: operators on `[table, count, index]`. The loops of `heap_up` and `heap_down` are given as their conditions and their body, for the module that runs them. |
| `Agenda` | what `src/timer.h` promises | a set of armed timers; each round runs those that were due when it began, earliest first. Abstract: nothing of it is code. |
| `Timers` | `src/timer.c`, `src/moment.c` on `Heap` | `heap`, the fields of each chunk, the store of chunks, the clock, the length of the heap's array, and where `check_timers` or a loop of the heap is. Actions: the program's calls (also from callbacks), with a push that fails, the turns of `check_timers`, the turns of `heap_up` and `heap_down`. `IsAgenda` is the refinement of `Agenda`; the turns of the heap's loops are its stutters. |
| `Buffer` | `common/buffer.c`, `buffer.h` | no variables: operators on `[read, write, seek, len, gap, size, end, cell]`, one cell per byte. |
| `Framing` | `read_data` and `tcp_read` (`epollet/epollet.c`), `tcp_guide`, `verify` and `deal_tcp_msg` (`proto/proto.c`), `issue_tcp_msg` | one connection: what was sent, arrived and taken; the client's fields and its input buffer; which loop runs. Actions: the peer's, one turn of the reader's loop, one turn of the parser's. |
| `Sending` | `send_tcp` (`src/server.c`), `circle_send` (`epollet/epollet.c`) on `Buffer` | the connection that the structure serves, its output buffer, the loop of `circle_send`, the bytes in the kernel and those read. Actions: the connection's life, the peer's reads and resets, each `send` of the loop, its return. |
| `Log` (extends `CircularQueue`) | `src/log.c`, `extract_buffer` and `recycle_buffer` (`common/buffer.c`), `common/store.c` | the store, the buffers and their contents, the file. Actions: a line that is added or refused, the turns of `write_log`. |
| `Processes` | what `coroutine/coroutine.h` promises | processes with stacks of their own, one of which has its turn. Abstract: nothing of it is code. |
| `Coroutines` | `coroutine/coroutine.c` | the pool with each coroutine's copy of its stack, the shared stack and the stack pointer, the loop of `coroutine_run`. Actions: creation, with and without growth; calls and returns, yield and end of the coroutine that runs; the steps of the loop. `RunsPrivately` is the refinement of `Processes`. |
| `HashMap` | `c-stl/map.c` | no variables: operators on the tables and entries of all maps of a program, with the hash that the code computes. |
| `Ports` | `create_tcp_fd`, `create_udp_fd` (`epollet/epollet.c`), `listen_*`, `reg_*` (`src/server.c`, `proto/proto.c`) on `HashMap` | open sockets and epoll's interest, the five maps, the descriptor of each type, and what the program was told. Actions: `listen_port` with each step that may fail, the registration of a handler. |
| `MC*` | the instances | the small sets TLC needs. |
| `*Proofs` | the proofs | lemmas and theorems about the modules of those names; `StreamProofs` is about `Buffer`, `Framing` and `Sending`, `LogProofs` about `CircularQueue` and `Log`, `PortsProofs` about `HashMap` and `Ports`, `ThreadsProofs` about `Coroutines` and `DbQueue`. |

`map` in `PROJECT.json` gives the lines of each definition.  Some choices need a
word.

**Granularity.** In `Server` one action is one iteration of a loop of one
coroutine: one event of a batch, one `accept`, one visited client.  It is finer
than the code's atomicity (a coroutine keeps the thread for its whole loop, and
so does the model, through `pc`), which lets invariants be checked inside loops.
The functions a step calls are operators on the record `world`, because
`close_socket` may be called twice within one step and the second call must see
what the first one did.  In `DbQueue` one action is one load or store of the
queue, in the order of the instructions an optimising build emits; memory is
sequentially consistent.

**Inputs.** `ReadResults`, `Completes`, `Hangups`, `Kicks` and `Leftovers` are
the choices of the outside world: how a read ends, whether it completes a
message, whether peers hang up, whether a handler closes its client or leaves
bytes.  A run names the subset it allows, because several of these uncover
a defect (section 5) after which nothing else holds.  `Separate` says what the theorems
of section 6 need of them, and `MCServer` assumes it, so that TLC evaluates that its
instance is one the theorems are about; `MCDoubleClose` is an instance that is not.

**Undefined behaviour.** On success `tcp_guide` (`proto/proto.c:69-73`) falls
off its end and `read_data` tests the result.  In the optimised build the
register holds the low half of the address of the input buffer, so the outcome
depends on the address: the result `"garbage"` is the one where it is negative.
The result `"drained"` covers the other.

**Assumptions.** One listening port and one dispatching coroutine (in the scheduler
any number of coroutines, in `Ports` any number of ports).  The loop takes the event of a client for one by comparing
the low half of the client's address, as a signed number, with the descriptor of
epoll (`epollet.c:520`).  An address with bit 31 set fails, which on a 64-bit system is
about every other layout of the heap: no event of that client is ever handled.  In
`Server` an event may always be passed over (`PassedOver`), which no safety property
minds; its liveness properties are about clients that are ready or idle, not about
events.  In `Framing` the constant `Heard` says on which side the client's address
falls: it is TRUE in the runs; section 5 says what happens when it is not.  An address whose
low half is also the number of a listening or a UDP descriptor would be taken for that
(`epollet.c:508`); none is.  The lookups of that loop are taken to find the memory that
`map_get` needs (`map.c:87`): when one does not, the event of a listening socket falls
through to line 520, as the number of a small descriptor, and is passed over or, above
the descriptor of epoll, followed as an address.  The lowest free number is what `accept`
returns, as POSIX says.  Time is seconds; ages are relative to now and saturate
one past the limit (`Stale`), which no comparison can tell apart; a second passes
only when the pending timer has been served, as the loop turns many times a
second.  `alive_time` is not tracked without keep-alive, which is its only reader.

**History variables.** `told` in a client of `Server` and `told` in `Ports` record what
the program was told.  No guard reads the first; the second bounds which ports the
program asks for.

**Timers.** The fields of a chunk that is in the store, and slots of the heap above
its count, are never read by the code before they are written; the model clears
them, so that states that differ only in them are one.  `heap_adjust` compares
two pointers where it means their keys (`heap.h:24`); which of two chunks lies
lower in memory is a choice of the action (`below`).  The array of the heap has 128
slots at first and grows by half; `HeapSize` is that length, 3 in the run, so that it
grows twice, and each time `realloc` may fail instead.  The caller then gets
`NULL`, and the chunk that was extracted is in neither the heap nor the store
(`timer.c:54-55`): the history variable `lost` names those.  Two kinds of call are left
out because the code does not survive them: a callback that deletes its own timer
(`timer.c:111` then deletes by a stale index), and a timer with neither delay nor
end, with which `check_timers` never leaves its loop.  `Past` and `Deletes` say whether
callbacks add moments that are past, and whether the program deletes timers itself:
both are TRUE in the run `timers`, and FALSE in the theorems.

**Framing.** A byte is its number in the stream, so that a cell of the buffer says
which byte of which message it holds, and a header is recognised by its bytes.
Where the code would interpret bytes that are not a header, or ask `recv` for
nothing or for more than there is room for, the model stops and records what was
misread (`misread`): what garbage would do is not followed further.  A connection
starts with a structure that is used for the first time; one that was used before
begins with `is_ok` set (section 5) and behaves from its first byte as
others do after their first message.  A buffer that cannot grow, for
want of memory (`MaxSize`), closes the connection, as a message that is too large does.
`Aligned` says that the sizes of the data, and all that the buffer can grow to, are
multiples of a head's; `MCFraming` assumes it, so that TLC evaluates that its instance is
one that the theorem on it is about, and `MCFramingOdd` does not.  `Kernels` says whether
messages may be kernel messages, `Mixed` whether these are sent while others are on
the way, `Returns` what the undefined
result of the guide may be.  The data of the first message may arrive in parts, at any
byte, as heads always may: until it is complete `is_ok` is not set and the parser is
not called.  `Splits` says whether the data of later messages may, too.  TCP promises
nothing else; the code does not survive it (section 5).

**Coroutines.** The stack is counted in words from its top.  What `memcpy` copies is the
part in use, so the words below the stack pointer stay as the last coroutine left them.
The allocations of `coroutine_new` are taken to succeed: the code does not look.
`running = -1` is the main context, which uses a stack of its own.

**Sending.** Connection `c` is given bytes numbered from `c * MaxBytes + 1`, so the
stream shows where each byte came from.  While `send_tcp` runs no other coroutine does:
a close comes between two calls, by the program or a check.  `SO_LINGER` with a time of
zero discards on close what the kernel holds (`epollet.c:53-56`, where the comment says
that it is sent first).  The write event is left out: it sends to the low half of an
address (`epollet.c:532`), which is no descriptor of a connection.

**Log.** A buffer's contents are the lines written since it was reset.  The list of the
store is a sequence, which `IntrusiveList` shows it to be.  `buffer_init` may fail, which
puts a buffer that was never initialised into the store.

**Ports.** `hash` adds the first character of the key for every character of it (it steps
`str` and reads `data`, `map.c:12`), so numbers with the same first digit and length
collide; the instance is chosen from them.  Setting up is sequential: one action per call,
with the step that fails as a choice.  Structures are handed out in a fixed order, since
nothing compares their addresses.  `map_get` allocates the string of the key it looks
up, returns `NULL` when it cannot, and never frees it: the first is in the model
(`Lookup`), for the lookups of messages; that every lookup leaks a string is not, since
no other state depends on it.

## 3. The runs: what each shows, its bounds

Passing runs:

| Run (cfg) | Question | Bounds, and why they are enough |
|---|---|---|
| `linked_lists` (`MCLinkedLists`) | do the links stay faithful, do iterations visit exactly what they should and end | 3 elements, 2 lists: lists of every length 0-3, so each special case of length one and two, head, tail and middle, and moves between lists. The theorems of section 6 remove the bound. |
| `server` (`MCServer`) | lists, flags, descriptors, structures, batches, callbacks; that a ready client is served and an idle kept one reclaimed | 3 clients, 3 descriptors: three connections in one batch, one closed and its structure and descriptor reused while the events of the others wait; timer period 1. |
| `log` (`MCLog`) | is the ring a queue through every growth; do lines keep their buffers to themselves and reach the file in order | 7 buffers, 12 lines; capacities 2 to 6, then a push that fails: each growth with the contents wrapped and not, `head` at every position, and more lines than buffers, so that they are reused. |
| `db_queue` (`MCDbQueue`) | whatever the race does, no message is run twice | 3 slots, 7 posts: the queue is full, empty, and wraps twice. |
| `timers` (`MCTimers`) | is the heap, under calls from outside and from callbacks, the agenda that `timer.h` promises; is nothing lost; does nothing stay overdue | 4 timers: three levels, erasure of every slot, a right child that is missing and one that is the lesser. Clock 0, 1, 3: what is due before, at and after, and a jump over more than one interval. Delays -2 (moments in the past, which a callback may add before the one that runs) and 1; one run and endless repetition. An array of 3 that grows to 4 and 6, or fails to. |
| `coroutines` (`MCCoroutines`) | does each coroutine find its stack as it left it; is the pool accounted for; does each get its turn | a pool of 1 that doubles to 2 and 4, 3 coroutines that live at once (any number one after another), a stack of 2 words of 2 values, at most 2 coroutines with a saved stack at once (`MaxDeep`): a copy that is reused by a shallower stack, slots freed behind and ahead of the loop, growth in the middle of a round. |
| `sending` (`MCSending`) | does the peer receive what was sent, once, in order; is everything handed over; does `send_tcp` return | messages of 1 to 3 bytes, 6 per connection, to a kernel with room for 2, a buffer of 2 that grows, 2 connections of one structure: messages larger than that room, resets in the middle of one, contents left behind by a reset. |
| `ports` (`MCPorts`) | are ports that were reported served, and failures undone; do messages reach the handlers of their port | 2 descriptors, 3 command codes, 4 structures: 10 and 11, and 16 and 17, have one hash, and 100 another in the same slot, so every map is one chain of up to four. Any allocation may fail, and any lookup of a message. Handlers are symmetric (no liveness is checked). |
| `framing` (`MCFraming`) | do reader and parser agree where messages begin; is every message dealt with once, in order, whole | head of 2 bytes, data of 0, 4 and (refused) 6, a buffer of 8 that grows to at most 12 and then has no more memory, 4 messages of which 2 are on the way: the contents wrap, leave a gap, and are moved by growth while they wrap. |

`server` has one port, which is short or kept alive (`Regimes`, chosen in the initial
state), and what the outside world may do depends on it, so that each promise is checked
where the code can keep it:

| | short | kept alive |
|---|---|---|
| reads end | drained, or with the undefined result | drained, or failed (closed twice, which is harmless there: nothing is recycled at once) |
| messages complete | yes | no (section 5) |
| peers hang up | at any time | at any time |
| handlers | consume what they need (section 5) | never called |
| failed reads | none (`double_close`) | any |

In both, `accept` can find the client store exhausted and `epoll_ctl` can
fail at any connection.

The bounds have names: `MaxClients` and `Fd` (structures and descriptors),
`Interval`, `InitCapacity` and `MaxCapacity` (of the ring), `MaxBuffers` and `MaxLines`,
`Capacity` and `MaxPosts` (of the database queue), `MaxTimers`, `Instants` and `HeapSize`, `Window`,
`KernelRoom`, `MaxMessages`, `MaxConns`, `MaxBytes` and `MaxSize` (of the buffer), `MaxPool`, `MaxLive`, `MaxDeep`
and `StackSize`, `Fd`, `Cmd` and `Entry`.  Deadlock is checked in every passing run but
those that really stop: `db_queue`, `framing` and `sending`, whose producer stops at its
bound (and whose connection may be closed), `timers`, where the last instant passes,
`coroutines`, where the scheduler ends when no coroutine is left, and `ports`, where the
structures are used up.

`framing` is restricted to what the code can keep its promises for: sizes
and capacities that are multiples of the header's (`Aligned`: a header then never falls
across the end of the buffer), data of later messages than the first that arrives with
its last byte, kernel messages sent alone, a client whose events are heard.  The
reasons are in section 5.  Headers themselves and the data of the first message arrive
in any parts, and data of the next message while the reader is in its loop.

The properties worth a second look:

- `ListsFaithful` (`Server`): after every step the three lists are whole,
  disjoint, and equal to what the code believes they are; no step followed a null
  link.  It relates memory that five functions write to the intent of each call.
- `BatchFresh`: an event still concerns the connection it was returned for when
  the loop reaches it.  It is not obvious: structures and descriptors *are* reused
  within a batch.  It holds because epoll reports a descriptor once per batch, and
  only a client's own events close it during dispatch.
- `ClientsConserved`: every structure ever allocated is free exactly if nothing
  holds it.
- `LinkShutAlternate`: the program hears link and shut of each client in turn,
  and holds precisely the registered ones, across accepts that fail half-way.
- `Reclaimed`, `ReadyServed`: the two liveness promises.
- `ReaderInStep`: the guide looks for a header at `seek`, the parser at `read`, and
  `recv` writes at `write`; each of the three is moved by other code.  The
  property says that the guide's is where the header is.
- `MessagesExact`: what the handler sees from the read pointer on are the bytes that
  were sent, also when the contents were moved between arrival and handling.
- `ChunksConserved` (`Timers`): a chunk that a failed push leaves behind is lost, and
  `lost` names it; the property is that nothing else is, that none is in two places, and
  that the loss disturbs no other.
- `NothingStaysOverdue` is conditional: a callback that adds a past moment each time it
  runs keeps `check_moments` in its loop for ever, by construction of the code.  Once
  callbacks stop doing so, rounds end again and again with nothing overdue.
- `IsAgenda`: in particular, a timer that a callback adds or deletes during a round
  changes what runs next exactly as it would without a heap.
- `RunsPrivately`: every word of every suspended stack, in copies that are reused and
  through a shared stack that the others overwrite, is the one the coroutine left.
- `EveryTurn`: the loop of `coroutine_run` reads `cap` again at each step, so coroutines
  that are created behind it wait for the next round and no longer.
- `LinesInOrder`, `BuffersConserved`: which lines are missing is exactly which pushes
  failed, while buffers change hands between the store, the queue and the file.
- `StreamExact`: it fails if a message is started again after a partial send, if the
  terminator overwrites a byte, or if a connection inherits bytes.
- `PortsServed`: after any sequence of attempts, each failing at any step, sockets, epoll,
  maps and what the program was told agree.
- `Routed`: through chains in which every key has the same hash, whatever was registered
  twice, failed or came later.
- `RunAtMostOnce`: with `size` racing, duplication is the effect one would
  expect; the indexes, which are each written by one thread, exclude it.

The violation runs are listed in section 5.

## 4. Fairness

`FairSpec` of `Server` is weak fairness of the program's steps as a whole
(`Program`) and of the passing of time (`Tick`).  It is justified by the code:
nothing that `Server` models blocks (`epoll_wait` is called with timeout 0, `recv` with
`MSG_DONTWAIT`, the listening socket is non-blocking, the round ends in a `usleep` of 2
microseconds, nothing takes a lock) and each coroutine loop is over a finite list or
batch.  Handlers are taken to return.  One that sends may not: accepted sockets are
blocking (only the listening one is passed to `set_nonblock`, `epollet.c:47`), so `send`
in `circle_send` waits for the peer, and with it the thread.  That is the subject of
`Sending`.  The exception is the
loop of `tcp_accept`, which goes on as long as connections arrive; in the model
descriptors run out, as they do in the system.  No fairness is
assumed of peers, of `accept`, or of individual events.
`FairSpec` of `LinkedLists` is weak fairness of the iteration once begun: a
`for` loop on one thread.

`FairSpec` of `Timers` is weak fairness of the loops, and strong fairness of the
beginning of a round (`Check`) and of the return from a callback (`Return`).  The strong
part says that the coroutine gets its turn although others also run between rounds,
and that a callback that may still make calls does end: the program's calls disable both
for the time they take, so weak fairness would allow a program that calls for ever.

`FairSpec` of `Framing` is weak fairness of the network's delivery and of the turns of a
loop once begun (`TurnsGoOn`, written without ENABLED: a loop always has a turn to take),
and strong fairness of the reader's and the parser's beginning: the two coroutines
alternate, and each is disabled while the other runs.  No fairness is assumed of the peer.

`LogFairSpec` is weak fairness of `write_log`'s turn and loop, which the scheduler gives:
that a turn comes again and again is what `EveryTurn` checks.  `FairSpec` of `Coroutines`
is weak fairness of the scheduler's own steps (`Main`) and of `Yield`: every coroutine of
the library yields in each turn of its endless loop.  None is assumed of creation.

`SendingFairSpec` is weak fairness of the loop of `circle_send` (`Thread`: the kernel
takes what it has room for, at once or after `send` has waited) and of the
peer's reading.  The second is not the library's to promise: `ThreadFairSpec` is without
it, and `SendReturns` then fails (section 5).

## 5. Disagreements between code and documentation

Each is a run in which TLC finds a property violated that a comment of the code
states; `findings` in `PROJECT.json` quotes the lines.

| Run | Property | What happens |
|---|---|---|
| `double_close` | `OneClientPerSocket` | A read that fails closes and recycles a short connection (`epollet.c:377`, or the guide, `proto.c:44`), and `tcp_read` closes and recycles it again (`epollet.c:425`). The structure is in the free list twice, and two later sockets get the same one. |
| `timers_erase` | `ChunksConserved` | `heap_adjust` compares the pointers to two elements, not their keys. The element that fills an erased slot may belong above its new parent and be sent down instead: a timer is then later than it should be (`HeapOrdered` fails, with the same configuration). If that element is the last one and is erased next, `heap_up` lifts it, from its slot past the end, back into the heap, and its parent takes its place past the end: `del_timer` recycles a timer that is still armed, and another that nobody deleted is lost. It takes five timers. No deletion by the program is needed for the first half (`Deletes = FALSE`, `Past = TRUE`, `HeapOrdered` fails): a callback adds a moment earlier than its own, which is then erased from below the top. |
| `framing_odd` | `ReaderInStep` | A header that does not fit at the end of the buffer is put at its start; `buffer_rectify` moves `write` but not `seek`, and `tcp_guide` reads the size of the message from old bytes or from past the contents. It takes a message whose size is not a multiple of the header's. |

Met while modelling, with no run of their own; the first eight appear when a constant or a
formula of an existing configuration is changed as said:

- *Several ports of one type* (`Many = TRUE` in `MCPorts.cfg`, `Routed` fails): a second
  `listen_port` of a type overwrites `g_tcp_fd_user`, even when it fails, and the messages of
  the first port's connections go to the handlers of the manage port (`proto.c:151`,
  `proto.c:279`).  `README.md:5` of the repository says that one or more TCP ports can be
  listened on.
- *Peers that do not read* (`SPECIFICATION ThreadFairSpec` in `MCSending.cfg`, `SendReturns`
  fails): accepted sockets are blocking, so the `send` of `circle_send` waits and stops
  every coroutine of the thread (on a non-blocking one the loop would go on at EAGAIN, to
  the same effect), though `server.c:178` says that the rest is left to the write event.
- *Sends to a closed client* (`Late = TRUE` in `MCSending.cfg`, `HandedOver` fails): the
  bytes stay in the output buffer and go to the next connection of the structure.
- *The database queue* (`PROPERTY NothingOverwritten` in `MCDbQueue.cfg`): `size++` and
  `size--` race, a pop of an empty queue moves the head past the tail, and a post
  overwrites a message that waits, although `queue.h:45` recommends `push_fixed` for threads.
- *What a connection inherits* (`PROPERTY FreshLink` in `MCServer.cfg`): `client_reset` leaves
  `is_ok`, `read`, `parent` and `alive_time` as they were (`client.h:8`), though it is called
  a reset of the structure (`client.h:7`).  The next connection of the structure begins with
  the `is_ok` of the last: it is put into the ready list with its first bytes, before it has a
  message (`epollet.c:430`), while `client.h:42` says that `is_ok` means read to the end.
  With `read` left over it may also go on in the middle of a piece.
- *Clients that are not heard* (`Heard = FALSE` in `MCFraming.cfg`, `AllDealt` fails): the events
  of a client whose address has bit 31 set do not pass the comparison of `epollet.c:520`,
  and nothing it sends is ever read, though `epollet.c:519` says of the branch that
  it is for the read and write events of TCP.
- *Data in parts* (`Splits = TRUE` in `MCFraming.cfg`: `ReaderInStep`, `ContentsFaithful` and
  `MessagesExact` fail): the first part
  of a later message's data arrives alone.  The client is still ready from the message
  before, `verify` sets `need` to the size of the whole message (`proto.c:116`), and the reader,
  which has a part of the data and wants the rest, now waits for a head more than
  that.  It takes the beginning of the next message for data, and what is then dealt with
  is not a message that was sent.
- A kernel message ends `deal_tcp_msg` at once (`proto.c:148`; `Mixed = TRUE` in
  `MCFraming.cfg`, `AllDealt` fails).  What follows it waits
  until more than `need` is there; a message that is only a header is not dealt with.
- With keep-alive a client that becomes ready is pushed, with the same links, onto a second
  list, and the alive list is cut there (`epollet.c:435`).  With a short and a kept port at
  once it takes no message: a structure that a short connection left ready (`is_ok`)
  makes a kept one ready at its first read.
- A peer hangs up while its client waits in the ready list with bytes that its
  handler left: the flag is cleared and the client recycled, and it is still linked in
  the ready list (`epollet.c:407`).
- `add_alive` does not set `alive_time`: a connection made just before a check is
  closed by it (`alive.c:33`).
- `map_get` allocates the string of every key it looks up and nobody frees it
  (`map.c:87`): the loop leaks 16 bytes or more for each event.

## 6. What is proved, and how

### Lists

The theorems hold for *any* set of elements and any set of lists
(`LinkedLists!`: `Item`, `ListName`, with the assumption that `NULL` is not an
element, and nothing else).

**`ListsAreFaithful`: `Spec => []ListsFaithful`.**  Every legal sequence of
insertions, erasures, moves and iterations leaves links that describe exactly the
intended sequences, and no step follows a null pointer.

**`WalksAreExact`: `Spec => []WalkExact`.**  An iteration visits exactly the elements
that the list had when it began, each once and in order, whatever its body does to
the elements it visits and however many are appended behind it.

**`Typing`: `Spec => []TypeOK`.**

The argument.  `IntrusiveListProofs` contains one theorem per list operation, of the
form: if `Faithful(m, s)` and the call is legal, then `Faithful(m', s')`, where
`m'` is what the code writes and `s'` the sequence operation that is meant.
`Represents(m, l, s)` fixes head, tail and size, and the successor and
predecessor of each position, cyclically; each operation is then a case analysis
on positions (first, last, the insertion point, the others), for each of which
the written links are compared with the positions of the new sequence.  The frame half
(the other lists are untouched) uses that lists are disjoint, so no link the
operation writes belongs to another list.

`LinkedListsProofs` proves the invariant `Inv == TypeOK /\ ListsFaithful /\
Pending`.  `ListsFaithful` alone is inductive for the list operations but says
nothing of an iteration; `WalkExact` alone is not inductive, because what is visited
next depends on an element that was read a step ago.  `Pending` is the missing
half: the elements still to visit are the first `left` ones of the list's
current suffix, and the successor that was read ahead is the first of them,
or wraps to the head when the last has been reached.  `Ahead`, `AheadAppend` and
`AheadVisit` are its preservation under an append, and under the visit with each
of the bodies.

Facts about sequences (`Append`, removing a position, inserting at one) are
lemmas of `IntrusiveListProofs`, stated by index, since the proofs reason by
position.

### Connections

`ServerProofs`, for any number of structures, descriptors and ports, any period and any
order of accepts, reads, hang-ups, failures, dispatches and checks: `Typing`,
`ListsStayWhole` (`[]ListsFaithful`), `ReadyFlagTrue` (`[]ReadyFlag`), `OwnersAgree`
(`[]Ownership`, and with it `[]OneClientPerSocket`), `NoClientLost`
(`[]ClientsConserved`), `EventsFresh` (`[]BatchFresh`) and `LinkAndShut`
(`[]LinkShutAlternate`).

Each is `ASSUME Separate`: all ports are short or all are kept alive; a short connection is
not closed by a failed read or by its handler, and handlers leave no bytes; no message is
completed on a kept one.  These are the restrictions of the run `server`, and each
excludes a defect of section 5 after which the lists are broken.  Nothing weaker would do for
the lists, and nothing else is assumed beyond the types of the constants.

The invariant is `Inv == TypeOK /\ Sound(world) /\ BatchFresh /\ Polled /\ AtHead /\
BeforeEnd`.  The properties are not inductive one by one, since each function relies on what
another left behind.  `Settled(w, c)` collects what everything that refers to a client must
agree on: flag and ready list, registration and descriptor, free list and descriptor, what
the program was told and registration, alive list and regime.  `Apart` says that no two
clients hold one descriptor.  `Sound` is that for every client, with lists that are whole, and
it holds of `world` between any two calls, also in the middle of an action.  The other three
parts say where the loops are: no client of the batch is in the ready list, which is empty when
events are polled (so a hang-up never reaches a client that is enlisted); `issue_tcp_msg` is
at the head of what is left of the ready list; `check_alive` is as many elements before
the end of the alive list as its counter says, although the list changes behind it.

The argument goes by function: lemmas state what linking and unlinking do (from the theorems
of `IntrusiveListProofs`), then what `extract_client`, `recycle_client`, `close_socket` and
the handlers do to a sound world, then one lemma per action.

### The circular queue

`LogProofs`, for any set of values and any capacities:
`Typing`, `IndexesAlwaysAgree` (`Spec => []IndexesAgree`) and `ImplementsFifo`
(`Spec => IsFifo`: the ring implements the sequence).  The run `log` checks the three
properties in the composition; `Log` changes the ring by `queue_push` and `queue_pop` alone.

The invariant is `TypeOK`, `IndexesAgree` (`tail` is `size` slots after `head`, modulo
the capacity) and `Occupied` (the occupied slots hold elements that were pushed, not
null and not what `realloc` left there).  `pop` returns what the head's slot holds, so
even the types are not inductive without `Occupied`, and `Occupied` is not without
`IndexesAgree`, which says that a push writes the slot behind the last.  The hard step is growth: the contents that do not wrap stay, those
that do are moved up by what the ring gained, and `head` with them.  Each position of
the contents is shown to read the same value before and after.  Remainders are
kept out of the prover's way: lemmas state what `(head + i) % max` is below and above
the end, and `%` is not expanded elsewhere.

### The log

`LogProofs`, on top of it, for any number of buffers, lines and capacities: `QueueWellUsed`
(`LogSpec => Spec`: the log is a legal user of the ring, so that its theorems hold in it,
`LogQueueIsFifo`), `BuffersStayApart` (`[]BuffersConserved`) and `LogInOrder`
(`[]LinesInOrder`).

To the ring's invariant `LogInv` adds: the buffers are those of the store, of the queue and
the lost ones, each in one of them and once (`Kept`); queued buffers were initialised; a buffer
that is neither queued nor lost is empty (`Blank`), which is what an extraction relies on; and
`Ordered`: the lines of the file followed by those of the queued buffers are the numbers from 1
on, in order, without those of the lost buffers.  `LinesInOrder` speaks of the file and is
not inductive, since what is written next depends on what waits.  `write_log` moves the first
queued line to the end of the file and leaves the sequence that `Ordered` is about as it is; a
refused push takes the newest number out of it.

### The timers

`TimersProofs`, for any number of timers or moments, any delays, repetitions and clock:
`NoChunkLost` (`[]ChunksConserved`), `StaysHeap` (`[]HeapOrdered`) and `ImplementsAgenda`
(`Spec => IsAgenda`: the heap implements the agenda), for any first length of the heap's array
and any growths that fail.  `NoChunkLost` says that a chunk is lost only by a failed push.  Each is
`ASSUME Deletes = FALSE` and `Past = FALSE`: the program adds timers, also in callbacks,
but calls no `del_timer`, and callbacks add no moment that is past; `check_timers` deletes
every timer after its last run.  That deletion is safe under these hypotheses: it erases the
top, from which the element that fills the slot can only go down, whatever `heap_adjust`
compares.  With deletion by the program, or with past moments from callbacks, which may rise
above the one whose callback runs so that it is erased from the middle, the theorems do not
hold for five timers and more (section 5, `timers_erase`); the run `timers` has both, with four.

`TInv` is `Types /\ Loops /\ Running /\ ChunksConserved`.  `Loops` is the state of a heap in the
middle of a loop: in `heap_up` only slot `at` may be less than its parent, in `heap_down` only
`at` may be greater than its children, and in both the children of `at` are in order with its
parent, without which a swap would break what is below.  `Running` says that the timer whose callback runs is on top
and stays there: a timer that the callback adds is due at `limit` or later, so it never rises
past one that is due, and `Repeated` and `Finished` erase or sink slot 1.  The key of the
refinement is that the root of an ordered tree is least (`TopLeast`), by a least
counterexample, from the well-foundedness of the numbers.  Pushes need that there is a free
slot for a chunk that is not in the heap: the pigeon-hole principle of the library.

### The byte stream

`StreamProofs`, for any sizes of heads, data and buffers, any growth, and any interleaving of
arrivals with the two loops.

**Receiving.**  `Typing`, `BufferIsFaithful` (`[]ContentsFaithful`) and `MessagesAreExact`
(`[]MessagesExact`) are `ASSUME Splits = FALSE`: the data of every message but the first
arrives with its last byte, heads and the data of the first at any byte.  TCP does not promise
that; without it `ContentsFaithful` and `MessagesExact` are false, since `verify` overwrites
`need` while the reader is inside a message (section 5), after which the reader's place means nothing.
Nothing is assumed of the sizes.  `ReaderStaysInStep`
(`[]ReaderInStep`) needs `Aligned` as well, without which it does not hold: `framing_odd`.
That includes that `recv` is never asked for nothing, or for more than there is room for.

The invariant has one part for the buffer, one for the stream, one for the reader.

- `Shaped`: a buffer is `Flat` (the contents are one piece) or `Hollow` (they go on at the
  start, and `gap` is what was left free at the end).  `Holds(b, first)` says which byte lies
  in which slot.  Lemmas state what `rectify`, growth, `write`, `seek` and `read` do to both;
  the hard ones are the growth of a hollow buffer, which moves the upper piece, and the
  choice of `rectify` to start a gap.
- `Chained`: the messages lie one behind the other in the stream.  `Boundary` is the end of a
  head or of a message.  A hollow buffer goes on at the start only at a boundary, since the
  code makes a gap only before a piece; hence a message's data is never split over the end,
  and `MessagesExact`, which is about one step of the parser, follows from what is in the
  buffer before it.
- `Waits` and `Rests`: until the first message is complete the client is not ready; afterwards
  the reader leaves its loop in a head only.  Together they say that the parser is never
  called while the reader is inside data.
- `AtHead` and `AtData`: where in the stream the reader is, given its `status`, `need` and
  `read`.  The guide reads `need` from the buffer's bytes, so this needs the buffer's part;
  and what the buffer holds depends on how much was read, so neither is inductive alone.

`StepInv` is for `ReaderInStep`: the capacities that the buffer goes through (`Capacities`) and
the write index less the part of a head that was read are multiples of a head, so a head that
begins in the buffer fits, and is never moved to the start behind `seek`.

**Sending.**  `StreamIsExact` (`[]StreamExact`) and `SendHandsOver` (`[]HandedOver`), for any
messages, room in the kernel, growth and number of connections of one structure, are `ASSUME
Late = FALSE`: the program sends nothing to a client that is closed (section 5).  `SendInv`
says that the stream so far is the numbers from the connection's first on (`Numbered`), that
the buffer holds the end of what was given (`Last`), and how much of it the kernel has, in and
between the turns of `circle_send` (`CallFits`, `NothingLost`).  The lemmas about the buffer
serve both directions.

### Ports and maps

`PortsProofs`, for any descriptors of at most five digits, codes of 16 bits, handlers,
structures and failures: `PortsAreServed` (`[]PortsServed`, also with several ports of one type)
and `MessagesAreRouted` (`[]Routed`, `ASSUME Many = FALSE`: with several ports of one type it
does not hold, section 5).

The first half is about the map alone: through `map_put` every map stays a partial function.
`Holds(m, ch, u)` relates the tables and links of the memory to explicit chains `ch`, which
are sequences of structures: heads and links agree with them (`Heads`, `Links`), a structure is
in one chain once (`Apart`), one that is in none is linked to none (`Loose`), an entry is in
the slot of its key (`Keyed`) and a key in its chain once (`Once`).  Nothing is said of the hash
but that it is a function with values in the table, so the proofs hold however keys collide.
`map_get` walks the links; in `HashMap` that is a function defined by recursion
along them.  That such a function exists is shown by giving it (`Goal`: the first entry behind
this one that matches), and that any two agree along a chain by a least counterexample, from
the end of the chain (`Least`).  `GetFinds`, `GetMisses` and `PutGets` are what results, and
`Sound` hides the chains: the rest of the module sees partial functions.

The invariant of `Ports` is `PInv`: the maps are sound; `PortsServed`; the map of a type has an
entry exactly for the codes that were registered, with their handlers (`HandlersKnown`); a port's
structure holds its link handler (`LinksKnown`); and what kind of values there are (`Shapes`).
`Routed` follows with `GlobalsTrue`, which says that the descriptor `deal_tcp_msg` compares with
is that of the only port of its type.

### The database queue

`ThreadsProofs`, for any capacity and any number of posts: `DbTyping` and
`NoMessageRunsTwice` (`Spec => []RunAtMostOnce`).

`RunAtMostOnce` says nothing of what is still in the table, so the invariant adds:
`Posted` (what is in the table, held or run was posted), `NewMessage` (a message about to be posted
is none of them), `TableOnce` (it is in one slot), `HeldOnce` (what the consumer holds is in
no slot that will be read again, except the one that it is about to clear), `RunGone` (what was run is in
no slot and not held).  None of them mentions `size`: whatever the race makes of it, only the producer
writes `tail` and only the consumer `head`, and the consumer clears a slot before it
runs what it took.

### The coroutines

`ThreadsProofs`, for any pool, any size of the stack and any words: `Typing`,
`PoolAccounted` (`Spec => []Accounted`) and `StacksArePrivate` (`Spec => RunsPrivately`:
coroutines on one stack implement processes with stacks of their own).

To `TypeOK` and `Accounted` the invariant adds `cap <= MaxPool` and `Kept`: a coroutine
that does not run has saved as many words as its stack pointer says, all of them are in
its copy, and one that never ran has none.  `Kept` is what the types need (a word that is
copied back is one only if it was saved) and what the refinement needs, since the abstract
stack of a coroutine is read from the shared stack while it runs and, backwards, from its
copy otherwise.  A yield and a resume change where the words are and are shown to leave
each abstract stack the same; a call and a return change that of the coroutine that runs
alone.  `Accounted` counts with cardinalities, from the library's theorems on finite sets.

## 7. What is only model-checked, and what is not modelled

Liveness (`WalkEnds`, `ReadyServed`, `Reclaimed`, `NothingStaysOverdue`, `AllDealt`,
`Written`, `EveryTurn`, `SendReturns`) rests on fairness and ENABLED and is checked by TLC
only.  So are the properties of `Timers` when the program deletes timers or callbacks add past
moments: with five timers they fail (section 5), so that there is no theorem for every number of them.  The inductive invariants of section 6 were
checked by TLC on the instances of section 3 before they were proved.  What is proved under a hypothesis (`Separate`,
`Deletes = FALSE`, `Past = FALSE`, `Splits = FALSE`, `Aligned`, `Late = FALSE`, `Many = FALSE`) is not claimed
without it: section 5 names the defect that each leaves aside.  Induction over data and RECURSIVE
operators are out of the prover's reach.  No module here declares a RECURSIVE operator; where a
function is recursive, along the links of a chain, the proof gives the function and compares by
least counterexamples.

Not modelled, with the reason per component in `PROJECT.json`: the write event's send; the
store of chunks under two threads; the array and the stack; the wording of log lines;
socket options other than those named; the MySQL helper; tests and demo programs.  In the
modelled files: `list_clear`, which frees elements through links it has just zeroed and has
no caller; `map_remove`, `map_clear`, the frees of maps and `coroutine_close`, which the
library does not call; the growth of the array behind `get_client`; start-up that fails
half-way (`proto_init`, `init_log`, `init_database`), after which the program ends;
shut-down.

A handler that closes the client it is called for (`Kicks`) is modelled, but no
passing run allows it: without keep-alive the client is then in the free and the
ready list at once, and the lists are corrupted one step later.

## 8. Plan

Order of work, the most important behaviour first.

1. *Done.* `IntrusiveList`, `LinkedLists` and their proofs: everything else stands
   on the lists.
2. *Done.* `Server`: connections, batches, readiness, keep-alive.
3. *Done.* `Fifo`, `CircularQueue`, `DbQueue`.
4. *Done.* `Heap`, `Agenda`, `Timers`.
5. *Done.* `Buffer`, `Framing`.
6. *Done.* `Processes`, `Coroutines`.
7. *Done.* `Log` on `CircularQueue`, with the store of buffers.
8. *Done.* `Sending` on `Buffer`; `HashMap`, `Ports`.
9. *Done.* The theorems about the byte stream, the ports and the maps.
10. Left: the array behind `get_client`; the store under two threads.

With these the theorems of section 6 cover every safety property of the passing runs, each
under the hypotheses it names.  Deletion
by the program could be proved for an instance whose `heap_adjust` compares keys, which is not
this code's.
