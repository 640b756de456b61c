------------------------------ MODULE ServerProofs ------------------------------
(***************************************************************************)
(* Theorems about Server, for any number of structures, descriptors and    *)
(* ports, under the separation of short and kept connections (Separate).   *)
(***************************************************************************)
EXTENDS Server, IntrusiveListProofs

-----------------------------------------------------------------------------
(* The inductive invariant.                                                 *)

\* The lists of w are whole.
Good(w) == w \in World /\ Faithful(w.mem, w.lists)

\* epoll knows a descriptor of c.
Owns(w, c) == \E f \in Fd : w.reg[f] = c

\* What a client is, seen from everything that refers to it: its descriptor, its
\* lists, its registration and what the program was told of it agree.
\*   - A structure that may be given to the next connection is not safe, and one
\*     that was never allocated is nowhere.
\*   - A kept client is in the alive list if it is registered, never in the ready
\*     list; a short one is never in the alive list.
Settled(w, c) ==
    /\ w.cli[c].is_ready <=> In(w, "ready", c)
    /\ \A f \in Fd : w.reg[f] = c => w.cli[c].fd = f
    /\ w.cli[c].fd # NoFd => w.cli[c].fd \in w.open
    /\ c < w.stored => (In(w, "free", c) <=> w.cli[c].fd = NoFd /\ ~In(w, "alive", c))
    /\ c >= w.stored => w.cli[c].fd = NoFd /\ \A l \in ListName : ~In(w, l, c)
    /\ c >= w.stored \/ In(w, "free", c) => ~w.cli[c].is_safe
    /\ w.cli[c].told = "twice" => Heart(w, c)
    /\ w.cli[c].told = "link" <=> Owns(w, c)
    /\ w.heart = {} => ~In(w, "alive", c)
    /\ w.heart # {} => ~w.cli[c].is_ok /\ ~In(w, "ready", c)
    /\ w.heart # {} /\ Owns(w, c) => In(w, "alive", c)
    /\ In(w, "alive", c) => Heart(w, c)

\* No two clients hold the same descriptor, registered or not.
Apart(w) ==
    \A c, d \in Client : w.cli[c].fd = w.cli[d].fd /\ w.cli[c].fd # NoFd => c = d

Sound(w) == Good(w) /\ Apart(w) /\ \A c \in Client : Settled(w, c)

\* While events are dispatched their clients are not in the ready list, which is
\* empty when they are polled; no events are kept over a yield.
Polled ==
    /\ pc = "epoll" => \A c \in Client : ~In(world, "ready", c)
    /\ pc \notin {"dispatch"} \cup Port => batch = {}
    /\ \A e \in batch \ Listening : ~In(world, "ready", e.client)

\* issue_tcp_msg is at the head of what is left in the ready list.
AtHead ==
    pc = "visit" =>
        LET s == world.lists["ready"]
        IN  cursor.left = Len(s) /\ (s # <<>> => cursor.item = s[1])

\* check_alive is that many elements before the end of the alive list.
BeforeEnd ==
    pc = "check" =>
        LET s == world.lists["alive"]
        IN  /\ cursor.left \in 0..Len(s)
            /\ cursor.left > 0 => cursor.item = s[Len(s) - cursor.left + 1]

Inv ==
    /\ TypeOK /\ Sound(world)
    /\ BatchFresh /\ Polled /\ AtHead /\ BeforeEnd

-----------------------------------------------------------------------------
(* What the functions do to a world whose lists are whole.                  *)

LEMMA ItemIsClient == Item = Client
  BY ServerAssumption

\* Only the links, and the contents of the lists, differ.
OnlyLists(w, x) ==
    /\ x.heart = w.heart /\ x.cli = w.cli /\ x.reg = w.reg
    /\ x.open = w.open /\ x.stored = w.stored

\* Linking a client that is in no list.
LEMMA LinkEffect ==
    ASSUME NEW w, Good(w), NEW l \in ListName, NEW c \in Client,
           \A k \in ListName : ~In(w, k, c)
    PROVE  /\ Good(Link(w, l, c)) /\ OnlyLists(w, Link(w, l, c))
           /\ \A k \in ListName, d \in Client :
                 In(Link(w, l, c), k, d) <=> In(w, k, d) \/ (k = l /\ d = c)
           /\ \A k \in ListName : k # l => Link(w, l, c).lists[k] = w.lists[k]
<1>1. PICK m \in Memory, ls \in [ListName -> Seq(Item)] : m = w.mem /\ ls = w.lists
  BY ItemIsClient DEF Good, World
<1>2. Faithful(m, ls) /\ \A k \in ListName : c \notin ToSet(ls[k])
  BY <1>1 DEF Good, In
<1>3. PICK r, us : r = PushBack(m, l, c) /\ us = [ls EXCEPT ![l] = Append(ls[l], c)]
  OBVIOUS
<1>4. /\ r \in Memory /\ us \in [ListName -> Seq(Client)] /\ Faithful(r, us)
      /\ ToSet(Append(ls[l], c)) = ToSet(ls[l]) \cup {c}
  <2>1. c \in Item
    BY ItemIsClient
  <2>2. /\ PushBack(m, l, c) \in Memory
        /\ [ls EXCEPT ![l] = Append(ls[l], c)] \in [ListName -> Seq(Item)]
        /\ Faithful(PushBack(m, l, c), [ls EXCEPT ![l] = Append(ls[l], c)])
    BY <1>2, <2>1, FaithfulPushBack
  <2>3. ToSet(Append(ls[l], c)) = ToSet(ls[l]) \cup {c}
    BY <2>1, AppendRange
  <2> QED  BY <1>3, <2>2, <2>3, ItemIsClient
<1>5. PICK x : x = Link(w, l, c)
  OBVIOUS
<1>6. x = [w EXCEPT !.mem = r, !.lists = us]
  BY <1>1, <1>3, <1>5 DEF Link, Good, World
<1>7. /\ x \in World /\ x.mem = r /\ x.lists = us /\ OnlyLists(w, x)
  BY <1>4, <1>6 DEF Good, World, OnlyLists
<1>8. \A k \in ListName : us[k] = IF k = l THEN Append(ls[l], c) ELSE ls[k]
  BY <1>2, <1>3
<1>9. \A k \in ListName, d \in Client : In(x, k, d) <=> In(w, k, d) \/ (k = l /\ d = c)
  BY <1>1, <1>4, <1>7, <1>8 DEF In
<1> QED  BY <1>1, <1>4, <1>5, <1>7, <1>8, <1>9 DEF Good

\* Unlinking a client from the list it is in.
LEMMA UnlinkEffect ==
    ASSUME NEW w, Good(w), NEW l \in ListName, NEW c \in Client, In(w, l, c)
    PROVE  /\ Good(Unlink(w, l, c)) /\ OnlyLists(w, Unlink(w, l, c))
           /\ \A k \in ListName, d \in Client :
                 In(Unlink(w, l, c), k, d) <=> In(w, k, d) /\ ~(k = l /\ d = c)
           /\ \A k \in ListName : k # l => Unlink(w, l, c).lists[k] = w.lists[k]
           /\ \A i \in 1..Len(w.lists[l]) :
                 w.lists[l][i] = c => Unlink(w, l, c).lists[l] = RemoveAt(w.lists[l], i)
<1>1. PICK m, ls : m = w.mem /\ ls = w.lists
  OBVIOUS
<1>2. /\ m \in Memory /\ ls \in [ListName -> Seq(Item)] /\ Faithful(m, ls)
      /\ c \in ToSet(ls[l])
  BY <1>1, ItemIsClient DEF Good, World, In
<1>3. PICK s : s = ls[l]
  OBVIOUS
<1>4. /\ s \in Seq(Item) /\ Represents(m, l, s)
      /\ \A j, k \in 1..Len(s) : s[j] = s[k] => j = k
  BY <1>2, <1>3 DEF Faithful, Represents
<1>5. PICK i \in 1..Len(s) : s[i] = c
  BY <1>2, <1>3, <1>4, LenProperties DEF ToSet
<1>6. RemoveFirst(s, c) = RemoveAt(s, i)
  BY <1>4, <1>5, RemoveFirstIsRemoveAt
<1>7. PICK r, us : r = Erase(m, l, c) /\ us = [ls EXCEPT ![l] = RemoveAt(s, i)]
  OBVIOUS
<1>8. r \in Memory /\ us \in [ListName -> Seq(Client)] /\ Faithful(r, us)
  BY <1>2, <1>3, <1>5, <1>7, FaithfulErase, ItemIsClient
<1>9. ToSet(RemoveAt(s, i)) = ToSet(s) \ {c}
  BY <1>4, <1>5, RemoveAtRange
<1>10. PICK x : x = Unlink(w, l, c)
  OBVIOUS
<1>11. x = [w EXCEPT !.mem = r, !.lists = us]
  BY <1>1, <1>3, <1>6, <1>7, <1>10 DEF Unlink, Good, World
<1>12. /\ x \in World /\ x.mem = r /\ x.lists = us /\ OnlyLists(w, x)
  BY <1>8, <1>11 DEF Good, World, OnlyLists
<1>13. \A k \in ListName : us[k] = IF k = l THEN RemoveAt(s, i) ELSE ls[k]
  BY <1>2, <1>7
<1>14. \A k \in ListName, d \in Client : In(x, k, d) <=> In(w, k, d) /\ ~(k = l /\ d = c)
  BY <1>1, <1>3, <1>9, <1>12, <1>13 DEF In
<1>15. \A j \in 1..Len(s) : s[j] = c => j = i
  BY <1>4, <1>5
<1> QED  BY <1>1, <1>3, <1>8, <1>10, <1>12, <1>13, <1>14, <1>15 DEF Good

-----------------------------------------------------------------------------
(* One client changes, the others are as they were.                         *)

Others(w, x, c) ==
    \A d \in Client \ {c} :
        /\ x.cli[d] = w.cli[d]
        /\ \A k \in ListName : In(x, k, d) <=> In(w, k, d)
        /\ \A f \in Fd : x.reg[f] = d <=> w.reg[f] = d

\* What of a connection Settled speaks of: all but its age and its need.
SameClient(w, x, d) ==
    /\ x.cli[d].fd = w.cli[d].fd /\ x.cli[d].parent = w.cli[d].parent
    /\ x.cli[d].is_ok = w.cli[d].is_ok /\ x.cli[d].is_ready = w.cli[d].is_ready
    /\ x.cli[d].is_safe = w.cli[d].is_safe /\ x.cli[d].told = w.cli[d].told

LEMMA StaysSettled ==
    ASSUME NEW w, NEW x, NEW d \in Client, Settled(w, d), SameClient(w, x, d),
           \A k \in ListName : In(x, k, d) <=> In(w, k, d),
           \A f \in Fd : x.reg[f] = d <=> w.reg[f] = d,
           x.heart = w.heart,
           w.cli[d].fd # NoFd => w.cli[d].fd \in x.open,
           d < w.stored <=> d < x.stored, w.stored \in Nat, x.stored \in Nat
    PROVE  Settled(x, d)
<1>1. d \in Nat
  BY ServerAssumption DEF Client
<1>2. Owns(x, d) <=> Owns(w, d)
  BY DEF Owns
<1>3. Heart(x, d) <=> Heart(w, d)
  BY DEF Heart, SameClient
<1>4. d >= x.stored <=> d >= w.stored
  BY <1>1
<1>5. "free" \in ListName /\ "alive" \in ListName /\ "ready" \in ListName
  BY ServerAssumption
<1>6. /\ In(x, "free", d) <=> In(w, "free", d)
      /\ In(x, "alive", d) <=> In(w, "alive", d)
      /\ In(x, "ready", d) <=> In(w, "ready", d)
  BY <1>5
<1> QED  BY <1>2, <1>3, <1>4, <1>6 DEF Settled, SameClient

LEMMA OneChanged ==
    ASSUME NEW w, NEW x, NEW c \in Client, Sound(w), Good(x), Others(w, x, c),
           x.heart = w.heart,
           x.stored = w.stored \/ (x.stored = w.stored + 1 /\ c = w.stored),
           \A d \in Client \ {c} : w.cli[d].fd # NoFd => w.cli[d].fd \in x.open,
           x.cli[c].fd = NoFd \/ \A d \in Client \ {c} : w.cli[d].fd # x.cli[c].fd,
           Settled(x, c)
    PROVE  Sound(x)
<1>1. w.stored \in Nat /\ x.stored \in Nat
  BY DEF Sound, Good, World
<1>2. \A d \in Client \ {c} : Settled(x, d)
  <2>1. SUFFICES ASSUME NEW d \in Client \ {c} PROVE Settled(x, d)
    OBVIOUS
  <2>2. d \in Nat /\ c \in Nat
    BY ServerAssumption DEF Client
  <2>3. d < w.stored <=> d < x.stored
    BY <1>1, <2>2
  <2>4. SameClient(w, x, d)
    BY DEF SameClient, Others
  <2>5. Settled(w, d)
    BY DEF Sound
  <2>6. /\ \A k \in ListName : In(x, k, d) <=> In(w, k, d)
        /\ \A f \in Fd : x.reg[f] = d <=> w.reg[f] = d
    BY DEF Others
  <2> QED  BY <1>1, <2>3, <2>4, <2>5, <2>6, StaysSettled
<1>3. Apart(x)
  <2>1. \A d \in Client \ {c} : x.cli[d].fd = w.cli[d].fd
    BY DEF Others
  <2>2. Apart(w)
    BY DEF Sound
  <2> QED  BY <2>1, <2>2 DEF Apart
<1> QED  BY <1>2, <1>3 DEF Sound

\* Under Separate, no kept port is missing.
LEMMA HeartIsPort ==
    ASSUME Separate, NEW w, Good(w), w.heart # {}
    PROVE  w.heart = Port
  BY DEF Separate, Good, World

-----------------------------------------------------------------------------
(* What the functions of client.c and close_socket do to one client.        *)

\* Writing two fields of a client, one after the other.
Put(w, c, g) == [w EXCEPT !.cli = [w.cli EXCEPT ![c] = g]]

LEMMA PutTwice ==
    ASSUME NEW w, w \in World, NEW c \in Client, NEW g \in Connection, NEW h \in Connection
    PROVE  /\ Put(w, c, g) \in World /\ Put(w, c, g).cli[c] = g
           /\ Put(Put(w, c, g), c, h) = Put(w, c, h)
<1>1. PICK a, b : a = [w.cli EXCEPT ![c] = g] /\ b = [w.cli EXCEPT ![c] = h]
  OBVIOUS
<1>2. a \in [Client -> Connection] /\ a[c] = g /\ b = [a EXCEPT ![c] = h]
  BY <1>1 DEF World
<1>3. PICK x : x = [w EXCEPT !.cli = a]
  OBVIOUS
<1>4. x \in World /\ x.cli = a /\ [x EXCEPT !.cli = b] = [w EXCEPT !.cli = b]
  BY <1>2, <1>3 DEF World
<1> QED  BY <1>1, <1>2, <1>3, <1>4 DEF Put

LEMMA ResetEffect ==
    ASSUME NEW w, Good(w), NEW c \in Client, NEW x, x = Reset(w, c)
    PROVE  /\ Good(x) /\ x.mem = w.mem /\ x.lists = w.lists
           /\ x.heart = w.heart /\ x.reg = w.reg /\ x.open = w.open
           /\ x.stored = w.stored
           /\ \A d \in Client \ {c} : x.cli[d] = w.cli[d]
           /\ x.cli[c].fd = NoFd /\ ~x.cli[c].is_ready /\ ~x.cli[c].is_safe
           /\ x.cli[c].parent = w.cli[c].parent /\ x.cli[c].told = w.cli[c].told
           /\ x.cli[c].is_ok = w.cli[c].is_ok
<1>1. PICK e \in Connection : e = w.cli[c]
  BY DEF Good, World
<1>2. PICK g : g = [e EXCEPT !.fd = NoFd, !.need = FALSE, !.is_ready = FALSE, !.is_safe = FALSE]
  OBVIOUS
<1>3. /\ g \in Connection
      /\ g.fd = NoFd /\ ~g.is_ready /\ ~g.is_safe
      /\ g.parent = e.parent /\ g.told = e.told /\ g.is_ok = e.is_ok
  BY <1>2 DEF Connection
<1>4. PICK cc : cc = [w.cli EXCEPT ![c] = g]
  OBVIOUS
<1>5. cc \in [Client -> Connection] /\ cc[c] = g /\ \A d \in Client \ {c} : cc[d] = w.cli[d]
  BY <1>3, <1>4 DEF Good, World
<1>6. x = [w EXCEPT !.cli = cc]
  <2>1. PICK g1 \in Connection, g2 \in Connection, g3 \in Connection :
           /\ g1 = [e EXCEPT !.fd = NoFd] /\ g2 = [g1 EXCEPT !.need = FALSE]
           /\ g3 = [g2 EXCEPT !.is_ready = FALSE] /\ g = [g3 EXCEPT !.is_safe = FALSE]
    BY <1>2 DEF Connection
  <2>2. w \in World
    BY DEF Good
  <2>3. PICK x1 : x1 = [w EXCEPT !.cli[c].fd = NoFd]
    OBVIOUS
  <2>4. x1 = Put(w, c, g1) /\ x1 \in World /\ x1.cli[c] = g1
    <3>1. x1 = Put(w, c, g1)
      BY <1>1, <2>1, <2>2, <2>3 DEF World, Put
    <3> QED  BY <2>2, <3>1, PutTwice
  <2>5. PICK x2 : x2 = [x1 EXCEPT !.cli[c].need = FALSE]
    OBVIOUS
  <2>6. x2 = Put(w, c, g2) /\ x2 \in World /\ x2.cli[c] = g2
    <3>1. x2 = Put(x1, c, g2)
      BY <2>1, <2>4, <2>5 DEF World, Put
    <3> QED  BY <2>2, <2>4, <3>1, PutTwice
  <2>7. PICK x3 : x3 = [x2 EXCEPT !.cli[c].is_ready = FALSE]
    OBVIOUS
  <2>8. x3 = Put(w, c, g3) /\ x3 \in World /\ x3.cli[c] = g3
    <3>1. x3 = Put(x2, c, g3)
      BY <2>1, <2>6, <2>7 DEF World, Put
    <3> QED  BY <2>2, <2>6, <3>1, PutTwice
  <2>9. x = [x3 EXCEPT !.cli[c].is_safe = FALSE]
    BY <2>3, <2>5, <2>7 DEF Reset
  <2>10. x = Put(x3, c, g)
    BY <2>1, <2>8, <2>9 DEF World, Put
  <2>11. x = Put(w, c, g)
    BY <1>3, <2>2, <2>8, <2>10, PutTwice
  <2> QED  BY <1>4, <2>11 DEF Put
<1>7. /\ x \in World /\ x.mem = w.mem /\ x.lists = w.lists /\ x.cli = cc
      /\ x.heart = w.heart /\ x.reg = w.reg /\ x.open = w.open /\ x.stored = w.stored
  BY <1>5, <1>6 DEF Good, World
<1> QED  BY <1>1, <1>3, <1>5, <1>7 DEF Good

LEMMA CloseFdEffect ==
    ASSUME NEW w, Good(w), NEW c \in Client, NEW x, x = CloseFd(w, c)
    PROVE  /\ Good(x) /\ x.mem = w.mem /\ x.lists = w.lists
           /\ x.heart = w.heart /\ x.stored = w.stored
           /\ x.open = w.open \ {w.cli[c].fd}
           /\ \A f \in Fd : x.reg[f] = IF f = w.cli[c].fd THEN NULL ELSE w.reg[f]
           /\ \A d \in Client \ {c} : x.cli[d] = w.cli[d]
           /\ x.cli[c].fd = NoFd
           /\ x.cli[c].is_ready = w.cli[c].is_ready
           /\ x.cli[c].is_safe = w.cli[c].is_safe
           /\ x.cli[c].parent = w.cli[c].parent /\ x.cli[c].told = w.cli[c].told
           /\ x.cli[c].is_ok = w.cli[c].is_ok
<1>1. PICK e \in Connection : e = w.cli[c]
  BY DEF Good, World
<1>2. NoFd \notin Fd
  BY ServerAssumption DEF NoFd
<1>3. CASE e.fd = NoFd
  <2>1. x = w
    BY <1>1, <1>3 DEF CloseFd
  <2>2. w.open = w.open \ {NoFd} /\ \A f \in Fd : f # NoFd
    BY <1>2 DEF Good, World
  <2> QED  BY <1>1, <1>3, <2>1, <2>2
<1>4. CASE e.fd # NoFd
  <2>1. e.fd \in Fd
    BY <1>4 DEF Connection
  <2>2. PICK g : g = [e EXCEPT !.fd = NoFd]
    OBVIOUS
  <2>3. /\ g \in Connection
        /\ g.fd = NoFd /\ g.is_ready = e.is_ready /\ g.is_safe = e.is_safe
        /\ g.parent = e.parent /\ g.told = e.told /\ g.is_ok = e.is_ok
    BY <2>2 DEF Connection
  <2>4. x = [w EXCEPT !.reg = [w.reg EXCEPT ![e.fd] = NULL], !.open = w.open \ {e.fd},
                      !.cli = [w.cli EXCEPT ![c] = g]]
    BY <1>1, <1>4, <2>2 DEF CloseFd, Good, World
  <2>5. /\ [w.reg EXCEPT ![e.fd] = NULL] \in [Fd -> Client \cup {NULL}]
        /\ [w.cli EXCEPT ![c] = g] \in [Client -> Connection]
        /\ w.open \ {e.fd} \in SUBSET Fd
    BY <2>3 DEF Good, World
  <2>6. x \in World
    BY <2>4, <2>5 DEF Good, World
  <2>7. /\ x.mem = w.mem /\ x.lists = w.lists /\ x.heart = w.heart /\ x.stored = w.stored
        /\ x.open = w.open \ {e.fd} /\ x.reg = [w.reg EXCEPT ![e.fd] = NULL]
        /\ x.cli = [w.cli EXCEPT ![c] = g]
    BY <2>4 DEF Good, World
  <2>8. /\ \A f \in Fd : x.reg[f] = IF f = e.fd THEN NULL ELSE w.reg[f]
        /\ \A d \in Client \ {c} : x.cli[d] = w.cli[d]
        /\ x.cli[c] = g
    BY <2>7 DEF Good, World
  <2>9. Good(x)
    BY <2>6, <2>7 DEF Good
  <2> QED  BY <1>1, <2>3, <2>7, <2>8, <2>9
<1> QED  BY <1>3, <1>4

LEMMA CallShutEffect ==
    ASSUME NEW w, Good(w), NEW c \in Client, NEW x, x = CallShut(w, c)
    PROVE  /\ Good(x) /\ x.mem = w.mem /\ x.lists = w.lists
           /\ x.heart = w.heart /\ x.reg = w.reg /\ x.open = w.open
           /\ x.stored = w.stored
           /\ \A d \in Client \ {c} : x.cli[d] = w.cli[d]
           /\ x.cli[c].fd = w.cli[c].fd
           /\ x.cli[c].is_ready = w.cli[c].is_ready
           /\ x.cli[c].is_safe = w.cli[c].is_safe
           /\ x.cli[c].parent = w.cli[c].parent
           /\ x.cli[c].is_ok = w.cli[c].is_ok
           /\ x.cli[c].told # "link"
           /\ w.cli[c].told = "link" => x.cli[c].told = "shut"
<1>1. PICK e \in Connection : e = w.cli[c]
  BY DEF Good, World
<1>2. PICK t \in {"shut", "twice"} : /\ t = Told(e.told, "shut")
                                     /\ e.told = "link" => t = "shut"
  BY DEF Told
<1>3. PICK g : g = [e EXCEPT !.told = t]
  OBVIOUS
<1>4. /\ g \in Connection
      /\ g.fd = e.fd /\ g.is_ready = e.is_ready /\ g.is_safe = e.is_safe
      /\ g.parent = e.parent /\ g.told = t /\ g.is_ok = e.is_ok
  BY <1>2, <1>3 DEF Connection
<1>5. x = [w EXCEPT !.cli = [w.cli EXCEPT ![c] = g]]
  BY <1>1, <1>2, <1>3 DEF CallShut, Good, World
<1>6. /\ Good(x) /\ x.mem = w.mem /\ x.lists = w.lists
      /\ x.heart = w.heart /\ x.reg = w.reg /\ x.open = w.open
      /\ x.stored = w.stored
      /\ \A d \in Client \ {c} : x.cli[d] = w.cli[d]
      /\ x.cli[c] = g
  <2>1. [w.cli EXCEPT ![c] = g] \in [Client -> Connection]
    BY <1>4 DEF Good, World
  <2>2. x \in World /\ x.mem = w.mem /\ x.lists = w.lists /\ x.cli = [w.cli EXCEPT ![c] = g]
    BY <1>5, <2>1 DEF Good, World
  <2>3. x.heart = w.heart /\ x.reg = w.reg /\ x.open = w.open /\ x.stored = w.stored
    BY <1>5 DEF Good, World
  <2> QED  BY <2>2, <2>3 DEF Good, World
<1> QED  BY <1>1, <1>2, <1>4, <1>6

\* A list holds a client once, and no two lists hold it.
LEMMA InOneList ==
    ASSUME NEW w, Good(w), NEW c \in Client, NEW k \in ListName, NEW l \in ListName,
           In(w, k, c), In(w, l, c)
    PROVE  k = l
  BY DEF Good, Faithful, In

\* recycle_client on a client that is in no list.
LEMMA RecycleEffect ==
    ASSUME NEW w, Good(w), NEW c \in Client, NEW x, x = recycle_client(w, c),
           \A k \in ListName : ~In(w, k, c)
    PROVE  /\ Good(x)
           /\ x.heart = w.heart /\ x.reg = w.reg /\ x.open = w.open
           /\ x.stored = w.stored
           /\ \A d \in Client \ {c} : x.cli[d] = w.cli[d]
           /\ x.cli[c].fd = NoFd /\ ~x.cli[c].is_ready /\ ~x.cli[c].is_safe
           /\ x.cli[c].parent = w.cli[c].parent /\ x.cli[c].told = w.cli[c].told
           /\ x.cli[c].is_ok = w.cli[c].is_ok
           /\ \A k \in ListName, d \in Client :
                 In(x, k, d) <=> In(w, k, d) \/ (k = "free" /\ d = c)
           /\ \A k \in ListName : k # "free" => x.lists[k] = w.lists[k]
<1>1. PICK y : y = Reset(w, c)
  OBVIOUS
<1>2. /\ Good(y) /\ y.mem = w.mem /\ y.lists = w.lists
      /\ y.heart = w.heart /\ y.reg = w.reg /\ y.open = w.open
      /\ y.stored = w.stored
      /\ \A d \in Client \ {c} : y.cli[d] = w.cli[d]
      /\ y.cli[c].fd = NoFd /\ ~y.cli[c].is_ready /\ ~y.cli[c].is_safe
      /\ y.cli[c].parent = w.cli[c].parent /\ y.cli[c].told = w.cli[c].told
      /\ y.cli[c].is_ok = w.cli[c].is_ok
  BY <1>1, ResetEffect
<1>3. \A k \in ListName, d \in Client : In(y, k, d) <=> In(w, k, d)
  BY <1>2 DEF In
<1>4. x = Link(y, "free", c) /\ "free" \in ListName
  BY <1>1, ServerAssumption DEF recycle_client
<1>5. \A k \in ListName : ~In(y, k, c)
  BY <1>3
<1>6. /\ Good(x) /\ OnlyLists(y, x)
      /\ \A k \in ListName, d \in Client :
            In(x, k, d) <=> In(y, k, d) \/ (k = "free" /\ d = c)
      /\ \A k \in ListName : k # "free" => x.lists[k] = y.lists[k]
  BY <1>2, <1>4, <1>5, LinkEffect
<1> QED  BY <1>2, <1>3, <1>6 DEF OnlyLists

\* A kept connection stays in the alive list, without a descriptor; it may have
\* been closed before.
LEMMA CloseKept ==
    ASSUME NEW w, Sound(w), NEW c \in Client, w.heart # {}, In(w, "alive", c),
           NEW x, x = close_socket(w, c)
    PROVE  /\ Sound(x) /\ Others(w, x, c)
           /\ x.heart = w.heart /\ x.mem = w.mem /\ x.lists = w.lists
           /\ x.cli[c].fd = NoFd /\ x.cli[c].told # "link"
<1>1. PICK y : y = CloseFd(w, c)
  OBVIOUS
<1>2. Good(w) /\ Settled(w, c) /\ Apart(w)
  BY DEF Sound
<1>3. Heart(w, c)
  BY <1>2 DEF Settled
<1>4. x = CallShut(y, c)
  BY <1>1, <1>3 DEF close_socket
<1>5. /\ Good(y) /\ y.mem = w.mem /\ y.lists = w.lists
      /\ y.heart = w.heart /\ y.stored = w.stored
      /\ y.open = w.open \ {w.cli[c].fd}
      /\ \A f \in Fd : y.reg[f] = IF f = w.cli[c].fd THEN NULL ELSE w.reg[f]
      /\ \A d \in Client \ {c} : y.cli[d] = w.cli[d]
      /\ y.cli[c].fd = NoFd
      /\ y.cli[c].is_ready = w.cli[c].is_ready
      /\ y.cli[c].is_safe = w.cli[c].is_safe
      /\ y.cli[c].parent = w.cli[c].parent
      /\ y.cli[c].is_ok = w.cli[c].is_ok
  BY <1>1, <1>2, CloseFdEffect
<1>6. /\ Good(x) /\ x.mem = y.mem /\ x.lists = y.lists
      /\ x.heart = y.heart /\ x.reg = y.reg /\ x.open = y.open
      /\ x.stored = y.stored
      /\ \A d \in Client \ {c} : x.cli[d] = y.cli[d]
      /\ x.cli[c].fd = y.cli[c].fd
      /\ x.cli[c].is_ready = y.cli[c].is_ready
      /\ x.cli[c].is_safe = y.cli[c].is_safe
      /\ x.cli[c].parent = y.cli[c].parent
      /\ x.cli[c].is_ok = y.cli[c].is_ok
      /\ x.cli[c].told # "link"
  BY <1>4, <1>5, CallShutEffect
<1>7. \A k \in ListName, d \in Client : In(x, k, d) <=> In(w, k, d)
  BY <1>5, <1>6 DEF In
<1>8. NULL \notin Client
  BY ItemIsClient, ListAssumption
<1>9. \A f \in Fd : w.reg[f] = c => f = w.cli[c].fd
  BY <1>2 DEF Settled
<1>10. ~Owns(x, c) /\ \A f \in Fd : x.reg[f] # c
  BY <1>5, <1>6, <1>8, <1>9 DEF Owns
<1>11. Others(w, x, c)
  <2>1. \A d \in Client \ {c} : \A f \in Fd : x.reg[f] = d <=> w.reg[f] = d
    <3>1. SUFFICES ASSUME NEW d \in Client \ {c}, NEW f \in Fd
                   PROVE  x.reg[f] = d <=> w.reg[f] = d
      OBVIOUS
    <3>2. w.reg[f] = d => f = w.cli[d].fd
      BY DEF Sound, Settled
    <3>3. f = w.cli[c].fd => w.reg[f] # d
      BY <1>2, <3>2, ServerAssumption DEF Apart, NoFd
    <3> QED  BY <1>5, <1>6, <1>8, <3>3
  <2> QED  BY <1>5, <1>6, <1>7, <2>1 DEF Others
<1>12. Heart(x, c)
  BY <1>3, <1>5, <1>6 DEF Heart
<1>13. Settled(x, c)
  <2>1. /\ In(x, "alive", c) /\ (In(x, "ready", c) <=> In(w, "ready", c))
        /\ (In(x, "free", c) <=> In(w, "free", c))
    BY <1>7, ServerAssumption
  <2>2. ~(c >= w.stored)
    BY <1>2, ServerAssumption DEF Settled
  <2>3. ~In(w, "free", c)
    BY InOneList, <1>2, ServerAssumption
  <2>4. /\ x.cli[c].is_ready <=> In(x, "ready", c)
        /\ x.heart # {} => ~x.cli[c].is_ok /\ ~In(x, "ready", c)
    BY <1>2, <1>5, <1>6, <2>1 DEF Settled
  <2> QED  BY <1>5, <1>6, <1>10, <1>12, <2>1, <2>2, <2>3, <2>4 DEF Settled
<1>14. \A d \in Client \ {c} : w.cli[d].fd # NoFd => w.cli[d].fd \in x.open
  <2>1. SUFFICES ASSUME NEW d \in Client \ {c}, w.cli[d].fd # NoFd
                 PROVE  w.cli[d].fd \in x.open
    OBVIOUS
  <2>2. w.cli[d].fd \in w.open
    BY <2>1 DEF Sound, Settled
  <2>3. w.cli[d].fd # w.cli[c].fd
    BY <1>2, <2>1 DEF Apart
  <2> QED  BY <1>5, <1>6, <2>2, <2>3
<1>15. Sound(x)
  BY <1>5, <1>6, <1>11, <1>13, <1>14, OneChanged
<1> QED  BY <1>5, <1>6, <1>11, <1>15

\* A registered short connection goes to the free list.
LEMMA CloseShort ==
    ASSUME NEW w, Sound(w), NEW c \in Client, w.heart = {}, Owns(w, c),
           ~In(w, "ready", c), NEW x, x = close_socket(w, c)
    PROVE  /\ Sound(x) /\ Others(w, x, c)
           /\ x.heart = w.heart /\ ~In(x, "ready", c) /\ x.cli[c].told # "link"
<1>1. PICK y : y = CloseFd(w, c)
  OBVIOUS
<1>2. Good(w) /\ Settled(w, c) /\ Apart(w)
  BY DEF Sound
<1>3. ~Heart(w, c)
  BY DEF Heart
<1>4. PICK z : z = recycle_client(y, c)
  OBVIOUS
<1>5. x = CallShut(z, c)
  BY <1>1, <1>3, <1>4 DEF close_socket
<1>6. /\ Good(y) /\ y.mem = w.mem /\ y.lists = w.lists
      /\ y.heart = w.heart /\ y.stored = w.stored
      /\ y.open = w.open \ {w.cli[c].fd}
      /\ \A f \in Fd : y.reg[f] = IF f = w.cli[c].fd THEN NULL ELSE w.reg[f]
      /\ \A d \in Client \ {c} : y.cli[d] = w.cli[d]
      /\ y.cli[c].told = w.cli[c].told
  BY <1>1, <1>2, CloseFdEffect
<1>7. \A k \in ListName, d \in Client : In(y, k, d) <=> In(w, k, d)
  BY <1>6 DEF In
<1>8. w.cli[c].fd # NoFd /\ w.cli[c].told = "link"
  BY <1>2, ServerAssumption DEF Settled, Owns, NoFd
<1>9. c < w.stored /\ ~In(w, "free", c) /\ ~In(w, "alive", c)
  <2>1. w.stored \in Nat /\ c \in Nat
    BY <1>2, ServerAssumption DEF Good, World, Client
  <2>2. c < w.stored
    BY <1>2, <1>8, <2>1 DEF Settled
  <2> QED  BY <1>2, <1>8, <2>2 DEF Settled
<1>10. \A k \in ListName : ~In(y, k, c)
  BY <1>7, <1>9, ServerAssumption
<1>11. /\ Good(z)
       /\ z.heart = y.heart /\ z.reg = y.reg /\ z.open = y.open
       /\ z.stored = y.stored
       /\ \A d \in Client \ {c} : z.cli[d] = y.cli[d]
       /\ z.cli[c].fd = NoFd /\ ~z.cli[c].is_ready /\ ~z.cli[c].is_safe
       /\ z.cli[c].told = y.cli[c].told
       /\ \A k \in ListName, d \in Client :
             In(z, k, d) <=> In(y, k, d) \/ (k = "free" /\ d = c)
  BY <1>4, <1>6, <1>10, RecycleEffect
<1>12. /\ Good(x) /\ x.lists = z.lists
       /\ x.heart = z.heart /\ x.reg = z.reg /\ x.open = z.open
       /\ x.stored = z.stored
       /\ \A d \in Client \ {c} : x.cli[d] = z.cli[d]
       /\ x.cli[c].fd = z.cli[c].fd
       /\ x.cli[c].is_ready = z.cli[c].is_ready
       /\ x.cli[c].is_safe = z.cli[c].is_safe
       /\ x.cli[c].told = "shut"
  <2>1. Good(z) /\ z.cli[c].told = "link"
    BY <1>6, <1>8, <1>11
  <2> QED  BY <1>5, <2>1, CallShutEffect
<1>13. \A k \in ListName, d \in Client :
          In(x, k, d) <=> In(w, k, d) \/ (k = "free" /\ d = c)
  BY <1>7, <1>11, <1>12 DEF In
<1>14. NULL \notin Client
  BY ItemIsClient, ListAssumption
<1>15. \A f \in Fd : w.reg[f] = c => f = w.cli[c].fd
  BY <1>2 DEF Settled
<1>16. ~Owns(x, c) /\ \A f \in Fd : x.reg[f] # c
  BY <1>6, <1>11, <1>12, <1>14, <1>15 DEF Owns
<1>17. Others(w, x, c)
  <2>1. \A d \in Client \ {c} : \A f \in Fd : x.reg[f] = d <=> w.reg[f] = d
    <3>1. SUFFICES ASSUME NEW d \in Client \ {c}, NEW f \in Fd
                   PROVE  x.reg[f] = d <=> w.reg[f] = d
      OBVIOUS
    <3>2. w.reg[f] = d => f = w.cli[d].fd
      BY DEF Sound, Settled
    <3>3. f = w.cli[c].fd => w.reg[f] # d
      BY <1>2, <3>2, ServerAssumption DEF Apart, NoFd
    <3> QED  BY <1>6, <1>11, <1>12, <1>14, <3>3
  <2> QED  BY <1>6, <1>11, <1>12, <1>13, <2>1 DEF Others
<1>18. Settled(x, c)
  <2>1. /\ ~In(x, "alive", c) /\ ~In(x, "ready", c) /\ In(x, "free", c)
    BY <1>9, <1>13, ServerAssumption
  <2>2. w.stored \in Nat /\ c \in Nat
    BY <1>2, ServerAssumption DEF Good, World, Client
  <2> QED  BY <1>6, <1>9, <1>11, <1>12, <1>16, <2>1, <2>2 DEF Settled
<1>19. \A d \in Client \ {c} : w.cli[d].fd # NoFd => w.cli[d].fd \in x.open
  <2>1. SUFFICES ASSUME NEW d \in Client \ {c}, w.cli[d].fd # NoFd
                 PROVE  w.cli[d].fd \in x.open
    OBVIOUS
  <2>2. w.cli[d].fd \in w.open
    BY <2>1 DEF Sound, Settled
  <2>3. w.cli[d].fd # w.cli[c].fd
    BY <1>2, <2>1 DEF Apart
  <2> QED  BY <1>6, <1>11, <1>12, <2>2, <2>3
<1>20. Sound(x)
  <2>1. /\ Good(x) /\ x.heart = w.heart /\ x.stored = w.stored /\ x.cli[c].fd = NoFd
    BY <1>6, <1>11, <1>12
  <2> QED  BY <1>17, <1>18, <1>19, <2>1, OneChanged
<1>21. ~In(x, "ready", c)
  BY <1>13, ServerAssumption
<1> QED  BY <1>6, <1>11, <1>12, <1>17, <1>20, <1>21

-----------------------------------------------------------------------------
(* What the coroutines do to one client.                                    *)

\* extract_client gives a structure that was free, or was never allocated.
LEMMA ExtractEffect ==
    ASSUME NEW w, Sound(w), CanExtract(w),
           NEW c, NEW g, c = extract_client(w).client, g = extract_client(w).world
    PROVE  /\ c \in Client /\ Good(g)
           /\ c >= w.stored \/ In(w, "free", c)
           /\ g.heart = w.heart /\ g.cli = w.cli /\ g.reg = w.reg /\ g.open = w.open
           /\ g.stored = w.stored \/ (g.stored = w.stored + 1 /\ c = w.stored)
           /\ c < g.stored
           /\ \A k \in ListName, d \in Client : In(g, k, d) <=> In(w, k, d) /\ d # c
<1>1. /\ Good(w) /\ "free" \in ListName
      /\ w.stored \in 0..MaxClients /\ MaxClients \in Nat
  BY ServerAssumption DEF Sound, Good, World
<1>2. CASE w.mem.size["free"] > 0
  <2>1. PICK s \in Seq(Client) : s = w.lists["free"]
    BY <1>1 DEF Good, World
  <2>2. Represents(w.mem, "free", s)
    BY <1>1, <2>1 DEF Good, Faithful
  <2>3. PICK n \in Nat : n = Len(s)
    OBVIOUS
  <2>4. n > 0 /\ w.mem.head["free"] = s[1] /\ 1 \in 1..n
    BY <1>2, <2>2, <2>3 DEF Represents
  <2>5. c = s[1] /\ g = Unlink(w, "free", c)
    BY <1>2, <2>4 DEF extract_client
  <2>6. c \in Client /\ In(w, "free", c)
    BY <2>1, <2>3, <2>4, <2>5 DEF In, ToSet
  <2>7. /\ Good(g) /\ OnlyLists(w, g)
        /\ \A k \in ListName, d \in Client :
              In(g, k, d) <=> In(w, k, d) /\ ~(k = "free" /\ d = c)
    BY <1>1, <2>5, <2>6, UnlinkEffect
  <2>8. \A k \in ListName : k # "free" => ~In(w, k, c)
    BY <1>1, <2>6, InOneList
  <2>9. c < w.stored
    <3>1. Settled(w, c) /\ c \in Nat /\ w.stored \in Nat
      BY <1>1, <2>6, ServerAssumption DEF Sound, Client
    <3> QED  BY <1>1, <2>6, <3>1 DEF Settled
  <2> QED  BY <2>6, <2>7, <2>8, <2>9 DEF OnlyLists
<1>3. CASE ~(w.mem.size["free"] > 0)
  <2>1. w.stored < MaxClients
    BY <1>3 DEF CanExtract
  <2>2. c = w.stored /\ g = [w EXCEPT !.stored = w.stored + 1]
    BY <1>3 DEF extract_client
  <2>3. c \in Client /\ w.stored + 1 \in 0..MaxClients /\ c >= w.stored /\ c < w.stored + 1
    BY <1>1, <2>1, <2>2 DEF Client
  <2>4. /\ g \in World /\ g.mem = w.mem /\ g.lists = w.lists
        /\ g.heart = w.heart /\ g.cli = w.cli /\ g.reg = w.reg /\ g.open = w.open
        /\ g.stored = w.stored + 1
    BY <1>1, <2>2, <2>3 DEF Good, World
  <2>5. Good(g) /\ \A k \in ListName, d \in Client : In(g, k, d) <=> In(w, k, d)
    BY <1>1, <2>4 DEF Good, In
  <2>6. \A k \in ListName : ~In(w, k, c)
    BY <2>3 DEF Sound, Settled
  <2> QED  BY <2>2, <2>3, <2>4, <2>5, <2>6
<1> QED  BY <1>2, <1>3

\* A turn of tcp_accept that found a structure, up to the registration.
Take(w, f, p) ==
    [extract_client(w).world EXCEPT !.cli[extract_client(w).client].fd = f,
                                    !.cli[extract_client(w).client].parent = p]

LEMMA Taken ==
    ASSUME Separate, NEW w, Sound(w), CanExtract(w), NEW f \in Fd, NEW p \in Port,
           f \in w.open, \A d \in Client : w.cli[d].fd # f,
           NEW c, c = extract_client(w).client,
           NEW x, x = Take(w, f, p)
    PROVE  /\ Sound(x) /\ Others(w, x, c) /\ c \in Client
           /\ x.heart = w.heart /\ x.reg = w.reg /\ c < x.stored /\ x.open = w.open
           /\ x.cli[c].fd = f /\ x.cli[c].parent = p
           /\ ~x.cli[c].is_ready /\ ~x.cli[c].is_safe
           /\ x.heart # {} => ~x.cli[c].is_ok
           /\ x.cli[c].told # "link" /\ (x.cli[c].told = "twice" => x.heart # {})
           /\ \A k \in ListName : ~In(x, k, c)
           /\ ~Owns(w, c)
<1>1. PICK g : g = extract_client(w).world
  OBVIOUS
<1>2. /\ c \in Client /\ Good(g)
      /\ c >= w.stored \/ In(w, "free", c)
      /\ g.heart = w.heart /\ g.cli = w.cli /\ g.reg = w.reg /\ g.open = w.open
      /\ g.stored = w.stored \/ (g.stored = w.stored + 1 /\ c = w.stored)
      /\ c < g.stored
      /\ \A k \in ListName, d \in Client : In(g, k, d) <=> In(w, k, d) /\ d # c
  BY <1>1, ExtractEffect
<1>3. PICK e \in Connection : e = w.cli[c]
  BY <1>2 DEF Sound, Good, World
<1>4. PICK h : h = [e EXCEPT !.fd = f, !.parent = p]
  OBVIOUS
<1>5. /\ h \in Connection /\ h.fd = f /\ h.parent = p /\ h.is_ok = e.is_ok
      /\ h.is_ready = e.is_ready /\ h.is_safe = e.is_safe /\ h.told = e.told
  BY <1>4 DEF Connection
<1>6. x = [g EXCEPT !.cli = [w.cli EXCEPT ![c] = h]]
  BY <1>1, <1>2, <1>3, <1>4 DEF Good, World, Take
<1>7. [w.cli EXCEPT ![c] = h] \in [Client -> Connection]
  BY <1>2, <1>5 DEF Good, World
<1>8. /\ x \in World /\ x.mem = g.mem /\ x.lists = g.lists
      /\ x.cli = [w.cli EXCEPT ![c] = h]
      /\ x.heart = w.heart /\ x.reg = w.reg /\ x.open = w.open /\ x.stored = g.stored
  BY <1>2, <1>6, <1>7 DEF Good, World
<1>9. Good(x) /\ \A k \in ListName, d \in Client : In(x, k, d) <=> In(w, k, d) /\ d # c
  BY <1>2, <1>8 DEF Good, In
<1>10. /\ \A d \in Client \ {c} : x.cli[d] = w.cli[d]
       /\ x.cli[c] = h
  BY <1>2, <1>8 DEF Sound, Good, World
<1>11. Others(w, x, c)
  BY <1>8, <1>9, <1>10 DEF Others
<1>12. Settled(w, c) /\ w.cli[c].fd = NoFd
  <2>1. Settled(w, c) /\ c \in Nat /\ w.stored \in Nat
    BY <1>2, ServerAssumption DEF Sound, Good, World, Client
  <2>2. CASE c >= w.stored
    BY <2>1, <2>2 DEF Settled
  <2>3. CASE c < w.stored /\ In(w, "free", c)
    BY <2>1, <2>3 DEF Settled
  <2> QED  BY <1>2, <2>1, <2>2, <2>3
<1>13. ~Owns(w, c)
  BY <1>12, ServerAssumption DEF Settled, Owns, NoFd
<1>14. /\ e.told # "link" /\ ~e.is_safe
       /\ w.heart # {} => ~e.is_ok
       /\ e.told = "twice" => w.heart # {}
  BY <1>2, <1>3, <1>12, <1>13 DEF Settled, Heart
<1>15. ~e.is_ready
  <2>1. ~In(w, "ready", c)
    <3>1. CASE c >= w.stored
      BY <1>12, <3>1, ServerAssumption DEF Settled
    <3>2. CASE In(w, "free", c)
      BY <1>2, <3>2, InOneList, ServerAssumption DEF Sound
    <3> QED  BY <1>2, <3>1, <3>2
  <2> QED  BY <1>3, <1>12, <2>1 DEF Settled
<1>16. Settled(x, c)
  <2>1. ~Owns(x, c) /\ \A q \in Fd : x.reg[q] # c
    BY <1>8, <1>13 DEF Owns
  <2>2. \A k \in ListName : ~In(x, k, c)
    BY <1>2, <1>9
  <2>3. x.heart # {} => Heart(x, c)
    BY <1>5, <1>8, <1>9, <1>10, HeartIsPort DEF Heart
  <2>4. f # NoFd /\ ~(c >= x.stored)
    <3>1. x.stored \in Nat /\ c \in Nat
      BY <1>2, <1>8, ServerAssumption DEF World, Client
    <3> QED  BY <1>2, <1>8, <3>1, ServerAssumption DEF NoFd
  <2> QED  BY <1>5, <1>8, <1>10, <1>14, <1>15, <2>1, <2>2, <2>3, <2>4, ServerAssumption
           DEF Settled
<1>17. Sound(x)
  <2>1. \A d \in Client \ {c} : w.cli[d].fd # NoFd => w.cli[d].fd \in x.open
    BY <1>8 DEF Sound, Settled
  <2> QED  BY <1>2, <1>5, <1>8, <1>9, <1>10, <1>11, <1>16, <2>1, OneChanged
<1> QED  BY <1>2, <1>5, <1>8, <1>9, <1>10, <1>11, <1>13, <1>14, <1>15, <1>17

\* The registration of it, which the program hears of.
Register(x, c, f) ==
    CallLink([Watch([x EXCEPT !.reg[f] = c], c) EXCEPT !.cli[c].need = TRUE], c)

LEMMA Registration ==
    ASSUME Separate, NEW x, Sound(x), NEW c \in Client, NEW f \in Fd, NEW p \in Port,
           x.cli[c].fd = f, x.cli[c].parent = p, c < x.stored, f \in x.open,
           ~x.cli[c].is_safe, x.cli[c].told # "link", x.reg[f] = NULL,
           \A k \in ListName : ~In(x, k, c),
           NEW z, z = Register(x, c, f)
    PROVE  /\ Sound(z) /\ Others(x, z, c) /\ z.heart = x.heart
           /\ ~z.cli[c].is_safe /\ ~In(z, "ready", c)
<1>1. Good(x) /\ Settled(x, c) /\ Apart(x)
  BY DEF Sound
<1> DEFINE Entered(q) == [q EXCEPT !.reg[f] = c]
           Needing(q) == [q EXCEPT !.cli[c].need = TRUE]
<1>u. PICK u : u = Entered(x)
  OBVIOUS
<1>y. PICK y : y = Watch(u, c)
  OBVIOUS
<1>z. z = CallLink(Needing(y), c)
  BY <1>u, <1>y DEF Register
<1> HIDE DEF Entered, Needing
<1>2. /\ Good(u) /\ u.cli = x.cli /\ u.heart = x.heart /\ u.open = x.open
      /\ u.stored = x.stored /\ u.lists = x.lists
      /\ \A q \in Fd : u.reg[q] = IF q = f THEN c ELSE x.reg[q]
  <2>1. [x.reg EXCEPT ![f] = c] \in [Fd -> Client \cup {NULL}]
    BY <1>1 DEF Good, World
  <2>2. /\ u \in World /\ u.mem = x.mem /\ u.lists = x.lists
        /\ u.reg = [x.reg EXCEPT ![f] = c]
        /\ u.cli = x.cli /\ u.heart = x.heart /\ u.open = x.open /\ u.stored = x.stored
    BY <1>1, <1>u, <2>1 DEF Good, World, Entered
  <2> QED  BY <1>1, <2>2 DEF Good, World
<1>3. \A k \in ListName, d \in Client : In(u, k, d) <=> In(x, k, d)
  BY <1>2 DEF In
<1>4. Heart(u, c) <=> x.heart # {}
  BY <1>1, <1>2, HeartIsPort DEF Heart
<1>5. /\ Good(y) /\ OnlyLists(u, y)
      /\ \A k \in ListName, d \in Client :
            In(y, k, d) <=> In(u, k, d) \/ (k = "alive" /\ d = c /\ x.heart # {})
  <2>1. CASE x.heart = {}
    BY <1>2, <1>4, <1>y, <2>1 DEF Watch, OnlyLists
  <2>2. CASE x.heart # {}
    <3>1. y = Link(u, "alive", c)
      BY <1>4, <1>y, <2>2 DEF Watch
    <3>2. "alive" \in ListName /\ \A k \in ListName : ~In(u, k, c)
      BY <1>3, ServerAssumption
    <3> QED  BY <1>2, <2>2, <3>1, <3>2, LinkEffect
  <2> QED  BY <2>1, <2>2
<1>6. PICK e \in Connection : e = x.cli[c]
  BY <1>1 DEF Good, World
<1>7. e = y.cli[c]
  BY <1>2, <1>5, <1>6 DEF OnlyLists
<1>8. Told(e.told, "link") = "link"
  BY <1>6 DEF Told
<1>9. PICK h : h = [e EXCEPT !.need = TRUE, !.told = "link"]
  OBVIOUS
<1>10. /\ h \in Connection /\ h.fd = f /\ h.parent = p /\ h.is_ok = e.is_ok
       /\ h.is_ready = e.is_ready /\ h.is_safe = e.is_safe /\ h.told = "link"
  BY <1>6, <1>9 DEF Connection
<1>11. z = [y EXCEPT !.cli = [y.cli EXCEPT ![c] = h]]
  <2>1. y.cli \in [Client -> Connection] /\ y \in World
    BY <1>5 DEF Good, World
  <2>2. PICK v : v = Needing(y)
    OBVIOUS
  <2>3. PICK e1 \in Connection : e1 = [e EXCEPT !.need = TRUE]
    BY <1>6 DEF Connection
  <2>4. /\ v = [y EXCEPT !.cli = [y.cli EXCEPT ![c] = e1]]
    BY <1>7, <2>1, <2>2, <2>3 DEF World, Needing
  <2>5. v.cli[c] = e1 /\ v.cli = [y.cli EXCEPT ![c] = e1]
    BY <2>1, <2>4 DEF World
  <2>6. e1.told = e.told /\ h = [e1 EXCEPT !.told = "link"]
    BY <1>6, <1>9, <2>3 DEF Connection
  <2>7. z = [v EXCEPT !.cli = [v.cli EXCEPT ![c] = h]]
    BY <1>8, <1>z, <2>2, <2>5, <2>6 DEF CallLink
  <2> QED  BY <2>1, <2>4, <2>5, <2>7 DEF World
<1>12. [y.cli EXCEPT ![c] = h] \in [Client -> Connection]
  BY <1>5, <1>10 DEF Good, World
<1>13. /\ z \in World /\ z.mem = y.mem /\ z.lists = y.lists
       /\ z.cli = [y.cli EXCEPT ![c] = h]
       /\ z.heart = y.heart /\ z.reg = y.reg /\ z.open = y.open /\ z.stored = y.stored
  BY <1>5, <1>11, <1>12 DEF Good, World
<1>14. /\ \A d \in Client \ {c} : z.cli[d] = x.cli[d]
       /\ z.cli[c] = h
  BY <1>2, <1>5, <1>13 DEF Good, World, OnlyLists
<1>15. /\ Good(z)
       /\ \A k \in ListName, d \in Client :
             In(z, k, d) <=> In(x, k, d) \/ (k = "alive" /\ d = c /\ x.heart # {})
  BY <1>3, <1>5, <1>13 DEF Good, In
<1>16. /\ z.heart = x.heart /\ z.open = x.open /\ z.stored = x.stored
       /\ \A q \in Fd : z.reg[q] = IF q = f THEN c ELSE x.reg[q]
  BY <1>2, <1>5, <1>13 DEF OnlyLists
<1>17. Others(x, z, c)
  <2>1. NULL \notin Client
    BY ItemIsClient, ListAssumption
  <2> QED  BY <1>14, <1>15, <1>16, <2>1 DEF Others
<1>18. Settled(z, c)
  <2>1. Owns(z, c) /\ \A q \in Fd : z.reg[q] = c => q = f
    BY <1>1, <1>16 DEF Owns, Settled
  <2>2. /\ ~In(z, "ready", c) /\ ~In(z, "free", c)
        /\ In(z, "alive", c) <=> x.heart # {}
        /\ ~In(x, "ready", c)
    BY <1>15, ServerAssumption
  <2>3. x.heart # {} => Heart(z, c)
    BY <1>1, <1>10, <1>14, <1>16, HeartIsPort DEF Heart
  <2>4. f # NoFd /\ ~(c >= x.stored)
    <3>1. x.stored \in Nat /\ c \in Nat
      BY <1>1, ServerAssumption DEF Good, World, Client
    <3> QED  BY <3>1, ServerAssumption DEF NoFd
  <2>5. ~e.is_ready /\ (x.heart # {} => ~e.is_ok)
    BY <1>1, <1>6, <2>2 DEF Settled
  <2> QED  BY <1>6, <1>10, <1>14, <1>16, <2>1, <2>2, <2>3, <2>4, <2>5 DEF Settled
<1>19. Sound(z)
  <2>1. \A d \in Client \ {c} : x.cli[d].fd # NoFd => x.cli[d].fd \in z.open
    BY <1>16 DEF Sound, Settled
  <2>2. \A d \in Client \ {c} : x.cli[d].fd # z.cli[c].fd
    BY <1>1, <1>10, <1>14, ServerAssumption DEF Apart, NoFd
  <2> QED  BY <1>10, <1>14, <1>15, <1>16, <1>17, <1>18, <2>1, <2>2, OneChanged
<1> QED  BY <1>6, <1>10, <1>14, <1>15, <1>16, <1>17, <1>19, ServerAssumption

LEMMA OthersTransitive ==
    ASSUME NEW w, NEW y, NEW x, NEW c, Others(w, y, c), Others(y, x, c)
    PROVE  Others(w, x, c)
  BY DEF Others

\* A registered client that is not ready has its place in the lists.
LEMMA OwnerPlace ==
    ASSUME NEW w, Sound(w), NEW c \in Client, Owns(w, c)
    PROVE  /\ w.cli[c].fd \in Fd /\ w.cli[c].told = "link" /\ c < w.stored
           /\ ~In(w, "free", c) /\ (In(w, "alive", c) <=> w.heart # {})
           /\ Heart(w, c) <=> w.heart # {}
<1>1. Settled(w, c)
  BY DEF Sound
<1>2. w.cli[c].fd \in Fd /\ w.cli[c].fd # NoFd
  BY <1>1, ServerAssumption DEF Settled, Owns, NoFd
<1>3. w.stored \in Nat /\ c \in Nat
  BY ServerAssumption DEF Sound, Good, World, Client
<1>4. c < w.stored
  BY <1>1, <1>2, <1>3 DEF Settled
<1>5. In(w, "alive", c) <=> w.heart # {}
  BY <1>1 DEF Settled
<1>6. ~In(w, "free", c) /\ w.cli[c].told = "link"
  BY <1>1, <1>2, <1>4 DEF Settled
<1>7. Heart(w, c) <=> w.heart # {}
  BY <1>1, <1>5 DEF Settled, Heart
<1> QED  BY <1>2, <1>4, <1>5, <1>6, <1>7

\* Setting the flags and the age of a client.
Mark(w, c, ok, ready, safe, age) ==
    [w EXCEPT !.cli = [w.cli EXCEPT ![c] = [w.cli[c] EXCEPT
        !.is_ok = ok, !.is_ready = ready, !.is_safe = safe, !.age = age]]]

Marked(w, x, c, ok, ready, safe) ==
    /\ Good(x) /\ x.mem = w.mem /\ x.lists = w.lists
    /\ x.heart = w.heart /\ x.reg = w.reg /\ x.open = w.open /\ x.stored = w.stored
    /\ \A d \in Client \ {c} : x.cli[d] = w.cli[d]
    /\ x.cli[c].fd = w.cli[c].fd /\ x.cli[c].parent = w.cli[c].parent
    /\ x.cli[c].told = w.cli[c].told
    /\ x.cli[c].is_ok = ok /\ x.cli[c].is_ready = ready /\ x.cli[c].is_safe = safe

LEMMA MarkEffect ==
    ASSUME NEW w, Good(w), NEW c \in Client, NEW ok \in BOOLEAN, NEW ready \in BOOLEAN,
           NEW safe \in BOOLEAN, NEW age \in 0..Stale
    PROVE  Marked(w, Mark(w, c, ok, ready, safe, age), c, ok, ready, safe)
<1>x. PICK x : x = Mark(w, c, ok, ready, safe, age)
  OBVIOUS
<1>1. PICK e \in Connection : e = w.cli[c]
  BY DEF Good, World
<1>2. PICK g : g = [e EXCEPT !.is_ok = ok, !.is_ready = ready, !.is_safe = safe, !.age = age]
  OBVIOUS
<1>3. /\ g \in Connection
      /\ g.fd = e.fd /\ g.parent = e.parent /\ g.told = e.told
      /\ g.is_ok = ok /\ g.is_ready = ready /\ g.is_safe = safe
  BY <1>2 DEF Connection
<1>4. PICK cc : cc = [w.cli EXCEPT ![c] = g]
  OBVIOUS
<1>5. cc \in [Client -> Connection] /\ cc[c] = g /\ \A d \in Client \ {c} : cc[d] = w.cli[d]
  BY <1>3, <1>4 DEF Good, World
<1>6. x = [w EXCEPT !.cli = cc]
  BY <1>x, <1>1, <1>2, <1>4 DEF Mark
<1>7. /\ x \in World /\ x.mem = w.mem /\ x.lists = w.lists /\ x.cli = cc
      /\ x.heart = w.heart /\ x.reg = w.reg /\ x.open = w.open /\ x.stored = w.stored
  BY <1>5, <1>6 DEF Good, World
<1>8. Marked(w, x, c, ok, ready, safe)
  BY <1>1, <1>3, <1>5, <1>7 DEF Good, Marked
<1> QED  BY <1>x, <1>8

\* The tail of tcp_read.
LEMMA EnlistEffect ==
    ASSUME NEW w, Sound(w), NEW c \in Client, Owns(w, c), ~In(w, "ready", c),
           NEW x, x = Enlist(w, c)
    PROVE  Sound(x) /\ Others(w, x, c) /\ x.heart = w.heart
<1>1. Good(w) /\ Settled(w, c)
  BY DEF Sound
<1>2. CASE ~(w.cli[c].is_ok /\ ~w.cli[c].is_ready)
  <2>1. x = w
    BY <1>2 DEF Enlist
  <2> QED  BY <2>1 DEF Others
<1>3. CASE w.cli[c].is_ok /\ ~w.cli[c].is_ready
  <2>1. w.heart = {}
    BY <1>1, <1>3 DEF Settled
  <2>2. \A k \in ListName : ~In(w, k, c)
    BY <2>1, OwnerPlace, ServerAssumption
  <2>3. PICK y : y = Link(w, "ready", c)
    OBVIOUS
  <2>4. /\ Good(y) /\ OnlyLists(w, y)
        /\ \A k \in ListName, d \in Client :
              In(y, k, d) <=> In(w, k, d) \/ (k = "ready" /\ d = c)
    BY <1>1, <2>2, <2>3, LinkEffect, ServerAssumption
  <2>5. PICK e \in Connection : e = y.cli[c]
    BY <2>4 DEF Good, World
  <2>a. PICK ok \in BOOLEAN, rd \in BOOLEAN, sf \in BOOLEAN, ag \in 0..Stale :
           ok = e.is_ok /\ rd = TRUE /\ sf = e.is_safe /\ ag = e.age
    BY <2>5 DEF Connection
  <2>6. [e EXCEPT !.is_ready = TRUE]
           = [e EXCEPT !.is_ok = ok, !.is_ready = rd, !.is_safe = sf, !.age = ag]
    BY <2>5, <2>a DEF Connection
  <2>7. x = Mark(y, c, ok, rd, sf, ag)
    <3>1. x = [y EXCEPT !.cli[c].is_ready = TRUE]
      BY <1>3, <2>3 DEF Enlist
    <3>2. [y EXCEPT !.cli[c].is_ready = TRUE]
            = [y EXCEPT !.cli = [y.cli EXCEPT ![c] = [y.cli[c] EXCEPT !.is_ready = TRUE]]]
      BY <2>4 DEF Good, World
    <3> QED  BY <2>5, <2>6, <3>1, <3>2 DEF Mark
  <2>8. /\ Good(x) /\ x.lists = y.lists
        /\ x.heart = y.heart /\ x.reg = y.reg /\ x.open = y.open
        /\ x.stored = y.stored
        /\ \A d \in Client \ {c} : x.cli[d] = y.cli[d]
        /\ x.cli[c].fd = e.fd /\ x.cli[c].told = e.told
        /\ x.cli[c].is_ready /\ x.cli[c].is_safe = e.is_safe
    <3>1. Marked(y, x, c, ok, rd, sf)
      BY <2>4, <2>7, MarkEffect
    <3> QED  BY <2>5, <2>a, <3>1 DEF Marked
  <2>9. \A k \in ListName, d \in Client :
           In(x, k, d) <=> In(w, k, d) \/ (k = "ready" /\ d = c)
    BY <2>4, <2>8 DEF In
  <2>10. /\ x.heart = w.heart /\ x.reg = w.reg /\ x.open = w.open /\ x.stored = w.stored
         /\ e = w.cli[c] /\ \A d \in Client \ {c} : x.cli[d] = w.cli[d]
    BY <2>4, <2>5, <2>8 DEF OnlyLists
  <2>11. Others(w, x, c)
    BY <2>9, <2>10 DEF Others
  <2>12. Settled(x, c)
    <3>1. /\ In(x, "ready", c) /\ ~In(x, "free", c) /\ ~In(x, "alive", c)
          /\ ~In(w, "free", c) /\ ~In(w, "alive", c)
      BY <2>2, <2>9, ServerAssumption
    <3>2. Owns(x, c)
      BY <2>10 DEF Owns
    <3>3. w.cli[c].told = "link" /\ c < w.stored /\ w.cli[c].fd # NoFd
      BY OwnerPlace, ServerAssumption DEF NoFd
    <3>4. ~(c >= w.stored)
      BY <1>1, <3>3 DEF Settled
    <3> QED  BY <1>1, <2>1, <2>8, <2>10, <3>1, <3>2, <3>3, <3>4 DEF Settled
  <2>13. Sound(x)
    <3>1. \A d \in Client \ {c} : w.cli[d].fd # NoFd => w.cli[d].fd \in x.open
      BY <2>10 DEF Sound, Settled
    <3>2. x.cli[c].fd = NoFd \/ \A d \in Client \ {c} : w.cli[d].fd # x.cli[c].fd
      BY <2>8, <2>10 DEF Sound, Apart
    <3> QED  BY <2>8, <2>10, <2>11, <2>12, <3>1, <3>2, OneChanged
  <2> QED  BY <2>10, <2>11, <2>13
<1> QED  BY <1>2, <1>3

\* The guide: a message was completed, which only a short connection does.
Completed(w, c, complete) == [w EXCEPT !.cli[c].is_ok = @ \/ complete]

LEMMA CompletedEffect ==
    ASSUME NEW w, Sound(w), NEW c \in Client, Owns(w, c), NEW complete \in BOOLEAN,
           complete => w.heart = {}, NEW x, x = Completed(w, c, complete)
    PROVE  /\ Sound(x) /\ Others(w, x, c) /\ x.heart = w.heart /\ Owns(x, c)
           /\ \A k \in ListName, d \in Client : In(x, k, d) <=> In(w, k, d)
           /\ x.cli[c].is_ready = w.cli[c].is_ready
<1>1. Good(w) /\ Settled(w, c)
  BY DEF Sound
<1>2. PICK e \in Connection : e = w.cli[c]
  BY <1>1 DEF Good, World
<1>3. PICK b \in BOOLEAN : b = (e.is_ok \/ complete)
  OBVIOUS
<1>a. PICK rd \in BOOLEAN, sf \in BOOLEAN, ag \in 0..Stale :
         rd = e.is_ready /\ sf = e.is_safe /\ ag = e.age
  BY <1>2 DEF Connection
<1>4. [e EXCEPT !.is_ok = b]
         = [e EXCEPT !.is_ok = b, !.is_ready = rd, !.is_safe = sf, !.age = ag]
  BY <1>2, <1>a DEF Connection
<1>5. x = Mark(w, c, b, rd, sf, ag)
  <2>1. x = [w EXCEPT !.cli = [w.cli EXCEPT ![c] = [e EXCEPT !.is_ok = b]]]
    BY <1>1, <1>2, <1>3 DEF Completed, Good, World
  <2> QED  BY <1>2, <1>4, <2>1 DEF Mark
<1>6. /\ Good(x) /\ x.lists = w.lists
      /\ x.heart = w.heart /\ x.reg = w.reg /\ x.open = w.open
      /\ x.stored = w.stored
      /\ \A d \in Client \ {c} : x.cli[d] = w.cli[d]
      /\ x.cli[c].fd = e.fd /\ x.cli[c].parent = e.parent /\ x.cli[c].told = e.told
      /\ x.cli[c].is_ok = b /\ x.cli[c].is_ready = e.is_ready /\ x.cli[c].is_safe = e.is_safe
  <2>1. Marked(w, x, c, b, rd, sf)
    BY <1>1, <1>5, MarkEffect
  <2> QED  BY <1>2, <1>a, <2>1 DEF Marked
<1>7. \A k \in ListName, d \in Client : In(x, k, d) <=> In(w, k, d)
  BY <1>6 DEF In
<1>8. Others(w, x, c)
  BY <1>6, <1>7 DEF Others
<1>9. Settled(x, c)
  <2>1. /\ In(x, "ready", c) <=> In(w, "ready", c)
        /\ In(x, "alive", c) <=> In(w, "alive", c)
        /\ In(x, "free", c) <=> In(w, "free", c)
    BY <1>7, ServerAssumption
  <2>2. Owns(x, c) /\ (Heart(x, c) <=> Heart(w, c))
    BY <1>2, <1>6 DEF Owns, Heart
  <2>3. x.heart # {} => ~x.cli[c].is_ok
    BY <1>1, <1>2, <1>3, <1>6 DEF Settled
  <2>4. \A l \in ListName : In(x, l, c) <=> In(w, l, c)
    BY <1>7
  <2> QED  BY <1>1, <1>2, <1>6, <2>1, <2>2, <2>3, <2>4 DEF Settled
<1>10. Sound(x)
  <2>1. \A d \in Client \ {c} : w.cli[d].fd # NoFd => w.cli[d].fd \in x.open
    BY <1>6 DEF Sound, Settled
  <2>2. x.cli[c].fd = NoFd \/ \A d \in Client \ {c} : w.cli[d].fd # x.cli[c].fd
    BY <1>2, <1>6 DEF Sound, Apart
  <2> QED  BY <1>6, <1>8, <1>9, <2>1, <2>2, OneChanged
<1> QED  BY <1>2, <1>6, <1>7, <1>8, <1>10 DEF Owns

\* A hangup, or the first close of a read that failed.
LEMMA CloseEffect ==
    ASSUME NEW w, Sound(w), NEW c \in Client, Owns(w, c), ~In(w, "ready", c),
           NEW x, x = close_socket(w, c)
    PROVE  Sound(x) /\ Others(w, x, c) /\ x.heart = w.heart
<1>1. CASE w.heart = {}
  BY <1>1, CloseShort
<1>2. CASE w.heart # {}
  BY <1>2, OwnerPlace, CloseKept
<1> QED  BY <1>1, <1>2

\* tcp_read with data.
LEMMA ReadEffect ==
    ASSUME Separate, NEW w, Sound(w), NEW c \in Client, Owns(w, c), ~In(w, "ready", c),
           NEW kept \in BOOLEAN, kept <=> Heart(w, c),
           NEW result \in ReadResults[kept], NEW complete \in Completes[kept],
           NEW x, x = Read(w, c, result, complete)
    PROVE  Sound(x) /\ Others(w, x, c) /\ x.heart = w.heart
<1>1. kept <=> w.heart # {}
  BY OwnerPlace
<1>2. result \in {"drained", "closed", "garbage"} /\ complete \in BOOLEAN
  BY ServerAssumption
<1>3. complete => w.heart = {}
  <2>1. CASE kept
    BY <1>2, <2>1 DEF Separate
  <2>2. CASE ~kept
    BY <1>1, <2>2
  <2> QED  BY <2>1, <2>2
<1>4. result = "closed" => w.heart # {}
  <2>1. CASE kept
    BY <1>1, <2>1
  <2>2. CASE ~kept
    BY <2>2 DEF Separate
  <2> QED  BY <2>1, <2>2
<1>5. PICK ok : ok = Completed(w, c, complete)
  OBVIOUS
<1>6. /\ Sound(ok) /\ Others(w, ok, c) /\ ok.heart = w.heart /\ Owns(ok, c)
      /\ \A k \in ListName, d \in Client : In(ok, k, d) <=> In(w, k, d)
      /\ ok.cli[c].is_ready = w.cli[c].is_ready
  BY <1>2, <1>3, <1>5, CompletedEffect
<1>7. /\ ~In(ok, "ready", c) /\ ~ok.cli[c].is_ready
      /\ In(ok, "alive", c) <=> In(w, "alive", c)
  <2>1. ~In(ok, "ready", c) /\ (In(ok, "alive", c) <=> In(w, "alive", c))
    BY <1>6, ServerAssumption
  <2> QED  BY <1>6, <2>1 DEF Sound, Settled
<1>8. CASE result = "drained"
  <2>1. x = Enlist(ok, c)
    BY <1>5, <1>8 DEF Read, Completed
  <2>2. Sound(x) /\ Others(ok, x, c) /\ x.heart = ok.heart
    BY <1>6, <1>7, <2>1, EnlistEffect
  <2> QED  BY <1>6, <2>2, OthersTransitive
<1>9. CASE result = "garbage"
  <2>1. x = close_socket(ok, c)
    BY <1>5, <1>7, <1>9 DEF Read, Completed, Reject
  <2>2. Sound(x) /\ Others(ok, x, c) /\ x.heart = ok.heart
    BY <1>6, <1>7, <2>1, CloseEffect
  <2> QED  BY <1>6, <2>2, OthersTransitive
<1>10. CASE result = "closed"
  <2>1. PICK y : y = close_socket(ok, c)
    OBVIOUS
  <2>2. ok.heart # {} /\ In(ok, "alive", c)
    BY <1>4, <1>6, <1>7, <1>10, OwnerPlace
  <2>3. Sound(y) /\ Others(ok, y, c) /\ y.heart = ok.heart /\ y.lists = ok.lists
    BY <1>6, <2>1, <2>2, CloseKept
  <2>4. y.heart # {} /\ In(y, "alive", c) /\ ~In(y, "ready", c) /\ ~y.cli[c].is_ready
    <3>1. y.heart # {} /\ In(y, "alive", c) /\ ~In(y, "ready", c)
      BY <1>7, <2>2, <2>3 DEF In
    <3> QED  BY <2>3, <3>1 DEF Sound, Settled
  <2>5. x = close_socket(y, c)
    BY <1>5, <1>10, <2>1, <2>4 DEF Read, Completed, Reject
  <2>6. Sound(x) /\ Others(y, x, c) /\ x.heart = y.heart
    BY <2>3, <2>4, <2>5, CloseKept
  <2>7. Others(w, y, c)
    BY <1>6, <2>3, OthersTransitive
  <2> QED  BY <1>6, <2>3, <2>6, <2>7, OthersTransitive
<1> QED  BY <1>2, <1>8, <1>9, <1>10

\* check_alive: a client without a descriptor goes from the alive to the free list.
LEMMA ReapEffect ==
    ASSUME NEW w, Sound(w), NEW c \in Client, In(w, "alive", c), w.cli[c].fd = NoFd,
           NEW x, x = recycle_client(Unlink(w, "alive", c), c)
    PROVE  /\ Sound(x) /\ Others(w, x, c) /\ x.heart = w.heart /\ x.cli[c].told # "link"
           /\ \A i \in 1..Len(w.lists["alive"]) : w.lists["alive"][i] = c
                => x.lists["alive"] = RemoveAt(w.lists["alive"], i)
<1>1. Good(w) /\ Settled(w, c) /\ w.heart # {} /\ "alive" \in ListName
  BY ServerAssumption DEF Sound, Settled
<1>2. PICK y : y = Unlink(w, "alive", c)
  OBVIOUS
<1>3. /\ Good(y) /\ OnlyLists(w, y)
      /\ \A k \in ListName, d \in Client :
            In(y, k, d) <=> In(w, k, d) /\ ~(k = "alive" /\ d = c)
      /\ \A i \in 1..Len(w.lists["alive"]) :
            w.lists["alive"][i] = c => y.lists["alive"] = RemoveAt(w.lists["alive"], i)
  BY <1>1, <1>2, UnlinkEffect
<1>4. \A k \in ListName : ~In(y, k, c)
  BY <1>1, <1>3, InOneList
<1>5. /\ Good(x)
      /\ x.heart = y.heart /\ x.reg = y.reg /\ x.open = y.open /\ x.stored = y.stored
      /\ \A d \in Client \ {c} : x.cli[d] = y.cli[d]
      /\ x.cli[c].fd = NoFd /\ ~x.cli[c].is_ready /\ ~x.cli[c].is_safe
      /\ x.cli[c].parent = y.cli[c].parent /\ x.cli[c].told = y.cli[c].told
      /\ x.cli[c].is_ok = y.cli[c].is_ok
      /\ \A k \in ListName, d \in Client :
            In(x, k, d) <=> In(y, k, d) \/ (k = "free" /\ d = c)
      /\ x.lists["alive"] = y.lists["alive"]
  BY <1>1, <1>2, <1>3, <1>4, RecycleEffect
<1>6. /\ x.heart = w.heart /\ x.reg = w.reg /\ x.open = w.open /\ x.stored = w.stored
      /\ \A d \in Client \ {c} : x.cli[d] = w.cli[d]
      /\ x.cli[c].parent = w.cli[c].parent /\ x.cli[c].told = w.cli[c].told
      /\ x.cli[c].is_ok = w.cli[c].is_ok
  BY <1>3, <1>5 DEF OnlyLists
<1>7. ~In(x, "alive", c) /\ ~In(x, "ready", c) /\ In(x, "free", c)
  BY <1>4, <1>5, ServerAssumption
<1>8. ~Owns(w, c) /\ ~Owns(x, c)
  BY <1>1, <1>6, ServerAssumption DEF Owns, Settled, NoFd
<1>9. Others(w, x, c)
  BY <1>3, <1>5, <1>6 DEF Others
<1>10. Settled(x, c)
  <2>1. ~(c >= w.stored)
    BY <1>1 DEF Settled
  <2>2. Heart(x, c) <=> Heart(w, c)
    BY <1>6 DEF Heart
  <2>3. \A f \in Fd : x.reg[f] # c
    BY <1>8 DEF Owns
  <2> QED  BY <1>1, <1>5, <1>6, <1>7, <1>8, <2>1, <2>2, <2>3 DEF Settled
<1>11. \A d \in Client \ {c} : w.cli[d].fd # NoFd => w.cli[d].fd \in x.open
  BY <1>6 DEF Sound, Settled
<1>12. Sound(x)
  BY <1>5, <1>6, <1>9, <1>10, <1>11, OneChanged
<1>13. x.cli[c].told # "link"
  BY <1>1, <1>6, <1>8 DEF Settled
<1> QED  BY <1>3, <1>5, <1>6, <1>9, <1>12, <1>13

\* issue_tcp_msg: a client leaves the ready list; the handler may have made it safe.
Served(w, c, safe) == Dismiss(Handled(w, c, safe, FALSE), c)

LEMMA DismissEffect ==
    ASSUME NEW w, Sound(w), NEW c \in Client, In(w, "ready", c), NEW safe \in BOOLEAN,
           NEW x, x = Served(w, c, safe)
    PROVE  /\ Sound(x) /\ Others(w, x, c) /\ x.heart = w.heart
           /\ x.cli[c].told = w.cli[c].told
           /\ \A i \in 1..Len(w.lists["ready"]) : w.lists["ready"][i] = c
                => x.lists["ready"] = RemoveAt(w.lists["ready"], i)
<1>1. /\ Good(w) /\ Settled(w, c) /\ "ready" \in ListName /\ "free" \in ListName
      /\ "alive" \in ListName
  BY ServerAssumption DEF Sound
<1>2. PICK e \in Connection : e = w.cli[c]
  BY <1>1 DEF Good, World
<1>3. PICK ok \in BOOLEAN, rd \in BOOLEAN, sf \in BOOLEAN, ag \in 0..Stale :
         /\ ok = e.is_ok /\ rd = e.is_ready /\ sf = (e.is_safe \/ safe)
         /\ ag = IF w.heart # {} THEN 0 ELSE e.age
  <2>1. 0 \in 0..Stale
    BY ServerAssumption DEF Stale
  <2> QED  BY <1>2, <2>1 DEF Connection
<1>4. PICK a : a = Handled(w, c, safe, FALSE)
  OBVIOUS
<1>5. a = Mark(w, c, ok, rd, sf, ag)
  <2>1. a = [w EXCEPT !.cli = [w.cli EXCEPT ![c] = [e EXCEPT !.age = ag, !.is_safe = sf]]]
    <3>1. a = [w EXCEPT !.cli[c].age = ag, !.cli[c].is_safe = e.is_safe \/ safe]
      BY <1>2, <1>3, <1>4 DEF Handled
    <3>2. a = [w EXCEPT !.cli[c].age = ag, !.cli[c].is_safe = sf]
      BY <1>3, <3>1
    <3>3. w \in World /\ w.cli \in [Client -> Connection]
      BY <1>1 DEF Good, World
    <3> QED  BY <1>2, <3>2, <3>3 DEF World
  <2>2. [e EXCEPT !.age = ag, !.is_safe = sf]
          = [e EXCEPT !.is_ok = ok, !.is_ready = rd, !.is_safe = sf, !.age = ag]
    BY <1>2, <1>3 DEF Connection
  <2> QED  BY <1>2, <2>1, <2>2 DEF Mark
<1>6. Marked(w, a, c, ok, rd, sf)
  BY <1>1, <1>5, MarkEffect
<1>7. \A k \in ListName, d \in Client : In(a, k, d) <=> In(w, k, d)
  BY <1>6 DEF Marked, In
<1>8. PICK y : y = Unlink(a, "ready", c)
  OBVIOUS
<1>9. /\ Good(y) /\ OnlyLists(a, y)
      /\ \A k \in ListName, d \in Client :
            In(y, k, d) <=> In(a, k, d) /\ ~(k = "ready" /\ d = c)
      /\ \A i \in 1..Len(a.lists["ready"]) :
            a.lists["ready"][i] = c => y.lists["ready"] = RemoveAt(a.lists["ready"], i)
  <2>1. Good(a) /\ In(a, "ready", c)
    BY <1>1, <1>6, <1>7 DEF Marked
  <2> QED  BY <1>1, <1>8, <2>1, UnlinkEffect
<1>10. PICK ag2 \in 0..Stale, e2 \in Connection : e2 = y.cli[c] /\ ag2 = e2.age
  <2>1. PICK e2 \in Connection : e2 = y.cli[c]
    BY <1>9 DEF Good, World
  <2> QED  BY <2>1 DEF Connection
<1>11. e2.is_ok = ok /\ e2.is_safe = sf
  BY <1>6, <1>9, <1>10 DEF Marked, OnlyLists
<1>12. x = Mark(y, c, ok, FALSE, sf, ag2)
  <2>1. x = [y EXCEPT !.cli = [y.cli EXCEPT ![c] = [e2 EXCEPT !.is_ready = FALSE]]]
    BY <1>4, <1>8, <1>9, <1>10 DEF Dismiss, Served, Good, World
  <2>2. [e2 EXCEPT !.is_ready = FALSE]
          = [e2 EXCEPT !.is_ok = ok, !.is_ready = FALSE, !.is_safe = sf, !.age = ag2]
    BY <1>10, <1>11 DEF Connection
  <2> QED  BY <1>10, <2>1, <2>2 DEF Mark
<1>13. Marked(y, x, c, ok, FALSE, sf)
  BY <1>9, <1>12, MarkEffect
<1>14. /\ Good(x) /\ x.lists = y.lists
       /\ x.heart = w.heart /\ x.reg = w.reg /\ x.open = w.open /\ x.stored = w.stored
       /\ \A d \in Client \ {c} : x.cli[d] = w.cli[d]
       /\ x.cli[c].fd = e.fd /\ x.cli[c].parent = e.parent /\ x.cli[c].told = e.told
       /\ x.cli[c].is_ok = e.is_ok /\ ~x.cli[c].is_ready
  BY <1>2, <1>3, <1>6, <1>9, <1>13 DEF Marked, OnlyLists
<1>15. \A k \in ListName, d \in Client :
          In(x, k, d) <=> In(w, k, d) /\ ~(k = "ready" /\ d = c)
  <2>1. \A k \in ListName, d \in Client : In(x, k, d) <=> In(y, k, d)
    BY <1>14 DEF In
  <2> QED  BY <1>7, <1>9, <2>1
<1>16. Others(w, x, c)
  BY <1>14, <1>15 DEF Others
<1>17. ~In(w, "free", c) /\ ~In(w, "alive", c) /\ ~(c >= w.stored)
  <2>1. ~In(w, "free", c) /\ ~In(w, "alive", c)
    BY <1>1, InOneList
  <2> QED  BY <1>1, <2>1 DEF Settled
<1>18. Settled(x, c)
  <2>1. ~In(x, "free", c) /\ ~In(x, "alive", c) /\ ~In(x, "ready", c)
    BY <1>1, <1>15, <1>17
  <2>2. Owns(x, c) <=> Owns(w, c)
    BY <1>14 DEF Owns
  <2>3. Heart(x, c) <=> Heart(w, c)
    BY <1>2, <1>14 DEF Heart
  <2> QED  BY <1>1, <1>2, <1>14, <1>17, <2>1, <2>2, <2>3 DEF Settled
<1>19. Sound(x)
  <2>1. \A d \in Client \ {c} : w.cli[d].fd # NoFd => w.cli[d].fd \in x.open
    BY <1>14 DEF Sound, Settled
  <2>2. x.cli[c].fd = NoFd \/ \A d \in Client \ {c} : w.cli[d].fd # x.cli[c].fd
    BY <1>2, <1>14 DEF Sound, Apart
  <2> QED  BY <1>14, <1>16, <1>18, <2>1, <2>2, OneChanged
<1> QED  BY <1>2, <1>6, <1>9, <1>14, <1>16, <1>19 DEF Marked

\* Where list_foreach goes from position k of a list, and what the positions
\* are once the element there was erased.
Walked(w, l, s, n, k, c) ==
    /\ c \in Client /\ In(w, l, c) /\ w.mem.next[c] # NULL
    /\ k < n => w.mem.next[c] = s[k + 1]
    /\ Len(RemoveAt(s, k)) = n - 1
    /\ \A j \in 1..(n - 1) : RemoveAt(s, k)[j] = IF j < k THEN s[j] ELSE s[j + 1]

LEMMA Walk ==
    ASSUME NEW w, Good(w), NEW l \in ListName, NEW s, s = w.lists[l],
           NEW n \in Nat, n = Len(s), NEW k \in 1..n, NEW c, c = s[k]
    PROVE  Walked(w, l, s, n, k, c)
<1>1. s \in Seq(Item) /\ s = w.lists[l]
  BY ItemIsClient DEF Good, World
<1>2. Represents(w.mem, l, s)
  BY <1>1 DEF Good, Faithful
<1>3. \A i \in 1..n : s[i] \in Client
  BY <1>1, ItemIsClient, ElementOfSeq
<1>4. w.mem.next[s[k]] = After(s, k)
  BY <1>1, <1>2 DEF Represents
<1>5. After(s, k) = IF k = n THEN s[1] ELSE s[k + 1]
  BY <1>1 DEF After
<1>6. After(s, k) \in Client /\ NULL \notin Client
  BY <1>3, <1>5, ItemIsClient, ListAssumption
<1>7. In(w, l, s[k])
  BY <1>1 DEF In, ToSet
<1>8. Removed(RemoveAt(s, k), s, k)
  BY <1>1, RemoveAtElements
<1>9. /\ Len(RemoveAt(s, k)) = n - 1
      /\ \A j \in 1..(n - 1) : RemoveAt(s, k)[j] = IF j < k THEN s[j] ELSE s[j + 1]
  BY <1>1, <1>8 DEF Removed
<1> QED  BY <1>3, <1>4, <1>5, <1>6, <1>7, <1>9 DEF Walked

-----------------------------------------------------------------------------
(* The actions.  Each keeps the invariant.                                  *)

\* An event of a client is about the client that owns its descriptor.
LEMMA EventFacts ==
    ASSUME Inv, NEW e \in batch \ Listening
    PROVE  /\ e.fd \in Fd /\ e.client \in Client /\ world.reg[e.fd] = e.client
           /\ Owns(world, e.client) /\ ~In(world, "ready", e.client)
<1>1. e \in [fd : Fd, client : Client]
  BY DEF Inv, TypeOK
<1>2. e.fd \in Fd /\ e.client \in Client
  BY <1>1
<1>3. world.reg[e.fd] = e.client /\ ~In(world, "ready", e.client)
  BY DEF Inv, BatchFresh, Polled
<1> QED  BY <1>2, <1>3 DEF Owns

\* Two events of clients are about different clients.
LEMMA EventsApart ==
    ASSUME Inv, NEW e \in batch \ Listening, NEW g \in batch \ Listening,
           e.client = g.client
    PROVE  e = g
<1>1. e \in [fd : Fd, client : Client] /\ g \in [fd : Fd, client : Client]
  BY DEF Inv, TypeOK
<1>2. Settled(world, e.client)
  BY <1>1 DEF Inv, Sound
<1>3. e.fd = g.fd
  BY <1>2, EventFacts DEF Settled
<1> QED  BY <1>1, <1>3

LEMMA SoundWorld ==
    ASSUME NEW w, Sound(w)
    PROVE  w \in World
  BY DEF Sound, Good

\* An event is taken, and at most the client it is for changes.
LEMMA EventStep ==
    ASSUME Inv, NEW e \in batch \ Listening, pc = "dispatch",
           Sound(world'), Others(world, world', e.client), world'.heart = world.heart,
           batch' = batch \ {e}, pc' = pc, cursor' = cursor, due' = due
    PROVE  Inv'
<1>1. TypeOK'
  BY SoundWorld DEF Inv, TypeOK
<1>2. BatchFresh'
  <2>1. SUFFICES ASSUME NEW g \in batch \ {e}, g \notin Listening
                 PROVE  world'.reg[g.fd] = g.client
    BY DEF BatchFresh
  <2>2. g.client # e.client
    BY <2>1, EventsApart
  <2>3. g.fd \in Fd /\ g.client \in Client /\ world.reg[g.fd] = g.client
    BY <2>1, EventFacts
  <2> QED  BY <2>2, <2>3 DEF Others
<1>3. Polled'
  <2>1. \A g \in (batch \ {e}) \ Listening : ~In(world', "ready", g.client)
    <3>1. SUFFICES ASSUME NEW g \in batch \ {e}, g \notin Listening
                   PROVE  ~In(world', "ready", g.client)
      OBVIOUS
    <3>2. g.client # e.client
      BY <3>1, EventsApart
    <3>3. g.client \in Client /\ ~In(world, "ready", g.client)
      BY <3>1, EventFacts
    <3> QED  BY <3>2, <3>3, ServerAssumption DEF Others
  <2> QED  BY <2>1 DEF Polled
<1>4. AtHead' /\ BeforeEnd'
  BY DEF AtHead, BeforeEnd
<1> QED  BY <1>1, <1>2, <1>3, <1>4 DEF Inv

LEMMA HangupStep ==
    ASSUME Inv, NEW e \in batch \ Listening, HangupEvent(e)
    PROVE  Inv'
<1>1. pc = "dispatch" /\ Sound(world)
  BY DEF HangupEvent, At, Inv
<1>2. Sound(world') /\ Others(world, world', e.client) /\ world'.heart = world.heart
  BY <1>1, EventFacts, CloseEffect DEF HangupEvent
<1> QED  BY <1>1, <1>2, EventStep DEF HangupEvent

LEMMA WriteStep ==
    ASSUME Inv, NEW e \in batch \ Listening, PassedOver(e)
    PROVE  Inv'
<1>1. pc = "dispatch" /\ Sound(world')
  BY DEF PassedOver, At, Inv
<1>2. Others(world, world', e.client) /\ world'.heart = world.heart
  BY DEF PassedOver, Others
<1> QED  BY <1>1, <1>2, EventStep DEF PassedOver

LEMMA ReadStep ==
    ASSUME Separate, Inv, NEW e \in batch \ Listening,
           NEW kept \in BOOLEAN, kept <=> Heart(world, e.client),
           NEW result \in ReadResults[kept], NEW complete \in Completes[kept],
           ReadEvent(e, result, complete)
    PROVE  Inv'
<1>1. pc = "dispatch" /\ Sound(world)
  BY DEF ReadEvent, At, Inv
<1>2. world.cli[e.client].fd # NoFd
  BY <1>1, EventFacts, OwnerPlace, ServerAssumption DEF NoFd
<1>3. world' = Read(world, e.client, result, complete)
  BY <1>2 DEF ReadEvent
<1>4. Sound(world') /\ Others(world, world', e.client) /\ world'.heart = world.heart
  BY <1>1, <1>3, EventFacts, ReadEffect
<1> QED  BY <1>1, <1>4, EventStep DEF ReadEvent

LEMMA EpollStep ==
    ASSUME Inv, EpollWait
    PROVE  Inv'
<1>1. PICK fds \in SUBSET {f \in Fd : world.reg[f] # NULL}, linking \in SUBSET Listening :
         batch' = {[fd |-> f, client |-> world.reg[f]] : f \in fds} \cup linking
  BY DEF EpollWait
<1>2. /\ pc = "epoll" /\ pc' = "dispatch" /\ world' = world /\ cursor' = cursor /\ due' = due
  BY DEF EpollWait, At
<1>3. \A e \in batch' \ Listening : \E f \in Fd :
         e = [fd |-> f, client |-> world.reg[f]] /\ world.reg[f] \in Client
  BY <1>1 DEF Inv, TypeOK, World
<1>4. \A e \in batch' \ Listening : e.client \in Client /\ world.reg[e.fd] = e.client
  BY <1>3
<1>5. \A e \in batch' \ Listening : ~In(world, "ready", e.client)
  BY <1>2, <1>4 DEF Inv, Polled
<1>6. batch' \subseteq [fd : Fd, client : Client] \cup Listening
  BY <1>3
<1>7. TypeOK'
  BY <1>2, <1>6 DEF Inv, TypeOK
<1>8. Sound(world') /\ BatchFresh'
  BY <1>2, <1>4 DEF Inv, BatchFresh
<1>9. Polled'
  BY <1>2, <1>5 DEF Polled
<1>10. AtHead' /\ BeforeEnd'
  BY <1>2 DEF AtHead, BeforeEnd
<1> QED  BY <1>2, <1>7, <1>8, <1>9, <1>10 DEF Inv

\* The actions that move the thread, and nothing in the world.
LEMMA MoveStep ==
    ASSUME Inv, world' = world, TypeOK', batch' \subseteq batch,
           pc' = "epoll" => \A c \in Client : ~In(world, "ready", c),
           pc' \notin {"dispatch"} \cup Port => batch' = {},
           AtHead', BeforeEnd'
    PROVE  Inv'
<1>1. Sound(world') /\ BatchFresh'
  BY DEF Inv, BatchFresh
<1>2. Polled'
  BY DEF Inv, Polled
<1> QED  BY <1>1, <1>2 DEF Inv

LEMMA AcceptBeginStep ==
    ASSUME Inv, NEW e \in Listening, AcceptBegin(e)
    PROVE  Inv'
<1>1. /\ e.port \in Port /\ pc' = e.port /\ batch' = batch \ {e}
      /\ world' = world /\ cursor' = cursor /\ due' = due
  BY DEF AcceptBegin, Listening
<1>2. pc' \notin {"epoll", "visit", "check"}
  BY <1>1, ServerAssumption
<1>3. TypeOK'
  BY <1>1 DEF Inv, TypeOK
<1>4. AtHead' /\ BeforeEnd'
  BY <1>2 DEF AtHead, BeforeEnd
<1> QED  BY <1>1, <1>2, <1>3, <1>4, MoveStep

LEMMA AcceptEndStep ==
    ASSUME Inv, AcceptEnd
    PROVE  Inv'
<1>1. pc' = "dispatch" /\ batch' = batch /\ world' = world /\ cursor' = cursor /\ due' = due
  BY DEF AcceptEnd
<1>2. TypeOK' /\ AtHead' /\ BeforeEnd'
  BY <1>1 DEF Inv, TypeOK, AtHead, BeforeEnd
<1> QED  BY <1>1, <1>2, MoveStep

LEMMA DispatchEndStep ==
    ASSUME Inv, DispatchEnd
    PROVE  Inv'
<1>1. /\ pc' \in {"timer", "issue"} /\ batch = {} /\ batch' = batch
      /\ world' = world /\ cursor' = cursor /\ due' = due
  BY DEF DispatchEnd
<1>2. TypeOK' /\ AtHead' /\ BeforeEnd'
  BY <1>1 DEF Inv, TypeOK, AtHead, BeforeEnd
<1> QED  BY <1>1, <1>2, MoveStep

\* Outside of the dispatching coroutine there are no events.
LEMMA NoEvents ==
    ASSUME Inv, pc \in {"issue", "visit", "timer", "check", "epoll"}
    PROVE  batch = {}
  BY ServerAssumption DEF Inv, Polled

\* list_foreach starts at the first element.
LEMMA ForeachStart ==
    ASSUME Inv, NEW l \in ListName, NEW cur, cur = Foreach(l)
    PROVE  /\ cur \in [left : Int, item : Pointer]
           /\ cur.left = Len(world.lists[l]) /\ cur.left \in Nat
           /\ world.lists[l] # <<>> => cur.item = world.lists[l][1]
           /\ world.lists[l] # <<>> <=> cur.left > 0
<1>1. Good(world)
  BY DEF Inv, Sound
<1>2. PICK s \in Seq(Client) : s = world.lists[l]
  BY <1>1 DEF Good, World
<1>3. Represents(world.mem, l, s)
  BY <1>1, <1>2 DEF Good, Faithful
<1>4. cur = [left |-> world.mem.size[l], item |-> world.mem.head[l]]
  BY DEF Foreach
<1>5. world.mem.head[l] \in Pointer /\ Len(s) \in Nat
  BY <1>1 DEF Good, World, Memory
<1>6. s # <<>> <=> Len(s) > 0
  BY <1>2
<1> QED  BY <1>2, <1>3, <1>4, <1>5, <1>6 DEF Represents

LEMMA IssueBeginStep ==
    ASSUME Inv, IssueBegin
    PROVE  Inv'
<1>1. /\ pc = "issue" /\ pc' = "visit" /\ cursor' = Foreach("ready")
      /\ world' = world /\ batch' = batch /\ due' = due
  BY DEF IssueBegin, At
<1>2. batch = {}
  BY <1>1, NoEvents
<1>3. "ready" \in ListName
  BY ServerAssumption
<1>4. AtHead' /\ cursor' \in [left : Int, item : Pointer]
  BY <1>1, <1>3, ForeachStart DEF AtHead
<1>5. BeforeEnd' /\ TypeOK'
  BY <1>1, <1>4 DEF Inv, TypeOK, BeforeEnd
<1> QED  BY <1>1, <1>2, <1>4, <1>5, MoveStep

LEMMA CheckBeginStep ==
    ASSUME Inv, CheckBegin
    PROVE  Inv'
<1>1. /\ pc = "timer" /\ pc' = "check" /\ cursor' = Foreach("alive")
      /\ world' = world /\ batch' = batch /\ due' = due
  BY DEF CheckBegin, At
<1>2. batch = {}
  BY <1>1, NoEvents
<1>3. "alive" \in ListName
  BY ServerAssumption
<1>4. PICK s \in Seq(Client) : s = world.lists["alive"]
  BY <1>3 DEF Inv, TypeOK, World
<1>5. /\ cursor' \in [left : Int, item : Pointer]
      /\ cursor'.left = Len(s) /\ cursor'.left \in Nat
      /\ cursor'.left > 0 => cursor'.item = s[1]
  BY <1>1, <1>3, <1>4, ForeachStart
<1>6. BeforeEnd'
  <2>1. PICK n \in Nat : n = Len(s)
    OBVIOUS
  <2>2. n \in 0..n /\ n - n + 1 = 1
    OBVIOUS
  <2> QED  BY <1>1, <1>4, <1>5, <2>1, <2>2 DEF BeforeEnd
<1>7. AtHead' /\ TypeOK'
  BY <1>1, <1>5 DEF Inv, TypeOK, AtHead
<1> QED  BY <1>1, <1>2, <1>6, <1>7, MoveStep

LEMMA TimerIdleStep ==
    ASSUME Inv, TimerIdle
    PROVE  Inv'
<1>1. /\ pc = "timer" /\ pc' = "issue" /\ batch' = batch
      /\ world' = world /\ cursor' = cursor /\ due' = due
  BY DEF TimerIdle, At
<1>2. batch = {}
  BY <1>1, NoEvents
<1>3. TypeOK' /\ AtHead' /\ BeforeEnd'
  BY <1>1 DEF Inv, TypeOK, AtHead, BeforeEnd
<1> QED  BY <1>1, <1>2, <1>3, MoveStep

LEMMA CheckEndStep ==
    ASSUME Inv, CheckEnd
    PROVE  Inv'
<1>1. /\ pc = "check" /\ pc' = "issue" /\ batch' = batch /\ world' = world
      /\ cursor' = [left |-> 0, item |-> NULL] /\ due' = Interval
  BY DEF CheckEnd, At
<1>2. batch = {}
  BY <1>1, NoEvents
<1>3. Interval \in 0..Interval /\ cursor' \in [left : Int, item : Pointer]
  BY <1>1, ServerAssumption DEF Pointer
<1>4. TypeOK' /\ AtHead' /\ BeforeEnd'
  BY <1>1, <1>3 DEF Inv, TypeOK, AtHead, BeforeEnd
<1> QED  BY <1>1, <1>2, <1>4, MoveStep

\* issue_tcp_msg ends with the ready list empty: an element of a list that is
\* whole always has a next.
LEMMA IssueEndStep ==
    ASSUME Inv, IssueEnd
    PROVE  Inv'
<1>1. /\ pc = "visit" /\ pc' = "epoll" /\ batch' = batch /\ world' = world
      /\ cursor' = [left |-> 0, item |-> NULL] /\ due' = due /\ ~More
  BY DEF IssueEnd, At
<1>2. batch = {}
  BY <1>1, NoEvents
<1>3. "ready" \in ListName /\ Good(world)
  BY ServerAssumption DEF Inv, Sound
<1>4. PICK s \in Seq(Client) : s = world.lists["ready"]
  BY <1>3 DEF Good, World
<1>5. PICK n \in Nat : n = Len(s)
  OBVIOUS
<1>6. cursor.left = n /\ (n > 0 => cursor.item = s[1])
  BY <1>1, <1>4, <1>5 DEF Inv, AtHead
<1>7. n = 0
  <2>1. SUFFICES ASSUME n > 0 PROVE FALSE
    OBVIOUS
  <2>2. 1 \in 1..n
    BY <2>1
  <2>a. Walked(world, "ready", s, n, 1, s[1])
    BY <1>3, <1>4, <1>5, <2>2, Walk
  <2>3. s[1] \in Client /\ world.mem.next[s[1]] # NULL
    BY <2>a DEF Walked
  <2>4. s[1] # NULL
    BY <2>3, ItemIsClient, ListAssumption
  <2> QED  BY <1>1, <1>6, <2>1, <2>3, <2>4 DEF More
<1>8. \A c \in Client : ~In(world, "ready", c)
  <2>1. DOMAIN s = {}
    <3>1. DOMAIN s = 1..n
      BY <1>5
    <3> QED  BY <1>7, <3>1
  <2>2. ToSet(s) = {}
    BY <2>1 DEF ToSet
  <2> QED  BY <1>4, <2>2 DEF In
<1>9. cursor' \in [left : Int, item : Pointer]
  BY <1>1 DEF Pointer
<1>10. TypeOK' /\ AtHead' /\ BeforeEnd'
  BY <1>1, <1>9 DEF Inv, TypeOK, AtHead, BeforeEnd
<1> QED  BY <1>1, <1>2, <1>8, <1>10, MoveStep

\* An iteration changes one client, which was not linked by it.
LEMMA IterationStep ==
    ASSUME Inv, NEW c \in Client, pc \in {"visit", "check"}, pc' = pc,
           Sound(world'), Others(world, world', c),
           cursor' \in [left : Int, item : Pointer],
           batch' = batch, due' = due, AtHead', BeforeEnd'
    PROVE  Inv'
<1>1. batch = {} /\ pc' # "epoll"
  BY NoEvents
<1>2. TypeOK'
  BY SoundWorld DEF Inv, TypeOK
<1>3. BatchFresh' /\ Polled'
  BY <1>1 DEF BatchFresh, Polled
<1> QED  BY <1>2, <1>3 DEF Inv

\* Where the cursor of an iteration moves.
LEMMA StepTyped ==
    ASSUME Inv, cursor' = Step, More
    PROVE  /\ cursor' \in [left : Int, item : Pointer]
           /\ cursor'.left = cursor.left - 1 /\ cursor.left \in Int /\ cursor.left > 0
           /\ cursor'.item = world.mem.next[cursor.item]
<1>1. cursor \in [left : Int, item : Pointer] /\ cursor.item # NULL /\ cursor.left > 0
  BY DEF Inv, TypeOK, More
<1>2. world.mem.next \in [Item -> Pointer] /\ cursor.item \in Item
  BY <1>1 DEF Inv, TypeOK, World, Memory, Pointer
<1>3. cursor' = [left |-> cursor.left - 1, item |-> world.mem.next[cursor.item]]
  BY DEF Step
<1> QED  BY <1>1, <1>2, <1>3

LEMMA VisitStep ==
    ASSUME Separate, Inv, NEW safe \in BOOLEAN, NEW kick \in Kicks, NEW left \in Leftovers,
           Visit(safe, kick, left)
    PROVE  Inv'
<1>1. ~kick /\ ~left
  BY ServerAssumption DEF Separate
<1>2. kick = FALSE /\ left = FALSE
  BY <1>1, ServerAssumption
<1>3. /\ pc = "visit" /\ pc' = pc /\ batch' = batch /\ due' = due /\ More
      /\ cursor' = Step
      /\ world' = Dismiss(Handled(world, cursor.item, safe, FALSE), cursor.item)
  BY <1>2 DEF Visit, At
<1>4. "ready" \in ListName /\ Good(world) /\ Sound(world)
  BY ServerAssumption DEF Inv, Sound
<1>5. PICK s \in Seq(Client) : s = world.lists["ready"]
  BY <1>4 DEF Good, World
<1>6. PICK n \in Nat : n = Len(s)
  OBVIOUS
<1>7. /\ cursor' \in [left : Int, item : Pointer]
      /\ cursor'.left = cursor.left - 1 /\ cursor.left > 0
      /\ cursor'.item = world.mem.next[cursor.item]
  BY <1>3, StepTyped
<1>8. /\ cursor.left = n /\ n > 0 /\ cursor.item = s[1] /\ 1 \in 1..n
  BY <1>3, <1>5, <1>6, <1>7 DEF Inv, AtHead
<1>9. PICK c \in Client : c = s[1] /\ c = cursor.item
  BY <1>5, <1>6, <1>8
<1>10. /\ In(world, "ready", c)
       /\ 1 < n => world.mem.next[c] = s[2]
       /\ Len(RemoveAt(s, 1)) = n - 1
       /\ \A j \in 1..(n - 1) : RemoveAt(s, 1)[j] = IF j < 1 THEN s[j] ELSE s[j + 1]
  <2>1. Walked(world, "ready", s, n, 1, c)
    BY <1>4, <1>5, <1>6, <1>8, <1>9, Walk
  <2>2. 1 + 1 = 2
    OBVIOUS
  <2> QED  BY <2>1, <2>2 DEF Walked
<1>11. /\ Sound(world') /\ Others(world, world', c)
       /\ world'.cli[c].told = world.cli[c].told
       /\ world'.lists["ready"] = RemoveAt(s, 1)
  <2>1. PICK x : x = Served(world, c, safe)
    OBVIOUS
  <2>2. /\ Sound(x) /\ Others(world, x, c) /\ x.cli[c].told = world.cli[c].told
        /\ \A i \in 1..Len(world.lists["ready"]) : world.lists["ready"][i] = c
             => x.lists["ready"] = RemoveAt(world.lists["ready"], i)
    <3>1. Sound(world) /\ In(world, "ready", c)
      BY <1>4, <1>10
    <3> QED  BY <2>1, <3>1, DismissEffect
  <2>3. x.lists["ready"] = RemoveAt(s, 1)
    BY <1>5, <1>6, <1>8, <1>9, <2>2
  <2>4. world' = x
    BY <1>3, <1>9, <2>1 DEF Served
  <2> QED  BY <2>2, <2>3, <2>4
<1>12. AtHead'
  <2>1. PICK t : t = RemoveAt(s, 1)
    OBVIOUS
  <2>2. cursor'.left = Len(t)
    BY <1>7, <1>8, <1>10, <2>1
  <2>3. t # <<>> => cursor'.item = t[1]
    <3>1. CASE n = 1
      <4>1. Len(t) = 0 /\ t \in Seq(Client)
        BY <1>4, <1>5, <1>10, <1>11, <2>1, <3>1 DEF Sound, Good, World
      <4> QED  BY <4>1
    <3>2. CASE n > 1
      <4>1. 1 \in 1..(n - 1) /\ ~(1 < 1) /\ 1 + 1 = 2
        BY <3>2
      <4>2. t[1] = s[2]
        BY <1>10, <2>1, <4>1
      <4> QED  BY <1>7, <1>9, <1>10, <3>2, <4>2
    <3> QED  BY <1>8, <3>1, <3>2
  <2> QED  BY <1>11, <2>1, <2>2, <2>3 DEF AtHead
<1>13. BeforeEnd'
  BY <1>3 DEF BeforeEnd
<1> QED  BY <1>3, <1>7, <1>11, <1>12, <1>13, IterationStep

LEMMA CheckStepStep ==
    ASSUME Inv, CheckStep
    PROVE  Inv'
<1>1. /\ pc = "check" /\ pc' = pc /\ batch' = batch /\ due' = due /\ More
      /\ cursor' = Step
  BY DEF CheckStep, At
<1>2. /\ "alive" \in ListName /\ Good(world) /\ Sound(world)
  BY ServerAssumption DEF Inv, Sound
<1>3. PICK s \in Seq(Client) : s = world.lists["alive"]
  BY <1>2 DEF Good, World
<1>4. PICK n \in Nat : n = Len(s)
  OBVIOUS
<1>5. PICK left \in 1..n : left = cursor.left
  BY <1>1, <1>3, <1>4, StepTyped DEF Inv, BeforeEnd
<1>6. PICK k \in 1..n : k = n - left + 1 /\ cursor.item = s[k]
  <2>1. PICK k \in 1..n : k = n - left + 1
    BY <1>4, <1>5
  <2>2. cursor.left > 0
    BY <1>1, StepTyped
  <2>3. cursor.item = s[Len(s) - cursor.left + 1]
    BY <1>1, <1>3, <2>2 DEF Inv, BeforeEnd
  <2>4. cursor.item = s[k]
    BY <1>4, <1>5, <2>1, <2>3
  <2> QED  BY <2>1, <2>4
<1>7. PICK c \in Client : c = s[k] /\ c = cursor.item
  BY <1>3, <1>4, <1>6
<1>8. /\ In(world, "alive", c)
      /\ k < n => world.mem.next[c] = s[k + 1]
      /\ Len(RemoveAt(s, k)) = n - 1
      /\ \A j \in 1..(n - 1) : RemoveAt(s, k)[j] = IF j < k THEN s[j] ELSE s[j + 1]
  <2>1. Walked(world, "alive", s, n, k, c)
    BY <1>2, <1>3, <1>4, <1>6, <1>7, Walk
  <2> QED  BY <2>1 DEF Walked
<1>9. /\ cursor' \in [left : Int, item : Pointer]
      /\ cursor'.left = left - 1
      /\ cursor'.item = world.mem.next[c]
  BY <1>1, <1>5, <1>7, StepTyped
<1>10. world.heart # {}
  BY <1>2, <1>8 DEF Sound, Settled
\* What is left of the list: all of it, or all but position k.
<1>11. /\ Sound(world') /\ Others(world, world', c)
       /\ world'.cli[c].told = "link" => world.cli[c].told = "link"
       /\ world'.lists["alive"] \in {s, RemoveAt(s, k)}
  <2>1. CASE world.cli[c].fd = NoFd
    <3>1. PICK x : x = recycle_client(Unlink(world, "alive", c), c)
      OBVIOUS
    <3>2. /\ Sound(x) /\ Others(world, x, c) /\ x.cli[c].told # "link"
          /\ \A i \in 1..Len(world.lists["alive"]) : world.lists["alive"][i] = c
               => x.lists["alive"] = RemoveAt(world.lists["alive"], i)
      BY <1>2, <1>8, <2>1, <3>1, ReapEffect
    <3>3. x.lists["alive"] = RemoveAt(s, k)
      BY <1>3, <1>4, <1>7, <3>2
    <3>4. world' = x
      BY <1>7, <2>1, <3>1 DEF CheckStep
    <3> QED  BY <3>2, <3>3, <3>4
  <2>2. CASE world.cli[c].fd # NoFd /\ Expired(world, c)
    <3>1. PICK y : y = close_socket(world, c)
      OBVIOUS
    <3>2. /\ Sound(y) /\ Others(world, y, c) /\ y.lists = world.lists
          /\ y.cli[c].fd = NoFd
      BY <1>2, <1>8, <1>10, <3>1, CloseKept
    <3>3. In(y, "alive", c)
      BY <1>8, <3>2 DEF In
    <3>4. PICK x : x = recycle_client(Unlink(y, "alive", c), c)
      OBVIOUS
    <3>5. /\ Sound(x) /\ Others(y, x, c) /\ x.cli[c].told # "link"
          /\ \A i \in 1..Len(y.lists["alive"]) : y.lists["alive"][i] = c
               => x.lists["alive"] = RemoveAt(y.lists["alive"], i)
      BY <3>2, <3>3, <3>4, ReapEffect
    <3>6. x.lists["alive"] = RemoveAt(s, k)
      BY <1>3, <1>4, <1>7, <3>2, <3>5
    <3>7. world' = x
      BY <1>7, <2>2, <3>1, <3>4 DEF CheckStep
    <3>8. Others(world, x, c)
      BY <3>2, <3>5, OthersTransitive
    <3> QED  BY <3>5, <3>6, <3>7, <3>8
  <2>3. CASE world.cli[c].fd # NoFd /\ ~Expired(world, c)
    <3>1. world' = world
      BY <1>7, <2>3 DEF CheckStep
    <3> QED  BY <1>2, <1>3, <3>1 DEF Others
  <2> QED  BY <2>1, <2>2, <2>3
<1>12. BeforeEnd'
  <2>1. PICK t : t = world'.lists["alive"]
    OBVIOUS
  <2>2. left - 1 \in 0..(n - 1)
    BY <1>4, <1>5
  <2>3. left - 1 > 0 => k < n /\ cursor'.item = s[k + 1]
    BY <1>4, <1>5, <1>6, <1>8, <1>9
  <2>4. CASE t = s
    <3>1. left - 1 > 0 => n - (left - 1) + 1 = k + 1
      BY <1>5, <1>6
    <3>2. left - 1 \in 0..n
      BY <1>4, <1>5
    <3> QED  BY <1>4, <1>9, <2>1, <2>3, <2>4, <3>1, <3>2 DEF BeforeEnd
  <2>5. CASE t = RemoveAt(s, k)
    <3>1. Len(t) = n - 1
      BY <1>8, <2>5
    <3>2. left - 1 > 0 => (n - 1) - (left - 1) + 1 = k /\ k \in 1..(n - 1) /\ ~(k < k)
      BY <1>5, <1>6
    <3>3. left - 1 > 0 => t[k] = s[k + 1]
      BY <1>8, <2>5, <3>2
    <3> QED  BY <1>9, <2>1, <2>2, <2>3, <3>1, <3>2, <3>3 DEF BeforeEnd
  <2> QED  BY <1>11, <2>1, <2>4, <2>5
<1>13. AtHead'
  BY <1>1 DEF AtHead
<1> QED  BY <1>1, <1>9, <1>11, <1>12, <1>13, IterationStep

\* accept returns a descriptor, which nobody holds.
Opened(w, f) == [w EXCEPT !.open = w.open \cup {f}]

LEMMA OpenEffect ==
    ASSUME NEW w, Sound(w), NEW f \in Fd, f \notin w.open,
           NEW x, x = Opened(w, f)
    PROVE  /\ Sound(x) /\ x.heart = w.heart /\ x.cli = w.cli /\ x.reg = w.reg
           /\ \A k \in ListName, d \in Client : In(x, k, d) <=> In(w, k, d)
           /\ f \in x.open /\ x.reg[f] = NULL
           /\ \A d \in Client : x.cli[d].fd # f
<1>1. /\ x \in World /\ x.mem = w.mem /\ x.lists = w.lists /\ x.cli = w.cli
      /\ x.heart = w.heart /\ x.reg = w.reg /\ x.stored = w.stored
      /\ x.open = w.open \cup {f}
  BY DEF Sound, Good, World, Opened
<1>2. Good(x) /\ Apart(x)
  BY <1>1 DEF Sound, Good, Apart
<1>3. \A k \in ListName, d \in Client : In(x, k, d) <=> In(w, k, d)
  BY <1>1 DEF In
<1>4. \A d \in Client : Settled(x, d)
  <2>1. SUFFICES ASSUME NEW d \in Client PROVE Settled(x, d)
    OBVIOUS
  <2>2. Settled(w, d) /\ w.stored \in Nat
    BY ServerAssumption DEF Sound, Good, World
  <2>3. w.cli[d].fd # NoFd => w.cli[d].fd \in x.open
    BY <1>1, <2>2 DEF Settled
  <2>4. SameClient(w, x, d)
    BY <1>1 DEF SameClient
  <2> QED  BY <1>1, <1>3, <2>2, <2>3, <2>4, StaysSettled
<1>5. \A d \in Client : x.cli[d].fd # f
  BY <1>1, ServerAssumption DEF Sound, Settled, NoFd
<1>6. x.reg[f] = NULL
  <2>1. x.reg[f] \in Client \cup {NULL}
    BY <1>1 DEF World
  <2>2. \A d \in Client : w.reg[f] = d => w.cli[d].fd = f
    BY DEF Sound, Settled
  <2> QED  BY <1>1, <1>5, <2>1, <2>2
<1> QED  BY <1>1, <1>2, <1>3, <1>4, <1>5, <1>6 DEF Sound

\* Whoever is accepted, it is no event's client.
LEMMA AcceptStep ==
    ASSUME Separate, Inv, NEW f \in Fd, NEW registered \in BOOLEAN, tcp_accept(f, registered)
    PROVE  Inv'
<1>1. /\ pc \in Port /\ pc' = pc /\ batch' = batch /\ cursor' = cursor /\ due' = due
      /\ f \notin world.open
  BY DEF tcp_accept, At
<1>2. pc \notin {"epoll", "visit", "check", "timer", "issue"}
  BY <1>1, ServerAssumption
<1>3. PICK w : w = Opened(world, f)
  OBVIOUS
<1>4. /\ Sound(w) /\ w.heart = world.heart /\ w.cli = world.cli /\ w.reg = world.reg
      /\ \A k \in ListName, d \in Client : In(w, k, d) <=> In(world, k, d)
      /\ f \in w.open /\ w.reg[f] = NULL
      /\ \A d \in Client : w.cli[d].fd # f
  BY <1>1, <1>3, OpenEffect DEF Inv
<1>5. PICK p \in Port : p = pc
  BY <1>1
\* Nothing changes but for the client that was extracted, which owned nothing.
<1>6. /\ Sound(world')
      /\ \A d \in Client : Owns(world, d) =>
            /\ \A g \in Fd : world'.reg[g] = d <=> world.reg[g] = d
            /\ In(world', "ready", d) <=> In(world, "ready", d)
  <2>1. CASE ~CanExtract(w)
    <3>1. world' = w
      BY <1>3, <2>1 DEF tcp_accept, Opened
    <3> QED  BY <1>4, <3>1, ServerAssumption
  <2>2. CASE CanExtract(w)
    <3>1. PICK c : c = extract_client(w).client
      OBVIOUS
    <3>2. PICK x : x = Take(w, f, p)
      OBVIOUS
    <3>3. /\ Sound(x) /\ Others(w, x, c) /\ c \in Client
          /\ x.heart = w.heart /\ x.reg = w.reg /\ c < x.stored /\ x.open = w.open
          /\ x.cli[c].fd = f /\ x.cli[c].parent = p /\ ~x.cli[c].is_safe
          /\ x.cli[c].told # "link"
          /\ \A k \in ListName : ~In(x, k, c)
          /\ ~Owns(w, c)
      BY <1>4, <2>2, <3>1, <3>2, Taken
    <3>4. world' = IF registered THEN Register(x, c, f) ELSE x
      BY <1>3, <1>5, <2>2, <3>1, <3>2 DEF tcp_accept, Take, Register, Opened
    <3>5. Sound(world') /\ Others(w, world', c)
      <4>1. CASE registered
        <5>1. PICK z : z = Register(x, c, f)
          OBVIOUS
        <5>2. /\ Sound(z) /\ Others(x, z, c)
              /\ ~z.cli[c].is_safe /\ ~In(z, "ready", c)
          BY <1>4, <3>3, <5>1, Registration
        <5>3. Others(w, z, c)
          BY <3>3, <5>2, OthersTransitive
        <5> QED  BY <3>4, <4>1, <5>1, <5>2, <5>3
      <4>2. CASE ~registered
        BY <3>3, <3>4, <4>2
      <4> QED  BY <4>1, <4>2
    <3>6. \A d \in Client \ {c} :
             /\ world'.cli[d] = world.cli[d]
             /\ \A g \in Fd : world'.reg[g] = d <=> world.reg[g] = d
             /\ In(world', "ready", d) <=> In(world, "ready", d)
      BY <1>4, <3>5, ServerAssumption DEF Others
    <3>7. ~Owns(world, c)
      BY <1>4, <3>3 DEF Owns
    <3> QED  BY <3>5, <3>6, <3>7
  <2> QED  BY <2>1, <2>2
<1>7. TypeOK'
  BY <1>1, <1>6, SoundWorld DEF Inv, TypeOK
<1>8. BatchFresh' /\ Polled'
  <2>1. \A e \in batch \ Listening :
           world'.reg[e.fd] = e.client /\ ~In(world', "ready", e.client)
    BY <1>6, EventFacts
  <2> QED  BY <1>1, <1>2, <2>1 DEF BatchFresh, Polled
<1>9. AtHead' /\ BeforeEnd'
  BY <1>1, <1>2 DEF AtHead, BeforeEnd
<1> QED  BY <1>6, <1>7, <1>8, <1>9 DEF Inv

\* A second passes: only ages change, and Settled does not speak of them.
LEMMA TickStep ==
    ASSUME Inv, Tick
    PROVE  Inv'
<1>1. /\ pc' = pc /\ batch' = batch /\ cursor' = cursor /\ due' = due - 1 /\ due > 0
      /\ Sound(world)
  BY DEF Tick, Inv
<1>2. PICK older : older = [c \in Client |-> Older(world.cli[c])]
  OBVIOUS
<1>3. world' = [world EXCEPT !.cli = older]
  BY <1>2 DEF Tick
<1>4. /\ older \in [Client -> Connection]
      /\ \A c \in Client :
            /\ older[c].fd = world.cli[c].fd /\ older[c].parent = world.cli[c].parent
            /\ older[c].is_ok = world.cli[c].is_ok
            /\ older[c].is_ready = world.cli[c].is_ready
            /\ older[c].is_safe = world.cli[c].is_safe
            /\ older[c].told = world.cli[c].told
  <2>1. SUFFICES ASSUME NEW c \in Client
                 PROVE  /\ older[c] \in Connection
                        /\ older[c].fd = world.cli[c].fd
                        /\ older[c].parent = world.cli[c].parent
                        /\ older[c].is_ok = world.cli[c].is_ok
                        /\ older[c].is_ready = world.cli[c].is_ready
                        /\ older[c].is_safe = world.cli[c].is_safe
                        /\ older[c].told = world.cli[c].told
    BY <1>2
  <2>2. PICK e \in Connection : e = world.cli[c]
    BY <1>1 DEF Sound, Good, World
  <2>3. PICK a \in 0..Stale : a = IF e.age < Stale THEN e.age + 1 ELSE e.age
    BY ServerAssumption DEF Connection, Stale
  <2>4. older[c] = [e EXCEPT !.age = a]
    BY <1>2, <2>2, <2>3 DEF Older, Connection
  <2> QED  BY <2>2, <2>4 DEF Connection
<1>5. /\ world' \in World /\ world'.mem = world.mem /\ world'.lists = world.lists
      /\ world'.cli = older
      /\ world'.heart = world.heart /\ world'.reg = world.reg
      /\ world'.open = world.open /\ world'.stored = world.stored
  BY <1>1, <1>3, <1>4 DEF Sound, Good, World
<1>6. \A k \in ListName, d \in Client : In(world', k, d) <=> In(world, k, d)
  BY <1>5 DEF In
<1>7. Good(world') /\ Apart(world')
  BY <1>1, <1>4, <1>5 DEF Sound, Good, Apart
<1>8. \A d \in Client : Settled(world', d)
  <2>1. SUFFICES ASSUME NEW d \in Client PROVE Settled(world', d)
    OBVIOUS
  <2>2. Settled(world, d) /\ world.stored \in Nat
    BY <1>1, ServerAssumption DEF Sound, Good, World
  <2>3. world.cli[d].fd # NoFd => world.cli[d].fd \in world'.open
    BY <1>5, <2>2 DEF Settled
  <2>4. SameClient(world, world', d)
    BY <1>4, <1>5 DEF SameClient
  <2> QED  BY <1>5, <1>6, <2>2, <2>3, <2>4, StaysSettled
<1>9. Sound(world')
  BY <1>7, <1>8 DEF Sound
<1>10. TypeOK'
  <2>1. due - 1 \in 0..Interval
    BY <1>1, ServerAssumption DEF Inv, TypeOK
  <2> QED  BY <1>1, <1>5, <2>1 DEF Inv, TypeOK
<1>11. BatchFresh' /\ Polled'
  <2>1. \A e \in batch \ Listening : ~In(world', "ready", e.client)
    BY <1>6, EventFacts, ServerAssumption
  <2>2. pc = "epoll" => \A c \in Client : ~In(world', "ready", c)
    BY <1>6, ServerAssumption DEF Inv, Polled
  <2> QED  BY <1>1, <1>5, <2>1, <2>2 DEF Inv, BatchFresh, Polled
<1>12. AtHead' /\ BeforeEnd'
  BY <1>1, <1>5 DEF Inv, AtHead, BeforeEnd
<1> QED  BY <1>9, <1>10, <1>11, <1>12 DEF Inv

-----------------------------------------------------------------------------
(* The invariant, and what it says.                                         *)

LEMMA InitInv == Init => Inv
<1> SUFFICES ASSUME Init PROVE Inv
  OBVIOUS
<1>1. EmptyMemory \in Memory
  BY DEF EmptyMemory, Memory, Pointer
<1>2. <<>> \in Seq(Client) /\ Len(<<>>) = 0 /\ ToSet(<<>>) = {}
  BY EmptySeq DEF ToSet
<1>3. PICK heart \in Regimes, lists \in [ListName -> Seq(Client)],
           cli \in [Client -> Connection], reg \in [Fd -> Client \cup {NULL}] :
         /\ lists = [l \in ListName |-> <<>>]
         /\ cli = [c \in Client |-> FreshClient]
         /\ reg = [f \in Fd |-> NULL]
         /\ world = [heart |-> heart, mem |-> EmptyMemory, lists |-> lists,
                     cli |-> cli, reg |-> reg, open |-> {}, stored |-> 0]
  <2>1. FreshClient \in Connection
    BY ServerAssumption DEF FreshClient, Connection, Stale, NoFd
  <2>2. /\ [l \in ListName |-> <<>>] \in [ListName -> Seq(Client)]
        /\ [c \in Client |-> FreshClient] \in [Client -> Connection]
        /\ [f \in Fd |-> NULL] \in [Fd -> Client \cup {NULL}]
    BY <1>2, <2>1
  <2> QED  BY <2>2 DEF Init
<1>4. world \in World
  BY <1>1, <1>3, ServerAssumption DEF World
<1>5. \A l \in ListName, c \in Client : ~In(world, l, c)
  BY <1>2, <1>3 DEF In
<1>6. Good(world)
  <2>1. \A l \in ListName : world.lists[l] = <<>>
    BY <1>3
  <2>2. \A l \in ListName : Represents(EmptyMemory, l, <<>>)
    BY <1>2 DEF EmptyMemory, Represents
  <2>3. Faithful(EmptyMemory, lists)
    BY <1>2, <1>3, <2>2 DEF EmptyMemory, Faithful
  <2> QED  BY <1>3, <1>4, <2>3 DEF Good
<1>7. \A c \in Client : world.cli[c] = FreshClient /\ ~Owns(world, c)
  <2>1. NULL \notin Client
    BY ItemIsClient, ListAssumption
  <2> QED  BY <1>3, <2>1 DEF Owns
<1>8. Sound(world)
  <2>1. Apart(world)
    BY <1>7 DEF Apart, FreshClient
  <2>2. \A c \in Client : Settled(world, c)
    <3>1. SUFFICES ASSUME NEW c \in Client PROVE Settled(world, c)
      OBVIOUS
    <3>2. \A f \in Fd : world.reg[f] # c
      BY <1>7 DEF Owns
    <3>3. world.stored = 0 /\ c \in Nat /\ ~(c < 0)
      BY <1>3, ServerAssumption DEF Client
    <3> QED  BY <1>5, <1>7, <3>2, <3>3, ServerAssumption DEF Settled, FreshClient
  <2> QED  BY <1>6, <2>1, <2>2 DEF Sound
<1>9. pc = "issue" /\ cursor = [left |-> 0, item |-> NULL] /\ batch = {} /\ due = Interval
  BY DEF Init
<1>10. TypeOK
  BY <1>4, <1>9, ServerAssumption DEF TypeOK, Pointer
<1> QED  BY <1>8, <1>9, <1>10 DEF Inv, BatchFresh, Polled, AtHead, BeforeEnd

LEMMA NextInv ==
    ASSUME Separate, Inv, Next
    PROVE  Inv'
<1>1. CASE Tick
  BY <1>1, TickStep
<1>2. CASE IssueBegin
  BY <1>2, IssueBeginStep
<1>3. CASE IssueEnd
  BY <1>3, IssueEndStep
<1>4. CASE \E safe \in BOOLEAN, kick \in Kicks, left \in Leftovers : Visit(safe, kick, left)
  BY <1>4, VisitStep
<1>5. CASE EpollWait
  BY <1>5, EpollStep
<1>6. CASE AcceptEnd
  BY <1>6, AcceptEndStep
<1>7. CASE DispatchEnd
  BY <1>7, DispatchEndStep
<1>8. CASE \E e \in Listening : AcceptBegin(e)
  BY <1>8, AcceptBeginStep
<1>9. CASE \E f \in Fd, registered \in BOOLEAN : tcp_accept(f, registered)
  BY <1>9, AcceptStep
<1>10. CASE Dispatch
  <2>1. PICK e \in batch \ Listening, kept \in BOOLEAN :
           /\ kept <=> Heart(world, e.client)
           /\ \/ \E result \in ReadResults[kept], complete \in Completes[kept] :
                    ReadEvent(e, result, complete)
              \/ HangupEvent(e)
              \/ PassedOver(e)
    <3>1. PICK e \in batch \ Listening :
             \/ \E result \in ReadResults[Heart(world, e.client)],
                   complete \in Completes[Heart(world, e.client)] :
                   ReadEvent(e, result, complete)
             \/ HangupEvent(e)
             \/ PassedOver(e)
      BY <1>10 DEF Dispatch
    <3>2. Heart(world, e.client) \in BOOLEAN
      BY DEF Heart
    <3> QED  BY <3>1, <3>2
  <2>2. CASE HangupEvent(e)
    BY <2>2, HangupStep
  <2>3. CASE PassedOver(e)
    BY <2>3, WriteStep
  <2>4. CASE \E result \in ReadResults[kept], complete \in Completes[kept] :
                ReadEvent(e, result, complete)
    BY <2>1, <2>4, ReadStep
  <2> QED  BY <2>1, <2>2, <2>3, <2>4
<1>11. CASE TimerIdle
  BY <1>11, TimerIdleStep
<1>12. CASE CheckBegin
  BY <1>12, CheckBeginStep
<1>13. CASE CheckStep
  BY <1>13, CheckStepStep
<1>14. CASE CheckEnd
  BY <1>14, CheckEndStep
<1> QED
  BY <1>1, <1>2, <1>3, <1>4, <1>5, <1>6, <1>7, <1>8, <1>9, <1>10, <1>11, <1>12, <1>13, <1>14
     DEF Next, Program

LEMMA StutterInv ==
    ASSUME Inv, UNCHANGED vars
    PROVE  Inv'
<1>1. /\ world' = world /\ pc' = pc /\ cursor' = cursor /\ batch' = batch /\ due' = due
  BY DEF vars
<1> QED
  BY <1>1 DEF Inv, TypeOK, BatchFresh, Polled, AtHead, BeforeEnd

\* When short and kept connections are separate, the invariant holds: what all the
\* functions of epollet.c, client.c, server.c and alive.c rely on of each other.
THEOREM Invariance ==
    ASSUME Separate
    PROVE  Spec => []Inv
<1>1. Init => Inv
  BY InitInv
<1>2. Inv /\ [Next]_vars => Inv'
  BY NextInv, StutterInv
<1> QED  BY <1>1, <1>2, PTL DEF Spec

\* The ranges of the five variables.
THEOREM Typing ==
    ASSUME Separate
    PROVE  Spec => []TypeOK
<1>1. Inv => TypeOK
  BY DEF Inv
<1> QED  BY <1>1, Invariance, PTL

\* For any number of connections, descriptors and ports, and any order of events:
\* the three lists that share a connection's links stay whole and disjoint, and
\* no null link is followed (list.c, epollet.c, server.c, alive.c).
THEOREM ListsStayWhole ==
    ASSUME Separate
    PROVE  Spec => []ListsFaithful
<1>1. Inv => ListsFaithful
  BY DEF Inv, Sound, Good, ListsFaithful
<1> QED  BY <1>1, Invariance, PTL

\* is_ready says whether a client is in the ready list (client.h:43), so that none
\* is lost or enlisted twice.
THEOREM ReadyFlagTrue ==
    ASSUME Separate
    PROVE  Spec => []ReadyFlag
<1>1. Inv => ReadyFlag
  BY DEF Inv, Sound, Settled, ReadyFlag
<1> QED  BY <1>1, Invariance, PTL

\* What epoll knows is what the clients hold, and two sockets never share a
\* structure (client.h:32).
THEOREM OwnersAgree ==
    ASSUME Separate
    PROVE  Spec => [](Ownership /\ OneClientPerSocket)
<1>1. Inv => Ownership
  <2>1. SUFFICES ASSUME Inv, NEW f \in Fd, world.reg[f] # NULL
                 PROVE  f \in world.open /\ world.cli[world.reg[f]].fd = f
    BY DEF Ownership
  <2>2. world.reg[f] \in Client
    BY <2>1 DEF Inv, TypeOK, World
  <2>3. Settled(world, world.reg[f]) /\ f # NoFd
    BY <2>1, <2>2, ServerAssumption DEF Inv, Sound, NoFd
  <2> QED  BY <2>3 DEF Settled
<1>2. Ownership => OneClientPerSocket
  BY DEF Ownership, OneClientPerSocket
<1> QED  BY <1>1, <1>2, Invariance, PTL

\* No structure leaks, and none is given out twice: each one ever allocated is
\* free, or held by a descriptor or by the alive list (client.c, store.c).
THEOREM NoClientLost ==
    ASSUME Separate
    PROVE  Spec => []ClientsConserved
<1>1. Inv => ClientsConserved
  BY DEF Inv, Sound, Settled, ClientsConserved
<1> QED  BY <1>1, Invariance, PTL

\* Whatever was accepted or closed since epoll_wait returned, an event is about
\* the connection that it was returned for (epollet.c:509-532).
THEOREM EventsFresh ==
    ASSUME Separate
    PROVE  Spec => []BatchFresh
<1>1. Inv => BatchFresh
  BY DEF Inv
<1> QED  BY <1>1, Invariance, PTL

\* The program hears of the link of each connection that is registered, and of
\* the shut of every other once, but for kept ones.
THEOREM LinkAndShut ==
    ASSUME Separate
    PROVE  Spec => []LinkShutAlternate
<1>1. Inv => LinkShutAlternate
  <2>1. SUFFICES ASSUME Inv, NEW c \in Client
                 PROVE  /\ world.cli[c].told = "twice" => Heart(world, c)
                        /\ world.cli[c].told = "link" <=> Registered(c)
    BY DEF LinkShutAlternate
  <2>2. Settled(world, c)
    BY <2>1 DEF Inv, Sound
  <2>3. Registered(c) <=> Owns(world, c)
    BY DEF Registered, Owns
  <2> QED  BY <2>2, <2>3 DEF Settled
<1> QED  BY <1>1, Invariance, PTL

================================================================================
