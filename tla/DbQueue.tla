-------------------------------- MODULE DbQueue --------------------------------
(***************************************************************************)
(* The queue between the network thread, which posts database messages,    *)
(* and the database thread, which runs them (src/src/database.c), without  *)
(* a lock: each step is one access to the shared queue, in the order the   *)
(* build (gcc -O2) emits them.                                             *)
(*                                                                         *)
(* queue_push_fixed reads tail and head, writes the slot, increments size  *)
(* (a load and a store) and writes tail.  queue_pop reads size once, reads *)
(* head and the slot, clears the slot, stores the decremented size and     *)
(* writes head.  Accesses are sequentially consistent.                     *)
(***************************************************************************)
EXTENDS Integers, Sequences

CONSTANTS
    None,      \* the null pointer: no message
    Capacity,  \* capacity given to queue_init by init_database
    MaxPosts   \* bound: messages posted; message n is the n-th post

ASSUME DbQueueAssumption ==
    /\ Capacity \in Nat /\ Capacity > 1
    /\ MaxPosts \in Nat
    /\ None \notin Int

Message == 1..MaxPosts
Index   == 0..(Capacity - 1)

VARIABLES
    table, head, tail, size,  \* the queue
    net,      \* the network thread: [at, reg], where it is and a loaded size
    db,       \* the database thread: [at, reg, item]
    posts,    \* how many messages were posted, refused ones included
    handled   \* history: the messages that the database thread ran, in order

shared == <<table, head, tail, size>>
dbVars == <<table, head, tail, size, net, db, posts, handled>>

DbInit ==
    /\ table = [i \in Index |-> None]
    /\ head = 0 /\ tail = 0 /\ size = 0
    /\ net = [at |-> "idle", reg |-> 0]
    /\ db = [at |-> "idle", reg |-> 0, item |-> None]
    /\ posts = 0
    /\ handled = <<>>

-----------------------------------------------------------------------------
(* post_db_msg, in the network thread.                                      *)

IsFull == head = (tail + 1) % Capacity

\* A full queue refuses the message, and its buffer is lost.
PostRefused ==
    /\ net.at = "idle" /\ posts < MaxPosts /\ IsFull
    /\ posts' = posts + 1
    /\ UNCHANGED <<table, head, tail, size, net, db, handled>>

PostBegin ==
    /\ net.at = "idle" /\ posts < MaxPosts /\ ~IsFull
    /\ posts' = posts + 1
    /\ net' = [net EXCEPT !.at = "slot"]
    /\ UNCHANGED <<table, head, tail, size, db, handled>>

PostSlot ==
    /\ net.at = "slot"
    /\ table' = [table EXCEPT ![tail] = posts]
    /\ net' = [net EXCEPT !.at = "load"]
    /\ UNCHANGED <<head, tail, size, db, posts, handled>>

PostLoadSize ==
    /\ net.at = "load"
    /\ net' = [at |-> "store", reg |-> size]
    /\ UNCHANGED <<table, head, tail, size, db, posts, handled>>

PostStoreSize ==
    /\ net.at = "store"
    /\ size' = net.reg + 1
    /\ net' = [net EXCEPT !.at = "tail"]
    /\ UNCHANGED <<table, head, tail, db, posts, handled>>

\* Mutant of PostTail: the tail does not wrap.
PostTailUnwrapped ==
    /\ net.at = "tail"
    /\ tail' = tail + 1
    /\ net' = [at |-> "idle", reg |-> 0]
    /\ UNCHANGED <<table, head, size, db, posts, handled>>

PostTail ==
    /\ net.at = "tail"
    /\ tail' = (tail + 1) % Capacity
    /\ net' = [at |-> "idle", reg |-> 0]
    /\ UNCHANGED <<table, head, size, db, posts, handled>>

-----------------------------------------------------------------------------
(* issue_db_msg, in the database thread.                                    *)

\* queue_empty is false.
PopBegin ==
    /\ db.at = "idle" /\ size # 0
    /\ db' = [db EXCEPT !.at = "size"]
    /\ UNCHANGED <<shared, net, posts, handled>>

\* The size that queue_pop asserts, and later stores decremented.
PopLoadSize ==
    /\ db.at = "size" /\ size > 0
    /\ db' = [db EXCEPT !.at = "slot", !.reg = size]
    /\ UNCHANGED <<shared, net, posts, handled>>

PopSlot ==
    /\ db.at = "slot"
    /\ db' = [db EXCEPT !.at = "clear", !.item = table[head]]
    /\ UNCHANGED <<shared, net, posts, handled>>

\* Mutant of PopClear: the slot keeps its message.
PopClearNot ==
    /\ db.at = "clear"
    /\ db' = [db EXCEPT !.at = "store"]
    /\ UNCHANGED <<shared, net, posts, handled>>

PopClear ==
    /\ db.at = "clear"
    /\ table' = [table EXCEPT ![head] = None]
    /\ db' = [db EXCEPT !.at = "store"]
    /\ UNCHANGED <<head, tail, size, net, posts, handled>>

PopStoreSize ==
    /\ db.at = "store"
    /\ size' = db.reg - 1
    /\ db' = [db EXCEPT !.at = "head"]
    /\ UNCHANGED <<table, head, tail, net, posts, handled>>

\* The head moves; a message that was there is run, a null one is skipped.
PopHead ==
    /\ db.at = "head"
    /\ head' = (head + 1) % Capacity
    /\ handled' = IF db.item = None THEN handled ELSE Append(handled, db.item)
    /\ db' = [at |-> "idle", reg |-> 0, item |-> None]
    /\ UNCHANGED <<table, tail, size, net, posts>>

Post == PostRefused \/ PostBegin \/ PostSlot \/ PostLoadSize \/ PostStoreSize \/ PostTail
Pop  == PopBegin \/ PopLoadSize \/ PopSlot \/ PopClear \/ PopStoreSize \/ PopHead

DbNext == Post \/ Pop

DbSpec == DbInit /\ [][DbNext]_dbVars

-----------------------------------------------------------------------------
\* Types of the variables.
DbTypeOK ==
    /\ table \in [Index -> Message \cup {None}]
    /\ head \in Index /\ tail \in Index /\ size \in Int
    /\ net \in [at : {"idle", "slot", "load", "store", "tail"}, reg : Int]
    /\ db \in [at : {"idle", "size", "slot", "clear", "store", "head"},
               reg : Int, item : Message \cup {None}]
    /\ posts \in 0..MaxPosts
    /\ handled \in Seq(Message)

\* Although both threads write size without a lock, no message is run twice: a
\* pop clears the slot before it lets go of it (queue.c:110-113).
RunAtMostOnce == \A i, j \in 1..Len(handled) : handled[i] = handled[j] => i = j

\* The slot of a message that waits is never overwritten: queue_push_fixed is
\* the push for several threads and refuses when the queue is full
\* (queue.h:45, 47).  This does NOT hold: after a lost update of size, a pop of
\* the empty queue moves the head past the tail.
NothingOverwritten ==
    [][\A i \in Index : table[i] # None => table'[i] \in {table[i], None}]_dbVars

================================================================================
