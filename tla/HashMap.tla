-------------------------------- MODULE HashMap --------------------------------
(***************************************************************************)
(* The chained hash map of src/c-stl/map.c with keys that are numbers      *)
(* (map_put, map_get): operators on a record of all the maps of a program, *)
(*                                                                         *)
(*   [table, next, hashcode, key]                                          *)
(*                                                                         *)
(* A structure that is put into a map embeds its entry (as_map_item), so   *)
(* next, hashcode and key belong to the structure.                         *)
(***************************************************************************)
EXTENDS Integers

CONSTANTS
    Entry,      \* the structures
    MapName,    \* the maps
    Key,        \* the numbers that are keys, of at most five digits
    NULL        \* the null pointer

TableSize == 32     \* DEFAULT_TABLE_SIZE

\* The key string that snprintf writes: its length and its first character.
Digits(k) == CHOOSE d \in 1..5 : k < 10^d /\ (d = 1 \/ k >= 10^(d - 1))
FirstChar(k) == 48 + k \div 10^(Digits(k) - 1)

\* hash: str runs over the string, but what is added is the first character.
Hash == [k \in Key |->
    LET h[i \in 0..5] == IF i = 0 THEN 0 ELSE h[i - 1] * 16 + FirstChar(k)
    IN  h[Digits(k)]]

\* The slots that keys reach.
SlotOf == [k \in Key |-> Hash[k] % TableSize]
Slot == {SlotOf[k] : k \in Key}

\* map_init
EmptyMaps ==
    [table |-> [n \in MapName |-> [s \in Slot |-> NULL]],
     next  |-> [e \in Entry |-> NULL],
     hashcode |-> [e \in Entry |-> 0],
     key   |-> [e \in Entry |-> 0]]

-----------------------------------------------------------------------------
\* The hash, the length of the key and its characters are the same.
Matches(m, e, k) == m.hashcode[e] = Hash[k] /\ m.key[e] = k

\* map_get_str: the first match in the chain, or NULL.
Get(m, n, k) ==
    LET walk[e \in Entry \cup {NULL}] ==
            IF e = NULL THEN NULL ELSE IF Matches(m, e, k) THEN e ELSE walk[m.next[e]]
    IN  walk[m.table[n][SlotOf[k]]]

\* map_get, which needs memory for the string of the key (keyed: it gets it) and
\* never frees it.
Lookup(m, n, k, keyed) == IF keyed THEN Get(m, n, k) ELSE NULL

\* The end of the chain that starts at head.
Last(m, head) ==
    LET last[e \in Entry] == IF m.next[e] = NULL THEN e ELSE last[m.next[e]]
    IN  last[head]

\* The links of the entry are written before the chain is searched for its key.
Touched(m, e, k) == [m EXCEPT !.next[e] = NULL, !.hashcode[e] = Hash[k]]

\* The entry goes to the end of its chain.
Linked(m, n, e, k) ==
    LET head == m.table[n][SlotOf[k]]
    IN  IF head = NULL THEN [m EXCEPT !.table[n][SlotOf[k]] = e]
        ELSE [m EXCEPT !.next[Last(m, head)] = e]

\* map_put succeeds if the key is new.
Fresh(m, n, k) == Get(m, n, k) = NULL

\* map_put_str, with the key that map_put wrote
Put(m, n, e, k) ==
    LET t == Touched(m, e, k)
    IN  IF Fresh(m, n, k)
        THEN [Linked(t, n, e, k) EXCEPT !.key[e] = k]
        ELSE t

================================================================================
