------------------------------- MODULE PortsProofs -------------------------------
(***************************************************************************)
(* Theorems about Ports, for any descriptors, codes, handlers and          *)
(* structures: a port that was reported is served, and a message goes to   *)
(* the handler that was registered for its code and port.                  *)
(*                                                                         *)
(* The maps are chains of entries.  The first half shows that map_put and  *)
(* map_get of HashMap, which walk along the links, make each map a partial *)
(* function, whatever keys have one hash; the second half is about the     *)
(* program's calls.                                                        *)
(***************************************************************************)
EXTENDS Ports, Sequences, SequenceTheorems, WellFoundedInduction, TLAPS

Keys == Fd \cup Cmd

\* The entries of a map in one slot, from the head of the chain on.
IsChains(ch) == ch \in [Name -> [H!Slot -> Seq(Entry)]]

\* The table holds the first entry of each chain.
Heads(m, ch) ==
    \A n \in Name, s \in H!Slot :
        m.table[n][s] = IF ch[n][s] = <<>> THEN NULL ELSE ch[n][s][1]

\* Each entry is linked to the one behind it, and the last to none.
Links(m, ch) ==
    \A n \in Name, s \in H!Slot : \A i \in 1..Len(ch[n][s]) :
        m.next[ch[n][s][i]] = IF i = Len(ch[n][s]) THEN NULL ELSE ch[n][s][i + 1]

\* A structure is in one chain, once.
Apart(ch) ==
    \A n, o \in Name, s, r \in H!Slot :
        \A i \in 1..Len(ch[n][s]), j \in 1..Len(ch[o][r]) :
            ch[n][s][i] = ch[o][r][j] => n = o /\ s = r /\ i = j

\* The structure is in some chain.
Chained(ch, e) == \E n \in Name, s \in H!Slot : \E i \in 1..Len(ch[n][s]) : ch[n][s][i] = e

\* A structure that is in no chain is linked to none.
Loose(m, ch) == \A e \in Entry : Chained(ch, e) \/ m.next[e] = NULL

\* An entry is in the slot of its key, with the hash of its key.
Keyed(m, ch) ==
    \A n \in Name, s \in H!Slot : \A i \in 1..Len(ch[n][s]) :
        LET e == ch[n][s][i]
        IN  m.key[e] \in Keys /\ m.hashcode[e] = H!Hash[m.key[e]] /\ H!SlotOf[m.key[e]] = s

\* A key is in a chain once.
Once(m, ch) ==
    \A n \in Name, s \in H!Slot : \A i, j \in 1..Len(ch[n][s]) :
        m.key[ch[n][s][i]] = m.key[ch[n][s][j]] => i = j

\* The members of the record of all maps.
MapTypes(m) ==
    /\ m = [table |-> m.table, next |-> m.next, hashcode |-> m.hashcode, key |-> m.key]
    /\ m.table \in [Name -> [H!Slot -> Entry \cup {NULL}]]
    /\ m.next \in [Entry -> Entry \cup {NULL}]
    /\ DOMAIN m.hashcode = Entry /\ m.hashcode = [e \in Entry |-> m.hashcode[e]]
    /\ DOMAIN m.key = Entry /\ m.key = [e \in Entry |-> m.key[e]]

\* The memory m holds the chains ch, made of structures that are in use.
Holds(m, ch, u) ==
    /\ MapTypes(m) /\ IsChains(ch)
    /\ Heads(m, ch) /\ Links(m, ch) /\ Apart(ch) /\ Loose(m, ch)
    /\ Keyed(m, ch) /\ Once(m, ch)
    /\ \A e \in Entry : Chained(ch, e) => e \in u

-----------------------------------------------------------------------------
(* Numbers and steps.                                                        *)

\* A set of numbers that is not empty has a least one.
LEMMA Least ==
    ASSUME NEW T \in SUBSET Nat, T # {}
    PROVE  \E x \in T : \A y \in T : x <= y
<1> DEFINE less == {ss \in Nat \X Nat : ss[1] < ss[2]}
<1>1. IsWellFoundedOn(less, Nat)
  BY NatLessThanWellFounded DEF OpToRel
<1>2. \A x, y \in Nat : <<y, x>> \in less <=> y < x
  OBVIOUS
<1> HIDE DEF less
<1>3. PICK x \in T : \A y \in T : <<y, x>> \notin less
  BY <1>1, WFMin
<1>4. \A y \in T : x <= y
  <2> TAKE y \in T
  <2>1. x \in Nat /\ y \in Nat
    OBVIOUS
  <2>2. ~(y < x)
    BY <2>1, <1>2, <1>3
  <2> QED  BY <2>1, <2>2
<1> QED  BY <1>4

\* What does not change from one position to the next is the same at both ends.
LEMMA Constant ==
    ASSUME NEW n \in Nat, n >= 1, NEW g, \A i \in 1..(n - 1) : g[i] = g[i + 1]
    PROVE  g[1] = g[n]
<1> DEFINE Far == {d \in Nat : 1 + d <= n /\ g[1 + d] # g[1]}
<1> SUFFICES ASSUME g[n] # g[1] PROVE FALSE
  OBVIOUS
<1>1. n - 1 \in Far
  OBVIOUS
<1>2. PICK d \in Far : \A c \in Far : d <= c
  BY <1>1, Least
<1>3. d \in Nat \ {0} /\ 1 + d <= n /\ g[1 + d] # g[1]
  OBVIOUS
<1>4. d - 1 \in Nat /\ ~(d <= d - 1)
  BY <1>3
<1>5. g[1 + (d - 1)] = g[1]
  BY <1>2, <1>3, <1>4
<1>6. g[d] = g[d + 1]
  BY <1>3
<1> QED  BY <1>3, <1>5, <1>6

-----------------------------------------------------------------------------
\* The null pointer is no structure and no handler, and a handler is not garbage.
LEMMA Nulls == NULL \notin Entry /\ NULL \notin Func /\ Garbage \notin Func
BY PortsAssumption, Zenon DEF PortsAssumption

-----------------------------------------------------------------------------
(* Entries and keys.                                                         *)

\* What a position of a chain says of the entry in it.
LEMMA EntryAt ==
    ASSUME NEW m, NEW ch, NEW u, Holds(m, ch, u),
           NEW n \in Name, NEW s \in H!Slot, NEW i \in 1..Len(ch[n][s])
    PROVE  /\ ch[n][s][i] \in Entry /\ ch[n][s][i] # NULL
           /\ Chained(ch, ch[n][s][i]) /\ ch[n][s][i] \in u
           /\ m.key[ch[n][s][i]] \in Keys
           /\ m.hashcode[ch[n][s][i]] = H!Hash[m.key[ch[n][s][i]]]
           /\ H!SlotOf[m.key[ch[n][s][i]]] = s
<1>1. ch[n][s] \in Seq(Entry)
  BY DEF Holds, IsChains
<1>2. ch[n][s][i] \in Entry
  BY <1>1, ElementOfSeq
<1>3. Chained(ch, ch[n][s][i])
  BY DEF Chained
<1>4. ch[n][s][i] \in u
  BY <1>2, <1>3 DEF Holds
<1> QED  BY <1>2, <1>3, <1>4, Nulls DEF Holds, Keyed

\* A slot of a key is a slot of the table.
LEMMA SlotIs == ASSUME NEW k \in Keys PROVE H!SlotOf[k] \in H!Slot
BY DEF H!Slot, Keys

\* An entry matches the key it was put under, and no other.
LEMMA MatchIsKey ==
    ASSUME NEW m, NEW ch, NEW u, Holds(m, ch, u), NEW k \in Keys,
           NEW n \in Name, NEW s \in H!Slot, NEW i \in 1..Len(ch[n][s])
    PROVE  H!Matches(m, ch[n][s][i], k) <=> m.key[ch[n][s][i]] = k
BY EntryAt DEF H!Matches

\* In a chain a key is in one place at most.
LEMMA OneMatch ==
    ASSUME NEW m, NEW ch, NEW u, Holds(m, ch, u), NEW k \in Keys,
           NEW n \in Name, NEW s \in H!Slot,
           NEW i \in 1..Len(ch[n][s]), NEW j \in 1..Len(ch[n][s]),
           H!Matches(m, ch[n][s][i], k), H!Matches(m, ch[n][s][j], k)
    PROVE  i = j
<1>1. m.key[ch[n][s][i]] = k /\ m.key[ch[n][s][j]] = k
  BY MatchIsKey
<1> QED  BY <1>1 DEF Holds, Once

\* An entry is in one place.
LEMMA OnePlace ==
    ASSUME NEW m, NEW ch, NEW u, Holds(m, ch, u),
           NEW n \in Name, NEW s \in H!Slot, NEW i \in 1..Len(ch[n][s]),
           NEW o \in Name, NEW r \in H!Slot, NEW j \in 1..Len(ch[o][r]),
           ch[n][s][i] = ch[o][r][j]
    PROVE  n = o /\ s = r /\ i = j
BY DEF Holds, Apart

-----------------------------------------------------------------------------
(* map_get.                                                                  *)

\* One step of the walk of map_get, as a function of those that follow.
WalkStep(m, k, g) ==
    [e \in Entry \cup {NULL} |->
        IF e = NULL THEN NULL ELSE IF H!Matches(m, e, k) THEN e ELSE g[m.next[e]]]

\* Get is the result of a walk, if there is one.
LEMMA GetIsWalk ==
    ASSUME NEW m, NEW n, NEW k, NEW f, f = WalkStep(m, k, f)
    PROVE  \E g : g = WalkStep(m, k, g) /\ H!Get(m, n, k) = g[m.table[n][H!SlotOf[k]]]
<1> DEFINE g == CHOOSE g : g = WalkStep(m, k, g)
<1>1. g = WalkStep(m, k, g)
  BY Zenon
<1>2. H!Get(m, n, k) = g[m.table[n][H!SlotOf[k]]]
  BY Zenon DEF H!Get, WalkStep
<1> QED  BY <1>1, <1>2

\* The entries behind an entry of its chain.
Behind(ch, e) ==
    {x \in Entry : \E n \in Name, s \in H!Slot : \E i, j \in 1..Len(ch[n][s]) :
        i < j /\ ch[n][s][i] = e /\ ch[n][s][j] = x}

\* Those of them that match the key.
Goal(m, ch, e, k) == {x \in Behind(ch, e) : H!Matches(m, x, k)}

\* What is behind an entry: its successor and what is behind that.
LEMMA BehindNext ==
    ASSUME NEW m, NEW ch, NEW u, Holds(m, ch, u),
           NEW n \in Name, NEW s \in H!Slot, NEW i \in 1..Len(ch[n][s]), i # Len(ch[n][s])
    PROVE  /\ i + 1 \in 1..Len(ch[n][s])
           /\ \A x : x \in Behind(ch, ch[n][s][i])
                  <=> x = ch[n][s][i + 1] \/ x \in Behind(ch, ch[n][s][i + 1])
<1>0. Len(ch[n][s]) \in Nat /\ i \in Nat
  BY LenProperties DEF Holds, IsChains
<1>1. i + 1 \in 1..Len(ch[n][s]) /\ i < i + 1
  BY <1>0
<1>2. ch[n][s][i + 1] \in Entry
  BY <1>1, EntryAt
<1>3. ASSUME NEW x \in Behind(ch, ch[n][s][i])
      PROVE  x = ch[n][s][i + 1] \/ x \in Behind(ch, ch[n][s][i + 1])
  <2>1. PICK o \in Name, r \in H!Slot : \E a, b \in 1..Len(ch[o][r]) :
            a < b /\ ch[o][r][a] = ch[n][s][i] /\ ch[o][r][b] = x
    BY <1>3 DEF Behind
  <2>2. PICK a \in 1..Len(ch[o][r]), b \in 1..Len(ch[o][r]) :
            a < b /\ ch[o][r][a] = ch[n][s][i] /\ ch[o][r][b] = x
    BY <2>1
  <2>3. o = n /\ r = s /\ a = i
    BY <2>2, OnePlace
  <2>4. b = i + 1 \/ i + 1 < b
    BY <1>0, <2>2, <2>3
  <2>5. x \in Entry
    BY <1>3 DEF Behind
  <2> QED  BY <1>1, <2>2, <2>3, <2>4, <2>5 DEF Behind
<1>4. ch[n][s][i + 1] \in Behind(ch, ch[n][s][i])
  BY <1>1, <1>2 DEF Behind
<1>5. ASSUME NEW x \in Behind(ch, ch[n][s][i + 1])
      PROVE  x \in Behind(ch, ch[n][s][i])
  <2>1. PICK o \in Name, r \in H!Slot : \E a, b \in 1..Len(ch[o][r]) :
            a < b /\ ch[o][r][a] = ch[n][s][i + 1] /\ ch[o][r][b] = x
    BY <1>5 DEF Behind
  <2>2. PICK a \in 1..Len(ch[o][r]), b \in 1..Len(ch[o][r]) :
            a < b /\ ch[o][r][a] = ch[n][s][i + 1] /\ ch[o][r][b] = x
    BY <2>1
  <2>3. o = n /\ r = s /\ a = i + 1
    BY <1>1, <2>2, OnePlace
  <2>4. i < b
    BY <1>0, <2>2, <2>3
  <2>5. x \in Entry
    BY <1>5 DEF Behind
  <2> QED  BY <2>2, <2>3, <2>4, <2>5 DEF Behind
<1> QED  BY <1>1, <1>3, <1>4, <1>5

\* Nothing is behind the last entry of a chain, or behind one that is in none.
LEMMA BehindEnd ==
    ASSUME NEW m, NEW ch, NEW u, Holds(m, ch, u), NEW e \in Entry, m.next[e] = NULL
    PROVE  Behind(ch, e) = {}
<1> SUFFICES ASSUME NEW x \in Behind(ch, e) PROVE FALSE
  OBVIOUS
<1>1. PICK o \in Name, r \in H!Slot : \E a, b \in 1..Len(ch[o][r]) :
          a < b /\ ch[o][r][a] = e /\ ch[o][r][b] = x
  BY DEF Behind
<1>2. PICK a \in 1..Len(ch[o][r]), b \in 1..Len(ch[o][r]) : a < b /\ ch[o][r][a] = e
  BY <1>1
<1>3. Len(ch[o][r]) \in Nat
  BY LenProperties DEF Holds, IsChains
<1>4. a # Len(ch[o][r]) /\ a + 1 \in 1..Len(ch[o][r])
  BY <1>2, <1>3
<1>5. m.next[e] = ch[o][r][a + 1]
  BY <1>2, <1>4 DEF Holds, Links
<1> QED  BY <1>4, <1>5, EntryAt

\* A chained entry that is linked to another is not the last.
LEMMA NextIs ==
    ASSUME NEW m, NEW ch, NEW u, Holds(m, ch, u), NEW e \in Entry, m.next[e] # NULL
    PROVE  \E n \in Name, s \in H!Slot : \E i \in 1..Len(ch[n][s]) :
               /\ e = ch[n][s][i] /\ i # Len(ch[n][s]) /\ i + 1 \in 1..Len(ch[n][s])
               /\ m.next[e] = ch[n][s][i + 1]
<1>1. Chained(ch, e)
  BY DEF Holds, Loose
<1>2. PICK n \in Name, s \in H!Slot : \E i \in 1..Len(ch[n][s]) : ch[n][s][i] = e
  BY <1>1 DEF Chained
<1>3. PICK i \in 1..Len(ch[n][s]) : ch[n][s][i] = e
  BY <1>2
<1>4. i # Len(ch[n][s]) /\ m.next[e] = ch[n][s][i + 1]
  BY <1>3 DEF Holds, Links
<1>5. Len(ch[n][s]) \in Nat
  BY LenProperties DEF Holds, IsChains
<1>6. i + 1 \in 1..Len(ch[n][s])
  BY <1>4, <1>5
<1> QED  BY <1>3, <1>4, <1>6

\* The walk ends from every entry.
LEMMA WalkDefined ==
    ASSUME NEW m, NEW ch, NEW u, Holds(m, ch, u), NEW k \in Keys
    PROVE  \E f : f = WalkStep(m, k, f)
<1> DEFINE M(e) == H!Matches(m, e, k)
           G(e) == Goal(m, ch, e, k)
           f == [e \in Entry \cup {NULL} |->
                    IF e = NULL THEN NULL ELSE IF M(e) THEN e
                    ELSE IF G(e) = {} THEN NULL ELSE CHOOSE x \in G(e) : TRUE]
<1>0. NULL \notin Entry
  BY Nulls
<1>1. ASSUME NEW e \in Entry, ~M(e), m.next[e] = NULL PROVE f[e] = f[m.next[e]]
  <2>1. G(e) = {}
    BY <1>1, BehindEnd DEF Goal
  <2> QED  BY <1>0, <1>1, <2>1
<1>2. ASSUME NEW e \in Entry, ~M(e), m.next[e] # NULL PROVE f[e] = f[m.next[e]]
  <2>1. PICK n \in Name, s \in H!Slot : \E i \in 1..Len(ch[n][s]) :
               /\ e = ch[n][s][i] /\ i # Len(ch[n][s]) /\ i + 1 \in 1..Len(ch[n][s])
               /\ m.next[e] = ch[n][s][i + 1]
    BY <1>2, NextIs
  <2>2. PICK i \in 1..Len(ch[n][s]) :
               /\ e = ch[n][s][i] /\ i # Len(ch[n][s]) /\ i + 1 \in 1..Len(ch[n][s])
               /\ m.next[e] = ch[n][s][i + 1]
    BY <2>1
  <2> DEFINE y == ch[n][s][i + 1]
  <2>3. y \in Entry /\ y # NULL /\ m.next[e] = y
    BY <2>2, EntryAt
  <2>4. Behind(ch, e) = {y} \cup Behind(ch, y)
    <3>1. \A x : x \in Behind(ch, ch[n][s][i])
                  <=> x = ch[n][s][i + 1] \/ x \in Behind(ch, ch[n][s][i + 1])
      BY <2>2, BehindNext
    <3> QED  BY <2>2, <3>1
  <2>5. CASE M(y)
    <3>1. ASSUME NEW x \in Behind(ch, y), M(x) PROVE x = y
      <4>1. PICK o \in Name, r \in H!Slot : \E a, b \in 1..Len(ch[o][r]) :
                a < b /\ ch[o][r][a] = y /\ ch[o][r][b] = x
        BY <3>1 DEF Behind
      <4>2. PICK a \in 1..Len(ch[o][r]), b \in 1..Len(ch[o][r]) :
                a < b /\ ch[o][r][a] = y /\ ch[o][r][b] = x
        BY <4>1
      <4>3. a = b
        BY <2>5, <3>1, <4>2, OneMatch
      <4> QED  BY <4>2, <4>3
    <3>2. G(e) = {y}
      BY <2>4, <2>5, <3>1 DEF Goal
    <3>3. f[e] = y /\ f[y] = y
      BY <1>2, <2>3, <2>5, <1>0, <3>2
    <3> QED  BY <2>3, <3>3
  <2>6. CASE ~M(y)
    <3>1. G(e) = G(y)
      BY <2>4, <2>6 DEF Goal
    <3> HIDE DEF G, M
    <3>2. f[e] = f[y]
      BY <1>2, <2>3, <2>6, <1>0, <3>1
    <3> QED  BY <2>3, <3>2
  <2> QED  BY <2>5, <2>6
<1>3. m.next \in [Entry -> Entry \cup {NULL}]
  BY DEF Holds, MapTypes
<1> HIDE DEF G
<1>4. \A e \in Entry \cup {NULL} :
          f[e] = IF e = NULL THEN NULL ELSE IF M(e) THEN e ELSE f[m.next[e]]
  <2>1. f[NULL] = NULL
    OBVIOUS
  <2>2. ASSUME NEW e \in Entry, M(e) PROVE f[e] = e
    BY <1>0, <2>2
  <2> HIDE DEF f, M
  <2> QED  BY <1>0, <1>1, <1>2, <2>1, <2>2
<1>5. f = [e \in Entry \cup {NULL} |-> f[e]]
  OBVIOUS
<1> HIDE DEF f
<1>6. f = WalkStep(m, k, f)
  BY <1>4, <1>5 DEF WalkStep
<1> QED  BY <1>6

\* map_get finds the entry of the key in its map.
LEMMA GetFinds ==
    ASSUME NEW m, NEW ch, NEW u, Holds(m, ch, u), NEW k \in Keys, NEW n \in Name,
           NEW s \in H!Slot, NEW j \in 1..Len(ch[n][s]), m.key[ch[n][s][j]] = k
    PROVE  H!Get(m, n, k) = ch[n][s][j]
<1>1. s = H!SlotOf[k] /\ ch[n][s][j] \in Entry /\ ch[n][s][j] # NULL
  BY EntryAt
<1>2. PICK g : g = WalkStep(m, k, g) /\ H!Get(m, n, k) = g[m.table[n][s]]
  BY <1>1, WalkDefined, GetIsWalk
<1>3. Len(ch[n][s]) \in Nat /\ j \in Nat /\ j >= 1 /\ j <= Len(ch[n][s])
  BY LenProperties DEF Holds, IsChains
<1>4. H!Matches(m, ch[n][s][j], k)
  BY MatchIsKey
<1>5. g[ch[n][s][j]] = ch[n][s][j]
  BY <1>1, <1>2, <1>4 DEF WalkStep
<1> DEFINE v == [i \in 1..j |-> g[ch[n][s][i]]]
<1>6. ASSUME NEW i \in 1..(j - 1) PROVE v[i] = v[i + 1]
  <2>1. i \in 1..Len(ch[n][s]) /\ i # Len(ch[n][s]) /\ i # j /\ i \in 1..j /\ i + 1 \in 1..j
    BY <1>3
  <2>2. ch[n][s][i] \in Entry /\ ch[n][s][i] # NULL
    BY <2>1, EntryAt
  <2>3. ~H!Matches(m, ch[n][s][i], k)
    BY <2>1, <1>4, OneMatch
  <2>4. m.next[ch[n][s][i]] = ch[n][s][i + 1]
    BY <2>1 DEF Holds, Links
  <2>5. g[ch[n][s][i]] = g[ch[n][s][i + 1]]
    BY <1>2, <2>2, <2>3, <2>4 DEF WalkStep
  <2> QED  BY <2>1, <2>5
<1>7. v[1] = v[j]
  <2> HIDE DEF v
  <2> QED  BY <1>3, <1>6, Constant
<1>8. ch[n][s] # <<>>
  BY <1>3
<1>9. m.table[n][s] = ch[n][s][1]
  BY <1>8 DEF Holds, Heads
<1> QED  BY <1>2, <1>3, <1>5, <1>7, <1>9

\* map_get finds nothing when no entry of the map has the key.
LEMMA GetMisses ==
    ASSUME NEW m, NEW ch, NEW u, Holds(m, ch, u), NEW k \in Keys, NEW n \in Name,
           \A s \in H!Slot : \A j \in 1..Len(ch[n][s]) : m.key[ch[n][s][j]] # k
    PROVE  H!Get(m, n, k) = NULL
<1> DEFINE s == H!SlotOf[k]
<1>1. s \in H!Slot
  BY SlotIs
<1> HIDE DEF s
<1>2. PICK g : g = WalkStep(m, k, g) /\ H!Get(m, n, k) = g[m.table[n][s]]
  BY WalkDefined, GetIsWalk DEF s
<1>3. Len(ch[n][s]) \in Nat
  BY <1>1, LenProperties DEF Holds, IsChains
<1>4. g[NULL] = NULL
  BY <1>2 DEF WalkStep
<1>5. CASE ch[n][s] = <<>>
  <2>1. m.table[n][s] = NULL
    BY <1>1, <1>5 DEF Holds, Heads
  <2> QED  BY <1>2, <1>4, <2>1
<1>6. CASE ch[n][s] # <<>>
  <2>1. Len(ch[n][s]) >= 1
    BY <1>1, <1>3, <1>6, EmptySeq DEF Holds, IsChains
  <2> DEFINE v == [i \in 1..Len(ch[n][s]) |-> g[ch[n][s][i]]]
  <2>2. ASSUME NEW i \in 1..Len(ch[n][s])
        PROVE  g[ch[n][s][i]] = g[m.next[ch[n][s][i]]]
    <3>1. ch[n][s][i] \in Entry /\ ch[n][s][i] # NULL
      BY <1>1, EntryAt
    <3>2. ~H!Matches(m, ch[n][s][i], k)
      BY <1>1, MatchIsKey
    <3> QED  BY <1>2, <3>1, <3>2 DEF WalkStep
  <2>3. ASSUME NEW i \in 1..(Len(ch[n][s]) - 1) PROVE v[i] = v[i + 1]
    <3>1. i \in 1..Len(ch[n][s]) /\ i # Len(ch[n][s]) /\ i + 1 \in 1..Len(ch[n][s])
      BY <1>3
    <3>2. m.next[ch[n][s][i]] = ch[n][s][i + 1]
      BY <1>1, <3>1 DEF Holds, Links
    <3> QED  BY <2>2, <3>1, <3>2
  <2>4. v[1] = v[Len(ch[n][s])]
    <3> HIDE DEF v
    <3> QED  BY <1>3, <2>1, <2>3, Constant
  <2>5. Len(ch[n][s]) \in 1..Len(ch[n][s]) /\ 1 \in 1..Len(ch[n][s])
    BY <1>3, <2>1
  <2>6. m.next[ch[n][s][Len(ch[n][s])]] = NULL
    BY <1>1, <2>5 DEF Holds, Links
  <2>7. m.table[n][s] = ch[n][s][1]
    BY <1>1, <1>6 DEF Holds, Heads
  <2> QED  BY <1>2, <1>4, <2>2, <2>4, <2>5, <2>6, <2>7
<1> QED  BY <1>5, <1>6

-----------------------------------------------------------------------------
(* The end of a chain.                                                       *)

\* One step of the walk to the end of a chain.
LastStep(m, g) == [e \in Entry |-> IF m.next[e] = NULL THEN e ELSE g[m.next[e]]]

\* Last is the result of a walk, if there is one.
LEMMA LastIsWalk ==
    ASSUME NEW m, NEW h, NEW f, f = LastStep(m, f)
    PROVE  \E g : g = LastStep(m, g) /\ H!Last(m, h) = g[h]
<1> DEFINE g == CHOOSE g : g = LastStep(m, g)
<1>1. g = LastStep(m, g)
  BY Zenon
<1>2. H!Last(m, h) = g[h]
  BY Zenon DEF H!Last, LastStep
<1> QED  BY <1>1, <1>2

\* The ends of the chains that an entry is in.
Ends(ch, e) ==
    {x \in Entry : \E n \in Name, s \in H!Slot : \E i \in 1..Len(ch[n][s]) :
        ch[n][s][i] = e /\ x = ch[n][s][Len(ch[n][s])]}

\* There is one, the last entry of the chain.
LEMMA OneEnd ==
    ASSUME NEW m, NEW ch, NEW u, Holds(m, ch, u),
           NEW n \in Name, NEW s \in H!Slot, NEW i \in 1..Len(ch[n][s])
    PROVE  /\ ch[n][s][Len(ch[n][s])] \in Ends(ch, ch[n][s][i])
           /\ \A x \in Ends(ch, ch[n][s][i]) : x = ch[n][s][Len(ch[n][s])]
<1>1. Len(ch[n][s]) \in 1..Len(ch[n][s])
  BY LenProperties DEF Holds, IsChains
<1>2. ch[n][s][Len(ch[n][s])] \in Entry
  BY <1>1, EntryAt
<1>3. ch[n][s][Len(ch[n][s])] \in Ends(ch, ch[n][s][i])
  BY <1>2 DEF Ends
<1>4. ASSUME NEW x \in Ends(ch, ch[n][s][i]) PROVE x = ch[n][s][Len(ch[n][s])]
  <2>1. PICK o \in Name, r \in H!Slot : \E j \in 1..Len(ch[o][r]) :
            ch[o][r][j] = ch[n][s][i] /\ x = ch[o][r][Len(ch[o][r])]
    BY <1>4 DEF Ends
  <2>2. o = n /\ r = s
    BY <2>1, OnePlace
  <2> QED  BY <2>1, <2>2
<1> QED  BY <1>3, <1>4

\* The walk ends from every entry.
LEMMA LastDefined ==
    ASSUME NEW m, NEW ch, NEW u, Holds(m, ch, u)
    PROVE  \E f : f = LastStep(m, f)
<1>0. \A n \in Name, s \in H!Slot : \A i \in 1..Len(ch[n][s]) :
          /\ ch[n][s][Len(ch[n][s])] \in Ends(ch, ch[n][s][i])
          /\ \A x \in Ends(ch, ch[n][s][i]) : x = ch[n][s][Len(ch[n][s])]
  BY OneEnd
<1> DEFINE f == [e \in Entry |->
                    IF m.next[e] = NULL THEN e ELSE CHOOSE x \in Ends(ch, e) : TRUE]
<1>1. ASSUME NEW e \in Entry, m.next[e] # NULL
      PROVE  m.next[e] \in Entry /\ f[e] = f[m.next[e]]
  <2>1. PICK n \in Name, s \in H!Slot : \E i \in 1..Len(ch[n][s]) :
               /\ e = ch[n][s][i] /\ i # Len(ch[n][s]) /\ i + 1 \in 1..Len(ch[n][s])
               /\ m.next[e] = ch[n][s][i + 1]
    BY <1>1, NextIs
  <2>2. PICK i \in 1..Len(ch[n][s]) :
               /\ e = ch[n][s][i] /\ i # Len(ch[n][s]) /\ i + 1 \in 1..Len(ch[n][s])
               /\ m.next[e] = ch[n][s][i + 1]
    BY <2>1
  <2> DEFINE z == ch[n][s][Len(ch[n][s])]
  <2>3. m.next[e] \in Entry
    BY <2>2, EntryAt
  <2>4. z \in Ends(ch, e) /\ \A x \in Ends(ch, e) : x = z
    BY <1>0, <2>2
  <2>5. z \in Ends(ch, m.next[e]) /\ \A x \in Ends(ch, m.next[e]) : x = z
    BY <1>0, <2>2
  <2>6. f[e] = z
    BY <1>1, <2>4
  <2>7. m.next[m.next[e]] = NULL => m.next[e] = z
    <3>1. \A x \in Entry : x = ch[n][s][i + 1] /\ m.next[x] = NULL => i + 1 = Len(ch[n][s])
      <4>1. i + 1 # Len(ch[n][s]) => i + 1 + 1 \in 1..Len(ch[n][s])
        BY <2>2, LenProperties DEF Holds, IsChains
      <4>2. i + 1 # Len(ch[n][s]) => m.next[ch[n][s][i + 1]] = ch[n][s][i + 1 + 1]
        BY <2>2 DEF Holds, Links
      <4>3. i + 1 # Len(ch[n][s]) => ch[n][s][i + 1 + 1] # NULL
        BY <4>1, EntryAt
      <4> QED  BY <4>2, <4>3
    <3> QED  BY <2>2, <2>3, <3>1
  <2>8. f[m.next[e]] = z
    BY <2>3, <2>5, <2>7
  <2> QED  BY <2>3, <2>6, <2>8
<1>2. \A e \in Entry : f[e] = IF m.next[e] = NULL THEN e ELSE f[m.next[e]]
  BY <1>1
<1>3. f = [e \in Entry |-> f[e]]
  OBVIOUS
<1> HIDE DEF f
<1>4. f = LastStep(m, f)
  BY <1>2, <1>3 DEF LastStep
<1> QED  BY <1>4

\* From the head of a chain the walk leads to its last entry.
LEMMA LastFinds ==
    ASSUME NEW m, NEW ch, NEW u, Holds(m, ch, u),
           NEW n \in Name, NEW s \in H!Slot, ch[n][s] # <<>>
    PROVE  H!Last(m, ch[n][s][1]) = ch[n][s][Len(ch[n][s])]
<1> DEFINE N == Len(ch[n][s])
<1>1. N \in Nat /\ N >= 1
  BY LenProperties, EmptySeq DEF Holds, IsChains
<1>2. PICK g : g = LastStep(m, g) /\ H!Last(m, ch[n][s][1]) = g[ch[n][s][1]]
  BY LastDefined, LastIsWalk
<1> DEFINE v == [i \in 1..N |-> g[ch[n][s][i]]]
<1>3. ASSUME NEW i \in 1..(N - 1) PROVE v[i] = v[i + 1]
  <2>1. i \in 1..N /\ i # N /\ i + 1 \in 1..N
    BY <1>1
  <2>2. ch[n][s][i] \in Entry /\ ch[n][s][i + 1] # NULL
    BY <2>1, EntryAt
  <2>3. m.next[ch[n][s][i]] = ch[n][s][i + 1]
    BY <2>1 DEF Holds, Links
  <2>4. g[ch[n][s][i]] = g[ch[n][s][i + 1]]
    BY <1>2, <2>2, <2>3 DEF LastStep
  <2> QED  BY <2>1, <2>4
<1>4. v[1] = v[N]
  <2> HIDE DEF v, N
  <2> QED  BY <1>1, <1>3, Constant
<1>5. N \in 1..N /\ 1 \in 1..N
  BY <1>1
<1>6. ch[n][s][N] \in Entry
  BY <1>5, EntryAt
<1>7. m.next[ch[n][s][N]] = NULL
  BY <1>5 DEF Holds, Links
<1>8. g[ch[n][s][N]] = ch[n][s][N]
  BY <1>2, <1>6, <1>7 DEF LastStep
<1> QED  BY <1>2, <1>4, <1>5, <1>8

-----------------------------------------------------------------------------
(* map_put.                                                                  *)

\* What the writes before the search leave of the record.
LEMMA TouchedIs ==
    ASSUME NEW m, MapTypes(m), NEW e \in Entry, NEW k \in Keys
    PROVE  /\ H!Touched(m, e, k).table = m.table
           /\ H!Touched(m, e, k).key = m.key
           /\ H!Touched(m, e, k).next = [m.next EXCEPT ![e] = NULL]
           /\ H!Touched(m, e, k).hashcode = [m.hashcode EXCEPT ![e] = H!Hash[k]]
           /\ MapTypes(H!Touched(m, e, k))
<1>1. PICK table, next, hashcode, key :
          m = [table |-> table, next |-> next, hashcode |-> hashcode, key |-> key]
  BY DEF MapTypes
<1>2. m.table = table /\ m.next = next /\ m.hashcode = hashcode /\ m.key = key
  BY <1>1
<1>3. /\ table \in [Name -> [H!Slot -> Entry \cup {NULL}]]
      /\ next \in [Entry -> Entry \cup {NULL}]
      /\ DOMAIN hashcode = Entry /\ hashcode = [x \in Entry |-> hashcode[x]]
      /\ DOMAIN key = Entry /\ key = [x \in Entry |-> key[x]]
  BY <1>2 DEF MapTypes
<1>4. H!Touched(m, e, k) = [table |-> table, next |-> [next EXCEPT ![e] = NULL],
                            hashcode |-> [hashcode EXCEPT ![e] = H!Hash[k]], key |-> key]
  <2> DEFINE next1 == [next EXCEPT ![e] = NULL]
  <2>1. [m EXCEPT !.next[e] = NULL]
        = [table |-> table, next |-> next1, hashcode |-> hashcode, key |-> key]
    BY <1>1
  <2>2. H!Touched(m, e, k) = [[m EXCEPT !.next[e] = NULL] EXCEPT !.hashcode[e] = H!Hash[k]]
    BY DEF H!Touched
  <2> HIDE DEF next1
  <2>3. H!Touched(m, e, k)
        = [[table |-> table, next |-> next1, hashcode |-> hashcode, key |-> key]
           EXCEPT !.hashcode[e] = H!Hash[k]]
    BY <2>1, <2>2
  <2>4. H!Touched(m, e, k) = [table |-> table, next |-> next1,
                              hashcode |-> [hashcode EXCEPT ![e] = H!Hash[k]], key |-> key]
    BY <2>3
  <2> QED  BY <2>4 DEF next1
<1>5. /\ H!Touched(m, e, k).table = table /\ H!Touched(m, e, k).key = key
      /\ H!Touched(m, e, k).next = [next EXCEPT ![e] = NULL]
      /\ H!Touched(m, e, k).hashcode = [hashcode EXCEPT ![e] = H!Hash[k]]
  BY <1>4
<1>6. [next EXCEPT ![e] = NULL] \in [Entry -> Entry \cup {NULL}]
  BY <1>3
<1>7. LET h == [hashcode EXCEPT ![e] = H!Hash[k]]
      IN  DOMAIN h = Entry /\ h = [x \in Entry |-> h[x]]
  BY <1>3
<1>8. MapTypes(H!Touched(m, e, k))
  BY <1>3, <1>4, <1>5, <1>6, <1>7 DEF MapTypes
<1> QED  BY <1>2, <1>5, <1>8

\* They change no chain if the entry is in none.
LEMMA TouchedHolds ==
    ASSUME NEW m, NEW ch, NEW u, Holds(m, ch, u), NEW e \in Entry, e \notin u, NEW k \in Keys
    PROVE  Holds(H!Touched(m, e, k), ch, u)
<1> DEFINE t == H!Touched(m, e, k)
<1>1. /\ t.table = m.table /\ t.key = m.key
      /\ t.next = [m.next EXCEPT ![e] = NULL]
      /\ t.hashcode = [m.hashcode EXCEPT ![e] = H!Hash[k]]
      /\ MapTypes(t)
  BY TouchedIs DEF Holds
<1> HIDE DEF t
<1>2. \A n \in Name, s \in H!Slot : \A i \in 1..Len(ch[n][s]) :
          ch[n][s][i] \in Entry /\ ch[n][s][i] # e
  BY EntryAt
<1>3. m.next \in [Entry -> Entry \cup {NULL}] /\ DOMAIN m.hashcode = Entry
  BY DEF Holds, MapTypes
<1>4. t.next[e] = NULL /\ \A x \in Entry : x # e => t.next[x] = m.next[x]
  BY <1>1, <1>3
<1>5. \A x \in Entry : x # e => t.hashcode[x] = m.hashcode[x]
  BY <1>1, <1>3
<1>6. Heads(t, ch)
  BY <1>1 DEF Holds, Heads
<1>7. Links(t, ch)
  BY <1>2, <1>4 DEF Holds, Links
<1>8. Loose(t, ch)
  BY <1>4 DEF Holds, Loose
<1>9. Keyed(t, ch)
  BY <1>1, <1>2, <1>5 DEF Holds, Keyed
<1>10. Once(t, ch)
  BY <1>1 DEF Holds, Once
<1> QED  BY <1>1, <1>6, <1>7, <1>8, <1>9, <1>10 DEF Holds, t

\* The chains are the same, so map_get returns the same, whatever else changes.
LEMMA SameChains ==
    ASSUME NEW m, NEW t, NEW ch, NEW u, NEW v, Holds(m, ch, u), Holds(t, ch, v),
           t.key = m.key, NEW n \in Name, NEW k \in Keys
    PROVE  H!Get(t, n, k) = H!Get(m, n, k)
<1>1. CASE \E s \in H!Slot : \E j \in 1..Len(ch[n][s]) : m.key[ch[n][s][j]] = k
  <2>1. PICK s \in H!Slot : \E j \in 1..Len(ch[n][s]) : m.key[ch[n][s][j]] = k
    BY <1>1
  <2>2. PICK j \in 1..Len(ch[n][s]) : m.key[ch[n][s][j]] = k
    BY <2>1
  <2>3. H!Get(m, n, k) = ch[n][s][j]
    BY <2>2, GetFinds
  <2>4. H!Get(t, n, k) = ch[n][s][j]
    BY <2>2, GetFinds
  <2> QED  BY <2>3, <2>4
<1>2. CASE \A s \in H!Slot : \A j \in 1..Len(ch[n][s]) : m.key[ch[n][s][j]] # k
  <2>1. H!Get(m, n, k) = NULL
    BY <1>2, GetMisses
  <2>2. H!Get(t, n, k) = NULL
    BY <1>2, GetMisses
  <2> QED  BY <2>1, <2>2
<1> QED  BY <1>1, <1>2

\* The chain of map n in slot s gets e at its end.
Longer(ch, n, s, e) ==
    [o \in Name |-> [r \in H!Slot |->
        IF o = n /\ r = s THEN Append(ch[n][s], e) ELSE ch[o][r]]]

\* c is ch with e behind the chain of map n in slot s.
Extended(c, ch, n, s, e) ==
    /\ IsChains(c)
    /\ Len(c[n][s]) = Len(ch[n][s]) + 1 /\ c[n][s] # <<>>
    /\ c[n][s][Len(ch[n][s]) + 1] = e
    /\ \A i \in 1..Len(ch[n][s]) : c[n][s][i] = ch[n][s][i]
    /\ \A o \in Name, r \in H!Slot : o # n \/ r # s => c[o][r] = ch[o][r]

LEMMA LongerIs ==
    ASSUME NEW ch, IsChains(ch), NEW n \in Name, NEW s \in H!Slot, NEW e \in Entry
    PROVE  Extended(Longer(ch, n, s, e), ch, n, s, e)
<1> DEFINE c == Longer(ch, n, s, e)
<1>1. ch[n][s] \in Seq(Entry)
  BY DEF IsChains
<1>2. /\ Append(ch[n][s], e) \in Seq(Entry)
      /\ Len(Append(ch[n][s], e)) = Len(ch[n][s]) + 1
      /\ \A i \in 1..Len(ch[n][s]) : Append(ch[n][s], e)[i] = ch[n][s][i]
      /\ Append(ch[n][s], e)[Len(ch[n][s]) + 1] = e
  BY <1>1, AppendProperties
<1>3. Append(ch[n][s], e) # <<>>
  BY <1>1, AppendProperties
<1>4. c[n][s] = Append(ch[n][s], e)
  BY DEF Longer
<1>5. \A o \in Name, r \in H!Slot : o # n \/ r # s => c[o][r] = ch[o][r]
  BY DEF Longer
<1>6. IsChains(c)
  BY <1>2 DEF IsChains, Longer
<1> HIDE DEF c
<1>7. /\ Len(c[n][s]) = Len(ch[n][s]) + 1 /\ c[n][s] # <<>>
      /\ c[n][s][Len(ch[n][s]) + 1] = e
      /\ \A i \in 1..Len(ch[n][s]) : c[n][s][i] = ch[n][s][i]
  BY <1>2, <1>3, <1>4
<1> QED  BY <1>5, <1>6, <1>7 DEF c, Extended

\* What map_put under a new key makes of m: e is at the end of the chain in slot s.
Putted(m, p, ch, n, s, e, k) ==
    /\ MapTypes(p)
    /\ p.table = IF ch[n][s] = <<>> THEN [m.table EXCEPT ![n][s] = e] ELSE m.table
    /\ p.next[e] = NULL
    /\ \A x \in Entry : x # e =>
           p.next[x] = IF ch[n][s] # <<>> /\ x = ch[n][s][Len(ch[n][s])]
                       THEN e ELSE m.next[x]
    /\ p.hashcode[e] = H!Hash[k] /\ p.key[e] = k
    /\ \A x \in Entry : x # e => p.hashcode[x] = m.hashcode[x] /\ p.key[x] = m.key[x]

LEMMA PutIs ==
    ASSUME NEW m, NEW ch, NEW u, Holds(m, ch, u), NEW e \in Entry, e \notin u,
           NEW k \in Keys, NEW n \in Name, H!Get(m, n, k) = NULL
    PROVE  Putted(m, H!Put(m, n, e, k), ch, n, H!SlotOf[k], e, k)
<1> DEFINE s == H!SlotOf[k]
           t == H!Touched(m, e, k)
           p == H!Put(m, n, e, k)
<1>0. s \in H!Slot
  BY SlotIs
<1>1. MapTypes(m) /\ Holds(t, ch, u) /\ MapTypes(t)
  BY TouchedHolds, TouchedIs DEF Holds
<1>2. /\ t.table = m.table /\ t.key = m.key
      /\ t.next = [m.next EXCEPT ![e] = NULL]
      /\ t.hashcode = [m.hashcode EXCEPT ![e] = H!Hash[k]]
  BY <1>1, TouchedIs
<1>3. p = [H!Linked(t, n, e, k) EXCEPT !.key[e] = k]
  BY DEF H!Put, H!Fresh
<1> HIDE DEF t, p, s
<1>4. PICK table, next, hashcode, key :
          t = [table |-> table, next |-> next, hashcode |-> hashcode, key |-> key]
  BY <1>1 DEF MapTypes
<1>5. t.table = table /\ t.next = next /\ t.hashcode = hashcode /\ t.key = key
  BY <1>4
<1>6. /\ table \in [Name -> [H!Slot -> Entry \cup {NULL}]]
      /\ next \in [Entry -> Entry \cup {NULL}]
      /\ DOMAIN hashcode = Entry /\ hashcode = [x \in Entry |-> hashcode[x]]
      /\ DOMAIN key = Entry /\ key = [x \in Entry |-> key[x]]
  BY <1>1, <1>5 DEF MapTypes
<1>7. table[n][s] = IF ch[n][s] = <<>> THEN NULL ELSE ch[n][s][1]
  BY <1>0, <1>1, <1>5 DEF Holds, Heads
<1>8. m.next \in [Entry -> Entry \cup {NULL}] /\ DOMAIN m.hashcode = Entry
  BY <1>1 DEF MapTypes
<1>9. /\ next[e] = NULL /\ \A x \in Entry : x # e => next[x] = m.next[x]
      /\ hashcode[e] = H!Hash[k]
      /\ \A x \in Entry : x # e => hashcode[x] = m.hashcode[x]
  BY <1>2, <1>5, <1>8
<1>10. DEFINE key1 == [key EXCEPT ![e] = k]
<1>11. /\ DOMAIN key1 = Entry /\ key1 = [x \in Entry |-> key1[x]] /\ key1[e] = k
       /\ \A x \in Entry : x # e => key1[x] = m.key[x]
  BY <1>2, <1>5, <1>6
<1> HIDE DEF key1
<1>12. CASE ch[n][s] = <<>>
  <2>1. table[n][s] = NULL
    BY <1>7, <1>12
  <2>2. H!Linked(t, n, e, k) = [table |-> [table EXCEPT ![n][s] = e], next |-> next,
                                hashcode |-> hashcode, key |-> key]
    BY <1>4, <2>1 DEF H!Linked, s
  <2>3. p = [table |-> [table EXCEPT ![n][s] = e], next |-> next,
             hashcode |-> hashcode, key |-> key1]
    BY <1>3, <2>2 DEF key1
  <2>4. /\ p.table = [table EXCEPT ![n][s] = e] /\ p.next = next
        /\ p.hashcode = hashcode /\ p.key = key1
    BY <2>3
  <2>5. [table EXCEPT ![n][s] = e] \in [Name -> [H!Slot -> Entry \cup {NULL}]]
    BY <1>0, <1>6
  <2>6. MapTypes(p)
    BY <1>6, <1>11, <2>3, <2>4, <2>5 DEF MapTypes
  <2> QED  BY <1>2, <1>5, <1>9, <1>11, <1>12, <2>4, <2>6 DEF Putted, p, s
<1>13. CASE ch[n][s] # <<>>
  <2> DEFINE z == ch[n][s][Len(ch[n][s])]
  <2>1. 1 \in 1..Len(ch[n][s]) /\ Len(ch[n][s]) \in 1..Len(ch[n][s])
    BY <1>0, <1>1, <1>13, LenProperties, EmptySeq DEF Holds, IsChains
  <2>2. z \in Entry /\ z # e
    BY <1>0, <1>1, <2>1, EntryAt
  <2>3. table[n][s] = ch[n][s][1] /\ table[n][s] # NULL
    BY <1>0, <1>1, <1>7, <1>13, <2>1, EntryAt
  <2>4. H!Last(t, table[n][s]) = z
    BY <1>0, <1>1, <1>13, <2>3, LastFinds
  <2> HIDE DEF z
  <2>5. H!Linked(t, n, e, k) = [table |-> table, next |-> [next EXCEPT ![z] = e],
                                hashcode |-> hashcode, key |-> key]
    BY <1>4, <1>5, <2>3, <2>4 DEF H!Linked, s
  <2>6. p = [table |-> table, next |-> [next EXCEPT ![z] = e],
             hashcode |-> hashcode, key |-> key1]
    BY <1>3, <2>5 DEF key1
  <2>7. /\ p.table = table /\ p.next = [next EXCEPT ![z] = e]
        /\ p.hashcode = hashcode /\ p.key = key1
    BY <2>6
  <2>8. /\ [next EXCEPT ![z] = e] \in [Entry -> Entry \cup {NULL}]
        /\ p.next[e] = NULL
        /\ \A x \in Entry : x # e => p.next[x] = IF x = z THEN e ELSE m.next[x]
    BY <1>6, <1>9, <2>2, <2>7
  <2>9. MapTypes(p)
    BY <1>6, <1>11, <2>6, <2>7, <2>8 DEF MapTypes
  <2> QED  BY <1>2, <1>5, <1>9, <1>11, <1>13, <2>7, <2>8, <2>9 DEF Putted, p, s, z
<1> QED  BY <1>12, <1>13

\* A new key: the entry is at the end of the chain of its slot, and the others
\* are where they were.
LEMMA PutHolds ==
    ASSUME NEW m, NEW ch, NEW u, Holds(m, ch, u), NEW e \in Entry, e \notin u,
           NEW k \in Keys, NEW n \in Name, H!Get(m, n, k) = NULL
    PROVE  Holds(H!Put(m, n, e, k), Longer(ch, n, H!SlotOf[k], e), u \cup {e})
<1> DEFINE s == H!SlotOf[k]
           p == H!Put(m, n, e, k)
           c == Longer(ch, n, s, e)
           N == Len(ch[n][s])
<1>0. s \in H!Slot /\ IsChains(ch) /\ N \in Nat
  BY SlotIs, LenProperties DEF Holds, IsChains
<1>1. /\ MapTypes(p)
      /\ p.table = IF ch[n][s] = <<>> THEN [m.table EXCEPT ![n][s] = e] ELSE m.table
      /\ p.next[e] = NULL
      /\ \A x \in Entry : x # e =>
             p.next[x] = IF ch[n][s] # <<>> /\ x = ch[n][s][N] THEN e ELSE m.next[x]
      /\ p.hashcode[e] = H!Hash[k] /\ p.key[e] = k
      /\ \A x \in Entry : x # e => p.hashcode[x] = m.hashcode[x] /\ p.key[x] = m.key[x]
  <2>1. Putted(m, p, ch, n, s, e, k)
    BY PutIs
  <2> HIDE DEF p, s
  <2> QED  BY <2>1 DEF Putted
<1>2. /\ IsChains(c)
      /\ Len(c[n][s]) = N + 1 /\ c[n][s] # <<>> /\ c[n][s][N + 1] = e
      /\ \A i \in 1..N : c[n][s][i] = ch[n][s][i]
      /\ \A o \in Name, r \in H!Slot : o # n \/ r # s => c[o][r] = ch[o][r]
  <2>1. Extended(c, ch, n, s, e)
    BY <1>0, LongerIs
  <2> HIDE DEF c, s
  <2> QED  BY <2>1 DEF Extended
<1> HIDE DEF s, p, c
<1>3. \A o \in Name, r \in H!Slot : \A i \in 1..Len(ch[o][r]) :
          ch[o][r][i] \in Entry /\ ch[o][r][i] # e /\ ch[o][r][i] \in u /\ Chained(ch, ch[o][r][i])
  BY EntryAt
\* The positions of the new chains are those of the old ones, and one more.
<1>4. ASSUME NEW o \in Name, NEW r \in H!Slot, NEW i \in 1..Len(c[o][r])
      PROVE  \/ i \in 1..Len(ch[o][r]) /\ c[o][r][i] = ch[o][r][i]
             \/ o = n /\ r = s /\ i = N + 1 /\ c[o][r][i] = e
  <2>1. CASE o = n /\ r = s
    <3>1. i \in 1..N \/ i = N + 1
      BY <1>0, <1>2, <2>1
    <3> QED  BY <1>2, <2>1, <3>1
  <2>2. CASE o # n \/ r # s
    BY <1>2, <2>2
  <2> QED  BY <2>1, <2>2
<1>5. ASSUME NEW o \in Name, NEW r \in H!Slot, NEW i \in 1..Len(ch[o][r])
      PROVE  i \in 1..Len(c[o][r]) /\ c[o][r][i] = ch[o][r][i]
  <2>1. CASE o = n /\ r = s
    <3>1. i \in 1..(N + 1)
      BY <1>0, <2>1
    <3> QED  BY <1>2, <2>1, <3>1
  <2>2. CASE o # n \/ r # s
    BY <1>2, <2>2
  <2> QED  BY <2>1, <2>2
<1>6. Heads(p, c)
  <2> SUFFICES ASSUME NEW o \in Name, NEW r \in H!Slot
               PROVE  p.table[o][r] = IF c[o][r] = <<>> THEN NULL ELSE c[o][r][1]
    BY DEF Heads
  <2>1. m.table[o][r] = IF ch[o][r] = <<>> THEN NULL ELSE ch[o][r][1]
    BY DEF Holds, Heads
  <2>2. m.table \in [Name -> [H!Slot -> Entry \cup {NULL}]]
    BY DEF Holds, MapTypes
  <2>3. CASE o # n \/ r # s
    <3>1. p.table[o][r] = m.table[o][r]
      BY <1>0, <1>1, <2>2, <2>3
    <3> QED  BY <1>2, <2>1, <2>3, <3>1
  <2>4. CASE o = n /\ r = s /\ ch[n][s] = <<>>
    <3>1. p.table[o][r] = e
      BY <1>0, <1>1, <2>2, <2>4
    <3>2. N = 0
      BY <2>4, EmptySeq
    <3> QED  BY <1>2, <2>4, <3>1, <3>2
  <2>5. CASE o = n /\ r = s /\ ch[n][s] # <<>>
    <3>1. 1 \in 1..N
      BY <1>0, <2>5, LenProperties, EmptySeq DEF IsChains
    <3> QED  BY <1>1, <1>2, <2>1, <2>5, <3>1
  <2> QED  BY <2>3, <2>4, <2>5
<1>7. Links(p, c)
  <2> SUFFICES ASSUME NEW o \in Name, NEW r \in H!Slot, NEW i \in 1..Len(c[o][r])
               PROVE  p.next[c[o][r][i]] = IF i = Len(c[o][r]) THEN NULL ELSE c[o][r][i + 1]
    BY DEF Links
  <2>1. CASE o = n /\ r = s /\ i = N + 1 /\ c[o][r][i] = e
    BY <1>1, <1>2, <2>1
  <2>2. CASE i \in 1..Len(ch[o][r]) /\ c[o][r][i] = ch[o][r][i]
    <3>1. /\ ch[o][r][i] \in Entry /\ ch[o][r][i] # e
          /\ m.next[ch[o][r][i]] = IF i = Len(ch[o][r]) THEN NULL ELSE ch[o][r][i + 1]
      BY <1>3, <2>2 DEF Holds, Links
    <3>2. Len(ch[o][r]) \in Nat /\ i \in Nat
      BY <2>2, LenProperties DEF Holds, IsChains
    <3>3. CASE o = n /\ r = s /\ i = N
      <4>1. ch[n][s] # <<>>
        BY <2>2, <3>3, EmptySeq
      <4>2. p.next[ch[o][r][i]] = e
        BY <1>1, <3>1, <3>3, <4>1
      <4>3. i # Len(c[o][r]) /\ c[o][r][i + 1] = e
        BY <1>0, <1>2, <3>3
      <4> QED  BY <2>2, <4>2, <4>3
    <3>4. CASE ~(o = n /\ r = s /\ i = N)
      <4>1. ~(ch[n][s] # <<>> /\ ch[o][r][i] = ch[n][s][N])
        <5>1. ch[n][s] # <<>> => N \in 1..N
          BY <1>0, LenProperties, EmptySeq DEF IsChains
        <5> QED  BY <1>0, <2>2, <3>4, <5>1, OnePlace
      <4>2. p.next[ch[o][r][i]] = m.next[ch[o][r][i]]
        BY <1>1, <3>1, <4>1
      <4>3. CASE o = n /\ r = s
        <5>1. i # Len(ch[o][r]) /\ i # Len(c[o][r]) /\ i + 1 \in 1..N
          BY <1>0, <1>2, <2>2, <3>2, <3>4, <4>3
        <5> QED  BY <1>2, <2>2, <3>1, <4>2, <4>3, <5>1
      <4>4. CASE o # n \/ r # s
        BY <1>2, <2>2, <3>1, <4>2, <4>4
      <4> QED  BY <4>3, <4>4
    <3> QED  BY <3>3, <3>4
  <2> QED  BY <1>4, <2>1, <2>2
<1>8. Apart(c)
  <2> SUFFICES ASSUME NEW o \in Name, NEW r \in H!Slot, NEW i \in 1..Len(c[o][r]),
                      NEW a \in Name, NEW b \in H!Slot, NEW j \in 1..Len(c[a][b]),
                      c[o][r][i] = c[a][b][j]
               PROVE  o = a /\ r = b /\ i = j
    BY DEF Apart
  <2>1. CASE c[o][r][i] = e
    <3>1. o = n /\ r = s /\ i = N + 1
      BY <1>3, <1>4, <2>1
    <3>2. c[a][b][j] = e
      BY <2>1
    <3>3. a = n /\ b = s /\ j = N + 1
      BY <1>3, <1>4, <3>2
    <3> QED  BY <3>1, <3>3
  <2>2. CASE c[o][r][i] # e
    <3>1. i \in 1..Len(ch[o][r]) /\ c[o][r][i] = ch[o][r][i]
      BY <1>4, <2>2
    <3>2. c[a][b][j] # e
      BY <2>2
    <3>3. j \in 1..Len(ch[a][b]) /\ c[a][b][j] = ch[a][b][j]
      BY <1>4, <3>2
    <3>4. ch[o][r][i] = ch[a][b][j]
      BY <3>1, <3>3
    <3> QED  BY <3>1, <3>3, <3>4, OnePlace
  <2> QED  BY <2>1, <2>2
<1>9. ASSUME NEW x \in Entry, Chained(c, x) PROVE x = e \/ Chained(ch, x)
  <2>1. PICK o \in Name, r \in H!Slot : \E i \in 1..Len(c[o][r]) : c[o][r][i] = x
    BY <1>9 DEF Chained
  <2> QED  BY <1>3, <1>4, <2>1
<1>10. ASSUME NEW x \in Entry, Chained(ch, x) PROVE Chained(c, x)
  <2>1. PICK o \in Name, r \in H!Slot : \E i \in 1..Len(ch[o][r]) : ch[o][r][i] = x
    BY <1>10 DEF Chained
  <2> QED  BY <1>5, <2>1 DEF Chained
<1>11. Loose(p, c)
  <2> SUFFICES ASSUME NEW x \in Entry, ~Chained(c, x) PROVE p.next[x] = NULL
    BY DEF Loose
  <2>1. CASE x = e
    BY <1>1, <2>1
  <2>2. CASE x # e
    <3>1. ~Chained(ch, x) /\ m.next[x] = NULL
      BY <1>10 DEF Holds, Loose
    <3>2. ch[n][s] # <<>> => N \in 1..N
      BY <1>0, LenProperties, EmptySeq DEF IsChains
    <3>3. ~(ch[n][s] # <<>> /\ x = ch[n][s][N])
      BY <1>0, <1>3, <3>1, <3>2
    <3> QED  BY <1>1, <2>2, <3>1, <3>3
  <2> QED  BY <2>1, <2>2
<1>12. Keyed(p, c)
  <2> SUFFICES ASSUME NEW o \in Name, NEW r \in H!Slot, NEW i \in 1..Len(c[o][r])
               PROVE  /\ p.key[c[o][r][i]] \in Keys
                      /\ p.hashcode[c[o][r][i]] = H!Hash[p.key[c[o][r][i]]]
                      /\ H!SlotOf[p.key[c[o][r][i]]] = r
    BY DEF Keyed
  <2>1. CASE o = n /\ r = s /\ i = N + 1 /\ c[o][r][i] = e
    BY <1>1, <2>1 DEF s
  <2>2. CASE i \in 1..Len(ch[o][r]) /\ c[o][r][i] = ch[o][r][i]
    <3> DEFINE x == ch[o][r][i]
    <3>1. m.key[x] \in Keys /\ m.hashcode[x] = H!Hash[m.key[x]] /\ H!SlotOf[m.key[x]] = r
      BY <2>2, EntryAt
    <3>2. x \in Entry /\ x # e
      BY <1>3, <2>2
    <3>3. p.key[x] = m.key[x] /\ p.hashcode[x] = m.hashcode[x]
      BY <1>1, <3>2
    <3> HIDE DEF x
    <3>4. c[o][r][i] = x
      BY <2>2 DEF x
    <3> QED  BY <3>1, <3>3, <3>4
  <2> QED  BY <1>4, <2>1, <2>2
<1>13. Once(p, c)
  <2> SUFFICES ASSUME NEW o \in Name, NEW r \in H!Slot,
                      NEW i \in 1..Len(c[o][r]), NEW j \in 1..Len(c[o][r]),
                      p.key[c[o][r][i]] = p.key[c[o][r][j]]
               PROVE  i = j
    BY DEF Once
  <2>1. ASSUME NEW q \in 1..Len(ch[n][s]) PROVE m.key[ch[n][s][q]] # k
    <3>1. m.key[ch[n][s][q]] = k => H!Get(m, n, k) = ch[n][s][q]
      BY <1>0, GetFinds
    <3>2. ch[n][s][q] # NULL
      BY <1>0, <1>3, Nulls
    <3> QED  BY <3>1, <3>2
  <2>2. \A q \in 1..Len(ch[o][r]) : p.key[ch[o][r][q]] = m.key[ch[o][r][q]]
    BY <1>1, <1>3
  <2>3. CASE i \in 1..Len(ch[o][r]) /\ c[o][r][i] = ch[o][r][i]
             /\ j \in 1..Len(ch[o][r]) /\ c[o][r][j] = ch[o][r][j]
    BY <2>2, <2>3 DEF Holds, Once
  <2>4. CASE o = n /\ r = s /\ i = N + 1 /\ c[o][r][i] = e
    <3>1. p.key[c[o][r][j]] = k
      BY <1>1, <2>4
    <3>2. ASSUME j \in 1..Len(ch[o][r]), c[o][r][j] = ch[o][r][j] PROVE FALSE
      <4>1. m.key[ch[o][r][j]] = k
        BY <2>2, <3>1, <3>2
      <4> QED  BY <2>1, <2>4, <3>2, <4>1
    <3> QED  BY <1>4, <2>4, <3>2
  <2>5. CASE o = n /\ r = s /\ j = N + 1 /\ c[o][r][j] = e
    <3>1. p.key[c[o][r][i]] = k
      BY <1>1, <2>5
    <3>2. ASSUME i \in 1..Len(ch[o][r]), c[o][r][i] = ch[o][r][i] PROVE FALSE
      <4>1. m.key[ch[o][r][i]] = k
        BY <2>2, <3>1, <3>2
      <4> QED  BY <2>1, <2>5, <3>2, <4>1
    <3> QED  BY <1>4, <2>5, <3>2
  <2> QED  BY <1>4, <2>3, <2>4, <2>5
<1>14. \A x \in Entry : Chained(c, x) => x \in u \cup {e}
  BY <1>9 DEF Holds
<1> QED  BY <1>1, <1>2, <1>6, <1>7, <1>8, <1>11, <1>12, <1>13, <1>14 DEF Holds, p, c, s

\* After a new key was put, map_get finds its entry under it, and under any other
\* key, or in any other map, what it found before.
LEMMA PutGets ==
    ASSUME NEW m, NEW ch, NEW u, Holds(m, ch, u), NEW e \in Entry, e \notin u,
           NEW k \in Keys, NEW n \in Name, H!Get(m, n, k) = NULL,
           NEW o \in Name, NEW q \in Keys
    PROVE  H!Get(H!Put(m, n, e, k), o, q) = IF o = n /\ q = k THEN e ELSE H!Get(m, o, q)
<1> DEFINE s == H!SlotOf[k]
           p == H!Put(m, n, e, k)
           c == Longer(ch, n, s, e)
           N == Len(ch[n][s])
<1>0. s \in H!Slot /\ IsChains(ch) /\ N \in Nat
  BY SlotIs, LenProperties DEF Holds, IsChains
<1>1. p.key[e] = k /\ \A x \in Entry : x # e => p.key[x] = m.key[x]
  <2>1. Putted(m, p, ch, n, s, e, k)
    BY PutIs
  <2> HIDE DEF p, s
  <2> QED  BY <2>1 DEF Putted
<1>2. /\ Len(c[n][s]) = N + 1 /\ c[n][s][N + 1] = e
      /\ \A i \in 1..N : c[n][s][i] = ch[n][s][i]
      /\ \A a \in Name, r \in H!Slot : a # n \/ r # s => c[a][r] = ch[a][r]
  <2>1. Extended(c, ch, n, s, e)
    BY <1>0, LongerIs
  <2> HIDE DEF c, s
  <2> QED  BY <2>1 DEF Extended
<1>3. Holds(p, c, u \cup {e})
  BY PutHolds, Zenon
<1> HIDE DEF s, p, c
<1>4. \A r \in H!Slot : \A i \in 1..Len(ch[o][r]) :
          ch[o][r][i] \in Entry /\ ch[o][r][i] # e
  BY EntryAt
<1>5. CASE o = n /\ q = k
  <2>1. N + 1 \in 1..Len(c[n][s])
    BY <1>0, <1>2
  <2>2. H!Get(p, n, k) = c[n][s][N + 1]
    BY <1>0, <1>1, <1>2, <1>3, <2>1, GetFinds
  <2> QED  BY <1>2, <1>5, <2>2 DEF p
<1>6. ASSUME o # n \/ q # k,
             NEW r \in H!Slot, NEW i \in 1..Len(ch[o][r]), m.key[ch[o][r][i]] = q
      PROVE  H!Get(p, o, q) = H!Get(m, o, q)
  <2>1. i \in 1..Len(c[o][r]) /\ c[o][r][i] = ch[o][r][i]
    <3>1. CASE o = n /\ r = s
      <4>1. i \in 1..(N + 1)
        BY <1>0, <3>1
      <4> QED  BY <1>2, <3>1, <4>1
    <3>2. CASE o # n \/ r # s
      BY <1>2, <3>2
    <3> QED  BY <3>1, <3>2
  <2>2. p.key[c[o][r][i]] = q
    BY <1>1, <1>4, <1>6, <2>1
  <2>3. H!Get(p, o, q) = c[o][r][i]
    BY <1>3, <2>1, <2>2, GetFinds
  <2>4. H!Get(m, o, q) = ch[o][r][i]
    BY <1>6, GetFinds
  <2> QED  BY <2>1, <2>3, <2>4
<1>7. ASSUME o # n \/ q # k,
             \A r \in H!Slot : \A i \in 1..Len(ch[o][r]) : m.key[ch[o][r][i]] # q
      PROVE  H!Get(p, o, q) = H!Get(m, o, q)
  <2>1. H!Get(m, o, q) = NULL
    BY <1>7, GetMisses
  <2>2. ASSUME NEW r \in H!Slot, NEW i \in 1..Len(c[o][r]) PROVE p.key[c[o][r][i]] # q
    <3>1. CASE o = n /\ r = s /\ i = N + 1
      BY <1>1, <1>2, <1>7, <3>1
    <3>2. CASE o = n /\ r = s /\ i # N + 1
      <4>1. i \in 1..Len(ch[o][r])
        BY <1>0, <1>2, <3>2
      <4>2. c[o][r][i] = ch[o][r][i]
        BY <1>2, <3>2, <4>1
      <4> QED  BY <1>1, <1>4, <1>7, <4>1, <4>2
    <3>3. CASE o # n \/ r # s
      BY <1>1, <1>2, <1>4, <1>7, <3>3
    <3> QED  BY <3>1, <3>2, <3>3
  <2>3. \A r \in H!Slot : \A i \in 1..Len(c[o][r]) : p.key[c[o][r][i]] # q
    BY <2>2
  <2>4. H!Get(p, o, q) = NULL
    BY <1>3, <2>3, GetMisses, Zenon
  <2> QED  BY <2>1, <2>4
<1>8. o # n \/ q # k => H!Get(p, o, q) = H!Get(m, o, q)
  BY <1>6, <1>7
<1> QED  BY <1>5, <1>8 DEF p

-----------------------------------------------------------------------------
(* The maps as partial functions.                                            *)

\* The memory holds the chains of all maps, made of structures in use.
Sound(m, u) == u \subseteq Entry /\ \E ch : Holds(m, ch, u)

\* Maps that were just made are empty.
LEMMA EmptySound ==
    /\ Sound(H!EmptyMaps, {})
    /\ \A n \in Name, k \in Keys : H!Get(H!EmptyMaps, n, k) = NULL
<1> DEFINE m == H!EmptyMaps
           ch == [n \in Name |-> [s \in H!Slot |-> <<>>]]
<1>1. /\ m.table = [n \in Name |-> [s \in H!Slot |-> NULL]]
      /\ m.next = [e \in Entry |-> NULL]
      /\ m.hashcode = [e \in Entry |-> 0] /\ m.key = [e \in Entry |-> 0]
      /\ m = [table |-> m.table, next |-> m.next, hashcode |-> m.hashcode, key |-> m.key]
  BY DEF H!EmptyMaps
<1> HIDE DEF m
<1>2. /\ IsChains(ch)
      /\ \A n \in Name, s \in H!Slot : ch[n][s] = <<>> /\ Len(ch[n][s]) = 0
  BY EmptySeq DEF IsChains
<1> HIDE DEF ch
<1>3. \A n \in Name, s \in H!Slot : 1..Len(ch[n][s]) = {}
  BY <1>2
<1>4. MapTypes(m)
  <2>1. m.table \in [Name -> [H!Slot -> Entry \cup {NULL}]]
    BY <1>1
  <2>2. m.next \in [Entry -> Entry \cup {NULL}]
    BY <1>1
  <2>3. DOMAIN m.hashcode = Entry /\ m.hashcode = [e \in Entry |-> m.hashcode[e]]
    BY <1>1
  <2>4. DOMAIN m.key = Entry /\ m.key = [e \in Entry |-> m.key[e]]
    BY <1>1
  <2> QED  BY <1>1, <2>1, <2>2, <2>3, <2>4 DEF MapTypes
<1>5. Heads(m, ch)
  BY <1>1, <1>2 DEF Heads
<1>6. Links(m, ch) /\ Keyed(m, ch) /\ Once(m, ch)
  BY <1>3 DEF Links, Keyed, Once
<1>7. Apart(ch) /\ \A e \in Entry : ~Chained(ch, e)
  BY <1>3 DEF Apart, Chained
<1>8. Loose(m, ch)
  BY <1>1 DEF Loose
<1>9. Holds(m, ch, {})
  BY <1>2, <1>4, <1>5, <1>6, <1>7, <1>8 DEF Holds
<1>10. \A n \in Name, k \in Keys : H!Get(m, n, k) = NULL
  BY <1>3, <1>9, GetMisses
<1> QED  BY <1>9, <1>10 DEF Sound, m

\* What map_get returns is a structure in use, and of one map and key only.
LEMMA GetSound ==
    ASSUME NEW m, NEW u, Sound(m, u), NEW n \in Name, NEW k \in Keys
    PROVE  /\ H!Get(m, n, k) \in u \cup {NULL}
           /\ \A o \in Name, q \in Keys :
                  H!Get(m, n, k) # NULL /\ H!Get(m, o, q) = H!Get(m, n, k) => o = n /\ q = k
<1>1. PICK ch : Holds(m, ch, u)
  BY DEF Sound
<1>2. ASSUME NEW o \in Name, NEW q \in Keys, H!Get(m, o, q) # NULL
      PROVE  \E s \in H!Slot : \E i \in 1..Len(ch[o][s]) :
                 H!Get(m, o, q) = ch[o][s][i] /\ m.key[ch[o][s][i]] = q
  <2>1. PICK s \in H!Slot : \E i \in 1..Len(ch[o][s]) : m.key[ch[o][s][i]] = q
    BY <1>1, <1>2, GetMisses
  <2>2. PICK i \in 1..Len(ch[o][s]) : m.key[ch[o][s][i]] = q
    BY <2>1
  <2>3. H!Get(m, o, q) = ch[o][s][i]
    BY <1>1, <2>2, GetFinds
  <2> QED  BY <2>2, <2>3
<1>3. H!Get(m, n, k) \in u \cup {NULL}
  BY <1>1, <1>2, EntryAt
<1>4. ASSUME NEW o \in Name, NEW q \in Keys,
             H!Get(m, n, k) # NULL, H!Get(m, o, q) = H!Get(m, n, k)
      PROVE  o = n /\ q = k
  <2>1. PICK s \in H!Slot : \E i \in 1..Len(ch[n][s]) :
                 H!Get(m, n, k) = ch[n][s][i] /\ m.key[ch[n][s][i]] = k
    BY <1>2, <1>4
  <2>2. PICK i \in 1..Len(ch[n][s]) : H!Get(m, n, k) = ch[n][s][i] /\ m.key[ch[n][s][i]] = k
    BY <2>1
  <2>3. PICK r \in H!Slot : \E j \in 1..Len(ch[o][r]) :
                 H!Get(m, o, q) = ch[o][r][j] /\ m.key[ch[o][r][j]] = q
    BY <1>2, <1>4
  <2>4. PICK j \in 1..Len(ch[o][r]) : H!Get(m, o, q) = ch[o][r][j] /\ m.key[ch[o][r][j]] = q
    BY <2>3
  <2>5. ch[n][s][i] = ch[o][r][j]
    BY <1>4, <2>2, <2>4
  <2>6. n = o
    BY <1>1, <2>5, OnePlace
  <2> QED  BY <2>2, <2>4, <2>5, <2>6
<1> QED  BY <1>3, <1>4

\* A structure that is in no map may be in use.
LEMMA MoreUsed ==
    ASSUME NEW m, NEW u, Sound(m, u), NEW e \in Entry PROVE Sound(m, u \cup {e})
<1>1. PICK ch : Holds(m, ch, u)
  BY DEF Sound
<1>2. Holds(m, ch, u \cup {e})
  BY <1>1 DEF Holds
<1>3. u \cup {e} \subseteq Entry
  BY DEF Sound
<1> QED  BY <1>2, <1>3 DEF Sound

\* map_put under a new key adds the entry; under a key that is taken it leaves
\* every map as it was.
LEMMA PutSound ==
    ASSUME NEW m, NEW u, Sound(m, u), NEW e \in Entry, e \notin u,
           NEW n \in Name, NEW k \in Keys
    PROVE  /\ Sound(H!Put(m, n, e, k), u \cup {e})
           /\ \A o \in Name, q \in Keys :
                  H!Get(H!Put(m, n, e, k), o, q)
                  = IF H!Fresh(m, n, k) /\ o = n /\ q = k THEN e ELSE H!Get(m, o, q)
<1>1. PICK ch : Holds(m, ch, u)
  BY DEF Sound
<1>2. u \cup {e} \subseteq Entry
  BY DEF Sound
<1>3. CASE H!Get(m, n, k) = NULL
  <2>1. Sound(H!Put(m, n, e, k), u \cup {e})
    BY <1>1, <1>2, <1>3, PutHolds DEF Sound
  <2>2. \A o \in Name, q \in Keys :
            H!Get(H!Put(m, n, e, k), o, q) = IF o = n /\ q = k THEN e ELSE H!Get(m, o, q)
    BY <1>1, <1>3, PutGets
  <2>3. H!Fresh(m, n, k)
    BY <1>3 DEF H!Fresh
  <2> QED  BY <2>1, <2>2, <2>3
<1>4. CASE H!Get(m, n, k) # NULL
  <2> DEFINE t == H!Touched(m, e, k)
  <2>1. ~H!Fresh(m, n, k)
    BY <1>4 DEF H!Fresh
  <2>2. H!Put(m, n, e, k) = t
    BY <2>1 DEF H!Put
  <2>3. Holds(t, ch, u) /\ t.key = m.key
    <3>1. MapTypes(m)
      BY <1>1 DEF Holds
    <3>2. t.key = m.key
      BY <3>1, TouchedIs
    <3>3. Holds(t, ch, u)
      BY <1>1, TouchedHolds
    <3> QED  BY <3>2, <3>3
  <2> HIDE DEF t
  <2>4. Holds(t, ch, u \cup {e})
    BY <2>3 DEF Holds
  <2>5. ASSUME NEW o \in Name, NEW q \in Keys PROVE H!Get(t, o, q) = H!Get(m, o, q)
    BY <1>1, <2>3, SameChains, Zenon
  <2>6. Sound(t, u \cup {e})
    BY <1>2, <2>4 DEF Sound
  <2> QED  BY <2>1, <2>2, <2>5, <2>6
<1> QED  BY <1>3, <1>4

-----------------------------------------------------------------------------
(* The invariant.                                                            *)

\* Partial functions by their domains, and records by their members.
Shapes ==
    /\ kernel = [port |-> kernel.port, watched |-> kernel.watched]
    /\ told = [type |-> told.type, link |-> told.link, msgs |-> told.msgs]
    /\ DOMAIN told.type \subseteq Fd
    /\ \A fd \in DOMAIN told.type : told.type[fd] \in Type
    /\ DOMAIN told.link \subseteq Fd
    /\ DOMAIN told.msgs = Type /\ told.msgs = [t \in Type |-> told.msgs[t]]
    /\ \A t \in Type : DOMAIN told.msgs[t] \subseteq Cmd
    /\ \A t \in Type : \A c \in DOMAIN told.msgs[t] : told.msgs[t][c] \in Func
    /\ DOMAIN item = Entry /\ item = [e \in Entry |-> item[e]]
    /\ DOMAIN global = Type /\ global = [t \in Type |-> global[t]]

\* The map of a type has an entry for exactly the codes the program registered,
\* with the handler that it gave.
HandlersKnown ==
    \A t \in Type, c \in Cmd :
        LET e == H!Get(maps, t, c)
        IN  IF c \in DOMAIN told.msgs[t] THEN e # NULL /\ item[e] = told.msgs[t][c]
            ELSE e = NULL

\* The structure of a port with a link handler holds it.
LinksKnown ==
    \A fd \in DOMAIN told.link :
        LET e == H!Get(maps, "tcp_fds", fd) IN e # NULL /\ item[e] = told.link[fd]

\* The maps are sound, and what the program was told is what they hold.
PInv ==
    /\ Shapes /\ Sound(maps, used)
    /\ PortsServed /\ HandlersKnown /\ LinksKnown

\* With one port of a type, its global is the port's descriptor.
GlobalsTrue ==
    /\ \A fd \in DOMAIN told.type, t \in Type : told.type[fd] = t <=> global[t] = fd
    /\ \A t \in Type : global[t] \in DOMAIN told.type \cup {Invalid}

-----------------------------------------------------------------------------
(* The pieces of the program's calls.                                        *)

\* Names of maps: those of the types are not those of the descriptors.
LEMMA Names ==
    /\ Type \subseteq Name /\ Tcp \subseteq Type
    /\ \A t \in Type : MapOf(t) \in Name /\ MapOf(t) \notin Type
    /\ "tcp_fds" \in Name \ Type /\ "udp_fds" \in Name \ Type
    /\ "user" \in Type /\ "manage" \in Type /\ "udp" \in Type
BY DEF Type, Tcp, Name, MapOf

\* The numbers of descriptors and of codes are keys, and Invalid is none.
LEMMA FdCmd == Fd \subseteq Keys /\ Cmd \subseteq Keys /\ Invalid \notin Fd
<1>1. Fd \subseteq FiveDigits
  BY PortsAssumption
<1>2. -1 \notin FiveDigits
  BY DEF FiveDigits
<1>3. Invalid \notin Fd
  BY <1>1, <1>2 DEF Invalid
<1> QED  BY <1>3 DEF Keys

\* malloc returns a structure that is free.
LEMMA MallocFree ==
    ASSUME used \subseteq Entry, used # Entry PROVE Malloc \in Entry /\ Malloc \notin used
<1>1. \E e \in Entry : e \notin used
  OBVIOUS
<1> QED  BY <1>1 DEF Malloc

\* With at the new point and at the others.
LEMMA WithIs ==
    ASSUME NEW f, NEW x, NEW y
    PROVE  /\ DOMAIN With(f, x, y) = DOMAIN f \cup {x}
           /\ With(f, x, y)[x] = y
           /\ \A z \in DOMAIN f : z # x => With(f, x, y)[z] = f[z]
BY DEF With

\* Creating a port opens and watches its descriptor, or leaves nothing behind.
LEMMA SocketsIs ==
    ASSUME NEW k, k = [port |-> k.port, watched |-> k.watched],
           NEW fd, fd \notin DOMAIN k.port, fd \notin k.watched,
           NEW b, NEW failure \in Failure
    PROVE  LET z == Sockets(k, fd, b, failure)
               opened == IF failure = "none" THEN {fd} ELSE {}
           IN  /\ z = [port |-> z.port, watched |-> z.watched]
               /\ DOMAIN z.port = DOMAIN k.port \cup opened
               /\ z.watched = k.watched \cup opened
<1> DEFINE o == Opened(k, fd, b)
           w == Watched(o, fd)
<1>1. PICK port, watched : k = [port |-> port, watched |-> watched]
  OBVIOUS
<1>2. k.port = port /\ k.watched = watched
  BY <1>1
<1>3. o = [port |-> With(port, fd, b), watched |-> watched]
  BY <1>1 DEF Opened
<1>4. w = [port |-> With(port, fd, b), watched |-> watched \cup {fd}]
  BY <1>3 DEF Watched
<1>5. DOMAIN With(port, fd, b) = DOMAIN port \cup {fd}
  BY WithIs
<1> HIDE DEF o, w
<1>6. \A x : Closed(x, fd) = [port |-> Closed(x, fd).port, watched |-> Closed(x, fd).watched]
  BY DEF Closed
<1>7. \A x : /\ DOMAIN Closed(x, fd).port = DOMAIN x.port \ {fd}
             /\ Closed(x, fd).watched = x.watched \ {fd}
  BY DEF Closed
<1>8. o.port = With(port, fd, b) /\ o.watched = watched
  BY <1>3
<1>9. w.port = With(port, fd, b) /\ w.watched = watched \cup {fd}
  BY <1>4
<1>10. (DOMAIN port \cup {fd}) \ {fd} = DOMAIN port /\ watched \ {fd} = watched
       /\ (watched \cup {fd}) \ {fd} = watched
  BY <1>2
<1>11. CASE failure = "socket"
  BY <1>11 DEF Sockets
<1>12. CASE failure \in {"bind", "epoll_add"}
  <2>1. Sockets(k, fd, b, failure) = Closed(o, fd)
    BY <1>12 DEF Sockets, o
  <2>2. DOMAIN Closed(o, fd).port = DOMAIN port /\ Closed(o, fd).watched = watched
    BY <1>5, <1>7, <1>8, <1>10
  <2> QED  BY <1>2, <1>6, <1>12, <2>1, <2>2
<1>13. CASE failure \in {"malloc", "map_put"}
  <2>1. Sockets(k, fd, b, failure) = Closed(w, fd)
    BY <1>13 DEF Sockets, w, o
  <2>2. DOMAIN Closed(w, fd).port = DOMAIN port /\ Closed(w, fd).watched = watched
    BY <1>5, <1>7, <1>9, <1>10
  <2> QED  BY <1>2, <1>6, <1>13, <2>1, <2>2
<1>14. CASE failure = "none"
  <2>1. Sockets(k, fd, b, failure) = w
    BY <1>14 DEF Sockets, w, o
  <2>2. w = [port |-> w.port, watched |-> w.watched]
    BY <1>4, <1>9
  <2> QED  BY <1>2, <1>5, <1>9, <1>14, <2>1, <2>2
<1> QED  BY <1>11, <1>12, <1>13, <1>14 DEF Failure

-----------------------------------------------------------------------------
(* The steps.                                                                *)

LEMMA InitPorts == ASSUME Init PROVE PInv /\ GlobalsTrue
<1>1. /\ maps = H!EmptyMaps /\ item = [e \in Entry |-> NULL] /\ used = {}
      /\ kernel = [port |-> None, watched |-> {}]
      /\ global = [t \in Type |-> Invalid]
      /\ told = [type |-> None, link |-> None, msgs |-> [t \in Type |-> None]]
  BY DEF Init
<1>2. DOMAIN None = {}
  BY DEF None
<1>3. /\ told.type = None /\ told.link = None /\ told.msgs = [t \in Type |-> None]
      /\ kernel.port = None /\ kernel.watched = {}
  BY <1>1
<1>4. Shapes
  BY <1>1, <1>2, <1>3 DEF Shapes
<1>5. Sound(maps, used)
  BY <1>1, EmptySound
<1>6. \A n \in Name, k \in Keys : H!Get(maps, n, k) = NULL
  BY <1>1, EmptySound
<1>7. PortsServed
  BY <1>2, <1>3, <1>6, FdCmd, Names DEF PortsServed
<1>8. HandlersKnown /\ LinksKnown
  BY <1>2, <1>3, <1>6, FdCmd, Names DEF HandlersKnown, LinksKnown
<1>9. GlobalsTrue
  BY <1>1, <1>2, <1>3 DEF GlobalsTrue
<1> QED  BY <1>4, <1>5, <1>7, <1>8, <1>9 DEF PInv

\* A structure that map_get returns is in use, so it is not the one malloc returns.
LEMMA GetUsed ==
    ASSUME PInv, NEW n \in Name, NEW k \in Keys, H!Get(maps, n, k) # NULL
    PROVE  H!Get(maps, n, k) \in used /\ H!Get(maps, n, k) \in Entry
BY GetSound DEF PInv, Sound

\* listen_port fails: the descriptor is closed, and only the global is lost.
LEMMA ListenFails ==
    ASSUME PInv, NEW t \in Type, NEW fd \in Fd, NEW e \in Entry, NEW number,
           NEW failure \in Failure, failure # "none", listen_port(t, fd, e, number, failure)
    PROVE  PInv' /\ global' = [global EXCEPT ![t] = Invalid] /\ told' = told
<1>1. /\ fd \notin DOMAIN kernel.port
      /\ UNCHANGED <<maps, used, item, told>>
      /\ global' = [global EXCEPT ![t] = Invalid]
      /\ \E b : kernel' = Sockets(kernel, fd, b, failure)
  BY DEF listen_port, CreateFd
<1>2. PICK b : kernel' = Sockets(kernel, fd, b, failure)
  BY <1>1
<1>3. fd \notin kernel.watched /\ kernel = [port |-> kernel.port, watched |-> kernel.watched]
  BY <1>1 DEF PInv, PortsServed, Shapes
<1>4. /\ kernel' = [port |-> kernel'.port, watched |-> kernel'.watched]
      /\ DOMAIN kernel'.port = DOMAIN kernel.port
      /\ kernel'.watched = kernel.watched
  BY <1>1, <1>2, <1>3, SocketsIs
<1>5. DOMAIN global' = Type /\ global' = [x \in Type |-> global'[x]]
  BY <1>1 DEF PInv, Shapes
<1>6. Shapes'
  BY <1>1, <1>4, <1>5 DEF PInv, Shapes
<1>7. PortsServed'
  BY <1>1, <1>4 DEF PInv, PortsServed
<1>8. Sound(maps, used)' /\ HandlersKnown' /\ LinksKnown'
  BY <1>1 DEF PInv, HandlersKnown, LinksKnown
<1> QED  BY <1>1, <1>6, <1>7, <1>8 DEF PInv

\* listen_port succeeds: the descriptor is open, watched, and in its map.
LEMMA ListenWorks ==
    ASSUME PInv, NEW t \in Type, NEW fd \in Fd, NEW e \in Entry, NEW number,
           listen_port(t, fd, e, number, "none")
    PROVE  /\ PInv'
           /\ fd \notin DOMAIN told.type
           /\ global' = [global EXCEPT ![t] = fd]
           /\ told'.type = With(told.type, fd, t)
<1> DEFINE n == MapOf(t)
<1>1. /\ fd \notin DOMAIN kernel.port /\ e \notin used
      /\ H!Fresh(maps, n, fd)
      /\ maps' = H!Put(maps, n, e, fd)
      /\ used' = used \cup {e} /\ item' = [item EXCEPT ![e] = Garbage]
      /\ global' = [global EXCEPT ![t] = fd]
      /\ told' = [told EXCEPT !.type = With(@, fd, t)]
      /\ \E b : kernel' = Sockets(kernel, fd, b, "none")
  BY DEF listen_port, CreateFd
<1>2. PICK b : kernel' = Sockets(kernel, fd, b, "none")
  BY <1>1
<1>3. /\ fd \notin kernel.watched /\ fd \notin DOMAIN told.type
      /\ kernel = [port |-> kernel.port, watched |-> kernel.watched]
  BY <1>1 DEF PInv, PortsServed, Shapes
<1>4. "none" \in Failure
  BY DEF Failure
<1>5. /\ kernel' = [port |-> kernel'.port, watched |-> kernel'.watched]
      /\ DOMAIN kernel'.port = DOMAIN kernel.port \cup {fd}
      /\ kernel'.watched = kernel.watched \cup {fd}
  BY <1>1, <1>2, <1>3, <1>4, SocketsIs
<1>6. /\ told'.type = With(told.type, fd, t)
      /\ told'.link = told.link /\ told'.msgs = told.msgs
      /\ told' = [type |-> told'.type, link |-> told'.link, msgs |-> told'.msgs]
  BY <1>1 DEF PInv, Shapes
<1>7. /\ DOMAIN told'.type = DOMAIN told.type \cup {fd}
      /\ told'.type[fd] = t
      /\ \A f \in DOMAIN told.type : told'.type[f] = told.type[f]
  <2>1. /\ DOMAIN With(told.type, fd, t) = DOMAIN told.type \cup {fd}
        /\ With(told.type, fd, t)[fd] = t
        /\ \A z \in DOMAIN told.type : z # fd => With(told.type, fd, t)[z] = told.type[z]
    BY DEF With
  <2> QED  BY <1>3, <1>6, <2>1
<1>8. n \in Name /\ n \notin Type /\ fd \in Keys
  BY Names, FdCmd
<1> HIDE DEF n
<1>9. /\ Sound(maps', used')
      /\ \A o \in Name, q \in Keys :
             H!Get(maps', o, q) = IF o = n /\ q = fd THEN e ELSE H!Get(maps, o, q)
  <2>1. Sound(maps, used)
    BY DEF PInv
  <2>2. /\ Sound(H!Put(maps, n, e, fd), used \cup {e})
        /\ \A o \in Name, q \in Keys :
               H!Get(H!Put(maps, n, e, fd), o, q)
               = IF H!Fresh(maps, n, fd) /\ o = n /\ q = fd THEN e ELSE H!Get(maps, o, q)
    BY <1>1, <1>8, <2>1, PutSound
  <2> QED  BY <1>1, <2>2
<1>10. \A x \in Entry : x # e => item'[x] = item[x]
  BY <1>1 DEF PInv, Shapes
<1>11. \A o \in Name, q \in Keys :
           H!Get(maps, o, q) # NULL => /\ H!Get(maps, o, q) # e
                                       /\ item'[H!Get(maps, o, q)] = item[H!Get(maps, o, q)]
  BY <1>1, <1>10, GetUsed
<1>12. Shapes'
  <2>1. DOMAIN global' = Type /\ global' = [x \in Type |-> global'[x]]
    BY <1>1 DEF PInv, Shapes
  <2>2. DOMAIN item' = Entry /\ item' = [x \in Entry |-> item'[x]]
    BY <1>1 DEF PInv, Shapes
  <2> QED  BY <1>5, <1>6, <1>7, <2>1, <2>2 DEF PInv, Shapes
<1>13. PortsServed'
  <2>1. DOMAIN kernel'.port = DOMAIN told'.type /\ kernel'.watched = DOMAIN told'.type
    BY <1>5, <1>7 DEF PInv, PortsServed
  <2>2. ASSUME NEW f \in Fd, NEW o \in {"tcp_fds", "udp_fds"}
        PROVE  H!Get(maps', o, f) # NULL <=> f \in DOMAIN told'.type /\ MapOf(told'.type[f]) = o
    <3>1. o \in Name /\ f \in Keys
      BY Names, FdCmd
    <3>2. H!Get(maps, o, f) # NULL <=> f \in DOMAIN told.type /\ MapOf(told.type[f]) = o
      BY DEF PInv, PortsServed
    <3>3. H!Get(maps', o, f) = IF o = n /\ f = fd THEN e ELSE H!Get(maps, o, f)
      BY <1>9, <3>1
    <3>4. CASE f = fd
      BY <1>3, <1>7, <3>2, <3>3, <3>4, Nulls DEF n
    <3>5. CASE f # fd
      BY <1>7, <3>2, <3>3, <3>5
    <3> QED  BY <3>4, <3>5
  <2> QED  BY <2>1, <2>2 DEF PortsServed
<1>14. HandlersKnown'
  <2> SUFFICES ASSUME NEW x \in Type, NEW c \in Cmd
               PROVE  IF c \in DOMAIN told'.msgs[x]
                      THEN H!Get(maps', x, c) # NULL /\ item'[H!Get(maps', x, c)] = told'.msgs[x][c]
                      ELSE H!Get(maps', x, c) = NULL
    BY DEF HandlersKnown
  <2>1. x \in Name /\ c \in Keys /\ x # n
    BY <1>8, Names, FdCmd
  <2>2. H!Get(maps', x, c) = H!Get(maps, x, c)
    BY <1>9, <2>1
  <2>3. IF c \in DOMAIN told.msgs[x]
        THEN H!Get(maps, x, c) # NULL /\ item[H!Get(maps, x, c)] = told.msgs[x][c]
        ELSE H!Get(maps, x, c) = NULL
    BY DEF PInv, HandlersKnown
  <2> QED  BY <1>6, <1>11, <2>1, <2>2, <2>3
<1>15. LinksKnown'
  <2> SUFFICES ASSUME NEW f \in DOMAIN told'.link
               PROVE  /\ H!Get(maps', "tcp_fds", f) # NULL
                      /\ item'[H!Get(maps', "tcp_fds", f)] = told'.link[f]
    BY DEF LinksKnown
  <2>1. f \in DOMAIN told.link /\ f \in Fd /\ f \in Keys /\ "tcp_fds" \in Name
    BY <1>6, Names, FdCmd DEF PInv, Shapes
  <2>2. H!Get(maps, "tcp_fds", f) # NULL /\ item[H!Get(maps, "tcp_fds", f)] = told.link[f]
    BY <2>1 DEF PInv, LinksKnown
  <2>3. f # fd
    BY <1>3, <2>1, <2>2 DEF PInv, PortsServed
  <2>4. H!Get(maps', "tcp_fds", f) = H!Get(maps, "tcp_fds", f)
    BY <1>9, <2>1, <2>3
  <2> QED  BY <1>6, <1>11, <2>1, <2>2, <2>4
<1> QED  BY <1>1, <1>3, <1>6, <1>9, <1>12, <1>13, <1>14, <1>15 DEF PInv

\* A handler is registered, or its code is taken, or there is no key for it.
LEMMA RegKeeps ==
    ASSUME PInv, NEW t \in Type, NEW c \in Cmd, NEW f \in Func, NEW e \in Entry,
           NEW keyed \in BOOLEAN, reg_msg(t, c, f, e, keyed)
    PROVE  PInv' /\ told'.type = told.type /\ global' = global
<1> DEFINE put == keyed /\ H!Fresh(maps, t, c)
<1>1. /\ e \notin used /\ used' = used \cup {e}
      /\ item' = [item EXCEPT ![e] = f]
      /\ maps' = IF keyed THEN H!Put(maps, t, e, c) ELSE maps
      /\ told' = IF put
                 THEN [told EXCEPT !.msgs[t] = With(@, c, f)] ELSE told
      /\ kernel' = kernel /\ global' = global
  BY DEF reg_msg
<1>2. t \in Name /\ c \in Keys
  BY Names, FdCmd
<1>3. /\ Sound(maps', used')
      /\ \A o \in Name, q \in Keys :
             H!Get(maps', o, q)
             = IF put /\ o = t /\ q = c THEN e ELSE H!Get(maps, o, q)
  <2>1. Sound(maps, used)
    BY DEF PInv
  <2>2. CASE keyed
    BY <1>1, <1>2, <2>1, <2>2, PutSound
  <2>3. CASE ~keyed
    BY <1>1, <2>1, <2>3, MoreUsed
  <2> QED  BY <2>2, <2>3
<1> HIDE DEF put
<1>4. item'[e] = f /\ \A x \in Entry : x # e => item'[x] = item[x]
  BY <1>1 DEF PInv, Shapes
<1>5. \A o \in Name, q \in Keys :
          H!Get(maps, o, q) # NULL => item'[H!Get(maps, o, q)] = item[H!Get(maps, o, q)]
  BY <1>1, <1>4, GetUsed
<1>6. /\ told'.type = told.type /\ told'.link = told.link
      /\ told' = [type |-> told'.type, link |-> told'.link, msgs |-> told'.msgs]
      /\ told'.msgs = IF put
                      THEN [told.msgs EXCEPT ![t] = With(@, c, f)] ELSE told.msgs
  BY <1>1 DEF PInv, Shapes
<1>7. /\ DOMAIN told'.msgs = Type /\ told'.msgs = [x \in Type |-> told'.msgs[x]]
      /\ told'.msgs[t] = IF put THEN With(told.msgs[t], c, f)
                         ELSE told.msgs[t]
      /\ \A x \in Type : x # t => told'.msgs[x] = told.msgs[x]
  BY <1>6 DEF PInv, Shapes
<1>8. /\ DOMAIN With(told.msgs[t], c, f) = DOMAIN told.msgs[t] \cup {c}
      /\ With(told.msgs[t], c, f)[c] = f
      /\ \A z \in DOMAIN told.msgs[t] : z # c => With(told.msgs[t], c, f)[z] = told.msgs[t][z]
  BY DEF With
<1>9. Shapes'
  <2>1. DOMAIN item' = Entry /\ item' = [x \in Entry |-> item'[x]]
    BY <1>1 DEF PInv, Shapes
  <2>2. ASSUME NEW x \in Type
        PROVE  /\ DOMAIN told'.msgs[x] \subseteq Cmd
               /\ \A z \in DOMAIN told'.msgs[x] : told'.msgs[x][z] \in Func
    <3>1. /\ DOMAIN told.msgs[x] \subseteq Cmd
          /\ \A z \in DOMAIN told.msgs[x] : told.msgs[x][z] \in Func
      BY DEF PInv, Shapes
    <3> QED  BY <1>7, <1>8, <3>1
  <2> QED  BY <1>1, <1>6, <1>7, <2>1, <2>2 DEF PInv, Shapes
<1>10. PortsServed'
  <2>1. ASSUME NEW fd \in Fd, NEW o \in {"tcp_fds", "udp_fds"}
        PROVE  H!Get(maps', o, fd) = H!Get(maps, o, fd)
    <3>1. o \in Name /\ fd \in Keys /\ o # t
      BY Names, FdCmd
    <3> QED  BY <1>3, <3>1
  <2> QED  BY <1>1, <1>6, <2>1 DEF PInv, PortsServed
<1>11. HandlersKnown'
  <2> SUFFICES ASSUME NEW x \in Type, NEW d \in Cmd
               PROVE  IF d \in DOMAIN told'.msgs[x]
                      THEN H!Get(maps', x, d) # NULL /\ item'[H!Get(maps', x, d)] = told'.msgs[x][d]
                      ELSE H!Get(maps', x, d) = NULL
    BY DEF HandlersKnown
  <2>1. x \in Name /\ d \in Keys
    BY Names, FdCmd
  <2>2. IF d \in DOMAIN told.msgs[x]
        THEN H!Get(maps, x, d) # NULL /\ item[H!Get(maps, x, d)] = told.msgs[x][d]
        ELSE H!Get(maps, x, d) = NULL
    BY DEF PInv, HandlersKnown
  <2>3. CASE put /\ x = t /\ d = c
    <3>1. H!Get(maps', x, d) = e /\ told'.msgs[x] = With(told.msgs[t], c, f)
      BY <1>3, <1>7, <2>1, <2>3
    <3> QED  BY <1>4, <1>8, <2>3, <3>1, Nulls
  <2>4. CASE ~(put /\ x = t /\ d = c)
    <3>1. H!Get(maps', x, d) = H!Get(maps, x, d)
      BY <1>3, <2>1, <2>4
    <3>2. d \in DOMAIN told'.msgs[x] <=> d \in DOMAIN told.msgs[x]
      BY <1>7, <1>8, <2>4
    <3>3. d \in DOMAIN told.msgs[x] => told'.msgs[x][d] = told.msgs[x][d]
      BY <1>7, <1>8, <2>4
    <3> QED  BY <1>5, <2>1, <2>2, <3>1, <3>2, <3>3
  <2> QED  BY <2>3, <2>4
<1>12. LinksKnown'
  <2> SUFFICES ASSUME NEW x \in DOMAIN told'.link
               PROVE  /\ H!Get(maps', "tcp_fds", x) # NULL
                      /\ item'[H!Get(maps', "tcp_fds", x)] = told'.link[x]
    BY DEF LinksKnown
  <2>1. x \in DOMAIN told.link /\ x \in Keys /\ "tcp_fds" \in Name /\ "tcp_fds" # t
    BY <1>6, Names, FdCmd DEF PInv, Shapes
  <2>2. H!Get(maps, "tcp_fds", x) # NULL /\ item[H!Get(maps, "tcp_fds", x)] = told.link[x]
    BY <2>1 DEF PInv, LinksKnown
  <2>3. H!Get(maps', "tcp_fds", x) = H!Get(maps, "tcp_fds", x)
    BY <1>3, <2>1
  <2> QED  BY <1>5, <1>6, <2>1, <2>2, <2>3
<1> QED  BY <1>1, <1>3, <1>6, <1>9, <1>10, <1>11, <1>12 DEF PInv

\* A link handler is registered: it is in no other structure.
LEMMA LinkKeeps ==
    ASSUME PInv, NEW fd \in DOMAIN told.type, NEW f \in Func, reg_link_event(fd, f)
    PROVE  PInv' /\ told'.type = told.type /\ global' = global
<1> DEFINE tfd == H!Get(maps, "tcp_fds", fd)
<1>1. /\ tfd # NULL /\ item' = [item EXCEPT ![tfd] = f]
      /\ told' = [told EXCEPT !.link = With(@, fd, f)]
      /\ maps' = maps /\ used' = used /\ kernel' = kernel /\ global' = global
  BY DEF reg_link_event
<1>2. fd \in Fd /\ fd \in Keys /\ "tcp_fds" \in Name /\ "tcp_fds" \notin Type
  BY Names, FdCmd DEF PInv, Shapes
<1>3. tfd \in Entry
  BY <1>1, <1>2, GetUsed
<1>4. \A o \in Name, q \in Keys : H!Get(maps, o, q) = tfd => o = "tcp_fds" /\ q = fd
  <2>1. Sound(maps, used)
    BY DEF PInv
  <2> QED  BY <1>1, <1>2, <2>1, GetSound
<1>5. \A o \in Name, q \in Keys : H!Get(maps, o, q) # NULL => H!Get(maps, o, q) \in Entry
  BY GetUsed
<1> HIDE DEF tfd
<1>6. item'[tfd] = f /\ \A x \in Entry : x # tfd => item'[x] = item[x]
  BY <1>1, <1>3 DEF PInv, Shapes
<1>7. /\ told'.type = told.type /\ told'.msgs = told.msgs
      /\ told' = [type |-> told'.type, link |-> told'.link, msgs |-> told'.msgs]
      /\ told'.link = With(told.link, fd, f)
  BY <1>1 DEF PInv, Shapes
<1>8. /\ DOMAIN told'.link = DOMAIN told.link \cup {fd} /\ told'.link[fd] = f
      /\ \A z \in DOMAIN told.link : z # fd => told'.link[z] = told.link[z]
  <2>1. /\ DOMAIN With(told.link, fd, f) = DOMAIN told.link \cup {fd}
        /\ With(told.link, fd, f)[fd] = f
        /\ \A z \in DOMAIN told.link : z # fd => With(told.link, fd, f)[z] = told.link[z]
    BY DEF With
  <2> QED  BY <1>7, <2>1
<1>9. Shapes'
  <2>1. DOMAIN item' = Entry /\ item' = [x \in Entry |-> item'[x]]
    BY <1>1 DEF PInv, Shapes
  <2> QED  BY <1>1, <1>2, <1>7, <1>8, <2>1 DEF PInv, Shapes
<1>10. PortsServed'
  BY <1>1, <1>7 DEF PInv, PortsServed
<1>11. HandlersKnown'
  <2> SUFFICES ASSUME NEW x \in Type, NEW d \in Cmd
               PROVE  IF d \in DOMAIN told'.msgs[x]
                      THEN H!Get(maps', x, d) # NULL /\ item'[H!Get(maps', x, d)] = told'.msgs[x][d]
                      ELSE H!Get(maps', x, d) = NULL
    BY DEF HandlersKnown
  <2>1. x \in Name /\ d \in Keys /\ x # "tcp_fds"
    BY <1>2, Names, FdCmd
  <2>2. IF d \in DOMAIN told.msgs[x]
        THEN H!Get(maps, x, d) # NULL /\ item[H!Get(maps, x, d)] = told.msgs[x][d]
        ELSE H!Get(maps, x, d) = NULL
    BY DEF PInv, HandlersKnown
  <2>3. H!Get(maps, x, d) # tfd
    BY <1>4, <2>1
  <2> QED  BY <1>1, <1>5, <1>6, <1>7, <2>1, <2>2, <2>3
<1>12. LinksKnown'
  <2> SUFFICES ASSUME NEW x \in DOMAIN told'.link
               PROVE  /\ H!Get(maps', "tcp_fds", x) # NULL
                      /\ item'[H!Get(maps', "tcp_fds", x)] = told'.link[x]
    BY DEF LinksKnown
  <2>1. CASE x = fd
    BY <1>1, <1>6, <1>8, <2>1 DEF tfd
  <2>2. CASE x # fd
    <3>1. x \in DOMAIN told.link /\ x \in Keys
      BY <1>8, <2>2, FdCmd DEF PInv, Shapes
    <3>2. H!Get(maps, "tcp_fds", x) # NULL /\ item[H!Get(maps, "tcp_fds", x)] = told.link[x]
      BY <3>1 DEF PInv, LinksKnown
    <3>3. H!Get(maps, "tcp_fds", x) # tfd /\ H!Get(maps, "tcp_fds", x) \in Entry
      BY <1>2, <1>4, <1>5, <2>2, <3>1, <3>2
    <3> QED  BY <1>1, <1>6, <1>8, <2>2, <3>1, <3>2, <3>3
  <2> QED  BY <2>1, <2>2
<1>13. Sound(maps, used)'
  BY <1>1 DEF PInv
<1> QED  BY <1>1, <1>7, <1>9, <1>10, <1>11, <1>12, <1>13 DEF PInv

\* Every step keeps the invariant.
LEMMA NextPorts == ASSUME PInv, [Next]_vars PROVE PInv'
<1>0. used # Entry => Malloc \in Entry
  BY MallocFree DEF PInv, Sound
<1>1. CASE Listen
  <2>1. PICK t \in Type, fd \in Fd, number \in Port, failure \in Failure :
            used # Entry /\ listen_port(t, fd, Malloc, number, failure)
    BY <1>1 DEF Listen
  <2>2. CASE failure = "none"
    BY <1>0, <2>1, <2>2, ListenWorks
  <2>3. CASE failure # "none"
    BY <1>0, <2>1, <2>3, ListenFails
  <2> QED  BY <2>2, <2>3
<1>2. CASE Register
  <2>1. PICK t \in Type, c \in Cmd, f \in Func, keyed \in BOOLEAN :
            used # Entry /\ reg_msg(t, c, f, Malloc, keyed)
    BY <1>2 DEF Register
  <2> QED  BY <1>0, <2>1, RegKeeps
<1>3. CASE RegisterLink
  BY <1>3, LinkKeeps DEF RegisterLink
<1>4. CASE UNCHANGED vars
  <2>1. /\ maps' = maps /\ item' = item /\ used' = used
        /\ kernel' = kernel /\ global' = global /\ told' = told
    BY <1>4 DEF vars
  <2> QED  BY <2>1 DEF PInv, Shapes, PortsServed, HandlersKnown, LinksKnown
<1> QED  BY <1>1, <1>2, <1>3, <1>4 DEF Next

\* With one port of a type at most, every step keeps the globals true.
LEMMA NextGlobals ==
    ASSUME PInv, GlobalsTrue, Many = FALSE, [Next]_vars PROVE GlobalsTrue'
<1>0. /\ used # Entry => Malloc \in Entry
      /\ DOMAIN global = Type /\ DOMAIN told.type \subseteq Fd
  BY MallocFree DEF PInv, Sound, Shapes
<1>1. CASE Listen
  <2>1. PICK t \in Type, fd \in Fd, number \in Port, failure \in Failure :
            used # Entry /\ listen_port(t, fd, Malloc, number, failure)
    BY <1>1 DEF Listen
  <2>2. \A f \in DOMAIN told.type : told.type[f] # t
    BY <2>1 DEF listen_port
  <2>3. CASE failure = "none"
    <3>1. /\ fd \notin DOMAIN told.type /\ global' = [global EXCEPT ![t] = fd]
          /\ told'.type = With(told.type, fd, t)
      BY <1>0, <2>1, <2>3, ListenWorks
    <3>2. /\ DOMAIN With(told.type, fd, t) = DOMAIN told.type \cup {fd}
          /\ With(told.type, fd, t)[fd] = t
          /\ \A z \in DOMAIN told.type : z # fd => With(told.type, fd, t)[z] = told.type[z]
      BY DEF With
    <3>3. global'[t] = fd /\ \A x \in Type : x # t => global'[x] = global[x]
      BY <1>0, <3>1
    <3>4. fd # Invalid
      BY FdCmd
    <3>5. \A x \in Type : x # t => global[x] # fd
      BY <3>1, <3>4 DEF GlobalsTrue
    <3>6. \A f \in DOMAIN told'.type, x \in Type : told'.type[f] = x <=> global'[x] = f
      <4> SUFFICES ASSUME NEW f \in DOMAIN told'.type, NEW x \in Type
                   PROVE  told'.type[f] = x <=> global'[x] = f
        OBVIOUS
      <4>1. CASE f = fd
        BY <3>1, <3>2, <3>3, <3>5, <4>1
      <4>2. CASE f # fd
        <5>1. f \in DOMAIN told.type /\ told'.type[f] = told.type[f]
          BY <3>1, <3>2, <4>2
        <5>2. told.type[f] = x <=> global[x] = f
          BY <5>1 DEF GlobalsTrue
        <5> QED  BY <2>2, <3>3, <4>2, <5>1, <5>2
      <4> QED  BY <4>1, <4>2
    <3>7. \A x \in Type : global'[x] \in DOMAIN told'.type \cup {Invalid}
      BY <3>1, <3>2, <3>3 DEF GlobalsTrue
    <3> QED  BY <3>6, <3>7 DEF GlobalsTrue
  <2>4. CASE failure # "none"
    <3>1. global' = [global EXCEPT ![t] = Invalid] /\ told' = told
      BY <1>0, <2>1, <2>4, ListenFails
    <3>2. global'[t] = Invalid /\ \A x \in Type : x # t => global'[x] = global[x]
      BY <1>0, <3>1
    <3>3. Invalid \notin DOMAIN told.type
      BY <1>0, FdCmd
    <3> QED  BY <2>2, <3>1, <3>2, <3>3 DEF GlobalsTrue
  <2> QED  BY <2>3, <2>4
<1>2. CASE Register
  <2>1. PICK t \in Type, c \in Cmd, f \in Func, keyed \in BOOLEAN :
            used # Entry /\ reg_msg(t, c, f, Malloc, keyed)
    BY <1>2 DEF Register
  <2>2. told'.type = told.type /\ global' = global
    BY <1>0, <2>1, RegKeeps
  <2> QED  BY <2>2 DEF GlobalsTrue
<1>3. CASE RegisterLink
  <2>1. told'.type = told.type /\ global' = global
    BY <1>3, LinkKeeps DEF RegisterLink
  <2> QED  BY <2>1 DEF GlobalsTrue
<1>4. CASE UNCHANGED vars
  <2>1. global' = global /\ told' = told
    BY <1>4 DEF vars
  <2> QED  BY <2>1 DEF GlobalsTrue
<1> QED  BY <1>1, <1>2, <1>3, <1>4 DEF Next

\* A message reaches its handler, in every state that the invariants allow.
LEMMA RoutedThen == ASSUME PInv, GlobalsTrue PROVE Routed
<1>1. ASSUME NEW fd \in DOMAIN told.type, NEW c \in Cmd, NEW keyed \in BOOLEAN
      PROVE  LET known == told.msgs[told.type[fd]]
             IN  Dispatched(fd, c, keyed)
                 = IF keyed /\ c \in DOMAIN known THEN known[c] ELSE NULL
  <2> DEFINE t == told.type[fd]
  <2>1. fd \in Fd /\ t \in Type
    BY DEF PInv, Shapes
  <2>2. /\ H!Get(maps, "tcp_fds", fd) # NULL <=> MapOf(t) = "tcp_fds"
        /\ H!Get(maps, "udp_fds", fd) # NULL <=> MapOf(t) = "udp_fds"
    BY <2>1 DEF PInv, PortsServed
  <2>3. t = "user" <=> global["user"] = fd
    BY Names DEF GlobalsTrue
  <2> HIDE DEF t
  <2>4. Handler(t, c, keyed)
        = IF keyed /\ c \in DOMAIN told.msgs[t] THEN told.msgs[t][c] ELSE NULL
    <3>1. IF c \in DOMAIN told.msgs[t]
          THEN H!Get(maps, t, c) # NULL /\ item[H!Get(maps, t, c)] = told.msgs[t][c]
          ELSE H!Get(maps, t, c) = NULL
      BY <2>1 DEF PInv, HandlersKnown
    <3> QED  BY <3>1 DEF Handler, H!Lookup
  <2>5. CASE t \in Tcp
    <3>1. H!Get(maps, "tcp_fds", fd) # NULL
      BY <2>2, <2>5 DEF MapOf
    <3>2. MessageMap(fd) = t
      BY <2>3, <2>5 DEF MessageMap, Tcp
    <3>3. Dispatched(fd, c, keyed) = Handler(t, c, keyed)
      BY <3>1, <3>2 DEF Dispatched, deal_tcp_msg
    <3> QED  BY <2>4, <3>3 DEF t
  <2>6. CASE t \notin Tcp
    <3>1. t = "udp" /\ MapOf(t) = "udp_fds"
      BY <2>1, <2>6 DEF Type, MapOf
    <3>2. H!Get(maps, "tcp_fds", fd) = NULL /\ H!Get(maps, "udp_fds", fd) # NULL
      BY <2>2, <3>1
    <3>3. Dispatched(fd, c, keyed) = Handler(t, c, keyed)
      BY <3>1, <3>2 DEF Dispatched, deal_udp_msg
    <3> QED  BY <2>4, <3>3 DEF t
  <2> QED  BY <2>5, <2>6
<1>2. \A fd \in DOMAIN told.link : item[H!Get(maps, "tcp_fds", fd)] = told.link[fd]
  BY DEF PInv, LinksKnown
<1> QED  BY <1>1, <1>2 DEF Routed

-----------------------------------------------------------------------------
(* The theorems.                                                             *)

\* A port that listen_port reported is open, watched and known to the map of its
\* kind, and one that failed at whatever step has left nothing behind (create_tcp_fd
\* and create_udp_fd, epollet.c), also when a program listens on many ports.
THEOREM PortsAreServed == Spec => []PortsServed
<1>1. Init => PInv
  BY InitPorts
<1>2. PInv /\ [Next]_vars => PInv'
  BY NextPorts
<1>3. PInv => PortsServed
  BY DEF PInv
<1> QED  BY <1>1, <1>2, <1>3, PTL DEF Spec

\* With one port of each type a message goes to the handler that was registered for
\* its code and the type of its port, and a new connection to the link handler of its
\* port (deal_tcp_msg, proto.c; the chains of map.c), whatever keys have one hash.
THEOREM MessagesAreRouted == ASSUME Many = FALSE PROVE Spec => []Routed
<1>1. Init => PInv /\ GlobalsTrue
  BY InitPorts
<1>2. PInv /\ GlobalsTrue /\ [Next]_vars => PInv' /\ GlobalsTrue'
  BY NextPorts, NextGlobals
<1>3. PInv /\ GlobalsTrue => Routed
  BY RoutedThen
<1> QED  BY <1>1, <1>2, <1>3, PTL DEF Spec

===================================================================================
