---------------------------- MODULE HbsMapProofs ----------------------------
(***************************************************************************)
(* The hash map for any keys, values and hashes, any number of holders and *)
(* of nested loops, and maps of up to MaxCapacity entries.                 *)
(*                                                                         *)
(* The first part is about one map as a value: what a table, a vector and  *)
(* a count must have in common for the search to find what is there, and   *)
(* that every operation of handlebars_map.c keeps it.  The second part is  *)
(* about the maps of a program: who holds them, and who iterates over them.*)
(* The third is about what a program sees of them, and that this is what   *)
(* OrderedMaps promises.                                                   *)
(***************************************************************************)
EXTENDS HbsMap, SequenceLemmas, FiniteSetTheorems

-----------------------------------------------------------------------------
(* Numbers *)

(* Least is what its name says, of a set of naturals that is not empty.    *)
LEMMA LeastIs ==
    ASSUME NEW S, S \subseteq Nat, S # {}
    PROVE  Least(S) \in S /\ \A y \in S : Least(S) <= y
  <1>1. \E x \in S : \A y \in S : x <= y
    BY LeastNat
  <1> QED
    BY <1>1 DEF Least

(* Division with a remainder has one result.                               *)
LEMMA OneRemainder ==
    ASSUME NEW T \in Nat \ {0}, NEW q \in Int, NEW p \in Int,
           NEW r \in 0 .. T - 1, NEW s \in 0 .. T - 1, T * q + r = T * p + s
    PROVE  r = s
  OBVIOUS

(* Steps of a probe: on from the hash, and around the end of the table.    *)
LEMMA AroundTheTable ==
    ASSUME NEW a \in Nat, NEW T \in Nat \ {0}, NEW j \in 0 .. T - 1
    PROVE  /\ a % T \in 0 .. T - 1
           /\ (a + j) % T = IF (a % T) + j < T THEN (a % T) + j ELSE (a % T) + j - T
  <1> DEFINE q == a \div T
             r == a % T
             p == (a + j) \div T
             s == (a + j) % T
  <1>1. r \in 0 .. T - 1 /\ a = T * q + r /\ q \in Int
    OBVIOUS
  <1>2. s \in 0 .. T - 1 /\ a + j = T * p + s /\ p \in Int
    OBVIOUS
  <1> HIDE DEF q, r, p, s
  <1>3. CASE r + j < T
    <2>1. T * q + (r + j) = T * p + s
      BY <1>1, <1>2
    <2>2. r + j \in 0 .. T - 1
      BY <1>1, <1>3
    <2>3. r + j = s
      BY <1>1, <1>2, <2>1, <2>2, OneRemainder
    <2> QED
      BY <1>1, <1>3, <2>3 DEF r, s
  <1>4. CASE ~(r + j < T)
    <2>1. T * (q + 1) = T * q + T
      BY <1>1
    <2>2. T * (q + 1) + (r + j - T) = T * p + s
      BY <1>1, <1>2, <2>1
    <2>3. r + j - T \in 0 .. T - 1 /\ q + 1 \in Int
      BY <1>1, <1>4
    <2>4. r + j - T = s
      BY <1>1, <1>2, <2>2, <2>3, OneRemainder
    <2> QED
      BY <1>1, <1>4, <2>4 DEF r, s
  <1> QED
    BY <1>3, <1>4

(* A table is larger than the vector it points into.                       *)
LEMMA TableIsLarger ==
    ASSUME NEW c \in Nat, c <= MaxCapacity
    PROVE  ChooseTableCapacity(c) \in Nat /\ ChooseTableCapacity(c) > c
  <1> DEFINE t == (c * 100) \div 60
             S == {x \in CapacityTable : x >= t}
  <1>1. t \in Nat /\ t <= 894784853 /\ (c >= 5 => t > c)
    <2> DEFINE r == (c * 100) % 60
    <2>1. c \in Nat /\ c * 100 = 60 * t + r /\ r \in 0 .. 59 /\ t \in Int
      <3> DEFINE a == c * 100
      <3>1. c \in Nat /\ a \in Nat
        OBVIOUS
      <3> HIDE DEF a
      <3>2. a = 60 * (a \div 60) + (a % 60) /\ a % 60 \in 0 .. 59 /\ a \div 60 \in Int
        BY <3>1
      <3> QED
        BY <3>1, <3>2 DEF a
    <2>2. c <= 536870912
      BY DEF MaxCapacity
    <2> HIDE DEF t, r
    <2> QED
      BY <2>1, <2>2
  <1> HIDE DEF t
  <1>2. \A x \in CapacityTable : x \in Nat /\ x >= 5
    BY DEF CapacityTable
  <1>3. 1610612741 \in S
    BY <1>1 DEF CapacityTable
  <1>4. S \subseteq Nat /\ S # {}
    BY <1>2, <1>3
  <1>5. Least(S) \in S
    BY <1>4, LeastIs
  <1>6. Least(S) \in Nat /\ Least(S) >= 5 /\ Least(S) >= t
    BY <1>2, <1>5
  <1>7. ChooseTableCapacity(c) = Least(S)
    BY DEF ChooseTableCapacity, t
  <1> HIDE DEF S
  <1> QED
    BY <1>1, <1>6, <1>7

(* A new vector has room for one more entry than it is made for.           *)
LEMMA VectorHasRoom ==
    ASSUME NEW n \in Nat, n < MaxCapacity
    PROVE  /\ ChooseVecCapacity(n) \in Nat /\ ChooseVecCapacity(n) > n
           /\ ChooseVecCapacity(n) <= MaxCapacity
  <1> DEFINE S == {x \in VecCapacities : x > n}
  <1>1. \A x \in VecCapacities : x \in Nat /\ x <= MaxCapacity
    BY DEF VecCapacities, MaxCapacity
  <1>2. MaxCapacity \in S
    BY DEF VecCapacities, MaxCapacity
  <1>3. S \subseteq Nat /\ S # {}
    BY <1>1, <1>2
  <1>4. Least(S) \in S
    BY <1>3, LeastIs
  <1>5. ChooseVecCapacity(n) = Least(S)
    BY DEF ChooseVecCapacity
  <1> QED
    BY <1>1, <1>4, <1>5

-----------------------------------------------------------------------------
(* One map *)

MapFields == {"vec", "off", "capacity", "n", "rc", "iter", "lost", "table"}
EntryFields == {"key", "value", "slot"}

Slots(m) == 0 .. ChooseTableCapacity(m.capacity) - 1
Live(m) == {i \in 1 .. m.off : m.vec[i] # Gone}
Used(m) == {s \in Slots(m) : m.table[s] # Empty}

(* A search for k gets as far as slot s.                                   *)
Reached(m, k, s) ==
    \E j \in Slots(m) : /\ Probe(m, k, j) = s
                        /\ \A q \in Slots(m) : q < j => m.table[Probe(m, k, q)] # Empty

(* An entry knows its slot, the slot knows the entry, and a search for the *)
(* key gets there.                                                         *)
EntryOK(m, i) ==
    /\ DOMAIN m.vec[i] = EntryFields
    /\ m.vec[i].key \in Keys
    /\ m.vec[i].value \in Values
    /\ m.vec[i].slot \in Slots(m)
    /\ m.table[m.vec[i].slot] = i
    /\ Reached(m, m.vec[i].key, m.vec[i].slot)

SlotOK(m, s) ==
    \/ m.table[s] \in {Empty, Tomb}
    \/ m.table[s] \in Live(m) /\ m.vec[m.table[s]].slot = s

Shape(m) ==
    /\ DOMAIN m = MapFields
    /\ IsSeq(m.vec) /\ Len(m.vec) = m.off
    /\ m.capacity \in Nat /\ m.capacity <= MaxCapacity
    /\ m.off <= m.capacity
    /\ m.table \in [Slots(m) -> Int]

(* A slot is used for each entry ever added, removed ones included.        *)
Coherent(m) ==
    /\ Shape(m)
    /\ \A i \in Live(m) : EntryOK(m, i)
    /\ \A s \in Slots(m) : SlotOK(m, s)
    /\ \A i, j \in Live(m) : m.vec[i].key = m.vec[j].key => i = j
    /\ Cardinality(Used(m)) = m.off
    /\ Cardinality(Live(m)) = m.n

(* The sizes of a map.                                                     *)
LEMMA MapSizes ==
    ASSUME NEW m, Shape(m)
    PROVE  LET T == ChooseTableCapacity(m.capacity)
           IN /\ T \in Nat \ {0} /\ T > m.capacity /\ Slots(m) = 0 .. T - 1
              /\ m.off \in Nat /\ m.off < T
              /\ TableCapacity(m) = T
              /\ DOMAIN m.table = Slots(m)
              /\ Live(m) \subseteq 1 .. m.off /\ IsFiniteSet(Live(m))
              /\ Used(m) \subseteq Slots(m) /\ IsFiniteSet(Used(m))
              /\ IsFiniteSet(Slots(m)) /\ Cardinality(Slots(m)) = T
  <1> DEFINE T == ChooseTableCapacity(m.capacity)
  <1>1. T \in Nat /\ T > m.capacity /\ m.capacity \in Nat
    BY TableIsLarger DEF Shape
  <1>2. m.off \in Nat /\ m.off <= m.capacity
    BY DEF Shape, IsSeq
  <1>3. Slots(m) = 0 .. T - 1 /\ DOMAIN m.table = Slots(m)
    BY DEF Slots, Shape
  <1> HIDE DEF T
  <1>4. IsFiniteSet(0 .. T - 1) /\ Cardinality(0 .. T - 1) = T
    <2> DEFINE b == T - 1
    <2>1. 0 \in Int /\ b \in Int /\ ~(0 > b) /\ b - 0 + 1 = T
      BY <1>1
    <2> HIDE DEF b
    <2>2. IsFiniteSet(0 .. b) /\ Cardinality(0 .. b) = IF 0 > b THEN 0 ELSE b - 0 + 1
      BY <2>1, FS_Interval
    <2>3. IsFiniteSet(0 .. b) /\ Cardinality(0 .. b) = T
      BY <2>1, <2>2
    <2> QED
      BY <2>3 DEF b
  <1>5. IsFiniteSet(1 .. m.off)
    BY <1>2, FS_Interval
  <1>6. Live(m) \subseteq 1 .. m.off /\ Used(m) \subseteq Slots(m)
    BY DEF Live, Used
  <1>7. IsFiniteSet(Live(m)) /\ IsFiniteSet(Used(m))
    BY <1>3, <1>4, <1>5, <1>6, FS_Subset
  <1>8. TableCapacity(m) = T
    BY <1>3, <1>4 DEF TableCapacity
  <1> QED
    BY <1>1, <1>2, <1>3, <1>4, <1>6, <1>7, <1>8 DEF T

(* A probe is a slot, and every slot is probed.                            *)
LEMMA ProbesCover ==
    ASSUME NEW m, Shape(m), NEW k \in Keys
    PROVE  /\ \A j \in Slots(m) : Probe(m, k, j) \in Slots(m)
           /\ \A s \in Slots(m) : \E j \in Slots(m) : Probe(m, k, j) = s
  <1> DEFINE T == ChooseTableCapacity(m.capacity)
             a == Hash[k]
             h == a % T
  <1>1. T \in Nat \ {0} /\ Slots(m) = 0 .. T - 1 /\ TableCapacity(m) = T
    BY MapSizes
  <1>2. a \in Nat
    BY HbsMapAssumption
  <1>3. \A j : Probe(m, k, j) = (a + j) % T
    BY <1>1 DEF Probe
  <1> HIDE DEF T, a
  <1>4. h \in 0 .. T - 1 /\ \A j \in 0 .. T - 1 :
          (a + j) % T = IF h + j < T THEN h + j ELSE h + j - T
    <2>1. ASSUME NEW j \in 0 .. T - 1
          PROVE  (a + j) % T = IF h + j < T THEN h + j ELSE h + j - T
      BY <1>1, <1>2, AroundTheTable
    <2>2. h \in 0 .. T - 1
      BY <1>1, <1>2
    <2> HIDE DEF h
    <2> QED
      BY <2>1, <2>2
  <1> HIDE DEF h
  <1>5. \A j \in Slots(m) : Probe(m, k, j) \in Slots(m)
    BY <1>1, <1>3, <1>4
  <1>6. ASSUME NEW s \in Slots(m)
        PROVE  \E j \in Slots(m) : Probe(m, k, j) = s
    <2> DEFINE j == IF s >= h THEN s - h ELSE s - h + T
    <2>1. j \in 0 .. T - 1 /\ (IF h + j < T THEN h + j ELSE h + j - T) = s
      BY <1>1, <1>4
    <2> QED
      BY <1>1, <1>3, <1>4, <2>1
  <1> QED
    BY <1>5, <1>6

(* The entries of the vector that a search for k must find.                *)
Has(m, k) == \E i \in Live(m) : m.vec[i].key = k

(* A search finds the entry of a key that is there.                        *)
LEMMA FindsLive ==
    ASSUME NEW m, Coherent(m), NEW i \in Live(m)
    PROVE  FindEntry(m, m.vec[i].key) = [entry |-> m.vec[i].slot, empty |-> -1]
  <1> DEFINE k == m.vec[i].key
             t == m.vec[i].slot
             stops == {j \in DOMAIN m.table :
                         m.table[Probe(m, k, j)] = Empty \/ Matches(m, k, Probe(m, k, j))}
             l == Least(stops)
  <1>1. Shape(m) /\ EntryOK(m, i)
    BY DEF Coherent
  <1>2. DOMAIN m.table = Slots(m) /\ Slots(m) \subseteq Nat /\ Live(m) \subseteq Nat \ {0}
    BY <1>1, MapSizes DEF Slots
  <1>3. k \in Keys /\ t \in Slots(m) /\ m.table[t] = i /\ i \in Nat \ {0}
    BY <1>1, <1>2 DEF EntryOK
  <1>4. PICK j \in Slots(m) : /\ Probe(m, k, j) = t
                              /\ \A q \in Slots(m) : q < j => m.table[Probe(m, k, q)] # Empty
    BY <1>1 DEF EntryOK, Reached
  <1> HIDE DEF k, t
  <1>5. j \in stops
    BY <1>2, <1>3, <1>4 DEF Matches, k
  <1>6. l \in stops /\ \A y \in stops : l <= y
    BY <1>2, <1>5, LeastIs
  <1>7. l \in Slots(m) /\ l <= j
    BY <1>2, <1>5, <1>6
  <1>8. m.table[Probe(m, k, l)] # Empty
    <2>1. CASE l = j
      BY <1>3, <1>4, <2>1 DEF Empty
    <2>2. CASE l < j
      BY <1>4, <1>7, <2>2
    <2> QED
      BY <1>2, <1>7, <2>1, <2>2
  <1>9. Matches(m, k, Probe(m, k, l))
    BY <1>6, <1>8
  <1>10. Probe(m, k, l) = t
    <2> DEFINE s == Probe(m, k, l)
    <2>1. s \in Slots(m)
      BY <1>1, <1>3, <1>7, ProbesCover
    <2> HIDE DEF s
    <2>2. m.table[s] > 0 /\ m.vec[m.table[s]].key = k
      BY <1>9 DEF Matches, s
    <2>3. m.table[s] \in Live(m) /\ m.vec[m.table[s]].slot = s
      BY <2>1, <2>2 DEF Coherent, SlotOK, Empty, Tomb
    <2>4. m.table[s] = i
      BY <2>2, <2>3 DEF Coherent, k
    <2> QED
      BY <2>3, <2>4 DEF s, t
  <1>11. stops # {}
    BY <1>5
  <1>12. FindEntry(m, k) = IF stops = {} THEN [entry |-> -1, empty |-> -1]
                           ELSE IF Matches(m, k, Probe(m, k, l))
                           THEN [entry |-> Probe(m, k, l), empty |-> -1]
                           ELSE [entry |-> -1, empty |-> Probe(m, k, l)]
    BY DEF FindEntry
  <1> HIDE DEF stops, l
  <1> QED
    BY <1>9, <1>10, <1>11, <1>12 DEF k, t

(* For a key that is not there it finds an empty slot, behind slots that   *)
(* are all used.                                                           *)
LEMMA FindsEmpty ==
    ASSUME NEW m, Coherent(m), NEW k \in Keys, ~Has(m, k)
    PROVE  LET o == FindEntry(m, k)
           IN /\ o.entry = -1
              /\ o.empty \in Slots(m) /\ m.table[o.empty] = Empty
              /\ Reached(m, k, o.empty)
  <1> DEFINE stops == {j \in DOMAIN m.table :
                         m.table[Probe(m, k, j)] = Empty \/ Matches(m, k, Probe(m, k, j))}
             l == Least(stops)
             T == ChooseTableCapacity(m.capacity)
  <1>1. Shape(m)
    BY DEF Coherent
  <1>2. /\ DOMAIN m.table = Slots(m) /\ Slots(m) \subseteq Nat
        /\ T \in Nat /\ m.off \in Nat /\ m.off < T
        /\ Used(m) \subseteq Slots(m) /\ IsFiniteSet(Slots(m)) /\ Cardinality(Slots(m)) = T
    BY <1>1, MapSizes DEF Slots
  <1> HIDE DEF T
  <1>3. PICK s \in Slots(m) : m.table[s] = Empty
    <2>1. Used(m) # Slots(m)
      BY <1>2 DEF Coherent
    <2> QED
      BY <1>2, <2>1 DEF Used
  <1>4. PICK j \in Slots(m) : Probe(m, k, j) = s
    BY <1>1, ProbesCover
  <1>5. j \in stops
    BY <1>2, <1>3, <1>4
  <1>6. l \in stops /\ \A y \in stops : l <= y
    BY <1>2, <1>5, LeastIs
  <1>7. l \in Slots(m) /\ Probe(m, k, l) \in Slots(m)
    BY <1>1, <1>2, <1>6, ProbesCover
  <1>8. ASSUME NEW x \in Slots(m)
        PROVE  ~Matches(m, k, Probe(m, k, x))
    <2> DEFINE y == Probe(m, k, x)
    <2>1. y \in Slots(m)
      BY <1>1, ProbesCover
    <2> HIDE DEF y
    <2>2. SlotOK(m, y)
      BY <2>1 DEF Coherent
    <2>3. m.table[y] > 0 => m.table[y] \in Live(m)
      BY <2>2 DEF SlotOK, Empty, Tomb
    <2>4. ~Matches(m, k, y)
      BY <2>3 DEF Matches, Has
    <2> QED
      BY <2>4 DEF y
  <1>9. m.table[Probe(m, k, l)] = Empty
    BY <1>6, <1>7, <1>8
  <1>10. \A q \in Slots(m) : q < l => m.table[Probe(m, k, q)] # Empty
    BY <1>2, <1>6, <1>7
  <1>11. stops # {}
    BY <1>5
  <1>12. FindEntry(m, k) = IF stops = {} THEN [entry |-> -1, empty |-> -1]
                           ELSE IF Matches(m, k, Probe(m, k, l))
                           THEN [entry |-> Probe(m, k, l), empty |-> -1]
                           ELSE [entry |-> -1, empty |-> Probe(m, k, l)]
    BY DEF FindEntry
  <1> HIDE DEF stops, l
  <1>13. FindEntry(m, k) = [entry |-> -1, empty |-> Probe(m, k, l)]
    BY <1>7, <1>8, <1>11, <1>12
  <1> QED
    BY <1>7, <1>9, <1>10, <1>13 DEF Reached

(* A search still gets where it got if no used slot becomes empty.         *)
LEMMA ReachedKept ==
    ASSUME NEW m, Shape(m), NEW d, Shape(d), d.capacity = m.capacity,
           \A s \in Slots(m) : m.table[s] # Empty => d.table[s] # Empty,
           NEW k \in Keys, NEW s, Reached(m, k, s)
    PROVE  Reached(d, k, s)
  <1>1. Slots(d) = Slots(m) /\ TableCapacity(d) = TableCapacity(m)
    BY MapSizes DEF Slots
  <1>2. \A j : Probe(d, k, j) = Probe(m, k, j)
    BY <1>1 DEF Probe
  <1>3. \A j \in Slots(m) : Probe(m, k, j) \in Slots(m)
    BY ProbesCover
  <1>4. PICK j \in Slots(m) : /\ Probe(m, k, j) = s
                              /\ \A q \in Slots(m) : q < j => m.table[Probe(m, k, q)] # Empty
    BY DEF Reached
  <1>5. \A q \in Slots(m) : q < j => d.table[Probe(d, k, q)] # Empty
    BY <1>2, <1>3, <1>4
  <1> QED
    BY <1>1, <1>2, <1>4, <1>5 DEF Reached

(* A new map is coherent and empty.                                        *)
LEMMA CtorCoherent ==
    ASSUME NEW c \in Nat, c <= MaxCapacity, NEW r
    PROVE  LET m == MapCtor(c, r)
           IN /\ Coherent(m) /\ m.off = 0 /\ m.n = 0 /\ m.capacity = c /\ m.rc = r
              /\ m.iter = FALSE /\ m.lost = FALSE /\ Live(m) = {}
  <1> DEFINE m == MapCtor(c, r)
             T == ChooseTableCapacity(c)
  <1>1. T \in Nat
    BY TableIsLarger
  <1>2. /\ DOMAIN m = MapFields /\ m.vec = << >> /\ m.off = 0 /\ m.capacity = c /\ m.n = 0
        /\ m.rc = r /\ m.iter = FALSE /\ m.lost = FALSE
        /\ m.table = [s \in 0 .. T - 1 |-> Empty]
    BY DEF MapCtor, MapFields
  <1> HIDE DEF m, T
  <1>3. Slots(m) = 0 .. T - 1
    BY <1>2 DEF Slots, T
  <1>4. m.table \in [Slots(m) -> Int]
    BY <1>2, <1>3 DEF Empty
  <1>5. Shape(m)
    BY <1>2, <1>4, EmptyIsSeq DEF Shape
  <1>6. Live(m) = {} /\ Used(m) = {}
    BY <1>2, <1>3 DEF Live, Used
  <1>7. \A s \in Slots(m) : SlotOK(m, s)
    BY <1>2, <1>3 DEF SlotOK
  <1>8. Cardinality(Live(m)) = 0 /\ Cardinality(Used(m)) = 0
    BY <1>6, FS_EmptySet
  <1>9. Coherent(m)
    BY <1>2, <1>5, <1>6, <1>7, <1>8 DEF Coherent
  <1> QED
    BY <1>2, <1>6, <1>9 DEF m

(* What no operation on entries changes.                                   *)
SameFlags(m, d) == d.rc = m.rc /\ d.iter = m.iter /\ d.lost = m.lost

(* d is m with an entry at the end of the vector.                          *)
Added(m, d, k, v, s) ==
    /\ DOMAIN d = MapFields
    /\ d.vec = Append(m.vec, Entry(k, v, s))
    /\ d.table = [m.table EXCEPT ![s] = m.off + 1]
    /\ d.n = m.n + 1 /\ d.off = m.off + 1 /\ d.capacity = m.capacity
    /\ SameFlags(m, d)

(* map_add_at_table_offset field by field.                                 *)
LEMMA AddFields ==
    ASSUME NEW m, Shape(m), NEW k, NEW v, NEW s
    PROVE  Added(m, AddAtTableOffset(m, k, v, s), k, v, s)
  <1> DEFINE d == AddAtTableOffset(m, k, v, s)
             e == Entry(k, v, s)
             o == m.off
             a == SubSeq(m.vec, 1, o)
             b == SubSeq(m.vec, o + 2, Len(m.vec))
  <1>1. IsSeq(m.vec) /\ Len(m.vec) = o /\ o \in Nat
    BY DEF Shape, IsSeq
  <1>2. /\ DOMAIN d = MapFields
        /\ d.vec = Append(a, e) \o b
        /\ d.table = [m.table EXCEPT ![s] = m.off + 1]
        /\ d.n = m.n + 1 /\ d.off = m.off + 1 /\ d.capacity = m.capacity
        /\ d.rc = m.rc /\ d.iter = m.iter /\ d.lost = m.lost
    BY DEF AddAtTableOffset, MapFields, Shape
  <1> HIDE DEF d, e
  <1>3. a = m.vec
    <2>1. IsSeq(a) /\ Len(a) = o /\ \A i \in 1 .. o : a[i] = m.vec[i]
      BY <1>1, PrefixSeq
    <2> HIDE DEF a
    <2> QED
      BY <1>1, <2>1, EqualSeq
  <1>4. b = << >>
    BY <1>1, IsSeqSeq
  <1> HIDE DEF a, b
  <1>5. Append(a, e) \o b = Append(a, e)
    <2>1. IsSeq(b) /\ Len(b) = 0
      BY <1>4, EmptyIsSeq
    <2>4. IsSeq(Append(a, e))
      BY <1>1, <1>3, AppendSeq
    <2>5. Len(Append(a, e)) \in Nat
      BY <2>4 DEF IsSeq
    <2> DEFINE x == Append(a, e)
    <2> HIDE DEF x
    <2>2. /\ IsSeq(x \o b) /\ Len(x \o b) = Len(x)
          /\ \A i \in 1 .. Len(x) : (x \o b)[i] = x[i]
      <3>1. IsSeq(x) /\ Len(x) + Len(b) = Len(x)
        BY <2>1, <2>4, <2>5 DEF x
      <3> QED
        BY <2>1, <3>1, ConcatSeq
    <2>3. x \o b = x
      BY <2>2, <2>4, EqualSeq DEF x
    <2> QED
      BY <2>3 DEF x
  <1> QED
    BY <1>2, <1>3, <1>5 DEF d, e, Added, SameFlags

(* What a program sees of that.                                            *)
Grown(m, d, k) ==
    /\ \A x : Has(d, x) <=> Has(m, x) \/ x = k
    /\ Live(d) = Live(m) \cup {m.off + 1} /\ d.off = m.off + 1 /\ d.n = m.n + 1
    /\ \A i \in 1 .. m.off : d.vec[i] = m.vec[i]
    /\ d.vec[m.off + 1].key = k
    /\ d.capacity = m.capacity /\ SameFlags(m, d)

(* An entry is added where the search for its key has ended.               *)
LEMMA AddCoherent ==
    ASSUME NEW m, Coherent(m), NEW k \in Keys, NEW v \in Values, ~Has(m, k),
           m.off < m.capacity, NEW s \in Slots(m), m.table[s] = Empty, Reached(m, k, s),
           NEW d, Added(m, d, k, v, s)
    PROVE  Coherent(d) /\ Grown(m, d, k)
  <1> DEFINE o == m.off
             e == Entry(k, v, s)
  <1>1. Shape(m)
    BY DEF Coherent
  <1>2. /\ DOMAIN d = MapFields /\ d.vec = Append(m.vec, e)
        /\ d.table = [m.table EXCEPT ![s] = o + 1]
        /\ d.n = m.n + 1 /\ d.off = o + 1 /\ d.capacity = m.capacity
    BY DEF Added
  <1>3. /\ o \in Nat /\ Slots(m) \subseteq Nat /\ IsFiniteSet(Live(m)) /\ IsFiniteSet(Used(m))
        /\ Live(m) \subseteq 1 .. o
    BY <1>1, MapSizes DEF Slots
  <1>4. /\ IsSeq(d.vec) /\ Len(d.vec) = o + 1 /\ d.vec[o + 1] = e
        /\ \A i \in 1 .. o : d.vec[i] = m.vec[i]
    BY <1>1, <1>2, AppendSeq DEF Shape
  <1>5. Slots(d) = Slots(m)
    BY <1>2 DEF Slots
  <1>6. /\ d.table \in [Slots(d) -> Int]
        /\ \A x \in Slots(m) : d.table[x] = IF x = s THEN o + 1 ELSE m.table[x]
    BY <1>1, <1>2, <1>3, <1>5 DEF Shape
  <1>7. Shape(d)
    BY <1>1, <1>2, <1>3, <1>4, <1>6 DEF Shape
  <1>8. DOMAIN e = EntryFields /\ e.key = k /\ e.value = v /\ e.slot = s /\ e # Gone
    BY HbsMapAssumption DEF Entry, Gone, EntryFields
  <1> HIDE DEF e
  <1>9. Live(d) = Live(m) \cup {o + 1}
    <2>1. \A i \in 1 .. o + 1 : i \in 1 .. o \/ i = o + 1
      BY <1>3
    <2>2. \A i \in 1 .. o + 1 : d.vec[i] # Gone <=> (i \in Live(m) \/ i = o + 1)
      BY <1>3, <1>4, <1>8, <2>1 DEF Live
    <2>3. \A i : i \in Live(d) <=> (i \in 1 .. o + 1 /\ d.vec[i] # Gone)
      BY <1>2 DEF Live
    <2>4. \A i \in Live(m) : i \in 1 .. o + 1
      BY <1>3
    <2>5. o + 1 \in 1 .. o + 1
      BY <1>3
    <2> QED
      BY <2>2, <2>3, <2>4, <2>5
  <1>10. o + 1 \notin Live(m)
    BY <1>3
  <1>11. \A x \in Slots(m) : m.table[x] # Empty => d.table[x] # Empty
    BY <1>3, <1>6 DEF Empty
  <1>12. \A x \in Keys : \A y : Reached(m, x, y) => Reached(d, x, y)
    BY <1>1, <1>2, <1>7, <1>11, ReachedKept
  <1>13. \A i \in Live(d) : EntryOK(d, i)
    <2>1. ASSUME NEW i \in Live(m) PROVE EntryOK(d, i)
      <3>1. EntryOK(m, i) /\ d.vec[i] = m.vec[i]
        BY <1>3, <1>4 DEF Coherent
      <3>2. m.vec[i].slot \in Slots(m) /\ m.table[m.vec[i].slot] = i /\ i # Empty
        BY <1>3, <3>1 DEF EntryOK, Empty
      <3>3. d.table[m.vec[i].slot] = i
        BY <1>6, <3>2
      <3> QED
        BY <1>5, <1>12, <3>1, <3>2, <3>3 DEF EntryOK
    <2>2. EntryOK(d, o + 1)
      BY <1>4, <1>5, <1>6, <1>8, <1>12 DEF EntryOK
    <2> QED
      BY <1>9, <2>1, <2>2
  <1>14. \A x \in Slots(d) : SlotOK(d, x)
    <2> SUFFICES ASSUME NEW x \in Slots(m) PROVE SlotOK(d, x)
      BY <1>5
    <2>1. CASE x = s
      BY <1>4, <1>6, <1>8, <1>9, <2>1 DEF SlotOK
    <2>2. CASE x # s
      <3>1. d.table[x] = m.table[x] /\ SlotOK(m, x)
        BY <1>6, <2>2 DEF Coherent
      <3>2. m.table[x] \in Live(m) => d.vec[m.table[x]] = m.vec[m.table[x]]
        BY <1>3, <1>4
      <3> QED
        BY <1>9, <3>1, <3>2 DEF SlotOK
    <2> QED
      BY <2>1, <2>2
  <1>15. \A i \in Live(m) : d.vec[i] = m.vec[i] /\ m.vec[i].key # k
    BY <1>3, <1>4 DEF Has
  <1>16. \A i, j \in Live(d) : d.vec[i].key = d.vec[j].key => i = j
    BY <1>4, <1>8, <1>9, <1>15 DEF Coherent
  <1>17. Cardinality(Live(d)) = d.n
    <2>1. Cardinality(Live(d)) = Cardinality(Live(m)) + 1
      BY <1>3, <1>9, <1>10, FS_AddElement
    <2> QED
      BY <1>2, <2>1 DEF Coherent
  <1>18. Cardinality(Used(d)) = d.off
    <2>1. s \notin Used(m)
      BY DEF Used
    <2>2. Used(d) = Used(m) \cup {s}
      BY <1>3, <1>5, <1>6 DEF Used, Empty
    <2> QED
      BY <1>2, <1>3, <2>1, <2>2, FS_AddElement DEF Coherent
  <1>19. Coherent(d)
    BY <1>7, <1>13, <1>14, <1>16, <1>17, <1>18 DEF Coherent
  <1>20. ASSUME NEW x
         PROVE  Has(d, x) <=> Has(m, x) \/ x = k
    BY <1>4, <1>8, <1>9, <1>15 DEF Has
  <1> QED
    BY <1>2, <1>4, <1>8, <1>9, <1>19, <1>20 DEF Grown, Added

(* handlebars_map_add of a key that is not there, into a vector with room. *)
LEMMA InsertCoherent ==
    ASSUME NEW m, Coherent(m), NEW k \in Keys, NEW v \in Values, ~Has(m, k), m.off < m.capacity
    PROVE  Coherent(Insert(m, k, v)) /\ Grown(m, Insert(m, k, v), k)
  <1> DEFINE s == FindEntry(m, k).empty
  <1>1. s \in Slots(m) /\ m.table[s] = Empty /\ Reached(m, k, s)
    BY FindsEmpty
  <1>2. Insert(m, k, v) = AddAtTableOffset(m, k, v, s) /\ Shape(m)
    BY DEF Insert, Coherent
  <1> HIDE DEF s
  <1> DEFINE d == Insert(m, k, v)
  <1>3. Added(m, d, k, v, s)
    BY <1>2, AddFields
  <1> HIDE DEF d
  <1>4. Coherent(d) /\ Grown(m, d, k)
    BY <1>1, <1>3, AddCoherent
  <1> QED
    BY <1>4 DEF d

(* d is m without the entry at i, or with another value there.             *)
Cleared(m, d, i) ==
    /\ DOMAIN d = MapFields
    /\ d.vec = [m.vec EXCEPT ![i] = Gone]
    /\ d.table = [m.table EXCEPT ![m.vec[i].slot] = Tomb]
    /\ d.n = m.n - 1 /\ d.off = m.off /\ d.capacity = m.capacity
    /\ SameFlags(m, d)

Rewrote(m, d, i, v) ==
    /\ DOMAIN d = MapFields
    /\ d.vec = [m.vec EXCEPT ![i] = [m.vec[i] EXCEPT !.value = v]]
    /\ d.table = m.table
    /\ d.n = m.n /\ d.off = m.off /\ d.capacity = m.capacity
    /\ SameFlags(m, d)

(* No entry is new or moves.                                               *)
Shrunk(m, d) ==
    /\ Live(d) \subseteq Live(m) /\ \A i \in Live(d) : d.vec[i].key = m.vec[i].key
    /\ d.off = m.off /\ d.capacity = m.capacity /\ d.n <= m.n
    /\ SameFlags(m, d)

(* The entry of a key becomes a tombstone, in the vector and in the table. *)
LEMMA ClearCoherent ==
    ASSUME NEW m, Coherent(m), NEW i \in Live(m), NEW d, Cleared(m, d, i)
    PROVE  Coherent(d) /\ Shrunk(m, d)
  <1> DEFINE o == m.off
             s == m.vec[i].slot
  <1>1. Shape(m) /\ EntryOK(m, i)
    BY DEF Coherent
  <1>2. /\ DOMAIN d = MapFields /\ d.vec = [m.vec EXCEPT ![i] = Gone]
        /\ d.table = [m.table EXCEPT ![s] = Tomb]
        /\ d.n = m.n - 1 /\ d.off = o /\ d.capacity = m.capacity
    BY DEF Cleared
  <1>3. /\ o \in Nat /\ IsFiniteSet(Live(m)) /\ Live(m) \subseteq 1 .. o /\ i \in 1 .. o
        /\ s \in Slots(m) /\ m.table[s] = i
    BY <1>1, MapSizes DEF EntryOK
  <1> HIDE DEF s
  <1>4. /\ IsSeq(d.vec) /\ Len(d.vec) = o
        /\ \A j \in 1 .. o : d.vec[j] = IF j = i THEN Gone ELSE m.vec[j]
    <2>1. IsSeq(m.vec) /\ Len(m.vec) = o /\ i \in 1 .. Len(m.vec)
      BY <1>1, <1>3 DEF Shape
    <2> QED
      BY <1>2, <2>1, ReplaceSeq
  <1>5. Slots(d) = Slots(m)
    BY <1>2 DEF Slots
  <1>6. /\ d.table \in [Slots(d) -> Int]
        /\ \A x \in Slots(m) : d.table[x] = IF x = s THEN Tomb ELSE m.table[x]
    BY <1>1, <1>2, <1>3, <1>5 DEF Shape, Tomb
  <1>7. Shape(d)
    BY <1>1, <1>2, <1>3, <1>4, <1>6 DEF Shape
  <1>9. Live(d) = Live(m) \ {i}
    BY <1>2, <1>4 DEF Live
  <1>11. \A x \in Slots(m) : m.table[x] # Empty <=> d.table[x] # Empty
    BY <1>3, <1>6 DEF Empty, Tomb
  <1>12. \A x \in Keys : \A y : Reached(m, x, y) => Reached(d, x, y)
    BY <1>1, <1>2, <1>7, <1>11, ReachedKept
  <1>13. \A j \in Live(d) : EntryOK(d, j)
    <2> SUFFICES ASSUME NEW j \in Live(m), j # i PROVE EntryOK(d, j)
      BY <1>9
    <2>1. EntryOK(m, j) /\ d.vec[j] = m.vec[j]
      BY <1>3, <1>4 DEF Coherent
    <2>2. m.vec[j].slot \in Slots(m) /\ m.table[m.vec[j].slot] = j
      BY <2>1 DEF EntryOK
    <2>3. d.table[m.vec[j].slot] = j
      BY <1>3, <1>6, <2>2
    <2> QED
      BY <1>5, <1>12, <2>1, <2>2, <2>3 DEF EntryOK
  <1>14. \A x \in Slots(d) : SlotOK(d, x)
    <2> SUFFICES ASSUME NEW x \in Slots(m) PROVE SlotOK(d, x)
      BY <1>5
    <2>1. CASE x = s
      BY <1>6, <2>1 DEF SlotOK
    <2>2. CASE x # s
      <3>1. d.table[x] = m.table[x] /\ SlotOK(m, x)
        BY <1>6, <2>2 DEF Coherent
      <3>2. m.table[x] \in Live(m) /\ m.vec[m.table[x]].slot = x => m.table[x] # i
        BY <2>2 DEF s
      <3>3. m.table[x] \in Live(d) => d.vec[m.table[x]] = m.vec[m.table[x]]
        BY <1>3, <1>4, <1>9
      <3> QED
        BY <1>9, <3>1, <3>2, <3>3 DEF SlotOK
    <2> QED
      BY <2>1, <2>2
  <1>15. \A j \in Live(d) : d.vec[j] = m.vec[j]
    BY <1>3, <1>4, <1>9
  <1>16. \A j, x \in Live(d) : d.vec[j].key = d.vec[x].key => j = x
    BY <1>9, <1>15 DEF Coherent
  <1>17. Cardinality(Live(d)) = d.n
    <2>1. Cardinality(Live(d)) = Cardinality(Live(m)) - 1
      BY <1>3, <1>9, FS_RemoveElement
    <2> QED
      BY <1>2, <2>1 DEF Coherent
  <1>18. Used(d) = Used(m)
    BY <1>5, <1>11 DEF Used
  <1>19. Coherent(d)
    BY <1>2, <1>7, <1>13, <1>14, <1>16, <1>17, <1>18 DEF Coherent
  <1>20. d.n <= m.n
    <2>1. Cardinality(Live(m)) \in Nat
      BY <1>3, FS_CardinalityType
    <2> QED
      BY <1>2, <2>1 DEF Coherent
  <1> QED
    BY <1>2, <1>9, <1>15, <1>19, <1>20 DEF Shrunk, Cleared

(* The value of a key is replaced.                                         *)
LEMMA RewriteCoherent ==
    ASSUME NEW m, Coherent(m), NEW i \in Live(m), NEW v \in Values, NEW d, Rewrote(m, d, i, v)
    PROVE  Coherent(d) /\ Shrunk(m, d)
  <1> DEFINE o == m.off
             e == [m.vec[i] EXCEPT !.value = v]
  <1>1. Shape(m) /\ EntryOK(m, i)
    BY DEF Coherent
  <1>2. /\ DOMAIN d = MapFields /\ d.vec = [m.vec EXCEPT ![i] = e]
        /\ d.table = m.table
        /\ d.n = m.n /\ d.off = o /\ d.capacity = m.capacity
    BY DEF Rewrote
  <1>3. o \in Nat /\ Live(m) \subseteq 1 .. o /\ i \in 1 .. o
    BY <1>1, MapSizes
  <1>8. /\ DOMAIN e = EntryFields /\ e.key = m.vec[i].key /\ e.value = v
        /\ e.slot = m.vec[i].slot /\ e.key # NullKey
    BY <1>1, HbsMapAssumption DEF EntryOK, EntryFields
  <1> HIDE DEF e
  <1>9. e # Gone
    BY <1>8 DEF Gone, Entry
  <1>4. /\ IsSeq(d.vec) /\ Len(d.vec) = o
        /\ \A j \in 1 .. o : d.vec[j] = IF j = i THEN e ELSE m.vec[j]
    <2>1. IsSeq(m.vec) /\ Len(m.vec) = o /\ i \in 1 .. Len(m.vec)
      BY <1>1, <1>3 DEF Shape
    <2> QED
      BY <1>2, <2>1, ReplaceSeq
  <1>5. Slots(d) = Slots(m) /\ Used(d) = Used(m)
    BY <1>2 DEF Slots, Used
  <1>7. Shape(d)
    BY <1>1, <1>2, <1>3, <1>4, <1>5 DEF Shape
  <1>10. Live(d) = Live(m)
    BY <1>2, <1>3, <1>4, <1>9 DEF Live
  <1>12. \A x \in Keys : \A y : Reached(m, x, y) => Reached(d, x, y)
    BY <1>1, <1>2, <1>7, ReachedKept
  <1>11. \A j \in Live(m) : /\ d.vec[j].key = m.vec[j].key /\ d.vec[j].slot = m.vec[j].slot
                            /\ DOMAIN d.vec[j] = EntryFields /\ d.vec[j].value \in Values
    BY <1>3, <1>4, <1>8 DEF Coherent, EntryOK
  <1>13. \A j \in Live(d) : EntryOK(d, j)
    <2> SUFFICES ASSUME NEW j \in Live(m) PROVE EntryOK(d, j)
      BY <1>10
    <2>1. EntryOK(m, j)
      BY DEF Coherent
    <2> QED
      BY <1>2, <1>5, <1>11, <1>12, <2>1 DEF EntryOK
  <1>14. \A x \in Slots(d) : SlotOK(d, x)
    <2> SUFFICES ASSUME NEW x \in Slots(m) PROVE SlotOK(d, x)
      BY <1>5
    <2>1. SlotOK(m, x)
      BY DEF Coherent
    <2> QED
      BY <1>2, <1>10, <1>11, <2>1 DEF SlotOK
  <1>16. \A j, x \in Live(d) : d.vec[j].key = d.vec[x].key => j = x
    BY <1>10, <1>11 DEF Coherent
  <1>19. Coherent(d)
    BY <1>2, <1>5, <1>7, <1>10, <1>13, <1>14, <1>16 DEF Coherent
  <1>20. d.n <= m.n
    <2>1. Cardinality(Live(m)) \in Nat
      BY <1>1, MapSizes, FS_CardinalityType
    <2> QED
      BY <1>2, <2>1 DEF Coherent
  <1> QED
    BY <1>2, <1>10, <1>11, <1>19, <1>20 DEF Shrunk, Rewrote

(* A map is a change of itself.                                            *)
LEMMA ShrunkSelf ==
    ASSUME NEW m, Coherent(m)
    PROVE  Shrunk(m, m) /\ m.n \in Nat
  <1>1. IsFiniteSet(Live(m))
    BY MapSizes DEF Coherent
  <1>2. m.n \in Nat
    BY <1>1, FS_CardinalityType DEF Coherent
  <1> QED
    BY <1>2 DEF Shrunk, SameFlags

(* handlebars_map_remove.                                                  *)
LEMMA RemoveCoherent ==
    ASSUME NEW m, Coherent(m), NEW k \in Keys
    PROVE  Coherent(RemoveEntry(m, k)) /\ Shrunk(m, RemoveEntry(m, k))
  <1>1. CASE ~Has(m, k)
    <2>1. FindEntry(m, k).entry < 0
      BY <1>1, FindsEmpty
    <2>2. RemoveEntry(m, k) = m
      BY <2>1 DEF RemoveEntry
    <2> QED
      BY <2>2, ShrunkSelf
  <1>2. CASE Has(m, k)
    <2>1. PICK i \in Live(m) : m.vec[i].key = k
      BY <1>2 DEF Has
    <2> DEFINE s == m.vec[i].slot
               d == RemoveEntry(m, k)
    <2>2. FindEntry(m, k).entry = s
      <3>1. FindEntry(m, m.vec[i].key) = [entry |-> s, empty |-> -1]
        BY FindsLive
      <3> QED
        BY <2>1, <3>1
    <2>3. EntryOK(m, i) /\ DOMAIN m = MapFields
      BY DEF Coherent, Shape
    <2>4. s \in Slots(m) /\ m.table[s] = i
      BY <2>3 DEF EntryOK
    <2>5. s \in Nat /\ ~(s < 0)
      BY <2>4 DEF Slots
    <2>6. d = [m EXCEPT !.vec[m.table[s]] = Gone, !.table[s] = Tomb, !.n = @ - 1]
      BY <2>2, <2>5 DEF RemoveEntry
    <2>7. Cleared(m, d, i)
      BY <2>3, <2>4, <2>6 DEF Cleared, MapFields, SameFlags
    <2> HIDE DEF d
    <2>8. Coherent(d) /\ Shrunk(m, d)
      BY <2>7, ClearCoherent
    <2> QED
      BY <2>8 DEF d
  <1> QED
    BY <1>1, <1>2

(* handlebars_map_update.                                                  *)
LEMMA UpdateCoherent ==
    ASSUME NEW m, Coherent(m), NEW k \in Keys, NEW v \in Values, Has(m, k) \/ m.off < m.capacity
    PROVE  LET d == UpdateEntry(m, k, v)
           IN Coherent(d) /\ (Shrunk(m, d) \/ Grown(m, d, k))
  <1> DEFINE d == UpdateEntry(m, k, v)
  <1>1. CASE ~Has(m, k)
    <2> DEFINE s == FindEntry(m, k).empty
    <2>1. s \in Slots(m) /\ m.table[s] = Empty /\ Reached(m, k, s) /\ FindEntry(m, k).entry = -1
      BY <1>1, FindsEmpty
    <2>2. d = AddAtTableOffset(m, k, v, s) /\ Shape(m)
      BY <2>1 DEF UpdateEntry, Coherent
    <2> HIDE DEF s, d
    <2>3. Added(m, d, k, v, s)
      BY <2>2, AddFields
    <2>4. Coherent(d) /\ Grown(m, d, k)
      BY <1>1, <2>1, <2>3, AddCoherent
    <2> QED
      BY <2>4 DEF d
  <1>2. CASE Has(m, k)
    <2>1. PICK i \in Live(m) : m.vec[i].key = k
      BY <1>2 DEF Has
    <2> DEFINE s == m.vec[i].slot
    <2>2. FindEntry(m, k).entry = s
      <3>1. FindEntry(m, m.vec[i].key) = [entry |-> s, empty |-> -1]
        BY FindsLive
      <3> QED
        BY <2>1, <3>1
    <2>3. EntryOK(m, i) /\ DOMAIN m = MapFields
      BY DEF Coherent, Shape
    <2>4. s \in Slots(m) /\ m.table[s] = i
      BY <2>3 DEF EntryOK
    <2>5. s \in Nat /\ s >= 0
      BY <2>4 DEF Slots
    <2>6. d = [m EXCEPT !.vec[m.table[s]].value = v]
      BY <2>2, <2>5 DEF UpdateEntry
    <2>7. Rewrote(m, d, i, v)
      BY <2>3, <2>4, <2>6 DEF Rewrote, MapFields, SameFlags
    <2> HIDE DEF d
    <2>8. Coherent(d) /\ Shrunk(m, d)
      BY <2>7, RewriteCoherent
    <2> QED
      BY <2>8 DEF d
  <1> QED
    BY <1>1, <1>2

(* d is m with its entries in the order p, and a table that follows them.  *)
Permuted(m, d, p) ==
    /\ DOMAIN d = MapFields
    /\ IsSeq(d.vec) /\ Len(d.vec) = m.off
    /\ \A i \in 1 .. m.off : d.vec[i] = m.vec[p[i]]
    /\ DOMAIN d.table = Slots(m) /\ d.table = [s \in Slots(m) |-> d.table[s]]
    /\ \A s \in Slots(m) : \A i \in 1 .. m.off : d.vec[i].slot = s =>
          d.table[s] \in 1 .. m.off /\ d.vec[d.table[s]].slot = s
    /\ \A s \in Slots(m) : (\A i \in 1 .. m.off : d.vec[i].slot # s) => d.table[s] = m.table[s]
    /\ d.n = m.n /\ d.off = m.off /\ d.capacity = m.capacity
    /\ SameFlags(m, d)

(* A vector with as many entries as it has places has no tombstone.        *)
LEMMA NotSparse ==
    ASSUME NEW m, Coherent(m), m.n = m.off
    PROVE  Live(m) = 1 .. m.off
  <1>1. m.off \in Nat /\ Live(m) \subseteq 1 .. m.off
    BY MapSizes DEF Coherent
  <1>2. IsFiniteSet(1 .. m.off) /\ Cardinality(1 .. m.off) = m.off
    <2> DEFINE o == m.off
    <2> HIDE DEF o
    <2>1. o \in Nat
      BY <1>1 DEF o
    <2>2. IsFiniteSet(1 .. o) /\ Cardinality(1 .. o) = IF 1 > o THEN 0 ELSE o - 1 + 1
      BY <2>1, FS_Interval
    <2>3. IsFiniteSet(1 .. o) /\ Cardinality(1 .. o) = o
      BY <2>1, <2>2
    <2> QED
      BY <2>3 DEF o
  <1>3. Cardinality(Live(m)) = m.off
    BY DEF Coherent
  <1> QED
    BY <1>1, <1>2, <1>3, FS_Subset

(* A rearrangement of 1 .. n leaves none out.                              *)
LEMMA RearrangementCovers ==
    ASSUME NEW n \in Nat, NEW p \in [1 .. n -> 1 .. n],
           \A i, j \in 1 .. n : i # j => p[i] # p[j]
    PROVE  \A x \in 1 .. n : \E i \in 1 .. n : p[i] = x
  <1>1. p \in Injection(1 .. n, 1 .. n)
    BY DEF Injection, IsInjective
  <1>2. IsFiniteSet(1 .. n)
    BY FS_Interval
  <1>3. p \in Surjection(1 .. n, 1 .. n)
    BY <1>1, <1>2, FS_Injection
  <1> QED
    BY <1>3 DEF Surjection

(* handlebars_map_sort: the search is not disturbed.                       *)
LEMMA PermutedCoherent ==
    ASSUME NEW m, Coherent(m), m.n = m.off, NEW p \in [1 .. m.n -> 1 .. m.n],
           \A i, j \in 1 .. m.n : i # j => p[i] # p[j],
           NEW d, Permuted(m, d, p)
    PROVE  Coherent(d) /\ Live(d) = 1 .. m.off
  <1> DEFINE o == m.off
             P == 1 .. o
  <1>1. Shape(m) /\ \A i \in P : EntryOK(m, i)
    BY NotSparse DEF Coherent
  <1>2. o \in Nat /\ Live(m) = P /\ m.n = o
    BY <1>1, MapSizes, NotSparse
  <1>3. /\ \A i \in P : p[i] \in P
        /\ \A i, j \in P : p[i] = p[j] => i = j
        /\ \A x \in P : \E i \in P : p[i] = x
    <2>1. p \in [P -> P] /\ \A i, j \in P : i # j => p[i] # p[j]
      BY <1>2
    <2>2. \A x \in P : \E i \in P : p[i] = x
      BY <1>2, <2>1, RearrangementCovers
    <2> QED
      BY <2>1, <2>2
  <1>4. /\ DOMAIN d = MapFields /\ IsSeq(d.vec) /\ Len(d.vec) = o /\ d.off = o /\ d.n = o
        /\ d.capacity = m.capacity /\ \A i \in P : d.vec[i] = m.vec[p[i]]
    BY DEF Permuted
  <1>5. Slots(d) = Slots(m)
    BY <1>4 DEF Slots
  <1>6. \A i \in P : /\ d.vec[i].slot \in Slots(m) /\ m.table[d.vec[i].slot] = p[i]
                     /\ DOMAIN d.vec[i] = EntryFields
                     /\ d.vec[i].key \in Keys /\ d.vec[i].value \in Values
                     /\ Reached(m, d.vec[i].key, d.vec[i].slot)
    <2> SUFFICES ASSUME NEW i \in P
                 PROVE  /\ d.vec[i].slot \in Slots(m) /\ m.table[d.vec[i].slot] = p[i]
                        /\ DOMAIN d.vec[i] = EntryFields
                        /\ d.vec[i].key \in Keys /\ d.vec[i].value \in Values
                        /\ Reached(m, d.vec[i].key, d.vec[i].slot)
      OBVIOUS
    <2>1. p[i] \in P /\ d.vec[i] = m.vec[p[i]]
      BY <1>3, <1>4
    <2>2. EntryOK(m, p[i])
      BY <1>1, <2>1
    <2> QED
      BY <2>1, <2>2 DEF EntryOK
  <1>7. \A i, j \in P : d.vec[i].slot = d.vec[j].slot => i = j
    <2> SUFFICES ASSUME NEW i \in P, NEW j \in P, d.vec[i].slot = d.vec[j].slot PROVE i = j
      OBVIOUS
    <2>1. m.table[d.vec[i].slot] = p[i] /\ m.table[d.vec[j].slot] = p[j]
      BY <1>6
    <2> QED
      BY <1>3, <2>1
  <1>8. ASSUME NEW i \in P PROVE d.table[d.vec[i].slot] = i
    <2> DEFINE s == d.vec[i].slot
    <2>1. s \in Slots(m)
      BY <1>6
    <2>2. d.table[s] \in P /\ d.vec[d.table[s]].slot = s
      BY <2>1 DEF Permuted
    <2> QED
      BY <1>7, <2>2
  <1>9. ASSUME NEW s \in Slots(m), \A i \in P : d.vec[i].slot # s
        PROVE  d.table[s] = m.table[s] /\ m.table[s] \in {Empty, Tomb}
    <2>1. d.table[s] = m.table[s]
      BY <1>9 DEF Permuted
    <2>2. SlotOK(m, s)
      BY DEF Coherent
    <2>3. ASSUME m.table[s] \in Live(m), m.vec[m.table[s]].slot = s PROVE FALSE
      <3>1. PICK i \in P : p[i] = m.table[s]
        BY <1>2, <1>3, <2>3
      <3>2. d.vec[i].slot = s
        BY <1>4, <2>3, <3>1
      <3> QED
        BY <1>9, <3>2
    <2> QED
      BY <2>1, <2>2, <2>3 DEF SlotOK
  <1>10. \A s \in Slots(m) : d.table[s] \in Int
    BY <1>2, <1>8, <1>9 DEF Empty, Tomb
  <1>11. Shape(d)
    <2>1. d.table \in [Slots(d) -> Int]
      BY <1>5, <1>10 DEF Permuted
    <2> QED
      BY <1>1, <1>4, <2>1 DEF Shape
  <1>12. Live(d) = P
    <2>1. ASSUME NEW i \in P PROVE d.vec[i] # Gone
      <3>1. p[i] \in Live(m)
        BY <1>2, <1>3
      <3>2. m.vec[p[i]] # Gone
        BY <3>1 DEF Live
      <3> QED
        BY <1>4, <3>2
    <2> QED
      BY <1>4, <2>1 DEF Live
  <1>13. \A s \in Slots(m) : m.table[s] # Empty <=> d.table[s] # Empty
    <2> SUFFICES ASSUME NEW s \in Slots(m) PROVE m.table[s] # Empty <=> d.table[s] # Empty
      OBVIOUS
    <2>1. CASE \A i \in P : d.vec[i].slot # s
      BY <1>9, <2>1
    <2>2. CASE \E i \in P : d.vec[i].slot = s
      <3>1. PICK i \in P : d.vec[i].slot = s
        BY <2>2
      <3>2. d.table[s] = i /\ m.table[s] = p[i] /\ i # 0 /\ p[i] # 0
        <4>1. d.table[s] = i /\ m.table[s] = p[i]
          BY <1>6, <1>8, <3>1
        <4>2. i \in P /\ p[i] \in P
          BY <1>3
        <4> QED
          BY <1>2, <4>1, <4>2
      <3> QED
        BY <3>2 DEF Empty
    <2> QED
      BY <2>1, <2>2
  <1>14. \A x \in Keys : \A y : Reached(m, x, y) => Reached(d, x, y)
    BY <1>1, <1>4, <1>11, <1>13, ReachedKept
  <1>15. \A i \in Live(d) : EntryOK(d, i)
    BY <1>5, <1>6, <1>8, <1>12, <1>14 DEF EntryOK
  <1>16. \A s \in Slots(d) : SlotOK(d, s)
    <2> SUFFICES ASSUME NEW s \in Slots(m) PROVE SlotOK(d, s)
      BY <1>5
    <2>1. CASE \A i \in P : d.vec[i].slot # s
      BY <1>9, <2>1 DEF SlotOK
    <2>2. CASE \E i \in P : d.vec[i].slot = s
      BY <1>8, <1>12, <2>2 DEF SlotOK
    <2> QED
      BY <2>1, <2>2
  <1>17. \A i, j \in Live(d) : d.vec[i].key = d.vec[j].key => i = j
    <2> SUFFICES ASSUME NEW i \in P, NEW j \in P, d.vec[i].key = d.vec[j].key PROVE i = j
      BY <1>12
    <2>1. p[i] \in Live(m) /\ p[j] \in Live(m) /\ m.vec[p[i]].key = m.vec[p[j]].key
      BY <1>2, <1>3, <1>4
    <2>2. p[i] = p[j]
      BY <2>1 DEF Coherent
    <2> QED
      BY <1>3, <2>2
  <1>18. Used(d) = Used(m)
    BY <1>5, <1>13 DEF Used
  <1>19. Coherent(d)
    BY <1>2, <1>4, <1>11, <1>12, <1>15, <1>16, <1>17, <1>18 DEF Coherent
  <1> QED
    BY <1>12, <1>19

(* sort_r and map_rebuild_references field by field.                       *)
LEMMA SortedFields ==
    ASSUME NEW m, Shape(m), m.n = m.off, NEW p \in [1 .. m.n -> 1 .. m.n]
    PROVE  Permuted(m, Sorted(m, p), p)
  <1> DEFINE o == m.off
             P == 1 .. o
             a == [i \in 1 .. m.n |-> m.vec[p[i]]]
             b == SubSeq(m.vec, m.n + 1, Len(m.vec))
             vec == a \o b
             table == [s \in DOMAIN m.table |->
                         IF \E i \in 1 .. m.off : vec[i].slot = s
                         THEN CHOOSE i \in 1 .. m.off : vec[i].slot = s ELSE m.table[s]]
             d == Sorted(m, p)
  <1>1. IsSeq(m.vec) /\ Len(m.vec) = o /\ o \in Nat /\ DOMAIN m = MapFields
        /\ DOMAIN m.table = Slots(m)
    BY MapSizes DEF Shape
  <1>2. /\ DOMAIN d = MapFields /\ d.vec = vec /\ d.table = table
        /\ d.n = m.n /\ d.off = m.off /\ d.capacity = m.capacity
        /\ SameFlags(m, d)
    BY <1>1 DEF Sorted, MapFields, SameFlags
  <1>3. b = << >>
    BY <1>1, IsSeqSeq
  <1>4. IsSeq(a) /\ Len(a) = o /\ \A i \in P : a[i] = m.vec[p[i]]
    <2>1. a \in [1 .. o -> {m.vec[p[i]] : i \in 1 .. o}]
      OBVIOUS
    <2>2. a \in Seq({m.vec[p[i]] : i \in 1 .. o}) /\ Len(a) = o
      BY <1>1, <2>1
    <2> QED
      BY <2>2, SeqIsSeq
  <1> HIDE DEF a, b
  <1>5. IsSeq(vec) /\ Len(vec) = o /\ \A i \in P : vec[i] = m.vec[p[i]]
    <2>1. IsSeq(b) /\ Len(b) = 0 /\ Len(a) + Len(b) = o
      BY <1>1, <1>3, <1>4, EmptyIsSeq
    <2> QED
      BY <1>1, <1>4, <2>1, ConcatSeq
  <1> HIDE DEF vec
  <1>6. DOMAIN table = Slots(m) /\ table = [s \in Slots(m) |-> table[s]]
    BY <1>1
  <1>7. ASSUME NEW s \in Slots(m), NEW i \in P, vec[i].slot = s
        PROVE  table[s] \in P /\ vec[table[s]].slot = s
    <2>1. table[s] = CHOOSE j \in P : vec[j].slot = s
      BY <1>1, <1>7
    <2> QED
      BY <1>7, <2>1
  <1>8. ASSUME NEW s \in Slots(m), \A i \in P : vec[i].slot # s
        PROVE  table[s] = m.table[s]
    BY <1>1, <1>8
  <1> HIDE DEF table, d
  <1>9. Permuted(m, d, p)
    BY <1>2, <1>5, <1>6, <1>7, <1>8 DEF Permuted
  <1> QED
    BY <1>9 DEF d

(* handlebars_map_sort on a map without tombstones.                        *)
LEMMA SortCoherent ==
    ASSUME NEW m, Coherent(m), m.n = m.off, NEW p \in [1 .. m.n -> 1 .. m.n],
           \A i, j \in 1 .. m.n : i # j => p[i] # p[j]
    PROVE  LET d == Sorted(m, p)
           IN Coherent(d) /\ d.n = m.n /\ d.off = m.off /\ d.capacity = m.capacity
              /\ SameFlags(m, d)
  <1> DEFINE d == Sorted(m, p)
  <1>1. Permuted(m, d, p)
    BY SortedFields DEF Coherent
  <1> HIDE DEF d
  <1>2. Coherent(d)
    BY <1>1, PermutedCoherent
  <1>3. d.n = m.n /\ d.off = m.off /\ d.capacity = m.capacity /\ SameFlags(m, d)
    BY <1>1 DEF Permuted
  <1> QED
    BY <1>2, <1>3 DEF d

(* The copy.  x has the first i entries of m, in capacity c.               *)
LiveTo(m, i) == {j \in Live(m) : j <= i}

Copying(m, x, i, c, r) ==
    /\ Coherent(x)
    /\ x.off = Cardinality(LiveTo(m, i)) /\ x.n = x.off
    /\ x.capacity = c /\ x.rc = r /\ x.iter = FALSE /\ x.lost = FALSE
    /\ \A y : Has(x, y) <=> \E j \in LiveTo(m, i) : m.vec[j].key = y

CopyNext(m, x, i) ==
    IF m.vec[i] = Gone THEN x ELSE Insert(x, m.vec[i].key, m.vec[i].value)

(* One turn of the loop of handlebars_map_copy_ctor.                       *)
LEMMA CopyTurn ==
    ASSUME NEW m, Coherent(m), NEW c \in Nat, m.capacity <= c, NEW r, NEW i \in Nat, i < m.off,
           NEW x, Copying(m, x, i, c, r)
    PROVE  Copying(m, CopyNext(m, x, i + 1), i + 1, c, r)
  <1>1. /\ Shape(m) /\ m.off \in Nat /\ m.off <= m.capacity /\ m.capacity \in Nat
        /\ Live(m) \subseteq 1 .. m.off
    BY MapSizes DEF Coherent, Shape
  <1>2. IsFiniteSet(LiveTo(m, i)) /\ Cardinality(LiveTo(m, i)) <= i /\ Cardinality(LiveTo(m, i)) \in Nat
    <2>1. IsFiniteSet(1 .. i) /\ Cardinality(1 .. i) = IF 1 > i THEN 0 ELSE i - 1 + 1
      BY FS_Interval
    <2>2. LiveTo(m, i) \subseteq 1 .. i
      BY <1>1 DEF LiveTo
    <2>3. IsFiniteSet(LiveTo(m, i)) /\ Cardinality(LiveTo(m, i)) <= Cardinality(1 .. i)
      BY <2>1, <2>2, FS_Subset
    <2>4. Cardinality(1 .. i) = i
      BY <2>1
    <2> QED
      BY <2>3, <2>4, FS_CardinalityType
  <1>3. CASE m.vec[i + 1] = Gone
    <2>1. i + 1 \notin Live(m)
      BY <1>3 DEF Live
    <2>2. LiveTo(m, i + 1) = LiveTo(m, i)
      BY <1>1, <2>1 DEF LiveTo
    <2>3. CopyNext(m, x, i + 1) = x
      BY <1>3 DEF CopyNext
    <2> QED
      BY <2>2, <2>3 DEF Copying
  <1>4. CASE m.vec[i + 1] # Gone
    <2> DEFINE k == m.vec[i + 1].key
               v == m.vec[i + 1].value
               d == Insert(x, k, v)
    <2>1. i + 1 \in Live(m)
      BY <1>1, <1>4 DEF Live
    <2>2. k \in Keys /\ v \in Values
      BY <2>1 DEF Coherent, EntryOK
    <2>3. LiveTo(m, i + 1) = LiveTo(m, i) \cup {i + 1} /\ i + 1 \notin LiveTo(m, i)
      BY <1>1, <2>1 DEF LiveTo
    <2>4. \A j \in LiveTo(m, i) : m.vec[j].key # k
      BY <1>1, <2>1 DEF LiveTo, Coherent
    <2>5. Coherent(x) /\ ~Has(x, k) /\ x.off < x.capacity
      BY <1>1, <1>2, <2>4 DEF Copying
    <2> HIDE DEF k, v
    <2>6. Coherent(d) /\ Grown(x, d, k)
      BY <2>2, <2>5, InsertCoherent
    <2>7. d = CopyNext(m, x, i + 1)
      BY <1>4 DEF CopyNext, k, v
    <2> HIDE DEF d
    <2>8. Cardinality(LiveTo(m, i + 1)) = Cardinality(LiveTo(m, i)) + 1
      BY <1>2, <2>3, FS_AddElement
    <2>9. /\ d.off = x.off + 1 /\ d.n = x.n + 1 /\ d.capacity = x.capacity /\ d.rc = x.rc
          /\ d.iter = x.iter /\ d.lost = x.lost
      BY <2>6 DEF Grown, SameFlags
    <2>10. ASSUME NEW y
           PROVE  Has(d, y) <=> \E j \in LiveTo(m, i + 1) : m.vec[j].key = y
      <3>1. Has(d, y) <=> Has(x, y) \/ y = k
        BY <2>6 DEF Grown
      <3>2. Has(x, y) <=> \E j \in LiveTo(m, i) : m.vec[j].key = y
        BY DEF Copying
      <3> QED
        BY <2>3, <3>1, <3>2 DEF k
    <2>11. Copying(m, d, i + 1, c, r)
      BY <2>6, <2>8, <2>9, <2>10 DEF Copying
    <2> QED
      BY <2>7, <2>11
  <1> QED
    BY <1>3, <1>4

(* The function that the copy is defined by, up to place n.                *)
IsCopied(f, m, x, n) ==
    /\ f = [i \in 0 .. n |-> f[i]]
    /\ f[0] = x
    /\ \A i \in 0 .. n - 1 : f[i + 1] = CopyNext(m, f[i], i + 1)

(* There is such a function: the recursion is well founded.                *)
LEMMA CopiedExists ==
    ASSUME NEW m, NEW x, NEW n \in Nat
    PROVE  \E f : IsCopied(f, m, x, n)
  <1> DEFINE S == {k \in Nat : \E f : IsCopied(f, m, x, k)}
  <1>1. 0 \in S
    <2> DEFINE f == [i \in 0 .. 0 |-> x]
    <2>1. IsCopied(f, m, x, 0)
      BY DEF IsCopied
    <2> QED
      BY <2>1
  <1>2. ASSUME NEW k \in Nat, k \in S PROVE k + 1 \in S
    <2>1. PICK f : IsCopied(f, m, x, k)
      BY <1>2
    <2> DEFINE y == CopyNext(m, f[k], k + 1)
               g == [i \in 0 .. k + 1 |-> IF i = k + 1 THEN y ELSE f[i]]
    <2>2. g = [i \in 0 .. k + 1 |-> g[i]]
      OBVIOUS
    <2>3. \A i \in 0 .. k : g[i] = f[i]
      OBVIOUS
    <2>4. g[k + 1] = y
      OBVIOUS
    <2>5. 0 \in 0 .. k
      OBVIOUS
    <2>6. f[0] = x /\ \A i \in 0 .. k - 1 : f[i + 1] = CopyNext(m, f[i], i + 1)
      BY <2>1 DEF IsCopied
    <2> HIDE DEF g
    <2>7. ASSUME NEW i \in 0 .. k PROVE g[i + 1] = CopyNext(m, g[i], i + 1)
      <3>1. CASE i = k
        BY <2>3, <2>4, <3>1
      <3>2. CASE i # k
        <4>1. i \in 0 .. k - 1 /\ i + 1 \in 0 .. k
          BY <3>2
        <4> QED
          BY <2>3, <2>6, <4>1
      <3> QED
        BY <3>1, <3>2
    <2>8. \A i \in 0 .. (k + 1) - 1 : g[i + 1] = CopyNext(m, g[i], i + 1)
      BY <2>7
    <2>9. IsCopied(g, m, x, k + 1)
      BY <2>2, <2>3, <2>5, <2>6, <2>8 DEF IsCopied
    <2> QED
      BY <2>9
  <1> HIDE DEF S
  <1>3. n \in S
    BY <1>1, <1>2, NatInduct
  <1> QED
    BY <1>3 DEF S

(* handlebars_map_copy_ctor returns its last value.                        *)
LEMMA CopyIsCopied ==
    ASSUME NEW m, m.off \in Nat, NEW c, NEW r
    PROVE  \E f : /\ IsCopied(f, m, MapCtor(IF c < m.capacity THEN m.capacity ELSE c, r), m.off)
                  /\ CopyCtor(m, c, r) = f[m.off]
  <1> DEFINE x == MapCtor(IF c < m.capacity THEN m.capacity ELSE c, r)
             R(f) == [i \in 0 .. m.off |->
                        IF i = 0 THEN x
                        ELSE IF m.vec[i] = Gone THEN f[i - 1]
                        ELSE Insert(f[i - 1], m.vec[i].key, m.vec[i].value)]
             F == CHOOSE f : f = R(f)
  <1>1. CopyCtor(m, c, r) = F[m.off]
    BY DEF CopyCtor
  <1> HIDE DEF x
  <1>2. \E f : f = R(f)
    <2>1. PICK f : IsCopied(f, m, x, m.off)
      BY CopiedExists
    <2>2. ASSUME NEW i \in 0 .. m.off
          PROVE  f[i] = R(f)[i]
      <3>1. CASE i = 0
        BY <2>1, <3>1 DEF IsCopied
      <3>2. CASE i # 0
        <4>1. i - 1 \in 0 .. m.off - 1 /\ (i - 1) + 1 = i
          BY <3>2
        <4>2. f[i] = CopyNext(m, f[i - 1], i)
          BY <2>1, <4>1 DEF IsCopied
        <4> QED
          BY <3>2, <4>2 DEF CopyNext
      <3> QED
        BY <3>1, <3>2
    <2>3. f = [i \in 0 .. m.off |-> f[i]]
      BY <2>1 DEF IsCopied
    <2>4. R(f) = [i \in 0 .. m.off |-> R(f)[i]]
      OBVIOUS
    <2>5. f = R(f)
      <3> HIDE DEF R
      <3> QED
        BY <2>2, <2>3, <2>4
    <2> QED
      BY <2>5
  <1>3. F = R(F)
    BY <1>2
  <1> HIDE DEF F
  <1>4. F = [i \in 0 .. m.off |-> F[i]]
    BY <1>3
  <1>5. F[0] = x
    <2>1. 0 \in 0 .. m.off
      OBVIOUS
    <2> QED
      BY <1>3, <2>1
  <1>6. ASSUME NEW i \in 0 .. m.off - 1
        PROVE  F[i + 1] = CopyNext(m, F[i], i + 1)
    <2>1. i + 1 \in 0 .. m.off /\ i + 1 # 0 /\ (i + 1) - 1 = i
      OBVIOUS
    <2>2. R(F)[i + 1] = IF m.vec[i + 1] = Gone THEN F[i]
                        ELSE Insert(F[i], m.vec[i + 1].key, m.vec[i + 1].value)
      BY <2>1
    <2> QED
      BY <1>3, <2>2 DEF CopyNext
  <1>7. IsCopied(F, m, x, m.off)
    BY <1>4, <1>5, <1>6 DEF IsCopied
  <1> QED
    BY <1>1, <1>7 DEF x

(* The copy has the entries of the map and no tombstones.                  *)
CopyOf(m, d, c, r) ==
    /\ Coherent(d) /\ d.n = m.n /\ d.off = m.n
    /\ d.capacity >= c /\ d.capacity \in Nat
    /\ d.rc = r /\ d.iter = FALSE /\ d.lost = FALSE
    /\ \A y : Has(d, y) <=> Has(m, y)

(* handlebars_map_copy_ctor makes one, of any map that is coherent.        *)
LEMMA CopyCoherent ==
    ASSUME NEW m, Coherent(m), NEW c \in Nat, c <= MaxCapacity, NEW r
    PROVE  CopyOf(m, CopyCtor(m, c, r), c, r)
  <1> DEFINE cap == IF c < m.capacity THEN m.capacity ELSE c
             x == MapCtor(cap, r)
             o == m.off
             d == CopyCtor(m, c, r)
  <1>1. /\ m.capacity \in Nat /\ m.capacity <= MaxCapacity /\ o \in Nat
        /\ Live(m) \subseteq 1 .. o
    BY MapSizes DEF Coherent, Shape
  <1>2. cap \in Nat /\ cap <= MaxCapacity /\ m.capacity <= cap /\ c <= cap
    BY <1>1
  <1>3. PICK f : IsCopied(f, m, x, o) /\ d = f[o]
    BY <1>1, CopyIsCopied
  <1> HIDE DEF cap, d
  <1>4. Copying(m, x, 0, cap, r)
    <2>1. /\ Coherent(x) /\ x.off = 0 /\ x.n = 0 /\ x.capacity = cap /\ x.rc = r
          /\ x.iter = FALSE /\ x.lost = FALSE /\ Live(x) = {}
      BY <1>2, CtorCoherent
    <2>2. x.iter = FALSE /\ x.lost = FALSE
      BY DEF MapCtor
    <2>3. LiveTo(m, 0) = {}
      BY <1>1 DEF LiveTo
    <2>4. Cardinality(LiveTo(m, 0)) = 0
      BY <2>3, FS_EmptySet
    <2> HIDE DEF x
    <2> QED
      BY <2>1, <2>2, <2>3, <2>4 DEF Copying, Has
  <1> HIDE DEF x
  <1> DEFINE S == {i \in Nat : i <= o => Copying(m, f[i], i, cap, r)}
  <1>5. 0 \in S
    BY <1>3, <1>4 DEF IsCopied
  <1>6. ASSUME NEW i \in Nat, i \in S PROVE i + 1 \in S
    <2> SUFFICES ASSUME i + 1 <= o PROVE Copying(m, f[i + 1], i + 1, cap, r)
      OBVIOUS
    <2>1. i < o /\ i \in 0 .. o - 1 /\ i <= o
      BY <1>1
    <2> HIDE DEF o
    <2>2. Copying(m, f[i], i, cap, r)
      BY <1>6, <2>1
    <2>3. f[i + 1] = CopyNext(m, f[i], i + 1)
      BY <1>3, <2>1 DEF IsCopied
    <2> QED
      BY <1>2, <2>1, <2>2, <2>3, CopyTurn DEF o
  <1> HIDE DEF S
  <1>7. o \in S
    BY <1>1, <1>5, <1>6, NatInduct
  <1>8. Copying(m, d, o, cap, r)
    BY <1>1, <1>3, <1>7 DEF S
  <1>9. LiveTo(m, o) = Live(m)
    BY <1>1 DEF LiveTo
  <1>10. d.off = m.n /\ d.n = m.n
    BY <1>8, <1>9 DEF Copying, Coherent
  <1>11. \A y : Has(d, y) <=> Has(m, y)
    BY <1>8, <1>9 DEF Copying, Has
  <1>12. Coherent(d) /\ d.capacity = cap /\ d.rc = r /\ d.iter = FALSE /\ d.lost = FALSE
    BY <1>8 DEF Copying
  <1> QED
    BY <1>2, <1>10, <1>11, <1>12 DEF d, CopyOf

-----------------------------------------------------------------------------
(* The maps of a program *)

FrameFields == {"holder", "foreach", "index", "old", "seen"}

Users(a) == {h \in Holders : ref[h] = a}

(* A map is locked already when loop i begins.                             *)
Before(i, a) == a \in stuck \/ \E j \in 1 .. i - 1 : ref[loops[j].holder] = a

(* Who holds which map: the count of a map is the number of its holders.   *)
Owned ==
    /\ ref \in [Holders -> Int]
    /\ heap = [a \in DOMAIN heap |-> heap[a]]
    /\ DOMAIN heap \subseteq 1 .. Cardinality(Holders) + 1
    /\ \A h \in Holders : HasMap(h) => ref[h] \in DOMAIN heap
    /\ \A a \in DOMAIN heap : Users(a) # {} /\ heap[a].rc = Cardinality(Users(a))

(* A map is whole unless it has been broken, and no larger than the number *)
(* of changes so far.                                                      *)
MapOK(m, c) ==
    /\ DOMAIN m = MapFields /\ m.iter \in BOOLEAN /\ m.lost \in BOOLEAN
    /\ ~m.lost => Coherent(m) /\ m.n <= c

MapsInv ==
    /\ changes \in Nat /\ changes <= MaxChanges
    /\ \A a \in DOMAIN heap : MapOK(heap[a], changes)

(* A loop has seen the entries that lie before its place.                  *)
SeenTo(m, f) == \A x \in Live(m) : x <= f.index => m.vec[x].key \in f.seen

(* The map of a loop is whole, or it was broken by the loop's own          *)
(* beginning; what a foreach restores at its end is what it has met.       *)
FrameOK(i) ==
    LET f == loops[i]
        m == heap[ref[f.holder]]
    IN  /\ DOMAIN f = FrameFields
        /\ f.holder \in Holders /\ HasMap(f.holder)
        /\ f.index \in Nat /\ f.foreach \in BOOLEAN /\ f.old \in BOOLEAN
        /\ f.old <=> Before(i, ref[f.holder])
        /\ f.foreach \/ ~f.old
        /\ f.foreach => ~m.lost
        /\ ~m.lost => SeenTo(m, f) /\ (f.foreach \/ m.n = m.off)

LoopsInv == IsSeq(loops) /\ \A i \in 1 .. Len(loops) : FrameOK(i)

LockInv ==
    /\ stuck \subseteq DOMAIN heap
    /\ \A a \in DOMAIN heap : heap[a].iter <=> Before(Len(loops) + 1, a)

(* The inductive invariant.                                                *)
MapInv == Owned /\ MapsInv /\ LoopsInv /\ LockInv

(* What of a map the flags and the count do not concern.                   *)
Alike(m, d) ==
    /\ DOMAIN d = MapFields
    /\ d.vec = m.vec /\ d.table = m.table
    /\ d.off = m.off /\ d.n = m.n /\ d.capacity = m.capacity

(* Flags and reference counts do not matter to a map's coherence.          *)
LEMMA AlikeCoherent ==
    ASSUME NEW m, Coherent(m), NEW d, Alike(m, d)
    PROVE  Coherent(d) /\ Live(d) = Live(m)
  <1>1. Slots(d) = Slots(m) /\ Live(d) = Live(m) /\ Used(d) = Used(m)
    BY DEF Alike, Slots, Live, Used
  <1>2. \A k, j : Probe(d, k, j) = Probe(m, k, j)
    BY DEF Alike, Probe, TableCapacity
  <1>3. ASSUME NEW i \in Live(d) PROVE EntryOK(d, i)
    <2>1. EntryOK(m, i)
      BY <1>1, <1>3 DEF Coherent
    <2>2. Reached(m, m.vec[i].key, m.vec[i].slot)
      BY <2>1 DEF EntryOK
    <2>3. Reached(d, m.vec[i].key, m.vec[i].slot)
      BY <1>1, <1>2, <2>2 DEF Reached, Alike
    <2> QED
      BY <1>1, <2>1, <2>3 DEF EntryOK, Alike
  <1>4. ASSUME NEW s \in Slots(d) PROVE SlotOK(d, s)
    BY <1>1, <1>4 DEF Coherent, SlotOK, Alike
  <1>5. Shape(d)
    BY <1>1 DEF Coherent, Shape, Alike
  <1>6. \A i, j \in Live(d) : d.vec[i].key = d.vec[j].key => i = j
    BY <1>1 DEF Coherent, Alike
  <1>7. Cardinality(Used(d)) = d.off /\ Cardinality(Live(d)) = d.n
    BY <1>1 DEF Coherent, Alike
  <1> QED
    BY <1>1, <1>3, <1>4, <1>5, <1>6, <1>7 DEF Coherent

(* There is always an address left for one more map.                       *)
LEMMA RoomForOne ==
    ASSUME Owned
    PROVE  Least(Free) \in Free /\ Least(Free) \in Nat \ {0}
  <1> DEFINE n == Cardinality(Holders)
             A == 1 .. n + 1
  <1>1. n \in Nat /\ IsFiniteSet(Holders)
    BY HbsMapAssumption, FS_CardinalityType
  <1>2. IsFiniteSet(A) /\ Cardinality(A) > n
    <2> HIDE DEF n
    <2> DEFINE b == n + 1
    <2>1. b \in Int /\ ~(1 > b) /\ b - 1 + 1 > n
      BY <1>1
    <2> HIDE DEF b
    <2>2. IsFiniteSet(1 .. b) /\ Cardinality(1 .. b) = IF 1 > b THEN 0 ELSE b - 1 + 1
      BY <2>1, FS_Interval
    <2>3. IsFiniteSet(1 .. b) /\ Cardinality(1 .. b) > n
      BY <2>1, <2>2
    <2> QED
      BY <2>3 DEF b
  <1>3. Free # {}
    <2> SUFFICES ASSUME Free = {} PROVE FALSE
      OBVIOUS
    <2>1. \A a \in A : a \in DOMAIN heap
      BY DEF Free
    <2>2. \A a \in A : \E h \in Holders : ref[h] = a
      BY <2>1 DEF Owned, Users
    <2> DEFINE f == [a \in A |-> CHOOSE h \in Holders : ref[h] = a]
    <2>3. f \in [A -> Holders] /\ \A a \in A : ref[f[a]] = a
      BY <2>2
    <2> HIDE DEF f, A
    <2>4. \E x, y \in A : x # y /\ f[x] = f[y]
      <3>1. Cardinality(Holders) < Cardinality(A)
        <4>1. Cardinality(A) \in Nat
          BY <1>2, FS_CardinalityType
        <4> QED
          BY <1>1, <1>2, <4>1
      <3> QED
        BY <1>1, <1>2, <2>3, <3>1, FS_PigeonHole
    <2> QED
      BY <2>3, <2>4
  <1>4. \A a \in Free : a \in Nat \ {0}
    BY <1>1 DEF Free
  <1>5. Free \subseteq Nat
    BY <1>4
  <1>6. Least(Free) \in Free
    BY <1>3, <1>5, LeastIs
  <1> QED
    BY <1>4, <1>6

(* Nothing but the reference count of a map differs.                       *)
Recounted(m, d) == Alike(m, d) /\ d.iter = m.iter /\ d.lost = m.lost

(* handlebars_map_delref: the map stays for its other holders, or it goes  *)
(* with its last one.                                                      *)
LEMMA DelrefIs ==
    ASSUME Owned, MapsInv, NEW h \in Holders, ref[h] # Dangling
    PROVE  LET D == Delref(heap, ref[h])
           IN  /\ D = [x \in DOMAIN D |-> D[x]]
               /\ DOMAIN D \subseteq DOMAIN heap
               /\ \A x \in DOMAIN heap : x \in DOMAIN D <=> Users(x) \ {h} # {}
               /\ \A x \in DOMAIN D : /\ Recounted(heap[x], D[x])
                                      /\ D[x].rc = Cardinality(Users(x) \ {h})
  <1> DEFINE a == ref[h]
             D == Delref(heap, a)
  <1>1. \A x : IsFiniteSet(Users(x)) /\ Cardinality(Users(x)) \in Nat
    <2>1. \A x : Users(x) \in SUBSET Holders
      BY DEF Users
    <2>2. \A x : IsFiniteSet(Users(x))
      BY <2>1, HbsMapAssumption, FS_Subset
    <2> QED
      BY <2>2, FS_CardinalityType
  <1>2. \A x \in DOMAIN heap : /\ heap[x].rc = Cardinality(Users(x)) /\ Users(x) # {}
                               /\ DOMAIN heap[x] = MapFields
    BY DEF Owned, MapsInv, MapOK
  <1>3. \A x \in DOMAIN heap : Recounted(heap[x], heap[x])
    BY <1>2 DEF Recounted, Alike
  <1>4. \A x : x # a => Users(x) \ {h} = Users(x)
    BY DEF Users
  <1>5. CASE a = None
    <2>1. D = heap
      BY <1>5 DEF Delref
    <2>2. \A x \in DOMAIN heap : x # a
      <3>1. \A x \in DOMAIN heap : x \in 1 .. Cardinality(Holders) + 1
        BY DEF Owned
      <3>2. \A x \in 1 .. Cardinality(Holders) + 1 : x # None
        BY HbsMapAssumption, FS_CardinalityType DEF None
      <3> QED
        BY <1>5, <3>1, <3>2
    <2>3. heap = [x \in DOMAIN heap |-> heap[x]]
      BY DEF Owned
    <2> QED
      BY <1>2, <1>3, <1>4, <2>1, <2>2, <2>3
  <1>6. CASE a # None /\ heap[a].rc <= 1
    <2>1. a \in DOMAIN heap
      BY <1>6 DEF Owned, HasMap
    <2>2. D = [x \in DOMAIN heap \ {a} |-> heap[x]]
      BY <1>6 DEF Delref
    <2>3. Users(a) = {h}
      <3>1. h \in Users(a)
        BY DEF Users
      <3>2. Cardinality(Users(a) \ {h}) = Cardinality(Users(a)) - 1
        BY <1>1, <3>1, FS_RemoveElement
      <3>3. IsFiniteSet(Users(a) \ {h}) /\ Cardinality(Users(a) \ {h}) \in Nat
        BY <1>1, FS_RemoveElement, FS_CardinalityType
      <3>4. Cardinality(Users(a) \ {h}) = 0
        BY <1>1, <1>2, <1>6, <2>1, <3>2, <3>3
      <3>5. Users(a) \ {h} = {}
        BY <3>3, <3>4, FS_EmptySet
      <3> QED
        BY <3>1, <3>5
    <2>4. DOMAIN D = DOMAIN heap \ {a}
      BY <2>2
    <2>5. \A x \in DOMAIN D : D[x] = heap[x] /\ x # a
      BY <2>2
    <2>6. D = [x \in DOMAIN D |-> D[x]]
      BY <2>2
    <2> HIDE DEF D, a
    <2> QED
      BY <1>2, <1>3, <1>4, <2>3, <2>4, <2>5, <2>6 DEF D, a
  <1>7. CASE a # None /\ ~(heap[a].rc <= 1)
    <2>1. a \in DOMAIN heap
      BY <1>7 DEF Owned, HasMap
    <2>2. D = [heap EXCEPT ![a].rc = @ - 1]
      BY <1>7 DEF Delref
    <2>3. /\ DOMAIN D = DOMAIN heap /\ D = [x \in DOMAIN D |-> D[x]]
          /\ \A x \in DOMAIN heap : x # a => D[x] = heap[x]
          /\ D[a] = [heap[a] EXCEPT !.rc = @ - 1]
      <3> DEFINE e == [heap[a] EXCEPT !.rc = @ - 1]
      <3>1. D = [heap EXCEPT ![a] = e]
        BY <2>2
      <3>2. heap = [x \in DOMAIN heap |-> heap[x]]
        BY DEF Owned
      <3> HIDE DEF D, a, e
      <3>3. D = [x \in DOMAIN heap |-> IF x = a THEN e ELSE heap[x]]
        BY <3>1, <3>2
      <3>4. D[a] = e
        BY <2>1, <3>3
      <3> QED
        BY <3>3, <3>4 DEF e
    <2>4. Recounted(heap[a], D[a]) /\ D[a].rc = heap[a].rc - 1
      BY <1>2, <2>1, <2>3 DEF Recounted, Alike, MapFields
    <2>5. h \in Users(a)
      BY DEF Users
    <2>6. Cardinality(Users(a) \ {h}) = Cardinality(Users(a)) - 1 /\ IsFiniteSet(Users(a) \ {h})
      BY <1>1, <2>5, FS_RemoveElement
    <2>7. Users(a) \ {h} # {}
      BY <1>1, <1>2, <1>7, <2>1, <2>6, FS_EmptySet
    <2> HIDE DEF D, a
    <2> QED
      <3>1. \A x \in DOMAIN heap : x \in DOMAIN D <=> Users(x) \ {h} # {}
        BY <1>2, <1>4, <2>3, <2>7
      <3>2. \A x \in DOMAIN D : Recounted(heap[x], D[x])
        BY <1>3, <2>3, <2>4
      <3>3. \A x \in DOMAIN D : D[x].rc = Cardinality(Users(x) \ {h})
        BY <1>2, <1>4, <2>1, <2>3, <2>4, <2>6
      <3> QED
        BY <2>3, <3>1, <3>2, <3>3 DEF D, a
  <1> QED
    BY <1>5, <1>6, <1>7

(* The count of holders when h goes over to b.                             *)
LEMMA UsersMove ==
    ASSUME Owned, NEW h \in Holders, NEW b, ref' = [ref EXCEPT ![h] = b]
    PROVE  /\ Users(b)' = (Users(b) \ {h}) \cup {h}
           /\ \A x : x # b => Users(x)' = Users(x) \ {h}
           /\ Cardinality(Users(b)') = Cardinality(Users(b) \ {h}) + 1
  <1>1. \A g \in Holders : ref'[g] = IF g = h THEN b ELSE ref[g]
    BY DEF Owned
  <1>2. Users(b)' = (Users(b) \ {h}) \cup {h}
    BY <1>1 DEF Users
  <1>3. \A x : x # b => Users(x)' = Users(x) \ {h}
    BY <1>1 DEF Users
  <1>4. IsFiniteSet(Users(b) \ {h})
    <2>1. Users(b) \ {h} \in SUBSET Holders
      BY DEF Users
    <2> QED
      BY <2>1, HbsMapAssumption, FS_Subset
  <1>5. h \notin Users(b) \ {h}
    OBVIOUS
  <1>6. Cardinality((Users(b) \ {h}) \cup {h}) = Cardinality(Users(b) \ {h}) + 1
    BY <1>4, <1>5, FS_AddElement
  <1> QED
    BY <1>2, <1>3, <1>6

(* Holder h goes over to b; the other holders keep their maps.             *)
Handed(h, b) ==
    /\ ref' = [ref EXCEPT ![h] = b]
    /\ DOMAIN heap' \subseteq DOMAIN heap \cup {b}
    /\ \A x \in DOMAIN heap' : x \in DOMAIN heap => Recounted(heap[x], heap'[x])
    /\ \A g \in Holders \ {h} : HasMap(g) => ref[g] \in DOMAIN heap'

(* A holder is given a map of its own.                                     *)
LEMMA MoveHands ==
    ASSUME Owned, MapsInv, NEW h \in Holders, ref[h] # Dangling, NEW b \in Free, NEW d, d.rc = 1,
           heap' = Place(Delref(heap, ref[h]), b, d), ref' = [ref EXCEPT ![h] = b]
    PROVE  /\ Owned' /\ Handed(h, b) /\ heap'[b] = d
           /\ DOMAIN heap' = DOMAIN Delref(heap, ref[h]) \cup {b}
  <1> DEFINE D == Delref(heap, ref[h])
  <1>1. /\ DOMAIN D \subseteq DOMAIN heap
        /\ \A x \in DOMAIN heap : x \in DOMAIN D <=> Users(x) \ {h} # {}
        /\ \A x \in DOMAIN D : Recounted(heap[x], D[x])
        /\ \A x \in DOMAIN D : D[x].rc = Cardinality(Users(x) \ {h})
    BY DelrefIs
  <1>2. heap' = [x \in DOMAIN D \cup {b} |-> IF x = b THEN d ELSE D[x]]
    BY DEF Place
  <1> HIDE DEF D
  <1>3. b \notin DOMAIN heap /\ b \in 1 .. Cardinality(Holders) + 1 /\ b \in Nat
    BY HbsMapAssumption, FS_CardinalityType DEF Free
  <1>4. DOMAIN heap' = DOMAIN D \cup {b} /\ heap'[b] = d
    BY <1>2
  <1>5. \A x \in DOMAIN D : heap'[x] = D[x] /\ x # b
    BY <1>1, <1>2, <1>3
  <1>6. heap' = [x \in DOMAIN heap' |-> heap'[x]]
    BY <1>2
  <1>7. \A g \in Holders \ {h} : HasMap(g) => ref[g] \in DOMAIN D
    BY <1>1 DEF Owned, Users
  <1>8. ref' \in [Holders -> Int] /\ \A g \in Holders : ref'[g] = IF g = h THEN b ELSE ref[g]
    BY <1>3 DEF Owned
  <1>9. /\ Users(b)' = (Users(b) \ {h}) \cup {h}
        /\ \A x : x # b => Users(x)' = Users(x) \ {h}
        /\ Cardinality(Users(b)') = Cardinality(Users(b) \ {h}) + 1
    BY UsersMove
  <1>10. Users(b) \ {h} = {}
    <2>1. \A g \in Holders : ref[g] # b
      <3>1. b # None /\ b # Dangling
        BY <1>3, HbsMapAssumption, FS_CardinalityType DEF None, Dangling
      <3> QED
        BY <1>3, <3>1 DEF Owned, HasMap
    <2> QED
      BY <2>1 DEF Users
  <1>11. \A x \in DOMAIN heap' : Users(x)' # {} /\ heap'[x].rc = Cardinality(Users(x)')
    <2> SUFFICES ASSUME NEW x \in DOMAIN heap'
                 PROVE  Users(x)' # {} /\ heap'[x].rc = Cardinality(Users(x)')
      OBVIOUS
    <2>1. CASE x = b
      <3>1. Cardinality(Users(b) \ {h}) = 0
        BY <1>10, FS_EmptySet
      <3>2. Users(b)' # {}
        BY <1>9
      <3>3. heap'[b].rc = Cardinality(Users(b)')
        BY <1>4, <1>9, <3>1
      <3> QED
        BY <2>1, <3>2, <3>3
    <2>2. CASE x # b
      <3>1. x \in DOMAIN D /\ Users(x)' = Users(x) \ {h}
        BY <1>4, <1>9, <2>2
      <3> QED
        BY <1>1, <1>5, <3>1
    <2> QED
      BY <2>1, <2>2
  <1>12. DOMAIN heap' \subseteq 1 .. Cardinality(Holders) + 1
    BY <1>1, <1>3, <1>4 DEF Owned
  <1>13. \A g \in Holders : HasMap(g)' => ref'[g] \in DOMAIN heap'
    BY <1>4, <1>7, <1>8 DEF HasMap
  <1>14. Owned'
    BY <1>6, <1>8, <1>11, <1>12, <1>13 DEF Owned
  <1>15. Handed(h, b)
    BY <1>1, <1>3, <1>4, <1>5, <1>7 DEF Handed
  <1> QED
    BY <1>4, <1>14, <1>15 DEF D

(* A holder is given the map of another one.                               *)
LEMMA AssignHands ==
    ASSUME Owned, MapsInv, NEW h \in Holders, NEW s \in Holders, h # s, HasMap(s), ref[h] # ref[s],
           ref[h] # Dangling,
           heap' = [Delref(heap, ref[h]) EXCEPT ![ref[s]].rc = @ + 1],
           ref' = [ref EXCEPT ![h] = ref[s]]
    PROVE  /\ Owned' /\ Handed(h, ref[s])
           /\ ref[s] \in DOMAIN heap
  <1>0. PICK b : b = ref[s]
    OBVIOUS
  <1> DEFINE D == Delref(heap, ref[h])
             e == [D[b] EXCEPT !.rc = @ + 1]
  <1>1. /\ D = [x \in DOMAIN D |-> D[x]] /\ DOMAIN D \subseteq DOMAIN heap
        /\ \A x \in DOMAIN heap : x \in DOMAIN D <=> Users(x) \ {h} # {}
        /\ \A x \in DOMAIN D : Recounted(heap[x], D[x])
        /\ \A x \in DOMAIN D : D[x].rc = Cardinality(Users(x) \ {h})
    BY DelrefIs
  <1>2. heap' = [D EXCEPT ![b] = e]
    BY <1>0
  <1>3. b \in DOMAIN heap /\ b \in Nat
    BY <1>0 DEF Owned
  <1>4. \A g \in Holders \ {h} : HasMap(g) => ref[g] \in DOMAIN D
    BY <1>1 DEF Owned, Users
  <1>5. b \in DOMAIN D
    BY <1>0, <1>4
  <1> HIDE DEF D, e
  <1>6. heap' = [x \in DOMAIN D |-> IF x = b THEN e ELSE D[x]]
    BY <1>1, <1>2
  <1>7. DOMAIN heap' = DOMAIN D /\ heap'[b] = e /\ \A x \in DOMAIN D : x # b => heap'[x] = D[x]
    BY <1>5, <1>6
  <1>8. heap' = [x \in DOMAIN heap' |-> heap'[x]]
    BY <1>6
  <1>9. Recounted(heap[b], D[b]) /\ D[b].rc = Cardinality(Users(b) \ {h}) /\ DOMAIN D[b] = MapFields
    BY <1>1, <1>5 DEF Recounted, Alike
  <1>10. Recounted(heap[b], e) /\ e.rc = D[b].rc + 1
    BY <1>9 DEF Recounted, Alike, e, MapFields
  <1>11. ref' \in [Holders -> Int] /\ \A g \in Holders : ref'[g] = IF g = h THEN b ELSE ref[g]
    BY <1>0, <1>3 DEF Owned
  <1>12. /\ Users(b)' = (Users(b) \ {h}) \cup {h}
         /\ \A x : x # b => Users(x)' = Users(x) \ {h}
         /\ Cardinality(Users(b)') = Cardinality(Users(b) \ {h}) + 1
    BY <1>0, UsersMove
  <1>13. \A x \in DOMAIN heap' : Users(x)' # {} /\ heap'[x].rc = Cardinality(Users(x)')
    <2> SUFFICES ASSUME NEW x \in DOMAIN heap'
                 PROVE  Users(x)' # {} /\ heap'[x].rc = Cardinality(Users(x)')
      OBVIOUS
    <2>1. CASE x = b
      BY <1>7, <1>9, <1>10, <1>12, <2>1
    <2>2. CASE x # b
      <3>1. x \in DOMAIN D /\ Users(x)' = Users(x) \ {h}
        BY <1>7, <1>12, <2>2
      <3> QED
        BY <1>1, <1>7, <2>2, <3>1
    <2> QED
      BY <2>1, <2>2
  <1>14. DOMAIN heap' \subseteq 1 .. Cardinality(Holders) + 1
    BY <1>1, <1>7 DEF Owned
  <1>15. \A g \in Holders : HasMap(g)' => ref'[g] \in DOMAIN heap'
    BY <1>4, <1>5, <1>7, <1>11 DEF HasMap
  <1>16. Owned'
    BY <1>8, <1>11, <1>13, <1>14, <1>15 DEF Owned
  <1>17. \A x \in DOMAIN heap' : Recounted(heap[x], heap'[x])
    BY <1>1, <1>7, <1>10
  <1>18. Handed(h, b)
    BY <1>0, <1>1, <1>4, <1>5, <1>7, <1>17 DEF Handed
  <1> QED
    BY <1>0, <1>3, <1>16, <1>18

(* A holder is left with a map that it has no reference of.                *)
LEMMA LetGoHands ==
    ASSUME Owned, MapsInv, NEW h \in Holders, HasMap(h),
           heap' = Delref(heap, ref[h]), ref' = [ref EXCEPT ![h] = Dangling]
    PROVE  /\ Owned' /\ Handed(h, Dangling) /\ DOMAIN heap' \subseteq DOMAIN heap
  <1> DEFINE D == Delref(heap, ref[h])
  <1>0. ref[h] # Dangling
    BY DEF HasMap
  <1>1. /\ D = [x \in DOMAIN D |-> D[x]] /\ DOMAIN D \subseteq DOMAIN heap
        /\ \A x \in DOMAIN heap : x \in DOMAIN D <=> Users(x) \ {h} # {}
        /\ \A x \in DOMAIN D : Recounted(heap[x], D[x])
        /\ \A x \in DOMAIN D : D[x].rc = Cardinality(Users(x) \ {h})
    BY <1>0, DelrefIs
  <1>2. heap' = D
    OBVIOUS
  <1> HIDE DEF D
  <1>3. \A g \in Holders \ {h} : HasMap(g) => ref[g] \in DOMAIN D
    BY <1>1 DEF Owned, Users
  <1>4. ref' \in [Holders -> Int] /\ \A g \in Holders : ref'[g] = IF g = h THEN Dangling ELSE ref[g]
    BY DEF Owned, Dangling
  <1>5. \A x \in DOMAIN heap : x # Dangling
    <2>1. \A x \in DOMAIN heap : x \in 1 .. Cardinality(Holders) + 1
      BY DEF Owned
    <2>2. \A x \in 1 .. Cardinality(Holders) + 1 : x # Dangling
      BY HbsMapAssumption, FS_CardinalityType DEF Dangling
    <2> QED
      BY <2>1, <2>2
  <1>6. \A x \in DOMAIN heap : Users(x)' = Users(x) \ {h}
    BY <1>5, UsersMove
  <1>7. \A x \in DOMAIN heap' : Users(x)' # {} /\ heap'[x].rc = Cardinality(Users(x)')
    BY <1>1, <1>2, <1>6
  <1>8. \A g \in Holders : HasMap(g)' => ref'[g] \in DOMAIN heap'
    BY <1>2, <1>3, <1>4 DEF HasMap
  <1>9. DOMAIN heap' \subseteq 1 .. Cardinality(Holders) + 1
    BY <1>1, <1>2 DEF Owned
  <1>10. Owned'
    BY <1>1, <1>2, <1>4, <1>7, <1>8, <1>9 DEF Owned
  <1>11. Handed(h, Dangling)
    BY <1>1, <1>2, <1>3 DEF Handed
  <1> QED
    BY <1>1, <1>2, <1>10, <1>11

(* The map of a loop is held, so it is there.                              *)
LEMMA LoopHolds ==
    ASSUME Owned, LoopsInv, NEW i \in 1 .. Len(loops)
    PROVE  /\ loops[i].holder \in Holders /\ HasMap(loops[i].holder)
           /\ ref[loops[i].holder] \in DOMAIN heap
           /\ DOMAIN loops = 1 .. Len(loops) /\ Len(loops) \in Nat
  <1>1. FrameOK(i) /\ IsSeq(loops)
    BY DEF LoopsInv
  <1>2. loops[i].holder \in Holders /\ HasMap(loops[i].holder)
    BY <1>1 DEF FrameOK
  <1>3. DOMAIN loops = 1 .. Len(loops) /\ Len(loops) \in Nat
    BY <1>1 DEF IsSeq
  <1> QED
    BY <1>2, <1>3 DEF Owned

(* The loops do not notice that a holder outside of them gets another map. *)
LEMMA HandedKeeps ==
    ASSUME MapInv, NEW h \in Holders, ~InLoop(h), NEW b, Handed(h, b), Owned',
           UNCHANGED loops, stuck' = stuck \cap DOMAIN heap',
           b \notin DOMAIN heap => heap'[b].iter = FALSE
    PROVE  LoopsInv' /\ LockInv'
  <1>1. Owned /\ MapsInv /\ LoopsInv /\ LockInv
    BY DEF MapInv
  <1>2. \A g \in Holders \ {h} : ref'[g] = ref[g]
    BY <1>1 DEF Handed, Owned
  <1>3. ASSUME NEW i \in 1 .. Len(loops)
        PROVE  /\ loops[i].holder \in Holders \ {h} /\ HasMap(loops[i].holder)
               /\ ref[loops[i].holder] \in DOMAIN heap
               /\ ref[loops[i].holder] \in DOMAIN heap'
               /\ ref'[loops[i].holder] = ref[loops[i].holder]
    <2>1. /\ loops[i].holder \in Holders /\ HasMap(loops[i].holder)
          /\ ref[loops[i].holder] \in DOMAIN heap /\ DOMAIN loops = 1 .. Len(loops)
      BY <1>1, LoopHolds
    <2>2. loops[i].holder # h
      BY <2>1 DEF InLoop
    <2> QED
      BY <1>2, <2>1, <2>2 DEF Handed
  <1>4. IsSeq(loops) /\ Len(loops) \in Nat
    BY <1>1 DEF LoopsInv, IsSeq
  <1>5. ASSUME NEW x \in DOMAIN heap', NEW i \in 1 .. Len(loops) + 1
        PROVE  Before(i, x)' <=> Before(i, x)
    <2>1. \A j \in 1 .. i - 1 : ref'[loops[j].holder] = ref[loops[j].holder]
      BY <1>3, <1>4
    <2>2. x \in stuck' <=> x \in stuck
      OBVIOUS
    <2> QED
      BY <2>1, <2>2 DEF Before
  <1>6. ASSUME NEW i \in 1 .. Len(loops) PROVE FrameOK(i)'
    <2> DEFINE f == loops[i]
               m == heap[ref[f.holder]]
               d == heap'[ref[f.holder]]
    <2>1. FrameOK(i) /\ i \in 1 .. Len(loops) + 1
      BY <1>1, <1>4 DEF LoopsInv
    <2>2. /\ f.holder \in Holders /\ HasMap(f.holder) /\ ref'[f.holder] = ref[f.holder]
          /\ ref[f.holder] \in DOMAIN heap /\ ref[f.holder] \in DOMAIN heap'
      BY <1>3
    <2>3. Recounted(m, d)
      BY <2>2 DEF Handed
    <2>4. Before(i, ref[f.holder])' <=> Before(i, ref[f.holder])
      <3>1. PICK x : x = ref[f.holder]
        OBVIOUS
      <3>2. Before(i, x)' <=> Before(i, x)
        BY <1>5, <2>1, <2>2, <3>1
      <3>3. x = ref'[f'.holder]
        BY <2>2, <3>1
      <3> QED
        BY <3>1, <3>2, <3>3
    <2>5. d.lost = m.lost /\ d.n = m.n /\ d.off = m.off /\ d.vec = m.vec
      BY <2>3 DEF Recounted, Alike
    <2>6. SeenTo(d, f) <=> SeenTo(m, f)
      BY <2>5 DEF SeenTo, Live
    <2>7. HasMap(f.holder)'
      BY <2>2 DEF HasMap
    <2>8. /\ DOMAIN f = FrameFields /\ f.index \in Nat /\ f.foreach \in BOOLEAN /\ f.old \in BOOLEAN
          /\ f.old <=> Before(i, ref[f.holder])
          /\ f.foreach \/ ~f.old
          /\ f.foreach => ~m.lost
          /\ ~m.lost => SeenTo(m, f) /\ (f.foreach \/ m.n = m.off)
      BY <2>1 DEF FrameOK
    <2> QED
      BY <2>2, <2>4, <2>5, <2>6, <2>7, <2>8 DEF FrameOK
  <1>7. LoopsInv'
    BY <1>4, <1>6 DEF LoopsInv
  <1>8. ASSUME NEW x \in DOMAIN heap'
        PROVE  heap'[x].iter <=> Before(Len(loops) + 1, x)
    <2>1. CASE x \in DOMAIN heap
      <3>1. heap'[x].iter = heap[x].iter
        BY <2>1 DEF Handed, Recounted
      <3>2. heap[x].iter <=> Before(Len(loops) + 1, x)
        BY <1>1, <2>1 DEF LockInv
      <3> QED
        BY <3>1, <3>2
    <2>2. CASE x \notin DOMAIN heap
      <3>1. x = b /\ heap'[x].iter = FALSE
        BY <2>2 DEF Handed
      <3>2. x \notin stuck
        BY <1>1, <2>2 DEF LockInv
      <3>3. \A j \in 1 .. Len(loops) : ref[loops[j].holder] # x
        BY <1>3, <2>2
      <3>4. ~Before(Len(loops) + 1, x)
        BY <1>4, <3>2, <3>3 DEF Before
      <3> QED
        BY <3>1, <3>4
    <2> QED
      BY <2>1, <2>2
  <1>9. LockInv'
    <2>1. Len(loops) + 1 \in 1 .. Len(loops) + 1
      BY <1>4
    <2>2. \A x \in DOMAIN heap' : heap'[x].iter <=> Before(Len(loops) + 1, x)'
      BY <1>5, <1>8, <2>1
    <2> QED
      BY <2>2 DEF LockInv, Before
  <1> QED
    BY <1>7, <1>9

(* A map that is left alone, apart from its count, is as good as before.   *)
LEMMA MapsGrow ==
    ASSUME MapsInv, Count,
           \A x \in DOMAIN heap' : \/ x \in DOMAIN heap /\ Recounted(heap[x], heap'[x])
                                   \/ MapOK(heap'[x], changes')
    PROVE  MapsInv'
  <1>1. changes' \in Nat /\ changes' <= MaxChanges /\ changes \in Nat /\ changes <= changes'
    BY SizeAssumption DEF MapsInv, Count
  <1>2. ASSUME NEW x \in DOMAIN heap', x \in DOMAIN heap, Recounted(heap[x], heap'[x])
        PROVE  MapOK(heap'[x], changes')
    <2> DEFINE m == heap[x]
               d == heap'[x]
    <2>1. MapOK(m, changes)
      BY <1>2 DEF MapsInv
    <2>2. Alike(m, d) /\ d.iter = m.iter /\ d.lost = m.lost /\ DOMAIN d = MapFields /\ d.n = m.n
      BY <1>2 DEF Recounted, Alike
    <2> HIDE DEF m, d
    <2>3. d.iter \in BOOLEAN /\ d.lost \in BOOLEAN
      BY <2>1, <2>2 DEF MapOK
    <2>4. ASSUME ~d.lost PROVE Coherent(d) /\ d.n <= changes'
      <3>1. Coherent(m) /\ m.n <= changes
        BY <2>1, <2>2, <2>4 DEF MapOK
      <3>2. m.n \in Nat
        BY <3>1, ShrunkSelf
      <3>3. Coherent(d)
        BY <2>2, <3>1, AlikeCoherent
      <3> QED
        BY <1>1, <2>2, <3>1, <3>2, <3>3
    <2> QED
      BY <2>2, <2>3, <2>4 DEF MapOK, d
  <1> QED
    BY <1>1, <1>2 DEF MapsInv

(* The map of h changes where it lies.  Loops over it go on when they are  *)
(* foreach loops and nothing is added or moved.                            *)
LEMMA ReplaceKeeps ==
    ASSUME MapInv, NEW h \in Holders, HasMap(h), NEW a, a = ref[h], NEW d,
           heap' = [heap EXCEPT ![a] = d], UNCHANGED <<ref, loops, stuck>>,
           d.rc = heap[a].rc, d.iter = heap[a].iter,
           \A i \in 1 .. Len(loops) : ref[loops[i].holder] = a =>
               loops[i].foreach /\ Shrunk(heap[a], d) /\ d.lost = heap[a].lost
    PROVE  Owned' /\ LoopsInv' /\ LockInv'
  <1>1. Owned /\ MapsInv /\ LoopsInv /\ LockInv
    BY DEF MapInv
  <1>2. a \in DOMAIN heap /\ heap = [x \in DOMAIN heap |-> heap[x]]
    BY <1>1 DEF Owned
  <1>3. heap' = [x \in DOMAIN heap |-> IF x = a THEN d ELSE heap[x]]
    BY <1>2
  <1>4. /\ DOMAIN heap' = DOMAIN heap /\ heap'[a] = d
        /\ \A x \in DOMAIN heap : x # a => heap'[x] = heap[x]
        /\ heap' = [x \in DOMAIN heap' |-> heap'[x]]
    BY <1>2, <1>3
  <1>5. \A x : Users(x)' = Users(x)
    BY DEF Users
  <1>6. \A i, x : Before(i, x)' <=> Before(i, x)
    BY DEF Before
  <1>7. Owned'
    <2>1. \A x \in DOMAIN heap' : Users(x)' # {} /\ heap'[x].rc = Cardinality(Users(x)')
      <3> SUFFICES ASSUME NEW x \in DOMAIN heap
                   PROVE  Users(x)' # {} /\ heap'[x].rc = Cardinality(Users(x)')
        BY <1>4
      <3>1. heap'[x].rc = heap[x].rc
        BY <1>4
      <3>2. Users(x) # {} /\ heap[x].rc = Cardinality(Users(x))
        BY <1>1 DEF Owned
      <3> QED
        BY <1>5, <3>1, <3>2
    <2>2. \A g \in Holders : HasMap(g)' => ref'[g] \in DOMAIN heap'
      BY <1>1, <1>4 DEF Owned, HasMap
    <2> QED
      BY <1>1, <1>4, <2>1, <2>2 DEF Owned
  <1>8. ASSUME NEW i \in 1 .. Len(loops) PROVE FrameOK(i)'
    <2> DEFINE f == loops[i]
    <2>0. PICK x : x = ref[f.holder]
      OBVIOUS
    <2>1. FrameOK(i)
      BY <1>1 DEF LoopsInv
    <2>2. x \in DOMAIN heap
      BY <1>1, <2>0, LoopHolds
    <2>3. CASE x # a
      <3>1. heap'[ref'[f.holder]] = heap[ref[f.holder]]
        BY <1>4, <2>0, <2>2, <2>3
      <3> QED
        BY <1>6, <2>1, <3>1 DEF FrameOK, HasMap, Before
    <2>4. CASE x = a
      <3> DEFINE m == heap[a]
      <3>1. f.foreach /\ Shrunk(m, d) /\ d.lost = m.lost
        BY <2>0, <2>4
      <3>2. /\ DOMAIN f = FrameFields /\ f.index \in Nat /\ f.foreach \in BOOLEAN
            /\ f.old \in BOOLEAN /\ f.holder \in Holders /\ HasMap(f.holder)
            /\ f.old <=> Before(i, ref[f.holder])
            /\ ~m.lost
            /\ SeenTo(m, f)
        BY <2>0, <2>1, <2>4, <3>1 DEF FrameOK
      <3>3. SeenTo(d, f)
        BY <3>1, <3>2 DEF SeenTo, Shrunk
      <3>4. heap'[ref'[f'.holder]] = d /\ f' = f
        BY <1>4, <2>0, <2>4
      <3>5. f.old <=> Before(i, ref[f.holder])'
        BY <3>2 DEF Before
      <3>6. HasMap(f.holder)'
        BY <3>2 DEF HasMap
      <3>7. ~d.lost
        BY <3>1, <3>2
      <3> HIDE DEF m
      <3> QED
        BY <3>1, <3>2, <3>3, <3>4, <3>5, <3>6, <3>7 DEF FrameOK
    <2> QED
      BY <2>3, <2>4
  <1>9. LoopsInv'
    BY <1>1, <1>8 DEF LoopsInv
  <1>10. LockInv'
    <2>1. \A x \in DOMAIN heap : heap'[x].iter = heap[x].iter
      BY <1>4
    <2> QED
      BY <1>1, <1>4, <1>6, <2>1 DEF LockInv, Before
  <1> QED
    BY <1>7, <1>9, <1>10

(* handlebars_map_rehash: afterwards there is room for one more entry,     *)
(* unless the map was marked as being iterated over, and full.             *)
LEMMA RehashedOK ==
    ASSUME NEW m, Coherent(m), m.n + 1 < MaxCapacity, NEW force
    PROVE  LET d == Rehashed(m, force)
           IN  /\ Coherent(d) /\ d.n = m.n
               /\ \A y : Has(d, y) <=> Has(m, y)
               /\ ~Rehashes(m, force) => d = m
               /\ Rehashes(m, force) => /\ d.rc = 1 /\ d.iter = FALSE /\ d.lost = FALSE
                                        /\ d.off = m.n
               /\ Rehashes(m, force) \/ m.off < m.capacity => d.off < d.capacity
  <1> DEFINE d == Rehashed(m, force)
             c == ChooseVecCapacity(m.n + 1)
  <1>1. m.n \in Nat
    BY ShrunkSelf
  <1>2. CASE Rehashes(m, force)
    <2>1. d = CopyCtor(m, c, 1)
      BY <1>2 DEF Rehashed
    <2>2. c \in Nat /\ c > m.n + 1 /\ c <= MaxCapacity
      <3>1. m.n + 1 \in Nat
        BY <1>1
      <3> QED
        BY <3>1, VectorHasRoom
    <2> HIDE DEF c
    <2>3. /\ Coherent(d) /\ d.n = m.n /\ d.off = m.n /\ d.capacity >= c /\ d.capacity \in Nat
          /\ d.rc = 1 /\ d.iter = FALSE /\ d.lost = FALSE /\ \A y : Has(d, y) <=> Has(m, y)
      <3>1. CopyOf(m, CopyCtor(m, c, 1), c, 1)
        BY <2>2, CopyCoherent
      <3> HIDE DEF d
      <3> QED
        BY <2>1, <3>1 DEF CopyOf
    <2>4. d.off < d.capacity
      BY <1>1, <2>2, <2>3
    <2> HIDE DEF d
    <2> QED
      BY <1>2, <2>3, <2>4 DEF d
  <1>3. CASE ~Rehashes(m, force)
    <2>1. d = m
      BY <1>3 DEF Rehashed
    <2> HIDE DEF d
    <2> QED
      BY <1>3, <2>1 DEF d
  <1> QED
    BY <1>2, <1>3

(* The second half of a change: d, made from the map after its rehash,     *)
(* takes the place of the map.                                             *)
Changed(h, force, d) ==
    /\ IF Rehashes(Map(h), force)
       THEN /\ heap' = Place(Delref(heap, ref[h]), Least(Free), d)
            /\ ref' = [ref EXCEPT ![h] = Least(Free)]
       ELSE heap' = [heap EXCEPT ![ref[h]] = d] /\ UNCHANGED ref
    /\ Count
    /\ UNCHANGED <<loops, stuck, aborted>>

(* No map breaks.                                                          *)
NoneBreaks == \A x \in DOMAIN heap : x \in DOMAIN heap' /\ heap'[x].lost => heap[x].lost

(* A change keeps the invariant when it keeps the map coherent.            *)
LEMMA ChangeKeeps ==
    ASSUME MapInv, NEW h \in Holders, HasMap(h), ~Map(h).lost, NEW force, NEW d,
           Changed(h, force, d), Coherent(d), SameFlags(Rehashed(Map(h), force), d),
           d.n <= Map(h).n + 1,
           \A i \in 1 .. Len(loops) :
               ref[loops[i].holder] = ref[h] => loops[i].foreach /\ Shrunk(Map(h), d)
    PROVE  MapInv' /\ NoneBreaks
  <1>0. PICK a : a = ref[h]
    OBVIOUS
  <1> DEFINE m == heap[a]
             r == Rehashed(m, force)
  <1>1. Owned /\ MapsInv /\ LoopsInv /\ LockInv /\ Count
    BY DEF MapInv, Changed
  <1>2. a \in DOMAIN heap /\ Map(h) = m
    BY <1>0, <1>1 DEF Owned, Map
  <1>3. /\ Coherent(m) /\ m.iter \in BOOLEAN /\ m.lost = FALSE /\ m.n <= changes /\ m.n \in Nat
        /\ d.n \in Nat /\ DOMAIN d = MapFields
    <2>1. MapOK(m, changes)
      BY <1>1, <1>2 DEF MapsInv
    <2>2. Coherent(m) /\ m.iter \in BOOLEAN /\ m.lost = FALSE /\ m.n <= changes
      BY <1>2, <2>1 DEF MapOK
    <2>3. m.n \in Nat /\ d.n \in Nat
      BY <2>2, ShrunkSelf
    <2> QED
      BY <2>2, <2>3 DEF Coherent, Shape
  <1>4. changes \in Nat /\ changes < MaxChanges /\ changes' = changes + 1 /\ MaxChanges \in Nat
    BY <1>1, SizeAssumption DEF MapsInv, Count
  <1>5. m.n + 1 < MaxCapacity
    BY <1>3, <1>4, SizeAssumption DEF MaxCapacity
  <1>6. /\ ~Rehashes(m, force) => r = m
        /\ Rehashes(m, force) => r.rc = 1 /\ r.iter = FALSE /\ r.lost = FALSE
    BY <1>3, <1>5, RehashedOK
  <1>7. d.rc = r.rc /\ d.iter = r.iter /\ d.lost = r.lost
    BY <1>2 DEF SameFlags
  <1> HIDE DEF r
  <1>8. MapOK(d, changes')
    <2>1. d.iter \in BOOLEAN /\ d.lost \in BOOLEAN
      BY <1>3, <1>6, <1>7
    <2>2. d.n <= changes'
      BY <1>2, <1>3, <1>4
    <2> QED
      BY <1>3, <2>1, <2>2 DEF MapOK
  <1>9. CASE Rehashes(m, force)
    <2>0. PICK b : b = Least(Free)
      OBVIOUS
    <2>1. b \in Free /\ ref[h] # Dangling
      BY <1>1, <2>0, RoomForOne DEF HasMap
    <2>2. heap' = Place(Delref(heap, ref[h]), b, d) /\ ref' = [ref EXCEPT ![h] = b]
      BY <1>2, <1>9, <2>0 DEF Changed
    <2>3. d.rc = 1 /\ d.iter = FALSE
      BY <1>6, <1>7, <1>9
    <2>4. /\ Owned' /\ Handed(h, b) /\ heap'[b] = d
          /\ DOMAIN heap' = DOMAIN Delref(heap, ref[h]) \cup {b}
      BY <1>1, <2>1, <2>2, <2>3, MoveHands
    <2>5. MapsInv'
      <3>1. \A x \in DOMAIN heap' : \/ x \in DOMAIN heap /\ Recounted(heap[x], heap'[x])
                                    \/ MapOK(heap'[x], changes')
        BY <1>8, <2>4 DEF Handed
      <3> QED
        BY <1>1, <3>1, MapsGrow
    <2>6. ~m.iter
      BY <1>9 DEF Rehashes
    <2>7. ~Before(Len(loops) + 1, a)
      BY <1>1, <1>2, <2>6 DEF LockInv
    <2>8. ~InLoop(h)
      BY <1>0, <1>1, <2>7 DEF Before, InLoop, LoopsInv, IsSeq
    <2>9. stuck' = stuck \cap DOMAIN heap'
      <3>1. stuck \subseteq DOMAIN heap /\ a \notin stuck /\ stuck' = stuck
        BY <1>1, <2>7 DEF LockInv, Before, Changed
      <3>2. \A x \in DOMAIN heap : x # a => Users(x) \ {h} # {}
        <4>1. \A x \in DOMAIN heap : x # a => Users(x) \ {h} = Users(x)
          BY <1>0 DEF Users
        <4> QED
          BY <1>1, <4>1 DEF Owned
      <3>3. \A x \in DOMAIN heap : x # a => x \in DOMAIN Delref(heap, ref[h])
        BY <1>1, <2>1, <3>2, DelrefIs
      <3> QED
        BY <2>4, <3>1, <3>3
    <2>10. UNCHANGED loops
      BY DEF Changed
    <2>11. LoopsInv' /\ LockInv'
      BY <2>3, <2>4, <2>8, <2>9, <2>10, HandedKeeps
    <2>12. NoneBreaks
      <3>1. \A x \in DOMAIN heap : x \in DOMAIN heap' => heap'[x].lost = heap[x].lost
        BY <2>4 DEF Handed, Recounted
      <3> QED
        BY <3>1 DEF NoneBreaks
    <2> QED
      BY <2>4, <2>5, <2>11, <2>12 DEF MapInv
  <1>10. CASE ~Rehashes(m, force)
    <2>1. heap' = [heap EXCEPT ![a] = d] /\ UNCHANGED <<ref, loops, stuck>>
      BY <1>0, <1>2, <1>10 DEF Changed
    <2>2. d.rc = m.rc /\ d.iter = m.iter /\ d.lost = m.lost
      BY <1>6, <1>7, <1>10
    <2>3. \A i \in 1 .. Len(loops) : ref[loops[i].holder] = a =>
              loops[i].foreach /\ Shrunk(m, d) /\ d.lost = m.lost
      BY <1>0, <1>2, <2>2
    <2>4. Owned' /\ LoopsInv' /\ LockInv'
      BY <1>0, <2>1, <2>2, <2>3, ReplaceKeeps
    <2>5. MapsInv'
      <3>1. \A x \in DOMAIN heap' : x \in DOMAIN heap /\ (x = a \/ heap'[x] = heap[x]) /\ heap'[a] = d
        BY <1>1, <1>2, <2>1 DEF Owned
      <3>2. \A x \in DOMAIN heap : Recounted(heap[x], heap[x])
        BY <1>1 DEF Recounted, Alike, MapsInv, MapOK
      <3>3. \A x \in DOMAIN heap' : \/ x \in DOMAIN heap /\ Recounted(heap[x], heap'[x])
                                    \/ MapOK(heap'[x], changes')
        BY <1>8, <3>1, <3>2
      <3> QED
        BY <1>1, <3>3, MapsGrow
    <2>6. NoneBreaks
      <3>1. \A x \in DOMAIN heap : heap'[x].lost = heap[x].lost
        BY <1>1, <1>2, <2>1, <2>2 DEF Owned
      <3> QED
        BY <3>1 DEF NoneBreaks
    <2> QED
      BY <2>4, <2>5, <2>6 DEF MapInv
  <1> QED
    BY <1>9, <1>10

-----------------------------------------------------------------------------
(* One action after the other *)

(* handlebars_map_find answers NULL for the keys that are not there.       *)
LEMMA FindIs ==
    ASSUME NEW m, Coherent(m), NEW k \in Keys
    PROVE  /\ ~Has(m, k) => Find(m, k) = Absent /\ FindEntry(m, k).empty >= 0
           /\ \A i \in Live(m) : m.vec[i].key = k =>
                 Find(m, k) = m.vec[i].value /\ Find(m, k) # Absent
  <1>1. ASSUME ~Has(m, k) PROVE Find(m, k) = Absent /\ FindEntry(m, k).empty >= 0
    <2>1. FindEntry(m, k).entry = -1 /\ FindEntry(m, k).empty \in Slots(m)
      BY <1>1, FindsEmpty
    <2>2. FindEntry(m, k).empty >= 0
      BY <2>1 DEF Slots
    <2> QED
      BY <2>1, <2>2 DEF Find
  <1>2. ASSUME NEW i \in Live(m), m.vec[i].key = k
        PROVE  Find(m, k) = m.vec[i].value /\ Find(m, k) # Absent
    <2> DEFINE s == m.vec[i].slot
    <2>1. FindEntry(m, k) = [entry |-> s, empty |-> -1]
      BY <1>2, FindsLive
    <2>2. EntryOK(m, i)
      BY DEF Coherent
    <2>3. s \in Slots(m) /\ m.table[s] = i /\ m.vec[i].value \in Values
      BY <2>2 DEF EntryOK
    <2>4. s >= 0
      BY <2>3 DEF Slots
    <2>5. m.vec[i].value \in Nat
      BY <2>3, HbsMapAssumption
    <2>6. FindEntry(m, k).entry = s
      BY <2>1
    <2> HIDE DEF s
    <2>7. Find(m, k) = m.vec[m.table[s]].value
      BY <2>4, <2>6 DEF Find
    <2> QED
      BY <2>3, <2>5, <2>7 DEF Absent
  <1> QED
    BY <1>1, <1>2

(* The map of a holder may be changed.                                     *)
LEMMA MapOfHolder ==
    ASSUME MapInv, NEW h \in Holders, HasMap(h), ~Map(h).lost, Count
    PROVE  /\ Coherent(Map(h)) /\ Map(h).n + 1 < MaxCapacity /\ Map(h).n \in Nat
           /\ Map(h).iter \in BOOLEAN /\ ref[h] \in DOMAIN heap
  <1>1. ref[h] \in DOMAIN heap /\ Map(h) = heap[ref[h]]
    BY DEF MapInv, Owned, Map
  <1>2. MapOK(Map(h), changes) /\ changes \in Nat /\ changes < MaxChanges
    BY <1>1 DEF MapInv, MapsInv, Count
  <1>3. Coherent(Map(h)) /\ Map(h).n <= changes /\ Map(h).iter \in BOOLEAN
    BY <1>2 DEF MapOK
  <1>4. Map(h).n \in Nat
    BY <1>3, ShrunkSelf
  <1>5. Map(h).n + 1 < MaxCapacity
    BY <1>2, <1>3, <1>4, SizeAssumption DEF MaxCapacity
  <1> QED
    BY <1>1, <1>3, <1>4, <1>5

(* A map that may be changed has no loop running over it: if it is marked, *)
(* an error has left it so.                                                *)
LEMMA MarkedFor ==
    ASSUME MapInv, NEW h \in Holders, MayChange(h)
    PROVE  /\ HasMap(h) /\ ~Map(h).lost
           /\ \A i \in 1 .. Len(loops) : ref[loops[i].holder] # ref[h]
           /\ Map(h).iter <=> ref[h] \in stuck
  <1>1. HasMap(h) /\ ~Map(h).lost
    BY DEF MayChange
  <1>2. ref[h] \in DOMAIN heap /\ Map(h) = heap[ref[h]]
    BY <1>1 DEF MapInv, Owned, Map
  <1>3. DOMAIN loops = 1 .. Len(loops) /\ Len(loops) \in Nat
    BY DEF MapInv, LoopsInv, IsSeq
  <1>4. \A i \in 1 .. Len(loops) : ref[loops[i].holder] # ref[h]
    BY <1>3 DEF MayChange, Iterated
  <1>5. (Len(loops) + 1) - 1 = Len(loops)
    BY <1>3
  <1>6. Map(h).iter <=> Before(Len(loops) + 1, ref[h])
    BY <1>2 DEF MapInv, LockInv
  <1>7. Before(Len(loops) + 1, ref[h]) <=> ref[h] \in stuck
    BY <1>4, <1>5 DEF Before
  <1> QED
    BY <1>1, <1>4, <1>6, <1>7

(* Only marked maps are ever changed where they should have been rehashed. *)
LEMMA SpoilsMarked ==
    ASSUME MapInv, NEW h \in Holders, MayChange(h), Count,
           Overruns(Map(h)) \/ IsSparse(Rehashed(Map(h), IsSparse(Map(h))))
    PROVE  ref[h] \in stuck
  <1>0. PICK m : m = Map(h)
    OBVIOUS
  <1>1. HasMap(h) /\ ~m.lost /\ (m.iter <=> ref[h] \in stuck)
    BY <1>0, MarkedFor
  <1>2. Coherent(m) /\ m.n + 1 < MaxCapacity
    BY <1>0, <1>1, MapOfHolder
  <1>3. CASE Overruns(m)
    <2>1. m.off \in Nat /\ m.off <= m.capacity /\ m.capacity \in Nat
      BY <1>2, MapSizes DEF Coherent, Shape
    <2>2. m.off = m.capacity
      BY <1>3, <2>1 DEF Overruns
    <2>3. m.iter
      BY <1>3, <2>2 DEF Overruns, Rehashes
    <2> QED
      BY <1>1, <2>3
  <1>4. CASE IsSparse(Rehashed(m, IsSparse(m)))
    <2> DEFINE r == Rehashed(m, IsSparse(m))
    <2>1. /\ r.n = m.n
          /\ ~Rehashes(m, IsSparse(m)) => r = m
          /\ Rehashes(m, IsSparse(m)) => r.off = m.n
      BY <1>2, RehashedOK
    <2>2. IsSparse(r)
      BY <1>4
    <2> HIDE DEF r
    <2>3. ~Rehashes(m, IsSparse(m)) /\ IsSparse(m)
      BY <2>1, <2>2 DEF IsSparse
    <2>4. m.iter
      BY <2>3 DEF Rehashes
    <2> QED
      BY <1>1, <2>4
  <1> QED
    BY <1>0, <1>3, <1>4

(* A map that breaks because it is changed in place.                       *)
LEMMA SpoilKeeps ==
    ASSUME MapInv, NEW h \in Holders, MayChange(h), Spoil(h)
    PROVE  /\ MapInv'
           /\ \A x \in DOMAIN heap : x # ref[h] => heap'[x] = heap[x]
  <1>0. PICK a : a = ref[h]
    OBVIOUS
  <1>1. Owned /\ MapsInv /\ LoopsInv /\ LockInv /\ Count /\ UNCHANGED <<ref, loops, stuck>>
    BY DEF MapInv, Spoil
  <1>2. HasMap(h) /\ \A i \in 1 .. Len(loops) : ref[loops[i].holder] # a
    BY <1>0, MarkedFor
  <1>3. a \in DOMAIN heap
    BY <1>0, <1>1, <1>2 DEF Owned
  <1>4. \A x \in DOMAIN heap : Recounted(heap[x], heap[x])
    BY <1>1 DEF Recounted, Alike, MapsInv, MapOK
  <1>5. CASE UNCHANGED heap
    <2>1. Owned'
      BY <1>1, <1>5 DEF Owned, Users, HasMap
    <2>2. MapsInv'
      BY <1>1, <1>4, <1>5, MapsGrow
    <2>3. LoopsInv'
      BY <1>1, <1>5 DEF LoopsInv, FrameOK, HasMap, Before
    <2>4. LockInv'
      BY <1>1, <1>5 DEF LockInv, Before
    <2>5. \A x \in DOMAIN heap : heap'[x] = heap[x]
      BY <1>5
    <2> QED
      BY <2>1, <2>2, <2>3, <2>4, <2>5 DEF MapInv
  <1>6. CASE heap' = [heap EXCEPT ![a].lost = TRUE]
    <2>1. PICK m, d : m = heap[a] /\ d = [m EXCEPT !.lost = TRUE]
      OBVIOUS
    <2>2. DOMAIN m = MapFields /\ m.iter \in BOOLEAN
      BY <1>1, <1>3, <2>1 DEF MapsInv, MapOK
    <2>3. DOMAIN d = MapFields /\ d.rc = m.rc /\ d.iter = m.iter /\ d.lost = TRUE
      BY <2>1, <2>2 DEF MapFields
    <2>4. heap' = [heap EXCEPT ![a] = d]
      BY <1>6, <2>1
    <2>5. Owned' /\ LoopsInv' /\ LockInv'
      <3>1. \A i \in 1 .. Len(loops) : ref[loops[i].holder] = a =>
                loops[i].foreach /\ Shrunk(heap[a], d) /\ d.lost = heap[a].lost
        BY <1>2, Zenon
      <3>2. d.rc = heap[a].rc /\ d.iter = heap[a].iter
        BY <2>1, <2>3
      <3> QED
        BY <1>0, <1>1, <1>2, <2>4, <3>1, <3>2, ReplaceKeeps
    <2>6. DOMAIN heap' = DOMAIN heap /\ heap'[a] = d /\ \A x \in DOMAIN heap : x # a => heap'[x] = heap[x]
      BY <1>1, <1>3, <2>4 DEF Owned
    <2>7. MapOK(d, changes')
      BY <2>2, <2>3 DEF MapOK
    <2>8. \A x \in DOMAIN heap' : \/ x \in DOMAIN heap /\ Recounted(heap[x], heap'[x])
                                  \/ MapOK(heap'[x], changes')
      BY <1>4, <2>6, <2>7
    <2>9. MapsInv'
      BY <1>1, <2>8, MapsGrow
    <2> QED
      BY <1>0, <2>5, <2>6, <2>9 DEF MapInv
  <1> QED
    BY <1>0, <1>5, <1>6 DEF Spoil

(* handlebars_map_ctor.                                                    *)
LEMMA NewKeeps ==
    ASSUME MapInv, NEW h \in Holders, NEW c \in Capacities, New(h, c)
    PROVE  MapInv' /\ NoneBreaks
  <1>0. PICK b : b = Least(Free)
    OBVIOUS
  <1> DEFINE d == MapCtor(c, 1)
             D == Delref(heap, ref[h])
  <1>1. Owned /\ MapsInv /\ LoopsInv /\ LockInv /\ Count
    BY DEF MapInv, New
  <1>2. /\ heap' = Place(D, b, d) /\ ref' = [ref EXCEPT ![h] = b] /\ b \in Free
        /\ ref[h] # Dangling
    BY <1>0, <1>1, RoomForOne DEF New
  <1>3. ~InLoop(h) /\ UNCHANGED loops /\ stuck' = stuck \cap DOMAIN D
    BY DEF New
  <1>4. Coherent(d) /\ d.n = 0 /\ d.rc = 1 /\ d.iter = FALSE /\ d.lost = FALSE
    <2>1. c \in Nat /\ c <= MaxCapacity
      BY HbsMapAssumption, SizeAssumption
    <2>2. Coherent(d)
      BY <2>1, CtorCoherent
    <2>3. d.n = 0 /\ d.rc = 1 /\ d.iter = FALSE /\ d.lost = FALSE
      BY DEF MapCtor
    <2> HIDE DEF d
    <2> QED
      BY <2>2, <2>3
  <1>5. changes' \in Nat
    BY <1>1 DEF MapsInv, Count
  <1> HIDE DEF d
  <1>6. MapOK(d, changes')
    <2>1. DOMAIN d = MapFields
      BY <1>4 DEF Coherent, Shape
    <2>2. d.n <= changes'
      BY <1>4, <1>5
    <2>3. d.iter \in BOOLEAN /\ d.lost \in BOOLEAN
      BY <1>4
    <2> QED
      BY <1>4, <2>1, <2>2, <2>3 DEF MapOK
  <1>7. Owned' /\ Handed(h, b) /\ heap'[b] = d /\ DOMAIN heap' = DOMAIN D \cup {b}
    BY <1>1, <1>2, <1>4, MoveHands
  <1> HIDE DEF D
  <1>8. MapsInv'
    <2>1. \A x \in DOMAIN heap' : \/ x \in DOMAIN heap /\ Recounted(heap[x], heap'[x])
                                  \/ MapOK(heap'[x], changes')
      BY <1>6, <1>7 DEF Handed
    <2> QED
      BY <1>1, <2>1, MapsGrow
  <1>9. stuck' = stuck \cap DOMAIN heap'
    <2>1. b \notin stuck
      BY <1>1, <1>2 DEF LockInv, Free
    <2> QED
      BY <1>3, <1>7, <2>1
  <1>10. LoopsInv' /\ LockInv'
    BY <1>3, <1>4, <1>7, <1>9, HandedKeeps
  <1>11. NoneBreaks
    BY <1>7 DEF NoneBreaks, Handed, Recounted
  <1> QED
    BY <1>7, <1>8, <1>10, <1>11 DEF MapInv

(* handlebars_value_value.                                                 *)
LEMMA AssignKeeps ==
    ASSUME MapInv, NEW h \in Holders, NEW s \in Holders, Assign(h, s)
    PROVE  MapInv' /\ NoneBreaks
  <1>0. PICK b : b = ref[s]
    OBVIOUS
  <1>1. Owned /\ MapsInv /\ LoopsInv /\ LockInv /\ Count
    BY DEF MapInv, Assign
  <1>2. /\ h # s /\ HasMap(s) /\ ref[h] # ref[s] /\ ref[h] # Dangling
        /\ heap' = [Delref(heap, ref[h]) EXCEPT ![ref[s]].rc = @ + 1]
        /\ ref' = [ref EXCEPT ![h] = ref[s]]
    BY DEF Assign
  <1>3. Owned' /\ Handed(h, b) /\ b \in DOMAIN heap
    BY <1>0, <1>1, <1>2, AssignHands
  <1>4. ~InLoop(h) /\ UNCHANGED loops /\ stuck' = stuck \cap DOMAIN heap'
    BY DEF Assign
  <1>5. MapsInv'
    <2>1. \A x \in DOMAIN heap' : x \in DOMAIN heap /\ Recounted(heap[x], heap'[x])
      BY <1>3 DEF Handed
    <2> QED
      BY <1>1, <2>1, MapsGrow
  <1>6. LoopsInv' /\ LockInv'
    BY <1>3, <1>4, HandedKeeps
  <1>7. NoneBreaks
    BY <1>3 DEF NoneBreaks, Handed, Recounted
  <1> QED
    BY <1>3, <1>5, <1>6, <1>7 DEF MapInv

(* handlebars_map_add.                                                     *)
LEMMA AddKeeps ==
    ASSUME MapInv, NEW h \in Holders, NEW k \in Keys, NEW v \in Values, Add(h, k, v)
    PROVE  MapInv' /\ (NoneBreaks \/ (Spoil(h) /\ Overruns(Map(h))))
  <1> DEFINE m == Map(h)
             r == Rehashed(m, FALSE)
             d == Insert(r, k, v)
  <1>1. MayChange(h) /\ HasMap(h) /\ ~m.lost /\ Find(m, k) = Absent
    BY DEF Add, MayChange
  <1>2. \A i \in 1 .. Len(loops) : ref[loops[i].holder] # ref[h]
    BY <1>1, MarkedFor
  <1>3. Coherent(m) /\ m.n + 1 < MaxCapacity /\ m.n \in Nat
    <2>1. Count
      BY DEF Add, Change, Spoil
    <2> QED
      BY <1>1, <2>1, MapOfHolder
  <1>4. CASE Overruns(m)
    <2>1. Spoil(h)
      BY <1>4 DEF Add
    <2> QED
      BY <1>1, <1>4, <2>1, SpoilKeeps
  <1>5. CASE ~Overruns(m)
    <2>1. Changed(h, FALSE, d)
      BY <1>5 DEF Add, Change, Changed
    <2>2. ~Has(m, k)
      BY <1>1, <1>3, FindIs DEF Has
    <2>3. Rehashes(m, FALSE) \/ m.off < m.capacity
      <3>1. m.off \in Nat /\ m.capacity \in Nat
        BY <1>3, MapSizes DEF Coherent, Shape
      <3>2. m.off >= m.capacity \/ m.off < m.capacity
        BY <3>1
      <3> QED
        BY <1>5, <3>2, Zenon DEF Overruns
    <2>4. Coherent(r) /\ r.n = m.n /\ ~Has(r, k) /\ r.off < r.capacity
      BY <1>3, <2>2, <2>3, RehashedOK
    <2> HIDE DEF m, r
    <2>5. Coherent(d) /\ Grown(r, d, k)
      BY <2>4, InsertCoherent
    <2>6. SameFlags(r, d) /\ d.n <= m.n + 1
      BY <1>3, <2>4, <2>5 DEF Grown
    <2> HIDE DEF d
    <2> QED
      BY <1>1, <1>2, <2>1, <2>5, <2>6, ChangeKeeps DEF m, r
  <1> QED
    BY <1>4, <1>5

(* handlebars_map_update.                                                  *)
LEMMA UpdateKeeps ==
    ASSUME MapInv, NEW h \in Holders, NEW k \in Keys, NEW v \in Values, Update(h, k, v)
    PROVE  MapInv' /\ (NoneBreaks \/ (Spoil(h) /\ Overruns(Map(h))))
  <1> DEFINE m == Map(h)
             r == Rehashed(m, FALSE)
             d == UpdateEntry(r, k, v)
             spoils == Find(m, k) = Absent /\ Overruns(m)
  <1>1. MayChange(h) /\ HasMap(h) /\ ~m.lost
    BY DEF Update, MayChange
  <1>2. \A i \in 1 .. Len(loops) : ref[loops[i].holder] # ref[h]
    BY <1>1, MarkedFor
  <1>3. Coherent(m) /\ m.n + 1 < MaxCapacity /\ m.n \in Nat
    <2>1. Count
      BY DEF Update, Change, Spoil
    <2> QED
      BY <1>1, <2>1, MapOfHolder
  <1>4. CASE spoils
    <2>1. Spoil(h)
      BY <1>4 DEF Update
    <2> QED
      BY <1>1, <1>4, <2>1, SpoilKeeps
  <1>5. CASE ~spoils
    <2>1. Changed(h, FALSE, d)
      BY <1>5 DEF Update, Change, Changed
    <2>2. Has(m, k) \/ Rehashes(m, FALSE) \/ m.off < m.capacity
      <3>1. m.off \in Nat /\ m.capacity \in Nat
        BY <1>3, MapSizes DEF Coherent, Shape
      <3>2. ~Has(m, k) => Find(m, k) = Absent
        BY <1>3, FindIs
      <3>3. m.off >= m.capacity \/ m.off < m.capacity
        BY <3>1
      <3> QED
        BY <1>5, <3>2, <3>3, Zenon DEF Overruns
    <2>3. Coherent(r) /\ r.n = m.n /\ (Has(r, k) \/ r.off < r.capacity)
      BY <1>3, <2>2, RehashedOK
    <2> HIDE DEF m, r, spoils
    <2>4. Coherent(d) /\ (Shrunk(r, d) \/ Grown(r, d, k))
      BY <2>3, UpdateCoherent
    <2> HIDE DEF d
    <2>5. d.n \in Nat
      BY <2>4, ShrunkSelf
    <2>6. SameFlags(r, d) /\ d.n <= m.n + 1
      BY <1>3, <2>3, <2>4, <2>5 DEF Grown, Shrunk
    <2> QED
      BY <1>1, <1>2, <2>1, <2>4, <2>6, ChangeKeeps DEF m, r
  <1> QED
    BY <1>4, <1>5

(* handlebars_map_sort.                                                    *)
LEMMA SortKeeps ==
    ASSUME MapInv, NEW h \in Holders, Sort(h)
    PROVE  MapInv' /\ (NoneBreaks \/ (Spoil(h) /\ IsSparse(Rehashed(Map(h), IsSparse(Map(h))))))
  <1> DEFINE m == Map(h)
             force == IsSparse(m)
             r == Rehashed(m, force)
  <1>1. MayChange(h) /\ HasMap(h) /\ ~m.lost
    BY DEF Sort, MayChange
  <1>2. \A i \in 1 .. Len(loops) : ref[loops[i].holder] # ref[h]
    BY <1>1, MarkedFor
  <1>3. CASE IsSparse(r)
    <2>1. Spoil(h)
      BY <1>3 DEF Sort
    <2> QED
      BY <1>1, <1>3, <2>1, SpoilKeeps
  <1>4. CASE ~IsSparse(r)
    <2>1. PICK p \in [1 .. r.n -> 1 .. r.n] :
              /\ \A i, j \in 1 .. r.n : i # j => p[i] # p[j]
              /\ Change(h, force, LAMBDA x : Sorted(x, p))
      BY <1>4 DEF Sort
    <2> DEFINE d == Sorted(r, p)
    <2>2. Changed(h, force, d) /\ Count
      BY <2>1 DEF Change, Changed
    <2>3. Coherent(m) /\ m.n + 1 < MaxCapacity /\ m.n \in Nat
      BY <1>1, <2>2, MapOfHolder
    <2>4. Coherent(r) /\ r.n = m.n
      BY <2>3, RehashedOK
    <2>5. r.n = r.off
      BY <1>4 DEF IsSparse
    <2> HIDE DEF m, force, r
    <2>6. Coherent(d) /\ d.n = r.n /\ SameFlags(r, d)
      BY <2>1, <2>4, <2>5, SortCoherent
    <2> HIDE DEF d
    <2>7. d.n <= m.n + 1
      BY <2>3, <2>4, <2>6
    <2> QED
      BY <1>1, <1>2, <2>2, <2>6, <2>7, ChangeKeeps DEF m, r
  <1> QED
    BY <1>3, <1>4

(* handlebars_map_remove, in a loop over the map or outside of one.        *)
LEMMA RemoveKeeps ==
    ASSUME MapInv, NEW h \in Holders, NEW k \in Keys, Remove(h, k)
    PROVE  MapInv' /\ NoneBreaks
  <1> DEFINE m == Map(h)
             force == LoadFactor(m) < 10
             r == Rehashed(m, force)
             d == RemoveEntry(r, k)
  <1>1. MayRemove(h) /\ Changed(h, force, d) /\ Count
    BY DEF Remove, Change, Changed
  <1>2. Owned /\ LoopsInv /\ LockInv
    BY DEF MapInv
  <1> DEFINE inner == /\ InnerIs(h, TRUE) /\ Map(h).rc = 1
                      /\ \A i \in 1 .. Len(loops) - 1 : loops[i].holder # h
  <1>3. ASSUME inner
        PROVE  /\ HasMap(h) /\ ~m.lost
               /\ \A i \in 1 .. Len(loops) : ref[loops[i].holder] = ref[h] => loops[i].foreach
    <2>0. PICK n : n = Len(loops)
      OBVIOUS
    <2>1. IsSeq(loops) /\ loops # << >> /\ loops[n].holder = h /\ loops[n].foreach = TRUE /\ n \in Nat
      BY <1>2, <1>3, <2>0 DEF InnerIs, Inner, LoopsInv, IsSeq
    <2>2. n \in 1 .. Len(loops)
      <3>1. n # 0
        BY <2>0, <2>1, EmptyIsSeq, EqualSeq
      <3> QED
        BY <2>0, <2>1, <3>1
    <2>3. FrameOK(n)
      BY <1>2, <2>2 DEF LoopsInv
    <2>4. HasMap(h) /\ ~m.lost
      BY <2>1, <2>3 DEF FrameOK, Map
    <2>5. Users(ref[h]) = {h}
      <3>1. Cardinality(Users(ref[h])) = 1
        BY <1>2, <1>3, <2>4 DEF Owned, Map
      <3>2. IsFiniteSet(Users(ref[h]))
        <4>1. Users(ref[h]) \in SUBSET Holders
          BY DEF Users
        <4> QED
          BY <4>1, HbsMapAssumption, FS_Subset
      <3>3. PICK x : Users(ref[h]) = {x}
        BY <3>1, <3>2, FS_Singleton
      <3>4. h \in Users(ref[h])
        BY DEF Users
      <3> QED
        BY <3>3, <3>4
    <2>6. ASSUME NEW i \in 1 .. Len(loops), ref[loops[i].holder] = ref[h]
          PROVE  loops[i].foreach
      <3>1. loops[i].holder \in Holders
        BY <1>2, LoopHolds
      <3>2. loops[i].holder = h
        BY <2>5, <2>6, <3>1 DEF Users
      <3>3. i = n
        BY <1>3, <2>0, <2>1, <3>2
      <3> QED
        BY <2>1, <3>3
    <2> QED
      BY <2>4, <2>6
  <1>4. HasMap(h) /\ ~m.lost
    BY <1>1, <1>3 DEF MayRemove, MayChange
  <1>5. Coherent(m) /\ m.n + 1 < MaxCapacity /\ m.n \in Nat
    BY <1>1, <1>4, MapOfHolder
  <1>6. Coherent(r) /\ r.n = m.n /\ (~Rehashes(m, force) => r = m)
    BY <1>5, RehashedOK
  <1>7. \A i \in 1 .. Len(loops) :
            ref[loops[i].holder] = ref[h] => loops[i].foreach /\ m.iter
    <2>1. CASE MayChange(h)
      BY <2>1, MarkedFor
    <2>2. CASE inner
      <3>1. ASSUME NEW i \in 1 .. Len(loops), ref[loops[i].holder] = ref[h]
            PROVE  m.iter
        <4>1. Len(loops) \in Nat /\ (Len(loops) + 1) - 1 = Len(loops)
          BY <1>2 DEF LoopsInv, IsSeq
        <4>2. Before(Len(loops) + 1, ref[h])
          BY <3>1, <4>1 DEF Before
        <4>3. ref[h] \in DOMAIN heap /\ m = heap[ref[h]]
          BY <1>2, <1>4 DEF Owned, Map
        <4> QED
          BY <1>2, <4>2, <4>3 DEF LockInv
      <3> QED
        BY <1>3, <2>2, <3>1
    <2> QED
      BY <1>1, <2>1, <2>2 DEF MayRemove
  <1>8. m.iter => r = m
    BY <1>6 DEF Rehashes
  <1> HIDE DEF m, force, r, inner
  <1>9. Coherent(d) /\ Shrunk(r, d)
    BY <1>6, RemoveCoherent
  <1> HIDE DEF d
  <1>10. d.n \in Nat
    BY <1>9, ShrunkSelf
  <1>11. SameFlags(r, d) /\ d.n <= m.n + 1 /\ (m.iter => Shrunk(m, d))
    BY <1>5, <1>6, <1>8, <1>9, <1>10 DEF Shrunk
  <1> QED
    BY <1>1, <1>4, <1>7, <1>9, <1>11, ChangeKeeps DEF m, r

-----------------------------------------------------------------------------
(* Loops *)

(* g is f with another map at a.                                           *)
OneMap(f, g, a, d) ==
    /\ DOMAIN g = DOMAIN f /\ g[a] = d
    /\ \A x \in DOMAIN f : x # a => g[x] = f[x]
    /\ g = [x \in DOMAIN g |-> g[x]]

(* An assignment through a pointer changes one map of the heap.            *)
LEMMA OneMapNew ==
    ASSUME NEW f, f = [x \in DOMAIN f |-> f[x]], NEW a \in DOMAIN f, NEW d, NEW g, g = [f EXCEPT ![a] = d]
    PROVE  OneMap(f, g, a, d)
  BY DEF OneMap

(* A loop over h's map begins.  When others are running already, the map   *)
(* stays as it is.                                                         *)
LEMMA BeginKeeps ==
    ASSUME MapInv, NEW h \in Holders, HasMap(h), NEW a, a = ref[h], NEW d, NEW f,
           heap' = [heap EXCEPT ![a] = d], loops' = Append(loops, f),
           UNCHANGED <<ref, stuck, changes>>,
           MapOK(d, changes), d.rc = heap[a].rc, d.iter = TRUE,
           heap[a].iter => Alike(heap[a], d) /\ d.lost = heap[a].lost,
           DOMAIN f = FrameFields, f.holder = h, f.index \in Nat, f.foreach \in BOOLEAN,
           f.old = heap[a].iter, f.foreach \/ ~f.old, f.foreach => ~d.lost,
           ~d.lost => SeenTo(d, f) /\ (f.foreach \/ d.n = d.off)
    PROVE  MapInv'
  <1>1. Owned /\ MapsInv /\ LoopsInv /\ LockInv
    BY DEF MapInv
  <1>2. a \in DOMAIN heap /\ heap = [x \in DOMAIN heap |-> heap[x]]
    BY <1>1 DEF Owned
  <1>3. heap' = [heap EXCEPT ![a] = d]
    OBVIOUS
  <1>4. /\ DOMAIN heap' = DOMAIN heap /\ heap'[a] = d
        /\ \A x \in DOMAIN heap : x # a => heap'[x] = heap[x]
        /\ heap' = [x \in DOMAIN heap' |-> heap'[x]]
    <2>1. OneMap(heap, heap', a, d)
      BY <1>2, <1>3, OneMapNew
    <2> QED
      BY <2>1 DEF OneMap
  <1>5. \A x : Users(x)' = Users(x)
    BY DEF Users
  <1>6. PICK n : n = Len(loops)
    OBVIOUS
  <1>7. /\ n \in Nat /\ IsSeq(loops) /\ IsSeq(loops') /\ Len(loops') = n + 1
        /\ \A i \in 1 .. n : loops'[i] = loops[i]
        /\ loops'[n + 1] = f
    <2>1. IsSeq(loops) /\ n \in Nat
      BY <1>1, <1>6 DEF LoopsInv, IsSeq
    <2> QED
      BY <1>6, <2>1, AppendSeq
  <1>8. ASSUME NEW x, NEW i \in 1 .. n + 1 PROVE Before(i, x)' <=> Before(i, x)
    <2>1. \A j \in 1 .. i - 1 : loops'[j] = loops[j]
      BY <1>7
    <2> QED
      BY <2>1 DEF Before
  <1>9. Owned'
    <2>1. \A x \in DOMAIN heap' : Users(x)' # {} /\ heap'[x].rc = Cardinality(Users(x)')
      <3> SUFFICES ASSUME NEW x \in DOMAIN heap
                   PROVE  Users(x)' # {} /\ heap'[x].rc = Cardinality(Users(x)')
        BY <1>4
      <3>1. heap'[x].rc = heap[x].rc
        BY <1>4
      <3>2. Users(x) # {} /\ heap[x].rc = Cardinality(Users(x))
        BY <1>1 DEF Owned
      <3> QED
        BY <1>5, <3>1, <3>2
    <2>2. \A g \in Holders : HasMap(g)' => ref'[g] \in DOMAIN heap'
      BY <1>1, <1>4 DEF Owned, HasMap
    <2> QED
      BY <1>1, <1>4, <2>1, <2>2 DEF Owned
  <1>10. MapsInv'
    BY <1>1, <1>4 DEF MapsInv
  <1>11. ASSUME NEW i \in 1 .. n PROVE FrameOK(i)'
    <2>0. PICK g, x : g = loops[i] /\ x = ref[g.holder]
      OBVIOUS
    <2>1. FrameOK(i) /\ i \in 1 .. n + 1 /\ loops'[i] = g
      BY <1>1, <1>6, <1>7, <2>0 DEF LoopsInv
    <2>2. x \in DOMAIN heap
      BY <1>1, <1>6, <2>0, LoopHolds
    <2> DEFINE m == heap[x]
               c == heap'[x]
    <2>3. /\ DOMAIN g = FrameFields /\ g.index \in Nat /\ g.foreach \in BOOLEAN
          /\ g.old \in BOOLEAN /\ g.holder \in Holders /\ HasMap(g.holder)
          /\ g.old <=> Before(i, x)
          /\ g.foreach \/ ~g.old
          /\ g.foreach => ~m.lost
          /\ ~m.lost => SeenTo(m, g) /\ (g.foreach \/ m.n = m.off)
      BY <2>0, <2>1 DEF FrameOK
    <2>4. c.lost = m.lost /\ c.n = m.n /\ c.off = m.off /\ c.vec = m.vec
      <3>1. CASE x # a
        BY <1>4, <2>2, <3>1
      <3>2. CASE x = a
        <4>1. Before(n + 1, a)
          <5>1. i \in 1 .. (n + 1) - 1
            BY <1>7
          <5> QED
            BY <2>0, <3>2, <5>1 DEF Before
        <4>2. heap[a].iter
          BY <1>1, <1>2, <1>6, <4>1 DEF LockInv
        <4> QED
          BY <1>4, <3>2, <4>2 DEF Alike
      <3> QED
        BY <3>1, <3>2
    <2>5. SeenTo(c, g) <=> SeenTo(m, g)
      BY <2>4 DEF SeenTo, Live
    <2>6. g.old <=> Before(i, x)'
      BY <1>8, <2>1, <2>3
    <2>7. HasMap(g.holder)' /\ ref'[g.holder] = x /\ heap'[ref'[g.holder]] = c
      BY <2>0, <2>3 DEF HasMap
    <2> HIDE DEF m, c
    <2> QED
      BY <2>0, <2>1, <2>3, <2>4, <2>5, <2>6, <2>7 DEF FrameOK
  <1>12. FrameOK(n + 1)'
    <2>1. n + 1 \in 1 .. n + 1
      BY <1>7
    <2>2. heap[a].iter <=> Before(n + 1, a)
      BY <1>1, <1>2, <1>6 DEF LockInv
    <2>3. f.old <=> Before(n + 1, a)'
      BY <1>8, <2>1, <2>2
    <2>4. f.old \in BOOLEAN
      BY <1>1, <1>2 DEF MapsInv, MapOK
    <2>5. HasMap(h)' /\ ref'[h] = a
      BY DEF HasMap
    <2>6. loops'[n + 1] = f /\ heap'[ref'[f.holder]] = d /\ ref'[f.holder] = a
      BY <1>4, <1>7
    <2> QED
      BY <2>3, <2>4, <2>5, <2>6 DEF FrameOK
  <1>13. LoopsInv'
    <2>1. \A i \in 1 .. n + 1 : i \in 1 .. n \/ i = n + 1
      BY <1>7
    <2> QED
      BY <1>7, <1>11, <1>12, <2>1 DEF LoopsInv
  <1>14. LockInv'
    <2>1. \A x : Before(n + 2, x)' <=> Before(n + 1, x) \/ x = a
      <3>1. \A j \in 1 .. n : loops'[j] = loops[j]
        BY <1>7
      <3>2. \A j \in 1 .. n + 1 : j \in 1 .. n \/ j = n + 1
        BY <1>7
      <3>3. ref'[loops'[n + 1].holder] = a /\ n + 1 \in 1 .. n + 1 /\ 1 .. n \subseteq 1 .. n + 1
        BY <1>7
      <3>4. (n + 2) - 1 = n + 1 /\ (n + 1) - 1 = n
        BY <1>7
      <3> QED
        BY <3>1, <3>2, <3>3, <3>4 DEF Before
    <2>2. \A x \in DOMAIN heap : heap[x].iter <=> Before(n + 1, x)
      BY <1>1, <1>6 DEF LockInv
    <2>3. \A x \in DOMAIN heap : heap'[x].iter <=> Before(n + 1, x) \/ x = a
      BY <1>4, <2>2
    <2>4. \A x \in DOMAIN heap' : heap'[x].iter <=> Before(n + 2, x)'
      BY <1>4, <2>1, <2>3
    <2>5. Len(loops') + 1 = n + 2
      BY <1>7
    <2> QED
      BY <1>1, <1>4, <2>4, <2>5 DEF LockInv
  <1> QED
    BY <1>9, <1>10, <1>13, <1>14 DEF MapInv

(* The innermost loop.                                                     *)
LEMMA InnerFrame ==
    ASSUME MapInv, loops # << >>
    PROVE  /\ Len(loops) \in Nat /\ Len(loops) \in 1 .. Len(loops) /\ IsSeq(loops)
           /\ Inner = loops[Len(loops)] /\ FrameOK(Len(loops))
           /\ Inner.holder \in Holders /\ HasMap(Inner.holder)
           /\ ref[Inner.holder] \in DOMAIN heap
  <1>1. Owned /\ LoopsInv /\ IsSeq(loops) /\ Len(loops) \in Nat
    BY DEF MapInv, LoopsInv, IsSeq
  <1>2. Len(loops) # 0
    BY <1>1, EmptyIsSeq, EqualSeq
  <1>3. Len(loops) \in 1 .. Len(loops)
    BY <1>1, <1>2
  <1>4. FrameOK(Len(loops)) /\ Inner = loops[Len(loops)]
    BY <1>1, <1>3 DEF LoopsInv, Inner
  <1> QED
    BY <1>1, <1>3, <1>4, LoopHolds

(* The innermost loop comes to its end, and restores the flag it has met.  *)
LEMMA LeaveKeeps ==
    ASSUME MapInv, loops # << >>, NEW b, b = Inner.old, Leave(b),
           UNCHANGED <<ref, stuck, changes>>
    PROVE  MapInv'
  <1>1. Owned /\ MapsInv /\ LoopsInv /\ LockInv
    BY DEF MapInv
  <1>2. PICK n, g, a : n = Len(loops) - 1 /\ g = Inner /\ a = ref[g.holder]
    OBVIOUS
  <1>3. /\ n \in Nat /\ n + 1 = Len(loops) /\ g = loops[n + 1] /\ FrameOK(n + 1)
        /\ a \in DOMAIN heap /\ IsSeq(loops)
    BY <1>2, InnerFrame
  <1>4. b \in BOOLEAN /\ (b <=> Before(n + 1, a))
    BY <1>2, <1>3 DEF FrameOK
  <1>5. heap' = [heap EXCEPT ![a].iter = b] /\ loops' = SubSeq(loops, 1, n)
    BY <1>2 DEF Leave, SetIsInIteration
  <1>6. /\ IsSeq(loops') /\ Len(loops') = n
        /\ \A i \in 1 .. n : loops'[i] = loops[i]
    <2>1. n \in 0 .. Len(loops)
      BY <1>3
    <2> QED
      BY <1>3, <1>5, <2>1, PrefixSeq
  <1> DEFINE m == heap[a]
             d == [m EXCEPT !.iter = b]
  <1>7. MapOK(m, changes) /\ DOMAIN m = MapFields
    BY <1>1, <1>3 DEF MapsInv, MapOK
  <1>8. Alike(m, d) /\ d.lost = m.lost /\ d.rc = m.rc /\ d.iter = b
    BY <1>7 DEF Alike, MapFields
  <1>9. heap = [x \in DOMAIN heap |-> heap[x]] /\ heap' = [heap EXCEPT ![a] = d]
    BY <1>1, <1>5 DEF Owned
  <1> HIDE DEF d
  <1>10. heap' = [x \in DOMAIN heap |-> IF x = a THEN d ELSE heap[x]]
    BY <1>9
  <1>11. /\ DOMAIN heap' = DOMAIN heap /\ heap'[a] = d
         /\ \A x \in DOMAIN heap : x # a => heap'[x] = heap[x]
         /\ heap' = [x \in DOMAIN heap' |-> heap'[x]]
    BY <1>3, <1>10
  <1>12. \A x \in DOMAIN heap :
            /\ heap'[x].lost = heap[x].lost /\ heap'[x].rc = heap[x].rc
            /\ heap'[x].n = heap[x].n /\ heap'[x].off = heap[x].off /\ heap'[x].vec = heap[x].vec
    BY <1>8, <1>11 DEF Alike
  <1>13. Owned'
    <2>1. \A x : Users(x)' = Users(x)
      BY DEF Users
    <2>2. \A x \in DOMAIN heap' : Users(x)' # {} /\ heap'[x].rc = Cardinality(Users(x)')
      <3> SUFFICES ASSUME NEW x \in DOMAIN heap
                   PROVE  Users(x)' # {} /\ heap'[x].rc = Cardinality(Users(x)')
        BY <1>11
      <3>1. Users(x) # {} /\ heap[x].rc = Cardinality(Users(x))
        BY <1>1 DEF Owned
      <3> QED
        BY <1>12, <2>1, <3>1
    <2>3. \A h \in Holders : HasMap(h)' => ref'[h] \in DOMAIN heap'
      BY <1>1, <1>11 DEF Owned, HasMap
    <2> QED
      BY <1>1, <1>11, <2>2, <2>3 DEF Owned
  <1>14. MapsInv'
    <2>1. MapOK(d, changes)
      <3>1. d.iter \in BOOLEAN /\ d.lost \in BOOLEAN /\ DOMAIN d = MapFields /\ d.n = m.n
        BY <1>4, <1>7, <1>8 DEF MapOK, Alike
      <3>2. ~d.lost => Coherent(d) /\ d.n <= changes
        BY <1>7, <1>8, <3>1, AlikeCoherent DEF MapOK
      <3> QED
        BY <3>1, <3>2 DEF MapOK
    <2> QED
      BY <1>1, <1>11, <2>1 DEF MapsInv
  <1>15. ASSUME NEW x, NEW i \in 1 .. n + 1 PROVE Before(i, x)' <=> Before(i, x)
    <2>1. \A j \in 1 .. i - 1 : loops'[j] = loops[j]
      BY <1>3, <1>6
    <2> QED
      BY <2>1 DEF Before
  <1>16. ASSUME NEW i \in 1 .. n PROVE FrameOK(i)'
    <2>0. PICK f, x : f = loops[i] /\ x = ref[f.holder]
      OBVIOUS
    <2>1. i \in 1 .. Len(loops) /\ i \in 1 .. n + 1
      BY <1>3
    <2>2. FrameOK(i) /\ loops'[i] = f /\ x \in DOMAIN heap
      BY <1>1, <1>6, <2>0, <2>1, LoopHolds DEF LoopsInv
    <2> DEFINE e == heap[x]
               c == heap'[x]
    <2>3. /\ DOMAIN f = FrameFields /\ f.index \in Nat /\ f.foreach \in BOOLEAN
          /\ f.old \in BOOLEAN /\ f.holder \in Holders /\ HasMap(f.holder)
          /\ f.old <=> Before(i, x)
          /\ f.foreach \/ ~f.old
          /\ f.foreach => ~e.lost
          /\ ~e.lost => SeenTo(e, f) /\ (f.foreach \/ e.n = e.off)
      BY <2>0, <2>2 DEF FrameOK
    <2>4. c.lost = e.lost /\ c.n = e.n /\ c.off = e.off /\ c.vec = e.vec
      BY <1>12, <2>2
    <2>5. SeenTo(c, f) <=> SeenTo(e, f)
      BY <2>4 DEF SeenTo, Live
    <2>6. f.old <=> Before(i, x)'
      BY <1>15, <2>1, <2>3
    <2>7. HasMap(f.holder)' /\ ref'[f.holder] = x /\ heap'[ref'[f.holder]] = c
      BY <2>0, <2>3 DEF HasMap
    <2> HIDE DEF e, c
    <2> QED
      BY <2>0, <2>2, <2>3, <2>4, <2>5, <2>6, <2>7 DEF FrameOK
  <1>17. LoopsInv'
    BY <1>6, <1>16 DEF LoopsInv
  <1>18. LockInv'
    <2>1. n + 1 \in 1 .. n + 1
      BY <1>3
    <2>2. \A x : Before(n + 1, x)' <=> Before(n + 1, x)
      BY <1>15, <2>1
    <2>3. \A x : x # a => (Before(n + 2, x) <=> Before(n + 1, x))
      <3>1. (n + 2) - 1 = n + 1 /\ (n + 1) - 1 = n /\ 1 .. n \subseteq 1 .. n + 1
        BY <1>3
      <3>2. \A j \in 1 .. n + 1 : j \in 1 .. n \/ j = n + 1
        BY <1>3
      <3>3. ref[loops[n + 1].holder] = a
        BY <1>2, <1>3
      <3> QED
        BY <3>1, <3>2, <3>3 DEF Before
    <2>4. Len(loops) + 1 = n + 2 /\ Len(loops') + 1 = n + 1
      BY <1>3, <1>6
    <2>5. \A x \in DOMAIN heap : heap[x].iter <=> Before(n + 2, x)
      BY <1>1, <2>4 DEF LockInv
    <2>6. \A x \in DOMAIN heap : heap'[x].iter <=> Before(n + 1, x)
      <3> SUFFICES ASSUME NEW x \in DOMAIN heap PROVE heap'[x].iter <=> Before(n + 1, x)
        OBVIOUS
      <3>1. CASE x = a
        BY <1>4, <1>8, <1>11, <3>1
      <3>2. CASE x # a
        BY <1>11, <2>3, <2>5, <3>2
      <3> QED
        BY <3>1, <3>2
    <2>7. \A x \in DOMAIN heap' : heap'[x].iter <=> Before(n + 1, x)'
      BY <1>11, <2>2, <2>6
    <2> QED
      BY <1>1, <1>11, <2>4, <2>7 DEF LockInv
  <1> QED
    BY <1>13, <1>14, <1>17, <1>18 DEF MapInv

(* The innermost loop goes on to the next place.                           *)
LEMMA VisitKeeps ==
    ASSUME MapInv, loops # << >>, Visit(Inner.index + 1), UNCHANGED <<heap, ref, stuck, changes>>
    PROVE  MapInv'
  <1>1. Owned /\ MapsInv /\ LoopsInv /\ LockInv
    BY DEF MapInv
  <1>2. PICK n, f, a : n = Len(loops) /\ f = Inner /\ a = ref[f.holder]
    OBVIOUS
  <1>3. /\ n \in Nat /\ n \in 1 .. Len(loops) /\ f = loops[n] /\ FrameOK(n)
        /\ a \in DOMAIN heap /\ IsSeq(loops)
    BY <1>2, InnerFrame
  <1>a. PICK m : m = heap[a]
    OBVIOUS
  <1> DEFINE e == m.vec[f.index + 1]
             seen == IF e = Gone THEN f.seen ELSE f.seen \cup {e.key}
  <1>b. PICK g : g = [f EXCEPT !.index = f.index + 1, !.seen = seen]
    OBVIOUS
  <1>4. /\ DOMAIN f = FrameFields /\ f.index \in Nat /\ f.foreach \in BOOLEAN
        /\ f.old \in BOOLEAN /\ f.holder \in Holders /\ HasMap(f.holder)
        /\ f.old <=> Before(n, a)
        /\ f.foreach \/ ~f.old
        /\ f.foreach => ~m.lost
        /\ ~m.lost => SeenTo(m, f) /\ (f.foreach \/ m.n = m.off)
    BY <1>2, <1>3, <1>a DEF FrameOK
  <1>5. loops' = [loops EXCEPT ![n] = g]
    BY <1>2, <1>3, <1>4, <1>a, <1>b DEF Visit, Map, FrameFields
  <1>6. /\ DOMAIN g = FrameFields /\ g.index = f.index + 1 /\ g.seen = seen
        /\ g.holder = f.holder /\ g.foreach = f.foreach /\ g.old = f.old
    BY <1>4, <1>b DEF FrameFields
  <1>7. /\ IsSeq(loops') /\ Len(loops') = n
        /\ loops'[n] = g /\ \A i \in 1 .. n : i # n => loops'[i] = loops[i]
    <2>1. IsSeq(loops) /\ n \in 1 .. Len(loops)
      BY <1>3
    <2>2. /\ IsSeq(loops') /\ Len(loops') = Len(loops)
          /\ \A i \in 1 .. Len(loops) : loops'[i] = IF i = n THEN g ELSE loops[i]
      <3> DEFINE l == [loops EXCEPT ![n] = g]
      <3>1. /\ IsSeq(l) /\ Len(l) = Len(loops)
            /\ \A i \in 1 .. Len(loops) : l[i] = IF i = n THEN g ELSE loops[i]
        BY <2>1, ReplaceSeq
      <3> HIDE DEF l
      <3> QED
        BY <1>5, <3>1 DEF l
    <2> QED
      BY <1>2, <2>1, <2>2
  <1>8. \A i \in 1 .. n : loops'[i].holder = loops[i].holder
    BY <1>3, <1>6, <1>7
  <1>9. ASSUME NEW i \in 1 .. n + 1, NEW x PROVE Before(i, x)' <=> Before(i, x)
    <2>1. \A j \in 1 .. i - 1 : loops'[j].holder = loops[j].holder
      BY <1>3, <1>8
    <2> QED
      BY <2>1 DEF Before
  <1>10. Owned'
    BY <1>1 DEF Owned, Users, HasMap
  <1>11. MapsInv'
    BY <1>1 DEF MapsInv
  <1>12. ASSUME NEW i \in 1 .. n, i # n PROVE FrameOK(i)'
    <2>0. PICK c, x : c = loops[i] /\ x = ref[c.holder]
      OBVIOUS
    <2>1. FrameOK(i) /\ loops'[i] = c /\ i \in 1 .. n + 1
      BY <1>1, <1>2, <1>3, <1>7, <1>12, <2>0 DEF LoopsInv
    <2>2. /\ DOMAIN c = FrameFields /\ c.index \in Nat /\ c.foreach \in BOOLEAN
          /\ c.old \in BOOLEAN /\ c.holder \in Holders /\ HasMap(c.holder)
          /\ c.old <=> Before(i, x)
          /\ c.foreach \/ ~c.old
          /\ c.foreach => ~heap[x].lost
          /\ ~heap[x].lost => SeenTo(heap[x], c) /\ (c.foreach \/ heap[x].n = heap[x].off)
      BY <2>0, <2>1 DEF FrameOK
    <2>3. c.old <=> Before(i, x)'
      BY <1>9, <2>1, <2>2
    <2>4. HasMap(c.holder)' /\ ref'[c.holder] = x /\ heap'[ref'[c.holder]] = heap[x]
      BY <2>0, <2>2 DEF HasMap
    <2> QED
      BY <2>0, <2>1, <2>2, <2>3, <2>4 DEF FrameOK
  <1>13. FrameOK(n)'
    <2>1. f.old <=> Before(n, a)'
      <3>1. n \in 1 .. n + 1
        BY <1>3
      <3> QED
        BY <1>4, <1>9, <3>1
    <2>2. ASSUME ~m.lost PROVE SeenTo(m, g)
      <3> SUFFICES ASSUME NEW x \in Live(m), x <= f.index + 1
                   PROVE  m.vec[x].key \in seen
        BY <1>6 DEF SeenTo
      <3>1. Coherent(m)
        BY <1>1, <1>3, <1>a, <2>2 DEF MapsInv, MapOK
      <3>2. x \in Nat
        BY <3>1, MapSizes DEF Coherent
      <3>3. SeenTo(m, f)
        BY <1>4, <2>2
      <3>4. CASE x <= f.index
        BY <3>3, <3>4 DEF SeenTo
      <3>5. CASE ~(x <= f.index)
        <4>1. x = f.index + 1
          BY <1>4, <3>2, <3>5
        <4>2. m.vec[x] # Gone
          BY DEF Live
        <4> QED
          BY <4>1, <4>2
      <3> QED
        BY <3>4, <3>5
    <2>3. HasMap(g.holder)' /\ ref'[g.holder] = a /\ heap'[ref'[g.holder]] = m
      BY <1>2, <1>4, <1>6, <1>a DEF HasMap
    <2>4. g.index \in Nat
      BY <1>4, <1>6
    <2> HIDE DEF seen
    <2> QED
      BY <1>4, <1>6, <1>7, <2>1, <2>2, <2>3, <2>4 DEF FrameOK
  <1>14. LoopsInv'
    BY <1>7, <1>12, <1>13 DEF LoopsInv
  <1>15. LockInv'
    <2>1. n + 1 \in 1 .. n + 1
      BY <1>3
    <2>2. \A x : Before(n + 1, x)' <=> Before(n + 1, x)
      BY <1>9, <2>1
    <2>3. \A x \in DOMAIN heap : heap[x].iter <=> Before(n + 1, x)
      BY <1>1, <1>2 DEF LockInv
    <2>4. \A x \in DOMAIN heap' : heap'[x].iter <=> Before(n + 1, x)'
      BY <2>2, <2>3
    <2> QED
      BY <1>1, <1>7, <2>4 DEF LockInv
  <1> QED
    BY <1>10, <1>11, <1>14, <1>15 DEF MapInv

(* An error leaves all loops at once: the flags of their maps stay set.    *)
LEMMA ThrownKeeps ==
    ASSUME MapInv, Thrown,
           \A x \in DOMAIN heap' : x \in DOMAIN heap /\ heap'[x].iter = heap[x].iter
    PROVE  LoopsInv' /\ LockInv'
  <1>1. LoopsInv /\ LockInv
    BY DEF MapInv
  <1>2. loops' = << >> /\ stuck' = (stuck \cup {ref[loops[i].holder] : i \in DOMAIN loops}) \cap DOMAIN heap'
    BY DEF Thrown
  <1>3. IsSeq(loops') /\ Len(loops') = 0
    BY <1>2, EmptyIsSeq
  <1>4. LoopsInv'
    BY <1>3 DEF LoopsInv
  <1>5. Len(loops) \in Nat /\ DOMAIN loops = 1 .. Len(loops)
    BY <1>1 DEF LoopsInv, IsSeq
  <1>6. \A x \in DOMAIN heap' : Before(Len(loops) + 1, x) <=> x \in stuck'
    <2>1. (Len(loops) + 1) - 1 = Len(loops)
      BY <1>5
    <2> QED
      BY <1>2, <1>5, <2>1 DEF Before
  <1>7. \A x : Before(Len(loops) + 1, x)' <=> x \in stuck'
    BY <1>3 DEF Before
  <1>8. \A x \in DOMAIN heap' : heap'[x].iter <=> x \in stuck'
    BY <1>1, <1>6 DEF LockInv
  <1>9. LockInv'
    BY <1>2, <1>7, <1>8 DEF LockInv
  <1> QED
    BY <1>4, <1>9

(* handlebars_throw in the body of a loop.                                 *)
LEMMA AbandonKeeps ==
    ASSUME MapInv, Abandon
    PROVE  MapInv' /\ NoneBreaks
  <1>1. Owned /\ MapsInv
    BY DEF MapInv
  <1>2. Thrown /\ UNCHANGED <<heap, ref, changes>>
    BY DEF Abandon
  <1>3. Owned'
    BY <1>1, <1>2 DEF Owned, Users, HasMap
  <1>4. MapsInv'
    BY <1>1, <1>2 DEF MapsInv
  <1>5. LoopsInv' /\ LockInv'
    BY <1>2, ThrownKeeps
  <1>6. NoneBreaks
    BY <1>2 DEF NoneBreaks
  <1> QED
    BY <1>3, <1>4, <1>5, <1>6 DEF MapInv

(* handlebars_map_add of a key that is there.                              *)
LEMMA AddAgainKeeps ==
    ASSUME MapInv, NEW h \in Holders, NEW k \in Keys, AddAgain(h, k)
    PROVE  MapInv' /\ NoneBreaks
  <1>1. Owned /\ MapsInv /\ HasMap(h) /\ Thrown /\ Count
    BY DEF MapInv, AddAgain, MayChange
  <1>2. \A x \in DOMAIN heap : Recounted(heap[x], heap[x])
    BY <1>1 DEF Recounted, Alike, MapsInv, MapOK
  <1>3. Owned' /\ \A x \in DOMAIN heap' : x \in DOMAIN heap /\ Recounted(heap[x], heap'[x])
    <2>1. CASE UNCHANGED <<heap, ref>>
      <3>1. Owned'
        BY <1>1, <2>1 DEF Owned, Users, HasMap
      <3> QED
        BY <1>2, <2>1, <3>1
    <2>2. CASE heap' = Delref(heap, ref[h]) /\ ref' = [ref EXCEPT ![h] = Dangling]
      <3>1. Owned' /\ Handed(h, Dangling) /\ DOMAIN heap' \subseteq DOMAIN heap
        BY <1>1, <2>2, LetGoHands
      <3> QED
        BY <3>1 DEF Handed
    <2> QED
      BY <2>1, <2>2 DEF AddAgain
  <1>4. MapsInv'
    BY <1>1, <1>3, MapsGrow
  <1>5. \A x \in DOMAIN heap' : heap'[x].iter = heap[x].iter /\ heap'[x].lost = heap[x].lost
    BY <1>3 DEF Recounted
  <1>6. LoopsInv' /\ LockInv'
    BY <1>1, <1>3, <1>5, ThrownKeeps
  <1>7. NoneBreaks
    BY <1>5 DEF NoneBreaks
  <1> QED
    BY <1>3, <1>4, <1>6, <1>7 DEF MapInv

(* handlebars_value_iterator_init.                                         *)
LEMMA IterInitKeeps ==
    ASSUME MapInv, NEW h \in Holders, IterInit(h)
    PROVE  MapInv'
  <1>0. PICK a : a = ref[h]
    OBVIOUS
  <1> DEFINE m == heap[a]
             c == Compacted(m)
             d == [c EXCEPT !.iter = TRUE]
             f == Frame(h, FALSE, 1, FALSE, {c.vec[1].key})
  <1>1. HasMap(h) /\ Map(h) = m /\ ~m.lost /\ UNCHANGED <<ref, stuck, changes>>
    BY <1>0 DEF IterInit, Map
  <1>2. a \in DOMAIN heap
    BY <1>0, <1>1 DEF MapInv, Owned
  <1>3. /\ Coherent(m) /\ m.n <= changes /\ m.iter \in BOOLEAN /\ m.lost = FALSE
        /\ DOMAIN m = MapFields
    BY <1>1, <1>2 DEF MapInv, MapsInv, MapOK
  <1>4. CASE m.iter
    <2>1. UNCHANGED <<heap, ref, loops, stuck, changes>>
      BY <1>1, <1>4 DEF IterInit
    <2>2. Owned'
      BY <2>1 DEF MapInv, Owned, Users, HasMap
    <2>3. MapsInv'
      BY <2>1 DEF MapInv, MapsInv
    <2>4. LoopsInv'
      BY <2>1 DEF MapInv, LoopsInv, FrameOK, HasMap, Before
    <2>5. LockInv'
      BY <2>1 DEF MapInv, LockInv, Before
    <2> QED
      BY <2>2, <2>3, <2>4, <2>5 DEF MapInv
  <1>5. CASE ~m.iter
    <2>1. heap' = [heap EXCEPT ![a] = d] /\ loops' = Append(loops, f)
      BY <1>0, <1>1, <1>5 DEF IterInit
    <2>2. DOMAIN c = MapFields /\ c.rc = m.rc /\ (IF IsSparse(m) THEN c.lost = TRUE ELSE c = m)
      <3>1. CASE ~IsSparse(m)
        BY <1>3, <3>1 DEF Compacted
      <3>2. CASE IsSparse(m)
        BY <1>3, <3>2 DEF Compacted, MapFields
      <3> QED
        BY <3>1, <3>2
    <2> HIDE DEF c
    <2>3. /\ DOMAIN d = MapFields /\ d.rc = m.rc /\ d.iter = TRUE /\ d.lost = c.lost
          /\ d.vec = c.vec /\ (~IsSparse(m) => Alike(m, d))
      BY <2>2 DEF MapFields, Alike
    <2>4. /\ DOMAIN f = FrameFields /\ f.holder = h /\ f.index = 1 /\ f.foreach = FALSE
          /\ f.old = FALSE /\ f.seen = {d.vec[1].key}
      BY <2>3 DEF Frame, FrameFields
    <2> HIDE DEF d, f
    <2>5. ASSUME ~d.lost
          PROVE  Coherent(d) /\ d.n <= changes /\ SeenTo(d, f) /\ d.n = d.off
      <3>1. ~IsSparse(m)
        BY <2>2, <2>3, <2>5
      <3>2. Alike(m, d) /\ d.n = m.n /\ d.off = m.off /\ m.off = m.n
        BY <2>3, <3>1 DEF Alike, IsSparse
      <3>3. Coherent(d)
        BY <1>3, <3>2, AlikeCoherent
      <3>4. SeenTo(d, f)
        <4>1. Live(d) \subseteq 1 .. d.off /\ d.off \in Nat
          BY <3>3, MapSizes DEF Coherent
        <4>2. \A x \in Live(d) : x <= 1 => x = 1
          BY <4>1
        <4> QED
          BY <2>4, <4>2 DEF SeenTo
      <3> QED
        BY <1>3, <3>2, <3>3, <3>4
    <2>6. d.lost \in BOOLEAN
      BY <1>3, <2>2, <2>3
    <2>7. MapOK(d, changes)
      BY <2>3, <2>5, <2>6 DEF MapOK
    <2>8. f.old = m.iter /\ f.foreach \in BOOLEAN
      BY <1>3, <1>5, <2>4
    <2>9. f.index \in Nat
      BY <2>4
    <2> QED
      BY <1>0, <1>1, <1>5, <2>1, <2>3, <2>4, <2>5, <2>7, <2>8, <2>9, BeginKeeps
  <1> QED
    BY <1>4, <1>5

(* handlebars_map_foreach.                                                 *)
LEMMA ForeachBeginKeeps ==
    ASSUME MapInv, NEW h \in Holders, ForeachBegin(h)
    PROVE  MapInv'
  <1>0. PICK a : a = ref[h]
    OBVIOUS
  <1> DEFINE m == heap[a]
             d == [m EXCEPT !.iter = TRUE]
             f == Frame(h, TRUE, 0, m.iter, {})
  <1>1. /\ HasMap(h) /\ ~m.lost /\ UNCHANGED <<ref, stuck, changes>>
        /\ heap' = [heap EXCEPT ![a] = d] /\ loops' = Append(loops, f)
    BY <1>0 DEF ForeachBegin, SetIsInIteration, Map
  <1>2. a \in DOMAIN heap
    BY <1>0, <1>1 DEF MapInv, Owned
  <1>3. /\ Coherent(m) /\ m.n <= changes /\ m.iter \in BOOLEAN /\ m.lost = FALSE
        /\ DOMAIN m = MapFields
    BY <1>1, <1>2 DEF MapInv, MapsInv, MapOK
  <1>4. Alike(m, d) /\ DOMAIN d = MapFields /\ d.rc = m.rc /\ d.iter = TRUE /\ d.lost = FALSE
    BY <1>3 DEF MapFields, Alike
  <1>5. /\ DOMAIN f = FrameFields /\ f.holder = h /\ f.index = 0 /\ f.foreach = TRUE
        /\ f.old = m.iter
    BY DEF Frame, FrameFields
  <1> HIDE DEF d, f
  <1>6. Coherent(d) /\ d.n <= changes
    BY <1>3, <1>4, AlikeCoherent DEF Alike
  <1>7. SeenTo(d, f)
    <2>1. Live(d) \subseteq 1 .. d.off /\ d.off \in Nat
      BY <1>6, MapSizes DEF Coherent
    <2>2. \A x \in Live(d) : ~(x <= 0)
      BY <2>1
    <2> QED
      BY <1>5, <2>2 DEF SeenTo
  <1>8. d.lost \in BOOLEAN /\ f.foreach \in BOOLEAN
    BY <1>4, <1>5
  <1>10. f.index \in Nat
    BY <1>5
  <1>9. MapOK(d, changes)
    BY <1>4, <1>6, <1>8 DEF MapOK
  <1> QED
    BY <1>0, <1>1, <1>3, <1>4, <1>5, <1>7, <1>8, <1>9, <1>10, BeginKeeps

(* handlebars_value_iterator_next_map and the turns of a foreach.          *)
LEMMA LoopNextKeeps ==
    ASSUME MapInv, NEW h \in Holders, IterNext(h) \/ ForeachNext(h)
    PROVE  MapInv'
  <1>1. loops # << >> /\ UNCHANGED <<ref, stuck, changes>>
    BY DEF IterNext, ForeachNext, InnerIs
  <1>2. Inner.old \in BOOLEAN /\ (Inner.foreach \/ ~Inner.old)
    BY <1>1, InnerFrame DEF FrameOK
  <1>3. CASE IterNext(h)
    <2>1. Inner.old = FALSE
      BY <1>2, <1>3 DEF IterNext, InnerIs
    <2>2. Leave(Inner.old) \/ (Visit(Inner.index + 1) /\ UNCHANGED heap)
      BY <1>3, <2>1 DEF IterNext
    <2> QED
      BY <1>1, <2>2, LeaveKeeps, VisitKeeps
  <1>4. CASE ForeachNext(h)
    <2>1. Leave(Inner.old) \/ (Visit(Inner.index + 1) /\ UNCHANGED heap)
      BY <1>4 DEF ForeachNext
    <2> QED
      BY <1>1, <2>1, LeaveKeeps, VisitKeeps
  <1> QED
    BY <1>3, <1>4

-----------------------------------------------------------------------------
(* Theorems *)

(* The invariant holds at the start.                                       *)
LEMMA InitMapInv == Init => MapInv
  <1> SUFFICES ASSUME Init PROVE MapInv
    OBVIOUS
  <1>1. DOMAIN heap = {} /\ heap = [a \in DOMAIN heap |-> heap[a]]
    BY DEF Init
  <1>2. ref \in [Holders -> Nat] /\ \A h \in Holders : ~HasMap(h)
    BY DEF Init, HasMap, None
  <1>3. Owned
    BY <1>1, <1>2 DEF Owned
  <1>4. changes = 0 /\ MaxChanges \in Nat
    BY SizeAssumption DEF Init
  <1>5. MapsInv
    BY <1>1, <1>4 DEF MapsInv
  <1>6. IsSeq(loops) /\ Len(loops) = 0
    BY EmptyIsSeq DEF Init
  <1>7. LoopsInv
    BY <1>6 DEF LoopsInv
  <1>8. LockInv
    BY <1>1 DEF LockInv, Init
  <1> QED
    BY <1>3, <1>5, <1>7, <1>8 DEF MapInv

(* Every step keeps the invariant: one step for each operation.            *)
LEMMA NextMapInv == MapInv /\ [Next]_vars => MapInv'
  <1> SUFFICES ASSUME MapInv, [Next]_vars PROVE MapInv'
    OBVIOUS
  <1>1. CASE Abandon
    BY <1>1, AbandonKeeps
  <1>2. ASSUME NEW h \in Holders, IterInit(h) PROVE MapInv'
    BY <1>2, IterInitKeeps
  <1>3. ASSUME NEW h \in Holders, IterNext(h) \/ ForeachNext(h) PROVE MapInv'
    BY <1>3, LoopNextKeeps
  <1>4. ASSUME NEW h \in Holders, ForeachBegin(h) PROVE MapInv'
    BY <1>4, ForeachBeginKeeps
  <1>5. ASSUME NEW h \in Holders, Sort(h) PROVE MapInv'
    BY <1>5, SortKeeps
  <1>6. ASSUME NEW h \in Holders, NEW c \in Capacities, New(h, c) PROVE MapInv'
    BY <1>6, NewKeeps
  <1>7. ASSUME NEW h \in Holders, NEW s \in Holders, Assign(h, s) PROVE MapInv'
    BY <1>7, AssignKeeps
  <1>8. ASSUME NEW h \in Holders, NEW k \in Keys, Remove(h, k) PROVE MapInv'
    BY <1>8, RemoveKeeps
  <1>9. ASSUME NEW h \in Holders, NEW k \in Keys, NEW v \in Values, Add(h, k, v) PROVE MapInv'
    BY <1>9, AddKeeps
  <1>10. ASSUME NEW h \in Holders, NEW k \in Keys, NEW v \in Values, Update(h, k, v) PROVE MapInv'
    BY <1>10, UpdateKeeps
  <1>11. CASE UNCHANGED vars
    <2>1. UNCHANGED <<heap, ref, loops, stuck, changes>>
      BY <1>11 DEF vars
    <2>2. Owned'
      BY <2>1 DEF MapInv, Owned, Users, HasMap
    <2>3. MapsInv'
      BY <2>1 DEF MapInv, MapsInv
    <2>4. LoopsInv'
      BY <2>1 DEF MapInv, LoopsInv, FrameOK, HasMap, Before
    <2>5. LockInv'
      BY <2>1 DEF MapInv, LockInv, Before
    <2> QED
      BY <2>2, <2>3, <2>4, <2>5 DEF MapInv
  <1>12. ASSUME NEW h \in Holders, NEW k \in Keys, AddAgain(h, k) PROVE MapInv'
    BY <1>12, AddAgainKeeps
  <1> QED
    BY <1>12, <1>1, <1>2, <1>3, <1>4, <1>5, <1>6, <1>7, <1>8, <1>9, <1>10, <1>11 DEF Next

(* The inductive invariant: every map that has not been broken is          *)
(* coherent, its count is the number of its holders, and it is locked by   *)
(* the loops over it, each of which has seen what lies behind it.          *)
THEOREM MapsCoherent == Spec => []MapInv
  <1>1. Init => MapInv
    BY InitMapInv
  <1>2. MapInv /\ [Next]_vars => MapInv'
    BY NextMapInv
  <1> QED
    BY <1>1, <1>2, PTL DEF Spec

(* handlebars_map_find gives the value that the vector has for a key and   *)
(* finds nothing else, however collisions, removals, sorts and rehashes of *)
(* shared maps have followed one another.                                  *)
THEOREM SearchFinds == Spec => []FindsEntries
  <1>1. MapInv => FindsEntries
    <2> SUFFICES ASSUME MapInv, NEW a \in Whole, NEW k \in Keys
                 PROVE  LET live == {i \in 1 .. heap[a].off :
                                        heap[a].vec[i] # Gone /\ heap[a].vec[i].key = k}
                        IN  IF live = {} THEN Find(heap[a], k) = Absent
                            ELSE /\ Cardinality(live) = 1
                                 /\ \A i \in live : Find(heap[a], k) = heap[a].vec[i].value
      BY DEF FindsEntries
    <2> DEFINE m == heap[a]
               live == {i \in 1 .. m.off : m.vec[i] # Gone /\ m.vec[i].key = k}
    <2>1. Coherent(m)
      BY DEF Whole, MapInv, MapsInv, MapOK
    <2>2. \A i : i \in live <=> i \in Live(m) /\ m.vec[i].key = k
      BY DEF Live
    <2> HIDE DEF m, live
    <2>3. CASE live = {}
      <3>1. ~Has(m, k)
        BY <2>2, <2>3 DEF Has
      <3>2. Find(m, k) = Absent
        BY <2>1, <3>1, FindIs
      <3> QED
        BY <2>3, <3>2 DEF m, live
    <2>4. CASE live # {}
      <3>1. PICK i : i \in live
        BY <2>4
      <3>2. live = {i}
        BY <2>1, <2>2, <3>1 DEF Coherent
      <3>3. Cardinality(live) = 1
        BY <3>2, FS_Singleton
      <3>4. \A j \in live : Find(m, k) = m.vec[j].value
        BY <2>1, <2>2, FindIs
      <3> QED
        BY <2>4, <3>3, <3>4 DEF m, live
    <2> QED
      BY <2>3, <2>4
  <1> QED
    BY <1>1, MapsCoherent, PTL

(* handlebars_map_add always finds an empty slot, also in a map that an    *)
(* error has left marked and that is not rehashed any more: the error      *)
(* "this should never happen" never does, the vector is full before.       *)
THEOREM RoomToAdd == Spec => []AddFindsSlot
  <1>1. MapInv => AddFindsSlot
    <2> SUFFICES ASSUME MapInv, NEW a \in Whole
                 PROVE  /\ heap[a].off <= heap[a].capacity
                        /\ \A k \in Keys : Find(heap[a], k) = Absent =>
                                               FindEntry(heap[a], k).empty >= 0
      BY DEF AddFindsSlot
    <2>1. Coherent(heap[a])
      BY DEF Whole, MapInv, MapsInv, MapOK
    <2>2. heap[a].off <= heap[a].capacity
      BY <2>1 DEF Coherent, Shape
    <2>3. ASSUME NEW k \in Keys, Find(heap[a], k) = Absent
          PROVE  FindEntry(heap[a], k).empty >= 0
      <3>1. ~Has(heap[a], k)
        BY <2>1, <2>3, FindIs DEF Has
      <3> QED
        BY <2>1, <3>1, FindIs
    <2> QED
      BY <2>2, <2>3
  <1> QED
    BY <1>1, MapsCoherent, PTL

(* The flag that keeps a map from being rehashed is set exactly while      *)
(* loops over it run, nested ones included, or after an error in one.      *)
THEOREM LockHeld == Spec => []LockedByLoop
  <1>1. MapInv => LockedByLoop
    <2> SUFFICES ASSUME MapInv, NEW a \in DOMAIN heap
                 PROVE  heap[a].iter <=> a \in stuck
                            \/ \E i \in DOMAIN loops : ref[loops[i].holder] = a
      BY DEF LockedByLoop, Iterated
    <2>1. Len(loops) \in Nat /\ DOMAIN loops = 1 .. Len(loops)
      BY DEF MapInv, LoopsInv, IsSeq
    <2>2. (Len(loops) + 1) - 1 = Len(loops)
      BY <2>1
    <2>3. heap[a].iter <=> Before(Len(loops) + 1, a)
      BY DEF MapInv, LockInv
    <2> QED
      BY <2>1, <2>2, <2>3 DEF Before
  <1> QED
    BY <1>1, MapsCoherent, PTL

(* No entry is ever written behind a vector, and nothing is sorted among   *)
(* its tombstones, unless an error has left the map marked as being        *)
(* iterated over: then handlebars_map_rehash leaves a full or sparse map   *)
(* as it is.  Otherwise only handlebars_value_iterator_init breaks a map,  *)
(* and only one that something was removed from.                           *)
THEOREM BreaksMarked == Spec => BreaksOnlyMarked
  <1> DEFINE A == \A a \in Whole \ stuck :
                    a \in DOMAIN heap' /\ heap'[a].lost => IsSparse(heap[a]) /\ loops' # loops
  <1>0. NoneBreaks => A
    BY DEF NoneBreaks, Whole
  <1>1. MapInv /\ [Next]_vars => [A]_vars
    <2> SUFFICES ASSUME MapInv, Next PROVE A
      OBVIOUS
    <2>1. CASE Abandon
      BY <1>0, <2>1, AbandonKeeps
    <2>2. ASSUME NEW h \in Holders, IterInit(h) PROVE A
      <3>1. PICK a, m : a = ref[h] /\ m = heap[a]
        OBVIOUS
      <3>2. HasMap(h) /\ Map(h) = m /\ a \in DOMAIN heap /\ heap = [x \in DOMAIN heap |-> heap[x]]
        BY <2>2, <3>1 DEF IterInit, Map, MapInv, Owned
      <3>3. DOMAIN m = MapFields
        BY <3>1, <3>2 DEF MapInv, MapsInv, MapOK
      <3>4. CASE UNCHANGED heap
        BY <3>4 DEF Whole
      <3>5. CASE ~UNCHANGED heap
        <4>1. PICK d : d = [Compacted(m) EXCEPT !.iter = TRUE]
          OBVIOUS
        <4>2. /\ heap' = [heap EXCEPT ![a] = d]
              /\ \E f : loops' = Append(loops, f)
          BY <2>2, <3>1, <3>2, <3>5, <4>1 DEF IterInit
        <4>3. loops' # loops
          <5>1. IsSeq(loops) /\ Len(loops) \in Nat
            BY DEF MapInv, LoopsInv, IsSeq
          <5>2. PICK f : loops' = Append(loops, f)
            BY <4>2
          <5>3. Len(loops') = Len(loops) + 1
            BY <5>1, <5>2, AppendSeq
          <5> QED
            BY <5>1, <5>3
        <4>4. ~IsSparse(m) => d.lost = m.lost
          BY <3>3, <4>1 DEF Compacted, MapFields
        <4>5. heap'[a] = d /\ \A x \in DOMAIN heap : x # a => heap'[x] = heap[x]
          BY <3>2, <4>2
        <4> QED
          BY <3>1, <4>3, <4>4, <4>5 DEF Whole
      <3> QED
        BY <3>4, <3>5
    <2>3. ASSUME NEW h \in Holders, IterNext(h) \/ ForeachNext(h) \/ ForeachBegin(h) PROVE A
      <3>1. PICK a, b : heap' = heap \/ heap' = [heap EXCEPT ![a].iter = b]
        BY <2>3 DEF IterNext, ForeachNext, ForeachBegin, Leave, SetIsInIteration
      <3>2. \A x \in DOMAIN heap : DOMAIN heap[x] = MapFields
        BY DEF MapInv, MapsInv, MapOK
      <3>3. ASSUME NEW x \in DOMAIN heap, x \in DOMAIN heap' PROVE heap'[x].lost = heap[x].lost
        <4>1. heap = [y \in DOMAIN heap |-> heap[y]]
          BY DEF MapInv, Owned
        <4>2. CASE heap' = [heap EXCEPT ![a].iter = b] /\ x = a
          <5>1. heap'[x] = [heap[x] EXCEPT !.iter = b]
            BY <4>1, <4>2
          <5> QED
            BY <3>2, <5>1 DEF MapFields
        <4>3. CASE heap' = [heap EXCEPT ![a].iter = b] /\ x # a
          BY <4>1, <4>3
        <4> QED
          BY <3>1, <4>2, <4>3
      <3>4. NoneBreaks
        BY <3>3 DEF NoneBreaks
      <3> QED
        BY <1>0, <3>4
    <2>4. ASSUME NEW h \in Holders, MayChange(h), Spoil(h),
                 Overruns(Map(h)) \/ IsSparse(Rehashed(Map(h), IsSparse(Map(h))))
          PROVE  A
      <3>1. ref[h] \in stuck /\ \A x \in DOMAIN heap : x # ref[h] => heap'[x] = heap[x]
        BY <2>4, SpoilsMarked, SpoilKeeps DEF Spoil
      <3> QED
        BY <3>1 DEF Whole
    <2>5. ASSUME NEW h \in Holders, Sort(h) PROVE A
      BY <1>0, <2>4, <2>5, SortKeeps DEF Sort
    <2>6. ASSUME NEW h \in Holders, NEW c \in Capacities, New(h, c) PROVE A
      BY <1>0, <2>6, NewKeeps
    <2>7. ASSUME NEW h \in Holders, NEW s \in Holders, Assign(h, s) PROVE A
      BY <1>0, <2>7, AssignKeeps
    <2>8. ASSUME NEW h \in Holders, NEW k \in Keys, Remove(h, k) PROVE A
      BY <1>0, <2>8, RemoveKeeps
    <2>9. ASSUME NEW h \in Holders, NEW k \in Keys, AddAgain(h, k) PROVE A
      BY <1>0, <2>9, AddAgainKeeps
    <2>10. ASSUME NEW h \in Holders, NEW k \in Keys, NEW v \in Values, Add(h, k, v) PROVE A
      BY <1>0, <2>4, <2>10, AddKeeps DEF Add
    <2>11. ASSUME NEW h \in Holders, NEW k \in Keys, NEW v \in Values, Update(h, k, v) PROVE A
      BY <1>0, <2>4, <2>11, UpdateKeeps DEF Update
    <2> QED
      BY <2>1, <2>2, <2>3, <2>5, <2>6, <2>7, <2>8, <2>9, <2>10, <2>11 DEF Next
  <1> QED
    BY <1>1, MapsCoherent, PTL DEF Spec, BreaksOnlyMarked

(* Leaving the innermost loop at its end: everything has been seen.        *)
LEMMA LeavingHasSeen ==
    ASSUME MapInv, NEW h \in Holders, IterNext(h) \/ ForeachNext(h), ~Map(h).lost,
           Len(loops') < Len(loops)
    PROVE  /\ Inner.holder = h
           /\ \A i \in 1 .. Map(h).off : Map(h).vec[i] # Gone => Map(h).vec[i].key \in Inner.seen
  <1> DEFINE m == Map(h)
             f == Inner
  <1>1. loops # << >> /\ f.holder = h
    BY DEF IterNext, ForeachNext, InnerIs
  <1>2. IsSeq(loops) /\ Len(loops) \in 1 .. Len(loops) /\ Len(loops) \in Nat
    BY <1>1, InnerFrame
  <1>3. ref[h] \in DOMAIN heap /\ m = heap[ref[h]]
    BY <1>1, InnerFrame DEF Map
  <1>4. /\ f.index \in Nat /\ SeenTo(m, f) /\ (f.foreach \/ m.n = m.off)
    BY <1>1, <1>3, InnerFrame DEF FrameOK
  <1>5. Coherent(m)
    BY <1>3 DEF MapInv, MapsInv, MapOK
  <1>6. m.off \in Nat
    BY <1>5, MapSizes DEF Coherent
  <1>7. ~Visit(f.index + 1)
    <2> SUFFICES ASSUME Visit(f.index + 1) PROVE FALSE
      OBVIOUS
    <2>1. DOMAIN loops' = DOMAIN loops /\ loops' = [i \in DOMAIN loops |-> loops'[i]]
      <3>1. PICK e, n : loops' = [loops EXCEPT ![n] = e]
        BY DEF Visit
      <3> QED
        BY <1>2, <3>1 DEF IsSeq
    <2>2. Len(loops') = Len(loops)
      BY <1>2, <2>1 DEF IsSeq
    <2> QED
      BY <1>2, <2>2
  <1>8. f.index >= m.off
    <2>1. CASE IterNext(h)
      <3>1. f.foreach = FALSE /\ f.index >= m.n
        BY <1>7, <2>1 DEF IterNext, InnerIs
      <3> QED
        BY <1>4, <3>1
    <2>2. CASE ForeachNext(h)
      BY <1>7, <2>2 DEF ForeachNext
    <2> QED
      BY <2>1, <2>2
  <1> HIDE DEF m, f
  <1>9. ASSUME NEW i \in 1 .. m.off, m.vec[i] # Gone PROVE m.vec[i].key \in f.seen
    <2>1. i \in Live(m) /\ i <= f.index
      BY <1>4, <1>6, <1>8, <1>9 DEF Live
    <2> QED
      BY <1>4, <2>1 DEF SeenTo
  <1> QED
    BY <1>1, <1>9 DEF m, f

(* A loop that ends has visited every entry of its map, also when its own  *)
(* body has removed some of them, and whatever loops were nested in it.    *)
THEOREM LoopsSeeAll == Spec => LoopsComplete
  <1> DEFINE A == Len(loops') < Len(loops) /\ ref[Inner.holder] \in Whole \ stuck' =>
                    \A i \in 1 .. Map(Inner.holder).off :
                        LET e == Map(Inner.holder).vec[i]
                        IN  e # Gone => e.key \in Inner.seen
  <1>1. MapInv /\ [Next]_vars => [A]_vars
    <2> SUFFICES ASSUME MapInv, Next, Len(loops') < Len(loops),
                        ref[Inner.holder] \in Whole, ref[Inner.holder] \notin stuck'
                 PROVE  A
      OBVIOUS
    <2>1. IsSeq(loops) /\ Len(loops) \in Nat
      BY DEF MapInv, LoopsInv, IsSeq
    <2>2. loops' # loops
      BY <2>1
    <2>3. ~Thrown
      <3> SUFFICES ASSUME Thrown PROVE FALSE
        OBVIOUS
      <3>1. loops # << >> /\ stuck' = (stuck \cup {ref[loops[i].holder] : i \in DOMAIN loops}) \cap DOMAIN heap'
        BY <2>1, EmptyIsSeq DEF Thrown
      <3>2. Len(loops) \in DOMAIN loops /\ Inner = loops[Len(loops)]
        <4>1. Len(loops) \in 1 .. Len(loops) /\ Inner = loops[Len(loops)]
          BY <3>1, InnerFrame
        <4> QED
          BY <2>1, <4>1 DEF IsSeq
      <3>3. ref[Inner.holder] \notin DOMAIN heap'
        BY <3>1, <3>2
      <3>4. Owned /\ MapsInv /\ HasMap(Inner.holder) /\ ref[Inner.holder] \in DOMAIN heap
            /\ Inner.holder \in Holders
        <4>1. Len(loops) \in 1 .. Len(loops)
          BY <3>1, InnerFrame
        <4> QED
          BY <3>2, <4>1, LoopHolds DEF MapInv
      <3>5. PICK h \in Holders, k \in Keys : AddAgain(h, k) /\ heap' = Delref(heap, ref[h])
        <4>1. ~Abandon
          BY <3>3, <3>4 DEF Abandon
        <4>2. \A h \in Holders : ~IterInit(h) /\ ~ForeachBegin(h) /\ ~IterNext(h) /\ ~ForeachNext(h)
          <5>1. loops' = << >>
            BY DEF Thrown
          <5>2. \A h \in Holders : ForeachBegin(h) \/ IterNext(h) \/ ForeachNext(h) => DOMAIN heap' = DOMAIN heap
            BY DEF ForeachBegin, IterNext, ForeachNext, Leave, SetIsInIteration
          <5>3. \A h \in Holders : IterInit(h) => DOMAIN heap' = DOMAIN heap
            BY DEF IterInit
          <5> QED
            BY <3>3, <3>4, <5>2, <5>3
        <4>3. \A h \in Holders : /\ ~Sort(h)
                                 /\ \A c \in Capacities : ~New(h, c)
                                 /\ \A s \in Holders : ~Assign(h, s)
                                 /\ \A k \in Keys : ~Remove(h, k)
                                 /\ \A k \in Keys, v \in Values : ~Add(h, k, v) /\ ~Update(h, k, v)
          BY <2>2 DEF Sort, New, Assign, Remove, Add, Update, Change, Spoil
        <4>4. PICK h \in Holders, k \in Keys : AddAgain(h, k)
          BY <4>1, <4>2, <4>3 DEF Next
        <4> QED
          BY <3>3, <3>4, <4>4 DEF AddAgain
      <3>6. MayChange(h) /\ HasMap(h) /\ ref[h] # Dangling
        BY <3>5 DEF AddAgain, MayChange, HasMap
      <3>7. ref[Inner.holder] # ref[h]
        <4>1. Len(loops) \in 1 .. Len(loops) /\ Inner = loops[Len(loops)]
          BY <3>1, InnerFrame
        <4> QED
          BY <3>6, <4>1, MarkedFor
      <3>8. Inner.holder \in Users(ref[Inner.holder]) \ {h}
        BY <3>4, <3>7 DEF Users
      <3>9. ref[Inner.holder] \in DOMAIN heap'
        BY <3>4, <3>5, <3>6, <3>8, DelrefIs
      <3> QED
        BY <3>3, <3>9
    <2>4. \A f : loops' # Append(loops, f)
      BY <2>1, AppendSeq
    <2>5. \A h \in Holders : ~IterInit(h) /\ ~ForeachBegin(h)
      BY <2>2, <2>4 DEF IterInit, ForeachBegin
    <2>6. \A h \in Holders : /\ ~Sort(h)
                             /\ \A c \in Capacities : ~New(h, c)
                             /\ \A s \in Holders : ~Assign(h, s)
                             /\ \A k \in Keys : ~Remove(h, k) /\ ~AddAgain(h, k)
                             /\ \A k \in Keys, v \in Values : ~Add(h, k, v) /\ ~Update(h, k, v)
      BY <2>2, <2>3 DEF Sort, New, Assign, Remove, Add, AddAgain, Update, Change, Spoil
    <2>7. PICK h \in Holders : IterNext(h) \/ ForeachNext(h)
      BY <2>3, <2>5, <2>6 DEF Next, Abandon
    <2>8. Inner.holder = h
      BY <2>7 DEF IterNext, ForeachNext, InnerIs
    <2>9. ~Map(h).lost
      BY <2>8 DEF Whole, Map
    <2> QED
      BY <2>7, <2>8, <2>9, LeavingHasSeen
  <1> QED
    BY <1>1, MapsCoherent, PTL DEF Spec, LoopsComplete

-----------------------------------------------------------------------------
(* What a program sees of a map: its entries in the order of the vector    *)

KV(m, i) == <<m.vec[i].key, m.vec[i].value>>

ListNext(m, l, i) == IF m.vec[i] = Gone THEN l ELSE Append(l, KV(m, i))

(* f lists the first n places of the vector.                               *)
IsListed(f, m, n) ==
    /\ f = [i \in 0 .. n |-> f[i]]
    /\ f[0] = << >>
    /\ \A i \in 0 .. n - 1 : f[i + 1] = ListNext(m, f[i], i + 1)

(* There is such a function: the recursion is well founded.                *)
LEMMA ListedExists ==
    ASSUME NEW m, NEW n \in Nat
    PROVE  \E f : IsListed(f, m, n)
  <1> DEFINE S == {k \in Nat : \E f : IsListed(f, m, k)}
  <1>1. 0 \in S
    <2> DEFINE f == [i \in 0 .. 0 |-> << >>]
    <2>1. IsListed(f, m, 0)
      BY DEF IsListed
    <2> QED
      BY <2>1
  <1>2. ASSUME NEW k \in Nat, k \in S PROVE k + 1 \in S
    <2>1. PICK f : IsListed(f, m, k)
      BY <1>2
    <2> DEFINE y == ListNext(m, f[k], k + 1)
               g == [i \in 0 .. k + 1 |-> IF i = k + 1 THEN y ELSE f[i]]
    <2>2. g = [i \in 0 .. k + 1 |-> g[i]]
      OBVIOUS
    <2>3. \A i \in 0 .. k : g[i] = f[i]
      OBVIOUS
    <2>4. g[k + 1] = y
      OBVIOUS
    <2>5. 0 \in 0 .. k
      OBVIOUS
    <2>6. f[0] = << >> /\ \A i \in 0 .. k - 1 : f[i + 1] = ListNext(m, f[i], i + 1)
      BY <2>1 DEF IsListed
    <2> HIDE DEF g
    <2>7. ASSUME NEW i \in 0 .. k PROVE g[i + 1] = ListNext(m, g[i], i + 1)
      <3>1. CASE i = k
        BY <2>3, <2>4, <3>1
      <3>2. CASE i # k
        <4>1. i \in 0 .. k - 1 /\ i + 1 \in 0 .. k
          BY <3>2
        <4> QED
          BY <2>3, <2>6, <4>1
      <3> QED
        BY <3>1, <3>2
    <2>8. \A i \in 0 .. (k + 1) - 1 : g[i + 1] = ListNext(m, g[i], i + 1)
      BY <2>7
    <2>9. IsListed(g, m, k + 1)
      BY <2>2, <2>3, <2>5, <2>6, <2>8 DEF IsListed
    <2> QED
      BY <2>9
  <1> HIDE DEF S
  <1>3. n \in S
    BY <1>1, <1>2, NatInduct
  <1> QED
    BY <1>3 DEF S

(* LiveEntries is the last value of one.                                   *)
LEMMA EntriesListed ==
    ASSUME NEW m, m.off \in Nat
    PROVE  \E f : IsListed(f, m, m.off) /\ LiveEntries(m) = f[m.off]
  <1> DEFINE n == m.off
             R(f) == [i \in 0 .. m.off |->
                        IF i = 0 THEN << >>
                        ELSE IF m.vec[i] = Gone THEN f[i - 1]
                        ELSE Append(f[i - 1], <<m.vec[i].key, m.vec[i].value>>)]
             F == CHOOSE f : f = R(f)
  <1>1. LiveEntries(m) = F[m.off]
    BY DEF LiveEntries
  <1>2. \E f : f = R(f)
    <2>1. PICK f : IsListed(f, m, m.off)
      BY ListedExists
    <2>2. ASSUME NEW i \in 0 .. m.off
          PROVE  f[i] = R(f)[i]
      <3>1. CASE i = 0
        BY <2>1, <3>1 DEF IsListed
      <3>2. CASE i # 0
        <4>1. i - 1 \in 0 .. m.off - 1 /\ (i - 1) + 1 = i
          BY <3>2
        <4>2. f[i] = ListNext(m, f[i - 1], i)
          BY <2>1, <4>1 DEF IsListed
        <4> QED
          BY <3>2, <4>2 DEF ListNext, KV
      <3> QED
        BY <3>1, <3>2
    <2>3. f = [i \in 0 .. m.off |-> f[i]]
      BY <2>1 DEF IsListed
    <2>4. R(f) = [i \in 0 .. m.off |-> R(f)[i]]
      OBVIOUS
    <2>5. f = R(f)
      <3> HIDE DEF R
      <3> QED
        BY <2>2, <2>3, <2>4
    <2> QED
      BY <2>5
  <1>3. F = R(F)
    BY <1>2
  <1> HIDE DEF F
  <1>4. F = [i \in 0 .. m.off |-> F[i]]
    BY <1>3
  <1>5. F[0] = << >>
    <2>1. 0 \in 0 .. m.off
      OBVIOUS
    <2> QED
      BY <1>3, <2>1
  <1>6. ASSUME NEW i \in 0 .. m.off - 1
        PROVE  F[i + 1] = ListNext(m, F[i], i + 1)
    <2>1. i + 1 \in 0 .. m.off /\ i + 1 # 0 /\ (i + 1) - 1 = i
      OBVIOUS
    <2>2. R(F)[i + 1] = IF m.vec[i + 1] = Gone THEN F[i]
                        ELSE Append(F[i], <<m.vec[i + 1].key, m.vec[i + 1].value>>)
      BY <2>1
    <2>3. F[i + 1] = R(F)[i + 1]
      <3> HIDE DEF R
      <3> QED
        BY <1>3
    <2> HIDE DEF R
    <2> QED
      BY <2>2, <2>3 DEF ListNext, KV
  <1>7. IsListed(F, m, m.off)
    BY <1>4, <1>5, <1>6 DEF IsListed
  <1> QED
    BY <1>1, <1>7

(* A listing is a sequence of the entries it has met.                      *)
Listed(m, l, i) ==
    /\ IsSeq(l)
    /\ \A x \in 1 .. Len(l) : \E j \in 1 .. i : m.vec[j] # Gone /\ l[x] = KV(m, j)

(* Every turn of the listing leaves a sequence of what it has met.         *)
LEMMA ListedOnly ==
    ASSUME NEW m, NEW n \in Nat, NEW f, IsListed(f, m, n)
    PROVE  \A i \in 0 .. n : Listed(m, f[i], i)
  <1> DEFINE S == {i \in Nat : i <= n => Listed(m, f[i], i)}
  <1>1. 0 \in S
    <2>1. f[0] = << >>
      BY DEF IsListed
    <2> QED
      BY <2>1, EmptyIsSeq DEF Listed
  <1>2. ASSUME NEW i \in Nat, i \in S PROVE i + 1 \in S
    <2> SUFFICES ASSUME i + 1 <= n PROVE Listed(m, f[i + 1], i + 1)
      OBVIOUS
    <2>1. Listed(m, f[i], i)
      BY <1>2
    <2>2. f[i + 1] = ListNext(m, f[i], i + 1)
      <3>1. i \in 0 .. n - 1
        OBVIOUS
      <3> QED
        BY <3>1 DEF IsListed
    <2> DEFINE l == f[i]
               e == KV(m, i + 1)
               a == Append(l, e)
    <2>3. IsSeq(l) /\ \A x \in 1 .. Len(l) : \E j \in 1 .. i : m.vec[j] # Gone /\ l[x] = KV(m, j)
      BY <2>1 DEF Listed
    <2>4. CASE m.vec[i + 1] = Gone
      <3>1. f[i + 1] = l
        BY <2>2, <2>4 DEF ListNext
      <3> QED
        BY <2>3, <3>1 DEF Listed
    <2>5. CASE m.vec[i + 1] # Gone
      <3>1. f[i + 1] = a
        BY <2>2, <2>5 DEF ListNext
      <3> HIDE DEF l, e
      <3>2. /\ IsSeq(a) /\ Len(a) = Len(l) + 1 /\ a[Len(l) + 1] = e
            /\ \A x \in 1 .. Len(l) : a[x] = l[x]
        BY <2>3, AppendSeq
      <3> HIDE DEF a
      <3>3. ASSUME NEW x \in 1 .. Len(a)
            PROVE  \E j \in 1 .. i + 1 : m.vec[j] # Gone /\ a[x] = KV(m, j)
        <4>1. Len(l) \in Nat
          BY <2>3 DEF IsSeq
        <4>2. CASE x \in 1 .. Len(l)
          <5>1. PICK j \in 1 .. i : m.vec[j] # Gone /\ l[x] = KV(m, j)
            BY <2>3, <4>2
          <5>2. j \in 1 .. i + 1 /\ a[x] = KV(m, j)
            BY <3>2, <4>2, <5>1
          <5> QED
            BY <5>1, <5>2
        <4>3. CASE x = Len(l) + 1
          BY <2>5, <3>2, <4>3 DEF e
        <4> QED
          BY <3>2, <4>1, <4>2, <4>3
      <3> QED
        BY <3>1, <3>2, <3>3 DEF Listed
    <2> QED
      BY <2>4, <2>5
  <1> HIDE DEF S
  <1>3. \A i \in Nat : i \in S
    BY <1>1, <1>2, NatInduct
  <1> QED
    BY <1>3 DEF S

(* Listings agree as far as the vectors do.                                *)
SameTo(m, d, j) == \A i \in 1 .. j : d.vec[i] = m.vec[i]

(* Listings of vectors that agree up to a place agree up to there.         *)
LEMMA ListingsAgree ==
    ASSUME NEW m, NEW d, NEW n \in Nat, NEW k \in Nat, NEW j \in 0 .. n, j <= k,
           NEW f, IsListed(f, m, n), NEW g, IsListed(g, d, k), SameTo(m, d, j)
    PROVE  g[j] = f[j]
  <1> DEFINE S == {i \in Nat : i <= j => g[i] = f[i]}
  <1>1. 0 \in S
    BY DEF IsListed
  <1>2. ASSUME NEW i \in Nat, i \in S PROVE i + 1 \in S
    <2> SUFFICES ASSUME i + 1 <= j PROVE g[i + 1] = f[i + 1]
      OBVIOUS
    <2>1. g[i] = f[i]
      BY <1>2
    <2>2. i \in 0 .. n - 1 /\ i \in 0 .. k - 1 /\ i + 1 \in 1 .. j
      OBVIOUS
    <2>3. f[i + 1] = ListNext(m, f[i], i + 1) /\ g[i + 1] = ListNext(d, g[i], i + 1)
      BY <2>2 DEF IsListed
    <2>4. d.vec[i + 1] = m.vec[i + 1]
      BY <2>2 DEF SameTo
    <2> QED
      BY <2>1, <2>3, <2>4 DEF ListNext, KV
  <1> HIDE DEF S
  <1>3. j \in S
    BY <1>1, <1>2, NatInduct
  <1> QED
    BY <1>3 DEF S

(* Maps with the same vector show the same.                                *)
LEMMA SameVector ==
    ASSUME NEW m, NEW d, NEW n \in Nat, m.off = n, d.off = n, SameTo(m, d, n)
    PROVE  LiveEntries(d) = LiveEntries(m)
  <1>1. PICK f : IsListed(f, m, n) /\ LiveEntries(m) = f[n]
    BY EntriesListed
  <1>2. PICK g : IsListed(g, d, n) /\ LiveEntries(d) = g[n]
    BY EntriesListed
  <1>3. n <= n /\ n \in 0 .. n
    OBVIOUS
  <1>4. IsListed(f, m, n) /\ IsListed(g, d, n)
    BY <1>1, <1>2
  <1>5. g[n] = f[n]
    BY <1>3, <1>4, ListingsAgree
  <1> QED
    BY <1>1, <1>2, <1>5

(* What the last place of a listing has.                                   *)
LEMMA ListingIs ==
    ASSUME NEW m, NEW n \in Nat, m.off = n, NEW f, IsListed(f, m, n)
    PROVE  LiveEntries(m) = f[n]
  <1>1. PICK g : IsListed(g, m, n) /\ LiveEntries(m) = g[n]
    BY EntriesListed
  <1>2. n <= n /\ n \in 0 .. n /\ SameTo(m, m, n)
    BY DEF SameTo
  <1>3. IsListed(g, m, n)
    BY <1>1
  <1>4. f[n] = g[n]
    BY <1>2, <1>3, ListingsAgree
  <1> QED
    BY <1>1, <1>4

(* A program sees entries that are there, and nothing else.                *)
LEMMA SeesLive ==
    ASSUME NEW m, m.off \in Nat
    PROVE  Listed(m, LiveEntries(m), m.off)
  <1>0. PICK n \in Nat : n = m.off
    OBVIOUS
  <1>1. PICK f : IsListed(f, m, n) /\ LiveEntries(m) = f[n]
    BY <1>0, EntriesListed
  <1>2. IsListed(f, m, n)
    BY <1>1
  <1>3. Listed(m, f[n], n)
    <2>1. n \in 0 .. n
      OBVIOUS
    <2> QED
      BY <1>2, <2>1, ListedOnly
  <1> QED
    BY <1>0, <1>1, <1>3

(* An empty vector shows nothing.                                          *)
LEMMA SeesNothing ==
    ASSUME NEW m, m.off = 0
    PROVE  LiveEntries(m) = << >>
  <1>1. PICK f : IsListed(f, m, 0) /\ LiveEntries(m) = f[0]
    BY EntriesListed
  <1> QED
    BY <1>1 DEF IsListed

(* An entry at the end of the vector is seen last.                         *)
LEMMA SeesAdded ==
    ASSUME NEW m, NEW d, NEW n \in Nat, m.off = n, d.off = n + 1,
           SameTo(m, d, n), d.vec[n + 1] # Gone
    PROVE  LiveEntries(d) = Append(LiveEntries(m), KV(d, n + 1))
  <1>1. PICK f : IsListed(f, m, n) /\ LiveEntries(m) = f[n]
    BY EntriesListed
  <1>2. PICK g : IsListed(g, d, n + 1)
    BY ListedExists
  <1>3. LiveEntries(d) = g[n + 1]
    <2>1. n + 1 \in Nat
      OBVIOUS
    <2> QED
      BY <1>2, <2>1, ListingIs
  <1>4. g[n] = f[n]
    <2>1. n \in 0 .. n /\ n <= n + 1 /\ n + 1 \in Nat
      OBVIOUS
    <2>2. IsListed(f, m, n)
      BY <1>1
    <2> QED
      BY <1>2, <2>1, <2>2, ListingsAgree
  <1>5. g[n + 1] = ListNext(d, g[n], n + 1)
    <2>1. n \in 0 .. (n + 1) - 1
      OBVIOUS
    <2> QED
      BY <1>2, <2>1 DEF IsListed
  <1> QED
    BY <1>1, <1>3, <1>4, <1>5 DEF ListNext

(* An entry is the last of the listing when its place has been met.        *)
LEMMA ListsEntry ==
    ASSUME NEW m, NEW n \in Nat, NEW f, IsListed(f, m, n), NEW i \in 1 .. n, m.vec[i] # Gone
    PROVE  /\ IsSeq(f[i - 1]) /\ f[i] = Append(f[i - 1], KV(m, i))
           /\ IsSeq(f[i]) /\ Len(f[i]) \in Nat \ {0} /\ Len(f[i]) = Len(f[i - 1]) + 1
           /\ f[i][Len(f[i])] = KV(m, i)
  <1>1. i - 1 \in 0 .. n - 1 /\ i - 1 \in 0 .. n /\ (i - 1) + 1 = i
    OBVIOUS
  <1>2. IsSeq(f[i - 1])
    BY <1>1, ListedOnly DEF Listed
  <1>3. f[i] = Append(f[i - 1], KV(m, i))
    BY <1>1 DEF IsListed, ListNext
  <1>4. Len(f[i - 1]) \in Nat
    BY <1>2 DEF IsSeq
  <1>5. PICK l, e : l = f[i - 1] /\ e = KV(m, i)
    OBVIOUS
  <1>6. IsSeq(Append(l, e)) /\ Len(Append(l, e)) = Len(l) + 1 /\ Append(l, e)[Len(l) + 1] = e
    BY <1>2, <1>5, AppendSeq
  <1> QED
    BY <1>2, <1>3, <1>4, <1>5, <1>6

(* d is m but for place i, where both have entries: the listing differs in *)
(* one place, which had the entry.                                         *)
OneDiffers(m, d, i, n) ==
    /\ m.off = n /\ d.off = n /\ i \in 1 .. n
    /\ \A j \in 1 .. n : j # i => d.vec[j] = m.vec[j]
    /\ m.vec[i] # Gone

ReplacedAt(l, k, r, y, z) == /\ IsSeq(l) /\ r \in 1 .. Len(l) /\ l[r] = y
                             /\ Replaced(l, k, r, z)

(* A turn of the listing behind that place.                                *)
LEMMA ReplacedOn ==
    ASSUME NEW l, NEW k, NEW r, NEW y, NEW z, ReplacedAt(l, k, r, y, z), NEW e
    PROVE  ReplacedAt(Append(l, e), Append(k, e), r, y, z)
  <1>1. IsSeq(l) /\ r \in 1 .. Len(l) /\ l[r] = y /\ Replaced(l, k, r, z) /\ Len(l) \in Nat
    BY DEF ReplacedAt, IsSeq
  <1>2. Replaced(Append(l, e), Append(k, e), r, z)
    BY <1>1, ReplaceThenAppend
  <1>3. PICK a : a = Append(l, e)
    OBVIOUS
  <1>4. IsSeq(a) /\ Len(a) = Len(l) + 1 /\ \A x \in 1 .. Len(l) : a[x] = l[x]
    BY <1>1, <1>3, AppendSeq
  <1>5. r \in 1 .. Len(a) /\ a[r] = y
    BY <1>1, <1>4
  <1> QED
    BY <1>2, <1>3, <1>4, <1>5 DEF ReplacedAt

(* A value is replaced.                                                    *)
LEMMA SeesRewritten ==
    ASSUME NEW m, NEW d, NEW n \in Nat, NEW i, OneDiffers(m, d, i, n), d.vec[i] # Gone
    PROVE  \E r : ReplacedAt(LiveEntries(m), LiveEntries(d), r, KV(m, i), KV(d, i))
  <1>0. i \in 1 .. n /\ m.off = n /\ d.off = n /\ m.vec[i] # Gone
    BY DEF OneDiffers
  <1>1. PICK f : IsListed(f, m, n) /\ LiveEntries(m) = f[n]
    BY <1>0, EntriesListed
  <1>2. PICK g : IsListed(g, d, n) /\ LiveEntries(d) = g[n]
    BY <1>0, EntriesListed
  <1>3. IsListed(f, m, n) /\ IsListed(g, d, n)
    BY <1>1, <1>2
  <1>4. PICK r, y, z : r = Len(f[i]) /\ y = KV(m, i) /\ z = KV(d, i)
    OBVIOUS
  <1>5. f[i - 1] = g[i - 1]
    <2>1. i - 1 \in 0 .. n /\ i - 1 <= n
      BY <1>0
    <2>2. SameTo(m, d, i - 1)
      BY <1>0 DEF SameTo, OneDiffers
    <2>3. PICK j : j = i - 1
      OBVIOUS
    <2>4. g[j] = f[j]
      BY <1>3, <2>1, <2>2, <2>3, ListingsAgree
    <2> QED
      BY <2>3, <2>4
  <1> DEFINE S == {j \in Nat : i <= j /\ j <= n => ReplacedAt(f[j], g[j], r, y, z)}
  <1>6. ReplacedAt(f[i], g[i], r, y, z)
    <2>0. IsListed(f, m, n) /\ IsListed(g, d, n) /\ i \in 1 .. n /\ n \in Nat
          /\ m.vec[i] # Gone /\ d.vec[i] # Gone
      BY <1>0, <1>3
    <2>1. /\ IsSeq(f[i - 1]) /\ f[i] = Append(f[i - 1], KV(m, i))
          /\ IsSeq(f[i]) /\ Len(f[i]) \in Nat \ {0} /\ Len(f[i]) = Len(f[i - 1]) + 1
          /\ f[i][Len(f[i])] = KV(m, i)
      BY <2>0, ListsEntry
    <2>2. g[i] = Append(g[i - 1], KV(d, i))
      BY <2>0, ListsEntry
    <2>3. PICK l : l = f[i - 1]
      OBVIOUS
    <2>4. Replaced(Append(l, y), Append(l, z), Len(l) + 1, z)
      BY <2>1, <2>3, ReplaceAppended
    <2>5. Replaced(f[i], g[i], r, z)
      BY <1>4, <1>5, <2>1, <2>2, <2>3, <2>4
    <2>6. r \in 1 .. Len(f[i])
      BY <1>4, <2>1
    <2> QED
      BY <1>4, <2>1, <2>5, <2>6 DEF ReplacedAt
  <1>7. 0 \in S
    BY <1>0
  <1>8. ASSUME NEW j \in Nat, j \in S PROVE j + 1 \in S
    <2> SUFFICES ASSUME i <= j + 1, j + 1 <= n PROVE ReplacedAt(f[j + 1], g[j + 1], r, y, z)
      OBVIOUS
    <2>1. CASE i = j + 1
      BY <1>6, <2>1
    <2>2. CASE i # j + 1
      <3>1. i <= j /\ j \in 0 .. n - 1 /\ j + 1 \in 1 .. n
        BY <1>0, <2>2
      <3>2. ReplacedAt(f[j], g[j], r, y, z)
        BY <1>8, <3>1
      <3>3. f[j + 1] = ListNext(m, f[j], j + 1) /\ g[j + 1] = ListNext(d, g[j], j + 1)
        BY <1>3, <3>1 DEF IsListed
      <3>4. m.vec[j + 1] = d.vec[j + 1]
        BY <2>2, <3>1 DEF OneDiffers
      <3>5. CASE m.vec[j + 1] = Gone
        BY <3>2, <3>3, <3>4, <3>5 DEF ListNext
      <3>6. CASE m.vec[j + 1] # Gone
        <4>1. f[j + 1] = Append(f[j], KV(m, j + 1)) /\ g[j + 1] = Append(g[j], KV(m, j + 1))
          BY <3>3, <3>4, <3>6 DEF ListNext, KV
        <4> QED
          BY <3>2, <4>1, ReplacedOn
      <3> QED
        BY <3>5, <3>6
    <2> QED
      BY <2>1, <2>2
  <1> HIDE DEF S
  <1>9. n \in S
    BY <1>7, <1>8, NatInduct
  <1>10. ReplacedAt(f[n], g[n], r, y, z)
    BY <1>0, <1>9 DEF S
  <1> QED
    BY <1>1, <1>2, <1>4, <1>10

(* An entry becomes a tombstone.                                           *)
LEMMA SeesCleared ==
    ASSUME NEW m, NEW d, NEW n \in Nat, NEW i, OneDiffers(m, d, i, n), d.vec[i] = Gone
    PROVE  \E r : TakenOut(LiveEntries(m), LiveEntries(d), r, KV(m, i))
  <1>0. i \in 1 .. n /\ m.off = n /\ d.off = n /\ m.vec[i] # Gone
    BY DEF OneDiffers
  <1>1. PICK f : IsListed(f, m, n) /\ LiveEntries(m) = f[n]
    BY <1>0, EntriesListed
  <1>2. PICK g : IsListed(g, d, n) /\ LiveEntries(d) = g[n]
    BY <1>0, EntriesListed
  <1>3. IsListed(f, m, n) /\ IsListed(g, d, n)
    BY <1>1, <1>2
  <1>4. PICK r, y : r = Len(f[i]) /\ y = KV(m, i)
    OBVIOUS
  <1>5. f[i - 1] = g[i - 1]
    <2>1. i - 1 \in 0 .. n /\ i - 1 <= n
      BY <1>0
    <2>2. SameTo(m, d, i - 1)
      BY <1>0 DEF SameTo, OneDiffers
    <2>3. PICK j : j = i - 1
      OBVIOUS
    <2>4. g[j] = f[j]
      BY <1>3, <2>1, <2>2, <2>3, ListingsAgree
    <2> QED
      BY <2>3, <2>4
  <1> DEFINE S == {j \in Nat : i <= j /\ j <= n => TakenOut(f[j], g[j], r, y)}
  <1>6. TakenOut(f[i], g[i], r, y)
    <2>0. IsListed(f, m, n) /\ i \in 1 .. n /\ n \in Nat /\ m.vec[i] # Gone
      BY <1>0, <1>3
    <2>1. /\ IsSeq(f[i - 1]) /\ f[i] = Append(f[i - 1], KV(m, i))
          /\ IsSeq(f[i]) /\ Len(f[i]) \in Nat \ {0} /\ Len(f[i]) = Len(f[i - 1]) + 1
          /\ f[i][Len(f[i])] = KV(m, i)
      BY <2>0, ListsEntry
    <2>2. g[i] = g[i - 1]
      <3>1. i - 1 \in 0 .. n - 1 /\ (i - 1) + 1 = i
        BY <1>0
      <3>2. g[i] = ListNext(d, g[i - 1], i)
        BY <1>3, <3>1 DEF IsListed
      <3> QED
        BY <3>2 DEF ListNext
    <2>3. PICK l : l = f[i - 1]
      OBVIOUS
    <2>4. TakenOut(Append(l, y), l, Len(l) + 1, y)
      BY <2>1, <2>3, TakenLast
    <2> QED
      BY <1>4, <1>5, <2>1, <2>2, <2>3, <2>4
  <1>7. 0 \in S
    BY <1>0
  <1>8. ASSUME NEW j \in Nat, j \in S PROVE j + 1 \in S
    <2> SUFFICES ASSUME i <= j + 1, j + 1 <= n PROVE TakenOut(f[j + 1], g[j + 1], r, y)
      OBVIOUS
    <2>1. CASE i = j + 1
      BY <1>6, <2>1
    <2>2. CASE i # j + 1
      <3>1. i <= j /\ j \in 0 .. n - 1 /\ j + 1 \in 1 .. n
        BY <1>0, <2>2
      <3>2. TakenOut(f[j], g[j], r, y)
        BY <1>8, <3>1
      <3>3. f[j + 1] = ListNext(m, f[j], j + 1) /\ g[j + 1] = ListNext(d, g[j], j + 1)
        BY <1>3, <3>1 DEF IsListed
      <3>4. m.vec[j + 1] = d.vec[j + 1]
        BY <2>2, <3>1 DEF OneDiffers
      <3>5. CASE m.vec[j + 1] = Gone
        BY <3>2, <3>3, <3>4, <3>5 DEF ListNext
      <3>6. CASE m.vec[j + 1] # Gone
        <4>1. f[j + 1] = Append(f[j], KV(m, j + 1)) /\ g[j + 1] = Append(g[j], KV(m, j + 1))
          BY <3>3, <3>4, <3>6 DEF ListNext, KV
        <4> QED
          BY <3>2, <4>1, TakenOn
      <3> QED
        BY <3>5, <3>6
    <2> QED
      BY <2>1, <2>2
  <1> HIDE DEF S
  <1>9. n \in S
    BY <1>7, <1>8, NatInduct
  <1>10. TakenOut(f[n], g[n], r, y)
    BY <1>0, <1>9 DEF S
  <1> QED
    BY <1>1, <1>2, <1>4, <1>10

(* handlebars_map_add.                                                     *)
LEMMA SeesInserted ==
    ASSUME NEW m, Coherent(m), NEW k, k # NullKey, NEW v, NEW s, NEW d, Added(m, d, k, v, s)
    PROVE  LiveEntries(d) = Append(LiveEntries(m), <<k, v>>)
  <1>1. PICK n \in Nat : n = m.off
    BY MapSizes DEF Coherent
  <1>2. /\ IsSeq(m.vec) /\ Len(m.vec) = n /\ d.off = n + 1
        /\ d.vec = Append(m.vec, Entry(k, v, s))
    BY <1>1 DEF Coherent, Shape, Added
  <1>3. PICK e : e = Entry(k, v, s)
    OBVIOUS
  <1>4. (\A i \in 1 .. n : d.vec[i] = m.vec[i]) /\ d.vec[n + 1] = e
    BY <1>2, <1>3, AppendSeq
  <1>5. e # Gone /\ e.key = k /\ e.value = v
    BY <1>3 DEF Entry, Gone
  <1>6. SameTo(m, d, n) /\ d.vec[n + 1] # Gone /\ KV(d, n + 1) = <<k, v>>
    BY <1>4, <1>5 DEF SameTo, KV
  <1> QED
    BY <1>1, <1>2, <1>6, SeesAdded

(* Without tombstones everything is seen.                                  *)
LEMMA SeesAll ==
    ASSUME NEW m, NEW n \in Nat, m.off = n, \A i \in 1 .. n : m.vec[i] # Gone
    PROVE  /\ IsSeq(LiveEntries(m)) /\ Len(LiveEntries(m)) = n
           /\ \A i \in 1 .. n : LiveEntries(m)[i] = KV(m, i)
  <1>1. PICK f : IsListed(f, m, n) /\ LiveEntries(m) = f[n]
    BY EntriesListed
  <1> DEFINE P(i) == IsSeq(f[i]) /\ Len(f[i]) = i /\ \A x \in 1 .. i : f[i][x] = KV(m, x)
             S == {i \in Nat : i <= n => P(i)}
  <1>2. 0 \in S
    <2>1. f[0] = << >>
      BY <1>1 DEF IsListed
    <2> QED
      BY <2>1, EmptyIsSeq
  <1>3. ASSUME NEW i \in Nat, i \in S PROVE i + 1 \in S
    <2> SUFFICES ASSUME i + 1 <= n PROVE P(i + 1)
      OBVIOUS
    <2>1. PICK l, e : l = f[i] /\ e = KV(m, i + 1)
      OBVIOUS
    <2>2. IsSeq(l) /\ Len(l) = i /\ \A x \in 1 .. i : l[x] = KV(m, x)
      BY <1>3, <2>1
    <2>3. f[i + 1] = Append(l, e)
      <3>1. i \in 0 .. n - 1 /\ i + 1 \in 1 .. n
        OBVIOUS
      <3>2. f[i + 1] = ListNext(m, l, i + 1)
        BY <1>1, <2>1, <3>1 DEF IsListed
      <3> QED
        BY <2>1, <3>1, <3>2 DEF ListNext
    <2>4. PICK a : a = Append(l, e)
      OBVIOUS
    <2>5. /\ IsSeq(a) /\ Len(a) = i + 1 /\ a[i + 1] = e
          /\ \A x \in 1 .. i : a[x] = l[x]
      BY <2>2, <2>4, AppendSeq
    <2>6. \A x \in 1 .. i + 1 : x \in 1 .. i \/ x = i + 1
      OBVIOUS
    <2>7. \A x \in 1 .. i + 1 : a[x] = KV(m, x)
      BY <2>1, <2>2, <2>5, <2>6
    <2> QED
      BY <2>3, <2>4, <2>5, <2>7
  <1> HIDE DEF S
  <1>4. n \in S
    BY <1>2, <1>3, NatInduct
  <1>5. P(n)
    BY <1>4 DEF S
  <1> QED
    BY <1>1, <1>5

(* A copy shows what the map shows.                                        *)
LEMMA SeesCopied ==
    ASSUME NEW m, Coherent(m), NEW c \in Nat, c <= MaxCapacity, NEW r
    PROVE  LiveEntries(CopyCtor(m, c, r)) = LiveEntries(m)
  <1>0. Shape(m) /\ m.off \in Nat /\ m.capacity \in Nat /\ m.capacity <= MaxCapacity
    BY MapSizes DEF Coherent, Shape
  <1>1. PICK n \in Nat, cap \in Nat : n = m.off /\ cap = IF c < m.capacity THEN m.capacity ELSE c
    BY <1>0
  <1>2. m.capacity <= cap /\ cap <= MaxCapacity
    BY <1>0, <1>1 DEF MaxCapacity
  <1>3. PICK x : x = MapCtor(cap, r)
    OBVIOUS
  <1>4. PICK F : IsCopied(F, m, x, n) /\ CopyCtor(m, c, r) = F[n]
    BY <1>0, <1>1, <1>3, CopyIsCopied
  <1>5. PICK f : IsListed(f, m, n) /\ LiveEntries(m) = f[n]
    BY <1>1, EntriesListed
  <1> DEFINE P(i) == Copying(m, F[i], i, cap, r) /\ LiveEntries(F[i]) = f[i]
             S == {i \in Nat : i <= n => P(i)}
  <1>6. 0 \in S
    <2>1. F[0] = x /\ f[0] = << >>
      BY <1>4, <1>5 DEF IsCopied, IsListed
    <2>2. Coherent(x) /\ x.off = 0 /\ x.n = 0 /\ x.capacity = cap /\ x.rc = r
          /\ x.iter = FALSE /\ x.lost = FALSE /\ Live(x) = {}
      <3>1. LET y == MapCtor(cap, r)
            IN /\ Coherent(y) /\ y.off = 0 /\ y.n = 0 /\ y.capacity = cap /\ y.rc = r
               /\ y.iter = FALSE /\ y.lost = FALSE /\ Live(y) = {}
        BY <1>2, CtorCoherent
      <3> QED
        BY <1>3, <3>1
    <2>3. LiveEntries(x) = << >>
      BY <2>2, SeesNothing
    <2>4. LiveTo(m, 0) = {}
      <3>1. Live(m) \subseteq 1 .. m.off
        BY <1>0, MapSizes
      <3> QED
        BY <1>0, <3>1 DEF LiveTo
    <2>5. Copying(m, x, 0, cap, r)
      BY <2>2, <2>4, FS_EmptySet DEF Copying, Has
    <2> QED
      BY <2>1, <2>3, <2>5
  <1>7. ASSUME NEW i \in Nat, i \in S PROVE i + 1 \in S
    <2> SUFFICES ASSUME i + 1 <= n PROVE P(i + 1)
      OBVIOUS
    <2>1. Copying(m, F[i], i, cap, r) /\ LiveEntries(F[i]) = f[i]
      BY <1>7
    <2>2. i \in 0 .. n - 1 /\ i < m.off
      BY <1>1
    <2>3. F[i + 1] = CopyNext(m, F[i], i + 1) /\ f[i + 1] = ListNext(m, f[i], i + 1)
      BY <1>4, <1>5, <2>2 DEF IsCopied, IsListed
    <2>4. PICK y : y = F[i]
      OBVIOUS
    <2>5. Copying(m, CopyNext(m, y, i + 1), i + 1, cap, r)
      BY <1>2, <2>1, <2>2, <2>4, CopyTurn
    <2>6. LiveEntries(CopyNext(m, y, i + 1)) = ListNext(m, LiveEntries(y), i + 1)
      <3>1. CASE m.vec[i + 1] = Gone
        BY <3>1 DEF CopyNext, ListNext
      <3>2. CASE m.vec[i + 1] # Gone
        <4>1. Coherent(y) /\ y.off \in Nat
          BY <2>1, <2>4, MapSizes DEF Copying, Coherent
        <4>2. PICK k, v, s : k = m.vec[i + 1].key /\ v = m.vec[i + 1].value /\ s = FindEntry(y, k).empty
          OBVIOUS
        <4>3. PICK d : d = Insert(y, k, v)
          OBVIOUS
        <4>4. Added(y, d, k, v, s)
          BY <4>1, <4>2, <4>3, AddFields DEF Insert, Coherent
        <4>5. k # NullKey
          <5>1. i + 1 \in Live(m)
            BY <1>1, <3>2 DEF Live
          <5> QED
            BY <4>2, <5>1, HbsMapAssumption DEF Coherent, EntryOK
        <4>6. LiveEntries(d) = Append(LiveEntries(y), <<k, v>>)
          BY <4>1, <4>4, <4>5, SeesInserted
        <4> QED
          BY <3>2, <4>2, <4>3, <4>6 DEF CopyNext, ListNext, KV
      <3> QED
        BY <3>1, <3>2
    <2> QED
      BY <2>1, <2>3, <2>4, <2>5, <2>6
  <1> HIDE DEF S
  <1>8. n \in S
    BY <1>6, <1>7, NatInduct
  <1>9. P(n)
    BY <1>8 DEF S
  <1> QED
    BY <1>4, <1>5, <1>9

-----------------------------------------------------------------------------
(* What a program sees of all its maps                                     *)

Shows(m) == IF m.lost THEN LostMap ELSE LiveEntries(m)

(* The map has places of removed entries, or is broken.                    *)
Holes(m) == m.lost \/ IsSparse(m)

(* What a holder sees, and what it sees after a step.                      *)
LEMMA ContentsAre ==
    ASSUME NEW h
    PROVE  /\ Contents(h) = IF HasMap(h) THEN Shows(heap[ref[h]])
                            ELSE IF ref[h] = None THEN << >> ELSE LostMap
           /\ Contents(h)' = IF ref'[h] \notin {None, Dangling} THEN Shows(heap'[ref'[h]])
                             ELSE IF ref'[h] = None THEN << >> ELSE LostMap
  <1>1. Contents(h) = IF HasMap(h) THEN Shows(heap[ref[h]])
                      ELSE IF ref[h] = None THEN << >> ELSE LostMap
    BY DEF Contents, Shows, Map, HasMap
  <1>2. Contents(h)' = IF ref'[h] \notin {None, Dangling} THEN Shows(heap'[ref'[h]])
                       ELSE IF ref'[h] = None THEN << >> ELSE LostMap
    BY DEF Contents, Shows, Map
  <1> QED
    BY <1>1, <1>2

(* Whether its map has holes, and whether it has them after a step.        *)
LEMMA HoledAre ==
    ASSUME NEW h \in Holders
    PROVE  /\ h \in Holed <=> ref[h] = Dangling \/ (HasMap(h) /\ Holes(heap[ref[h]]))
           /\ h \in Holed' <=> \/ ref'[h] = Dangling
                               \/ ref'[h] \notin {None, Dangling} /\ Holes(heap'[ref'[h]])
  <1>0. None # Dangling
    BY DEF None, Dangling
  <1>1. h \in Holed <=> ref[h] = Dangling \/ (HasMap(h) /\ Holes(heap[ref[h]]))
    BY <1>0 DEF Holed, Holes, Map, HasMap
  <1>2. h \in Holed' <=> \/ ref'[h] = Dangling
                         \/ ref'[h] \notin {None, Dangling} /\ Holes(heap'[ref'[h]])
    BY <1>0 DEF Holed, Holes, Map, IsSparse
  <1> QED
    BY <1>1, <1>2

(* Whether its map is marked.                                              *)
LEMMA MarkedAre ==
    ASSUME NEW h \in Holders
    PROVE  /\ h \in Marked <=> HasMap(h) /\ ref[h] \in stuck
           /\ h \in Marked' <=> ref'[h] \notin {None, Dangling} /\ ref'[h] \in stuck'
  BY DEF Marked, HasMap

(* Nothing that is seen of x's map changes, nor that it is marked.         *)
Kept(x) == /\ Contents(x)' = Contents(x)
           /\ x \in Holed' <=> x \in Holed
           /\ x \in Marked' <=> x \in Marked

(* Those who see a change of h's map.                                      *)
SeeChange(h, S) ==
    S = {h} \/ (h \in S /\ S \subseteq {g \in Marked : Contents(g) = Contents(h)})

(* The contents of all in S become y, with holes or without, and nobody    *)
(* else's change.                                                          *)
Becomes(h, S, y, b) ==
    /\ S \subseteq Holders /\ SeeChange(h, S)
    /\ \A x \in S : Contents(x)' = y /\ (x \in Holed' <=> b) /\ (x \in Marked' <=> x \in Marked)
    /\ \A x \in Holders \ S : Kept(x)

(* h gets another map, marked or not.                                      *)
Given(h, y, b, c) ==
    /\ Contents(h)' = y /\ (h \in Holed' <=> b) /\ (h \in Marked' <=> c)
    /\ \A x \in Holders \ {h} : Kept(x)

(* The sets of holders of maps with holes, and of marked maps.             *)
LEMMA HolderSets ==
    /\ Holed \subseteq Holders /\ Holed' \subseteq Holders
    /\ Marked \subseteq Holders /\ Marked' \subseteq Holders
  BY DEF Holed, Marked

(* What all holders see changes for those in S only.                       *)
LEMMA BecomesIs ==
    ASSUME NEW h \in Holders, NEW S, NEW y, NEW b \in BOOLEAN, Becomes(h, S, y, b)
    PROVE  /\ O!Becomes(h, S, y)
           /\ b => Holed' = Holed \cup S
           /\ ~b => Holed' = Holed \ S
  <1>1. /\ S \subseteq Holders /\ SeeChange(h, S)
        /\ \A x \in S : Contents(x)' = y /\ (x \in Holed' <=> b) /\ (x \in Marked' <=> x \in Marked)
        /\ \A x \in Holders \ S : /\ Contents(x)' = Contents(x)
                                  /\ x \in Holed' <=> x \in Holed
                                  /\ x \in Marked' <=> x \in Marked
    BY DEF Becomes, Kept
  <1>2. O!SeeChange(h, S)
    <2>1. CASE S = {h}
      BY <2>1 DEF O!SeeChange
    <2>2. CASE h \in S /\ S \subseteq {g \in Marked : Contents(g) = Contents(h)}
      <3>1. PICK V : V = [x \in Holders |-> Contents(x)]
        OBVIOUS
      <3>2. V[h] = Contents(h) /\ \A g \in Marked : V[g] = Contents(g)
        BY <3>1, HolderSets
      <3>3. h \in S /\ S \subseteq {g \in Marked : V[g] = V[h]}
        BY <2>2, <3>2
      <3> QED
        BY <3>1, <3>3 DEF O!SeeChange
    <2> QED
      BY <1>1, <2>1, <2>2 DEF SeeChange
  <1>3. [x \in Holders |-> Contents(x)]' =
           [g \in Holders |-> IF g \in S THEN y ELSE [x \in Holders |-> Contents(x)][g]]
    BY <1>1
  <1>4. Marked' = Marked
    BY <1>1, HolderSets
  <1>5. (b => Holed' = Holed \cup S) /\ (~b => Holed' = Holed \ S)
    BY <1>1, HolderSets
  <1> QED
    BY <1>2, <1>3, <1>4, <1>5 DEF O!Becomes

(* A change that makes no holes, and may close them.                       *)
LEMMA Settles ==
    ASSUME NEW h \in Holders, NEW S, NEW y, NEW b \in BOOLEAN, Becomes(h, S, y, b),
           b => S \subseteq Holed
    PROVE  O!MaySettle(S)
  <1>1. (b => Holed' = Holed \cup S) /\ (~b => Holed' = Holed \ S)
    BY BecomesIs
  <1>2. CASE b
    <2>1. Holed' = Holed \cup S /\ S \subseteq Holed
      BY <1>1, <1>2
    <2> QED
      BY <2>1 DEF O!MaySettle
  <1>3. CASE ~b
    BY <1>1, <1>3 DEF O!MaySettle
  <1> QED
    BY <1>2, <1>3

(* Changes of what holders see are the actions of OrderedMaps: an empty    *)
(* map,                                                                    *)
LEMMA GivenNew ==
    ASSUME NEW h \in Holders, Given(h, << >>, FALSE, FALSE)
    PROVE  O!New(h)
  <1>1. /\ Contents(h)' = << >> /\ h \notin Holed' /\ h \notin Marked'
        /\ \A x \in Holders \ {h} : /\ Contents(x)' = Contents(x)
                                    /\ x \in Holed' <=> x \in Holed
                                    /\ x \in Marked' <=> x \in Marked
    BY DEF Given, Kept
  <1>2. Holed' = Holed \ {h} /\ Marked' = Marked \ {h}
    BY <1>1, HolderSets
  <1>3. [x \in Holders |-> Contents(x)]' = [[x \in Holders |-> Contents(x)] EXCEPT ![h] = << >>]
    BY <1>1
  <1> QED
    BY <1>2, <1>3 DEF O!New

(* the map of another holder,                                              *)
LEMMA GivenAssign ==
    ASSUME NEW h \in Holders, NEW s \in Holders,
           Given(h, Contents(s), s \in Holed, s \in Marked)
    PROVE  O!Assign(h, s)
  <1>1. /\ Contents(h)' = Contents(s) /\ (h \in Holed' <=> s \in Holed)
        /\ h \in Marked' <=> s \in Marked
        /\ \A x \in Holders \ {h} : /\ Contents(x)' = Contents(x)
                                    /\ x \in Holed' <=> x \in Holed
                                    /\ x \in Marked' <=> x \in Marked
    BY DEF Given, Kept
  <1>2. Holed' = O!Passed(Holed, h, s)
    BY <1>1, HolderSets DEF O!Passed
  <1>3. Marked' = O!Passed(Marked, h, s)
    BY <1>1, HolderSets DEF O!Passed
  <1>4. [x \in Holders |-> Contents(x)]' =
           [[x \in Holders |-> Contents(x)] EXCEPT ![h] = Contents(s)]
    BY <1>1
  <1> QED
    BY <1>2, <1>3, <1>4 DEF O!Assign

(* a key at the end,                                                       *)
LEMMA BecomesAdd ==
    ASSUME NEW h \in Holders, NEW S, NEW k, NEW v, NEW b \in BOOLEAN,
           Becomes(h, S, Append(Contents(h), <<k, v>>), b), b => S \subseteq Holed,
           k \notin O!KeysOf(Contents(h))
    PROVE  O!Add(h, S, k, v)
  <1>1. O!MaySettle(S)
    BY Settles
  <1>2. O!Becomes(h, S, Append(Contents(h), <<k, v>>))
    BY BecomesIs
  <1>3. [x \in Holders |-> Contents(x)][h] = Contents(h)
    OBVIOUS
  <1> QED
    BY <1>1, <1>2, <1>3 DEF O!Add

(* another value for a key,                                                *)
LEMMA BecomesReplace ==
    ASSUME NEW h \in Holders, NEW S, NEW k, NEW v, NEW r, NEW l, NEW y,
           ReplacedAt(Contents(h), l, r, y, <<k, v>>), y[1] = k,
           NEW b \in BOOLEAN, Becomes(h, S, l, b), b => S \subseteq Holed
    PROVE  O!Replace(h, S, k, v)
  <1>1. IsSeq(Contents(h)) /\ r \in 1 .. Len(Contents(h)) /\ Contents(h)[r] = y
        /\ Replaced(Contents(h), l, r, <<k, v>>)
    BY DEF ReplacedAt
  <1>2. PICK c : c = Contents(h)
    OBVIOUS
  <1>3. l = [c EXCEPT ![r] = <<k, v>>] /\ r \in DOMAIN c
    BY <1>1, <1>2, ReplacedIs DEF IsSeq
  <1>4. PICK V : V = [x \in Holders |-> Contents(x)]
    OBVIOUS
  <1>5. V[h] = c
    BY <1>2, <1>4
  <1>6. c[r][1] = k
    BY <1>1, <1>2
  <1>7. O!Becomes(h, S, [V[h] EXCEPT ![r] = <<k, v>>])
    <2>1. O!Becomes(h, S, l)
      BY BecomesIs
    <2> QED
      BY <1>3, <1>5, <2>1
  <1>8. r \in DOMAIN V[h] /\ V[h][r][1] = k
    BY <1>3, <1>5, <1>6
  <1>9. O!MaySettle(S)
    BY Settles
  <1> QED
    BY <1>4, <1>7, <1>8, <1>9 DEF O!Replace

(* and a key less.                                                         *)
LEMMA BecomesTakeOut ==
    ASSUME NEW h \in Holders, NEW S, NEW k, NEW r, NEW l, NEW y,
           TakenOut(Contents(h), l, r, y), y[1] = k, Becomes(h, S, l, TRUE)
    PROVE  O!TakeOut(h, S, k)
  <1>1. IsSeq(Contents(h)) /\ r \in 1 .. Len(Contents(h)) /\ Contents(h)[r] = y
    BY DEF TakenOut
  <1>2. PICK c : c = Contents(h)
    OBVIOUS
  <1>3. l = SubSeq(c, 1, r - 1) \o SubSeq(c, r + 1, Len(c)) /\ r \in DOMAIN c
    BY <1>1, <1>2, TakenIs DEF IsSeq
  <1>4. PICK V : V = [x \in Holders |-> Contents(x)]
    OBVIOUS
  <1>5. V[h] = c
    BY <1>2, <1>4
  <1>6. c[r][1] = k
    BY <1>1, <1>2
  <1>7. O!Becomes(h, S, O!RemoveAt(V[h], r))
    <2>1. O!Becomes(h, S, l)
      BY BecomesIs
    <2>2. O!RemoveAt(V[h], r) = l
      BY <1>3, <1>5 DEF O!RemoveAt
    <2> QED
      BY <2>1, <2>2
  <1>8. r \in DOMAIN V[h] /\ V[h][r][1] = k
    BY <1>3, <1>5, <1>6
  <1>9. Holed' = Holed \cup S
    BY BecomesIs
  <1> QED
    BY <1>4, <1>7, <1>8, <1>9 DEF O!TakeOut

(* A map whose counts and flags change shows what it showed.               *)
LEMMA AlikeShows ==
    ASSUME NEW m, NEW c, MapOK(m, c), NEW d, Alike(m, d), d.lost = m.lost
    PROVE  Shows(d) = Shows(m) /\ (Holes(d) <=> Holes(m))
  <1>0. Holes(d) <=> Holes(m)
    BY DEF Alike, Holes, IsSparse
  <1>1. CASE m.lost
    BY <1>0, <1>1 DEF Shows
  <1>2. CASE ~m.lost
    <2>1. Coherent(m)
      BY <1>2 DEF MapOK
    <2>2. PICK n \in Nat : n = m.off
      BY <2>1, MapSizes DEF Coherent
    <2>3. d.off = n /\ SameTo(m, d, n)
      BY <2>2 DEF Alike, SameTo
    <2>4. LiveEntries(d) = LiveEntries(m)
      BY <2>2, <2>3, SameVector
    <2> QED
      BY <1>0, <1>2, <2>4 DEF Shows
  <1> QED
    BY <1>1, <1>2

(* A holder is handed another map: the others see no difference.           *)
LEMMA OthersShow ==
    ASSUME Owned, MapsInv, NEW h \in Holders, NEW b, Handed(h, b), stuck \subseteq DOMAIN heap,
           stuck' = stuck \cap DOMAIN heap'
    PROVE  \A x \in Holders \ {h} : Kept(x)
  <1> SUFFICES ASSUME NEW x \in Holders \ {h} PROVE Kept(x)
    OBVIOUS
  <1>1. ref'[x] = ref[x]
    BY DEF Handed, Owned
  <1>2. CASE ~HasMap(x)
    BY <1>1, <1>2, ContentsAre, HoledAre, MarkedAre DEF HasMap, Kept
  <1>3. CASE HasMap(x)
    <2>1. PICK a : a = ref[x]
      OBVIOUS
    <2>2. a \in DOMAIN heap /\ a \in DOMAIN heap'
      BY <1>3, <2>1 DEF Owned, Handed
    <2>3. Recounted(heap[a], heap'[a]) /\ MapOK(heap[a], changes)
      BY <2>2 DEF Handed, MapsInv
    <2>4. Shows(heap'[a]) = Shows(heap[a]) /\ (Holes(heap'[a]) <=> Holes(heap[a]))
      BY <2>3, AlikeShows DEF Recounted
    <2>5. Contents(x)' = Contents(x) /\ (x \in Holed' <=> x \in Holed)
      BY <1>1, <1>3, <2>1, <2>4, ContentsAre, HoledAre DEF HasMap
    <2>6. x \in Marked' <=> x \in Marked
      BY <1>1, <1>3, <2>1, <2>2, MarkedAre DEF HasMap
    <2> QED
      BY <2>5, <2>6 DEF Kept
  <1> QED
    BY <1>2, <1>3

(* A map that is not shared has one holder.                                *)
LEMMA OnlyHolder ==
    ASSUME Owned, NEW h \in Holders, HasMap(h), ~(heap[ref[h]].rc > 1)
    PROVE  Users(ref[h]) = {h}
  <1>1. PICK U : U = Users(ref[h])
    OBVIOUS
  <1>2. h \in U
    BY <1>1 DEF Users
  <1>3. heap[ref[h]].rc = Cardinality(U)
    BY <1>1 DEF Owned
  <1>4. IsFiniteSet(U)
    <2>1. U \in SUBSET Holders
      BY <1>1 DEF Users
    <2> QED
      BY <2>1, HbsMapAssumption, FS_Subset
  <1>5. Cardinality(U) \in Nat /\ Cardinality(U) # 0
    BY <1>2, <1>4, FS_CardinalityType, FS_EmptySet
  <1>6. Cardinality(U) = 1
    BY <1>3, <1>5
  <1>7. PICK x : U = {x}
    BY <1>4, <1>6, FS_Singleton
  <1> QED
    BY <1>1, <1>2, <1>7

(* handlebars_map_rehash does not show.                                    *)
LEMMA SeesRehashed ==
    ASSUME NEW m, Coherent(m), m.n + 1 < MaxCapacity, NEW force
    PROVE  LiveEntries(Rehashed(m, force)) = LiveEntries(m)
  <1>1. m.n \in Nat /\ m.n + 1 \in Nat
    BY ShrunkSelf
  <1>2. PICK c : c = ChooseVecCapacity(m.n + 1)
    OBVIOUS
  <1>3. c \in Nat /\ c <= MaxCapacity
    BY <1>1, <1>2, VectorHasRoom
  <1>4. LiveEntries(CopyCtor(m, c, 1)) = LiveEntries(m)
    BY <1>3, SeesCopied
  <1> QED
    BY <1>2, <1>4 DEF Rehashed

(* The map of a holder is changed, to what d shows: nobody else's is,      *)
(* unless it is marked and shared.                                         *)
LEMMA ChangeShows ==
    ASSUME MapInv, NEW h \in Holders, HasMap(h), ~Map(h).lost, NEW force, NEW d,
           Changed(h, force, d), SameFlags(Rehashed(Map(h), force), d),
           Map(h).iter => Map(h).rc = 1 \/ ref[h] \in stuck
    PROVE  /\ Contents(h) = LiveEntries(Rehashed(Map(h), force))
           /\ \E S \in SUBSET Holders :
                /\ Becomes(h, S, LiveEntries(d), IsSparse(d))
                /\ IsSparse(Rehashed(Map(h), force)) => S \subseteq Holed
  <1>0. PICK a, m : a = ref[h] /\ m = Map(h)
    OBVIOUS
  <1> DEFINE r == Rehashed(m, force)
  <1>1. Owned /\ MapsInv /\ LoopsInv /\ LockInv /\ Count /\ UNCHANGED stuck
    BY DEF MapInv, Changed
  <1>2. a \in DOMAIN heap /\ m = heap[a]
    BY <1>0, <1>1 DEF Owned, Map
  <1>3. Coherent(m) /\ m.n + 1 < MaxCapacity /\ m.n \in Nat
    BY <1>0, <1>1, MapOfHolder
  <1>4. /\ ~Rehashes(m, force) => r = m
        /\ Rehashes(m, force) => /\ r.rc = 1 /\ r.iter = FALSE /\ r.lost = FALSE
                                 /\ r.n = m.n /\ r.off = m.n
    BY <1>3, RehashedOK
  <1>5. d.rc = r.rc /\ d.iter = r.iter /\ d.lost = r.lost
    BY <1>0 DEF SameFlags
  <1>6. LiveEntries(r) = LiveEntries(m)
    BY <1>3, SeesRehashed
  <1> HIDE DEF r
  <1>7. Contents(h) = LiveEntries(m) /\ (h \in Holed <=> IsSparse(m))
    BY <1>0, <1>2, ContentsAre, HoledAre DEF Shows, Holes, HasMap
  <1>8. IsSparse(r) => IsSparse(m)
    BY <1>4 DEF IsSparse
  <1>9. CASE Rehashes(m, force)
    <2>0. PICK b : b = Least(Free)
      OBVIOUS
    <2>1. b \in Free /\ b \notin {None, Dangling} /\ ref[h] # Dangling
      BY <1>1, <2>0, RoomForOne DEF None, Dangling, HasMap
    <2>2. heap' = Place(Delref(heap, ref[h]), b, d) /\ ref' = [ref EXCEPT ![h] = b]
      BY <1>0, <1>9, <2>0 DEF Changed
    <2>3. d.rc = 1 /\ ~d.lost
      BY <1>4, <1>5, <1>9
    <2>4. Handed(h, b) /\ heap'[b] = d /\ DOMAIN heap' = DOMAIN Delref(heap, ref[h]) \cup {b}
      BY <1>1, <2>1, <2>2, <2>3, MoveHands
    <2>5. a \notin stuck /\ b \notin stuck /\ stuck \subseteq DOMAIN heap
      <3>1. ~m.iter
        BY <1>9 DEF Rehashes
      <3>2. ~Before(Len(loops) + 1, a)
        BY <1>1, <1>2, <3>1 DEF LockInv
      <3> QED
        BY <1>1, <2>1, <3>2 DEF LockInv, Before, Free
    <2>6. stuck' = stuck \cap DOMAIN heap'
      <3>1. \A x \in DOMAIN heap : x # a => Users(x) \ {h} # {}
        <4>1. \A x \in DOMAIN heap : x # a => Users(x) \ {h} = Users(x)
          BY <1>0 DEF Users
        <4> QED
          BY <1>1, <4>1 DEF Owned
      <3>2. \A x \in DOMAIN heap : x # a => x \in DOMAIN Delref(heap, ref[h])
        BY <1>1, <2>1, <3>1, DelrefIs
      <3> QED
        BY <1>1, <2>4, <2>5, <3>2
    <2>7. \A x \in Holders \ {h} : Kept(x)
      BY <1>1, <2>4, <2>5, <2>6, OthersShow
    <2>8. ref'[h] = b
      BY <1>1, <2>2 DEF Owned
    <2>9. Contents(h)' = LiveEntries(d) /\ (h \in Holed' <=> IsSparse(d))
      BY <2>1, <2>3, <2>4, <2>8, ContentsAre, HoledAre DEF Shows, Holes
    <2>10. h \in Marked' <=> h \in Marked
      BY <1>0, <1>1, <2>5, <2>8, MarkedAre
    <2>11. SeeChange(h, {h})
      BY DEF SeeChange
    <2>12. Becomes(h, {h}, LiveEntries(d), IsSparse(d))
      BY <2>7, <2>9, <2>10, <2>11 DEF Becomes
    <2>13. IsSparse(r) => {h} \subseteq Holed
      BY <1>7, <1>8
    <2> QED
      BY <1>0, <1>6, <1>7, <2>12, <2>13 DEF r
  <1>10. CASE ~Rehashes(m, force)
    <2>1. heap' = [heap EXCEPT ![a] = d] /\ UNCHANGED ref
      BY <1>0, <1>10 DEF Changed
    <2>2. heap'[a] = d /\ \A x \in DOMAIN heap : x # a => heap'[x] = heap[x]
      BY <1>1, <1>2, <2>1 DEF Owned
    <2>3. PICK S : S = Users(a)
      OBVIOUS
    <2>4. S \in SUBSET Holders /\ h \in S /\ \A x \in S : ref[x] = a /\ ref'[x] = a
      BY <1>0, <2>1, <2>3 DEF Users
    <2>5. a \notin {None, Dangling} /\ ~m.lost /\ ~d.lost
      BY <1>0, <1>4, <1>5, <1>10 DEF HasMap
    <2>6. SeeChange(h, S)
      <3>1. CASE ~(m.rc > 1)
        <4>1. S = {h}
          BY <1>0, <1>1, <1>2, <2>3, <3>1, OnlyHolder
        <4> QED
          BY <4>1 DEF SeeChange
      <3>2. CASE m.rc > 1
        <4>1. m.iter
          BY <1>10, <3>2 DEF Rehashes
        <4>2. a \in stuck
          BY <1>0, <3>2, <4>1
        <4>3. \A x \in S : x \in Marked
          BY <2>4, <2>5, <4>2, MarkedAre DEF HasMap
        <4>4. \A x \in S : Contents(x) = Contents(h)
          BY <2>4, ContentsAre DEF HasMap
        <4> QED
          BY <2>4, <4>3, <4>4 DEF SeeChange
      <3> QED
        BY <3>1, <3>2
    <2>7. ASSUME NEW x \in Holders \ S PROVE Kept(x)
      <3>1. ref[x] # a /\ ref'[x] = ref[x]
        BY <2>1, <2>3 DEF Users
      <3>2. HasMap(x) => ref[x] \in DOMAIN heap
        BY <1>1 DEF Owned
      <3>3. Contents(x)' = Contents(x) /\ (x \in Holed' <=> x \in Holed)
        BY <2>2, <3>1, <3>2, ContentsAre, HoledAre DEF HasMap
      <3>4. x \in Marked' <=> x \in Marked
        BY <1>1, <3>1, MarkedAre DEF HasMap
      <3> QED
        BY <3>3, <3>4 DEF Kept
    <2>8. ASSUME NEW x \in S
          PROVE  /\ Contents(x)' = LiveEntries(d) /\ (x \in Holed' <=> IsSparse(d))
                 /\ x \in Marked' <=> x \in Marked
      <3>1. x \in Holders /\ ref[x] = a /\ ref'[x] = a
        BY <2>4
      <3>2. Contents(x)' = LiveEntries(d) /\ (x \in Holed' <=> IsSparse(d))
        BY <2>2, <2>5, <3>1, ContentsAre, HoledAre DEF Shows, Holes
      <3>3. x \in Marked' <=> x \in Marked
        BY <1>1, <3>1, MarkedAre DEF HasMap
      <3> QED
        BY <3>2, <3>3
    <2>9. Becomes(h, S, LiveEntries(d), IsSparse(d))
      BY <2>4, <2>6, <2>7, <2>8 DEF Becomes
    <2>10. IsSparse(r) => S \subseteq Holed
      <3> SUFFICES ASSUME IsSparse(m), NEW x \in S PROVE x \in Holed
        BY <1>8
      <3> QED
        BY <1>2, <2>4, <2>5, HoledAre DEF HasMap, Holes
    <2> QED
      BY <1>0, <1>6, <1>7, <2>4, <2>9, <2>10 DEF r
  <1> QED
    BY <1>9, <1>10

-----------------------------------------------------------------------------
(* Every step is one of the promised ones, or does not show                *)

(* A key that is seen is there.                                            *)
LEMMA SeenIsThere ==
    ASSUME NEW m, Coherent(m), NEW k, k \in O!KeysOf(LiveEntries(m))
    PROVE  Has(m, k)
  <1>1. m.off \in Nat
    BY MapSizes DEF Coherent
  <1>2. PICK l, n : l = LiveEntries(m) /\ n = m.off
    OBVIOUS
  <1>3. Listed(m, l, n)
    BY <1>1, <1>2, SeesLive
  <1>4. PICK x \in DOMAIN l : l[x][1] = k
    BY <1>2 DEF O!KeysOf
  <1>5. PICK j \in 1 .. n : m.vec[j] # Gone /\ l[x] = KV(m, j)
    BY <1>3 DEF Listed, IsSeq
  <1>6. j \in Live(m) /\ m.vec[j].key = k
    BY <1>2, <1>4, <1>5 DEF Live, KV
  <1> QED
    BY <1>6 DEF Has

(* A map has no more entries than its vector has places in use.            *)
LEMMA HasNoMore ==
    ASSUME NEW m, Coherent(m)
    PROVE  m.n \in Nat /\ m.off \in Nat /\ m.n <= m.off
  <1>1. PICK o, n, L : o = m.off /\ n = m.n /\ L = Live(m)
    OBVIOUS
  <1>2. o \in Nat /\ L \subseteq 1 .. o /\ Cardinality(L) = n
    BY <1>1, MapSizes DEF Coherent
  <1>3. IsFiniteSet(1 .. o) /\ Cardinality(1 .. o) = IF 1 > o THEN 0 ELSE o - 1 + 1
    BY <1>2, FS_Interval
  <1>4. Cardinality(1 .. o) = o
    BY <1>2, <1>3
  <1>5. IsFiniteSet(L) /\ n <= o
    BY <1>2, <1>3, <1>4, FS_Subset
  <1>6. n \in Nat
    BY <1>2, <1>5, FS_CardinalityType
  <1> QED
    BY <1>1, <1>2, <1>5, <1>6

(* What an entry has is seen.                                              *)
LEMMA ThereIsSeen ==
    ASSUME NEW m, Coherent(m), NEW k, Has(m, k)
    PROVE  k \in O!KeysOf(LiveEntries(m))
  <1>1. PICK n \in Nat : n = m.off
    BY MapSizes DEF Coherent
  <1>2. PICK i \in Live(m) : m.vec[i].key = k
    BY DEF Has
  <1>3. OneDiffers(m, m, i, n) /\ m.vec[i] # Gone
    BY <1>1, <1>2 DEF OneDiffers, Live
  <1>4. PICK r : ReplacedAt(LiveEntries(m), LiveEntries(m), r, KV(m, i), KV(m, i))
    BY <1>3, SeesRewritten
  <1>5. PICK l : l = LiveEntries(m)
    OBVIOUS
  <1>6. r \in DOMAIN l /\ l[r] = KV(m, i)
    BY <1>4, <1>5 DEF ReplacedAt, IsSeq
  <1>7. l[r][1] = k
    BY <1>2, <1>6 DEF KV
  <1>8. k \in O!KeysOf(l)
    BY <1>6, <1>7 DEF O!KeysOf
  <1> QED
    BY <1>5, <1>8

(* A map breaks for all who hold it, and for nobody else.                  *)
LEMMA LosesShows ==
    ASSUME Owned, NEW h \in Holders, HasMap(h), NEW a, a = ref[h], NEW d, d.lost = TRUE,
           heap' = [heap EXCEPT ![a] = d], UNCHANGED <<ref, stuck>>,
           Users(a) \subseteq Holed \cup Marked
    PROVE  O!Lose
  <1>1. a \in DOMAIN heap /\ a \notin {None, Dangling}
    BY DEF Owned, HasMap
  <1>2. heap'[a] = d /\ \A x \in DOMAIN heap : x # a => heap'[x] = heap[x]
    BY <1>1 DEF Owned
  <1>3. PICK S : S = Users(a)
    OBVIOUS
  <1>4. ASSUME NEW x \in Holders
        PROVE  /\ Contents(x)' = IF x \in S THEN LostMap ELSE Contents(x)
               /\ x \in Holed' <=> x \in Holed \cup S
               /\ x \in Marked' <=> x \in Marked
    <2>1. x \in Marked' <=> x \in Marked
      BY MarkedAre DEF HasMap
    <2>2. CASE x \in S
      <3>1. ref'[x] = a
        BY <1>3, <2>2 DEF Users
      <3> QED
        BY <1>1, <1>2, <2>1, <2>2, <3>1, ContentsAre, HoledAre DEF Shows, Holes
    <2>3. CASE x \notin S
      <3>1. ref'[x] = ref[x] /\ ref[x] # a /\ (HasMap(x) => ref[x] \in DOMAIN heap)
        BY <1>3, <2>3 DEF Users, Owned
      <3> QED
        BY <1>2, <2>1, <2>3, <3>1, ContentsAre, HoledAre DEF HasMap
    <2> QED
      BY <2>2, <2>3
  <1>5. [x \in Holders |-> Contents(x)]' =
           [x \in Holders |-> IF x \in S THEN LostMap ELSE [y \in Holders |-> Contents(y)][x]]
    BY <1>4
  <1>6. S \subseteq Holders
    BY <1>3 DEF Users
  <1>7. Holed' = Holed \cup S /\ Marked' = Marked
    BY <1>4, <1>6, HolderSets
  <1>8. S \in SUBSET (Holed \cup Marked)
    BY <1>3
  <1> QED
    BY <1>5, <1>7, <1>8 DEF O!Lose

(* Where nothing but a history has changed, nothing shows.                 *)
LEMMA SameShows ==
    ASSUME UNCHANGED <<heap, ref, stuck>>
    PROVE  \A x \in Holders : Kept(x)
  BY ContentsAre, HoledAre, MarkedAre DEF HasMap, Kept

(* A change of a marked map in place that it was not fit for.              *)
LEMMA SpoilShows ==
    ASSUME MapInv, NEW h \in Holders, MayChange(h), Spoil(h), ref[h] \in stuck
    PROVE  O!Lose \/ \A x \in Holders : Kept(x)
  <1>1. Owned /\ MapsInv /\ HasMap(h) /\ UNCHANGED <<ref, stuck>>
    BY DEF MapInv, Spoil, MayChange
  <1>2. CASE UNCHANGED heap
    BY <1>1, <1>2, SameShows
  <1>3. CASE heap' = [heap EXCEPT ![ref[h]].lost = TRUE]
    <2>1. PICK a, d : a = ref[h] /\ d = [heap[a] EXCEPT !.lost = TRUE]
      OBVIOUS
    <2>2. a \in DOMAIN heap /\ heap' = [heap EXCEPT ![a] = d]
      BY <1>1, <1>3, <2>1 DEF Owned
    <2>3. d.lost = TRUE
      BY <1>1, <2>1, <2>2 DEF MapsInv, MapOK, MapFields
    <2>4. \A x \in Users(a) : x \in Marked
      BY <1>1, <2>1, MarkedAre DEF Users, HasMap
    <2>5. O!Lose
      BY <1>1, <2>1, <2>2, <2>3, <2>4, LosesShows
    <2> QED
      BY <2>5
  <1> QED
    BY <1>2, <1>3 DEF Spoil

(* handlebars_map_add                                                      *)
LEMMA AddShows ==
    ASSUME MapInv, NEW h \in Holders, NEW k \in Keys, NEW v \in Values, Add(h, k, v)
    PROVE  \/ \E S \in SUBSET Holders : O!Add(h, S, k, v)
           \/ O!Lose
           \/ \A x \in Holders : Kept(x)
  <1> DEFINE m == Map(h)
             r == Rehashed(m, FALSE)
             d == Insert(r, k, v)
  <1>1. MayChange(h) /\ HasMap(h) /\ ~m.lost /\ Find(m, k) = Absent /\ Count
        /\ (m.iter => ref[h] \in stuck)
    BY MarkedFor DEF Add, MayChange, Change, Spoil
  <1>2. Coherent(m) /\ m.n + 1 < MaxCapacity /\ m.n \in Nat
    BY <1>1, MapOfHolder
  <1>3. CASE Overruns(m)
    BY <1>1, <1>3, SpoilsMarked, SpoilShows DEF Add
  <1>4. CASE ~Overruns(m)
    <2>1. Changed(h, FALSE, d)
      BY <1>4 DEF Add, Change, Changed
    <2>2. ~Has(m, k)
      BY <1>1, <1>2, FindIs DEF Has
    <2>3. Rehashes(m, FALSE) \/ m.off < m.capacity
      <3>1. m.off \in Nat /\ m.capacity \in Nat
        BY <1>2, MapSizes DEF Coherent, Shape
      <3>2. m.off >= m.capacity \/ m.off < m.capacity
        BY <3>1
      <3> QED
        BY <1>4, <3>2, Zenon DEF Overruns
    <2>4. Coherent(r) /\ r.n = m.n /\ ~Has(r, k) /\ r.off < r.capacity
      BY <1>2, <2>2, <2>3, RehashedOK
    <2> HIDE DEF m, r
    <2>5. Added(r, d, k, v, FindEntry(r, k).empty)
      BY <2>4, AddFields DEF Insert, Coherent
    <2> HIDE DEF d
    <2>6. k # NullKey /\ SameFlags(r, d)
      BY <2>5, HbsMapAssumption DEF Added
    <2>7. LiveEntries(d) = Append(LiveEntries(r), <<k, v>>)
      BY <2>4, <2>5, <2>6, SeesInserted
    <2>8. /\ Contents(h) = LiveEntries(r)
          /\ \E S \in SUBSET Holders : /\ Becomes(h, S, LiveEntries(d), IsSparse(d))
                                       /\ IsSparse(r) => S \subseteq Holed
      BY <1>1, <2>1, <2>6, ChangeShows DEF m, r
    <2>9. PICK S \in SUBSET Holders : /\ Becomes(h, S, LiveEntries(d), IsSparse(d))
                                      /\ IsSparse(r) => S \subseteq Holed
      BY <2>8
    <2>10. k \notin O!KeysOf(Contents(h))
      BY <2>4, <2>8, SeenIsThere
    <2>11. Becomes(h, S, Append(Contents(h), <<k, v>>), IsSparse(d))
      BY <2>7, <2>8, <2>9
    <2>12. IsSparse(d) \in BOOLEAN /\ (IsSparse(d) => S \subseteq Holed)
      BY <1>2, <2>4, <2>5, <2>9, HasNoMore DEF Added, IsSparse
    <2>13. O!Add(h, S, k, v)
      BY <2>10, <2>11, <2>12, BecomesAdd
    <2> QED
      BY <2>13
  <1> QED
    BY <1>3, <1>4

(* An entry rewritten, or removed.                                         *)
LEMMA RewroteShows ==
    ASSUME NEW m, Coherent(m), NEW i \in Live(m), NEW v, NEW d, Rewrote(m, d, i, v)
    PROVE  \E r : ReplacedAt(LiveEntries(m), LiveEntries(d), r, KV(m, i), <<m.vec[i].key, v>>)
  <1>1. PICK n \in Nat : n = m.off
    BY MapSizes DEF Coherent
  <1>2. /\ i \in 1 .. n /\ m.vec[i] # Gone /\ EntryOK(m, i)
        /\ IsSeq(m.vec) /\ Len(m.vec) = n
    BY <1>1 DEF Live, Coherent, Shape
  <1>3. PICK e : e = [m.vec[i] EXCEPT !.value = v]
    OBVIOUS
  <1>4. e.key = m.vec[i].key /\ e.value = v /\ e.key # NullKey
    BY <1>2, <1>3, HbsMapAssumption DEF EntryOK, EntryFields
  <1>5. e # Gone
    BY <1>4 DEF Gone, Entry
  <1>6. d.vec = [m.vec EXCEPT ![i] = e] /\ d.off = n
    BY <1>1, <1>3 DEF Rewrote
  <1>7. \A j \in 1 .. n : d.vec[j] = IF j = i THEN e ELSE m.vec[j]
    BY <1>2, <1>6 DEF IsSeq
  <1>8. OneDiffers(m, d, i, n) /\ d.vec[i] # Gone
    BY <1>1, <1>2, <1>5, <1>6, <1>7 DEF OneDiffers
  <1>9. KV(d, i) = <<m.vec[i].key, v>>
    BY <1>2, <1>4, <1>7 DEF KV
  <1>10. PICK r : ReplacedAt(LiveEntries(m), LiveEntries(d), r, KV(m, i), KV(d, i))
    BY <1>8, SeesRewritten
  <1> QED
    BY <1>9, <1>10

(* An entry removed: one element of the listing is taken out.              *)
LEMMA ClearedShows ==
    ASSUME NEW m, Coherent(m), NEW i \in Live(m), NEW d, Cleared(m, d, i)
    PROVE  \E r : TakenOut(LiveEntries(m), LiveEntries(d), r, KV(m, i))
  <1>1. PICK n \in Nat : n = m.off
    BY MapSizes DEF Coherent
  <1>2. i \in 1 .. n /\ m.vec[i] # Gone /\ IsSeq(m.vec) /\ Len(m.vec) = n
    BY <1>1 DEF Live, Coherent, Shape
  <1>3. d.vec = [m.vec EXCEPT ![i] = Gone] /\ d.off = n
    BY <1>1 DEF Cleared
  <1>4. \A j \in 1 .. n : d.vec[j] = IF j = i THEN Gone ELSE m.vec[j]
    BY <1>2, <1>3 DEF IsSeq
  <1>5. OneDiffers(m, d, i, n) /\ d.vec[i] = Gone
    BY <1>1, <1>2, <1>3, <1>4 DEF OneDiffers
  <1> QED
    BY <1>5, SeesCleared

(* handlebars_map_update                                                   *)
LEMMA UpdateShows ==
    ASSUME MapInv, NEW h \in Holders, NEW k \in Keys, NEW v \in Values, Update(h, k, v)
    PROVE  \/ \E S \in SUBSET Holders : O!Add(h, S, k, v) \/ O!Replace(h, S, k, v)
           \/ O!Lose
           \/ \A x \in Holders : Kept(x)
  <1> DEFINE m == Map(h)
             r == Rehashed(m, FALSE)
             d == UpdateEntry(r, k, v)
             spoils == Find(m, k) = Absent /\ Overruns(m)
  <1>1. MayChange(h) /\ HasMap(h) /\ ~m.lost /\ Count /\ (m.iter => ref[h] \in stuck)
    BY MarkedFor DEF Update, MayChange, Change, Spoil
  <1>2. Coherent(m) /\ m.n + 1 < MaxCapacity /\ m.n \in Nat
    BY <1>1, MapOfHolder
  <1>3. CASE spoils
    BY <1>1, <1>3, SpoilsMarked, SpoilShows DEF Update
  <1>4. CASE ~spoils
    <2>1. Changed(h, FALSE, d)
      BY <1>4 DEF Update, Change, Changed
    <2>2. Has(m, k) \/ Rehashes(m, FALSE) \/ m.off < m.capacity
      <3>1. m.off \in Nat /\ m.capacity \in Nat
        BY <1>2, MapSizes DEF Coherent, Shape
      <3>2. ~Has(m, k) => Find(m, k) = Absent
        BY <1>2, FindIs
      <3>3. m.off >= m.capacity \/ m.off < m.capacity
        BY <3>1
      <3> QED
        BY <1>4, <3>2, <3>3, Zenon DEF Overruns
    <2>3. Coherent(r) /\ r.n = m.n /\ (Has(r, k) \/ r.off < r.capacity)
      BY <1>2, <2>2, RehashedOK
    <2> HIDE DEF m, r, spoils
    <2>4. CASE ~Has(r, k)
      <3> DEFINE s == FindEntry(r, k).empty
      <3>1. FindEntry(r, k).entry = -1
        BY <2>3, <2>4, FindsEmpty
      <3>2. d = AddAtTableOffset(r, k, v, s) /\ Shape(r)
        BY <2>3, <3>1 DEF UpdateEntry, Coherent
      <3> HIDE DEF s, d
      <3>3. Added(r, d, k, v, s)
        BY <2>3, <2>4, <3>2, AddFields
      <3>4. k # NullKey /\ SameFlags(r, d)
        BY <3>3, HbsMapAssumption DEF Added
      <3>5. LiveEntries(d) = Append(LiveEntries(r), <<k, v>>)
        BY <2>3, <3>3, <3>4, SeesInserted
      <3>6. /\ Contents(h) = LiveEntries(r)
            /\ \E S \in SUBSET Holders : /\ Becomes(h, S, LiveEntries(d), IsSparse(d))
                                         /\ IsSparse(r) => S \subseteq Holed
        BY <1>1, <2>1, <3>4, ChangeShows DEF m, r
      <3>7. PICK S \in SUBSET Holders : /\ Becomes(h, S, LiveEntries(d), IsSparse(d))
                                        /\ IsSparse(r) => S \subseteq Holed
        BY <3>6
      <3>8. k \notin O!KeysOf(Contents(h))
        BY <2>3, <2>4, <3>6, SeenIsThere
      <3>9. Becomes(h, S, Append(Contents(h), <<k, v>>), IsSparse(d))
        BY <3>5, <3>6, <3>7
      <3>10. IsSparse(d) \in BOOLEAN /\ (IsSparse(d) => S \subseteq Holed)
        BY <1>2, <2>3, <3>3, <3>7, HasNoMore DEF Added, IsSparse
      <3>11. O!Add(h, S, k, v)
        BY <3>8, <3>9, <3>10, BecomesAdd
      <3> QED
        BY <3>11
    <2>5. CASE Has(r, k)
      <3>1. PICK i \in Live(r) : r.vec[i].key = k
        BY <2>5 DEF Has
      <3> DEFINE s == r.vec[i].slot
      <3>2. FindEntry(r, k).entry = s
        <4>1. FindEntry(r, r.vec[i].key) = [entry |-> s, empty |-> -1]
          BY <2>3, FindsLive
        <4> QED
          BY <3>1, <4>1
      <3>3. EntryOK(r, i) /\ DOMAIN r = MapFields
        BY <2>3 DEF Coherent, Shape
      <3>4. s \in Slots(r) /\ r.table[s] = i
        BY <3>3 DEF EntryOK
      <3>5. s \in Nat /\ s >= 0
        BY <3>4 DEF Slots
      <3>6. d = [r EXCEPT !.vec[r.table[s]].value = v]
        BY <3>2, <3>5 DEF UpdateEntry
      <3>7. Rewrote(r, d, i, v)
        BY <3>3, <3>4, <3>6 DEF Rewrote, MapFields, SameFlags
      <3> HIDE DEF d
      <3>8. PICK x : ReplacedAt(LiveEntries(r), LiveEntries(d), x, KV(r, i), <<k, v>>)
        BY <2>3, <3>1, <3>7, RewroteShows
      <3>9. SameFlags(r, d)
        BY <3>7 DEF Rewrote
      <3>10. /\ Contents(h) = LiveEntries(r)
             /\ \E S \in SUBSET Holders : /\ Becomes(h, S, LiveEntries(d), IsSparse(d))
                                          /\ IsSparse(r) => S \subseteq Holed
        BY <1>1, <2>1, <3>9, ChangeShows DEF m, r
      <3>11. KV(r, i)[1] = k
        BY <3>1 DEF KV
      <3>12. PICK l, y : l = LiveEntries(d) /\ y = KV(r, i)
        OBVIOUS
      <3>13. PICK S \in SUBSET Holders : /\ Becomes(h, S, l, IsSparse(d))
                                         /\ IsSparse(r) => S \subseteq Holed
        BY <3>10, <3>12
      <3>14. ReplacedAt(Contents(h), l, x, y, <<k, v>>) /\ y[1] = k
        BY <3>8, <3>10, <3>11, <3>12
      <3>15. IsSparse(d) \in BOOLEAN /\ (IsSparse(d) => S \subseteq Holed)
        BY <3>7, <3>13 DEF Rewrote, IsSparse
      <3>16. O!Replace(h, S, k, v)
        BY <3>13, <3>14, <3>15, BecomesReplace
      <3> QED
        BY <3>16
    <2> QED
      BY <2>4, <2>5
  <1> QED
    BY <1>3, <1>4

(* handlebars_map_remove, in a loop over the map or outside of one         *)
LEMMA RemoveShows ==
    ASSUME MapInv, NEW h \in Holders, NEW k \in Keys, Remove(h, k)
    PROVE  \E S \in SUBSET Holders : O!TakeOut(h, S, k) \/ O!Settle(h, S)
  <1> DEFINE m == Map(h)
             force == LoadFactor(m) < 10
             r == Rehashed(m, force)
             d == RemoveEntry(r, k)
  <1>1. MayRemove(h) /\ Changed(h, force, d) /\ Count
    BY DEF Remove, Change, Changed
  <1>2. HasMap(h) /\ ~m.lost /\ (m.iter => m.rc = 1 \/ ref[h] \in stuck)
    <2>1. CASE MayChange(h)
      BY <2>1, MarkedFor
    <2>2. CASE InnerIs(h, TRUE) /\ m.rc = 1
      <3>1. loops # << >> /\ Inner.holder = h /\ Inner.foreach = TRUE
        BY <2>2 DEF InnerIs
      <3>2. FrameOK(Len(loops)) /\ Inner = loops[Len(loops)]
        BY <3>1, InnerFrame
      <3>3. HasMap(h) /\ ~m.lost
        BY <3>1, <3>2 DEF FrameOK, Map
      <3> QED
        BY <2>2, <3>3
    <2> QED
      BY <1>1, <2>1, <2>2 DEF MayRemove
  <1>3. Coherent(m) /\ m.n + 1 < MaxCapacity /\ m.n \in Nat
    BY <1>1, <1>2, MapOfHolder
  <1>4. Coherent(r)
    BY <1>3, RehashedOK
  <1> HIDE DEF m, force, r
  <1>5. CASE ~Has(r, k)
    <2>1. FindEntry(r, k).entry < 0
      BY <1>4, <1>5, FindsEmpty
    <2>2. d = r
      BY <2>1 DEF RemoveEntry
    <2>3. SameFlags(r, d)
      BY <2>2 DEF SameFlags
    <2> HIDE DEF d
    <2>4. /\ Contents(h) = LiveEntries(r)
          /\ \E S \in SUBSET Holders : /\ Becomes(h, S, LiveEntries(d), IsSparse(d))
                                       /\ IsSparse(r) => S \subseteq Holed
      BY <1>1, <1>2, <2>3, ChangeShows DEF m, r
    <2>5. PICK S \in SUBSET Holders : /\ Becomes(h, S, Contents(h), IsSparse(d))
                                      /\ IsSparse(d) => S \subseteq Holed
      BY <2>2, <2>4
    <2>6. IsSparse(d) \in BOOLEAN
      BY DEF IsSparse
    <2>7. O!MaySettle(S) /\ O!Becomes(h, S, Contents(h))
      BY <2>5, <2>6, Settles, BecomesIs
    <2>8. [x \in Holders |-> Contents(x)]' = [x \in Holders |-> Contents(x)]
      <3>1. \A x \in S : Contents(x) = Contents(h)
        BY <2>5 DEF Becomes, SeeChange
      <3> QED
        BY <2>5, <3>1 DEF Becomes, Kept
    <2>9. O!Settle(h, S)
      BY <2>7, <2>8 DEF O!Settle, O!Becomes
    <2> QED
      BY <2>9
  <1>6. CASE Has(r, k)
    <2>1. PICK i \in Live(r) : r.vec[i].key = k
      BY <1>6 DEF Has
    <2> DEFINE s == r.vec[i].slot
    <2>2. FindEntry(r, k).entry = s
      <3>1. FindEntry(r, r.vec[i].key) = [entry |-> s, empty |-> -1]
        BY <1>4, FindsLive
      <3> QED
        BY <2>1, <3>1
    <2>3. EntryOK(r, i) /\ DOMAIN r = MapFields
      BY <1>4 DEF Coherent, Shape
    <2>4. s \in Slots(r) /\ r.table[s] = i
      BY <2>3 DEF EntryOK
    <2>5. s \in Nat /\ ~(s < 0)
      BY <2>4 DEF Slots
    <2>6. d = [r EXCEPT !.vec[r.table[s]] = Gone, !.table[s] = Tomb, !.n = @ - 1]
      BY <2>2, <2>5 DEF RemoveEntry
    <2>7. Cleared(r, d, i)
      BY <2>3, <2>4, <2>6 DEF Cleared, MapFields, SameFlags
    <2> HIDE DEF d
    <2>8. PICK x : TakenOut(LiveEntries(r), LiveEntries(d), x, KV(r, i))
      BY <1>4, <2>7, ClearedShows
    <2>9. SameFlags(r, d)
      BY <2>7 DEF Cleared
    <2>10. /\ Contents(h) = LiveEntries(r)
           /\ \E S \in SUBSET Holders : Becomes(h, S, LiveEntries(d), IsSparse(d))
      BY <1>1, <1>2, <2>9, ChangeShows DEF m, r
    <2>11. KV(r, i)[1] = k
      BY <2>1 DEF KV
    <2>12. IsSparse(d) = TRUE
      BY <1>4, <2>7, HasNoMore DEF Cleared, IsSparse
    <2>13. PICK l, y : l = LiveEntries(d) /\ y = KV(r, i)
      OBVIOUS
    <2>14. TakenOut(Contents(h), l, x, y) /\ y[1] = k
      BY <2>8, <2>10, <2>11, <2>13
    <2>15. PICK S \in SUBSET Holders : Becomes(h, S, l, TRUE)
      BY <2>10, <2>12, <2>13
    <2>16. O!TakeOut(h, S, k)
      BY <2>14, <2>15, BecomesTakeOut
    <2> QED
      BY <2>16
  <1> QED
    BY <1>5, <1>6

(* Other values in the places of the old ones, in an allowed order.        *)
LEMMA BecomesSort ==
    ASSUME NEW h \in Holders, NEW S, NEW n \in Nat, NEW p \in [1 .. n -> 1 .. n], NEW c, NEW l,
           c = Contents(h), Becomes(h, S, l, FALSE),
           \A i, j \in 1 .. n : i # j => p[i] # p[j],
           \A i, j \in 1 .. n : i < j => c[p[i]][2] <= c[p[j]][2],
           DOMAIN c = 1 .. n, l = [i \in 1 .. n |-> c[p[i]]]
    PROVE  O!Sort(h, S)
  <1>1. PICK V : V = [x \in Holders |-> Contents(x)]
    OBVIOUS
  <1>2. V[h] = c
    BY <1>1
  <1>3. DOMAIN p = 1 .. n /\ p \in [DOMAIN V[h] -> DOMAIN V[h]]
    BY <1>2
  <1>4. l = [i \in DOMAIN p |-> V[h][p[i]]]
    BY <1>2, <1>3
  <1>5. O!Becomes(h, S, [i \in DOMAIN p |-> V[h][p[i]]])
    <2>1. O!Becomes(h, S, l)
      BY BecomesIs
    <2> QED
      BY <1>4, <2>1
  <1>6. /\ \A i, j \in DOMAIN p : i # j => p[i] # p[j]
        /\ \A i, j \in DOMAIN p : i < j => V[h][p[i]][2] <= V[h][p[j]][2]
    BY <1>2, <1>3
  <1>7. Holed' = Holed \ S
    BY BecomesIs
  <1> QED
    BY <1>1, <1>3, <1>5, <1>6, <1>7 DEF O!Sort

(* handlebars_map_sort rebuilds a map with tombstones before it sorts it.  *)
LEMMA SortShows ==
    ASSUME MapInv, NEW h \in Holders, Sort(h)
    PROVE  \/ \E S \in SUBSET Holders : O!Sort(h, S)
           \/ O!Lose
           \/ \A x \in Holders : Kept(x)
  <1> DEFINE m == Map(h)
             force == IsSparse(m)
             r == Rehashed(m, force)
  <1>1. MayChange(h) /\ HasMap(h) /\ ~m.lost /\ (m.iter => ref[h] \in stuck)
    BY MarkedFor DEF Sort, MayChange
  <1>2. CASE IsSparse(r)
    <2>1. Spoil(h)
      BY <1>2 DEF Sort
    <2>2. Count
      BY <2>1 DEF Spoil
    <2> QED
      BY <1>1, <1>2, <2>1, <2>2, SpoilsMarked, SpoilShows
  <1>3. CASE ~IsSparse(r)
    <2>1. PICK p \in [1 .. r.n -> 1 .. r.n] :
              /\ \A i, j \in 1 .. r.n : i # j => p[i] # p[j]
              /\ \A i, j \in 1 .. r.n : i < j => r.vec[p[i]].value <= r.vec[p[j]].value
              /\ Change(h, force, LAMBDA x : Sorted(x, p))
      BY <1>3 DEF Sort
    <2> DEFINE d == Sorted(r, p)
    <2>2. Changed(h, force, d) /\ Count
      BY <2>1 DEF Change, Changed
    <2>3. Coherent(m) /\ m.n + 1 < MaxCapacity /\ m.n \in Nat
      BY <1>1, <2>2, MapOfHolder
    <2>4. Coherent(r) /\ r.n = m.n
      BY <2>3, RehashedOK
    <2>5. r.n = r.off
      BY <1>3 DEF IsSparse
    <2> HIDE DEF m, force, r
    <2>6. Permuted(r, d, p)
      BY <2>1, <2>4, <2>5, SortedFields DEF Coherent
    <2> HIDE DEF d
    <2>7. Live(r) = 1 .. r.off /\ Live(d) = 1 .. r.off
      BY <2>1, <2>4, <2>5, <2>6, NotSparse, PermutedCoherent
    <2>8. PICK n \in Nat : n = r.n
      BY <2>3, <2>4
    <2>9. PICK c, l : c = LiveEntries(r) /\ l = LiveEntries(d)
      OBVIOUS
    <2>10. IsSeq(c) /\ Len(c) = n /\ \A i \in 1 .. n : c[i] = KV(r, i)
      <3>1. r.off = n /\ \A i \in 1 .. n : r.vec[i] # Gone
        BY <2>5, <2>7, <2>8 DEF Live
      <3> QED
        BY <2>9, <3>1, SeesAll
    <2>11. IsSeq(l) /\ Len(l) = n /\ \A i \in 1 .. n : l[i] = KV(d, i)
      <3>1. d.off = n /\ \A i \in 1 .. n : d.vec[i] # Gone
        BY <2>5, <2>6, <2>7, <2>8 DEF Live, Permuted
      <3> QED
        BY <2>9, <3>1, SeesAll
    <2>12. p \in [1 .. n -> 1 .. n] /\ \A i, j \in 1 .. n : i # j => p[i] # p[j]
      BY <2>1, <2>8
    <2>13. \A i, j \in 1 .. n : i < j => c[p[i]][2] <= c[p[j]][2]
      BY <2>1, <2>8, <2>10, <2>12 DEF KV
    <2>14. ASSUME NEW i \in 1 .. n PROVE l[i] = c[p[i]]
      <3>1. p[i] \in 1 .. n
        BY <2>12
      <3>2. d.vec[i] = r.vec[p[i]]
        BY <2>5, <2>6, <2>8 DEF Permuted
      <3>3. l[i] = KV(d, i) /\ c[p[i]] = KV(r, p[i])
        BY <2>10, <2>11, <3>1
      <3> QED
        BY <3>2, <3>3 DEF KV
    <2>15. DOMAIN c = 1 .. n /\ l = [i \in 1 .. n |-> c[p[i]]]
      BY <2>10, <2>11, <2>14 DEF IsSeq
    <2>16. SameFlags(r, d)
      BY <2>6 DEF Permuted
    <2>17. IsSparse(d) = FALSE
      BY <2>5, <2>6 DEF Permuted, IsSparse
    <2>18. /\ Contents(h) = LiveEntries(r)
           /\ \E S \in SUBSET Holders : Becomes(h, S, LiveEntries(d), IsSparse(d))
      BY <1>1, <2>2, <2>16, ChangeShows DEF m, r
    <2>19. PICK S \in SUBSET Holders : Becomes(h, S, l, FALSE)
      BY <2>9, <2>17, <2>18
    <2>20. O!Sort(h, S)
      <3>1. c = Contents(h)
        BY <2>9, <2>18
      <3>2. \A i, j \in 1 .. n : i # j => p[i] # p[j]
        BY <2>12
      <3>3. p \in [1 .. n -> 1 .. n] /\ DOMAIN c = 1 .. n /\ l = [i \in 1 .. n |-> c[p[i]]]
        BY <2>12, <2>15
      <3> QED
        BY <2>13, <2>19, <3>1, <3>2, <3>3, BecomesSort
    <2> QED
      BY <2>20
  <1> QED
    BY <1>2, <1>3

(* handlebars_map_ctor                                                     *)
LEMMA NewShows ==
    ASSUME MapInv, NEW h \in Holders, NEW c \in Capacities, New(h, c)
    PROVE  O!New(h)
  <1>0. PICK b : b = Least(Free)
    OBVIOUS
  <1>1. PICK d : d = MapCtor(c, 1)
    OBVIOUS
  <1>2. d.off = 0 /\ d.n = 0 /\ d.rc = 1 /\ d.lost = FALSE
    BY <1>1 DEF MapCtor
  <1>3. Owned /\ MapsInv /\ LockInv /\ ref[h] # Dangling
    BY DEF MapInv, New
  <1>4. b \in Free /\ b \notin {None, Dangling}
    BY <1>0, <1>3, RoomForOne DEF None, Dangling
  <1>5. heap' = Place(Delref(heap, ref[h]), b, d) /\ ref' = [ref EXCEPT ![h] = b]
    BY <1>0, <1>1 DEF New
  <1>6. Handed(h, b) /\ heap'[b] = d /\ DOMAIN heap' = DOMAIN Delref(heap, ref[h]) \cup {b}
    BY <1>2, <1>3, <1>4, <1>5, MoveHands
  <1>7. b \notin stuck /\ stuck \subseteq DOMAIN heap /\ stuck' = stuck \cap DOMAIN heap'
    <2>1. b \notin stuck /\ stuck \subseteq DOMAIN heap
      BY <1>3, <1>4 DEF LockInv, Free
    <2>2. stuck' = stuck \cap DOMAIN Delref(heap, ref[h])
      BY DEF New
    <2> QED
      BY <1>6, <2>1, <2>2
  <1>8. \A x \in Holders \ {h} : Kept(x)
    BY <1>3, <1>6, <1>7, OthersShow
  <1>9. ref'[h] = b
    BY <1>3, <1>5 DEF Owned
  <1>10. Contents(h)' = << >> /\ h \notin Holed'
    <2>1. LiveEntries(d) = << >>
      BY <1>2, SeesNothing
    <2> QED
      BY <1>2, <1>4, <1>6, <1>9, <2>1, ContentsAre, HoledAre DEF Shows, Holes, IsSparse
  <1>11. h \notin Marked'
    BY <1>7, <1>9, MarkedAre
  <1> QED
    BY <1>8, <1>10, <1>11, GivenNew DEF Given

(* handlebars_value_value                                                  *)
LEMMA AssignShows ==
    ASSUME MapInv, NEW h \in Holders, NEW s \in Holders, Assign(h, s)
    PROVE  O!Assign(h, s)
  <1>0. PICK b : b = ref[s]
    OBVIOUS
  <1>1. Owned /\ MapsInv /\ LockInv
    BY DEF MapInv
  <1>2. /\ h # s /\ HasMap(s) /\ ref[h] # ref[s] /\ ref[h] # Dangling
        /\ heap' = [Delref(heap, ref[h]) EXCEPT ![ref[s]].rc = @ + 1]
        /\ ref' = [ref EXCEPT ![h] = ref[s]]
        /\ stuck' = stuck \cap DOMAIN heap'
    BY DEF Assign
  <1>3. Handed(h, b) /\ b \in DOMAIN heap
    BY <1>0, <1>1, <1>2, AssignHands
  <1>4. \A x \in Holders \ {h} : Kept(x)
    BY <1>1, <1>2, <1>3, OthersShow DEF LockInv
  <1>5. ref'[h] = b /\ ref'[s] = b
    BY <1>0, <1>1, <1>2 DEF Owned
  <1>6. /\ Contents(h)' = Contents(s)' /\ (h \in Holed' <=> s \in Holed')
        /\ h \in Marked' <=> s \in Marked'
    BY <1>5, ContentsAre, HoledAre, MarkedAre
  <1>7. /\ Contents(h)' = Contents(s) /\ (h \in Holed' <=> s \in Holed)
        /\ h \in Marked' <=> s \in Marked
    BY <1>2, <1>4, <1>6 DEF Kept
  <1> QED
    BY <1>4, <1>7, GivenAssign DEF Given

(* Flags do not show.                                                      *)
LEMMA FlagShows ==
    ASSUME Owned, MapsInv, NEW h \in Holders, HasMap(h), NEW a, a = ref[h], NEW d,
           heap' = [heap EXCEPT ![a] = d], UNCHANGED <<ref, stuck>>,
           Alike(heap[a], d), d.lost = heap[a].lost
    PROVE  \A x \in Holders : Kept(x)
  <1>1. a \in DOMAIN heap
    BY DEF Owned
  <1>2. heap'[a] = d /\ \A x \in DOMAIN heap : x # a => heap'[x] = heap[x]
    BY <1>1 DEF Owned
  <1>3. Shows(d) = Shows(heap[a]) /\ (Holes(d) <=> Holes(heap[a]))
    <2>1. MapOK(heap[a], changes)
      BY <1>1 DEF MapsInv
    <2> QED
      BY <2>1, AlikeShows
  <1>4. ASSUME NEW x \in Holders PROVE Kept(x)
    <2>1. HasMap(x) => /\ Shows(heap'[ref[x]]) = Shows(heap[ref[x]])
                       /\ Holes(heap'[ref[x]]) <=> Holes(heap[ref[x]])
      BY <1>2, <1>3 DEF Owned
    <2>2. Contents(x)' = Contents(x) /\ (x \in Holed' <=> x \in Holed)
      BY <2>1, ContentsAre, HoledAre DEF HasMap
    <2>3. x \in Marked' <=> x \in Marked
      BY MarkedAre DEF HasMap
    <2> QED
      BY <2>2, <2>3 DEF Kept
  <1> QED
    BY <1>4

(* handlebars_value_iterator_init: compaction breaks the map for all who   *)
(* hold it, and for nobody else.                                           *)
LEMMA IterInitShows ==
    ASSUME MapInv, NEW h \in Holders, IterInit(h)
    PROVE  O!Lose \/ \A x \in Holders : Kept(x)
  <1>0. PICK a : a = ref[h]
    OBVIOUS
  <1>1. Owned /\ MapsInv /\ HasMap(h) /\ UNCHANGED <<ref, stuck>>
    BY DEF MapInv, IterInit
  <1>2. a \in DOMAIN heap /\ Map(h) = heap[a]
    BY <1>0, <1>1 DEF Owned, Map
  <1>3. PICK m : m = heap[a]
    OBVIOUS
  <1>4. DOMAIN m = MapFields
    BY <1>1, <1>2, <1>3 DEF MapsInv, MapOK
  <1>5. CASE UNCHANGED heap
    BY <1>1, <1>5, SameShows
  <1>6. CASE ~UNCHANGED heap
    <2>1. PICK d : d = [Compacted(m) EXCEPT !.iter = TRUE]
      OBVIOUS
    <2>2. heap' = [heap EXCEPT ![a] = d]
      BY <1>0, <1>2, <1>3, <1>6, <2>1 DEF IterInit
    <2>3. CASE ~IsSparse(m)
      <3>1. Compacted(m) = m
        BY <2>3 DEF Compacted
      <3>2. Alike(m, d) /\ d.lost = m.lost
        BY <1>4, <2>1, <3>1 DEF Alike, MapFields
      <3> QED
        BY <1>0, <1>1, <1>3, <2>2, <3>2, FlagShows
    <2>4. CASE IsSparse(m)
      <3>1. d.lost = TRUE
        BY <1>4, <2>1, <2>4 DEF Compacted, MapFields
      <3>2. Users(a) \subseteq Holed
        <4>1. Holes(heap[a]) /\ a \notin {None, Dangling}
          BY <1>0, <1>1, <1>3, <2>4 DEF Holes, HasMap
        <4> QED
          BY <4>1, HoledAre DEF Users, HasMap
      <3>3. O!Lose
        BY <1>0, <1>1, <2>2, <3>1, <3>2, LosesShows
      <3> QED
        BY <3>3
    <2> QED
      BY <2>3, <2>4
  <1> QED
    BY <1>5, <1>6

(* Loops that begin, go on and end change nothing but a flag.              *)
LEMMA LoopShows ==
    ASSUME MapInv, NEW h \in Holders, ForeachBegin(h) \/ IterNext(h) \/ ForeachNext(h)
    PROVE  \A x \in Holders : Kept(x)
  <1>1. Owned /\ MapsInv /\ UNCHANGED <<ref, stuck>>
    BY DEF MapInv, ForeachBegin, IterNext, ForeachNext
  <1>2. HasMap(h)
    <2>1. CASE ForeachBegin(h)
      BY <2>1 DEF ForeachBegin
    <2>2. CASE IterNext(h) \/ ForeachNext(h)
      <3>1. loops # << >> /\ Inner.holder = h
        BY <2>2 DEF IterNext, ForeachNext, InnerIs
      <3> QED
        BY <3>1, InnerFrame
    <2> QED
      BY <2>1, <2>2
  <1>3. CASE UNCHANGED heap
    BY <1>1, <1>3, SameShows
  <1>4. CASE ~UNCHANGED heap
    <2>1. \E b : heap' = [heap EXCEPT ![ref[h]] = [heap[ref[h]] EXCEPT !.iter = b]]
      <3>1. CASE ForeachBegin(h)
        BY <3>1 DEF ForeachBegin, SetIsInIteration
      <3>2. CASE IterNext(h) \/ ForeachNext(h)
        <4>1. Inner.holder = h
          BY <3>2 DEF IterNext, ForeachNext, InnerIs
        <4> QED
          BY <1>4, <3>2, <4>1 DEF IterNext, ForeachNext, Leave, SetIsInIteration
      <3> QED
        BY <3>1, <3>2
    <2>2. PICK b : heap' = [heap EXCEPT ![ref[h]] = [heap[ref[h]] EXCEPT !.iter = b]]
      BY <2>1
    <2>3. PICK a, m, d : a = ref[h] /\ m = heap[a] /\ d = [m EXCEPT !.iter = b]
      OBVIOUS
    <2>4. a \in DOMAIN heap /\ DOMAIN m = MapFields
      BY <1>1, <1>2, <2>3 DEF Owned, MapsInv, MapOK
    <2>5. Alike(m, d) /\ d.lost = m.lost
      BY <2>3, <2>4 DEF Alike, MapFields
    <2>6. heap' = [heap EXCEPT ![a] = d]
      BY <2>2, <2>3
    <2> QED
      BY <1>1, <1>2, <2>3, <2>5, <2>6, FlagShows
  <1> QED
    BY <1>3, <1>4

(* A throw marks the maps that are being iterated over.                    *)
LEMMA AbandonShows ==
    ASSUME MapInv, UNCHANGED <<heap, ref>>, Thrown
    PROVE  O!Mark(Marked')
  <1>1. stuck \subseteq stuck'
    BY DEF MapInv, LockInv, Thrown
  <1>2. \A x \in Holders : /\ Contents(x)' = Contents(x) /\ (x \in Holed' <=> x \in Holed)
                           /\ x \in Marked => x \in Marked'
    BY <1>1, ContentsAre, HoledAre, MarkedAre DEF HasMap
  <1>3. Holed' = Holed /\ Marked' = Marked \cup Marked'
    BY <1>2, HolderSets
  <1> QED
    BY <1>2, <1>3 DEF O!Mark

(* handlebars_map_add of a key that is there costs the holder its map, or  *)
(* changes nothing.                                                        *)
LEMMA AddAgainShows ==
    ASSUME MapInv, NEW h \in Holders, NEW k \in Keys, AddAgain(h, k)
    PROVE  O!Mark(Marked') \/ O!Misuse(h, k, Marked')
  <1>0. PICK a, m : a = ref[h] /\ m = Map(h)
    OBVIOUS
  <1>1. /\ Owned /\ MapsInv /\ LockInv /\ Thrown /\ Count /\ MayChange(h)
        /\ HasMap(h) /\ ~m.lost /\ Find(m, k) # Absent
    BY <1>0 DEF MapInv, AddAgain, MayChange
  <1>2. CASE ~Rehashes(m, FALSE)
    <2>1. UNCHANGED <<heap, ref>>
      BY <1>0, <1>2 DEF AddAgain
    <2> QED
      BY <1>1, <2>1, AbandonShows
  <1>3. CASE Rehashes(m, FALSE)
    <2>1. heap' = Delref(heap, ref[h]) /\ ref' = [ref EXCEPT ![h] = Dangling]
      BY <1>0, <1>3 DEF AddAgain
    <2>2. Handed(h, Dangling) /\ DOMAIN heap' \subseteq DOMAIN heap
      BY <1>1, <2>1, LetGoHands
    <2>3. Coherent(m) /\ m = heap[a] /\ a \in DOMAIN heap
      BY <1>0, <1>1, MapOfHolder DEF Map
    <2>4. Has(m, k)
      BY <1>1, <2>3, FindIs
    <2>5. k \in O!KeysOf(Contents(h))
      <3>1. Contents(h) = LiveEntries(m)
        BY <1>0, <1>1, <2>3, ContentsAre DEF Shows
      <3> QED
        BY <2>3, <2>4, <3>1, ThereIsSeen
    <2>6. ref'[h] = Dangling /\ \A x \in Holders \ {h} : ref'[x] = ref[x]
      BY <1>1, <2>1 DEF Owned
    <2>7. h \notin Marked /\ h \notin Marked'
      <3>1. a \notin stuck
        BY <1>0, <1>1, <1>3, MarkedFor DEF Rehashes
      <3> QED
        BY <1>0, <2>6, <3>1, MarkedAre
    <2>8. Contents(h)' = LostMap /\ h \in Holed'
      BY <2>6, ContentsAre, HoledAre DEF None, Dangling
    <2>9. ASSUME NEW x \in Holders \ {h}
          PROVE  /\ Contents(x)' = Contents(x) /\ (x \in Holed' <=> x \in Holed)
                 /\ x \in Marked => x \in Marked'
      <3>1. CASE ~HasMap(x)
        BY <2>6, <3>1, ContentsAre, HoledAre, MarkedAre DEF HasMap
      <3>2. CASE HasMap(x)
        <4>1. PICK b : b = ref[x]
          OBVIOUS
        <4>2. b \in DOMAIN heap /\ b \in DOMAIN heap'
          BY <1>1, <2>2, <3>2, <4>1 DEF Owned, Handed
        <4>3. Recounted(heap[b], heap'[b]) /\ MapOK(heap[b], changes)
          BY <1>1, <2>2, <4>2 DEF Handed, MapsInv
        <4>4. Shows(heap'[b]) = Shows(heap[b]) /\ (Holes(heap'[b]) <=> Holes(heap[b]))
          BY <4>3, AlikeShows DEF Recounted
        <4>5. Contents(x)' = Contents(x) /\ (x \in Holed' <=> x \in Holed)
          BY <2>6, <3>2, <4>1, <4>4, ContentsAre, HoledAre DEF HasMap
        <4>6. b \in stuck => b \in stuck'
          BY <1>1, <4>2 DEF Thrown
        <4>7. x \in Marked => x \in Marked'
          BY <2>6, <3>2, <4>1, <4>6, MarkedAre DEF HasMap
        <4> QED
          BY <4>5, <4>7
      <3> QED
        BY <3>1, <3>2
    <2>10. Holed' = Holed \cup {h} /\ Marked' = Marked \cup Marked'
      BY <2>7, <2>8, <2>9, HolderSets
    <2>11. [x \in Holders |-> Contents(x)]' =
              [[x \in Holders |-> Contents(x)] EXCEPT ![h] = LostMap]
      BY <2>8, <2>9
    <2>12. [x \in Holders |-> Contents(x)][h] = Contents(h)
      OBVIOUS
    <2>13. O!Misuse(h, k, Marked')
      BY <2>5, <2>7, <2>10, <2>11, <2>12 DEF O!Misuse
    <2> QED
      BY <2>13
  <1> QED
    BY <1>2, <1>3

(* A step of the hash tables is one of the maps they stand for.            *)
LEMMA StepShows ==
    ASSUME MapInv, [Next]_vars
    PROVE  O!Next \/ \A x \in Holders : Kept(x)
  <1>0. /\ O!Lose => O!Next
        /\ O!Mark(Marked') => O!Next
        /\ \A h \in Holders, k \in Keys : O!Misuse(h, k, Marked') => O!Next
    BY HolderSets DEF O!Next
  <1>1. CASE UNCHANGED vars
    BY <1>1, SameShows DEF vars
  <1>2. CASE Abandon
    BY <1>0, <1>2, AbandonShows DEF Abandon
  <1>3. ASSUME NEW h \in Holders, IterInit(h)
        PROVE  O!Next \/ \A x \in Holders : Kept(x)
    BY <1>0, <1>3, IterInitShows
  <1>4. ASSUME NEW h \in Holders, IterNext(h) \/ ForeachNext(h) \/ ForeachBegin(h)
        PROVE  \A x \in Holders : Kept(x)
    BY <1>4, LoopShows
  <1>5. ASSUME NEW h \in Holders, Sort(h)
        PROVE  O!Next \/ \A x \in Holders : Kept(x)
    <2>1. (\E S \in SUBSET Holders : O!Sort(h, S)) => O!Next
      BY DEF O!Next
    <2> QED
      BY <1>0, <1>5, <2>1, SortShows
  <1>6. ASSUME NEW h \in Holders, NEW c \in Capacities, New(h, c) PROVE O!Next
    <2>1. O!New(h)
      BY <1>6, NewShows
    <2> QED
      BY <2>1 DEF O!Next
  <1>7. ASSUME NEW h \in Holders, NEW s \in Holders, Assign(h, s) PROVE O!Next
    <2>1. O!Assign(h, s)
      BY <1>7, AssignShows
    <2> QED
      BY <2>1 DEF O!Next
  <1>8. ASSUME NEW h \in Holders, NEW k \in Keys, Remove(h, k)
        PROVE  O!Next
    <2>1. (\E S \in SUBSET Holders : O!TakeOut(h, S, k) \/ O!Settle(h, S)) => O!Next
      BY DEF O!Next
    <2> QED
      BY <1>8, <2>1, RemoveShows
  <1>9. ASSUME NEW h \in Holders, NEW k \in Keys, AddAgain(h, k) PROVE O!Next
    BY <1>0, <1>9, AddAgainShows
  <1>10. ASSUME NEW h \in Holders, NEW k \in Keys, NEW v \in Values, Add(h, k, v)
         PROVE  O!Next \/ \A x \in Holders : Kept(x)
    <2>1. (\E S \in SUBSET Holders : O!Add(h, S, k, v)) => O!Next
      BY DEF O!Next
    <2> QED
      BY <1>0, <1>10, <2>1, AddShows
  <1>11. ASSUME NEW h \in Holders, NEW k \in Keys, NEW v \in Values, Update(h, k, v)
         PROVE  O!Next \/ \A x \in Holders : Kept(x)
    <2>1. (\E S \in SUBSET Holders : O!Add(h, S, k, v) \/ O!Replace(h, S, k, v)) => O!Next
      BY DEF O!Next
    <2> QED
      BY <1>0, <1>11, <2>1, UpdateShows
  <1> QED
    BY <1>1, <1>2, <1>3, <1>4, <1>5, <1>6, <1>7, <1>8, <1>9, <1>10, <1>11 DEF Next

(* The shared hash tables, with their tombstones, rehashes and copies on   *)
(* write, implement one ordered map for each holder: what a program does   *)
(* to its map no other holder sees, removal and replacement keep the order *)
(* of the entries, and a rehash does not show.  Only the compaction of a   *)
(* map with tombstones breaks that, for those who hold that map, and what  *)
(* is done to maps that an error has left marked, for those who share one; *)
(* a key added twice costs its holder the map.                             *)
THEOREM MapsAsPromised == Spec => MapSemantics
  <1> DEFINE seen == <<[h \in Holders |-> Contents(h)], Holed, Marked>>
  <1>1. Init => O!Init
    <2> SUFFICES ASSUME Init PROVE O!Init
      OBVIOUS
    <2>1. \A x \in Holders : ref[x] = None
      BY DEF Init
    <2>2. \A x \in Holders : Contents(x) = << >>
      BY <2>1 DEF Contents
    <2>3. Holed = {} /\ Marked = {}
      BY <2>1 DEF Holed, Marked, HasMap
    <2> QED
      BY <2>2, <2>3 DEF O!Init
  <1>2. MapInv /\ [Next]_vars => [O!Next]_seen
    <2> SUFFICES ASSUME MapInv, [Next]_vars
                 PROVE  [O!Next]_seen
      OBVIOUS
    <2>1. O!Next \/ \A x \in Holders : Kept(x)
      BY StepShows
    <2>2. (\A x \in Holders : Kept(x)) => UNCHANGED seen
      <3> SUFFICES ASSUME \A x \in Holders : Kept(x)
                   PROVE  UNCHANGED seen
        OBVIOUS
      <3>1. [h \in Holders |-> Contents(h)]' = [h \in Holders |-> Contents(h)]
        BY DEF Kept
      <3>2. Holed' = Holed /\ Marked' = Marked
        BY HolderSets DEF Kept
      <3> QED
        BY <3>1, <3>2
    <2> QED
      BY <2>1, <2>2
  <1>3. Spec => O!Init
    BY <1>1, PTL DEF Spec
  <1>4. Spec => [][O!Next]_seen
    BY <1>2, MapsCoherent, PTL DEF Spec
  <1>5. Spec => O!Spec
    BY <1>3, <1>4, PTL DEF O!Spec
  <1> QED
    BY <1>5 DEF MapSemantics
=============================================================================
