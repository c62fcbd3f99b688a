------------------------------- MODULE HbsMap -------------------------------
(***************************************************************************)
(* The hash map (handlebars_map.c) and the two ways of iterating over it.  *)
(*                                                                         *)
(* Entries lie in a vector in the order in which they were added; a table  *)
(* with open addressing points into the vector.  A removed entry leaves a  *)
(* tombstone in both.  Changing a map first rehashes it, into a copy, when *)
(* the vector is full, the table is crowded or the map is shared.  While a *)
(* map is iterated over it is not rehashed; one whose iteration an error   *)
(* has cut short stays marked, and is changed in place from then on.       *)
(***************************************************************************)
EXTENDS Integers, Sequences, FiniteSets

CONSTANTS
    Holders,        \* the variables (struct handlebars_value) that hold maps
    Keys, NullKey,
    Values,         \* with the order that the comparison function gives them
    Hash,           \* hbs_str_hash
    Capacities,     \* the capacities handlebars_map_ctor is called with
    MaxNest,        \* bound of the model: no deeper nesting of loops
    MaxChanges      \* bound of the model: no more calls that change a map

ASSUME HbsMapAssumption ==
    /\ IsFiniteSet(Holders)
    /\ NullKey \notin Keys
    /\ Values \subseteq Nat
    /\ Hash \in [Keys -> Nat]
    /\ MaxNest \in Nat
    /\ Capacities \subseteq Nat /\ Capacities # {}

(* Maps stay within the sizes that the code can choose: beyond the largest *)
(* table ht_choose_table_capacity calls abort().                           *)
MaxCapacity == 536870912    \* 1 << 29

ASSUME SizeAssumption ==
    /\ \A c \in Capacities : c <= MaxCapacity
    /\ MaxChanges \in Nat /\ MaxChanges + 1 < MaxCapacity

VARIABLES
    heap,       \* the allocated maps, by address
    ref,        \* the map each holder points at, None or Dangling
    loops,      \* the iterations that are running, each in the body of the one before
    stuck,      \* history: maps whose iteration an error has cut short
    aborted,    \* abort() has been called
    changes     \* how many calls have changed a map, for MaxChanges

vars == <<heap, ref, loops, stuck, aborted, changes>>

----------------------------------------------------------------------------
(* Capacities                                                              *)

CapacityTable ==
    {5, 11, 23, 53, 97, 193, 389, 769, 1543, 3079, 6151, 12289, 24593,
     49157, 98317, 196613, 393241, 786433, 1572869, 3145739, 6291469,
     12582917, 25165843, 50331653, 100663319, 201326611, 402653189,
     805306457, 1610612741}

(* The least element of a set of numbers.                                  *)
Least(S) == CHOOSE x \in S : \A y \in S : x <= y

(* Mutant: a table that is no larger than the vector.                      *)
ChooseTableCapacityFull(n) == IF n = 0 THEN 5 ELSE n

(* ht_choose_table_capacity: at most 60 % of the table are used.           *)
ChooseTableCapacity(n) ==
    Least({c \in CapacityTable : c >= (n * 100) \div 60})

(* 1 << map_choose_vec_capacity_log2(n), which looks at the bits of n | 3: *)
(* the power of two above n, at least 4.                                   *)
VecCapacities ==
    {4, 8, 16, 32, 64, 128, 256, 512, 1024, 2048, 4096, 8192, 16384, 32768,
     65536, 131072, 262144, 524288, 1048576, 2097152, 4194304, 8388608,
     16777216, 33554432, 67108864, 134217728, 268435456, 536870912}

ChooseVecCapacity(n) == Least({c \in VecCapacities : c > n})

----------------------------------------------------------------------------
(* A map: vec is the memory of the vector, of which the first off entries  *)
(* are used; table[s] is an index of vec, Empty (NULL) or Tomb; n counts   *)
(* the live entries.  lost is a history variable: compaction, or a change  *)
(* in place that the memory was not fit for, has broken the map.           *)

Empty == 0
Tomb  == -1

Entry(k, v, s) == [key |-> k, value |-> v, slot |-> s]

(* HANDLEBARS_MAP_TOMBSTONE_V, in the vector: all bytes are zero.          *)
Gone == Entry(NullKey, 0, 0)

(* handlebars_map_ctor                                                     *)
MapCtor(c, r) ==
    [vec |-> << >>, off |-> 0, capacity |-> c, n |-> 0, rc |-> r, iter |-> FALSE,
     lost |-> FALSE, table |-> [s \in 0 .. ChooseTableCapacity(c) - 1 |-> Empty]]

TableCapacity(m) == Cardinality(DOMAIN m.table)
LoadFactor(m)    == (m.n * 100) \div TableCapacity(m)
IsSparse(m)      == m.off # m.n

(* The entries that handlebars_map_foreach visits, in its order.           *)
LiveEntries(m) ==
    LET listed[i \in 0 .. m.off] ==
            IF i = 0 THEN << >>
            ELSE IF m.vec[i] = Gone THEN listed[i - 1]
            ELSE Append(listed[i - 1], <<m.vec[i].key, m.vec[i].value>>)
    IN  listed[m.off]

(* map_find_entry: the slots are probed from the hash on, until an empty   *)
(* one or the key is met.  Tombstones are passed.                          *)
Probe(m, k, j) == (Hash[k] + j) % TableCapacity(m)

Matches(m, k, s) == m.table[s] > 0 /\ m.vec[m.table[s]].key = k

(* Mutant: a search that ends at a tombstone.                              *)
FindEntryTombEnds(m, k) ==
    LET stops == {j \in DOMAIN m.table :
                    m.table[Probe(m, k, j)] \in {Empty, Tomb} \/ Matches(m, k, Probe(m, k, j))}
        s     == Probe(m, k, Least(stops))
    IN  IF stops = {} THEN [entry |-> -1, empty |-> -1]
        ELSE IF Matches(m, k, s) THEN [entry |-> s, empty |-> -1]
        ELSE [entry |-> -1, empty |-> s]

FindEntry(m, k) ==
    LET stops == {j \in DOMAIN m.table :
                    m.table[Probe(m, k, j)] = Empty \/ Matches(m, k, Probe(m, k, j))}
        s     == Probe(m, k, Least(stops))
    IN  IF stops = {} THEN [entry |-> -1, empty |-> -1]
        ELSE IF Matches(m, k, s) THEN [entry |-> s, empty |-> -1]
        ELSE [entry |-> -1, empty |-> s]

Absent == -1

(* handlebars_map_find: the value, or Absent for NULL.                     *)
Find(m, k) ==
    LET o == FindEntry(m, k)
    IN  IF o.entry >= 0 THEN m.vec[m.table[o.entry]].value ELSE Absent

(* map_add_at_table_offset                                                 *)
AddAtTableOffset(m, k, v, s) ==
    [m EXCEPT !.vec = Append(SubSeq(@, 1, m.off), Entry(k, v, s)) \o SubSeq(@, m.off + 2, Len(@)),
              !.table[s] = m.off + 1,
              !.n = @ + 1,
              !.off = @ + 1]

(* handlebars_map_add without its rehash.                                  *)
Insert(m, k, v) == AddAtTableOffset(m, k, v, FindEntry(m, k).empty)

(* handlebars_map_copy_ctor: the live entries are added in their order to  *)
(* a new map, which is large enough for none of the adds to rehash.        *)
CopyCtor(m, c, r) ==
    LET copied[i \in 0 .. m.off] ==
            IF i = 0 THEN MapCtor(IF c < m.capacity THEN m.capacity ELSE c, r)
            ELSE IF m.vec[i] = Gone THEN copied[i - 1]
            ELSE Insert(copied[i - 1], m.vec[i].key, m.vec[i].value)
    IN  copied[m.off]

(* handlebars_map_rehash: whether a copy replaces the map, and the copy,   *)
(* to which the caller's reference passes.                                 *)

(* Mutants: a rehash that does not look at the vector, and one that does   *)
(* not look at the reference count.                                        *)
RehashesCrowded(m, force) ==
    /\ ~m.iter
    /\ force \/ m.rc > 1 \/ LoadFactor(m) > 60
RehashesUnshared(m, force) ==
    /\ ~m.iter
    /\ force \/ m.off = m.capacity \/ LoadFactor(m) > 60

Rehashes(m, force) ==
    /\ ~m.iter
    /\ force \/ m.rc > 1 \/ m.off = m.capacity \/ LoadFactor(m) > 60

Rehashed(m, force) ==
    IF Rehashes(m, force) THEN CopyCtor(m, ChooseVecCapacity(m.n + 1), 1) ELSE m

(* handlebars_map_remove after its rehash.                                 *)
RemoveEntry(m, k) ==
    LET s == FindEntry(m, k).entry
    IN  IF s < 0 THEN m
        ELSE [m EXCEPT !.vec[m.table[s]] = Gone, !.table[s] = Tomb, !.n = @ - 1]

(* handlebars_map_update after its rehash.                                 *)
UpdateEntry(m, k, v) ==
    LET o == FindEntry(m, k)
    IN  IF o.entry >= 0 THEN [m EXCEPT !.vec[m.table[o.entry]].value = v]
        ELSE AddAtTableOffset(m, k, v, o.empty)

(* sort_r with the caller's comparison, then map_rebuild_references: the   *)
(* entries keep their slots, the slots learn where the entries are now.    *)

(* Mutant: the table is left as it was.                                    *)
SortedStale(m, p) ==
    [m EXCEPT !.vec = [i \in 1 .. m.n |-> m.vec[p[i]]] \o SubSeq(@, m.n + 1, Len(@))]

Sorted(m, p) ==
    LET vec == [i \in 1 .. m.n |-> m.vec[p[i]]] \o SubSeq(m.vec, m.n + 1, Len(m.vec))
    IN  [m EXCEPT !.vec = vec,
                  !.table = [s \in DOMAIN @ |->
                      IF \E i \in 1 .. m.off : vec[i].slot = s
                      THEN CHOOSE i \in 1 .. m.off : vec[i].slot = s ELSE @[s]]]

(* handlebars_map_sparse_array_compact: entries behind the first tombstone *)
(* are moved up, from the second place of the vector on, wherever that     *)
(* tombstone is.  Entries are overwritten or left behind, and the table    *)
(* keeps pointing at their places.                                         *)
Compacted(m) ==
    LET first   == Least({i \in 1 .. m.off : m.vec[i] = Gone})
        later   == SelectSeq(SubSeq(m.vec, first + 1, m.off), LAMBDA e : e # Gone)
        Moved(i) == i > 1 /\ i <= 1 + Len(later)
        vec     == [i \in DOMAIN m.vec |-> IF Moved(i) THEN later[i - 1] ELSE m.vec[i]]
    IN  IF ~IsSparse(m) THEN m
        ELSE [m EXCEPT !.vec = vec, !.off = 1 + Len(later), !.lost = TRUE,
                       !.table = [s \in DOMAIN @ |->
                           IF \E i \in DOMAIN vec : Moved(i) /\ vec[i].slot = s
                           THEN CHOOSE i \in DOMAIN vec : Moved(i) /\ vec[i].slot = s
                           ELSE @[s]]]

----------------------------------------------------------------------------
(* Holders and references                                                  *)

None     == 0                      \* no map
Dangling == -1                     \* a map that it has no reference of, freed or not
Map(h)   == heap[ref[h]]
Free     == (1 .. Cardinality(Holders) + 1) \ DOMAIN heap
HasMap(h) == ref[h] \notin {None, Dangling}

Place(hp, a, m) == [b \in DOMAIN hp \cup {a} |-> IF b = a THEN m ELSE hp[b]]

(* handlebars_map_delref                                                   *)
Delref(hp, a) ==
    IF a = None THEN hp
    ELSE IF hp[a].rc <= 1 THEN [b \in DOMAIN hp \ {a} |-> hp[b]]
    ELSE [hp EXCEPT ![a].rc = @ - 1]

Count == changes < MaxChanges /\ changes' = changes + 1

(* h's map becomes what Op makes of it after a rehash.                     *)
Change(h, force, Op(_)) ==
    LET m == Rehashed(Map(h), force)
        a == Least(Free)
    IN  /\ IF Rehashes(Map(h), force)
           THEN /\ heap' = Place(Delref(heap, ref[h]), a, Op(m))
                /\ ref' = [ref EXCEPT ![h] = a]
           ELSE /\ heap' = [heap EXCEPT ![ref[h]] = Op(m)]
                /\ UNCHANGED ref
        /\ Count
        /\ UNCHANGED <<loops, stuck, aborted>>

(* A change of h's map in place that its memory is not fit for: assertions *)
(* end the process, and a build without them breaks the map.               *)
Spoil(h) ==
    /\ \/ aborted' = TRUE /\ UNCHANGED heap
       \/ heap' = [heap EXCEPT ![ref[h]].lost = TRUE] /\ UNCHANGED aborted
    /\ Count
    /\ UNCHANGED <<ref, loops, stuck>>

(* An entry would be written behind the vector.                            *)
Overruns(m) == ~Rehashes(m, FALSE) /\ m.off >= m.capacity

(* The frames of the loops that are running, the innermost one last.       *)
InLoop(h)  == \E i \in DOMAIN loops : loops[i].holder = h
Inner      == loops[Len(loops)]
InnerIs(h, f) == ~aborted /\ loops # << >> /\ Inner.holder = h /\ Inner.foreach = f

Frame(h, f, i, o, s) == [holder |-> h, foreach |-> f, index |-> i, old |-> o, seen |-> s]

(* The programs of this repository change a map during an iteration only   *)
(* to remove from it, in a foreach of their own over a map that they do    *)
(* not share.  A map that an error has left marked may be changed again.   *)
(* What becomes of a broken map that is used any further is not followed.  *)
Iterated(a)  == \E i \in DOMAIN loops : ref[loops[i].holder] = a
MayChange(h) == ~aborted /\ HasMap(h) /\ ~Iterated(ref[h]) /\ ~Map(h).lost
MayRemove(h) ==
    \/ MayChange(h)
    \/ /\ InnerIs(h, TRUE) /\ Map(h).rc = 1
       /\ \A i \in 1 .. Len(loops) - 1 : loops[i].holder # h

Init ==
    /\ heap = << >>
    /\ ref = [h \in Holders |-> None]
    /\ loops = << >>
    /\ stuck = {}
    /\ aborted = FALSE
    /\ changes = 0

(* handlebars_value_map(value, handlebars_map_ctor(ctx, c))                *)
New(h, c) ==
    /\ ~aborted /\ ~InLoop(h) /\ ref[h] # Dangling
    /\ LET a == Least(Free)
       IN  /\ heap' = Place(Delref(heap, ref[h]), a, MapCtor(c, 1))
           /\ ref' = [ref EXCEPT ![h] = a]
    /\ stuck' = stuck \cap DOMAIN Delref(heap, ref[h])
    /\ Count
    /\ UNCHANGED <<loops, aborted>>

(* handlebars_value_value(d, s)                                            *)
Assign(d, s) ==
    /\ ~aborted /\ d # s /\ ~InLoop(d) /\ HasMap(s) /\ ref[d] \notin {ref[s], Dangling}
    /\ heap' = [Delref(heap, ref[d]) EXCEPT ![ref[s]].rc = @ + 1]
    /\ ref' = [ref EXCEPT ![d] = ref[s]]
    /\ stuck' = stuck \cap DOMAIN heap'
    /\ Count
    /\ UNCHANGED <<loops, aborted>>

(* handlebars_map_add, of a key that is not there                          *)
Add(h, k, v) ==
    /\ MayChange(h) /\ Find(Map(h), k) = Absent
    /\ IF Overruns(Map(h)) THEN Spoil(h)
       ELSE Change(h, FALSE, LAMBDA m : Insert(m, k, v))

(* All loops are left at once, and nobody resets the flags.                *)
Thrown ==
    /\ loops' = << >>
    /\ stuck' = (stuck \cup {ref[loops[i].holder] : i \in DOMAIN loops}) \cap DOMAIN heap'

(* handlebars_map_add, of a key that is there: it throws, after a rehash   *)
(* that has put a copy, which nobody learns of, in the place of the map,   *)
(* and has taken the holder's reference from that.                         *)
AddAgain(h, k) ==
    /\ MayChange(h) /\ Find(Map(h), k) # Absent
    /\ IF Rehashes(Map(h), FALSE)
       THEN /\ heap' = Delref(heap, ref[h])
            /\ ref' = [ref EXCEPT ![h] = Dangling]
       ELSE UNCHANGED <<heap, ref>>
    /\ Thrown
    /\ Count
    /\ UNCHANGED aborted

(* handlebars_map_update                                                   *)
Update(h, k, v) ==
    /\ MayChange(h)
    /\ IF Find(Map(h), k) = Absent /\ Overruns(Map(h)) THEN Spoil(h)
       ELSE Change(h, FALSE, LAMBDA m : UpdateEntry(m, k, v))

(* handlebars_map_remove: a nearly empty table is rebuilt first.           *)
Remove(h, k) ==
    /\ MayRemove(h)
    /\ Change(h, LoadFactor(Map(h)) < 10, LAMBDA m : RemoveEntry(m, k))

(* handlebars_map_sort, handlebars_map_sort_r: sorting needs a map without *)
(* tombstones, which a rehash gives it.                                    *)
Sort(h) ==
    /\ MayChange(h)
    /\ LET m == Rehashed(Map(h), IsSparse(Map(h)))
       IN  IF IsSparse(m) THEN Spoil(h)
           ELSE \E p \in [1 .. m.n -> 1 .. m.n] :
             /\ \A i, j \in 1 .. m.n : i # j => p[i] # p[j]
             /\ \A i, j \in 1 .. m.n : i < j => m.vec[p[i]].value <= m.vec[p[j]].value
             /\ Change(h, IsSparse(Map(h)), LAMBDA x : Sorted(x, p))

----------------------------------------------------------------------------
(* Iteration.  seen has the keys visited so far.                           *)

SetIsInIteration(h, b) == heap' = [heap EXCEPT ![ref[h]].iter = b]

(* The innermost loop goes on to a place of the vector, or ends.           *)
Visit(i) ==
    LET e == Map(Inner.holder).vec[i]
    IN  loops' = [loops EXCEPT ![Len(loops)].index = i,
                               ![Len(loops)].seen = IF e = Gone THEN @ ELSE @ \cup {e.key}]
Leave(b) ==
    /\ loops' = SubSeq(loops, 1, Len(loops) - 1)
    /\ SetIsInIteration(Inner.holder, b)

(* handlebars_value_iterator_init on a map.  An empty map has no loop; a   *)
(* map that is being iterated over already ends the process.  Tombstones   *)
(* are squeezed out first.                                                 *)
IterInit(h) ==
    /\ ~aborted /\ HasMap(h) /\ Len(loops) < MaxNest /\ Map(h).n > 0 /\ ~Map(h).lost
    /\ IF Map(h).iter
       THEN aborted' = TRUE /\ UNCHANGED <<heap, loops>>
       ELSE LET m == Compacted(Map(h))
            IN  /\ heap' = [heap EXCEPT ![ref[h]] = [m EXCEPT !.iter = TRUE]]
                /\ loops' = Append(loops, Frame(h, FALSE, 1, FALSE, {m.vec[1].key}))
                /\ UNCHANGED aborted
    /\ UNCHANGED <<ref, stuck, changes>>

(* handlebars_value_iterator_next_map                                      *)

(* Mutants: the last entry is taken for the end; the map stays locked.     *)
IterNextShort(h) ==
    /\ InnerIs(h, FALSE)
    /\ IF Inner.index >= Map(h).n - 1 THEN Leave(FALSE)
       ELSE Visit(Inner.index + 1) /\ UNCHANGED heap
    /\ UNCHANGED <<ref, stuck, aborted, changes>>
IterNextLocked(h) ==
    /\ InnerIs(h, FALSE)
    /\ IF Inner.index >= Map(h).n THEN Leave(TRUE)
       ELSE Visit(Inner.index + 1) /\ UNCHANGED heap
    /\ UNCHANGED <<ref, stuck, aborted, changes>>

IterNext(h) ==
    /\ InnerIs(h, FALSE)
    /\ IF Inner.index >= Map(h).n THEN Leave(FALSE)
       ELSE Visit(Inner.index + 1) /\ UNCHANGED heap
    /\ UNCHANGED <<ref, stuck, aborted, changes>>

(* handlebars_map_foreach: the flag is saved, and restored at the end.     *)
ForeachBegin(h) ==
    /\ ~aborted /\ HasMap(h) /\ Len(loops) < MaxNest /\ ~Map(h).lost
    /\ SetIsInIteration(h, TRUE)
    /\ loops' = Append(loops, Frame(h, TRUE, 0, Map(h).iter, {}))
    /\ UNCHANGED <<ref, stuck, aborted, changes>>

ForeachNext(h) ==
    /\ InnerIs(h, TRUE)
    /\ IF Inner.index >= Map(h).off THEN Leave(Inner.old)
       ELSE Visit(Inner.index + 1) /\ UNCHANGED heap
    /\ UNCHANGED <<ref, stuck, aborted, changes>>

(* handlebars_throw in the body of a loop                                  *)
Abandon ==
    /\ ~aborted /\ loops # << >>
    /\ UNCHANGED heap
    /\ Thrown
    /\ UNCHANGED <<ref, aborted, changes>>

Next ==
    \/ Abandon
    \/ \E h \in Holders :
        \/ IterInit(h) \/ IterNext(h)
        \/ ForeachBegin(h) \/ ForeachNext(h)
        \/ Sort(h)
        \/ \E c \in Capacities : New(h, c)
        \/ \E s \in Holders : Assign(h, s)
        \/ \E k \in Keys : Remove(h, k) \/ AddAgain(h, k)
        \/ \E k \in Keys, v \in Values : Add(h, k, v) \/ Update(h, k, v)

Spec == Init /\ [][Next]_vars

----------------------------------------------------------------------------
(* Properties                                                              *)

(* Table and vector agree: a search for a key gives the value that the     *)
(* vector has for it, whatever was added, removed, sorted or rehashed      *)
(* before, and finds nothing else, in maps left marked by an error too.    *)
(* Only compaction, and changes of a marked map where it should have been  *)
(* rehashed, can break that.                                               *)
Whole == {a \in DOMAIN heap : ~heap[a].lost}

FindsEntries ==
    \A a \in Whole : \A k \in Keys :
        LET live == {i \in 1 .. heap[a].off : heap[a].vec[i] # Gone /\ heap[a].vec[i].key = k}
        IN  IF live = {} THEN Find(heap[a], k) = Absent
            ELSE /\ Cardinality(live) = 1
                 /\ \A i \in live : Find(heap[a], k) = heap[a].vec[i].value

(* Room: the add of an absent key never fails for want of an empty slot    *)
(* ("this should never happen - unless rehash locked due to iteration"),   *)
(* although tombstones are never reused: the vector, where each of them    *)
(* has a place too, fills up before the table.  This is so in marked maps  *)
(* too, of which that comment thinks: there it is the vector that gives.   *)
AddFindsSlot ==
    \A a \in Whole :
        /\ heap[a].off <= heap[a].capacity
        /\ \A k \in Keys : Find(heap[a], k) = Absent => FindEntry(heap[a], k).empty >= 0

(* Nothing is ever written behind a vector, and nothing sorted among its   *)
(* tombstones, unless an error has left the map marked, so that it is not  *)
(* rehashed any more; otherwise only the iteration over a map with removed *)
(* entries breaks it.                                                      *)
BreaksOnlyMarked ==
    [][\A a \in Whole \ stuck :
         a \in DOMAIN heap' /\ heap'[a].lost => IsSparse(heap[a]) /\ loops' # loops]_vars

(* A map is locked against rehashing exactly while some loop over it runs, *)
(* or for good once an error has left a loop without its end.              *)
LockedByLoop ==
    \A a \in DOMAIN heap : heap[a].iter <=> a \in stuck \/ Iterated(a)

(* A loop that comes to its end has visited every key that is in the map,  *)
(* in maps that no error has left marked.                                  *)
LoopsComplete ==
    [][Len(loops') < Len(loops) /\ ref[Inner.holder] \in Whole \ stuck' =>
         \A i \in 1 .. Map(Inner.holder).off :
             LET e == Map(Inner.holder).vec[i] IN e # Gone => e.key \in Inner.seen]_vars

(* What the program sees through a holder.                                 *)
LostMap == <<<<NullKey, 0>>>>

Contents(h) ==
    IF ref[h] = None THEN << >>
    ELSE IF ref[h] = Dangling \/ Map(h).lost THEN LostMap
    ELSE LiveEntries(Map(h))

(* The holders of maps with tombstones, or that are broken.                *)
Holed == {h \in Holders :
            ref[h] # None /\ (ref[h] = Dangling \/ Map(h).lost \/ IsSparse(Map(h)))}

(* The holders of maps that an error has left marked.                      *)
Marked == {h \in Holders : HasMap(h) /\ ref[h] \in stuck}

O == INSTANCE OrderedMaps WITH maps <- [h \in Holders |-> Contents(h)],
                               holed <- Holed, marked <- Marked, Lost <- LostMap

(* The shared hash tables implement maps in insertion order, one for each  *)
(* holder, until a map with a tombstone is iterated over as a value: a map *)
(* that nothing was removed from since it was rebuilt is never broken.     *)
(* Maps that an error has left marked keep less of the promise: a change   *)
(* of one may show in others that share it, and may break it.  Adding a    *)
(* key that is there changes nothing, or costs the holder its map.         *)
MapSemantics == O!Spec
============================================================================
