----------------------------- MODULE CacheSimple -----------------------------
(***************************************************************************)
(* The in-process cache, handlebars_cache_simple.c: compiled modules in a  *)
(* map from template to module, collected in the order of their time       *)
(* stamps.  The map is the ordered map that HbsMap is shown to implement.  *)
(* Two things the code counts and no property is about are left out: hits  *)
(* and misses, and the total size talloc reports.                          *)
(***************************************************************************)
EXTENDS Integers, Sequences, SequencesExt

CONSTANTS
    Templates,   \* the texts that are compiled and cached
    SizeOf,      \* the size of the module compiled from each of them
    Limits,      \* the limits an owner may set: [age, entries, size]
    MaxTime      \* bound on the clock

ASSUME SizesAssumption == SizeOf \in [Templates -> Nat \ {0}]
ASSUME LimitsAssumption ==
    Limits \subseteq [age : Int, entries : Nat, size : Nat]

VARIABLES
    limits,      \* max_age, max_entries and max_size of struct handlebars_cache
    map,         \* the entries in the order of the map: [key, ts]
    stat,        \* current_entries and current_size
    mapFreed,    \* the map that intern->map points to has been freed
    now          \* time()

cacheVars == <<limits, map, stat, mapFreed, now>>

Keys(entries) == {entries[i].key : i \in DOMAIN entries}
Sizes(entries) ==
    LET sum[n \in 0 .. Len(entries)] ==
            IF n = 0 THEN 0 ELSE sum[n - 1] + SizeOf[entries[n].key]
    IN  sum[Len(entries)]

CacheInit ==
    /\ limits \in Limits
    /\ map = <<>>
    /\ stat = [entries |-> 0, size |-> 0]
    /\ mapFreed = FALSE
    /\ now = 0

\* Mutant: the entry that is about to be added is allowed for twice.
ShouldGcMutant(st) ==
    \/ limits.size > 0 /\ st.size > limits.size + 1
    \/ limits.entries > 0 /\ st.entries > limits.entries + 1

\* should_gc: a limit of zero is no limit.
ShouldGc(st) ==
    \/ limits.size > 0 /\ st.size > limits.size
    \/ limits.entries > 0 /\ st.entries > limits.entries

ShouldGcEntry(e, st) ==
    \/ limits.age >= 0 /\ now - e.ts >= limits.age
    \/ ShouldGc(st)

\* The counters after the first n entries of a map have been taken away.
StatAfter(entries, n) ==
    [entries |-> stat.entries - n, size |-> stat.size - Sizes(SubSeq(entries, 1, n))]

\* handlebars_map_sort with cache_compare: oldest first.  The sort is a
\* quicksort, so that entries of the same second come in any order.
Sorted(entries) ==
    {s \in SetToSeqs(ToSet(entries)) :
        \A i, j \in DOMAIN s : i < j => s[i].ts <= s[j].ts}

\* The loop of cache_gc takes entries from the front until one may stay.
RemovedFrom(entries) ==
    CHOOSE n \in 0 .. Len(entries) :
        /\ n = Len(entries) \/ ~ShouldGcEntry(entries[n + 1], StatAfter(entries, n))
        /\ \A k \in 0 .. n - 1 : ShouldGcEntry(entries[k + 1], StatAfter(entries, k))

\* What cache_gc may leave of a map, with the counters then.
Collected(entries) ==
    {[map |-> SubSeq(s, RemovedFrom(s) + 1, Len(s)), stat |-> StatAfter(s, RemovedFrom(s))] :
        s \in Sorted(entries)}

\* cache_gc, called by the owner of the cache.
Gc ==
    /\ ~mapFreed
    /\ \E c \in Collected(map) : map' = c.map /\ stat' = c.stat
    /\ UNCHANGED <<limits, mapFreed, now>>

\* Mutant: a hit leaves the time stamp alone.
FindHitMutant(t) == ~mapFreed /\ t \in Keys(map) /\ UNCHANGED cacheVars

\* A hit makes the module young again, whatever its age.
FindHit(t) ==
    /\ ~mapFreed
    /\ t \in Keys(map)
    /\ map' = [i \in DOMAIN map |-> IF map[i].key = t THEN [key |-> t, ts |-> now] ELSE map[i]]
    /\ UNCHANGED <<limits, stat, mapFreed, now>>

\* Mutant: an entry that is too old is taken for a miss.
FindMissMutant(t) ==
    /\ ~mapFreed
    /\ \A i \in DOMAIN map : map[i].key = t => limits.age >= 0 /\ now - map[i].ts >= limits.age

FindMiss(t) == ~mapFreed /\ t \notin Keys(map)

\* cache_add begins with a collection if the cache is full, before the limits take
\* the new module into account.
BeforeAdd == IF ShouldGc(stat) THEN Collected(map) ELSE {[map |-> map, stat |-> stat]}

Add(t) ==
    /\ ~mapFreed
    /\ \E c \in BeforeAdd :
        /\ t \notin Keys(c.map)
        /\ map' = Append(c.map, [key |-> t, ts |-> now])
        /\ stat' = [entries |-> c.stat.entries + 1, size |-> c.stat.size + SizeOf[t]]
    /\ UNCHANGED <<limits, mapFreed, now>>

\* Mutant: the counters are raised before the map has taken the key.
AddThrowsMutant(t) ==
    /\ ~mapFreed
    /\ \E c \in BeforeAdd :
        /\ t \in Keys(c.map)
        /\ map' = c.map
        /\ stat' = [entries |-> c.stat.entries + 1, size |-> c.stat.size + SizeOf[t]]
    /\ mapFreed' \in BOOLEAN
    /\ UNCHANGED <<limits, now>>

\* handlebars_map_add throws for a key that is there.  It may have moved the entries
\* to a larger map before: intern->map then points to the old one, which is freed.
\* How much room a map has depends on what it has lost (HbsMap): either may happen.
AddThrows(t) ==
    /\ ~mapFreed
    /\ \E c \in BeforeAdd :
        /\ t \in Keys(c.map)
        /\ map' = c.map
        /\ stat' = c.stat
    /\ mapFreed' \in BOOLEAN
    /\ UNCHANGED <<limits, now>>

\* cache_reset frees the map and not the modules, which live until the cache does.
Reset ==
    /\ ~mapFreed
    /\ map' = <<>>
    /\ stat' = [entries |-> 0, size |-> 0]
    /\ UNCHANGED <<limits, mapFreed, now>>

\* The clock, read by time().
Tick ==
    /\ now < MaxTime
    /\ now' = now + 1
    /\ UNCHANGED <<limits, map, stat, mapFreed>>

=============================================================================
