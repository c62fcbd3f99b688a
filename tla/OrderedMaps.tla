---------------------------- MODULE OrderedMaps ----------------------------
(***************************************************************************)
(* What the maps of handlebars_map.h promise: every holder has a map of    *)
(* its own from keys to values, listed in the order in which the keys were *)
(* added.  Hash tables, tombstones and rehashing do not exist here, nor    *)
(* does sharing, except among maps that an error has left marked.          *)
(***************************************************************************)
EXTENDS Integers, Sequences, SequencesExt

CONSTANTS Holders, Keys, Values,
          Lost      \* a map of which nothing is promised any more

VARIABLES
    maps,   \* of each holder: a sequence of entries <<key, value>>
    holed,  \* the holders of maps that may still have the places of removed entries
    marked  \* the holders of maps that an error has left marked as being iterated over

KeysOf(s) == {s[i][1] : i \in DOMAIN s}

Init ==
    /\ maps = [h \in Holders |-> << >>]
    /\ holed = {}
    /\ marked = {}

(* T passes from s to d.                                                   *)
Passed(T, d, s) == IF s \in T THEN T \cup {d} ELSE T \ {d}

(* A holder drops its map for a new, empty one.                            *)
New(h) ==
    /\ maps' = [maps EXCEPT ![h] = << >>]
    /\ holed' = holed \ {h}
    /\ marked' = marked \ {h}

(* d becomes equal to s.                                                   *)
Assign(d, s) ==
    /\ maps' = [maps EXCEPT ![d] = maps[s]]
    /\ holed' = Passed(holed, d, s)
    /\ marked' = Passed(marked, d, s)

(* Those who see a change of h's map: h alone, unless the map is marked.   *)
SeeChange(h, S) ==
    S = {h} \/ (h \in S /\ S \subseteq {g \in marked : maps[g] = maps[h]})

(* The map of h, and of all who see it, becomes s.                         *)
Becomes(h, S, s) ==
    /\ SeeChange(h, S)
    /\ maps' = [g \in Holders |-> IF g \in S THEN s ELSE maps[g]]
    /\ UNCHANGED marked

(* Any change of a map may close its holes.                                *)
MaySettle(S) == holed' = holed \/ holed' = holed \ S

Settle(h, S) ==
    /\ SeeChange(h, S)
    /\ UNCHANGED <<maps, marked>>
    /\ MaySettle(S)

(* A key that is not there is added at the end.                            *)
Add(h, S, k, v) ==
    /\ k \notin KeysOf(maps[h])
    /\ Becomes(h, S, Append(maps[h], <<k, v>>))
    /\ MaySettle(S)

(* The value of a key is replaced; the key keeps its place.                *)
Replace(h, S, k, v) ==
    /\ \E i \in DOMAIN maps[h] :
         /\ maps[h][i][1] = k
         /\ Becomes(h, S, [maps[h] EXCEPT ![i] = <<k, v>>])
    /\ MaySettle(S)

(* A key is taken out; the others keep their order.                        *)
TakeOut(h, S, k) ==
    /\ \E i \in DOMAIN maps[h] :
         /\ maps[h][i][1] = k
         /\ Becomes(h, S, RemoveAt(maps[h], i))
    /\ holed' = holed \cup S

(* The entries are put in an order that their values allow.                *)
Sort(h, S) ==
    /\ \E p \in [DOMAIN maps[h] -> DOMAIN maps[h]] :
         /\ \A i, j \in DOMAIN p : i # j => p[i] # p[j]
         /\ \A i, j \in DOMAIN p : i < j => maps[h][p[i]][2] <= maps[h][p[j]][2]
         /\ Becomes(h, S, [i \in DOMAIN p |-> maps[h][p[i]]])
    /\ holed' = holed \ S

(* An error in the loops over some maps marks them.                        *)
Mark(T) ==
    /\ marked' = marked \cup T
    /\ UNCHANGED <<maps, holed>>

(* Adding a key that is there, which is an error, costs h its map, unless  *)
(* that is marked.                                                         *)
Misuse(h, k, T) ==
    /\ k \in KeysOf(maps[h]) /\ h \notin marked /\ h \notin T
    /\ maps' = [maps EXCEPT ![h] = Lost]
    /\ holed' = holed \cup {h}
    /\ marked' = marked \cup T

(* Maps become useless, for all that share them: those that something was  *)
(* removed from, by an iteration, and marked ones, by any change.          *)
Lose ==
    /\ \E S \in SUBSET (holed \cup marked) :
         /\ maps' = [h \in Holders |-> IF h \in S THEN Lost ELSE maps[h]]
         /\ holed' = holed \cup S
    /\ UNCHANGED marked

Next ==
    \/ Lose
    \/ \E T \in SUBSET Holders : Mark(T)
    \/ \E h \in Holders :
         \/ New(h)
         \/ \E s \in Holders : Assign(h, s)
         \/ \E k \in Keys, T \in SUBSET Holders : Misuse(h, k, T)
         \/ \E S \in SUBSET Holders :
              \/ Settle(h, S)
              \/ Sort(h, S)
              \/ \E k \in Keys : TakeOut(h, S, k)
              \/ \E k \in Keys, v \in Values : Add(h, S, k, v) \/ Replace(h, S, k, v)

Spec == Init /\ [][Next]_<<maps, holed, marked>>
============================================================================
