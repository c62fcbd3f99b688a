---------------------------- MODULE MCCacheMmap ----------------------------
(* Instance of CacheMmap for TLC: k1 and k2 share a slot of the table, k3  *)
(* has one of its own, and the segment holds the entries of two templates  *)
(* but not of three.                                                       *)
EXTENDS CacheMmap, TLC

CONSTANTS k1, k2, k3, p1, p2

MCProcs2 == {p1, p2}
MCKeys2 == {k1, k2}
MCKeys3 == {k1, k2, k3}
MCSlots == {0, 1}
MCSlot2 == (k1 :> 0) @@ (k2 :> 1)
MCSlot3 == (k1 :> 0) @@ (k2 :> 0) @@ (k3 :> 1)
MCUnits == [k \in Keys |-> 1]
MCModSize2 == (k1 :> 1) @@ (k2 :> 2)
MCModSize3 == (k1 :> 1) @@ (k2 :> 2) @@ (k3 :> 1)
MCRefFloor == -2
MCSymmetry == Permutations(Procs)
============================================================================
