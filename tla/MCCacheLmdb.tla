----------------------------- MODULE MCCacheLmdb -----------------------------
(* Two processes, one short text and three long ones, two of which have the     *)
(* same hash, and a map with room for two.                                      *)
EXTENDS CacheLmdb, TLC

CONSTANTS p1, p2, short, long1, long2, long3

MCHash == (short :> 7) @@ (long1 :> 7) @@ (long2 :> 7) @@ (long3 :> 8)

=============================================================================
