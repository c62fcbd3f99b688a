------------------------------ MODULE MCHbsMap ------------------------------
(* Instance of HbsMap for TLC: two of the three keys have the same hash,   *)
(* and the third follows them in the table.                                *)
EXTENDS HbsMap, TLC

CONSTANTS h1, h2, k1, k2, k3

MCHolders == {h1, h2}
MCKeys == {k1, k2, k3}
MCHash == (k1 :> 4 @@ k2 :> 4 @@ k3 :> 0)

(* Holders are alike, and so are the two keys with the same hash.          *)
MCSymmetry == Permutations(MCHolders) \cup Permutations({k1, k2})
============================================================================
