---------------------------- MODULE MCHbsStack -----------------------------
(* Instance of HbsStack for TLC: three variables, so that a count of three *)
(* saturates and a stack can be shared by two variables besides a third.   *)
EXTENDS HbsStack, TLC

CONSTANTS h1, h2, h3, o1, o2, o3, o4, a, b

MCHandles == {h1, h2, h3}
MCObjs == {o1, o2, o3, o4}
MCElems == {a, b}
MCCapacities == {0, 1}
MCSymmetry == Permutations(MCObjs)
============================================================================
