----------------------------- MODULE MCRendering -----------------------------
(* Three templates of different sizes, two partials, and four ways to limit the *)
(* cache: by entries, by size, by age and entries together, and not at all.  In *)
(* compat mode b is compiled as c is.                                           *)
EXTENDS Rendering

CONSTANTS a, b, c, p, q

MCSizeOf == (a :> 1) @@ (b :> 1) @@ (c :> 2)
MCLimits ==
    {[age |-> -1, entries |-> 1, size |-> 0],
     [age |-> -1, entries |-> 0, size |-> 2],
     [age |-> 2, entries |-> 1, size |-> 3],
     [age |-> -1, entries |-> 0, size |-> 0]}

MCRewritten == (a :> a) @@ (b :> c) @@ (c :> c)

Symmetry == Permutations({p, q})

=============================================================================
