---------------------------- MODULE ArrayValues ----------------------------
(***************************************************************************)
(* What the array values of handlebars_value.c promise: every variable     *)
(* holds a sequence of its own, and changing one variable never shows in   *)
(* another.  Reference counts, sharing and buffers do not exist here.      *)
(***************************************************************************)
EXTENDS Sequences

CONSTANTS
    Handles,    \* the variables (struct handlebars_value) of the program
    Elems,      \* what an array can hold
    Null        \* a variable that holds no array

VARIABLE val    \* the contents of each variable

Init == val = [h \in Handles |-> Null]

(* A variable becomes a new, empty array.                                  *)
New(h) == val' = [val EXCEPT ![h] = << >>]

(* dest becomes equal to src.                                              *)
Assign(d, s) == val' = [val EXCEPT ![d] = val[s]]

(* An element is added at the end of one variable's array.                 *)
Push(h, x) ==
    /\ val[h] # Null
    /\ val' = [val EXCEPT ![h] = Append(val[h], x)]

(* One element of one variable's array is replaced.                        *)
Replace(h, x) ==
    /\ val[h] # Null
    /\ \E i \in DOMAIN val[h] : val' = [val EXCEPT ![h] = [val[h] EXCEPT ![i] = x]]

(* A variable is destroyed.                                                *)
Clear(h) == val' = [val EXCEPT ![h] = Null]

Next ==
    \E h \in Handles :
        \/ New(h)
        \/ Clear(h)
        \/ \E s \in Handles \ {h} : Assign(h, s)
        \/ \E x \in Elems : Push(h, x) \/ Replace(h, x)

Spec == Init /\ [][Next]_val
============================================================================
