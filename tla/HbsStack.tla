------------------------------ MODULE HbsStack ------------------------------
(***************************************************************************)
(* Array values (handlebars_value.c) over reference-counted, copy-on-write *)
(* stacks (handlebars_stack.c, handlebars_rc.h).                           *)
(*                                                                         *)
(* A variable of type ARRAY points at a stack on the heap.  Assigning one  *)
(* variable to another shares the stack and counts the reference in eight  *)
(* bits that saturate: a stack counted RcMax times is immortal.  A push or *)
(* set through a variable whose stack is shared first copies the stack.    *)
(* Stacks here are TALLOCATED; the fixed stacks of the VM are in VmExec.  *)
(***************************************************************************)
EXTENDS Integers, Sequences, FiniteSets

CONSTANTS
    Handles,        \* the variables (struct handlebars_value) of the program
    Objs,           \* where talloc can place a stack
    Elems,          \* what an array can hold
    RcMax,          \* UINT8_MAX
    Capacities,     \* the capacities handlebars_stack_ctor is called with
    MaxLen,         \* bound of the model: no array grows beyond it
    Null            \* no stack

ASSUME HbsStackAssumption ==
    /\ IsFiniteSet(Handles)
    /\ RcMax \in Nat /\ RcMax > 1
    /\ Capacities \subseteq Nat
    /\ MaxLen \in Nat
    /\ Null \notin Objs
    /\ Null \notin Seq(Elems)

VARIABLES
    slot,       \* value->v.stack of each variable, or Null
    heap        \* the allocated stacks: v[0 .. i-1], capacity, rc.refcount

vars == <<slot, heap>>

Stack(s, c, n) == [items |-> s, capacity |-> c, rc |-> n]

Init ==
    /\ slot = [h \in Handles |-> Null]
    /\ heap = << >>

----------------------------------------------------------------------------
(* handlebars_rc.h: what addref and delref make of a count.  delref at 1   *)
(* runs the destructor, which frees the stack.                             *)

(* Mutants: a count that wraps around, and one that does not stop.         *)
AddrefWraps(n) == (n + 1) % (RcMax + 1)
AddrefUnbounded(n) == n + 1

Addref(n) == IF n < RcMax THEN n + 1 ELSE n

Immortal(n) == n = RcMax

(* handlebars_stack_push: (capacity | 3) * 3 / 2.                          *)

Grown(c) == (((c - (c % 4)) + 3) * 3) \div 2

(* Mutant: the destructor runs while another reference is left.            *)
DelrefEarly(hp, o) ==
    IF o = Null \/ Immortal(hp[o].rc) THEN hp
    ELSE IF hp[o].rc <= 2 THEN [p \in DOMAIN hp \ {o} |-> hp[p]]
    ELSE [hp EXCEPT ![o].rc = @ - 1]

(* handlebars_stack_delref on what a variable pointed at.                  *)
Delref(hp, o) ==
    IF o = Null \/ Immortal(hp[o].rc) THEN hp
    ELSE IF hp[o].rc <= 1 THEN [p \in DOMAIN hp \ {o} |-> hp[p]]
    ELSE [hp EXCEPT ![o].rc = @ - 1]

(* talloc: the stack s at the address n.                                   *)
Place(hp, n, s) == [p \in DOMAIN hp \cup {n} |-> IF p = n THEN s ELSE hp[p]]

Free == Objs \ DOMAIN heap

----------------------------------------------------------------------------
(* handlebars_value_array(value, handlebars_stack_ctor(ctx, c))            *)
ValueArray(h, c, n) ==
    /\ n \in Free
    /\ slot' = [slot EXCEPT ![h] = n]
    /\ heap' = Place(Delref(heap, slot[h]), n, Stack(<< >>, c, Addref(0)))

(* handlebars_value_dtor, handlebars_value_null                            *)
ValueDtor(h) ==
    /\ slot' = [slot EXCEPT ![h] = Null]
    /\ heap' = Delref(heap, slot[h])

(* handlebars_value_value(dest, src): dest is destroyed before src's stack *)
(* is counted once more.  Called with dest = src it is ValueDtor(dest).    *)
ValueValue(d, s) ==
    /\ d # s
    /\ slot[s] # Null
    /\ slot' = [slot EXCEPT ![d] = slot[s]]
    /\ heap' = [Delref(heap, slot[d]) EXCEPT ![slot[s]].rc = Addref(@)]

(* What h points at, when it is an array.                                  *)
IsArray(h) == slot[h] # Null
Obj(h)     == heap[slot[h]]
Shared(h)  == Obj(h).rc > 1
HasRoom(h) == Obj(h).capacity > Len(Obj(h).items)

(* handlebars_stack_copy_ctor: the copy is at least as large as the array. *)
CopyCapacity(h, c) == IF c < Len(Obj(h).items) THEN Len(Obj(h).items) ELSE c

(* A copy and what follows it in stack_separate and handlebars_stack_push: *)
(* variable h gets a stack n of its own, with what was then written to it, *)
(* and gives its reference to the old one back.                            *)
Copy(h, n, c, s) ==
    /\ n \in Free
    /\ slot' = [slot EXCEPT ![h] = n]
    /\ heap' = Place(Delref(heap, slot[h]), n, Stack(s, CopyCapacity(h, c), Addref(0)))

(* handlebars_stack_push with room: in place, or in a copy when shared.    *)

(* Mutant: a push that does not look at the reference count.               *)
PushInPlaceUnseparated(h, x) ==
    /\ IsArray(h) /\ Len(Obj(h).items) < MaxLen
    /\ HasRoom(h)
    /\ heap' = [heap EXCEPT ![slot[h]].items = Append(@, x)]
    /\ UNCHANGED slot

PushInPlace(h, x) ==
    /\ IsArray(h) /\ Len(Obj(h).items) < MaxLen
    /\ HasRoom(h) /\ ~Shared(h)
    /\ heap' = [heap EXCEPT ![slot[h]].items = Append(@, x)]
    /\ UNCHANGED slot

PushSeparate(h, x, n) ==
    /\ IsArray(h) /\ Len(Obj(h).items) < MaxLen
    /\ HasRoom(h) /\ Shared(h)
    /\ Copy(h, n, Obj(h).capacity, Append(Obj(h).items, x))

(* handlebars_stack_push without room: always a copy, in a larger buffer.  *)
PushGrow(h, x, n) ==
    /\ IsArray(h) /\ Len(Obj(h).items) < MaxLen
    /\ ~HasRoom(h)
    /\ Copy(h, n, Grown(Obj(h).capacity), Append(Obj(h).items, x))

(* handlebars_stack_set within the array.  A set at the end is a push.     *)
SetInPlace(h, i, x) ==
    /\ IsArray(h) /\ i \in DOMAIN Obj(h).items
    /\ ~Shared(h)
    /\ heap' = [heap EXCEPT ![slot[h]].items[i] = x]
    /\ UNCHANGED slot

SetSeparate(h, i, x, n) ==
    /\ IsArray(h) /\ i \in DOMAIN Obj(h).items
    /\ Shared(h)
    /\ Copy(h, n, Obj(h).capacity, [Obj(h).items EXCEPT ![i] = x])

(* A set beyond the end throws after a shared stack has been separated, so *)
(* the caller keeps a pointer whose reference was given back.  The helpers *)
(* set at most at the end, and so does Next.                               *)

Next ==
    \E h \in Handles :
        \/ ValueDtor(h)
        \/ \E s \in Handles : ValueValue(h, s)
        \/ \E x \in Elems : PushInPlace(h, x)
        \/ \E x \in Elems, i \in 1 .. MaxLen : SetInPlace(h, i, x)
        \/ \E n \in Objs :
             \/ \E c \in Capacities : ValueArray(h, c, n)
             \/ \E x \in Elems : PushSeparate(h, x, n) \/ PushGrow(h, x, n)
             \/ \E x \in Elems, i \in 1 .. MaxLen : SetSeparate(h, i, x, n)

Spec == Init /\ [][Next]_vars

----------------------------------------------------------------------------
(* Properties                                                              *)

(* Type invariant of variables and stacks.                                 *)
Stacks == [items : Seq(Elems), capacity : Nat, rc : 0 .. RcMax]

TypeOK ==
    /\ slot \in [Handles -> Objs \cup {Null}]
    /\ DOMAIN heap \subseteq Objs
    /\ heap \in [DOMAIN heap -> Stacks]

Owners(o) == {h \in Handles : slot[h] = o}

(* A variable never points at a stack that has been freed, whatever was    *)
(* assigned, copied, destroyed or pushed through other variables, which is *)
(* what talloc_get_type_abort in stack_rc_dtor asserts; and no element of  *)
(* an allocated stack is written behind its buffer, however small that was *)
(* when it had to grow.                                                    *)
MemorySafe ==
    /\ \A h \in Handles : slot[h] # Null => slot[h] \in DOMAIN heap
    /\ \A o \in DOMAIN heap : Len(heap[o].items) <= heap[o].capacity

(* An allocated stack is counted once for every variable that points at    *)
(* it, or its count is saturated: it is freed neither too early nor, short *)
(* of saturation, too late.                                                *)
CountsExact ==
    \A o \in DOMAIN heap :
        /\ heap[o].rc >= 1
        /\ ~Immortal(heap[o].rc) => heap[o].rc = Cardinality(Owners(o))

(* What the program sees in a variable.                                    *)
Contents(h) == IF slot[h] = Null THEN Null ELSE heap[slot[h]].items

A == INSTANCE ArrayValues WITH val <- [h \in Handles |-> Contents(h)]

(* Copy on write implements values: every operation changes the contents   *)
(* of the one variable it is applied to, as if nothing were shared.        *)
ValueSemantics == A!Spec
============================================================================
