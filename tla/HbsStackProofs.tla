--------------------------- MODULE HbsStackProofs ---------------------------
(***************************************************************************)
(* Copy on write implements values, for any number of variables, stacks    *)
(* and elements, as long as callers of array_set stay in bounds.           *)
(*                                                                         *)
(* Every action is a composition of three moves on (variables, heap): drop *)
(* a variable's reference, place a new stack under it, share another       *)
(* variable's stack with it.  Each move keeps Good, the inductive          *)
(* invariant, and changes what is seen through that variable only.         *)
(***************************************************************************)
EXTENDS HbsStack, FiniteSetTheorems, TLAPS

Slots == [Handles -> Objs \cup {Null}]

OwnersIn(sl, o) == {h \in Handles : sl[h] = o}
Count(sl, o) == Cardinality(OwnersIn(sl, o))

Good(sl, hp) ==
    /\ sl \in Slots
    /\ DOMAIN hp \subseteq Objs
    /\ hp \in [DOMAIN hp -> Stacks]
    /\ \A h \in Handles : sl[h] # Null => sl[h] \in DOMAIN hp
    /\ \A o \in DOMAIN hp :
         /\ hp[o].rc >= 1
         /\ hp[o].rc # RcMax => hp[o].rc = Count(sl, o)
         /\ Len(hp[o].items) <= hp[o].capacity

(* What is seen through the variables.                                     *)
View(sl, hp) == [h \in Handles |-> IF sl[h] = Null THEN Null ELSE hp[sl[h]].items]

(* Two views that agree everywhere but at h.                               *)
AgreeBut(sl, hp, sl2, hp2, h) ==
    \A g \in Handles \ {h} : View(sl2, hp2)[g] = View(sl, hp)[g]

(* A step that touches one variable changes the view of that one only.     *)
LEMMA ViewExcept ==
    ASSUME NEW sl, NEW hp, NEW sl2, NEW hp2, NEW h \in Handles,
           AgreeBut(sl, hp, sl2, hp2, h)
    PROVE  View(sl2, hp2) = [View(sl, hp) EXCEPT ![h] = View(sl2, hp2)[h]]
<1>1. ASSUME NEW f, NEW f2, f = [x \in Handles |-> f[x]], f2 = [x \in Handles |-> f2[x]],
             \A g \in Handles \ {h} : f2[g] = f[g]
      PROVE  f2 = [f EXCEPT ![h] = f2[h]]
  BY <1>1
<1>2. /\ View(sl, hp) = [x \in Handles |-> View(sl, hp)[x]]
      /\ View(sl2, hp2) = [x \in Handles |-> View(sl2, hp2)[x]]
  BY DEF View
<1> QED
  BY <1>1, <1>2 DEF AgreeBut

(* sl2 is sl with variable h pointed at n.                                 *)
Moved(sl, sl2, h, n) == sl2 = [sl EXCEPT ![h] = n]

(* What a variable shows: the items of the stack it points at.             *)
LEMMA ViewAt ==
    ASSUME NEW sl, NEW hp, NEW h \in Handles
    PROVE  /\ sl[h] = Null => View(sl, hp)[h] = Null
           /\ sl[h] # Null => View(sl, hp)[h] = hp[sl[h]].items
  BY DEF View

(* Good, from its parts.                                                   *)
LEMMA GoodParts ==
    ASSUME NEW sl, NEW hp, sl \in Slots, DOMAIN hp \subseteq Objs,
           hp \in [DOMAIN hp -> Stacks],
           \A h \in Handles : sl[h] # Null => sl[h] \in DOMAIN hp,
           \A o \in DOMAIN hp : hp[o].rc >= 1,
           \A o \in DOMAIN hp : hp[o].rc # RcMax => hp[o].rc = Count(sl, o),
           \A o \in DOMAIN hp : Len(hp[o].items) <= hp[o].capacity
    PROVE  Good(sl, hp)
  BY DEF Good

----------------------------------------------------------------------------
(* How the number of owners changes when one variable is pointed elsewhere *)
LEMMA CountType ==
    ASSUME NEW sl, NEW o
    PROVE  IsFiniteSet(OwnersIn(sl, o)) /\ Count(sl, o) \in Nat
<1>1. OwnersIn(sl, o) \subseteq Handles
  BY DEF OwnersIn
<1> QED
  BY <1>1, FS_Subset, FS_CardinalityType, HbsStackAssumption DEF Count

(* A variable that lets go of one stack and takes another.                 *)
LEMMA CountMoves ==
    ASSUME NEW sl \in Slots, NEW h \in Handles, NEW n \in Objs \cup {Null},
           NEW sl2, Moved(sl, sl2, h, n), sl[h] # n
    PROVE  /\ sl2 \in Slots
           /\ Count(sl2, sl[h]) = Count(sl, sl[h]) - 1
           /\ Count(sl2, n) = Count(sl, n) + 1
           /\ \A o : o # sl[h] /\ o # n => Count(sl2, o) = Count(sl, o)
<1>0. sl2 = [sl EXCEPT ![h] = n]
  BY DEF Moved
<1>1. sl2 \in Slots
  BY <1>0 DEF Slots
<1>2. OwnersIn(sl2, sl[h]) = OwnersIn(sl, sl[h]) \ {h} /\ h \in OwnersIn(sl, sl[h])
  BY <1>0 DEF OwnersIn, Slots
<1>3. OwnersIn(sl2, n) = OwnersIn(sl, n) \cup {h} /\ h \notin OwnersIn(sl, n)
  BY <1>0 DEF OwnersIn, Slots
<1>4. ASSUME NEW o, o # sl[h], o # n PROVE OwnersIn(sl2, o) = OwnersIn(sl, o)
  BY <1>0, <1>4 DEF OwnersIn, Slots
<1>5. Count(sl2, sl[h]) = Count(sl, sl[h]) - 1
  BY <1>2, CountType, FS_RemoveElement DEF Count
<1>6. Count(sl2, n) = Count(sl, n) + 1
  BY <1>3, CountType, FS_AddElement DEF Count
<1> QED
  BY <1>1, <1>4, <1>5, <1>6 DEF Count

(* A stack with one owner is seen through that variable alone.             *)
LEMMA SoleOwner ==
    ASSUME NEW sl, NEW o, Count(sl, o) <= 1,
           NEW g \in Handles, NEW h \in Handles, sl[g] = o, sl[h] = o
    PROVE  g = h
<1> SUFFICES ASSUME g # h PROVE FALSE
  OBVIOUS
<1>1. {g, h} \subseteq OwnersIn(sl, o)
  BY DEF OwnersIn
<1>2. IsFiniteSet({g}) /\ Cardinality({g}) = 1
  BY FS_Singleton
<1>3. {g, h} = {g} \cup {h} /\ h \notin {g}
  OBVIOUS
<1>4. Cardinality({g, h}) = 2
  BY SMTT(30), <1>2, <1>3, FS_AddElement
<1>5. Cardinality({g, h}) <= Cardinality(OwnersIn(sl, o))
  BY <1>1, CountType, FS_Subset
<1> QED
  BY <1>4, <1>5, CountType DEF Count

(* Nobody owns an address where no stack is allocated.                     *)
LEMMA FreeUnowned ==
    ASSUME NEW sl, NEW hp, Good(sl, hp), NEW n \in Objs \ DOMAIN hp
    PROVE  Count(sl, n) = 0
<1>1. OwnersIn(sl, n) = {}
  BY HbsStackAssumption DEF Good, OwnersIn
<1> QED
  BY <1>1, FS_EmptySet DEF Count

----------------------------------------------------------------------------
(* The moves, as relations between variables and heap before and after     *)

Dropped(sl, hp, sl2, hp2, h) ==
    sl2 = [sl EXCEPT ![h] = Null] /\ hp2 = Delref(hp, sl[h])

Placed(sl, hp, sl2, hp2, h, n, s, c) ==
    sl2 = [sl EXCEPT ![h] = n] /\ hp2 = Place(hp, n, Stack(s, c, Addref(0)))

SharedWith(sl, hp, sl2, hp2, h, g) ==
    sl2 = [sl EXCEPT ![h] = sl[g]] /\ hp2 = [hp EXCEPT ![sl[g]].rc = Addref(@)]

Written(sl, hp, hp2, h, s) == hp2 = [hp EXCEPT ![sl[h]].items = s]

(* View(sl2, hp2) is View(sl, hp) with x at h.                             *)
Seen(sl, hp, sl2, hp2, h, x) == View(sl2, hp2) = [View(sl, hp) EXCEPT ![h] = x]

(* A variable that lets go of its stack: the last one frees it.            *)
LEMMA DropMove ==
    ASSUME NEW sl, NEW hp, Good(sl, hp), NEW h \in Handles, NEW sl2, NEW hp2,
           Dropped(sl, hp, sl2, hp2, h)
    PROVE  /\ Good(sl2, hp2)
           /\ sl2[h] = Null
           /\ DOMAIN hp2 \subseteq DOMAIN hp
           /\ Seen(sl, hp, sl2, hp2, h, Null)
<1> USE HbsStackAssumption
<1> SUFFICES ASSUME sl2 = [sl EXCEPT ![h] = Null], hp2 = Delref(hp, sl[h])
             PROVE  /\ Good(sl2, hp2)
                    /\ sl2[h] = Null
                    /\ DOMAIN hp2 \subseteq DOMAIN hp
                    /\ View(sl2, hp2) = [View(sl, hp) EXCEPT ![h] = Null]
  BY DEF Dropped, Seen
<1>0. /\ sl \in Slots /\ DOMAIN hp \subseteq Objs /\ hp \in [DOMAIN hp -> Stacks]
      /\ \A g \in Handles : sl[g] # Null => sl[g] \in DOMAIN hp
  BY DEF Good
<1>1. CASE sl[h] = Null
  <2>1. sl2 = sl /\ hp2 = hp
    BY <1>0, <1>1 DEF Slots, Delref
  <2>2. View(sl, hp)[h] = Null
    BY <1>1 DEF View
  <2> QED
    BY <1>1, <2>1, <2>2 DEF View
<1>2. CASE sl[h] # Null
  <2> DEFINE o == sl[h]
  <2>1. o \in DOMAIN hp /\ o \in Objs /\ hp[o] \in Stacks
    BY <1>0, <1>2
  <2>2. /\ sl2 \in Slots /\ sl2[h] = Null /\ \A g \in Handles \ {h} : sl2[g] = sl[g]
        /\ Count(sl2, o) = Count(sl, o) - 1
        /\ \A p \in Objs : p # o => Count(sl2, p) = Count(sl, p)
    <3>1. sl2 \in Slots /\ sl2[h] = Null /\ \A g \in Handles \ {h} : sl2[g] = sl[g]
      BY <1>0 DEF Slots
    <3>2. Null \in Objs \cup {Null} /\ sl \in Slots /\ sl[h] # Null /\ Moved(sl, sl2, h, Null)
      BY <1>0, <1>2 DEF Moved
    <3>3. Count(sl2, sl[h]) = Count(sl, sl[h]) - 1
          /\ \A p : p # sl[h] /\ p # Null => Count(sl2, p) = Count(sl, p)
      BY ONLY <3>2, CountMoves, h \in Handles
    <3> QED
      BY <3>1, <3>3
  <2>3. Count(sl, o) \in Nat /\ Count(sl2, o) \in Nat
    BY CountType
  <2>4. hp[o].rc \in 0 .. RcMax /\ hp[o].rc >= 1 /\ (hp[o].rc # RcMax => hp[o].rc = Count(sl, o))
    BY <2>1 DEF Good, Stacks
  <2>5. CASE hp[o].rc = RcMax
    <3>1. hp2 = hp
      BY <2>5 DEF Delref, Immortal
    <3>2. Good(sl2, hp2)
      BY <1>0, <2>2, <2>5, <3>1 DEF Good
    <3>3. View(sl2, hp2) = [View(sl, hp) EXCEPT ![h] = Null]
      <4>1. AgreeBut(sl, hp, sl2, hp2, h)
        BY <2>2, <3>1 DEF View, AgreeBut
      <4> QED
        <5>1. View(sl2, hp2)[h] = Null
          BY ONLY <2>2, ViewAt, h \in Handles
        <5> QED
          BY <4>1, <5>1, ViewExcept
    <3> QED
      BY <2>2, <3>1, <3>2, <3>3
  <2>6. CASE hp[o].rc # RcMax /\ hp[o].rc <= 1
    <3>1. hp2 = [p \in DOMAIN hp \ {o} |-> hp[p]]
      BY <1>2, <2>6 DEF Delref, Immortal
    <3>2. Count(sl, o) <= 1
      BY <2>3, <2>4, <2>6
    <3>3. \A g \in Handles \ {h} : sl[g] # o
      BY <3>2, SoleOwner
    <3>4. DOMAIN hp2 = DOMAIN hp \ {o} /\ \A p \in DOMAIN hp2 : hp2[p] = hp[p]
      BY <3>1
    <3>5. hp2 \in [DOMAIN hp2 -> Stacks]
      BY <1>0, <3>1
    <3>6. Good(sl2, hp2)
      BY <1>0, <2>2, <3>3, <3>4, <3>5 DEF Good
    <3>7. View(sl2, hp2) = [View(sl, hp) EXCEPT ![h] = Null]
      <4>1. AgreeBut(sl, hp, sl2, hp2, h)
        BY <1>0, <2>2, <3>3, <3>4 DEF View, AgreeBut
      <4> QED
        <5>1. View(sl2, hp2)[h] = Null
          BY ONLY <2>2, ViewAt, h \in Handles
        <5> QED
          BY <4>1, <5>1, ViewExcept
    <3> QED
      BY <2>2, <3>4, <3>6, <3>7
  <2>7. CASE hp[o].rc # RcMax /\ ~(hp[o].rc <= 1)
    <3>1. hp2 = [hp EXCEPT ![o].rc = @ - 1]
      BY <1>2, <2>7 DEF Delref, Immortal
    <3>2. /\ DOMAIN hp2 = DOMAIN hp
          /\ \A p \in DOMAIN hp : p # o => hp2[p] = hp[p]
          /\ hp2[o] = [hp[o] EXCEPT !.rc = @ - 1]
      BY <1>0, <2>1, <3>1
    <3>3. hp2[o] \in Stacks /\ hp2[o].rc = hp[o].rc - 1 /\ hp2[o].items = hp[o].items
          /\ hp2[o].capacity = hp[o].capacity
      BY <2>1, <2>4, <2>7, <3>2 DEF Stacks
    <3>4. hp2 \in [DOMAIN hp2 -> Stacks]
      BY <1>0, <2>1, <3>1, <3>2, <3>3
    <3>5. hp2[o].rc >= 1 /\ hp2[o].rc = Count(sl2, o)
      BY <2>2, <2>3, <2>4, <2>7, <3>3
    <3>6. Good(sl2, hp2)
      <4>1. \A p \in DOMAIN hp2 : hp2[p].rc >= 1
        BY <3>2, <3>5 DEF Good
      <4>2. \A p \in DOMAIN hp2 : hp2[p].rc # RcMax => hp2[p].rc = Count(sl2, p)
        BY ZenonT(30), <1>0, <2>2, <3>2, <3>5 DEF Good
      <4>3. \A p \in DOMAIN hp2 : Len(hp2[p].items) <= hp2[p].capacity
        BY <3>2, <3>3 DEF Good
      <4>4. \A g \in Handles : sl2[g] # Null => sl2[g] \in DOMAIN hp2
        BY <1>0, <2>2, <3>2
      <4> QED
        BY <1>0, <2>2, <3>2, <3>4, <4>1, <4>2, <4>3, <4>4, GoodParts
    <3>7. View(sl2, hp2) = [View(sl, hp) EXCEPT ![h] = Null]
      <4>1. AgreeBut(sl, hp, sl2, hp2, h)
        <5> SUFFICES ASSUME NEW g \in Handles \ {h}
                     PROVE  View(sl2, hp2)[g] = View(sl, hp)[g]
          BY DEF AgreeBut
        <5>1. sl2[g] = sl[g]
          BY <2>2
        <5>2. sl[g] # Null => sl[g] \in DOMAIN hp
          BY <1>0
        <5>3. sl[g] \in DOMAIN hp => hp2[sl[g]].items = hp[sl[g]].items
          BY <3>2, <3>3
        <5> QED
          BY ONLY <5>1, <5>2, <5>3, ViewAt, g \in Handles
      <4> QED
        <5>1. View(sl2, hp2)[h] = Null
          BY ONLY <2>2, ViewAt, h \in Handles
        <5> QED
          BY <4>1, <5>1, ViewExcept
    <3> QED
      BY <2>2, <3>2, <3>6, <3>7
  <2> QED
    BY <2>5, <2>6, <2>7
<1> QED
  BY <1>1, <1>2

(* A new stack in an empty variable.                                       *)
LEMMA PlaceMove ==
    ASSUME NEW sl, NEW hp, Good(sl, hp), NEW h \in Handles, sl[h] = Null,
           NEW n \in Objs \ DOMAIN hp, NEW s \in Seq(Elems), NEW c \in Nat, Len(s) <= c,
           NEW sl2, NEW hp2, Placed(sl, hp, sl2, hp2, h, n, s, c)
    PROVE  Good(sl2, hp2) /\ Seen(sl, hp, sl2, hp2, h, s)
<1> USE HbsStackAssumption
<1> SUFFICES ASSUME sl2 = [sl EXCEPT ![h] = n], hp2 = Place(hp, n, Stack(s, c, Addref(0)))
             PROVE  Good(sl2, hp2) /\ View(sl2, hp2) = [View(sl, hp) EXCEPT ![h] = s]
  BY DEF Placed, Seen
<1>0. /\ sl \in Slots /\ DOMAIN hp \subseteq Objs /\ hp \in [DOMAIN hp -> Stacks]
      /\ \A g \in Handles : sl[g] # Null => sl[g] \in DOMAIN hp
  BY DEF Good
<1>1. /\ sl2 \in Slots /\ sl2[h] = n /\ \A g \in Handles \ {h} : sl2[g] = sl[g]
  BY <1>0 DEF Slots
<1>2. Count(sl2, n) = Count(sl, n) + 1 /\ \A p \in Objs : p # n => Count(sl2, p) = Count(sl, p)
  <2>1. n \in Objs \cup {Null} /\ sl \in Slots /\ sl[h] # n /\ Moved(sl, sl2, h, n)
    BY <1>0 DEF Moved
  <2>2. Count(sl2, n) = Count(sl, n) + 1
        /\ \A p : p # sl[h] /\ p # n => Count(sl2, p) = Count(sl, p)
    BY ONLY <2>1, CountMoves, h \in Handles
  <2> QED
    BY <2>2
<1>3. Count(sl2, n) = 1
  BY <1>2, FreeUnowned
<1>4. Stack(s, c, Addref(0)) = [items |-> s, capacity |-> c, rc |-> 1]
  BY DEF Stack, Addref
<1>5. /\ DOMAIN hp2 = DOMAIN hp \cup {n}
      /\ hp2[n] = [items |-> s, capacity |-> c, rc |-> 1]
      /\ \A p \in DOMAIN hp : hp2[p] = hp[p]
  BY <1>4 DEF Place
<1>6. hp2[n] \in Stacks /\ hp2[n].items = s /\ hp2[n].capacity = c /\ hp2[n].rc = 1
  BY <1>5 DEF Stacks
<1>7. hp2 \in [DOMAIN hp2 -> Stacks]
  BY <1>0, <1>5, <1>6 DEF Place
<1>8. Good(sl2, hp2)
  <2>1. \A p \in DOMAIN hp2 : hp2[p].rc >= 1
    BY <1>5, <1>6 DEF Good
  <2>2. \A p \in DOMAIN hp2 : hp2[p].rc # RcMax => hp2[p].rc = Count(sl2, p)
    BY <1>0, <1>2, <1>3, <1>5, <1>6 DEF Good
  <2>3. \A p \in DOMAIN hp2 : Len(hp2[p].items) <= hp2[p].capacity
    BY <1>5, <1>6 DEF Good
  <2>4. \A g \in Handles : sl2[g] # Null => sl2[g] \in DOMAIN hp2
    BY <1>0, <1>1, <1>5
  <2>5. DOMAIN hp2 \subseteq Objs
    BY <1>0, <1>5
  <2> QED
    BY <1>1, <1>7, <2>1, <2>2, <2>3, <2>4, <2>5, GoodParts
<1>9. View(sl2, hp2) = [View(sl, hp) EXCEPT ![h] = s]
  <2>1. AgreeBut(sl, hp, sl2, hp2, h)
    BY <1>0, <1>1, <1>5 DEF View, AgreeBut
  <2>2. View(sl2, hp2)[h] = s
    <3>1. sl2[h] # Null /\ hp2[sl2[h]].items = s
      BY <1>1, <1>6
    <3> QED
      BY ONLY <3>1, ViewAt, h \in Handles
  <2> QED
    BY <2>1, <2>2, ViewExcept
<1> QED
  BY <1>8, <1>9

(* A second variable for the same stack.                                   *)
LEMMA ShareMove ==
    ASSUME NEW sl, NEW hp, Good(sl, hp), NEW h \in Handles, sl[h] = Null,
           NEW g \in Handles, sl[g] # Null, NEW sl2, NEW hp2,
           SharedWith(sl, hp, sl2, hp2, h, g)
    PROVE  Good(sl2, hp2) /\ Seen(sl, hp, sl2, hp2, h, View(sl, hp)[g])
<1> USE HbsStackAssumption
<1> SUFFICES ASSUME sl2 = [sl EXCEPT ![h] = sl[g]], hp2 = [hp EXCEPT ![sl[g]].rc = Addref(@)]
             PROVE  Good(sl2, hp2) /\ View(sl2, hp2) = [View(sl, hp) EXCEPT ![h] = View(sl, hp)[g]]
  BY DEF SharedWith, Seen
<1> DEFINE o == sl[g]
<1>0. /\ sl \in Slots /\ DOMAIN hp \subseteq Objs /\ hp \in [DOMAIN hp -> Stacks]
      /\ \A q \in Handles : sl[q] # Null => sl[q] \in DOMAIN hp
  BY DEF Good
<1>1. o \in DOMAIN hp /\ o \in Objs /\ hp[o] \in Stacks
  BY <1>0
<1>2. /\ sl2 \in Slots /\ sl2[h] = o /\ \A q \in Handles \ {h} : sl2[q] = sl[q]
  BY <1>0, <1>1 DEF Slots
<1>3. Count(sl2, o) = Count(sl, o) + 1 /\ \A p \in Objs : p # o => Count(sl2, p) = Count(sl, p)
  <2>1. o \in Objs \cup {Null} /\ sl \in Slots /\ sl[h] # o /\ Moved(sl, sl2, h, o)
    BY <1>0, <1>1 DEF Moved
  <2> HIDE DEF o
  <2>2. Count(sl2, o) = Count(sl, o) + 1
        /\ \A p : p # sl[h] /\ p # o => Count(sl2, p) = Count(sl, p)
    BY ONLY <2>1, CountMoves, h \in Handles
  <2> QED
    BY <2>2
<1>4. Count(sl, o) \in Nat
  BY CountType
<1>5. hp[o].rc \in 0 .. RcMax /\ hp[o].rc >= 1 /\ (hp[o].rc # RcMax => hp[o].rc = Count(sl, o))
  BY <1>1 DEF Good, Stacks
<1>6. /\ DOMAIN hp2 = DOMAIN hp
      /\ \A p \in DOMAIN hp : p # o => hp2[p] = hp[p]
  BY <1>0, <1>1
<1>61. hp2[o] = [hp[o] EXCEPT !.rc = Addref(@)]
  BY <1>0, <1>1
<1>7. Addref(hp[o].rc) \in 0 .. RcMax /\ Addref(hp[o].rc) >= 1
      /\ (Addref(hp[o].rc) # RcMax => Addref(hp[o].rc) = Count(sl, o) + 1)
  BY <1>4, <1>5 DEF Addref
<1>8. hp2[o] \in Stacks /\ hp2[o].rc = Addref(hp[o].rc) /\ hp2[o].items = hp[o].items
      /\ hp2[o].capacity = hp[o].capacity
  BY <1>1, <1>61, <1>7 DEF Stacks
<1>9. hp2 \in [DOMAIN hp2 -> Stacks]
  BY <1>0, <1>1, <1>6, <1>8
<1>10. Good(sl2, hp2)
  <2> HIDE DEF o
  <2>1. \A p \in DOMAIN hp2 : hp2[p].rc >= 1
    BY ONLY <1>6, <1>7, <1>8, Good(sl, hp) DEF Good
  <2>2. \A p \in DOMAIN hp2 : hp2[p].rc # RcMax => hp2[p].rc = Count(sl2, p)
    BY ONLY <1>0, <1>3, <1>6, <1>7, <1>8, Good(sl, hp) DEF Good
  <2>3. \A p \in DOMAIN hp2 : Len(hp2[p].items) <= hp2[p].capacity
    BY <1>6, <1>8 DEF Good
  <2>4. \A q \in Handles : sl2[q] # Null => sl2[q] \in DOMAIN hp2
    BY <1>0, <1>1, <1>2, <1>6
  <2> QED
    BY ONLY <1>0, <1>2, <1>6, <1>9, <2>1, <2>2, <2>3, <2>4, GoodParts
<1>11. View(sl2, hp2) = [View(sl, hp) EXCEPT ![h] = View(sl, hp)[g]]
  <2>1. AgreeBut(sl, hp, sl2, hp2, h)
    BY <1>0, <1>2, <1>6, <1>8 DEF View, AgreeBut
  <2>2. View(sl2, hp2)[h] = View(sl, hp)[g]
    BY <1>1, <1>2, <1>8 DEF View
  <2> QED
    BY <2>1, <2>2, ViewExcept
<1> QED
  BY <1>10, <1>11

(* A stack with one owner is changed in place.                             *)
LEMMA InPlaceMove ==
    ASSUME NEW sl, NEW hp, Good(sl, hp), NEW h \in Handles, sl[h] # Null,
           ~(hp[sl[h]].rc > 1), NEW s \in Seq(Elems), Len(s) <= hp[sl[h]].capacity,
           NEW hp2, Written(sl, hp, hp2, h, s)
    PROVE  Good(sl, hp2) /\ Seen(sl, hp, sl, hp2, h, s)
<1> USE HbsStackAssumption
<1> SUFFICES ASSUME hp2 = [hp EXCEPT ![sl[h]].items = s]
             PROVE  Good(sl, hp2) /\ View(sl, hp2) = [View(sl, hp) EXCEPT ![h] = s]
  BY DEF Written, Seen
<1> DEFINE o == sl[h]
<1>0. /\ sl \in Slots /\ DOMAIN hp \subseteq Objs /\ hp \in [DOMAIN hp -> Stacks]
      /\ \A q \in Handles : sl[q] # Null => sl[q] \in DOMAIN hp
  BY DEF Good
<1>1. o \in DOMAIN hp /\ hp[o] \in Stacks
  BY <1>0
<1>2. hp[o].rc \in 0 .. RcMax /\ hp[o].rc >= 1 /\ (hp[o].rc # RcMax => hp[o].rc = Count(sl, o))
  BY <1>1 DEF Good, Stacks
<1>3. Count(sl, o) <= 1
  BY <1>2, CountType
<1>4. \A g \in Handles \ {h} : sl[g] # o
  BY <1>3, SoleOwner
<1>5. /\ DOMAIN hp2 = DOMAIN hp
      /\ \A p \in DOMAIN hp : p # o => hp2[p] = hp[p]
      /\ hp2[o] = [hp[o] EXCEPT !.items = s]
  BY <1>0, <1>1
<1>6. hp2[o] \in Stacks /\ hp2[o].rc = hp[o].rc /\ hp2[o].items = s
      /\ hp2[o].capacity = hp[o].capacity
  BY <1>1, <1>5 DEF Stacks
<1>7. hp2 \in [DOMAIN hp2 -> Stacks]
  BY <1>0, <1>1, <1>5, <1>6
<1>8. Good(sl, hp2)
  BY <1>0, <1>1, <1>5, <1>6, <1>7 DEF Good
<1>9. View(sl, hp2) = [View(sl, hp) EXCEPT ![h] = s]
  <2>1. AgreeBut(sl, hp, sl, hp2, h)
    BY <1>0, <1>4, <1>5 DEF View, AgreeBut
  <2>2. View(sl, hp2)[h] = s
    BY <1>6, ViewAt
  <2> QED
    BY <2>1, <2>2, ViewExcept
<1> QED
  BY <1>8, <1>9

----------------------------------------------------------------------------
(* The actions, as compositions of moves                                   *)

(* A new stack under a variable that may have had one.                     *)
Renewed(sl, hp, sl2, hp2, h, n, s, c) ==
    /\ sl2 = [sl EXCEPT ![h] = n]
    /\ hp2 = Place(Delref(hp, sl[h]), n, Stack(s, c, Addref(0)))

(* A new stack in a variable that may hold another.                        *)
LEMMA NewStack ==
    ASSUME NEW sl, NEW hp, Good(sl, hp), NEW h \in Handles,
           NEW n \in Objs \ DOMAIN hp, NEW s \in Seq(Elems), NEW c \in Nat, Len(s) <= c,
           NEW sl2, NEW hp2, Renewed(sl, hp, sl2, hp2, h, n, s, c)
    PROVE  Good(sl2, hp2) /\ Seen(sl, hp, sl2, hp2, h, s)
<1>1. \E sl1, hp1 : Dropped(sl, hp, sl1, hp1, h)
  BY DEF Dropped
<1> PICK sl1, hp1 : Dropped(sl, hp, sl1, hp1, h)
  BY <1>1
<1>2. Good(sl1, hp1) /\ sl1[h] = Null /\ DOMAIN hp1 \subseteq DOMAIN hp
      /\ Seen(sl, hp, sl1, hp1, h, Null)
  BY ONLY DropMove, Good(sl, hp), h \in Handles, Dropped(sl, hp, sl1, hp1, h)
<1>3. n \in Objs \ DOMAIN hp1
  BY <1>2
<1>4. Placed(sl1, hp1, sl2, hp2, h, n, s, c)
  BY DEF Dropped, Renewed, Placed, Good, Slots
<1>5. Good(sl2, hp2) /\ Seen(sl1, hp1, sl2, hp2, h, s)
  BY ONLY <1>2, <1>3, <1>4, PlaceMove, h \in Handles, s \in Seq(Elems), c \in Nat, Len(s) <= c
<1> QED
  BY <1>2, <1>5 DEF Seen, View

(* One variable assigned to another.                                       *)
Reassigned(sl, hp, sl2, hp2, d, g) ==
    /\ sl2 = [sl EXCEPT ![d] = sl[g]]
    /\ hp2 = [Delref(hp, sl[d]) EXCEPT ![sl[g]].rc = Addref(@)]

(* An assignment of one array to another variable.                         *)
LEMMA Assigned ==
    ASSUME NEW sl, NEW hp, Good(sl, hp), NEW d \in Handles, NEW g \in Handles, g # d,
           sl[g] # Null, NEW sl2, NEW hp2, Reassigned(sl, hp, sl2, hp2, d, g)
    PROVE  Good(sl2, hp2) /\ Seen(sl, hp, sl2, hp2, d, View(sl, hp)[g])
<1>1. \E sl1, hp1 : Dropped(sl, hp, sl1, hp1, d)
  BY DEF Dropped
<1> PICK sl1, hp1 : Dropped(sl, hp, sl1, hp1, d)
  BY <1>1
<1>2. Good(sl1, hp1) /\ sl1[d] = Null /\ Seen(sl, hp, sl1, hp1, d, Null)
  BY ONLY DropMove, Good(sl, hp), d \in Handles, Dropped(sl, hp, sl1, hp1, d)
<1>3. sl1[g] = sl[g]
  BY DEF Dropped, Good, Slots
<1>4. SharedWith(sl1, hp1, sl2, hp2, d, g)
  BY <1>3 DEF Dropped, Reassigned, SharedWith, Good, Slots
<1>5. sl1[g] # Null
  BY <1>3
<1>6. Good(sl2, hp2) /\ Seen(sl1, hp1, sl2, hp2, d, View(sl1, hp1)[g])
  BY ONLY <1>2, <1>4, <1>5, ShareMove, d \in Handles, g \in Handles
<1>7. View(sl1, hp1)[g] = View(sl, hp)[g]
  BY <1>2 DEF Seen, View
<1> QED
  BY <1>2, <1>6, <1>7 DEF Seen, View

(* The buffer after a push without room has room for one more.             *)
LEMMA GrownRoom ==
    ASSUME NEW c \in Nat
    PROVE  Grown(c) \in Nat /\ c + 1 <= Grown(c)
<1> DEFINE m == (c - (c % 4)) + 3
<1>1. m \in Nat /\ m >= 3 /\ m >= c
  OBVIOUS
<1>2. ASSUME NEW k \in Nat, k >= 3 PROVE (k * 3) \div 2 \in Nat /\ (k * 3) \div 2 >= k + 1
  BY <1>2
<1> HIDE DEF m
<1>3. (m * 3) \div 2 \in Nat /\ (m * 3) \div 2 >= c + 1
  BY <1>1, <1>2
<1> QED
  BY <1>3 DEF Grown, m

----------------------------------------------------------------------------
(* A step of ArrayValues between two views.                                *)
AbsStep(v, w) ==
    \E h \in Handles :
        \/ w = [v EXCEPT ![h] = << >>]
        \/ w = [v EXCEPT ![h] = Null]
        \/ \E s \in Handles \ {h} : w = [v EXCEPT ![h] = v[s]]
        \/ \E x \in Elems :
             \/ v[h] # Null /\ w = [v EXCEPT ![h] = Append(v[h], x)]
             \/ /\ v[h] # Null
                /\ \E i \in DOMAIN v[h] : w = [v EXCEPT ![h] = [v[h] EXCEPT ![i] = x]]

(* What an array variable and its stack look like in a good state.         *)
LEMMA ArrayFacts ==
    ASSUME Good(slot, heap), NEW h \in Handles, IsArray(h)
    PROVE  /\ Obj(h).items \in Seq(Elems) /\ Obj(h).capacity \in Nat
           /\ Len(Obj(h).items) <= Obj(h).capacity
           /\ View(slot, heap)[h] = Obj(h).items /\ View(slot, heap)[h] # Null
           /\ slot[h] \in DOMAIN heap
           /\ heap \in [DOMAIN heap -> Stacks]
<1>1. slot[h] \in DOMAIN heap /\ heap[slot[h]] \in Stacks /\ heap \in [DOMAIN heap -> Stacks]
  BY DEF Good, IsArray
<1>2. Obj(h).items \in Seq(Elems) /\ Obj(h).capacity \in Nat
  BY <1>1 DEF Obj, Stacks
<1>3. View(slot, heap)[h] = Obj(h).items
  BY DEF View, Obj, IsArray
<1> QED
  BY <1>1, <1>2, <1>3, HbsStackAssumption DEF Good, Obj

(* A copy before a write leaves the variable with a stack of its own.      *)
LEMMA CopyStep ==
    ASSUME Good(slot, heap), NEW h \in Handles, IsArray(h), NEW n, NEW c \in Nat,
           NEW s \in Seq(Elems), Len(s) <= c, Copy(h, n, c, s)
    PROVE  Good(slot', heap') /\ Seen(slot, heap, slot', heap', h, s)
<1>1. n \in Objs \ DOMAIN heap
  BY DEF Copy, Free
<1>2. CopyCapacity(h, c) \in Nat /\ Len(s) <= CopyCapacity(h, c)
  BY ArrayFacts DEF CopyCapacity
<1>3. Renewed(slot, heap, slot', heap', h, n, s, CopyCapacity(h, c))
  BY DEF Copy, Renewed
<1> QED
  BY ONLY <1>1, <1>2, <1>3, NewStack, Good(slot, heap), h \in Handles, s \in Seq(Elems)

(* The views around a step on an array variable: a push and a replacement. *)
LEMMA PushSeen ==
    ASSUME Good(slot, heap), NEW h \in Handles, IsArray(h), NEW x \in Elems,
           NEW sl2, NEW hp2, Seen(slot, heap, sl2, hp2, h, Append(Obj(h).items, x))
    PROVE  AbsStep(View(slot, heap), View(sl2, hp2))
  BY ArrayFacts DEF AbsStep, Seen

(* An item that is replaced in the stack is replaced in the array.         *)
LEMMA ReplaceSeen ==
    ASSUME Good(slot, heap), NEW h \in Handles, IsArray(h), NEW x \in Elems,
           NEW i \in DOMAIN Obj(h).items,
           NEW sl2, NEW hp2, Seen(slot, heap, sl2, hp2, h, [Obj(h).items EXCEPT ![i] = x])
    PROVE  AbsStep(View(slot, heap), View(sl2, hp2))
<1>1. View(slot, heap)[h] = Obj(h).items /\ View(slot, heap)[h] # Null
  BY ArrayFacts
<1>2. ASSUME NEW v, NEW w, NEW t, v[h] = t, v[h] # Null, i \in DOMAIN t,
             w = [v EXCEPT ![h] = [t EXCEPT ![i] = x]]
      PROVE  AbsStep(v, w)
  <2>1. \E k \in DOMAIN v[h] : w = [v EXCEPT ![h] = [v[h] EXCEPT ![k] = x]]
    BY <1>2
  <2> QED
    BY <1>2, <2>1 DEF AbsStep
<1> QED
  BY <1>1, <1>2 DEF Seen

(* Every step keeps the counts, and is a step of the abstract arrays.      *)
LEMMA StepSimulates ==
    ASSUME Good(slot, heap), Next
    PROVE  Good(slot', heap') /\ AbsStep(View(slot, heap), View(slot', heap'))
<1> PICK h \in Handles :
        \/ ValueDtor(h)
        \/ \E s \in Handles : ValueValue(h, s)
        \/ \E x \in Elems : PushInPlace(h, x)
        \/ \E x \in Elems, i \in 1 .. MaxLen : SetInPlace(h, i, x)
        \/ \E n \in Objs :
             \/ \E c \in Capacities : ValueArray(h, c, n)
             \/ \E x \in Elems : PushSeparate(h, x, n) \/ PushGrow(h, x, n)
             \/ \E x \in Elems, i \in 1 .. MaxLen : SetSeparate(h, i, x, n)
  BY DEF Next
<1> DEFINE Goal == Good(slot', heap') /\ AbsStep(View(slot, heap), View(slot', heap'))
<1>1. ASSUME ValueDtor(h) PROVE Goal
  <2>1. Dropped(slot, heap, slot', heap', h)
    BY <1>1 DEF ValueDtor, Dropped
  <2>2. Good(slot', heap') /\ Seen(slot, heap, slot', heap', h, Null)
    BY ONLY <2>1, DropMove, Good(slot, heap), h \in Handles
  <2> QED
    BY <2>2 DEF AbsStep, Seen
<1>2. ASSUME NEW s \in Handles, ValueValue(h, s) PROVE Goal
  <2>1. s # h /\ slot[s] # Null /\ Reassigned(slot, heap, slot', heap', h, s)
    BY <1>2 DEF ValueValue, Reassigned
  <2>2. Good(slot', heap') /\ Seen(slot, heap, slot', heap', h, View(slot, heap)[s])
    BY ONLY <2>1, Assigned, Good(slot, heap), h \in Handles, s \in Handles
  <2> QED
    BY <2>1, <2>2 DEF AbsStep, Seen
<1>3. ASSUME NEW x \in Elems, PushInPlace(h, x) PROVE Goal
  <2>1. IsArray(h) /\ HasRoom(h) /\ ~Shared(h) /\ slot' = slot
    BY <1>3 DEF PushInPlace
  <2>2. Append(Obj(h).items, x) \in Seq(Elems)
        /\ Len(Append(Obj(h).items, x)) <= heap[slot[h]].capacity
    BY <2>1, ArrayFacts DEF HasRoom, Obj
  <2>3. Written(slot, heap, heap', h, Append(Obj(h).items, x))
    BY <1>3, <2>1, ArrayFacts DEF PushInPlace, Obj, Written
  <2>4. slot[h] # Null /\ ~(heap[slot[h]].rc > 1)
    BY <2>1 DEF IsArray, Shared, Obj
  <2>5. Good(slot, heap') /\ Seen(slot, heap, slot, heap', h, Append(Obj(h).items, x))
    BY ONLY <2>2, <2>3, <2>4, InPlaceMove, Good(slot, heap), h \in Handles
  <2>6. AbsStep(View(slot, heap), View(slot, heap'))
    BY ONLY <2>1, <2>5, PushSeen, Good(slot, heap), h \in Handles, x \in Elems
  <2> QED
    BY <2>1, <2>5, <2>6
<1>4. ASSUME NEW x \in Elems, NEW i \in 1 .. MaxLen, SetInPlace(h, i, x)
      PROVE  Goal
  <2>1. IsArray(h) /\ ~Shared(h) /\ slot' = slot /\ i \in DOMAIN Obj(h).items
    BY <1>4 DEF SetInPlace
  <2>2. [Obj(h).items EXCEPT ![i] = x] \in Seq(Elems)
        /\ Len([Obj(h).items EXCEPT ![i] = x]) <= heap[slot[h]].capacity
    BY <2>1, ArrayFacts DEF Obj
  <2>3. Written(slot, heap, heap', h, [Obj(h).items EXCEPT ![i] = x])
    BY <1>4, <2>1, ArrayFacts DEF SetInPlace, Obj, Written
  <2>4. slot[h] # Null /\ ~(heap[slot[h]].rc > 1)
    BY <2>1 DEF IsArray, Shared, Obj
  <2>5. Good(slot, heap') /\ Seen(slot, heap, slot, heap', h, [Obj(h).items EXCEPT ![i] = x])
    BY ONLY <2>2, <2>3, <2>4, InPlaceMove, Good(slot, heap), h \in Handles
  <2>6. AbsStep(View(slot, heap), View(slot, heap'))
    BY ONLY <2>1, <2>5, ReplaceSeen, Good(slot, heap), h \in Handles, x \in Elems
  <2> QED
    BY <2>1, <2>5, <2>6
<1>5. ASSUME NEW n \in Objs, NEW c \in Capacities, ValueArray(h, c, n) PROVE Goal
  <2>1. n \in Objs \ DOMAIN heap /\ c \in Nat
    BY <1>5, HbsStackAssumption DEF ValueArray, Free
  <2>2. << >> \in Seq(Elems) /\ Len(<< >>) <= c
    BY <2>1
  <2>3. Renewed(slot, heap, slot', heap', h, n, << >>, c)
    BY <1>5 DEF ValueArray, Renewed
  <2>4. Good(slot', heap') /\ Seen(slot, heap, slot', heap', h, << >>)
    BY ONLY <2>1, <2>2, <2>3, NewStack, Good(slot, heap), h \in Handles
  <2> QED
    BY <2>4 DEF AbsStep, Seen
<1>6. ASSUME NEW n \in Objs, NEW x \in Elems, PushSeparate(h, x, n) \/ PushGrow(h, x, n)
      PROVE  Goal
  <2>1. IsArray(h)
    BY <1>6 DEF PushSeparate, PushGrow
  <2>2. /\ Append(Obj(h).items, x) \in Seq(Elems)
        /\ Len(Append(Obj(h).items, x)) = Len(Obj(h).items) + 1
    BY <2>1, ArrayFacts
  <2>3. \E c \in Nat : /\ Len(Append(Obj(h).items, x)) <= c
                       /\ Copy(h, n, c, Append(Obj(h).items, x))
    <3>1. CASE PushSeparate(h, x, n)
      BY <3>1, <2>1, <2>2, ArrayFacts DEF PushSeparate, HasRoom
    <3>2. CASE PushGrow(h, x, n)
      <4>1. /\ Copy(h, n, Grown(Obj(h).capacity), Append(Obj(h).items, x))
            /\ ~(Obj(h).capacity > Len(Obj(h).items))
        BY <3>2 DEF PushGrow, HasRoom
      <4>2. Grown(Obj(h).capacity) \in Nat /\ Obj(h).capacity + 1 <= Grown(Obj(h).capacity)
        BY <2>1, ArrayFacts, GrownRoom
      <4>3. Len(Append(Obj(h).items, x)) <= Grown(Obj(h).capacity)
        BY <2>1, <2>2, <4>1, <4>2, ArrayFacts
      <4> QED
        BY <4>1, <4>2, <4>3
    <3> QED
      BY <1>6, <3>1, <3>2
  <2>4. Good(slot', heap') /\ Seen(slot, heap, slot', heap', h, Append(Obj(h).items, x))
    BY ONLY <2>1, <2>2, <2>3, CopyStep, Good(slot, heap), h \in Handles
  <2> QED
    BY <2>1, <2>4, PushSeen
<1>7. ASSUME NEW n \in Objs, NEW x \in Elems, NEW i \in 1 .. MaxLen, SetSeparate(h, i, x, n)
      PROVE  Goal
  <2>1. /\ IsArray(h) /\ i \in DOMAIN Obj(h).items
        /\ Copy(h, n, Obj(h).capacity, [Obj(h).items EXCEPT ![i] = x])
    BY <1>7 DEF SetSeparate
  <2>2. /\ [Obj(h).items EXCEPT ![i] = x] \in Seq(Elems)
        /\ Len([Obj(h).items EXCEPT ![i] = x]) <= Obj(h).capacity /\ Obj(h).capacity \in Nat
    BY <2>1, ArrayFacts
  <2>3. Good(slot', heap') /\ Seen(slot, heap, slot', heap', h, [Obj(h).items EXCEPT ![i] = x])
    BY ONLY <2>1, <2>2, CopyStep, Good(slot, heap), h \in Handles
  <2> QED
    BY <2>1, <2>3, ReplaceSeen
<1> QED
  BY <1>1, <1>2, <1>3, <1>4, <1>5, <1>6, <1>7

(* The counts are right at the start.                                      *)
LEMMA InitGood == Init => Good(slot, heap)
<1> SUFFICES ASSUME Init PROVE Good(slot, heap)
  OBVIOUS
<1>1. DOMAIN heap = {} /\ heap \in [DOMAIN heap -> Stacks]
  BY DEF Init
<1> QED
  BY <1>1 DEF Init, Good, Slots

(* The inductive invariant of the specification.                           *)
Inv == Good(slot, heap)

(* They are right in every state.                                          *)
LEMMA SpecGood == Spec => []Inv
<1>1. Init => Inv
  BY InitGood DEF Inv
<1>2. Inv /\ [Next]_vars => Inv'
  <2> SUFFICES ASSUME Inv, [Next]_vars PROVE Inv'
    OBVIOUS
  <2>1. CASE Next
    BY <2>1, StepSimulates DEF Inv
  <2>2. CASE UNCHANGED vars
    BY <2>2 DEF Inv, vars
  <2> QED
    BY <2>1, <2>2
<1> QED
  BY <1>1, <1>2, PTL DEF Spec

(* The properties follow from them.                                        *)
LEMMA GoodProperties == Inv => TypeOK /\ MemorySafe /\ CountsExact
  BY DEF Inv, Good, Slots, TypeOK, MemorySafe, CountsExact, Immortal, Owners,
         Count, OwnersIn

(* No variable ever points at a freed stack and no push writes past the     *)
(* buffer of the stack it ends in, for any number of variables, any width   *)
(* of the count and any capacities.                                         *)
THEOREM ReferencesLive == Spec => []MemorySafe
<1>1. Inv => MemorySafe
  BY GoodProperties
<1> QED
  BY <1>1, SpecGood, PTL

(* Every count is the number of variables that point at the stack, or it is *)
(* saturated: addref and delref are balanced on every path.                *)
THEOREM ReferencesCounted == Spec => []CountsExact
<1>1. Inv => CountsExact
  BY GoodProperties
<1> QED
  BY <1>1, SpecGood, PTL

(* Copy on write implements values.                                        *)
THEOREM CopyOnWrite == Spec => ValueSemantics
<1>1. Init => A!Init
  BY DEF Init, A!Init, Contents
<1>2. Inv /\ [Next]_vars
        => [A!Next]_([h \in Handles |-> Contents(h)])
  <2> SUFFICES ASSUME Inv, [Next]_vars
               PROVE  [A!Next]_([h \in Handles |-> Contents(h)])
    OBVIOUS
  <2>1. CASE UNCHANGED vars
    BY <2>1 DEF vars, Contents
  <2>2. CASE Next
    <3>1. AbsStep(View(slot, heap), View(slot', heap'))
      BY <2>2, StepSimulates DEF Inv
    <3> QED
      BY <3>1 DEF AbsStep, View, Contents, A!Next, A!New, A!Clear, A!Assign, A!Push, A!Replace
  <2> QED
    BY <2>1, <2>2
<1> QED
  BY <1>1, <1>2, SpecGood, PTL DEF Spec, ValueSemantics, A!Spec
=============================================================================
