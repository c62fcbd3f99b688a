-------------------------- MODULE CacheMmapProofs --------------------------
(***************************************************************************)
(* Safety of the shared-memory cache for any number of processes and       *)
(* templates and any sizes.  Inv adds to the properties of CacheMmap what  *)
(* makes them inductive: the locals a label relies on are set, and between *)
(* the copy of a module and the publication of its entry the key and the   *)
(* module lie whole below the bump pointer, under the writer's lock.       *)
(***************************************************************************)
EXTENDS CacheMmap, FiniteSetTheorems, TLAPS

NeedKey == {"find_entry", "find_key", "find_module", "find_ref", "find_lock",
            "find_unset", "exec", "missed", "add_lock", "add_copy", "add_set"}
NeedEnt == {"find_key", "find_module", "find_ref", "find_lock", "find_unset", "exec"}

LocalsOK ==
    \A p \in Procs :
        /\ pc[p] \in NeedKey => key[p] \in Keys
        /\ pc[p] \in NeedEnt => ent[p] \in Addrs
        /\ pc[p] = "add_set" =>
             /\ mod[p] \in Addrs
             /\ mod[p] - KeySize[key[p]] \in Addrs

TypeInv == TypeOK /\ LocalsOK

Copied ==
    \A p \in Procs : pc[p] = "add_set" =>
        /\ mod[p] < data_length
        /\ mem[mod[p]] = ModuleCell(key[p])
        /\ mem[mod[p] - KeySize[key[p]]] = KeyCell(key[p])

Inv == TypeInv /\ LockDiscipline /\ PublishedIntact /\ UndisturbedReads /\ Copied

----------------------------------------------------------------------------
(* The addresses are the numbers below the size of the segment.            *)
LEMMA AddrsNat == /\ Addrs \subseteq Nat
                  /\ 0 \in Addrs
                  /\ \A x : x \in Addrs <=> x \in Nat /\ x < DataSize
  BY CacheMmapAssumption DEF Addrs

(* An entry of the segment holds two addresses.                            *)
LEMMA EntryFields ==
    ASSUME NEW c \in Cells, c.kind = "entry"
    PROVE  c.key \in Addrs /\ c.data \in Addrs
  BY DEF Cells, KeyCell, ModuleCell, EntryCell, Junk

(* Writing an object changes the segment only from its address upwards.    *)
LEMMA WriteCells ==
    ASSUME NEW m \in [Addrs -> Cells], NEW a \in Addrs, NEW c \in Cells,
           NEW n \in Nat \ {0}
    PROVE  /\ Write(m, a, c, n) \in [Addrs -> Cells]
           /\ Write(m, a, c, n)[a] = c
           /\ \A x \in Addrs : x < a => Write(m, a, c, n)[x] = m[x]
<1>1. Junk \in Cells
  BY DEF Cells
<1> QED
  BY <1>1, AddrsNat DEF Write

(* What append reports to fit ends below the end of the segment.           *)
LEMMA FitsAddr ==
    ASSUME NEW len \in Addrs, NEW n \in Nat \ {0}, Fits(len, n)
    PROVE  len + n \in Addrs /\ len < len + n
  BY AddrsNat, CacheMmapAssumption DEF Fits

(* append, whether or not the object fits.                                 *)
LEMMA Appended ==
    ASSUME NEW m \in [Addrs -> Cells], NEW len \in Addrs, NEW c \in Cells,
           NEW n \in Nat \ {0}, NEW m2, NEW len2,
           m2 = IF Fits(len, n) THEN Write(m, len, c, n) ELSE m,
           len2 = IF Fits(len, n) THEN len + n ELSE len
    PROVE  /\ m2 \in [Addrs -> Cells] /\ len2 \in Addrs /\ len <= len2
           /\ \A x \in Addrs : x < len => m2[x] = m[x]
           /\ Fits(len, n) => m2[len] = c /\ len < len2 /\ len2 - n = len
<1>1. CASE Fits(len, n)
  <2>1. m2 = Write(m, len, c, n) /\ len2 = len + n
    BY <1>1
  <2>2. len2 \in Addrs /\ len < len2
    BY <1>1, <2>1, FitsAddr
  <2>3. len <= len2 /\ len2 - n = len
    BY <2>1, <2>2, AddrsNat
  <2> QED
    BY <2>1, <2>2, <2>3, WriteCells
<1>2. CASE ~Fits(len, n)
  BY <1>2, AddrsNat
<1> QED
  BY <1>1, <1>2

(* Every kind of cell is a cell.                                           *)
LEMMA CellsMember ==
    /\ \A k \in Keys : KeyCell(k) \in Cells /\ ModuleCell(k) \in Cells
    /\ \A a, b \in Addrs : EntryCell(a, b) \in Cells
  BY DEF Cells

----------------------------------------------------------------------------
(* The types hold at the start.                                            *)
LEMMA InitType == Init => TypeInv
<1> SUFFICES ASSUME Init PROVE TypeInv
  OBVIOUS
<1>1. TypeOK
  <2>1. Junk \in Cells
    BY DEF Cells
  <2>2. 0 \in 0 .. Wrap - 1
    BY CacheMmapAssumption
  <2>3. mem \in [Addrs -> Cells] /\ data_length \in Addrs
    BY <2>1, AddrsNat DEF Init
  <2>4. /\ disturbed \in [Procs -> BOOLEAN] /\ in_reset \in BOOLEAN
        /\ junk \in BOOLEAN /\ cut \in BOOLEAN
    BY DEF Init
  <2>5. /\ table \in [Slots -> Addrs \cup {Null}]
        /\ key \in [Procs -> Keys \cup {Null}]
        /\ ent \in [Procs -> Addrs \cup {Null}]
        /\ mod \in [Procs -> Addrs \cup {Null}]
        /\ pc \in [Procs -> Labels]
    BY DEF Init, Labels
  <2> QED
    BY <2>2, <2>3, <2>4, <2>5 DEF Init, TypeOK
<1>2. LocalsOK
  BY DEF Init, LocalsOK, NeedKey, NeedEnt
<1> QED
  BY <1>1, <1>2 DEF TypeInv

(* Every step keeps them.                                                  *)
LEMMA NextType == TypeInv /\ [Next]_vars => TypeInv'
<1> SUFFICES ASSUME TypeInv, [Next]_vars
             PROVE  TypeInv'
  OBVIOUS
<1> USE DEF TypeInv, Abandon, Throw, Unlock
<1>0. ASSUME NEW n \in Int PROVE n % Wrap \in 0 .. Wrap - 1
  BY <1>0, CacheMmapAssumption
<1>1. ASSUME UNCHANGED vars PROVE TypeInv'
  BY <1>1 DEF vars, TypeOK, LocalsOK
<1>2. ASSUME NEW p \in Procs, NEW k \in Keys, FindBegin(p, k) PROVE TypeInv'
  BY <1>2 DEF FindBegin, At, Goto, shared, TypeOK, LocalsOK, Labels, NeedKey, NeedEnt
<1>3. ASSUME NEW p \in Procs, FindEntry(p) PROVE TypeInv'
  BY <1>3, CacheMmapAssumption
     DEF FindEntry, At, Goto, shared, TypeOK, LocalsOK, Labels, NeedKey, NeedEnt
<1>4. ASSUME NEW p \in Procs, FindKey(p) PROVE TypeInv'
  BY <1>4 DEF FindKey, At, Goto, shared, TypeOK, LocalsOK, Labels, NeedKey, NeedEnt
<1>5. ASSUME NEW p \in Procs, FindModule(p) PROVE TypeInv'
  <2>1. mem[ent[p]].data \in Addrs
    BY <1>5, EntryFields
       DEF FindModule, ModuleReadable, EntryAt, At, TypeOK, LocalsOK, NeedEnt
  <2> QED
    BY <1>5, <2>1 DEF FindModule, At, Goto, shared, TypeOK, LocalsOK, Labels, NeedKey, NeedEnt
<1>6. ASSUME NEW p \in Procs, FindJunk(p) PROVE TypeInv'
  BY <1>6 DEF FindJunk, At, Goto, shared, TypeOK, LocalsOK, Labels, NeedKey, NeedEnt
<1>7. ASSUME NEW p \in Procs, FindRef(p) PROVE TypeInv'
  BY <1>7 DEF FindRef, At, Goto, TypeOK, LocalsOK, Labels, NeedKey, NeedEnt
<1>8. ASSUME NEW p \in Procs, FindUnsetLock(p) PROVE TypeInv'
  BY <1>8 DEF FindUnsetLock, At, Goto, Return, TypeOK, LocalsOK, Labels, NeedKey, NeedEnt
<1>9. ASSUME NEW p \in Procs, FindUnset(p) PROVE TypeInv'
  <2>1. table_entries' \in 0 .. Wrap - 1
    BY <1>9, <1>0 DEF FindUnset, TypeOK
  <2> QED
    BY <1>9, <2>1 DEF FindUnset, At, Goto, Return, TypeOK, LocalsOK, Labels, NeedKey, NeedEnt
<1>10. ASSUME NEW p \in Procs, Release(p) PROVE TypeInv'
  BY <1>10 DEF Release, At, Return, TypeOK, LocalsOK, Labels, NeedKey, NeedEnt
<1>11. ASSUME NEW p \in Procs, AddBegin(p) PROVE TypeInv'
  BY ZenonT(30), <1>11 DEF AddBegin, At, Goto, Return, shared, TypeOK, LocalsOK, Labels, NeedKey, NeedEnt
<1>12. ASSUME NEW p \in Procs, AddLock(p) PROVE TypeInv'
  BY <1>12 DEF AddLock, At, Goto, Return, TypeOK, LocalsOK, Labels, NeedKey, NeedEnt
<1>13. ASSUME NEW p \in Procs, AddCollision(p) PROVE TypeInv'
  BY <1>13 DEF AddCollision, At, Return, TypeOK, LocalsOK, Labels, NeedKey, NeedEnt
<1>14. ASSUME NEW p \in Procs, AddCopy(p) PROVE TypeInv'
  <2> DEFINE k       == key[p]
             keyFits == Fits(data_length, KeySize[k])
             mem1    == IF keyFits THEN Write(mem, data_length, KeyCell(k), KeySize[k]) ELSE mem
             len1    == IF keyFits THEN data_length + KeySize[k] ELSE data_length
             modFits == Fits(len1, ModSize[k])
  <2>1. k \in Keys /\ KeySize[k] \in Nat \ {0} /\ ModSize[k] \in Nat \ {0}
    BY <1>14, CacheMmapAssumption DEF AddCopy, At, LocalsOK, NeedKey
  <2>2. mem \in [Addrs -> Cells] /\ data_length \in Addrs
    BY DEF TypeOK
  <2>3. mem1 \in [Addrs -> Cells] /\ len1 \in Addrs
    BY <2>1, <2>2, WriteCells, FitsAddr, CellsMember
  <2>4. mem' \in [Addrs -> Cells] /\ data_length' \in Addrs
    <3>1. mem' = IF modFits THEN Write(mem1, len1, ModuleCell(k), ModSize[k]) ELSE mem1
      BY <1>14 DEF AddCopy
    <3>2. data_length' = IF modFits THEN len1 + ModSize[k] ELSE len1
      BY <1>14 DEF AddCopy
    <3> HIDE DEF mem1, len1, k
    <3> QED
      BY <3>1, <3>2, <2>1, <2>3, WriteCells, FitsAddr, CellsMember
  <2>5. CASE keyFits /\ modFits
    <3>1. /\ mod' = [mod EXCEPT ![p] = len1]
          /\ pc' = [pc EXCEPT ![p] = "add_set"]
          /\ UNCHANGED <<write_lock, key, ent, disturbed, abandoned>>
      BY <1>14, <2>5 DEF AddCopy, Goto
    <3>2. len1 - KeySize[k] = data_length
      BY <2>1, <2>2, <2>5, AddrsNat
    <3> HIDE DEF mem1, len1
    <3> QED
      BY <1>14, <3>1, <3>2, <2>1, <2>2, <2>3, <2>4
         DEF AddCopy, At, TypeOK, LocalsOK, Labels, NeedKey, NeedEnt
  <2>6. CASE ~(keyFits /\ modFits)
    <3>1. /\ pc[p] = "add_copy"
          /\ UNCHANGED <<table, table_entries, in_reset, refcount, junk, cut>>
          /\ \/ /\ pc' = [pc EXCEPT ![p] = "reset_begin"]
                /\ write_lock' = Null
                /\ UNCHANGED <<key, ent, mod, disturbed, abandoned>>
             \/ Abandon(p) /\ UNCHANGED write_lock
      BY <1>14, <2>6 DEF AddCopy, Goto, At
    <3> HIDE DEF keyFits, mem1, len1, modFits, k
    <3> QED
      BY <3>1, <2>4 DEF Return, TypeOK, LocalsOK, Labels, NeedKey, NeedEnt
  <2> QED
    BY <2>5, <2>6
<1>15. ASSUME NEW p \in Procs, AddSet(p) PROVE TypeInv'
  <2> DEFINE e == EntryCell(mod[p] - KeySize[key[p]], mod[p])
  <2>1. e \in Cells
    BY <1>15, CellsMember DEF AddSet, At, LocalsOK
  <2>2. mem' \in [Addrs -> Cells] /\ data_length' \in Addrs
    BY <1>15, <2>1, WriteCells, FitsAddr DEF AddSet, TypeOK
  <2>3. table' \in [Slots -> Addrs \cup {Null}]
    BY <1>15 DEF AddSet, TypeOK
  <2>4. table_entries' \in 0 .. Wrap - 1
    BY <1>15, <1>0 DEF AddSet, TypeOK
  <2> HIDE DEF e
  <2> QED
    BY <1>15, <2>2, <2>3, <2>4
       DEF AddSet, At, Return, TypeOK, LocalsOK, Labels, NeedKey, NeedEnt
<1>16. ASSUME NEW p \in Procs,
              ResetCall(p) \/ ResetWaited(p) \/ ResetCheck(p)
       PROVE  TypeInv'
  BY <1>16 DEF ResetCall, ResetWaited, ResetCheck, At, Goto, shared,
               TypeOK, LocalsOK, Labels, NeedKey, NeedEnt
<1>17. ASSUME NEW p \in Procs, ResetBegin(p) \/ ResetLock(p) \/ ResetUnlock(p) PROVE TypeInv'
  BY <1>17 DEF ResetBegin, ResetLock, ResetUnlock, At, Goto, Return, TypeOK, LocalsOK, Labels, NeedKey, NeedEnt
<1>18. ASSUME NEW p \in Procs, ResetClear(p) PROVE TypeInv'
  <2>1. table_entries' \in 0 .. Wrap - 1 /\ data_length' \in Addrs
    BY <1>18, AddrsNat, CacheMmapAssumption DEF ResetClear
  <2> QED
    BY <1>18, <2>1 DEF ResetClear, At, Goto, TypeOK, LocalsOK, Labels, NeedKey, NeedEnt
<1>19. ASSUME NEW p \in Procs, ResetEnd(p) PROVE TypeInv'
  BY <1>19 DEF ResetEnd, At, Return, TypeOK, LocalsOK, Labels, NeedKey, NeedEnt
<1>20. ASSUME NEW p \in Procs, LockThrows(p) PROVE TypeInv'
  BY <1>20 DEF LockThrows, At, Return, shared, TypeOK, LocalsOK, Labels, NeedKey, NeedEnt
<1> QED
  BY <1>1, <1>2, <1>3, <1>4, <1>5, <1>6, <1>7, <1>8, <1>9, <1>10, <1>11, <1>12, <1>13,
     <1>14, <1>15, <1>16, <1>17, <1>18, <1>19, <1>20 DEF Next, Step, Call

(* The segment and every process's locals keep their types: the bump       *)
(* pointer stays inside the segment whatever is appended to it.            *)
THEOREM TypeCorrect == Spec => []TypeOK
<1>1. Spec => []TypeInv
  BY InitType, NextType, PTL DEF Spec
<1>2. TypeInv => TypeOK
  BY DEF TypeInv
<1> QED
  BY <1>1, <1>2, PTL

----------------------------------------------------------------------------
(* Intact, as an operator of the segment m with bump pointer len.          *)
Whole(m, len, a, k) ==
    /\ m[a].kind = "entry"
    /\ a < len /\ m[a].key < len /\ m[a].data < len
    /\ m[m[a].key] = KeyCell(k)
    /\ m[m[a].data] = ModuleCell(k)

(* Intact, as a predicate over the memory and its length.                  *)
LEMMA IntactWhole == \A a, k : Intact(a, k) <=> Whole(mem, data_length, a, k)
  BY DEF Intact, Whole, EntryAt, KeyOf, ModuleOf

(* An entry stays whole while the segment only grows.                      *)
LEMMA WholeKept ==
    ASSUME NEW m \in [Addrs -> Cells], NEW m2 \in [Addrs -> Cells],
           NEW len \in Addrs, NEW len2 \in Addrs, len <= len2,
           \A x \in Addrs : x < len => m2[x] = m[x],
           NEW a \in Addrs, NEW k, Whole(m, len, a, k)
    PROVE  Whole(m2, len2, a, k) /\ m2[a] = m[a]
<1>1. m[a].key \in Addrs /\ m[a].data \in Addrs
  BY EntryFields DEF Whole
<1>2. m2[a] = m[a] /\ m2[m[a].key] = m[m[a].key] /\ m2[m[a].data] = m[m[a].data]
  BY <1>1 DEF Whole
<1>3. a < len2 /\ m[a].key < len2 /\ m[a].data < len2
  BY <1>1, AddrsNat DEF Whole
<1> QED
  BY <1>2, <1>3 DEF Whole

(* What a process that no reset disturbed relies on.                       *)
ReadOK(m, len, here, e, d, k) ==
    /\ here = "find_key" => \E j \in Keys : Whole(m, len, e, j)
    /\ here \in {"find_module", "find_ref", "find_lock", "find_unset", "exec"}
         => Whole(m, len, e, k)
    /\ here \in {"find_ref", "find_lock", "find_unset", "exec"} => d = m[e].data

(* UndisturbedReads, as a predicate over the locals of one process.        *)
LEMMA UndisturbedReadOK ==
    UndisturbedReads <=>
        \A p \in Procs : ~disturbed[p] => ReadOK(mem, data_length, pc[p], ent[p], mod[p], key[p])
  BY IntactWhole DEF UndisturbedReads, ReadOK

(* What a reader holds stays whole as long as the segment only grows.      *)
LEMMA ReadKept ==
    ASSUME NEW m \in [Addrs -> Cells], NEW m2 \in [Addrs -> Cells],
           NEW len \in Addrs, NEW len2 \in Addrs, len <= len2,
           \A x \in Addrs : x < len => m2[x] = m[x],
           NEW here, NEW e, NEW d, NEW k, here \in NeedEnt => e \in Addrs,
           ReadOK(m, len, here, e, d, k)
    PROVE  ReadOK(m2, len2, here, e, d, k)
<1>1. CASE here = "find_key"
  BY <1>1, WholeKept DEF ReadOK, NeedEnt
<1>2. CASE here \in {"find_module", "find_ref", "find_lock", "find_unset", "exec"}
  <2>1. Whole(m2, len2, e, k) /\ m2[e] = m[e]
    BY <1>2, WholeKept DEF ReadOK, NeedEnt
  <2> QED
    BY <1>2, <2>1 DEF ReadOK
<1> QED
  BY <1>1, <1>2 DEF ReadOK

----------------------------------------------------------------------------
(* Every step keeps the lock with the process that changes the segment.    *)
LEMMA NextLock == TypeInv /\ LockDiscipline /\ [Next]_vars => LockDiscipline'
<1> SUFFICES ASSUME TypeInv, LockDiscipline, [Next]_vars
             PROVE  LockDiscipline'
  OBVIOUS
<1> USE CacheMmapAssumption DEF TypeInv, TypeOK, LockDiscipline, Critical, At, Goto, Return, shared,
                                  Abandon, Throw, Unlock
<1>1. CASE UNCHANGED vars
  BY <1>1 DEF vars
<1>2. ASSUME NEW p \in Procs, Call(p) \/ Release(p) PROVE LockDiscipline'
  BY <1>2 DEF Call, ResetCall, FindBegin, Release
<1>3. ASSUME NEW p \in Procs,
             FindEntry(p) \/ FindKey(p) \/ FindModule(p) \/ FindJunk(p) \/ FindRef(p)
      PROVE  LockDiscipline'
  BY <1>3 DEF FindEntry, FindKey, FindModule, FindJunk, FindRef
<1>4. ASSUME NEW p \in Procs, FindUnsetLock(p) \/ FindUnset(p) PROVE LockDiscipline'
  BY <1>4 DEF FindUnsetLock, FindUnset
<1>5. ASSUME NEW p \in Procs, AddBegin(p) \/ AddLock(p) \/ AddCollision(p) PROVE LockDiscipline'
  BY <1>5 DEF AddBegin, AddLock, AddCollision
<1>6. ASSUME NEW p \in Procs, AddCopy(p) PROVE LockDiscipline'
  <2>1. pc[p] = "add_copy" /\ write_lock = p
    BY <1>6 DEF AddCopy
  <2>2. \/ /\ pc' = [pc EXCEPT ![p] = "add_set"]
           /\ UNCHANGED <<write_lock, abandoned>>
        \/ /\ pc' = [pc EXCEPT ![p] = "reset_begin"]
           /\ write_lock' = Null /\ UNCHANGED abandoned
        \/ /\ pc' = [pc EXCEPT ![p] = "idle"]
           /\ write_lock' = write_lock /\ abandoned' = p
    BY <1>6 DEF AddCopy
  <2> QED
    BY <2>1, <2>2
<1>7. ASSUME NEW p \in Procs, AddSet(p) PROVE LockDiscipline'
  BY <1>7 DEF AddSet
<1>8. ASSUME NEW p \in Procs,
             ResetBegin(p) \/ ResetWaited(p) \/ ResetCheck(p) \/ ResetLock(p)
               \/ ResetClear(p) \/ ResetUnlock(p) \/ ResetEnd(p)
      PROVE  LockDiscipline'
  BY <1>8 DEF ResetBegin, ResetWaited, ResetCheck, ResetLock, ResetClear, ResetUnlock, ResetEnd
<1>9. ASSUME NEW p \in Procs, LockThrows(p) PROVE LockDiscipline'
  BY <1>9 DEF LockThrows
<1> QED
  BY <1>1, <1>2, <1>3, <1>4, <1>5, <1>6, <1>7, <1>8, <1>9 DEF Next, Step

----------------------------------------------------------------------------
(* The three statements about the segment, kept by steps that only move    *)
(* one process and leave table and segment alone.                          *)
Segment == PublishedIntact /\ UndisturbedReads /\ Copied

Still == UNCHANGED <<table, mem, data_length>>

(* The segment only grows: nothing below the bump pointer is written.      *)
Grows ==
    /\ data_length <= data_length'
    /\ \A x \in Addrs : x < data_length => mem'[x] = mem[x]

(* Only p moves.                                                           *)
Moves(p) ==
    \A q \in Procs \ {p} : /\ pc'[q] = pc[q] /\ key'[q] = key[q] /\ ent'[q] = ent[q]
                           /\ mod'[q] = mod[q] /\ disturbed'[q] = disturbed[q]

(* A step of p that keeps what is below the bump pointer needs a proof     *)
(* only for p itself and for the slots it changes.                         *)
LEMMA SegmentStep ==
    ASSUME TypeInv, TypeInv', Segment, Grows, NEW p \in Procs, Moves(p),
           \A s \in Slots : table'[s] # table[s] /\ table'[s] # Null =>
               \E k \in Keys : Slot[k] = s /\ Whole(mem', data_length', table'[s], k),
           ~disturbed'[p] => ReadOK(mem', data_length', pc'[p], ent'[p], mod'[p], key'[p]),
           pc'[p] = "add_set" =>
               /\ mod'[p] < data_length'
               /\ mem'[mod'[p]] = ModuleCell(key'[p])
               /\ mem'[mod'[p] - KeySize[key'[p]]] = KeyCell(key'[p])
    PROVE  Segment'
<1>0. /\ mem \in [Addrs -> Cells] /\ mem' \in [Addrs -> Cells]
      /\ data_length \in Addrs /\ data_length' \in Addrs
      /\ table \in [Slots -> Addrs \cup {Null}]
  BY DEF TypeInv, TypeOK
<1>1. PublishedIntact'
  <2> SUFFICES ASSUME NEW s \in Slots, table'[s] # Null
               PROVE  \E k \in Keys : Slot[k] = s /\ Whole(mem', data_length', table'[s], k)
    BY IntactWhole DEF PublishedIntact, Intact, Whole, EntryAt, KeyOf, ModuleOf
  <2>1. CASE table'[s] # table[s]
    BY <2>1
  <2>2. CASE table'[s] = table[s]
    <3>1. PICK k \in Keys : Slot[k] = s /\ Whole(mem, data_length, table[s], k)
      BY <2>2, IntactWhole DEF Segment, PublishedIntact
    <3>2. table[s] \in Addrs
      BY <1>0, <2>2
    <3>3. Whole(mem', data_length', table[s], k)
      BY <1>0, <3>1, <3>2, WholeKept DEF Grows
    <3> QED
      BY <2>2, <3>1, <3>3
  <2> QED
    BY <2>1, <2>2
<1>2. UndisturbedReads'
  <2> SUFFICES ASSUME NEW q \in Procs, ~disturbed'[q]
               PROVE  ReadOK(mem', data_length', pc'[q], ent'[q], mod'[q], key'[q])
    BY DEF UndisturbedReads, ReadOK, Intact, Whole, EntryAt, KeyOf, ModuleOf
  <2>1. CASE q = p
    BY <2>1
  <2>2. CASE q # p
    <3>1. ReadOK(mem, data_length, pc[q], ent[q], mod[q], key[q])
      BY <2>2, UndisturbedReadOK DEF Segment, Moves
    <3>2. pc[q] \in NeedEnt => ent[q] \in Addrs
      BY DEF TypeInv, LocalsOK
    <3>3. ReadOK(mem', data_length', pc[q], ent[q], mod[q], key[q])
      BY <1>0, <3>1, <3>2, ReadKept DEF Grows
    <3> QED
      BY <2>2, <3>3 DEF Moves
  <2> QED
    BY <2>1, <2>2
<1>3. Copied'
  <2> SUFFICES ASSUME NEW q \in Procs, pc'[q] = "add_set", q # p
               PROVE  /\ mod'[q] < data_length'
                      /\ mem'[mod'[q]] = ModuleCell(key'[q])
                      /\ mem'[mod'[q] - KeySize[key'[q]]] = KeyCell(key'[q])
    BY DEF Copied
  <2>1. pc[q] = "add_set" /\ mod'[q] = mod[q] /\ key'[q] = key[q]
    BY DEF Moves
  <2>2. /\ mod[q] < data_length
        /\ mem[mod[q]] = ModuleCell(key[q])
        /\ mem[mod[q] - KeySize[key[q]]] = KeyCell(key[q])
    BY <2>1 DEF Segment, Copied
  <2>3. /\ mod[q] \in Addrs /\ mod[q] - KeySize[key[q]] \in Addrs
        /\ KeySize[key[q]] \in Nat
    BY <2>1, CacheMmapAssumption DEF TypeInv, LocalsOK, NeedKey
  <2>4. mod[q] - KeySize[key[q]] < data_length /\ mod[q] < data_length'
    BY <1>0, <2>2, <2>3, AddrsNat DEF Grows
  <2> QED
    BY <2>1, <2>2, <2>3, <2>4 DEF Grows
<1> QED
  BY <1>1, <1>2, <1>3 DEF Segment

(* Every step keeps what is published whole.                               *)
LEMMA NextSegment == Inv /\ TypeInv' /\ [Next]_vars => Segment'
<1> SUFFICES ASSUME Inv, TypeInv', [Next]_vars
             PROVE  Segment'
  OBVIOUS
<1>0. /\ mem \in [Addrs -> Cells] /\ mem' \in [Addrs -> Cells]
      /\ data_length \in Addrs /\ data_length' \in Addrs
      /\ TypeInv /\ Segment /\ LockDiscipline
  BY DEF Inv, TypeInv, TypeOK, Segment
<1>1. CASE UNCHANGED vars
  BY <1>0, <1>1 DEF vars, Segment, PublishedIntact, UndisturbedReads, Copied, Intact,
                    EntryAt, KeyOf, ModuleOf
(* Steps that leave table and segment alone.                               *)
<1>2. ASSUME NEW p \in Procs, Still, Moves(p), pc'[p] # "add_set",
             ~disturbed'[p] => ReadOK(mem, data_length, pc'[p], ent'[p], mod'[p], key'[p])
      PROVE  Segment'
  <2>1. Grows
    BY <1>0, <1>2, AddrsNat DEF Still, Grows
  <2>2. \A s \in Slots : table'[s] = table[s]
    BY <1>2 DEF Still
  <2>3. mem' = mem /\ data_length' = data_length
    BY <1>2 DEF Still
  <2> QED
    BY <1>0, <1>2, <2>1, <2>2, <2>3, SegmentStep
<1>3. ASSUME NEW p \in Procs, ~disturbed[p]
      PROVE  ReadOK(mem, data_length, pc[p], ent[p], mod[p], key[p])
  BY <1>0, <1>3, UndisturbedReadOK DEF Segment
<1> USE DEF At, Goto, Return, shared, Still, Moves, Abandon, Throw, Unlock
<1>4. ASSUME NEW p \in Procs, Call(p) \/ Release(p) PROVE Segment'
  <2>1. Still /\ Moves(p) /\ pc'[p] \notin NeedEnt /\ pc'[p] # "add_set"
    BY <1>0, <1>4 DEF Call, ResetCall, FindBegin, Release, TypeInv, TypeOK, NeedEnt
  <2> QED
    BY <2>1, <1>2 DEF ReadOK, NeedEnt
<1>5. ASSUME NEW p \in Procs, FindEntry(p) PROVE Segment'
  <2>1. Still /\ Moves(p) /\ pc'[p] \in {"missed", "find_key"}
    BY <1>0, <1>5 DEF FindEntry, TypeInv, TypeOK
  <2>2. ASSUME pc'[p] = "find_key"
        PROVE  \E j \in Keys : Whole(mem, data_length, ent'[p], j)
    <3>1. key[p] \in Keys /\ Slot[key[p]] \in Slots
      BY <1>0, <1>5, CacheMmapAssumption DEF FindEntry, TypeInv, LocalsOK, NeedKey
    <3>2. ent'[p] = table[Slot[key[p]]] /\ table[Slot[key[p]]] # Null
      BY <1>0, <1>5, <2>2 DEF FindEntry, TypeInv, TypeOK
    <3> QED
      BY <1>0, <3>1, <3>2, IntactWhole DEF Segment, PublishedIntact
  <2> QED
    BY <2>1, <2>2, <1>2 DEF ReadOK
<1>6. ASSUME NEW p \in Procs, FindKey(p) PROVE Segment'
  <2>1. /\ Still /\ Moves(p) /\ pc'[p] \in {"missed", "find_module"}
        /\ ent'[p] = ent[p] /\ key'[p] = key[p] /\ disturbed'[p] = disturbed[p]
    BY <1>0, <1>6 DEF FindKey, TypeInv, TypeOK
  <2>2. ASSUME pc'[p] = "find_module", ~disturbed[p]
        PROVE  Whole(mem, data_length, ent[p], key[p])
    <3>1. PICK j \in Keys : Whole(mem, data_length, ent[p], j)
      BY <1>3, <1>6, <2>2 DEF FindKey, ReadOK
    <3>2. KeyCell(j) = KeyCell(key[p])
      BY <1>0, <1>6, <2>2, <3>1 DEF FindKey, KeyOf, Whole, TypeInv, TypeOK
    <3>3. j = key[p]
      BY <3>2 DEF KeyCell
    <3> QED
      BY <3>1, <3>3
  <2> QED
    BY <2>1, <2>2, <1>2 DEF ReadOK
<1>7. ASSUME NEW p \in Procs, FindModule(p) PROVE Segment'
  <2>1. /\ Still /\ Moves(p) /\ pc'[p] \in {"find_ref", "find_lock"}
        /\ ent'[p] = ent[p] /\ key'[p] = key[p] /\ disturbed'[p] = disturbed[p]
        /\ mod'[p] = mem[ent[p]].data /\ pc[p] = "find_module"
    BY <1>0, <1>7 DEF FindModule, TypeInv, TypeOK
  <2> QED
    BY <2>1, <1>2, <1>3 DEF ReadOK
<1>8. ASSUME NEW p \in Procs, FindJunk(p) PROVE Segment'
  <2>1. /\ Still /\ Moves(p) /\ pc'[p] \in {"crashed", "missed", "find_lock"}
        /\ disturbed'[p] = disturbed[p]
    BY <1>0, <1>8 DEF FindJunk, TypeInv, TypeOK
  <2>2. disturbed[p] \/ pc'[p] # "find_lock"
    <3> SUFFICES ASSUME ~disturbed[p], pc'[p] = "find_lock" PROVE FALSE
      OBVIOUS
    <3>1. pc[p] = "find_module" /\ ~ModuleReadable(ent[p])
      BY <1>0, <1>8 DEF FindJunk, TypeInv, TypeOK
    <3>2. Whole(mem, data_length, ent[p], key[p])
      BY <1>3, <3>1 DEF ReadOK
    <3> QED
      BY <3>1, <3>2 DEF ModuleReadable, EntryAt, ModuleOf, Whole, ModuleCell
  <2> QED
    BY <2>1, <2>2, <1>2 DEF ReadOK
<1>9. ASSUME NEW p \in Procs, FindRef(p) \/ FindUnsetLock(p) PROVE Segment'
  <2>1. /\ Still /\ Moves(p) /\ pc[p] \in {"find_ref", "find_lock"}
        /\ \/ /\ pc'[p] \in {"exec", "find_unset"} /\ mod'[p] = mod[p]
              /\ ent'[p] = ent[p] /\ key'[p] = key[p] /\ disturbed'[p] = disturbed[p]
           \/ pc'[p] = "idle"
    BY <1>0, <1>9 DEF FindRef, FindUnsetLock, TypeInv, TypeOK
  <2> QED
    BY <2>1, <1>2, <1>3 DEF ReadOK
<1>10. ASSUME NEW p \in Procs, FindUnset(p) PROVE Segment'
  <2>1. /\ Moves(p) /\ pc[p] = "find_unset"
        /\ \/ /\ pc'[p] = "exec" /\ mod'[p] = mod[p]
              /\ ent'[p] = ent[p] /\ key'[p] = key[p] /\ disturbed'[p] = disturbed[p]
           \/ pc'[p] = "idle"
        /\ mem' = mem /\ data_length' = data_length
    BY <1>0, <1>10 DEF FindUnset, TypeInv, TypeOK
  <2>2. Grows
    BY <1>0, <2>1, AddrsNat DEF Grows
  <2>3. \A s \in Slots : table'[s] # table[s] => table'[s] = Null
    BY <1>0, <1>10 DEF FindUnset, TypeInv, TypeOK
  <2>4. ~disturbed'[p] => ReadOK(mem', data_length', pc'[p], ent'[p], mod'[p], key'[p])
    BY <2>1, <1>3 DEF ReadOK
  <2> QED
    BY <1>0, <2>1, <2>2, <2>3, <2>4, SegmentStep
<1>11. ASSUME NEW p \in Procs, AddBegin(p) \/ AddLock(p) \/ AddCollision(p) PROVE Segment'
  <2>1. Still /\ Moves(p) /\ pc'[p] \in {"idle", "add_lock", "add_copy"}
    BY <1>0, <1>11 DEF AddBegin, AddLock, AddCollision, TypeInv, TypeOK
  <2> QED
    BY <2>1, <1>2 DEF ReadOK
<1>14. ASSUME NEW p \in Procs,
              ResetBegin(p) \/ ResetWaited(p) \/ ResetCheck(p) \/ ResetLock(p)
                \/ ResetUnlock(p) \/ ResetEnd(p) \/ LockThrows(p)
       PROVE  Segment'
  <2>1. /\ Still /\ Moves(p)
        /\ pc'[p] \in {"idle", "reset_wait", "reset_check", "reset_lock", "reset_clear", "reset_end"}
    BY <1>0, <1>14 DEF ResetBegin, ResetWaited, ResetCheck, ResetLock, ResetUnlock, ResetEnd,
                       LockThrows, TypeInv, TypeOK
  <2> QED
    BY <2>1, <1>2 DEF ReadOK
(* Steps that write the segment.                                           *)
<1>12. ASSUME NEW p \in Procs, AddCopy(p) PROVE Segment'
  <2> DEFINE k       == key[p]
             keyFits == Fits(data_length, KeySize[k])
             mem1    == IF keyFits THEN Write(mem, data_length, KeyCell(k), KeySize[k]) ELSE mem
             len1    == IF keyFits THEN data_length + KeySize[k] ELSE data_length
             modFits == Fits(len1, ModSize[k])
  <2>1. k \in Keys /\ KeySize[k] \in Nat \ {0} /\ ModSize[k] \in Nat \ {0}
    BY <1>0, <1>12, CacheMmapAssumption DEF AddCopy, TypeInv, LocalsOK, NeedKey
  <2>2. /\ mem1 \in [Addrs -> Cells] /\ len1 \in Addrs /\ data_length <= len1
        /\ \A x \in Addrs : x < data_length => mem1[x] = mem[x]
        /\ keyFits => mem1[data_length] = KeyCell(k) /\ data_length < len1
                      /\ len1 - KeySize[k] = data_length
    <3>1. KeyCell(k) \in Cells
      BY <2>1, CellsMember
    <3>2. /\ mem1 = IF Fits(data_length, KeySize[k])
                    THEN Write(mem, data_length, KeyCell(k), KeySize[k]) ELSE mem
          /\ len1 = IF Fits(data_length, KeySize[k]) THEN data_length + KeySize[k]
                    ELSE data_length
      OBVIOUS
    <3>3. mem \in [Addrs -> Cells] /\ data_length \in Addrs /\ KeySize[k] \in Nat \ {0}
      BY <1>0, <2>1
    <3> HIDE DEF mem1, len1, k
    <3>4. /\ mem1 \in [Addrs -> Cells] /\ len1 \in Addrs /\ data_length <= len1
          /\ \A x \in Addrs : x < data_length => mem1[x] = mem[x]
          /\ Fits(data_length, KeySize[k]) =>
                mem1[data_length] = KeyCell(k) /\ data_length < len1
                  /\ len1 - KeySize[k] = data_length
      BY ONLY <3>1, <3>2, <3>3, Appended
    <3> QED
      BY <3>4
  <2>3. /\ mem' = IF modFits THEN Write(mem1, len1, ModuleCell(k), ModSize[k]) ELSE mem1
        /\ data_length' = IF modFits THEN len1 + ModSize[k] ELSE len1
    BY <1>12 DEF AddCopy
  <2>4. /\ len1 <= data_length'
        /\ \A x \in Addrs : x < len1 => mem'[x] = mem1[x]
        /\ modFits => mem'[len1] = ModuleCell(k) /\ len1 < data_length'
    <3>1. ModuleCell(k) \in Cells
      BY <2>1, CellsMember
    <3>2. mem1 \in [Addrs -> Cells] /\ len1 \in Addrs /\ ModSize[k] \in Nat \ {0}
      BY <2>1, <2>2
    <3>3. /\ mem' = IF Fits(len1, ModSize[k])
                   THEN Write(mem1, len1, ModuleCell(k), ModSize[k]) ELSE mem1
          /\ data_length' = IF Fits(len1, ModSize[k]) THEN len1 + ModSize[k] ELSE len1
      BY <2>3
    <3> HIDE DEF mem1, len1, k
    <3>4. /\ len1 <= data_length'
          /\ \A x \in Addrs : x < len1 => mem'[x] = mem1[x]
          /\ Fits(len1, ModSize[k]) => mem'[len1] = ModuleCell(k) /\ len1 < data_length'
      BY ONLY <3>1, <3>2, <3>3, Appended
    <3> QED
      BY <3>4
  <2>5. /\ Moves(p) /\ pc'[p] \in {"add_set", "reset_begin", "idle"} /\ UNCHANGED table
        /\ pc'[p] = "add_set" => keyFits /\ modFits /\ mod'[p] = len1 /\ key'[p] = k
    BY <1>0, <1>12 DEF AddCopy, TypeInv, TypeOK
  <2> HIDE DEF keyFits, mem1, len1, modFits, k
  <2>6. Grows
    BY <1>0, <2>2, <2>4, AddrsNat DEF Grows
  <2>7. pc'[p] = "add_set" =>
           /\ mod'[p] < data_length'
           /\ mem'[mod'[p]] = ModuleCell(key'[p])
           /\ mem'[mod'[p] - KeySize[key'[p]]] = KeyCell(key'[p])
    BY <1>0, <2>1, <2>2, <2>4, <2>5
  <2>8. ReadOK(mem', data_length', pc'[p], ent'[p], mod'[p], key'[p])
    BY <2>5 DEF ReadOK
  <2>9. \A s \in Slots : table'[s] = table[s]
    BY <2>5
  <2> QED
    BY <1>0, <2>5, <2>6, <2>7, <2>8, <2>9, SegmentStep
<1>13. ASSUME NEW p \in Procs, AddSet(p) PROVE Segment'
  <2> DEFINE k == key[p]
             d == mod[p]
             e == EntryCell(d - KeySize[k], d)
  <2>1. /\ k \in Keys /\ d \in Addrs /\ d - KeySize[k] \in Addrs /\ KeySize[k] \in Nat \ {0}
        /\ e \in Cells
    BY <1>0, <1>13, CellsMember, CacheMmapAssumption
       DEF AddSet, TypeInv, LocalsOK, NeedKey
  <2>2. d < data_length /\ mem[d] = ModuleCell(k) /\ mem[d - KeySize[k]] = KeyCell(k)
    BY <1>0, <1>13 DEF AddSet, Segment, Copied
  <2>3. /\ Moves(p) /\ pc'[p] = "idle"
        /\ table' = [table EXCEPT ![Slot[k]] =
                        IF Fits(data_length, 1) THEN data_length ELSE Null]
    BY <1>0, <1>13 DEF AddSet, TypeInv, TypeOK
  <2>4. Grows /\ (Fits(data_length, 1) => mem'[data_length] = e /\ data_length < data_length')
    <3>1. /\ mem' = IF Fits(data_length, 1) THEN Write(mem, data_length, e, 1) ELSE mem
          /\ data_length' = IF Fits(data_length, 1) THEN data_length + 1 ELSE data_length
      BY <1>13 DEF AddSet
    <3>2. mem \in [Addrs -> Cells] /\ data_length \in Addrs /\ e \in Cells /\ 1 \in Nat \ {0}
      BY <1>0, <2>1
    <3> HIDE DEF e
    <3>3. /\ data_length <= data_length'
          /\ \A x \in Addrs : x < data_length => mem'[x] = mem[x]
          /\ Fits(data_length, 1) => mem'[data_length] = e /\ data_length < data_length'
      BY ONLY <3>1, <3>2, Appended
    <3> QED
      BY <3>3 DEF Grows
  <2>5. Fits(data_length, 1) => Whole(mem', data_length', data_length, k)
    <3> SUFFICES ASSUME Fits(data_length, 1)
                 PROVE  Whole(mem', data_length', data_length, k)
      OBVIOUS
    <3>1. mem'[data_length].kind = "entry" /\ mem'[data_length].key = d - KeySize[k]
          /\ mem'[data_length].data = d
      BY <2>4 DEF EntryCell
    <3>2. d - KeySize[k] < data_length
      BY <1>0, <2>1, <2>2, AddrsNat
    <3>3. mem'[d] = mem[d] /\ mem'[d - KeySize[k]] = mem[d - KeySize[k]]
      BY <2>1, <2>2, <2>4, <3>2 DEF Grows
    <3>4. d < data_length' /\ d - KeySize[k] < data_length' /\ data_length < data_length'
      BY <1>0, <2>1, <2>2, <2>4, <3>2, AddrsNat
    <3> HIDE DEF e, d, k
    <3> QED
      BY <2>2, <3>1, <3>3, <3>4 DEF Whole
  <2> HIDE DEF e, d
  <2>6. \A s \in Slots : table'[s] # table[s] /\ table'[s] # Null =>
           \E j \in Keys : Slot[j] = s /\ Whole(mem', data_length', table'[s], j)
    BY <1>0, <2>1, <2>3, <2>5 DEF TypeInv, TypeOK
  <2>7. ReadOK(mem', data_length', pc'[p], ent'[p], mod'[p], key'[p])
    BY <2>3 DEF ReadOK
  <2> QED
    BY <1>0, <2>3, <2>4, <2>6, <2>7, SegmentStep
<1>15. ASSUME NEW p \in Procs, ResetClear(p) PROVE Segment'
  <2>1. PublishedIntact'
    BY <1>15 DEF ResetClear, PublishedIntact
  <2>2. \A q \in Procs : pc'[q] \in Reading => disturbed'[q]
    BY <1>0, <1>15 DEF ResetClear, Reading, TypeInv, TypeOK
  <2>3. UndisturbedReads'
    BY <2>2 DEF UndisturbedReads, Reading
  <2>4. \A q \in Procs : pc'[q] # "add_set"
    BY <1>0, <1>15 DEF ResetClear, LockDiscipline, Critical, TypeInv, TypeOK
  <2> QED
    BY <2>1, <2>3, <2>4 DEF Segment, Copied
<1> QED
  BY <1>1, <1>4, <1>5, <1>6, <1>7, <1>8, <1>9, <1>10, <1>11, <1>12, <1>13, <1>14, <1>15
     DEF Next, Step

----------------------------------------------------------------------------
(* The invariant holds at the start.                                       *)
LEMMA InitInv == Init => Inv
<1> SUFFICES ASSUME Init PROVE Inv
  OBVIOUS
<1>1. LockDiscipline
  BY CacheMmapAssumption DEF Init, LockDiscipline, Critical
<1>2. Segment
  BY DEF Init, Segment, PublishedIntact, UndisturbedReads, Copied
<1> QED
  BY <1>1, <1>2, InitType DEF Inv, Segment

(* It holds in every state.                                                *)
LEMMA SpecInv == Spec => []Inv
<1>1. Inv /\ [Next]_vars => Inv'
  BY NextType, NextLock, NextSegment DEF Inv, Segment
<1> QED
  BY <1>1, InitInv, PTL DEF Spec

(* However many processes share the segment, the one that changes it is    *)
(* the one that holds the write lock; every path gives it back but those   *)
(* where mprotect or the unlock fails, and after one of these nobody       *)
(* changes the segment again.                                              *)
THEOREM LockHeldByWriter == Spec => []LockDiscipline
<1>1. Inv => LockDiscipline
  BY DEF Inv
<1> QED
  BY <1>1, SpecInv, PTL

(* A pointer published in the table always leads to the whole entry, key   *)
(* and module of a template of that slot.                                  *)
THEOREM TableIntact == Spec => []PublishedIntact
<1>1. Inv => PublishedIntact
  BY DEF Inv
<1> QED
  BY <1>1, SpecInv, PTL

(* A lock-free reader that no reset overtakes reads and executes the       *)
(* module of the template it asked for, whatever is added or expires.      *)
THEOREM LockFreeReadsSafe == Spec => []UndisturbedReads
<1>1. Inv => UndisturbedReads
  BY DEF Inv
<1> QED
  BY <1>1, SpecInv, PTL

----------------------------------------------------------------------------
(* Without a max_age, and before a reset has overtaken a reader, nobody is *)
(* on the expiry path of cache_find.                                       *)
NoExpiry == ~MaxAgeOn /\ ~junk => \A p \in Procs : pc[p] \notin {"find_lock", "find_unset"}

Counted == TypeInv /\ NoExpiry /\ RefcountExact

(* How the number of executing processes changes when one of them moves.   *)
LEMMA ExecutingChanges ==
    ASSUME TypeOK, NEW p \in Procs, NEW there \in Labels,
           pc' = [pc EXCEPT ![p] = there]
    PROVE  /\ pc[p] # "exec" /\ there = "exec" =>
                Cardinality(Executing') = Cardinality(Executing) + 1
           /\ pc[p] = "exec" /\ there # "exec" =>
                Cardinality(Executing') = Cardinality(Executing) - 1
           /\ pc[p] # "exec" /\ there # "exec" =>
                Cardinality(Executing') = Cardinality(Executing)
<1>1. IsFiniteSet(Executing)
  BY FS_Subset, CacheMmapAssumption DEF Executing
<1>2. pc[p] # "exec" /\ there = "exec" => Executing' = Executing \cup {p} /\ p \notin Executing
  BY DEF Executing, TypeOK
<1>3. pc[p] = "exec" /\ there # "exec" => Executing' = Executing \ {p} /\ p \in Executing
  BY DEF Executing, TypeOK
<1>4. pc[p] # "exec" /\ there # "exec" => Executing' = Executing
  BY DEF Executing, TypeOK
<1> QED
  BY <1>1, <1>2, <1>3, <1>4, FS_AddElement, FS_RemoveElement

(* Every step keeps refcount at that number.                               *)
LEMMA NextCounted == Counted /\ TypeInv' /\ [Next]_vars => Counted'
<1> SUFFICES ASSUME Counted, TypeInv', [Next]_vars
             PROVE  NoExpiry' /\ RefcountExact'
  BY DEF Counted
<1>0. TypeOK /\ NoExpiry /\ RefcountExact
  BY DEF Counted, TypeInv
<1>1. CASE UNCHANGED vars
  BY <1>0, <1>1 DEF vars, NoExpiry, RefcountExact, Executing
(* Steps that neither enter nor leave the execution of a module.           *)
<1>2. ASSUME NEW p \in Procs, NEW there \in Labels \ {"exec", "find_lock", "find_unset"},
             pc[p] # "exec", pc' = [pc EXCEPT ![p] = there],
             UNCHANGED refcount, junk => junk'
      PROVE  NoExpiry' /\ RefcountExact'
  BY <1>0, <1>2, ExecutingChanges DEF NoExpiry, RefcountExact, TypeOK
<1> USE DEF At, Goto, Return, shared, Labels, Abandon, Throw, Unlock
<1>3. ASSUME NEW p \in Procs, Call(p) PROVE NoExpiry' /\ RefcountExact'
  BY <1>2, <1>3 DEF Call, ResetCall, FindBegin
<1>4. ASSUME NEW p \in Procs, FindEntry(p) \/ FindKey(p) PROVE NoExpiry' /\ RefcountExact'
  BY <1>2, <1>4 DEF FindEntry, FindKey
<1>5. ASSUME NEW p \in Procs, FindModule(p) PROVE NoExpiry' /\ RefcountExact'
  <2>1. CASE pc' = [pc EXCEPT ![p] = "find_ref"]
    BY <2>1, <1>2, <1>5 DEF FindModule
  <2>2. CASE MaxAgeOn
    BY <2>2 DEF NoExpiry, RefcountExact
  <2> QED
    BY <1>5, <2>1, <2>2 DEF FindModule
<1>6. ASSUME NEW p \in Procs, FindJunk(p) PROVE NoExpiry' /\ RefcountExact'
  BY <1>6 DEF FindJunk, NoExpiry, RefcountExact
<1>7. ASSUME NEW p \in Procs, FindRef(p) PROVE NoExpiry' /\ RefcountExact'
  <2>1. pc[p] = "find_ref" /\ pc' = [pc EXCEPT ![p] = "exec"] /\ refcount' = refcount + 1 /\ junk' = junk
    BY <1>7 DEF FindRef
  <2>2. Cardinality(Executing') = Cardinality(Executing) + 1
    BY <1>0, <2>1, ExecutingChanges
  <2> QED
    BY <1>0, <2>1, <2>2 DEF NoExpiry, RefcountExact, TypeOK
<1>8. ASSUME NEW p \in Procs, FindUnsetLock(p) \/ FindUnset(p) PROVE NoExpiry' /\ RefcountExact'
  <2>1. pc[p] \in {"find_lock", "find_unset"} /\ junk' = junk
    BY <1>8 DEF FindUnsetLock, FindUnset
  <2> QED
    BY <1>0, <2>1 DEF NoExpiry, RefcountExact
<1>9. ASSUME NEW p \in Procs, Release(p) PROVE NoExpiry' /\ RefcountExact'
  <2>1. pc[p] = "exec" /\ pc' = [pc EXCEPT ![p] = "idle"] /\ refcount' = refcount - 1 /\ junk' = junk
    BY <1>9 DEF Release
  <2>2. Cardinality(Executing') = Cardinality(Executing) - 1
    BY <1>0, <2>1, ExecutingChanges
  <2> QED
    BY <1>0, <2>1, <2>2 DEF NoExpiry, RefcountExact, TypeOK
<1>10. ASSUME NEW p \in Procs, AddBegin(p) \/ AddLock(p) \/ AddCollision(p)
       PROVE  NoExpiry' /\ RefcountExact'
  BY <1>2, <1>10 DEF AddBegin, AddLock, AddCollision
<1>11. ASSUME NEW p \in Procs, AddCopy(p) PROVE NoExpiry' /\ RefcountExact'
  <2>1. /\ pc[p] = "add_copy" /\ refcount' = refcount /\ junk' = junk
        /\ \/ pc' = [pc EXCEPT ![p] = "add_set"]
           \/ pc' = [pc EXCEPT ![p] = "reset_begin"]
           \/ pc' = [pc EXCEPT ![p] = "idle"]
    BY <1>11 DEF AddCopy
  <2> QED
    BY <1>2, <2>1
<1>12. ASSUME NEW p \in Procs, AddSet(p) PROVE NoExpiry' /\ RefcountExact'
  BY <1>2, <1>12 DEF AddSet
<1>13. ASSUME NEW p \in Procs,
              ResetBegin(p) \/ ResetWaited(p) \/ ResetCheck(p) \/ ResetLock(p)
                \/ ResetClear(p) \/ ResetUnlock(p) \/ ResetEnd(p)
       PROVE  NoExpiry' /\ RefcountExact'
  BY <1>2, <1>13 DEF ResetBegin, ResetWaited, ResetCheck, ResetLock, ResetClear, ResetUnlock,
                     ResetEnd
<1>14. ASSUME NEW p \in Procs, LockThrows(p) PROVE NoExpiry' /\ RefcountExact'
  <2>1. CASE pc[p] \in {"add_lock", "reset_lock"}
    BY <1>2, <1>14, <2>1 DEF LockThrows
  <2>2. CASE pc[p] = "find_lock"
    BY <1>0, <1>14, <2>2 DEF LockThrows, NoExpiry, RefcountExact
  <2> QED
    BY <1>14, <2>1, <2>2 DEF LockThrows
<1> QED
  BY <1>1, <1>3, <1>4, <1>5, <1>6, <1>7, <1>8, <1>9, <1>10, <1>11, <1>12, <1>13,
     <1>14 DEF Next, Step

(* Without a max_age, and until a reset overtakes a reader, refcount is    *)
(* the number of processes that execute a cached module.                   *)
THEOREM RefcountCounts == Spec => []RefcountExact
<1>1. Init => Counted
  <2>1. ASSUME Init PROVE NoExpiry
    BY <2>1 DEF Init, NoExpiry
  <2>2. ASSUME Init PROVE RefcountExact
    <3>1. Executing = {}
      BY <2>2 DEF Init, Executing
    <3> QED
      BY <2>2, <3>1, FS_EmptySet DEF Init, RefcountExact
  <2> QED
    BY <2>1, <2>2, InitType DEF Counted
<1>2. Counted /\ [Next]_vars => Counted'
  <2>1. Counted => TypeInv
    BY DEF Counted
  <2> QED
    BY <2>1, NextType, NextCounted
<1>3. Counted => RefcountExact
  BY DEF Counted
<1> QED
  BY <1>1, <1>2, <1>3, PTL DEF Spec
============================================================================
