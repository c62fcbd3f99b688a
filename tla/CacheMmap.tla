----------------------------- MODULE CacheMmap -----------------------------
(***************************************************************************)
(* The shared-memory opcode cache (src/handlebars_cache_mmap.c): a fixed   *)
(* hash table over a bump-allocated data segment, in one anonymous mapping *)
(* shared by worker processes that take no lock to look a template up.     *)
(*                                                                         *)
(* The data segment is modelled in units of the alignment.  A table entry  *)
(* takes one unit, the key string k KeySize[k] and its module ModSize[k].  *)
(* cache_reset forgets the segment by setting data_length to 0 and leaves  *)
(* its bytes as they are, so a process that still holds an address goes on *)
(* reading the old object until a later cache_add writes over it.          *)
(*                                                                         *)
(* A step makes the reads and writes of the code between two points where  *)
(* another process can matter.  Memory is sequentially consistent.  The    *)
(* statistics hits, misses and collisions are left out.                    *)
(***************************************************************************)
EXTENDS Integers, FiniteSets

CONSTANTS
    Procs,      \* worker processes sharing the mapping
    Keys,       \* templates
    Slots,      \* the table_count slots of the table
    Slot,       \* hbs_str_hash(key) % table_count
    KeySize,    \* HBS_STR_SIZE of each template, in units
    ModSize,    \* module->size of each template, in units
    DataSize,   \* data_size, in units
    MaxAgeOn,   \* cache->max_age >= 0, so that entries can be too old
    Wrap,       \* table_entries is unsigned: it wraps at Wrap (2^32 in C)
    RefFloor,   \* bound of the model: no find begins at or below it
    Null        \* the NULL pointer, or no process

ASSUME CacheMmapAssumption ==
    /\ IsFiniteSet(Procs)
    /\ Slot \in [Keys -> Slots]
    /\ KeySize \in [Keys -> Nat \ {0}]
    /\ ModSize \in [Keys -> Nat \ {0}]
    /\ DataSize \in Nat \ {0}
    /\ MaxAgeOn \in BOOLEAN
    /\ Wrap \in Nat \ {0}
    /\ RefFloor \in Int
    /\ Null \notin Procs \cup Nat \cup Keys

VARIABLES
    table,          \* intern->table: the address of an entry, or Null
    mem,            \* the data segment: what was last written at an address
    data_length,    \* intern->data_length
    table_entries,  \* intern->table_entries
    in_reset,       \* intern->in_reset
    write_lock,     \* the process that holds intern->write_lock, or Null
    refcount,       \* intern->refcount
    pc,             \* where each process is
    key,            \* the template each process works on
    ent,            \* local variable entry of cache_find, or Null
    mod,            \* the module address cache_find has read, or Null
    disturbed,      \* history: the segment was reset since this find began
    junk,           \* history: some process read memory that was reused
    abandoned,      \* history: the process whose exception left write_lock held, or Null
    cut             \* history: an exception left a reset before in_reset was cleared

shared == <<table, mem, data_length, table_entries, in_reset, write_lock, refcount>>
vars == <<table, mem, data_length, table_entries, in_reset, write_lock, refcount,
          pc, key, ent, mod, disturbed, junk, abandoned, cut>>

Addrs == 0 .. DataSize - 1

(***************************************************************************)
(* What a unit of the segment holds.  Junk is the inside of a module, or   *)
(* memory that was never written.                                          *)
(***************************************************************************)
KeyCell(k)     == [kind |-> "key", k |-> k]
ModuleCell(k)  == [kind |-> "module", k |-> k]
EntryCell(a,b) == [kind |-> "entry", key |-> a, data |-> b]
Junk           == [kind |-> "junk"]

Cells == {KeyCell(k) : k \in Keys} \cup {ModuleCell(k) : k \in Keys}
           \cup {EntryCell(a, b) : a \in Addrs, b \in Addrs} \cup {Junk}

(* Mutant: an object may fill the segment to its very end.                 *)
FitsExactly(len, size) == len + size <= DataSize

(* append(): the bump allocator refuses what would reach data_size.        *)
Fits(len, size) == len + size < DataSize

(* The segment after an object of the given size is written at address a.  *)
Write(m, a, cell, size) ==
    [x \in Addrs |-> IF x = a THEN cell
                     ELSE IF a < x /\ x < a + size THEN Junk ELSE m[x]]

(* The entry, its key string and its module read as objects of the right   *)
(* kind: what cache_find relies on when it follows an entry pointer.       *)
EntryAt(a)  == mem[a].kind = "entry"
KeyOf(a)    == mem[mem[a].key]
ModuleOf(a) == mem[mem[a].data]
KeyReadable(a)    == EntryAt(a) /\ KeyOf(a).kind = "key"
ModuleReadable(a) == EntryAt(a) /\ ModuleOf(a).kind = "module"

(* Where a process relies on what it has read from the segment.            *)
Reading == {"find_key", "find_module", "find_ref", "find_lock", "find_unset", "exec"}

At(p, here) == pc[p] = here
Goto(p, there) == pc' = [pc EXCEPT ![p] = there]

(* A call into the cache ends and its local variables go with it.          *)
Return(p) ==
    /\ pc' = [pc EXCEPT ![p] = "idle"]
    /\ key' = [key EXCEPT ![p] = Null]
    /\ ent' = [ent EXCEPT ![p] = Null]
    /\ mod' = [mod EXCEPT ![p] = Null]
    /\ disturbed' = [disturbed EXCEPT ![p] = FALSE]

(* handlebars_throw: the caller of the cache catches it; or nobody does,   *)
(* the process aborts and is at best replaced by a new one, which is idle. *)
Throw(p) == Return(p)

(* protect() or unlock() fails, and throws, between lock() and the end of  *)
(* unlock(): nobody gives the lock back any more.                          *)
Abandon(p) == abandoned' = p /\ Throw(p)

(* protect(cache, true); unlock(cache).                                    *)
Unlock == write_lock' = Null /\ UNCHANGED abandoned

----------------------------------------------------------------------------
(* handlebars_cache_mmap_ctor: an empty, initialised segment.              *)
Init ==
    /\ table = [s \in Slots |-> Null]
    /\ mem = [a \in Addrs |-> Junk]
    /\ data_length = 0
    /\ table_entries = 0
    /\ in_reset = FALSE
    /\ write_lock = Null
    /\ refcount = 0
    /\ pc = [p \in Procs |-> "idle"]
    /\ key = [p \in Procs |-> Null]
    /\ ent = [p \in Procs |-> Null]
    /\ mod = [p \in Procs |-> Null]
    /\ disturbed = [p \in Procs |-> FALSE]
    /\ junk = FALSE
    /\ abandoned = Null
    /\ cut = FALSE

----------------------------------------------------------------------------
(* cache_find                                                              *)

(* The caller looks a template up; during a reset the answer is NULL.      *)
FindBegin(p, k) ==
    /\ At(p, "idle")
    /\ refcount > RefFloor
    /\ key' = [key EXCEPT ![p] = k]
    /\ disturbed' = [disturbed EXCEPT ![p] = FALSE]
    /\ Goto(p, IF in_reset THEN "missed" ELSE "find_entry")
    /\ UNCHANGED <<shared, ent, mod, junk, abandoned, cut>>

(* table_find: the slot is read without the lock.                          *)
FindEntry(p) ==
    LET e == table[Slot[key[p]]] IN
    /\ At(p, "find_entry")
    /\ ent' = [ent EXCEPT ![p] = e]
    /\ Goto(p, IF e = Null THEN "missed" ELSE "find_key")
    /\ UNCHANGED <<shared, key, mod, disturbed, junk, abandoned, cut>>

(* Mutant: any entry of the slot is taken for the template's own.          *)
FindKeyNoCompare(p) ==
    /\ At(p, "find_key")
    /\ KeyReadable(ent[p])
    /\ Goto(p, "find_module")
    /\ UNCHANGED <<shared, key, ent, mod, disturbed, junk, abandoned, cut>>

(* The key of the entry is compared with the key asked for.                *)
FindKey(p) ==
    /\ At(p, "find_key")
    /\ KeyReadable(ent[p])
    /\ Goto(p, IF KeyOf(ent[p]) = KeyCell(key[p]) THEN "find_module" ELSE "missed")
    /\ UNCHANGED <<shared, key, ent, mod, disturbed, junk, abandoned, cut>>

(* module = entry->data, and its version and age are checked.              *)
FindModule(p) ==
    /\ At(p, "find_module")
    /\ ModuleReadable(ent[p])
    /\ mod' = [mod EXCEPT ![p] = mem[ent[p]].data]
    /\ \/ Goto(p, "find_ref")
       \/ MaxAgeOn /\ Goto(p, "find_lock")
    /\ UNCHANGED <<shared, key, ent, disturbed, junk, abandoned, cut>>

(* The entry pointer is stale and what it leads to is no longer an entry   *)
(* with a key and a module: the process faults or throws, the key does not *)
(* compare equal, or the module header has the wrong version.              *)
FindJunk(p) ==
    /\ \/ /\ At(p, "find_key")
          /\ ~KeyReadable(ent[p])
          /\ \/ Goto(p, "crashed")
             \/ Goto(p, "missed")
          /\ UNCHANGED mod
       \/ /\ At(p, "find_module")
          /\ ~ModuleReadable(ent[p])
          /\ \/ Goto(p, "crashed") /\ UNCHANGED mod
             \/ /\ \E a \in Addrs : mod' = [mod EXCEPT ![p] = a]
                /\ Goto(p, "find_lock")
    /\ junk' = TRUE
    /\ UNCHANGED <<shared, key, ent, disturbed, abandoned, cut>>

(* INCR(intern->refcount), and the module is returned.                     *)
FindRef(p) ==
    /\ At(p, "find_ref")
    /\ refcount' = refcount + 1
    /\ Goto(p, "exec")
    /\ UNCHANGED <<table, mem, data_length, table_entries, in_reset, write_lock,
                   key, ent, mod, disturbed, junk, abandoned, cut>>

(* Too old or of another version: the slot of the key is emptied under the *)
(* lock.  The module has been assigned already and is what is returned.    *)
(* protect() may throw before the slot is emptied and after.               *)
FindUnsetLock(p) ==
    /\ At(p, "find_lock")
    /\ write_lock = Null
    /\ write_lock' = p
    /\ \/ Goto(p, "find_unset") /\ UNCHANGED <<key, ent, mod, disturbed, abandoned>>
       \/ Abandon(p)
    /\ UNCHANGED <<table, mem, data_length, table_entries, in_reset, refcount, junk, cut>>

FindUnset(p) ==
    /\ At(p, "find_unset")
    /\ table' = [table EXCEPT ![Slot[key[p]]] = Null]
    /\ table_entries' = (table_entries - 1) % Wrap
    /\ \/ Unlock /\ Goto(p, "exec") /\ UNCHANGED <<key, ent, mod, disturbed>>
       \/ Abandon(p) /\ UNCHANGED write_lock
    /\ UNCHANGED <<mem, data_length, in_reset, refcount, junk, cut>>

(* Mutant: a release that does not give the reference back.                *)
ReleaseNoDecr(p) ==
    /\ At(p, "exec")
    /\ Return(p)
    /\ UNCHANGED <<shared, junk, abandoned, cut>>

(* cache_release, once the caller has executed the module it was given.    *)
Release(p) ==
    /\ At(p, "exec")
    /\ refcount' = refcount - 1
    /\ Return(p)
    /\ UNCHANGED <<table, mem, data_length, table_entries, in_reset, write_lock, junk, abandoned, cut>>

----------------------------------------------------------------------------
(* cache_add, called with the module compiled after a miss                 *)

(* Nothing is added during a reset.                                        *)
AddBegin(p) ==
    /\ At(p, "missed")
    /\ \/ in_reset /\ Return(p)
       \/ ~in_reset /\ Goto(p, "add_lock") /\ UNCHANGED <<key, ent, mod, disturbed>>
    /\ UNCHANGED <<shared, junk, abandoned, cut>>

(* lock(); protect(), which may throw with the lock held.                  *)
AddLock(p) ==
    /\ At(p, "add_lock")
    /\ write_lock = Null
    /\ write_lock' = p
    /\ \/ Goto(p, "add_copy") /\ UNCHANGED <<key, ent, mod, disturbed, abandoned>>
       \/ Abandon(p)
    /\ UNCHANGED <<table, mem, data_length, table_entries, in_reset, refcount, junk, cut>>

(* Mutant: the early exit on a collision forgets the lock.                 *)
AddCollisionNoUnlock(p) ==
    /\ At(p, "add_copy")
    /\ table[Slot[key[p]]] # Null
    /\ Return(p)
    /\ UNCHANGED <<shared, junk, abandoned, cut>>

(* The slot is taken, by this template or by another one.                  *)
AddCollision(p) ==
    /\ At(p, "add_copy")
    /\ table[Slot[key[p]]] # Null
    /\ \/ Unlock /\ Return(p)
       \/ Abandon(p) /\ UNCHANGED write_lock
    /\ UNCHANGED <<table, mem, data_length, table_entries, in_reset, refcount, junk, cut>>

(* Key and module are appended; when either does not fit, what was         *)
(* appended stays, the lock is dropped and the cache is reset.  The module *)
(* can fit where its key did not.  mod keeps the address of the module.    *)
AddCopy(p) ==
    LET k       == key[p]
        keyFits == Fits(data_length, KeySize[k])
        mem1    == IF keyFits THEN Write(mem, data_length, KeyCell(k), KeySize[k]) ELSE mem
        len1    == IF keyFits THEN data_length + KeySize[k] ELSE data_length
        modFits == Fits(len1, ModSize[k])
    IN
    /\ At(p, "add_copy")
    /\ table[Slot[k]] = Null
    /\ mem' = IF modFits THEN Write(mem1, len1, ModuleCell(k), ModSize[k]) ELSE mem1
    /\ data_length' = IF modFits THEN len1 + ModSize[k] ELSE len1
    /\ \/ /\ keyFits /\ modFits
          /\ mod' = [mod EXCEPT ![p] = len1]
          /\ Goto(p, "add_set")
          /\ UNCHANGED <<write_lock, key, ent, disturbed, abandoned>>
       \/ /\ ~(keyFits /\ modFits)
          /\ \/ Unlock /\ Goto(p, "reset_begin") /\ UNCHANGED <<key, ent, mod, disturbed>>
             \/ Abandon(p) /\ UNCHANGED write_lock
    /\ UNCHANGED <<table, table_entries, in_reset, refcount, junk, cut>>

(* table_set: the entry is appended and its address stored in the slot.    *)
(* When the entry does not fit the slot gets NULL and is counted as used.  *)
AddSet(p) ==
    LET fits == Fits(data_length, 1)
        e    == EntryCell(mod[p] - KeySize[key[p]], mod[p])
    IN
    /\ At(p, "add_set")
    /\ mem' = IF fits THEN Write(mem, data_length, e, 1) ELSE mem
    /\ data_length' = IF fits THEN data_length + 1 ELSE data_length
    /\ table' = [table EXCEPT ![Slot[key[p]]] = IF fits THEN data_length ELSE Null]
    /\ table_entries' = (table_entries + 1) % Wrap
    /\ \/ Unlock /\ Return(p)
       \/ Abandon(p) /\ UNCHANGED write_lock
    /\ UNCHANGED <<in_reset, refcount, junk, cut>>

----------------------------------------------------------------------------
(* cache_reset                                                             *)

(* A caller asks for a reset.                                              *)
ResetCall(p) ==
    /\ At(p, "idle")
    /\ Goto(p, "reset_begin")
    /\ UNCHANGED <<shared, key, ent, mod, disturbed, junk, abandoned, cut>>

ResetBegin(p) ==
    /\ At(p, "reset_begin")
    /\ in_reset' = TRUE
    /\ cut' = FALSE
    /\ Goto(p, "reset_wait")
    /\ UNCHANGED <<table, mem, data_length, table_entries, write_lock, refcount,
                   key, ent, mod, disturbed, junk, abandoned>>

(* The polling loop ends when refcount is not positive or after 100 naps;  *)
(* time is not modelled, so it may end in any state.                       *)
ResetWaited(p) ==
    /\ At(p, "reset_wait")
    /\ Goto(p, "reset_check")
    /\ UNCHANGED <<shared, key, ent, mod, disturbed, junk, abandoned, cut>>

(* Mutant: giving up returns without readmitting finds and adds.           *)
ResetCheckNoReadmit(p) ==
    /\ At(p, "reset_check")
    /\ Goto(p, IF refcount > 0 THEN "idle" ELSE "reset_lock")
    /\ UNCHANGED <<shared, key, ent, mod, disturbed, junk, abandoned, cut>>

(* The second look at refcount decides whether to give up.                 *)
ResetCheck(p) ==
    /\ At(p, "reset_check")
    /\ Goto(p, IF refcount > 0 THEN "reset_end" ELSE "reset_lock")
    /\ UNCHANGED <<shared, key, ent, mod, disturbed, junk, abandoned, cut>>

ResetLock(p) ==
    /\ At(p, "reset_lock")
    /\ write_lock = Null
    /\ write_lock' = p
    /\ \/ Goto(p, "reset_clear") /\ UNCHANGED <<key, ent, mod, disturbed, abandoned, cut>>
       \/ Abandon(p) /\ cut' = in_reset
    /\ UNCHANGED <<table, mem, data_length, table_entries, in_reset, refcount, junk>>

(* Mutant: the segment is emptied but the table keeps its pointers.        *)
ResetClearKeepTable(p) ==
    /\ At(p, "reset_clear")
    /\ table_entries' = 0
    /\ data_length' = 0
    /\ disturbed' = [q \in Procs |-> pc[q] \in Reading]
    /\ Goto(p, "reset_unlock")
    /\ UNCHANGED <<table, mem, in_reset, write_lock, refcount, key, ent, mod,
                   junk, abandoned, cut>>

(* The counters are cleared and the table is zeroed; the bytes of the data *)
(* segment stay.                                                           *)
ResetClear(p) ==
    /\ At(p, "reset_clear")
    /\ table_entries' = 0
    /\ data_length' = 0
    /\ table' = [s \in Slots |-> Null]
    /\ disturbed' = [q \in Procs |-> pc[q] \in Reading]
    /\ Goto(p, "reset_unlock")
    /\ UNCHANGED <<mem, in_reset, write_lock, refcount, key, ent, mod, junk, abandoned, cut>>

ResetUnlock(p) ==
    /\ At(p, "reset_unlock")
    /\ \/ Unlock /\ Goto(p, "reset_end") /\ UNCHANGED <<key, ent, mod, disturbed, cut>>
       \/ Abandon(p) /\ cut' = in_reset /\ UNCHANGED write_lock
    /\ UNCHANGED <<table, mem, data_length, table_entries, in_reset, refcount, junk>>

ResetEnd(p) ==
    /\ At(p, "reset_end")
    /\ in_reset' = FALSE
    /\ cut' = FALSE
    /\ Return(p)
    /\ UNCHANGED <<table, mem, data_length, table_entries, write_lock, refcount, junk, abandoned>>

----------------------------------------------------------------------------
(* lock() fails and throws; a reset ends without clearing in_reset.        *)
LockThrows(p) ==
    /\ pc[p] \in {"find_lock", "add_lock", "reset_lock"}
    /\ cut' = IF At(p, "reset_lock") THEN in_reset ELSE cut
    /\ Throw(p)
    /\ UNCHANGED <<shared, junk, abandoned>>

(* The steps of one process that the scheduler must eventually let it      *)
(* take: everything but calling the cache and executing a module.          *)
Step(p) ==
    \/ FindEntry(p) \/ FindKey(p) \/ FindModule(p) \/ FindJunk(p)
    \/ FindRef(p) \/ FindUnsetLock(p) \/ FindUnset(p)
    \/ AddBegin(p) \/ AddLock(p) \/ AddCollision(p) \/ AddCopy(p) \/ AddSet(p)
    \/ ResetBegin(p) \/ ResetWaited(p) \/ ResetCheck(p) \/ ResetLock(p)
    \/ ResetClear(p) \/ ResetUnlock(p) \/ ResetEnd(p)

Call(p) == ResetCall(p) \/ \E k \in Keys : FindBegin(p, k)

Next == \E p \in Procs : Step(p) \/ LockThrows(p) \/ Call(p) \/ Release(p)

Spec == Init /\ [][Next]_vars

(* A runnable process is eventually scheduled.  Nothing is assumed of the  *)
(* order in which a contended spin lock is granted, of how long a template *)
(* executes, of whether the cache is called again, or of system calls.     *)
FairSpec == Spec /\ \A p \in Procs : WF_vars(Step(p))

----------------------------------------------------------------------------
(* Properties                                                              *)

Labels == {"idle", "find_entry", "find_key", "find_module", "find_ref", "find_lock",
           "find_unset", "exec", "missed", "add_lock", "add_copy", "add_set",
           "reset_begin", "reset_wait", "reset_check", "reset_lock", "reset_clear",
           "reset_unlock", "reset_end", "crashed"}

(* Type invariant of the shared segment and of the processes' locals.      *)
TypeOK ==
    /\ table \in [Slots -> Addrs \cup {Null}]
    /\ mem \in [Addrs -> Cells]
    /\ data_length \in Addrs
    /\ table_entries \in 0 .. Wrap - 1
    /\ in_reset \in BOOLEAN
    /\ write_lock \in Procs \cup {Null}
    /\ refcount \in Int
    /\ pc \in [Procs -> Labels]
    /\ key \in [Procs -> Keys \cup {Null}]
    /\ ent \in [Procs -> Addrs \cup {Null}]
    /\ mod \in [Procs -> Addrs \cup {Null}]
    /\ disturbed \in [Procs -> BOOLEAN]
    /\ junk \in BOOLEAN
    /\ abandoned \in Procs \cup {Null}
    /\ cut \in BOOLEAN

(* The entry at address a is whole: entry, key and module of template k    *)
(* lie below the bump pointer and none has been written over.              *)
Intact(a, k) ==
    /\ EntryAt(a)
    /\ a < data_length /\ mem[a].key < data_length /\ mem[a].data < data_length
    /\ KeyOf(a) = KeyCell(k)
    /\ ModuleOf(a) = ModuleCell(k)

(* Whatever adds, expiries and resets interleave, a slot of the table that *)
(* is not NULL leads to the whole entry of a template of that slot: the    *)
(* lock-free reader of cache_find can follow what it finds in the table.   *)
PublishedIntact ==
    \A s \in Slots : table[s] # Null =>
        \E k \in Keys : Slot[k] = s /\ Intact(table[s], k)

(* A process that no reset has disturbed since its find began holds an     *)
(* entry and a module that are whole and of the template it asked for, at  *)
(* every later point of cache_find and for as long as it executes: adds    *)
(* and expiries of other processes never touch what it is reading.         *)
UndisturbedReads ==
    \A p \in Procs : ~disturbed[p] =>
        /\ pc[p] = "find_key" => \E k \in Keys : Intact(ent[p], k)
        /\ pc[p] \in {"find_module", "find_ref", "find_lock", "find_unset", "exec"}
             => Intact(ent[p], key[p])
        /\ pc[p] \in {"find_ref", "find_lock", "find_unset", "exec"}
             => mod[p] = mem[ent[p]].data

Critical == {"find_unset", "add_copy", "add_set", "reset_clear", "reset_unlock"}

(* The write lock is held by the process that is changing the segment, so  *)
(* nobody asks for a lock it holds (cache_add drops it before it calls     *)
(* cache_reset).  It is left held behind on one path only: when mprotect   *)
(* or the unlock fails, which throw between lock() and the end of          *)
(* unlock().  Such a process has the lock for good, wherever it is and     *)
(* whatever it calls, and nobody changes the segment any more.             *)
LockDiscipline ==
    /\ \A p \in Procs : write_lock = p <=> pc[p] \in Critical \/ abandoned = p
    /\ abandoned # Null => \A p \in Procs : pc[p] \notin Critical

Executing == {p \in Procs : pc[p] = "exec"}

(* With the default max_age of -1, and until a reset races a find, the     *)
(* refcount is the number of processes executing a cached module: every    *)
(* hit is counted once and uncounted once.                                 *)
RefcountExact == ~MaxAgeOn /\ ~junk => refcount = Cardinality(Executing)

(* What the wait for refcount in cache_reset is for: the segment is not    *)
(* cleared under a process that executes a module in it.                   *)
ExecutingUndisturbed == \A p \in Procs : pc[p] = "exec" => ~disturbed[p]

(* A reset that has begun ends and readmits finds and adds: it stops       *)
(* waiting for executing templates, and while in_reset is set no new       *)
(* process starts to compete for the lock.  Only a failing lock(),         *)
(* protect() or unlock() can prevent it: by leaving this reset, or by      *)
(* leaving some call of some process with the lock.  Without the latter a  *)
(* further reset readmits finds and adds again.                            *)
ResetEnds == in_reset ~> ~in_reset \/ cut \/ abandoned # Null
============================================================================
