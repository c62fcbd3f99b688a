------------------------------ MODULE CacheLmdb ------------------------------
(***************************************************************************)
(* The cache in an LMDB file, handlebars_cache_lmdb.c, used by             *)
(* execute_template of several processes that share the file.  LMDB itself *)
(* is external: one write transaction at a time behind a robust lock,      *)
(* readers that see the last commit, calls that may fail, a map of fixed   *)
(* size (the constructor leaves it at its default), and pages that are     *)
(* written behind the program's back (MDB_WRITEMAP and MDB_MAPASYNC), so   *)
(* that a power loss may leave damaged entries.                            *)
(***************************************************************************)
EXTENDS Integers, FiniteSets

CONSTANTS
    Procs,       \* processes that have opened the file
    Templates,   \* texts
    Long,        \* the texts longer than mdb_env_get_maxkeysize
    Hash,        \* hbs_str_hash of each text
    Versions,    \* handlebars_version() of the libraries in use
    MaxAge,      \* max_age of every process, -1 for none
    Capacity,    \* entries that fit into the map of the database
    MaxTime,     \* bound on the clock
    MaxFaults,   \* bound on failing calls, exits and power losses
    NoOne, NoModule

ASSUME LongAssumption == Long \subseteq Templates
ASSUME AgeAssumption == MaxAge \in Int
ASSUME NoOneAssumption == NoOne \notin Procs

VARIABLES
    db,          \* the committed entries: a function from keys to modules
    writer,      \* the process with the write transaction, or NoOne
    proc,        \* what each process does: [pc, tmpl, mod, since]
    version,     \* the library each process runs
    gcThrew,     \* a gc has thrown
    now, faults

vars == <<db, writer, proc, version, gcThrew, now, faults>>

Module(t, v, at) == [tmpl |-> t, version |-> v, ts |-> at, sound |-> TRUE]

Writing == {"add", "gc", "reset", "stat"}       \* waiting in mdb_txn_begin
InTxn == {"in add", "in gc", "in reset", "in stat"}
Opened(pc) ==
    CASE pc = "add" -> "in add" [] pc = "gc" -> "in gc"
      [] pc = "reset" -> "in reset" [] pc = "stat" -> "in stat"

\* The key of a text: the text with its final NUL, or "hash:" and the hash, without.
\* The hash has 32 bits: long texts may share a key.
Key(t) == IF t \in Long THEN <<"hash", Hash[t]>> ELSE <<"text", t>>

\* Long texts that hbs_str_hash does not tell apart.
Colliding(s, t) == s \in Long /\ t \in Long /\ Hash[s] = Hash[t]

Idle == [pc |-> "idle", tmpl |-> NoModule, mod |-> NoModule, since |-> 0]

Init ==
    /\ db = [k \in {} |-> NoModule]
    /\ writer = NoOne
    /\ proc = [p \in Procs |-> Idle]
    /\ version \in [Procs -> Versions]
    /\ gcThrew = FALSE
    /\ now = 0 /\ faults = 0

Fault == faults < MaxFaults /\ faults' = faults + 1

-----------------------------------------------------------------------------

\* handlebars_module_verify
Verified(p, m) == m.sound /\ m.version = version[p]

TooOld(m) == MaxAge >= 0 /\ now - m.ts >= MaxAge

\* Mutant: the checksum is compared, the version is not.
UsableMutant(p, k) == k \in DOMAIN db /\ db[k].sound /\ ~TooOld(db[k])

\* The three tests of cache_find on what mdb_get returns.
Usable(p, k) == k \in DOMAIN db /\ Verified(p, db[k]) /\ ~TooOld(db[k])

\* cache_find in a read transaction of its own: a hit is copied out of the file.
FindHit(p, t) ==
    /\ proc[p].pc = "idle"
    /\ Usable(p, Key(t))
    /\ proc' = [proc EXCEPT ![p] = [pc |-> "run", tmpl |-> t, mod |-> db[Key(t)], since |-> now]]
    /\ UNCHANGED <<db, writer, version, gcThrew, now, faults>>

FindMiss(p, t) ==
    /\ proc[p].pc = "idle"
    /\ ~Usable(p, Key(t))
    /\ proc' = [proc EXCEPT ![p] = [Idle EXCEPT !.pc = "compile", !.tmpl = t]]
    /\ UNCHANGED <<db, writer, version, gcThrew, now, faults>>

\* execute_template compiles what it has not found; the module carries this time.
Compile(p) ==
    /\ proc[p].pc = "compile"
    /\ proc' = [proc EXCEPT ![p] = [pc |-> "add", tmpl |-> proc[p].tmpl, since |-> now,
                                    mod |-> Module(proc[p].tmpl, version[p], now)]]
    /\ UNCHANGED <<db, writer, version, gcThrew, now, faults>>

\* Calls of the application.
Call(p, op) ==
    /\ proc[p].pc = "idle"
    /\ proc' = [proc EXCEPT ![p].pc = op]
    /\ UNCHANGED <<db, writer, version, gcThrew, now, faults>>

\* mdb_txn_begin of a writer waits for the lock.
BeginWrite(p) ==
    /\ proc[p].pc \in Writing
    /\ writer = NoOne
    /\ writer' = p
    /\ proc' = [proc EXCEPT ![p].pc = Opened(@)]
    /\ UNCHANGED <<db, version, gcThrew, now, faults>>

\* mdb_txn_begin fails and the function throws; execute_template renders nothing.
BeginFails(p) ==
    /\ proc[p].pc \in Writing
    /\ Fault
    /\ proc' = [proc EXCEPT ![p] = Idle]
    /\ UNCHANGED <<db, writer, version, gcThrew, now>>

Fits(k) == k \in DOMAIN db \/ Cardinality(DOMAIN db) < Capacity

\* cache_add: mdb_put replaces what is there, and the transaction is committed.
Commit(p) ==
    /\ proc[p].pc = "in add"
    /\ Fits(Key(proc[p].tmpl))
    /\ db' = [k \in DOMAIN db \cup {Key(proc[p].tmpl)} |->
                IF k = Key(proc[p].tmpl) THEN proc[p].mod ELSE db[k]]
    /\ writer' = NoOne
    /\ proc' = [proc EXCEPT ![p].pc = "run"]
    /\ UNCHANGED <<version, gcThrew, now, faults>>

\* The transaction is aborted, and then the error thrown: the map is full, or some
\* call failed.  (After a failing commit the transaction is aborted once more,
\* which LMDB forbids and forgives.)
Abort(p) ==
    /\ writer' = NoOne
    /\ proc' = [proc EXCEPT ![p] = Idle]
    /\ UNCHANGED <<db, version, gcThrew, now>>

AddFull(p) ==
    /\ proc[p].pc = "in add" /\ ~Fits(Key(proc[p].tmpl))
    /\ Abort(p) /\ UNCHANGED faults

AddFails(p) == proc[p].pc = "in add" /\ Fault /\ Abort(p)

\* Mutant: reset throws where gc does, before the transaction is aborted.
ResetFailsMutant(p) ==
    /\ proc[p].pc \in {"in reset", "in stat"}
    /\ Fault
    /\ proc' = [proc EXCEPT ![p] = Idle]
    /\ UNCHANGED <<db, writer, version, gcThrew, now>>

\* cache_reset and cache_stat when a call fails: aborted, then thrown.
ResetFails(p) == proc[p].pc \in {"in reset", "in stat"} /\ Fault /\ Abort(p)

\* cache_gc, cache_reset and cache_stat when nothing fails.  What gc has deleted
\* and reset has dropped in the transaction goes with it: it is never committed.
EndOthers(p) ==
    /\ proc[p].pc \in {"in gc", "in reset", "in stat"}
    /\ Abort(p) /\ UNCHANGED faults

\* cache_gc when a call fails: HANDLE_RC throws before the abort, and nobody ends
\* the transaction any more.
GcFails(p) ==
    /\ proc[p].pc = "in gc"
    /\ Fault
    /\ gcThrew' = TRUE
    /\ proc' = [proc EXCEPT ![p] = Idle]
    /\ UNCHANGED <<db, writer, version, now>>

\* execute_template is done: cache_release frees the copy, the end of the context
\* a module compiled here.
Release(p) ==
    /\ proc[p].pc = "run"
    /\ proc' = [proc EXCEPT ![p] = Idle]
    /\ UNCHANGED <<db, writer, version, gcThrew, now, faults>>

\* A process ends anywhere and is started again, perhaps with another library;
\* LMDB takes the lock from the dead.
Exit(p) ==
    /\ Fault
    /\ proc' = [proc EXCEPT ![p] = Idle]
    /\ writer' = IF writer = p THEN NoOne ELSE writer
    /\ \E v \in Versions : version' = [version EXCEPT ![p] = v]
    /\ UNCHANGED <<db, gcThrew, now>>

\* The machine goes down with pages unwritten: an entry is damaged, all start again.
PowerLoss(k) ==
    /\ Fault
    /\ db' = [db EXCEPT ![k].sound = FALSE]
    /\ writer' = NoOne
    /\ proc' = [p \in Procs |-> Idle]
    /\ UNCHANGED <<version, gcThrew, now>>

Tick ==
    /\ now < MaxTime
    /\ now' = now + 1
    /\ UNCHANGED <<db, writer, proc, version, gcThrew, faults>>

-----------------------------------------------------------------------------

\* The steps a process takes by itself once it has made a call.
Step(p) == Compile(p) \/ BeginWrite(p) \/ Commit(p) \/ AddFull(p) \/ EndOthers(p) \/ Release(p)

Next ==
    \/ \E p \in Procs :
        \/ Step(p)
        \/ \E t \in Templates : FindHit(p, t) \/ FindMiss(p, t)
        \/ \E op \in {"gc", "reset", "stat"} : Call(p, op)
        \/ BeginFails(p) \/ AddFails(p) \/ ResetFails(p) \/ GcFails(p)
        \/ Exit(p)
    \/ \E k \in DOMAIN db : PowerLoss(k)
    \/ Tick

Fairness == \A p \in Procs : WF_vars(Step(p))

Spec == Init /\ [][Next]_vars /\ Fairness

-----------------------------------------------------------------------------
(***************************************************************************)
(* Properties.                                                             *)
(***************************************************************************)

(* What a process executes for a template was compiled from that template by  *)
(* the library it runs, is what was compiled, and had not reached max_age when *)
(* it was found: whatever other processes wrote in between, and whatever a      *)
(* crash left in the file.  (cache_find's key, checksum, version and age.)      *)
(* Texts longer than the longest key are looked up by their 32-bit hash alone:  *)
(* of these a process may execute another one with the same hash, and no other. *)
RunsOwnModule ==
    \A p \in Procs : proc[p].pc = "run" =>
        /\ \/ proc[p].mod.tmpl = proc[p].tmpl
           \/ Colliding(proc[p].mod.tmpl, proc[p].tmpl)
        /\ proc[p].mod.version = version[p]
        /\ proc[p].mod.sound
        /\ MaxAge > 0 => proc[p].since - proc[p].mod.ts < MaxAge

(* No call leaves a write transaction behind, on any error path but that of    *)
(* cache_gc: until a gc throws, every transaction that is begun ends, so that   *)
(* the writers of the other processes get their turn.                           *)
TransactionsEnd == (writer # NoOne) ~> (writer = NoOne \/ gcThrew)

=============================================================================
