-------------------------- MODULE CacheLmdbProofs --------------------------
(***************************************************************************)
(* What a process executes is its own, for any number of processes, texts  *)
(* and libraries, any capacity and any number of faults.                   *)
(*                                                                         *)
(* RunsOwnModule is not inductive: a hit hands out what the file holds,    *)
(* and a run starts with what an add has carried through the transaction.  *)
(* Inv says of both what a run needs: an entry lies under the key of its   *)
(* own text, and a module on its way into the file is fresh and sound.     *)
(***************************************************************************)
EXTENDS CacheLmdb, TLAPS

Modules == [tmpl : Templates, version : Versions, ts : Int, sound : BOOLEAN]
PCs == {"idle", "compile", "run"} \cup Writing \cup InTxn
State == [pc : PCs, tmpl : Templates \cup {NoModule},
          mod : Modules \cup {NoModule}, since : Int]

Types ==
    /\ now \in Int
    /\ proc \in [Procs -> State]
    /\ version \in [Procs -> Versions]
    /\ db \in [DOMAIN db -> Modules]

(* Every entry of the file lies under the key of the text it was compiled  *)
(* from, damaged or not.                                                   *)
Filed == \A k \in DOMAIN db : k = Key(db[k].tmpl)

(* A module that a process with library v has found or compiled under the  *)
(* key of the text it asked for.                                           *)
Own(r, v) ==
    /\ r.mod \in Modules
    /\ Key(r.mod.tmpl) = Key(r.tmpl)
    /\ r.mod.version = v
    /\ r.mod.sound
    /\ MaxAge > 0 => r.since - r.mod.ts < MaxAge

(* A process has the text it compiles, and a module of its own from then   *)
(* on until it has rendered.                                               *)
Carries(r, v) ==
    /\ r.pc = "compile" => r.tmpl \in Templates
    /\ r.pc \in {"add", "in add", "run"} => Own(r, v)

Carried == \A p \in Procs : Carries(proc[p], version[p])

Inv == Types /\ Filed /\ Carried

(* Texts that share a key are one text, or long texts with one hash.       *)
LEMMA KeysAgree ==
    ASSUME NEW s, NEW t, Key(s) = Key(t)
    PROVE  s = t \/ Colliding(s, t)
  BY DEF Key, Colliding

(* The states a process takes on, field by field.                          *)
LEMMA StateFields ==
    ASSUME NEW pc \in PCs, NEW t \in Templates \cup {NoModule},
           NEW m \in Modules \cup {NoModule}, NEW at \in Int
    PROVE  [pc |-> pc, tmpl |-> t, mod |-> m, since |-> at] \in State
  BY DEF State

(* A process that moves to another point of the code keeps its locals.     *)
LEMMA StateMoves ==
    ASSUME NEW r \in State, NEW pc \in PCs
    PROVE  /\ [r EXCEPT !.pc = pc] \in State
           /\ [r EXCEPT !.pc = pc].pc = pc
           /\ [r EXCEPT !.pc = pc].tmpl = r.tmpl
           /\ [r EXCEPT !.pc = pc].mod = r.mod
           /\ [r EXCEPT !.pc = pc].since = r.since
  BY DEF State

(* What the fields of a process's state may be.                            *)
LEMMA StateTypes ==
    ASSUME NEW r \in State
    PROVE  /\ r.pc \in PCs
           /\ r.tmpl \in Templates \cup {NoModule}
           /\ r.mod \in Modules \cup {NoModule}
           /\ r.since \in Int
  BY DEF State

(* What the fields of a module may be.                                     *)
LEMMA ModuleTypes ==
    ASSUME NEW m \in Modules
    PROVE  /\ m.tmpl \in Templates /\ m.version \in Versions
           /\ m.ts \in Int /\ m.sound \in BOOLEAN
  BY DEF Modules

(* A process that is between two renderings holds no module.               *)
LEMMA IdleCarries ==
    ASSUME NEW v
    PROVE  Idle \in State /\ Carries(Idle, v)
  <1>1. Idle \in State /\ Idle.pc = "idle"
    BY DEF Idle, State, PCs
  <1> QED
    BY <1>1 DEF Carries

(* Moving on inside a call takes along what the process has.               *)
LEMMA MovesOn ==
    ASSUME NEW r \in State, NEW v, NEW pc \in PCs, Carries(r, v),
           pc # "compile",
           pc \in {"add", "in add", "run"} => r.pc \in {"add", "in add", "run"}
    PROVE  [r EXCEPT !.pc = pc] \in State /\ Carries([r EXCEPT !.pc = pc], v)
  <1> DEFINE s == [r EXCEPT !.pc = pc]
  <1>1. /\ s \in State /\ s.pc = pc
        /\ s.tmpl = r.tmpl /\ s.mod = r.mod /\ s.since = r.since
    BY StateMoves
  <1> HIDE DEF s
  <1>2. Carries(s, v)
    BY <1>1 DEF Carries, Own
  <1> QED
    BY <1>1, <1>2 DEF s

(* The invariant holds at the start.                                       *)
LEMMA InitInv == Init => Inv
  <1> SUFFICES ASSUME Init PROVE Inv
    OBVIOUS
  <1>1. Types
    BY IdleCarries DEF Init, Types
  <1>2. Filed
    BY DEF Init, Filed
  <1>3. Carried
    BY IdleCarries DEF Init, Carried
  <1> QED
    BY <1>1, <1>2, <1>3 DEF Inv

(* A step of one process that leaves the file alone.                       *)
LEMMA OneSteps ==
    ASSUME Inv, NEW p \in Procs, NEW r \in State,
           proc' = [proc EXCEPT ![p] = r], UNCHANGED <<db, now>>,
           version' \in [Procs -> Versions],
           \A q \in Procs \ {p} : version'[q] = version[q],
           Carries(r, version'[p])
    PROVE  Inv'
  <1>1. Types'
    BY DEF Inv, Types
  <1>2. Filed'
    BY DEF Inv, Filed
  <1>3. Carried'
    BY DEF Inv, Types, Carried
  <1> QED
    BY <1>1, <1>2, <1>3 DEF Inv

(* A process that finds a module in the database keeps the invariant.      *)
LEMMA FindHitInv ==
    ASSUME Inv, NEW p \in Procs, NEW t \in Templates, FindHit(p, t)
    PROVE  Inv'
  <1> DEFINE r == [pc |-> "run", tmpl |-> t, mod |-> db[Key(t)], since |-> now]
  <1>1. Key(t) \in DOMAIN db /\ db[Key(t)] \in Modules /\ now \in Int
    BY DEF FindHit, Usable, Inv, Types
  <1>2. Key(db[Key(t)].tmpl) = Key(t)
    BY <1>1 DEF Inv, Filed
  <1>3. MaxAge > 0 => now - db[Key(t)].ts < MaxAge
    BY <1>1, ModuleTypes, AgeAssumption DEF FindHit, Usable, TooOld
  <1>4. r \in State
    BY <1>1, StateFields DEF PCs
  <1>5. Own(r, version[p])
    BY <1>1, <1>2, <1>3 DEF Own, FindHit, Usable, Verified
  <1> HIDE DEF r
  <1>6. proc' = [proc EXCEPT ![p] = r] /\ UNCHANGED <<db, version, now>>
    BY DEF FindHit, r
  <1>7. Carries(r, version[p])
    BY <1>5 DEF Carries, r
  <1> QED
    BY <1>4, <1>6, <1>7, OneSteps DEF Inv, Types

(* A process that finds none does.                                         *)
LEMMA FindMissInv ==
    ASSUME Inv, NEW p \in Procs, NEW t \in Templates, FindMiss(p, t)
    PROVE  Inv'
  <1> DEFINE r == [pc |-> "compile", tmpl |-> t, mod |-> NoModule, since |-> 0]
  <1>1. [Idle EXCEPT !.pc = "compile", !.tmpl = t] = r
    <2> DEFINE i == [Idle EXCEPT !.pc = "compile"]
    <2>1. i = [pc |-> "compile", tmpl |-> NoModule, mod |-> NoModule, since |-> 0]
      BY DEF Idle
    <2> HIDE DEF i
    <2>2. [i EXCEPT !.tmpl = t] = r
      BY <2>1
    <2> QED
      BY <2>2 DEF i
  <1>2. r \in State /\ Carries(r, version[p])
    BY StateFields DEF Carries, PCs
  <1> HIDE DEF r
  <1>3. proc' = [proc EXCEPT ![p] = r] /\ UNCHANGED <<db, version, now>>
    BY <1>1 DEF FindMiss
  <1> QED
    BY <1>2, <1>3, OneSteps DEF Inv, Types

(* A process that compiles its own and stores it does.                     *)
LEMMA CompileInv ==
    ASSUME Inv, NEW p \in Procs, Compile(p)
    PROVE  Inv'
  <1> DEFINE m == Module(proc[p].tmpl, version[p], now)
             r == [pc |-> "add", tmpl |-> proc[p].tmpl, since |-> now, mod |-> m]
  <1>1. proc[p].tmpl \in Templates /\ version[p] \in Versions /\ now \in Int
    BY DEF Compile, Inv, Types, Carried, Carries
  <1>2. /\ m \in Modules /\ m.tmpl = proc[p].tmpl /\ m.version = version[p]
        /\ m.ts = now /\ m.sound
    BY <1>1 DEF Module, Modules
  <1>3. proc' = [proc EXCEPT ![p] = r] /\ UNCHANGED <<db, version, now>>
    BY DEF Compile
  <1> HIDE DEF m
  <1>4. r \in State
    BY <1>1, <1>2, StateFields DEF PCs, Writing
  <1>5. Carries(r, version[p])
    BY <1>1, <1>2, AgeAssumption DEF Carries, Own
  <1> HIDE DEF r
  <1> QED
    BY <1>3, <1>4, <1>5, OneSteps DEF Inv, Types

(* What is committed lies under the key of its own text, because the       *)
(* process asked for that text and compiled it.                            *)
LEMMA CommitInv ==
    ASSUME Inv, NEW p \in Procs, Commit(p)
    PROVE  Inv'
  <1> DEFINE key == Key(proc[p].tmpl)
             r == [proc[p] EXCEPT !.pc = "run"]
  <1>1. Own(proc[p], version[p])
    BY DEF Inv, Carried, Carries, Commit
  <1>2. r \in State /\ Carries(r, version[p])
    BY MovesOn DEF Inv, Types, Carried, Commit, PCs
  <1>3. proc' = [proc EXCEPT ![p] = r] /\ UNCHANGED <<version, now>>
    BY DEF Commit
  <1>4. /\ db' = [k \in DOMAIN db' |-> db'[k]]
        /\ DOMAIN db' = DOMAIN db \cup {key}
        /\ \A k \in DOMAIN db \cup {key} :
              db'[k] = IF k = key THEN proc[p].mod ELSE db[k]
    BY DEF Commit
  <1> HIDE DEF r
  <1>5. db' \in [DOMAIN db' -> Modules]
    BY <1>1, <1>4 DEF Inv, Types, Own
  <1>6. Types'
    BY <1>2, <1>3, <1>5 DEF Inv, Types
  <1>7. Filed'
    BY <1>1, <1>4 DEF Inv, Filed, Own
  <1>8. Carried'
    BY <1>2, <1>3 DEF Inv, Types, Carried
  <1> QED
    BY <1>6, <1>7, <1>8 DEF Inv

(* A damaged entry is still under the key of its text.                     *)
LEMMA PowerLossInv ==
    ASSUME Inv, NEW k \in DOMAIN db, PowerLoss(k)
    PROVE  Inv'
  <1>1. db[k] \in Modules
    BY DEF Inv, Types
  <1>2. /\ [db[k] EXCEPT !.sound = FALSE] \in Modules
        /\ [db[k] EXCEPT !.sound = FALSE].tmpl = db[k].tmpl
    BY <1>1 DEF Modules
  <1>3. db' = [db EXCEPT ![k] = [db[k] EXCEPT !.sound = FALSE]]
    BY DEF PowerLoss
  <1>4. /\ DOMAIN db' = DOMAIN db /\ db' \in [DOMAIN db -> Modules]
        /\ \A j \in DOMAIN db : db'[j].tmpl = db[j].tmpl
    BY <1>2, <1>3 DEF Inv, Types
  <1>5. proc' = [p \in Procs |-> Idle] /\ UNCHANGED <<version, now>>
    BY DEF PowerLoss
  <1>6. Types'
    BY <1>4, <1>5, IdleCarries DEF Inv, Types
  <1>7. Filed'
    BY <1>4 DEF Inv, Filed
  <1>8. Carried'
    BY <1>5, IdleCarries DEF Carried
  <1> QED
    BY <1>6, <1>7, <1>8 DEF Inv

(* Every step keeps the invariant.                                         *)
LEMMA NextInv == Inv /\ [Next]_vars => Inv'
  <1> SUFFICES ASSUME Inv, [Next]_vars PROVE Inv'
    OBVIOUS
  <1>0. ASSUME NEW p \in Procs, proc' = [proc EXCEPT ![p] = Idle],
               UNCHANGED <<db, version, now>>
        PROVE  Inv'
    BY <1>0, IdleCarries, OneSteps DEF Inv, Types
  <1>1. ASSUME NEW p \in Procs, NEW t \in Templates, FindHit(p, t) PROVE Inv'
    BY <1>1, FindHitInv
  <1>2. ASSUME NEW p \in Procs, NEW t \in Templates, FindMiss(p, t) PROVE Inv'
    BY <1>2, FindMissInv
  <1>3. ASSUME NEW p \in Procs, Compile(p) PROVE Inv'
    BY <1>3, CompileInv
  <1>4. ASSUME NEW p \in Procs, NEW op \in {"gc", "reset", "stat"}, Call(p, op) PROVE Inv'
    <2> DEFINE r == [proc[p] EXCEPT !.pc = op]
    <2>1. r \in State /\ Carries(r, version[p])
      BY MovesOn DEF Inv, Types, Carried, PCs, Writing
    <2>2. proc' = [proc EXCEPT ![p] = r] /\ UNCHANGED <<db, version, now>>
      BY <1>4 DEF Call
    <2> HIDE DEF r
    <2> QED
      BY <2>1, <2>2, OneSteps DEF Inv, Types
  <1>5. ASSUME NEW p \in Procs, BeginWrite(p) PROVE Inv'
    <2> DEFINE pc == Opened(proc[p].pc)
               r == [proc[p] EXCEPT !.pc = pc]
    <2>1. pc \in InTxn /\ (pc = "in add" => proc[p].pc = "add")
      BY <1>5 DEF BeginWrite, Writing, Opened, InTxn
    <2>2. proc' = [proc EXCEPT ![p] = r] /\ UNCHANGED <<db, version, now>>
      BY <1>5 DEF BeginWrite
    <2> HIDE DEF pc
    <2>3. r \in State /\ Carries(r, version[p])
      BY <2>1, MovesOn DEF Inv, Types, Carried, PCs, InTxn
    <2> HIDE DEF r
    <2> QED
      BY <2>2, <2>3, OneSteps DEF Inv, Types
  <1>6. ASSUME NEW p \in Procs, BeginFails(p) PROVE Inv'
    BY <1>6, <1>0 DEF BeginFails
  <1>7. ASSUME NEW p \in Procs, Commit(p) PROVE Inv'
    BY <1>7, CommitInv
  <1>8. ASSUME NEW p \in Procs, AddFull(p) \/ AddFails(p) \/ ResetFails(p) \/ EndOthers(p)
        PROVE  Inv'
    BY <1>8, <1>0 DEF AddFull, AddFails, ResetFails, EndOthers, Abort
  <1>9. ASSUME NEW p \in Procs, GcFails(p) \/ Release(p) PROVE Inv'
    BY <1>9, <1>0 DEF GcFails, Release
  <1>10. ASSUME NEW p \in Procs, Exit(p) PROVE Inv'
    <2>1. /\ version' \in [Procs -> Versions]
          /\ \A q \in Procs \ {p} : version'[q] = version[q]
      BY <1>10 DEF Exit, Inv, Types
    <2> QED
      BY <1>10, <2>1, IdleCarries, OneSteps DEF Exit
  <1>11. ASSUME NEW k \in DOMAIN db, PowerLoss(k) PROVE Inv'
    BY <1>11, PowerLossInv
  <1>12. ASSUME Tick \/ UNCHANGED vars PROVE Inv'
    BY <1>12 DEF Tick, vars, Inv, Types, Filed, Carried
  <1> QED
    BY <1>1, <1>2, <1>3, <1>4, <1>5, <1>6, <1>7, <1>8, <1>9, <1>10, <1>11, <1>12
       DEF Next, Step

(* A process never executes a module of another text or another library, a *)
(* damaged one or one past its age, whatever the other processes write and *)
(* wherever a process or the machine goes down: cache_find's key and its   *)
(* three tests, and execute_template's compile and add.  The exception is  *)
(* a text that is looked up by its hash, for which it may execute another  *)
(* long text with that hash; nothing is assumed about the hash.            *)
THEOREM RunsOwn == Spec => []RunsOwnModule
  <1>1. Inv => RunsOwnModule
    <2> SUFFICES ASSUME Inv, NEW p \in Procs, proc[p].pc = "run"
                 PROVE  /\ \/ proc[p].mod.tmpl = proc[p].tmpl
                           \/ Colliding(proc[p].mod.tmpl, proc[p].tmpl)
                        /\ proc[p].mod.version = version[p]
                        /\ proc[p].mod.sound
                        /\ MaxAge > 0 => proc[p].since - proc[p].mod.ts < MaxAge
      BY DEF RunsOwnModule
    <2>1. Own(proc[p], version[p])
      BY DEF Inv, Carried, Carries
    <2> QED
      BY <2>1, KeysAgree DEF Own
  <1> QED
    BY <1>1, InitInv, NextInv, PTL DEF Spec

-----------------------------------------------------------------------------
(* The safety half of TransactionsEnd.                                     *)

(* Whoever is between mdb_txn_begin and its end holds the write lock.      *)
Exclusive == \A p \in Procs : proc[p].pc \in InTxn => writer = p

(* The lock has a holder that is on its way to ending the transaction.     *)
NoOrphan ==
    writer # NoOne => writer \in Procs /\ (~gcThrew => proc[writer].pc \in InTxn)

(* The pc of a process that steps.                                         *)
LEMMA PcMoves ==
    ASSUME Types, NEW p \in Procs, NEW pc, proc' = [proc EXCEPT ![p].pc = pc]
    PROVE  \A q \in Procs : proc'[q].pc = IF q = p THEN pc ELSE proc[q].pc
  <1>1. proc[p] \in State /\ proc' = [proc EXCEPT ![p] = [proc[p] EXCEPT !.pc = pc]]
    BY DEF Types
  <1>2. [proc[p] EXCEPT !.pc = pc].pc = pc
    BY <1>1 DEF State
  <1> QED
    BY <1>1, <1>2 DEF Types

(* A process that is done is idle, and the others are where they were.     *)
LEMMA PcIdle ==
    ASSUME Types, NEW p \in Procs, proc' = [proc EXCEPT ![p] = Idle]
    PROVE  \A q \in Procs : proc'[q].pc = IF q = p THEN "idle" ELSE proc[q].pc
  <1>1. Idle.pc = "idle"
    BY DEF Idle
  <1> QED
    BY <1>1 DEF Types

(* Every step keeps the transaction of the writer its own.                 *)
LEMMA LockStep ==
    ASSUME Types, Exclusive, NoOrphan, [Next]_vars
    PROVE  Exclusive' /\ NoOrphan'
  <1> USE NoOneAssumption DEF Exclusive, NoOrphan
  <1>1. ASSUME NEW p \in Procs, NEW pc, pc \notin InTxn,
               \A q \in Procs : proc'[q].pc = IF q = p THEN pc ELSE proc[q].pc,
               proc[p].pc \notin InTxn, UNCHANGED <<writer, gcThrew>>
        PROVE  Exclusive' /\ NoOrphan'
    BY <1>1
  <1>2. ASSUME NEW p \in Procs, NEW pc, pc \notin InTxn,
               \A q \in Procs : proc'[q].pc = IF q = p THEN pc ELSE proc[q].pc,
               proc[p].pc \in InTxn, writer' = NoOne
        PROVE  Exclusive' /\ NoOrphan'
    BY <1>2
  <1>3. ASSUME NEW p \in Procs, NEW t \in Templates, FindHit(p, t) \/ FindMiss(p, t)
        PROVE  Exclusive' /\ NoOrphan'
    <2>1. CASE FindHit(p, t)
      <3>1. \A q \in Procs : proc'[q].pc = IF q = p THEN "run" ELSE proc[q].pc
        BY <2>1 DEF FindHit, Types
      <3> QED
        BY <2>1, <3>1, <1>1 DEF FindHit, InTxn
    <2>2. CASE FindMiss(p, t)
      <3> DEFINE i == [Idle EXCEPT !.pc = "compile"]
      <3>1. i = [pc |-> "compile", tmpl |-> NoModule, mod |-> NoModule, since |-> 0]
        BY DEF Idle
      <3> HIDE DEF i
      <3>2. [i EXCEPT !.tmpl = t].pc = "compile"
        BY <3>1
      <3>3. proc' = [proc EXCEPT ![p] = [i EXCEPT !.tmpl = t]]
        BY <2>2 DEF FindMiss, i
      <3>4. \A q \in Procs : proc'[q].pc = IF q = p THEN "compile" ELSE proc[q].pc
        BY <3>2, <3>3 DEF Types
      <3> QED
        BY <2>2, <3>4, <1>1 DEF FindMiss, InTxn
    <2> QED
      BY <1>3, <2>1, <2>2
  <1>4. ASSUME NEW p \in Procs, Compile(p) PROVE Exclusive' /\ NoOrphan'
    <2>1. \A q \in Procs : proc'[q].pc = IF q = p THEN "add" ELSE proc[q].pc
      BY <1>4 DEF Compile, Types
    <2> QED
      BY <1>4, <2>1, <1>1 DEF Compile, InTxn
  <1>5. ASSUME NEW p \in Procs, NEW op \in {"gc", "reset", "stat"}, Call(p, op)
        PROVE  Exclusive' /\ NoOrphan'
    <2>1. \A q \in Procs : proc'[q].pc = IF q = p THEN op ELSE proc[q].pc
      <3> DEFINE r == [proc[p] EXCEPT !.pc = op]
      <3>1. r.pc = op
        BY DEF Types, State
      <3>2. proc' = [proc EXCEPT ![p] = r]
        BY <1>5 DEF Call
      <3> HIDE DEF r
      <3> QED
        BY <3>1, <3>2 DEF Types
    <2> QED
      BY <1>5, <2>1, <1>1 DEF Call, InTxn
  <1>6. ASSUME NEW p \in Procs, BeginWrite(p) PROVE Exclusive' /\ NoOrphan'
    <2>1. Opened(proc[p].pc) \in InTxn
      BY <1>6 DEF BeginWrite, Writing, Opened, InTxn
    <2>2. \A q \in Procs :
            proc'[q].pc = IF q = p THEN Opened(proc[p].pc) ELSE proc[q].pc
      BY ZenonT(30), <1>6, PcMoves DEF BeginWrite
    <2> QED
      BY <1>6, <2>1, <2>2 DEF BeginWrite
  <1>7. ASSUME NEW p \in Procs, BeginFails(p) \/ Release(p) PROVE Exclusive' /\ NoOrphan'
    BY <1>7, <1>1, PcIdle DEF BeginFails, Release, Writing, InTxn
  <1>8. ASSUME NEW p \in Procs, Commit(p) PROVE Exclusive' /\ NoOrphan'
    <2>1. \A q \in Procs : proc'[q].pc = IF q = p THEN "run" ELSE proc[q].pc
      <3> DEFINE r == [proc[p] EXCEPT !.pc = "run"]
      <3>1. r.pc = "run"
        BY DEF Types, State
      <3>2. proc' = [proc EXCEPT ![p] = r]
        BY <1>8 DEF Commit
      <3> HIDE DEF r
      <3> QED
        BY <3>1, <3>2 DEF Types
    <2> QED
      BY <1>8, <2>1, <1>2 DEF Commit, InTxn
  <1>9. ASSUME NEW p \in Procs, AddFull(p) \/ AddFails(p) \/ ResetFails(p) \/ EndOthers(p)
        PROVE  Exclusive' /\ NoOrphan'
    BY <1>9, <1>2, PcIdle DEF AddFull, AddFails, ResetFails, EndOthers, Abort, InTxn
  <1>10. ASSUME NEW p \in Procs, GcFails(p) PROVE Exclusive' /\ NoOrphan'
    BY ZenonT(30), <1>10, PcIdle DEF GcFails, InTxn
  <1>11. ASSUME NEW p \in Procs, Exit(p) PROVE Exclusive' /\ NoOrphan'
    <2>1. \A q \in Procs : proc'[q].pc = IF q = p THEN "idle" ELSE proc[q].pc
      BY <1>11, PcIdle DEF Exit
    <2>2. writer' = (IF writer = p THEN NoOne ELSE writer) /\ gcThrew' = gcThrew
      BY <1>11 DEF Exit
    <2>3. "idle" \notin InTxn
      BY DEF InTxn
    <2> QED
      BY <2>1, <2>2, <2>3
  <1>12. ASSUME NEW k \in DOMAIN db, PowerLoss(k) PROVE Exclusive' /\ NoOrphan'
    <2>1. \A q \in Procs : proc'[q].pc = "idle"
      BY <1>12 DEF PowerLoss, Idle
    <2> QED
      BY <1>12, <2>1 DEF PowerLoss, InTxn
  <1>13. ASSUME Tick \/ UNCHANGED vars PROVE Exclusive' /\ NoOrphan'
    BY <1>13 DEF Tick, vars
  <1> QED
    BY <1>3, <1>4, <1>5, <1>6, <1>7, <1>8, <1>9, <1>10, <1>11, <1>12, <1>13
       DEF Next, Step

(* There is at most one write transaction, and unless a gc has thrown, the *)
(* process that holds the lock is inside the function that ends it: no     *)
(* error path of cache_add, cache_reset or cache_stat leaves a transaction *)
(* behind.                                                                 *)
THEOREM OneWriter == Spec => [](Exclusive /\ NoOrphan)
  <1>1. Init => Exclusive /\ NoOrphan
    <2> SUFFICES ASSUME Init PROVE Exclusive /\ NoOrphan
      OBVIOUS
    <2>1. \A p \in Procs : proc[p].pc = "idle"
      BY DEF Init, Idle
    <2> QED
      BY <2>1 DEF Init, Exclusive, NoOrphan, InTxn
  <1>2. Inv => Types
    BY DEF Inv
  <1> QED
    BY <1>1, <1>2, LockStep, InitInv, NextInv, PTL DEF Spec
============================================================================
