---------------------------- MODULE VmExecProofs ----------------------------
(***************************************************************************)
(* The C call stack of the VM, its jumps, its templates and its registers, *)
(* for any modules, partials and contexts, any size of the stacks, any     *)
(* kind of cache, and any number and depth of calls.                       *)
(*                                                                         *)
(* Everything below is said of a call stack c as a value and not of the    *)
(* variable call: most steps are built from a few moves on it (a frame is  *)
(* pushed, the top frame is changed, frames are taken off), and each move  *)
(* is dealt with once.                                                     *)
(***************************************************************************)
EXTENDS VmExec, SequenceLemmas, FiniteSetTheorems

(* All but the last element of a sequence.                                *)
LEMMA FrontSeq ==
    ASSUME NEW s, IsSeq(s), s # <<>>
    PROVE  /\ Len(s) \in Nat \ {0}
           /\ IsSeq(Front(s))
           /\ Len(Front(s)) = Len(s) - 1
           /\ \A i \in 1 .. Len(s) - 1 : Front(s)[i] = s[i]
           /\ Last(s) = s[Len(s)]
  <1>1. Len(s) \in Nat \ {0}
    BY IsSeqSeq DEF IsSeq
  <1>2. Len(s) - 1 \in 0 .. Len(s)
    BY <1>1
  <1>3. Front(s) = SubSeq(s, 1, Len(s) - 1) /\ Last(s) = s[Len(s)]
    BY DEF Front, Last
  <1> QED
    BY ZenonT(30), <1>1, <1>2, <1>3, PrefixSeq

Kinds == {"exec", "prog", "op", "tmpl", "block"}

(* The fields that the steps change or look at.                            *)
Fields(kind) ==
    CASE kind = "prog" -> {"kind", "module", "pc", "prevBuffer", "hasData", "prevData",
                           "count", "protect", "at"}
      [] kind = "exec" -> {"kind", "done", "ret", "prevJmp", "prevModule", "setup", "g",
                           "ctx", "blockParams"}
      [] kind = "op" -> {"kind", "done", "op", "program", "inverse", "helper", "runs",
                         "result", "value", "lastHelper", "pushed"}
      [] kind = "tmpl" -> {"kind", "done", "tmpl", "ctx", "fromCache", "prevJmp", "prevDepth"}
      [] kind = "block" -> {"kind", "done", "closure", "ctx", "pushed"}

FrameOK(f) ==
    /\ f.kind \in Kinds
    /\ DOMAIN f = Fields(f.kind)

(* Who calls whom.                                                         *)
Callers(kind) ==
    CASE kind = "prog" -> {"exec", "op", "block"}
      [] kind = "exec" -> {"tmpl", "block"}
      [] kind = "op" -> {"prog"}
      [] kind = "tmpl" -> {"op"}
      [] kind = "block" -> {"op"}

Nested(c) ==
    \A i \in 1 .. Len(c) :
        IF i = 1 THEN c[i].kind = "exec" ELSE c[i - 1].kind \in Callers(c[i].kind)

(* A frame that has called setjmp, if it has called anything at all.       *)
Catches(f) ==
    \/ f.kind = "tmpl" /\ Modules[f.tmpl].opcodes # <<>>
    \/ f.kind = "exec" /\ f.prevJmp = 0

(* j is the innermost of the lowest h frames that catches, or base.        *)
IsJump(j, c, h, base) ==
    \/ /\ j \in 1 .. h
       /\ Catches(c[j])
       /\ \A y \in 1 .. h : y > j => ~Catches(c[y])
    \/ /\ j = base
       /\ \A y \in 1 .. h : ~Catches(c[y])

(* What holds of the frames below the jump register: each that will        *)
(* restore e->jmp restores the jump of the frames below it, a template     *)
(* that has called something has something to run, and an execution that   *)
(* ended without a buffer has left an error behind.                        *)
Frames(c, base, err) ==
    /\ IsSeq(c)
    /\ \A i \in 1 .. Len(c) : FrameOK(c[i])
    /\ Nested(c)
    /\ \A i \in 1 .. Len(c) :
          c[i].kind \in {"exec", "tmpl"} => IsJump(c[i].prevJmp, c, i - 1, base)
    /\ \A i \in 1 .. Len(c) :
          (c[i].kind = "tmpl" /\ i < Len(c)) => Modules[c[i].tmpl].opcodes # <<>>
    /\ \A i \in 1 .. Len(c) : (c[i].kind = "exec" /\ c[i].done /\ ~c[i].ret) => err

(* execute_template has not reached its setjmp.                            *)
Waiting(c) == Len(c) > 0 /\ c[Len(c)].kind = "tmpl" /\ ~c[Len(c)].done

CallOK(c, j, base, err) ==
    /\ Frames(c, base, err)
    /\ IsJump(j, c, IF Waiting(c) THEN Len(c) - 1 ELSE Len(c), base)

(* The templates that run, and what they have from the cache.              *)
Tmpls(c) == {i \in 1 .. Len(c) : c[i].kind = "tmpl"}
Pinning(c, t) == {i \in Tmpls(c) : c[i].tmpl = t /\ c[i].fromCache}

Counted(c, p) ==
    /\ p \in [Templates -> Int]
    /\ \A t \in Templates : p[t] = Cardinality(Pinning(c, t))

(* The outermost template has found depth 0, and leaves it.                *)
Depths(c, d) ==
    /\ Tmpls(c) = {} => d = 0
    /\ \A i \in Tmpls(c) : (\A k \in Tmpls(c) : i <= k) => c[i].prevDepth = 0

Base == IF app.catches THEN -1 ELSE 0

Registers ==
    /\ DOMAIN vm = {"module", "buffer", "data", "depth", "lastHelper", "owner"}
    /\ DOMAIN app = {"executes", "ret", "aborted", "fault", "catches", "overdrawn"}
    /\ app.catches \in BOOLEAN
    /\ error \in BOOLEAN

CallInv ==
    /\ Registers
    /\ CallOK(call, jmp, Base, error)
    /\ Counted(call, pins)
    /\ Depths(call, vm.depth)
    /\ NullReported

-----------------------------------------------------------------------------
(* Moves on a call stack *)

(* g is f, some steps later: what the frames above and the templates below *)
(* rely on has not changed.                                                *)
Alike(f, g) ==
    /\ FrameOK(g)
    /\ g.kind = f.kind
    /\ f.kind \in {"exec", "tmpl"} => g.prevJmp = f.prevJmp
    /\ f.kind = "tmpl" => /\ g.tmpl = f.tmpl /\ g.fromCache = f.fromCache
                          /\ g.prevDepth = f.prevDepth

(* The jump of the lowest h frames depends on nothing else.                *)
LEMMA JumpBelow ==
    ASSUME NEW c, NEW d, NEW h \in Nat, NEW j, NEW base, IsJump(j, c, h, base),
           \A i \in 1 .. h : Catches(d[i]) <=> Catches(c[i])
    PROVE  IsJump(j, d, h, base)
  BY DEF IsJump

(* Two alike frames both catch an error or neither does.                   *)
LEMMA AlikeCatches ==
    ASSUME NEW f, NEW g, Alike(f, g)
    PROVE  Catches(g) <=> Catches(f)
  BY DEF Alike, Catches

(* A call stack that loses its top frames is one still, with its jumps.    *)
LEMMA PrefixFrames ==
    ASSUME NEW c, NEW base, NEW err, Frames(c, base, err), NEW m \in 0 .. Len(c)
    PROVE  /\ Frames(SubSeq(c, 1, m), base, err)
           /\ \A h \in 0 .. m : \A j : IsJump(j, c, h, base) => IsJump(j, SubSeq(c, 1, m), h, base)
  <1> DEFINE d == SubSeq(c, 1, m)
  <1>1. Len(c) \in Nat /\ IsSeq(d) /\ Len(d) = m /\ \A i \in 1 .. m : d[i] = c[i]
    BY PrefixSeq DEF Frames, IsSeq
  <1> HIDE DEF d
  <1>2. ASSUME NEW h \in 0 .. m, NEW j, IsJump(j, c, h, base)
        PROVE  IsJump(j, d, h, base)
    <2>1. h \in Nat /\ \A i \in 1 .. h : Catches(d[i]) <=> Catches(c[i])
      BY <1>1
    <2> QED
      BY <1>2, <2>1, JumpBelow
  <1>3. \A i \in 1 .. m : FrameOK(d[i])
    BY <1>1 DEF Frames
  <1>4. Nested(d)
    BY <1>1 DEF Frames, Nested
  <1>5. \A i \in 1 .. m :
          d[i].kind \in {"exec", "tmpl"} => IsJump(d[i].prevJmp, d, i - 1, base)
    BY <1>1, <1>2 DEF Frames
  <1>6. \A i \in 1 .. m :
          (d[i].kind = "tmpl" /\ i < m) => Modules[d[i].tmpl].opcodes # <<>>
    BY <1>1 DEF Frames
  <1>7. \A i \in 1 .. m : (d[i].kind = "exec" /\ d[i].done /\ ~d[i].ret) => err
    BY <1>1 DEF Frames
  <1>8. Frames(d, base, err)
    BY <1>1, <1>3, <1>4, <1>5, <1>6, <1>7 DEF Frames
  <1> QED
    BY <1>2, <1>8 DEF d

(* So is one whose top frame is exchanged for an alike one.                *)
LEMMA TopFrames ==
    ASSUME NEW c, NEW base, NEW err, Frames(c, base, err), Len(c) > 0,
           NEW g, Alike(c[Len(c)], g),
           (g.kind = "exec" /\ g.done /\ ~g.ret) => err
    PROVE  /\ Frames([c EXCEPT ![Len(c)] = g], base, err)
           /\ \A h \in 0 .. Len(c) : \A j :
                IsJump(j, c, h, base) => IsJump(j, [c EXCEPT ![Len(c)] = g], h, base)
  <1> DEFINE d == [c EXCEPT ![Len(c)] = g]
  <1>1. Len(c) \in Nat /\ Len(c) \in 1 .. Len(c)
    BY DEF Frames, IsSeq
  <1>2. /\ IsSeq(d) /\ Len(d) = Len(c)
        /\ \A i \in 1 .. Len(c) : d[i] = IF i = Len(c) THEN g ELSE c[i]
    BY <1>1, ReplaceSeq DEF Frames
  <1> HIDE DEF d
  <1>3. \A i \in 1 .. Len(c) : Catches(d[i]) <=> Catches(c[i])
    BY <1>2, AlikeCatches
  <1>4. ASSUME NEW h \in 0 .. Len(c), NEW j, IsJump(j, c, h, base)
        PROVE  IsJump(j, d, h, base)
    <2>1. h \in Nat /\ \A i \in 1 .. h : Catches(d[i]) <=> Catches(c[i])
      BY <1>1, <1>3
    <2> QED
      BY <1>4, <2>1, JumpBelow
  <1>5. \A i \in 1 .. Len(c) : FrameOK(d[i]) /\ d[i].kind = c[i].kind
    BY <1>2 DEF Frames, Alike
  <1>6. Nested(d)
    BY <1>1, <1>2, <1>5 DEF Frames, Nested
  <1>7. \A i \in 1 .. Len(c) :
          d[i].kind \in {"exec", "tmpl"} => IsJump(d[i].prevJmp, d, i - 1, base)
    <2> SUFFICES ASSUME NEW i \in 1 .. Len(c), d[i].kind \in {"exec", "tmpl"}
                 PROVE  IsJump(d[i].prevJmp, d, i - 1, base)
      OBVIOUS
    <2>1. d[i].prevJmp = c[i].prevJmp
      BY <1>2, <1>5 DEF Alike
    <2>2. IsJump(c[i].prevJmp, c, i - 1, base)
      BY <1>5 DEF Frames
    <2>3. i - 1 \in 0 .. Len(c)
      BY <1>1
    <2> QED
      BY <2>1, <2>2, <2>3, <1>4
  <1>8. \A i \in 1 .. Len(c) :
          (d[i].kind = "tmpl" /\ i < Len(c)) => Modules[d[i].tmpl].opcodes # <<>>
    BY <1>2 DEF Frames
  <1>9. \A i \in 1 .. Len(c) : (d[i].kind = "exec" /\ d[i].done /\ ~d[i].ret) => err
    BY <1>2 DEF Frames
  <1>10. Frames(d, base, err)
    BY <1>2, <1>5, <1>6, <1>7, <1>8, <1>9 DEF Frames
  <1> QED
    BY <1>4, <1>10 DEF d

(* A call: every frame below is armed, and the callee saves the jump.      *)
LEMMA PushFrames ==
    ASSUME NEW c, NEW base, NEW err, Frames(c, base, err),
           NEW j, IsJump(j, c, Len(c), base),
           Len(c) > 0 => (c[Len(c)].kind = "tmpl" => Modules[c[Len(c)].tmpl].opcodes # <<>>),
           NEW f, FrameOK(f),
           IF Len(c) = 0 THEN f.kind = "exec" ELSE c[Len(c)].kind \in Callers(f.kind),
           f.kind \in {"exec", "tmpl"} => f.prevJmp = j,
           f.kind = "exec" => ~f.done
    PROVE  /\ Frames(Append(c, f), base, err)
           /\ \A h \in 0 .. Len(c) : \A k :
                IsJump(k, c, h, base) => IsJump(k, Append(c, f), h, base)
  <1> DEFINE d == Append(c, f)
             n == Len(c)
  <1>1. n \in Nat
    BY DEF Frames, IsSeq
  <1>2. /\ IsSeq(d) /\ Len(d) = n + 1 /\ d[n + 1] = f
        /\ \A i \in 1 .. n : d[i] = c[i]
    BY AppendSeq DEF Frames
  <1> HIDE DEF d
  <1>3. ASSUME NEW h \in 0 .. n, NEW k, IsJump(k, c, h, base)
        PROVE  IsJump(k, d, h, base)
    <2>1. h \in Nat /\ \A i \in 1 .. h : Catches(d[i]) <=> Catches(c[i])
      BY <1>1, <1>2
    <2> QED
      BY <1>3, <2>1, JumpBelow
  <1>4. \A i \in 1 .. n + 1 : i = n + 1 \/ i \in 1 .. n
    BY <1>1
  <1>5. \A i \in 1 .. n + 1 : FrameOK(d[i])
    BY <1>2, <1>4 DEF Frames
  <1>6. Nested(d)
    <2> SUFFICES ASSUME NEW i \in 1 .. n + 1
                 PROVE  IF i = 1 THEN d[i].kind = "exec"
                        ELSE d[i - 1].kind \in Callers(d[i].kind)
      BY <1>2 DEF Nested
    <2>1. CASE i = n + 1
      BY <1>1, <1>2, <2>1
    <2>2. CASE i \in 1 .. n
      BY <1>1, <1>2, <2>2 DEF Frames, Nested
    <2> QED
      BY <2>1, <2>2, <1>4
  <1>7. \A i \in 1 .. n + 1 :
          d[i].kind \in {"exec", "tmpl"} => IsJump(d[i].prevJmp, d, i - 1, base)
    <2> SUFFICES ASSUME NEW i \in 1 .. n + 1, d[i].kind \in {"exec", "tmpl"}
                 PROVE  IsJump(d[i].prevJmp, d, i - 1, base)
      OBVIOUS
    <2>1. i - 1 \in 0 .. n
      BY <1>1
    <2>2. IsJump(d[i].prevJmp, c, i - 1, base)
      <3>1. CASE i = n + 1
        BY <1>1, <1>2, <3>1
      <3>2. CASE i \in 1 .. n
        BY <1>2, <3>2 DEF Frames
      <3> QED
        BY <3>1, <3>2, <1>4
    <2> QED
      BY <2>1, <2>2, <1>3
  <1>8. \A i \in 1 .. n + 1 :
          (d[i].kind = "tmpl" /\ i < n + 1) => Modules[d[i].tmpl].opcodes # <<>>
    BY <1>1, <1>2 DEF Frames
  <1>9. \A i \in 1 .. n + 1 : (d[i].kind = "exec" /\ d[i].done /\ ~d[i].ret) => err
    BY <1>2, <1>4 DEF Frames
  <1>10. Frames(d, base, err)
    BY <1>2, <1>5, <1>6, <1>7, <1>8, <1>9 DEF Frames
  <1> QED
    BY <1>3, <1>10 DEF d

(* The same templates run.                                                 *)
SameTmpls(c, d) ==
    /\ Tmpls(d) = Tmpls(c)
    /\ \A i \in Tmpls(c) : /\ d[i].tmpl = c[i].tmpl /\ d[i].fromCache = c[i].fromCache
                           /\ d[i].prevDepth = c[i].prevDepth

(* Two call stacks with the same templates count alike.                    *)
LEMMA SameCounted ==
    ASSUME NEW c, NEW d, SameTmpls(c, d), NEW p, Counted(c, p), NEW depth, Depths(c, depth)
    PROVE  Counted(d, p) /\ Depths(d, depth)
  <1>1. \A t \in Templates : Pinning(d, t) = Pinning(c, t)
    BY DEF SameTmpls, Pinning
  <1>2. Counted(d, p)
    BY <1>1 DEF Counted
  <1>3. Depths(d, depth)
    BY DEF SameTmpls, Depths
  <1> QED
    BY <1>2, <1>3

(* The top frame goes on.                                                  *)
LEMMA TopMoves ==
    ASSUME NEW c, NEW j, NEW base, NEW err, CallOK(c, j, base, err), Len(c) > 0,
           NEW g, Alike(c[Len(c)], g),
           g.kind = "tmpl" => g.done = c[Len(c)].done,
           (g.kind = "exec" /\ g.done /\ ~g.ret) => err
    PROVE  LET d == [c EXCEPT ![Len(c)] = g]
           IN CallOK(d, j, base, err) /\ SameTmpls(c, d)
  <1> DEFINE d == [c EXCEPT ![Len(c)] = g]
  <1>1. Len(c) \in Nat /\ Len(c) \in 1 .. Len(c)
    BY DEF CallOK, Frames, IsSeq
  <1>2. /\ Len(d) = Len(c)
        /\ \A i \in 1 .. Len(c) : d[i] = IF i = Len(c) THEN g ELSE c[i]
    BY <1>1, ReplaceSeq DEF CallOK, Frames
  <1>3. /\ Frames(d, base, err)
        /\ \A h \in 0 .. Len(c) : IsJump(j, c, h, base) => IsJump(j, d, h, base)
    BY TopFrames DEF CallOK
  <1> HIDE DEF d
  <1>4. Waiting(d) <=> Waiting(c)
    BY <1>1, <1>2 DEF Waiting, Alike
  <1>5. CallOK(d, j, base, err)
    BY <1>1, <1>2, <1>3, <1>4 DEF CallOK
  <1>6. \A i \in 1 .. Len(c) : d[i].kind = c[i].kind
    BY <1>2 DEF Alike
  <1>7. Tmpls(d) = Tmpls(c)
    BY <1>2, <1>6 DEF Tmpls
  <1>8. SameTmpls(c, d)
    BY <1>2, <1>7 DEF SameTmpls, Tmpls, Alike
  <1> QED
    BY <1>5, <1>8 DEF d

(* A call of anything but a template, by a frame that is not one.          *)
LEMMA Calls ==
    ASSUME NEW c, NEW j, NEW base, NEW err, CallOK(c, j, base, err), Len(c) > 0,
           c[Len(c)].kind # "tmpl",
           NEW f, FrameOK(f), c[Len(c)].kind \in Callers(f.kind),
           f.kind \in {"prog", "op", "block"}
    PROVE  CallOK(Append(c, f), j, base, err) /\ SameTmpls(c, Append(c, f))
  <1> DEFINE d == Append(c, f)
  <1>1. Len(c) \in Nat /\ IsJump(j, c, Len(c), base)
    BY DEF CallOK, Waiting, Frames, IsSeq
  <1>2. /\ Len(d) = Len(c) + 1 /\ d[Len(c) + 1] = f
        /\ \A i \in 1 .. Len(c) : d[i] = c[i]
    BY AppendSeq DEF CallOK, Frames
  <1>3. Frames(d, base, err) /\ IsJump(j, d, Len(c), base)
    BY <1>1, PushFrames DEF CallOK
  <1> HIDE DEF d
  <1>4. ~Catches(f)
    BY DEF Catches
  <1>5. IsJump(j, d, Len(c) + 1, base)
    BY <1>1, <1>2, <1>3, <1>4 DEF IsJump
  <1>6. CallOK(d, j, base, err)
    BY <1>2, <1>3, <1>5 DEF CallOK, Waiting
  <1>7. Tmpls(d) = Tmpls(c)
    BY <1>1, <1>2 DEF Tmpls
  <1>8. SameTmpls(c, d)
    BY <1>2, <1>7 DEF SameTmpls, Tmpls
  <1> QED
    BY <1>6, <1>8 DEF d

(* execute_template is called: it has saved e->jmp and not set it.         *)
LEMMA CallsTemplate ==
    ASSUME NEW c, NEW j, NEW base, NEW err, CallOK(c, j, base, err), Len(c) > 0,
           c[Len(c)].kind = "op",
           NEW f, FrameOK(f), f.kind = "tmpl", ~f.done, f.prevJmp = j
    PROVE  CallOK(Append(c, f), j, base, err)
  <1> DEFINE d == Append(c, f)
  <1>1. Len(c) \in Nat /\ IsJump(j, c, Len(c), base)
    BY DEF CallOK, Waiting, Frames, IsSeq
  <1>2. Len(d) = Len(c) + 1 /\ d[Len(c) + 1] = f
    BY AppendSeq DEF CallOK, Frames
  <1>3. Frames(d, base, err) /\ IsJump(j, d, Len(c), base)
    BY <1>1, PushFrames DEF CallOK, Callers
  <1> HIDE DEF d
  <1>4. Waiting(d) /\ Len(d) - 1 = Len(c)
    BY <1>1, <1>2 DEF Waiting
  <1>5. CallOK(d, j, base, err)
    BY <1>3, <1>4 DEF CallOK
  <1> QED
    BY <1>5 DEF d

(* handlebars_vm_execute_ex is called.                                     *)
LEMMA CallsExecute ==
    ASSUME NEW c, NEW j \in Int, NEW base, NEW err, Frames(c, base, err),
           IsJump(j, c, Len(c), base), base \in {-1, 0},
           Len(c) > 0 => (c[Len(c)].kind = "tmpl" => Modules[c[Len(c)].tmpl].opcodes # <<>>),
           NEW f, FrameOK(f), f.kind = "exec", ~f.done, f.prevJmp = j,
           Len(c) = 0 \/ c[Len(c)].kind \in {"tmpl", "block"}
    PROVE  CallOK(Append(c, f), JmpIn(j, Len(c) + 1), base, err) /\ SameTmpls(c, Append(c, f))
  <1> DEFINE d == Append(c, f)
  <1>1. Len(c) \in Nat
    BY DEF Frames, IsSeq
  <1>2. /\ Len(d) = Len(c) + 1 /\ d[Len(c) + 1] = f
        /\ \A i \in 1 .. Len(c) : d[i] = c[i]
    BY AppendSeq DEF Frames
  <1>3. Frames(d, base, err) /\ IsJump(j, d, Len(c), base)
    <2>1. IF Len(c) = 0 THEN f.kind = "exec" ELSE c[Len(c)].kind \in Callers(f.kind)
      BY DEF Callers
    <2> QED
      BY <1>1, <2>1, PushFrames
  <1> HIDE DEF d
  <1>4. Catches(f) <=> j = 0
    BY DEF Catches
  <1>5. IsJump(JmpIn(j, Len(c) + 1), d, Len(c) + 1, base)
    BY <1>1, <1>2, <1>3, <1>4 DEF IsJump, JmpIn
  <1>6. CallOK(d, JmpIn(j, Len(c) + 1), base, err)
    BY <1>2, <1>3, <1>5 DEF CallOK, Waiting
  <1>7. Tmpls(d) = Tmpls(c)
    BY <1>1, <1>2 DEF Tmpls
  <1>8. SameTmpls(c, d)
    BY <1>2, <1>7 DEF SameTmpls, Tmpls
  <1> QED
    BY <1>6, <1>8 DEF d

(* What is left when the frames above m are gone, with g in place of the   *)
(* frame at m.                                                             *)
Unwound(c, m, g) == [SubSeq(c, 1, m) EXCEPT ![m] = g]

(* A stack that is unwound to the frame that catches.                      *)
LEMMA UnwindFrames ==
    ASSUME NEW c, NEW base, NEW err, Frames(c, base, err), NEW m \in 1 .. Len(c),
           NEW g, Alike(c[m], g), (g.kind = "exec" /\ g.done /\ ~g.ret) => err
    PROVE  LET d == Unwound(c, m, g)
           IN /\ Frames(d, base, err)
              /\ Len(d) = m /\ d[m] = g
              /\ \A i \in 1 .. m : i < m => d[i] = c[i]
              /\ \A h \in 0 .. m : \A j : IsJump(j, c, h, base) => IsJump(j, d, h, base)
  <1> DEFINE e == SubSeq(c, 1, m)
             d == [e EXCEPT ![m] = g]
  <1>1. Len(c) \in Nat /\ m \in 0 .. Len(c) /\ m > 0
    BY DEF Frames, IsSeq
  <1>2. IsSeq(e) /\ Len(e) = m /\ \A i \in 1 .. m : e[i] = c[i]
    BY <1>1, PrefixSeq DEF Frames
  <1>3. /\ Frames(e, base, err)
        /\ \A h \in 0 .. m : \A j : IsJump(j, c, h, base) => IsJump(j, e, h, base)
    BY <1>1, PrefixFrames
  <1> HIDE DEF e
  <1>4. e[Len(e)] = c[m] /\ Len(e) > 0 /\ d = [e EXCEPT ![Len(e)] = g]
    BY <1>1, <1>2
  <1>5. /\ Len(d) = m
        /\ \A i \in 1 .. m : d[i] = IF i = m THEN g ELSE e[i]
    BY <1>1, <1>2, ReplaceSeq
  <1>6. /\ Frames(d, base, err)
        /\ \A h \in 0 .. m : \A j : IsJump(j, e, h, base) => IsJump(j, d, h, base)
    BY <1>2, <1>3, <1>4, TopFrames
  <1> HIDE DEF d
  <1>7. \A h \in 0 .. m : \A j : IsJump(j, c, h, base) => IsJump(j, d, h, base)
    BY <1>3, <1>6
  <1>8. d[m] = g /\ \A i \in 1 .. m : i < m => d[i] = c[i]
    BY <1>1, <1>2, <1>5
  <1> QED
    BY <1>5, <1>6, <1>7, <1>8 DEF d, e, Unwound

(* Taking off frames that are not templates.                               *)
LEMMA UnwindTmpls ==
    ASSUME NEW c, NEW d, Len(c) \in Nat, NEW m \in 1 .. Len(c), NEW g, Alike(c[m], g),
           Len(d) = m, d[m] = g, \A i \in 1 .. m : i < m => d[i] = c[i],
           \A i \in 1 .. Len(c) : i > m => c[i].kind # "tmpl"
    PROVE  SameTmpls(c, d)
  <1>1. \A i \in 1 .. m : d[i].kind = c[i].kind
    BY DEF Alike
  <1>2. Tmpls(d) = Tmpls(c)
    BY <1>1 DEF Tmpls
  <1>3. \A i \in Tmpls(c) : i \in 1 .. m
    BY DEF Tmpls
  <1> QED
    BY <1>2, <1>3 DEF SameTmpls, Tmpls, Alike

(* A program, a handler or a closure returns.                              *)
LEMMA Returns ==
    ASSUME NEW c, NEW j, NEW base, NEW err, CallOK(c, j, base, err), Len(c) > 1,
           c[Len(c)].kind \in {"prog", "op", "block"},
           c[Len(c) - 1].kind # "tmpl",
           NEW g, Alike(c[Len(c) - 1], g), (g.kind = "exec" /\ g.done /\ ~g.ret) => err
    PROVE  LET d == Unwound(c, Len(c) - 1, g)
           IN CallOK(d, j, base, err) /\ SameTmpls(c, d)
  <1> DEFINE m == Len(c) - 1
             d == Unwound(c, m, g)
  <1>1. Len(c) \in Nat /\ m \in 1 .. Len(c) /\ Len(c) = m + 1
    BY DEF CallOK, Frames, IsSeq
  <1>2. /\ Frames(d, base, err)
        /\ Len(d) = m /\ d[m] = g
        /\ \A i \in 1 .. m : i < m => d[i] = c[i]
        /\ \A h \in 0 .. m : \A k : IsJump(k, c, h, base) => IsJump(k, d, h, base)
    <2>1. Frames(c, base, err) /\ Alike(c[m], g)
      BY DEF CallOK
    <2> HIDE DEF m
    <2> QED
      BY <1>1, <2>1, UnwindFrames
  <1> HIDE DEF d
  <1>3. IsJump(j, c, Len(c), base)
    BY DEF CallOK, Waiting
  <1>4. ~Catches(c[Len(c)])
    BY DEF Catches
  <1>5. IsJump(j, c, m, base)
    BY <1>1, <1>3, <1>4 DEF IsJump
  <1>6. IsJump(j, d, m, base)
    BY <1>1, <1>2, <1>5
  <1>7. ~Waiting(d)
    BY <1>2 DEF Waiting, Alike
  <1>8. CallOK(d, j, base, err)
    BY <1>2, <1>6, <1>7 DEF CallOK
  <1>9. \A i \in 1 .. Len(c) : i > m => c[i].kind # "tmpl"
    BY <1>1
  <1>10. SameTmpls(c, d)
    BY <1>1, <1>2, <1>9, UnwindTmpls
  <1> QED
    BY <1>8, <1>10 DEF d

(* A frame that saved e->jmp returns to its caller, and restores it.       *)
LEMMA Restores ==
    ASSUME NEW c, NEW j, NEW base, NEW err, CallOK(c, j, base, err), Len(c) > 1,
           c[Len(c)].kind \in {"exec", "tmpl"},
           NEW g, Alike(c[Len(c) - 1], g), g.kind # "exec", g.kind = "tmpl" => g.done
    PROVE  LET d == Unwound(c, Len(c) - 1, g)
           IN /\ CallOK(d, c[Len(c)].prevJmp, base, err)
              /\ c[Len(c)].kind = "exec" => SameTmpls(c, d)
  <1> DEFINE m == Len(c) - 1
             d == Unwound(c, m, g)
  <1>1. Len(c) \in Nat /\ m \in 1 .. Len(c) /\ Len(c) = m + 1
    BY DEF CallOK, Frames, IsSeq
  <1>2. /\ Frames(d, base, err)
        /\ Len(d) = m /\ d[m] = g
        /\ \A i \in 1 .. m : i < m => d[i] = c[i]
        /\ \A h \in 0 .. m : \A k : IsJump(k, c, h, base) => IsJump(k, d, h, base)
    BY <1>1, UnwindFrames DEF CallOK
  <1> HIDE DEF d
  <1>3. IsJump(c[Len(c)].prevJmp, c, m, base)
    BY <1>1 DEF CallOK, Frames
  <1>4. IsJump(c[Len(c)].prevJmp, d, m, base)
    BY <1>1, <1>2, <1>3
  <1>5. ~Waiting(d)
    BY <1>2 DEF Waiting, Alike
  <1>6. CallOK(d, c[Len(c)].prevJmp, base, err)
    BY <1>2, <1>4, <1>5 DEF CallOK
  <1>7. c[Len(c)].kind = "exec" => SameTmpls(c, d)
    BY <1>1, <1>2, UnwindTmpls
  <1> QED
    BY <1>6, <1>7 DEF d

(* handlebars_throw: to the innermost frame that catches, which is above   *)
(* every template but one that waits.                                      *)
Thrown(c, j) ==
    IF j <= 0 THEN <<>> ELSE [SubSeq(c, 1, j) EXCEPT ![j].done = TRUE]

(* A frame that is done is alike to itself before.                         *)
LEMMA DoneAlike ==
    ASSUME NEW f, FrameOK(f), f.kind # "prog"
    PROVE  Alike(f, [f EXCEPT !.done = TRUE]) /\ [f EXCEPT !.done = TRUE].done
  BY DEF FrameOK, Kinds, Fields, Alike

(* An error leaves the frames that catch it, and their templates.          *)
LEMMA Throws ==
    ASSUME NEW c, NEW j, NEW base, NEW err, CallOK(c, j, base, err), Len(c) > 0,
           c[Len(c)].kind # "tmpl", base \in {-1, 0}
    PROVE  CallOK(Thrown(c, j), j, base, TRUE) /\ SameTmpls(c, Thrown(c, j))
  <1> DEFINE n == Len(c)
  <1>1. n \in Nat /\ IsJump(j, c, n, base)
    BY DEF CallOK, Waiting, Frames, IsSeq
  <1>2. Frames(c, base, TRUE)
    BY DEF CallOK, Frames
  <1>3. \A i \in 1 .. n : c[i].kind = "tmpl" => Catches(c[i])
    <2> SUFFICES ASSUME NEW i \in 1 .. n, c[i].kind = "tmpl" PROVE Catches(c[i])
      OBVIOUS
    <2>1. i < n
      BY <1>1
    <2> QED
      BY <2>1, <1>2 DEF Frames, Catches
  <1>4. CASE j = base /\ \A y \in 1 .. n : ~Catches(c[y])
    <2>1. Thrown(c, j) = <<>>
      BY <1>4 DEF Thrown
    <2>2. Tmpls(c) = {} /\ Tmpls(<<>>) = {}
      BY <1>3, <1>4 DEF Tmpls
    <2>3. CallOK(<<>>, j, base, TRUE)
      BY <1>4, EmptyIsSeq DEF CallOK, Frames, Nested, IsJump, Waiting
    <2> QED
      BY <2>1, <2>2, <2>3 DEF SameTmpls
  <1>5. CASE j \in 1 .. n /\ Catches(c[j]) /\ \A y \in 1 .. n : y > j => ~Catches(c[y])
    <2> DEFINE g == [c[j] EXCEPT !.done = TRUE]
               d == Unwound(c, j, g)
    <2>1. j \in Nat /\ ~(j <= 0) /\ SubSeq(c, 1, j)[j] = c[j]
      BY <1>1, <1>5, PrefixSeq DEF CallOK, Frames
    <2>2. Thrown(c, j) = d
      BY <2>1 DEF Thrown, Unwound
    <2>3. c[j].kind \in {"exec", "tmpl"} /\ FrameOK(c[j])
      BY <1>2, <1>5 DEF Frames, Catches
    <2>4. Alike(c[j], g) /\ g.done
      BY <2>3, DoneAlike
    <2> HIDE DEF g
    <2>5. /\ Frames(d, base, TRUE)
          /\ Len(d) = j /\ d[j] = g
          /\ \A i \in 1 .. j : i < j => d[i] = c[i]
          /\ \A h \in 0 .. j : \A k : IsJump(k, c, h, base) => IsJump(k, d, h, base)
      BY <1>2, <1>5, <2>4, UnwindFrames
    <2> HIDE DEF d
    <2>6. IsJump(j, c, j, base)
      BY <1>5, <2>1 DEF IsJump
    <2>7. IsJump(j, d, j, base)
      BY <2>1, <2>5, <2>6
    <2>8. ~Waiting(d)
      BY <2>4, <2>5 DEF Waiting
    <2>9. CallOK(d, j, base, TRUE)
      BY <2>5, <2>7, <2>8 DEF CallOK
    <2>10. \A i \in 1 .. n : i > j => c[i].kind # "tmpl"
      BY <1>3, <1>5
    <2>11. SameTmpls(c, d)
      BY <1>1, <1>5, <2>4, <2>5, <2>10, UnwindTmpls
    <2> QED
      BY <2>2, <2>9, <2>11
  <1> QED
    BY <1>1, <1>4, <1>5 DEF IsJump

(* The frames that hold a module can be counted.                           *)
LEMMA PinningFinite ==
    ASSUME NEW c, Len(c) \in Nat, NEW t
    PROVE  IsFiniteSet(Pinning(c, t)) /\ Cardinality(Pinning(c, t)) \in Nat
  <1>1. IsFiniteSet(1 .. Len(c))
    BY FS_Interval
  <1>2. Pinning(c, t) \subseteq 1 .. Len(c)
    BY DEF Pinning, Tmpls
  <1> QED
    BY <1>1, <1>2, FS_Subset, FS_CardinalityType

(* execute_template has found its module in the cache, or not.             *)
LEMMA TemplateEnters ==
    ASSUME NEW c, NEW d, Len(c) \in Nat, NEW f, f.kind = "tmpl",
           Len(d) = Len(c) + 1, d[Len(c) + 1] = f, \A i \in 1 .. Len(c) : d[i] = c[i],
           NEW p, Counted(c, p), NEW depth, Depths(c, depth), f.prevDepth = depth
    PROVE  /\ Counted(d, IF f.fromCache THEN [p EXCEPT ![f.tmpl] = @ + 1] ELSE p)
           /\ Depths(d, depth)
  <1> DEFINE n == Len(c) + 1
             q == IF f.fromCache THEN [p EXCEPT ![f.tmpl] = @ + 1] ELSE p
  <1>1. Tmpls(d) = Tmpls(c) \cup {n} /\ n \notin Tmpls(c) /\ n \in Nat
        /\ \A i \in Tmpls(c) : i < n /\ i \in Nat
    BY DEF Tmpls
  <1>2. \A i \in Tmpls(c) : d[i] = c[i]
    BY DEF Tmpls
  <1>3. \A t \in Templates : Pinning(d, t) =
          IF f.tmpl = t /\ f.fromCache THEN Pinning(c, t) \cup {n} ELSE Pinning(c, t)
    BY <1>1, <1>2 DEF Pinning
  <1>4. \A t \in Templates : n \notin Pinning(c, t)
    BY <1>1 DEF Pinning
  <1>5. \A t \in Templates :
          Cardinality(Pinning(d, t)) =
            IF f.tmpl = t /\ f.fromCache THEN Cardinality(Pinning(c, t)) + 1
            ELSE Cardinality(Pinning(c, t))
    BY <1>3, <1>4, PinningFinite, FS_AddElement
  <1>6. q \in [Templates -> Int] /\ \A t \in Templates :
          q[t] = IF f.tmpl = t /\ f.fromCache THEN p[t] + 1 ELSE p[t]
    <2>1. p \in [Templates -> Int]
      BY DEF Counted
    <2>2. CASE f.tmpl \in Templates
      BY <2>1, <2>2
    <2>3. CASE f.tmpl \notin Templates
      <3>1. [p EXCEPT ![f.tmpl] = @ + 1] = p
        BY <2>1, <2>3
      <3> QED
        BY <2>1, <2>3, <3>1
    <2> QED
      BY <2>2, <2>3
  <1>7. Counted(d, q)
    BY <1>5, <1>6 DEF Counted
  <1>8. Depths(d, depth)
    <2>1. Tmpls(d) # {}
      BY <1>1
    <2>2. ASSUME NEW i \in Tmpls(d), \A k \in Tmpls(d) : i <= k
          PROVE  d[i].prevDepth = 0
      <3>1. CASE i = n
        <4>1. Tmpls(c) = {}
          <5> SUFFICES ASSUME NEW k \in Tmpls(c) PROVE FALSE
            OBVIOUS
          <5>1. k \in Tmpls(d) /\ k < n /\ k \in Nat
            BY <1>1
          <5> QED
            BY <1>1, <2>2, <3>1, <5>1
        <4>2. depth = 0 /\ d[n] = f
          BY <4>1 DEF Depths
        <4> QED
          BY <4>2, <3>1
      <3>2. CASE i \in Tmpls(c)
        BY <1>1, <1>2, <2>2, <3>2 DEF Depths
      <3> QED
        BY <3>1, <3>2, <1>1
    <2> QED
      BY <2>1, <2>2 DEF Depths
  <1> QED
    BY <1>7, <1>8

(* It releases the module and puts the depth back.                         *)
LEMMA TemplateLeaves ==
    ASSUME NEW c, NEW d, Len(c) \in Nat \ {0}, c[Len(c)].kind = "tmpl",
           Len(d) = Len(c) - 1,
           \A i \in 1 .. Len(c) - 1 : d[i].kind = c[i].kind /\ (c[i].kind = "tmpl" => d[i] = c[i]),
           NEW p, Counted(c, p), NEW depth, Depths(c, depth)
    PROVE  LET f == c[Len(c)]
           IN /\ Counted(d, IF f.fromCache THEN [p EXCEPT ![f.tmpl] = @ - 1] ELSE p)
              /\ Depths(d, f.prevDepth)
  <1> DEFINE n == Len(c)
             f == c[n]
             q == IF f.fromCache THEN [p EXCEPT ![f.tmpl] = @ - 1] ELSE p
  <1>1. Tmpls(d) = Tmpls(c) \ {n} /\ n \in Tmpls(c) /\ n \in Nat
        /\ \A i \in Tmpls(d) : i < n /\ i \in Nat
    BY DEF Tmpls
  <1>2. \A i \in Tmpls(d) : d[i] = c[i]
    BY DEF Tmpls
  <1>3. \A t \in Templates : Pinning(d, t) =
          IF f.tmpl = t /\ f.fromCache THEN Pinning(c, t) \ {n} ELSE Pinning(c, t)
    BY <1>1, <1>2 DEF Pinning
  <1>4. \A t \in Templates : (f.tmpl = t /\ f.fromCache) => n \in Pinning(c, t)
    BY <1>1 DEF Pinning
  <1>5. \A t \in Templates :
          Cardinality(Pinning(d, t)) =
            IF f.tmpl = t /\ f.fromCache THEN Cardinality(Pinning(c, t)) - 1
            ELSE Cardinality(Pinning(c, t))
    BY <1>3, <1>4, PinningFinite, FS_RemoveElement
  <1>6. q \in [Templates -> Int] /\ \A t \in Templates :
          q[t] = IF f.tmpl = t /\ f.fromCache THEN p[t] - 1 ELSE p[t]
    <2>1. p \in [Templates -> Int]
      BY DEF Counted
    <2>2. CASE f.tmpl \in Templates
      BY <2>1, <2>2
    <2>3. CASE f.tmpl \notin Templates
      <3>1. [p EXCEPT ![f.tmpl] = @ - 1] = p
        BY <2>1, <2>3
      <3> QED
        BY <2>1, <2>3, <3>1
    <2> QED
      BY <2>2, <2>3
  <1>7. Counted(d, q)
    BY <1>5, <1>6 DEF Counted
  <1>8. Depths(d, f.prevDepth)
    <2>1. Tmpls(d) = {} => f.prevDepth = 0
      BY <1>1 DEF Depths
    <2>2. ASSUME NEW i \in Tmpls(d), \A k \in Tmpls(d) : i <= k
          PROVE  d[i].prevDepth = 0
      <3>1. \A k \in Tmpls(c) : i <= k
        BY <1>1, <2>2
      <3> QED
        BY <1>1, <1>2, <3>1 DEF Depths
    <2> QED
      BY <2>1, <2>2 DEF Depths
  <1> QED
    BY <1>7, <1>8

-----------------------------------------------------------------------------
(* Steps *)

VmFields == {"module", "buffer", "data", "depth", "lastHelper", "owner"}

(* A step that leaves the templates alone.                                 *)
LEMMA StepKeeps ==
    ASSUME CallInv, CallOK(call', jmp', Base, error'), SameTmpls(call, call'),
           pins' = pins, DOMAIN vm' = VmFields, vm'.depth = vm.depth,
           DOMAIN app' = DOMAIN app, app'.ret = app.ret, app'.catches = app.catches,
           error' \in BOOLEAN, error => error'
    PROVE  CallInv'
  <1>1. Registers'
    BY DEF CallInv, Registers, VmFields
  <1>2. Base' = Base
    BY DEF Base
  <1>3. Counted(call', pins') /\ Depths(call', vm'.depth)
    BY SameCounted DEF CallInv
  <1>4. NullReported'
    BY DEF CallInv, NullReported
  <1> QED
    BY <1>1, <1>2, <1>3, <1>4 DEF CallInv

(* The top of the C stack.                                                 *)
LEMMA TopOf ==
    ASSUME CallInv, call # <<>>
    PROVE  /\ Len(call) \in Nat \ {0} /\ Last(call) = call[Len(call)]
           /\ FrameOK(Last(call))
           /\ Last(call).kind \in Kinds
           /\ Last(call).kind # "exec" => Len(call) > 1
           /\ Len(call) > 1 => call[Len(call) - 1].kind \in Callers(Last(call).kind)
           /\ Len(call) > 1 => FrameOK(call[Len(call) - 1])
           /\ IsSeq(Front(call)) /\ Len(Front(call)) = Len(call) - 1
           /\ \A i \in 1 .. Len(call) - 1 : Front(call)[i] = call[i]
           /\ Front(call) = SubSeq(call, 1, Len(call) - 1)
  <1>1. IsSeq(call)
    BY DEF CallInv, CallOK, Frames
  <1>2. /\ Len(call) \in Nat \ {0} /\ Last(call) = call[Len(call)]
        /\ IsSeq(Front(call)) /\ Len(Front(call)) = Len(call) - 1
        /\ \A i \in 1 .. Len(call) - 1 : Front(call)[i] = call[i]
    BY <1>1, FrontSeq
  <1>3. FrameOK(Last(call)) /\ Last(call).kind \in Kinds
    BY <1>2 DEF CallInv, CallOK, Frames, FrameOK
  <1>4. Len(call) > 1 => FrameOK(call[Len(call) - 1])
    BY <1>2 DEF CallInv, CallOK, Frames
  <1>5. IF Len(call) = 1 THEN Last(call).kind = "exec"
        ELSE call[Len(call) - 1].kind \in Callers(Last(call).kind)
    BY <1>2 DEF CallInv, CallOK, Frames, Nested
  <1>6. Front(call) = SubSeq(call, 1, Len(call) - 1)
    BY DEF Front
  <1> QED
    BY <1>2, <1>3, <1>4, <1>5, <1>6

(* A use of memory that is not there changes nothing it speaks of.         *)
LEMMA FaultKeeps ==
    ASSUME CallInv, NEW what, Fault(what)
    PROVE  CallInv'
  <1>1. DOMAIN app' = DOMAIN app /\ app'.ret = app.ret /\ app'.catches = app.catches
    BY DEF Fault, CallInv, Registers
  <1>2. Base' = Base
    BY <1>1 DEF Base
  <1> QED
    BY <1>1, <1>2 DEF CallInv, Registers, NullReported, Fault

(* An error that is thrown keeps the invariant.                            *)
LEMMA ThrowKeeps ==
    ASSUME CallInv, call # <<>>, Last(call).kind # "tmpl",
           NEW s, NEW v, DOMAIN v = VmFields, v.depth = vm.depth, Throw(s, v)
    PROVE  CallInv'
  <1>1. Base \in {-1, 0}
    BY DEF Base
  <1>2. call' = Thrown(call, jmp) /\ jmp' = jmp /\ error' = TRUE /\ vm' = v /\ pins' = pins
    BY DEF Throw, Thrown
  <1>3. CallOK(call', jmp', Base, error') /\ SameTmpls(call, call')
    <2>1. CallOK(call, jmp, Base, error) /\ Len(call) > 0 /\ call[Len(call)].kind # "tmpl"
      BY TopOf DEF CallInv
    <2> QED
      BY <1>1, <1>2, <2>1, Throws
  <1>4. DOMAIN app' = DOMAIN app /\ app'.ret = app.ret /\ app'.catches = app.catches
    BY DEF Throw, CallInv, Registers
  <1>5. Base' = Base
    BY <1>4 DEF Base
  <1>6. Registers'
    BY <1>2, <1>4 DEF CallInv, Registers, VmFields
  <1>7. Counted(call', pins') /\ Depths(call', vm'.depth)
    BY <1>2, <1>3, SameCounted DEF CallInv
  <1>8. NullReported'
    BY <1>2 DEF NullReported
  <1> QED
    BY <1>3, <1>5, <1>6, <1>7, <1>8 DEF CallInv

(* The fields of the virtual machine.                                      *)
LEMMA VmTypes ==
    ASSUME CallInv
    PROVE  DOMAIN vm = VmFields
  BY DEF CallInv, Registers, VmFields

(* A handler that calls nothing goes on to the next opcode.                *)
Moves(s) ==
    /\ stk' = s
    /\ call' = Advance(call)
    /\ DOMAIN app' = DOMAIN app /\ app'.ret = app.ret /\ app'.catches = app.catches
    /\ UNCHANGED <<vm, jmp, error, pins, cached>>

(* What the opcodes that call nothing do.                                  *)
LEMMA StackedMoves ==
    ASSUME CallInv
    PROVE  /\ \A s : Stacked(s) => Moves(s)
           /\ AppendValue => \/ Throw(stk, vm)
                             \/ ~PopThrows(stk, "stack", 1) /\ Moves(Pop(stk, "stack", 1))
  <1>1. ASSUME NEW s, Stacked(s) PROVE Moves(s)
    BY <1>1 DEF Stacked, Moves
  <1>2. ASSUME AppendValue, ~PopThrows(stk, "stack", 1) PROVE Moves(Pop(stk, "stack", 1))
    <2>1. /\ stk' = Pop(stk, "stack", 1) /\ call' = Advance(call)
          /\ UNCHANGED <<vm, jmp, error, pins, cached>>
          /\ \E b : app' = [app EXCEPT !.overdrawn = b]
      BY <1>2 DEF AppendValue
    <2> QED
      BY <2>1 DEF Moves, CallInv, Registers
  <1> QED
    BY <1>1, <1>2 DEF AppendValue

(* A handler that calls nothing, or throws.                                *)
LEMMA StackedKeeps ==
    ASSUME CallInv, TopIs("prog"), NEW s, Moves(s)
    PROVE  CallInv'
  <1> DEFINE n == Len(call)
             g == [call[n] EXCEPT !.pc = @ + 1]
  <1>1. n \in Nat \ {0} /\ call[n].kind = "prog" /\ FrameOK(call[n])
    BY TopOf DEF TopIs
  <1>2. Alike(call[n], g) /\ g.kind = "prog"
    BY <1>1 DEF FrameOK, Fields, Kinds, Alike
  <1>3. call' = [call EXCEPT ![n] = g]
    BY DEF Moves, Advance
  <1> HIDE DEF g
  <1>4. CallOK(call', jmp, Base, error) /\ SameTmpls(call, call')
    <2>1. CallOK(call, jmp, Base, error) /\ n > 0
      BY <1>1 DEF CallInv
    <2> QED
      BY <1>2, <1>3, <2>1, TopMoves
  <1> QED
    BY <1>4, VmTypes, StepKeeps DEF Moves, CallInv, Registers

(* An error thrown by an opcode keeps the invariant.                       *)
LEMMA ThrowInProgram ==
    ASSUME CallInv, TopIs("prog"), NEW s, Throw(s, vm)
    PROVE  CallInv'
  BY ThrowKeeps, VmTypes DEF TopIs

(* A push, which may throw, keeps the invariant.                           *)
LEMMA PushKeeps ==
    ASSUME CallInv, TopIs("prog"), NEW s, NEW n, NEW v, PushOrThrow(s, n, v)
    PROVE  CallInv'
  BY StackedMoves, StackedKeeps, ThrowInProgram DEF PushOrThrow

(* The frame of an opcode's handler is a frame.                            *)
LEMMA HandlerOK ==
    ASSUME NEW a, NEW b
    PROVE  FrameOK(Handler(a, b)) /\ Handler(a, b).kind = "op"
  BY DEF Handler, FrameOK, Fields, Kinds

(* It stays one when one of its locals is set.                             *)
LEMMA FieldOK ==
    ASSUME NEW f, FrameOK(f), f.kind = "op", NEW x
    PROVE  /\ FrameOK([f EXCEPT !.value = x]) /\ [f EXCEPT !.value = x].kind = "op"
           /\ FrameOK([f EXCEPT !.lastHelper = x]) /\ [f EXCEPT !.lastHelper = x].kind = "op"
           /\ FrameOK([f EXCEPT !.pushed = x]) /\ [f EXCEPT !.pushed = x].kind = "op"
           /\ FrameOK([f EXCEPT !.helper = x]) /\ [f EXCEPT !.helper = x].kind = "op"
  BY DEF FrameOK, Fields, Kinds

(* Having the same templates is transitive.                                *)
LEMMA SameTransitive ==
    ASSUME NEW c, NEW d, NEW e, SameTmpls(c, d), SameTmpls(d, e)
    PROVE  SameTmpls(c, e)
  BY DEF SameTmpls

(* handlebars_value_call: a helper, a partial's block or a template.       *)
LEMMA InvokeKeeps ==
    ASSUME CallInv, TopIs("prog"), NEW f, FrameOK(f), f.kind = "op", NEW s, NEW callee,
           NEW ctx, Invoke(f, s, callee, ctx)
    PROVE  CallInv'
  <1> DEFINE f1 == [f EXCEPT !.helper = FALSE]
             b == [kind |-> "block", done |-> FALSE, closure |-> callee,
                   ctx |-> ctx, pushed |-> FALSE]
             found == callee.t = "tmpl" /\ Key(callee.tmpl) \in cached
             t == [kind |-> "tmpl", done |-> FALSE, tmpl |-> callee.tmpl, ctx |-> ctx,
                   fromCache |-> found, prevJmp |-> jmp, prevDepth |-> vm.depth]
             c1 == Append(call, f1)
  <1>1. /\ IsSeq(call) /\ CallOK(call, jmp, Base, error)
        /\ Len(call) > 0 /\ call[Len(call)].kind = "prog"
    BY TopOf DEF TopIs, CallInv, CallOK, Frames
  <1>2. /\ UNCHANGED <<jmp, error, cached, app>>
        /\ DOMAIN vm' = VmFields /\ vm'.depth = vm.depth
        /\ pins' = IF found THEN [pins EXCEPT ![callee.tmpl] = @ + 1] ELSE pins
    BY VmTypes DEF Invoke, VmFields
  <1>3. FrameOK(f1) /\ f1.kind = "op"
    BY FieldOK
  <1>4. FrameOK(b) /\ b.kind = "block" /\ FrameOK(t) /\ t.kind = "tmpl" /\ ~t.done
        /\ t.prevJmp = jmp /\ t.prevDepth = vm.depth
    BY DEF FrameOK, Fields, Kinds
  <1>5. call' = IF callee.t = "fn" THEN call \o <<f>>
                ELSE IF callee.t = "block" THEN call \o <<f1, b>> ELSE call \o <<f1, t>>
    BY DEF Invoke
  <1>6. CASE callee.t = "fn"
    <2>1. call' = Append(call, f)
      BY <1>1, <1>5, <1>6, AppendOne
    <2>2. CallOK(call', jmp, Base, error) /\ SameTmpls(call, call')
      BY <1>1, <2>1, Calls DEF Callers
    <2>3. pins' = pins
      BY <1>2, <1>6
    <2> QED
      BY <1>2, <2>2, <2>3, StepKeeps DEF CallInv, Registers
  <1> HIDE DEF f1, b
  <1>7. /\ CallOK(c1, jmp, Base, error) /\ SameTmpls(call, c1)
        /\ IsSeq(c1) /\ Len(c1) = Len(call) + 1 /\ c1[Len(c1)].kind = "op"
    BY <1>1, <1>3, Calls, AppendSeq DEF Callers
  <1>8. Len(c1) \in Nat \ {0}
    BY <1>1, <1>7 DEF IsSeq
  <1>9. CASE callee.t = "block"
    <2>1. call' = Append(c1, b)
      BY <1>1, <1>5, <1>9, AppendTwo
    <2> HIDE DEF c1
    <2>2. CallOK(call', jmp, Base, error) /\ SameTmpls(c1, call')
      BY <1>4, <1>7, <1>8, <2>1, Calls DEF Callers
    <2>3. pins' = pins
      BY <1>2, <1>9
    <2>4. SameTmpls(call, call')
      BY <1>7, <2>2, SameTransitive
    <2> QED
      BY <1>2, <2>2, <2>3, <2>4, StepKeeps DEF CallInv, Registers
  <1>10. CASE callee.t # "fn" /\ callee.t # "block"
    <2>1. call' = Append(c1, t)
      BY <1>1, <1>5, <1>10, AppendTwo
    <2>2. t.fromCache = found /\ t.tmpl = callee.tmpl
      OBVIOUS
    <2> HIDE DEF c1, t, found
    <2>3. CallOK(call', jmp, Base, error)
      BY <1>4, <1>7, <1>8, <2>1, CallsTemplate
    <2>4. Counted(c1, pins) /\ Depths(c1, vm.depth)
      BY <1>7, SameCounted DEF CallInv
    <2>5. /\ Len(call') = Len(c1) + 1 /\ call'[Len(c1) + 1] = t
          /\ \A i \in 1 .. Len(c1) : call'[i] = c1[i]
      BY <1>7, <2>1, AppendSeq
    <2>6. /\ Counted(call', IF t.fromCache THEN [pins EXCEPT ![t.tmpl] = @ + 1] ELSE pins)
          /\ Depths(call', vm.depth)
      BY <1>4, <1>8, <2>4, <2>5, TemplateEnters
    <2>7. Counted(call', pins') /\ Depths(call', vm'.depth)
      BY <1>2, <2>2, <2>6
    <2>8. Base' = Base
      BY <1>2 DEF Base
    <2> QED
      BY <1>2, <2>3, <2>7, <2>8 DEF CallInv, Registers, NullReported, VmFields
  <1> QED
    BY <1>6, <1>9, <1>10

(* handlebars_vm_execute_program_ex: a fault, a throw, or a program.  The  *)
(* caller has changed its own frame to g.                                  *)
LEMMA RunProgramKeeps ==
    ASSUME CallInv, call # <<>>, Last(call).kind \in {"exec", "op", "block"},
           NEW c, NEW g, c = [call EXCEPT ![Len(call)] = g], Alike(Last(call), g),
           (g.kind = "exec" /\ g.done /\ ~g.ret) => error,
           NEW s, NEW n, NEW ctx, NEW newData, NEW blockParams,
           RunProgram(c, s, n, ctx, newData, blockParams)
    PROVE  CallInv'
  <1> DEFINE f == [kind |-> "prog", module |-> vm.module,
                   pc |-> ModuleOf(vm.module).programs[n + 1].offset + 1,
                   prevBuffer |-> vm.buffer, hasData |-> newData, prevData |-> vm.data,
                   count |-> Len5(s), protect |-> [m \in StackNames |-> s[m].protect],
                   at |-> [m \in StackNames |-> s[m].v]]
             buffered == [vm EXCEPT !.buffer = Len(c) + 1]
             withData == [buffered EXCEPT !.data = IF newData THEN Len(c) + 1 ELSE @]
  <1>1. \/ \E what : Fault(what)
        \/ \E t : Throw(t, vm) \/ Throw(t, buffered) \/ Throw(t, withData)
        \/ call' = Append(c, f) /\ vm' = withData /\ UNCHANGED <<jmp, error, pins, cached, app>>
    BY DEF RunProgram
  <1>2. DOMAIN vm = VmFields /\ DOMAIN buffered = VmFields /\ buffered.depth = vm.depth
    BY VmTypes DEF VmFields
  <1> HIDE DEF buffered
  <1>3. DOMAIN withData = VmFields /\ withData.depth = vm.depth
    BY <1>2 DEF VmFields
  <1>4. FrameOK(f) /\ f.kind = "prog"
    BY DEF FrameOK, Fields, Kinds
  <1> HIDE DEF withData, f
  <1>5. CASE \E what : Fault(what)
    BY <1>5, FaultKeeps
  <1>6. CASE \E t : Throw(t, vm) \/ Throw(t, buffered) \/ Throw(t, withData)
    BY <1>2, <1>3, <1>6, ThrowKeeps
  <1>7. CASE call' = Append(c, f) /\ vm' = withData /\ UNCHANGED <<jmp, error, pins, cached, app>>
    <2>1. /\ CallOK(call, jmp, Base, error) /\ Len(call) > 0 /\ IsSeq(call)
          /\ Len(call) \in Nat \ {0}
          /\ Last(call) = call[Len(call)]
      BY TopOf DEF CallInv, CallOK, Frames
    <2>2. CallOK(c, jmp, Base, error) /\ SameTmpls(call, c)
      BY <2>1, TopMoves DEF Alike
    <2>3. Len(c) = Len(call) /\ c[Len(call)] = g
      BY <2>1, ReplaceSeq
    <2>4. CallOK(call', jmp, Base, error) /\ SameTmpls(c, call')
      BY <1>4, <1>7, <2>1, <2>2, <2>3, Calls DEF Callers, Alike
    <2>5. SameTmpls(call, call')
      BY <2>2, <2>4, SameTransitive
    <2> QED
      BY <1>3, <1>7, <2>4, <2>5, StepKeeps DEF CallInv, Registers
  <1> QED
    BY <1>1, <1>5, <1>6, <1>7

(* handlebars_vm_execute_ex is called from c, where e->jmp is j.           *)
LEMMA EnterKeeps ==
    ASSUME CallInv, NEW c, NEW j, Frames(c, Base, error), IsJump(j, c, Len(c), Base),
           SameTmpls(call, c),
           Len(c) > 0 => (c[Len(c)].kind = "tmpl" => Modules[c[Len(c)].tmpl].opcodes # <<>>),
           Len(c) = 0 \/ c[Len(c)].kind \in {"tmpl", "block"},
           NEW s, NEW v, NEW module, NEW g, NEW ctx, NEW blockParams,
           DOMAIN v = VmFields,
           EnterExecute(c, s, v, j, module, g, ctx, blockParams)
    PROVE  /\ CallOK(call', jmp', Base, error) /\ SameTmpls(call, call')
           /\ DOMAIN vm' = VmFields /\ vm'.depth = v.depth
  <1> DEFINE f == [kind |-> "exec", done |-> FALSE, ret |-> FALSE, prevJmp |-> j,
                   prevModule |-> v.module, setup |-> v.owner = 0,
                   g |-> g, ctx |-> ctx, blockParams |-> blockParams]
             moved == [v EXCEPT !.module = module]
  <1>1. /\ call' = Append(c, f) /\ jmp' = JmpIn(j, Len(c) + 1)
        /\ vm' = [moved EXCEPT !.owner = IF @ = 0 THEN Len(c) + 1 ELSE @]
    BY DEF EnterExecute
  <1>2. DOMAIN moved = VmFields /\ moved.depth = v.depth
    BY DEF VmFields
  <1> HIDE DEF moved
  <1>3. DOMAIN vm' = VmFields /\ vm'.depth = v.depth
    BY <1>1, <1>2 DEF VmFields
  <1>4. FrameOK(f) /\ f.kind = "exec" /\ ~f.done /\ f.prevJmp = j
    BY DEF FrameOK, Fields, Kinds
  <1> HIDE DEF f
  <1>5. Base \in {-1, 0}
    BY DEF Base
  <1>6. j \in Int
    BY <1>5 DEF IsJump
  <1>7. CallOK(call', jmp', Base, error) /\ SameTmpls(c, call')
    BY <1>1, <1>4, <1>5, <1>6, CallsExecute
  <1>8. SameTmpls(call, call')
    BY <1>7, SameTransitive
  <1> QED
    BY <1>3, <1>7, <1>8

-----------------------------------------------------------------------------
(* One lemma for each group of actions *)

(* The opcodes that call nothing keep the invariant.                       *)
LEMMA SimpleOpcodes ==
    ASSUME CallInv,
           \/ GetContext \/ AppendContent \/ AppendValue \/ PushValue \/ PushProgram
           \/ EmptyHash \/ PushHash \/ AssignToHash \/ PopHash
           \/ LookupOnContext \/ LookupBlockParam \/ LookupData \/ Unhandled
    PROVE  CallInv'
  <1>1. TopIs("prog")
    BY DEF GetContext, AppendContent, AppendValue, PushValue, PushProgram, EmptyHash,
           PushHash, AssignToHash, PopHash, LookupOnContext, LookupBlockParam, LookupData,
           Unhandled, At
  <1>2. \/ \E s : Moves(s) \/ Throw(s, vm)
        \/ \E s, n, v : PushOrThrow(s, n, v)
        \/ \E what : Fault(what)
    <2>1. CASE GetContext \/ AppendContent \/ AppendValue \/ Unhandled
      BY <2>1, StackedMoves DEF GetContext, AppendContent, Unhandled
    <2>2. CASE PushValue \/ PushProgram \/ EmptyHash \/ PushHash
      BY <2>2 DEF PushValue, PushProgram, EmptyHash, PushHash
    <2>3. CASE AssignToHash \/ PopHash
      BY <2>3, StackedMoves DEF AssignToHash, PopHash
    <2>4. CASE LookupOnContext \/ LookupBlockParam \/ LookupData
      BY <2>4 DEF LookupOnContext, LookupBlockParam, LookupData
    <2> QED
      BY <2>1, <2>2, <2>3, <2>4
  <1> QED
    BY <1>1, <1>2, StackedKeeps, ThrowInProgram, PushKeeps, FaultKeeps

Calling ==
    \E f, s, callee, ctx : FrameOK(f) /\ f.kind = "op" /\ Invoke(f, s, callee, ctx)

Handled ==
    \/ \E s : Stacked(s) \/ Throw(s, vm)
    \/ \E s, n, v : PushOrThrow(s, n, v)
    \/ Calling

(* The opcodes that call helpers, programs or templates keep it.           *)
LEMMA CallingOpcodes ==
    ASSUME CallInv,
           \/ ResolvePossibleLambda \/ InvokeAmbiguous \/ InvokeHelper \/ InvokeKnownHelper
           \/ BlockValue \/ AmbiguousBlockValue \/ InvokePartial
    PROVE  CallInv'
  <1>1. TopIs("prog")
    BY DEF ResolvePossibleLambda, InvokeAmbiguous, InvokeHelper, InvokeKnownHelper,
           BlockValue, AmbiguousBlockValue, InvokePartial, At
  <1>2. ASSUME NEW a, NEW b, NEW s, NEW callee, NEW ctx, Invoke(Handler(a, b), s, callee, ctx)
        PROVE  Calling
    BY <1>2, HandlerOK DEF Calling
  <1>3. CASE ResolvePossibleLambda
    <2>1. Handled
      BY <1>3, <1>2 DEF ResolvePossibleLambda, Handled
    <2> QED
      BY <1>1, <2>1, StackedMoves, StackedKeeps, ThrowInProgram, PushKeeps, InvokeKeeps DEF Handled, Calling
  <1>4. CASE InvokeAmbiguous
    <2> DEFINE value == Popped(stk, "stack", 1)
               h == Handler(OptProgram(0), OptInverse(0))
               f == [h EXCEPT !.value = value]
               f1 == [f EXCEPT !.lastHelper = "helper"]
               s == Pop(stk, "stack", 3)
               ctx == Last(stk["context"].v)
    <2>1. Throw(s, vm) \/ Invoke(f1, s, Fn, ctx) \/ Invoke(f, s, CalleeOf(value), ctx)
      BY <1>4 DEF InvokeAmbiguous
    <2>2. FrameOK(h) /\ h.kind = "op"
      BY HandlerOK
    <2> HIDE DEF h
    <2>3. FrameOK(f) /\ f.kind = "op"
      BY <2>2, FieldOK
    <2> HIDE DEF f
    <2>4. FrameOK(f1) /\ f1.kind = "op"
      BY <2>3, FieldOK
    <2> HIDE DEF f1, s, value, ctx
    <2> QED
      BY <1>1, <2>1, <2>3, <2>4, ThrowInProgram, InvokeKeeps
  <1>5. CASE InvokeHelper
    <2>1. Handled
      BY <1>5, <1>2 DEF InvokeHelper, Handled
    <2> QED
      BY <1>1, <2>1, StackedMoves, StackedKeeps, ThrowInProgram, PushKeeps, InvokeKeeps DEF Handled, Calling
  <1>6. CASE InvokeKnownHelper
    <2>1. Handled
      BY <1>6, <1>2 DEF InvokeKnownHelper, Handled
    <2> QED
      BY <1>1, <2>1, StackedMoves, StackedKeeps, ThrowInProgram, PushKeeps, InvokeKeeps DEF Handled, Calling
  <1>7. CASE BlockValue \/ AmbiguousBlockValue
    <2>1. Handled
      BY <1>7, <1>2 DEF BlockValue, AmbiguousBlockValue, Handled
    <2> QED
      BY <1>1, <2>1, StackedMoves, StackedKeeps, ThrowInProgram, PushKeeps, InvokeKeeps DEF Handled, Calling
  <1>8. CASE InvokePartial
    <2> DEFINE program == OptProgram(0)
               h == Handler(program, OptInverse(0))
               f == [h EXCEPT !.pushed = program > 0]
    <2>1. \/ \E s : Stacked(s) \/ Throw(s, vm)
          \/ \E s, callee, ctx : Invoke(f, s, callee, ctx)
      BY <1>8 DEF InvokePartial
    <2>2. FrameOK(h) /\ h.kind = "op"
      BY HandlerOK
    <2> HIDE DEF h
    <2>3. FrameOK(f) /\ f.kind = "op"
      BY <2>2, FieldOK
    <2> HIDE DEF f
    <2> QED
      BY <1>1, <2>1, <2>3, StackedMoves, StackedKeeps, ThrowInProgram, InvokeKeeps
  <1> QED
    BY <1>3, <1>4, <1>5, <1>6, <1>7, <1>8

(* The frame below the top, and what a return writes into it.              *)
LEMMA BelowTop ==
    ASSUME NEW s, IsSeq(s), Len(s) > 1
    PROVE  LET c == Front(s)
               n == Len(s) - 1
               d == [s[n] EXCEPT !.done = TRUE]
           IN /\ c # <<>> /\ Last(c) = s[n] /\ Len(c) = n /\ n \in Nat \ {0}
              /\ c = Unwound(s, n, s[n])
              /\ \A g : [c EXCEPT ![n] = g] = Unwound(s, n, g)
              /\ Done(c) = Unwound(s, n, d)
              /\ [Done(c) EXCEPT ![n].ret = TRUE] = Unwound(s, n, [d EXCEPT !.ret = TRUE])
              /\ [Done(c) EXCEPT ![n].result = Plain] = Unwound(s, n, [d EXCEPT !.result = Plain])
              /\ Advance(c) = Unwound(s, n, [s[n] EXCEPT !.pc = @ + 1])
  <1> DEFINE c == SubSeq(s, 1, Len(s) - 1)
             n == Len(s) - 1
             d == [s[n] EXCEPT !.done = TRUE]
  <1>1. Len(s) \in Nat /\ n \in Nat \ {0} /\ n \in 0 .. Len(s) /\ n \in 1 .. n
    BY DEF IsSeq
  <1>2. IsSeq(c) /\ Len(c) = n /\ c[n] = s[n]
    BY <1>1, PrefixSeq
  <1>3. Front(s) = c /\ \A g : [c EXCEPT ![n] = g] = Unwound(s, n, g)
    BY DEF Front, Unwound
  <1> HIDE DEF c
  <1> HIDE DEF n
  <1>4. c # <<>> /\ Last(c) = s[n]
    BY <1>1, <1>2, EmptyIsSeq DEF Last
  <1>5. c = [c EXCEPT ![n] = s[n]]
    <2>1. [c EXCEPT ![n] = c[n]] = c
      BY <1>2 DEF IsSeq
    <2> QED
      BY <1>2, <2>1
  <1>6. Done(c) = [c EXCEPT ![n] = d]
    BY <1>2, <1>4 DEF Done
  <1>7. /\ [[c EXCEPT ![n] = d] EXCEPT ![n].ret = TRUE] = [c EXCEPT ![n] = [d EXCEPT !.ret = TRUE]]
        /\ [[c EXCEPT ![n] = d] EXCEPT ![n].result = Plain] =
              [c EXCEPT ![n] = [d EXCEPT !.result = Plain]]
    <2> HIDE DEF d
    <2>1. n \in DOMAIN c
      BY <1>1, <1>2 DEF IsSeq
    <2>2. [c EXCEPT ![n] = d][n] = d
      BY <2>1
    <2> QED
      BY <2>1, <2>2
  <1>8. Advance(c) = [c EXCEPT ![n] = [s[n] EXCEPT !.pc = @ + 1]]
    BY <1>2 DEF Advance
  <1> QED
    BY <1>1, <1>2, <1>3, <1>4, <1>5, <1>6, <1>7, <1>8 DEF c, n, d

(* The return opcode: the caller's frame is done, unless it is a handler,  *)
(* whose helper goes on.                                                   *)
LEMMA ReturnKeeps ==
    ASSUME CallInv, ReturnOpcode
    PROVE  CallInv'
  <1> DEFINE n == Len(call)
             c == Front(call)
             h == call[n - 1]
             d == [h EXCEPT !.done = TRUE]
             g == IF h.kind = "op" THEN h
                  ELSE IF h.kind = "exec" THEN [d EXCEPT !.ret = TRUE] ELSE d
  <1>1. call # <<>> /\ Last(call).kind = "prog"
    BY DEF ReturnOpcode, At, TopIs
  <1>2. /\ n \in Nat /\ n > 1 /\ call[n].kind = "prog"
        /\ h.kind \in {"exec", "op", "block"} /\ FrameOK(h)
    BY <1>1, TopOf DEF Callers
  <1>3. IsSeq(call)
    BY DEF CallInv, CallOK, Frames
  <1>4. /\ Last(c) = h /\ Len(c) = n - 1
        /\ c = Unwound(call, n - 1, h)
        /\ Done(c) = Unwound(call, n - 1, d)
        /\ [Done(c) EXCEPT ![n - 1].ret = TRUE] = Unwound(call, n - 1, [d EXCEPT !.ret = TRUE])
    BY <1>2, <1>3, BelowTop
  <1>8. call' = Unwound(call, n - 1, g)
    BY <1>4 DEF ReturnOpcode
  <1>9. h.kind # "op" => Alike(h, d) /\ d.done
    BY <1>2, DoneAlike
  <1>10. Alike(h, g) /\ (g.kind = "exec" => g.ret)
    <2>1. CASE h.kind = "op"
      BY <1>2, <2>1 DEF Alike
    <2>2. CASE h.kind = "block"
      BY <1>9, <2>2 DEF Alike
    <2>3. CASE h.kind = "exec"
      <3>1. Alike(h, d) /\ d.kind = "exec" /\ FrameOK(d)
        BY <1>9, <2>3 DEF Alike
      <3> HIDE DEF d, h
      <3>2. Alike(d, [d EXCEPT !.ret = TRUE]) /\ [d EXCEPT !.ret = TRUE].ret
        BY <3>1 DEF Alike, FrameOK, Fields, Kinds
      <3> QED
        BY <2>3, <3>1, <3>2 DEF Alike
    <2> QED
      BY <1>2, <2>1, <2>2, <2>3
  <1> HIDE DEF g, h, c, d
  <1>11. CallOK(call', jmp, Base, error) /\ SameTmpls(call, call')
    <2>1. CallOK(call, jmp, Base, error) /\ h = call[n - 1]
      BY DEF CallInv, h
    <2> QED
      BY <1>2, <1>8, <1>10, <2>1, Returns
  <1>12. DOMAIN vm' = VmFields /\ vm'.depth = vm.depth
    <2> DEFINE v == [vm EXCEPT !.buffer = Last(call).prevBuffer]
    <2>1. DOMAIN v = VmFields /\ v.depth = vm.depth
      BY VmTypes DEF VmFields
    <2>2. vm' = [v EXCEPT !.data = IF Last(call).hasData THEN Last(call).prevData ELSE @]
      BY DEF ReturnOpcode, LeaveProgram
    <2> HIDE DEF v
    <2> QED
      BY <2>1, <2>2 DEF VmFields
  <1> QED
    BY <1>11, <1>12, StepKeeps DEF ReturnOpcode, CallInv, Registers

(* What the invariant says of the top of the call stack.                   *)
LEMMA CallFacts ==
    ASSUME CallInv, call # <<>>
    PROVE  /\ CallOK(call, jmp, Base, error) /\ IsSeq(call) /\ Frames(call, Base, error)
           /\ Len(call) \in Nat /\ Len(call) > 0 /\ Base \in {-1, 0} /\ error \in BOOLEAN
           /\ Last(call) = call[Len(call)] /\ FrameOK(Last(call))
  BY TopOf DEF CallInv, CallOK, Frames, Base, Registers

(* A handler takes the result and the program goes on.                     *)
LEMMA HandlerKeeps ==
    ASSUME CallInv, HandlerReturns
    PROVE  CallInv'
  <1> DEFINE n == Len(call)
             h == call[n - 1]
             g == [h EXCEPT !.pc = @ + 1]
  <1>1. call # <<>> /\ Last(call).kind = "op"
    BY DEF HandlerReturns, TopIs
  <1>2. n \in Nat /\ n > 1 /\ call[n].kind = "op" /\ h.kind = "prog" /\ FrameOK(h)
    BY <1>1, TopOf DEF Callers
  <1>3. CASE \E s : Throw(s, vm)
    BY <1>1, <1>3, ThrowKeeps, VmTypes
  <1>4. CASE /\ call' = Advance(Front(call))
             /\ vm' = IF Last(call).op = "invoke_ambiguous"
                      THEN [vm EXCEPT !.lastHelper = Last(call).lastHelper] ELSE vm
             /\ UNCHANGED <<jmp, error, pins, cached, app>>
    <2>1. call' = Unwound(call, n - 1, g)
      BY <1>1, <1>2, <1>4, CallFacts, BelowTop
    <2>2. Alike(h, g) /\ g.kind = "prog"
      BY <1>2 DEF Alike, FrameOK, Fields, Kinds
    <2> HIDE DEF g
    <2>3. CallOK(call', jmp, Base, error) /\ SameTmpls(call, call')
      BY <1>1, <1>2, <2>1, <2>2, CallFacts, Returns
    <2>4. DOMAIN vm' = VmFields /\ vm'.depth = vm.depth
      BY <1>4, VmTypes DEF VmFields
    <2> QED
      BY <1>1, <1>4, <2>3, <2>4, CallFacts, StepKeeps
  <1> QED
    BY <1>3, <1>4 DEF HandlerReturns

(* The top frame writes into one of its own fields.                        *)
LEMMA FieldKeeps ==
    ASSUME CallInv, call # <<>>, NEW g, Alike(Last(call), g),
           Last(call).kind \in {"op", "block"},
           call' = [call EXCEPT ![Len(call)] = g],
           UNCHANGED <<stk, vm, jmp, error, pins, cached, app>>
    PROVE  CallInv'
  <1>1. g.kind \in {"op", "block"} /\ Alike(call[Len(call)], g)
    BY CallFacts DEF Alike
  <1>2. CallOK(call', jmp, Base, error) /\ SameTmpls(call, call')
    BY <1>1, CallFacts, TopMoves
  <1> QED
    BY <1>2, CallFacts, VmTypes, StepKeeps

(* A handler that counts its runs is alike to itself before.               *)
LEMMA RunsAlike ==
    ASSUME NEW f, FrameOK(f), f.kind = "op", NEW x
    PROVE  Alike(f, [f EXCEPT !.runs = x])
  BY DEF Alike, FrameOK, Fields, Kinds

(* The steps of a helper keep the invariant.                               *)
LEMMA HelperKeeps ==
    ASSUME CallInv, HelperRuns \/ HelperReturns \/ HelperThrows
    PROVE  CallInv'
  <1> DEFINE n == Len(call)
  <1>1. call # <<>> /\ Last(call).kind = "op" /\ call[n] = Last(call) /\ FrameOK(Last(call))
    <2>1. TopIs("op")
      BY DEF HelperRuns, HelperReturns, HelperThrows, InHelper
    <2> QED
      BY <2>1, CallFacts DEF TopIs
  <1>2. CASE HelperRuns
    <2> DEFINE g == [call[n] EXCEPT !.runs = @ + 1]
               c == [call EXCEPT ![n] = g]
    <2>1. Alike(Last(call), g) /\ g.kind = "op"
      BY <1>1, RunsAlike DEF Alike
    <2>2. \/ call' = c /\ UNCHANGED <<stk, vm, jmp, error, pins, cached, app>>
          \/ \E m, ctx, newData, blockParams : RunProgram(c, stk, m, ctx, newData, blockParams)
      BY <1>2 DEF HelperRuns, Height
    <2> HIDE DEF g
    <2>3. CASE call' = c /\ UNCHANGED <<stk, vm, jmp, error, pins, cached, app>>
      BY <1>1, <2>1, <2>3, FieldKeeps
    <2>4. CASE \E m, ctx, newData, blockParams :
                 RunProgram(c, stk, m, ctx, newData, blockParams)
      BY <1>1, <2>1, <2>4, RunProgramKeeps
    <2> QED
      BY <2>2, <2>3, <2>4
  <1>3. CASE HelperReturns
    <2>1. PICK v \in {Null, Plain} :
            call' = [call EXCEPT ![Height].done = TRUE, ![Height].result = v]
      BY <1>3 DEF HelperReturns
    <2> DEFINE d == [call[n] EXCEPT !.done = TRUE]
               g == [d EXCEPT !.result = v]
               c == [call EXCEPT ![n] = d]
    <2>2. Alike(call[n], d) /\ d.kind = "op"
      BY <1>1, DoneAlike DEF Alike
    <2>3. call' = [c EXCEPT ![n].result = v]
      BY <2>1 DEF Height
    <2> HIDE DEF d
    <2>4. Alike(d, g)
      BY <2>2 DEF Alike, FrameOK, Fields, Kinds
    <2>5. Alike(call[n], g)
      BY <2>2, <2>4 DEF Alike
    <2>6. n \in DOMAIN call
      BY <1>1, CallFacts DEF IsSeq
    <2>7. c[n] = d
      BY <2>6
    <2>8. call' = [call EXCEPT ![n] = g]
      BY <2>3, <2>6, <2>7
    <2> HIDE DEF g
    <2> QED
      BY <1>1, <1>3, <2>5, <2>8, FieldKeeps DEF HelperReturns
  <1>4. CASE HelperThrows
    BY <1>1, <1>4, ThrowKeeps, VmTypes DEF HelperThrows
  <1> QED
    BY <1>2, <1>3, <1>4

(* The programs that a block runs keep it.                                 *)
LEMMA BlockKeeps ==
    ASSUME CallInv, BlockRuns \/ BlockReturns
    PROVE  CallInv'
  <1> DEFINE n == Len(call)
  <1>1. call # <<>> /\ Last(call).kind = "block" /\ call[n] = Last(call) /\ FrameOK(Last(call))
    <2>1. TopIs("block")
      BY DEF BlockRuns, BlockReturns
    <2> QED
      BY <2>1, CallFacts DEF TopIs
  <1>2. CASE \E s : Throw(s, vm)
    BY <1>1, <1>2, ThrowKeeps, VmTypes
  <1>3. CASE BlockRuns
    <2> DEFINE b == Last(call).closure
               g == [call[n] EXCEPT !.pushed = b.depth > 0]
               c == [call EXCEPT ![n] = g]
    <2>1. Alike(Last(call), g) /\ g.kind = "block"
      BY <1>1 DEF Alike, FrameOK, Fields, Kinds
    <2>2. \/ \E s : Throw(s, vm)
          \/ Fault("null value")
          \/ \E s, m, ctx, blockParams : RunProgram(c, s, m, ctx, FALSE, blockParams)
          \/ \E s, module, m, ctx, blockParams :
               /\ EnterExecute(c, s, vm, jmp, module, m, ctx, blockParams)
               /\ UNCHANGED <<error, pins, cached, app>>
      BY <1>3 DEF BlockRuns, Height
    <2> HIDE DEF g
    <2>3. CASE \E s, m, ctx, blockParams : RunProgram(c, s, m, ctx, FALSE, blockParams)
      BY <1>1, <2>1, <2>3, RunProgramKeeps
    <2>4. CASE \E s, module, m, ctx, blockParams :
                 /\ EnterExecute(c, s, vm, jmp, module, m, ctx, blockParams)
                 /\ UNCHANGED <<error, pins, cached, app>>
      <3>1. CallOK(c, jmp, Base, error) /\ SameTmpls(call, c)
        BY <1>1, <2>1, CallFacts, TopMoves
      <3>2. Len(c) = n /\ c[n] = g /\ n > 0
        BY <1>1, CallFacts, ReplaceSeq
      <3> HIDE DEF c
      <3>3. Frames(c, Base, error) /\ IsJump(jmp, c, Len(c), Base)
        BY <2>1, <3>1, <3>2 DEF CallOK, Waiting
      <3>4. /\ CallOK(call', jmp', Base, error) /\ SameTmpls(call, call')
            /\ DOMAIN vm' = VmFields /\ vm'.depth = vm.depth
        BY <2>1, <2>4, <3>1, <3>2, <3>3, VmTypes, EnterKeeps
      <3> QED
        BY <1>1, <2>4, <3>4, CallFacts, StepKeeps
    <2>5. CASE Fault("null value")
      BY <2>5, FaultKeeps
    <2> QED
      BY <1>2, <2>2, <2>3, <2>4, <2>5
  <1>4. CASE BlockReturns
    <2> DEFINE h == call[n - 1]
               d == [h EXCEPT !.done = TRUE]
               g == [d EXCEPT !.result = Plain]
    <2>1. n \in Nat /\ n > 1 /\ call[n].kind = "block" /\ h.kind = "op" /\ FrameOK(h)
      BY <1>1, TopOf DEF Callers
    <2>2. Alike(h, d) /\ d.kind = "op"
      BY <2>1, DoneAlike DEF Alike
    <2>3. [Done(Front(call)) EXCEPT ![n - 1].result = Plain] = Unwound(call, n - 1, g)
      BY <1>1, <2>1, CallFacts, BelowTop
    <2> HIDE DEF d
    <2>4. Alike(h, g) /\ g.kind = "op"
      BY <2>2 DEF Alike, FrameOK, Fields, Kinds
    <2> HIDE DEF g
    <2>5. CASE /\ call' = [Done(Front(call)) EXCEPT ![Height - 1].result = Plain]
               /\ UNCHANGED <<vm, jmp, error, pins, cached, app>>
      <3>1. call' = Unwound(call, n - 1, g)
        BY <2>3, <2>5 DEF Height
      <3>2. CallOK(call', jmp, Base, error) /\ SameTmpls(call, call')
        BY <1>1, <2>1, <2>4, <3>1, CallFacts, Returns
      <3> QED
        BY <1>1, <2>5, <3>2, CallFacts, VmTypes, StepKeeps
    <2> QED
      BY <1>2, <1>4, <2>5 DEF BlockReturns
  <1> QED
    BY <1>3, <1>4

(* A template that starts keeps it.                                        *)
LEMMA TemplateRunsKeeps ==
    ASSUME CallInv, TemplateRuns
    PROVE  CallInv'
  <1> DEFINE n == Len(call)
             f == Last(call)
             d == [call[n] EXCEPT !.done = TRUE]
             empty == Modules[f.tmpl].opcodes = <<>>
  <1>1. /\ call # <<>> /\ f.kind = "tmpl" /\ ~f.done /\ call[n] = f /\ FrameOK(f)
        /\ n \in Nat /\ n > 1
    <2>1. TopIs("tmpl") /\ ~f.done
      BY DEF TemplateRuns
    <2> QED
      BY <2>1, TopOf DEF TopIs
  <1>2. Alike(call[n], d) /\ d.kind = "tmpl" /\ d.done
    BY <1>1, DoneAlike DEF Alike
  <1>3. Done(call) = [call EXCEPT ![n] = d]
    BY <1>1 DEF Done
  <1>4. IsJump(jmp, call, n - 1, Base)
    BY <1>1, CallFacts DEF CallOK, Waiting
  <1> HIDE DEF d
  <1> DEFINE c == [call EXCEPT ![n] = d]
  <1>5. /\ Frames(c, Base, error) /\ Frames(c, Base, TRUE) /\ Len(c) = n /\ c[n] = d
        /\ \A h \in 0 .. n : \A j : IsJump(j, call, h, Base) => IsJump(j, c, h, Base)
        /\ SameTmpls(call, c)
    <2>1. /\ Frames(c, Base, error)
          /\ \A h \in 0 .. n : \A j : IsJump(j, call, h, Base) => IsJump(j, c, h, Base)
      BY <1>1, <1>2, CallFacts, TopFrames
    <2>2. Len(c) = n /\ \A i \in 1 .. n : c[i] = IF i = n THEN d ELSE call[i]
      BY <1>1, CallFacts, ReplaceSeq
    <2> HIDE DEF c
    <2>3. Frames(c, Base, TRUE)
      BY <2>1 DEF Frames
    <2>4. SameTmpls(call, c)
      <3>1. \A i \in 1 .. n : c[i].kind = call[i].kind
        BY <1>2, <2>2 DEF Alike
      <3>2. Tmpls(c) = Tmpls(call)
        BY <2>2, <3>1 DEF Tmpls
      <3> QED
        BY <1>2, <2>2, <3>2 DEF SameTmpls, Tmpls, Alike
    <2>5. Len(c) = n /\ c[n] = d
      BY <1>1, <2>2
    <2> QED
      BY <2>1, <2>3, <2>4, <2>5
  <1> HIDE DEF c
  <1>6. ~Waiting(c) /\ (Catches(c[n]) <=> ~empty)
    BY <1>1, <1>2, <1>5 DEF Waiting, Catches, Alike
  <1>7. CASE empty /\ call' = Done(call) /\ UNCHANGED <<stk, vm, jmp, error, pins, cached, app>>
    <2>1. IsJump(jmp, c, n - 1, Base)
      BY <1>1, <1>4, <1>5
    <2>2. IsJump(jmp, c, n, Base)
      BY <1>1, <1>6, <1>7, <2>1 DEF IsJump
    <2>3. CallOK(call', jmp, Base, error) /\ SameTmpls(call, call')
      BY <1>3, <1>5, <1>6, <1>7, <2>2 DEF CallOK, c
    <2> QED
      BY <1>1, <1>7, <2>3, CallFacts, VmTypes, StepKeeps
  <1>8. CASE /\ ~empty /\ call' = Done(call) /\ jmp' = n /\ error' = TRUE
             /\ UNCHANGED <<stk, vm, pins, cached, app>>
    <2>1. IsJump(n, c, n, Base)
      BY <1>1, <1>6, <1>8 DEF IsJump
    <2>2. CallOK(call', jmp', Base, TRUE) /\ SameTmpls(call, call')
      BY <1>3, <1>5, <1>6, <1>8, <2>1 DEF CallOK, c
    <2> QED
      BY <1>1, <1>8, <2>2, CallFacts, VmTypes, StepKeeps
  <1>9. CASE \E module, ctx :
                /\ ~empty
                /\ EnterExecute(call, stk, [vm EXCEPT !.depth = @ + 1], n, module, 0, ctx, FALSE)
                /\ UNCHANGED <<error, pins, app>>
    <2> DEFINE v == [vm EXCEPT !.depth = @ + 1]
    <2>1. Frames(call, Base, error) /\ IsJump(n, call, n, Base)
      BY <1>1, <1>9, CallFacts DEF IsJump, Catches
    <2>2. DOMAIN v = VmFields
      BY VmTypes DEF VmFields
    <2>3. SameTmpls(call, call)
      BY DEF SameTmpls
    <2> HIDE DEF v
    <2>4. PICK module, ctx : EnterExecute(call, stk, v, n, module, 0, ctx, FALSE)
      BY <1>9 DEF v
    <2>5. /\ CallOK(call', jmp', Base, error) /\ SameTmpls(call, call')
          /\ DOMAIN vm' = VmFields
      BY <1>1, <1>9, <2>1, <2>2, <2>3, <2>4, EnterKeeps
    <2>6. Tmpls(call) # {}
      BY <1>1 DEF Tmpls
    <2>7. Counted(call', pins') /\ Depths(call', vm'.depth)
      <3>1. Depths(call, vm'.depth)
        BY <2>6 DEF CallInv, Depths
      <3> QED
        BY <1>9, <2>5, <3>1, SameCounted DEF CallInv
    <2>8. Base' = Base
      BY <1>9 DEF Base
    <2> QED
      BY <1>9, <2>5, <2>7, <2>8 DEF CallInv, Registers, NullReported, VmFields
  <1> QED
    BY <1>7, <1>8, <1>9 DEF TemplateRuns, Height

(* A template that ends keeps it.                                          *)
LEMMA TemplateReturnsKeeps ==
    ASSUME CallInv, TemplateReturns
    PROVE  CallInv'
  <1> DEFINE n == Len(call)
             f == Last(call)
             h == call[n - 1]
             d == [h EXCEPT !.done = TRUE]
             g == [d EXCEPT !.result = Plain]
             v == [vm EXCEPT !.depth = f.prevDepth]
  <1>1. /\ call # <<>> /\ f.kind = "tmpl" /\ call[n] = f
        /\ n \in Nat /\ n > 1 /\ h.kind = "op" /\ FrameOK(h)
    <2>1. TopIs("tmpl")
      BY DEF TemplateReturns
    <2> QED
      BY <2>1, TopOf DEF TopIs, Callers
  <1>2. Alike(h, d) /\ d.kind = "op"
    BY <1>1, DoneAlike DEF Alike
  <1>3. call' = Unwound(call, n - 1, g)
    BY <1>1, CallFacts, BelowTop DEF TemplateReturns, Height
  <1>4. DOMAIN v = VmFields /\ v.depth = f.prevDepth
    BY VmTypes DEF VmFields
  <1>5. vm' = [v EXCEPT !.module = Free(@, Height)]
    BY DEF TemplateReturns
  <1> HIDE DEF v, d
  <1>6. DOMAIN vm' = VmFields /\ vm'.depth = f.prevDepth
    BY <1>4, <1>5 DEF VmFields
  <1>7. Alike(h, g) /\ g.kind = "op"
    BY <1>2 DEF Alike, FrameOK, Fields, Kinds
  <1> HIDE DEF g
  <1>8. /\ jmp' = f.prevJmp /\ UNCHANGED <<error, app>>
        /\ pins' = IF f.fromCache THEN [pins EXCEPT ![f.tmpl] = @ - 1] ELSE pins
    BY DEF TemplateReturns, Release
  <1>9. CallOK(call', jmp', Base, error)
    BY <1>1, <1>3, <1>7, <1>8, CallFacts, Restores
  <1>10. /\ Len(call') = n - 1 /\ call'[n - 1] = g
         /\ \A i \in 1 .. n - 1 : i < n - 1 => call'[i] = call[i]
    <2>1. n - 1 \in 1 .. Len(call)
      BY <1>1
    <2> QED
      BY <1>1, <1>3, <1>7, <2>1, CallFacts, UnwindFrames
  <1>11. \A i \in 1 .. n - 1 :
           call'[i].kind = call[i].kind /\ (call[i].kind = "tmpl" => call'[i] = call[i])
    BY <1>1, <1>7, <1>10
  <1>12. Counted(call', pins') /\ Depths(call', vm'.depth)
    <2>1. Counted(call, pins) /\ Depths(call, vm.depth)
      BY DEF CallInv
    <2>2. Len(call) \in Nat \ {0} /\ call[Len(call)].kind = "tmpl" /\ Len(call') = Len(call) - 1
      BY <1>1, <1>10
    <2>3. LET e == call[Len(call)]
          IN /\ Counted(call', IF e.fromCache THEN [pins EXCEPT ![e.tmpl] = @ - 1] ELSE pins)
             /\ Depths(call', e.prevDepth)
      BY <1>11, <2>1, <2>2, TemplateLeaves
    <2> QED
      BY <1>1, <1>6, <1>8, <2>3
  <1>13. Base' = Base
    BY <1>8 DEF Base
  <1> QED
    BY <1>6, <1>8, <1>9, <1>12, <1>13 DEF CallInv, Registers, NullReported, VmFields

(* The application calls handlebars_vm_execute.                            *)
LEMMA ExecuteKeeps ==
    ASSUME CallInv, Execute
    PROVE  CallInv'
  <1>1. /\ call = <<>> /\ Len(call) = 0
        /\ \E t \in Mains, ctx \in Contexts :
             EnterExecute(call, stk, vm, jmp, Instance(t, 0), 0, ctx, FALSE)
        /\ UNCHANGED <<error, pins, cached>>
    BY DEF Execute
  <1>2. /\ DOMAIN app' = DOMAIN app /\ app'.ret = "none" /\ app'.catches = app.catches
    <2> DEFINE a == [app EXCEPT !.executes = @ + 1]
    <2>1. DOMAIN a = DOMAIN app /\ a.catches = app.catches
      BY DEF CallInv, Registers
    <2>2. app' = [a EXCEPT !.ret = "none"]
      BY DEF Execute
    <2>3. DOMAIN a = {"executes", "ret", "aborted", "fault", "catches", "overdrawn"}
      BY <2>1 DEF CallInv, Registers
    <2> HIDE DEF a
    <2> QED
      BY <2>1, <2>2, <2>3
  <1>3. Base' = Base
    BY <1>2 DEF Base
  <1>4. Frames(call, Base, error) /\ IsJump(jmp, call, Len(call), Base)
    BY <1>1 DEF CallInv, CallOK, Waiting
  <1>5. SameTmpls(call, call)
    BY DEF SameTmpls
  <1>6. /\ CallOK(call', jmp', Base, error) /\ SameTmpls(call, call')
        /\ DOMAIN vm' = VmFields /\ vm'.depth = vm.depth
    <2>1. PICK t, ctx : EnterExecute(call, stk, vm, jmp, Instance(t, 0), 0, ctx, FALSE)
      BY <1>1
    <2>2. DOMAIN vm = VmFields
      BY VmTypes
    <2>3. /\ Len(call) > 0 => (call[Len(call)].kind = "tmpl" =>
                                  Modules[call[Len(call)].tmpl].opcodes # <<>>)
          /\ Len(call) = 0 \/ call[Len(call)].kind \in {"tmpl", "block"}
      BY <1>1
    <2> QED
      BY <1>4, <1>5, <2>1, <2>2, <2>3, EnterKeeps
  <1>7. Counted(call', pins') /\ Depths(call', vm'.depth)
    BY <1>1, <1>6, SameCounted DEF CallInv
  <1> QED
    BY <1>1, <1>2, <1>3, <1>6, <1>7 DEF CallInv, Registers, NullReported, VmFields

(* An execution runs its program.                                          *)
LEMMA ExecuteProgramKeeps ==
    ASSUME CallInv, ExecuteProgram
    PROVE  CallInv'
  <1> DEFINE n == Len(call)
  <1>1. call # <<>> /\ Last(call).kind = "exec" /\ ~Last(call).done
    BY DEF ExecuteProgram, TopIs
  <1>2. n \in DOMAIN call /\ call[n] = Last(call) /\ FrameOK(Last(call))
    BY <1>1, CallFacts DEF IsSeq
  <1>3. call = [call EXCEPT ![n] = Last(call)]
    <2>1. [call EXCEPT ![n] = call[n]] = call
      BY <1>1, CallFacts DEF IsSeq
    <2> QED
      BY <1>2, <2>1
  <1>4. Alike(Last(call), Last(call))
    BY <1>2 DEF Alike
  <1>5. PICK g, ctx, blockParams : RunProgram(call, stk, g, ctx, FALSE, blockParams)
    BY DEF ExecuteProgram
  <1> QED
    BY <1>1, <1>3, <1>4, <1>5, RunProgramKeeps

(* It returns to a template or a closure, or to the application.           *)
LEMMA ExecuteReturnsKeeps ==
    ASSUME CallInv, ExecuteReturns
    PROVE  CallInv'
  <1> DEFINE n == Len(call)
             f == Last(call)
             h == call[n - 1]
             d == [h EXCEPT !.done = TRUE]
             v == [vm EXCEPT !.module = f.prevModule]
  <1>1. /\ call # <<>> /\ f.kind = "exec" /\ f.done /\ call[n] = f /\ FrameOK(f)
        /\ n \in Nat /\ n > 0
    <2>1. TopIs("exec") /\ f.done
      BY DEF ExecuteReturns
    <2> QED
      BY <2>1, CallFacts DEF TopIs
  <1>2. DOMAIN v = VmFields /\ v.depth = vm.depth
    BY VmTypes DEF VmFields
  <1>3. vm' = [v EXCEPT !.owner = IF f.setup THEN 0 ELSE @]
    BY DEF ExecuteReturns, LeaveExecute
  <1> HIDE DEF v
  <1>4. DOMAIN vm' = VmFields /\ vm'.depth = vm.depth
    BY <1>2, <1>3 DEF VmFields
  <1>5. jmp' = f.prevJmp /\ call' = Done(Front(call)) /\ UNCHANGED <<error, pins, cached>>
    BY DEF ExecuteReturns
  <1>6. CASE n > 1
    <2>1. h.kind \in {"tmpl", "block"} /\ FrameOK(h)
      BY <1>1, <1>6, TopOf DEF Callers
    <2>2. Alike(h, d) /\ d.kind = h.kind /\ d.done
      BY <2>1, DoneAlike DEF Alike
    <2>3. call' = Unwound(call, n - 1, d)
      BY <1>1, <1>5, <1>6, CallFacts, BelowTop
    <2> HIDE DEF d
    <2>4. CallOK(call', jmp', Base, error) /\ SameTmpls(call, call')
      <3>1. CallOK(call, jmp, Base, error) /\ Len(call) > 1 /\ call[Len(call)].kind = "exec"
            /\ Alike(call[Len(call) - 1], d) /\ d.kind # "exec" /\ (d.kind = "tmpl" => d.done)
        BY <1>1, <1>6, <2>1, <2>2, CallFacts
      <3> QED
        BY <1>1, <1>5, <2>3, <3>1, Restores
    <2>5. app' = app
      BY <1>6 DEF ExecuteReturns, Height
    <2> QED
      BY <1>1, <1>4, <1>5, <2>4, <2>5, CallFacts, StepKeeps
  <1>7. CASE n = 1
    <2>1. call' = <<>> /\ Len(call') = 0
      <3>1. Front(call) = <<>>
        <4>1. IsSeq(Front(call)) /\ Len(Front(call)) = 0
          BY <1>1, <1>7, TopOf
        <4> QED
          BY <4>1, EmptyIsSeq
      <3> QED
        BY <1>5, <3>1 DEF Done
    <2>2. jmp' = Base
      <3>1. IsJump(call[1].prevJmp, call, 0, Base)
        BY <1>1, <1>7, CallFacts DEF Frames
      <3> QED
        BY <1>1, <1>5, <1>7, <3>1 DEF IsJump
    <2>3. (f.done /\ ~f.ret) => error
      BY <1>1, <1>7, CallFacts DEF Frames
    <2>4. app' = [app EXCEPT !.ret = IF f.ret THEN "buffer" ELSE "null"]
      BY <1>7 DEF ExecuteReturns, Height
    <2>5. /\ DOMAIN app' = DOMAIN app /\ app'.catches = app.catches
          /\ app'.ret = IF f.ret THEN "buffer" ELSE "null"
      BY <2>4 DEF CallInv, Registers
    <2>6. Base' = Base
      BY <2>5 DEF Base
    <2>7. CallOK(call', jmp', Base, error)
      BY <2>1, <2>2, EmptyIsSeq DEF CallOK, Frames, Nested, IsJump, Waiting
    <2>8. SameTmpls(call, call')
      <3>1. Tmpls(call') = {} /\ Tmpls(call) = {}
        BY <1>1, <1>7, <2>1 DEF Tmpls
      <3> QED
        BY <3>1 DEF SameTmpls
    <2>9. Counted(call', pins') /\ Depths(call', vm'.depth)
      BY <1>4, <1>5, <2>8, SameCounted DEF CallInv
    <2>10. NullReported'
      BY <1>1, <1>5, <2>3, <2>5 DEF NullReported
    <2>11. Registers'
      BY <1>4, <1>5, <2>5 DEF CallInv, Registers, VmFields
    <2> QED
      BY <1>5, <2>6, <2>7, <2>9, <2>10, <2>11 DEF CallInv
  <1>8. n > 1 \/ n = 1
    <2>1. n \in Nat /\ n > 0
      BY <1>1
    <2> HIDE DEF n
    <2> QED
      BY <2>1
  <1> HIDE DEF n
  <1> QED
    BY <1>6, <1>7, <1>8

-----------------------------------------------------------------------------
(* The theorems *)

(* The invariant holds when the VM is new: no frames, no templates.        *)
LEMMA InitCallInv ==
    ASSUME Init
    PROVE  CallInv
  <1>1. call = <<>> /\ Len(call) = 0 /\ jmp = Base /\ error = FALSE
    BY ConstantsAssumption DEF Init, Base
  <1>2. Registers
    <2>1. DOMAIN vm = {"module", "buffer", "data", "depth", "lastHelper", "owner"}
      BY DEF Init
    <2>2. PICK catches \in AppCatches :
            app = [executes |-> 0, ret |-> "none", aborted |-> FALSE, fault |-> "none",
                   catches |-> catches, overdrawn |-> FALSE]
      BY DEF Init
    <2>3. /\ DOMAIN app = {"executes", "ret", "aborted", "fault", "catches", "overdrawn"}
          /\ app.catches = catches
      BY <2>2
    <2>4. app.catches \in BOOLEAN
      BY <2>3, ConstantsAssumption
    <2> QED
      BY <1>1, <2>1, <2>3, <2>4 DEF Registers
  <1>3. CallOK(call, jmp, Base, error)
    BY <1>1, EmptyIsSeq DEF CallOK, Frames, Nested, IsJump, Waiting
  <1>4. Tmpls(call) = {}
    BY <1>1 DEF Tmpls
  <1>5. Counted(call, pins)
    <2>1. \A t \in Templates : Pinning(call, t) = {}
      BY <1>4 DEF Pinning
    <2> QED
      <3>1. pins = [t \in Templates |-> 0]
        BY DEF Init
      <3>2. Cardinality({}) = 0
        BY FS_EmptySet
      <3> QED
        BY <2>1, <3>1, <3>2 DEF Counted
  <1>6. Depths(call, vm.depth)
    BY <1>4 DEF Depths, Init
  <1>7. NullReported
    BY DEF NullReported, Init
  <1> QED
    BY <1>2, <1>3, <1>5, <1>6, <1>7 DEF CallInv

(* Every step keeps it.                                                    *)
LEMMA NextCallInv ==
    ASSUME CallInv, [Next]_vars
    PROVE  CallInv'
  <1>1. CASE UNCHANGED vars
    BY <1>1 DEF vars, CallInv, Registers, Base, NullReported
  <1>2. CASE Execute
    BY <1>2, ExecuteKeeps
  <1>3. CASE Step
    BY <1>3, SimpleOpcodes, CallingOpcodes, ReturnKeeps, HandlerKeeps, HelperKeeps,
       BlockKeeps, TemplateRunsKeeps, TemplateReturnsKeeps, ExecuteProgramKeeps,
       ExecuteReturnsKeeps DEF Step
  <1> QED
    BY <1>1, <1>2, <1>3 DEF Next, Finished

(* CallInv is an inductive invariant of the VM.                            *)
THEOREM CallStack == Spec => []CallInv
  BY InitCallInv, NextCallInv, PTL DEF Spec

(* The jump register is what JmpLive says: the largest height of a frame   *)
(* that has called setjmp.                                                 *)
LEMMA JumpIsMax ==
    ASSUME NEW c, Len(c) \in Nat, NEW j, NEW h \in 0 .. Len(c), NEW base, IsJump(j, c, h, base),
           NEW setters, \A i : i \in setters <=> (i \in 1 .. h /\ Catches(c[i]))
    PROVE  (setters # {} => j = Max(setters)) /\ (setters = {} => j = base)
  <1>1. CASE j \in 1 .. h /\ Catches(c[j]) /\ \A y \in 1 .. h : y > j => ~Catches(c[y])
    <2>1. j \in setters /\ \A y \in setters : j >= y
      BY <1>1
    <2>2. \A x \in setters : (\A y \in setters : x >= y) => x = j
      BY <2>1, <1>1
    <2>3. Max(setters) = j
      BY <2>1, <2>2 DEF Max
    <2> QED
      BY <2>1, <2>3
  <1>2. CASE j = base /\ \A y \in 1 .. h : ~Catches(c[y])
    BY <1>2
  <1> QED
    BY <1>1, <1>2 DEF IsJump

(* e->jmp is always a frame that is still on the C stack, the innermost    *)
(* that has called setjmp, or what the application has set: longjmp never  *)
(* goes to a function that has returned (vm.c:337-348, 396, 1387-1427). *)
THEOREM JumpsAreLive == Spec => []JmpLive
  <1>1. CallInv => JmpLive
    <2> SUFFICES ASSUME CallInv PROVE JmpLive
      OBVIOUS
    <2> DEFINE n == Len(call)
               setters == {i \in 1 .. n :
                             \/ /\ call[i].kind = "tmpl"
                                /\ i < n \/ call[i].done
                                /\ Modules[call[i].tmpl].opcodes # <<>>
                             \/ call[i].kind = "exec" /\ call[i].prevJmp = 0}
               h == IF Waiting(call) THEN n - 1 ELSE n
    <2>1. n \in Nat /\ IsJump(jmp, call, h, Base)
      BY DEF CallInv, CallOK, Frames, IsSeq
    <2>2. h \in 0 .. n
      BY <2>1 DEF Waiting
    <2>3. setters = {i \in 1 .. h : Catches(call[i])}
      <3>1. CASE Waiting(call)
        <4>1. n \in 1 .. n /\ h = n - 1 /\ call[n].kind = "tmpl" /\ ~call[n].done
          BY <2>1, <3>1 DEF Waiting
        <4>2. n \notin setters
          BY <2>1, <4>1
        <4>3. \A i \in 1 .. n : i # n => (i \in setters <=> (i \in 1 .. h /\ Catches(call[i])))
          BY <2>1, <4>1 DEF Catches
        <4>4. setters \subseteq 1 .. n /\ {i \in 1 .. h : Catches(call[i])} \subseteq 1 .. n
              /\ n \notin 1 .. h
          BY <2>1, <4>1
        <4> HIDE DEF setters, h
        <4> QED
          BY <4>2, <4>3, <4>4
      <3>2. CASE ~Waiting(call)
        <4>1. h = n
          BY <3>2
        <4>2. \A i \in 1 .. n : (call[i].kind = "tmpl" /\ ~(i < n)) => call[i].done
          BY <2>1, <3>2 DEF Waiting
        <4>3. \A i \in 1 .. n : i \in setters <=> Catches(call[i])
          BY <2>1, <4>2 DEF Catches
        <4>4. setters \subseteq 1 .. n
          OBVIOUS
        <4> HIDE DEF setters, h
        <4> QED
          BY <4>1, <4>3, <4>4
      <3> QED
        BY <3>1, <3>2
    <2> HIDE DEF setters, h
    <2>4. (setters # {} => jmp = Max(setters)) /\ (setters = {} => jmp = Base)
      <3>1. Len(call) \in Nat /\ h \in 0 .. Len(call)
        BY <2>1, <2>2
      <3>2. \A i : i \in setters <=> (i \in 1 .. h /\ Catches(call[i]))
        BY <2>3
      <3> HIDE DEF n
      <3> QED
        BY <2>1, <3>1, <3>2, JumpIsMax
    <2>5. jmp = IF setters # {} THEN Max(setters) ELSE IF app.catches THEN -1 ELSE 0
      BY <2>4 DEF Base
    <2> QED
      BY <2>5 DEF JmpLive, setters
  <1> QED
    BY <1>1, CallStack, PTL

(* Every module that execute_template found in the cache is released once, *)
(* and vm->depth is 0 between executions, whatever was thrown through the  *)
(* templates (vm.c:336, 386-397).                                           *)
THEOREM TemplatesReleased == Spec => []TemplatesUnwind
  <1>1. CallInv => TemplatesUnwind
    <2> SUFFICES ASSUME CallInv PROVE TemplatesUnwind
      OBVIOUS
    <2>1. Heights("tmpl") = Tmpls(call)
      BY DEF Heights, Tmpls
    <2>2. \A t \in Templates : pins[t] =
            Cardinality({i \in Heights("tmpl") : call[i].tmpl = t /\ call[i].fromCache})
      BY <2>1 DEF CallInv, Counted, Pinning
    <2>3. call = <<>> => vm.depth = 0
      <3>1. call = <<>> => Tmpls(call) = {}
        BY DEF Tmpls
      <3> QED
        BY <3>1 DEF CallInv, Depths
    <2> QED
      BY <2>2, <2>3 DEF TemplatesUnwind
  <1> QED
    BY <1>1, CallStack, PTL

(* handlebars_vm_execute gives NULL only together with an error, however   *)
(* deep in helpers and partials it was left (vm.c:1396-1430).              *)
THEOREM NoSilentNull == Spec => []NullReported
  <1>1. CallInv => NullReported
    BY DEF CallInv
  <1> QED
    BY <1>1, CallStack, PTL

-----------------------------------------------------------------------------
(* The registers of the VM, and the values that they and the stacks hold.   *)
(* What a frame has saved of the registers is what they are without that    *)
(* frame, so that each return gives them back: RegOK says so of every frame *)
(* of the call stack at once, with what the steps need of the values (the   *)
(* module of a partial's block is in memory or known to be freed, a program *)
(* number is a number) and of the opcodes (there is one after each that is  *)
(* not a return).  After an error nothing is said: longjmp leaves the       *)
(* registers as they are.                                                   *)

(* The modules that are in memory when the lowest n frames of c are on the *)
(* stack: freed (-1), never freed (0), or to be freed by a template.       *)
Live(c, n) == {-1, 0} \cup {k \in 1 .. n : c[k].kind = "tmpl"}
ModuleOK(m, c, n) == m \in [tmpl : Templates, frame : Live(c, n)]

(* The values the VM acts on.                                              *)
BlockOK(x, c, n) ==
    /\ x \in [t : {"block"}, module : [tmpl : Templates, frame : Live(c, n)],
              program : Nat, depth : Nat]
ValueOK(x, c, n) ==
    /\ x.t \in {"null", "plain", "fn", "hash", "num", "block"}
    /\ x.t = "num" => x.n \in Int
    /\ x.t = "block" => BlockOK(x, c, n)

Stacks(s, c, n) ==
    /\ s = [k \in StackNames |-> [v |-> s[k].v, protect |-> s[k].protect]]
    /\ \A k \in StackNames : s[k].protect \in Nat /\ IsSeq(s[k].v)
    /\ \A k \in {"stack", "partialBlock"} :
         \A i \in 1 .. Len(s[k].v) : ValueOK(s[k].v[i], c, n)

(* Of the lowest n frames of c, h is the innermost program, or the         *)
(* innermost program that was given data, 0 if there is none.              *)
Runs(h, c, n) ==
    \/ h \in 1 .. n /\ c[h].kind = "prog" /\ \A y \in 1 .. n : y > h => c[y].kind # "prog"
    \/ h = 0 /\ \A y \in 1 .. n : c[y].kind # "prog"

Given(f) == f.kind = "prog" /\ f.hasData
Gives(h, c, n) ==
    \/ h \in 1 .. n /\ Given(c[h]) /\ \A y \in 1 .. n : y > h => ~Given(c[y])
    \/ h = 0 /\ \A y \in 1 .. n : ~Given(c[y])

RunsModule(m, c, n) == \E h \in 1 .. n : Runs(h, c, n) /\ m = c[h].module

Code(f) == ModuleOf(f.module).opcodes

(* What a frame has saved of the registers is what they are without it.    *)
FrameReg(c, i) ==
    /\ c[i].kind = "prog" =>
         /\ ModuleOK(c[i].module, c, i - 1)
         /\ c[i].pc \in 1 .. Len(Code(c[i]))
         /\ Runs(c[i].prevBuffer, c, i - 1)
         /\ c[i].hasData => Gives(c[i].prevData, c, i - 1)
         /\ c[i - 1].kind # "exec" => RunsModule(c[i].module, c, i - 1)
         /\ \A n \in StackNames : c[i].count[n] \in Nat /\ c[i].protect[n] \in Nat
    /\ c[i].kind = "exec" =>
         /\ c[i].setup <=> i = 1
         /\ IF i = 1 THEN c[i].prevModule = NoModule ELSE RunsModule(c[i].prevModule, c, i - 1)
         /\ c[i].g \in Nat
    /\ c[i].kind = "op" =>
         /\ c[i].program \in Int /\ c[i].inverse \in Int
         /\ ValueOK(c[i].value, c, i - 1) /\ ValueOK(c[i].result, c, i - 1)
         /\ Code(c[i - 1])[c[i - 1].pc].op # "return"
    /\ c[i].kind = "block" => BlockOK(c[i].closure, c, i - 1)
    /\ c[i].kind = "tmpl" => c[i].tmpl \in Templates

(* The registers v are those of the program at the top of c.               *)
VmReg(v, c) ==
    /\ Runs(v.buffer, c, Len(c)) /\ Gives(v.data, c, Len(c))
    /\ v.owner = IF Len(c) = 0 THEN 0 ELSE 1
    /\ IF Len(c) = 0 THEN v.module = NoModule
       ELSE IF c[Len(c)].kind = "exec" THEN ModuleOK(v.module, c, Len(c))
       ELSE RunsModule(v.module, c, Len(c))

RegOK(c, v, s) ==
    /\ \A i \in 1 .. Len(c) : FrameReg(c, i)
    /\ VmReg(v, c)
    /\ Stacks(s, c, Len(c))

RegInv == error \/ RegOK(call, vm, stk)

(* The frames above can tell no difference between c and d.                *)
Seen(c, d, n) ==
    \A y \in 1 .. n :
        /\ d[y].kind = c[y].kind
        /\ c[y].kind = "prog" => d[y].module = c[y].module /\ d[y].hasData = c[y].hasData

(* What is said of the lowest frames is said of these alone.               *)
LEMMA SeenRuns ==
    ASSUME NEW c, NEW d, NEW n \in Nat, Seen(c, d, n)
    PROVE  /\ \A h : Runs(h, c, n) => Runs(h, d, n)
           /\ \A h : Gives(h, c, n) => Gives(h, d, n)
           /\ \A m : RunsModule(m, c, n) => RunsModule(m, d, n)
           /\ Live(d, n) = Live(c, n)
  <1>1. \A h : Runs(h, c, n) => Runs(h, d, n)
    BY DEF Seen, Runs
  <1>2. \A y \in 1 .. n : Given(d[y]) <=> Given(c[y])
    BY DEF Seen, Given
  <1>3. \A h : Gives(h, c, n) => Gives(h, d, n)
    BY <1>2 DEF Gives
  <1>4. \A m : RunsModule(m, c, n) => RunsModule(m, d, n)
    <2> SUFFICES ASSUME NEW m, RunsModule(m, c, n) PROVE RunsModule(m, d, n)
      OBVIOUS
    <2>1. PICK h \in 1 .. n : Runs(h, c, n) /\ m = c[h].module
      BY DEF RunsModule
    <2>2. c[h].kind = "prog"
      BY <2>1 DEF Runs
    <2>3. d[h].module = c[h].module
      BY <2>2 DEF Seen
    <2> QED
      BY <1>1, <2>1, <2>3 DEF RunsModule
  <1>5. Live(d, n) = Live(c, n)
    BY DEF Seen, Live
  <1> QED
    BY <1>1, <1>3, <1>4, <1>5

(* One frame more.                                                         *)
LEMMA OneMore ==
    ASSUME NEW c, NEW n \in Nat
    PROVE  /\ c[n + 1].kind # "prog" => /\ \A h : Runs(h, c, n + 1) <=> Runs(h, c, n)
                                        /\ \A m : RunsModule(m, c, n + 1) <=> RunsModule(m, c, n)
           /\ c[n + 1].kind = "prog" => /\ Runs(n + 1, c, n + 1)
                                        /\ \A m : RunsModule(m, c, n + 1) <=> m = c[n + 1].module
           /\ ~Given(c[n + 1]) => \A h : Gives(h, c, n + 1) <=> Gives(h, c, n)
           /\ Given(c[n + 1]) => Gives(n + 1, c, n + 1)
           /\ c[n + 1].kind # "tmpl" => Live(c, n + 1) = Live(c, n)
           /\ Live(c, n) \subseteq Live(c, n + 1)
           /\ Live(c, n + 1) \ {n + 1} \subseteq Live(c, n)
  <1>1. \A y \in 1 .. n + 1 : y = n + 1 \/ y \in 1 .. n
    OBVIOUS
  <1>2. ASSUME c[n + 1].kind # "prog"
        PROVE  \A h : Runs(h, c, n + 1) <=> Runs(h, c, n)
    BY <1>1, <1>2 DEF Runs
  <1>3. ASSUME c[n + 1].kind # "prog", NEW m
        PROVE  RunsModule(m, c, n + 1) <=> RunsModule(m, c, n)
    <2>1. ASSUME NEW h, Runs(h, c, n + 1)
          PROVE  h # n + 1
      BY <1>3, <2>1 DEF Runs
    <2> QED
      BY <1>1, <1>2, <1>3, <2>1 DEF RunsModule
  <1>4. ASSUME c[n + 1].kind = "prog"
        PROVE  Runs(n + 1, c, n + 1) /\ \A h : Runs(h, c, n + 1) => h = n + 1
    BY <1>1, <1>4 DEF Runs
  <1>5. ASSUME c[n + 1].kind = "prog", NEW m
        PROVE  RunsModule(m, c, n + 1) <=> m = c[n + 1].module
    <2>1. n + 1 \in 1 .. n + 1
      OBVIOUS
    <2> QED
      BY <1>4, <1>5, <2>1 DEF RunsModule
  <1>6. ASSUME ~Given(c[n + 1])
        PROVE  \A h : Gives(h, c, n + 1) <=> Gives(h, c, n)
    BY <1>1, <1>6 DEF Gives
  <1>7. ASSUME Given(c[n + 1])
        PROVE  Gives(n + 1, c, n + 1)
    BY <1>1, <1>7 DEF Gives
  <1>8. c[n + 1].kind # "tmpl" => Live(c, n + 1) = Live(c, n)
    BY <1>1 DEF Live
  <1>9. Live(c, n) \subseteq Live(c, n + 1) /\ Live(c, n + 1) \ {n + 1} \subseteq Live(c, n)
    BY <1>1 DEF Live
  <1> QED
    BY <1>2, <1>3, <1>4, <1>5, <1>6, <1>7, <1>8, <1>9

(* A value is what it was when the same modules, or more, are in memory.   *)
LEMMA ValueLives ==
    ASSUME NEW c, NEW d, NEW n, NEW m, Live(c, n) \subseteq Live(d, m)
    PROVE  /\ \A x : ModuleOK(x, c, n) => ModuleOK(x, d, m)
           /\ \A x : BlockOK(x, c, n) => BlockOK(x, d, m)
           /\ \A x : ValueOK(x, c, n) => ValueOK(x, d, m)
           /\ \A s : Stacks(s, c, n) => Stacks(s, d, m)
  <1>1. \A x : ModuleOK(x, c, n) => ModuleOK(x, d, m)
    BY DEF ModuleOK
  <1>2. \A x : BlockOK(x, c, n) => BlockOK(x, d, m)
    BY DEF BlockOK
  <1>3. \A x : ValueOK(x, c, n) => ValueOK(x, d, m)
    BY <1>2 DEF ValueOK
  <1>4. \A s : Stacks(s, c, n) => Stacks(s, d, m)
    BY <1>3 DEF Stacks
  <1> QED
    BY <1>1, <1>2, <1>3, <1>4

(* What a frame has saved is a matter of the frames below it.              *)
LEMMA FrameSame ==
    ASSUME NEW c, NEW d, NEW i \in Nat \ {0}, \A y \in 1 .. i : d[y] = c[y], FrameReg(c, i),
           i = 1 => c[i].kind = "exec"
    PROVE  FrameReg(d, i)
  <1>1. i - 1 \in Nat /\ i \in 1 .. i /\ d[i] = c[i] /\ (i # 1 => d[i - 1] = c[i - 1])
    OBVIOUS
  <1>2. Seen(c, d, i - 1)
    BY <1>1 DEF Seen
  <1>3. /\ \A h : Runs(h, c, i - 1) => Runs(h, d, i - 1)
        /\ \A h : Gives(h, c, i - 1) => Gives(h, d, i - 1)
        /\ \A m : RunsModule(m, c, i - 1) => RunsModule(m, d, i - 1)
        /\ \A x : ModuleOK(x, c, i - 1) => ModuleOK(x, d, i - 1)
        /\ \A x : BlockOK(x, c, i - 1) => BlockOK(x, d, i - 1)
        /\ \A x : ValueOK(x, c, i - 1) => ValueOK(x, d, i - 1)
    BY <1>1, <1>2, SeenRuns, ValueLives
  <1>4. CASE i = 1
    BY <1>1, <1>4 DEF FrameReg
  <1>5. CASE i # 1
    <2>1. d[i] = c[i] /\ d[i - 1] = c[i - 1]
      BY <1>1, <1>5
    <2>2. c[i].kind = "prog" =>
            /\ ModuleOK(c[i].module, d, i - 1)
            /\ Runs(c[i].prevBuffer, d, i - 1)
            /\ c[i].hasData => Gives(c[i].prevData, d, i - 1)
            /\ c[i - 1].kind # "exec" => RunsModule(c[i].module, d, i - 1)
      BY <1>3 DEF FrameReg
    <2>3. c[i].kind = "exec" =>
            IF i = 1 THEN c[i].prevModule = NoModule ELSE RunsModule(c[i].prevModule, d, i - 1)
      BY <1>3 DEF FrameReg
    <2>4. /\ c[i].kind = "op" => ValueOK(c[i].value, d, i - 1) /\ ValueOK(c[i].result, d, i - 1)
          /\ c[i].kind = "block" => BlockOK(c[i].closure, d, i - 1)
      BY <1>3 DEF FrameReg
    <2> QED
      BY <2>1, <2>2, <2>3, <2>4 DEF FrameReg
  <1> QED
    BY <1>4, <1>5

(* The frame g is f, some steps later: it has saved the same registers.    *)
(* It is at height m of c, or will be.                                     *)
Saved(f, g, c, m) ==
    /\ g.kind = f.kind
    /\ f.kind = "prog" =>
         /\ g.module = f.module /\ g.prevBuffer = f.prevBuffer
         /\ g.hasData = f.hasData /\ g.prevData = f.prevData
         /\ g.count = f.count /\ g.protect = f.protect
         /\ g.pc \in 1 .. Len(Code(f))
    /\ f.kind = "exec" => g.setup = f.setup /\ g.prevModule = f.prevModule /\ g.g = f.g
    /\ f.kind = "op" =>
         /\ g.program = f.program /\ g.inverse = f.inverse /\ g.value = f.value
         /\ ValueOK(g.result, c, m - 1)
    /\ f.kind = "block" => g.closure = f.closure
    /\ f.kind = "tmpl" => g.tmpl = f.tmpl

(* The top frame goes on.                                                  *)
LEMMA TopSaved ==
    ASSUME NEW c, NEW d, NEW m \in Nat \ {0}, \A i \in 1 .. m : FrameReg(c, i),
           c[1].kind = "exec", \A y \in 1 .. m : y < m => d[y] = c[y],
           Saved(c[m], d[m], c, m)
    PROVE  /\ \A i \in 1 .. m : FrameReg(d, i)
           /\ Seen(c, d, m)
  <1>1. \A i \in 1 .. m : i < m => FrameReg(d, i)
    <2> SUFFICES ASSUME NEW i \in 1 .. m, i < m PROVE FrameReg(d, i)
      OBVIOUS
    <2>1. i \in Nat \ {0} /\ FrameReg(c, i) /\ \A y \in 1 .. i : d[y] = c[y]
      OBVIOUS
    <2> QED
      BY <2>1, FrameSame
  <1>2. FrameReg(d, m)
    <2>1. m - 1 \in Nat /\ FrameReg(c, m) /\ (m # 1 => d[m - 1] = c[m - 1])
      OBVIOUS
    <2>2. Seen(c, d, m - 1)
      BY DEF Seen
    <2>3. /\ \A h : Runs(h, c, m - 1) => Runs(h, d, m - 1)
          /\ \A h : Gives(h, c, m - 1) => Gives(h, d, m - 1)
          /\ \A x : RunsModule(x, c, m - 1) => RunsModule(x, d, m - 1)
          /\ \A x : ModuleOK(x, c, m - 1) => ModuleOK(x, d, m - 1)
          /\ \A x : BlockOK(x, c, m - 1) => BlockOK(x, d, m - 1)
          /\ \A x : ValueOK(x, c, m - 1) => ValueOK(x, d, m - 1)
      BY <2>1, <2>2, SeenRuns, ValueLives
    <2>4. CASE c[m].kind = "prog"
      <3>1. /\ d[m].kind = "prog" /\ d[m].module = c[m].module /\ d[m].prevBuffer = c[m].prevBuffer
            /\ d[m].hasData = c[m].hasData /\ d[m].prevData = c[m].prevData
            /\ d[m].count = c[m].count /\ d[m].protect = c[m].protect
            /\ d[m].pc \in 1 .. Len(Code(d[m]))
        BY <2>4 DEF Saved, Code
      <3>2. /\ ModuleOK(c[m].module, d, m - 1)
            /\ Runs(c[m].prevBuffer, d, m - 1)
            /\ c[m].hasData => Gives(c[m].prevData, d, m - 1)
            /\ c[m - 1].kind # "exec" => RunsModule(c[m].module, d, m - 1)
            /\ \A n \in StackNames : c[m].count[n] \in Nat /\ c[m].protect[n] \in Nat
        BY <2>1, <2>3, <2>4 DEF FrameReg
      <3>3. m # 1
        BY <2>4
      <3> QED
        BY <2>1, <3>1, <3>2, <3>3 DEF FrameReg
    <2>5. CASE c[m].kind = "exec"
      <3>1. d[m].kind = "exec" /\ d[m].setup = c[m].setup /\ d[m].prevModule = c[m].prevModule
            /\ d[m].g = c[m].g
        BY <2>5 DEF Saved
      <3>2. /\ c[m].setup <=> m = 1
            /\ IF m = 1 THEN c[m].prevModule = NoModule ELSE RunsModule(c[m].prevModule, d, m - 1)
            /\ c[m].g \in Nat
        BY <2>1, <2>3, <2>5 DEF FrameReg
      <3> QED
        BY <3>1, <3>2 DEF FrameReg
    <2>6. CASE c[m].kind = "op"
      <3>1. /\ d[m].kind = "op" /\ d[m].program = c[m].program /\ d[m].inverse = c[m].inverse
            /\ d[m].value = c[m].value /\ ValueOK(d[m].result, d, m - 1)
        BY <2>3, <2>6 DEF Saved
      <3>2. m # 1
        BY <2>6
      <3>3. /\ c[m].program \in Int /\ c[m].inverse \in Int /\ ValueOK(c[m].value, d, m - 1)
            /\ Code(d[m - 1])[d[m - 1].pc].op # "return"
        BY <2>1, <2>3, <2>6, <3>2 DEF FrameReg
      <3> QED
        BY <3>1, <3>3 DEF FrameReg
    <2>7. CASE c[m].kind = "block"
      BY <2>1, <2>3, <2>7 DEF FrameReg, Saved
    <2>8. CASE c[m].kind = "tmpl"
      BY <2>1, <2>8 DEF FrameReg, Saved
    <2>9. CASE c[m].kind \notin Kinds
      BY <2>9 DEF FrameReg, Saved, Kinds
    <2> QED
      BY <2>4, <2>5, <2>6, <2>7, <2>8, <2>9 DEF Kinds
  <1>3. Seen(c, d, m)
    <2> SUFFICES ASSUME NEW y \in 1 .. m
                 PROVE  /\ d[y].kind = c[y].kind
                        /\ c[y].kind = "prog" => d[y].module = c[y].module /\ d[y].hasData = c[y].hasData
      BY DEF Seen
    <2>1. y < m \/ y = m
      OBVIOUS
    <2> QED
      BY <2>1 DEF Saved
  <1>4. \A i \in 1 .. m : i < m \/ i = m
    OBVIOUS
  <1> QED
    BY <1>1, <1>2, <1>3, <1>4

(* A frame is pushed.                                                      *)
LEMMA PushSaved ==
    ASSUME NEW c, NEW d, NEW n \in Nat, \A i \in 1 .. n : FrameReg(c, i),
           n > 0 => c[1].kind = "exec", \A y \in 1 .. n : d[y] = c[y], FrameReg(d, n + 1)
    PROVE  \A i \in 1 .. n + 1 : FrameReg(d, i)
  <1> SUFFICES ASSUME NEW i \in 1 .. n + 1 PROVE FrameReg(d, i)
    OBVIOUS
  <1>1. CASE i = n + 1
    BY <1>1
  <1>2. CASE i \in 1 .. n
    <2>1. i \in Nat \ {0} /\ FrameReg(c, i) /\ \A y \in 1 .. i : d[y] = c[y]
      BY <1>2
    <2>2. i = 1 => c[i].kind = "exec"
      BY <1>2
    <2> QED
      BY <2>1, <2>2, FrameSame
  <1> QED
    BY <1>1, <1>2

-----------------------------------------------------------------------------
(* The stacks hold values the VM knows *)

Held(q, c, n) == \A i \in 1 .. Len(q) : ValueOK(q[i], c, n)

(* One stack is replaced.                                                  *)
LEMMA StackWith ==
    ASSUME NEW c, NEW n, NEW s, Stacks(s, c, n), NEW k \in StackNames, NEW q, IsSeq(q),
           k \in {"stack", "partialBlock"} => Held(q, c, n)
    PROVE  /\ Stacks([s EXCEPT ![k].v = q], c, n)
           /\ \A j \in StackNames : j # k => [s EXCEPT ![k].v = q][j] = s[j]
  <1> DEFINE t == [s EXCEPT ![k].v = q]
  <1>1. s = [j \in StackNames |-> [v |-> s[j].v, protect |-> s[j].protect]]
    BY DEF Stacks
  <1>2. /\ t = [j \in StackNames |-> [v |-> IF j = k THEN q ELSE s[j].v, protect |-> s[j].protect]]
        /\ \A j \in StackNames : j # k => t[j] = s[j]
    BY <1>1
  <1> HIDE DEF t
  <1>3. /\ t = [j \in StackNames |-> [v |-> t[j].v, protect |-> t[j].protect]]
        /\ \A j \in StackNames : t[j].v = (IF j = k THEN q ELSE s[j].v) /\ t[j].protect = s[j].protect
    BY <1>2
  <1>4. \A j \in StackNames : t[j].protect \in Nat /\ IsSeq(t[j].v)
    BY <1>3 DEF Stacks
  <1>5. \A j \in {"stack", "partialBlock"} : \A i \in 1 .. Len(t[j].v) : ValueOK(t[j].v[i], c, n)
    <2>1. {"stack", "partialBlock"} \subseteq StackNames
      BY DEF StackNames
    <2> QED
      BY <1>3, <2>1 DEF Stacks, Held
  <1> QED
    BY <1>2, <1>3, <1>4, <1>5 DEF Stacks, t

(* A value is pushed.                                                      *)
LEMMA StackPush ==
    ASSUME NEW c, NEW n, NEW s, Stacks(s, c, n), NEW k \in StackNames, NEW x,
           k \in {"stack", "partialBlock"} => ValueOK(x, c, n)
    PROVE  /\ Stacks(Push(s, k, x), c, n)
           /\ \A j \in StackNames : j # k => Push(s, k, x)[j] = s[j]
  <1> DEFINE q == Append(s[k].v, x)
  <1>1. IsSeq(s[k].v)
    BY DEF Stacks
  <1>2. /\ IsSeq(q) /\ Len(q) = Len(s[k].v) + 1 /\ q[Len(s[k].v) + 1] = x
        /\ \A i \in 1 .. Len(s[k].v) : q[i] = s[k].v[i]
    BY <1>1, AppendSeq
  <1>3. Push(s, k, x) = [s EXCEPT ![k].v = q]
    BY DEF Push
  <1> HIDE DEF q
  <1>4. k \in {"stack", "partialBlock"} => Held(q, c, n)
    <2> SUFFICES ASSUME k \in {"stack", "partialBlock"}, NEW i \in 1 .. Len(s[k].v) + 1
                 PROVE  ValueOK(q[i], c, n)
      BY <1>2 DEF Held
    <2>1. Len(s[k].v) \in Nat
      BY <1>1 DEF IsSeq
    <2>2. i = Len(s[k].v) + 1 \/ i \in 1 .. Len(s[k].v)
      BY <2>1
    <2> QED
      BY <1>2, <2>2 DEF Stacks
  <1>5. /\ Stacks([s EXCEPT ![k].v = q], c, n)
        /\ \A j \in StackNames : j # k => [s EXCEPT ![k].v = q][j] = s[j]
    BY <1>2, <1>4, StackWith
  <1> QED
    BY <1>3, <1>5, Zenon

(* The first m values of a stack.                                          *)
LEMMA StackCut ==
    ASSUME NEW c, NEW n, NEW s, Stacks(s, c, n), NEW k \in StackNames, NEW m \in 0 .. Len(s[k].v)
    PROVE  /\ IsSeq(SubSeq(s[k].v, 1, m))
           /\ k \in {"stack", "partialBlock"} => Held(SubSeq(s[k].v, 1, m), c, n)
  <1>1. IsSeq(s[k].v) /\ Len(s[k].v) \in Nat
    BY DEF Stacks, IsSeq
  <1>2. /\ IsSeq(SubSeq(s[k].v, 1, m)) /\ Len(SubSeq(s[k].v, 1, m)) = m
        /\ \A i \in 1 .. m : SubSeq(s[k].v, 1, m)[i] = s[k].v[i]
    BY <1>1, PrefixSeq
  <1>3. \A i \in 1 .. m : i \in 1 .. Len(s[k].v)
    BY <1>1
  <1> HIDE DEF StackNames
  <1> QED
    BY <1>2, <1>3 DEF Held, Stacks

(* The stack k with its lowest m values, when j or fewer are cut off.      *)
CutTo(s, k, j, m) ==
    /\ m \in 0 .. Len(s[k].v)
    /\ m >= Len(s[k].v) - j
    /\ Pop(s, k, j) = [s EXCEPT ![k].v = SubSeq(s[k].v, 1, m)]

(* As many values are popped as are asked for, or fewer.                   *)
LEMMA PopCuts ==
    ASSUME NEW c, NEW n, NEW s, Stacks(s, c, n), NEW k \in StackNames, NEW j \in Nat
    PROVE  \E m : CutTo(s, k, j, m)
  <1> DEFINE l == Len(s[k].v)
             p == Min({l, Floor(s, k)})
             m == Max({l - j, p})
  <1>1. l \in Nat /\ Floor(s, k) \in Nat
    BY DEF Stacks, IsSeq, Floor
  <1>2. p \in 0 .. l
    <2> DEFINE b == Floor(s, k)
    <2>1. b \in Nat
      BY <1>1
    <2> HIDE DEF b, l
    <2>2. \E x \in {l, b} : \A y \in {l, b} : x <= y
      BY <1>1, <2>1
    <2> QED
      BY <1>1, <2>1, <2>2 DEF Min, b
  <1> HIDE DEF p, l
  <1>3. m \in 0 .. l /\ m >= l - j
    <2> DEFINE a == l - j
    <2>1. a \in Int /\ a <= l
      BY <1>1
    <2> HIDE DEF a
    <2>2. \E x \in {a, p} : \A y \in {a, p} : x >= y
      BY <1>1, <1>2, <2>1
    <2>3. Max({a, p}) \in 0 .. l /\ Max({a, p}) >= a
      BY <1>1, <1>2, <2>1, <2>2 DEF Max
    <2> QED
      BY <2>3 DEF a
  <1>4. Pop(s, k, j) = [s EXCEPT ![k].v = SubSeq(s[k].v, 1, m)]
    BY DEF Pop, p, l
  <1>5. m \in 0 .. Len(s[k].v) /\ m >= Len(s[k].v) - j
    BY <1>3 DEF l
  <1> HIDE DEF m
  <1>6. CutTo(s, k, j, m)
    BY <1>4, <1>5 DEF CutTo
  <1> QED
    BY <1>6

(* What is left are values.                                                *)
LEMMA StackPop ==
    ASSUME NEW c, NEW n, NEW s, Stacks(s, c, n), NEW k \in StackNames, NEW j \in Nat
    PROVE  /\ Stacks(Pop(s, k, j), c, n)
           /\ \A i \in StackNames : i # k => Pop(s, k, j)[i] = s[i]
  <1>1. PICK m : CutTo(s, k, j, m)
    BY PopCuts
  <1> DEFINE q == SubSeq(s[k].v, 1, m)
  <1>2. IsSeq(q) /\ (k \in {"stack", "partialBlock"} => Held(q, c, n))
    BY <1>1, StackCut DEF CutTo
  <1>3. Pop(s, k, j) = [s EXCEPT ![k].v = q]
    BY <1>1 DEF CutTo
  <1> HIDE DEF q
  <1>4. /\ Stacks([s EXCEPT ![k].v = q], c, n)
        /\ \A i \in StackNames : i # k => [s EXCEPT ![k].v = q][i] = s[i]
    BY <1>2, StackWith
  <1> QED
    BY <1>3, <1>4, Zenon

(* handlebars_stack_save.                                                  *)
LEMMA StackSave ==
    ASSUME NEW c, NEW n, NEW s, Stacks(s, c, n)
    PROVE  /\ Stacks(Save(s), c, n)
           /\ \A k \in StackNames : Len5(s)[k] \in Nat
  <1> DEFINE t == Save(s)
  <1>1. /\ \A k \in StackNames : s[k] = [v |-> s[k].v, protect |-> s[k].protect]
        /\ \A k \in StackNames : Len(s[k].v) \in Nat /\ IsSeq(s[k].v)
    BY DEF Stacks, IsSeq
  <1>2. \A k \in StackNames :
          [s[k] EXCEPT !.protect = Len(s[k].v)] = [v |-> s[k].v, protect |-> Len(s[k].v)]
    <2> SUFFICES ASSUME NEW k \in StackNames
                 PROVE  [s[k] EXCEPT !.protect = Len(s[k].v)] = [v |-> s[k].v, protect |-> Len(s[k].v)]
      OBVIOUS
    <2> DEFINE a == s[k].v
               b == s[k].protect
               l == Len(s[k].v)
    <2>1. s[k] = [v |-> a, protect |-> b]
      BY <1>1
    <2> HIDE DEF a, b, l
    <2>2. [s[k] EXCEPT !.protect = l] = [v |-> a, protect |-> l]
      BY <2>1
    <2> QED
      BY <2>2 DEF a, l
  <1>3. t = [k \in StackNames |-> [v |-> s[k].v, protect |-> Len(s[k].v)]]
    BY <1>2 DEF Save
  <1> HIDE DEF t
  <1>4. /\ t = [j \in StackNames |-> [v |-> t[j].v, protect |-> t[j].protect]]
        /\ \A j \in StackNames : t[j].v = s[j].v /\ t[j].protect = Len(s[j].v)
    BY <1>3
  <1>5. {"stack", "partialBlock"} \subseteq StackNames
    BY DEF StackNames
  <1>6. Stacks(t, c, n)
    BY <1>1, <1>4, <1>5 DEF Stacks
  <1>7. \A k \in StackNames : Len5(s)[k] \in Nat
    BY <1>1 DEF Len5
  <1> QED
    BY <1>6, <1>7 DEF t

(* handlebars_stack_restore.                                               *)
LEMMA StackRestore ==
    ASSUME NEW c, NEW n, NEW s, Stacks(s, c, n), NEW f,
           \A k \in StackNames : f.count[k] \in Nat /\ f.protect[k] \in Nat
    PROVE  Stacks(Restore(s, f), c, n)
  <1> DEFINE q(k) == IF Len(s[k].v) > f.count[k] THEN SubSeq(s[k].v, 1, f.count[k]) ELSE s[k].v
             t == Restore(s, f)
  <1>1. t = [k \in StackNames |-> [v |-> q(k), protect |-> f.protect[k]]]
    BY DEF Restore
  <1>2. ASSUME NEW k \in StackNames
        PROVE  /\ IsSeq(q(k))
               /\ k \in {"stack", "partialBlock"} => Held(q(k), c, n)
    <2>1. IsSeq(s[k].v) /\ Len(s[k].v) \in Nat /\ f.count[k] \in Nat
      BY DEF Stacks, IsSeq
    <2>2. CASE Len(s[k].v) > f.count[k]
      <3>1. f.count[k] \in 0 .. Len(s[k].v)
        BY <2>1, <2>2
      <3> QED
        BY <2>2, <3>1, StackCut
    <2>3. CASE ~(Len(s[k].v) > f.count[k])
      BY <2>1, <2>3 DEF Stacks, Held
    <2> QED
      BY <2>2, <2>3
  <1> HIDE DEF t, q
  <1>3. /\ t = [j \in StackNames |-> [v |-> t[j].v, protect |-> t[j].protect]]
        /\ \A j \in StackNames : t[j].v = q(j) /\ t[j].protect = f.protect[j]
    BY <1>1
  <1>4. {"stack", "partialBlock"} \subseteq StackNames
    BY DEF StackNames
  <1>5. \A j \in StackNames : t[j].protect \in Nat /\ IsSeq(t[j].v)
    BY <1>2, <1>3
  <1>6. \A j \in {"stack", "partialBlock"} : Held(t[j].v, c, n)
    BY <1>2, <1>3, <1>4
  <1>7. Stacks(t, c, n)
    BY <1>3, <1>5, <1>6 DEF Stacks, Held
  <1> QED
    BY <1>7 DEF t

(* The stacks of a new execution.                                          *)
LEMMA StackEmpty ==
    ASSUME NEW c, NEW n
    PROVE  Stacks(EmptyStacks, c, n)
  <1>1. \A k \in StackNames : EmptyStacks[k].v = <<>> /\ EmptyStacks[k].protect = 0
    BY DEF EmptyStacks
  <1>2. EmptyStacks = [k \in StackNames |-> [v |-> EmptyStacks[k].v, protect |-> EmptyStacks[k].protect]]
    BY DEF EmptyStacks
  <1>3. {"stack", "partialBlock"} \subseteq StackNames
    BY DEF StackNames
  <1> QED
    BY <1>1, <1>2, <1>3, EmptyIsSeq DEF Stacks

(* What is popped, or the top of a stack.                                  *)
LEMMA StackTop ==
    ASSUME NEW c, NEW n, NEW s, Stacks(s, c, n), NEW k \in {"stack", "partialBlock"}
    PROVE  /\ \A j \in Nat \ {0} : ValueOK(Popped(s, k, j), c, n)
           /\ ValueOK(Top(s, k), c, n)
  <1>1. Len(s[k].v) \in Nat /\ IsSeq(s[k].v)
    BY DEF Stacks, IsSeq, StackNames
  <1>2. ValueOK(Null, c, n)
    BY DEF ValueOK, Null
  <1>3. ASSUME NEW j \in Nat \ {0}
        PROVE  ValueOK(Popped(s, k, j), c, n)
    <2>1. CASE j > Len(s[k].v)
      BY <1>2, <2>1 DEF Popped
    <2>2. CASE ~(j > Len(s[k].v))
      <3>1. Len(s[k].v) - j + 1 \in 1 .. Len(s[k].v)
        BY <1>1, <2>2
      <3>2. ValueOK(s[k].v[Len(s[k].v) - j + 1], c, n)
        BY <3>1 DEF Stacks
      <3> QED
        BY <2>2, <3>2 DEF Popped
    <2> QED
      BY <2>1, <2>2
  <1>4. CASE s[k].v = <<>>
    BY <1>2, <1>3, <1>4 DEF Top
  <1>5. CASE s[k].v # <<>>
    <2>1. Last(s[k].v) = s[k].v[Len(s[k].v)] /\ Len(s[k].v) \in 1 .. Len(s[k].v)
      BY <1>1, <1>5, FrontSeq
    <2>2. ValueOK(s[k].v[Len(s[k].v)], c, n)
      BY <2>1 DEF Stacks
    <2> QED
      BY <1>3, <1>5, <2>1, <2>2 DEF Top
  <1> QED
    BY <1>4, <1>5

-----------------------------------------------------------------------------
(* Moves of the call stack and the registers together *)

(* The module of a program that runs is in memory.                         *)
LEMMA RunningOK ==
    ASSUME NEW c, NEW n \in Nat, \A i \in 1 .. n : FrameReg(c, i), NEW m, RunsModule(m, c, n)
    PROVE  ModuleOK(m, c, n)
  <1>1. PICK h \in 1 .. n : Runs(h, c, n) /\ m = c[h].module
    BY DEF RunsModule
  <1>2. c[h].kind = "prog"
    BY <1>1 DEF Runs
  <1>3. ModuleOK(m, c, h - 1)
    BY <1>1, <1>2 DEF FrameReg
  <1>4. Live(c, h - 1) \subseteq Live(c, n)
    BY DEF Live
  <1> QED
    BY <1>3, <1>4, ValueLives

(* A program that is not at its return has an opcode after this one.       *)
LEMMA NextOpcode ==
    ASSUME NEW c, NEW n, c[n].kind = "prog", FrameReg(c, n),
           Code(c[n])[c[n].pc].op # "return"
    PROVE  c[n].pc + 1 \in 1 .. Len(Code(c[n]))
  <1> DEFINE t == c[n].module.tmpl
             pc == c[n].pc
             opcodes == Modules[t].opcodes
  <1>1. t \in Templates /\ pc \in 1 .. Len(opcodes) /\ opcodes[pc].op # "return"
    BY DEF FrameReg, ModuleOK, Code, ModuleOf
  <1>2. Len(opcodes) \in Nat /\ (opcodes # <<>> => opcodes[Len(opcodes)].op = "return")
    BY <1>1, ModulesAssumption
  <1>3. opcodes # <<>>
    BY <1>1, EmptyIsSeq
  <1>4. pc # Len(opcodes)
    BY <1>1, <1>2, <1>3
  <1>5. pc + 1 \in 1 .. Len(opcodes)
    <2> DEFINE l == Len(opcodes)
    <2>1. pc \in 1 .. l /\ l \in Nat /\ pc # l
      BY <1>1, <1>2, <1>4
    <2> HIDE DEF pc, l
    <2>2. pc + 1 \in 1 .. l
      BY <2>1
    <2> QED
      BY <2>2 DEF l
  <1> QED
    BY <1>5 DEF Code, ModuleOf

(* What the invariants say of the top of the call stack.                   *)
LEMMA RegFacts ==
    ASSUME CallInv, RegOK(call, vm, stk), call # <<>>
    PROVE  /\ Len(call) \in Nat \ {0} /\ IsSeq(call) /\ Last(call) = call[Len(call)]
           /\ call[1].kind = "exec"
           /\ \A i \in 1 .. Len(call) : FrameReg(call, i)
           /\ FrameReg(call, Len(call)) /\ FrameOK(Last(call))
           /\ Runs(vm.buffer, call, Len(call)) /\ Gives(vm.data, call, Len(call))
           /\ vm.owner = 1
           /\ Last(call).kind = "exec" => ModuleOK(vm.module, call, Len(call))
           /\ Last(call).kind # "exec" => RunsModule(vm.module, call, Len(call))
           /\ ModuleOK(vm.module, call, Len(call))
           /\ Stacks(stk, call, Len(call))
           /\ DOMAIN vm = VmFields
  <1>1. Len(call) \in Nat \ {0} /\ IsSeq(call) /\ Last(call) = call[Len(call)] /\ FrameOK(Last(call))
    BY CallFacts, TopOf
  <1>2. call[1].kind = "exec"
    <2>1. Nested(call) /\ 1 \in 1 .. Len(call)
      BY <1>1 DEF CallInv, CallOK, Frames
    <2> QED
      BY <2>1 DEF Nested
  <1>3. \A i \in 1 .. Len(call) : FrameReg(call, i)
    BY DEF RegOK
  <1>4. FrameReg(call, Len(call))
    BY <1>1, <1>3
  <1>5. /\ Runs(vm.buffer, call, Len(call)) /\ Gives(vm.data, call, Len(call))
        /\ vm.owner = 1
        /\ Last(call).kind = "exec" => ModuleOK(vm.module, call, Len(call))
        /\ Last(call).kind # "exec" => RunsModule(vm.module, call, Len(call))
    BY <1>1 DEF RegOK, VmReg
  <1>6. ModuleOK(vm.module, call, Len(call))
    BY <1>1, <1>3, <1>5, RunningOK
  <1> QED
    BY <1>1, <1>2, <1>3, <1>4, <1>5, <1>6, VmTypes DEF RegOK

(* The running program: its module and its opcode.                         *)
LEMMA OpcodeFacts ==
    ASSUME CallInv, RegOK(call, vm, stk), TopIs("prog")
    PROVE  /\ call # <<>> /\ call[Len(call)].kind = "prog" /\ Last(call).kind = "prog"
           /\ Opcode = Code(call[Len(call)])[call[Len(call)].pc]
           /\ Opcode.op \in {"invoke_helper", "invoke_known_helper"} => Opcode.n \in Nat
           /\ Opcode.op = "push_program" => Opcode.n \in Int
  <1>1. call # <<>> /\ Last(call).kind = "prog"
    BY DEF TopIs
  <1>2. Last(call) = call[Len(call)] /\ FrameReg(call, Len(call))
    BY <1>1, RegFacts
  <1>3. Opcode = Code(call[Len(call)])[call[Len(call)].pc]
    BY <1>2 DEF Opcode, Code
  <1>4. /\ Opcode.op \in {"invoke_helper", "invoke_known_helper"} => Opcode.n \in Nat
        /\ Opcode.op = "push_program" => Opcode.n \in Int
    <2> DEFINE t == call[Len(call)].module.tmpl
               pc == call[Len(call)].pc
    <2>1. t \in Templates /\ pc \in 1 .. Len(Modules[t].opcodes)
      BY <1>1, <1>2 DEF FrameReg, ModuleOK, Code, ModuleOf
    <2>2. pc \in DOMAIN Modules[t].opcodes
      BY <2>1, ModulesAssumption
    <2>3. Opcode = Modules[t].opcodes[pc]
      BY <1>3 DEF Code, ModuleOf
    <2> QED
      BY <2>1, <2>2, <2>3, ModulesAssumption
  <1> QED
    BY <1>1, <1>2, <1>3, <1>4

(* The registers of c are those of d, whose frames look the same.          *)
LEMMA RegSeen ==
    ASSUME NEW c, NEW d, NEW n \in Nat \ {0}, Len(c) = n, Len(d) = n, Seen(c, d, n),
           \A i \in 1 .. n : FrameReg(d, i), NEW v, NEW w, VmReg(v, c),
           w.buffer = v.buffer, w.data = v.data, w.owner = v.owner, w.module = v.module,
           NEW s, Stacks(s, c, n)
    PROVE  RegOK(d, w, s)
  <1>1. /\ \A h : Runs(h, c, n) => Runs(h, d, n)
        /\ \A h : Gives(h, c, n) => Gives(h, d, n)
        /\ \A m : RunsModule(m, c, n) => RunsModule(m, d, n)
        /\ Live(d, n) = Live(c, n)
    BY SeenRuns
  <1>2. /\ \A m : ModuleOK(m, c, n) => ModuleOK(m, d, n)
        /\ Stacks(s, d, n)
    BY <1>1, ValueLives
  <1>3. d[n].kind = c[n].kind
    BY DEF Seen
  <1>4. VmReg(w, d)
    BY <1>1, <1>2, <1>3 DEF VmReg
  <1> QED
    BY <1>2, <1>4 DEF RegOK

(* A frame is pushed that is not a program or an execution.                *)
LEMMA RegGrows ==
    ASSUME NEW c, NEW v, NEW s, RegOK(c, v, s), IsSeq(c), Len(c) > 0,
           c[1].kind = "exec", c[Len(c)].kind # "exec",
           NEW f, f.kind \in {"op", "block", "tmpl"}, FrameReg(Append(c, f), Len(c) + 1)
    PROVE  RegOK(Append(c, f), v, s)
  <1> DEFINE d == Append(c, f)
             n == Len(c)
  <1>1. n \in Nat /\ n # 0 /\ n + 1 # 0
    BY DEF IsSeq
  <1>2. /\ IsSeq(d) /\ Len(d) = n + 1 /\ d[n + 1] = f
        /\ \A i \in 1 .. n : d[i] = c[i]
    BY AppendSeq
  <1> HIDE DEF d
  <1>3. \A i \in 1 .. n + 1 : FrameReg(d, i)
    <2>1. FrameReg(d, n + 1)
      BY DEF d
    <2>2. \A i \in 1 .. n : FrameReg(c, i)
      BY DEF RegOK
    <2> HIDE DEF n
    <2> QED
      BY <1>1, <1>2, <2>1, <2>2, PushSaved DEF n
  <1>4. Seen(c, d, n)
    BY <1>2 DEF Seen
  <1>5. d[n + 1].kind # "prog" /\ ~Given(d[n + 1]) /\ d[n + 1].kind # "exec"
    BY <1>2 DEF Given
  <1>6. Runs(v.buffer, d, n + 1) /\ Gives(v.data, d, n + 1) /\ RunsModule(v.module, d, n + 1)
        /\ v.owner = 1
    <2>1. Runs(v.buffer, c, n) /\ Gives(v.data, c, n) /\ RunsModule(v.module, c, n) /\ v.owner = 1
      BY <1>1 DEF RegOK, VmReg
    <2>2. Runs(v.buffer, d, n) /\ Gives(v.data, d, n) /\ RunsModule(v.module, d, n)
      BY <1>1, <1>4, <2>1, SeenRuns
    <2> QED
      BY <1>1, <1>5, <2>1, <2>2, OneMore
  <1>7. Stacks(s, d, n + 1)
    <2>1. Live(c, n) \subseteq Live(d, n + 1)
      <3>1. Live(d, n) = Live(c, n) /\ Live(d, n) \subseteq Live(d, n + 1)
        BY <1>1, <1>4, SeenRuns, OneMore
      <3> QED
        BY <3>1
    <2> QED
      BY <2>1, ValueLives DEF RegOK
  <1>8. VmReg(v, d)
    BY <1>1, <1>2, <1>5, <1>6 DEF VmReg
  <1>9. RegOK(d, v, s)
    BY <1>2, <1>3, <1>7, <1>8 DEF RegOK
  <1> QED
    BY <1>9 DEF d

(* handlebars_vm_execute_program_ex from a call stack and stacks that are  *)
(* in order: a fault, a throw, or the registers of the program.            *)
LEMMA RunProgramReg ==
    ASSUME NEW c, NEW s, RegOK(c, vm, s), IsSeq(c), Len(c) > 0, c[1].kind = "exec",
           c[Len(c)].kind \in {"exec", "op", "block"}, DOMAIN vm = VmFields,
           NEW g \in Nat, NEW ctx, NEW newData \in BOOLEAN, NEW blockParams,
           RunProgram(c, s, g, ctx, newData, blockParams)
    PROVE  error' \/ UNCHANGED <<call, vm, stk>> \/ RegOK(call', vm', stk')
  <1> DEFINE n == Len(c)
             f == [kind |-> "prog", module |-> vm.module,
                   pc |-> ModuleOf(vm.module).programs[g + 1].offset + 1,
                   prevBuffer |-> vm.buffer, hasData |-> newData, prevData |-> vm.data,
                   count |-> Len5(s), protect |-> [m \in StackNames |-> s[m].protect],
                   at |-> [m \in StackNames |-> s[m].v]]
             same == s["context"].v # <<>> /\ Last(s["context"].v) = ctx
             saved == Save(s)
             inContext == IF same THEN saved ELSE Push(saved, "context", ctx)
             inParams == IF blockParams THEN Push(inContext, "blockParam", Plain) ELSE inContext
             buffered == [vm EXCEPT !.buffer = Len(c) + 1]
             withData == [buffered EXCEPT !.data = IF newData THEN Len(c) + 1 ELSE @]
  <1>1. \/ UNCHANGED <<call, vm, stk>>
        \/ error'
        \/ /\ g < Len(ModuleOf(vm.module).programs)
           /\ call' = Append(c, f) /\ stk' = inParams /\ vm' = withData
    <2>1. ASSUME NEW what, Fault(what) PROVE UNCHANGED <<call, vm, stk>>
      BY <2>1 DEF Fault
    <2>2. ASSUME NEW t, NEW v, Throw(t, v) PROVE error'
      BY <2>2 DEF Throw
    <2>3. Len(ModuleOf(vm.module).programs) \in Nat => 
            (~(g >= Len(ModuleOf(vm.module).programs)) => g < Len(ModuleOf(vm.module).programs))
      OBVIOUS
    <2>4. ModuleOK(vm.module, c, n)
      <3>1. n \in Nat
        BY DEF IsSeq
      <3>2. \A i \in 1 .. n : FrameReg(c, i)
        BY DEF RegOK
      <3>3. ModuleOK(vm.module, c, n) \/ RunsModule(vm.module, c, n)
        BY DEF RegOK, VmReg
      <3> QED
        BY <3>1, <3>2, <3>3, RunningOK
    <2>5. Len(ModuleOf(vm.module).programs) \in Nat
      BY <2>4, ModulesAssumption DEF ModuleOK, ModuleOf
    <2> HIDE DEF f, saved, inContext, buffered, inParams, withData
    <2> QED
      BY <2>1, <2>2, <2>3, <2>5, Zenon
         DEF RunProgram, f, same, saved, inContext, buffered, inParams, withData
  <1>2. SUFFICES ASSUME g < Len(ModuleOf(vm.module).programs),
                        call' = Append(c, f), stk' = inParams, vm' = withData
                 PROVE  RegOK(call', vm', stk')
    BY <1>1
  <1> DEFINE d == call'
  <1>3. n \in Nat \ {0}
    BY DEF IsSeq
  <1>4. /\ IsSeq(d) /\ Len(d) = n + 1 /\ d[n + 1] = f
        /\ \A i \in 1 .. n : d[i] = c[i]
    BY <1>2, AppendSeq
  <1>5. /\ f.kind = "prog" /\ f.module = vm.module
        /\ f.pc = ModuleOf(vm.module).programs[g + 1].offset + 1
        /\ f.prevBuffer = vm.buffer /\ f.hasData = newData /\ f.prevData = vm.data
        /\ f.count = Len5(s) /\ f.protect = [m \in StackNames |-> s[m].protect]
    OBVIOUS
  <1>6. DOMAIN withData = VmFields /\ withData.buffer = n + 1
        /\ withData.data = (IF newData THEN n + 1 ELSE vm.data)
        /\ withData.module = vm.module /\ withData.owner = vm.owner
    <2>1. DOMAIN buffered = VmFields /\ buffered.buffer = n + 1 /\ buffered.data = vm.data
          /\ buffered.module = vm.module /\ buffered.owner = vm.owner
      BY DEF VmFields
    <2> HIDE DEF buffered
    <2> QED
      BY <2>1 DEF VmFields
  <1> HIDE DEF f, withData, d
  <1>7. Seen(c, d, n)
    BY <1>4 DEF Seen
  <1>8. \A i \in 1 .. n : FrameReg(c, i)
    BY DEF RegOK
  <1>9. /\ Runs(vm.buffer, d, n) /\ Gives(vm.data, d, n) /\ vm.owner = 1
        /\ c[n].kind = "exec" \/ RunsModule(vm.module, d, n)
        /\ ModuleOK(vm.module, d, n) /\ ModuleOK(vm.module, c, n)
        /\ Live(d, n) = Live(c, n)
    <2>1. /\ Runs(vm.buffer, c, n) /\ Gives(vm.data, c, n) /\ vm.owner = 1
          /\ ModuleOK(vm.module, c, n) \/ RunsModule(vm.module, c, n)
          /\ c[n].kind = "exec" \/ RunsModule(vm.module, c, n)
      BY <1>3 DEF RegOK, VmReg
    <2>2. ModuleOK(vm.module, c, n)
      BY <1>3, <1>8, <2>1, RunningOK
    <2>3. /\ \A h : Runs(h, c, n) => Runs(h, d, n)
          /\ \A h : Gives(h, c, n) => Gives(h, d, n)
          /\ \A m : RunsModule(m, c, n) => RunsModule(m, d, n)
          /\ Live(d, n) = Live(c, n)
      BY <1>3, <1>7, SeenRuns
    <2>4. ModuleOK(vm.module, d, n)
      BY <2>2, <2>3 DEF ModuleOK
    <2> QED
      BY <2>1, <2>2, <2>3, <2>4
  <1>10. f.pc \in 1 .. Len(Code(f))
    <2> DEFINE t == vm.module.tmpl
               l == Len(Modules[t].opcodes)
               p == Len(Modules[t].programs)
               o == Modules[t].programs[g + 1].offset
    <2>1. t \in Templates
      BY <1>9 DEF ModuleOK
    <2>2. l \in Nat /\ p \in Nat /\ DOMAIN Modules[t].programs = 1 .. p
      BY <2>1, ModulesAssumption
    <2>3. g + 1 \in DOMAIN Modules[t].programs
      <3>1. g < p
        BY <1>2 DEF ModuleOf
      <3> HIDE DEF p
      <3> QED
        BY <2>2, <3>1
    <2>4. o \in 0 .. l - 1
      BY <2>1, <2>3, ModulesAssumption
    <2>5. Len(Code(f)) = l /\ f.pc = o + 1
      BY <1>5 DEF Code, ModuleOf
    <2> HIDE DEF l, o
    <2>6. o + 1 \in 1 .. l
      BY <2>2, <2>4
    <2> QED
      BY <2>5, <2>6
  <1>11. /\ Stacks(saved, c, n)
         /\ \A m \in StackNames : f.count[m] \in Nat /\ f.protect[m] \in Nat
    <2>1. Stacks(s, c, n)
      BY DEF RegOK
    <2>2. Stacks(saved, c, n) /\ \A m \in StackNames : Len5(s)[m] \in Nat
      BY <2>1, StackSave
    <2>3. \A m \in StackNames : s[m].protect \in Nat
      BY <2>1 DEF Stacks
    <2> QED
      BY <1>5, <2>2, <2>3
  <1> HIDE DEF saved
  <1>12. Stacks(inContext, c, n)
    BY <1>11, StackPush DEF StackNames
  <1> HIDE DEF inContext
  <1>13. Stacks(inParams, c, n)
    BY <1>12, StackPush DEF StackNames
  <1> HIDE DEF inParams
  <1>14. FrameReg(d, n + 1)
    <2>1. n + 1 - 1 = n
      BY <1>3
    <2>2. d[n].kind # "exec" => RunsModule(vm.module, d, n)
      BY <1>3, <1>4, <1>9
    <2> QED
      BY <1>4, <1>5, <1>9, <1>10, <1>11, <2>1, <2>2 DEF FrameReg
  <1>15. \A i \in 1 .. n + 1 : FrameReg(d, i)
    <2>1. n \in Nat /\ n > 0
      BY <1>3
    <2> HIDE DEF n
    <2> QED
      BY <1>4, <1>8, <1>14, <2>1, PushSaved
  <1>16. VmReg(withData, d)
    <2>1. d[n + 1].kind = "prog" /\ d[n + 1].module = vm.module /\ d[n + 1].hasData = newData
      BY <1>4, <1>5
    <2>2. n \in Nat
      BY <1>3
    <2>3. Runs(n + 1, d, n + 1) /\ RunsModule(vm.module, d, n + 1)
      BY <2>1, <2>2, OneMore
    <2>4. Gives(withData.data, d, n + 1)
      <3>1. Given(d[n + 1]) <=> newData
        BY <2>1 DEF Given
      <3>2. /\ Given(d[n + 1]) => Gives(n + 1, d, n + 1)
            /\ ~Given(d[n + 1]) => (Gives(vm.data, d, n + 1) <=> Gives(vm.data, d, n))
        BY <2>2, OneMore
      <3> HIDE DEF n
      <3> QED
        BY <1>6, <1>9, <3>1, <3>2
    <2>5. n + 1 # 0
      BY <1>3
    <2> QED
      BY <1>4, <1>6, <1>9, <2>1, <2>3, <2>4, <2>5 DEF VmReg
  <1>17. Stacks(inParams, d, n + 1)
    <2>1. Live(c, n) \subseteq Live(d, n + 1)
      BY <1>3, <1>9, OneMore
    <2> QED
      BY <1>13, <2>1, ValueLives
  <1> QED
    BY <1>2, <1>4, <1>15, <1>16, <1>17 DEF RegOK, d

(* handlebars_vm_execute_ex: the registers are saved, and the module is    *)
(* the one that is called.                                                 *)
LEMMA EnterReg ==
    ASSUME NEW c, NEW v, NEW s, RegOK(c, v, s), IsSeq(c),
           Len(c) > 0 => c[1].kind = "exec" /\ c[Len(c)].kind # "exec",
           DOMAIN v = VmFields, NEW j, NEW module, ModuleOK(module, c, Len(c)),
           NEW g \in Nat, NEW ctx, NEW blockParams,
           EnterExecute(c, s, v, j, module, g, ctx, blockParams)
    PROVE  RegOK(call', vm', stk')
  <1> DEFINE n == Len(c)
             d == call'
             f == [kind |-> "exec", done |-> FALSE, ret |-> FALSE, prevJmp |-> j,
                   prevModule |-> v.module, setup |-> v.owner = 0,
                   g |-> g, ctx |-> ctx, blockParams |-> blockParams]
             w == [v EXCEPT !.module = module]
  <1>1. /\ d = Append(c, f)
        /\ stk' = IF v.owner = 0 THEN EmptyStacks ELSE s
        /\ vm' = [w EXCEPT !.owner = IF @ = 0 THEN n + 1 ELSE @]
    BY DEF EnterExecute
  <1>2. /\ f.kind = "exec" /\ f.prevModule = v.module /\ f.setup = (v.owner = 0) /\ f.g = g
    OBVIOUS
  <1>3. n \in Nat
    BY DEF IsSeq
  <1>4. /\ IsSeq(d) /\ Len(d) = n + 1 /\ d[n + 1] = f
        /\ \A i \in 1 .. n : d[i] = c[i]
    BY <1>1, AppendSeq
  <1>5. /\ DOMAIN w = VmFields /\ w.buffer = v.buffer /\ w.data = v.data /\ w.module = module
        /\ w.owner = v.owner
    BY DEF VmFields
  <1> HIDE DEF w, f, d
  <1>6. /\ vm'.buffer = v.buffer /\ vm'.data = v.data /\ vm'.module = module
        /\ vm'.owner = IF v.owner = 0 THEN n + 1 ELSE v.owner
    BY <1>1, <1>5 DEF VmFields
  <1>7. Seen(c, d, n)
    BY <1>4 DEF Seen
  <1>8. /\ Runs(v.buffer, d, n) /\ Gives(v.data, d, n)
        /\ v.owner = (IF n = 0 THEN 0 ELSE 1)
        /\ n = 0 => v.module = NoModule
        /\ n # 0 => RunsModule(v.module, d, n)
        /\ Live(d, n) = Live(c, n)
        /\ \A i \in 1 .. n : FrameReg(c, i)
    <2>1. /\ Runs(v.buffer, c, n) /\ Gives(v.data, c, n)
          /\ v.owner = (IF n = 0 THEN 0 ELSE 1)
          /\ n = 0 => v.module = NoModule
          /\ n # 0 => RunsModule(v.module, c, n)
          /\ \A i \in 1 .. n : FrameReg(c, i)
      BY <1>3 DEF RegOK, VmReg
    <2> QED
      BY <1>3, <1>7, <2>1, SeenRuns
  <1>9. FrameReg(d, n + 1)
    <2>1. n + 1 - 1 = n /\ (n + 1 = 1 <=> n = 0)
      BY <1>3
    <2>2. d[n + 1].kind = "exec" /\ d[n + 1].prevModule = v.module
          /\ d[n + 1].setup = (v.owner = 0) /\ d[n + 1].g \in Nat
      BY <1>2, <1>4
    <2>3. v.owner = 0 <=> n = 0
      BY <1>8
    <2>4. d[n + 1].setup <=> n + 1 = 1
      BY <2>1, <2>2, <2>3
    <2>5. IF n + 1 = 1 THEN d[n + 1].prevModule = NoModule
          ELSE RunsModule(d[n + 1].prevModule, d, n + 1 - 1)
      BY <1>8, <2>1, <2>2
    <2> QED
      BY <2>2, <2>4, <2>5 DEF FrameReg
  <1>10. \A i \in 1 .. n + 1 : FrameReg(d, i)
    <2>1. n > 0 => c[1].kind = "exec"
      OBVIOUS
    <2> HIDE DEF n
    <2> QED
      BY <1>3, <1>4, <1>8, <1>9, <2>1, PushSaved
  <1>11. Live(c, n) \subseteq Live(d, n + 1)
    BY <1>3, <1>8, OneMore
  <1>12. VmReg(vm', d)
    <2>1. d[n + 1].kind = "exec" /\ ~Given(d[n + 1])
      BY <1>2, <1>4 DEF Given
    <2>2. Runs(v.buffer, d, n + 1) /\ Gives(v.data, d, n + 1)
      BY <1>3, <1>8, <2>1, OneMore
    <2>3. ModuleOK(module, d, n + 1)
      BY <1>11, ValueLives
    <2>4. vm'.owner = 1
      BY <1>3, <1>6, <1>8
    <2>5. n + 1 # 0
      BY <1>3
    <2> QED
      BY <1>4, <1>6, <2>1, <2>2, <2>3, <2>4, <2>5 DEF VmReg
  <1>13. Stacks(stk', d, n + 1)
    <2>1. Stacks(s, d, n + 1)
      BY <1>11, ValueLives DEF RegOK
    <2> QED
      BY <1>1, <2>1, StackEmpty
  <1> QED
    BY <1>4, <1>10, <1>12, <1>13 DEF RegOK, d

-----------------------------------------------------------------------------
(* The steps of an opcode's handler *)

(* An error, or a fault, which changes nothing the registers speak of.     *)
LEMMA RegStops ==
    ASSUME RegInv,
           \/ \E s, v : Throw(s, v)
           \/ \E what : Fault(what)
    PROVE  RegInv'
  <1>1. ASSUME NEW s, NEW v, Throw(s, v) PROVE RegInv'
    BY <1>1 DEF Throw, RegInv
  <1>2. ASSUME NEW what, Fault(what) PROVE RegInv'
    BY <1>2 DEF Fault, RegInv
  <1> QED
    BY <1>1, <1>2

(* The top frame goes on, and the registers are what they were.            *)
LEMMA RegTop ==
    ASSUME CallInv, RegOK(call, vm, stk), call # <<>>,
           NEW g, Saved(call[Len(call)], g, call, Len(call)),
           NEW s, Stacks(s, call, Len(call))
    PROVE  LET d == [call EXCEPT ![Len(call)] = g]
           IN /\ RegOK(d, vm, s)
              /\ IsSeq(d) /\ Len(d) = Len(call) /\ d[Len(call)] = g /\ d[1].kind = "exec"
              /\ Live(d, Len(call)) = Live(call, Len(call))
  <1> DEFINE n == Len(call)
             d == [call EXCEPT ![n] = g]
  <1>1. /\ n \in Nat \ {0} /\ IsSeq(call) /\ call[1].kind = "exec"
        /\ \A i \in 1 .. n : FrameReg(call, i)
    BY RegFacts
  <1>2. IsSeq(d) /\ Len(d) = n /\ d[n] = g /\ \A y \in 1 .. n : y < n => d[y] = call[y]
    <2>1. n \in 1 .. n
      BY <1>1
    <2> QED
      BY <1>1, <2>1, ReplaceSeq
  <1> HIDE DEF d
  <1>3. (\A i \in 1 .. n : FrameReg(d, i)) /\ Seen(call, d, n)
    <2>1. Saved(call[n], d[n], call, n)
      BY <1>2
    <2> HIDE DEF n
    <2> QED
      BY <1>1, <1>2, <2>1, TopSaved DEF n
  <1>4. RegOK(d, vm, s)
    <2>1. VmReg(vm, call)
      BY DEF RegOK
    <2> QED
      BY <1>1, <1>2, <1>3, <2>1, RegSeen
  <1>5. Live(d, n) = Live(call, n)
    <2>1. n \in Nat
      BY <1>1
    <2> HIDE DEF n
    <2> QED
      BY <1>3, <2>1, SeenRuns
  <1>6. d[1].kind = "exec"
    BY <1>1, <1>3 DEF Seen
  <1> QED
    BY <1>2, <1>4, <1>5, <1>6 DEF d

(* A handler that calls nothing.                                           *)
LEMMA StackedReg ==
    ASSUME CallInv, RegOK(call, vm, stk), TopIs("prog"), Opcode.op # "return",
           NEW s, Stacks(s, call, Len(call)), Moves(s)
    PROVE  RegInv'
  <1> DEFINE n == Len(call)
             g == [call[n] EXCEPT !.pc = @ + 1]
  <1>1. call # <<>> /\ call[n].kind = "prog" /\ FrameOK(call[n]) /\ FrameReg(call, n)
    BY OpcodeFacts, RegFacts
  <1>2. call[n].pc + 1 \in 1 .. Len(Code(call[n]))
    BY <1>1, OpcodeFacts, NextOpcode
  <1>3. Saved(call[n], g, call, n)
    BY <1>1, <1>2 DEF Saved, FrameOK, Fields
  <1>4. call' = [call EXCEPT ![n] = g] /\ vm' = vm /\ stk' = s
    BY DEF Moves, Advance
  <1> HIDE DEF g
  <1>5. RegOK(call', vm', stk')
    BY <1>1, <1>3, <1>4, RegTop
  <1> QED
    BY <1>5 DEF RegInv

(* A handler that pushes, or throws.                                       *)
LEMMA PushReg ==
    ASSUME CallInv, RegOK(call, vm, stk), TopIs("prog"), Opcode.op # "return",
           NEW s, Stacks(s, call, Len(call)), NEW k \in StackNames, NEW x,
           k \in {"stack", "partialBlock"} => ValueOK(x, call, Len(call)),
           PushOrThrow(s, k, x)
    PROVE  RegInv'
  <1>1. CASE Throw(s, vm)
    BY <1>1, RegStops DEF RegInv
  <1>2. CASE Stacked(Push(s, k, x))
    <2>1. Stacks(Push(s, k, x), call, Len(call))
      BY StackPush
    <2> QED
      BY <1>2, <2>1, StackedMoves, StackedReg
  <1> QED
    BY <1>1, <1>2 DEF PushOrThrow

(* Values without a module.                                                *)
LEMMA PlainOK ==
    ASSUME NEW c, NEW n
    PROVE  /\ ValueOK(Null, c, n) /\ ValueOK(Plain, c, n) /\ ValueOK(Fn, c, n)
           /\ ValueOK(Hash, c, n) /\ \A i \in Int : ValueOK(ProgramNum(i), c, n)
           /\ \A x \in Found : ValueOK(x, c, n)
  BY DEF ValueOK, Null, Plain, Fn, Hash, ProgramNum, Found

(* Who may be called.                                                      *)
CalleeOK(callee, c, n) ==
    \/ callee.t = "fn"
    \/ callee.t = "block" /\ BlockOK(callee, c, n)
    \/ callee.t = "tmpl" /\ callee.tmpl \in Templates

(* A handler's frame, in which the values are the VM's.                    *)
HandlerReg(f, c, n) ==
    /\ f.kind = "op" /\ FrameOK(f)
    /\ f.program \in Int /\ f.inverse \in Int
    /\ ValueOK(f.value, c, n) /\ ValueOK(f.result, c, n)

(* handlebars_value_call changes no register but last_helper.              *)
LEMMA InvokeReg ==
    ASSUME CallInv, RegOK(call, vm, stk), TopIs("prog"), Opcode.op # "return",
           NEW f, HandlerReg(f, call, Len(call)),
           NEW s, Stacks(s, call, Len(call)), NEW callee, CalleeOK(callee, call, Len(call)),
           NEW ctx, Invoke(f, s, callee, ctx)
    PROVE  RegInv'
  <1> DEFINE n == Len(call)
             f1 == [f EXCEPT !.helper = FALSE]
             b == [kind |-> "block", done |-> FALSE, closure |-> callee,
                   ctx |-> ctx, pushed |-> FALSE]
             found == callee.t = "tmpl" /\ Key(callee.tmpl) \in cached
             t == [kind |-> "tmpl", done |-> FALSE, tmpl |-> callee.tmpl, ctx |-> ctx,
                   fromCache |-> found, prevJmp |-> jmp, prevDepth |-> vm.depth]
  <1>1. /\ call[n].kind = "prog" /\ n \in Nat \ {0} /\ IsSeq(call) /\ call[1].kind = "exec"
        /\ Code(call[n])[call[n].pc].op # "return"
        /\ DOMAIN vm = VmFields
    BY OpcodeFacts, RegFacts
  <1>2. /\ call' = IF callee.t = "fn" THEN call \o <<f>>
                   ELSE IF callee.t = "block" THEN call \o <<f1, b>> ELSE call \o <<f1, t>>
        /\ stk' = s
        /\ vm' = IF f.op = "invoke_ambiguous" THEN [vm EXCEPT !.lastHelper = "none"] ELSE vm
    BY DEF Invoke
  <1>3. /\ vm'.buffer = vm.buffer /\ vm'.data = vm.data /\ vm'.owner = vm.owner
        /\ vm'.module = vm.module
    BY <1>1, <1>2 DEF VmFields
  <1>4. ASSUME NEW h, HandlerReg(h, call, n)
        PROVE  /\ RegOK(Append(call, h), vm, s)
               /\ IsSeq(Append(call, h)) /\ Len(Append(call, h)) = n + 1
               /\ Append(call, h)[1].kind = "exec" /\ Append(call, h)[n + 1].kind = "op"
               /\ Live(Append(call, h), n + 1) = Live(call, n)
    <2> DEFINE d == Append(call, h)
    <2>1. /\ IsSeq(d) /\ Len(d) = n + 1 /\ d[n + 1] = h
          /\ \A i \in 1 .. n : d[i] = call[i]
      BY <1>1, AppendSeq
    <2> HIDE DEF d
    <2>2. Seen(call, d, n)
      BY <2>1 DEF Seen
    <2>3. h.kind = "op" /\ d[n] = call[n] /\ d[1] = call[1]
      BY <1>1, <1>4, <2>1 DEF HandlerReg
    <2>4. Live(d, n) = Live(call, n) /\ Live(d, n + 1) = Live(d, n)
      BY <1>1, <2>1, <2>2, <2>3, SeenRuns, OneMore
    <2>5. FrameReg(d, n + 1)
      <3>1. n + 1 - 1 = n
        BY <1>1
      <3>2. ValueOK(h.value, d, n) /\ ValueOK(h.result, d, n)
        BY <1>4, <2>4, ValueLives DEF HandlerReg
      <3>3. h.program \in Int /\ h.inverse \in Int
        BY <1>4 DEF HandlerReg
      <3>4. Code(d[n])[d[n].pc].op # "return"
        BY <1>1, <2>3
      <3> QED
        BY <2>1, <2>3, <3>1, <3>2, <3>3, <3>4 DEF FrameReg
    <2>6. RegOK(call, vm, s)
      BY DEF RegOK
    <2>7. RegOK(d, vm, s)
      <3>1. n > 0 /\ call[n].kind # "exec" /\ h.kind \in {"op", "block", "tmpl"}
        BY <1>1, <2>3
      <3>2. FrameReg(Append(call, h), n + 1)
        BY <2>5 DEF d
      <3> QED
        BY <1>1, <2>6, <3>1, <3>2, RegGrows DEF d
    <2> QED
      BY <1>1, <2>1, <2>3, <2>4, <2>7 DEF d
  <1>5. ASSUME NEW c, RegOK(c, vm, s), IsSeq(c), Len(c) = n + 1, c[1].kind = "exec",
               c[n + 1].kind = "op", Live(c, n + 1) = Live(call, n),
               NEW x, (x = b /\ callee.t = "block") \/ (x = t /\ callee.t = "tmpl")
        PROVE  RegOK(Append(c, x), vm, s)
    <2> DEFINE d == Append(c, x)
    <2>1. /\ Len(d) = n + 2 /\ d[n + 2] = x
          /\ \A i \in 1 .. n + 1 : d[i] = c[i]
      <3>1. n + 1 + 1 = n + 2
        BY <1>1
      <3> QED
        BY <1>5, <3>1, AppendSeq
    <2> HIDE DEF d
    <2>2. n + 2 - 1 = n + 1 /\ n + 1 \in Nat /\ n + 1 > 0 /\ n + 2 = n + 1 + 1
      BY <1>1
    <2>3. Seen(c, d, n + 1)
      BY <2>1 DEF Seen
    <2>4. Live(d, n + 1) = Live(call, n)
      BY <1>5, <2>2, <2>3, SeenRuns
    <2>5. FrameReg(d, n + 2)
      <3>1. CASE x = b /\ callee.t = "block"
        <4>1. BlockOK(callee, d, n + 1)
          BY <2>4, <3>1, ValueLives DEF CalleeOK
        <4>2. d[n + 2].kind = "block" /\ d[n + 2].closure = callee
          BY <2>1, <3>1
        <4> QED
          BY <2>2, <4>1, <4>2 DEF FrameReg
      <3>2. CASE x = t /\ callee.t = "tmpl"
        <4>1. d[n + 2].kind = "tmpl" /\ d[n + 2].tmpl \in Templates
          BY <2>1, <3>2 DEF CalleeOK
        <4> QED
          BY <4>1 DEF FrameReg
      <3> QED
        BY <1>5, <3>1, <3>2
    <2>6. x.kind \in {"op", "block", "tmpl"}
      BY <1>5
    <2>7. FrameReg(Append(c, x), Len(c) + 1) /\ Len(c) > 0 /\ c[Len(c)].kind # "exec"
      BY <1>5, <2>2, <2>5 DEF d
    <2> QED
      BY <1>5, <2>6, <2>7, RegGrows
  <1>6. HandlerReg(f1, call, n)
    BY DEF HandlerReg, FrameOK, Fields, Kinds
  <1> HIDE DEF f1, b, t
  <1>7. RegOK(call', vm, s)
    <2>1. CASE callee.t = "fn"
      <3>1. call' = Append(call, f)
        BY <1>1, <1>2, <2>1, AppendOne
      <3> QED
        BY <1>4, <3>1
    <2> DEFINE c1 == Append(call, f1)
    <2>2. /\ RegOK(c1, vm, s) /\ IsSeq(c1) /\ Len(c1) = n + 1
          /\ c1[1].kind = "exec" /\ c1[n + 1].kind = "op" /\ Live(c1, n + 1) = Live(call, n)
      BY <1>4, <1>6
    <2>3. CASE callee.t = "block"
      <3>1. call' = Append(c1, b)
        BY <1>1, <1>2, <2>3, AppendTwo
      <3> HIDE DEF c1
      <3>2. RegOK(Append(c1, b), vm, s)
        BY <1>5, <2>2, <2>3
      <3> QED
        BY <3>1, <3>2
    <2>4. CASE callee.t = "tmpl"
      <3>1. call' = Append(c1, t)
        BY <1>1, <1>2, <2>4, AppendTwo
      <3> HIDE DEF c1
      <3>2. RegOK(Append(c1, t), vm, s)
        BY <1>5, <2>2, <2>4
      <3> QED
        BY <3>1, <3>2
    <2> QED
      BY <2>1, <2>3, <2>4 DEF CalleeOK
  <1>8. RegOK(call', vm', stk')
    BY <1>2, <1>3, <1>7 DEF RegOK, VmReg
  <1> QED
    BY <1>8 DEF RegInv

(* The programs of a helper's options are numbers.                         *)
LEMMA OptionsReg ==
    ASSUME CallInv, RegOK(call, vm, stk), call # <<>>, NEW k \in {0, 1}
    PROVE  /\ OptProgram(k) \in Int /\ OptInverse(k) \in Int
           /\ HandlerReg(Handler(OptProgram(k), OptInverse(k)), call, Len(call))
  <1>1. ASSUME NEW j \in Nat \ {0}
        PROVE  OptProgramAt(j) \in Int
    <2>1. ValueOK(Popped(stk, "stack", j), call, Len(call))
      BY RegFacts, StackTop
    <2>2. IntVal(Popped(stk, "stack", j)) \in Int
      BY <2>1 DEF IntVal, ValueOK
    <2> QED
      BY <2>2 DEF OptProgramAt
  <1>2. OptProgram(k) \in Int /\ OptInverse(k) \in Int
    <2>1. k + 2 \in Nat \ {0} /\ k + 3 \in Nat \ {0}
      OBVIOUS
    <2> QED
      BY <1>1, <2>1 DEF OptProgram, OptInverse
  <1>3. ASSUME NEW a \in Int, NEW b \in Int
        PROVE  HandlerReg(Handler(a, b), call, Len(call))
    <2>1. FrameOK(Handler(a, b)) /\ Handler(a, b).kind = "op"
      BY HandlerOK
    <2>2. /\ Handler(a, b).program = a /\ Handler(a, b).inverse = b
          /\ Handler(a, b).value = Null /\ Handler(a, b).result = Null
      BY DEF Handler
    <2> QED
      BY <2>1, <2>2, PlainOK DEF HandlerReg
  <1> QED
    BY <1>2, <1>3

(* A handler's frame whose value is one of the VM's.                       *)
LEMMA FieldReg ==
    ASSUME NEW f, NEW c, NEW n, HandlerReg(f, c, n), NEW x
    PROVE  /\ ValueOK(x, c, n) => HandlerReg([f EXCEPT !.value = x], c, n)
           /\ HandlerReg([f EXCEPT !.lastHelper = x], c, n)
           /\ HandlerReg([f EXCEPT !.pushed = x], c, n)
  BY DEF HandlerReg, FrameOK, Fields, Kinds

(* What is called for a value.                                             *)
LEMMA CalleeReg ==
    ASSUME NEW c, NEW n, NEW x, ValueOK(x, c, n)
    PROVE  /\ CalleeOK(CalleeOf(x), c, n) /\ CalleeOK(Fn, c, n)
           /\ IsCallable(x) => CalleeOK(x, c, n)
  <1>1. CalleeOK(Fn, c, n)
    BY DEF CalleeOK, Fn
  <1>2. IsCallable(x) => CalleeOK(x, c, n)
    BY DEF CalleeOK, IsCallable, ValueOK
  <1> QED
    BY <1>1, <1>2 DEF CalleeOf

(* The opcodes that call nothing.                                          *)
LEMMA SimpleReg ==
    ASSUME CallInv, RegOK(call, vm, stk),
           \/ GetContext \/ AppendContent \/ AppendValue \/ PushValue \/ PushProgram
           \/ EmptyHash \/ PushHash \/ AssignToHash \/ PopHash
           \/ LookupOnContext \/ LookupBlockParam \/ LookupData \/ Unhandled
    PROVE  RegInv'
  <1> DEFINE n == Len(call)
  <1>1. TopIs("prog")
    BY DEF GetContext, AppendContent, AppendValue, PushValue, PushProgram, EmptyHash,
           PushHash, AssignToHash, PopHash, LookupOnContext, LookupBlockParam, LookupData,
           Unhandled, At
  <1>2. RegInv /\ Stacks(stk, call, n)
    BY DEF RegInv, RegOK
  <1>3. ASSUME NEW s, NEW v, Throw(s, v) PROVE RegInv'
    BY <1>2, <1>3, RegStops
  <1>4. ASSUME NEW what, Fault(what) PROVE RegInv'
    BY <1>2, <1>4, RegStops
  <1>5. ASSUME Opcode.op # "return", NEW s, Stacks(s, call, n), Moves(s) PROVE RegInv'
    BY <1>1, <1>5, StackedReg
  <1>6. ASSUME Opcode.op # "return", NEW s, Stacks(s, call, n), NEW x, ValueOK(x, call, n),
               PushOrThrow(s, "stack", x) \/ PushOrThrow(s, "hash", x)
        PROVE  RegInv'
    <2>1. {"stack", "hash"} \subseteq StackNames
      BY DEF StackNames
    <2> QED
      BY <1>1, <1>6, <2>1, PushReg
  <1>7. /\ ValueOK(Null, call, n) /\ ValueOK(Plain, call, n) /\ ValueOK(Hash, call, n)
        /\ \A x \in Found : ValueOK(x, call, n) /\ \A i \in Int : ValueOK(ProgramNum(i), call, n)
    BY PlainOK
  <1>8. ASSUME NEW k \in {"stack", "hash"}
        PROVE  /\ Stacks(Pop(stk, k, 1), call, n)
               /\ \A i \in StackNames : i # k => Pop(stk, k, 1)[i] = stk[i]
    <2>1. k \in StackNames
      BY DEF StackNames
    <2>2. 1 \in Nat
      OBVIOUS
    <2> HIDE DEF n
    <2> QED
      BY <1>2, <2>1, <2>2, StackPop
  <1> HIDE DEF n
  <1>9. CASE GetContext \/ AppendContent
    BY <1>2, <1>5, <1>9, StackedMoves DEF GetContext, AppendContent, At
  <1>10. CASE AppendValue
    BY <1>3, <1>5, <1>8, <1>10, StackedMoves DEF AppendValue, At
  <1>11. CASE PushValue
    BY <1>2, <1>6, <1>7, <1>11 DEF PushValue, At
  <1>12. CASE PushProgram
    <2>1. Opcode.n \in Int /\ Opcode.op # "return"
      BY <1>1, <1>12, OpcodeFacts DEF PushProgram, At
    <2>2. ValueOK(ProgramNum(Opcode.n), call, n)
      BY <2>1 DEF ValueOK, ProgramNum
    <2>3. PushOrThrow(stk, "stack", ProgramNum(Opcode.n))
      BY <1>12 DEF PushProgram
    <2> QED
      BY <1>2, <1>6, <2>1, <2>2, <2>3
  <1>13. CASE EmptyHash \/ PushHash
    BY <1>2, <1>6, <1>7, <1>13 DEF EmptyHash, PushHash, At
  <1>14. CASE AssignToHash
    <2> DEFINE s1 == Pop(stk, "hash", 1)
               s2 == Pop(s1, "stack", 1)
    <2>1. CASE \E s : Throw(s, vm)
      BY <1>3, <2>1
    <2>2. CASE /\ ~PopThrows(stk, "hash", 1) /\ ~PopThrows(stk, "stack", 1)
               /\ Stacked(Push(s2, "hash", Hash))
      <3>1. Stacks(s1, call, n) /\ s1["stack"] = stk["stack"]
        BY <1>8, <2>2 DEF StackNames
      <3> HIDE DEF s1
      <3>2. ~PopThrows(s1, "stack", 1)
        BY <2>2, <3>1 DEF PopThrows, Floor
      <3>3. Stacks(s2, call, n)
        BY <3>1, <3>2, StackPop DEF StackNames
      <3> HIDE DEF s2
      <3>4. Stacks(Push(s2, "hash", Hash), call, n)
        BY <1>7, <3>3, StackPush DEF StackNames
      <3>5. Opcode.op # "return"
        BY <1>14 DEF AssignToHash, At
      <3> QED
        BY <1>5, <2>2, <3>4, <3>5, StackedMoves
    <2> QED
      BY <1>14, <2>1, <2>2 DEF AssignToHash
  <1>15. CASE PopHash
    BY <1>3, <1>6, <1>7, <1>8, <1>15 DEF PopHash, At
  <1>16. CASE LookupOnContext
    BY <1>2, <1>3, <1>6, <1>7, <1>16 DEF LookupOnContext, At
  <1>17. CASE LookupBlockParam
    BY <1>2, <1>6, <1>7, <1>17 DEF LookupBlockParam, At
  <1>18. CASE LookupData
    <2>1. ValueOK(Top(stk, "partialBlock"), call, n)
      BY <1>2, StackTop
    <2> QED
      BY <1>2, <1>3, <1>4, <1>6, <1>7, <1>18, <2>1 DEF LookupData, At
  <1>19. CASE Unhandled
    BY <1>3, <1>19 DEF Unhandled
  <1> QED
    BY <1>9, <1>10, <1>11, <1>12, <1>13, <1>14, <1>15, <1>16, <1>17, <1>18, <1>19

(* The opcodes that call helpers, programs or templates.                   *)
LEMMA CallingReg ==
    ASSUME CallInv, RegOK(call, vm, stk),
           \/ ResolvePossibleLambda \/ InvokeAmbiguous \/ InvokeHelper \/ InvokeKnownHelper
           \/ BlockValue \/ AmbiguousBlockValue \/ InvokePartial
    PROVE  RegInv'
  <1> DEFINE n == Len(call)
  <1>1. TopIs("prog") /\ Opcode.op # "return"
    BY DEF ResolvePossibleLambda, InvokeAmbiguous, InvokeHelper, InvokeKnownHelper,
           BlockValue, AmbiguousBlockValue, InvokePartial, At
  <1>2. RegInv /\ Stacks(stk, call, n) /\ call # <<>>
    BY <1>1, OpcodeFacts DEF RegInv, RegOK
  <1>3. ASSUME NEW s, Throw(s, vm) PROVE RegInv'
    BY <1>2, <1>3, RegStops
  <1>4. ASSUME NEW s, Stacks(s, call, n), Stacked(s) PROVE RegInv'
    BY <1>1, <1>4, StackedMoves, StackedReg
  <1>5. ASSUME NEW f, HandlerReg(f, call, n), NEW s, Stacks(s, call, n),
               NEW callee, CalleeOK(callee, call, n), NEW ctx, Invoke(f, s, callee, ctx)
        PROVE  RegInv'
    BY <1>1, <1>5, InvokeReg
  <1>6. ASSUME NEW k \in Nat, ~PopThrows(stk, "stack", k)
        PROVE  Stacks(Pop(stk, "stack", k), call, n)
    BY <1>2, <1>6, StackPop DEF StackNames
  <1> DEFINE value == Popped(stk, "stack", 1)
             h(k) == Handler(OptProgram(k), OptInverse(k))
  <1>7. ValueOK(value, call, n)
    BY <1>2, StackTop
  <1>8. \A k \in {0, 1} : HandlerReg(h(k), call, n)
    BY <1>2, OptionsReg
  <1>9. CalleeOK(CalleeOf(value), call, n) /\ CalleeOK(Fn, call, n)
        /\ (IsCallable(value) => CalleeOK(value, call, n))
    BY <1>7, CalleeReg
  <1> HIDE DEF n, value, h
  <1>10. CASE ResolvePossibleLambda
    <2> DEFINE s == Pop(stk, "stack", 1)
    <2>1. \/ Throw(stk, vm)
          \/ /\ ~PopThrows(stk, "stack", 1)
             /\ \/ /\ IsCallable(value)
                   /\ Invoke(Handler(0, 0), s, value, Last(stk["context"].v))
                \/ PushOrThrow(s, "stack", value)
      BY <1>10 DEF ResolvePossibleLambda, value
    <2>2. HandlerReg(Handler(0, 0), call, n)
      <3>1. FrameOK(Handler(0, 0)) /\ Handler(0, 0).kind = "op"
        BY HandlerOK
      <3>2. /\ Handler(0, 0).program = 0 /\ Handler(0, 0).inverse = 0
            /\ Handler(0, 0).value = Null /\ Handler(0, 0).result = Null
        BY DEF Handler
      <3> QED
        BY <3>1, <3>2, PlainOK DEF HandlerReg
    <2>3. ~PopThrows(stk, "stack", 1) => Stacks(s, call, n)
      BY <1>6
    <2> HIDE DEF s
    <2>4. CASE Throw(stk, vm)
      BY <1>3, <2>4
    <2>5. CASE ~PopThrows(stk, "stack", 1) /\ IsCallable(value)
               /\ Invoke(Handler(0, 0), s, value, Last(stk["context"].v))
      BY <1>5, <1>9, <2>2, <2>3, <2>5
    <2>6. CASE ~PopThrows(stk, "stack", 1) /\ PushOrThrow(s, "stack", value)
      BY <1>1, <1>7, <2>3, <2>6, PushReg DEF n, StackNames
    <2> QED
      BY <2>1, <2>4, <2>5, <2>6
  <1>11. CASE InvokeAmbiguous
    <2> DEFINE s == Pop(stk, "stack", 3)
               f == [h(0) EXCEPT !.value = value]
               f1 == [f EXCEPT !.lastHelper = "helper"]
               ctx == Last(stk["context"].v)
    <2>1. \/ Throw(s, vm)
          \/ /\ ~PopThrows(stk, "stack", 3)
             /\ Invoke(f1, s, Fn, ctx) \/ Invoke(f, s, CalleeOf(value), ctx)
      BY <1>11 DEF InvokeAmbiguous, value, h
    <2>2. HandlerReg(f, call, n)
      BY <1>7, <1>8, FieldReg
    <2> HIDE DEF f
    <2>3. HandlerReg(f1, call, n)
      BY <2>2, FieldReg
    <2>4. ~PopThrows(stk, "stack", 3) => Stacks(s, call, n)
      BY <1>6
    <2> HIDE DEF f1, s
    <2> QED
      BY <1>3, <1>5, <1>9, <2>1, <2>2, <2>3, <2>4
  <1>12. CASE InvokeHelper
    <2> DEFINE k == 4 + Opcode.n
               s == Pop(stk, "stack", k)
    <2>1. k \in Nat
      <3>1. Opcode.op = "invoke_helper"
        BY <1>12 DEF InvokeHelper, At
      <3> QED
        BY <1>1, <3>1, OpcodeFacts
    <2>2. \/ Throw(s, vm)
          \/ /\ ~PopThrows(stk, "stack", k)
             /\ \E callee \in {Fn, CalleeOf(value)} : \E ctx : Invoke(h(1), s, callee, ctx)
      <3>1. \/ PopThrows(stk, "stack", k) /\ Throw(s, vm)
            \/ /\ ~PopThrows(stk, "stack", k)
               /\ \E callee \in (IF Opcode.simple THEN {Fn} ELSE {}) \cup {CalleeOf(value)} :
                    \E ctx : Invoke(h(1), s, callee, ctx)
        BY <1>12 DEF InvokeHelper, value, h
      <3>2. (IF Opcode.simple THEN {Fn} ELSE {}) \cup {CalleeOf(value)} \subseteq {Fn, CalleeOf(value)}
        OBVIOUS
      <3> HIDE DEF k, s
      <3> QED
        BY <3>1, <3>2
    <2>3. ~PopThrows(stk, "stack", k) => Stacks(s, call, n)
      BY <1>6, <2>1
    <2> HIDE DEF k, s
    <2> QED
      BY <1>3, <1>5, <1>8, <1>9, <2>2, <2>3
  <1>13. CASE InvokeKnownHelper
    <2> DEFINE k == 3 + Opcode.n
               s == Pop(stk, "stack", k)
    <2>1. k \in Nat
      <3>1. Opcode.op = "invoke_known_helper"
        BY <1>13 DEF InvokeKnownHelper, At
      <3> QED
        BY <1>1, <3>1, OpcodeFacts
    <2>2. \/ Throw(s, vm)
          \/ ~PopThrows(stk, "stack", k) /\ \E ctx : Invoke(h(0), s, Fn, ctx)
      BY <1>13 DEF InvokeKnownHelper, h
    <2>3. ~PopThrows(stk, "stack", k) => Stacks(s, call, n)
      BY <1>6, <2>1
    <2> HIDE DEF k, s
    <2> QED
      BY <1>3, <1>5, <1>8, <1>9, <2>2, <2>3
  <1>14. CASE BlockValue \/ AmbiguousBlockValue
    <2>1. \E k \in Nat :
            \/ Throw(Pop(stk, "stack", k), vm)
            \/ /\ ~PopThrows(stk, "stack", k)
               /\ \/ Stacked(Pop(stk, "stack", k))
                  \/ \E ctx : Invoke(h(0), Pop(stk, "stack", k), Fn, ctx)
      <3>1. CASE BlockValue
        BY <3>1 DEF BlockValue, h
      <3>2. CASE AmbiguousBlockValue
        <4> DEFINE k == IF vm.lastHelper = "none" THEN 4 ELSE 3
        <4>1. k \in Nat
          OBVIOUS
        <4>2. \/ Throw(Pop(stk, "stack", k), vm)
              \/ /\ ~PopThrows(stk, "stack", k)
                 /\ \/ Stacked(Pop(stk, "stack", k))
                    \/ \E ctx : Invoke(h(0), Pop(stk, "stack", k), Fn, ctx)
          BY <3>2 DEF AmbiguousBlockValue, h
        <4> QED
          BY <4>1, <4>2
      <3> QED
        BY <1>14, <3>1, <3>2
    <2> QED
      BY <1>3, <1>4, <1>5, <1>6, <1>8, <1>9, <2>1
  <1>15. CASE InvokePartial
    <2> DEFINE k == IF Opcode.dynamic THEN 5 ELSE 4
               program == OptProgram(0)
               block == PartialBlock(vm.module, program, Len(stk["partialBlock"].v))
               popped == Pop(stk, "stack", k)
               pushes == program > 0
               s == IF pushes THEN Push(popped, "partialBlock", block) ELSE popped
               f == [h(0) EXCEPT !.pushed = pushes]
    <2>1. \/ \E t : Throw(t, vm)
          \/ /\ ~PopThrows(stk, "stack", k)
             /\ \/ Stacked(s)
                \/ \E name, ctx :
                     LET found == FindPartial(name)
                         partial == IF found = Null /\ pushes THEN block ELSE found
                     IN partial.t \in {"tmpl", "fn", "block"} /\ Invoke(f, s, partial, ctx)
      BY <1>15 DEF InvokePartial, h
    <2>2. k \in Nat
      OBVIOUS
    <2>3. ~PopThrows(stk, "stack", k) => Stacks(popped, call, n)
      BY <1>6, <2>2
    <2>4. program \in Int /\ HandlerReg(h(0), call, n)
      BY <1>2, <1>8, OptionsReg
    <2>5. HandlerReg(f, call, n)
      BY <2>4, FieldReg
    <2>6. pushes => BlockOK(block, call, n)
      <3>1. ModuleOK(vm.module, call, n)
        BY <1>2, RegFacts DEF n
      <3>2. Len(stk["partialBlock"].v) \in Nat
        BY <1>2 DEF Stacks, IsSeq, StackNames
      <3> HIDE DEF program
      <3>3. pushes => program \in Nat
        BY <2>4
      <3> QED
        BY <3>1, <3>2, <3>3 DEF BlockOK, ModuleOK, PartialBlock
    <2>7. block.t = "block"
      BY DEF PartialBlock
    <2> HIDE DEF k, program, popped, f, block
    <2>8. ~PopThrows(stk, "stack", k) => Stacks(s, call, n)
      <3>1. pushes => ValueOK(block, call, n)
        BY <2>6, <2>7 DEF ValueOK
      <3> QED
        BY <2>3, <3>1, StackPush DEF StackNames
    <2>9. ASSUME NEW name, FindPartial(name).t \in {"tmpl", "fn", "block"}
          PROVE  CalleeOK(FindPartial(name), call, n)
      <3>1. CASE name \in DOMAIN Partials
        <4>1. FindPartial(name) =
                IF Partials[name] \in Templates THEN [t |-> "tmpl", tmpl |-> Partials[name]]
                ELSE IF Partials[name] = "callable" THEN Fn ELSE Plain
          BY <3>1 DEF FindPartial
        <4> QED
          BY <2>9, <4>1 DEF CalleeOK, Fn, Plain
      <3>2. CASE name \notin DOMAIN Partials /\ name = "@partial-block"
        <4>1. FindPartial(name) = Top(stk, "partialBlock")
          BY <3>2 DEF FindPartial
        <4>2. ValueOK(Top(stk, "partialBlock"), call, n)
          BY <1>2, StackTop
        <4> QED
          BY <2>9, <4>1, <4>2 DEF CalleeOK, ValueOK
      <3>3. CASE name \notin DOMAIN Partials /\ name # "@partial-block"
        <4>1. FindPartial(name) = Null
          BY <3>3 DEF FindPartial
        <4> QED
          BY <2>9, <4>1 DEF Null
      <3> QED
        BY <3>1, <3>2, <3>3
    <2>10. CASE \E t : Throw(t, vm)
      BY <1>3, <2>10
    <2>11. CASE ~PopThrows(stk, "stack", k) /\ Stacked(s)
      BY <1>4, <2>8, <2>11
    <2>12. ASSUME ~PopThrows(stk, "stack", k), NEW name, NEW ctx,
                  LET found == FindPartial(name)
                      partial == IF found = Null /\ pushes THEN block ELSE found
                  IN partial.t \in {"tmpl", "fn", "block"} /\ Invoke(f, s, partial, ctx)
           PROVE  RegInv'
      <3> DEFINE partial == IF FindPartial(name) = Null /\ pushes THEN block ELSE FindPartial(name)
      <3>1. partial.t \in {"tmpl", "fn", "block"} /\ Invoke(f, s, partial, ctx)
        BY <2>12
      <3>2. CalleeOK(partial, call, n)
        BY <2>6, <2>7, <2>9, <3>1 DEF CalleeOK
      <3> HIDE DEF partial, s
      <3> QED
        BY <1>5, <2>5, <2>8, <2>12, <3>1, <3>2
    <2> HIDE DEF s
    <2> QED
      BY <2>1, <2>10, <2>11, <2>12
  <1> QED
    BY <1>10, <1>11, <1>12, <1>13, <1>14, <1>15

-----------------------------------------------------------------------------
(* Returns *)

(* The top frame is taken off, and its caller goes on as g.                *)
LEMMA RegPops ==
    ASSUME CallInv, RegOK(call, vm, stk), call # <<>>, Len(call) > 1,
           NEW g, Saved(call[Len(call) - 1], g, call, Len(call) - 1),
           NEW v, Runs(v.buffer, call, Len(call) - 1), Gives(v.data, call, Len(call) - 1),
           v.owner = 1,
           IF call[Len(call) - 1].kind = "exec" THEN ModuleOK(v.module, call, Len(call) - 1)
           ELSE RunsModule(v.module, call, Len(call) - 1),
           NEW s, Stacks(s, call, Len(call) - 1)
    PROVE  RegOK(Unwound(call, Len(call) - 1, g), v, s)
  <1> DEFINE n == Len(call)
             m == n - 1
             e == SubSeq(call, 1, m)
             d == [e EXCEPT ![m] = g]
  <1>1. /\ n \in Nat \ {0} /\ m \in Nat \ {0} /\ IsSeq(call) /\ m \in 0 .. n
        /\ call[1].kind = "exec" /\ \A i \in 1 .. n : FrameReg(call, i)
    BY RegFacts
  <1>2. IsSeq(e) /\ Len(e) = m /\ \A i \in 1 .. m : e[i] = call[i]
    BY <1>1, PrefixSeq
  <1> HIDE DEF e
  <1>3. Len(d) = m /\ d[m] = g /\ \A y \in 1 .. m : y < m => d[y] = call[y]
    <2>1. m \in 1 .. Len(e)
      BY <1>1, <1>2
    <2> QED
      BY <1>1, <1>2, <2>1, ReplaceSeq
  <1> HIDE DEF d
  <1>4. (\A i \in 1 .. m : FrameReg(d, i)) /\ Seen(call, d, m)
    <2>1. \A i \in 1 .. m : FrameReg(call, i)
      BY <1>1
    <2>2. Saved(call[m], d[m], call, m)
      BY <1>3
    <2> HIDE DEF m
    <2> QED
      BY <1>1, <1>3, <2>1, <2>2, TopSaved
  <1>5. /\ \A h : Runs(h, call, m) => Runs(h, d, m)
        /\ \A h : Gives(h, call, m) => Gives(h, d, m)
        /\ \A x : RunsModule(x, call, m) => RunsModule(x, d, m)
        /\ Live(d, m) = Live(call, m)
    <2>1. m \in Nat
      BY <1>1
    <2> HIDE DEF m
    <2> QED
      BY <1>4, <2>1, SeenRuns
  <1>6. d[m].kind = call[m].kind
    BY <1>3 DEF Saved
  <1>7. VmReg(v, d)
    <2>1. ModuleOK(v.module, call, m) => ModuleOK(v.module, d, m)
      BY <1>5 DEF ModuleOK
    <2>2. m # 0
      BY <1>1
    <2>3. /\ Runs(v.buffer, d, m) /\ Gives(v.data, d, m)
          /\ IF d[m].kind = "exec" THEN ModuleOK(v.module, d, m) ELSE RunsModule(v.module, d, m)
      BY <1>5, <1>6, <2>1
    <2> HIDE DEF m
    <2> QED
      BY <1>3, <2>2, <2>3 DEF VmReg
  <1>8. Stacks(s, d, m)
    BY <1>5, ValueLives
  <1>9. RegOK(d, v, s)
    BY <1>3, <1>4, <1>7, <1>8 DEF RegOK
  <1> QED
    BY <1>9 DEF d, e, Unwound

(* What the registers are without a handler, a closure or a template.      *)
LEMMA RegBelow ==
    ASSUME CallInv, RegOK(call, vm, stk), call # <<>>, Last(call).kind \in {"op", "block", "tmpl"}
    PROVE  LET m == Len(call) - 1
           IN /\ Len(call) > 1 /\ m \in Nat \ {0} /\ FrameReg(call, m) /\ FrameOK(call[m])
              /\ call[m].kind \in Callers(Last(call).kind)
              /\ Runs(vm.buffer, call, m) /\ Gives(vm.data, call, m) /\ vm.owner = 1
              /\ RunsModule(vm.module, call, m)
              /\ Last(call).kind # "tmpl" => Live(call, Len(call)) = Live(call, m)
  <1> DEFINE m == Len(call) - 1
  <1>1. /\ Len(call) > 1 /\ m \in Nat \ {0} /\ m + 1 = Len(call) /\ FrameOK(call[m])
        /\ call[m].kind \in Callers(Last(call).kind) /\ Last(call) = call[m + 1]
    BY TopOf
  <1>2. /\ Runs(vm.buffer, call, m + 1) /\ Gives(vm.data, call, m + 1) /\ vm.owner = 1
        /\ RunsModule(vm.module, call, m + 1)
        /\ \A i \in 1 .. m + 1 : FrameReg(call, i)
    BY <1>1, RegFacts
  <1>3. m \in Nat /\ m \in 1 .. m + 1
    BY <1>1
  <1> HIDE DEF m
  <1>4. call[m + 1].kind # "prog" /\ ~Given(call[m + 1])
    BY <1>1 DEF Given
  <1>5. /\ Runs(vm.buffer, call, m) /\ Gives(vm.data, call, m) /\ RunsModule(vm.module, call, m)
        /\ Last(call).kind # "tmpl" => Live(call, m + 1) = Live(call, m)
    BY <1>1, <1>2, <1>3, <1>4, OneMore
  <1> QED
    BY <1>1, <1>2, <1>3, <1>5 DEF m

(* A caller's frame when its callee is done.                               *)
LEMMA DoneSaved ==
    ASSUME NEW c, NEW m, FrameReg(c, m), FrameOK(c[m]), c[m].kind # "prog"
    PROVE  /\ Saved(c[m], c[m], c, m)
           /\ Saved(c[m], [c[m] EXCEPT !.done = TRUE], c, m)
           /\ c[m].kind = "exec" => Saved(c[m], [[c[m] EXCEPT !.done = TRUE] EXCEPT !.ret = TRUE], c, m)
           /\ c[m].kind = "op" =>
                \A x : ValueOK(x, c, m - 1) =>
                   Saved(c[m], [[c[m] EXCEPT !.done = TRUE] EXCEPT !.result = x], c, m)
  <1> DEFINE f == c[m]
             d == [f EXCEPT !.done = TRUE]
  <1>1. f.kind = "op" => ValueOK(f.result, c, m - 1)
    BY DEF FrameReg
  <1>2. FrameOK(f) /\ f.kind # "prog"
    OBVIOUS
  <1>3. c[m] = f
    OBVIOUS
  <1> HIDE DEF f
  <1>4. Saved(f, f, c, m)
    BY <1>1, <1>2 DEF Saved
  <1>5. Saved(f, d, c, m)
    BY <1>1, <1>2 DEF Saved, FrameOK, Fields, Kinds
  <1>6. f.kind = "exec" => Saved(f, [d EXCEPT !.ret = TRUE], c, m)
    BY <1>2 DEF Saved, FrameOK, Fields, Kinds
  <1>7. f.kind = "op" =>
          \A x : ValueOK(x, c, m - 1) => Saved(f, [d EXCEPT !.result = x], c, m)
    BY <1>2 DEF Saved, FrameOK, Fields, Kinds
  <1> QED
    BY <1>3, <1>4, <1>5, <1>6, <1>7

(* The return opcode restores the buffer, the data and the stacks.         *)
LEMMA ReturnReg ==
    ASSUME CallInv, RegOK(call, vm, stk), ReturnOpcode
    PROVE  RegInv'
  <1> DEFINE n == Len(call)
             m == n - 1
             f == call[n]
             h == call[m]
             d == [h EXCEPT !.done = TRUE]
             g == IF h.kind = "op" THEN h
                  ELSE IF h.kind = "exec" THEN [d EXCEPT !.ret = TRUE] ELSE d
  <1>1. call # <<>> /\ Last(call).kind = "prog"
    BY DEF ReturnOpcode, At, TopIs
  <1>2. /\ n \in Nat /\ n > 1 /\ f.kind = "prog" /\ IsSeq(call) /\ Last(call) = f
        /\ h.kind \in {"exec", "op", "block"} /\ FrameOK(h)
        /\ m \in Nat \ {0} /\ m + 1 = n
    BY <1>1, TopOf, RegFacts DEF Callers
  <1>3. /\ \A i \in 1 .. n : FrameReg(call, i)
        /\ RunsModule(vm.module, call, n) /\ Gives(vm.data, call, n) /\ vm.owner = 1
        /\ DOMAIN vm = VmFields /\ Stacks(stk, call, n)
    BY <1>1, RegFacts
  <1>4. FrameReg(call, m) /\ FrameReg(call, n)
    <2>1. m \in 1 .. n /\ n \in 1 .. n
      BY <1>2
    <2> QED
      BY <1>3, <2>1
  <1>5. call' = Unwound(call, m, g)
    <2>1. LET c == Front(call)
          IN /\ Last(c) = h /\ Len(c) = m
             /\ c = Unwound(call, m, h)
             /\ Done(c) = Unwound(call, m, d)
             /\ [Done(c) EXCEPT ![m].ret = TRUE] = Unwound(call, m, [d EXCEPT !.ret = TRUE])
      BY <1>2, BelowTop
    <2> QED
      BY <2>1 DEF ReturnOpcode
  <1>6. Saved(h, g, call, m)
    <2>1. /\ Saved(h, h, call, m) /\ Saved(h, d, call, m)
          /\ h.kind = "exec" => Saved(h, [d EXCEPT !.ret = TRUE], call, m)
      BY <1>2, <1>4, DoneSaved
    <2> QED
      BY <2>1
  <1>7. /\ Runs(f.prevBuffer, call, m)
        /\ f.hasData => Gives(f.prevData, call, m)
        /\ ModuleOK(f.module, call, m)
        /\ h.kind # "exec" => RunsModule(f.module, call, m)
        /\ \A k \in StackNames : f.count[k] \in Nat /\ f.protect[k] \in Nat
    BY <1>2, <1>4 DEF FrameReg
  <1>8. vm.module = f.module /\ (~f.hasData => Gives(vm.data, call, m))
        /\ Live(call, n) = Live(call, m)
    <2>1. call[m + 1] = f /\ m \in Nat
      BY <1>2
    <2>2. RunsModule(vm.module, call, m + 1) /\ Gives(vm.data, call, m + 1)
      BY <1>2, <1>3
    <2>3. ~f.hasData => ~Given(call[m + 1])
      BY <2>1 DEF Given
    <2>4. Live(call, m + 1) = Live(call, m)
      BY <1>2, <2>1, OneMore
    <2> HIDE DEF f, m
    <2> QED
      BY <1>2, <2>1, <2>2, <2>3, <2>4, OneMore
  <1>9. /\ vm'.buffer = f.prevBuffer
        /\ vm'.data = (IF f.hasData THEN f.prevData ELSE vm.data)
        /\ vm'.owner = vm.owner /\ vm'.module = vm.module
    <2> DEFINE v == [vm EXCEPT !.buffer = f.prevBuffer]
    <2>1. DOMAIN v = VmFields /\ v.buffer = f.prevBuffer /\ v.data = vm.data
          /\ v.owner = vm.owner /\ v.module = vm.module
      BY <1>3 DEF VmFields
    <2>2. vm' = [v EXCEPT !.data = IF f.hasData THEN f.prevData ELSE @]
      BY <1>2 DEF ReturnOpcode, LeaveProgram
    <2> HIDE DEF v
    <2> QED
      BY <2>1, <2>2 DEF VmFields
  <1>10. Stacks(stk', call, m)
    <2>1. stk' = Restore(stk, f)
      BY <1>2 DEF ReturnOpcode
    <2>2. Stacks(stk', call, n)
      BY <1>3, <1>7, <2>1, StackRestore
    <2> QED
      BY <1>8, <2>2, ValueLives
  <1> HIDE DEF g, f
  <1>11. RegOK(Unwound(call, m, g), vm', stk')
    <2>1. Runs(vm'.buffer, call, m) /\ Gives(vm'.data, call, m) /\ vm'.owner = 1
      BY <1>3, <1>7, <1>8, <1>9
    <2>2. IF h.kind = "exec" THEN ModuleOK(vm'.module, call, m) ELSE RunsModule(vm'.module, call, m)
      BY <1>7, <1>8, <1>9
    <2> QED
      BY <1>1, <1>2, <1>6, <1>10, <2>1, <2>2, RegPops
  <1> QED
    BY <1>5, <1>11 DEF RegInv

(* A handler takes the result, and its program goes on.                    *)
LEMMA HandlerReturnsReg ==
    ASSUME CallInv, RegOK(call, vm, stk), HandlerReturns
    PROVE  RegInv'
  <1> DEFINE n == Len(call)
             m == n - 1
             f == call[n]
             h == call[m]
             g == [h EXCEPT !.pc = @ + 1]
             result == IF f.op = "invoke_ambiguous" /\ f.result = Null THEN f.value ELSE f.result
             pushes == f.op \notin {"block_value", "invoke_partial"}
             s == IF f.pushed THEN Pop(stk, "partialBlock", 1) ELSE stk
  <1>1. call # <<>> /\ Last(call).kind = "op" /\ Last(call) = f
    <2>1. TopIs("op")
      BY DEF HandlerReturns
    <2> QED
      BY <2>1, RegFacts DEF TopIs
  <1>2. /\ n > 1 /\ m \in Nat \ {0} /\ FrameReg(call, m) /\ FrameOK(h)
        /\ h.kind = "prog"
        /\ Runs(vm.buffer, call, m) /\ Gives(vm.data, call, m) /\ vm.owner = 1
        /\ RunsModule(vm.module, call, m)
        /\ Live(call, n) = Live(call, m)
    BY <1>1, RegBelow DEF Callers
  <1>3. IsSeq(call) /\ FrameReg(call, n) /\ Stacks(stk, call, n) /\ DOMAIN vm = VmFields
    BY <1>1, RegFacts
  <1>4. CASE Throw(stk, vm)
    BY <1>4, RegStops DEF RegInv
  <1>5. CASE /\ ~(f.pushed /\ PopThrows(stk, "partialBlock", 1))
             /\ stk' = IF pushes THEN Push(s, "stack", result) ELSE s
             /\ vm' = IF f.op = "invoke_ambiguous"
                      THEN [vm EXCEPT !.lastHelper = f.lastHelper] ELSE vm
             /\ call' = Advance(Front(call))
    <2>1. call' = Unwound(call, m, g)
      BY <1>2, <1>3, <1>5, BelowTop
    <2>2. Saved(h, g, call, m)
      <3>1. Code(h)[h.pc].op # "return"
        BY <1>1, <1>3 DEF FrameReg
      <3>2. h.pc + 1 \in 1 .. Len(Code(h))
        BY <1>2, <3>1, NextOpcode
      <3> QED
        BY <1>2, <3>2 DEF Saved, FrameOK, Fields
    <2>3. /\ vm'.buffer = vm.buffer /\ vm'.data = vm.data /\ vm'.owner = vm.owner
          /\ vm'.module = vm.module
      BY <1>3, <1>5 DEF VmFields
    <2>4. Stacks(stk', call, m)
      <3>1. Stacks(stk, call, m)
        BY <1>2, <1>3, ValueLives
      <3>2. Stacks(s, call, m)
        BY <1>5, <3>1, StackPop DEF StackNames
      <3>3. ValueOK(result, call, m)
        BY <1>1, <1>3 DEF FrameReg
      <3> HIDE DEF s, result, m
      <3>4. Stacks(Push(s, "stack", result), call, m)
        BY <3>2, <3>3, StackPush DEF StackNames
      <3> QED
        BY <1>5, <3>2, <3>4
    <2> HIDE DEF g
    <2>5. RegOK(Unwound(call, m, g), vm', stk')
      <3>1. Runs(vm'.buffer, call, m) /\ Gives(vm'.data, call, m) /\ vm'.owner = 1
            /\ (IF h.kind = "exec" THEN ModuleOK(vm'.module, call, m)
                ELSE RunsModule(vm'.module, call, m))
        BY <1>2, <2>3
      <3> QED
        BY <1>1, <1>2, <2>2, <2>4, <3>1, RegPops
    <2> QED
      BY <2>1, <2>5 DEF RegInv
  <1>6. \/ Throw(stk, vm)
        \/ /\ ~(f.pushed /\ PopThrows(stk, "partialBlock", 1))
           /\ stk' = IF pushes THEN Push(s, "stack", result) ELSE s
           /\ vm' = IF f.op = "invoke_ambiguous"
                    THEN [vm EXCEPT !.lastHelper = f.lastHelper] ELSE vm
           /\ call' = Advance(Front(call))
    BY <1>1 DEF HandlerReturns
  <1> QED
    BY <1>4, <1>5, <1>6

(* A program runs, from a call stack that looks like call.                 *)
LEMMA RunsReg ==
    ASSUME CallInv, RegOK(call, vm, stk), call # <<>>,
           Last(call).kind \in {"exec", "op", "block"},
           NEW h, Saved(call[Len(call)], h, call, Len(call)),
           NEW s, Stacks(s, call, Len(call)),
           NEW g \in Nat, NEW ctx, NEW newData \in BOOLEAN, NEW blockParams,
           RunProgram([call EXCEPT ![Len(call)] = h], s, g, ctx, newData, blockParams)
    PROVE  RegInv'
  <1> DEFINE n == Len(call)
             c == [call EXCEPT ![n] = h]
  <1>1. RegOK(c, vm, s) /\ IsSeq(c) /\ Len(c) = n /\ c[n] = h /\ c[1].kind = "exec"
    BY RegTop
  <1>2. n \in Nat \ {0} /\ DOMAIN vm = VmFields /\ Last(call) = call[n]
    BY RegFacts
  <1>3. h.kind \in {"exec", "op", "block"}
    BY <1>2 DEF Saved
  <1>4. RunProgram(c, s, g, ctx, newData, blockParams)
    OBVIOUS
  <1> HIDE DEF c
  <1>5. error' \/ UNCHANGED <<call, vm, stk>> \/ RegOK(call', vm', stk')
    BY <1>1, <1>2, <1>3, <1>4, RunProgramReg
  <1> QED
    BY <1>5 DEF RegInv

(* The steps of a helper.                                                  *)
LEMMA HelperReg ==
    ASSUME CallInv, RegOK(call, vm, stk), HelperRuns \/ HelperReturns \/ HelperThrows
    PROVE  RegInv'
  <1> DEFINE n == Len(call)
             f == call[n]
  <1>1. call # <<>> /\ f.kind = "op" /\ Last(call) = f /\ FrameOK(f) /\ FrameReg(call, n)
        /\ Stacks(stk, call, n)
    <2>1. TopIs("op")
      BY DEF HelperRuns, HelperReturns, HelperThrows, InHelper
    <2> QED
      BY <2>1, RegFacts DEF TopIs
  <1>2. ValueOK(f.result, call, n - 1) /\ f.program \in Int /\ f.inverse \in Int
    BY <1>1 DEF FrameReg
  <1>3. CASE HelperRuns
    <2> DEFINE h == [f EXCEPT !.runs = @ + 1]
    <2>1. Saved(f, h, call, n)
      BY <1>1, <1>2 DEF Saved, FrameOK, Fields
    <2>2. PICK g \in {Last(call).program, Last(call).inverse}, ctx \in Contexts,
               newData \in BOOLEAN, blockParams \in BOOLEAN :
            LET c == [call EXCEPT ![Height].runs = @ + 1]
            IN IF g < 0
               THEN call' = c /\ UNCHANGED <<stk, vm, jmp, error, pins, cached, app>>
               ELSE RunProgram(c, stk, g, ctx, newData, blockParams)
      BY <1>3, Zenon DEF HelperRuns
    <2>3. [call EXCEPT ![Height].runs = @ + 1] = [call EXCEPT ![n] = h]
      BY DEF Height
    <2>4. g \in Int
      BY <1>1, <1>2
    <2> DEFINE c == [call EXCEPT ![n] = h]
    <2>5. IF g < 0 THEN call' = c /\ UNCHANGED <<stk, vm>>
          ELSE RunProgram(c, stk, g, ctx, newData, blockParams)
      BY <2>2, <2>3
    <2> HIDE DEF h, c
    <2>6. CASE g < 0
      <3>1. call' = c /\ UNCHANGED <<stk, vm>>
        BY <2>5, <2>6
      <3>2. RegOK(call', vm', stk')
        BY <1>1, <2>1, <3>1, RegTop DEF c
      <3> QED
        BY <3>2 DEF RegInv
    <2>7. CASE ~(g < 0)
      <3>1. g \in Nat
        BY <2>4, <2>7
      <3>2. RunProgram([call EXCEPT ![n] = h], stk, g, ctx, newData, blockParams)
        BY <2>5, <2>7 DEF c
      <3>3. Last(call).kind \in {"exec", "op", "block"}
        BY <1>1
      <3> QED
        BY <1>1, <2>1, <3>1, <3>2, <3>3, RunsReg
    <2> QED
      BY <2>6, <2>7
  <1>4. CASE HelperReturns
    <2>1. PICK v \in {Null, Plain} :
            call' = [call EXCEPT ![Height].done = TRUE, ![Height].result = v]
      BY <1>4 DEF HelperReturns
    <2> DEFINE d == [f EXCEPT !.done = TRUE]
               h == [d EXCEPT !.result = v]
    <2>2. Saved(f, h, call, n)
      BY <1>1, DoneSaved, PlainOK
    <2>3. call' = [call EXCEPT ![n] = h]
      <3> DEFINE c == [call EXCEPT ![n] = d]
      <3> HIDE DEF d
      <3>1. n \in DOMAIN call
        BY <1>1, RegFacts DEF IsSeq
      <3>2. call' = [c EXCEPT ![n].result = v]
        BY <2>1 DEF Height, d
      <3>3. c[n] = d
        BY <3>1
      <3> QED
        BY <3>1, <3>2, <3>3
    <2> HIDE DEF h, d
    <2>4. UNCHANGED <<stk, vm>>
      BY <1>4 DEF HelperReturns
    <2>5. RegOK(call', vm', stk')
      BY <1>1, <2>2, <2>3, <2>4, RegTop
    <2> QED
      BY <2>5 DEF RegInv
  <1>5. CASE HelperThrows
    BY <1>5, RegStops DEF HelperThrows, RegInv
  <1> QED
    BY <1>3, <1>4, <1>5

(* A partial's block runs, and returns.                                    *)
LEMMA BlockReg ==
    ASSUME CallInv, RegOK(call, vm, stk), BlockRuns \/ BlockReturns
    PROVE  RegInv'
  <1> DEFINE n == Len(call)
             f == call[n]
             b == f.closure
  <1>1. /\ call # <<>> /\ f.kind = "block" /\ Last(call) = f /\ FrameOK(f) /\ FrameReg(call, n)
        /\ Stacks(stk, call, n) /\ IsSeq(call) /\ n \in Nat \ {0} /\ DOMAIN vm = VmFields
    <2>1. TopIs("block")
      BY DEF BlockRuns, BlockReturns
    <2> QED
      BY <2>1, RegFacts DEF TopIs
  <1>2. ASSUME NEW s, NEW v, Throw(s, v) PROVE RegInv'
    BY <1>2, RegStops DEF RegInv
  <1>3. BlockOK(b, call, n - 1)
    BY <1>1 DEF FrameReg
  <1>4. CASE BlockRuns
    <2> DEFINE pushes == b.depth > 0
               h == [f EXCEPT !.pushed = pushes]
               c == [call EXCEPT ![n] = h]
               x == stk["partialBlock"].v[b.depth]
               s == IF pushes THEN Push(stk, "partialBlock", x) ELSE stk
    <2>1. Saved(f, h, call, n)
      BY <1>1 DEF Saved, FrameOK, Fields
    <2>2. \/ Throw(stk, vm) \/ Fault("null value")
          \/ /\ ~(b.depth > Len(stk["partialBlock"].v))
             /\ \/ \E ctx, blockParams : RunProgram(c, s, b.program, ctx, FALSE, blockParams)
                \/ \E ctx, blockParams :
                     EnterExecute(c, s, vm, jmp, b.module, b.program, ctx, blockParams)
      <3>1. [call EXCEPT ![Height].pushed = pushes] = c
        BY DEF Height
      <3>2. /\ BlockRuns /\ Last(call) = f
        BY <1>1, <1>4
      <3> HIDE DEF c, h, x, f
      <3> QED
        BY <3>1, <3>2 DEF BlockRuns, x
    <2> HIDE DEF h
    <2>3. ~(b.depth > Len(stk["partialBlock"].v)) => Stacks(s, call, n)
      <3>1. b.depth \in Nat /\ Len(stk["partialBlock"].v) \in Nat
        BY <1>1, <1>3 DEF BlockOK, Stacks, IsSeq, StackNames
      <3>2. (pushes /\ ~(b.depth > Len(stk["partialBlock"].v))) => ValueOK(x, call, n)
        <4> DEFINE k == b.depth
        <4>1. (k > 0 /\ ~(k > Len(stk["partialBlock"].v))) => k \in 1 .. Len(stk["partialBlock"].v)
          BY <3>1
        <4> HIDE DEF k
        <4> QED
          BY <1>1, <4>1 DEF Stacks, k
      <3> HIDE DEF x, f
      <3> QED
        BY <1>1, <3>2, StackPush DEF StackNames
    <2>4. b.program \in Nat /\ ModuleOK(b.module, call, n)
      <3>1. b.program \in Nat /\ ModuleOK(b.module, call, n - 1)
        BY <1>3 DEF BlockOK, ModuleOK
      <3>2. Live(call, n - 1) \subseteq Live(call, n)
        BY <1>1 DEF Live
      <3> QED
        BY <3>1, <3>2 DEF ModuleOK
    <2> HIDE DEF s
    <2>5. CASE /\ ~(b.depth > Len(stk["partialBlock"].v))
               /\ \E ctx, blockParams : RunProgram(c, s, b.program, ctx, FALSE, blockParams)
      <3>1. Last(call).kind \in {"exec", "op", "block"} /\ FALSE \in BOOLEAN
        BY <1>1
      <3> QED
        BY <1>1, <2>1, <2>3, <2>4, <2>5, <3>1, RunsReg
    <2>6. CASE /\ ~(b.depth > Len(stk["partialBlock"].v))
               /\ \E ctx, blockParams :
                     EnterExecute(c, s, vm, jmp, b.module, b.program, ctx, blockParams)
      <3>1. /\ RegOK(c, vm, s) /\ IsSeq(c) /\ Len(c) = n /\ c[n] = h /\ c[1].kind = "exec"
            /\ Live(c, n) = Live(call, n)
        BY <1>1, <2>1, <2>3, <2>6, RegTop
      <3>2. h.kind = "block"
        BY <1>1, <2>1 DEF Saved
      <3>3. ModuleOK(b.module, c, n)
        BY <2>4, <3>1 DEF ModuleOK
      <3> HIDE DEF c, f
      <3>4. RegOK(call', vm', stk')
        BY <1>1, <2>4, <2>6, <3>1, <3>2, <3>3, EnterReg
      <3> QED
        BY <3>4 DEF RegInv
    <2>7. CASE Throw(stk, vm) \/ Fault("null value")
      BY <2>7, RegStops DEF RegInv
    <2> QED
      BY <2>2, <2>5, <2>6, <2>7
  <1>5. CASE BlockReturns
    <2> DEFINE m == n - 1
               h == call[m]
               d == [h EXCEPT !.done = TRUE]
               g == [d EXCEPT !.result = Plain]
    <2>1. /\ n > 1 /\ m \in Nat \ {0} /\ FrameReg(call, m) /\ FrameOK(h) /\ h.kind = "op"
          /\ Runs(vm.buffer, call, m) /\ Gives(vm.data, call, m) /\ vm.owner = 1
          /\ RunsModule(vm.module, call, m) /\ Live(call, n) = Live(call, m)
      BY <1>1, RegBelow DEF Callers
    <2>2. Saved(h, g, call, m)
      BY <2>1, DoneSaved, PlainOK
    <2>3. [Done(Front(call)) EXCEPT ![m].result = Plain] = Unwound(call, m, g)
      BY <1>1, <2>1, BelowTop
    <2>4. CASE /\ ~(f.pushed /\ PopThrows(stk, "partialBlock", 1))
               /\ stk' = IF f.pushed THEN Pop(stk, "partialBlock", 1) ELSE stk
               /\ call' = [Done(Front(call)) EXCEPT ![Height - 1].result = Plain]
               /\ UNCHANGED <<vm, jmp, error, pins, cached, app>>
      <3>1. call' = Unwound(call, m, g) /\ vm' = vm
        BY <2>3, <2>4 DEF Height
      <3>2. Stacks(stk', call, m)
        <4>1. Stacks(stk', call, n)
          BY <1>1, <2>4, StackPop DEF StackNames
        <4> QED
          BY <2>1, <4>1, ValueLives
      <3> HIDE DEF g
      <3>3. RegOK(Unwound(call, m, g), vm, stk')
        BY <1>1, <2>1, <2>2, <3>2, RegPops
      <3> QED
        BY <3>1, <3>3 DEF RegInv
    <2> HIDE DEF g
    <2>5. Throw(stk, vm) \/
          (/\ ~(f.pushed /\ PopThrows(stk, "partialBlock", 1))
           /\ stk' = IF f.pushed THEN Pop(stk, "partialBlock", 1) ELSE stk
           /\ call' = [Done(Front(call)) EXCEPT ![Height - 1].result = Plain]
           /\ UNCHANGED <<vm, jmp, error, pins, cached, app>>)
      BY <1>1, <1>5 DEF BlockReturns
    <2> QED
      BY <1>2, <2>4, <2>5
  <1> QED
    BY <1>4, <1>5

(* A template starts: its module is in memory until it ends.               *)
LEMMA TemplateRunsReg ==
    ASSUME CallInv, RegOK(call, vm, stk), TemplateRuns
    PROVE  RegInv'
  <1> DEFINE n == Len(call)
             f == call[n]
             d == [f EXCEPT !.done = TRUE]
  <1>1. /\ call # <<>> /\ f.kind = "tmpl" /\ Last(call) = f /\ FrameOK(f) /\ FrameReg(call, n)
        /\ Stacks(stk, call, n) /\ IsSeq(call) /\ n \in Nat \ {0} /\ DOMAIN vm = VmFields
        /\ call[1].kind = "exec"
    <2>1. TopIs("tmpl")
      BY DEF TemplateRuns
    <2> QED
      BY <2>1, RegFacts DEF TopIs
  <1>2. CASE call' = Done(call) /\ UNCHANGED <<stk, vm>>
    <2>1. Saved(f, d, call, n)
      BY <1>1, DoneSaved
    <2>2. call' = [call EXCEPT ![n] = d]
      BY <1>1, <1>2 DEF Done
    <2> HIDE DEF d
    <2>3. RegOK([call EXCEPT ![n] = d], vm, stk)
      BY <1>1, <2>1, RegTop
    <2>4. RegOK(call', vm', stk')
      BY <1>2, <2>2, <2>3
    <2> QED
      BY <2>4 DEF RegInv
  <1>3. CASE \E owner \in {0, n} :
               EnterExecute(call, stk, [vm EXCEPT !.depth = @ + 1], n,
                            Instance(f.tmpl, owner), 0, f.ctx, FALSE)
    <2> DEFINE v == [vm EXCEPT !.depth = @ + 1]
    <2>1. PICK owner \in {0, n} :
            EnterExecute(call, stk, v, n, Instance(f.tmpl, owner), 0, f.ctx, FALSE)
      BY <1>3
    <2>2. /\ DOMAIN v = VmFields /\ v.buffer = vm.buffer /\ v.data = vm.data
          /\ v.owner = vm.owner /\ v.module = vm.module
      BY <1>1 DEF VmFields
    <2> HIDE DEF v
    <2>3. RegOK(call, v, stk)
      BY <2>2 DEF RegOK, VmReg
    <2>4. ModuleOK(Instance(f.tmpl, owner), call, n)
      <3>1. f.tmpl \in Templates
        BY <1>1 DEF FrameReg
      <3>2. n \in Live(call, n) /\ 0 \in Live(call, n)
        BY <1>1 DEF Live
      <3> QED
        BY <2>1, <3>1, <3>2 DEF ModuleOK, Instance
    <2>5. RegOK(call', vm', stk')
      <3> DEFINE module == Instance(f.tmpl, owner)
                 ctx == f.ctx
                 g == 0
                 catches == n
                 blockParams == FALSE
      <3>1. Len(call) > 0 => call[1].kind = "exec" /\ call[Len(call)].kind # "exec"
        BY <1>1
      <3>2. g \in Nat
        OBVIOUS
      <3>3. EnterExecute(call, stk, v, catches, module, g, ctx, blockParams)
        BY <2>1
      <3>4. ModuleOK(module, call, Len(call))
        BY <2>4
      <3>5. IsSeq(call) /\ DOMAIN v = VmFields
        BY <1>1, <2>2
      <3> HIDE DEF module, ctx, g, catches, blockParams, f, n
      <3> QED
        BY <2>3, <3>1, <3>2, <3>3, <3>4, <3>5, EnterReg
    <2> QED
      BY <2>5 DEF RegInv
  <1>4. CASE error' = TRUE
    BY <1>4 DEF RegInv
  <1>5. \/ call' = Done(call) /\ UNCHANGED <<stk, vm>>
        \/ \E owner \in {0, n} :
               EnterExecute(call, stk, [vm EXCEPT !.depth = @ + 1], n,
                            Instance(f.tmpl, owner), 0, f.ctx, FALSE)
        \/ error' = TRUE
    <2> DEFINE owner == IF Last(call).fromCache \/ Cache = "simple" THEN 0 ELSE Height
    <2>1. owner \in {0, n}
      BY DEF Height
    <2>2. \/ call' = Done(call) /\ UNCHANGED <<stk, vm>>
          \/ EnterExecute(call, stk, [vm EXCEPT !.depth = @ + 1], Height,
                            Instance(Last(call).tmpl, owner), 0, Last(call).ctx, FALSE)
          \/ error' = TRUE
      BY DEF TemplateRuns
    <2> HIDE DEF owner, f
    <2> QED
      BY <1>1, <2>1, <2>2 DEF Height
  <1> QED
    BY <1>2, <1>3, <1>4, <1>5

(* A template's module is freed: what spoke of it now speaks of freed      *)
(* memory.                                                                 *)
LEMMA FreedValue ==
    ASSUME NEW c, NEW m \in Nat, NEW x, ValueOK(x, c, m + 1)
    PROVE  ValueOK(IF x.t = "block" THEN [x EXCEPT !.module = Free(@, m + 1)] ELSE x, c, m)
  <1>1. CASE x.t = "block"
    <2> DEFINE y == [x EXCEPT !.module = Free(@, m + 1)]
               a == x.module
               b == Free(a, m + 1)
    <2>1. x \in [t : {"block"}, module : [tmpl : Templates, frame : Live(c, m + 1)],
                 program : Nat, depth : Nat]
      BY <1>1 DEF ValueOK, BlockOK
    <2>2. a \in [tmpl : Templates, frame : Live(c, m + 1)]
      BY <2>1
    <2>3. Live(c, m + 1) \ {m + 1} \subseteq Live(c, m) /\ -1 \in Live(c, m)
      BY OneMore DEF Live
    <2>4. b \in [tmpl : Templates, frame : Live(c, m)]
      <3>1. CASE a.frame = m + 1
        BY <2>2, <2>3, <3>1 DEF Free
      <3>2. CASE a.frame # m + 1
        <4>1. a.frame \in Live(c, m)
          BY <2>2, <2>3, <3>2
        <4> QED
          BY <2>2, <3>2, <4>1 DEF Free
      <3> QED
        BY <3>1, <3>2
    <2>5. y = [x EXCEPT !.module = b]
      OBVIOUS
    <2> HIDE DEF a, b
    <2>6. BlockOK(y, c, m)
      BY <2>1, <2>4, <2>5 DEF BlockOK
    <2>7. y.t = "block"
      BY <2>1, <2>5
    <2> HIDE DEF y
    <2>8. ValueOK(y, c, m)
      BY <2>6, <2>7 DEF ValueOK
    <2> QED
      BY <1>1, <2>8 DEF y
  <1>2. CASE x.t # "block"
    BY <1>2 DEF ValueOK
  <1> QED
    BY <1>1, <1>2

(* The operands and the partial blocks that are left.                      *)
Freed(x, n) == IF x.t = "block" THEN [x EXCEPT !.module = Free(@, n)] ELSE x

FreedStack(s, n) ==
    [k \in StackNames |->
        IF k \notin {"stack", "partialBlock"} THEN s[k]
        ELSE [s[k] EXCEPT !.v = [i \in DOMAIN @ |-> Freed(@[i], n)]]]

FreedIn(t, s, n) ==
    \A k \in StackNames :
        /\ Len(t[k].v) = Len(s[k].v)
        /\ \A i \in 1 .. Len(s[k].v) :
             t[k].v[i] = IF k \in {"stack", "partialBlock"} THEN Freed(s[k].v[i], n)
                         ELSE s[k].v[i]

LEMMA FreedStacks ==
    ASSUME NEW c, NEW m \in Nat, NEW s, Stacks(s, c, m + 1)
    PROVE  /\ Stacks(FreedStack(s, m + 1), c, m)
           /\ FreedIn(FreedStack(s, m + 1), s, m + 1)
  <1> DEFINE n == m + 1
             t == FreedStack(s, n)
             q(k) == IF k \notin {"stack", "partialBlock"} THEN s[k].v
                     ELSE [i \in DOMAIN s[k].v |-> Freed(s[k].v[i], n)]
  <1>1. /\ \A k \in StackNames : s[k] = [v |-> s[k].v, protect |-> s[k].protect]
        /\ \A k \in StackNames : s[k].protect \in Nat /\ IsSeq(s[k].v)
    BY DEF Stacks
  <1>2. \A k \in StackNames :
          [s[k] EXCEPT !.v = [i \in DOMAIN @ |-> Freed(@[i], n)]]
            = [v |-> [i \in DOMAIN s[k].v |-> Freed(s[k].v[i], n)], protect |-> s[k].protect]
    <2> SUFFICES ASSUME NEW k \in StackNames
                 PROVE  [s[k] EXCEPT !.v = [i \in DOMAIN @ |-> Freed(@[i], n)]]
                          = [v |-> [i \in DOMAIN s[k].v |-> Freed(s[k].v[i], n)],
                             protect |-> s[k].protect]
      OBVIOUS
    <2> DEFINE u == s[k]
               w == [i \in DOMAIN u.v |-> Freed(u.v[i], n)]
    <2>1. u = [v |-> u.v, protect |-> u.protect]
      BY <1>1
    <2>2. [u EXCEPT !.v = [i \in DOMAIN @ |-> Freed(@[i], n)]] = [u EXCEPT !.v = w]
      OBVIOUS
    <2> HIDE DEF w, u
    <2>3. [u EXCEPT !.v = w] = [v |-> w, protect |-> u.protect]
      BY <2>1
    <2> QED
      BY <2>2, <2>3 DEF w, u
  <1>3. t = [k \in StackNames |-> [v |-> q(k), protect |-> s[k].protect]]
    BY <1>1, <1>2 DEF FreedStack
  <1>4. ASSUME NEW k \in StackNames
        PROVE  IsSeq(q(k)) /\ Len(q(k)) = Len(s[k].v)
    <2>1. CASE k \notin {"stack", "partialBlock"}
      BY <1>1, <2>1
    <2>2. CASE k \in {"stack", "partialBlock"}
      <3> DEFINE a == s[k].v
                 b == [i \in 1 .. Len(a) |-> Freed(a[i], n)]
      <3>1. DOMAIN a = 1 .. Len(a) /\ Len(a) \in Nat
        BY <1>1 DEF IsSeq
      <3>2. q(k) = b
        BY <2>2, <3>1
      <3>3. b = [i \in 1 .. Len(a) |-> b[i]]
        OBVIOUS
      <3> HIDE DEF a, b
      <3> QED
        BY <3>1, <3>2, <3>3, FunctionSeq DEF a
    <2> QED
      BY <2>1, <2>2
  <1>5. ASSUME NEW k \in StackNames, NEW i \in 1 .. Len(s[k].v)
        PROVE  q(k)[i] = IF k \in {"stack", "partialBlock"} THEN Freed(s[k].v[i], n)
                         ELSE s[k].v[i]
    <2>1. DOMAIN s[k].v = 1 .. Len(s[k].v)
      BY <1>1 DEF IsSeq
    <2> QED
      BY <2>1
  <1>6. ASSUME NEW k \in {"stack", "partialBlock"}, NEW i \in 1 .. Len(q(k))
        PROVE  ValueOK(q(k)[i], c, m)
    <2>1. k \in StackNames
      BY DEF StackNames
    <2>2. i \in 1 .. Len(s[k].v)
      BY <1>4, <2>1
    <2>3. q(k)[i] = Freed(s[k].v[i], n)
      BY <1>5, <2>1, <2>2
    <2>4. ValueOK(s[k].v[i], c, n)
      BY <2>2 DEF Stacks
    <2>5. ValueOK(Freed(s[k].v[i], n), c, m)
      BY <2>4, FreedValue DEF Freed
    <2> QED
      BY <2>3, <2>5
  <1> HIDE DEF q, n, t
  <1>7. \A k \in StackNames : t[k].v = q(k) /\ t[k].protect = s[k].protect
    BY <1>3
  <1>8. t = [k \in StackNames |-> [v |-> t[k].v, protect |-> t[k].protect]]
    BY <1>3, <1>7
  <1>9. {"stack", "partialBlock"} \subseteq StackNames
    BY DEF StackNames
  <1> HIDE DEF StackNames
  <1>10. Stacks(t, c, m)
    BY <1>1, <1>4, <1>6, <1>7, <1>8, <1>9 DEF Stacks
  <1>11. FreedIn(t, s, n)
    BY <1>4, <1>5, <1>7 DEF FreedIn
  <1> QED
    BY <1>10, <1>11 DEF t, n

(* A template ends: the program that runs is not one of its module's.      *)
LEMMA TemplateReturnsReg ==
    ASSUME CallInv, RegOK(call, vm, stk), TemplateReturns
    PROVE  RegInv'
  <1> DEFINE n == Len(call)
             m == n - 1
             f == Last(call)
             h == call[m]
             d == [h EXCEPT !.done = TRUE]
             g == [d EXCEPT !.result = Plain]
             freed(x) == IF x.t = "block" THEN [x EXCEPT !.module = Free(@, n)] ELSE x
             v == [vm EXCEPT !.depth = f.prevDepth]
  <1>1. /\ call # <<>> /\ f.kind = "tmpl" /\ IsSeq(call) /\ Stacks(stk, call, n)
        /\ DOMAIN vm = VmFields /\ \A i \in 1 .. n : FrameReg(call, i)
    <2>1. TopIs("tmpl")
      BY DEF TemplateReturns
    <2> QED
      BY <2>1, RegFacts DEF TopIs
  <1>2. /\ n > 1 /\ m \in Nat \ {0} /\ FrameReg(call, m) /\ FrameOK(h) /\ h.kind = "op"
        /\ Runs(vm.buffer, call, m) /\ Gives(vm.data, call, m) /\ vm.owner = 1
        /\ RunsModule(vm.module, call, m)
    BY <1>1, RegBelow DEF Callers
  <1>3. m + 1 = n /\ n \in Nat
    BY <1>1 DEF IsSeq
  <1>4. Saved(h, g, call, m)
    BY <1>2, DoneSaved, PlainOK
  <1>5. call' = Unwound(call, m, g)
    BY <1>1, <1>2, BelowTop DEF TemplateReturns, Height
  <1>6. /\ vm' = [v EXCEPT !.module = Free(@, n)]
        /\ stk' = [k \in StackNames |->
                     IF k \notin {"stack", "partialBlock"} THEN stk[k]
                     ELSE [stk[k] EXCEPT !.v = [i \in DOMAIN @ |-> freed(@[i])]]]
    BY DEF TemplateReturns, Height
  <1>7. /\ DOMAIN v = VmFields /\ v.buffer = vm.buffer /\ v.data = vm.data
        /\ v.owner = vm.owner /\ v.module = vm.module
    BY <1>1 DEF VmFields
  <1> HIDE DEF v, g, f
  <1>8. Free(vm.module, n) = vm.module
    <2>1. ModuleOK(vm.module, call, m)
      <3>1. m \in Nat /\ \A i \in 1 .. m : FrameReg(call, i)
        BY <1>1, <1>2, <1>3
      <3> HIDE DEF m
      <3> QED
        BY <1>2, <3>1, RunningOK
    <2>2. vm.module.frame \in Live(call, m)
      BY <2>1 DEF ModuleOK
    <2>3. n \notin Live(call, m)
      BY <1>2, <1>3 DEF Live
    <2> QED
      BY <2>2, <2>3 DEF Free
  <1>9. /\ vm'.buffer = vm.buffer /\ vm'.data = vm.data /\ vm'.owner = vm.owner
        /\ vm'.module = vm.module
    BY <1>6, <1>7, <1>8 DEF VmFields
  <1>10. Stacks(stk', call, m)
    <2>1. stk' = FreedStack(stk, n)
      BY <1>6 DEF FreedStack, Freed
    <2>2. Stacks(FreedStack(stk, m + 1), call, m)
      <3>1. m \in Nat /\ Stacks(stk, call, m + 1)
        BY <1>1, <1>2, <1>3
      <3> HIDE DEF m
      <3> QED
        BY <3>1, FreedStacks
    <2> HIDE DEF m
    <2> QED
      BY <1>3, <2>1, <2>2
  <1>11. RegOK(Unwound(call, m, g), vm', stk')
    <2>1. Runs(vm'.buffer, call, m) /\ Gives(vm'.data, call, m) /\ vm'.owner = 1
          /\ (IF h.kind = "exec" THEN ModuleOK(vm'.module, call, m)
              ELSE RunsModule(vm'.module, call, m))
      BY <1>2, <1>9
    <2> QED
      BY <1>1, <1>2, <1>4, <1>10, <2>1, RegPops
  <1> QED
    BY <1>5, <1>11 DEF RegInv

(* The application runs a template: it has a module, with nothing else in  *)
(* memory.                                                                 *)
LEMMA ExecuteReg ==
    ASSUME CallInv, RegOK(call, vm, stk), Execute
    PROVE  RegInv'
  <1>1. call = <<>> /\ Len(call) = 0 /\ IsSeq(call) /\ DOMAIN vm = VmFields
    BY EmptyIsSeq, VmTypes DEF Execute
  <1>2. PICK t \in Mains, context \in Contexts :
          EnterExecute(call, stk, vm, jmp, Instance(t, 0), 0, context, FALSE)
    BY DEF Execute
  <1> DEFINE module == Instance(t, 0)
             g == 0
             blockParams == FALSE
  <1>3. ModuleOK(module, call, Len(call))
    BY <1>2, ConstantsAssumption DEF ModuleOK, Instance, Live
  <1>4. EnterExecute(call, stk, vm, jmp, module, g, context, blockParams) /\ g \in Nat
    BY <1>2
  <1> HIDE DEF module, g, blockParams
  <1>5. RegOK(call', vm', stk')
    BY <1>1, <1>3, <1>4, EnterReg
  <1> QED
    BY <1>5 DEF RegInv

(* An execution runs its program.                                          *)
LEMMA ExecuteProgramReg ==
    ASSUME CallInv, RegOK(call, vm, stk), ExecuteProgram
    PROVE  RegInv'
  <1> DEFINE n == Len(call)
             f == call[n]
             d == [call EXCEPT ![n] = f]
  <1>1. /\ call # <<>> /\ f.kind = "exec" /\ Last(call) = f /\ FrameOK(f) /\ FrameReg(call, n)
        /\ Stacks(stk, call, n) /\ IsSeq(call) /\ n \in Nat \ {0}
    <2>1. TopIs("exec")
      BY DEF ExecuteProgram
    <2> QED
      BY <2>1, RegFacts DEF TopIs
  <1>2. Saved(f, f, call, n)
    BY <1>1, DoneSaved
  <1>3. f.g \in Nat
    BY <1>1 DEF FrameReg
  <1>4. d = call
    BY <1>1 DEF IsSeq
  <1>5. PICK context, blockParams : RunProgram(call, stk, f.g, context, FALSE, blockParams)
    BY <1>1 DEF ExecuteProgram
  <1>6. RunProgram(d, stk, f.g, context, FALSE, blockParams)
    BY <1>4, <1>5
  <1> DEFINE newData == FALSE
             g == f.g
  <1>7. g \in Nat /\ newData \in BOOLEAN /\ Last(call).kind \in {"exec", "op", "block"}
    BY <1>1, <1>3
  <1>8. RunProgram([call EXCEPT ![n] = f], stk, g, context, newData, blockParams)
    BY <1>6
  <1>9. Saved(call[n], f, call, n)
    BY <1>2
  <1> HIDE DEF newData, g, f
  <1> QED
    BY <1>1, <1>7, <1>8, <1>9, RunsReg

(* It returns: its caller has the module that it had.                      *)
LEMMA ExecuteReturnsReg ==
    ASSUME CallInv, RegOK(call, vm, stk), ExecuteReturns
    PROVE  RegInv'
  <1> DEFINE n == Len(call)
             m == n - 1
             f == Last(call)
             h == call[m]
             d == [h EXCEPT !.done = TRUE]
             v == [vm EXCEPT !.module = f.prevModule]
  <1>1. /\ call # <<>> /\ f.kind = "exec" /\ f = call[n] /\ IsSeq(call)
        /\ n \in Nat /\ m \in Nat /\ n = m + 1 /\ DOMAIN vm = VmFields
        /\ Runs(vm.buffer, call, n) /\ Gives(vm.data, call, n) /\ vm.owner = 1
        /\ Stacks(stk, call, n) /\ FrameReg(call, n) /\ \A i \in 1 .. n : FrameReg(call, i)
    <2>1. TopIs("exec")
      BY DEF ExecuteReturns
    <2> QED
      BY <2>1, RegFacts DEF TopIs
  <1>2. DOMAIN v = VmFields /\ v.buffer = vm.buffer /\ v.data = vm.data /\ v.owner = vm.owner
        /\ v.module = f.prevModule
    BY <1>1 DEF VmFields
  <1>3. /\ call' = Done(Front(call))
        /\ vm' = [v EXCEPT !.owner = IF f.setup THEN 0 ELSE @]
        /\ stk' = IF f.setup THEN EmptyStacks ELSE stk
    BY DEF ExecuteReturns, LeaveExecute
  <1> HIDE DEF v, f
  <1>4. /\ vm'.buffer = vm.buffer /\ vm'.data = vm.data /\ vm'.module = f.prevModule
        /\ vm'.owner = IF f.setup THEN 0 ELSE 1
    BY <1>1, <1>2, <1>3 DEF VmFields
  <1>5. /\ f.setup <=> n = 1
        /\ IF n = 1 THEN f.prevModule = NoModule ELSE RunsModule(f.prevModule, call, m)
    BY <1>1 DEF FrameReg
  <1>6. Runs(vm.buffer, call, m) /\ Gives(vm.data, call, m)
        /\ Live(call, n) = Live(call, m)
    <2>1. call[m + 1].kind = "exec" /\ ~Given(call[m + 1])
      BY <1>1 DEF Given
    <2> HIDE DEF m
    <2>2. /\ \A x : Runs(x, call, m + 1) <=> Runs(x, call, m)
          /\ \A x : Gives(x, call, m + 1) <=> Gives(x, call, m)
          /\ Live(call, m + 1) = Live(call, m)
      BY <1>1, <2>1, OneMore
    <2> HIDE DEF n
    <2> QED
      BY <1>1, <2>2
  <1>7. CASE n > 1
    <2>1. h.kind \in {"tmpl", "block"} /\ FrameOK(h) /\ FrameReg(call, m)
      <3>1. m \in 1 .. n
        BY <1>1, <1>7
      <3> QED
        BY <1>1, <1>7, <3>1, TopOf DEF Callers
    <2>2. Saved(h, d, call, m)
      BY <2>1, DoneSaved
    <2>3. call' = Unwound(call, m, d)
      BY <1>1, <1>3, <1>7, BelowTop
    <2> HIDE DEF d
    <2>4. Stacks(stk', call, m)
      BY <1>1, <1>3, <1>5, <1>6, <1>7, ValueLives
    <2>5. Runs(vm'.buffer, call, m) /\ Gives(vm'.data, call, m) /\ vm'.owner = 1
          /\ (IF h.kind = "exec" THEN ModuleOK(vm'.module, call, m)
              ELSE RunsModule(vm'.module, call, m))
      <3>1. n # 1
        BY <1>1, <1>7
      <3> HIDE DEF n, m, h
      <3> QED
        BY <1>4, <1>5, <1>6, <2>1, <3>1
    <2>6. RegOK(Unwound(call, m, d), vm', stk')
      BY <1>1, <1>7, <2>2, <2>4, <2>5, RegPops
    <2> QED
      BY <2>3, <2>6 DEF RegInv
  <1>8. CASE n = 1
    <2>1. call' = <<>> /\ Len(call') = 0
      <3>1. IsSeq(Front(call)) /\ Len(Front(call)) = 0
        BY <1>1, <1>8, TopOf
      <3>2. Front(call) = <<>>
        BY <3>1, EmptyIsSeq
      <3> QED
        BY <1>3, <3>2 DEF Done
    <2>2. Runs(vm'.buffer, call', 0) /\ Gives(vm'.data, call', 0)
      <3>1. m = 0
        BY <1>1, <1>8
      <3>2. vm.buffer = 0 /\ vm.data = 0
        <4>1. Runs(vm.buffer, call, 0) /\ Gives(vm.data, call, 0)
          BY <1>6, <3>1
        <4> QED
          BY <4>1 DEF Runs, Gives
      <3> QED
        BY <1>4, <3>2 DEF Runs, Gives
    <2>3. VmReg(vm', call')
      BY <1>4, <1>5, <1>8, <2>1, <2>2 DEF VmReg
    <2>4. Stacks(stk', call', Len(call'))
      BY <1>3, <1>5, <1>8, StackEmpty
    <2>5. RegOK(call', vm', stk')
      BY <2>1, <2>3, <2>4 DEF RegOK
    <2> QED
      BY <2>5 DEF RegInv
  <1> QED
    BY <1>1, <1>7, <1>8

(* Between executions, all is as vm_init left it.                          *)
LEMMA InitReg ==
    ASSUME Init
    PROVE  RegInv
  <1>1. /\ call = <<>> /\ Len(call) = 0
        /\ vm.buffer = 0 /\ vm.data = 0 /\ vm.owner = 0 /\ vm.module = NoModule
        /\ stk = EmptyStacks
    BY DEF Init
  <1>2. VmReg(vm, call)
    BY <1>1 DEF VmReg, Runs, Gives
  <1>3. Stacks(stk, call, Len(call))
    BY <1>1, StackEmpty
  <1> QED
    BY <1>1, <1>2, <1>3 DEF RegOK, RegInv

(* An error is not taken back: e->num is written only to report another    *)
(* one (handlebars.c:179).                                                 *)
LEMMA ErrorStays ==
    ASSUME error, [Next]_vars
    PROVE  error'
  <1>1. ASSUME NEW s, NEW v, Throw(s, v) PROVE error'
    BY <1>1 DEF Throw
  <1>2. ASSUME NEW what, Fault(what) PROVE error'
    BY <1>2 DEF Fault
  <1>3. ASSUME NEW s, Stacked(s) PROVE error'
    BY <1>3 DEF Stacked
  <1>4. ASSUME NEW s, NEW k, NEW x, PushOrThrow(s, k, x) PROVE error'
    BY <1>1, <1>3, <1>4 DEF PushOrThrow
  <1>5. ASSUME NEW f, NEW s, NEW callee, NEW ctx, Invoke(f, s, callee, ctx) PROVE error'
    BY <1>5 DEF Invoke
  <1>6. ASSUME NEW c, NEW s, NEW g, NEW ctx, NEW newData, NEW blockParams,
               RunProgram(c, s, g, ctx, newData, blockParams)
        PROVE  error'
    BY <1>1, <1>2, <1>6, Zenon DEF RunProgram
  <1>7. CASE GetContext \/ AppendContent \/ AppendValue \/ PushValue \/ PushProgram
             \/ EmptyHash \/ PushHash \/ AssignToHash \/ PopHash
    BY <1>1, <1>3, <1>4, <1>7
       DEF GetContext, AppendContent, AppendValue, PushValue, PushProgram, EmptyHash, PushHash,
           AssignToHash, PopHash
  <1>8. CASE LookupOnContext \/ LookupBlockParam \/ LookupData \/ Unhandled
    BY <1>1, <1>2, <1>4, <1>8 DEF LookupOnContext, LookupBlockParam, LookupData, Unhandled
  <1>9. CASE ResolvePossibleLambda \/ InvokeAmbiguous
    BY <1>1, <1>4, <1>5, <1>9 DEF ResolvePossibleLambda, InvokeAmbiguous
  <1>10. CASE InvokeHelper \/ InvokeKnownHelper
    BY <1>1, <1>5, <1>10 DEF InvokeHelper, InvokeKnownHelper
  <1>11. CASE BlockValue \/ AmbiguousBlockValue
    BY <1>1, <1>3, <1>5, <1>11 DEF BlockValue, AmbiguousBlockValue
  <1>12. CASE InvokePartial
    BY <1>1, <1>3, <1>5, <1>12 DEF InvokePartial
  <1>13. CASE ReturnOpcode \/ HandlerReturns
    BY <1>1, <1>13 DEF ReturnOpcode, HandlerReturns
  <1>14. CASE HelperRuns \/ HelperReturns \/ HelperThrows
    BY <1>1, <1>6, <1>14 DEF HelperRuns, HelperReturns, HelperThrows
  <1>15. CASE BlockRuns \/ BlockReturns
    BY <1>1, <1>2, <1>6, <1>15 DEF BlockRuns, BlockReturns
  <1>16. CASE TemplateRuns \/ TemplateReturns
    BY <1>16 DEF TemplateRuns, TemplateReturns
  <1>17. CASE ExecuteProgram \/ ExecuteReturns \/ Execute
    BY <1>6, <1>17 DEF ExecuteProgram, ExecuteReturns, Execute
  <1>18. CASE UNCHANGED vars
    BY <1>18 DEF vars
  <1> QED
    BY <1>7, <1>8, <1>9, <1>10, <1>11, <1>12, <1>13, <1>14, <1>15, <1>16, <1>17, <1>18
       DEF Next, Step, Finished

(* Every step keeps the registers in order, or leaves an error behind.     *)
LEMMA NextReg ==
    ASSUME CallInv, RegInv, [Next]_vars
    PROVE  RegInv'
  <1>1. CASE error
    BY <1>1, ErrorStays DEF RegInv
  <1>2. CASE ~error
    <2>1. RegOK(call, vm, stk)
      BY <1>2 DEF RegInv
    <2>2. CASE UNCHANGED vars
      BY <2>1, <2>2 DEF vars, RegInv
    <2>3. CASE Execute
      BY <2>1, <2>3, ExecuteReg
    <2>4. CASE Step
      BY <2>1, <2>4, SimpleReg, CallingReg, ReturnReg, HandlerReturnsReg, HelperReg, BlockReg,
         TemplateRunsReg, TemplateReturnsReg, ExecuteProgramReg, ExecuteReturnsReg DEF Step
    <2> QED
      BY <2>2, <2>3, <2>4 DEF Next, Finished
  <1> QED
    BY <1>1, <1>2

(* The innermost of some frames is the largest of their heights.           *)
LEMMA InnermostIsMax ==
    ASSUME NEW T, NEW h,
           \/ h \in T /\ \A y \in T : h >= y
           \/ h = 0 /\ T = {},
           T \subseteq Nat
    PROVE  h = IF T = {} THEN 0 ELSE Max(T)
  <1>1. CASE h \in T /\ \A y \in T : h >= y
    <2>1. \A x \in T : (\A y \in T : x >= y) => x = h
      BY <1>1
    <2> QED
      BY <1>1, <2>1 DEF Max
  <1>2. CASE h = 0 /\ T = {}
    BY <1>2
  <1> QED
    BY <1>1, <1>2

(* Text goes to the buffer of the program that runs, its numbers are       *)
(* looked up in its own module, and its data is what the innermost program *)
(* that was given some was given, until something is thrown: every helper, *)
(* partial, closure and template leaves the registers as it found them     *)
(* (vm.c:1319-1380, 1396-1430).                                             *)
THEOREM RegistersRight == Spec => []RegistersMatch
  <1>1. (CallInv /\ RegInv) => RegistersMatch
    <2> SUFFICES ASSUME CallInv, RegInv, ~error PROVE RegistersMatch
      BY DEF RegistersMatch
    <2> DEFINE n == Len(call)
               progs == Heights("prog")
               givers == {i \in progs : call[i].hasData}
               h == ProgramHeight
    <2>1. VmReg(vm, call) /\ n \in Nat
      BY DEF RegInv, RegOK, CallInv, CallOK, Frames, IsSeq
    <2>2. vm.buffer = h
      <3>1. \/ vm.buffer \in progs /\ \A y \in progs : vm.buffer >= y
            \/ vm.buffer = 0 /\ progs = {}
        BY <2>1 DEF VmReg, Runs, Heights
      <3>2. progs \subseteq Nat
        BY DEF Heights
      <3> HIDE DEF progs
      <3>3. vm.buffer = IF progs = {} THEN 0 ELSE Max(progs)
        BY <3>1, <3>2, InnermostIsMax
      <3> QED
        BY <3>3 DEF ProgramHeight, progs
    <2>3. vm.data = IF givers = {} THEN 0 ELSE Max(givers)
      <3>1. \/ vm.data \in givers /\ \A y \in givers : vm.data >= y
            \/ vm.data = 0 /\ givers = {}
        BY <2>1 DEF VmReg, Gives, Given, Heights
      <3>2. givers \subseteq Nat
        BY DEF Heights
      <3> HIDE DEF givers
      <3> QED
        BY <3>1, <3>2, InnermostIsMax
    <2>4. call = <<>> => vm.module = NoModule /\ vm.owner = 0
      BY <2>1, EmptyIsSeq DEF VmReg
    <2>5. (h > 0 /\ Last(call).kind \in {"prog", "op", "block"}) => vm.module = call[h].module
      <3> SUFFICES ASSUME h > 0, Last(call).kind \in {"prog", "op", "block"}
                   PROVE  vm.module = call[h].module
        OBVIOUS
      <3>1. call # <<>>
        <4>1. progs # {}
          BY DEF ProgramHeight
        <4> QED
          BY <4>1, EmptyIsSeq DEF Heights
      <3>2. RunsModule(vm.module, call, n)
        BY <3>1, RegFacts DEF RegInv
      <3>3. PICK k \in 1 .. n : Runs(k, call, n) /\ vm.module = call[k].module
        BY <3>2 DEF RunsModule
      <3>4. Runs(vm.buffer, call, n)
        BY <2>1 DEF VmReg
      <3>5. k = vm.buffer
        BY <2>1, <3>3, <3>4 DEF Runs
      <3> QED
        BY <2>2, <3>3, <3>5
    <2> QED
      BY <2>2, <2>3, <2>4, <2>5 DEF RegistersMatch
  <1>2. Spec => [](CallInv /\ RegInv)
    <2>1. Init => CallInv /\ RegInv
      BY InitCallInv, InitReg
    <2>2. (CallInv /\ RegInv) /\ [Next]_vars => (CallInv /\ RegInv)'
      BY NextCallInv, NextReg
    <2> QED
      BY <2>1, <2>2, PTL DEF Spec
  <1> QED
    BY <1>1, <1>2, PTL
=============================================================================
