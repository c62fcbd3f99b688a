--------------------------- MODULE VmStackProofs ---------------------------
(***************************************************************************)
(* The stacks of the VM under a running program: what the program and its  *)
(* callers have pushed stays there, whatever is called, returns or throws. *)
(*                                                                         *)
(* A caller is safe when its callee leaves at least what the caller still  *)
(* has on the stacks, so the invariant counts: each program on the call    *)
(* stack has its own operands and hashes (as many as the opcodes in front  *)
(* of its program counter have left, see Operands) above what it began     *)
(* with, also when the programs above it began.  Nothing is asked of error *)
(* here: what longjmp cuts off is above what the caught program counts.    *)
(***************************************************************************)
EXTENDS VmExecProofs

-----------------------------------------------------------------------------
(* How many operands a program has *)

(* Where the programs of a module begin.                                   *)
Firsts(t) == {Modules[t].programs[g].offset + 1 : g \in DOMAIN Modules[t].programs} \cup {1}

(* The equation that Operands solves.                                      *)
Before(t, b, pc) ==
    IF pc \in Firsts(t) THEN [stack |-> 0, hash |-> 0, reached |-> TRUE]
    ELSE LET o == Modules[t].opcodes[pc - 1]
             p == b[pc - 1]
         IN [stack |-> (IF p.stack < Takes(o) THEN 0 ELSE p.stack - Takes(o)) + Leaves(o),
             hash |-> p.hash - HashTakes(o) + HashLeaves(o),
             reached |-> p.reached /\ o.op \notin Ends]

Solves(b, t, n) == b = [pc \in 1 .. n |-> Before(t, b, pc)]

(* It has a solution: the recursion is well founded.                       *)
LEMMA OperandsExist ==
    ASSUME NEW t, NEW n \in Nat
    PROVE  \E b : Solves(b, t, n)
  <1> DEFINE S == {k \in Nat : \E b : Solves(b, t, k)}
  <1>1. 0 \in S
    <2> DEFINE b == [pc \in 1 .. 0 |-> 0]
    <2>1. b = [pc \in 1 .. 0 |-> Before(t, b, pc)]
      OBVIOUS
    <2> HIDE DEF b
    <2> QED
      BY <2>1 DEF Solves
  <1>2. ASSUME NEW k \in Nat, k \in S PROVE k + 1 \in S
    <2>1. PICK b : Solves(b, t, k)
      BY <1>2
    <2> DEFINE y == Before(t, b, k + 1)
               d == [pc \in 1 .. k + 1 |-> IF pc = k + 1 THEN y ELSE b[pc]]
    <2>2. d = [pc \in 1 .. k + 1 |-> d[pc]]
      OBVIOUS
    <2>3. \A pc \in 1 .. k + 1 : d[pc] = IF pc = k + 1 THEN y ELSE b[pc]
      OBVIOUS
    <2>4. \A pc \in 1 .. k : b[pc] = Before(t, b, pc)
      BY <2>1 DEF Solves
    <2> HIDE DEF d, y
    <2>5. ASSUME NEW pc \in 1 .. k + 1 PROVE Before(t, d, pc) = Before(t, b, pc)
      <3>1. CASE pc \in Firsts(t)
        BY <3>1 DEF Before
      <3>2. CASE pc \notin Firsts(t)
        <4>1. pc # 1
          BY <3>2 DEF Firsts
        <4>2. d[pc - 1] = b[pc - 1]
          BY <4>1, <2>3
        <4> QED
          BY <3>2, <4>2 DEF Before
      <3> QED
        BY <3>1, <3>2
    <2>6. \A pc \in 1 .. k + 1 : d[pc] = Before(t, d, pc)
      <3> SUFFICES ASSUME NEW pc \in 1 .. k + 1 PROVE d[pc] = Before(t, d, pc)
        OBVIOUS
      <3>1. CASE pc = k + 1
        BY <2>3, <2>5, <3>1 DEF y
      <3>2. CASE pc # k + 1
        <4>1. pc \in 1 .. k
          BY <3>2
        <4> QED
          BY <2>3, <2>4, <2>5, <3>2, <4>1
      <3> QED
        BY <3>1, <3>2
    <2>7. d = [pc \in 1 .. k + 1 |-> Before(t, d, pc)]
      BY <2>2, <2>6
    <2>8. Solves(d, t, k + 1)
      BY <2>7 DEF Solves
    <2> QED
      BY <2>8
  <1> HIDE DEF S
  <1>3. n \in S
    BY <1>1, <1>2, NatInduct
  <1> QED
    BY <1>3 DEF S

(* Operands solves it.                                                     *)
LEMMA OperandsSolve ==
    ASSUME NEW t \in Templates
    PROVE  /\ Solves(Operands(t), t, Len(Modules[t].opcodes))
           /\ Len(Modules[t].opcodes) \in Nat
           /\ DOMAIN Modules[t].opcodes = 1 .. Len(Modules[t].opcodes)
  <1> DEFINE n == Len(Modules[t].opcodes)
             R(b) == [pc \in 1 .. n |-> Before(t, b, pc)]
             F == CHOOSE b : b = R(b)
  <1>1. n \in Nat /\ DOMAIN Modules[t].opcodes = 1 .. n
    BY ModulesAssumption
  <1>2. Operands(t) = F
    BY <1>1 DEF Operands, Before, Firsts
  <1>3. \E b : b = R(b)
    BY <1>1, OperandsExist DEF Solves
  <1>4. F = R(F)
    BY <1>3
  <1> QED
    BY <1>1, <1>2, <1>4 DEF Solves

(* How many values an opcode takes and leaves are numbers.                 *)
LEMMA TakesTypes ==
    ASSUME NEW t \in Templates, NEW pc \in DOMAIN Modules[t].opcodes
    PROVE  LET o == Modules[t].opcodes[pc]
           IN /\ Takes(o) \in Nat /\ Leaves(o) \in {0, 1}
              /\ HashTakes(o) \in {0, 1} /\ HashLeaves(o) \in {0, 1}
  <1>1. Modules[t].opcodes[pc].op \in {"invoke_helper", "invoke_known_helper"}
          => Modules[t].opcodes[pc].n \in Nat
    BY ModulesAssumption
  <1> QED
    BY <1>1 DEF Takes, Leaves, HashTakes, HashLeaves

(* What Operands says of an opcode and of the next.                        *)
LEMMA OperandFacts ==
    ASSUME NEW t \in Templates, NEW pc \in 1 .. Len(Modules[t].opcodes)
    PROVE  LET o == Modules[t].opcodes[pc]
               own == Operands(t)[pc]
               next == Operands(t)[pc + 1]
           IN /\ own.stack \in Nat /\ own.hash \in Int /\ own.reached \in BOOLEAN
              /\ pc \in Firsts(t) => own.stack = 0 /\ own.hash = 0 /\ own.reached
              /\ own.reached =>
                   /\ o.op \in {"append", "append_escaped"} \/ own.stack >= Takes(o)
                   /\ own.hash >= HashTakes(o)
              /\ (own.reached /\ o.op \notin Ends) =>
                   /\ pc + 1 \in 1 .. Len(Modules[t].opcodes)
                   /\ next.reached
                   /\ next.stack <= (IF own.stack < Takes(o) THEN 0 ELSE own.stack - Takes(o))
                                    + Leaves(o)
                   /\ next.hash <= own.hash - HashTakes(o) + HashLeaves(o)
  <1> DEFINE n == Len(Modules[t].opcodes)
             b == Operands(t)
             o == Modules[t].opcodes[pc]
             Good(p) == p.stack \in Nat /\ p.hash \in Int /\ p.reached \in BOOLEAN
  <1>1. Solves(b, t, n) /\ n \in Nat /\ DOMAIN Modules[t].opcodes = 1 .. n
    BY OperandsSolve
  <1>2. \A k \in 1 .. n : b[k] = Before(t, b, k)
    BY <1>1 DEF Solves
  <1>3. \A k \in 1 .. n :
          /\ Takes(Modules[t].opcodes[k]) \in Nat /\ Leaves(Modules[t].opcodes[k]) \in {0, 1}
          /\ HashTakes(Modules[t].opcodes[k]) \in {0, 1}
          /\ HashLeaves(Modules[t].opcodes[k]) \in {0, 1}
    BY <1>1, TakesTypes
  <1> HIDE DEF b
  <1>4. \A k \in 1 .. n : Good(b[k])
    <2> DEFINE S == {k \in Nat : k \in 1 .. n => Good(b[k])}
    <2>1. 0 \in S
      OBVIOUS
    <2>2. ASSUME NEW k \in Nat, k \in S PROVE k + 1 \in S
      <3> SUFFICES ASSUME k + 1 \in 1 .. n PROVE Good(b[k + 1])
        OBVIOUS
      <3>1. b[k + 1] = Before(t, b, k + 1)
        BY <1>2
      <3>2. CASE k + 1 \in Firsts(t)
        BY <3>1, <3>2 DEF Before
      <3>3. CASE k + 1 \notin Firsts(t)
        <4>1. k \in 1 .. n /\ (k + 1) - 1 = k
          BY <3>3, <1>1 DEF Firsts
        <4>2. Good(b[k])
          BY <2>2, <4>1
        <4> DEFINE q == Modules[t].opcodes[k]
        <4>3. /\ b[k + 1].stack = (IF b[k].stack < Takes(q) THEN 0 ELSE b[k].stack - Takes(q))
                                  + Leaves(q)
              /\ b[k + 1].hash = b[k].hash - HashTakes(q) + HashLeaves(q)
              /\ b[k + 1].reached = (b[k].reached /\ q.op \notin Ends)
          BY <3>1, <3>3, <4>1 DEF Before
        <4>4. Takes(q) \in Nat /\ Leaves(q) \in Nat /\ HashTakes(q) \in Int /\ HashLeaves(q) \in Int
          BY <1>3, <4>1
        <4> HIDE DEF q
        <4>5. b[k + 1].stack \in Nat /\ b[k + 1].hash \in Int
          <5>1. b[k].stack \in Nat /\ b[k].hash \in Int
            BY <4>2
          <5> HIDE DEF Good
          <5> DEFINE x == b[k].stack
                     y == b[k + 1].stack
          <5>2. x \in Nat /\ y = (IF x < Takes(q) THEN 0 ELSE x - Takes(q)) + Leaves(q)
            BY <4>3, <5>1
          <5>3. b[k + 1].hash \in Int
            BY <4>3, <4>4, <5>1
          <5> HIDE DEF x, y
          <5>4. y \in Nat
            BY <4>4, <5>2
          <5> QED
            BY <5>3, <5>4 DEF y
        <4>6. b[k + 1].reached \in BOOLEAN
          BY <4>3, Zenon
        <4> QED
          BY <4>5, <4>6
      <3> QED
        BY <3>2, <3>3
    <2> HIDE DEF S, Good
    <2>3. \A k \in Nat : k \in S
      BY <2>1, <2>2, NatInduct
    <2> QED
      BY <1>1, <2>3 DEF S
  <1>5. Good(b[pc])
    BY <1>4
  <1>6. ASSUME pc \in Firsts(t)
        PROVE  b[pc].stack = 0 /\ b[pc].hash = 0 /\ b[pc].reached
    <2>1. b[pc] = [stack |-> 0, hash |-> 0, reached |-> TRUE]
      BY <1>2, <1>6 DEF Before
    <2> QED
      BY <2>1
  <1>7. b[pc].reached => /\ o.op \in {"append", "append_escaped"} \/ b[pc].stack >= Takes(o)
                         /\ b[pc].hash >= HashTakes(o)
    BY <1>1, OperandsAssumption DEF b
  <1>8. Takes(o) \in Nat /\ Leaves(o) \in {0, 1} /\ HashTakes(o) \in {0, 1} /\ HashLeaves(o) \in {0, 1}
    BY <1>3
  <1>9. ASSUME b[pc].reached, o.op \notin Ends
        PROVE  /\ pc + 1 \in 1 .. n
               /\ b[pc + 1].reached
               /\ b[pc + 1].stack <= (IF b[pc].stack < Takes(o) THEN 0 ELSE b[pc].stack - Takes(o))
                                     + Leaves(o)
               /\ b[pc + 1].hash <= b[pc].hash - HashTakes(o) + HashLeaves(o)
    <2>1. pc # n
      <3>1. Modules[t].opcodes # <<>>
        BY EmptyIsSeq
      <3>2. Modules[t].opcodes[n].op = "return"
        BY <3>1, ModulesAssumption
      <3> QED
        BY <1>9, <3>2 DEF Ends
    <2>2. pc + 1 \in 1 .. n /\ (pc + 1) - 1 = pc
      BY <1>1, <2>1
    <2>3. b[pc + 1] = Before(t, b, pc + 1)
      BY <1>2, <2>2
    <2>4. CASE pc + 1 \in Firsts(t)
      <3>1. b[pc + 1].stack = 0 /\ b[pc + 1].hash = 0 /\ b[pc + 1].reached
        BY <2>3, <2>4 DEF Before
      <3>2. b[pc].hash >= HashTakes(o)
        BY <1>7, <1>9
      <3> HIDE DEF o
      <3> QED
        BY <1>5, <1>8, <2>2, <3>1, <3>2
    <2>5. CASE pc + 1 \notin Firsts(t)
      <3>1. /\ b[pc + 1].stack = (IF b[pc].stack < Takes(o) THEN 0 ELSE b[pc].stack - Takes(o))
                                 + Leaves(o)
            /\ b[pc + 1].hash = b[pc].hash - HashTakes(o) + HashLeaves(o)
            /\ b[pc + 1].reached = (b[pc].reached /\ o.op \notin Ends)
        BY <2>2, <2>3, <2>5 DEF Before
      <3> HIDE DEF o
      <3>2. b[pc + 1].reached
        BY <1>9, <3>1, Zenon
      <3> QED
        BY <1>5, <1>8, <2>2, <3>1, <3>2
    <2> QED
      BY <2>4, <2>5
  <1> QED
    BY <1>5, <1>6, <1>7, <1>9 DEF b

-----------------------------------------------------------------------------
(* What is on the stacks of the programs of a call stack *)

(* u begins with a.                                                        *)
Begins(a, u) == Len(a) <= Len(u) /\ \A k \in 1 .. Len(a) : u[k] = a[k]

Progs(c) == {i \in 1 .. Len(c) : c[i].kind = "prog"}

OpAt(f) == Code(f)[f.pc]
OwnAt(f) == Operands(f.module.tmpl)[f.pc]

(* A handler or a partial's block has pushed a partial block of its own.   *)
Pushed(c, i, kind) == i <= Len(c) /\ c[i].kind = kind /\ c[i].pushed
Count1(yes) == IF yes THEN 1 ELSE 0

(* How many values of its own the program at height i has on the stack k.  *)
(* The handler that waits above it has taken its operands.                 *)
Kept(c, i, k) ==
    CASE k = "stack" -> IF i = Len(c) THEN OwnAt(c[i]).stack
                        ELSE OwnAt(c[i]).stack - Takes(OpAt(c[i]))
      [] k = "hash" -> OwnAt(c[i]).hash
      [] k = "partialBlock" -> Count1(Pushed(c, i + 1, "op")) + Count1(Pushed(c, i + 2, "block"))
      [] OTHER -> 0

(* On u, what the program began with and above it as many values.          *)
Covers(u, c, i, k) ==
    Begins(c[i].at[k], u) /\ Len(c[i].at[k]) + Kept(c, i, k) <= Len(u)

(* No append has taken a caller's operand, or the stack is another one.    *)
Counts(k, od) == k = "stack" => ~od

(* Each program has its values now, and had them when one above it began.  *)
Covered(c, s, od) ==
    \A i \in Progs(c), k \in StackNames :
        Counts(k, od) => /\ Covers(s[k].v, c, i, k)
                         /\ \A j \in Progs(c) : i < j => Covers(c[j].at[k], c, i, k)

(* Opcodes whose handlers wait for what they call.                         *)
CallingOps == {"resolve_possible_lambda", "invoke_ambiguous", "invoke_helper",
               "invoke_known_helper", "block_value", "ambiguous_block_value", "invoke_partial"}

(* What a frame keeps for the stacks' sake, of what is below it.           *)
FrameKept(c, i) ==
    /\ c[i].kind = "prog" =>
         /\ ModuleOK(c[i].module, c, i - 1)
         /\ c[i].pc \in 1 .. Len(Code(c[i]))
         /\ OwnAt(c[i]).reached
         /\ \A k \in StackNames : /\ IsSeq(c[i].at[k]) /\ c[i].count[k] = Len(c[i].at[k])
                                  /\ c[i].protect[k] \in Nat
         /\ \A k \in {"stack", "partialBlock"} : Held(c[i].at[k], c, i - 1)
    /\ c[i].kind = "exec" =>
         /\ i > 1 => ModuleOK(c[i].prevModule, c, i - 1)
         /\ c[i].g \in Nat
         /\ c[i].setup => i = 1
    /\ c[i].kind = "op" =>
         /\ c[i].program \in Int /\ c[i].inverse \in Int
         /\ ValueOK(c[i].value, c, i - 1) /\ ValueOK(c[i].result, c, i - 1)
         /\ c[i].op = OpAt(c[i - 1]).op /\ c[i].op \in CallingOps
    /\ c[i].kind = "block" => BlockOK(c[i].closure, c, i - 1)
    /\ c[i].kind = "tmpl" => c[i].tmpl \in Templates

StackOK(c, v, s, od) ==
    /\ \A i \in 1 .. Len(c) : FrameKept(c, i)
    /\ Len(c) > 0 => ModuleOK(v.module, c, Len(c)) /\ v.owner # 0
    /\ Stacks(s, c, Len(c))
    /\ Covered(c, s, od)

StackInv == app.overdrawn \in BOOLEAN /\ StackOK(call, vm, stk, app.overdrawn)

-----------------------------------------------------------------------------
(* Beginnings *)

LEMMA BeginsSelf ==
    ASSUME NEW a, IsSeq(a)
    PROVE  Begins(a, a)
  BY DEF Begins, IsSeq

LEMMA BeginsThrough ==
    ASSUME NEW a, NEW u, NEW w, IsSeq(a), IsSeq(u), IsSeq(w), Begins(a, u), Begins(u, w)
    PROVE  Begins(a, w)
  BY DEF Begins, IsSeq

(* A sequence goes on when something is appended.                          *)
LEMMA BeginsAppend ==
    ASSUME NEW a, IsSeq(a), NEW x
    PROVE  Begins(a, Append(a, x)) /\ Len(Append(a, x)) = Len(a) + 1
  <1> DEFINE u == Append(a, x)
  <1>1. Len(a) \in Nat /\ Len(u) = Len(a) + 1 /\ \A i \in 1 .. Len(a) : u[i] = a[i]
    BY AppendSeq DEF IsSeq
  <1> HIDE DEF u
  <1>2. Begins(a, u) /\ Len(u) = Len(a) + 1
    BY <1>1 DEF Begins
  <1> QED
    BY <1>2 DEF u

(* What is cut off is above the beginning.                                 *)
LEMMA BeginsCut ==
    ASSUME NEW a, NEW u, IsSeq(a), IsSeq(u), Begins(a, u), NEW m \in 0 .. Len(u), m >= Len(a)
    PROVE  /\ Begins(a, SubSeq(u, 1, m)) /\ IsSeq(SubSeq(u, 1, m)) /\ Len(SubSeq(u, 1, m)) = m
           /\ m = Len(a) => SubSeq(u, 1, m) = a
  <1> DEFINE w == SubSeq(u, 1, m)
  <1>1. /\ Len(a) \in Nat /\ Len(u) \in Nat /\ IsSeq(w) /\ Len(w) = m
        /\ \A i \in 1 .. m : w[i] = u[i]
    BY PrefixSeq DEF IsSeq
  <1> HIDE DEF w
  <1>2. Begins(a, w)
    BY <1>1 DEF Begins
  <1>3. m = Len(a) => w = a
    <2> SUFFICES ASSUME m = Len(a) PROVE w = a
      OBVIOUS
    <2>1. \A i \in 1 .. Len(w) : w[i] = a[i]
      BY <1>1, <1>2 DEF Begins
    <2> QED
      BY <1>1, <2>1, EqualSeq
  <1> QED
    BY <1>1, <1>2, <1>3 DEF w

(* It is a prefix.                                                         *)
LEMMA BeginsPrefix ==
    ASSUME NEW a, NEW u, IsSeq(a), IsSeq(u), Begins(a, u)
    PROVE  IsPrefix(a, u)
  <1>1. Len(a) \in Nat /\ Len(u) \in Nat /\ Len(a) <= Len(u)
    BY DEF IsSeq, Begins
  <1>2. SubSeq(u, 1, Len(a)) = a
    BY <1>1, BeginsCut
  <1>3. SubSeq(a, 1, Len(a)) = a
    BY <1>1, BeginsSelf, BeginsCut
  <1> QED
    BY <1>1, <1>2, <1>3 DEF IsPrefix

-----------------------------------------------------------------------------
(* Frames and the stacks under them *)

(* Between two programs there is at least what the lower one called.       *)
LEMMA ProgramsApart ==
    ASSUME NEW c, NEW base, NEW err, Frames(c, base, err), NEW i \in Progs(c), NEW h \in Progs(c),
           i < h
    PROVE  i + 2 <= h
  <1>1. h \in 1 .. Len(c) /\ h # 1 /\ c[h].kind = "prog" /\ i \in Nat /\ c[i].kind = "prog"
    BY DEF Progs
  <1>2. c[h - 1].kind \in Callers(c[h].kind)
    BY <1>1 DEF Frames, Nested
  <1>3. i # h - 1
    BY <1>1, <1>2 DEF Callers
  <1> QED
    BY <1>1, <1>3

(* What a frame keeps is a matter of the frames below it.                  *)
LEMMA FrameKeptSame ==
    ASSUME NEW c, NEW d, NEW i \in Nat \ {0}, \A y \in 1 .. i : d[y] = c[y], FrameKept(c, i),
           i = 1 => c[i].kind = "exec"
    PROVE  FrameKept(d, i)
  <1>1. i - 1 \in Nat /\ i \in 1 .. i /\ d[i] = c[i] /\ (i # 1 => d[i - 1] = c[i - 1])
    OBVIOUS
  <1>2. Seen(c, d, i - 1)
    BY <1>1 DEF Seen
  <1>3. /\ \A x : ModuleOK(x, c, i - 1) => ModuleOK(x, d, i - 1)
        /\ \A x : BlockOK(x, c, i - 1) => BlockOK(x, d, i - 1)
        /\ \A x : ValueOK(x, c, i - 1) => ValueOK(x, d, i - 1)
    BY <1>1, <1>2, SeenRuns, ValueLives
  <1>4. CASE i = 1
    BY <1>1, <1>4 DEF FrameKept
  <1>5. CASE i # 1
    <2>1. d[i] = c[i] /\ d[i - 1] = c[i - 1]
      BY <1>1, <1>5
    <2>2. c[i].kind = "prog" =>
            /\ ModuleOK(c[i].module, d, i - 1)
            /\ \A k \in {"stack", "partialBlock"} : Held(c[i].at[k], d, i - 1)
      BY <1>3 DEF FrameKept, Held
    <2>3. c[i].kind = "exec" => (i > 1 => ModuleOK(c[i].prevModule, d, i - 1))
      BY <1>3 DEF FrameKept
    <2>4. /\ c[i].kind = "op" => ValueOK(c[i].value, d, i - 1) /\ ValueOK(c[i].result, d, i - 1)
          /\ c[i].kind = "block" => BlockOK(c[i].closure, d, i - 1)
      BY <1>3 DEF FrameKept
    <2> QED
      BY <2>1, <2>2, <2>3, <2>4 DEF FrameKept
  <1> QED
    BY <1>4, <1>5

(* The frame g is f, some steps later, at height m of c.                   *)
Later(f, g, c, m) ==
    /\ g.kind = f.kind
    /\ f.kind = "prog" =>
         /\ g.module = f.module /\ g.at = f.at /\ g.count = f.count /\ g.protect = f.protect
         /\ g.pc \in 1 .. Len(Code(f)) /\ OwnAt(g).reached
    /\ f.kind = "exec" => g.setup = f.setup /\ g.prevModule = f.prevModule /\ g.g = f.g
    /\ f.kind = "op" =>
         /\ g.program = f.program /\ g.inverse = f.inverse /\ g.value = f.value /\ g.op = f.op
         /\ ValueOK(g.result, c, m - 1)
    /\ f.kind = "block" => g.closure = f.closure
    /\ f.kind = "tmpl" => g.tmpl = f.tmpl

(* The frame at the top goes on.                                           *)
LEMMA TopKept ==
    ASSUME NEW c, NEW d, NEW m \in Nat \ {0}, \A i \in 1 .. m : FrameKept(c, i),
           c[1].kind = "exec", \A y \in 1 .. m : y < m => d[y] = c[y],
           Later(c[m], d[m], c, m)
    PROVE  \A i \in 1 .. m : FrameKept(d, i)
  <1>1. \A i \in 1 .. m : i < m => FrameKept(d, i)
    <2> SUFFICES ASSUME NEW i \in 1 .. m, i < m PROVE FrameKept(d, i)
      OBVIOUS
    <2>1. i \in Nat \ {0} /\ FrameKept(c, i) /\ \A y \in 1 .. i : d[y] = c[y]
      OBVIOUS
    <2>2. i = 1 => c[i].kind = "exec"
      OBVIOUS
    <2> QED
      BY <2>1, <2>2, FrameKeptSame
  <1>2. FrameKept(d, m)
    <2>1. m - 1 \in Nat /\ FrameKept(c, m) /\ (m # 1 => d[m - 1] = c[m - 1])
      OBVIOUS
    <2>2. Seen(c, d, m - 1)
      BY DEF Seen
    <2>3. /\ \A x : ModuleOK(x, c, m - 1) => ModuleOK(x, d, m - 1)
          /\ \A x : BlockOK(x, c, m - 1) => BlockOK(x, d, m - 1)
          /\ \A x : ValueOK(x, c, m - 1) => ValueOK(x, d, m - 1)
      BY <2>1, <2>2, SeenRuns, ValueLives
    <2>4. CASE c[m].kind = "prog"
      <3>1. /\ d[m].kind = "prog" /\ d[m].module = c[m].module /\ d[m].at = c[m].at
            /\ d[m].count = c[m].count /\ d[m].protect = c[m].protect
            /\ d[m].pc \in 1 .. Len(Code(d[m])) /\ OwnAt(d[m]).reached
        BY <2>4 DEF Later, Code
      <3>2. /\ ModuleOK(c[m].module, d, m - 1)
            /\ \A k \in StackNames : /\ IsSeq(c[m].at[k]) /\ c[m].count[k] = Len(c[m].at[k])
                                     /\ c[m].protect[k] \in Nat
            /\ \A k \in {"stack", "partialBlock"} : Held(c[m].at[k], d, m - 1)
        BY <2>1, <2>3, <2>4 DEF FrameKept, Held
      <3> QED
        BY <3>1, <3>2 DEF FrameKept
    <2>5. CASE c[m].kind = "exec"
      BY <2>1, <2>3, <2>5 DEF FrameKept, Later
    <2>6. CASE c[m].kind = "op"
      <3>1. /\ d[m].kind = "op" /\ d[m].program = c[m].program /\ d[m].inverse = c[m].inverse
            /\ d[m].value = c[m].value /\ d[m].op = c[m].op /\ ValueOK(d[m].result, d, m - 1)
        BY <2>3, <2>6 DEF Later
      <3>2. m # 1
        BY <2>6
      <3>3. /\ c[m].program \in Int /\ c[m].inverse \in Int /\ ValueOK(c[m].value, d, m - 1)
            /\ c[m].op = OpAt(d[m - 1]).op /\ c[m].op \in CallingOps
        BY <2>1, <2>3, <2>6, <3>2 DEF FrameKept
      <3> QED
        BY <3>1, <3>3 DEF FrameKept
    <2>7. CASE c[m].kind = "block"
      BY <2>1, <2>3, <2>7 DEF FrameKept, Later
    <2>8. CASE c[m].kind = "tmpl"
      BY <2>1, <2>8 DEF FrameKept, Later
    <2>9. CASE c[m].kind \notin Kinds
      BY <2>9 DEF FrameKept, Later, Kinds
    <2> QED
      BY <2>4, <2>5, <2>6, <2>7, <2>8, <2>9 DEF Kinds
  <1>3. \A i \in 1 .. m : i < m \/ i = m
    OBVIOUS
  <1> QED
    BY <1>1, <1>2, <1>3

(* A frame is pushed.                                                      *)
LEMMA PushKept ==
    ASSUME NEW c, NEW d, NEW n \in Nat, \A i \in 1 .. n : FrameKept(c, i),
           n > 0 => c[1].kind = "exec", \A y \in 1 .. n : d[y] = c[y], FrameKept(d, n + 1)
    PROVE  \A i \in 1 .. n + 1 : FrameKept(d, i)
  <1> SUFFICES ASSUME NEW i \in 1 .. n + 1 PROVE FrameKept(d, i)
    OBVIOUS
  <1>1. CASE i = n + 1
    BY <1>1
  <1>2. CASE i \in 1 .. n
    <2>1. i \in Nat \ {0} /\ FrameKept(c, i) /\ \A y \in 1 .. i : d[y] = c[y]
      BY <1>2
    <2>2. i = 1 => c[i].kind = "exec"
      BY <1>2
    <2> QED
      BY <2>1, <2>2, FrameKeptSame
  <1> QED
    BY <1>1, <1>2

(* A program keeps what it has while the frames above it come and go, but  *)
(* for the partial blocks of the two frames above it.                      *)
LEMMA KeptSame ==
    ASSUME NEW c, NEW d, Len(c) \in Nat, Len(d) \in Nat, NEW h \in Nat, h <= Len(c), h <= Len(d),
           \A y \in 1 .. h : y < h => d[y] = c[y], d[h].kind \notin {"op", "block"},
           c[h].kind \notin {"op", "block"},
           NEW i \in 1 .. h, i + 2 <= h, NEW k
    PROVE  Kept(d, i, k) = Kept(c, i, k)
  <1>1. i # Len(c) /\ i # Len(d) /\ d[i] = c[i]
    OBVIOUS
  <1>2. i + 1 \in 1 .. h /\ i + 1 < h /\ d[i + 1] = c[i + 1]
    OBVIOUS
  <1>3. Pushed(d, i + 1, "op") <=> Pushed(c, i + 1, "op")
    BY <1>2 DEF Pushed
  <1>4. Pushed(d, i + 2, "block") <=> Pushed(c, i + 2, "block")
    <2>1. CASE i + 2 = h
      BY <2>1 DEF Pushed
    <2>2. CASE i + 2 < h
      <3>1. i + 2 \in 1 .. h /\ d[i + 2] = c[i + 2]
        BY <2>2
      <3> QED
        BY <2>2, <3>1 DEF Pushed
    <2> QED
      BY <2>1, <2>2
  <1>5. /\ Count1(Pushed(d, i + 1, "op")) = Count1(Pushed(c, i + 1, "op"))
        /\ Count1(Pushed(d, i + 2, "block")) = Count1(Pushed(c, i + 2, "block"))
    BY <1>3, <1>4 DEF Count1
  <1> QED
    BY <1>1, <1>5 DEF Kept

(* It is a number.                                                         *)
LEMMA KeptInt ==
    ASSUME NEW c, NEW i, c[i].kind = "prog", FrameKept(c, i), NEW k
    PROVE  /\ Kept(c, i, k) \in Int /\ OwnAt(c[i]).stack \in Nat /\ Takes(OpAt(c[i])) \in Nat
           /\ OwnAt(c[i]).hash \in Nat
  <1> DEFINE t == c[i].module.tmpl
             pc == c[i].pc
  <1>1. t \in Templates /\ pc \in 1 .. Len(Modules[t].opcodes) /\ OwnAt(c[i]).reached
    BY DEF FrameKept, ModuleOK, Code, ModuleOf
  <1>2. OwnAt(c[i]) = Operands(t)[pc] /\ OpAt(c[i]) = Modules[t].opcodes[pc]
    BY DEF OwnAt, OpAt, Code, ModuleOf
  <1> HIDE DEF t, pc
  <1>3. pc \in DOMAIN Modules[t].opcodes
    BY <1>1, OperandsSolve
  <1>4. OwnAt(c[i]).stack \in Nat /\ OwnAt(c[i]).hash \in Int
    BY <1>1, <1>2, OperandFacts
  <1>5. Takes(OpAt(c[i])) \in Nat /\ HashTakes(OpAt(c[i])) \in {0, 1}
    BY <1>1, <1>2, <1>3, TakesTypes
  <1>6. OwnAt(c[i]).hash >= HashTakes(OpAt(c[i]))
    BY <1>1, <1>2, OperandFacts
  <1>7. \A x : Count1(x) \in Int
    BY DEF Count1
  <1> QED
    BY <1>4, <1>5, <1>6, <1>7 DEF Kept

(* d has the lowest m frames of c, but for what the frame m is doing, and  *)
(* no program above them.                                                  *)
SamePrograms(c, d, m) ==
    /\ m \in 0 .. Len(c) /\ Len(d) \in Nat /\ m <= Len(d)
    /\ \A y \in 1 .. m : y < m => d[y] = c[y]
    /\ m > 0 => d[m].kind = c[m].kind /\ (c[m].kind = "prog" => d[m].at = c[m].at)
    /\ \A y \in 1 .. Len(d) : y > m => d[y].kind # "prog"

(* Frames come and go above the innermost program: the stacks are to cover *)
(* that one, then they cover those below it too.                           *)
LEMMA OldPrograms ==
    ASSUME NEW c, Len(c) \in Nat, NEW h \in Progs(c), NEW d, SamePrograms(c, d, h),
           \A i \in Progs(c) : i < h => i + 2 <= h,
           \A i \in Progs(c) : FrameKept(c, i),
           NEW s, NEW od \in BOOLEAN, Covered(c, s, od),
           NEW t, \A k \in StackNames : IsSeq(t[k].v), NEW od2 \in BOOLEAN, od => od2,
           \A k \in StackNames : Counts(k, od2) => Covers(t[k].v, d, h, k)
    PROVE  Covered(d, t, od2)
  <1>0. /\ h \in Nat \ {0} /\ h <= Len(c) /\ c[h].kind = "prog"
        /\ Len(d) \in Nat /\ h <= Len(d) /\ d[h].kind = "prog" /\ d[h].at = c[h].at
        /\ \A y \in 1 .. h : y < h => d[y] = c[y]
        /\ \A i \in Progs(d) : i <= h
    BY DEF SamePrograms, Progs
  <1>1. h \in Progs(c) /\ h \in Progs(d)
    BY <1>0 DEF Progs
  <1> SUFFICES ASSUME NEW i \in Progs(d), NEW k \in StackNames, Counts(k, od2)
               PROVE  /\ Covers(t[k].v, d, i, k)
                      /\ \A j \in Progs(d) : i < j => Covers(d[j].at[k], d, i, k)
    BY DEF Covered
  <1>2. Counts(k, od)
    BY DEF Counts
  <1>3. i \in 1 .. h /\ i \in Nat /\ d[i].kind = "prog"
    BY <1>0 DEF Progs
  <1>4. \A j \in Progs(d) : j \in 1 .. h /\ j \in Progs(c) /\ d[j].at = c[j].at
    <2> SUFFICES ASSUME NEW j \in Progs(d) PROVE j \in 1 .. h /\ j \in Progs(c) /\ d[j].at = c[j].at
      OBVIOUS
    <2>1. j \in 1 .. h /\ d[j].kind = "prog"
      BY <1>0 DEF Progs
    <2>2. j = h \/ d[j] = c[j]
      BY <1>0, <2>1
    <2> QED
      BY <1>0, <2>1, <2>2 DEF Progs
  <1>5. CASE i = h
    <2>1. \A j \in Progs(d) : ~(i < j)
      BY <1>4, <1>5
    <2> QED
      BY <1>5, <2>1
  <1>6. CASE i # h
    <2>1. i < h /\ i \in Progs(c) /\ d[i] = c[i] /\ i + 2 <= h
      BY <1>0, <1>3, <1>4, <1>6
    <2>2. Kept(d, i, k) = Kept(c, i, k)
      BY <1>0, <1>3, <2>1, KeptSame
    <2>3. \A j \in Progs(c) : i < j => Covers(c[j].at[k], c, i, k)
      BY <1>2, <2>1 DEF Covered
    <2>4. \A j \in Progs(d) : i < j => Covers(d[j].at[k], d, i, k)
      BY <1>4, <2>1, <2>2, <2>3 DEF Covers
    <2>5. Covers(d[h].at[k], d, i, k) /\ Covers(t[k].v, d, h, k)
      BY <1>1, <2>1, <2>4
    <2>6. IsSeq(d[i].at[k]) /\ IsSeq(d[h].at[k]) /\ IsSeq(t[k].v) /\ Kept(d, i, k) \in Int
      <3>1. /\ FrameKept(c, i) /\ c[i].kind = "prog" /\ FrameKept(c, h) /\ c[h].kind = "prog"
            /\ d[i].at = c[i].at
        BY <1>0, <1>1, <1>3, <2>1, Zenon
      <3>2. IsSeq(c[i].at[k]) /\ IsSeq(c[h].at[k])
        BY <3>1 DEF FrameKept
      <3>3. Kept(c, i, k) \in Int
        BY <3>1, KeptInt
      <3>4. d[h].at = c[h].at
        BY <1>0
      <3> QED
        BY <2>2, <3>1, <3>2, <3>3, <3>4
    <2>7. Begins(d[i].at[k], t[k].v)
      BY <2>5, <2>6, BeginsThrough DEF Covers
    <2>8. Len(d[i].at[k]) + Kept(d, i, k) <= Len(t[k].v)
      <3> DEFINE x == Len(d[i].at[k])
                 y == Len(d[h].at[k])
                 z == Len(t[k].v)
                 e == Kept(d, i, k)
      <3>1. x + e <= y
        BY <2>5 DEF Covers
      <3>2. y <= z
        BY <2>5 DEF Covers, Begins
      <3>3. x \in Nat /\ y \in Nat /\ z \in Nat /\ e \in Int
        BY <2>6 DEF IsSeq
      <3> HIDE DEF x, y, z, e
      <3>4. x + e <= z
        BY <3>1, <3>2, <3>3
      <3> QED
        BY <3>4 DEF x, z, e
    <2> QED
      BY <2>4, <2>7, <2>8 DEF Covers
  <1> QED
    BY <1>5, <1>6

(* Without programs there is nothing to cover.                             *)
LEMMA NoPrograms ==
    ASSUME NEW d, Progs(d) = {}, NEW t, NEW od
    PROVE  Covered(d, t, od)
  BY DEF Covered

(* The innermost program of the lowest frames, if there is one.            *)
LEMMA RunsSome ==
    ASSUME NEW c, NEW n \in Nat
    PROVE  \E h : Runs(h, c, n)
  <1> DEFINE S == {m \in Nat : \E h : Runs(h, c, m)}
  <1>1. 0 \in S
    <2>1. Runs(0, c, 0)
      BY DEF Runs
    <2> QED
      BY <2>1
  <1>2. ASSUME NEW m \in Nat, m \in S PROVE m + 1 \in S
    <2>1. PICK h : Runs(h, c, m)
      BY <1>2
    <2>2. \E x : Runs(x, c, m + 1)
      BY <2>1, OneMore
    <2> QED
      BY <2>2
  <1> HIDE DEF S
  <1>3. n \in S
    BY <1>1, <1>2, NatInduct
  <1> QED
    BY <1>3 DEF S

(* The stacks t have what the innermost of these programs has in d.        *)
InnermostHas(t, c, d, m, od) ==
    \A h \in 1 .. m : \A k \in StackNames :
        (Runs(h, c, m) /\ Counts(k, od)) => Covers(t[k].v, d, h, k)

(* What OldPrograms asks for, of the innermost program.                    *)
LEMMA InnermostCovers ==
    ASSUME NEW c, NEW base, NEW err, Frames(c, base, err), \A i \in 1 .. Len(c) : FrameKept(c, i),
           NEW m, NEW d, SamePrograms(c, d, m),
           NEW s, NEW od \in BOOLEAN, Covered(c, s, od),
           NEW t, \A k \in StackNames : IsSeq(t[k].v), NEW od2 \in BOOLEAN, od => od2, InnermostHas(t, c, d, m, od2)
    PROVE  Covered(d, t, od2)
  <1>0. /\ m \in 0 .. Len(c) /\ Len(d) \in Nat /\ m <= Len(d)
        /\ \A y \in 1 .. m : y < m => d[y] = c[y]
        /\ m > 0 => d[m].kind = c[m].kind /\ (c[m].kind = "prog" => d[m].at = c[m].at)
        /\ \A y \in 1 .. Len(d) : y > m => d[y].kind # "prog"
    BY DEF SamePrograms
  <1>1. Len(c) \in Nat /\ m \in Nat
    BY <1>0 DEF Frames, IsSeq
  <1>2. PICK h : Runs(h, c, m)
    BY <1>1, RunsSome
  <1>3. \A y \in 1 .. m : d[y].kind = c[y].kind
    BY <1>0, <1>1
  <1>4. CASE h = 0
    <2>1. \A y \in 1 .. m : c[y].kind # "prog"
      BY <1>2, <1>4 DEF Runs
    <2>2. Progs(d) = {}
      <3>1. \A y \in 1 .. Len(d) : y \in 1 .. m \/ y > m
        BY <1>1
      <3> QED
        BY <1>0, <1>3, <2>1, <3>1 DEF Progs
    <2> QED
      BY <2>2, NoPrograms
  <1>5. CASE h # 0
    <2>1. h \in 1 .. m /\ c[h].kind = "prog" /\ \A y \in 1 .. m : y > h => c[y].kind # "prog"
      BY <1>2, <1>5 DEF Runs
    <2>2. h \in Progs(c)
      BY <1>0, <1>1, <2>1 DEF Progs
    <2>3. SamePrograms(c, d, h)
      <3>1. h \in 0 .. Len(c) /\ h <= Len(d)
        BY <1>0, <1>1, <2>1
      <3>2. \A y \in 1 .. h : y < h => d[y] = c[y]
        BY <1>0, <1>1, <2>1
      <3>3. d[h].kind = c[h].kind /\ d[h].at = c[h].at
        <4>1. h = m \/ h < m
          BY <1>1, <2>1
        <4> QED
          BY <1>0, <1>1, <2>1, <4>1
      <3>4. ASSUME NEW y \in 1 .. Len(d), y > h PROVE d[y].kind # "prog"
        <4>1. CASE y > m
          BY <1>0, <4>1
        <4>2. CASE ~(y > m)
          <5>1. y \in 1 .. m
            BY <1>0, <1>1, <4>2
          <5> QED
            BY <1>3, <2>1, <3>4, <5>1
        <4> QED
          BY <4>1, <4>2
      <3> QED
        BY <1>0, <3>1, <3>2, <3>3, <3>4 DEF SamePrograms
    <2>4. \A i \in Progs(c) : i < h => i + 2 <= h
      BY <2>2, ProgramsApart
    <2>5. \A i \in Progs(c) : FrameKept(c, i)
      BY DEF Progs
    <2>6. \A k \in StackNames : Counts(k, od2) => Covers(t[k].v, d, h, k)
      BY <1>2, <2>1 DEF InnermostHas
    <2> QED
      BY <1>1, <2>2, <2>3, <2>4, <2>5, <2>6, OldPrograms
  <1> QED
    BY <1>4, <1>5

(* The call stack is unwound to its frame m, which goes on.                *)
LEMMA UnwindStack ==
    ASSUME NEW c, NEW base, NEW err, Frames(c, base, err), NEW v, NEW s,
           NEW od \in BOOLEAN,
           StackOK(c, v, s, od), NEW m \in 1 .. Len(c), NEW d, Len(d) = m,
           \A y \in 1 .. m : y < m => d[y] = c[y], Later(c[m], d[m], c, m),
           NEW w, ModuleOK(w.module, c, m), w.owner # 0, NEW t, Stacks(t, c, m),
           NEW od2 \in BOOLEAN, od => od2, InnermostHas(t, c, d, m, od2)
    PROVE  StackOK(d, w, t, od2)
  <1>1. Len(c) \in Nat /\ m \in Nat \ {0} /\ m \in 0 .. Len(c) /\ c[1].kind = "exec"
    BY DEF Frames, IsSeq, Nested
  <1>2. \A i \in 1 .. Len(c) : FrameKept(c, i)
    BY DEF StackOK
  <1>3. \A i \in 1 .. m : FrameKept(d, i)
    <2>1. \A i \in 1 .. m : FrameKept(c, i)
      BY <1>1, <1>2
    <2> QED
      BY <1>1, <2>1, TopKept
  <1>4. d[m].kind = c[m].kind /\ (c[m].kind = "prog" => d[m].at = c[m].at)
    BY DEF Later
  <1>5. Live(d, m) = Live(c, m)
    <2>1. \A y \in 1 .. m : d[y].kind = c[y].kind
      BY <1>1, <1>4
    <2> QED
      BY <2>1 DEF Live
  <1>6. ModuleOK(w.module, d, m) /\ Stacks(t, d, m)
    BY <1>5, ValueLives
  <1>7. \A k \in StackNames : IsSeq(t[k].v)
    BY DEF Stacks
  <1>8. Covered(d, t, od2)
    <2>1. Covered(c, s, od)
      BY DEF StackOK
    <2>2. SamePrograms(c, d, m)
      BY <1>1, <1>4 DEF SamePrograms
    <2> QED
      BY <1>2, <1>7, <2>1, <2>2, InnermostCovers
  <1> QED
    BY <1>3, <1>6, <1>8 DEF StackOK

(* A frame is pushed that is not a program's.                              *)
LEMMA GrowStack ==
    ASSUME NEW c, NEW base, NEW err, Frames(c, base, err), NEW v, NEW s,
           NEW od \in BOOLEAN,
           StackOK(c, v, s, od), NEW d, Len(d) = Len(c) + 1,
           \A y \in 1 .. Len(c) : d[y] = c[y], d[Len(d)].kind # "prog", FrameKept(d, Len(d)),
           NEW w, ModuleOK(w.module, d, Len(d)), w.owner # 0, NEW t, Stacks(t, c, Len(c)),
           InnermostHas(t, c, d, Len(c), od)
    PROVE  StackOK(d, w, t, od)
  <1> DEFINE n == Len(c)
  <1>1. n \in Nat /\ n \in 0 .. n /\ (n > 0 => c[1].kind = "exec")
    <2>1. n \in Nat
      BY DEF Frames, IsSeq
    <2>2. n > 0 => 1 \in 1 .. Len(c)
      BY <2>1
    <2> QED
      BY <2>1, <2>2 DEF Frames, Nested
  <1>2. \A i \in 1 .. n : FrameKept(c, i)
    BY DEF StackOK
  <1>3. \A i \in 1 .. n + 1 : FrameKept(d, i)
    BY <1>1, <1>2, PushKept
  <1>4. Live(c, n) \subseteq Live(d, n + 1)
    BY <1>1 DEF Live
  <1>5. Stacks(t, d, n + 1)
    BY <1>4, ValueLives
  <1>6. \A k \in StackNames : IsSeq(t[k].v)
    BY DEF Stacks
  <1>7. Covered(d, t, od)
    <2>1. Covered(c, s, od)
      BY DEF StackOK
    <2>2. Len(d) \in Nat /\ n <= Len(d) /\ \A y \in 1 .. Len(d) : y > n => d[y].kind # "prog"
      <3>1. \A y \in 1 .. Len(d) : y > n => y = Len(d)
        BY <1>1
      <3> QED
        BY <1>1, <3>1
    <2>3. /\ \A y \in 1 .. n : y < n => d[y] = c[y]
          /\ n > 0 => d[n].kind = c[n].kind /\ (c[n].kind = "prog" => d[n].at = c[n].at)
      BY <1>1
    <2>4. SamePrograms(c, d, n)
      BY <1>1, <2>2, <2>3 DEF SamePrograms
    <2> QED
      BY <1>2, <1>6, <2>1, <2>4, InnermostCovers
  <1> QED
    BY <1>3, <1>5, <1>7 DEF StackOK

(* A program is pushed: it begins with what is on the stacks.              *)
LEMMA NewProgram ==
    ASSUME NEW c, NEW base, NEW err, Frames(c, base, err), NEW v, NEW s,
           NEW od \in BOOLEAN,
           StackOK(c, v, s, od), NEW d, Len(d) = Len(c) + 1, Len(c) > 0,
           c[Len(c)].kind # "prog",
           \A y \in 1 .. Len(c) : d[y] = c[y], d[Len(d)].kind = "prog", FrameKept(d, Len(d)),
           \A k \in StackNames : d[Len(d)].at[k] = s[k].v,
           OwnAt(d[Len(d)]).stack = 0, OwnAt(d[Len(d)]).hash = 0,
           NEW w, ModuleOK(w.module, c, Len(c)), w.owner # 0, NEW t, Stacks(t, c, Len(c)),
           \A k \in StackNames : Begins(s[k].v, t[k].v)
    PROVE  StackOK(d, w, t, od)
  <1> DEFINE n == Len(c)
  <1>1. n \in Nat /\ n \in 0 .. n /\ c[1].kind = "exec"
    <2>1. n \in Nat /\ 1 \in 1 .. Len(c)
      BY DEF Frames, IsSeq
    <2> QED
      BY <2>1 DEF Frames, Nested
  <1>2. \A i \in 1 .. n : FrameKept(c, i)
    BY DEF StackOK
  <1>3. \A i \in 1 .. n + 1 : FrameKept(d, i)
    BY <1>1, <1>2, PushKept
  <1>4. Live(c, n) \subseteq Live(d, n + 1)
    BY <1>1 DEF Live
  <1>5. Stacks(t, d, n + 1) /\ ModuleOK(w.module, d, n + 1)
    BY <1>4, ValueLives
  <1>6. \A k \in StackNames : IsSeq(t[k].v) /\ IsSeq(s[k].v)
    BY DEF Stacks, StackOK
  <1>7. Covered(d, t, od)
    <2> SUFFICES ASSUME NEW i \in Progs(d), NEW k \in StackNames, Counts(k, od)
                 PROVE  /\ Covers(t[k].v, d, i, k)
                        /\ \A j \in Progs(d) : i < j => Covers(d[j].at[k], d, i, k)
      BY DEF Covered
    <2>1. i \in 1 .. n + 1 /\ d[i].kind = "prog" /\ i \in Nat
      BY DEF Progs
    <2>2. CASE i = n + 1
      <3>1. Kept(d, i, k) = 0
        <4>1. ~Pushed(d, i + 1, "op") /\ ~Pushed(d, i + 2, "block")
          BY <1>1, <2>2 DEF Pushed
        <4> QED
          BY <2>2, <4>1 DEF Kept, Count1
      <3>2. Begins(d[i].at[k], t[k].v) /\ Len(d[i].at[k]) \in Nat
        BY <1>6, <2>2 DEF IsSeq
      <3>3. \A j \in Progs(d) : ~(i < j)
        BY <1>1, <2>2 DEF Progs
      <3> QED
        BY <3>1, <3>2, <3>3 DEF Covers, Begins
    <2>3. CASE i # n + 1
      <3>1. i \in 1 .. n /\ d[i] = c[i] /\ i \in Progs(c) /\ i < n
        BY <1>1, <2>1, <2>3 DEF Progs
      <3>2. Kept(d, i, k) = Kept(c, i, k)
        <4>1. Pushed(d, i + 1, "op") <=> Pushed(c, i + 1, "op")
          BY <1>1, <3>1 DEF Pushed
        <4>2. Pushed(d, i + 2, "block") <=> Pushed(c, i + 2, "block")
          <5>1. CASE i + 2 = n + 1
            BY <1>1, <5>1 DEF Pushed
          <5>2. CASE i + 2 # n + 1
            <6>1. i + 2 \in 1 .. n
              BY <1>1, <3>1, <5>2
            <6> QED
              BY <1>1, <6>1 DEF Pushed
          <5> QED
            BY <5>1, <5>2
        <4>3. /\ Count1(Pushed(d, i + 1, "op")) = Count1(Pushed(c, i + 1, "op"))
              /\ Count1(Pushed(d, i + 2, "block")) = Count1(Pushed(c, i + 2, "block"))
          BY <4>1, <4>2 DEF Count1
        <4>4. i # Len(c) /\ i # Len(d)
          BY <1>1, <3>1
        <4> QED
          BY <3>1, <4>3, <4>4 DEF Kept
      <3>3. /\ Covers(s[k].v, c, i, k)
            /\ \A j \in Progs(c) : i < j => Covers(c[j].at[k], c, i, k)
        BY <3>1 DEF Covered, StackOK
      <3>4. FrameKept(c, i) /\ c[i].kind = "prog"
        BY <1>2, <2>1, <3>1
      <3>5. IsSeq(c[i].at[k]) /\ Kept(c, i, k) \in Int
        BY <3>4, KeptInt DEF FrameKept
      <3>6. Covers(s[k].v, d, i, k)
        BY <3>1, <3>2, <3>3 DEF Covers
      <3>7. Covers(t[k].v, d, i, k)
        <4>1. Begins(d[i].at[k], t[k].v)
          BY <1>6, <3>1, <3>3, <3>5, BeginsThrough DEF Covers
        <4> DEFINE x == Len(d[i].at[k]) + Kept(d, i, k)
        <4>2. x \in Int
          BY <3>1, <3>2, <3>5 DEF IsSeq
        <4>3. x <= Len(s[k].v) /\ Len(s[k].v) <= Len(t[k].v)
          BY <3>6 DEF Covers, Begins
        <4>4. Len(s[k].v) \in Int /\ Len(t[k].v) \in Int
          BY <1>6 DEF IsSeq
        <4> HIDE DEF x
        <4>5. x <= Len(t[k].v)
          BY <4>2, <4>3, <4>4
        <4> QED
          BY <4>1, <4>5 DEF Covers, x
      <3>8. ASSUME NEW j \in Progs(d), i < j PROVE Covers(d[j].at[k], d, i, k)
        <4>1. CASE j = n + 1
          BY <3>6, <4>1
        <4>2. CASE j # n + 1
          <5>1. j \in Progs(c) /\ d[j] = c[j]
            BY <1>1, <4>2 DEF Progs
          <5>2. Covers(c[j].at[k], c, i, k)
            BY <3>3, <3>8, <5>1
          <5> QED
            BY <3>1, <3>2, <5>1, <5>2 DEF Covers
        <4> QED
          BY <4>1, <4>2
      <3> QED
        BY <3>7, <3>8
    <2> QED
      BY <2>2, <2>3
  <1> QED
    BY <1>3, <1>5, <1>7 DEF StackOK

(* The stacks t have what the programs below m have in c.                  *)
Over(t, c, m, od) ==
    \A h \in Progs(c) : \A k \in StackNames :
        (h < m /\ Counts(k, od)) => Covers(t[k].v, c, h, k)

(* A frame that goes on has not pushed or popped a partial block.          *)
SamePushed(f, g) ==
    g.kind = f.kind /\ (f.kind \in {"op", "block"} => (g.pushed <=> f.pushed))

(* A smaller number is covered too.                                        *)
LEMMA CoversLess ==
    ASSUME NEW c, NEW d, NEW i, NEW k, d[i].at = c[i].at, IsSeq(c[i].at[k]),
           Kept(c, i, k) \in Int, Kept(d, i, k) \in Int, Kept(d, i, k) <= Kept(c, i, k),
           NEW u, IsSeq(u), Covers(u, c, i, k)
    PROVE  Covers(u, d, i, k)
  <1> DEFINE x == Len(c[i].at[k])
             y == Kept(c, i, k)
             z == Kept(d, i, k)
             w == Len(u)
  <1>1. x + y <= w /\ Begins(c[i].at[k], u)
    BY DEF Covers
  <1>2. x \in Nat /\ w \in Nat /\ y \in Int /\ z \in Int /\ z <= y
    BY DEF IsSeq
  <1> HIDE DEF x, y, z, w
  <1>3. x + z <= w
    BY <1>1, <1>2
  <1> QED
    BY <1>1, <1>3 DEF Covers, x, z, w

(* What a program below the top has when the frames above m are gone.      *)
LEMMA CoversUnwound ==
    ASSUME NEW c, Len(c) \in Nat, NEW m \in 1 .. Len(c), NEW d, Len(d) = m,
           \A y \in 1 .. m : y < m => d[y] = c[y], SamePushed(c[m], d[m]),
           NEW h \in Progs(c), h < m, FrameKept(c, h), NEW k \in StackNames,
           NEW u, IsSeq(u), Covers(u, c, h, k)
    PROVE  Covers(u, d, h, k)
  <1>1. h \in 1 .. m /\ c[h].kind = "prog" /\ d[h] = c[h] /\ h # Len(c) /\ h # Len(d)
    BY DEF Progs
  <1>2. Kept(c, h, k) \in Int /\ IsSeq(c[h].at[k])
    BY <1>1, KeptInt DEF FrameKept
  <1> DEFINE a == Count1(Pushed(c, h + 1, "op"))
             b == Count1(Pushed(c, h + 2, "block"))
             x == Count1(Pushed(d, h + 1, "op"))
             y == Count1(Pushed(d, h + 2, "block"))
  <1>3. Pushed(d, h + 1, "op") => Pushed(c, h + 1, "op")
    <2>1. CASE h + 1 = m
      BY <2>1 DEF Pushed, SamePushed
    <2>2. CASE h + 1 # m
      <3>1. h + 1 \in 1 .. m /\ h + 1 < m /\ d[h + 1] = c[h + 1]
        BY <1>1, <2>2
      <3> QED
        BY <3>1 DEF Pushed
    <2> QED
      BY <2>1, <2>2
  <1>4. Pushed(d, h + 2, "block") => Pushed(c, h + 2, "block")
    <2>1. CASE h + 2 = m
      <3>1. h + 2 <= Len(c)
        BY <2>1
      <3> QED
        BY <2>1, <3>1 DEF Pushed, SamePushed
    <2>2. CASE h + 2 < m
      <3>1. h + 2 \in 1 .. m /\ d[h + 2] = c[h + 2]
        BY <1>1, <2>2
      <3> QED
        BY <2>2, <3>1 DEF Pushed
    <2>3. CASE h + 2 > m
      <3>1. ~(h + 2 <= Len(d))
        BY <1>1, <2>3
      <3> QED
        BY <3>1 DEF Pushed
    <2>4. h + 2 = m \/ h + 2 < m \/ h + 2 > m
      BY <1>1
    <2> QED
      BY <2>1, <2>2, <2>3, <2>4
  <1>5. x \in {0, 1} /\ y \in {0, 1} /\ a \in {0, 1} /\ b \in {0, 1} /\ x <= a /\ y <= b
    BY <1>3, <1>4 DEF Count1
  <1> HIDE DEF a, b, x, y
  <1>6. /\ k = "partialBlock" => Kept(c, h, k) = a + b /\ Kept(d, h, k) = x + y
        /\ k # "partialBlock" => Kept(d, h, k) = Kept(c, h, k)
    BY <1>1 DEF Kept, a, b, x, y
  <1>7. Kept(d, h, k) \in Int /\ Kept(d, h, k) <= Kept(c, h, k)
    <2>1. CASE k = "partialBlock"
      BY <1>5, <1>6, <2>1
    <2>2. CASE k # "partialBlock"
      BY <1>2, <1>6, <2>2
    <2> QED
      BY <2>1, <2>2
  <1> QED
    BY <1>1, <1>2, <1>7, CoversLess

(* What it has when a frame is pushed.                                     *)
LEMMA CoversGrown ==
    ASSUME NEW c, Len(c) \in Nat, NEW d, Len(d) = Len(c) + 1,
           \A y \in 1 .. Len(c) : d[y] = c[y],
           d[Len(d)].kind \in {"op", "block"} => ~d[Len(d)].pushed,
           NEW h \in Progs(c), h < Len(c), FrameKept(c, h), NEW k \in StackNames,
           NEW u, IsSeq(u), Covers(u, c, h, k)
    PROVE  Covers(u, d, h, k)
  <1>1. h \in 1 .. Len(c) /\ c[h].kind = "prog" /\ d[h] = c[h] /\ h # Len(c) /\ h # Len(d)
    BY DEF Progs
  <1>2. Kept(c, h, k) \in Int /\ IsSeq(c[h].at[k])
    BY <1>1, KeptInt DEF FrameKept
  <1>3. Pushed(d, h + 1, "op") <=> Pushed(c, h + 1, "op")
    <2>1. h + 1 \in 1 .. Len(c) /\ h + 1 <= Len(d)
      BY <1>1
    <2> QED
      BY <2>1 DEF Pushed
  <1>4. Pushed(d, h + 2, "block") <=> Pushed(c, h + 2, "block")
    <2>1. CASE h + 2 = Len(d)
      <3>1. ~(h + 2 <= Len(c))
        BY <1>1, <2>1
      <3> QED
        BY <2>1, <3>1 DEF Pushed
    <2>2. CASE h + 2 # Len(d)
      <3>1. h + 2 \in 1 .. Len(c) /\ h + 2 <= Len(d)
        BY <1>1, <2>2
      <3> QED
        BY <3>1 DEF Pushed
    <2> QED
      BY <2>1, <2>2
  <1>5. /\ Count1(Pushed(d, h + 1, "op")) = Count1(Pushed(c, h + 1, "op"))
        /\ Count1(Pushed(d, h + 2, "block")) = Count1(Pushed(c, h + 2, "block"))
    BY <1>3, <1>4 DEF Count1
  <1>6. Kept(d, h, k) = Kept(c, h, k)
    BY <1>1, <1>5 DEF Kept
  <1> QED
    BY <1>1, <1>2, <1>6, CoversLess

(* What the innermost program needs, from what all below the top have.     *)
LEMMA HasUnwound ==
    ASSUME NEW c, Len(c) \in Nat, NEW m \in 1 .. Len(c), c[m].kind # "prog",
           NEW d, Len(d) = m, \A y \in 1 .. m : y < m => d[y] = c[y], SamePushed(c[m], d[m]),
           \A i \in 1 .. Len(c) : FrameKept(c, i),
           NEW t, \A k \in StackNames : IsSeq(t[k].v), NEW od, Over(t, c, m, od)
    PROVE  InnermostHas(t, c, d, m, od)
  <1> SUFFICES ASSUME NEW h \in 1 .. m, NEW k \in StackNames, Runs(h, c, m), Counts(k, od)
               PROVE  Covers(t[k].v, d, h, k)
    BY DEF InnermostHas
  <1>1. c[h].kind = "prog" /\ h < m /\ h \in Progs(c)
    BY DEF Runs, Progs
  <1>2. FrameKept(c, h) /\ Covers(t[k].v, c, h, k) /\ IsSeq(t[k].v)
    BY <1>1 DEF Over, Progs
  <1> QED
    BY <1>1, <1>2, CoversUnwound

LEMMA HasGrown ==
    ASSUME NEW c, Len(c) \in Nat, Len(c) > 0 => c[Len(c)].kind # "prog",
           NEW d, Len(d) = Len(c) + 1, \A y \in 1 .. Len(c) : d[y] = c[y],
           d[Len(d)].kind \in {"op", "block"} => ~d[Len(d)].pushed,
           \A i \in 1 .. Len(c) : FrameKept(c, i),
           NEW t, \A k \in StackNames : IsSeq(t[k].v), NEW od, Over(t, c, Len(c), od)
    PROVE  InnermostHas(t, c, d, Len(c), od)
  <1> SUFFICES ASSUME NEW h \in 1 .. Len(c), NEW k \in StackNames, Runs(h, c, Len(c)),
                      Counts(k, od)
               PROVE  Covers(t[k].v, d, h, k)
    BY DEF InnermostHas
  <1>1. c[h].kind = "prog" /\ h < Len(c) /\ h \in Progs(c)
    BY DEF Runs, Progs
  <1>2. FrameKept(c, h) /\ Covers(t[k].v, c, h, k) /\ IsSeq(t[k].v)
    BY <1>1 DEF Over, Progs
  <1> QED
    BY <1>1, <1>2, CoversGrown

(* Longer stacks that begin alike.                                         *)
LEMMA CoversThrough ==
    ASSUME NEW c, NEW i \in Progs(c), FrameKept(c, i), NEW k \in StackNames,
           NEW u, NEW w, IsSeq(u), IsSeq(w), Covers(u, c, i, k), Begins(u, w)
    PROVE  Covers(w, c, i, k)
  <1>1. c[i].kind = "prog"
    BY DEF Progs
  <1>2. IsSeq(c[i].at[k]) /\ Kept(c, i, k) \in Int
    BY <1>1, KeptInt DEF FrameKept
  <1>3. Begins(c[i].at[k], w)
    BY <1>2, BeginsThrough DEF Covers
  <1> DEFINE p == Len(c[i].at[k])
             q == Kept(c, i, k)
             x == p + q
             y == Len(u)
             z == Len(w)
  <1>4. x <= y /\ y <= z
    BY DEF Covers, Begins
  <1>5. p \in Int /\ q \in Int /\ y \in Int /\ z \in Int
    BY <1>2 DEF IsSeq
  <1> HIDE DEF p, q
  <1>6. x \in Int
    BY <1>5
  <1> HIDE DEF x, y, z
  <1>7. x <= z
    BY <1>4, <1>5, <1>6
  <1> QED
    BY <1>3, <1>7 DEF Covers, p, q, x, z

LEMMA OverMore ==
    ASSUME NEW c, \A i \in 1 .. Len(c) : FrameKept(c, i), NEW s, NEW t,
           \A k \in StackNames : IsSeq(s[k].v) /\ IsSeq(t[k].v) /\ Begins(s[k].v, t[k].v),
           NEW m, NEW od, Over(s, c, m, od)
    PROVE  Over(t, c, m, od)
  <1> SUFFICES ASSUME NEW h \in Progs(c), NEW k \in StackNames, h < m, Counts(k, od)
               PROVE  Covers(t[k].v, c, h, k)
    BY DEF Over
  <1>1. FrameKept(c, h) /\ Covers(s[k].v, c, h, k)
    BY DEF Over, Progs
  <1> QED
    BY <1>1, CoversThrough

(* The stacks have what the programs below the top have, when they begin   *)
(* with what the program at the top began with.                            *)
LEMMA OverTop ==
    ASSUME NEW c, NEW v, NEW s, NEW od, StackOK(c, v, s, od), NEW n \in Progs(c),
           NEW t, \A k \in StackNames : IsSeq(t[k].v),
           \A k \in StackNames : Counts(k, od) => Begins(c[n].at[k], t[k].v)
    PROVE  Over(t, c, n, od)
  <1> SUFFICES ASSUME NEW h \in Progs(c), NEW k \in StackNames, h < n, Counts(k, od)
               PROVE  Covers(t[k].v, c, h, k)
    BY DEF Over
  <1>1. FrameKept(c, h) /\ FrameKept(c, n) /\ c[n].kind = "prog"
    BY DEF StackOK, Progs
  <1>2. Covers(c[n].at[k], c, h, k)
    BY DEF StackOK, Covered
  <1>3. IsSeq(c[n].at[k])
    BY <1>1 DEF FrameKept
  <1> QED
    BY <1>1, <1>2, <1>3, CoversThrough

(* They have what all have.                                                *)
LEMMA OverAll ==
    ASSUME NEW c, NEW v, NEW s, NEW od, StackOK(c, v, s, od), NEW m
    PROVE  Over(s, c, m, od) /\ \A k \in StackNames : IsSeq(s[k].v)
  BY DEF StackOK, Covered, Over, Stacks

-----------------------------------------------------------------------------
(* Errors and faults *)

(* What the invariants say of the top of the call stack.                   *)
LEMMA StackFacts ==
    ASSUME CallInv, StackInv, call # <<>>
    PROVE  /\ Len(call) \in Nat \ {0} /\ IsSeq(call) /\ Last(call) = call[Len(call)]
           /\ call[1].kind = "exec" /\ Frames(call, Base, error)
           /\ \A i \in 1 .. Len(call) : FrameKept(call, i)
           /\ FrameKept(call, Len(call)) /\ FrameOK(Last(call))
           /\ ModuleOK(vm.module, call, Len(call)) /\ vm.owner # 0
           /\ Stacks(stk, call, Len(call))
           /\ StackOK(call, vm, stk, app.overdrawn) /\ app.overdrawn \in BOOLEAN
           /\ DOMAIN vm = VmFields
  <1>1. /\ Len(call) \in Nat \ {0} /\ IsSeq(call) /\ Last(call) = call[Len(call)]
        /\ FrameOK(Last(call)) /\ Frames(call, Base, error)
    BY TopOf DEF CallInv, CallOK, Frames
  <1>2. call[1].kind = "exec"
    <2>1. Nested(call) /\ 1 \in 1 .. Len(call)
      BY <1>1 DEF Frames
    <2> QED
      BY <2>1 DEF Nested
  <1>3. /\ \A i \in 1 .. Len(call) : FrameKept(call, i)
        /\ Stacks(stk, call, Len(call))
        /\ Len(call) > 0 => ModuleOK(vm.module, call, Len(call)) /\ vm.owner # 0
    BY DEF StackInv, StackOK
  <1>4. Len(call) > 0 /\ FrameKept(call, Len(call))
    BY <1>1, <1>3
  <1> QED
    BY <1>1, <1>2, <1>3, <1>4, VmTypes DEF StackInv

(* What a step leaves alone, it leaves in order.                           *)
LEMMA StackSame ==
    ASSUME CallInv, StackInv, UNCHANGED <<call, stk>>, vm'.module = vm.module,
           vm'.owner = vm.owner, app'.overdrawn = app.overdrawn
    PROVE  StackInv'
  BY DEF StackInv, StackOK

(* A use of memory that is not there changes no stack.                     *)
LEMMA FaultStack ==
    ASSUME CallInv, StackInv, NEW what, Fault(what)
    PROVE  StackInv'
  <1>1. app'.overdrawn = app.overdrawn
    BY DEF Fault, CallInv, Registers
  <1> QED
    BY <1>1, StackSame DEF Fault

(* An error leaves to the programs that go on what they had.               *)
LEMMA ThrowStack ==
    ASSUME CallInv, StackInv, call # <<>>, Last(call).kind # "tmpl",
           NEW s, Stacks(s, call, Len(call)), Over(s, call, Len(call), app.overdrawn),
           NEW v, v.module = vm.module, v.owner = vm.owner, Throw(s, v)
    PROVE  StackInv'
  <1> DEFINE n == Len(call)
             od == app.overdrawn
  <1>1. /\ call' = Thrown(call, jmp) /\ vm' = v /\ stk' = s
    BY DEF Throw, Thrown
  <1>2. app'.overdrawn = od /\ od \in BOOLEAN
    BY DEF Throw, CallInv, Registers, StackInv
  <1>3. /\ n \in Nat \ {0} /\ IsSeq(call) /\ Last(call) = call[n]
        /\ Frames(call, Base, error) /\ \A i \in 1 .. n : FrameKept(call, i)
        /\ ModuleOK(vm.module, call, n) /\ vm.owner # 0
        /\ StackOK(call, vm, stk, od)
    BY StackFacts
  <1>4. IsJump(jmp, call, n, Base)
    BY <1>3 DEF CallInv, CallOK, Waiting
  <1>5. \A i \in 1 .. n : call[i].kind = "tmpl" => Catches(call[i])
    <2> SUFFICES ASSUME NEW i \in 1 .. n, call[i].kind = "tmpl" PROVE Catches(call[i])
      OBVIOUS
    <2>1. i < n
      BY <1>3
    <2> QED
      BY <2>1, <1>3 DEF Frames, Catches
  <1>6. CASE jmp = Base /\ \A y \in 1 .. n : ~Catches(call[y])
    <2>1. call' = <<>> /\ Len(call') = 0
      BY <1>1, <1>6 DEF Thrown, Base
    <2>2. Live(call, n) \subseteq Live(call', 0)
      BY <1>5, <1>6 DEF Live
    <2>3. Stacks(s, call', 0)
      BY <2>2, ValueLives
    <2>4. Covered(call', s, od)
      BY <2>1, NoPrograms DEF Progs
    <2>5. StackOK(call', v, s, od)
      BY <2>1, <2>3, <2>4 DEF StackOK
    <2> QED
      BY <1>1, <1>2, <2>5 DEF StackInv
  <1>7. CASE jmp \in 1 .. n /\ Catches(call[jmp]) /\ \A y \in 1 .. n : y > jmp => ~Catches(call[y])
    <2> DEFINE g == [call[jmp] EXCEPT !.done = TRUE]
               d == Unwound(call, jmp, g)
    <2>1. jmp \in Nat /\ ~(jmp <= 0) /\ SubSeq(call, 1, jmp)[jmp] = call[jmp]
      BY <1>3, <1>7, PrefixSeq
    <2>2. call' = d
      BY <1>1, <2>1 DEF Thrown, Unwound
    <2>3. call[jmp].kind \in {"exec", "tmpl"} /\ FrameOK(call[jmp])
      BY <1>3, <1>7 DEF Frames, Catches
    <2>4. /\ Alike(call[jmp], g) /\ g.done /\ Later(call[jmp], g, call, jmp)
          /\ SamePushed(call[jmp], g)
      <3>1. Alike(call[jmp], g) /\ g.done
        BY <2>3, DoneAlike
      <3>2. Later(call[jmp], g, call, jmp)
        BY <2>3 DEF Later, FrameOK, Fields
      <3>3. SamePushed(call[jmp], g)
        BY <2>3 DEF SamePushed, FrameOK, Fields
      <3> QED
        BY <3>1, <3>2, <3>3
    <2> HIDE DEF g
    <2>5. Frames(call, Base, TRUE)
      BY <1>3 DEF Frames
    <2>6. Len(d) = jmp /\ d[jmp] = g /\ \A i \in 1 .. jmp : i < jmp => d[i] = call[i]
      <3> DEFINE base == Base
                 err == TRUE
      <3>1. Frames(call, base, err) /\ jmp \in 1 .. Len(call) /\ Alike(call[jmp], g)
        BY <1>7, <2>4, <2>5
      <3>2. (g.kind = "exec" /\ g.done /\ ~g.ret) => err
        OBVIOUS
      <3> HIDE DEF base, err
      <3> QED
        BY <3>1, <3>2, UnwindFrames
    <2> HIDE DEF d
    <2>7. Live(call, n) \subseteq Live(call, jmp)
      BY <1>3, <1>5, <1>7 DEF Live
    <2>8. Stacks(s, call, jmp) /\ ModuleOK(v.module, call, jmp)
      BY <1>3, <2>7, ValueLives
    <2>9. InnermostHas(s, call, d, jmp, od)
      <3>1. Over(s, call, jmp, od)
        BY <1>3, <1>7 DEF Over, Progs
      <3>2. \A k \in StackNames : IsSeq(s[k].v)
        BY DEF Stacks
      <3>3. SamePushed(call[jmp], d[jmp]) /\ call[jmp].kind # "prog"
        BY <2>3, <2>4, <2>6
      <3> QED
        BY <1>3, <1>7, <2>6, <3>1, <3>2, <3>3, HasUnwound
    <2>10. StackOK(d, v, s, od)
      <3>1. Later(call[jmp], d[jmp], call, jmp)
        BY <2>4, <2>6
      <3>2. v.owner # 0
        BY <1>3
      <3> QED
        BY <1>2, <1>3, <1>7, <2>6, <2>8, <2>9, <3>1, <3>2, UnwindStack
    <2> QED
      BY <1>1, <1>2, <2>2, <2>10 DEF StackInv
  <1> QED
    BY <1>4, <1>6, <1>7 DEF IsJump

-----------------------------------------------------------------------------
(* The opcodes *)

(* The running program: its opcode, and how many operands it takes of how  *)
(* many.                                                                   *)
LEMMA OpFacts ==
    ASSUME CallInv, StackInv, TopIs("prog")
    PROVE  LET f == call[Len(call)]
               own == OwnAt(f)
               o == Opcode
           IN /\ call # <<>> /\ f.kind = "prog" /\ Last(call) = f /\ FrameOK(f)
              /\ Len(call) \in Progs(call)
              /\ o = OpAt(f)
              /\ o.op \in {"invoke_helper", "invoke_known_helper"} => o.n \in Nat
              /\ o.op = "push_program" => o.n \in Int
              /\ own.stack \in Nat /\ own.hash \in Nat
              /\ Takes(o) \in Nat /\ Leaves(o) \in {0, 1}
              /\ HashTakes(o) \in {0, 1} /\ HashLeaves(o) \in {0, 1}
              /\ o.op \in {"append", "append_escaped"} \/ own.stack >= Takes(o)
              /\ own.hash >= HashTakes(o)
              /\ \A k \in StackNames : IsSeq(f.at[k]) /\ f.count[k] = Len(f.at[k])
  <1> DEFINE f == call[Len(call)]
             t == f.module.tmpl
             pc == f.pc
  <1>1. call # <<>> /\ Last(call).kind = "prog"
    BY DEF TopIs
  <1>2. /\ Last(call) = f /\ FrameKept(call, Len(call)) /\ FrameOK(f) /\ Len(call) \in Nat \ {0}
        /\ f.kind = "prog"
    BY <1>1, StackFacts
  <1>3. t \in Templates /\ pc \in 1 .. Len(Modules[t].opcodes) /\ OwnAt(f).reached
    BY <1>2 DEF FrameKept, ModuleOK, Code, ModuleOf
  <1>4. /\ OwnAt(f) = Operands(t)[pc] /\ OpAt(f) = Modules[t].opcodes[pc]
        /\ Opcode = Modules[t].opcodes[pc]
    BY <1>2 DEF OwnAt, OpAt, Code, ModuleOf, Opcode
  <1>5. \A k \in StackNames : IsSeq(f.at[k]) /\ f.count[k] = Len(f.at[k])
    BY <1>2 DEF FrameKept
  <1>6. Len(call) \in Progs(call)
    BY <1>2 DEF Progs
  <1> HIDE DEF t, pc, f
  <1>7. pc \in DOMAIN Modules[t].opcodes
    BY <1>3, OperandsSolve
  <1>8. /\ Opcode.op \in {"invoke_helper", "invoke_known_helper"} => Opcode.n \in Nat
        /\ Opcode.op = "push_program" => Opcode.n \in Int
    BY <1>3, <1>4, <1>7, ModulesAssumption
  <1>9. /\ Takes(Opcode) \in Nat /\ Leaves(Opcode) \in {0, 1}
        /\ HashTakes(Opcode) \in {0, 1} /\ HashLeaves(Opcode) \in {0, 1}
    BY <1>3, <1>4, <1>7, TakesTypes
  <1>10. /\ OwnAt(f).stack \in Nat /\ OwnAt(f).hash \in Int
         /\ Opcode.op \in {"append", "append_escaped"} \/ OwnAt(f).stack >= Takes(Opcode)
         /\ OwnAt(f).hash >= HashTakes(Opcode)
    BY <1>3, <1>4, OperandFacts
  <1>11. OwnAt(f).hash \in Nat
    <2> DEFINE x == OwnAt(f).hash
    <2>1. x \in Int /\ x >= HashTakes(Opcode) /\ HashTakes(Opcode) \in {0, 1}
      BY <1>9, <1>10
    <2> HIDE DEF x
    <2>2. x \in Nat
      BY <2>1
    <2> QED
      BY <2>2 DEF x
  <1> QED
    BY <1>1, <1>2, <1>4, <1>5, <1>6, <1>8, <1>9, <1>10, <1>11 DEF f

(* What a program has left after an opcode.                                *)
LeftStack(own, o) == (IF own.stack < Takes(o) THEN 0 ELSE own.stack - Takes(o)) + Leaves(o)
LeftHash(own, o) == own.hash - HashTakes(o) + HashLeaves(o)

(* A program's next opcode.                                                *)
LEMMA NextFacts ==
    ASSUME NEW c, NEW i, FrameKept(c, i), c[i].kind = "prog", FrameOK(c[i]),
           OpAt(c[i]).op \notin Ends
    PROVE  LET f == c[i]
               g == [f EXCEPT !.pc = @ + 1]
           IN /\ Later(f, g, c, i) /\ g.kind = "prog" /\ g.at = f.at
              /\ OwnAt(g).stack \in Nat /\ OwnAt(g).hash \in Int
              /\ OwnAt(g).stack <= LeftStack(OwnAt(f), OpAt(f))
              /\ OwnAt(g).hash <= LeftHash(OwnAt(f), OpAt(f))
  <1> DEFINE f == c[i]
             g == [f EXCEPT !.pc = @ + 1]
             t == f.module.tmpl
             pc == f.pc
  <1>2. t \in Templates /\ pc \in 1 .. Len(Modules[t].opcodes) /\ OwnAt(f).reached
    BY DEF FrameKept, ModuleOK, Code, ModuleOf
  <1>3. /\ OwnAt(f) = Operands(t)[pc] /\ OpAt(f) = Modules[t].opcodes[pc]
    BY DEF OwnAt, OpAt, Code, ModuleOf
  <1>4. /\ g.kind = "prog" /\ g.module = f.module /\ g.at = f.at /\ g.count = f.count
        /\ g.protect = f.protect /\ g.pc = pc + 1
    BY DEF FrameOK, Fields
  <1>5. OwnAt(g) = Operands(t)[pc + 1] /\ Code(f) = Modules[t].opcodes
    BY <1>4 DEF OwnAt, Code, ModuleOf
  <1> HIDE DEF t, pc, g
  <1>6. /\ pc + 1 \in 1 .. Len(Modules[t].opcodes)
        /\ OwnAt(g).reached
        /\ OwnAt(g).stack <= LeftStack(OwnAt(f), OpAt(f))
        /\ OwnAt(g).hash <= LeftHash(OwnAt(f), OpAt(f))
    BY <1>2, <1>3, <1>5, OperandFacts DEF LeftStack, LeftHash
  <1>7. OwnAt(g).stack \in Nat /\ OwnAt(g).hash \in Int
    BY <1>2, <1>5, <1>6, OperandFacts
  <1>8. Later(f, g, c, i)
    BY <1>4, <1>5, <1>6 DEF Later
  <1> QED
    BY <1>4, <1>6, <1>7, <1>8 DEF g

(* What is popped is above the beginning, when there is enough above it.   *)
LEMMA BeginsPop ==
    ASSUME NEW c, NEW n, NEW s, Stacks(s, c, n), NEW k \in StackNames, NEW j \in Nat,
           NEW u, IsSeq(u), NEW x \in Int, x >= j, Begins(u, s[k].v), Len(u) + x <= Len(s[k].v)
    PROVE  Begins(u, Pop(s, k, j)[k].v) /\ Len(u) + (x - j) <= Len(Pop(s, k, j)[k].v)
  <1>1. PICK m : CutTo(s, k, j, m)
    BY PopCuts
  <1>2. IsSeq(s[k].v) /\ DOMAIN s = StackNames /\ s[k] = [v |-> s[k].v, protect |-> s[k].protect]
    BY DEF Stacks
  <1> DEFINE l == Len(s[k].v)
             e == Len(u)
             w == SubSeq(s[k].v, 1, m)
  <1>3. Pop(s, k, j)[k].v = w
    BY <1>1, <1>2 DEF CutTo
  <1>4. l \in Nat /\ e \in Nat /\ m \in 0 .. l /\ m >= l - j /\ e + x <= l
    BY <1>1, <1>2 DEF IsSeq, CutTo
  <1> HIDE DEF l, e
  <1>5. m >= e /\ e + (x - j) <= m
    BY <1>4
  <1> HIDE DEF w
  <1>6. Begins(u, w) /\ Len(w) = m
    BY <1>2, <1>4, <1>5, BeginsCut DEF w, l, e
  <1> QED
    BY <1>3, <1>5, <1>6 DEF e

(* What is pushed is above it.                                             *)
LEMMA BeginsPush ==
    ASSUME NEW c, NEW n, NEW s, Stacks(s, c, n), NEW k \in StackNames, NEW y,
           NEW u, IsSeq(u), NEW x \in Int, Begins(u, s[k].v), Len(u) + x <= Len(s[k].v)
    PROVE  Begins(u, Push(s, k, y)[k].v) /\ Len(u) + (x + 1) <= Len(Push(s, k, y)[k].v)
  <1>1. IsSeq(s[k].v) /\ DOMAIN s = StackNames /\ s[k] = [v |-> s[k].v, protect |-> s[k].protect]
    BY DEF Stacks
  <1> DEFINE l == Len(s[k].v)
             e == Len(u)
             w == Append(s[k].v, y)
  <1>2. Push(s, k, y)[k].v = w
    BY <1>1 DEF Push
  <1>3. Begins(s[k].v, w) /\ Len(w) = l + 1 /\ IsSeq(w)
    BY <1>1, BeginsAppend, AppendSeq
  <1> HIDE DEF w
  <1>4. Begins(u, w)
    BY <1>1, <1>3, BeginsThrough
  <1>5. l \in Nat /\ e \in Nat /\ e + x <= l
    BY <1>1 DEF IsSeq
  <1> HIDE DEF l, e
  <1>6. e + (x + 1) <= Len(w)
    BY <1>3, <1>5
  <1> QED
    BY <1>2, <1>4, <1>6 DEF e

Room(k, a, b) == IF k = "stack" THEN a ELSE IF k = "hash" THEN b ELSE 0

(* Above what the running program began with, s has a operands and b       *)
(* hashes.                                                                 *)
Fits(s, a, b, od) ==
    /\ Stacks(s, call, Len(call))
    /\ \A k \in StackNames : Counts(k, od) =>
         /\ Begins(call[Len(call)].at[k], s[k].v)
         /\ Len(call[Len(call)].at[k]) + Room(k, a, b) <= Len(s[k].v)

LEMMA FitsStk ==
    ASSUME CallInv, StackInv, TopIs("prog")
    PROVE  LET own == OwnAt(call[Len(call)])
           IN Fits(stk, own.stack, own.hash, app.overdrawn)
  <1> DEFINE n == Len(call)
             own == OwnAt(call[n])
             od == app.overdrawn
  <1>1. n \in Progs(call) /\ n \in Nat /\ Stacks(stk, call, n) /\ StackOK(call, vm, stk, od)
    BY OpFacts, StackFacts
  <1> SUFFICES ASSUME NEW k \in StackNames, Counts(k, od)
               PROVE  /\ Begins(call[n].at[k], stk[k].v)
                      /\ Len(call[n].at[k]) + Room(k, own.stack, own.hash) <= Len(stk[k].v)
    BY <1>1 DEF Fits
  <1>2. Covers(stk[k].v, call, n, k)
    BY <1>1 DEF StackOK, Covered
  <1>3. Kept(call, n, k) = Room(k, own.stack, own.hash)
    <2>1. ~(n + 1 <= n) /\ ~(n + 2 <= n)
      BY <1>1
    <2>2. ~Pushed(call, n + 1, "op") /\ ~Pushed(call, n + 2, "block")
      BY <2>1 DEF Pushed
    <2> QED
      BY <2>2 DEF Kept, Room, Count1
  <1> QED
    BY <1>2, <1>3 DEF Covers

(* The handlers pop what is the program's own.                             *)
LEMMA FitsPop ==
    ASSUME CallInv, StackInv, TopIs("prog"), NEW s, NEW a \in Int, NEW b \in Int,
           NEW od, Fits(s, a, b, od), NEW j \in Nat
    PROVE  /\ a >= j => Fits(Pop(s, "stack", j), a - j, b, od)
           /\ b >= j => Fits(Pop(s, "hash", j), a, b - j, od)
           /\ ~Counts("stack", od) => Fits(Pop(s, "stack", j), a - j, b, od)
  <1> DEFINE n == Len(call)
  <1>1. \A k \in StackNames : IsSeq(call[n].at[k])
    BY OpFacts
  <1>2. Stacks(s, call, n)
    BY DEF Fits
  <1> HIDE DEF n
  <1>3. ASSUME NEW k \in StackNames, NEW x \in Int, NEW y \in Int,
               \A i \in StackNames : i # k => Room(i, x, y) = Room(i, a, b),
               Counts(k, od) => Room(k, a, b) \in Int /\ Room(k, a, b) >= j
                                /\ Room(k, x, y) = Room(k, a, b) - j
        PROVE  Fits(Pop(s, k, j), x, y, od)
    <2> DEFINE t == Pop(s, k, j)
    <2>1. Stacks(t, call, n) /\ \A i \in StackNames : i # k => t[i] = s[i]
      BY <1>2, StackPop
    <2>2. ASSUME NEW i \in StackNames, Counts(i, od)
          PROVE  Begins(call[n].at[i], t[i].v) /\ Len(call[n].at[i]) + Room(i, x, y) <= Len(t[i].v)
      <3>1. Begins(call[n].at[i], s[i].v) /\ Len(call[n].at[i]) + Room(i, a, b) <= Len(s[i].v)
        BY <2>2 DEF Fits, n
      <3>2. CASE i = k
        <4>1. Room(k, a, b) \in Int /\ Room(k, a, b) >= j /\ Room(k, x, y) = Room(k, a, b) - j
          BY <1>3, <2>2, <3>2
        <4> DEFINE r == Room(k, a, b)
        <4>2. r \in Int /\ r >= j /\ Room(k, x, y) = r - j /\ IsSeq(call[n].at[k])
              /\ Begins(call[n].at[k], s[k].v) /\ Len(call[n].at[k]) + r <= Len(s[k].v)
          BY <1>1, <3>1, <3>2, <4>1
        <4> HIDE DEF r
        <4>3. Begins(call[n].at[k], t[k].v) /\ Len(call[n].at[k]) + (r - j) <= Len(t[k].v)
          BY <1>2, <4>2, BeginsPop
        <4> QED
          BY <3>2, <4>2, <4>3
      <3>3. CASE i # k
        BY <1>3, <2>1, <3>1, <3>3
      <3> QED
        BY <3>2, <3>3
    <2> HIDE DEF t
    <2>3. Fits(t, x, y, od)
      BY <2>1, <2>2 DEF Fits, n
    <2> QED
      BY <2>3 DEF t
  <1>4. "stack" \in StackNames /\ "hash" \in StackNames
    BY DEF StackNames
  <1>5. a - j \in Int /\ b - j \in Int
    OBVIOUS
  <1>6. a >= j => Fits(Pop(s, "stack", j), a - j, b, od)
    BY <1>3, <1>4, <1>5 DEF Room
  <1>7. b >= j => Fits(Pop(s, "hash", j), a, b - j, od)
    BY <1>3, <1>4, <1>5 DEF Room
  <1>8. ~Counts("stack", od) => Fits(Pop(s, "stack", j), a - j, b, od)
    BY <1>3, <1>4, <1>5 DEF Room
  <1> QED
    BY <1>6, <1>7, <1>8

(* What they push is theirs too.                                           *)
LEMMA FitsPush ==
    ASSUME CallInv, StackInv, TopIs("prog"), NEW s, NEW a \in Int, NEW b \in Int,
           NEW od, Fits(s, a, b, od), NEW z
    PROVE  /\ ValueOK(z, call, Len(call)) => Fits(Push(s, "stack", z), a + 1, b, od)
           /\ Fits(Push(s, "hash", z), a, b + 1, od)
           /\ ValueOK(z, call, Len(call)) => Fits(Push(s, "partialBlock", z), a, b, od)
  <1> DEFINE n == Len(call)
  <1>1. \A k \in StackNames : IsSeq(call[n].at[k])
    BY OpFacts
  <1>2. Stacks(s, call, n)
    BY DEF Fits
  <1> HIDE DEF n
  <1>3. ASSUME NEW k \in StackNames, NEW x \in Int, NEW y \in Int,
               k \in {"stack", "partialBlock"} => ValueOK(z, call, n),
               \A i \in StackNames : i # k => Room(i, x, y) = Room(i, a, b),
               Room(k, a, b) \in Int /\ Room(k, x, y) \in Int,
               Room(k, x, y) <= Room(k, a, b) + 1
        PROVE  Fits(Push(s, k, z), x, y, od)
    <2> DEFINE t == Push(s, k, z)
    <2>1. Stacks(t, call, n) /\ \A i \in StackNames : i # k => t[i] = s[i]
      BY <1>2, <1>3, StackPush
    <2>2. ASSUME NEW i \in StackNames, Counts(i, od)
          PROVE  Begins(call[n].at[i], t[i].v) /\ Len(call[n].at[i]) + Room(i, x, y) <= Len(t[i].v)
      <3>1. Begins(call[n].at[i], s[i].v) /\ Len(call[n].at[i]) + Room(i, a, b) <= Len(s[i].v)
        BY <2>2 DEF Fits, n
      <3>2. CASE i = k
        <4> DEFINE r == Room(k, a, b)
                   q == Room(k, x, y)
                   e == Len(call[n].at[k])
                   l == Len(t[k].v)
        <4>1. r \in Int /\ q \in Int /\ q <= r + 1 /\ IsSeq(call[n].at[k]) /\ IsSeq(t[k].v)
              /\ Begins(call[n].at[k], s[k].v) /\ Len(call[n].at[k]) + r <= Len(s[k].v)
          BY <1>1, <1>3, <2>1, <3>1, <3>2 DEF Stacks
        <4> HIDE DEF r, q
        <4>2. Begins(call[n].at[k], t[k].v) /\ e + (r + 1) <= l
          BY <1>2, <4>1, BeginsPush
        <4>3. e \in Nat /\ l \in Nat
          BY <4>1 DEF IsSeq
        <4> HIDE DEF e, l, t
        <4>4. e + q <= l
          BY <4>1, <4>2, <4>3
        <4> QED
          BY <3>2, <4>2, <4>4 DEF e, l, q
      <3>3. CASE i # k
        BY <1>3, <2>1, <3>1, <3>3
      <3> QED
        BY <3>2, <3>3
    <2> HIDE DEF t
    <2>3. Fits(t, x, y, od)
      BY <2>1, <2>2 DEF Fits, n
    <2> QED
      BY <2>3 DEF t
  <1>4. "stack" \in StackNames /\ "hash" \in StackNames /\ "partialBlock" \in StackNames
    BY DEF StackNames
  <1>5. a + 1 \in Int /\ b + 1 \in Int
    OBVIOUS
  <1>6. ValueOK(z, call, n) => Fits(Push(s, "stack", z), a + 1, b, od)
    BY <1>3, <1>4, <1>5 DEF Room
  <1>7. Fits(Push(s, "hash", z), a, b + 1, od)
    BY <1>3, <1>4, <1>5 DEF Room
  <1>8. ValueOK(z, call, n) => Fits(Push(s, "partialBlock", z), a, b, od)
    BY <1>3, <1>4, <1>5 DEF Room
  <1> QED
    BY <1>6, <1>7, <1>8 DEF n

(* An opcode that throws.                                                  *)
LEMMA FitsThrow ==
    ASSUME CallInv, StackInv, TopIs("prog"), NEW s, NEW a, NEW b,
           Fits(s, a, b, app.overdrawn), Throw(s, vm)
    PROVE  StackInv'
  <1> DEFINE n == Len(call)
             od == app.overdrawn
  <1>1. call # <<>> /\ n \in Progs(call) /\ Last(call).kind = "prog" /\ StackOK(call, vm, stk, od)
    BY OpFacts, StackFacts DEF TopIs
  <1>2. Stacks(s, call, n) /\ \A k \in StackNames : Counts(k, od) => Begins(call[n].at[k], s[k].v)
    BY DEF Fits
  <1>3. \A k \in StackNames : IsSeq(s[k].v)
    BY <1>2 DEF Stacks
  <1>4. Over(s, call, n, od)
    BY <1>1, <1>2, <1>3, OverTop
  <1> QED
    BY <1>1, <1>2, <1>4, ThrowStack

(* The running program goes on with what the next opcode asks for.         *)
LEMMA StepsOn ==
    ASSUME CallInv, StackInv, TopIs("prog"), Opcode.op \notin Ends,
           NEW s, NEW a \in Int, NEW b \in Int, Fits(s, a, b, app'.overdrawn),
           LeftStack(OwnAt(call[Len(call)]), Opcode) <= a,
           LeftHash(OwnAt(call[Len(call)]), Opcode) <= b,
           call' = Advance(call), stk' = s, vm'.module = vm.module, vm'.owner = vm.owner,
           app'.overdrawn \in BOOLEAN, app.overdrawn => app'.overdrawn
    PROVE  StackInv'
  <1> DEFINE n == Len(call)
             f == call[n]
             g == [f EXCEPT !.pc = @ + 1]
             d == call'
             od == app'.overdrawn
             p == LeftStack(OwnAt(f), Opcode)
             q == LeftHash(OwnAt(f), Opcode)
  <1>1. /\ n \in Nat \ {0} /\ IsSeq(call) /\ Frames(call, Base, error)
        /\ \A i \in 1 .. n : FrameKept(call, i)
        /\ ModuleOK(vm.module, call, n) /\ vm.owner # 0
        /\ StackOK(call, vm, stk, app.overdrawn) /\ app.overdrawn \in BOOLEAN
    BY OpFacts, StackFacts
  <1>2. /\ f.kind = "prog" /\ \A k \in StackNames : IsSeq(f.at[k])
        /\ OwnAt(f).stack \in Nat /\ OwnAt(f).hash \in Nat /\ Takes(Opcode) \in Nat
        /\ Leaves(Opcode) \in {0, 1} /\ HashTakes(Opcode) \in {0, 1} /\ HashLeaves(Opcode) \in {0, 1}
    BY OpFacts
  <1>3. /\ Later(f, g, call, n) /\ g.kind = "prog" /\ g.at = f.at
        /\ OwnAt(g).stack <= p /\ OwnAt(g).hash <= q
        /\ OwnAt(g).stack \in Nat /\ OwnAt(g).hash \in Int
    <2>1. FrameKept(call, n) /\ FrameOK(f) /\ Opcode = OpAt(f)
      BY OpFacts, StackFacts
    <2> QED
      BY <1>2, <2>1, NextFacts
  <1>4. d = [call EXCEPT ![n] = g]
    BY DEF Advance
  <1> HIDE DEF g
  <1>5. Len(d) = n /\ d[n] = g /\ \A y \in 1 .. n : y < n => d[y] = call[y]
    BY <1>1, <1>4, ReplaceSeq
  <1>6. p \in Int /\ q \in Int
    <2> DEFINE x == OwnAt(f).stack
               y == OwnAt(f).hash
               z == Takes(Opcode)
    <2>1. x \in Nat /\ y \in Nat /\ z \in Nat
      BY <1>2
    <2> HIDE DEF x, y, z
    <2>2. p = (IF x < z THEN 0 ELSE x - z) + Leaves(Opcode)
      BY DEF p, LeftStack, x, z
    <2>3. q = y - HashTakes(Opcode) + HashLeaves(Opcode)
      BY DEF q, LeftHash, y
    <2> QED
      BY <1>2, <2>1, <2>2, <2>3
  <1>7. OwnAt(g).stack \in Int /\ OwnAt(g).hash \in Int
    BY <1>3
  <1>8. OwnAt(g).stack <= a /\ OwnAt(g).hash <= b
    <2> HIDE DEF p, q
    <2>1. p <= a /\ q <= b
      BY DEF p, q
    <2> QED
      BY <1>3, <1>6, <1>7, <2>1
  <1>9. InnermostHas(s, call, d, n, od)
    <2> SUFFICES ASSUME NEW h \in 1 .. n, NEW k \in StackNames, Runs(h, call, n), Counts(k, od)
                 PROVE  Covers(s[k].v, d, h, k)
      BY DEF InnermostHas
    <2>1. h = n
      BY <1>1, <1>2 DEF Runs
    <2>2. Begins(f.at[k], s[k].v) /\ Len(f.at[k]) + Room(k, a, b) <= Len(s[k].v)
      BY DEF Fits
    <2>3. Kept(d, n, k) = Room(k, OwnAt(g).stack, OwnAt(g).hash)
      <3>1. ~(n + 1 <= Len(d)) /\ ~(n + 2 <= Len(d))
        BY <1>1, <1>5
      <3>2. ~Pushed(d, n + 1, "op") /\ ~Pushed(d, n + 2, "block")
        BY <3>1 DEF Pushed
      <3> QED
        BY <1>5, <3>2 DEF Kept, Room, Count1
    <2>4. Kept(d, n, k) <= Room(k, a, b) /\ Kept(d, n, k) \in Int /\ Room(k, a, b) \in Int
      BY <1>7, <1>8, <2>3 DEF Room
    <2> DEFINE x == Len(f.at[k])
               y == Kept(d, n, k)
               z == Room(k, a, b)
               l == Len(s[k].v)
    <2>5. x \in Nat /\ l \in Nat
      BY <1>2 DEF Fits, Stacks, IsSeq
    <2>8. x + z <= l /\ y <= z /\ y \in Int /\ z \in Int
      BY <2>2, <2>4
    <2> HIDE DEF x, y, z, l
    <2>6. x + y <= l
      BY <2>5, <2>8
    <2>7. Begins(d[n].at[k], s[k].v) /\ Len(d[n].at[k]) = x
      BY <1>3, <1>5, <2>2 DEF x
    <2> QED
      BY <2>1, <2>6, <2>7 DEF Covers, y, l
  <1>10. StackOK(d, vm', s, od)
    <2>1. Later(call[n], d[n], call, n) /\ Stacks(s, call, n)
      BY <1>3, <1>5 DEF Fits
    <2>2. ModuleOK(vm'.module, call, n) /\ vm'.owner # 0 /\ n \in 1 .. Len(call)
      BY <1>1
    <2> HIDE DEF d, od, f
    <2> QED
      BY <1>1, <1>5, <1>9, <2>1, <2>2, UnwindStack DEF od
  <1> QED
    BY <1>10 DEF StackInv

(* When an append has taken a caller's operand, operands are not counted.  *)
LEMMA FitsLess ==
    ASSUME NEW s, NEW a, NEW b, NEW od \in BOOLEAN, Fits(s, a, b, od),
           NEW od2 \in BOOLEAN, od => od2
    PROVE  Fits(s, a, b, od2) /\ (od2 => \A x : Fits(s, x, b, od2))
  <1>1. ASSUME NEW x, x = a \/ od2 PROVE Fits(s, x, b, od2)
    <2> SUFFICES ASSUME NEW k \in StackNames, Counts(k, od2)
                 PROVE  /\ Begins(call[Len(call)].at[k], s[k].v)
                        /\ Len(call[Len(call)].at[k]) + Room(k, x, b) <= Len(s[k].v)
      BY DEF Fits
    <2>1. Counts(k, od)
      BY DEF Counts
    <2>2. Room(k, x, b) = Room(k, a, b)
      BY <1>1 DEF Counts, Room
    <2> QED
      BY <2>1, <2>2 DEF Fits
  <1> QED
    BY <1>1

(* A handler that calls nothing, and one that pushes.                      *)
LEMMA StackedStack ==
    ASSUME CallInv, StackInv, TopIs("prog"), Opcode.op \notin Ends,
           NEW s, NEW a \in Int, NEW b \in Int, Fits(s, a, b, app.overdrawn),
           LeftStack(OwnAt(call[Len(call)]), Opcode) <= a,
           LeftHash(OwnAt(call[Len(call)]), Opcode) <= b, Stacked(s)
    PROVE  StackInv'
  <1>1. /\ call' = Advance(call) /\ stk' = s /\ vm' = vm /\ app' = app
    BY DEF Stacked
  <1>2. app.overdrawn \in BOOLEAN
    BY DEF StackInv
  <1>3. app'.overdrawn = app.overdrawn /\ vm'.module = vm.module /\ vm'.owner = vm.owner
    BY <1>1
  <1>4. Fits(s, a, b, app'.overdrawn)
    BY <1>3
  <1> QED
    BY <1>1, <1>2, <1>3, <1>4, StepsOn

LEMMA PushStack ==
    ASSUME CallInv, StackInv, TopIs("prog"), Opcode.op \notin Ends,
           NEW s, NEW a \in Int, NEW b \in Int, Fits(s, a, b, app.overdrawn),
           LeftStack(OwnAt(call[Len(call)]), Opcode) <= a + 1,
           LeftHash(OwnAt(call[Len(call)]), Opcode) <= b,
           NEW x, ValueOK(x, call, Len(call)), PushOrThrow(s, "stack", x)
    PROVE  StackInv'
  <1>1. CASE Throw(s, vm)
    BY <1>1, FitsThrow
  <1>2. CASE Stacked(Push(s, "stack", x))
    <2>1. Fits(Push(s, "stack", x), a + 1, b, app.overdrawn) /\ a + 1 \in Int
      BY FitsPush
    <2> QED
      BY <1>2, <2>1, StackedStack
  <1> QED
    BY <1>1, <1>2 DEF PushOrThrow

(* An empty stack stays as it is.                                          *)
LEMMA PopEmpty ==
    ASSUME NEW c, NEW n, NEW s, Stacks(s, c, n), NEW k \in StackNames, Len(s[k].v) = 0
    PROVE  Pop(s, k, 1)[k].v = s[k].v
  <1>1. IsSeq(s[k].v) /\ 1 \in Nat /\ DOMAIN s = StackNames
        /\ s[k] = [v |-> s[k].v, protect |-> s[k].protect]
    BY DEF Stacks
  <1>2. PICK m : CutTo(s, k, 1, m)
    BY <1>1, PopCuts
  <1>3. m = 0 /\ 0 \in 0 .. Len(s[k].v)
    BY <1>2 DEF CutTo
  <1>4. SubSeq(s[k].v, 1, 0) = s[k].v
    BY <1>1, <1>3, BeginsSelf, BeginsCut
  <1> QED
    BY <1>1, <1>2, <1>3, <1>4 DEF CutTo

(* append takes an operand of the program, or the one that it counts.      *)
LEMMA AppendFits ==
    ASSUME CallInv, StackInv, TopIs("prog"), NEW b \in Int, NEW own \in Nat,
           Fits(stk, own, b, FALSE),
           ~(Len(stk["stack"].v) > 0 /\ Len(stk["stack"].v) <= call[Len(call)].count["stack"])
    PROVE  Fits(Pop(stk, "stack", 1), IF own < 1 THEN 0 ELSE own - 1, b, FALSE)
  <1> DEFINE n == Len(call)
             s == Pop(stk, "stack", 1)
             e == Len(call[n].at["stack"])
             l == Len(stk["stack"].v)
             p == IF own < 1 THEN 0 ELSE own - 1
  <1>1. own \in Int /\ 1 \in Nat /\ 1 \in Int /\ 1 >= 1 /\ "stack" \in StackNames
    BY DEF StackNames
  <1>2. call[n].count["stack"] = e /\ IsSeq(call[n].at["stack"])
    BY <1>1, OpFacts
  <1>3. Stacks(stk, call, n) /\ Stacks(s, call, n)
        /\ \A i \in StackNames : i # "stack" => s[i] = stk[i]
    BY <1>1, StackPop DEF Fits
  <1>4. e \in Nat /\ l \in Nat /\ Begins(call[n].at["stack"], stk["stack"].v) /\ e + own <= l
    BY <1>1, <1>2, <1>3 DEF Fits, Stacks, IsSeq, Counts, Room
  <1>5. CASE own >= 1
    <2>1. Fits(s, own - 1, b, FALSE)
      BY <1>1, <1>5, FitsPop
    <2>2. p = own - 1
      BY <1>5
    <2> HIDE DEF p, s
    <2> QED
      BY <2>1, <2>2 DEF p, s
  <1>6. CASE own < 1 /\ l > 0
    <2>1. l > e
      BY <1>2, <1>4, <1>6
    <2>2. e + 1 <= l
      BY <1>4, <2>1
    <2>3. Fits(stk, 1, b, FALSE)
      <3> SUFFICES ASSUME NEW k \in StackNames
                   PROVE  /\ Begins(call[n].at[k], stk[k].v)
                          /\ Len(call[n].at[k]) + Room(k, 1, b) <= Len(stk[k].v)
        BY <1>3 DEF Fits
      <3>1. CASE k = "stack"
        BY <1>4, <2>2, <3>1 DEF Room
      <3>2. CASE k # "stack"
        <4>1. Room(k, 1, b) = Room(k, own, b) /\ Counts(k, FALSE)
          BY <3>2 DEF Room, Counts
        <4> QED
          BY <4>1 DEF Fits
      <3> QED
        BY <3>1, <3>2
    <2>4. Fits(s, 1 - 1, b, FALSE)
      BY <1>1, <2>3, FitsPop
    <2>5. p = 1 - 1
      BY <1>6
    <2> HIDE DEF p, s
    <2> QED
      BY <2>4, <2>5 DEF p, s
  <1>7. CASE own < 1 /\ l = 0
    <2>1. s["stack"].v = stk["stack"].v
      BY <1>1, <1>3, <1>7, PopEmpty
    <2>2. own = 0
      BY <1>7
    <2> HIDE DEF s
    <2>3. Fits(s, 0, b, FALSE)
      <3>1. \A k \in StackNames : s[k].v = stk[k].v
        BY <1>3, <2>1
      <3> QED
        BY <1>3, <2>2, <3>1 DEF Fits
    <2>4. p = 0
      BY <1>7
    <2> HIDE DEF p
    <2> QED
      BY <2>3, <2>4 DEF p, s
  <1>8. own >= 1 \/ (own < 1 /\ l > 0) \/ (own < 1 /\ l = 0)
    <2> HIDE DEF l
    <2> QED
      BY <1>1, <1>4
  <1> HIDE DEF p, s
  <1> QED
    BY <1>5, <1>6, <1>7, <1>8 DEF p, s

(* What the opcodes that call nothing do to the program's values.          *)
LEMMA Effects ==
    ASSUME NEW own, NEW o, own.stack \in Nat, own.hash \in Nat
    PROVE  LET ls == LeftStack(own, o)
               lh == LeftHash(own, o)
           IN /\ o.op \in {"get_context", "append_content"} => ls = own.stack /\ lh = own.hash
              /\ o.op \in {"append", "append_escaped"} =>
                   ls = (IF own.stack < 1 THEN 0 ELSE own.stack - 1) /\ lh = own.hash
              /\ o.op \in {"push_context", "push_literal", "push_string", "push_program",
                           "empty_hash", "lookup_on_context", "lookup_block_param",
                           "lookup_data"} =>
                   ls = own.stack + 1 /\ lh = own.hash
              /\ o.op = "push_hash" => ls = own.stack /\ lh = own.hash + 1
              /\ (o.op = "assign_to_hash" /\ own.stack >= Takes(o)) =>
                   ls = own.stack - 1 /\ lh = own.hash /\ own.stack >= 1
              /\ o.op = "pop_hash" => ls = own.stack + 1 /\ lh = own.hash - 1
  <1> DEFINE x == own.stack
             y == own.hash
             ls == LeftStack(own, o)
             lh == LeftHash(own, o)
  <1>1. x \in Nat /\ y \in Nat
    OBVIOUS
  <1>2. ls = (IF x < Takes(o) THEN 0 ELSE x - Takes(o)) + Leaves(o)
        /\ lh = y - HashTakes(o) + HashLeaves(o)
    BY DEF LeftStack, LeftHash
  <1> HIDE DEF x, y, ls, lh
  <1>3. o.op \in {"get_context", "append_content"} => ls = x /\ lh = y
    <2>1. o.op \in {"get_context", "append_content"} =>
            Takes(o) = 0 /\ Leaves(o) = 0 /\ HashTakes(o) = 0 /\ HashLeaves(o) = 0
      BY DEF Takes, Leaves, HashTakes, HashLeaves
    <2> QED
      BY <1>1, <1>2, <2>1
  <1>4. o.op \in {"append", "append_escaped"} => ls = (IF x < 1 THEN 0 ELSE x - 1) /\ lh = y
    <2>1. o.op \in {"append", "append_escaped"} =>
            Takes(o) = 1 /\ Leaves(o) = 0 /\ HashTakes(o) = 0 /\ HashLeaves(o) = 0
      BY DEF Takes, Leaves, HashTakes, HashLeaves
    <2> QED
      BY <1>1, <1>2, <2>1
  <1>5. o.op \in {"push_context", "push_literal", "push_string", "push_program",
                  "empty_hash", "lookup_on_context", "lookup_block_param", "lookup_data"} =>
          ls = x + 1 /\ lh = y
    <2>1. o.op \in {"push_context", "push_literal", "push_string", "push_program",
                    "empty_hash", "lookup_on_context", "lookup_block_param", "lookup_data"} =>
            Takes(o) = 0 /\ Leaves(o) = 1 /\ HashTakes(o) = 0 /\ HashLeaves(o) = 0
      BY DEF Takes, Leaves, HashTakes, HashLeaves
    <2> QED
      BY <1>1, <1>2, <2>1
  <1>6. o.op = "push_hash" => ls = x /\ lh = y + 1
    <2>1. o.op = "push_hash" =>
            Takes(o) = 0 /\ Leaves(o) = 0 /\ HashTakes(o) = 0 /\ HashLeaves(o) = 1
      BY DEF Takes, Leaves, HashTakes, HashLeaves
    <2> QED
      BY <1>1, <1>2, <2>1
  <1>7. (o.op = "assign_to_hash" /\ x >= Takes(o)) => ls = x - 1 /\ lh = y /\ x >= 1
    <2>1. o.op = "assign_to_hash" =>
            Takes(o) = 1 /\ Leaves(o) = 0 /\ HashTakes(o) = 1 /\ HashLeaves(o) = 1
      BY DEF Takes, Leaves, HashTakes, HashLeaves
    <2> QED
      BY <1>1, <1>2, <2>1
  <1>8. o.op = "pop_hash" => ls = x + 1 /\ lh = y - 1
    <2>1. o.op = "pop_hash" =>
            Takes(o) = 0 /\ Leaves(o) = 1 /\ HashTakes(o) = 1 /\ HashLeaves(o) = 0
      BY DEF Takes, Leaves, HashTakes, HashLeaves
    <2> QED
      BY <1>1, <1>2, <2>1
  <1> QED
    BY <1>3, <1>4, <1>5, <1>6, <1>7, <1>8 DEF x, y, ls, lh

(* append.                                                                 *)
LEMMA AppendStack ==
    ASSUME CallInv, StackInv, AppendValue
    PROVE  StackInv'
  <1> DEFINE own == OwnAt(call[Len(call)])
             od == app.overdrawn
             s == Pop(stk, "stack", 1)
             few == Len(stk["stack"].v) > 0 /\ Len(stk["stack"].v) <= Last(call).count["stack"]
  <1>1. TopIs("prog") /\ Opcode.op \in {"append", "append_escaped"} /\ Opcode.op \notin Ends
    BY DEF AppendValue, At, Ends
  <1>2. /\ own.stack \in Nat /\ own.hash \in Nat /\ Last(call) = call[Len(call)]
        /\ Fits(stk, own.stack, own.hash, od) /\ od \in BOOLEAN
    BY <1>1, OpFacts, FitsStk DEF StackInv
  <1>3. CASE Throw(stk, vm)
    BY <1>1, <1>2, <1>3, FitsThrow
  <1>4. CASE /\ stk' = s /\ call' = Advance(call) /\ UNCHANGED vm
             /\ app' = [app EXCEPT !.overdrawn = od \/ few]
    <2> DEFINE x == own.stack
               y == own.hash
               p == IF x < 1 THEN 0 ELSE x - 1
               o == Opcode
    <2>1. app'.overdrawn = (od \/ few)
      BY <1>4 DEF CallInv, Registers
    <2>2. app'.overdrawn \in BOOLEAN /\ (od => app'.overdrawn)
      BY <1>2, <2>1
    <2>3. LeftStack(own, o) = p /\ LeftHash(own, o) = y
      <3> HIDE DEF own
      <3> QED
        BY <1>1, <1>2, Effects
    <2>4. x \in Nat /\ y \in Nat /\ Fits(stk, x, y, od)
      BY <1>2
    <2> HIDE DEF x, y, p, s, few, own
    <2>5. Fits(s, p, y, app'.overdrawn) /\ p \in Int
      <3>0. p \in Int /\ x \in Int /\ y \in Int
        BY <2>4 DEF p
      <3>1. CASE app'.overdrawn
        <4>1. Fits(stk, x, y, app'.overdrawn)
          BY <1>2, <2>2, <2>4, FitsLess
        <4>2. ~Counts("stack", app'.overdrawn) /\ 1 \in Nat
          BY <3>1 DEF Counts
        <4>3. Fits(s, x - 1, y, app'.overdrawn)
          BY <1>1, <3>0, <4>1, <4>2, FitsPop DEF s
        <4> QED
          BY <2>2, <3>0, <3>1, <4>3, FitsLess
      <3>2. CASE ~app'.overdrawn
        <4>1. od = FALSE /\ ~few /\ app'.overdrawn = FALSE
          BY <1>2, <2>1, <2>2, <3>2
        <4>2. Fits(stk, x, y, FALSE)
          BY <2>4, <4>1
        <4>3. ~(Len(stk["stack"].v) > 0 /\ Len(stk["stack"].v) <= call[Len(call)].count["stack"])
          BY <1>2, <4>1 DEF few
        <4>4. Fits(s, p, y, FALSE)
          BY <1>1, <2>4, <3>0, <4>2, <4>3, AppendFits DEF s, p
        <4> QED
          BY <3>0, <4>1, <4>4
      <3> QED
        BY <3>1, <3>2
    <2>6. LeftStack(own, o) <= p /\ LeftHash(own, o) <= y
      BY <2>3, <2>4, <2>5
    <2>7. /\ LeftStack(OwnAt(call[Len(call)]), Opcode) <= p
          /\ LeftHash(OwnAt(call[Len(call)]), Opcode) <= y
      BY <2>6 DEF own
    <2>8. vm'.module = vm.module /\ vm'.owner = vm.owner /\ y \in Int
      BY <1>4, <2>4
    <2>9. call' = Advance(call) /\ stk' = s
      BY <1>4 DEF s
    <2> QED
      BY <1>1, <2>2, <2>5, <2>7, <2>8, <2>9, StepsOn
  <1> QED
    BY <1>3, <1>4 DEF AppendValue

(* The opcodes that call nothing.                                          *)
LEMMA SimpleStack ==
    ASSUME CallInv, StackInv,
           \/ GetContext \/ AppendContent \/ AppendValue \/ PushValue \/ PushProgram
           \/ EmptyHash \/ PushHash \/ AssignToHash \/ PopHash
           \/ LookupOnContext \/ LookupBlockParam \/ LookupData \/ Unhandled
    PROVE  StackInv'
  <1> DEFINE n == Len(call)
             own == OwnAt(call[n])
             x == own.stack
             y == own.hash
             od == app.overdrawn
             ls == LeftStack(own, Opcode)
             lh == LeftHash(own, Opcode)
  <1>1. TopIs("prog")
    BY DEF GetContext, AppendContent, AppendValue, PushValue, PushProgram, EmptyHash,
           PushHash, AssignToHash, PopHash, LookupOnContext, LookupBlockParam, LookupData,
           Unhandled, At
  <1>2. /\ x \in Nat /\ y \in Nat /\ Fits(stk, x, y, od)
        /\ Opcode.op \in {"append", "append_escaped"} \/ x >= Takes(Opcode)
        /\ y >= HashTakes(Opcode)
        /\ Opcode.op = "push_program" => Opcode.n \in Int
    BY <1>1, OpFacts, FitsStk
  <1>3. Stacks(stk, call, n)
    BY <1>2 DEF Fits
  <1>4. ASSUME NEW s, NEW a, NEW b, Fits(s, a, b, od), Throw(s, vm) PROVE StackInv'
    BY <1>1, <1>4, FitsThrow
  <1>5. ASSUME NEW what, Fault(what) PROVE StackInv'
    BY <1>5, FaultStack
  <1>6. ASSUME Opcode.op \notin Ends, NEW s, NEW a \in Int, NEW b \in Int, Fits(s, a, b, od),
               ls <= a, lh <= b, Stacked(s)
        PROVE  StackInv'
    BY <1>1, <1>6, StackedStack
  <1>7. ASSUME Opcode.op \notin Ends, NEW s, NEW a \in Int, NEW b \in Int, Fits(s, a, b, od),
               ls <= a + 1, lh <= b, NEW z, ValueOK(z, call, n), PushOrThrow(s, "stack", z)
        PROVE  StackInv'
    BY <1>1, <1>7, PushStack
  <1>8. /\ ValueOK(Null, call, n) /\ ValueOK(Plain, call, n) /\ ValueOK(Hash, call, n)
        /\ \A z \in Found : ValueOK(z, call, n) /\ \A i \in Int : ValueOK(ProgramNum(i), call, n)
    BY PlainOK
  <1>9. /\ Opcode.op \in {"get_context", "append_content"} => ls = x /\ lh = y
        /\ Opcode.op \in {"push_context", "push_literal", "push_string", "push_program",
                          "empty_hash", "lookup_on_context", "lookup_block_param",
                          "lookup_data"} => ls = x + 1 /\ lh = y
        /\ Opcode.op = "push_hash" => ls = x /\ lh = y + 1
        /\ (Opcode.op = "assign_to_hash" /\ x >= Takes(Opcode)) => ls = x - 1 /\ lh = y /\ x >= 1
        /\ Opcode.op = "pop_hash" => ls = x + 1 /\ lh = y - 1
    <2>1. own.stack \in Nat /\ own.hash \in Nat
      BY <1>2
    <2> HIDE DEF own
    <2> QED
      BY <2>1, Effects
  <1>10. Opcode.op \in {"assign_to_hash", "pop_hash"} => HashTakes(Opcode) = 1
    BY DEF HashTakes
  <1>11. x \in Int /\ y \in Int /\ 1 \in Nat
    BY <1>2
  <1>12. ASSUME NEW s, NEW a \in Int, NEW b \in Int, Fits(s, a, b, od)
         PROVE  /\ a >= 1 => Fits(Pop(s, "stack", 1), a - 1, b, od)
                /\ b >= 1 => Fits(Pop(s, "hash", 1), a, b - 1, od)
    BY <1>1, <1>11, <1>12, FitsPop
  <1>13. ASSUME NEW s, NEW a \in Int, NEW b \in Int, Fits(s, a, b, od), NEW z
         PROVE  Fits(Push(s, "hash", z), a, b + 1, od)
    BY <1>1, <1>13, FitsPush
  <1>14. /\ Opcode.op \in {"get_context", "append_content"} => ls <= x /\ lh <= y
         /\ Opcode.op \in {"push_context", "push_literal", "push_string", "push_program",
                           "empty_hash", "lookup_on_context", "lookup_block_param",
                           "lookup_data"} => ls <= x + 1 /\ lh <= y
    <2> HIDE DEF ls, lh, x, y
    <2> QED
      BY <1>9, <1>11
  <1> HIDE DEF n, own, x, y, od, ls, lh
  <1>20. CASE GetContext \/ AppendContent
    <2>1. Opcode.op \in {"get_context", "append_content"} /\ Opcode.op \notin Ends /\ Stacked(stk)
      BY <1>20 DEF GetContext, AppendContent, At, Ends
    <2> QED
      BY <1>2, <1>6, <1>11, <1>14, <2>1
  <1>21. CASE AppendValue
    BY <1>21, AppendStack
  <1>22. ASSUME Opcode.op \in {"push_context", "push_literal", "push_string", "push_program",
                               "empty_hash", "lookup_on_context", "lookup_block_param",
                               "lookup_data"},
                NEW z, ValueOK(z, call, n), PushOrThrow(stk, "stack", z)
         PROVE  StackInv'
    <2>1. Opcode.op \notin Ends
      BY <1>22 DEF Ends
    <2> QED
      BY <1>2, <1>7, <1>11, <1>14, <1>22, <2>1
  <1>23. CASE PushValue
    BY <1>8, <1>22, <1>23 DEF PushValue, At
  <1>24. CASE PushProgram
    <2>1. Opcode.op = "push_program" /\ PushOrThrow(stk, "stack", ProgramNum(Opcode.n))
      BY <1>24 DEF PushProgram, At
    <2>2. ValueOK(ProgramNum(Opcode.n), call, n)
      BY <1>2, <2>1 DEF ValueOK, ProgramNum
    <2> QED
      BY <1>22, <2>1, <2>2
  <1>25. CASE EmptyHash
    BY <1>8, <1>22, <1>25 DEF EmptyHash, At
  <1>26. CASE PushHash
    <2>1. Opcode.op = "push_hash" /\ Opcode.op \notin Ends /\ PushOrThrow(stk, "hash", Hash)
      BY <1>26 DEF PushHash, At, Ends
    <2>2. CASE Throw(stk, vm)
      BY <1>2, <1>4, <2>2
    <2>3. CASE Stacked(Push(stk, "hash", Hash))
      <3>1. Fits(Push(stk, "hash", Hash), x, y + 1, od)
        BY <1>2, <1>11, <1>13
      <3>2. ls <= x /\ lh <= y + 1 /\ y + 1 \in Int
        BY <1>9, <1>11, <2>1
      <3> QED
        BY <1>6, <1>11, <2>1, <2>3, <3>1, <3>2
    <2> QED
      BY <2>1, <2>2, <2>3 DEF PushOrThrow
  <1>27. CASE AssignToHash
    <2> DEFINE s1 == Pop(stk, "hash", 1)
               s2 == Pop(s1, "stack", 1)
    <2>1. Opcode.op = "assign_to_hash" /\ Opcode.op \notin Ends
      BY <1>27 DEF AssignToHash, At, Ends
    <2>2. x >= 1 /\ y >= 1 /\ ls = x - 1 /\ lh = y
      BY <1>2, <1>9, <1>10, <2>1
    <2>3. Fits(s1, x, y - 1, od) /\ y - 1 \in Int /\ x - 1 \in Int
      BY <1>2, <1>11, <1>12, <2>2
    <2>4. \/ Throw(stk, vm) \/ Throw(s1, vm) \/ Stacked(Push(s2, "hash", Hash))
      BY <1>27 DEF AssignToHash
    <2> HIDE DEF s1
    <2>5. Fits(s2, x - 1, y - 1, od)
      BY <1>11, <1>12, <2>2, <2>3
    <2> HIDE DEF s2
    <2>6. Fits(Push(s2, "hash", Hash), x - 1, (y - 1) + 1, od)
      BY <1>13, <2>3, <2>5
    <2>7. ls <= x - 1 /\ lh <= (y - 1) + 1 /\ (y - 1) + 1 \in Int
      BY <1>11, <2>2
    <2>8. CASE Throw(stk, vm)
      BY <1>2, <1>4, <2>8
    <2>9. CASE Throw(s1, vm)
      BY <1>4, <2>3, <2>9
    <2>10. CASE Stacked(Push(s2, "hash", Hash))
      BY <1>6, <2>1, <2>3, <2>6, <2>7, <2>10
    <2> QED
      BY <2>4, <2>8, <2>9, <2>10
  <1>28. CASE PopHash
    <2> DEFINE s1 == Pop(stk, "hash", 1)
    <2>1. Opcode.op = "pop_hash" /\ Opcode.op \notin Ends
      BY <1>28 DEF PopHash, At, Ends
    <2>2. y >= 1 /\ ls = x + 1 /\ lh = y - 1
      BY <1>2, <1>9, <1>10, <2>1
    <2>3. Fits(s1, x, y - 1, od) /\ y - 1 \in Int /\ ls <= x + 1 /\ lh <= y - 1
      BY <1>2, <1>11, <1>12, <2>2
    <2>4. \/ Throw(stk, vm) \/ PushOrThrow(s1, "stack", Hash)
      BY <1>28 DEF PopHash
    <2> HIDE DEF s1
    <2> QED
      BY <1>2, <1>4, <1>7, <1>8, <1>11, <2>1, <2>3, <2>4
  <1>29. CASE LookupOnContext
    <2>1. Opcode.op = "lookup_on_context"
      BY <1>29 DEF LookupOnContext, At
    <2>2. (\E z \in Found : PushOrThrow(stk, "stack", z)) \/ Throw(stk, vm)
      BY <1>29 DEF LookupOnContext
    <2> QED
      BY <1>2, <1>4, <1>8, <1>22, <2>1, <2>2
  <1>30. CASE LookupBlockParam
    BY <1>8, <1>22, <1>30 DEF LookupBlockParam, At
  <1>31. CASE LookupData
    <2>1. ValueOK(Top(stk, "partialBlock"), call, n)
      BY <1>3, StackTop
    <2>2. Opcode.op = "lookup_data"
      BY <1>31 DEF LookupData, At
    <2>3. \/ \E z \in Found : PushOrThrow(stk, "stack", z)
          \/ Fault("null value") \/ PushOrThrow(stk, "stack", Top(stk, "partialBlock"))
          \/ Throw(stk, vm)
      BY <1>31 DEF LookupData
    <2> QED
      BY <1>2, <1>4, <1>5, <1>8, <1>22, <2>1, <2>2, <2>3
  <1>32. CASE Unhandled
    BY <1>2, <1>4, <1>32 DEF Unhandled
  <1> QED
    BY <1>20, <1>21, <1>23, <1>24, <1>25, <1>26, <1>27, <1>28, <1>29, <1>30, <1>31, <1>32

-----------------------------------------------------------------------------
(* Handlers that call *)

(* What the program keeps while the handler of its opcode waits.           *)
HandlerFits(f, s) ==
    /\ HandlerReg(f, call, Len(call))
    /\ f.op = Opcode.op
    /\ \E a \in Int, b \in Int :
         /\ Fits(s, a, b, app.overdrawn)
         /\ OwnAt(call[Len(call)]).stack - Takes(Opcode) <= a
         /\ OwnAt(call[Len(call)]).hash <= b
    /\ f.pushed =>
         Len(call[Len(call)].at["partialBlock"]) + 1 <= Len(s["partialBlock"].v)

(* The frame of the handler.                                               *)
LEMMA HandlerStack ==
    ASSUME CallInv, StackInv, TopIs("prog"), Opcode.op \in CallingOps,
           NEW f, NEW s, HandlerFits(f, s)
    PROVE  /\ StackOK(Append(call, f), vm, s, app.overdrawn)
           /\ Frames(Append(call, f), Base, error)
           /\ Len(Append(call, f)) = Len(call) + 1
           /\ Append(call, f)[Len(call) + 1].kind = "op"
           /\ Live(Append(call, f), Len(call) + 1) = Live(call, Len(call))
  <1> DEFINE n == Len(call)
             d == Append(call, f)
             od == app.overdrawn
             own == OwnAt(call[n])
             base == Base
             err == error
  <1>1. /\ n \in Nat \ {0} /\ IsSeq(call) /\ Frames(call, base, err)
        /\ \A i \in 1 .. n : FrameKept(call, i)
        /\ ModuleOK(vm.module, call, n) /\ vm.owner # 0
        /\ StackOK(call, vm, stk, od) /\ od \in BOOLEAN
    BY OpFacts, StackFacts
  <1>2. /\ call[n].kind = "prog" /\ \A k \in StackNames : IsSeq(call[n].at[k])
        /\ own.stack \in Nat /\ own.hash \in Nat /\ Takes(Opcode) \in Nat
        /\ Opcode = OpAt(call[n]) /\ Len(call) > 0 /\ CallOK(call, jmp, base, err)
    BY <1>1, OpFacts DEF CallInv
  <1>3. HandlerReg(f, call, n) /\ f.op = Opcode.op /\ f.kind = "op" /\ FrameOK(f)
    BY DEF HandlerFits, HandlerReg
  <1>4. PICK a \in Int, b \in Int :
          Fits(s, a, b, od) /\ own.stack - Takes(Opcode) <= a /\ own.hash <= b
    BY DEF HandlerFits
  <1> DEFINE st == own.stack - Takes(Opcode)
             ha == own.hash
  <1>5. st \in Int /\ ha \in Int /\ st <= a /\ ha <= b
    BY <1>2, <1>4
  <1>6. /\ IsSeq(d) /\ Len(d) = n + 1 /\ d[n + 1] = f
        /\ \A i \in 1 .. n : d[i] = call[i]
    BY <1>1, AppendSeq
  <1> HIDE DEF base, err, d
  <1>7. Frames(d, base, err)
    <2>1. call[n].kind # "tmpl" /\ call[n].kind \in Callers(f.kind) /\ f.kind \in {"prog", "op", "block"}
      BY <1>2, <1>3 DEF Callers
    <2>2. CallOK(Append(call, f), jmp, base, err)
      BY <1>2, <1>3, <2>1, Calls
    <2> QED
      BY <2>2 DEF CallOK, d
  <1>8. Live(d, n + 1) = Live(call, n) /\ Live(d, n) = Live(call, n)
    BY <1>1, <1>3, <1>6 DEF Live
  <1>9. FrameKept(d, n + 1)
    <2>1. ValueOK(f.value, d, n) /\ ValueOK(f.result, d, n) /\ f.program \in Int /\ f.inverse \in Int
      BY <1>3, <1>8, ValueLives DEF HandlerReg
    <2>2. n + 1 - 1 = n /\ d[n] = call[n]
      BY <1>1, <1>6
    <2>3. f.op = OpAt(d[n]).op /\ f.op \in CallingOps
      BY <1>2, <1>3, <2>2
    <2> QED
      BY <1>3, <1>6, <2>1, <2>2, <2>3 DEF FrameKept
  <1>10. InnermostHas(s, call, d, n, od)
    <2> SUFFICES ASSUME NEW h \in 1 .. n, NEW k \in StackNames, Runs(h, call, n), Counts(k, od)
                 PROVE  Covers(s[k].v, d, h, k)
      BY DEF InnermostHas
    <2>1. h = n
      BY <1>1, <1>2 DEF Runs
    <2>2. /\ Begins(call[n].at[k], s[k].v) /\ Len(call[n].at[k]) + Room(k, a, b) <= Len(s[k].v)
          /\ IsSeq(s[k].v)
      BY <1>4 DEF Fits, Stacks
    <2>3. k # "partialBlock" => Kept(d, n, k) = Room(k, st, ha)
      <3>1. d[n] = call[n] /\ n # Len(d)
        BY <1>1, <1>6
      <3>2. k \in {"stack", "hash", "context", "blockParam", "partialBlock"}
        BY DEF StackNames
      <3> QED
        BY <1>2, <3>1, <3>2 DEF Kept, Room
    <2>4. k = "partialBlock" => Kept(d, n, k) = Count1(f.pushed)
      <3>1. ~(n + 2 <= Len(d)) /\ n + 1 <= Len(d)
        BY <1>1, <1>6
      <3>2. ~Pushed(d, n + 2, "block") /\ (Pushed(d, n + 1, "op") <=> f.pushed)
        BY <1>3, <1>6, <3>1 DEF Pushed
      <3>3. Count1(Pushed(d, n + 1, "op")) = Count1(f.pushed)
            /\ Count1(Pushed(d, n + 2, "block")) = 0 /\ Count1(f.pushed) \in {0, 1}
        BY <3>2 DEF Count1
      <3> QED
        BY <3>3 DEF Kept
    <2>5. CASE k # "partialBlock"
      <3> DEFINE p == Room(k, st, ha)
                 q == Room(k, a, b)
                 e == Len(call[n].at[k])
                 l == Len(s[k].v)
      <3>1. p \in Int /\ q \in Int /\ p <= q
        <4> HIDE DEF st, ha
        <4> QED
          BY <1>5 DEF Room
      <3>2. e \in Nat /\ l \in Nat /\ e + q <= l
        BY <1>2, <2>2 DEF IsSeq
      <3> HIDE DEF p, q, e, l
      <3>3. e + p <= l
        BY <3>1, <3>2
      <3>4. d[n].at[k] = call[n].at[k]
        BY <1>1, <1>6
      <3>5. Len(d[n].at[k]) + Kept(d, n, k) <= Len(s[k].v)
        BY <2>3, <2>5, <3>3, <3>4 DEF p, e, l
      <3> QED
        BY <2>1, <2>2, <3>4, <3>5 DEF Covers
    <2>6. CASE k = "partialBlock"
      <3> DEFINE e == Len(call[n].at[k])
                 l == Len(s[k].v)
      <3>1. e \in Nat /\ l \in Nat /\ e <= l
        BY <1>2, <2>2 DEF IsSeq, Begins
      <3>2. f.pushed => e + 1 <= l
        BY <2>6 DEF HandlerFits
      <3> HIDE DEF e, l
      <3>3. e + Count1(f.pushed) <= l
        BY <3>1, <3>2 DEF Count1
      <3>4. d[n].at[k] = call[n].at[k]
        BY <1>1, <1>6
      <3>5. Len(d[n].at[k]) + Kept(d, n, k) <= Len(s[k].v)
        BY <2>4, <2>6, <3>3, <3>4 DEF e, l
      <3> QED
        BY <2>1, <2>2, <3>4, <3>5 DEF Covers
    <2> QED
      BY <2>5, <2>6
  <1>11. StackOK(d, vm, s, od)
    <2>1. Len(d) = Len(call) + 1 /\ d[Len(d)].kind # "prog" /\ FrameKept(d, Len(d))
      BY <1>3, <1>6, <1>9
    <2>2. ModuleOK(vm.module, d, Len(d)) /\ Stacks(s, call, Len(call))
      BY <1>1, <1>4, <1>6, <1>8, ValueLives DEF Fits
    <2> QED
      BY <1>1, <1>6, <1>10, <2>1, <2>2, GrowStack
  <1> QED
    BY <1>3, <1>6, <1>7, <1>8, <1>11 DEF d, base, err

(* The frame of what it calls.                                             *)
LEMMA CalleeStack ==
    ASSUME NEW c, NEW base, NEW err, Frames(c, base, err), Len(c) > 0, c[Len(c)].kind = "op",
           NEW s, NEW od \in BOOLEAN, StackOK(c, vm, s, od),
           NEW x, \/ x.kind = "block" /\ ~x.pushed /\ BlockOK(x.closure, c, Len(c))
                  \/ x.kind = "tmpl" /\ x.tmpl \in Templates
    PROVE  StackOK(Append(c, x), vm, s, od)
  <1> DEFINE n == Len(c)
             d == Append(c, x)
  <1>1. /\ IsSeq(c) /\ n \in Nat \ {0} /\ \A i \in 1 .. n : FrameKept(c, i)
        /\ ModuleOK(vm.module, c, n) /\ vm.owner # 0 /\ Stacks(s, c, n)
    BY DEF StackOK, Frames, IsSeq
  <1>2. /\ Len(d) = n + 1 /\ d[n + 1] = x
        /\ \A i \in 1 .. n : d[i] = c[i]
    BY <1>1, AppendSeq
  <1> HIDE DEF d
  <1>3. Live(c, n) \subseteq Live(d, n) /\ Live(c, n) \subseteq Live(d, n + 1)
    BY <1>1, <1>2 DEF Live
  <1>4. FrameKept(d, Len(d)) /\ d[Len(d)].kind # "prog"
    <2>1. CASE x.kind = "block"
      <3>1. BlockOK(x.closure, c, n)
        BY <2>1
      <3>2. BlockOK(x.closure, d, n)
        BY <1>3, <3>1, ValueLives
      <3>3. Len(d) - 1 = n /\ d[Len(d)] = x
        BY <1>1, <1>2
      <3> QED
        BY <2>1, <3>2, <3>3 DEF FrameKept
    <2>2. CASE x.kind = "tmpl"
      BY <1>2, <2>2 DEF FrameKept
    <2> QED
      BY <2>1, <2>2
  <1>5. d[Len(d)].kind \in {"op", "block"} => ~d[Len(d)].pushed
    BY <1>2
  <1>6. InnermostHas(s, c, d, n, od)
    <2>1. Over(s, c, n, od) /\ \A k \in StackNames : IsSeq(s[k].v)
      BY OverAll
    <2> QED
      BY <1>1, <1>2, <1>5, <2>1, HasGrown
  <1>7. ModuleOK(vm.module, d, Len(d))
    BY <1>1, <1>2, <1>3, ValueLives
  <1>8. StackOK(d, vm, s, od)
    BY <1>1, <1>2, <1>4, <1>6, <1>7, GrowStack
  <1> QED
    BY <1>8 DEF d

(* handlebars_value_call.                                                  *)
LEMMA InvokeStack ==
    ASSUME CallInv, StackInv, TopIs("prog"), Opcode.op \in CallingOps,
           NEW f, NEW s, HandlerFits(f, s),
           NEW callee, CalleeOK(callee, call, Len(call)), NEW ctx, Invoke(f, s, callee, ctx)
    PROVE  StackInv'
  <1> DEFINE n == Len(call)
             f1 == [f EXCEPT !.helper = FALSE]
             b == [kind |-> "block", done |-> FALSE, closure |-> callee,
                   ctx |-> ctx, pushed |-> FALSE]
             found == callee.t = "tmpl" /\ Key(callee.tmpl) \in cached
             t == [kind |-> "tmpl", done |-> FALSE, tmpl |-> callee.tmpl, ctx |-> ctx,
                   fromCache |-> found, prevJmp |-> jmp, prevDepth |-> vm.depth]
             od == app.overdrawn
             c1 == Append(call, f1)
  <1>1. /\ call # <<>> /\ IsSeq(call) /\ n \in Nat \ {0} /\ DOMAIN vm = VmFields /\ od \in BOOLEAN
    BY OpFacts, StackFacts
  <1>2. /\ call' = IF callee.t = "fn" THEN call \o <<f>>
                   ELSE IF callee.t = "block" THEN call \o <<f1, b>> ELSE call \o <<f1, t>>
        /\ stk' = s /\ app' = app
        /\ vm' = IF f.op = "invoke_ambiguous" THEN [vm EXCEPT !.lastHelper = "none"] ELSE vm
    BY DEF Invoke
  <1>3. vm'.owner = vm.owner /\ vm'.module = vm.module
    BY <1>1, <1>2 DEF VmFields
  <1>4. HandlerReg(f, call, n) /\ FrameOK(f) /\ f.kind = "op"
    BY DEF HandlerFits, HandlerReg
  <1>5. HandlerFits(f1, s)
    <2>1. /\ FrameOK(f1) /\ f1.kind = "op" /\ f1.op = f.op /\ f1.pushed = f.pushed
          /\ f1.program = f.program /\ f1.inverse = f.inverse /\ f1.value = f.value
          /\ f1.result = f.result
      BY <1>4 DEF FrameOK, Fields, Kinds
    <2> HIDE DEF f1
    <2>2. HandlerReg(f1, call, n)
      BY <1>4, <2>1 DEF HandlerReg
    <2> QED
      BY <2>1, <2>2 DEF HandlerFits
  <1>6. b.kind = "block" /\ ~b.pushed /\ b.closure = callee
        /\ t.kind = "tmpl" /\ t.tmpl = callee.tmpl
    OBVIOUS
  <1> HIDE DEF f1, b, t, found
  <1>7. /\ StackOK(c1, vm, s, od) /\ Frames(c1, Base, error) /\ Len(c1) = n + 1
        /\ c1[Len(c1)].kind = "op" /\ Live(c1, Len(c1)) = Live(call, n) /\ Len(c1) > 0
    <2>1. /\ StackOK(c1, vm, s, od) /\ Frames(c1, Base, error) /\ Len(c1) = n + 1
          /\ c1[n + 1].kind = "op" /\ Live(c1, n + 1) = Live(call, n)
      BY <1>5, HandlerStack
    <2> HIDE DEF c1
    <2> QED
      BY <1>1, <2>1
  <1>8. StackOK(call', vm, s, od)
    <2>1. CASE callee.t = "fn"
      <3>1. call' = Append(call, f)
        BY <1>1, <1>2, <2>1, AppendOne
      <3> QED
        BY <3>1, HandlerStack
    <2>2. CASE callee.t = "block"
      <3>1. call' = Append(c1, b)
        BY <1>1, <1>2, <2>2, AppendTwo
      <3> HIDE DEF c1
      <3>2. BlockOK(b.closure, c1, Len(c1))
        BY <1>6, <1>7, <2>2, ValueLives DEF CalleeOK
      <3>3. StackOK(Append(c1, b), vm, s, od)
        BY <1>1, <1>6, <1>7, <3>2, CalleeStack
      <3> QED
        BY <3>1, <3>3
    <2>3. CASE callee.t = "tmpl"
      <3>1. call' = Append(c1, t)
        BY <1>1, <1>2, <2>3, AppendTwo
      <3> HIDE DEF c1
      <3>2. t.tmpl \in Templates
        BY <1>6, <2>3 DEF CalleeOK
      <3>3. StackOK(Append(c1, t), vm, s, od)
        BY <1>1, <1>6, <1>7, <3>2, CalleeStack
      <3> QED
        BY <3>1, <3>3
    <2> QED
      BY <2>1, <2>2, <2>3 DEF CalleeOK
  <1> QED
    BY <1>1, <1>2, <1>3, <1>8 DEF StackInv, StackOK

(* The programs of a helper's options are numbers, also after an error.    *)
LEMMA OptionsStack ==
    ASSUME CallInv, StackInv, call # <<>>, NEW k \in {0, 1}
    PROVE  LET f == Handler(OptProgram(k), OptInverse(k))
           IN /\ OptProgram(k) \in Int /\ HandlerReg(f, call, Len(call))
              /\ f.op = Opcode.op /\ ~f.pushed
  <1>1. Stacks(stk, call, Len(call))
    BY StackFacts
  <1>2. ASSUME NEW j \in Nat \ {0}
        PROVE  OptProgramAt(j) \in Int
    <2>1. ValueOK(Popped(stk, "stack", j), call, Len(call))
      BY <1>1, StackTop
    <2>2. IntVal(Popped(stk, "stack", j)) \in Int
      BY <2>1 DEF IntVal, ValueOK
    <2> QED
      BY <2>2 DEF OptProgramAt
  <1>3. OptProgram(k) \in Int /\ OptInverse(k) \in Int
    <2>1. k + 2 \in Nat \ {0} /\ k + 3 \in Nat \ {0}
      OBVIOUS
    <2> QED
      BY <1>2, <2>1 DEF OptProgram, OptInverse
  <1>4. ASSUME NEW a \in Int, NEW b \in Int
        PROVE  /\ HandlerReg(Handler(a, b), call, Len(call))
               /\ Handler(a, b).op = Opcode.op /\ ~Handler(a, b).pushed
    <2>1. FrameOK(Handler(a, b)) /\ Handler(a, b).kind = "op"
      BY HandlerOK
    <2>2. /\ Handler(a, b).program = a /\ Handler(a, b).inverse = b
          /\ Handler(a, b).value = Null /\ Handler(a, b).result = Null
          /\ Handler(a, b).op = Opcode.op /\ ~Handler(a, b).pushed
      BY DEF Handler
    <2> QED
      BY <2>1, <2>2, PlainOK DEF HandlerReg
  <1> QED
    BY <1>3, <1>4

(* What the calling opcodes do to the program's values.                    *)
LEMMA CallingEffects ==
    ASSUME CallInv, StackInv, TopIs("prog"), Opcode.op \in CallingOps
    PROVE  LET own == OwnAt(call[Len(call)])
           IN /\ own.stack \in Nat /\ own.hash \in Nat /\ Takes(Opcode) \in Nat
              /\ own.stack >= Takes(Opcode) /\ Opcode.op \notin Ends
              /\ Fits(stk, own.stack, own.hash, app.overdrawn)
              /\ Fits(Pop(stk, "stack", Takes(Opcode)), own.stack - Takes(Opcode), own.hash,
                      app.overdrawn)
              /\ LeftStack(own, Opcode) = own.stack - Takes(Opcode) + Leaves(Opcode)
              /\ LeftHash(own, Opcode) = own.hash
              /\ Leaves(Opcode) \in {0, 1}
  <1> DEFINE own == OwnAt(call[Len(call)])
             x == own.stack
             y == own.hash
             z == Takes(Opcode)
  <1>1. /\ x \in Nat /\ y \in Nat /\ z \in Nat /\ Leaves(Opcode) \in {0, 1}
        /\ x >= z \/ Opcode.op \in {"append", "append_escaped"}
        /\ Fits(stk, x, y, app.overdrawn)
    BY OpFacts, FitsStk
  <1>2. /\ Opcode.op \notin {"append", "append_escaped"} /\ Opcode.op \notin Ends
        /\ HashTakes(Opcode) = 0 /\ HashLeaves(Opcode) = 0
    BY DEF CallingOps, HashTakes, HashLeaves, Ends
  <1>3. /\ LeftStack(own, Opcode) = (IF x < z THEN 0 ELSE x - z) + Leaves(Opcode)
        /\ LeftHash(own, Opcode) = y - HashTakes(Opcode) + HashLeaves(Opcode)
    BY DEF LeftStack, LeftHash
  <1> HIDE DEF x, y, z, own
  <1>4. x >= z /\ x \in Int /\ y \in Int
    BY <1>1, <1>2
  <1>5. Fits(Pop(stk, "stack", z), x - z, y, app.overdrawn)
    BY <1>1, <1>4, FitsPop
  <1>6. LeftStack(own, Opcode) = x - z + Leaves(Opcode) /\ LeftHash(own, Opcode) = y
    BY <1>1, <1>2, <1>3, <1>4
  <1> QED
    BY <1>1, <1>2, <1>4, <1>5, <1>6 DEF x, y, z, own

(* The opcodes that call helpers, programs or templates.                   *)
LEMMA CallingStack ==
    ASSUME CallInv, StackInv,
           \/ ResolvePossibleLambda \/ InvokeAmbiguous \/ InvokeHelper \/ InvokeKnownHelper
           \/ BlockValue \/ AmbiguousBlockValue \/ InvokePartial
    PROVE  StackInv'
  <1> DEFINE n == Len(call)
             own == OwnAt(call[n])
             x == own.stack
             y == own.hash
             z == Takes(Opcode)
             od == app.overdrawn
             taken == Pop(stk, "stack", z)
             value == Popped(stk, "stack", 1)
             h(k) == Handler(OptProgram(k), OptInverse(k))
  <1>1. TopIs("prog") /\ Opcode.op \in CallingOps
    BY DEF ResolvePossibleLambda, InvokeAmbiguous, InvokeHelper, InvokeKnownHelper,
           BlockValue, AmbiguousBlockValue, InvokePartial, At, CallingOps
  <1>2. /\ x \in Nat /\ y \in Nat /\ z \in Nat /\ x >= z /\ Opcode.op \notin Ends
        /\ Fits(stk, x, y, od) /\ Fits(taken, x - z, y, od)
        /\ LeftStack(own, Opcode) = x - z + Leaves(Opcode) /\ LeftHash(own, Opcode) = y
        /\ Leaves(Opcode) \in {0, 1}
    BY <1>1, CallingEffects
  <1>3. call # <<>> /\ Stacks(stk, call, n) /\ ModuleOK(vm.module, call, n)
        /\ \A k \in StackNames : IsSeq(call[n].at[k])
    BY <1>1, OpFacts, StackFacts
  <1>4. ASSUME NEW s, NEW a, NEW b, Fits(s, a, b, od), Throw(s, vm) PROVE StackInv'
    BY <1>1, <1>4, FitsThrow
  <1>5. ASSUME NEW f, NEW s, HandlerFits(f, s), NEW callee, CalleeOK(callee, call, n),
               NEW ctx, Invoke(f, s, callee, ctx)
        PROVE  StackInv'
    BY <1>1, <1>5, InvokeStack
  <1>6. ASSUME NEW f, HandlerReg(f, call, n), f.op = Opcode.op, ~f.pushed
        PROVE  HandlerFits(f, taken)
    <2>1. x - z \in Int /\ y \in Int /\ x - z <= x - z /\ y <= y
      BY <1>2
    <2> QED
      BY <1>2, <1>6, <2>1 DEF HandlerFits
  <1>7. ValueOK(value, call, n)
    BY <1>3, StackTop
  <1>8. \A k \in {0, 1} : HandlerReg(h(k), call, n) /\ h(k).op = Opcode.op /\ ~h(k).pushed
    BY <1>3, OptionsStack
  <1>9. CalleeOK(CalleeOf(value), call, n) /\ CalleeOK(Fn, call, n)
        /\ (IsCallable(value) => CalleeOK(value, call, n))
    BY <1>7, CalleeReg
  <1>10. \A k \in {0, 1} : HandlerFits(h(k), taken)
    BY <1>6, <1>8
  <1>11. x \in Int /\ y \in Int /\ x - z \in Int
    BY <1>2
  <1>12. ASSUME Leaves(Opcode) = 1, NEW v, ValueOK(v, call, n), PushOrThrow(taken, "stack", v)
         PROVE  StackInv'
    <2>1. LeftStack(own, Opcode) <= (x - z) + 1 /\ LeftHash(own, Opcode) <= y
      BY <1>2, <1>11, <1>12
    <2> HIDE DEF taken, x, y, z
    <2>2. /\ LeftStack(OwnAt(call[Len(call)]), Opcode) <= (x - z) + 1
          /\ LeftHash(OwnAt(call[Len(call)]), Opcode) <= y
      BY <2>1 DEF own, n
    <2> QED
      BY <1>1, <1>2, <1>11, <1>12, <2>2, PushStack DEF n
  <1>13. ASSUME NEW s, NEW a \in Int, Fits(s, a, y, od), LeftStack(own, Opcode) <= a, Stacked(s)
         PROVE  StackInv'
    <2>1. LeftHash(own, Opcode) <= y
      BY <1>2
    <2> HIDE DEF y
    <2>2. /\ LeftStack(OwnAt(call[Len(call)]), Opcode) <= a
          /\ LeftHash(OwnAt(call[Len(call)]), Opcode) <= y
      BY <1>13, <2>1 DEF own, n
    <2> QED
      BY <1>1, <1>2, <1>11, <1>13, <2>2, StackedStack
  <1> HIDE DEF n, own, x, y, z, od, taken, value, h
  <1>20. CASE ResolvePossibleLambda
    <2>1. z = 1 /\ Leaves(Opcode) = 1
      BY <1>20 DEF ResolvePossibleLambda, At, Takes, Leaves, z
    <2>2. \/ Throw(stk, vm)
          \/ /\ IsCallable(value)
             /\ Invoke(Handler(0, 0), taken, value, Last(stk["context"].v))
          \/ PushOrThrow(taken, "stack", value)
      BY <1>20, <2>1 DEF ResolvePossibleLambda, value, taken
    <2>3. HandlerFits(Handler(0, 0), taken)
      <3>1. FrameOK(Handler(0, 0)) /\ Handler(0, 0).kind = "op"
        BY HandlerOK
      <3>2. /\ Handler(0, 0).program = 0 /\ Handler(0, 0).inverse = 0
            /\ Handler(0, 0).value = Null /\ Handler(0, 0).result = Null
            /\ Handler(0, 0).op = Opcode.op /\ ~Handler(0, 0).pushed
        BY DEF Handler
      <3>3. HandlerReg(Handler(0, 0), call, n)
        BY <3>1, <3>2, PlainOK DEF HandlerReg
      <3> QED
        BY <1>6, <3>2, <3>3
    <2> QED
      BY <1>2, <1>4, <1>5, <1>7, <1>9, <1>12, <2>1, <2>2, <2>3
  <1>21. CASE InvokeAmbiguous
    <2> DEFINE f == [h(0) EXCEPT !.value = value]
               f1 == [f EXCEPT !.lastHelper = "helper"]
               ctx == Last(stk["context"].v)
    <2>1. z = 3
      BY <1>21 DEF InvokeAmbiguous, At, Takes, z
    <2>2. Throw(taken, vm) \/ Invoke(f1, taken, Fn, ctx) \/ Invoke(f, taken, CalleeOf(value), ctx)
      BY <1>21, <2>1 DEF InvokeAmbiguous, value, h, taken
    <2>3. HandlerReg(f, call, n) /\ f.op = Opcode.op /\ ~f.pushed
      <3>1. HandlerReg(h(0), call, n) /\ h(0).op = Opcode.op /\ ~h(0).pushed
        BY <1>8
      <3>2. HandlerReg(f, call, n)
        BY <1>7, <3>1, FieldReg
      <3>3. f.op = h(0).op /\ f.pushed = h(0).pushed
        BY <3>1 DEF HandlerReg, FrameOK, Fields
      <3> QED
        BY <3>1, <3>2, <3>3
    <2>4. HandlerReg(f1, call, n) /\ f1.op = Opcode.op /\ ~f1.pushed
      <3> HIDE DEF f
      <3>1. HandlerReg(f1, call, n)
        BY <2>3, FieldReg
      <3>2. f1.op = f.op /\ f1.pushed = f.pushed
        BY <2>3 DEF HandlerReg, FrameOK, Fields
      <3> QED
        BY <2>3, <3>1, <3>2
    <2> HIDE DEF f, f1
    <2>5. HandlerFits(f, taken) /\ HandlerFits(f1, taken)
      BY <1>6, <2>3, <2>4
    <2> QED
      BY <1>2, <1>4, <1>5, <1>9, <2>2, <2>5
  <1>22. CASE InvokeHelper
    <2>1. z = 4 + Opcode.n
      BY <1>22 DEF InvokeHelper, At, Takes, z
    <2>2. \/ Throw(taken, vm)
          \/ \E callee \in {Fn, CalleeOf(value)} : \E ctx : Invoke(h(1), taken, callee, ctx)
      <3>1. \/ Throw(Pop(stk, "stack", 4 + Opcode.n), vm)
            \/ \E callee \in (IF Opcode.simple THEN {Fn} ELSE {}) \cup {CalleeOf(value)} :
                    \E ctx : Invoke(h(1), Pop(stk, "stack", 4 + Opcode.n), callee, ctx)
        BY <1>22 DEF InvokeHelper, value, h
      <3>2. (IF Opcode.simple THEN {Fn} ELSE {}) \cup {CalleeOf(value)} \subseteq {Fn, CalleeOf(value)}
        OBVIOUS
      <3>3. taken = Pop(stk, "stack", 4 + Opcode.n)
        BY <2>1 DEF taken
      <3> QED
        BY <3>1, <3>2, <3>3
    <2> QED
      BY <1>2, <1>4, <1>5, <1>9, <1>10, <2>2
  <1>23. CASE InvokeKnownHelper
    <2>1. z = 3 + Opcode.n
      BY <1>23 DEF InvokeKnownHelper, At, Takes, z
    <2>2. taken = Pop(stk, "stack", 3 + Opcode.n)
      BY <2>1 DEF taken
    <2>3. Throw(taken, vm) \/ \E ctx : Invoke(h(0), taken, Fn, ctx)
      BY <1>23, <2>2 DEF InvokeKnownHelper, h
    <2> QED
      BY <1>2, <1>4, <1>5, <1>9, <1>10, <2>3
  <1>24. CASE BlockValue
    <2>1. z = 4
      BY <1>24 DEF BlockValue, At, Takes, z
    <2>2. Throw(taken, vm) \/ \E ctx : Invoke(h(0), taken, Fn, ctx)
      BY <1>24, <2>1 DEF BlockValue, h, taken
    <2> QED
      BY <1>2, <1>4, <1>5, <1>9, <1>10, <2>2
  <1>25. CASE AmbiguousBlockValue
    <2> DEFINE s == Pop(stk, "stack", 3)
    <2>1. z = 4 /\ Leaves(Opcode) = 1
      BY <1>25 DEF AmbiguousBlockValue, At, Takes, Leaves, z
    <2>2. \/ Throw(taken, vm) \/ \E ctx : Invoke(h(0), taken, Fn, ctx)
          \/ Throw(s, vm) \/ Stacked(s)
      <3>1. CASE vm.lastHelper = "none"
        BY <1>25, <2>1, <3>1 DEF AmbiguousBlockValue, h, taken
      <3>2. CASE vm.lastHelper # "none"
        BY <1>25, <3>2 DEF AmbiguousBlockValue
      <3> QED
        BY <3>1, <3>2
    <2>3. Fits(s, x - 3, y, od) /\ x - 3 \in Int
      <3>1. x >= 3 /\ 3 \in Nat
        BY <1>2, <2>1
      <3> QED
        BY <1>1, <1>2, <1>11, <3>1, FitsPop DEF od
    <2>4. LeftStack(own, Opcode) <= x - 3
      BY <1>2, <1>11, <2>1
    <2> HIDE DEF s
    <2> QED
      BY <1>2, <1>4, <1>5, <1>9, <1>10, <1>13, <2>2, <2>3, <2>4
  <1>26. CASE InvokePartial
    <2> DEFINE program == OptProgram(0)
               block == PartialBlock(vm.module, program, Len(stk["partialBlock"].v))
               pushes == program > 0
               s == IF pushes THEN Push(taken, "partialBlock", block) ELSE taken
               f == [h(0) EXCEPT !.pushed = pushes]
    <2>1. z = (IF Opcode.dynamic THEN 5 ELSE 4) /\ Leaves(Opcode) = 0
      BY <1>26 DEF InvokePartial, At, Takes, Leaves, z
    <2>2. \/ Throw(taken, vm) \/ Throw(s, vm) \/ Stacked(s)
          \/ \E name, ctx :
               LET found == FindPartial(name)
                   partial == IF found = Null /\ pushes THEN block ELSE found
               IN partial.t \in {"tmpl", "fn", "block"} /\ Invoke(f, s, partial, ctx)
      BY <1>26, <2>1 DEF InvokePartial, h, taken
    <2>3. program \in Int /\ HandlerReg(h(0), call, n) /\ h(0).op = Opcode.op
      BY <1>3, <1>8, OptionsStack
    <2>4. HandlerReg(f, call, n) /\ f.op = Opcode.op /\ (f.pushed <=> pushes)
      <3>1. HandlerReg(f, call, n)
        BY <2>3, FieldReg
      <3>2. f.op = h(0).op /\ f.pushed = pushes
        BY <2>3 DEF HandlerReg, FrameOK, Fields
      <3> QED
        BY <2>3, <3>1, <3>2
    <2>5. pushes => BlockOK(block, call, n)
      <3>1. Len(stk["partialBlock"].v) \in Nat
        BY <1>3 DEF Stacks, IsSeq, StackNames
      <3> HIDE DEF program
      <3>2. pushes => program \in Nat
        BY <2>3
      <3> QED
        BY <1>3, <3>1, <3>2 DEF BlockOK, ModuleOK, PartialBlock
    <2>6. block.t = "block"
      BY DEF PartialBlock
    <2> HIDE DEF program, f, block
    <2>7. Fits(s, x - z, y, od)
      <3>1. CASE pushes
        <4>1. ValueOK(block, call, n)
          BY <2>5, <2>6, <3>1 DEF ValueOK
        <4>2. Fits(Push(taken, "partialBlock", block), x - z, y, od)
          BY <1>1, <1>2, <1>11, <4>1, FitsPush DEF n, od
        <4> QED
          BY <3>1, <4>2
      <3>2. CASE ~pushes
        BY <1>2, <3>2
      <3> QED
        BY <3>1, <3>2
    <2>8. f.pushed => Len(call[n].at["partialBlock"]) + 1 <= Len(s["partialBlock"].v)
      <3> SUFFICES ASSUME f.pushed
                   PROVE  Len(call[n].at["partialBlock"]) + 1 <= Len(s["partialBlock"].v)
        OBVIOUS
      <3> DEFINE u == taken["partialBlock"].v
                 a == call[n].at["partialBlock"]
      <3>1. "partialBlock" \in StackNames /\ Counts("partialBlock", od) /\ Stacks(taken, call, n)
        BY <1>2 DEF StackNames, Counts, Fits, n
      <3>2. IsSeq(u) /\ IsSeq(a) /\ Begins(a, u) /\ DOMAIN taken = StackNames
            /\ taken["partialBlock"] = [v |-> u, protect |-> taken["partialBlock"].protect]
        BY <1>2, <1>3, <3>1 DEF Stacks, Fits, n
      <3>3. s["partialBlock"].v = Append(u, block)
        BY <2>4, <3>1, <3>2 DEF Push
      <3>4. Len(Append(u, block)) = Len(u) + 1
        BY <3>2, AppendSeq
      <3>5. Len(a) \in Nat /\ Len(u) \in Nat /\ Len(a) <= Len(u)
        BY <3>2 DEF IsSeq, Begins
      <3> HIDE DEF u, a, s
      <3>6. Len(a) + 1 <= Len(s["partialBlock"].v)
        BY <3>3, <3>4, <3>5
      <3> QED
        BY <3>6 DEF a
    <2>9. HandlerFits(f, s)
      <3>1. x - z \in Int /\ y \in Int /\ x - z <= x - z /\ y <= y
        BY <1>11
      <3> HIDE DEF s
      <3> QED
        BY <2>4, <2>7, <2>8, <3>1 DEF HandlerFits, n, od, x, y, z, own
    <2>10. ASSUME NEW name, FindPartial(name).t \in {"tmpl", "fn", "block"}
           PROVE  CalleeOK(FindPartial(name), call, n)
      <3>1. CASE name \in DOMAIN Partials
        <4>1. FindPartial(name) =
                IF Partials[name] \in Templates THEN [t |-> "tmpl", tmpl |-> Partials[name]]
                ELSE IF Partials[name] = "callable" THEN Fn ELSE Plain
          BY <3>1 DEF FindPartial
        <4> QED
          BY <2>10, <4>1 DEF CalleeOK, Fn, Plain
      <3>2. CASE name \notin DOMAIN Partials /\ name = "@partial-block"
        <4>1. FindPartial(name) = Top(stk, "partialBlock")
          BY <3>2 DEF FindPartial
        <4>2. ValueOK(Top(stk, "partialBlock"), call, n)
          BY <1>3, StackTop
        <4> QED
          BY <2>10, <4>1, <4>2 DEF CalleeOK, ValueOK
      <3>3. CASE name \notin DOMAIN Partials /\ name # "@partial-block"
        <4>1. FindPartial(name) = Null
          BY <3>3 DEF FindPartial
        <4> QED
          BY <2>10, <4>1 DEF Null
      <3> QED
        BY <3>1, <3>2, <3>3
    <2>11. ASSUME NEW name, NEW ctx,
                  LET found == FindPartial(name)
                      partial == IF found = Null /\ pushes THEN block ELSE found
                  IN partial.t \in {"tmpl", "fn", "block"} /\ Invoke(f, s, partial, ctx)
           PROVE  StackInv'
      <3> DEFINE partial == IF FindPartial(name) = Null /\ pushes THEN block ELSE FindPartial(name)
      <3>1. partial.t \in {"tmpl", "fn", "block"} /\ Invoke(f, s, partial, ctx)
        BY <2>11
      <3>2. CalleeOK(partial, call, n)
        BY <2>5, <2>6, <2>10, <3>1 DEF CalleeOK
      <3> HIDE DEF partial, s
      <3> QED
        BY <1>5, <2>9, <3>1, <3>2
    <2>12. LeftStack(own, Opcode) <= x - z
      BY <1>2, <1>11, <2>1
    <2> HIDE DEF s
    <2> QED
      BY <1>2, <1>4, <1>11, <1>13, <2>2, <2>7, <2>11, <2>12
  <1> QED
    BY <1>20, <1>21, <1>22, <1>23, <1>24, <1>25, <1>26

-----------------------------------------------------------------------------
(* Returns *)

(* The lowest frames, with another one at the top.                         *)
LEMMA UnwoundSeq ==
    ASSUME NEW c, IsSeq(c), NEW m \in 1 .. Len(c), NEW g
    PROVE  /\ Len(Unwound(c, m, g)) = m /\ Unwound(c, m, g)[m] = g
           /\ \A y \in 1 .. m : y < m => Unwound(c, m, g)[y] = c[y]
  <1> DEFINE e == SubSeq(c, 1, m)
  <1>1. m \in Nat /\ m \in 0 .. Len(c)
    BY DEF IsSeq
  <1>2. IsSeq(e) /\ Len(e) = m /\ \A i \in 1 .. m : e[i] = c[i]
    BY <1>1, PrefixSeq
  <1>3. Unwound(c, m, g) = [e EXCEPT ![m] = g]
    BY DEF Unwound
  <1> HIDE DEF e
  <1>4. m \in 1 .. Len(e)
    BY <1>1, <1>2
  <1> QED
    BY <1>2, <1>3, <1>4, ReplaceSeq

LEMMA OverLess ==
    ASSUME NEW t, NEW c, NEW n \in Int, NEW od, Over(t, c, n, od), NEW m \in Int, m <= n,
           Len(c) \in Nat
    PROVE  Over(t, c, m, od)
  BY DEF Over, Progs

(* The frames above m are taken off, and that one goes on as g.            *)
LEMMA PopsStack ==
    ASSUME NEW c, NEW base, NEW err, Frames(c, base, err), NEW v, NEW s,
           NEW od \in BOOLEAN, StackOK(c, v, s, od), NEW m \in 1 .. Len(c), c[m].kind # "prog",
           NEW g, Later(c[m], g, c, m), SamePushed(c[m], g),
           NEW w, ModuleOK(w.module, c, m), w.owner # 0,
           NEW t, Stacks(t, c, m), Over(t, c, m, od)
    PROVE  StackOK(Unwound(c, m, g), w, t, od)
  <1> DEFINE d == Unwound(c, m, g)
  <1>1. IsSeq(c) /\ Len(c) \in Nat /\ \A i \in 1 .. Len(c) : FrameKept(c, i)
    BY DEF Frames, IsSeq, StackOK
  <1>2. Len(d) = m /\ d[m] = g /\ \A y \in 1 .. m : y < m => d[y] = c[y]
    BY <1>1, UnwoundSeq
  <1>3. \A k \in StackNames : IsSeq(t[k].v)
    BY DEF Stacks
  <1> HIDE DEF d
  <1>4. InnermostHas(t, c, d, m, od)
    BY <1>1, <1>2, <1>3, HasUnwound
  <1>5. StackOK(d, w, t, od)
    BY <1>2, <1>4, UnwindStack
  <1> QED
    BY <1>5 DEF d

(* A caller's frame when its callee is done.                               *)
LEMMA DoneLater ==
    ASSUME NEW c, NEW m, FrameKept(c, m), FrameOK(c[m]), c[m].kind # "prog"
    PROVE  LET f == c[m]
               d == [f EXCEPT !.done = TRUE]
           IN /\ Later(f, f, c, m) /\ SamePushed(f, f)
              /\ Later(f, d, c, m) /\ SamePushed(f, d)
              /\ f.kind = "exec" => /\ Later(f, [d EXCEPT !.ret = TRUE], c, m)
                                    /\ SamePushed(f, [d EXCEPT !.ret = TRUE])
              /\ f.kind = "op" =>
                   \A x : ValueOK(x, c, m - 1) => /\ Later(f, [d EXCEPT !.result = x], c, m)
                                                  /\ SamePushed(f, [d EXCEPT !.result = x])
  <1> DEFINE f == c[m]
             d == [f EXCEPT !.done = TRUE]
  <1>1. f.kind = "op" => ValueOK(f.result, c, m - 1)
    BY DEF FrameKept
  <1>2. FrameOK(f) /\ f.kind # "prog"
    OBVIOUS
  <1> HIDE DEF f
  <1>3. Later(f, f, c, m) /\ SamePushed(f, f)
    BY <1>1, <1>2 DEF Later, SamePushed
  <1>4. Later(f, d, c, m)
    BY <1>1, <1>2 DEF Later, FrameOK, Fields, Kinds
  <1>5. SamePushed(f, d)
    BY <1>2 DEF SamePushed, FrameOK, Fields, Kinds
  <1>6. f.kind = "exec" => Later(f, [d EXCEPT !.ret = TRUE], c, m)
    BY <1>2 DEF Later, FrameOK, Fields, Kinds
  <1>7. f.kind = "exec" => SamePushed(f, [d EXCEPT !.ret = TRUE])
    BY <1>2 DEF SamePushed, FrameOK, Fields, Kinds
  <1>8. f.kind = "op" =>
          \A x : ValueOK(x, c, m - 1) => Later(f, [d EXCEPT !.result = x], c, m)
    BY <1>2 DEF Later, FrameOK, Fields, Kinds
  <1>9. f.kind = "op" => \A x : SamePushed(f, [d EXCEPT !.result = x])
    BY <1>2 DEF SamePushed, FrameOK, Fields, Kinds
  <1> QED
    BY <1>3, <1>4, <1>5, <1>6, <1>7, <1>8, <1>9 DEF f

(* An error with the stacks as they are.                                   *)
LEMMA StkThrow ==
    ASSUME CallInv, StackInv, call # <<>>, Last(call).kind # "tmpl", Throw(stk, vm)
    PROVE  StackInv'
  <1>1. Stacks(stk, call, Len(call)) /\ StackOK(call, vm, stk, app.overdrawn)
    BY StackFacts
  <1>2. Over(stk, call, Len(call), app.overdrawn)
    BY <1>1, OverAll
  <1> QED
    BY <1>1, <1>2, ThrowStack

(* What handlebars_stack_restore leaves begins with what was saved.        *)
LEMMA RestoreBegins ==
    ASSUME NEW c, NEW n, NEW s, Stacks(s, c, n), NEW f, NEW k \in StackNames,
           IsSeq(f.at[k]), f.count[k] = Len(f.at[k]), Begins(f.at[k], s[k].v)
    PROVE  Begins(f.at[k], Restore(s, f)[k].v)
  <1>1. IsSeq(s[k].v) /\ Len(s[k].v) \in Nat /\ f.count[k] \in Nat /\ f.count[k] <= Len(s[k].v)
    BY DEF Stacks, IsSeq, Begins
  <1>2. f.count[k] \in 0 .. Len(s[k].v) /\ f.count[k] >= Len(f.at[k])
    BY <1>1
  <1>3. Begins(f.at[k], SubSeq(s[k].v, 1, f.count[k]))
    BY <1>1, <1>2, BeginsCut
  <1> QED
    BY <1>3 DEF Restore

(* The return opcode restores the stacks, down to what they were at most.  *)
LEMMA ReturnStack ==
    ASSUME CallInv, StackInv, ReturnOpcode
    PROVE  StackInv'
  <1> DEFINE n == Len(call)
             m == n - 1
             f == call[n]
             h == call[m]
             d == [h EXCEPT !.done = TRUE]
             g == IF h.kind = "op" THEN h
                  ELSE IF h.kind = "exec" THEN [d EXCEPT !.ret = TRUE] ELSE d
             od == app.overdrawn
             base == Base
             err == error
  <1>1. call # <<>> /\ Last(call).kind = "prog"
    BY DEF ReturnOpcode, At, TopIs
  <1>2. /\ n \in Nat /\ n > 1 /\ f.kind = "prog" /\ IsSeq(call) /\ Last(call) = f
        /\ h.kind \in {"exec", "op", "block"} /\ FrameOK(h)
        /\ m \in Nat \ {0} /\ m + 1 = n /\ m \in 1 .. n /\ n \in 1 .. n
    BY <1>1, TopOf, StackFacts DEF Callers
  <1>3. /\ Frames(call, base, err) /\ \A i \in 1 .. n : FrameKept(call, i)
        /\ ModuleOK(vm.module, call, n) /\ vm.owner # 0 /\ DOMAIN vm = VmFields
        /\ Stacks(stk, call, n) /\ StackOK(call, vm, stk, od) /\ od \in BOOLEAN
    BY <1>1, StackFacts
  <1>4. FrameKept(call, m) /\ FrameKept(call, n)
    BY <1>2, <1>3
  <1>5. call' = Unwound(call, m, g)
    <2>1. LET c == Front(call)
          IN /\ Last(c) = h /\ Len(c) = m
             /\ c = Unwound(call, m, h)
             /\ Done(c) = Unwound(call, m, d)
             /\ [Done(c) EXCEPT ![m].ret = TRUE] = Unwound(call, m, [d EXCEPT !.ret = TRUE])
      BY <1>2, BelowTop
    <2> QED
      BY <2>1 DEF ReturnOpcode
  <1>6. Later(h, g, call, m) /\ SamePushed(h, g)
    <2>1. /\ Later(h, h, call, m) /\ SamePushed(h, h)
          /\ Later(h, d, call, m) /\ SamePushed(h, d)
          /\ h.kind = "exec" => /\ Later(h, [d EXCEPT !.ret = TRUE], call, m)
                                /\ SamePushed(h, [d EXCEPT !.ret = TRUE])
      BY <1>2, <1>4, DoneLater
    <2> QED
      BY <2>1
  <1>7. /\ vm'.owner = vm.owner /\ vm'.module = vm.module
    <2> DEFINE v == [vm EXCEPT !.buffer = f.prevBuffer]
    <2>1. DOMAIN v = VmFields /\ v.owner = vm.owner /\ v.module = vm.module
      BY <1>3 DEF VmFields
    <2>2. vm' = [v EXCEPT !.data = IF f.hasData THEN f.prevData ELSE @]
      BY <1>2 DEF ReturnOpcode, LeaveProgram
    <2> HIDE DEF v
    <2> QED
      BY <2>1, <2>2 DEF VmFields
  <1>8. stk' = Restore(stk, f) /\ app'.overdrawn = od
    BY <1>2 DEF ReturnOpcode
  <1>9. \A k \in StackNames : /\ IsSeq(f.at[k]) /\ f.count[k] = Len(f.at[k])
                              /\ f.count[k] \in Nat /\ f.protect[k] \in Nat
    BY <1>2, <1>4 DEF FrameKept, IsSeq
  <1>10. n \in Progs(call)
    BY <1>2 DEF Progs
  <1>11. Live(call, n) = Live(call, m)
    <2>1. call[m + 1].kind # "tmpl" /\ m \in Nat
      BY <1>2
    <2> HIDE DEF f
    <2> QED
      BY <1>2, <2>1, OneMore
  <1> HIDE DEF base, err, od, f, g, h, d
  <1>12. Stacks(stk', call, n)
    BY <1>3, <1>8, <1>9, StackRestore
  <1>13. \A k \in StackNames : Counts(k, od) => Begins(f.at[k], stk'[k].v)
    <2> SUFFICES ASSUME NEW k \in StackNames, Counts(k, od) PROVE Begins(f.at[k], stk'[k].v)
      OBVIOUS
    <2>1. Begins(f.at[k], stk[k].v)
      BY <1>3, <1>10 DEF StackOK, Covered, Covers, f
    <2> QED
      BY <1>3, <1>8, <1>9, <2>1, RestoreBegins
  <1>14. Over(stk', call, n, od)
    <2>1. \A k \in StackNames : IsSeq(stk'[k].v)
      BY <1>12 DEF Stacks
    <2> QED
      BY <1>3, <1>10, <1>13, <2>1, OverTop DEF f
  <1>15. Over(stk', call, m, od)
    BY <1>2, <1>14, OverLess
  <1>16. Stacks(stk', call, m) /\ ModuleOK(vm'.module, call, m)
    BY <1>3, <1>7, <1>11, <1>12, ValueLives
  <1>17. StackOK(Unwound(call, m, g), vm', stk', od)
    <2>1. call[m].kind # "prog" /\ Later(call[m], g, call, m) /\ SamePushed(call[m], g)
      BY <1>2, <1>6 DEF h
    <2>2. vm'.owner # 0 /\ m \in 1 .. Len(call)
      BY <1>2, <1>3, <1>7
    <2> HIDE DEF n, m
    <2> QED
      BY <1>3, <1>15, <1>16, <2>1, <2>2, PopsStack
  <1> QED
    BY <1>3, <1>5, <1>8, <1>17 DEF StackInv, od

(* What a program has below the handler of a calling opcode, and next.     *)
LEMMA CallingKept ==
    ASSUME NEW c, NEW i, FrameKept(c, i), c[i].kind = "prog", OpAt(c[i]).op \in CallingOps
    PROVE  LET own == OwnAt(c[i])
               o == OpAt(c[i])
           IN /\ own.stack \in Nat /\ own.hash \in Nat /\ Takes(o) \in Nat
              /\ o.op \notin Ends
              /\ LeftStack(own, o) = own.stack - Takes(o)
                                     + (IF o.op \in {"block_value", "invoke_partial"} THEN 0 ELSE 1)
              /\ LeftHash(own, o) = own.hash
  <1> DEFINE own == OwnAt(c[i])
             o == OpAt(c[i])
             x == own.stack
             y == own.hash
             z == Takes(o)
             t == c[i].module.tmpl
             pc == c[i].pc
  <1>1. x \in Nat /\ y \in Nat /\ z \in Nat
    BY KeptInt
  <1>2. t \in Templates /\ pc \in 1 .. Len(Modules[t].opcodes) /\ own.reached
    BY DEF FrameKept, ModuleOK, Code, ModuleOf
  <1>3. own = Operands(t)[pc] /\ o = Modules[t].opcodes[pc]
    BY DEF OwnAt, OpAt, Code, ModuleOf
  <1>4. o.op \in CallingOps
    OBVIOUS
  <1> HIDE DEF t, pc, own, o
  <1>5. o.op \in {"append", "append_escaped"} \/ x >= z
    BY <1>2, <1>3, OperandFacts
  <1>6. /\ o.op \notin {"append", "append_escaped"} /\ o.op \notin Ends
        /\ HashTakes(o) = 0 /\ HashLeaves(o) = 0
        /\ Leaves(o) = IF o.op \in {"block_value", "invoke_partial"} THEN 0 ELSE 1
    BY <1>4 DEF CallingOps, HashTakes, HashLeaves, Ends, Leaves
  <1>7. /\ LeftStack(own, o) = (IF x < z THEN 0 ELSE x - z) + Leaves(o)
        /\ LeftHash(own, o) = y - HashTakes(o) + HashLeaves(o)
    BY DEF LeftStack, LeftHash
  <1> DEFINE l == IF o.op \in {"block_value", "invoke_partial"} THEN 0 ELSE 1
  <1>8. l \in {0, 1}
    OBVIOUS
  <1> HIDE DEF x, y, z, l
  <1>9. LeftStack(own, o) = x - z + l /\ LeftHash(own, o) = y
    BY <1>1, <1>5, <1>6, <1>7, <1>8 DEF l
  <1> QED
    BY <1>1, <1>6, <1>9 DEF x, y, z, l, own, o

(* A handler takes the result: the program has what its opcode leaves.     *)
LEMMA HandlerReturnsStack ==
    ASSUME CallInv, StackInv, HandlerReturns
    PROVE  StackInv'
  <1> DEFINE n == Len(call)
             m == n - 1
             f == call[n]
             h == call[m]
             g == [h EXCEPT !.pc = @ + 1]
             result == IF f.op = "invoke_ambiguous" /\ f.result = Null THEN f.value ELSE f.result
             pushes == f.op \notin {"block_value", "invoke_partial"}
             s == IF f.pushed THEN Pop(stk, "partialBlock", 1) ELSE stk
             od == app.overdrawn
             base == Base
             err == error
             d == Unwound(call, m, g)
             own == OwnAt(h)
             o == OpAt(h)
  <1>1. call # <<>> /\ Last(call).kind = "op"
    BY DEF HandlerReturns, TopIs
  <1>2. /\ n \in Nat /\ n > 1 /\ f.kind = "op" /\ IsSeq(call) /\ Last(call) = f
        /\ h.kind = "prog" /\ FrameOK(h)
        /\ m \in Nat \ {0} /\ m + 1 = n /\ m \in 1 .. n /\ n \in 1 .. n /\ m # n
    BY <1>1, TopOf, StackFacts DEF Callers
  <1>3. /\ Frames(call, base, err) /\ \A i \in 1 .. n : FrameKept(call, i)
        /\ ModuleOK(vm.module, call, n) /\ vm.owner # 0 /\ DOMAIN vm = VmFields
        /\ Stacks(stk, call, n) /\ StackOK(call, vm, stk, od) /\ od \in BOOLEAN
    BY <1>1, StackFacts
  <1>4. FrameKept(call, m) /\ FrameKept(call, n)
    BY <1>2, <1>3
  <1>5. CASE Throw(stk, vm)
    BY <1>1, <1>5, StkThrow
  <1>6. ASSUME /\ stk' = IF pushes THEN Push(s, "stack", result) ELSE s
               /\ vm' = IF f.op = "invoke_ambiguous"
                        THEN [vm EXCEPT !.lastHelper = f.lastHelper] ELSE vm
               /\ call' = Advance(Front(call))
               /\ app' = app
        PROVE  StackInv'
    <2>1. call' = d /\ app'.overdrawn = od
      BY <1>2, <1>6, BelowTop
    <2>2. vm'.owner = vm.owner /\ vm'.module = vm.module
      BY <1>3, <1>6 DEF VmFields
    <2>3. f.op = o.op /\ f.op \in CallingOps /\ ValueOK(result, call, m)
      BY <1>2, <1>4 DEF FrameKept
    <2>4. /\ Later(h, g, call, m) /\ g.at = h.at
          /\ OwnAt(g).stack \in Int /\ OwnAt(g).hash \in Int
          /\ OwnAt(g).stack <= LeftStack(own, o) /\ OwnAt(g).hash <= LeftHash(own, o)
      <3>1. o.op \notin Ends
        BY <2>3 DEF CallingOps, Ends
      <3>2. /\ Later(h, g, call, m) /\ g.at = h.at
            /\ OwnAt(g).stack \in Nat /\ OwnAt(g).hash \in Int
            /\ OwnAt(g).stack <= LeftStack(own, o) /\ OwnAt(g).hash <= LeftHash(own, o)
        BY <1>2, <1>4, <3>1, NextFacts
      <3> HIDE DEF g, own, o, h
      <3> QED
        BY <3>2
    <2>5. /\ own.stack \in Nat /\ own.hash \in Nat /\ Takes(o) \in Nat
          /\ LeftStack(own, o) = own.stack - Takes(o) + (IF pushes THEN 1 ELSE 0)
          /\ LeftHash(own, o) = own.hash
    <3>1. /\ own.stack \in Nat /\ own.hash \in Nat /\ Takes(o) \in Nat
          /\ LeftStack(own, o) = own.stack - Takes(o)
                                 + (IF o.op \in {"block_value", "invoke_partial"} THEN 0 ELSE 1)
          /\ LeftHash(own, o) = own.hash
      BY <1>2, <1>4, <2>3, CallingKept
    <3> HIDE DEF own, o
    <3> QED
      BY <2>3, <3>1
    <2>6. \A k \in StackNames : IsSeq(h.at[k])
      BY <1>2, <1>4 DEF FrameKept
    <2>7. Live(call, n) = Live(call, m)
      <3>1. call[m + 1].kind # "tmpl" /\ m \in Nat
        BY <1>2
      <3> HIDE DEF f
      <3> QED
        BY <1>2, <3>1, OneMore
    <2> DEFINE a == own.stack - Takes(o)
               b == own.hash
               c == Count1(f.pushed)
               K(k) == IF k = "stack" THEN a ELSE IF k = "hash" THEN b
                       ELSE IF k = "partialBlock" THEN c ELSE 0
    <2>8. ASSUME NEW k \in StackNames, Counts(k, od)
          PROVE  Begins(h.at[k], stk[k].v) /\ Len(h.at[k]) + K(k) <= Len(stk[k].v)
      <3>1. Covers(stk[k].v, call, m, k)
        <4>1. m \in Progs(call)
          BY <1>2 DEF Progs
        <4> QED
          BY <1>3, <2>8, <4>1 DEF StackOK, Covered
      <3>2. Kept(call, m, k) = K(k)
        <4>0. m + 1 = Len(call) /\ Len(call) \in Nat
          BY <1>2
        <4> HIDE DEF m
        <4>1. ~(m + 2 <= Len(call)) /\ m + 1 <= Len(call)
          <5> DEFINE l == Len(call)
          <5> HIDE DEF l
          <5>1. l \in Nat /\ m + 1 = l /\ m \in Int
            BY <1>2, <4>0 DEF l
          <5> QED
            BY <5>1 DEF l
        <4>2. ~Pushed(call, m + 2, "block") /\ (Pushed(call, m + 1, "op") <=> f.pushed)
          BY <1>2, <4>1 DEF Pushed
        <4>3. Count1(Pushed(call, m + 2, "block")) = 0 /\ Count1(Pushed(call, m + 1, "op")) = c
          BY <4>2 DEF Count1
        <4>4. c \in {0, 1}
          BY DEF Count1
        <4> HIDE DEF c
        <4>5. Count1(Pushed(call, m + 1, "op")) + Count1(Pushed(call, m + 2, "block")) = c
          BY <4>3, <4>4
        <4> QED
          BY <1>2, <4>5 DEF Kept
      <3> QED
        BY <3>1, <3>2 DEF Covers
    <2>9. Stacks(stk, call, m)
      BY <1>3, <2>7, ValueLives
    <2>10. /\ a \in Int /\ b \in Int /\ c \in {0, 1} /\ (c = 1 <=> f.pushed)
      BY <2>5 DEF Count1
    <2> HIDE DEF a, b, c, m
    <2>11. Stacks(s, call, m) /\ \A k \in StackNames : k # "partialBlock" => s[k] = stk[k]
      <3>1. "partialBlock" \in StackNames
        BY DEF StackNames
      <3> QED
        BY <2>9, <3>1, StackPop
    <2>12. ASSUME NEW k \in StackNames, Counts(k, od)
           PROVE  /\ Begins(h.at[k], s[k].v)
                  /\ Len(h.at[k]) + (IF k = "stack" THEN a ELSE IF k = "hash" THEN b ELSE 0) <= Len(s[k].v)
      <3>1. CASE k # "partialBlock"
        BY <2>8, <2>11, <2>12, <3>1
      <3>2. CASE k = "partialBlock" /\ ~f.pushed
        <4>1. K(k) = 0
          BY <2>10, <3>2
        <4> QED
          BY <2>8, <2>12, <3>2, <4>1
      <3>3. CASE k = "partialBlock" /\ f.pushed
        <4>1. K(k) = 1 /\ 1 \in Int /\ 1 >= 1 /\ 1 \in Nat
          BY <2>10, <3>3
        <4>2. Begins(h.at[k], stk[k].v) /\ Len(h.at[k]) + 1 <= Len(stk[k].v)
          BY <2>8, <2>12, <4>1
        <4>3. Begins(h.at[k], Pop(stk, k, 1)[k].v) /\ Len(h.at[k]) + (1 - 1) <= Len(Pop(stk, k, 1)[k].v)
          BY <2>6, <2>9, <4>1, <4>2, BeginsPop
        <4>4. s = Pop(stk, k, 1)
          BY <3>3
        <4> HIDE DEF s
        <4> QED
          BY <3>3, <4>3, <4>4
      <3> QED
        BY <3>1, <3>2, <3>3
    <2> HIDE DEF s
    <2>13. Stacks(Push(s, "stack", result), call, m)
           /\ \A k \in StackNames : k # "stack" => Push(s, "stack", result)[k] = s[k]
      BY <2>3, <2>11, StackPush DEF StackNames
    <2>14. Stacks(stk', call, m)
      BY <1>6, <2>11, <2>13
    <2> DEFINE p == LeftStack(own, o)
               q == LeftHash(own, o)
    <2>15. p = (IF pushes THEN a + 1 ELSE a) /\ q = b
      BY <2>5, <2>10 DEF a, b
    <2>16. p \in Int /\ q \in Int
      BY <2>10, <2>15
    <2> HIDE DEF p, q
    <2>17. ASSUME NEW k \in StackNames, Counts(k, od)
           PROVE  /\ Begins(h.at[k], stk'[k].v)
                  /\ Len(h.at[k]) + (IF k = "stack" THEN p ELSE IF k = "hash" THEN q ELSE 0) <= Len(stk'[k].v)
      <3>1. CASE ~pushes
        BY <1>6, <2>12, <2>15, <2>17, <3>1
      <3>2. CASE pushes /\ k # "stack"
        <4>1. stk'[k] = s[k]
          BY <1>6, <2>13, <3>2
        <4> QED
          BY <2>12, <2>15, <2>17, <3>2, <4>1
      <3>3. CASE pushes /\ k = "stack"
        <4>1. Begins(h.at[k], s[k].v) /\ Len(h.at[k]) + a <= Len(s[k].v)
          BY <2>12, <2>17, <3>3
        <4>2. Begins(h.at[k], Push(s, k, result)[k].v) /\ Len(h.at[k]) + (a + 1) <= Len(Push(s, k, result)[k].v)
          BY <2>6, <2>10, <2>11, <4>1, BeginsPush
        <4>3. stk' = Push(s, k, result) /\ p = a + 1
          BY <1>6, <2>15, <3>3
        <4> QED
          BY <3>3, <4>2, <4>3
      <3> QED
        BY <3>1, <3>2, <3>3
    <2>18. m \in 1 .. Len(call) /\ Len(d) = m /\ d[m] = g /\ \A y \in 1 .. m : y < m => d[y] = call[y]
      <3>1. m \in 1 .. Len(call)
        BY <1>2
      <3> HIDE DEF g
      <3> QED
        BY <1>2, <3>1, UnwoundSeq
    <2>19. call[m] = h /\ ModuleOK(vm'.module, call, m) /\ vm'.owner # 0
      BY <1>3, <2>2, <2>7, ValueLives
    <2> HIDE DEF d, g, n, od, base, err
    <2>20. \A k \in StackNames : Kept(d, m, k) = IF k = "stack" THEN OwnAt(g).stack
                                                 ELSE IF k = "hash" THEN OwnAt(g).hash ELSE 0
      <3>1. ~(m + 1 <= Len(d)) /\ ~(m + 2 <= Len(d))
        BY <1>2, <2>18
      <3>2. ~Pushed(d, m + 1, "op") /\ ~Pushed(d, m + 2, "block")
        BY <3>1 DEF Pushed
      <3>3. Count1(Pushed(d, m + 1, "op")) + Count1(Pushed(d, m + 2, "block")) = 0
        BY <3>2 DEF Count1
      <3> QED
        BY <2>18, <3>3 DEF Kept
    <2>21. InnermostHas(stk', call, d, m, od)
      <3> SUFFICES ASSUME NEW i \in 1 .. m, NEW k \in StackNames, Runs(i, call, m), Counts(k, od)
                   PROVE  Covers(stk'[k].v, d, i, k)
        BY DEF InnermostHas
      <3>1. i = m
        BY <1>2, <2>19 DEF Runs
      <3>2. d[m].at = h.at
        BY <2>4, <2>18
      <3> DEFINE x == Len(h.at[k])
                 y == Kept(d, m, k)
                 z == IF k = "stack" THEN p ELSE IF k = "hash" THEN q ELSE 0
                 l == Len(stk'[k].v)
      <3>3. x \in Int /\ l \in Int /\ y \in Int /\ z \in Int /\ y <= z
        <4>1. x \in Int /\ l \in Int
          BY <2>6, <2>14 DEF Stacks, IsSeq
        <4>2. OwnAt(g).stack <= p /\ OwnAt(g).hash <= q
          BY <2>4 DEF p, q
        <4> QED
          BY <2>4, <2>16, <2>20, <4>1, <4>2
      <3>4. x + z <= l /\ Begins(h.at[k], stk'[k].v)
        BY <2>17
      <3> HIDE DEF x, y, z, l
      <3>5. x + y <= l
        BY <3>3, <3>4
      <3> QED
        BY <3>1, <3>2, <3>4, <3>5 DEF Covers, x, y, l
    <2>22. StackOK(d, vm', stk', od)
      <3>1. Later(call[m], d[m], call, m)
        BY <2>4, <2>18, <2>19
      <3> QED
        BY <1>3, <2>14, <2>18, <2>19, <2>21, <3>1, UnwindStack
    <2> QED
      BY <1>3, <2>1, <2>22 DEF StackInv
  <1>7. \/ Throw(stk, vm)
        \/ /\ stk' = IF pushes THEN Push(s, "stack", result) ELSE s
           /\ vm' = IF f.op = "invoke_ambiguous"
                    THEN [vm EXCEPT !.lastHelper = f.lastHelper] ELSE vm
           /\ call' = Advance(Front(call))
           /\ app' = app
    BY <1>2 DEF HandlerReturns
  <1> QED
    BY <1>5, <1>6, <1>7

-----------------------------------------------------------------------------
(* Programs that run *)

(* No stack has lost anything.                                             *)
More(s, t) ==
    \A k \in StackNames : IsSeq(s[k].v) /\ IsSeq(t[k].v) /\ Begins(s[k].v, t[k].v)

LEMMA MoreThrough ==
    ASSUME NEW s, NEW t, NEW u, More(s, t), More(t, u)
    PROVE  More(s, u)
  BY BeginsThrough DEF More

LEMMA PushMore ==
    ASSUME NEW c, NEW n, NEW s, Stacks(s, c, n), NEW k \in StackNames, NEW z,
           k \in {"stack", "partialBlock"} => ValueOK(z, c, n)
    PROVE  Stacks(Push(s, k, z), c, n) /\ More(s, Push(s, k, z))
  <1>1. /\ Stacks(Push(s, k, z), c, n)
        /\ \A j \in StackNames : j # k => Push(s, k, z)[j] = s[j]
    BY StackPush
  <1>2. \A j \in StackNames : IsSeq(s[j].v) /\ IsSeq(Push(s, k, z)[j].v)
    BY <1>1 DEF Stacks
  <1>3. Begins(s[k].v, s[k].v) /\ Len(s[k].v) \in Int
    BY <1>2, BeginsSelf DEF IsSeq
  <1> DEFINE u == s[k].v
             x == 0
  <1>4. Begins(u, Push(s, k, z)[k].v)
    <2>1. IsSeq(u) /\ x \in Int /\ Begins(u, s[k].v) /\ Len(u) + x <= Len(s[k].v)
      <3> DEFINE l == Len(u)
      <3>1. l \in Int
        BY <1>3
      <3> HIDE DEF l
      <3>2. l + x <= l
        BY <3>1
      <3> QED
        BY <1>2, <1>3, <3>2 DEF l
    <2> HIDE DEF u, x
    <2> QED
      BY <2>1, BeginsPush
  <1>5. ASSUME NEW j \in StackNames PROVE Begins(s[j].v, Push(s, k, z)[j].v)
    <2>1. CASE j = k
      BY <1>4, <2>1
    <2>2. CASE j # k
      BY <1>1, <1>2, <2>2, BeginsSelf
    <2> QED
      BY <2>1, <2>2
  <1> QED
    BY <1>1, <1>2, <1>5 DEF More

(* handlebars_stack_save changes no stack.                                 *)
LEMMA SaveMore ==
    ASSUME NEW c, NEW n, NEW s, Stacks(s, c, n)
    PROVE  Stacks(Save(s), c, n) /\ More(s, Save(s))
  <1>1. Stacks(Save(s), c, n)
    BY StackSave
  <1>2. ASSUME NEW k \in StackNames PROVE Save(s)[k].v = s[k].v
    <2>1. s[k] = [v |-> s[k].v, protect |-> s[k].protect]
      BY DEF Stacks
    <2>2. Save(s)[k] = [s[k] EXCEPT !.protect = Len(s[k].v)]
      BY DEF Save
    <2> DEFINE a == s[k].v
               b == s[k].protect
               l == Len(s[k].v)
    <2>3. s[k] = [v |-> a, protect |-> b] /\ Save(s)[k] = [s[k] EXCEPT !.protect = l]
      BY <2>1, <2>2
    <2> HIDE DEF a, b, l
    <2>4. Save(s)[k].v = a
      BY <2>3
    <2> QED
      BY <2>4 DEF a
  <1>3. \A k \in StackNames : IsSeq(s[k].v) /\ Begins(s[k].v, s[k].v)
    BY BeginsSelf DEF Stacks
  <1> QED
    BY <1>1, <1>2, <1>3 DEF More

(* The first opcode of a program.                                          *)
LEMMA FirstOpcode ==
    ASSUME NEW t \in Templates, NEW g \in Nat, g < Len(Modules[t].programs)
    PROVE  LET pc == Modules[t].programs[g + 1].offset + 1
           IN /\ pc \in 1 .. Len(Modules[t].opcodes)
              /\ Operands(t)[pc].stack = 0 /\ Operands(t)[pc].hash = 0 /\ Operands(t)[pc].reached
  <1> DEFINE l == Len(Modules[t].opcodes)
             p == Len(Modules[t].programs)
             o == Modules[t].programs[g + 1].offset
             pc == o + 1
  <1>1. l \in Nat /\ p \in Nat /\ DOMAIN Modules[t].programs = 1 .. p
    BY ModulesAssumption
  <1>2. g + 1 \in DOMAIN Modules[t].programs
    <2>1. g < p
      OBVIOUS
    <2> HIDE DEF p
    <2> QED
      BY <1>1, <2>1
  <1>3. o \in 0 .. l - 1
    BY <1>2, ModulesAssumption
  <1>4. pc \in Firsts(t)
    BY <1>2 DEF Firsts
  <1> HIDE DEF l, o
  <1>5. pc \in 1 .. l
    BY <1>1, <1>3
  <1> HIDE DEF pc
  <1>6. Operands(t)[pc].stack = 0 /\ Operands(t)[pc].hash = 0 /\ Operands(t)[pc].reached
    BY <1>4, <1>5, OperandFacts DEF l
  <1> QED
    BY <1>5, <1>6 DEF pc, l, o

(* What handlebars_vm_execute_program_ex begins with: a call stack c, whose *)
(* top frame has perhaps moved, and stacks s.                              *)
Starts(c, s) ==
    /\ Len(c) = Len(call) /\ Frames(c, Base, error)
    /\ c[Len(c)].kind \in {"exec", "op", "block"}
    /\ Last(call).kind = c[Len(c)].kind
    /\ StackOK(c, vm, s, app.overdrawn)
    /\ Stacks(s, call, Len(call)) /\ Over(s, call, Len(call), app.overdrawn)

(* A program runs: it begins with what is on the stacks.                   *)
LEMMA RunProgramStack ==
    ASSUME CallInv, StackInv, call # <<>>, NEW c, NEW s, Starts(c, s),
           NEW g \in Nat, NEW ctx, NEW newData \in BOOLEAN, NEW blockParams,
           RunProgram(c, s, g, ctx, newData, blockParams)
    PROVE  StackInv'
  <1> DEFINE n == Len(c)
             f == [kind |-> "prog", module |-> vm.module,
                   pc |-> ModuleOf(vm.module).programs[g + 1].offset + 1,
                   prevBuffer |-> vm.buffer, hasData |-> newData, prevData |-> vm.data,
                   count |-> Len5(s), protect |-> [m \in StackNames |-> s[m].protect],
                   at |-> [m \in StackNames |-> s[m].v]]
             same == s["context"].v # <<>> /\ Last(s["context"].v) = ctx
             saved == Save(s)
             inContext == IF same THEN saved ELSE Push(saved, "context", ctx)
             inParams == IF blockParams THEN Push(inContext, "blockParam", Plain) ELSE inContext
             buffered == [vm EXCEPT !.buffer = Len(c) + 1]
             withData == [buffered EXCEPT !.data = IF newData THEN Len(c) + 1 ELSE @]
             od == app.overdrawn
             base == Base
             err == error
             d == Append(c, f)
  <1>1. /\ n \in Nat \ {0} /\ n = Len(call) /\ Frames(c, base, err) /\ IsSeq(c)
        /\ c[n].kind \in {"exec", "op", "block"} /\ Last(call).kind # "tmpl"
        /\ StackOK(c, vm, s, od) /\ Stacks(s, call, n) /\ Over(s, call, n, od)
        /\ DOMAIN vm = VmFields /\ od \in BOOLEAN /\ vm.owner # 0
        /\ \A i \in 1 .. Len(call) : FrameKept(call, i)
    BY StackFacts DEF Starts, Frames
  <1>2. Stacks(s, c, n) /\ ModuleOK(vm.module, c, n) /\ \A k \in StackNames : IsSeq(s[k].v)
    <2>1. n > 0
      BY <1>1
    <2>2. Stacks(s, c, n) /\ ModuleOK(vm.module, c, n)
      BY <1>1, <2>1 DEF StackOK
    <2> QED
      BY <2>2 DEF Stacks
  <1>3. /\ buffered.module = vm.module /\ buffered.owner = vm.owner
        /\ withData.module = vm.module /\ withData.owner = vm.owner
    <2>1. DOMAIN buffered = VmFields
          /\ buffered.module = vm.module /\ buffered.owner = vm.owner
      BY <1>1 DEF VmFields
    <2> HIDE DEF buffered
    <2> QED
      BY <2>1 DEF VmFields
  <1> HIDE DEF buffered, withData
  <1>4. "context" \in StackNames /\ "blockParam" \in StackNames
    BY DEF StackNames
  <1>5. /\ Stacks(saved, call, n) /\ More(s, saved)
        /\ Stacks(inContext, call, n) /\ More(s, inContext)
        /\ Stacks(inParams, call, n) /\ More(s, inParams)
    <2>1. Stacks(saved, call, n) /\ More(s, saved)
      BY <1>1, SaveMore
    <2> HIDE DEF saved
    <2>2. Stacks(inContext, call, n) /\ More(s, inContext)
      BY <1>4, <2>1, PushMore, MoreThrough
    <2> HIDE DEF inContext
    <2>3. Stacks(inParams, call, n) /\ More(s, inParams)
      BY <1>4, <2>2, PushMore, MoreThrough
    <2> QED
      BY <2>1, <2>2, <2>3
  <1>6. Stacks(inParams, c, n)
    <2>1. Stacks(saved, c, n)
      BY <1>2, SaveMore
    <2> HIDE DEF saved
    <2>2. Stacks(inContext, c, n)
      BY <1>4, <2>1, PushMore
    <2> HIDE DEF inContext
    <2> QED
      BY <1>4, <2>2, PushMore
  <1>7. ASSUME NEW t, Stacks(t, call, n), More(s, t), NEW v, v.module = vm.module,
               v.owner = vm.owner, Throw(t, v)
        PROVE  StackInv'
    <2>1. Over(t, call, n, od)
      BY <1>1, <1>7, OverMore DEF More
    <2> HIDE DEF n, od
    <2> QED
      BY <1>1, <1>7, <2>1, ThrowStack DEF od
  <1>8. ASSUME NEW what, Fault(what) PROVE StackInv'
    BY <1>8, FaultStack
  <1>9. Len(ModuleOf(vm.module).programs) \in Nat /\ vm.module.tmpl \in Templates
    BY <1>2, ModulesAssumption DEF ModuleOK, ModuleOf
  <1>10. ASSUME ~(g >= Len(ModuleOf(vm.module).programs)), call' = d, stk' = inParams,
                vm' = withData, app' = app
         PROVE  StackInv'
    <2> DEFINE t == vm.module.tmpl
               pc == Modules[t].programs[g + 1].offset + 1
    <2>1. g < Len(Modules[t].programs)
      <3> DEFINE p == Len(ModuleOf(vm.module).programs)
      <3>1. p \in Nat /\ ~(g >= p) /\ p = Len(Modules[t].programs)
        BY <1>9, <1>10 DEF ModuleOf
      <3> HIDE DEF p
      <3>2. g < p
        BY <3>1
      <3> QED
        BY <3>1, <3>2
    <2>2. /\ pc \in 1 .. Len(Modules[t].opcodes)
          /\ Operands(t)[pc].stack = 0 /\ Operands(t)[pc].hash = 0 /\ Operands(t)[pc].reached
      BY <1>9, <2>1, FirstOpcode
    <2>3. /\ f.kind = "prog" /\ f.module = vm.module /\ f.pc = pc
          /\ \A k \in StackNames : /\ f.at[k] = s[k].v /\ f.count[k] = Len(s[k].v)
                                   /\ f.protect[k] = s[k].protect
      BY DEF ModuleOf, Len5
    <2> HIDE DEF f, pc
    <2>4. /\ OwnAt(f) = Operands(t)[pc] /\ Code(f) = Modules[t].opcodes
      BY <2>3 DEF OwnAt, Code, ModuleOf
    <2>5. /\ IsSeq(d) /\ Len(d) = n + 1 /\ d[n + 1] = f /\ \A i \in 1 .. n : d[i] = c[i]
      BY <1>1, AppendSeq
    <2> HIDE DEF d, t
    <2>6. Live(d, n) = Live(c, n)
      BY <2>5 DEF Live
    <2>7. /\ ModuleOK(vm.module, d, n) /\ Stacks(s, d, n)
      BY <1>2, <2>6, ValueLives
    <2>8. FrameKept(d, n + 1)
      <3>1. n + 1 - 1 = n
        BY <1>1
      <3>2. \A k \in StackNames : s[k].protect \in Nat /\ IsSeq(s[k].v)
        BY <1>2 DEF Stacks
      <3>3. \A k \in {"stack", "partialBlock"} : k \in StackNames /\ Held(s[k].v, d, n)
        BY <2>7 DEF Stacks, Held, StackNames
      <3>4. \A k \in {"stack", "partialBlock"} : Held(f.at[k], d, n)
        BY <2>3, <3>3
      <3>5. /\ ModuleOK(f.module, d, n) /\ f.pc \in 1 .. Len(Code(f)) /\ OwnAt(f).reached
            /\ \A k \in StackNames : /\ IsSeq(f.at[k]) /\ f.count[k] = Len(f.at[k])
                                     /\ f.protect[k] \in Nat
        BY <2>2, <2>3, <2>4, <2>7, <3>2
      <3> DEFINE j == n + 1
      <3>6. j - 1 = n /\ d[j] = f
        BY <2>5, <3>1
      <3> HIDE DEF j, n
      <3>7. FrameKept(d, j)
        BY <2>3, <3>4, <3>5, <3>6 DEF FrameKept
      <3> QED
        BY <3>7 DEF j
    <2>9. \A k \in StackNames : Begins(s[k].v, inParams[k].v)
      BY <1>5 DEF More
    <2> HIDE DEF inParams, base, err, od
    <2>10. StackOK(d, withData, inParams, od)
      <3>1. ModuleOK(withData.module, c, Len(c)) /\ withData.owner # 0
        BY <1>1, <1>2, <1>3
      <3>2. /\ Len(d) = Len(c) + 1 /\ Len(c) > 0 /\ c[Len(c)].kind # "prog"
            /\ \A y \in 1 .. Len(c) : d[y] = c[y]
            /\ d[Len(d)].kind = "prog" /\ FrameKept(d, Len(d))
            /\ \A k \in StackNames : d[Len(d)].at[k] = s[k].v
            /\ OwnAt(d[Len(d)]).stack = 0 /\ OwnAt(d[Len(d)]).hash = 0
        BY <1>1, <2>2, <2>3, <2>4, <2>5, <2>8
      <3>3. Stacks(inParams, c, Len(c))
        BY <1>6
      <3> HIDE DEF n
      <3> QED
        BY <1>1, <2>9, <3>1, <3>2, <3>3, NewProgram
    <2> QED
      BY <1>1, <1>10, <2>10 DEF StackInv, od
  <1>11. /\ Stacks(saved, call, n) /\ More(s, saved)
         /\ Stacks(inContext, call, n) /\ More(s, inContext)
    BY <1>5
  <1> HIDE DEF f, saved, inContext, inParams, od, base, err
  <1>12. \/ \E what : Fault(what)
         \/ Throw(s, vm) \/ Throw(saved, buffered) \/ Throw(inContext, withData)
         \/ /\ ~(g >= Len(ModuleOf(vm.module).programs))
            /\ call' = d /\ stk' = inParams /\ vm' = withData /\ app' = app
    BY Zenon DEF RunProgram, f, same, saved, inContext, buffered, inParams, withData
  <1>13. Stacks(s, call, n) /\ More(s, s)
    BY <1>1, <1>2, BeginsSelf DEF More
  <1> HIDE DEF d, n
  <1> QED
    BY <1>3, <1>7, <1>8, <1>10, <1>11, <1>12, <1>13

(* The frame at the top goes on as g, with the same stacks.                *)
LEMMA TopStack ==
    ASSUME CallInv, StackInv, call # <<>>, Last(call).kind # "prog",
           NEW g, Later(Last(call), g, call, Len(call)), SamePushed(Last(call), g)
    PROVE  StackOK([call EXCEPT ![Len(call)] = g], vm, stk, app.overdrawn)
  <1> DEFINE n == Len(call)
             d == [call EXCEPT ![n] = g]
             od == app.overdrawn
             base == Base
             err == error
  <1>1. /\ n \in Nat \ {0} /\ n \in 1 .. n /\ IsSeq(call) /\ Last(call) = call[n]
        /\ Frames(call, base, err)
        /\ \A i \in 1 .. n : FrameKept(call, i) /\ ModuleOK(vm.module, call, n) /\ vm.owner # 0
        /\ Stacks(stk, call, n) /\ StackOK(call, vm, stk, od) /\ od \in BOOLEAN
    BY StackFacts
  <1>2. Len(d) = n /\ d[n] = g /\ \A y \in 1 .. n : y < n => d[y] = call[y]
    BY <1>1, ReplaceSeq
  <1>3. \A k \in StackNames : IsSeq(stk[k].v)
    BY <1>1 DEF Stacks
  <1>4. Over(stk, call, n, od)
    BY <1>1, OverAll
  <1> HIDE DEF d, od, base, err
  <1>5. InnermostHas(stk, call, d, n, od)
    <2>1. n \in Nat /\ n \in 1 .. n /\ call[n].kind # "prog" /\ SamePushed(call[n], d[n])
      BY <1>1, <1>2
    <2> QED
      BY <1>1, <1>2, <1>3, <1>4, <2>1, HasUnwound
  <1>6. Later(call[n], d[n], call, n)
    BY <1>1, <1>2
  <1>7. StackOK(d, vm, stk, od)
    BY <1>1, <1>2, <1>5, <1>6, UnwindStack
  <1> QED
    BY <1>7 DEF d, od

(* It runs a program.                                                      *)
LEMMA TopStarts ==
    ASSUME CallInv, StackInv, call # <<>>, Last(call).kind \in {"exec", "op", "block"},
           NEW g, Later(Last(call), g, call, Len(call)), SamePushed(Last(call), g),
           Alike(Last(call), g), ~(g.kind = "exec" /\ g.done)
    PROVE  Starts([call EXCEPT ![Len(call)] = g], stk)
  <1> DEFINE n == Len(call)
             d == [call EXCEPT ![n] = g]
             od == app.overdrawn
             base == Base
             err == error
  <1>1. /\ n \in Nat \ {0} /\ n \in 1 .. n /\ IsSeq(call) /\ Last(call) = call[n] /\ n > 0
        /\ Frames(call, base, err)
        /\ Stacks(stk, call, n) /\ StackOK(call, vm, stk, od)
    BY StackFacts
  <1>2. Len(d) = n /\ d[n] = g
    BY <1>1, ReplaceSeq
  <1>3. Frames(d, base, err)
    <2> HIDE DEF base, err
    <2> QED
      BY <1>1, TopFrames
  <1>4. StackOK(d, vm, stk, od)
    BY TopStack
  <1>5. Over(stk, call, n, od)
    BY <1>1, OverAll
  <1>6. g.kind = Last(call).kind
    BY DEF Alike
  <1> QED
    BY <1>1, <1>2, <1>3, <1>4, <1>5, <1>6 DEF Starts

(* The steps of a helper.                                                  *)
LEMMA HelperStack ==
    ASSUME CallInv, StackInv, HelperRuns \/ HelperReturns \/ HelperThrows
    PROVE  StackInv'
  <1> DEFINE n == Len(call)
             f == call[n]
  <1>1. /\ call # <<>> /\ f.kind = "op" /\ Last(call) = f /\ FrameOK(f) /\ FrameKept(call, n)
        /\ n \in Nat \ {0} /\ IsSeq(call)
    <2>1. call # <<>> /\ Last(call).kind = "op"
      BY DEF HelperRuns, HelperReturns, HelperThrows, InHelper, TopIs
    <2> QED
      BY <2>1, StackFacts
  <1>2. ValueOK(f.result, call, n - 1) /\ f.program \in Int /\ f.inverse \in Int
    BY <1>1 DEF FrameKept
  <1>3. CASE HelperRuns
    <2> DEFINE h == [f EXCEPT !.runs = @ + 1]
    <2>1. Later(f, h, call, n) /\ Alike(f, h) /\ h.kind = "op"
      BY <1>1, <1>2, RunsAlike DEF Later, Alike, FrameOK, Fields
    <2>2. SamePushed(f, h)
      BY <1>1 DEF SamePushed, FrameOK, Fields
    <2>3. PICK g \in {Last(call).program, Last(call).inverse}, ctx \in Contexts,
               newData \in BOOLEAN, blockParams \in BOOLEAN :
            LET c == [call EXCEPT ![Height].runs = @ + 1]
            IN IF g < 0
               THEN call' = c /\ UNCHANGED <<stk, vm, jmp, error, pins, cached, app>>
               ELSE RunProgram(c, stk, g, ctx, newData, blockParams)
      BY <1>3, Zenon DEF HelperRuns
    <2>4. [call EXCEPT ![Height].runs = @ + 1] = [call EXCEPT ![n] = h]
      BY DEF Height
    <2>5. g \in Int
      BY <1>1, <1>2
    <2> DEFINE c == [call EXCEPT ![n] = h]
    <2>6. IF g < 0 THEN call' = c /\ UNCHANGED <<stk, vm, app>>
          ELSE RunProgram(c, stk, g, ctx, newData, blockParams)
      BY <2>3, <2>4
    <2> HIDE DEF h
    <2>7. CASE g < 0
      <3>1. StackOK(c, vm, stk, app.overdrawn)
        BY <1>1, <2>1, <2>2, TopStack
      <3>2. call' = c /\ vm' = vm /\ stk' = stk /\ app' = app
        BY <2>6, <2>7
      <3> HIDE DEF c
      <3> QED
        BY <3>1, <3>2 DEF StackInv
    <2>8. CASE ~(g < 0)
      <3>1. g \in Nat
        BY <2>5, <2>8
      <3>2. RunProgram(c, stk, g, ctx, newData, blockParams)
        BY <2>6, <2>8
      <3>3. Starts(c, stk)
        BY <1>1, <2>1, <2>2, TopStarts
      <3> HIDE DEF c
      <3> QED
        BY <1>1, <3>1, <3>2, <3>3, RunProgramStack
    <2> QED
      BY <2>7, <2>8
  <1>4. CASE HelperReturns
    <2>1. PICK v \in {Null, Plain} :
            call' = [call EXCEPT ![Height].done = TRUE, ![Height].result = v]
      BY <1>4 DEF HelperReturns
    <2> DEFINE d == [f EXCEPT !.done = TRUE]
               h == [d EXCEPT !.result = v]
    <2>2. Later(f, h, call, n) /\ SamePushed(f, h)
      <3>1. ValueOK(v, call, n - 1)
        BY PlainOK
      <3> QED
        BY <1>1, <3>1, DoneLater
    <2>3. call' = [call EXCEPT ![n] = h]
      <3> DEFINE c == [call EXCEPT ![n] = d]
      <3> HIDE DEF d
      <3>1. n \in DOMAIN call
        BY <1>1 DEF IsSeq
      <3>2. call' = [c EXCEPT ![n].result = v]
        BY <2>1 DEF Height, d
      <3>3. c[n] = d
        BY <3>1
      <3> QED
        BY <3>1, <3>2, <3>3
    <2> HIDE DEF h, d
    <2>4. UNCHANGED <<stk, vm, app>>
      BY <1>4 DEF HelperReturns
    <2>5. StackOK([call EXCEPT ![n] = h], vm, stk, app.overdrawn)
      BY <1>1, <2>2, TopStack
    <2> QED
      BY <2>3, <2>4, <2>5 DEF StackInv
  <1>5. CASE HelperThrows
    BY <1>1, <1>5, StkThrow DEF HelperThrows
  <1> QED
    BY <1>3, <1>4, <1>5

(* handlebars_vm_execute_ex runs its program.                              *)
LEMMA ExecuteProgramStack ==
    ASSUME CallInv, StackInv, ExecuteProgram
    PROVE  StackInv'
  <1> DEFINE n == Len(call)
             f == call[n]
  <1>1. /\ call # <<>> /\ f.kind = "exec" /\ Last(call) = f /\ FrameOK(f) /\ FrameKept(call, n)
        /\ n \in Nat \ {0} /\ IsSeq(call) /\ ~f.done
    <2>1. call # <<>> /\ Last(call).kind = "exec" /\ ~Last(call).done
      BY DEF ExecuteProgram, TopIs
    <2> QED
      BY <2>1, StackFacts
  <1>2. f.g \in Nat
    BY <1>1 DEF FrameKept
  <1>3. Later(f, f, call, n) /\ SamePushed(f, f) /\ Alike(f, f)
    BY <1>1 DEF Later, SamePushed, Alike
  <1>4. [call EXCEPT ![n] = f] = call
    BY <1>1 DEF IsSeq
  <1>5. Starts(call, stk)
    BY <1>1, <1>3, <1>4, TopStarts
  <1>6. RunProgram(call, stk, f.g, f.ctx, FALSE, f.blockParams)
    BY <1>1 DEF ExecuteProgram
  <1> HIDE DEF f
  <1> QED
    BY <1>1, <1>2, <1>5, <1>6, RunProgramStack

(* A frame is pushed for handlebars_vm_execute_ex.                         *)
LEMMA EnterStack ==
    ASSUME NEW c, NEW base, NEW err, Frames(c, base, err), NEW u, NEW s,
           NEW od \in BOOLEAN, StackOK(c, u, s, od), NEW v, DOMAIN v = VmFields,
           Len(c) > 0 => /\ c[Len(c)].kind # "prog" /\ v.owner # 0
                         /\ ModuleOK(v.module, c, Len(c)),
           NEW j, NEW module, ModuleOK(module, c, Len(c)), NEW g \in Nat, NEW ctx,
           NEW blockParams, EnterExecute(c, s, v, j, module, g, ctx, blockParams)
    PROVE  StackOK(call', vm', stk', od)
  <1> DEFINE n == Len(c)
             f == [kind |-> "exec", done |-> FALSE, ret |-> FALSE, prevJmp |-> j,
                   prevModule |-> v.module, setup |-> v.owner = 0,
                   g |-> g, ctx |-> ctx, blockParams |-> blockParams]
             d == Append(c, f)
             t == IF v.owner = 0 THEN EmptyStacks ELSE s
             w == [v EXCEPT !.module = module, !.owner = IF @ = 0 THEN n + 1 ELSE @]
  <1>1. call' = d /\ stk' = t /\ vm' = w
    BY DEF EnterExecute
  <1>2. n \in Nat /\ IsSeq(c) /\ (\A i \in 1 .. n : FrameKept(c, i)) /\ Stacks(s, c, n)
    BY DEF Frames, IsSeq, StackOK
  <1>3. /\ IsSeq(d) /\ Len(d) = n + 1 /\ d[n + 1] = f /\ \A i \in 1 .. n : d[i] = c[i]
    BY <1>2, AppendSeq
  <1>4. /\ f.kind = "exec" /\ f.prevModule = v.module /\ (f.setup <=> v.owner = 0) /\ f.g = g
    OBVIOUS
  <1>5. w.module = module /\ w.owner # 0
    <2> DEFINE w1 == [v EXCEPT !.module = module]
               o == IF v.owner = 0 THEN n + 1 ELSE v.owner
    <2>1. DOMAIN w1 = VmFields /\ w1.module = module /\ w1.owner = v.owner
      BY DEF VmFields
    <2>2. w = [w1 EXCEPT !.owner = IF @ = 0 THEN n + 1 ELSE @]
      OBVIOUS
    <2> HIDE DEF w1
    <2>3. w.module = module /\ w.owner = o
      BY <2>1, <2>2 DEF VmFields
    <2> HIDE DEF w
    <2>4. o # 0
      BY <1>2
    <2> QED
      BY <2>3, <2>4
  <1> HIDE DEF f, d, w
  <1>6. Live(c, n) \subseteq Live(d, n + 1) /\ Live(d, n) = Live(c, n)
    BY <1>2, <1>3 DEF Live
  <1>7. ModuleOK(w.module, d, n + 1) /\ (n > 0 => ModuleOK(v.module, d, n))
    BY <1>5, <1>6, ValueLives
  <1>8. Stacks(t, c, n) /\ (\A k \in StackNames : IsSeq(t[k].v))
    <2>1. Stacks(t, c, n)
      BY <1>2, StackEmpty
    <2> HIDE DEF t
    <2> QED
      BY <2>1 DEF Stacks
  <1>9. Over(t, c, n, od)
    <2>1. CASE n = 0
      BY <2>1 DEF Over, Progs
    <2>2. CASE n # 0
      <3>1. n > 0
        BY <1>2, <2>2
      <3>2. t = s
        BY <3>1
      <3> HIDE DEF t
      <3> QED
        BY <3>2, OverAll
    <2> QED
      BY <2>1, <2>2
  <1>10. FrameKept(d, n + 1)
    <2> DEFINE i == n + 1
    <2>1. i - 1 = n /\ (i > 1 <=> n > 0) /\ (i = 1 <=> n = 0) /\ d[i] = f /\ (n > 0 <=> n # 0)
      BY <1>2, <1>3
    <2> HIDE DEF i, n
    <2>2. FrameKept(d, i)
      BY <1>4, <1>7, <2>1 DEF FrameKept, n
    <2> QED
      BY <2>2 DEF i
  <1> HIDE DEF t
  <1>11. InnermostHas(t, c, d, n, od)
    <2>1. d[Len(d)].kind \notin {"op", "block"}
      BY <1>3, <1>4
    <2> QED
      BY <1>2, <1>3, <1>8, <1>9, <2>1, HasGrown
  <1>12. StackOK(d, w, t, od)
    <2>1. d[Len(d)].kind # "prog" /\ FrameKept(d, Len(d)) /\ ModuleOK(w.module, d, Len(d))
      BY <1>3, <1>4, <1>7, <1>10
    <2> QED
      BY <1>3, <1>5, <1>8, <1>11, <2>1, GrowStack
  <1> QED
    BY <1>1, <1>12

(* The application runs a template.                                        *)
LEMMA ExecuteStack ==
    ASSUME CallInv, StackInv, Execute
    PROVE  StackInv'
  <1> DEFINE od == app.overdrawn
             base == Base
             err == error
             c == call
  <1>1. PICK t \in Mains, ctx \in Contexts :
          EnterExecute(call, stk, vm, jmp, Instance(t, 0), 0, ctx, FALSE)
    BY DEF Execute
  <1>2. call = <<>> /\ Len(call) = 0 /\ Frames(call, base, err) /\ DOMAIN vm = VmFields
    BY VmTypes DEF Execute, CallInv, CallOK
  <1>3. app'.overdrawn = od /\ od \in BOOLEAN /\ StackOK(call, vm, stk, od)
    BY DEF Execute, CallInv, Registers, StackInv
  <1>4. ModuleOK(Instance(t, 0), call, 0)
    BY ConstantsAssumption DEF ModuleOK, Instance, Live
  <1> HIDE DEF base, err, od
  <1>5. StackOK(call', vm', stk', od)
    <2> DEFINE module == Instance(t, 0)
               g == 0
               p == FALSE
               j == jmp
    <2>1. EnterExecute(c, stk, vm, j, module, g, ctx, p) /\ g \in Nat /\ ModuleOK(module, c, Len(c))
      BY <1>1, <1>2, <1>4
    <2>2. ~(Len(c) > 0)
      BY <1>2
    <2>3. Frames(c, base, err) /\ StackOK(c, vm, stk, od)
      BY <1>2, <1>3
    <2> HIDE DEF module, g, p, j, c
    <2> QED
      BY <1>2, <1>3, <2>1, <2>2, <2>3, EnterStack
  <1> QED
    BY <1>3, <1>5 DEF StackInv

-----------------------------------------------------------------------------
(* Partials' blocks *)

(* A partial's block pushes a partial block: it is counted.                *)
LEMMA CoversPushed ==
    ASSUME NEW c, NEW n \in Nat, n = Len(c), NEW d, Len(d) = n, c[n].kind = "block",
           d[n].kind = "block", d[n].pushed \in BOOLEAN, \A y \in 1 .. n : y < n => d[y] = c[y],
           NEW h \in Progs(c), h < n, FrameKept(c, h), NEW k \in StackNames,
           NEW u, NEW w, IsSeq(u), IsSeq(w), Begins(u, w), Covers(u, c, h, k),
           (k = "partialBlock" /\ d[n].pushed) => Len(w) = Len(u) + 1
    PROVE  Covers(w, d, h, k)
  <1>1. h \in 1 .. n /\ c[h].kind = "prog" /\ d[h] = c[h] /\ h # Len(c) /\ h # Len(d) /\ h \in Nat
    BY DEF Progs
  <1>2. Kept(c, h, k) \in Int /\ IsSeq(c[h].at[k])
    BY <1>1, KeptInt DEF FrameKept
  <1> DEFINE a == Count1(Pushed(c, h + 1, "op"))
             b == Count1(Pushed(c, h + 2, "block"))
             x == Count1(Pushed(d, h + 1, "op"))
             y == Count1(Pushed(d, h + 2, "block"))
             z == Count1(d[n].pushed)
  <1>3. Pushed(d, h + 1, "op") <=> Pushed(c, h + 1, "op")
    <2>1. CASE h + 1 = n
      BY <2>1 DEF Pushed
    <2>2. CASE h + 1 # n
      <3>1. h + 1 \in 1 .. n /\ h + 1 < n
        BY <1>1, <2>2
      <3> QED
        BY <3>1 DEF Pushed
    <2> QED
      BY <2>1, <2>2
  <1>4. (Pushed(d, h + 2, "block") <=> Pushed(c, h + 2, "block")) \/ (Pushed(d, h + 2, "block") => d[n].pushed)
    <2>1. CASE h + 2 = n
      BY <2>1 DEF Pushed
    <2>2. CASE h + 2 # n
      <3>1. h + 2 \in 1 .. n => h + 2 < n
        BY <1>1, <2>2
      <3>2. h + 2 \in 1 .. n \/ ~(h + 2 <= n)
        BY <1>1
      <3> QED
        BY <3>1, <3>2 DEF Pushed
    <2> QED
      BY <2>1, <2>2
  <1>5. /\ x = a /\ y \in {0, 1} /\ a \in {0, 1} /\ b \in {0, 1} /\ z \in {0, 1} /\ y <= b + z
        /\ (z = 1 <=> d[n].pushed)
    BY <1>3, <1>4 DEF Count1
  <1> HIDE DEF a, b, x, y, z
  <1>6. /\ k = "partialBlock" => Kept(c, h, k) = a + b /\ Kept(d, h, k) = x + y
        /\ k # "partialBlock" => Kept(d, h, k) = Kept(c, h, k)
    BY <1>1 DEF Kept, a, b, x, y
  <1>7. Begins(c[h].at[k], w)
    BY <1>2, BeginsThrough DEF Covers
  <1> DEFINE e == Len(c[h].at[k])
             p == Kept(c, h, k)
             q == Kept(d, h, k)
             l == Len(u)
             r == Len(w)
  <1>8. e \in Int /\ p \in Int /\ l \in Int /\ r \in Int /\ e + p <= l /\ l <= r
    <2>1. e + p <= l /\ l <= r
      BY DEF Covers, Begins
    <2>2. e \in Int /\ l \in Int /\ r \in Int
      <3>1. e \in Nat /\ l \in Nat /\ r \in Nat
        BY <1>2, Zenon DEF IsSeq
      <3> HIDE DEF e, l, r
      <3> QED
        BY <3>1
    <2>3. p \in Int
      BY <1>2
    <2> HIDE DEF e, p, l, r
    <2> QED
      BY <2>1, <2>2, <2>3
  <1>9. (k = "partialBlock" /\ d[n].pushed) => r = l + 1
    OBVIOUS
  <1> HIDE DEF e, p, q, l, r
  <1>10. e + q <= r
    <2>1. CASE k = "partialBlock"
      <3>1. p = a + b /\ q = x + y
        BY <1>6, <2>1 DEF p, q
      <3>2. CASE z = 1
        <4>1. r = l + 1
          BY <1>5, <1>9, <2>1, <3>2
        <4> QED
          BY <1>5, <1>8, <3>1, <3>2, <4>1
      <3>3. CASE z = 0
        BY <1>5, <1>8, <3>1, <3>3
      <3> QED
        BY <1>5, <3>2, <3>3
    <2>2. CASE k # "partialBlock"
      <3>1. q = p
        BY <1>6, <2>2 DEF p, q
      <3> QED
        BY <1>8, <3>1
    <2> QED
      BY <2>1, <2>2
  <1> QED
    BY <1>1, <1>7, <1>10 DEF Covers, e, q, r

(* invoke_partial_block_closure has pushed the partial block, or not.      *)
LEMMA BlockStarts ==
    ASSUME CallInv, StackInv, call # <<>>, Last(call).kind = "block", NEW pushes \in BOOLEAN,
           NEW x, pushes => ValueOK(x, call, Len(call))
    PROVE  Starts([call EXCEPT ![Len(call)] = [Last(call) EXCEPT !.pushed = pushes]],
                  IF pushes THEN Push(stk, "partialBlock", x) ELSE stk)
  <1> DEFINE n == Len(call)
             f == call[n]
             g == [f EXCEPT !.pushed = pushes]
             d == [call EXCEPT ![n] = g]
             s == IF pushes THEN Push(stk, "partialBlock", x) ELSE stk
             od == app.overdrawn
             base == Base
             err == error
  <1>1. /\ n \in Nat \ {0} /\ n \in 1 .. n /\ IsSeq(call) /\ Last(call) = f /\ n > 0
        /\ f.kind = "block" /\ FrameOK(f)
        /\ Frames(call, base, err) /\ \A i \in 1 .. n : FrameKept(call, i)
        /\ ModuleOK(vm.module, call, n) /\ vm.owner # 0
        /\ Stacks(stk, call, n) /\ StackOK(call, vm, stk, od) /\ od \in BOOLEAN
    BY StackFacts
  <1>2. /\ Later(f, g, call, n) /\ Alike(f, g) /\ g.kind = "block" /\ g.pushed = pushes
    BY <1>1 DEF Later, Alike, FrameOK, Fields
  <1>3. "partialBlock" \in StackNames
    BY DEF StackNames
  <1>4. /\ Stacks(s, call, n) /\ More(stk, s)
        /\ pushes => Len(s["partialBlock"].v) = Len(stk["partialBlock"].v) + 1
    <2>1. CASE pushes
      <3>1. Stacks(s, call, n) /\ More(stk, s)
        BY <1>1, <1>3, <2>1, PushMore
      <3>2. IsSeq(stk["partialBlock"].v) /\ DOMAIN stk = StackNames
            /\ stk["partialBlock"] = [v |-> stk["partialBlock"].v, protect |-> stk["partialBlock"].protect]
        BY <1>1, <1>3 DEF Stacks
      <3>3. s["partialBlock"].v = Append(stk["partialBlock"].v, x)
        BY <1>3, <2>1, <3>2 DEF Push
      <3> HIDE DEF s
      <3> QED
        BY <3>1, <3>2, <3>3, AppendSeq
    <2>2. CASE ~pushes
      <3>1. More(stk, stk)
        BY <1>1, BeginsSelf DEF More, Stacks
      <3> QED
        BY <1>1, <2>2, <3>1
    <2> QED
      BY <2>1, <2>2
  <1> HIDE DEF g, s
  <1>5. Len(d) = n /\ d[n] = g /\ \A y \in 1 .. n : y < n => d[y] = call[y]
    BY <1>1, ReplaceSeq
  <1>6. Frames(d, base, err)
    <2>1. ~(g.kind = "exec") /\ Alike(call[Len(call)], g)
      BY <1>2
    <2> HIDE DEF base, err
    <2> QED
      BY <1>1, <2>1, TopFrames
  <1> HIDE DEF d, od, f
  <1>7. InnermostHas(s, call, d, n, od)
    <2> SUFFICES ASSUME NEW i \in 1 .. n, NEW k \in StackNames, Runs(i, call, n), Counts(k, od)
                 PROVE  Covers(s[k].v, d, i, k)
      BY DEF InnermostHas
    <2>1. i \in Progs(call) /\ i < n
      BY <1>1 DEF Runs, Progs, f
    <2>2. FrameKept(call, i) /\ Covers(stk[k].v, call, i, k)
      BY <1>1, <2>1 DEF StackOK, Covered
    <2>3. IsSeq(stk[k].v) /\ IsSeq(s[k].v) /\ Begins(stk[k].v, s[k].v)
      BY <1>4 DEF More
    <2>4. (k = "partialBlock" /\ d[n].pushed) => Len(s[k].v) = Len(stk[k].v) + 1
      BY <1>2, <1>4, <1>5
    <2>5. n \in Nat /\ n = Len(call) /\ call[n].kind = "block" /\ d[n].kind = "block" /\ d[n].pushed \in BOOLEAN
      BY <1>1, <1>2, <1>5 DEF f
    <2> HIDE DEF n
    <2> QED
      BY <1>5, <2>1, <2>2, <2>3, <2>4, <2>5, CoversPushed
  <1>8. StackOK(d, vm, s, od)
    <2>1. Later(call[n], d[n], call, n)
      BY <1>2, <1>5 DEF f
    <2> HIDE DEF base, err
    <2> QED
      BY <1>1, <1>4, <1>5, <1>7, <2>1, UnwindStack
  <1>9. Over(s, call, n, od)
    <2>1. Over(stk, call, n, od)
      BY <1>1, OverAll
    <2> QED
      BY <1>1, <1>4, <2>1, OverMore DEF More
  <1>10. Starts(d, s)
    BY <1>1, <1>2, <1>4, <1>5, <1>6, <1>8, <1>9 DEF Starts, od
  <1> QED
    BY <1>1, <1>10 DEF d, s, g, f

(* invoke_partial_block_closure runs the block's program.                  *)
LEMMA BlockRunsStack ==
    ASSUME CallInv, StackInv, BlockRuns
    PROVE  StackInv'
  <1> DEFINE n == Len(call)
             f == call[n]
             b == f.closure
             pushes == b.depth > 0
             h == [f EXCEPT !.pushed = pushes]
             c == [call EXCEPT ![n] = h]
             x == stk["partialBlock"].v[b.depth]
             s == IF pushes THEN Push(stk, "partialBlock", x) ELSE stk
             od == app.overdrawn
             base == Base
             err == error
  <1>1. /\ call # <<>> /\ f.kind = "block" /\ Last(call) = f /\ FrameOK(f)
        /\ FrameKept(call, n) /\ Stacks(stk, call, n) /\ n \in Nat \ {0}
        /\ ModuleOK(vm.module, call, n) /\ vm.owner # 0 /\ DOMAIN vm = VmFields
        /\ od \in BOOLEAN /\ n > 0
    <2>1. TopIs("block")
      BY DEF BlockRuns
    <2> QED
      BY <2>1, StackFacts DEF TopIs
  <1>2. BlockOK(b, call, n - 1) /\ pushes \in BOOLEAN
    BY <1>1 DEF FrameKept
  <1>3. \/ Throw(stk, vm) \/ Fault("null value")
        \/ /\ ~(b.depth > Len(stk["partialBlock"].v))
           /\ \/ \E ctx, blockParams : RunProgram(c, s, b.program, ctx, FALSE, blockParams)
              \/ \E ctx, blockParams :
                   /\ EnterExecute(c, s, vm, jmp, b.module, b.program, ctx, blockParams)
                   /\ app' = app
    <2>1. [call EXCEPT ![Height].pushed = pushes] = c
      BY DEF Height
    <2>2. /\ BlockRuns /\ Last(call) = f
      BY <1>1
    <2> HIDE DEF c, h, x, f
    <2> QED
      BY <2>1, <2>2 DEF BlockRuns, x
  <1>4. ~(b.depth > Len(stk["partialBlock"].v)) => Starts(c, s)
    <2>1. b.depth \in Nat /\ Len(stk["partialBlock"].v) \in Nat
      BY <1>1, <1>2 DEF BlockOK, Stacks, IsSeq, StackNames
    <2>2. (pushes /\ ~(b.depth > Len(stk["partialBlock"].v))) => ValueOK(x, call, n)
      <3> DEFINE k == b.depth
      <3>1. (k > 0 /\ ~(k > Len(stk["partialBlock"].v))) => k \in 1 .. Len(stk["partialBlock"].v)
        BY <2>1
      <3> HIDE DEF k
      <3> QED
        BY <1>1, <3>1 DEF Stacks, k
    <2>3. Last(call).kind = "block"
      BY <1>1
    <2>4. c = [call EXCEPT ![Len(call)] = [Last(call) EXCEPT !.pushed = pushes]]
      BY <1>1
    <2> HIDE DEF x, f, c, pushes
    <2> QED
      BY <1>1, <1>2, <2>2, <2>3, <2>4, BlockStarts
  <1>5. b.program \in Nat /\ ModuleOK(b.module, call, n)
    <2>1. b.program \in Nat /\ ModuleOK(b.module, call, n - 1)
      BY <1>2 DEF BlockOK, ModuleOK
    <2>2. Live(call, n - 1) \subseteq Live(call, n)
      BY <1>1 DEF Live
    <2> QED
      BY <2>1, <2>2 DEF ModuleOK
  <1>6. c[n] = h /\ Len(c) = n /\ h.kind = "block" /\ Live(c, n) = Live(call, n)
    <2>1. IsSeq(call)
      BY <1>1, StackFacts
    <2>2. h.kind = "block"
      BY <1>1 DEF FrameOK, Fields
    <2> HIDE DEF h
    <2>3. Len(c) = n /\ c[n] = h /\ \A y \in 1 .. n : y < n => c[y] = call[y]
      BY <1>1, <2>1, ReplaceSeq
    <2>4. \A y \in 1 .. n : c[y].kind = call[y].kind
      <3> HIDE DEF c
      <3>1. SUFFICES ASSUME NEW y \in 1 .. n PROVE c[y].kind = call[y].kind
        OBVIOUS
      <3>2. CASE y = n
        BY <1>1, <2>2, <2>3, <3>2
      <3>3. CASE y # n
        <4>1. y < n
          BY <1>1, <3>3
        <4> QED
          BY <2>3, <4>1
      <3> QED
        BY <3>2, <3>3
    <2>5. Live(c, n) = Live(call, n)
      BY <2>4 DEF Live
    <2> QED
      BY <2>2, <2>3, <2>5
  <1>7. CASE /\ ~(b.depth > Len(stk["partialBlock"].v))
             /\ \E ctx, blockParams : RunProgram(c, s, b.program, ctx, FALSE, blockParams)
    <2>1. FALSE \in BOOLEAN /\ Starts(c, s)
      BY <1>4, <1>7
    <2>2. PICK ctx, blockParams : RunProgram(c, s, b.program, ctx, FALSE, blockParams)
      BY <1>7
    <2> HIDE DEF c, s, f
    <2> QED
      BY <1>1, <1>5, <2>1, <2>2, RunProgramStack
  <1>8. CASE /\ ~(b.depth > Len(stk["partialBlock"].v))
             /\ \E ctx, blockParams :
                   /\ EnterExecute(c, s, vm, jmp, b.module, b.program, ctx, blockParams)
                   /\ app' = app
    <2> DEFINE module == b.module
               g == b.program
               j == jmp
    <2>1. PICK ctx, blockParams : EnterExecute(c, s, vm, j, module, g, ctx, blockParams)
      BY <1>8
    <2>2. Starts(c, s) /\ app' = app
      BY <1>4, <1>8
    <2>3. StackOK(c, vm, s, od) /\ Frames(c, base, err)
      BY <2>2 DEF Starts
    <2>4. Len(c) > 0 => c[Len(c)].kind # "prog" /\ vm.owner # 0 /\ ModuleOK(vm.module, c, Len(c))
      BY <1>1, <1>6 DEF ModuleOK
    <2>5. ModuleOK(module, c, Len(c)) /\ g \in Nat
      BY <1>5, <1>6 DEF ModuleOK
    <2>6. app'.overdrawn = od
      BY <2>2
    <2> HIDE DEF c, s, f, module, g, j, base, err, od
    <2>7. StackOK(call', vm', stk', od)
      BY <1>1, <2>1, <2>3, <2>4, <2>5, EnterStack
    <2> QED
      BY <1>1, <2>6, <2>7 DEF StackInv
  <1>9. CASE Throw(stk, vm) \/ Fault("null value")
    BY <1>1, <1>9, StkThrow, FaultStack
  <1> QED
    BY <1>3, <1>7, <1>8, <1>9

(* invoke_partial_block_closure returns: its partial block is popped.      *)
LEMMA BlockReturnsStack ==
    ASSUME CallInv, StackInv, BlockReturns
    PROVE  StackInv'
  <1> DEFINE n == Len(call)
             m == n - 1
             q == m - 1
             f == call[n]
             h == call[m]
             done == [h EXCEPT !.done = TRUE]
             g == [done EXCEPT !.result = Plain]
             s == IF f.pushed THEN Pop(stk, "partialBlock", 1) ELSE stk
             od == app.overdrawn
             base == Base
             err == error
             d == Unwound(call, m, g)
  <1>1. call # <<>> /\ Last(call).kind = "block"
    BY DEF BlockReturns, TopIs
  <1>2. /\ n \in Nat /\ n > 1 /\ f.kind = "block" /\ IsSeq(call) /\ Last(call) = f
        /\ h.kind = "op" /\ FrameOK(h)
        /\ m \in Nat \ {0} /\ m + 1 = n /\ m \in 1 .. n /\ n \in 1 .. n
    BY <1>1, TopOf, StackFacts DEF Callers
  <1>3. /\ Frames(call, base, err) /\ \A i \in 1 .. n : FrameKept(call, i)
        /\ ModuleOK(vm.module, call, n) /\ vm.owner # 0 /\ call[1].kind = "exec"
        /\ Stacks(stk, call, n) /\ StackOK(call, vm, stk, od) /\ od \in BOOLEAN
    BY <1>1, StackFacts
  <1>4. FrameKept(call, m) /\ FrameKept(call, n)
    BY <1>2, <1>3
  <1>5. /\ q \in 1 .. n /\ q \in 1 .. m /\ call[q].kind = "prog" /\ q + 1 = m /\ q + 2 = n
        /\ q # n /\ q # m /\ q \in Nat
    <2>1. m # 1
      BY <1>2, <1>3
    <2>2. q \in 1 .. n /\ q + 1 = m /\ q + 2 = n /\ q \in 1 .. m /\ q # n /\ q # m /\ q \in Nat
      <3>1. n \in Nat /\ m \in Nat \ {0} /\ m + 1 = n /\ m # 1 /\ q = m - 1
        BY <1>2, <2>1
      <3> HIDE DEF n, m, q
      <3> QED
        BY <3>1
    <2>3. call[m - 1].kind \in Callers("op")
      <3>1. Nested(call)
        BY <1>3 DEF Frames
      <3>2. m \in 1 .. Len(call) /\ m # 1 /\ call[m].kind = "op"
        BY <1>2, <2>1
      <3> HIDE DEF m, n
      <3> QED
        BY <3>1, <3>2 DEF Nested
    <2> QED
      BY <2>2, <2>3 DEF Callers
  <1>6. CASE Throw(stk, vm)
    BY <1>1, <1>6, StkThrow
  <1>7. ASSUME /\ stk' = s
               /\ call' = [Done(Front(call)) EXCEPT ![Height - 1].result = Plain]
               /\ UNCHANGED <<vm, jmp, error, pins, cached, app>>
        PROVE  StackInv'
    <2>1. call' = d /\ app'.overdrawn = od /\ vm' = vm
      BY <1>2, <1>7, BelowTop DEF Height
    <2>2. Later(h, g, call, m) /\ g.kind = "op" /\ (g.pushed <=> h.pushed)
      <3>1. h.kind = "op" =>
              \A x : ValueOK(x, call, m - 1) => /\ Later(h, [done EXCEPT !.result = x], call, m)
                                               /\ SamePushed(h, [done EXCEPT !.result = x])
        BY <1>2, <1>4, DoneLater
      <3>2. Later(h, g, call, m) /\ SamePushed(h, g)
        BY <1>2, <3>1, PlainOK
      <3> HIDE DEF g, h
      <3> QED
        BY <1>2, <3>2 DEF SamePushed
    <2>3. Live(call, n) = Live(call, m)
      <3>1. call[m + 1].kind # "tmpl" /\ m \in Nat
        BY <1>2
      <3> HIDE DEF f
      <3> QED
        BY <1>2, <3>1, OneMore
    <2>4. Stacks(stk, call, m) /\ ModuleOK(vm.module, call, m)
      BY <1>3, <2>3, ValueLives
    <2>5. Len(d) = m /\ d[m] = g /\ \A y \in 1 .. m : y < m => d[y] = call[y]
      <3>1. m \in 1 .. Len(call) /\ IsSeq(call)
        BY <1>2
      <3> HIDE DEF g, m, n
      <3> QED
        BY <3>1, UnwoundSeq
    <2>6. d[q] = call[q]
      <3>1. q < m /\ q \in 1 .. m
        <4> HIDE DEF n, m, q
        <4> QED
          BY <1>2, <1>5
      <3> HIDE DEF q, d
      <3> QED
        BY <2>5, <3>1
    <2> DEFINE a == Count1(h.pushed)
               b == Count1(f.pushed)
    <2>7. a \in {0, 1} /\ b \in {0, 1} /\ (b = 1 <=> f.pushed)
      BY DEF Count1
    <2> HIDE DEF d, g, s
    <2>8. Kept(call, q, "partialBlock") = a + b /\ Kept(d, q, "partialBlock") = a
      <3> DEFINE i == q + 1
                 j == q + 2
      <3>1. i = m /\ j = n /\ m <= n /\ n <= n /\ m <= m /\ ~(n <= m)
        <4> HIDE DEF n, m, q
        <4> QED
          BY <1>2, <1>5
      <3> HIDE DEF i, j, m, n
      <3>2. /\ Pushed(call, i, "op") <=> h.pushed
            /\ Pushed(call, j, "block") <=> f.pushed
            /\ Pushed(d, i, "op") <=> h.pushed
            /\ ~Pushed(d, j, "block")
        BY <1>2, <2>2, <2>5, <3>1 DEF Pushed, m, n
      <3>3. /\ Count1(Pushed(call, i, "op")) = a /\ Count1(Pushed(call, j, "block")) = b
            /\ Count1(Pushed(d, i, "op")) = a /\ Count1(Pushed(d, j, "block")) = 0
        BY <3>2 DEF Count1
      <3>4. /\ Kept(call, q, "partialBlock") = Count1(Pushed(call, i, "op")) + Count1(Pushed(call, j, "block"))
            /\ Kept(d, q, "partialBlock") = Count1(Pushed(d, i, "op")) + Count1(Pushed(d, j, "block"))
        BY DEF Kept, i, j
      <3> HIDE DEF a, b
      <3>5. a + 0 = a
        BY <2>7
      <3> QED
        BY <3>3, <3>4, <3>5
    <2>9. \A k \in StackNames : k # "partialBlock" => Kept(d, q, k) = Kept(call, q, k)
      BY <1>5, <2>5, <2>6 DEF Kept
    <2>10. \A k \in StackNames : IsSeq(call[q].at[k])
      <3>1. FrameKept(call, q)
        BY <1>3, <1>5
      <3> QED
        BY <1>5, <3>1 DEF FrameKept
    <2> HIDE DEF a, b, m, n, q
    <2>11. Stacks(s, call, m) /\ \A k \in StackNames : k # "partialBlock" => s[k] = stk[k]
      <3>1. "partialBlock" \in StackNames
        BY DEF StackNames
      <3> QED
        BY <2>4, <3>1, StackPop DEF s
    <2>12. ASSUME NEW k \in StackNames, Counts(k, od) PROVE Covers(s[k].v, d, q, k)
      <3>1. Covers(stk[k].v, call, q, k)
        <4>1. q \in Progs(call)
          BY <1>5 DEF Progs, n
        <4> QED
          BY <1>3, <2>12, <4>1 DEF StackOK, Covered
      <3>2. CASE k # "partialBlock"
        BY <2>6, <2>9, <2>11, <3>1, <3>2 DEF Covers
      <3>3. CASE k = "partialBlock" /\ ~f.pushed
        <4>1. b = 0 /\ s = stk
          BY <2>7, <3>3 DEF s
        <4>2. a + b = a
          BY <2>7, <4>1
        <4> QED
          BY <2>6, <2>8, <3>1, <3>3, <4>1, <4>2 DEF Covers
      <3>4. CASE k = "partialBlock" /\ f.pushed
        <4> DEFINE x == Kept(call, q, k)
                   u == call[q].at[k]
        <4>1. x = a + b /\ b = 1
          BY <2>7, <2>8, <3>4
        <4>2. x \in Int /\ x >= 1 /\ 1 \in Nat /\ x - 1 = a
          <5> HIDE DEF x
          <5> QED
            BY <2>7, <4>1
        <4>3. Begins(u, stk[k].v) /\ Len(u) + x <= Len(stk[k].v) /\ IsSeq(u)
          BY <2>10, <3>1 DEF Covers
        <4> HIDE DEF x, u
        <4>4. Begins(u, Pop(stk, k, 1)[k].v) /\ Len(u) + (x - 1) <= Len(Pop(stk, k, 1)[k].v)
          BY <2>4, <4>2, <4>3, BeginsPop
        <4>5. Pop(stk, k, 1) = s /\ Kept(d, q, k) = a
          BY <2>8, <3>4 DEF s
        <4> QED
          BY <2>6, <4>2, <4>4, <4>5 DEF Covers, u
      <3> QED
        BY <3>2, <3>3, <3>4
    <2>13. InnermostHas(s, call, d, m, od)
      <3> SUFFICES ASSUME NEW i \in 1 .. m, NEW k \in StackNames, Runs(i, call, m), Counts(k, od)
                   PROVE  Covers(s[k].v, d, i, k)
        BY DEF InnermostHas
      <3>1. i = q
        <4>1. call[i].kind = "prog" /\ ~(q > i) /\ i # m /\ q + 1 = m /\ q \in Nat /\ m \in Nat
          BY <1>2, <1>5 DEF Runs
        <4> QED
          BY <4>1
      <3> QED
        BY <2>12, <3>1
    <2>14. StackOK(d, vm, s, od)
      <3>1. Later(call[m], d[m], call, m) /\ m \in 1 .. Len(call)
        BY <1>2, <2>2, <2>5 DEF n
      <3> HIDE DEF base, err, od
      <3> QED
        BY <1>3, <2>4, <2>5, <2>11, <2>13, <3>1, UnwindStack
    <2> QED
      BY <1>3, <1>7, <2>1, <2>14 DEF StackInv
  <1>8. \/ Throw(stk, vm)
        \/ /\ stk' = s
           /\ call' = [Done(Front(call)) EXCEPT ![Height - 1].result = Plain]
           /\ UNCHANGED <<vm, jmp, error, pins, cached, app>>
    BY <1>2 DEF BlockReturns
  <1> QED
    BY <1>6, <1>7, <1>8

-----------------------------------------------------------------------------
(* Templates *)

(* execute_template starts: with no opcodes it is done.                    *)
LEMMA TemplateRunsStack ==
    ASSUME CallInv, StackInv, TemplateRuns
    PROVE  StackInv'
  <1> DEFINE n == Len(call)
             f == call[n]
             d == [f EXCEPT !.done = TRUE]
             od == app.overdrawn
             base == Base
             err == error
  <1>1. /\ call # <<>> /\ f.kind = "tmpl" /\ Last(call) = f /\ FrameOK(f)
        /\ FrameKept(call, n) /\ n \in Nat \ {0} /\ Frames(call, base, err)
        /\ ModuleOK(vm.module, call, n) /\ vm.owner # 0 /\ DOMAIN vm = VmFields
        /\ StackOK(call, vm, stk, od) /\ od \in BOOLEAN /\ n > 0
    <2>1. TopIs("tmpl")
      BY DEF TemplateRuns
    <2> QED
      BY <2>1, StackFacts DEF TopIs
  <1>2. CASE call' = Done(call) /\ UNCHANGED <<stk, vm, app>>
    <2>1. Later(f, d, call, n) /\ SamePushed(f, d)
      BY <1>1, DoneLater
    <2>2. call' = [call EXCEPT ![n] = d]
      BY <1>1, <1>2 DEF Done
    <2> HIDE DEF d
    <2>3. StackOK([call EXCEPT ![n] = d], vm, stk, od)
      BY <1>1, <2>1, TopStack
    <2> QED
      BY <1>1, <1>2, <2>2, <2>3 DEF StackInv
  <1>3. CASE \E owner \in {0, n} :
               /\ EnterExecute(call, stk, [vm EXCEPT !.depth = @ + 1], n,
                               Instance(f.tmpl, owner), 0, f.ctx, FALSE)
               /\ app' = app
    <2> DEFINE v == [vm EXCEPT !.depth = @ + 1]
    <2>1. PICK owner \in {0, n} :
            EnterExecute(call, stk, v, n, Instance(f.tmpl, owner), 0, f.ctx, FALSE)
      BY <1>3
    <2>2. DOMAIN v = VmFields /\ v.owner = vm.owner /\ v.module = vm.module
      BY <1>1 DEF VmFields
    <2>3. ModuleOK(Instance(f.tmpl, owner), call, n)
      <3>1. f.tmpl \in Templates
        BY <1>1 DEF FrameKept
      <3>2. n \in Live(call, n) /\ 0 \in Live(call, n)
        BY <1>1 DEF Live
      <3> QED
        BY <2>1, <3>1, <3>2 DEF ModuleOK, Instance
    <2> HIDE DEF v
    <2>4. StackOK(call', vm', stk', od)
      <3> DEFINE module == Instance(f.tmpl, owner)
                 ctx == f.ctx
                 g == 0
                 j == n
                 blockParams == FALSE
      <3>1. EnterExecute(call, stk, v, j, module, g, ctx, blockParams) /\ g \in Nat
        BY <2>1
      <3>2. ModuleOK(module, call, Len(call))
        BY <2>3
      <3>3. Len(call) > 0 => /\ call[Len(call)].kind # "prog" /\ v.owner # 0
                             /\ ModuleOK(v.module, call, Len(call))
        BY <1>1, <2>2
      <3> HIDE DEF module, ctx, g, j, blockParams, f, n, base, err, od
      <3> QED
        BY <1>1, <2>2, <3>1, <3>2, <3>3, EnterStack
    <2> QED
      BY <1>1, <1>3, <2>4 DEF StackInv
  <1>4. \/ call' = Done(call) /\ UNCHANGED <<stk, vm, app>>
        \/ \E owner \in {0, n} :
             /\ EnterExecute(call, stk, [vm EXCEPT !.depth = @ + 1], n,
                             Instance(f.tmpl, owner), 0, f.ctx, FALSE)
             /\ app' = app
    <2> DEFINE owner == IF Last(call).fromCache \/ Cache = "simple" THEN 0 ELSE Height
    <2>1. owner \in {0, n}
      BY DEF Height
    <2>2. \/ call' = Done(call) /\ UNCHANGED <<stk, vm, app>>
          \/ /\ EnterExecute(call, stk, [vm EXCEPT !.depth = @ + 1], Height,
                              Instance(Last(call).tmpl, owner), 0, Last(call).ctx, FALSE)
             /\ app' = app
      BY DEF TemplateRuns
    <2> HIDE DEF owner, f
    <2> QED
      BY <1>1, <2>1, <2>2 DEF Height
  <1> QED
    BY <1>2, <1>3, <1>4

(* A module that is below the template's stays.                            *)
LEMMA FreedModule ==
    ASSUME NEW c, NEW m \in Nat, NEW x, ModuleOK(x, c, m + 1)
    PROVE  ModuleOK(Free(x, m + 1), c, m)
  <1>1. x \in [tmpl : Templates, frame : Live(c, m + 1)]
    BY DEF ModuleOK
  <1>2. Live(c, m + 1) \ {m + 1} \subseteq Live(c, m) /\ -1 \in Live(c, m)
    BY OneMore DEF Live
  <1>3. CASE x.frame = m + 1
    BY <1>1, <1>2, <1>3 DEF Free, ModuleOK
  <1>4. CASE x.frame # m + 1
    <2>1. x.frame \in Live(c, m)
      BY <1>1, <1>2, <1>4
    <2> QED
      BY <1>1, <1>4, <2>1 DEF Free, ModuleOK
  <1> QED
    BY <1>3, <1>4

(* A value from before the template began does not speak of its module.    *)
LEMMA FreedSame ==
    ASSUME NEW c, NEW m \in Nat, NEW j \in Nat, j <= m, NEW x, ValueOK(x, c, j)
    PROVE  Freed(x, m + 1) = x
  <1>1. CASE x.t = "block"
    <2>1. x \in [t : {"block"}, module : [tmpl : Templates, frame : Live(c, j)],
                 program : Nat, depth : Nat]
      BY <1>1 DEF ValueOK, BlockOK
    <2>2. x.module.frame \in Live(c, j)
      BY <2>1
    <2>3. m + 1 \notin Live(c, j)
      BY DEF Live
    <2>4. Free(x.module, m + 1) = x.module
      BY <2>2, <2>3 DEF Free
    <2>5. [x EXCEPT !.module = x.module] = x
      BY <2>1
    <2> QED
      BY <1>1, <2>4, <2>5 DEF Freed
  <1>2. CASE x.t # "block"
    BY <1>2 DEF Freed
  <1> QED
    BY <1>1, <1>2

(* What the programs began with is left alone.                             *)
LEMMA OverFreed ==
    ASSUME NEW c, NEW m \in Nat, \A i \in 1 .. Len(c) : FrameKept(c, i),
           NEW s, Stacks(s, c, m + 1), NEW od, Over(s, c, m, od)
    PROVE  Over(FreedStack(s, m + 1), c, m, od)
  <1> DEFINE t == FreedStack(s, m + 1)
  <1>1. \A k \in StackNames :
          /\ Len(t[k].v) = Len(s[k].v)
          /\ \A i \in 1 .. Len(s[k].v) :
               t[k].v[i] = IF k \in {"stack", "partialBlock"} THEN Freed(s[k].v[i], m + 1)
                           ELSE s[k].v[i]
    <2>1. FreedIn(t, s, m + 1)
      BY FreedStacks
    <2> HIDE DEF t
    <2> QED
      BY <2>1 DEF FreedIn
  <1> HIDE DEF t
  <1> SUFFICES ASSUME NEW h \in Progs(c), NEW k \in StackNames, h < m, Counts(k, od)
               PROVE  Covers(t[k].v, c, h, k)
    BY DEF Over, t
  <1>2. Covers(s[k].v, c, h, k)
    BY DEF Over
  <1>3. FrameKept(c, h) /\ c[h].kind = "prog" /\ h \in Nat /\ h # 0
    BY DEF Progs
  <1> DEFINE u == c[h].at[k]
             v == s[k].v
             w == t[k].v
             j == h - 1
  <1>4. /\ IsSeq(u) /\ IsSeq(v) /\ Begins(u, v) /\ Len(w) = Len(v)
        /\ k \in {"stack", "partialBlock"} => Held(u, c, j)
    BY <1>1, <1>2, <1>3 DEF FrameKept, Stacks, Covers
  <1>5. j \in Nat /\ j <= m
    BY <1>3
  <1>6. \A i \in 1 .. Len(v) :
          w[i] = IF k \in {"stack", "partialBlock"} THEN Freed(v[i], m + 1) ELSE v[i]
    BY <1>1
  <1> HIDE DEF u, v, w, j
  <1>7. ASSUME NEW i \in 1 .. Len(u) PROVE w[i] = u[i]
    <2>1. i \in 1 .. Len(v) /\ v[i] = u[i]
      BY <1>4 DEF Begins, IsSeq
    <2>2. CASE k \in {"stack", "partialBlock"}
      <3>1. ValueOK(u[i], c, j)
        BY <1>4, <2>2 DEF Held
      <3>2. Freed(u[i], m + 1) = u[i]
        BY <1>5, <3>1, FreedSame
      <3> QED
        BY <1>6, <2>1, <2>2, <3>2
    <2>3. CASE k \notin {"stack", "partialBlock"}
      BY <1>6, <2>1, <2>3
    <2> QED
      BY <2>2, <2>3
  <1>8. Begins(u, w)
    BY <1>4, <1>7 DEF Begins
  <1> QED
    BY <1>2, <1>4, <1>8 DEF Covers, u, v, w

(* execute_template ends: its module is freed.                             *)
LEMMA TemplateReturnsStack ==
    ASSUME CallInv, StackInv, TemplateReturns
    PROVE  StackInv'
  <1> DEFINE n == Len(call)
             m == n - 1
             f == Last(call)
             h == call[m]
             done == [h EXCEPT !.done = TRUE]
             g == [done EXCEPT !.result = Plain]
             freed(x) == IF x.t = "block" THEN [x EXCEPT !.module = Free(@, n)] ELSE x
             v == [vm EXCEPT !.depth = f.prevDepth]
             od == app.overdrawn
             base == Base
             err == error
  <1>1. call # <<>> /\ Last(call).kind = "tmpl"
    BY DEF TemplateReturns, TopIs
  <1>2. /\ n \in Nat /\ n > 1 /\ IsSeq(call) /\ h.kind = "op" /\ FrameOK(h)
        /\ m \in Nat \ {0} /\ m + 1 = n /\ m \in 1 .. n
    BY <1>1, TopOf, StackFacts DEF Callers
  <1>3. /\ Frames(call, base, err) /\ \A i \in 1 .. n : FrameKept(call, i)
        /\ ModuleOK(vm.module, call, n) /\ vm.owner # 0 /\ DOMAIN vm = VmFields
        /\ Stacks(stk, call, n) /\ StackOK(call, vm, stk, od) /\ od \in BOOLEAN
    BY <1>1, StackFacts
  <1>4. FrameKept(call, m)
    BY <1>2, <1>3
  <1>5. call' = Unwound(call, m, g)
    BY <1>2, BelowTop DEF TemplateReturns, Height
  <1>6. /\ vm' = [v EXCEPT !.module = Free(@, n)]
        /\ stk' = [k \in StackNames |->
                     IF k \notin {"stack", "partialBlock"} THEN stk[k]
                     ELSE [stk[k] EXCEPT !.v = [i \in DOMAIN @ |-> freed(@[i])]]]
        /\ app'.overdrawn = od
    BY DEF TemplateReturns, Height
  <1>7. stk' = FreedStack(stk, n)
    BY <1>6 DEF FreedStack, Freed
  <1>8. vm'.owner = vm.owner /\ vm'.module = Free(vm.module, n)
    <2>1. DOMAIN v = VmFields /\ v.owner = vm.owner /\ v.module = vm.module
      BY <1>3 DEF VmFields
    <2> HIDE DEF v
    <2> QED
      BY <1>6, <2>1 DEF VmFields
  <1>9. Later(h, g, call, m) /\ SamePushed(h, g)
    <2>1. h.kind = "op" =>
            \A x : ValueOK(x, call, m - 1) => /\ Later(h, [done EXCEPT !.result = x], call, m)
                                             /\ SamePushed(h, [done EXCEPT !.result = x])
      BY <1>2, <1>4, DoneLater
    <2> QED
      BY <1>2, <2>1, PlainOK
  <1>10. Over(stk, call, m, od)
    BY <1>3, OverAll
  <1> HIDE DEF base, err, od, g, f, v, m, n
  <1>11. Stacks(stk', call, m) /\ Over(stk', call, m, od) /\ ModuleOK(vm'.module, call, m)
    <2>1. m \in Nat /\ Stacks(stk, call, m + 1) /\ ModuleOK(vm.module, call, m + 1)
      BY <1>2, <1>3
    <2>2. \A i \in 1 .. Len(call) : FrameKept(call, i)
      BY <1>3 DEF n
    <2>3. /\ Stacks(FreedStack(stk, m + 1), call, m)
          /\ Over(FreedStack(stk, m + 1), call, m, od)
          /\ ModuleOK(Free(vm.module, m + 1), call, m)
      BY <1>10, <2>1, <2>2, FreedStacks, FreedModule, OverFreed
    <2> QED
      BY <1>2, <1>7, <1>8, <2>3
  <1>12. StackOK(Unwound(call, m, g), vm', stk', od)
    <2>1. call[m].kind # "prog" /\ Later(call[m], g, call, m) /\ SamePushed(call[m], g)
      BY <1>2, <1>9
    <2>2. vm'.owner # 0 /\ m \in 1 .. Len(call)
      BY <1>2, <1>3, <1>8 DEF n
    <2> QED
      BY <1>3, <1>11, <2>1, <2>2, PopsStack
  <1> QED
    BY <1>3, <1>5, <1>6, <1>12 DEF StackInv, od

-----------------------------------------------------------------------------
(* Executions *)

(* handlebars_vm_execute_ex ends: the outermost frees the stacks.          *)
LEMMA ExecuteReturnsStack ==
    ASSUME CallInv, StackInv, ExecuteReturns
    PROVE  StackInv'
  <1> DEFINE n == Len(call)
             m == n - 1
             f == Last(call)
             h == call[m]
             d == [h EXCEPT !.done = TRUE]
             od == app.overdrawn
             base == Base
             err == error
  <1>1. /\ call # <<>> /\ f.kind = "exec" /\ f = call[n] /\ IsSeq(call) /\ n \in Nat \ {0}
        /\ Frames(call, base, err) /\ \A i \in 1 .. n : FrameKept(call, i)
        /\ FrameKept(call, n) /\ DOMAIN vm = VmFields /\ vm.owner # 0
        /\ Stacks(stk, call, n) /\ StackOK(call, vm, stk, od) /\ od \in BOOLEAN
    <2>1. TopIs("exec")
      BY DEF ExecuteReturns
    <2> QED
      BY <2>1, StackFacts DEF TopIs
  <1>2. /\ call' = Done(Front(call)) /\ vm' = LeaveExecute(vm, f)
        /\ stk' = IF f.setup THEN EmptyStacks ELSE stk
    BY DEF ExecuteReturns
  <1>3. app'.overdrawn = od
    BY DEF ExecuteReturns, CallInv, Registers
  <1>4. CASE n > 1
    <2>1. /\ n # 1 /\ m \in Nat \ {0} /\ m + 1 = n /\ m \in 1 .. n /\ h.kind \in {"tmpl", "block"}
          /\ FrameOK(h) /\ m \in 1 .. Len(call)
      BY <1>1, <1>4, TopOf DEF Callers
    <2>2. FrameKept(call, m) /\ h.kind # "prog"
      BY <1>1, <2>1
    <2>3. Later(h, d, call, m) /\ SamePushed(h, d)
      BY <2>1, <2>2, DoneLater
    <2>4. call' = Unwound(call, m, d)
      BY <1>1, <1>2, <1>4, BelowTop
    <2>5. ~f.setup /\ ModuleOK(f.prevModule, call, m)
      BY <1>1, <1>4, <2>1 DEF FrameKept
    <2>6. vm'.owner # 0 /\ ModuleOK(vm'.module, call, m) /\ stk' = stk
      <3> DEFINE v == [vm EXCEPT !.module = f.prevModule]
      <3>1. DOMAIN v = VmFields /\ v.owner = vm.owner /\ v.module = f.prevModule
        BY <1>1 DEF VmFields
      <3>2. vm' = [v EXCEPT !.owner = IF f.setup THEN 0 ELSE @]
        BY <1>2 DEF LeaveExecute
      <3> HIDE DEF v, f
      <3>3. vm'.owner = vm.owner /\ vm'.module = f.prevModule
        BY <2>5, <3>1, <3>2 DEF VmFields
      <3> QED
        BY <1>1, <1>2, <2>5, <3>3
    <2>7. Live(call, n) = Live(call, m)
      <3>1. call[m + 1].kind # "tmpl" /\ m \in Nat
        BY <1>1, <2>1
      <3> HIDE DEF f
      <3> QED
        BY <2>1, <3>1, OneMore
    <2> HIDE DEF n, m, f, h, d, base, err, od
    <2>8. Stacks(stk, call, m) /\ Over(stk, call, m, od)
      BY <1>1, <2>7, ValueLives, OverAll
    <2>9. StackOK(Unwound(call, m, d), vm', stk', od)
      <3>1. call[m].kind # "prog" /\ Later(call[m], d, call, m) /\ SamePushed(call[m], d)
        BY <2>2, <2>3 DEF h
      <3> QED
        BY <1>1, <2>1, <2>6, <2>8, <3>1, PopsStack
    <2> QED
      BY <1>1, <1>3, <2>4, <2>9 DEF StackInv
  <1>5. CASE ~(n > 1)
    <2>1. n = 1
      BY <1>1, <1>5
    <2>2. call' = <<>> /\ Len(call') = 0
      <3>1. Front(call) = <<>>
        BY <1>1, <2>1, FrontSeq, EmptyIsSeq
      <3> QED
        BY <1>2, <3>1 DEF Done
    <2>3. Stacks(stk', call', 0)
      <3>1. Live(call, 1) = Live(call', 0)
        <4>1. call[1].kind = "exec"
          BY <1>1, <2>1
        <4> QED
          BY <4>1 DEF Live
      <3>2. Stacks(stk, call', 0)
        BY <1>1, <2>1, <3>1, ValueLives
      <3> QED
        BY <1>2, <3>2, StackEmpty
    <2>4. Progs(call') = {}
      BY <2>2 DEF Progs
    <2>5. Covered(call', stk', od)
      BY <2>4, NoPrograms
    <2>6. StackOK(call', vm', stk', od)
      BY <2>2, <2>3, <2>5 DEF StackOK
    <2> QED
      BY <1>1, <1>3, <2>6 DEF StackInv
  <1> QED
    BY <1>4, <1>5

-----------------------------------------------------------------------------
(* The theorem *)

LEMMA InitStack ==
    ASSUME Init
    PROVE  StackInv
  <1>1. call = <<>> /\ Len(call) = 0 /\ stk = EmptyStacks /\ app.overdrawn = FALSE
    BY DEF Init
  <1>2. Progs(call) = {}
    BY <1>1 DEF Progs
  <1>3. Stacks(stk, call, 0) /\ Covered(call, stk, app.overdrawn)
    BY <1>1, <1>2, StackEmpty, NoPrograms
  <1>4. StackOK(call, vm, stk, app.overdrawn)
    <2>1. Len(call) = 0 /\ 1 .. Len(call) = {} /\ ~(Len(call) > 0)
      BY <1>1
    <2> QED
      BY <1>3, <2>1 DEF StackOK
  <1>5. app.overdrawn \in BOOLEAN
    BY <1>1
  <1> QED
    BY <1>4, <1>5 DEF StackInv

LEMMA NextStack ==
    ASSUME CallInv, StackInv, [Next]_vars
    PROVE  StackInv'
  <1>1. CASE UNCHANGED vars
    BY <1>1, StackSame DEF vars
  <1>2. CASE Execute
    BY <1>2, ExecuteStack
  <1>3. CASE Step
    BY <1>3, SimpleStack, CallingStack, ReturnStack, HandlerReturnsStack, HelperStack,
       BlockRunsStack, BlockReturnsStack, TemplateRunsStack, TemplateReturnsStack,
       ExecuteProgramStack, ExecuteReturnsStack DEF Step
  <1> QED
    BY <1>1, <1>2, <1>3 DEF Next, Finished

(* A program finds what was on the stacks when it began, whatever it has   *)
(* called since and however that ended: handlebars_stack_save protects it  *)
(* and handlebars_stack_restore cuts to it (vm.c:1322-1326, 1350-1354).    *)
(* Of the operands this holds until an append without one of its own has   *)
(* taken a caller's, which handlebars_stack_pop lets it (stack.c:225-229). *)
THEOREM CallersIntact == Spec => []CallerIntact
  <1>1. (CallInv /\ StackInv) => CallerIntact
    <2> SUFFICES ASSUME CallInv, StackInv, NEW i \in Heights("prog"), NEW k \in StackNames,
                        k = "stack" => ~app.overdrawn
                 PROVE  IsPrefix(call[i].at[k], stk[k].v)
      BY DEF CallerIntact
    <2>1. i \in Progs(call) /\ i \in 1 .. Len(call) /\ call[i].kind = "prog"
      BY DEF Heights, Progs
    <2>2. Covers(stk[k].v, call, i, k)
      BY <2>1 DEF StackInv, StackOK, Covered, Counts
    <2>3. IsSeq(call[i].at[k]) /\ IsSeq(stk[k].v)
      BY <2>1 DEF StackInv, StackOK, FrameKept, Stacks
    <2> QED
      BY <2>2, <2>3, BeginsPrefix DEF Covers
  <1>2. Spec => [](CallInv /\ StackInv)
    <2>1. Init => CallInv /\ StackInv
      BY InitCallInv, InitStack
    <2>2. (CallInv /\ StackInv) /\ [Next]_vars => (CallInv /\ StackInv)'
      BY NextCallInv, NextStack
    <2> QED
      BY <2>1, <2>2, PTL DEF Spec
  <1> QED
    BY <1>1, <1>2, PTL
=============================================================================
