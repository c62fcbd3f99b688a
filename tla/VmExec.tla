------------------------------- MODULE VmExec -------------------------------
(***************************************************************************)
(* The VM (handlebars_vm.c): how modules are run, how their programs call   *)
(* helpers, partials and partial blocks and are called back by them, and    *)
(* how an error leaves them with longjmp.                                   *)
(*                                                                          *)
(* The C call stack is the sequence call; its frames are those of           *)
(*   exec   handlebars_vm_execute_ex                                        *)
(*   prog   handlebars_vm_execute_program_ex and the handlebars_vm_accept   *)
(*          loop under it                                                   *)
(*   op     the handler of an opcode that waits for what it called          *)
(*   tmpl   execute_template                                                *)
(*   block  invoke_partial_block_closure                                    *)
(* A frame is named by its height in call, 0 is NULL.  Helpers are the      *)
(* application's: they run the programs of their options any number of      *)
(* times, return any value, or throw.                                       *)
(*                                                                          *)
(* Left out: the text in the buffers, what a lookup finds (any value), the  *)
(* value of last_context (its storage has the lifetime of the stacks), and  *)
(* mustache style lambdas (that flag is off).                               *)
(***************************************************************************)
EXTENDS Integers, Sequences, FiniteSets, SequencesExt

CONSTANTS
    Modules,        \* template -> module; an empty text has the empty module
    Mains,          \* templates that the application runs itself
    Partials,       \* partial name -> template, "callable" or "other"
    Contexts,       \* contexts that programs are run with
    StackSize,      \* HANDLEBARS_VM_STACK_SIZE, 96 in the code
    Cache,          \* "none", or the kind of vm->cache: "simple" or "mmap"
    AppCatches,     \* whether the application has set a jmp_buf of its own: choices
    Compat,         \* handlebars_compiler_flag_compat
    Rewritten,      \* templates that compat's preprocessing or indentation changes
    HelpersThrow,   \* helpers and strict lookups may throw
    MaxRuns,        \* bound: programs run by one call of a helper
    MaxExecutes,    \* bound: calls of handlebars_vm_execute
    MaxHeight       \* bound: height of the C call stack up to which helpers run programs

Templates == DOMAIN Modules
StackNames == {"stack", "context", "hash", "blockParam", "partialBlock"}

ASSUME ConstantsAssumption ==
    /\ {StackSize, MaxRuns, MaxExecutes, MaxHeight} \subseteq Nat
    /\ Mains \subseteq {t \in Templates : Modules[t].opcodes # <<>>}
    /\ Cache \in {"none", "simple", "mmap"}
    /\ AppCatches \subseteq BOOLEAN /\ {Compat, HelpersThrow} \subseteq BOOLEAN
    /\ Rewritten \subseteq Templates
    /\ \A p \in DOMAIN Partials : Partials[p] \in Templates \cup {"callable", "other"}

\* What handlebars_compiler_compile and handlebars_module_serializer give: every
\* program begins in the module's opcodes, the last of which is a return
ASSUME ModulesAssumption ==
    \A t \in Templates :
        LET programs == Modules[t].programs
            opcodes == Modules[t].opcodes
        IN /\ {Len(programs), Len(opcodes)} \subseteq Nat
           /\ DOMAIN programs = 1 .. Len(programs) /\ DOMAIN opcodes = 1 .. Len(opcodes)
           /\ \A g \in DOMAIN programs : programs[g].offset \in 0 .. Len(opcodes) - 1
           /\ opcodes # <<>> => opcodes[Len(opcodes)].op = "return"
           /\ \A i \in DOMAIN opcodes :
                /\ opcodes[i].op \in {"invoke_helper", "invoke_known_helper"} => opcodes[i].n \in Nat
                /\ opcodes[i].op = "push_program" => opcodes[i].n \in Int

\* What the handlers take from the operand stack and leave on it
Takes(o) ==
    CASE o.op \in {"append", "append_escaped", "assign_to_hash", "resolve_possible_lambda"} -> 1
      [] o.op = "invoke_ambiguous" -> 3
      [] o.op = "invoke_helper" -> 4 + o.n
      [] o.op = "invoke_known_helper" -> 3 + o.n
      [] o.op \in {"block_value", "ambiguous_block_value"} -> 4
      [] o.op = "invoke_partial" -> IF o.dynamic THEN 5 ELSE 4
      [] OTHER -> 0

Leaves(o) ==
    IF o.op \in {"push_context", "push_literal", "push_string", "push_program", "empty_hash",
                 "pop_hash", "lookup_on_context", "lookup_block_param", "lookup_data",
                 "resolve_possible_lambda", "invoke_ambiguous", "invoke_helper",
                 "invoke_known_helper", "ambiguous_block_value"}
    THEN 1 ELSE 0

\* The same of the hash stack
HashTakes(o) == IF o.op \in {"assign_to_hash", "pop_hash"} THEN 1 ELSE 0
HashLeaves(o) == IF o.op \in {"assign_to_hash", "push_hash"} THEN 1 ELSE 0

\* Opcodes that no program gets beyond
Ends == {"return", "push_id", "push_string_param", "register_decorator"}

\* How many operands and hashes of its own a program has in front of each opcode
\* of the module, and whether it gets there
Operands(t) ==
    LET opcodes == Modules[t].opcodes
        first == {Modules[t].programs[g].offset + 1 : g \in DOMAIN Modules[t].programs} \cup {1}
        before[pc \in DOMAIN opcodes] ==
            IF pc \in first THEN [stack |-> 0, hash |-> 0, reached |-> TRUE]
            ELSE LET o == opcodes[pc - 1]
                     b == before[pc - 1]
                 IN [stack |-> (IF b.stack < Takes(o) THEN 0 ELSE b.stack - Takes(o)) + Leaves(o),
                     hash |-> b.hash - HashTakes(o) + HashLeaves(o),
                     reached |-> b.reached /\ o.op \notin Ends]
    IN before

\* Handlers find their operands in what the compiler emits.  Only append does
\* without one: it comes after invoke_partial too, which leaves none.
ASSUME OperandsAssumption ==
    \A t \in Templates : \A pc \in DOMAIN Modules[t].opcodes :
        LET o == Modules[t].opcodes[pc]
            own == Operands(t)[pc]
        IN own.reached => /\ o.op \in {"append", "append_escaped"} \/ own.stack >= Takes(o)
                          /\ own.hash >= HashTakes(o)

VARIABLES
    call,       \* the C call stack
    stk,        \* the five stacks of the VM: elements and protect
    vm,         \* module, buffer, data, depth, last_helper, owner of the stacks
    jmp,        \* e->jmp: a frame, 0 for NULL, -1 for the application's
    error,      \* e->num is set
    pins,       \* template -> cache finds not released yet
    cached,     \* texts that are keys of the cache
    app         \* executes started, what the last one returned, faults, and whether
                \* an append has taken what the caller of its program had pushed

vars == <<call, stk, vm, jmp, error, pins, cached, app>>

-----------------------------------------------------------------------------
(* Values.  A program number and a partial block's closure are told apart    *)
(* from plain values because the VM acts on them.                            *)

Null == [t |-> "null"]
Plain == [t |-> "plain"]
Fn == [t |-> "fn"]
Hash == [t |-> "hash"]
ProgramNum(n) == [t |-> "num", n |-> n]
PartialBlock(module, program, depth) ==
    [t |-> "block", module |-> module, program |-> program, depth |-> depth]

IsCallable(v) == v.t \in {"fn", "block"}
IntVal(v) == IF v.t = "num" THEN v.n ELSE 0

\* What a lookup may find
Found == {Null, Plain, Fn}

\* A module in memory: the template it was compiled from and the frame of the
\* execute_template that will free it, 0 if it outlives them all, -1 if freed
Instance(t, frame) == [tmpl |-> t, frame |-> frame]
NoModule == Instance("", 0)
Free(module, frame) == IF module.frame = frame THEN [module EXCEPT !.frame = -1] ELSE module

-----------------------------------------------------------------------------
(* The stacks *)

Len5(s) == [n \in StackNames |-> Len(s[n].v)]

Full(s, n) == Len(s[n].v) >= StackSize
Push(s, n, v) == [s EXCEPT ![n].v = Append(@, v)]
Top(s, n) == IF s[n].v = <<>> THEN Null ELSE Last(s[n].v)

\* handlebars_stack_pop throws on i < protect, so that one element below the
\* protected height can be popped; an empty stack gives NULL
Floor(s, n) == IF s[n].protect > 0 THEN s[n].protect - 1 ELSE 0
PopThrows(s, n, k) ==
    s[n].v # <<>> /\ s[n].protect > 1 /\ Len(s[n].v) - k < Floor(s, n)
Pop(s, n, k) == [s EXCEPT ![n].v = SubSeq(@, 1, Max({Len(@) - k, Min({Len(@), Floor(s, n)})}))]

\* The k-th value popped, k = 1 first
Popped(s, n, k) == IF k > Len(s[n].v) THEN Null ELSE s[n].v[Len(s[n].v) - k + 1]

EmptyStacks == [n \in StackNames |-> [v |-> <<>>, protect |-> 0]]
Save(s) == [n \in StackNames |-> [s[n] EXCEPT !.protect = Len(s[n].v)]]

\* Mutant: truncates while there are at least as many elements as were saved
RestoreMutant(s, f) ==
    [n \in StackNames |->
        [v |-> IF Len(s[n].v) > f.count[n] THEN SubSeq(s[n].v, 1, f.count[n] - 1) ELSE s[n].v,
         protect |-> f.protect[n]]]

\* handlebars_stack_restore: protect first, then truncate
Restore(s, f) ==
    [n \in StackNames |->
        [v |-> IF Len(s[n].v) > f.count[n] THEN SubSeq(s[n].v, 1, f.count[n]) ELSE s[n].v,
         protect |-> f.protect[n]]]

-----------------------------------------------------------------------------
(* Frames *)

Height == Len(call)
TopIs(kind) == call # <<>> /\ Last(call).kind = kind /\ app.fault = "none"
Heights(kind) == {i \in 1 .. Len(call) : call[i].kind = kind}

\* The running program: the innermost one
ProgramHeight == IF Heights("prog") = {} THEN 0 ELSE Max(Heights("prog"))

ModuleOf(i) == Modules[i.tmpl]
Opcode == LET f == Last(call) IN ModuleOf(f.module).opcodes[f.pc]

\* The handler is done: the next opcode of the program at the top of c
Advance(c) == [c EXCEPT ![Len(c)].pc = @ + 1]

\* Mutant: the error is passed on but not recorded
ThrowMutant(s, v) ==
    /\ stk' = s
    /\ vm' = v
    /\ call' = IF jmp <= 0 THEN <<>>
               ELSE [SubSeq(call, 1, jmp) EXCEPT ![jmp].done = TRUE]
    /\ app' = [app EXCEPT !.aborted = @ \/ jmp = 0]
    /\ UNCHANGED <<jmp, error, pins, cached>>

\* handlebars_throw in a state with stacks s and VM v: to the frame whose
\* setjmp is in e->jmp, which goes on at its label done
Throw(s, v) ==
    /\ error' = TRUE
    /\ stk' = s
    /\ vm' = v
    /\ call' = IF jmp <= 0 THEN <<>>
               ELSE [SubSeq(call, 1, jmp) EXCEPT ![jmp].done = TRUE]
    /\ app' = [app EXCEPT !.aborted = @ \/ jmp = 0]
    /\ UNCHANGED <<jmp, pins, cached>>

\* The code uses memory that is not there: what follows is undefined
Fault(what) ==
    /\ app' = [app EXCEPT !.fault = what]
    /\ UNCHANGED <<call, stk, vm, jmp, error, pins, cached>>

\* A handler that calls nothing: its effect on the operand stack
Stacked(s) ==
    /\ stk' = s
    /\ call' = Advance(call)
    /\ UNCHANGED <<vm, jmp, error, pins, cached, app>>

PushOrThrow(s, n, v) ==
    IF Full(s, n) THEN Throw(s, vm) ELSE Stacked(Push(s, n, v))

-----------------------------------------------------------------------------
(* Entering and leaving functions, from call stack c and stacks s            *)

\* handlebars_vm_execute_program_ex up to the first opcode
RunProgram(c, s, g, ctx, newData, blockParams) ==
    LET f == [kind |-> "prog", module |-> vm.module,
              pc |-> ModuleOf(vm.module).programs[g + 1].offset + 1,
              prevBuffer |-> vm.buffer, hasData |-> newData, prevData |-> vm.data,
              count |-> Len5(s), protect |-> [n \in StackNames |-> s[n].protect],
              at |-> [n \in StackNames |-> s[n].v]]
        same == s["context"].v # <<>> /\ Last(s["context"].v) = ctx
        saved == Save(s)
        inContext == IF same THEN saved ELSE Push(saved, "context", ctx)
        inParams == IF blockParams THEN Push(inContext, "blockParam", Plain) ELSE inContext
        buffered == [vm EXCEPT !.buffer = Len(c) + 1]
        withData == [buffered EXCEPT !.data = IF newData THEN Len(c) + 1 ELSE @]
    IN IF vm.module.frame = -1 THEN Fault("freed module")
       ELSE IF g >= Len(ModuleOf(vm.module).programs) THEN Throw(s, vm)
       ELSE IF ~call[vm.owner].setup THEN Fault("dead stacks")
       ELSE IF Len(inContext["context"].v) > StackSize THEN Throw(saved, buffered)
       ELSE IF Len(inParams["blockParam"].v) > StackSize THEN Throw(inContext, withData)
       ELSE /\ call' = Append(c, f)
            /\ stk' = inParams
            /\ vm' = withData
            /\ UNCHANGED <<jmp, error, pins, cached, app>>

\* Mutant: data is not restored
LeaveProgramMutant(v, f) == [v EXCEPT !.buffer = f.prevBuffer]

\* The registers at the end of handlebars_vm_execute_program_ex
LeaveProgram(v, f) ==
    [v EXCEPT !.buffer = f.prevBuffer, !.data = IF f.hasData THEN f.prevData ELSE @]

\* Mutant: every execution sets a jump of its own
JmpInMutant(j, frame) == frame

\* handlebars_vm_execute_ex sets e->jmp only if there is none
JmpIn(j, frame) == IF j = 0 THEN frame ELSE j

\* Mutant: the module is not restored
LeaveExecuteMutant(v, f) == [v EXCEPT !.owner = IF f.setup THEN 0 ELSE @]

\* The registers at the end of handlebars_vm_execute_ex
LeaveExecute(v, f) == [v EXCEPT !.module = f.prevModule, !.owner = IF f.setup THEN 0 ELSE @]

\* handlebars_vm_execute_ex up to its call of execute_program_ex
EnterExecute(c, s, v, j, module, g, ctx, blockParams) ==
    /\ call' = Append(c, [kind |-> "exec", done |-> FALSE, ret |-> FALSE, prevJmp |-> j,
                          prevModule |-> v.module, setup |-> v.owner = 0,
                          g |-> g, ctx |-> ctx, blockParams |-> blockParams])
    /\ jmp' = JmpIn(j, Len(c) + 1)
    /\ stk' = IF v.owner = 0 THEN EmptyStacks ELSE s
    /\ vm' = [v EXCEPT !.module = module, !.owner = IF @ = 0 THEN Len(c) + 1 ELSE @]

\* The frame at the top of c has its callee's result
Done(c) == IF c = <<>> THEN c ELSE [c EXCEPT ![Len(c)].done = TRUE]

\* A handler's frame: its opcode, program and inverse of its options
Handler(program, inverse) ==
    [kind |-> "op", done |-> FALSE, op |-> Opcode.op, program |-> program, inverse |-> inverse,
     helper |-> TRUE, runs |-> 0, result |-> Null, value |-> Null,
     lastHelper |-> "none", pushed |-> FALSE]

\* Keys of the cache: the text that is looked up, and the one that is compiled
\* and added
Key(t) == [text |-> t, rewritten |-> FALSE]
CompiledText(t) == [text |-> t, rewritten |-> Compat /\ t \in Rewritten]

\* handlebars_value_call on a helper, on a partial block's closure, or on the
\* closure of execute_template, which looks in the cache first
Invoke(f, s, callee, ctx) ==
    LET tmpl == callee.t = "tmpl"
        found == tmpl /\ Key(callee.tmpl) \in cached
        frames == CASE callee.t = "fn" -> <<f>>
                    [] callee.t = "block" ->
                         <<[f EXCEPT !.helper = FALSE],
                           [kind |-> "block", done |-> FALSE, closure |-> callee,
                            ctx |-> ctx, pushed |-> FALSE]>>
                    [] OTHER ->
                         <<[f EXCEPT !.helper = FALSE],
                           [kind |-> "tmpl", done |-> FALSE, tmpl |-> callee.tmpl, ctx |-> ctx,
                            fromCache |-> found, prevJmp |-> jmp, prevDepth |-> vm.depth]>>
    IN /\ call' = call \o frames
       /\ stk' = s
       /\ vm' = IF f.op = "invoke_ambiguous" THEN [vm EXCEPT !.lastHelper = "none"] ELSE vm
       /\ pins' = IF found THEN [pins EXCEPT ![callee.tmpl] = @ + 1] ELSE pins
       /\ UNCHANGED <<jmp, error, cached, app>>

-----------------------------------------------------------------------------
(* Opcodes that call nothing *)

At(name) == TopIs("prog") /\ Opcode.op = name

\* get_context and append_content leave the stacks alone
GetContext == At("get_context") /\ Stacked(stk)

\* Mutant: the next opcode is the same
AppendContentMutant == At("append_content") /\ UNCHANGED vars

AppendContent == At("append_content") /\ Stacked(stk)

\* append and append_escaped take a value if there is one
AppendValue ==
    /\ At("append") \/ At("append_escaped")
    /\ LET count == Len(stk["stack"].v)
       IN IF PopThrows(stk, "stack", 1) THEN Throw(stk, vm)
          ELSE /\ stk' = Pop(stk, "stack", 1)
               /\ call' = Advance(call)
               /\ app' = [app EXCEPT !.overdrawn =
                             @ \/ (count > 0 /\ count <= Last(call).count["stack"])]
               /\ UNCHANGED <<vm, jmp, error, pins, cached>>

PushValue ==
    /\ At("push_context") \/ At("push_literal") \/ At("push_string")
    /\ PushOrThrow(stk, "stack",
                   IF Opcode.op = "push_literal" /\ Opcode.null THEN Null ELSE Plain)

PushProgram == At("push_program") /\ PushOrThrow(stk, "stack", ProgramNum(Opcode.n))
EmptyHash == At("empty_hash") /\ PushOrThrow(stk, "stack", Hash)
PushHash == At("push_hash") /\ PushOrThrow(stk, "hash", Hash)

AssignToHash ==
    /\ At("assign_to_hash")
    /\ IF PopThrows(stk, "hash", 1) THEN Throw(stk, vm)
       ELSE IF PopThrows(stk, "stack", 1) THEN Throw(Pop(stk, "hash", 1), vm)
       ELSE Stacked(Push(Pop(Pop(stk, "hash", 1), "stack", 1), "hash", Hash))

PopHash ==
    /\ At("pop_hash")
    /\ IF PopThrows(stk, "hash", 1) THEN Throw(stk, vm)
       ELSE PushOrThrow(Pop(stk, "hash", 1), "stack", Hash)

\* A lookup finds anything, a function too, or nothing; strict ones may throw
LookupOnContext ==
    /\ At("lookup_on_context")
    /\ \/ \E v \in Found : PushOrThrow(stk, "stack", v)
       \/ HelpersThrow /\ Throw(stk, vm)

LookupBlockParam ==
    /\ At("lookup_block_param")
    /\ \E v \in Found :
         /\ Opcode.depth >= Len(stk["blockParam"].v) => v = Null
         /\ PushOrThrow(stk, "stack", v)

\* Unless the data has an entry of that name, @partial-block is the top of the
\* partial block stack, which is dereferenced whether or not there is one
LookupData ==
    /\ At("lookup_data")
    /\ \/ \E v \in Found : PushOrThrow(stk, "stack", v)
       \/ /\ Opcode.name = "partial-block"
          /\ IF stk["partialBlock"].v = <<>> THEN Fault("null value")
             ELSE PushOrThrow(stk, "stack", Top(stk, "partialBlock"))
       \/ HelpersThrow /\ Throw(stk, vm)

Unhandled ==
    /\ TopIs("prog")
    /\ Opcode.op \in {"push_id", "push_string_param", "register_decorator"}
    /\ Throw(stk, vm)

-----------------------------------------------------------------------------
(* Opcodes that call.  setup_options pops the hash, the inverse, the program *)
(* and argc arguments; first is how many were popped before.                 *)

OptProgramAt(k) == IF k > Len(stk["stack"].v) THEN -1 ELSE IntVal(Popped(stk, "stack", k))
OptInverse(first) == OptProgramAt(first + 2)
OptProgram(first) == OptProgramAt(first + 3)

\* Without a helper of that name the value is called, or helperMissing
CalleeOf(value) == IF IsCallable(value) THEN value ELSE Fn

ResolvePossibleLambda ==
    /\ At("resolve_possible_lambda")
    /\ LET value == Popped(stk, "stack", 1)
           s == Pop(stk, "stack", 1)
       IN IF PopThrows(stk, "stack", 1) THEN Throw(stk, vm)
          ELSE IF IsCallable(value)
          THEN \* the options are all zero, and 0 is a program
               Invoke(Handler(0, 0), s, value, Last(stk["context"].v))
          ELSE PushOrThrow(s, "stack", value)

\* The value, then the programs: the hash is the empty one pushed here
InvokeAmbiguous ==
    /\ At("invoke_ambiguous")
    /\ LET value == Popped(stk, "stack", 1)
           f == [Handler(OptProgram(0), OptInverse(0)) EXCEPT !.value = value]
           s == Pop(stk, "stack", 3)
           ctx == Last(stk["context"].v)
       IN IF PopThrows(stk, "stack", 3) THEN Throw(s, vm)
          ELSE \/ Invoke([f EXCEPT !.lastHelper = "helper"], s, Fn, ctx)
               \/ Invoke(f, s, CalleeOf(value), ctx)

InvokeHelper ==
    /\ At("invoke_helper")
    /\ LET k == 4 + Opcode.n
           value == Popped(stk, "stack", 1)
           named == IF Opcode.simple THEN {Fn} ELSE {}
       IN IF PopThrows(stk, "stack", k) THEN Throw(Pop(stk, "stack", k), vm)
          ELSE \E callee \in named \cup {CalleeOf(value)},
                  ctx \in (IF Opcode.n = 0 THEN {Last(stk["context"].v)} ELSE Contexts) :
                  Invoke(Handler(OptProgram(1), OptInverse(1)), Pop(stk, "stack", k), callee, ctx)

InvokeKnownHelper ==
    /\ At("invoke_known_helper")
    /\ LET k == 3 + Opcode.n
       IN \/ /\ ~PopThrows(stk, "stack", k)
             /\ Invoke(Handler(OptProgram(0), OptInverse(0)), Pop(stk, "stack", k), Fn,
                       Last(stk["context"].v))
          \/ /\ PopThrows(stk, "stack", k) \/ HelpersThrow   \* not known after all
             /\ Throw(Pop(stk, "stack", k), vm)

\* blockHelperMissing, whose result goes to the buffer
BlockValue ==
    /\ At("block_value")
    /\ IF PopThrows(stk, "stack", 4) THEN Throw(Pop(stk, "stack", 4), vm)
       ELSE Invoke(Handler(OptProgram(0), OptInverse(0)), Pop(stk, "stack", 4), Fn,
                   Last(stk["context"].v))

\* blockHelperMissing, unless invoke_ambiguous found a helper
AmbiguousBlockValue ==
    /\ At("ambiguous_block_value")
    /\ LET k == IF vm.lastHelper = "none" THEN 4 ELSE 3
       IN IF PopThrows(stk, "stack", k) THEN Throw(Pop(stk, "stack", k), vm)
          ELSE IF vm.lastHelper # "none" THEN Stacked(Pop(stk, "stack", k))
          ELSE Invoke(Handler(OptProgram(0), OptInverse(0)), Pop(stk, "stack", k), Fn,
                      Last(stk["context"].v))

\* What a partial's name stands for
FindPartial(name) ==
    CASE name \in DOMAIN Partials ->
           IF Partials[name] \in Templates THEN [t |-> "tmpl", tmpl |-> Partials[name]]
           ELSE IF Partials[name] = "callable" THEN Fn ELSE Plain
      [] name \notin DOMAIN Partials /\ name = "@partial-block" -> Top(stk, "partialBlock")
      [] OTHER -> Null

InvokePartial ==
    /\ At("invoke_partial")
    /\ LET k == IF Opcode.dynamic THEN 5 ELSE 4
           program == OptProgram(0)
           block == PartialBlock(vm.module, program, Len(stk["partialBlock"].v))
           popped == Pop(stk, "stack", k)
           pushes == program > 0
           s == IF pushes THEN Push(popped, "partialBlock", block) ELSE popped
           f == [Handler(program, OptInverse(0)) EXCEPT !.pushed = pushes]
       IN \E name \in (IF Opcode.dynamic THEN DOMAIN Partials \cup {"missing", "@partial-block"} ELSE {Opcode.name}),
             ctx \in Contexts :
            LET found == FindPartial(name)
                partial == IF found = Null /\ pushes THEN block ELSE found
            IN IF PopThrows(stk, "stack", k) THEN Throw(popped, vm)
               ELSE IF pushes /\ Full(popped, "partialBlock") THEN Throw(popped, vm)
               ELSE IF partial = Null /\ program < 0 /\ Compat THEN Stacked(s)
               ELSE IF partial.t \in {"tmpl", "fn", "block"} THEN Invoke(f, s, partial, ctx)
               ELSE Throw(s, vm)

-----------------------------------------------------------------------------
(* Returns *)

\* The return opcode and the end of handlebars_vm_execute_program_ex
ReturnOpcode ==
    /\ At("return")
    /\ LET f == Last(call)
           c == Front(call)
       IN /\ stk' = Restore(stk, f)
          /\ vm' = LeaveProgram(vm, f)
          /\ call' = IF Last(c).kind = "op" THEN c
                     ELSE IF Last(c).kind = "exec" THEN [Done(c) EXCEPT ![Len(c)].ret = TRUE]
                     ELSE Done(c)
    /\ UNCHANGED <<jmp, error, pins, cached, app>>

\* The handler takes the result of what it called
HandlerReturns ==
    /\ TopIs("op")
    /\ Last(call).done
    /\ LET f == Last(call)
           c == Advance(Front(call))
           result == IF f.op = "invoke_ambiguous" /\ f.result = Null THEN f.value ELSE f.result
           pushes == f.op \notin {"block_value", "invoke_partial"}
           s == IF f.pushed THEN Pop(stk, "partialBlock", 1) ELSE stk
       IN IF (pushes /\ Full(stk, "stack")) \/ (f.pushed /\ PopThrows(stk, "partialBlock", 1))
          THEN Throw(stk, vm)
          ELSE /\ stk' = IF pushes THEN Push(s, "stack", result) ELSE s
               /\ vm' = IF f.op = "invoke_ambiguous"
                        THEN [vm EXCEPT !.lastHelper = f.lastHelper] ELSE vm
               /\ call' = c
               /\ UNCHANGED <<jmp, error, pins, cached, app>>

-----------------------------------------------------------------------------
(* Helpers: handlebars_vm_execute_program_ex on the programs of the options, *)
(* a result, or a throw.  External: the application's code.                  *)

InHelper == TopIs("op") /\ ~Last(call).done /\ Last(call).helper

HelperRuns ==
    /\ InHelper
    /\ Last(call).runs < MaxRuns
    /\ Height <= MaxHeight
    /\ \E g \in {Last(call).program, Last(call).inverse}, ctx \in Contexts,
          newData \in BOOLEAN, blockParams \in BOOLEAN :
         LET c == [call EXCEPT ![Height].runs = @ + 1]
         IN IF g < 0
            THEN call' = c /\ UNCHANGED <<stk, vm, jmp, error, pins, cached, app>>
            ELSE RunProgram(c, stk, g, ctx, newData, blockParams)

HelperReturns ==
    /\ InHelper
    /\ \E v \in {Null, Plain} : call' = [call EXCEPT ![Height].done = TRUE, ![Height].result = v]
    /\ UNCHANGED <<stk, vm, jmp, error, pins, cached, app>>

HelperThrows == InHelper /\ HelpersThrow /\ Throw(stk, vm)

-----------------------------------------------------------------------------
(* invoke_partial_block_closure *)

\* The partial block of the place where the block was written is pushed again
BlockRuns ==
    /\ TopIs("block")
    /\ ~Last(call).done
    /\ LET f == Last(call)
           b == f.closure
           pushes == b.depth > 0
           c == [call EXCEPT ![Height].pushed = pushes]
           s == IF pushes THEN Push(stk, "partialBlock", stk["partialBlock"].v[b.depth]) ELSE stk
           blockParams == stk["blockParam"].v # <<>>
       IN IF pushes /\ Full(stk, "partialBlock") THEN Throw(stk, vm)
          ELSE IF b.depth > Len(stk["partialBlock"].v) THEN Fault("null value")
          ELSE IF vm.module = b.module THEN RunProgram(c, s, b.program, f.ctx, FALSE, blockParams)
          ELSE /\ EnterExecute(c, s, vm, jmp, b.module, b.program, f.ctx, blockParams)
               /\ UNCHANGED <<error, pins, cached, app>>

BlockReturns ==
    /\ TopIs("block")
    /\ Last(call).done
    /\ IF Last(call).pushed /\ PopThrows(stk, "partialBlock", 1) THEN Throw(stk, vm)
       ELSE /\ stk' = IF Last(call).pushed THEN Pop(stk, "partialBlock", 1) ELSE stk
            /\ call' = [Done(Front(call)) EXCEPT ![Height - 1].result = Plain]
            /\ UNCHANGED <<vm, jmp, error, pins, cached, app>>

-----------------------------------------------------------------------------
(* execute_template *)

\* setjmp, then parse, compile and store the module unless it came from the
\* cache, then handlebars_vm_execute.  The simple cache takes the module over,
\* and throws on a key that it has; the mmap cache stores a copy.
TemplateRuns ==
    /\ TopIs("tmpl")
    /\ ~Last(call).done
    /\ LET f == Last(call)
           adds == Cache # "none" /\ ~f.fromCache
           owner == IF f.fromCache \/ Cache = "simple" THEN 0 ELSE Height
       IN \/ /\ Modules[f.tmpl].opcodes = <<>>
             /\ call' = Done(call)
             /\ UNCHANGED <<stk, vm, jmp, error, pins, cached, app>>
          \/ /\ Modules[f.tmpl].opcodes # <<>>
             /\ adds /\ Cache = "simple" /\ CompiledText(f.tmpl) \in cached
             /\ call' = Done(call)
             /\ jmp' = Height
             /\ error' = TRUE
             /\ UNCHANGED <<stk, vm, pins, cached, app>>
          \/ /\ Modules[f.tmpl].opcodes # <<>>
             /\ ~(adds /\ Cache = "simple" /\ CompiledText(f.tmpl) \in cached)
             /\ EnterExecute(call, stk, [vm EXCEPT !.depth = @ + 1], Height,
                             Instance(f.tmpl, owner), 0, f.ctx, FALSE)
             /\ cached' = IF adds THEN cached \cup {CompiledText(f.tmpl)} ELSE cached
             /\ UNCHANGED <<error, pins, app>>

\* Mutant: an error skips the release
ReleaseMutant(f) == IF f.fromCache /\ ~error THEN [pins EXCEPT ![f.tmpl] = @ - 1] ELSE pins

Release(f) == IF f.fromCache THEN [pins EXCEPT ![f.tmpl] = @ - 1] ELSE pins

\* The label done, reached by a return or by a throw: the module is freed or
\* released, and the empty string stands for a missing result
TemplateReturns ==
    /\ TopIs("tmpl")
    /\ Last(call).done
    /\ LET f == Last(call)
           freed(v) == IF v.t = "block" THEN [v EXCEPT !.module = Free(@, Height)] ELSE v
       IN /\ jmp' = f.prevJmp
          /\ vm' = [vm EXCEPT !.depth = f.prevDepth, !.module = Free(@, Height)]
          /\ stk' = [n \in StackNames |->
                       IF n \notin {"stack", "partialBlock"} THEN stk[n]
                       ELSE [stk[n] EXCEPT !.v = [i \in DOMAIN @ |-> freed(@[i])]]]
          /\ pins' = Release(f)
          /\ call' = [Done(Front(call)) EXCEPT ![Height - 1].result = Plain]
    /\ UNCHANGED <<error, cached, app>>

-----------------------------------------------------------------------------
(* handlebars_vm_execute_ex *)

\* The application runs a template
Execute ==
    /\ call = <<>>
    /\ app.executes < MaxExecutes
    /\ ~app.aborted
    /\ \E t \in Mains, ctx \in Contexts :
         /\ EnterExecute(call, stk, vm, jmp, Instance(t, 0), 0, ctx, FALSE)
         /\ app' = [app EXCEPT !.executes = @ + 1, !.ret = "none"]
    /\ UNCHANGED <<error, pins, cached>>

ExecuteProgram ==
    /\ TopIs("exec")
    /\ ~Last(call).done
    /\ LET f == Last(call) IN RunProgram(call, stk, f.g, f.ctx, FALSE, f.blockParams)

\* The label done, reached by a return or by a throw
ExecuteReturns ==
    /\ TopIs("exec")
    /\ Last(call).done
    /\ LET f == Last(call)
       IN /\ jmp' = f.prevJmp
          /\ vm' = LeaveExecute(vm, f)
          /\ call' = Done(Front(call))
          /\ app' = IF Height > 1 THEN app
                    ELSE [app EXCEPT !.ret = IF f.ret THEN "buffer" ELSE "null"]
          /\ stk' = IF f.setup THEN EmptyStacks ELSE stk
    /\ UNCHANGED <<error, pins, cached>>

-----------------------------------------------------------------------------
Init ==
    /\ call = <<>>
    /\ stk = EmptyStacks
    /\ vm = [module |-> NoModule, buffer |-> 0, data |-> 0, depth |-> 0,
             lastHelper |-> "none", owner |-> 0]
    /\ \E catches \in AppCatches :
         /\ jmp = IF catches THEN -1 ELSE 0
         /\ app = [executes |-> 0, ret |-> "none", aborted |-> FALSE, fault |-> "none",
                   catches |-> catches, overdrawn |-> FALSE]
    /\ error = FALSE
    /\ pins = [t \in Templates |-> 0]
    /\ cached = {}

\* Opcodes, returns and callbacks: all that goes on inside one execution
Step ==
    \/ GetContext \/ AppendContent \/ AppendValue \/ PushValue \/ PushProgram
    \/ EmptyHash \/ PushHash \/ AssignToHash \/ PopHash
    \/ LookupOnContext \/ LookupBlockParam \/ LookupData \/ Unhandled
    \/ ResolvePossibleLambda \/ InvokeAmbiguous \/ InvokeHelper \/ InvokeKnownHelper
    \/ BlockValue \/ AmbiguousBlockValue \/ InvokePartial
    \/ ReturnOpcode \/ HandlerReturns
    \/ HelperRuns \/ HelperReturns \/ HelperThrows
    \/ BlockRuns \/ BlockReturns \/ TemplateRuns \/ TemplateReturns
    \/ ExecuteProgram \/ ExecuteReturns

\* The application has nothing more to run
Finished ==
    /\ app.fault # "none" \/ (call = <<>> /\ (app.executes = MaxExecutes \/ app.aborted))
    /\ UNCHANGED vars

Next == Execute \/ Step \/ Finished

Spec == Init /\ [][Next]_vars /\ WF_vars(Step)

-----------------------------------------------------------------------------
\* A running program finds the stacks as deep as it left them: no callee
\* pops what its caller pushed (handlebars_stack_save protects it,
\* vm.c:1322-1326), also when the callee ended with a throw.  For the operands
\* this holds until an append has popped one of the caller's.  The append after a
\* partial does, in a program that began with operands on the stack:
\* invoke_partial leaves it nothing and handlebars_stack_pop throws one too late.
CallerIntact ==
    \A i \in Heights("prog"), n \in StackNames :
        (n = "stack" => ~app.overdrawn) => IsPrefix(call[i].at[n], stk[n].v)

\* e->jmp is the innermost frame on the C stack that has called setjmp and not
\* restored the previous one: longjmp never goes to a function that returned.
JmpLive ==
    LET setters == {i \in 1 .. Len(call) :
                      \/ /\ call[i].kind = "tmpl"
                         /\ i < Len(call) \/ call[i].done
                         /\ Modules[call[i].tmpl].opcodes # <<>>
                      \/ call[i].kind = "exec" /\ call[i].prevJmp = 0}
    IN jmp = IF setters # {} THEN Max(setters) ELSE IF app.catches THEN -1 ELSE 0

\* While nothing has been thrown, the VM's registers are those of the running
\* program, and the initial ones between executions: text goes to its buffer,
\* program numbers are looked up in its module, data is what the innermost
\* program that was given some was given.
RegistersMatch ==
    LET h == ProgramHeight
        givers == {i \in Heights("prog") : call[i].hasData}
    IN ~error =>
          /\ vm.buffer = h
          /\ vm.data = IF givers = {} THEN 0 ELSE Max(givers)
          /\ call = <<>> => vm.module = NoModule /\ vm.owner = 0
          /\ (h > 0 /\ Last(call).kind \in {"prog", "op", "block"}) =>
                vm.module = call[h].module

\* Every module that execute_template found in the cache is released exactly
\* once and the depth is that of the templates that run, however they ended.
TemplatesUnwind ==
    /\ \A t \in Templates :
         pins[t] = Cardinality({i \in Heights("tmpl") : call[i].tmpl = t /\ call[i].fromCache})
    /\ call = <<>> => vm.depth = 0

\* Only an error caught by a template can lead to a module or stacks that are
\* no longer there: a template that ends without one leaves no trace in the VM.
FaultFree == ~error => app.fault = "none"

\* handlebars_vm_execute gives the application its text, or NULL together with
\* an error to look at (handlebars_vm_execute_ex catches the error itself if the
\* application has set no jmp_buf, vm.c:1399): text is never lost in silence,
\* however deep in helpers and partials the execution was left.
NullReported == app.ret = "null" => error

\* Every execution ends, whatever its helpers, partials and errors do: each
\* return, each jump and each opcode brings handlebars_vm_accept nearer to the
\* return opcode.  (For partials that do not include themselves.)
ExecutionEnds == []<>(call = <<>> \/ app.fault # "none")
=============================================================================
