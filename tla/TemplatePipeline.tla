-------------------------- MODULE TemplatePipeline --------------------------
(***************************************************************************)
(* From an AST to a module, as execute_template of handlebars_vm.c goes:    *)
(* compile, then serialize, whatever the compiler threw.  The module is     *)
(* then stored and loaded again, at other addresses, as the shared memory   *)
(* cache and the LMDB cache do.  The checks are about what the VM will run. *)
(***************************************************************************)
EXTENDS Compiler, Serializer, ModuleImage

CONSTANTS
    Asts,       \* the templates
    FlagSets,   \* the sets of compiler flags they are compiled under
    Addresses   \* where the serializer and the caches may be given memory

VARIABLES
    ast, flags,
    stage,      \* "parsed", "compiled" or "serialized", and "missed"
    program,    \* compiler->program
    module,     \* the serialized module, without its operands' texts
    image,      \* the module with them, in memory at the address here
    here,
    stored      \* the image that the database holds, if any

vars == <<ast, flags, stage, program, module, image, here, stored>>

Tables == EntrySize * Len(module.programs)

Init ==
    /\ ast \in Asts
    /\ flags \in FlagSets
    /\ stage = "parsed"
    /\ program = NewProgram
    /\ module = EmptyModule
    /\ image = EmptyModule
    /\ here = 0
    /\ stored = {}

\* handlebars_compiler_compile_ex
DoCompile ==
    /\ stage = "parsed"
    /\ program' = Compile(flags, ast)
    /\ stage' = "compiled"
    /\ UNCHANGED <<ast, flags, module, image, here, stored>>

\* handlebars_program_serialize, also of what a throw left behind; a
\* dereference of a NULL pointer ends the process
DoSerialize ==
    /\ stage = "compiled"
    /\ program.err # "null_pointer"
    /\ module' = Serialize(program)
    /\ here' \in Addresses
    /\ image' = Image(module', here')
    /\ stage' = "serialized"
    /\ UNCHANGED <<ast, flags, program, stored>>

\* cache_mmap.c's add: the module is copied to the shared segment and patched
\* there; templates are run from the copy
DoCopy(to) ==
    /\ stage = "serialized"
    /\ to # here
    /\ image' = PatchPointers(image, to, Tables)
    /\ here' = to
    /\ UNCHANGED <<ast, flags, stage, program, module, stored>>

\* cache_lmdb.c's add: a copy is patched to where it lies, made relative to 0
\* and hashed; the database takes its bytes
DoStore(copy) ==
    /\ stage = "serialized"
    /\ copy # here
    /\ stored' = {GenerateHash(NormalizePointers(PatchPointers(image, copy, Tables),
                                                 copy, Tables, 0))}
    /\ UNCHANGED <<ast, flags, stage, program, module, image, here>>

\* cache_lmdb.c's find: the bytes are verified in the database, copied and
\* patched; the module found takes the place of the one that was serialized
DoLoad(to) ==
    /\ stage = "serialized"
    /\ \E found \in stored :
          IF Verify(found)
          THEN /\ image' = PatchPointers(found, to, Tables)
               /\ here' = to
               /\ UNCHANGED stage
          ELSE stage' = "missed" /\ UNCHANGED <<image, here>>
    /\ UNCHANGED <<ast, flags, program, module, stored>>

Next ==
    \/ DoCompile \/ DoSerialize
    \/ \E a \in Addresses : DoCopy(a) \/ DoStore(a) \/ DoLoad(a)

Spec == Init /\ [][Next]_vars

-----------------------------------------------------------------------------
(* Operand discipline.  Kinds of operand: v a value, p a program number, h a *)
(* hash.  What an opcode's handler in the VM pops, topmost first, and pushes *)

Values(n) == [i \in 1 .. n |-> "v"]

Pops(o) ==
    CASE o.op = "invoke_ambiguous" -> <<"v", "p", "p">>
      [] o.op = "invoke_helper" -> <<"v", "h", "p", "p">> \o Values(o.n)
      [] o.op = "invoke_known_helper" -> <<"h", "p", "p">> \o Values(o.n)
      [] o.op = "invoke_partial" -> <<"h", "p", "p">> \o Values(IF o.dynamic THEN 2 ELSE 1)
      [] o.op \in {"block_value", "ambiguous_block_value"} -> <<"h", "p", "p", "v">>
      [] o.op \in {"resolve_possible_lambda", "assign_to_hash"} -> <<"v">>
      [] OTHER -> <<>>

Pushes(o) ==
    CASE o.op = "push_program" -> <<"p">>
      [] o.op \in {"empty_hash", "pop_hash"} -> <<"h">>
      [] o.op \in {"push_context", "push_literal", "push_string", "lookup_data",
                   "lookup_on_context", "lookup_block_param", "resolve_possible_lambda",
                   "invoke_ambiguous", "invoke_helper", "invoke_known_helper",
                   "ambiguous_block_value"} -> <<"v">>
      [] OTHER -> <<>>

HashPops(o) == IF o.op \in {"assign_to_hash", "pop_hash"} THEN 1 ELSE 0
HashPushes(o) == IF o.op \in {"assign_to_hash", "push_hash"} THEN 1 ELSE 0

\* append pops what is there; every other handler asserts that it is there
Operate(s, o) ==
    LET wants == IF o.op \in {"append", "append_escaped"} /\ s.stack # <<>>
                 THEN <<"v">> ELSE Pops(o)
        left == Len(s.stack) - Len(wants)
    IN IF ~s.ok THEN s
       ELSE [ok |-> /\ left >= 0
                    /\ \A i \in 1 .. Len(wants) : s.stack[Len(s.stack) - i + 1] = wants[i]
                    /\ s.hashes >= HashPops(o),
             stack |-> IF left < 0 THEN <<>> ELSE SubSeq(s.stack, 1, left) \o Pushes(o),
             hashes |-> s.hashes - HashPops(o) + HashPushes(o)]

Operated(ops) == FoldLeft(Operate, [ok |-> TRUE, stack |-> <<>>, hashes |-> 0], ops)

\* Opcodes on which handlebars_vm_accept throws
Unhandled == {"push_id", "push_string_param", "register_decorator"}

\* The opcodes the VM gets to in a program of the module
Executed(entry) ==
    LET code == SubSeq(module.opcodes, entry.offset + 1, entry.offset + entry.count)
        stop == SelectInSeq(code, LAMBDA o : o.op \in Unhandled \cup {"return"})
    IN SubSeq(code, 1, stop - 1)

RunsToReturn(entry) ==
    \A i \in 1 .. entry.count : module.opcodes[entry.offset + i].op \notin Unhandled

\* Every handler of the VM finds the operands it pops, of the kinds it takes
\* them for, in whatever the compiler emitted: a hash where setup_options pops
\* the hash, program numbers where it pops the programs, a value at every
\* HBS_ASSERT(POP(...)) (vm.c:219-257, 526, 606, 664, 742).  This holds also for
\* a program cut short by a throw.  One compiled to its end leaves nothing on
\* either stack, so that the append after a partial, which the VM's
\* invoke_partial leaves nothing for, pops nothing of the same program.
OperandDiscipline ==
    stage = "serialized" =>
        \A g \in 1 .. Len(module.programs) :
            LET entry == module.programs[g]
                end == Operated(Executed(entry))
            IN /\ end.ok
               /\ (RunsToReturn(entry) /\ (g > 1 \/ program.err = "none"))
                    => end.stack = <<>> /\ end.hashes = 0

\* The bytes that calculate_size_program counts
RECURSIVE ProgramBytes(_)
ProgramBytes(prog) ==
    FoldLeft(LAMBDA size, child : size + ProgramBytes(child),
             FoldLeft(LAMBDA size, o : size + CalculateSizeOpcode(o),
                      EntrySize + CalculateSizeOpcode(Op("return")), prog.ops),
             prog.children)

\* The module says what the compiler said: reading its programs back, each from
\* its offset to the first return, gives the compiler's tree, every block in
\* its place.  The positions of the children in each program become numbers in
\* one table, which serialize_program2 fills breadth first and depth first in
\* turn; a throw in a block leaves no reference to a block never compiled.
\* And what is written is what was allocated for: the counts and the bytes of
\* calculate_size_program and those of serialize_program2 agree, as
\* handlebars_program_serialize asserts (opcode_serializer.c:276-280) in debug
\* builds only; without it append writes behind the buffer.
ModuleReadsBack ==
    stage = "serialized" =>
        /\ ReadBack(module, 0) = Resolve(program)
        /\ CalculateSizeProgram(program) = [programs |-> Len(module.programs),
                                            opcodes |-> Len(module.opcodes)]
        /\ ProgramBytes(program) = image.data_offset

\* Wherever a module has been copied to, by way of the database or the shared
\* segment and any number of times, its pointers lead to its own tables and
\* every operand to its own texts; no pointer was followed on the way that led
\* elsewhere, and what add stores passes the test of find.
ImageReadsBack ==
    /\ stage # "missed"
    /\ stage = "serialized" => Readable(image, here, module)

\* A template nested too deep is refused before anything is written beyond the
\* source node stack or the block param stack ("Source node stack blown",
\* "Block param stack blown").
CompilerStacksInBounds == ~program.overrun
=============================================================================
