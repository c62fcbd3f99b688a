----------------------------- MODULE Serializer -----------------------------
(***************************************************************************)
(* The serializer (handlebars_opcode_serializer.c), from the compiler's     *)
(* tree of programs to the flat module that the caches store and the VM     *)
(* runs.  A module is                                                       *)
(*   programs  its table: [offset, count] of each program, by guid + 1      *)
(*   opcodes   the opcodes of all programs, each followed by a return       *)
(* Offsets and guids count from 0, as in the code.  The operands' texts   *)
(* and the pointers to them are in ModuleImage.                             *)
(***************************************************************************)
EXTENDS Integers, Sequences, SequencesExt

\* calculate_size_program: what is allocated before anything is written
RECURSIVE CalculateSizeProgram(_)
CalculateSizeProgram(program) ==
    FoldLeft(LAMBDA size, child :
                LET s == CalculateSizeProgram(child)
                IN [programs |-> size.programs + s.programs,
                    opcodes |-> size.opcodes + s.opcodes],
             [programs |-> 1, opcodes |-> Len(program.ops) + 1],
             program.children)

\* serialize_program_shallow: the next entry of the table, still empty
SerializeProgramShallow(module) ==
    [module EXCEPT !.programs = Append(@, [offset |-> 0, count |-> 0])]

\* Mutant: every block is the program's first
SerializeOpcodeFirstMutant(opcode, table) ==
    IF opcode.op = "push_program" /\ opcode.n >= 0
    THEN [opcode EXCEPT !.n = table[1]]
    ELSE opcode

\* serialize_opcode: a block's program is named by its guid in the module
SerializeOpcode(opcode, table) ==
    IF opcode.op = "push_program" /\ opcode.n >= 0
    THEN [opcode EXCEPT !.n = table[opcode.n + 1]]
    ELSE opcode

\* serialize_program2: entries for all the children, then the opcodes, then
\* the children themselves
RECURSIVE SerializeProgram2(_, _, _)
SerializeProgram2(module, program, guid) ==
    LET n == Len(program.children)
        first == Len(module.programs)
        table == [i \in 1 .. n |-> first + i - 1]
        shallow == FoldLeft(LAMBDA m, child : SerializeProgramShallow(m),
                            module, program.children)
        code == [i \in 1 .. Len(program.ops) |-> SerializeOpcode(program.ops[i], table)]
                \o <<[op |-> "return"]>>
        written == [programs |-> [shallow.programs EXCEPT ![guid + 1] =
                                    [offset |-> Len(module.opcodes), count |-> Len(code)]],
                    opcodes |-> module.opcodes \o code]
    IN FoldLeft(LAMBDA m, i : SerializeProgram2(m, program.children[i], table[i]),
                written, [i \in 1 .. n |-> i])

EmptyModule == [programs |-> <<>>, opcodes |-> <<>>]

\* handlebars_program_serialize
Serialize(program) ==
    SerializeProgram2(SerializeProgramShallow(EmptyModule), program, 0)

-----------------------------------------------------------------------------
(* References: the program tree with every block in the place of its number, *)
(* read from the tree and read back from the module                          *)

RECURSIVE Resolve(_)
Resolve(program) ==
    [i \in 1 .. Len(program.ops) |->
        LET o == program.ops[i]
        IN IF o.op = "push_program" /\ o.n >= 0
           THEN [op |-> "push_block", block |-> Resolve(program.children[o.n + 1])]
           ELSE o]

RECURSIVE ReadBack(_, _)
ReadBack(module, guid) ==
    LET entry == module.programs[guid + 1]
        upToReturn == {k \in 1 .. Len(module.opcodes) - entry.offset :
                         \A j \in 1 .. k : module.opcodes[entry.offset + j].op # "return"}
    IN [i \in upToReturn |->
           LET o == module.opcodes[entry.offset + i]
           IN IF o.op = "push_program" /\ o.n >= 0
              THEN [op |-> "push_block", block |-> ReadBack(module, o.n)]
              ELSE o]
=============================================================================
