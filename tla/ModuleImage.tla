---------------------------- MODULE ModuleImage ----------------------------
(***************************************************************************)
(* A module as bytes (handlebars_opcode_serializer.c): the texts of its     *)
(* operands behind its tables, and the pointers that lead to them when the  *)
(* module is copied to another address.  An image is                        *)
(*   addr         where the module believes to be                           *)
(*   programs, opcodes   pointers to its two tables                         *)
(*   operands     of each opcode, those that hold a pointer                 *)
(*   data         the data segment behind the tables: at an offset, a text  *)
(*                or an array of pointers                                   *)
(*   data_offset  where the next bytes go                                   *)
(*   hash         of all the rest; equal hashes are equal contents here     *)
(*   fault        a pointer was followed that leads to none of its data     *)
(* A text is named by the opcode, operand and element that it belongs to.   *)
(***************************************************************************)
EXTENDS Integers, Sequences, SequencesExt, TLC

CONSTANTS
    WordSize,            \* sizeof(void *)
    HeaderSize,          \* sizeof(struct handlebars_module)
    EntrySize,           \* sizeof(struct handlebars_module_table_entry)
    OpcodeSize,          \* sizeof(struct handlebars_opcode)
    StringSize,          \* HANDLEBARS_STRING_SIZE
    TextLength(_, _)     \* the length of a text, by opcode and element

AlignSize(size) ==
    IF size % WordSize = 0 THEN size ELSE size + WordSize - (size % WordSize)

StringBytes(opcode, element) == AlignSize(StringSize + TextLength(opcode, element) + 1)

String == [type |-> "string", ptr |-> 0]
Array(n) == [type |-> "array", count |-> n, ptr |-> 0]

\* The operands that hold a pointer, as the acceptors of the compiler set them;
\* a path has two parts here
OperandsOf(opcode) ==
    CASE opcode.op \in {"append_content", "push_string", "assign_to_hash", "block_value",
                        "invoke_ambiguous", "invoke_helper", "invoke_known_helper",
                        "register_decorator"} -> <<String>>
      [] opcode.op = "push_literal" /\ opcode.null -> <<String>>
      [] opcode.op \in {"push_string_param", "invoke_partial"} -> <<String, String>>
      [] opcode.op = "push_id" -> <<String, Array(2), String>>
      [] opcode.op \in {"lookup_data", "lookup_on_context"} -> <<Array(2)>>
      [] opcode.op = "lookup_block_param" -> <<Array(2), Array(1)>>
      [] OTHER -> <<>>

CalculateSizeOperand(opcode, operand) ==
    IF operand.type = "string" THEN StringBytes(opcode, 0)
    ELSE FoldLeft(LAMBDA size, j : size + StringBytes(opcode, j),
                  AlignSize(WordSize * operand.count), [j \in 1 .. operand.count |-> j])

CalculateSizeOpcode(opcode) ==
    FoldLeft(LAMBDA size, operand : size + CalculateSizeOperand(opcode, operand),
             OpcodeSize, OperandsOf(opcode))

-----------------------------------------------------------------------------
(* Writing *)

\* append, of size bytes that hold cell
AppendData(image, cell, size) ==
    [image EXCEPT !.data = @ @@ (image.data_offset :> cell),
                  !.data_offset = @ + AlignSize(size)]

\* The address that append returns
AppendedAt(image) == image.addr + HeaderSize + image.data_offset

AppendString(image, opcode, text) ==
    AppendData(image, [text |-> text], StringSize + TextLength(opcode, text[3]) + 1)

\* serialize_operand: operand k of opcode i
SerializeOperand(image, opcode, i, k) ==
    LET operand == image.operands[i][k]
        at == AppendedAt(image)
        here == image.data_offset
        pointed == [image EXCEPT !.operands[i][k].ptr = at]
        element(img, j) ==
            AppendString([img EXCEPT !.data[here].ptrs[j] = AppendedAt(img)], opcode, <<i, k, j>>)
    IN IF operand.type = "string" THEN AppendString(pointed, opcode, <<i, k, 0>>)
       ELSE FoldLeft(element,
                     AppendData(pointed, [ptrs |-> [j \in 1 .. operand.count |-> 0]],
                                WordSize * operand.count),
                     [j \in 1 .. operand.count |-> j])

\* For each opcode its operands in turn, op(image, i, k)
ForOperands(op(_, _, _), image) ==
    LET opcodes[i \in 0 .. Len(image.operands)] ==
            IF i = 0 THEN image
            ELSE LET before == opcodes[i - 1]
                     operands[k \in 0 .. Len(image.operands[i])] ==
                         IF k = 0 THEN before ELSE op(operands[k - 1], i, k)
                 IN operands[Len(image.operands[i])]
    IN opcodes[Len(image.operands)]

\* handlebars_program_serialize into a buffer at addr
Image(module, addr) ==
    LET tables == EntrySize * Len(module.programs)
        data == tables + OpcodeSize * Len(module.opcodes)
    IN ForOperands(LAMBDA img, i, k : SerializeOperand(img, module.opcodes[i], i, k),
                   [addr |-> addr, programs |-> addr + HeaderSize,
                    opcodes |-> addr + HeaderSize + tables,
                    operands |-> [i \in 1 .. Len(module.opcodes) |-> OperandsOf(module.opcodes[i])],
                    data |-> <<>>, data_offset |-> data, hash |-> "none", fault |-> FALSE])

-----------------------------------------------------------------------------
(* Relocation of the image that lies at the address here *)

\* PATCH
Patched(image, ptr, base) == ptr - image.addr + base

\* The cell that ptr leads to
Leads(image, here, ptr) == ptr - here - HeaderSize \in DOMAIN image.data
Cell(image, here, ptr) == image.data[ptr - here - HeaderSize]

\* The elements of an operand's array are patched where ptr leads
PatchElements(image, here, ptr, base) ==
    IF Leads(image, here, ptr)
    THEN [image EXCEPT !.data[ptr - here - HeaderSize].ptrs =
             [j \in DOMAIN @ |-> Patched(image, @[j], base)]]
    ELSE [image EXCEPT !.fault = TRUE]

PatchOperandPointer(image, i, k, base) ==
    [image EXCEPT !.operands[i][k].ptr = Patched(image, @, base)]

\* normalize_operand: the elements while the pointer to them still holds
NormalizeOperand(image, here, i, k, base) ==
    LET operand == image.operands[i][k]
    IN PatchOperandPointer(IF operand.type = "array"
                           THEN PatchElements(image, here, operand.ptr, base) ELSE image,
                           i, k, base)

\* Mutant: in the order of normalize_operand
PatchOperandMutant(image, here, i, k, base) == NormalizeOperand(image, here, i, k, base)

\* patch_operand: the elements once the pointer to them holds
PatchOperand(image, here, i, k, base) ==
    LET patched == PatchOperandPointer(image, i, k, base)
        operand == patched.operands[i][k]
    IN IF operand.type = "array" THEN PatchElements(patched, here, operand.ptr, base) ELSE patched

PatchTables(image, base) ==
    [image EXCEPT !.programs = Patched(image, @, base), !.opcodes = Patched(image, @, base)]

\* The loops over the opcodes go through the pointer to them
ThroughOpcodes(op(_, _, _), image, here, size) ==
    IF image.opcodes = here + HeaderSize + size THEN ForOperands(op, image)
    ELSE [image EXCEPT !.fault = TRUE]

\* handlebars_module_normalize_pointers; tables is the size of the first table
NormalizePointers(image, here, tables, base) ==
    IF image.addr = base THEN image
    ELSE [PatchTables(ThroughOpcodes(LAMBDA img, i, k : NormalizeOperand(img, here, i, k, base),
                                     image, here, tables), base)
          EXCEPT !.addr = base]

\* handlebars_module_patch_pointers
PatchPointers(image, here, tables) ==
    IF image.addr = here THEN image
    ELSE [ThroughOpcodes(LAMBDA img, i, k : PatchOperand(img, here, i, k, here),
                         PatchTables(image, here), here, tables)
          EXCEPT !.addr = here]

\* calculate_hash
CalculateHash(image) == [image EXCEPT !.hash = "none"]

\* handlebars_module_generate_hash
GenerateHash(image) == [image EXCEPT !.hash = CalculateHash(image)]

\* handlebars_module_verify, within one version of the library
Verify(image) == image.hash = CalculateHash(image)

-----------------------------------------------------------------------------
(* Every pointer of the image at here leads to what it was made for *)
Readable(image, here, module) ==
    /\ ~image.fault
    /\ image.programs = here + HeaderSize
    /\ image.opcodes = here + HeaderSize + EntrySize * Len(module.programs)
    /\ \A i \in 1 .. Len(image.operands) : \A k \in 1 .. Len(image.operands[i]) :
         LET operand == image.operands[i][k]
             text(ptr, name) == Leads(image, here, ptr) /\ Cell(image, here, ptr) = [text |-> name]
         IN IF operand.type = "string" THEN text(operand.ptr, <<i, k, 0>>)
            ELSE /\ Leads(image, here, operand.ptr)
                 /\ \A j \in 1 .. operand.count :
                      text(Cell(image, here, operand.ptr).ptrs[j], <<i, k, j>>)
=============================================================================
