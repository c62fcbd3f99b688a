------------------------------ MODULE Compiler ------------------------------
(***************************************************************************)
(* The compiler (handlebars_compiler.c), from an AST to a tree of programs  *)
(* of opcodes.                                                              *)
(*                                                                          *)
(* An AST node is a record with a field "type".  A program under            *)
(* construction is a record                                                 *)
(*   ops       the opcodes emitted so far                                   *)
(*   children  the compiled programs of its blocks; a block is named in the *)
(*             opcodes by its position here, counted from 0 (guid)          *)
(*   err       the error thrown, or "none": nothing is emitted after it, as *)
(*             the throw leaves for the outermost handlebars_compiler_compile *)
(*   overrun   an entry was written beyond the end of a compiler stack      *)
(* env is what a nested compiler copies from its parent: the block param    *)
(* stack bps (outermost first), the height sns of the source node stack and *)
(* the option flags.                                                        *)
(***************************************************************************)
EXTENDS Integers, Sequences, FiniteSets, SequencesExt

CONSTANTS
    KnownHelpers,       \* names of the builtins and of the known helpers
    CompilerStackSize   \* HANDLEBARS_COMPILER_STACK_SIZE, 64 in the code

ASSUME SizeAssumption == CompilerStackSize \in Nat \ {0}

-----------------------------------------------------------------------------
(* AST nodes *)

NoNode == [type |-> "none"]

Path(parts, depth, data, scoped) ==
    [type |-> "path", parts |-> parts, depth |-> depth, data |-> data,
     scoped |-> scoped, strict |-> FALSE]

Literal(kind, val) == [type |-> kind, val |-> val]
Sexpr(path, params, hash) ==
    [type |-> "sexpr", path |-> path, params |-> params, hash |-> hash]
Mustache(path, params, hash, unescaped, decorator) ==
    [type |-> "mustache", path |-> path, params |-> params, hash |-> hash,
     unescaped |-> unescaped, decorator |-> decorator]
Block(type, path, params, hash, program, inverse, decorator) ==
    [type |-> type, path |-> path, params |-> params, hash |-> hash,
     program |-> program, inverse |-> inverse, decorator |-> decorator]
Partial(type, name, params, hash, program, indent) ==
    [type |-> type, path |-> name, params |-> params, hash |-> hash,
     program |-> program, indent |-> indent]
Program(statements, blockParams) ==
    [type |-> "program", statements |-> statements, blockParams |-> blockParams]

LiteralKinds == {"undefined", "null", "boolean", "number", "string"}

-----------------------------------------------------------------------------
(* What the compiler asks of an AST node *)

\* handlebars_ast_node_get_id_part: "" stands for NULL
IdPart(path) == IF path.parts = <<>> THEN "" ELSE Head(path.parts)

SimpleId(path) == Len(path.parts) = 1 /\ ~path.scoped /\ path.depth = 0

HelperExpression(node) ==
    node.type = "sexpr" \/ node.params # <<>> \/ node.hash # <<>>

\* transform_literal_to_path: a literal in the place of a path is the path of
\* one segment that it spells
AsPath(node) ==
    IF node.type \in LiteralKinds
    THEN Path(<<node.val>>, 0, FALSE, FALSE)
    ELSE node

-----------------------------------------------------------------------------
(* Programs under construction *)

NewProgram == [ops |-> <<>>, children |-> <<>>, err |-> "none", overrun |-> FALSE]

Emit(prog, ops) ==
    IF prog.err = "none" THEN [prog EXCEPT !.ops = @ \o ops] ELSE prog

Throw(prog, err) == IF prog.err = "none" THEN [prog EXCEPT !.err = err] ELSE prog

Op(name) == [op |-> name]
OpN(name, n) == [op |-> name, n |-> n]

\* guid -1 is the push_program without an operand
PushProgramPair(programGuid, inverseGuid) ==
    <<OpN("push_program", programGuid), OpN("push_program", inverseGuid)>>

\* The innermost program that declares name, and the place of name in its list
BlockParamIndex(env, name) ==
    LET l == Len(env.bps)
        declares(i) == Contains(env.bps[l - i], name)
        hits == {i \in 0 .. l - 1 : declares(i)}
    IN IF name = "" \/ hits = {}
       THEN [found |-> FALSE, depth |-> -1, param |-> -1]
       ELSE LET d == Min(hits)
            IN [found |-> TRUE, depth |-> d,
                param |-> SelectInSeq(env.bps[l - d], LAMBDA p : p = name) - 1]

IsKnownHelper(path) == path.type = "path" /\ IdPart(path) \in KnownHelpers

Classify(env, sexpr) ==
    LET path == sexpr.path
        isBlockParam == SimpleId(path) /\ BlockParamIndex(env, IdPart(path)).found
        isHelper == ~isBlockParam /\ HelperExpression(sexpr)
        isEligible == ~isBlockParam /\ (SimpleId(path) \/ isHelper)
    IN CASE isHelper -> "helper"
         [] ~isHelper /\ isEligible /\ IsKnownHelper(path) -> "helper"
         [] ~isHelper /\ isEligible /\ ~IsKnownHelper(path) ->
              IF "known_helpers_only" \in env.flags THEN "simple" ELSE "ambiguous"
         [] OTHER -> "simple"

-----------------------------------------------------------------------------
(* Acceptors: the program after one AST node *)

AcceptContent(prog, node) ==
    IF node.val = "" THEN prog ELSE Emit(prog, <<Op("append_content")>>)

AcceptLiteral(prog, node) ==
    Emit(prog, <<IF node.type = "string"
                 THEN Op("push_string")
                 ELSE [op |-> "push_literal",
                       null |-> node.type \in {"undefined", "null"}]>>)

AcceptPath(env, prog, path) ==
    LET name == IdPart(path)
        index == IF path.depth = 0 /\ ~path.scoped
                 THEN BlockParamIndex(env, name)
                 ELSE [found |-> FALSE]
        lookup == CASE index.found ->
                         [op |-> "lookup_block_param",
                          depth |-> index.depth, param |-> index.param]
                    [] ~index.found /\ name = "" -> Op("push_context")
                    [] ~index.found /\ name # "" /\ path.data ->
                         [op |-> "lookup_data", n |-> path.depth,
                          name |-> name, strict |-> path.strict]
                    [] OTHER ->
                         [op |-> "lookup_on_context", strict |-> path.strict]
    IN Emit(prog, <<OpN("get_context", path.depth), lookup>>)

RECURSIVE Accept(_, _, _)

\* A compiler of its own for a block's program: its errors and overruns are
\* the parent's, its result the parent's next child
CompileProgram(env, prog, node) ==
    IF node = NoNode \/ prog.err # "none" THEN prog
    ELSE LET child == Accept(env, NewProgram, node)
             seen == [prog EXCEPT !.overrun = @ \/ child.overrun]
         IN IF child.err = "none"
            THEN [seen EXCEPT !.children = Append(@, child)]
            ELSE Throw(seen, child.err)

\* What CompileProgram returned: the position of the child, -1 if there is none
Guid(prog, node) == IF node = NoNode THEN -1 ELSE Len(prog.children)

PushParam(env, prog, param) ==
    IF "string_params" \in env.flags
    THEN LET depth == IF param.type = "path" THEN param.depth ELSE 0
             named == Emit(prog, <<OpN("get_context", depth), Op("push_string_param")>>)
         IN IF param.type = "sexpr" THEN Accept(env, named, param) ELSE named
    ELSE Accept(env,
                IF "track_ids" \in env.flags THEN Emit(prog, <<Op("push_id")>>) ELSE prog,
                param)

PushParams(env, prog, params) ==
    FoldLeft(LAMBDA p, param : PushParam(env, p, param), prog, params)

\* Mutant: the last pair's value is left on the stack
AcceptHashMutant(env, prog, hash) ==
    LET pushed == PushParams(env, Emit(prog, <<Op("push_hash")>>), hash)
    IN Emit(pushed, [i \in 1 .. Len(hash) - 1 |-> Op("assign_to_hash")]
                    \o <<Op("pop_hash")>>)

\* The values in the order of the pairs, then one assignment each, backwards
AcceptHash(env, prog, hash) ==
    LET pushed == PushParams(env, Emit(prog, <<Op("push_hash")>>), hash)
    IN Emit(pushed, [i \in 1 .. Len(hash) |-> Op("assign_to_hash")]
                    \o <<Op("pop_hash")>>)

SetupFullMustacheParams(env, prog, sexpr, programGuid, inverseGuid) ==
    LET pushed == Emit(PushParams(env, prog, sexpr.params),
                       PushProgramPair(programGuid, inverseGuid))
    IN IF sexpr.hash # <<>>
       THEN Accept(env, pushed, [type |-> "hash", pairs |-> sexpr.hash])
       ELSE Emit(pushed, <<Op("empty_hash")>>)

AcceptSexprAmbiguous(env, prog, sexpr, programGuid, inverseGuid) ==
    LET path == [sexpr.path EXCEPT !.strict = TRUE]
        found == Accept(env,
                        Emit(prog, <<OpN("get_context", path.depth)>>
                                   \o PushProgramPair(programGuid, inverseGuid)),
                        path)
    IN Emit(found, <<[op |-> "invoke_ambiguous", name |-> IdPart(path)]>>)

AcceptSexprSimple(env, prog, sexpr) ==
    Emit(Accept(env, prog, [sexpr.path EXCEPT !.strict = TRUE]),
         <<Op("resolve_possible_lambda")>>)

\* The message of the error has the helper's name: the NULL pointer for {{this x}}
AcceptSexprHelper(env, prog, sexpr, programGuid, inverseGuid) ==
    LET path == sexpr.path
        argc == Len(sexpr.params)
        args == SetupFullMustacheParams(env, prog, sexpr, programGuid, inverseGuid)
    IN IF IsKnownHelper(path)
       THEN Emit(args, <<[op |-> "invoke_known_helper", n |-> argc,
                          name |-> IdPart(path)]>>)
       ELSE IF "known_helpers_only" \in env.flags
       THEN Throw(args, IF path.parts = <<>> THEN "null_pointer" ELSE "unknown_helper")
       ELSE Emit(Accept(env, args, [path EXCEPT !.strict = TRUE]),
                 <<[op |-> "invoke_helper", n |-> argc, name |-> IdPart(path),
                    simple |-> SimpleId(path)]>>)

AcceptSexpr(env, prog, node) ==
    LET sexpr == [node EXCEPT !.path = AsPath(@)]
    IN CASE Classify(env, sexpr) = "helper" -> AcceptSexprHelper(env, prog, sexpr, -1, -1)
         [] Classify(env, sexpr) = "simple" -> AcceptSexprSimple(env, prog, sexpr)
         [] OTHER -> AcceptSexprAmbiguous(env, prog, sexpr, -1, -1)

\* With alternate_decorators the opcodes go to a program of their own that is
\* not serialized, compiled by a compiler that was given neither bps nor sns
AcceptDecorator(env, prog, node, programGuid) ==
    IF "alternate_decorators" \in env.flags
    THEN IF node.params = <<>> /\ node.hash = <<>> THEN prog
         ELSE Throw(prog, "null_pointer")
    ELSE Emit(SetupFullMustacheParams(env, prog, node, programGuid, -1),
              <<OpN("register_decorator", Len(node.params))>>)

AcceptMustache(env, prog, node) ==
    IF node.decorator THEN AcceptDecorator(env, prog, node, -1)
    ELSE Emit(AcceptSexpr(env, prog, node),
              <<IF node.unescaped \/ "no_escape" \in env.flags
                THEN Op("append") ELSE Op("append_escaped")>>)

\* The call at the head of a block whose programs have been compiled
InvokeBlock(env, prog, sexpr, programGuid, inverseGuid) ==
    LET again == PushProgramPair(programGuid, inverseGuid) \o <<Op("empty_hash")>>
    IN CASE Classify(env, sexpr) = "helper" ->
              AcceptSexprHelper(env, prog, sexpr, programGuid, inverseGuid)
         [] Classify(env, sexpr) = "simple" ->
              Emit(AcceptSexprSimple(env, prog, sexpr), again \o <<Op("block_value")>>)
         [] OTHER ->
              Emit(AcceptSexprAmbiguous(env, prog, sexpr, programGuid, inverseGuid),
                   again \o <<Op("ambiguous_block_value")>>)

AcceptBlock(env, prog, node) ==
    LET sexpr == [node EXCEPT !.path = AsPath(@)]
        main == CompileProgram(env, prog, sexpr.program)
        both == CompileProgram(env, main, sexpr.inverse)
        programGuid == Guid(prog, sexpr.program)
    IN IF sexpr.decorator
       THEN AcceptDecorator(env, main, sexpr, programGuid)
       ELSE Emit(InvokeBlock(env, both, sexpr, programGuid, Guid(main, sexpr.inverse)),
                 <<Op("append")>>)

AcceptRawBlock(env, prog, node) ==
    LET sexpr == [node EXCEPT !.path = AsPath(@)]
        main == CompileProgram(env, prog, sexpr.program)
        both == CompileProgram(env, main, sexpr.inverse)
    IN Emit(InvokeBlock(env, both, sexpr, Guid(prog, sexpr.program), Guid(main, sexpr.inverse)),
            <<Op("append")>>)

\* The text of a partial's name, of which the VM tells one from the others
PartialName(node) ==
    IF node.type = "path" /\ node.data /\ node.parts = <<"partial-block">>
    THEN "@partial-block"
    ELSE IdPart(AsPath(node))

\* accept_partial and accept_partial_block: without a parameter the partial is
\* given the current context (a path of no parts) or, if so asked, undefined
AcceptPartial(env, prog, node) ==
    LET explicit == "explicit_partial_context" \in env.flags
        given == IF node.params = <<>> /\ ~explicit
                 THEN [node EXCEPT !.params = <<Path(<<>>, 0, FALSE, FALSE)>>]
                 ELSE node
        start == IF node.params = <<>> /\ explicit
                 THEN Emit(prog, <<[op |-> "push_literal", null |-> TRUE]>>)
                 ELSE prog
        dynamic == node.path.type = "sexpr"
        named == IF dynamic THEN Accept(env, start, node.path) ELSE start
        body == CompileProgram(env, named, node.program)
        args == SetupFullMustacheParams(env, body, given, Guid(named, node.program), -1)
        indented == IF "prevent_indent" \in env.flags /\ node.indent
                    THEN Emit(args, <<Op("append_content")>>) ELSE args
    IN IF Len(node.params) > 1 THEN Throw(prog, "unsupported_partial_args")
       ELSE Emit(indented,
                 <<[op |-> "invoke_partial", dynamic |-> dynamic,
                    name |-> IF dynamic THEN "" ELSE PartialName(node.path)],
                   Op("append")>>)

AcceptProgram(env, prog, node) ==
    LET inner == [env EXCEPT !.bps = Append(@, node.blockParams)]
        entered == [prog EXCEPT !.overrun = @ \/ Len(env.bps) >= CompilerStackSize]
    IN IF Len(env.bps) > CompilerStackSize THEN Throw(prog, "block_param_stack")
       ELSE FoldLeft(LAMBDA p, s : Accept(inner, p, s), entered, node.statements)

\* handlebars_compiler_accept: the node goes on the source node stack first
Accept(outer, before, node) ==
    LET env == [outer EXCEPT !.sns = @ + 1]
        prog == [before EXCEPT !.overrun = @ \/ outer.sns >= CompilerStackSize]
    IN IF before.err # "none" \/ node = NoNode THEN before
       ELSE IF outer.sns > CompilerStackSize THEN Throw(before, "source_node_stack")
       ELSE CASE node.type = "block" -> AcceptBlock(env, prog, node)
              [] node.type = "raw_block" -> AcceptRawBlock(env, prog, node)
              [] node.type = "comment" -> prog
              [] node.type = "content" -> AcceptContent(prog, node)
              [] node.type = "hash" -> AcceptHash(env, prog, node.pairs)
              [] node.type = "mustache" -> AcceptMustache(env, prog, node)
              [] node.type \in {"partial", "partial_block"} -> AcceptPartial(env, prog, node)
              [] node.type = "path" -> AcceptPath(env, prog, node)
              [] node.type = "program" -> AcceptProgram(env, prog, node)
              [] node.type = "sexpr" -> AcceptSexpr(env, prog, node)
              [] OTHER -> AcceptLiteral(prog, node)

\* handlebars_compiler_compile: a throw ends here with what was emitted so far
Compile(flags, node) ==
    Accept([bps |-> <<>>, sns |-> 0, flags |-> flags], NewProgram, node)
=============================================================================
