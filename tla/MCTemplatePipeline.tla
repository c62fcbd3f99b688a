------------------------- MODULE MCTemplatePipeline -------------------------
(* Templates of up to two statements with blocks nested up to two deep.      *)
EXTENDS CommandLine

Name(n) == Path(<<n>>, 0, FALSE, FALSE)

\* {{foo}} {{if}} {{x}} {{x.y}} {{../foo}} {{this}} {{@partial-block}} {{"s"}}
MCPaths == {Name("foo"), Name("if"), Name("x"), Path(<<"x", "y">>, 0, FALSE, FALSE),
            Path(<<"foo">>, 1, FALSE, FALSE), Path(<<>>, 0, FALSE, TRUE),
            Path(<<"partial-block">>, 0, TRUE, FALSE), Literal("string", "s")}

MCSexprs == {Sexpr(p, args, hash) : p \in {Name("foo"), Name("if")},
                args \in {<<>>, <<Name("x")>>},
                hash \in {<<>>, <<Sexpr(Name("foo"), <<Literal("null", "null")>>, <<>>)>>}}

MCArgs == {<<>>, <<Name("x")>>} \cup {<<s>> : s \in MCSexprs}

MCMustaches == {Mustache(p, args, hash, FALSE, FALSE) :
                  p \in MCPaths, args \in MCArgs \cup {<<Name("x"), Literal("number", "1")>>},
                  hash \in {<<>>, <<Name("foo"), Sexpr(Name("if"), <<>>, <<>>)>>}}

MCPartials == {Partial("partial", n, args, hash, NoNode, indent) :
                 n \in {Name("p"), Path(<<"partial-block">>, 0, TRUE, FALSE),
                        Sexpr(Name("foo"), <<>>, <<>>)},
                 args \in {<<>>, <<Name("x")>>, <<Name("x"), Name("x")>>},
                 hash \in {<<>>, <<Name("x")>>}, indent \in BOOLEAN}

MCOther == {[type |-> "content", val |-> "c"], [type |-> "content", val |-> ""],
            [type |-> "comment"],
            Mustache(Name("foo"), <<>>, <<>>, TRUE, FALSE),
            Mustache(Name("foo"), <<Name("x")>>, <<>>, FALSE, TRUE)}

\* Bodies of blocks, among them ones that a throw cuts short
MCInner == {Program(<<s>>, bp) :
              s \in {Mustache(Name("x"), <<>>, <<>>, FALSE, FALSE),
                     Mustache(Name("foo"), <<Name("x")>>, <<>>, FALSE, FALSE),
                     Partial("partial", Name("p"), <<>>, <<>>, NoNode, FALSE)},
              bp \in {<<>>, <<"x">>, <<"y", "x">>}}

MCBlocksOf(bodies) ==
    {Block("block", p, args, <<>>, b, i, FALSE) :
        p \in {Name("foo"), Name("if"), Name("x")}, args \in {<<>>, <<Name("x")>>},
        b \in bodies, i \in {NoNode} \cup {Program(<<[type |-> "content", val |-> "c"]>>, <<>>)}}
    \cup {Partial("partial_block", Name("p"), <<>>, <<>>, b, FALSE) : b \in bodies}

MCFewBlocks ==
    {Block("block", Name("foo"), <<>>, <<>>, b, Program(<<>>, <<>>), FALSE) : b \in MCInner}
    \cup {Block("raw_block", Name("foo"), <<Name("x")>>, <<>>, b, NoNode, FALSE) : b \in MCInner}
    \cup {Block("block", Name("x"), <<>>, <<>>, b, NoNode, TRUE) : b \in MCInner}

\* Two blocks in a block, one of them with an inverse or a block param
MCPairs == {<<s, t>> : s \in {b \in MCBlocksOf(MCInner) : b.params = <<>>},
                       t \in {b \in MCFewBlocks : b.program.blockParams = <<>>}}

MCAsts ==
    {Program(<<s>>, <<>>) : s \in MCMustaches \cup MCPartials \cup MCOther \cup MCBlocksOf(MCInner)}
    \cup {Program(<<s, t>>, <<>>) : s \in MCOther, t \in MCBlocksOf(MCInner)}
    \cup {Program(<<Block("block", Name("foo"), <<>>, <<>>, Program(pair, <<"x">>), NoNode, FALSE),
                    pair[2]>>, <<>>) : pair \in MCPairs}

MCFlagSets == {{}, {"known_helpers_only"}, {"explicit_partial_context", "prevent_indent"},
               {"track_ids"}, {"string_params", "no_escape"}, {"alternate_decorators"}}

\* Lengths of texts, among them 0 and such that sizes are and are not aligned
MCTextLength(opcode, element) ==
    CASE opcode.op = "append_content" -> 5
      [] opcode.op = "push_string" -> 0
      [] opcode.op = "lookup_on_context" -> 6 + element
      [] OTHER -> 7 + element

MCAddresses == {1000, 5000}

-----------------------------------------------------------------------------
(* Command lines of up to three options *)

Tmpl(tree, parses, delims) ==
    [kind |-> "template", ast |-> tree, parses |-> parses, delims |-> delims]
DataFile(named, yaml, json) == [kind |-> "data", named |-> named, yaml |-> yaml, json |-> json]

\* A helper that is not known, a block around it, one partial argument too many,
\* a decorator with a parameter
MCCliTemplates ==
    [good |-> <<Mustache(Name("x"), <<>>, <<>>, FALSE, FALSE)>>,
     unknown |-> <<Mustache(Name("x"), <<>>, <<>>, FALSE, FALSE),
                   Block("block", Name("if"), <<Name("x")>>, <<>>,
                         Program(<<Mustache(Name("foo"), <<Name("x")>>, <<>>, FALSE, FALSE)>>, <<>>),
                         NoNode, FALSE)>>,
     args |-> <<Partial("partial", Name("p"), <<Name("x"), Name("x")>>, <<>>, NoNode, FALSE)>>,
     deco |-> <<Mustache(Name("foo"), <<Name("x")>>, <<>>, FALSE, TRUE)>>]

MCFiles ==
    [n \in DOMAIN MCCliTemplates |-> Tmpl(Program(MCCliTemplates[n], <<>>), TRUE, TRUE)]
    @@ [broken |-> Tmpl(NoNode, FALSE, TRUE),
        delims |-> Tmpl(Program(MCCliTemplates["good"], <<>>), TRUE, FALSE),
        missing |-> [kind |-> "missing"], nothing |-> [kind |-> "nothing"],
        yaml |-> DataFile("yaml", "value", "error"), falsy |-> DataFile("yaml", "empty", "value"),
        tilde |-> DataFile("yaml", "empty", "error"), json |-> DataFile("json", "error", "value"),
        bad |-> DataFile("json", "error", "error")]
MCStdin == MCFiles["good"]

Opt(o) == [o |-> o]
OptArg(o, arg) == [o |-> o, arg |-> arg]
MCModes == {Opt(o) : o \in Modes}
MCTemplateOptions ==
    {OptArg(o, n) : o \in {"template", "file"},
        n \in DOMAIN MCCliTemplates \cup {"broken", "delims", "missing", "nothing", "-"}}
MCOthers ==
    {OptArg("data", n) : n \in {"yaml", "falsy", "tilde", "json", "bad", "missing", "-"}}
    \cup {OptArg("flags", f) : f \in {{"known_helpers_only"}, {"compat"}, {"alternate_decorators"}}}
    \cup {OptArg("run-count", n) : n \in {0, 2}}
    \cup {Opt(o) : o \in {"no-newline", "no-convert-input", "partial-loader", "pool-size", "invalid"}}
MCCommandLines ==
    {<<>>} \cup {<<a>> : a \in MCModes \cup MCTemplateOptions \cup MCOthers}
    \cup {<<m, t>> : m \in MCModes, t \in MCTemplateOptions}
    \cup {<<t, m, o>> : t \in MCTemplateOptions, m \in MCModes, o \in MCOthers \cup MCModes}
    \cup {<<t, u, m>> : t \in MCTemplateOptions, u \in MCTemplateOptions \cup MCOthers,
                        m \in {Opt("compile"), OptArg("flags", {"known_helpers_only"})}}
    \cup {<<OptArg("flags", {"known_helpers_only"}), OptArg("flags", {"no_escape"}), t>> :
              t \in MCTemplateOptions}
=============================================================================
