------------------------------ MODULE MCVmExec ------------------------------
(* The VM on templates put through the compiler and the serializer.  Their   *)
(* opcodes are written out below, so that they are not compiled again at     *)
(* every step, and checked against the compiler once.                        *)
EXTENDS VmExec

C == INSTANCE Compiler WITH KnownHelpers <- {"if"}, CompilerStackSize <- 64
S == INSTANCE Serializer

-----------------------------------------------------------------------------
(* The texts *)

Name(n) == C!Path(<<n>>, 0, FALSE, FALSE)
Data(n) == C!Path(<<n>>, 0, TRUE, FALSE)
XY == C!Path(<<"x", "y">>, 0, FALSE, FALSE)
Text(statements) == C!Program(statements, <<>>)
Content == [type |-> "content", val |-> "c"]
Sub(path, args) == C!Sexpr(path, args, <<>>)
Helper(n, args, hash) == C!Mustache(Name(n), args, hash, FALSE, FALSE)
Var(path) == C!Mustache(path, <<>>, <<>>, FALSE, FALSE)
Include(name, args) == C!Partial("partial", name, args, <<>>, C!NoNode, FALSE)
Layout(name, body) == C!Partial("partial_block", Name(name), <<>>, <<>>, Text(body), FALSE)
BlockOf(path, args, body, inverse) ==
    C!Block("block", path, args, <<>>, body, inverse, FALSE)

\* main    {{#if x}}{{> p}}{{/if}}{{#> layout}}{{> q x}}{{/layout}}{{> empty}}
\* layout  c{{> @partial-block}}
\* p       {{#foo}}{{x}}{{else}}c{{/foo}}
\* q       {{foo x h=(x)}}
\* params  {{#foo x as |y|}}{{y}}{{/foo}}
\* data    {{foo (foo "s" null) @index}}
\* paths   {{x.y}}{{#x.y}}c{{/x.y}}
\* dynamic {{> (foo) x}}
\* deco    {{* foo}}
\* twice   {{> c}}{{> c}}
\* c       c
\* outside {{foo @partial-block}}
\* wrapped {{#> wrap}}{{> c}}{{/wrap}}
\* wrap    {{foo "s" (@partial-block)}}
\* late    {{> q}}{{> twice}}
Texts ==
    [main |-> <<BlockOf(Name("if"), <<Name("x")>>, Text(<<Include(Name("p"), <<>>)>>), C!NoNode),
                Layout("layout", <<Include(Name("q"), <<Name("x")>>)>>),
                Include(Name("empty"), <<>>)>>,
     layout |-> <<Content, Include(Data("partial-block"), <<>>)>>,
     p |-> <<BlockOf(Name("foo"), <<>>, Text(<<Var(Name("x"))>>), Text(<<Content>>))>>,
     q |-> <<Helper("foo", <<Name("x")>>, <<Sub(Name("x"), <<>>)>>)>>,
     params |-> <<BlockOf(Name("foo"), <<Name("x")>>, C!Program(<<Var(Name("y"))>>, <<"y">>),
                          C!NoNode)>>,
     data |-> <<Helper("foo", <<Sub(Name("foo"), <<C!Literal("string", "s"),
                                                   C!Literal("null", "null")>>),
                                Data("index")>>, <<>>)>>,
     paths |-> <<Var(XY), BlockOf(XY, <<>>, Text(<<Content>>), C!NoNode)>>,
     dynamic |-> <<Include(Sub(Name("foo"), <<>>), <<Name("x")>>)>>,
     deco |-> <<C!Mustache(Name("foo"), <<>>, <<>>, FALSE, TRUE)>>,
     twice |-> <<Include(Name("c"), <<>>), Include(Name("c"), <<>>)>>,
     c |-> <<Content>>,
     outside |-> <<Helper("foo", <<Data("partial-block")>>, <<>>)>>,
     wrapped |-> <<Layout("wrap", <<Include(Name("c"), <<>>)>>)>>,
     wrap |-> <<Helper("foo", <<C!Literal("string", "s"), Sub(Data("partial-block"), <<>>)>>,
                       <<>>)>>,
     late |-> <<Include(Name("q"), <<>>), Include(Name("twice"), <<>>)>>]

-----------------------------------------------------------------------------
(* Their modules *)

O(op) == [op |-> op]
Ctx == [op |-> "get_context", n |-> 0]
P(n) == [op |-> "push_program", n |-> n]
Lookup(strict) == [op |-> "lookup_on_context", strict |-> strict]
CallHelper(name, n, simple) ==
    [op |-> "invoke_helper", name |-> name, n |-> n, simple |-> simple]
CallPartial(name, dynamic) == [op |-> "invoke_partial", name |-> name, dynamic |-> dynamic]
Module(table, opcodes) ==
    [programs |-> [i \in 1 .. Len(table) |-> [offset |-> table[i][1], count |-> table[i][2]]],
     opcodes |-> opcodes]

MCModules ==
    [main |-> Module(<<<<0, 22>>, <<22, 8>>, <<30, 8>>>>, <<
        Ctx, Lookup(FALSE), P(1), P(-1), O("empty_hash"),
        [op |-> "invoke_known_helper", n |-> 1, name |-> "if"], O("append"), Ctx,
        O("push_context"), P(2), P(-1), O("empty_hash"), CallPartial("layout", FALSE),
        O("append"), Ctx, O("push_context"), P(-1), P(-1), O("empty_hash"),
        CallPartial("empty", FALSE), O("append"), O("return"),
        Ctx, O("push_context"), P(-1), P(-1), O("empty_hash"), CallPartial("p", FALSE),
        O("append"), O("return"),
        Ctx, Lookup(FALSE), P(-1), P(-1), O("empty_hash"), CallPartial("q", FALSE),
        O("append"), O("return")>>),
     layout |-> Module(<<<<0, 9>>>>, <<
        O("append_content"), Ctx, O("push_context"), P(-1), P(-1), O("empty_hash"),
        CallPartial("@partial-block", FALSE), O("append"), O("return")>>),
     p |-> Module(<<<<0, 12>>, <<12, 8>>, <<20, 2>>>>, <<
        Ctx, P(1), P(2), Ctx, Lookup(TRUE), [op |-> "invoke_ambiguous", name |-> "foo"], P(1),
        P(2), O("empty_hash"), O("ambiguous_block_value"), O("append"), O("return"),
        Ctx, P(-1), P(-1), Ctx, Lookup(TRUE), [op |-> "invoke_ambiguous", name |-> "x"],
        O("append_escaped"), O("return"),
        O("append_content"), O("return")>>),
     q |-> Module(<<<<0, 18>>>>, <<
        Ctx, Lookup(FALSE), P(-1), P(-1), O("push_hash"), P(-1), P(-1), O("empty_hash"), Ctx,
        Lookup(TRUE), CallHelper("x", 0, TRUE), O("assign_to_hash"), O("pop_hash"), Ctx,
        Lookup(TRUE), CallHelper("foo", 1, TRUE), O("append_escaped"), O("return")>>),
     params |-> Module(<<<<0, 10>>, <<10, 5>>>>, <<
        Ctx, Lookup(FALSE), P(1), P(-1), O("empty_hash"), Ctx, Lookup(TRUE),
        CallHelper("foo", 1, TRUE), O("append"), O("return"),
        Ctx, [op |-> "lookup_block_param", depth |-> 0, param |-> 0],
        O("resolve_possible_lambda"), O("append_escaped"), O("return")>>),
     data |-> Module(<<<<0, 18>>>>, <<
        O("push_string"), [op |-> "push_literal", null |-> TRUE], P(-1), P(-1),
        O("empty_hash"), Ctx, Lookup(TRUE), CallHelper("foo", 2, TRUE), Ctx,
        [op |-> "lookup_data", n |-> 0, name |-> "index", strict |-> FALSE], P(-1), P(-1),
        O("empty_hash"), Ctx, Lookup(TRUE), CallHelper("foo", 2, TRUE), O("append_escaped"),
        O("return")>>),
     paths |-> Module(<<<<0, 13>>, <<13, 2>>>>, <<
        Ctx, Lookup(TRUE), O("resolve_possible_lambda"), O("append_escaped"), Ctx,
        Lookup(TRUE), O("resolve_possible_lambda"), P(1), P(-1), O("empty_hash"),
        O("block_value"), O("append"), O("return"),
        O("append_content"), O("return")>>),
     dynamic |-> Module(<<<<0, 14>>>>, <<
        P(-1), P(-1), O("empty_hash"), Ctx, Lookup(TRUE), CallHelper("foo", 0, TRUE), Ctx,
        Lookup(FALSE), P(-1), P(-1), O("empty_hash"), CallPartial("", TRUE), O("append"),
        O("return")>>),
     deco |-> Module(<<<<0, 5>>>>, <<
        P(-1), P(-1), O("empty_hash"), [op |-> "register_decorator", n |-> 0], O("return")>>),
     twice |-> Module(<<<<0, 15>>>>, <<
        Ctx, O("push_context"), P(-1), P(-1), O("empty_hash"), CallPartial("c", FALSE),
        O("append"), Ctx, O("push_context"), P(-1), P(-1), O("empty_hash"),
        CallPartial("c", FALSE), O("append"), O("return")>>),
     c |-> Module(<<<<0, 2>>>>, <<
        O("append_content"), O("return")>>),
     outside |-> Module(<<<<0, 10>>>>, <<
        Ctx, [op |-> "lookup_data", n |-> 0, name |-> "partial-block", strict |-> FALSE],
        P(-1), P(-1), O("empty_hash"), Ctx, Lookup(TRUE), CallHelper("foo", 1, TRUE),
        O("append_escaped"), O("return")>>),
     wrapped |-> Module(<<<<0, 8>>, <<8, 8>>>>, <<
        Ctx, O("push_context"), P(1), P(-1), O("empty_hash"), CallPartial("wrap", FALSE),
        O("append"), O("return"),
        Ctx, O("push_context"), P(-1), P(-1), O("empty_hash"), CallPartial("c", FALSE),
        O("append"), O("return")>>),
     wrap |-> Module(<<<<0, 15>>>>, <<
        O("push_string"), P(-1), P(-1), O("empty_hash"), Ctx,
        [op |-> "lookup_data", n |-> 0, name |-> "partial-block", strict |-> TRUE],
        CallHelper("partial-block", 0, TRUE), P(-1), P(-1), O("empty_hash"), Ctx,
        Lookup(TRUE), CallHelper("foo", 2, TRUE), O("append_escaped"), O("return")>>),
     late |-> Module(<<<<0, 15>>>>, <<
        Ctx, O("push_context"), P(-1), P(-1), O("empty_hash"), CallPartial("q", FALSE),
        O("append"), Ctx, O("push_context"), P(-1), P(-1), O("empty_hash"),
        CallPartial("twice", FALSE), O("append"), O("return")>>),
     empty |-> S!EmptyModule]

ASSUME ModulesCompiled ==
    \A t \in DOMAIN Texts : MCModules[t] = S!Serialize(C!Compile({}, Text(Texts[t])))

MCPartials ==
    [layout |-> "layout", p |-> "p", q |-> "q", empty |-> "empty", c |-> "c",
     wrap |-> "wrap", twice |-> "twice", fn |-> "callable", other |-> "other"]
MCFewPartials == [p \in {"c", "empty", "wrap", "fn", "other"} |-> MCPartials[p]]
=============================================================================
