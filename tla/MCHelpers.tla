----------------------------- MODULE MCHelpers -----------------------------
(***************************************************************************)
(* Documents {x: scalar, l: array, m: object}, and templates of two levels *)
(* of blocks over them.                                                    *)
(***************************************************************************)
EXTENDS Helpers

\* Documents
X == <<"x">>
L == <<"l">>
M == <<"m">>
S(s) == <<"string", s>>
I(n) == <<"int", n>>
NullNode == <<"null">>
A(items) == <<"array", items>>
O(items) == <<"object", items>>
Doc(x, l, m) == O(<<<<X, x>>, <<L, l>>, <<M, m>>>>)

Scalars == {NullNode, <<"boolean", TRUE>>, <<"boolean", FALSE>>, I(0), I(1), S(<<>>), S(<<"0">>),
            S(<<"<", "a">>), <<"double", <<"0", ".", "0">>>>, <<"double", <<"1", ".", "5">>>>}
Arrays == {A(<<>>), A(<<NullNode, I(1)>>), A(<<S(<<"x">>), NullNode>>), A(<<I(1), S(<<"&">>), I(0)>>),
           A(<<A(<<I(1), I(2)>>), A(<<>>), O(<<<<X, I(3)>>>>)>>)}
Objects == {O(<<>>), O(<<<<X, I(1)>>, <<L, A(<<S(<<"b">>), I(1)>>)>>>>),
            O(<<<<X, NullNode>>, <<M, O(<<<<X, S(<<"c">>)>>>>)>>>>), O(<<<<X, I(1)>>, <<L, NullNode>>>>)}
Plain == A(<<I(1), S(<<"<">>)>>)
Simple == O(<<<<X, I(1)>>, <<L, S(<<"b">>)>>>>)
Functions == {<<"fn", "throws">>} \union {<<"fn", "gives", j>> : j \in {Plain, Simple, I(0), NullNode}}

MCDocuments ==
    {Doc(x, Plain, Simple) : x \in Scalars} \union {Doc(S(<<"x">>), l, m) : l \in Arrays, m \in Objects}
    \union {Doc(x, Plain, Simple) : x \in Functions}
    \union {Doc(<<"fn", "throws">>, l, <<"safe", <<"<">>>>) : l \in {Plain, A(<<<<"fn", "gives", I(1)>>>>)}}

\* Templates
This == [k |-> "this"]
Path(parts) == [k |-> "path", parts |-> parts]
Data(n) == [k |-> "data", n |-> n]
Param(depth, i) == [k |-> "param", depth |-> depth, i |-> i]
Number(n) == [k |-> "int", n |-> n]
PutOf(p) == [s |-> "put", path |-> p, escape |-> TRUE]
Content(c) == [s |-> "content", text |-> <<c>>]
Call(h, args, program, inverse) ==
    [s |-> "call", helper |-> h, args |-> args, hash |-> {}, program |-> program, inverse |-> inverse]
Block(h, arg, program) == Call(h, <<arg>>, program, <<Content("e")>>)
Zero(arg) == [Block("if", arg, <<Content("z")>>) EXCEPT !.hash = {"includeZero"}]

Operands == {Path(<<X>>), Path(<<L>>), Path(<<M>>)}
BlockHelpers == {"each", "if", "unless", "with", "blockHelperMissing"}
Entry == <<PutOf(Data("index")), PutOf(Data("key")), PutOf(Data("first")), PutOf(This), PutOf(Data("last"))>>
Bodies ==
    {Entry,
     <<PutOf(Param(0, 0)), PutOf(Param(0, 1)), PutOf(Param(1, 0)), PutOf(Path(<<X>>))>>,
     <<Block("each", This, Entry), PutOf(Data("index"))>>,
     <<Block("each", Param(0, 0), <<Block("each", Param(1, 0), <<PutOf(This)>>)>>)>>,
     <<Block("each", Path(<<M>>), <<Call("log", <<Param(0, 0)>>, <<>>, <<>>)>>)>>,
     <<Block("each", Param(0, 0), <<Call("log", <<Param(1, 0)>>, <<>>, <<>>)>>)>>,
     <<Block("with", Data("root"), <<PutOf(Path(<<L>>))>>)>>,
     <<Call("helperMissing", <<This>>, <<>>, <<>>)>>}
Calls ==
    {Zero(Path(<<X>>)), PutOf(Path(<<X>>)), PutOf(Path(<<L>>)), PutOf(Path(<<M, X>>)),
     PutOf(Path(<<L, <<"1">>>>)), [PutOf(Path(<<L>>)) EXCEPT !.escape = FALSE], PutOf(Path(<<M>>)),
     Call("hbsc_set_delimiters", <<Path(<<X>>), Path(<<X>>)>>, <<>>, <<>>)}
    \union {Call("lookup", a, <<>>, <<>>) :
               a \in {<<Path(<<M>>), Path(<<X>>)>>, <<Path(<<L>>), Number(0)>>, <<Path(<<L>>), Number(2)>>,
                      <<Path(<<X>>), Number(0)>>, <<Path(<<L>>), Path(<<X>>)>>, <<Path(<<L>>)>>}}
    \union {Call(h, <<>>, <<Content("p")>>, <<Content("e")>>) :
               h \in BlockHelpers \union {"helperMissing", "log"}}

MCTemplates ==
    {<<Block(h, arg, body)>> : h \in BlockHelpers, arg \in Operands, body \in Bodies}
    \union {<<Block("each", Path(<<M>>), <<PutOf(This)>>), c, Block("each", Path(<<M>>), <<PutOf(This)>>)>> : c \in Calls}
    \union {<<Block("each", Path(<<M>>), <<c>>)>> : c \in Calls}
=============================================================================
