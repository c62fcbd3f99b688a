------------------------------- MODULE Parser -------------------------------
(***************************************************************************)
(* The grammar of templates (handlebars.y, generated as handlebars.tab.c). *)
(*                                                                         *)
(* One operator per nonterminal.  Each reads tokens from position i on and *)
(* yields what the reduction builds and the position behind it, or the     *)
(* error that ends the parse: a syntax error, or what the actions throw.   *)
(* The bottom-up parser accepts the same sequences and reduces in the same *)
(* order; of two errors it reports the one further to the left.            *)
(***************************************************************************)
EXTENDS Ast

Kind(ts, i) == IF i <= Len(ts) THEN ts[i].t ELSE "END"
Text(ts, i) == ts[i].s

Got(n, i) == [err |-> "", node |-> n, i |-> i]
Syntax == [err |-> "syntax error"]
(* The result r of an action as what is read up to position i *)
Built(r, i) == IF r.err = "" THEN Got(r.node, i) ELSE r
(* The token of kind k that has to follow what r read *)
Then(r, ts, k) == IF r.err = "" /\ Kind(ts, r.i) # k THEN Syntax ELSE r

(***************************************************************************)
(* Paths, literals, parameters and hashes.                                 *)
(***************************************************************************)

RECURSIVE PathSegments(_, _, _)
PathSegments(ts, i, segs) ==
  IF Kind(ts, i) # "ID" THEN Syntax
  ELSE LET sep == IF segs = <<>> THEN <<>> ELSE Text(ts, i - 1)
           all == Append(segs, PathSegment(Text(ts, i), sep))
       IN  IF Kind(ts, i + 1) = "SEP" THEN PathSegments(ts, i + 2, all) ELSE Got(all, i + 1)

PathAt(ts, i, data) ==
  LET read(r) == IF r.err # "" THEN r ELSE Built(PreparePath(r.node, data), r.i) IN read(PathSegments(ts, i, <<>>))

HelperName(ts, i) ==
  CASE Kind(ts, i) = "ID" -> PathAt(ts, i, FALSE)
    [] Kind(ts, i) = "DATA" -> PathAt(ts, i + 1, TRUE)
    [] Kind(ts, i) = "STRING" -> Got(StringNode(Text(ts, i), FALSE), i + 1)
    [] Kind(ts, i) = "SINGLE_STRING" -> Got(StringNode(Text(ts, i), TRUE), i + 1)
    [] Kind(ts, i) = "NUMBER" -> Got(NumberNode(Text(ts, i)), i + 1)
    [] Kind(ts, i) = "BOOLEAN" -> Got(BooleanNode(Text(ts, i)), i + 1)
    [] Kind(ts, i) = "UNDEFINED" -> Got(UndefinedNode(Text(ts, i)), i + 1)
    [] Kind(ts, i) = "NUL" -> Got(NullNode(Text(ts, i)), i + 1)
    [] OTHER -> Syntax

StartsParam(ts, i) ==
  /\ Kind(ts, i) \in {"ID", "DATA", "STRING", "SINGLE_STRING", "NUMBER", "BOOLEAN", "UNDEFINED", "NUL", "OPEN_SEXPR"}
  /\ ~(Kind(ts, i) = "ID" /\ Kind(ts, i + 1) = "EQUALS")

RECURSIVE Param(_, _)
RECURSIVE Params(_, _, _)
RECURSIVE Hash(_, _, _)
RECURSIVE Intermediate3(_, _)

Sexpr(ts, i) ==
  LET closed(r) == IF r.err # "" THEN r ELSE Got(SexprNode(r.node), r.i + 1)
  IN  closed(Then(Intermediate3(ts, i + 1), ts, "CLOSE_SEXPR"))

Param(ts, i) == IF Kind(ts, i) = "OPEN_SEXPR" THEN Sexpr(ts, i) ELSE HelperName(ts, i)

Params(ts, i, got) ==
  IF ~StartsParam(ts, i) THEN Got(got, i)
  ELSE LET r == Param(ts, i) IN IF r.err # "" THEN r ELSE Params(ts, r.i, Append(got, r.node))

Hash(ts, i, got) ==
  IF ~(Kind(ts, i) = "ID" /\ Kind(ts, i + 1) = "EQUALS") THEN Got(got, i)
  ELSE LET r == Param(ts, i + 2)
       IN  IF r.err # "" THEN r ELSE Hash(ts, r.i, Append(got, HashPair(Text(ts, i), r.node)))

(* name, parameters and hash: what tags, block tags and subexpressions have in common *)
Call(ts, name) ==
  LET hashed(p, h) == IF h.err # "" THEN h ELSE Got(Intermediate(name.node, p.node, h.node, {}), h.i)
      given(p) == IF p.err # "" THEN p ELSE hashed(p, Hash(ts, p.i, <<>>))
  IN  IF name.err # "" THEN name ELSE given(Params(ts, name.i, <<>>))

Intermediate3(ts, i) == Call(ts, HelperName(ts, i))

BlockParams(ts, i) ==
  IF Kind(ts, i + 1) # "ID" THEN Syntax
  ELSE IF Kind(ts, i + 2) = "CLOSE_BLOCK_PARAMS" THEN Got(<< Text(ts, i + 1) >>, i + 3)
  ELSE IF Kind(ts, i + 2) = "ID" /\ Kind(ts, i + 3) = "CLOSE_BLOCK_PARAMS"
         THEN Got(<< Text(ts, i + 1), Text(ts, i + 2) >>, i + 4)
  ELSE Syntax

Intermediate4(ts, i) ==
  LET named(r, b) == IF b.err # "" THEN b ELSE Got([r.node EXCEPT !.bp = b.node], b.i)
      called(r) == IF r.err # "" \/ Kind(ts, r.i) # "OPEN_BLOCK_PARAMS" THEN r ELSE named(r, BlockParams(ts, r.i))
  IN  called(Intermediate3(ts, i))

(* A tag: the expression e behind the opening token, then the closing token *)
Tag(ts, i, e, close) ==
  LET closed(r) == IF r.err # "" THEN r
                   ELSE Got([r.node EXCEPT !.strip = StripFlags(Text(ts, i), Text(ts, r.i))], r.i + 1)
  IN  closed(Then(e, ts, close))

PartialName(ts, i) == IF Kind(ts, i) = "OPEN_SEXPR" THEN Sexpr(ts, i) ELSE HelperName(ts, i)

CloseBlock(ts, i) ==
  IF Kind(ts, i) # "OPEN_ENDBLOCK" THEN Syntax
  ELSE LET named(n) == IF n.err # "" THEN n ELSE Got(Intermediate(n.node, <<>>, <<>>, {}), n.i)
       IN  Tag(ts, i, named(HelperName(ts, i + 1)), "CLOSE")

(***************************************************************************)
(* Statements.                                                             *)
(***************************************************************************)

Mustache(ts, i, close) ==
  LET built(r) == IF r.err # "" THEN r ELSE Got(PrepareMustache(r.node, Text(ts, i), r.node.strip), r.i)
  IN  built(Tag(ts, i, Intermediate3(ts, i + 1), close))

Partial(ts, i) ==
  LET built(r) == IF r.err # "" THEN r
                  ELSE Got(PartialNode(r.node.path, r.node.params, r.node.hash, r.node.strip), r.i)
  IN  built(Tag(ts, i, Call(ts, PartialName(ts, i + 1)), "CLOSE"))

Comment(ts, i) ==
  LET built(text) ==
        IF text.err # "" THEN text
        ELSE Got(CommentNode(text.node, Kind(ts, i) = "LONG_COMMENT", StripFlags(Text(ts, i), Text(ts, i))), i + 1)
  IN  built(StripComment(Text(ts, i)))

(* Adjacent pieces of text are one statement *)
RECURSIVE Content(_, _, _)
Content(ts, i, text) ==
  IF Kind(ts, i) = "CONTENT" THEN Content(ts, i + 1, text \o Text(ts, i)) ELSE Got(text, i)

RawBlock(ts, i) ==
  LET ended(open, body) == IF body.err # "" THEN body
                           ELSE Built(PrepareRawBlock(open.node, body.node, Text(ts, body.i)), body.i + 1)
      opened(open) == IF open.err # "" THEN open
                      ELSE ended(open, Then(Content(ts, open.i + 1, <<>>), ts, "END_RAW_BLOCK"))
  IN  opened(Then(Intermediate4(ts, i + 1), ts, "CLOSE_RAW_BLOCK"))

StartsStatement == {"OPEN", "OPEN_UNESCAPED", "OPEN_BLOCK", "OPEN_INVERSE", "OPEN_RAW_BLOCK", "OPEN_PARTIAL",
                    "OPEN_PARTIAL_BLOCK", "CONTENT", "COMMENT", "LONG_COMMENT"}

RECURSIVE Statements(_, _, _)
RECURSIVE InverseChain(_, _)
RECURSIVE Block(_, _)
RECURSIVE PartialBlock(_, _)

(* At most one program: none where no statement starts *)
OptProgram(ts, i) ==
  LET read(r) == IF r.err # "" THEN r ELSE Got(IF r.node = <<>> THEN <<>> ELSE << Program(TRUE, r.node, FALSE) >>, r.i)
  IN  read(Statements(ts, i, <<>>))

InverseAndProgram(ts, i) ==
  LET inside(p) ==
        IF p.err # "" THEN p
        ELSE Got(<< InverseNode(IF p.node = <<>> THEN EmptyProgram ELSE p.node[1], FALSE,
                                StripFlags(Text(ts, i), Text(ts, i))) >>, p.i)
  IN  inside(OptProgram(ts, i + 1))

InverseChain(ts, i) ==
  CASE Kind(ts, i) = "INVERSE" -> InverseAndProgram(ts, i)
    [] Kind(ts, i) = "OPEN_INVERSE_CHAIN" ->
         LET built(r, j) == IF r.err # "" THEN r ELSE Got(<< r.node >>, j)
             chained(open, p, c) == IF c.err # "" THEN c ELSE built(PrepareInverseChain(open.node, p.node, c.node), c.i)
             inside(open, p) == IF p.err # "" THEN p ELSE chained(open, p, InverseChain(ts, p.i))
             opened(open) == IF open.err # "" THEN open ELSE inside(open, OptProgram(ts, open.i))
         IN  opened(Tag(ts, i, Intermediate4(ts, i + 1), "CLOSE"))
    [] OTHER -> Got(<<>>, i)

Block(ts, i) ==
  LET closed(open, p, c, e) ==
        IF e.err # "" THEN e
        ELSE Built(PrepareBlock(open.node, p.node, c.node, << e.node >>, Kind(ts, i) = "OPEN_INVERSE"), e.i)
      chained(open, p, c) == IF c.err # "" THEN c ELSE closed(open, p, c, CloseBlock(ts, c.i))
      inside(open, p) == IF p.err # "" THEN p ELSE chained(open, p, InverseChain(ts, p.i))
      opened(open) == IF open.err # "" THEN open ELSE inside(open, OptProgram(ts, open.i))
      marked(tag) == IF tag.err = "" /\ Kind(ts, i) = "OPEN_BLOCK" THEN Got([tag.node EXCEPT !.open = Text(ts, i)], tag.i) ELSE tag
  IN  opened(marked(Tag(ts, i, Intermediate4(ts, i + 1), "CLOSE")))

PartialBlock(ts, i) ==
  LET closed(open, p, e) ==
        IF e.err # "" THEN e
        ELSE Built(PreparePartialBlock(open.node, IF p.node = <<>> THEN EmptyProgram ELSE p.node[1], e.node), e.i)
      inside(open, p) == IF p.err # "" THEN p ELSE closed(open, p, CloseBlock(ts, p.i))
      opened(open) == IF open.err # "" THEN open ELSE inside(open, OptProgram(ts, open.i))
  IN  opened(Tag(ts, i, Call(ts, PartialName(ts, i + 1)), "CLOSE"))

StatementAt(ts, i) ==
  CASE Kind(ts, i) = "OPEN" -> Mustache(ts, i, "CLOSE")
    [] Kind(ts, i) = "OPEN_UNESCAPED" -> Mustache(ts, i, "CLOSE_UNESCAPED")
    [] Kind(ts, i) \in {"OPEN_BLOCK", "OPEN_INVERSE"} -> Block(ts, i)
    [] Kind(ts, i) = "OPEN_RAW_BLOCK" -> RawBlock(ts, i)
    [] Kind(ts, i) = "OPEN_PARTIAL" -> Partial(ts, i)
    [] Kind(ts, i) = "OPEN_PARTIAL_BLOCK" -> PartialBlock(ts, i)
    [] Kind(ts, i) = "CONTENT" -> LET r == Content(ts, i, <<>>) IN Got(ContentNode(r.node), r.i)
    [] Kind(ts, i) \in {"COMMENT", "LONG_COMMENT"} -> Comment(ts, i)

Statements(ts, i, got) ==
  IF Kind(ts, i) \notin StartsStatement THEN Got(got, i)
  ELSE LET read(r) == IF r.err # "" THEN r ELSE Statements(ts, r.i, Append(got, r.node)) IN read(StatementAt(ts, i))

(* yyparse without its last action: a template needs a statement, and nothing may follow *)
Parse(ts) ==
  LET read(r) == IF r.err # "" THEN r ELSE IF r.node = <<>> \/ r.i <= Len(ts) THEN Syntax ELSE Got(r.node[1], r.i)
  IN  read(OptProgram(ts, 1))
=============================================================================
