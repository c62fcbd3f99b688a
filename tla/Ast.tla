-------------------------------- MODULE Ast --------------------------------
(***************************************************************************)
(* The abstract syntax tree (handlebars_ast.c, handlebars_ast_list.c) and  *)
(* what the grammar's actions do to it (handlebars_ast_helpers.c).         *)
(*                                                                         *)
(* A text is a sequence of symbols (module Lexer).  A pointer that may be  *)
(* NULL is a sequence of at most one node; a list of parameters or pairs   *)
(* that is NULL is empty, for the grammar never builds an empty one.  Only *)
(* a program has both: "list" tells whether its list of statements exists. *)
(* Strip flags are the set of the bits that are set.                       *)
(***************************************************************************)
EXTENDS Naturals, Sequences, SequencesExt, Lexer

(* Nodes of expressions *)
PathNode(parts, original, depth, data) ==
  [type |-> "PATH", parts |-> parts, original |-> original, depth |-> depth, data |-> data]
StringNode(value, single) == [type |-> "STRING", value |-> value, single |-> single]
NumberNode(value) == [type |-> "NUMBER", value |-> value]
BooleanNode(value) == [type |-> "BOOLEAN", value |-> value]
UndefinedNode(value) == [type |-> "UNDEFINED", value |-> value]
NullNode(value) == [type |-> "NUL", value |-> value]
HashPair(key, value) == [type |-> "HASH_PAIR", key |-> key, value |-> value]
(* The bracketed form of a segment stands for the text between the brackets *)
StripIdLiteral(s) == IF s # <<>> /\ s[1] = "[" /\ Last(s) = "]" THEN SubSeq(s, 2, Len(s) - 1) ELSE s
PathSegment(part, separator) == [part |-> StripIdLiteral(part), original |-> part, separator |-> separator]
Intermediate(path, params, hash, strip) ==
  [type |-> "INTERMEDIATE", path |-> path, params |-> params, hash |-> hash, strip |-> strip, open |-> <<>>, bp |-> <<>>]
SexprNode(i) == [type |-> "SEXPR", path |-> i.path, params |-> i.params, hash |-> i.hash]

(* Nodes of statements *)
Program(list, statements, chained) ==
  [type |-> "PROGRAM", list |-> list, statements |-> statements, bp |-> <<>>, chained |-> chained]
EmptyProgram == Program(FALSE, <<>>, FALSE)
ContentNode(text) == [type |-> "CONTENT", value |-> text, original |-> text, strip |-> {}]
CommentNode(text, long, strip) == [type |-> "COMMENT", value |-> text, long |-> long, strip |-> strip]
InverseNode(program, chained, strip) == [type |-> "INVERSE", program |-> program, chained |-> chained, strip |-> strip]
BlockNode(i, program, inverse, openStrip, inverseStrip, closeStrip) ==
  [type |-> "BLOCK", path |-> i.path, params |-> i.params, hash |-> i.hash, program |-> program, inverse |-> inverse,
   open_strip |-> openStrip, inverse_strip |-> inverseStrip, close_strip |-> closeStrip, strip |-> {}, decorator |-> FALSE]
RawBlockNode(i, content) ==
  [BlockNode(i, << Program(TRUE, <<content>>, FALSE) >>, <<>>, {}, {}, {}) EXCEPT !.type = "RAW_BLOCK"]
PartialNode(name, params, hash, strip) ==
  [type |-> "PARTIAL", path |-> name, params |-> params, hash |-> hash, indent |-> <<>>, strip |-> strip]
PartialBlockNode(open, program, close) ==
  [type |-> "PARTIAL_BLOCK", path |-> open.path, params |-> open.params, hash |-> open.hash, program |-> <<program>>,
   open_strip |-> open.strip, close_strip |-> close.strip, strip |-> {}]

(* What a block and its end are compared by *)
StringModeValue(n) ==
  CASE n.type = "PATH" -> n.original
    [] n.type \in {"STRING", "NUMBER", "BOOLEAN", "UNDEFINED", "NUL"} -> n.value
    [] OTHER -> <<>>

(***************************************************************************)
(* handlebars_ast_helpers.c                                                *)
(***************************************************************************)

(* The "~" behind the opening and before the closing braces *)
StripFlags(open, close) ==
  {"set"} \union (IF Len(open) >= 3 /\ open[3] = "~" THEN {"left"} ELSE {})
          \union (IF Len(close) >= 3 /\ close[Len(close) - 2] = "~" THEN {"right"} ELSE {})

(* The number of symbols before the text of a comment *)
StripCommentLeft(c) ==
  LET a == IF At(c, 3, <<"~">>) THEN 3 ELSE 2
      b == a + 1 + SpanWhile(c, a + 2, LAMBDA x : x = "-")
  IN  IF At(c, 1, <<"{", "{">>) /\ At(c, a + 1, <<"!">>) THEN Min({b, a + 3}) ELSE 0

(* The number of symbols up to the end of the text of a comment *)
StripCommentRight(c) ==
  LET n == Len(c)
      a == IF n > 2 /\ c[n - 2] = "~" THEN n - 3 ELSE n - 2
      b == IF a > 0 /\ c[a] = "-" THEN a - 1 ELSE a
      d == IF b < a /\ b > 0 /\ c[b] = "-" THEN b - 1 ELSE b
  IN  IF n < 2 \/ c[n] # "}" \/ c[n - 1] # "}" THEN n ELSE d

(***************************************************************************)
(* The result of a step of the parser: a node, an error that was thrown,   *)
(* or the program's crash: a comment of a single dash is cut at an end     *)
(* that lies before its start, so that its length underflows.              *)
(***************************************************************************)
Ok(n) == [err |-> "", node |-> n]
Err(e) == [err |-> e]

StripComment(c) ==
  LET start == StripCommentLeft(c)
      len == StripCommentRight(c)
  IN  IF start > len THEN Err("crash") ELSE Ok(SubSeq(c, start + 1, len))

PrepareMustache(i, open, strip) ==
  LET c == IF Len(open) >= 4 THEN open[4] ELSE IF Len(open) >= 3 THEN open[3] ELSE ""
  IN  [type |-> "MUSTACHE", path |-> i.path, params |-> i.params, hash |-> i.hash, strip |-> strip,
       unescaped |-> IF c = "{" THEN 1 ELSE IF c = "&" THEN 3 ELSE 0, decorator |-> Contains(open, "*")]

(* Only a path's leading ".", ".." and "this" are dropped from its parts; elsewhere they are errors *)
Relative == {<<".">>, <<".", ".">>, <<"this">>}
IsRelative(s) == s.part = s.original /\ s.part \in Relative
PreparePath(segments, data) ==
  LET named == SelectSeq(segments, LAMBDA s : ~IsRelative(s))
      misplaced == \E j, k \in DOMAIN segments : j < k /\ ~IsRelative(segments[j]) /\ IsRelative(segments[k])
      original == FlattenSeq([k \in DOMAIN segments |-> segments[k].separator \o segments[k].part])
      depth == Len(SelectSeq(segments, LAMBDA s : IsRelative(s) /\ s.part = <<".", ".">>))
  IN  IF misplaced THEN Err("Invalid path")
      ELSE Ok(PathNode(named, (IF data THEN <<"@">> ELSE <<>>) \o original, depth, data))

Matches(open, close) == close.type # "INTERMEDIATE" \/ StringModeValue(open.path) = StringModeValue(close.path)

(* "close" is the end of the block or, in a chain, the inverse that follows *)
PrepareBlock(open, program, inverseAndProgram, close, inverted) ==
  LET decorator == Contains(open.open, "*")
      body == [(IF program = <<>> THEN EmptyProgram ELSE program[1]) EXCEPT !.bp = open.bp]
      inv == IF inverseAndProgram = <<>> THEN <<>> ELSE << inverseAndProgram[1].program >>
      chained == inverseAndProgram # <<>> /\ inverseAndProgram[1].chained
      closed == IF chained THEN << [inv[1] EXCEPT !.statements[1].close_strip = close[1].strip] >> ELSE inv
      invStrip == IF inverseAndProgram = <<>> THEN {} ELSE inverseAndProgram[1].strip
      closeStrip == IF close = <<>> THEN {} ELSE close[1].strip
  IN  IF close # <<>> /\ ~Matches(open, close[1]) THEN Err("doesn't match")
      ELSE IF inverseAndProgram # <<>> /\ decorator THEN Err("Unexpected inverse block on decorator")
      ELSE Ok([BlockNode(open, IF inverted THEN closed ELSE <<body>>, IF inverted THEN <<body>> ELSE closed,
                         open.strip, invStrip, closeStrip) EXCEPT !.decorator = decorator])

PrepareInverseChain(open, program, chain) ==
  LET block == PrepareBlock(open, program, chain, chain, FALSE)
  IN  IF block.err # "" THEN block
      ELSE Ok(InverseNode(Program(TRUE, << block.node >>, TRUE), TRUE, open.strip))

PreparePartialBlock(open, program, close) ==
  IF Matches(open, close) THEN Ok(PartialBlockNode(open, program, close)) ELSE Err("doesn't match")

PrepareRawBlock(open, content, close) ==
  IF open.path.original = close THEN Ok(RawBlockNode(open, ContentNode(content))) ELSE Err("doesn't match")
=============================================================================
