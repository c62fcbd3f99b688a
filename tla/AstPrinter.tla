----------------------------- MODULE AstPrinter -----------------------------
(***************************************************************************)
(* The two printers of trees (handlebars_ast_printer.c).                   *)
(*                                                                         *)
(* handlebars_ast_to_string turns a tree back into a template: its output  *)
(* is a sequence of symbols, as a template is.  handlebars_ast_print       *)
(* shows the structure of a tree: its output is a sequence of pieces, in   *)
(* which <<"pad", n>> is the indentation of a line.                        *)
(***************************************************************************)
EXTENDS Ast, Integers

Words(cond, s) == IF cond THEN s ELSE <<>>

(***************************************************************************)
(* handlebars_ast_to_string                                                *)
(***************************************************************************)
Tilde(flag, strip) == Words(flag \in strip, <<"~">>)

(* handlebars_string_addcslashes of one quote *)
Slashed(s, q) == FlattenSeq([k \in DOMAIN s |-> IF s[k] = q THEN <<"\\", q>> ELSE <<s[k]>>])
(* handlebars_str_replace of "{{" by "\{{", from the left *)
RECURSIVE EscapeTags(_)
EscapeTags(s) ==
  LET k == FindFrom(s, 1, <<"{", "{">>)
  IN  IF k = 0 THEN s ELSE SubSeq(s, 1, k - 1) \o <<"\\", "{", "{">> \o EscapeTags(SubSeq(s, k + 2, Len(s)))

Spaced(parts) == FlattenSeq([k \in DOMAIN parts |-> Words(k > 1, <<" ">>) \o parts[k]])

RECURSIVE ToStringExpr(_, _)
ToStringCall(path, params, hash, depth) ==
  LET pairs == [k \in DOMAIN hash |-> hash[k].key \o <<"=">> \o ToStringExpr(hash[k].value, depth + 1)]
  IN  Words(depth > 0, <<"(">>) \o ToStringExpr(path, depth + 1)
      \o Words(params # <<>>, <<" ">> \o Spaced([k \in DOMAIN params |-> ToStringExpr(params[k], depth + 1)]))
      \o Words(hash # <<>>, <<" ">> \o Spaced(pairs)) \o Words(depth > 0, <<")">>)

(* depth counts the calls around an expression: all but the outermost are written with parentheses *)
ToStringExpr(n, depth) ==
  CASE n.type = "PATH" -> n.original
    [] n.type = "STRING" ->
         LET q == IF n.single THEN "'" ELSE "\"" IN <<q>> \o Slashed(n.value, q) \o <<q>>
    [] n.type \in {"NUMBER", "BOOLEAN"} -> n.value
    [] n.type = "UNDEFINED" -> <<"undefined">>
    [] n.type = "NUL" -> <<"null">>
    [] n.type = "SEXPR" -> ToStringCall(n.path, n.params, n.hash, depth)

ToStringMustache(n) ==
  <<"{", "{">> \o Tilde("left", n.strip) \o Words(n.unescaped = 1, <<"{">>) \o Words(n.unescaped = 3, <<"&">>)
    \o Words(n.decorator, <<"*">>) \o ToStringCall(n.path, n.params, n.hash, 0)
    \o Words(n.unescaped = 1, <<"}">>) \o Tilde("right", n.strip) \o <<"}", "}">>

(* Only the first parameter is written *)
ToStringPartial(n) ==
  <<"{", "{">> \o Tilde("left", n.strip) \o <<">">> \o ToStringExpr(n.path, 0)
    \o Words(n.params # <<>>, <<" ">> \o ToStringExpr(n.params[1], 0))
    \o Words(n.hash # <<>>, <<" ">> \o Spaced([k \in DOMAIN n.hash |-> n.hash[k].key \o <<"=">> \o ToStringExpr(n.hash[k].value, 0)]))
    \o Tilde("right", n.strip) \o <<"}", "}">>

ToStringComment(n) ==
  <<"{", "{">> \o Tilde("left", n.strip) \o <<"!">> \o Words(n.long, Dashes) \o n.value \o Words(n.long, Dashes)
    \o Tilde("right", n.strip) \o <<"}", "}">>

ToStringContent(n, raw) == IF raw THEN n.original ELSE EscapeTags(n.original)

RECURSIVE ToStringProgram(_, _)
(* The end of a raw block or of a block with a program ends raw text for what follows *)
ToStringBlock(n) ==
  LET raw == n.type = "RAW_BLOCK"
      bp == n.program[1].bp
      inverted == n.program = <<>>
  IN  Words(raw, <<"{", "{">>) \o <<"{", "{">> \o Tilde("left", n.open_strip)
      \o (IF inverted THEN <<"^">> ELSE Words(~raw, <<"#">>) \o Words(n.decorator, <<"*">>))
      \o ToStringCall(n.path, n.params, n.hash, 0)
      \o Words(~inverted /\ bp # <<>>, <<"as", " ", "|">> \o Spaced(bp) \o <<"|">>)
      \o Tilde("right", n.open_strip) \o <<"}", "}">> \o Words(raw, <<"}", "}">>)
      \o Words(~inverted, ToStringProgram(n.program[1], raw))
      \o Words(~inverted /\ n.inverse # <<>>,
               <<"{", "{">> \o Tilde("left", n.inverse_strip) \o <<"^">> \o Tilde("right", n.inverse_strip) \o <<"}", "}">>)
      \o Words(n.inverse # <<>>, ToStringProgram(n.inverse[1], raw))
      \o Words(raw, <<"{", "{">>) \o <<"{", "{">> \o Tilde("left", n.close_strip) \o <<"/">>
      \o ToStringExpr(n.path, 0) \o Tilde("right", n.close_strip) \o <<"}", "}">> \o Words(raw, <<"}", "}">>)

(* No blank before the parameters, and no "~" *)
ToStringPartialBlock(n) ==
  <<"{", "{", "#", ">", " ">> \o ToStringExpr(n.path, 0) \o FlattenSeq([k \in DOMAIN n.params |-> ToStringExpr(n.params[k], 0)])
    \o Words(n.hash # <<>>, <<" ">> \o Spaced([k \in DOMAIN n.hash |-> n.hash[k].key \o <<"=">> \o ToStringExpr(n.hash[k].value, 0)]))
    \o <<"}", "}">> \o ToStringProgram(n.program[1], FALSE) \o <<"{", "{", "/">> \o ToStringExpr(n.path, 0) \o <<"}", "}">>

ToStringStatement(n, raw) ==
  CASE n.type = "MUSTACHE" -> ToStringMustache(n)
    [] n.type \in {"BLOCK", "RAW_BLOCK"} -> ToStringBlock(n)
    [] n.type = "PARTIAL" -> ToStringPartial(n)
    [] n.type = "PARTIAL_BLOCK" -> ToStringPartialBlock(n)
    [] n.type = "COMMENT" -> ToStringComment(n)
    [] n.type = "CONTENT" -> ToStringContent(n, raw)
ToStringProgram(p, raw) == FlattenSeq([k \in DOMAIN p.statements |-> ToStringStatement(p.statements[k], raw)])

(***************************************************************************)
(* handlebars_ast_print.  A printer holds the output, the indentation and  *)
(* whether the name of a partial is being printed.  A program decreases    *)
(* the indentation once more than the node around it increased it.         *)
(***************************************************************************)
Printer == [out |-> <<>>, padding |-> 0, partial |-> FALSE]
Put(c, pieces) == [c EXCEPT !.out = @ \o pieces]
PadHead(c) == Put(c, Words(c.padding > 0 /\ c.padding < 16, << <<"pad", c.padding>> >>))
PadFoot(c) == Put(c, << <<"line">> >>)
Pad(c, pieces) == PadFoot(Put(PadHead(c), pieces))
Indent(c, d) == [c EXCEPT !.padding = @ + d]

RECURSIVE PrintNode(_, _)
RECURSIVE PrintList(_, _, _, _)
(* The nodes of list from k on, with sep between them *)
PrintList(c, list, k, sep) ==
  IF k > Len(list) THEN c
  ELSE PrintList(Put(PrintNode(c, list[k]), Words(k < Len(list), sep)), list, k + 1, sep)

PrintHash(c, hash) ==
  LET d == Put([c EXCEPT !.partial = FALSE], << <<"HASH{">> >>)
  IN  [Put(PrintList(d, hash, 1, << <<", ">> >>), << <<"}">> >>) EXCEPT !.partial = c.partial]

PrintCall(c, n) ==
  LET d == Put(PrintList(Put(PrintNode(c, n.path), << <<" [">> >>), n.params, 1, << <<", ">> >>), << <<"]">> >>)
  IN  IF n.hash = <<>> THEN d ELSE PrintHash(Put(d, << <<" ">> >>), n.hash)

PrintProgram(c, p) ==
  LET d == IF p.bp = <<>> THEN c ELSE Pad(c, << <<"BLOCK PARAMS:">> >> \o p.bp)
  IN  Indent(PrintList(d, p.statements, 1, <<>>), -1)

PrintMustache(c, n) ==
  PadFoot(Put(PrintCall(Put(PadHead(c), << <<"{{ ">> >> \o Words(n.decorator, << <<"DIRECTIVE ">> >>)), n), << <<" }}">> >>))

PrintBlock(c, n) ==
  LET c1 == Indent(Pad(c, << IF n.decorator THEN <<"DIRECTIVE BLOCK:">> ELSE <<"BLOCK:">> >>), 1)
      c2 == PadFoot(PrintCall(PadHead(c1), n))
      c3 == IF n.program = <<>> THEN c2
            ELSE Indent(PrintProgram(Indent(Pad(c2, << <<"PROGRAM:">> >>), 1), n.program[1]), -1)
      d == IF n.program = <<>> THEN 0 ELSE 1
      c4 == IF n.inverse = <<>> THEN c3
            ELSE Indent(PrintProgram(Indent(Pad(Indent(c3, d), << <<"{{^}}">> >>), 1), n.inverse[1]), -1 - d)
  IN  Indent(c4, -1)

PrintPartial(c, n) ==
  LET c1 == Put(PadHead(c), << <<"{{> PARTIAL:">> >>)
      c2 == [PrintNode([c1 EXCEPT !.partial = TRUE], n.path) EXCEPT !.partial = FALSE]
      c3 == IF n.params = <<>> THEN c2 ELSE PrintNode(Put(c2, << <<" ">> >>), n.params[1])
      c4 == IF n.hash = <<>> THEN c3 ELSE PrintHash(Put(c3, << <<" ">> >>), n.hash)
  IN  PadFoot(Put(c4, << <<" }}">> >>))

PrintPartialBlock(c, n) ==
  LET c1 == [Indent(Put(PadHead(c), << <<"{{> PARTIAL BLOCK:">> >>), 1) EXCEPT !.partial = TRUE]
      c2 == PrintNode(c1, n.path)
      c3 == IF n.params = <<>> THEN c2 ELSE PrintList(Put(c2, << <<" PATH:">> >>), n.params, 1, <<>>)
      c4 == IF n.hash = <<>> THEN c3 ELSE PrintHash(Put(c3, << <<" ">> >>), n.hash)
      c5 == PrintProgram(PadFoot(Put(c4, << <<" PROGRAM:">> >>)), n.program[1])
  IN  PadFoot(Put(Indent([c5 EXCEPT !.partial = FALSE], -1), << <<" }}">> >>))

PrintText(c, kind, text) == Pad(c, << <<kind>>, text >>)
PrintLiteral(c, kind, text) == Put(c, IF c.partial THEN << text >> ELSE << <<kind>>, text, <<"end">> >>)

PrintPath(c, n) ==
  Put(c, Words(n.data, << <<"@">> >>) \o Words(~c.partial, << <<"PATH:">> >>)
         \o FlattenSeq([k \in DOMAIN n.parts |-> Words(k > 1, << n.parts[k].separator >>) \o << n.parts[k].part >>]))

PrintNode(c, n) ==
  CASE n.type = "MUSTACHE" -> PrintMustache(c, n)
    [] n.type \in {"BLOCK", "RAW_BLOCK"} -> PrintBlock(c, n)
    [] n.type = "PARTIAL" -> PrintPartial(c, n)
    [] n.type = "PARTIAL_BLOCK" -> PrintPartialBlock(c, n)
    [] n.type = "CONTENT" -> PrintText(c, "CONTENT[", n.value)
    [] n.type = "COMMENT" -> PrintText(c, "{{!", n.value)
    [] n.type = "SEXPR" -> PrintCall(c, n)
    [] n.type = "HASH_PAIR" -> PrintNode(Put(c, << n.key, <<"=">> >>), n.value)
    [] n.type \in {"STRING", "NUMBER"} -> PrintLiteral(c, n.type, n.value)
    [] n.type = "BOOLEAN" -> PrintLiteral([c EXCEPT !.partial = FALSE], n.type, n.value)
    [] n.type \in {"UNDEFINED", "NUL"} -> Put(c, << <<n.type>> >>)
    [] n.type = "PATH" -> PrintPath(c, n)

(* the output without the white space at its end *)
AstPrint(p) == PrintProgram(Printer, p).out
=============================================================================
