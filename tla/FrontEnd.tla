------------------------------ MODULE FrontEnd ------------------------------
(***************************************************************************)
(* A template on its way through the front end: the delimiters are         *)
(* rewritten (for mustache), the text is scanned rule by rule, parsed, and *)
(* its white space is put in order.  The tree is then printed, written     *)
(* back as a template and read again by a parser of its own, as the        *)
(* repository's test of handlebars_ast_to_string does.                     *)
(*                                                                         *)
(* A template is given by what its author wrote: texts and tags in turn,   *)
(* starting and ending with a text (which may be empty).  A tag is what    *)
(* stands between the delimiters, with its kind, its name and its "~"s; a  *)
(* piece of kind "verbatim" is template text that is not described any     *)
(* further.                                                                *)
(***************************************************************************)
EXTENDS Integers, Delimiters, Parser, Whitespace, AstPrinter

CONSTANT Templates   \* records of the pieces, and whether the template is a mustache one

VARIABLES
  template,  \* what the author wrote
  phase,     \* "delimiters", "scan", "parse", "space", "print", "rescan", "reparse", "respace", "done", "error", "crash"
  pre,       \* the delimiter preprocessor
  scanner,   \* the scanner, of the first or of the second parser
  tree,      \* the program the parser built
  first      \* the tree of the first parser, once it is printed
vars == <<template, phase, pre, scanner, tree, first>>

(***************************************************************************)
(* The text of the pieces, written with the delimiters in force.           *)
(***************************************************************************)
TagText(p, open, close) ==
  open \o Words(p.left, <<"~">>) \o p.src \o Words(p.right, <<"~">>) \o close
Write(acc, p) ==
  CASE p.kind \in {"text", "verbatim"} -> [acc EXCEPT !.out = @ \o p.src]
    [] p.kind = "delims" ->
         [out |-> acc.out \o acc.open \o <<"=">> \o p.to[1] \o <<" ">> \o p.to[2] \o <<"=">> \o acc.close,
          open |-> p.to[1], close |-> p.to[2]]
    [] OTHER -> [acc EXCEPT !.out = @ \o TagText(p, acc.open, acc.close)]
Source(pieces) == FoldLeft(Write, [out |-> <<>>, open |-> <<"{", "{">>, close |-> <<"}", "}">>], pieces).out

(***************************************************************************)
(* The steps.                                                              *)
(***************************************************************************)
Init ==
  /\ template \in Templates
  /\ phase = IF template.mustache THEN "delimiters" ELSE "scan"
  /\ pre = Preprocessor(Source(template.pieces))
  /\ scanner = Scanner(Source(template.pieces))
  /\ tree = EmptyProgram
  /\ first = EmptyProgram

Preprocess ==
  /\ phase = "delimiters"
  /\ \/ ~Preprocessed(pre) /\ pre' = PreprocessStep(pre) /\ UNCHANGED <<phase, scanner>>
     \/ /\ Preprocessed(pre) /\ UNCHANGED pre
        /\ phase' = IF pre.err = "" THEN "scan" ELSE IF pre.err = "crash" THEN "crash" ELSE "error"
        /\ scanner' = Scanner(pre.out)
  /\ UNCHANGED <<template, tree, first>>

(* The parser asks for a token at a time; what it reads does not depend on what it has built *)
Scan ==
  /\ phase \in {"scan", "rescan"}
  /\ \/ ~ScanOver(scanner) /\ scanner' = ScanRule(scanner) /\ UNCHANGED phase
     \/ ScanOver(scanner) /\ phase' = (IF phase = "scan" THEN "parse" ELSE "reparse") /\ UNCHANGED scanner
  /\ UNCHANGED <<template, pre, tree, first>>

Reduce(r) ==
  \/ /\ r.err = "" /\ tree' = r.node
     /\ phase' = IF phase = "parse" THEN "space" ELSE "respace"
  \/ r.err # "" /\ phase' = (IF r.err = "crash" THEN "crash" ELSE "error") /\ UNCHANGED tree

ParseTokens ==
  /\ phase \in {"parse", "reparse"}
  /\ Reduce(Parse(scanner.tokens))
  /\ UNCHANGED <<template, pre, scanner, first>>

AcceptWhitespace ==
  /\ phase \in {"space", "respace"}
  /\ tree' = AcceptProgram(tree, TRUE)
  /\ phase' = IF Crashed(tree') THEN "crash" ELSE IF phase = "space" THEN "print" ELSE "done"
  /\ UNCHANGED <<template, pre, scanner, first>>

PrintTree ==
  /\ phase = "print"
  /\ first' = tree
  /\ scanner' = Scanner(ToStringProgram(tree, FALSE))
  /\ phase' = "rescan"
  /\ UNCHANGED <<template, pre, tree>>

Ended == phase \in {"done", "error", "crash"}
Over == Ended /\ UNCHANGED vars

Next == Preprocess \/ Scan \/ ParseTokens \/ AcceptWhitespace \/ PrintTree \/ Over

(***************************************************************************)
(* The front end is sequential code that runs to its end: as long as it is *)
(* not over, it takes steps.  (This is WF_vars(Next), with ENABLED of Next *)
(* written as what it is.)                                                 *)
(***************************************************************************)
Spec == Init /\ [][Next]_vars /\ ([]<>Ended \/ []<><<Next>>_vars)

(***************************************************************************)
(* What the author meant, told from the pieces alone.  A tag that may      *)
(* stand on a line of its own does so when there is nothing but blanks on  *)
(* its line; the line then disappears.  A "~" takes all the white space on *)
(* its side.                                                               *)
(***************************************************************************)
OwnLine == {"comment", "partial", "open", "inverted", "else", "close", "delims"}
Blanks(t, i, j) == \A k \in i .. j : t[k] \in Blank
StartsLine(ps, k) ==
  LET t == ps[k - 1].src
  IN  (k = 2 /\ Blanks(t, 1, Len(t))) \/ \E i \in DOMAIN t : t[i] = NL /\ Blanks(t, i + 1, Len(t))
EndsLine(ps, k) ==
  LET t == ps[k + 1].src
  IN  (k + 1 = Len(ps) /\ Blanks(t, 1, Len(t))) \/ \E i \in DOMAIN t : t[i] = NL /\ Blanks(t, 1, i - 1)
Alone(ps, k) == ps[k].kind \in OwnLine /\ StartsLine(ps, k) /\ EndsLine(ps, k)

(* The number of symbols a text loses at its start to the tag before it, and at its end to the tag behind it *)
LostAtStart(ps, k) ==
  LET t == ps[k].src
      blank == SpanWhile(t, 1, LAMBDA c : c \in Blank)
  IN  IF k = 1 THEN 0
      ELSE IF ps[k - 1].right THEN SpanWhile(t, 1, LAMBDA c : c \in White)
      ELSE IF Alone(ps, k - 1) THEN (IF blank = Len(t) THEN blank ELSE blank + 1) ELSE 0
LostAtEnd(ps, k) ==
  LET t == Reverse(ps[k].src)
  IN  IF k = Len(ps) THEN 0
      ELSE IF ps[k + 1].left THEN SpanWhile(t, 1, LAMBDA c : c \in White)
      ELSE IF Alone(ps, k + 1) THEN SpanWhile(t, 1, LAMBDA c : c \in Blank) ELSE 0

Leaf(kind, what, indent) == [kind |-> kind, what |-> what, indent |-> indent]
Meant(ps) ==
  LET text(k) == SubSeq(ps[k].src, LostAtStart(ps, k) + 1, Len(ps[k].src) - LostAtEnd(ps, k))
      indent(k) == IF ps[k].kind = "partial" /\ Alone(ps, k) /\ ~ps[k].left
                     THEN Reverse(SubSeq(Reverse(ps[k - 1].src), 1, LostAtEnd(ps, k - 1))) ELSE <<>>
      kept == SelectSeq([k \in DOMAIN ps |-> k], LAMBDA k : ps[k].kind # "text" \/ ps[k].src # <<>>)
  IN  [j \in DOMAIN kept |->
         LET k == kept[j]
         IN  IF ps[k].kind = "text" THEN Leaf("text", text(k), <<>>) ELSE Leaf(ps[k].kind, ps[k].name, indent(k))]

(* The leaves of a tree, in the order of the template *)
RECURSIVE Leaves(_)
LeavesOf(n) ==
  CASE n.type = "CONTENT" -> << Leaf("text", n.value, <<>>) >>
    [] n.type = "COMMENT" -> << Leaf("comment", n.value, <<>>) >>
    [] n.type = "PARTIAL" -> << Leaf("partial", StringModeValue(n.path), n.indent) >>
    [] n.type = "MUSTACHE" ->
         IF StringModeValue(n.path) = SetDelimiters
           THEN << Leaf("delims", n.params[1].value \o n.params[2].value, <<>>) >>
           ELSE << Leaf("mustache", StringModeValue(n.path), <<>>) >>
    [] n.type = "BLOCK" ->
         LET name == StringModeValue(n.path)
         IN  << Leaf(IF n.program = <<>> THEN "inverted" ELSE "open", name, <<>>) >>
             \o Words(n.program # <<>>, Leaves(n.program[1]))
             \o Words(n.program # <<>> /\ n.inverse # <<>>, << Leaf("else", <<>>, <<>>) >>)
             \o Words(n.inverse # <<>>, Leaves(n.inverse[1])) \o << Leaf("close", name, <<>>) >>
Leaves(p) == FlattenSeq([k \in DOMAIN p.statements |-> LeavesOf(p.statements[k])])

Described == \A k \in DOMAIN template.pieces : template.pieces[k].kind # "verbatim"

(***************************************************************************)
(* A well-formed template is read, and its tree says what its author       *)
(* wrote: the same tags in the same order, and between them the same text  *)
(* but for the lines of tags that stand alone and the white space next to  *)
(* a "~".  In a mustache template this is so whatever delimiters it set.   *)
(***************************************************************************)
AsWritten ==
  Described => /\ phase # "error"
               /\ phase \in {"print", "done"} => Leaves(tree) = Meant(template.pieces)

(***************************************************************************)
(* What ast_to_string cannot write back.                                   *)
(***************************************************************************)
RECURSIVE LossyExpr(_)
LossyCall(n) ==
  \/ LossyExpr(n.path)
  \/ \E k \in DOMAIN n.params : LossyExpr(n.params[k])
  \/ \E k \in DOMAIN n.hash : LossyExpr(n.hash[k].value)
LossyExpr(n) ==
  CASE n.type = "PATH" -> \E k \in DOMAIN n.parts : n.parts[k].part # n.parts[k].original
    [] n.type = "STRING" -> Contains(n.value, "\\")
    [] n.type = "SEXPR" -> LossyCall(n)
    [] OTHER -> FALSE

(* A partial's arguments are written as if they stood outside of any call: a subexpression without its parentheses *)
BareCall(n) ==
  \/ \E k \in DOMAIN n.params : n.params[k].type = "SEXPR"
  \/ \E k \in DOMAIN n.hash : n.hash[k].value.type = "SEXPR"

RECURSIVE Lossy(_)
(* brackets; backslashes; chained inverses; block parameters; a partial's or partial block's name, parameters
   and hash values that are subexpressions, and its further parameters *)
LossyStatement(n) ==
  CASE n.type = "CONTENT" -> Contains(n.original, "\\")
    [] n.type = "MUSTACHE" -> LossyCall(n)
    [] n.type = "PARTIAL" -> LossyCall(n) \/ BareCall(n) \/ Len(n.params) > 1 \/ n.path.type = "SEXPR"
    [] n.type = "PARTIAL_BLOCK" -> LossyCall(n) \/ BareCall(n) \/ n.params # <<>> \/ n.path.type = "SEXPR" \/ Lossy(n.program[1])
    [] n.type = "COMMENT" -> FALSE
    [] OTHER -> \/ LossyCall(n)
                \/ \E k \in DOMAIN n.program : Lossy(n.program[k])
                \/ \E k \in DOMAIN n.inverse : Lossy(n.inverse[k])
Lossy(p) == p.chained \/ p.bp # <<>> \/ \E k \in DOMAIN p.statements : LossyStatement(p.statements[k])


(***************************************************************************)
(* The front end reads through a null pointer or behind a text exactly in  *)
(* three cases: a "~" faces a body without statements, a comment consists  *)
(* of a single dash, new delimiters lack the closing one.                  *)
(***************************************************************************)
FacesEmptyBody(ps) ==
  \E k \in DOMAIN ps :
    /\ ps[k].kind \in {"open", "inverted", "else"} /\ ps[k + 1].src = <<>> /\ ps[k + 2].kind \in {"else", "close"}
    /\ ps[k].right \/ ps[k + 2].left
CrashesKnown ==
  Described =>
    LET ps == template.pieces
        known == \/ FacesEmptyBody(ps)
                 \/ \E k \in DOMAIN ps : ps[k].src = <<"!", "-">> \/ (ps[k].kind = "delims" /\ ps[k].to[2] = <<>>)
    IN  (phase = "crash" => known) /\ (phase \in {"print", "done"} => ~known)

(***************************************************************************)
(* Every template, well-formed or not, is done with: the rules that take   *)
(* no symbol (an escaped tag, the start of a tag or of a comment) never    *)
(* follow one another for ever.                                            *)
(***************************************************************************)
EveryTemplateEnds == <>Ended
=============================================================================
