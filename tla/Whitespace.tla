----------------------------- MODULE Whitespace -----------------------------
(***************************************************************************)
(* Whitespace control (handlebars_whitespace.c, handlebars_scanners.c):    *)
(* the pass over a parsed template that removes the blanks a "~" asks for  *)
(* and the lines that hold nothing but a tag.                              *)
(*                                                                         *)
(* The code changes the nodes in place; an operator here yields the node   *)
(* it leaves.  k is the position of a statement in its program, 0 the      *)
(* missing statement that stands for the inner edge of the program.  A     *)
(* program without a list of statements that is trimmed is a crash: the    *)
(* list is read through a null pointer.                                    *)
(***************************************************************************)
EXTENDS Ast

IsContent(n) == n.type = "CONTENT"

(* The scanners: only blanks up to the end of a line, or to the end of the text if "def" *)
ScannerNextWhitespace(s, def) ==
  LET n == SpanWhile(s, 1, LAMBDA c : c \in Blank) IN IF n = Len(s) THEN def ELSE s[n + 1] = NL
\* Mutant: a text of blanks starts a line wherever it stands
ScannerPrevWhitespaceMutant(s, def) ==
  LET solid == {k \in DOMAIN s : s[k] \notin Blank} IN solid = {} \/ s[Max(solid)] = NL
ScannerPrevWhitespace(s, def) ==
  LET solid == {k \in DOMAIN s : s[k] \notin Blank} IN IF solid = {} THEN def ELSE s[Max(solid)] = NL

NextOf(p, k) == IF k + 1 \in DOMAIN p.statements THEN k + 1 ELSE 0
PrevOf(p, k) == IF k = 0 THEN Len(p.statements) ELSE k - 1

IsNextWhitespace(p, k, root) ==
  LET n == NextOf(p, k)
  IN  IF ~p.list \/ n = 0 THEN root
      ELSE IsContent(p.statements[n])
           /\ ScannerNextWhitespace(p.statements[n].original, n = Len(p.statements) /\ root)
IsPrevWhitespace(p, k, root) ==
  LET n == PrevOf(p, k)
  IN  IF ~p.list \/ n = 0 THEN root
      ELSE IsContent(p.statements[n]) /\ ScannerPrevWhitespace(p.statements[n].original, n = 1 /\ root)

(* handlebars_string_ltrim, handlebars_string_rtrim *)
LTrim(s, chars) == SubSeq(s, SpanWhile(s, 1, LAMBDA c : c \in chars) + 1, Len(s))
RTrim(s, chars) == SubSeq(s, 1, Max({0} \union {k \in DOMAIN s : s[k] \notin chars}))

Stripped(n, value, flag) ==
  [n EXCEPT !.value = value,
            !.strip = {"set"} \union (IF value = n.value THEN @ \ {flag} ELSE @ \union {flag})]

Crash(p) == [p EXCEPT !.type = "CRASH"]

\* Mutant: a program without statements is left alone
OmitLeftMutant(p, k, multiple) ==
  LET n == PrevOf(p, k)
      c == p.statements[n]
  IN  IF ~p.list \/ n = 0 \/ ~IsContent(c) \/ (~multiple /\ "left_stripped" \in c.strip) THEN p
      ELSE [p EXCEPT !.statements[n] = Stripped(c, RTrim(c.value, IF multiple THEN White ELSE Blank), "left_stripped")]
(* The text before statement k, or at the end of the program, loses its blanks at its end *)
OmitLeft(p, k, multiple) ==
  LET n == PrevOf(p, k)
      c == p.statements[n]
  IN  IF ~p.list THEN Crash(p)
      ELSE IF n = 0 \/ ~IsContent(c) \/ (~multiple /\ "left_stripped" \in c.strip) THEN p
      ELSE [p EXCEPT !.statements[n] = Stripped(c, RTrim(c.value, IF multiple THEN White ELSE Blank), "left_stripped")]
DidOmitLeft(p, k) ==
  LET q == OmitLeft(p, k, FALSE) IN q # p /\ "left_stripped" \in q.statements[PrevOf(q, k)].strip

(* The text behind statement k, or at the start of the program, loses its blanks and at most one line end *)
OmitRight(p, k, multiple) ==
  LET n == NextOf(p, k)
      c == p.statements[n]
      line == LTrim(c.value, Blank)
      rest == IF line # <<>> /\ line[1] = NL THEN Tail(line) ELSE line
  IN  IF ~p.list THEN Crash(p)
      ELSE IF n = 0 \/ ~IsContent(c) \/ (~multiple /\ "right_stripped" \in c.strip) THEN p
      ELSE [p EXCEPT !.statements[n] = Stripped(c, IF multiple THEN LTrim(c.value, White) ELSE rest, "right_stripped")]

OmitLeftIf(cond, p, k, multiple) == IF cond THEN OmitLeft(p, k, multiple) ELSE p
OmitRightIf(cond, p, k, multiple) == IF cond THEN OmitRight(p, k, multiple) ELSE p

(* Block and raw block: the first program inside a chained inverse *)
FirstOfChain(inverse) ==
  LET s == inverse.statements IN IF s # <<>> /\ s[1].type \in {"BLOCK", "RAW_BLOCK"} THEN s[1].program ELSE <<>>

(* The strip flags of a block: what its outer edges ask for, and whether its inner ones are lines of their own *)
BlockStrip(b, program, edge) ==
  {"set"} \union (b.open_strip \intersect {"left"}) \union (b.close_strip \intersect {"right"})
    \union (IF IsNextWhitespace(program, 0, FALSE) THEN {"open_standalone"} ELSE {})
    \union (IF IsPrevWhitespace(edge, 0, FALSE) THEN {"close_standalone"} ELSE {})

(* The two sides of an inverse tag on a line of its own lose the line; inner is the program behind the tag, if any *)
AroundInverse(b, before, after, inner) ==
  LET alone == inner # <<>> /\ IsPrevWhitespace(before, 0, FALSE) /\ IsNextWhitespace(inner[1], 0, FALSE)
  IN  [b EXCEPT !.program = << OmitLeftIf(alone, before, 0, FALSE) >>,
                !.inverse = IF alone /\ after.chained
                              THEN << [after EXCEPT !.statements[1].program = << OmitRight(inner[1], 0, FALSE) >>] >>
                              ELSE << OmitRightIf(alone, after, 0, FALSE) >>]

(* The program of a block without an inverse *)
OnlyProgram(b, side, p) == [b EXCEPT ![side] = << OmitLeftIf("left" \in b.close_strip, p, 0, TRUE) >>]

(* With an inverse: the close tag trims its end, unless trimming its start has crashed *)
BothPrograms(b, before, after) ==
  LET trimmed(q) == OmitLeftIf("left" \in b.close_strip /\ q.type # "CRASH", q, 0, TRUE)
      around(q) == AroundInverse(b, before, q, IF q.chained THEN FirstOfChain(q) ELSE << q >>)
  IN  around(trimmed(after))

(***************************************************************************)
(* A block whose programs have been visited: its tags trim them, and it    *)
(* notes whether its open and close tags end or start a line inside.       *)
(***************************************************************************)
AcceptedBlock(b) ==
  LET swapped == b.program = <<>>
      program == IF swapped THEN b.inverse[1] ELSE b.program[1]
      inverse == IF swapped THEN <<>> ELSE b.inverse
      firstInverse == IF inverse # <<>> /\ inverse[1].chained THEN FirstOfChain(inverse[1]) ELSE inverse
      stripped == [b EXCEPT !.strip = BlockStrip(b, program, IF firstInverse # <<>> THEN firstInverse[1] ELSE program)]
      opened == OmitRightIf("right" \in b.open_strip, program, 0, TRUE)
  IN  IF inverse = <<>> THEN OnlyProgram(stripped, IF swapped THEN "inverse" ELSE "program", opened)
      ELSE BothPrograms(stripped, OmitLeftIf("left" \in b.inverse_strip, opened, 0, TRUE),
                        OmitRightIf("right" \in b.inverse_strip, inverse[1], 0, TRUE))

(* The indent of a standalone partial: the blanks at the end of the text before it *)
IndentOf(s) == SubSeq(s, Len(RTrim(s, Blank)) + 1, Len(s))

(***************************************************************************)
(* What a visited statement does to its neighbours and to the inner edges  *)
(* of its own programs.                                                    *)
(***************************************************************************)
Edge(b, first, Omit(_)) ==
  LET side == IF first THEN (IF b.program # <<>> THEN "program" ELSE "inverse")
              ELSE (IF b.inverse # <<>> THEN "inverse" ELSE "program")
  IN  IF b.type # "BLOCK" THEN b ELSE [b EXCEPT ![side] = << Omit(@[1]) >>]

(* A statement on a line of its own takes the line with it, and a partial keeps its indent *)
OmitBefore(p, k) ==
  IF p.statements[k].type = "PARTIAL" /\ DidOmitLeft(p, k)
    THEN [OmitLeft(p, k, FALSE) EXCEPT !.statements[k].indent = IndentOf(p.statements[k - 1].original)]
    ELSE OmitLeft(p, k, FALSE)
OmitLine(inline, p, k) == IF inline THEN OmitBefore(OmitRight(p, k, FALSE), k) ELSE p

(* An open tag, and a close tag, on a line of its own *)
OmitOpen(open, p, k) ==
  IF open THEN OmitLeft([p EXCEPT !.statements[k] = Edge(@, TRUE, LAMBDA q : OmitRight(q, 0, FALSE))], k, FALSE) ELSE p
OmitClose(close, p, k) ==
  IF close THEN [OmitRight(p, k, FALSE) EXCEPT !.statements[k] = Edge(@, FALSE, LAMBDA q : OmitLeft(q, 0, FALSE))] ELSE p

AcceptStatement(p, k, root) ==
  LET strip == p.statements[k].strip
      prev == IsPrevWhitespace(p, k, root)
      next == IsNextWhitespace(p, k, root)
      tildes == OmitLeftIf("left" \in strip, OmitRightIf("right" \in strip, p, k, TRUE), k, TRUE)
      inline == OmitLine("inline_standalone" \in strip /\ prev /\ next, tildes, k)
  IN  IF "set" \notin strip THEN p
      ELSE OmitClose("close_standalone" \in strip /\ next, OmitOpen("open_standalone" \in strip /\ prev, inline, k), k)

(* the call that the delimiter preprocessor leaves in the place of a tag that set delimiters *)
SetDelimiters == <<"hbsc_set_delimiters">>

RECURSIVE AcceptProgram(_, _)
RECURSIVE AcceptFrom(_, _, _)

Accept(n) ==
  CASE n.type \in {"BLOCK", "RAW_BLOCK"} ->
         LET inside(q) == [j \in DOMAIN q |-> AcceptProgram(q[j], FALSE)]
         IN  AcceptedBlock([n EXCEPT !.program = inside(@), !.inverse = inside(@)])
    [] n.type \in {"PARTIAL", "COMMENT"} \/ (n.type = "MUSTACHE" /\ StringModeValue(n.path) = SetDelimiters) -> [n EXCEPT !.strip = @ \union {"set", "inline_standalone"}]
    [] OTHER -> n

AcceptFrom(p, k, root) ==
  IF k > Len(p.statements) THEN p
  ELSE AcceptFrom(AcceptStatement([p EXCEPT !.statements[k] = Accept(@)], k, root), k + 1, root)

(* Only the first program of a parser is the root; a partial block's program is not visited *)
AcceptProgram(p, root) == IF p.list THEN AcceptFrom(p, 1, root) ELSE p

RECURSIVE Crashed(_)
Crashed(p) ==
  \/ p.type = "CRASH"
  \/ \E k \in DOMAIN p.statements :
        LET n == p.statements[k]
        IN  /\ n.type \in {"BLOCK", "RAW_BLOCK"}
            /\ \/ \E j \in DOMAIN n.program : Crashed(n.program[j])
               \/ \E j \in DOMAIN n.inverse : Crashed(n.inverse[j])
=============================================================================
