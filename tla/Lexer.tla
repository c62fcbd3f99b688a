------------------------------- MODULE Lexer -------------------------------
(***************************************************************************)
(* The scanner of templates (handlebars.l, generated as handlebars.lex.c). *)
(*                                                                         *)
(* A text is a sequence of symbols: a punctuation mark is a symbol of its  *)
(* own, and a run of letters or digits that no rule looks into is one word *)
(* (an identifier may consist of several words in a row: "else" followed   *)
(* by "where").  NL is the end of a line.                                  *)
(*                                                                         *)
(* As in flex, the rules of the current start condition compete: the one   *)
(* with the longest match (trailing context included) is taken, and among  *)
(* those of equal length the first.  A rule is a record of the length that *)
(* competes, the length it consumes, the token it returns ("" for none),   *)
(* the text of the token, and what it does to the stack of start           *)
(* conditions.                                                             *)
(***************************************************************************)
EXTENDS Naturals, Sequences, SequencesExt

NL == "NL"
Blank == {" ", "TAB"}
White == Blank \union {NL}
Marks == {"{", "}", "~", "#", "/", "^", ">", "&", "*", "!", "(", ")", "=", ".", "@", "|", "[", "]",
          "\\", "\"", "'", "%", "<"} \union White

(* [IDC]: what identifiers consist of; a dash is one of them *)
IsIdChar(c) == c \notin Marks
Lookahead == {"=", "~", "}", "/", ".", ")", "|"} \union White
LiteralLookahead == {"~", "}", ")"} \union White

(* The length of the longest prefix of t[i..] whose symbols satisfy P *)
SpanWhile(t, i, P(_)) ==
  LET stop == {k \in i .. Len(t) : ~P(t[k])}
  IN  IF stop = {} THEN Len(t) + 1 - i ELSE Min(stop) - i

At(t, i, s) == i + Len(s) - 1 <= Len(t) /\ SubSeq(t, i, i + Len(s) - 1) = s

(* A position of s in t not before i, 0 if there is none *)
FindFrom(t, i, s) ==
  LET found == {k \in i .. Len(t) : At(t, k, s)} IN IF found = {} THEN 0 ELSE Min(found)

NoRule == [len |-> 0]

(* A rule that takes the n symbols at the front and returns them *)
Take(tok, n, t, op) == [len |-> n, eat |-> n, tok |-> tok, text |-> SubSeq(t, 1, n), op |-> op]

(* Literal text, and text followed by a symbol of its trailing context *)
Lit(tok, s, t, op) == IF At(t, 1, s) THEN Take(tok, Len(s), t, op) ELSE NoRule
Followed(tok, n, ahead, t) ==
  IF n > 0 /\ n < Len(t) /\ t[n + 1] \in ahead THEN [Take(tok, n, t, <<>>) EXCEPT !.len = n + 1] ELSE NoRule

(* "{{" with an optional "~", then s *)
Open(tok, s, t, op) ==
  IF At(t, 1, <<"{", "{", "~">> \o s) THEN Take(tok, 3 + Len(s), t, op) ELSE Lit(tok, <<"{", "{">> \o s, t, op)

Best(rules) ==
  LET longest == Max({rules[k].len : k \in DOMAIN rules})
  IN  rules[Min({k \in DOMAIN rules : rules[k].len = longest})]

(***************************************************************************)
(* INITIAL: text up to the next tag.  "\\" before a tag stands for a       *)
(* backslash, "\" before it for the tag itself.                            *)
(***************************************************************************)

(* [CONTENT] at i: no brace, backslash or line end, then line ends *)
ContentLen(t, i) ==
  LET n == SpanWhile(t, i, LAMBDA c : c \notin {"{", "\\", NL}) IN n + SpanWhile(t, i + n, LAMBDA c : c = NL)
MuLen(t, i) == IF At(t, i, <<"{", "{", "{">>) THEN 3 ELSE IF At(t, i, <<"{", "{">>) THEN 2 ELSE 0

TextRules(t) ==
  LET n == ContentLen(t, 1)
      m == MuLen(t, n + 3)
      e == MuLen(t, 2)
      mu == MuLen(t, 1)
  IN  << IF At(t, n + 1, <<"\\", "\\">>) /\ m > 0
           THEN [len |-> n + 2 + m, eat |-> n + 2, tok |-> "CONTENT", text |-> SubSeq(t, 1, n + 1), op |-> <<"push", "mu">>]
           ELSE NoRule,
         IF n > 0 THEN Take("CONTENT", n, t, <<>>) ELSE NoRule,
         IF At(t, 1, <<"\\">>) /\ e > 0
           THEN LET k == 1 + e + ContentLen(t, 2 + e)
                IN  [Take("CONTENT", k, t, <<"push", "emu">>) EXCEPT !.text = SubSeq(t, 2, k)]
           ELSE NoRule,
         IF mu > 0 THEN [len |-> mu, eat |-> 0, tok |-> "", text |-> <<>>, op |-> <<"push", "mu">>] ELSE NoRule,
         IF t[1] \in {"\\", "{", "}"} THEN Take("CONTENT", 1, t, <<>>) ELSE NoRule >>

(***************************************************************************)
(* After an escaped tag one symbol is looked at and put back.              *)
(***************************************************************************)
EscapedRules(t) ==
  IF t[1] = NL THEN << NoRule >> ELSE << [len |-> 1, eat |-> 0, tok |-> "", text |-> <<>>, op |-> <<"pop">>] >>

(***************************************************************************)
(* Inside a raw block: nested raw blocks are text, counted by the stack of *)
(* start conditions; the end of the outermost one ends the block.          *)
(***************************************************************************)
RawEndLen(t) ==
  LET n == IF At(t, 1, <<"{", "{", "{", "{", "/">>) THEN SpanWhile(t, 6, IsIdChar) ELSE 0
  IN  IF n > 0 /\ At(t, 6 + n, <<"}", "}", "}", "}">>) THEN 9 + n ELSE 0

RawRules(t, stack) ==
  LET e == RawEndLen(t)
      n == SpanWhile(t, 1, LAMBDA c : c # "{")
      nested == Len(stack) > 1 /\ Last(stack) = "raw"
  IN  << IF At(t, 1, <<"{", "{", "{", "{">>) /\ Len(t) > 4 /\ t[5] # "/"
           THEN [Take("CONTENT", 4, t, <<"push", "raw">>) EXCEPT !.len = 5] ELSE NoRule,
         IF e = 0 THEN NoRule
         ELSE IF nested THEN Take("CONTENT", e, t, <<"pop">>)
         ELSE [Take("END_RAW_BLOCK", e, t, <<"pop">>) EXCEPT !.text = SubSeq(t, 6, e - 4)],
         IF n > 0 THEN Take("CONTENT", n, t, <<>>) ELSE NoRule,
         Lit("CONTENT", <<"{">>, t, <<>>) >>

(***************************************************************************)
(* Comments are taken whole.  A long one ends at its first "--", which has *)
(* to be the one before the closing braces.                                *)
(***************************************************************************)
Dashes == <<"-", "-">>
LongCommentRules(t) ==
  LET start == IF At(t, 3, <<"~">>) THEN 7 ELSE 6
      dash == FindFrom(t, start, Dashes)
      close == IF dash = 0 THEN 0 ELSE IF At(t, dash + 2, <<"~", "}", "}">>) THEN dash + 4
               ELSE IF At(t, dash + 2, <<"}", "}">>) THEN dash + 3 ELSE 0
  IN  << IF Open("", <<"!", "-", "-">>, t, <<>>).len > 0 /\ close > 0
           THEN Take("LONG_COMMENT", close, t, <<"pop">>) ELSE NoRule >>
CommentRules(t) ==
  LET close == FindFrom(t, 1, <<"}", "}">>)
  IN  << IF close > 0 THEN Take("COMMENT", close + 1, t, <<"pop">>) ELSE NoRule >>

(***************************************************************************)
(* Inside a tag.                                                           *)
(***************************************************************************)
BracketRules(t) ==
  << Lit("OPEN_SEXPR", <<"(">>, t, <<>>), Lit("CLOSE_SEXPR", <<")">>, t, <<>>),
     Lit("OPEN_RAW_BLOCK", <<"{", "{", "{", "{">>, t, <<>>),
     Lit("CLOSE_RAW_BLOCK", <<"}", "}", "}", "}">>, t, <<"swap", "raw">>) >>

BlockRules(t) ==
  << Open("OPEN_PARTIAL", <<">">>, t, <<>>), Open("OPEN_PARTIAL_BLOCK", <<"#", ">">>, t, <<>>),
     Open("OPEN_BLOCK", <<"#", "*">>, t, <<>>), Open("OPEN_BLOCK", <<"#">>, t, <<>>),
     Open("OPEN_ENDBLOCK", <<"/">>, t, <<>>) >>

(* "\s" is the letter s to flex: blanks are not skipped before "else" with an expression, nor after "^" *)
ElseLen(t) ==
  LET a == IF At(t, 3, <<"~">>) THEN 4 ELSE 3
      b == a + SpanWhile(t, a, LAMBDA c : c \in White)
      d == b + 1 + SpanWhile(t, b + 1, LAMBDA c : c \in White)
  IN  IF ~(At(t, 1, <<"{", "{">>) /\ At(t, b, <<"else">>)) THEN 0
      ELSE IF At(t, d, <<"~", "}", "}">>) THEN d + 2 ELSE IF At(t, d, <<"}", "}">>) THEN d + 1 ELSE 0
InverseRules(t) ==
  << Open("INVERSE", <<"^", "}", "}">>, t, <<"pop">>), Open("INVERSE", <<"^", "~", "}", "}">>, t, <<"pop">>),
     IF ElseLen(t) > 0 THEN Take("INVERSE", ElseLen(t), t, <<"pop">>) ELSE NoRule,
     Open("OPEN_INVERSE", <<"^">>, t, <<>>), Open("OPEN_INVERSE_CHAIN", <<"else">>, t, <<>>) >>

\* Mutant: the start of a comment leaves the tag
PutBackMutant(r, cond) == IF r.len = 0 THEN r ELSE [r EXCEPT !.eat = 0, !.tok = "", !.text = <<>>, !.op = <<"pop">>]
(* The start of a comment is put back and taken whole in the comment's own start condition *)
PutBack(r, cond) == IF r.len = 0 THEN r ELSE [r EXCEPT !.eat = 0, !.tok = "", !.text = <<>>, !.op = <<"swap", cond>>]
MustacheRules(t) ==
  << Open("OPEN_UNESCAPED", <<"{">>, t, <<>>), Open("OPEN", <<"&">>, t, <<>>),
     PutBack(Open("", <<"!", "-", "-">>, t, <<>>), "com"), PutBack(Open("", <<"!">>, t, <<>>), "com1"),
     Open("OPEN", <<"*">>, t, <<>>), Open("OPEN", <<>>, t, <<>>) >>

PathRules(t) ==
  << Lit("EQUALS", <<"=">>, t, <<>>), Lit("ID", <<".", ".">>, t, <<>>),
     IF t[1] = "." THEN Followed("ID", 1, Lookahead, t) ELSE NoRule,
     IF t[1] \in {"/", "."} THEN Take("SEP", 1, t, <<>>) ELSE NoRule >>

CloseRules(t) ==
  LET w == SpanWhile(t, 1, LAMBDA c : c \in White)
  IN  << IF w > 0 THEN Take("", w, t, <<>>) ELSE NoRule,
         Lit("CLOSE_UNESCAPED", <<"}", "~", "}", "}">>, t, <<"pop">>), Lit("CLOSE_UNESCAPED", <<"}", "}", "}">>, t, <<"pop">>),
         Lit("CLOSE", <<"~", "}", "}">>, t, <<"pop">>), Lit("CLOSE", <<"}", "}">>, t, <<"pop">>) >>

(* What an opening mark and its closing mark enclose: an escaped closing mark goes on, unless no other follows *)
EnclosedLen(t, open, close) ==
  LET ends == {k \in 2 .. Len(t) : t[k] = close}
      plain == {k \in ends : t[k - 1] # "\\"}
  IN  IF t[1] # open \/ ends = {} THEN 0 ELSE IF plain # {} THEN Min(plain) ELSE Max(ends)

(* handlebars_string_stripcslashes of text without letters behind backslashes: of two symbols the second remains *)
Unslashed(s) ==
  LET before(k) == k - 1 - Max({0} \union {j \in 1 .. k - 1 : s[j] # "\\"})
      kept == SelectSeq([k \in DOMAIN s |-> k], LAMBDA k : s[k] # "\\" \/ before(k) % 2 = 1)
  IN  [k \in DOMAIN kept |-> s[kept[k]]]
StringRules(t) ==
  LET str(tok, n) == IF n = 0 THEN NoRule
                     ELSE [Take(tok, n, t, <<>>) EXCEPT !.text = Unslashed(SubSeq(t, 2, n - 1))]
  IN  << str("STRING", EnclosedLen(t, "\"", "\"")), str("SINGLE_STRING", EnclosedLen(t, "'", "'")) >>

Digits == {"0", "1"}
WordRules(t) ==
  LET word(w, tok) == IF t[1] = w THEN Followed(tok, 1, LiteralLookahead, t) ELSE NoRule
      sign == IF t[1] = "-" THEN 1 ELSE 0
      int == SpanWhile(t, 1 + sign, LAMBDA c : c \in Digits)
      frac == IF At(t, 1 + sign + int, <<".">>) THEN SpanWhile(t, 2 + sign + int, LAMBDA c : c \in Digits) ELSE 0
      n == IF int = 0 THEN 0 ELSE sign + int + (IF frac > 0 THEN 1 + frac ELSE 0)
  IN  << Lit("DATA", <<"@">>, t, <<>>),
         IF t[1] = "as" /\ Len(t) > 2 /\ t[2] \in White /\ t[3] = "|" THEN Take("OPEN_BLOCK_PARAMS", 3, t, <<>>) ELSE NoRule,
         Lit("CLOSE_BLOCK_PARAMS", <<"|">>, t, <<>>),
         word("true", "BOOLEAN"), word("false", "BOOLEAN"), word("undefined", "UNDEFINED"), word("null", "NUL"),
         Followed("NUMBER", n, LiteralLookahead, t) >>

(* handlebars_str_reduce of an escaped bracket to the bracket *)
Reduced(s) ==
  LET kept == SelectSeq([k \in DOMAIN s |-> k], LAMBDA k : ~At(s, k, <<"\\", "]">>)) IN [k \in DOMAIN kept |-> s[kept[k]]]
IdRules(t) ==
  LET n == EnclosedLen(t, "[", "]")
  IN  << Followed("ID", SpanWhile(t, 1, IsIdChar), Lookahead, t),
         IF n > 0 THEN [Take("ID", n, t, <<>>) EXCEPT !.text = Reduced(@)] ELSE NoRule,
         Take("INVALID", 1, t, <<>>) >>

TagRules(t) ==
  BracketRules(t) \o BlockRules(t) \o InverseRules(t) \o MustacheRules(t) \o PathRules(t) \o CloseRules(t)
    \o StringRules(t) \o WordRules(t) \o IdRules(t)

(***************************************************************************)
(* One rule of yylex.  A scanner holds the rest of the text, the stack of  *)
(* start conditions (the current one last) and the tokens returned.  When  *)
(* no rule matches, flex's default rule drops a symbol.                    *)
(***************************************************************************)
Scanner(text) == [rest |-> text, stack |-> <<"INITIAL">>, tokens |-> <<>>, dropped |-> 0]

RulesAt(s) ==
  CASE Last(s.stack) = "INITIAL" -> TextRules(s.rest)
    [] Last(s.stack) = "emu" -> EscapedRules(s.rest)
    [] Last(s.stack) = "raw" -> RawRules(s.rest, Front(s.stack))
    [] Last(s.stack) = "com" -> LongCommentRules(s.rest)
    [] Last(s.stack) = "com1" -> CommentRules(s.rest)
    [] Last(s.stack) = "mu" -> TagRules(s.rest)

StackAfter(stack, op) ==
  CASE op = <<>> -> stack
    [] op = <<"pop">> -> Front(stack)
    [] Len(op) = 2 /\ op[1] = "push" -> Append(stack, op[2])
    [] Len(op) = 2 /\ op[1] = "swap" -> Append(Front(stack), op[2])

Apply(r, s) ==
  IF r.len = 0 THEN [s EXCEPT !.rest = Tail(@), !.dropped = @ + 1]
  ELSE [s EXCEPT !.rest = SubSeq(@, r.eat + 1, Len(@)), !.stack = StackAfter(@, r.op),
                 !.tokens = IF r.tok = "" THEN @ ELSE Append(@, [t |-> r.tok, s |-> r.text])]
ScanRule(s) == Apply(Best(RulesAt(s)), s)

(* END or INVALID ends a scan *)
ScanOver(s) == s.rest = <<>> \/ (s.tokens # <<>> /\ Last(s.tokens).t = "INVALID")
=============================================================================
