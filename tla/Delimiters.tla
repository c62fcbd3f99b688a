----------------------------- MODULE Delimiters -----------------------------
(***************************************************************************)
(* The preprocessor of templates with other delimiters                     *)
(* (handlebars_delimiters.c), used for compatibility with mustache: it     *)
(* rewrites a template to the default delimiters, and leaves a call of     *)
(* hbsc_set_delimiters where the template set new ones.                    *)
(*                                                                         *)
(* "tag" tells whether the loop is inside a tag (state 2 of the code).     *)
(* "bracket" is starts_with_bracket, which is only set for delimiters that *)
(* the template or the caller gave, not for the default ones.              *)
(***************************************************************************)
EXTENDS Lexer

Preprocessor(text) ==
  [rest |-> text, out |-> <<>>, open |-> <<"{", "{">>, close |-> <<"}", "}">>, bracket |-> FALSE, tag |-> FALSE, err |-> ""]

Consume(d, n, out) == [d EXCEPT !.rest = SubSeq(@, n + 1, Len(@)), !.out = @ \o out]

Quoted(s) == <<"\"">> \o FlattenSeq([k \in DOMAIN s |-> IF s[k] = "\"" THEN <<"\\", "\"">> ELSE << s[k] >>]) \o <<"\"">>

(***************************************************************************)
(* A tag that sets new delimiters.  Without anything between the blank and *)
(* the second "=" the length of the new closing delimiter underflows.      *)
(***************************************************************************)
SetsDelimiters(d) ==
  LET t == d.rest
      blanks(i) == i + SpanWhile(t, i, LAMBDA c : c = " ")
      o == blanks(Len(d.open) + 2)
      gap == FindFrom(t, o, <<" ">>)
      c == blanks(gap)
      equals == FindFrom(t, c, <<"=">>)
      open == SubSeq(t, o, gap - 1)
      close == SubSeq(t, c, Max({k \in c .. equals - 1 : t[k] # " "}))
      call == <<"{", "{", "hbsc_set_delimiters", " ">> \o Quoted(open) \o <<" ">> \o Quoted(close) \o <<"}", "}">>
  IN  IF gap = 0 THEN [d EXCEPT !.err = "must contain a space"]
      ELSE IF equals = 0 THEN [d EXCEPT !.err = "must contain two equals"]
      ELSE IF equals = c THEN [d EXCEPT !.err = "crash"]
      ELSE IF ~At(t, equals + 1, d.close) THEN [d EXCEPT !.err = "must end with an equals"]
      ELSE [Consume(d, equals + Len(d.close), call) EXCEPT !.open = open, !.close = close, !.bracket = open[1] = "{"]

(* A backslash keeps the next symbol from being looked at; at the end of the text that is its terminator *)
Outside(d) ==
  LET t == d.rest
      n == Len(d.open) + Len(d.close)
  IN  IF t[1] = "\\" THEN (IF Len(t) = 1 THEN Consume(d, 1, <<"\\", "NUL">>) ELSE Consume(d, 2, SubSeq(t, 1, 2)))
      ELSE IF Len(t) >= n + 4 /\ At(t, 1, d.open \o <<"=">>) THEN SetsDelimiters(d)
      ELSE IF Len(t) >= n + 1 /\ At(t, 1, d.open) THEN [Consume(d, Len(d.open), <<"{", "{">>) EXCEPT !.tag = TRUE]
      ELSE Consume(d, 1, (IF At(t, 1, <<"{", "{">>) /\ ~d.bracket THEN <<"\\">> ELSE <<>>) \o << t[1] >>)

Inside(d) ==
  IF At(d.rest, 1, d.close) THEN [Consume(d, Len(d.close), <<"}", "}">>) EXCEPT !.tag = FALSE]
  ELSE Consume(d, 1, << d.rest[1] >>)

PreprocessStep(d) == IF d.tag THEN Inside(d) ELSE Outside(d)
Preprocessed(d) == d.rest = <<>> \/ d.err # ""
=============================================================================
