----------------------------- MODULE MCFrontEnd -----------------------------
(***************************************************************************)
(* Templates for the front end.  The described ones are every way to put   *)
(* blanks, line ends and letters around a few shapes of tags, with at most *)
(* one "~"; the verbatim ones are expressions, partials, raw blocks,       *)
(* chains, escapes and malformed tags.                                     *)
(***************************************************************************)
EXTENDS FrontEnd

Piece(kind, src, name) == [kind |-> kind, src |-> src, name |-> name, left |-> FALSE, right |-> FALSE, to |-> <<>>]
T(src) == Piece("text", src, <<>>)
OpenA == Piece("open", <<"#", "a">>, <<"a">>)
InvA == Piece("inverted", <<"^", "a">>, <<"a">>)
ElseA == Piece("else", <<"^">>, <<>>)
CloseA == Piece("close", <<"/", "a">>, <<"a">>)
OpenB == Piece("open", <<"#", "b">>, <<"b">>)
CloseB == Piece("close", <<"/", "b">>, <<"b">>)
Mus == Piece("mustache", <<"a">>, <<"a">>)
Part == Piece("partial", <<">", "p">>, <<"p">>)
Com == Piece("comment", <<"!", "c">>, <<"c">>)
LongCom == Piece("comment", <<"!", "-", "-", "c", "-", "-">>, <<"c">>)
Dash == Piece("comment", <<"!", "-">>, <<>>)
Delims(o, c) == [Piece("delims", <<>>, o \o c) EXCEPT !.to = <<o, c>>]

(* Tags t, with texts from set c around them *)
Around(t, c) ==
  {[k \in 1 .. 2 * Len(t) + 1 |-> IF k % 2 = 1 THEN T(s[(k + 1) \div 2]) ELSE t[k \div 2]] : s \in [1 .. Len(t) + 1 -> c]}
(* Tags t as they are, and with one "~" *)
Tildes(t) ==
  {t} \union {[t EXCEPT ![k].left = TRUE] : k \in DOMAIN t} \union {[t EXCEPT ![k].right = TRUE] : k \in DOMAIN t}

Empty == <<>>
Space == <<" ">>
Letter == <<"x">>
Line == <<" ", NL, " ">>
Lines == <<NL, NL>>

Small == {Empty, Space, Line}
Some == {Empty, Space, Letter, Line}
Most == {Empty, Space, Letter, Line, Lines}

Blocks ==
  UNION {Around(t, Most) : t \in Tildes(<<OpenA, CloseA>>)} \union UNION {Around(t, Some) : t \in Tildes(<<InvA, CloseA>>)}
Inverses == UNION {Around(t, Some) : t \in Tildes(<<OpenA, ElseA, CloseA>>)}
Nested == Around(<<OpenA, OpenB, CloseB, CloseA>>, Small)
Flat == UNION {Around(t, Small) : t \in UNION {Tildes(<<x, y>>) : x \in {Part, Mus}, y \in {Com, LongCom}}}
Edges == {<<T(Letter), Dash, T(Letter)>>}

Angle == Delims(<<"<", "%">>, <<"%", ">">>)
Braces == Delims(<<"{", "{">>, <<"}", "}">>)
Literal == <<"{", "{", "x", "}", "}">>
(* "{{" is text where the delimiters are others *)
Delimited ==
  {ps \in Around(<<Angle, Mus>>, {Space, Line, Literal}) : ps[1].src # Literal}
    \union {ps \in Around(<<Mus, Delims(<<"|">>, <<"|">>)>>, {Space, Line, Literal}) : Literal \notin {ps[1].src, ps[3].src}}
    \union Around(<<Angle, Part, Braces, Com>>, {Letter, Line}) \union {<<T(Letter), Delims(<<"|">>, Empty), T(Letter)>>}

(* "{{" s "}}" *)
Tagged(s) == <<"{", "{">> \o s \o <<"}", "}">>
Raw(s) == <<"{", "{">> \o Tagged(s) \o <<"}", "}">>
X == <<"x">>
Expressions ==
  { Tagged(<<"a", ".", "b">>), Tagged(<<".", ".", "/", "a">>), Tagged(<<"@", "a">>), Tagged(<<"this", "/", "b">>),
    Tagged(<<"a", "/", ".", ".">>), Tagged(<<"[", "a", " ", "b", "]">>), Tagged(<<"{", "a", "}">>), Tagged(<<"&", "a">>),
    Tagged(<<"*", "a">>), Tagged(<<"a", " ", "b", " ", "1", " ", "c", "=", "true">>),
    Tagged(<<"a", " ", "\"", "b", "\\", "\"", "\"">>), Tagged(<<"a", " ", "'", "b", "'", " ", "null">>),
    Tagged(<<"a", " ", "(", "b", " ", "undefined", " ", "c", "=", "-", "1", ".", "0", ")", " ", "d", "=", "(", "e", ")">>),
    Tagged(<<" ", "a", " ", "false", " ">>), Tagged(<<".">>), Tagged(<<"a", "=", "1">>) }
Partials ==
  { Tagged(<<">", " ", "p", " ", "a", " ", "b", "=", "1">>), Tagged(<<">", "p", " ", "a", " ", "b">>),
    Tagged(<<">", "(", "p", " ", "a", ")">>), Tagged(<<">", "p", " ", "(", "a", " ", "b", ")">>),
    Tagged(<<">", "p", " ", "c", "=", "(", "a", ")">>), Tagged(<<">", "p", " ", "c", "=", "(", "a", " ", "b", ")", " ", "d", "=", "1">>),
    X \o <<" ">> \o Tagged(<<"~", ">", "p", " ", "a", "~">>) \o <<" ">> \o X,
    Tagged(<<"#", ">", "p", " ", "c", "=", "(", "a", " ", "b", ")">>) \o X \o Tagged(<<"/", "p">>),
    X \o <<" ">> \o Tagged(<<"~", "#", ">", "p">>) \o X \o Tagged(<<"/", "p">>),
    Tagged(<<"#", ">", "p", "~">>) \o <<" ">> \o X \o Tagged(<<"/", "p">>),
    Tagged(<<"#", ">", "p">>) \o X \o <<" ">> \o Tagged(<<"~", "/", "p", "~">>) \o <<" ">> \o X,
    Tagged(<<"#", ">", "p">>) \o <<NL>> \o X \o <<NL>> \o Tagged(<<"/", "p">>) \o <<NL>>,
    Tagged(<<"#", ">", "p">>) \o X \o Tagged(<<"/", "p">>), Tagged(<<"#", ">", "p", " ", "a">>) \o Tagged(<<"/", "p">>),
    Tagged(<<"#", ">", "p", " ", "b", "=", "'", "c", "'">>) \o X \o Tagged(<<"/", "q">>) }
BlocksToo ==
  { Tagged(<<"#", "a", " ", "b", " ", "as", " ", "|", "c", " ", "d", "|">>) \o X \o Tagged(<<"/", "a">>),
    Tagged(<<"#", "*", "a">>) \o X \o Tagged(<<"/", "a">>),
    Tagged(<<"^", "a", ".", "b">>) \o X \o Tagged(<<"/", "a", ".", "b">>),
    Tagged(<<"#", "a", " ", "(", "b", " ", "c", ")", " ", "d", "=", "(", "e", ")">>) \o X \o Tagged(<<"/", "a">>),
    Tagged(<<"#", "*", "a">>) \o X \o Tagged(<<"^">>) \o X \o Tagged(<<"/", "a">>),
    Tagged(<<"^", "a">>) \o X \o Tagged(<<"else">>) \o <<" ">> \o Tagged(<<"/", "a">>),
    Tagged(<<"#", "a">>) \o X \o Tagged(<<"else", " ", "b">>) \o <<" ", NL>> \o Tagged(<<"else", " ">>) \o X \o Tagged(<<"/", "a">>),
    Tagged(<<"#", "a">>) \o <<NL>> \o Tagged(<<"else", " ", "b">>) \o <<NL>> \o Tagged(<<"/", "a">>),
    Tagged(<<"#", "a">>) \o X \o Tagged(<<"/", "b">>), Tagged(<<"#", "a">>) \o X,
    Raw(<<"a", " ", "b">>) \o Tagged(<<"x">>) \o <<"{", "{", "{", "{", "/", "a", "}", "}", "}", "}">>,
    Raw(<<"a">>) \o Raw(<<"b">>) \o Raw(<<"/", "b">>) \o Raw(<<"/", "a">>), Raw(<<"a">>) \o X \o Raw(<<"/", "b">>) }
Escapes ==
  { <<"\\">> \o Tagged(<<"a">>) \o Tagged(<<"b">>), <<"\\", "\\">> \o Tagged(<<"a">>), <<"x", "\\", "x", "{", "x", NL>>,
    <<"\\">> \o Tagged(<<"{", "a", "}">>) \o <<NL, "x">>, <<"\\", "{", "{", NL, NL, "x">>, <<"x", "}", "{">> }
Malformed ==
  { <<>>, <<"{", "{">>, Tagged(<<>>), Tagged(<<"a", "%">>), Tagged(<<"!", "-", "-", "c">>), <<"{", "{", "!", "c">>,
    Tagged(<<"!", "-", "-", "c", "-", "-", "c", "-", "-">>), Tagged(<<"a", " ", "\"", "b">>), Tagged(<<"else", "where">>),
    Tagged(<<"#", "a", " ", "as", " ", "|", "|">>), Tagged(<<"/", "a">>), Tagged(<<"^">>), Tagged(<<"a", " ", "]">>),
    Tagged(<<"else", " ", "a">>) }
Verbatims == Expressions \union Partials \union BlocksToo \union Escapes \union Malformed
MustacheVerbatims ==
  { Tagged(<<"=", "a">>), Tagged(<<"=", "a", " ", "b">>), Tagged(<<"=", "a", " ", "b", "=">>), Tagged(<<"=", "a", "b", "c", "d">>),
    <<"x", "\\">>, <<"x", "{", "{", "a">>, <<"\\">> \o Tagged(<<"a">>), <<"{", "{", "=", "a", " ", "b", "=", "}", "x">> }

MCTemplates ==
  {[pieces |-> ps, mustache |-> FALSE] : ps \in Blocks \union Inverses \union Nested \union Flat \union Edges}
    \union {[pieces |-> ps, mustache |-> TRUE] : ps \in Delimited}
    \union {[pieces |-> << Piece("verbatim", s, <<>>) >>, mustache |-> FALSE] : s \in Verbatims}
    \union {[pieces |-> << Piece("verbatim", s, <<>>) >>, mustache |-> TRUE] : s \in MustacheVerbatims}
=============================================================================
