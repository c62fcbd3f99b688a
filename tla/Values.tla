------------------------------- MODULE Values -------------------------------
(***************************************************************************)
(* Reading values (handlebars_value.c): type, truth, size, conversions,    *)
(* finds and iterators, over native values and over user values alike.     *)
(* Copying a value copies its tuple; the reference counts of what it       *)
(* points to are in HbsStack and HbsMap.                                   *)
(***************************************************************************)
EXTENDS UserValues, SequencesExt

GetType(v) == IF v[1] = "user" THEN JsonType(v) ELSE v[1]
GetIntVal(v) == IF v[1] = "integer" THEN v[2] ELSE 0

Count(v) ==
    CASE v[1] = "array" -> Len(v[2])
      [] v[1] = "map" -> Len(v[3])
      [] v[1] = "user" -> JsonCount(v)
      [] OTHER -> -1

IsZero(text) == \A i \in DOMAIN text : text[i] \in {"0", "."}
\* Mutant: a user value is true whatever it holds
GetBoolValMutant(v) ==
    CASE v[1] \in {"true", "user"} -> TRUE
      [] v[1] = "float" -> ~ IsZero(v[2])
      [] v[1] = "integer" -> v[2] # 0
      [] v[1] = "string" -> v[2] # <<>> /\ v[2] # <<"0">>
      [] v[1] \in {"array", "map"} -> Count(v) # 0
      [] OTHER -> FALSE
GetBoolVal(v) ==
    CASE v[1] = "true" -> TRUE
      [] v[1] = "float" -> ~ IsZero(v[2])
      [] v[1] = "integer" -> v[2] # 0
      [] v[1] = "string" -> v[2] # <<>> /\ v[2] # <<"0">>
      [] v[1] \in {"array", "map", "user"} -> Count(v) # 0
      [] OTHER -> FALSE
IsEmptyValue(v) == ~ GetBoolVal(v)

IsCallable(v) == GetType(v) = "helper"

\* handlebars_value_to_string
ValueToString(v) ==
    CASE v[1] \in {"string", "float"} -> v[2]
      [] v[1] = "integer" -> <<ToString(v[2])>>
      [] v[1] = "true" -> True
      [] v[1] = "false" -> False
      [] OTHER -> <<>>

-----------------------------------------------------------------------------
(* Finds *)

ArrayFind(v, index) ==
    CASE v[1] = "user" /\ GetType(v) = "array" -> JsonArrayFind(v, index)
      [] v[1] = "array" /\ index < Len(v[2]) -> v[2][index + 1]
      [] OTHER -> NotFound

Pairs(v) == {v[3][i] : i \in DOMAIN v[3]}
MapFind(v, key) ==
    CASE v[1] = "user" /\ GetType(v) = "map" -> JsonMapFind(v, key)
      [] v[1] = "map" /\ (\E p \in Pairs(v) : p[1] = key) ->
            (CHOOSE p \in Pairs(v) : p[1] = key)[2]
      [] OTHER -> NotFound

-----------------------------------------------------------------------------
(* Iteration.  The mark of a map that is being iterated is kept by the     *)
(* caller: MarksOf says which map an iterator marks.                       *)

StackIterator(v, at) ==
    [VoidIter(v) EXCEPT !.more = TRUE, !.at = at, !.index = at - 1, !.cur = v[2][at]]
MapIterator(v, at) ==
    [VoidIter(v) EXCEPT !.more = TRUE, !.at = at, !.index = at - 1, !.key = v[3][at][1],
                        !.cur = v[3][at][2]]

IteratorInit(v) ==
    CASE v[1] = "array" /\ v[2] # <<>> -> StackIterator(v, 1)
      [] v[1] = "map" /\ v[3] # <<>> -> MapIterator(v, 1)
      [] v[1] = "user" -> JsonIteratorInit(v)
      [] OTHER -> VoidIter(v)

IteratorNextStack(it) ==
    IF it.index >= Len(it.of[2]) - 1 THEN Over(it) ELSE StackIterator(it.of, it.at + 1)
IteratorNextMap(it) ==
    IF it.index >= Len(it.of[3]) - 1 THEN Over(it) ELSE MapIterator(it.of, it.at + 1)

IteratorNext(it) ==
    CASE it.of[1] = "array" -> IteratorNextStack(it)
      [] it.of[1] = "map" -> IteratorNextMap(it)
      [] it.of[1] = "user" /\ it.key # NoKey -> JsonIteratorNextObject(it)
      [] it.of[1] = "user" /\ it.key = NoKey -> JsonIteratorNextArray(it)
      [] OTHER -> it

MarksOf(v) == IF v[1] = "map" /\ v[3] # <<>> THEN {v[2]} ELSE {}

\* HANDLEBARS_VALUE_FOREACH: the states of the iterator its body sees
RECURSIVE Rest(_)
Rest(it) == IF it.more THEN <<it>> \o Rest(IteratorNext(it)) ELSE <<>>
Foreach(v) == Rest(IteratorInit(v))

-----------------------------------------------------------------------------
(* Conversion *)

\* handlebars_value_convert_ex converts the register of its iterator, not the
\* child in the array or the map
ConvertEx(v, recurse, id) == IF v[1] = "user" THEN JsonConvert(v, recurse, id) ELSE v

\* htmlspecialchars[], without the grave accent
Escapes(c) ==
    CASE c = "&" -> <<"&", "a", "m", "p", ";">>
      [] c = "<" -> <<"&", "l", "t", ";">>
      [] c = ">" -> <<"&", "g", "t", ";">>
      [] c = "\"" -> <<"&", "q", "u", "o", "t", ";">>
      [] c = "'" -> <<"&", "#", "x", "2", "7", ";">>
      [] OTHER -> <<>>

\* The first pass of handlebars_string_htmlspecialchars_append adds up the
\* length, the second copies
NewLen(text) ==
    FoldLeft(LAMBDA n, c : IF Escapes(c) = <<>> THEN n ELSE n + Len(Escapes(c)) - 1, Len(text), text)
HtmlSpecialChars(text) ==
    IF NewLen(text) = Len(text) THEN text
    ELSE FlattenSeq([i \in DOMAIN text |-> IF Escapes(text[i]) = <<>> THEN <<text[i]>> ELSE Escapes(text[i])])

RECURSIVE Expression(_, _)
Expression(v, escape) ==
    CASE v[1] = "string" /\ escape /\ ~ v[3] -> HtmlSpecialChars(v[2])
      [] v[1] = "string" /\ (~ escape \/ v[3]) -> v[2]
      [] GetType(v) = "array" ->
            LET visits == Foreach(v) IN
            FlattenSeq([i \in DOMAIN visits |->
                (IF i = 1 THEN <<>> ELSE <<",">>) \o Expression(visits[i].cur, escape)])
      [] OTHER -> ValueToString(v)

\* The maps that handlebars_value_dump iterates
RECURSIVE DumpMarks(_)
DumpMarks(v) ==
    LET visits == Foreach(v)
    IN MarksOf(v) \union UNION {DumpMarks(visits[i].cur) : i \in DOMAIN visits}
=============================================================================
