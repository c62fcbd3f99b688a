----------------------------- MODULE UserValues -----------------------------
(***************************************************************************)
(* Values, and the documents they are made from (handlebars_json.c,        *)
(* handlebars_yaml.c).  A value is a tuple of its type and its content:    *)
(*   <<"null">> <<"true">> <<"false">> <<"integer", n>> <<"float", text>>  *)
(*   <<"string", text, safe>> <<"array", values>>                          *)
(*   <<"map", identity, pairs of key and value>>                           *)
(*   <<"helper", [throws, result]>> <<"user", JSON node>>                  *)
(* A node of a document is a tuple of the same shape over the types of     *)
(* json-c.  A JSON array or object is wrapped in a value of type user and  *)
(* only turned into values when it is read: its handlers are below.        *)
(* Texts and keys are sequences of characters.                             *)
(***************************************************************************)
EXTENDS Naturals, Sequences, TLC

Null == <<"null">>
Boolean(b) == IF b THEN <<"true">> ELSE <<"false">>
Integer(n) == <<"integer", n>>
Str(s) == <<"string", s, FALSE>>
MapOf(id, pairs) == <<"map", id, pairs>>

-----------------------------------------------------------------------------
(* JSON *)

\* handlebars_value_init_json_object: null leaves the register as it is
InitJson(register, j) ==
    CASE j[1] = "null" -> register
      [] j[1] = "boolean" -> Boolean(j[2])
      [] j[1] = "double" -> <<"float", j[2]>>
      [] j[1] = "int" -> Integer(j[2])
      [] j[1] = "string" -> Str(j[2])
      [] j[1] \in {"array", "object"} -> <<"user", j>>

\* json_object_array_get_idx, json_object_object_get: a null is a NULL pointer
NoNode == <<"null">>
Idx(j, index) == IF index < Len(j[2]) THEN j[2][index + 1] ELSE NoNode
Get(j, key) ==
    IF \E i \in DOMAIN j[2] : j[2][i][1] = key
    THEN j[2][CHOOSE i \in DOMAIN j[2] : j[2][i][1] = key][2] ELSE NoNode

JsonType(v) == IF v[2][1] = "object" THEN "map" ELSE "array"
JsonCount(v) == Len(v[2][2])

\* What a find gives back: no value, or the value put in the register
NotFound == <<>>
JsonFound(item) == IF item = NoNode THEN NotFound ELSE InitJson(Null, item)
JsonMapFind(v, key) == JsonFound(Get(v[2], key))
JsonArrayFind(v, index) == JsonFound(Idx(v[2], index))

\* hbs_json_convert makes each child in a new register, and with recurse the
\* children of the children
RECURSIVE JsonConvert(_, _, _)
JsonConvert(v, recurse, id) ==
    LET items == v[2][2]
        child(j, i) ==
            LET c == InitJson(Null, j)
            IN IF recurse /\ c[1] = "user" THEN JsonConvert(c, recurse, Append(id, i)) ELSE c
    IN IF JsonType(v) = "map"
       THEN MapOf(id, [i \in DOMAIN items |-> <<items[i][1], child(items[i][2], i)>>])
       ELSE <<"array", [i \in DOMAIN items |-> child(items[i], i)]>>

-----------------------------------------------------------------------------
(* Iterators: the value, the position of the current entry, index, key and *)
(* cur.  More is what the call returns.                                    *)

NoKey == <<>>
Over(it) == [it EXCEPT !.more = FALSE, !.cur = Null]
VoidIter(v) == [more |-> FALSE, of |-> v, at |-> 0, index |-> 0, key |-> NoKey, cur |-> Null]

\* An empty array has an iterator with one null; the next call ends it
JsonIteratorInit(v) ==
    LET j == v[2] IN
    IF j[1] = "array"
    THEN [VoidIter(v) EXCEPT !.more = TRUE, !.cur = InitJson(Null, Idx(j, 0))]
    ELSE IF j[2] = <<>> THEN VoidIter(v)
    ELSE [VoidIter(v) EXCEPT !.more = TRUE, !.at = 1, !.key = j[2][1][1],
                             !.cur = InitJson(Null, j[2][1][2])]

JsonIteratorNextObject(it) ==
    LET items == it.of[2][2] IN
    IF it.at >= Len(items) THEN Over(it)
    ELSE [it EXCEPT !.at = @ + 1, !.key = items[it.at + 1][1],
                    !.cur = InitJson(@, items[it.at + 1][2])]

JsonIteratorNextArray(it) ==
    LET index == it.index + 1 IN
    IF index >= JsonCount(it.of) THEN Over([it EXCEPT !.index = index])
    ELSE [it EXCEPT !.index = index, !.cur = InitJson(@, Idx(it.of[2], index))]

-----------------------------------------------------------------------------
(* YAML.  A scalar is the text in the file; strtol and strtod take an      *)
(* empty text for a number.                                                *)

Digits == {"0", "1", "2", "3", "4", "5", "6", "7", "8", "9"}
Digit(c) == CHOOSE n \in 0 .. 9 : ToString(n) = c
ReadsAsLong(text) == Len(text) <= 1 /\ \A i \in DOMAIN text : text[i] \in Digits
ReadsAsDouble(text) == text # <<>> /\ \A i \in DOMAIN text : text[i] \in Digits \union {"."}
True == <<"t", "r", "u", "e">>
False == <<"f", "a", "l", "s", "e">>

\* The text of a scalar node in a file
ScalarText(j) ==
    CASE j[1] = "null" -> <<>>
      [] j[1] = "boolean" -> IF j[2] THEN True ELSE False
      [] j[1] = "int" -> <<ToString(j[2])>>
      [] j[1] \in {"double", "string"} -> j[2]

YamlScalar(text) ==
    CASE text = True -> Boolean(TRUE)
      [] text = False -> Boolean(FALSE)
      [] ReadsAsLong(text) -> Integer(IF text = <<>> THEN 0 ELSE Digit(text[1]))
      [] ReadsAsDouble(text) -> <<"float", text>>
      [] OTHER -> Str(text)

RECURSIVE InitYaml(_, _)
InitYaml(j, id) ==
    CASE j[1] = "object" ->
            MapOf(id, [i \in DOMAIN j[2] |-> <<j[2][i][1], InitYaml(j[2][i][2], Append(id, i))>>])
      [] j[1] = "array" -> <<"array", [i \in DOMAIN j[2] |-> InitYaml(j[2][i], Append(id, i))]>>
      [] OTHER -> YamlScalar(ScalarText(j))
=============================================================================
