------------------------------- MODULE Helpers -------------------------------
(***************************************************************************)
(* The builtin helpers (handlebars_helpers.c) at work in a rendering.      *)
(* A document is made into a context in several ways, each in its turn,    *)
(* and the same template is rendered with each: the JSON value, the same   *)
(* converted one level deep or to the bottom (as handlebarsc does), once   *)
(* more with that converted value, and the YAML value.  A document with    *)
(* functions is one an application built itself and is rendered twice.     *)
(*                                                                         *)
(* A template is a sequence of statements; the opcodes they are compiled   *)
(* to are in Compiler and VmExec, here a statement is one step.  A running *)
(* program is a frame, and so is a running "each", with its iterator.      *)
(* The marks that value iterators leave on maps are the variable marked.   *)
(***************************************************************************)
EXTENDS Values, FiniteSetsExt

CONSTANTS
    Documents,  \* nodes as in UserValues, where an object may hold functions
    Templates   \* sequences of statements

VARIABLES
    doc, template,
    frames,     \* the running programs and helpers, innermost last
    status,     \* "idle" between renderings, or "running"
    outcome,    \* of each rendering that ended: its text, Error, or how it aborted
    marked,     \* maps with is_in_iteration
    left,       \* maps whose iteration a throw has ended
    delims      \* vm->delim_open and delim_close, <<>> for the usual ones

vars == <<doc, template, frames, status, outcome, marked, left, delims>>

Error == <<"error">>
Reiterated == <<"abort", "map in iteration">>
Unfound == <<"abort", "no result">>
Text(s) == <<"text", s>>

-----------------------------------------------------------------------------
(* Contexts *)

RECURSIVE HasFunctions(_)
HasFunctions(j) ==
    CASE j[1] = "fn" -> TRUE
      [] j[1] = "array" -> \E i \in DOMAIN j[2] : HasFunctions(j[2][i])
      [] j[1] = "object" -> \E i \in DOMAIN j[2] : HasFunctions(j[2][i][2])
      [] OTHER -> FALSE

\* An application sets each value itself
RECURSIVE Native(_, _)
Native(j, id) ==
    CASE j[1] = "fn" -> <<"helper", [throws |-> j[2] = "throws",
                                     result |-> IF j[2] = "throws" THEN Null ELSE Native(j[3], Append(id, 0))]>>
      [] j[1] = "safe" -> <<"string", j[2], TRUE>>
      [] j[1] = "object" ->
            MapOf(id, [i \in DOMAIN j[2] |-> <<j[2][i][1], Native(j[2][i][2], Append(id, i))>>])
      [] j[1] = "array" -> <<"array", [i \in DOMAIN j[2] |-> Native(j[2][i], Append(id, i))]>>
      [] OTHER -> InitJson(Null, j)

Sources(j) ==
    IF HasFunctions(j) THEN <<"native", "native">>
    ELSE <<"json", "shallow", "converted", "converted", "yaml">>
Context(j, source) ==
    CASE source = "native" -> Native(j, <<source>>)
      [] source = "json" -> InitJson(Null, j)
      [] source = "shallow" -> ConvertEx(InitJson(Null, j), FALSE, <<source>>)
      [] source = "converted" -> ConvertEx(InitJson(Null, j), TRUE, <<source>>)
      [] source = "yaml" -> InitYaml(j, <<source>>)

-----------------------------------------------------------------------------
(* Frames *)

Program(code, ctx, data, params) ==
    [f |-> "program", code |-> code, pc |-> 1, ctx |-> ctx, data |-> data, params |-> params,
     buf |-> <<>>]

\* The data of "each" start as a copy of the data around it.  They are what
\* "visits" records of each execution of the program.
Each(context, stmt, scope) ==
    [f |-> "each", it |-> IteratorInit(context), i |-> 0, len |-> Count(context) - 1,
     data |-> scope.data, params |-> scope.params, program |-> stmt.program,
     visits |-> <<>>, buf |-> <<>>]

Top == Last(frames)
Under == Front(frames)
Running(f) == status = "running" /\ frames # <<>> /\ Top.f = f

\* The frames that are left when the text s is the result of the top one: a
\* program appends it, "each" appends it and takes the next entry
Resumed(below, s) ==
    IF below = <<>> THEN <<>>
    ELSE LET f == Last(below)
             g == [f EXCEPT !.buf = @ \o s]
         IN Append(Front(below),
                   IF f.f = "program" THEN g ELSE [g EXCEPT !.i = @ + 1, !.it = IteratorNext(@)])

\* Mutant: the mark is not cleared at the end
MarksAfterMutant(below) == marked
\* iterator_next_map clears the mark when it comes to the end
MarksAfter(below) ==
    IF below # <<>> /\ Last(below).f = "each"
       /\ Last(below).it.of[1] = "map" /\ ~ IteratorNext(Last(below).it).more
    THEN marked \ MarksOf(Last(below).it.of) ELSE marked

Rendered(result) ==
    /\ outcome' = Append(outcome, result)
    /\ status' = "idle"
    /\ delims' = <<>>

Throw ==
    /\ Rendered(Error)
    /\ frames' = <<>>
    /\ left' = left \union UNION {MarksOf(f.it.of) : f \in {g \in Range(frames) : g.f = "each"}}
    /\ UNCHANGED <<doc, template, marked>>

\* The process ends; the next rendering is that of a new one
Abort(how) ==
    /\ Rendered(how)
    /\ frames' = <<>>
    /\ marked' = {}
    /\ left' = {}
    /\ UNCHANGED <<doc, template>>

-----------------------------------------------------------------------------
(* Operands *)

\* lookup_on_context; the parts of a path into an array are read with sscanf
RECURSIVE LookupPath(_, _)
LookupPath(v, parts) ==
    IF parts = <<>> THEN v
    ELSE LET key == Head(parts)
             found == CASE GetType(v) = "map" -> MapFind(v, key)
                        [] GetType(v) = "array" /\ key[1] \in Digits -> ArrayFind(v, Digit(key[1]))
                        [] OTHER -> NotFound
         IN IF found = NotFound THEN Null ELSE LookupPath(found, Tail(parts))

\* lookup_data: outside of "each" @root is the context
LookupData(f, n) ==
    IF n \in DOMAIN f.data THEN f.data[n] ELSE IF n = "root" THEN f.ctx ELSE Null

\* lookup_block_param: the depth counts from the innermost block params
LookupBlockParam(f, depth, i) ==
    IF depth >= Len(f.params) \/ i >= Len(f.params[Len(f.params) - depth]) THEN Null
    ELSE f.params[Len(f.params) - depth][i + 1]

Operand(f, p) ==
    CASE p.k = "this" -> f.ctx
      [] p.k = "path" -> LookupPath(f.ctx, p.parts)
      [] p.k = "data" -> LookupData(f, p.n)
      [] p.k = "param" -> LookupBlockParam(f, p.depth, p.i)
      [] p.k = "int" -> Integer(p.n)

Stmt == Top.code[Top.pc]
Args == [i \in DOMAIN Stmt.args |-> Operand(Top, Stmt.args[i])]
At(s, h) == Running("program") /\ Top.pc <= Len(Top.code) /\ Stmt.s = s /\ (s = "call" => Stmt.helper = h)

\* The frames once the statement is done, with its text; and when it has to
\* wait for the frame f
Advanced == [frames EXCEPT ![Len(frames)].pc = @ + 1]
Put(s) ==
    /\ frames' = [Advanced EXCEPT ![Len(frames)].buf = @ \o s]
    /\ UNCHANGED <<doc, template, status, outcome, marked, left, delims>>
Enter(f) ==
    /\ frames' = Append(Advanced, f)
    /\ UNCHANGED <<doc, template, status, outcome, marked, left, delims>>

\* handlebars_vm_execute_program(_ex): a program that is missing is empty
Execute(code, ctx) == Enter(Program(code, ctx, Top.data, Top.params))
ExecuteEx(code, ctx, data, params) == Enter(Program(code, ctx, data, Append(Top.params, params)))

-----------------------------------------------------------------------------
(* Calls.  A helper that is given something callable calls it and goes on  *)
(* with the result.                                                        *)

Throws(v) == IsCallable(v) /\ v[2].throws
Called(v) == IF IsCallable(v) THEN v[2].result ELSE v

\* handlebars_builtin_each with the value it has to iterate.  Neither a map nor
\* an array: the inverse, as for an empty one.
EachOf(context) ==
    IF GetType(context) \notin {"map", "array"} \/ Count(context) <= 0
    THEN Execute(Stmt.inverse, Top.ctx)
    ELSE IF MarksOf(context) \subseteq marked /\ MarksOf(context) # {} THEN Abort(Reiterated)
    ELSE /\ frames' = Append(Advanced, Each(context, Stmt, Top))
         /\ marked' = marked \union MarksOf(context)
         /\ UNCHANGED <<doc, template, status, outcome, left, delims>>

BuiltinEach ==
    /\ At("call", "each")
    /\ IF Args = <<>> \/ Throws(Args[1]) THEN Throw ELSE EachOf(Called(Args[1]))

\* Mutant: the index is always that of the iterator, which objects leave at 0
EachDataMutant(f) ==
    [n \in DOMAIN f.data \union {"index", "key", "first", "last"} |->
        CASE n = "index" -> Integer(f.it.index)
          [] n = "key" -> IF f.it.key # NoKey THEN Str(f.it.key) ELSE Integer(f.it.index)
          [] n = "first" -> Boolean(f.i = 0)
          [] n = "last" -> Boolean(f.i = f.len)
          [] OTHER -> f.data[n]]
\* One execution of the program of "each"
EachData(f) ==
    [n \in DOMAIN f.data \union {"index", "key", "first", "last"} |->
        CASE n = "index" -> Integer(IF f.it.index # 0 THEN f.it.index ELSE f.i)
          [] n = "key" -> IF f.it.key # NoKey THEN Str(f.it.key) ELSE Integer(f.it.index)
          [] n = "first" -> Boolean(f.i = 0)
          [] n = "last" -> Boolean(f.i = f.len)
          [] OTHER -> f.data[n]]
EachBody ==
    /\ Running("each") /\ Top.it.more
    /\ LET data == EachData(Top)
           visit == [child |-> Top.it.cur, index |-> data["index"], key |-> data["key"],
                     first |-> data["first"], last |-> data["last"]]
       IN frames' = Under \o <<[Top EXCEPT !.data = data, !.visits = Append(@, visit)],
                               Program(Top.program, Top.it.cur, data,
                                       Append(Top.params, <<Top.it.cur, data["key"]>>))>>
    /\ UNCHANGED <<doc, template, status, outcome, marked, left, delims>>

EachEnds ==
    /\ Running("each") /\ ~ Top.it.more
    /\ frames' = Resumed(Under, Top.buf)
    /\ UNCHANGED <<doc, template, status, outcome, marked, left, delims>>

IsZeroInteger(v) == GetType(v) = "integer" /\ GetIntVal(v) = 0

\* handlebars_builtin_if; of includeZero only the presence counts
IfOf(v) ==
    Execute(IF ~ IsEmptyValue(v) \/ (IsZeroInteger(v) /\ "includeZero" \in Stmt.hash)
            THEN Stmt.program ELSE Stmt.inverse, Top.ctx)
BuiltinIf ==
    /\ At("call", "if")
    /\ IF Len(Args) # 1 \/ Throws(Args[1]) THEN Throw ELSE IfOf(Called(Args[1]))

\* handlebars_builtin_unless replaces its argument, which it does not call
BuiltinUnless ==
    /\ At("call", "unless")
    /\ IF Len(Args) # 1 THEN Throw ELSE IfOf(Boolean(IsEmptyValue(Args[1])))

BuiltinWith ==
    /\ At("call", "with")
    /\ IF Len(Args) # 1 \/ Throws(Args[1]) THEN Throw
       ELSE LET context == Called(Args[1]) IN
            IF GetType(context) = "null" THEN Execute(Stmt.inverse, context)
            ELSE ExecuteEx(Stmt.program, context, Top.data, <<context>>)

BlockHelperMissing ==
    /\ At("call", "blockHelperMissing")
    /\ IF Args = <<>> THEN Execute(Stmt.inverse, Top.ctx)
       ELSE LET context == Args[1] IN
            IF GetType(context) = "true" THEN Execute(Stmt.program, Top.ctx)
            ELSE IF IsEmptyValue(context) /\ ~ IsZeroInteger(context)
            THEN Execute(Stmt.inverse, Top.ctx)
            ELSE IF GetType(context) = "array" THEN EachOf(context)
            ELSE Execute(Stmt.program, context)

HelperMissing ==
    /\ At("call", "helperMissing")
    /\ IF Args # <<>> THEN Throw ELSE Put(<<>>)

\* handlebars_builtin_lookup: for an array without the entry its result is NULL,
\* which handlebars_value_call asserts it is not
BuiltinLookup ==
    /\ At("call", "lookup")
    /\ IF Len(Args) < 2 THEN Throw
       ELSE LET context == Args[1]
                field == Args[2]
            IN CASE GetType(context) = "map" ->
                        LET v == MapFind(context, ValueToString(field))
                        IN Put(IF v = NotFound THEN <<>> ELSE Expression(v, TRUE))
                 [] GetType(context) = "array" /\ GetType(field) = "integer" ->
                        LET v == ArrayFind(context, GetIntVal(field))
                        IN IF v = NotFound THEN Abort(Unfound) ELSE Put(Expression(v, TRUE))
                 [] OTHER -> Put(<<>>)

\* handlebars_builtin_log dumps its arguments, which iterates their maps
BuiltinLog ==
    /\ At("call", "log")
    /\ IF \E i \in DOMAIN Args : DumpMarks(Args[i]) \intersect marked # {} THEN Abort(Reiterated)
       ELSE Put(<<>>)

BuiltinSetDelimiters ==
    /\ At("call", "hbsc_set_delimiters")
    /\ frames' = Advanced
    /\ delims' = IF Len(Args) = 2 /\ Args[1][1] = "string" /\ Args[2][1] = "string"
                 THEN <<Args[1][2], Args[2][2]>> ELSE delims
    /\ UNCHANGED <<doc, template, status, outcome, marked, left>>

-----------------------------------------------------------------------------
(* Renderings *)

Init ==
    /\ doc \in Documents
    /\ template \in Templates
    /\ frames = <<>>
    /\ status = "idle"
    /\ outcome = <<>>
    /\ marked = {}
    /\ left = {}
    /\ delims = <<>>

Render ==
    /\ status = "idle" /\ Len(outcome) < Len(Sources(doc))
    /\ frames' = <<Program(template, Context(doc, Sources(doc)[Len(outcome) + 1]), <<>>, <<>>)>>
    /\ status' = "running"
    /\ UNCHANGED <<doc, template, outcome, marked, left, delims>>

AppendContent == At("content", "") /\ Put(Stmt.text)
AppendValue == At("put", "") /\ Put(Expression(Operand(Top, Stmt.path), Stmt.escape))

Return ==
    /\ Running("program") /\ Top.pc > Len(Top.code)
    /\ frames' = Resumed(Under, Top.buf)
    /\ marked' = MarksAfter(Under)
    /\ IF Under = <<>> THEN Rendered(Text(Top.buf)) ELSE UNCHANGED <<status, outcome, delims>>
    /\ UNCHANGED <<doc, template, left>>

\* The application has rendered all it wanted to
Ended ==
    /\ status = "idle" /\ Len(outcome) = Len(Sources(doc))
    /\ UNCHANGED vars

Next ==
    \/ Render
    \/ AppendContent
    \/ AppendValue
    \/ BuiltinEach
    \/ EachBody
    \/ EachEnds
    \/ BuiltinIf
    \/ BuiltinUnless
    \/ BuiltinWith
    \/ BlockHelperMissing
    \/ HelperMissing
    \/ BuiltinLookup
    \/ BuiltinLog
    \/ BuiltinSetDelimiters
    \/ Return
    \/ Ended

Spec == Init /\ [][Next]_vars

-----------------------------------------------------------------------------
(* Properties *)

Direct(j) == IF j[1] = "object" THEN [i \in DOMAIN j[2] |-> j[2][i][2]] ELSE j[2]

\* What a reader of the document expects as entry i, but for nulls: in a lazy array
\* or object a null reads as the last entry before it that is none
Child(j, i) ==
    LET values == {k \in 1 .. i : Direct(j)[k] # NoNode}
    IN IF values = {} THEN Null ELSE InitJson(Null, Direct(j)[Max(values)])

\* and as the entries that "each" visits
Entries(v) ==
    LET entry(i, n, key, child) ==
            [child |-> child, index |-> Integer(i - 1), key |-> key, first |-> Boolean(i = 1),
             last |-> Boolean(i = n)]
    IN CASE v[1] = "array" -> [i \in DOMAIN v[2] |-> entry(i, Len(v[2]), Integer(i - 1), v[2][i])]
         [] v[1] = "map" -> [i \in DOMAIN v[3] |-> entry(i, Len(v[3]), Str(v[3][i][1]), v[3][i][2])]
         [] OTHER ->
                [i \in DOMAIN v[2][2] |->
                    entry(i, Len(v[2][2]),
                          IF GetType(v) = "array" THEN Integer(i - 1) ELSE Str(v[2][2][i][1]),
                          Child(v[2], i))]

\* handlebars_builtin_each executes its program once for each entry, in the
\* order of the array or map, with that entry's value, @index, @key, @first and
\* @last, however many other blocks run in between and whatever holds the entries;
\* a null in a lazy document repeats the entry before it, and does nothing else.
EachVisitsAll ==
    \A n \in DOMAIN frames :
        LET f == frames[n] IN
        f.f = "each" =>
            /\ IsPrefix(f.visits, Entries(f.it.of))
            /\ ~ f.it.more => f.visits = Entries(f.it.of)

RECURSIVE NullFree(_)
NullFree(j) ==
    CASE j[1] = "null" -> FALSE
      [] j[1] \in {"array", "object"} -> \A i \in DOMAIN Direct(j) : NullFree(Direct(j)[i])
      [] OTHER -> TRUE
RECURSIVE PlainInYaml(_)
PlainInYaml(j) ==
    CASE j[1] = "string" -> YamlScalar(j[2]) = Str(j[2])
      [] j[1] \in {"array", "object"} -> \A i \in DOMAIN Direct(j) : PlainInYaml(Direct(j)[i])
      [] OTHER -> TRUE

\* A template renders to the same text, or fails alike, whether its context is a
\* JSON value that is read lazily, its conversion, shallow or deep, the same
\* value again, or YAML: for documents without null and, in YAML, without strings
\* that look like other scalars.  A lookup without a result fails alike, too.  One
\* failure depends on the source: a map that is marked must not be iterated over or
\* logged, by a block inside its "each" or after a throw out of one.  The code
\* marks native maps only, so that a lazy document is never at fault there.
SourcesAgree ==
    \A m, n \in DOMAIN outcome :
        /\ NullFree(doc)
        /\ PlainInYaml(doc) \/ "yaml" \notin {Sources(doc)[m], Sources(doc)[n]}
        => /\ outcome[m] = outcome[n] \/ Reiterated \in {outcome[m], outcome[n]}
           /\ Sources(doc)[m] = "json" => outcome[m] # Reiterated

\* A map is marked as being iterated (which makes another iteration of it abort
\* the program) while an "each" is visiting it, and at no other time except
\* after a throw out of one: handlebars_value_iterator_next_map.
MarksAccounted ==
    marked = left \union UNION {MarksOf(frames[n].it.of) :
                                   n \in {k \in DOMAIN frames : frames[k].f = "each" /\ frames[k].it.more}}
==============================================================================
