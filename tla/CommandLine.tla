---------------------------- MODULE CommandLine ----------------------------
(***************************************************************************)
(* handlebarsc (bin/handlebarsc.c), beside the library's own use of the     *)
(* compiler in TemplatePipeline.  The program sets a jmp_buf before it      *)
(* calls the library, so that an error anywhere ends it with status 1,      *)
(* where execute_template, which compiles in a context of its own, goes on  *)
(* with what the compiler left.                                             *)
(*                                                                          *)
(* The command line is a sequence of options, [o |-> name] with an argument *)
(* arg where there is one; "file" is an argument that is no option.  A      *)
(* template file is [kind |-> "template"] with its tree and with whether it *)
(* is well-formed, as it is (parses) and with its delimiters rewritten      *)
(* (delims); a data file tells what the parsers of YAML and JSON make of    *)
(* it: "value", a value that is "empty", or "error".                        *)
(***************************************************************************)
EXTENDS TemplatePipeline

CONSTANTS
    CommandLines,   \* sequences of options
    Files,          \* file name -> contents, or "missing" or "nothing"
    Stdin           \* the contents of the standard input

VARIABLES
    argv,
    at,         \* "library" in an application, "options", "main", "execute", "exited", "aborted"
    opts,       \* the static variables that readOpts sets
    stdin,      \* what is left to be read
    out,        \* what was written to the standard output
    status      \* the exit status

cliVars == <<argv, at, opts, stdin, out, status>>
pipelineVars == vars
allVars == <<vars, cliVars>>

-----------------------------------------------------------------------------
(* Options *)

Modes == {"help", "version", "lex", "parse", "compile", "module", "execute", "debuginfo"}
NoName == ""

Defaults == [mode |-> "execute", flags |-> {}, template |-> NoName, data |-> NoName,
             loader |-> FALSE, convert |-> TRUE, newline |-> TRUE, runs |-> 1, files |-> <<>>]

\* One turn of readOpts; getopt_long moves the arguments that are no options to
\* the end
ReadOpt(o, option) ==
    CASE option.o \in Modes -> [o EXCEPT !.mode = option.o]
      [] option.o = "flags" -> [o EXCEPT !.flags = @ \cup option.arg]
      [] option.o = "template" -> [o EXCEPT !.template = option.arg]
      [] option.o = "data" -> [o EXCEPT !.data = option.arg]
      [] option.o = "partial-loader" -> [o EXCEPT !.loader = TRUE]
      [] option.o = "no-convert-input" -> [o EXCEPT !.convert = FALSE]
      [] option.o = "no-newline" -> [o EXCEPT !.newline = FALSE]
      [] option.o = "run-count" -> [o EXCEPT !.runs = option.arg]
      [] option.o = "file" -> [o EXCEPT !.files = Append(@, option.arg)]
      [] option.o \in {"partial-path", "partial-ext", "pool-size", "pretty-print"} -> o

-----------------------------------------------------------------------------
(* Input *)

Failure == [kind |-> "failure"]

\* file_get_contents, of a file of at least one byte; the standard input may be
\* empty and is so once it was read
FileGetContents(name, pipe) ==
    IF name = NoName THEN Failure
    ELSE IF name = "-" THEN pipe
    ELSE IF Files[name].kind \in {"missing", "nothing"} THEN Failure
    ELSE Files[name]

\* read_stdin leaves nothing
After(name, pipe) == IF name = "-" THEN [kind |-> "nothing"] ELSE pipe

\* readInput, and handlebars_preprocess_delimiters under compat: the template, or
\* Failure
Template ==
    LET t == FileGetContents(opts.template, stdin)
    IN IF t.kind = "template" /\ "compat" \in opts.flags /\ ~t.delims THEN Failure ELSE t

\* handlebars_parse_ex, which throws on an empty text too
Parses(t) == t.kind = "template" /\ t.parses

\* The context of do_execute; what is in a file named .yaml or .yml and comes
\* out empty is read once more as JSON
ReadData(pipe) ==
    IF opts.data = NoName THEN "empty"
    ELSE LET d == FileGetContents(opts.data, pipe)
         IN IF d.kind \in {"failure", "template"} THEN "error"
            ELSE IF d.kind = "nothing" THEN "empty"
            ELSE IF d.named = "yaml" /\ d.yaml # "empty" THEN d.yaml
            ELSE d.json

-----------------------------------------------------------------------------
(* Steps *)

Exit(code, text) ==
    /\ at' = "exited"
    /\ status' = code
    /\ out' = text
    /\ UNCHANGED <<argv, opts>>

Abort == at' = "aborted" /\ UNCHANGED <<argv, opts, stdin, out, status>>

CliInit ==
    /\ \/ /\ Init
          /\ at = "library" /\ argv = <<>>
       \/ /\ ast = NoNode /\ flags = {} /\ stage = "command" /\ program = NewProgram
          /\ module = EmptyModule /\ image = EmptyModule /\ here = 0 /\ stored = {}
          /\ at = "options" /\ argv \in CommandLines
    /\ opts = Defaults
    /\ stdin = Stdin
    /\ out = <<>>
    /\ status = -1

Library == at = "library" /\ Next /\ UNCHANGED cliVars

\* main up to its switch; an option that is not known fails an assertion
Main ==
    /\ at = "options"
    /\ IF argv = <<>> THEN Exit(1, <<"usage">>) /\ UNCHANGED stdin
       ELSE IF \E i \in DOMAIN argv : argv[i].o = "invalid" THEN Abort
       ELSE LET o == FoldLeft(ReadOpt, Defaults, argv)
            IN /\ opts' = IF o.files = <<>> THEN o ELSE [o EXCEPT !.template = Head(o.files)]
               /\ at' = "main"
               /\ UNCHANGED <<argv, stdin, out, status>>
    /\ UNCHANGED pipelineVars

In(mode) == at = "main" /\ opts.mode = mode
Consumed == stdin' = After(opts.template, stdin)

DoUsage == In("help") /\ Exit(0, <<"usage">>) /\ UNCHANGED <<stdin, vars>>
DoVersion == In("version") /\ Exit(0, <<"version">>) /\ UNCHANGED <<stdin, vars>>
\* to the standard error
DoDebuginfo == In("debuginfo") /\ Exit(0, <<>>) /\ UNCHANGED <<stdin, vars>>

DoLex ==
    /\ In("lex")
    /\ IF Template = Failure THEN Exit(1, <<>>) ELSE Exit(0, <<"tokens">>)
    /\ Consumed
    /\ UNCHANGED pipelineVars

DoParse ==
    /\ In("parse")
    /\ IF Parses(Template) THEN Exit(0, <<"tree", Template.ast>>) ELSE Exit(1, <<>>)
    /\ Consumed
    /\ UNCHANGED pipelineVars

\* Mutant: without the jmp_buf the compiler keeps its error to itself
CompilesMutant(p) == TRUE

\* handlebars_compiler_compile_ex with a jmp_buf set
Compiles(p) == p.err = "none"

\* What do_compile, do_module and do_execute have in common: once the
\* template is compiled to p they end or go on
WithProgram(p, then) ==
    /\ program' = p
    /\ IF p.err = "null_pointer" THEN Abort
       ELSE IF Compiles(p) THEN then ELSE Exit(1, <<>>) /\ Consumed

DoCompileCommand ==
    /\ In("compile")
    /\ IF Parses(Template)
       THEN LET p == Compile(opts.flags, Template.ast)
            IN WithProgram(p, Exit(0, <<"opcodes", Resolve(p)>>) /\ Consumed)
       ELSE Exit(1, <<>>) /\ Consumed /\ UNCHANGED program
    /\ UNCHANGED <<ast, flags, stage, module, image, here, stored>>

\* pretty_print is never FALSE: the module is not written out
DoModule ==
    /\ In("module")
    /\ IF Parses(Template)
       THEN LET p == Compile(opts.flags, Template.ast)
            IN WithProgram(p, Exit(0, <<"module", ReadBack(Serialize(p), 0)>>) /\ Consumed)
       ELSE Exit(1, <<>>) /\ Consumed /\ UNCHANGED program
    /\ UNCHANGED <<ast, flags, stage, module, image, here, stored>>

\* do_execute up to its loop: the template is read before the data and parsed
\* after them
DoExecute ==
    /\ In("execute")
    /\ LET left == After(opts.template, stdin)
       IN IF Template = Failure THEN Exit(1, <<>>) /\ stdin' = left /\ UNCHANGED program
          ELSE IF ReadData(left) = "error" \/ ~Parses(Template)
          THEN Exit(1, <<>>) /\ stdin' = After(opts.data, left) /\ UNCHANGED program
          ELSE WithProgram(Compile(opts.flags, Template.ast),
                           /\ at' = "execute"
                           /\ stdin' = After(opts.data, left)
                           /\ UNCHANGED <<argv, opts, out, status>>)
    /\ UNCHANGED <<ast, flags, stage, module, image, here, stored>>

\* One turn of its loop, with a VM of its own, that may throw; only the last text
\* is written
Run ==
    /\ at = "execute"
    /\ \/ Exit(1, <<>>)
       \/ IF opts.runs > 1
          THEN opts' = [opts EXCEPT !.runs = @ - 1] /\ UNCHANGED <<argv, at, out, status>>
          ELSE Exit(0, IF opts.newline THEN <<"text", Resolve(program), "newline">>
                       ELSE <<"text", Resolve(program)>>)
    /\ UNCHANGED <<stdin, vars>>

CliNext ==
    \/ Library \/ Main \/ DoUsage \/ DoVersion \/ DoDebuginfo \/ DoLex \/ DoParse
    \/ DoCompileCommand \/ DoModule \/ DoExecute \/ Run

CliSpec == CliInit /\ [][CliNext]_allVars

-----------------------------------------------------------------------------
(* What was asked for, told from the command line alone: the last option of  *)
(* a kind counts, flags add up, and the first plain argument is the template *)

LastOf(names, default) ==
    LET given == {i \in DOMAIN argv : argv[i].o \in names}
    IN IF given = {} THEN default ELSE argv[Max(given)]
AskedMode == LastOf(Modes, [o |-> "execute"]).o
AskedFlags == UNION {argv[i].arg : i \in {j \in DOMAIN argv : argv[j].o = "flags"}}
AskedFile ==
    LET plain == {i \in DOMAIN argv : argv[i].o = "file"}
    IN IF plain # {} THEN argv[Min(plain)].arg ELSE LastOf({"template"}, [arg |-> NoName]).arg
AskedTemplate == FileGetContents(AskedFile, Stdin)

\* The status tells whether the work was done, and the output is the work: 0 is
\* returned only with all that the mode prints, of the template that was asked
\* for, compiled to its end under all the flags that were given; any error, also
\* one the compiler throws half way, gives 1 and nothing on the standard output.
ExitTells ==
    at = "exited" =>
        /\ status = 1 => out \in {<<>>, <<"usage">>}
        /\ (status = 0 /\ AskedMode \in {"parse", "compile", "module", "execute"}) =>
             LET p == Compile(AskedFlags, AskedTemplate.ast)
             IN /\ Parses(AskedTemplate)
                /\ AskedMode # "parse" => p.err = "none"
                /\ Len(out) >= 2
                /\ out[2] = IF AskedMode = "parse" THEN AskedTemplate.ast ELSE Resolve(p)
=============================================================================
