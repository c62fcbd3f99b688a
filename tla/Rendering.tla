------------------------------ MODULE Rendering ------------------------------
(***************************************************************************)
(* Templates that call partials through the loader and the in-process      *)
(* cache: execute_template and its callers in handlebars_vm.c, seen from   *)
(* the cache.  Programs run one inside the other on one thread, and the    *)
(* outer ones keep using their modules while the inner ones make room for  *)
(* theirs.  VmExec has the same functions seen from the virtual machine.   *)
(***************************************************************************)
EXTENDS CacheSimple, PartialLoader, FiniteSets

CONSTANTS
    Rewritten,   \* the text that compat mode compiles instead of each: delimiters, indentation
    MaxDepth     \* bound on templates inside templates

ASSUME RewrittenAssumption == Rewritten \in [Templates -> Templates]

VARIABLES
    compat,      \* handlebars_compiler_flag_compat in vm->flags
    frames,      \* the templates being executed, innermost last: [tmpl, live]
    lastUse      \* history: when each template was last found or added

vars == <<limits, map, stat, mapFreed, now, loaded, iter, compat, frames, lastUse>>

Init ==
    /\ CacheInit
    /\ LoaderInit
    /\ compat \in BOOLEAN
    /\ frames = <<>>
    /\ lastUse = [t \in Templates |-> 0]

\* The frames after a step of the cache: an entry that is gone has been freed with
\* its module, which is no longer there for those who execute it.
Live(fs) ==
    [i \in DOMAIN fs |->
        [tmpl |-> fs[i].tmpl,
         live |-> fs[i].live /\ (fs[i].tmpl \in Keys(map) => fs[i].tmpl \in Keys(map'))]]

Entered(t) ==
    /\ frames' = Append(Live(frames), [tmpl |-> t, live |-> TRUE])
    /\ lastUse' = [lastUse EXCEPT ![t] = now]

\* The innermost template runs; it may call only while its own module is there.
Running == frames # <<>> => Last(frames).live
MayCall == Running /\ Len(frames) < MaxDepth

\* execute_template: the module is found by the text, or compiled from what compat
\* mode makes of it, added under that, and executed.
Compiled(t) == IF compat THEN Rewritten[t] ELSE t
ExecuteCached(t) == FindHit(t) /\ Entered(t)
ExecuteCompiled(t) == FindMiss(t) /\ Add(Compiled(t)) /\ Entered(Compiled(t))
\* Or the add throws, and the template renders to nothing.
ExecuteThrows(t) ==
    /\ FindMiss(t) /\ AddThrows(Compiled(t))
    /\ frames' = Live(frames)
    /\ UNCHANGED lastUse
ExecuteTemplate(t) ==
    /\ ExecuteCached(t) \/ ExecuteCompiled(t) \/ ExecuteThrows(t)
    /\ UNCHANGED compat

\* A partial: its text comes from the loader, by name.
CallLoaded(n) == MayCall /\ \E t \in Templates : FindLoaded(n, t) /\ ExecuteTemplate(t)
CallRead(n) == MayCall /\ \E t \in Templates : FindFile(n, t) /\ ExecuteTemplate(t)

\* The file is missing or empty: the template that calls it ends with the error.
CallThrows(n) ==
    /\ MayCall /\ frames # <<>>
    /\ FindFails(n)
    /\ frames' = Front(frames)
    /\ UNCHANGED <<cacheVars, compat, lastUse>>

\* A template given by the application or by a partial that is a string.
CallText(t) == MayCall /\ ExecuteTemplate(t) /\ UNCHANGED loaderVars

\* The end of execute_template, reached in order or by an error; the release of
\* this cache does nothing.
Return ==
    /\ Running /\ frames # <<>>
    /\ frames' = Front(frames)
    /\ UNCHANGED <<cacheVars, loaderVars, compat, lastUse>>

\* Back in a template whose module was freed, or in a cache whose map was:
\* whatever happens, this process is of no more use, and a new one starts.
Crash ==
    /\ ~Running \/ mapFreed
    /\ map' = <<>> /\ stat' = [entries |-> 0, size |-> 0] /\ mapFreed' = FALSE
    /\ loaded' = <<>> /\ iter' = 0
    /\ frames' = <<>> /\ lastUse' = [t \in Templates |-> 0]
    /\ UNCHANGED <<limits, compat, now>>

\* Calls of the application between its templates.
OwnerCalls ==
    /\ frames = <<>>
    /\ \/ (Gc \/ Reset) /\ UNCHANGED <<loaderVars, lastUse>>
       \/ \E t \in Templates :
            /\ \/ Add(t) /\ lastUse' = [lastUse EXCEPT ![t] = now]
               \/ AddThrows(t) /\ UNCHANGED lastUse
            /\ UNCHANGED loaderVars
       \/ (IterInit \/ IterNext) /\ UNCHANGED <<cacheVars, lastUse>>
    /\ UNCHANGED <<compat, frames>>

Time == Tick /\ UNCHANGED <<loaderVars, compat, frames, lastUse>>

Next ==
    \/ \E n \in Names : CallLoaded(n) \/ CallRead(n) \/ CallThrows(n)
    \/ \E t \in Templates : CallText(t)
    \/ Return
    \/ Crash
    \/ OwnerCalls
    \/ Time

Spec == Init /\ [][Next]_vars

-----------------------------------------------------------------------------
(***************************************************************************)
(* Properties.                                                             *)
(***************************************************************************)

(* current_entries and current_size describe the map after any sequence of   *)
(* finds, adds, collections cut short and resets, and after an add that threw  *)
(* for a key that is there (an application adds a template twice, or compat    *)
(* mode adds under another text than it looked for): they are kept by hand in  *)
(* cache_gc, cache_add and cache_reset.  Only when that add moved the entries  *)
(* before it threw is there no map to describe: intern->map is left pointing   *)
(* at the freed one.                                                           *)
StatsAgree ==
    ~mapFreed =>
        /\ stat.entries = Len(map) /\ stat.entries = Cardinality(Keys(map))
        /\ stat.size = Sizes(map)

(* Outside of compat mode that loss is the doing of an application that adds   *)
(* what it added before.  execute_template adds only what it did not find,     *)
(* however old that is, and nothing comes in between: templates never run, and *)
(* never call others, on a cache whose map is gone.                            *)
TemplatesKeepMap == ~compat /\ frames # <<>> => ~mapFreed

(* The limits are tested before an add: without the module that was added     *)
(* last, the cache is within max_entries and max_size, and never one more.     *)
LimitsKept ==
    map # <<>> =>
        /\ limits.entries > 0 => Len(Front(map)) <= limits.entries
        /\ limits.size > 0 => Sizes(Front(map)) <= limits.size

(* cache_gc takes the least recently used modules: while the process lives,   *)
(* a template leaves the cache only if the owner reset it, if it was not used  *)
(* for max_age seconds, or if what was used at least as recently as it is      *)
(* already more than the limits allow.  So an executing template loses its     *)
(* module only to that many templates called since, or by its age.             *)
RecentlyUsedStay ==
    [][\A t \in Keys(map) \ Keys(map') :
        LET recent == SelectSeq(map, LAMBDA e : lastUse[e.key] >= lastUse[t])
        IN  \/ map' = <<>> /\ (frames = <<>> \/ ~Running \/ mapFreed)
            \/ limits.age >= 0 /\ now - lastUse[t] >= limits.age
            \/ limits.entries > 0 /\ Len(recent) > limits.entries
            \/ limits.size > 0 /\ Sizes(recent) > limits.size]_vars

=============================================================================
