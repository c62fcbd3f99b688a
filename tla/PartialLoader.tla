---------------------------- MODULE PartialLoader ----------------------------
(***************************************************************************)
(* The value of handlebars_partial_loader.c: a map from the names of       *)
(* partials to the texts of files, filled when a name is first asked for.  *)
(* What a file holds when it is opened is up to the world.                 *)
(***************************************************************************)
EXTENDS Integers, Sequences

CONSTANT Names               \* names of partials

VARIABLES
    loaded,      \* the map of the loader, in order: [key, text]
    iter         \* 0, or one more than the index of the iteration going on

loaderVars == <<loaded, iter>>

LoaderInit == loaded = <<>> /\ iter = 0

HasLoaded(n) == \E i \in DOMAIN loaded : loaded[i].key = n
TextOf(n) == loaded[CHOOSE i \in DOMAIN loaded : loaded[i].key = n].text

\* hbs_partial_loader_map_find for a name that was asked for before: the file is
\* not looked at again.
FindLoaded(n, text) ==
    /\ HasLoaded(n)
    /\ text = TextOf(n)
    /\ UNCHANGED loaderVars

\* The file is read and remembered.
FindFile(n, text) ==
    /\ ~HasLoaded(n)
    /\ loaded' = Append(loaded, [key |-> n, text |-> text])
    /\ UNCHANGED iter

\* No such file, or an empty one, of which fread reads no element: both throw.
FindFails(n) ==
    /\ ~HasLoaded(n)
    /\ UNCHANGED loaderVars

\* hbs_partial_loader_iterator_init: no loop over an empty map; a loop inside a
\* loop would abort the process, and no caller nests them.
IterInit ==
    /\ iter = 0 /\ loaded # <<>>
    /\ iter' = 1
    /\ UNCHANGED loaded

\* hbs_partial_loader_iterator_next_map: names loaded during the loop are met too.
IterNext ==
    /\ iter # 0
    /\ iter' = IF iter - 1 >= Len(loaded) - 1 THEN 0 ELSE iter + 1
    /\ UNCHANGED loaded

=============================================================================
