------------------------------ MODULE MCInputs ------------------------------
(***************************************************************************)
(* The front end of the linker: the options, the diagnostics, the          *)
(* patterns, the search for files, the libraries and the objects.          *)
(* Their modules share no state here: each behaviour is one of one         *)
(* component, the one that `part` names, on the small instances of the     *)
(* cases module; `Over` is the step a component that has ended stays in,   *)
(* so that TLC reports one that is stuck before its end.                   *)
(***************************************************************************)
EXTENDS InputCases

CONSTANTS
    Parts,           \* the components to run
    DylibFamilies,   \* the links of Dylibs
    MaxGiven,        \* bound of Messages: the lines given
    MaxFatal         \* bound of Messages: the workers that meet a fatal error

VARIABLES
    part,   \* the component that runs
    given, kind, args, step, opt, flags, held, waiting, hasError, outLock,
    out, pc, passes, at, mine, child, stretch, death, l, glob, added,
    refused, built, asked, link, paths, stage, tasks, missing, warned,
    misses, loaded, phase, reading, seen, cache, inputs, visited, possible,
    stack, dylibs, counter, merging, indirect, named, errors, before, ranks,
    batch, todo, staged, bases, ids, ctx, image

vars == <<part, given, kind, args, step, opt, flags, held, waiting, hasError,
          outLock, out, pc, passes, at, mine, child, stretch, death, l, glob,
          added, refused, built, asked, link, paths, stage, tasks, missing,
          warned, misses, loaded, phase, reading, seen, cache, inputs,
          visited, possible, stack, dylibs, counter, merging, indirect,
          named, errors, before, ranks, batch, todo, staged, bases, ids, ctx,
          image>>

Options == INSTANCE Options WITH
    Links <- CommandLines
Messages == INSTANCE Messages WITH
    Worker <- {1, 2}, Text <- {1, 2}, OptWarning <- <<1>>, MaxPasses <- 2,
    MaxDying <- MaxFatal
Glob == INSTANCE Glob WITH
    Lists <- GlobLists, Names <- GlobNames, Chars <- GlobChars, Word <- 3,
    Many <- 2
Search == INSTANCE Search WITH
    Links <- SearchLinks
Dylibs == INSTANCE Dylibs WITH
    Links <- DylibFamilies, Public <- DylibPublic
Objects == INSTANCE Objects WITH
    Links <- ObjectLinks, Dwarf <- ObjectDwarf, MaxFdeOffset <- 3,
    PageSpan <- 6, PageEncodings <- 2, PageSlots <- 6, MaxPersonalities <- 3,
    Unmergeable <- {3}

ASSUME Messages!MessageAssumption

Idle == "idle"   \* the variables of the components that do not run

OptionsInit ==
    /\ part = "options" /\ Options!OptionsInit
    /\ opt = Idle /\ flags = Idle /\ held = Idle /\ waiting = Idle
    /\ hasError = Idle /\ outLock = Idle /\ out = Idle /\ pc = Idle
    /\ passes = Idle /\ at = Idle /\ mine = Idle /\ child = Idle
    /\ stretch = Idle /\ death = Idle /\ l = Idle /\ glob = Idle
    /\ added = Idle /\ refused = Idle /\ built = Idle /\ asked = Idle
    /\ link = Idle /\ paths = Idle /\ stage = Idle /\ tasks = Idle
    /\ missing = Idle /\ warned = Idle /\ misses = Idle /\ loaded = Idle
    /\ phase = Idle /\ reading = Idle /\ seen = Idle /\ cache = Idle
    /\ inputs = Idle /\ visited = Idle /\ possible = Idle /\ stack = Idle
    /\ dylibs = Idle /\ counter = Idle /\ merging = Idle /\ indirect = Idle
    /\ named = Idle /\ errors = Idle /\ before = Idle /\ ranks = Idle
    /\ batch = Idle /\ todo = Idle /\ staged = Idle /\ bases = Idle
    /\ ids = Idle /\ ctx = Idle /\ image = Idle
OptionsTakes(A) ==
    /\ part = "options" /\ A
    /\ UNCHANGED <<part, opt, flags, held, waiting, hasError, outLock, out, pc,
                   passes, at, mine, child, stretch, death, l, glob, added,
                   refused, built, asked, link, paths, stage, tasks, missing,
                   warned, misses, loaded, phase, reading, seen, cache,
                   inputs, visited, possible, stack, dylibs, counter,
                   merging, indirect, named, errors, before, ranks, batch,
                   todo, staged, bases, ids, ctx, image>>
OptionsSteps == OptionsTakes(Options!OptionsNext)

MessagesInit ==
    /\ part = "messages" /\ Messages!Init
    /\ kind = Idle /\ args = Idle /\ step = Idle /\ l = Idle /\ glob = Idle
    /\ added = Idle /\ refused = Idle /\ built = Idle /\ asked = Idle
    /\ link = Idle /\ paths = Idle /\ stage = Idle /\ tasks = Idle
    /\ missing = Idle /\ warned = Idle /\ misses = Idle /\ loaded = Idle
    /\ phase = Idle /\ reading = Idle /\ seen = Idle /\ cache = Idle
    /\ inputs = Idle /\ visited = Idle /\ possible = Idle /\ stack = Idle
    /\ dylibs = Idle /\ counter = Idle /\ merging = Idle /\ indirect = Idle
    /\ named = Idle /\ errors = Idle /\ before = Idle /\ ranks = Idle
    /\ batch = Idle /\ todo = Idle /\ staged = Idle /\ bases = Idle
    /\ ids = Idle /\ ctx = Idle /\ image = Idle
MessagesTakes(A) ==
    /\ part = "messages" /\ A
    /\ UNCHANGED <<part, kind, args, step, l, glob, added, refused, built, asked,
                   link, paths, stage, tasks, missing, warned, misses,
                   loaded, phase, reading, seen, cache, inputs, visited,
                   possible, stack, dylibs, counter, merging, indirect,
                   named, errors, before, ranks, batch, todo, staged, bases,
                   ids, ctx, image>>
MessagesSteps == MessagesTakes(Messages!Next)

GlobInit ==
    /\ part = "glob" /\ Glob!GlobInit
    /\ given = Idle /\ kind = Idle /\ args = Idle /\ step = Idle
    /\ opt = Idle /\ flags = Idle /\ held = Idle /\ waiting = Idle
    /\ hasError = Idle /\ outLock = Idle /\ out = Idle /\ pc = Idle
    /\ passes = Idle /\ at = Idle /\ mine = Idle /\ child = Idle
    /\ stretch = Idle /\ death = Idle /\ link = Idle /\ paths = Idle
    /\ stage = Idle /\ tasks = Idle /\ missing = Idle /\ warned = Idle
    /\ misses = Idle /\ loaded = Idle /\ phase = Idle /\ reading = Idle
    /\ seen = Idle /\ cache = Idle /\ inputs = Idle /\ visited = Idle
    /\ possible = Idle /\ stack = Idle /\ dylibs = Idle /\ counter = Idle
    /\ merging = Idle /\ indirect = Idle /\ named = Idle /\ errors = Idle
    /\ before = Idle /\ ranks = Idle /\ batch = Idle /\ todo = Idle
    /\ staged = Idle /\ bases = Idle /\ ids = Idle /\ ctx = Idle
    /\ image = Idle
GlobTakes(A) ==
    /\ part = "glob" /\ A
    /\ UNCHANGED <<part, given, kind, args, step, opt, flags, held, waiting,
                   hasError, outLock, out, pc, passes, at, mine, child,
                   stretch, death, link, paths, stage, tasks, missing,
                   warned, misses, loaded, phase, reading, seen, cache,
                   inputs, visited, possible, stack, dylibs, counter,
                   merging, indirect, named, errors, before, ranks, batch,
                   todo, staged, bases, ids, ctx, image>>
GlobSteps == GlobTakes(Glob!GlobNext)

SearchInit ==
    /\ part = "search" /\ Search!SearchInit
    /\ given = Idle /\ kind = Idle /\ args = Idle /\ step = Idle
    /\ opt = Idle /\ flags = Idle /\ held = Idle /\ waiting = Idle
    /\ hasError = Idle /\ outLock = Idle /\ out = Idle /\ pc = Idle
    /\ passes = Idle /\ mine = Idle /\ child = Idle /\ stretch = Idle
    /\ death = Idle /\ l = Idle /\ glob = Idle /\ added = Idle
    /\ refused = Idle /\ built = Idle /\ asked = Idle /\ phase = Idle
    /\ reading = Idle /\ seen = Idle /\ cache = Idle /\ inputs = Idle
    /\ visited = Idle /\ possible = Idle /\ stack = Idle /\ dylibs = Idle
    /\ counter = Idle /\ merging = Idle /\ indirect = Idle /\ named = Idle
    /\ errors = Idle /\ before = Idle /\ ranks = Idle /\ batch = Idle
    /\ todo = Idle /\ staged = Idle /\ bases = Idle /\ ids = Idle
    /\ ctx = Idle /\ image = Idle
SearchTakes(A) ==
    /\ part = "search" /\ A
    /\ UNCHANGED <<part, given, kind, args, step, opt, flags, held, waiting,
                   hasError, outLock, out, pc, passes, mine, child, stretch,
                   death, l, glob, added, refused, built, asked, phase,
                   reading, seen, cache, inputs, visited, possible, stack,
                   dylibs, counter, merging, indirect, named, errors, before,
                   ranks, batch, todo, staged, bases, ids, ctx, image>>
SearchSteps == SearchTakes(Search!SearchNext)

DylibsInit ==
    /\ part = "dylibs" /\ Dylibs!DylibsInit
    /\ given = Idle /\ kind = Idle /\ args = Idle /\ step = Idle
    /\ opt = Idle /\ flags = Idle /\ held = Idle /\ waiting = Idle
    /\ hasError = Idle /\ outLock = Idle /\ out = Idle /\ pc = Idle
    /\ passes = Idle /\ at = Idle /\ mine = Idle /\ child = Idle
    /\ stretch = Idle /\ death = Idle /\ glob = Idle /\ added = Idle
    /\ refused = Idle /\ built = Idle /\ asked = Idle /\ link = Idle
    /\ paths = Idle /\ stage = Idle /\ tasks = Idle /\ missing = Idle
    /\ misses = Idle /\ loaded = Idle /\ batch = Idle /\ todo = Idle
    /\ staged = Idle /\ bases = Idle /\ ids = Idle /\ ctx = Idle
    /\ image = Idle
DylibsTakes(A) ==
    /\ part = "dylibs" /\ A
    /\ UNCHANGED <<part, given, kind, args, step, opt, flags, held, waiting,
                   hasError, outLock, out, pc, passes, at, mine, child,
                   stretch, death, glob, added, refused, built, asked, link,
                   paths, stage, tasks, missing, misses, loaded, batch, todo,
                   staged, bases, ids, ctx, image>>
DylibsSteps == DylibsTakes(Dylibs!DylibsNext)

ObjectsInit ==
    /\ part = "objects" /\ Objects!ObjectsInit
    /\ given = Idle /\ kind = Idle /\ args = Idle /\ step = Idle
    /\ opt = Idle /\ flags = Idle /\ held = Idle /\ waiting = Idle
    /\ hasError = Idle /\ outLock = Idle /\ out = Idle /\ pc = Idle
    /\ passes = Idle /\ at = Idle /\ mine = Idle /\ child = Idle
    /\ stretch = Idle /\ death = Idle /\ glob = Idle /\ added = Idle
    /\ refused = Idle /\ built = Idle /\ asked = Idle /\ link = Idle
    /\ paths = Idle /\ stage = Idle /\ tasks = Idle /\ missing = Idle
    /\ warned = Idle /\ misses = Idle /\ loaded = Idle /\ reading = Idle
    /\ seen = Idle /\ cache = Idle /\ inputs = Idle /\ visited = Idle
    /\ possible = Idle /\ stack = Idle /\ dylibs = Idle /\ counter = Idle
    /\ merging = Idle /\ indirect = Idle /\ named = Idle /\ errors = Idle
    /\ before = Idle /\ ranks = Idle
ObjectsTakes(A) ==
    /\ part = "objects" /\ A
    /\ UNCHANGED <<part, given, kind, args, step, opt, flags, held, waiting,
                   hasError, outLock, out, pc, passes, at, mine, child,
                   stretch, death, glob, added, refused, built, asked, link,
                   paths, stage, tasks, missing, warned, misses, loaded,
                   reading, seen, cache, inputs, visited, possible, stack,
                   dylibs, counter, merging, indirect, named, errors, before,
                   ranks>>
ObjectsSteps == ObjectsTakes(Objects!ObjectsNext)

Init == part \in Parts /\ (OptionsInit \/ MessagesInit \/ GlobInit \/ SearchInit \/ DylibsInit \/ ObjectsInit)

\* A component that has come to its end.
Over ==
    /\ \/ part = "options" /\ step \in {"done", "refused"}
       \/ part = "messages" /\ child # "run"
       \/ part = "search" /\ stage = "done"
    /\ UNCHANGED vars

Next == OptionsSteps \/ MessagesSteps \/ GlobSteps \/ SearchSteps \/
    DylibsSteps \/ ObjectsSteps \/ Over

Spec == Init /\ [][Next]_vars
-----------------------------------------------------------------------------
\* Each option is settled after those it needs (resolve_options): however late
\* a step changed what they read, the rules of the options that follow from
\* others still give their values once every option is settled.  The image
\* they describe then can be loaded - its fixups take one form, which its
\* loader reads - and its pinned segments, __PAGEZERO and the stack lie apart.
OptionsSettle ==
    part = "options" =>
        Options!EachAfterItsNeeds /\ Options!LoaderCanStart /\ Options!AddressesFit

\* No message given is lost as the link ends: PARALLEL's messages come out
\* "before the next message the link's own thread gives, or as the link ends"
\* (fatal, release_parallel, exit_after_cleanup).
NothingIsLost == part = "messages" => Messages!NothingIsLost

\* The lines come out the same in every run, whatever the order the workers
\* gave theirs in; an option's warning comes out once, however many targets
\* the options were read for; and a link that gave an error does not exit
\* with 0 (emit, release_parallel, checkpoint, release_held).
DiagnosticsRepeat ==
    part = "messages" =>
        Messages!SameEveryRun /\ Messages!OptionsWarnOnce /\ Messages!ErrorsFail

\* The answer to a query of a pattern list is the largest value of a pattern
\* that means the name asked for, -1 if there is none, however the builder
\* sorted the patterns into its automata and whatever was asked before; a
\* malformed pattern means nothing (GlobBuilder::add, build and Glob::find).
LargestMatchIsFound == part = "glob" => Glob!LargestMatchIsFound

\* The files loaded, the files noted as missing for -dependency_info, the
\* warnings and the hints for undefined symbols are those of a linker that
\* looks for one file after another, whatever order the tasks of the
\* auto-link options look in (prefetch_autolinked_stubs and ProbeLog); and the
\* auto-link options kept of an object, which -r writes for a later link,
\* read the same again (read_linker_options).
SearchAsSequential == part = "search" => Search!SearchAsSequential /\ Search!KeptReadsAgain

\* The dylibs that resolution looks in offer every symbol of the libraries
\* the link loaded and of those they re-export, but for what only a missing
\* library leads to; and what a dylib offers, dyld finds in the library of
\* that install name; of the libraries that are re-exported the nearest is
\* looked in first, and of the equally near the one whose re-exporter's name
\* is first (load_reexports, add_library, add_dylib, dylib_ranks).
OffersAreExact ==
    part = "dylibs" =>
        Dylibs!ReexportsAreOffered /\ Dylibs!OffersAreReal /\ Dylibs!RanksAreNearest

\* A library loads as the first option of the command line to name it asks,
\* whatever a library that re-exports it was asked for before; one that is
\* only re-exported is weak if those that bring it are, and only if one is
\* (load_dylib, name_dylib).
NamedAsAsked == part = "dylibs" => Dylibs!NamedAsAsked

\* Integrating a batch of objects with threads puts their subsections,
\* records, CIEs, FDEs and symbols where integrate_object, one object at a
\* time, would; each relocation and symbol stays at its place, pointing where
\* it did (integrate_objects, arena_bases, read_relocations).
IntegratedAsSequential ==
    part = "objects" => Objects!IntegratedAsSequential /\ Objects!PlacesAreKept

\* Wherever the code of an image is stopped, the unwinder finds what the
\* function's own object says of it, and nothing for code no object describes,
\* although objects were rebased, functions dropped and folded, records merged
\* and pages split (remove_dead_unwind_info, encode_unwind_info).
UnwindersFindTheirFunction == part = "objects" => Objects!UnwindersFindTheirFunction
=============================================================================
