------------------------------- MODULE Search -------------------------------
(***************************************************************************)
(* How the linker finds the files its inputs and the objects' auto-link    *)
(* options name (reader.rs): the search path under the -syslibroots, the   *)
(* places each option looks in, in order, and the prober, which looks for  *)
(* a file and its stub and notes what is not there.  The inputs are looked *)
(* for one after another.  The auto-link options, read from the objects'   *)
(* words, are looked for by one task each, all at once; a task keeps what  *)
(* it notes and warns of in a log of its own, which the serial loop that   *)
(* loads what was found gives in its turn.                                 *)
(*                                                                         *)
(* A path is a record of its parts.  The file system does not change       *)
(* while the linker runs, so the memo of file_exists, which every search   *)
(* goes through, answers what the file system would.                       *)
(***************************************************************************)
EXTENDS Integers, Sequences, SequencesExt

CONSTANTS Links,      \* a family of sets of links
          None

VARIABLES link,       \* the options, the inputs, the objects' words, the files there are
          paths,      \* Args::library_paths and framework_paths, once settled
          stage,      \* "paths", "inputs", "ahead", "serial" or "done"
          at,         \* the input, or the auto-link option of the serial loop, under way
          tasks,      \* the searches under way: one input's, or each auto-link option's
          missing,    \* Context::missing_files
          warned,     \* the warnings given: the libraries found next to their stubs
          misses,     \* Context::autolink_misses
          loaded      \* the files read, each with how its option names it

searchVars == <<link, paths, stage, at, tasks, missing, warned, misses, loaded>>

-----------------------------------------------------------------------------
\* The search path.  A directory is [root, dir]; root "" is none.

\* -syslibroot / anywhere puts no directory under a root ...
SearchRoots == IF Contains(link.roots, "/") THEN <<>> ELSE link.roots

\* ... and as the last one drops the roots of the files options name too.
SdkRoots == IF link.roots # <<>> /\ Last(link.roots) = "/" THEN <<>> ELSE link.roots

IsAbsolute(dir) == dir \notin link.relative

IsThere(d) == d \in link.directories

\* What one directory adds to the search path.
PushSearchDir(dir, isGiven) ==
    LET under == SelectSeq([i \in DOMAIN SearchRoots |-> [root |-> SearchRoots[i], dir |-> dir]],
                           IsThere)
        plain == [root |-> "", dir |-> dir]
    IN  IF IsAbsolute(dir) /\ under # <<>> THEN under
        ELSE IF IsAbsolute(dir) /\ ~ isGiven /\ Len(SearchRoots) = 1 THEN <<>>
        ELSE IF IsThere(plain) THEN <<plain>> ELSE <<>>

\* A sequence without the elements seen before in it.
FirstOnly(s) == FoldLeft(LAMBDA out, x : IF Contains(out, x) THEN out ELSE Append(out, x), <<>>, s)

Pushed(dirs, isGiven) == FlattenSeq([i \in DOMAIN dirs |-> PushSearchDir(dirs[i], isGiven)])

SearchDirs(dirs, standard) ==
    Pushed(FirstOnly(dirs), TRUE) \o (IF link.noStandard THEN <<>> ELSE Pushed(standard, FALSE))

-----------------------------------------------------------------------------
\* The places a search looks in: [path, mode], where mode says whether the
\* file is "taken" unseen, looked for "itself", or with its "stub".

PathOf(d, sub, name, variant, suffix, ext) ==
    [root |-> d.root, dir |-> d.dir, sub |-> sub, name |-> name, variant |-> variant,
     suffix |-> suffix, ext |-> ext]

Place(path, mode) == [path |-> path, mode |-> mode]

WithImageSuffixes == Append(link.imageSuffixes, "")

\* lib<name> in the library search path, for each pass of files in turn.
SearchLibrary(name, passes) ==
    LET dirs == paths.library
        place(d, suffix, file) ==
            Place(PathOf(d, "", name, "", suffix, IF file = "dylibItself" THEN "dylib" ELSE file),
                  IF file = "dylib" THEN "stub" ELSE "itself")
    IN  IF name \in link.objectNames
        THEN [d \in DOMAIN dirs |-> Place(PathOf(dirs[d], "", name, "", "", "o"), "itself")]
        ELSE FlattenSeq([p \in DOMAIN passes |->
               FlattenSeq([d \in DOMAIN dirs |->
                 FlattenSeq([s \in DOMAIN WithImageSuffixes |->
                   [f \in DOMAIN passes[p] |->
                       place(dirs[d], WithImageSuffixes[s], passes[p][f])]])])])

FindLibrary(name) ==
    SearchLibrary(name, IF ~ link.linksDylibs THEN <<<<"a">>>>
                        ELSE IF link.dylibsFirst THEN <<<<"dylib", "so">>, <<"a">>>>
                        ELSE <<<<"dylib", "so", "a">>>>)

FindDylib(name) == SearchLibrary(name, <<<<"dylib", "so">>>>)

FindMergeableDylib(name) == SearchLibrary(name, <<<<"dylibItself", "so">>>>)

\* Name.framework/Name, or its variant Name,suffix first; then in the sparse ones.
FindFramework(name, variant, mode) ==
    LET dirs == paths.framework
        variants == IF variant = "" THEN <<"">> ELSE <<variant, "">>
        search(sub) ==
            FlattenSeq([v \in DOMAIN variants |->
              FlattenSeq([d \in DOMAIN dirs |->
                [s \in DOMAIN WithImageSuffixes |->
                   Place(PathOf(dirs[d], sub, name, variants[v], WithImageSuffixes[s], "framework"),
                         mode)]])])
    IN  search("") \o (IF link.sparse THEN search("Versions/Current") ELSE <<>>)

\* A path an option names: under each -syslibroot, then as it is.
FindFile(path, mode) ==
    (IF IsAbsolute(path.dir) /\ path.ext # "o"
     THEN [r \in DOMAIN SdkRoots |-> Place([path EXCEPT !.root = SdkRoots[r]], mode)]
     ELSE <<>>)
    \o <<Place(path, "itself")>>

\* Where the file an input names is looked for.
FindInput(input) ==
    LET lib == input.name
    IN  CASE input.type = "file" /\ input.path.ext = "a" -> FindFile(input.path, "stub")
          [] input.type = "file" /\ input.path.ext # "a" -> <<Place(input.path, "taken")>>
          [] input.type = "path" -> FindFile(input.path, IF input.kind = "merge" THEN "itself" ELSE "stub")
          [] input.type = "lib" /\ input.kind \in {"upward", "reexport", "delay"} -> FindDylib(lib)
          [] input.type = "lib" /\ input.kind = "merge" -> FindMergeableDylib(lib)
          [] input.type = "lib" /\ input.kind \in {"plain", "weak"} -> FindLibrary(lib)
          [] input.type = "framework" ->
                FindFramework(lib, input.variant, IF input.kind = "merge" THEN "itself" ELSE "stub")

-----------------------------------------------------------------------------
\* The objects' auto-link options.  A word is a sequence of its parts, so
\* that -lz is <<"-l", "z">> and -l by itself <<"-l">>.

TakesArgument == {"-l", "-framework", "-force_load", "-weak_framework", "-weak_library", "-L"}

Joined == {"-needed-l", "-hidden-l", "-weak-l", "-l", "-L"}

\* What an option and its argument are kept as: nothing, or a command.
KeptWith(word, arg) ==
    CASE word[1] = "-l" -> <<<<word \o arg>>>>
      [] word[1] \in {"-weak_framework", "-weak_library", "-L"} -> <<>>
      [] OTHER -> <<<<word, arg>>>>

KeptAlone(word) ==
    IF /\ word # <<>> /\ word[1] \in Joined \ {"-weak-l", "-L"}
       /\ Len(word) > 1
    THEN <<<<word>>>>
    ELSE <<>>

\* One word read: libs is what is kept so far, flag the option that waits
\* for its argument, <<>> for none.
ReadWord(r, word) ==
    IF r.flag # <<>>
    THEN [libs |-> IF word = <<>> THEN r.libs ELSE r.libs \o KeptWith(r.flag, word), flag |-> <<>>]
    ELSE IF Len(word) = 1 /\ word[1] \in TakesArgument THEN [r EXCEPT !.flag = word]
    ELSE [r EXCEPT !.libs = @ \o KeptAlone(word)]

\* The options a row of words keeps, one to a command.
ReadLinkerOptions(opts) == FoldLeft(ReadWord, [libs |-> <<>>, flag |-> <<>>], FlattenSeq(opts)).libs

\* Where the file an auto-link option names is looked for.
FindAutolinked(opt) ==
    IF Len(opt) = 1 THEN FindLibrary(Last(opt[1]))
    ELSE IF opt[1] = <<"-framework">> THEN FindFramework(opt[2][1], "", "stub")
    ELSE <<Place(PathOf([root |-> "", dir |-> "."], "", opt[2][1], "", "", "a"), "taken")>>

\* The options not looked for yet, each once and in order.
Pending == LET kept == UNION {ToSet(ReadLinkerOptions(link.objects[o])) : o \in DOMAIN link.objects}
           IN  SelectSeq(link.sorted, LAMBDA opt : opt \in kept)

-----------------------------------------------------------------------------
\* The prober, one task of which looks for one option's file: places is what
\* is left to look in, stub whether the stub of the first one is there.

NewTask(places) ==
    [places |-> places, stub |-> None, found |-> None, ended |-> places = <<>>,
     missing |-> <<>>, warnings |-> <<>>]

StubOf(path) == [path EXCEPT !.ext = "tbd"]

Exists(path) == path \in link.files

\* Which of a library and its stub is linked, where either is.
Chosen(path, stub) ==
    LET library == Exists(path)
    IN  IF ~ stub THEN IF library THEN path ELSE None
        ELSE IF ~ library \/ path.root \notin link.sdks \/ link.preferStubs THEN StubOf(path)
        ELSE path

\* Faulty variant: the stub alone is looked for where it is there.
Probed_StubOnly(t) ==
    LET place == Head(t.places)
        stubFirst == place.mode = "stub" /\ t.stub = None
        looked == IF stubFirst THEN StubOf(place.path) ELSE place.path
        noted == IF place.mode = "taken" \/ Exists(looked) THEN t.missing ELSE Append(t.missing, looked)
        chosen == CASE place.mode = "taken" -> place.path
                    [] place.mode = "itself" -> IF Exists(looked) THEN looked ELSE None
                    [] OTHER -> Chosen(place.path, t.stub)
    IN  IF stubFirst /\ Exists(looked) THEN [t EXCEPT !.found = looked, !.ended = TRUE]
        ELSE IF stubFirst THEN [t EXCEPT !.stub = FALSE, !.missing = noted]
        ELSE [t EXCEPT !.stub = None, !.missing = noted, !.found = chosen,
                       !.places = Tail(@), !.ended = chosen # None \/ Len(t.places) = 1]

\* The task after it has looked for one more file.
Probed(t) ==
    LET place == Head(t.places)
        stubFirst == place.mode = "stub" /\ t.stub = None
        looked == IF stubFirst THEN StubOf(place.path) ELSE place.path
        noted == IF place.mode = "taken" \/ Exists(looked) THEN t.missing ELSE Append(t.missing, looked)
        chosen == CASE place.mode = "taken" -> place.path
                    [] place.mode = "itself" -> IF Exists(looked) THEN looked ELSE None
                    [] OTHER -> Chosen(place.path, t.stub)
        unexpected == place.mode = "stub" /\ t.stub = TRUE /\ chosen = place.path
                      /\ StubOf(place.path) # place.path
    IN  IF stubFirst THEN [t EXCEPT !.stub = Exists(looked), !.missing = noted]
        ELSE [t EXCEPT !.stub = None, !.missing = noted, !.found = chosen,
                       !.warnings = IF unexpected THEN Append(@, place.path) ELSE @,
                       !.places = Tail(@), !.ended = chosen # None \/ Len(t.places) = 1]

\* set_search_paths, once the options are checked.
SetSearchPaths ==
    /\ stage = "paths"
    /\ paths' = [library |-> SearchDirs(link.libraryDirs, link.standardDirs),
                 framework |-> SearchDirs(link.frameworkDirs, link.standardFrameworks)]
    /\ stage' = "inputs"
    /\ UNCHANGED <<link, at, tasks, missing, warned, misses, loaded>>

\* The next input is looked for.
StartInput ==
    /\ stage = "inputs" /\ at \in DOMAIN link.inputs /\ tasks = <<>>
    /\ tasks' = <<NewTask(FindInput(link.inputs[at]))>>
    /\ UNCHANGED <<link, paths, stage, at, missing, warned, misses, loaded>>

\* A step of a search, of the input under way or of any auto-link option's.
Probe ==
    /\ stage \in {"inputs", "ahead"}
    /\ \E i \in DOMAIN tasks :
          /\ ~ tasks[i].ended
          /\ tasks' = [tasks EXCEPT ![i] = Probed(@)]
    /\ UNCHANGED <<link, paths, stage, at, missing, warned, misses, loaded>>

\* What a search gives where it stands in the link: ProbeLog::replay of a
\* search made ahead, and the notes a prober makes at once otherwise.
Replay(t) ==
    /\ missing' = IF link.dependencyInfo THEN missing \o t.missing ELSE missing
    /\ warned' = warned \o t.warnings

IsInSdk(path) == path.root # "" /\ Contains(SdkRoots, path.root)

\* The input under way is found or not.
EndInput ==
    /\ stage = "inputs" /\ tasks # <<>> /\ tasks[1].ended
    /\ Replay(tasks[1])
    /\ loaded' = IF tasks[1].found = None THEN loaded
                 ELSE Append(loaded, [path |-> tasks[1].found, hidden |-> FALSE, force |-> FALSE,
                                      sdk |-> IsInSdk(tasks[1].found)])
    /\ at' = at + 1
    /\ tasks' = <<>>
    /\ UNCHANGED <<link, paths, stage, misses>>

\* The auto-link options of the objects loaded are looked for, all at once.
StartAhead ==
    /\ stage = "inputs" /\ at > Len(link.inputs)
    /\ stage' = "ahead"
    /\ at' = 1
    /\ tasks' = [i \in DOMAIN Pending |-> NewTask(FindAutolinked(Pending[i]))]
    /\ UNCHANGED <<link, paths, missing, warned, misses, loaded>>

EndAhead ==
    /\ stage = "ahead" /\ \A i \in DOMAIN tasks : tasks[i].ended
    /\ stage' = "serial"
    /\ UNCHANGED <<link, paths, at, tasks, missing, warned, misses, loaded>>

\* How the file of an auto-link option is named.
AutolinkedInput(opt, path) ==
    [path |-> path,
     hidden |-> Len(opt) = 1 /\ opt[1][1] = "-hidden-l",
     force |-> \/ Len(opt) = 1 /\ link.forceSwift /\ path.name \in link.swift
               \/ opt[1] = <<"-force_load">>,
     sdk |-> (Len(opt) = 1 \/ opt[1] = <<"-framework">>) /\ IsInSdk(path)]

\* The serial loop loads what the search of the next option found.
LoadAutolinked ==
    /\ stage = "serial" /\ at \in DOMAIN tasks
    /\ Replay(tasks[at])
    /\ IF tasks[at].found = None
       THEN misses' = Append(misses, Pending[at]) /\ UNCHANGED loaded
       ELSE loaded' = Append(loaded, AutolinkedInput(Pending[at], tasks[at].found)) /\ UNCHANGED misses
    /\ at' = at + 1
    /\ UNCHANGED <<link, paths, stage, tasks>>

EndSerial ==
    /\ stage = "serial" /\ at > Len(tasks)
    /\ stage' = "done"
    /\ UNCHANGED <<link, paths, at, tasks, missing, warned, misses, loaded>>

SearchInit ==
    /\ \E family \in Links : link \in family
    /\ paths = [library |-> <<>>, framework |-> <<>>]
    /\ stage = "paths" /\ at = 1 /\ tasks = <<>>
    /\ missing = <<>> /\ warned = <<>> /\ misses = <<>> /\ loaded = <<>>

SearchNext == SetSearchPaths \/ StartInput \/ Probe \/ EndInput \/ StartAhead \/ EndAhead \/ LoadAutolinked \/ EndSerial

SearchSpec == SearchInit /\ [][SearchNext]_searchVars

-----------------------------------------------------------------------------
\* What a search of places gives when it is made by itself: the first place
\* that has the file or its stub, and what was not there up to it.
Has(place) == \/ place.mode = "taken" \/ Exists(place.path)
              \/ place.mode = "stub" /\ Exists(StubOf(place.path))

LookedIn(places) ==
    IF \E i \in DOMAIN places : Has(places[i])
    THEN CHOOSE i \in DOMAIN places : Has(places[i]) /\ \A j \in 1..(i - 1) : ~ Has(places[j])
    ELSE Len(places)

NotThere(place) ==
    IF place.mode = "taken" THEN <<>>
    ELSE SelectSeq(IF place.mode = "stub" THEN <<StubOf(place.path), place.path>> ELSE <<place.path>>,
                   LAMBDA path : ~ Exists(path))

Alone(places) ==
    LET last == LookedIn(places)
        place == places[last]
        both == /\ place.mode = "stub" /\ Exists(place.path) /\ Exists(StubOf(place.path))
                /\ StubOf(place.path) # place.path
        library == Exists(place.path) /\ (both => place.path.root \in link.sdks /\ ~ link.preferStubs)
    IN  [missing |-> FlattenSeq([i \in 1..last |-> NotThere(places[i])]),
         found |-> IF places = <<>> \/ ~ Has(place) THEN None
                   ELSE IF place.mode # "stub" \/ library THEN place.path ELSE StubOf(place.path),
         warnings |-> IF places # <<>> /\ both /\ library THEN <<place.path>> ELSE <<>>]

\* The files loaded, the files noted as missing for -dependency_info, the
\* warnings and the hints for undefined symbols are those of a linker that
\* looks for one file after another, whatever order the tasks of the
\* auto-link options look in (prefetch_autolinked_stubs and ProbeLog): a
\* build repeats, and the build system learns of every file that matters.
SearchAsSequential ==
    stage = "done" =>
        LET inputs == [i \in DOMAIN link.inputs |-> Alone(FindInput(link.inputs[i]))]
            options == [i \in DOMAIN Pending |-> Alone(FindAutolinked(Pending[i]))]
            all == inputs \o options
            notes(f(_)) == FlattenSeq([i \in DOMAIN all |-> f(all[i])])
            wanted == SelectSeq(all, LAMBDA r : r.found # None)
        IN  /\ missing = IF link.dependencyInfo THEN notes(LAMBDA r : r.missing) ELSE <<>>
            /\ warned = notes(LAMBDA r : r.warnings)
            /\ [i \in DOMAIN loaded |-> loaded[i].path] = [i \in DOMAIN wanted |-> wanted[i].found]
            /\ misses = SelectSeq(Pending, LAMBDA opt : Alone(FindAutolinked(opt)).found = None)

\* What is kept of an object's auto-link options reads the same again
\* (read_linker_options): -r writes the options kept for a later link to
\* read, and options of several objects are told apart as they are kept.
KeptReadsAgain ==
    \A o \in DOMAIN link.objects :
        LET kept == ReadLinkerOptions(link.objects[o])
        IN  ReadLinkerOptions(kept) = kept
=============================================================================
