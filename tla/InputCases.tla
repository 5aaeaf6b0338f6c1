-------------------------------- MODULE InputCases --------------------------------
(***************************************************************************)
(* The small instances of the input side: the command lines, the pattern   *)
(* lists, the searches, the libraries and the objects that MCInputs        *)
(* enumerates.                                                             *)
(***************************************************************************)
EXTENDS Integers, Sequences, FiniteSets, TLC, SequencesExt

CONSTANT None   \* an absent value

-----------------------------------------------------------------------------
\* Options: Families of command lines for Options, each varying the options
\* that one group of rules reads.

OptionPlain ==
    [kinds |-> <<>>, kernel |-> FALSE, arch |-> "arm64", platform |-> "macos", minos |-> 140000,
     triple |-> None, inputs |-> <<>>, codeTables |-> None, adhocCodesign |-> None,
     relativeLists |-> None, rpaths |-> FALSE, headerpad |-> None, entry |-> None,
     segaddrs |-> <<>>, lazyLibraries |-> {}, delayLibraries |-> {}, init |-> None,
     pie |-> None, chains |-> None, chainStarts |-> FALSE, rebaseSection |-> FALSE,
     bindAtLoad |-> FALSE, initOffsets |-> FALSE, readOnlyRelocs |-> None,
     notForCache |-> FALSE, debugVariant |-> FALSE, splitSeg |-> FALSE, installed |-> "other",
     stubsSmall |-> None, ignoreHints |-> FALSE, makeMergeable |-> FALSE,
     encryptable |-> None, noEncrypt |-> FALSE, segalign |-> None, oslogAlign |-> None,
     segprots |-> <<>>, pageSizes |-> <<>>, pagezero |-> None, stackSize |-> None,
     stackAddr |-> None, dataConst |-> None, constSelrefs |-> None,
     dynamicLookup |-> FALSE, segmentOrder |-> <<>>, imageBase |-> None, unaligned |-> None,
     dyldEnv |-> FALSE, clientName |-> FALSE, flatNamespace |-> FALSE, debugHook |-> FALSE,
     deadStrip |-> FALSE, movesSymbols |-> FALSE, sectionOrder |-> FALSE,
     allowedUndefined |-> {}, bundleLoader |-> FALSE, reexportsListed |-> FALSE,
     noDynamicAccess |-> FALSE]

Opt(S) == S \cup {None}

Kinds == {<<>>, <<"-static">>, <<"-dylib">>, <<"-bundle">>, <<"-r">>, <<"-preload">>, <<"-kext">>,
          <<"-dylinker">>}

\* A kind given more than once: -static is a modifier as much as a kind.
ManyKinds == {<<k, l, m>> : k, l \in {"-execute", "-static", "-dylib", "-r", "-kext", "-preload"},
                            m \in {"-execute", "-static", "-bundle"}}

OptionOS == {<<"macos", 100500>>, <<"macos", 100700>>, <<"macos", 101504>>, <<"macos", 120000>>,
       <<"macos", 130000>>, <<"macos", 270000>>, <<"ios", 40000>>, <<"ios", 130300>>,
       <<"iossim", 150000>>, <<"tvos", 140000>>, <<"visionos", 10000>>, <<"firmware", 0>>}

OfKind == {[OptionPlain EXCEPT !.kinds = k] : k \in ManyKinds}

\* The fixups, on every OptionOS and for every kind of image.
FixedUp == {[OptionPlain EXCEPT !.kinds = k, !.arch = a, !.platform = o[1], !.minos = o[2], !.pie = p,
                          !.chains = c, !.dynamicLookup = d] :
               k \in Kinds, a \in {"arm64", "x86_64"}, o \in OptionOS, p \in Opt(BOOLEAN),
               c \in Opt(BOOLEAN), d \in BOOLEAN}

\* Fixups in a section of their own, and text relocations.
Sectioned == {[OptionPlain EXCEPT !.kinds = k, !.arch = a, !.kernel = n, !.chains = c,
                            !.chainStarts = s, !.rebaseSection = r, !.readOnlyRelocs = t,
                            !.bindAtLoad = b] :
                 k \in Kinds, a \in {"arm64", "x86_64"}, n \in BOOLEAN, c \in Opt({TRUE}),
                 s, r \in BOOLEAN, t \in Opt(BOOLEAN), b \in BOOLEAN}

\* Images bound for the shared cache.
Cached == {[OptionPlain EXCEPT !.kinds = k, !.arch = "x86_64", !.minos = v, !.installed = i,
                         !.splitSeg = s, !.notForCache = n, !.flatNamespace = f,
                         !.dynamicLookup = d, !.stubsSmall = t, !.allowedUndefined = u] :
              k \in {<<>>, <<"-dylib">>, <<"-kext">>, <<"-dylinker">>}, v \in {100500, 130000},
              i \in {"system", "apple", "other"}, s, n, f, d \in BOOLEAN,
              t \in Opt({TRUE}), u \in {{}, {"_main"}, {"_u"}}}

\* Where the image goes: __PAGEZERO, pins, stack and base on pages.
Placed == {[OptionPlain EXCEPT !.kinds = k, !.arch = "x86_64", !.minos = 100700, !.segalign = s,
                         !.chains = c, !.pagezero = z, !.stackSize = n, !.stackAddr = d,
                         !.segaddrs = p] :
              k \in {<<>>, <<"-static">>, <<"-r">>}, s \in Opt({8, 9}), c \in Opt({TRUE}),
              z \in Opt({0, 5, 33, 126}), n \in Opt({0, 4, 8, 50}), d \in Opt({0, 16, 64, 4}),
              p \in {<<>>, <<<<"__TEXT", 48>>, <<"__DATA", 88>>>>, <<<<"__UNIXSTACK", 64>>>>,
                     <<<<"__TEXT", 48>>, <<"__TEXT", 40>>>>, <<<<"__TEXT", 40>>, <<"__DATA", 40>>>>}}

Based == {[OptionPlain EXCEPT !.kinds = k, !.arch = "x86_64", !.pie = p, !.chains = c, !.imageBase = b,
                        !.segaddrs = t] :
             k \in {<<>>, <<"-static">>, <<"-dylib">>, <<"-r">>}, p \in Opt(BOOLEAN),
             c \in Opt(BOOLEAN), b \in Opt({0, 41, 48, 127}),
             t \in {<<>>, <<<<"__TEXT", 48>>>>}}

\* Pages, protections and encryption.
Paged == {[OptionPlain EXCEPT !.kinds = k, !.platform = "ios", !.encryptable = e, !.segalign = s,
                        !.pageSizes = z, !.segprots = <<<<"__A", 7, 5>>, <<"__A", 3, 3>>>>,
                        !.noEncrypt = n, !.headerpad = 0, !.deadStrip = n] :
             k \in Kinds, e \in Opt(BOOLEAN), s \in Opt({2, 11}),
             z \in {<<>>, <<<<"__A", 17>>, <<"__A", 32>>>>, <<<<"__A", 0>>>>}, n \in BOOLEAN}

\* The target as the inputs tell it, and the entry point.
Told == {[OptionPlain EXCEPT !.kinds = k, !.arch = a, !.platform = None, !.minos = 0, !.inputs = i,
                       !.entry = e, !.triple = t] :
            k \in {<<>>, <<"-dylinker">>, <<"-preload">>, <<"-r">>}, a \in Opt({"x86_64"}),
            i \in {<<>>, <<[type |-> "bitcode", arch |-> "arm64", platform |-> "ios", minos |-> 90000],
                           [type |-> "object", arch |-> "x86_64", platform |-> None, minos |-> 0]>>,
                   <<[type |-> "archive", arch |-> "arm64", platform |-> "ios", minos |-> 90000],
                     [type |-> "object", arch |-> "x86_64", platform |-> "macos", minos |-> 100700]>>},
            e \in Opt({"start", "_go"}),
            t \in Opt({[arch |-> "arm64", platform |-> "firmware", minos |-> 0]})}

\* Options at odds with the kind of output.
AtOdds == {[OptionPlain EXCEPT !.kinds = k, !.pie = p, !.segmentOrder = s, !.dyldEnv = (x = 1),
                         !.clientName = (x = 2), !.makeMergeable = (x = 3 \/ x = 4),
                         !.debugHook = (x = 4), !.movesSymbols = (x = 5), !.dataConst = d,
                         !.sectionOrder = (x = 6), !.bundleLoader = (x = 7), !.kernel = (x = 8),
                         !.noDynamicAccess = (x = 9), !.unaligned = "warning",
                         !.delayLibraries = {"d"}, !.lazyLibraries = {"l"}, !.init = "_i",
                         !.platform = o, !.minos = 270000] :
              k \in Kinds, p \in Opt({TRUE}), s \in {<<>>, <<"__TEXT">>, <<"__TEXT", "__DATA">>},
              x \in 0..9, d \in Opt(BOOLEAN), o \in {"macos", "firmware"}}

CommandLines == {OfKind, FixedUp, Sectioned, Cached, Placed, Based, Paged, Told, AtOdds}

-----------------------------------------------------------------------------
\* Glob: Patterns of every kind over two letters, alone and in lists of up
\* to four, with words of three bits and the NFA from two patterns on.

Star == 10
Question == 11
Open == 12
Close == 13
Backslash == 14
Dash == 15

GlobChars == {1, 2, Star, Question, Open, Close, Backslash, Dash}
GlobNames == UNION {[1 .. n -> {1, 2}] : n \in 0 .. 4} \cup {<<Star>>, <<Backslash>>, <<1, Star>>, <<1, Dash>>}

GlobP(pat) == [pat |-> pat, literal |-> FALSE]
GlobL(pat) == [pat |-> pat, literal |-> TRUE]

Patterns(n) == [1 .. n -> {1, 2, Star, Question}]
Odd == {<<Open, 1, Close, 2>>, <<Open, 1, Dash, 2, Close>>, <<1, Open, 2, Dash, 1, Close>>, <<Open, Close, 1>>,
        <<1, Backslash, Star>>, <<Backslash>>, <<1, Open>>, <<Open, Dash, 1, Close>>, <<Star, Open, 1, 2, Close>>,
        <<Open, 1, Dash, Close>>, <<Star, 1, Question, Star, 2>>, <<Open, 1, Dash, 1, Dash, 2, Close>>}

\* One pattern
Singles == {<<GlobP(p)>> : p \in UNION {Patterns(n) : n \in 0 .. 4} \cup Odd}

\* Substrings, of which one is in another, and patterns the automata take together
Substrings == {<<Star>> \o s \o <<Star>> : s \in UNION {[1 .. n -> {1, 2}] : n \in 1 .. 3}}
Complex == {<<1, Star, 2>>, <<Question, 2>>, <<Star, 1, Star, 2>>, <<1, Question, Star>>, <<Open, 1, Close, 2>>, <<Question, Question, Question>>}

Lists2 == {<<GlobP(a), GlobP(b)>> : a, b \in Substrings} \cup {<<GlobP(a), GlobP(b)>> : a, b \in Complex}
          \cup {<<GlobP(a), GlobP(b), GlobP(<<1, Open>>)>> : a \in Complex, b \in Odd}
Mixed == {<<GlobP(a), GlobP(b), c, GlobP(d)>> : a \in {<<Star>>, <<1, Star>>, <<Star, 2>>, <<1, 2>>}, b \in Complex,
                                   c \in {GlobL(<<1, Star>>), GlobP(<<Star, 1, 2, Star>>), GlobP(<<2, Star>>), GlobL(<<1, 2>>)},
                                   d \in {<<Star, 1>>, <<Star, 2, 1, Star>>, <<Star>>, <<1, Star, 1>>}}

GlobLists == {Singles, Lists2, Mixed}

-----------------------------------------------------------------------------
\* Search: Links for Search: every set of files among a few that a search
\* may meet.

SearchP(root, dir, name, variant, suffix, ext) ==
    [root |-> root, dir |-> dir, sub |-> "", name |-> name, variant |-> variant, suffix |-> suffix,
     ext |-> ext]

SearchD(root, dir) == [root |-> root, dir |-> dir]

SearchLz == <<<<"-l", "z">>>>

SearchLq == <<<<"-hidden-l", "q">>>>

SearchFw == <<<<"-framework">>, <<"F">>>>

Load == <<<<"-force_load">>, <<"w">>>>

SearchPlain ==
    [roots |-> <<"sdk">>, relative |-> {"."}, directories |-> {SearchD("sdk", "/usr"), SearchD("", "/usr"), SearchD("", ".")},
     libraryDirs |-> <<".", "/usr">>, frameworkDirs |-> <<"/usr">>, standardDirs |-> <<"/usr">>,
     standardFrameworks |-> <<"/usr">>, noStandard |-> TRUE, imageSuffixes |-> <<>>,
     objectNames |-> {"c"}, linksDylibs |-> TRUE, dylibsFirst |-> FALSE, sparse |-> FALSE,
     files |-> {}, sdks |-> {"sdk"}, preferStubs |-> FALSE, dependencyInfo |-> TRUE,
     inputs |-> <<>>, objects |-> <<>>, sorted |-> <<Load, SearchFw, SearchLq, SearchLz>>,
     forceSwift |-> FALSE, swift |-> {"z"}]

SearchLib(kind, name) == [type |-> "lib", kind |-> kind, name |-> name]

\* Auto-link options looked for at once.
Linked == {[SearchPlain EXCEPT !.objects = o, !.files = f, !.dependencyInfo = d, !.dylibsFirst = x] :
              o \in {<<<<SearchLz>>, <<SearchLq, <<<<"-l">>, <<"z">>>>>>>>,
                     <<<<SearchFw, SearchLz>>>>,
                     <<<<Load, <<<<"-l">>, <<"q">>, <<"-L">>, <<"d">>>>, SearchLq>>>>},
              f \in SUBSET {SearchP("", ".", "z", "", "", "tbd"), SearchP("", ".", "z", "", "", "a"),
                            SearchP("sdk", "/usr", "z", "", "", "dylib"), SearchP("sdk", "/usr", "z", "", "", "tbd"),
                            SearchP("", ".", "q", "", "", "dylib"),
                            SearchP("sdk", "/usr", "F", "", "", "tbd")},
              d, x \in BOOLEAN}

\* The words of one object, with arguments missing, empty or like an option.
Words == {<<"-l", "z">>, <<"-l">>, <<"z">>, <<>>, <<"-framework">>, <<"-hidden-l", "q">>, <<"-weak-l", "z">>,
          <<"-hidden-l">>, <<"-force_load">>, <<"-L">>, <<"-weak_framework">>}

Worded == {[SearchPlain EXCEPT !.objects = <<<<<<u, v, w>>, <<x>>>>>>,
                         !.sorted = <<>>] :
              u, v, w \in Words, x \in {<<"-l", "z">>, <<"-l">>, <<"z">>}}

\* One input looked for, in the ways its option says.
Inputs == {SearchLib(k, "z") : k \in {"plain", "upward", "merge"}}
          \cup {SearchLib("weak", "c")}
          \cup {[type |-> "framework", kind |-> k, name |-> "F", variant |-> v] :
                   k \in {"plain", "merge"}, v \in {"", "_x"}}
          \cup {[type |-> t, kind |-> k, name |-> "z", path |-> SearchP("", "/usr", "z", "", "", e)] :
                   t \in {"path", "file"}, k \in {"plain", "merge"}, e \in {"dylib", "a", "tbd", "o"}}

Named == {[SearchPlain EXCEPT !.inputs = <<i, SearchLib("plain", "z")>>, !.files = f, !.roots = r,
                        !.preferStubs = s, !.linksDylibs = l, !.sparse = s, !.imageSuffixes = <<"_d">>,
                        !.noStandard = l] :
             i \in Inputs, r \in {<<>>, <<"sdk">>, <<"sdk", "/">>, <<"sdk", "two">>}, s, l \in BOOLEAN,
             f \in SUBSET {SearchP("sdk", "/usr", "z", "", "", "dylib"), SearchP("sdk", "/usr", "z", "", "", "tbd"),
                           SearchP("", "/usr", "z", "", "_d", "so"), SearchP("", "/usr", "z", "", "", "a"),
                           SearchP("sdk", "/usr", "F", "_x", "", "framework")}}

SearchLinks == {Linked, Worded, Named}

-----------------------------------------------------------------------------
\* Dylibs: Five libraries, at public locations (1, 2, 3) and others (4, 5),
\* that re-export each other in every way without a cycle through a public
\* one, named on the command line in several orders and by several options;
\* and libraries in stubs and binaries, inlined, missing, with clients and
\* with directives.

DylibPublic == {1, 2, 3, 6}

DylibOptions == [no_implicit_dylibs |-> FALSE, minos |-> 13, umbrella |-> None, client |-> "app", subs |-> {},
            lazy_load |-> FALSE, platform |-> "macos", links_dylibs |-> TRUE]

Symbol == <<"a", "b", "c", "d", "e", "f">>

DylibLib(n, reexports) ==
    [name |-> n, exports |-> {Symbol[n]}, weak |-> {}, tlv |-> {}, reexports |-> reexports, clients |-> {},
     umbrella |-> None, version |-> <<2, 1>>, ld |-> <<>>]

File(kind, lib, docs) ==
    [kind |-> kind, lib |-> lib, docs |-> docs, arch |-> TRUE, uuid |-> TRUE, platforms |-> {"macos"}, sim_support |-> TRUE,
     mergeable |-> FALSE, deps |-> <<>>]

Place(f) == [dylib_file |-> 0, rel |-> <<>>, leaf |-> 0, root |-> 0, itself |-> f]

Places(fs) == [n \in 1 .. 6 |-> Place(IF n \in fs THEN n ELSE 0)]

Input(f, flags) == [file |-> f, key |-> f, flags |-> flags, loader |-> FALSE]
Bare(f) == [file |-> f, key |-> 0, flags |-> {}, loader |-> FALSE]

DylibLink(opts, files, places, ins, autolinks) ==
    [o |-> opts, files |-> files, places |-> places, inputs |-> ins, autolinks |-> autolinks]

\* The order of the libraries in which each re-exports only later ones
Order == <<1, 4, 2, 5, 3>>
After(order, n) == LET k == CHOOSE k \in 1 .. 5 : order[k] = n IN {order[j] : j \in k + 1 .. 5}

SomeGraphs == {g \in [{1, 4, 2, 5} -> SUBSET {2, 3, 4, 5}] :
                  \A n \in DOMAIN g : g[n] \subseteq After(Order, n) /\ Cardinality(g[n]) <= 2}

AsSeq(S, up) == SortSeq(SetToSeq(S), LAMBDA a, b : IF up THEN a < b ELSE b < a)

GraphFiles(g, up) ==
    [n \in 1 .. 5 |-> File(IF n = 4 THEN "binary" ELSE "stub", DylibLib(n, IF n = 3 THEN <<>> ELSE AsSeq(g[n], up)), <<>>)]

GraphInputs == {<<Bare(1)>>,
                <<Input(1, {"weak"}), Input(2, {"needed"})>>,
                <<Input(4, {}), Input(1, {})>>,
                <<Input(2, {}), Input(1, {"weak"}), Input(5, {"reexport"})>>}

GraphLinks ==
    {DylibLink(DylibOptions, GraphFiles(g, TRUE), Places(1 .. 5), ins, <<>>) : g \in SomeGraphs, ins \in GraphInputs}
    \cup {DylibLink(DylibOptions, GraphFiles(g, FALSE), Places(1 .. 5), <<Input(2, {"weak"})>>, <<1>>) : g \in SomeGraphs}


\* Four public libraries and a private one, for the order they are looked in
PublicOrder == <<1, 4, 6, 2, 3>>
PublicGraphs == {g \in [{1, 4, 6, 2} -> SUBSET {2, 3, 4, 6}] :
                    \A n \in DOMAIN g : g[n] \subseteq After(PublicOrder, n) /\ Cardinality(g[n]) <= 3}

PublicLinks ==
    {DylibLink(DylibOptions, [n \in 1 .. 6 |-> File("stub", DylibLib(n, IF n \in DOMAIN g THEN AsSeq(g[n], up) ELSE <<>>), <<>>)],
          Places(1 .. 6), <<Bare(1)>>, <<>>) : g \in PublicGraphs, up \in BOOLEAN}

-----------------------------------------------------------------------------
\* Library 1 as a stub that inlines some of the libraries it re-exports, of which
\* some are on disk as well and some nowhere
InlineFiles(docs, clients) ==
    [n \in 1 .. 5 |->
        LET lib == CASE n = 1 -> DylibLib(1, <<2, 4>>) [] n = 2 -> [DylibLib(2, <<5>>) EXCEPT !.clients = clients]
                     [] n = 4 -> DylibLib(4, <<3, 5>>) [] n = 5 -> DylibLib(5, <<4>>) [] OTHER -> DylibLib(3, <<>>)
        IN File(IF n = 5 THEN "binary" ELSE "stub", lib,
                IF n = 1 THEN [i \in DOMAIN docs |-> [DylibLib(docs[i], IF docs[i] = 4 THEN <<3, 5>> ELSE IF docs[i] = 2 THEN <<5>> ELSE <<>>)
                                                       EXCEPT !.clients = IF docs[i] = 2 THEN clients ELSE {},
                                                              !.reexports = IF docs[i] = 5 THEN <<4>> ELSE @]]
                ELSE <<>>)]

InlineLinks ==
    {DylibLink([DylibOptions EXCEPT !.no_implicit_dylibs = no], InlineFiles(docs, clients), Places(disk), ins, auto) :
        no \in BOOLEAN, docs \in {<<>>, <<2>>, <<4, 5>>, <<2, 4>>, <<5, 3, 4>>}, clients \in {{}, {"AppKit"}},
        disk \in {{2, 3, 4, 5}, {3, 4, 5}, {2, 5}, {}}, ins \in {<<Bare(1)>>, <<Input(4, {"weak"}), Bare(1)>>},
        auto \in {<<>>, <<2>>}}

-----------------------------------------------------------------------------
\* Directives: library 2 takes another name or moves an export for the target
DylibLd(kind, lo, arg, ver, sym) == [kind |-> kind, lo |-> lo, hi |-> lo + 2, arg |-> arg, ver |-> ver, sym |-> sym]

DirectiveSeqs == {<<DylibLd("hide", 13, 0, 0, "b"), DylibLd("add", 13, 0, 0, "x")>>,
                  <<DylibLd("add", 12, 0, 0, "x"), DylibLd("compatibility_version", 13, 5, 0, None)>>,
                  <<DylibLd("install_name", 13, 6, 0, None)>>,
                  <<DylibLd("previous", 12, 6, 3, None), DylibLd("install_name", 13, 3, 0, None)>>,
                  <<DylibLd("previous", 11, 6, 3, "b")>>,
                  <<DylibLd("previous", 12, 6, 3, "b")>>,
                  <<DylibLd("previous", 12, 6, 0, "b"), DylibLd("previous", 13, 3, 0, "b")>>}

DirectiveFiles(g, ld, kind) ==
    [n \in 1 .. 5 |-> File(IF n = 2 THEN kind ELSE "stub",
                           [DylibLib(n, IF n \in DOMAIN g THEN g[n] ELSE <<>>) EXCEPT !.ld = IF n = 2 THEN ld ELSE <<>>], <<>>)]

DirectiveLinks ==
    {DylibLink([DylibOptions EXCEPT !.no_implicit_dylibs = no], DirectiveFiles(g, ld, kind), Places(1 .. 5), ins, auto) :
        no \in BOOLEAN, g \in {1 :> <<2>>, 1 :> <<4>> @@ 4 :> <<2>>}, ld \in DirectiveSeqs, kind \in {"stub", "binary"},
        ins \in {<<Bare(1)>>, <<Bare(1), Bare(2)>>, <<Input(1, {"weak"})>>, <<Bare(2), Bare(1)>>}, auto \in {<<>>, <<2>>}}

-----------------------------------------------------------------------------
\* DylibOptions that name one library in several ways, and files of other kinds
PlainFiles == [n \in 1 .. 5 |-> File("stub", DylibLib(n, IF n = 1 THEN <<2>> ELSE IF n = 4 THEN <<1, 5>> ELSE <<>>), <<>>)]

Flags == {{}, {"weak"}, {"needed"}, {"reexport"}, {"lazy"}, {"delay"}, {"autolinked"}, {"merge"}}

NamingLinks ==
    {DylibLink([DylibOptions EXCEPT !.lazy_load = lazy, !.subs = subs], PlainFiles, Places(1 .. 5), ins, auto) :
        lazy \in BOOLEAN, subs \in {{}, {2}}, auto \in {<<>>, <<2, 3>>},
        ins \in {<<Input(a, fa), Input(2, fb), Input(1, fc)>> : a \in {1, 2}, fa, fb \in Flags, fc \in {{}, {"weak"}, {"upward"}}}}

OddFile(kind) == [File("binary", DylibLib(3, <<>>), <<>>) EXCEPT !.kind = kind]

OddFiles == {[OddFile("stub") EXCEPT !.arch = FALSE], [OddFile("binary") EXCEPT !.uuid = FALSE],
             [OddFile("binary") EXCEPT !.platforms = {"ios"}], [OddFile("stub") EXCEPT !.platforms = {}], OddFile("other"),
             [OddFile("stub") EXCEPT !.lib.clients = {"app"}], [OddFile("stub") EXCEPT !.lib.clients = {"other"}],
             [OddFile("stub") EXCEPT !.lib.clients = {"other"}, !.lib.umbrella = "app"],
             [OddFile("binary") EXCEPT !.mergeable = TRUE,
                 !.deps = <<[name |-> 1, version |-> <<1, 1>>, exports |-> {"a"}, weak |-> {}],
                            [name |-> 3, version |-> <<1, 1>>, exports |-> {"c"}, weak |-> {}]>>]}

OddLinks ==
    {DylibLink([DylibOptions EXCEPT !.links_dylibs = links],
          [PlainFiles EXCEPT ![3] = odd, ![4].lib.reexports = re], Places(1 .. 5), ins, auto) :
        links \in BOOLEAN, odd \in OddFiles, re \in {<<3, 5>>, <<5, 3>>, <<1>>},
        ins \in {<<Bare(3)>>, <<Bare(4), Bare(3)>>, <<Input(3, {"merge"}), Bare(2)>>, <<Bare(4), Bare(4), Bare(2)>>,
                 <<[Bare(3) EXCEPT !.loader = TRUE], Bare(4)>>}, auto \in {<<>>, <<3>>}}

DylibLinks == {GraphLinks, PublicLinks, InlineLinks, DirectiveLinks, NamingLinks, OddLinks}

-----------------------------------------------------------------------------
\* Library 1 re-exports 5, which the search by its last component finds as the
\* file of library 2, named before
LeafLinks ==
    {{DylibLink(DylibOptions, [PlainFiles EXCEPT ![1].lib.reexports = <<5>>],
           [Places(1 .. 4) EXCEPT ![5].leaf = 2], ins, <<>>) : ins \in {<<Bare(2), Bare(1)>>, <<Bare(1), Bare(2)>>}}}

\* An export of library 2 moved to library 6, which library 1, loaded next, re-exports
MovedLinks ==
    {{DylibLink(DylibOptions, [n \in 1 .. 6 |-> File("stub", [DylibLib(n, IF n = 1 THEN <<6>> ELSE <<>>) EXCEPT
                                                       !.ld = IF n = 2 THEN <<DylibLd("previous", 12, 6, 3, "b")>> ELSE <<>>], <<>>)],
           Places(1 .. 6), ins, <<>>) : ins \in {<<Bare(2), Bare(1)>>, <<Bare(1), Bare(2)>>}}}

-----------------------------------------------------------------------------
\* Objects: Small objects whose sections meet, share addresses, are empty
\* or have records, with relocation pairs, alternate entry points and
\* unwind information of every kind, integrated in batches of up to three.

ObjectDwarf == 100

Hdr(seg, sect, type, addr, size) ==
    [seg |-> seg, sect |-> sect, type |-> type, code |-> FALSE, addr |-> addr, size |-> size,
     nuls |-> {}, rels |-> <<>>, entries |-> <<>>, frames |-> <<>>]

ObjectText(addr, size) == [Hdr("__TEXT", "__text", "regular", addr, size) EXCEPT !.code = TRUE]
Tab(addr, size)  == Hdr("__TEXT", "__gcc_except_tab", "regular", addr, size)
ObjectData(addr, size) == Hdr("__DATA", "__data", "regular", addr, size)

Compact(addr, entries, rels) ==
    [Hdr("__LD", "__compact_unwind", "regular", addr, 8 * Len(entries)) EXCEPT !.entries = entries, !.rels = rels]

EhFrame(addr, frames) ==
    [Hdr("__TEXT", "__eh_frame", "regular", addr, 8) EXCEPT !.frames = frames]

Sym(name, sect, value) ==
    [name |-> name, sect |-> sect, value |-> value, ext |-> TRUE, pext |-> FALSE, stab |-> FALSE, alt |-> FALSE, weak |-> FALSE]
Local(name, sect, value) == [Sym(name, sect, value) EXCEPT !.ext = FALSE]
Alt(name, sect, value)   == [Sym(name, sect, value) EXCEPT !.alt = TRUE]
Undef(name) == Sym(name, 0, 0)

Rel(off, ty, p2, ext, idx, val) == [off |-> off, ty |-> ty, p2 |-> p2, ext |-> ext, idx |-> idx, val |-> val]
ToSym(off, idx)        == Rel(off, "unsigned", 3, TRUE, idx, 0)
ToSect(off, idx, addr) == Rel(off, "unsigned", 3, FALSE, idx, addr)
Minus(off, idx)        == Rel(off, "subtractor", 3, TRUE, idx, 0)
Call(off, idx)         == Rel(off, "branch", 2, TRUE, idx, 0)
Addend(off, val)       == Rel(off, "addend", 2, FALSE, val, 0)

Entry(len, enc) == [len |-> len, enc |-> enc]
Field(e, field, idx) == ToSym((e - 1) * 8 + field, idx)
FieldAt(e, field, sect, addr) == ToSect((e - 1) * 8 + field, sect, addr)

Cie(at, pers, lsda) == [kind |-> "cie", at |-> at, pers |-> pers, lsda |-> lsda, persok |-> TRUE]
\* An FDE at `at`: its function is a symbol less the FDE's own label, or an
\* address the assembler folded in.
Fde(at, cie, plus, len, area) ==
    [kind |-> "fde", at |-> at, cie |-> cie, len |-> len,
     pc |-> [val |-> 0 - (at + 2), minus |-> 0, plus |-> plus],
     area |-> IF area = 0 THEN [val |-> 0, minus |-> 0, plus |-> 0] ELSE [val |-> area - (at + 4), minus |-> 0, plus |-> 0]]

Obj(split, hdrs, syms, nlocal, ndef) ==
    [split |-> split, hdrs |-> hdrs, syms |-> syms, indirect |-> FALSE, alone |-> FALSE,
     dysym |-> <<nlocal, ndef, Len(syms) - nlocal - ndef>>]

\* Two functions, the first with an alternate entry, and data of pairs.
Pairs ==
    Obj(TRUE, <<[ObjectText(0, 4) EXCEPT !.rels = <<Call(3, 3), Addend(1, 1), Call(1, 6)>>],
                Tab(4, 2),
                [ObjectData(6, 6) EXCEPT !.rels = <<ToSect(4, 1, 4), Minus(2, 3), ToSym(2, 4), ToSect(0, 2, 5)>>],
                Compact(20, <<Entry(2, 1), Entry(2, 1)>>,
                        <<Field(1, 0, 3), FieldAt(2, 0, 1, 2), Field(2, 4, 6), FieldAt(2, 6, 2, 5)>>)>>,
        <<Local("ltmp", 1, 0), Local("_d", 3, 6), Sym("_f", 1, 0), Sym("_g", 1, 2), Alt("_h", 1, 1), Undef("_p")>>, 2, 3)

\* Functions that carry on from each other's encoding, without LSDAs.
ObjectPlain(enc) ==
    Obj(TRUE, <<ObjectText(0, 4), Compact(20, <<Entry(2, enc), Entry(2, enc)>>, <<FieldAt(1, 0, 1, 0), FieldAt(2, 0, 1, 2)>>)>>,
        <<Sym("_m", 1, 0), Sym("_n", 1, 2)>>, 0, 2)

\* A section that stays whole: two functions with code between and after.
Whole ==
    Obj(FALSE, <<ObjectText(0, 6), Tab(6, 1),
                 Compact(20, <<Entry(2, 2), Entry(1, 3)>>, <<FieldAt(1, 0, 1, 0), FieldAt(2, 0, 1, 3), FieldAt(2, 6, 2, 6)>>)>>,
        <<Local("_a", 1, 0), Local("_b", 1, 3)>>, 2, 0)

\* Code without unwind information between two empty sections with labels.
Empty ==
    Obj(TRUE, <<ObjectText(0, 0), [ObjectText(0, 2) EXCEPT !.sect = "__text2"], ObjectData(2, 0), ObjectData(2, 2)>>,
        <<Local("_e", 1, 0), Local("_s", 2, 0), Local("_end", 3, 2), Local("_d", 4, 2)>>, 4, 0)

\* Functions with FDEs: alone, of a DWARF-mode record, beside a compact
\* record, and of an alternate entry of a function whose record is apart.
Frames2 ==
    Obj(TRUE, <<ObjectText(0, 6), Tab(6, 2),
                Compact(20, <<Entry(2, 1), Entry(1, ObjectDwarf)>>, <<FieldAt(1, 0, 1, 0), FieldAt(2, 0, 1, 3)>>),
                EhFrame(40, <<Cie(40, 7, TRUE), Fde(41, 40, 3, 2, 7), Cie(42, 0, FALSE), Fde(43, 42, 5, 1, 0),
                              Fde(44, 42, 6, 1, 0), Fde(45, 42, 4, 1, 0), Fde(46, 42, 2, 2, 0)>>)>>,
        <<Local("ltmp", 1, 0), Sym("_f", 1, 0), Sym("_u", 1, 4), Alt("_v", 1, 2), Sym("_w", 1, 3), Sym("_x", 1, 3), Undef("_q")>>,
        1, 5)

\* Records and strings, some of names that no symbol has in an image.
Lists ==
    Obj(TRUE, <<[Hdr("__TEXT", "__cstring", "cstring", 0, 4) EXCEPT !.nuls = {0, 2}],
                Hdr("__TEXT", "__literal8", "literal8", 4, 4),
                [Hdr("__DATA", "__objc_classlist", "regular", 8, 4) EXCEPT !.rels = <<ToSect(2, 1, 1), ToSym(0, 5)>>],
                Hdr("__DATA", "__thread_bss", "tlvbss", 12, 2),
                [ObjectData(14, 2) EXCEPT !.rels = <<ToSect(0, 2, 8)>>]>>,
        <<Local("_s", 1, 1), Sym("_l", 3, 8), Sym("_t", 4, 12), Sym("_d", 5, 14), Undef("_c")>>, 1, 3)

\* Two more routines than a table has room for, with the ones above.
Routine(name, enc) ==
    Obj(TRUE, <<ObjectText(0, 2), Compact(20, <<Entry(2, enc)>>, <<FieldAt(1, 0, 1, 0), Field(1, 4, 2)>>)>>,
        <<Local("_r", 1, 0), Undef(name)>>, 1, 0)

\* Objects the linker can't read.
Broken ==
    {[Lists EXCEPT !.hdrs[2].size = 3],
     [Pairs EXCEPT !.hdrs[3].rels[2].ty = "unsigned", !.hdrs[3].rels[3].p2 = 2],
     Obj(TRUE, <<Hdr("__DATA", "__mod_init_func", "init", 0, 2)>>, <<>>, 0, 0),
     Obj(TRUE, <<ObjectText(0, 0), [ObjectData(0, 2) EXCEPT !.rels = <<ToSect(0, 1, 0)>>]>>, <<Local("ltmp", 1, 0)>>, 1, 0),
     [Frames2 EXCEPT !.hdrs[4].frames[2].cie = 42]}

Pool == {Pairs, ObjectPlain(1), ObjectPlain(3), Whole, Empty, Frames2, Lists, Routine("_p1", 1)}

ObjectLink(batches, kept, reversed) == [batches |-> batches, kept |-> kept, reversed |-> reversed]
Kept == {"uncovered", "all", "none"}
Alone(o) == [o EXCEPT !.alone = TRUE]

ObjectLinks ==
    {{ObjectLink(<<<<a, b>>>>, kept, reversed) : kept \in Kept, a \in Pool, b \in Pool, reversed \in BOOLEAN},
     {ObjectLink(<<<<a>>, <<Alone(b)>>>>, kept, FALSE) : kept \in {"all", "uncovered"}, a \in Pool, b \in Pool},
     {ObjectLink(<<<<a, b>>, <<c>>>>, "uncovered", FALSE) : a \in {Pairs, Frames2}, b \in {Whole, Lists}, c \in {Frames2, Pairs}},
     {ObjectLink(<<<<a, Routine("_p1", 1), Routine("_p2", 2)>>>>, "uncovered", FALSE) : a \in {Pairs, ObjectPlain(1), Routine("_p3", 2)}},
     {ObjectLink(<<<<Pairs, Routine("_p1", 1), Routine("_p2", 2)>>, <<Routine("_p3", 1)>>>>, "uncovered", FALSE)},
     {ObjectLink(<<<<a, b>>>>, "uncovered", FALSE) : a \in {Pairs, Lists}, b \in Broken}}
=============================================================================
