-------------------------------- MODULE Dylibs --------------------------------
(***************************************************************************)
(* Loading the dynamic libraries of a link (macho/input_files.rs from      *)
(* add_library to add_dylib, the $ld$ directives of macho/tapi.rs, the     *)
(* reader's part in macho/reader.rs and dylib_ranks in macho/passes.rs).   *)
(* Threads read the stubs ahead; the main thread then loads the libraries  *)
(* in command line order, each one once the libraries it re-exports have   *)
(* loaded: the public ones as dylibs of their own, which load what they    *)
(* re-export in turn (`stack` holds the walks begun), the private ones     *)
(* merged into the library that re-exports them.                           *)
(*                                                                         *)
(* A link `l` gives the options (o), the files by number (files: a stub or *)
(* a binary holds a library lib, a stub the libraries it inlines, docs),   *)
(* where each install name would be found (places) and the inputs. Install *)
(* names are numbers, in the order of their text, 0 for none.              *)
(***************************************************************************)
EXTENDS Integers, Sequences, SequencesExt, FiniteSets, TLC

CONSTANTS Links,      \* families of links
          Public,     \* the install names at public locations
          None

VARIABLES l,          \* the link
          phase,      \* what the reader is at
          reading,    \* the stubs whose tasks are under way
          seen,       \* Prefetched: the files taken up, the names looked for
          cache,      \* read_stub's: the stubs read
          inputs,     \* the inputs left to read, with what their naming says
          visited,    \* visited_files
          possible,   \* possible_files
          stack,      \* the walks over re-exported libraries, innermost last
          dylibs,     \* ctx.dylibs
          counter,    \* priority_counter
          merging,    \* merged_dependencies, and the merged_libraries
          indirect,   \* indirect_files
          named,      \* the files whose libraries were loaded, and by what naming
          warned,     \* the install names not found
          errors,     \* whether a naming or a file was refused
          before,     \* the dylibs at the start of auto-linking: were they implicit
          ranks       \* dylib_ranks

dylibVars == <<l, phase, reading, seen, cache, inputs, visited, possible, stack, dylibs, counter,
               merging, indirect, named, warned, errors, before, ranks>>

o == l.o

LeastOf(S, Key(_)) == CHOOSE x \in S : \A y \in S : Key(x) <= Key(y)

\* The places in s whose elements satisfy P
Where(s, P(_)) == {i \in DOMAIN s : P(s[i])}

LexLess(a, b) == \E k \in DOMAIN a : a[k] < b[k] /\ \A j \in 1 .. k - 1 : a[j] = b[j]

-----------------------------------------------------------------------------
(* The $ld$ directives of a library, read for the link's target. One has a *)
(* kind, the versions lo and hi it applies to (those of "previous") or the *)
(* version lo, an argument (arg: an install name, a version), a version    *)
(* (ver) and a symbol (sym, None for the whole library).                   *)

Applies(d) == IF d.kind = "previous" THEN d.lo <= o.minos /\ o.minos < d.hi ELSE d.lo = o.minos

Directives(lib, kind) == SelectSeq(lib.ld, LAMBDA d : d.kind = kind /\ Applies(d))

\* Of the directives of a kind, the first with the least argument, None if there is none
FirstByArg(ds) ==
    IF ds = <<>> THEN None
    ELSE ds[LeastOf({i \in DOMAIN ds : \A j \in DOMAIN ds : ds[i].arg <= ds[j].arg}, LAMBDA i : i)]

Hidden(lib) == {d.sym : d \in ToSet(Directives(lib, "hide"))}
Added(lib)  == {d.sym : d \in ToSet(Directives(lib, "add"))}

Previous(lib) == FirstByArg(SelectSeq(Directives(lib, "previous"), LAMBDA d : d.sym = None))

RenamedInstallName(lib) ==
    LET names == {d.arg : d \in ToSet(Directives(lib, "install_name"))}
    IN IF Previous(lib) # None THEN Previous(lib).arg
       ELSE IF names # {} THEN CHOOSE n \in names : \A m \in names : m <= n
       ELSE None

RenamedVersion(prev) == IF prev = None THEN 0 ELSE prev.ver

\* The exports that move, in the order of their first directives
MovesOf(ds, version) ==
    LET first == SelectSeq([i \in DOMAIN ds |-> i], LAMBDA i : \A j \in 1 .. i - 1 : ds[j].sym # ds[i].sym)
        Best(s) == FirstByArg(SelectSeq(ds, LAMBDA d : d.sym = s))
        Move(s, best) == [sym |-> s, name |-> best.arg,
                          version |-> IF best.ver # 0 THEN <<best.ver, best.ver>> ELSE version]
    IN [k \in DOMAIN first |-> Move(ds[first[k]].sym, Best(ds[first[k]].sym))]

MovedOf(lib, version) == MovesOf(SelectSeq(Directives(lib, "previous"), LAMBDA d : d.sym # None), version)

\* StubLibrary::read, and what read_dylib_binary and interpret_binary_ld_symbols
\* make of a binary, which knows no $ld$compatibility_version and hides a
\* thread-local export too
ReadVersion(lib, stub, ver, compat) ==
    CASE ver # 0 -> <<ver, ver>>
      [] ver = 0 /\ stub /\ compat # None -> <<lib.version[1], compat.arg>>
      [] OTHER -> lib.version

ReadAs(lib, stub, hidden, renamed, version) ==
    LET weak == lib.weak \ hidden
        tlv  == IF stub THEN lib.tlv ELSE lib.tlv \ hidden
    IN [name |-> IF renamed # None THEN renamed ELSE lib.name, identity |-> lib.name, clients |-> lib.clients,
        umbrella |-> lib.umbrella, version |-> version,
        exports |-> (lib.exports \ hidden) \cup Added(lib) \cup weak \cup tlv, weak |-> weak, tlv |-> tlv,
        reexports |-> lib.reexports, renamed |-> renamed # None, moved |-> MovedOf(lib, version)]

ReadLibrary(lib, stub) ==
    ReadAs(lib, stub, Hidden(lib), RenamedInstallName(lib),
           ReadVersion(lib, stub, RenamedVersion(Previous(lib)), FirstByArg(Directives(lib, "compatibility_version"))))

\* The library of a file
LibraryOf(f) == ReadLibrary(l.files[f].lib, l.files[f].kind = "stub")

\* The libraries a stub inlines
DocumentsOf(f) == [i \in DOMAIN l.files[f].docs |-> ReadLibrary(l.files[f].docs[i], TRUE)]

-----------------------------------------------------------------------------
(* Who may link a library, and which re-exported one binds for itself.     *)

\* What DylibIdentity::of_binary and of_tbd read: for a stub as it is before a directive renames it
IdentityOf(f) == [name |-> l.files[f].lib.name, clients |-> l.files[f].lib.clients, umbrella |-> l.files[f].lib.umbrella]

IsPublicName(name) == ~o.no_implicit_dylibs /\ name \in Public

IsPublic(id, clients) == IsPublicName(id) /\ clients = {}

IsAllowedClient(id) ==
    \/ id.clients = {}
    \/ id.umbrella # None /\ o.umbrella = id.umbrella
    \/ id.umbrella = o.client
    \/ o.client \in id.clients

\* The file's library is built for other platforms than the link's (but none if it names none)
IsForOthers(f) == l.files[f].platforms # {} /\ o.platform \notin l.files[f].platforms
                  /\ ~(o.platform = "simulator" /\ "macos" \in l.files[f].platforms /\ l.files[f].sim_support)

\* resolve_dylib_ref: a -dylib_file that is there, the place the name gives
\* relative to its loader, a search path by the name's end, under a root, and
\* the name itself unless a stub inlines the library; 0 for none
ResolveDylibRef(name, loader, inlined) ==
    LET p     == l.places[name]
        found == SelectSeq(<<p.dylib_file,
                             IF loader \in DOMAIN p.rel THEN p.rel[loader] ELSE 0,
                             p.leaf, p.root,
                             IF inlined THEN 0 ELSE p.itself>>, LAMBDA f : f # 0)
    IN IF found = <<>> THEN 0 ELSE found[1]

-----------------------------------------------------------------------------
(* The table of dylibs.                                                    *)

Own == 0
Directive == 1
Moved == 2

NewDylib(name, version, priority) ==
    [name |-> name, version |-> version, priority |-> priority, idx |-> 0, loader |-> FALSE,
     exports |-> {}, weak |-> {}, tlv |-> {}, merged |-> {}, edges |-> <<>>, moved |-> <<>>, source |-> Own,
     is_implicit |-> FALSE, is_weak |-> FALSE, is_lazy |-> FALSE, delay |-> 0, named_at |-> 0,
     is_needed |-> FALSE, is_reexported |-> FALSE, is_upward |-> FALSE, is_autolinked |-> FALSE]

NextOrdinal(ds) == Len(SelectSeq(ds, LAMBDA d : ~d.loader)) + 1

\* The dylib of ds that d is one with, 0 for none
SameDylib(ds, d) ==
    LET same == Where(ds, LAMBDA e : /\ e.name = d.name
                                     /\ (e.source = Moved) = (d.source = Moved)
                                     /\ e.source = Moved => e.version = d.version)
    IN IF same = {} THEN 0 ELSE LeastOf(same, LAMBDA i : i)

JoinDylib(e, d) ==
    [e EXCEPT !.version = IF d.source < e.source THEN d.version ELSE @,
              !.source  = IF d.source < e.source THEN d.source ELSE @,
              !.exports = @ \cup d.exports, !.merged = @ \cup d.merged,
              !.edges   = @ \o d.edges, !.moved = d.moved @@ @]

\* The table with d registered, and d's place in it
AddDylib(ds, d) ==
    LET i == SameDylib(ds, d)
    IN IF i = 0 THEN [dylibs |-> Append(ds, d), at |-> Len(ds) + 1]
       ELSE [dylibs |-> [ds EXCEPT ![i] = JoinDylib(@, d)], at |-> i]

\* The table with a dylib for each older library of `moves`, the priorities
\* used up, and which dylib each export binds to
AddMovedDylibs(ds, n, moves) ==
    LET Place(acc, m) ==
            IF m.name \in DOMAIN acc.targets
            THEN [acc EXCEPT !.to = (m.sym :> acc.targets[m.name]) @@ @]
            ELSE LET d   == [NewDylib(m.name, m.version, acc.n + 1) EXCEPT
                                !.idx = NextOrdinal(acc.dylibs), !.is_implicit = TRUE, !.source = Moved]
                     res == AddDylib(acc.dylibs, d)
                 IN [dylibs |-> res.dylibs, n |-> acc.n + 1,
                     targets |-> (m.name :> res.at) @@ acc.targets, to |-> (m.sym :> res.at) @@ acc.to]
    IN FoldLeft(Place, [dylibs |-> ds, n |-> n, targets |-> <<>>, to |-> <<>>], moves)

-----------------------------------------------------------------------------
(* What the options say of the libraries they name. A naming is the set of *)
(* the flags its option gives; an input has the file it found (0 for none),*)
(* the key options naming one library share (0 for a bare path) and whether*)
(* it is -bundle_loader's.                                                 *)

\* ReaderContext::union: "autolinked" says that every naming is a hint
UnionNaming(a, b) == ((a \cup b) \ {"autolinked"}) \cup (a \cap b \cap {"autolinked"})

Clash(rc) ==
    \/ "reexport" \in rc /\ rc \cap {"weak", "lazy", "delay"} # {}
    \/ {"delay", "lazy"} \subseteq rc
    \/ "merge" \in rc /\ rc \cap {"reexport", "weak", "upward", "lazy"} # {}

\* What the options of ins that share a key say together
NamingOf(ins, key) ==
    FoldLeft(LAMBDA rc, i : UnionNaming(rc, i.flags), {"autolinked"}, SelectSeq(ins, LAMBDA i : i.key = key))

\* Whether an input stops the link: it is not found, unless it is a hint, or its naming clashes
StopsTheLink(ins) ==
    \E i \in DOMAIN ins :
        \/ ins[i].file = 0 /\ "autolinked" \notin ins[i].flags
        \/ ins[i].key # 0 /\ Clash(NamingOf(SubSeq(ins, 1, i), ins[i].key))

\* The inputs left once the options naming one library are one, where it is first named
LibraryNamings(ins) ==
    SelectSeq([i \in DOMAIN ins |->
                   IF ins[i].file = 0 \/ \E j \in 1 .. i - 1 : ins[i].key # 0 /\ ins[j].key = ins[i].key THEN None
                   ELSE IF ins[i].key = 0 THEN ins[i]
                   ELSE [ins[i] EXCEPT !.flags = NamingOf(ins, ins[i].key)]], LAMBDA i : i # None)

\* Faulty variant: a naming adds to what the weakness of the parents said.
NameDylib_Adds(d, rc, n) ==
    [d EXCEPT !.named_at = IF d.is_implicit THEN n + 1 ELSE @, !.is_weak = @ \/ "weak" \in rc,
              !.is_lazy = @ \/ ("lazy" \in rc /\ o.lazy_load), !.is_implicit = FALSE]

NameDylib(d, rc, n) ==
    LET lazy   == "lazy" \in rc /\ o.lazy_load
        delay  == IF "delay" \in rc THEN d.name ELSE 0
        decides == d.is_implicit /\ "autolinked" \notin rc
    IN [d EXCEPT !.named_at      = IF d.is_implicit THEN n + 1 ELSE @,
                 !.is_weak       = ("weak" \in rc \/ (@ /\ ~decides)) /\ "sub" \notin rc,
                 !.is_lazy       = lazy \/ (@ /\ ~decides),
                 !.delay         = IF decides \/ @ = 0 THEN delay ELSE @,
                 !.is_reexported = @ \/ rc \cap {"reexport", "sub"} # {},
                 !.is_needed     = @ \/ "needed" \in rc,
                 !.is_upward     = @ \/ "upward" \in rc,
                 !.is_implicit   = FALSE]

\* The dylibs an input's parse added (from `first` on) with what a weak, lazy or
\* delayed parent makes of the libraries it re-exports
Inherit(ds, first, at, rc) ==
    [i \in DOMAIN ds |->
        IF i < first THEN ds[i]
        ELSE [ds[i] EXCEPT !.is_weak = @ \/ ("weak" \in rc /\ ds[i].source # Moved),
                           !.is_lazy = @ \/ ("lazy" \in rc /\ o.lazy_load),
                           !.delay   = IF @ = 0 /\ "delay" \in rc THEN ds[at].name ELSE @]]

-----------------------------------------------------------------------------
(* Reading the stubs ahead.                                                *)

IsStub(f) == f # 0 /\ l.files[f].kind = "stub"

\* The stub files among fs that no task has taken up
TakenUp(fs) == {f \in fs : IsStub(f) /\ f \notin seen.files}

PrefetchStubs(fs) ==
    /\ reading' = TakenUp(fs)
    /\ seen' = [files |-> TakenUp(fs), names |-> {}]

\* A task reads its stub and takes up those of the libraries it re-exports but
\* does not inline (looked for quietly, and not from their loader)
PrefetchStub(f) ==
    LET st    == l.files[f]
        names == {n \in ToSet(st.lib.reexports) : ~\E d \in ToSet(st.docs) : d.name = n} \ seen.names
        found == TakenUp({ResolveDylibRef(n, 0, FALSE) : n \in names})
    IN /\ f \in reading
       /\ cache' = cache \cup {f}
       /\ IF st.arch
          THEN /\ reading' = (reading \ {f}) \cup found
               /\ seen' = [files |-> seen.files \cup found, names |-> seen.names \cup names]
          ELSE reading' = reading \ {f} /\ UNCHANGED seen
       /\ UNCHANGED <<l, phase, inputs, visited, possible, stack, dylibs, counter, merging, indirect, named,
                      warned, errors, before, ranks>>

-----------------------------------------------------------------------------
(* The walk over the libraries a dylib re-exports (load_reexports).        *)

Top == stack[Len(stack)]

WithTop(f) == [stack EXCEPT ![Len(stack)] = f]

\* The libraries that a library of the given install name, hops away, re-exports
Refs(names, via, loader, hops) ==
    [i \in DOMAIN names |-> [name |-> names[i], loader |-> loader, hops |-> hops + 1, via |-> via]]

\* add_library up to the walk: the library of a stub or binary, read from file,
\* with the inlined libraries its re-exports may resolve to
NewWalk(lib, file, pool, n, ref, rc) ==
    [dylib |-> [NewDylib(lib.name, lib.version, n + 1) EXCEPT
                    !.exports = lib.exports, !.weak = lib.weak, !.tlv = lib.tlv,
                    !.source = IF lib.renamed THEN Directive ELSE Own],
     file |-> file, pool |-> pool, queue |-> Refs(lib.reexports, lib.name, file, 0), visited |-> {},
     moved |-> <<>>, own |-> lib.moved, ref |-> ref, rc |-> rc, first |-> Len(dylibs) + 1]

\* Faulty variant: the libraries a merged library re-exports are left out.
MergeTbd_NoQueue(w, lib, documents, loader, hops) ==
    [w EXCEPT !.dylib.exports = @ \cup lib.exports, !.dylib.weak = @ \cup lib.weak, !.dylib.tlv = @ \cup lib.tlv,
              !.dylib.merged = @ \cup {lib.identity}, !.moved = @ \o lib.moved, !.pool = @ \o documents]

\* A private library of a stub joins the dylib, and what it re-exports the queue
MergeTbd(w, lib, documents, loader, hops) ==
    [w EXCEPT !.dylib.exports = @ \cup lib.exports, !.dylib.weak = @ \cup lib.weak, !.dylib.tlv = @ \cup lib.tlv,
              !.dylib.merged = @ \cup {lib.identity}, !.moved = @ \o lib.moved, !.pool = @ \o documents,
              !.queue = @ \o Refs(lib.reexports, lib.name, loader, hops)]

\* A private binary likewise, but for its weak exports
MergeBinary(w, lib, loader, hops) ==
    [w EXCEPT !.dylib.exports = @ \cup lib.exports, !.dylib.tlv = @ \cup lib.tlv,
              !.dylib.merged = @ \cup {lib.identity}, !.moved = @ \o lib.moved,
              !.queue = @ \o Refs(lib.reexports, lib.identity, loader, hops)]

WithEdge(w, at, r) == [w EXCEPT !.dylib.edges = Append(@, [to |-> at, hops |-> r.hops, via |-> r.via])]

\* The walk as it takes up the next library, the last of its queue
Next_r == Last(Top.queue)
Walk == [Top EXCEPT !.queue = Front(@), !.visited = @ \cup {Next_r.name}]

Walking == phase \in {"inputs", "autolink"} /\ stack # <<>>

\* The dylib of the link by the name of the next library, and the inlined one, 0 for none
FirstWhere(s, P(_)) == IF Where(s, P) = {} THEN 0 ELSE LeastOf(Where(s, P), LAMBDA i : i)
InLink == FirstWhere(dylibs, LAMBDA d : d.name = Next_r.name)
Inline == FirstWhere(Top.pool, LAMBDA d : d.identity = Next_r.name)
OnDisk == IF Inline # 0 /\ ~IsPublicName(Next_r.name) THEN 0
          ELSE ResolveDylibRef(Next_r.name, Next_r.loader, Inline # 0)

Taken == Next_r.name \in Top.visited

\* A library met before on this walk
SkipVisited ==
    /\ Walking /\ Top.queue # <<>> /\ Taken
    /\ stack' = WithTop(Walk)
    /\ UNCHANGED <<l, phase, reading, seen, cache, inputs, visited, possible, dylibs, counter, merging, indirect,
                   named, warned, errors, before, ranks>>

\* One the link has: an edge to a public one, the exports of a private one
LoadLinked ==
    /\ Walking /\ Top.queue # <<>> /\ ~Taken /\ InLink # 0
    /\ LET e == dylibs[InLink]
       IN stack' = WithTop(IF IsPublicName(Next_r.name) THEN WithEdge(Walk, InLink, Next_r)
                           ELSE [Walk EXCEPT !.dylib.exports = @ \cup e.exports, !.dylib.tlv = @ \cup e.tlv,
                                             !.dylib.weak = @ \cup e.weak, !.dylib.merged = @ \cup {Next_r.name}])
    /\ UNCHANGED <<l, phase, reading, seen, cache, inputs, visited, possible, dylibs, counter, merging, indirect,
                   named, warned, errors, before, ranks>>

\* One in a file, which decides by its own install name
LoadFile ==
    /\ Walking /\ Top.queue # <<>> /\ ~Taken /\ InLink = 0 /\ OnDisk # 0
    /\ \E f \in {OnDisk} : \E lib \in {LibraryOf(f)} : \E docs \in {DocumentsOf(f)} :
       LET file == l.files[f]
           pub  == IsPublic(IdentityOf(f).name, IdentityOf(f).clients)
       IN /\ indirect' = IF file.kind = "other" THEN Append(indirect, f) ELSE indirect
          /\ errors' = (errors \/ (file.kind # "other" /\ file.arch /\ (file.kind = "binary" \/ pub) /\ IsForOthers(f)))
          /\ counter' = IF file.kind # "other" /\ file.arch /\ pub THEN counter + 1 ELSE counter
          /\ stack' = IF file.kind = "other" \/ ~file.arch THEN WithTop(Walk)
                      ELSE IF pub
                      THEN Append(WithTop(Walk), NewWalk(lib, f, docs, counter, Next_r, {}))
                      ELSE WithTop(IF file.kind = "stub" THEN MergeTbd(Walk, lib, docs, f, Next_r.hops)
                                   ELSE MergeBinary(Walk, lib, f, Next_r.hops))
          /\ cache' = IF file.kind = "stub" THEN cache \cup {f} ELSE cache
    /\ UNCHANGED <<l, phase, reading, seen, inputs, visited, possible, dylibs, merging, named, warned, before, ranks>>

\* One a stub of the walk inlines
LoadInlined ==
    /\ Walking /\ Top.queue # <<>> /\ ~Taken /\ InLink = 0 /\ OnDisk = 0 /\ Inline # 0
    /\ \E doc \in {Top.pool[Inline]} :
       LET pub == IsPublic(doc.identity, doc.clients)
       IN /\ counter' = IF pub THEN counter + 1 ELSE counter
          /\ stack' = IF pub
                      THEN Append(WithTop(Walk), NewWalk(doc, Top.file, Top.pool, counter, Next_r, {}))
                      ELSE WithTop(MergeTbd(Walk, doc, <<>>, Next_r.loader, Next_r.hops))
    /\ UNCHANGED <<l, phase, reading, seen, cache, inputs, visited, possible, dylibs, merging, indirect, named,
                   warned, errors, before, ranks>>

\* One that is nowhere, which the link goes on without
MissingLibrary ==
    /\ Walking /\ Top.queue # <<>> /\ ~Taken /\ InLink = 0 /\ OnDisk = 0 /\ Inline = 0
    /\ stack' = WithTop(Walk)
    /\ warned' = warned \cup {Next_r.name}
    /\ UNCHANGED <<l, phase, reading, seen, cache, inputs, visited, possible, dylibs, counter, merging, indirect,
                   named, errors, before, ranks>>

\* The rest of add_library: the library joins the link, as a re-export of the
\* walk that asked for it, or as its naming says (the rest of load_dylib)
EndWalk ==
    /\ Walking /\ Top.queue = <<>>
    /\ \E mv \in {AddMovedDylibs(dylibs, counter, SelectSeq(Top.moved \o Top.own,
                                                            LAMBDA m : m.sym \in Top.dylib.exports))} :
       \E res \in {AddDylib(mv.dylibs, [Top.dylib EXCEPT !.moved = mv.to, !.idx = NextOrdinal(mv.dylibs)])} :
       \E heirs \in {Inherit(res.dylibs, Top.first, res.at, Top.rc)} :
       LET rest  == Front(stack)
           names == res.at >= Top.first \/ heirs[res.at].is_implicit
       IN IF Top.ref # None
          THEN /\ dylibs' = [res.dylibs EXCEPT ![res.at].is_implicit = TRUE]
               /\ stack' = [rest EXCEPT ![Len(rest)] = WithEdge(@, res.at, Top.ref)]
               /\ counter' = mv.n
          ELSE /\ dylibs' = IF names THEN [heirs EXCEPT ![res.at] = NameDylib(@, Top.rc, mv.n)] ELSE heirs
               /\ counter' = IF names /\ heirs[res.at].is_implicit THEN mv.n + 1 ELSE mv.n
               /\ stack' = rest
    /\ UNCHANGED <<l, phase, reading, seen, cache, inputs, visited, possible, merging, indirect, named, warned,
                   errors, before, ranks>>

-----------------------------------------------------------------------------
(* The inputs, in the order the command line names them.                   *)

\* A library is read for the link by what its naming says: not one that does
\* not take the link for a client, has no uuid or is for another architecture
IsLoaded(f, rc) ==
    LET file == l.files[f]
    IN file.arch /\ IsAllowedClient(IdentityOf(f)) /\ (file.kind = "stub" \/ file.uuid)

\* Whether reading an input is an error
IsRefused(in) ==
    LET file == l.files[in.file]
    IN IF in.loader THEN ~file.uuid
       ELSE IF "merge" \in in.flags THEN ~file.mergeable /\ (file.kind = "stub" \/ file.arch)
       ELSE /\ o.links_dylibs /\ file.arch
            /\ IF IsAllowedClient(IdentityOf(in.file))
               THEN (file.kind = "binary" /\ ~file.uuid) \/ IsForOthers(in.file)
               ELSE "autolinked" \notin in.flags

BundleLoader(f, n) ==
    [NewDylib(l.files[f].lib.name, <<1, 1>>, n + 1) EXCEPT
        !.idx = -1, !.loader = TRUE, !.exports = l.files[f].lib.exports, !.tlv = l.files[f].lib.tlv]

\* A mergeable dylib's record stands for it, and the libraries it links wait for the end of the inputs
MergeDylib(f) == [deps |-> merging.deps \o l.files[f].deps, libs |-> merging.libs \cup {l.files[f].lib.name}]

\* What -sub_library and -sub_umbrella add to an input's naming
SubReexport(f) == IF phase = "inputs" /\ f \in o.subs THEN {"sub"} ELSE {}

\* read_file and load_dylib: the next input, once the last one is loaded
ReadInput ==
    /\ phase \in {"inputs", "autolink"} /\ stack = <<>> /\ inputs # <<>>
    /\ LET in    == Head(inputs)
           file  == l.files[in.file]
           rc    == in.flags \cup SubReexport(in.file)
           hint  == phase = "inputs" /\ "autolinked" \in rc
           again == hint \/ in.file \in visited
           loads == ~again /\ ~in.loader /\ file.kind # "other" /\ o.links_dylibs
           walks == loads /\ "merge" \notin rc /\ IsLoaded(in.file, rc)
           bundle == in.loader /\ file.uuid
           merges == loads /\ "merge" \in rc /\ file.mergeable /\ file.arch
       IN /\ inputs' = Tail(inputs)
          /\ possible' = IF hint THEN Append(possible, in.file) ELSE possible
          /\ visited' = IF hint \/ in.loader THEN visited ELSE visited \cup {in.file}
          /\ errors' = (errors \/ (~again /\ file.kind # "other" /\ IsRefused(in)))
          /\ named' = IF walks THEN named \cup {[file |-> in.file, rc |-> rc, at |-> Cardinality(named)]} ELSE named
          /\ stack' = IF walks THEN <<NewWalk(LibraryOf(in.file), in.file, DocumentsOf(in.file), counter, None, rc)>>
                      ELSE <<>>
          /\ cache' = IF walks /\ file.kind = "stub" THEN cache \cup {in.file} ELSE cache
          /\ counter' = IF walks \/ bundle \/ merges THEN counter + 1 ELSE counter
          /\ dylibs' = IF bundle THEN AddDylib(dylibs, BundleLoader(in.file, counter)).dylibs ELSE dylibs
          /\ merging' = IF merges THEN MergeDylib(in.file) ELSE merging
    /\ UNCHANGED <<l, phase, reading, seen, indirect, warned, before, ranks>>

\* The libraries the merged ones link, but for those merged as well
AddMergedDependencies(ds, n) ==
    FoldLeft(LAMBDA acc, dep :
                 [dylibs |-> AddDylib(acc.dylibs, [NewDylib(dep.name, dep.version, acc.n + 1) EXCEPT
                                 !.idx = NextOrdinal(acc.dylibs), !.exports = dep.exports, !.weak = dep.weak]).dylibs,
                  n |-> acc.n + 1],
             [dylibs |-> ds, n |-> n], SelectSeq(merging.deps, LAMBDA dep : dep.name \notin merging.libs))

\* After the inputs: the dependencies of merged libraries (the files that are
\* no libraries load as objects), and the auto-linked libraries are read ahead
StartAutolink ==
    /\ phase = "inputs" /\ stack = <<>> /\ inputs = <<>>
    /\ \E deps \in {AddMergedDependencies(dylibs, counter)} :
          /\ dylibs' = deps.dylibs
          /\ counter' = deps.n
          /\ before' = [i \in DOMAIN deps.dylibs |-> deps.dylibs[i].is_implicit]
    /\ merging' = [merging EXCEPT !.deps = <<>>]
    /\ indirect' = <<>>
    /\ PrefetchStubs(ToSet(l.autolinks))
    /\ inputs' = [i \in DOMAIN (l.autolinks \o possible) |->
                      [file |-> (l.autolinks \o possible)[i], key |-> 0, flags |-> {"autolinked"}, loader |-> FALSE]]
    /\ possible' = <<>>
    /\ phase' = "prefetch_auto"
    /\ UNCHANGED <<l, cache, visited, stack, named, warned, errors, ranks>>

\* The tasks that read ahead are done
EndPrefetch ==
    /\ phase \in {"prefetch", "prefetch_auto"} /\ reading = {}
    /\ phase' = IF phase = "prefetch" THEN "inputs" ELSE "autolink"
    /\ UNCHANGED <<l, reading, seen, cache, inputs, visited, possible, stack, dylibs, counter, merging, indirect,
                   named, warned, errors, before, ranks>>

-----------------------------------------------------------------------------
(* The order symbols are looked up in.                                     *)

Unranked == <<9, 0>>

IsNearer(key, to, k) == key[to] = None \/ LexLess(k, key[to])

\* The worklist of dylib_ranks: how near each re-exported library is, and by which it is re-exported
RECURSIVE Nearness(_, _, _, _)
Nearness(ds, rk, queue, key) ==
    IF queue = <<>> THEN key
    ELSE LET i == Last(queue)[1]
             depth == Last(queue)[2]
             Relax(acc, e) ==
                LET k == <<depth + e.hops, e.via>>
                IN IF ds[e.to].is_implicit /\ rk[e.to] = Unranked /\ IsNearer(acc.key, e.to, k)
                   THEN [key |-> [acc.key EXCEPT ![e.to] = k], queue |-> Append(acc.queue, <<e.to, k[1]>>)]
                   ELSE acc
             next == FoldLeft(Relax, [key |-> key, queue |-> Front(queue)], ds[i].edges)
         IN Nearness(ds, rk, next.queue, next.key)

RankByNearness(ds, rk, auto, key) ==
    LET reached == SortSeq(SelectSeq([i \in DOMAIN ds |-> i], LAMBDA i : key[i] # None),
                           LAMBDA i, j : LexLess(key[i] \o <<ds[i].name>>, key[j] \o <<ds[j].name>>))
        Place(i) == CHOOSE k \in DOMAIN reached : reached[k] = i
    IN [i \in DOMAIN ds |-> IF key[i] # None THEN <<IF auto THEN 3 ELSE 1, Place(i)>> ELSE rk[i]]

RankReexports(ds, rk, auto) ==
    LET from == SelectSeq([i \in DOMAIN ds |-> <<i, 0>>],
                          LAMBDA q : ~ds[q[1]].is_implicit /\ ds[q[1]].is_autolinked = auto)
    IN RankByNearness(ds, rk, auto, Nearness(ds, rk, from, [i \in DOMAIN ds |-> None]))

DylibRanks(ds) ==
    LET own == [i \in DOMAIN ds |->
                   IF ds[i].is_implicit THEN Unranked
                   ELSE <<IF ds[i].is_autolinked THEN 2 ELSE 0,
                          IF ds[i].named_at # 0 THEN ds[i].named_at ELSE ds[i].priority>>]
        Rest(all) == [i \in DOMAIN ds |-> IF all[i] = Unranked /\ ds[i].source # Moved
                                            THEN <<4, ds[i].priority>> ELSE all[i]]
    IN Rest(RankReexports(ds, RankReexports(ds, own, FALSE), TRUE))

\* dylib_search_order from the first dylib on
SearchOrder == SortSeq(SelectSeq([i \in DOMAIN dylibs |-> i], LAMBDA i : ranks[i] # Unranked),
                       LAMBDA i, j : LexLess(ranks[i], ranks[j]))

\* The auto-linked libraries are hints, those first loaded as re-exports too; then the ranks are given
EndAutolink ==
    /\ phase = "autolink" /\ stack = <<>> /\ inputs = <<>>
    /\ \E ds \in {[i \in DOMAIN dylibs |->
                     [dylibs[i] EXCEPT !.is_autolinked =
                         @ \/ i > Len(before) \/ (i <= Len(before) /\ before[i] /\ ~dylibs[i].is_implicit)]]} :
          dylibs' = ds /\ ranks' = DylibRanks(ds)
    /\ indirect' = <<>>
    /\ phase' = "done"
    /\ UNCHANGED <<l, reading, seen, cache, inputs, visited, possible, stack, counter, merging, named, warned,
                   errors, before>>

-----------------------------------------------------------------------------

DylibsInit ==
    /\ \E family \in Links : l \in family
    /\ phase = IF StopsTheLink(l.inputs) THEN "stopped" ELSE "prefetch"
    /\ inputs = IF StopsTheLink(l.inputs) THEN <<>> ELSE LibraryNamings(l.inputs)
    /\ reading = {f \in {i.file : i \in ToSet(l.inputs)} : IsStub(f)}
    /\ seen = [files |-> reading, names |-> {}]
    /\ cache = {} /\ visited = {} /\ possible = <<>> /\ stack = <<>> /\ dylibs = <<>> /\ counter = 0
    /\ merging = [deps |-> <<>>, libs |-> {}] /\ indirect = <<>> /\ named = {} /\ warned = {}
    /\ errors = StopsTheLink(l.inputs) /\ before = <<>> /\ ranks = <<>>

DylibsDone == phase \in {"done", "stopped"} /\ UNCHANGED dylibVars

DylibsNext ==
    \/ \E f \in reading : phase \in {"prefetch", "prefetch_auto"} /\ PrefetchStub(f)
    \/ EndPrefetch
    \/ ReadInput
    \/ SkipVisited \/ LoadLinked \/ LoadFile \/ LoadInlined \/ MissingLibrary \/ EndWalk
    \/ StartAutolink
    \/ EndAutolink
    \/ DylibsDone

DylibsSpec == DylibsInit /\ [][DylibsNext]_dylibVars

-----------------------------------------------------------------------------
(* Properties.                                                             *)

\* The libraries of the world, as the link's target has them, and their install names
World == LET Libs(f) == {LibraryOf(f)} \cup ToSet(DocumentsOf(f))
         IN UNION {Libs(f) : f \in {f \in DOMAIN l.files : l.files[f].kind # "other" /\ l.files[f].arch}}

\* The libraries a program that loads those named `names` gets with them, but by way of those to avoid
RECURSIVE Reached(_, _)
Reached(names, avoid) ==
    LET more == names \cup (UNION {ToSet(w.reexports) : w \in {w \in World : w.identity \in names}} \ avoid)
    IN IF more = names THEN names ELSE Reached(more, avoid)

ExportsOf(names) == UNION {w.exports : w \in {w \in World : w.identity \in names}}

Loaded == phase = "done" /\ ~errors

\* Every symbol of a library the link loaded, and of the libraries it
\* re-exports in whatever way, is offered by a dylib the resolution looks in
\* - but for what only a library that the link warned is missing leads to
\* (load_reexports, add_library, dylib_ranks)
ReexportsAreOffered ==
    Loaded => \A e \in named :
        LET names == Reached({IdentityOf(e.file).name}, warned)
        IN ExportsOf(names) \subseteq UNION {dylibs[i].exports : i \in {i \in DOMAIN dylibs : ranks[i] # Unranked}}

\* Whether a library binds for itself when another re-exports it
BindsForItself(n) == IsPublicName(n) /\ \A w \in World : w.identity = n => w.clients = {}

\* What a dylib offers, dyld finds in the library of that install name: its
\* own exports and those of the private libraries it re-exports, not those of
\* a public one, whose symbols bind to it (load_reexports, add_dylib)
OffersAreReal ==
    Loaded => \A i \in DOMAIN dylibs : ~dylibs[i].loader /\ dylibs[i].source = Own =>
        LET d == dylibs[i]
        IN d.exports \subseteq ExportsOf(Reached({d.name}, {n \in DOMAIN l.places : BindsForItself(n)}))

\* The namings of the command line, by the library they load
NamingsOf(n) == {e \in named : LibraryOf(e.file).name = n /\ "autolinked" \notin e.rc}

\* The namings of any kind that get a program the library n
Bringing(n) == {e \in named : n \in Reached({IdentityOf(e.file).name}, {})}

\* A library loads as the first option of the command line to name it asks,
\* whatever a library that re-exports it was asked for before; one that is
\* only re-exported is weak if those that bring it are, and only if one is
\* (load_dylib, name_dylib)
NamedAsAsked ==
    Loaded => \A i \in DOMAIN dylibs : ~dylibs[i].loader /\ dylibs[i].source = Own =>
        LET d == dylibs[i]
            namings == NamingsOf(d.name)
            first == LeastOf(namings, LAMBDA e : e.at)
        IN IF namings # {}
           THEN /\ d.is_weak = ("weak" \in first.rc /\ "sub" \notin first.rc)
                /\ "needed" \in first.rc => d.is_needed
                /\ d.is_reexported = (first.rc \cap {"reexport", "sub"} # {})
                /\ ~d.is_implicit /\ ~d.is_autolinked
           ELSE /\ d.is_weak => \E e \in Bringing(d.name) : "weak" \in e.rc
                /\ (Bringing(d.name) # {} /\ \A e \in Bringing(d.name) : "weak" \in e.rc) => d.is_weak

\* How far each dylib is from those the command line names, or an auto-link
\* option, over every path of re-exports: the pairs of a dylib and a distance
RECURSIVE Distances(_)
Distances(S) ==
    LET more == S \cup {<<e.to, p[2] + e.hops>> : <<p, e>> \in
                        {<<p, e>> \in S \X UNION {ToSet(dylibs[i].edges) : i \in DOMAIN dylibs} :
                            e \in ToSet(dylibs[p[1]].edges) /\ dylibs[e.to].is_implicit}}
    IN IF more = S THEN S ELSE Distances(more)

\* Of the libraries the command line's re-export, the nearest is looked in
\* first, and of the equally near the one whose re-exporter's name is first
\* (dylib_ranks)
RanksAreNearest ==
    Loaded =>
        LET all  == Distances({<<i, 0>> : i \in {i \in DOMAIN dylibs : ranks[i][1] = 0}})
            Dist(i) == LeastOf({p[2] : p \in {p \in all : p[1] = i}}, LAMBDA n : n)
            near == {i \in DOMAIN dylibs : \E p \in all : p[1] = i}
            Vias(i) == {e.via : e \in {e \in UNION {ToSet(dylibs[p].edges) : p \in near} :
                          e.to = i /\ \E p \in near : e \in ToSet(dylibs[p].edges) /\ Dist(p) + e.hops = Dist(i)}}
            Key(i) == <<Dist(i), LeastOf(Vias(i), LAMBDA n : n), dylibs[i].name>>
            reexports == {i \in near : dylibs[i].is_implicit}
        IN /\ reexports = {i \in DOMAIN dylibs : ranks[i][1] = 1}
           /\ \A i, j \in reexports : LexLess(ranks[i], ranks[j]) <=> LexLess(Key(i), Key(j))
=============================================================================
