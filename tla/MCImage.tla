------------------------------ MODULE MCImage ------------------------------
(***************************************************************************)
(* The passes that make the image: the output sections, the fixups, the    *)
(* export trie and the symbol table.                                       *)
(* Their modules share no state here: each behaviour is one of one         *)
(* component, the one that `part` names, on the small instances of the     *)
(* cases module; `Over` is the step a component that has ended stays in,   *)
(* so that TLC reports one that is stuck before its end.                   *)
(***************************************************************************)
EXTENDS ImageCases

CONSTANTS
    Parts    \* the components to run

VARIABLES
    part,   \* the component that runs
    l, pc, isecs, moves, table, cache, job, groups, osecs, own, chunks, hdrs,
    bounds, segs, ended, args, syms, dylibs, refs, got, stubs, lazyStubs,
    fixups, link, flags, binder, lazyGot, lazyDylibs, helpers, lazySites,
    delayStubs, delaySites, dlopens, trieAt, exports, trie, placement,
    trieBuf, unwritten, stAt, image, entries, stabs, entryOf, strxOf,
    stabStrx, strtab, busy

vars == <<part, l, pc, isecs, moves, table, cache, job, groups, osecs, own, chunks,
          hdrs, bounds, segs, ended, args, syms, dylibs, refs, got, stubs,
          lazyStubs, fixups, link, flags, binder, lazyGot, lazyDylibs,
          helpers, lazySites, delayStubs, delaySites, dlopens, trieAt,
          exports, trie, placement, trieBuf, unwritten, stAt, image, entries,
          stabs, entryOf, strxOf, stabStrx, strtab, busy>>

Sections == INSTANCE Sections WITH
    Links <- SectionLinks, Workers <- SectionWorkers, Block <- 2
Bindings == INSTANCE Bindings WITH
    Links <- BindingLinks, NameOrder <- BindingNames, StubBinder <- "binder",
    LazyLoad <- "_lazy", Dlopen <- "_dlopen", MaxInline <- 1,
    MaxAddend32 <- 2, NarrowBits <- 3, WideBits <- 5, PageWords <- 4
ExportTrie == INSTANCE ExportTrie WITH
    ExportSets <- TrieExportSets, Base <- 2, UlebBase <- 16, RootOffset <- 3,
    Reexport <- TrieReexport
OutputSymtab == INSTANCE OutputSymtab WITH
    Images <- SymtabImages, Suffix <- 3, Label <- 4, Space <- 9

Idle == "idle"   \* the variables of the components that do not run

SectionsInit ==
    /\ part = "sections" /\ Sections!SectionsInit
    /\ args = Idle /\ syms = Idle /\ dylibs = Idle /\ refs = Idle
    /\ got = Idle /\ stubs = Idle /\ lazyStubs = Idle /\ fixups = Idle
    /\ link = Idle /\ flags = Idle /\ binder = Idle /\ lazyGot = Idle
    /\ lazyDylibs = Idle /\ helpers = Idle /\ lazySites = Idle
    /\ delayStubs = Idle /\ delaySites = Idle /\ dlopens = Idle
    /\ trieAt = Idle /\ exports = Idle /\ trie = Idle /\ placement = Idle
    /\ trieBuf = Idle /\ unwritten = Idle /\ stAt = Idle /\ image = Idle
    /\ entries = Idle /\ stabs = Idle /\ entryOf = Idle /\ strxOf = Idle
    /\ stabStrx = Idle /\ strtab = Idle /\ busy = Idle
SectionsTakes(A) ==
    /\ part = "sections" /\ A
    /\ UNCHANGED <<part, args, syms, dylibs, refs, got, stubs, lazyStubs, fixups,
                   link, flags, binder, lazyGot, lazyDylibs, helpers,
                   lazySites, delayStubs, delaySites, dlopens, trieAt,
                   exports, trie, placement, trieBuf, unwritten, stAt, image,
                   entries, stabs, entryOf, strxOf, stabStrx, strtab, busy>>
SectionsSteps == SectionsTakes(Sections!SectionsNext)

BindingsInit ==
    /\ part = "bindings" /\ Bindings!Init
    /\ l = Idle /\ isecs = Idle /\ moves = Idle /\ table = Idle
    /\ cache = Idle /\ job = Idle /\ groups = Idle /\ osecs = Idle
    /\ own = Idle /\ chunks = Idle /\ hdrs = Idle /\ bounds = Idle
    /\ segs = Idle /\ ended = Idle /\ trieAt = Idle /\ exports = Idle
    /\ trie = Idle /\ placement = Idle /\ trieBuf = Idle /\ unwritten = Idle
    /\ stAt = Idle /\ image = Idle /\ entries = Idle /\ stabs = Idle
    /\ entryOf = Idle /\ strxOf = Idle /\ stabStrx = Idle /\ strtab = Idle
    /\ busy = Idle
BindingsTakes(A) ==
    /\ part = "bindings" /\ A
    /\ UNCHANGED <<part, l, isecs, moves, table, cache, job, groups, osecs, own,
                   chunks, hdrs, bounds, segs, ended, trieAt, exports, trie,
                   placement, trieBuf, unwritten, stAt, image, entries,
                   stabs, entryOf, strxOf, stabStrx, strtab, busy>>
BindingsSteps == BindingsTakes(Bindings!Next)

ExportTrieInit ==
    /\ part = "trie" /\ ExportTrie!TrieInit
    /\ l = Idle /\ pc = Idle /\ isecs = Idle /\ moves = Idle /\ table = Idle
    /\ cache = Idle /\ job = Idle /\ groups = Idle /\ osecs = Idle
    /\ own = Idle /\ chunks = Idle /\ hdrs = Idle /\ bounds = Idle
    /\ segs = Idle /\ ended = Idle /\ args = Idle /\ syms = Idle
    /\ dylibs = Idle /\ refs = Idle /\ got = Idle /\ stubs = Idle
    /\ lazyStubs = Idle /\ fixups = Idle /\ link = Idle /\ flags = Idle
    /\ binder = Idle /\ lazyGot = Idle /\ lazyDylibs = Idle /\ helpers = Idle
    /\ lazySites = Idle /\ delayStubs = Idle /\ delaySites = Idle
    /\ dlopens = Idle /\ stAt = Idle /\ image = Idle /\ entries = Idle
    /\ stabs = Idle /\ entryOf = Idle /\ strxOf = Idle /\ stabStrx = Idle
    /\ strtab = Idle /\ busy = Idle
ExportTrieTakes(A) ==
    /\ part = "trie" /\ A
    /\ UNCHANGED <<part, l, pc, isecs, moves, table, cache, job, groups, osecs,
                   own, chunks, hdrs, bounds, segs, ended, args, syms,
                   dylibs, refs, got, stubs, lazyStubs, fixups, link, flags,
                   binder, lazyGot, lazyDylibs, helpers, lazySites,
                   delayStubs, delaySites, dlopens, stAt, image, entries,
                   stabs, entryOf, strxOf, stabStrx, strtab, busy>>
ExportTrieSteps == ExportTrieTakes(ExportTrie!TrieNext)

OutputSymtabInit ==
    /\ part = "symtab" /\ OutputSymtab!SymtabInit
    /\ l = Idle /\ pc = Idle /\ isecs = Idle /\ moves = Idle /\ cache = Idle
    /\ job = Idle /\ groups = Idle /\ osecs = Idle /\ own = Idle
    /\ chunks = Idle /\ hdrs = Idle /\ segs = Idle /\ ended = Idle
    /\ args = Idle /\ syms = Idle /\ dylibs = Idle /\ refs = Idle
    /\ got = Idle /\ stubs = Idle /\ lazyStubs = Idle /\ fixups = Idle
    /\ link = Idle /\ flags = Idle /\ binder = Idle /\ lazyGot = Idle
    /\ lazyDylibs = Idle /\ helpers = Idle /\ lazySites = Idle
    /\ delayStubs = Idle /\ delaySites = Idle /\ dlopens = Idle
    /\ trieAt = Idle /\ exports = Idle /\ trie = Idle /\ placement = Idle
    /\ trieBuf = Idle /\ unwritten = Idle
OutputSymtabTakes(A) ==
    /\ part = "symtab" /\ A
    /\ UNCHANGED <<part, l, pc, isecs, moves, cache, job, groups, osecs, own,
                   chunks, hdrs, segs, ended, args, syms, dylibs, refs, got,
                   stubs, lazyStubs, fixups, link, flags, binder, lazyGot,
                   lazyDylibs, helpers, lazySites, delayStubs, delaySites,
                   dlopens, trieAt, exports, trie, placement, trieBuf,
                   unwritten>>
OutputSymtabSteps == OutputSymtabTakes(OutputSymtab!SymtabNext)

Init == part \in Parts /\ (SectionsInit \/ BindingsInit \/ ExportTrieInit \/ OutputSymtabInit)

\* A component that has come to its end.
Over ==
    /\ \/ part = "bindings" /\ pc \in {"done", "failed"}
       \/ part = "trie" /\ trieAt = "done"
       \/ part = "symtab" /\ OutputSymtab!Written
    /\ UNCHANGED vars

Next == SectionsSteps \/ BindingsSteps \/ ExportTrieSteps \/ OutputSymtabSteps \/
    Over

Spec == Init /\ [][Next]_vars
-----------------------------------------------------------------------------
\* However the workers' jobs interleave, and whatever their caches hold, the
\* output sections are those of the names the live subsections go to, in input
\* order with the flags of the first; and nothing in a section overlaps
\* anything else in it, be it an input, a record that replaces some or a
\* -sectcreate content (assign_input_sections, group_input_sections,
\* compute_section_sizes, append_tail).
SectionsAsSequential ==
    part = "sections" => Sections!SectionsAsSequential /\ Sections!ContentsApart

\* A boundary symbol always has a section or a segment of the image to name,
\* the one the input sections of that name went to unless the linker merged or
\* moved those; and the chunks are in the order the loader needs, the header
\* first, __LINKEDIT last and zero fill after contents (add_boundary_sections,
\* sort_output_sections, create_segments).
ImageInOrder ==
    part = "sections" => Sections!BoundariesFollowInputs /\ Sections!ImageInOrder

\* Every reference of the image, at run time, ends at the definition that
\* resolution chose, with its addend, whichever of stubs, slots, helpers,
\* opcodes, chains or relocations it goes through; the calls that the linker
\* adds arrive, and a library loads weakly only if all it gives is weak
\* (build_fixups, finish_stubs, dead_strip_dylibs).
EveryReferenceArrives ==
    part = "bindings" =>
        /\ Bindings!EveryReferenceArrives
        /\ Bindings!LinkerCallsArrive
        /\ Bindings!WeakLoadsAreWeak

\* Whatever order the workers write the nodes in, a reader of the trie finds
\* exactly the exports, each with its own terminal: no offset is off, no node
\* runs over another, and the root's slack hides no edge (ExportTrie).
ReadersFindExports == part = "trie" => ExportTrie!ReadersFindExports

\* In whatever order the blocks are written, every entry and every note of
\* the symbol table reads back the name it was planned with, shared or its
\* own, the index an indirect entry takes holds that symbol, and the notes a
\* debugger reads come in pairs (create_output_symtab, layout_strings, copy_symtab).
EntriesNameTheirSymbols ==
    part = "symtab" => OutputSymtab!EntriesNameTheirSymbols /\ OutputSymtab!NotesArePaired
=============================================================================
