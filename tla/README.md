# A TLA+ model of mold-macho

mold-macho (`src/`) is a Mach-O linker in Rust. This directory holds TLA+ modules
that model its passes, TLC configurations that check them on small instances,
and TLAPS proofs of the properties that matter most for every value of the
constants. `PROJECT.json` is the index: components, runs, the map from
definitions to source lines, faulty variants, hazards, findings and theorems.

## 1. The system

`macho/driver.rs` runs the passes of `macho/passes.rs` in one order. One thread,
the link's own, goes from pass to pass; most passes are parallel loops over
objects, subsections, chunks or symbols (rayon), joined before the next pass
begins. The link forks early: a parent waits for the child's report, and the
child links, writes the output with background threads and exits.

| Component | State | Operations | Interacts with | Hard because | Correct means |
|---|---|---|---|---|---|
| Driver, `driver.rs` | the `Context` | speculate on a target, parse options again, run the passes, checkpoints | everything | an error given in a parallel pass must stop the link at the next checkpoint | a link with an error fails and leaves no output |
| Command line, `cmdline.rs` | options, held warnings | `parse_args` once per speculated target, then the rules that settle one option by others | diagnostics, reader | rules read what other rules write; options are read more than once | each option is settled after those it needs; a warning comes out once |
| Diagnostics, `error.rs` | `PARALLEL`, `HELD`, `HAS_ERROR`, `OUTPUT_LOCK` | `emit`, `warn`, `error`, `fatal`, `checkpoint`, `release_held` | every pass; process end | workers give messages and die at any moment | none lost, one order in every run |
| Patterns, `glob.rs` | automata of words of bits, substring automaton, literals | `add`, `build`, `find` | export lists, order files | one query goes through several automata with shared words | the largest value of a matching pattern |
| Search, `reader.rs` | search paths, log of probes | search for files, libraries, frameworks; prefetch | reader, dependency info | tasks search ahead of time and their results are replayed | as if one file were searched after another |
| Reader, `reader.rs` | loaded files, priorities, visited paths | load, name again, force-load, auto-link options | resolution | libraries are named again, by options of files loaded later | a file is loaded once; priorities follow the order of naming |
| Dylibs, `input_files.rs` | exports, re-exports, ranks, namings | load, merge, inline, move, rank | resolution, fixups | a graph of re-exports walked with a queue, a pool and recursion | the link sees what dyld will find |
| Objects, `input_files.rs`, `input_sections.rs` | symbols, subsections, relocations, unwind records | stage in parallel, split at symbols, integrate a batch | resolution, stripping, folding | parallel writes into reserved ranges | the subsections partition the sections; a batch is integrated as one object after another |
| Symbol table, `symbol.rs` | sharded maps, an arena of symbols | `intern`, `lookup`, `add_local`, `gather` | every pass that names symbols | parallel writes through raw pointers into reserved memory | one id per name, no uninitialized symbol, ids free of scheduling |
| Resolution, `passes.rs` | owners, live objects, `best` ranks | race, claim, liveness walk, auto-link, final round, last dylibs | reader, LTO | lock-free race; rounds use what earlier rounds decided | the best definition owns, only needed members are live |
| LTO, `lto.rs` | bitcode placeholders | register, preserve, compile, resolve again | resolution, dead stripping | decisions before LTO must hold after it | nothing used is internalized, no bitcode is left |
| Definitions, `passes.rs` | redirects, visibility, aliases | literals, commons, aliases, auto-hide, export lists, coalescing, checks | stripping, folding | a dozen passes change one symbol; the order decides | one copy that is in the output; exports as asked |
| Dead stripping, `dead_strip.rs` | visited and alive bits, batches | mark in tasks, live support, sweep | LTO, `-why_live` | work handed between recursion, lists and tasks; two walks share bits | exactly the needed subsections stay |
| Code folding, `icf.rs` | digests, lock-free table, replacements | candidates, propagate, count, fold | dead stripping, layout | lock-free counting; a fixed point over cycles | folded functions are interchangeable |
| Objective-C, `objc.rs` | reference slots, stubs, method lists, classes and categories | coalesce references, make stubs, fold class references, convert method lists, merge categories | definitions, stripping, bindings | each pass rewrites what the next reads, through replacements | the runtime and the code see the same classes, methods and selectors |
| Output sections, `passes.rs`, `chunks/mod.rs`, `symbol_moves.rs` | sections, members, ranks, order | group in workers, rename, move, order, boundary sections, segments | layout | many rules meet; workers share a table through caches | as a sequential grouping; nothing overlaps; the loader's order |
| Relocation scan and bindings, `passes.rs`, `chunks/got.rs`, `stubs.rs`, `lazy*.rs` | needs-bits, slots, helpers, ordinals | scan in parallel, assign slots, relax, lazy and delayed libraries | fixups | one reference may go through stub, slot, helper or opcode | a reference ends at the definition that resolution chose |
| Thunks, `thunks.rs` | batches, marks, offsets | lay out code, scan, place | layout | sizes bounded before they are known | every branch reaches |
| Layout, `passes.rs`, `chunks/unwind_info.rs`, `chain_starts.rs` | addresses, offsets, sizes | lay out, place around pins, again if a size changed | all writers | sizes depend on addresses and addresses on sizes | nothing overlaps; tables are those of the last layout; it ends |
| Encodings, `chunks/*` | `__LINKEDIT`, `__unwind_info` | chained fixups, opcodes, export trie, unwind pages, symbol table | dyld, debugger, unwinder | limits of fields and pages; parallel writers | a reader gets back what was written |
| Output, `output_file.rs`, `subprocess.rs`, `code_signature.rs` | buffer, queue, writers, registered path | open, queue, close, cleanup, hash, notify | process end | threads write while others still compute; every step may fail | complete or absent; success only if complete |

The hazards of these components, each at the line where it bites, are in
`PROJECT.json`.

## 2. Modules

Definitions keep the names of the functions they model; `PROJECT.json` has the
lines.

The front end:

* **Options** — `resolve_options` and what it calls: kind of output, target,
  entry, fixups' format, layout, stack, segments, checks. A command line is
  chosen in `Init`; a step settles one group of options, in the code's order.
* **Messages** — diagnostics, with the parse loop and the passes as their callers.
* **Glob** — compiling patterns, the bit-parallel automaton (words of a few bits),
  the Aho-Corasick automaton and the literals; one query after another.
* **Search** — search roots and directories, libraries, frameworks, files, the
  options of `LC_LINKER_OPTION`, the tasks that search ahead of time with their
  logs of probes and the replay.
* **Dylibs** — namings on the command line, the prefetch of stubs, `load_reexports`'s
  queue, pool and recursion, merged and inlined documents, `$ld$` directives,
  moved exports, clients, ranks.
* **Staging** and **Objects** — Staging is what one thread does with one object:
  demoted sections and symbols, splitting, relocations with their pairs,
  compact unwind records, CIEs and FDEs. Objects integrates a batch of staged
  objects with threads that write into ranges reserved for them, then follows
  the unwind information through stripping and folding to `__unwind_info` and
  `__eh_frame`, and reads it as an unwinder does.

The symbols:

* **DefinitionRace** — `race_definitions` and `claim_definitions`. A step is one
  atomic operation, or one unlocked write of a symbol's slot. `best` is the
  array of atomics; `racing`, `claiming`, `writing`, `written` say how far each
  definition is. **DefinitionRaceProofs** proves it for any number of objects.
* **SymbolTable** — `intern`, `lookup`, `add_local` and the five loops of
  `gather`, one step per name and shard. A slot that nobody has written is
  `Raw`, which is how an uninitialized symbol would show.
  **SymbolTableProofs** proves it for any names, shards and batches.
* **Resolve** — `resolve_symbols` whole, with the reader as far as loading order,
  priorities, `-force_load` and auto-link options go, and `do_lto` between two
  resolutions. The parallel loops are single steps, which DefinitionRace
  justifies: their outcome does not depend on the interleaving. **MCSymbolsProofs**
  proves it for any files, symbols, archives and options.
* **Definitions** — the passes from resolution to the scan that settle definitions,
  in the driver's order for a link and for `-r`: commons, literals, aliases,
  boundary and header symbols, auto-hide, export lists, forced weakness,
  coalescing, initializers, stripping's part, and the checks that fail a link.
  **MCSymbolsProofs** proves what replaces a subsection for any family of links
  (`SettleLinks`).
* **DeadStrip** — both walks of a link (before LTO, to strip): the roots, parallel
  marking edge by edge with the recursion's levels and the batches, the serial
  walk of `-why_live`, live support, sweep and the symbols in use afterwards.
  **DeadStripProofs** proves it for every graph, number of tasks, batch size
  and depth.
* **Icf** — candidates, the digest of a function as what is hashed into it, the
  refinement loop and folding. **DigestMap** — the lock-free table that the loop
  counts with, one atomic operation at a time. **ClassCount** — what the table
  promises, with an insert as one step; DigestMap is shown to implement it, which
  is why Icf may count classes in one step. **DigestMapProofs** proves that for
  any candidates, digests and table, and **MCSymbolsProofs** the safety of folding
  for any functions and links.
* **Objc** — the passes of `objc.rs` in the driver's order, on subsections of 8-byte
  words: coalescing, stubs (with what dead stripping leaves of them), loads from
  the GOT, relative method lists, and categories merged class by class. An image
  is read, before and after, the way the runtime reads it (external).

The image:

* **SectionNames** and **Sections** — where each subsection goes (names, renames,
  symbol moves), the workers that group subsections through private caches and
  a shared table, `-order_file`, `-sectcreate`, members' offsets, synthetic and
  boundary sections, the order of sections, segments, and the checks.
* **SymbolBinding**, **Bindings**, **Fixups**, **Dyld** — SymbolBinding says how a symbol
  is bound (imported, ordinal, weak, interposable). Bindings scans relocations,
  assigns slots, stubs, lazy pointers and helpers, decides which libraries stay
  and what is delayed; Fixups writes rebases and binds in every format (chains,
  opcodes, classic relocations); Dyld, an external component modelled from what
  the linker writes for it, loads the image and follows every reference.
* **ExportTrie** — building, placing and writing the trie by workers, ULEB128
  included, and reading it back the way the linker reads a dylib's.
* **OutputSymtab** — which symbols go out, groups, debugging notes, shared
  strings, indices, and the parallel writers of entries and notes.
* **Thunks** — `need_thunks`, `create_thunks` for each code section, code spans,
  the second placement.
* **Segments** — `set_osec_offsets` after the thunks: laying segments out, placing
  them around pinned ones, the loops of `finish_unwind_info` and
  `finish_chain_starts`, the overlap and order checks, `__LINKEDIT`.
  **SegmentsProofs** proves its safety for every image.
* **OutputFile** — the end of `driver::link`: copy tasks, fixups, symbol table,
  header, UUID, signature, the queue, the writers' `pwrite`s with the page cache,
  `close`, every way to die (`fatal`, `checkpoint`, signal, panic) and the parent.
  **OutputFileProofs** proves its safety for every layout, number of writers and of
  tasks; **MCOutputProofs** carries both modules' theorems over to the composition
  that TLC runs.

What composes: SymbolTable gives the ids whose entries DefinitionRace races for;
Resolve takes the race as a step; Resolve's dylibs are Dylibs' result, its live
objects are Definitions', and DeadStrip's `inLink`; merged copies reach DeadStrip
and Icf as `redirect`; Icf takes DigestMap as ClassCount (a refinement that TLC
checks and that is proved); Objects composes Staging, and Bindings composes SymbolBinding, Fixups
and Dyld; Thunks fixes the sizes Segments lays out; Messages and OutputFile model
the same process end from two sides (what comes out of stderr, what is left on
disk).

Cases. **MCDefinitionRace**, **MCSymbolTable**, **MCDeadStrip** and **MCDigestMap** give
their module an instance each. **MCInputs**, **MCSymbols**, **MCImage** and **MCOutput**
each hold the components of one stage of the link; the instances are in
**InputCases**, **SymbolCases**, **ImageCases** and, for the last stage, MCOutput itself.
What the proofs are about, MCSymbols' files, symbols, functions and links and
MCOutput's images and page, are constants that the configuration sets to these
instances. The passes of a stage
run one after another and share no state that both change, so a behaviour is
one of one component: `part` names it, `Parts` says which ones a configuration
runs, and the variables of the others are `Idle`. Where a component stops, `Over`
stutters, so that deadlock checking stays on and finds one that is stuck.

Abstractions. Names, contents and addresses are small numbers or model values.
A byte of the output is a unit whose value counts the passes that have written
it; a byte of the export trie is a byte. A digest in Icf is the tuple that is
hashed (no collisions); in DigestMap it is a home slot, a tag and a low half,
which may collide part by part. Instructions are what they refer to. The
formatting of messages is left out but for the prefix, which decides the order
they are sorted in.

## 3. Runs

Eight passing runs, and four that show a disagreement.

| Run | Instance | Shows |
|---|---|---|
| `definition_race` | 4 objects, 1 symbol, every rank and discarded set | `OneWriter`: the unsafe slot write is exclusive. `WinnerIsBest`: the outcome is the minimum rank's, whatever the order |
| `symbol_table` | 3 names, 2 shards, batches up to 3 with repetitions, room for 4 | `IdsAreNames`, `NoRawSymbol`, `IdsDeterministic` |
| `dead_strip` | 436 graphs of 5 subsections and 684 links with bitcode (636 of which merge copies between the two walks), 3 tasks, batches of 2, depth 1 | `MarkIsExact`, `NoDanglingReference`, `OnlyNeededSurvives`, `ResultsAreUsable` (what LTO may drop, and the chains of `-why_live`), `Ends` |
| `digest_map` | 3 candidates, 8 slots, colliding digests, 2 rounds | `CountsAtomically` (the refinement of ClassCount), `EveryoneIsLed` |
| `inputs` | some 20,000 command lines; 2 workers with up to 4 messages; patterns of every kind with every short name; searches by a task per option; graphs of up to 6 libraries; batches of up to 3 objects. 1.2 million states | `OptionsSettle`, `NothingIsLost`, `DiagnosticsRepeat`, `LargestMatchIsFound`, `SearchAsSequential`, `OffersAreExact`, `NamedAsAsked`, `IntegratedAsSequential`, `UnwindersFindTheirFunction` |
| `symbols` | 30,000 links of main object, two archives, two dylibs; links of up to 3 objects for the definitions; call graphs of 5 functions and chains of 6; 1,050 images of Objective-C metadata. 0.88 million states | `MembersAsNeeded`, `BindingsAreSound`, `SurvivorsStand`, `DefinitionsAsAsked`, `FoldingIsSafe`, `MetadataMeansTheSame`, `EquivalentAreFolded` |
| `image` | subsections of every section kind grouped by 2 workers; images of every fixup format; tries written in any order; symbol tables with debugging notes. 0.74 million states | `SectionsAsSequential`, `ImageInOrder`, `EveryReferenceArrives`, `ReadersFindExports`, `EntriesNameTheirSymbols` |
| `output` | code of 1 and 2 sections, tight and loose; floating, pinned, stacked, unwound and chained segments; 6 pages, 2 writers, 2 copy tasks, every call may fail, one death. 0.29 million states | `AddressesFit`, `SegmentsApart`, `ContentsAreCurrent`, `SuccessMeansComplete`, `LayoutEnds`, `QueuedStaysFinal`, `ParentAnswers` |
| `messages_two_fatal` | Messages with two fatal workers | violation of `NothingIsLost` |
| `dylibs_leaf` | a library named on the command line that another re-exports under another path | violation of `NamedAsAsked` |
| `dylibs_moved` | a stand-in for a moved export with the install name of a re-exported library | violation of `OffersAreExact` |
| `segments_chained` | a section aligned beyond the page | violation of `LayoutEnds` |

The comments on the properties say what each states. Those of the four joined runs
are conjunctions of the components' own invariants, which the component's module
comments one by one.

Why the bounds are enough. In the race, a symbol's entry is independent of the
others' and a fault needs a winner, a discarded winner and two that compare late.
In the table, one shard has two names, so ranges have to be added up, and batches
repeat names, so old and new meet. The graphs of `dead_strip` have more
subsections than a batch and more levels than the recursion, so each way work is
handed over happens, with cycles, merged copies, live support before and after
what it refers to, and members left out. Two of the digests have the same home
(the last slot, so probing wraps) and tag. Chains of six functions outlast a
round of three propagations. Three libraries are enough for two ways of different
length to one library, and five for a public library inlined in a document and
found on disk. A batch of three objects has a base that is a sum of two sizes.
A class with two categories and one of an imported class have an order to get
wrong, a list with survivors and one without. The words of the pattern automata
are three bits wide, so that a pattern crosses them. The image of
`output` has ranges that start in the middle of a page, so each two neighbours
share one. Options, Definitions, Objc, Thunks and Segments are computations
without concurrency: there the number of shapes counts, and each constant keeps
the order of the code's (a batch is smaller than the reach, a thunk smaller than a
batch, an offset of two bytes longer than one). Counters that have no bound in the
code have a named one: `MaxRound`, `MaxGiven`, `MaxPasses`, `MaxFatal`, `MaxDying`,
`Cap`.

Every property has a faulty variant of a mapped definition (`X_Fault` before `X`)
under which TLC finds it violated.

No symmetry is used: objects and candidates are ordered, and some runs have
temporal properties.

Deadlock is checked, with `Over` or an explicit end step where a component ends,
but for `dead_strip` and `digest_map`, whose passes simply end.

Fairness. `WF_vars(Next)` of DeadStrip, and weak fairness of the steps of Icf,
Thunks and Segments in their runs, say that a pass that can go on does: rayon runs
every task it was given, and no task waits for another. DigestMap has weak
fairness per candidate: a thread that spins does so for a slot another running
thread has claimed, and the operating system runs both. OutputFile has it per
thread and for the parent: the kernel completes a `pwrite`, and the writers, the
main thread and the parent are separate threads or processes. Nothing needs
strong fairness.

## 4. Proofs

`tlapm` checks all obligations. Nothing is assumed but the named assumptions on
the constants, which TLC evaluates on its instances:

| Assumption | Module | Says |
|---|---|---|
| `InfinityIsNat`, `NoneIsNoObject` | DefinitionRace | `u64::MAX` is a number, "no file" is no file |
| `ShardAssumption` | SymbolTable | every name has a shard, batches are of names |
| `GraphAssumption` | DeadStrip | the graphs' edges, roots and copies are subsections, "dead" and "root" are none |
| `LtoAssumption` | MCDeadStrip | `LtoAdds`: nothing is merged before LTO; what LTO brings refers to what the bitcode did; a reference leads, after all merging, to what LTO brings or to what became of its target, and a copy that is referred to and replaced is replaced by one that refers to no more; native live support refers to none of what LTO brings. A hypothesis of two theorems alone |
| `DigestAssumption`, `RoundAssumption` | DigestMap | twice as many slots as candidates; digests that differ differ in what a slot stores; the rounds' numbers fit the stamp |
| `OutputAssumption` | MCOutput | OutputFile's `LayoutAssumption` (header, contents, symbol table and signature follow one another, a block is whole pages) and `SliceAssumption` (the copies' slices partition the contents); finitely many tasks |
| `LayoutAssumption` | MCOutput | `ThunkAssumption`, `SegmentAssumption`: sizes, alignments and pins are numbers, one `__PAGEZERO` and one header at most, ahead of all others, one `__unwind_info` or one `__chain_starts` |
| `ResolveAssumption` | MCSymbols | Resolve's `LinkAssumption`: finitely many files and libraries, none both object and dylib; what a link lists is files, symbols and libraries of its own; `-weak-l` is a command-line option; bitcode is neither hidden nor tentative |
| `SettleAssumption` | MCSymbols | Definitions' `LinkAssumption`: the fields of what resolution hands over have their types; relocations and symbols name subsections and symbols there are; a symbol in a section has a subsection of its own object (one in a section without subsections, debug information, names nothing and is left out) |
| `IcfAssumption` | MCSymbols | finitely many subsections, and what a copy was merged into was not merged itself |

Each proof has one inductive invariant, `IInv`, which TLC checked on the run's
instance before it was proved.

* **DefinitionRaceProofs.** `IInv` adds to the types: each definition races, compares
  and writes once and in that order; during the race `best` is a lower bound of
  what has raced and is one of the ranks; afterwards it is the minimum, *or*
  `Infinity` if the best definition was discarded and has written; only the best
  definition writes. The second disjunct is the point: without it the reset of
  `best` by a discarded winner breaks the invariant that the comparisons of the
  others rely on. `SingleWriter` follows since ranks of different objects differ,
  `OutcomeIsOrderFree` since at the end whoever is best has written.
* **SymbolTableProofs.** `IInv` relates, loop by loop, the bins not dealt with, the
  new names, the ranges of the shards (disjoint, without a gap, after the old
  symbols), the slots written and the maps. `OneIdPerName`, `NoUninitializedSymbol`
  and `SlotsWrittenOnce` (an action property) follow; the middle one needs that
  ranges leave no gap, the last that they are disjoint. `IdsAreDeterministic` needs
  a second invariant on top, `OrderInv`: a shard's new names are those of the
  names of its bin that were not in the table, each at its first place, in the
  batch's order; and a range starts where those of the shards before it end. So an
  id is a function of the batch and the hash, in which no scheduling occurs.
* **DeadStripProofs.** `IInv` says that a marked subsection is still to be walked, or
  each of its edges leads to a marked one or is on some task's list
  (`NothingLost`), that lists hold marked subsections and edges of marked ones
  only, and that whatever closed set has the roots has all that is marked
  (`NothingExtra`). Empty lists then make the marked set closed, hence the
  least: `MarkingIsExact`; `NothingDangles`, `SurvivorsAreNeeded` and
  `WalksStartClean` follow through live support and the sweep.
  `ReasonsEnd` (what `-why_live` prints ends at a root) adds that an unmarked
  subsection has no reason, and that each set that has whatever has a root or a
  member of the set for its reason has all that is marked: a reason is given once,
  when it is marked itself, so no circle can close. `NativeRefsArePreserved`
  compares the walk before LTO with the one after it. Live support is looked at
  once, in input order, so what is marked is no least fixed point, and the
  comparison goes stage by stage: `FirstInv` records what the first walk has marked
  at its n-th live-support subsection, `SecondInv` says that what the second has marked
  at its own n-th is what LTO brought or what became of those. Between the walks the
  link merges literals and Objective-C references (`driver.rs:192`) and weak copies
  (`driver.rs:206`), native ones and LTO's alike, so the two are compared through the
  second walk's redirects (`Became`): the copy that stays stands for each copy that
  the first walk may have marked. The hypothesis, `LtoAssumption`, says what LTO and
  merging do to the graph (`LtoAdds`). That a replaced copy is `Alike` its
  replacement follows for literals (they refer to nothing) and Objective-C references
  (they are merged by what they refer to); weak copies can differ, and a weak
  definition's owner can change. Where they do, where native live support refers to
  what LTO brings, and where an archive member that only LTO's output needs uses
  bitcode, a symbol can be missed, so the hypothesis leaves these links out
  (section 5 has an instance for each of the first three). Together the two are
  `WalksAreUsable`.
* **DigestMapProofs.** `Linearizable` shows each step of the lock-free table to be an
  insert or a lookup of ClassCount, or a stutter. The invariant is about linear
  probing: a candidate that looks at a slot has found each slot before it, from
  its digest's home on, stamped with this round and another digest, and that does
  not change within a round. Hence no digest is in two slots, a slot that was
  vacant when it was claimed proves that the digest is in none, and the claim is
  where the insert takes effect. Slots between claim and publish have one owner,
  whose stores nobody reads before they are published. A lookup ends because its
  digest is somewhere (`LookupsFind`). That stamps of old rounds are vacant needs
  `RoundAssumption`; section 5 has what happens without it.
* **OutputFileProofs.** The invariant follows a queued unit from the channel to a
  writer's block, or to the edges that `close` writes, and into the file, where it
  stays: a write covers its page, or finds the page in the file cache, whenever a
  unit of the page is in the file already. `SuccessIsComplete` and `BufferIsFinal`
  (an action property: nobody writes a byte that is queued) hold however many
  threads die. `OutputIsWhole`, that a link that ends leaves a complete output or
  none, has the hypothesis `MaxDying <= 1`, and has to: with two dying threads the
  code leaves a partial file (section 5, `output_file.rs:91`).
* **SegmentsProofs.** The invariant follows `set_osec_offsets` chunk by chunk and
  `place_segments` segment by segment: what is laid out so far is in order, in
  memory and in the file, within the segment's bounds; a segment that moves takes
  its chunks along; and, for `ContentsStayCurrent`, each of the loops of
  `finish_unwind_info` and `finish_chain_starts` leaves only if its contents were
  made for the addresses they have. The proofs are for any set of images.
* **MCOutputProofs** shows the composition's formulas to be those of the two modules,
  and that a step of another component leaves theirs alone.
* **MCSymbolsProofs.** `FoldingIsAlwaysSafe`: functions that Icf folds have the same
  content and refer to the same or folded ones, those whose addresses may be
  compared stay apart, and a replacement leads to a function in the output. The
  invariant is that a round's classes are a partition of the candidates into
  functions of the same content. A propagation only splits classes, since a digest
  includes the old one; so one that leaves the *number* of classes, all that the
  code compares, leaves the partition (the map from new classes to old is then
  onto between finite sets of one size, hence one to one). At such a fixed point
  functions of one class have edges to the same classes, by induction along the
  edges. `RoundsAreBounded` (an action property) has the other direction: a round
  that goes on has strictly more classes, never more than candidates, so the
  loop ends and its rounds fit `RoundAssumption` as long as the candidates do. An
  attempt to prove that a replacement is its own replacement failed for a good
  reason: the survivor of a merged copy may itself be folded, and `resolve`
  (`input_sections.rs:63`) follows the chain. The property now says where the chain
  ends, and the instance has that case.
* **MCSymbolsProofs**, resolution. `MembersAreAlwaysAsNeeded` and
  `BindingsAreAlwaysSound` rest on `ResolveInv`, which `ResolvingInvariant` states. The
  difficulty is that an owner is provisional until the last round: it was judged
  with members ranked as lazy, with dylibs that a later option ranks anew, and with
  references of objects that turn out dead. So the invariant says for each step of
  a round what may be relied on already. `FilesInv`: priorities tell loaded files
  apart, whatever order options name libraries in; and what is reached lies in every
  set that has what is given and from which nothing outside is wanted (this is
  `LiveIsNeeded`, inductive as it stands once owners are known to be definers).
  `NamesInv`: a dylib has looked up each symbol of the table since it was last seen,
  so a name interned late is not missed. `RankingInv`: the ranks are of dylibs that
  are loaded, and only `fresh` ones lack a rank. `RoundInv`: a symbol that some
  object offers has an owner, an offering object (live or lazy), a live
  tentative definition, or a dylib. `WalkInv`: what a visited object or the command
  line wants has a live owner. When the queue is empty these two give `FinalInv`: a
  round that asks only live objects finds each owner among them, so that leaving
  the lazy ones out takes nothing away; and what is still undefined is asked of
  the fresh dylibs, by the merged chain that `providing_dylib` follows. That chain
  is a recursive function over the numbers; a lemma shows it to stay among
  libraries that export the symbol.
  The attempt to prove `WeakImports` as it was first stated failed and showed the
  last divergence of section 5's table; the property now has the exception.

* **MCSymbolsProofs**, definitions. `SurvivorsAlwaysStand`: what a live subsection
  resolves to stands for itself, and is in the output unless an option removes it
  whatever refers to it; and a merged literal is stood for by a literal of its
  bytes, no less aligned. Three passes replace subsections, one takes them away, and
  `resolve` follows replacements without a bound, so the first thing to know is that
  it ends. `IsForest` says so with a numbering that grows along replacements and
  needs no more numbers than there are replaced subsections: `coalesce_weak_defs` and
  `merge_literals` replace only what stands for itself, by what does, and the
  numbering then has room for one more. `Survivor` is a recursive function over the
  numbers, and by the numbering it has stopped before they run out. `SettleInv` adds
  that replacing leads to what is in the output (`Leads`), until `dead_strip` has
  taken every replaced copy away (`Swept`), after which nothing alive is replaced;
  and that each replaced literal leads to its like (`KeepsLiterals`). The proof goes
  pass by pass: most leave the subsections alone, but each has to keep references and
  symbols in range, since the next one follows them; commons append subsections,
  after which the references still lie inside. The fourth conjunct of `LiveInv` is the
  one that coalescing rests on: a symbol's subsection is of a live object, so that
  what won over a copy is itself in the output.
  The property as it was first stated did not survive the attempt. That a literal
  resolves to one of the same bytes is false where a weak definition is a literal
  (section 5), hence `WeakLiterals`; it is now stronger in that the survivor has to be
  a literal, and in that options excuse only the subsections they remove.

Induction over data is done as induction over a set of numbers with a least element
(`WFMin` of the library), since its induction theorems take an operator.

Only model-checked, and why:

* everything temporal under fairness (`Ends`, `LayoutEnds`, `EquivalentAreFolded`,
  `EveryoneIsLed`, `ParentAnswers`): fairness is in terms of `ENABLED`, which the
  prover does not handle. `LookupsFind` and `RoundsAreBounded` are the safety that the
  second and third rest on.
* all of `inputs` and `image`: MCInputs and MCImage reach `RECURSIVE` operators (readers of
  stubs and tries, ULEB128, walks of re-exports), with which the prover loses its SMT
  backend.
* `AddressesFit`: its part about Thunks is not proved yet; its part about Segments
  cannot be proved for every image, since an aligned section in a pinned segment
  breaks it (section 5).
* `DefinitionsAsAsked`, `MetadataMeansTheSame`: not proved (Definitions, Objc). For
  these what counts is the number of shapes of the input; they compare a pass with a
  definition of what it should do, and the definitions are as long as the passes.
  Moreover, `DefinitionsAsAsked` does not hold of all families of links, as an
  alias of an alias given later stays undefined (section 5).

## 5. Where code and comments disagree

Four have runs of their own:

* `messages_two_fatal`: `release_parallel` empties `PARALLEL` before it writes; a
  second dying worker finds nothing and ends the process first.
* `segments_chained`: `chain_starts.rs:42` argues that later segments move whole,
  "and so no chain"; a section aligned beyond the page moves relative to the one
  before it, and the loop need not end.
* `dylibs_leaf`: a library that the command line named, found again by its last
  path component for a re-export, counts from then on as loaded for that alone.
* `dylibs_moved`: the stand-in for the library that an export moved to is taken for
  a re-exported library of the same install name, which is then never read.

The others were found while modelling, each by a counterexample that the given
change of a configuration or module reproduces:

| Change | Violated | What happens |
|---|---|---|
| `MCOutput.tla`: `MaxDying <- 2`; invariant `part = "output" => OutputFile!NoPartialOutput` | itself | of two threads that die, one takes the path out of `OUTPUT_PATH`, the other exits before it is unlinked (`output_file.rs:91`) |
| `MCSymbols`: invariant `part = "resolve" => Resolve!NewDylibsStealNothing` | itself | `claim_new_dylibs` takes a live common symbol (`passes.rs:486`) |
| likewise `Resolve!TentativeLoadsReal` | itself | a tentative definition that becomes live while a dylib owns its symbol loads nothing (`passes.rs:573`) |
| likewise `Resolve!DroppedIsUndefined` | itself | a definition in a discarded section hides another member's (`input_files.rs:4113`) |
| likewise `Resolve!ForceLoadIsWhole` | itself | an auto-link `-force_load` of an archive already named loads nothing (`reader.rs:1136`) |
| likewise `Resolve!NoBitcodeLeft` | itself | bitcode that an option of LTO's output loads is never compiled (`driver.rs:124`) |
| likewise `Resolve!WeakLibraryIsWeak`, a link of a tentative definition that an auto-linked library takes over by merging a weakly linked one | itself | the import is not weak, though "every import from the library is a weak import" (`passes.rs:343`; `claim_new_dylibs` does not make it one, `passes.rs:503`) |
| `MCDeadStrip` without `LtoAssumption`; its cfg: `StripGraphs = {}`, `LtoLinks <- SupportOfBitcode` | `ResultsAreUsable` | before LTO, live support that refers to bitcode counts as dead (`dead_strip.rs:474`) |
| likewise `LtoLinks <- PreemptedCopy` | `ResultsAreUsable` | the walk before LTO starts from the bitcode's undefined symbols (`dead_strip.rs:271`), so not from a native weak definition that won against the bitcode's own, though "its code has to reach the copy that won" (`lto.rs:911`): what that copy uses of the bitcode is not told to libLTO |
| likewise `LtoLinks <- CopyWinsLate` | `ResultsAreUsable` | a native weak definition that lost to the bitcode's wins when names are resolved again (`passes.rs:879`), as LTO's output comes after all inputs; the walk before LTO had no reference to it |
| likewise `LtoLinks <- CopiesDiffer` | `ResultsAreUsable` | a reference that names no symbol leads to its own object's weak copy before LTO and to the copy that won after it (`passes.rs:1468`); the two may use different symbols |
| `MCDigestMap.cfg`: `Cand = {0, 1}`, `NumSlots = 4`, `Digest <- CollideFew`, `RoundBits = 2`, `MaxRound = 4` | `CountsAtomically` | the stamp keeps fewer bits of the round than it is compared with (`icf.rs:113`) |
| `MCOutput.cfg`: `SegmentImages <- PinnedAligned` | `AddressesFit` | a section aligned beyond the page loses its alignment as its segment moves to its pin (`passes.rs:5033`) |

Observed while reading, and kept out of the instances:

* Thunks: a batch shorter than its own thunk leaves a branch out of reach
  (`thunks.rs:261`); the code's constants are far from it.
* Definitions: `mark_labeled_literals` (`passes.rs:1172`) marks what a symbol names,
  that is the winner's literal. A weak definition's losing copy in a literal merges
  with identical strings, and is then replaced by the winner whatever that contains
  (`passes.rs:1464`), and the strings merged into it with it. `SurvivorsStand` says
  nothing of the bytes in links with such definitions (`WeakLiterals`).
* Definitions: `winner_live` (`passes.rs:1553`) asks whether the winner is alive,
  not what it was replaced by, as the comment above it has it; an alias of an alias
  given later stays undefined past `report_undef_errors`.
* Sections: `append_tail` keeps one tail per section, so two records that renames
  bring together lose one (`output_section.rs:22`).
* Dylibs: a cycle of re-exports through a public library recurses without end;
  merging a library, and finding it again under its install name, forget which
  exports are weak or thread-local; `$ld$hide` does not hide thread-local ones.
* Fixups: the chained import format is chosen by addends and names alone, so an
  ordinal beyond 8 bits is cut (`chained_fixups.rs`, `import_format`); a weak bind of
  a pointer past a coalesced definition loses its addend.
* Objc: a category that cannot be merged (not at the start of its subsection, a
  short record) and is listed before one that is changes their order; a category
  record is not checked to be the whole of its subsection, and a list at the start
  of one takes all of it along when it is dropped.

## 6. Not modelled, and the plan

`PROJECT.json` gives each part's status and what is left out of it. Left out for
good: conversions of bytes or text without decisions of their own (load commands,
`.tbd` text, archive headers, map files, debugging notes' wording, hashes), the bit
patterns of relocations and instructions, libLTO, DTrace and the bundle hook's
foreign side. x86-64 differs from arm64 in the forms of relocations alone; arm64's
are modelled.

Next, in this order:

1. **Mergeable libraries**: `make_mergeable` and the reader of a linked image, as a
   round trip: the subsections read back are those linked. The tables it writes
   are conversions; what may go wrong is that a reference to an atom that moved is
   recorded before the move.
2. **Relocatable output**: the numbering of sections and symbols in `-r`'s writer,
   read back with Staging.
3. **Thread-local storage**: offsets in the template, composed with Segments.
4. **Composition of stages**: Definitions, Objc and Icf on one image, whose
   replacements chain; at present each starts from any state the one before can
   leave.

Theorems to add: `NothingOverlaps` and `EveryBranchReaches` of Thunks, the safety of
Messages with one fatal worker (`NothingIsLost`; its composition has to be freed of
`RECURSIVE` first) and, for `SectionsAsSequential`, that a worker's cache only ever
holds the table's entries.
