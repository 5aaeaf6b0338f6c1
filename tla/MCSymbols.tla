----------------------------- MODULE MCSymbols -----------------------------
(***************************************************************************)
(* The passes over the symbols: resolution, the passes that settle the     *)
(* definitions, the folding of identical code, and those over Objective-C  *)
(* metadata.                                                               *)
(* Their modules share no state here: each behaviour is one of one         *)
(* component, the one that `part` names, on the small instances of the     *)
(* cases module; `Over` is the step a component that has ended stays in,   *)
(* so that TLC reports one that is stuck before its end.                   *)
(***************************************************************************)
EXTENDS SymbolCases

CONSTANTS
    Parts,        \* the components to run
    ObjFiles,     \* Resolve: the objects,
    DylibFiles,   \*   the dynamic libraries,
    Symbols,      \*   the global symbols,
    Libraries,    \*   the files an option can name
    InputLinks,   \*   and the families of links to resolve
    FoldSubsecs,  \* Icf: the subsections,
    FoldSyms,     \*   the symbols that none of them defines
    FoldLinks,    \*   and the links to fold
    SettleLinks   \* Definitions: the families of links

VARIABLES
    part,   \* the component that runs
    link, prio, counter, visited, forced, processed, possible, autoPrio,
    autolinked, retired, ltoDone, reach, queue, sym, interned, dsyms, seen,
    ranking, fresh, pc, at, args, objs, dylibs, isecs, syms, inits, indirect,
    errors, l, phase, cands, class, numClasses, replacement, p2align, stubs,
    lists, merging

vars == <<part, link, prio, counter, visited, forced, processed, possible,
          autoPrio, autolinked, retired, ltoDone, reach, queue, sym,
          interned, dsyms, seen, ranking, fresh, pc, at, args, objs, dylibs,
          isecs, syms, inits, indirect, errors, l, phase, cands, class,
          numClasses, replacement, p2align, stubs, lists, merging>>

Resolve == INSTANCE Resolve WITH
    Obj <- ObjFiles, Dylib <- DylibFiles, Sym <- Symbols,
    Lib <- Libraries, Links <- InputLinks
Definitions == INSTANCE Definitions WITH
    Links <- SettleLinks, MaxCommonAlign <- 3
Icf == INSTANCE Icf WITH
    Isec <- FoldSubsecs, Sym <- FoldSyms, Links <- FoldLinks
Objc == INSTANCE Objc WITH Links <- UNION ObjcLinks

ASSUME ResolveAssumption == Resolve!LinkAssumption
ASSUME SettleAssumption == Definitions!LinkAssumption
ASSUME IcfAssumption == Icf!LinkAssumption

Idle == "idle"   \* the variables of the components that do not run

ResolveInit ==
    /\ part = "resolve" /\ Resolve!Init
    /\ at = Idle /\ args = Idle /\ objs = Idle /\ dylibs = Idle
    /\ isecs = Idle /\ syms = Idle /\ inits = Idle /\ indirect = Idle
    /\ errors = Idle /\ l = Idle /\ phase = Idle /\ cands = Idle
    /\ class = Idle /\ numClasses = Idle /\ replacement = Idle
    /\ p2align = Idle /\ stubs = Idle /\ lists = Idle /\ merging = Idle
ResolveTakes(A) ==
    /\ part = "resolve" /\ A
    /\ UNCHANGED <<part, at, args, objs, dylibs, isecs, syms, inits, indirect,
                   errors, l, phase, cands, class, numClasses, replacement,
                   p2align, stubs, lists, merging>>
ResolveSteps == ResolveTakes(Resolve!Next)

DefinitionsInit ==
    /\ part = "definitions" /\ Definitions!Init
    /\ link = Idle /\ prio = Idle /\ counter = Idle /\ visited = Idle
    /\ forced = Idle /\ processed = Idle /\ possible = Idle
    /\ autoPrio = Idle /\ autolinked = Idle /\ retired = Idle
    /\ ltoDone = Idle /\ reach = Idle /\ queue = Idle /\ sym = Idle
    /\ interned = Idle /\ dsyms = Idle /\ seen = Idle /\ ranking = Idle
    /\ fresh = Idle /\ pc = Idle /\ l = Idle /\ phase = Idle /\ cands = Idle
    /\ class = Idle /\ numClasses = Idle /\ replacement = Idle
    /\ p2align = Idle /\ stubs = Idle /\ lists = Idle /\ merging = Idle
DefinitionsTakes(A) ==
    /\ part = "definitions" /\ A
    /\ UNCHANGED <<part, link, prio, counter, visited, forced, processed, possible,
                   autoPrio, autolinked, retired, ltoDone, reach, queue, sym,
                   interned, dsyms, seen, ranking, fresh, pc, l, phase,
                   cands, class, numClasses, replacement, p2align, stubs,
                   lists, merging>>
DefinitionsSteps == DefinitionsTakes(Definitions!Next)

IcfInit ==
    /\ part = "icf" /\ Icf!Init
    /\ link = Idle /\ prio = Idle /\ counter = Idle /\ visited = Idle
    /\ forced = Idle /\ processed = Idle /\ possible = Idle
    /\ autoPrio = Idle /\ autolinked = Idle /\ retired = Idle
    /\ ltoDone = Idle /\ reach = Idle /\ queue = Idle /\ sym = Idle
    /\ interned = Idle /\ dsyms = Idle /\ seen = Idle /\ ranking = Idle
    /\ fresh = Idle /\ pc = Idle /\ at = Idle /\ args = Idle /\ objs = Idle
    /\ dylibs = Idle /\ isecs = Idle /\ syms = Idle /\ inits = Idle
    /\ indirect = Idle /\ errors = Idle
    /\ stubs = Idle /\ lists = Idle /\ merging = Idle
IcfTakes(A) ==
    /\ part = "icf" /\ A
    /\ UNCHANGED <<part, link, prio, counter, visited, forced, processed, possible,
                   autoPrio, autolinked, retired, ltoDone, reach, queue, sym,
                   interned, dsyms, seen, ranking, fresh, pc, at, args, objs,
                   dylibs, isecs, syms, inits, indirect, errors, stubs, lists,
                   merging>>
IcfSteps == IcfTakes(Icf!Next)

ObjcInit ==
    /\ part = "objc" /\ Objc!ObjcInit
    /\ link = Idle /\ prio = Idle /\ counter = Idle /\ visited = Idle
    /\ forced = Idle /\ processed = Idle /\ possible = Idle
    /\ autoPrio = Idle /\ autolinked = Idle /\ retired = Idle
    /\ ltoDone = Idle /\ reach = Idle /\ queue = Idle /\ sym = Idle
    /\ interned = Idle /\ dsyms = Idle /\ seen = Idle /\ ranking = Idle
    /\ fresh = Idle /\ pc = Idle /\ args = Idle /\ objs = Idle
    /\ dylibs = Idle /\ inits = Idle /\ indirect = Idle /\ errors = Idle
    /\ phase = Idle /\ cands = Idle /\ class = Idle /\ numClasses = Idle
    /\ replacement = Idle /\ p2align = Idle
ObjcTakes(A) ==
    /\ part = "objc" /\ A
    /\ UNCHANGED <<part, link, prio, counter, visited, forced, processed, possible,
                   autoPrio, autolinked, retired, ltoDone, reach, queue, sym,
                   interned, dsyms, seen, ranking, fresh, pc, args, objs,
                   dylibs, inits, indirect, errors, phase, cands, class,
                   numClasses, replacement, p2align>>
ObjcSteps == ObjcTakes(Objc!ObjcNext)

Init == part \in Parts /\ (ResolveInit \/ DefinitionsInit \/ IcfInit \/ ObjcInit)

\* A component that has come to its end.
Over ==
    /\ \/ part = "resolve" /\ pc = "done"
       \/ part = "definitions" /\ (Definitions!Linked \/ errors # {})
       \/ part = "icf" /\ phase = "done"
       \/ part = "objc" /\ at = "done"
    /\ UNCHANGED vars

Next == ResolveSteps \/ DefinitionsSteps \/ IcfSteps \/ ObjcSteps \/ Over

\* The rounds of folding are a loop of one thread, which nothing blocks.
Spec == Init /\ [][Next]_vars /\ WF_vars(IcfSteps)
-----------------------------------------------------------------------------
\* A wanted symbol is left undefined only if no file of the link has it,
\* neither an archive member the walk should have loaded nor a dylib, be it
\* loaded last; and a member is in the output only if a chain of references
\* from what is linked anyway leads to it (mark_live_objects, resolve_symbols,
\* load_autolink_deps).
MembersAsNeeded == part = "resolve" => Resolve!UndefinedIsNowhere /\ Resolve!LiveIsNeeded

\* What resolution binds a symbol to is live, a definition before an import
\* and merged as commons are, although the owners of the rounds before the
\* last were judged with members ranked as lazy; and an import is weak only
\* if every live reference is, or an option says so (resolve_symbols_pass,
\* collect_references).
BindingsAreSound == part = "resolve" => Resolve!BindingsAreSound /\ Resolve!WeakImports

\* Merging literals, coalescing weak definitions and stripping never leave a
\* subsection standing for itself or for one that is gone: what a live
\* subsection resolves to is in the output, unless an option removes it, and
\* is the literal it replaces, as aligned, unless a weak definition is a
\* literal (merge_literals, coalesce_weak_defs, dead_strip).
SurvivorsStand == part = "definitions" => Definitions!SurvivorsStand

\* A link that succeeds leaves no reference of the output without a target,
\* and exports what it was asked to: no name an unexported list gives or an
\* exported list leaves out, every live global an exported list names
\* (claim_unresolved_symbols, report_undef_errors, handle_exported_symbols_list).
DefinitionsAsAsked ==
    part = "definitions" => Definitions!NothingUndefined /\ Definitions!ExportsAsAsked

\* The program cannot tell that functions were folded: those folded are
\* identical, down to what they refer to, functions whose addresses are
\* compared stay apart, and a replacement is in the output itself, aligned for
\* all it stands for (is_eligible, compute_digest, icf_sections).
FoldingIsSafe == part = "icf" => Icf!FoldingIsSafe /\ Icf!ReplacementIsEmitted

\* The rounds of refinement end, and then all the functions that may be
\* folded are, those on cycles of calls too: the classes are the largest that
\* are equivalent (propagate, count_num_classes, icf_sections).
EquivalentAreFolded == part = "icf" => <>[](phase = "done" /\ Icf!EquivalentAreFolded)

\* The program cannot tell that its Objective-C metadata was rewritten: every
\* class answers each selector with the same implementation although its
\* categories are gone and its method lists converted, the same +load methods
\* run, each as often, and the code finds the same classes, selectors and
\* strings behind its references, with both halves of an address in one form
\* (coalesce_objc_refs, fold_objc_classrefs, convert_objc_method_lists,
\* merge_objc_categories).
MetadataMeansTheSame ==
    part = "objc" => Objc!ClassesAnswerTheSame /\ Objc!CodeReadsTheSame
=============================================================================
