------------------------------ MODULE Resolve ------------------------------
(***************************************************************************)
(* Symbol resolution, passes::resolve_symbols: which object or dylib owns  *)
(* each global symbol, which archive members the output takes, and which   *)
(* libraries the objects' auto-link options bring in.                      *)
(*                                                                         *)
(* Rounds of (race, claim, liveness walk, auto-link) repeat until          *)
(* auto-linking brings nothing that could change an owner; a final round   *)
(* over the live objects settles the owners, and the dylibs that came last *)
(* claim what is left.  Link-time optimization (do_lto) replaces the live  *)
(* bitcode objects by compiled ones and resolves again.                    *)
(*                                                                         *)
(* The parallel loops inside a round are one step here: DefinitionRace     *)
(* shows that their outcome does not depend on the interleaving.  Left     *)
(* out: public re-exports and moved exports of dylibs (every dylib is one  *)
(* that a command line or an option names), -r, DTrace symbols, the bundle *)
(* hook, local symbols.                                                    *)
(***************************************************************************)
EXTENDS Integers, Sequences, FiniteSets, Functions

CONSTANTS
    Obj,    \* object files: archive members, bitcode and LTO output too
    Dylib,  \* dynamic libraries
    Sym,    \* global symbols
    Lib,    \* the files a command line or option can name
    Links   \* families of links to consider: their inputs and options, see IsLink

NoFile == "nofile"
File == Obj \cup Dylib

(***************************************************************************)
(* What an object's symbol table says of a symbol: a reference, strong or  *)
(* weak; a definition, strong, weak, weak and .weak_def_can_be_hidden, or  *)
(* in a discarded section; or a tentative definition of size 1 or 2.       *)
(***************************************************************************)
CommonKind == {"common1", "common2"}
UndefKind == {"undef", "weakref"} \cup CommonKind      \* MachSym::is_undef
WeakKind == {"weak", "weakHide"}
RealKind == {"strong", "dropped"} \cup WeakKind
Kind == {"none"} \cup UndefKind \cup RealKind

CommonSize(k) == IF k = "common2" THEN 2 ELSE 1

\* A library option: the library it names and whether it is -force_load.
Naming == [lib : Lib, force : BOOLEAN]

\* The inputs of a link.
IsLink(l) ==
    /\ l.def \in [Obj -> [Sym -> Kind]]
    /\ l.export \in [Dylib -> [Sym -> {"none", "strong", "weak"}]]
    /\ l.files \in [Lib -> Seq(File)]         \* a dylib, or an archive's members
    /\ l.cmdline \in Seq(Naming)              \* what the command line names
    /\ l.options \in Seq(Naming)              \* auto-link options, in sorted order
    /\ l.hints \in [Obj -> SUBSET (1..Len(l.options))]
    /\ l.possible \in Seq(Naming)             \* -possible-l and the like
    /\ l.live \subseteq Obj                   \* objects that are no lazy members
    /\ l.hidden \subseteq Obj                 \* -load_hidden, -hidden-l
    /\ l.bitcode \subseteq Obj \ l.hidden     \* a bitcode file's placeholder object
    /\ \A o \in l.bitcode : l.hints[o] = {} /\ Range(l.def[o]) \cap (CommonKind \cup {"dropped"}) = {}
    /\ l.ltoOut \in Seq(Obj)                  \* what libLTO compiles bitcode to
    /\ l.merged \in [Dylib -> Seq(Dylib)]     \* private re-exports merged in
    /\ l.rpath \subseteq Dylib                \* install name starts with @rpath/
    /\ l.weakLib \subseteq                    \* -weak-l and the like, which an
          Dylib \cap UNION {Range(l.files[n.lib]) : n \in Range(l.cmdline)}   \* object cannot say
    /\ l.roots \subseteq Sym                  \* -u and the entry point
    /\ l.aliased \subseteq Sym                \* -alias bases
    /\ l.useDylibs \in BOOLEAN                \* -commons use_dylibs
    /\ l.weakWins \in BOOLEAN                 \* -weak_reference_mismatches weak
    /\ l.ignoreAutoLink \in BOOLEAN           \* -ignore_auto_link

LinkAssumption ==
    /\ \A family \in Links : \A l \in family : IsLink(l)
    /\ NoFile \notin File /\ Obj \cap Dylib = {}
    /\ IsFiniteSet(File) /\ IsFiniteSet(Lib)

VARIABLES
    link,        \* the link's inputs, which never change
    prio,        \* prio[f]: the priority of a loaded file, 0 before
    counter,     \* priority_counter
    visited,     \* visited_files
    forced,      \* force_loaded
    processed,   \* processed_linker_options
    possible,    \* possible_files
    autoPrio,    \* autolink_priority
    autolinked,  \* the dylibs with is_autolinked
    retired,     \* bitcode placeholders that LTO retired
    ltoDone,     \* whether do_lto has run
    reach,       \* the objects with is_reachable
    queue,       \* the work list of the liveness walk
    sym,         \* the symbols' resolution
    interned,    \* the symbols in the symbol table
    dsyms,       \* dsyms[d]: DylibFile::symbols
    seen,        \* seen[d]: the symbols of symbols_seen, or Unseen
    ranking,     \* DylibRanking: the dylibs' ranks and providers
    fresh,       \* the dylibs from num_dylibs on
    pc

fileVars == <<prio, counter, visited, forced, processed, possible, autoPrio, autolinked>>
ltoVars == <<retired, ltoDone>>
vars == <<link, fileVars, ltoVars, reach, queue, sym, interned, dsyms, seen,
          ranking, fresh, pc>>

Unseen == {"unseen"}
NoPrio == 0
MaxPrio == Cardinality(File) + 1     \* u32::MAX
Loaded == {f \in File : prio[f] # NoPrio}
Objs == Obj \cap Loaded
Dylibs == Dylib \cap Loaded

\* What object o says of s; a retired placeholder has no symbols.
Def(o, s) == IF o \in retired THEN "none" ELSE link.def[o][s]

NoSym == [file |-> NoFile, common |-> FALSE, size |-> 0, pext |-> FALSE,
          weakRef |-> FALSE, strongRef |-> FALSE, used |-> FALSE]

-----------------------------------------------------------------------------
(***************************************************************************)
(* Reading files.                                                          *)
(***************************************************************************)

\* name_again: -force_load of an archive whose members are still queued, as
\* bitcode ones never are.
NameAgain(r, n) ==
    IF n.force /\ n.lib \notin r.forced
    THEN [r EXCEPT !.forced = @ \cup {n.lib},
                   !.alive = @ \cup ((Range(link.files[n.lib]) \cap Range(r.new) \cap Obj)
                                      \ link.bitcode)]
    ELSE r

\* read_file: a library loads once, its files with priorities in order.
ReadFile(r, n) ==
    LET files == link.files[n.lib]
    IN  IF n.lib \in r.visited THEN NameAgain(r, n)
        ELSE [prio |-> [f \in File |->
                           IF r.prio[f] = NoPrio /\ f \in Range(files)
                           THEN r.counter + CHOOSE i \in DOMAIN files : files[i] = f
                           ELSE r.prio[f]],
              counter |-> r.counter + Len(files),
              visited |-> r.visited \cup {n.lib},
              forced |-> IF n.force THEN r.forced \cup {n.lib} ELSE r.forced,
              new |-> r.new \o files,
              alive |-> r.alive \cup (Range(files) \cap IF n.force THEN Obj ELSE link.live)]

\* Of a sequence of namings, those at the places in which.
ReadFiles(namings, which, r0) ==
    LET r[i \in 0..Len(namings)] ==
            IF i = 0 THEN r0
            ELSE IF i \in which THEN ReadFile(r[i - 1], namings[i]) ELSE r[i - 1]
    IN  r[Len(namings)]

\* The names the tables of some objects hold, which load_pending interns.
Names(objs) == {s \in Sym : \E o \in objs : Def(o, s) # "none"}

Init ==
    /\ \E family \in Links : link \in family
    /\ retired = {}
    /\ ltoDone = FALSE
    /\ LET r == ReadFiles(link.cmdline, DOMAIN link.cmdline,
                          [prio |-> [f \in File |-> NoPrio], counter |-> 0, visited |-> {},
                           forced |-> {}, new |-> <<>>, alive |-> {}])
       IN  /\ prio = r.prio
           /\ counter = r.counter
           /\ visited = r.visited
           /\ forced = r.forced
           /\ reach = r.alive
           /\ interned = Names(Range(r.new) \cap Obj)
    /\ processed = {}
    /\ possible = link.possible
    /\ autoPrio = MaxPrio
    /\ autolinked = {}
    /\ queue = {}
    /\ sym = [s \in Sym |-> NoSym]
    /\ dsyms = [d \in Dylib |-> {}]
    /\ seen = [d \in Dylib |-> Unseen]
    /\ ranking = [ranks |-> <<>>, providers |-> <<>>]
    /\ fresh = {}
    /\ pc = "start"

-----------------------------------------------------------------------------
(***************************************************************************)
(* Ranks.  A rank is <<class, weak term or phase, priority>>, lower first. *)
(***************************************************************************)
NoRank == <<6, 0, 0>>      \* u64::MAX

Less(a, b) ==
    \/ a[1] < b[1]
    \/ a[1] = b[1] /\ (a[2] < b[2] \/ (a[2] = b[2] /\ a[3] < b[3]))

\* weak_definition_rank, of copies that are equally aligned; bitcode's are in
\* no section.
WeakDefinitionRank(o, k) ==
    CASE o \in link.bitcode -> 0
      [] o \in link.hidden -> 64
      [] o \notin link.hidden \cup link.bitcode /\ k = "weakHide" -> 128
      [] OTHER -> 0

\* Faulty variant: a live file's definition ranks as a lazy member's.
DefinitionRank_NoLive(o, s) ==
    LET k == Def(o, s)
    IN  CASE k \in {"strong", "dropped"} -> <<2, 0, prio[o]>>
          [] k \in WeakKind -> <<3, 0, prio[o]>>
          [] k \in CommonKind -> <<4, 0, prio[o]>>
          [] OTHER -> NoRank

\* definition_rank.
DefinitionRank(o, s) ==
    LET k == Def(o, s)
        live == o \in reach
        phase == IF prio[o] >= autoPrio THEN 2 ELSE 0
    IN  CASE k \in {"strong", "dropped"} /\ live -> <<0, 0, prio[o]>>
          [] k \in WeakKind /\ live -> <<1, WeakDefinitionRank(o, k), prio[o]>>
          [] k \in {"strong", "dropped"} /\ ~live -> <<2, phase, prio[o]>>
          [] k \in WeakKind /\ ~live -> <<3, phase, prio[o]>>
          [] k \in CommonKind /\ live -> <<4, 0, prio[o]>>
          [] k \in CommonKind /\ ~live -> <<5, 0, prio[o]>>
          [] OTHER -> NoRank

\* dylib_ranks, of dylibs that are named.
DylibRanks == [d \in Dylibs |-> <<2, IF d \in autolinked THEN 2 ELSE 0, prio[d]>>]

\* merged_providers: the merged private re-exports that are in the link.
MergedProviders ==
    [d \in Dylibs |->
        {p \in Range(link.merged[d]) : p \in Dylibs /\ ~(p \in autolinked /\ p \in link.rpath)}]

NewRanking == [ranks |-> DylibRanks, providers |-> MergedProviders]

-----------------------------------------------------------------------------
(***************************************************************************)
(* One round, as operators on the symbols.                                 *)
(***************************************************************************)
CommandLineSymbols == link.roots \cup link.aliased

\* clear_symbols.
ClearSymbols(syms) ==
    [s \in Sym |->
        LET c == [syms[s] EXCEPT !.weakRef = FALSE, !.strongRef = FALSE]
        IN  IF c.file # NoFile \/ c.common
            THEN [c EXCEPT !.file = NoFile, !.common = FALSE, !.size = 0, !.pext = FALSE]
            ELSE c]

\* collect_references: how the objects of the round refer to s.
Refers(objs, s, kinds) == \E o \in objs : Def(o, s) \in kinds
Used(objs, s) == s \in CommandLineSymbols \/ Refers(objs, s, UndefKind)
WeakUse(objs, s) == Refers(objs, s, {"weakref"})
StrongUse(objs, s) == Refers(objs, s, UndefKind \ {"weakref"})

\* race_definitions: the best rank of s, and the object that has it.
NoBest == [rank |-> NoRank, obj |-> NoFile]
Race(objs, s) ==
    LET rivals == {[rank |-> DefinitionRank(o, s), obj |-> o] : o \in objs} \cup {NoBest}
    IN  CHOOSE b \in rivals : \A r \in rivals : ~Less(r.rank, b.rank) /\ (b.rank = NoRank => b = NoBest)

\* claim_definition, by the winner of the race for s.
ClaimDefinition(c, o, s) ==
    LET k == Def(o, s)
        d == [c EXCEPT !.common = FALSE, !.pext = o \in link.hidden]
    IN  CASE k = "dropped" -> [d EXCEPT !.file = NoFile]
          [] k \in CommonKind /\ o \notin reach ->
                [d EXCEPT !.file = o, !.common = TRUE, !.size = 0]
          [] k \in CommonKind /\ o \in reach ->
                [d EXCEPT !.file = NoFile, !.common = TRUE, !.size = CommonSize(k)]
          [] OTHER -> [d EXCEPT !.file = o]

\* The best rank after claim_definitions, which a dropped winner resets.
Best(race, s) ==
    IF race # NoBest /\ Def(race.obj, s) = "dropped" THEN NoRank ELSE race.rank

\* live_common_symbols: the live objects that define s tentatively.
LiveCommons(s) == {o \in Objs \cap reach : Def(o, s) \in CommonKind}

\* merge_common_symbols.
MergeCommon(c, s) ==
    LET sizes == {c.size} \cup {CommonSize(Def(o, s)) : o \in LiveCommons(s)}
    IN  [c EXCEPT !.size = CHOOSE n \in sizes : \A m \in sizes : m <= n,
                  !.pext = @ \/ \E o \in LiveCommons(s) : o \in link.hidden]

\* The references recorded in resolve_symbols_pass.
RecordReferences(c, objs, s) ==
    CASE link.weakWins /\ WeakUse(objs, s) -> [c EXCEPT !.weakRef = TRUE]
      [] ~(link.weakWins /\ WeakUse(objs, s)) /\ StrongUse(objs, s) ->
            [c EXCEPT !.strongRef = TRUE, !.weakRef = FALSE]
      [] ~StrongUse(objs, s) /\ WeakUse(objs, s) /\ ~link.weakWins ->
            [c EXCEPT !.weakRef = @ \/ ~c.strongRef]
      [] OTHER -> c

\* collect_dylib_symbols.
CollectDylibSymbols(d) ==
    IF d \notin Dylibs THEN dsyms[d]
    ELSE LET new == IF seen[d] = Unseen THEN interned ELSE interned \ seen[d]
         IN  dsyms[d] \cup {s \in new : link.export[d][s] # "none"}
SeenNow == [d \in Dylib |-> IF d \in Dylibs THEN interned ELSE seen[d]]

\* first_exporters: the dylib of `from` that a symbol s is taken from: the
\* first in rank order that exports it strong, else the first.
FirstExporter(syms, ranks, from, s) ==
    LET exporters == {d \in from : s \in syms[d]}
        strong == {d \in exporters : link.export[d][s] # "weak"}
        best == IF strong # {} THEN strong ELSE exporters
    IN  IF best = {} THEN NoFile
        ELSE CHOOSE d \in best : \A e \in best \ {d} : Less(ranks[d], ranks[e])

\* providing_dylib: the merged library that defines s, if it is in the link.
ProvidingDylib(providers, d, s) ==
    LET Step(e) ==
            LET merged == link.merged[e]
                which == {i \in DOMAIN merged : /\ merged[i] \in providers[e]
                                               /\ link.export[merged[i]][s] # "none"}
            IN  IF which = {} THEN e
                ELSE merged[CHOOSE i \in which : \A j \in which : i <= j]
        chain[n \in 0..Cardinality(Dylibs)] == IF n = 0 THEN d ELSE Step(chain[n - 1])
    IN  chain[Cardinality(Dylibs)]

\* import_from_dylib.
ImportFromDylib(c, owner) == [c EXCEPT !.file = owner, !.common = FALSE]

\* claim_dylib_exports, for one symbol.
ClaimDylibExport(c, rk, syms, used, won, s) ==
    LET d == FirstExporter(syms, rk.ranks, DOMAIN rk.ranks, s)
        rank == IF d = NoFile THEN NoRank
                ELSE <<rk.ranks[d][1] + (IF link.export[d][s] = "weak" THEN 1 ELSE 0),
                       rk.ranks[d][2], rk.ranks[d][3]>>
        owner == ProvidingDylib(rk.providers, d, s)
        claimed == ImportFromDylib([c EXCEPT !.size = IF c.common THEN 0 ELSE @], owner)
    IN  IF \/ d = NoFile \/ ~used
           \/ won[1] < 2 \/ (LiveCommons(s) # {} /\ ~link.useDylibs)
           \/ ~Less(rank, won)
        THEN c
        ELSE [claimed EXCEPT !.weakRef = @ \/ owner \in link.weakLib]

\* resolve_symbols_pass, over the objects objs with the dylibs ranked rk.
ResolveSymbolsPass(cleared, objs, rk, syms) ==
    [s \in Sym |->
        IF s \notin interned THEN cleared[s]
        ELSE LET race == Race(objs, s)
                 best == Best(race, s)
                 used == Used(objs, s)
                 c1 == IF race = NoBest THEN cleared[s]
                       ELSE ClaimDefinition(cleared[s], race.obj, s)
                 c2 == IF best[1] = 4 THEN MergeCommon(c1, s) ELSE c1
                 c3 == RecordReferences(c2, objs, s)
                 c4 == ClaimDylibExport(c3, rk, syms, used, best, s)
             IN  [c4 EXCEPT !.used = used]]

-----------------------------------------------------------------------------
(***************************************************************************)
(* The steps of resolve_symbols.                                           *)
(***************************************************************************)

\* intern_command_line_symbols.
InternCommandLineSymbols ==
    /\ pc = "start"
    /\ interned' = interned \cup CommandLineSymbols
    /\ pc' = "round"
    /\ UNCHANGED <<link, fileVars, ltoVars, reach, queue, sym, dsyms, seen, ranking, fresh>>

\* A round over every loaded object.
Round ==
    /\ pc = "round"
    /\ ranking' = NewRanking
    /\ dsyms' = [d \in Dylib |-> CollectDylibSymbols(d)]
    /\ seen' = SeenNow
    /\ sym' = ResolveSymbolsPass(ClearSymbols(sym), Objs, ranking', dsyms')
    /\ pc' = "roots"
    /\ UNCHANGED <<link, fileVars, ltoVars, reach, queue, interned, fresh>>

\* load_owner: the lazy members that own one of some symbols.
LazyOwners(syms) == {sym[s].file : s \in syms} \cap (Obj \ reach)

\* mark_live_objects, its start.
MarkRoots ==
    /\ pc = "roots"
    /\ reach' = reach \cup LazyOwners(link.roots)
    /\ queue' = reach'
    /\ pc' = "walk"
    /\ UNCHANGED <<link, fileVars, ltoVars, sym, interned, dsyms, seen, ranking, fresh>>

\* The symbols of o that load their owner.
Wants(o) ==
    {s \in Sym : Def(o, s) \in UndefKind /\ ~(Def(o, s) \in CommonKind /\ sym[s].common)}

\* Faulty variant: an object that becomes live is not queued.
Visit_NoQueue(o) ==
    /\ pc = "walk" /\ o \in queue
    /\ reach' = reach \cup LazyOwners(Wants(o))
    /\ queue' = queue \ {o}
    /\ UNCHANGED <<link, fileVars, ltoVars, sym, interned, dsyms, seen, ranking, fresh, pc>>

\* mark_live_objects, its loop.  The code takes the queue's last object;
\* any other leads to the same live objects.
Visit(o) ==
    /\ pc = "walk" /\ o \in queue
    /\ reach' = reach \cup LazyOwners(Wants(o))
    /\ queue' = (queue \ {o}) \cup LazyOwners(Wants(o))
    /\ UNCHANGED <<link, fileVars, ltoVars, sym, interned, dsyms, seen, ranking, fresh, pc>>

\* The auto-link options of the live objects not acted on yet.
Pending == UNION {link.hints[o] : o \in Objs \cap reach} \ processed

\* load_autolink_deps and load_autolinked_libraries.
LoadAutolinkDeps ==
    /\ pc = "walk" /\ queue = {} /\ ~link.ignoreAutoLink
    /\ LET before == [prio |-> prio, counter |-> counter, visited |-> visited,
                      forced |-> forced, new |-> <<>>, alive |-> reach]
           named == ReadFiles(link.options, Pending, before)
           r == ReadFiles(possible, DOMAIN possible, named)
           newDylibs == Range(r.new) \cap Dylib
           newObjs == Range(r.new) \cap Obj
           rebinds == \E d \in newDylibs, o \in Dylibs : d \in Range(link.merged[o])
       IN  /\ prio' = r.prio
           /\ counter' = r.counter
           /\ visited' = r.visited
           /\ forced' = r.forced
           /\ reach' = r.alive
           /\ autoPrio' = IF counter + 1 < autoPrio THEN counter + 1 ELSE autoPrio
           /\ autolinked' = autolinked \cup newDylibs
           /\ interned' = interned \cup Names(newObjs)
           /\ fresh' = newDylibs
           /\ pc' = IF newObjs # {} \/ rebinds THEN "round" ELSE "final"
    /\ processed' = processed \cup Pending
    /\ possible' = <<>>
    /\ UNCHANGED <<link, ltoVars, queue, sym, dsyms, seen, ranking>>

IgnoreAutoLink ==
    /\ pc = "walk" /\ queue = {} /\ link.ignoreAutoLink
    /\ fresh' = {}
    /\ pc' = "final"
    /\ UNCHANGED <<link, fileVars, ltoVars, reach, queue, sym, interned, dsyms, seen, ranking>>

\* The final round, over the live objects, with the last round's ranking.
FinalRound ==
    /\ pc = "final"
    /\ dsyms' = [d \in Dylib |-> CollectDylibSymbols(d)]
    /\ seen' = SeenNow
    /\ sym' = ResolveSymbolsPass(ClearSymbols(sym), Objs \cap reach, ranking, dsyms')
    /\ pc' = IF fresh # {} THEN "new" ELSE "resolved"
    /\ UNCHANGED <<link, fileVars, ltoVars, reach, queue, interned, ranking, fresh>>

\* claim_new_dylibs.
ClaimNewDylibs ==
    /\ pc = "new"
    /\ dsyms' = [d \in Dylib |-> CollectDylibSymbols(d)]
    /\ seen' = SeenNow
    /\ sym' = [s \in Sym |->
                  LET d == FirstExporter(dsyms', DylibRanks, fresh, s)
                  IN  IF d = NoFile \/ ~sym[s].used \/ sym[s].file # NoFile THEN sym[s]
                      ELSE ImportFromDylib(sym[s], ProvidingDylib(MergedProviders, d, s))]
    /\ pc' = "resolved"
    /\ UNCHANGED <<link, fileVars, ltoVars, reach, queue, interned, ranking, fresh>>

\* do_lto, which runs once, if a live object is bitcode: every placeholder
\* is retired, and the compiled objects join, live.
DoLto ==
    /\ pc = "resolved" /\ ~ltoDone
    /\ link.bitcode \cap reach # {}
    /\ LET old == link.bitcode \cap Objs
           out == link.ltoOut
       IN  /\ retired' = retired \cup old
           /\ ltoDone' = TRUE
           /\ reach' = (reach \ old) \cup Range(out)
           /\ sym' = [s \in Sym |-> IF sym[s].file \in old
                                    THEN [sym[s] EXCEPT !.file = NoFile, !.size = 0]
                                    ELSE sym[s]]
           /\ prio' = [f \in File |-> IF f \in Range(out)
                                      THEN counter + CHOOSE i \in DOMAIN out : out[i] = f
                                      ELSE prio[f]]
           /\ counter' = counter + Len(out)
           /\ interned' = interned \cup {s \in Sym : \E o \in Range(out) : Def(o, s) # "none"}
    /\ pc' = "start"
    /\ UNCHANGED <<link, visited, forced, processed, possible, autoPrio, autolinked, queue,
                   dsyms, seen, ranking, fresh>>

\* No bitcode is live, or LTO has run: resolution is over.
Finish ==
    /\ pc = "resolved"
    /\ ltoDone \/ link.bitcode \cap reach = {}
    /\ pc' = "done"
    /\ UNCHANGED <<link, fileVars, ltoVars, reach, queue, sym, interned, dsyms, seen,
                   ranking, fresh>>

Next ==
    \/ InternCommandLineSymbols
    \/ Round
    \/ MarkRoots
    \/ \E o \in Obj : Visit(o)
    \/ LoadAutolinkDeps
    \/ IgnoreAutoLink
    \/ FinalRound
    \/ ClaimNewDylibs
    \/ DoLto
    \/ Finish

\* One thread runs the passes to their end.
Spec == Init /\ [][Next]_vars /\ WF_vars(Next)

-----------------------------------------------------------------------------
(***************************************************************************)
(* Properties.                                                             *)
(***************************************************************************)

\* The state a finished resolution leaves.
Done == pc = "done"

\* The variables keep their types, and priorities are unique.
TypeOK ==
    /\ prio \in [File -> Nat] /\ counter \in Nat
    /\ \A f \in Loaded : prio[f] <= counter /\ \A g \in Loaded \ {f} : prio[f] # prio[g]
    /\ visited \subseteq Lib /\ forced \subseteq visited
    /\ processed \subseteq 1..Len(link.options)
    /\ autoPrio \in 1..MaxPrio /\ autolinked \subseteq Dylibs /\ fresh \subseteq Dylibs
    /\ retired \subseteq link.bitcode \cap Objs
    /\ reach \subseteq Objs \ retired /\ queue \subseteq reach
    /\ \A s \in Sym : sym[s].file \in Loaded \cup {NoFile}
    /\ interned \subseteq Sym
    /\ pc \in {"start", "round", "roots", "walk", "final", "new", "resolved", "done"}

\* Whether live code or the command line demands a definition of s.
Wanted(s) == s \in link.roots \/ \E o \in reach : Def(o, s) \in UndefKind

\* The files of the link that have s to offer.
Offers(s) == {o \in Objs : Def(o, s) \in {"strong"} \cup WeakKind \cup CommonKind}
             \cup {d \in Dylibs : link.export[d][s] # "none"}

\* A wanted symbol is left undefined only if no file of the link has it:
\* neither an archive member the walk should have loaded nor a dylib, be it
\* loaded last.  (Definitions in discarded sections: see DroppedIsUndefined.)
UndefinedIsNowhere ==
    Done => \A s \in Sym :
        /\ Wanted(s) /\ sym[s].file = NoFile /\ ~sym[s].common
        /\ \A o \in Objs : Def(o, s) # "dropped"
        => Offers(s) = {}

\* No dead archive member is bound to: an owner among the objects is live,
\* and defines the symbol.
OwnerIsLive ==
    Done => \A s \in Sym :
        sym[s].file \in Obj =>
            sym[s].file \in reach /\ Def(sym[s].file, s) \in RealKind \ {"dropped"}

\* A live object's definition, strong or weak, is never imported instead,
\* and never left a common symbol.
DefinitionsBeatImports ==
    Done => \A s \in Sym :
        (\E o \in reach : Def(o, s) \in {"strong"} \cup WeakKind) =>
            \/ sym[s].file \in reach /\ ~sym[s].common
            \/ \E o \in reach : Def(o, s) = "dropped"

\* Whether lazy members stay out of T: no reference of an object of T, nor
\* the command line, wants what an object outside T defines.
WantsNoOther(T) ==
    \A m \in Objs \ T, s \in Sym :
        link.def[m][s] \in RealKind \cup CommonKind =>
            s \notin link.roots /\ \A o \in T : link.def[o][s] \notin UndefKind

\* The objects that are linked whatever refers to them: those that are no
\* lazy members, LTO's, and the members of the archives loaded whole.
Given ==
    ((link.live \cup Range(link.ltoOut)) \cap Objs)
        \cup {o \in Objs : \E l \in forced : o \in Range(link.files[l])}

\* An archive member is in the output only if a chain of references from
\* those objects, or from the command line, leads to it: members do not keep
\* each other alive.
LiveIsNeeded ==
    \A T \in SUBSET Objs : Given \subseteq T /\ WantsNoOther(T) => reach \subseteq T

\* An import is weak if every reference of the live objects to it is weak,
\* or the command line says so of the references or of the library, and only
\* then: dead members have no say.  What an auto-linked library takes from a
\* tentative definition is the exception, see WeakLibraryIsWeak.
WeakImports ==
    Done => \A s \in Sym :
        sym[s].file \in Dylib =>
            LET weak == \E o \in reach : Def(o, s) = "weakref"
                strong == \E o \in reach : Def(o, s) \in UndefKind \ {"weakref"}
                asked == weak /\ (~strong \/ link.weakWins)
                taken == LiveCommons(s) # {} /\ ~link.useDylibs
            IN  /\ asked => sym[s].weakRef
                /\ sym[s].weakRef => asked \/ sym[s].file \in link.weakLib
                /\ sym[s].file \in link.weakLib => sym[s].weakRef \/ taken

\* A common symbol has room for the largest of the live objects' tentative
\* definitions, and is private if one of them is.
CommonsMerge ==
    Done => \A s \in Sym :
        sym[s].common =>
            /\ \A o \in LiveCommons(s) : CommonSize(Def(o, s)) <= sym[s].size
            /\ \E o \in LiveCommons(s) : CommonSize(Def(o, s)) = sym[s].size
            /\ sym[s].pext <=> \E o \in LiveCommons(s) : o \in link.hidden

\* What resolution binds a symbol to is sound, although the owners of the
\* rounds before the last were judged with members ranked as lazy.
BindingsAreSound == OwnerIsLive /\ DefinitionsBeatImports /\ CommonsMerge

(***************************************************************************)
(* What comments of the code say that it does not keep to.                 *)
(***************************************************************************)

\* claim_new_dylibs: "they can steal nothing - a full re-resolution would
\* reach exactly this outcome".  It takes common symbols.
NewDylibsStealNothing ==
    pc = "resolved" /\ fresh # {} =>
        LET full == ResolveSymbolsPass(ClearSymbols(sym), Objs \cap reach, NewRanking, dsyms)
        IN  \A s \in Sym : sym[s].file = full[s].file /\ sym[s].common = full[s].common

\* claim_dylib_exports: "every import from the library is a weak import (...),
\* whatever the references say".  One that claim_new_dylibs takes from a
\* tentative definition is not, if the auto-linked library merges the one
\* that is linked weakly.
WeakLibraryIsWeak ==
    Done => \A s \in Sym : sym[s].file \in link.weakLib => sym[s].weakRef

\* mark_live_objects: "A live file's tentative definition loads the member
\* whose real definition beats it".  It does not if a dylib owned the symbol
\* in the round in which the tentative definition became live.
TentativeLoadsReal ==
    Done => \A s \in Sym :
        sym[s].common => \A o \in Objs : Def(o, s) \notin {"strong"} \cup WeakKind

\* claim_definition: a symbol in a discarded section "resolves as if
\* undefined".  It hides another member's definition, even from a member
\* that stays lazy itself.
DroppedIsUndefined ==
    Done => \A s \in Sym :
        Wanted(s) /\ sym[s].file = NoFile /\ ~sym[s].common => Offers(s) = {}

\* name_again: "-force_load of an archive named before loads its members all
\* the same".  An auto-link option's does not, if the command line named it.
ForceLoadIsWhole ==
    Done => \A l \in forced : Range(link.files[l]) \cap Obj \subseteq reach \cup retired

\* ObjectFile::lto_module: a bitcode file's object "only claims symbols until
\* LTO compiles it".  One that an option of LTO's own output loads is never
\* compiled.
NoBitcodeLeft == Done => reach \cap link.bitcode = {}
=============================================================================
