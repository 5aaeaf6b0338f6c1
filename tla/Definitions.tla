---------------------------- MODULE Definitions ----------------------------
(***************************************************************************)
(* What the image defines and exports: the passes of a final link between  *)
(* symbol resolution and the checks that follow dead stripping             *)
(* (src/macho/passes.rs).  Literals merge, tentative definitions get       *)
(* storage, the command line adds aliases and hides or weakens symbols,    *)
(* the copies of a weak definition coalesce, dead code goes, and what is   *)
(* left undefined, defined twice or forbidden is reported.                 *)
(*                                                                         *)
(* A subsection holds one datum named by its contents, and the offset of a *)
(* symbol in it tells the labels of one subsection apart.  Names are       *)
(* members of a small set.                                                 *)
(***************************************************************************)
EXTENDS Integers, Sequences, FiniteSets, SequencesExt, FiniteSetsExt

CONSTANTS Links,    \* families of what resolution hands over
          MaxCommonAlign \* -max_default_common_align

\* The inputs of a link: options, symbols and relocations of the objects,
\* in range.  Only a definition in a section has a subsection, of its object.
IsOptions(a, names) ==
    /\ a \in [relocatable : BOOLEAN, output : STRING, static : BOOLEAN, exportDynamic : BOOLEAN,
             deadStrip : BOOLEAN, noExports : BOOLEAN, hasExported : BOOLEAN, exported : SUBSET STRING,
             unexported : SUBSET STRING, forceWeak : SUBSET STRING, forceNotWeak : SUBSET STRING,
             reexported : SUBSET STRING, aliases : Seq(names \X names), boundary : SUBSET STRING,
             initial : SUBSET names, dynamicLookup : BOOLEAN, allowed : SUBSET STRING,
             labels : SUBSET STRING, commons : STRING, removeSwift : BOOLEAN, noInits : BOOLEAN,
             initOffsets : BOOLEAN, noWeakImports : BOOLEAN, weakMismatches : BOOLEAN,
             allowDeadDuplicates : BOOLEAN, poisoned : SUBSET STRING, noWeakExports : BOOLEAN]

ObjectSymbol == [name : STRING, kind : {"sect", "abs", "common", "undef"}, isec : Nat, off : Nat,
                 weak : BOOLEAN, weakRef : BOOLEAN, pext : BOOLEAN, keep : BOOLEAN, align : Nat]
Object == [live : BOOLEAN, profiled : BOOLEAN, syms : Seq(ObjectSymbol)]
Relocation == [sym : STRING, isec : Nat]
SectionKinds == {"code", "literal", "init", "swift", "zerofill"}
InputSubsection == [obj : Nat, kind : SectionKinds, bytes : STRING, p2align : Nat, keep : BOOLEAN, rels : Seq(Relocation)]

IsLink(l) ==
    /\ l.names \subseteq STRING \ {""} /\ IsFiniteSet(l.names)
    /\ IsOptions(l.args, l.names)
    /\ l.objs \in Seq(Object) /\ l.isecs \in Seq(InputSubsection)
    /\ \A i \in DOMAIN l.isecs :
          /\ l.isecs[i].obj \in DOMAIN l.objs
          /\ \A r \in Range(l.isecs[i].rels) :
                IF r.sym = "" THEN r.isec \in DOMAIN l.isecs ELSE r.sym \in l.names /\ r.isec = 0
    /\ \A o \in DOMAIN l.objs : \A m \in Range(l.objs[o].syms) :
          /\ m.name \in l.names
          /\ IF m.kind = "sect" THEN m.isec \in DOMAIN l.isecs /\ l.isecs[m.isec].obj = o ELSE m.isec = 0

LinkAssumption == MaxCommonAlign \in Nat /\ \A family \in Links : \A l \in family : IsLink(l)

VARIABLES at,      \* the pass that runs next, an index in Order
          args, objs, dylibs, isecs, syms,
          inits,    \* the functions __init_offsets lists
          indirect, \* <<alias, import>> of the N_INDR entries
          errors

vars == <<at, args, objs, dylibs, isecs, syms, inits, indirect, errors>>

\* The driver's passes, in a final link and under -r.
FinalPasses ==
    <<"check_common_conflicts", "remove_unreachable_files", "remove_swift_reflection_metadata",
      "check_initializers", "convert_init_offsets", "merge_literals", "add_synthetic_symbols",
      "convert_common_symbols", "auto_hide_weak_defs", "hide_all_exports", "exported_symbols_list",
      "unexported_symbols_list", "force_symbol_weakness", "create_symbol_reexports", "coalesce_weak_defs",
      "dead_strip", "check_removed_swift_metadata_refs", "claim_unresolved_symbols", "report_undef_errors",
      "checkpoint", "check_weak_imports", "checkpoint", "check_duplicate_symbols", "checkpoint",
      "check_poisoned_symbols", "checkpoint", "check_weak_exports", "checkpoint">>

RelocatablePasses ==
    <<"check_common_conflicts", "remove_unreachable_files", "remove_swift_reflection_metadata",
      "check_duplicate_symbols", "check_removed_swift_metadata_refs", "checkpoint",
      "check_poisoned_symbols", "checkpoint", "hide_all_exports", "exported_symbols_list",
      "unexported_symbols_list", "check_weak_exports", "coalesce_weak_defs", "checkpoint">>

Order == IF args.relocatable THEN RelocatablePasses ELSE FinalPasses

Pass(p) == at \in DOMAIN Order /\ Order[at] = p /\ at' = at + 1

\* Every pass ran and none of the checkpoints stopped the link.
Linked == at = Len(Order) + 1

Names == DOMAIN syms
None == [kind |-> "none", idx |-> 0]
Obj(i) == [kind |-> "obj", idx |-> i]
Lib(i) == [kind |-> "dylib", idx |-> i]
Internal == Obj(0)      \* the linker's own object
FlatLookup == Lib(0)    \* FileId::Dylib(u32::MAX)

IsDefined(s) == syms[s].file # None
IsObj(s) == syms[s].file.kind = "obj"
IsExported(s) == IsObj(s) /\ syms[s].ext /\ ~syms[s].pext

----------------------------------------------------------------------------
\* The subsections.

\* One that stands for itself so far.
Placed(sec) == [obj |-> sec.obj, kind |-> sec.kind, bytes |-> sec.bytes, p2align |-> sec.p2align,
                keep |-> sec.keep, rels |-> sec.rels, alive |-> TRUE, repl |-> 0]

IsEmitted(i) == isecs[i].alive /\ isecs[i].repl = 0

\* Follows replacements to the survivor: at most one step for each subsection.
Survivor(secs, i) ==
    LET go[n \in 0..Len(secs)] ==
          IF n = 0 THEN i ELSE LET j == go[n - 1] IN IF secs[j].repl = 0 THEN j ELSE secs[j].repl
    IN go[Len(secs)]

Kill(S) == isecs' = [i \in DOMAIN isecs |-> [isecs[i] EXCEPT !.alive = @ /\ i \notin S]]

----------------------------------------------------------------------------
\* Resolution, as the definition race leaves it: the best rank wins.

WeakTerm(l, m) ==
    LET private == m.pext IN
    (IF ~private /\ m.weakRef THEN 100 ELSE 0) + (IF private THEN 50 ELSE 0) + (9 - l.isecs[m.isec].p2align)

Rank(l, o, k) ==
    LET m == l.objs[o].syms[k]
        class == CASE m.kind \in {"sect", "abs"} -> IF m.weak THEN 1 ELSE 0
                   [] m.kind = "common" -> 4
    IN class * 100000 + (IF class = 1 /\ m.kind = "sect" THEN WeakTerm(l, m) * 100 ELSE 0) + o * 10 + k

\* The symbol as its best definition makes it.
Claimed(l, s) ==
    LET defs == {d \in UNION {{o} \X DOMAIN l.objs[o].syms : o \in DOMAIN l.objs} :
                    /\ l.objs[d[1]].live
                    /\ l.objs[d[1]].syms[d[2]].name = s
                    /\ l.objs[d[1]].syms[d[2]].kind # "undef"}
        best == CHOOSE d \in defs : \A e \in defs : Rank(l, d[1], d[2]) <= Rank(l, e[1], e[2])
        m == l.objs[best[1]].syms[best[2]]
        libs == {d \in DOMAIN l.dylibs : s \in l.dylibs[d].exports}
        real == defs # {} /\ m.kind # "common"
        base == [file |-> None, isec |-> 0, off |-> 0, ext |-> FALSE, pext |-> FALSE, weak |-> FALSE,
                 common |-> FALSE, imported |-> FALSE, keep |-> FALSE, align |-> 0, used |-> s \in l.used]
    IN IF real
       THEN [base EXCEPT !.file = Obj(best[1]), !.isec = m.isec, !.off = m.off, !.ext = TRUE,
                         !.pext = m.pext, !.weak = m.weak, !.keep = m.keep]
       ELSE IF libs # {} /\ base.used /\ (defs = {} \/ l.args.commons = "use_dylibs")
       THEN [base EXCEPT !.file = Lib(Min(libs)), !.imported = TRUE, !.ext = TRUE]
       ELSE IF defs # {} THEN [base EXCEPT !.common = TRUE, !.ext = TRUE, !.off = m.off, !.align = m.align]
       ELSE base

----------------------------------------------------------------------------
\* Before the first pass that changes a definition.

Report(S) == errors' = errors \cup S

\* A tentative definition that a library defines too.
CheckCommonConflicts ==
    LET clash == {s \in Names : /\ syms[s].common /\ ~IsDefined(s)
                                /\ \E d \in DOMAIN dylibs : s \in dylibs[d].exports}
    IN /\ Pass("check_common_conflicts")
       /\ Report({<<"common", s>> : s \in IF args.commons = "error" THEN clash ELSE {}})
       /\ UNCHANGED <<args, objs, dylibs, isecs, syms, inits, indirect>>

RemoveUnreachableFiles ==
    /\ Pass("remove_unreachable_files")
    /\ Kill({i \in DOMAIN isecs : ~objs[isecs[i].obj].live})
    /\ UNCHANGED <<args, objs, dylibs, syms, inits, indirect, errors>>

RemoveSwiftReflectionMetadata ==
    /\ Pass("remove_swift_reflection_metadata")
    /\ Kill({i \in DOMAIN isecs : args.removeSwift /\ isecs[i].kind = "swift"})
    /\ UNCHANGED <<args, objs, dylibs, syms, inits, indirect, errors>>

InitPointers == {i \in DOMAIN isecs : isecs[i].alive /\ isecs[i].kind = "init"}

\* Profiled code has initializers of its own.
CheckInitializers ==
    LET found == IF \E o \in DOMAIN objs : objs[o].live /\ objs[o].profiled THEN {}
                 ELSE {i \in InitPointers : isecs[i].rels # <<>>}
    IN /\ Pass("check_initializers")
       /\ Report(IF args.noInits /\ found # {} THEN {<<"inits", "">>} ELSE {})
       /\ UNCHANGED <<args, objs, dylibs, isecs, syms, inits, indirect>>

\* Each function an initializer pointer names, as InitFunc::new keeps it.
InitFunc(r) ==
    CASE r.sym = "" -> [kind |-> "local", isec |-> Survivor(isecs, r.isec), sym |-> ""]
      [] r.sym # "" /\ syms[r.sym].isec # 0 -> [kind |-> "local", isec |-> Survivor(isecs, syms[r.sym].isec), sym |-> ""]
      [] OTHER -> [kind |-> "imported", isec |-> 0, sym |-> r.sym]

ConvertInitOffsets ==
    /\ Pass("convert_init_offsets")
    /\ IF args.initOffsets
       THEN /\ inits' = UNION {{InitFunc(isecs[i].rels[k]) : k \in DOMAIN isecs[i].rels} : i \in InitPointers}
            /\ Kill(InitPointers)
       ELSE UNCHANGED <<inits, isecs>>
    /\ UNCHANGED <<args, objs, dylibs, syms, indirect, errors>>

----------------------------------------------------------------------------
\* Literals.

\* A name that is no assembler label keeps a literal apart.
MarkLabeled == {syms[s].isec : s \in {n \in Names : syms[n].isec # 0 /\ n \notin args.labels}}

SameLiteral(i, j) == isecs[i].kind = isecs[j].kind /\ isecs[i].bytes = isecs[j].bytes

\* merge_shard: the most aligned copy, the first of equals.
BestLiteral(G) ==
    CHOOSE i \in G : \A j \in G : \/ isecs[i].p2align > isecs[j].p2align
                                  \/ isecs[i].p2align = isecs[j].p2align /\ i <= j

RedirectSymbols(secs) ==
    syms' = [s \in Names |-> IF syms[s].isec = 0 THEN syms[s]
                             ELSE [syms[s] EXCEPT !.isec = Survivor(secs, @)]]

MergeLiterals ==
    LET literals == {i \in DOMAIN isecs : IsEmitted(i) /\ isecs[i].kind = "literal" /\ i \notin MarkLabeled}
        winner(i) == BestLiteral({j \in literals : SameLiteral(i, j)})
        merged == [i \in DOMAIN isecs |->
                     IF i \in literals /\ winner(i) # i THEN [isecs[i] EXCEPT !.repl = winner(i)] ELSE isecs[i]]
    IN /\ Pass("merge_literals")
       /\ isecs' = merged
       /\ RedirectSymbols(merged)
       /\ UNCHANGED <<args, objs, dylibs, inits, indirect, errors>>

----------------------------------------------------------------------------
\* The symbols the command line and the linker define.

Define(s, isec, ext) == [syms[s] EXCEPT !.file = Internal, !.isec = isec, !.ext = ext]

HeaderNames == IF args.output = "execute" THEN {"__mh_execute_header", "___dso_handle"} ELSE {"___dso_handle"}

WithHeaders ==
    [s \in Names |-> IF s \in HeaderNames /\ ~IsDefined(s) THEN Define(s, 0, s = "__mh_execute_header")
                     ELSE syms[s]]

KeepsExport(s) == args.output # "execute" \/ args.exportDynamic \/ (args.hasExported /\ s \in args.exported)

\* One -alias after another, so that an alias may stand for an earlier one.
\* An alias of an import is indirect and has no address.
AddAlias(st, a) ==
    LET from == st.syms[a[1]]
        to == st.syms[a[2]]
        dropped == args.deadStrip /\ ~to.used /\ ~(KeepsExport(a[2]) /\ a[2] \notin args.unexported)
    IN IF from.file = None \/ dropped \/ to.file # None THEN st
       ELSE IF from.imported
       THEN [syms |-> [st.syms EXCEPT ![a[2]] = [to EXCEPT !.file = Internal, !.isec = 0, !.off = 0, !.ext = TRUE]],
             indirect |-> st.indirect \cup {a}]
       ELSE [syms |-> [st.syms EXCEPT ![a[2]] = [to EXCEPT !.file = from.file, !.isec = from.isec, !.off = from.off,
                                                           !.ext = TRUE]],
             indirect |-> st.indirect]

\* section$start$... and the like, if used and still undefined.
ClaimBoundary(table) ==
    [s \in Names |-> IF s \in args.boundary /\ table[s].used /\ table[s].file = None
                     THEN [table[s] EXCEPT !.file = Internal, !.ext = FALSE] ELSE table[s]]

AddSyntheticSymbols ==
    LET added[n \in 0..Len(args.aliases)] ==
            IF n = 0 THEN [syms |-> WithHeaders, indirect |-> {}] ELSE AddAlias(added[n - 1], args.aliases[n])
        aliased == added[Len(args.aliases)]
    IN /\ Pass("add_synthetic_symbols")
       /\ syms' = ClaimBoundary(aliased.syms)
       /\ indirect' = {<<a[2], a[1]>> : a \in aliased.indirect}
       /\ UNCHANGED <<args, objs, dylibs, isecs, inits, errors>>

\* The alignment of a tentative definition: its own, or its size's.
CommonAlign(size, given) ==
    IF given # 0 \/ size = 0 THEN given
    ELSE Min({MaxCommonAlign} \cup {p \in 0..MaxCommonAlign : 2^p >= size})

Commons == {s \in Names : /\ syms[s].common /\ ~IsDefined(s)
                          /\ \E o \in DOMAIN objs : /\ objs[o].live
                                                    /\ \E k \in DOMAIN objs[o].syms : objs[o].syms[k].name = s
                                                                                  /\ objs[o].syms[k].kind = "common"}

\* Storage of the linker's own, one subsection for each symbol.
ConvertCommonSymbols ==
    LET order == SetToSeq(Commons)
        new(s) == Placed([obj |-> 0, kind |-> "zerofill", bytes |-> s, keep |-> FALSE, rels |-> <<>>,
                          p2align |-> CommonAlign(syms[s].off, syms[s].align)])
        place(s) == Len(isecs) + (CHOOSE i \in DOMAIN order : order[i] = s)
    IN /\ Pass("convert_common_symbols")
       /\ isecs' = isecs \o [i \in DOMAIN order |-> new(order[i])]
       /\ syms' = [s \in Names |-> IF s \in Commons
                                   THEN [Define(s, place(s), TRUE) EXCEPT !.off = 0, !.common = FALSE]
                                   ELSE syms[s]]
       /\ UNCHANGED <<args, objs, dylibs, inits, indirect, errors>>

----------------------------------------------------------------------------
\* Who sees a definition.

Hide(S) == syms' = [s \in Names |-> [syms[s] EXCEPT !.pext = @ \/ s \in S]]

\* The live weak definitions of s in the objects, winners and losers.
WeakCopies(s) ==
    {m \in UNION {Range(objs[o].syms) : o \in {p \in DOMAIN objs : objs[p].live}} :
        m.name = s /\ m.weak /\ m.kind \in {"sect", "abs"}}

\* A weak definition goes private if every copy lets it.
AutoHideWeakDefs ==
    /\ Pass("auto_hide_weak_defs")
    /\ Hide({s \in Names : /\ WeakCopies(s) # {} /\ \A m \in WeakCopies(s) : m.weakRef
                           /\ syms[s].weak /\ syms[s].ext /\ IsObj(s)
                           /\ ~(args.hasExported /\ s \in args.exported)})
    /\ UNCHANGED <<args, objs, dylibs, isecs, inits, indirect, errors>>

HideAllExports ==
    /\ Pass("hide_all_exports")
    /\ Hide({s \in Names : args.noExports /\ IsObj(s)})
    /\ UNCHANGED <<args, objs, dylibs, isecs, inits, indirect, errors>>

HandleExportedSymbolsList ==
    /\ Pass("exported_symbols_list")
    /\ Hide({s \in Names : args.hasExported /\ IsObj(s) /\ syms[s].ext /\ s \notin args.exported})
    /\ UNCHANGED <<args, objs, dylibs, isecs, inits, indirect, errors>>

HandleUnexportedSymbolsList ==
    /\ Pass("unexported_symbols_list")
    /\ Hide({s \in Names : IsObj(s) /\ syms[s].ext /\ s \in args.unexported})
    /\ UNCHANGED <<args, objs, dylibs, isecs, inits, indirect, errors>>

\* Only what the image exports changes; -force_symbol_weak wins.
ForceSymbolWeakness ==
    LET forced == {s \in Names : /\ IsObj(s) /\ syms[s].isec # 0
                                 /\ s \in args.forceWeak \cup args.forceNotWeak
                                 /\ syms[s].weak # (s \in args.forceWeak)}
    IN /\ Pass("force_symbol_weakness")
       /\ syms' = [s \in Names |-> IF s \in forced /\ IsExported(s)
                                   THEN [syms[s] EXCEPT !.weak = s \in args.forceWeak] ELSE syms[s]]
       /\ UNCHANGED <<args, objs, dylibs, isecs, inits, indirect, errors>>

\* An import an export list names is exported again, by an indirect symbol of
\* the same name next to the import, unless its library already does.  The
\* name counts as one the command line insists on from then on.
CreateSymbolReexports ==
    LET named == {s \in Names : syms[s].file.kind = "dylib"
                                /\ (s \in args.reexported \/ (args.hasExported /\ s \in args.exported))}
        redundant == {s \in named : syms[s].file # FlatLookup /\ dylibs[syms[s].file.idx].reexported}
    IN /\ Pass("create_symbol_reexports")
       /\ indirect' = indirect \cup {<<s, s>> : s \in named \ redundant}
       /\ args' = [args EXCEPT !.initial = @ \cup (named \ redundant)]
       /\ UNCHANGED <<objs, dylibs, isecs, syms, inits, errors>>

----------------------------------------------------------------------------
\* One copy of each weak definition.

\* The copies of object o that lost to another object's and hold nothing
\* else: no label at another place.
WeakDefLosers(o) ==
    SetToSeq({<<m.isec, syms[m.name].isec>> :
        m \in {n \in Range(objs[o].syms) :
                 /\ objs[o].live /\ n.kind = "sect" /\ n.weak
                 /\ IsObj(n.name) /\ syms[n.name].file # Obj(o)
                 /\ syms[n.name].isec # 0 /\ syms[n.name].off = n.off
                 /\ \A p \in Range(objs[o].syms) : p.kind = "sect" /\ p.isec = n.isec => p.off = n.off}})

\* Faulty variant: the pair as it was found, not as earlier ones left it.
Coalesce_Unresolved(secs, pair) ==
    IF pair[1] # pair[2] /\ secs[pair[1]].repl = 0 THEN [secs EXCEPT ![pair[1]].repl = pair[2]] ELSE secs

\* A later loser may resolve through an earlier one.
Coalesce(secs, pair) ==
    LET winner == Survivor(secs, pair[2])
        loser == Survivor(secs, pair[1])
    IN IF loser # winner /\ secs[loser].repl = 0 THEN [secs EXCEPT ![loser].repl = winner] ELSE secs

CoalesceAll(secs, pairs) ==
    LET done[n \in 0..Len(pairs)] == IF n = 0 THEN secs ELSE Coalesce(done[n - 1], pairs[n])
    IN  done[Len(pairs)]

\* Serially, in the order of the objects.
CoalesceWeakDefs ==
    LET done[o \in 0..Len(objs)] == IF o = 0 THEN isecs ELSE CoalesceAll(done[o - 1], WeakDefLosers(o))
    IN /\ Pass("coalesce_weak_defs")
       /\ isecs' = done[Len(objs)]
       /\ UNCHANGED <<args, objs, dylibs, syms, inits, indirect, errors>>

----------------------------------------------------------------------------
\* Dead stripping, by what its walk computes (see DeadStrip).

Initial == args.initial \cup {args.aliases[i][1] : i \in DOMAIN args.aliases}

RelTargets(i) ==
    {Survivor(isecs, j) : j \in ({r.isec : r \in Range(isecs[i].rels)}
                                 \cup {syms[r.sym].isec : r \in {q \in Range(isecs[i].rels) : q.sym # ""}}) \ {0}}

Roots ==
    LET kept == {i \in DOMAIN isecs : isecs[i].alive /\ (isecs[i].keep \/ isecs[i].kind = "init")}
        named == {syms[s].isec : s \in {t \in Names : syms[t].keep \/ (IsExported(t) /\ KeepsExport(t))}}
    IN {Survivor(isecs, i) : i \in kept \cup {f.isec : f \in {g \in inits : g.kind = "local"}}
                                   \cup {i \in named \ {0} : isecs[i].alive}
                                   \cup ({syms[s].isec : s \in Initial} \ {0})}

Marked ==
    LET step[n \in 0..Len(isecs)] ==
          IF n = 0 THEN Roots ELSE step[n - 1] \cup UNION {RelTargets(i) : i \in step[n - 1]}
    IN step[Len(isecs)]

\* mark_live_references: what is still used.
UsedAfter(secs) ==
    {r.sym : r \in UNION {Range(secs[i].rels) : i \in {j \in DOMAIN secs : secs[j].alive /\ secs[j].repl = 0}}}
        \cup {f.sym : f \in inits} \cup Initial

DeadStrip ==
    LET swept == [i \in DOMAIN isecs |-> [isecs[i] EXCEPT !.alive = @ /\ i \in Marked]]
    IN /\ Pass("dead_strip")
       /\ IF args.deadStrip
          THEN /\ isecs' = swept
               /\ syms' = [s \in Names |-> [syms[s] EXCEPT !.used = s \in UsedAfter(swept)]]
          ELSE UNCHANGED <<isecs, syms>>
       /\ UNCHANGED <<args, objs, dylibs, inits, indirect, errors>>

----------------------------------------------------------------------------
\* The checks.

\* References into metadata that was removed.
CheckRemovedSwiftMetadataRefs ==
    LET removed(j) == ~isecs[j].alive /\ isecs[j].kind = "swift"
    IN /\ Pass("check_removed_swift_metadata_refs")
       /\ Report({<<"swift", i>> : i \in {j \in DOMAIN isecs : args.removeSwift /\ IsEmitted(j)
                                                               /\ \E t \in RelTargets(j) : removed(t)}})
       /\ UNCHANGED <<args, objs, dylibs, isecs, syms, inits, indirect>>

Referenced ==
    {r.sym : r \in UNION {Range(isecs[i].rels) : i \in {j \in DOMAIN isecs : isecs[j].alive}}}
        \cup {f.sym : f \in inits} \cup Initial

\* An alias counts as defined.
Unresolved == {s \in Names : syms[s].used /\ ~IsDefined(s) /\ s \in Referenced
                             /\ \A i \in DOMAIN args.aliases : args.aliases[i][2] # s}

\* -undefined dynamic_lookup and -U leave a symbol to dyld, but no name the
\* command line insists on.
ClaimUnresolvedSymbols ==
    LET imports == {s \in Unresolved : /\ ~args.static /\ s \notin Initial
                                       /\ args.dynamicLookup \/ s \in args.allowed}
    IN /\ Pass("claim_unresolved_symbols")
       /\ syms' = [s \in Names |-> IF s \in imports
                                   THEN [syms[s] EXCEPT !.file = FlatLookup, !.imported = TRUE, !.ext = TRUE]
                                   ELSE syms[s]]
       /\ UNCHANGED <<args, objs, dylibs, isecs, inits, indirect, errors>>

\* Faulty variant: only what an object's own symbol table calls undefined.
ReportUndefErrors_NotInitial ==
    /\ Pass("report_undef_errors")
    /\ Report({<<"undefined", s>> : s \in Unresolved \ Initial})
    /\ UNCHANGED <<args, objs, dylibs, isecs, syms, inits, indirect>>

ReportUndefErrors ==
    /\ Pass("report_undef_errors")
    /\ Report({<<"undefined", s>> : s \in Unresolved})
    /\ UNCHANGED <<args, objs, dylibs, isecs, syms, inits, indirect>>

\* Each object's imports, and whether it refers to them weakly.
ImportRefs(o) ==
    {<<m.name, m.weakRef>> : m \in {n \in Range(objs[o].syms) : /\ objs[o].live /\ syms[n.name].imported
           /\ \E i \in DOMAIN isecs : isecs[i].obj = o /\ \E r \in Range(isecs[i].rels) : r.sym = n.name}}

\* A mismatch is a reference unlike all those before it.
CheckWeakImports ==
    LET refs == UNION {ImportRefs(o) : o \in DOMAIN objs}
        weak == args.noWeakImports /\ \E r \in refs : r[2]
        mixed == args.weakMismatches /\ \E s \in Names : {<<s, TRUE>>, <<s, FALSE>>} \subseteq refs
    IN /\ Pass("check_weak_imports")
       /\ Report(CASE weak -> {<<"weak imports", "">>} [] ~weak /\ mixed -> {<<"weak mismatches", "">>} [] OTHER -> {})
       /\ UNCHANGED <<args, objs, dylibs, isecs, syms, inits, indirect>>

\* The strong definitions of s that lost, of live objects.
Losers(s) ==
    {m \in UNION {Range(objs[o].syms) : o \in {p \in DOMAIN objs : objs[p].live /\ syms[s].file # Obj(p)}} :
        m.name = s /\ m.kind \in {"sect", "abs"} /\ ~m.weak /\ IsObj(s)}

IsLiveAt(isec) == isec = 0 \/ isecs[isec].alive

IsDuplicate(s) ==
    /\ Losers(s) # {} /\ IsLiveAt(syms[s].isec)
    /\ args.allowDeadDuplicates => \E m \in Losers(s) : IsLiveAt(m.isec)

CheckDuplicateSymbols ==
    /\ Pass("check_duplicate_symbols")
    /\ Report({<<"duplicate", s>> : s \in {t \in Names : IsDuplicate(t)}})
    /\ UNCHANGED <<args, objs, dylibs, isecs, syms, inits, indirect>>

CheckPoisonedSymbols ==
    /\ Pass("check_poisoned_symbols")
    /\ Report({<<"poisoned", s>> : s \in {t \in args.poisoned : \E i \in DOMAIN isecs :
                   /\ isecs[i].alive /\ isecs[i].obj # 0 /\ objs[isecs[i].obj].live
                   /\ \E r \in Range(isecs[i].rels) : r.sym = t}})
    /\ UNCHANGED <<args, objs, dylibs, isecs, syms, inits, indirect>>

ExportsWeakDef(s) == IsExported(s) /\ syms[s].weak /\ syms[s].isec # 0 /\ isecs[syms[s].isec].alive

\* A strong definition dyld prefers to some library's weak one.
OverridesWeakExport(s) ==
    IsExported(s) /\ ~syms[s].weak /\ \E d \in DOMAIN dylibs : s \in dylibs[d].weakExports

CheckWeakExports ==
    /\ Pass("check_weak_exports")
    /\ Report(IF args.noWeakExports /\ ~args.relocatable
                  /\ \E s \in Names : ExportsWeakDef(s) \/ OverridesWeakExport(s)
               THEN {<<"weak exports", "">>} ELSE {})
    /\ UNCHANGED <<args, objs, dylibs, isecs, syms, inits, indirect>>

\* The link stops at the next checkpoint after an error.
Checkpoint ==
    /\ errors = {} /\ Pass("checkpoint")
    /\ UNCHANGED <<args, objs, dylibs, isecs, syms, inits, indirect, errors>>

----------------------------------------------------------------------------
Init ==
    \E family \in Links : \E l \in family :
        /\ at = 1 /\ inits = {} /\ indirect = {} /\ errors = {}
        /\ args = l.args /\ objs = l.objs /\ dylibs = l.dylibs
        /\ isecs = [i \in DOMAIN l.isecs |-> Placed(l.isecs[i])]
        /\ syms = [s \in l.names |-> Claimed(l, s)]

Next ==
    \/ CheckCommonConflicts \/ RemoveUnreachableFiles \/ RemoveSwiftReflectionMetadata
    \/ CheckInitializers \/ ConvertInitOffsets \/ MergeLiterals \/ AddSyntheticSymbols
    \/ ConvertCommonSymbols \/ AutoHideWeakDefs \/ HideAllExports \/ HandleExportedSymbolsList
    \/ HandleUnexportedSymbolsList \/ ForceSymbolWeakness \/ CreateSymbolReexports \/ CoalesceWeakDefs
    \/ DeadStrip \/ CheckRemovedSwiftMetadataRefs \/ ClaimUnresolvedSymbols \/ ReportUndefErrors
    \/ Checkpoint \/ CheckWeakImports \/ CheckDuplicateSymbols \/ CheckPoisonedSymbols \/ CheckWeakExports

Spec == Init /\ [][Next]_vars

----------------------------------------------------------------------------
\* The symbols the trie and the symbol table list as the image's own
\* (sorted_globals).
SortedGlobals == {s \in Names : IsExported(s) /\ IsLiveAt(IF syms[s].isec = 0 THEN 0 ELSE Survivor(isecs, syms[s].isec))}

\* What an option removes whatever refers to it.
Removed(i) ==
    \/ args.removeSwift /\ isecs[i].kind = "swift"
    \/ args.initOffsets /\ isecs[i].kind = "init"

\* Whether a weak definition, or the one that won over it, is a literal: its
\* copies are taken for the same, whatever they contain.
WeakLiterals ==
    \E o \in DOMAIN objs : \E m \in Range(objs[o].syms) :
        /\ m.kind = "sect" /\ m.weak
        /\ \E i \in {m.isec, syms[m.name].isec} \ {0} : isecs[i].kind = "literal"

\* Merging literals, coalescing weak definitions and stripping
\* never leave a subsection standing for itself or for one that
\* is gone: what a live subsection resolves to is in the output, unless an
\* option removes it, and is the literal it replaces, as aligned, unless a
\* weak definition is a literal.
SurvivorsStand ==
    \A i \in DOMAIN isecs :
        LET j == Survivor(isecs, i) IN
        /\ isecs[j].repl = 0
        /\ isecs[i].alive => isecs[j].alive \/ Removed(j)
        /\ isecs[i].kind = "literal" /\ isecs[i].repl # 0 /\ ~WeakLiterals =>
              /\ isecs[j].kind = "literal" /\ isecs[j].bytes = isecs[i].bytes
              /\ isecs[j].p2align >= isecs[i].p2align

\* A link that succeeds leaves no reference of the output without a target:
\* every symbol it names has an address here, or dyld finds it.
NothingUndefined ==
    Linked /\ ~args.relocatable =>
        \A i \in {j \in DOMAIN isecs : IsEmitted(j)} : \A r \in Range(isecs[i].rels) :
            LET isec == IF r.sym = "" THEN r.isec ELSE syms[r.sym].isec
            IN /\ r.sym # "" => IsDefined(r.sym)
               /\ isec # 0 => isecs[Survivor(isecs, isec)].alive

\* A link that succeeds exports what it was asked to: no name an unexported
\* list gives or an exported list leaves out, every live global definition
\* an exported list names, and every import such a list names.
ExportsAsAsked ==
    Linked /\ ~args.relocatable =>
        /\ \A s \in SortedGlobals :
              s \notin args.unexported /\ ~args.noExports /\ (args.hasExported => s \in args.exported)
        /\ args.hasExported /\ ~args.noExports =>
              \A s \in args.exported \cap Names :
                 /\ \A o \in DOMAIN objs : \A m \in Range(objs[o].syms) :
                       /\ syms[s].file = Obj(o) /\ m.name = s /\ m.kind = "sect" /\ ~m.pext
                       /\ s \notin args.unexported
                       => s \in SortedGlobals
                 /\ syms[s].imported /\ syms[s].file # FlatLookup =>
                       <<s, s>> \in indirect \/ dylibs[syms[s].file.idx].reexported
=============================================================================
