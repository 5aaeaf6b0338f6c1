---------------------------- MODULE SymbolBinding ----------------------------
(***************************************************************************)
(* How an image refers to a symbol: the predicates of symbol.rs that every *)
(* later pass asks of a resolved symbol (does dyld fill the reference, by  *)
(* which lookup, with which library ordinal), over the options, the        *)
(* symbols and the dylibs of a link.                                       *)
(*                                                                         *)
(* A symbol is [kind |-> "none" | "obj" | "dylib" | "flat", dylib |-> its  *)
(* index in dylibs, ...]; "flat" is FileId::Dylib(u32::MAX), an import     *)
(* left to dynamic lookup.                                                 *)
(***************************************************************************)
EXTENDS Integers, Sequences, FiniteSets, SequencesExt

VARIABLES
    args,    \* the options (cmdline::Args) that bear on binding
    syms,    \* [name -> symbol], the resolved symbol table
    dylibs   \* the sequence of the link's dylibs (ctx.dylibs)

\* The library ordinals that name no load command.
SELF == 0
MAIN_EXECUTABLE == -1
FLAT_LOOKUP == -2
WEAK_LOOKUP == -3

\* No dyld loads the image.
WithoutDyld == args.static \/ args.kext

\* Stubs are bound on their first call, through lazy pointers.
LazyBinding == ~WithoutDyld /\ ~args.chains /\ ~args.bindAtLoad

\* The kernel maps the image where its segments say: nothing slides it.
IsNeverSlid == args.output = "execute" /\ ~args.pie /\ ~args.static

IsExported(s) == syms[s].kind = "obj" /\ syms[s].ext /\ ~syms[s].pext

IsDelayImport(s) == syms[s].kind = "dylib" /\ dylibs[syms[s].dylib].delay # ""

IsLazyImport(s) == syms[s].kind = "dylib" /\ dylibs[syms[s].dylib].lazy

IsTlv(s) ==
    \/ syms[s].kind = "obj" /\ syms[s].isec /\ syms[s].tlv
    \/ syms[s].kind = "dylib" /\ s \in dylibs[syms[s].dylib].tlvExports

IsWeakCoalesced(s) == ~args.dylinker /\ IsExported(s) /\ syms[s].weakDef

IsInterposableExport(s) ==
    /\ \/ args.flat /\ args.output \in {"dylib", "bundle"}
       \/ ~WithoutDyld /\ ~args.dylinker /\ s \in args.interposable
    /\ IsExported(s) /\ syms[s].isec

BindsAsImport(s) == syms[s].imported \/ IsInterposableExport(s)

BindsPointer(s) == BindsAsImport(s) \/ (args.legacy /\ IsWeakCoalesced(s))

\* DylibFile::bind_ordinal
DylibOrdinal(d) ==
    IF args.flat THEN FLAT_LOOKUP
    ELSE IF dylibs[d].bindsToImage THEN SELF
    ELSE dylibs[d].ordinal

ExportBindOrdinal == IF args.flat THEN FLAT_LOOKUP ELSE SELF

BindOrdinal(s) ==
    CASE syms[s].kind = "dylib" -> DylibOrdinal(syms[s].dylib)
      [] syms[s].kind = "flat"  -> FLAT_LOOKUP
      [] OTHER                  -> ExportBindOrdinal

IsInterposable(s) == IsWeakCoalesced(s) \/ IsInterposableExport(s)

BindsAtRuntime(s) == syms[s].imported \/ IsInterposable(s)

IsAbsolute(s) == ~syms[s].isec /\ syms[s].kind = "obj" /\ ~syms[s].internal

OverridesWeakExport(s) ==
    /\ IsExported(s) /\ ~syms[s].weakDef
    /\ \E d \in DOMAIN dylibs : s \in dylibs[d].weakExports

BindsWeakLookup(s) ==
    /\ ~args.static /\ (args.kext => args.sharedRegion)
    /\ \/ IsWeakCoalesced(s)
       \/ syms[s].kind = "dylib" /\ s \in dylibs[syms[s].dylib].weakExports

\* Faulty variant: a weak definition binds without a lookup by name, as
\* before the one-definition rule across images.
CanRelaxGot_IgnoresWeak(s) == ~BindsAsImport(s) /\ ~IsAbsolute(s)

CanRelaxGot(s) == ~BindsAsImport(s) /\ ~BindsWeakLookup(s) /\ ~IsAbsolute(s)

\* A class of a dylib in the shared region, bound to the image itself.
BindsToSelf(s) ==
    /\ args.sharedRegion /\ args.output = "dylib" /\ args.chains
    /\ IsExported(s) /\ syms[s].objcClass
=============================================================================
