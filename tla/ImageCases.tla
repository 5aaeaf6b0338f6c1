-------------------------------- MODULE ImageCases --------------------------------
(***************************************************************************)
(* The small instances of the passes that make the image: the links that   *)
(* MCImage lays out, binds and writes.                                     *)
(***************************************************************************)
EXTENDS Integers, Sequences, FiniteSets, TLC, SequencesExt

CONSTANT None   \* an absent value

LOCAL INSTANCE SectionNames

-----------------------------------------------------------------------------
\* Sections: Small links for Sections: families of links that exercise the
\* workers' grouping, the names, the records the linker places, the
\* boundary symbols and the order of the chunks.

CONSTANTS w1, w2

SectionWorkers == {w1, w2}

SectionOptions ==
    [relocatable |-> FALSE, data_const |-> TRUE, target |-> 2, const_selrefs |-> FALSE, shared_region |-> FALSE,
     relative_methods |-> FALSE, text_exec |-> FALSE, merge_zero_fill |-> FALSE, static_link |-> FALSE,
     preload |-> FALSE, kext |-> FALSE, dylinker |-> FALSE, encryptable |-> FALSE, pagezero |-> TRUE, stack |-> FALSE,
     no_zero_fill |-> FALSE, rename_sections |-> <<>>, rename_segments |-> <<>>, segment_order |-> <<>>,
     section_order |-> <<>>, sectalign |-> <<>>, segment_align |-> 4, move_to_rw |-> <<>>, move_to_ro |-> <<>>,
     dirty_data |-> <<>>, order |-> <<>>, legacy_linkedit |-> FALSE, never_slid |-> FALSE, chained |-> TRUE,
     fixup_chains_section |-> FALSE, no_fixup_chains |-> FALSE, pie |-> TRUE, shared_cache_marker |-> FALSE,
     data_in_code_info |-> TRUE, make_mergeable |-> FALSE, adhoc_codesign |-> TRUE,
     sectRank |-> [__objc_const |-> 1, __objc_data |-> 2]]

Isec(sec) == [sec |-> sec, size |-> 4, p2align |-> 2, alive |-> TRUE, repl |-> 0, placed |-> FALSE, cold |-> FALSE]

SectionLink(opts, secs, is) ==
    [o |-> opts, secs |-> secs, isecs |-> is, syms |-> <<>>, blobs |-> <<>>, lists |-> <<>>, sectcreate |-> <<>>,
     bounds |-> <<>>, needs |-> {}, methname |-> 0, selrefs |-> 0]

SectionS(seg, sect, flags) == [name |-> <<seg, sect>>, flags |-> flags]

SectionText == SectionS("__TEXT", "__text", Code)
SectionData == SectionS("__DATA", "__data", Plain("regular"))
Bss == SectionS("__DATA", "__bss", Plain("zerofill"))
Const == SectionS("__DATA", "__const", Plain("regular"))
TlvData == SectionS("__DATA", "__thread_data", Plain("tlvdata"))
TlvBss == SectionS("__DATA", "__thread_bss", Plain("tlvbss"))
Bitcode == SectionS("__LLVM", "__bitcode", Plain("regular"))
InitList == SectionS("__DATA", "__mod_init_func", Plain("init"))
BareInit == SectionS("__DATA", "__mod_init_func", Plain("regular"))
ObjcConst == SectionS("__DATA", "__objc_const", Plain("regular"))

Sym(name, obj, isec) == [name |-> name, obj |-> obj, isec |-> isec, kind |-> "def", base |-> None, size |-> 0]

ListOf(seg, named, patterns) == [segment |-> seg, named |-> named, patterns |-> patterns]

(* Grouping: subsections of three input sections, in two or three blocks,  *)
(* some dead or replaced, and symbols that move some                       *)
GroupLinks ==
    {[SectionLink([SectionOptions EXCEPT !.move_to_rw = rw, !.move_to_ro = <<ListOf("__RO", {<<"a.o", "y">>}, {"x"})>>,
                           !.dirty_data = dirty],
           secs, [k \in 1 .. 5 |-> [Isec(at[k]) EXCEPT !.p2align = k % 3, !.alive = k # dead,
                                                       !.placed = k = 4 /\ dead = 1]])
        EXCEPT !.syms = <<Sym("x", "a.o", x), Sym("y", "a.o", 5)>>] :
        x \in 1 .. 2,
        rw \in {<<>>, <<ListOf("__RW", {<<None, "x">>}, {}), ListOf("__RW2", {}, {"y", "x"})>>},
        dirty \in {<<>>, <<ListOf("", {<<None, "x">>}, {"y"})>>},
        secs \in {<<SectionData, Bitcode, Bss>>, <<SectionText, SectionData, SectionText>>, <<BareInit, InitList, TlvBss>>},
        at \in {<<1, 1, 2, 2, 3>>, <<1, 1, 1, 2, 3>>, <<1, 2, 2, 3, 3>>},
        dead \in 0 .. 1}

\* Symbols of the other kinds: common, absolute, labels, aliases and records
SectionSymbolLinks ==
    {[SectionLink([SectionOptions EXCEPT !.relocatable = r, !.move_to_rw = <<ListOf("__RW", {<<None, "x">>}, {})>>,
                           !.move_to_ro = <<ListOf("__RO", {<<None, "x">>}, {"y"})>>],
           <<Bss, SectionText, ObjcConst, SectionS("__TEXT", "__objc_methlist", Plain("regular"))>>,
           <<Isec(1), [Isec(2) EXCEPT !.cold = TRUE], [Isec(3) EXCEPT !.repl = 4], [Isec(3) EXCEPT !.placed = TRUE],
             [Isec(4) EXCEPT !.placed = TRUE], Isec(2)>>)
        EXCEPT !.syms = <<[Sym("x", "a.o", 1) EXCEPT !.kind = "common", !.size = n],
                          [Sym("x", "b.o", 1) EXCEPT !.kind = "common", !.size = 2],
                          s, [Sym("z", "a.o", at) EXCEPT !.base = "y"]>>,
               !.blobs = <<[isec |-> 4, sect |-> "__objc_const"]>>, !.lists = <<5>>] :
        r \in BOOLEAN, n \in 1 .. 3, at \in {2, 3, 5},
        s \in {[Sym("x", "a.o", 0) EXCEPT !.kind = "def"], [Sym("x", "a.o", 2) EXCEPT !.kind = "label"], Sym("x", "a.o", 3)}}

(* Names: every kind of section under every kind of option                 *)
NamedSections ==
    {SectionText, SectionData, Bss, Const, InitList, BareInit, ObjcConst, TlvData,
     SectionS("__TEXT", "__StaticInit", Code), SectionS("__TEXT", "__literal8", Plain("literal8")),
     SectionS("__TEXT", "__objc_methname", Plain("regular")), SectionS("__TEXT", "__constructor", Plain("regular")),
     SectionS("__DATA", "__got", Plain("cstring")), SectionS("__DATA", "__mine", Plain("nonlazy")),
     SectionS("__DATA", "__objc_selrefs", Flags("litptrs", FALSE, TRUE)),
     SectionS("__DATA", "__objc_superrefs", Flags("litptrs", FALSE, TRUE)),
     SectionS("__DATA", "__objc_clsrolist", Flags("regular", FALSE, TRUE)),
     SectionS("__DATA", "__interpose", Plain("interposing")), SectionS("__DATA", "__zero", Plain("gbzerofill"))}

OptionSets ==
    {SectionOptions, [SectionOptions EXCEPT !.relocatable = TRUE, !.target = 1], [SectionOptions EXCEPT !.data_const = FALSE, !.target = 0],
     [SectionOptions EXCEPT !.shared_region = TRUE, !.relative_methods = TRUE, !.const_selrefs = TRUE],
     [SectionOptions EXCEPT !.text_exec = TRUE, !.kext = TRUE], [SectionOptions EXCEPT !.merge_zero_fill = TRUE],
     [SectionOptions EXCEPT !.rename_segments = <<<<"__DATA", "__MINE">>, <<"__TEXT", "__CODE">>>>],
     [SectionOptions EXCEPT !.static_link = TRUE, !.rename_segments = <<<<"__TEXT", "__CODE">>>>,
                     !.segment_order = <<"__CODE">>, !.pie = FALSE],
     [SectionOptions EXCEPT !.rename_sections = <<<<<<"__DATA", "__data">>, <<"__DATA", "__bss">>>>,
                                           <<<<"__DATA_CONST", "__const">>, <<"__DATA", "__const">>>>,
                                           <<<<"__TEXT", "__text">>, <<"__DATA", "__text">>>>>>]}

BoundaryNames == {<<"__DATA", "__const">>, <<"__DATA", "__mod_init_func">>, <<"__TEXT", "__literal8">>,
                  <<"__DATA", "__objc_selrefs">>, <<"__DATA", "__bss">>, <<"__DATA", "__la_symbol_ptr">>}

NameLinks ==
    {[SectionLink(opts, <<a, Bss>>, <<Isec(1), Isec(2)>>)
        EXCEPT !.bounds = <<[seg |-> b[1], sect |-> b[2]], [seg |-> a.name[1], sect |-> a.name[2]],
                            [seg |-> "__MINE", sect |-> None]>>,
               !.needs = {"Stubs", "LazyPtrs", "Got", "UnwindInfo"}] :
        opts \in OptionSets, a \in NamedSections, b \in BoundaryNames}

(* Records and tails: one record in place of two subsections or in the     *)
(* tail, -sectcreate contents of the same name or another                  *)
RecordLinks ==
    {[SectionLink([SectionOptions EXCEPT !.order = order, !.rename_sections = renames],
           <<ObjcConst, SectionText>>,
           <<[Isec(1) EXCEPT !.repl = rep], [Isec(2) EXCEPT !.cold = cold], [Isec(1) EXCEPT !.repl = rep2, !.size = 2],
             [Isec(1) EXCEPT !.size = 3, !.p2align = 0], Isec(2),
             [Isec(1) EXCEPT !.placed = TRUE, !.p2align = 3, !.size = 8], [Isec(1) EXCEPT !.placed = TRUE]>>)
        EXCEPT !.blobs = <<[isec |-> 6, sect |-> "__objc_const"], [isec |-> 7, sect |-> "__objc_data"]>>,
               !.sectcreate = <<[name |-> <<"__DATA", "__objc_const">>, size |-> 3],
                                [name |-> <<"__DATA", "__new">>, size |-> 1], [name |-> <<"__DATA", "__new">>, size |-> 2]>>,
               !.syms = <<Sym("f", "a.o", 5), Sym("g", "b.o", 2)>>,
               !.methname = 5, !.selrefs = 1] :
        rep \in {0, 6}, rep2 \in {0, 6, 7}, cold \in BOOLEAN,
        order \in {<<>>, <<[name |-> "f", file |-> None]>>, <<[name |-> "f", file |-> "b.o"], [name |-> "g", file |-> "b.o"]>>},
        renames \in {<<>>, <<<<<<"__DATA", "__objc_data">>, <<"__DATA", "__objc_const">>>>>>}}

(* Order: the segments and sections of an image under the ordering options *)
OrderLinks ==
    {[SectionLink([SectionOptions EXCEPT !.segment_order = order, !.section_order = so, !.preload = pre, !.static_link = pre,
                           !.stack = pre, !.no_zero_fill = pre, !.encryptable = ~pre, !.dylinker = ~pre,
                           !.sectalign = <<[name |-> <<"__DATA", "__data">>, p2align |-> 5]>>],
           secs, [k \in 1 .. 4 |-> Isec(k)])
        EXCEPT !.needs = {"Stubs", "StubHelper", "LazyPtrs", "Got", "UnwindInfo", "EhFrame"}] :
        order \in {<<>>, <<"__DATA", "__TEXT", "__MINE">>, <<"__LINKEDIT", "__OTHER">>},
        so \in {<<>>, <<[seg |-> "__DATA", list |-> <<"__thread_bss", "__data">>]>>,
                <<[seg |-> "__DATA", list |-> <<"__thread_data", "__bss">>]>>},
        pre \in BOOLEAN,
        secs \in {<<Bss, TlvBss, SectionData, TlvData>>,
                  <<SectionS("__MINE", "__a", Plain("regular")), SectionS("__OTHER", "__a", Plain("regular")), SectionText, SectionS("__MINE", "__b", Plain("regular"))>>,
                  <<SectionS("__TEXT", "__oslogstring", Plain("cstring")), TlvData, SectionS("__DATA", "__interpose", Plain("regular")), Const>>}}

(* What __LINKEDIT holds for each way the image is loaded                  *)
LinkeditLinks ==
    {SectionLink([SectionOptions EXCEPT !.legacy_linkedit = legacy, !.never_slid = slid, !.static_link = st, !.kext = kext,
                          !.chained = ch, !.no_fixup_chains = no, !.pie = slid, !.shared_region = ~ch,
                          !.make_mergeable = ch, !.adhoc_codesign = no],
          <<SectionText, SectionS("__DATA", "__interpose", Plain("regular"))>>, <<Isec(1), Isec(2)>>) :
        legacy \in BOOLEAN, slid \in BOOLEAN, st \in BOOLEAN, kext \in BOOLEAN, ch \in BOOLEAN, no \in BOOLEAN}

SectionLinks == {GroupLinks, SectionSymbolLinks, NameLinks, RecordLinks, OrderLinks, LinkeditLinks}

-----------------------------------------------------------------------------
\* Bindings: Links for TLC: every kind of symbol under every format and
\* output, and every kind of dylib.

MAIN_EXECUTABLE == -1

BindingNames == <<"_a", "_b", "_dlopen", "_lazy", "binder">>

NoSymbol == [kind |-> "none", dylib |-> 0, isec |-> FALSE, ext |-> FALSE, pext |-> FALSE,
             weakDef |-> FALSE, weakRef |-> FALSE, imported |-> FALSE, used |-> FALSE,
             tlv |-> FALSE, internal |-> FALSE, objcClass |-> FALSE]
Own == [NoSymbol EXCEPT !.kind = "obj", !.isec = TRUE, !.used = TRUE]
Exported == [Own EXCEPT !.ext = TRUE]
BindingImport(d) == [NoSymbol EXCEPT !.kind = "dylib", !.dylib = d, !.ext = TRUE, !.imported = TRUE, !.used = TRUE]

OwnSymbols ==
    {Own, Exported, [Exported EXCEPT !.pext = TRUE],
     [Exported EXCEPT !.weakDef = TRUE], [Exported EXCEPT !.weakDef = TRUE, !.pext = TRUE],
     [Exported EXCEPT !.isec = FALSE], [Exported EXCEPT !.objcClass = TRUE]}
Symbols ==
    OwnSymbols \cup {BindingImport(1), BindingImport(2), [BindingImport(1) EXCEPT !.weakRef = TRUE],
                     [BindingImport(0) EXCEPT !.kind = "flat"]}

Dylib(name, at) ==
    [name |-> name, exports |-> {}, weakExports |-> {}, tlvExports |-> {}, lazy |-> FALSE, delay |-> "",
     implicit |-> FALSE, needed |-> FALSE, reexported |-> FALSE, bundleLoader |-> FALSE, weak |-> FALSE,
     weakAsserted |-> FALSE, upward |-> FALSE, ordinal |-> 0, bindsToImage |-> FALSE, namedAt |-> at,
     public |-> TRUE, standsIn |-> FALSE, moved |-> <<>>]
LibSystem(at) == [Dylib("libSystem", at) EXCEPT !.exports = {"_dlopen", "_lazy", "binder"}]

BindingPlain == [static |-> FALSE, kext |-> FALSE, chains |-> FALSE, bindAtLoad |-> FALSE, output |-> "dylib",
          pie |-> TRUE, dylinker |-> FALSE, flat |-> FALSE, interposable |-> {}, legacy |-> FALSE,
          sharedRegion |-> FALSE, entry |-> "", personalities |-> {}, lookedUp |-> {},
          deadStripDylibs |-> FALSE, noImplicit |-> FALSE, makeMergeable |-> FALSE, unaligned |-> FALSE]

\* Formats: chains, opcodes (lazy or not), opcodes an unaligned pointer
\* forces, legacy LINKEDIT, a kext's relocations.
Formats == {[BindingPlain EXCEPT !.chains = TRUE], BindingPlain, [BindingPlain EXCEPT !.bindAtLoad = TRUE],
            [BindingPlain EXCEPT !.chains = TRUE, !.unaligned = TRUE], [BindingPlain EXCEPT !.legacy = TRUE],
            [BindingPlain EXCEPT !.kext = TRUE, !.output = "kext"]}

\* The outputs and namespaces an image of such a format may have.
BindingOptions ==
    {[f EXCEPT !.interposable = i] : f \in Formats, i \in {{}, {"_a"}}}
    \cup {[f EXCEPT !.flat = TRUE] : f \in Formats}
    \cup {[f EXCEPT !.output = "execute", !.pie = p, !.entry = "_a"] : f \in {g \in Formats : ~g.kext}, p \in BOOLEAN}
    \cup {[f EXCEPT !.sharedRegion = TRUE] : f \in {g \in Formats : ~g.kext}}
    \cup {[f EXCEPT !.personalities = {"_b"}] : f \in {g \in Formats : ~g.legacy}}

Ref(s, k, a) == [sym |-> s, kind |-> k, addend |-> a, own |-> FALSE, weak |-> FALSE, tls |-> FALSE]

Frameless(s) == [Ref(s, "got", 0) EXCEPT !.own = TRUE]

\* The classic weak-bind stream names no addend: a pointer past a
\* coalesced definition has one only in the other formats.
Pointer(s, a) == Ref(s, "ptr", a)
HasAddend(rs, s) == \E i \in DOMAIN rs : rs[i].sym = s /\ rs[i].addend # 0
WeakAt(l, s) == \/ l.syms[s].kind = "obj" /\ l.syms[s].weakDef
                \/ l.syms[s].kind = "dylib" /\ s \in l.dylibs[l.syms[s].dylib].weakExports
Representable(l) == (l.args.chains /\ ~l.args.unaligned) \/ \A s \in {"_a", "_b"} : HasAddend(l.refs, s) => ~WeakAt(l, s)

Refs ==
    { <<Ref("_a", "branch", 0), Ref("_b", "branch", 0), Pointer("_b", 0)>>,
      <<Ref("_a", "got", 0), Ref("_b", "ptr_to_got", 0), Pointer("_a", 0)>>,
      <<Pointer("_a", 0), Pointer("_a", 1), Pointer("_a", 2), Pointer("_b", 1), Pointer("_b", 2), Ref("_b", "got", 0)>>,
      <<Pointer("_b", 0), Ref("_a", "branch", 0), Ref("_a", "got", 0), Pointer("_a", 0), Pointer("_b", 3),
        Pointer("_a", 3)>> }

\* A delay-init dylib forces _dlopen to be resolved: here by the library
\* that exports it, or by dynamic lookup.
WithDlopen(l) ==
    LET from == {d \in DOMAIN l.dylibs : "_dlopen" \in l.dylibs[d].exports}
        dlopen == IF from = {} THEN [BindingImport(0) EXCEPT !.kind = "flat"] ELSE BindingImport(CHOOSE d \in from : TRUE)
    IN IF \E d \in DOMAIN l.dylibs : l.dylibs[d].delay # ""
       THEN [l EXCEPT !.syms = [@ EXCEPT !["_dlopen"] = dlopen]] ELSE l

SymTable(a, b) == [s \in {"_a", "_b", "_dlopen", "_lazy", "binder"} |->
                     CASE s = "_a" -> a [] s = "_b" -> b [] OTHER -> NoSymbol]

TwoDylibs == {<<[Dylib("libA", 1) EXCEPT !.exports = {"_a"}, !.weakExports = w],
                [LibSystem(2) EXCEPT !.exports = @ \cup {"_a", "_b"}]>> : w \in {{}, {"_a"}}}

\* Symbols of every kind in images of every format.
BindingSymbolLinks ==
    {l \in [args : BindingOptions, syms : {SymTable(a, b) : a \in Symbols, b \in {BindingImport(2), Exported}},
            dylibs : TwoDylibs, refs : Refs] : Representable(l)}

\* Thread-local variables: descriptors, and a pointer that is an offset.
TlvLinks ==
    {[args |-> o, syms |-> SymTable(a, Own), dylibs |-> <<[LibSystem(1) EXCEPT !.exports = @ \cup {"_a"}, !.tlvExports = t]>>,
      refs |-> <<Ref("_a", k, 0), [Pointer("_b", 0) EXCEPT !.tls = TRUE]>>] :
        o \in Formats, a \in {[Exported EXCEPT !.tlv = TRUE], [Own EXCEPT !.tlv = TRUE], BindingImport(1)},
        t \in {{}, {"_a"}}, k \in {"tlv", "got"}}

BundleLoader(S) == [Dylib("main", 1) EXCEPT !.exports = S, !.bundleLoader = TRUE, !.ordinal = MAIN_EXECUTABLE]

\* Dylibs: the ones nothing binds to, weakly and lazily loaded ones,
\* delay-init ones, re-exported ones, stand-ins for those symbols moved to.
Kinds(d) ==
    {d, [d EXCEPT !.implicit = TRUE], [d EXCEPT !.needed = TRUE], [d EXCEPT !.reexported = TRUE, !.public = FALSE],
     [d EXCEPT !.weak = TRUE], [d EXCEPT !.lazy = TRUE], [d EXCEPT !.delay = d.name],
     [d EXCEPT !.weakAsserted = TRUE],
     [d EXCEPT !.standsIn = TRUE], [d EXCEPT !.moved = [s \in {"_b"} |-> 2]]}

\* Two dylibs of the link; libB may be one that delay-init libA re-exports,
\* delayed with it (reader::load_dylib).
LibA == [Dylib("libA", 1) EXCEPT !.exports = {"_a"}]
LibB == [Dylib("libB", 1) EXCEPT !.exports = {"_b"}]
DylibPairs ==
    (Kinds(LibA) \cup {BundleLoader({"_a"})})
        \X (Kinds(LibB) \cup {[LibB EXCEPT !.name = "libA", !.standsIn = TRUE]})
    \cup {<<[LibA EXCEPT !.delay = "libA"], [LibB EXCEPT !.delay = "libA", !.implicit = TRUE]>>}

DylibLinks ==
    {[args |-> [o EXCEPT !.deadStripDylibs = strip, !.lookedUp = look], syms |-> SymTable(a, b),
      dylibs |-> <<[p[1] EXCEPT !.namedAt = order[1]], [p[2] EXCEPT !.namedAt = order[2]], LibSystem(order[3])>>,
      refs |-> <<Ref("_a", k, 0), Ref("_b", "got", 0), Ref("_b", "branch", 0), Frameless("_b"), Ref("_a", "got", 0)>>] :
        o \in {BindingPlain, [BindingPlain EXCEPT !.chains = TRUE], [BindingPlain EXCEPT !.legacy = TRUE]},
        strip \in BOOLEAN, look \in {{}, {"binder", "_lazy"}},
        a \in {BindingImport(1), [BindingImport(1) EXCEPT !.weakRef = TRUE], Own}, b \in {BindingImport(2), [BindingImport(2) EXCEPT !.weakRef = TRUE]},
        p \in DylibPairs, order \in {<<1, 2, 3>>, <<3, 1, 2>>}, k \in {"branch", "got"}}

\* No library exports what the linker itself calls.
BareLinks ==
    {[args |-> o, syms |-> SymTable(BindingImport(1), Own),
      dylibs |-> <<[x EXCEPT !.namedAt = 1]>>, refs |-> <<Ref("_a", k, 0)>>] :
        o \in {[p EXCEPT !.lookedUp = look] : p \in {f \in Formats : ~f.kext}, look \in {{}, {"binder", "_lazy", "_dlopen"}}},
        x \in Kinds(LibA), k \in {"branch", "got", "ptr"}}

BindingLinks == {BindingSymbolLinks, TlvLinks, {WithDlopen(l) : l \in DylibLinks}, {WithDlopen(l) : l \in BareLinks}}

-----------------------------------------------------------------------------
\* ExportTrie:

TrieReexport == 8

Bytes == {1, 2}
NamesUpTo(n) == UNION {[1..k -> Bytes] : k \in 1..n}
TrieGlobal(a) == [addr |-> a, weak |-> FALSE, tlv |-> FALSE, absolute |-> FALSE, alias |-> <<>>, ordinal |-> 0]
TrieAlias(n, d) == [TrieGlobal(2) EXCEPT !.alias = n, !.ordinal = d]
TrieGlobals == {TrieGlobal(2), TrieGlobal(42), [TrieGlobal(7) EXCEPT !.weak = TRUE], [TrieGlobal(7) EXCEPT !.tlv = TRUE],
                [TrieGlobal(5) EXCEPT !.absolute = TRUE], TrieAlias(<<1>>, 1), TrieAlias(<<2, 1>>, 1), TrieAlias(<<2>>, 0)}
Sets == {S \in SUBSET NamesUpTo(3) : Cardinality(S) \in 1..3}
TrieExportSets == {[S -> {TrieGlobal(7), TrieGlobal(42)}] : S \in Sets}
   \cup {[S -> TrieGlobals] : S \in {{<<1>>, <<1, 2>>}}}

-----------------------------------------------------------------------------
\* OutputSymtab: Images of two objects and up to five symbols for
\* OutputSymtab.

Local(n, o) == [name |-> n, file |-> "obj", obj |-> o, ext |-> FALSE, pext |-> FALSE, sect |-> TRUE, alive |-> TRUE,
                used |-> TRUE, text |-> FALSE, declares |-> {}, coalesced |-> FALSE]
Global(n, o) == [Local(n, o) EXCEPT !.ext = TRUE]
Pext(n, o) == [Global(n, o) EXCEPT !.pext = TRUE]
SymtabImport(n) == [Global(n, 0) EXCEPT !.file = "dylib", !.sect = FALSE]
CommonOf(n, S) == [Global(n, 0) EXCEPT !.declares = S]
Function(s) == [s EXCEPT !.text = TRUE]

Note(ty, n, dead) == [ty |-> ty, name |-> n, dead |-> dead]

\* The notes of an earlier link: of a function and a variable, maybe dead.
Copied(n, dead) ==
    <<Note("END", <<>>, FALSE), Note("SO", <<5>>, FALSE), Note("OSO", <<5, 5>>, FALSE),
      Note("BNSYM", <<>>, dead), Note("FUN", n, dead), Note("SIZE", <<>>, FALSE), Note("ENSYM", <<>>, dead),
      Note("GSYM", <<1, 2>>, FALSE), Note("STSYM", <<1>>, ~dead), Note("END", <<>>, FALSE)>>

Paths == <<<<5>>, <<6>>, <<5, 6>>>>
SymtabPlain == [debug |-> "none", paths |-> Paths, stabs |-> <<>>]
Dwarf == [SymtabPlain EXCEPT !.debug = "dwarf"]
Stabs(n, dead) == [SymtabPlain EXCEPT !.debug = "stabs", !.stabs = Copied(n, dead)]

SymtabImage(S, O) == [syms |-> S, objs |-> O, indirect |-> <<>>, slots |-> {}, stripLocals |-> FALSE, stripDebug |-> FALSE,
                asts |-> <<>>, linkerLocals |-> <<>>, listedOut |-> {}]

First == {Local(<<1, 3, 1>>, 1), Function(Local(<<1>>, 1)), Pext(<<1, 3>>, 1), Function(Global(<<1>>, 1)),
          [Pext(<<1>>, 1) EXCEPT !.sect = FALSE], Local(<<4, 1>>, 1), [Function(Local(<<1>>, 1)) EXCEPT !.alive = FALSE],
          [Function(Global(<<1, 3>>, 1)) EXCEPT !.coalesced = TRUE]}
Second == {Global(<<1, 2>>, 2), Local(<<1, 2>>, 2), CommonOf(<<1, 2>>, {1, 2}), Pext(<<1, 2>>, 2)}

SymbolImages ==
    {[SymtabImage(<<a, b, SymtabImport(<<2>>), [Global(<<1, 1>>, 0) EXCEPT !.sect = FALSE]>>, <<x, y>>) EXCEPT
        !.indirect = ind, !.slots = slots, !.stripLocals = sl, !.asts = asts, !.linkerLocals = ll] :
        a \in First, b \in Second, x \in {SymtabPlain, Dwarf, Stabs(<<1>>, TRUE), Stabs(<<1>>, FALSE)},
        y \in {Dwarf, Stabs(<<1>>, TRUE)}, ind \in {<<>>, <<<<4, 3>>>>}, slots \in {{}, {1, 3}}, sl \in BOOLEAN,
        asts \in {<<>>, <<<<6>>>>}, ll \in {<<>>, <<<<1, 2>>>>}}

\* Names listed out, hidden aliases, two aliases of one import.
AliasImages ==
    {[SymtabImage(<<a, [SymtabImport(<<2, 1>>) EXCEPT !.used = u], Global(<<2>>, 2), al1, al2>>, <<Dwarf, y>>) EXCEPT
        !.indirect = <<<<4, 2>>, <<5, 2>>>>, !.listedOut = lo, !.stripDebug = sd] :
        a \in First, u \in BOOLEAN, y \in {SymtabPlain, Dwarf, Stabs(<<2>>, FALSE)}, lo \in {{}, {1}}, sd \in BOOLEAN,
        al1 \in {[Global(<<1, 1>>, 0) EXCEPT !.sect = FALSE]},
        al2 \in {[Global(<<2, 1>>, 0) EXCEPT !.sect = FALSE], [Pext(<<2, 2>>, 0) EXCEPT !.sect = FALSE]}}

SymtabImages == {SymbolImages, AliasImages}
=============================================================================
