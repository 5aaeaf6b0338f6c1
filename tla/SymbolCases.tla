-------------------------------- MODULE SymbolCases --------------------------------
(***************************************************************************)
(* The small instances of the passes over symbols: the links that          *)
(* MCSymbols resolves, settles the definitions of, and folds, and the      *)
(* Objective-C images that it rewrites.                                    *)
(***************************************************************************)
EXTENDS Integers, Sequences, FiniteSets, TLC, Functions

-----------------------------------------------------------------------------
\* Resolve: The links that TLC explores.  m is on the command line, a and b
\* are the members of two archives, A and B, and x is what LTO makes of
\* bitcode; d and e are dylibs.  Auto-link options of m, a and x name B, E
\* and A. Symbol s varies over every kind of entry, t is what makes one
\* object want another.

ResolveObj == {"m", "a", "b", "x"}
ResolveDylib == {"d", "e"}
ResolveSym == {"s", "t"}
ResolveLib == {"M", "A", "B", "D", "E"}

Name(lib) == [lib |-> lib, force |-> FALSE]
ForceLoad(lib) == [lib |-> lib, force |-> TRUE]

\* The tables of an object: what it says of s and of t.
Tables(ofS, ofT) == {[y \in ResolveSym |-> IF y = "s" THEN k ELSE l] : k \in ofS, l \in ofT}
NoTable == [y \in ResolveSym |-> "none"]

\* The link of objects m, a and b with tables dm, da and db and dylibs that
\* export s as xd and xe say.
ResolveLink(dm, da, db, xd, xe, cmd, hm) ==
    [def |-> [o \in ResolveObj |-> CASE o = "m" -> dm [] o = "a" -> da [] o = "b" -> db
                              [] OTHER -> NoTable],
     export |-> [d \in ResolveDylib |-> [y \in ResolveSym |->
                    CASE y = "t" -> "none" [] d = "d" /\ y # "t" -> xd [] OTHER -> xe]],
     files |-> [l \in ResolveLib |-> CASE l = "M" -> <<"m">> [] l = "A" -> <<"a">>
                                [] l = "B" -> <<"b">> [] l = "D" -> <<"d">>
                                [] OTHER -> <<"e">>],
     cmdline |-> cmd,
     options |-> <<Name("B"), Name("E"), ForceLoad("A")>>,
     hints |-> [o \in ResolveObj |-> CASE o = "m" -> hm [] o = "a" -> {2} [] OTHER -> {}],
     possible |-> <<>>,
     live |-> {"m"}, hidden |-> {}, bitcode |-> {}, ltoOut |-> <<>>,
     merged |-> [y \in ResolveDylib |-> <<>>], rpath |-> {}, weakLib |-> {},
     roots |-> {}, aliased |-> {}, useDylibs |-> FALSE, weakWins |-> FALSE,
     ignoreAutoLink |-> FALSE]

MAD == <<Name("M"), Name("A"), Name("D")>>
MDA == <<Name("M"), Name("D"), Name("A")>>
MADB == <<Name("M"), Name("A"), Name("D"), Name("B")>>

\* Every kind of definition, with the options at their defaults.
PlainLinks ==
    {ResolveLink(dm, da, db, xd, xe, p[1], p[2]) :
        dm \in Tables({"none", "undef", "weakref", "weak", "common1"}, {"none", "undef"}),
        da \in Tables({"none", "strong", "weakHide", "common2", "dropped"}, {"none", "strong"}),
        db \in Tables({"none", "undef", "strong", "weak", "common1"}, {"none", "undef"}),
        xd \in {"none", "strong", "weak"}, xe \in {"none", "strong"},
        p \in {<<MAD, {1}>>, <<MDA, {2}>>, <<MDA, {1, 2}>>, <<MADB, {}>>}}

\* Fewer definitions, with the options one at a time.
Few(cmd, hm) ==
    {ResolveLink(dm, da, db, xd, xe, cmd, hm) :
        dm \in Tables({"undef", "weakref", "common1"}, {"none", "undef"}),
        da \in Tables({"none", "weak", "common2"}, {"strong"}),
        db \in Tables({"undef", "weak", "common1"}, {"none"}),
        xd \in {"none", "weak"}, xe \in {"none", "strong"}}

\* m does not name s: only what it loads does.
LateLinks ==
    {ResolveLink(dm, da, db, xd, "strong", p[1], p[2]) :
        dm \in Tables({"none"}, {"undef"}),
        da \in Tables({"none", "weak"}, {"none", "strong"}),
        db \in Tables({"undef", "weakref", "strong"}, {"none", "strong"}),
        xd \in {"none", "strong"}, p \in {<<MAD, {1}>>, <<MADB, {2}>>}}

OptionLinks ==
    {[l EXCEPT !.roots = {"t"}, !.aliased = {"s"}] : l \in Few(MAD, {})}
    \cup {[l EXCEPT !.hidden = {"a"}] : l \in Few(MAD, {1})}
    \cup {[l EXCEPT !.useDylibs = TRUE] : l \in Few(MAD, {1, 2})}
    \cup {[l EXCEPT !.weakWins = TRUE] : l \in Few(MADB, {2})}
    \cup {[l EXCEPT !.merged.d = <<"e">>, !.export.d = l.export.e, !.rpath = r] :
             l \in Few(MDA, {2}), r \in {{}, {"e"}}}
    \cup {[l EXCEPT !.weakLib = {"d"}] : l \in Few(MAD, {})}
    \cup {[l EXCEPT !.possible = <<Name("B"), Name("E")>>] : l \in Few(MAD, {2})}
    \cup {[l EXCEPT !.ignoreAutoLink = TRUE] : l \in Few(MAD, {1, 2})}
    \cup Few(<<Name("M"), Name("D")>>, {3})

\* m is bitcode, which LTO compiles to x.
LtoLinks ==
    {[l EXCEPT !.bitcode = more, !.ltoOut = <<"x">>, !.def = [@ EXCEPT !["x"] = dx],
               !.hints = [o \in ResolveObj |-> IF o = "x" THEN hx ELSE IF o \in more THEN {} ELSE @[o]]] :
        l \in {ResolveLink(dm, da, db, xd, "strong", MAD, {}) :
                 dm \in Tables({"undef", "weak"}, {"none", "undef"}),
                 da \in Tables({"none", "weak"}, {"strong"}),
                 db \in Tables({"undef", "strong"}, {"none", "undef"}),
                 xd \in {"none", "strong"}},
        dx \in Tables({"undef", "weakref", "weak", "strong"}, {"none", "undef"}),
        hx \in {{}, {1}, {2}}, more \in {{"m"}, {"m", "a"}, {"m", "b"}}}

\* An auto-link option force-loads an archive the command line names.
ForceLinks == Few(MAD, {3})

VariantLinks == LateLinks \cup ForceLinks \cup OptionLinks \cup LtoLinks

\* The families, apart as TLC would sort their union.
ResolveLinks == {PlainLinks, VariantLinks}

-----------------------------------------------------------------------------
\* Definitions: Links of up to three objects and one library for
\* Definitions, a family for each kind of definition.

Args == [relocatable |-> FALSE, output |-> "execute", static |-> FALSE, exportDynamic |-> FALSE,
         deadStrip |-> FALSE, noExports |-> FALSE, hasExported |-> FALSE, exported |-> {}, unexported |-> {},
         forceWeak |-> {}, forceNotWeak |-> {}, reexported |-> {}, aliases |-> <<>>, boundary |-> {},
         initial |-> {"_main"}, dynamicLookup |-> FALSE, allowed |-> {}, labels |-> {},
         commons |-> "ignore_dylibs", removeSwift |-> FALSE, noInits |-> FALSE,
         initOffsets |-> FALSE, noWeakImports |-> FALSE, weakMismatches |-> FALSE, allowDeadDuplicates |-> FALSE,
         poisoned |-> {}, noWeakExports |-> FALSE]

Shared == [Args EXCEPT !.output = "dylib", !.initial = {}]

Def(s, i) == [name |-> s, kind |-> "sect", isec |-> i, off |-> 0, weak |-> FALSE, weakRef |-> FALSE,
              pext |-> FALSE, keep |-> FALSE, align |-> 0]
Weak(s, i) == [Def(s, i) EXCEPT !.weak = TRUE]
Hidable(s, i) == [Weak(s, i) EXCEPT !.weakRef = TRUE]
Undef(s) == [Def(s, 0) EXCEPT !.kind = "undef"]
WeakUndef(s) == [Undef(s) EXCEPT !.weakRef = TRUE]
Common(s, size) == [Def(s, 0) EXCEPT !.kind = "common", !.off = size]
Absolute(s) == [Def(s, 0) EXCEPT !.kind = "abs"]

ToSym(s) == [sym |-> s, isec |-> 0]
ToSec(i) == [sym |-> "", isec |-> i]
Sec(o, rels) == [obj |-> o, kind |-> "code", bytes |-> "", p2align |-> 2, keep |-> FALSE, rels |-> rels]
Object(S) == [live |-> TRUE, profiled |-> FALSE, syms |-> S]
Library(S) == [exports |-> S, weakExports |-> {}, reexported |-> FALSE]

\* An executable has _main; the other names a link uses come from its files.
DefinitionLink(a, O, D, I) ==
    LET named == {m.name : m \in UNION {Range(O[i].syms) : i \in DOMAIN O}}
    IN [args |-> a, objs |-> O, dylibs |-> D, isecs |-> I,
        names |-> named \cup a.initial \cup {"__mh_execute_header", "___dso_handle"}
                  \cup {a.aliases[i][1] : i \in DOMAIN a.aliases} \cup {a.aliases[i][2] : i \in DOMAIN a.aliases},
        used |-> {r.sym : r \in UNION {Range(I[i].rels) : i \in DOMAIN I}} \cup a.initial
                  \cup {a.aliases[i][1] : i \in DOMAIN a.aliases}]

\* Copies of two weak definitions in two objects, at one address or two.
WeakLinks ==
    {DefinitionLink([a EXCEPT !.deadStrip = strip], <<Object(<<Def("_main", 3), x1, y1>>), Object(<<x2, y2>>)>>, <<>>,
          <<Sec(1, <<>>), [Sec(2, <<ToSym("_y")>>) EXCEPT !.p2align = p], Sec(1, <<ToSym("_x"), ToSym("_y")>>)>>) :
        a \in {Args, Shared, [Args EXCEPT !.relocatable = TRUE]}, strip \in BOOLEAN, p \in {2, 3},
        x1 \in {Weak("_x", 1), Hidable("_x", 1), Def("_x", 1)},
        y1 \in {Weak("_y", 1), Hidable("_y", 1), [Weak("_y", 1) EXCEPT !.off = 1], [Weak("_y", 1) EXCEPT !.pext = TRUE]},
        x2 \in {Weak("_x", 2), Hidable("_x", 2), Def("_x", 2)},
        y2 \in {Weak("_y", 2), Hidable("_y", 2), [Weak("_y", 2) EXCEPT !.off = 1]}}

Literal(o, b, p) == [Sec(o, <<>>) EXCEPT !.kind = "literal", !.bytes = b, !.p2align = p]

\* Literals of one or two contents, of any alignment, labeled or not.
LiteralLinks ==
    {DefinitionLink([Args EXCEPT !.labels = l, !.deadStrip = strip],
          <<Object(<<Def("_main", 4), Def("_x", 1)>>), [Object(<<Def("_y", 2)>>) EXCEPT !.live = live]>>, <<>>,
          <<Literal(1, "a", p[1]), Literal(2, b, p[2]), Literal(1, "a", p[3]),
            Sec(1, <<ToSym("_x"), ToSec(3)>>)>>) :
        l \in SUBSET {"_x", "_y"}, strip \in BOOLEAN, live \in BOOLEAN, b \in {"a", "b"},
        p \in {<<0, 2, 1>>, <<1, 0, 2>>, <<2, 2, 2>>, <<0, 1, 1>>}}

\* One exported definition and one import, under every list.
ExportLinks ==
    {DefinitionLink([a EXCEPT !.deadStrip = strip, !.noExports = no, !.hasExported = has, !.exported = exp,
                    !.unexported = unexp, !.reexported = re, !.forceWeak = fw, !.forceNotWeak = {"_x"} \ fw,
                    !.noWeakExports = nwe],
          <<Object(<<Def("_main", 2), x, Undef("_y")>>)>>, <<lib>>,
          <<Sec(1, <<>>), Sec(1, <<ToSym("_y")>>)>>) :
        a \in {Args, Shared}, strip \in BOOLEAN, no \in BOOLEAN, has \in BOOLEAN,
        exp \in {{}, {"_x"}, {"_x", "_y"}}, unexp \in {{}, {"_x"}}, re \in {{}, {"_y"}}, fw \in {{}, {"_x"}},
        nwe \in BOOLEAN,
        x \in {Def("_x", 1), Hidable("_x", 1), [Def("_x", 1) EXCEPT !.pext = TRUE], Absolute("_x")},
        lib \in {Library({"_y"}), [Library({"_y"}) EXCEPT !.reexported = TRUE]}}

\* References nothing defines, aliases, boundary symbols.
UndefinedLinks ==
    {DefinitionLink([a EXCEPT !.deadStrip = strip, !.aliases = al, !.initial = @ \cup u, !.allowed = U,
                    !.dynamicLookup = dl, !.boundary = b, !.static = st],
          <<Object(<<Def("_main", 2), Undef("_x"), d>>)>>, lib,
          <<Sec(1, <<>>), Sec(1, <<ToSym("_x")>>), Sec(1, <<ToSym("_x"), ToSym("_y")>>)>>) :
        a \in {Args, Shared}, strip \in BOOLEAN,
        al \in {<<>>, <<<<"_y", "_x">>>>, <<<<"_y", "_x">>, <<"_x", "_z">>>>, <<<<"_w", "_x">>>>},
        u \in {{}, {"_x"}}, U \in {{}, {"_x"}}, dl \in BOOLEAN, st \in BOOLEAN,
        b \in {{}, {"_x"}}, d \in {Def("_y", 1), Undef("_y")}, lib \in {<<>>, <<Library({"_y"})>>}}

\* Tentative definitions, strong duplicates, imports both weak and strong.
DuplicateLinks ==
    {DefinitionLink([Args EXCEPT !.deadStrip = strip, !.allowDeadDuplicates = add, !.commons = c, !.relocatable = r,
                       !.noWeakImports = nwi, !.weakMismatches = wm, !.poisoned = p],
          <<Object(<<Def("_main", 3), x1, y1>>), Object(<<x2, y2>>)>>, <<Library({"_x", "_y"})>>,
          <<Sec(1, <<>>), Sec(2, <<ToSym("_y")>>), Sec(1, refs)>>) :
        strip \in BOOLEAN, add \in BOOLEAN, c \in {"ignore_dylibs", "use_dylibs", "error"}, r \in BOOLEAN,
        nwi \in BOOLEAN, wm \in BOOLEAN, p \in {{}, {"_y"}},
        x1 \in {Def("_x", 1), Common("_x", 3)}, x2 \in {Def("_x", 2), Common("_x", 8), Undef("_x")},
        y1 \in {Undef("_y"), WeakUndef("_y")}, y2 \in {Undef("_y"), WeakUndef("_y")},
        refs \in {<<ToSym("_y")>>, <<ToSym("_x"), ToSym("_y")>>}}

\* Initializers and reflection metadata.
SpecialLinks ==
    {DefinitionLink([Args EXCEPT !.deadStrip = strip, !.initOffsets = io, !.noInits = no, !.removeSwift = rs, !.dynamicLookup = dl],
          <<[Object(<<Def("_main", 1), Def("_x", 2), u>>) EXCEPT !.profiled = prof]>>, <<>>,
          <<Sec(1, <<>>), Sec(1, <<>>), [Sec(1, <<i>>) EXCEPT !.kind = "init"],
            [Sec(1, <<>>) EXCEPT !.kind = "swift"], [Sec(1, rels) EXCEPT !.keep = TRUE]>>) :
        strip \in BOOLEAN, io \in BOOLEAN, no \in BOOLEAN, rs \in BOOLEAN, dl \in BOOLEAN, prof \in BOOLEAN,
        u \in {Def("_y", 4), Undef("_y")}, i \in {ToSym("_x"), ToSym("_y"), ToSec(2)},
        rels \in {<<>>, <<ToSym("_y")>>, <<ToSec(4)>>}}

DefinitionLinks == {WeakLinks, LiteralLinks, ExportLinks, UndefinedLinks, DuplicateLinks, SpecialLinks}

-----------------------------------------------------------------------------
\* Icf: Links for TLC: five functions of two kinds that call themselves,
\* the next one, the first one or nothing, so chains outlast a round and
\* cycles of any length occur; and links with offsets, exports, function
\* pointers, merged copies and kept functions.

IcfIsec == {0, 1, 2, 3, 4, 5, 6}

Rel(to, off, add, call) == [to |-> to, off |-> off, add |-> add, call |-> call]

IcfLink(body, rels) ==
    [redirect |-> [i \in IcfIsec |-> i], text |-> 0..4, exported |-> {}, insignificant |-> {},
     kept |-> {}, body |-> body, rels |-> rels, p2align |-> [i \in IcfIsec |-> i % 3]]

Calls(to) == IF to = 6 THEN <<>> ELSE <<Rel(to, 0, 0, TRUE)>>

IcfCallGraphs ==
    {IcfLink([i \in IcfIsec |-> IF i = odd THEN 1 ELSE 0],
          [i \in IcfIsec |-> IF i >= 5 THEN <<>> ELSE Calls(to[i + 1])]) :
        to \in {0, 1, 6} \X {0, 1, 2, 6} \X {0, 2, 3, 6} \X {0, 3, 4, 6} \X {0, 1, 4, 6},
        odd \in {4, 5}}

\* Chains of six, which take three rounds.
IcfChains ==
    {[IcfLink([i \in IcfIsec |-> 0],
           [i \in IcfIsec |-> CASE i < 5 -> Calls(IF i = 4 THEN 6 ELSE i + 1)
                             [] i = 5 -> Calls(last) [] OTHER -> <<>>])
      EXCEPT !.text = 0..5] : last \in {0, 2, 4, 5}}
    \cup {[IcfLink([i \in IcfIsec |-> 0], [i \in IcfIsec |-> IF i < 5 THEN Calls(i + 1) ELSE <<>>])
            EXCEPT !.text = 0..5]}

IcfKinds ==
    {[IcfLink([i \in IcfIsec |-> 0],
           [i \in IcfIsec |-> CASE i \in {0, 1} -> <<Rel(a[i + 1], b[i + 1], c[i + 1], TRUE)>>
                             [] i = 5 -> pointers
                             [] OTHER -> <<>>])
      EXCEPT !.exported = exported, !.insignificant = hidden, !.kept = kept,
             !.redirect = [i \in IcfIsec |-> IF i = 4 THEN copy ELSE i]] :
        a \in ({2, 3, 9} \X {2, 3, 4, 9}), b \in {<<0, 0>>, <<0, 1>>, <<1, 0>>}, c \in ({0} \X {0, 1}),
        pointers \in {<<>>, <<Rel(2, 0, 0, FALSE), Rel(3, 0, 0, FALSE)>>},
        exported \in {{}, {2}, {0, 1}}, hidden \in {{}, {0, 3}}, kept \in {{}, {3}}, copy \in {4, 2, 3}}

IcfLinks == IcfCallGraphs \cup IcfChains \cup IcfKinds

-----------------------------------------------------------------------------
\* Objc: images of a class with categories, and images of references and
\* the code that loads through them.

Nil == [to |-> "data", id |-> 0, off |-> 0]
Num(n) == [Nil EXCEPT !.id = n]
To(i) == [to |-> "isec", id |-> i, off |-> 0]
ToPlace(i, off) == [To(i) EXCEPT !.off = off]
SymRef(s) == [to |-> "sym", id |-> s, off |-> 0]

Subsec(file, sect, words) ==
    [sect |-> sect, file |-> file, alive |-> TRUE, repl |-> 0, align |-> 3, labeled |-> FALSE,
     words |-> words, code |-> <<>>]
Code(file, rels) == [Subsec(file, "text", <<>>) EXCEPT !.code = rels]
Instr(ty, load, ref) == [ty |-> ty, load |-> load, ref |-> ref]

\* Symbols: an imported class, two message stubs, _objc_msgSend, a class, an
\* imported protocol and a local label.
UndefinedSym == [isec |-> 0, value |-> 0, file |-> "none", imported |-> FALSE, used |-> TRUE,
                 sel |-> 0, idx |-> 0, got |-> FALSE, stub |-> FALSE]
ImportedSym == [UndefinedSym EXCEPT !.file = "dylib", !.imported = TRUE]
DefinedSym(i, value) == [UndefinedSym EXCEPT !.file = "obj", !.isec = i, !.value = value]
ObjcSyms(class, value, label) ==
    <<ImportedSym, [UndefinedSym EXCEPT !.sel = 2], UndefinedSym, DefinedSym(class, value), ImportedSym,
      IF label = 0 THEN ImportedSym ELSE DefinedSym(label, 0), [UndefinedSym EXCEPT !.sel = 1]>>

ObjcLink(subsecs, symbols) ==
    [isecs |-> subsecs, syms |-> symbols, msgSend |-> 3, libobjc |-> TRUE, dead |-> {}, strips |-> FALSE,
     small |-> FALSE, folds |-> FALSE, relative |-> TRUE, merges |-> TRUE]
-----------------------------------------------------------------------------
\* A class C (6) of object 1 with a category K1 (14) there and one, K2 (29),
\* of object 2; a category KE (19) of the imported class; a protocol (20).
\* Selectors are 1, 2 and 9, +load; each method has an implementation of its
\* own in 5.

Method(sel, imp) == <<To(IF sel = 9 THEN 3 ELSE sel), Nil, ToPlace(5, 8 * imp)>>
MethodList(form, methods) ==
    <<[Num(Len(methods) \div 3) EXCEPT !.off = form]>> \o methods
PointerList(refs, each) == <<[Num(Len(refs) \div each) EXCEPT !.off = 1]>> \o refs
Loading(who, p, imp) == IF who \in p.loads THEN Method(9, imp) ELSE <<>>
Present(x, ref) == IF x THEN ref ELSE Nil

ClassAt(p) == IF p.shape = "inner" THEN 16 ELSE 0
RoAt(p) == IF p.shape = "inner" THEN 16 ELSE 0
ClassWords(p, isa, ro) ==
    <<isa, Nil, Nil, Nil, ToPlace(ro, RoAt(p) + (IF p.shape = "plain" THEN 0 ELSE 2))>>
RoWords(p, methods, protocols, props) ==
    LET flags == [Num(0) EXCEPT !.off = IF p.shape = "swift" THEN 1 ELSE 0]
        record == <<flags, Nil, Nil, To(4), methods, protocols, Nil, Nil, props>>
        inner == IF p.shape = "inner" THEN <<Nil, Nil>> ELSE <<>>
    IN  CASE p.shape = "swift" -> Append(record, ToPlace(5, 160))
          [] p.shape = "short" -> SubSeq(record, 1, 8)
          [] OTHER -> inner \o record
CategoryWords(p, cls, im, cm, protocols, props) ==
    <<To(4), cls, To(im), To(cm), protocols, props>> \o (IF p.older THEN <<>> ELSE <<props>>)

CategoryLink(p) ==
    LET class == SymRef(4)
        proto == CASE p.proto = "local" -> To(17) [] p.proto = "import" -> To(32) [] OTHER -> Nil
        subsecs == <<
            Subsec(1, "str", <<Num(1)>>), Subsec(1, "str", <<Num(2)>>), Subsec(1, "str", <<Num(9)>>),
            Subsec(1, "str", <<Num(7)>>), Code(1, <<>>),
            Subsec(1, "data", (IF p.shape = "inner" THEN <<Nil, Nil>> ELSE <<>>) \o ClassWords(p, To(7), 8)),
            Subsec(1, "data", ClassWords(p, To(7), 9)),
            Subsec(1, "const", RoWords(p, To(10), To(12), To(13))),
            Subsec(1, "const", RoWords(p, Present("C" \in p.loads, To(11)), To(12), Nil)),
            Subsec(1, "const", MethodList(1, Method(1, 1) \o Method(2, 2))),
            Subsec(1, "const", MethodList(1, Loading("C", p, 3))),
            Subsec(1, "const", PointerList(<<To(20)>>, 1)),
            Subsec(1, "const", PointerList(<<To(1), To(4)>>, 2)),
            Subsec(1, "const", CategoryWords(p, class, 15, 16, proto, To(18))),
            Subsec(1, "const", MethodList(p.form, Method(p.s1, 4))),
            Subsec(1, "const", MethodList(1, Method(1, 5) \o Loading("K1", p, 6))),
            Subsec(1, "const", PointerList(<<To(20)>>, 1)),
            Subsec(1, "const", PointerList(<<To(2), Nil>>, 2)),
            Subsec(1, "const", CategoryWords(p, SymRef(1), 21, 21, Nil, Nil)),
            Subsec(1, "data", <<Nil, To(4), Nil, To(21), Nil, Nil, Nil>>),
            Subsec(1, "const", MethodList(1, Method(2, 7))),
            Subsec(1, "classlist", <<SymRef(4)>>),
            Subsec(1, "nlclslist", IF "C" \in p.loads THEN <<SymRef(4)>> ELSE <<>>),
            Subsec(1, "catlist", IF p.foreign THEN <<To(19), To(14)>> ELSE <<To(14)>>),
            Subsec(1, "nlcatlist", IF "K1" \in p.loads THEN <<To(14)>> ELSE <<>>),
            Subsec(1, "protolist", <<To(20)>>),
            Subsec(1, IF p.selref THEN "selrefs" ELSE "data", <<To(1)>>),
            Code(1, <<Instr("call", FALSE, SymRef(2))>>),
            Subsec(2, "const", CategoryWords(p, p.cls2, 30, 31, Nil, Nil)),
            Subsec(2, "const", MethodList(1, Method(p.s2, 8))),
            Subsec(2, "const", MethodList(1, Method(1, 9) \o Loading("K2", p, 10))),
            Subsec(2, "const", PointerList(<<SymRef(5)>>, 1)),
            Subsec(2, "catlist", <<To(29)>>),
            Subsec(2, "nlcatlist", IF "K2" \in p.loads THEN <<To(29)>> ELSE <<>>),
            Code(2, <<Instr("call", FALSE, SymRef(7))>>)>>
    IN  [ObjcLink(subsecs, ObjcSyms(6, ClassAt(p), 0)) EXCEPT
            !.relative = p.relative, !.merges = p.merges, !.strips = p.strips # {}, !.dead = p.strips,
            !.small = p.strips # {}]

PlainCategories ==
    [loads |-> {}, shape |-> "plain", form |-> 1, cls2 |-> SymRef(4), foreign |-> TRUE, proto |-> "local",
     s1 |-> 1, s2 |-> 2, older |-> FALSE, selref |-> TRUE, relative |-> TRUE, merges |-> TRUE, strips |-> {}]

\* Who has a +load, and which method overrides which.
LoadCategories ==
    {CategoryLink([PlainCategories EXCEPT !.loads = who, !.relative = rel, !.shape = shape, !.s1 = s1, !.s2 = s2]) :
        who \in SUBSET {"C", "K1", "K2"}, rel \in BOOLEAN, shape \in {"plain", "swift", "inner", "short"},
        s1 \in {1, 2}, s2 \in {1, 2}}
\* Lists of every form, and categories that stay.
ListCategories ==
    {CategoryLink([PlainCategories EXCEPT !.form = form, !.cls2 = cls, !.foreign = foreign, !.proto = proto,
                                          !.older = older, !.selref = selref, !.relative = rel]) :
        form \in 1 .. 3, cls \in {SymRef(4), SymRef(1)}, foreign \in BOOLEAN,
        proto \in {"none", "local", "import"}, older \in BOOLEAN, selref \in BOOLEAN, rel \in BOOLEAN}
\* Stubs that only dead code calls, and categories that are not merged.
StripCategories ==
    {CategoryLink([PlainCategories EXCEPT !.strips = dead, !.merges = merges, !.selref = selref, !.relative = rel]) :
        dead \in SUBSET {28, 35}, merges \in BOOLEAN, selref \in BOOLEAN, rel \in BOOLEAN}
-----------------------------------------------------------------------------
\* References of two objects to a class C (2), the imported class, a selector
\* and a constant string; instructions that load through a slot, load twice
\* through one page, or take its address.

PageHalf(ref) == Instr("page", FALSE, ref)
LoadHalf(ref) == Instr("pageoff", TRUE, ref)
AddHalf(ref) == Instr("pageoff", FALSE, ref)
Uses(how, ref) ==
    CASE how = "none" -> <<>>
      [] how = "load" -> <<PageHalf(ref), LoadHalf(ref)>>
      [] how = "twice" -> <<PageHalf(ref), LoadHalf(ref), LoadHalf(ref)>>
      [] how = "both" -> <<PageHalf(ref), LoadHalf(ref), AddHalf(ref)>>
      [] how = "again" -> <<PageHalf(ref), LoadHalf(ref), PageHalf(ref), LoadHalf(ref)>>
      [] OTHER -> <<PageHalf(ref), AddHalf(ref)>>
\* The halves of two addresses, mixed.
Mixed(a, b) == IF Len(a) = 2 /\ Len(b) = 2 THEN <<a[1], b[1], a[2], b[2]>> ELSE a \o b

ReferenceLink(p) ==
    LET string(k) == <<SymRef(1), Num(8), To(k), Num(1)>>
        subsecs == <<
            Subsec(1, "str", <<Num(1)>>), Subsec(1, "data", <<Num(3)>>),
            Subsec(1, "selrefs", <<To(1)>>), Subsec(1, "classrefs", <<SymRef(4)>>),
            Subsec(1, "classrefs", <<SymRef(1)>>), Subsec(1, "superrefs", <<SymRef(4)>>),
            Subsec(1, "cfstring", string(9)),
            Code(1, Mixed(Uses(p.c, To(4)), Uses(p.d1, To(5))) \o Uses("load", To(3)) \o Uses("load", To(6))
                    \o Uses("add", To(7))),
            Subsec(1, "str", <<Num(4)>>),
            Subsec(1, "data", IF p.pointer THEN <<To(5)>> ELSE <<Nil>>),
            [Subsec(2, "str", <<Num(1)>>) EXCEPT !.repl = 1],
            [Subsec(2, "selrefs", <<To(11)>>) EXCEPT !.align = 4],
            Subsec(2, "classrefs", <<SymRef(1)>>), Subsec(2, "classrefs", <<SymRef(4)>>),
            [Subsec(2, "superrefs", <<To(2)>>) EXCEPT !.labeled = p.labeled],
            Subsec(2, "cfstring", IF p.differ THEN [string(18) EXCEPT ![4] = Num(2)] ELSE string(18)),
            Code(2, Uses(p.d2, SymRef(6)) \o Uses("load", To(12)) \o Uses("load", To(15)) \o Uses("add", To(16))),
            [Subsec(2, "str", <<Num(4)>>) EXCEPT !.repl = 9]>>
    IN  [ObjcLink(subsecs, ObjcSyms(2, 0, 13)) EXCEPT !.folds = p.folds, !.strips = TRUE]

ReferenceLinks ==
    {ReferenceLink([c |-> c, d1 |-> d1, d2 |-> d2, pointer |-> pointer, labeled |-> odd, differ |-> odd, folds |-> folds]) :
        c \in {"none", "load", "add"}, d1 \in {"none", "load", "twice", "again", "both"},
        d2 \in {"none", "load", "twice", "add"}, pointer \in BOOLEAN, odd \in BOOLEAN, folds \in BOOLEAN}

ObjcLinks == {LoadCategories, ListCategories, StripCategories, ReferenceLinks}
=============================================================================
