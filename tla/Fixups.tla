------------------------------- MODULE Fixups -------------------------------
(***************************************************************************)
(* What an image tells dyld about the pointers to fill in: the rebase and  *)
(* bind opcodes, the fixup chains with their import table, or the          *)
(* relocations and the indirect symbol table of a kext and of legacy       *)
(* LINKEDIT.  Everything is a function of the slots and references the     *)
(* passes before left (Bindings).                                          *)
(*                                                                         *)
(* Addresses count words.  Byte encodings (ULEB, the bits of an entry) are *)
(* left out, but for the width of a chained import's library ordinal.      *)
(***************************************************************************)
EXTENDS SymbolBinding

CONSTANTS
    NameOrder,     \* every symbol name, in byte order
    MaxInline,     \* the largest addend a chained bind holds inline
    MaxAddend32,   \* the largest addend of the narrow import formats
    NarrowBits,    \* the width of an ordinal in the narrow import formats
    WideBits,      \* and in the wide one
    PageWords      \* the words of a page, in which a chain stays

VARIABLES
    refs,        \* the relocations of the emitted subsections
    got,         \* the symbols with a __got slot, in slot order
    stubs,       \* the symbols with a __stubs entry, in stub order
    lazyStubs    \* the stubs bound lazily: indexes into stubs

Names == Range(NameOrder)
Rank(s) == CHOOSE i \in DOMAIN NameOrder : NameOrder[i] = s
ByName(S) == SelectSeq(NameOrder, LAMBDA s : s \in S)
IndexOf(seq, x) == CHOOSE i \in DOMAIN seq : seq[i] = x
AddOnce(seq, x) == IF x \in Range(seq) THEN seq ELSE Append(seq, x)

-----------------------------------------------------------------------------
(* The addresses of the pointers, in words.                                *)

Segment(start, size) == [start |-> start, size |-> size]
Segments == <<Segment(0, 8), Segment(8, 8), Segment(16, 16)>>
GotAddr(i) == 8 + i - 1
LazyPtrAddr(i) == 16 + i - 1
DataAddr(i) == 24 + i - 1
SegOf(addr) == CHOOSE n \in DOMAIN Segments :
                   addr \in Segments[n].start .. (Segments[n].start + Segments[n].size - 1)

Pointers == {i \in DOMAIN refs : refs[i].kind = "ptr"}
Sorted(S) == SetToSortSeq(S, LAMBDA a, b : a < b)

\* rebase_locations of the output sections, the lazy pointers and the GOT.
RebaseLocations ==
    {DataAddr(i) : i \in {j \in Pointers : ~BindsPointer(refs[j].sym) /\ ~IsAbsolute(refs[j].sym)
                                           /\ ~refs[j].tls}}
    \cup {LazyPtrAddr(i) : i \in DOMAIN lazyStubs}
    \cup {GotAddr(i) : i \in {j \in DOMAIN got : ~args.legacy /\ ~BindsAsImport(got[j]) /\ ~IsAbsolute(got[j])}}

\* rebase_info::rebase_ops over sorted addresses: set the segment when the
\* address leaves it, else add a distance, and count runs of pointers.
RebaseOps(locs) ==
    FoldLeft(LAMBDA st, addr :
        LET leaves == addr < st.segStart \/ st.segEnd <= addr
            seg == Segments[SegOf(addr)]
        IN IF leaves
           THEN [ops |-> st.ops \o << <<"seg", SegOf(addr), addr - seg.start>>, <<"rebase", 1>> >>,
                 segStart |-> seg.start, segEnd |-> seg.start + seg.size, cur |-> addr + 1]
           ELSE IF addr # st.cur
           THEN [st EXCEPT !.ops = @ \o << <<"add", addr - st.cur>>, <<"rebase", 1>> >>, !.cur = addr + 1]
           ELSE [st EXCEPT !.ops[Len(st.ops)] = <<"rebase", st.ops[Len(st.ops)][2] + 1>>, !.cur = addr + 1],
        [ops |-> <<>>, segStart |-> 0, segEnd |-> 0, cur |-> 0], locs).ops

BoundSyms(binds) == {b.sym : b \in Range(binds)}

\* bind_info::bind_ops: each piece of the bind machine's state is set only
\* when it changes.  A bind is [addr, sym, addend]; ordinal and flag give each
\* symbol's.
BindOps(binds, ordinal, flag) ==
    FoldLeft(LAMBDA st, b :
        LET ord == IF ordinal[b.sym] = st.ord THEN <<>> ELSE << <<"dylib", ordinal[b.sym]>> >>
            name == IF <<b.sym, flag[b.sym]>> = st.name THEN <<>> ELSE << <<"symbol", b.sym, flag[b.sym]>> >>
            seg == SegOf(b.addr)
            place == IF st.seg # 0 /\ b.addr = st.cur THEN <<>>
                     ELSE IF st.seg = seg THEN << <<"add", b.addr - st.cur>> >>
                     ELSE << <<"seg", seg, b.addr - Segments[seg].start>> >>
            addend == IF b.addend = st.addend THEN <<>> ELSE << <<"addend", b.addend>> >>
        IN [ops |-> st.ops \o ord \o name \o place \o addend \o << <<"bind">> >>,
            ord |-> ordinal[b.sym], name |-> <<b.sym, flag[b.sym]>>,
            seg |-> IF st.seg # 0 /\ b.addr = st.cur THEN st.seg ELSE seg,
            cur |-> b.addr + 1, addend |-> b.addend],
        [ops |-> <<>>, ord |-> -9, name |-> <<>>, seg |-> 0, cur |-> 0, addend |-> 0], binds).ops

-----------------------------------------------------------------------------
(* Classic dyld info.                                                      *)

\* The pointers dyld fills in with an import's address, by library, name,
\* addend and address.
Binds ==
    LET all == {[addr |-> GotAddr(i), sym |-> got[i], addend |-> 0] :
                    i \in {j \in DOMAIN got : BindsAsImport(got[j])}}
               \cup {[addr |-> DataAddr(i), sym |-> refs[i].sym, addend |-> refs[i].addend] :
                    i \in {j \in Pointers : BindsAsImport(refs[j].sym)}}
        key(b) == <<BindOrdinal(b.sym), Rank(b.sym), b.addend, b.addr>>
        before(k, l) == \E n \in 1..4 : k[n] < l[n] /\ \A m \in 1..(n - 1) : k[m] = l[m]
    IN SetToSortSeq(all, LAMBDA a, b : before(key(a), key(b)))

\* The slots dyld rewrites if another image's copy wins coalescing.
WeakBinds ==
    LET weak(s) == BindsWeakLookup(s) \/ IsWeakCoalesced(s)
        all == {[addr |-> GotAddr(i), sym |-> got[i], addend |-> 0] : i \in {j \in DOMAIN got : weak(got[j])}}
               \cup {[addr |-> DataAddr(i), sym |-> refs[i].sym, addend |-> 0] :
                    i \in {j \in Pointers : weak(refs[j].sym)}}
    IN SetToSortSeq(all, LAMBDA a, b : Rank(a.sym) < Rank(b.sym) \/ (a.sym = b.sym /\ a.addr < b.addr))

WeakOverrides == ByName({s \in Names : OverridesWeakExport(s)})

WeakFlag(s) == syms[s].weakRef

\* A record per lazily bound stub.
LazyBinds ==
    [i \in DOMAIN lazyStubs |->
        LET s == stubs[lazyStubs[i]]
        IN [addr |-> LazyPtrAddr(i), ord |-> BindOrdinal(s), sym |-> s, weak |-> WeakFlag(s)]]

Opcodes ==
    [format |-> "opcodes",
     rebase |-> IF IsNeverSlid THEN <<>> ELSE RebaseOps(Sorted(RebaseLocations)),
     bind |-> BindOps(Binds, [s \in BoundSyms(Binds) |-> BindOrdinal(s)],
                      [s \in BoundSyms(Binds) |-> WeakFlag(s)]),
     weak |-> BindOps(WeakBinds, [s \in Names |-> WEAK_LOOKUP], [s \in Names |-> FALSE]),
     overrides |-> WeakOverrides,
     lazy |-> LazyBinds]

-----------------------------------------------------------------------------
(* Fixup chains.                                                           *)

NoSym == "rebase"
NoNext == 0

\* The fixups, by address: a bind names its symbol, a rebase none.
CollectFixups ==
    LET skip(s) == IsAbsolute(s) /\ ~BindsAtRuntime(s)
        bind(s) == BindsAtRuntime(s) \/ BindsToSelf(s)
        data == {i \in Pointers : ~skip(refs[i].sym) /\ (bind(refs[i].sym) \/ ~refs[i].tls)}
        all == {LET s == refs[i].sym
                IN IF bind(s) THEN [addr |-> DataAddr(i), sym |-> s, addend |-> refs[i].addend]
                   ELSE [addr |-> DataAddr(i), sym |-> NoSym, addend |-> 0] : i \in data}
               \cup {[addr |-> GotAddr(i), sym |-> IF BindsAtRuntime(got[i]) THEN got[i] ELSE NoSym,
                      addend |-> 0] : i \in {j \in DOMAIN got : ~skip(got[j])}}
    IN SetToSortSeq({f \in all : IsNeverSlid => f.sym # NoSym}, LAMBDA a, b : a.addr < b.addr)

TableAddend(addend) == IF addend <= MaxInline THEN 0 ELSE addend

\* An entry per symbol and table addend, as the binds first name them.
ImportTable(fx) ==
    FoldLeft(LAMBDA table, f : IF f.sym = NoSym THEN table
                               ELSE AddOnce(table, <<f.sym, TableAddend(f.addend)>>), <<>>, fx)

\* import_format: the width the entries' ordinals have.
OrdinalBits(imports) ==
    IF \A i \in DOMAIN imports : imports[i][2] <= MaxAddend32 THEN NarrowBits ELSE WideBits

ImportOrdinal(s) ==
    CASE syms[s].kind \in {"dylib", "flat"} /\ ~BindsWeakLookup(s) -> BindOrdinal(s)
      [] syms[s].kind = "obj" /\ BindsToSelf(s) -> SELF
      [] IsInterposableExport(s) /\ ~BindsWeakLookup(s) /\ ~BindsToSelf(s) -> ExportBindOrdinal
      [] OTHER -> WEAK_LOOKUP

WriteImports(imports) ==
    [i \in DOMAIN imports |->
        [sym |-> imports[i][1], addend |-> imports[i][2], weak |-> WeakFlag(imports[i][1]),
         ord |-> ImportOrdinal(imports[i][1]) % 2^OrdinalBits(imports)]]

SegmentFixups(fx, seg) ==
    SelectSeq(fx, LAMBDA f : seg.start <= f.addr /\ f.addr < seg.start + seg.size)
PageOf(addr, seg) == (addr - seg.start) \div PageWords

\* write_starts_in_image: the first fixup of every page, if it has any.
PageStarts(fx) ==
    [n \in DOMAIN Segments |->
        LET seg == Segments[n]
            in == SegmentFixups(fx, seg)
            first(p) == SelectSeq(in, LAMBDA f : PageOf(f.addr, seg) = p)
        IN IF in = <<>> THEN <<>>
           ELSE [p \in 1 .. PageOf(in[Len(in)].addr, seg) + 1 |->
                    IF first(p - 1) = <<>> THEN NoNext ELSE first(p - 1)[1].addr]]

\* write_fixup_chains: each word's import or target and its distance to
\* the next fixup of its page.
ChainWords(fx, imports) ==
    [a \in {fx[i].addr : i \in DOMAIN fx} |->
        LET i == CHOOSE j \in DOMAIN fx : fx[j].addr = a
            seg == Segments[SegOf(a)]
            follows == /\ i < Len(fx) /\ SegOf(fx[i + 1].addr) = SegOf(a)
                       /\ PageOf(fx[i + 1].addr, seg) = PageOf(a, seg)
            f == fx[i]
        IN [next |-> IF follows THEN fx[i + 1].addr - a ELSE NoNext,
            import |-> IF f.sym = NoSym THEN 0
                       ELSE CHOOSE n \in DOMAIN imports : imports[n] = <<f.sym, TableAddend(f.addend)>>,
            inline |-> IF f.addend <= MaxInline THEN f.addend ELSE 0]]

Chains ==
    LET fx == CollectFixups
        imports == ImportTable(fx)
    IN [format |-> "chains", bits |-> OrdinalBits(imports), imports |-> WriteImports(imports),
        starts |-> PageStarts(fx), words |-> ChainWords(fx, imports)]

-----------------------------------------------------------------------------
(* Relocations, for a kext and in legacy LINKEDIT.                         *)

LocalRelocs == Sorted(RebaseLocations)

ExternRelocs ==
    LET binds(s) == IF args.legacy THEN BindsPointer(s) ELSE syms[s].imported
        call(r) == r.kind = "branch" /\ r.sym \notin Range(stubs)
    IN (IF args.legacy THEN {}
        ELSE {[addr |-> GotAddr(i), sym |-> got[i]] : i \in {j \in DOMAIN got : syms[got[j]].imported}})
       \cup {[addr |-> DataAddr(i), sym |-> refs[i].sym] :
                i \in {j \in DOMAIN refs : binds(refs[j].sym) /\ (refs[j].kind = "ptr" \/ call(refs[j]))}}

\* The symbol each indirect slot is bound to, or NoSym for one filled in
\* by the linker.
IndirectSymbols ==
    [got |-> [i \in DOMAIN got |-> IF BindsAtRuntime(got[i]) THEN got[i] ELSE NoSym],
     lazy |-> [i \in DOMAIN lazyStubs |-> stubs[lazyStubs[i]]]]

Relocations ==
    [format |-> IF args.legacy THEN "legacy" ELSE "kext",
     local |-> IF args.legacy /\ IsNeverSlid THEN <<>> ELSE LocalRelocs,
     extern |-> ExternRelocs, indirect |-> IndirectSymbols]
=============================================================================
