------------------------------- MODULE Staging -------------------------------
(***************************************************************************)
(* What the linker reads of one object file (macho/input_files.rs,         *)
(* stage_object; arch/arm64.rs, read_relocs): its sections split into      *)
(* subsections, its relocations handed to them, its symbols placed and its *)
(* unwind information tied to its functions. All of it is a function of    *)
(* the object, of no other state.                                          *)
(*                                                                         *)
(* Addresses and sizes count 4-byte words. An object has split             *)
(* (MH_SUBSECTIONS_VIA_SYMBOLS), hdrs (its sections: seg, sect, type,      *)
(* code, addr, size; nuls, the places of a string section's NULs; rels,    *)
(* its raw relocations; entries of __compact_unwind; frames of             *)
(* __eh_frame), syms (name, sect - 0 if undefined -, value, ext, pext,     *)
(* stab, alt, weak), dysym (the lengths of its three runs of symbols, <<>> *)
(* if it names none) and indirect.                                         *)
(***************************************************************************)
EXTENDS Integers, Sequences, FiniteSets, SequencesExt

CONSTANT Dwarf     \* the encodings from here on are of DWARF mode

NoIsec == 0

Last0(S) == IF S = {} THEN 0 ELSE CHOOSE x \in S : \A y \in S : y <= x

\* A stable sort: the places of `s`, by `key` and then as they are.
SortedPlaces(n, key(_)) ==
    SortSeq([i \in 1..n |-> i], LAMBDA a, b : key(a) < key(b) \/ (key(a) = key(b) /\ a < b))

(***************************************************************************)
(* Sections                                                                *)
(***************************************************************************)
IsDiscarded(h) == h.seg \in {"__DWARF", "__LD"}

Is(h, seg, sect) == h.seg = seg /\ h.sect = sect

PointerLists == {"__objc_classrefs", "__objc_superrefs", "__objc_protorefs", "__got"}

IsPointerList(h) == h.sect \in PointerLists

DataRecords == PointerLists \union
    {"__objc_classlist", "__objc_catlist", "__objc_nlclslist", "__objc_protolist", "__objc_selrefs"}

\* The size of the records of a section of them, 0 for another section.
RecordSize(h) ==
    CASE h.seg = "__DATA" /\ h.sect \in DataRecords -> 2
      [] h.seg = "__DATA" /\ h.sect \in {"__auth_ptr", "__lazy_load_got"} /\ h.type = "regular" -> 2
      [] (Is(h, "__DATA", "__cfstring") \/ Is(h, "__LD", "__compact_unwind")) /\ h.type = "regular" -> 8
      [] h.type = "literal4" -> 1
      [] h.type = "literal8" -> 2
      [] h.type = "literal16" -> 4
      [] h.type \in {"nonlazy", "init", "term"} -> 2
      [] h.type = "tlv" -> 6
      [] OTHER -> 0

UnreadableSection(o) ==
    \E h \in Range(o.hdrs) :
        \/ RecordSize(h) # 0 /\ h.size % RecordSize(h) # 0
        \/ o.indirect /\ h.type \in {"lazy", "nonlazy"}

IsLiteralSection(h) ==
    \/ h.type \in {"cstring", "literal4", "literal8", "literal16", "literalptrs"}
    \/ h.seg = "__DATA" /\ (h.sect = "__cfstring" \/ IsPointerList(h))

IsUnnamedList(h) ==
    h.seg = "__DATA" /\ h.sect \in {"__objc_classlist", "__objc_nlclslist", "__objc_catlist"}

HasUnnamedSubsecs(h, split) ==
    \/ Is(h, "__TEXT", "__ustring") /\ split
    \/ Is(h, "__DATA", "__objc_selrefs") /\ h.type = "literalptrs"
    \/ h.seg = "__DATA" /\ h.sect \in {"__cfstring", "__objc_classrefs", "__objc_arrayobj"}
    \/ h.seg = "__DATA" /\ h.sect \in {"__objc_superrefs", "__objc_protorefs"} /\ h.type = "literalptrs"

IsCodeSection(h) == h.code \/ Is(h, "__TEXT", "__text")

\* Sections read for what they say, none of whose bytes are copied.
IsConsumed(h) ==
    \/ IsDiscarded(h)
    \/ Is(h, "__TEXT", "__eh_frame")
    \/ Is(h, "__DATA", "__objc_imageinfo")
    \/ Is(h, "__DATA", "__llvm_addrsig")

(***************************************************************************)
(* Symbols                                                                 *)
(***************************************************************************)
IsLocal(m) == m.stab \/ ~m.ext

InSection(m) == ~m.stab /\ m.sect # 0

\* How many locals come before the first external symbol, -1 if the table
\* is not locals, then externals.
FirstGlobal(o) ==
    LET n     == Len(o.syms)
        first == Cardinality({i \in 1..n : \A j \in 1..i : IsLocal(o.syms[j])})
    IN  CASE o.dysym # <<>> /\ o.dysym[1] + o.dysym[2] + o.dysym[3] = n -> o.dysym[1]
          [] \A j \in first + 1..n : ~IsLocal(o.syms[j]) -> first
          [] OTHER -> -1

\* The sections left out: without bytes, and with no symbol to name them.
Bare(o) ==
    {i \in DOMAIN o.hdrs :
        /\ o.hdrs[i].size = 0
        /\ ~\E m \in Range(o.syms) : InSection(m) /\ m.sect = i /\ ~(o.split /\ m.name = "ltmp")}

\* An external symbol of one of the sections `demoted`.
InDemoted(m, demoted) == InSection(m) /\ m.ext /\ m.sect \in demoted

\* The symbols once those of unnamed subsections are private externals, and
\* those of thread-local zero-fill plain locals, and where the externals
\* start then.
DemotedSyms(o) ==
    LET unnamed  == {i \in DOMAIN o.hdrs : IsUnnamedList(o.hdrs[i]) \/ HasUnnamedSubsecs(o.hdrs[i], o.split)}
        zerofill == {i \in DOMAIN o.hdrs : o.hdrs[i].type = "tlvbss"}
        syms == [i \in DOMAIN o.syms |->
                    LET m == o.syms[i]
                    IN  CASE InDemoted(m, unnamed) -> [m EXCEPT !.ext = FALSE, !.pext = TRUE]
                          [] InDemoted(m, zerofill) ->
                                [m EXCEPT !.ext = FALSE, !.pext = FALSE, !.weak = FALSE]
                          [] OTHER -> m]
    IN  [syms |-> syms, first |-> IF syms = o.syms THEN FirstGlobal(o) ELSE -1]

LocalRange(st) == 1..(IF st.first = -1 THEN Len(st.syms) ELSE st.first)

GlobalRange(st) == (IF st.first = -1 THEN 1 ELSE st.first + 1)..Len(st.syms)

(***************************************************************************)
(* Subsections                                                             *)
(***************************************************************************)
SymbolSplitPoints(o, i) ==
    IF ~o.split THEN {} ELSE {m.value : m \in {n \in Range(o.syms) : InSection(n) /\ n.sect = i /\ ~n.alt}}

Every(h, step) == {h.addr + k : k \in {n \in 0..h.size - 1 : n % step = 0}}

LiteralSplitPoints(h) ==
    CASE h.type = "cstring"   -> {h.addr + k : k \in {n \in 0..h.size - 1 : n = 0 \/ n - 1 \in h.nuls}}
      [] h.type = "literal4"  -> Every(h, 1)
      [] h.type = "literal8"  -> Every(h, 2)
      [] h.type = "literal16" -> Every(h, 4)
      [] h.type = "literalptrs" \/ IsPointerList(h) -> Every(h, 2)
      [] OTHER -> Every(h, 8)

SplitPoints(o, i) ==
    LET h == o.hdrs[i]
        points == (IF IsLiteralSection(h) THEN LiteralSplitPoints(h) ELSE SymbolSplitPoints(o, i))
                     \union (IF h.type \in {"init", "term", "nonlazy"} THEN Every(h, 2) ELSE {})
                     \union {h.addr}
    IN  {a \in points : h.addr <= a /\ a <= h.addr + h.size}

\* The subsections of section i, in order of address.
SectionSubsecs(o, i) ==
    LET h == o.hdrs[i]
        points == SetToSortSeq(SplitPoints(o, i), <)
        End(j) == IF j = Len(points) THEN h.addr + h.size ELSE points[j + 1]
    IN  IF IsConsumed(h) THEN <<>>
        ELSE [j \in DOMAIN points |->
                [file |-> 0, shndx |-> i, addr |-> points[j], size |-> End(j) - points[j],
                 alive |-> i \notin Bare(o), record |-> i \notin Bare(o) /\ RecordSize(h) # 0,
                 rels |-> <<>>, unwind |-> <<0, 0>>, repl |-> NoIsec]]

\* Each section's subsections, as a range of places of the object's.
SectIsecs(o) ==
    LET lens == [i \in DOMAIN o.hdrs |-> Len(SectionSubsecs(o, i))]
        Start(i) == FoldLeft(+, 0, SubSeq(lens, 1, i - 1))
    IN  [i \in DOMAIN o.hdrs |-> Start(i) + 1..Start(i) + lens[i]]

\* The places of the object's subsections, in order of address.
ByAddress(isecs) == LET key(i) == isecs[i].addr IN SortedPlaces(Len(isecs), key)

\* The subsection at `addr`, whatever its section.
FindSubsec(st, addr) ==
    LET p  == Last0({k \in DOMAIN st.subsecs : st.isecs[st.subsecs[k]].addr <= addr})
        id == IF p = 0 THEN NoIsec ELSE st.subsecs[p]
    IN  IF p = 0 THEN NoIsec
        ELSE IF \/ addr < st.isecs[id].addr + st.isecs[id].size
                \/ st.isecs[id].size = 0 /\ addr = st.isecs[id].addr
        THEN id ELSE NoIsec

\* The subsection of section `sect` a label at `addr` belongs to.
SymbolSubsec(st, sect, addr) ==
    LET p  == Last0({k \in DOMAIN st.subsecs : st.isecs[st.subsecs[k]].addr <= addr
                                                 /\ st.isecs[st.subsecs[k]].shndx = sect})
        id == IF p = 0 THEN NoIsec ELSE st.subsecs[p]
        end == st.isecs[id].addr + st.isecs[id].size
    IN  IF p = 0 THEN NoIsec
        ELSE IF addr < end \/ (addr = end /\ ~st.isecs[id].record) THEN id ELSE NoIsec

(***************************************************************************)
(* Relocations. A raw record has off, ty, p2 (2 for 4 bytes, 3 for 8), ext,*)
(* idx (a symbol, a section or, of an "addend", its value) and val, what   *)
(* the field holds.                                                        *)
(***************************************************************************)
UnsupportedReloc(raw, j) ==
    LET r == raw[j]
    IN  \/ ~r.ext /\ r.ty # "unsigned"
        \/ r.ty = "unsigned" /\ r.p2 = 2 /\ (j = 1 \/ raw[j - 1].ty # "subtractor")

BadReloc(o, h) ==
    \E j \in DOMAIN h.rels :
        h.rels[j].ty # "addend" /\ (UnsupportedReloc(h.rels, j) \/ (~h.rels[j].ext /\ h.rels[j].idx \notin DOMAIN o.hdrs))

\* The address a record points at becomes the section it names and the
\* offset there.
SectionOffset(o, r, addr) == [sym |-> 0, sect |-> r.idx, add |-> addr - o.hdrs[r.idx].addr]

ReadRelocs(o, h) ==
    LET raw  == h.rels
        kept == SelectSeq([j \in DOMAIN raw |-> j], LAMBDA j : raw[j].ty # "addend")
        Paired(j, ty) == j > 1 /\ raw[j - 1].ty = ty
        Addend(j) == CASE raw[j].ty = "unsigned" -> raw[j].val
                       [] Paired(j, "addend") -> raw[j - 1].idx
                       [] OTHER -> 0
        Target(j) == IF raw[j].ext THEN [sym |-> raw[j].idx, sect |-> 0, add |-> Addend(j)]
                     ELSE SectionOffset(o, raw[j], Addend(j))
    IN  [k \in DOMAIN kept |->
            LET j == kept[k]
            IN  [off |-> IF Paired(j, "addend") THEN raw[j - 1].off ELSE raw[j].off,
                 ty |-> raw[j].ty, sub |-> Paired(j, "subtractor")] @@ Target(j)]

ToBareSection(o, rel) ==
    (IF rel.sym = 0 THEN rel.sect ELSE o.syms[rel.sym].sect) \in Bare(o)

\* A section-relative target, as one of the named section's subsections.
SectionTarget(o, isecs, sectIsecs, rel) ==
    LET addr  == o.hdrs[rel.sect].addr + rel.add
        range == sectIsecs[rel.sect]
        before == {k \in range : isecs[k].addr <= addr}
        first == CHOOSE k \in range : \A j \in range : k <= j
        id    == IF before = {} THEN first ELSE Last0(before)
    IN  [rel EXCEPT !.sect = id, !.add = addr - isecs[id].addr]

SortedRelocs(rels) ==
    LET key(j) == rels[j].off
        order  == SortedPlaces(Len(rels), key)
    IN  [k \in DOMAIN rels |-> rels[order[k]]]

\* The run of a section's sorted relocations that subsection `id` takes.
TakenRelocs(h, isecs, range, rels, id) ==
    LET End(k) == isecs[k].addr - h.addr + isecs[k].size
        mine   == SelectSeq(rels, LAMBDA r : r.off < End(id) /\ \A k \in range : k < id => r.off >= End(k))
    IN  [j \in DOMAIN mine |-> [mine[j] EXCEPT !.off = @ - (isecs[id].addr - h.addr)]]

\* The subsections with their relocations.
ReadRelocations(o, isecs, sectIsecs) ==
    [id \in DOMAIN isecs |->
        LET i == isecs[id].shndx
            rels == SortedRelocs(ReadRelocs(o, o.hdrs[i]))
            placed == [j \in DOMAIN rels |-> IF rels[j].sym # 0 THEN rels[j]
                                             ELSE SectionTarget(o, isecs, sectIsecs, rels[j])]
        IN  [isecs[id] EXCEPT !.rels = TakenRelocs(o.hdrs[i], isecs, sectIsecs[i], placed, id)]]

BadRelocations(o) ==
    LET sectIsecs == SectIsecs(o)
    IN  \E i \in DOMAIN o.hdrs :
            sectIsecs[i] # {} /\
                \/ BadReloc(o, o.hdrs[i])
                \/ \E rel \in Range(ReadRelocs(o, o.hdrs[i])) :
                      \/ ToBareSection(o, rel)
                      \/ rel.sym = 0 /\ sectIsecs[rel.sect] = {}

UnrelocatedInitPointer(o, isecs) ==
    \E s \in Range(isecs) : o.hdrs[s.shndx].type \in {"init", "term"} /\ s.size # 0 /\ s.rels = <<>>

(***************************************************************************)
(* Unwind information                                                      *)
(***************************************************************************)
\* The section of a kind, 0 if the object has none.
SectionOf(o, seg, sect) ==
    LET at == {i \in DOMAIN o.hdrs : Is(o.hdrs[i], seg, sect)}
    IN  IF at = {} THEN 0 ELSE CHOOSE i \in at : \A j \in at : i <= j

EntrySize == 8

\* The relocation of a field of entry e, the last one.
FieldReloc(rels, e, field) ==
    LET at == Last0({j \in DOMAIN rels : rels[j].off = (e - 1) * EntrySize + field})
    IN  IF at = 0 THEN <<>> ELSE <<rels[at]>>

\* The section and the address a pointer field refers to.
FieldTarget(st, o, rel) ==
    IF rel.sym # 0 THEN <<st.syms[rel.sym].sect, st.syms[rel.sym].value + rel.add>>
    ELSE <<rel.sect, o.hdrs[rel.sect].addr + rel.add>>

PersonalityOf(st, o, rel) ==
    IF rel.sym # 0 THEN rel.sym
    ELSE LET at == {i \in DOMAIN st.syms : st.syms[i].ext /\ st.syms[i].value = FieldTarget(st, o, rel)[2]}
         IN  IF at = {} THEN 0 ELSE CHOOSE i \in at : \A j \in at : i <= j

UnwindRecord(isec, off, len, enc, fde) ==
    [isec |-> isec, off |-> off, len |-> len, enc |-> enc, pers |-> 0, lsda |-> <<>>, fde |-> fde]

\* An address as a subsection and the offset in it
InSubsec(st, isec, addr) == <<isec, addr - st.isecs[isec].addr>>

FuncRecord(st, place, entry) == UnwindRecord(place[1], place[2], entry.len, entry.enc, 0)

CompactRecordAt(st, o, entry, func, pers, lsda) ==
    LET Area(at) == InSubsec(st, FindSubsec(st, at), at)
    IN  [FuncRecord(st, InSubsec(st, SymbolSubsec(st, func[1], func[2]), func[2]), entry) EXCEPT
            !.pers = IF pers = <<>> THEN 0 ELSE PersonalityOf(st, o, pers[1]),
            !.lsda = IF lsda = <<>> THEN <<>> ELSE Area(FieldTarget(st, o, lsda[1])[2])]

CompactRecord(st, o, entry, rels, e) ==
    CompactRecordAt(st, o, entry, FieldTarget(st, o, FieldReloc(rels, e, 0)[1]),
                    FieldReloc(rels, e, 4), FieldReloc(rels, e, 6))

BadCompactUnwind(st, o, h) ==
    \E rel \in Range(ReadRelocs(o, h)) :
        LET field == rel.off % EntrySize
            at    == FieldTarget(st, o, rel)
        IN  CASE field = 0 -> SymbolSubsec(st, at[1], at[2]) = NoIsec
              [] field = 4 -> PersonalityOf(st, o, rel) = 0
              [] field = 6 -> FindSubsec(st, at[2]) = NoIsec
              [] OTHER -> TRUE

\* A record no relocation gave a function describes nothing.
CompactRecords(st, o, h, rels) ==
    LET kept == SelectSeq([e \in DOMAIN h.entries |-> e], LAMBDA e : FieldReloc(rels, e, 0) # <<>>)
    IN  [k \in DOMAIN kept |-> CompactRecord(st, o, h.entries[kept[k]], rels, kept[k])]

ParseCompactUnwind(st, o, h) == CompactRecords(st, o, h, ReadRelocs(o, h))

\* A pointer of __eh_frame: what its field holds once the relocations on it
\* are applied, which is relative to itself. An FDE's function is its word
\* 2, its LSDA its word 4.
Applied(o, field, at) ==
    LET Value(i) == IF i = 0 THEN 0 ELSE o.syms[i].value
    IN  at + field.val + Value(field.plus) - Value(field.minus)

\* The CIE an FDE points back at, among those read before it.
CieOf(frames, k) ==
    LET at == {j \in 1..k - 1 : frames[j].kind = "cie" /\ frames[j].at = frames[k].cie}
    IN  IF at = {} THEN 0 ELSE Cardinality({j \in 1..CHOOSE x \in at : TRUE : frames[j].kind = "cie"})

Cies(h) ==
    LET cies == SelectSeq(h.frames, LAMBDA f : f.kind = "cie")
    IN  [k \in DOMAIN cies |-> [obj |-> 0, pers |-> cies[k].pers, lsda |-> cies[k].lsda, alive |-> FALSE, at |-> 0]]

HasLsda(frames, k) == \E j \in 1..k : frames[j].kind = "cie" /\ frames[j].at = frames[k].cie /\ frames[j].lsda

FdeFunction(o, f) == Applied(o, f.pc, f.at + 2)

FdeLsda(st, o, frames, k) ==
    LET area == Applied(o, frames[k].area, frames[k].at + 4)
    IN  IF ~HasLsda(frames, k) \/ Applied(o, frames[k].area, 0) = 0 THEN <<>>
        ELSE <<FindSubsec(st, area), area - st.isecs[FindSubsec(st, area)].addr>>

BadEhFrame(st, o, h) ==
    \E k \in DOMAIN h.frames :
        LET f == h.frames[k]
        IN  \/ f.kind = "cie" /\ ~f.persok
            \/ f.kind = "fde" /\ (CieOf(h.frames, k) = 0 \/ FindSubsec(st, FdeFunction(o, f)) = NoIsec)
            \/ /\ f.kind = "fde" /\ HasLsda(h.frames, k) /\ Applied(o, f.area, 0) # 0
               /\ FindSubsec(st, Applied(o, f.area, f.at + 4)) = NoIsec

\* Adds an FDE: a compact record wins over it, a DWARF-mode record points
\* at it, and code with neither gets a record.
AddFdeOf(st, o, keepAll, acc, fde) ==
    LET Here(r) == r.isec = fde.isec /\ r.off = fde.off
        covered == \E r \in Range(st.unwind) : Here(r) /\ r.enc < Dwarf
        fdes    == Append(acc.fdes, fde)
        own     == Last0({r \in DOMAIN acc.unwind : Here(acc.unwind[r])
                                                    /\ (acc.unwind[r].enc >= Dwarf \/ acc.unwind[r].fde # 0)})
    IN  CASE covered /\ ~keepAll -> acc
          [] covered -> [acc EXCEPT !.fdes = fdes]
          [] ~covered /\ own # 0 -> [fdes |-> fdes, unwind |-> [acc.unwind EXCEPT ![own].fde = Len(fdes)]]
          [] ~covered /\ own = 0 /\ ~IsCodeSection(o.hdrs[st.isecs[fde.isec].shndx]) -> [acc EXCEPT !.fdes = fdes]
          [] OTHER -> [fdes |-> fdes, unwind |-> Append(acc.unwind, UnwindRecord(fde.isec, fde.off, fde.len, 0, Len(fdes)))]

\* Frame k as an FDE of the function at a place of a subsection
FdeAt(st, o, frames, k, place) ==
    [obj |-> 0, cie |-> CieOf(frames, k), isec |-> place[1], off |-> place[2], len |-> frames[k].len,
     lsda |-> FdeLsda(st, o, frames, k), at |-> 0]

AddFde(st, o, h, keepAll, acc, k) ==
    LET Place(addr) == InSubsec(st, FindSubsec(st, addr), addr)
    IN  AddFdeOf(st, o, keepAll, acc, FdeAt(st, o, h.frames, k, Place(FdeFunction(o, h.frames[k]))))

AddFdes(st, o, h, keepAll) ==
    LET fdes == SelectSeq([k \in DOMAIN h.frames |-> k], LAMBDA k : h.frames[k].kind = "fde")
    IN  FoldLeft(LAMBDA acc, k : AddFde(st, o, h, keepAll, acc, k), [unwind |-> st.unwind, fdes |-> <<>>], fdes)

\* Each subsection's records in one run, by their first one's place.
GroupUnwindRecords(recs) ==
    LET First(k) == CHOOSE j \in DOMAIN recs : recs[j].isec = recs[k].isec /\ \A i \in 1..j - 1 : recs[i].isec # recs[k].isec
        order == SortedPlaces(Len(recs), First)
    IN  [k \in DOMAIN recs |-> recs[order[k]]]

\* `kept` is the FDEs the link keeps: "uncovered", "all" or "none".
\* The object with its FDEs, and its records grouped; those of no FDE that need one are dropped
WithFdes(st, add, cies, kept) ==
    [st EXCEPT !.unwind = GroupUnwindRecords(IF kept = "none" THEN add.unwind
                                             ELSE SelectSeq(add.unwind, LAMBDA r : r.enc < Dwarf \/ r.fde # 0)),
               !.fdes = add.fdes, !.cies = cies]

ParseEhFrame(st, o, eh, kept) ==
    IF kept = "none" \/ eh = 0 THEN WithFdes(st, [unwind |-> st.unwind, fdes |-> <<>>], <<>>, kept)
    ELSE WithFdes(st, AddFdes(st, o, o.hdrs[eh], kept = "all"), Cies(o.hdrs[eh]), kept)

ParseUnwindInfo(st, o, kept) ==
    LET cu == SectionOf(o, "__LD", "__compact_unwind")
    IN  ParseEhFrame([st EXCEPT !.unwind = IF cu = 0 THEN <<>> ELSE ParseCompactUnwind(st, o, o.hdrs[cu])],
                     o, SectionOf(o, "__TEXT", "__eh_frame"), kept)

BadUnwindInfo(st, o, kept) ==
    LET cu == SectionOf(o, "__LD", "__compact_unwind")
        eh == SectionOf(o, "__TEXT", "__eh_frame")
    IN  \/ cu # 0 /\ BadCompactUnwind(st, o, o.hdrs[cu])
        \/ kept # "none" /\ eh # 0 /\ BadEhFrame(st, o, o.hdrs[eh])

SymbolSubsecs(st) ==
    [i \in DOMAIN st.syms |-> IF InSection(st.syms[i]) THEN SymbolSubsec(st, st.syms[i].sect, st.syms[i].value) ELSE NoIsec]

Unreadable == [ok |-> FALSE]

\* An object as it is staged, before its unwind information is parsed.
StagedObject(o, isecs) ==
    [ok |-> TRUE, split |-> o.split, isecs |-> isecs, subsecs |-> ByAddress(isecs),
     unwind |-> <<>>, cies |-> <<>>, fdes |-> <<>>] @@ DemotedSyms(o)

\* The staged object, Unreadable if the link fails on it.
WithSymbolSubsecs(st) == [symsub |-> SymbolSubsecs(st)] @@ st

StageWith(o, st, kept) ==
    IF UnrelocatedInitPointer(o, st.isecs) \/ BadUnwindInfo(st, o, kept) THEN Unreadable
    ELSE WithSymbolSubsecs(ParseUnwindInfo(st, o, kept))

StageObject(o, kept) ==
    IF UnreadableSection(o) \/ BadRelocations(o) THEN Unreadable
    ELSE StageWith(o, StagedObject(o, ReadRelocations(o, FlattenSeq([i \in DOMAIN o.hdrs |-> SectionSubsecs(o, i)]),
                                                      SectIsecs(o))),
                   kept)

=============================================================================
