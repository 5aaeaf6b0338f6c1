------------------------------- MODULE Sections -------------------------------
(***************************************************************************)
(* The output sections of a link and their order (macho/passes.rs from     *)
(* create_output_sections to fill_zero_fill_sections, macho/symbol_moves.rs *)
(* and chunks/output_section.rs). Worker threads bin the blocks of the     *)
(* input sections through a cache of their own and a table they share; the *)
(* main thread then makes the output sections, places the records and      *)
(* sections the linker adds, sorts the chunks, groups them into segments   *)
(* and checks what the options ask for.                                    *)
(*                                                                         *)
(* A link `l` gives the options (o), the input sections (secs), their      *)
(* subsections in the order of the arena (isecs; repl is the subsection    *)
(* that stands in for one, 0 for none), the symbols (syms), the records    *)
(* the linker made (blobs) and method lists (lists), the -sectcreate       *)
(* options, the boundary symbols (bounds) and the kinds of synthesized     *)
(* chunks in use (needs).                                                  *)
(***************************************************************************)
EXTENDS SectionNames, TLC, FiniteSetsExt

CONSTANTS Links,      \* families of links
          Workers,    \* the threads
          Block       \* subsections a job of group_input_sections takes

VARIABLES l,        \* the link
          pc,       \* the next pass
          isecs,    \* the subsections: alive, their output section and offset
          moves,    \* by subsection, its symbol move
          table,    \* OutputSectionTable, shared by the workers
          cache,    \* each worker's WorkerCache
          job,      \* each worker's block, and where it is in it
          groups,   \* by block, its members by output section
          osecs,    \* the output sections
          own,      \* the sections of -sectcreate and of boundary symbols
          chunks,   \* the chunks of the output
          hdrs,     \* by kind, the name of a synthesized chunk
          bounds,   \* what each boundary symbol names
          segs,     \* the segments
          ended     \* how the passes ended

sectionVars == <<l, pc, isecs, moves, table, cache, job, groups, osecs, own, chunks, hdrs, bounds, segs, ended>>

o == l.o

Sec(i) == [name  |-> l.secs[i].name,
           flags |-> CanonicalFlags(l.secs[i].name, l.secs[i].flags)]

Blocks == 1 .. ((Len(l.isecs) + Block - 1) \div Block)

BlockOf(b) == {i \in 1 .. Len(l.isecs) : (i - 1) \div Block = b - 1}

Emitted(isec) == isec.alive /\ isec.repl = 0

AlignTo(n, p2) == ((n + 2 ^ p2 - 1) \div 2 ^ p2) * 2 ^ p2

MaxOf(a, b) == IF a > b THEN a ELSE b

LexLess(a, b) == \E k \in DOMAIN a : a[k] < b[k] /\ \A j \in 1 .. k - 1 : a[j] = b[j]

\* A stable sort of s by keys that are tuples of numbers
SortedBy(s, Rank(_)) ==
    LET keys  == [i \in DOMAIN s |-> <<Rank(s[i]), i>>]
        order == SortSeq(keys, LAMBDA a, b : LexLess(Append(a[1], a[2]), Append(b[1], b[2])))
    IN  [n \in DOMAIN s |-> s[order[n][2]]]
-----------------------------------------------------------------------------
(* symbol_moves::find_moves *)
RECURSIVE Resolved(_)
Resolved(i) == IF l.isecs[i].repl = 0 THEN i ELSE Resolved(l.isecs[i].repl)

\* The object that declares a common symbol largest, the first of equals
CommonOwner(name) ==
    LET decls == {i \in DOMAIN l.syms : l.syms[i].kind = "common" /\ l.syms[i].name = name} IN
    l.syms[CHOOSE i \in decls : \A j \in decls : LexLess(<<-l.syms[i].size, i>>, <<-l.syms[j].size, j>>) \/ i = j].obj

\* The subsection a symbol names: None for a symbol that can move nothing
SubsecNamed(s) ==
    LET i    == Resolved(s.isec)
        sec  == Sec(l.isecs[s.isec].sec)
        made == IF i \in {l.lists[k] : k \in DOMAIN l.lists} THEN "list"
                ELSE IF i \in {l.blobs[k].isec : k \in DOMAIN l.blobs} THEN "blob" ELSE "none"
    IN  CASE s.kind = "common" ->
               IF CommonOwner(s.name) # s.obj THEN None
               ELSE [isec |-> s.isec, segment |-> "__DATA", content |-> "data", tlv |-> FALSE]
          [] s.kind = "label" -> None
          [] s.isec = 0 -> [isec |-> 0, segment |-> "", content |-> "data", tlv |-> FALSE]
          [] ~l.isecs[i].alive -> None
          [] OTHER -> [isec    |-> IF made # "none" \/ ~l.isecs[i].placed THEN i ELSE 0,
                       segment |-> sec.name[1],
                       content |-> IF made = "list" THEN "code" ELSE ContentOf(sec.name, sec.flags),
                       tlv     |-> IsThreadLocal(sec.flags.type)]

\* How a list names a symbol: by name (1), by a pattern (0) or not (-1)
Names(list, s) ==
    LET entries == {<<None, s.name>>, <<s.obj, s.name>>} \cup (IF s.base = None THEN {} ELSE {<<None, s.base>>}) IN
    CASE entries \cap list.named # {} -> 1
      [] {e[2] : e \in entries} \cap list.patterns # {} -> 0
      [] OTHER -> -1

FirstList(lists, s) == SelectInSeq(lists, LAMBDA list : Names(list, s) >= 0)

\* The move one of the two segment options makes of a symbol's subsection
ListMove(lists, option, never, s, sub) ==
    LET i == FirstList(lists, s) IN
    IF i = 0 \/ sub.content = never \/ lists[IF i = 0 THEN 1 ELSE i].segment = sub.segment THEN None
    ELSE [option |-> option, segment |-> lists[i].segment]

MoveOf(s, sub) ==
    LET rw == ListMove(o.move_to_rw, "rw", "code", s, sub)
        ro == ListMove(o.move_to_ro, "ro", "data", s, sub)
    IN  CASE sub = None -> None
          [] rw # None -> rw
          [] ro # None -> ro
          [] FirstList(o.dirty_data, s) # 0 /\ ~sub.tlv -> [option |-> "dirty", segment |-> "__DATA_DIRTY"]
          [] OTHER -> None

FindMoves ==
    /\ pc = "moves"
    /\ \E named \in {[k \in DOMAIN l.syms |-> SubsecNamed(l.syms[k])]} :
       \E asked \in {[k \in DOMAIN l.syms |-> MoveOf(l.syms[k], named[k])]} :
       LET moving(i) == {k \in DOMAIN l.syms : asked[k] # None /\ named[k].isec = i}
       IN  moves' = [i \in DOMAIN isecs |->
                       IF o.relocatable \/ moving(i) = {} THEN None ELSE asked[Min(moving(i))]]
    /\ pc' = "group"
    /\ UNCHANGED <<l, isecs, table, cache, job, groups, osecs, own, chunks, hdrs, bounds, segs, ended>>
-----------------------------------------------------------------------------
(* group_input_sections: the workers *)
NoTable == [keys |-> <<>>, names |-> <<>>, kinds |-> <<>>, tlv |-> <<>>]

NoCache == [sections |-> <<>>, groups |-> <<>>]

Key(i) == <<Sec(isecs[i].sec), moves[i]>>

(* OutputSectionTable::get, under the table's lock: what the table holds   *)
(* for a key, and the table after                                          *)
TableGrown(t, name) ==
    IF Contains(t.names, name) THEN t
    ELSE [t EXCEPT !.names = Append(t.names, name),
                   !.kinds = Append(t.kinds, {}),
                   !.tlv   = Append(t.tlv, FALSE)]

TableEntered(t, key, entry) ==
    [t EXCEPT !.keys                 = (key :> entry) @@ t.keys,
              !.kinds[entry.section] = @ \cup {IF IsZeroFillInput(key[1].flags.type) THEN "zero" ELSE "file"},
              !.tlv[entry.section]   = @ \/ IsThreadLocal(key[1].flags.type)]

TableAdd(t, key, dest) ==
    LET known == SelectInSeq(t.names, LAMBDA name : name = dest.name)
        entry == [section |-> IF known = 0 THEN Len(t.names) + 1 ELSE known, dest |-> dest]
    IN  IF dest = None THEN [entry |-> None, table |-> [t EXCEPT !.keys = (key :> None) @@ t.keys]]
        ELSE [entry |-> entry, table |-> TableEntered(TableGrown(t, dest.name), key, entry)]

TableGet(t, key) ==
    IF key \in DOMAIN t.keys THEN [entry |-> t.keys[key], table |-> t]
    ELSE TableAdd(t, key, Destination(o, key[1], key[2]))

\* Faulty variant: the group remembered is taken for any block's
CacheGroup_AnyBlock(c, gs, b, entry) ==
    IF entry.section \in DOMAIN c.groups /\ c.groups[entry.section][2] <= Len(gs)
    THEN [group |-> c.groups[entry.section][2], cache |-> c, groups |-> gs]
    ELSE [group  |-> Len(gs) + 1,
          cache  |-> [c EXCEPT !.groups = (entry.section :> <<b, Len(gs) + 1>>) @@ c.groups],
          groups |-> Append(gs, [section |-> entry.section, dest |-> entry.dest, members |-> <<>>, p2align |-> 0])]

(* WorkerCache::group: the group of a block's members of an output         *)
(* section, made for the first of them                                     *)
CacheGroup(c, gs, b, entry) ==
    IF entry.section \in DOMAIN c.groups /\ c.groups[entry.section][1] = b
    THEN [group |-> c.groups[entry.section][2], cache |-> c, groups |-> gs]
    ELSE [group  |-> Len(gs) + 1,
          cache  |-> [c EXCEPT !.groups = (entry.section :> <<b, Len(gs) + 1>>) @@ c.groups],
          groups |-> Append(gs, [section |-> entry.section, dest |-> entry.dest, members |-> <<>>, p2align |-> 0])]

TakeBlock(w) ==
    /\ pc = "group"
    /\ job[w] = None
    /\ \E b \in Blocks :
          /\ groups[b] = None
          /\ job' = [job EXCEPT ![w] = [block |-> b, at |-> Min(BlockOf(b)), last |-> None]]
          /\ groups' = [groups EXCEPT ![b] = <<>>]
    /\ UNCHANGED <<l, pc, isecs, moves, table, cache, osecs, own, chunks, hdrs, bounds, segs, ended>>

Advance(w, last) ==
    job' = [job EXCEPT ![w] = IF job[w].at = Max(BlockOf(job[w].block)) THEN None
                              ELSE [job[w] EXCEPT !.at = job[w].at + 1, !.last = last]]

\* Puts subsection i in a group of its block, or drops it
Put(w, i, gs, group) ==
    /\ groups' = [groups EXCEPT ![job[w].block] =
                    IF group = None THEN gs
                    ELSE [gs EXCEPT ![group].members = Append(gs[group].members, i),
                                    ![group].p2align = MaxOf(gs[group].p2align, isecs[i].p2align)]]
    /\ isecs' = IF group = None THEN [isecs EXCEPT ![i].alive = FALSE] ELSE isecs

SkipSubsection(w) ==
    /\ pc = "group"
    /\ job[w] # None
    /\ ~Emitted(isecs[job[w].at]) \/ isecs[job[w].at].placed
    /\ Advance(w, job[w].last)
    /\ UNCHANGED <<l, pc, isecs, moves, table, cache, groups, osecs, own, chunks, hdrs, bounds, segs, ended>>

\* The last input section and its group, after subsection i went to found
Remembered(i, last, found) ==
    IF moves[i] = None THEN [sec |-> isecs[i].sec, group |-> found] ELSE last

\* What the worker remembers of a key, or the table has
CacheGet(c, key) ==
    IF key \in DOMAIN c.sections THEN [entry |-> c.sections[key], table |-> table] ELSE TableGet(table, key)

CacheKept(c, key, entry) == [c EXCEPT !.sections = (key :> entry) @@ c.sections]

GroupSubsection(w) ==
    /\ pc = "group"
    /\ job[w] # None
    /\ Emitted(isecs[job[w].at]) /\ ~isecs[job[w].at].placed
    /\ LET i    == job[w].at
           last == job[w].last
           b    == job[w].block
       IN  IF last # None /\ last.sec = isecs[i].sec /\ moves[i] = None
           THEN /\ Put(w, i, groups[b], last.group)
                /\ Advance(w, last)
                /\ UNCHANGED <<table, cache>>
           ELSE \E got \in {CacheGet(cache[w], Key(i))} :
                \E kept \in {CacheKept(cache[w], Key(i), got.entry)} :
                   /\ table' = got.table
                   /\ IF got.entry = None
                      THEN /\ cache' = [cache EXCEPT ![w] = kept]
                           /\ Put(w, i, groups[b], None)
                           /\ Advance(w, Remembered(i, last, None))
                      ELSE \E in \in {CacheGroup(kept, groups[b], b, got.entry)} :
                           /\ cache' = [cache EXCEPT ![w] = in.cache]
                           /\ Put(w, i, in.groups, in.group)
                           /\ Advance(w, Remembered(i, last, in.group))
    /\ UNCHANGED <<l, pc, moves, osecs, own, chunks, hdrs, bounds, segs, ended>>
-----------------------------------------------------------------------------
(* assign_input_sections *)
OutputSection(name, flags) ==
    [name |-> name, flags |-> flags, members |-> <<>>, p2align |-> 0, size |-> 0, tail |-> "none", tailOff |-> 0,
     tlv |-> FALSE, moved |-> None]

\* The groups of output section n, in input order
GroupsOf(n) ==
    FlattenSeq([b \in 1 .. Len(groups) |-> SelectSeq(groups[b], LAMBDA g : g.section = n)])

MembersOf(n) == FlattenSeq([k \in DOMAIN GroupsOf(n) |-> GroupsOf(n)[k].members])

\* resolve_zerofill_conflicts: contents of both kinds are laid out in the file
Settled(flags, kinds) ==
    IF kinds # {"zero", "file"} THEN flags
    ELSE [flags EXCEPT !.type = CASE flags.type \in {"zerofill", "gbzerofill"} -> "regular"
                                  [] flags.type = "tlvbss" -> "tlvdata"
                                  [] OTHER -> flags.type]

SettledFlags(flags, kinds) == IF o.relocatable THEN flags ELSE Settled(flags, kinds)

MadeOf(n, first) ==
    [OutputSection(first.dest.name,
                   SettledFlags(FirstMemberFlags(o, Sec(isecs[first.members[1]].sec), first.dest), table.kinds[n]))
       EXCEPT !.members = MembersOf(n),
              !.p2align = Max({g.p2align : g \in Range(GroupsOf(n))}),
              !.tlv     = table.tlv[n],
              !.moved   = first.dest.moved]

Made(n) == MadeOf(n, GroupsOf(n)[1])

AssignInputSections ==
    /\ pc = "group"
    /\ \A w \in Workers : job[w] = None
    /\ \A b \in Blocks : groups[b] # None
    /\ \E order \in {SortedBy([n \in DOMAIN table.names |-> n], LAMBDA n : <<MembersOf(n)[1]>>)} :
       /\ osecs' = [k \in DOMAIN order |-> Made(order[k])]
       /\ isecs' = [i \in DOMAIN isecs |->
                      [isecs[i] EXCEPT !.osec =
                         LET in == {k \in DOMAIN order : i \in Range(MembersOf(order[k]))} IN
                         IF in = {} THEN @ ELSE CHOOSE k \in in : TRUE]]
       /\ chunks' = <<[kind |-> "MachHeader", i |-> 0]>> \o [k \in DOMAIN order |-> [kind |-> "Output", i |-> k]]
    /\ table' = NoTable
    /\ cache' = [w \in Workers |-> NoCache]
    /\ groups' = <<>>
    /\ pc' = "blobs"
    /\ UNCHANGED <<l, moves, job, own, hdrs, bounds, segs, ended>>
-----------------------------------------------------------------------------
(* Sections made and found by name *)
FindOutputSection(os, name) == SelectInSeq(os, LAMBDA os1 : os1.name = name)

\* The output section of that name, made with its chunk if there is none
WithSection(st, name, flags, moved) ==
    IF FindOutputSection(st.osecs, name) # 0 THEN st
    ELSE [st EXCEPT !.osecs  = Append(st.osecs, [OutputSection(name, flags) EXCEPT !.moved = moved]),
                    !.chunks = Append(st.chunks, [kind |-> "Output", i |-> Len(st.osecs) + 1])]

Now == [isecs |-> isecs, osecs |-> osecs, chunks |-> chunks]

\* record_section, for a record that stands in for a subsection of sec
FinalDest(sec, move) == Destination([o EXCEPT !.relocatable = FALSE], sec, move)

RecordSection(st, sec, dest) == WithSection(st, dest.name, FirstMemberFlags(o, sec, dest), dest.moved)

(* place_replacing_blobs: a record takes the place of the first subsection *)
(* it replaces; the last anchor goes first                                  *)
Anchors ==
    LET blobs == {l.blobs[k].isec : k \in DOMAIN l.blobs} IN
    {i \in DOMAIN isecs : /\ isecs[i].repl \in blobs
                          /\ \A j \in 1 .. i - 1 : isecs[j].repl # isecs[i].repl}

PlaceBlobIn(st, k, anchor, blob) ==
    LET at == Len(SelectSeq(st.osecs[k].members, LAMBDA m : m < anchor)) IN
    [st EXCEPT !.osecs[k].members = InsertAt(@, at + 1, blob),
               !.osecs[k].p2align = MaxOf(@, isecs[blob].p2align),
               !.isecs[blob].osec = k]

PlaceBlobNamed(st, name, anchor, blob) == PlaceBlobIn(st, FindOutputSection(st.osecs, name), anchor, blob)

PlaceBlobAt(anchor, st, sec, dest) ==
    IF dest = None THEN st ELSE PlaceBlobNamed(RecordSection(st, sec, dest), dest.name, anchor, isecs[anchor].repl)

PlaceBlob(anchor, st) ==
    PlaceBlobAt(anchor, st, Sec(isecs[anchor].sec), FinalDest(Sec(isecs[anchor].sec), moves[isecs[anchor].repl]))

PlaceReplacingBlobs ==
    /\ pc = "blobs"
    /\ \E after \in {FoldRight(PlaceBlob, SetToSortSeq(Anchors, <), Now)} :
          /\ osecs' = after.osecs
          /\ isecs' = after.isecs
          /\ chunks' = after.chunks
    /\ pc' = "sectcreate"
    /\ UNCHANGED <<l, moves, table, cache, job, groups, own, hdrs, bounds, segs, ended>>

(* place_sectcreate_inputs: into the output section of the name, as a      *)
(* subsection of the internal object, or a section of the options' own     *)
PlaceSectcreateNamed(st, sc, name) ==
    LET k    == FindOutputSection(st.osecs, name)
        mine == SelectInSeq(st.own, LAMBDA s : s.name = name)
        isec == [sec |-> 0, size |-> sc.size, p2align |-> 0, alive |-> TRUE, repl |-> 0, placed |-> TRUE,
                 cold |-> FALSE, osec |-> k, off |-> 0]
    IN  CASE k # 0 -> [st EXCEPT !.isecs = Append(@, isec),
                                 !.osecs[k].members = Append(@, Len(st.isecs) + 1)]
          [] mine # 0 -> [st EXCEPT !.own[mine].size = @ + sc.size]
          [] OTHER -> [st EXCEPT !.own = Append(@, [name |-> name, size |-> sc.size, flags |-> Plain("regular"),
                                                    p2align |-> 0])]

PlaceSectcreateInput(st, sc) ==
    PlaceSectcreateNamed(st, sc, MapRenamed([o EXCEPT !.relocatable = FALSE], sc.name))

PlaceSectcreateInputs ==
    /\ pc = "sectcreate"
    /\ \E after \in {FoldLeft(PlaceSectcreateInput, [isecs |-> isecs, osecs |-> osecs, own |-> <<>>], l.sectcreate)} :
       /\ isecs' = after.isecs
       /\ osecs' = after.osecs
       /\ own' = after.own
    /\ pc' = "members"
    /\ UNCHANGED <<l, moves, table, cache, job, groups, chunks, hdrs, bounds, segs, ended>>
-----------------------------------------------------------------------------
(* set_section_alignments: the thread-local template shares the strictest  *)
TemplateAligned(os) ==
    LET template == {k \in DOMAIN os : IsThreadLocal(os[k].flags.type)} IN
    [k \in DOMAIN os |-> IF k \in template
                         THEN [os[k] EXCEPT !.p2align = Max({os[j].p2align : j \in template})]
                         ELSE os[k]]

(* order_file_ranks: the first line naming a live subsection's symbol, of  *)
(* its object if the line names one                                        *)
OrderRank(i) ==
    LET lines == {n \in DOMAIN o.order : \E s \in Range(l.syms) :
                    /\ s.isec # 0
                    /\ Resolved(s.isec) = i /\ isecs[i].alive
                    /\ o.order[n].name = s.name
                    /\ o.order[n].file \in {None, s.obj}}
    IN  IF lines = {} THEN Len(o.order) + 1 ELSE Min(lines)

\* sort_section_members: as -order_file lists them, and then cold code last
Ordered(members, is) ==
    LET ranked == SortedBy(members, LAMBDA i : <<OrderRank(i)>>)
        listed == IF o.order = <<>> THEN members ELSE ranked
    IN  SortedBy(listed, LAMBDA i : <<IF is[i].cold THEN 1 ELSE 0>>)

\* output_section::layout, without the modulus of the input address
Offsets(members, is) ==
    FoldLeft(LAMBDA a, i : LET off == AlignTo(a.end, is[i].p2align) IN
                           [end |-> off + is[i].size, off |-> (i :> off) @@ a.off],
             [end |-> 0, off |-> <<>>], members)

LayOutMembers ==
    /\ pc = "members"
    /\ \E sorted \in {[k \in DOMAIN osecs |->
                        [TemplateAligned(osecs)[k] EXCEPT !.members = Ordered(osecs[k].members, isecs)]]} :
       \E laid \in {[k \in DOMAIN sorted |-> Offsets(sorted[k].members, isecs)]} :
           /\ osecs' = [k \in DOMAIN sorted |-> [sorted[k] EXCEPT !.size = laid[k].end]]
           /\ isecs' = [i \in DOMAIN isecs |->
                          LET in == {k \in DOMAIN osecs : i \in Range(osecs[k].members)} IN
                          IF in = {} THEN isecs[i]
                          ELSE [isecs[i] EXCEPT !.off = laid[CHOOSE k \in in : TRUE].off[i]]]
    /\ pc' = "synthetic"
    /\ UNCHANGED <<l, moves, table, cache, job, groups, own, chunks, hdrs, bounds, segs, ended>>
-----------------------------------------------------------------------------
(* create_synthetic_sections *)
SynthName ==
    [Stubs |-> <<IF o.text_exec THEN "__TEXT_EXEC" ELSE "__TEXT", "__stubs">>,
     StubHelper |-> <<"__TEXT", "__stub_helper">>,
     LazyPtrs |-> <<IF o.shared_region /\ o.data_const THEN "__DATA_CONST" ELSE "__DATA", "__la_symbol_ptr">>,
     Got |-> <<IF o.data_const THEN "__DATA_CONST" ELSE "__DATA", "__got">>,
     InitOffsets |-> <<"__TEXT", "__init_offsets">>,
     ObjcStubs |-> <<IF o.text_exec THEN "__TEXT_EXEC" ELSE "__TEXT", "__objc_stubs">>,
     ObjcMethlist |-> <<"__TEXT", "__objc_methlist">>,
     ObjcImageInfo |-> <<IF o.data_const THEN "__DATA_CONST" ELSE "__DATA", "__objc_imageinfo">>,
     UnwindInfo |-> <<"__TEXT", "__unwind_info">>,
     EhFrame |-> <<"__TEXT", "__eh_frame">>,
     MachHeader |-> <<"__TEXT", "">>]

SynthFlags(kind) ==
    CASE kind \in {"Stubs", "StubHelper", "ObjcStubs"} -> Code
      [] kind = "Got" -> IF o.kext \/ (o.static_link /\ ~o.pie) THEN Plain("regular") ELSE Plain("nonlazy")
      [] kind = "LazyPtrs" -> Plain("lazy")
      [] OTHER -> Plain("regular")

Unit(kind) == [kind |-> kind, i |-> 0]

Needed(kinds) == [k \in DOMAIN SelectSeq(kinds, LAMBDA kind : kind \in l.needs) |->
                    Unit(SelectSeq(kinds, LAMBDA kind : kind \in l.needs)[k])]

\* append_tail: one tail a section, of the last kind appended
AppendTail(os, p2, tail, size) ==
    LET at == AlignTo(os.size, p2) IN
    [os EXCEPT !.p2align = MaxOf(os.p2align, p2), !.tail = tail, !.tailOff = at, !.size = at + size]

TailSection(st, name, flags, p2, tail, size) ==
    LET made == WithSection(st, name, flags, None)
        k    == FindOutputSection(made.osecs, name)
    IN  [made EXCEPT !.osecs[k] = AppendTail(made.osecs[k], p2, tail, size)]

FinalName(sec, type) == OutputSectionFor([o EXCEPT !.relocatable = FALSE], sec, Plain(type)).name

\* add_objc_stubs: the selector strings and references, after the inputs'
WithObjcStubs(st) ==
    LET names == IF l.methname = 0 THEN st
                 ELSE TailSection(st, FinalName(<<"__TEXT", "__objc_methname">>, "cstring"), Plain("cstring"), 0,
                                  "methname", l.methname)
    IN  IF l.selrefs = 0 THEN names
        ELSE TailSection(names, FinalName(<<"__DATA", "__objc_selrefs">>, "litptrs"), Plain("regular"), 3,
                         "selrefs", 8 * l.selrefs)

\* Where a section's tail of records will start
TailStart(os, name, p2) ==
    LET k == FindOutputSection(os, name) IN IF k = 0 THEN 0 ELSE AlignTo(os[k].size, p2)

(* place_tail_blobs: the records not placed among the inputs, section by   *)
(* section, each at its own alignment from where the tail will start       *)
\* The records of a section that are not placed yet
TailBlobs(st, sect) ==
    SelectSeq([k \in DOMAIN l.blobs |-> l.blobs[k].isec],
              LAMBDA i : /\ st.isecs[i].osec = 0
                         /\ \E b \in Range(l.blobs) : b.isec = i /\ b.sect = sect)

PutTailBlobs(st, k, blobs, off) ==
    [st EXCEPT !.osecs[k].p2align = Max({@} \cup {st.isecs[i].p2align : i \in Range(blobs)}),
               !.isecs = [i \in DOMAIN st.isecs |->
                            IF i \in Range(blobs) THEN [st.isecs[i] EXCEPT !.osec = k, !.off = off[i]]
                            ELSE st.isecs[i]]]

AddTailBlobs(st, name, blobs, start, laid) ==
    PutTailBlobs(TailSection(st, name, Plain("regular"), st.isecs[blobs[1]].p2align, "blobs", laid.end - start),
                 IF FindOutputSection(st.osecs, name) = 0 THEN Len(st.osecs) + 1 ELSE FindOutputSection(st.osecs, name),
                 blobs, laid.off)

LayTailBlobs(st, name, blobs, start) ==
    AddTailBlobs(st, name, blobs, start,
                 FoldLeft(LAMBDA a, i : LET off == AlignTo(a.end, st.isecs[i].p2align) IN
                                        [end |-> off + st.isecs[i].size, off |-> (i :> off) @@ a.off],
                          [end |-> start, off |-> <<>>], blobs))

PlaceTailBlobsNamed(st, name, blobs) ==
    IF blobs = <<>> THEN st
    ELSE LayTailBlobs(st, name, blobs, TailStart(st.osecs, name, st.isecs[blobs[1]].p2align))

PlaceTailBlobs(st, sect) ==
    PlaceTailBlobsNamed(st, FinalName(<<"__DATA", sect>>, "regular"), TailBlobs(st, sect))

(* lay_out_objc_method_lists: the relative lists, in __objc_methlist or in *)
(* the section a move takes them to                                        *)
ListsAt(st, lists) ==
    FoldLeft(LAMBDA a, i : [end |-> AlignTo(a.end, 3) + st.isecs[i].size, off |-> (i :> AlignTo(a.end, 3)) @@ a.off],
             [end |-> 0, off |-> <<>>], lists)

\* The lists at their offsets from `base`, in output section k if they have one
PutLists(st, laid, base, k) ==
    [st EXCEPT !.isecs = [i \in DOMAIN st.isecs |->
                            IF i \in DOMAIN laid.off
                            THEN [st.isecs[i] EXCEPT !.off  = base + laid.off[i],
                                                     !.osec = IF k = 0 THEN @ ELSE k]
                            ELSE st.isecs[i]]]

AppendLists(st, laid, k) ==
    PutLists([st EXCEPT !.osecs[k] = AppendTail(st.osecs[k], 3, "lists", laid.end)],
             laid, AlignTo(st.osecs[k].size, 3), k)

MethlistSection == [name |-> <<"__TEXT", "__objc_methlist">>, flags |-> Plain("regular")]

StayingLists(st, lists) ==
    IF lists = <<>> THEN st
    ELSE [PutLists(st, ListsAt(st, lists), 0, 0) EXCEPT !.chunks = Append(@, Unit("ObjcMethlist"))]

MovedLists(st, lists, name) == AppendLists(st, ListsAt(st, lists), FindOutputSection(st.osecs, name))

SplitLists(st, here, there, dest) ==
    MovedLists(StayingLists(RecordSection(st, MethlistSection, dest), here), there, dest.name)

WithMethodLists(st) ==
    LET goes(i) == moves[i] # None /\ moves[i].option = "ro"
        here  == SelectSeq(l.lists, LAMBDA i : ~goes(i))
        there == SelectSeq(l.lists, goes)
    IN  IF there = <<>> THEN StayingLists(st, here)
        ELSE SplitLists(st, here, there, FinalDest(MethlistSection, moves[there[1]]))

\* The tables of __LINKEDIT, in their order
LinkeditTables ==
    LET dyld == CASE o.legacy_linkedit -> (IF o.never_slid THEN <<>> ELSE <<"LocalRelocs">>) \o <<"ExportTrie">>
                  [] ~WithoutDyld(o) -> <<"ChainedFixups", "RebaseInfo", "BindInfo", "WeakBindInfo", "LazyBindInfo",
                                          "ExportTrie">>
                  [] o.chained -> IF o.fixup_chains_section THEN <<>> ELSE <<"ChainedFixups">>
                  [] o.no_fixup_chains -> <<"RebaseInfo", "WeakBindInfo">>
                  [] o.pie \/ o.kext -> <<"LocalRelocs">>
                  [] OTHER -> <<>>
        opt(kind, wanted) == IF wanted THEN <<kind>> ELSE <<>>
    IN  dyld \o opt("SplitInfo", o.shared_region \/ (o.shared_cache_marker /\ ~o.preload))
             \o <<"FunctionStarts">> \o opt("DataInCode", o.data_in_code_info)
             \o opt("MergeableRecord", o.make_mergeable) \o <<"Symtab">>
             \o opt("ExternRelocs", o.kext \/ o.legacy_linkedit) \o <<"Strtab">>
             \o opt("CodeSignature", o.adhoc_codesign)

Units(kinds) == [k \in DOMAIN kinds |-> Unit(kinds[k])]

CreateSyntheticSections ==
    /\ pc = "synthetic"
    /\ \E stubs \in {[Now EXCEPT !.chunks = @ \o Needed(<<"Stubs", "StubHelper", "LazyPtrs", "Got", "InitOffsets",
                                                            "ObjcStubs">>)]} :
       \E sects \in {SetToSortSeq({b.sect : b \in Range(l.blobs)}, LAMBDA a, b : o.sectRank[a] < o.sectRank[b])} :
       \E placed \in {FoldLeft(PlaceTailBlobs, WithObjcStubs(stubs), sects)} :
       \E after \in {WithMethodLists(placed)} :
           /\ osecs' = after.osecs
           /\ isecs' = after.isecs
           /\ chunks' = after.chunks \o [k \in DOMAIN own |-> [kind |-> "SectCreate", i |-> k]]
                        \o Needed(<<"ObjcImageInfo", "UnwindInfo", "EhFrame">>) \o Units(LinkeditTables)
           /\ hdrs' = SynthName
    /\ pc' = "rename"
    /\ UNCHANGED <<l, moves, table, cache, job, groups, own, bounds, segs, ended>>

RenameSyntheticSections ==
    /\ pc = "rename"
    /\ hdrs' = IF o.rename_sections = <<>> /\ o.rename_segments = <<>> /\ ~ConstInterpose(o) THEN hdrs
               ELSE [kind \in DOMAIN hdrs |->
                       CASE kind = "MachHeader" -> <<HeaderSegment(o), "">>
                         [] kind = "UnwindInfo" -> hdrs[kind]
                         [] OTHER -> MapRenamed(o, hdrs[kind])]
    /\ pc' = "boundaries"
    /\ UNCHANGED <<l, isecs, moves, table, cache, job, groups, osecs, own, chunks, bounds, segs, ended>>
-----------------------------------------------------------------------------
(* A chunk's header *)
Hdr(id) ==
    CASE id.kind = "Output" -> [name |-> osecs[id.i].name, flags |-> osecs[id.i].flags, sect |-> TRUE]
      [] id.kind = "SectCreate" -> [name |-> own[id.i].name, flags |-> own[id.i].flags, sect |-> TRUE]
      [] id.kind \in DOMAIN hdrs -> [name |-> hdrs[id.kind], flags |-> SynthFlags(id.kind), sect |-> id.kind # "MachHeader"]
      [] OTHER -> [name |-> <<"__LINKEDIT", "">>, flags |-> Plain("regular"), sect |-> FALSE]

Seg(id) == Hdr(id).name[1]

\* The section a section$start$ or section$end$ symbol stands for
BoundarySection(b) ==
    LET standard == StandardFlags(<<b.seg, b.sect>>)
        flags    == IF standard = None THEN Plain("regular") ELSE standard
    IN  MapRenamed(o, BoundaryName(o, ZeroFillName(o, <<b.seg, b.sect>>, flags)))

(* add_boundary_sections: settles what the symbols name, and makes the     *)
(* sections nothing else does                                              *)
AddBoundarySection(st, b) ==
    LET name     == BoundarySection(b)
        standard == StandardFlags(<<b.seg, b.sect>>)
        exists   == \/ \E id \in Range(chunks) : Hdr(id).sect /\ Hdr(id).name = name
                    \/ \E k \in Len(own) + 1 .. Len(st.own) : st.own[k].name = name
    IN  IF b.sect = None
        THEN [st EXCEPT !.bounds = Append(@, [seg |-> RenamedSegment(o, b.seg), sect |-> None])]
        ELSE [bounds |-> Append(st.bounds, [seg |-> name[1], sect |-> name[2]]),
              own    |-> IF exists THEN st.own
                         ELSE Append(st.own, [name |-> name, size |-> 0, p2align |-> 0,
                                              flags |-> IF standard = None THEN Plain("regular") ELSE standard])]

AddBoundarySections ==
    /\ pc = "boundaries"
    /\ \E after \in {FoldLeft(AddBoundarySection, [bounds |-> <<>>, own |-> own], l.bounds)} :
       /\ bounds' = after.bounds
       /\ own' = after.own
       /\ chunks' = chunks \o [k \in 1 .. Len(after.own) - Len(own) |-> [kind |-> "SectCreate", i |-> Len(own) + k]]
    /\ pc' = "sort"
    /\ UNCHANGED <<l, isecs, moves, table, cache, job, groups, osecs, hdrs, segs, ended>>
-----------------------------------------------------------------------------
(* sort_output_sections *)
StandardRank(seg) ==
    CASE seg \in {"__TEXT", "__TEXT_EXEC"} -> 0
      [] seg = "__DATA_CONST" /\ ~WithoutDyld(o) -> 1
      [] seg = "__AUTH" /\ ~o.static_link -> 3
      [] seg = "__DATA" -> 4
      [] seg = "__DATA_CONST" /\ ~o.static_link -> 5
      [] seg = "__DATA_DIRTY" /\ ~WithoutDyld(o) -> 5
      [] OTHER -> 6

LastRank == 99

SegmentRank(id) ==
    LET seg == Seg(id)
        at  == SelectInSeq(o.segment_order, LAMBDA s : s = seg)
    IN  CASE id.kind = "MachHeader" /\ o.preload -> 0
          [] seg = "__TEXT" /\ ~o.preload -> 0
          [] seg = "__LINKEDIT" -> LastRank
          [] at # 0 -> at
          [] OTHER -> 1 + Len(o.segment_order) + StandardRank(seg)

FirstSeen(seg) == Min({k \in DOMAIN chunks : Seg(chunks[k]) = seg})

ListedRank(id) ==
    LET hdr  == Hdr(id)
        seg  == SelectInSeq(o.section_order, LAMBDA e : e.seg = hdr.name[1])
        list == o.section_order[seg].list
        at   == SelectInSeq(list, LAMBDA s : s = hdr.name[2])
    IN  CASE seg = 0 -> 0
          [] at # 0 -> at
          [] ~hdr.sect \/ hdr.name = <<"__TEXT", "__text">> -> 0
          [] OTHER -> LastRank

\* Where a chunk goes among those of its segment
SectionRank(id) ==
    LET hdr == Hdr(id) IN
    CASE id.kind = "MachHeader" -> 0
      [] id.kind = "CodeSignature" -> LastRank
      [] o.encryptable /\ hdr.name = <<"__TEXT", "__oslogstring">> -> 5
      [] hdr.flags.type = "tlvbss" -> 1
      [] hdr.flags.code -> 2
      [] hdr.flags.type = "tlvdata" -> 4
      [] OTHER -> 3

\* Faulty variant: the segments are ranked, and not told apart beyond that
SortKey_NotFirstSeen(id) ==
    <<SegmentRank(id), IF IsZeroFill(Hdr(id).flags.type) THEN 1 ELSE 0, ListedRank(id), SectionRank(id)>>

SortKey(id) ==
    <<SegmentRank(id), FirstSeen(Seg(id)), IF IsZeroFill(Hdr(id).flags.type) THEN 1 ELSE 0,
      ListedRank(id), SectionRank(id)>>

SortOutputSections ==
    /\ pc = "sort"
    /\ chunks' = SortedBy(chunks, SortKey)
    /\ pc' = "segments"
    /\ UNCHANGED <<l, isecs, moves, table, cache, job, groups, osecs, own, hdrs, bounds, segs, ended>>

(* create_segments, add_boundary_segments and add_stack_segment            *)
WithChunk(ss, id) ==
    CASE id.kind = "MachHeader" /\ o.preload -> ss
      [] ss = <<>> \/ ss[Len(ss)].name # Seg(id) -> Append(ss, [name |-> Seg(id), chunks |-> <<id>>])
      [] OTHER -> [ss EXCEPT ![Len(ss)].chunks = Append(ss[Len(ss)].chunks, id)]

EmptySegment(name) == [name |-> name, chunks |-> <<>>]

BeforeLinkedit(ss, new) == SubSeq(ss, 1, Len(ss) - 1) \o new \o <<ss[Len(ss)]>>

\* The segments boundary symbols name that the image lacks, by symbol name
MissingSegments(ss) ==
    LET named == SelectSeq(bounds, LAMBDA b : b.sect = None /\ \A k \in DOMAIN ss : ss[k].name # b.seg)
        names == [k \in DOMAIN named |-> named[k].seg]
        firsts == SelectSeq([k \in DOMAIN names |-> k], LAMBDA k : \A j \in 1 .. k - 1 : names[j] # names[k])
    IN  [k \in DOMAIN firsts |-> EmptySegment(names[firsts[k]])]

CreateSegments ==
    /\ pc = "segments"
    /\ LET zero  == IF o.pagezero THEN <<EmptySegment("__PAGEZERO")>> ELSE <<>>
           all   == FoldLeft(WithChunk, zero, chunks)
           bound == BeforeLinkedit(all, MissingSegments(all))
       IN  segs' = IF o.stack THEN BeforeLinkedit(bound, <<EmptySegment("__UNIXSTACK")>>) ELSE bound
    /\ pc' = "alignments"
    /\ UNCHANGED <<l, isecs, moves, table, cache, job, groups, osecs, own, chunks, hdrs, bounds, ended>>

(* finish_section_alignments, for the sections of inputs and options       *)
FinishedAlign(name, p2) ==
    LET i      == SelectInSeq(o.sectalign, LAMBDA e : e.name = name)
        asked  == IF i = 0 THEN p2 ELSE o.sectalign[i].p2align
        capped == ~o.relocatable /\ ~o.static_link /\ ~o.kext
    IN  CASE o.dylinker /\ name = TextSectionName(o) -> 12
          [] capped /\ asked > o.segment_align -> o.segment_align
          [] OTHER -> asked

FinishSectionAlignments ==
    /\ pc = "alignments"
    /\ osecs' = [k \in DOMAIN osecs |-> [osecs[k] EXCEPT !.p2align = FinishedAlign(osecs[k].name, @)]]
    /\ own' = [k \in DOMAIN own |-> [own[k] EXCEPT !.p2align = FinishedAlign(own[k].name, @)]]
    /\ pc' = "checks"
    /\ UNCHANGED <<l, isecs, moves, table, cache, job, groups, chunks, hdrs, bounds, segs, ended>>

\* check_section_order: a listed zero-fill section before one with contents
BadSectionOrder(e) ==
    LET sects  == SelectSeq(chunks, LAMBDA id : Hdr(id).sect /\ Seg(id) = e.seg)
        listed == FlattenSeq([k \in DOMAIN e.list |->
                    LET named == SelectSeq(sects, LAMBDA id : Hdr(id).name[2] = e.list[k]) IN
                    IF named = <<>> THEN <<>> ELSE <<named[1]>>])
        others == SelectSeq(sects, LAMBDA id : Hdr(id).name[2] \notin Range(e.list) /\ Hdr(id).name # <<"__TEXT", "__text">>)
        order  == listed \o others
        zero(k) == IsZeroFill(Hdr(order[k]).flags.type)
    IN  \E k \in DOMAIN order : zero(k) /\ \E j \in k .. Len(order) : ~zero(j)

HasInterposing ==
    /\ o.shared_region
    /\ \E id \in Range(chunks) : Hdr(id).sect /\ Hdr(id).name[2] = "__interpose"
                                 /\ Seg(id) \in {"__DATA", "__DATA_CONST", "__DATA_DIRTY", "__AUTH"}

\* The checks of the options, and then -no_zero_fill_sections
CheckSections ==
    /\ pc = "checks"
    /\ ended' = CASE \E e \in Range(o.section_order) : BadSectionOrder(e) -> "zero fill ordered first"
                  [] chunks[1].kind # "MachHeader" -> "header not first"
                  [] HasInterposing -> "interposing"
                  [] OTHER -> "laid out"
    /\ osecs' = IF ~o.no_zero_fill \/ o.relocatable THEN osecs
                ELSE [k \in DOMAIN osecs |->
                        [osecs[k] EXCEPT !.flags.type = CASE @ = "zerofill" -> "regular"
                                                          [] @ = "tlvbss" -> "tlvdata"
                                                          [] OTHER -> @]]
    /\ pc' = "done"
    /\ UNCHANGED <<l, isecs, moves, table, cache, job, groups, own, chunks, hdrs, bounds, segs>>

Finished == pc = "done" /\ UNCHANGED sectionVars
-----------------------------------------------------------------------------
SectionsInit ==
    \E family \in Links : \E link \in family :
        /\ l = link
        /\ pc = "moves"
        /\ isecs = [i \in DOMAIN link.isecs |->
                      [sec |-> link.isecs[i].sec, size |-> link.isecs[i].size, p2align |-> link.isecs[i].p2align,
                       alive |-> link.isecs[i].alive, repl |-> link.isecs[i].repl, placed |-> link.isecs[i].placed,
                       cold |-> link.isecs[i].cold, osec |-> 0, off |-> 0]]
        /\ moves = [i \in DOMAIN link.isecs |-> None]
        /\ table = NoTable
        /\ cache = [w \in Workers |-> NoCache]
        /\ job = [w \in Workers |-> None]
        /\ groups = [b \in 1 .. ((Len(link.isecs) + Block - 1) \div Block) |-> None]
        /\ osecs = <<>> /\ own = <<>> /\ chunks = <<>> /\ hdrs = <<>> /\ bounds = <<>> /\ segs = <<>>
        /\ ended = None

SectionsNext ==
    \/ FindMoves
    \/ \E w \in Workers : TakeBlock(w) \/ SkipSubsection(w) \/ GroupSubsection(w)
    \/ AssignInputSections \/ PlaceReplacingBlobs \/ PlaceSectcreateInputs \/ LayOutMembers
    \/ CreateSyntheticSections \/ RenameSyntheticSections \/ AddBoundarySections
    \/ SortOutputSections \/ CreateSegments \/ FinishSectionAlignments \/ CheckSections
    \/ Finished

SectionsSpec == SectionsInit /\ [][SectionsNext]_sectionVars
-----------------------------------------------------------------------------
(* What is right *)
DestOf(i) == Destination(o, Sec(l.isecs[i].sec), moves[i])

ToPlace == {i \in DOMAIN l.isecs : l.isecs[i].alive /\ l.isecs[i].repl = 0 /\ ~l.isecs[i].placed}

(* However the workers' jobs interleave, and whatever their caches hold,   *)
(* the output sections are those of the names the live subsections go to,  *)
(* in the order of their first members, each with its members in input     *)
(* order and the flags and the move of the first of them; and a subsection *)
(* is dropped only if its section goes to no output (assign_input_sections *)
(* and group_input_sections).                                              *)
SectionsAsSequential ==
    pc = "blobs" =>
        LET placed == {i \in ToPlace : DestOf(i) # None}
            first(k) == osecs[k].members[1]
        IN  /\ {osecs[k].name : k \in DOMAIN osecs} = {DestOf(i).name : i \in placed}
            /\ \A k \in DOMAIN osecs :
                  /\ osecs[k].members = SetToSortSeq({i \in placed : DestOf(i).name = osecs[k].name}, <)
                  /\ k > 1 => first(k - 1) < first(k)
                  /\ osecs[k].moved = DestOf(first(k)).moved
                  /\ \A i \in Range(osecs[k].members) : isecs[i].osec = k /\ isecs[i].p2align <= osecs[k].p2align
                  /\ osecs[k].tlv <=> \E i \in Range(osecs[k].members) : IsThreadLocal(Sec(isecs[i].sec).flags.type)
                  /\ ~o.relocatable /\ IsZeroFill(osecs[k].flags.type)
                        => \A i \in Range(osecs[k].members) : IsZeroFillInput(Sec(isecs[i].sec).flags.type)
            /\ \A i \in ToPlace : isecs[i].alive <=> i \in placed

\* What lies in an output section: members, records and the selectors' tail
Extents(k) ==
    {[at |-> isecs[i].off, end |-> isecs[i].off + isecs[i].size, who |-> i] :
        i \in {j \in DOMAIN isecs : isecs[j].osec = k /\ isecs[j].alive /\ isecs[j].size > 0}}
    \cup (IF osecs[k].tail \in {"methname", "selrefs"}
          THEN {[at |-> osecs[k].tailOff, end |-> osecs[k].size, who |-> 0]} ELSE {})

(* Nothing in an output section overlaps anything else in it or lies past  *)
(* its end - input subsections, the records that replace some of them or   *)
(* go in its tail, -sectcreate contents and selector references - and each *)
(* is at its alignment (compute_section_sizes, place_replacing_blobs,      *)
(* place_tail_blobs, append_tail).                                         *)
ContentsApart ==
    pc = "rename" => \A k \in DOMAIN osecs :
        /\ \A a, b \in Extents(k) : a # b => a.end <= b.at \/ b.end <= a.at
        /\ \A a \in Extents(k) : a.end <= osecs[k].size
        /\ \A i \in DOMAIN isecs : isecs[i].osec = k => /\ isecs[i].off % 2 ^ isecs[i].p2align = 0
                                                        /\ isecs[i].p2align <= osecs[k].p2align

(* A boundary symbol always has a section or a segment of the image to     *)
(* name (fix_synthetic_symbols would fail the link otherwise), and it is   *)
(* the one the input sections of that name went to, unless the linker      *)
(* merged or moved those (add_boundary_sections, add_boundary_segments).   *)
BoundariesFollowInputs ==
    pc = "done" => \A k \in DOMAIN bounds :
        LET b == bounds[k] IN
        /\ b.sect # None => \E id \in Range(chunks) : Hdr(id).sect /\ Hdr(id).name = <<b.seg, b.sect>>
        /\ b.sect = None => \E n \in DOMAIN segs : segs[n].name = b.seg
        /\ ~o.relocatable /\ b.sect # None => \A i \in ToPlace :
              LET sec == Sec(l.isecs[i].sec) IN
              /\ sec.name = <<l.bounds[k].seg, l.bounds[k].sect>>
              /\ sec.flags = StandardFlags(sec.name)
              /\ moves[i] = None /\ DestOf(i) # None
              /\ MergedName(sec.name) = None /\ ~o.text_exec
              => DestOf(i).name = <<b.seg, b.sect>>

(* The chunks of a laid-out image are in the order its loader needs: a     *)
(* segment's chunks together, the mach header's segment first and          *)
(* __LINKEDIT last with the signature at its end, zero fill after a        *)
(* segment's contents, and the thread-local template in one piece          *)
(* (sort_output_sections and create_segments).                             *)
ImageInOrder ==
    pc = "done" /\ ended = "laid out" =>
        /\ \A i, j \in DOMAIN segs : segs[i].name = segs[j].name => i = j
        /\ segs[Len(segs)].name = "__LINKEDIT"
        /\ ~o.preload => segs[IF o.pagezero THEN 2 ELSE 1].chunks[1].kind = "MachHeader"
        /\ o.adhoc_codesign => chunks[Len(chunks)].kind = "CodeSignature"
        /\ \A n \in DOMAIN segs : \A i, j \in DOMAIN segs[n].chunks :
              i < j /\ IsZeroFill(Hdr(segs[n].chunks[i]).flags.type) => IsZeroFill(Hdr(segs[n].chunks[j]).flags.type)
        /\ o.section_order = <<>> => \A n \in DOMAIN segs : \A i, j, k \in DOMAIN segs[n].chunks :
              LET tlv(m) == IsThreadLocal(Hdr(segs[n].chunks[m]).flags.type) IN
              i < j /\ j < k /\ tlv(i) /\ tlv(k) => tlv(j)
=============================================================================
