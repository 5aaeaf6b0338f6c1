------------------------------- MODULE Objects -------------------------------
(***************************************************************************)
(* The objects of a link join it (macho/reader.rs load_pending,            *)
(* macho/input_files.rs integrate_objects and integrate_object), and their *)
(* unwind information goes through the link to the image                   *)
(* (remove_dead_unwind_info, chunks/eh_frame.rs, chunks/unwind_info.rs).   *)
(*                                                                         *)
(* A link has batches, each a sequence of objects staged at once (one of   *)
(* `alone`, by itself, is what parse_object adds), kept (see Staging),     *)
(* and what the passes in between do: dead, the places of the subsections  *)
(* dead-stripping drops, and folded, pairs of a subsection and the one     *)
(* that stands in for it. order is the order of the code in the image.     *)
(***************************************************************************)
EXTENDS Staging

CONSTANTS Links,          \* families of links
          MaxFdeOffset,   \* MAX_FDE_OFFSET
          PageSpan,       \* the code a second-level page can cover
          PageEncodings,  \* the encodings a page can list
          PageSlots,      \* the entries and encodings a page has room for
          MaxPersonalities,
          Unmergeable     \* the encodings of "stack immediate indirect" mode

VARIABLES l,        \* the link
          phase,    \* what is being done
          batch,    \* the number of the batch
          todo,     \* the objects of the batch a thread has yet to see to
          staged,   \* the batch's staged objects
          bases,    \* each one's place in the arenas
          ids,      \* the symbols of the batch's globals
          ctx,      \* the arenas and the objects
          image     \* __eh_frame and __unwind_info

objectVars == <<l, phase, batch, todo, staged, bases, ids, ctx, image>>

Uninit == "uninitialized"

Batch == l.batches[batch]

Sum(f, n) == FoldLeft(+, 0, [i \in 1..n |-> f[i]])

(***************************************************************************)
(* Staging and interning                                                   *)
(***************************************************************************)
Stage(i) ==
    /\ phase = "stage" /\ i \in todo
    /\ LET st == StageObject(Batch[i], l.kept)
       IN  /\ staged' = [staged EXCEPT ![i] = st]
           /\ phase' = IF st.ok THEN phase ELSE "failed"
    /\ todo' = todo \ {i}
    /\ UNCHANGED <<l, batch, bases, ids, ctx, image>>

\* The names of an object's external symbols, those of its half of the table.
Externs(st) ==
    LET js == SelectSeq([j \in DOMAIN st.syms |-> j], LAMBDA j : j \in GlobalRange(st) /\ ~IsLocal(st.syms[j]))
    IN  [k \in DOMAIN js |-> st.syms[js[k]].name]

Global(name) == [name |-> name, owner |-> <<>>]

\* The symbols with `names` interned.
Interned(syms, names) ==
    FoldLeft(LAMBDA s, name : IF Global(name) \in Range(s) THEN s ELSE Append(s, Global(name)), syms, names)

IdOf(syms, name) == CHOOSE k \in DOMAIN syms : syms[k] = Global(name)

NumLocals(st) == IF st.first = -1 THEN Cardinality({j \in DOMAIN st.syms : IsLocal(st.syms[j])}) ELSE st.first

\* Faulty variant: every object's subsections are taken to follow the last batch's.
ArenaBases_NoSum(c, sts, counts) ==
    [i \in DOMAIN sts |->
        [isec |-> Len(c.isecs), cie |-> Len(c.cies), fde |-> Len(c.fdes), unwind |-> Len(c.unwind),
         locals |-> Len(c.syms) + Sum([j \in DOMAIN sts |-> NumLocals(sts[j])], i - 1), ids |-> Sum(counts, i - 1)]]

ArenaBases(c, sts, counts) ==
    [i \in DOMAIN sts |->
        [isec   |-> Len(c.isecs) + Sum([j \in DOMAIN sts |-> Len(sts[j].isecs)], i - 1),
         cie    |-> Len(c.cies) + Sum([j \in DOMAIN sts |-> Len(sts[j].cies)], i - 1),
         fde    |-> Len(c.fdes) + Sum([j \in DOMAIN sts |-> Len(sts[j].fdes)], i - 1),
         unwind |-> Len(c.unwind) + Sum([j \in DOMAIN sts |-> Len(sts[j].unwind)], i - 1),
         locals |-> Len(c.syms) + Sum([j \in DOMAIN sts |-> NumLocals(sts[j])], i - 1),
         ids    |-> Sum(counts, i - 1)]]

Gather ==
    /\ phase = "stage" /\ todo = {} /\ ~(Len(Batch) = 1 /\ Batch[1].alone)
    /\ LET names == FlattenSeq([i \in DOMAIN staged |-> Externs(staged[i])])
           syms  == Interned(ctx.syms, names)
       IN  /\ ids' = [k \in DOMAIN names |-> IdOf(syms, names[k])]
           /\ ctx' = [ctx EXCEPT !.syms = syms]
           /\ bases' = ArenaBases([ctx EXCEPT !.syms = syms], staged,
                                  [i \in DOMAIN staged |-> Len(Externs(staged[i]))])
    /\ phase' = "rebase" /\ todo' = DOMAIN staged
    /\ UNCHANGED <<l, batch, staged, image>>

(***************************************************************************)
(* Integration                                                             *)
(***************************************************************************)
\* The symbol of each of the object's symbols.
SymbolIds(st, firstLocal, globals) ==
    LET LocalsTo(j) == Cardinality({k \in 1..j : IsLocal(st.syms[k])})
    IN  [j \in DOMAIN st.syms |-> IF IsLocal(st.syms[j]) THEN firstLocal + LocalsTo(j) ELSE globals[j - LocalsTo(j)]]

\* Each subsection's run of the unwind records, the last one, as <<first,
\* how many>>; one without records keeps what it has.
UnwindRanges(isecs, recs, base) ==
    [k \in DOMAIN isecs |->
        LET last  == Last0({r \in DOMAIN recs : recs[r].isec = k})
            first == CHOOSE r \in 1..last : /\ \A q \in r..last : recs[q].isec = k
                                            /\ r = 1 \/ recs[r - 1].isec # k
        IN  IF last = 0 THEN isecs[k] ELSE [isecs[k] EXCEPT !.unwind = <<base + first, last - first + 1>>]]

Shifted(id, base) == IF id = NoIsec THEN NoIsec ELSE id + base

ShiftedLsda(lsda, base) == IF lsda = <<>> THEN <<>> ELSE <<lsda[1] + base, lsda[2]>>

\* Faulty variant: a record keeps the subsection its LSDA had in its object.
RebasedRecord_OwnLsda(r, b, symbols) ==
    [r EXCEPT !.isec = @ + b.isec, !.fde = Shifted(@, b.fde), !.pers = IF @ = 0 THEN 0 ELSE symbols[@]]

RebasedRecord(r, b, symbols) ==
    [r EXCEPT !.isec = @ + b.isec, !.lsda = ShiftedLsda(@, b.isec), !.fde = Shifted(@, b.fde),
              !.pers = IF @ = 0 THEN 0 ELSE symbols[@]]

\* The staged object with its indices those of the arenas.
Rebase(st, obj, b, symbols) ==
    LET isecs == UnwindRanges(st.isecs, st.unwind, b.unwind)
        Reloc(rel) == IF rel.sym = 0 THEN [rel EXCEPT !.sect = @ + b.isec] ELSE rel
    IN  [symbols |-> symbols] @@
        [st EXCEPT
            !.isecs = [k \in DOMAIN isecs |-> [isecs[k] EXCEPT !.file = obj,
                          !.rels = [j \in DOMAIN isecs[k].rels |-> Reloc(isecs[k].rels[j])]]],
            !.subsecs = [k \in DOMAIN @ |-> @[k] + b.isec],
            !.symsub  = [k \in DOMAIN @ |-> Shifted(@[k], b.isec)],
            !.unwind  = [k \in DOMAIN @ |-> RebasedRecord(@[k], b, symbols)],
            !.cies    = [k \in DOMAIN @ |-> [@[k] EXCEPT !.obj = obj, !.pers = IF @ = 0 THEN 0 ELSE symbols[@]]],
            !.fdes    = [k \in DOMAIN @ |-> [@[k] EXCEPT !.obj = obj, !.isec = @ + b.isec, !.cie = @ + b.cie,
                                                         !.lsda = ShiftedLsda(@, b.isec)]]]

RebaseObject(i) ==
    /\ phase = "rebase" /\ i \in todo
    /\ LET b == bases[i]
           symbols == SymbolIds(staged[i], b.locals, SubSeq(ids, b.ids + 1, Len(ids)))
       IN  staged' = [staged EXCEPT ![i] = Rebase(@, Len(ctx.objs) + i, b, symbols)]
    /\ todo' = todo \ {i}
    /\ UNCHANGED <<l, phase, batch, bases, ids, ctx, image>>

\* The symbols an object's locals become, of its half of the table.
LocalsOf(st, obj) ==
    LET js == SelectSeq([j \in DOMAIN st.syms |-> j], LAMBDA j : j \in LocalRange(st) /\ IsLocal(st.syms[j]))
    IN  [k \in DOMAIN js |-> [name |-> st.syms[js[k]].name, owner |-> <<obj, js[k]>>]]

Arenas == <<"syms", "isecs", "unwind", "cies", "fdes">>

NextArena(a) == CHOOSE k \in DOMAIN Arenas : Arenas[k] = a

\* What object i adds to an arena.
Part(a, i) ==
    CASE a = "syms"   -> LocalsOf(staged[i], Len(ctx.objs) + i)
      [] a = "isecs"  -> staged[i].isecs
      [] a = "unwind" -> staged[i].unwind
      [] a = "cies"   -> staged[i].cies
      [] a = "fdes"   -> staged[i].fdes

Room(a, i) == IF a = "syms" THEN NumLocals(staged[i]) ELSE Len(Part(a, i))

\* Room for the batch is reserved at the end of the next arena; each object
\* has a range of it, which a thread fills.
Reserve ==
    LET a == IF phase = "rebase" THEN Arenas[1] ELSE Arenas[NextArena(phase) + 1]
        room == Sum([i \in DOMAIN staged |-> Room(a, i)], Len(staged))
    IN  /\ todo = {} /\ phase \in {"rebase", "syms", "isecs", "unwind", "cies"}
        /\ ctx' = [ctx EXCEPT ![a] = @ \o [k \in 1..room |-> Uninit]]
        /\ phase' = a /\ todo' = DOMAIN staged
        /\ UNCHANGED <<l, batch, staged, bases, ids, image>>

\* Where object i's range starts.
SpareRange(a, i) ==
    LET rooms == [j \in DOMAIN staged |-> Room(a, j)]
    IN  Len(ctx[a]) - Sum(rooms, Len(staged)) + Sum(rooms, i - 1)

Fill(i) ==
    /\ phase \in Range(Arenas) /\ i \in todo
    /\ LET at == SpareRange(phase, i)
           part == Part(phase, i)
           n == IF Room(phase, i) < Len(part) THEN Room(phase, i) ELSE Len(part)
       IN  ctx' = [ctx EXCEPT ![phase] = [k \in DOMAIN @ |-> IF k \in at + 1..at + n THEN part[k - at] ELSE @[k]]]
    /\ todo' = todo \ {i}
    /\ UNCHANGED <<l, phase, batch, staged, bases, ids, image>>

ObjectFile(st) ==
    [split |-> st.split, subsecs |-> st.subsecs, symsub |-> st.symsub, syms |-> st.syms, symbols |-> st.symbols]

\* The next batch, or what follows the last one.
AfterBatch ==
    IF batch < Len(l.batches)
    THEN /\ batch' = batch + 1 /\ phase' = "stage"
         /\ todo' = DOMAIN l.batches[batch + 1] /\ staged' = [i \in DOMAIN l.batches[batch + 1] |-> Unreadable]
    ELSE phase' = "loaded" /\ todo' = {} /\ staged' = <<>> /\ UNCHANGED batch

PushObjects ==
    /\ phase = "fdes" /\ todo = {}
    /\ ctx' = [ctx EXCEPT !.objs = @ \o [i \in DOMAIN staged |-> ObjectFile(staged[i])]]
    /\ bases' = <<>> /\ ids' = <<>>
    /\ AfterBatch
    /\ UNCHANGED <<l, image>>

\* An object added by itself: its names are interned one by one and it is
\* appended to the arenas.
WithObject(c, st) ==
    LET obj == Len(c.objs) + 1
        Add(s, j) == IF IsLocal(st.syms[j]) THEN Append(s, [name |-> st.syms[j].name, owner |-> <<obj, j>>])
                     ELSE Interned(s, <<st.syms[j].name>>)
        syms == FoldLeft(Add, c.syms, [j \in DOMAIN st.syms |-> j])
        symbols == [j \in DOMAIN st.syms |->
                       IF IsLocal(st.syms[j]) THEN CHOOSE k \in DOMAIN syms : syms[k].owner = <<obj, j>>
                       ELSE IdOf(syms, st.syms[j].name)]
        new == Rebase(st, obj, [isec |-> Len(c.isecs), cie |-> Len(c.cies), fde |-> Len(c.fdes),
                                unwind |-> Len(c.unwind)], symbols)
    IN  [syms |-> syms, isecs |-> c.isecs \o new.isecs, unwind |-> c.unwind \o new.unwind,
         cies |-> c.cies \o new.cies, fdes |-> c.fdes \o new.fdes, objs |-> Append(c.objs, ObjectFile(new))]

IntegrateObject ==
    /\ phase = "stage" /\ todo = {} /\ Len(Batch) = 1 /\ Batch[1].alone
    /\ ctx' = WithObject(ctx, staged[1])
    /\ AfterBatch
    /\ UNCHANGED <<l, bases, ids, image>>

(***************************************************************************)
(* The unwind information in the link                                      *)
(***************************************************************************)
Emitted(isec) == isec.alive /\ isec.repl = NoIsec

HdrOf(k) == FlattenSeq(l.batches)[ctx.isecs[k].file].hdrs[ctx.isecs[k].shndx]

IsCode(k) == HdrOf(k).code

\* The FDEs of the subsections `kept`, and where each FDE goes among them, 0
\* if nowhere.
KeptFdes(fdes, kept) == SelectSeq(fdes, LAMBDA f : f.isec \in kept)

FdeMap(fdes, kept) ==
    [i \in DOMAIN fdes |-> IF fdes[i].isec \in kept THEN Cardinality({j \in 1..i : fdes[j].isec \in kept}) ELSE 0]

Remapped(r, map) == IF r.fde = 0 THEN r ELSE [r EXCEPT !.fde = map[@]]

WithoutDeadUnwindInfo(c) ==
    LET live    == {k \in DOMAIN c.isecs : c.isecs[k].alive}
        map     == FdeMap(c.fdes, live)
        recs    == SelectSeq(c.unwind, LAMBDA r : r.isec \in live)
        mapped  == [k \in DOMAIN recs |-> Remapped(recs[k], map)]
    IN  [c EXCEPT !.fdes = KeptFdes(c.fdes, live), !.unwind = mapped, !.isecs = UnwindRanges(@, mapped, 0)]

\* Dead-stripping drops a function, or none.
StripDead ==
    /\ phase = "loaded"
    /\ \E dead \in {{}} \union {{k} : k \in {j \in DOMAIN ctx.isecs : IsCode(j)}} :
          LET c == [ctx EXCEPT !.isecs = [k \in DOMAIN @ |-> [@[k] EXCEPT !.alive = @ /\ k \notin dead]]]
          IN  ctx' = IF dead = {} THEN c ELSE WithoutDeadUnwindInfo(c)
    /\ phase' = "stripped"
    /\ UNCHANGED <<l, batch, todo, staged, bases, ids, image>>

\* A function is replaced by one of another object, or none is.
Foldable(a, b) ==
    /\ a # b /\ IsCode(a) /\ IsCode(b) /\ ctx.isecs[a].file # ctx.isecs[b].file
    /\ Emitted(ctx.isecs[a]) /\ Emitted(ctx.isecs[b]) /\ ctx.isecs[a].size = ctx.isecs[b].size

Fold ==
    /\ phase = "stripped"
    /\ \/ UNCHANGED ctx
       \/ \E a, b \in DOMAIN ctx.isecs : Foldable(a, b) /\ ctx' = [ctx EXCEPT !.isecs[a].repl = b]
    /\ phase' = "folded"
    /\ UNCHANGED <<l, batch, todo, staged, bases, ids, image>>

RECURSIVE ResolvedIsec(_, _)
ResolvedIsec(isecs, k) == IF isecs[k].repl = NoIsec THEN k ELSE ResolvedIsec(isecs, isecs[k].repl)

\* The FDEs of folded copies are dropped with the records that name them.
WithoutFoldedUnwindInfo(c) ==
    LET own    == {k \in DOMAIN c.isecs : c.isecs[k].repl = NoIsec}
        map    == FdeMap(c.fdes, own)
        recs   == SelectSeq(c.unwind, LAMBDA r : r.fde = 0 \/ map[r.fde] # 0)
        mapped == [k \in DOMAIN recs |-> Remapped(recs[k], map)]
    IN  [c EXCEPT !.fdes = KeptFdes(c.fdes, own), !.unwind = mapped,
                  !.isecs = IF Len(recs) < Len(c.unwind) THEN UnwindRanges(@, mapped, 0) ELSE @]

\* The CIEs in use, then the FDEs, a word each.
WithFrameOffsets(c) ==
    LET used == {f.cie : f \in Range(c.fdes)}
        cies == [k \in DOMAIN c.cies |-> [c.cies[k] EXCEPT !.alive = k \in used,
                                             !.at = Cardinality({j \in used : j < k})]]
    IN  IF c.fdes = <<>> THEN c
        ELSE [c EXCEPT !.cies = cies,
                       !.fdes = [k \in DOMAIN @ |-> [@[k] EXCEPT !.at = Cardinality(used) + k - 1]]]

ConstructEhFrame ==
    /\ phase = "folded"
    /\ ctx' = WithFrameOffsets(WithoutFoldedUnwindInfo(ctx))
    /\ phase' = "framed"
    /\ UNCHANGED <<l, batch, todo, staged, bases, ids, image>>

(***************************************************************************)
(* __eh_frame and __unwind_info. The code is laid out from address 1 in    *)
(* the order of the subsections or the reverse, then everything else.      *)
(***************************************************************************)
Before(j, k) == IF IsCode(j) = IsCode(k) THEN (IF l.reversed THEN j > k ELSE j < k) ELSE IsCode(j)

Addr(k) ==
    LET r == ResolvedIsec(ctx.isecs, k)
        at == {j \in DOMAIN ctx.isecs : Emitted(ctx.isecs[j]) /\ j # r /\ Before(j, r)}
    IN  1 + FoldLeft(LAMBDA n, j : n + (IF j \in at THEN ctx.isecs[j].size ELSE 0), 0, [j \in DOMAIN ctx.isecs |-> j])

FuncAddr(r) == Addr(r.isec) + r.off

\* The code of a subsection without unwind information: where no record of
\* its own starts, and in an object without subsections where one ends.
BareCodeRecords(k) ==
    LET s    == ctx.isecs[k]
        recs == IF s.unwind[2] = 0 THEN {} ELSE {ctx.unwind[r] : r \in s.unwind[1]..s.unwind[1] + s.unwind[2] - 1}
        ends == IF ctx.objs[s.file].split THEN {} ELSE {e \in {r.off + r.len : r \in recs} : e < s.size}
        offs == {e \in {0} \union ends : ~\E r \in recs : r.off = e}
    IN  {UnwindRecord(k, off, 0, 0, 0) : off \in offs}

TableRecords ==
    LET own  == SelectSeq(ctx.unwind, LAMBDA r : Emitted(ctx.isecs[r.isec]))
        bare == SetToSeq(UNION {BareCodeRecords(k) : k \in {j \in DOMAIN ctx.isecs : IsCode(j) /\ Emitted(ctx.isecs[j])}})
        Encoded(r) == IF r.fde = 0 THEN r
                      ELSE LET at == ctx.fdes[r.fde].at
                           IN  [r EXCEPT !.enc = Dwarf + IF at <= MaxFdeOffset THEN at ELSE 0]
        all  == [k \in DOMAIN (own \o bare) |-> Encoded((own \o bare)[k])]
        key(k) == FuncAddr(all[k]) * 2 * Dwarf + all[k].enc
        order  == SortedPlaces(Len(all), key)
    IN  [k \in DOMAIN all |-> all[order[k]]]

PersonalityUnit == 10 * Dwarf

\* The personality routines, in order of first use.
Personalities(recs) ==
    FoldLeft(LAMBDA ps, r : IF r.pers = 0 \/ r.pers \in Range(ps) THEN ps ELSE Append(ps, r.pers), <<>>, recs)

WithPersonalities(recs, ps) ==
    [k \in DOMAIN recs |-> IF recs[k].pers = 0 THEN recs[k]
                           ELSE [recs[k] EXCEPT !.enc = @ + PersonalityUnit * CHOOSE p \in DOMAIN ps : ps[p] = recs[k].pers]]

Mergeable(prev, r) ==
    r.enc % PersonalityUnit \notin Unmergeable /\ prev.enc = r.enc /\ prev.pers = r.pers /\ prev.lsda = <<>> /\ r.lsda = <<>>

MergeRecords(recs) ==
    FoldLeft(LAMBDA s, r : IF s # <<>> /\ Mergeable(Last(s), r) THEN s ELSE Append(s, r), <<>>, recs)

PageHolds(page, r) ==
    LET encs == IF r.enc \in Range(page.encs) THEN page.encs ELSE Append(page.encs, r.enc)
    IN  /\ Len(encs) <= PageEncodings
        /\ Len(page.recs) + 1 + Len(encs) <= PageSlots
        /\ FuncAddr(r) - FuncAddr(page.recs[1]) < PageSpan

SplitPages(recs) ==
    FoldLeft(LAMBDA ps, r :
                IF ps # <<>> /\ PageHolds(Last(ps), r)
                THEN [ps EXCEPT ![Len(ps)] = [recs |-> Append(@.recs, r),
                                              encs |-> IF r.enc \in Range(@.encs) THEN @.encs ELSE Append(@.encs, r.enc)]]
                ELSE Append(ps, [recs |-> <<r>>, encs |-> <<r.enc>>]),
             <<>>, recs)

\* A page's rows hold a function's offset from the page's first one, in
\* PageSpan, and an index into the page's encodings.
EncodePage(page) ==
    LET first == FuncAddr(page.recs[1])
        withLsda == SelectSeq(page.recs, LAMBDA r : r.lsda # <<>>)
    IN  [first |-> first, encs |-> page.encs,
         rows  |-> [k \in DOMAIN page.recs |->
                       [off |-> (FuncAddr(page.recs[k]) - first) % PageSpan,
                        idx |-> CHOOSE e \in DOMAIN page.encs : page.encs[e] = page.recs[k].enc]],
         lsda  |-> [k \in DOMAIN withLsda |->
                       [func |-> FuncAddr(withLsda[k]), at |-> Addr(withLsda[k].lsda[1]) + withLsda[k].lsda[2]]]]

\* The FDEs, as the image has them.
Frames ==
    [k \in DOMAIN ctx.fdes |->
        LET f == ctx.fdes[k]
        IN  [at |-> f.at, func |-> FuncAddr(f), len |-> f.len, pers |-> ctx.cies[f.cie].pers,
             lsda |-> IF f.lsda = <<>> THEN 0 ELSE Addr(f.lsda[1]) + f.lsda[2]]]

\* The table: the personalities, then a row for each page, in the order of
\* their first functions, and a last one at the end of the code.
WriteTable(personalities, pages, end) ==
    [personalities |-> personalities, pages |-> [k \in DOMAIN pages |-> EncodePage(pages[k])], end |-> end + 1]

EncodeUnwindInfo ==
    /\ phase = "framed"
    /\ LET recs == TableRecords
           ps   == Personalities(recs)
           tail == ctx.isecs[Last(recs).isec]
           pages == SplitPages(MergeRecords(WithPersonalities(recs, ps)))
       IN  IF Len(ps) > MaxPersonalities THEN phase' = "failed" /\ UNCHANGED image
           ELSE /\ image' = [frames |-> Frames] @@
                            WriteTable(ps, pages, IF recs = <<>> THEN -1 ELSE Addr(Last(recs).isec) + tail.size)
                /\ phase' = "done"
    /\ UNCHANGED <<l, batch, todo, staged, bases, ids, ctx>>

Ended == phase \in {"done", "failed"} /\ UNCHANGED objectVars

NoImage == <<>>

EmptyCtx == [syms |-> <<>>, isecs |-> <<>>, unwind |-> <<>>, cies |-> <<>>, fdes |-> <<>>, objs |-> <<>>]

ObjectsInit ==
    /\ \E family \in Links : l \in family
    /\ phase = "stage" /\ batch = 1
    /\ todo = DOMAIN l.batches[1] /\ staged = [i \in DOMAIN l.batches[1] |-> Unreadable]
    /\ bases = <<>> /\ ids = <<>> /\ ctx = EmptyCtx /\ image = NoImage

ObjectsNext ==
    \/ \E i \in todo : Stage(i) \/ RebaseObject(i) \/ Fill(i)
    \/ Gather \/ Reserve \/ PushObjects \/ IntegrateObject
    \/ StripDead \/ Fold \/ ConstructEhFrame \/ EncodeUnwindInfo
    \/ Ended

ObjectsSpec == ObjectsInit /\ [][ObjectsNext]_objectVars

(***************************************************************************)
(* Properties                                                              *)
(***************************************************************************)
Objs == FlattenSeq(l.batches)

Loaded == phase \in {"loaded", "stripped", "folded", "framed", "done"}

\* The link with its symbols told by their names and owners.
View(c) ==
    LET Sym(k) == IF k = 0 THEN Global("") ELSE c.syms[k]
    IN  [isecs  |-> c.isecs,
         unwind |-> [k \in DOMAIN c.unwind |-> <<[c.unwind[k] EXCEPT !.pers = 0], Sym(c.unwind[k].pers)>>],
         cies   |-> [k \in DOMAIN c.cies |-> <<[c.cies[k] EXCEPT !.pers = 0], Sym(c.cies[k].pers)>>],
         fdes   |-> c.fdes,
         objs   |-> [k \in DOMAIN c.objs |-> <<[c.objs[k] EXCEPT !.symbols = <<>>],
                                               [j \in DOMAIN c.objs[k].symbols |-> Sym(c.objs[k].symbols[j])]>>]]

\* Integrating a batch with threads puts its subsections, records, CIEs,
\* FDEs and symbols where integrate_object, one object at a time, would
\* (integrate_objects, arena_bases, spare_ranges).
IntegratedAsSequential ==
    phase = "loaded" =>
        View(ctx) = View(FoldLeft(LAMBDA c, o : WithObject(c, StageObject(o, l.kept)), EmptyCtx, Objs))

\* The relocations of a section, by the address of their place, with the
\* address and the section or the symbol they point at.
Pointed(o, rel) ==
    IF rel.sym # 0 THEN <<"sym", rel.sym, rel.add>> ELSE <<"section", rel.sect, o.hdrs[rel.sect].addr + rel.add>>

PlacedRelocs(n, i) ==
    LET mine == SelectSeq([k \in DOMAIN ctx.isecs |-> k], LAMBDA k : ctx.isecs[k].file = n /\ ctx.isecs[k].shndx = i)
        Place(k, r) == [at |-> ctx.isecs[k].addr + r.off, ty |-> r.ty, sub |-> r.sub,
                        to |-> IF r.sym # 0 THEN <<"sym", r.sym, r.add>>
                               ELSE <<"section", ctx.isecs[r.sect].shndx, ctx.isecs[r.sect].addr + r.add>>]
    IN  FlattenSeq([m \in DOMAIN mine |-> [j \in DOMAIN ctx.isecs[mine[m]].rels |-> Place(mine[m], ctx.isecs[mine[m]].rels[j])]])

\* Each relocation of a copied section is at one place of one subsection,
\* still pointing where it did, into the section it names, and the two of a
\* pair at one place are in order; each symbol is in the subsection that
\* has its address, of its own section (read_relocations, section_target,
\* find_symbol_subsecs).
PlacesAreKept ==
    phase = "loaded" =>
        \A n \in DOMAIN Objs :
            LET o == Objs[n]
            IN  /\ \A i \in DOMAIN o.hdrs : ~IsConsumed(o.hdrs[i]) =>
                      LET rels == ReadRelocs(o, o.hdrs[i])
                          placed == PlacedRelocs(n, i)
                          At(a) == SelectSeq(rels, LAMBDA r : o.hdrs[i].addr + r.off = a)
                      IN  /\ Len(placed) = Len(rels)
                          /\ \A a \in {p.at : p \in Range(placed)} :
                                SelectSeq(placed, LAMBDA p : p.at = a) =
                                    [k \in DOMAIN At(a) |-> [at |-> a, ty |-> At(a)[k].ty, sub |-> At(a)[k].sub,
                                                             to |-> Pointed(o, At(a)[k])]]
                /\ \A j \in DOMAIN o.syms :
                      LET k == ctx.objs[n].symsub[j]
                      IN  /\ k # NoIsec => /\ ctx.isecs[k].file = n /\ ctx.isecs[k].shndx = o.syms[j].sect
                                           /\ o.syms[j].value - ctx.isecs[k].addr \in 0..ctx.isecs[k].size
                          /\ InSection(o.syms[j]) /\ ~IsConsumed(o.hdrs[o.syms[j].sect]) /\ ~o.syms[j].alt =>
                                k # NoIsec \/ RecordSize(o.hdrs[o.syms[j].sect]) # 0
                          /\ k # NoIsec /\ ~o.syms[j].alt /\ o.split /\ ~IsLiteralSection(o.hdrs[o.syms[j].sect]) =>
                                ctx.isecs[k].addr = o.syms[j].value

(***************************************************************************)
(* The unwinder of the system (external), and what the objects say.        *)
(***************************************************************************)
Unknown == [how |-> "none", enc |-> 0, pers |-> 0, lsda |-> 0, start |-> 0]

ByFrame(f, pc) ==
    IF f.func <= pc /\ pc < f.func + f.len
    THEN [how |-> "dwarf", enc |-> 0, pers |-> f.pers, lsda |-> f.lsda, start |-> f.func] ELSE Unknown

\* What libunwind finds for `pc`.
Unwound(pc) ==
    LET page == Last0({k \in DOMAIN image.pages : image.pages[k].first <= pc})
        p    == image.pages[page]
        row  == Last0({k \in DOMAIN p.rows : p.first + p.rows[k].off <= pc})
        start == p.first + p.rows[row].off
        word == p.encs[p.rows[row].idx]
        enc  == word % PersonalityUnit
        pers == word \div PersonalityUnit
        lsda == {q.at : q \in {x \in Range(p.lsda) : x.func = start}}
        hits == {k \in DOMAIN image.frames : IF enc = Dwarf THEN ByFrame(image.frames[k], pc) # Unknown
                                             ELSE image.frames[k].at = enc - Dwarf}
    IN  IF page = 0 \/ pc >= image.end THEN Unknown
        ELSE IF enc >= Dwarf THEN (IF hits = {} THEN Unknown ELSE ByFrame(image.frames[CHOOSE k \in hits : TRUE], pc))
        ELSE IF enc = 0 THEN Unknown
        ELSE [how |-> "compact", enc |-> enc, pers |-> IF pers = 0 THEN 0 ELSE image.personalities[pers],
              lsda |-> IF lsda = {} THEN 0 ELSE CHOOSE a \in lsda : TRUE,
              start |-> IF enc \in Unmergeable THEN start ELSE 0]

\* The functions an object describes: compact entries by number, and FDEs.
CompactAt(o, a) ==
    LET cu == SectionOf(o, "__LD", "__compact_unwind")
        rels == ReadRelocs(o, o.hdrs[cu])
    IN  IF cu = 0 THEN {}
        ELSE {e \in DOMAIN o.hdrs[cu].entries :
                 FieldReloc(rels, e, 0) # <<>> /\ FieldTarget(o, o, FieldReloc(rels, e, 0)[1])[2] = a}

FramesAt(o, a) ==
    LET eh == SectionOf(o, "__TEXT", "__eh_frame")
    IN  IF eh = 0 THEN {} ELSE {k \in DOMAIN o.hdrs[eh].frames : o.hdrs[eh].frames[k].kind = "fde"
                                                                   /\ FdeFunction(o, o.hdrs[eh].frames[k]) = a}

\* The address in the image of address `a` of object n.
ImageAddr(n, a) ==
    LET k == CHOOSE k \in DOMAIN ctx.isecs : ctx.isecs[k].file = n /\ ctx.isecs[k].addr <= a
                                               /\ a < ctx.isecs[k].addr + ctx.isecs[k].size
    IN  Addr(k) + a - ctx.isecs[k].addr

SymbolNamed(n, j) == IF j = 0 THEN 0 ELSE ctx.objs[n].symbols[j]

\* What object n says of the code at offset `off` of its subsection k.
Described(n, k, off) ==
    LET o  == Objs[n]
        s  == ctx.isecs[k]
        cu == o.hdrs[SectionOf(o, "__LD", "__compact_unwind")]
        eh == o.hdrs[SectionOf(o, "__TEXT", "__eh_frame")]
        starts == {x \in s.addr..s.addr + off : CompactAt(o, x) # {} \/ (l.kept # "none" /\ FramesAt(o, x) # {})}
        a  == Last0(starts)
        e  == CHOOSE e \in CompactAt(o, a) : TRUE
        rels == ReadRelocs(o, cu)
        pers == FieldReloc(rels, e, 4)
        lsda == FieldReloc(rels, e, 6)
        f  == Last0(FramesAt(o, a))
        frame == eh.frames[f]
        cie == CHOOSE c \in Range(eh.frames) : c.kind = "cie" /\ c.at = frame.cie
        byFrame == CompactAt(o, a) = {} \/ cu.entries[e].enc >= Dwarf
        len == IF byFrame THEN frame.len ELSE cu.entries[e].len
    IN  IF starts = {} \/ (byFrame /\ (f = 0 \/ l.kept = "none")) THEN Unknown
        ELSE IF s.addr + off >= a + len /\ (byFrame \/ ~o.split) THEN Unknown
        ELSE IF byFrame
        THEN [how |-> "dwarf", enc |-> 0, pers |-> SymbolNamed(n, cie.pers), start |-> Addr(k) + a - s.addr,
              lsda |-> IF ~cie.lsda \/ Applied(o, frame.area, 0) = 0 THEN 0 ELSE ImageAddr(n, Applied(o, frame.area, frame.at + 4))]
        ELSE [how |-> "compact", enc |-> cu.entries[e].enc,
              pers |-> IF pers = <<>> THEN 0 ELSE SymbolNamed(n, PersonalityOf(o, o, pers[1])),
              lsda |-> IF lsda = <<>> THEN 0 ELSE ImageAddr(n, FieldTarget(o, o, lsda[1])[2]),
              start |-> IF cu.entries[e].enc \in Unmergeable THEN Addr(k) + a - s.addr ELSE 0]

\* Wherever the code of an image is stopped, the unwinder finds what the
\* function's own object says of it - its encoding or FDE, its personality
\* and its LSDA - and finds nothing for code no object describes, although
\* objects were rebased, functions dropped and folded, records merged and
\* pages split (remove_dead_unwind_info, eh_frame::construct,
\* encode_unwind_info).
UnwindersFindTheirFunction ==
    phase = "done" =>
        \A k \in DOMAIN ctx.isecs : Emitted(ctx.isecs[k]) /\ IsCode(k) =>
            \A off \in 0..ctx.isecs[k].size - 1 :
                Unwound(Addr(k) + off) = Described(ctx.isecs[k].file, k, off)

=============================================================================
