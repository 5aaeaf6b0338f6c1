-------------------------------- MODULE Objc --------------------------------
(***************************************************************************)
(* The passes over Objective-C metadata, macho/objc.rs: references that    *)
(* name the same thing are coalesced, message stubs made, class references *)
(* turned into loads from the GOT, method lists rewritten in the relative  *)
(* form, and categories merged into their classes.                         *)
(*                                                                         *)
(* A subsection's contents are 8-byte words: a pointer, which is the       *)
(* relocation there, or data.  Offsets are in bytes, as in the code.  The  *)
(* section a subsection is of stands for its name, segment and type; code  *)
(* is the relocations of its instructions.  What the runtime makes of the  *)
(* metadata, at the end, is external and compared before and after.        *)
(***************************************************************************)
EXTENDS Integers, Sequences, FiniteSets, SequencesExt, FiniteSetsExt

CONSTANTS
    Links   \* the links, as the passes before leave them

VARIABLES
    l,         \* the link: its options, and what dead stripping takes out
    at,        \* the pass that runs next
    isecs,     \* the subsections, numbered in input order
    syms,      \* the symbols
    stubs,     \* objc_stubs: symbols, the names of their selectors, extra references
    lists,     \* objc_methlist: the method lists in the relative form
    merging    \* where merge_objc_categories is

vars == <<l, at, isecs, syms, stubs, lists, merging>>

Internal == 0   \* the object of the subsections that the linker makes
None == [to |-> "none", id |-> 0, off |-> 0]          \* no pointer, or a null one
Isec(i, off) == [to |-> "isec", id |-> i, off |-> off]
Sym(s, off) == [to |-> "sym", id |-> s, off |-> off]
TailSelref(n) == [to |-> "tail", id |-> n, off |-> 0]
\* Bytes; the first word of a list: how many entries, and entsize with its flags.
Header(n, form) == [to |-> "data", id |-> n, off |-> form]
Plain == 1      \* entries of the usual size and no flag
Flagged == 2    \* the usual size, and flags other than the top one
Relative == 3   \* the top flag: three 32-bit offsets an entry

Nowhere == <<0, 0>>
IsPointer(w) == w.to \in {"isec", "sym"}
IsEmitted(i) == isecs[i].alive /\ isecs[i].repl = 0

\* IsecArena::resolve
ResolveIn(m, i) ==
    LET to[j \in DOMAIN m] == IF m[j].repl = 0 THEN j ELSE to[m[j].repl] IN to[i]
Resolved(i) == ResolveIn(isecs, i)

\* Subsections that the linker adds: a blob of data, a relative method list.
New(sect, words) ==
    [sect |-> sect, file |-> Internal, alive |-> TRUE, repl |-> 0, align |-> 3,
     labeled |-> FALSE, words |-> words, code |-> <<>>]
Killed(m, dead) == [i \in DOMAIN m |-> IF i \in dead THEN [m[i] EXCEPT !.alive = FALSE] ELSE m[i]]

\* redirect_symbols_to_replacements
Redirected(m) ==
    [s \in DOMAIN syms |->
        IF syms[s].isec = 0 THEN syms[s] ELSE [syms[s] EXCEPT !.isec = ResolveIn(m, @)]]

\* objc_pointer_at: the pointer stored at an offset of an input subsection.
ObjcPointerAt(i, off) ==
    LET w == isecs[i].words
        k == off \div 8 + 1
    IN  IF isecs[i].file # Internal /\ k \in DOMAIN w /\ IsPointer(w[k]) THEN w[k] ELSE None

\* objc_ref_location: where a pointer to live data of this link leads.
ObjcRefLocation(r) ==
    LET sec == CASE r.to = "isec" -> r.id [] r.to = "sym" -> syms[r.id].isec [] OTHER -> 0
        off == IF r.to = "sym" THEN syms[r.id].value + r.off ELSE r.off
    IN  IF sec # 0 /\ isecs[Resolved(sec)].alive THEN <<Resolved(sec), off>> ELSE Nowhere

\* The pointer in a field of a record.
Field(rec, off) == IF rec = Nowhere THEN None ELSE ObjcPointerAt(rec[1], rec[2] + off)
Follow(rec, off) == ObjcRefLocation(Field(rec, off))

\* Numbers in order.
Ascending(S) == SelectSeq([i \in 1 .. Max(S \cup {0}) |-> i], LAMBDA i : i \in S)

\* subsecs_of_sections and list_entries
SubsecsOfSections(sects) ==
    Ascending({i \in DOMAIN isecs :
        isecs[i].file # Internal /\ isecs[i].sect \in sects /\ isecs[i].alive})
ListEntries(i) == [k \in DOMAIN isecs[i].words |-> ObjcPointerAt(i, 8 * (k - 1))]
Records(i) ==
    SelectSeq([k \in DOMAIN ListEntries(i) |-> ObjcRefLocation(ListEntries(i)[k])],
              LAMBDA rec : rec # Nowhere)

\* objc_class_ro: the low two bits of a Swift class's data pointer are flags.
ObjcClassRo(cls) ==
    LET ro == Follow(cls, 32) IN IF ro = Nowhere THEN Nowhere ELSE <<ro[1], 4 * (ro[2] \div 4)>>

\* The elements of a sequence, each once, in the order first met.
Once(s) == FoldLeft(LAMBDA met, x : IF x \in Range(met) THEN met ELSE Append(met, x), <<>>, s)
-----------------------------------------------------------------------------
\* Coalescing references.

\* pointer_target: the symbol that a subsection is a plain pointer to.
PointerTarget(i) ==
    LET w == isecs[i].words
    IN  IF Len(w) = 1 /\ w[1].to = "sym" /\ w[1].off = 0 THEN w[1].id ELSE 0

\* ref_target: a place, where identical content has been merged, or a symbol.
RefTarget(r) ==
    CASE r.to = "isec" -> Isec(Resolved(r.id), r.off)
      [] r.to = "sym" /\ syms[r.id].isec # 0 ->
            Isec(Resolved(syms[r.id].isec), syms[r.id].value + r.off)
      [] OTHER -> r

\* ref_key: what two records of a section must agree in; none for a record
\* that stays as it is.
NoKey == <<>>
RefKey(i) ==
    LET x == isecs[i]
        one == Len(x.words) = 1 /\ IsPointer(x.words[1])
    IN  CASE ~IsEmitted(i) \/ x.file = Internal -> NoKey
          [] x.sect = "selrefs" /\ one -> <<"sel", RefTarget(x.words[1])>>
          [] x.sect = "classrefs" /\ ~l.folds /\ PointerTarget(i) # 0 ->
                <<"class", Sym(PointerTarget(i), 0)>>
          [] x.sect \in {"superrefs", "protorefs"} /\ ~x.labeled /\ one ->
                <<x.sect, RefTarget(x.words[1])>>
          [] x.sect = "cfstring" /\ Len(x.words) = 4 ->
                <<"cfstring", [k \in 1 .. 4 |-> RefTarget(x.words[k])]>>
          [] OTHER -> NoKey

\* The first copy of each key wins.
CoalesceObjcRefs ==
    /\ at = "coalesce" /\ at' = "stubs"
    /\ LET key == [i \in DOMAIN isecs |-> RefKey(i)]
           copies(i) == {j \in DOMAIN isecs : key[j] = key[i]}
           loses(i) == key[i] # NoKey /\ i # Min(copies(i))
           folded == [i \in DOMAIN isecs |->
               CASE key[i] = NoKey -> isecs[i]
                 [] loses(i) -> [isecs[i] EXCEPT !.repl = Min(copies(i))]
                 [] OTHER -> [isecs[i] EXCEPT !.align = Max({isecs[j].align : j \in copies(i)})]]
       IN  /\ isecs' = folded
           /\ syms' = IF folded = isecs THEN syms ELSE Redirected(folded)
    /\ UNCHANGED <<l, stubs, lists, merging>>
-----------------------------------------------------------------------------
\* Message stubs.

\* create_objc_msgsend_stubs: in the order of the selectors.
CreateObjcMsgsendStubs ==
    /\ at = "stubs" /\ at' = "strip"
    /\ LET wanted == {s \in DOMAIN syms : syms[s].sel # 0 /\ syms[s].file = "none" /\ syms[s].used}
           sorted == SetToSortSeq(wanted, LAMBDA s, t : syms[s].sel < syms[t].sel)
       IN  /\ stubs' = [stubs EXCEPT !.symbols = sorted,
                                     !.msgsend = IF sorted = <<>> THEN 0 ELSE l.msgSend]
           /\ syms' = [s \in DOMAIN syms |->
                CASE s \in wanted -> [syms[s] EXCEPT !.file = "obj", !.idx = SelectInSeq(sorted, LAMBDA t : t = s)]
                  [] s = l.msgSend /\ sorted # <<>> ->
                        IF syms[s].file = "none" /\ l.libobjc
                        THEN [syms[s] EXCEPT !.used = TRUE, !.file = "dylib", !.imported = TRUE]
                        ELSE [syms[s] EXCEPT !.used = TRUE]
                  [] OTHER -> syms[s]]
    /\ UNCHANGED <<l, isecs, lists, merging>>

\* The relocations of a subsection: its instructions', or its pointers.
Rels(m, i) ==
    IF m[i].sect = "text" THEN m[i].code
    ELSE LET w == SelectSeq(m[i].words, IsPointer)
         IN  [k \in DOMAIN w |-> [ty |-> "ptr", load |-> FALSE, ref |-> w[k]]]

\* mark_live_references, as far as the stubs need it, and drop_dead_objc_stubs.
StripDeadCode ==
    /\ at = "strip" /\ at' = "scan"
    /\ LET left == Killed(isecs, l.dead)
           marked == {s \in DOMAIN syms : \E i \in DOMAIN left :
                         left[i].alive /\ left[i].repl = 0 /\
                         \E k \in DOMAIN Rels(left, i) : Rels(left, i)[k].ref = Sym(s, Rels(left, i)[k].ref.off)}
           live == SelectSeq(stubs.symbols, LAMBDA s : s \in marked)
       IN  IF l.strips
           THEN /\ isecs' = left
                /\ stubs' = [stubs EXCEPT !.symbols = live,
                                          !.msgsend = IF live = <<>> THEN 0 ELSE @]
                /\ syms' = [s \in DOMAIN syms |->
                       CASE s \in Range(live) -> [syms[s] EXCEPT !.idx = SelectInSeq(live, LAMBDA t : t = s)]
                         [] s \in Range(stubs.symbols) -> [syms[s] EXCEPT !.file = "none", !.used = FALSE]
                         [] OTHER -> [syms[s] EXCEPT !.used = s \in marked \/ (live # <<>> /\ s = stubs.msgsend)]]
           ELSE UNCHANGED <<isecs, stubs, syms>>
    /\ UNCHANGED <<l, lists, merging>>

\* scan_objc_stubs: what the stubs call, and the names they load.
ScanObjcStubs ==
    /\ at = "scan" /\ at' = "fold"
    /\ syms' = [s \in DOMAIN syms |->
          CASE s # stubs.msgsend -> syms[s]
            [] ~l.small -> [syms[s] EXCEPT !.got = TRUE]
            [] OTHER -> [syms[s] EXCEPT !.stub = syms[s].imported]]
    /\ stubs' = [stubs EXCEPT !.names = [k \in DOMAIN stubs.symbols |-> syms[stubs.symbols[k]].sel]]
    /\ UNCHANGED <<l, isecs, lists, merging>>
-----------------------------------------------------------------------------
\* Class references as loads from the GOT.

Files == {isecs[i].file : i \in DOMAIN isecs} \ {Internal}

\* classref_slots, and the references to them: relocation k of subsection isec.
ClassrefSlots(f) ==
    {i \in DOMAIN isecs : isecs[i].file = f /\ isecs[i].sect = "classrefs" /\ IsEmitted(i)
                          /\ PointerTarget(i) # 0}
SlotOf(r) ==
    CASE r.off # 0 -> 0
      [] r.to = "isec" -> r.id
      [] r.to = "sym" /\ syms[r.id].value = 0 -> syms[r.id].isec
      [] OTHER -> 0
ClassrefUse(i, k) ==
    LET rel == Rels(isecs, i)[k]
    IN  [isec |-> i, k |-> k, slot |-> SlotOf(rel.ref), class |-> PointerTarget(SlotOf(rel.ref)),
         rel |-> rel]
ClassrefUses ==
    UNION {LET slots == ClassrefSlots(isecs[i].file)
               rels == Rels(isecs, i)
           IN  {ClassrefUse(i, k) : k \in {k \in DOMAIN rels :
                   isecs[i].alive /\ i \notin slots /\ SlotOf(rels[k].ref) \in slots}} :
           i \in DOMAIN isecs}

\* arm64's got_load_form and page_pair_half
GotLoadForm(rel) ==
    CASE rel.ty = "page" -> "gotPage"
      [] rel.ty = "pageoff" /\ rel.load -> "gotPageoff"
      [] OTHER -> "none"
IsHalf(rel) == rel.ty \in {"page", "pageoff"}

\* pair_classref_uses: in each subsection, the halves of a class must be a
\* page, its offset, the next page and so on; a half left over leaves all the
\* loads of the class as they are.
HalvesLike(u, uses) == {v \in uses : v.isec = u.isec /\ v.class = u.class /\ IsHalf(v.rel)}
NextHalf(u, uses) ==
    LET later == {v \in HalvesLike(u, uses) : v.k > u.k}
    IN  IF later = {} THEN "none" ELSE (CHOOSE v \in later : \A w \in later : v.k <= w.k).rel.ty
Unpaired(uses) ==
    {u.class : u \in {u \in uses : IsHalf(u.rel) /\
        \/ u.rel.ty = "page" /\ NextHalf(u, uses) # "pageoff"
        \/ u.rel.ty = "pageoff" /\ NextHalf(u, uses) = "pageoff"
        \/ u.rel.ty = "pageoff" /\ \A v \in HalvesLike(u, uses) : v.k >= u.k}}

\* The half that decides for a use: an adrp goes as the offset under it.
Decider(u, uses) ==
    IF u.rel.ty = "page"
    THEN CHOOSE v \in HalvesLike(u, uses) : v.k > u.k /\
            \A w \in HalvesLike(u, uses) : w.k > u.k => v.k <= w.k
    ELSE u
Converts(u, uses) ==
    /\ u.class \notin Unpaired(uses)
    /\ GotLoadForm(u.rel) # "none" /\ GotLoadForm(Decider(u, uses).rel) # "none"

\* fold_objc_classrefs: a class's slots go, stay as stand-ins for its GOT
\* entry, or, if nothing refers to one, are coalesced.
FoldObjcClassrefs ==
    /\ at = "fold" /\ at' = "convert"
    /\ LET uses == ClassrefUses
           slots == UNION {ClassrefSlots(f) : f \in Files}
           referenced == {u.class : u \in uses}
           keep == {u.slot : u \in {u \in uses : ~Converts(u, uses)}}
           kept == Ascending(keep)
           unreferenced == {i \in slots : PointerTarget(i) \notin referenced}
           alike(i) == {j \in unreferenced : PointerTarget(j) = PointerTarget(i)}
           load(i, k) ==
               LET here == {u \in uses : u.isec = i /\ u.k = k /\ Converts(u, uses)}
                   rel == isecs[i].code[k]
               IN  IF here = {} THEN rel
                   ELSE [rel EXCEPT !.ty = GotLoadForm(rel),
                                    !.ref = Sym((CHOOSE u \in here : TRUE).class, 0)]
           rewritten == [i \in DOMAIN isecs |->
               CASE isecs[i].sect = "text" ->
                       [isecs[i] EXCEPT !.code = [k \in DOMAIN @ |-> load(i, k)]]
                 [] i \in unreferenced /\ i # Min(alike(i)) -> [isecs[i] EXCEPT !.repl = Min(alike(i))]
                 [] i \in keep ->
                       [isecs[i] EXCEPT !.repl = Len(isecs) + SelectInSeq(kept, LAMBDA j : j = i)]
                 [] i \in slots \ (keep \cup unreferenced) -> [isecs[i] EXCEPT !.alive = FALSE]
                 [] OTHER -> isecs[i]]
           standIns == [k \in DOMAIN kept |->
               [New("got", <<Sym(PointerTarget(kept[k]), 0)>>) EXCEPT !.alive = FALSE]]
           needs == [s \in DOMAIN syms |->
               [syms[s] EXCEPT !.got = @ \/ s \in {PointerTarget(i) : i \in keep}]]
       IN  IF l.folds
           THEN /\ isecs' = rewritten \o standIns
                /\ syms' = IF \E i \in unreferenced : i # Min(alike(i))
                           THEN [s \in DOMAIN syms |->
                                   [needs[s] EXCEPT !.isec = Redirected(isecs')[s].isec]]
                           ELSE needs
           ELSE UNCHANGED <<isecs, syms>>
    /\ UNCHANGED <<l, stubs, lists, merging>>
-----------------------------------------------------------------------------
\* Method lists in the relative form.

\* MethodListFinder: the method lists that a record's fields lead to, if they
\* are the start of a subsection.
Notes(rec, fields) ==
    LET found == [k \in DOMAIN fields |-> Follow(rec, fields[k])]
        starts == SelectSeq(found, LAMBDA loc : loc # Nowhere /\ loc[2] = 0)
    IN  [k \in DOMAIN starts |-> starts[k][1]]

\* visit_class: a class's method list, then its metaclass's.
VisitClass(class) ==
    LET Loc == Nat \X Nat
        visit[cls \in Loc, seen \in SUBSET Loc] ==
            IF cls = Nowhere \/ cls \in seen THEN <<>>
            ELSE Notes(ObjcClassRo(cls), <<32>>) \o visit[Follow(cls, 0), seen \cup {cls}]
    IN  visit[class, {}]

\* visit_list_section and runtime_method_lists: in the order the lists lead
\* to them, each once.
VisitRecord(sect, rec) ==
    CASE sect \in {"classlist", "nlclslist"} -> VisitClass(rec)
      [] sect \in {"catlist", "catlist2", "nlcatlist"} -> Notes(rec, <<16, 24>>)
      [] sect = "protolist" -> Notes(rec, <<24, 32, 40, 48>>)
      [] OTHER -> Notes(rec, <<32>>)
RuntimeMethodLists ==
    LET ListSects == {"classlist", "nlclslist", "catlist", "catlist2", "nlcatlist", "protolist",
                      "clsrolist"}
        subsecs == SubsecsOfSections(ListSects)
        visit(i) == FlattenSeq([k \in DOMAIN Records(i) |-> VisitRecord(isecs[i].sect, Records(i)[k])])
    IN  Once(FlattenSeq([k \in DOMAIN subsecs |-> visit(subsecs[k])]))

\* classic_list_header: the list is the whole of its subsection.
IsWhole(i) ==
    LET w == isecs[i].words IN w # <<>> /\ w[1].to = "data" /\ Len(w) = 1 + 3 * w[1].id
Entry(i, k) ==
    [name |-> ObjcPointerAt(i, 8 + 24 * (k - 1)), types |-> ObjcPointerAt(i, 16 + 24 * (k - 1)),
     imp |-> ObjcPointerAt(i, 24 + 24 * (k - 1))]

\* classic_methods: what a list needs to be rewritten, selectors in the image.
IsSelector(r) == ObjcRefLocation(r) # Nowhere /\ ObjcRefLocation(r)[2] = 0
IsClassic(i) ==
    /\ IsWhole(i) /\ isecs[i].words[1].off \in {Plain, Flagged}
    /\ \A k \in 1 .. isecs[i].words[1].id : IsSelector(Entry(i, k).name)
ClassicMethods(i) == [k \in 1 .. isecs[i].words[1].id |-> Entry(i, k)]

\* SelrefFinder: the first input's reference to a selector string, or else
\* one in the tail, after the stubs'.
InputSelrefs(sel) ==
    {i \in DOMAIN isecs :
        /\ isecs[i].file # Internal /\ isecs[i].sect = "selrefs" /\ isecs[i].alive
        /\ Len(isecs[i].words) = 1 /\ ObjcRefLocation(ObjcPointerAt(i, 0)) = <<sel, 0>>}
ExtraSelrefs(selectors) == Once(SelectSeq(selectors, LAMBDA sel : InputSelrefs(sel) = {}))
Selref(sel, extra) ==
    IF InputSelrefs(sel) # {} THEN Isec(Resolved(Min(InputSelrefs(sel))), 0)
    ELSE TailSelref(Len(stubs.symbols) + SelectInSeq(extra, LAMBDA x : x = sel))

\* add_relative_method_list
MethodWords(methods, form) ==
    <<Header(Len(methods), form)>> \o
    FlattenSeq([k \in DOMAIN methods |-> <<methods[k].name, methods[k].types, methods[k].imp>>])
RelativeList(methods) == New("methlist", MethodWords(methods, Relative))

Selector(i, j) == ObjcRefLocation(Entry(i, j).name)[1]
Selectors(i) == [j \in 1 .. isecs[i].words[1].id |-> Selector(i, j)]
ConvertObjcMethodLists ==
    /\ at = "convert" /\ at' = "categories"
    /\ \/ /\ l.relative
          /\ \E classic \in {SelectSeq(RuntimeMethodLists, IsClassic)} :
             \E extra \in {ExtraSelrefs(FlattenSeq([k \in DOMAIN classic |-> Selectors(classic[k])]))} :
                LET relative(i) == [j \in 1 .. isecs[i].words[1].id |->
                        [Entry(i, j) EXCEPT !.name = Selref(Selector(i, j), extra)]]
                    synth(i) == Len(isecs) + SelectInSeq(classic, LAMBDA x : x = i)
                IN  /\ isecs' = [i \in DOMAIN isecs |->
                           IF i \in ToSet(classic) THEN [isecs[i] EXCEPT !.repl = synth(i)] ELSE isecs[i]]
                           \o [k \in DOMAIN classic |-> RelativeList(relative(classic[k]))]
                    /\ lists' = [k \in DOMAIN classic |->
                           [isec |-> synth(classic[k]), methods |-> relative(classic[k])]]
                    /\ stubs' = [stubs EXCEPT !.extra = extra]
                    /\ syms' = [s \in DOMAIN syms |->
                           IF syms[s].isec \in ToSet(classic) THEN [syms[s] EXCEPT !.isec = synth(@)] ELSE syms[s]]
       \/ ~l.relative /\ UNCHANGED <<isecs, lists, stubs, syms>>
    /\ UNCHANGED <<l, merging>>
-----------------------------------------------------------------------------
\* Merging categories.

\* defined_classes: the classes listed, each once.
ReadClass(cls, nonlazy) ==
    [cls |-> cls, meta |-> Follow(cls, 0), ro |-> ObjcClassRo(cls),
     metaRo |-> ObjcClassRo(Follow(cls, 0)), nonlazy |-> nonlazy]
DefinedClasses ==
    LET subsecs == SubsecsOfSections({"classlist", "nlclslist"})
        listed == FlattenSeq([k \in DOMAIN subsecs |->
            [j \in DOMAIN Records(subsecs[k]) |->
                ReadClass(Records(subsecs[k])[j], isecs[subsecs[k]].sect = "nlclslist")]])
        read == SelectSeq(listed, LAMBDA c : c.ro # Nowhere /\ c.meta # Nowhere /\ c.metaRo # Nowhere)
        places == Once([k \in DOMAIN read |-> read[k].cls])
    IN  [k \in DOMAIN places |->
            ReadClass(places[k], \E c \in Range(read) : c.cls = places[k] /\ c.nonlazy)]

\* category_and_class: a category of a class that the image defines, a
\* subsection of its own with a name in the image.
IsCategoryOf(r, classes) ==
    LET cat == ObjcRefLocation(r)
    IN  /\ cat # Nowhere /\ cat[2] = 0 /\ Len(isecs[cat[1]].words) >= 6
        /\ \E k \in DOMAIN classes : classes[k].cls = Follow(cat, 8)
        /\ Follow(cat, 0) # Nowhere

\* find_categories: in the order of the lists.
FindCategories(classes) ==
    LET subsecs == SubsecsOfSections({"catlist", "nlcatlist"})
        entries(i) == SelectSeq(ListEntries(i), LAMBDA r : IsCategoryOf(r, classes))
        named(i) == [k \in DOMAIN entries(i) |-> ObjcRefLocation(entries(i)[k])[1]]
        cats == Once(FlattenSeq([k \in DOMAIN subsecs |-> named(subsecs[k])]))
        lazyToo(cat) == \E i \in ToSet(subsecs) : isecs[i].sect = "nlcatlist" /\ cat \in Range(named(i))
    IN  [k \in DOMAIN cats |->
            [isec |-> cats[k], cls |-> Follow(<<cats[k], 0>>, 8), nonlazy |-> lazyToo(cats[k]),
             merged |-> FALSE]]

MergeObjcCategories ==
    /\ at = "categories"
    /\ LET classes == DefinedClasses
           cats == FindCategories(classes)
       IN  IF l.merges /\ cats # <<>>
           THEN /\ at' = "merge"
                /\ merging' = [classes |-> classes, cats |-> cats, k |-> 1, nonlazy |-> <<>>]
           ELSE at' = "done" /\ UNCHANGED merging
    /\ UNCHANGED <<l, isecs, syms, stubs, lists>>

\* ListRefs: the five lists of a category, and of a class.
Kinds == <<"imethods", "cmethods", "protocols", "iprops", "cprops">>
OfCategory(cat) ==
    LET rec == <<cat, 0>>
    IN  [imethods |-> Field(rec, 16), cmethods |-> Field(rec, 24), protocols |-> Field(rec, 32),
         iprops |-> Field(rec, 40), cprops |-> Field(rec, 48), metaProtocols |-> None]
OfClass(c) ==
    [imethods |-> Field(c.ro, 32), cmethods |-> Field(c.metaRo, 32), protocols |-> Field(c.ro, 40),
     iprops |-> Field(c.ro, 64), cprops |-> Field(c.metaRo, 64), metaProtocols |-> Field(c.metaRo, 40)]

\* read_method_list, read_protocol_list and read_property_list: whether the
\* list is in a shape to merge, and its entries.
Refused == [ok |-> FALSE, v |-> <<>>]
Read(v) == [ok |-> TRUE, v |-> v]
ReadMethodList(r) ==
    LET loc == ObjcRefLocation(r)
        converted == {k \in DOMAIN lists : loc # Nowhere /\ lists[k].isec = loc[1]}
    IN  CASE r = None -> Read(<<>>)
          [] loc = Nowhere \/ loc[2] # 0 -> Refused
          [] converted # {} -> Read(lists[Min(converted)].methods)
          [] l.relative \/ ~IsWhole(loc[1]) \/ isecs[loc[1]].words[1].off # Plain -> Refused
          [] \E m \in Range(ClassicMethods(loc[1])) : m.name = None -> Refused
          [] OTHER -> Read(ClassicMethods(loc[1]))
ReadPointers(r, each) ==
    LET loc == ObjcRefLocation(r)
        head == isecs[loc[1]].words[loc[2] \div 8 + 1]
        entry(k) == [j \in 1 .. each |-> Field(loc, 8 * (1 + each * (k - 1) + (j - 1)))]
    IN  CASE r = None -> Read(<<>>)
          [] loc = Nowhere -> Refused
          [] (each = 2 /\ head.off # Plain) \/ \E k \in 1 .. head.id : entry(k)[1] = None -> Refused
          [] OTHER -> Read([k \in 1 .. head.id |-> entry(k)])
ReadList(kind, r) ==
    CASE kind \in {"imethods", "cmethods"} -> ReadMethodList(r)
      [] kind = "protocols" -> ReadPointers(r, 1)
      [] OTHER -> ReadPointers(r, 2)

\* points_into_image: what a synthesized record can hold as a plain rebase.
PointsIntoImage(r) == r.to = "sym" => ~syms[r.id].imported /\ syms[r.id].isec # 0
Pointers(kind, e) == IF kind \in {"imethods", "cmethods"} THEN {e.name, e.types, e.imp} ELSE Range(e)

\* merge_lists: the methods and protocols of the category attached last come
\* first, the properties in order; the class's own follow.
\* Faulty variant: the methods of the categories are in their order, too.
MergeOrder_Forward(kind, cats) == cats
MergeOrder(kind, cats) == IF kind \in {"iprops", "cprops"} THEN cats ELSE Reverse(cats)
MergeList(kind, own, cats) ==
    LET from == MergeOrder(kind, cats) \o <<own>>
        read == [k \in DOMAIN from |-> ReadList(kind, from[k][kind])]
        all == FlattenSeq([k \in DOMAIN read |-> read[k].v])
        fits == \A e \in Range(all) : \A r \in Pointers(kind, e) : PointsIntoImage(r)
    IN  IF /\ \A k \in DOMAIN read : read[k].ok
           /\ (kind \in {"imethods", "cmethods"} /\ l.relative) \/ fits
        THEN Read(all) ELSE Refused
\* The kinds that a category has a list of: the class keeps its own of others.
KindsMerged(cats) == SelectSeq(Kinds, LAMBDA kind : \E c \in Range(cats) : c[kind] # None)

\* The class's categories, and what keeps them from being merged: more than
\* one +load (the runtime calls the first of a class's method list alone), a
\* record too short or not to be rewritten, a list out of shape.
CatsOf(class) == SelectSeq(merging.cats, LAMBDA c : c.cls = class.cls)
CatLists(class) == LET cats == CatsOf(class) IN [k \in DOMAIN cats |-> OfCategory(cats[k].isec)]
NumLoads(class) ==
    Cardinality({k \in DOMAIN CatsOf(class) : CatsOf(class)[k].nonlazy})
    + IF class.nonlazy THEN 1 ELSE 0
RoRewritable(class) ==
    /\ Field(class.cls, 32) # None /\ Field(class.meta, 32) # None
    /\ \A ro \in {class.ro, class.metaRo} : 8 * Len(isecs[ro[1]].words) >= ro[2] + 72
CanMerge(class) ==
    /\ CatsOf(class) # <<>> /\ NumLoads(class) <= 1 /\ RoRewritable(class)
    /\ \A k \in DOMAIN Kinds : MergeList(Kinds[k], OfClass(class), CatLists(class)).ok

\* MergedListWriter: a list as its readers read it, those of a class.
MergedWords(kind, entries) ==
    IF kind \in {"imethods", "cmethods"} THEN MethodWords(entries, IF l.relative THEN Relative ELSE Plain)
    ELSE <<Header(Len(entries), Plain)>> \o FlattenSeq(entries)
MergedSect(kind) ==
    CASE kind \in {"imethods", "cmethods"} -> IF l.relative THEN "methlist" ELSE "data"
      [] OTHER -> "const"

WrittenLists(kinds, own, cats) ==
    [k \in DOMAIN kinds |->
        New(MergedSect(kinds[k]), MergedWords(kinds[k], MergeList(kinds[k], own, cats).v))]

\* drop_superseded_lists: the lists that a merged one stands for.
DroppedLists(own, merged, cats) ==
    {own[kind] : kind \in merged}
    \cup (IF "protocols" \in merged THEN {own.metaProtocols} ELSE {})
    \cup UNION {{c[Kinds[k]] : k \in DOMAIN Kinds} : c \in Range(cats)}
Dropped(refs) ==
    {loc[1] : loc \in {loc \in {ObjcRefLocation(r) : r \in refs} : loc # Nowhere /\ loc[2] = 0}}

\* rewrite_ro: the record with the merged lists, a Swift class's initializer too.
RoLen(ro) == IF isecs[ro[1]].words[ro[2] \div 8 + 1].off = 1 THEN 80 ELSE 72
RewrittenRo(ro, methods, protocols, props) ==
    LET old == SubSeq(isecs[ro[1]].words, ro[2] \div 8 + 1, (ro[2] + RoLen(ro)) \div 8)
        merged == [off \in {32, 40, 64} |->
            CASE off = 32 -> methods [] off = 40 -> protocols [] OTHER -> props]
    IN  New(IF isecs[ro[1]].sect = "data" THEN "data" ELSE "const",
            [k \in DOMAIN old |->
                CASE k <= 2 -> old[k]
                  [] 8 * (k - 1) \in DOMAIN merged /\ merged[8 * (k - 1)] # None -> merged[8 * (k - 1)]
                  [] OTHER -> Field(ro, 8 * (k - 1))])
\* The record was a subsection of its own: its symbol names the new one.
ReplacedRo(m, ro, blob) ==
    IF ro[2] = 0 /\ 8 * Len(isecs[ro[1]].words) = RoLen(ro)
    THEN [m EXCEPT ![ro[1]].alive = FALSE, ![ro[1]].repl = blob] ELSE m

\* retarget_class_data, keeping the flag bits of a Swift class.
RetargetedClass(m, cls, ro) ==
    LET k == (cls[2] + 32) \div 8 + 1
        r == m[cls[1]].words[k]
        value == IF r.to = "sym" THEN syms[r.id].value + r.off ELSE r.off
    IN  [m EXCEPT ![cls[1]].words[k] = Isec(ro, value % 4)]

MergeClass ==
    /\ at = "merge" /\ merging.k <= Len(merging.classes) /\ CanMerge(merging.classes[merging.k])
    /\ LET class == merging.classes[merging.k]
           own == OfClass(class)
           cats == CatLists(class)
           kinds == KindsMerged(cats)
           n == Len(isecs)
           entries(kind) == MergeList(kind, own, cats).v
           new(kind) == IF kind \in Range(kinds)
                        THEN Isec(n + SelectInSeq(kinds, LAMBDA x : x = kind), 0) ELSE None
           ro == n + Len(kinds) + 1
           dead == Dropped(DroppedLists(own, Range(kinds), cats))
                   \cup {c.isec : c \in Range(CatsOf(class))}
           written == Killed(isecs, dead) \o WrittenLists(kinds, own, cats)
               \o <<RewrittenRo(class.ro, new("imethods"), new("protocols"), new("iprops")),
                    RewrittenRo(class.metaRo, new("cmethods"), new("protocols"), new("cprops"))>>
           replaced == ReplacedRo(ReplacedRo(written, class.ro, ro), class.metaRo, ro + 1)
           methods == SelectSeq(kinds, LAMBDA kind : kind \in {"imethods", "cmethods"})
       IN  /\ isecs' = RetargetedClass(RetargetedClass(replaced, class.cls, ro), class.meta, ro + 1)
           /\ lists' = IF l.relative
                       THEN lists \o [k \in DOMAIN methods |->
                               [isec |-> new(methods[k]).id, methods |-> entries(methods[k])]]
                       ELSE lists
           /\ merging' = [merging EXCEPT
                  !.k = @ + 1,
                  !.cats = [j \in DOMAIN @ |-> IF @[j].cls = class.cls THEN [@[j] EXCEPT !.merged = TRUE] ELSE @[j]],
                  !.nonlazy = IF ~class.nonlazy /\ NumLoads(class) > 0 THEN Append(@, class.cls) ELSE @]
    /\ UNCHANGED <<l, at, syms, stubs>>

LeaveClass ==
    /\ at = "merge" /\ merging.k <= Len(merging.classes) /\ ~CanMerge(merging.classes[merging.k])
    /\ merging' = [merging EXCEPT !.k = @ + 1]
    /\ UNCHANGED <<l, at, isecs, syms, stubs, lists>>

\* rebuild_category_lists: a list whose entries all merged goes, one with
\* survivors is rewritten in its place.  The method lists that were superseded
\* leave objc_methlist, and a class that took in a +load joins the classes
\* that are not lazy.
IsMerged(r) ==
    LET sec == CASE r.to = "isec" -> r.id [] r.to = "sym" -> syms[r.id].isec [] OTHER -> 0
        off == IF r.to = "sym" THEN syms[r.id].value + r.off ELSE r.off
    IN  sec # 0 /\ off = 0 /\ \E c \in Range(merging.cats) : c.merged /\ c.isec = Resolved(sec)
NonlazyLists ==
    [k \in DOMAIN merging.nonlazy |->
        New("nlclslist", <<Isec(merging.nonlazy[k][1], merging.nonlazy[k][2])>>)]
RebuildCategoryLists ==
    /\ at = "merge" /\ merging.k > Len(merging.classes) /\ at' = "done"
    /\ LET catlists == SubsecsOfSections({"catlist", "nlcatlist"})
           changed == SelectSeq(catlists, LAMBDA i : \E r \in Range(isecs[i].words) : IsMerged(r))
           survivors(i) == SelectSeq(ListEntries(i), LAMBDA r : ~IsMerged(r))
           left == SelectSeq(changed, LAMBDA i : survivors(i) # <<>>)
           blobs == [k \in DOMAIN left |-> New(isecs[left[k]].sect, survivors(left[k]))]
           repl == [i \in DOMAIN isecs |->
               IF i \in Range(left)
               THEN [isecs[i] EXCEPT !.repl = Len(isecs) + SelectInSeq(left, LAMBDA x : x = i)] ELSE isecs[i]]
       IN  isecs' = Killed(repl, Range(changed)) \o blobs \o NonlazyLists
    /\ lists' = SelectSeq(lists, LAMBDA x : isecs[x.isec].alive)
    /\ UNCHANGED <<l, syms, stubs, merging>>
-----------------------------------------------------------------------------
ObjcInit ==
    /\ l \in Links
    /\ at = "coalesce" /\ isecs = l.isecs /\ syms = l.syms
    /\ stubs = [symbols |-> <<>>, names |-> <<>>, extra |-> <<>>, msgsend |-> 0]
    /\ lists = <<>>
    /\ merging = [classes |-> <<>>, cats |-> <<>>, k |-> 0, nonlazy |-> <<>>]

ObjcNext ==
    \/ CoalesceObjcRefs \/ CreateObjcMsgsendStubs \/ StripDeadCode \/ ScanObjcStubs
    \/ FoldObjcClassrefs \/ ConvertObjcMethodLists \/ MergeObjcCategories
    \/ MergeClass \/ LeaveClass \/ RebuildCategoryLists
-----------------------------------------------------------------------------
\* What the runtime and the code make of the image m, a record of the
\* subsections, the symbols and the stubs.

Before == [isecs |-> l.isecs, syms |-> l.syms, stubs |-> stubs]
After == [isecs |-> isecs, syms |-> syms, stubs |-> stubs]

\* Where a pointer leads at run time: an import is another image's.
Addr(m, r) ==
    CASE r.to = "isec" -> <<ResolveIn(m.isecs, r.id), r.off>>
      [] r.to = "sym" -> IF m.syms[r.id].isec = 0 THEN <<0 - r.id, r.off>>
                         ELSE <<ResolveIn(m.isecs, m.syms[r.id].isec), m.syms[r.id].value + r.off>>
      [] OTHER -> Nowhere
\* A word of what is loaded; what was removed is not there to be read.
Word(m, loc, off) ==
    LET k == (loc[2] + off) \div 8 + 1
    IN  IF loc[1] > 0 /\ m.isecs[loc[1]].alive /\ k \in DOMAIN m.isecs[loc[1]].words
        THEN m.isecs[loc[1]].words[k] ELSE None
PtrIn(m, loc, off) == Addr(m, Word(m, loc, off))

\* The methods of a list; a relative entry names its selector through a slot.
TextAt(m, loc) == Word(m, loc, 0).id
SlotText(m, r) ==
    IF r.to # "tail" THEN TextAt(m, PtrIn(m, Addr(m, r), 0))
    ELSE IF r.id <= Len(m.stubs.names) THEN m.stubs.names[r.id]
    ELSE TextAt(m, <<m.stubs.extra[r.id - Len(m.stubs.names)], 0>>)
MethodsAt(m, loc) ==
    [k \in 1 .. Word(m, loc, 0).id |->
        LET name == Word(m, loc, 8 + 24 * (k - 1))
        IN  [sel |-> IF Word(m, loc, 0).off = Relative /\ m.isecs[loc[1]].file = Internal
                     THEN SlotText(m, name) ELSE TextAt(m, Addr(m, name)),
             imp |-> PtrIn(m, loc, 24 + 24 * (k - 1))]]
EntriesAt(m, loc, each) ==
    [k \in 1 .. Word(m, loc, 0).id |->
        [j \in 1 .. each |-> PtrIn(m, loc, 8 * (each * (k - 1) + j))]]

\* The entries of a list section: a rewritten list is where the input's was
\* (place_replacing_blobs), others that the linker made are at the end.
ListSection(m, sect) ==
    LET ids == Ascending({i \in DOMAIN m.isecs : m.isecs[i].sect = sect})
        inPlace(i) == IF m.isecs[i].file = Internal THEN <<>>
                      ELSE IF m.isecs[i].repl # 0 THEN m.isecs[m.isecs[i].repl].words
                      ELSE IF m.isecs[i].alive THEN m.isecs[i].words ELSE <<>>
        made(i) == IF m.isecs[i].file = Internal /\ \A j \in DOMAIN m.isecs : m.isecs[j].repl # i
                   THEN m.isecs[i].words ELSE <<>>
        words == FlattenSeq([k \in DOMAIN ids |-> inPlace(ids[k])])
                 \o FlattenSeq([k \in DOMAIN ids |-> made(ids[k])])
    IN  [k \in DOMAIN words |-> Addr(m, words[k])]

\* A class as it answers once the categories are attached, the last in front.
Ro(m, cls) == LET p == PtrIn(m, cls, 32) IN <<p[1], 4 * (p[2] \div 4)>>
Attached(m, cls) ==
    Reverse(SelectSeq(ListSection(m, "catlist"), LAMBDA cat : PtrIn(m, cat, 8) = cls))
WithCategories(m, cats, own, field, At(_)) ==
    FlattenSeq([k \in DOMAIN cats |-> At(PtrIn(m, cats[k], field))]) \o At(own)
Implementations(m, methods) ==
    {x \in Range(methods) : \E k \in DOMAIN methods :
        methods[k] = x /\ \A j \in 1 .. k - 1 : methods[j].sel # x.sel}
Answers(m, cls) ==
    LET cats == Attached(m, cls)
        ro == Ro(m, cls)
        meta == Ro(m, PtrIn(m, cls, 0))
        methods(loc) == MethodsAt(m, loc)
        protocols(loc) == EntriesAt(m, loc, 1)
        props(loc) == EntriesAt(m, loc, 2)
    IN  [instance |-> Implementations(m, WithCategories(m, cats, PtrIn(m, ro, 32), 16, methods)),
         class |-> Implementations(m, WithCategories(m, cats, PtrIn(m, meta, 32), 24, methods)),
         protocols |-> WithCategories(m, cats, PtrIn(m, ro, 40), 32, protocols),
         props |-> Range(WithCategories(m, cats, PtrIn(m, ro, 64), 40, props)),
         classProps |-> Range(WithCategories(m, cats, PtrIn(m, meta, 64), 48, props)),
         swift |-> <<PtrIn(m, cls, 32)[2] % 4, Word(m, ro, 0), PtrIn(m, ro, 72)>>]

\* The +load methods called at launch: a class's first, a category's first.
Load == 9   \* the selector
LoadsCalled(m) ==
    LET first(methods) == {x.imp : x \in {x \in Implementations(m, methods) : x.sel = Load}}
        classes == ListSection(m, "nlclslist")
        cats == ListSection(m, "nlcatlist")
    IN  [k \in DOMAIN classes |-> first(MethodsAt(m, PtrIn(m, Ro(m, PtrIn(m, classes[k], 0)), 32)))]
        \o [k \in DOMAIN cats |-> first(MethodsAt(m, PtrIn(m, cats[k], 24)))]

\* What an instruction or a pointer finds behind its target.
Behind(m, rel) ==
    IF rel.ty \in {"gotPage", "gotPageoff"} THEN <<Addr(m, rel.ref)>>
    ELSE LET x == m.isecs[Addr(m, rel.ref)[1]]
             \* A stand-in is the class's entry, if the class has one.
             there == x.alive \/ (x.sect = "got" /\ m.syms[x.words[1].id].got)
         IN  IF there THEN [k \in DOMAIN x.words |->
                             IF IsPointer(x.words[k]) THEN Addr(m, x.words[k]) ELSE x.words[k].id]
             ELSE <<>>
\* The adrp that an offset is used with: the last one before it of its target.
PageOf(i, k) ==
    Max({j \in 1 .. k - 1 : l.isecs[i].code[j].ty = "page" /\ l.isecs[i].code[j].ref = l.isecs[i].code[k].ref})

\* Every class gives the same implementation for every selector, and has the
\* same protocols, properties, flags and initializer, although its categories
\* may be gone; the same +load methods are called, each as often.
ClassesAnswerTheSame ==
    at = "done" =>
        LET cats == ListSection(Before, "catlist")
            classes == Range(ListSection(Before, "classlist"))
                       \cup {PtrIn(Before, cats[k], 8) : k \in DOMAIN cats}
            loads == LoadsCalled(After)
        IN  /\ \A cls \in classes : Answers(After, cls) = Answers(Before, cls)
            /\ \A p \in Range(ListSection(Before, "protolist")) :
                  MethodsAt(After, PtrIn(After, p, 24)) = MethodsAt(Before, PtrIn(Before, p, 24))
            /\ Len(loads) = Len(LoadsCalled(Before)) /\ Range(loads) = Range(LoadsCalled(Before))

\* What the code loads through references, or takes the address of, is the
\* same, with both halves of an address in one form; and a message stub finds
\* the selector that it is named for.
CodeReadsTheSame ==
    at = "done" =>
        \A i \in {i \in DOMAIN l.isecs : isecs[i].code # <<>> /\ isecs[i].alive} :
            \A k \in DOMAIN isecs[i].code :
                LET rel == isecs[i].code[k]
                    was == l.isecs[i].code[k]
                    sym == syms[was.ref.id]
                IN  IF was.ty = "call"
                    THEN sym.file = "obj" /\ stubs.names[sym.idx] = sym.sel
                    ELSE /\ Behind(After, rel) = Behind(Before, was)
                         /\ was.ty = "pageoff" =>
                               LET page == isecs[i].code[PageOf(i, k)]
                               IN  page.ref = rel.ref /\ (page.ty = "gotPage") = (rel.ty = "gotPageoff")
=============================================================================
