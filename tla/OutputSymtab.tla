---------------------------- MODULE OutputSymtab ----------------------------
(***************************************************************************)
(* The output's symbol and string tables (src/macho/chunks/symtab.rs).     *)
(* The table is planned in ranges (locals, AST paths, debug notes, defined *)
(* globals, imports) and the notes are kept out of the list of entries, so *)
(* that an index in the file and a place in that list differ.  The strings *)
(* of the entries are laid out first; the notes share them where they can  *)
(* and their own follow, in a block for each object that workers fill in   *)
(* parallel.                                                               *)
(*                                                                         *)
(* A name is a sequence of bytes; byte Suffix starts an ".llvm." suffix,   *)
(* byte Label an assembler label.                                          *)
(***************************************************************************)
EXTENDS Integers, Sequences, FiniteSets, SequencesExt, FiniteSetsExt

CONSTANTS Images,  \* families of what the link made
          Suffix, Label, Space

VARIABLES stAt, image,
          entries,   \* [name, sym, kind, stroff, value], without the notes
          stabs,     \* each object's notes, [ty, name, nameOf]
          bounds,    \* where the ranges end: [plain, start, globals]
          entryOf, strxOf, \* by symbol; Missing if it has none
          stabStrx,  \* where each object's strings start, and the last end
          table, strtab, busy

symtabVars == <<stAt, image, entries, stabs, bounds, entryOf, strxOf, stabStrx, table, strtab, busy>>

Missing == -1
Syms == DOMAIN image.syms
Sym(i) == image.syms[i]

LocalSymbolName(n) ==
    LET at == {k \in DOMAIN n : n[k] = Suffix} IN IF at = {} THEN n ELSE SubSeq(n, 1, Min(at) - 1)

ShouldWrite(n) == n # <<>> /\ n[1] # Label

RECURSIVE NameLess(_, _)
NameLess(a, b) ==
    IF b = <<>> THEN FALSE ELSE IF a = <<>> THEN TRUE
    ELSE a[1] < b[1] \/ (a[1] = b[1] /\ NameLess(Tail(a), Tail(b)))

ByName(S) == SetToSortSeq(S, LAMBDA i, j : NameLess(Sym(i).name, Sym(j).name)
                                           \/ (Sym(i).name = Sym(j).name /\ i < j))

IsAlias(i) == \E k \in DOMAIN image.indirect : image.indirect[k][1] = i

----------------------------------------------------------------------------
\* The ranges.

SortedGlobals == ByName({i \in Syms : Sym(i).file = "obj" /\ Sym(i).ext /\ ~Sym(i).pext
                                      /\ (Sym(i).sect => Sym(i).alive)})

Indexed == image.slots \cup {image.indirect[k][2] : k \in DOMAIN image.indirect}

\* classify_symbols
IsUndef(i) == Sym(i).file = "dylib" /\ (Sym(i).used \/ i \in Indexed)
IsPext(i) == /\ Sym(i).file = "obj" /\ Sym(i).ext /\ Sym(i).pext
             /\ IF Sym(i).sect THEN Sym(i).alive ELSE ~IsAlias(i)
             /\ ShouldWrite(Sym(i).name)

Entry(name, sym, kind) == [name |-> name, sym |-> sym, kind |-> kind, stroff |-> 0, value |-> Missing]

\* ObjectFile::populate_symtab
ObjectLocals(o) ==
    LET listed == {i \in Syms : /\ Sym(i).obj = o /\ Sym(i).file = "obj" /\ ~Sym(i).ext
                                /\ ShouldWrite(Sym(i).name) /\ i \notin image.listedOut
                                /\ (Sym(i).sect => Sym(i).alive)}
        order == SetToSortSeq(listed, LAMBDA i, j : i < j)
    IN [k \in DOMAIN order |-> Entry(LocalSymbolName(Sym(order[k]).name), order[k], "local")]

\* plan_local_symbols: an absolute private external of an object keeps its
\* value, and no symbol, in the entry.
PextEntry(i) ==
    Entry(LocalSymbolName(Sym(i).name), IF ~Sym(i).sect /\ Sym(i).obj # 0 THEN Missing ELSE i, "local")

PlanLocals ==
    LET pexts == SetToSortSeq({i \in Syms : IsPext(i)}, LAMBDA i, j : i < j)
    IN IF image.stripLocals THEN <<>>
       ELSE FlattenSeq([o \in DOMAIN image.objs |-> ObjectLocals(o)])
            \o [k \in DOMAIN pexts |-> PextEntry(pexts[k])]
            \o [k \in DOMAIN image.linkerLocals |-> Entry(image.linkerLocals[k], Missing, "local")]

AstPaths == IF image.stripDebug THEN <<>> ELSE [k \in DOMAIN image.asts |-> Entry(image.asts[k], Missing, "ast")]

PlanEntries ==
    LET locals == PlanLocals
        globals == SortedGlobals
        undefs == ByName({i \in Syms : IsUndef(i)})
        start == Len(locals) + Len(AstPaths)
    IN /\ stAt = "entries"
       /\ entries' = locals \o AstPaths
                     \o [k \in DOMAIN globals |-> Entry(Sym(globals[k]).name, globals[k], "global")]
                     \o [k \in DOMAIN undefs |-> Entry(Sym(undefs[k]).name, undefs[k], "undef")]
       /\ bounds' = [plain |-> Len(locals), start |-> start, globals |-> start + Len(globals)]
       /\ stAt' = "stabs"
       /\ UNCHANGED <<image, stabs, entryOf, strxOf, stabStrx, table, strtab, busy>>

----------------------------------------------------------------------------
\* The debug notes.

Stab(ty, name, of) == [ty |-> ty, name |-> name, nameOf |-> of]

\* symbol_stabs: a function has four entries, its name in the second.
SymbolStabs(i) ==
    LET s == Sym(i)
        name == IF ~s.ext \/ s.pext THEN LocalSymbolName(s.name) ELSE s.name
    IN IF s.text THEN <<Stab("BNSYM", <<>>, Missing), Stab("FUN", name, i), Stab("SIZE", <<>>, Missing), Stab("ENSYM", <<>>, Missing)>>
       ELSE <<Stab(IF s.ext THEN "GSYM" ELSE "STSYM", name, i)>>

\* The symbols of object o that are noted: its own, those it only declares
\* tentatively, none that was coalesced away or stripped.
Noted(o) ==
    SetToSortSeq({i \in Syms : /\ Sym(i).file = "obj"
                               /\ Sym(i).obj = o \/ (Sym(i).obj = 0 /\ o \in Sym(i).declares)
                               /\ ShouldWrite(Sym(i).name) /\ ~Sym(i).coalesced /\ Sym(i).sect /\ Sym(i).alive},
                 LAMBDA i, j : i < j)

DwarfStabs(o) ==
    LET syms == Noted(o) IN
    [k \in 1..3 |-> Stab(<<"SO", "SO", "OSO">>[k], image.objs[o].paths[k], Missing)]
        \o FlattenSeq([k \in DOMAIN syms |-> SymbolStabs(syms[k])]) \o <<Stab("END", <<>>, Missing)>>

Addressed(n) == n.ty \in {"FUN", "BNSYM", "ENSYM", "STSYM"}

\* The symbol a copied note names: the object's local, or a global.
NameOf(o, n) ==
    LET locals == {i \in Syms : Sym(i).name = n.name /\ Sym(i).obj = o /\ ~Sym(i).ext}
        globals == {i \in Syms : Sym(i).name = n.name /\ Sym(i).ext}
    IN IF n.ty \notin {"FUN", "STSYM"} THEN Missing
       ELSE IF locals # {} THEN Max(locals) ELSE IF globals # {} THEN Min(globals) ELSE Missing

\* copy_object_stabs: the notes of an earlier -r output, without those of
\* dead code, a function's size entry with it, and without a closing note
\* that closes nothing.
CopyStab(o, st, n) ==
    LET unit == n.ty # "END"
        global == {i \in Syms : Sym(i).name = n.name /\ Sym(i).ext}
        own == {i \in global : Sym(i).file = "obj" /\ Sym(i).obj \in {o, 0}}
        local == {i \in Syms : Sym(i).name = n.name /\ Sym(i).obj = o /\ ~Sym(i).ext}
    IN CASE n.ty = "END" /\ ~st.inUnit -> st
         [] n.ty = "GSYM" /\ local # {} ->
              [st EXCEPT !.inUnit = unit,
                         !.out = IF \A i \in local : Sym(i).sect /\ ~Sym(i).alive THEN @
                                 ELSE Append(@, Stab("STSYM", n.name, Max(local)))]
         [] n.ty = "GSYM" /\ local = {} ->
              [st EXCEPT !.inUnit = unit,
                         !.out = IF own = {} THEN @ ELSE Append(@, Stab("GSYM", n.name, Min(own)))]
         [] n.ty # "GSYM" /\ Addressed(n) /\ n.dead -> [st EXCEPT !.inUnit = unit, !.skip = n.ty = "FUN"]
         [] n.ty = "SIZE" /\ st.skip -> [st EXCEPT !.inUnit = unit, !.skip = FALSE]
         [] OTHER -> [st EXCEPT !.inUnit = unit, !.out = Append(@, Stab(n.ty, n.name, NameOf(o, n)))]

ObjectStabs(o) ==
    CASE image.objs[o].debug = "stabs" ->
           FoldLeft(LAMBDA st, n : CopyStab(o, st, n), [out |-> <<>>, inUnit |-> FALSE, skip |-> FALSE],
                    image.objs[o].stabs).out
      [] image.objs[o].debug = "dwarf" -> DwarfStabs(o)
      [] OTHER -> <<>>

PlanStabs ==
    /\ stAt = "stabs"
    /\ stabs' = IF image.stripDebug THEN <<>> ELSE [o \in DOMAIN image.objs |-> ObjectStabs(o)]
    /\ stAt' = "strings"
    /\ UNCHANGED <<image, entries, bounds, entryOf, strxOf, stabStrx, table, strtab, busy>>

NStabs == FoldLeft(LAMBDA a, p : a + Len(p), 0, stabs)

----------------------------------------------------------------------------
\* The strings.

StringSize(n) == IF n = <<>> THEN 0 ELSE Len(n) + 1

\* layout_strings: after the leading " \0", in entry order, each its own.
StringAt(k) == 2 + FoldLeft(LAMBDA a, e : a + StringSize(e.name), 0, SubSeq(entries, 1, k - 1))
StringsEnd == StringAt(Len(entries) + 1)

LayoutStrings ==
    /\ stAt = "strings"
    /\ entries' = [k \in DOMAIN entries |->
                     [entries[k] EXCEPT !.stroff = IF entries[k].name = <<>> THEN 1 ELSE StringAt(k)]]
    /\ stAt' = "index"
    /\ UNCHANGED <<image, stabs, bounds, entryOf, strxOf, stabStrx, table, strtab, busy>>

\* Faulty variant: a place in the list of entries is an index in the file.
FileIndex_IgnoresNotes(k) == k

\* Where an entry goes in the file: the notes come before the globals.
FileIndex(k) == IF k <= bounds.start THEN k ELSE k + NStabs

\* The places of symbol i among the entries that an index may point at; its
\* string is shared unless it is an import's.
EntriesOf(i) == {k \in DOMAIN entries : entries[k].sym = i /\ (k <= bounds.plain \/ k > bounds.start)}

IndexSymbols ==
    /\ stAt = "index"
    /\ entryOf' = [i \in Syms |-> IF EntriesOf(i) = {} THEN Missing ELSE FileIndex(Max(EntriesOf(i)))]
    /\ strxOf' = [i \in Syms |-> LET own == {k \in EntriesOf(i) : k <= bounds.globals}
                                  IN IF own = {} THEN Missing ELSE entries[Max(own)].stroff]
    /\ stAt' = "set_stabs"
    /\ UNCHANGED <<image, entries, stabs, bounds, stabStrx, table, strtab, busy>>

\* The string of the symbol a note names, if the table has it.
SharedStrx(n) == IF n.nameOf = Missing THEN Missing ELSE strxOf[n.nameOf]

OwnSize(n) == IF SharedStrx(n) # Missing THEN 0 ELSE StringSize(n.name)

\* set_stabs: each object's strings follow the previous one's.
SetStabs ==
    LET upTo(o) == FoldLeft(LAMBDA a, p : a + FoldLeft(LAMBDA b, n : b + OwnSize(n), 0, p), StringsEnd,
                            SubSeq(stabs, 1, o - 1))
    IN /\ stAt = "set_stabs"
       /\ stabStrx' = [o \in 1..(Len(stabs) + 1) |-> upTo(o)]
       /\ stAt' = "aliases"
       /\ UNCHANGED <<image, entries, stabs, bounds, entryOf, strxOf, table, strtab, busy>>

\* make_indirect_aliases, from indices in the file to places in the list.
PlaceOf(index) == IF index <= bounds.start THEN index ELSE index - NStabs

MakeIndirectAliases ==
    LET listed == {k \in DOMAIN image.indirect : entryOf[image.indirect[k][1]] # Missing
                                               /\ entryOf[image.indirect[k][2]] # Missing}
        aliasAt(k) == PlaceOf(entryOf[image.indirect[k][1]])
        target(k) == entries[PlaceOf(entryOf[image.indirect[k][2]])]
    IN /\ stAt = "aliases"
       /\ entries' = [e \in DOMAIN entries |->
                        LET of == {k \in listed : aliasAt(k) = e}
                        IN IF of = {} THEN entries[e]
                           ELSE [entries[e] EXCEPT !.kind = "indirect", !.value = target(Max(of)).stroff, !.sym = Missing]]
       /\ table' = [k \in 1..(Len(entries) + NStabs) |-> Entry(<<>>, Missing, "blank")]
       /\ strtab' = [k \in 1..stabStrx[Len(stabs) + 1] |-> IF k = 1 THEN Space ELSE 0]
       /\ busy' = {0} \cup DOMAIN stabs
       /\ stAt' = "copy"
       /\ UNCHANGED <<image, stabs, bounds, entryOf, strxOf, stabStrx>>

----------------------------------------------------------------------------
\* Writing, the entries and each object's notes in parallel.

Put(buf, off, bytes) == [k \in DOMAIN buf |-> IF k - off \in DOMAIN bytes THEN bytes[k - off] ELSE buf[k]]

WriteEntries ==
    /\ stAt = "copy" /\ 0 \in busy
    /\ table' = [k \in DOMAIN table |->
                   IF k <= bounds.start \/ k > bounds.start + NStabs THEN entries[PlaceOf(k)] ELSE table[k]]
    /\ strtab' = FoldLeft(LAMBDA b, e : Put(b, e.stroff, e.name), strtab, entries)
    /\ busy' = busy \ {0}
    /\ UNCHANGED <<stAt, image, entries, stabs, bounds, entryOf, strxOf, stabStrx>>

\* StabPlan::populate_symtab into the object's block.
WriteStab(st, n) ==
    LET strx == CASE SharedStrx(n) # Missing -> SharedStrx(n)
                  [] SharedStrx(n) = Missing /\ n.name = <<>> -> 1
                  [] OTHER -> st.next
    IN [table |-> [st.table EXCEPT ![st.at] = [Entry(n.name, n.nameOf, n.ty) EXCEPT !.stroff = strx]],
        strtab |-> IF strx = st.next THEN Put(st.strtab, strx, n.name \o <<0>>) ELSE st.strtab,
        at |-> st.at + 1, next |-> IF strx = st.next THEN st.next + Len(n.name) + 1 ELSE st.next]

WriteStabs(o) ==
    LET first == bounds.start + 1 + FoldLeft(LAMBDA a, p : a + Len(p), 0, SubSeq(stabs, 1, o - 1))
        done == FoldLeft(WriteStab, [table |-> table, strtab |-> strtab, at |-> first, next |-> stabStrx[o]], stabs[o])
    IN /\ stAt = "copy" /\ o \in busy
       /\ table' = done.table /\ strtab' = done.strtab
       /\ busy' = busy \ {o}
       /\ UNCHANGED <<stAt, image, entries, stabs, bounds, entryOf, strxOf, stabStrx>>

SymtabInit ==
    /\ stAt = "entries" /\ \E family \in Images : image \in family
    /\ entries = <<>> /\ stabs = <<>> /\ bounds = <<>> /\ entryOf = <<>> /\ strxOf = <<>>
    /\ stabStrx = <<>> /\ table = <<>> /\ strtab = <<>> /\ busy = {}

SymtabNext ==
    \/ PlanEntries \/ PlanStabs \/ LayoutStrings \/ IndexSymbols \/ SetStabs \/ MakeIndirectAliases
    \/ WriteEntries \/ \E o \in busy \ {0} : WriteStabs(o)

SymtabSpec == SymtabInit /\ [][SymtabNext]_symtabVars

----------------------------------------------------------------------------
Written == stAt = "copy" /\ busy = {}

\* The string at offset off, up to its NUL.
StringIn(off) ==
    LET ends == {k \in (off + 1)..Len(strtab) : strtab[k] = 0}
    IN IF ends = {} THEN SubSeq(strtab, off + 1, Len(strtab)) ELSE SubSeq(strtab, off + 1, Min(ends) - 1)

\* In whatever order the blocks are written: every entry and every note
\* reads back the name it was planned with, shared or its own; the index the
\* indirect symbol table takes for a symbol holds that symbol's entry; and an
\* N_INDR entry's value spells the import it stands for.
EntriesNameTheirSymbols ==
    Written =>
        /\ \A k \in DOMAIN table :
              /\ table[k].kind # "blank" /\ StringIn(table[k].stroff) = table[k].name
              /\ table[k].kind = "indirect" =>
                    \E p \in Range(image.indirect) :
                       /\ entryOf[p[1]] = k /\ StringIn(table[k].value) = Sym(p[2]).name
        /\ \A i \in Syms : entryOf[i] # Missing =>
              /\ table[entryOf[i]].sym = i \/ (table[entryOf[i]].kind = "indirect" /\ IsAlias(i))
        /\ \A i \in Indexed : IsUndef(i) => entryOf[i] # Missing

\* The notes a debugger reads come whole: a function's named entry is
\* followed by its size, no size comes alone, and a unit that is opened is
\* closed before the next.
NotesArePaired ==
    Written =>
        \A k \in DOMAIN table :
            /\ table[k].kind = "FUN" => k < Len(table) /\ table[k + 1].kind = "SIZE"
            /\ table[k].kind = "SIZE" => k > 1 /\ table[k - 1].kind = "FUN"
            /\ table[k].kind = "END" => k > 1 /\ table[k - 1].kind # "END"
=============================================================================
