---------------------------- MODULE SectionNames ----------------------------
(***************************************************************************)
(* Which output section an input section lands in, and with which flags   *)
(* (macho/passes.rs, SectionMap and its callers; macho/symbol_moves.rs).   *)
(* A section's name is <<segment, section>>; its flags are its type,       *)
(* whether it holds pure instructions, and whether it is no-dead-strip.    *)
(* `o` is a link's options.                                                *)
(***************************************************************************)
EXTENDS Integers, Sequences, FiniteSets, SequencesExt

CONSTANT None

Flags(type, code, nds) == [type |-> type, code |-> code, nds |-> nds]

Plain(type) == Flags(type, FALSE, FALSE)

Code == Flags("regular", TRUE, FALSE)

IsZeroFill(type) == type \in {"zerofill", "tlvbss"}

IsZeroFillInput(type) == IsZeroFill(type) \/ type = "gbzerofill"

IsThreadLocal(type) == type \in {"tlvdata", "tlvbss"}

StringTypes == {"cstring", "literal4", "literal8", "literal16"}

ObjcNames == {"__objc_methname", "__objc_selrefs", "__objc_classlist", "__objc_classrefs",
              "__objc_superrefs", "__objc_protolist", "__objc_protorefs", "__objc_const",
              "__objc_data", "__objc_clsrolist", "__objc_imageinfo", "__objc_methlist", "__objc_stubs"}

\* The table of standard sections, one or more names of each of its rows
StandardFlags(name) ==
    LET sect == name[2]
        text == name[1] = "__TEXT"
        data == name[1] = "__DATA"
    IN  CASE text /\ sect \in {"__text", "__StaticInit", "__stub_helper", "__objc_stubs"} -> Code
          [] text /\ sect \in {"__cstring", "__objc_methname"} -> Plain("cstring")
          [] text /\ sect = "__literal8" -> Plain("literal8")
          [] text /\ sect \in {"__const", "__gcc_except_tab", "__objc_methlist"} -> Plain("regular")
          [] data /\ sect = "__got" -> Plain("nonlazy")
          [] data /\ sect = "__la_symbol_ptr" -> Plain("lazy")
          [] data /\ sect = "__mod_init_func" -> Plain("init")
          [] data /\ sect \in {"__objc_classlist", "__objc_classrefs", "__objc_superrefs", "__objc_clsrolist"}
                -> Flags("regular", FALSE, TRUE)
          [] data /\ sect = "__objc_protolist" -> Plain("coalesced")
          [] data /\ sect = "__objc_protorefs" -> Flags("coalesced", FALSE, TRUE)
          [] data /\ sect = "__objc_selrefs" -> Flags("litptrs", FALSE, TRUE)
          [] data /\ sect = "__thread_vars" -> Plain("tlvvars")
          [] data /\ sect = "__thread_data" -> Plain("tlvdata")
          [] data /\ sect = "__thread_bss" -> Plain("tlvbss")
          [] data /\ sect \in {"__bss", "__common"} -> Plain("zerofill")
          [] data /\ sect \in {"__data", "__const", "__cfstring", "__objc_data", "__objc_const", "__objc_imageinfo"}
                -> Plain("regular")
          [] OTHER -> None

IsRefName(sect) == sect \in {"__objc_superrefs", "__objc_protorefs"}

\* What the linker takes an input section's flags for
CanonicalFlags(name, flags) ==
    LET table == StandardFlags(name)
        unsplit == IF flags.type \in StringTypes THEN [flags EXCEPT !.type = "regular"] ELSE flags
    IN  CASE name = <<"__TEXT", "__constructor">> -> Plain("init")
          [] name = <<"__DATA", "__got">> -> unsplit
          [] name[2] \notin ObjcNames \/ table = None -> flags
          [] name[2] = "__objc_selrefs" -> unsplit
          [] flags.type = table.type \/ (flags.type = "litptrs" /\ IsRefName(name[2])) -> flags
          [] OTHER -> table

IsStandard(name, flags) ==
    \E table \in {StandardFlags(name)} \ {None} :
        table.type = flags.type \/ name[2] \in ObjcNames \/ name = <<"__DATA", "__got">>

InputFlags(name, flags) ==
    LET table == StandardFlags(name) IN
    IF table # None /\ table.type = flags.type THEN table ELSE flags

KeptTypes == {"zerofill", "cstring", "literal4", "literal8", "literal16", "init", "term", "nonlazy",
              "tlvdata", "tlvbss", "tlvvars"}

OutputFlags(name, in, relocatable) ==
    LET table == StandardFlags(name)
        type  == CASE in.type = "gbzerofill" -> "zerofill"
                   [] in.type \in KeptTypes \/ in = Plain("dof") -> in.type
                   [] OTHER -> "regular"
    IN  CASE relocatable /\ name = <<"__DATA", "__got">> -> [in EXCEPT !.type = "regular"]
          [] relocatable /\ table # None /\ in.type = "litptrs" /\ IsRefName(name[2]) -> table
          [] relocatable -> in
          [] OTHER -> Flags(type, in.code /\ in.type \in {"regular", "coalesced"}, FALSE)
-----------------------------------------------------------------------------
(* The renames of the command line *)
SectionRename(o, name) == SelectInSeq(o.rename_sections, LAMBDA r : r[1] = name)

\* What the i-th rename makes of x, and 0 leaves it
RenameTo(renames, i, x) == IF i = 0 THEN x ELSE renames[i][2]

SectionRenamed(o, name) == RenameTo(o.rename_sections, SectionRename(o, name), name)

RenamedSegment(o, seg) ==
    RenameTo(o.rename_segments, SelectInSeq(o.rename_segments, LAMBDA r : r[1] = seg), seg)

InRenamedSegment(o, name) == <<RenamedSegment(o, name[1]), name[2]>>

Renamed(o, name) == InRenamedSegment(o, SectionRenamed(o, name))

WithoutDyld(o) == o.static_link \/ o.kext

ConstInterpose(o) == o.target >= 2 /\ ~o.relocatable /\ ~WithoutDyld(o)

MapRenamedSection(o, name) ==
    IF name = <<"__DATA", "__interpose">> /\ ConstInterpose(o) /\ SectionRename(o, name) = 0
    THEN <<"__DATA_CONST", name[2]>>
    ELSE SectionRenamed(o, name)

MapRenamed(o, name) == InRenamedSegment(o, MapRenamedSection(o, name))

(* The linker's own moves *)
DataConstSections == {"__cfstring", "__const", "__got", "__mod_init_func", "__objc_classlist",
                      "__objc_imageinfo", "__objc_protolist"}

ConstName(o, name) ==
    LET const == CASE name[2] \in {"__objc_classrefs", "__objc_protorefs", "__objc_superrefs"} -> o.target >= 1
                   [] name[2] = "__objc_selrefs" -> o.const_selrefs
                   [] name[2] = "__objc_const" -> o.shared_region /\ o.relative_methods
                   [] OTHER -> name[2] \in DataConstSections
    IN  IF name[1] = "__DATA" /\ o.data_const /\ const THEN <<"__DATA_CONST", name[2]>> ELSE name

BuiltinName(o, name, flags) ==
    CASE o.text_exec /\ flags.code -> <<"__TEXT_EXEC", "__text">>
      [] IsStandard(name, flags) -> ConstName(o, name)
      [] name[1] = "__DATA" /\ flags.type \in {"nonlazy", "init", "term"} /\ o.data_const
            -> <<"__DATA_CONST", name[2]>>
      [] OTHER -> name

ZeroFillName(o, name, flags) ==
    IF o.merge_zero_fill /\ flags.type \in {"zerofill", "gbzerofill"} THEN <<name[1], "__zerofill">> ELSE name

BoundaryName(o, name) ==
    LET const == \/ name \in {<<"__DATA", "__auth_got">>, <<"__DATA", "__weak_got">>}
                 \/ name \in {<<"__DATA", "__la_symbol_ptr">>, <<"__DATA", "__lazy_load_got">>} /\ o.shared_region
    IN  IF o.data_const /\ const THEN <<"__DATA_CONST", name[2]>> ELSE ConstName(o, name)

MergedName(name) ==
    CASE name = <<"__TEXT", "__StaticInit">> -> <<"__TEXT", "__text">>
      [] name = <<"__TEXT", "__literal8">> -> <<"__TEXT", "__const">>
      [] OTHER -> None

\* Where the segment of the mach header, and the image's __text, go
HeaderSegment(o) == IF o.static_link THEN RenamedSegment(o, "__TEXT") ELSE "__TEXT"

RenamedText(o, name) ==
    IF name[1] = "__TEXT" /\ SectionRename(o, name) = 0
    THEN <<HeaderSegment(o), name[2]>>
    ELSE Renamed(o, name)

TextSectionName(o) == RenamedText(o, BuiltinName(o, <<"__TEXT", "__text">>, Code))

(* The name of the output section, and the one its flags follow; None for  *)
(* a section that no output holds                                          *)
OutputNamed(o, own, out) ==
    IF MergedName(own) # None /\ out = own
    THEN [name |-> Renamed(o, MergedName(own)), flagsName |-> MergedName(own)]
    ELSE [name |-> out, flagsName |-> own]

OutputOfOwn(o, own) == OutputNamed(o, own, MapRenamed(o, own))

OutputOf(o, name, flags) ==
    CASE name[1] = "__LLVM" -> None
      [] o.relocatable -> [name |-> Renamed(o, name), flagsName |-> name]
      [] name = <<"__DATA", "__objc_clsrolist">> -> None
      [] OTHER -> OutputOfOwn(o, BuiltinName(o, name, flags))

OutputSectionFor(o, sec, flags) == OutputOf(o, ZeroFillName(o, sec, flags), flags)

(* -move_to_rw_segment, -move_to_ro_segment and -dirty_data_list           *)
MovedFrom(move, from) ==
    IF move.option = "dirty" /\ from[1] # "__DATA" THEN None
    ELSE [name |-> <<move.segment, from[2]>>, flagsName |-> from]

MovedName(o, move, name, flags) ==
    MovedFrom(move, IF move.option = "dirty" THEN BuiltinName(o, name, flags) ELSE name)

DestinationOf(o, move, moved, plain) ==
    CASE moved # None -> [name |-> Renamed(o, moved.name), flagsName |-> moved.flagsName, moved |-> move.option]
      [] plain = None -> None
      [] OTHER -> [name |-> plain.name, flagsName |-> plain.flagsName, moved |-> None]

Destination(o, sec, move) ==
    DestinationOf(o, move,
                  IF move = None THEN None
                  ELSE MovedName(o, move, ZeroFillName(o, sec.name, sec.flags), sec.flags),
                  OutputSectionFor(o, sec.name, sec.flags))

\* The flags of a new output section, from its first member
KextFlags(o, in) == IF o.kext /\ in.type = "nonlazy" THEN [in EXCEPT !.type = "regular"] ELSE in

FirstMemberFlags(o, sec, dest) ==
    CASE ~o.relocatable /\ dest.name = TextSectionName(o) -> Code
      [] MergedName(sec.name) = dest.flagsName -> Plain("regular")
      [] OTHER -> OutputFlags(dest.flagsName, KextFlags(o, InputFlags(sec.name, sec.flags)), o.relocatable)

ContentOf(name, flags) ==
    CASE flags.code -> "code"
      [] flags.type \in {"zerofill", "gbzerofill", "tlvdata", "tlvbss", "tlvvars"} -> "data"
      [] flags.type \in StringTypes -> "code"
      [] name = <<"__TEXT", "__gcc_except_tab">> -> "code"
      [] name \in {<<"__DATA", s>> : s \in {"__data", "__cfstring", "__objc_data", "__objc_const",
                                            "__objc_superrefs", "__objc_protolist", "__objc_protorefs"}} -> "data"
      [] OTHER -> "other"
=============================================================================
