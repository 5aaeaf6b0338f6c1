------------------------------ MODULE Options ------------------------------
(***************************************************************************)
(* How the linker settles the options of a command line (cmdline.rs) once  *)
(* it has read them: the kind of output, the target, and then the options  *)
(* whose values depend on one another, on the target and on the kind, each *)
(* in a step of resolve_options, and at last the checks of the options     *)
(* that cannot go together.                                                *)
(*                                                                         *)
(* A link is the record of what the command line gives.  Of an option that *)
(* may be absent None stands for absence.  Addresses and sizes are scaled  *)
(* down: KiB4 is a 4 KiB page, GiB4 four GiB, Top the largest address; odd *)
(* numbers lie off every page.  Versions are encode_version's              *)
(* (major * 10000 + minor * 100 + patch).  The wording of the diagnostics  *)
(* is left out: a step either refuses the link or goes on.                 *)
(***************************************************************************)
EXTENDS Integers, Sequences, FiniteSets, SequencesExt

CONSTANTS Links,     \* a family of sets of links
          None       \* an option that is not given

VARIABLES given,     \* the command line: ParseState and the options as read
          kind,      \* ParseState::kind, as read so far
          args,      \* Args, as settled so far
          step       \* the step under way, "done" or "refused"

optVars == <<given, kind, args, step>>

-----------------------------------------------------------------------------
KiB4 == 2

KiB16 == 8

GiB4 == 32

\* The most a stack may take: x86-64 macOS, and elsewhere.
MostStack(a) == IF a.arch = "x86_64" /\ a.platform = "macos" THEN 48 ELSE 24

\* Where the stack of an LC_UNIXTHREAD image ends unless -stack_addr says.
DefaultTop(a) == IF a.arch = "x86_64" /\ a.platform = "macos" THEN 96 ELSE 48

\* The largest address.
Top == 127

PageSize(arch) == IF arch = "arm64" THEN KiB16 ELSE KiB4

Or(opt, default) == IF opt = None THEN default ELSE opt

AlignTo(n, align) == ((n + align - 1) \div align) * align

\* The largest power of two up to n.
PowerBelow(n) == LET P == {p \in {1, 2, 4, 8, 16, 32, 64} : p <= n}
                 IN  CHOOSE p \in P : \A q \in P : q <= p

\* The last pair of a segment in a list wins, in the first one's place.
LastWins(pairs) ==
    LET names == {pairs[i][1] : i \in DOMAIN pairs}
        first(n) == CHOOSE i \in DOMAIN pairs :
                       pairs[i][1] = n /\ \A j \in 1..(i - 1) : pairs[j][1] # n
        last(n) == CHOOSE i \in DOMAIN pairs :
                       pairs[i][1] = n /\ \A j \in DOMAIN pairs : j > i => pairs[j][1] # n
        order == SetToSortSeq(names, LAMBDA m, n : first(m) < first(n))
    IN  [i \in DOMAIN order |-> <<order[i], pairs[last(order[i])][2]>>]

\* The first entry of a segment in a list wins.
FirstWins(entries) ==
    FoldLeft(LAMBDA out, e : IF \E i \in DOMAIN out : out[i][1] = e[1] THEN out ELSE Append(out, e),
             <<>>, entries)

Pin(a, name) ==
    IF \E i \in DOMAIN a.segaddrs : a.segaddrs[i][1] = name
    THEN (CHOOSE p \in Range(a.segaddrs) : p[1] = name)[2]
    ELSE None

-----------------------------------------------------------------------------
\* What kind of image the arguments describe.

IsKext(a) == a.output = "kext"

IsDylinker(a) == a.output = "dylinker"

WithoutDyld(a) == a.static \/ IsKext(a)

HasEntryPoint(a) == (a.output = "execute" /\ ~ a.relocatable) \/ IsDylinker(a)

MainExecutable(a) == a.output = "execute" /\ ~ a.relocatable

\* VersionSet: [macos, ios, visionos, firmware].
Fall2012 == [macos |-> 100800, ios |-> 60000, visionos |-> 0, firmware |-> TRUE]

Fall2019 == [macos |-> 101500, ios |-> 130000, visionos |-> 0, firmware |-> TRUE]

Fall2020 == [macos |-> 110000, ios |-> 140000, visionos |-> 0, firmware |-> TRUE]

Fall2024 == [macos |-> 150000, ios |-> 180000, visionos |-> 20000, firmware |-> FALSE]

Fall2026 == [macos |-> 270000, ios |-> 270000, visionos |-> 270000, firmware |-> FALSE]

Targets(a, set) ==
    CASE a.platform = "macos" -> a.minos >= set.macos
      [] a.platform \in {"ios", "iossim", "tvos"} -> a.minos >= set.ios
      [] a.platform = "visionos" -> a.minos >= set.visionos
      [] a.platform = "firmware" -> set.firmware
      [] OTHER -> FALSE

Predates(a, set) == a.platform # None /\ ~ Targets(a, set)

IsSimulator(platform) == platform = "iossim"

\* Whether ld-prime defaults to chained fixups for such an output.
IsNewOs(a, output) ==
    CASE a.platform = "macos" ->
            a.minos >= IF a.arch = "x86_64" /\ output = "execute" THEN 130000 ELSE 120000
      [] a.platform = "ios" -> a.minos >= 130400
      [] a.platform = "tvos" -> a.minos >= 140000
      [] a.platform = "iossim" -> a.minos >= 150000
      [] a.platform \in {"visionos", "firmware"} -> TRUE
      [] OTHER -> FALSE

BeforeMacos10_6(a) == a.arch = "x86_64" /\ a.platform = "macos" /\ a.minos < 100600

\* Whether the command line may lay out the segments and the sections.
CustomLayout(a) == a.static \/ a.platform = "firmware"

InSharedCachePath(a) == \/ given.installed = "system"
                        \/ given.installed = "apple" /\ a.platform = "macos"

-----------------------------------------------------------------------------
\* The rules of the fixups.

\* -fixup_chains and -no_fixup_chains, which a kext or a kernel takes neither of.
AskedChains(a) == IF IsKext(a) \/ given.kernel THEN None ELSE given.chains

ResolvePie(a) ==
    IF given.pie = FALSE /\ MainExecutable(a) /\ ~ a.static
    THEN a.arch = "arm64"
    ELSE Or(given.pie, \/ ~ a.static /\ ~ BeforeMacos10_6(a)
                       \/ given.kernel
                       \/ AskedChains(a) = TRUE)

ChainedByDefault(a) == (a.pie \/ a.output # "execute") /\ IsNewOs(a, a.output)

ResolveFixupChains(a) ==
    /\ ~ IsKext(a)
    /\ IF a.static
       THEN AskedChains(a) = TRUE
       ELSE Or(AskedChains(a), ~ a.dynamicLookup /\ ChainedByDefault(a))

ResolveLazyBinding(a) == ~ a.relocatable /\ ~ WithoutDyld(a) /\ ~ a.chains /\ ~ given.bindAtLoad

ResolveLegacyLinkedit(a) ==
    BeforeMacos10_6(a) /\ ~ a.relocatable /\ ~ WithoutDyld(a) /\ ~ a.chains

ResolveInitOffsets(a) ==
    \/ given.initOffsets
    \/ ~ WithoutDyld(a) /\ Or(AskedChains(a), ChainedByDefault(a))

ReadOnlyRelocsApply(a) == \/ a.relocatable \/ a.static \/ a.platform = "firmware"
                          \/ IsKext(a) /\ a.arch = "x86_64"

ResolveTextRelocs(a) ==
    IF given.readOnlyRelocs # None
    THEN given.readOnlyRelocs /\ ReadOnlyRelocsApply(a)
    ELSE a.arch = "x86_64" /\ (IsKext(a) \/ (a.output = "execute" /\ ~ a.pie))

\* The options that put the fixups in a section of their own are refused.
BadFixupSections(a) ==
    LET dynamic == ~ a.static /\ ~ a.relocatable /\ ~ IsKext(a)
    IN  \/ given.rebaseSection /\ AskedChains(a) = TRUE
        \/ (given.rebaseSection \/ given.chainStarts) /\ dynamic
        \/ given.rebaseSection /\ ~ IsKext(a) /\ ~ given.kernel

\* The rules that other options follow from.
ResolveSharedRegion(a) ==
    LET dylib == a.output = "dylib"
    IN  /\ ~ given.notForCache
        /\ ~ (dylib /\ given.debugVariant)
        /\ \/ given.splitSeg
           \/ given.kernel
           \/ IsKext(a) /\ a.arch = "arm64"
           \/ IsDylinker(a)
           \/ dylib /\ InSharedCachePath(a)

DefaultDataConst(a) ==
    IF WithoutDyld(a) THEN a.sharedRegion
    ELSE /\ a.output = "execute" => a.pie
         /\ \/ a.sharedRegion
            \/ a.platform = "firmware"
            \/ /\ given.pie # FALSE
               /\ Targets(a, Fall2019)
               /\ ~ (a.platform = "macos" /\ a.minos \in 101504..101599)

ResolveUnalignedPointers(a) ==
    IF a.relocatable \/ WithoutDyld(a) THEN "suppress"
    ELSE IF a.arch = "arm64" /\ (a.chains \/ a.sharedRegion) THEN "error"
    ELSE Or(given.unaligned, IF a.chains \/ IsNewOs(a, a.output) THEN "warning" ELSE "suppress")

EncryptableByDefault(a) ==
    /\ a.platform \in {"ios", "tvos", "visionos"}
    /\ kind \in {"DynamicExecutable", "Dylib", "Bundle"}
    /\ ~ given.noEncrypt

ResolveSegmentAlign(a) ==
    CASE given.segalign = None /\ a.encryptable ->
            IF PageSize(a.arch) > KiB16 THEN PageSize(a.arch) ELSE KiB16
      [] given.segalign = KiB4 /\ a.encryptable -> KiB16
      [] given.segalign = None /\ ~ a.encryptable ->
            IF a.preload THEN KiB4 ELSE PageSize(a.arch)
      [] OTHER -> PowerBelow(given.segalign)

-----------------------------------------------------------------------------
\* The steps in the order the parse takes them.
Order == <<"target", "defaults", "segaddrs", "lazyLoad", "delayInit", "fixups", "sharedRegion",
           "segmentAlign", "segprots", "pageSizes", "pagezero", "stack", "dataConst", "kext",
           "segmentOrder", "imageBase", "unaligned", "check", "done">>

\* The step s: it refuses the link, or leaves new and hands over to the next.
Settle(s, refuses, new) ==
    /\ step = s
    /\ IF refuses
       THEN step' = "refused" /\ UNCHANGED args
       ELSE /\ args' = new
            /\ step' = Order[1 + CHOOSE i \in DOMAIN Order : Order[i] = s]
    /\ UNCHANGED <<given, kind>>

\* One of the options that name the kind of output.
KindAfter(option) ==
    CASE option = "-execute" -> IF kind = "StaticExecutable" THEN kind ELSE "DynamicExecutable"
      [] option = "-static" -> IF kind \in {"Object", "Kext"} THEN kind ELSE "StaticExecutable"
      [] option = "-dylib" -> "Dylib"
      [] option = "-bundle" -> "Bundle"
      [] option = "-r" -> "Object"
      [] option = "-preload" -> "Preload"
      [] option = "-kext" -> "Kext"
      [] option = "-dylinker" -> "Dylinker"

ReadKind ==
    /\ step = "read" /\ given.kinds # <<>>
    /\ kind' = KindAfter(Head(given.kinds))
    /\ given' = [given EXCEPT !.kinds = Tail(@)]
    /\ UNCHANGED <<args, step>>

OutputType == CASE kind = "Dylib" -> "dylib" [] kind = "Bundle" -> "bundle"
                [] kind = "Kext" -> "kext" [] kind = "Dylinker" -> "dylinker"
                [] OTHER -> "execute"

\* set_output_kind, and -target's triple in place of -arch and -platform_version.
SetOutputKind ==
    LET named == IF given.triple # None THEN given.triple ELSE given
    IN  /\ step = "read" /\ given.kinds = <<>>
        /\ step' = Order[1]
        /\ args' = [args EXCEPT !.output = OutputType,
                                !.relocatable = (kind = "Object"),
                                !.static = (kind \in {"StaticExecutable", "Preload"}),
                                !.preload = (kind = "Preload"),
                                !.arch = named.arch, !.platform = named.platform,
                                !.minos = named.minos]
        /\ UNCHANGED <<given, kind>>

\* The first input of the command line of those wanted, if any.
Inputs == {given.inputs[i] : i \in DOMAIN given.inputs}
FirstInput(wanted) ==
    IF wanted = {} THEN None
    ELSE given.inputs[CHOOSE i \in DOMAIN given.inputs :
                         /\ given.inputs[i] \in wanted
                         /\ \A j \in 1..(i - 1) : given.inputs[j] \notin wanted]

\* Without -arch, the first object or bitcode file names the architecture.
DetectMachineType(a) ==
    LET first == FirstInput({f \in Inputs : f.type \in {"object", "bitcode"}})
    IN  IF a.arch # None THEN a.arch ELSE IF first = None THEN None ELSE first.arch

\* Without -platform_version, the first object with a platform names it, else
\* the first bitcode file.
InferPlatform(a) ==
    LET object == FirstInput({f \in Inputs : f.type = "object" /\ f.platform # None})
        bitcode == FirstInput({f \in Inputs : f.type = "bitcode"})
        from == IF object # None THEN object ELSE bitcode
    IN  IF a.platform # None \/ from = None THEN a
        ELSE [a EXCEPT !.platform = from.platform, !.minos = from.minos]

\* An iOS before 4.3 loads no position-independent executable.
TooOld(a) == a.platform \in {"ios", "iossim"} /\ a.minos < 40300 /\ ~ a.preload

ResolveTarget ==
    LET a == [args EXCEPT !.arch = DetectMachineType(args)]
        b == InferPlatform(a)
    IN  Settle("target",
               \/ a.arch = None
               \/ b.platform = None /\ ~ a.relocatable /\ ~ a.preload
               \/ TooOld(b),
               b)

OldExecutable(a) == a.arch = "x86_64" /\ MainExecutable(a) /\ Predates(a, Fall2012)

ResolveUnixthread(a) == a.static \/ IsDylinker(a) \/ OldExecutable(a)

\* The entry point: crt1.o's start in an image that starts from LC_UNIXTHREAD,
\* and never where dyld calls it as main.
ResolveEntry(a) ==
    IF ResolveUnixthread(a) THEN Or(given.entry, "start")
    ELSE IF HasEntryPoint(a) /\ given.entry = "start" THEN "_main"
    ELSE Or(given.entry, "_main")

ResolveDefaults ==
    LET a == args
        loads == ~ WithoutDyld(a)
        signed == a.arch = "arm64" /\ loads /\ (a.platform = "macos" \/ IsSimulator(a.platform))
        relative == (a.arch = "arm64" \/ a.output # "execute") /\ Targets(a, Fall2020)
        firmware == a.platform = "firmware" /\ loads /\ ~ a.relocatable
    IN  Settle("defaults", FALSE,
               [a EXCEPT !.codeTables = ~ a.preload /\ Or(given.codeTables, loads),
                         !.sourceVersion = ~ a.preload /\ ~ Predates(a, Fall2012),
                         !.adhocCodesign = ~ a.preload /\ Or(given.adhocCodesign, signed),
                         !.relativeLists = loads /\ Or(given.relativeLists, relative),
                         !.commonAlign = IF a.preload THEN 8 ELSE 15,
                         !.rpaths = ~ a.preload /\ given.rpaths,
                         !.headerpad = Or(given.headerpad, IF firmware THEN 128 ELSE 32),
                         !.unixthread = ResolveUnixthread(a),
                         !.entry = ResolveEntry(a)])

ResolveSegaddrs == Settle("segaddrs", FALSE, [args EXCEPT !.segaddrs = LastWins(given.segaddrs)])

\* Whether dyld does what the libraries of a kind ask for.
DyldSupports(a, set) == Targets(a, set) /\ ~ a.preload

ResolveLazyLoad ==
    Settle("lazyLoad", FALSE,
           [args EXCEPT !.lazyLoad = given.lazyLibraries # {} /\ DyldSupports(args, Fall2026)])

\* A delayed library wants _dlopen, and -init its function.
ResolveDelayInit ==
    Settle("delayInit", FALSE,
           [args EXCEPT !.forced = @ \cup (IF given.delayLibraries # {} THEN {"_dlopen"} ELSE {})
                                     \cup (IF given.init # None THEN {given.init} ELSE {})])

\* Faulty variant: the chains are decided before the image is known to be PIE.
FixupsOf_ChainsFirst(a) ==
    LET c == [a EXCEPT !.chains = ResolveFixupChains(a)]
        p == [c EXCEPT !.pie = ResolvePie(c)]
    IN  [p EXCEPT !.chainsSection = given.chainStarts /\ p.static /\ p.chains,
                  !.lazyBinding = ResolveLazyBinding(p),
                  !.legacyLinkedit = ResolveLegacyLinkedit(p),
                  !.initOffsets = ResolveInitOffsets(p),
                  !.textRelocs = ResolveTextRelocs(p)]

\* resolve_fixups: position independence, then the chains, then what they rule out.
FixupsOf(a) ==
    LET p == [a EXCEPT !.pie = ResolvePie(a)]
        c == [p EXCEPT !.chains = ResolveFixupChains(p)]
    IN  [c EXCEPT !.chainsSection = given.chainStarts /\ c.static /\ c.chains,
                  !.lazyBinding = ResolveLazyBinding(c),
                  !.legacyLinkedit = ResolveLegacyLinkedit(c),
                  !.initOffsets = ResolveInitOffsets(c),
                  !.textRelocs = ResolveTextRelocs(c)]

ResolveFixups == Settle("fixups", BadFixupSections(args), FixupsOf(args))

ResolveSharedRegionStep ==
    LET shared == ResolveSharedRegion(args)
        small == given.stubsSmall = TRUE
    IN  Settle("sharedRegion", shared /\ small,
               [args EXCEPT !.sharedRegion = shared,
                            !.ignoreHints = given.ignoreHints \/ given.makeMergeable \/ shared,
                            !.stubsSmall = small /\ args.arch = "arm64"])

ResolveSegmentAlignStep ==
    LET a == [args EXCEPT !.encryptable = Or(given.encryptable, EncryptableByDefault(args))]
        align == ResolveSegmentAlign(a)
        encrypted == a.encryptable /\ ~ a.relocatable /\ ~ a.preload /\ ~ IsKext(a)
    IN  Settle("segmentAlign", FALSE,
               [a EXCEPT !.segmentAlign = align, !.encryptable = encrypted,
                         !.oslogAlign = IF encrypted THEN Or(given.oslogAlign, align)
                                        ELSE given.oslogAlign])

ResolveSegprots ==
    LET first == FirstWins(given.segprots)
    IN  Settle("segprots", FALSE,
               [args EXCEPT !.segprots = [i \in DOMAIN first |->
                    IF args.arch = "arm64" THEN <<first[i][1], first[i][3], first[i][3]>>
                    ELSE first[i]]])

ResolveSegPageSizes ==
    LET sizes == [i \in DOMAIN given.pageSizes |->
                     <<given.pageSizes[i][1],
                       IF given.pageSizes[i][2] = 0 THEN 0 ELSE PowerBelow(given.pageSizes[i][2])>>]
    IN  Settle("pageSizes",
               ~ args.relocatable /\ \E i \in DOMAIN sizes : sizes[i][2] < args.segmentAlign,
               [args EXCEPT !.pageSizes = FirstWins(sizes)])

\* __PAGEZERO's size: rounded up to a page, and 4 GiB at most with chains.
PagezeroOf(a) ==
    LET asked == IF a.output # "execute" \/ a.preload THEN 0
                 ELSE Or(given.pagezero, IF given.kernel THEN 0 ELSE GiB4)
        rounded == AlignTo(asked, a.segmentAlign)
    IN  IF a.relocatable THEN asked
        ELSE IF a.chains /\ rounded > GiB4 THEN GiB4 ELSE rounded

ResolvePagezeroSize ==
    Settle("pagezero",
           \/ ~ (MainExecutable(args) /\ ~ args.preload) /\ given.pagezero \notin {None, 0}
           \/ /\ given.pagezero # None
              /\ MainExecutable(args) /\ ~ args.preload
              /\ AlignTo(given.pagezero, args.segmentAlign) > Top,
           [args EXCEPT !.pagezero = PagezeroOf(args)])

\* -stack_addr and -stack_size, the address 0 standing for none.
StackAddr == IF given.stackAddr = 0 THEN None ELSE given.stackAddr

StackTop(a) == Or(StackAddr, DefaultTop(a))

BadStackAddr(a) ==
    LET page == IF a.relocatable THEN KiB4 ELSE a.segmentAlign
    IN  StackAddr # None /\ (StackAddr % page # 0 \/ given.stackSize \in {None, 0})

BadStackSize(a) ==
    \/ given.stackSize > MostStack(a)
    \/ ~ MainExecutable(a) \/ a.preload
    \/ StackAddr # None /\ ~ a.unixthread
    \/ given.stackSize % a.segmentAlign # 0
    \/ given.stackSize > StackTop(a)

StackPin(a) == <<"__UNIXSTACK", StackTop(a) - given.stackSize>>

ResolveStack ==
    LET sized == given.stackSize \notin {None, 0}
        pins == sized /\ args.unixthread /\ Pin(args, "__UNIXSTACK") = None
    IN  Settle("stack",
               BadStackAddr(args) \/ (sized /\ BadStackSize(args)),
               [args EXCEPT !.stackSize = IF sized THEN given.stackSize ELSE 0,
                            !.segaddrs = IF pins THEN Append(@, StackPin(args)) ELSE @])

ResolveDataConst ==
    Settle("dataConst", FALSE,
           [args EXCEPT !.dataConst = Or(given.dataConst, DefaultDataConst(args)),
                        !.constSelrefs = Or(given.constSelrefs, args.sharedRegion),
                        !.warnUnused = args.sharedRegion /\ args.output = "dylib"])

ResolveKext ==
    Settle("kext", FALSE,
           IF ~ IsKext(args) THEN args
           ELSE [args EXCEPT !.dynamicLookup = TRUE,
                             !.textExec = @ \/ args.arch = "arm64"])

CompleteSegmentOrder ==
    LET listed == given.segmentOrder
        completes == /\ ~ WithoutDyld(args) /\ args.dataConst
                     /\ ~ Contains(listed, "__DATA_CONST") /\ Contains(listed, "__DATA")
        at == CHOOSE i \in DOMAIN listed : listed[i] = "__DATA"
    IN  Settle("segmentOrder",
               listed # <<>> /\ ~ CustomLayout(args),
               [args EXCEPT !.segmentOrder = IF completes THEN InsertAt(listed, at, "__DATA_CONST")
                                             ELSE listed])

\* -image_base rounded up to a page; 0 is none.
GivenBase(a) ==
    LET align == IF a.relocatable THEN KiB4 ELSE a.segmentAlign
    IN  IF given.imageBase \in {None, 0} THEN None ELSE AlignTo(given.imageBase, align)

ImageBaseOf(a) ==
    LET text == Pin(a, "__TEXT")
        base == Or(text, GivenBase(a))
    IN  IF a.relocatable \/ base = None THEN None
        ELSE IF a.output = "execute" /\ a.pie /\ ~ a.static THEN None
        ELSE IF ~ a.static /\ a.chains THEN text
        ELSE base

ResolveImageBase ==
    LET base == GivenBase(args)
        text == Pin(args, "__TEXT")
    IN  Settle("imageBase",
               /\ base # None
               /\ \/ base > Top
                  \/ /\ ~ args.relocatable
                     /\ text # None /\ text # base
                     /\ ~ args.static \/ args.pie,
               [args EXCEPT !.imageBase = ImageBaseOf(args)])

ResolveUnaligned ==
    Settle("unaligned", FALSE, [args EXCEPT !.unaligned = ResolveUnalignedPointers(args)])

-----------------------------------------------------------------------------
\* The checks of the options together; each is the condition of a refusal.

BadOutputKind(a) ==
    \/ given.dyldEnv /\ (~ MainExecutable(a) \/ a.static)
    \/ given.clientName /\ (a.relocatable \/ a.output \in {"dylib", "dylinker"})
    \/ given.pie = TRUE /\ ~ MainExecutable(a) /\ (a.relocatable \/ IsDylinker(a))

BadDylibUse(a) ==
    \/ given.flatNamespace /\ ~ IsDylinker(a) /\ a.sharedRegion
    \/ a.sharedRegion /\ a.legacyLinkedit
    \/ given.makeMergeable /\ (given.flatNamespace \/ given.debugHook)

BadRelocatable(a) ==
    a.relocatable /\ (given.deadStrip \/ given.movesSymbols \/ given.dataConst = TRUE)

BadSegaddrs(a) ==
    /\ ~ a.relocatable
    /\ \E i \in DOMAIN a.segaddrs :
          \/ a.segaddrs[i][2] < a.pagezero
          \/ \E j \in DOMAIN a.segaddrs : j > i /\ a.segaddrs[j][2] = a.segaddrs[i][2]
          \/ a.segaddrs[i][2] % a.segmentAlign # 0

BadSectionOrder(a) == given.sectionOrder /\ ~ CustomLayout(a) /\ ~ IsDylinker(a)

BadDynamicLookup(a) ==
    \/ ~ a.dynamicLookup /\ HasEntryPoint(a) /\ a.entry \in given.allowedUndefined
    \/ /\ a.sharedRegion /\ ~ IsKext(a)
       /\ a.dynamicLookup \/ given.allowedUndefined # {}

BadTogether(a) ==
    \/ Len(a.segmentOrder) = 1
    \/ given.kernel /\ kind # "StaticExecutable"
    \/ given.bundleLoader /\ kind # "Bundle"
    \/ (given.makeMergeable \/ given.debugHook \/ given.reexportsListed) /\ a.output # "dylib"

CheckOptions ==
    LET loaded == args.output = "dylib" \/ (MainExecutable(args) /\ ~ args.static)
    IN  Settle("check",
               \/ BadTogether(args) \/ BadOutputKind(args) \/ BadDylibUse(args)
               \/ BadRelocatable(args) \/ BadSegaddrs(args) \/ BadSectionOrder(args)
               \/ BadDynamicLookup(args),
               [args EXCEPT !.noDynamicAccess = given.noDynamicAccess /\ loaded])

-----------------------------------------------------------------------------
\* Args before any option is settled.
NewArgs(l) ==
    [output |-> "execute", relocatable |-> FALSE, static |-> FALSE, preload |-> FALSE,
     arch |-> None, platform |-> None, minos |-> 0, codeTables |-> FALSE,
     sourceVersion |-> FALSE, adhocCodesign |-> FALSE, relativeLists |-> FALSE,
     commonAlign |-> 0, rpaths |-> FALSE, headerpad |-> 0, unixthread |-> FALSE,
     entry |-> None, segaddrs |-> <<>>, lazyLoad |-> FALSE, forced |-> {}, pie |-> FALSE,
     chains |-> FALSE, chainsSection |-> FALSE, lazyBinding |-> FALSE,
     legacyLinkedit |-> FALSE, initOffsets |-> FALSE, textRelocs |-> FALSE,
     sharedRegion |-> FALSE, ignoreHints |-> FALSE, stubsSmall |-> FALSE,
     encryptable |-> FALSE, segmentAlign |-> 0, oslogAlign |-> None, segprots |-> <<>>,
     pageSizes |-> <<>>, pagezero |-> 0, stackSize |-> 0, dataConst |-> FALSE,
     constSelrefs |-> FALSE, warnUnused |-> FALSE, dynamicLookup |-> l.dynamicLookup,
     textExec |-> FALSE, segmentOrder |-> <<>>, imageBase |-> None, unaligned |-> None,
     noDynamicAccess |-> FALSE]

OptionsInit ==
    /\ \E family \in Links : given \in family
    /\ kind = "DynamicExecutable"
    /\ args = NewArgs(given)
    /\ step = "read"

OptionsNext ==
    \/ ReadKind \/ SetOutputKind \/ ResolveTarget \/ ResolveDefaults \/ ResolveSegaddrs
    \/ ResolveLazyLoad \/ ResolveDelayInit \/ ResolveFixups \/ ResolveSharedRegionStep
    \/ ResolveSegmentAlignStep \/ ResolveSegprots \/ ResolveSegPageSizes \/ ResolvePagezeroSize
    \/ ResolveStack \/ ResolveDataConst \/ ResolveKext \/ CompleteSegmentOrder
    \/ ResolveImageBase \/ ResolveUnaligned \/ CheckOptions

OptionsSpec == OptionsInit /\ [][OptionsNext]_optVars

-----------------------------------------------------------------------------
\* Each option is settled after those it needs (resolve_options): the rules
\* of the options that follow from others still give their values once
\* every option is settled, however late a step changed what they read.
EachAfterItsNeeds ==
    step = "done" =>
        LET a == args
        IN  /\ a.pie = ResolvePie(a)
            /\ a.chains = ResolveFixupChains(a)
            /\ a.lazyBinding = ResolveLazyBinding(a)
            /\ a.legacyLinkedit = ResolveLegacyLinkedit(a)
            /\ a.initOffsets = ResolveInitOffsets(a)
            /\ a.textRelocs = ResolveTextRelocs(a)
            /\ a.sharedRegion = ResolveSharedRegion(a)
            /\ a.dataConst = Or(given.dataConst, DefaultDataConst(a))
            /\ a.unaligned = ResolveUnalignedPointers(a)
            /\ a.unixthread = ResolveUnixthread(a)
            /\ a.imageBase = ImageBaseOf(a)

\* The image the options describe can be loaded: its fixups take one form,
\* which its loader reads; an image for the shared cache binds by it and by
\* the library alone; and the entry point is called as the loader calls it.
LoaderCanStart ==
    step = "done" /\ ~ args.relocatable =>
        LET a == args
        IN  /\ ~ (a.chains /\ (a.lazyBinding \/ a.legacyLinkedit))
            /\ WithoutDyld(a) => ~ a.lazyBinding /\ ~ a.legacyLinkedit
            /\ a.chains => ~ IsKext(a) /\ (a.static => given.chains = TRUE)
            /\ a.sharedRegion => /\ ~ a.legacyLinkedit
                                 /\ ~ IsKext(a) => ~ a.dynamicLookup
            /\ HasEntryPoint(a) /\ a.entry = "start" => a.unixthread
            /\ a.stackSize # 0 /\ a.unixthread => Pin(a, "__UNIXSTACK") # None

\* The pinned segments, __PAGEZERO and the stack lie on pages, in order and
\* apart, and with chained fixups __PAGEZERO leaves the image within reach.
AddressesFit ==
    step = "done" /\ ~ args.relocatable =>
        LET a == args
            stack == Pin(a, "__UNIXSTACK")
        IN  /\ a.pagezero % a.segmentAlign = 0
            /\ a.chains => a.pagezero <= GiB4
            /\ a.imageBase # None => a.imageBase % a.segmentAlign = 0
            /\ \A i \in DOMAIN a.segaddrs :
                  /\ a.segaddrs[i][2] >= a.pagezero
                  /\ a.segaddrs[i][2] % a.segmentAlign = 0
            /\ Cardinality({p[1] : p \in Range(a.segaddrs)}) = Len(a.segaddrs)
            /\ a.stackSize # 0 /\ a.unixthread /\ LastWins(given.segaddrs) = <<>> =>
                  stack + a.stackSize = StackTop(a)
=============================================================================
