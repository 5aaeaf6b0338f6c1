------------------------------ MODULE Bindings ------------------------------
(***************************************************************************)
(* From a resolved link to what dyld is told: the passes of driver.rs from *)
(* add_entry_stub to build_fixups.  They decide which symbols need a stub, *)
(* a GOT slot, a lazy-load helper or a delay-init stub, drop the dylibs    *)
(* nothing binds to, number the ones that stay, and write the fixups by    *)
(* the library ordinals.  One action is one pass; the passes run in order. *)
(*                                                                         *)
(* A reference is a relocation of an emitted subsection,                   *)
(* [sym, kind, addend, own]: kind "branch", "got" (a GOT load), "ptr" (an  *)
(* 8-byte pointer), "ptr_to_got", "tlv" or "page"; own says that the code  *)
(* of a GOT load saved no link register.  Pointers and slots are numbered  *)
(* in words: a pointer of refs[i] is at DataBase + i.                      *)
(***************************************************************************)
EXTENDS Dyld

CONSTANTS
    Links,         \* a set of families of links to start from
    StubBinder,    \* dyld_stub_binder
    LazyLoad,      \* __dyld_lazy_load
    Dlopen         \* _dlopen

VARIABLES
    link,        \* the link as it started
    pc,          \* the pass about to run
    flags,       \* [name -> SUBSET {"got", "stub"}], NEEDS_GOT and NEEDS_STUB
    binder,      \* whether dyld_stub_binder is bound
    lazyGot,     \* the symbols of the __lazy_load_got slots
    lazyDylibs,  \* the lazy-load records: [dylib, syms, start]
    helpers,     \* the lazy-load helpers: [sym, use, slot]
    lazySites,   \* [GOT load -> the lazy-load helper it calls]
    delayStubs,  \* the delay-init stubs: [sym, dlopen]
    delaySites,  \* [GOT load -> its delay-init helper: [sym, use, dlopen]]
    dlopens      \* the install names the dlopen helpers open

vars == <<args, syms, dylibs, link, pc, refs, flags, got, stubs, binder, lazyStubs, lazyGot,
          lazyDylibs, helpers, lazySites, delayStubs, delaySites, dlopens, fixups>>
slotVars == <<flags, got, stubs, binder, lazyStubs>>
lazyVars == <<lazyGot, lazyDylibs, helpers, lazySites>>
delayVars == <<delayStubs, delaySites, dlopens>>

Init ==
    \E family \in Links : \E l \in family :
        /\ link = l
        /\ args = l.args /\ syms = l.syms /\ dylibs = l.dylibs /\ refs = l.refs
        /\ pc = "entry"
        /\ flags = [s \in Names |-> {}]
        /\ got = <<>> /\ stubs = <<>> /\ binder = FALSE /\ lazyStubs = <<>>
        /\ lazyGot = <<>> /\ lazyDylibs = <<>> /\ helpers = <<>> /\ lazySites = <<>>
        /\ delayStubs = <<>> /\ delaySites = <<>> /\ dlopens = <<>>
        /\ fixups = [format |-> "none"]

-----------------------------------------------------------------------------
(* Stubs and GOT slots.                                                    *)

\* An entry point that a dylib exports is entered through its stub.
AddEntryStub ==
    /\ pc = "entry"
    /\ flags' = [s \in Names |->
                    IF s = args.entry /\ syms[s].imported THEN {"stub"} ELSE {}]
    /\ pc' = "scan"
    /\ UNCHANGED <<args, syms, dylibs, link, refs, got, stubs, binder, lazyStubs, fixups>>
    /\ UNCHANGED lazyVars /\ UNCHANGED delayVars

\* What a relocation makes its symbol need.
Needs(r) ==
    CASE IsLazyImport(r.sym) -> {}
      [] r.kind = "branch" ->
            IF ~IsDelayImport(r.sym) /\ (BindsAsImport(r.sym) \/ BindsWeakLookup(r.sym))
            THEN {"stub"} ELSE {}
      [] r.kind \in {"got", "tlv"} -> IF CanRelaxGot(r.sym) THEN {} ELSE {"got"}
      [] r.kind = "ptr_to_got" -> {"got"}
      [] OTHER -> {}

\* A thread-local variable is reached by a TLV load and by nothing else.
TlvMismatch(r) == ~IsLazyImport(r.sym) /\ (r.kind = "tlv") # IsTlv(r.sym)

\* The order stubs and slots are made in: the live objects' symbols, then
\* each dylib's by name, then the ones dyld looks up anywhere.
SlotOrder(S) ==
    LET file(s) == CASE syms[s].kind = "obj" -> 0
                     [] syms[s].kind = "dylib" -> syms[s].dylib
                     [] OTHER -> Len(dylibs) + 1
    IN SortSeq(ByName(S), LAMBDA a, b : file(a) < file(b) \/ (file(a) = file(b) /\ Rank(a) < Rank(b)))

\* Context::bind_linker_import: the first dylib that exports the name.
Exporters(s) == {d \in DOMAIN dylibs : s \in dylibs[d].exports}
CanBindLinkerImport(s) == Exporters(s) # {} \/ s \in args.lookedUp
BindLinkerImport(s) ==
    IF syms[s].kind # "none" THEN syms
    ELSE [syms EXCEPT ![s].kind = IF Exporters(s) = {} THEN "flat" ELSE "dylib",
                      ![s].dylib = IF Exporters(s) = {} THEN 0
                                   ELSE CHOOSE d \in Exporters(s) : \A e \in Exporters(s) : d <= e,
                      ![s].imported = TRUE, ![s].ext = TRUE, ![s].isec = FALSE]

\* A stub goes through a lazy pointer or, bound at load or by weak lookup,
\* through the symbol's GOT slot.
IsLazyStub(s) == LazyBinding /\ ~BindsWeakLookup(s)

\* stubs::add_symbol and ensure_stub_binder: [got, stubs, binder].
AddStub(slots, s) ==
    IF s \in Range(slots.stubs) THEN slots
    ELSE IF ~IsLazyStub(s)
         THEN [slots EXCEPT !.stubs = Append(@, s), !.got = AddOnce(@, s)]
    ELSE IF slots.binder \/ args.legacy
         THEN [slots EXCEPT !.stubs = Append(@, s)]
    ELSE [stubs |-> Append(slots.stubs, s), got |-> AddOnce(slots.got, StubBinder), binder |-> TRUE]

Slots == [got |-> got, stubs |-> stubs, binder |-> binder]
NewBinder(slots) == slots.binder /\ ~binder
\* The symbol table once the stubs are made: the first lazily bound stub
\* binds dyld_stub_binder.
BoundBinder(slots) ==
    IF NewBinder(slots) THEN [BindLinkerImport(StubBinder) EXCEPT ![StubBinder].used = TRUE] ELSE syms
Install(slots) ==
    /\ got' = slots.got /\ stubs' = slots.stubs /\ binder' = slots.binder
    /\ syms' = BoundBinder(slots)

\* The slots the flagged symbols get, one symbol after the other.
MakeSlots(needs) ==
    FoldLeft(LAMBDA slots, s :
                LET withGot == IF "got" \in needs[s] THEN [slots EXCEPT !.got = AddOnce(@, s)] ELSE slots
                IN IF "stub" \in needs[s] THEN AddStub(withGot, s) ELSE withGot,
             Slots, SlotOrder({s \in Names : needs[s] # {}}))

ScanRelocations ==
    LET needs == [s \in Names |-> flags[s] \cup UNION {Needs(refs[i]) : i \in {j \in DOMAIN refs : refs[j].sym = s}}
                                  \cup (IF s \in args.personalities THEN {"got"} ELSE {})]
        slots == MakeSlots(needs)
        refused == \/ \E i \in DOMAIN refs : TlvMismatch(refs[i])
                   \/ NewBinder(slots) /\ ~CanBindLinkerImport(StubBinder)
    IN /\ pc = "scan"
       /\ IF refused
          THEN pc' = "failed" /\ UNCHANGED <<syms, got, stubs, binder>>
          ELSE pc' = "lazy_load_import" /\ Install(slots)
       /\ flags' = [s \in Names |-> {}]
       /\ UNCHANGED <<args, dylibs, link, refs, lazyStubs, fixups>>
       /\ UNCHANGED lazyVars /\ UNCHANGED delayVars

-----------------------------------------------------------------------------
(* Dylibs.                                                                 *)

\* lazy_load::bind_dyld_lazy_load
BindDyldLazyLoad ==
    LET uses == \E s \in Names : syms[s].used /\ IsLazyImport(s)
    IN /\ pc = "lazy_load_import"
       /\ pc' = "dead_strip_dylibs"
       /\ syms' = IF uses /\ CanBindLinkerImport(LazyLoad)
                  THEN [BindLinkerImport(LazyLoad) EXCEPT ![LazyLoad].used = TRUE]
                  ELSE syms
       /\ UNCHANGED <<args, dylibs, link, refs, flags, got, stubs, binder, lazyStubs, fixups>>
       /\ UNCHANGED lazyVars /\ UNCHANGED delayVars

\* An export that moved to an older library is bound there.
ExportsMovedAway(d) ==
    \E s \in DOMAIN dylibs[d].moved :
        syms[s].kind = "dylib" /\ syms[s].dylib = dylibs[d].moved[s]

BoundTo(d) == {s \in Names : syms[s].kind = "dylib" /\ syms[s].dylib = d}

IsUsedDylib(d) ==
    \/ BoundTo(d) # {}
    \/ dylibs[d].needed \/ dylibs[d].name = "libSystem"
    \/ /\ ~(args.deadStripDylibs \/ dylibs[d].implicit)
       /\ dylibs[d].reexported \/ ~ExportsMovedAway(d)

\* The dylib whose load command speaks for d's, which stands for a library
\* exports moved to: one with its name of its own, else the first stand-in.
Twins(d, used) ==
    LET same(standIn) == {e \in used : dylibs[e].standsIn = standIn /\ dylibs[e].name = dylibs[d].name}
        first(S) == {e \in S : \A f \in S : e <= f}
    IN IF d \notin used \/ ~dylibs[d].standsIn THEN {}
       ELSE IF same(FALSE) # {} THEN first(same(FALSE))
       ELSE first(same(TRUE)) \ {d}

TwinOf(d, used) == IF Twins(d, used) = {} THEN d ELSE CHOOSE e \in Twins(d, used) : TRUE

\* The used symbols d's load command speaks for: its own and its twins'.
SpokenFor(d, used) ==
    {s \in Names : /\ syms[s].used /\ syms[s].kind = "dylib"
                   /\ syms[s].dylib = d \/ TwinOf(syms[s].dylib, used) = d}

DeadStripDylibs ==
    LET used == {d \in DOMAIN dylibs : IsUsedDylib(d)}
        kept == {d \in used : Twins(d, used) = {}}
        bound(d) == SpokenFor(d, used)
        weak(d) == dylibs[d].weak \/ (bound(d) # {} /\ \A s \in bound(d) : syms[s].weakRef)
        new(d) == Cardinality({e \in kept : e <= TwinOf(d, used)})
        old == SetToSortSeq(kept, LAMBDA a, b : a < b)
        \* Ordinals go by where the dylib was first named.
        numbered == {d \in kept : ~dylibs[d].bundleLoader /\ ~dylibs[d].lazy}
        ordinal(d) == Cardinality({e \in numbered : dylibs[e].namedAt <= dylibs[d].namedAt})
    IN /\ pc = "dead_strip_dylibs"
       /\ dylibs' = [i \in DOMAIN old |->
                        LET d == old[i]
                        IN [dylibs[d] EXCEPT
                              !.weak = weak(d),
                              !.ordinal = CASE dylibs[d].lazy -> 0
                                            [] d \in numbered -> ordinal(d)
                                            [] OTHER -> @,
                              !.upward = @ /\ (args.output = "dylib" \/ d \notin numbered),
                              !.moved = [s \in DOMAIN @ |-> IF @[s] \in used THEN new(@[s]) ELSE 0]]]
       /\ syms' = [s \in Names |->
                     IF syms[s].kind # "dylib" THEN syms[s]
                     ELSE [syms[s] EXCEPT
                             !.dylib = new(@),
                             !.weakRef = @ \/ \E d \in DOMAIN dylibs :
                                                /\ weak(d) /\ s \in DOMAIN dylibs[d].moved
                                                /\ dylibs[d].moved[s] = syms[s].dylib]]
       /\ pc' = "check_dylibs"
       /\ UNCHANGED <<args, link, refs, flags, got, stubs, binder, lazyStubs, fixups>>
       /\ UNCHANGED lazyVars /\ UNCHANGED delayVars

\* An image dyld loads must load some library, and no strong reference may
\* keep a library -assert_weak named from loading weakly.
MissesLibSystem ==
    /\ \/ args.output = "execute" /\ ~args.static
       \/ args.output \in {"dylib", "bundle"}
    /\ \A d \in DOMAIN dylibs : dylibs[d].lazy
BreaksWeakAssertion ==
    \E i \in DOMAIN refs :
        LET s == refs[i].sym
        IN /\ syms[s].kind = "dylib" /\ dylibs[syms[s].dylib].weakAsserted
           /\ ~syms[s].weakRef /\ ~refs[i].weak

\* check_libsystem_linked, bind_private_reexports_to_image and
\* check_weak_assertions.
CheckDylibs ==
    LET private(d) == dylibs[d].reexported /\ (args.noImplicit \/ ~dylibs[d].public)
        several == Cardinality({d \in DOMAIN dylibs : private(d)}) >= 2
        refused == MissesLibSystem \/ BreaksWeakAssertion
    IN /\ pc = "check_dylibs"
       /\ pc' = IF refused THEN "failed" ELSE "lazy_loads"
       /\ dylibs' = [d \in DOMAIN dylibs |->
                        [dylibs[d] EXCEPT !.bindsToImage = @ \/ (several /\ private(d))]]
       /\ UNCHANGED <<args, syms, link, refs, flags, got, stubs, binder, lazyStubs, fixups>>
       /\ UNCHANGED lazyVars /\ UNCHANGED delayVars

-----------------------------------------------------------------------------
(* Lazily loaded and delay-init dylibs.                                    *)

\* How a reference to such a dylib's symbol is made: a call, a GOT load, or
\* one that dyld would have to bind at launch.
LazyRef(r) == CASE r.kind = "branch" -> "call" [] r.kind = "got" -> "load" [] OTHER -> "unsupported"

\* The references to the symbols of imports.
UsesOf(imports) == {i \in DOMAIN refs : refs[i].sym \in imports}
LazyImports == {s \in Names : IsLazyImport(s)}
DelayImports == {s \in Names : IsDelayImport(s)}
FirstUses(S) == FoldLeft(LAMBDA seq, i : IF i \in S THEN AddOnce(seq, refs[i].sym) ELSE seq,
                         <<>>, [i \in DOMAIN refs |-> i])

LazyRefused(uses) ==
    \/ \E i \in uses : LazyRef(refs[i]) = "unsupported"
    \/ \E s \in Range(stubs) \cup Range(got) : IsLazyImport(s)
    \/ args.makeMergeable /\ uses # {}

\* The slots of each lazy dylib follow one another, in the order of the
\* first uses.
LazyRecords(used) ==
    LET order == FoldLeft(LAMBDA seq, s : AddOnce(seq, syms[s].dylib), <<>>, used)
        of(d) == SelectSeq(used, LAMBDA s : syms[s].dylib = d)
    IN FoldLeft(LAMBDA acc, d : Append(acc,
                    [dylib |-> d, syms |-> of(d),
                     start |-> FoldLeft(LAMBDA n, r : n + Len(r.syms), 0, acc)]),
                <<>>, order)

\* What tells helpers of a symbol apart: a call, or a GOT load, which has a
\* helper to itself where the code saved no link register.
LazyUse(i) ==
    IF LazyRef(refs[i]) = "call" THEN <<"call", 0>> ELSE <<"load", IF refs[i].own THEN i ELSE 0>>

LazyHelper(i, slots) ==
    [sym |-> refs[i].sym, use |-> LazyUse(i), slot |-> IndexOf(slots, refs[i].sym)]

\* The helpers, in the order of the first uses, and the loads that call one.
LazyHelpers(uses, slots) ==
    FoldLeft(LAMBDA seq, i : AddOnce(seq, LazyHelper(i, slots)), <<>>, Sorted(uses))
LoadSites(uses) == {i \in uses : LazyRef(refs[i]) = "load"}

CreateLazyLoads ==
    LET uses == UsesOf(LazyImports)
        records == LazyRecords(FirstUses(uses))
        lazySlots == FlattenSeq([i \in DOMAIN records |-> records[i].syms])
        slots == IF uses = {} THEN Slots ELSE AddStub(Slots, LazyLoad)
        refused == \/ LazyRefused(uses)
                   \/ uses # {} /\ syms[LazyLoad].kind = "none"
                   \/ NewBinder(slots) /\ ~CanBindLinkerImport(StubBinder)
    IN /\ pc = "lazy_loads"
       /\ IF refused
          THEN /\ pc' = "failed"
               /\ UNCHANGED <<syms, got, stubs, binder>> /\ UNCHANGED lazyVars
          ELSE /\ pc' = "delay_init"
               /\ lazyDylibs' = records
               /\ lazyGot' = lazySlots
               /\ helpers' = LazyHelpers(uses, lazySlots)
               /\ lazySites' = [i \in LoadSites(uses) |->
                                   IndexOf(helpers', LazyHelper(i, lazySlots))]
               /\ Install(slots)
       /\ UNCHANGED <<args, dylibs, link, refs, flags, lazyStubs, fixups>>
       /\ UNCHANGED delayVars

\* Each dylib used has a helper that dlopen()s it, or the delay-init dylib
\* that re-exports it, by install name.
DlopenName(s) == dylibs[syms[s].dylib].delay
DlopenHelpers(uses) == SetToSeq({DlopenName(refs[i].sym) : i \in uses})

\* A stub per symbol called, by name: it jumps through the symbol's GOT slot.
Called(uses) == ByName({refs[i].sym : i \in {j \in uses : LazyRef(refs[j]) = "call"}})
DelayStubs(called, opens) ==
    [n \in DOMAIN called |->
        [sym |-> called[n], dlopen |-> IndexOf(opens, DlopenName(called[n]))]]

\* A helper per symbol, or per load of frameless code, for the GOT loads.
DelayHelpers(uses, opens) ==
    [i \in LoadSites(uses) |->
        [sym |-> refs[i].sym, use |-> LazyUse(i),
         dlopen |-> IndexOf(opens, DlopenName(refs[i].sym))]]

\* The stubs and helpers of delay-init dylibs go through the symbols' GOT
\* slots once the dylib has been dlopen()ed; the dlopen helpers call _dlopen
\* through its stub.
CreateDelayInit ==
    LET uses == UsesOf(DelayImports)
        opens == DlopenHelpers(uses)
        withGot == [Slots EXCEPT !.got = FoldLeft(AddOnce, @, Called(uses))]
        slots == IF uses = {} THEN Slots ELSE AddStub(withGot, Dlopen)
        refused == \/ \E i \in uses : LazyRef(refs[i]) = "unsupported"
                   \/ args.makeMergeable /\ uses # {}
                   \/ NewBinder(slots) /\ ~CanBindLinkerImport(StubBinder)
    IN /\ pc = "delay_init"
       /\ IF refused
          THEN /\ pc' = "failed"
               /\ UNCHANGED <<syms, got, stubs, binder>> /\ UNCHANGED delayVars
          ELSE /\ pc' = "finish_stubs"
               /\ dlopens' = opens
               /\ delayStubs' = DelayStubs(Called(uses), opens)
               /\ delaySites' = DelayHelpers(uses, opens)
               /\ Install(slots)
       /\ UNCHANGED <<args, dylibs, link, refs, flags, lazyStubs, fixups>>
       /\ UNCHANGED lazyVars

\* Which stubs have a lazy pointer and a stub helper entry.
FinishStubs ==
    /\ pc = "finish_stubs"
    /\ lazyStubs' = SelectSeq([i \in DOMAIN stubs |-> i], LAMBDA i : IsLazyStub(stubs[i]))
    /\ pc' = "fixups"
    /\ UNCHANGED <<args, syms, dylibs, link, refs, flags, got, stubs, binder, fixups>>
    /\ UNCHANGED lazyVars /\ UNCHANGED delayVars

\* build_fixups and the tables create_synthetic_sections gives the image:
\* an x86-64 image with an unaligned pointer falls back to opcodes.
BuildFixups ==
    /\ pc = "fixups"
    /\ fixups' = CASE args.legacy -> Relocations
                   [] ~args.legacy /\ args.chains /\ (WithoutDyld \/ ~args.unaligned) -> Chains
                   [] ~args.legacy /\ ~args.chains /\ args.kext -> Relocations
                   [] OTHER -> Opcodes
    /\ pc' = "done"
    /\ UNCHANGED <<args, syms, dylibs, link, refs, flags, got, stubs, binder, lazyStubs>>
    /\ UNCHANGED lazyVars /\ UNCHANGED delayVars

Next ==
    \/ AddEntryStub \/ ScanRelocations \/ BindDyldLazyLoad \/ DeadStripDylibs \/ CheckDylibs
    \/ CreateLazyLoads \/ CreateDelayInit \/ FinishStubs \/ BuildFixups

Spec == Init /\ [][Next]_vars

-----------------------------------------------------------------------------
(* Properties.                                                             *)

\* Where resolution means a reference to s to go.
Meant(s) ==
    LET r == link.syms[s]
        d == link.dylibs[r.dylib]
    IN CASE r.kind = "obj" ->
              IF WithoutDyld THEN <<"own", s>>
              ELSE IF IsWeakCoalesced(s) THEN <<"coalesced", s>>
              ELSE IF IsInterposableExport(s) THEN (IF args.flat THEN <<"flat", s>> ELSE <<"self", s>>)
              ELSE <<"own", s>>
         [] r.kind = "dylib" ->
              IF ~args.kext /\ s \in d.weakExports THEN <<"coalesced", s>>
              ELSE IF args.flat \/ args.kext THEN <<"flat", s>>
              ELSE IF d.bundleLoader THEN <<"main", s>>
              ELSE <<"lib", d.name>>
         [] OTHER -> <<"flat", s>>

\* dyld binds the slots of a lazy-load record, from its first one on, to its
\* symbols in its library (lazy_load_info::copy_buf).
LazySlotGoes(n, s) ==
    LET rec == CHOOSE r \in Range(lazyDylibs) : n \in (r.start + 1)..(r.start + Len(r.syms))
    IN IF n \in DOMAIN lazyGot /\ rec.syms[n - rec.start] = s
       THEN << <<"lib", dylibs[rec.dylib].name>>, 0>>
       ELSE << <<"no slot", s>>, 0>>

\* A delay-init stub or helper goes on once what runs the initializers of
\* the symbol's dylib is open.
DelayedGoes(h, s) ==
    IF h.sym = s /\ dlopens[h.dlopen] = dylibs[syms[s].dylib].delay THEN GotFilled(s)
    ELSE << <<"not open", s>>, 0>>

\* Where reference i goes in the image: apply_reloc_alloc, the stubs and
\* the helpers, with the pointers as dyld fills them.
Goes(i) ==
    LET r == refs[i]
        s == r.sym
        own == << <<"own", s>>, r.addend>>
        dylib == syms[s].kind # "obj"
        calls(seq) == {h \in Range(seq) : h.sym = s}
        lazyCall == {h \in calls(helpers) : h.use = <<"call", 0>>}
    IN CASE r.kind = "branch" /\ (IsInterposable(s) \/ dylib) /\ s \in Range(stubs) -> StubGoes(s)
         [] r.kind = "branch" /\ ~dylib /\ s \notin Range(stubs) -> own
         [] r.kind = "branch" /\ ~dylib /\ ~IsInterposable(s) /\ s \in Range(stubs) -> own
         [] r.kind = "branch" /\ dylib /\ s \notin Range(stubs) ->
              IF lazyCall # {} THEN LazySlotGoes((CHOOSE h \in lazyCall : TRUE).slot, s)
              ELSE IF calls(delayStubs) # {} THEN DelayedGoes(CHOOSE h \in calls(delayStubs) : TRUE, s)
              ELSE << <<"nowhere", s>>, 0>>
         [] r.kind \in {"got", "tlv"} ->
              IF i \in DOMAIN lazySites THEN LazySlotGoes(helpers[lazySites[i]].slot, s)
              ELSE IF i \in DOMAIN delaySites THEN DelayedGoes(delaySites[i], s)
              ELSE IF CanRelaxGot(s) THEN own
              ELSE GotFilled(s)
         [] r.kind = "ptr_to_got" -> GotFilled(s)
         [] r.kind = "ptr" /\ r.tls -> own
         [] r.kind = "ptr" /\ ~r.tls -> Filled(DataAddr(i), s, r.addend, FALSE)
         [] OTHER -> own

\* Every reference of the linked image, at run time, ends at the definition
\* resolution chose for its symbol - the image's own, the coalesced one,
\* the dylib of that install name - with its addend, whichever of stubs,
\* GOT slots, helpers, opcodes, chains or relocations it goes through, and
\* after dead_strip_dylibs has renumbered the dylibs (build_fixups).
EveryReferenceArrives ==
    pc = "done" =>
        \A i \in DOMAIN refs :
            LET s == refs[i].sym
                went == Goes(i)
                direct == refs[i].kind \in {"page", "tlv"} \/ refs[i].tls
                self == Meant(s) = <<"own", s>> /\ went[1] = <<"self", s>> /\ BindsToSelf(s)
            IN /\ went[1] = Meant(s) \/ self \/ (direct /\ went[1] = <<"own", s>>)
               /\ refs[i].kind = "ptr" => went[2] = refs[i].addend

\* The calls the linker itself adds - dyld_stub_binder by the stub helper,
\* __dyld_lazy_load and _dlopen by the load helpers - have a bound slot or
\* stub to go through (ensure_stub_binder, create_lazy_loads,
\* create_delay_init, finish_stubs).
LinkerCallsArrive ==
    pc = "done" =>
        /\ lazyStubs # <<>> /\ ~args.legacy =>
              /\ StubBinder \in Range(got)
              /\ GotFilled(StubBinder)[1][1] \in {"lib", "flat", "own", "coalesced", "self"}
        /\ lazyGot # <<>> => /\ LazyLoad \in Range(stubs)
                             /\ StubGoes(LazyLoad)[1][1] \in {"lib", "flat", "own", "coalesced", "self"}
        /\ dlopens # <<>> => /\ Dlopen \in Range(stubs)
                             /\ StubGoes(Dlopen)[1][1] \in {"lib", "flat", "own", "coalesced", "self"}

\* dead_strip_dylibs drops no library a reference binds to, and makes one
\* load weakly (that no option said to) only if every symbol the image
\* binds to it is a weak import: an image that starts without the library
\* then misses nothing it needs.
WeakLoadsAreWeak ==
    pc = "done" =>
        \A s \in {refs[i].sym : i \in DOMAIN refs} :
            syms[s].kind = "dylib" =>
                LET name == dylibs[syms[s].dylib].name
                    asked == \E d \in DOMAIN link.dylibs : link.dylibs[d].name = name /\ link.dylibs[d].weak
                IN /\ name = link.dylibs[link.syms[s].dylib].name
                   /\ dylibs[syms[s].dylib].weak /\ ~asked => syms[s].weakRef
=============================================================================
