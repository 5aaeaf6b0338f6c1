-------------------------------- MODULE Dyld --------------------------------
(***************************************************************************)
(* dyld, as the linker's tables address it: what it leaves in each pointer *)
(* of the image once it has run the opcodes, walked the chains or applied  *)
(* the relocations, and so where a reference of the image ends up.  A      *)
(* destination is <<"own", name>>, the image's definition; <<"self",       *)
(* name>>, the same by a lookup that interposition can redirect;           *)
(* <<"coalesced", name>>, the one definition of all images; <<"flat",      *)
(* name>>; <<"main", name>>; or <<"lib", install name>>.                   *)
(***************************************************************************)
EXTENDS Fixups

VARIABLE fixups   \* what the image tells dyld, once built

\* The library a load command's ordinal stands for, and the lookups the
\* special ordinals ask for.
Lookup(ord, s) ==
    CASE ord = SELF -> IF IsExported(s) THEN <<"self", s>>
                       ELSE <<"lib", dylibs[CHOOSE d \in DOMAIN dylibs :
                                               dylibs[d].reexported /\ s \in dylibs[d].exports].name>>
      [] ord = MAIN_EXECUTABLE -> <<"main", s>>
      [] ord = FLAT_LOOKUP -> <<"flat", s>>
      [] ord = WEAK_LOOKUP -> <<"coalesced", s>>
      [] \E d \in DOMAIN dylibs : ~dylibs[d].lazy /\ dylibs[d].ordinal = ord ->
            <<"lib", dylibs[CHOOSE d \in DOMAIN dylibs : ~dylibs[d].lazy /\ dylibs[d].ordinal = ord].name>>
      [] OTHER -> <<"missing library", s>>

\* The rebase machine: the addresses it slides.
RunRebase(ops) ==
    FoldLeft(LAMBDA st, op :
        CASE op[1] = "seg" -> [st EXCEPT !.at = Segments[op[2]].start + op[3]]
          [] op[1] = "add" -> [st EXCEPT !.at = @ + op[2]]
          [] OTHER -> [at |-> st.at + op[2], slid |-> st.slid \cup (st.at .. st.at + op[2] - 1)],
        [at |-> 0, slid |-> {}], ops).slid

\* The bind machine: the binds it makes.
RunBind(ops) ==
    FoldLeft(LAMBDA st, op :
        CASE op[1] = "dylib" -> [st EXCEPT !.ord = op[2]]
          [] op[1] = "symbol" -> [st EXCEPT !.sym = op[2], !.weak = op[3]]
          [] op[1] = "seg" -> [st EXCEPT !.at = Segments[op[2]].start + op[3]]
          [] op[1] = "add" -> [st EXCEPT !.at = @ + op[2]]
          [] op[1] = "addend" -> [st EXCEPT !.addend = op[2]]
          [] OTHER -> [st EXCEPT !.at = @ + 1,
                                 !.done = @ \cup {[addr |-> st.at, sym |-> st.sym, addend |-> st.addend,
                                                   ord |-> st.ord, weak |-> st.weak]}],
        [ord |-> 0, sym |-> "", weak |-> FALSE, at |-> 0, addend |-> 0, done |-> {}], ops).done

\* A chain from a page's first fixup: the addresses it visits.
RECURSIVE WalkFrom(_, _)
WalkFrom(words, a) ==
    IF a \notin DOMAIN words THEN {}
    ELSE {a} \cup (IF words[a].next = NoNext THEN {} ELSE WalkFrom(words, a + words[a].next))

\* Those of a page end with it: dyld rejects a chain that leaves its page.
Visited ==
    UNION {UNION {WalkFrom(fixups.words, fixups.starts[n][p]) :
                     p \in {q \in DOMAIN fixups.starts[n] : fixups.starts[n][q] # NoNext}} :
           n \in DOMAIN fixups.starts}

\* The ordinal an import's field holds, its top values being negative.
SignedOrdinal(ord) == IF ord >= 2^fixups.bits - 3 THEN ord - 2^fixups.bits ELSE ord

\* What is in the pointer of symbol s and addend at addr when the image
\* runs: the destination and the addend.
Filled(addr, s, addend, kept) ==
    LET own == <<IF IsAbsolute(s) \/ kept THEN <<"own", s>> ELSE <<"unslid", s>>, addend>>
        bound(B) == {b \in B : b.addr = addr}
    IN CASE fixups.format = "chains" ->
              IF addr \in Visited /\ fixups.words[addr].import # 0
              THEN LET w == fixups.words[addr]
                       imp == fixups.imports[w.import]
                   IN <<Lookup(SignedOrdinal(imp.ord), imp.sym), imp.addend + w.inline>>
              ELSE IF addr \in Visited \/ IsNeverSlid THEN <<<<"own", s>>, addend>>
              ELSE own
         [] fixups.format = "opcodes" ->
              LET weak == bound(RunBind(fixups.weak))
                  strong == bound(RunBind(fixups.bind))
                  b == CHOOSE x \in strong : TRUE
                  w == CHOOSE x \in weak : TRUE
              IN IF weak # {} THEN << <<"coalesced", w.sym>>, w.addend>>
                 ELSE IF strong # {} THEN <<Lookup(b.ord, b.sym), b.addend>>
                 ELSE IF IsNeverSlid \/ addr \in RunRebase(fixups.rebase) THEN <<<<"own", s>>, addend>>
                 ELSE own
         [] OTHER ->
              LET relocs == bound(fixups.extern)
                  slots == {i \in DOMAIN fixups.indirect.got :
                               fixups.format = "legacy" /\ GotAddr(i) = addr}
                  i == CHOOSE j \in slots : TRUE
                  r == CHOOSE x \in relocs : TRUE
                  named == IF relocs # {} THEN {r.sym}
                           ELSE IF slots # {} THEN {fixups.indirect.got[i]} \ {NoSym} ELSE {}
                  n == CHOOSE x \in named : TRUE
              IN IF named # {}
                 THEN <<CASE fixups.format = "kext" -> <<"flat", n>>
                          [] fixups.format # "kext" /\ BindsWeakLookup(n) -> <<"coalesced", n>>
                          [] OTHER -> Lookup(BindOrdinal(n), n), addend>>
                 ELSE IF slots # {} \/ IsNeverSlid \/ addr \in Range(fixups.local) THEN <<<<"own", s>>, addend>>
                 ELSE own

\* Whether a pointer the linker filled in needs no sliding.
GotFilled(s) ==
    IF s \notin Range(got) THEN << <<"no slot", s>>, 0>>
    ELSE Filled(GotAddr(CHOOSE i \in DOMAIN got : got[i] = s), s, 0, FALSE)

\* A lazily bound stub: its pointer is slid, enters the stub helper, and
\* dyld_stub_binder then binds it by its record, or by the symbol table.
LazyFilled(i) ==
    LET at == {n \in DOMAIN lazyStubs : lazyStubs[n] = i}
        n == CHOOSE m \in at : TRUE
        slid == \/ IsNeverSlid
                \/ LazyPtrAddr(n) \in IF fixups.format = "opcodes" THEN RunRebase(fixups.rebase)
                                      ELSE Range(fixups.local)
    IN IF at = {} THEN << <<"no lazy pointer", stubs[i]>>, 0>>
       ELSE IF ~slid THEN << <<"unslid", stubs[i]>>, 0>>
       ELSE IF fixups.format = "opcodes"
            THEN <<Lookup(fixups.lazy[n].ord, fixups.lazy[n].sym), 0>>
       ELSE <<Lookup(BindOrdinal(stubs[i]), fixups.indirect.lazy[n]), 0>>

\* Where the stub of s goes: stub_ptr_addr's pointer.
StubGoes(s) ==
    IF LazyBinding /\ ~BindsWeakLookup(s)
    THEN LazyFilled(CHOOSE i \in DOMAIN stubs : stubs[i] = s)
    ELSE GotFilled(s)
=============================================================================
