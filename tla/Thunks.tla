------------------------------- MODULE Thunks -------------------------------
(***************************************************************************)
(* Range-extension thunks, macho/thunks.rs, as set_osec_offsets of         *)
(* macho/passes.rs makes them: every code section is laid out batch by     *)
(* batch, and the symbols that a branch of a batch may not reach get an    *)
(* entry in a thunk placed as far ahead as the batch still reaches.  Then  *)
(* the chunks get their addresses, and a branch that is out of reach takes *)
(* an entry within reach.                                                  *)
(*                                                                         *)
(* The scan of a batch runs in parallel; mark() gives each symbol to one   *)
(* thread, and the symbols are sorted, so it is a step that depends on no  *)
(* order.  Branches have no addend (one that has never takes an entry).    *)
(* Sizes are in units.                                                     *)
(***************************************************************************)
EXTENDS Integers, Sequences, FiniteSets, SequencesExt, FiniteSetsExt

CONSTANTS
    Distance,    \* half of BRANCH_RANGE
    BatchSize,   \* BATCH_SIZE
    MaxThunk,    \* MAX_THUNK_SIZE
    ThunkAlign,  \* THUNK_ALIGN
    EntrySize,   \* THUNK_SIZE
    Links        \* the images that may be laid out

\* An image: its chunks in output order, the symbols, by number, that
\* branches go to, and the sizes that the chunk sized as it is placed
\* (__unwind_info) may get.  A chunk's segment is a number, its flags are
\* whether it is code, its members what an output section is made of.  A
\* symbol is at an offset of a member of a chunk, or of the chunk (member
\* 0: stubs), outside all chunks (chunk 0), or a DTrace probe (chunk -1).
IsMember(l, m) ==
    /\ m.size \in Nat \ {0} /\ m.align \in Nat \ {0} /\ m.skew \in 0..(m.align - 1)
    /\ \A call \in m.calls : call.at \in 0..(m.size - 1) /\ call.sym \in DOMAIN l.syms
IsLink(l) ==
    /\ \A i \in DOMAIN l.chunks : LET k == l.chunks[i] IN
          /\ k.kind \in {"section", "stubs", "unwind"} /\ k.seg \in Nat /\ k.code \in BOOLEAN
          /\ k.align \in Nat \ {0} /\ k.size \in Nat
          /\ \A n \in DOMAIN k.members :
                IsMember(l, k.members[n]) /\ k.align % k.members[n].align = 0
    /\ \A s \in DOMAIN l.syms : l.syms[s].chunk \in -1..Len(l.chunks)

ThunkAssumption ==
    /\ {Distance, BatchSize, MaxThunk, ThunkAlign, EntrySize} \subseteq Nat \ {0}
    /\ \A l \in Links : IsLink(l)

VARIABLES
    l,        \* the image
    phase,    \* "need", "create", "batch", "place" or "done"
    need,     \* what need_thunks returned: "yes", "no" or "unknown"
    pos,      \* the chunk being laid out
    offs,     \* offs[i][n]: the offset of chunk i's nth member, or Unplaced
    size,     \* the chunks' sizes
    thunks,   \* the chunks' thunks: offset and symbols
    a, b, d,  \* the first member within reach, of the batch, and not placed
    t,        \* the first thunk within reach
    offset,   \* the end of what is placed
    marked,   \* the symbols marked
    addr      \* the chunks' addresses

sectionVars == <<pos, a, b, d, t, offset>>
vars == <<l, phase, need, sectionVars, offs, size, thunks, marked, addr>>

Unplaced == -1

AlignTo(x, align, skew) == x + ((skew - x) % align)
RoundUp(x, n) == (x + n - 1) \div n

\* output_section::layout: the members' offsets without thunks.
PlainOffsets(ms) ==
    LET off[n \in 1..Len(ms)] ==
            IF n = 1 THEN AlignTo(0, ms[n].align, ms[n].skew)
            ELSE AlignTo(off[n - 1] + ms[n - 1].size, ms[n].align, ms[n].skew)
    IN  [n \in DOMAIN ms |-> off[n]]
PlainSize(k) ==
    IF k.kind # "section" \/ k.members = <<>> THEN k.size
    ELSE PlainOffsets(k.members)[Len(k.members)] + Last(k.members).size

Init ==
    /\ l \in Links
    /\ phase = "need" /\ need = "no"
    /\ pos = 1 /\ a = 1 /\ b = 1 /\ d = 1 /\ t = 1 /\ offset = 0
    /\ offs = [i \in DOMAIN l.chunks |-> PlainOffsets(l.chunks[i].members)]
    /\ size = [i \in DOMAIN l.chunks |-> PlainSize(l.chunks[i])]
    /\ thunks = [i \in DOMAIN l.chunks |-> <<>>]
    /\ marked = {}
    /\ addr = [i \in DOMAIN l.chunks |-> 0]

-----------------------------------------------------------------------------
IsCode(i) == l.chunks[i].code /\ size[i] > 0
CodeChunks == {i \in DOMAIN l.chunks : IsCode(i)}

\* chunk_room: an upper bound on the room chunk i takes; None if only its
\* placement tells.
None == -1
KnownRoom(i, seg) == l.chunks[i].seg = seg /\ l.chunks[i].kind # "unwind"

ChunkRoom(i, grows) ==
    LET k == l.chunks[i]
        n == Min({Len(k.members), 2 * RoundUp(size[i], BatchSize) + 1})
    IN  size[i] + k.align - 1
        + IF grows /\ k.kind = "section" /\ IsCode(i)
          THEN n * (MaxThunk + ThunkAlign + k.align) ELSE 0

\* The room of a run of chunks of segment seg.
Room(from, to, seg, grows) ==
    IF \A i \in from..to : KnownRoom(i, seg)
    THEN MapThenSumSet(LAMBDA i : ChunkRoom(i, grows), from..to) ELSE None

\* need_thunks.
NeedThunks ==
    /\ phase = "need"
    /\ LET first == Min(CodeChunks)
           last == Max(CodeChunks)
           span == Room(first, last, l.chunks[first].seg, FALSE)
       IN  need' = IF CodeChunks = {} \/ span \in 0..Distance THEN "no"
                   ELSE IF span = None THEN "unknown" ELSE "yes"
    /\ phase' = IF need' = "yes" THEN "create" ELSE "place"
    /\ UNCHANGED <<l, sectionVars, offs, size, thunks, marked, addr>>

-----------------------------------------------------------------------------
(***************************************************************************)
(* create_range_extension_thunks and create_thunks.                        *)
(***************************************************************************)
ms == l.chunks[pos].members
Off(n) == offs[pos][n]
End(n) == Off(n) + ms[n].size

\* The next code section, in output order; its members are to be placed.
StartSection ==
    /\ phase = "create"
    /\ LET left == {i \in pos..Len(l.chunks) : IsCode(i) /\ l.chunks[i].kind = "section"}
       IN  \/ /\ left = {}
              /\ phase' = "place"
              /\ UNCHANGED <<sectionVars, offs, thunks>>
           \/ /\ left # {}
              /\ pos' = Min(left)
              /\ thunks' = [thunks EXCEPT ![Min(left)] = <<>>]
              /\ offs' = [offs EXCEPT ![Min(left)] = [n \in DOMAIN @ |-> Unplaced]]
              /\ a' = 1 /\ b' = 1 /\ d' = 1 /\ t' = 1 /\ offset' = 0
              /\ phase' = "batch"
    /\ UNCHANGED <<l, need, size, marked, addr>>

NextOffset == AlignTo(offset, ms[d].align, ms[d].skew)

\* A thunk after the next member stays within reach of the batch.
Fits ==
    \/ b = d
    \/ AlignTo(NextOffset + ms[d].size, ThunkAlign, 0) + MaxThunk <= Off(b) + Distance

\* D moves forward.
PlaceMember ==
    /\ phase = "batch" /\ b <= Len(ms) /\ d <= Len(ms) /\ Fits
    /\ offs' = [offs EXCEPT ![pos][d] = NextOffset]
    /\ offset' = NextOffset + ms[d].size
    /\ d' = d + 1
    /\ UNCHANGED <<l, phase, need, pos, a, b, t, size, thunks, marked, addr>>

\* batch_end: the batch from i takes the members that end within BatchSize,
\* one at least, of those before j.
BatchEnd(i, j) ==
    i + 1 + Cardinality({n \in (i + 1)..(j - 1) : End(n) < Off(i) + BatchSize})

\* batches_left.
BatchesLeft(i) ==
    LET left[n \in 1..(Len(ms) + 1)] ==
            IF n > Len(ms) THEN 0 ELSE 1 + left[BatchEnd(n, Len(ms) + 1)]
    IN  left[i]

c == BatchEnd(b, d)
COffset == IF c = d THEN offset ELSE Off(c)

\* A, moved forward, and the first thunk within reach of C.
NewA == a + Cardinality({n \in a..(b - 1) : Off(n) < COffset - Distance})

NewT == t + Cardinality({k \in t..Len(thunks[pos]) : thunks[pos][k].offset < Off(NewA)})

SymsOf(ths, from, to) == UNION {Range(ths[k].syms) : k \in from..to}

\* Reach::new: the code of the section's own segment, and the room it takes
\* before and after the section.
InSpan == {i \in CodeChunks : l.chunks[i].seg = l.chunks[pos].seg}
RoomBefore == Room(Min(InSpan), pos - 1, l.chunks[pos].seg, FALSE)
RoomAfter == Room(pos + 1, Max(InSpan), l.chunks[pos].seg, TRUE)

\* Whether the code before the batch's end, and after its start, is in reach.
Backward == RoomBefore # None /\ RoomBefore + l.chunks[pos].align - 1 + COffset <= Distance

\* Faulty variant: the thunks of the batches left are not counted.
Forward_NoThunks ==
    d > Len(ms) /\ RoomAfter # None /\ offset + RoomAfter - Off(b) <= Distance

Forward ==
    /\ d > Len(ms) /\ RoomAfter # None
    /\ offset + BatchesLeft(b) * (MaxThunk + ThunkAlign) + RoomAfter - Off(b) <= Distance

InReach(from, to) == to - from \in (-Distance)..(Distance - 1)

\* requires_thunk: a branch at offset p may not reach symbol s.
RequiresThunk(p, s) ==
    LET sym == l.syms[s]
        i == sym.chunk
    IN  CASE i = -1 -> FALSE
          [] i = 0 \/ (i > 0 /\ i \notin Min(InSpan)..Max(InSpan)) -> TRUE
          [] i = pos /\ sym.member > 0 /\ Off(sym.member) # Unplaced ->
                ~InReach(p, Off(sym.member) + sym.value)
          [] i \in Min(InSpan)..(pos - 1) -> ~Backward
          [] OTHER -> ~Forward

\* scan_batch: the symbols that the batch's thunk gets, given those marked.
ScanBatch(mark) ==
    {s \in DOMAIN l.syms \ mark : \E n \in b..(c - 1) : \E call \in ms[n].calls :
        call.sym = s /\ RequiresThunk(Off(n) + call.at, s)}

StillMarked == marked \ SymsOf(thunks[pos], t, NewT - 1)

\* The thunk goes to D.
ThunkOffset == AlignTo(offset, ThunkAlign, 0)

\* The rest of the loop: the batch [B, C) is scanned, and gets its thunk.
Scan ==
    /\ phase = "batch" /\ b <= Len(ms)
    /\ ~(d <= Len(ms) /\ Fits)
    /\ LET syms == ScanBatch(StillMarked)
           thunk == [offset |-> ThunkOffset, syms |-> SetToSortSeq(syms, <)]
       IN  /\ marked' = StillMarked \cup syms
           /\ thunks' = IF syms = {} THEN thunks ELSE [thunks EXCEPT ![pos] = Append(@, thunk)]
           /\ offset' = IF syms = {} THEN offset ELSE ThunkOffset + Cardinality(syms) * EntrySize
    /\ a' = NewA /\ t' = NewT /\ b' = c
    /\ UNCHANGED <<l, phase, need, pos, d, offs, size, addr>>

\* The section's thunks and size are recorded, and all marks cleared.
EndSection ==
    /\ phase = "batch" /\ b > Len(ms)
    /\ marked' = marked \ SymsOf(thunks[pos], t, Len(thunks[pos]))
    /\ size' = [size EXCEPT ![pos] = offset]
    /\ pos' = pos + 1
    /\ phase' = "create"
    /\ UNCHANGED <<l, need, a, b, d, t, offset, offs, thunks, addr>>

-----------------------------------------------------------------------------
(***************************************************************************)
(* set_osec_offsets.                                                       *)
(***************************************************************************)

\* lay_out_segments_with_unwind_info: the chunks of a segment follow one
\* another; another segment's follow at any distance.
Addresses(sizes, gap) ==
    LET at[i \in DOMAIN l.chunks] ==
            IF i = 1 THEN 0
            ELSE AlignTo(at[i - 1] + sizes[i - 1]
                         + (IF l.chunks[i].seg = l.chunks[i - 1].seg THEN 0 ELSE gap),
                         l.chunks[i].align, 0)
    IN  [i \in DOMAIN l.chunks |-> at[i]]

CodeSpan(at, sizes) ==
    IF CodeChunks = {} THEN 0
    ELSE Max({at[i] + sizes[i] : i \in CodeChunks}) - Min({at[i] : i \in CodeChunks})

Place ==
    /\ phase = "place"
    /\ \E u \in l.unwind, gap \in l.gaps :
          /\ size' = [i \in DOMAIN size |-> IF l.chunks[i].kind = "unwind" THEN u ELSE size[i]]
          /\ addr' = Addresses(size', gap)
    /\ \/ /\ need = "unknown" /\ CodeSpan(addr', size') > Distance
          /\ phase' = "create" /\ need' = "yes" /\ pos' = 1
          /\ UNCHANGED <<a, b, d, t, offset>>
       \/ /\ ~(need = "unknown" /\ CodeSpan(addr', size') > Distance)
          /\ phase' = "done"
          /\ UNCHANGED <<need, sectionVars>>
    /\ UNCHANGED <<l, offs, thunks, marked>>

Next == NeedThunks \/ StartSection \/ PlaceMember \/ Scan \/ EndSection \/ Place

\* The linker goes on.
Spec == Init /\ [][Next]_vars /\ WF_vars(Next)

-----------------------------------------------------------------------------
(***************************************************************************)
(* Properties.                                                             *)
(***************************************************************************)

\* The variables keep their types; the indices of the section laid out are in
\* order, A <= B <= D, and no symbol is marked between sections.
TypeOK ==
    /\ phase \in {"need", "create", "batch", "place", "done"} /\ need \in {"yes", "no", "unknown"}
    /\ pos \in 1..(Len(l.chunks) + 1) /\ offset \in Nat
    /\ \A i \in DOMAIN l.chunks : size[i] \in Nat /\ addr[i] \in Nat /\ DOMAIN offs[i] = DOMAIN l.chunks[i].members
    /\ phase = "batch" => a <= b /\ b <= d /\ d <= Len(ms) + 1 /\ t <= Len(thunks[pos]) + 1
    /\ phase # "batch" => marked = {}

SymAddr(s) ==
    LET sym == l.syms[s]
    IN  addr[sym.chunk] + sym.value + IF sym.member > 0 THEN offs[sym.chunk][sym.member] ELSE 0

\* gather_thunk_addresses: the addresses of a symbol's entries.
EntryAddrs(s) ==
    UNION {UNION {{addr[i] + thunks[i][k].offset + (n - 1) * EntrySize :
                      n \in {m \in DOMAIN thunks[i][k].syms : thunks[i][k].syms[m] = s}} :
                  k \in DOMAIN thunks[i]} : i \in DOMAIN l.chunks}

\* Every branch to code reaches its target, or an entry for it: applying it
\* (thunk_addr) finds no "B/BL out of range".  Nor does it for a branch out
\* of the image, if the image has thunks at all.
EveryBranchReaches ==
    phase = "done" => \A i \in CodeChunks : \A n \in DOMAIN l.chunks[i].members :
        \A call \in l.chunks[i].members[n].calls :
            LET to == l.syms[call.sym].chunk
                p == addr[i] + offs[i][n] + call.at
            IN  to \in CodeChunks \/ (to = 0 /\ need = "yes") =>
                    \/ to > 0 /\ InReach(p, SymAddr(call.sym))
                    \/ \E e \in EntryAddrs(call.sym) : InReach(p, e)

\* The members and the thunks of a section lie within it and in no other's way.
NothingOverlaps ==
    phase = "done" => \A i \in CodeChunks :
        LET spans == {<<offs[i][n], offs[i][n] + l.chunks[i].members[n].size>> :
                          n \in DOMAIN l.chunks[i].members}
                     \cup {<<th.offset, th.offset + Len(th.syms) * EntrySize>> : th \in Range(thunks[i])}
        IN  /\ \A x \in spans : x[2] <= size[i]
            /\ \A x, y \in spans : x # y => x[2] <= y[1] \/ y[2] <= x[1]

\* Laying out an image comes to an end.
Ends == <>(phase = "done")
=============================================================================
