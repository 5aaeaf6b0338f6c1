------------------------------ MODULE Segments ------------------------------
(***************************************************************************)
(* The layout of segments, set_osec_offsets of macho/passes.rs: segments   *)
(* are laid out one after another, moved to where the pins of -segaddr     *)
(* leave them room, and laid out again as long as __unwind_info, whose     *)
(* size depends on where other segments' code is, or __chain_starts, whose *)
(* size depends on where fixups are, turns out to need another size.       *)
(* __LINKEDIT goes last.                                                   *)
(*                                                                         *)
(* Thunks have been made (module Thunks), so a chunk's size is given but   *)
(* for those two.  Addresses are in units and do not overflow.             *)
(***************************************************************************)
EXTENDS Integers, Sequences, FiniteSets, SequencesExt, FiniteSetsExt

CONSTANTS
    Page,    \* segment_align
    Stride,  \* MAX_CHAIN_STRIDE
    Links    \* the images that may be laid out

None == -1

\* An image: its segments but __LINKEDIT, in output order, the image base,
\* the pin and the size of __LINKEDIT, the size of the header pages of a
\* -preload image (0 if it is none), whether dyld slides it, whether it is an
\* executable and whether it has chained fixups; the segment with code outside
\* __TEXT (0: none) and how large __unwind_info is if that one is below, near
\* or far from the mach header; whether __chain_starts lists its fixups.
\* A segment has a pin, or None, follows a pinned one in -segment_order or
\* does not, and has the page size of -seg_page_size; "zero" and "stack" are
\* of a given size, others of chunks.  There is one __PAGEZERO and one mach
\* header at most, ahead of all other segments (create_segments,
\* check_header_segment), and one __unwind_info or one __chain_starts: an image
\* no dyld loads has chains of its own and no __unwind_info.
IsChunk(k) ==
    /\ k.kind \in {"plain", "unwind", "chains"} /\ k.zerofill \in BOOLEAN
    /\ k.size \in Nat /\ k.align \in Nat \ {0}
IsLink(l) ==
    /\ l.segs \in Seq(Range(l.segs))
    /\ \A i \in DOMAIN l.segs : LET s == l.segs[i] IN
          /\ s.kind \in {"zero", "header", "stack", "plain"}
          /\ s.pin \in Nat \cup {None} /\ s.follows \in BOOLEAN
          /\ s.size \in Nat /\ s.page \in Nat \ {0} /\ s.page % Page = 0
          /\ s.chunks \in Seq(Range(s.chunks))
          /\ s.kind \in {"zero", "stack"} => s.chunks = <<>>
          /\ s.kind \in {"zero", "header"} => \A j \in 1..(i - 1) : l.segs[j].kind = "zero"
          /\ \A n \in DOMAIN s.chunks : IsChunk(s.chunks[n])
    /\ \A i, j \in DOMAIN l.segs :
          /\ l.segs[i].kind = l.segs[j].kind /\ l.segs[i].kind \in {"zero", "header"} => i = j
          /\ \A n \in DOMAIN l.segs[i].chunks, m \in DOMAIN l.segs[j].chunks :
                "plain" \notin {l.segs[i].chunks[n].kind, l.segs[j].chunks[m].kind} => i = j /\ n = m
    /\ l.base \in Nat /\ l.preload \in Nat /\ l.code \in 0..Len(l.segs)
    /\ l.linkedit.pin \in Nat \cup {None} /\ l.linkedit.size \in Nat
    /\ l.linkedit.page \in Nat \ {0}
    /\ {l.unwind.below, l.unwind.near, l.unwind.far} \subseteq Nat
    /\ IsFiniteSet(l.fixups)

SegmentAssumption ==
    /\ {Page, Stride} \subseteq Nat \ {0}
    /\ \A l \in Links : IsLink(l)

VARIABLES
    l,         \* the image
    phase,     \* "layout", "place", "unwind", "chains", "check", "linkedit", "done" or "failed"
    error,     \* why the link failed: "overlap", "order" or "none"
    i,         \* the segment to lay out or to place
    fileoff,   \* the end of the file so far
    addr,      \* the end of the segments laid out so far
    taken,     \* the ranges of addresses taken so far
    placed,    \* where segments go, or None
    vm, file,  \* the segments' addresses and sizes in memory, and in the file
    at,        \* at[i][n]: the address and the file offset of chunk n of segment i
    size,      \* size[i][n]: its size
    minSize,   \* the room __unwind_info needs at least
    encoded,   \* the address that __unwind_info was encoded for
    starts,    \* the number of chains that __chain_starts lists
    linkedit   \* __LINKEDIT's address, file offset and size

cursors == <<i, fileoff, addr>>
places == <<taken, placed>>
laidOut == <<vm, file, at, size>>
vars == <<l, phase, error, cursors, places, laidOut, minSize, encoded, starts, linkedit>>

segs == l.segs
AlignTo(x, n) == ((x + n - 1) \div n) * n

\* The segment of the mach header, 0 in a -preload image, and its address.
Header == Max({0} \cup {s \in DOMAIN segs : segs[s].kind = "header"})
HeaderAddr == IF segs[Header].pin # None THEN segs[Header].pin ELSE l.base
InPlace(s) == segs[s].kind \in {"zero", "header"}
Pins == {s \in DOMAIN segs : segs[s].pin # None}
HasPins == Pins # {} \/ l.linkedit.pin # None

ChunksOf(kind) ==
    {x \in (DOMAIN segs) \X (1..Max({0} \cup {Len(segs[s].chunks) : s \in DOMAIN segs})) :
        x[2] \in DOMAIN segs[x[1]].chunks /\ segs[x[1]].chunks[x[2]].kind = kind}

HeaderPages == AlignTo(l.preload, Page)

Init ==
    /\ l \in Links
    /\ phase = "layout" /\ error = "none"
    /\ i = 1 /\ fileoff = HeaderPages /\ addr = l.base
    /\ taken = {} /\ placed = [s \in DOMAIN segs |-> None]
    /\ vm = [s \in DOMAIN segs |-> [addr |-> 0, size |-> 0]]
    /\ file = [s \in DOMAIN segs |-> [off |-> 0, size |-> 0]]
    /\ at = [s \in DOMAIN segs |-> [n \in DOMAIN segs[s].chunks |-> [addr |-> 0, off |-> 0]]]
    /\ size = [s \in DOMAIN segs |-> [n \in DOMAIN segs[s].chunks |-> segs[s].chunks[n].size]]
    /\ minSize = 0 /\ encoded = None /\ starts = 0
    /\ linkedit = [addr |-> 0, off |-> 0, size |-> 0]

-----------------------------------------------------------------------------
(***************************************************************************)
(* lay_out_segments.                                                       *)
(***************************************************************************)

\* segment_span and segment_start_align.
Span(s) == AlignTo(vm[s].size, segs[s].page)
StartAlign(s) ==
    Max({Page} \cup {segs[s].chunks[n].align : n \in DOMAIN segs[s].chunks \cap {1}})

\* compute_size: the encoding for the addresses of now.
CodeAddr == IF l.code = 0 THEN 0 ELSE vm[l.code].addr
EncodedSize ==
    IF l.code = 0 THEN l.unwind.near
    ELSE IF CodeAddr < HeaderAddr THEN l.unwind.below
    ELSE IF CodeAddr - HeaderAddr \in 0..l.unwind.reach THEN l.unwind.near
    ELSE l.unwind.far

\* layout_segment: chunks with contents first, in order, then the zero-fill
\* ones; ends are counted from the segment's address.
Sizes(s) ==
    [n \in DOMAIN segs[s].chunks |->
        IF segs[s].chunks[n].kind = "unwind" THEN Max({EncodedSize, minSize}) ELSE size[s][n]]
EndsOf(s, zerofill, from, start, sizes) ==
    LET ks == segs[s].chunks
        end[n \in 0..Len(ks)] ==
            IF n = 0 THEN from
            ELSE IF ks[n].zerofill # zerofill THEN end[n - 1]
            ELSE AlignTo(start + end[n - 1], ks[n].align) - start + sizes[n]
    IN  end

LayoutSegment(s, off, start) ==
    IF segs[s].kind \in {"zero", "stack"}
    THEN /\ vm' = [vm EXCEPT ![s] = [addr |-> start, size |-> segs[s].size]]
         /\ fileoff' = off
         /\ UNCHANGED <<file, at, size, encoded>>
    ELSE LET ks == segs[s].chunks
             sizes == Sizes(s)
             ends == EndsOf(s, FALSE, 0, start, sizes)
             filesize == ends[Len(ks)]
             zends == EndsOf(s, TRUE, filesize, start, sizes)
             rel(n) == (IF ks[n].zerofill THEN zends[n] ELSE ends[n]) - sizes[n]
             padded == AlignTo(filesize, Page)
         IN  /\ vm' = [vm EXCEPT ![s] =
                           [addr |-> start, size |-> Max({AlignTo(zends[Len(ks)], Page), padded})]]
             /\ file' = [file EXCEPT ![s] = [off |-> off, size |-> padded]]
             /\ at' = [at EXCEPT ![s] = [n \in DOMAIN ks |->
                           [addr |-> start + rel(n),
                            off |-> IF ks[n].zerofill THEN 0 ELSE off + rel(n)]]]
             /\ size' = [size EXCEPT ![s] = sizes]
             /\ encoded' = IF \E n \in DOMAIN ks : ks[n].kind = "unwind" THEN CodeAddr ELSE encoded
             /\ fileoff' = off + AlignTo(padded, segs[s].page)

StartOf(s) ==
    IF segs[s].kind = "zero" THEN 0
    ELSE IF segs[s].kind = "header" THEN HeaderAddr
    ELSE AlignTo(addr, StartAlign(s))

LayOutSegment ==
    /\ phase = "layout" /\ i <= Len(segs)
    /\ LET start == StartOf(i)
           gap == IF InPlace(i) \/ HasPins THEN 0 ELSE start - addr
       IN  /\ LayoutSegment(i, fileoff + gap, start)
           /\ addr' = IF segs[i].kind = "zero" THEN addr
                      ELSE start + AlignTo(vm'[i].size, segs[i].page)
    /\ i' = i + 1
    /\ UNCHANGED <<l, phase, error, places, minSize, starts, linkedit>>

-----------------------------------------------------------------------------
(***************************************************************************)
(* place_segments.                                                         *)
(***************************************************************************)

\* The address of a segment that does not float, or None: in place, pinned,
\* or after one in -segment_order.
Fixed ==
    LET fixed[s \in DOMAIN segs] ==
            IF InPlace(s) THEN vm[s].addr
            ELSE IF segs[s].pin # None THEN segs[s].pin
            ELSE IF s > 1 /\ segs[s].follows /\ fixed[s - 1] # None
            THEN AlignTo(fixed[s - 1] + Span(s - 1), StartAlign(s))
            ELSE None
    IN  [s \in DOMAIN segs |-> fixed[s]]

\* lowest_free_span: base or the end of a used range above floor.
Free(span, used) ==
    \A r \in used : r[2] <= span[1] \/ Max({span[2], span[1] + 1}) <= r[1]
LowestFreeSpan(base, floor, sz, align, used) ==
    LET spans == {<<x, AlignTo(x, align) + sz>> :
                     x \in {base} \cup {r[2] : r \in {q \in used : q[2] > floor}}}
        first == Min({span[1] : span \in {p \in spans : Free(p, used)}})
    IN  <<first, AlignTo(first, align) + sz>>

\* A pinned mach header's segment is no base for the others to float from.
Detached ==
    /\ Header # 0 /\ segs[Header].pin # None /\ l.slides
    /\ l.exec \/ l.chained

\* The first segment from which on pinned ones count as placed.
FirstPin(fixed) ==
    LET moved == {s \in DOMAIN segs : ~InPlace(s) /\ fixed[s] # None}
    IN  IF Detached THEN 1 ELSE IF moved = {} THEN 0 ELSE Min(moved)

\* What is taken from the start: the mach header's segment, and a pinned
\* __LINKEDIT as an empty one.
TakenFirst ==
    (IF Header = 0 THEN {} ELSE {<<vm[Header].addr, vm[Header].addr + Span(Header)>>})
    \cup (IF l.linkedit.pin = None THEN {} ELSE {<<l.linkedit.pin, l.linkedit.pin>>})

\* What is taken when segment s is placed.
Taken(s) ==
    taken \cup IF FirstPin(Fixed) # s THEN {}
              ELSE {<<Fixed[u], Fixed[u] + Span(u)>> :
                       u \in {x \in DOMAIN segs : ~InPlace(x) /\ Fixed[x] # None}}

StartPlacing ==
    /\ phase = "layout" /\ i > Len(segs)
    /\ taken' = TakenFirst /\ placed' = Fixed
    /\ i' = 1 /\ phase' = "place"
    /\ UNCHANGED <<l, error, fileoff, addr, laidOut, minSize, encoded, starts, linkedit>>

PlaceSegment ==
    /\ phase = "place" /\ i <= Len(segs)
    /\ \/ /\ placed[i] # None
          /\ taken' = Taken(i) /\ placed' = placed
       \/ /\ placed[i] = None
          /\ \E span \in {LowestFreeSpan(l.base, IF Detached THEN 0 ELSE l.base, Span(i),
                                         StartAlign(i), Taken(i))} :
                /\ placed' = [placed EXCEPT ![i] = span[2] - Span(i)]
                /\ taken' = Taken(i) \cup {span}
    /\ i' = i + 1
    /\ UNCHANGED <<l, phase, error, fileoff, addr, laidOut, minSize, encoded, starts, linkedit>>

Overlap(a, b) == a.size > 0 /\ b.size > 0 /\ a.addr < b.addr + b.size /\ b.addr < a.addr + a.size

\* move_segment, for every segment: its sections move with it.
MoveChunks ==
    [s \in DOMAIN segs |-> [n \in DOMAIN at[s] |->
        [at[s][n] EXCEPT !.addr = @ + placed[s] - vm[s].addr]]]

\* The rest of place_segments, and check_segment_overlaps.
MoveSegments ==
    /\ phase = "place" /\ i > Len(segs)
    /\ vm' = [s \in DOMAIN segs |-> [vm[s] EXCEPT !.addr = placed[s]]]
    /\ at' = MoveChunks
    /\ IF \E s \in DOMAIN segs : \E u \in (s + 1)..Len(segs) : Overlap(vm'[s], vm'[u])
       THEN phase' = "failed" /\ error' = "overlap"
       ELSE phase' = "unwind" /\ error' = error
    /\ UNCHANGED <<l, cursors, places, file, size, minSize, encoded, starts, linkedit>>

Again == phase' = "layout" /\ i' = 1 /\ fileoff' = HeaderPages /\ addr' = l.base

\* Faulty variant: the encoding that fits is that of the layout.
FinishUnwindInfo_Keeps ==
    /\ phase = "unwind"
    /\ phase' = "chains"
    /\ UNCHANGED <<l, error, cursors, places, laidOut, minSize, encoded, starts, linkedit>>

\* Faulty variant: the layout is done again for a smaller size, too.
FinishUnwindInfo_AnySize ==
    /\ phase = "unwind"
    /\ IF \E x \in ChunksOf("unwind") : l.code # 0 /\ EncodedSize # size[x[1]][x[2]]
       THEN Again ELSE phase' = "chains" /\ UNCHANGED cursors
    /\ minSize' = IF l.code # 0 THEN EncodedSize ELSE minSize
    /\ encoded' = CodeAddr
    /\ UNCHANGED <<l, error, places, laidOut, starts, linkedit>>

\* finish_unwind_info: it is encoded again, and fits in the room it was given.
FinishUnwindInfo ==
    /\ phase = "unwind"
    /\ \/ /\ ChunksOf("unwind") = {} \/ l.code = 0
          /\ phase' = "chains"
          /\ UNCHANGED <<cursors, minSize, encoded>>
       \/ /\ ChunksOf("unwind") # {} /\ l.code # 0
          /\ encoded' = CodeAddr
          /\ \/ /\ \E x \in ChunksOf("unwind") : EncodedSize > size[x[1]][x[2]]
                /\ minSize' = EncodedSize
                /\ Again
             \/ /\ \A x \in ChunksOf("unwind") : EncodedSize <= size[x[1]][x[2]]
                /\ phase' = "chains"
                /\ UNCHANGED <<cursors, minSize>>
    /\ UNCHANGED <<l, error, places, laidOut, starts, linkedit>>

\* section_chain_starts: a chain goes on within a segment to the next fixup
\* that is no more than Stride away.
FixupAddr(f) == at[f.seg][f.chunk].addr + f.off
ChainStarts ==
    {f \in l.fixups : ~\E e \in l.fixups : e.seg = f.seg /\ FixupAddr(f) - FixupAddr(e) \in 1..Stride}
ChainsSize(n) == 2 + n

\* finish_chain_starts.
FinishChainStarts ==
    /\ phase = "chains"
    /\ \/ /\ ChunksOf("chains") = {}
          /\ phase' = "check"
          /\ UNCHANGED <<cursors, size, starts>>
       \/ /\ ChunksOf("chains") # {}
          /\ starts' = Cardinality(ChainStarts)
          /\ LET x == CHOOSE y \in ChunksOf("chains") : TRUE
             IN  /\ size' = [size EXCEPT ![x[1]][x[2]] = ChainsSize(starts')]
                 /\ IF size[x[1]][x[2]] = ChainsSize(starts')
                    THEN phase' = "check" /\ UNCHANGED cursors
                    ELSE Again
    /\ UNCHANGED <<l, error, places, vm, file, at, minSize, encoded, linkedit>>

\* check_segments: the order that an image dyld slides is to have.
InOrder ==
    /\ \A s \in 2..Len(segs) : vm[s].addr >= vm[s - 1].addr
    /\ l.linkedit.pin # None /\ segs # <<>> => l.linkedit.pin >= vm[Len(segs)].addr
CheckSegments ==
    /\ phase = "check"
    /\ IF l.slides /\ ~InOrder THEN phase' = "failed" /\ error' = "order"
       ELSE phase' = "linkedit" /\ error' = error
    /\ UNCHANGED <<l, cursors, places, laidOut, minSize, encoded, starts, linkedit>>

\* place_linkedit.
Tops == {vm[s].addr + Span(s) : s \in DOMAIN segs}
\* Faulty variant: the segments' ends are taken without their page size.
LinkeditAddr_NoSpan ==
    IF l.linkedit.pin # None THEN l.linkedit.pin
    ELSE IF l.slides \/ ~HasPins THEN Max({0} \cup {vm[s].addr : s \in DOMAIN segs})
    ELSE LowestFreeSpan(l.base, l.base, AlignTo(l.linkedit.size, l.linkedit.page), Page,
                        {<<vm[s].addr, vm[s].addr>> : s \in DOMAIN segs})[1]
LinkeditAddr ==
    IF l.linkedit.pin # None THEN l.linkedit.pin
    ELSE IF l.slides \/ ~HasPins THEN Max({0} \cup Tops)
    ELSE LowestFreeSpan(l.base, l.base, AlignTo(l.linkedit.size, l.linkedit.page), Page,
                        {<<vm[s].addr, vm[s].addr + Span(s)>> : s \in DOMAIN segs})[1]

PlaceLinkedit ==
    /\ phase = "linkedit"
    /\ linkedit' = [addr |-> LinkeditAddr, off |-> fileoff,
                    size |-> AlignTo(l.linkedit.size, l.linkedit.page)]
    /\ phase' = "done"
    /\ UNCHANGED <<l, error, cursors, places, laidOut, minSize, encoded, starts>>

Next ==
    \/ LayOutSegment \/ StartPlacing \/ PlaceSegment \/ MoveSegments
    \/ FinishUnwindInfo \/ FinishChainStarts \/ CheckSegments \/ PlaceLinkedit

\* The linker goes on.
Spec == Init /\ [][Next]_vars /\ WF_vars(Next)

-----------------------------------------------------------------------------
(***************************************************************************)
(* Properties.                                                             *)
(***************************************************************************)

\* The variables keep their types.
TypeOK ==
    /\ phase \in {"layout", "place", "unwind", "chains", "check", "linkedit", "done", "failed"}
    /\ error \in {"none", "overlap", "order"} /\ (error # "none") = (phase = "failed")
    /\ i \in 1..(Len(segs) + 1) /\ fileoff \in Nat /\ addr \in Nat /\ minSize \in Nat /\ starts \in Nat
    /\ \A s \in DOMAIN segs :
          /\ vm[s] \in [addr : Nat, size : Nat] /\ file[s] \in [off : Nat, size : Nat]
          /\ \A n \in DOMAIN segs[s].chunks : at[s][n] \in [addr : Nat, off : Nat] /\ size[s][n] \in Nat
    /\ linkedit \in [addr : Nat, off : Nat, size : Nat]

\* In an image that the linker writes, no two segments share an address,
\* __LINKEDIT included, unless it is pinned: check_segment_overlaps runs
\* before it is sized.
SegmentsDisjoint ==
    phase = "done" =>
        /\ \A s, u \in DOMAIN segs : s # u => ~Overlap(vm[s], vm[u])
        /\ l.linkedit.pin = None => \A s \in DOMAIN segs : ~Overlap(vm[s], linkedit)

\* Only pins, or a base within __PAGEZERO, make segments overlap, as the
\* comment on check_segment_overlaps says: place_segments finds every other
\* segment a place of its own.
OnlyPinsOverlap ==
    error = "overlap" =>
        Pins # {} \/ \E s \in DOMAIN segs : segs[s].kind = "zero" /\ l.base < segs[s].size

\* check_segment_overlaps tells overlaps that the command line asks for from
\* ones that the layout would make.
SegmentsApart == SegmentsDisjoint /\ OnlyPinsOverlap

\* A chunk with contents is as far into its segment in memory as in the file,
\* and within both; chunks of a segment do not overlap; and the segments'
\* contents follow one another in the file.
ChunksInPlace ==
    phase = "done" => \A s \in DOMAIN segs : LET ks == segs[s].chunks IN
        /\ \A n \in DOMAIN ks :
              /\ at[s][n].addr >= vm[s].addr /\ at[s][n].addr + size[s][n] <= vm[s].addr + vm[s].size
              /\ ~ks[n].zerofill =>
                    /\ at[s][n].off - file[s].off = at[s][n].addr - vm[s].addr
                    /\ at[s][n].off + size[s][n] <= file[s].off + file[s].size
              /\ \A m \in DOMAIN ks : m # n =>
                    ~Overlap([addr |-> at[s][n].addr, size |-> size[s][n]],
                             [addr |-> at[s][m].addr, size |-> size[s][m]])
        /\ \A u \in DOMAIN segs : u > s /\ file[u].size > 0 => file[s].off + file[s].size <= file[u].off
        /\ file[s].off + file[s].size <= linkedit.off

\* Every chunk, and every segment's contents in the file of an image that
\* dyld maps, keeps its alignment when the segment is moved: move_segment moves
\* the chunks along in memory and leaves the file.
ChunksAligned ==
    phase = "done" => \A s \in DOMAIN segs :
        /\ \A n \in DOMAIN segs[s].chunks : at[s][n].addr % segs[s].chunks[n].align = 0
        /\ file[s].off % Page = 0 /\ vm[s].addr % Page = 0

\* __unwind_info is written for the addresses that its code has in the end,
\* in the room that the layout left it.
UnwindIsCurrent ==
    phase = "done" /\ l.code # 0 => \A x \in ChunksOf("unwind") :
        encoded = CodeAddr /\ EncodedSize <= size[x[1]][x[2]]

\* __chain_starts is as large as the chains of the layout make it.
ChainsAreCurrent ==
    phase = "done" => \A x \in ChunksOf("chains") :
        size[x[1]][x[2]] = ChainsSize(Cardinality(ChainStarts))

\* What depends on the addresses was made for those of the last layout, though
\* it is made in the course of one, and its size moves others.
ContentsAreCurrent == UnwindIsCurrent /\ ChainsAreCurrent

\* A segment that floats has no room below it, from the image base on, that
\* no segment placed before it takes: lowest_free_span looks at the ends of
\* those only.  (Where no section is aligned beyond the page: padding counts
\* as taken.)
NoRoomBelow ==
    phase = "done" /\ ~Detached /\ (\A s \in DOMAIN segs : StartAlign(s) = Page) =>
        LET fixed == Fixed
            first == FirstPin(fixed)
            before(s) == {u \in DOMAIN segs :
                \/ u = Header
                \/ u < s /\ fixed[u] = None
                \/ ~InPlace(u) /\ fixed[u] # None /\ first <= s}
        IN  \A s \in {x \in DOMAIN segs : fixed[x] = None} :
                \A x \in {y \in l.base..(vm[s].addr - 1) : y % Page = 0} :
                    \/ \E u \in before(s) :
                          /\ vm[u].addr < Max({x + Span(s), x + 1})
                          /\ x < vm[u].addr + Span(u) \/ (Span(u) = 0 /\ x < vm[u].addr)
                    \/ l.linkedit.pin \in (x + 1)..(x + Span(s) - 1)

\* The layout comes to an end: the sizes that depend on it settle.
Ends == <>(phase \in {"done", "failed"})
=============================================================================
