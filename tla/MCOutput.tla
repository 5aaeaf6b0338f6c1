------------------------------ MODULE MCOutput ------------------------------
(***************************************************************************)
(* From the layout to the file: the thunks and the segments, the output    *)
(* file that tasks and writers fill, and the end of the process.           *)
(* Their modules share no state here: each behaviour is one of one         *)
(* component, the one that `part` names, on the small instances defined    *)
(* first; `Over` is the step a component that has ended stays in, so that  *)
(* TLC reports one that is stuck before its end.                           *)
(***************************************************************************)
EXTENDS Integers, Sequences, FiniteSets, TLC, SequencesExt

-----------------------------------------------------------------------------
\* Thunks: Images for TLC.  A branch is a unit, an entry three, as on
\* arm64; a branch reaches 64 units, and a batch is 16.  Functions call in
\* their first and in their last units.

Member(sz, syms) ==
    [size |-> sz, align |-> 1, skew |-> 0,
     calls |-> {[at |-> s - 1, sym |-> s] : s \in syms} \cup {[at |-> sz - s, sym |-> s] : s \in syms}]
Section(align, members) ==
    [kind |-> "section", seg |-> 1, code |-> TRUE, align |-> align, size |-> 0, members |-> members]
ThunkChunk(kind, seg, code, align, sz) ==
    [kind |-> kind, seg |-> seg, code |-> code, align |-> align, size |-> sz, members |-> <<>>]
ThunkAt(chunk, member, value) == [chunk |-> chunk, member |-> member, value |-> value]
ThunkLink(chunks, syms) == [chunks |-> chunks, syms |-> syms, unwind |-> {0}, gaps |-> {0}]

\* One section of six functions: x and y call a function, y calls the stubs
\* too.
OneSection ==
    {ThunkLink(<<Section(4, [n \in 1..6 |-> Member(IF n \in big THEN 28 ELSE 10,
                {s \in 1..2 : (s = 1 /\ n \in {x, y}) \/ (s = 2 /\ n = y)})]),
            ThunkChunk("stubs", 1, TRUE, 4, 6)>>,
          <<ThunkAt(1, to, 3), ThunkAt(2, 0, 3)>>) :
        big \in SUBSET (1..6), x \in 1..6, y \in 1..6, to \in {1, 6}}

\* Two code sections with something between them, in one segment or two.
TwoSections ==
    {[ThunkLink(<<Section(4, [n \in 1..3 |-> Member(s1[n], IF n = x THEN {1, 2} ELSE {})]), mid,
             [Section(8, [n \in 1..3 |-> Member(s2[n], IF n = y THEN {1, 3} ELSE {})]) EXCEPT !.seg = seg],
             ThunkChunk("stubs", seg, TRUE, 4, 6)>>,
          <<ThunkAt(stubs, 0, 0), ThunkAt(3, to, 0), ThunkAt(1, back, 0)>>)
      EXCEPT !.gaps = {0, 70}] :
        s1 \in {<<9, 3, 5>>, <<27, 7, 20>>}, s2 \in {<<7, 4, 6>>, <<20, 12, 12>>, <<25, 9, 26>>},
        x \in 1..3, y \in 1..3, to \in {1, 3}, back \in {1, 3}, stubs \in {4, 0, -1},
        seg \in {1, 2}, mid \in {ThunkChunk("section", 1, FALSE, 8, 5), ThunkChunk("section", 1, FALSE, 1, 0)}}

\* A chunk sized as it is placed is between the code and the stubs.
Unsized ==
    {[ThunkLink(<<Section(4, [n \in 1..3 |-> Member(sz[n], IF n = x THEN {1, 2} ELSE {})]),
             ThunkChunk("unwind", 1, FALSE, 4, 0), ThunkChunk("stubs", 1, TRUE, 4, 6)>>,
          <<ThunkAt(3, 0, 3), ThunkAt(1, 3, 0)>>)
      EXCEPT !.unwind = {8, 40}] :
        sz \in {<<12, 12, 12>>, <<9, 3, 5>>, <<30, 30, 20>>}, x \in 1..3}

\* The stubs, and a section that is still to get thunks, at the end of reach.
Tight ==
    {ThunkLink(<<Section(4, <<Member(x, {}), Member(31, {}), Member(28, {1, 2}), Member(y, {})>>),
            ThunkChunk("stubs", 1, TRUE, 4, 6)>>,
          <<ThunkAt(2, 0, 5), ThunkAt(1, 1, 0)>>) : x \in 27..31, y \in 23..28}
    \cup {ThunkLink(<<Section(4, <<Member(x, {}), Member(10, {1})>>),
                 Section(8, <<Member(9, {2, 3, 4}), Member(8, {5, 6, 7}), Member(y, {})>>),
                 ThunkChunk("stubs", 1, TRUE, 4, 6)>>,
               <<ThunkAt(3, 0, 5)>> \o [s \in 1..6 |-> ThunkAt(0, 0, 0)]) : x \in 28..31, y \in 5..8}

ThunkLinks == OneSection \cup TwoSections \cup Unsized \cup Tight

-----------------------------------------------------------------------------
\* Segments: Images for TLC.  A page is 4 units.

Unpinned == -1

SegmentChunk(kind, sz, align) == [kind |-> kind, zerofill |-> FALSE, size |-> sz, align |-> align]
Bss(sz, align) == [SegmentChunk("plain", sz, align) EXCEPT !.zerofill = TRUE]
Segment(kind, chunks) ==
    [kind |-> kind, pin |-> Unpinned, follows |-> FALSE, page |-> 4, size |-> 0, chunks |-> chunks]
PageZero(sz) == [Segment("zero", <<>>) EXCEPT !.size = sz]
SegmentText(chunks) == Segment("header", <<SegmentChunk("plain", 1, 1)>> \o chunks)
SegmentData(chunks) == Segment("plain", chunks)

SegmentImage(segments, base) ==
    [segs |-> segments, base |-> base, preload |-> 0, slides |-> FALSE, exec |-> TRUE, chained |-> FALSE,
     linkedit |-> [pin |-> Unpinned, size |-> 3, page |-> 4],
     code |-> 0, unwind |-> [reach |-> 0, below |-> 0, near |-> 0, far |-> 0], fixups |-> {}]

\* Nothing is pinned.  A section of an image that no dyld maps may be aligned
\* beyond the page, and the segment after __TEXT start on a larger one.
Floating ==
    {SegmentImage(<<PageZero(8), [SegmentText(<<SegmentChunk("plain", t, 2)>>) EXCEPT !.page = p],
             SegmentData(<<SegmentChunk("plain", 3, a1), Bss(b, 2), SegmentChunk("plain", 2, a2), Bss(1, a3)>>),
             SegmentData(<<>>), SegmentData(<<SegmentChunk("plain", 1, a1)>>)>>, base) :
        t \in {1, 3, 4}, p \in {4, 16}, a1 \in {1, 8}, a2 \in {4, 16}, a3 \in {1, 8}, b \in {0, 5},
        base \in {4, 8, 12}}

\* A -preload image: its header's pages come first in the file, and in no
\* segment.
Preload ==
    {[SegmentImage(<<SegmentData(<<SegmentChunk("plain", 3, 1), SegmentChunk("plain", 3, a)>>), SegmentData(<<SegmentChunk("plain", 5, 8)>>)>>, 8)
      EXCEPT !.preload = h] : h \in {1, 6}, a \in {2, 16}}

\* Up to three segments are pinned, where others may go, or follow a pinned
\* one; __LINKEDIT too.
Pinned ==
    {[SegmentImage(<<PageZero(4), [SegmentText(<<SegmentChunk("plain", 2, 2)>>) EXCEPT !.pin = t],
              [SegmentData(<<SegmentChunk("plain", 3, 2)>>) EXCEPT !.pin = a],
              [SegmentData(<<SegmentChunk("plain", 6, 4)>>) EXCEPT !.pin = b, !.follows = f],
              [SegmentData(<<>>) EXCEPT !.follows = f],
              [SegmentData(<<SegmentChunk("plain", 2, 2), Bss(3, 1)>>) EXCEPT !.pin = c, !.page = p]>>,
            IF t # Unpinned /\ ~(sl /\ ex) THEN t ELSE 8)
      EXCEPT !.slides = sl, !.exec = ex, !.linkedit.pin = le] :
        t \in {Unpinned, 24}, a \in {Unpinned, 12, 16}, b \in {Unpinned, 8, 20, 28}, c \in {Unpinned, 16, 36},
        f \in BOOLEAN, p \in {4, 16}, sl \in BOOLEAN, ex \in BOOLEAN, le \in {Unpinned, 32}}

\* The stack of a static executable is a pinned segment.
Stack ==
    {SegmentImage(<<PageZero(4), SegmentText(<<SegmentChunk("plain", t, 2)>>), SegmentData(<<SegmentChunk("plain", 5, 2)>>),
             [Segment("stack", <<>>) EXCEPT !.pin = at_, !.size = 8]>>, 8) : t \in {2, 4}, at_ \in {12, 24, 40}}

\* A segment outside __TEXT has code, pinned or not, and __unwind_info a size
\* that depends on where it is.
Unwound ==
    {[SegmentImage(<<PageZero(8), SegmentText(<<SegmentChunk("plain", t, 1), SegmentChunk("unwind", 0, 1)>>),
              [SegmentData(<<SegmentChunk("plain", 3, 2)>>) EXCEPT !.pin = a], SegmentData(<<SegmentChunk("plain", 2, 1)>>)>>, 8)
      EXCEPT !.slides = TRUE, !.code = c, !.unwind = [reach |-> r, below |-> x, near |-> y, far |-> z]] :
        t \in {1, 2}, a \in {Unpinned, 20, 40}, c \in 0..4 \ {1, 2}, r \in {4, 8, 12},
        x \in {1, 3, 5}, y \in {1, 2, 6}, z \in {1, 2, 6, 9}}

\* Fixups in a segment, whose chains __chain_starts lists.
Chained ==
    {[SegmentImage(<<SegmentText(<<SegmentChunk("plain", t, 1), SegmentChunk("chains", 2, 1)>>),
              SegmentData(<<SegmentChunk("plain", 3, 1), SegmentChunk("plain", 12, a)>>), SegmentData(<<SegmentChunk("plain", 3, 2)>>)>>, 4)
      EXCEPT !.chained = TRUE,
             !.fixups = {[seg |-> 2, chunk |-> 1, off |-> 0], [seg |-> 2, chunk |-> 2, off |-> o],
                         [seg |-> 3, chunk |-> 1, off |-> 1]}] : t \in 0..3, a \in {1, 4}, o \in {0, 4, 8}}

SegmentLinks == Floating \cup Preload \cup Pinned \cup Stack \cup Unwound \cup Chained

\* A pinned segment whose second section is aligned beyond the page.
PinnedAligned ==
    {[SegmentImage(<<PageZero(4), SegmentText(<<SegmentChunk("plain", 2, 2)>>),
              [SegmentData(<<SegmentChunk("plain", 3, 2), SegmentChunk("plain", 2, 16)>>) EXCEPT !.pin = a]>>, 8)
      EXCEPT !.base = 8] : a \in {16, 20}}

\* As Chained, the second section of the segment aligned beyond the page.
ChainedAligned ==
    {[SegmentImage(<<SegmentText(<<SegmentChunk("plain", t, 1), SegmentChunk("chains", 2, 1)>>),
              SegmentData(<<SegmentChunk("plain", 3, 1), SegmentChunk("plain", 12, 16)>>)>>, 4)
      EXCEPT !.chained = TRUE,
             !.fixups = {[seg |-> 2, chunk |-> 1, off |-> 0], [seg |-> 2, chunk |-> 2, off |-> 2]}] : t \in 0..3}

-----------------------------------------------------------------------------
\* OutputFile: an image of six pages of two units each.  The header, the
\* symbol table and the signature start in the middle of a page, so that every
\* two neighbouring ranges share one, and two chunks are copied in parallel.

CopyTasks == {"t1", "t2"}
CopySlices == [t \in CopyTasks |-> IF t = "t1" THEN 1..3 ELSE 4..6]

-----------------------------------------------------------------------------

CONSTANTS
    Parts,           \* the components to run
    SegmentImages,   \* the images of Segments,
    SegmentPage,     \* its page
    MaxStride,       \* and the longest stride of its chains
    Page, Block,     \* the output file: its page and block sizes,
    HdrEnd, SymtabStart, SigStart, BufLen,  \* the driver's offsets,
    NumWriters,      \* its writers
    Tasks, Slice     \* and what each task copies

VARIABLES
    part,   \* the component that runs
    l, phase, need, pos, offs, size, thunks, a, b, d, t, offset, marked,
    addr, error, i, fileoff, taken, placed, vm, file, at, minSize, encoded,
    starts, linkedit, pc, task, dying, how, hasError, registered, disk,
    created, cached, buf, queued, edges, channel, txOpen, writer, job, hash,
    child, notified, ignored, parent

vars == <<part, l, phase, need, pos, offs, size, thunks, a, b, d, t, offset,
          marked, addr, error, i, fileoff, taken, placed, vm, file, at,
          minSize, encoded, starts, linkedit, pc, task, dying, how, hasError,
          registered, disk, created, cached, buf, queued, edges, channel,
          txOpen, writer, job, hash, child, notified, ignored, parent>>

Thunks == INSTANCE Thunks WITH
    Distance <- 64, BatchSize <- 16, MaxThunk <- 9, ThunkAlign <- 4,
    EntrySize <- 3, Links <- ThunkLinks
Segments == INSTANCE Segments WITH
    Page <- SegmentPage, Stride <- MaxStride, Links <- SegmentImages
OutputFile == INSTANCE OutputFile WITH MaxDying <- 1

ASSUME LayoutAssumption == Thunks!ThunkAssumption /\ Segments!SegmentAssumption

ASSUME OutputAssumption ==
    OutputFile!LayoutAssumption /\ OutputFile!SliceAssumption /\ IsFiniteSet(Tasks)

Idle == "idle"   \* the variables of the components that do not run

ThunksInit ==
    /\ part = "thunks" /\ Thunks!Init
    /\ error = Idle /\ i = Idle /\ fileoff = Idle /\ taken = Idle
    /\ placed = Idle /\ vm = Idle /\ file = Idle /\ at = Idle
    /\ minSize = Idle /\ encoded = Idle /\ starts = Idle /\ linkedit = Idle
    /\ pc = Idle /\ task = Idle /\ dying = Idle /\ how = Idle
    /\ hasError = Idle /\ registered = Idle /\ disk = Idle /\ created = Idle
    /\ cached = Idle /\ buf = Idle /\ queued = Idle /\ edges = Idle
    /\ channel = Idle /\ txOpen = Idle /\ writer = Idle /\ job = Idle
    /\ hash = Idle /\ child = Idle /\ notified = Idle /\ ignored = Idle
    /\ parent = Idle
ThunksTakes(A) ==
    /\ part = "thunks" /\ A
    /\ UNCHANGED <<part, error, i, fileoff, taken, placed, vm, file, at, minSize,
                   encoded, starts, linkedit, pc, task, dying, how, hasError,
                   registered, disk, created, cached, buf, queued, edges,
                   channel, txOpen, writer, job, hash, child, notified,
                   ignored, parent>>
ThunksSteps == ThunksTakes(Thunks!Next)

SegmentsInit ==
    /\ part = "segments" /\ Segments!Init
    /\ need = Idle /\ pos = Idle /\ offs = Idle /\ thunks = Idle /\ a = Idle
    /\ b = Idle /\ d = Idle /\ t = Idle /\ offset = Idle /\ marked = Idle
    /\ pc = Idle /\ task = Idle /\ dying = Idle /\ how = Idle
    /\ hasError = Idle /\ registered = Idle /\ disk = Idle /\ created = Idle
    /\ cached = Idle /\ buf = Idle /\ queued = Idle /\ edges = Idle
    /\ channel = Idle /\ txOpen = Idle /\ writer = Idle /\ job = Idle
    /\ hash = Idle /\ child = Idle /\ notified = Idle /\ ignored = Idle
    /\ parent = Idle
SegmentsTakes(A) ==
    /\ part = "segments" /\ A
    /\ UNCHANGED <<part, need, pos, offs, thunks, a, b, d, t, offset, marked, pc,
                   task, dying, how, hasError, registered, disk, created,
                   cached, buf, queued, edges, channel, txOpen, writer, job,
                   hash, child, notified, ignored, parent>>
SegmentsSteps == SegmentsTakes(Segments!Next)

OutputFileInit ==
    /\ part = "output" /\ OutputFile!Init
    /\ l = Idle /\ phase = Idle /\ need = Idle /\ pos = Idle /\ offs = Idle
    /\ size = Idle /\ thunks = Idle /\ a = Idle /\ b = Idle /\ d = Idle
    /\ t = Idle /\ offset = Idle /\ marked = Idle /\ addr = Idle
    /\ error = Idle /\ i = Idle /\ fileoff = Idle /\ taken = Idle
    /\ placed = Idle /\ vm = Idle /\ at = Idle /\ minSize = Idle
    /\ encoded = Idle /\ starts = Idle /\ linkedit = Idle
OutputFileTakes(A) ==
    /\ part = "output" /\ A
    /\ UNCHANGED <<part, l, phase, need, pos, offs, size, thunks, a, b, d, t,
                   offset, marked, addr, error, i, fileoff, taken, placed,
                   vm, at, minSize, encoded, starts, linkedit>>
OutputFileSteps == OutputFileTakes(OutputFile!Next)

Init == part \in Parts /\ (ThunksInit \/ SegmentsInit \/ OutputFileInit)

\* A component that has come to its end.
Over ==
    /\ \/ part = "thunks" /\ phase = "done"
       \/ part = "segments" /\ phase \in {"done", "failed"}
    /\ UNCHANGED vars

Next == ThunksSteps \/ SegmentsSteps \/ OutputFileSteps \/ Over

\* Thunks and segments are laid out by one thread, in loops that nothing blocks;
\* for the output file, the operating system runs every thread that can run.
Spec ==
    /\ Init /\ [][Next]_vars
    /\ WF_vars(ThunksSteps \/ SegmentsSteps)
    /\ WF_vars(OutputFileTakes(OutputFile!MainSteps))
    /\ \A x \in Tasks :
          WF_vars(OutputFileTakes(OutputFile!CopyBuf(x) \/ OutputFile!TaskDies(x)))
    /\ WF_vars(OutputFileTakes(OutputFile!DyingSteps))
    /\ \A w \in OutputFile!Writers : WF_vars(OutputFileTakes(OutputFile!WriterSteps(w)))
    /\ WF_vars(OutputFileTakes(OutputFile!ParentSteps))
-----------------------------------------------------------------------------
\* What the layout gives out can be used: every branch to code reaches its
\* target or an entry for it, so that applying it finds no "B/BL out of range",
\* and the members and the thunks of a section are in no other's way
\* (create_range_extension_thunks); chunks keep their alignment as segments
\* move, and a floating segment is as low as it can be (place_segments).
AddressesFit ==
    /\ part = "thunks" => Thunks!EveryBranchReaches /\ Thunks!NothingOverlaps
    /\ part = "segments" => Segments!ChunksAligned /\ Segments!NoRoomBelow

\* Segments overlap only where the command line asks them to; the chunks of
\* one lie within it, in order, as far into it in memory as in the file,
\* although segments move after they were laid out (place_segments,
\* move_segment, check_segment_overlaps).
SegmentsApart ==
    part = "segments" => Segments!SegmentsApart /\ Segments!ChunksInPlace

\* What depends on the addresses, __unwind_info and __chain_starts, was made
\* for those of the last layout, though it is made in the course of one and
\* its size moves others (finish_unwind_info, finish_chain_starts).
ContentsAreCurrent == part = "segments" => Segments!ContentsAreCurrent

\* Laying out comes to an end: the sizes that depend on the layout settle
\* (lay_out_segments_with_unwind_info, create_range_extension_thunks).
LayoutEnds == part \in {"thunks", "segments"} => <>(phase \in {"done", "failed"})

\* The parent reports success only if the whole image is at the output path,
\* with hashes that match it: no queued byte was lost to a failed writer or to
\* the zero-fill of a page two writes share, and a late crash removed nothing.
\* A link that ends otherwise leaves a complete output or none
\* (OutputFile::queue and close, notify_parent, fork_child, cleanup).
SuccessMeansComplete ==
    part = "output" => OutputFile!SuccessMeansComplete /\ OutputFile!NoPartialOutput

\* The invariant SharedBuf's unsafe code states: a range is queued only once
\* nothing will write it again, so a writer's read of the buffer never
\* overlaps a write.
QueuedStaysFinal == [][part = "output" => \A u \in queued : buf'[u] = buf[u]]_vars

\* The parent of the forked linker ends: no writer, join or wait blocks for
\* good, whoever fails or dies (OutputFile::close, fork_child).
ParentAnswers == part = "output" => <>(parent # "wait")
=============================================================================
