--------------------------- MODULE MCOutputProofs ---------------------------
(***************************************************************************)
(* What OutputFileProofs proves of the output file and SegmentsProofs of   *)
(* the layout of segments, for the composition that TLC runs: it holds in  *)
(* every behaviour in which that component is the one that runs, for every *)
(* layout of the output file and every set of images.                      *)
(***************************************************************************)
EXTENDS MCOutput, TLAPS

-----------------------------------------------------------------------------
\* The output file.

P == INSTANCE OutputFileProofs WITH MaxDying <- 1

\* The invariant of the output file, while it runs.
OutputInv == part = "output" => P!IInv /\ P!AloneInv

LEMMA LayoutHolds == P!Layout /\ 1 <= 1
  BY OutputAssumption
     DEF P!Layout, P!LayoutAssumption, P!SliceAssumption, OutputFile!LayoutAssumption,
         OutputFile!SliceAssumption, P!Main, OutputFile!Main, P!IsFiniteSet, IsFiniteSet

\* The two instances of OutputFile are the same formulas.
LEMMA SameInit == OutputFile!Init => P!Init
  BY DEF P!Init, P!Threads, P!Main, P!Units, P!Writers, P!NoJob, P!Pages,
         OutputFile!Init, OutputFile!Threads, OutputFile!Main, OutputFile!Units, OutputFile!Writers,
         OutputFile!NoJob, OutputFile!Pages

LEMMA SameNext == OutputFile!Next => P!Next
  BY DEF P!Main, P!Writers, P!Units, P!Pages, P!PageOf, P!UnitsOf, P!Span, P!Threads, P!threadVars,
         P!fileVars, P!dataVars, P!queueVars, P!writerVars, P!procVars, P!vars, P!NoJob, P!Runs,
         P!StartDying, P!CleanupSwap, P!CleanupUnlink, P!Die, P!CheckpointFails, P!MainCrashes,
         P!LinkFails, P!Open, P!OpenFails, P!SetLen, P!CopyBuf, P!TaskDies, P!JoinTasks,
         P!Checkpoint, P!Pass, P!WriteFixups, P!CopySymtab, P!WriteMachHeader, P!PageContents,
         P!ComputeUuid, P!WriteCodeSignature, P!RoundUp, P!Least, P!Greatest, P!Lo, P!Hi, P!Blocks,
         P!EdgesOf, P!Queue, P!QueueBody, P!QueueSymtab, P!QueueHeader, P!QueueSignature,
         P!WriteTraceFiles, P!DropSender, P!JoinWriters, P!ZeroFilled, P!WriteEdge, P!ForgetPath,
         P!NotifyParent, P!Finish, P!Receive, P!Chunk, P!WriteStart, P!WriteEnd, P!WriteFails,
         P!ReadByte, P!WaitPid, P!Ended, P!MainSteps, P!TaskSteps, P!DyingSteps, P!WriterSteps,
         P!ParentSteps, P!Next, P!Cardinality, P!IsFiniteSet, OutputFile!Main, OutputFile!Writers,
         OutputFile!Units, OutputFile!Pages, OutputFile!PageOf, OutputFile!UnitsOf, OutputFile!Span,
         OutputFile!Threads, OutputFile!threadVars, OutputFile!fileVars, OutputFile!dataVars,
         OutputFile!queueVars, OutputFile!writerVars, OutputFile!procVars, OutputFile!vars,
         OutputFile!NoJob, OutputFile!Runs, OutputFile!StartDying, OutputFile!CleanupSwap,
         OutputFile!CleanupUnlink, OutputFile!Die, OutputFile!CheckpointFails,
         OutputFile!MainCrashes, OutputFile!LinkFails, OutputFile!Open, OutputFile!OpenFails,
         OutputFile!SetLen, OutputFile!CopyBuf, OutputFile!TaskDies, OutputFile!JoinTasks,
         OutputFile!Checkpoint, OutputFile!Pass, OutputFile!WriteFixups, OutputFile!CopySymtab,
         OutputFile!WriteMachHeader, OutputFile!PageContents, OutputFile!ComputeUuid,
         OutputFile!WriteCodeSignature, OutputFile!RoundUp, OutputFile!Least, OutputFile!Greatest,
         OutputFile!Lo, OutputFile!Hi, OutputFile!Blocks, OutputFile!EdgesOf, OutputFile!Queue,
         OutputFile!QueueBody, OutputFile!QueueSymtab, OutputFile!QueueHeader,
         OutputFile!QueueSignature, OutputFile!WriteTraceFiles, OutputFile!DropSender,
         OutputFile!JoinWriters, OutputFile!ZeroFilled, OutputFile!WriteEdge, OutputFile!ForgetPath,
         OutputFile!NotifyParent, OutputFile!Finish, OutputFile!Receive, OutputFile!Chunk,
         OutputFile!WriteStart, OutputFile!WriteEnd, OutputFile!WriteFails, OutputFile!ReadByte,
         OutputFile!WaitPid, OutputFile!Ended, OutputFile!MainSteps, OutputFile!TaskSteps,
         OutputFile!DyingSteps, OutputFile!WriterSteps, OutputFile!ParentSteps, OutputFile!Next,
         OutputFile!Cardinality, OutputFile!IsFiniteSet

LEMMA SameProperties ==
    /\ P!SuccessMeansComplete => OutputFile!SuccessMeansComplete
    /\ P!NoPartialOutput => OutputFile!NoPartialOutput
  BY DEF P!SuccessMeansComplete, P!NoPartialOutput, P!Complete, P!Final, P!PageContents, P!UnitsOf, P!PageOf,
         P!Pages, P!Units, OutputFile!SuccessMeansComplete, OutputFile!NoPartialOutput, OutputFile!Complete,
         OutputFile!Final, OutputFile!PageContents, OutputFile!UnitsOf, OutputFile!PageOf,
         OutputFile!Pages, OutputFile!Units

\* A step of the composition is a step of the output file, or leaves it alone.
LEMMA OutputSteps ==
    ASSUME [Next]_vars, part' = "output"
    PROVE  part = "output" /\ [P!Next]_(P!vars)
  <1>1. CASE UNCHANGED vars
    BY <1>1 DEF vars, P!vars, P!threadVars, P!fileVars, P!dataVars, P!queueVars, P!writerVars, P!procVars
  <1>2. CASE ThunksSteps \/ SegmentsSteps \/ Over
    <2>1. part # "output" /\ part' = part
      BY <1>2 DEF ThunksSteps, ThunksTakes, SegmentsSteps, SegmentsTakes, Over, vars
    <2>. QED  BY <2>1
  <1>3. CASE OutputFileSteps
    <2>1. part = "output" /\ OutputFile!Next
      BY <1>3 DEF OutputFileSteps, OutputFileTakes
    <2>. QED  BY <2>1, SameNext
  <1>. QED  BY <1>1, <1>2, <1>3 DEF Next

LEMMA OutputInit ==
    ASSUME Init
    PROVE  OutputInv
  <1>1. SUFFICES ASSUME part = "output"
                 PROVE  P!IInv /\ P!AloneInv
    BY DEF OutputInv
  <1>2. OutputFile!Init
    BY <1>1 DEF Init, ThunksInit, SegmentsInit, OutputFileInit
  <1>3. P!Init
    BY <1>2, SameInit
  <1>. QED  BY <1>3, LayoutHolds, P!InvariantInit, P!AloneInit

LEMMA OutputStep ==
    ASSUME OutputInv, [Next]_vars
    PROVE  OutputInv'
  <1>1. SUFFICES ASSUME part' = "output"
                 PROVE  P!IInv' /\ P!AloneInv'
    BY DEF OutputInv
  <1>2. P!IInv /\ P!AloneInv /\ [P!Next]_(P!vars)
    BY <1>1, OutputSteps DEF OutputInv
  <1>3. P!IInv'
    BY <1>2, LayoutHolds, P!InvariantStep
  <1>4. P!AloneInv'
    BY <1>2, LayoutHolds, P!AloneStep
  <1>. QED  BY <1>3, <1>4

\* The parent reports success only for a complete image at the output path,
\* and a link that ends otherwise leaves a complete output or none, whatever
\* the layout of the image, the page and block sizes, the writers and the
\* tasks, if at most one thread dies (OutputFile::queue and close,
\* notify_parent, fork_child, cleanup).
THEOREM SuccessIsComplete == Spec => []SuccessMeansComplete
  <1>1. Init => OutputInv
    BY OutputInit
  <1>2. OutputInv /\ [Next]_vars => OutputInv'
    BY OutputStep
  <1>3. OutputInv => SuccessMeansComplete
    <2>1. SUFFICES ASSUME P!IInv, P!AloneInv
                   PROVE  OutputFile!SuccessMeansComplete /\ OutputFile!NoPartialOutput
      BY DEF OutputInv, SuccessMeansComplete
    <2>2. P!SuccessMeansComplete /\ P!NoPartialOutput
      BY <2>1, LayoutHolds, P!SuccessFollows, P!NoPartialFollows
    <2>. QED  BY <2>2, SameProperties
  <1>. QED  BY <1>1, <1>2, <1>3, PTL DEF Spec

\* No step writes a byte of the buffer that is queued, so a writer's read of
\* the shared buffer never overlaps a write (SharedBuf).
THEOREM BufferIsFinal == Spec => QueuedStaysFinal
  <1>1. Init => OutputInv
    BY OutputInit
  <1>2. OutputInv /\ [Next]_vars => OutputInv'
    BY OutputStep
  <1>3. OutputInv /\ [Next]_vars => [part = "output" => \A u \in queued : buf'[u] = buf[u]]_vars
    <2>1. SUFFICES ASSUME OutputInv, Next, part = "output"
                   PROVE  \A u \in queued : buf'[u] = buf[u]
      OBVIOUS
    <2>2. part' = "output"
      BY <2>1 DEF Next, ThunksSteps, ThunksTakes, SegmentsSteps, SegmentsTakes, OutputFileSteps,
         OutputFileTakes, Over, vars
    <2>3. P!IInv /\ [P!Next]_(P!vars)
      BY <2>1, <2>2, OutputSteps DEF OutputInv
    <2>. QED  BY <2>3, LayoutHolds, P!QueuedKept
  <1>. QED  BY <1>1, <1>2, <1>3, PTL DEF Spec, QueuedStaysFinal

-----------------------------------------------------------------------------
\* The layout of segments.

S == INSTANCE SegmentsProofs WITH Page <- SegmentPage, Stride <- MaxStride, Links <- SegmentImages

\* The invariant of the layout, while it runs.
LayoutInv == part = "segments" => S!IInv

LEMMA ImagesAreLinks == S!SegmentAssumption
  BY LayoutAssumption
     DEF S!SegmentAssumption, S!IsLink, S!IsChunk, S!None, S!Range, S!IsFiniteSet,
         Segments!SegmentAssumption, Segments!IsLink, Segments!IsChunk, Segments!None, Segments!Range,
         Segments!IsFiniteSet

LEMMA SameSegmentsInit == Segments!Init => S!Init
  BY DEF S!Init, S!segs, S!HeaderPages, S!AlignTo, S!None,
         Segments!Init, Segments!segs, Segments!HeaderPages, Segments!AlignTo, Segments!None

LEMMA SameSegmentsNext == Segments!Next => S!Next
  BY ZenonT(60) DEF S!None, S!cursors, S!places, S!laidOut, S!vars, S!segs, S!AlignTo, S!Header, S!HeaderAddr,
         S!InPlace, S!Pins, S!HasPins, S!ChunksOf, S!HeaderPages, S!Span, S!StartAlign, S!CodeAddr,
         S!EncodedSize, S!Sizes, S!EndsOf, S!LayoutSegment, S!StartOf, S!LayOutSegment, S!Fixed,
         S!Free, S!LowestFreeSpan, S!Detached, S!FirstPin, S!TakenFirst, S!Taken, S!StartPlacing,
         S!PlaceSegment, S!Overlap, S!MoveChunks, S!MoveSegments, S!Again, S!FinishUnwindInfo,
         S!FixupAddr, S!ChainStarts, S!ChainsSize, S!FinishChainStarts, S!InOrder, S!CheckSegments,
         S!Tops, S!LinkeditAddr, S!PlaceLinkedit, S!Next, S!Max, S!Min, S!Range, S!Cardinality,
         S!IsFiniteSet, Segments!None, Segments!cursors, Segments!places, Segments!laidOut,
         Segments!vars, Segments!segs, Segments!AlignTo, Segments!Header, Segments!HeaderAddr,
         Segments!InPlace, Segments!Pins, Segments!HasPins, Segments!ChunksOf, Segments!HeaderPages,
         Segments!Span, Segments!StartAlign, Segments!CodeAddr, Segments!EncodedSize, Segments!Sizes,
         Segments!EndsOf, Segments!LayoutSegment, Segments!StartOf, Segments!LayOutSegment,
         Segments!Fixed, Segments!Free, Segments!LowestFreeSpan, Segments!Detached, Segments!FirstPin,
         Segments!TakenFirst, Segments!Taken, Segments!StartPlacing, Segments!PlaceSegment,
         Segments!Overlap, Segments!MoveChunks, Segments!MoveSegments, Segments!Again,
         Segments!FinishUnwindInfo, Segments!FixupAddr, Segments!ChainStarts, Segments!ChainsSize,
         Segments!FinishChainStarts, Segments!InOrder, Segments!CheckSegments, Segments!Tops,
         Segments!LinkeditAddr, Segments!PlaceLinkedit, Segments!Next, Segments!Max, Segments!Min,
         Segments!Range, Segments!Cardinality, Segments!IsFiniteSet

LEMMA SameSegmentsProperties ==
    /\ S!SegmentsApart => Segments!SegmentsApart
    /\ S!ChunksInPlace => Segments!ChunksInPlace
    /\ S!ContentsAreCurrent => Segments!ContentsAreCurrent
  <1>1. S!SegmentsApart => Segments!SegmentsApart
    BY DEF S!SegmentsApart, S!SegmentsDisjoint, S!OnlyPinsOverlap, S!Overlap, S!Pins, S!segs, S!None,
           Segments!SegmentsApart, Segments!SegmentsDisjoint, Segments!OnlyPinsOverlap, Segments!Overlap,
           Segments!Pins, Segments!segs, Segments!None
  <1>2. S!ChunksInPlace => Segments!ChunksInPlace
    BY DEF S!ChunksInPlace, S!Overlap, S!segs, Segments!ChunksInPlace, Segments!Overlap, Segments!segs
  <1>3. S!ContentsAreCurrent => Segments!ContentsAreCurrent
    BY DEF S!ContentsAreCurrent, S!UnwindIsCurrent, S!ChainsAreCurrent, S!ChunksOf, S!CodeAddr, S!EncodedSize,
           S!HeaderAddr, S!Header, S!ChainsSize, S!ChainStarts, S!FixupAddr, S!segs, S!None, S!Max, S!Cardinality,
           S!IsFiniteSet,
           Segments!ContentsAreCurrent, Segments!UnwindIsCurrent, Segments!ChainsAreCurrent, Segments!ChunksOf,
           Segments!CodeAddr, Segments!EncodedSize, Segments!HeaderAddr, Segments!Header, Segments!ChainsSize,
           Segments!ChainStarts, Segments!FixupAddr, Segments!segs, Segments!None, Segments!Max,
           Segments!Cardinality, Segments!IsFiniteSet
  <1>. QED  BY <1>1, <1>2, <1>3

\* A step of the composition is a step of the layout, or leaves it alone.
LEMMA LayoutSteps ==
    ASSUME [Next]_vars, part' = "segments"
    PROVE  part = "segments" /\ [S!Next]_(S!vars)
  <1>1. CASE UNCHANGED vars
    BY <1>1 DEF vars, S!vars, S!cursors, S!places, S!laidOut
  <1>2. CASE ThunksSteps \/ OutputFileSteps
    <2>1. part # "segments" /\ part' = part
      BY <1>2 DEF ThunksSteps, ThunksTakes, OutputFileSteps, OutputFileTakes
    <2>. QED  BY <2>1
  <1>3. CASE Over
    BY <1>1, <1>3 DEF Over
  <1>4. CASE SegmentsSteps
    <2>1. part = "segments" /\ Segments!Next
      BY <1>4 DEF SegmentsSteps, SegmentsTakes
    <2>. QED  BY <2>1, SameSegmentsNext
  <1>. QED  BY <1>1, <1>2, <1>3, <1>4 DEF Next

LEMMA LayoutInit ==
    ASSUME Init
    PROVE  LayoutInv
  <1>1. SUFFICES ASSUME part = "segments"
                 PROVE  S!IInv
    BY DEF LayoutInv
  <1>2. Segments!Init
    BY <1>1 DEF Init, ThunksInit, SegmentsInit, OutputFileInit
  <1>. QED  BY <1>2, SameSegmentsInit, ImagesAreLinks, S!IInvInit

LEMMA LayoutStep ==
    ASSUME LayoutInv, [Next]_vars
    PROVE  LayoutInv'
  <1>1. SUFFICES ASSUME part' = "segments"
                 PROVE  S!IInv'
    BY DEF LayoutInv
  <1>2. S!IInv /\ [S!Next]_(S!vars)
    BY <1>1, LayoutSteps DEF LayoutInv
  <1>. QED  BY <1>2, ImagesAreLinks, S!IInvStep

\* Whatever images are laid out, segments overlap only where pins or a base
\* within __PAGEZERO make them, and chunks stay within their segments as those
\* move (place_segments, move_segment, check_segment_overlaps).
THEOREM SegmentsStayApart == Spec => []SegmentsApart
  <1>1. Init => LayoutInv
    BY LayoutInit
  <1>2. LayoutInv /\ [Next]_vars => LayoutInv'
    BY LayoutStep
  <1>3. LayoutInv => SegmentsApart
    <2>1. SUFFICES ASSUME S!IInv
                   PROVE  Segments!SegmentsApart /\ Segments!ChunksInPlace
      BY DEF LayoutInv, SegmentsApart
    <2>2. S!SegmentsApart /\ S!ChunksInPlace
      BY <2>1, ImagesAreLinks, S!IInvImplies
    <2>. QED  BY <2>2, SameSegmentsProperties
  <1>. QED  BY <1>1, <1>2, <1>3, PTL DEF Spec

\* Whatever images are laid out, __unwind_info and __chain_starts of one that
\* is written were made for the addresses it has (finish_unwind_info,
\* finish_chain_starts).
THEOREM ContentsStayCurrent == Spec => []ContentsAreCurrent
  <1>1. Init => LayoutInv
    BY LayoutInit
  <1>2. LayoutInv /\ [Next]_vars => LayoutInv'
    BY LayoutStep
  <1>3. LayoutInv => ContentsAreCurrent
    <2>1. SUFFICES ASSUME S!IInv
                   PROVE  Segments!ContentsAreCurrent
      BY DEF LayoutInv, ContentsAreCurrent
    <2>2. S!ContentsAreCurrent
      BY <2>1, ImagesAreLinks, S!IInvImplies
    <2>. QED  BY <2>2, SameSegmentsProperties
  <1>. QED  BY <1>1, <1>2, <1>3, PTL DEF Spec

=============================================================================
