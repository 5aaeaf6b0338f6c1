----------------------------- MODULE OutputFile -----------------------------
(***************************************************************************)
(* Writing the image: the end of driver::link (macho/driver.rs), the       *)
(* background writers of macho/output_file.rs, the ways a link dies        *)
(* (macho/error.rs, macho/subprocess.rs) and the parent process that       *)
(* reports the exit status (subprocess::fork_child).                       *)
(*                                                                         *)
(* The output is built in a buffer.  Each range of it is queued the moment *)
(* it is final; the writers pwrite the whole pages of the queued ranges    *)
(* while the linking thread goes on, and close() joins them, writes the    *)
(* partial pages and forgets the output path.  A thread that dies removes  *)
(* the output it finds registered.  Bytes are units; the value of a unit   *)
(* is how many of the passes that write it have run (0 is a zero byte).    *)
(***************************************************************************)
EXTENDS Integers, Sequences, FiniteSets

CONSTANTS
    Page,           \* PAGE: the page size of the file cache, in units
    Block,          \* BLOCK: the size a queued range is cut into
    HdrEnd, SymtabStart, SigStart, BufLen,  \* the driver's offsets into the buffer
    NumWriters,     \* WRITERS
    Tasks,          \* the rayon tasks of copy_chunks
    Slice,          \* Slice[t]: the units of the body task t copies
    MaxDying        \* bound: how many threads may start to die

Main == "main"
Writers == 1..NumWriters
Units == 0..(BufLen - 1)
Pages == 0..((BufLen - 1) \div Page)
PageOf(u) == u \div Page
UnitsOf(p) == {u \in Units : PageOf(u) = p}
Span(off, n) == {u \in Units : off <= u /\ u < off + n}

LayoutAssumption ==
    /\ Page \in Nat \ {0} /\ Block \in Nat \ {0} /\ Block % Page = 0
    /\ HdrEnd \in Nat /\ SymtabStart \in Nat /\ SigStart \in Nat /\ BufLen \in Nat
    /\ 0 < HdrEnd /\ HdrEnd <= SymtabStart /\ SymtabStart <= SigStart /\ SigStart < BufLen
    /\ NumWriters \in Nat \ {0} /\ MaxDying \in Nat
    /\ Main \notin Tasks
\* split_ranges asserts that the chunks' slices do not overlap.
SliceAssumption ==
    /\ Slice \in [Tasks -> SUBSET (HdrEnd..(SymtabStart - 1))]
    /\ UNION {Slice[t] : t \in Tasks} = HdrEnd..(SymtabStart - 1)
    /\ \A t, u \in Tasks : t # u => Slice[t] \cap Slice[u] = {}

Threads == Tasks \cup {Main}

VARIABLES
    pc,         \* where the linking thread is in driver::link
    task,       \* task[t]: "run" or "done"
    dying,      \* dying[t]: "no", "cleanup", "unlink" or "die"
    how,        \* how[t]: "signal", "exit" or "panic", once t is dying
    hasError,   \* HAS_ERROR
    registered, \* OUTPUT_PATH is not null
    disk,       \* what is at the output path
    created,    \* whether this link created it
    file,       \* the bytes of the file this link has open
    cached,     \* the pages of it in the file cache
    buf,        \* the output buffer
    queued,     \* the units queued so far
    edges,      \* OutputFile::edges, the partial pages
    channel,    \* the blocks sent and not received yet
    txOpen,     \* the sender has not been dropped
    writer,     \* writer[w]: "recv", "write", "copy", "fill", "ok" or "err"
    job,        \* job[w]: the rest of the block w is writing
    hash,       \* hash[p]: the contents page_hashes saw in page p
    child,      \* the child process: "run", "exit0", "exit1", "signal", "abort"
    notified,   \* the byte is in the pipe
    ignored,    \* SIGCHLD is ignored (inherited)
    parent      \* "wait", or the status the parent ended with

threadVars == <<task, dying, how>>
fileVars == <<registered, disk, created>>
dataVars == <<file, cached>>
queueVars == <<queued, edges, channel, txOpen>>
writerVars == <<writer, job>>
procVars == <<child, notified, ignored, parent>>
vars == <<pc, threadVars, hasError, fileVars, dataVars, buf, queueVars, writerVars,
          hash, procVars>>

NoJob == <<0, 0>>

Init ==
    /\ pc = "link"
    /\ task = [t \in Tasks |-> "run"]
    /\ dying = [t \in Threads |-> "no"]
    /\ how = [t \in Threads |-> "exit"]
    /\ hasError = FALSE
    /\ registered = FALSE
    /\ disk \in {"absent", "old", "kept", "device"}
    /\ created = FALSE
    /\ file = [u \in Units |-> 0]
    /\ cached = {}
    /\ buf = [u \in Units |-> 0]
    /\ queued = {}
    /\ edges = <<>>
    /\ channel = <<>>
    /\ txOpen = TRUE
    /\ writer = [w \in Writers |-> "recv"]
    /\ job = [w \in Writers |-> NoJob]
    /\ hash = [p \in Pages |-> {}]
    /\ child = "run"
    /\ notified = FALSE
    /\ ignored \in BOOLEAN
    /\ parent = "wait"

-----------------------------------------------------------------------------
(* Dying: error::fatal and checkpoint, the signal handler, the panic hook. *)

\* Thread t runs the linker's code: the process lives and t is not dying.
Runs(t) == child = "run" /\ dying[t] = "no"

\* The step at which thread t starts to die in the given way.
StartDying(t, way) ==
    /\ Cardinality({u \in Threads : dying[u] # "no"}) < MaxDying
    /\ dying' = [dying EXCEPT ![t] = "cleanup"]
    /\ how' = [how EXCEPT ![t] = way]

\* output_file::cleanup, first half: the swap of OUTPUT_PATH.
CleanupSwap(t) ==
    /\ child = "run"
    /\ dying[t] = "cleanup"
    /\ registered' = FALSE
    /\ dying' = [dying EXCEPT ![t] = IF registered THEN "unlink" ELSE "die"]
    /\ UNCHANGED <<pc, task, how, hasError, disk, created, dataVars, buf, queueVars,
                   writerVars, hash, procVars>>

\* output_file::cleanup, second half: unlink of the path it got.
CleanupUnlink(t) ==
    /\ child = "run"
    /\ dying[t] = "unlink"
    /\ disk' = IF disk = "kept" THEN disk ELSE "absent"
    /\ dying' = [dying EXCEPT ![t] = "die"]
    /\ UNCHANGED <<pc, task, how, hasError, registered, created, dataVars, buf, queueVars,
                   writerVars, hash, procVars>>

\* The end of the process: _exit of exit_after_cleanup, the signal that
\* on_signal raises again, or the abort after the panic hook (Cargo.toml
\* builds with panic = "abort").
Die(t) ==
    /\ child = "run"
    /\ dying[t] = "die"
    /\ child' = CASE how[t] = "signal" -> "signal"
                  [] how[t] = "exit" -> "exit1"
                  [] how[t] = "panic" -> "abort"
    /\ UNCHANGED <<pc, threadVars, hasError, fileVars, dataVars, buf, queueVars, writerVars, hash,
                   notified, ignored, parent>>

\* error::checkpoint that finds an error reported.
CheckpointFails ==
    /\ Runs(Main)
    /\ pc \in {"check1", "check2", "check3"}
    /\ hasError
    /\ StartDying(Main, "exit")
    /\ UNCHANGED <<pc, task, hasError, fileVars, dataVars, buf, queueVars, writerVars, hash,
                   procVars>>

\* A fault or a panic of the linking thread while it reads inputs and
\* fills the buffer, or prints statistics after it has told the parent.
MainCrashes ==
    /\ Runs(Main)
    /\ pc \in {"link", "fixups", "symtab", "header", "uuid", "sign", "post"}
    /\ \E way \in {"signal", "panic"} : StartDying(Main, way)
    /\ UNCHANGED <<pc, task, hasError, fileVars, dataVars, buf, queueVars, writerVars, hash,
                   procVars>>

-----------------------------------------------------------------------------
(* The linking thread, driver::link.                                       *)

\* The passes before the output is opened: they may fail the link.
LinkFails ==
    /\ Runs(Main)
    /\ pc = "link"
    /\ StartDying(Main, "exit")
    /\ UNCHANGED <<pc, task, hasError, fileVars, dataVars, buf, queueVars, writerVars, hash,
                   procVars>>

\* output_file::open and set_output_path: an old file is removed and a
\* fresh one created and registered; a device, or a file that can't be
\* removed, is opened in place and not registered.
Open ==
    /\ Runs(Main)
    /\ pc = "link"
    /\ pc' = "setlen"
    /\ created' = (disk \in {"absent", "old"})
    /\ disk' = IF disk \in {"absent", "old"} THEN "ours" ELSE disk
    /\ registered' = created'
    /\ UNCHANGED <<threadVars, hasError, dataVars, buf, queueVars, writerVars, hash, procVars>>

\* The file can't be opened, though an old one may be gone already.
OpenFails ==
    /\ Runs(Main)
    /\ pc = "link"
    /\ disk' \in {disk} \cup (IF disk = "old" THEN {"absent"} ELSE {})
    /\ StartDying(Main, "exit")
    /\ UNCHANGED <<pc, task, hasError, registered, created, dataVars, buf, queueVars, writerVars,
                   hash, procVars>>

\* set_len, which may fail, and the start of the writers.
SetLen ==
    /\ Runs(Main)
    /\ pc = "setlen"
    /\ \/ pc' = "copy" /\ UNCHANGED <<dying, how>>
       \/ StartDying(Main, "exit") /\ UNCHANGED pc
    /\ UNCHANGED <<task, hasError, fileVars, dataVars, buf, queueVars, writerVars, hash,
                   procVars>>

\* A task of copy_chunks fills its slice; a relocation that does not fit
\* is reported and the task goes on.
CopyBuf(t) ==
    /\ Runs(t)
    /\ pc = "copy"
    /\ task[t] = "run"
    /\ task' = [task EXCEPT ![t] = "done"]
    /\ buf' = [u \in Units |-> IF u \in Slice[t] THEN 1 ELSE buf[u]]
    /\ hasError' \in {hasError, TRUE}
    /\ UNCHANGED <<pc, dying, how, fileVars, dataVars, queueVars, writerVars, hash, procVars>>

\* A task of copy_chunks dies: fatal!, a fault on a mapped input, a panic.
TaskDies(t) ==
    /\ Runs(t)
    /\ pc = "copy"
    /\ task[t] = "run"
    /\ \E way \in {"signal", "exit", "panic"} : StartDying(t, way)
    /\ UNCHANGED <<pc, task, hasError, fileVars, dataVars, buf, queueVars, writerVars, hash,
                   procVars>>

\* The join of copy_chunks, and report_text_relocs.
JoinTasks ==
    /\ Runs(Main)
    /\ pc = "copy"
    /\ \A t \in Tasks : task[t] = "done"
    /\ pc' = "check1"
    /\ hasError' \in {hasError, TRUE}
    /\ UNCHANGED <<threadVars, fileVars, dataVars, buf, queueVars, writerVars, hash, procVars>>

\* error::checkpoint that finds no error.
Checkpoint ==
    /\ Runs(Main)
    /\ \/ pc = "check1" /\ pc' = "fixups"
       \/ pc = "check2" /\ pc' = "traces"
       \/ pc = "check3" /\ pc' = "close"
    /\ ~hasError
    /\ UNCHANGED <<threadVars, hasError, fileVars, dataVars, buf, queueVars, writerVars, hash,
                   procVars>>

\* A pass of the linking thread over the units from lo up to hi.
Pass(from, to, lo, hi) ==
    /\ Runs(Main)
    /\ pc = from
    /\ pc' = to
    /\ buf' = [u \in Units |-> IF lo <= u /\ u < hi THEN buf[u] + 1 ELSE buf[u]]
    /\ UNCHANGED <<threadVars, fileVars, dataVars, queueVars, writerVars, procVars>>

\* Faulty variant: the fixups are written after the body is queued.
WriteFixups_Late ==
    \/ Pass("fixups", "queueBody", 0, 0) /\ UNCHANGED <<hasError, hash>>
    \/ Pass("symtab", "queueSymtab", HdrEnd, SigStart) /\ UNCHANGED <<hasError, hash>>

\* write_fixup_chains, the relocation tables, apply_optimization_hints: a
\* pointer no fixup can express is an error, reported at the next
\* checkpoint.
WriteFixups ==
    /\ Pass("fixups", "queueBody", HdrEnd, SymtabStart)
    /\ hasError' \in {hasError, TRUE}
    /\ UNCHANGED hash

\* copy_symtab, which fills the string table too.
CopySymtab == Pass("symtab", "queueSymtab", SymtabStart, SigStart) /\ UNCHANGED <<hasError, hash>>

\* write_mach_header, with the UUID field zero.
WriteMachHeader == Pass("header", "uuid", 0, HdrEnd) /\ UNCHANGED <<hasError, hash>>

\* What page_hashes and rehash_pages see of page p in the buffer b.
PageContents(b, p) == {<<u, b[u]>> : u \in UnitsOf(p) \cap 0..(SigStart - 1)}

\* compute_uuid: hash the pages, put the UUID into the header, and hash
\* the pages the header spans again.
ComputeUuid ==
    /\ Pass("uuid", "queueHeader", 0, HdrEnd)
    /\ hash' = [p \in Pages |->
                  PageContents(IF p <= PageOf(HdrEnd - 1) THEN buf' ELSE buf, p)]
    /\ UNCHANGED hasError

\* code_signature::write.
WriteCodeSignature == Pass("sign", "queueSig", SigStart, BufLen) /\ UNCHANGED <<hasError, hash>>

-----------------------------------------------------------------------------
(* OutputFile::queue.                                                      *)

RoundUp(x) == ((x + Page - 1) \div Page) * Page
Least(a, b) == IF a <= b THEN a ELSE b
Greatest(a, b) == IF a >= b THEN a ELSE b

\* The whole pages of a range: from Lo up to Hi.
Lo(off, end) == Least(RoundUp(off), end)
Hi(off, end) == Greatest((end \div Page) * Page, Lo(off, end))

\* The blocks the whole pages from pos up to hi are cut into.
Blocks(pos, hi) ==
    [i \in 1..((hi - pos + Block - 1) \div Block) |->
        <<pos + (i - 1) * Block, Least(Block, hi - (pos + (i - 1) * Block))>>]

\* The partial pages at the ends of a range.
EdgesOf(off, end) ==
    LET lo == Lo(off, end)
        hi == Hi(off, end)
    IN  (IF off < lo THEN <<<<off, lo - off>>>> ELSE <<>>)
          \o (IF hi < end THEN <<<<hi, end - hi>>>> ELSE <<>>)

\* Faulty variant: the partial pages go to the writers with the rest.
Queue_NoEdges(from, to, off, end) ==
    /\ Runs(Main)
    /\ pc = from
    /\ pc' = to
    /\ queued' = queued \cup Span(off, end - off)
    /\ channel' = channel \o SelectSeq(<<<<off, Lo(off, end) - off>>>>
                                 \o Blocks(Lo(off, end), Hi(off, end))
                                 \o <<<<Hi(off, end), end - Hi(off, end)>>>>,
                               LAMBDA b : b[2] > 0)
    /\ UNCHANGED <<edges, txOpen, threadVars, hasError, fileVars, dataVars, buf, writerVars,
                   hash, procVars>>

\* A range becomes final.  A send fails, and nobody minds, once every
\* writer has ended with an error.
Queue(from, to, off, end) ==
    /\ Runs(Main)
    /\ pc = from
    /\ pc' = to
    /\ queued' = queued \cup Span(off, end - off)
    /\ edges' = edges \o EdgesOf(off, end)
    /\ channel' = IF \A w \in Writers : writer[w] = "err"
                    THEN channel
                    ELSE channel \o Blocks(Lo(off, end), Hi(off, end))
    /\ UNCHANGED <<txOpen, threadVars, hasError, fileVars, dataVars, buf, writerVars, hash,
                   procVars>>

QueueBody == Queue("queueBody", "symtab", HdrEnd, SymtabStart)
QueueSymtab == Queue("queueSymtab", "header", SymtabStart, SigStart)
QueueHeader == Queue("queueHeader", "sign", 0, HdrEnd)
QueueSignature == Queue("queueSig", "check2", SigStart, BufLen)

\* write_trace_files, between two checkpoints: a trace that can't be
\* written is an error.
WriteTraceFiles ==
    /\ Runs(Main)
    /\ pc = "traces"
    /\ pc' = "check3"
    /\ hasError' \in {hasError, TRUE}
    /\ UNCHANGED <<threadVars, fileVars, dataVars, buf, queueVars, writerVars, hash, procVars>>

-----------------------------------------------------------------------------
(* OutputFile::close.                                                      *)

\* The sender is dropped.
DropSender ==
    /\ Runs(Main)
    /\ pc = "close"
    /\ pc' = "join"
    /\ txOpen' = FALSE
    /\ UNCHANGED <<queued, edges, channel, threadVars, hasError, fileVars, dataVars, buf,
                   writerVars, hash, procVars>>

\* The writers are joined in order; the first one that failed is fatal,
\* though the ones after it may still be writing.
JoinWriters ==
    /\ Runs(Main)
    /\ pc = "join"
    /\ \/ /\ \A w \in Writers : writer[w] = "ok"
          /\ pc' = "edges" /\ UNCHANGED <<dying, how>>
       \/ /\ \E w \in Writers : writer[w] = "err" /\ \A v \in 1..(w - 1) : writer[v] = "ok"
          /\ StartDying(Main, "exit") /\ UNCHANGED pc
    /\ UNCHANGED <<task, hasError, fileVars, dataVars, buf, queueVars, writerVars, hash,
                   procVars>>

\* The units of page p that a write of the units us to it zero-fills, if
\* it brings the page into the file cache and does not cover it.
ZeroFilled(p, us) == IF p \in cached THEN {} ELSE UnitsOf(p) \ us

\* close() writes the next partial page.
WriteEdge ==
    /\ Runs(Main)
    /\ pc = "edges"
    /\ edges # <<>>
    /\ \/ /\ LET us == Span(Head(edges)[1], Head(edges)[2])
                 p == PageOf(Head(edges)[1])
                 zeroed == ZeroFilled(p, us)
             IN  /\ file' = [u \in Units |->
                               IF u \in us THEN buf[u] ELSE IF u \in zeroed THEN 0 ELSE file[u]]
                 /\ cached' = cached \cup {p}
          /\ edges' = Tail(edges)
          /\ UNCHANGED <<dying, how>>
       \/ StartDying(Main, "exit") /\ UNCHANGED <<file, cached, edges>>
    /\ UNCHANGED <<pc, task, hasError, fileVars, buf, queued, channel, txOpen, writerVars, hash,
                   procVars>>

\* The last step of close(): set_output_path(None).
ForgetPath ==
    /\ Runs(Main)
    /\ pc = "edges"
    /\ edges = <<>>
    /\ pc' = "notify"
    /\ registered' = FALSE
    /\ UNCHANGED <<disk, created, threadVars, hasError, dataVars, buf, queueVars, writerVars,
                   hash, procVars>>

\* subprocess::notify_parent.
NotifyParent ==
    /\ Runs(Main)
    /\ pc = "notify"
    /\ pc' = "post"
    /\ notified' = TRUE
    /\ UNCHANGED <<threadVars, hasError, fileVars, dataVars, buf, queueVars, writerVars, hash,
                   child, ignored, parent>>

\* show_stats, and the end of link.
Finish ==
    /\ Runs(Main)
    /\ pc = "post"
    /\ child' = "exit0"
    /\ UNCHANGED <<pc, threadVars, hasError, fileVars, dataVars, buf, queueVars, writerVars,
                   hash, notified, ignored, parent>>

-----------------------------------------------------------------------------
(* The writer threads.                                                     *)

\* Faulty variant: polls the channel and never sees that it was closed.
Receive_Poll(w) ==
    /\ child = "run"
    /\ writer[w] = "recv"
    /\ pc # "link" /\ pc # "setlen"
    /\ IF channel # <<>>
         THEN /\ job' = [job EXCEPT ![w] = Head(channel)]
              /\ channel' = Tail(channel)
              /\ writer' = [writer EXCEPT ![w] = "write"]
         ELSE UNCHANGED <<job, channel, writer>>
    /\ UNCHANGED <<pc, threadVars, hasError, fileVars, dataVars, buf, queued, edges, txOpen,
                   hash, procVars>>

\* A writer takes a block, under the lock it holds while it waits for one,
\* or ends once the channel is empty and the sender gone.
Receive(w) ==
    /\ child = "run"
    /\ writer[w] = "recv"
    /\ pc # "link" /\ pc # "setlen"
    /\ \/ /\ channel # <<>>
          /\ job' = [job EXCEPT ![w] = Head(channel)]
          /\ channel' = Tail(channel)
          /\ writer' = [writer EXCEPT ![w] = "write"]
       \/ /\ channel = <<>> /\ ~txOpen
          /\ writer' = [writer EXCEPT ![w] = "ok"]
          /\ UNCHANGED <<job, channel>>
    /\ UNCHANGED <<pc, threadVars, hasError, fileVars, dataVars, buf, queued, edges, txOpen,
                   hash, procVars>>

\* What w writes next of its block: up to the end of the page.
Chunk(w) == Span(job[w][1], Least(job[w][2], RoundUp(job[w][1] + 1) - job[w][1]))

\* The kernel prepares the page: a page it covers only in part, and that
\* is not in the file cache yet, is to be zero-filled around the write.
WriteStart(w) ==
    /\ child = "run"
    /\ writer[w] = "write"
    /\ writer' = [writer EXCEPT ![w] =
                    IF ZeroFilled(PageOf(job[w][1]), Chunk(w)) = {} THEN "copy" ELSE "fill"]
    /\ UNCHANGED <<pc, threadVars, hasError, fileVars, dataVars, buf, queueVars, job, hash,
                   procVars>>

\* The kernel copies the bytes into the page; the writer goes on with the
\* rest of the block, or with the next one.
WriteEnd(w) ==
    /\ child = "run"
    /\ writer[w] \in {"copy", "fill"}
    /\ LET us == Chunk(w)
           p == PageOf(job[w][1])
           zeroed == IF writer[w] = "fill" THEN UnitsOf(p) \ us ELSE {}
           rest == <<job[w][1] + Cardinality(us), job[w][2] - Cardinality(us)>>
       IN  /\ file' = [u \in Units |->
                         IF u \in us THEN buf[u] ELSE IF u \in zeroed THEN 0 ELSE file[u]]
           /\ cached' = cached \cup {p}
           /\ job' = [job EXCEPT ![w] = IF rest[2] = 0 THEN NoJob ELSE rest]
           /\ writer' = [writer EXCEPT ![w] = IF rest[2] = 0 THEN "recv" ELSE "write"]
    /\ UNCHANGED <<pc, threadVars, hasError, fileVars, buf, queueVars, hash, procVars>>

\* write_all_at fails, and with it the writer.
WriteFails(w) ==
    /\ child = "run"
    /\ writer[w] = "write"
    /\ writer' = [writer EXCEPT ![w] = "err"]
    /\ job' = [job EXCEPT ![w] = NoJob]
    /\ UNCHANGED <<pc, threadVars, hasError, fileVars, dataVars, buf, queueVars, hash, procVars>>

-----------------------------------------------------------------------------
(* The parent process, subprocess::fork_child.                             *)

\* read_exact gets the byte.
ReadByte ==
    /\ parent = "wait"
    /\ notified
    /\ parent' = "exit0"
    /\ UNCHANGED <<pc, threadVars, hasError, fileVars, dataVars, buf, queueVars, writerVars,
                   hash, child, notified, ignored>>

\* The pipe ends without a byte: the parent ends as the child did.  With
\* SIGCHLD ignored the status may be lost, and a failure is reported.
WaitPid ==
    /\ parent = "wait"
    /\ ~notified
    /\ child # "run"
    /\ parent' \in {child} \cup (IF ignored THEN {"exit1"} ELSE {})
    /\ UNCHANGED <<pc, threadVars, hasError, fileVars, dataVars, buf, queueVars, writerVars,
                   hash, child, notified, ignored>>

\* Both processes have ended.
Ended == child # "run" /\ parent # "wait" /\ UNCHANGED vars

MainSteps ==
    \/ LinkFails \/ OpenFails \/ Open \/ SetLen \/ JoinTasks \/ Checkpoint
    \/ CheckpointFails \/ WriteFixups \/ QueueBody \/ CopySymtab \/ QueueSymtab
    \/ WriteMachHeader \/ ComputeUuid \/ QueueHeader \/ WriteCodeSignature
    \/ QueueSignature \/ WriteTraceFiles \/ DropSender \/ JoinWriters \/ WriteEdge
    \/ ForgetPath \/ NotifyParent \/ Finish
TaskSteps == \E t \in Tasks : CopyBuf(t) \/ TaskDies(t)
DyingSteps == \E t \in Threads : CleanupSwap(t) \/ CleanupUnlink(t) \/ Die(t)
WriterSteps(w) == Receive(w) \/ WriteStart(w) \/ WriteEnd(w) \/ WriteFails(w)
ParentSteps == ReadByte \/ WaitPid

Next ==
    \/ MainSteps
    \/ MainCrashes
    \/ TaskSteps
    \/ DyingSteps
    \/ \E w \in Writers : WriterSteps(w)
    \/ ParentSteps
    \/ Ended

\* The operating system runs every thread; pwrite returns.
Spec ==
    /\ Init
    /\ [][Next]_vars
    /\ WF_vars(MainSteps)
    /\ \A t \in Tasks : WF_vars(CopyBuf(t) \/ TaskDies(t))
    /\ WF_vars(DyingSteps)
    /\ \A w \in Writers : WF_vars(WriterSteps(w))
    /\ WF_vars(ParentSteps)

-----------------------------------------------------------------------------
\* The variables keep their types: no block is larger than BLOCK, and no part
\* kept for close() is larger than a page.
TypeOK ==
    /\ pc \in {"link", "setlen", "copy", "check1", "fixups", "queueBody", "symtab",
               "queueSymtab", "header", "uuid", "queueHeader", "sign", "queueSig", "check2",
               "traces", "check3", "close", "join", "edges", "notify", "post"}
    /\ task \in [Tasks -> {"run", "done"}]
    /\ dying \in [Threads -> {"no", "cleanup", "unlink", "die"}]
    /\ how \in [Threads -> {"signal", "exit", "panic"}]
    /\ hasError \in BOOLEAN /\ registered \in BOOLEAN /\ created \in BOOLEAN
    /\ disk \in {"absent", "old", "kept", "device", "ours"}
    /\ file \in [Units -> 0..2] /\ buf \in [Units -> 0..2]
    /\ cached \subseteq Pages
    /\ queued \subseteq Units
    /\ edges \in Seq(Units \X (1..Page)) /\ channel \in Seq(Units \X (1..Block))
    /\ txOpen \in BOOLEAN
    /\ writer \in [Writers -> {"recv", "write", "copy", "fill", "ok", "err"}]
    /\ job \in [Writers -> Units \X (0..Block)]
    /\ child \in {"run", "exit0", "exit1", "signal", "abort"}
    /\ notified \in BOOLEAN /\ ignored \in BOOLEAN
    /\ parent \in {"wait", "exit0", "exit1", "signal", "abort"}

\* The buffer after every pass: two write the header (the header, then the
\* UUID), two the body (the copy, then the fixups), one the rest.
Final == [u \in Units |-> IF u < SymtabStart THEN 2 ELSE 1]

\* The file holds the finished image and the signature's hashes are those
\* of the pages in the file.
Complete ==
    /\ file = Final
    /\ \A p \in Pages : hash[p] = PageContents(file, p)

\* The parent reports success only if the whole image is at the output
\* path, with hashes that match it: no queued byte was lost to a failed
\* writer or to the zero-fill of a page two writes share, and a late
\* crash removed nothing (OutputFile::queue and close, notify_parent,
\* fork_child, compute_uuid).
SuccessMeansComplete ==
    parent = "exit0" => disk \in {"ours", "kept", "device"} /\ Complete

\* A link that ends, however it does, leaves a complete output or none
\* (output_file::cleanup from fatal, checkpoint, the signal handler and
\* the panic hook).
NoPartialOutput ==
    created /\ child # "run" => disk = "absent" \/ Complete

\* The invariant SharedBuf's unsafe code states: a range is queued only
\* once nothing will write it again, so a writer's read of the buffer
\* never overlaps a write.
QueuedStaysFinal ==
    [][\A u \in queued : buf'[u] = buf[u]]_vars

\* The parent ends: no writer, join or wait blocks for good.
ParentAnswers == <>(parent # "wait")
=============================================================================
