----------------------------- MODULE DeadStrip -----------------------------
(***************************************************************************)
(* Dead stripping, macho/dead_strip.rs: the subsections that the roots     *)
(* reach are marked by rayon tasks that share the subsections' visited     *)
(* bits, live-support subsections are added in input order, the rest is    *)
(* swept and the symbols that live code uses are found again.              *)
(*                                                                         *)
(* A link with bitcode walks twice: before LTO, for the symbols that       *)
(* native code refers to (native_refs_before_lto), and to strip; between   *)
(* the two, LTO's output joins, so the walks see different graphs.         *)
(*                                                                         *)
(* A step of a task is one edge: visit() is an atomic fetch-or.  A         *)
(* subsection's edges are relocations, LSDAs and personality routines      *)
(* alike, as for_each_edge makes no difference.                            *)
(***************************************************************************)
EXTENDS Integers, Sequences, FiniteSets

CONSTANTS
    Isec,         \* subsections
    Sym,          \* symbols
    Task,         \* names for the rayon tasks that run at a time
    GCBatch,      \* GC_BATCH: sections handed to a task at a time
    InlineDepth,  \* levels visit_section recurses before it queues (3)
    StripGraphs,  \* what the walk that strips may see in a link without bitcode
    LtoLinks      \* what the walks of a link with bitcode may see, before and after LTO

\* What a walk sees.
IsGraph(h) ==
    /\ h.target \in [Isec -> SUBSET Isec]     \* for_each_edge
    /\ h.redirect \in [Isec -> Isec]          \* what merged copies became
    /\ h.inLink \in SUBSET Isec               \* alive when the walk begins
    /\ h.kept \in SUBSET Isec                 \* should_keep
    /\ h.inits \in SUBSET Isec                \* the initializers of __init_offsets
    /\ h.symRoots \in SUBSET Isec             \* define a no-dead-strip symbol or an export
    /\ h.undefines \in SUBSET Isec            \* define an initial undefine
    /\ h.bitcode \in SUBSET Isec              \* what a live bitcode module refers to
    /\ h.support \in Seq(Isec)                \* S_ATTR_LIVE_SUPPORT, in input order
    /\ h.names \in [Isec -> SUBSET Sym]       \* the symbols a subsection refers to
    /\ h.defined \in SUBSET Sym               \* what live bitcode, or LTO's output, defines
    /\ h.pinned \in SUBSET Sym                \* used whatever refers to them
    /\ h.whyLive \in BOOLEAN                  \* -why_live: walk serially

ASSUME GraphAssumption ==
    /\ \A h \in StripGraphs : IsGraph(h)
    /\ \A l \in LtoLinks : IsGraph(l[1]) /\ IsGraph(l[2])
    /\ GCBatch \in Nat \ {0} /\ InlineDepth \in Nat
    /\ {"dead", "root"} \cap Isec = {}

\* What a walk starts from, but for what bitcode refers to before LTO.
Roots(h) == (h.kept \cap h.inLink) \cup h.inits \cup (h.symRoots \cap h.inLink) \cup h.undefines

\* The subsections that i refers to, through redirects.
TargetsOf(h, i) == {h.redirect[x] : x \in h.target[i]}

(***************************************************************************)
(* LTO turns h, which the walk before it sees, into k.  Between the walks  *)
(* literals, Objective-C references and weak copies are merged as well,    *)
(* native ones with each other and with those of LTO's output.  A copy is  *)
(* Alike the one that replaces it if that refers to no more: literals and  *)
(* references always are, weak copies need not be.                         *)
(***************************************************************************)
Added(h, k) == k.inLink \ h.inLink
Alike(h, k, i) ==
    LET r == k.redirect[i]
    IN  /\ TargetsOf(k, r) \subseteq TargetsOf(k, i)
        /\ h.names[r] \cap h.defined \subseteq h.names[i] \cup k.defined

\* What became of the subsections T.
Became(h, k, T) == {k.redirect[i] : i \in {j \in T : Alike(h, k, j)}}

(***************************************************************************)
(* LTO brings the subsections X into the link: its output, what it was     *)
(* merged with, and archive members that only it refers to.  They refer to *)
(* each other and to what the bitcode referred to, and native code to them *)
(* and to what it referred to before.  LTO's own live support comes last.  *)
(* Live support that was there before refers to none of X, nor to anything *)
(* that became what others did too: what it refers to was as dead before.  *)
(***************************************************************************)
LtoBrings(h, k, X) ==
    /\ \A i \in Isec : h.redirect[i] = i
    /\ Added(h, k) \cup {k.redirect[i] : i \in Added(h, k)} \subseteq X
    /\ {k.redirect[i] : i \in Roots(k)} \subseteq X \cup Became(h, k, Roots(h) \cup h.bitcode)
    /\ \A i \in Isec \ Added(h, k) : TargetsOf(k, i) \subseteq X \cup Became(h, k, h.target[i])
    /\ \A i \in X : TargetsOf(k, i) \subseteq X \cup Became(h, k, h.bitcode)
    /\ \A i \in X \ Added(h, k) : h.names[i] \cap h.defined \subseteq k.defined
    /\ Len(h.support) <= Len(k.support)
    /\ \A n \in DOMAIN h.support :
          /\ k.support[n] = h.support[n] /\ h.support[n] \notin Added(h, k)
          /\ k.redirect[h.support[n]] \in X \cup Became(h, k, {h.support[n]})
          /\ TargetsOf(k, h.support[n]) \cap X = {}
          /\ \A i \in Isec : k.redirect[i] \in TargetsOf(k, h.support[n]) => i \in h.target[h.support[n]]
    /\ \A n \in Len(h.support) + 1..Len(k.support) : k.support[n] \in Added(h, k)
LtoAdds(h, k) == \E X \in SUBSET Isec : LtoBrings(h, k, X)

VARIABLES
    g,          \* the graph of this walk
    before,     \* the graph of the walk before LTO (g itself if there is none)
    pass,       \* "lto" or "strip"
    pc,
    visited,    \* the subsections with the visited bit
    alive,      \* the subsections with the alive bit
    rootsLeft,  \* the roots no task has taken yet
    tasks,      \* the running tasks
    queue,      \* the serial walk's queue
    cursor,     \* the next live-support subsection
    why,        \* why[i]: what made i live
    refs,       \* native_refs_before_lto's result
    used        \* the symbols with the used flag

vars == <<g, before, pass, pc, visited, alive, rootsLeft, tasks, queue, cursor, why, refs, used>>

Levels == 0..InlineDepth
NoLevel == -1

\* A task: the batch it was given, the targets left to follow at each level
\* of visit_section's recursion, the level it is at, and `next`.
NewTask(on, batch) ==
    [on |-> on, batch |-> batch, left |-> [k \in Levels |-> {}], level |-> NoLevel, next |-> {}]
Idle == NewTask(FALSE, {})
Running(batch) == NewTask(TRUE, batch)

Init ==
    /\ \/ pass = "lto" /\ \E l \in LtoLinks : g = l[1]
       \/ pass = "strip" /\ g \in StripGraphs
    /\ before = g
    /\ pc = "roots"
    /\ visited = {}
    /\ alive = g.inLink
    /\ rootsLeft = {}
    /\ tasks = [t \in Task |-> Idle]
    /\ queue = {}
    /\ cursor = 1
    /\ why = [i \in Isec |-> "dead"]
    /\ refs = {}
    /\ used = {}

-----------------------------------------------------------------------------
Targets(i) == TargetsOf(g, i)

\* The roots of the walk.
RootSections == Roots(g) \cup IF pass = "lto" THEN g.bitcode ELSE {}
Seeds == {g.redirect[i] : i \in RootSections}

Serial == pass = "strip" /\ g.whyLive

\* collect_root_set.
CollectRootSet ==
    /\ pc = "roots"
    /\ LET new == Seeds \ visited
       IN  /\ visited' = visited \cup new
           /\ why' = [i \in Isec |-> IF i \in new THEN "root" ELSE why[i]]
           /\ rootsLeft' = IF Serial THEN {} ELSE new
           /\ queue' = IF Serial THEN new ELSE {}
    /\ pc' = IF Serial THEN "walk" ELSE "mark"
    /\ UNCHANGED <<g, before, pass, alive, tasks, cursor, refs, used>>

-----------------------------------------------------------------------------
(***************************************************************************)
(* mark: the tasks.                                                        *)
(***************************************************************************)

\* A task is started for a batch.
Spawn(ts, u, batch) == [ts EXCEPT ![u] = Running(batch)]
Free == {t \in Task : ~tasks[t].on}

\* mark hands a chunk of the roots out.
StartChunk(u, chunk) ==
    /\ pc = "mark" /\ u \in Free
    /\ chunk # {}
    /\ Cardinality(chunk) \in {GCBatch, Cardinality(rootsLeft) % GCBatch}
    /\ rootsLeft' = rootsLeft \ chunk
    /\ tasks' = Spawn(tasks, u, chunk)
    /\ UNCHANGED <<g, before, pass, pc, visited, alive, queue, cursor, why, refs, used>>

AtBatch(t) == tasks[t].on /\ tasks[t].level = NoLevel

\* visit_batch's loop: the next subsection of the batch.
Take(t, i) ==
    /\ pc = "mark" /\ AtBatch(t) /\ Cardinality(tasks[t].next) < GCBatch
    /\ i \in tasks[t].batch
    /\ tasks' = [tasks EXCEPT ![t].batch = @ \ {i}, ![t].level = 0, ![t].left[0] = g.target[i]]
    /\ UNCHANGED <<g, before, pass, pc, visited, alive, rootsLeft, queue, cursor, why, refs, used>>

\* Faulty variant: the visited bit is not looked at, so cycles never end.
Edge_NoVisit(t, x) ==
    /\ pc = "mark" /\ tasks[t].level \in Levels
    /\ LET k == tasks[t].level
           y == g.redirect[x]
           rest == tasks[t].left[k] \ {x}
       IN  /\ x \in tasks[t].left[k]
           /\ visited' = visited \cup {y}
           /\ tasks' = [tasks EXCEPT ![t].left[k] = rest, ![t].next = @ \cup {y}]
    /\ UNCHANGED <<g, before, pass, pc, alive, rootsLeft, queue, cursor, why, refs, used>>

\* visit_section: one target at the current level.
Edge(t, x) ==
    /\ pc = "mark" /\ tasks[t].level \in Levels
    /\ LET k == tasks[t].level
           y == g.redirect[x]
           rest == tasks[t].left[k] \ {x}
       IN  /\ x \in tasks[t].left[k]
           /\ \/ /\ y \in visited
                 /\ tasks' = [tasks EXCEPT ![t].left[k] = rest]
                 /\ UNCHANGED visited
              \/ /\ y \notin visited /\ k < InlineDepth
                 /\ visited' = visited \cup {y}
                 /\ tasks' = [tasks EXCEPT ![t].left[k] = rest, ![t].left[k + 1] = g.target[y],
                                           ![t].level = k + 1]
              \/ /\ y \notin visited /\ k >= InlineDepth
                 /\ visited' = visited \cup {y}
                 /\ tasks' = [tasks EXCEPT ![t].left[k] = rest, ![t].next = @ \cup {y}]
    /\ UNCHANGED <<g, before, pass, pc, alive, rootsLeft, queue, cursor, why, refs, used>>

\* visit_section returns.
Return(t) ==
    /\ pc = "mark" /\ tasks[t].level \in Levels
    /\ tasks[t].left[tasks[t].level] = {}
    /\ tasks' = [tasks EXCEPT ![t].level = @ - 1]
    /\ UNCHANGED <<g, before, pass, pc, visited, alive, rootsLeft, queue, cursor, why, refs, used>>

\* visit_batch's loop: enough was found for a task of its own.
Publish(t, u) ==
    /\ pc = "mark" /\ AtBatch(t) /\ u \in Free
    /\ Cardinality(tasks[t].next) >= GCBatch
    /\ tasks' = Spawn([tasks EXCEPT ![t].next = {}], u, tasks[t].next)
    /\ UNCHANGED <<g, before, pass, pc, visited, alive, rootsLeft, queue, cursor, why, refs, used>>

\* Faulty variant: what is left in `next` at the end of the batch is lost.
EndTask_LoseNext(t) ==
    /\ pc = "mark" /\ AtBatch(t) /\ tasks[t].batch = {}
    /\ tasks' = [tasks EXCEPT ![t] = Idle]
    /\ UNCHANGED <<g, before, pass, pc, visited, alive, rootsLeft, queue, cursor, why, refs, used>>

\* visit_batch ends, and what is left in `next` becomes a task.
EndTask(t) ==
    /\ pc = "mark" /\ AtBatch(t) /\ tasks[t].batch = {}
    /\ Cardinality(tasks[t].next) < GCBatch
    /\ tasks' = [tasks EXCEPT ![t] = IF tasks[t].next = {} THEN Idle ELSE Running(tasks[t].next)]
    /\ UNCHANGED <<g, before, pass, pc, visited, alive, rootsLeft, queue, cursor, why, refs, used>>

\* rayon::scope returns.
EndMark ==
    /\ pc = "mark" /\ rootsLeft = {} /\ Free = Task
    /\ pc' = "support"
    /\ UNCHANGED <<g, before, pass, visited, alive, rootsLeft, tasks, queue, cursor, why, refs, used>>

-----------------------------------------------------------------------------
(***************************************************************************)
(* The serial parts.                                                       *)
(***************************************************************************)

\* Faulty variant: every target's reason is overwritten, not only that of
\* the targets the walk reaches first.
Walk_AllReasons(i) ==
    /\ pc \in {"walk", "support"} /\ i \in queue
    /\ LET new == Targets(i) \ visited
       IN  /\ visited' = visited \cup new
           /\ queue' = (queue \ {i}) \cup new
           /\ why' = [j \in Isec |-> IF j \in Targets(i) THEN i ELSE why[j]]
    /\ UNCHANGED <<g, before, pass, pc, alive, rootsLeft, tasks, cursor, refs, used>>

\* walk: one subsection of the queue, the code's first.
Walk(i) ==
    /\ pc \in {"walk", "support"} /\ i \in queue
    /\ LET new == Targets(i) \ visited
       IN  /\ visited' = visited \cup new
           /\ queue' = (queue \ {i}) \cup new
           /\ why' = [j \in Isec |-> IF j \in new THEN i ELSE why[j]]
    /\ UNCHANGED <<g, before, pass, pc, alive, rootsLeft, tasks, cursor, refs, used>>

EndWalk ==
    /\ pc = "walk" /\ queue = {}
    /\ pc' = "support"
    /\ UNCHANGED <<g, before, pass, visited, alive, rootsLeft, tasks, queue, cursor, why, refs, used>>

\* Faulty variant: a live-support subsection is kept whatever it refers to.
MarkLiveSupport_Always ==
    /\ pc = "support" /\ queue = {} /\ cursor <= Len(g.support)
    /\ LET j == g.redirect[g.support[cursor]]
       IN  /\ visited' = visited \cup {j}
           /\ queue' = {j} \ visited
           /\ why' = [why EXCEPT ![j] = "root"]
    /\ cursor' = cursor + 1
    /\ UNCHANGED <<g, before, pass, pc, alive, rootsLeft, tasks, refs, used>>

\* Faulty variant: what a live-support subsection refers to is not walked.
MarkLiveSupport_NoWalk ==
    /\ pc = "support" /\ queue = {} /\ cursor <= Len(g.support)
    /\ LET i == g.support[cursor]
           new == IF i \in alive /\ Targets(i) \cap visited # {} THEN {g.redirect[i]} \ visited
                  ELSE {}
       IN  /\ visited' = visited \cup new
           /\ why' = [j \in Isec |-> IF j \in new THEN "root" ELSE why[j]]
    /\ cursor' = cursor + 1
    /\ UNCHANGED <<g, before, pass, pc, alive, rootsLeft, tasks, queue, refs, used>>

\* mark_live_support: the next live-support subsection of the link.
MarkLiveSupport ==
    /\ pc = "support" /\ queue = {} /\ cursor <= Len(g.support)
    /\ LET i == g.support[cursor]
           j == g.redirect[i]
       IN  \/ /\ i \in alive /\ Targets(i) \cap visited # {} /\ j \notin visited
              /\ visited' = visited \cup {j}
              /\ queue' = {j}
              /\ why' = [why EXCEPT ![j] = "root"]
           \/ /\ ~(i \in alive /\ Targets(i) \cap visited # {} /\ j \notin visited)
              /\ UNCHANGED <<visited, queue, why>>
    /\ cursor' = cursor + 1
    /\ UNCHANGED <<g, before, pass, pc, alive, rootsLeft, tasks, refs, used>>

SupportDone == pc = "support" /\ queue = {} /\ cursor > Len(g.support)

\* native_refs_before_lto, its end; then LTO makes another graph.
UnmarkVisited ==
    /\ SupportDone /\ pass = "lto"
    /\ refs' = UNION {g.names[i] : i \in visited}
    /\ visited' = {}
    /\ pass' = "strip"
    /\ \E l \in LtoLinks : g = l[1] /\ g' = l[2]
    /\ before' = g
    /\ alive' = g'.inLink
    /\ cursor' = 1
    /\ why' = [i \in Isec |-> "dead"]
    /\ pc' = "roots"
    /\ UNCHANGED <<rootsLeft, tasks, queue, used>>

\* sweep.
Sweep ==
    /\ SupportDone /\ pass = "strip"
    /\ alive' = alive \cap visited
    /\ visited' = {}
    /\ pc' = "swept"
    /\ UNCHANGED <<g, before, pass, rootsLeft, tasks, queue, cursor, why, refs, used>>

\* mark_live_references: alive subsections that no copy replaces.
MarkLiveReferences ==
    /\ pc = "swept"
    /\ used' = g.pinned \cup UNION {g.names[i] : i \in {j \in alive : g.redirect[j] = j}}
    /\ pc' = "done"
    /\ UNCHANGED <<g, before, pass, visited, alive, rootsLeft, tasks, queue, cursor, why, refs>>

Next ==
    \/ CollectRootSet
    \/ \E u \in Task, chunk \in SUBSET rootsLeft : StartChunk(u, chunk)
    \/ \E t \in Task, i \in Isec : Take(t, i) \/ Edge(t, i)
    \/ \E t \in Task : Return(t) \/ EndTask(t)
    \/ \E t, u \in Task : Publish(t, u)
    \/ EndMark
    \/ \E i \in Isec : Walk(i)
    \/ EndWalk
    \/ MarkLiveSupport
    \/ UnmarkVisited
    \/ Sweep
    \/ MarkLiveReferences

\* The threads that have work do some of it.
Spec == Init /\ [][Next]_vars /\ WF_vars(Next)

-----------------------------------------------------------------------------
(***************************************************************************)
(* Properties.                                                             *)
(***************************************************************************)
TaskType == [on : BOOLEAN, batch : SUBSET Isec, left : [Levels -> SUBSET Isec],
             level : Levels \cup {NoLevel}, next : SUBSET Isec]

\* The variables keep their types.
TypeOK ==
    /\ IsGraph(g) /\ IsGraph(before) /\ pass \in {"lto", "strip"}
    /\ pc \in {"roots", "mark", "walk", "support", "swept", "done"}
    /\ visited \in SUBSET Isec /\ alive \in SUBSET Isec
    /\ rootsLeft \in SUBSET Isec /\ queue \in SUBSET Isec
    /\ tasks \in [Task -> TaskType]
    /\ cursor \in Nat \ {0}
    /\ why \in [Isec -> Isec \cup {"dead", "root"}]
    /\ refs \in SUBSET Sym /\ used \in SUBSET Sym

\* A set of subsections that refers to nothing outside itself.
Closed(S) == \A i \in S : Targets(i) \subseteq S

\* When the tasks are done, however they interleaved and wherever the
\* batches and the recursion were cut, exactly what the roots reach is
\* marked: the least closed set with the roots.
MarkIsExact ==
    pc = "support" /\ cursor = 1 /\ queue = {} =>
        /\ Seeds \subseteq visited
        /\ Closed(visited)
        /\ \A C \in SUBSET Isec : Seeds \subseteq C /\ Closed(C) => visited \subseteq C

\* What stays in the output refers to nothing that was swept, and neither do
\* the roots.
NoDanglingReference ==
    pc \in {"swept", "done"} =>
        /\ Seeds \cap g.inLink \subseteq alive
        /\ \A i \in alive : Targets(i) \cap g.inLink \subseteq alive

\* A set that a live-support subsection is in if it refers to it.
SupportClosed(C) ==
    \A n \in DOMAIN g.support :
        Targets(g.support[n]) \cap C # {} => g.redirect[g.support[n]] \in C

\* A subsection survives only if the roots need it, or live-support
\* subsections that refer to something that does: dead code that refers to
\* itself in a circle does not keep itself.
OnlyNeededSurvives ==
    pc \in {"swept", "done"} =>
        \A C \in SUBSET Isec :
            Seeds \subseteq C /\ Closed(C) /\ SupportClosed(C) => alive \subseteq C

\* A walk starts with no visited bit set: one left by the walk before LTO
\* would keep a root from being walked.
BitsClean == pc \in {"roots", "swept", "done"} => visited = {}

\* A set that a subsection is in if its reason is a root, or in the set: the
\* least one has those whose chain of reasons ends at a root.
Reasoned(C) == \A j \in Isec : why[j] \in C \cup {"root"} => j \in C

\* The chain of reasons that -why_live prints for a live subsection ends at a
\* root (print_why_live follows it without looking for circles).
WhyChainsEnd ==
    Serial /\ pc \in {"swept", "done"} =>
        \A C \in SUBSET Isec : Reasoned(C) => alive \subseteq C

\* No symbol of the bitcode is lost that native code in the output uses:
\* what survives of the objects that were there before LTO refers to none
\* that the walk before LTO missed, unless LTO's output defines it anyway.
LtoPreservesUsed ==
    pc = "done" /\ before # g =>
        \A i \in alive \cap before.inLink :
            before.names[i] \cap before.defined \subseteq refs \cup g.defined

\* Whoever else goes by the walks' results can: LTO loses no symbol that
\* native code in the output uses, whatever is merged between the walks, and
\* the reasons that -why_live prints lead to a root (native_refs_before_lto,
\* print_why_live).
ResultsAreUsable == LtoPreservesUsed /\ WhyChainsEnd

\* Stripping comes to an end.
Ends == <>(pc = "done")

-----------------------------------------------------------------------------
(***************************************************************************)
(* The inductive invariant.                                                *)
(***************************************************************************)
Marking == pc \in {"mark", "walk", "support"}

\* A marked subsection that nobody has begun to walk.
IsPending(i) ==
    i \in rootsLeft \/ i \in queue \/ \E t \in Task : i \in tasks[t].batch \/ i \in tasks[t].next

\* An edge that some task has read and not yet followed.
IsLeft(x) == \E t \in Task, k \in Levels : x \in tasks[t].left[k]

\* Outside its phase, a work list is empty; walks start with clean bits and
\* the alive bits are only touched by the sweep.
Phases ==
    /\ pc # "mark" => rootsLeft = {} /\ \A t \in Task : tasks[t] = Idle
    /\ pc \notin {"walk", "support"} => queue = {}
    /\ pc = "support" /\ cursor = 1 => queue = {}
    /\ BitsClean
    /\ pc \notin {"swept", "done"} => alive = g.inLink

TaskOK ==
    \A t \in Task :
        /\ ~tasks[t].on => tasks[t] = Idle
        /\ \A k \in Levels : k > tasks[t].level => tasks[t].left[k] = {}

\* Work lists hold marked subsections, and edges of marked subsections.
WorkIsMarked ==
    /\ \A i \in Isec : IsPending(i) => i \in visited
    /\ \A x \in Isec : IsLeft(x) => \E i \in visited : x \in g.target[i]

\* What is marked is pending, or each of its edges was followed or is still
\* on some task's list.
NothingLost ==
    \A i \in visited :
        IsPending(i) \/ \A x \in g.target[i] : g.redirect[x] \in visited \/ IsLeft(x)

\* Nothing is marked that the roots do not need.
NothingExtra ==
    \A C \in SUBSET Isec :
        Marking /\ Seeds \subseteq C /\ Closed(C) /\ (SupportClosed(C) \/ pc # "support" \/ cursor = 1)
            => visited \subseteq C

\* What every step of stripping preserves.
IInv ==
    /\ TypeOK /\ Phases /\ TaskOK /\ WorkIsMarked /\ NothingLost
    /\ Marking => Seeds \subseteq visited
    /\ NothingExtra /\ NoDanglingReference /\ OnlyNeededSurvives
=============================================================================
