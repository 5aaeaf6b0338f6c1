--------------------------- MODULE DeadStripProofs ---------------------------
(***************************************************************************)
(* Proofs about DeadStrip: however many tasks mark, and wherever batches   *)
(* and recursion are cut, the marked set is the least closed set with the  *)
(* roots; what is left after the sweep refers to nothing swept and is      *)
(* needed; both walks of a link find the visited bits clean, and the first *)
(* marks what the second keeps; and -why_live's chains end at a root.      *)
(***************************************************************************)
EXTENDS DeadStrip, TLAPS

\* What the proofs use of a graph.
LEMMA GraphFacts ==
    ASSUME TypeOK
    PROVE  /\ g.target \in [Isec -> SUBSET Isec] /\ g.redirect \in [Isec -> Isec]
           /\ g.inLink \in SUBSET Isec /\ g.support \in Seq(Isec)
           /\ g.names \in [Isec -> SUBSET Sym] /\ g.pinned \in SUBSET Sym
           /\ RootSections \in SUBSET Isec /\ Seeds \in SUBSET Isec
           /\ \A i \in Isec : Targets(i) \in SUBSET Isec
<1>1. RootSections \in SUBSET Isec
  BY DEF TypeOK, IsGraph, RootSections, Roots
<1>2. Seeds \in SUBSET Isec
  BY <1>1 DEF TypeOK, IsGraph, Seeds
<1> QED
  BY <1>1, <1>2 DEF TypeOK, IsGraph, Targets, TargetsOf

\* A task of no work, and a task with a batch.
LEMMA TaskFacts ==
    /\ Idle \in TaskType
    /\ \A b \in SUBSET Isec : Running(b) \in TaskType
    /\ ~Idle.on /\ Idle.batch = {} /\ Idle.next = {} /\ Idle.level = NoLevel
    /\ \A k \in Levels : Idle.left[k] = {}
    /\ \A b : /\ Running(b).on /\ Running(b).batch = b /\ Running(b).next = {}
              /\ Running(b).level = NoLevel /\ Running(b).left = Idle.left
<1>1. Idle = [on |-> FALSE, batch |-> {}, left |-> [k \in Levels |-> {}], level |-> NoLevel,
              next |-> {}]
  BY DEF Idle, NewTask
<1>2. \A b : Running(b) = [on |-> TRUE, batch |-> b, left |-> [k \in Levels |-> {}],
                           level |-> NoLevel, next |-> {}]
  BY DEF NewTask, Running
<1>3. Idle \in TaskType
  BY <1>1 DEF TaskType
<1>4. \A b \in SUBSET Isec : Running(b) \in TaskType
  BY <1>2 DEF TaskType
<1>5. /\ ~Idle.on /\ Idle.batch = {} /\ Idle.next = {} /\ Idle.level = NoLevel
      /\ Idle.left = [k \in Levels |-> {}]
  BY <1>1
<1>6. \A b : /\ Running(b).on /\ Running(b).batch = b /\ Running(b).next = {}
             /\ Running(b).level = NoLevel /\ Running(b).left = [k \in Levels |-> {}]
  BY <1>2
<1> QED
  BY <1>3, <1>4, <1>5, <1>6

\* The levels of visit_section's recursion are numbers.
LEMMA LevelFacts ==
    /\ InlineDepth \in Nat /\ 0 \in Levels /\ NoLevel \notin Levels /\ NoLevel \in Int
    /\ Levels \subseteq Nat
    /\ \A k \in Levels : k < InlineDepth => k + 1 \in Levels
    /\ \A k \in Levels : k - 1 \in Levels \cup {NoLevel}
BY GraphAssumption DEF Levels, NoLevel

\* Before the roots are collected, everything holds.
LEMMA InitInvariant == Init => IInv
<1> SUFFICES ASSUME Init PROVE IInv
  OBVIOUS
<1>1. IsGraph(g) /\ IsGraph(before)
  BY GraphAssumption DEF Init
<1>2. /\ pass \in {"lto", "strip"} /\ pc = "roots" /\ visited = {} /\ alive = g.inLink
      /\ rootsLeft = {} /\ tasks = [t \in Task |-> Idle] /\ queue = {} /\ cursor = 1
      /\ why = [i \in Isec |-> "dead"] /\ refs = {} /\ used = {}
  BY DEF Init
<1>3. TypeOK
  BY <1>1, <1>2, TaskFacts DEF TypeOK, IsGraph
<1>4. Phases
  BY <1>2 DEF Phases, BitsClean
<1>5. TaskOK
  BY <1>2, TaskFacts DEF TaskOK
<1>6. WorkIsMarked
  BY <1>2, TaskFacts DEF WorkIsMarked, IsPending, IsLeft
<1> QED
  BY <1>2, <1>3, <1>4, <1>5, <1>6 DEF IInv, NothingLost, NothingExtra, Marking,
      NoDanglingReference, OnlyNeededSurvives

(***************************************************************************)
(* The steps of mark and walk: the graph stays, marks are only added, and  *)
(* each work list loses only what the step has dealt with.                 *)
(***************************************************************************)
MarkStep ==
    /\ Marking /\ pc' = pc /\ UNCHANGED <<g, before, pass, alive, refs, used, cursor>>
    /\ visited \subseteq visited'
    /\ \A i \in Isec : IsPending(i) =>
          IsPending(i)' \/ \A x \in g.target[i] : g.redirect[x] \in visited' \/ IsLeft(x)'
    /\ \A x \in Isec : IsLeft(x) => IsLeft(x)' \/ g.redirect[x] \in visited'
    /\ \A i \in visited' \ visited :
          /\ \E j \in visited : i \in Targets(j)
          /\ IsPending(i)' \/ \A x \in g.target[i] : g.redirect[x] \in visited' \/ IsLeft(x)'
    /\ \A i \in Isec : IsPending(i)' => i \in visited'
    /\ \A x \in Isec : IsLeft(x)' => IsLeft(x) \/ \E i \in visited' : x \in g.target[i]

\* Such a step keeps the invariant, given its types, phases and tasks.
LEMMA MarkStepKeeps ==
    ASSUME IInv, MarkStep, TypeOK', Phases', TaskOK'
    PROVE  IInv'
<1>0. TypeOK
  BY DEF IInv
<1>g. /\ g' = g /\ pass' = pass /\ pc' = pc /\ cursor' = cursor /\ alive' = alive
      /\ pc \in {"mark", "walk", "support"} /\ visited \subseteq visited'
  BY DEF MarkStep, Marking
<1>s. Seeds' = Seeds /\ \A i : Targets(i)' = Targets(i)
  BY <1>g DEF Seeds, RootSections, Roots, Targets, TargetsOf
<1>c. \A C : (Closed(C))' = Closed(C) /\ (SupportClosed(C))' = SupportClosed(C)
  BY <1>g, <1>s DEF Closed, SupportClosed
<1>1. WorkIsMarked'
  BY <1>g DEF IInv, WorkIsMarked, MarkStep
<1>2. NothingLost'
  <2> SUFFICES ASSUME NEW i \in visited'
               PROVE  IsPending(i)' \/ \A x \in g.target[i] : g.redirect[x] \in visited' \/ IsLeft(x)'
    BY <1>g DEF NothingLost
  <2>1. CASE i \in visited
    <3>1. i \in Isec /\ g.target[i] \subseteq Isec
      BY <2>1, <1>0, GraphFacts DEF TypeOK
    <3> QED
      BY <2>1, <3>1, <1>g DEF IInv, NothingLost, MarkStep
  <2>2. CASE i \notin visited
    BY <2>2 DEF MarkStep
  <2> QED
    BY <2>1, <2>2
<1>3. Marking' /\ Seeds' \subseteq visited'
  BY <1>g, <1>s DEF IInv, Marking
<1>4. NothingExtra'
  <2> SUFFICES ASSUME NEW C \in SUBSET Isec, Seeds \subseteq C, Closed(C),
                      SupportClosed(C) \/ pc # "support" \/ cursor = 1
               PROVE  visited' \subseteq C
    BY <1>g, <1>s, <1>c DEF NothingExtra
  <2>1. visited \subseteq C
    BY <1>g DEF IInv, NothingExtra, Marking
  <2> QED
    BY <2>1, <1>s DEF MarkStep, Closed
<1>5. NoDanglingReference' /\ OnlyNeededSurvives'
  BY <1>g DEF NoDanglingReference, OnlyNeededSurvives
<1> QED
  BY <1>1, <1>2, <1>3, <1>4, <1>5 DEF IInv

\* What a step of the tasks leaves alone.
LEMMA TaskStepTypes ==
    ASSUME IInv, pc = "mark", pc' = "mark", visited' \in SUBSET Isec, rootsLeft' \in SUBSET Isec,
           tasks' \in [Task -> TaskType],
           UNCHANGED <<g, before, pass, alive, queue, cursor, why, refs, used>>
    PROVE  TypeOK' /\ Phases'
<1>1. TypeOK'
  BY DEF IInv, TypeOK, IsGraph
<1>2. Phases'
  BY DEF IInv, Phases, BitsClean
<1> QED
  BY <1>1, <1>2

\* A task takes a subsection of its batch: its edges are on the task's list.
LEMMA TakeStep ==
    ASSUME IInv, NEW t \in Task, NEW i \in Isec, Take(t, i)
    PROVE  IInv'
<1> DEFINE old == tasks[t]
           new == tasks'[t]
<1>0. TypeOK /\ old \in TaskType /\ tasks \in [Task -> TaskType] /\ g.target[i] \in SUBSET Isec
  BY GraphFacts DEF IInv, TypeOK
<1>1. /\ pc = "mark" /\ old.on /\ old.level = NoLevel /\ i \in old.batch
      /\ tasks' = [tasks EXCEPT ![t].batch = @ \ {i}, ![t].level = 0, ![t].left[0] = g.target[i]]
      /\ UNCHANGED <<g, before, pass, pc, visited, alive, rootsLeft, queue, cursor, why, refs, used>>
  BY DEF Take, AtBatch
<1>2. /\ new \in TaskType /\ new.on = old.on /\ new.batch = old.batch \ {i}
      /\ new.next = old.next /\ new.level = 0 /\ new.left[0] = g.target[i]
      /\ \A k \in Levels : k # 0 => new.left[k] = old.left[k]
  BY <1>0, <1>1, LevelFacts DEF TaskType
<1>3. tasks' \in [Task -> TaskType] /\ \A u \in Task \ {t} : tasks'[u] = tasks[u]
  BY <1>0, <1>1, <1>2
<1> HIDE DEF new, old
<1>4. TypeOK' /\ Phases'
  BY <1>0, <1>1, <1>3, TaskStepTypes DEF TypeOK
<1>5. \A k \in Levels : old.left[k] = {}
  BY <1>1, LevelFacts DEF IInv, TaskOK, old, NoLevel
<1>6. TaskOK'
  BY <1>1, <1>2, <1>3, <1>5, LevelFacts DEF IInv, TaskOK, old
<1>7. \A j \in Isec : IsPending(j) => IsPending(j)' \/ j = i
  BY <1>1, <1>2, <1>3 DEF IsPending, old
<1>8. \A j \in Isec : IsPending(j)' => IsPending(j)
  BY <1>1, <1>2, <1>3 DEF IsPending, old
<1>9. \A x \in Isec : IsLeft(x) => IsLeft(x)'
  BY <1>1, <1>2, <1>3, <1>5 DEF IsLeft, old
<1>10. \A x \in g.target[i] : IsLeft(x)'
  BY <1>2, <1>3, LevelFacts DEF IsLeft, new
<1>11. \A x \in Isec : IsLeft(x)' => IsLeft(x) \/ x \in g.target[i]
  BY <1>2, <1>3, <1>5, LevelFacts DEF IsLeft, new, old
<1>12. i \in visited
  BY <1>1 DEF IInv, WorkIsMarked, IsPending, old
<1>13. MarkStep
  BY <1>1, <1>7, <1>8, <1>9, <1>10, <1>11, <1>12 DEF MarkStep, Marking, IInv, WorkIsMarked
<1> QED
  BY <1>4, <1>6, <1>13, MarkStepKeeps

\* A task follows an edge: what it marks it walks at once, or puts in `next`.
LEMMA EdgeStep ==
    ASSUME IInv, NEW t \in Task, NEW x \in Isec, Edge(t, x)
    PROVE  IInv'
<1> DEFINE old == tasks[t]
           new == tasks'[t]
           k == tasks[t].level
           y == g.redirect[x]
<1>0. /\ TypeOK /\ old \in TaskType /\ tasks \in [Task -> TaskType]
      /\ y \in Isec /\ g.target[y] \in SUBSET Isec /\ visited \in SUBSET Isec
      /\ rootsLeft \in SUBSET Isec
  BY GraphFacts DEF IInv, TypeOK
<1>1. /\ pc = "mark" /\ k \in Levels /\ x \in old.left[k]
      /\ UNCHANGED <<g, before, pass, pc, alive, rootsLeft, queue, cursor, why, refs, used>>
  BY DEF Edge
<1>2. PICK i \in visited : x \in g.target[i]
  <2>1. IsLeft(x)
    BY <1>1 DEF IsLeft
  <2> QED
    BY <2>1 DEF IInv, WorkIsMarked
<1>3. y \in Targets(i)
  BY <1>2 DEF Targets, TargetsOf
<1>4. old.on
  BY <1>1, TaskFacts, LevelFacts DEF IInv, TaskOK
<1>5. \A l \in Levels : l > k => old.left[l] = {}
  BY DEF IInv, TaskOK
<1>k. k \in Nat /\ (\A l \in Levels : l \in Nat) /\ InlineDepth \in Nat
  BY <1>1, LevelFacts
<1>6. CASE y \in visited
  <2>1. tasks' = [tasks EXCEPT ![t].left[k] = old.left[k] \ {x}] /\ visited' = visited
    BY <1>6 DEF Edge
  <2>2. /\ new \in TaskType /\ new.on = old.on /\ new.batch = old.batch /\ new.next = old.next
        /\ new.level = k /\ new.left[k] = old.left[k] \ {x}
        /\ \A l \in Levels : l # k => new.left[l] = old.left[l]
    BY <1>0, <1>1, <2>1 DEF TaskType
  <2>3. tasks' \in [Task -> TaskType] /\ \A u \in Task \ {t} : tasks'[u] = tasks[u]
    BY <1>0, <2>1, <2>2
  <2> HIDE DEF y
  <2>4. TypeOK' /\ Phases'
    BY <1>0, <1>1, <2>1, <2>3, TaskStepTypes
  <2>5. TaskOK'
    <3>1. new.on /\ \A l \in Levels : l > new.level => new.left[l] = {}
      BY <1>1, <1>4, <1>5, <1>k, <2>2
    <3> QED
      BY <2>3, <3>1 DEF IInv, TaskOK
  <2>6. \A j \in Isec : IsPending(j)' = IsPending(j)
    BY <1>1, <2>2, <2>3 DEF IsPending
  <2>7. \A z \in Isec : IsLeft(z) => IsLeft(z)' \/ z = x
    BY <1>1, <2>2, <2>3 DEF IsLeft
  <2>8. \A z \in Isec : IsLeft(z)' => IsLeft(z)
    BY <1>1, <2>2, <2>3 DEF IsLeft
  <2>9. MarkStep
    BY <1>1, <1>6, <2>1, <2>6, <2>7, <2>8 DEF MarkStep, Marking, IInv, WorkIsMarked, y
  <2> QED
    BY <2>4, <2>5, <2>9, MarkStepKeeps
<1>7. CASE y \notin visited /\ k < InlineDepth
  <2>1. /\ tasks' = [tasks EXCEPT ![t].left[k] = old.left[k] \ {x}, ![t].left[k + 1] = g.target[y],
                                  ![t].level = k + 1]
        /\ visited' = visited \cup {y} /\ k + 1 \in Levels /\ k + 1 # k
    <3>1. k + 1 \in Levels /\ k + 1 # k /\ ~(k >= InlineDepth)
      BY <1>1, <1>7, <1>k, LevelFacts
    <3> QED
      BY <1>7, <3>1 DEF Edge
  <2>2. /\ new \in TaskType /\ new.on = old.on /\ new.batch = old.batch /\ new.next = old.next
        /\ new.level = k + 1 /\ new.left[k] = old.left[k] \ {x} /\ new.left[k + 1] = g.target[y]
        /\ \A l \in Levels : l # k /\ l # k + 1 => new.left[l] = old.left[l]
    BY <1>0, <1>1, <2>1 DEF TaskType
  <2>3. tasks' \in [Task -> TaskType] /\ \A u \in Task \ {t} : tasks'[u] = tasks[u]
    BY <1>0, <2>1, <2>2
  <2>4. TypeOK' /\ Phases'
    BY <1>0, <1>1, <2>1, <2>3, TaskStepTypes
  <2> HIDE DEF y
  <2>5. old.left[k + 1] = {}
    BY <1>1, <1>5, <2>1, LevelFacts
  <2>6. TaskOK'
    <3>1. new.on /\ \A l \in Levels : l > new.level => new.left[l] = {}
      <4>1. \A l \in Levels : l > k + 1 => l > k /\ l # k /\ l # k + 1
        BY <1>k
      <4> QED
        BY <1>4, <1>5, <2>2, <4>1
    <3> QED
      BY <2>3, <3>1 DEF IInv, TaskOK
  <2>7. \A j \in Isec : IsPending(j)' = IsPending(j)
    BY <1>1, <2>2, <2>3 DEF IsPending
  <2>8. \A z \in Isec : IsLeft(z) => IsLeft(z)' \/ z = x
    BY <1>1, <2>2, <2>3, <2>5 DEF IsLeft
  <2>9. \A z \in g.target[y] : IsLeft(z)'
    BY <2>1, <2>2 DEF IsLeft
  <2>10. \A z \in Isec : IsLeft(z)' => IsLeft(z) \/ z \in g.target[y]
    BY <1>1, <2>1, <2>2, <2>3 DEF IsLeft
  <2>11. MarkStep
    <3>1. Marking /\ visited \subseteq visited' /\ y \in visited'
      BY <1>1, <2>1 DEF Marking
    <3>2. \A j \in Isec : IsPending(j)' => j \in visited'
      BY <2>7, <3>1 DEF IInv, WorkIsMarked
    <3>3. \A j \in visited' \ visited :
             /\ \E m \in visited : j \in Targets(m)
             /\ \A z \in g.target[j] : IsLeft(z)'
      BY <1>2, <1>3, <2>1, <2>9
    <3>4. \A z \in Isec : IsLeft(z) => IsLeft(z)' \/ g.redirect[z] \in visited'
      BY <2>8, <3>1 DEF y
    <3> QED
      BY <1>1, <2>7, <2>10, <3>1, <3>2, <3>3, <3>4 DEF MarkStep
  <2> QED
    BY <2>4, <2>6, <2>11, MarkStepKeeps
<1>8. CASE y \notin visited /\ k >= InlineDepth
  <2>1. /\ tasks' = [tasks EXCEPT ![t].left[k] = old.left[k] \ {x}, ![t].next = @ \cup {y}]
        /\ visited' = visited \cup {y}
    <3>1. ~(k < InlineDepth)
      BY <1>8, <1>k
    <3> QED
      BY <1>8, <3>1 DEF Edge
  <2>2. /\ new \in TaskType /\ new.on = old.on /\ new.batch = old.batch
        /\ new.next = old.next \cup {y}
        /\ new.level = k /\ new.left[k] = old.left[k] \ {x}
        /\ \A l \in Levels : l # k => new.left[l] = old.left[l]
    BY <1>0, <1>1, <2>1 DEF TaskType
  <2>3. tasks' \in [Task -> TaskType] /\ \A u \in Task \ {t} : tasks'[u] = tasks[u]
    BY <1>0, <2>1, <2>2
  <2>4. TypeOK' /\ Phases'
    BY <1>0, <1>1, <2>1, <2>3, TaskStepTypes
  <2> HIDE DEF y
  <2>5. TaskOK'
    <3>1. new.on /\ \A l \in Levels : l > new.level => new.left[l] = {}
      BY <1>1, <1>4, <1>5, <1>k, <2>2
    <3> QED
      BY <2>3, <3>1 DEF IInv, TaskOK
  <2>6. \A j \in Isec : IsPending(j)' <=> IsPending(j) \/ j = y
    BY <1>1, <2>2, <2>3 DEF IsPending
  <2>7. \A z \in Isec : IsLeft(z) => IsLeft(z)' \/ z = x
    BY <1>1, <2>2, <2>3 DEF IsLeft
  <2>8. \A z \in Isec : IsLeft(z)' => IsLeft(z)
    BY <1>1, <2>2, <2>3 DEF IsLeft
  <2>9. MarkStep
    <3>1. Marking /\ visited \subseteq visited' /\ y \in visited'
      BY <1>1, <2>1 DEF Marking
    <3>2. \A j \in Isec : IsPending(j)' => j \in visited'
      BY <2>6, <3>1 DEF IInv, WorkIsMarked
    <3>3. \A j \in visited' \ visited :
             (\E m \in visited : j \in Targets(m)) /\ IsPending(j)'
      BY <1>0, <1>2, <1>3, <2>1, <2>6
    <3>4. \A z \in Isec : IsLeft(z) => IsLeft(z)' \/ g.redirect[z] \in visited'
      BY <2>7, <3>1 DEF y
    <3> QED
      BY <1>1, <2>6, <2>8, <3>1, <3>2, <3>3, <3>4 DEF MarkStep
  <2> QED
    BY <2>4, <2>5, <2>9, MarkStepKeeps
<1> QED
  BY <1>6, <1>7, <1>8, <1>k

\* visit_section returns: nothing of its level is left.
LEMMA ReturnStep ==
    ASSUME IInv, NEW t \in Task, Return(t)
    PROVE  IInv'
<1> DEFINE old == tasks[t]
           new == tasks'[t]
<1>0. /\ TypeOK /\ old \in TaskType /\ tasks \in [Task -> TaskType]
      /\ visited \in SUBSET Isec /\ rootsLeft \in SUBSET Isec
  BY DEF IInv, TypeOK
<1>1. /\ pc = "mark" /\ old.level \in Levels /\ old.left[old.level] = {}
      /\ tasks' = [tasks EXCEPT ![t].level = @ - 1]
      /\ UNCHANGED <<g, before, pass, pc, visited, alive, rootsLeft, queue, cursor, why, refs, used>>
  BY DEF Return
<1>2. /\ new \in TaskType /\ new.on = old.on /\ new.batch = old.batch /\ new.next = old.next
      /\ new.level = old.level - 1 /\ new.left = old.left
  BY <1>0, <1>1, LevelFacts DEF TaskType
<1>3. tasks' \in [Task -> TaskType] /\ \A u \in Task \ {t} : tasks'[u] = tasks[u]
  BY <1>0, <1>1, <1>2
<1>4. TypeOK' /\ Phases'
  BY <1>0, <1>1, <1>3, TaskStepTypes
<1>5. old.on /\ old.level \in Nat /\ (\A l \in Levels : l \in Nat)
  BY <1>1, TaskFacts, LevelFacts DEF IInv, TaskOK
<1>6. \A l \in Levels : l > new.level => new.left[l] = {}
  <2>1. \A l \in Levels : l > old.level => old.left[l] = {}
    BY DEF IInv, TaskOK
  <2>2. \A l \in Levels : l > old.level - 1 => l > old.level \/ l = old.level
    BY <1>5
  <2> QED
    BY <1>1, <1>2, <2>1, <2>2
<1>7. TaskOK'
  <2> HIDE DEF old, new
  <2>1. /\ ~new.on => new = Idle
        /\ \A k \in Levels : k > new.level => new.left[k] = {}
    BY <1>2, <1>5, <1>6
  <2>2. ASSUME NEW u \in Task, u # t
        PROVE  /\ ~tasks'[u].on => tasks'[u] = Idle
               /\ \A k \in Levels : k > tasks'[u].level => tasks'[u].left[k] = {}
    <3>1. tasks'[u] = tasks[u]
      BY <1>3, <2>2
    <3> QED
      BY <3>1 DEF IInv, TaskOK
  <2> QED
    BY <2>1, <2>2 DEF new, TaskOK
<1>8. (\A j \in Isec : IsPending(j)' = IsPending(j)) /\ (\A x \in Isec : IsLeft(x)' = IsLeft(x))
  BY <1>1, <1>2, <1>3 DEF IsPending, IsLeft
<1>9. MarkStep
  BY <1>1, <1>8 DEF MarkStep, Marking, IInv, WorkIsMarked
<1> QED
  BY <1>4, <1>7, <1>9, MarkStepKeeps

\* A free task is idle and has no work.
LEMMA FreeIsIdle ==
    ASSUME IInv, NEW u \in Free
    PROVE  u \in Task /\ tasks[u] = Idle
BY DEF IInv, TaskOK, Free

\* A chunk of the roots becomes a task's batch.
LEMMA StartChunkStep ==
    ASSUME IInv, NEW u \in Task, NEW chunk \in SUBSET rootsLeft, StartChunk(u, chunk)
    PROVE  IInv'
<1>0. /\ TypeOK /\ tasks \in [Task -> TaskType]
      /\ visited \in SUBSET Isec /\ rootsLeft \in SUBSET Isec /\ chunk \in SUBSET Isec
  BY DEF IInv, TypeOK
<1>1. /\ pc = "mark" /\ tasks[u] = Idle
      /\ tasks' = [tasks EXCEPT ![u] = Running(chunk)]
      /\ rootsLeft' = rootsLeft \ chunk
      /\ UNCHANGED <<g, before, pass, pc, visited, alive, queue, cursor, why, refs, used>>
  BY FreeIsIdle DEF StartChunk, Spawn
<1>2. /\ tasks' \in [Task -> TaskType] /\ tasks'[u] = Running(chunk)
      /\ \A v \in Task \ {u} : tasks'[v] = tasks[v]
  BY <1>0, <1>1, TaskFacts
<1>3. TypeOK' /\ Phases'
  BY <1>0, <1>1, <1>2, TaskStepTypes
<1>4. TaskOK'
  BY <1>2, TaskFacts DEF IInv, TaskOK
<1>5. \A j \in Isec : IsPending(j)' = IsPending(j)
  BY <1>1, <1>2, TaskFacts DEF IsPending
<1>6. \A x \in Isec : IsLeft(x)' = IsLeft(x)
  BY <1>1, <1>2, TaskFacts DEF IsLeft
<1>7. MarkStep
  BY <1>1, <1>5, <1>6 DEF MarkStep, Marking, IInv, WorkIsMarked
<1> QED
  BY <1>3, <1>4, <1>7, MarkStepKeeps

\* What a task found becomes the batch of another.
LEMMA PublishStep ==
    ASSUME IInv, NEW t \in Task, NEW u \in Task, Publish(t, u)
    PROVE  IInv'
<1> DEFINE old == tasks[t]
           new == tasks'[t]
<1>0. /\ TypeOK /\ tasks \in [Task -> TaskType] /\ old \in TaskType /\ old.next \in SUBSET Isec
      /\ visited \in SUBSET Isec /\ rootsLeft \in SUBSET Isec
  BY DEF IInv, TypeOK, TaskType
<1>1. /\ pc = "mark" /\ tasks[u] = Idle /\ old.on
      /\ tasks' = [[tasks EXCEPT ![t].next = {}] EXCEPT ![u] = Running(old.next)]
      /\ UNCHANGED <<g, before, pass, pc, visited, alive, rootsLeft, queue, cursor, why, refs, used>>
  BY FreeIsIdle DEF Publish, Spawn, AtBatch
<1>2. t # u
  BY <1>1, TaskFacts
<1>3. /\ new \in TaskType /\ new.on = old.on /\ new.batch = old.batch /\ new.next = {}
      /\ new.level = old.level /\ new.left = old.left
  BY <1>0, <1>1, <1>2 DEF TaskType
<1>4. /\ tasks' \in [Task -> TaskType] /\ tasks'[u] = Running(old.next)
      /\ \A v \in Task \ {t, u} : tasks'[v] = tasks[v]
  BY <1>0, <1>1, <1>3, TaskFacts
<1>5. TypeOK' /\ Phases'
  BY <1>0, <1>1, <1>4, TaskStepTypes
<1>6. TaskOK'
  <2>1. new.on /\ \A k \in Levels : k > new.level => new.left[k] = {}
    BY <1>1, <1>3 DEF IInv, TaskOK
  <2> QED
    BY <1>4, <2>1, TaskFacts DEF IInv, TaskOK
<1>7. \A j \in Isec : IsPending(j)' = IsPending(j)
  BY <1>1, <1>2, <1>3, <1>4, TaskFacts DEF IsPending
<1>8. \A x \in Isec : IsLeft(x)' = IsLeft(x)
  <2>1. \A k \in Levels : tasks'[u].left[k] = {} /\ tasks[u].left[k] = {}
    BY <1>1, <1>4, TaskFacts
  <2> QED
    BY <1>3, <1>4, <2>1 DEF IsLeft
<1>9. MarkStep
  BY <1>1, <1>7, <1>8 DEF MarkStep, Marking, IInv, WorkIsMarked
<1> QED
  BY <1>5, <1>6, <1>9, MarkStepKeeps

\* A task ends, and what it found is a task's batch again.
LEMMA EndTaskStep ==
    ASSUME IInv, NEW t \in Task, EndTask(t)
    PROVE  IInv'
<1> DEFINE old == tasks[t]
           new == tasks'[t]
<1>0. /\ TypeOK /\ tasks \in [Task -> TaskType] /\ old \in TaskType /\ old.next \in SUBSET Isec
      /\ visited \in SUBSET Isec /\ rootsLeft \in SUBSET Isec
  BY DEF IInv, TypeOK, TaskType
<1>1. /\ pc = "mark" /\ old.on /\ old.level = NoLevel /\ old.batch = {}
      /\ tasks' = [tasks EXCEPT ![t] = IF old.next = {} THEN Idle ELSE Running(old.next)]
      /\ UNCHANGED <<g, before, pass, pc, visited, alive, rootsLeft, queue, cursor, why, refs, used>>
  BY DEF EndTask, AtBatch
<1>2. \A k \in Levels : old.left[k] = {}
  <2>1. \A k \in Levels : k > NoLevel
    BY LevelFacts DEF NoLevel
  <2> QED
    BY <1>1, <2>1 DEF IInv, TaskOK
<1>3. /\ new = IF old.next = {} THEN Idle ELSE Running(old.next)
      /\ tasks' \in [Task -> TaskType] /\ \A v \in Task \ {t} : tasks'[v] = tasks[v]
  BY <1>0, <1>1, TaskFacts
<1>4. TypeOK' /\ Phases'
  BY <1>0, <1>1, <1>3, TaskStepTypes
<1>5. /\ new.batch = old.next /\ new.next = {} /\ (\A k \in Levels : new.left[k] = {})
      /\ ~new.on => new = Idle
  <2>1. CASE old.next = {}
    <3>1. new = Idle
      BY <1>3, <2>1
    <3> QED
      BY <2>1, <3>1, TaskFacts
  <2>2. CASE old.next # {}
    <3>1. new = Running(old.next)
      BY <1>3, <2>2
    <3> QED
      BY <3>1, TaskFacts
  <2> QED
    BY <2>1, <2>2
<1>6. TaskOK'
  BY <1>3, <1>5 DEF IInv, TaskOK
<1>7. \A j \in Isec : IsPending(j)' = IsPending(j)
  BY <1>1, <1>3, <1>5 DEF IsPending
<1>8. \A x \in Isec : IsLeft(x)' = IsLeft(x)
  BY <1>2, <1>3, <1>5 DEF IsLeft
<1>9. MarkStep
  BY <1>1, <1>7, <1>8 DEF MarkStep, Marking, IInv, WorkIsMarked
<1> QED
  BY <1>4, <1>6, <1>9, MarkStepKeeps

(***************************************************************************)
(* The serial steps.                                                       *)
(***************************************************************************)

\* While no tasks run, the queue is the only work list.
LEMMA SerialWork ==
    ASSUME IInv, pc # "mark"
    PROVE  /\ rootsLeft = {} /\ \A t \in Task : tasks[t] = Idle
           /\ \A i : IsPending(i) <=> i \in queue
           /\ \A x : ~IsLeft(x)
<1>1. rootsLeft = {} /\ \A t \in Task : tasks[t] = Idle
  BY DEF IInv, Phases
<1> QED
  BY <1>1, TaskFacts DEF IsPending, IsLeft

\* What a step that keeps the tasks idle does to the work lists.
LEMMA SerialWorkNext ==
    ASSUME IInv, pc # "mark", tasks' = tasks, rootsLeft' = {}
    PROVE  /\ TaskOK'
           /\ \A i : IsPending(i)' <=> i \in queue'
           /\ \A x : ~IsLeft(x)'
<1>1. \A t \in Task : tasks'[t] = Idle
  BY SerialWork
<1>2. TaskOK'
  BY <1>1, TaskFacts DEF TaskOK
<1> QED
  BY <1>1, <1>2, TaskFacts DEF IsPending, IsLeft

\* Once no work is left, what is marked is closed.
LEMMA DoneIsClosed ==
    ASSUME IInv, pc # "mark", queue = {}
    PROVE  Closed(visited)
<1>1. \A i \in visited : i \in Isec /\ \A x \in g.target[i] : g.redirect[x] \in visited
  BY SerialWork DEF IInv, NothingLost, TypeOK
<1> QED
  BY <1>1 DEF Closed, Targets, TargetsOf

\* The roots are marked, and each is on a work list.
LEMMA CollectRootSetStep ==
    ASSUME IInv, CollectRootSet
    PROVE  IInv'
<1>0. TypeOK /\ Seeds \in SUBSET Isec
  BY GraphFacts DEF IInv
<1>1. /\ pc = "roots" /\ visited = {} /\ pc' \in {"mark", "walk"}
      /\ UNCHANGED <<g, before, pass, alive, tasks, cursor, refs, used>>
      /\ visited' = Seeds
      /\ why' = [i \in Isec |-> IF i \in Seeds THEN "root" ELSE why[i]]
      /\ \/ rootsLeft' = Seeds /\ queue' = {} /\ pc' = "mark"
         \/ rootsLeft' = {} /\ queue' = Seeds /\ pc' = "walk"
  <2>1. pc = "roots" /\ visited = {}
    BY DEF CollectRootSet, IInv, Phases, BitsClean
  <2> QED
    BY <2>1 DEF CollectRootSet
<1>2. (\A t \in Task : tasks'[t] = Idle) /\ alive = g.inLink
  BY <1>1, SerialWork DEF IInv, Phases
<1>w. why' \in [Isec -> Isec \cup {"dead", "root"}]
  BY <1>0, <1>1 DEF TypeOK
<1>3. TypeOK'
  BY <1>0, <1>1, <1>w DEF TypeOK, IsGraph
<1>4. Phases'
  BY <1>1, <1>2 DEF Phases, BitsClean
<1>5. TaskOK'
  BY <1>2, TaskFacts DEF TaskOK
<1>6. (\A i : IsPending(i)' <=> i \in Seeds) /\ (\A x : ~IsLeft(x)')
  BY <1>1, <1>2, TaskFacts DEF IsPending, IsLeft
<1>s. Seeds' = Seeds
  BY <1>1 DEF Seeds, RootSections, Roots
<1>7. WorkIsMarked' /\ NothingLost'
  BY <1>1, <1>6 DEF WorkIsMarked, NothingLost
<1>8. NothingExtra' /\ (Marking => Seeds \subseteq visited)'
  BY <1>1, <1>s DEF NothingExtra
<1>9. NoDanglingReference' /\ OnlyNeededSurvives'
  BY <1>1 DEF NoDanglingReference, OnlyNeededSurvives
<1> QED
  BY <1>3, <1>4, <1>5, <1>7, <1>8, <1>9 DEF IInv

\* The tasks are done, or the serial walk is: live support is next.
LEMMA EndStep ==
    ASSUME IInv, EndMark \/ EndWalk
    PROVE  IInv'
<1>1. /\ pc \in {"mark", "walk"} /\ pc' = "support" /\ queue = {} /\ rootsLeft = {}
      /\ \A t \in Task : tasks[t] = Idle
      /\ UNCHANGED <<g, before, pass, visited, alive, rootsLeft, tasks, queue, cursor, why, refs, used>>
  <2>1. CASE EndMark
    <3>1. \A t \in Task : t \in Free
      BY <2>1 DEF EndMark
    <3> QED
      BY <2>1, <3>1, FreeIsIdle DEF EndMark, IInv, Phases
  <2>2. CASE EndWalk
    BY <2>2, SerialWork DEF EndWalk
  <2> QED
    BY <2>1, <2>2
<1>2. TypeOK'
  BY <1>1 DEF IInv, TypeOK, IsGraph
<1>3. Phases'
  BY <1>1 DEF IInv, Phases, BitsClean
<1>4. TaskOK' /\ \A i : IsPending(i)' = IsPending(i) /\ IsLeft(i)' = IsLeft(i)
  BY <1>1 DEF IInv, TaskOK, IsPending, IsLeft
<1>s. Seeds' = Seeds /\ \A i : Targets(i)' = Targets(i)
  BY <1>1 DEF Seeds, RootSections, Roots, Targets, TargetsOf
<1>5. WorkIsMarked' /\ NothingLost'
  BY <1>1, <1>4 DEF IInv, WorkIsMarked, NothingLost
<1>6. Marking' /\ Seeds' \subseteq visited'
  BY <1>1, <1>s DEF IInv, Marking
<1>7. NothingExtra'
  <2>1. \A C \in SUBSET Isec : Seeds \subseteq C /\ Closed(C) => visited \subseteq C
    BY <1>1 DEF IInv, NothingExtra, Marking
  <2>2. \A C : (Closed(C))' = Closed(C)
    BY <1>1, <1>s DEF Closed
  <2> QED
    BY <1>1, <1>s, <2>1, <2>2 DEF NothingExtra
<1>8. NoDanglingReference' /\ OnlyNeededSurvives'
  BY <1>1 DEF NoDanglingReference, OnlyNeededSurvives
<1> QED
  BY <1>2, <1>3, <1>4, <1>5, <1>6, <1>7, <1>8 DEF IInv

\* The serial walk takes a subsection off the queue and adds what it reaches.
LEMMA WalkStep ==
    ASSUME IInv, NEW i \in Isec, Walk(i)
    PROVE  IInv'
<1> DEFINE new == Targets(i) \ visited
<1>0. TypeOK /\ Targets(i) \in SUBSET Isec /\ visited \in SUBSET Isec /\ queue \in SUBSET Isec
  BY GraphFacts DEF IInv, TypeOK
<1>1. /\ pc \in {"walk", "support"} /\ i \in queue
      /\ visited' = visited \cup new /\ queue' = (queue \ {i}) \cup new
      /\ why' = [j \in Isec |-> IF j \in new THEN i ELSE why[j]]
      /\ UNCHANGED <<g, before, pass, pc, alive, rootsLeft, tasks, cursor, refs, used>>
  BY DEF Walk
<1>2. /\ rootsLeft' = {} /\ \A j : IsPending(j) <=> j \in queue
      /\ \A x : ~IsLeft(x)
  BY <1>1, SerialWork
<1>3. /\ TaskOK' /\ \A j : IsPending(j)' <=> j \in queue'
      /\ \A x : ~IsLeft(x)'
  BY <1>1, <1>2, SerialWorkNext
<1>w. why' \in [Isec -> Isec \cup {"dead", "root"}]
  BY <1>0, <1>1 DEF TypeOK
<1>4. TypeOK'
  BY <1>0, <1>1, <1>w DEF TypeOK, IsGraph
<1>5. Phases'
  BY <1>1 DEF IInv, Phases, BitsClean
<1>6. i \in visited /\ \A j \in Isec : j \in queue => j \in visited
  BY <1>1, <1>2 DEF IInv, WorkIsMarked
<1>7. \A x \in g.target[i] : g.redirect[x] \in visited'
  BY <1>1 DEF Targets, TargetsOf
<1> HIDE DEF new
<1>8. \A j \in visited' \ visited : (\E m \in visited : j \in Targets(m)) /\ j \in queue'
  BY <1>1, <1>6 DEF new
<1>9. MarkStep
  <2>1. Marking /\ visited \subseteq visited'
    BY <1>1 DEF Marking
  <2>2. \A j \in Isec : IsPending(j) =>
           IsPending(j)' \/ \A x \in g.target[j] : g.redirect[x] \in visited'
    BY <1>1, <1>2, <1>3, <1>7
  <2>3. \A j \in Isec : IsPending(j)' => j \in visited'
    BY <1>1, <1>3, <1>6
  <2> QED
    BY <1>1, <1>2, <1>3, <1>8, <2>1, <2>2, <2>3 DEF MarkStep
<1> QED
  BY <1>3, <1>4, <1>5, <1>9, MarkStepKeeps

\* A live-support subsection joins only if it refers to a marked one.
LEMMA MarkLiveSupportStep ==
    ASSUME IInv, MarkLiveSupport
    PROVE  IInv'
<1> DEFINE i == g.support[cursor]
           j == g.redirect[i]
<1>0. /\ TypeOK /\ visited \in SUBSET Isec /\ cursor \in Nat \ {0} /\ alive \in SUBSET Isec
      /\ why \in [Isec -> Isec \cup {"dead", "root"}]
  BY DEF IInv, TypeOK
<1>1. /\ pc = "support" /\ queue = {} /\ cursor <= Len(g.support) /\ cursor' = cursor + 1
      /\ UNCHANGED <<g, before, pass, pc, alive, rootsLeft, tasks, refs, used>>
  BY DEF MarkLiveSupport
<1>2. cursor \in DOMAIN g.support /\ i \in Isec /\ j \in Isec
  BY <1>0, <1>1, GraphFacts
<1>3. \/ /\ Targets(i) \cap visited # {} /\ visited' = visited \cup {j} /\ queue' = {j}
         /\ why' = [why EXCEPT ![j] = "root"]
      \/ visited' = visited /\ queue' = {} /\ why' = why
  BY <1>1 DEF MarkLiveSupport
<1> HIDE DEF i, j
<1>4. visited \subseteq visited' /\ visited' \in SUBSET Isec /\ queue' \in SUBSET Isec
      /\ why' \in [Isec -> Isec \cup {"dead", "root"}] /\ cursor' \in Nat \ {0} /\ cursor' # 1
  BY <1>0, <1>1, <1>2, <1>3
<1>5. TypeOK'
  BY <1>0, <1>1, <1>4 DEF TypeOK, IsGraph
<1>6. Phases'
  BY <1>1, <1>4 DEF IInv, Phases, BitsClean
<1>7. /\ rootsLeft' = {} /\ TaskOK' /\ \A m : IsPending(m)' <=> m \in queue'
      /\ \A x : ~IsLeft(x)'
  BY <1>1, SerialWork, SerialWorkNext
<1>8. WorkIsMarked'
  BY <1>3, <1>7 DEF WorkIsMarked
<1>9. NothingLost'
  <2>1. \A m \in visited : \A x \in g.target[m] : g.redirect[x] \in visited
    BY <1>1, SerialWork DEF IInv, NothingLost
  <2>2. \A m \in visited' : m \in visited \/ m \in queue'
    BY <1>3
  <2> QED
    BY <1>1, <1>4, <1>7, <2>1, <2>2 DEF NothingLost
<1>s. Seeds' = Seeds /\ \A m : Targets(m)' = Targets(m)
  BY <1>1 DEF Seeds, RootSections, Roots, Targets, TargetsOf
<1>10. Marking' /\ Seeds' \subseteq visited'
  BY <1>1, <1>4, <1>s DEF IInv, Marking
<1>11. NothingExtra'
  <2>1. \A C : (Closed(C))' = Closed(C) /\ (SupportClosed(C))' = SupportClosed(C)
    BY <1>1, <1>s DEF Closed, SupportClosed
  <2> SUFFICES ASSUME NEW C \in SUBSET Isec, Seeds \subseteq C, Closed(C), SupportClosed(C)
               PROVE  visited' \subseteq C
    BY <1>1, <1>4, <1>s, <2>1 DEF NothingExtra
  <2>2. visited \subseteq C
    BY <1>1 DEF IInv, NothingExtra, Marking
  <2>3. Targets(i) \cap C # {} => j \in C
    BY <1>2 DEF SupportClosed, i, j
  <2> QED
    BY <1>3, <2>2, <2>3
<1>12. NoDanglingReference' /\ OnlyNeededSurvives'
  BY <1>1 DEF NoDanglingReference, OnlyNeededSurvives
<1> QED
  BY <1>5, <1>6, <1>7, <1>8, <1>9, <1>10, <1>11, <1>12 DEF IInv

\* The walk before LTO hands its result over and clears the bits.
LEMMA UnmarkVisitedStep ==
    ASSUME IInv, UnmarkVisited
    PROVE  IInv'
<1>0. TypeOK
  BY DEF IInv
<1>1. /\ pc = "support" /\ queue = {} /\ pc' = "roots" /\ pass' = "strip" /\ cursor' = 1
      /\ visited' = {} /\ alive' = g'.inLink /\ before' = g /\ why' = [i \in Isec |-> "dead"]
      /\ refs' = UNION {g.names[i] : i \in visited}
      /\ UNCHANGED <<rootsLeft, tasks, queue, used>>
  BY DEF UnmarkVisited, SupportDone
<1>2. IsGraph(g') /\ IsGraph(g)
  BY <1>0, GraphAssumption DEF UnmarkVisited, TypeOK
<1>3. refs' \in SUBSET Sym
  BY <1>0, <1>1, GraphFacts DEF TypeOK
<1>4. TypeOK'
  BY <1>0, <1>1, <1>2, <1>3 DEF TypeOK, IsGraph
<1>5. /\ rootsLeft' = {} /\ TaskOK' /\ (\A t \in Task : tasks'[t] = Idle)
      /\ (\A m : IsPending(m)' <=> m \in queue') /\ (\A x : ~IsLeft(x)')
  BY <1>1, SerialWork, SerialWorkNext
<1>6. Phases'
  BY <1>1, <1>5 DEF Phases, BitsClean
<1>7. WorkIsMarked' /\ NothingLost'
  BY <1>1, <1>5 DEF WorkIsMarked, NothingLost
<1>8. /\ ~Marking' /\ NothingExtra' /\ NoDanglingReference' /\ OnlyNeededSurvives'
  BY <1>1 DEF Marking, NothingExtra, NoDanglingReference, OnlyNeededSurvives
<1> QED
  BY <1>4, <1>5, <1>6, <1>7, <1>8 DEF IInv

\* The sweep keeps what is marked.
LEMMA SweepStep ==
    ASSUME IInv, Sweep
    PROVE  IInv'
<1>0. TypeOK
  BY DEF IInv
<1>1. /\ pc = "support" /\ queue = {} /\ pc' = "swept"
      /\ visited' = {} /\ alive' = alive \cap visited
      /\ UNCHANGED <<g, before, pass, rootsLeft, tasks, queue, cursor, why, refs, used>>
  BY DEF Sweep, SupportDone
<1>2. TypeOK'
  BY <1>0, <1>1 DEF TypeOK, IsGraph
<1>3. /\ rootsLeft' = {} /\ TaskOK' /\ (\A t \in Task : tasks'[t] = Idle)
      /\ (\A m : IsPending(m)' <=> m \in queue') /\ (\A x : ~IsLeft(x)')
  BY <1>1, SerialWork, SerialWorkNext
<1>4. Phases'
  BY <1>1, <1>3 DEF Phases, BitsClean
<1>5. WorkIsMarked' /\ NothingLost'
  BY <1>1, <1>3 DEF WorkIsMarked, NothingLost
<1>6. ~Marking' /\ NothingExtra'
  BY <1>1 DEF Marking, NothingExtra
<1>s. Seeds' = Seeds /\ \A m : Targets(m)' = Targets(m)
  BY <1>1 DEF Seeds, RootSections, Roots, Targets, TargetsOf
<1>7. NoDanglingReference'
  <2>1. Closed(visited) /\ alive = g.inLink /\ Seeds \subseteq visited
    BY <1>1, DoneIsClosed DEF IInv, Phases, Marking
  <2> QED
    BY <1>1, <1>s, <2>1 DEF NoDanglingReference, Closed
<1>8. OnlyNeededSurvives'
  <2>1. \A C : (Closed(C))' = Closed(C) /\ (SupportClosed(C))' = SupportClosed(C)
    BY <1>1, <1>s DEF Closed, SupportClosed
  <2>2. \A C \in SUBSET Isec : Seeds \subseteq C /\ Closed(C) /\ SupportClosed(C) => visited \subseteq C
    BY <1>1 DEF IInv, NothingExtra, Marking
  <2> QED
    BY <1>1, <1>s, <2>1, <2>2 DEF OnlyNeededSurvives
<1> QED
  BY <1>2, <1>3, <1>4, <1>5, <1>6, <1>7, <1>8 DEF IInv

\* Finding the used symbols again changes no liveness.
LEMMA MarkLiveReferencesStep ==
    ASSUME IInv, MarkLiveReferences
    PROVE  IInv'
<1>0. TypeOK
  BY DEF IInv
<1>1. /\ pc = "swept" /\ pc' = "done"
      /\ used' = g.pinned \cup UNION {g.names[i] : i \in {j \in alive : g.redirect[j] = j}}
      /\ UNCHANGED <<g, before, pass, visited, alive, rootsLeft, tasks, queue, cursor, why, refs>>
  BY DEF MarkLiveReferences
<1>2. used' \in SUBSET Sym
  <2>1. alive \subseteq Isec /\ g.pinned \subseteq Sym /\ \A i \in Isec : g.names[i] \subseteq Sym
    BY <1>0, GraphFacts DEF TypeOK
  <2>2. ASSUME NEW x \in used' PROVE x \in Sym
    <3>1. CASE x \in g.pinned
      BY <2>1, <3>1
    <3>2. CASE x \notin g.pinned
      <4>1. \E i \in alive : x \in g.names[i]
        <5>1. x \in UNION {g.names[i] : i \in {j \in alive : g.redirect[j] = j}}
          BY <1>1, <2>2, <3>2
        <5>2. PICK i \in {j \in alive : g.redirect[j] = j} : x \in g.names[i]
          BY <5>1
        <5> QED
          BY <5>2
      <4> QED
        BY <2>1, <4>1
    <3> QED
      BY <3>1, <3>2
  <2> QED
    BY <2>2
<1>3. TypeOK'
  BY <1>0, <1>1, <1>2 DEF TypeOK, IsGraph
<1>4. /\ rootsLeft' = {} /\ TaskOK' /\ (\A t \in Task : tasks'[t] = Idle)
      /\ (\A m : IsPending(m)' <=> m \in queue') /\ (\A x : ~IsLeft(x)')
  BY <1>1, SerialWork, SerialWorkNext
<1>5. visited = {} /\ queue = {}
  BY <1>1 DEF IInv, Phases, BitsClean
<1>6. Phases' /\ WorkIsMarked' /\ NothingLost'
  BY <1>1, <1>4, <1>5 DEF Phases, BitsClean, WorkIsMarked, NothingLost
<1>7. ~Marking' /\ NothingExtra'
  BY <1>1 DEF Marking, NothingExtra
<1>s. Seeds' = Seeds /\ \A m : Targets(m)' = Targets(m)
  BY <1>1 DEF Seeds, RootSections, Roots, Targets, TargetsOf
<1>8. NoDanglingReference'
  BY <1>1, <1>s DEF IInv, NoDanglingReference
<1>9. OnlyNeededSurvives'
  <2>1. \A C : (Closed(C))' = Closed(C) /\ (SupportClosed(C))' = SupportClosed(C)
    BY <1>1, <1>s DEF Closed, SupportClosed
  <2> QED
    BY <1>1, <1>s, <2>1 DEF IInv, OnlyNeededSurvives
<1> QED
  BY <1>3, <1>4, <1>6, <1>7, <1>8, <1>9 DEF IInv

\* Every step keeps the invariant.
LEMMA NextInvariant == IInv /\ [Next]_vars => IInv'
<1> SUFFICES ASSUME IInv, [Next]_vars PROVE IInv'
  OBVIOUS
<1>1. CASE UNCHANGED vars
  <2>1. UNCHANGED <<g, before, pass, pc, visited, alive, rootsLeft, tasks, queue, cursor, why, refs, used>>
    BY <1>1 DEF vars
  <2>2. TypeOK' /\ Phases' /\ TaskOK'
    BY <2>1 DEF IInv, TypeOK, IsGraph, Phases, BitsClean, TaskOK
  <2>3. /\ \A i : IsPending(i)' = IsPending(i) /\ IsLeft(i)' = IsLeft(i) /\ Targets(i)' = Targets(i)
        /\ Seeds' = Seeds /\ Marking' = Marking
    BY <2>1 DEF IsPending, IsLeft, Targets, TargetsOf, Seeds, RootSections, Roots, Marking
  <2>4. WorkIsMarked' /\ NothingLost' /\ (Marking => Seeds \subseteq visited)'
    BY <2>1, <2>3 DEF IInv, WorkIsMarked, NothingLost
  <2>5. \A C : (Closed(C))' = Closed(C) /\ (SupportClosed(C))' = SupportClosed(C)
    BY <2>1, <2>3 DEF Closed, SupportClosed
  <2>6. NothingExtra'
    BY <2>1, <2>3, <2>5 DEF IInv, NothingExtra
  <2>7. NoDanglingReference' /\ OnlyNeededSurvives'
    BY <2>1, <2>3, <2>5 DEF IInv, NoDanglingReference, OnlyNeededSurvives
  <2> QED
    BY <2>2, <2>4, <2>6, <2>7 DEF IInv
<1>2. CASE \E u \in Task, chunk \in SUBSET rootsLeft : StartChunk(u, chunk)
  BY <1>2, StartChunkStep
<1>3. CASE \E t \in Task, i \in Isec : Take(t, i) \/ Edge(t, i)
  BY <1>3, TakeStep, EdgeStep
<1>4. CASE \E t \in Task : Return(t) \/ EndTask(t)
  BY <1>4, ReturnStep, EndTaskStep
<1>5. CASE \E t, u \in Task : Publish(t, u)
  BY <1>5, PublishStep
<1>6. CASE EndMark \/ EndWalk
  BY <1>6, EndStep
<1>7. CASE \E i \in Isec : Walk(i)
  BY <1>7, WalkStep
<1>8. CASE CollectRootSet \/ MarkLiveSupport \/ UnmarkVisited
  BY <1>8, CollectRootSetStep, MarkLiveSupportStep, UnmarkVisitedStep
<1>9. CASE Sweep \/ MarkLiveReferences
  BY <1>9, SweepStep, MarkLiveReferencesStep
<1> QED
  BY <1>1, <1>2, <1>3, <1>4, <1>5, <1>6, <1>7, <1>8, <1>9 DEF Next

\* In every behaviour, for every graph, number of tasks, size of batches and
\* depth of recursion: the types hold and no marked subsection is lost
\* between the work lists.
THEOREM StripInvariant == Spec => []IInv
<1> QED
  BY InitInvariant, NextInvariant, PTL DEF Spec

\* The variables keep their types.
THEOREM StripTypes == Spec => []TypeOK
<1>1. IInv => TypeOK
  BY DEF IInv
<1> QED
  BY <1>1, StripInvariant, PTL

\* When rayon::scope returns, exactly what the roots reach is marked.
THEOREM MarkingIsExact == Spec => []MarkIsExact
<1>1. IInv => MarkIsExact
  <2> SUFFICES ASSUME IInv, pc = "support", cursor = 1, queue = {}
               PROVE  /\ Seeds \subseteq visited /\ Closed(visited)
                      /\ \A C \in SUBSET Isec : Seeds \subseteq C /\ Closed(C) => visited \subseteq C
    BY DEF MarkIsExact
  <2>1. Closed(visited)
    BY DoneIsClosed
  <2> QED
    BY <2>1 DEF IInv, NothingExtra, Marking
<1> QED
  BY <1>1, StripInvariant, PTL

\* What stays refers to nothing that was swept.
THEOREM NothingDangles == Spec => []NoDanglingReference
<1>1. IInv => NoDanglingReference
  BY DEF IInv
<1> QED
  BY <1>1, StripInvariant, PTL

\* What stays is needed.
THEOREM SurvivorsAreNeeded == Spec => []OnlyNeededSurvives
<1>1. IInv => OnlyNeededSurvives
  BY DEF IInv
<1> QED
  BY <1>1, StripInvariant, PTL

\* A walk finds the visited bits clean.
THEOREM WalksStartClean == Spec => []BitsClean
<1>1. IInv => BitsClean
  BY DEF IInv, Phases
<1> QED
  BY <1>1, StripInvariant, PTL

-----------------------------------------------------------------------------
(***************************************************************************)
(* -why_live: what is marked has a reason that leads to a root.            *)
(***************************************************************************)

\* Reasons are given when a subsection is marked, and only then.
ReasonsInv ==
    /\ pc = "mark" => ~Serial
    /\ pc \in {"roots", "walk", "support"} /\ Serial =>
          /\ \A i \in Isec \ visited : why[i] = "dead"
          /\ \A C \in SUBSET Isec : Reasoned(C) => visited \subseteq C
    /\ WhyChainsEnd

\* What a marking task leaves alone: all but the bits and the tasks themselves.
LEMMA TaskFrame ==
    ASSUME NEW t \in Task, NEW i \in Isec, Take(t, i) \/ Edge(t, i)
    PROVE  pc = "mark" /\ UNCHANGED <<g, before, pass, pc, alive, queue, cursor, why, refs, used>>
<1>1. CASE Take(t, i)
  BY <1>1 DEF Take
<1>2. CASE Edge(t, i)
  BY <1>2 DEF Edge
<1> QED
  BY <1>1, <1>2

\* What is marked next leads to a root, if its reason is one or is marked.
LEMMA ReasonsGrow ==
    ASSUME IInv, why' \in [Isec -> Isec \cup {"dead", "root"}],
           NEW new \in SUBSET Isec, visited' = visited \cup new, new \cap visited = {},
           \A i \in Isec \ visited : why[i] = "dead",
           \A C \in SUBSET Isec : Reasoned(C) => visited \subseteq C,
           \A i \in Isec \ new : why'[i] = why[i],
           \A i \in new : why'[i] \in visited \cup {"root"}
    PROVE  /\ (\A i \in Isec \ visited : why[i] = "dead")'
           /\ (\A C \in SUBSET Isec : Reasoned(C) => visited \subseteq C)'
<1>1. ASSUME NEW C \in SUBSET Isec, Reasoned(C)'
      PROVE  visited' \subseteq C
  <2>1. Reasoned(C)
    <3> SUFFICES ASSUME NEW j \in Isec, why[j] \in C \cup {"root"}
                 PROVE  j \in C
      BY DEF Reasoned
    <3>1. j \notin new
      BY GraphAssumption
    <3> QED
      BY <1>1, <3>1 DEF Reasoned
  <2>2. visited \subseteq C
    BY <2>1
  <2>3. new \subseteq C
    BY <1>1, <2>2 DEF Reasoned
  <2> QED
    BY <2>2, <2>3
<1> QED
  BY <1>1

LEMMA ReasonsStep == IInv /\ IInv' /\ ReasonsInv /\ [Next]_vars => ReasonsInv'
<1> SUFFICES ASSUME IInv, IInv', ReasonsInv, [Next]_vars
             PROVE  ReasonsInv'
  OBVIOUS
<1>t. /\ TypeOK /\ TypeOK' /\ Phases
      /\ why \in [Isec -> Isec \cup {"dead", "root"}] /\ why' \in [Isec -> Isec \cup {"dead", "root"}]
      /\ visited \in SUBSET Isec /\ visited' \in SUBSET Isec
  BY DEF IInv, TypeOK
<1>1. CASE UNCHANGED <<g, pass, pc, visited, alive, why>>
  <2>1. \A C : Reasoned(C)' = Reasoned(C)
    BY <1>1 DEF Reasoned
  <2> QED
    BY <1>1, <2>1 DEF ReasonsInv, Serial, WhyChainsEnd
<1>2. CASE pc = "mark" /\ UNCHANGED <<g, pass, pc, why>>
  BY <1>2 DEF ReasonsInv, Serial, WhyChainsEnd
<1>3. ASSUME pc \in {"mark", "walk"}, pc' = "support", UNCHANGED <<g, pass, visited, alive, why>>
      PROVE  ReasonsInv'
  <2>1. \A C : Reasoned(C)' = Reasoned(C)
    BY <1>3 DEF Reasoned
  <2> QED
    BY <1>3, <2>1 DEF ReasonsInv, Serial, WhyChainsEnd
<1>4. CASE CollectRootSet
  <2>1. /\ pc = "roots" /\ visited = {} /\ UNCHANGED <<g, pass>>
        /\ visited' = Seeds /\ pc' \in {"walk", "mark"} /\ (pc' = "walk" <=> Serial)
        /\ why' = [i \in Isec |-> IF i \in Seeds \ visited THEN "root" ELSE why[i]]
    BY <1>4, <1>t DEF CollectRootSet, Phases, BitsClean
  <2>2. Seeds \in SUBSET Isec /\ Serial' = Serial
    BY <1>t, <2>1, GraphFacts DEF Serial
  <2>3. CASE ~Serial
    BY <2>1, <2>2, <2>3 DEF ReasonsInv, WhyChainsEnd
  <2>4. CASE Serial
    <3>1. /\ (\A i \in Isec \ visited : why[i] = "dead")'
          /\ (\A C \in SUBSET Isec : Reasoned(C) => visited \subseteq C)'
      BY <1>t, <2>1, <2>2, <2>4, ReasonsGrow DEF ReasonsInv
    <3> QED
      BY <2>1, <2>2, <2>4, <3>1 DEF ReasonsInv, WhyChainsEnd
  <2> QED
    BY <2>3, <2>4
<1>5. ASSUME NEW i \in Isec, Walk(i)
      PROVE  ReasonsInv'
  <2>1. /\ pc \in {"walk", "support"} /\ i \in queue /\ UNCHANGED <<g, pass, pc>>
        /\ visited' = visited \cup (Targets(i) \ visited)
        /\ why' = [j \in Isec |-> IF j \in Targets(i) \ visited THEN i ELSE why[j]]
    BY <1>5 DEF Walk
  <2>2. i \in visited /\ Targets(i) \in SUBSET Isec /\ Serial' = Serial
    BY <1>t, <2>1, GraphFacts DEF Serial, IInv, WorkIsMarked, IsPending
  <2>3. Serial => /\ (\A j \in Isec \ visited : why[j] = "dead")'
                  /\ (\A C \in SUBSET Isec : Reasoned(C) => visited \subseteq C)'
    <3> DEFINE new == Targets(i) \ visited
    <3>1. /\ new \in SUBSET Isec /\ new \cap visited = {} /\ visited' = visited \cup new
          /\ \A j \in Isec \ new : why'[j] = why[j]
          /\ \A j \in new : why'[j] \in visited \cup {"root"}
      BY <2>1, <2>2
    <3> HIDE DEF new
    <3> SUFFICES ASSUME Serial
                 PROVE  /\ (\A j \in Isec \ visited : why[j] = "dead")'
                        /\ (\A C \in SUBSET Isec : Reasoned(C) => visited \subseteq C)'
      OBVIOUS
    <3>2. /\ \A j \in Isec \ visited : why[j] = "dead"
          /\ \A C \in SUBSET Isec : Reasoned(C) => visited \subseteq C
      BY <2>1 DEF ReasonsInv
    <3> QED
      BY <1>t, <3>1, <3>2, ReasonsGrow
  <2> QED
    BY <2>1, <2>2, <2>3 DEF ReasonsInv, WhyChainsEnd
<1>6. CASE MarkLiveSupport
  <2> DEFINE j == g.redirect[g.support[cursor]]
  <2>1. pc = "support" /\ UNCHANGED <<g, pass, pc, alive>>
    BY <1>6 DEF MarkLiveSupport
  <2>2. CASE UNCHANGED <<visited, queue, why>>
    BY <1>1, <2>1, <2>2
  <2>3. CASE j \notin visited /\ visited' = visited \cup {j} /\ why' = [why EXCEPT ![j] = "root"]
    <3>1. j \in Isec
      BY <1>t, <1>6, GraphFacts DEF MarkLiveSupport, TypeOK
    <3> HIDE DEF j
    <3>2. /\ \A i \in Isec \ {j} : why'[i] = why[i]
          /\ why'[j] = "root" /\ Serial' = Serial
      BY <1>t, <2>1, <2>3, <3>1 DEF Serial
    <3>3. Serial => /\ (\A i \in Isec \ visited : why[i] = "dead")'
                    /\ (\A C \in SUBSET Isec : Reasoned(C) => visited \subseteq C)'
      <4>1. /\ {j} \in SUBSET Isec /\ {j} \cap visited = {} /\ visited' = visited \cup {j}
            /\ \A i \in {j} : why'[i] \in visited \cup {"root"}
        BY <2>3, <3>1, <3>2
      <4> QED
        BY <1>t, <2>1, <3>2, <4>1, ReasonsGrow DEF ReasonsInv
    <3> QED
      BY <2>1, <3>2, <3>3 DEF ReasonsInv, WhyChainsEnd
  <2> QED
    BY <1>6, <2>2, <2>3 DEF MarkLiveSupport
<1>7. CASE UnmarkVisited
  <2>1. /\ visited' = {} /\ pc' = "roots" /\ why' = [i \in Isec |-> "dead"]
    BY <1>7 DEF UnmarkVisited
  <2> QED
    BY <2>1 DEF ReasonsInv, WhyChainsEnd
<1>8. CASE Sweep
  <2>1. /\ pc = "support" /\ pc' = "swept" /\ alive' = alive \cap visited /\ UNCHANGED <<g, pass, why>>
    BY <1>8 DEF Sweep, SupportDone
  <2>2. \A C : Reasoned(C)' = Reasoned(C)
    BY <2>1 DEF Reasoned
  <2> QED
    BY <2>1, <2>2 DEF ReasonsInv, Serial, WhyChainsEnd
<1>9. CASE MarkLiveReferences
  <2>1. pc = "swept" /\ pc' = "done" /\ UNCHANGED <<g, pass, visited, alive, why>>
    BY <1>9 DEF MarkLiveReferences
  <2>2. \A C : Reasoned(C)' = Reasoned(C)
    BY <2>1 DEF Reasoned
  <2> QED
    BY <2>1, <2>2 DEF ReasonsInv, Serial, WhyChainsEnd
<1>10. CASE UNCHANGED vars
  BY <1>1, <1>10 DEF vars
<1>11. CASE \E u \in Task, chunk \in SUBSET rootsLeft : StartChunk(u, chunk)
  BY <1>2, <1>11 DEF StartChunk
<1>12. CASE \E t \in Task, i \in Isec : Take(t, i) \/ Edge(t, i)
  BY <1>2, <1>12, TaskFrame
<1>13. CASE \E t \in Task : Return(t) \/ EndTask(t)
  BY <1>2, <1>13 DEF Return, EndTask
<1>14. CASE \E t, u \in Task : Publish(t, u)
  BY <1>2, <1>14 DEF Publish
<1>15. CASE EndMark \/ EndWalk
  BY <1>3, <1>15 DEF EndMark, EndWalk
<1> QED
  BY <1>4, <1>5, <1>6, <1>7, <1>8, <1>9, <1>10, <1>11, <1>12, <1>13, <1>14, <1>15 DEF Next

\* -why_live's chains of reasons end at a root, so print_why_live does too.
THEOREM ReasonsEnd == Spec => []WhyChainsEnd
<1>1. Init => ReasonsInv
  <2> SUFFICES ASSUME Init PROVE ReasonsInv
    OBVIOUS
  <2>1. pc = "roots" /\ visited = {} /\ why = [i \in Isec |-> "dead"]
    BY DEF Init
  <2> QED
    BY <2>1 DEF ReasonsInv, WhyChainsEnd
<1>2. ReasonsInv => WhyChainsEnd
  BY DEF ReasonsInv
<1> QED
  BY <1>1, <1>2, StripInvariant, ReasonsStep, PTL DEF Spec

-----------------------------------------------------------------------------
(***************************************************************************)
(* What the walk before LTO marks covers what the second walk keeps of the *)
(* same objects.  Live support is looked at once, in order, so the walks   *)
(* are compared stage by stage: when both are at their n-th live-support   *)
(* subsection.                                                             *)
(***************************************************************************)
FirstSeeds(h) == {h.redirect[i] : i \in Roots(h) \cup h.bitcode}

\* st[k] is what the walk of h before LTO has marked when it comes to the
\* k-th live-support subsection.
StageOK(h, S) == FirstSeeds(h) \subseteq S /\ \A i \in S : TargetsOf(h, i) \subseteq S
StageStep(h, s, S, T) ==
    S \subseteq T /\ (s \in h.inLink /\ TargetsOf(h, s) \cap S # {} => h.redirect[s] \in T)
IsStages(h, st, n) ==
    /\ st \in [1..n -> SUBSET Isec]
    /\ \A k \in 1..(n - 1) : StageOK(h, st[k]) /\ StageStep(h, h.support[k], st[k], st[k + 1])

\* The walk before LTO, while it looks at live support.
FirstInv ==
    /\ pc \in {"roots", "mark", "walk"} => cursor = 1
    /\ pc \in {"swept", "done"} => pass = "strip"
    /\ pass = "lto" /\ pc = "support" =>
          /\ cursor <= Len(g.support) + 1
          /\ \E st : IsStages(g, st, cursor) /\ st[cursor] = visited

\* What the second walk may have marked at its n-th live-support subsection.
Last(h) == Len(h.support) + 1
At(h, n) == IF n <= Last(h) THEN n ELSE Last(h)
Cover(h, k, X, S) == X \cup Became(h, k, S)

IsFirstWalk(h, st) == IsStages(h, st, Last(h)) /\ StageOK(h, st[Last(h)])

\* The second walk.
IsCovered(X, st) ==
    /\ IsFirstWalk(before, st)
    /\ refs = UNION {before.names[i] : i \in st[Last(before)]}
    /\ pc = "support" => visited \subseteq Cover(before, g, X, st[At(before, cursor)])
    /\ pc \in {"swept", "done"} => alive \subseteq Cover(before, g, X, st[Last(before)])
SecondInv ==
    pass = "strip" /\ before # g =>
        \E X \in SUBSET Isec : LtoBrings(before, g, X) /\ \E st : IsCovered(X, st)

LEMMA GraphTypes ==
    ASSUME NEW h, IsGraph(h)
    PROVE  /\ h.target \in [Isec -> SUBSET Isec] /\ h.redirect \in [Isec -> Isec]
           /\ Roots(h) \in SUBSET Isec /\ h.bitcode \in SUBSET Isec
           /\ Len(h.support) \in Nat /\ DOMAIN h.support = 1..Len(h.support)
           /\ \A n \in 1..Len(h.support) : h.support[n] \in Isec
BY DEF IsGraph, Roots

\* What became of the subsections that the first walk has marked at one
\* stage, and what LTO brings, are closed under what the second walk follows.
LEMMA CoverIsClosed ==
    ASSUME TypeOK, pass = "strip", NEW X \in SUBSET Isec, LtoBrings(before, g, X),
           NEW S \in SUBSET Isec, StageOK(before, S)
    PROVE  /\ Cover(before, g, X, S) \in SUBSET Isec
           /\ Seeds \subseteq Cover(before, g, X, S)
           /\ Closed(Cover(before, g, X, S))
<1> DEFINE C == Cover(before, g, X, S)
<1>1. /\ g.target \in [Isec -> SUBSET Isec] /\ g.redirect \in [Isec -> Isec]
      /\ before.target \in [Isec -> SUBSET Isec]
      /\ before.bitcode \in SUBSET Isec /\ Roots(before) \in SUBSET Isec
  BY GraphTypes DEF TypeOK
<1>2. C \in SUBSET Isec
  BY <1>1 DEF Cover, Became
<1>3. \A T : T \subseteq S => Became(before, g, T) \subseteq C
  BY DEF Cover, Became
<1>4. \A i \in Isec : before.redirect[i] = i
  BY DEF LtoBrings
<1>5. Roots(before) \cup before.bitcode \subseteq S
  BY <1>1, <1>4 DEF StageOK, FirstSeeds
<1>6. X \subseteq C
  BY DEF Cover
<1>7. Seeds \subseteq C
  <2>1. Seeds = {g.redirect[i] : i \in Roots(g)}
    BY DEF Seeds, RootSections
  <2>2. Seeds \subseteq X \cup Became(before, g, Roots(before) \cup before.bitcode)
    BY <2>1 DEF LtoBrings
  <2> HIDE DEF C
  <2> QED
    BY <1>3, <1>5, <1>6, <2>2
<1>8. ASSUME NEW i \in X
      PROVE  TargetsOf(g, i) \subseteq C
  <2>1. TargetsOf(g, i) \subseteq X \cup Became(before, g, before.bitcode)
    BY DEF LtoBrings
  <2> HIDE DEF C
  <2> QED
    BY <1>3, <1>5, <1>6, <2>1
<1>9. ASSUME NEW i \in S
      PROVE  TargetsOf(g, i) \subseteq C
  <2>1. CASE i \in Added(before, g)
    BY <1>8, <2>1 DEF LtoBrings
  <2>2. CASE i \notin Added(before, g)
    <3>1. TargetsOf(g, i) \subseteq X \cup Became(before, g, before.target[i])
      BY <2>2 DEF LtoBrings
    <3>2. before.target[i] \subseteq S
      BY <1>1, <1>4 DEF StageOK, TargetsOf
    <3> HIDE DEF C
    <3> QED
      BY <1>3, <1>6, <3>1, <3>2
  <2> QED
    BY <2>1, <2>2
<1>10. ASSUME NEW i \in C
       PROVE  Targets(i) \subseteq C
  <2>1. CASE i \in X
    BY <1>8, <2>1 DEF Targets
  <2>2. CASE i \in Became(before, g, S)
    <3>1. PICK j \in S : Alike(before, g, j) /\ i = g.redirect[j]
      BY <2>2 DEF Became
    <3>2. TargetsOf(g, i) \subseteq TargetsOf(g, j)
      BY <3>1 DEF Alike
    <3> HIDE DEF C
    <3> QED
      BY <1>9, <3>2 DEF Targets
  <2> QED
    BY <2>1, <2>2 DEF Cover
<1> QED
  <2> HIDE DEF C
  <2>1. Closed(C)
    BY <1>10 DEF Closed
  <2> QED
    BY <1>2, <1>7, <2>1 DEF C

\* What became of the next live-support subsection is in the next stage if
\* the second walk keeps it.
LEMMA CoverOfSupport ==
    ASSUME TypeOK, NEW X \in SUBSET Isec, LtoBrings(before, g, X),
           NEW st, IsFirstWalk(before, st), NEW n \in DOMAIN g.support,
           NEW V, V \subseteq Cover(before, g, X, st[At(before, n)])
    PROVE  /\ V \subseteq Cover(before, g, X, st[At(before, n + 1)])
           /\ g.support[n] \in g.inLink /\ Targets(g.support[n]) \cap V # {}
                  => g.redirect[g.support[n]] \in Cover(before, g, X, st[At(before, n + 1)])
<1> DEFINE s == g.support[n]
           L == Len(before.support)
<1>1. /\ g.target \in [Isec -> SUBSET Isec] /\ g.redirect \in [Isec -> Isec]
      /\ before.target \in [Isec -> SUBSET Isec]
      /\ L \in Nat /\ DOMAIN before.support = 1..L
      /\ Len(g.support) \in Nat /\ DOMAIN g.support = 1..Len(g.support) /\ s \in Isec
  BY GraphTypes DEF TypeOK
<1>2. CASE n <= L
  <2>1. n \in 1..L /\ At(before, n) = n /\ At(before, n + 1) = n + 1
    BY <1>1, <1>2 DEF At, Last
  <2>2. StageStep(before, before.support[n], st[n], st[n + 1]) /\ st[n] \subseteq Isec
    BY <1>1, <2>1 DEF IsFirstWalk, IsStages, Last
  <2>3. V \subseteq Cover(before, g, X, st[n + 1])
    BY <2>1, <2>2 DEF StageStep, Cover, Became
  <2>4. ASSUME s \in g.inLink, NEW r \in Targets(s), r \in V
        PROVE  g.redirect[s] \in Cover(before, g, X, st[n + 1])
    <3>1. /\ s = before.support[n] /\ s \notin Added(before, g)
          /\ g.redirect[s] \in X \cup Became(before, g, {s})
          /\ TargetsOf(g, s) \cap X = {}
          /\ \A i \in Isec : g.redirect[i] \in TargetsOf(g, s) => i \in before.target[s]
      BY <1>1, <2>1 DEF LtoBrings
    <3>2. r \in TargetsOf(g, s) /\ r \notin X
      BY <2>4, <3>1 DEF Targets
    <3>3. PICK i \in st[n] : r = g.redirect[i]
      BY <2>1, <2>4, <3>2 DEF Cover, Became
    <3>4. i \in Isec /\ i \in before.target[s] /\ before.redirect[i] = i
      BY <2>2, <3>1, <3>2, <3>3 DEF LtoBrings
    <3>5. TargetsOf(before, s) \cap st[n] # {}
      BY <3>3, <3>4 DEF TargetsOf
    <3>6. s \in before.inLink /\ before.redirect[s] = s
      BY <1>1, <2>4, <3>1 DEF Added, LtoBrings
    <3>7. s \in st[n + 1]
      BY <2>2, <3>1, <3>5, <3>6 DEF StageStep
    <3> QED
      BY <3>1, <3>7 DEF Cover, Became
  <2> QED
    BY <2>1, <2>3, <2>4
<1>3. CASE n > L
  <2>1. At(before, n) = L + 1 /\ At(before, n + 1) = L + 1
    BY <1>1, <1>3 DEF At, Last
  <2>2. n \in L + 1..Len(g.support)
    BY <1>1, <1>3
  <2>3. s \in Added(before, g)
    BY <2>2 DEF LtoBrings
  <2>4. g.redirect[s] \in X
    BY <2>3 DEF LtoBrings
  <2> QED
    BY <2>1, <2>4 DEF Cover
<1> QED
  BY <1>1, <1>2, <1>3

LEMMA FirstStep == IInv /\ IInv' /\ FirstInv /\ [Next]_vars => FirstInv'
<1> SUFFICES ASSUME IInv, IInv', FirstInv, [Next]_vars
             PROVE  FirstInv'
  OBVIOUS
<1>t. /\ TypeOK /\ TypeOK' /\ Phases /\ visited \in SUBSET Isec /\ visited' \in SUBSET Isec
      /\ cursor \in Nat \ {0}
      /\ Len(g.support) \in Nat /\ DOMAIN g.support = 1..Len(g.support)
  BY GraphTypes DEF IInv, TypeOK
<1>1. ASSUME UNCHANGED <<g, pass, pc, cursor>>, pc = "support" => UNCHANGED visited
      PROVE  FirstInv'
  BY <1>1 DEF FirstInv
\* The stage that the walk begins with.
<1>2. ASSUME pc \in {"mark", "walk"}, pc' = "support", UNCHANGED <<g, pass, cursor, visited>>
      PROVE  FirstInv'
  <2> DEFINE st == [k \in 1..1 |-> visited]
  <2>1. IsStages(g, st, 1) /\ st[1] = visited
    BY <1>t DEF IsStages
  <2> HIDE DEF st
  <2> QED
    BY <1>t, <1>2, <2>1 DEF FirstInv
<1>3. ASSUME NEW i \in Isec, Walk(i)
      PROVE  FirstInv'
  <2>1. /\ pc \in {"walk", "support"} /\ UNCHANGED <<g, pass, pc, cursor>>
        /\ visited' = visited \cup (Targets(i) \ visited)
    BY <1>3 DEF Walk
  <2>2. CASE ~(pass = "lto" /\ pc = "support")
    BY <2>1, <2>2 DEF FirstInv
  <2>3. CASE pass = "lto" /\ pc = "support"
    <3>1. PICK st : IsStages(g, st, cursor) /\ st[cursor] = visited
      BY <2>3 DEF FirstInv
    <3> DEFINE next == [k \in 1..cursor |-> IF k = cursor THEN visited' ELSE st[k]]
    <3>2. next \in [1..cursor -> SUBSET Isec] /\ next[cursor] = visited'
      BY <1>t, <3>1 DEF IsStages
    <3>3. ASSUME NEW k \in 1..(cursor - 1)
          PROVE  StageOK(g, next[k]) /\ StageStep(g, g.support[k], next[k], next[k + 1])
      <4>1. StageOK(g, st[k]) /\ StageStep(g, g.support[k], st[k], st[k + 1]) /\ next[k] = st[k]
        BY <1>t, <3>1, <3>3 DEF IsStages
      <4>2. st[k + 1] \subseteq next[k + 1]
        BY <1>t, <2>1, <3>1, <3>3
      <4> HIDE DEF next
      <4> QED
        BY <4>1, <4>2 DEF StageStep
    <3>4. IsStages(g, next, cursor)
      <4> HIDE DEF next
      <4> QED
        BY <3>2, <3>3 DEF IsStages
    <3> HIDE DEF next
    <3> QED
      BY <2>1, <2>3, <3>2, <3>4 DEF FirstInv
  <2> QED
    BY <2>2, <2>3
\* The next stage.
<1>4. CASE MarkLiveSupport
  <2> DEFINE s == g.support[cursor]
  <2>1. /\ pc = "support" /\ queue = {} /\ cursor <= Len(g.support) /\ cursor' = cursor + 1
        /\ UNCHANGED <<g, pass, pc>> /\ visited \subseteq visited'
        /\ s \in alive /\ Targets(s) \cap visited # {} => g.redirect[s] \in visited'
    BY <1>4 DEF MarkLiveSupport
  <2>2. CASE pass # "lto"
    BY <2>1, <2>2 DEF FirstInv
  <2>3. CASE pass = "lto"
    <3>1. PICK st : IsStages(g, st, cursor) /\ st[cursor] = visited
      BY <2>1, <2>3 DEF FirstInv
    <3>2. StageOK(g, visited)
      <4>1. Closed(visited)
        BY <2>1, DoneIsClosed
      <4>2. Seeds \subseteq visited
        BY <2>1 DEF IInv, Marking
      <4>3. FirstSeeds(g) = Seeds
        BY <2>3 DEF FirstSeeds, Seeds, RootSections
      <4>4. \A i : TargetsOf(g, i) = Targets(i)
        BY DEF TargetsOf, Targets
      <4> QED
        BY <4>1, <4>2, <4>3, <4>4 DEF StageOK, Closed
    <3>3. StageStep(g, s, visited, visited')
      BY <1>t, <2>1 DEF StageStep, TargetsOf, Targets, Phases
    <3> DEFINE next == [k \in 1..(cursor + 1) |-> IF k = cursor + 1 THEN visited' ELSE st[k]]
    <3>4. next \in [1..(cursor + 1) -> SUBSET Isec] /\ next[cursor + 1] = visited'
      BY <1>t, <3>1 DEF IsStages
    <3>5. ASSUME NEW k \in 1..cursor
          PROVE  StageOK(g, next[k]) /\ StageStep(g, g.support[k], next[k], next[k + 1])
      <4>1. next[k] = st[k] /\ (k # cursor => next[k + 1] = st[k + 1])
        BY <1>t
      <4>2. CASE k = cursor
        BY <3>1, <3>2, <3>3, <3>4, <4>1, <4>2
      <4>3. CASE k # cursor
        <5>1. k \in 1..(cursor - 1)
          BY <1>t, <4>3
        <5> QED
          BY <3>1, <4>1, <4>3, <5>1 DEF IsStages
      <4> QED
        BY <4>2, <4>3
    <3>6. IsStages(g, next, cursor + 1)
      <4>1. (cursor + 1) - 1 = cursor
        BY <1>t
      <4> HIDE DEF next
      <4> QED
        BY <3>4, <3>5, <4>1 DEF IsStages
    <3> HIDE DEF next
    <3>7. cursor' <= Len(g.support) + 1
      BY <1>t, <2>1
    <3> QED
      BY <2>1, <3>4, <3>6, <3>7 DEF FirstInv
  <2> QED
    BY <2>2, <2>3
<1>5. CASE UnmarkVisited
  <2>1. pass' = "strip" /\ pc' = "roots" /\ cursor' = 1
    BY <1>5 DEF UnmarkVisited
  <2> QED
    BY <2>1 DEF FirstInv
<1>6. CASE Sweep \/ MarkLiveReferences
  <2>1. pass = "strip" /\ pass' = pass /\ pc' \in {"swept", "done"}
    BY <1>6 DEF Sweep, MarkLiveReferences, FirstInv
  <2> QED
    BY <2>1 DEF FirstInv
<1>7. CASE CollectRootSet
  <2>1. pc = "roots" /\ pc' \in {"walk", "mark"} /\ UNCHANGED <<pass, cursor>>
    BY <1>7 DEF CollectRootSet
  <2> QED
    BY <2>1 DEF FirstInv
<1>8. CASE UNCHANGED vars
  BY <1>1, <1>8 DEF vars
<1>9. CASE \E u \in Task, chunk \in SUBSET rootsLeft : StartChunk(u, chunk)
  BY <1>1, <1>9 DEF StartChunk
<1>10. CASE \E t \in Task, i \in Isec : Take(t, i) \/ Edge(t, i)
  BY <1>1, <1>10, TaskFrame
<1>11. CASE \E t \in Task : Return(t) \/ EndTask(t)
  BY <1>1, <1>11 DEF Return, EndTask
<1>12. CASE \E t, u \in Task : Publish(t, u)
  BY <1>1, <1>12 DEF Publish
<1>13. CASE EndMark \/ EndWalk
  BY <1>2, <1>13 DEF EndMark, EndWalk
<1> QED
  BY <1>3, <1>4, <1>5, <1>6, <1>7, <1>8, <1>9, <1>10, <1>11, <1>12, <1>13 DEF Next

LEMMA SecondStep ==
    ASSUME \A l \in LtoLinks : LtoAdds(l[1], l[2]),
           IInv, IInv', FirstInv, SecondInv, [Next]_vars
    PROVE  SecondInv'
<1>t. /\ TypeOK /\ TypeOK' /\ Phases /\ visited \in SUBSET Isec
      /\ cursor \in Nat \ {0} /\ Len(before.support) \in Nat
      /\ Len(g.support) \in Nat /\ DOMAIN g.support = 1..Len(g.support)
  BY GraphTypes DEF IInv, TypeOK
\* The stages are those of the first walk for the rest of the link.
<1>1. ASSUME UNCHANGED <<g, before, pass, refs>>,
             \A X \in SUBSET Isec : \A st : pass = "strip" /\ LtoBrings(before, g, X) /\ IsCovered(X, st) =>
                 /\ pc' = "support" => visited' \subseteq Cover(before, g, X, st[At(before, cursor')])
                 /\ pc' \in {"swept", "done"} => alive' \subseteq Cover(before, g, X, st[Last(before)])
      PROVE  SecondInv'
  <2> SUFFICES ASSUME pass = "strip", before # g
               PROVE  SecondInv'
    BY <1>1 DEF SecondInv
  <2>1. PICK X \in SUBSET Isec : LtoBrings(before, g, X) /\ \E st : IsCovered(X, st)
    BY DEF SecondInv
  <2>2. PICK st : IsCovered(X, st)
    BY <2>1
  <2>3. IsCovered(X, st)'
    BY <1>1, <2>1, <2>2 DEF IsCovered
  <2> QED
    BY <1>1, <2>1, <2>3 DEF SecondInv
<1>2. ASSUME UNCHANGED <<g, before, pass, refs, pc, visited, alive, cursor>>
      PROVE  SecondInv'
  BY <1>1, <1>2 DEF IsCovered
<1>3. ASSUME UNCHANGED <<g, before, pass, refs>>, pc' \in {"roots", "mark", "walk"}
      PROVE  SecondInv'
  BY <1>1, <1>3
\* Live support begins: what is marked is what the roots reach.
<1>4. ASSUME pc \in {"mark", "walk"}, pc' = "support", UNCHANGED <<g, before, pass, refs, visited, cursor>>
      PROVE  SecondInv'
  <2>1. cursor = 1
    BY <1>4 DEF FirstInv
  <2>2. ASSUME NEW X \in SUBSET Isec, NEW st, pass = "strip", LtoBrings(before, g, X), IsCovered(X, st)
        PROVE  visited \subseteq Cover(before, g, X, st[At(before, 1)])
    <3>1. At(before, 1) = 1 /\ 1 \in 1..Last(before)
      BY <1>t DEF At, Last
    <3>2. st[1] \in SUBSET Isec /\ StageOK(before, st[1])
      BY <1>t, <2>2, <3>1 DEF IsCovered, IsFirstWalk, IsStages, Last
    <3>3. /\ Cover(before, g, X, st[1]) \in SUBSET Isec
          /\ Seeds \subseteq Cover(before, g, X, st[1]) /\ Closed(Cover(before, g, X, st[1]))
      BY <1>t, <2>2, <3>2, CoverIsClosed
    <3> QED
      BY <1>4, <3>1, <3>3 DEF IInv, NothingExtra, Marking
  <2> QED
    BY <1>1, <1>4, <2>1, <2>2
<1>5. ASSUME NEW i \in Isec, Walk(i)
      PROVE  SecondInv'
  <2>1. /\ pc \in {"walk", "support"} /\ i \in queue /\ UNCHANGED <<g, before, pass, pc, alive, cursor, refs>>
        /\ visited' = visited \cup (Targets(i) \ visited)
    BY <1>5 DEF Walk
  <2>2. i \in visited
    BY <2>1 DEF IInv, WorkIsMarked, IsPending
  <2>3. ASSUME NEW X \in SUBSET Isec, NEW st, pass = "strip", LtoBrings(before, g, X), IsCovered(X, st), pc = "support"
        PROVE  visited' \subseteq Cover(before, g, X, st[At(before, cursor)])
    <3> DEFINE n == At(before, cursor)
    <3>1. n \in 1..Last(before)
      BY <1>t DEF At, Last
    <3>2. st[n] \in SUBSET Isec /\ StageOK(before, st[n])
      <4>1. n \in 1..(Last(before) - 1) \/ n = Last(before)
        BY <1>t, <3>1 DEF Last
      <4> HIDE DEF n
      <4> QED
        BY <2>3, <3>1, <4>1 DEF IsCovered, IsFirstWalk, IsStages
    <3>3. Closed(Cover(before, g, X, st[n]))
      BY <1>t, <2>3, <3>2, CoverIsClosed
    <3>4. visited \subseteq Cover(before, g, X, st[n])
      BY <2>3 DEF IsCovered
    <3> HIDE DEF n
    <3>5. Targets(i) \subseteq Cover(before, g, X, st[n])
      BY <2>2, <3>3, <3>4 DEF Closed
    <3> QED
      BY <2>1, <3>4, <3>5 DEF n
  <2> QED
    BY <1>1, <2>1, <2>3
<1>6. CASE MarkLiveSupport
  <2>1. /\ pc = "support" /\ cursor \in DOMAIN g.support /\ cursor' = cursor + 1
        /\ UNCHANGED <<g, before, pass, pc, refs>>
        /\ \/ /\ g.support[cursor] \in alive /\ Targets(g.support[cursor]) \cap visited # {}
              /\ visited' = visited \cup {g.redirect[g.support[cursor]]}
           \/ visited' = visited
    BY <1>t, <1>6 DEF MarkLiveSupport
  <2>2. alive = g.inLink
    BY <1>t, <2>1 DEF Phases
  <2>3. ASSUME NEW X \in SUBSET Isec, NEW st, LtoBrings(before, g, X), IsCovered(X, st)
        PROVE  visited' \subseteq Cover(before, g, X, st[At(before, cursor + 1)])
    <3>1. IsFirstWalk(before, st) /\ visited \subseteq Cover(before, g, X, st[At(before, cursor)])
      BY <2>1, <2>3 DEF IsCovered
    <3>2. /\ visited \subseteq Cover(before, g, X, st[At(before, cursor + 1)])
          /\ g.support[cursor] \in g.inLink /\ Targets(g.support[cursor]) \cap visited # {}
                 => g.redirect[g.support[cursor]] \in Cover(before, g, X, st[At(before, cursor + 1)])
      BY <1>t, <2>1, <2>3, <3>1, CoverOfSupport
    <3> QED
      BY <2>1, <2>2, <3>2
  <2> QED
    BY <1>1, <2>1, <2>3
<1>7. CASE Sweep
  <2>1. /\ pc = "support" /\ pass = "strip" /\ cursor > Len(g.support) /\ pc' = "swept"
        /\ alive' = alive \cap visited /\ UNCHANGED <<g, before, pass, refs>>
    BY <1>7 DEF Sweep, SupportDone
  <2>2. ASSUME NEW X \in SUBSET Isec, NEW st, LtoBrings(before, g, X), IsCovered(X, st)
        PROVE  alive' \subseteq Cover(before, g, X, st[Last(before)])
    <3>1. Len(before.support) <= Len(g.support)
      BY <2>2 DEF LtoBrings
    <3>2. At(before, cursor) = Last(before)
      BY <1>t, <2>1, <3>1 DEF At, Last
    <3> QED
      BY <2>1, <2>2, <3>2 DEF IsCovered
  <2> QED
    BY <1>1, <2>1, <2>2
<1>8. CASE MarkLiveReferences
  <2>1. pc = "swept" /\ pc' = "done" /\ UNCHANGED <<g, before, pass, alive, refs>>
    BY <1>8 DEF MarkLiveReferences
  <2> QED
    BY <1>1, <2>1 DEF IsCovered
\* The first walk is over: its stages are the witness.
<1>9. CASE UnmarkVisited
  <2>1. /\ pc = "support" /\ queue = {} /\ cursor > Len(g.support) /\ pass = "lto"
        /\ refs' = UNION {g.names[i] : i \in visited}
        /\ before' = g /\ pc' = "roots"
        /\ \E l \in LtoLinks : g = l[1] /\ g' = l[2]
    BY <1>9 DEF UnmarkVisited, SupportDone
  <2>2. PICK X \in SUBSET Isec : LtoBrings(g, g', X)
    BY <2>1 DEF LtoAdds
  <2>3. PICK st : IsStages(g, st, cursor) /\ st[cursor] = visited
    BY <2>1 DEF FirstInv
  <2>4. cursor = Last(g)
    BY <1>t, <2>1 DEF FirstInv, Last
  <2>5. StageOK(g, visited)
    <3>1. Closed(visited) /\ Seeds \subseteq visited
      BY <2>1, DoneIsClosed DEF IInv, Marking
    <3>2. FirstSeeds(g) = Seeds
      BY <2>1 DEF FirstSeeds, Seeds, RootSections
    <3>3. \A i : TargetsOf(g, i) = Targets(i)
      BY DEF TargetsOf, Targets
    <3> QED
      BY <3>1, <3>2, <3>3 DEF StageOK, Closed
  <2>6. IsFirstWalk(before', st)
    BY <2>1, <2>3, <2>4, <2>5 DEF IsFirstWalk
  <2>7. IsCovered(X, st)'
    BY <2>1, <2>3, <2>4, <2>6 DEF IsCovered
  <2> QED
    BY <2>1, <2>2, <2>7 DEF SecondInv
<1>10. CASE UNCHANGED vars
  BY <1>2, <1>10 DEF vars
<1>11. CASE CollectRootSet
  BY <1>3, <1>11 DEF CollectRootSet
<1>12. CASE \E u \in Task, chunk \in SUBSET rootsLeft : StartChunk(u, chunk)
  BY <1>3, <1>12 DEF StartChunk
<1>13. CASE \E t \in Task, i \in Isec : Take(t, i) \/ Edge(t, i)
  BY <1>3, <1>13, TaskFrame
<1>14. CASE \E t \in Task : Return(t) \/ EndTask(t)
  BY <1>3, <1>14 DEF Return, EndTask
<1>15. CASE \E t, u \in Task : Publish(t, u)
  BY <1>3, <1>15 DEF Publish
<1>16. CASE EndMark \/ EndWalk
  BY <1>4, <1>16 DEF EndMark, EndWalk
<1> QED
  BY <1>5, <1>6, <1>7, <1>8, <1>9, <1>10, <1>11, <1>12, <1>13, <1>14, <1>15, <1>16 DEF Next

\* LTO loses no symbol that native code in the output uses: what the second
\* walk keeps of the objects that were there before, merged or not, is what
\* LTO brings or what became of something that the walk before LTO
\* (native_refs_before_lto) marked.
THEOREM NativeRefsArePreserved ==
    ASSUME \A l \in LtoLinks : LtoAdds(l[1], l[2])
    PROVE  Spec => []LtoPreservesUsed
<1>1. Init => FirstInv /\ SecondInv
  BY DEF Init, FirstInv, SecondInv
<1>2. IInv /\ IInv' /\ FirstInv /\ SecondInv /\ [Next]_vars => FirstInv' /\ SecondInv'
  BY FirstStep, SecondStep
<1>3. FirstInv /\ SecondInv => LtoPreservesUsed
  <2> SUFFICES ASSUME FirstInv, SecondInv, pc = "done", before # g,
                      NEW i \in alive \cap before.inLink
               PROVE  before.names[i] \cap before.defined \subseteq refs \cup g.defined
    BY DEF LtoPreservesUsed
  <2>1. pass = "strip"
    BY DEF FirstInv
  <2>2. PICK X \in SUBSET Isec : LtoBrings(before, g, X) /\ \E st : IsCovered(X, st)
    BY <2>1 DEF SecondInv
  <2>3. PICK st : IsCovered(X, st)
    BY <2>2
  <2>4. i \in X \cup Became(before, g, st[Last(before)])
    BY <2>3 DEF IsCovered, Cover
  <2>5. CASE i \in X
    BY <2>2, <2>5 DEF LtoBrings, Added
  <2>6. CASE i \in Became(before, g, st[Last(before)])
    <3>1. PICK j \in st[Last(before)] : Alike(before, g, j) /\ i = g.redirect[j]
      BY <2>6 DEF Became
    <3>2. before.names[j] \subseteq refs
      BY <2>3, <3>1 DEF IsCovered
    <3> QED
      BY <3>1, <3>2 DEF Alike
  <2> QED
    BY <2>4, <2>5, <2>6
<1> QED
  BY <1>1, <1>2, <1>3, StripInvariant, PTL DEF Spec

\* Whoever else goes by the walks' results can: LTO and -why_live.
THEOREM WalksAreUsable ==
    ASSUME \A l \in LtoLinks : LtoAdds(l[1], l[2])
    PROVE  Spec => []ResultsAreUsable
<1>1. LtoPreservesUsed /\ WhyChainsEnd => ResultsAreUsable
  BY DEF ResultsAreUsable
<1> QED
  BY <1>1, NativeRefsArePreserved, ReasonsEnd, PTL

=============================================================================
