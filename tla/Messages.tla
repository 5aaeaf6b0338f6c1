------------------------------ MODULE Messages ------------------------------
(***************************************************************************)
(* Diagnostics, macho/error.rs, as driver::link and parse_args use them.   *)
(*                                                                         *)
(* The link's own thread writes its messages at once.  Those of a parallel *)
(* pass's workers wait in PARALLEL, and the link's thread writes them,     *)
(* sorted, before its next message, at the next checkpoint, or as the link *)
(* ends.  A worker that meets a fatal error writes what waits and ends the *)
(* process.  The warnings that options give are held back until the target *)
(* they were read for turns out to be the right one.                       *)
(*                                                                         *)
(* The link's thread only runs while no pass does, so its operations are   *)
(* single steps; a worker's are one step per lock, store and write.  A     *)
(* message is its text's number; the line it is rendered to has the kind.  *)
(***************************************************************************)
EXTENDS Integers, Sequences, SequencesExt, FiniteSets

CONSTANTS
    Worker,      \* rayon's threads
    Text,        \* the messages' texts, numbered in byte order
    OptWarning,  \* the warnings the options give, in the order they are read
    MaxGiven,    \* bound: messages given by the passes and between them
    MaxPasses,   \* bound: parallel passes
    MaxDying     \* bound: workers that meet a fatal error

MessageAssumption ==
    /\ IsFiniteSet(Worker) /\ Text \subseteq Nat /\ OptWarning \in Seq(Text)
    /\ MaxGiven \in Nat /\ MaxPasses \in Nat /\ MaxDying \in Nat

VARIABLES
    opt,       \* the options: -w, -fatal_warnings, and whether the first target is wrong
    flags,     \* SUPPRESS_WARNINGS and FATAL_WARNINGS
    held,      \* HELD: {} if nothing is held back, else {what is}
    waiting,   \* PARALLEL
    hasError,  \* HAS_ERROR
    outLock,   \* who holds OUTPUT_LOCK, or Nobody
    out,       \* the lines on stderr
    pc,        \* the link's thread: "options", "link", "pass", "closing"
    passes,    \* parallel passes so far
    at,        \* the workers: "run", "flag", "take", "lock", "write", "exit"
    mine,      \* what a dying worker took from PARALLEL
    child,     \* "run", or the exit status
    given,     \* history: the lines given, by whom and in which stretch
    stretch,   \* history: how often the link's thread has written so far
    death      \* history: how many lines were given when a worker met a fatal error

outVars == <<waiting, outLock, out>>
workVars == <<at, mine, death>>
optVars == <<opt, flags, held>>
vars == <<optVars, outVars, hasError, pc, passes, workVars, child, given, stretch>>

Nobody == 0
Main == 0

\* A line as emit renders it; the prefixes come before the texts in the order.
Prefix == [notice |-> 0, error |-> 1, fatal |-> 2, warning |-> 3]
Line(kind, m) == [kind |-> kind, text |-> m]
Before(x, y) == Prefix[x.kind] < Prefix[y.kind] \/ (x.kind = y.kind /\ x.text < y.text)

\* What warn renders a warning to.
Warned(m) == Line(IF flags.fatal THEN "error" ELSE "warning", m)

Init ==
    /\ opt \in [w : BOOLEAN, fatal : BOOLEAN, wrong : BOOLEAN]
    /\ flags = [w |-> FALSE, fatal |-> FALSE]
    /\ held = {}
    /\ waiting = <<>> /\ outLock = Nobody /\ out = <<>>
    /\ hasError = FALSE
    /\ pc = "options" /\ passes = 0
    /\ at = [w \in Worker |-> "run"]
    /\ mine = [w \in Worker |-> <<>>]
    /\ death = [w \in Worker |-> 0]
    /\ child = "run"
    /\ given = <<>> /\ stretch = 0

Note(line, by) == given' = Append(given, [line |-> line, by |-> by, stretch |-> stretch])
-----------------------------------------------------------------------------
(***************************************************************************)
(* The link's thread.                                                      *)
(***************************************************************************)

\* Faulty variant: what waits comes out in the order it was given.
Released_Unsorted == out \o waiting

\* release_parallel.
Released == out \o SortSeq(waiting, Before)

\* emit on the link's thread.
Emit(line) ==
    /\ out' = Append(Released, line)
    /\ waiting' = <<>>
    /\ stretch' = stretch + 1
    /\ UNCHANGED outLock
    /\ Note(line, Main)

\* parse_args up to the target: the warnings wait in HELD.
ReadOptions ==
    /\ pc = "options" /\ child = "run" /\ held = {}
    /\ held' = {OptWarning}
    /\ UNCHANGED <<opt, flags, outVars, hasError, pc, passes, workVars, child, given, stretch>>

\* parse_args for another target than the options name: what it warned of is
\* held back and dropped, and the driver starts over.
WrongTarget ==
    /\ pc = "options" /\ child = "run" /\ held # {} /\ opt.wrong
    /\ opt' = [opt EXCEPT !.wrong = FALSE]
    /\ held' = {}
    /\ UNCHANGED <<flags, outVars, hasError, pc, passes, workVars, child, given, stretch>>

\* An option that is fatal: what is held is not given.  -help ends the same
\* way, with status 0.
OptionEnds(kind) ==
    /\ pc = "options" /\ child = "run"
    /\ \/ /\ kind = "fatal" /\ \E m \in Text : Emit(Line("fatal", m))
          /\ child' = "exit1"
       \/ /\ kind = "help" /\ child' = "exit0"
          /\ UNCHANGED <<outVars, given, stretch>>
    /\ UNCHANGED <<optVars, hasError, pc, passes, workVars>>

\* The flags are set, and the lines given one by one.
Unhold(lines) ==
    /\ pc = "options" /\ child = "run" /\ ~opt.wrong
    /\ flags' = [w |-> opt.w, fatal |-> opt.fatal]
    /\ held' = {}
    /\ pc' = "link"
    /\ out' = out \o lines
    /\ given' = given \o [n \in DOMAIN lines |-> [line |-> lines[n], by |-> Main, stretch |-> n - 1]]
    /\ stretch' = Len(lines)
    /\ hasError' = \E n \in DOMAIN lines : lines[n].kind = "error"
    /\ UNCHANGED <<opt, waiting, outLock, passes, workVars, child>>

\* set_fatal_warnings, set_suppress_warnings and release_held.
ReleaseHeld ==
    \E msgs \in held : Unhold(
        IF opt.w THEN <<>>
        ELSE [n \in DOMAIN msgs |-> Line(IF opt.fatal THEN "error" ELSE "warning", msgs[n])])

MayGive == Len(given) < MaxGiven

\* A pass on the link's thread gives a message.
Say(kind, m) ==
    /\ child = "run" /\ MayGive
    /\ \/ pc = "link"
       \/ pc = "closing" /\ kind \in {"fatal", "notice"}
    /\ \/ /\ kind = "warning" /\ ~flags.w
          /\ Emit(Warned(m))
          /\ hasError' = (hasError \/ flags.fatal)
          /\ UNCHANGED child
       \/ /\ kind = "error"
          /\ Emit(Line("error", m))
          /\ hasError' = TRUE
          /\ UNCHANGED child
       \/ /\ kind = "notice"
          /\ Emit(Line("notice", m))
          /\ UNCHANGED <<hasError, child>>
       \/ /\ kind = "fatal"
          /\ Emit(Line("fatal", m))
          /\ child' = "exit1"
          /\ UNCHANGED hasError
    /\ UNCHANGED <<optVars, pc, passes, workVars>>

StartPass ==
    /\ pc = "link" /\ child = "run" /\ passes < MaxPasses
    /\ pc' = "pass"
    /\ passes' = passes + 1
    /\ UNCHANGED <<optVars, outVars, hasError, workVars, child, given, stretch>>

\* The workers are joined.
EndPass ==
    /\ pc = "pass" /\ child = "run" /\ \A w \in Worker : at[w] = "run"
    /\ pc' = "link"
    /\ UNCHANGED <<optVars, outVars, hasError, passes, workVars, child, given, stretch>>

NextStretch == stretch' = IF waiting = <<>> THEN stretch ELSE stretch + 1

\* checkpoint; the last one comes before the output is closed.
Checkpoint(last) ==
    /\ pc = "link" /\ child = "run"
    /\ out' = Released
    /\ waiting' = <<>>
    /\ NextStretch
    /\ IF hasError THEN child' = "exit1" /\ UNCHANGED pc
       ELSE pc' = (IF last THEN "closing" ELSE pc) /\ UNCHANGED child
    /\ UNCHANGED <<optVars, outLock, hasError, passes, workVars, given>>

\* link returns Ok(0), and main exits with it.
Finish ==
    /\ pc = "closing" /\ child = "run"
    /\ child' = "exit0"
    /\ UNCHANGED <<optVars, outVars, hasError, pc, passes, workVars, given, stretch>>
-----------------------------------------------------------------------------
(***************************************************************************)
(* A worker.                                                               *)
(***************************************************************************)
Works(w, where) == pc = "pass" /\ child = "run" /\ at[w] = where
GoTo(w, where) == at' = [at EXCEPT ![w] = where]

\* emit on a worker, and what the caller does next.
Push(w, line, next) ==
    /\ waiting' = Append(waiting, line)
    /\ Note(line, w)
    /\ GoTo(w, next)

\* A pass on a worker gives a message.
Give(w, kind, m) ==
    /\ Works(w, "run") /\ MayGive
    /\ \/ /\ kind = "warning" /\ ~flags.w
          /\ Push(w, Warned(m), IF flags.fatal THEN "flag" ELSE "run")
          /\ UNCHANGED death
       \/ /\ kind = "error"
          /\ Push(w, Line("error", m), "flag")
          /\ UNCHANGED death
       \/ /\ kind = "fatal" /\ Cardinality({v \in Worker : death[v] > 0}) < MaxDying
          /\ Push(w, Line("fatal", m), "take")
          /\ death' = [death EXCEPT ![w] = Len(given) + 1]
    /\ UNCHANGED <<optVars, outLock, out, hasError, pc, passes, mine, child, stretch>>

SetError(w) ==
    /\ Works(w, "flag")
    /\ hasError' = TRUE
    /\ GoTo(w, "run")
    /\ UNCHANGED <<optVars, outVars, pc, passes, mine, death, child, given, stretch>>

\* Faulty variant: a worker that dies leaves what waits.
Take_Nothing(w) ==
    /\ Works(w, "take")
    /\ GoTo(w, "exit")
    /\ UNCHANGED <<optVars, outVars, hasError, pc, passes, mine, death, child, given, stretch>>

\* release_parallel of exit_after_cleanup: what waits is taken,
Take(w) ==
    /\ Works(w, "take")
    /\ mine' = [mine EXCEPT ![w] = SortSeq(waiting, Before)]
    /\ waiting' = <<>>
    /\ GoTo(w, IF waiting = <<>> THEN "exit" ELSE "lock")
    /\ UNCHANGED <<optVars, outLock, out, hasError, pc, passes, death, child, given, stretch>>

Lock(w) ==
    /\ Works(w, "lock") /\ outLock = Nobody
    /\ outLock' = w
    /\ GoTo(w, "write")
    /\ UNCHANGED <<optVars, waiting, out, hasError, pc, passes, mine, death, child, given, stretch>>

\* and written line by line.
Write(w) ==
    /\ Works(w, "write")
    /\ out' = Append(out, Head(mine[w]))
    /\ mine' = [mine EXCEPT ![w] = Tail(@)]
    /\ IF Len(mine[w]) = 1 THEN GoTo(w, "exit") /\ outLock' = Nobody
                           ELSE UNCHANGED <<at, outLock>>
    /\ UNCHANGED <<optVars, waiting, hasError, pc, passes, death, child, given, stretch>>

\* _exit, after the output file was removed (see OutputFile).
Exit(w) ==
    /\ Works(w, "exit")
    /\ child' = "exit1"
    /\ GoTo(w, "gone")
    /\ UNCHANGED <<optVars, outVars, hasError, pc, passes, mine, death, given, stretch>>
-----------------------------------------------------------------------------
WorkerStep(w) == SetError(w) \/ Take(w) \/ Lock(w) \/ Write(w) \/ Exit(w)
MainStep == ReadOptions \/ WrongTarget \/ ReleaseHeld \/ EndPass \/ Checkpoint(TRUE) \/ Finish

Next ==
    \/ MainStep
    \/ \E kind \in {"fatal", "help"} : OptionEnds(kind)
    \/ \E kind \in {"warning", "error", "notice", "fatal"}, m \in Text : Say(kind, m)
    \/ StartPass
    \/ Checkpoint(FALSE)
    \/ \E w \in Worker :
          \/ \E kind \in {"warning", "error", "fatal"}, m \in Text : Give(w, kind, m)
          \/ WorkerStep(w)

\* Every thread goes on, and the link's thread comes to its last checkpoint.
Spec ==
    /\ Init /\ [][Next]_vars
    /\ \A w \in Worker : WF_vars(WorkerStep(w))
    /\ WF_vars(MainStep)

-----------------------------------------------------------------------------
(***************************************************************************)
(* Properties.                                                             *)
(***************************************************************************)
Lines == [kind : DOMAIN Prefix, text : Text]

\* The variables keep their types; OUTPUT_LOCK is held by who writes.
TypeOK ==
    /\ \A msgs \in held : msgs \in Seq(Text)
    /\ waiting \in Seq(Lines) /\ out \in Seq(Lines)
    /\ hasError \in BOOLEAN /\ pc \in {"options", "link", "pass", "closing"}
    /\ at \in [Worker -> {"run", "flag", "take", "lock", "write", "exit", "gone"}]
    /\ mine \in [Worker -> Seq(Lines)]
    /\ child \in {"run", "exit0", "exit1"}
    /\ outLock \in Worker \cup {Nobody}
    /\ \A w \in Worker : at[w] = "write" <=> outLock = w

Times(line, s) == Cardinality({n \in DOMAIN s : s[n] = line})
\* What has to come out when the process ends: all that was given, or if a
\* worker ended it, what was given when it met the fatal error.
Due ==
    LET killers == {w \in Worker : at[w] = "gone"}
        upTo == IF killers = {} THEN Len(given) ELSE death[CHOOSE w \in killers : TRUE]
    IN  [n \in 1..upTo |-> given[n].line]

\* No message given is lost as the link ends: PARALLEL's messages come out
\* "before the next message the link's own thread gives, or as the link ends".
NothingIsLost ==
    child # "run" => \A n \in DOMAIN Due : Times(Due[n], out) >= Times(Due[n], Due)

\* The lines come out the same in every run, whatever the order the workers
\* gave theirs in: those of a stretch sorted, before the line of the link's
\* thread that ends it.
SameEveryRun ==
    \A i, j \in DOMAIN out : i < j => \E m, n \in DOMAIN given :
        /\ given[m].line = out[i] /\ given[n].line = out[j]
        /\ \/ given[m].stretch < given[n].stretch
           \/ /\ given[m].stretch = given[n].stretch /\ given[m].by # Main
              /\ given[n].by = Main \/ ~Before(out[j], out[i])

\* A link that gave an error does not exit with 0.
ErrorsFail ==
    child = "exit0" => \A n \in DOMAIN given : given[n].line.kind \notin {"error", "fatal"}

\* An option's warning comes out once, however many targets the options were
\* read for, with the severity that -w and -fatal_warnings give it wherever
\* they are on the command line.
OptionsWarnOnce ==
    LET warnings == {n \in DOMAIN out : out[n].kind = "warning"}
    IN  /\ \A n \in warnings :
              Times(out[n], out) <= Cardinality({k \in DOMAIN given : given[k].line = out[n]})
        /\ pc # "options" /\ (opt.w \/ opt.fatal) => warnings = {}
        /\ pc # "options" /\ ~opt.w /\ ~opt.fatal =>
              IsPrefix([n \in DOMAIN OptWarning |-> Line("warning", OptWarning[n])], out)
=============================================================================
