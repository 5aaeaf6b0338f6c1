--------------------------- MODULE DefinitionRace ---------------------------
(***************************************************************************)
(* The parallel part of a resolution round: passes::race_definitions and   *)
(* passes::claim_definitions (macho/passes.rs) with the per-object methods *)
(* of the same names (macho/input_files.rs).                               *)
(*                                                                         *)
(* Every object runs as a rayon task.  In the first phase each definition  *)
(* does an atomic minimum (fetch_min) of its rank into the symbol's entry  *)
(* of `best'.  After the join of the parallel iterator, each object        *)
(* compares its own rank with `best' and, when they are equal, writes the  *)
(* symbol's slot without a lock, through SymbolSlots::get, an unsafe       *)
(* `&mut' whose safety argument is that nobody else writes the slot.  A    *)
(* winner in a section the linker discarded puts `best' back to u64::MAX   *)
(* while the other objects are still comparing against it.                 *)
(*                                                                         *)
(* A task walks its own nlist entries in order; the model lets the entries *)
(* of one object run in any order and overlap, which only adds             *)
(* interleavings.                                                          *)
(***************************************************************************)
EXTENDS Integers, FiniteSets

CONSTANTS
    Obj,        \* the objects that take part in the round
    Sym,        \* the global symbols
    Infinity    \* u64::MAX, above every rank

None == -1      \* Option::None: the entry is no definition; no owner

ASSUME InfinityIsNat == Infinity \in Nat
ASSUME NoneIsNoObject == None \notin Obj

VARIABLES
    rank,       \* rank[o][s]: definition_rank of o's entry for s, or None
    discarded,  \* the <<o, s>> whose section was discarded (debug info)
    phase,      \* "race", "claim" or "done"
    best,       \* the shared best ranks
    racing,     \* the definitions that have not raced yet
    claiming,   \* the definitions that have not compared with `best' yet
    writing,    \* the definitions whose task is writing the symbol's slot
    written,    \* the definitions whose task has written the slot
    owner       \* Symbol::file of each symbol, or None

vars == <<rank, discarded, phase, best, racing, claiming, writing, written, owner>>

(***************************************************************************)
(* Ranks as ObjectFile::definition_rank makes them: the low bits are the   *)
(* file's priority, which no other file has, so two objects never have the *)
(* same rank for a symbol.                                                 *)
(***************************************************************************)
RankTables ==
    {f \in [Obj -> [Sym -> {None} \cup 0..(Infinity - 1)]] :
        \A o, p \in Obj : \A s \in Sym :
            (f[o][s] = f[p][s] /\ f[o][s] # None) => o = p}

\* The entries that are definitions: the ones with a rank.
Definitions == {d \in Obj \X Sym : rank[d[1]][d[2]] # None}

\* The smaller of two ranks, as fetch_min keeps it.
Smaller(a, b) == IF a <= b THEN a ELSE b

Init ==
    /\ rank \in RankTables
    /\ discarded \in SUBSET Definitions
    /\ phase = "race"
    /\ best = [s \in Sym |-> Infinity]
    /\ racing = Definitions
    /\ claiming = Definitions
    /\ writing = {}
    /\ written = {}
    /\ owner = [s \in Sym |-> None]

\* Faulty variant: a plain store for the fetch_min, so the last to race wins.
RaceDefinition_LastWins(o, s) ==
    /\ phase = "race"
    /\ <<o, s>> \in racing
    /\ best' = [best EXCEPT ![s] = rank[o][s]]
    /\ racing' = racing \ {<<o, s>>}
    /\ UNCHANGED <<rank, discarded, phase, claiming, writing, written, owner>>

\* One fetch_min of ObjectFile::race_definitions.
RaceDefinition(o, s) ==
    /\ phase = "race"
    /\ <<o, s>> \in racing
    /\ best' = [best EXCEPT ![s] = Smaller(@, rank[o][s])]
    /\ racing' = racing \ {<<o, s>>}
    /\ UNCHANGED <<rank, discarded, phase, claiming, writing, written, owner>>

\* The join of race_definitions' parallel iterator.
EndRace ==
    /\ phase = "race"
    /\ racing = {}
    /\ phase' = "claim"
    /\ UNCHANGED <<rank, discarded, best, racing, claiming, writing, written, owner>>

\* Faulty variant: "not beaten by what `best' holds now" for equality.
Compare_NotBeaten(o, s) ==
    /\ phase = "claim"
    /\ <<o, s>> \in claiming
    /\ claiming' = claiming \ {<<o, s>>}
    /\ writing' = IF best[s] >= rank[o][s] THEN writing \cup {<<o, s>>} ELSE writing
    /\ UNCHANGED <<rank, discarded, phase, best, racing, written, owner>>

\* The comparison in ObjectFile::claim_definitions: an object that lost
\* the race goes on to its next entry, the winner takes the slot.
Compare(o, s) ==
    /\ phase = "claim"
    /\ <<o, s>> \in claiming
    /\ claiming' = claiming \ {<<o, s>>}
    /\ writing' = IF best[s] = rank[o][s] THEN writing \cup {<<o, s>>} ELSE writing
    /\ UNCHANGED <<rank, discarded, phase, best, racing, written, owner>>

\* claim_definition and, when it returns false, the store of u64::MAX.
ClaimDefinition(o, s) ==
    /\ phase = "claim"
    /\ <<o, s>> \in writing
    /\ writing' = writing \ {<<o, s>>}
    /\ written' = written \cup {<<o, s>>}
    /\ IF <<o, s>> \in discarded
         THEN /\ owner' = [owner EXCEPT ![s] = None]
              /\ best' = [best EXCEPT ![s] = Infinity]
         ELSE /\ owner' = [owner EXCEPT ![s] = o]
              /\ UNCHANGED best
    /\ UNCHANGED <<rank, discarded, phase, racing, claiming>>

\* The join of claim_definitions' parallel iterator.
EndClaim ==
    /\ phase = "claim"
    /\ claiming = {}
    /\ writing = {}
    /\ phase' = "done"
    /\ UNCHANGED <<rank, discarded, best, racing, claiming, writing, written, owner>>

\* The round is over; the rest of resolve_symbols_pass goes on serially.
Done == phase = "done" /\ UNCHANGED vars

Next ==
    \/ \E o \in Obj, s \in Sym :
          RaceDefinition(o, s) \/ Compare(o, s) \/ ClaimDefinition(o, s)
    \/ EndRace
    \/ EndClaim
    \/ Done

\* Rayon runs every task of a parallel iterator to its end.
Spec == Init /\ [][Next]_vars /\ WF_vars(Next)

-----------------------------------------------------------------------------
\* The variables keep their types: `best' never leaves the range of the ranks.
TypeOK ==
    /\ rank \in RankTables
    /\ discarded \subseteq Definitions
    /\ phase \in {"race", "claim", "done"}
    /\ best \in [Sym -> 0..Infinity]
    /\ racing \subseteq Definitions
    /\ claiming \subseteq Definitions
    /\ writing \subseteq Definitions
    /\ written \subseteq Definitions
    /\ owner \in [Sym -> Obj \cup {None}]

\* o has a definition of s that no other object's beats.
IsBest(o, s) ==
    /\ <<o, s>> \in Definitions
    /\ \A p \in Obj : <<p, s>> \in Definitions => rank[o][s] <= rank[p][s]

\* No two tasks ever write one symbol's slot in a round, so the unsafe
\* `&mut Symbol' of SymbolSlots::get is exclusive, though a discarded
\* winner resets `best' under the comparisons of the others.
OneWriter ==
    \A d, e \in writing \cup written : d[2] = e[2] => d = e

\* Whatever the interleaving, a round gives each symbol to the object with
\* the best rank, or to none if that definition's section was discarded.
WinnerIsBest ==
    phase = "done" =>
        \A s \in Sym, o \in Obj :
            owner[s] = o <=> IsBest(o, s) /\ <<o, s>> \notin discarded

-----------------------------------------------------------------------------
(***************************************************************************)
(* The inductive invariant behind OneWriter and WinnerIsBest.              *)
(***************************************************************************)

\* Each step of a definition's life happens once and in order.
PhasesInOrder ==
    /\ phase = "race" =>
          claiming = Definitions /\ writing = {} /\ written = {}
    /\ phase # "race" => racing = {}
    /\ phase = "done" => claiming = {} /\ writing = {}
    /\ claiming \cap writing = {}
    /\ claiming \cap written = {}
    /\ writing \cap written = {}

\* `best' is a lower bound of what has raced, and one of the ranks.
BestOfRaced ==
    /\ phase = "race" =>
          \A d \in Definitions \ racing : best[d[2]] <= rank[d[1]][d[2]]
    /\ \A s \in Sym : best[s] # Infinity =>
          \E o \in Obj : <<o, s>> \in Definitions /\ rank[o][s] = best[s]

\* After the race, `best' is the minimum until a discarded winner resets it.
BestAfterRace ==
    phase # "race" =>
        \A s \in Sym :
            \/ \A o \in Obj : <<o, s>> \in Definitions => best[s] <= rank[o][s]
            \/ /\ best[s] = Infinity
               /\ \E o \in Obj : IsBest(o, s) /\ <<o, s>> \in written \cap discarded

\* Only the best definition of a symbol gets to write its slot, and it does.
OnlyBestWrites ==
    /\ \A d \in writing \cup written : IsBest(d[1], d[2])
    /\ \A o \in Obj, s \in Sym :
          IsBest(o, s) => <<o, s>> \in claiming \cup writing \cup written

\* A symbol's owner is the object that wrote its slot.
OwnerWrote ==
    \A s \in Sym, o \in Obj :
        owner[s] = o <=> <<o, s>> \in written \ discarded

\* The reset of `best' and the slot go together.
ResetWithSlot ==
    \A s \in Sym : (\E o \in Obj : <<o, s>> \in written \cap discarded) => best[s] = Infinity

\* What every step of a round preserves.
IInv ==
    /\ TypeOK
    /\ PhasesInOrder
    /\ BestOfRaced
    /\ BestAfterRace
    /\ OnlyBestWrites
    /\ OwnerWrote
    /\ ResetWithSlot
=============================================================================
