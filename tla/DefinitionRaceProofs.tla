------------------------ MODULE DefinitionRaceProofs ------------------------
(***************************************************************************)
(* For every set of objects and symbols and every table of ranks: the      *)
(* definition race never has two writers for one symbol's slot, and its    *)
(* outcome does not depend on the interleaving.                            *)
(***************************************************************************)
EXTENDS DefinitionRace, TLAPS

USE InfinityIsNat, NoneIsNoObject DEF None

\* Ranks are unique: two objects whose definitions of a symbol are both the
\* best one are the same object.
LEMMA BestIsUnique ==
    ASSUME TypeOK, NEW o \in Obj, NEW p \in Obj, NEW s \in Sym,
           IsBest(o, s), IsBest(p, s)
    PROVE  o = p
<1>1. rank[o][s] \in 0..(Infinity - 1) /\ rank[p][s] \in 0..(Infinity - 1)
  BY DEF TypeOK, RankTables, IsBest, Definitions
<1>2. rank[o][s] = rank[p][s]
  BY <1>1 DEF IsBest
<1>3. QED
  BY <1>1, <1>2 DEF TypeOK, RankTables

\* A definition's rank is a number below u64::MAX.
LEMMA RankRange ==
    ASSUME TypeOK, NEW o \in Obj, NEW s \in Sym, <<o, s>> \in Definitions
    PROVE  rank[o][s] \in 0..(Infinity - 1)
BY DEF TypeOK, RankTables, Definitions

\* The invariant holds as the race starts.
LEMMA InitIInv == Init => IInv
<1> SUFFICES ASSUME Init PROVE IInv
  OBVIOUS
<1>1. TypeOK
  BY DEF Init, TypeOK
<1>2. PhasesInOrder
  BY DEF Init, PhasesInOrder
<1>3. BestOfRaced /\ BestAfterRace
  BY DEF Init, BestOfRaced, BestAfterRace
<1>4. OnlyBestWrites /\ OwnerWrote /\ ResetWithSlot
  BY DEF Init, OnlyBestWrites, OwnerWrote, ResetWithSlot, IsBest
<1>5. QED
  BY <1>1, <1>2, <1>3, <1>4 DEF IInv

\* One fetch_min keeps the invariant.
LEMMA RaceDefinitionKeeps ==
    ASSUME IInv, NEW o \in Obj, NEW s \in Sym, RaceDefinition(o, s)
    PROVE  IInv'
<1> USE DEF RaceDefinition
<1>1. Definitions' = Definitions /\ <<o, s>> \in Definitions /\ phase = "race" /\ phase' = "race"
  BY DEF IInv, TypeOK, Definitions
<1>2. rank[o][s] \in 0..(Infinity - 1)
  BY <1>1, RankRange DEF IInv
<1>3. best \in [Sym -> 0..Infinity]
  BY DEF IInv, TypeOK
<1>4. TypeOK'
  BY <1>1, <1>2, <1>3 DEF IInv, TypeOK, Smaller, RankTables
<1>5. PhasesInOrder'
  BY <1>1 DEF IInv, PhasesInOrder
<1>6. BestOfRaced'
  <2>1. \A d \in Definitions \ racing' : best'[d[2]] <= rank[d[1]][d[2]]
    <3> SUFFICES ASSUME NEW d \in Definitions \ racing'
                 PROVE  best'[d[2]] <= rank[d[1]][d[2]]
      OBVIOUS
    <3>1. d[1] \in Obj /\ d[2] \in Sym /\ d = <<d[1], d[2]>>
      BY DEF Definitions
    <3>2. rank[d[1]][d[2]] \in 0..(Infinity - 1)
      BY <3>1, RankRange DEF IInv
    <3>3. CASE d = <<o, s>>
      BY <1>2, <1>3, <3>3 DEF Smaller
    <3>4. CASE d # <<o, s>>
      <4>1. best[d[2]] <= rank[d[1]][d[2]]
        BY <1>1, <3>4 DEF IInv, BestOfRaced
      <4>2. best'[d[2]] <= best[d[2]]
        BY <1>2, <1>3, <3>1 DEF Smaller
      <4>3. best'[d[2]] \in Int
        BY <1>4, <3>1 DEF TypeOK
      <4>4. QED
        BY <1>3, <3>1, <3>2, <4>1, <4>2, <4>3
    <3>5. QED
      BY <3>3, <3>4
  <2>2. ASSUME NEW t \in Sym, best'[t] # Infinity
        PROVE  \E p \in Obj : <<p, t>> \in Definitions /\ rank[p][t] = best'[t]
    <3>1. CASE t = s /\ best'[t] = rank[o][s]
      BY <1>1, <3>1
    <3>2. CASE ~(t = s /\ best'[t] = rank[o][s])
      <4>1. best'[t] = best[t]
        BY <1>3, <3>2 DEF Smaller
      <4>2. QED
        BY <2>2, <4>1 DEF IInv, BestOfRaced
    <3>3. QED
      BY <3>1, <3>2
  <2>3. QED
    BY <1>1, <2>1, <2>2 DEF BestOfRaced
<1>7. BestAfterRace'
  BY <1>1 DEF BestAfterRace
<1>8. OnlyBestWrites' /\ OwnerWrote' /\ ResetWithSlot'
  <2>1. written = {} /\ writing = {}
    BY <1>1 DEF IInv, PhasesInOrder
  <2>2. QED
    BY <1>1, <2>1 DEF IInv, OnlyBestWrites, OwnerWrote, ResetWithSlot, IsBest
<1>9. QED
  BY <1>4, <1>5, <1>6, <1>7, <1>8 DEF IInv

\* The barrier between the two phases: everything has raced, so `best' is
\* the minimum.
LEMMA EndRaceKeeps ==
    ASSUME IInv, EndRace PROVE IInv'
<1> USE DEF EndRace
<1>1. Definitions' = Definitions
  BY DEF Definitions
<1>2. TypeOK'
  BY <1>1 DEF IInv, TypeOK, RankTables
<1>3. PhasesInOrder'
  BY <1>1 DEF IInv, PhasesInOrder
<1>4. BestOfRaced'
  BY <1>1 DEF IInv, BestOfRaced
<1>5. BestAfterRace'
  <2> SUFFICES ASSUME NEW t \in Sym, NEW p \in Obj, <<p, t>> \in Definitions
               PROVE  best[t] <= rank[p][t]
    BY <1>1 DEF BestAfterRace
  <2> QED
    BY DEF IInv, BestOfRaced
<1>6. OnlyBestWrites' /\ OwnerWrote' /\ ResetWithSlot'
  BY <1>1 DEF IInv, OnlyBestWrites, OwnerWrote, ResetWithSlot, IsBest
<1>7. QED
  BY <1>2, <1>3, <1>4, <1>5, <1>6 DEF IInv

\* The comparison lets exactly the best definition go on to the slot.
LEMMA CompareKeeps ==
    ASSUME IInv, NEW o \in Obj, NEW s \in Sym, Compare(o, s)
    PROVE  IInv'
<1> USE DEF Compare
<1>1. Definitions' = Definitions /\ <<o, s>> \in Definitions
  BY DEF IInv, TypeOK, Definitions
<1>2. rank[o][s] \in 0..(Infinity - 1) /\ best[s] \in 0..Infinity
  BY <1>1, RankRange DEF IInv, TypeOK
<1>3. TypeOK'
  BY <1>1 DEF IInv, TypeOK, RankTables
<1>4. PhasesInOrder'
  BY <1>1 DEF IInv, PhasesInOrder
<1>5. BestOfRaced' /\ BestAfterRace' /\ OwnerWrote' /\ ResetWithSlot'
  BY <1>1 DEF IInv, BestOfRaced, BestAfterRace, OwnerWrote, ResetWithSlot, IsBest
<1>6. ASSUME best[s] = rank[o][s] PROVE IsBest(o, s)
  BY <1>1, <1>2, <1>6 DEF IInv, BestAfterRace, IsBest
<1>7. ASSUME IsBest(o, s) PROVE best[s] = rank[o][s]
  <2>1. CASE \A p \in Obj : <<p, s>> \in Definitions => best[s] <= rank[p][s]
    <3>1. best[s] <= rank[o][s] /\ best[s] # Infinity
      BY <1>1, <1>2, <2>1
    <3>2. PICK p \in Obj : <<p, s>> \in Definitions /\ rank[p][s] = best[s]
      BY <3>1 DEF IInv, BestOfRaced
    <3>3. rank[o][s] <= rank[p][s]
      BY <1>7, <3>2 DEF IsBest
    <3>4. QED
      BY <1>2, <3>1, <3>2, <3>3
  <2>2. CASE \E p \in Obj : IsBest(p, s) /\ <<p, s>> \in written \cap discarded
    <3>1. PICK p \in Obj : IsBest(p, s) /\ <<p, s>> \in written
      BY <2>2
    <3>2. p = o
      BY <1>7, <3>1, BestIsUnique DEF IInv
    <3>3. QED
      BY <3>1, <3>2 DEF IInv, PhasesInOrder
  <2>3. QED
    BY <2>1, <2>2 DEF IInv, BestAfterRace
<1>8. OnlyBestWrites'
  <2>1. \A p \in Obj, t \in Sym : IsBest(p, t)' <=> IsBest(p, t)
    BY <1>1 DEF IsBest
  <2>2. \A d \in (writing \cup written)' : IsBest(d[1], d[2])' 
    <3> SUFFICES ASSUME NEW d \in (writing \cup written)'
                 PROVE  IsBest(d[1], d[2])'
      OBVIOUS
    <3>1. d \in Definitions /\ d[1] \in Obj /\ d[2] \in Sym
      BY <1>1, <1>3 DEF TypeOK, Definitions
    <3>2. IsBest(d[1], d[2])
      <4>1. CASE d \in writing \cup written
        BY <4>1 DEF IInv, OnlyBestWrites
      <4>2. CASE d \notin writing \cup written
        BY <1>6, <4>2
      <4>3. QED
        BY <4>1, <4>2
    <3>3. QED
      BY <2>1, <3>1, <3>2
  <2>3. ASSUME NEW p \in Obj, NEW t \in Sym, IsBest(p, t)'
        PROVE  <<p, t>> \in (claiming \cup writing \cup written)'
    <3>1. IsBest(p, t)
      BY <2>1, <2>3
    <3>2. <<p, t>> \in claiming \cup writing \cup written
      BY <3>1 DEF IInv, OnlyBestWrites
    <3>3. CASE <<p, t>> = <<o, s>>
      <4>1. p = o /\ t = s
        BY <3>3
      <4>2. best[s] = rank[o][s]
        BY <1>7, <3>1, <4>1
      <4>3. QED
        BY <3>3, <4>2
    <3>4. CASE <<p, t>> # <<o, s>>
      BY <3>2, <3>4
    <3>5. QED
      BY <3>3, <3>4
  <2>4. QED
    BY <2>2, <2>3 DEF OnlyBestWrites
<1>9. QED
  BY <1>3, <1>4, <1>5, <1>8 DEF IInv

\* Writing the slot keeps the invariant: a discarded winner resets `best'
\* and leaves the symbol without an owner, another one becomes the owner.
LEMMA ClaimDefinitionKeeps ==
    ASSUME IInv, NEW o \in Obj, NEW s \in Sym, ClaimDefinition(o, s)
    PROVE  IInv'
<1> USE DEF ClaimDefinition
<1>1. Definitions' = Definitions /\ <<o, s>> \in Definitions
  BY DEF IInv, TypeOK, Definitions
<1>2. IsBest(o, s) /\ \A p \in Obj, t \in Sym : IsBest(p, t)' <=> IsBest(p, t)
  BY <1>1 DEF IInv, OnlyBestWrites, IsBest
<1>3. TypeOK'
  <2>1. best' \in [Sym -> 0..Infinity]
    BY DEF IInv, TypeOK
  <2>2. owner' \in [Sym -> Obj \cup {None}]
    BY DEF IInv, TypeOK
  <2>3. rank' \in RankTables'
    BY DEF IInv, TypeOK, RankTables
  <2>4. QED
    BY <1>1, <2>1, <2>2, <2>3 DEF IInv, TypeOK
<1>4. PhasesInOrder'
  BY <1>1 DEF IInv, PhasesInOrder
<1>5. BestOfRaced'
  <2>1. \A t \in Sym : best'[t] = Infinity \/ best'[t] = best[t]
    BY DEF IInv, TypeOK
  <2>2. QED
    BY <1>1, <2>1 DEF IInv, BestOfRaced, PhasesInOrder
<1>6. BestAfterRace'
  <2> SUFFICES ASSUME NEW t \in Sym
               PROVE  \/ \A p \in Obj : <<p, t>> \in Definitions => best'[t] <= rank[p][t]
                      \/ /\ best'[t] = Infinity
                         /\ \E p \in Obj : IsBest(p, t) /\ <<p, t>> \in written' \cap discarded
    BY <1>1, <1>2 DEF BestAfterRace
  <2>1. CASE t = s /\ <<o, s>> \in discarded
    BY <1>2, <2>1 DEF IInv, TypeOK
  <2>2. CASE ~(t = s /\ <<o, s>> \in discarded)
    <3>1. best'[t] = best[t]
      BY <2>2 DEF IInv, TypeOK
    <3>2. QED
      BY <3>1 DEF IInv, BestAfterRace
  <2>3. QED
    BY <2>1, <2>2
<1>7. OnlyBestWrites'
  <2>1. (writing \cup written)' = writing \cup written
    OBVIOUS
  <2>2. \A d \in writing \cup written : d[1] \in Obj /\ d[2] \in Sym
    BY DEF IInv, TypeOK, Definitions
  <2>3. QED
    BY <1>2, <2>1, <2>2 DEF IInv, OnlyBestWrites
<1>8. ASSUME NEW p \in Obj, <<p, s>> \in writing \cup written PROVE p = o
  BY <1>2, <1>8, BestIsUnique DEF IInv, OnlyBestWrites
<1>9. OwnerWrote'
  <2> SUFFICES ASSUME NEW t \in Sym, NEW p \in Obj
               PROVE  owner'[t] = p <=> <<p, t>> \in written' \ discarded
    BY DEF OwnerWrote
  <2>1. CASE t # s
    BY <2>1 DEF IInv, OwnerWrote, TypeOK
  <2>2. CASE t = s
    BY <1>8, <2>2 DEF IInv, TypeOK
  <2>3. QED
    BY <2>1, <2>2
<1>10. ResetWithSlot'
  <2> SUFFICES ASSUME NEW t \in Sym, NEW p \in Obj, <<p, t>> \in written' \cap discarded
               PROVE  best'[t] = Infinity
    BY DEF ResetWithSlot
  <2>1. CASE <<p, t>> = <<o, s>>
    BY <2>1 DEF IInv, TypeOK
  <2>2. CASE <<p, t>> # <<o, s>>
    BY <2>2 DEF IInv, TypeOK, ResetWithSlot
  <2>3. QED
    BY <2>1, <2>2
<1>11. QED
  BY <1>3, <1>4, <1>5, <1>6, <1>7, <1>9, <1>10 DEF IInv

\* The join of the second phase keeps the invariant.
LEMMA EndClaimKeeps ==
    ASSUME IInv, EndClaim PROVE IInv'
<1> USE DEF EndClaim
<1>1. Definitions' = Definitions
  BY DEF Definitions
<1>2. TypeOK'
  BY <1>1 DEF IInv, TypeOK, RankTables
<1>3. PhasesInOrder'
  BY <1>1 DEF IInv, PhasesInOrder
<1>4. BestOfRaced' /\ BestAfterRace'
  BY <1>1 DEF IInv, BestOfRaced, BestAfterRace, IsBest
<1>5. OnlyBestWrites' /\ OwnerWrote' /\ ResetWithSlot'
  BY <1>1 DEF IInv, OnlyBestWrites, OwnerWrote, ResetWithSlot, IsBest
<1>6. QED
  BY <1>2, <1>3, <1>4, <1>5 DEF IInv

\* Stuttering keeps the invariant.
LEMMA StutterKeeps ==
    ASSUME IInv, UNCHANGED vars PROVE IInv'
<1> USE DEF vars
<1>1. Definitions' = Definitions
  BY DEF Definitions
<1>2. TypeOK' /\ PhasesInOrder'
  BY <1>1 DEF IInv, TypeOK, RankTables, PhasesInOrder
<1>3. BestOfRaced' /\ BestAfterRace'
  BY <1>1 DEF IInv, BestOfRaced, BestAfterRace, IsBest
<1>4. OnlyBestWrites' /\ OwnerWrote' /\ ResetWithSlot'
  BY <1>1 DEF IInv, OnlyBestWrites, OwnerWrote, ResetWithSlot, IsBest
<1>5. QED
  BY <1>2, <1>3, <1>4 DEF IInv

\* The invariant of the race holds in every state of every round.
THEOREM RaceInvariant == Spec => []IInv
<1>1. Init => IInv
  BY InitIInv
<1>2. IInv /\ [Next]_vars => IInv'
  <2> SUFFICES ASSUME IInv, [Next]_vars PROVE IInv'
    OBVIOUS
  <2>1. ASSUME NEW o \in Obj, NEW s \in Sym, RaceDefinition(o, s) PROVE IInv'
    BY <2>1, RaceDefinitionKeeps
  <2>2. ASSUME NEW o \in Obj, NEW s \in Sym, Compare(o, s) PROVE IInv'
    BY <2>2, CompareKeeps
  <2>3. ASSUME NEW o \in Obj, NEW s \in Sym, ClaimDefinition(o, s) PROVE IInv'
    BY <2>3, ClaimDefinitionKeeps
  <2>4. CASE EndRace
    BY <2>4, EndRaceKeeps
  <2>5. CASE EndClaim
    BY <2>5, EndClaimKeeps
  <2>6. CASE Done
    BY <2>6, StutterKeeps DEF Done
  <2>7. CASE UNCHANGED vars
    BY <2>7, StutterKeeps
  <2>8. QED
    BY <2>1, <2>2, <2>3, <2>4, <2>5, <2>6, <2>7 DEF Next
<1>3. QED
  BY <1>1, <1>2, PTL DEF Spec

\* No two tasks of a round write one symbol's slot: the safety argument of
\* the unsafe write in ObjectFile::claim_definitions.
THEOREM SingleWriter == Spec => []OneWriter
<1>1. IInv => OneWriter
  <2> SUFFICES ASSUME IInv, NEW d \in writing \cup written, NEW e \in writing \cup written,
                      d[2] = e[2]
               PROVE  d = e
    BY DEF OneWriter
  <2>1. /\ d = <<d[1], d[2]>> /\ d[1] \in Obj /\ d[2] \in Sym
        /\ e = <<e[1], e[2]>> /\ e[1] \in Obj /\ e[2] \in Sym
    BY DEF IInv, TypeOK, Definitions
  <2>2. IsBest(d[1], d[2]) /\ IsBest(e[1], d[2])
    BY DEF IInv, OnlyBestWrites
  <2>3. d[1] = e[1]
    BY <2>1, <2>2, BestIsUnique DEF IInv
  <2>4. QED
    BY <2>1, <2>3
<1>2. QED
  BY <1>1, RaceInvariant, PTL

\* A round gives each symbol to its best definition, in every interleaving.
THEOREM OutcomeIsOrderFree == Spec => []WinnerIsBest
<1>1. IInv => WinnerIsBest
  <2> SUFFICES ASSUME IInv, phase = "done", NEW s \in Sym, NEW o \in Obj
               PROVE  owner[s] = o <=> IsBest(o, s) /\ <<o, s>> \notin discarded
    BY DEF WinnerIsBest
  <2>1. owner[s] = o <=> <<o, s>> \in written \ discarded
    BY DEF IInv, OwnerWrote
  <2>2. <<o, s>> \in written <=> IsBest(o, s)
    <3>1. IsBest(o, s) => <<o, s>> \in written
      BY DEF IInv, OnlyBestWrites, PhasesInOrder
    <3>2. <<o, s>> \in written => IsBest(o, s)
      BY DEF IInv, OnlyBestWrites
    <3>3. QED
      BY <3>1, <3>2
  <2>3. QED
    BY <2>1, <2>2
<1>2. QED
  BY <1>1, RaceInvariant, PTL
=============================================================================
