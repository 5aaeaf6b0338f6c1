------------------------------ MODULE DigestMap ------------------------------
(***************************************************************************)
(* The lock-free table of macho/icf.rs that counts the distinct digests of *)
(* a round and elects each one's leader.  Every candidate is entered by a  *)
(* thread of its own here; a step is one atomic operation on a slot.       *)
(*                                                                         *)
(* A slot is claimed by stamping its `hi` word with the round and a busy   *)
(* bit, and published by storing the word again without the bit, after     *)
(* `lo` and `leader`.  Slots of earlier rounds read as vacant, so the      *)
(* table is never cleared.  `hi` is loaded with Acquire (the instructions  *)
(* that builds use for a failed compare_exchange_weak acquire too) and     *)
(* published with Release, so a step sees what was stored before it.       *)
(***************************************************************************)
EXTENDS Integers, FiniteSets

CONSTANTS
    Cand,       \* the candidates for folding, numbered from 0
    NumSlots,   \* DigestMap::new: a power of two, at least twice the candidates
    Digest,     \* the digests candidates may have
    RoundBits,  \* bits of `hi` that hold the round (15)
    MaxRound    \* bound: rounds counted

Slot == 0..(NumSlots - 1)

\* A digest is what the table tells of it: the slot where probing starts, the
\* 48 bits of `hi` that a slot stores and `lo`.  Digests that differ, differ
\* in what is stored.
ASSUME DigestAssumption ==
    /\ Cand \subseteq Nat /\ IsFiniteSet(Cand)
    /\ NumSlots \in Nat /\ NumSlots >= 2 * Cardinality(Cand) /\ NumSlots > 0
    /\ Digest \subseteq [home : Slot, tag : Nat, lo : Nat]
    /\ \A d, e \in Digest : d.tag = e.tag /\ d.lo = e.lo => d = e
    /\ RoundBits \in Nat /\ MaxRound \in Nat

\* The rounds' numbers fit into the bits that hold them: 32,767 countings,
\* and each but the last found more classes than the one before.
ASSUME RoundAssumption == 2 < 2 ^ RoundBits /\ MaxRound < 2 ^ RoundBits

VARIABLES
    digest,    \* the candidates' digests this round
    round,     \* DigestMap::round
    phase,     \* "count" or "find"
    hi,        \* each slot's `hi`: the stamp, the busy bit and the tag
    lo,
    leader,
    pc,        \* where each candidate's insert is
    at,        \* the slot it looks at
    seen,      \* the `hi` it read last
    cur,       \* the leader it read last
    isNew,     \* what it returned
    leaders    \* what find returned for each candidate

slotVars == <<hi, lo, leader>>
vars == <<digest, round, phase, hi, lo, leader, pc, at, seen, cur, isNew, leaders>>

Nobody == -1

\* `round << 49` keeps the round's lowest 15 bits.
Stamp == round % (2 ^ RoundBits)
Word(tag, busy) == [stamp |-> Stamp, busy |-> busy, tag |-> tag]

StartRound(d) ==
    /\ pc' = [c \in Cand |-> "load"]
    /\ at' = [c \in Cand |-> d[c].home]

Init ==
    /\ digest \in [Cand -> Digest]
    /\ round = 2
    /\ phase = "count"
    /\ hi = [s \in Slot |-> [stamp |-> 0, busy |-> FALSE, tag |-> 0]]
    /\ lo = [s \in Slot |-> 0]
    /\ leader = [s \in Slot |-> 0]
    /\ pc = [c \in Cand |-> "load"]
    /\ at = [c \in Cand |-> digest[c].home]
    /\ seen = [c \in Cand |-> hi[0]]
    /\ cur = [c \in Cand |-> 0]
    /\ isNew = [c \in Cand |-> FALSE]
    /\ leaders = [c \in Cand |-> Nobody]

-----------------------------------------------------------------------------
(***************************************************************************)
(* insert.                                                                 *)
(***************************************************************************)
Probe(s) == (s + 1) % NumSlots

GoTo(c, where) == pc' = [pc EXCEPT ![c] = where]

\* What insert does once it has read x at its slot: claim a slot of another
\* round, pass a slot of another tag, wait for a busy one, compare `lo`.
Saw(c, x) ==
    /\ seen' = [seen EXCEPT ![c] = x]
    /\ \/ /\ x.stamp # round
          /\ GoTo(c, "claim")
          /\ UNCHANGED at
       \/ /\ x.stamp = round /\ x.tag # digest[c].tag
          /\ GoTo(c, "load")
          /\ at' = [at EXCEPT ![c] = Probe(@)]
       \/ /\ x.stamp = round /\ x.tag = digest[c].tag
          /\ GoTo(c, IF x.busy THEN "spin" ELSE "lo")
          /\ UNCHANGED at

Load(c) ==
    /\ pc[c] = "load"
    /\ Saw(c, hi[at[c]])
    /\ UNCHANGED <<digest, round, phase, slotVars, cur, isNew, leaders>>

\* Faulty variant: the busy bit is not set.
Claim_NotBusy(c) ==
    /\ pc[c] = "claim"
    /\ \/ /\ hi[at[c]] = seen[c]
          /\ hi' = [hi EXCEPT ![at[c]] = Word(digest[c].tag, FALSE)]
          /\ GoTo(c, "storeLo")
          /\ UNCHANGED <<at, seen>>
       \/ /\ hi[at[c]] # seen[c]
          /\ Saw(c, hi[at[c]])
          /\ UNCHANGED hi
    /\ UNCHANGED <<digest, round, phase, lo, leader, cur, isNew, leaders>>

\* The compare_exchange_weak of `hi`.
Claim(c) ==
    /\ pc[c] = "claim"
    /\ \/ /\ hi[at[c]] = seen[c]
          /\ hi' = [hi EXCEPT ![at[c]] = Word(digest[c].tag, TRUE)]
          /\ GoTo(c, "storeLo")
          /\ UNCHANGED <<at, seen>>
       \/ /\ hi[at[c]] # seen[c]
          /\ Saw(c, hi[at[c]])
          /\ UNCHANGED hi
    /\ UNCHANGED <<digest, round, phase, lo, leader, cur, isNew, leaders>>

StoreLo(c) ==
    /\ pc[c] = "storeLo"
    /\ lo' = [lo EXCEPT ![at[c]] = digest[c].lo]
    /\ GoTo(c, "storeLeader")
    /\ UNCHANGED <<digest, round, phase, hi, leader, at, seen, cur, isNew, leaders>>

StoreLeader(c) ==
    /\ pc[c] = "storeLeader"
    /\ leader' = [leader EXCEPT ![at[c]] = c]
    /\ GoTo(c, "publish")
    /\ UNCHANGED <<digest, round, phase, hi, lo, at, seen, cur, isNew, leaders>>

\* Faulty variant: the busy bit stays.
Publish_Busy(c) ==
    /\ pc[c] = "publish"
    /\ isNew' = [isNew EXCEPT ![c] = TRUE]
    /\ GoTo(c, "done")
    /\ UNCHANGED <<digest, round, phase, slotVars, at, seen, cur, leaders>>

\* The store of `hi` without the busy bit, and `return true`.
Publish(c) ==
    /\ pc[c] = "publish"
    /\ hi' = [hi EXCEPT ![at[c]] = Word(digest[c].tag, FALSE)]
    /\ isNew' = [isNew EXCEPT ![c] = TRUE]
    /\ GoTo(c, "done")
    /\ UNCHANGED <<digest, round, phase, lo, leader, at, seen, cur, leaders>>

\* The spin loop reads a word without the busy bit.
Spin(c) ==
    /\ pc[c] = "spin" /\ ~hi[at[c]].busy
    /\ seen' = [seen EXCEPT ![c] = hi[at[c]]]
    /\ GoTo(c, "lo")
    /\ UNCHANGED <<digest, round, phase, slotVars, at, cur, isNew, leaders>>

CheckLo(c) ==
    /\ pc[c] = "lo"
    /\ \/ /\ lo[at[c]] # digest[c].lo
          /\ GoTo(c, "load")
          /\ at' = [at EXCEPT ![c] = Probe(@)]
       \/ /\ lo[at[c]] = digest[c].lo
          /\ GoTo(c, "leader")
          /\ UNCHANGED at
    /\ UNCHANGED <<digest, round, phase, slotVars, seen, cur, isNew, leaders>>

\* The loop condition `cand < cur`; if it fails, `return false`.
Lead(c, l) ==
    /\ cur' = [cur EXCEPT ![c] = l]
    /\ \/ c < l /\ GoTo(c, "casLeader") /\ UNCHANGED isNew
       \/ c >= l /\ GoTo(c, "done") /\ isNew' = [isNew EXCEPT ![c] = FALSE]

LoadLeader(c) ==
    /\ pc[c] = "leader"
    /\ Lead(c, leader[at[c]])
    /\ UNCHANGED <<digest, round, phase, slotVars, at, seen, leaders>>

\* The compare_exchange_weak of `leader`.
CasLeader(c) ==
    /\ pc[c] = "casLeader"
    /\ \/ /\ leader[at[c]] = cur[c]
          /\ leader' = [leader EXCEPT ![at[c]] = c]
          /\ isNew' = [isNew EXCEPT ![c] = FALSE]
          /\ GoTo(c, "done")
          /\ UNCHANGED cur
       \/ /\ leader[at[c]] # cur[c]
          /\ Lead(c, leader[at[c]])
          /\ UNCHANGED leader
    /\ UNCHANGED <<digest, round, phase, hi, lo, at, seen, leaders>>

Insert(c) ==
    \/ Load(c) \/ Claim(c) \/ StoreLo(c) \/ StoreLeader(c) \/ Publish(c)
    \/ Spin(c) \/ CheckLo(c) \/ LoadLeader(c) \/ CasLeader(c)

-----------------------------------------------------------------------------
AllDone == \A c \in Cand : pc[c] = "done"

\* count_num_classes starts another round, after the digests were propagated.
NextRound ==
    /\ phase = "count" /\ AllDone /\ round < MaxRound
    /\ round' = round + 1
    /\ digest' \in [Cand -> Digest]
    /\ StartRound(digest')
    /\ UNCHANGED <<phase, slotVars, seen, cur, isNew, leaders>>

\* The number of classes did not grow.
EndCount ==
    /\ phase = "count" /\ AllDone
    /\ phase' = "find"
    /\ UNCHANGED <<digest, round, slotVars, pc, at, seen, cur, isNew, leaders>>

\* The slots that find would take for a digest, the first from its home.
Matches(d) == {s \in Slot : hi[s] = Word(d.tag, FALSE) /\ lo[s] = d.lo}
Distance(d, s) == (s - d.home) % NumSlots

\* find: the table no longer changes.  It probes for ever if nothing matches.
Find(c) ==
    /\ phase = "find" /\ leaders[c] = Nobody
    /\ \E s \in Matches(digest[c]) :
          /\ \A r \in Matches(digest[c]) : Distance(digest[c], s) <= Distance(digest[c], r)
          /\ leaders' = [leaders EXCEPT ![c] = leader[s]]
    /\ UNCHANGED <<digest, round, phase, slotVars, pc, at, seen, cur, isNew>>

Next ==
    \/ \E c \in Cand : Insert(c) \/ Find(c)
    \/ NextRound
    \/ EndCount

\* Every thread goes on, and so does the thread that counts.
Spec ==
    /\ Init /\ [][Next]_vars
    /\ \A c \in Cand : WF_vars(Insert(c)) /\ WF_vars(Find(c))
    /\ WF_vars(NextRound) /\ WF_vars(EndCount)

-----------------------------------------------------------------------------
(***************************************************************************)
(* Properties.                                                             *)
(***************************************************************************)
WordType == [stamp : Nat, busy : BOOLEAN, tag : Nat]

\* The variables keep their types; a slot's leader is a candidate, never a
\* number that only happened to be in memory.
TypeOK ==
    /\ digest \in [Cand -> Digest] /\ round \in Nat /\ phase \in {"count", "find"}
    /\ hi \in [Slot -> WordType] /\ lo \in [Slot -> Nat] /\ leader \in [Slot -> Cand \cup {0}]
    /\ pc \in [Cand -> {"load", "claim", "storeLo", "storeLeader", "publish", "spin", "lo",
                        "leader", "casLeader", "done"}]
    /\ at \in [Cand -> Slot] /\ seen \in [Cand -> WordType] /\ cur \in [Cand -> Cand \cup {0}]
    /\ isNew \in [Cand -> BOOLEAN] /\ leaders \in [Cand -> Cand \cup {Nobody}]

\* find comes upon every candidate's digest.
FindEnds == phase = "find" => \A c \in Cand : Matches(digest[c]) # {}

\* insert waits for no one for ever, everyone gets a leader, and find comes
\* upon it (DigestMap::insert and find).
EveryoneIsLed == []FindEnds /\ \A c \in Cand : <>(leaders[c] # Nobody)

\* The table behaves like one where inserts are single steps: an insert takes
\* effect when it claims a slot, or when it returns false.
Owners(s) == {c \in Cand : at[c] = s /\ pc[c] \in {"storeLo", "storeLeader", "publish"}}
Holds(d, s) ==
    /\ hi[s].stamp = round
    /\ IF hi[s].busy THEN \E c \in Owners(s) : digest[c] = d ELSE hi[s].tag = d.tag /\ lo[s] = d.lo
ChiefOf(s) == IF hi[s].busy THEN CHOOSE c \in Owners(s) : TRUE ELSE leader[s]

enteredBar == [c \in Cand |->
    IF pc[c] \in {"storeLo", "storeLeader", "publish"} \/ (pc[c] = "done" /\ isNew[c]) THEN "new"
    ELSE IF pc[c] = "done" THEN "old" ELSE "waiting"]
chiefBar == [d \in Digest |->
    IF \E s \in Slot : Holds(d, s) THEN ChiefOf(CHOOSE s \in Slot : Holds(d, s)) ELSE Nobody]

Abstract == INSTANCE ClassCount WITH entered <- enteredBar, chief <- chiefBar

\* The lock-free inserts of DigestMap::insert implement ClassCount's.
CountsAtomically == Abstract!Spec
=============================================================================
