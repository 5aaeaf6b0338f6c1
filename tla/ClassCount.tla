----------------------------- MODULE ClassCount -----------------------------
(***************************************************************************)
(* What count_num_classes of macho/icf.rs and the lookup after the last    *)
(* round promise: each candidate's digest is entered in one step, the      *)
(* first of a digest counts as a new class, and the class's leader is its  *)
(* lowest candidate.  DigestMap implements it without locks.               *)
(***************************************************************************)
EXTENDS Integers

CONSTANTS
    Cand,      \* the candidates for folding, numbered
    Digest,    \* the digests they may have
    MaxRound   \* bound: rounds counted

VARIABLES
    digest,    \* the candidates' digests this round
    round,
    phase,     \* "count", then "find"
    entered,   \* what each candidate's insert returns: "waiting", "new" or "old"
    chief,     \* each entered digest's leader
    leaders    \* what find returned for each candidate

vars == <<digest, round, phase, entered, chief, leaders>>

Nobody == -1

Init ==
    /\ digest \in [Cand -> Digest]
    /\ round = 2
    /\ phase = "count"
    /\ entered = [c \in Cand |-> "waiting"]
    /\ chief = [d \in Digest |-> Nobody]
    /\ leaders = [c \in Cand |-> Nobody]

\* insert returns true: the digest was not there.
InsertNew(c) ==
    /\ entered[c] = "waiting" /\ chief[digest[c]] = Nobody
    /\ entered' = [entered EXCEPT ![c] = "new"]
    /\ chief' = [chief EXCEPT ![digest[c]] = c]
    /\ UNCHANGED <<digest, round, phase, leaders>>

\* insert returns false: the digest was there, and may get a lower leader.
InsertOld(c) ==
    /\ entered[c] = "waiting" /\ chief[digest[c]] # Nobody
    /\ entered' = [entered EXCEPT ![c] = "old"]
    /\ chief' = [chief EXCEPT ![digest[c]] = IF c < @ THEN c ELSE @]
    /\ UNCHANGED <<digest, round, phase, leaders>>

AllEntered == \A c \in Cand : entered[c] # "waiting"

NextRound ==
    /\ phase = "count" /\ AllEntered /\ round < MaxRound
    /\ round' = round + 1
    /\ digest' \in [Cand -> Digest]
    /\ entered' = [c \in Cand |-> "waiting"]
    /\ chief' = [d \in Digest |-> Nobody]
    /\ UNCHANGED <<phase, leaders>>

EndCount ==
    /\ phase = "count" /\ AllEntered
    /\ phase' = "find"
    /\ UNCHANGED <<digest, round, entered, chief, leaders>>

Find(c) ==
    /\ phase = "find" /\ leaders[c] = Nobody
    /\ leaders' = [leaders EXCEPT ![c] = chief[digest[c]]]
    /\ UNCHANGED <<digest, round, phase, entered, chief>>

Next ==
    \/ \E c \in Cand : InsertNew(c) \/ InsertOld(c) \/ Find(c)
    \/ NextRound
    \/ EndCount

Spec == Init /\ [][Next]_vars
=============================================================================
