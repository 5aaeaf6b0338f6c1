--------------------------- MODULE DigestMapProofs ---------------------------
(***************************************************************************)
(* DigestMap implements ClassCount, for any candidates, table and digests. *)
(*                                                                         *)
(* The heart of the invariant is linear probing: whoever looks at a slot   *)
(* has found every slot before it, from its digest's home on, written in   *)
(* this round with another digest, and so had whoever claimed a slot.  A   *)
(* digest is therefore never in two slots, and a slot that is vacant when  *)
(* it is claimed proves that the digest is in none.                        *)
(***************************************************************************)
EXTENDS DigestMap, TLAPS

Live(s) == hi[s].stamp = round
Owns(c) == pc[c] \in {"storeLo", "storeLeader", "publish"}

\* The slots that probing for d visits before s.
Before(d, r, s) == Distance(d, r) < Distance(d, s)

\* The round fits into its bits and no slot is stamped with a later one.
StampsInv ==
    /\ round >= 2 /\ round < 2 ^ RoundBits
    /\ \A s \in Slot : hi[s].stamp <= round
    /\ \A c \in Cand : pc[c] = "claim" => seen[c].stamp # round

\* A busy slot of this round has one owner, who has stored what it stored.
OwnersInv ==
    /\ \A c \in Cand : Owns(c) => Live(at[c]) /\ hi[at[c]].busy /\ hi[at[c]].tag = digest[c].tag
    /\ \A c, e \in Cand : Owns(c) /\ Owns(e) /\ at[c] = at[e] => c = e
    /\ \A s \in Slot : Live(s) /\ hi[s].busy => Owners(s) # {}
    /\ \A c \in Cand :
          /\ pc[c] \in {"storeLeader", "publish"} => lo[at[c]] = digest[c].lo
          /\ pc[c] = "publish" => leader[at[c]] = c
    /\ \A s \in Slot : Live(s) /\ ~hi[s].busy => leader[s] \in Cand

\* Who waits for a slot, compares it or is done with it knows what it holds.
ReadersInv == \A c \in Cand :
    /\ pc[c] \in {"spin", "lo", "leader", "casLeader", "done"}
          => Live(at[c]) /\ hi[at[c]].tag = digest[c].tag
    /\ pc[c] \in {"lo", "leader", "casLeader", "done"} => ~hi[at[c]].busy
    /\ pc[c] \in {"leader", "casLeader", "done"} => lo[at[c]] = digest[c].lo
    /\ pc[c] = "casLeader" => c < cur[c]

\* What probing passed is written and holds another digest.
ProbesInv ==
    /\ \A c \in Cand, s \in Slot :
          Before(digest[c], s, at[c]) => Live(s) /\ ~Holds(digest[c], s)
    /\ \A d \in Digest, s, r \in Slot :
          Holds(d, r) /\ Before(d, s, r) => Live(s) /\ ~Holds(d, s)

PhaseInv == phase = "find" => AllDone

IInv == TypeOK /\ StampsInv /\ OwnersInv /\ ReadersInv /\ ProbesInv /\ PhaseInv

-----------------------------------------------------------------------------
(***************************************************************************)
(* Arithmetic of the probing, and the stamp.                               *)
(***************************************************************************)

\* Probing visits a slot of the table at every distance once, and a probe
\* (`(i + 1) & mask`) goes one further or wraps around to the start.
LEMMA ProbingFacts ==
    ASSUME NEW d \in Digest, NEW s \in Slot
    PROVE  /\ Distance(d, s) \in Nat
           /\ Distance(d, d.home) = 0
           /\ \A r \in Slot : Distance(d, r) = Distance(d, s) => r = s
           /\ Probe(s) \in Slot
           /\ Distance(d, Probe(s)) = Distance(d, s) + 1 \/ Distance(d, Probe(s)) = 0
  <1>1. NumSlots \in Nat /\ NumSlots > 0 /\ d.home \in Slot
    BY DigestAssumption
  <1>2. \A r \in Slot : Distance(d, r) = IF r >= d.home THEN r - d.home ELSE r - d.home + NumSlots
    BY <1>1 DEF Distance, Slot
  <1>3. Probe(s) = IF s = NumSlots - 1 THEN 0 ELSE s + 1
    BY <1>1 DEF Probe, Slot
  <1>4. Probe(s) \in Slot
    BY <1>1, <1>3 DEF Slot
  <1>. QED  BY <1>1, <1>2, <1>3, <1>4 DEF Slot

\* What is before the next slot was before this one or is this one.
LEMMA ProbeGoesOn ==
    ASSUME NEW d \in Digest, NEW s \in Slot, NEW r \in Slot, Before(d, r, Probe(s))
    PROVE  Before(d, r, s) \/ r = s
  <1>1. Distance(d, r) \in Nat /\ Distance(d, s) \in Nat
    BY ProbingFacts
  <1>2. Distance(d, r) <= Distance(d, s)
    BY <1>1, ProbingFacts DEF Before
  <1>. QED  BY <1>1, <1>2, ProbingFacts DEF Before

\* The slots other than s are before it or after it.
LEMMA ProbingIsTotal ==
    ASSUME NEW d \in Digest, NEW s \in Slot, NEW r \in Slot, r # s
    PROVE  Before(d, r, s) \/ Before(d, s, r)
  <1>1. Distance(d, r) \in Nat /\ Distance(d, s) \in Nat /\ Distance(d, r) # Distance(d, s)
    BY ProbingFacts
  <1>. QED  BY <1>1 DEF Before

\* Shifting the round into place keeps it.
LEMMA StampIsRound ==
    ASSUME round \in Nat, StampsInv
    PROVE  Stamp = round
  BY RoundAssumption, DigestAssumption DEF Stamp, StampsInv

\* The digest is determined by what a slot stores of it.
LEMMA StoredIsDigest ==
    ASSUME NEW d \in Digest, NEW e \in Digest, d.tag = e.tag, d.lo = e.lo
    PROVE  d = e
  BY DigestAssumption

-----------------------------------------------------------------------------
(***************************************************************************)
(* Steps that store nothing.                                               *)
(***************************************************************************)

\* A slot of this round holds what it held while neither its words nor its
\* owner change.
LEMMA SameContents ==
    ASSUME UNCHANGED <<digest, round, hi, lo>>,
           \A e \in Cand : (Owns(e)' <=> Owns(e)) /\ (Owns(e) => at'[e] = at[e])
    PROVE  /\ \A s : Live(s)' <=> Live(s)
           /\ \A s : Owners(s)' = Owners(s)
           /\ \A d, s : Holds(d, s)' <=> Holds(d, s)
  <1>1. \A s : Live(s)' <=> Live(s)
    BY DEF Live
  <1>2. \A s : Owners(s)' = Owners(s)
    BY DEF Owners, Owns
  <1>3. \A d, s : Holds(d, s)' <=> Holds(d, s)
    BY <1>2 DEF Holds
  <1>. QED  BY <1>1, <1>2, <1>3

\* A slot of another tag holds another digest.
LEMMA OtherTag ==
    ASSUME IInv, NEW d \in Digest, NEW s \in Slot, hi[s].tag # d.tag
    PROVE  ~Holds(d, s)
  <1>1. CASE hi[s].busy
    <2>1. \A c \in Owners(s) : hi[s].tag = digest[c].tag
      BY DEF IInv, OwnersInv, Owners, Owns
    <2>. QED  BY <1>1, <2>1 DEF Holds
  <1>2. CASE ~hi[s].busy
    BY <1>2 DEF Holds
  <1>. QED  BY <1>1, <1>2

\* What insert does with a word it has just read (after the load, and after a
\* compare_exchange_weak that failed).
LEMMA SawStep ==
    ASSUME IInv, NEW c \in Cand, pc[c] \in {"load", "claim"}, Saw(c, hi[at[c]]),
           UNCHANGED <<digest, round, phase, slotVars, cur, isNew, leaders>>
    PROVE  IInv'
  <1> USE DEF slotVars, GoTo
  <1>1. TypeOK /\ TypeOK'
    <2>1. TypeOK /\ digest[c] \in Digest /\ Probe(at[c]) \in Slot
      BY ProbingFacts DEF IInv, TypeOK
    <2>. QED  BY <2>1 DEF TypeOK, Saw
  <1>2. \A e \in Cand : (Owns(e)' <=> Owns(e)) /\ (Owns(e) => at'[e] = at[e])
    BY <1>1 DEF Saw, Owns, TypeOK
  <1>3. /\ \A s : Live(s)' <=> Live(s)
        /\ \A s : Owners(s)' = Owners(s)
        /\ \A d, s : Holds(d, s)' <=> Holds(d, s)
    BY <1>2, SameContents
  <1>4. StampsInv'
    BY <1>1 DEF IInv, StampsInv, Saw, TypeOK
  <1>5. OwnersInv'
    BY <1>1, <1>2, <1>3 DEF IInv, OwnersInv, Saw, TypeOK, Owns
  <1>6. ReadersInv'
    BY <1>1, <1>3 DEF IInv, ReadersInv, Saw, TypeOK, Live
  <1>7. ProbesInv'
    <2>1. ASSUME NEW s \in Slot, Before(digest[c], s, at'[c])
          PROVE  Live(s) /\ ~Holds(digest[c], s)
      <3>1. CASE at'[c] = at[c]
        BY <2>1, <3>1 DEF IInv, ProbesInv
      <3>2. CASE at'[c] = Probe(at[c]) /\ Live(at[c]) /\ hi[at[c]].tag # digest[c].tag
        <4>1. at[c] \in Slot /\ digest[c] \in Digest
          BY <1>1 DEF TypeOK
        <4>2. Before(digest[c], s, at[c]) \/ s = at[c]
          BY <2>1, <3>2, <4>1, ProbeGoesOn
        <4>. QED  BY <3>2, <4>1, <4>2, OtherTag DEF IInv, ProbesInv
      <3>. QED  BY <1>1, <3>1, <3>2 DEF Saw, TypeOK, Live
    <2>2. \A e \in Cand : e # c => at'[e] = at[e]
      BY <1>1 DEF Saw, TypeOK
    <2>. QED  BY <1>3, <2>1, <2>2 DEF IInv, ProbesInv, Before, Distance
  <1>8. PhaseInv'
    BY <1>1 DEF IInv, PhaseInv, AllDone, Saw, TypeOK
  <1>. QED  BY <1>1, <1>4, <1>5, <1>6, <1>7, <1>8 DEF IInv

LEMMA LoadStep ==
    ASSUME IInv, NEW c \in Cand, Load(c)
    PROVE  IInv'
  BY SawStep DEF Load

LEMMA SpinStep ==
    ASSUME IInv, NEW c \in Cand, Spin(c)
    PROVE  IInv'
  <1> USE DEF slotVars, GoTo, Spin
  <1>1. TypeOK /\ TypeOK'
    BY DEF IInv, TypeOK
  <1>2. \A e \in Cand : (Owns(e)' <=> Owns(e)) /\ (Owns(e) => at'[e] = at[e])
    BY <1>1 DEF Owns, TypeOK
  <1>3. /\ \A s : Live(s)' <=> Live(s)
        /\ \A s : Owners(s)' = Owners(s)
        /\ \A d, s : Holds(d, s)' <=> Holds(d, s)
    BY <1>2, SameContents
  <1>4. StampsInv'
    BY <1>1 DEF IInv, StampsInv, TypeOK
  <1>5. OwnersInv'
    BY <1>1, <1>2, <1>3 DEF IInv, OwnersInv, TypeOK, Owns
  <1>6. ReadersInv'
    BY <1>1, <1>3 DEF IInv, ReadersInv, TypeOK
  <1>7. ProbesInv'
    BY <1>3 DEF IInv, ProbesInv, Before, Distance
  <1>8. PhaseInv'
    BY <1>1 DEF IInv, PhaseInv, AllDone, TypeOK
  <1>. QED  BY <1>1, <1>4, <1>5, <1>6, <1>7, <1>8 DEF IInv

LEMMA CheckLoStep ==
    ASSUME IInv, NEW c \in Cand, CheckLo(c)
    PROVE  IInv'
  <1> USE DEF slotVars, GoTo, CheckLo
  <1>0. TypeOK /\ at[c] \in Slot /\ digest[c] \in Digest /\ Probe(at[c]) \in Slot
    BY ProbingFacts DEF IInv, TypeOK
  <1>1. TypeOK /\ TypeOK'
    BY <1>0 DEF TypeOK
  <1>2. \A e \in Cand : (Owns(e)' <=> Owns(e)) /\ (Owns(e) => at'[e] = at[e])
    BY <1>1 DEF Owns, TypeOK
  <1>3. /\ \A s : Live(s)' <=> Live(s)
        /\ \A s : Owners(s)' = Owners(s)
        /\ \A d, s : Holds(d, s)' <=> Holds(d, s)
    BY <1>2, SameContents
  <1>4. StampsInv'
    BY <1>1 DEF IInv, StampsInv, TypeOK
  <1>5. OwnersInv'
    BY <1>1, <1>2, <1>3 DEF IInv, OwnersInv, TypeOK, Owns
  <1>6. ReadersInv'
    BY <1>1, <1>3 DEF IInv, ReadersInv, TypeOK
  <1>7. ProbesInv'
    <2>1. ASSUME NEW s \in Slot, Before(digest[c], s, at'[c])
          PROVE  Live(s) /\ ~Holds(digest[c], s)
      <3>1. CASE at'[c] = at[c]
        BY <2>1, <3>1 DEF IInv, ProbesInv
      <3>2. CASE at'[c] = Probe(at[c]) /\ lo[at[c]] # digest[c].lo
        <4>1. Before(digest[c], s, at[c]) \/ s = at[c]
          BY <1>0, <2>1, <3>2, ProbeGoesOn
        <4>2. Live(at[c]) /\ ~Holds(digest[c], at[c])
          BY <3>2 DEF IInv, ReadersInv, Holds
        <4>. QED  BY <4>1, <4>2 DEF IInv, ProbesInv
      <3>. QED  BY <1>1, <3>1, <3>2 DEF TypeOK
    <2>2. \A e \in Cand : e # c => at'[e] = at[e]
      BY <1>1 DEF TypeOK
    <2>. QED  BY <1>3, <2>1, <2>2 DEF IInv, ProbesInv, Before, Distance
  <1>8. PhaseInv'
    BY <1>1 DEF IInv, PhaseInv, AllDone, TypeOK
  <1>. QED  BY <1>1, <1>4, <1>5, <1>6, <1>7, <1>8 DEF IInv

\* The loop over the leader: read, or read again after a failed exchange.
LEMMA LeadStep ==
    ASSUME IInv, NEW c \in Cand, pc[c] \in {"leader", "casLeader"}, Lead(c, leader[at[c]]),
           UNCHANGED <<digest, round, phase, slotVars, at, seen, leaders>>
    PROVE  IInv'
  <1> USE DEF slotVars, GoTo, Lead
  <1>1. TypeOK /\ TypeOK'
    BY DEF IInv, TypeOK
  <1>2. \A e \in Cand : (Owns(e)' <=> Owns(e)) /\ (Owns(e) => at'[e] = at[e])
    BY <1>1 DEF Owns, TypeOK
  <1>3. /\ \A s : Live(s)' <=> Live(s)
        /\ \A s : Owners(s)' = Owners(s)
        /\ \A d, s : Holds(d, s)' <=> Holds(d, s)
    BY <1>2, SameContents
  <1>4. StampsInv'
    BY <1>1 DEF IInv, StampsInv, TypeOK
  <1>5. OwnersInv'
    BY <1>1, <1>2, <1>3 DEF IInv, OwnersInv, TypeOK, Owns
  <1>6. ReadersInv'
    BY <1>1, <1>3 DEF IInv, ReadersInv, TypeOK
  <1>7. ProbesInv'
    BY <1>3 DEF IInv, ProbesInv, Before, Distance
  <1>8. PhaseInv'
    BY <1>1 DEF IInv, PhaseInv, AllDone, TypeOK
  <1>. QED  BY <1>1, <1>4, <1>5, <1>6, <1>7, <1>8 DEF IInv

LEMMA LoadLeaderStep ==
    ASSUME IInv, NEW c \in Cand, LoadLeader(c)
    PROVE  IInv'
  BY LeadStep DEF LoadLeader

-----------------------------------------------------------------------------
(***************************************************************************)
(* Steps that store.                                                       *)
(***************************************************************************)
LEMMA CasLeaderStep ==
    ASSUME IInv, NEW c \in Cand, CasLeader(c)
    PROVE  IInv'
  <1>1. CASE leader[at[c]] # cur[c]
    BY <1>1, LeadStep DEF CasLeader, slotVars
  <1>2. CASE leader[at[c]] = cur[c]
    <2> USE DEF GoTo
    <2>0. /\ TypeOK /\ pc[c] = "casLeader"
          /\ leader' = [leader EXCEPT ![at[c]] = c]
          /\ isNew' = [isNew EXCEPT ![c] = FALSE]
          /\ pc' = [pc EXCEPT ![c] = "done"]
          /\ UNCHANGED <<digest, round, phase, hi, lo, at, seen, cur, leaders>>
      BY <1>2 DEF IInv, CasLeader
    <2>1. TypeOK /\ TypeOK'
      BY <2>0 DEF TypeOK
    <2>2. \A e \in Cand : (Owns(e)' <=> Owns(e)) /\ (Owns(e) => at'[e] = at[e])
      BY <2>0, <2>1 DEF Owns, TypeOK
    <2>3. /\ \A s : Live(s)' <=> Live(s)
          /\ \A s : Owners(s)' = Owners(s)
          /\ \A d, s : Holds(d, s)' <=> Holds(d, s)
      BY <2>0, <2>2, SameContents
    <2>4. StampsInv'
      BY <2>0, <2>1 DEF IInv, StampsInv, TypeOK
    <2>5. \A e \in Cand : Owns(e) => at[e] # at[c]
      BY <2>0 DEF IInv, OwnersInv, ReadersInv
    <2>6. OwnersInv'
      BY <2>0, <2>1, <2>2, <2>3, <2>5 DEF IInv, OwnersInv, TypeOK, Owns
    <2>7. ReadersInv'
      BY <2>0, <2>1, <2>3 DEF IInv, ReadersInv, TypeOK
    <2>8. ProbesInv'
      BY <2>0, <2>3 DEF IInv, ProbesInv, Before, Distance
    <2>9. PhaseInv'
      BY <2>0, <2>1 DEF IInv, PhaseInv, AllDone, TypeOK
    <2>. QED  BY <2>1, <2>4, <2>6, <2>7, <2>8, <2>9 DEF IInv
  <1>. QED  BY <1>1, <1>2

\* The owner of a busy slot stores into it what nobody reads yet.
LEMMA StoreLoStep ==
    ASSUME IInv, NEW c \in Cand, StoreLo(c)
    PROVE  IInv'
  <1> USE DEF StoreLo, GoTo
  <1>1. TypeOK /\ TypeOK'
    BY DigestAssumption DEF IInv, TypeOK
  <1>2. Owns(c) /\ Live(at[c]) /\ hi[at[c]].busy
    BY DEF IInv, OwnersInv, Owns
  <1>3. \A e \in Cand : Owns(e)' <=> Owns(e)
    BY <1>1 DEF Owns, TypeOK
  <1>4. /\ \A s \in Slot : Live(s)' <=> Live(s)
        /\ \A s \in Slot : Owners(s)' = Owners(s)
    BY <1>3 DEF Live, Owners, Owns
  <1>5. \A d, s : s \in Slot => (Holds(d, s)' <=> Holds(d, s))
    BY <1>1, <1>2, <1>4 DEF Holds, TypeOK
  <1>6. StampsInv'
    BY <1>1 DEF IInv, StampsInv, TypeOK
  <1>7. OwnersInv'
    BY <1>1, <1>2, <1>3, <1>4 DEF IInv, OwnersInv, TypeOK, Owns
  <1>8. ReadersInv'
    BY <1>1, <1>2, <1>4 DEF IInv, ReadersInv, TypeOK
  <1>9. ProbesInv'
    BY <1>1, <1>4, <1>5 DEF IInv, ProbesInv, Before, Distance, TypeOK
  <1>10. PhaseInv'
    BY <1>1 DEF IInv, PhaseInv, AllDone, TypeOK
  <1>. QED  BY <1>1, <1>6, <1>7, <1>8, <1>9, <1>10 DEF IInv

LEMMA StoreLeaderStep ==
    ASSUME IInv, NEW c \in Cand, StoreLeader(c)
    PROVE  IInv'
  <1> USE DEF StoreLeader, GoTo
  <1>1. TypeOK /\ TypeOK'
    BY DEF IInv, TypeOK
  <1>2. Owns(c) /\ Live(at[c]) /\ hi[at[c]].busy
    BY DEF IInv, OwnersInv, Owns
  <1>3. \A e \in Cand : (Owns(e)' <=> Owns(e)) /\ (Owns(e) => at'[e] = at[e])
    BY <1>1 DEF Owns, TypeOK
  <1>4. /\ \A s : Live(s)' <=> Live(s)
        /\ \A s : Owners(s)' = Owners(s)
        /\ \A d, s : Holds(d, s)' <=> Holds(d, s)
    BY <1>3, SameContents
  <1>5. StampsInv'
    BY <1>1 DEF IInv, StampsInv, TypeOK
  <1>6. OwnersInv'
    BY <1>1, <1>2, <1>3, <1>4 DEF IInv, OwnersInv, TypeOK, Owns
  <1>7. ReadersInv'
    BY <1>1, <1>4 DEF IInv, ReadersInv, TypeOK
  <1>8. ProbesInv'
    BY <1>4 DEF IInv, ProbesInv, Before, Distance
  <1>9. PhaseInv'
    BY <1>1 DEF IInv, PhaseInv, AllDone, TypeOK
  <1>. QED  BY <1>1, <1>5, <1>6, <1>7, <1>8, <1>9 DEF IInv

\* Publishing a slot changes nothing about what it holds.
LEMMA PublishHolds ==
    ASSUME IInv, NEW c \in Cand, Publish(c)
    PROVE  /\ TypeOK /\ TypeOK'
           /\ Stamp = round
           /\ Owns(c) /\ Live(at[c]) /\ hi[at[c]].busy
           /\ \A e \in Cand : Owns(e)' <=> (Owns(e) /\ e # c)
           /\ \A s \in Slot : Live(s)' <=> Live(s)
           /\ \A s \in Slot : s # at[c] => Owners(s)' = Owners(s) /\ hi'[s] = hi[s]
           /\ \A d \in Digest, s \in Slot : Holds(d, s)' <=> Holds(d, s)
  <1> USE DEF Publish, GoTo
  <1>0. TypeOK /\ Stamp = round
    BY StampIsRound DEF IInv, TypeOK
  <1>1. TypeOK'
    BY <1>0, DigestAssumption DEF TypeOK, Word, WordType
  <1>2. Owns(c) /\ Live(at[c]) /\ hi[at[c]].busy /\ at[c] \in Slot
    BY <1>0 DEF IInv, OwnersInv, Owns, TypeOK
  <1>3. \A e \in Cand : Owns(e)' <=> (Owns(e) /\ e # c)
    BY <1>0 DEF Owns, TypeOK
  <1>4. \A s \in Slot : s # at[c] => hi'[s] = hi[s]
    BY <1>0 DEF TypeOK
  <1>5. \A s \in Slot : s # at[c] => Owners(s)' = Owners(s)
    BY <1>3 DEF Owners, Owns
  <1>6. /\ hi'[at[c]].stamp = round /\ ~hi'[at[c]].busy
        /\ hi'[at[c]].tag = digest[c].tag
    BY <1>0, <1>2 DEF TypeOK, Word
  <1>7. \A s \in Slot : Live(s)' <=> Live(s)
    BY <1>2, <1>4, <1>6 DEF Live
  <1>8. ASSUME NEW d \in Digest
        PROVE  Holds(d, at[c])' <=> Holds(d, at[c])
    <2>1. Holds(d, at[c]) <=> d = digest[c]
      BY <1>2, <1>0 DEF Holds, Live, Owners, Owns, IInv, OwnersInv, TypeOK
    <2>2. Holds(d, at[c])' <=> (digest[c].tag = d.tag /\ lo[at[c]] = d.lo)
      BY <1>6 DEF Holds
    <2>3. lo[at[c]] = digest[c].lo
      BY DEF IInv, OwnersInv
    <2>. QED  BY <1>0, <2>1, <2>2, <2>3, StoredIsDigest DEF TypeOK
  <1>9. \A d \in Digest, s \in Slot : s # at[c] => (Holds(d, s)' <=> Holds(d, s))
    BY <1>4, <1>5 DEF Holds
  <1>. QED  BY <1>0, <1>1, <1>2, <1>3, <1>4, <1>5, <1>7, <1>8, <1>9

LEMMA PublishStep ==
    ASSUME IInv, NEW c \in Cand, Publish(c)
    PROVE  IInv'
  <1>0. /\ pc[c] = "publish" /\ pc' = [pc EXCEPT ![c] = "done"]
        /\ UNCHANGED <<digest, round, phase, lo, leader, at, seen, cur, leaders>>
    BY DEF Publish, GoTo
  <1>1. TypeOK /\ TypeOK' /\ Owns(c) /\ Live(at[c]) /\ hi[at[c]].busy
    BY PublishHolds
  <1>2. /\ \A e \in Cand : Owns(e)' <=> (Owns(e) /\ e # c)
        /\ \A s \in Slot : Live(s)' <=> Live(s)
        /\ \A s \in Slot : s # at[c] => Owners(s)' = Owners(s) /\ hi'[s] = hi[s]
        /\ \A d \in Digest, s \in Slot : Holds(d, s)' <=> Holds(d, s)
    BY PublishHolds
  <1>3. /\ hi'[at[c]].stamp = round /\ ~hi'[at[c]].busy
        /\ hi'[at[c]].tag = digest[c].tag
    BY PublishHolds DEF TypeOK, Word, Publish
  <1>4. StampsInv'
    <2>1. \A s \in Slot : hi'[s].stamp <= round
      BY <1>1, <1>2, <1>3 DEF IInv, StampsInv, TypeOK
    <2>2. \A e \in Cand : pc'[e] = "claim" => seen[e].stamp # round
      BY <1>0, <1>1 DEF IInv, StampsInv, TypeOK
    <2>. QED  BY <1>0, <2>1, <2>2 DEF IInv, StampsInv
  <1>5. \A e \in Cand : Owns(e) /\ e # c => at[e] # at[c]
    BY <1>1 DEF IInv, OwnersInv
  <1>6. OwnersInv'
    BY <1>0, <1>1, <1>2, <1>3, <1>5 DEF IInv, OwnersInv, TypeOK, Owns
  <1>7. ReadersInv'
    BY <1>0, <1>1, <1>2, <1>3 DEF IInv, ReadersInv, OwnersInv, TypeOK
  <1>8. ProbesInv'
    BY <1>0, <1>1, <1>2 DEF IInv, ProbesInv, Before, Distance, TypeOK
  <1>9. PhaseInv'
    BY <1>0, <1>1 DEF IInv, PhaseInv, AllDone, TypeOK
  <1>. QED  BY <1>1, <1>4, <1>6, <1>7, <1>8, <1>9 DEF IInv

\* A slot of another round is vacant at the compare_exchange_weak that claims
\* it: its digest is then in no slot, since probing would have met it before
\* this one, and whoever stored it farther on would have claimed this one.
LEMMA ClaimHolds ==
    ASSUME IInv, NEW c \in Cand, Claim(c), hi[at[c]] = seen[c]
    PROVE  /\ TypeOK /\ TypeOK' /\ pc[c] = "claim"
           /\ pc' = [pc EXCEPT ![c] = "storeLo"]
           /\ UNCHANGED <<digest, round, phase, lo, leader, at, seen, cur, isNew, leaders>>
           /\ ~Live(at[c]) /\ at[c] \in Slot /\ digest[c] \in Digest
           /\ hi'[at[c]].stamp = round /\ hi'[at[c]].busy
           /\ hi'[at[c]].tag = digest[c].tag
           /\ \A e \in Cand : Owns(e)' <=> (Owns(e) \/ e = c)
           /\ \A e \in Cand : Owns(e) => at[e] # at[c]
           /\ \A s \in Slot : s # at[c] => Owners(s)' = Owners(s) /\ hi'[s] = hi[s]
           /\ Owners(at[c])' = {c}
           /\ \A s \in Slot : Live(s)' <=> (Live(s) \/ s = at[c])
           /\ \A d \in Digest, s \in Slot :
                 Holds(d, s)' <=> (IF s = at[c] THEN d = digest[c] ELSE Holds(d, s))
           /\ \A s \in Slot : ~Holds(digest[c], s)
  <1>0. TypeOK /\ Stamp = round
    BY StampIsRound DEF IInv, TypeOK
  <1>1. /\ pc[c] = "claim" /\ pc' = [pc EXCEPT ![c] = "storeLo"]
        /\ hi' = [hi EXCEPT ![at[c]] = Word(digest[c].tag, TRUE)]
        /\ UNCHANGED <<digest, round, phase, lo, leader, at, seen, cur, isNew, leaders>>
    BY DEF Claim, GoTo
  <1>2. ~Live(at[c]) /\ at[c] \in Slot /\ digest[c] \in Digest
    BY <1>0, <1>1 DEF IInv, StampsInv, Live, TypeOK
  <1>3. TypeOK'
    BY <1>0, <1>1, DigestAssumption DEF TypeOK, Word, WordType
  <1>4. hi'[at[c]].stamp = round /\ hi'[at[c]].busy /\ hi'[at[c]].tag = digest[c].tag
    BY <1>0, <1>1, <1>2 DEF TypeOK, Word
  <1>5. \A e \in Cand : Owns(e)' <=> (Owns(e) \/ e = c)
    BY <1>0, <1>1 DEF Owns, TypeOK
  <1>6. \A e \in Cand : Owns(e) => at[e] # at[c]
    BY <1>2 DEF IInv, OwnersInv
  <1>7. \A s \in Slot : s # at[c] => Owners(s)' = Owners(s) /\ hi'[s] = hi[s]
    <2>1. \A s \in Slot : s # at[c] => hi'[s] = hi[s]
      BY <1>0, <1>1 DEF TypeOK
    <2>2. \A s \in Slot : s # at[c] => Owners(s)' = Owners(s)
      BY <1>1, <1>5 DEF Owners, Owns
    <2>. QED  BY <2>1, <2>2
  <1>8. Owners(at[c])' = {c}
    BY <1>1, <1>5, <1>6 DEF Owners, Owns
  <1>9. \A s \in Slot : Live(s)' <=> (Live(s) \/ s = at[c])
    BY <1>1, <1>4, <1>7 DEF Live
  <1>10. \A d \in Digest, s \in Slot :
            Holds(d, s)' <=> (IF s = at[c] THEN d = digest[c] ELSE Holds(d, s))
    <2>1. ASSUME NEW d \in Digest
          PROVE  Holds(d, at[c])' <=> d = digest[c]
      <3>1. Holds(d, at[c])' <=> \E e \in Owners(at[c])' : digest[e] = d
        BY <1>1, <1>4 DEF Holds
      <3>. QED  BY <1>8, <3>1
    <2>2. ASSUME NEW d \in Digest, NEW s \in Slot, s # at[c]
          PROVE  Holds(d, s)' <=> Holds(d, s)
      BY <1>1, <1>7, <2>2 DEF Holds
    <2>. QED  BY <1>1, <2>1, <2>2
  <1>11. ASSUME NEW s \in Slot, Holds(digest[c], s)
         PROVE  FALSE
    <2>1. Live(s) /\ s # at[c]
      BY <1>2, <1>11 DEF Holds, Live
    <2>2. Before(digest[c], s, at[c]) \/ Before(digest[c], at[c], s)
      BY <1>2, <2>1, ProbingIsTotal
    <2>3. ~Before(digest[c], s, at[c])
      BY <1>11 DEF IInv, ProbesInv
    <2>4. ~Before(digest[c], at[c], s)
      BY <1>2, <1>11 DEF IInv, ProbesInv
    <2>. QED  BY <2>2, <2>3, <2>4
  <1>. QED
    BY <1>0, <1>1, <1>2, <1>3, <1>4, <1>5, <1>6, <1>7, <1>8, <1>9, <1>10, <1>11

LEMMA ClaimStep ==
    ASSUME IInv, NEW c \in Cand, Claim(c)
    PROVE  IInv'
  <1>1. CASE hi[at[c]] # seen[c]
    BY <1>1, SawStep DEF Claim, slotVars
  <1>2. CASE hi[at[c]] = seen[c]
    <2>1. /\ TypeOK /\ TypeOK' /\ pc[c] = "claim"
          /\ pc' = [pc EXCEPT ![c] = "storeLo"]
          /\ UNCHANGED <<digest, round, phase, lo, leader, at, seen, cur, isNew, leaders>>
          /\ ~Live(at[c]) /\ at[c] \in Slot /\ digest[c] \in Digest
      BY <1>2, ClaimHolds
    <2>2. hi'[at[c]].stamp = round /\ hi'[at[c]].busy /\ hi'[at[c]].tag = digest[c].tag
      BY <1>2, ClaimHolds
    <2>3. /\ \A e \in Cand : Owns(e)' <=> (Owns(e) \/ e = c)
          /\ \A e \in Cand : Owns(e) => at[e] # at[c]
          /\ \A s \in Slot : s # at[c] => Owners(s)' = Owners(s) /\ hi'[s] = hi[s]
          /\ Owners(at[c])' = {c}
      BY <1>2, ClaimHolds
    <2>4. /\ \A s \in Slot : Live(s)' <=> (Live(s) \/ s = at[c])
          /\ \A d \in Digest, s \in Slot :
                 Holds(d, s)' <=> (IF s = at[c] THEN d = digest[c] ELSE Holds(d, s))
          /\ \A s \in Slot : ~Holds(digest[c], s)
      BY <1>2, ClaimHolds
    <2>5. StampsInv'
      <3>1. \A s \in Slot : hi'[s].stamp <= round
        BY <2>1, <2>2, <2>3 DEF IInv, StampsInv, TypeOK
      <3>2. \A e \in Cand : pc'[e] = "claim" => seen[e].stamp # round
        BY <2>1 DEF IInv, StampsInv, TypeOK
      <3>. QED  BY <2>1, <3>1, <3>2 DEF IInv, StampsInv
    <2>6. OwnersInv'
      <3>1. \A e \in Cand : Owns(e)' => Live(at[e])' /\ hi'[at[e]].busy /\ hi'[at[e]].tag = digest[e].tag
        BY <2>1, <2>2, <2>3, <2>4 DEF IInv, OwnersInv, TypeOK
      <3>2. \A e, f \in Cand : Owns(e)' /\ Owns(f)' /\ at[e] = at[f] => e = f
        BY <2>3 DEF IInv, OwnersInv
      <3>3. ASSUME NEW s \in Slot, Live(s)', hi'[s].busy
            PROVE  Owners(s)' # {}
        <4>1. CASE s = at[c]
          BY <2>1, <2>3, <4>1
        <4>2. CASE s # at[c]
          BY <2>3, <2>4, <3>3, <4>2 DEF IInv, OwnersInv
        <4>. QED  BY <4>1, <4>2
      <3>4. \A e \in Cand :
               /\ pc'[e] \in {"storeLeader", "publish"} => lo[at[e]] = digest[e].lo
               /\ pc'[e] = "publish" => leader[at[e]] = e
        BY <2>1 DEF IInv, OwnersInv, TypeOK
      <3>5. \A s \in Slot : Live(s)' /\ ~hi'[s].busy => leader[s] \in Cand
        BY <2>2, <2>3, <2>4 DEF IInv, OwnersInv
      <3>. QED  BY <2>1, <3>1, <3>2, <3>3, <3>4, <3>5 DEF OwnersInv, Live
    <2>7. ReadersInv'
      BY <2>1, <2>2, <2>3, <2>4 DEF IInv, ReadersInv, TypeOK
    <2>8. ProbesInv'
      <3>1. ASSUME NEW e \in Cand, NEW s \in Slot, Before(digest[e], s, at[e])
            PROVE  Live(s)' /\ ~Holds(digest[e], s)'
        BY <2>1, <2>4, <3>1 DEF IInv, ProbesInv, TypeOK
      <3>2. ASSUME NEW d \in Digest, NEW s \in Slot, NEW r \in Slot,
                   Holds(d, r)', Before(d, s, r)
            PROVE  Live(s)' /\ ~Holds(d, s)'
        <4>1. CASE r = at[c]
          BY <2>1, <2>4, <3>2, <4>1 DEF IInv, ProbesInv, Before
        <4>2. CASE r # at[c]
          BY <2>1, <2>4, <3>2, <4>2 DEF IInv, ProbesInv
        <4>. QED  BY <4>1, <4>2
      <3>. QED  BY <2>1, <3>1, <3>2 DEF ProbesInv, Before, Distance
    <2>9. PhaseInv'
      BY <2>1 DEF IInv, PhaseInv, AllDone, TypeOK
    <2>. QED  BY <2>1, <2>5, <2>6, <2>7, <2>8, <2>9 DEF IInv
  <1>. QED  BY <1>1, <1>2

-----------------------------------------------------------------------------
(***************************************************************************)
(* The invariant.                                                          *)
(***************************************************************************)

\* A new round finds no slot stamped with it.
LEMMA NextRoundStep ==
    ASSUME IInv, NextRound
    PROVE  IInv' /\ \A s \in Slot : ~Live(s)'
  <1> USE DEF NextRound, StartRound, slotVars
  <1>1. TypeOK /\ TypeOK'
    BY DigestAssumption DEF IInv, TypeOK
  <1>2. \A s \in Slot : hi[s].stamp <= round /\ hi[s].stamp \in Nat /\ round \in Nat
    BY DEF IInv, StampsInv, TypeOK, WordType
  <1>3. \A s \in Slot : ~Live(s)' /\ hi'[s].stamp <= round'
    BY <1>2 DEF Live
  <1>4. \A d, s : s \in Slot => ~Holds(d, s)'
    BY <1>3 DEF Holds, Live
  <1>5. \A c \in Cand : pc'[c] = "load" /\ at'[c] = digest'[c].home /\ digest'[c] \in Digest
    BY <1>1 DEF TypeOK
  <1>6. StampsInv'
    <2>1. round' >= 2 /\ round' < 2 ^ RoundBits
      BY <1>1, RoundAssumption, DigestAssumption DEF IInv, StampsInv, TypeOK
    <2>. QED  BY <1>3, <1>5, <2>1 DEF StampsInv
  <1>7. OwnersInv'
    BY <1>3, <1>5 DEF OwnersInv, Owns
  <1>8. ReadersInv'
    BY <1>5 DEF ReadersInv
  <1>9. ProbesInv'
    <2>1. ASSUME NEW c \in Cand, NEW s \in Slot
          PROVE  ~Before(digest[c], s, at[c])'
      <3>1. Distance(digest'[c], s) \in Nat /\ Distance(digest'[c], at'[c]) = 0
        BY <1>5, ProbingFacts
      <3>. QED  BY <3>1 DEF Before, Distance
    <2>. QED  BY <1>4, <2>1 DEF ProbesInv
  <1>10. PhaseInv'
    BY DEF PhaseInv
  <1>. QED  BY <1>1, <1>3, <1>6, <1>7, <1>8, <1>9, <1>10 DEF IInv

\* The lookups after the last round, and the end of the counting.
LEMMA ReadStep ==
    ASSUME IInv,
           \/ EndCount
           \/ \E c \in Cand : Find(c)
           \/ UNCHANGED vars
    PROVE  IInv'
  <1>1. /\ UNCHANGED <<digest, round, hi, lo, leader, pc, at, seen, cur, isNew>>
        /\ PhaseInv'
    BY DEF IInv, EndCount, Find, vars, slotVars, PhaseInv, AllDone
  <1>2. TypeOK'
    <2>1. \A c \in Cand : \A s \in Matches(digest[c]) : leader[s] \in Cand
      <3>1. Stamp = round
        BY StampIsRound DEF IInv, TypeOK
      <3>. QED  BY <3>1 DEF IInv, OwnersInv, Matches, Word, Live
    <2>. QED  BY <1>1, <2>1 DEF IInv, TypeOK, EndCount, Find, vars
  <1>3. \A e \in Cand : (Owns(e)' <=> Owns(e)) /\ (Owns(e) => at'[e] = at[e])
    BY <1>1 DEF Owns
  <1>4. /\ \A s : Live(s)' <=> Live(s)
        /\ \A s : Owners(s)' = Owners(s)
        /\ \A d, s : Holds(d, s)' <=> Holds(d, s)
    BY <1>1, <1>3, SameContents
  <1>5. StampsInv' /\ ReadersInv'
    BY <1>1, <1>4 DEF IInv, StampsInv, ReadersInv
  <1>6. OwnersInv'
    BY <1>1, <1>3, <1>4 DEF IInv, OwnersInv
  <1>7. ProbesInv'
    BY <1>1, <1>4 DEF IInv, ProbesInv, Before, Distance
  <1>. QED  BY <1>1, <1>2, <1>5, <1>6, <1>7 DEF IInv

LEMMA InitIsFine == Init => IInv
  <1> SUFFICES ASSUME Init
               PROVE  IInv
    OBVIOUS
  <1> USE DEF Init
  <1>0. NumSlots \in Nat /\ NumSlots > 0 /\ 0 \in Slot
    BY DigestAssumption DEF Slot
  <1>1. TypeOK
    BY <1>0, DigestAssumption DEF TypeOK, WordType
  <1>2. \A s \in Slot : ~Live(s) /\ hi[s].stamp = 0
    BY DEF Live
  <1>3. \A d, s : s \in Slot => ~Holds(d, s)
    BY <1>2 DEF Holds, Live
  <1>4. StampsInv
    BY <1>2, RoundAssumption DEF StampsInv
  <1>5. OwnersInv /\ ReadersInv /\ PhaseInv
    BY <1>2 DEF OwnersInv, Owns, ReadersInv, PhaseInv
  <1>6. ProbesInv
    <2>1. ASSUME NEW c \in Cand, NEW s \in Slot
          PROVE  ~Before(digest[c], s, at[c])
      <3>1. digest[c] \in Digest /\ at[c] = digest[c].home
        BY <1>1 DEF TypeOK
      <3>2. Distance(digest[c], s) \in Nat /\ Distance(digest[c], at[c]) = 0
        BY <3>1, ProbingFacts
      <3>. QED  BY <3>2 DEF Before
    <2>. QED  BY <1>3, <2>1 DEF ProbesInv
  <1>. QED  BY <1>1, <1>4, <1>5, <1>6 DEF IInv

LEMMA StepIsFine == IInv /\ [Next]_vars => IInv'
  <1> SUFFICES ASSUME IInv, [Next]_vars
               PROVE  IInv'
    OBVIOUS
  <1>1. ASSUME NEW c \in Cand, Insert(c)
        PROVE  IInv'
    BY <1>1, LoadStep, ClaimStep, StoreLoStep, StoreLeaderStep, PublishStep,
       SpinStep, CheckLoStep, LoadLeaderStep, CasLeaderStep DEF Insert
  <1>2. CASE NextRound
    BY <1>2, NextRoundStep
  <1>3. CASE EndCount \/ (\E c \in Cand : Find(c)) \/ UNCHANGED vars
    BY <1>3, ReadStep
  <1>. QED  BY <1>1, <1>2, <1>3 DEF Next

\* The inductive invariant of the lock-free table (DigestMap::insert): busy
\* slots have one owner, readers know what they look at, and no digest is in
\* two slots, for any candidates, digests and table size.
THEOREM MapInvariant == Spec => []IInv
  BY InitIsFine, StepIsFine, PTL DEF Spec

\* The lookups find every candidate's digest (DigestMap::find loops for ever
\* otherwise).
THEOREM LookupsFind == Spec => []FindEnds
  <1>1. IInv => FindEnds
    <2> SUFFICES ASSUME IInv, phase = "find", NEW c \in Cand
                 PROVE  Matches(digest[c]) # {}
      BY DEF FindEnds
    <2>1. pc[c] = "done" /\ TypeOK /\ Stamp = round
      BY StampIsRound DEF IInv, PhaseInv, AllDone, TypeOK
    <2>2. /\ at[c] \in Slot /\ hi[at[c]] \in WordType
          /\ hi[at[c]].stamp = round /\ hi[at[c]].busy = FALSE
          /\ hi[at[c]].tag = digest[c].tag /\ lo[at[c]] = digest[c].lo
      BY <2>1 DEF IInv, ReadersInv, TypeOK, Live, WordType
    <2>3. hi[at[c]] = [stamp |-> round, busy |-> FALSE, tag |-> digest[c].tag]
      BY <2>2 DEF WordType
    <2>. QED  BY <2>1, <2>2, <2>3 DEF Matches, Word
  <1>. QED  BY <1>1, MapInvariant, PTL

-----------------------------------------------------------------------------
(***************************************************************************)
(* Refinement: every step is one of ClassCount's or changes none of its    *)
(* variables.                                                              *)
(***************************************************************************)

\* What the mapping's chief is, without its CHOOSEs.
ChiefsInv ==
    /\ \A d \in Digest, s \in Slot : Holds(d, s) => chiefBar[d] = ChiefOf(s) /\ ChiefOf(s) \in Cand
    /\ \A d \in Digest : (\A s \in Slot : ~Holds(d, s)) => chiefBar[d] = Nobody
    /\ \A c \in Cand : Owns(c) => ChiefOf(at[c]) = c

LEMMA ChiefsAreOne == IInv => ChiefsInv
  <1> SUFFICES ASSUME IInv
               PROVE  ChiefsInv
    OBVIOUS
  <1>1. \A d \in Digest, s, r \in Slot : Holds(d, s) /\ Holds(d, r) => s = r
    BY ProbingIsTotal DEF IInv, ProbesInv
  <1>2. ASSUME NEW d \in Digest, NEW s \in Slot, Holds(d, s)
        PROVE  chiefBar[d] = ChiefOf(s)
    <2>1. (CHOOSE r \in Slot : Holds(d, r)) = s
      BY <1>1, <1>2
    <2>. QED  BY <1>2, <2>1 DEF chiefBar
  <1>3. ASSUME NEW d \in Digest, \A s \in Slot : ~Holds(d, s)
        PROVE  chiefBar[d] = Nobody
    BY <1>3 DEF chiefBar
  <1>4. ASSUME NEW c \in Cand, Owns(c)
        PROVE  ChiefOf(at[c]) = c
    <2>1. hi[at[c]].busy /\ Owners(at[c]) = {c}
      BY <1>4 DEF IInv, OwnersInv, Owners, Owns
    <2>. QED  BY <2>1 DEF ChiefOf
  <1>5. ASSUME NEW s \in Slot, Live(s)
        PROVE  ChiefOf(s) \in Cand
    <2>1. CASE hi[s].busy
      <3>1. Owners(s) # {} /\ Owners(s) \subseteq Cand
        BY <1>5, <2>1 DEF IInv, OwnersInv, Owners
      <3>. QED  BY <2>1, <3>1 DEF ChiefOf
    <2>2. CASE ~hi[s].busy
      BY <1>5, <2>2 DEF ChiefOf, IInv, OwnersInv
    <2>. QED  BY <2>1, <2>2
  <1>6. \A d, s : Holds(d, s) => Live(s)
    BY DEF Holds, Live
  <1>. QED  BY <1>2, <1>3, <1>4, <1>5, <1>6 DEF ChiefsInv

\* The chiefs stay while the slots hold what they held, under the same chief.
LEMMA SameChiefs ==
    ASSUME ChiefsInv, ChiefsInv',
           \A d \in Digest, s \in Slot : Holds(d, s)' <=> Holds(d, s),
           \A d \in Digest, s \in Slot : Holds(d, s) => ChiefOf(s)' = ChiefOf(s)
    PROVE  chiefBar' = chiefBar
  <1>1. ASSUME NEW d \in Digest
        PROVE  chiefBar'[d] = chiefBar[d]
    <2>1. CASE \E s \in Slot : Holds(d, s)
      BY <2>1 DEF ChiefsInv
    <2>2. CASE \A s \in Slot : ~Holds(d, s)
      BY <2>2 DEF ChiefsInv
    <2>. QED  BY <2>1, <2>2
  <1>. QED  BY <1>1 DEF chiefBar

\* A slot's chief is its owner's number or its leader.
LEMMA SameChief ==
    ASSUME IInv, ChiefsInv, ChiefsInv', NEW s \in Slot, Live(s),
           hi'[s] = hi[s], leader'[s] = leader[s], Owners(s)' = Owners(s)
    PROVE  ChiefOf(s)' = ChiefOf(s)
  <1>1. CASE hi[s].busy
    <2>1. PICK e \in Owners(s) : TRUE
      BY <1>1 DEF IInv, OwnersInv
    <2>2. e \in Cand /\ Owns(e) /\ at[e] = s /\ Owns(e)' /\ at'[e] = s
      BY <2>1 DEF Owners, Owns
    <2>. QED  BY <2>2 DEF ChiefsInv
  <1>2. CASE ~hi[s].busy
    BY <1>2 DEF ChiefOf
  <1>. QED  BY <1>1, <1>2

Waiting == {"load", "claim", "spin", "lo", "leader", "casLeader"}

\* A step of insert that reads and does not return is none of ClassCount's.
LEMMA ReadingStutters ==
    ASSUME IInv, ChiefsInv, ChiefsInv', NEW c \in Cand, NEW w \in Waiting,
           pc[c] \in Waiting, pc' = [pc EXCEPT ![c] = w],
           \A e \in Cand : e # c => at'[e] = at[e],
           UNCHANGED <<digest, round, phase, slotVars, isNew, leaders>>
    PROVE  UNCHANGED Abstract!vars
  <1> USE DEF slotVars
  <1>1. \A e \in Cand : (Owns(e)' <=> Owns(e)) /\ (Owns(e) => at'[e] = at[e])
    BY DEF IInv, Owns, TypeOK, Waiting
  <1>2. /\ \A s : Owners(s)' = Owners(s)
        /\ \A d, s : Holds(d, s)' <=> Holds(d, s)
    BY <1>1, SameContents
  <1>3. \A s \in Slot : Live(s) => ChiefOf(s)' = ChiefOf(s)
    BY <1>2, SameChief
  <1>4. chiefBar' = chiefBar
    BY <1>2, <1>3, SameChiefs DEF Holds, Live
  <1>5. enteredBar' = enteredBar
    BY DEF IInv, enteredBar, TypeOK, Waiting
  <1>. QED  BY <1>4, <1>5 DEF Abstract!vars

\* The owner's stores are none of ClassCount's steps either: the insert took
\* effect when the slot was claimed.
LEMMA StoringStutters ==
    ASSUME IInv, ChiefsInv, ChiefsInv', NEW c \in Cand,
           StoreLo(c) \/ StoreLeader(c) \/ Publish(c)
    PROVE  UNCHANGED Abstract!vars
  <1>0. /\ TypeOK /\ Owns(c) /\ at[c] \in Slot /\ Live(at[c]) /\ hi[at[c]].busy
        /\ UNCHANGED <<digest, round, phase, at, leaders>>
    BY DEF IInv, OwnersInv, Owns, TypeOK, StoreLo, StoreLeader, Publish
  <1>1. enteredBar' = enteredBar
    BY <1>0 DEF enteredBar, TypeOK, StoreLo, StoreLeader, Publish, GoTo
  <1>2. CASE StoreLo(c) \/ StoreLeader(c)
    <2>1. hi' = hi /\ \A e \in Cand : Owns(e)' <=> Owns(e)
      BY <1>0, <1>2 DEF StoreLo, StoreLeader, GoTo, Owns, TypeOK
    <2>2. \A s : Owners(s)' = Owners(s)
      BY <1>0, <2>1 DEF Owners, Owns
    <2>3. \A s \in Slot : s # at[c] => lo'[s] = lo[s] /\ leader'[s] = leader[s]
      BY <1>0, <1>2 DEF StoreLo, StoreLeader, TypeOK
    <2>4. \A d \in Digest, s \in Slot : Holds(d, s)' <=> Holds(d, s)
      BY <1>0, <2>1, <2>2, <2>3 DEF Holds
    <2>5. ChiefOf(at[c])' = c /\ ChiefOf(at[c]) = c
      BY <1>0, <2>1 DEF ChiefsInv
    <2>6. \A s \in Slot : Live(s) => ChiefOf(s)' = ChiefOf(s)
      <3>1. \A s \in Slot : Live(s) /\ s # at[c] => ChiefOf(s)' = ChiefOf(s)
        BY <2>1, <2>2, <2>3, SameChief
      <3>. QED  BY <1>0, <2>5, <3>1
    <2>7. chiefBar' = chiefBar
      BY <2>4, <2>6, SameChiefs DEF Holds, Live
    <2>. QED  BY <1>0, <1>1, <2>7 DEF Abstract!vars
  <1>3. CASE Publish(c)
    <2>1. /\ \A s \in Slot : s # at[c] => Owners(s)' = Owners(s) /\ hi'[s] = hi[s]
          /\ \A d \in Digest, s \in Slot : Holds(d, s)' <=> Holds(d, s)
      BY <1>3, PublishHolds
    <2>2. ChiefOf(at[c]) = c
      BY <1>0 DEF ChiefsInv
    <2>3. ChiefOf(at[c])' = c
      <3>1. ~hi'[at[c]].busy /\ leader'[at[c]] = c
        BY <1>0, <1>3 DEF Publish, Word, IInv, OwnersInv, TypeOK
      <3>. QED  BY <1>0, <3>1 DEF ChiefOf
    <2>4. leader' = leader
      BY <1>3 DEF Publish
    <2>5. \A s \in Slot : Live(s) => ChiefOf(s)' = ChiefOf(s)
      <3>1. \A s \in Slot : Live(s) /\ s # at[c] => ChiefOf(s)' = ChiefOf(s)
        BY <2>1, <2>4, SameChief
      <3>. QED  BY <1>0, <2>2, <2>3, <3>1
    <2>6. chiefBar' = chiefBar
      BY <2>1, <2>5, SameChiefs DEF Holds, Live
    <2>. QED  BY <1>0, <1>1, <2>6 DEF Abstract!vars
  <1>. QED  BY <1>2, <1>3

\* Claiming a slot is InsertNew: no slot holds the digest.
LEMMA ClaimIsInsertNew ==
    ASSUME IInv, ChiefsInv, ChiefsInv', NEW c \in Cand, Claim(c), hi[at[c]] = seen[c]
    PROVE  Abstract!InsertNew(c)
  <1>1. /\ TypeOK /\ pc[c] = "claim" /\ pc' = [pc EXCEPT ![c] = "storeLo"]
        /\ UNCHANGED <<digest, round, phase, lo, leader, at, seen, cur, isNew, leaders>>
        /\ ~Live(at[c]) /\ at[c] \in Slot /\ digest[c] \in Digest
    BY ClaimHolds
  <1>2. /\ \A s \in Slot : s # at[c] => Owners(s)' = Owners(s) /\ hi'[s] = hi[s]
        /\ \A d \in Digest, s \in Slot :
              Holds(d, s)' <=> (IF s = at[c] THEN d = digest[c] ELSE Holds(d, s))
        /\ \A s \in Slot : ~Holds(digest[c], s)
        /\ Owns(c)'
    BY ClaimHolds
  <1>3. enteredBar[c] = "waiting" /\ enteredBar' = [enteredBar EXCEPT ![c] = "new"]
    BY <1>1 DEF enteredBar, TypeOK
  <1>4. chiefBar[digest[c]] = Nobody
    BY <1>1, <1>2 DEF ChiefsInv
  <1>5. chiefBar'[digest[c]] = c
    <2>1. Holds(digest[c], at[c])' /\ ChiefOf(at[c])' = c
      BY <1>1, <1>2 DEF ChiefsInv
    <2>. QED  BY <1>1, <2>1 DEF ChiefsInv
  <1>6. ASSUME NEW d \in Digest, d # digest[c]
        PROVE  chiefBar'[d] = chiefBar[d]
    <2>1. CASE \E s \in Slot : Holds(d, s)
      <3>1. PICK s \in Slot : Holds(d, s)
        BY <2>1
      <3>2. Live(s) /\ s # at[c]
        BY <1>1, <3>1 DEF Holds, Live
      <3>3. ChiefOf(s)' = ChiefOf(s)
        BY <1>1, <1>2, <3>2, SameChief
      <3>4. Holds(d, s)'
        BY <1>2, <3>1, <3>2
      <3>. QED  BY <3>1, <3>3, <3>4 DEF ChiefsInv
    <2>2. CASE \A s \in Slot : ~Holds(d, s)
      <3>1. \A s \in Slot : ~(Holds(d, s)')
        BY <1>2, <1>6, <2>2
      <3>. QED  BY <2>2, <3>1 DEF ChiefsInv, Nobody
    <2>. QED  BY <2>1, <2>2
  <1>7. chiefBar' = [chiefBar EXCEPT ![digest[c]] = c]
    BY <1>5, <1>6 DEF chiefBar
  <1>. QED  BY <1>1, <1>3, <1>4, <1>7 DEF Abstract!InsertNew, Abstract!Nobody, Nobody

\* insert returning false is InsertOld: the digest is in the slot, and its
\* leader becomes the lower of the two.
LEMMA ReturningIsInsertOld ==
    ASSUME IInv, ChiefsInv, ChiefsInv', NEW c \in Cand, pc[c] \in {"leader", "casLeader"},
           leader' = [leader EXCEPT ![at[c]] = IF c < @ THEN c ELSE @],
           pc' = [pc EXCEPT ![c] = "done"], isNew' = [isNew EXCEPT ![c] = FALSE],
           UNCHANGED <<digest, round, phase, hi, lo, at, leaders>>
    PROVE  Abstract!InsertOld(c)
  <1>1. /\ TypeOK /\ at[c] \in Slot /\ digest[c] \in Digest
        /\ Live(at[c]) /\ ~hi[at[c]].busy /\ Holds(digest[c], at[c])
    BY DEF IInv, TypeOK, ReadersInv, Holds, Live
  <1>2. \A e \in Cand : (Owns(e)' <=> Owns(e)) /\ (Owns(e) => at'[e] = at[e])
    BY <1>1 DEF Owns, TypeOK
  <1>3. /\ \A s : Owners(s)' = Owners(s)
        /\ \A d, s : Holds(d, s)' <=> Holds(d, s)
    BY <1>2, SameContents
  <1>4. chiefBar[digest[c]] = leader[at[c]] /\ leader[at[c]] \in Cand
    BY <1>1 DEF ChiefsInv, ChiefOf
  <1>5. chiefBar'[digest[c]] = IF c < leader[at[c]] THEN c ELSE leader[at[c]]
    <2>1. ChiefOf(at[c])' = IF c < leader[at[c]] THEN c ELSE leader[at[c]]
      BY <1>1 DEF ChiefOf, TypeOK
    <2>2. chiefBar'[digest[c]] = ChiefOf(at[c])'
      BY <1>1, <1>3 DEF ChiefsInv
    <2>. QED  BY <2>1, <2>2
  <1>6. ASSUME NEW d \in Digest, d # digest[c]
        PROVE  chiefBar'[d] = chiefBar[d]
    <2>1. ASSUME NEW s \in Slot, Holds(d, s)
          PROVE  ChiefOf(s)' = ChiefOf(s)
      <3>1. s # at[c]
        BY <1>1, <1>6, <2>1, StoredIsDigest DEF Holds
      <3>. QED  BY <1>1, <1>3, <2>1, <3>1, SameChief DEF Holds, Live, TypeOK
    <2>2. CASE \E s \in Slot : Holds(d, s)
      BY <1>3, <2>1, <2>2 DEF ChiefsInv
    <2>3. CASE \A s \in Slot : ~Holds(d, s)
      BY <1>3, <2>3 DEF ChiefsInv
    <2>. QED  BY <2>2, <2>3
  <1>7. chiefBar' = [chiefBar EXCEPT ![digest[c]] = IF c < @ THEN c ELSE @]
    BY <1>1, <1>4, <1>5, <1>6 DEF chiefBar
  <1>8. enteredBar[c] = "waiting" /\ enteredBar' = [enteredBar EXCEPT ![c] = "old"]
    BY <1>1 DEF enteredBar, TypeOK
  <1>9. chiefBar[digest[c]] # Nobody
    BY <1>4, DigestAssumption DEF Nobody
  <1>. QED  BY <1>7, <1>8, <1>9 DEF Abstract!InsertOld, Abstract!Nobody, Nobody

LEMMA InsertRefines ==
    ASSUME IInv, ChiefsInv, ChiefsInv', NEW c \in Cand, Insert(c)
    PROVE  [Abstract!Next]_(Abstract!vars)
  <1> USE DEF slotVars, GoTo
  <1>0. TypeOK
    BY DEF IInv
  <1>1. ASSUME pc[c] \in {"load", "claim"}, Saw(c, hi[at[c]]),
               UNCHANGED <<digest, round, phase, slotVars, cur, isNew, leaders>>
        PROVE  UNCHANGED Abstract!vars
    <2>1. \E w \in Waiting : pc' = [pc EXCEPT ![c] = w]
      BY <1>1 DEF Saw, Waiting
    <2>2. pc[c] \in Waiting /\ \A e \in Cand : e # c => at'[e] = at[e]
      BY <1>0, <1>1 DEF Saw, Waiting, TypeOK
    <2>. QED  BY <1>1, <2>1, <2>2, ReadingStutters
  <1>2. CASE Load(c)
    BY <1>1, <1>2 DEF Load
  <1>3. CASE Claim(c)
    <2>1. CASE hi[at[c]] = seen[c]
      BY <1>3, <2>1, ClaimIsInsertNew DEF Abstract!Next
    <2>2. CASE hi[at[c]] # seen[c]
      BY <1>1, <1>3, <2>2 DEF Claim
    <2>. QED  BY <2>1, <2>2
  <1>4. CASE StoreLo(c) \/ StoreLeader(c) \/ Publish(c)
    BY <1>4, StoringStutters
  <1>5. CASE Spin(c) \/ CheckLo(c)
    <2>1. \E w \in Waiting : pc' = [pc EXCEPT ![c] = w]
      BY <1>5 DEF Spin, CheckLo, Waiting
    <2>2. /\ pc[c] \in Waiting /\ \A e \in Cand : e # c => at'[e] = at[e]
          /\ UNCHANGED <<digest, round, phase, slotVars, isNew, leaders>>
      BY <1>0, <1>5 DEF Spin, CheckLo, Waiting, TypeOK
    <2>. QED  BY <2>1, <2>2, ReadingStutters
  <1>6. ASSUME pc[c] \in {"leader", "casLeader"}, Lead(c, leader[at[c]]),
               UNCHANGED <<digest, round, phase, slotVars, at, seen, leaders>>
        PROVE  [Abstract!Next]_(Abstract!vars)
    <2>1. CASE c < leader[at[c]]
      <3>1. pc' = [pc EXCEPT ![c] = "casLeader"] /\ isNew' = isNew
        <4>0. leader[at[c]] \in Cand \cup {0}
          BY <1>0 DEF TypeOK
        <4>1. c \in Nat /\ leader[at[c]] \in Nat
          <5>1. \A e \in Cand : e \in Nat
            BY DigestAssumption
          <5>. QED  BY <4>0, <5>1
        <4>2. ~(c >= leader[at[c]])
          BY <2>1, <4>1
        <4>. QED  BY <1>6, <4>2 DEF Lead
      <3>. QED  BY <1>6, <3>1, ReadingStutters DEF Waiting
    <2>2. CASE ~(c < leader[at[c]])
      <3>1. pc' = [pc EXCEPT ![c] = "done"] /\ isNew' = [isNew EXCEPT ![c] = FALSE]
        BY <1>6, <2>2 DEF Lead
      <3>2. leader' = [leader EXCEPT ![at[c]] = IF c < @ THEN c ELSE @]
        BY <1>0, <1>6, <2>2 DEF TypeOK
      <3>. QED  BY <1>6, <3>1, <3>2, ReturningIsInsertOld DEF Abstract!Next
    <2>. QED  BY <2>1, <2>2
  <1>7. CASE LoadLeader(c)
    BY <1>6, <1>7 DEF LoadLeader
  <1>8. CASE CasLeader(c)
    <2>1. CASE leader[at[c]] = cur[c]
      <3>1. c < leader[at[c]]
        BY <1>8, <2>1 DEF CasLeader, IInv, ReadersInv
      <3>2. leader' = [leader EXCEPT ![at[c]] = IF c < @ THEN c ELSE @]
        BY <1>0, <1>8, <2>1, <3>1 DEF CasLeader, TypeOK
      <3>. QED  BY <1>8, <2>1, <3>2, ReturningIsInsertOld DEF CasLeader, Abstract!Next
    <2>2. CASE leader[at[c]] # cur[c]
      BY <1>6, <1>8, <2>2 DEF CasLeader
    <2>. QED  BY <2>1, <2>2
  <1>. QED  BY <1>2, <1>3, <1>4, <1>5, <1>7, <1>8 DEF Insert

\* A new round starts with no class, since its slots are all of earlier ones.
LEMMA NextRoundRefines ==
    ASSUME IInv, ChiefsInv', NextRound
    PROVE  Abstract!NextRound
  <1>1. \A d \in Digest, s \in Slot : ~(Holds(d, s)')
    BY NextRoundStep DEF Holds, Live
  <1>2. chiefBar' = [d \in Digest |-> Nobody]
    <2>1. \A d \in Digest : chiefBar'[d] = Nobody
      BY <1>1 DEF ChiefsInv, Nobody
    <2>. QED  BY <2>1 DEF chiefBar
  <1>3. enteredBar' = [c \in Cand |-> "waiting"]
    BY DEF enteredBar, NextRound, StartRound
  <1>4. \A c \in Cand : enteredBar[c] # "waiting"
    BY DEF enteredBar, NextRound, AllDone
  <1>. QED
    BY <1>2, <1>3, <1>4 DEF NextRound, Abstract!NextRound, Abstract!AllEntered, Abstract!Nobody, Nobody

\* A lookup returns the chief: the slot that matches is the one that holds
\* the digest.
LEMMA ReadRefines ==
    ASSUME IInv, ChiefsInv, ChiefsInv',
           \/ EndCount
           \/ \E c \in Cand : Find(c)
           \/ UNCHANGED vars
    PROVE  [Abstract!Next]_(Abstract!vars)
  <1>1. UNCHANGED <<digest, round, hi, lo, leader, pc, at, isNew>>
    BY DEF EndCount, Find, vars, slotVars
  <1>2. enteredBar' = enteredBar
    BY <1>1 DEF enteredBar
  <1>3. \A e \in Cand : (Owns(e)' <=> Owns(e)) /\ (Owns(e) => at'[e] = at[e])
    BY <1>1 DEF Owns
  <1>4. /\ \A s : Owners(s)' = Owners(s)
        /\ \A d, s : Holds(d, s)' <=> Holds(d, s)
    BY <1>1, <1>3, SameContents
  <1>5. chiefBar' = chiefBar
    <2>1. \A s \in Slot : Live(s) => ChiefOf(s)' = ChiefOf(s)
      BY <1>1, <1>4, SameChief
    <2>. QED  BY <1>4, <2>1, SameChiefs DEF Holds, Live
  <1>6. CASE EndCount
    <2>1. \A c \in Cand : enteredBar[c] # "waiting"
      BY <1>6 DEF enteredBar, EndCount, AllDone
    <2>. QED
      BY <1>2, <1>5, <1>6, <2>1
      DEF EndCount, Abstract!EndCount, Abstract!AllEntered, Abstract!Next
  <1>7. ASSUME NEW c \in Cand, Find(c)
        PROVE  Abstract!Find(c)
    <2>1. PICK s \in Matches(digest[c]) : leaders' = [leaders EXCEPT ![c] = leader[s]]
      BY <1>7 DEF Find
    <2>2. digest[c] \in Digest /\ s \in Slot /\ Stamp = round
      BY StampIsRound DEF IInv, TypeOK, Matches
    <2>3. Holds(digest[c], s) /\ ~hi[s].busy
      BY <2>1, <2>2 DEF Matches, Word, Holds
    <2>4. chiefBar[digest[c]] = leader[s]
      BY <2>2, <2>3 DEF ChiefsInv, ChiefOf
    <2>. QED
      BY <1>1, <1>2, <1>5, <1>7, <2>1, <2>4 DEF Find, Abstract!Find, Abstract!Nobody, Nobody
  <1>8. CASE UNCHANGED vars
    BY <1>2, <1>5, <1>8 DEF vars, Abstract!vars
  <1>. QED  BY <1>6, <1>7, <1>8 DEF Abstract!Next

\* The lock-free inserts and lookups of DigestMap implement ClassCount, where
\* each is a single step: the classes a round counts and the leaders it elects
\* are those of some order of the inserts, whatever the interleaving, for any
\* candidates, digests and table.
THEOREM Linearizable == Spec => CountsAtomically
  <1>1. Init => Abstract!Init
    <2> SUFFICES ASSUME Init
                 PROVE  Abstract!Init
      OBVIOUS
    <2>1. \A d, s : s \in Slot => ~Holds(d, s)
      BY DEF Init, Holds
    <2>2. chiefBar = [d \in Digest |-> Nobody]
      BY <2>1 DEF chiefBar
    <2>3. enteredBar = [c \in Cand |-> "waiting"]
      BY DEF enteredBar, Init
    <2>. QED  BY <2>2, <2>3 DEF Init, Abstract!Init, Abstract!Nobody, Nobody
  <1>2. IInv /\ ChiefsInv /\ ChiefsInv' /\ [Next]_vars => [Abstract!Next]_(Abstract!vars)
    <2> SUFFICES ASSUME IInv, ChiefsInv, ChiefsInv', [Next]_vars
                 PROVE  [Abstract!Next]_(Abstract!vars)
      OBVIOUS
    <2>1. ASSUME NEW c \in Cand, Insert(c)
          PROVE  [Abstract!Next]_(Abstract!vars)
      BY <2>1, InsertRefines
    <2>2. CASE NextRound
      BY <2>2, NextRoundRefines DEF Abstract!Next
    <2>3. CASE EndCount \/ (\E c \in Cand : Find(c)) \/ UNCHANGED vars
      BY <2>3, ReadRefines
    <2>. QED  BY <2>1, <2>2, <2>3 DEF Next
  <1>. QED
    BY <1>1, <1>2, MapInvariant, ChiefsAreOne, PTL DEF Spec, CountsAtomically, Abstract!Spec
=============================================================================
