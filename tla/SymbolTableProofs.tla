-------------------------- MODULE SymbolTableProofs --------------------------
(***************************************************************************)
(* Proofs about SymbolTable: the inductive invariant of gather and intern, *)
(* and from it that ids and names agree, that no symbol is uninitialized,  *)
(* that the raw-pointer writes are disjoint and that a batch's ids depend  *)
(* on no scheduling, for every set of names, assignment of names to        *)
(* shards, set of batches and size of the memory.                          *)
(***************************************************************************)
EXTENDS SymbolTable, FiniteSetTheorems, TLAPS

\* What a place of AllNews is.
LEMMA AllNewsIs ==
    ASSUME NEW d
    PROVE  d \in AllNews <=>
               \E s \in Shards : \E k \in 1..Len(news[s]) : d = <<s, k>>
BY DEF AllNews

\* The entries of a batch are names, and each has a shard.
LEMMA BatchNames ==
    ASSUME TypeOK, NEW i \in 1..Len(batch)
    PROVE  batch[i] \in Name /\ ShardOf[batch[i]] \in Shards
<1>1. batch \in Seq(Name)
  BY DEF TypeOK
<1>2. batch[i] \in Name
  BY <1>1
<1> QED
  BY <1>2, ShardAssumption DEF Shards

\* The empty table has the invariant.
LEMMA InitInvariant == Init => IInv
<1> SUFFICES ASSUME Init PROVE IInv
  OBVIOUS
<1> USE ShardAssumption DEF Init, NoId, Ids, Shards, Lookup
<1>1. TypeOK
  BY DEF TypeOK
<1>2. MapSound /\ GivenInMap /\ ArenaWritten
  BY DEF MapSound, GivenInMap, ArenaWritten
<1>3. NewsSound /\ ResSound /\ BinsSound /\ BasesSound /\ BasesCover
  BY DEF NewsSound, ResSound, BinsSound, BasesSound, BasesCover
<1>4. SlotsNamed /\ TodoSound /\ IdsSound
  BY DEF SlotsNamed, TodoSound, IdsSound
<1> QED
  BY <1>1, <1>2, <1>3, <1>4 DEF IInv

\* intern keeps it: a known name is only returned, a new one gets the first
\* free slot and goes into its shard's map.
LEMMA InternStep ==
    ASSUME IInv, NEW n \in Name, Intern(n)
    PROVE  IInv'
<1> USE ShardAssumption DEF Shards, NoId, Ids
<1>1. CASE Lookup(n) # NoId
  <2>1. UNCHANGED <<shards, mem, len, phase, gatherVars>> /\ given' = given \cup {<<n, Lookup(n)>>}
    BY <1>1 DEF Intern, IInv, TypeOK
  <2>2. Lookup(n) \in Nat
    BY DEF IInv, TypeOK, Lookup
  <2>a. given' \subseteq Name \X Nat
    BY <2>1, <2>2 DEF IInv, TypeOK
  <2>3. TypeOK'
    BY <2>1, <2>a DEF IInv, TypeOK, gatherVars
  <2>4. GivenInMap'
    BY <2>1, <1>1 DEF IInv, GivenInMap, Lookup
  <2>5. MapSound' /\ ArenaWritten' /\ NewsSound' /\ ResSound' /\ BinsSound' /\ BasesSound' /\ BasesCover'
    BY <2>1 DEF IInv, gatherVars, MapSound, ArenaWritten, AllNews, NewsSound, ResSound,
        BinsSound, BasesSound, BasesCover
  <2>6. SlotsNamed' /\ TodoSound' /\ IdsSound'
    BY <2>1 DEF IInv, gatherVars, AllNews, SlotsNamed, TodoSound, IdsSound, Lookup
  <2> QED
    BY <2>3, <2>4, <2>5, <2>6 DEF IInv
<1>2. CASE Lookup(n) = NoId
  <2>1. /\ phase = "idle" /\ phase' = "idle" /\ UNCHANGED gatherVars
        /\ len < Cap /\ len' = len + 1
        /\ mem' = [mem EXCEPT ![len + 1] = n]
        /\ shards' = [shards EXCEPT ![ShardOf[n]][n] = len + 1]
        /\ given' = given \cup {<<n, len + 1>>}
    BY <1>2 DEF Intern
  <2>0. /\ mem \in [1..Cap -> Name \cup {Raw}] /\ len \in 0..Cap
        /\ shards \in [Shards -> [Name -> Ids]] /\ ShardOf[n] \in Shards
    BY DEF IInv, TypeOK
  <2>a. mem' \in [1..Cap -> Name \cup {Raw}] /\ len' \in 0..Cap
    BY <2>0, <2>1
  <2>b. shards' \in [Shards -> [Name -> Ids]]
    BY <2>0, <2>1
  <2>c. given' \subseteq Name \X Nat
    BY <2>0, <2>1 DEF IInv, TypeOK
  <2>2. TypeOK'
    BY <2>1, <2>a, <2>b, <2>c DEF IInv, TypeOK, gatherVars
  <2>3. MapSound'
    <3> SUFFICES ASSUME NEW s \in Shards, NEW m \in Name, shards'[s][m] # NoId
                 PROVE  ShardOf[m] = s /\ shards'[s][m] \in 1..len' /\ mem'[shards'[s][m]] = m
      BY DEF MapSound
    <3>1. CASE s = ShardOf[n] /\ m = n
      BY <2>0, <2>1, <3>1
    <3>2. CASE ~(s = ShardOf[n] /\ m = n)
      <4>1. shards'[s][m] = shards[s][m]
        BY <2>0, <2>1, <3>2
      <4>2. ShardOf[m] = s /\ shards[s][m] \in 1..len /\ mem[shards[s][m]] = m
        BY <4>1 DEF IInv, MapSound
      <4> QED
        BY <2>0, <2>1, <4>1, <4>2
    <3> QED
      BY <3>1, <3>2
  <2>4. GivenInMap'
    BY <2>1, <1>2 DEF IInv, TypeOK, GivenInMap, Lookup
  <2>5. ArenaWritten'
    <3>1. \A i \in 1..len : mem[i] \in Name
      BY DEF IInv, ArenaWritten
    <3>2. \A i \in (len + 1)..Cap : mem[i] = Raw
      BY <2>1 DEF IInv, ArenaWritten
    <3>3. \A i \in 1..len' : mem'[i] \in Name
      BY <2>0, <2>1, <3>1
    <3>4. \A i \in (len' + 1)..Cap : mem'[i] = Raw
      BY <2>0, <2>1, <3>2
    <3> QED
      BY <3>3, <3>4 DEF ArenaWritten
  <2>6. NewsSound' /\ ResSound' /\ BinsSound' /\ BasesSound' /\ BasesCover' /\ SlotsNamed' /\ TodoSound' /\ IdsSound'
    BY <2>1 DEF IInv, TypeOK, gatherVars, NewsSound, ResSound, BinsSound, BasesSound, BasesCover, SlotsNamed,
        TodoSound, IdsSound
  <2> QED
    BY <2>2, <2>3, <2>4, <2>5, <2>6 DEF IInv
<1> QED
  BY <1>1, <1>2

\* add_local keeps it: no map learns of the slot.
LEMMA AddLocalStep ==
    ASSUME IInv, NEW n \in Name, AddLocal(n)
    PROVE  IInv'
<1> USE ShardAssumption DEF Shards, NoId, Ids, AddLocal
<1>0. /\ mem \in [1..Cap -> Name \cup {Raw}] /\ len \in 0..Cap
      /\ shards \in [Shards -> [Name -> Ids]]
  BY DEF IInv, TypeOK
<1>a. mem' \in [1..Cap -> Name \cup {Raw}] /\ len' \in 0..Cap
  BY <1>0
<1>1. TypeOK'
  BY <1>a DEF IInv, TypeOK, gatherVars
<1>2. MapSound' /\ GivenInMap' /\ ArenaWritten'
  <2>1. \A i \in 1..len : mem'[i] = mem[i]
    BY <1>0
  <2>2. MapSound'
    BY <1>0, <2>1 DEF IInv, MapSound
  <2>3. GivenInMap'
    BY DEF IInv, GivenInMap, Lookup
  <2>4. \A i \in 1..len : mem[i] \in Name
    BY DEF IInv, ArenaWritten
  <2>5. \A i \in (len + 1)..Cap : mem[i] = Raw
    BY DEF IInv, ArenaWritten
  <2>6. \A i \in 1..len' : mem'[i] \in Name
    BY <1>0, <2>4
  <2>7. \A i \in (len' + 1)..Cap : mem'[i] = Raw
    BY <1>0, <2>5
  <2> QED
    BY <2>2, <2>3, <2>6, <2>7 DEF ArenaWritten
<1>3. NewsSound' /\ ResSound' /\ BinsSound' /\ BasesSound' /\ BasesCover' /\ SlotsNamed' /\ TodoSound' /\ IdsSound'
  BY DEF IInv, TypeOK, gatherVars, NewsSound, ResSound, BinsSound, BasesSound, BasesCover, SlotsNamed,
      TodoSound, IdsSound
<1> QED
  BY <1>1, <1>2, <1>3 DEF IInv

\* The call of gather keeps it: nothing is resolved yet.
LEMMA GatherStep ==
    ASSUME IInv, NEW b \in Batches, Gather(b)
    PROVE  IInv'
<1> USE ShardAssumption DEF Shards, NoId, Ids, Gather
<1>0. b \in Seq(Name) /\ Len(b) \in Nat /\ len \in Nat
  BY DEF IInv, TypeOK
<1>a. bins' \in [Shards -> SUBSET (1..Len(b))]
  OBVIOUS
<1>b. res' \in [1..Len(b) -> {"none", "old", "new"} \X Nat]
  BY DEF NoRes
<1>c. ids' \in [1..Len(b) -> Nat] /\ news' \in [Shards -> Seq(Name)] /\ bases' \in [Shards -> Nat]
  OBVIOUS
<1>1. TypeOK'
  BY <1>0, <1>a, <1>b, <1>c DEF IInv, TypeOK
<1>2. MapSound' /\ GivenInMap'
  BY ZenonT(60) DEF IInv, TypeOK, MapSound, GivenInMap, Lookup
<1>3. ArenaWritten'
  BY DEF IInv, TypeOK, ArenaWritten
<1>4. NewsSound' /\ BasesSound' /\ BasesCover' /\ SlotsNamed' /\ TodoSound' /\ IdsSound'
  BY DEF IInv, TypeOK, NewsSound, BasesSound, BasesCover, SlotsNamed, TodoSound, IdsSound
<1>d. BinsSound'
  BY DEF BinsSound
<1>5. ResSound'
  <2>1. \A i \in 1..Len(b) : res'[i] = NoRes /\ ShardOf[b[i]] \in Shards
    BY <1>0
  <2>2. \A i \in 1..Len(b) : i \in bins'[ShardOf[b[i]]]
    BY <2>1
  <2> QED
    BY <2>1, <2>2 DEF ResSound, NoRes
<1> QED
  BY <1>1, <1>2, <1>3, <1>4, <1>5, <1>d DEF IInv

\* A shard resolves one name: to an old id, to a new name of the batch seen
\* before, or to one more new name.
LEMMA ResolveStep ==
    ASSUME IInv, NEW s \in Shards, NEW i \in 1..Len(batch), Resolve(s, i)
    PROVE  IInv'
<1> USE ShardAssumption DEF NoId
<1> DEFINE n == batch[i]
<1>1. /\ phase = "resolve" /\ phase' = "resolve"
      /\ i \in bins[s] /\ bins' = [bins EXCEPT ![s] = @ \ {i}]
      /\ UNCHANGED <<shards, mem, len, batch, bases, nextShard, base, todo, ids, given>>
  BY DEF Resolve, NextInBin
<1>2. n \in Name /\ ShardOf[n] = s
  BY <1>1 DEF IInv, TypeOK, BinsSound
<1>3. \/ shards[s][n] # NoId /\ res' = [res EXCEPT ![i] = <<"old", shards[s][n]>>] /\ news' = news
      \/ /\ shards[s][n] = NoId
         /\ \E k \in 1..Len(news[s]) : news[s][k] = n /\ res' = [res EXCEPT ![i] = <<"new", k>>]
         /\ news' = news
      \/ /\ shards[s][n] = NoId
         /\ \A k \in 1..Len(news[s]) : news[s][k] # n
         /\ res' = [res EXCEPT ![i] = <<"new", Len(news[s]) + 1>>]
         /\ news' = [news EXCEPT ![s] = Append(@, n)]
  BY DEF Resolve
<1>4. news \in [Shards -> Seq(Name)] /\ res \in [1..Len(batch) -> {"none", "old", "new"} \X Nat]
  BY DEF IInv, TypeOK
<1>5. news' \in [Shards -> Seq(Name)]
  <2>1. Append(news[s], n) \in Seq(Name)
    BY <1>2, <1>4
  <2> HIDE DEF n
  <2> QED
    BY <1>3, <1>4, <2>1
<1>6. shards[s][n] \in Nat
  BY <1>2 DEF IInv, TypeOK, Ids
<1>7. Len(news[s]) + 1 \in Nat
  BY <1>4
<1>8. res' \in [1..Len(batch) -> {"none", "old", "new"} \X Nat]
  <2>1. PICK r \in {"none", "old", "new"} \X Nat : res' = [res EXCEPT ![i] = r]
    BY <1>3, <1>4, <1>6, <1>7
  <2> QED
    BY <1>4, <2>1
<1>9. TypeOK'
  BY <1>1, <1>5, <1>8 DEF IInv, TypeOK
<1>10. MapSound' /\ GivenInMap'
  BY <1>1 DEF IInv, MapSound, GivenInMap, Lookup
<1>11. ArenaWritten'
  BY <1>1 DEF IInv, ArenaWritten
<1>12. BinsSound' /\ BasesSound' /\ BasesCover' /\ SlotsNamed' /\ TodoSound' /\ IdsSound'
  BY <1>1 DEF IInv, TypeOK, BinsSound, BasesSound, BasesCover, SlotsNamed, TodoSound, IdsSound
<1>13. NewsSound'
  <2>1. CASE news' = news
    BY <1>1, <2>1 DEF IInv, NewsSound
  <2>2. CASE /\ shards[s][n] = NoId
             /\ \A k \in 1..Len(news[s]) : news[s][k] # n
             /\ news' = [news EXCEPT ![s] = Append(@, n)]
    BY <1>1, <1>2, <1>4, <2>2 DEF IInv, NewsSound
  <2> QED
    BY <1>3, <2>1, <2>2
<1>14. ResSound'
  <2> SUFFICES ASSUME NEW j \in 1..Len(batch)
               PROVE  LET t == ShardOf[batch[j]] IN
                      /\ res'[j] = NoRes => j \in bins'[t]
                      /\ res'[j][1] = "none" => res'[j] = NoRes
                      /\ res'[j][1] = "old" => shards[t][batch[j]] = res'[j][2] /\ res'[j][2] # NoId
                      /\ res'[j][1] = "new" =>
                            res'[j][2] \in 1..Len(news'[t]) /\ news'[t][res'[j][2]] = batch[j]
    BY <1>1 DEF ResSound
  <2> DEFINE t == ShardOf[batch[j]]
  <2>1. batch[j] \in Name /\ t \in Shards
    BY BatchNames DEF IInv
  <2>2. /\ res[j] = NoRes => j \in bins[t]
        /\ res[j][1] = "none" => res[j] = NoRes
        /\ res[j][1] = "old" => shards[t][batch[j]] = res[j][2] /\ res[j][2] # NoId
        /\ res[j][1] = "new" => res[j][2] \in 1..Len(news[t]) /\ news[t][res[j][2]] = batch[j]
    BY <1>1 DEF IInv, ResSound
  <2>3. \A k \in 1..Len(news[t]) : k \in 1..Len(news'[t]) /\ news'[t][k] = news[t][k]
    <3>1. news[t] \in Seq(Name) /\ (news'[t] = news[t] \/ news'[t] = Append(news[t], n))
      BY <1>3, <1>4, <2>1
    <3> HIDE DEF n, t
    <3> QED
      BY <1>2, <3>1
  <2>4. CASE j # i
    <3>1. res'[j] = res[j]
      BY <1>3, <1>4, <2>4
    <3>2. j \in bins[t] => j \in bins'[t]
      BY <1>1, <2>1, <2>4 DEF IInv, TypeOK
    <3> QED
      BY <2>2, <2>3, <3>1, <3>2
  <2>5. CASE j = i
    <3>1. t = s /\ batch[j] = n
      BY <1>2, <2>5
    <3>2. CASE shards[s][n] # NoId /\ res' = [res EXCEPT ![i] = <<"old", shards[s][n]>>]
      <4>1. res'[j] = <<"old", shards[s][n]>>
        BY <1>4, <2>5, <3>2
      <4> QED
        BY <3>1, <3>2, <4>1 DEF NoRes
    <3>3. CASE \E k \in 1..Len(news[s]) : news[s][k] = n /\ res' = [res EXCEPT ![i] = <<"new", k>>]
      <4>1. PICK k \in 1..Len(news[s]) : news[s][k] = n /\ res'[j] = <<"new", k>>
        BY <1>4, <2>5, <3>3
      <4> QED
        BY <2>3, <3>1, <4>1 DEF NoRes
    <3>4. CASE /\ res' = [res EXCEPT ![i] = <<"new", Len(news[s]) + 1>>]
               /\ news' = [news EXCEPT ![s] = Append(@, n)]
      <4>1. res'[j] = <<"new", Len(news[s]) + 1>>
        BY <1>4, <2>5, <3>4
      <4>2. news'[s] = Append(news[s], n) /\ news[s] \in Seq(Name)
        BY <1>4, <3>4
      <4>3. Len(news[s]) + 1 \in 1..Len(news'[s]) /\ news'[s][Len(news[s]) + 1] = n
        BY <1>2, <4>2
      <4> QED
        BY <3>1, <4>1, <4>3 DEF NoRes
    <3> QED
      BY <1>3, <3>2, <3>3, <3>4
  <2> QED
    BY <2>4, <2>5
<1> QED
  BY <1>9, <1>10, <1>11, <1>12, <1>13, <1>14 DEF IInv

\* After the first loop every entry is resolved.
LEMMA EndResolveStep ==
    ASSUME IInv, EndResolve
    PROVE  IInv'
<1> USE ShardAssumption DEF NoId, Shards, EndResolve, gatherVars
<1>1. TypeOK' /\ MapSound' /\ GivenInMap' /\ BinsSound'
  BY DEF IInv, TypeOK, MapSound, GivenInMap, BinsSound, Lookup
<1>2. ArenaWritten' /\ NewsSound' /\ SlotsNamed' /\ TodoSound' /\ IdsSound'
  BY DEF IInv, ArenaWritten, NewsSound, SlotsNamed, TodoSound, IdsSound
<1>3. BasesSound' /\ BasesCover'
  BY DEF IInv, TypeOK, BasesSound, BasesCover, Ids
<1>4. ResSound'
  <2>1. \A i \in 1..Len(batch) : ShardOf[batch[i]] \in Shards
    BY BatchNames DEF IInv
  <2> QED
    BY <2>1 DEF IInv, ResSound
<1> QED
  BY <1>1, <1>2, <1>3, <1>4 DEF IInv

\* One step of the prefix sum puts a shard's range right after the last.
LEMMA AssignBaseStep ==
    ASSUME IInv, AssignBase
    PROVE  IInv'
<1> USE ShardAssumption DEF NoId, Shards, AssignBase
<1>0. news \in [Shards -> Seq(Name)] /\ nextShard \in 1..NumShards /\ base \in Nat
  BY DEF IInv, TypeOK
<1>a. Len(news[nextShard]) \in Nat
  BY <1>0
<1>b. bases' \in [Shards -> Nat] /\ base' \in Nat /\ nextShard' \in 1..(NumShards + 1)
  BY <1>0, <1>a DEF IInv, TypeOK
<1>1. TypeOK'
  BY <1>b DEF IInv, TypeOK
<1>2. MapSound' /\ GivenInMap' /\ BinsSound'
  BY DEF IInv, MapSound, GivenInMap, BinsSound, Lookup
<1>3. ArenaWritten' /\ NewsSound' /\ SlotsNamed' /\ TodoSound' /\ IdsSound' /\ ResSound'
  BY DEF IInv, ArenaWritten, NewsSound, SlotsNamed, TodoSound, IdsSound, ResSound
<1>4. BasesSound'
  <2>1. /\ len <= base /\ len \in Nat /\ bases \in [Shards -> Nat]
        /\ \A s \in 1..(nextShard - 1) : len <= bases[s] /\ bases[s] + Len(news[s]) <= base
        /\ \A s, t \in 1..(nextShard - 1) : s < t => bases[s] + Len(news[s]) <= bases[t]
    <3>1. len \in Nat /\ bases \in [Shards -> Nat]
      BY DEF IInv, TypeOK, Ids
    <3> QED
      BY <3>1 DEF IInv, BasesSound
  <2>2. \A s \in Shards : Len(news[s]) \in Nat
    BY <1>0
  <2>3. \A s \in 1..(nextShard - 1) : bases'[s] = bases[s]
    BY <1>0, <2>1
  <2>4. bases'[nextShard] = base
    BY <1>0, <2>1
  <2>5. \A s \in 1..(nextShard' - 1) : len <= bases'[s] /\ bases'[s] + Len(news[s]) <= base'
    BY <1>0, <1>a, <2>1, <2>2, <2>3, <2>4
  <2>6. \A s, t \in 1..(nextShard' - 1) : s < t => bases'[s] + Len(news[s]) <= bases'[t]
    BY <1>0, <1>a, <2>1, <2>2, <2>3, <2>4
  <2> QED
    BY <1>0, <1>a, <2>1, <2>5, <2>6 DEF BasesSound
<1>5. BasesCover'
  <2>1. bases \in [Shards -> Nat] /\ len \in Nat
    BY DEF IInv, TypeOK, Ids
  <2>2. \A s \in 1..(nextShard - 1) : bases'[s] = bases[s]
    BY <1>0, <2>1
  <2>3. bases'[nextShard] = base
    BY <1>0, <2>1
  <2> SUFFICES ASSUME NEW i \in (len + 1)..base'
               PROVE  \E s \in 1..(nextShard' - 1) : \E k \in 1..Len(news[s]) : i = bases'[s] + k
    BY DEF BasesCover
  <2>4. CASE i <= base
    <3>1. PICK s \in 1..(nextShard - 1) : \E k \in 1..Len(news[s]) : i = bases[s] + k
      BY <1>0, <2>1, <2>4 DEF IInv, BasesCover
    <3> QED
      BY <1>0, <2>2, <3>1
  <2>5. CASE i > base
    <3>1. i - base \in 1..Len(news[nextShard]) /\ i = base + (i - base)
      BY <1>0, <1>a, <2>1, <2>5
    <3>2. nextShard \in 1..(nextShard' - 1)
      BY <1>0
    <3> QED
      BY <2>3, <3>1, <3>2
  <2> QED
    BY <1>0, <2>1, <2>4, <2>5
<1> QED
  BY <1>1, <1>2, <1>3, <1>4, <1>5 DEF IInv

\* After the prefix sum there is memory for every new symbol.
LEMMA EndBasesStep ==
    ASSUME IInv, EndBases
    PROVE  IInv'
<1> USE ShardAssumption DEF NoId, Shards, EndBases
<1>1. news \in [Shards -> Seq(Name)] /\ bases \in [Shards -> Nat]
  BY DEF IInv, TypeOK
<1>2. AllNews \subseteq Shards \X Nat /\ AllNews' = AllNews
  BY <1>1 DEF AllNews
<1>3. TypeOK'
  BY <1>2 DEF IInv, TypeOK
<1>4. MapSound' /\ GivenInMap' /\ BinsSound' /\ ResSound' /\ NewsSound' /\ IdsSound'
  BY DEF IInv, MapSound, GivenInMap, BinsSound, Lookup, ResSound, NewsSound, IdsSound
<1>5. ArenaWritten' /\ BasesSound' /\ BasesCover'
  BY DEF IInv, ArenaWritten, BasesSound, BasesCover
<1>6. SlotsNamed' /\ TodoSound'
  BY <1>2 DEF SlotsNamed, TodoSound
<1> QED
  BY <1>3, <1>4, <1>5, <1>6 DEF IInv

\* A process without memory leaves the table as it is.
LEMMA DeathStep ==
    ASSUME IInv, PushFails \/ ReserveFails
    PROVE  IInv'
<1>1. /\ phase \in {"idle", "bases"} /\ phase' = "dead"
      /\ UNCHANGED <<shards, mem, len, gatherVars, given>>
  BY DEF PushFails, ReserveFails
<1>2. TypeOK' /\ MapSound' /\ GivenInMap' /\ BinsSound'
  BY <1>1 DEF IInv, TypeOK, gatherVars, MapSound, GivenInMap, BinsSound, Lookup
<1>3. ArenaWritten'
  BY <1>1 DEF IInv, ArenaWritten
<1>4. ResSound' /\ NewsSound' /\ IdsSound' /\ SlotsNamed' /\ TodoSound' /\ BasesSound' /\ BasesCover'
  BY <1>1 DEF ResSound, NewsSound, IdsSound, SlotsNamed, TodoSound, BasesSound, BasesCover
<1> QED
  BY <1>2, <1>3, <1>4 DEF IInv

\* In the second loop the slots of the new names are distinct, lie above the
\* old symbols and within the memory.
LEMMA SlotsDisjoint ==
    ASSUME IInv, phase = "fill"
    PROVE  /\ \A d \in AllNews : bases[d[1]] + d[2] \in (len + 1)..Cap
           /\ \A d, e \in AllNews : bases[d[1]] + d[2] = bases[e[1]] + e[2] => d = e
<1> USE ShardAssumption DEF Shards
<1>1. /\ news \in [Shards -> Seq(Name)] /\ bases \in [Shards -> Nat]
      /\ len \in Nat /\ base \in Nat /\ base <= Cap /\ nextShard = NumShards + 1
      /\ \A s \in Shards : len <= bases[s] /\ bases[s] + Len(news[s]) <= base
      /\ \A s, t \in Shards : s < t => bases[s] + Len(news[s]) <= bases[t]
  BY DEF IInv, TypeOK, BasesSound, Ids
<1>2. \A s \in Shards : Len(news[s]) \in Nat /\ bases[s] \in Nat
  BY <1>1
<1>3. \A d \in AllNews : d[1] \in Shards /\ d[2] \in 1..Len(news[d[1]]) /\ d = <<d[1], d[2]>>
  BY DEF AllNews
<1>4. ASSUME NEW d \in AllNews
      PROVE  bases[d[1]] + d[2] \in (len + 1)..Cap
  <2>1. PICK s \in Shards : \E k \in 1..Len(news[s]) : d = <<s, k>>
    BY <1>3
  <2>2. PICK k \in 1..Len(news[s]) : d = <<s, k>>
    BY <2>1
  <2>3. /\ bases[s] \in Nat /\ Len(news[s]) \in Nat
        /\ len <= bases[s] /\ bases[s] + Len(news[s]) <= Cap
    BY <1>1, <1>2
  <2>a. k \in Int /\ 1 <= k /\ k <= Len(news[s]) /\ len \in Nat
    BY <1>1
  <2>4. bases[s] + k \in (len + 1)..Cap
    BY <2>3, <2>a
  <2> QED
    BY <2>2, <2>4
<1>5. ASSUME NEW d \in AllNews, NEW e \in AllNews, bases[d[1]] + d[2] = bases[e[1]] + e[2]
      PROVE  d = e
  <2>1. ~(d[1] < e[1])
    BY SMTT(30), <1>1, <1>2, <1>3, <1>5
  <2>2. ~(e[1] < d[1])
    BY <1>1, <1>2, <1>3, <1>5
  <2>3. d[1] = e[1]
    BY <1>3, <2>1, <2>2
  <2>4. d[2] = e[2]
    BY <1>2, <1>3, <1>5, <2>3
  <2> QED
    BY <1>3, <2>3, <2>4
<1> QED
  BY <1>4, <1>5

\* A shard writes one new symbol, into a slot nobody has written.
LEMMA FillStep ==
    ASSUME IInv, NEW s \in Shards, NEW k \in 1..Len(news[s]), Fill(s, k)
    PROVE  IInv' /\ mem[bases[s] + k] = Raw
<1> USE ShardAssumption DEF NoId, Fill
<1> DEFINE a == bases[s] + k
<1>1. <<s, k>> \in AllNews /\ AllNews' = AllNews /\ phase = "fill"
  BY DEF AllNews
<1>2. /\ mem \in [1..Cap -> Name \cup {Raw}] /\ len \in 0..Cap
      /\ news \in [Shards -> Seq(Name)] /\ news[s][k] \in Name
      /\ shards \in [Shards -> [Name -> 0..Cap]]
  BY DEF IInv, TypeOK, Ids
<1>3. /\ a \in (len + 1)..Cap
      /\ \A d \in AllNews : d # <<s, k>> => bases[d[1]] + d[2] # a
      /\ \A d \in AllNews : bases[d[1]] + d[2] \in (len + 1)..Cap
  BY <1>1, SlotsDisjoint
<1>4. a \in 1..Cap /\ mem' = [mem EXCEPT ![a] = news[s][k]]
  BY <1>2, <1>3
<1>5. mem[a] = Raw
  <2>1. \A d \in AllNews \ todo : d # <<s, k>>
    OBVIOUS
  <2> QED
    BY <1>3, <2>1 DEF IInv, ArenaWritten
<1> HIDE DEF a
<1>6. mem' \in [1..Cap -> Name \cup {Raw}]
  BY <1>2, <1>4
<1>7. TypeOK'
  BY <1>6 DEF IInv, TypeOK
<1>8. MapSound' /\ GivenInMap'
  <2>1. \A i \in 1..len : mem'[i] = mem[i]
    BY <1>2, <1>3, <1>4
  <2> QED
    BY <2>1 DEF IInv, MapSound, GivenInMap, Lookup
<1>9. BinsSound' /\ ResSound' /\ NewsSound' /\ IdsSound' /\ BasesSound' /\ BasesCover'
  BY DEF IInv, BinsSound, ResSound, NewsSound, IdsSound, BasesSound, BasesCover
<1>10. TodoSound'
  BY <1>1 DEF IInv, TodoSound
<1>11. ArenaWritten'
  <2>1. \A i \in 1..len : mem'[i] \in Name
    BY <1>2, <1>3, <1>4 DEF IInv, ArenaWritten
  <2>2. ASSUME NEW i \in (len + 1)..Cap, mem'[i] # Raw
        PROVE  \E d \in AllNews \ todo' : i = bases[d[1]] + d[2]
    <3>1. CASE i = a
      BY <1>1, <3>1 DEF a
    <3>2. CASE i # a
      <4>1. mem'[i] = mem[i]
        BY <1>2, <1>4, <3>2
      <4> QED
        BY <2>2, <4>1 DEF IInv, ArenaWritten
    <3> QED
      BY <3>1, <3>2
  <2> QED
    BY <1>1, <2>1, <2>2 DEF ArenaWritten
<1>12. SlotsNamed'
  <2> SUFFICES ASSUME NEW d \in AllNews, d \notin todo'
               PROVE  mem'[bases[d[1]] + d[2]] = news[d[1]][d[2]]
    BY <1>1 DEF SlotsNamed
  <2>1. CASE d = <<s, k>>
    BY <1>2, <1>4, <2>1 DEF a
  <2>2. CASE d # <<s, k>>
    <3>1. bases[d[1]] + d[2] # a /\ bases[d[1]] + d[2] \in 1..Cap
      BY <1>2, <1>3, <2>2
    <3>2. mem[bases[d[1]] + d[2]] = news[d[1]][d[2]]
      BY <1>1, <2>2 DEF IInv, SlotsNamed
    <3> QED
      BY <1>2, <1>4, <3>1, <3>2
  <2> QED
    BY <2>1, <2>2
<1> QED
  BY <1>5, <1>7, <1>8, <1>9, <1>10, <1>11, <1>12 DEF IInv, a

\* set_len takes in exactly the slots the second loop has written.
LEMMA SetLenStep ==
    ASSUME IInv, SetLen
    PROVE  IInv'
<1> USE ShardAssumption DEF NoId, Shards, SetLen
<1>1. /\ news \in [Shards -> Seq(Name)] /\ bases \in [Shards -> Nat]
      /\ len \in Nat /\ base \in Nat /\ len <= base /\ base <= Cap
      /\ nextShard = NumShards + 1
  BY DEF IInv, TypeOK, Ids, BasesSound
<1>2. AllNews \subseteq Shards \X Nat /\ AllNews' = AllNews
  BY <1>1 DEF AllNews
<1>3. TypeOK'
  <2>1. len' \in Ids
    BY <1>1 DEF Ids
  <2> QED
    BY <1>2, <2>1 DEF IInv, TypeOK
<1>4. \A d \in AllNews : /\ bases[d[1]] + d[2] \in (len + 1)..base
                         /\ mem[bases[d[1]] + d[2]] = news[d[1]][d[2]]
                         /\ news[d[1]][d[2]] \in Name
  <2> SUFFICES ASSUME NEW d \in AllNews
               PROVE  /\ bases[d[1]] + d[2] \in (len + 1)..base
                      /\ mem[bases[d[1]] + d[2]] = news[d[1]][d[2]]
                      /\ news[d[1]][d[2]] \in Name
    OBVIOUS
  <2>1. PICK s \in Shards : \E k \in 1..Len(news[s]) : d = <<s, k>>
    BY AllNewsIs DEF Shards
  <2>2. PICK k \in 1..Len(news[s]) : d = <<s, k>>
    BY <2>1
  <2>3. /\ len <= bases[s] /\ bases[s] + Len(news[s]) <= base
        /\ bases[s] \in Nat /\ Len(news[s]) \in Nat /\ news[s][k] \in Name
    BY SMTT(30), <1>1 DEF IInv, BasesSound
  <2>a. k \in Int /\ 1 <= k /\ k <= Len(news[s]) /\ len \in Nat /\ base \in Nat
    BY <1>1
  <2>4. bases[s] + k \in (len + 1)..base
    BY <2>3, <2>a
  <2>5. mem[bases[d[1]] + d[2]] = news[d[1]][d[2]]
    BY DEF IInv, SlotsNamed
  <2> QED
    BY <2>2, <2>3, <2>4, <2>5
<1>5. MapSound' /\ GivenInMap' /\ BinsSound' /\ ResSound' /\ IdsSound'
  <2>1. MapSound'
    BY <1>1 DEF IInv, MapSound
  <2>2. GivenInMap' /\ BinsSound' /\ IdsSound'
    BY DEF IInv, GivenInMap, BinsSound, Lookup, IdsSound
  <2>3. ResSound'
    BY DEF IInv, ResSound
  <2> QED
    BY <2>1, <2>2, <2>3
<1>6. ArenaWritten'
  <2>1. ASSUME NEW i \in (len + 1)..base PROVE mem[i] \in Name
    <3>1. PICK s \in Shards : \E k \in 1..Len(news[s]) : i = bases[s] + k
      <4>1. 1..(nextShard - 1) = Shards
        BY <1>1
      <4> QED
        BY <4>1 DEF IInv, BasesCover
    <3>2. PICK k \in 1..Len(news[s]) : i = bases[s] + k
      BY <3>1
    <3>3. <<s, k>> \in AllNews
      BY DEF AllNews
    <3> QED
      BY <1>4, <3>2, <3>3
  <2>2. \A i \in 1..len : mem[i] \in Name
    BY DEF IInv, ArenaWritten
  <2>3. ASSUME NEW i \in (base + 1)..Cap PROVE mem[i] = Raw
    <3>1. i \in (len + 1)..Cap /\ i \notin (len + 1)..base
      BY <1>1
    <3> QED
      BY <1>4, <3>1 DEF IInv, ArenaWritten
  <2>4. \A i \in 1..base : i \in 1..len \/ i \in (len + 1)..base
    BY <1>1
  <2> QED
    BY <2>1, <2>2, <2>3, <2>4 DEF ArenaWritten
<1>7. NewsSound'
  <2>1. \A s \in Shards : \A k \in 1..Len(news[s]) : <<s, k>> \in AllNews
    BY DEF AllNews
  <2> QED
    BY <2>1 DEF IInv, NewsSound
<1>8. BasesSound' /\ BasesCover'
  BY <1>1 DEF BasesSound, BasesCover
<1>9. SlotsNamed' /\ TodoSound'
  <2>1. \A d \in AllNews : bases[d[1]] + d[2] \in 1..base
    BY <1>1, <1>4
  <2> QED
    BY <1>2, <1>4, <2>1 DEF SlotsNamed, TodoSound
<1> QED
  BY <1>3, <1>5, <1>6, <1>7, <1>8, <1>9 DEF IInv

\* A new name goes into its map, which did not know it.
LEMMA InsertStep ==
    ASSUME IInv, NEW s \in Shards, NEW k \in 1..Len(news[s]), Insert(s, k)
    PROVE  IInv'
<1> USE ShardAssumption DEF NoId, Insert
<1> DEFINE m == news[s][k]
           a == bases[s] + k
<1>1. /\ <<s, k>> \in AllNews /\ AllNews' = AllNews /\ phase = "insert" /\ phase' = "insert"
      /\ todo' = todo \ {<<s, k>>} /\ <<s, k>> \in todo
  BY DEF AllNews
<1>2. /\ news \in [Shards -> Seq(Name)] /\ m \in Name /\ len \in 0..Cap
      /\ shards \in [Shards -> [Name -> Ids]]
  BY DEF IInv, TypeOK, Ids
<1>a. \A i \in 1..Len(batch) : batch[i] \in Name /\ ShardOf[batch[i]] \in Shards
  BY BatchNames DEF IInv
<1>3. a \in 1..len /\ mem[a] = m
  BY <1>1 DEF IInv, SlotsNamed
<1>4. ShardOf[m] = s /\ shards[s][m] = NoId
  BY <1>1 DEF IInv, NewsSound
<1>5. shards' = [shards EXCEPT ![s][m] = a]
  OBVIOUS
<1>6. \A j \in 1..Len(news[s]) : news[s][j] = m => j = k
  BY <1>1 DEF IInv, NewsSound
<1> HIDE DEF m, a
<1>7. /\ shards'[s][m] = a
      /\ \A t \in Shards, n \in Name : ~(t = s /\ n = m) => shards'[t][n] = shards[t][n]
  BY <1>2, <1>5
<1>8. TypeOK'
  <2>1. a \in Ids
    BY <1>2, <1>3 DEF Ids
  <2>2. shards' \in [Shards -> [Name -> Ids]]
    BY <1>2, <1>5, <2>1
  <2> QED
    BY <2>2 DEF IInv, TypeOK
<1>9. MapSound'
  BY <1>2, <1>3, <1>4, <1>7 DEF IInv, MapSound
<1>10. GivenInMap'
  <2>1. \A g \in given : g[1] \in Name /\ ShardOf[g[1]] \in Shards
    BY DEF IInv, TypeOK, Shards
  <2>2. \A g \in given : shards[ShardOf[g[1]]][g[1]] = g[2] /\ g[2] # NoId
    BY DEF IInv, GivenInMap, Lookup
  <2>3. \A g \in given : g[1] # m
    BY <1>4, <2>2
  <2> QED
    BY <1>7, <2>1, <2>2, <2>3 DEF GivenInMap, Lookup
<1>11. BinsSound' /\ BasesSound' /\ BasesCover' /\ IdsSound' /\ TodoSound' /\ SlotsNamed'
  BY <1>1 DEF IInv, BinsSound, BasesSound, BasesCover, IdsSound, TodoSound, SlotsNamed
<1>12. ArenaWritten'
  BY <1>1 DEF IInv, ArenaWritten
<1>13. NewsSound'
  <2> SUFFICES ASSUME NEW t \in Shards, NEW j \in 1..Len(news[t])
               PROVE  /\ ShardOf[news[t][j]] = t
                      /\ \A l \in 1..Len(news[t]) : news[t][l] = news[t][j] => l = j
                      /\ IF <<t, j>> \notin todo'
                           THEN shards'[t][news[t][j]] = bases[t] + j
                           ELSE shards'[t][news[t][j]] = NoId
    <3>1. news' = news /\ bases' = bases
      OBVIOUS
    <3> HIDE DEF Insert
    <3> QED
      BY <1>1, <3>1 DEF NewsSound
  <2>1. /\ ShardOf[news[t][j]] = t
        /\ \A l \in 1..Len(news[t]) : news[t][l] = news[t][j] => l = j
        /\ IF <<t, j>> \notin todo
             THEN shards[t][news[t][j]] = bases[t] + j
             ELSE shards[t][news[t][j]] = NoId
    BY <1>1 DEF IInv, NewsSound
  <2>2. news[t][j] \in Name
    BY <1>2
  <2>3. CASE t = s /\ j = k
    BY <1>1, <1>7, <2>1, <2>3 DEF m, a
  <2>4. CASE ~(t = s /\ j = k)
    <3>1. ~(t = s /\ news[t][j] = m)
      BY <1>6, <2>4
    <3>2. shards'[t][news[t][j]] = shards[t][news[t][j]]
      BY <1>7, <2>2, <3>1
    <3>3. <<t, j>> \in todo' <=> <<t, j>> \in todo
      BY <1>1, <2>4
    <3> QED
      BY <2>1, <3>2, <3>3
  <2> QED
    BY <2>3, <2>4
<1>14. ResSound'
  <2> SUFFICES ASSUME NEW i \in 1..Len(batch)
               PROVE  LET t == ShardOf[batch[i]] IN
                      /\ res[i] # NoRes
                      /\ res[i][1] = "none" => res[i] = NoRes
                      /\ res[i][1] = "old" => shards'[t][batch[i]] = res[i][2] /\ res[i][2] # NoId
                      /\ res[i][1] = "new" =>
                            res[i][2] \in 1..Len(news[t]) /\ news[t][res[i][2]] = batch[i]
    BY <1>1 DEF ResSound
  <2> DEFINE t == ShardOf[batch[i]]
  <2>1. batch[i] \in Name /\ t \in Shards
    BY <1>a
  <2>2. /\ res[i] # NoRes
        /\ res[i][1] = "none" => res[i] = NoRes
        /\ res[i][1] = "old" => shards[t][batch[i]] = res[i][2] /\ res[i][2] # NoId
        /\ res[i][1] = "new" => res[i][2] \in 1..Len(news[t]) /\ news[t][res[i][2]] = batch[i]
    BY <1>1 DEF IInv, ResSound
  <2>3. res[i][1] = "old" => ~(t = s /\ batch[i] = m)
    BY <1>4, <2>2
  <2> QED
    BY <1>7, <2>1, <2>2, <2>3
<1> QED
  BY <1>8, <1>9, <1>10, <1>11, <1>12, <1>13, <1>14 DEF IInv

\* After the third loop the maps know every name of the batch.
LEMMA EndInsertStep ==
    ASSUME IInv, EndInsert
    PROVE  IInv'
<1> USE ShardAssumption DEF NoId, EndInsert
<1>1. \A i \in 1..Len(batch) : batch[i] \in Name /\ ShardOf[batch[i]] \in Shards
  BY BatchNames DEF IInv
<1>2. bins' \in [Shards -> SUBSET (1..Len(batch))]
  OBVIOUS
<1>3. TypeOK'
  BY <1>2 DEF IInv, TypeOK
<1>4. MapSound' /\ GivenInMap'
  BY DEF IInv, MapSound, GivenInMap, Lookup
<1>5. ArenaWritten' /\ BasesSound' /\ BasesCover' /\ TodoSound'
  BY DEF IInv, ArenaWritten, BasesSound, BasesCover, TodoSound
<1>6. AllNews' = AllNews
  BY DEF AllNews
<1>7. SlotsNamed'
  BY <1>6 DEF IInv, SlotsNamed
<1>8. NewsSound'
  BY DEF IInv, NewsSound
<1>9. ResSound'
  BY DEF IInv, ResSound
<1>10. BinsSound'
  BY DEF BinsSound
<1>11. IdsSound'
  <2>1. \A i \in 1..Len(batch) : i \in bins'[ShardOf[batch[i]]]
    BY <1>1
  <2> QED
    BY <2>1 DEF IdsSound
<1> QED
  BY <1>3, <1>4, <1>5, <1>7, <1>8, <1>9, <1>10, <1>11 DEF IInv

\* The id that is scattered is the one in the map.
LEMMA ScatterStep ==
    ASSUME IInv, NEW s \in Shards, NEW i \in 1..Len(batch), Scatter(s, i)
    PROVE  IInv'
<1> USE ShardAssumption DEF NoId
<1>1. /\ phase = "scatter" /\ phase' = "scatter" /\ i \in bins[s]
      /\ bins' = [bins EXCEPT ![s] = @ \ {i}]
      /\ ids' = [ids EXCEPT ![i] = IF res[i][1] = "old" THEN res[i][2] ELSE bases[s] + res[i][2]]
      /\ UNCHANGED <<shards, mem, len, batch, res, news, bases, nextShard, base, todo, given>>
  BY DEF Scatter
<1>2. /\ ids \in [1..Len(batch) -> Nat] /\ bins \in [Shards -> SUBSET (1..Len(batch))]
      /\ res[i] \in {"none", "old", "new"} \X Nat /\ bases[s] \in Nat
      /\ \A j \in 1..Len(batch) : batch[j] \in Name /\ ShardOf[batch[j]] \in Shards
  BY BatchNames DEF IInv, TypeOK
<1>3. ShardOf[batch[i]] = s
  BY <1>1 DEF IInv, BinsSound
<1>4. ids'[i] = Lookup(batch[i]) /\ ids'[i] # NoId
  <2>1. ids'[i] = IF res[i][1] = "old" THEN res[i][2] ELSE bases[s] + res[i][2]
    BY <1>1, <1>2
  <2>2. /\ res[i] # NoRes /\ (res[i][1] = "none" => res[i] = NoRes)
        /\ res[i][1] = "old" => shards[s][batch[i]] = res[i][2] /\ res[i][2] # NoId
        /\ res[i][1] = "new" => res[i][2] \in 1..Len(news[s]) /\ news[s][res[i][2]] = batch[i]
    BY <1>1, <1>3 DEF IInv, ResSound
  <2>3. CASE res[i][1] = "old"
    BY <1>3, <2>1, <2>2, <2>3 DEF Lookup
  <2>4. CASE res[i][1] = "new"
    <3>1. shards[s][news[s][res[i][2]]] = bases[s] + res[i][2]
      BY <1>1, <2>2, <2>4 DEF IInv, NewsSound
    <3> QED
      BY <1>2, <1>3, <2>1, <2>2, <2>4, <3>1 DEF Lookup
  <2> QED
    BY <1>2, <2>2, <2>3, <2>4
<1>5. TypeOK'
  <2>1. ids' \in [1..Len(batch) -> Nat]
    BY <1>1, <1>2
  <2>2. bins' \in [Shards -> SUBSET (1..Len(batch))]
    BY <1>1, <1>2
  <2> QED
    BY <1>1, <2>1, <2>2 DEF IInv, TypeOK
<1>6. MapSound' /\ GivenInMap'
  BY <1>1 DEF IInv, MapSound, GivenInMap, Lookup
<1>7. ArenaWritten' /\ BasesSound' /\ BasesCover'
  BY <1>1 DEF IInv, ArenaWritten, BasesSound, BasesCover
<1>8. NewsSound' /\ ResSound'
  BY <1>1 DEF IInv, NewsSound, ResSound, NoRes
<1>9. AllNews' = AllNews
  BY <1>1 DEF AllNews
<1>10. SlotsNamed' /\ TodoSound'
  BY <1>1, <1>9 DEF IInv, SlotsNamed, TodoSound
<1>11. BinsSound'
  BY <1>1, <1>2 DEF IInv, BinsSound
<1>12. IdsSound'
  <2> SUFFICES ASSUME NEW j \in 1..Len(batch), j \notin bins'[ShardOf[batch[j]]]
               PROVE  ids'[j] = Lookup(batch[j]) /\ ids'[j] # NoId
    BY <1>1 DEF IInv, IdsSound, Lookup
  <2>1. CASE j = i
    BY <1>4, <2>1
  <2>2. CASE j # i
    <3>1. ids'[j] = ids[j] /\ j \notin bins[ShardOf[batch[j]]]
      BY <1>1, <1>2, <2>2
    <3> QED
      BY <1>1, <3>1 DEF IInv, IdsSound
  <2> QED
    BY <2>1, <2>2
<1> QED
  BY <1>5, <1>6, <1>7, <1>8, <1>10, <1>11, <1>12 DEF IInv

\* gather returns what the maps say.
LEMMA EndGatherStep ==
    ASSUME IInv, EndGather
    PROVE  IInv'
<1> USE ShardAssumption DEF NoId
<1>1. /\ phase = "scatter" /\ phase' = "idle" /\ \A s \in Shards : bins[s] = {}
      /\ given' = given \cup {<<batch[i], ids[i]>> : i \in 1..Len(batch)}
      /\ UNCHANGED <<shards, mem, len, batch, bins, res, news, bases, nextShard, base, todo, ids>>
  BY DEF EndGather, gatherVars
<1>2. \A i \in 1..Len(batch) : /\ batch[i] \in Name /\ ids[i] \in Nat
                              /\ ShardOf[batch[i]] \in Shards
  BY BatchNames DEF IInv, TypeOK
<1>3. \A i \in 1..Len(batch) : ids[i] = Lookup(batch[i]) /\ ids[i] # NoId
  BY <1>1, <1>2 DEF IInv, IdsSound
<1>4. TypeOK'
  <2>1. given' \subseteq Name \X Nat
    BY <1>1, <1>2 DEF IInv, TypeOK
  <2> QED
    BY <1>1, <2>1 DEF IInv, TypeOK
<1>5. GivenInMap'
  <2>1. \A g \in given : Lookup(g[1]) = g[2] /\ g[2] # NoId
    BY DEF IInv, GivenInMap
  <2>2. \A g \in given' : Lookup(g[1]) = g[2] /\ g[2] # NoId
    BY <1>1, <1>3, <2>1
  <2> QED
    BY <1>1, <2>2 DEF GivenInMap, Lookup
<1>6. MapSound' /\ BinsSound'
  BY <1>1 DEF IInv, MapSound, BinsSound
<1>7. ArenaWritten'
  BY <1>1 DEF IInv, ArenaWritten
<1>8. NewsSound' /\ ResSound' /\ BasesSound' /\ BasesCover' /\ SlotsNamed' /\ TodoSound' /\ IdsSound'
  BY <1>1 DEF NewsSound, ResSound, BasesSound, BasesCover, SlotsNamed, TodoSound, IdsSound
<1> QED
  BY <1>4, <1>5, <1>6, <1>7, <1>8 DEF IInv

\* A step that changes nothing.
LEMMA StutterStep ==
    ASSUME IInv, UNCHANGED vars
    PROVE  IInv'
<1>1. TypeOK' /\ MapSound' /\ GivenInMap' /\ BinsSound'
  BY DEF vars, gatherVars, IInv, TypeOK, MapSound, GivenInMap, BinsSound, Lookup
<1>2. AllNews' = AllNews
  BY DEF vars, gatherVars, AllNews
<1>3. ArenaWritten' /\ NewsSound' /\ ResSound' /\ BasesSound' /\ BasesCover'
  BY <1>2 DEF vars, gatherVars, IInv, ArenaWritten, NewsSound, ResSound, BasesSound, BasesCover
<1>4. SlotsNamed' /\ TodoSound' /\ IdsSound'
  BY <1>2 DEF vars, gatherVars, IInv, SlotsNamed, TodoSound, IdsSound, Lookup
<1> QED
  BY <1>1, <1>3, <1>4 DEF IInv

\* The table's invariant holds in every reachable state: of intern and
\* add_local and of every loop of gather, whatever the shards' threads do.
THEOREM TableInvariant == Spec => []IInv
<1>1. Init => IInv
  BY InitInvariant
<1>2. IInv /\ [Next]_vars => IInv'
  <2> SUFFICES ASSUME IInv, [Next]_vars PROVE IInv'
    OBVIOUS
  <2>1. CASE \E n \in Name : Intern(n) \/ AddLocal(n)
    BY <2>1, InternStep, AddLocalStep
  <2>2. CASE \E b \in Batches : Gather(b)
    BY <2>2, GatherStep
  <2>3. CASE \E s \in Shards, i \in 1..Len(batch) : Resolve(s, i) \/ Scatter(s, i)
    BY <2>3, ResolveStep, ScatterStep
  <2>4. CASE EndResolve \/ AssignBase \/ EndBases
    BY <2>4, EndResolveStep, AssignBaseStep, EndBasesStep
  <2>5. CASE \E s \in Shards : \E k \in 1..Len(news[s]) : Fill(s, k) \/ Insert(s, k)
    BY <2>5, FillStep, InsertStep
  <2>6. CASE SetLen \/ EndInsert \/ EndGather
    BY <2>6, SetLenStep, EndInsertStep, EndGatherStep
  <2>7. CASE PushFails \/ ReserveFails
    BY <2>7, DeathStep
  <2>8. CASE Dead \/ UNCHANGED vars
    BY <2>8, StutterStep DEF Dead
  <2> QED
    BY <2>1, <2>2, <2>3, <2>4, <2>5, <2>6, <2>7, <2>8 DEF Next
<1> QED
  BY <1>1, <1>2, PTL DEF Spec

\* The ids that intern and gather return name what they were asked for:
\* the same name always gets the same id, and different names never do.
THEOREM OneIdPerName == Spec => []IdsAreNames
<1>1. IInv => IdsAreNames
  <2> SUFFICES ASSUME IInv, NEW g \in given, NEW h \in given
               PROVE  /\ g[1] = h[1] <=> g[2] = h[2]
                      /\ g[2] \in 1..len
                      /\ mem[g[2]] = g[1]
                      /\ phase = "idle" => Lookup(g[1]) = g[2]
    BY DEF IdsAreNames
  <2>1. /\ g[1] \in Name /\ h[1] \in Name
        /\ ShardOf[g[1]] \in Shards /\ ShardOf[h[1]] \in Shards
    BY ShardAssumption DEF IInv, TypeOK, Shards
  <2>2. /\ Lookup(g[1]) = g[2] /\ g[2] # NoId
        /\ Lookup(h[1]) = h[2] /\ h[2] # NoId
    BY DEF IInv, GivenInMap
  <2>3. /\ g[2] \in 1..len /\ mem[g[2]] = g[1]
        /\ h[2] \in 1..len /\ mem[h[2]] = h[1]
    BY <2>1, <2>2 DEF IInv, MapSound, Lookup
  <2> QED
    BY <2>2, <2>3
<1> QED
  BY <1>1, TableInvariant, PTL

\* No symbol of the table is memory that nobody wrote: set_len covers only
\* slots that gather's second loop has filled.
THEOREM NoUninitializedSymbol == Spec => []NoRawSymbol
<1>1. IInv => NoRawSymbol
  BY ShardAssumption DEF IInv, ArenaWritten, NoRawSymbol
<1> QED
  BY <1>1, TableInvariant, PTL

\* No step overwrites a slot that was written: the raw-pointer writes of the
\* shards' threads go to disjoint slots above the old symbols.
THEOREM SlotsWrittenOnce == Spec => WrittenOnce
<1> DEFINE Once == \A i \in 1..Cap : mem[i] # Raw => mem'[i] = mem[i]
<1>1. ASSUME IInv, [Next]_vars PROVE Once
  <2>0. mem \in [1..Cap -> Name \cup {Raw}] /\ len \in 0..Cap
    BY <1>1 DEF IInv, TypeOK, Ids
  <2>1. CASE UNCHANGED mem
    BY <2>1
  <2>2. ASSUME NEW n \in Name, phase = "idle", len < Cap, mem' = [mem EXCEPT ![len + 1] = n]
        PROVE  Once
    <3>1. len + 1 \in (len + 1)..Cap
      BY <2>0, <2>2, ShardAssumption
    <3>2. mem[len + 1] = Raw
      BY <1>1, <2>2, <3>1 DEF IInv, ArenaWritten
    <3> QED
      BY <2>0, <2>2, <3>2
  <2>3. ASSUME NEW s \in Shards, NEW k \in 1..Len(news[s]), Fill(s, k)
        PROVE  Once
    <3>1. mem[bases[s] + k] = Raw
      BY <1>1, <2>3, FillStep
    <3>2. mem' = [mem EXCEPT ![bases[s] + k] = news[s][k]]
      BY <2>3 DEF Fill
    <3> QED
      BY <2>0, <3>1, <3>2
  <2>4. \/ UNCHANGED mem
        \/ \E n \in Name : phase = "idle" /\ len < Cap /\ mem' = [mem EXCEPT ![len + 1] = n]
        \/ \E s \in Shards : \E k \in 1..Len(news[s]) : Fill(s, k)
    BY <1>1 DEF Next, vars, Intern, AddLocal, PushFails, Gather, Resolve, EndResolve, AssignBase,
        EndBases, ReserveFails, SetLen, Insert, EndInsert, Scatter, EndGather, Dead
  <2> QED
    BY <2>1, <2>2, <2>3, <2>4
<1>2. IInv /\ [Next]_vars => [Once]_vars
  BY <1>1
<1> QED
  BY <1>2, TableInvariant, PTL DEF Spec, WrittenOnce

-----------------------------------------------------------------------------
(***************************************************************************)
(* Ids are deterministic.  The table's invariant is strengthened by the    *)
(* order in which the shards see their names and by what the first base    *)
(* stands for once the length has grown.                                   *)
(***************************************************************************)

\* Index i is where the batch names n first.
IsFirst(i, n) == batch[i] = n /\ \A j \in 1..(i - 1) : batch[j] # n

\* A shard resolves its names in the batch's order.
InOrder ==
    phase = "resolve" =>
        \A s \in Shards : \A i \in bins[s], j \in 1..Len(batch) :
            ShardOf[batch[j]] = s /\ j \notin bins[s] => j < i

\* So its new names are in the order of their first occurrences.
NewsOrdered ==
    phase \notin {"idle", "dead"} =>
        \A s \in Shards :
            /\ \A k \in 1..Len(news[s]) : \E i \in 1..Len(batch) :
                  /\ IsFirst(i, news[s][k]) /\ res[i][1] = "new"
                  /\ phase = "resolve" => i \notin bins[s]
            /\ \A j, k \in 1..Len(news[s]) : j < k =>
                  \A x, y \in 1..Len(batch) :
                      IsFirst(x, news[s][j]) /\ IsFirst(y, news[s][k]) => x < y

\* The first base is the number of old symbols, also after set_len.
BaseIsOld ==
    /\ phase \in {"bases", "fill"} =>
          /\ nextShard = 1 => base = len
          /\ nextShard > 1 => bases[1] = len
    /\ phase \in {"insert", "scatter"} /\ NumShards > 0 =>
          /\ \A s \in Shards : bases[1] <= bases[s] /\ bases[s] + Len(news[s]) <= len
          /\ \A s, t \in Shards : s < t => bases[s] + Len(news[s]) <= bases[t]
          /\ \A i \in (bases[1] + 1)..len :
                \E s \in Shards : \E k \in 1..Len(news[s]) : i = bases[s] + k
          /\ \A i \in 1..Len(batch) : res[i][1] = "old" => res[i][2] <= bases[1]

OrderInv == InOrder /\ NewsOrdered /\ BaseIsOld

LEMMA FirstIsUnique ==
    ASSUME NEW n, NEW x \in 1..Len(batch), NEW y \in 1..Len(batch), batch \in Seq(Name),
           IsFirst(x, n), IsFirst(y, n)
    PROVE  x = y
<1>1. x \in Int /\ y \in Int /\ x >= 1 /\ y >= 1
  OBVIOUS
<1>2. ~(x < y)
  BY <1>1 DEF IsFirst
<1>3. ~(y < x)
  BY <1>1 DEF IsFirst
<1> QED
  BY <1>1, <1>2, <1>3

\* The shard's next name is seen for the first time, or known.
LEMMA ResolveKeepsOrder ==
    ASSUME IInv, OrderInv, NEW s \in Shards, NEW i \in 1..Len(batch), Resolve(s, i)
    PROVE  OrderInv'
<1> DEFINE n == batch[i]
<1>1. /\ phase = "resolve" /\ phase' = "resolve"
      /\ i \in bins[s] /\ (\A j \in bins[s] : i <= j)
      /\ bins' = [bins EXCEPT ![s] = @ \ {i}]
      /\ UNCHANGED <<shards, len, batch, bases, nextShard, base>>
  BY DEF Resolve, NextInBin
<1>2. /\ bins \in [Shards -> SUBSET (1..Len(batch))] /\ batch \in Seq(Name)
      /\ res \in [1..Len(batch) -> {"none", "old", "new"} \X Nat]
      /\ news \in [Shards -> Seq(Name)] /\ Len(batch) \in Nat
  BY DEF IInv, TypeOK
<1>3. \A t \in Shards : bins'[t] = IF t = s THEN bins[s] \ {i} ELSE bins[t]
  BY <1>1, <1>2
<1>4. ShardOf[n] = s
  BY <1>1 DEF IInv, BinsSound
<1>5. InOrder'
  <2> SUFFICES ASSUME NEW t \in Shards, NEW x \in bins'[t], NEW j \in 1..Len(batch),
                      ShardOf[batch[j]] = t, j \notin bins'[t]
               PROVE  j < x
    BY <1>1 DEF InOrder
  <2>1. CASE t # s
    BY <1>1, <1>3, <2>1 DEF OrderInv, InOrder
  <2>2. CASE t = s /\ j # i
    BY <1>1, <1>3, <2>2 DEF OrderInv, InOrder
  <2>3. CASE t = s /\ j = i
    <3>1. x \in bins[s] /\ x # i /\ x \in Int /\ i \in Int
      BY <1>2, <1>3, <2>3
    <3> QED
      BY <1>1, <2>3, <3>1
  <2> QED
    BY <2>1, <2>2, <2>3
<1>6. BaseIsOld'
  BY <1>1 DEF BaseIsOld
<1>7. \A x \in 1..Len(batch) : x # i => res'[x] = res[x]
  BY <1>2 DEF Resolve
<1>8. \A x, m : IsFirst(x, m)' <=> IsFirst(x, m)
  BY <1>1 DEF IsFirst
<1>9. ASSUME NEW t \in Shards, NEW k \in 1..Len(news[t])
      PROVE  \E x \in 1..Len(batch) : /\ IsFirst(x, news[t][k]) /\ res'[x][1] = "new"
                                      /\ x \notin bins[t] /\ x # i
  <2>1. PICK x \in 1..Len(batch) : IsFirst(x, news[t][k]) /\ res[x][1] = "new" /\ x \notin bins[t]
    BY <1>1 DEF OrderInv, NewsOrdered
  <2>2. ShardOf[news[t][k]] = t
    BY <1>1 DEF IInv, NewsSound
  <2>3. x # i
    BY <1>1, <1>4, <2>1, <2>2 DEF IsFirst
  <2> QED
    BY <1>7, <2>1, <2>3
<1>10. ASSUME NEW t \in Shards, news'[t] = news[t]
       PROVE  /\ \A k \in 1..Len(news'[t]) : \E x \in 1..Len(batch) :
                    IsFirst(x, news'[t][k]) /\ res'[x][1] = "new" /\ x \notin bins'[t]
              /\ \A j, k \in 1..Len(news'[t]) : j < k =>
                    \A x, y \in 1..Len(batch) :
                        IsFirst(x, news'[t][j]) /\ IsFirst(y, news'[t][k]) => x < y
  <2>1. bins'[t] \subseteq bins[t]
    BY <1>3
  <2>2. \A j, k \in 1..Len(news[t]) : j < k =>
           \A x, y \in 1..Len(batch) : IsFirst(x, news[t][j]) /\ IsFirst(y, news[t][k]) => x < y
    BY <1>1 DEF OrderInv, NewsOrdered
  <2> QED
    BY <1>9, <1>10, <2>1, <2>2
<1>11. ASSUME shards[s][n] = NoId, \A k \in 1..Len(news[s]) : news[s][k] # n,
              res' = [res EXCEPT ![i] = <<"new", Len(news[s]) + 1>>],
              news' = [news EXCEPT ![s] = Append(@, n)]
       PROVE  /\ \A k \in 1..Len(news'[s]) : \E x \in 1..Len(batch) :
                    IsFirst(x, news'[s][k]) /\ res'[x][1] = "new" /\ x \notin bins'[s]
              /\ \A j, k \in 1..Len(news'[s]) : j < k =>
                    \A x, y \in 1..Len(batch) :
                        IsFirst(x, news'[s][j]) /\ IsFirst(y, news'[s][k]) => x < y
  <2>1. IsFirst(i, n)
    <3> SUFFICES ASSUME NEW j \in 1..(i - 1), batch[j] = n
                 PROVE  FALSE
      BY DEF IsFirst
    <3>1. j \in 1..Len(batch) /\ j < i /\ j \in Int /\ i \in Int
      BY <1>2
    <3>2. j \notin bins[s]
      BY <1>1, <3>1
    <3>3. res[j] # NoRes /\ res[j][1] # "none"
      BY <1>1, <1>4, <3>1, <3>2 DEF IInv, ResSound
    <3>4. res[j][1] \in {"none", "old", "new"}
      BY <1>2, <3>1
    <3>5. CASE res[j][1] = "old"
      BY <1>1, <1>4, <1>11, <3>1, <3>5 DEF IInv, ResSound
    <3>6. CASE res[j][1] = "new"
      BY <1>1, <1>4, <1>11, <3>1, <3>6 DEF IInv, ResSound
    <3> QED
      BY <3>3, <3>4, <3>5, <3>6
  <2>2. /\ Len(news[s]) \in Nat /\ news'[s] = Append(news[s], n) /\ Len(news'[s]) = Len(news[s]) + 1
        /\ \A k \in 1..Len(news[s]) : news'[s][k] = news[s][k]
        /\ news'[s][Len(news[s]) + 1] = n
    BY <1>2, <1>11
  <2>3. res'[i][1] = "new" /\ i \notin bins'[s] /\ bins'[s] \subseteq bins[s]
    BY <1>2, <1>3, <1>11
  <2>4. ASSUME NEW k \in 1..Len(news'[s])
        PROVE  \E x \in 1..Len(batch) : IsFirst(x, news'[s][k]) /\ res'[x][1] = "new" /\ x \notin bins'[s]
    <3>1. CASE k \in 1..Len(news[s])
      BY <1>9, <2>2, <2>3, <3>1
    <3>2. CASE k = Len(news[s]) + 1
      BY <2>1, <2>2, <2>3, <3>2
    <3> QED
      BY SMTT(30), <2>2, <3>1, <3>2
  <2>5. ASSUME NEW j \in 1..Len(news'[s]), NEW k \in 1..Len(news'[s]), j < k,
               NEW x \in 1..Len(batch), NEW y \in 1..Len(batch),
               IsFirst(x, news'[s][j]), IsFirst(y, news'[s][k])
        PROVE  x < y
    <3>1. j \in 1..Len(news[s])
      BY <2>2, <2>5
    <3>2. CASE k \in 1..Len(news[s])
      BY <1>1, <2>2, <2>5, <3>1, <3>2 DEF OrderInv, NewsOrdered
    <3>3. CASE k = Len(news[s]) + 1
      <4>1. y = i
        BY <1>2, <2>1, <2>2, <2>5, <3>3, FirstIsUnique
      <4>2. PICK w \in 1..Len(batch) : IsFirst(w, news[s][j]) /\ w \notin bins[s]
        BY <1>9, <3>1
      <4>3. x = w
        BY <1>2, <2>2, <2>5, <3>1, <4>2, FirstIsUnique
      <4>4. ShardOf[batch[x]] = s
        BY <1>1, <2>2, <2>5, <3>1 DEF IInv, NewsSound, IsFirst
      <4> QED
        BY <1>1, <4>1, <4>2, <4>3, <4>4 DEF OrderInv, InOrder
    <3> QED
      BY <2>2, <3>2, <3>3
  <2> QED
    BY <2>4, <2>5
<1>12. \/ news' = news
       \/ /\ shards[s][n] = NoId /\ \A k \in 1..Len(news[s]) : news[s][k] # n
          /\ res' = [res EXCEPT ![i] = <<"new", Len(news[s]) + 1>>]
          /\ news' = [news EXCEPT ![s] = Append(@, n)]
  BY DEF Resolve
<1>13. \A t \in Shards :
          /\ \A k \in 1..Len(news'[t]) : \E x \in 1..Len(batch) :
                IsFirst(x, news'[t][k]) /\ res'[x][1] = "new" /\ x \notin bins'[t]
          /\ \A j, k \in 1..Len(news'[t]) : j < k =>
                \A x, y \in 1..Len(batch) :
                    IsFirst(x, news'[t][j]) /\ IsFirst(y, news'[t][k]) => x < y
  <2>1. CASE news' = news
    BY <1>10, <2>1
  <2>2. CASE /\ shards[s][n] = NoId /\ \A k \in 1..Len(news[s]) : news[s][k] # n
             /\ res' = [res EXCEPT ![i] = <<"new", Len(news[s]) + 1>>]
             /\ news' = [news EXCEPT ![s] = Append(@, n)]
    <3>1. \A t \in Shards : t # s => news'[t] = news[t]
      BY <1>2, <2>2
    <3> QED
      BY <1>10, <1>11, <2>2, <3>1
  <2> QED
    BY <1>12, <2>1, <2>2
<1>14. NewsOrdered'
  BY <1>1, <1>8, <1>13 DEF NewsOrdered
<1> QED
  BY <1>5, <1>6, <1>14 DEF OrderInv

LEMMA OrderStep ==
    ASSUME IInv, OrderInv, [Next]_vars
    PROVE  OrderInv'
<1> USE ShardAssumption
<1>1. CASE phase' \in {"idle", "dead"}
  BY <1>1 DEF OrderInv, InOrder, NewsOrdered, BaseIsOld
<1>2. ASSUME NEW b \in Batches, Gather(b)
      PROVE  OrderInv'
  <2>1. /\ phase' = "resolve" /\ batch' = b
        /\ bins' = [s \in Shards |-> {i \in 1..Len(b) : ShardOf[b[i]] = s}]
        /\ news' = [s \in Shards |-> <<>>]
    BY <1>2 DEF Gather
  <2>2. InOrder'
    BY <2>1 DEF InOrder
  <2>3. NewsOrdered'
    BY <2>1 DEF NewsOrdered
  <2> QED
    BY <2>1, <2>2, <2>3 DEF OrderInv, BaseIsOld
<1>3. CASE EndResolve
  <2>1. phase = "resolve" /\ phase' = "bases" /\ UNCHANGED <<len, batch, bins, res, news, bases, nextShard, base>>
    BY <1>3 DEF EndResolve, gatherVars
  <2>2. nextShard = 1 /\ base = len
    BY <2>1 DEF IInv, BasesSound
  <2>3. NewsOrdered'
    BY <2>1 DEF OrderInv, NewsOrdered, IsFirst
  <2> QED
    BY <2>1, <2>2, <2>3 DEF OrderInv, InOrder, BaseIsOld
<1>4. CASE AssignBase
  <2>1. /\ phase = "bases" /\ phase' = "bases" /\ UNCHANGED <<len, batch, bins, res, news>>
        /\ nextShard \in 1..NumShards /\ bases' = [bases EXCEPT ![nextShard] = base]
        /\ nextShard' = nextShard + 1
    BY <1>4 DEF AssignBase, Shards
  <2>2. bases \in [1..NumShards -> Nat] /\ 1 \in 1..NumShards
    BY <2>1 DEF IInv, TypeOK, Shards
  <2>3. bases'[1] = len
    BY <2>1, <2>2 DEF OrderInv, BaseIsOld
  <2>4. nextShard' # 1
    BY <2>1
  <2>a. phase = "bases" /\ phase' = "bases" /\ UNCHANGED <<batch, res, news>>
    BY <2>1
  <2>5. NewsOrdered'
    BY <2>a DEF OrderInv, NewsOrdered, IsFirst
  <2> QED
    BY <2>1, <2>3, <2>4, <2>5 DEF OrderInv, InOrder, BaseIsOld
<1>5. CASE EndBases \/ \E s \in Shards : \E k \in 1..Len(news[s]) : Fill(s, k)
  <2>1. /\ phase \in {"bases", "fill"} /\ phase' = "fill"
        /\ UNCHANGED <<len, batch, bins, res, news, bases, nextShard, base>>
    BY <1>5 DEF EndBases, Fill
  <2> QED
    BY <2>1 DEF OrderInv, InOrder, NewsOrdered, IsFirst, BaseIsOld
<1>6. CASE SetLen
  <2>1. /\ phase = "fill" /\ phase' = "insert" /\ len' = base
        /\ UNCHANGED <<shards, batch, bins, res, news, bases, nextShard, base>>
    BY <1>6 DEF SetLen
  <2>2. NewsOrdered'
    BY <2>1 DEF OrderInv, NewsOrdered, IsFirst
  <2>3. ASSUME NumShards > 0
        PROVE  /\ \A s \in Shards : bases[1] <= bases[s] /\ bases[s] + Len(news[s]) <= base
               /\ \A s, t \in Shards : s < t => bases[s] + Len(news[s]) <= bases[t]
               /\ \A i \in (bases[1] + 1)..base :
                     \E s \in Shards : \E k \in 1..Len(news[s]) : i = bases[s] + k
               /\ \A i \in 1..Len(batch) : res[i][1] = "old" => res[i][2] <= bases[1]
    <3>1. nextShard = NumShards + 1 /\ nextShard > 1 /\ 1..(nextShard - 1) = Shards
      BY <2>1, <2>3 DEF IInv, BasesSound, Shards
    <3>2. bases[1] = len
      BY <2>1, <3>1 DEF OrderInv, BaseIsOld
    <3>3. /\ \A s \in Shards : len <= bases[s] /\ bases[s] + Len(news[s]) <= base
          /\ \A s, t \in Shards : s < t => bases[s] + Len(news[s]) <= bases[t]
      BY <2>1, <3>1 DEF IInv, BasesSound
    <3>4. \A i \in (len + 1)..base :
             \E s \in Shards : \E k \in 1..Len(news[s]) : i = bases[s] + k
      BY <2>1, <3>1 DEF IInv, BasesCover
    <3>5. ASSUME NEW i \in 1..Len(batch), res[i][1] = "old"
          PROVE  res[i][2] <= len
      <4>1. batch[i] \in Name /\ ShardOf[batch[i]] \in Shards
        BY BatchNames DEF IInv
      <4>2. shards[ShardOf[batch[i]]][batch[i]] = res[i][2] /\ res[i][2] # NoId
        BY <2>1, <3>5 DEF IInv, ResSound
      <4>3. res[i][2] \in 1..len
        BY <4>1, <4>2 DEF IInv, MapSound
      <4> QED
        BY <4>3 DEF IInv, TypeOK, Ids
    <3> QED
      BY <3>2, <3>3, <3>4, <3>5
  <2>4. BaseIsOld'
    BY <2>1, <2>3 DEF BaseIsOld
  <2> QED
    BY <2>1, <2>2, <2>4 DEF OrderInv, InOrder
<1>7. CASE \/ EndInsert \/ \E s \in Shards : \E k \in 1..Len(news[s]) : Insert(s, k)
           \/ \E s \in Shards, i \in 1..Len(batch) : Scatter(s, i)
  <2>1. /\ phase \in {"insert", "scatter"} /\ phase' \in {"insert", "scatter"}
        /\ UNCHANGED <<len, batch, res, news, bases>>
    BY <1>7 DEF EndInsert, Insert, Scatter
  <2>2. NewsOrdered'
    BY <2>1 DEF OrderInv, NewsOrdered, IsFirst
  <2>3. BaseIsOld'
    BY <2>1 DEF OrderInv, BaseIsOld
  <2> QED
    BY <2>1, <2>2, <2>3 DEF OrderInv, InOrder
<1>8. CASE UNCHANGED vars
  BY <1>8 DEF vars, gatherVars, OrderInv, InOrder, NewsOrdered, IsFirst, BaseIsOld
<1>9. CASE (\E n \in Name : Intern(n) \/ AddLocal(n)) \/ EndGather \/ PushFails \/ ReserveFails \/ Dead
  BY <1>1, <1>9 DEF Intern, AddLocal, EndGather, PushFails, ReserveFails, Dead, vars
<1>10. CASE \E s \in Shards, i \in 1..Len(batch) : Resolve(s, i)
  BY <1>10, ResolveKeepsOrder
<1> QED
  BY <1>2, <1>3, <1>4, <1>5, <1>6, <1>7, <1>8, <1>9, <1>10 DEF Next

\* The names a batch adds.
NewNames == {batch[i] : i \in {j \in 1..Len(batch) : res[j][1] = "new"}}

\* Once all are inserted: each new name's id is its base plus its place, and
\* the ids are those after the old symbols.
LEMMA NewIds ==
    ASSUME IInv, OrderInv, phase = "scatter", NumShards > 0
    PROVE  /\ bases[1] \in Nat /\ len \in Nat /\ bases[1] <= len
           /\ \A n \in NewNames : n \in Name /\
                 \E k \in 1..Len(news[ShardOf[n]]) :
                    news[ShardOf[n]][k] = n /\ Lookup(n) = bases[ShardOf[n]] + k
           /\ \A s \in Shards : \A k \in 1..Len(news[s]) :
                 /\ news[s][k] \in NewNames /\ ShardOf[news[s][k]] = s
                 /\ Lookup(news[s][k]) = bases[s] + k
           /\ \A n \in NewNames : Lookup(n) \in (bases[1] + 1)..len /\ mem[Lookup(n)] = n
           /\ \A i \in (bases[1] + 1)..len : mem[i] \in NewNames /\ Lookup(mem[i]) = i
<1> USE ShardAssumption
<1>1. /\ bases \in [Shards -> Nat] /\ 1 \in Shards /\ len \in Nat
      /\ news \in [Shards -> Seq(Name)] /\ batch \in Seq(Name)
  BY DEF IInv, TypeOK, Shards, Ids
<1>2. \A s \in Shards : Len(news[s]) \in Nat /\ bases[s] \in Nat
  BY <1>1
<1>3. /\ \A s \in Shards : bases[1] <= bases[s] /\ bases[s] + Len(news[s]) <= len
      /\ \A i \in (bases[1] + 1)..len : \E s \in Shards : \E k \in 1..Len(news[s]) : i = bases[s] + k
  BY DEF OrderInv, BaseIsOld
<1>4. ASSUME NEW n \in NewNames
      PROVE  n \in Name /\ ShardOf[n] \in Shards /\
             \E k \in 1..Len(news[ShardOf[n]]) : news[ShardOf[n]][k] = n
  <2>1. PICK i \in 1..Len(batch) : n = batch[i] /\ res[i][1] = "new"
    BY DEF NewNames
  <2>2. n \in Name /\ ShardOf[n] \in Shards
    BY <2>1, BatchNames DEF IInv
  <2>3. res[i][2] \in 1..Len(news[ShardOf[n]]) /\ news[ShardOf[n]][res[i][2]] = n
    BY <2>1 DEF IInv, ResSound
  <2> QED
    BY <2>2, <2>3
<1>5. ASSUME NEW s \in Shards, NEW k \in 1..Len(news[s])
      PROVE  /\ news[s][k] \in NewNames /\ ShardOf[news[s][k]] = s
             /\ Lookup(news[s][k]) = bases[s] + k
  <2>1. ShardOf[news[s][k]] = s /\ shards[s][news[s][k]] = bases[s] + k
    BY DEF IInv, NewsSound
  <2>2. PICK i \in 1..Len(batch) : IsFirst(i, news[s][k]) /\ res[i][1] = "new"
    BY DEF OrderInv, NewsOrdered
  <2>3. news[s][k] \in NewNames
    BY <2>2 DEF NewNames, IsFirst
  <2> QED
    BY <2>1, <2>3 DEF Lookup
<1>6. ASSUME NEW n \in NewNames
      PROVE  Lookup(n) \in (bases[1] + 1)..len /\ mem[Lookup(n)] = n
  <2>1. PICK k \in 1..Len(news[ShardOf[n]]) : news[ShardOf[n]][k] = n
    BY <1>4
  <2>2. n \in Name /\ ShardOf[n] \in Shards /\ Lookup(n) = bases[ShardOf[n]] + k
    BY <1>4, <1>5, <2>1
  <2>3. Lookup(n) \in (bases[1] + 1)..len
    BY <1>1, <1>2, <1>3, <2>2
  <2>4. shards[ShardOf[n]][n] # NoId
    BY <1>1, <2>2, <2>3 DEF NoId, Lookup
  <2>5. mem[Lookup(n)] = n
    BY <2>2, <2>4 DEF IInv, MapSound, Lookup
  <2> QED
    BY <2>3, <2>5
<1>7. ASSUME NEW i \in (bases[1] + 1)..len
      PROVE  mem[i] \in NewNames /\ Lookup(mem[i]) = i
  <2>0. PICK s \in Shards : \E k \in 1..Len(news[s]) : i = bases[s] + k
    BY <1>3
  <2>1. PICK k \in 1..Len(news[s]) : i = bases[s] + k
    BY <2>0
  <2>2. news[s][k] \in NewNames /\ Lookup(news[s][k]) = i
    BY <1>5, <2>1
  <2>3. mem[i] = news[s][k]
    BY <1>6, <2>2
  <2> QED
    BY <2>2, <2>3
<1>8. bases[1] <= len
  BY <1>1, <1>2, <1>3
<1>9. ASSUME NEW n \in NewNames
      PROVE  \E k \in 1..Len(news[ShardOf[n]]) :
                news[ShardOf[n]][k] = n /\ Lookup(n) = bases[ShardOf[n]] + k
  <2>1. PICK k \in 1..Len(news[ShardOf[n]]) : news[ShardOf[n]][k] = n
    BY <1>4
  <2> QED
    BY <1>4, <1>5, <2>1
<1>10. bases[1] \in Nat
  BY <1>1
<1>11. \A n \in NewNames : n \in Name
  BY <1>4
<1> QED
  BY <1>1, <1>5, <1>6, <1>7, <1>8, <1>9, <1>10, <1>11

\* How many new names have an id up to h.
LEMMA CountUpTo ==
    ASSUME IInv, OrderInv, phase = "scatter", NumShards > 0,
           NEW h \in Nat, bases[1] <= h, h <= len
    PROVE  Cardinality({m \in NewNames : Lookup(m) <= h}) = h - bases[1]
<1> DEFINE S == {m \in NewNames : Lookup(m) <= h}
           c == h - bases[1]
           F == [i \in 1..c |-> mem[bases[1] + i]]
<1>1. /\ bases[1] \in Nat /\ len \in Nat
      /\ \A n \in NewNames : Lookup(n) \in (bases[1] + 1)..len /\ mem[Lookup(n)] = n
      /\ \A i \in (bases[1] + 1)..len : mem[i] \in NewNames /\ Lookup(mem[i]) = i
  BY NewIds
<1>2. c \in Nat
  BY <1>1
<1>3. \A i \in 1..c : bases[1] + i \in (bases[1] + 1)..len /\ bases[1] + i <= h
  BY <1>1
<1>4. F \in [1..c -> S]
  BY <1>1, <1>3
<1>5. \A i, j \in 1..c : F[i] = F[j] => i = j
  <2> SUFFICES ASSUME NEW i \in 1..c, NEW j \in 1..c, F[i] = F[j]
               PROVE  i = j
    OBVIOUS
  <2>1. Lookup(mem[bases[1] + i]) = bases[1] + i /\ Lookup(mem[bases[1] + j]) = bases[1] + j
    BY <1>1, <1>3
  <2>2. bases[1] + i = bases[1] + j
    BY <2>1
  <2> QED
    BY <1>1, <1>2, <2>2
<1>6. \A m \in S : \E i \in 1..c : F[i] = m
  <2> SUFFICES ASSUME NEW m \in S
               PROVE  \E i \in 1..c : F[i] = m
    OBVIOUS
  <2>1. Lookup(m) \in (bases[1] + 1)..len /\ mem[Lookup(m)] = m /\ Lookup(m) <= h
    BY <1>1
  <2>2. Lookup(m) - bases[1] \in 1..c /\ bases[1] + (Lookup(m) - bases[1]) = Lookup(m)
    BY <1>1, <2>1
  <2> QED
    BY <2>1, <2>2
<1> HIDE DEF S, c, F
<1>7. F \in Bijection(1..c, S)
  BY <1>4, <1>5, <1>6 DEF Bijection, Injection, Surjection, IsInjective
<1>8. ExistsBijection(1..c, S)
  BY <1>7 DEF ExistsBijection
<1>9. Cardinality(S) = c
  BY <1>2, <1>8, FS_CountingElements
<1> QED
  BY <1>9 DEF S, c

\* First finds the first occurrence.
LEMMA FirstFinds ==
    ASSUME NEW n, NEW x \in 1..Len(batch), batch \in Seq(Name), IsFirst(x, n)
    PROVE  First(n) = x
<1>1. First(n) \in 1..Len(batch) /\ IsFirst(First(n), n)
  BY DEF First, IsFirst
<1> QED
  BY <1>1, FirstIsUnique

\* New names come by shard, and within a shard by first occurrence: that is
\* the order of their ids.
LEMMA OrderOfIds ==
    ASSUME IInv, OrderInv, phase = "scatter", NumShards > 0,
           NEW m \in NewNames, NEW n \in NewNames
    PROVE  Lookup(m) <= Lookup(n) <=>
               \/ ShardOf[m] < ShardOf[n]
               \/ ShardOf[m] = ShardOf[n] /\ First(m) <= First(n)
<1> USE ShardAssumption
<1>0. /\ bases \in [Shards -> Nat] /\ news \in [Shards -> Seq(Name)] /\ batch \in Seq(Name)
      /\ m \in Name /\ n \in Name
  BY NewIds DEF IInv, TypeOK
<1>1. /\ ShardOf[m] \in Shards /\ ShardOf[n] \in Shards /\ ShardOf[m] \in Int /\ ShardOf[n] \in Int
      /\ \A s \in Shards : bases[s] \in Nat /\ Len(news[s]) \in Nat
  BY <1>0 DEF Shards
<1>2. PICK j \in 1..Len(news[ShardOf[m]]) : news[ShardOf[m]][j] = m /\ Lookup(m) = bases[ShardOf[m]] + j
  BY NewIds
<1>3. PICK k \in 1..Len(news[ShardOf[n]]) : news[ShardOf[n]][k] = n /\ Lookup(n) = bases[ShardOf[n]] + k
  BY NewIds
<1>4. \A s, t \in Shards : s < t => bases[s] + Len(news[s]) <= bases[t]
  BY DEF OrderInv, BaseIsOld
<1>5. CASE ShardOf[m] < ShardOf[n]
  <2>1. bases[ShardOf[m]] + Len(news[ShardOf[m]]) <= bases[ShardOf[n]]
    BY <1>1, <1>4, <1>5
  <2> QED
    BY SMTT(30), <1>1, <1>2, <1>3, <1>5, <2>1
<1>6. CASE ShardOf[n] < ShardOf[m]
  <2>1. bases[ShardOf[n]] + Len(news[ShardOf[n]]) <= bases[ShardOf[m]]
    BY <1>1, <1>4, <1>6
  <2>2. ~(Lookup(m) <= Lookup(n))
    BY SMTT(30), <1>1, <1>2, <1>3, <2>1
  <2>3. ~(ShardOf[m] < ShardOf[n]) /\ ShardOf[m] # ShardOf[n]
    BY <1>1, <1>6
  <2> QED
    BY <2>2, <2>3
<1>7. CASE ShardOf[m] = ShardOf[n]
  <2> DEFINE s == ShardOf[m]
  <2>1. j \in 1..Len(news[s]) /\ k \in 1..Len(news[s]) /\ news[s][j] = m /\ news[s][k] = n
    BY <1>2, <1>3, <1>7
  <2>2. /\ \A i \in 1..Len(news[s]) : \E x \in 1..Len(batch) : IsFirst(x, news[s][i])
        /\ \A h, i \in 1..Len(news[s]) : h < i =>
              \A x, y \in 1..Len(batch) : IsFirst(x, news[s][h]) /\ IsFirst(y, news[s][i]) => x < y
    BY <1>1 DEF OrderInv, NewsOrdered
  <2>3. PICK x \in 1..Len(batch) : IsFirst(x, m)
    BY <2>1, <2>2
  <2>4. PICK y \in 1..Len(batch) : IsFirst(y, n)
    BY <2>1, <2>2
  <2>5. First(m) = x /\ First(n) = y
    BY <1>0, <2>3, <2>4, FirstFinds
  <2>6. (j < k => x < y) /\ (k < j => y < x)
    BY <2>1, <2>2, <2>3, <2>4
  <2>7. j = k => x = y
    BY <1>0, <2>1, <2>3, <2>4, FirstIsUnique
  <2>8. x \in Int /\ y \in Int /\ j \in Int /\ k \in Int /\ Len(batch) \in Nat
    BY <1>0
  <2>9. j <= k <=> x <= y
    BY <2>6, <2>7, <2>8
  <2>10. Lookup(m) <= Lookup(n) <=> j <= k
    BY <1>1, <1>2, <1>3, <1>7, <2>8
  <2>11. ~(ShardOf[m] < ShardOf[n])
    BY <1>1, <1>7
  <2> QED
    BY <1>7, <2>5, <2>9, <2>10, <2>11
<1> QED
  BY <1>1, <1>5, <1>6, <1>7

\* When gather is about to return, its result is the reference.
LEMMA ResultIsReference ==
    ASSUME IInv, OrderInv
    PROVE  IdsDeterministic
<1> USE ShardAssumption
<1> SUFFICES ASSUME phase = "scatter", \A s \in Shards : bins[s] = {},
                    NEW i \in 1..Len(batch)
             PROVE  IF batch[i] \in NewNames
                      THEN ids[i] = (len - Cardinality(NewNames)) + PlaceOf(batch[i], NewNames)
                      ELSE /\ ids[i] \in 1..(len - Cardinality(NewNames))
                           /\ mem[ids[i]] = batch[i]
  BY DEF IdsDeterministic, NewNames
<1>1. batch[i] \in Name /\ ShardOf[batch[i]] \in Shards
  BY BatchNames DEF IInv
<1>2. NumShards > 0
  BY <1>1 DEF Shards
<1>3. ids[i] = Lookup(batch[i]) /\ ids[i] # NoId
  BY <1>1 DEF IInv, IdsSound
<1>4. /\ bases[1] \in Nat /\ len \in Nat /\ bases[1] <= len
      /\ \A n \in NewNames : Lookup(n) \in (bases[1] + 1)..len
  BY <1>2, NewIds
<1>5. Cardinality(NewNames) = len - bases[1]
  <2>1. NewNames = {m \in NewNames : Lookup(m) <= len}
    BY <1>4
  <2>2. Cardinality({m \in NewNames : Lookup(m) <= len}) = len - bases[1]
    BY <1>2, <1>4, CountUpTo
  <2> QED
    BY <2>1, <2>2
<1>6. len - Cardinality(NewNames) = bases[1]
  BY <1>4, <1>5
<1>7. CASE batch[i] \in NewNames
  <2> DEFINE n == batch[i]
             S == {m \in NewNames : \/ ShardOf[m] < ShardOf[n]
                                    \/ ShardOf[m] = ShardOf[n] /\ First(m) <= First(n)}
  <2>1. S = {m \in NewNames : Lookup(m) <= Lookup(n)}
    BY <1>2, <1>7, OrderOfIds
  <2>2. Lookup(n) \in Nat /\ bases[1] <= Lookup(n) /\ Lookup(n) <= len
    BY <1>4, <1>7
  <2>3. Cardinality({m \in NewNames : Lookup(m) <= Lookup(n)}) = Lookup(n) - bases[1]
    BY <1>2, <2>2, CountUpTo
  <2>4. PlaceOf(n, NewNames) = Lookup(n) - bases[1]
    BY <2>1, <2>3 DEF PlaceOf
  <2> QED
    BY <1>3, <1>4, <1>6, <1>7, <2>2, <2>4
<1>8. CASE batch[i] \notin NewNames
  <2>1. res[i][1] = "old"
    <3>1. res[i][1] \in {"none", "old", "new"}
      BY DEF IInv, TypeOK
    <3>2. res[i][1] # "new"
      BY <1>8 DEF NewNames
    <3>3. res[i][1] # "none"
      BY DEF IInv, ResSound
    <3> QED
      BY <3>1, <3>2, <3>3
  <2>2. Lookup(batch[i]) = res[i][2] /\ res[i][2] <= bases[1]
    BY <1>2, <2>1 DEF IInv, ResSound, OrderInv, BaseIsOld, Lookup
  <2>3. ids[i] \in 1..len /\ mem[ids[i]] = batch[i]
    BY <1>1, <1>3 DEF IInv, MapSound, Lookup
  <2>4. ids[i] \in 1..bases[1]
    BY <1>3, <1>4, <2>2, <2>3
  <2> QED
    BY <1>6, <1>8, <2>3, <2>4
<1> QED
  BY <1>7, <1>8

\* "Ids depend only on input order and the hash, so links stay
\* deterministic": whatever the interleaving of the shards' loops, gather
\* gives a batch the ids that its order and the hash determine.
THEOREM IdsAreDeterministic == Spec => []IdsDeterministic
<1>1. Init => OrderInv
  BY DEF Init, OrderInv, InOrder, NewsOrdered, BaseIsOld
<1>2. IInv /\ OrderInv /\ [Next]_vars => OrderInv'
  BY OrderStep
<1>3. IInv /\ OrderInv => IdsDeterministic
  BY ResultIsReference
<1> QED
  BY <1>1, <1>2, <1>3, TableInvariant, PTL DEF Spec

=============================================================================
