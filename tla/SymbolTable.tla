----------------------------- MODULE SymbolTable -----------------------------
(***************************************************************************)
(* The global symbol table, SymbolTable of macho/symbol.rs: a map from     *)
(* names to ids in shards, and an arena of symbols the ids index.          *)
(*                                                                         *)
(* intern and add_local push one symbol.  gather interns a batch in four   *)
(* parallel loops over the shards with a serial prefix sum between the     *)
(* first two: the shards resolve their names, each shard's new names get a *)
(* range of ids, the symbols are written into the reserved arena through a *)
(* raw pointer, the names are inserted into the maps, and the ids are      *)
(* scattered into the result through a raw pointer.  A step here is one    *)
(* name of one shard.  Ids count from 1 (the code's from 0), and 0 is      *)
(* "not in the map".                                                       *)
(***************************************************************************)
EXTENDS Integers, Sequences, FiniteSets

CONSTANTS
    Name,       \* the names of symbols
    NumShards,  \* NUM_SHARDS
    ShardOf,    \* ShardOf[n]: shard_of(hash_key(n))
    Batches,    \* the batches gather may be called with
    Cap,        \* the symbols there is memory for
    Raw         \* an arena slot nobody has written

ASSUME ShardAssumption ==
    /\ NumShards \in Nat /\ Cap \in Nat
    /\ ShardOf \in [Name -> 1..NumShards]
    /\ Batches \subseteq Seq(Name)
    /\ Raw \notin Name

Shards == 1..NumShards
NoId == 0
Ids == 0..Cap

VARIABLES
    shards,     \* shards[s][n]: the id of n in the map of shard s, or NoId
    mem,        \* the arena: the name of the symbol in each slot, or Raw
    len,        \* syms.len()
    phase,      \* "idle", the loop of gather that runs, or "dead"
    batch,      \* gather's argument
    bins,       \* bins[s]: the indices shard s has not dealt with in this loop
    res,        \* res[i]: <<"old", id>> or <<"new", k>>, once resolved
    news,       \* news[s]: the names shard s saw for the first time
    bases,      \* bases[s]: the slots before those of shard s
    nextShard,  \* the shard whose base the prefix sum sets next
    base,       \* the running sum
    todo,       \* the <<s, k>> of news not written, or not inserted, yet
    ids,        \* gather's result
    given       \* the <<name, id>> that intern and gather have returned

gatherVars == <<batch, bins, res, news, bases, nextShard, base, todo, ids>>
vars == <<shards, mem, len, phase, gatherVars, given>>

NoRes == <<"none", 0>>

Init ==
    /\ shards = [s \in Shards |-> [n \in Name |-> NoId]]
    /\ mem = [i \in 1..Cap |-> Raw]
    /\ len = 0
    /\ phase = "idle"
    /\ batch = <<>>
    /\ bins = [s \in Shards |-> {}]
    /\ res = <<>>
    /\ news = [s \in Shards |-> <<>>]
    /\ bases = [s \in Shards |-> 0]
    /\ nextShard = 1
    /\ base = 0
    /\ todo = {}
    /\ ids = <<>>
    /\ given = {}

-----------------------------------------------------------------------------
\* SymbolTable::lookup.
Lookup(n) == shards[ShardOf[n]][n]

\* SymbolTable::intern.
Intern(n) ==
    /\ phase = "idle"
    /\ \/ /\ Lookup(n) # NoId
          /\ given' = given \cup {<<n, Lookup(n)>>}
          /\ UNCHANGED <<shards, mem, len>>
       \/ /\ Lookup(n) = NoId
          /\ len < Cap
          /\ mem' = [mem EXCEPT ![len + 1] = n]
          /\ len' = len + 1
          /\ shards' = [shards EXCEPT ![ShardOf[n]][n] = len + 1]
          /\ given' = given \cup {<<n, len + 1>>}
    /\ UNCHANGED <<phase, gatherVars>>

\* A push without memory for one more symbol ends the process.
PushFails ==
    /\ phase = "idle"
    /\ len = Cap
    /\ phase' = "dead"
    /\ UNCHANGED <<shards, mem, len, gatherVars, given>>

\* SymbolTable::add_local: a symbol with a name that no map knows.
AddLocal(n) ==
    /\ phase = "idle"
    /\ len < Cap
    /\ mem' = [mem EXCEPT ![len + 1] = n]
    /\ len' = len + 1
    /\ UNCHANGED <<shards, phase, gatherVars, given>>

-----------------------------------------------------------------------------
(* SymbolTable::gather.                                                    *)

\* The call: the indices of the batch are binned by shard.
Gather(b) ==
    /\ phase = "idle"
    /\ phase' = "resolve"
    /\ batch' = b
    /\ bins' = [s \in Shards |-> {i \in 1..Len(b) : ShardOf[b[i]] = s}]
    /\ res' = [i \in 1..Len(b) |-> NoRes]
    /\ news' = [s \in Shards |-> <<>>]
    /\ bases' = [s \in Shards |-> 0]
    /\ nextShard' = 1
    /\ base' = len
    /\ todo' = {}
    /\ ids' = [i \in 1..Len(b) |-> NoId]
    /\ UNCHANGED <<shards, mem, len, given>>

\* i is the next of its bin: the bins are walked in the batch's order.
NextInBin(s, i) == i \in bins[s] /\ \A j \in bins[s] : i <= j

\* Faulty variant: the names of a bin are resolved in any order.
Resolve_AnyOrder(s, i) ==
    /\ phase = "resolve"
    /\ i \in bins[s]
    /\ bins' = [bins EXCEPT ![s] = @ \ {i}]
    /\ \/ /\ shards[s][batch[i]] # NoId
          /\ res' = [res EXCEPT ![i] = <<"old", shards[s][batch[i]]>>]
          /\ UNCHANGED news
       \/ /\ shards[s][batch[i]] = NoId
          /\ \E k \in 1..Len(news[s]) :
                news[s][k] = batch[i] /\ res' = [res EXCEPT ![i] = <<"new", k>>]
          /\ UNCHANGED news
       \/ /\ shards[s][batch[i]] = NoId
          /\ \A k \in 1..Len(news[s]) : news[s][k] # batch[i]
          /\ res' = [res EXCEPT ![i] = <<"new", Len(news[s]) + 1>>]
          /\ news' = [news EXCEPT ![s] = Append(@, batch[i])]
    /\ UNCHANGED <<shards, mem, len, phase, batch, bases, nextShard, base, todo, ids, given>>

\* Shard s resolves the next name of its bin: an old symbol, a new name it
\* has seen in this batch, or one it has not.
Resolve(s, i) ==
    /\ phase = "resolve"
    /\ NextInBin(s, i)
    /\ bins' = [bins EXCEPT ![s] = @ \ {i}]
    /\ \/ /\ shards[s][batch[i]] # NoId
          /\ res' = [res EXCEPT ![i] = <<"old", shards[s][batch[i]]>>]
          /\ UNCHANGED news
       \/ /\ shards[s][batch[i]] = NoId
          /\ \E k \in 1..Len(news[s]) :
                news[s][k] = batch[i] /\ res' = [res EXCEPT ![i] = <<"new", k>>]
          /\ UNCHANGED news
       \/ /\ shards[s][batch[i]] = NoId
          /\ \A k \in 1..Len(news[s]) : news[s][k] # batch[i]
          /\ res' = [res EXCEPT ![i] = <<"new", Len(news[s]) + 1>>]
          /\ news' = [news EXCEPT ![s] = Append(@, batch[i])]
    /\ UNCHANGED <<shards, mem, len, phase, batch, bases, nextShard, base, todo, ids, given>>

\* The join of the first loop.
EndResolve ==
    /\ phase = "resolve"
    /\ \A s \in Shards : bins[s] = {}
    /\ phase' = "bases"
    /\ UNCHANGED <<shards, mem, len, gatherVars, given>>

\* One step of the prefix sum over the shards.
AssignBase ==
    /\ phase = "bases"
    /\ nextShard \in Shards
    /\ bases' = [bases EXCEPT ![nextShard] = base]
    /\ base' = base + Len(news[nextShard])
    /\ nextShard' = nextShard + 1
    /\ UNCHANGED <<shards, mem, len, phase, batch, bins, res, news, todo, ids, given>>

\* The new names, each with its shard and its place in the shard.
AllNews == UNION {{<<s, k>> : k \in 1..Len(news[s])} : s \in Shards}

\* reserve_arena gets the memory for all the new symbols.
EndBases ==
    /\ phase = "bases"
    /\ nextShard = NumShards + 1
    /\ base <= Cap
    /\ phase' = "fill"
    /\ todo' = AllNews
    /\ UNCHANGED <<shards, mem, len, batch, bins, res, news, bases, nextShard, base, ids, given>>

\* There is not enough, and the process ends.
ReserveFails ==
    /\ phase = "bases"
    /\ nextShard = NumShards + 1
    /\ base > Cap
    /\ phase' = "dead"
    /\ UNCHANGED <<shards, mem, len, gatherVars, given>>

\* The symbol of a new name is written into its slot of the arena.
Fill(s, k) ==
    /\ phase = "fill"
    /\ <<s, k>> \in todo
    /\ mem' = [mem EXCEPT ![bases[s] + k] = news[s][k]]
    /\ todo' = todo \ {<<s, k>>}
    /\ UNCHANGED <<shards, len, phase, batch, bins, res, news, bases, nextShard, base, ids,
                   given>>

\* Faulty variant: the length grows by the batch's, not by the new names'.
SetLen_ByBatch ==
    /\ phase = "fill"
    /\ todo = {}
    /\ phase' = "insert"
    /\ len' = len + Len(batch)
    /\ todo' = AllNews
    /\ UNCHANGED <<shards, mem, batch, bins, res, news, bases, nextShard, base, ids, given>>

\* The join of the second loop, and set_len.
SetLen ==
    /\ phase = "fill"
    /\ todo = {}
    /\ phase' = "insert"
    /\ len' = base
    /\ todo' = AllNews
    /\ UNCHANGED <<shards, mem, batch, bins, res, news, bases, nextShard, base, ids, given>>

\* Faulty variant: the map gets the place in the shard for the id.
Insert_NoBase(s, k) ==
    /\ phase = "insert"
    /\ <<s, k>> \in todo
    /\ shards' = [shards EXCEPT ![s][news[s][k]] = k]
    /\ todo' = todo \ {<<s, k>>}
    /\ UNCHANGED <<mem, len, phase, batch, bins, res, news, bases, nextShard, base, ids, given>>

\* A new name goes into its shard's map.
Insert(s, k) ==
    /\ phase = "insert"
    /\ <<s, k>> \in todo
    /\ shards' = [shards EXCEPT ![s][news[s][k]] = bases[s] + k]
    /\ todo' = todo \ {<<s, k>>}
    /\ UNCHANGED <<mem, len, phase, batch, bins, res, news, bases, nextShard, base, ids, given>>

\* The join of the third loop; the fourth walks the shards' results again.
EndInsert ==
    /\ phase = "insert"
    /\ todo = {}
    /\ phase' = "scatter"
    /\ bins' = [s \in Shards |-> {i \in 1..Len(batch) : ShardOf[batch[i]] = s}]
    /\ UNCHANGED <<shards, mem, len, batch, res, news, bases, nextShard, base, todo, ids, given>>

\* The id of one entry of the batch is written into the result.
Scatter(s, i) ==
    /\ phase = "scatter"
    /\ i \in bins[s]
    /\ bins' = [bins EXCEPT ![s] = @ \ {i}]
    /\ ids' = [ids EXCEPT ![i] = IF res[i][1] = "old" THEN res[i][2] ELSE bases[s] + res[i][2]]
    /\ UNCHANGED <<shards, mem, len, phase, batch, res, news, bases, nextShard, base, todo, given>>

\* The join of the fourth loop; gather returns.
EndGather ==
    /\ phase = "scatter"
    /\ \A s \in Shards : bins[s] = {}
    /\ phase' = "idle"
    /\ given' = given \cup {<<batch[i], ids[i]>> : i \in 1..Len(batch)}
    /\ UNCHANGED <<shards, mem, len, gatherVars>>

Dead == phase = "dead" /\ UNCHANGED vars

Next ==
    \/ \E n \in Name : Intern(n) \/ AddLocal(n)
    \/ \E b \in Batches : Gather(b)
    \/ \E s \in Shards, i \in 1..Len(batch) : Resolve(s, i) \/ Scatter(s, i)
    \/ EndResolve \/ AssignBase \/ EndBases
    \/ \E s \in Shards : \E k \in 1..Len(news[s]) : Fill(s, k) \/ Insert(s, k)
    \/ SetLen \/ EndInsert \/ EndGather \/ PushFails \/ ReserveFails \/ Dead

Spec == Init /\ [][Next]_vars

-----------------------------------------------------------------------------
\* The variables keep their types: ids stay within the arena's memory.
TypeOK ==
    /\ shards \in [Shards -> [Name -> Ids]]
    /\ mem \in [1..Cap -> Name \cup {Raw}]
    /\ len \in Ids
    /\ phase \in {"idle", "resolve", "bases", "fill", "insert", "scatter", "dead"}
    /\ batch \in Seq(Name)
    /\ bins \in [Shards -> SUBSET (1..Len(batch))]
    /\ res \in [1..Len(batch) -> {"none", "old", "new"} \X Nat]
    /\ news \in [Shards -> Seq(Name)]
    /\ bases \in [Shards -> Nat]
    /\ nextShard \in 1..(NumShards + 1)
    /\ base \in Nat
    /\ todo \subseteq Shards \X Nat
    /\ ids \in [1..Len(batch) -> Nat]
    /\ given \subseteq Name \X Nat

\* Whatever the order of interns and batches, a name has one id for good,
\* no two names share one, the slot holds a symbol of that name, and the
\* map still knows it.
IdsAreNames ==
    \A g, h \in given :
        /\ g[1] = h[1] <=> g[2] = h[2]
        /\ g[2] \in 1..len
        /\ mem[g[2]] = g[1]
        /\ phase = "idle" => Lookup(g[1]) = g[2]

\* The contract of gather's unsafe writes: a slot is written once and never
\* again.
WrittenOnce == [][\A i \in 1..Cap : mem[i] # Raw => mem'[i] = mem[i]]_vars

\* The contract of set_len: no symbol of the table is uninitialized.
NoRawSymbol == \A i \in 1..len : mem[i] # Raw

\* The place a new name of the batch comes to whatever the threads do: after
\* the new names of lower shards and the earlier ones of its own.
First(n) == CHOOSE i \in 1..Len(batch) :
                batch[i] = n /\ \A j \in 1..(i - 1) : batch[j] # n
PlaceOf(n, new) ==
    Cardinality({m \in new : \/ ShardOf[m] < ShardOf[n]
                             \/ ShardOf[m] = ShardOf[n] /\ First(m) <= First(n)})

\* "Ids depend only on input order and the hash, so links stay
\* deterministic" (the comment at gather): whatever the interleaving, the
\* ids of a batch are the ones the reference above gives.
IdsDeterministic ==
    phase = "scatter" /\ (\A s \in Shards : bins[s] = {}) =>
        LET new == {batch[i] : i \in {j \in 1..Len(batch) : res[j][1] = "new"}}
            old == len - Cardinality(new)
        IN  \A i \in 1..Len(batch) :
                IF batch[i] \in new
                  THEN ids[i] = old + PlaceOf(batch[i], new)
                  ELSE ids[i] \in 1..old /\ mem[ids[i]] = batch[i]

-----------------------------------------------------------------------------
(***************************************************************************)
(* The inductive invariant behind IdsAreNames, NoRawSymbol and             *)
(* WrittenOnce.                                                            *)
(***************************************************************************)

\* The maps know only names of their shard, by ids of symbols so named.
MapSound ==
    \A s \in Shards, n \in Name :
        shards[s][n] # NoId =>
            ShardOf[n] = s /\ shards[s][n] \in 1..len /\ mem[shards[s][n]] = n

\* Every id that was returned is still the one in the map.
GivenInMap ==
    \A g \in given : Lookup(g[1]) = g[2] /\ g[2] # NoId

\* What is written of the arena: the symbols, and in the second loop the
\* slots of the names that are done.
ArenaWritten ==
    /\ \A i \in 1..len : mem[i] \in Name
    /\ \A i \in (len + 1)..Cap : mem[i] # Raw =>
          phase = "fill" /\ \E d \in AllNews \ todo : i = bases[d[1]] + d[2]

\* A shard's new names are its own, distinct, and in no map until inserted.
NewsSound ==
    phase \notin {"idle", "dead"} =>
        \A s \in Shards : \A k \in 1..Len(news[s]) :
            /\ ShardOf[news[s][k]] = s
            /\ \A j \in 1..Len(news[s]) : news[s][j] = news[s][k] => j = k
            /\ IF phase = "scatter" \/ (phase = "insert" /\ <<s, k>> \notin todo)
                 THEN shards[s][news[s][k]] = bases[s] + k
                 ELSE shards[s][news[s][k]] = NoId

\* What a resolution means.
ResSound ==
    phase \notin {"idle", "dead"} =>
        \A i \in 1..Len(batch) :
            LET s == ShardOf[batch[i]] IN
            /\ phase # "resolve" => res[i] # NoRes
            /\ res[i] = NoRes => i \in bins[s]
            /\ res[i][1] = "none" => res[i] = NoRes
            /\ res[i][1] = "old" => shards[s][batch[i]] = res[i][2] /\ res[i][2] # NoId
            /\ res[i][1] = "new" =>
                  res[i][2] \in 1..Len(news[s]) /\ news[s][res[i][2]] = batch[i]

BinsSound ==
    \A s \in Shards : \A i \in bins[s] : ShardOf[batch[i]] = s

\* The ranges of the shards are disjoint and start after the old symbols.
BasesSound ==
    /\ phase \in {"resolve"} => nextShard = 1 /\ base = len
    /\ phase \in {"bases", "fill"} =>
          /\ len <= base
          /\ \A s \in 1..(nextShard - 1) : len <= bases[s] /\ bases[s] + Len(news[s]) <= base
          /\ \A s, t \in 1..(nextShard - 1) : s < t => bases[s] + Len(news[s]) <= bases[t]
    /\ phase \in {"fill", "insert", "scatter"} => nextShard = NumShards + 1
    /\ phase = "fill" => base <= Cap

\* The ranges leave no gap.
BasesCover ==
    phase \in {"resolve", "bases", "fill"} =>
        \A i \in (len + 1)..base :
            \E s \in 1..(nextShard - 1) : \E k \in 1..Len(news[s]) : i = bases[s] + k

\* The written slots hold the new names' symbols.
SlotsNamed ==
    phase \in {"fill", "insert", "scatter"} =>
        \A d \in AllNews :
            /\ phase = "fill" /\ d \notin todo => mem[bases[d[1]] + d[2]] = news[d[1]][d[2]]
            /\ phase # "fill" =>
                  bases[d[1]] + d[2] \in 1..len /\ mem[bases[d[1]] + d[2]] = news[d[1]][d[2]]

TodoSound == phase \in {"fill", "insert", "scatter"} => todo \subseteq AllNews

\* The result so far is what the maps say.
IdsSound ==
    phase = "scatter" =>
        /\ todo = {}
        /\ \A i \in 1..Len(batch) :
              i \notin bins[ShardOf[batch[i]]] => ids[i] = Lookup(batch[i]) /\ ids[i] # NoId

\* What every step of the table's operations preserves.
IInv ==
    /\ TypeOK
    /\ MapSound
    /\ GivenInMap
    /\ ArenaWritten
    /\ NewsSound
    /\ ResSound
    /\ BinsSound
    /\ BasesSound
    /\ BasesCover
    /\ SlotsNamed
    /\ TodoSound
    /\ IdsSound
=============================================================================
