---------------------------- MODULE MCSymbolTable ----------------------------
(***************************************************************************)
(* Three names, two of them in one shard: every batch of up to three names *)
(* with repetitions, after and before any interns and local symbols that   *)
(* fit the arena.                                                          *)
(***************************************************************************)
EXTENDS SymbolTable

MCShardOf == [n \in Name |-> IF n = "c" THEN 1 ELSE 2]
MCBatches == UNION {[1..k -> Name] : k \in 1..3}
=============================================================================
