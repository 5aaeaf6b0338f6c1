-------------------------- MODULE MCDefinitionRace --------------------------
(***************************************************************************)
(* Four objects race for one symbol: every assignment of distinct ranks,   *)
(* every set of definitions and every choice of discarded sections.        *)
(* Nothing relates two symbols in a round, so one symbol is enough.        *)
(***************************************************************************)
EXTENDS DefinitionRace

=============================================================================
