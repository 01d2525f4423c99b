-------------------------- MODULE MCSharedSegments --------------------------
(***************************************************************************)
(* Processes that are interchangeable, and the keys of the communication   *)
(* segment and of one tier.                                                *)
(***************************************************************************)
EXTENDS SharedSegments, TLC

MCOrder == <<2, 1>>

Sym == Permutations(Processes)

=============================================================================
