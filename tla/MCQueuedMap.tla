---------------------------- MODULE MCQueuedMap ----------------------------
(***************************************************************************)
(* QueuedMap for TLC.  The client processes are alike; the two handlers    *)
(* are not.                                                                *)
(***************************************************************************)
EXTENDS QueuedMap, TLC

MCCells == [q \in {"put", "get"} |-> IF q = "put" THEN 2 ELSE 2]
MCJunk == {-1}
Symmetry == Permutations(Clients)
=============================================================================
