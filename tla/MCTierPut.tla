------------------------------ MODULE MCTierPut ------------------------------
EXTENDS TierPut

CONSTANTS k1, k2

\* The halves of k1 agree, those of k2 do not, and neither mirrors the other.
MCHits == [k \in Keys |-> IF k = k1 THEN {k1} ELSE {}]
=============================================================================
