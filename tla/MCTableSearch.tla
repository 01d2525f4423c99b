---------------------------- MODULE MCTableSearch ----------------------------
(***************************************************************************)
(* Every table of up to Short entries over a few keys, and evenly spaced   *)
(* tables of up to Long entries, enough for several halvings.              *)
(***************************************************************************)
EXTENDS TableSearch

CONSTANTS Short, Long, Top

Increasing(f, len) == \A i \in 0..(len - 2) : f[i] <= f[i + 1]

Tables(len) == {f \in [0..(len - 1) -> 1..Top] : Increasing(f, len)}

Spaced(len) == [i \in 0..(len - 1) |-> 2 * i + 1]

\* The tier above starts where this one ends, or one unit later.
Tier(alg, f, len, gap, k) ==
    [alg |-> alg, len |-> len, key |-> k, lb |-> f,
     ub |-> [i \in 0..(len - 1) |->
                IF i = len - 1 THEN f[i] + 1
                ELSE IF f[i + 1] > f[i] THEN f[i + 1] - gap ELSE f[i]]]

MCInputs ==
    UNION {{Tier(alg, f, len, gap, k) :
                alg \in {a \in Algorithms : a = "u32b_search" => len > 1},
                f \in Tables(len), gap \in {0, 1}, k \in 0..(Top + 1)}
           : len \in 1..Short}
    \cup
    UNION {{Tier(alg, Spaced(len), len, gap, k) :
                alg \in Algorithms, gap \in {0, 1}, k \in 0..(2 * len)}
           : len \in (Short + 1)..Long}

=============================================================================
