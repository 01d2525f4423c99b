------------------------------- MODULE KeyMap -------------------------------
(***************************************************************************)
(* What a hash table promises its user: a dictionary from keys to the      *)
(* offsets of the elements that hold the data.  A key is added at once,    *)
(* with one offset, and keeps it until it is removed.                      *)
(***************************************************************************)
CONSTANTS Keys, Offsets, Absent

VARIABLE dict

KMInit == dict = [k \in Keys |-> Absent]

Add(old, new, k) == old[k] = Absent /\ new[k] \in Offsets

Remove(old, new, k) == old[k] # Absent /\ new[k] = Absent

\* One key changes in a step, and no other.
KMNext ==
    \E old \in {dict}, new \in {dict'} :
        LET changed == {k \in Keys : old[k] # new[k]}
        IN  \E k \in changed :
                /\ changed = {k}
                /\ Add(old, new, k) \/ Remove(old, new, k)

KMSpec == KMInit /\ [][KMNext]_dict
=============================================================================
