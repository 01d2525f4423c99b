------------------------------ MODULE LruOrder ------------------------------
(***************************************************************************)
(* What an LRU cache promises: the keys it holds, the most recently used   *)
(* first, never more than its capacity.  Only the last one is evicted.     *)
(***************************************************************************)
EXTENDS Sequences, Naturals

CONSTANTS Keys, Capacity

VARIABLES
    order,      \* the keys, the most recently used first
    evicting    \* an eviction is under way

LRUInit == order = << >> /\ evicting = FALSE

Held(seq) == {seq[i] : i \in 1..Len(seq)}

Without(seq, i) == SubSeq(seq, 1, i - 1) \o SubSeq(seq, i + 1, Len(seq))

Insert(old, new) ==
    /\ Len(old) < Capacity
    /\ new # << >> /\ Head(new) \in Keys \ Held(old)
    /\ Tail(new) = old

Use(old, new) ==
    /\ new # << >>
    /\ \E i \in 1..Len(old) : Head(new) = old[i] /\ Tail(new) = Without(old, i)

Remove(old, new) == \E i \in 1..Len(old) : new = Without(old, i)

EvictLast(old, new) ==
    /\ old # << >>
    /\ new = SubSeq(old, 1, Len(old) - 1)

LRUNext ==
    \E old \in {order}, new \in {order'} :
        \/ ~evicting /\ (Insert(old, new) \/ Use(old, new) \/ Remove(old, new))
           /\ evicting' = FALSE
        \/ ~evicting /\ evicting' = TRUE /\ new = old
        \/ evicting /\ EvictLast(old, new) /\ evicting' \in BOOLEAN

LRUSpec == LRUInit /\ [][LRUNext]_<<order, evicting>>
=============================================================================
