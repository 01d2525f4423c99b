----------------------------- MODULE Hopscotch ------------------------------
(***************************************************************************)
(* The hopscotch table of the Node.js addon (src/src/node_shm_HH.h): an    *)
(* array V of values, and for each bucket a word of H whose bit i says     *)
(* that the value at distance i from the bucket belongs to it.  A put      *)
(* probes for a free position and, while it is too far from its bucket,    *)
(* moves a nearer value into it.  Each turn of that loop is a step here;   *)
(* no other call runs in between, but each step leaves a table that a      *)
(* reader could walk.                                                      *)
(***************************************************************************)
EXTENDS Integers, FiniteSets, FiniteSetsExt

CONSTANTS
    Keys,       \* full hashes of the values stored (32-bit numbers)
    Count,      \* buckets the application reduces a hash to (index.js)
    N,          \* positions of the table, _max_n
    K           \* positions of a neighborhood, _neighbor

ASSUME TableSizes ==
    /\ N \in Nat \ {0} /\ K \in 1..N
    /\ Count \in Nat \ {0}
    /\ Keys \subseteq Nat \ {0} /\ IsFiniteSet(Keys)

VARIABLES
    H,          \* _region_H: the set of bits of each bucket
    V,          \* _region_V: value (offset, high half) and key (low half)
    cnt,        \* T->_count
    put         \* the put under way: what it stores and its distance d

tableVars == <<H, V, cnt, put>>

Positions == 0..(N - 1)

\* MOD(x,n): one subtraction, enough for the sums of two positions.
MOD(x, n) == IF x < n THEN x ELSE x - n

Bucket(k) == k % Count
Home(k) == Bucket(k) % N

\* A value is one 64-bit word, the offset above the key; a zero is an empty
\* position.
Value(k, off) == [key |-> k, off |-> off]
Empty == Value(0, 0)

Idle == [key |-> 0, off |-> 0, d |-> 0]

HHInit ==
    /\ H = [b \in Positions |-> {}]
    /\ V = [p \in Positions |-> Empty]
    /\ cnt = 0
    /\ put = Idle

------------------------------------------------------------------------------
\* The walk over the bits of a bucket: _succ_hh_hash, _succ, _next.
FFS(bits) == Min(bits)

\* get_val_at_hh_hash
At(h, i) == V[MOD(h + i, N)]

\* _probe: the distance of the first free position from h, wrapping around.
Free(h) == {d \in Positions : At(h, d) = Empty}

\* _hop_scotch: how far behind hd a bucket lies that has a value it can move
\* up to hd; the farthest such bucket first, 0 when there is none.
HopScotch(hd) ==
    LET movable == {i \in 1..(K - 1) :
                        LET bits == H[MOD(N + hd - i, N)]
                        IN  bits # {} /\ FFS(bits) < i}
    IN  IF movable = {} THEN 0 ELSE Max(movable)

\* _swap: the value at bit i of bucket z goes to the free position at bit j.
SwapFault(z, i, j) ==
    /\ H' = [H EXCEPT ![z] = @ \ {i}]
    /\ V' = [V EXCEPT ![MOD(z + i, N)] = Empty,
                      ![MOD(z + j, N)] = V[MOD(z + i, N)]]

Swap(z, i, j) ==
    /\ H' = [H EXCEPT ![z] = (@ \ {i}) \cup {j}]
    /\ V' = [V EXCEPT ![MOD(z + i, N)] = Empty,
                      ![MOD(z + j, N)] = V[MOD(z + i, N)]]

\* store, put_hh_hash up to the loop.
PutStart(k, off) ==
    /\ put = Idle
    /\ off # 0
    /\ cnt # N
    /\ Free(Home(k)) # {}
    /\ put' = [key |-> k, off |-> off, d |-> Min(Free(Home(k)))]
    /\ UNCHANGED <<H, V, cnt>>

\* One turn of the loop of put_hh_hash: a nearer value moves to hd.
HopFault ==
    /\ put # Idle
    /\ put.d >= K
    /\ LET h == Home(put.key)
           hd == MOD(h + put.d, N)
           j == HopScotch(hd)
           z == MOD(N + hd - j, N)
           i == FFS(H[z])
       IN  /\ j # 0
           /\ Swap(z, i, j)
           /\ put' = [put EXCEPT !.d = MOD(N + z + j - h, N)]
    /\ UNCHANGED cnt

Hop ==
    /\ put # Idle
    /\ put.d >= K
    /\ LET h == Home(put.key)
           hd == MOD(h + put.d, N)
           j == HopScotch(hd)
           z == MOD(N + hd - j, N)
           i == FFS(H[z])
       IN  /\ j # 0
           /\ Swap(z, i, j)
           /\ put' = [put EXCEPT !.d = MOD(N + z + i - h, N)]
    /\ UNCHANGED cnt

\* Nothing can move: the put returns false.
PutFrozen ==
    /\ put # Idle
    /\ put.d >= K
    /\ HopScotch(MOD(Home(put.key) + put.d, N)) = 0
    /\ put' = Idle
    /\ UNCHANGED <<H, V, cnt>>

PutDone ==
    /\ put # Idle
    /\ put.d < K
    /\ LET h == Home(put.key)
       IN  /\ V' = [V EXCEPT ![MOD(h + put.d, N)] = Value(put.key, put.off)]
           /\ H' = [H EXCEPT ![h] = @ \cup {put.d}]
    /\ cnt' = cnt + 1
    /\ put' = Idle

------------------------------------------------------------------------------
\* hunt_hash_set: the bits of the key's bucket whose value has the key; the
\* walk by _succ_hh_hash takes the first.
MatchesFault(k) == H[Home(k)]
Matches(k) == {i \in H[Home(k)] : At(Home(k), i).key = k}

Get(k) == IF Matches(k) = {} THEN 0 ELSE At(Home(k), FFS(Matches(k))).off

\* del_hh_hash reads the value into 32 bits, which leaves its key: an entry
\* whose key is 0 stays.
DelFault(k) ==
    IF Matches(k) = {} \/ k = 0
    THEN UNCHANGED <<H, V, cnt>>
    ELSE LET i == FFS(Matches(k)) IN
         /\ V' = [V EXCEPT ![MOD(Home(k) + i, N)] = Empty]
         /\ cnt' = cnt - 1
         /\ UNCHANGED H

Del(k) ==
    IF Matches(k) = {} \/ k = 0
    THEN UNCHANGED <<H, V, cnt>>
    ELSE LET i == FFS(Matches(k)) IN
         /\ V' = [V EXCEPT ![MOD(Home(k) + i, N)] = Empty]
         /\ H' = [H EXCEPT ![Home(k)] = @ \ {i}]
         /\ cnt' = cnt - 1

\* get_bucket: the offsets of all values of bucket h.
InBucket(h) == {At(h % N, i).off : i \in H[h % N]}

------------------------------------------------------------------------------
\* Every bit of a bucket leads to a value whose key hashes to that bucket:
\* a walk over the bits never meets an empty or a foreign position, after
\* any number of moves (put_hh_hash, _swap, del_hh_hash).
BitsLeadHome ==
    \A h \in Positions : \A i \in H[h] :
        /\ i \in 0..(K - 1)
        /\ At(h, i) # Empty
        /\ Home(At(h, i).key) = h

\* And every value is reached from its bucket: none is lost by a move.
ValuesAreReached ==
    \A p \in Positions : V[p] # Empty =>
        \E i \in H[Home(V[p].key)] : MOD(Home(V[p].key) + i, N) = p

\* Every move brings the free position nearer: the loop of put_hh_hash ends
\* ("a new distance, should be less than before", node_shm_HH.h).
HopsComeNearer ==
    [][Hop => put'.d < put.d]_tableVars

\* Together with what a put under way knows, and as each key has one value, they
\* are inductive.
Occupied == {p \in Positions : V[p] # Empty}

Stored == {V[p] : p \in Occupied}

TableInv ==
    /\ BitsLeadHome /\ ValuesAreReached
    /\ \A v \in Stored : v.key \in Keys /\ v.off # 0
    /\ \A p, q \in Occupied : V[p].key = V[q].key => p = q
    /\ cnt = Cardinality(Occupied)
    /\ put # Idle =>
        /\ put.key \in Keys /\ put.off # 0
        /\ At(Home(put.key), put.d) = Empty
        /\ \A v \in Stored : v.key # put.key
=============================================================================
