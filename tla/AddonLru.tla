------------------------------ MODULE AddonLru ------------------------------
(***************************************************************************)
(* The LRU cache of the Node.js addon (src/src/node_shm_LRU.h) over its    *)
(* hopscotch table.  The elements of the region are linked: the allocated  *)
(* ones doubly, between a header and a tail, the most recently touched     *)
(* first; the free ones singly, from a third control element.  The calls   *)
(* are those of index.js, made under its lock: set adds or updates, get    *)
(* touches, del removes, and evictions take elements from the tail.        *)
(* _count_free is left out: each process counts for itself, and none of    *)
(* these calls looks at it.                                                *)
(***************************************************************************)
EXTENDS Hopscotch, Sequences

CONSTANTS
    M,          \* elements of the region beside the three control elements
    MaxEvict    \* bound on what one eviction may take

ASSUME RegionSize == M \in Nat \ {0} /\ MaxEvict \in Nat \ {0}

VARIABLES
    nxt, prv,   \* _next and _prev of each element, as element numbers
    hash,       \* _hash of each element: a key, or NoHash (UINT64_MAX)
    evict       \* what the eviction under way may still take, 0 if none

listVars == <<nxt, prv, hash>>
vars == <<tableVars, listVars, evict>>

Header == 0
Tail_ == 1
FreeCtrl == 2
Elements == 3..(M + 2)
All == 0..(M + 2)
NONE == M + 3           \* UINT32_MAX
NoHash == 0             \* UINT64_MAX; 0 is no key here

\* setup_region_free_list
ALInit ==
    /\ HHInit
    /\ nxt = [e \in All |-> CASE e = Header -> Tail_
                               [] e = Tail_ -> NONE
                               [] e = M + 2 -> NONE
                               [] OTHER -> e + 1]
    /\ prv = [e \in All |-> IF e = Tail_ THEN Header ELSE NONE]
    /\ hash = [e \in All |-> NoHash]
    /\ evict = 0

Quiet == put = Idle /\ evict = 0

------------------------------------------------------------------------------
(* Which of the two tables: HH_SELECT_BIT is bit 0.  A store looks at it in *)
(* the full hash, check_for_hash and remove_key in the 64-bit key, whose    *)
(* low half is the bucket.                                                  *)
StoreSelector(k) == k % 2
LookupSelector(k) == Bucket(k) % 2

CheckForHash(k) ==
    IF LookupSelector(k) = StoreSelector(k) THEN Get(k) ELSE 0

RemoveKeyFault(k) == UNCHANGED <<H, V, cnt>>
RemoveKey(k) ==
    IF LookupSelector(k) = StoreSelector(k) THEN Del(k)
    ELSE UNCHANGED <<H, V, cnt>>

------------------------------------------------------------------------------
\* The links after e is taken out of the list.
NextWithout(e) == [nxt EXCEPT ![prv[e]] = nxt[e]]
PrevWithout(e) == [prv EXCEPT ![nxt[e]] = prv[e]]

\* The links after e is put behind the header of the list (n, p).
NextWithFirst(n, e) == [n EXCEPT ![e] = n[Header], ![Header] = e]
PrevWithFirstFault(n, p, e) == [p EXCEPT ![e] = Header]
PrevWithFirst(n, p, e) == [p EXCEPT ![n[Header]] = e, ![e] = Header]

\* touch: to the front of the list.  (It also stamps the element with the
\* time of now; the order of the list is the order of the stamps.)
Touch(e) ==
    /\ nxt' = NextWithFirst(NextWithout(e), e)
    /\ prv' = PrevWithFirst(NextWithout(e), PrevWithout(e), e)
    /\ hash' = hash

\* del_el: out of the list, onto the free list, out of the table.
DelElFault(e) ==
    /\ nxt' = NextWithout(e)
    /\ prv' = [PrevWithout(e) EXCEPT ![e] = NONE]
    /\ hash' = [hash EXCEPT ![e] = NoHash]
    /\ RemoveKey(hash[e])

DelEl(e) ==
    /\ nxt' = [NextWithout(e) EXCEPT ![e] = nxt[FreeCtrl], ![FreeCtrl] = e]
    /\ prv' = [PrevWithout(e) EXCEPT ![e] = NONE]
    /\ hash' = [hash EXCEPT ![e] = NoHash]
    /\ RemoveKey(hash[e])

------------------------------------------------------------------------------
\* set of a key that is held: update_el; get: get_el.  Both touch.
UseKey(k) ==
    /\ Quiet
    /\ CheckForHash(k) # 0
    /\ Touch(CheckForHash(k))
    /\ UNCHANGED <<tableVars, evict>>

\* set of a new key: add_el asks the table first, with the offset of the
\* first free element, and links the element when the table has taken it.
AddStart(k) ==
    /\ Quiet
    /\ CheckForHash(k) = 0
    /\ nxt[FreeCtrl] # NONE
    /\ PutStart(k, nxt[FreeCtrl])
    /\ UNCHANGED <<listVars, evict>>

AddHop == Hop /\ UNCHANGED <<listVars, evict>>

AddFails == PutFrozen /\ UNCHANGED <<listVars, evict>>

AddEl ==
    /\ PutDone
    /\ LET e == put.off
           n == [nxt EXCEPT ![FreeCtrl] = nxt[e]]
       IN  /\ nxt' = NextWithFirst(n, e)
           /\ prv' = PrevWithFirst(n, prv, e)
           /\ hash' = [hash EXCEPT ![e] = put.key]
    /\ UNCHANGED evict

\* del_key: check_for_hash, then del_el.
DelKey(k) ==
    /\ Quiet
    /\ CheckForHash(k) # 0
    /\ DelEl(CheckForHash(k))
    /\ UNCHANGED <<put, evict>>

\* evict_least_used, evict_least_used_to_value_map: a do-while loop, so the
\* element at the tail goes whatever its time.  The cutoff then stops the
\* loop or not, as the times fall.
EvictStart(max) ==
    /\ Quiet
    /\ prv[Tail_] # Header
    /\ evict' = max
    /\ UNCHANGED <<tableVars, listVars>>

EvictTailFault ==
    /\ evict > 0
    /\ LET e == nxt[Header]
           stop == evict = 1 \/ nxt[e] = Tail_
       IN  /\ DelEl(e)
           /\ evict' \in (IF stop THEN {0} ELSE {0, evict - 1})
    /\ UNCHANGED put

EvictTail ==
    /\ evict > 0
    /\ LET e == prv[Tail_]
           stop == evict = 1 \/ prv[e] = Header
       IN  /\ DelEl(e)
           /\ evict' \in (IF stop THEN {0} ELSE {0, evict - 1})
    /\ UNCHANGED put

\* evict_least_used_near_hash: the elements of one bucket; ev_count is never
\* counted, so with max_evict > 0 the cutoff does not hold any back.  Each
\* step is one turn of its loop.
EvictNear(k) ==
    /\ Quiet
    /\ \E e \in InBucket(Bucket(k)) : DelEl(e)
    /\ UNCHANGED <<put, evict>>

ALNext ==
    \/ \E k \in Keys : UseKey(k) \/ AddStart(k) \/ DelKey(k) \/ EvictNear(k)
    \/ AddHop \/ AddFails \/ AddEl
    \/ \E max \in 1..MaxEvict : EvictStart(max)
    \/ EvictTail

ALSpec == ALInit /\ [][ALNext]_vars

------------------------------------------------------------------------------
\* The list as its reader walks it: _walk_allocated_list_forwards.
After(e) == IF e \in {Tail_, NONE} THEN NONE ELSE nxt[e]

WalkFrom(e) ==
    LET walk[n \in 0..(M + 1)] == IF n = 0 THEN e ELSE After(walk[n - 1])
    IN  walk

\* The elements it meets before the tail.
ListOrder ==
    LET walk == WalkFrom(Header)
        length == Min({n \in 0..M : n = M \/ walk[n + 1] \notin Elements})
    IN  [n \in 1..length |-> walk[n]]

Allocated == {e \in Elements : hash[e] # NoHash}

ALTypeOK ==
    /\ H \in [Positions -> SUBSET (0..(K - 1))]
    /\ V \in [Positions -> [key : Keys \cup {0}, off : Elements \cup {0}]]
    /\ cnt \in 0..N
    /\ put \in [key : Keys \cup {0}, off : Elements \cup {0}, d : 0..(N - 1)]
    /\ nxt \in [All -> All \cup {NONE}]
    /\ prv \in [All -> All \cup {NONE}]
    /\ hash \in [All -> Keys \cup {NoHash}]
    /\ evict \in 0..MaxEvict

\* The two directions of the list agree, and the walk from the header meets
\* each allocated element once and then the tail.
ListIsWhole ==
    /\ \A e \in Allocated \cup {Header} : prv[nxt[e]] = e
    /\ \A e \in Allocated \cup {Tail_} : nxt[prv[e]] = e
    /\ {ListOrder[n] : n \in 1..Len(ListOrder)} = Allocated
    /\ WalkFrom(Header)[Len(ListOrder) + 1] = Tail_

\* The free list holds every element that is not allocated, each once, and ends
\* there, over any sequence of adds, removals and evictions.
FreeListIsTheRest ==
    LET free == Elements \ Allocated IN
    /\ {WalkFrom(FreeCtrl)[n] : n \in 1..Cardinality(free)} = free
    /\ WalkFrom(FreeCtrl)[Cardinality(free) + 1] = NONE

\* The table and the list tell the same story: a key that is looked up leads
\* to the element that carries it, an element's key leads back to it.  In
\* particular an evicted or deleted element is reached by no key.
TableMatchesList ==
    /\ \A e \in Allocated : CheckForHash(hash[e]) = e
    /\ \A k \in Keys : CheckForHash(k) # 0 => hash[CheckForHash(k)] = k

TheKeys == LET order == ListOrder IN [n \in 1..Len(order) |-> hash[order[n]]]

\* The linked elements, with the free ones, implement the abstract cache: the
\* keys stay in the order of their last use, an eviction takes the last.
Lru == INSTANCE LruOrder WITH Capacity <- M, order <- TheKeys,
                              evicting <- evict > 0
ImplementsLru == Lru!LRUSpec

\* The hopscotch table implements a dictionary: the moves of a put are
\* invisible to every reader.
Map == INSTANCE KeyMap WITH Offsets <- Elements, Absent <- 0,
                            dict <- [k \in Keys |-> Get(k)]
ImplementsMap == Map!KMSpec

------------------------------------------------------------------------------
\* The inductive invariant the theorems of AddonLruProofs rest on: s holds the
\* allocated elements in the order of the list, f the free ones.
Orders == UNION {[1..n -> Elements] : n \in 0..M}

Place(s, i) == IF i = 0 THEN Header ELSE IF i > Len(s) THEN Tail_ ELSE s[i]

FreePlace(f, i) == IF i = 0 THEN FreeCtrl ELSE IF i > Len(f) THEN NONE ELSE f[i]

Held(s) == {s[i] : i \in 1..Len(s)}

Once(s) == \A i, j \in 1..Len(s) : s[i] = s[j] => i = j

Lists(s, f) ==
    /\ Once(s) /\ Held(s) = Allocated
    /\ Once(f) /\ Held(f) = Elements \ Allocated
    /\ \A i \in 0..Len(s) :
        nxt[Place(s, i)] = Place(s, i + 1) /\ prv[Place(s, i + 1)] = Place(s, i)
    /\ \A i \in 0..Len(f) : nxt[FreePlace(f, i)] = FreePlace(f, i + 1)
    /\ evict > 0 => put = Idle /\ Len(s) # 0
    /\ put # Idle => Len(f) # 0 /\ put.off = f[1]

\* What the table holds is what the elements say.
TableIsList ==
    /\ \A v \in Stored : v.off \in Allocated /\ hash[v.off] = v.key
    /\ \A e \in Allocated : Value(hash[e], e) \in Stored

ALInv ==
    /\ ALTypeOK /\ TableInv /\ TableIsList
    /\ \E s, f \in Orders : Lists(s, f)
=============================================================================
