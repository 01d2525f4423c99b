--------------------------- MODULE AddonLruProofs ---------------------------
(***************************************************************************)
(* For any number of keys, elements, positions and calls, on one of the    *)
(* two tables and with an even number of buckets: the hopscotch table      *)
(* stays readable through every move of a put and is a dictionary; the     *)
(* element lists stay whole and are an LRU order; the table and the lists  *)
(* agree.                                                                  *)
(***************************************************************************)
EXTENDS AddonLru, FiniteSetTheorems, SequenceTheorems, WellFoundedInduction, TLAPS

-----------------------------------------------------------------------------
(* Least and greatest elements                                             *)

\* A set of natural numbers that is not empty has a least element.
LEMMA LeastElement ==
  ASSUME NEW S, S \subseteq Nat, S # {}
  PROVE  \E m \in S : \A n \in S : m <= n
<1> DEFINE R == OpToRel(<, Nat)
<1>1. IsWellFoundedOn(R, Nat)
  BY NatLessThanWellFounded
<1>2. PICK m \in S : \A n \in S : ~(<<n, m>> \in R)
  BY <1>1, WFMin
<1>3. R = {ss \in Nat \X Nat : ss[1] < ss[2]}
  BY DEF OpToRel
<1>4. ASSUME NEW n \in S
      PROVE  m <= n
  <2> HIDE DEF R
  <2>1. ~(<<n, m>> \in R)
    BY <1>2
  <2>2. ~(n < m)
    BY <2>1, <1>3
  <2> QED
    BY <2>2
<1> QED
  BY <1>4

\* Min is that element, and the distance a probe or a walk over the bits finds.
LEMMA MinIsLeast ==
  ASSUME NEW S, S \subseteq Nat, S # {}
  PROVE  Min(S) \in S /\ \A n \in S : Min(S) <= n
BY LeastElement DEF Min

\* A set of numbers below a bound has a greatest, which is Max.
LEMMA MaxIsGreatest ==
  ASSUME NEW b \in Nat, NEW S, S \subseteq 0..b, S # {}
  PROVE  Max(S) \in S
<1> DEFINE T == {b - x : x \in S}
<1>1. \A x \in S : b - x \in Nat /\ x \in Int
  OBVIOUS
<1>2. T \subseteq Nat /\ T # {}
  BY <1>1
<1>3. PICK m \in T : \A n \in T : m <= n
  <2> HIDE DEF T
  <2> QED
    BY <1>2, LeastElement
<1>4. PICK x \in S : m = b - x
  BY <1>3
<1>5. \A y \in S : x >= y
  <2>1. \A y \in S : b - x <= b - y
    BY <1>3, <1>4
  <2> QED
    BY <1>1, <2>1
<1> QED
  BY <1>4, <1>5 DEF Max

-----------------------------------------------------------------------------
(* Positions and distances of the table                                    *)

LEMMA Sizes ==
  /\ N \in Nat /\ N >= 1 /\ K \in Nat /\ K >= 1 /\ K <= N /\ Count \in Nat /\ Count >= 1
  /\ \A k \in Keys : k \in Nat /\ k # 0
  /\ 0..(K - 1) \subseteq Positions
BY TableSizes DEF Positions

LEMMA HomeIsPosition ==
  ASSUME NEW k \in Keys
  PROVE  Bucket(k) \in 0..(Count - 1) /\ Home(k) \in Positions
<1>1. k % Count \in 0..(Count - 1)
  BY Sizes
<1>2. \A x \in Nat : x % N \in 0..(N - 1)
  BY Sizes
<1> QED
  BY <1>1, <1>2 DEF Home, Bucket, Positions

\* One subtraction is enough, and distances from one bucket do not collide.
LEMMA ModIsPosition ==
  ASSUME NEW h \in Positions, NEW i \in Positions
  PROVE  MOD(h + i, N) \in Positions
BY Sizes DEF MOD, Positions

LEMMA ModInjective ==
  ASSUME NEW h \in Positions, NEW i \in Positions, NEW j \in Positions,
         MOD(h + i, N) = MOD(h + j, N)
  PROVE  i = j
BY Sizes DEF MOD, Positions

\* The arithmetic of a hop: the free position at distance d is at bit j of the
\* bucket j behind it, and the value at its bit i leaves a nearer one free.
LEMMA HopArithmetic ==
  ASSUME NEW h \in Positions, NEW d \in Positions, d >= K, NEW j \in 1..(K - 1)
  PROVE  LET hd == MOD(h + d, N)
             z == MOD(N + hd - j, N)
         IN  /\ hd \in Positions /\ z \in Positions /\ MOD(z + j, N) = hd
             /\ \A i \in 0..(j - 1) :
                  /\ MOD(N + z + i - h, N) = d - j + i
                  /\ d - j + i \in Positions /\ d - j + i < d
                  /\ MOD(h + (d - j + i), N) = MOD(z + i, N)
<1>1. PICK hd : hd = MOD(h + d, N)
  OBVIOUS
<1>2. hd \in Positions /\ (hd = h + d \/ hd = h + d - N)
  BY <1>1, Sizes DEF MOD, Positions
<1>3. PICK z : z = MOD(N + hd - j, N)
  OBVIOUS
<1>4. z \in Positions /\ MOD(z + j, N) = hd /\ (z = h + d - j \/ z = h + d - j - N)
  BY <1>1, <1>2, <1>3, Sizes DEF MOD, Positions
<1>5. ASSUME NEW i \in 0..(j - 1)
      PROVE  /\ MOD(N + z + i - h, N) = d - j + i
             /\ d - j + i \in Positions /\ d - j + i < d
             /\ MOD(h + (d - j + i), N) = MOD(z + i, N)
  <2>1. d - j + i \in Positions /\ d - j + i < d
    BY Sizes DEF Positions
  <2>2. MOD(N + z + i - h, N) = d - j + i
    BY <1>4, <2>1, Sizes DEF MOD, Positions
  <2>3. MOD(h + (d - j + i), N) = MOD(z + i, N)
    BY <1>4, <2>1, Sizes DEF MOD, Positions
  <2> QED
    BY <2>1, <2>2, <2>3
<1> QED
  BY <1>1, <1>2, <1>3, <1>4, <1>5

-----------------------------------------------------------------------------
(* What changes of the table preserve                                      *)

LEMMA Finite == IsFiniteSet(Occupied) /\ Cardinality(Occupied) \in Nat
<1>1. IsFiniteSet(Positions)
  BY FS_Interval, Sizes DEF Positions
<1>2. Occupied \in SUBSET Positions
  BY DEF Occupied
<1> QED
  BY <1>1, <1>2, FS_Subset, FS_CardinalityType

LEMMA TableTypes ==
  ASSUME ALTypeOK
  PROVE  /\ H \in [Positions -> SUBSET (0..(K - 1))]
         /\ V \in [Positions -> [key : Keys \cup {0}, off : Elements \cup {0}]]
         /\ Empty \in [key : Keys \cup {0}, off : Elements \cup {0}]
         /\ \A h \in Positions : H[h] \subseteq Positions /\ H[h] \subseteq Nat
BY Sizes DEF ALTypeOK, Empty, Value

\* The bits of a bucket and the positions of its values correspond.
LEMMA BitPositions ==
  ASSUME ALTypeOK, TableInv, NEW h \in Positions, NEW i \in H[h]
  PROVE  /\ i \in Positions /\ MOD(h + i, N) \in Occupied
         /\ Home(V[MOD(h + i, N)].key) = h
         /\ \A j \in H[h] : MOD(h + i, N) = MOD(h + j, N) => i = j
<1>1. H[h] \subseteq Positions
  BY TableTypes
<1>2. MOD(h + i, N) \in Positions
  BY <1>1, ModIsPosition
<1> QED
  BY <1>1, <1>2, ModInjective DEF TableInv, BitsLeadHome, At, Occupied

\* A value that moves to a free position of its neighborhood stays reachable, and
\* so do the others.
LEMMA SwapKeeps ==
  ASSUME ALTypeOK, TableInv, NEW z \in Positions, NEW i \in H[z], NEW j \in 0..(K - 1),
         V[MOD(z + j, N)] = Empty, Swap(z, i, j)
  PROVE  LET from == MOD(z + i, N)
             to == MOD(z + j, N)
         IN  /\ from \in Occupied /\ to \in Positions /\ to \notin Occupied
             /\ V'[to] = V[from] /\ V'[from] = Empty
             /\ \A p \in Positions : p # from /\ p # to => V'[p] = V[p]
             /\ Occupied' = (Occupied \ {from}) \cup {to}
             /\ H' \in [Positions -> SUBSET (0..(K - 1))]
             /\ V' \in [Positions -> [key : Keys \cup {0}, off : Elements \cup {0}]]
             /\ BitsLeadHome' /\ ValuesAreReached'
<1> DEFINE from == MOD(z + i, N)
           to == MOD(z + j, N)
<1>1. /\ from \in Occupied /\ from \in Positions /\ Home(V[from].key) = z /\ i \in Positions
      /\ \A b \in H[z] : from = MOD(z + b, N) => i = b
  BY BitPositions DEF Occupied
<1>2. to \in Positions /\ to \notin Occupied /\ j \in Positions
  BY ModIsPosition, Sizes DEF Occupied
<1>3. from # to
  BY <1>1, <1>2
<1>4. V' = [V EXCEPT ![from] = Empty, ![to] = V[from]] /\ H' = [H EXCEPT ![z] = (@ \ {i}) \cup {j}]
  BY DEF Swap
<1>t. /\ H \in [Positions -> SUBSET (0..(K - 1))]
      /\ V \in [Positions -> [key : Keys \cup {0}, off : Elements \cup {0}]]
      /\ Empty \in [key : Keys \cup {0}, off : Elements \cup {0}]
  BY TableTypes
<1> HIDE DEF from, to
<1>5. V'[to] = V[from] /\ V'[from] = Empty
  BY <1>1, <1>2, <1>3, <1>4, <1>t
<1>6. \A p \in Positions : p # from /\ p # to => V'[p] = V[p]
  BY <1>4, <1>t
<1>7. /\ H' \in [Positions -> SUBSET (0..(K - 1))]
      /\ V' \in [Positions -> [key : Keys \cup {0}, off : Elements \cup {0}]]
  BY <1>1, <1>4, <1>t
<1>8. Occupied' = (Occupied \ {from}) \cup {to}
  BY <1>1, <1>2, <1>5, <1>6 DEF Occupied
<1>9. ASSUME NEW h \in Positions, NEW b \in H'[h]
      PROVE  b \in 0..(K - 1) /\ V'[MOD(h + b, N)] # Empty /\ Home(V'[MOD(h + b, N)].key) = h
  <2>1. b \in 0..(K - 1)
    BY <1>7
  <2>2. CASE h = z /\ b = j
    BY <1>1, <1>5, <2>1, <2>2 DEF to, Occupied
  <2>3. CASE ~(h = z /\ b = j)
    <3>1. b \in H[h] /\ ~(h = z /\ b = i)
      BY <1>1, <1>3, <1>4, <1>t, <2>3 DEF from, to
    <3>2. MOD(h + b, N) \in Occupied /\ Home(V[MOD(h + b, N)].key) = h
      BY <3>1, BitPositions
    <3>3. MOD(h + b, N) # from
      BY <1>1, <3>1, <3>2
    <3> QED
      BY <1>2, <1>6, <2>1, <3>2, <3>3 DEF Occupied
  <2> QED
    BY <2>2, <2>3
<1>10. BitsLeadHome'
  BY <1>9 DEF BitsLeadHome, At
<1>11. ASSUME NEW p \in Positions, V'[p] # Empty
       PROVE  \E b \in H'[Home(V'[p].key)] : MOD(Home(V'[p].key) + b, N) = p
  <2>1. CASE p = to
    <3>1. j \in H'[z]
      BY <1>4, <1>t
    <3> QED
      BY <1>1, <1>5, <2>1, <3>1 DEF to
  <2>2. CASE p # to
    <3>1. p # from /\ V'[p] = V[p] /\ p \in Occupied
      BY <1>5, <1>6, <1>11, <2>2 DEF Occupied
    <3>2. PICK b \in H[Home(V[p].key)] : MOD(Home(V[p].key) + b, N) = p
      BY <3>1 DEF TableInv, ValuesAreReached, Occupied
    <3>3. ~(Home(V[p].key) = z /\ b = i)
      BY <3>1, <3>2 DEF from
    <3>4. b \in H'[Home(V[p].key)]
      <4>1. V[p].key \in Keys
        BY <3>1 DEF TableInv, Stored
      <4>2. Home(V[p].key) \in Positions
        BY <4>1, HomeIsPosition
      <4> QED
        BY <1>4, <1>t, <3>2, <3>3, <4>2
    <3> QED
      BY <3>1, <3>2, <3>4
  <2> QED
    BY <2>1, <2>2
<1>12. ValuesAreReached'
  BY <1>11 DEF ValuesAreReached
<1> QED
  BY <1>1, <1>2, <1>5, <1>6, <1>7, <1>8, <1>10, <1>12 DEF from, to

\* What one turn of the loop of put_hh_hash does.
LEMMA HopFacts ==
  ASSUME ALTypeOK, TableInv, Hop
  PROVE  \E z \in Positions : \E i \in H[z] : \E j \in 1..(K - 1) :
            /\ i < j /\ Swap(z, i, j)
            /\ V[MOD(z + j, N)] = Empty
            /\ put' = [put EXCEPT !.d = put.d - j + i]
            /\ put.d - j + i \in Positions /\ put.d - j + i < put.d
            /\ MOD(Home(put.key) + (put.d - j + i), N) = MOD(z + i, N)
<1>1. PICK h : h = Home(put.key)
  OBVIOUS
<1>2. PICK hd : hd = MOD(h + put.d, N)
  OBVIOUS
<1>3. PICK j : j = HopScotch(hd)
  OBVIOUS
<1>4. PICK z : z = MOD(N + hd - j, N)
  OBVIOUS
<1>5. PICK i : i = FFS(H[z])
  OBVIOUS
<1>6. /\ put # Idle /\ put.d >= K /\ j # 0 /\ Swap(z, i, j)
      /\ put' = [put EXCEPT !.d = MOD(N + z + i - h, N)]
  BY <1>1, <1>2, <1>3, <1>4, <1>5 DEF Hop
<1>7. h \in Positions /\ put.d \in Positions /\ At(h, put.d) = Empty
  BY <1>1, <1>6, HomeIsPosition DEF TableInv, ALTypeOK, Positions
<1>8. j \in 1..(K - 1) /\ H[z] # {} /\ FFS(H[z]) < j
  <2> DEFINE movable == {l \in 1..(K - 1) : LET bits == H[MOD(N + hd - l, N)]
                                            IN  bits # {} /\ FFS(bits) < l}
  <2>1. movable # {} /\ j = Max(movable)
    BY <1>3, <1>6 DEF HopScotch
  <2>2. movable \subseteq 0..K /\ K \in Nat
    BY Sizes
  <2>3. j \in movable
    <3> HIDE DEF movable
    <3> QED
      BY <2>1, <2>2, MaxIsGreatest
  <2> QED
    BY <1>4, <2>3
<1>9. hd \in Positions /\ z \in Positions /\ MOD(z + j, N) = hd
  BY <1>2, <1>4, <1>6, <1>7, <1>8, HopArithmetic
<1>10. i \in H[z] /\ i \in 0..(j - 1)
  <2>1. H[z] \subseteq Nat
    BY <1>9, TableTypes
  <2>2. i \in H[z]
    BY <1>5, <1>8, <2>1, MinIsLeast DEF FFS
  <2> QED
    BY <1>5, <1>8, <2>1, <2>2
<1>11. /\ MOD(N + z + i - h, N) = put.d - j + i
       /\ put.d - j + i \in Positions /\ put.d - j + i < put.d
       /\ MOD(h + (put.d - j + i), N) = MOD(z + i, N)
  BY <1>2, <1>4, <1>6, <1>7, <1>8, <1>10, HopArithmetic
<1>12. i < j
  BY <1>8, <1>10
<1>13. V[MOD(z + j, N)] = Empty
  BY <1>2, <1>7, <1>9 DEF At
<1> QED
  BY <1>1, <1>6, <1>8, <1>9, <1>10, <1>11, <1>12, <1>13

\* A turn of the loop changes where values are, not which.
LEMMA HopKeeps ==
  ASSUME ALTypeOK, TableInv, Hop
  PROVE  /\ H' \in [Positions -> SUBSET (0..(K - 1))]
         /\ V' \in [Positions -> [key : Keys \cup {0}, off : Elements \cup {0}]]
         /\ put' \in [key : Keys \cup {0}, off : Elements \cup {0}, d : 0..(N - 1)]
         /\ put' # Idle /\ put'.key = put.key /\ put'.off = put.off /\ put'.d < put.d
         /\ cnt' = cnt /\ Stored' = Stored
         /\ TableInv'
<1>0. PICK z \in Positions : \E i \in H[z] : \E j \in 1..(K - 1) :
            /\ i < j /\ Swap(z, i, j)
            /\ V[MOD(z + j, N)] = Empty
            /\ put' = [put EXCEPT !.d = put.d - j + i]
            /\ put.d - j + i \in Positions /\ put.d - j + i < put.d
            /\ MOD(Home(put.key) + (put.d - j + i), N) = MOD(z + i, N)
  BY HopFacts
<1>1. PICK i \in H[z], j \in 1..(K - 1) :
            /\ i < j /\ Swap(z, i, j)
            /\ V[MOD(z + j, N)] = Empty
            /\ put' = [put EXCEPT !.d = put.d - j + i]
            /\ put.d - j + i \in Positions /\ put.d - j + i < put.d
            /\ MOD(Home(put.key) + (put.d - j + i), N) = MOD(z + i, N)
  BY <1>0
<1>2. PICK from, to : from = MOD(z + i, N) /\ to = MOD(z + j, N)
  OBVIOUS
<1>3. /\ from \in Occupied /\ to \in Positions /\ to \notin Occupied
      /\ V'[to] = V[from] /\ V'[from] = Empty
      /\ \A p \in Positions : p # from /\ p # to => V'[p] = V[p]
      /\ Occupied' = (Occupied \ {from}) \cup {to}
      /\ H' \in [Positions -> SUBSET (0..(K - 1))]
      /\ V' \in [Positions -> [key : Keys \cup {0}, off : Elements \cup {0}]]
      /\ BitsLeadHome' /\ ValuesAreReached'
  <2>1. j \in 0..(K - 1)
    BY Sizes
  <2> QED
    BY <1>1, <1>2, <2>1, SwapKeeps
<1>4. /\ put' \in [key : Keys \cup {0}, off : Elements \cup {0}, d : 0..(N - 1)]
      /\ put'.key = put.key /\ put'.off = put.off /\ put'.d = put.d - j + i
  BY <1>1 DEF ALTypeOK, Positions
<1>p. put # Idle /\ cnt' = cnt
  BY DEF Hop
<1>o. put.key \in Keys /\ put.off # 0 /\ \A v \in Stored : v.key # put.key
  BY <1>p DEF TableInv
<1>5. put' # Idle
  BY <1>4, <1>o DEF Idle
<1>q. Occupied \subseteq Positions /\ from \in Positions
  BY <1>3 DEF Occupied
<1>6. Stored' = Stored
  <2>1. \A p \in Occupied : V[p] \in Stored'
    BY <1>3, <1>q DEF Stored
  <2>2. \A p \in Occupied' : V'[p] \in Stored
    BY <1>3, <1>q DEF Stored
  <2> QED
    BY <2>1, <2>2 DEF Stored
<1>7. ASSUME NEW p \in Occupied', NEW q \in Occupied', V'[p].key = V'[q].key
      PROVE  p = q
  BY <1>3, <1>7, <1>q DEF TableInv
<1>8. Cardinality(Occupied') = Cardinality(Occupied)
  <2>1. IsFiniteSet(Occupied \ {from}) /\ Cardinality(Occupied \ {from}) = Cardinality(Occupied) - 1
    BY <1>3, Finite, FS_RemoveElement
  <2>2. Cardinality((Occupied \ {from}) \cup {to}) = Cardinality(Occupied \ {from}) + 1
    BY <1>3, <2>1, FS_AddElement
  <2> QED
    BY <1>3, <2>1, <2>2, Finite
<1>9. V'[MOD(Home(put.key) + put'.d, N)] = Empty
  BY <1>1, <1>2, <1>3, <1>4
<1>11. At(Home(put.key), put.d)' = Empty
  BY <1>4, <1>9 DEF At
<1>10. TableInv'
  BY <1>3, <1>4, <1>6, <1>7, <1>8, <1>11, <1>o, <1>p DEF TableInv
<1> QED
  BY <1>1, <1>3, <1>4, <1>5, <1>6, <1>10, <1>p

\* The value of a put reaches a free position of its neighborhood.
LEMMA PutDoneKeeps ==
  ASSUME ALTypeOK, TableInv, PutDone
  PROVE  /\ H' \in [Positions -> SUBSET (0..(K - 1))]
         /\ V' \in [Positions -> [key : Keys \cup {0}, off : Elements \cup {0}]]
         /\ cnt' \in 0..N /\ put' = Idle
         /\ Stored' = Stored \cup {Value(put.key, put.off)}
         /\ TableInv'
<1>1. PICK h : h = Home(put.key)
  OBVIOUS
<1>2. PICK to : to = MOD(h + put.d, N)
  OBVIOUS
<1>3. PICK v : v = Value(put.key, put.off)
  OBVIOUS
<1>4. /\ put # Idle /\ put.d < K /\ put' = Idle /\ cnt' = cnt + 1
      /\ V' = [V EXCEPT ![to] = v] /\ H' = [H EXCEPT ![h] = @ \cup {put.d}]
  BY <1>1, <1>2, <1>3 DEF PutDone
<1>5. /\ put.key \in Keys /\ put.off # 0 /\ put.off \in Elements /\ put.d \in Positions
      /\ put.d \in 0..(K - 1)
      /\ \A w \in Stored : w.key # put.key
  BY <1>4, Sizes DEF TableInv, ALTypeOK, Positions
<1>6. h \in Positions /\ to \in Positions /\ to \notin Occupied
  BY <1>1, <1>2, <1>4, <1>5, HomeIsPosition, ModIsPosition DEF TableInv, At, Occupied
<1>7. /\ v.key = put.key /\ v.off = put.off /\ v # Empty
      /\ v \in [key : Keys \cup {0}, off : Elements \cup {0}]
  BY <1>3, <1>5 DEF Value, Empty
<1>t. /\ H \in [Positions -> SUBSET (0..(K - 1))]
      /\ V \in [Positions -> [key : Keys \cup {0}, off : Elements \cup {0}]]
  BY TableTypes
<1>8. V'[to] = v /\ \A p \in Positions : p # to => V'[p] = V[p]
  BY <1>4, <1>6, <1>t
<1>9. /\ H' \in [Positions -> SUBSET (0..(K - 1))]
      /\ V' \in [Positions -> [key : Keys \cup {0}, off : Elements \cup {0}]]
  BY <1>4, <1>5, <1>6, <1>7, <1>t
<1>10. Occupied' = Occupied \cup {to} /\ Occupied \subseteq Positions
  BY <1>6, <1>7, <1>8 DEF Occupied
<1>11. Stored' = Stored \cup {v}
  <2>1. \A p \in Occupied : V[p] \in Stored'
    BY <1>6, <1>8, <1>10 DEF Stored
  <2>2. \A p \in Occupied' : V'[p] \in Stored \cup {v}
    BY <1>8, <1>10 DEF Stored
  <2>3. v \in Stored'
    BY <1>8, <1>10 DEF Stored
  <2> QED
    BY <2>1, <2>2, <2>3 DEF Stored
<1>12. ASSUME NEW g \in Positions, NEW b \in H'[g]
       PROVE  b \in 0..(K - 1) /\ V'[MOD(g + b, N)] # Empty /\ Home(V'[MOD(g + b, N)].key) = g
  <2>1. b \in 0..(K - 1)
    BY <1>9
  <2>2. CASE g = h /\ b = put.d
    BY <1>1, <1>2, <1>7, <1>8, <2>1, <2>2
  <2>3. CASE ~(g = h /\ b = put.d)
    <3>1. b \in H[g]
      BY <1>4, <1>t, <2>3
    <3>2. MOD(g + b, N) \in Occupied /\ Home(V[MOD(g + b, N)].key) = g
      BY <3>1, BitPositions
    <3> QED
      BY <1>6, <1>8, <2>1, <3>2 DEF Occupied
  <2> QED
    BY <2>2, <2>3
<1>13. BitsLeadHome'
  BY <1>12 DEF BitsLeadHome, At
<1>14. ASSUME NEW p \in Positions, V'[p] # Empty
       PROVE  \E b \in H'[Home(V'[p].key)] : MOD(Home(V'[p].key) + b, N) = p
  <2>1. CASE p = to
    <3>1. put.d \in H'[h]
      BY <1>4, <1>6, <1>t
    <3> QED
      BY <1>1, <1>2, <1>7, <1>8, <2>1, <3>1
  <2>2. CASE p # to
    <3>1. V'[p] = V[p] /\ p \in Occupied
      BY <1>8, <1>14, <2>2 DEF Occupied
    <3>2. PICK b \in H[Home(V[p].key)] : MOD(Home(V[p].key) + b, N) = p
      BY <3>1 DEF TableInv, ValuesAreReached, Occupied
    <3>3. Home(V[p].key) \in Positions
      BY <3>1, HomeIsPosition DEF TableInv, Stored
    <3>4. b \in H'[Home(V[p].key)]
      BY <1>4, <1>t, <3>2, <3>3
    <3> QED
      BY <3>1, <3>2, <3>4
  <2> QED
    BY <2>1, <2>2
<1>15. ValuesAreReached'
  BY <1>14 DEF ValuesAreReached
<1>16. ASSUME NEW p \in Occupied', NEW q \in Occupied', V'[p].key = V'[q].key
       PROVE  p = q
  <2>1. \A r \in Occupied : V'[r] = V[r] /\ V[r].key # put.key
    BY <1>5, <1>6, <1>8, <1>10 DEF Stored
  <2> QED
    BY <1>7, <1>8, <1>10, <1>16, <2>1 DEF TableInv
<1>17. Cardinality(Occupied') = cnt + 1
  BY <1>6, <1>10, Finite, FS_AddElement DEF TableInv
<1>18. cnt' \in 0..N
  <2>1. IsFiniteSet(Positions) /\ Cardinality(Positions) = N
    BY FS_Interval, Sizes DEF Positions
  <2>2. Occupied' \in SUBSET Positions
    BY <1>6, <1>10
  <2>3. Cardinality(Occupied') <= N /\ Cardinality(Occupied') \in Nat
    BY <2>1, <2>2, FS_Subset, FS_CardinalityType
  <2> QED
    BY <1>4, <1>17, <2>3, Sizes
<1>19. TableInv'
  BY <1>4, <1>5, <1>7, <1>11, <1>13, <1>15, <1>16, <1>17 DEF TableInv
<1> QED
  BY <1>3, <1>4, <1>9, <1>11, <1>18, <1>19

\* What a look-up of a key meets: its value, if it is stored.
GetIsRight ==
  \A k \in Keys : /\ \A v \in Stored : v.key = k => Get(k) = v.off
                  /\ (\A v \in Stored : v.key # k) => Get(k) = 0

LEMMA MatchIs ==
  ASSUME ALTypeOK, TableInv, NEW k \in Keys, NEW p \in Occupied, V[p].key = k
  PROVE  \E i \in H[Home(k)] : Matches(k) = {i} /\ FFS(Matches(k)) = i /\ MOD(Home(k) + i, N) = p
<1>1. PICK i \in H[Home(k)] : MOD(Home(k) + i, N) = p
  BY DEF TableInv, ValuesAreReached, Occupied
<1>2. Home(k) \in Positions
  BY HomeIsPosition
<1>3. ASSUME NEW j \in Matches(k)
      PROVE  j = i
  <2>1. j \in H[Home(k)] /\ V[MOD(Home(k) + j, N)].key = k
    BY <1>3 DEF Matches, At
  <2>2. MOD(Home(k) + j, N) \in Occupied
    BY <1>2, <2>1, BitPositions
  <2>3. MOD(Home(k) + j, N) = p
    BY <2>1, <2>2 DEF TableInv
  <2> QED
    BY <1>1, <1>2, <2>1, <2>3, BitPositions
<1>4. i \in Matches(k)
  BY <1>1 DEF Matches, At
<1>5. Matches(k) = {i}
  BY <1>3, <1>4
<1>6. {i} \subseteq Nat
  BY <1>1, <1>2, TableTypes
<1>7. FFS({i}) = i
  BY <1>6, MinIsLeast DEF FFS
<1> QED
  BY <1>1, <1>5, <1>7

LEMMA GetFinds == ALTypeOK /\ TableInv => GetIsRight
<1> SUFFICES ASSUME ALTypeOK, TableInv, NEW k \in Keys
             PROVE  /\ \A v \in Stored : v.key = k => Get(k) = v.off
                    /\ (\A v \in Stored : v.key # k) => Get(k) = 0
  BY DEF GetIsRight
<1>1. ASSUME NEW p \in Occupied, V[p].key = k
      PROVE  Get(k) = V[p].off
  <2>1. PICK i \in H[Home(k)] : Matches(k) = {i} /\ FFS(Matches(k)) = i /\ MOD(Home(k) + i, N) = p
    BY <1>1, MatchIs
  <2> QED
    BY <2>1 DEF Get, At
<1>2. ASSUME \A v \in Stored : v.key # k
      PROVE  Get(k) = 0
  <2>1. ASSUME NEW j \in Matches(k)
        PROVE  FALSE
    <3>1. j \in H[Home(k)] /\ V[MOD(Home(k) + j, N)].key = k
      BY <2>1 DEF Matches, At
    <3>2. MOD(Home(k) + j, N) \in Occupied
      BY <3>1, HomeIsPosition, BitPositions
    <3> QED
      BY <1>2, <3>1, <3>2 DEF Stored
  <2>2. Matches(k) = {}
    BY <2>1
  <2> QED
    BY <2>2 DEF Get
<1> QED
  BY <1>1, <1>2 DEF Stored

\* del_hh_hash removes the value of its key and no other.
LEMMA DelKeeps ==
  ASSUME ALTypeOK, TableInv, put = Idle, put' = Idle, NEW k \in Keys, NEW v \in Stored, v.key = k,
         Del(k)
  PROVE  /\ H' \in [Positions -> SUBSET (0..(K - 1))]
         /\ V' \in [Positions -> [key : Keys \cup {0}, off : Elements \cup {0}]]
         /\ cnt' \in 0..N
         /\ Stored' = Stored \ {v}
         /\ TableInv'
<1>1. PICK p \in Occupied : v = V[p]
  BY DEF Stored
<1>2. PICK i \in H[Home(k)] : Matches(k) = {i} /\ FFS(Matches(k)) = i /\ MOD(Home(k) + i, N) = p
  BY <1>1, MatchIs
<1>3. PICK h : h = Home(k)
  OBVIOUS
<1>4. /\ V' = [V EXCEPT ![p] = Empty] /\ H' = [H EXCEPT ![h] = @ \ {i}] /\ cnt' = cnt - 1
  BY <1>2, <1>3, Sizes DEF Del
<1>t. /\ H \in [Positions -> SUBSET (0..(K - 1))]
      /\ V \in [Positions -> [key : Keys \cup {0}, off : Elements \cup {0}]]
      /\ Empty \in [key : Keys \cup {0}, off : Elements \cup {0}]
  BY TableTypes
<1>5. h \in Positions /\ p \in Positions /\ Occupied \subseteq Positions
  BY <1>3, HomeIsPosition DEF Occupied
<1>6. /\ H' \in [Positions -> SUBSET (0..(K - 1))]
      /\ V' \in [Positions -> [key : Keys \cup {0}, off : Elements \cup {0}]]
  BY <1>4, <1>5, <1>t
<1>7. V'[p] = Empty /\ \A q \in Positions : q # p => V'[q] = V[q]
  BY <1>4, <1>5, <1>t
<1>8. Occupied' = Occupied \ {p}
  BY <1>5, <1>7 DEF Occupied
<1>9. \A q \in Occupied : V[q] = v => q = p
  BY <1>1 DEF TableInv
<1>10. Stored' = Stored \ {v}
  <2>1. \A q \in Occupied : V[q] # v => V[q] \in Stored'
    BY <1>1, <1>5, <1>7, <1>8 DEF Stored
  <2>2. \A q \in Occupied' : V'[q] \in Stored \ {v}
    BY <1>5, <1>7, <1>8, <1>9 DEF Stored
  <2> QED
    BY <2>1, <2>2 DEF Stored
<1>11. ASSUME NEW g \in Positions, NEW b \in H'[g]
       PROVE  b \in 0..(K - 1) /\ V'[MOD(g + b, N)] # Empty /\ Home(V'[MOD(g + b, N)].key) = g
  <2>1. b \in H[g] /\ ~(g = h /\ b = i)
    BY <1>4, <1>5, <1>t, <1>11
  <2>2. MOD(g + b, N) \in Occupied /\ Home(V[MOD(g + b, N)].key) = g
    BY <2>1, BitPositions
  <2>3. MOD(g + b, N) # p
    <3>1. MOD(g + b, N) = p => g = h
      BY <1>1, <1>3, <2>2
    <3>2. MOD(h + b, N) = p /\ b \in H[h] => b = i
      BY <1>2, <1>3, <1>5, BitPositions
    <3> QED
      BY <2>1, <3>1, <3>2
  <2> QED
    BY <1>5, <1>6, <1>7, <2>2, <2>3 DEF Occupied
<1>12. BitsLeadHome'
  BY <1>11 DEF BitsLeadHome, At
<1>13. ASSUME NEW q \in Positions, V'[q] # Empty
       PROVE  \E b \in H'[Home(V'[q].key)] : MOD(Home(V'[q].key) + b, N) = q
  <2>1. q # p /\ V'[q] = V[q] /\ q \in Occupied
    BY <1>7, <1>13 DEF Occupied
  <2>2. PICK b \in H[Home(V[q].key)] : MOD(Home(V[q].key) + b, N) = q
    BY <2>1 DEF TableInv, ValuesAreReached, Occupied
  <2>3. Home(V[q].key) \in Positions
    BY <2>1, HomeIsPosition DEF TableInv, Stored
  <2>4. ~(Home(V[q].key) = h /\ b = i)
    BY <1>2, <1>3, <2>1, <2>2
  <2>5. b \in H'[Home(V[q].key)]
    BY <1>4, <1>5, <1>t, <2>2, <2>3, <2>4
  <2> QED
    BY <2>1, <2>2, <2>5
<1>14. ValuesAreReached'
  BY <1>13 DEF ValuesAreReached
<1>15. ASSUME NEW q \in Occupied', NEW r \in Occupied', V'[q].key = V'[r].key
       PROVE  q = r
  BY <1>5, <1>7, <1>8, <1>15 DEF TableInv
<1>16. Cardinality(Occupied') = cnt - 1
  BY <1>1, <1>8, Finite, FS_RemoveElement DEF TableInv
<1>17. cnt' \in 0..N
  <2>1. IsFiniteSet(Occupied') /\ Cardinality(Occupied') \in Nat
    BY <1>8, Finite, FS_RemoveElement, FS_CardinalityType
  <2> QED
    BY <1>4, <1>16, <2>1, Sizes DEF ALTypeOK
<1>18. TableInv'
  BY <1>4, <1>10, <1>12, <1>14, <1>15, <1>16 DEF TableInv
<1> QED
  BY <1>6, <1>10, <1>17, <1>18

-----------------------------------------------------------------------------
(* Sequences of elements, and links that follow them                       *)

LEMMA ElementFacts ==
  /\ M \in Nat /\ M >= 1
  /\ Header \in All /\ Tail_ \in All /\ FreeCtrl \in All /\ Elements \subseteq All /\ NONE \notin All
  /\ Header # Tail_ /\ Header # FreeCtrl /\ Tail_ # FreeCtrl
  /\ Header \notin Elements /\ Tail_ \notin Elements /\ FreeCtrl \notin Elements
  /\ 0 \notin Elements
BY RegionSize DEF Header, Tail_, FreeCtrl, Elements, All, NONE

LEMMA OrdersAre ==
  ASSUME NEW s
  PROVE  s \in Orders <=> s \in Seq(Elements) /\ Len(s) <= M
<1>0. M \in Nat
  BY ElementFacts
<1>1. ASSUME s \in Orders
      PROVE  s \in Seq(Elements) /\ Len(s) <= M
  <2>1. PICK n \in 0..M : s \in [1..n -> Elements]
    BY <1>1 DEF Orders
  <2>2. s \in Seq(Elements) /\ Len(s) = n
    BY <2>1, <1>0
  <2> QED
    BY <2>1, <2>2, <1>0
<1>2. ASSUME s \in Seq(Elements), Len(s) <= M
      PROVE  s \in Orders
  <2>1. s \in [1..Len(s) -> Elements] /\ Len(s) \in 0..M
    BY <1>0, <1>2
  <2> QED
    BY <2>1 DEF Orders
<1> QED
  BY <1>1, <1>2

\* Links that follow s between the header and the tail, and f from the free control.
Chain(nx, pv, s) ==
  \A i \in 0..Len(s) : nx[Place(s, i)] = Place(s, i + 1) /\ pv[Place(s, i + 1)] = Place(s, i)

FreeChain(nx, f) == \A i \in 0..Len(f) : nx[FreePlace(f, i)] = FreePlace(f, i + 1)

\* s without its m-th element; e before s.
Dropped(s, m) == [i \in 1..(Len(s) - 1) |-> IF i < m THEN s[i] ELSE s[i + 1]]
First(e, s) == [i \in 1..(Len(s) + 1) |-> IF i = 1 THEN e ELSE s[i - 1]]

LEMMA PlaceFacts ==
  ASSUME NEW s \in Seq(Elements)
  PROVE  /\ Place(s, 0) = Header /\ Place(s, Len(s) + 1) = Tail_
         /\ \A i \in 1..Len(s) : Place(s, i) = s[i] /\ s[i] \in Elements
         /\ \A i \in 0..(Len(s) + 1) : Place(s, i) \in All
         /\ Once(s) => \A i, j \in 0..(Len(s) + 1) : Place(s, i) = Place(s, j) => i = j
<1>0. Len(s) \in Nat
  OBVIOUS
<1>1. Place(s, 0) = Header /\ Place(s, Len(s) + 1) = Tail_
  BY <1>0 DEF Place
<1>2. \A i \in 1..Len(s) : Place(s, i) = s[i] /\ s[i] \in Elements
  BY <1>0 DEF Place
<1>3. \A i \in 0..(Len(s) + 1) : i = 0 \/ i = Len(s) + 1 \/ i \in 1..Len(s)
  BY <1>0
<1>4. \A i \in 0..(Len(s) + 1) : Place(s, i) \in All
  BY <1>1, <1>2, <1>3, ElementFacts
<1>5. ASSUME Once(s), NEW i \in 0..(Len(s) + 1), NEW j \in 0..(Len(s) + 1), Place(s, i) = Place(s, j)
      PROVE  i = j
  BY <1>1, <1>2, <1>3, <1>5, ElementFacts DEF Once
<1> QED
  BY <1>1, <1>2, <1>4, <1>5

LEMMA DroppedFacts ==
  ASSUME NEW s \in Seq(Elements), Once(s), NEW m \in 1..Len(s)
  PROVE  /\ Dropped(s, m) \in Seq(Elements) /\ Len(Dropped(s, m)) = Len(s) - 1
         /\ Once(Dropped(s, m))
         /\ Held(Dropped(s, m)) = Held(s) \ {s[m]}
         /\ \A i \in 0..Len(s) : Place(Dropped(s, m), i) = Place(s, IF i < m THEN i ELSE i + 1)
<1> DEFINE r == Dropped(s, m)
<1>0. Len(s) \in Nat /\ Len(s) - 1 \in Nat /\ m \in Nat /\ m >= 1 /\ m <= Len(s)
  OBVIOUS
<1>1. \A i \in 1..(Len(s) - 1) : (IF i < m THEN s[i] ELSE s[i + 1]) \in Elements
  <2>1. \A i \in 1..(Len(s) - 1) : i \in 1..Len(s) /\ i + 1 \in 1..Len(s)
    BY <1>0
  <2> QED
    BY <2>1
<1>2. /\ r \in Seq(Elements) /\ Len(r) = Len(s) - 1
      /\ \A i \in 1..(Len(s) - 1) : r[i] = IF i < m THEN s[i] ELSE s[i + 1]
  BY <1>0, <1>1 DEF Dropped
<1> HIDE DEF r
<1>3. Once(r)
  <2> SUFFICES ASSUME NEW i \in 1..(Len(s) - 1), NEW j \in 1..(Len(s) - 1), r[i] = r[j]
               PROVE  i = j
    BY <1>2 DEF Once
  <2>1. PICK a : a = IF i < m THEN i ELSE i + 1
    OBVIOUS
  <2>2. PICK b : b = IF j < m THEN j ELSE j + 1
    OBVIOUS
  <2>3. a \in 1..Len(s) /\ b \in 1..Len(s) /\ (a = b => i = j)
    BY <1>0, <2>1, <2>2
  <2>4. r[i] = s[a] /\ r[j] = s[b]
    BY <1>2, <2>1, <2>2
  <2> QED
    BY <2>3, <2>4 DEF Once
<1>4. Held(r) = Held(s) \ {s[m]}
  <2>1. ASSUME NEW i \in 1..(Len(s) - 1)
        PROVE  r[i] \in Held(s) \ {s[m]}
    <3>1. PICK a : a = IF i < m THEN i ELSE i + 1
      OBVIOUS
    <3>2. a \in 1..Len(s) /\ a # m
      BY <1>0, <3>1
    <3>3. r[i] = s[a]
      BY <1>2, <3>1
    <3> QED
      BY <3>2, <3>3 DEF Once, Held
  <2>2. ASSUME NEW j \in 1..Len(s), s[j] # s[m]
        PROVE  s[j] \in Held(r)
    <3>1. CASE j < m
      <4>1. j \in 1..(Len(s) - 1)
        BY <1>0, <3>1
      <4> QED
        BY <1>2, <3>1, <4>1 DEF Held
    <3>2. CASE ~(j < m)
      <4>1. j # m /\ j - 1 \in 1..(Len(s) - 1) /\ ~(j - 1 < m) /\ (j - 1) + 1 = j
        BY <1>0, <2>2, <3>2
      <4>2. r[j - 1] = s[j]
        BY <1>2, <4>1
      <4> QED
        BY <1>2, <4>1, <4>2 DEF Held
    <3> QED
      BY <3>1, <3>2
  <2> QED
    BY <1>2, <2>1, <2>2 DEF Held
<1>5. ASSUME NEW i \in 0..Len(s)
      PROVE  Place(r, i) = Place(s, IF i < m THEN i ELSE i + 1)
  <2>1. CASE i = 0
    BY <1>0, <2>1 DEF Place
  <2>2. CASE i = Len(s)
    BY <1>0, <1>2, <2>2 DEF Place
  <2>3. CASE i \in 1..(Len(s) - 1)
    <3>1. Place(r, i) = r[i]
      BY <1>0, <1>2, <2>3 DEF Place
    <3>2. Place(s, IF i < m THEN i ELSE i + 1) = IF i < m THEN s[i] ELSE s[i + 1]
      BY <1>0, <2>3 DEF Place
    <3> QED
      BY <1>2, <2>3, <3>1, <3>2
  <2> QED
    BY <1>0, <2>1, <2>2, <2>3
<1> QED
  BY <1>2, <1>3, <1>4, <1>5 DEF r

LEMMA FirstFacts ==
  ASSUME NEW s \in Seq(Elements), Once(s), NEW e \in Elements, e \notin Held(s)
  PROVE  /\ First(e, s) \in Seq(Elements) /\ Len(First(e, s)) = Len(s) + 1
         /\ Once(First(e, s))
         /\ Held(First(e, s)) = Held(s) \cup {e}
         /\ \A i \in 1..(Len(s) + 2) : Place(First(e, s), i) = IF i = 1 THEN e ELSE Place(s, i - 1)
<1> DEFINE r == First(e, s)
<1>0. Len(s) \in Nat
  OBVIOUS
<1>1. \A i \in 1..(Len(s) + 1) : i # 1 => i - 1 \in 1..Len(s)
  BY <1>0
<1>2. \A i \in 1..(Len(s) + 1) : (IF i = 1 THEN e ELSE s[i - 1]) \in Elements
  BY <1>1
<1>3. /\ r \in Seq(Elements) /\ Len(r) = Len(s) + 1
      /\ \A i \in 1..(Len(s) + 1) : r[i] = IF i = 1 THEN e ELSE s[i - 1]
  BY <1>0, <1>2 DEF First
<1> HIDE DEF r
<1>4. Once(r)
  <2> SUFFICES ASSUME NEW i \in 1..(Len(s) + 1), NEW j \in 1..(Len(s) + 1), r[i] = r[j]
               PROVE  i = j
    BY <1>3 DEF Once
  <2>1. CASE i = 1 \/ j = 1
    BY <1>1, <1>3, <2>1 DEF Held
  <2>2. CASE i # 1 /\ j # 1
    <3>0. i - 1 \in 1..Len(s) /\ j - 1 \in 1..Len(s) /\ s[i - 1] = s[j - 1]
      BY <1>1, <1>3, <2>2
    <3>1. i - 1 = j - 1
      BY <3>0 DEF Once
    <3> QED
      BY <1>0, <3>1
  <2> QED
    BY <2>1, <2>2
<1>5. Held(r) = Held(s) \cup {e}
  <2>1. \A i \in 1..(Len(s) + 1) : r[i] \in Held(s) \cup {e}
    BY <1>1, <1>3 DEF Held
  <2>2. ASSUME NEW j \in 1..Len(s)
        PROVE  s[j] \in Held(r)
    <3>1. j + 1 \in 1..(Len(s) + 1) /\ j + 1 # 1 /\ (j + 1) - 1 = j
      BY <1>0
    <3> QED
      BY <1>3, <3>1 DEF Held
  <2>3. e \in Held(r)
    <3>1. 1 \in 1..(Len(s) + 1)
      BY <1>0
    <3> QED
      BY <1>3, <3>1 DEF Held
  <2> QED
    BY <1>3, <2>1, <2>2, <2>3 DEF Held
<1>6. ASSUME NEW i \in 1..(Len(s) + 2)
      PROVE  Place(r, i) = IF i = 1 THEN e ELSE Place(s, i - 1)
  <2>1. CASE i \in 1..(Len(s) + 1)
    <3>1. Place(r, i) = r[i]
      BY <1>0, <1>3, <2>1 DEF Place
    <3>2. i # 1 => Place(s, i - 1) = s[i - 1]
      BY <1>0, <2>1 DEF Place
    <3> QED
      BY <1>3, <2>1, <3>1, <3>2
  <2>2. CASE i = Len(s) + 2
    BY <1>0, <1>3, <2>2 DEF Place
  <2> QED
    BY <1>0, <2>1, <2>2
<1> QED
  BY <1>3, <1>4, <1>5, <1>6 DEF r

-----------------------------------------------------------------------------
(* What relinking does to the lists                                        *)

LEMMA NextTypes ==
  ASSUME NEW nx \in [All -> All \cup {NONE}], NEW e \in All, NEW d \in All, NEW x \in All \cup {NONE}
  PROVE  /\ [nx EXCEPT ![d] = x] \in [All -> All \cup {NONE}]
         /\ [nx EXCEPT ![d] = x][e] = IF e = d THEN x ELSE nx[e]
OBVIOUS

\* The m-th element is taken out: NextWithout, PrevWithout.
NextDrop(nx, pv, e) == [nx EXCEPT ![pv[e]] = nx[e]]
PrevDrop(nx, pv, e) == [pv EXCEPT ![nx[e]] = pv[e]]

LEMMA DropLinks ==
  ASSUME NEW s \in Seq(Elements), Once(s), NEW m \in 1..Len(s),
         NEW nx \in [All -> All \cup {NONE}], NEW pv \in [All -> All \cup {NONE}], Chain(nx, pv, s)
  PROVE  LET n2 == NextDrop(nx, pv, s[m])
             p2 == PrevDrop(nx, pv, s[m])
         IN  /\ n2 \in [All -> All \cup {NONE}] /\ p2 \in [All -> All \cup {NONE}]
             /\ Chain(n2, p2, Dropped(s, m))
             /\ \A e \in All : e # Header /\ e \notin Held(s) => n2[e] = nx[e]
<1> DEFINE L == Len(s)
           n2 == NextDrop(nx, pv, s[m])
           p2 == PrevDrop(nx, pv, s[m])
<1>0. L \in Nat /\ m - 1 \in 0..L /\ m \in 0..L /\ m + 1 \in 0..(L + 1) /\ m - 1 + 1 = m
  OBVIOUS
<1>p. /\ \A i \in 1..L : Place(s, i) = s[i] /\ s[i] \in Elements
      /\ \A i \in 0..(L + 1) : Place(s, i) \in All
      /\ \A i, j \in 0..(L + 1) : Place(s, i) = Place(s, j) => i = j
      /\ Place(s, 0) = Header
  BY PlaceFacts
<1>1. /\ s[m] = Place(s, m) /\ nx[s[m]] = Place(s, m + 1) /\ pv[s[m]] = Place(s, m - 1)
      /\ Place(s, m - 1) \in All /\ Place(s, m + 1) \in All
  <2>1. pv[Place(s, (m - 1) + 1)] = Place(s, m - 1)
    BY <1>0 DEF Chain
  <2>2. nx[Place(s, m)] = Place(s, m + 1)
    BY <1>0 DEF Chain
  <2>3. m - 1 \in 0..(L + 1)
    BY <1>0
  <2> QED
    BY <1>0, <1>p, <2>1, <2>2, <2>3
<1>2. /\ n2 = [nx EXCEPT ![Place(s, m - 1)] = Place(s, m + 1)]
      /\ p2 = [pv EXCEPT ![Place(s, m + 1)] = Place(s, m - 1)]
  BY <1>1 DEF NextDrop, PrevDrop
<1> HIDE DEF n2, p2
<1>3. n2 \in [All -> All \cup {NONE}] /\ p2 \in [All -> All \cup {NONE}]
  BY <1>1, <1>2
<1>4. ASSUME NEW i \in 0..L, i # m - 1
      PROVE  n2[Place(s, i)] = Place(s, i + 1)
  <2>1. Place(s, i) # Place(s, m - 1) /\ Place(s, i) \in All
    <3>1. i \in 0..(L + 1) /\ m - 1 \in 0..(L + 1)
      BY <1>0
    <3> QED
      BY <1>4, <1>p, <3>1
  <2> QED
    BY <1>2, <2>1 DEF Chain
<1>5. ASSUME NEW i \in 0..L, i # m
      PROVE  p2[Place(s, i + 1)] = Place(s, i)
  <2>1. Place(s, i + 1) # Place(s, m + 1) /\ Place(s, i + 1) \in All
    <3>1. i + 1 \in 0..(L + 1) /\ m + 1 \in 0..(L + 1) /\ i + 1 # m + 1
      BY <1>0, <1>5
    <3> QED
      BY <1>p, <3>1
  <2> QED
    BY <1>2, <2>1 DEF Chain
<1>6. n2[Place(s, m - 1)] = Place(s, m + 1) /\ p2[Place(s, m + 1)] = Place(s, m - 1)
  BY <1>1, <1>2
<1>7. Chain(n2, p2, Dropped(s, m))
  <2>1. /\ Len(Dropped(s, m)) = L - 1
        /\ \A i \in 0..L : Place(Dropped(s, m), i) = Place(s, IF i < m THEN i ELSE i + 1)
    BY DroppedFacts
  <2> SUFFICES ASSUME NEW i \in 0..(L - 1)
               PROVE  /\ n2[Place(Dropped(s, m), i)] = Place(Dropped(s, m), i + 1)
                      /\ p2[Place(Dropped(s, m), i + 1)] = Place(Dropped(s, m), i)
    BY <2>1 DEF Chain
  <2>2. i \in 0..L /\ i + 1 \in 0..L
    BY <1>0
  <2>3. CASE i + 1 < m
    <3>1. Place(Dropped(s, m), i) = Place(s, i) /\ Place(Dropped(s, m), i + 1) = Place(s, i + 1)
      BY <1>0, <2>1, <2>2, <2>3
    <3>2. i # m - 1 /\ i # m
      BY <1>0, <2>3
    <3> QED
      BY <1>4, <1>5, <2>2, <3>1, <3>2
  <2>4. CASE i + 1 = m
    <3>1. Place(Dropped(s, m), i) = Place(s, m - 1) /\ Place(Dropped(s, m), i + 1) = Place(s, m + 1)
      <4>1. i < m /\ ~(i + 1 < m) /\ i = m - 1
        BY <1>0, <2>4
      <4> QED
        BY <2>1, <2>2, <2>4, <4>1
    <3> QED
      BY <1>6, <3>1
  <2>5. CASE i + 1 > m
    <3>1. /\ Place(Dropped(s, m), i) = Place(s, i + 1)
          /\ Place(Dropped(s, m), i + 1) = Place(s, (i + 1) + 1)
      <4>1. ~(i < m) /\ ~(i + 1 < m)
        BY <1>0, <2>5
      <4> QED
        BY <2>1, <2>2, <4>1
    <3>2. i + 1 # m - 1 /\ i + 1 # m
      BY <1>0, <2>5
    <3> QED
      BY <1>4, <1>5, <2>2, <3>1, <3>2
  <2> QED
    BY <1>0, <2>3, <2>4, <2>5
<1>8. ASSUME NEW e \in All, e # Header, e \notin Held(s)
      PROVE  n2[e] = nx[e]
  <2>1. Place(s, m - 1) = Header \/ Place(s, m - 1) \in Held(s)
    <3>1. m - 1 = 0 \/ m - 1 \in 1..L
      BY <1>0
    <3> QED
      BY <1>p, <3>1 DEF Held
  <2> QED
    BY <1>2, <1>8, <2>1
<1> QED
  BY <1>3, <1>7, <1>8 DEF n2, p2

\* An element is put behind the header: NextWithFirst, PrevWithFirst.
LEMMA FirstLinks ==
  ASSUME NEW s \in Seq(Elements), Once(s), NEW e \in Elements, e \notin Held(s),
         NEW nx \in [All -> All \cup {NONE}], NEW pv \in [All -> All \cup {NONE}], Chain(nx, pv, s)
  PROVE  /\ NextWithFirst(nx, e) \in [All -> All \cup {NONE}]
         /\ PrevWithFirst(nx, pv, e) \in [All -> All \cup {NONE}]
         /\ Chain(NextWithFirst(nx, e), PrevWithFirst(nx, pv, e), First(e, s))
         /\ \A d \in All : d # Header /\ d # e => NextWithFirst(nx, e)[d] = nx[d]
<1> DEFINE L == Len(s)
           n2 == NextWithFirst(nx, e)
           p2 == PrevWithFirst(nx, pv, e)
<1>0. L \in Nat
  OBVIOUS
<1>e. e \in All /\ Header \in All /\ e # Header /\ e # Tail_ /\ e # NONE
  BY ElementFacts
<1>p. /\ \A i \in 1..L : Place(s, i) = s[i] /\ s[i] \in Elements
      /\ \A i \in 0..(L + 1) : Place(s, i) \in All
      /\ \A i, j \in 0..(L + 1) : Place(s, i) = Place(s, j) => i = j
      /\ Place(s, 0) = Header /\ Place(s, L + 1) = Tail_
  BY PlaceFacts
<1>1. nx[Header] = Place(s, 1) /\ Place(s, 1) \in All
  <2>1. nx[Place(s, 0)] = Place(s, 0 + 1)
    BY <1>0 DEF Chain
  <2> QED
    BY <1>0, <1>p, <2>1
<1>n. \A i \in 0..(L + 1) : Place(s, i) # e
  <2>1. \A i \in 0..(L + 1) : i = 0 \/ i = L + 1 \/ i \in 1..L
    BY <1>0
  <2> QED
    BY <1>e, <1>p, <2>1 DEF Held
<1>2. n2 = [nx EXCEPT ![e] = Place(s, 1), ![Header] = e]
      /\ p2 = [pv EXCEPT ![Place(s, 1)] = e, ![e] = Header]
  BY <1>1 DEF NextWithFirst, PrevWithFirst
<1> HIDE DEF n2, p2
<1>3. n2 \in [All -> All \cup {NONE}] /\ p2 \in [All -> All \cup {NONE}]
  BY <1>1, <1>2, <1>e
<1>4. n2[e] = Place(s, 1) /\ n2[Header] = e /\ \A d \in All : d # Header /\ d # e => n2[d] = nx[d]
  BY <1>2, <1>e
<1>5. /\ p2[e] = Header /\ p2[Place(s, 1)] = e
      /\ \A d \in All : d # e /\ d # Place(s, 1) => p2[d] = pv[d]
  <2>1. Place(s, 1) # e
    <3>1. 1 \in 0..(L + 1)
      BY <1>0
    <3> QED
      BY <1>n, <3>1
  <2> QED
    BY <1>1, <1>2, <1>e, <2>1
<1>6. Chain(n2, p2, First(e, s))
  <2>1. /\ Len(First(e, s)) = L + 1
        /\ \A i \in 1..(L + 2) : Place(First(e, s), i) = IF i = 1 THEN e ELSE Place(s, i - 1)
    BY FirstFacts
  <2>0. Place(First(e, s), 0) = Header
    BY DEF Place
  <2> SUFFICES ASSUME NEW i \in 0..(L + 1)
               PROVE  /\ n2[Place(First(e, s), i)] = Place(First(e, s), i + 1)
                      /\ p2[Place(First(e, s), i + 1)] = Place(First(e, s), i)
    BY <2>1 DEF Chain
  <2>2. CASE i = 0
    <3>1. Place(First(e, s), i + 1) = e
      BY <1>0, <2>1, <2>2
    <3> QED
      BY <1>4, <1>5, <2>0, <2>2, <3>1
  <2>3. CASE i = 1
    <3>1. Place(First(e, s), i) = e /\ Place(First(e, s), i + 1) = Place(s, 1)
      <4>1. i \in 1..(L + 2) /\ i + 1 \in 1..(L + 2) /\ i + 1 # 1 /\ (i + 1) - 1 = 1
        BY <1>0, <2>3
      <4> QED
        BY <2>1, <2>3, <4>1
    <3> QED
      BY <1>4, <1>5, <3>1
  <2>4. CASE i > 1
    <3>1. Place(First(e, s), i) = Place(s, i - 1) /\ Place(First(e, s), i + 1) = Place(s, i)
      <4>1. i \in 1..(L + 2) /\ i + 1 \in 1..(L + 2) /\ i + 1 # 1 /\ (i + 1) - 1 = i /\ i # 1
        BY <1>0, <2>4
      <4> QED
        BY <2>1, <4>1
    <3>2. i - 1 \in 0..L /\ i - 1 \in 0..(L + 1) /\ i \in 0..(L + 1) /\ (i - 1) + 1 = i /\ i # 1
          /\ i - 1 # 0 /\ 1 \in 0..(L + 1) /\ 0 \in 0..(L + 1)
      BY <1>0, <2>4
    <3>3. nx[Place(s, i - 1)] = Place(s, i) /\ pv[Place(s, i)] = Place(s, i - 1)
      <4>1. nx[Place(s, i - 1)] = Place(s, (i - 1) + 1) /\ pv[Place(s, (i - 1) + 1)] = Place(s, i - 1)
        BY <3>2 DEF Chain
      <4> QED
        BY <3>2, <4>1
    <3>4. Place(s, i - 1) # Header /\ Place(s, i) # Place(s, 1)
      BY <1>p, <3>2
    <3> QED
      BY <1>4, <1>5, <1>n, <1>p, <3>1, <3>2, <3>3, <3>4
  <2> QED
    BY <1>0, <2>2, <2>3, <2>4
<1> QED
  BY <1>3, <1>4, <1>6 DEF n2, p2

\* A change elsewhere leaves a chain.
LEMMA ChainKept ==
  ASSUME NEW s \in Seq(Elements), NEW nx, NEW pv, NEW n2, NEW p2, Chain(nx, pv, s),
         \A e \in Held(s) \cup {Header} : n2[e] = nx[e],
         \A e \in Held(s) \cup {Tail_} : p2[e] = pv[e]
  PROVE  Chain(n2, p2, s)
<1>0. Len(s) \in Nat
  OBVIOUS
<1>1. \A i \in 0..Len(s) : Place(s, i) \in Held(s) \cup {Header}
  BY <1>0 DEF Place, Held
<1>2. \A i \in 0..Len(s) : Place(s, i + 1) \in Held(s) \cup {Tail_}
  BY <1>0 DEF Place, Held
<1> QED
  BY <1>1, <1>2 DEF Chain

LEMMA FreeChainKept ==
  ASSUME NEW f \in Seq(Elements), NEW nx, NEW n2, FreeChain(nx, f),
         \A e \in Held(f) \cup {FreeCtrl} : n2[e] = nx[e]
  PROVE  FreeChain(n2, f)
<1>0. Len(f) \in Nat
  OBVIOUS
<1>1. \A i \in 0..Len(f) : FreePlace(f, i) \in Held(f) \cup {FreeCtrl}
  BY <1>0 DEF FreePlace, Held
<1> QED
  BY <1>1 DEF FreeChain

\* The first free element is taken, and an element is freed.
Taken(nx, e) == [nx EXCEPT ![FreeCtrl] = nx[e]]
Given(nx, e) == [nx EXCEPT ![e] = nx[FreeCtrl], ![FreeCtrl] = e]

LEMMA TakeFree ==
  ASSUME NEW f \in Seq(Elements), Once(f), Len(f) # 0,
         NEW nx \in [All -> All \cup {NONE}], FreeChain(nx, f)
  PROVE  LET n2 == Taken(nx, f[1])
         IN  /\ nx[FreeCtrl] = f[1] /\ f[1] \in Elements
             /\ n2 \in [All -> All \cup {NONE}]
             /\ FreeChain(n2, Dropped(f, 1))
             /\ \A e \in All : e # FreeCtrl => n2[e] = nx[e]
<1> DEFINE n2 == Taken(nx, f[1])
<1>0. Len(f) \in Nat /\ 1 \in 1..Len(f) /\ 0 \in 0..Len(f)
  OBVIOUS
<1>1. f[1] \in Elements /\ f[1] \in All /\ FreeCtrl \in All
  BY <1>0, ElementFacts
<1>2. nx[FreeCtrl] = f[1]
  <2>1. nx[FreePlace(f, 0)] = FreePlace(f, 0 + 1)
    BY <1>0 DEF FreeChain
  <2> QED
    BY <1>0, <2>1 DEF FreePlace
<1>3. n2 \in [All -> All \cup {NONE}] /\ n2[FreeCtrl] = nx[f[1]]
      /\ \A e \in All : e # FreeCtrl => n2[e] = nx[e]
  BY <1>1 DEF Taken
<1> HIDE DEF n2
<1>4. PICK r : r = Dropped(f, 1)
  OBVIOUS
<1>5. r \in Seq(Elements) /\ Len(r) = Len(f) - 1
  BY <1>0, <1>4, DroppedFacts
<1>6. \A i \in 1..Len(f) : FreePlace(r, i) = FreePlace(f, i + 1)
  <2> SUFFICES ASSUME NEW i \in 1..Len(f)
               PROVE  FreePlace(r, i) = FreePlace(f, i + 1)
    OBVIOUS
  <2>1. CASE i = Len(f)
    BY <1>0, <1>5, <2>1 DEF FreePlace
  <2>2. CASE i # Len(f)
    <3>1. r[i] = f[i + 1]
      BY <1>0, <1>4, <2>2 DEF Dropped
    <3> QED
      BY <1>0, <1>5, <2>2, <3>1 DEF FreePlace
  <2> QED
    BY <2>1, <2>2
<1>7. FreeChain(n2, r)
  <2> SUFFICES ASSUME NEW i \in 0..(Len(f) - 1)
               PROVE  n2[FreePlace(r, i)] = FreePlace(r, i + 1)
    BY <1>5 DEF FreeChain
  <2>0. i + 1 \in 1..Len(f) /\ i + 1 \in 0..Len(f)
    BY <1>0
  <2>1. nx[FreePlace(f, i + 1)] = FreePlace(f, (i + 1) + 1)
    BY <2>0 DEF FreeChain
  <2>2. FreePlace(r, i + 1) = FreePlace(f, (i + 1) + 1)
    BY <1>6, <2>0
  <2>3. FreePlace(f, i + 1) = f[i + 1] /\ f[i + 1] \in Elements
    BY <1>0, <2>0 DEF FreePlace
  <2>4. CASE i = 0
    BY <1>3, <2>1, <2>2, <2>3, <2>4 DEF FreePlace
  <2>5. CASE i # 0
    <3>1. FreePlace(r, i) = FreePlace(f, i + 1)
      BY <1>0, <1>6, <2>5
    <3>2. f[i + 1] \in All /\ f[i + 1] # FreeCtrl
      BY <2>3, ElementFacts
    <3> QED
      BY <1>3, <2>1, <2>2, <2>3, <3>1, <3>2
  <2> QED
    BY <2>4, <2>5
<1> QED
  BY <1>1, <1>2, <1>3, <1>4, <1>7 DEF n2

LEMMA GiveFree ==
  ASSUME NEW f \in Seq(Elements), Once(f), NEW e \in Elements, e \notin Held(f),
         NEW nx \in [All -> All \cup {NONE}], FreeChain(nx, f)
  PROVE  LET n2 == Given(nx, e)
         IN  /\ n2 \in [All -> All \cup {NONE}]
             /\ FreeChain(n2, First(e, f))
             /\ \A d \in All : d # FreeCtrl /\ d # e => n2[d] = nx[d]
<1> DEFINE n2 == Given(nx, e)
<1>0. Len(f) \in Nat /\ 0 \in 0..Len(f)
  OBVIOUS
<1>1. e \in All /\ FreeCtrl \in All /\ e # FreeCtrl
  BY ElementFacts
<1>2. nx[FreeCtrl] = FreePlace(f, 1)
  <2>1. nx[FreePlace(f, 0)] = FreePlace(f, 0 + 1)
    BY <1>0 DEF FreeChain
  <2> QED
    BY <1>0, <2>1 DEF FreePlace
<1>3. n2 \in [All -> All \cup {NONE}] /\ n2[FreeCtrl] = e /\ n2[e] = FreePlace(f, 1)
      /\ \A d \in All : d # FreeCtrl /\ d # e => n2[d] = nx[d]
  BY <1>1, <1>2 DEF Given
<1> HIDE DEF n2
<1>4. PICK r : r = First(e, f)
  OBVIOUS
<1>5. r \in Seq(Elements) /\ Len(r) = Len(f) + 1
  BY <1>4, FirstFacts
<1>6. \A i \in 1..(Len(f) + 2) : FreePlace(r, i) = IF i = 1 THEN e ELSE FreePlace(f, i - 1)
  <2> SUFFICES ASSUME NEW i \in 1..(Len(f) + 2)
               PROVE  FreePlace(r, i) = IF i = 1 THEN e ELSE FreePlace(f, i - 1)
    OBVIOUS
  <2>1. CASE i = Len(f) + 2
    BY <1>0, <1>5, <2>1 DEF FreePlace
  <2>2. CASE i # Len(f) + 2
    <3>1. r[i] = IF i = 1 THEN e ELSE f[i - 1]
      BY <1>0, <1>4, <2>2 DEF First
    <3> QED
      BY <1>0, <1>5, <2>2, <3>1 DEF FreePlace
  <2> QED
    BY <2>1, <2>2
<1>7. FreeChain(n2, r)
  <2> SUFFICES ASSUME NEW i \in 0..(Len(f) + 1)
               PROVE  n2[FreePlace(r, i)] = FreePlace(r, i + 1)
    BY <1>5 DEF FreeChain
  <2>0. i + 1 \in 1..(Len(f) + 2)
    BY <1>0
  <2>1. CASE i = 0
    <3>1. FreePlace(r, i) = FreeCtrl
      BY <2>1 DEF FreePlace
    <3> QED
      BY <1>3, <1>6, <2>0, <2>1, <3>1
  <2>2. CASE i = 1
    <3>1. FreePlace(r, i) = e
      BY <1>0, <1>6, <2>2
    <3>2. FreePlace(r, i + 1) = FreePlace(f, 1)
      <4>1. i + 1 # 1 /\ (i + 1) - 1 = 1
        BY <2>2
      <4> QED
        BY <1>6, <2>0, <4>1
    <3> QED
      BY <1>3, <3>1, <3>2
  <2>3. CASE i > 1
    <3>1. i - 1 \in 1..Len(f) /\ i - 1 \in 0..Len(f) /\ i \in 1..(Len(f) + 2) /\ i # 1
          /\ i + 1 # 1 /\ (i + 1) - 1 = (i - 1) + 1
      BY <1>0, <2>3
    <3>2. FreePlace(r, i) = FreePlace(f, i - 1)
      BY <1>6, <3>1
    <3>3. FreePlace(r, i + 1) = FreePlace(f, (i - 1) + 1)
      BY <1>6, <2>0, <3>1
    <3>4. nx[FreePlace(f, i - 1)] = FreePlace(f, (i - 1) + 1)
      BY <3>1 DEF FreeChain
    <3>5. FreePlace(f, i - 1) = f[i - 1] /\ f[i - 1] \in Elements /\ f[i - 1] # e
      BY <1>0, <3>1 DEF FreePlace, Held
    <3>6. f[i - 1] \in All /\ f[i - 1] # FreeCtrl
      BY <3>5, ElementFacts
    <3> QED
      BY <1>3, <3>2, <3>3, <3>4, <3>5, <3>6
  <2> QED
    BY <1>0, <2>1, <2>2, <2>3
<1> QED
  BY <1>3, <1>4, <1>7 DEF n2

-----------------------------------------------------------------------------
(* One table                                                               *)

\* The keys of one of the two tables, over an even number of buckets.
OneTable == Count % 2 = 0 /\ \A k, l \in Keys : StoreSelector(k) = StoreSelector(l)

\* Then a look-up, which takes the selector from the bucket, finds the table that a
\* store took from the whole hash.
LEMMA SelectorsAgree ==
  ASSUME OneTable, NEW k \in Keys
  PROVE  LookupSelector(k) = StoreSelector(k)
<1>1. k \in Nat /\ Count \in Nat /\ Count >= 1 /\ Count % 2 = 0
  BY Sizes DEF OneTable
<1>2. PICK c \in Nat : Count = 2 * c
  BY <1>1
<1>3. PICK q \in Int, r \in 0..(Count - 1) : k = Count * q + r /\ r = k % Count
  BY <1>1, SMT
<1>4. Count * q = 2 * (q * c)
  BY <1>2
<1>5. PICK x \in Int : x = q * c
  OBVIOUS
<1>6. k = 2 * x + r
  BY <1>3, <1>4, <1>5
<1>7. k % 2 = r % 2
  BY <1>3, <1>6
<1> QED
  BY <1>3, <1>7 DEF LookupSelector, StoreSelector, Bucket

LEMMA CheckIsGet ==
  ASSUME OneTable, NEW k \in Keys
  PROVE  CheckForHash(k) = Get(k)
BY SelectorsAgree DEF CheckForHash

-----------------------------------------------------------------------------
(* The inductive invariant                                                 *)

\* An order without repetition has the length of its set, and fits in the region.
LEMMA OnceCounts ==
  ASSUME NEW s \in Seq(Elements), Once(s)
  PROVE  /\ IsFiniteSet(Held(s)) /\ Cardinality(Held(s)) = Len(s)
         /\ Len(s) <= M
<1> DEFINE S == Held(s)
<1>0. Len(s) \in Nat /\ M \in Nat
  BY ElementFacts
<1>1. IsFiniteSet(1..Len(s)) /\ Cardinality(1..Len(s)) = Len(s)
  BY <1>0, FS_Interval
<1>2. s \in Bijection(1..Len(s), S)
  <2>1. s \in [1..Len(s) -> S]
    BY DEF Held
  <2>2. \A i, j \in 1..Len(s) : s[i] = s[j] => i = j
    BY DEF Once
  <2>3. \A e \in S : \E i \in 1..Len(s) : s[i] = e
    BY DEF Held
  <2> HIDE DEF S
  <2> QED
    BY <2>1, <2>2, <2>3 DEF Bijection, Injection, Surjection, IsInjective
<1>3. IsFiniteSet(S) /\ Cardinality(S) = Len(s)
  <2>1. ExistsBijection(1..Len(s), S)
    BY <1>2 DEF ExistsBijection
  <2> HIDE DEF S
  <2> QED
    BY <1>1, <2>1, FS_Bijection
<1>4. IsFiniteSet(Elements) /\ Cardinality(Elements) = M
  <2>1. IsFiniteSet(3..(M + 2)) /\ Cardinality(3..(M + 2)) = IF 3 > M + 2 THEN 0 ELSE (M + 2) - 3 + 1
    BY <1>0, FS_Interval
  <2> QED
    BY <2>1, ElementFacts DEF Elements
<1>5. S \subseteq Elements
  BY DEF Held
<1>6. Cardinality(S) <= Cardinality(Elements)
  <2> HIDE DEF S
  <2> QED
    BY <1>4, <1>5, FS_Subset
<1> QED
  BY <1>3, <1>4, <1>6

LEMMA ListFacts ==
  ASSUME NEW s \in Orders, NEW f \in Orders, Lists(s, f)
  PROVE  /\ s \in Seq(Elements) /\ f \in Seq(Elements) /\ Len(s) \in 0..M /\ Len(f) \in 0..M
         /\ Chain(nxt, prv, s) /\ FreeChain(nxt, f) /\ Once(s) /\ Once(f)
         /\ Held(s) = Allocated
         /\ Held(f) = Elements \ Allocated
         /\ (prv[Tail_] = Header <=> Len(s) = 0)
         /\ nxt[FreeCtrl] = IF Len(f) = 0 THEN NONE ELSE f[1]
         /\ Len(s) # 0 => prv[Tail_] = s[Len(s)]
<1>1. s \in Seq(Elements) /\ f \in Seq(Elements) /\ Len(s) <= M /\ Len(f) <= M
  BY OrdersAre
<1>2. Len(s) \in 0..M /\ Len(f) \in 0..M /\ Len(s) \in 0..Len(s) /\ 0 \in 0..Len(f)
  BY <1>1, ElementFacts
<1>3. /\ Chain(nxt, prv, s) /\ FreeChain(nxt, f) /\ Once(s) /\ Once(f)
      /\ Held(s) = Allocated /\ Held(f) = Elements \ Allocated
  BY DEF Lists, Chain, FreeChain
<1>4. prv[Tail_] = Place(s, Len(s))
  BY <1>1, <1>2, <1>3, PlaceFacts DEF Chain
<1>5. Len(s) = 0 => Place(s, Len(s)) = Header
  BY DEF Place
<1>6. Len(s) # 0 => Place(s, Len(s)) = s[Len(s)] /\ s[Len(s)] \in Elements
  <2>1. Len(s) # 0 => Len(s) \in 1..Len(s)
    BY <1>2
  <2> QED
    BY <1>1, <2>1, PlaceFacts
<1>7. nxt[FreeCtrl] = IF Len(f) = 0 THEN NONE ELSE f[1]
  <2>1. nxt[FreePlace(f, 0)] = FreePlace(f, 0 + 1)
    BY <1>2, <1>3 DEF FreeChain
  <2> QED
    BY <1>2, <2>1 DEF FreePlace
<1> QED
  BY <1>1, <1>2, <1>3, <1>4, <1>5, <1>6, <1>7, ElementFacts

LEMMA TableKept ==
  ASSUME UNCHANGED <<H, V, cnt>>
  PROVE  /\ Stored' = Stored /\ (GetIsRight => GetIsRight')
         /\ UNCHANGED put => (TableInv => TableInv')
         /\ put' = Idle => (TableInv => TableInv')
<1>1. Occupied' = Occupied
  BY DEF Occupied
<1>2. Stored' = Stored
  BY <1>1 DEF Stored
<1>3. (BitsLeadHome => BitsLeadHome') /\ (ValuesAreReached => ValuesAreReached')
  BY DEF BitsLeadHome, ValuesAreReached, At
<1>4. \A h, i : At(h, i)' = At(h, i)
  BY DEF At
<1>5. GetIsRight => GetIsRight'
  <2>1. \A k : Matches(k)' = Matches(k)
    BY <1>4 DEF Matches
  <2>2. \A k : Get(k)' = Get(k)
    BY <1>4, <2>1 DEF Get
  <2> QED
    BY <1>2, <2>2 DEF GetIsRight
<1>6. UNCHANGED put => (TableInv => TableInv')
  BY <1>1, <1>2, <1>3, <1>4 DEF TableInv
<1>7. put' = Idle => (TableInv => TableInv')
  BY <1>1, <1>2, <1>3 DEF TableInv
<1> QED
  BY <1>2, <1>5, <1>6, <1>7

\* A key that is looked up leads to the element that carries it.
LEMMA HeldElement ==
  ASSUME OneTable, ALTypeOK, TableInv, TableIsList, NEW k \in Keys
  PROVE  /\ CheckForHash(k) = Get(k)
         /\ Get(k) # 0 => Get(k) \in Allocated /\ hash[Get(k)] = k /\ Value(k, Get(k)) \in Stored
         /\ Get(k) = 0 => \A v \in Stored : v.key # k
<1>1. GetIsRight
  BY GetFinds
<1>2. CheckForHash(k) = Get(k)
  BY CheckIsGet
<1>3. ASSUME NEW v \in Stored, v.key = k
      PROVE  /\ Get(k) = v.off /\ v.off # 0 /\ v.off \in Allocated /\ hash[v.off] = k
             /\ Value(k, v.off) \in Stored
  BY <1>1, <1>3 DEF GetIsRight, TableInv, TableIsList
<1>4. (\A v \in Stored : v.key # k) => Get(k) = 0
  BY <1>1 DEF GetIsRight
<1> QED
  BY <1>2, <1>3, <1>4

-----------------------------------------------------------------------------
(* Each call keeps it, with the lists it leaves                            *)

\* The three control elements start linked to each other, every element free.
LEMMA InitLists ==
  ASSUME ALInit
  PROVE  ALInv
<1> DEFINE f == [i \in 1..M |-> i + 2]
<1>0. M \in Nat /\ M >= 1
  BY ElementFacts
<1>1. \A i \in 1..M : i + 2 \in Elements
  BY <1>0 DEF Elements
<1>2. f \in Seq(Elements) /\ Len(f) = M /\ \A i \in 1..M : f[i] = i + 2
  BY <1>0, <1>1
<1> HIDE DEF f
<1>3. << >> \in Orders /\ f \in Orders
  <2>1. << >> \in Seq(Elements) /\ Len(<< >>) = 0
    OBVIOUS
  <2>2. Len(f) <= M /\ 0 <= M
    BY <1>0, <1>2
  <2> QED
    BY <1>2, <2>1, <2>2, OrdersAre
<1>4. Allocated = {}
  BY ElementFacts DEF ALInit, Allocated
<1>5. Occupied = {} /\ Stored = {}
  BY DEF ALInit, HHInit, Occupied, Stored
<1>6. TableInv
  BY <1>5, FS_EmptySet DEF TableInv, ALInit, HHInit, BitsLeadHome, ValuesAreReached
<1>7. TableIsList
  BY <1>4, <1>5 DEF TableIsList
<1>8. ALTypeOK
  <2>1. /\ H \in [Positions -> SUBSET (0..(K - 1))]
        /\ V \in [Positions -> [key : Keys \cup {0}, off : Elements \cup {0}]]
        /\ cnt \in 0..N
        /\ put \in [key : Keys \cup {0}, off : Elements \cup {0}, d : 0..(N - 1)]
    BY Sizes DEF ALInit, HHInit, Empty, Value, Idle
  <2>2. nxt \in [All -> All \cup {NONE}]
    <3>1. \A e \in All : (CASE e = Header -> Tail_ [] e = Tail_ -> NONE [] e = M + 2 -> NONE
                            [] OTHER -> e + 1) \in All \cup {NONE}
      BY <1>0 DEF All, Header, Tail_, NONE
    <3> QED
      BY <3>1 DEF ALInit
  <2>3. prv \in [All -> All \cup {NONE}] /\ hash \in [All -> Keys \cup {NoHash}]
    BY ElementFacts DEF ALInit
  <2>4. evict \in 0..MaxEvict
    BY <1>0, RegionSize DEF ALInit
  <2> QED
    BY <2>1, <2>2, <2>3, <2>4 DEF ALTypeOK
<1>9. Lists(<< >>, f)
  <2>1. Len(<< >>) = 0 /\ Once(<< >>) /\ {<< >>[i] : i \in 1..Len(<< >>)} = Allocated
    BY <1>4 DEF Once
  <2>2. Once(f)
    BY <1>0, <1>2 DEF Once
  <2>3. Held(f) = Elements \ Allocated
    <3>1. ASSUME NEW e \in Elements
          PROVE  \E i \in 1..M : f[i] = e
      <4>1. e - 2 \in 1..M /\ (e - 2) + 2 = e
        BY <1>0 DEF Elements
      <4> QED
        BY <1>2, <4>1
    <3> QED
      BY <1>1, <1>2, <1>4, <3>1 DEF Held
  <2>4. \A i \in 0..0 : /\ nxt[Place(<< >>, i)] = Place(<< >>, i + 1)
                        /\ prv[Place(<< >>, i + 1)] = Place(<< >>, i)
    BY <1>0 DEF ALInit, Place, Header, Tail_, All, NONE
  <2>5. ASSUME NEW i \in 0..M
        PROVE  nxt[FreePlace(f, i)] = FreePlace(f, i + 1)
    <3>0. \A e \in 2..(M + 2) : nxt[e] = IF e = M + 2 THEN NONE ELSE e + 1
      BY <1>0 DEF ALInit, Header, Tail_, All
    <3>1. FreePlace(f, i) = i + 2
      BY <1>0, <1>2 DEF FreePlace, FreeCtrl
    <3>2. FreePlace(f, i + 1) = IF i = M THEN NONE ELSE i + 3
      BY <1>0, <1>2 DEF FreePlace
    <3> QED
      BY <1>0, <3>0, <3>1, <3>2
  <2>6. evict = 0 /\ put = Idle
    BY DEF ALInit, HHInit
  <2> QED
    BY <1>2, <2>1, <2>2, <2>3, <2>4, <2>5, <2>6 DEF Lists, Held
<1> QED
  BY <1>3, <1>6, <1>7, <1>8, <1>9 DEF ALInv

\* What a step must leave for s and f to be its lists.
Ready(s, f) == ALTypeOK /\ TableInv /\ TableIsList /\ s \in Orders /\ f \in Orders /\ Lists(s, f)

\* touch: update_el, get_el.
LEMMA UseKeyKeeps ==
  ASSUME OneTable, NEW s \in Orders, NEW f \in Orders, Ready(s, f), NEW k \in Keys, UseKey(k)
  PROVE  \E m \in 1..Len(s), r \in Orders :
            /\ r = First(s[m], Dropped(s, m)) /\ Len(r) = Len(s)
            /\ ALTypeOK' /\ TableInv' /\ TableIsList' /\ Lists(r, f)'
<1>t. ALTypeOK /\ TableInv /\ TableIsList /\ Lists(s, f)
  BY DEF Ready
<1>s. /\ s \in Seq(Elements) /\ f \in Seq(Elements) /\ Len(s) \in 0..M /\ Len(f) \in 0..M
      /\ Chain(nxt, prv, s) /\ FreeChain(nxt, f) /\ Once(s) /\ Once(f)
      /\ Held(s) = Allocated
      /\ Held(f) = Elements \ Allocated
  BY <1>t, ListFacts
<1>0. nxt \in [All -> All \cup {NONE}] /\ prv \in [All -> All \cup {NONE}]
  BY <1>t DEF ALTypeOK
<1>1. PICK e \in Allocated : e = CheckForHash(k)
  BY <1>t, HeldElement DEF UseKey
<1>2. PICK m \in 1..Len(s) : e = s[m]
  BY <1>1, <1>s DEF Held
<1>3. /\ nxt' = NextWithFirst(NextWithout(e), e)
      /\ prv' = PrevWithFirst(NextWithout(e), PrevWithout(e), e)
      /\ UNCHANGED <<H, V, cnt, put, hash, evict>>
  BY <1>1 DEF UseKey, Touch, tableVars
<1>4. PICK d : d = Dropped(s, m)
  OBVIOUS
<1>5. /\ d \in Seq(Elements) /\ Len(d) = Len(s) - 1 /\ Once(d)
      /\ Held(d) = Allocated \ {e}
  <2>1. /\ d \in Seq(Elements) /\ Len(d) = Len(s) - 1 /\ Once(d)
        /\ Held(d) = Held(s) \ {s[m]}
    BY <1>s, <1>4, DroppedFacts
  <2> QED
    BY <1>s, <1>2, <2>1
<1>6. /\ NextWithout(e) \in [All -> All \cup {NONE}] /\ PrevWithout(e) \in [All -> All \cup {NONE}]
      /\ Chain(NextWithout(e), PrevWithout(e), d)
      /\ \A x \in All : x # Header /\ x \notin Allocated => NextWithout(e)[x] = nxt[x]
  <2>1. /\ NextWithout(s[m]) \in [All -> All \cup {NONE}]
        /\ PrevWithout(s[m]) \in [All -> All \cup {NONE}]
        /\ Chain(NextWithout(s[m]), PrevWithout(s[m]), Dropped(s, m))
        /\ \A x \in All : x # Header /\ x \notin Held(s) =>
             NextWithout(s[m])[x] = nxt[x]
    <3>1. NextWithout(s[m]) = NextDrop(nxt, prv, s[m]) /\ PrevWithout(s[m]) = PrevDrop(nxt, prv, s[m])
      BY DEF NextWithout, PrevWithout, NextDrop, PrevDrop
    <3> QED
      BY <1>0, <1>s, <3>1, DropLinks
  <2> QED
    BY <1>s, <1>2, <1>4, <2>1
<1>7. e \in Elements
  BY DEF Allocated
<1>8. PICK r : r = First(e, d)
  OBVIOUS
<1>9. /\ r \in Seq(Elements) /\ Len(r) = Len(s) /\ Once(r)
      /\ Held(r) = Allocated
  <2>0. e \notin Held(d)
    BY <1>5
  <2>1. /\ r \in Seq(Elements) /\ Len(r) = Len(d) + 1 /\ Once(r)
        /\ Held(r) = Held(d) \cup {e}
    BY <1>5, <1>7, <1>8, <2>0, FirstFacts
  <2>2. Len(r) = Len(s)
    BY <1>s, <1>5, <2>1
  <2> QED
    BY <1>1, <1>5, <2>1, <2>2
<1>10. /\ nxt' \in [All -> All \cup {NONE}] /\ prv' \in [All -> All \cup {NONE}]
       /\ Chain(nxt', prv', r)
       /\ \A x \in All : x # Header /\ x \notin Allocated => nxt'[x] = nxt[x]
  BY <1>1, <1>3, <1>5, <1>6, <1>7, <1>8, FirstLinks
<1>11. FreeChain(nxt', f)
  <2>1. \A x \in Held(f) \cup {FreeCtrl} : x \in All /\ x # Header /\ x \notin Allocated
    BY <1>s, ElementFacts DEF Allocated
  <2> QED
    BY <1>s, <1>10, <2>1, FreeChainKept
<1>12. Allocated' = Allocated
  BY <1>3 DEF Allocated
<1>13. TableInv' /\ Stored' = Stored
  BY <1>t, <1>3, TableKept
<1>14. TableIsList'
  BY <1>t, <1>3, <1>12, <1>13 DEF TableIsList
<1>15. ALTypeOK'
  BY <1>t, <1>3, <1>10 DEF ALTypeOK
<1>16. r \in Orders
  BY <1>s, <1>9, OrdersAre
<1>17. Lists(r, f)'
  <2>1. \A i \in 0..Len(r) : /\ nxt'[Place(r, i)] = Place(r, i + 1)
                             /\ prv'[Place(r, i + 1)] = Place(r, i)
    BY <1>10 DEF Chain
  <2>2. \A i \in 0..Len(f) : nxt'[FreePlace(f, i)] = FreePlace(f, i + 1)
    BY <1>11 DEF FreeChain
  <2>3. /\ evict' > 0 => put' = Idle /\ Len(r) # 0
        /\ put' # Idle => Len(f) # 0 /\ put'.off = f[1]
    BY <1>t, <1>3, <1>9 DEF Lists
  <2>4. Once(r) /\ Held(r) = Allocated' /\ Once(f) /\ Held(f) = Elements \ Allocated'
    BY <1>s, <1>9, <1>12
  <2> QED
    BY <2>1, <2>2, <2>3, <2>4 DEF Lists
<1> QED
  BY <1>2, <1>4, <1>8, <1>9, <1>13, <1>14, <1>15, <1>16, <1>17

\* del_el: del_key, evict_least_used, evict_least_used_near_hash.
LEMMA DelElKeeps ==
  ASSUME OneTable, NEW s \in Orders, NEW f \in Orders, Ready(s, f), NEW m \in 1..Len(s),
         put = Idle, put' = Idle, evict' \in 0..MaxEvict, evict' > 0 => Len(s) > 1, DelEl(s[m])
  PROVE  \E r \in Orders, g \in Orders :
            /\ r = Dropped(s, m) /\ Len(r) = Len(s) - 1
            /\ hash' = [hash EXCEPT ![s[m]] = NoHash]
            /\ ALTypeOK' /\ TableInv' /\ TableIsList' /\ Lists(r, g)'
            /\ Stored' = Stored \ {Value(hash[s[m]], s[m])}
<1>t. ALTypeOK /\ TableInv /\ TableIsList /\ Lists(s, f)
  BY DEF Ready
<1>s. /\ s \in Seq(Elements) /\ f \in Seq(Elements) /\ Len(s) \in 0..M /\ Len(f) \in 0..M
      /\ Chain(nxt, prv, s) /\ FreeChain(nxt, f) /\ Once(s) /\ Once(f)
      /\ Held(s) = Allocated /\ Held(f) = Elements \ Allocated
  BY <1>t, ListFacts
<1>0. nxt \in [All -> All \cup {NONE}] /\ prv \in [All -> All \cup {NONE}]
      /\ hash \in [All -> Keys \cup {NoHash}]
  BY <1>t DEF ALTypeOK
<1>1. PICK e \in Allocated : e = s[m]
  BY <1>s DEF Held
<1>2. e \in Elements /\ e \in All /\ e # Header /\ e # Tail_ /\ e # FreeCtrl /\ FreeCtrl \in All
  BY ElementFacts DEF Allocated
<1>3. PICK k \in Keys : k = hash[e]
  BY <1>0, <1>2 DEF Allocated
<1>4. PICK n2 : n2 = NextWithout(e)
  OBVIOUS
<1>5. PICK p2 : p2 = PrevWithout(e)
  OBVIOUS
<1>6. /\ n2 \in [All -> All \cup {NONE}] /\ p2 \in [All -> All \cup {NONE}]
      /\ Chain(n2, p2, Dropped(s, m))
      /\ \A x \in All : x # Header /\ x \notin Allocated => n2[x] = nxt[x]
  <2>1. n2 = NextDrop(nxt, prv, s[m]) /\ p2 = PrevDrop(nxt, prv, s[m])
    BY <1>1, <1>4, <1>5 DEF NextWithout, PrevWithout, NextDrop, PrevDrop
  <2> QED
    BY <1>0, <1>s, <2>1, DropLinks
<1>7. n2[FreeCtrl] = nxt[FreeCtrl] /\ FreeCtrl \notin Allocated
  BY <1>2, <1>6, ElementFacts DEF Allocated
<1>8. /\ nxt' = Given(n2, e) /\ prv' = [p2 EXCEPT ![e] = NONE]
      /\ hash' = [hash EXCEPT ![e] = NoHash]
      /\ RemoveKey(k)
  BY <1>1, <1>3, <1>4, <1>5, <1>7 DEF DelEl, Given
<1>9. PICK r : r = Dropped(s, m)
  OBVIOUS
<1>10. /\ r \in Seq(Elements) /\ Len(r) = Len(s) - 1 /\ Once(r) /\ Held(r) = Allocated \ {e}
  BY <1>s, <1>1, <1>9, DroppedFacts
<1>11. PICK g : g = First(e, f)
  OBVIOUS
<1>12. e \notin Held(f)
  BY <1>s, <1>1
<1>13. /\ g \in Seq(Elements) /\ Len(g) = Len(f) + 1 /\ Once(g) /\ Held(g) = Held(f) \cup {e}
  BY <1>s, <1>2, <1>11, <1>12, FirstFacts
<1>14. FreeChain(n2, f)
  <2>1. \A x \in Held(f) \cup {FreeCtrl} : x \in All /\ x # Header /\ x \notin Allocated
    BY <1>s, ElementFacts DEF Allocated
  <2> QED
    BY <1>s, <1>6, <2>1, FreeChainKept
<1>15. /\ nxt' \in [All -> All \cup {NONE}] /\ FreeChain(nxt', g)
       /\ \A x \in All : x # FreeCtrl /\ x # e => nxt'[x] = n2[x]
  BY <1>s, <1>2, <1>6, <1>8, <1>11, <1>12, <1>14, GiveFree
<1>16. prv' \in [All -> All \cup {NONE}] /\ \A x \in All : x # e => prv'[x] = p2[x]
  BY <1>6, <1>8
<1>17. Chain(nxt', prv', r)
  <2>1. \A x \in Held(r) \cup {Header, Tail_} : x \in All /\ x # FreeCtrl /\ x # e
    BY <1>2, <1>10, ElementFacts DEF Allocated
  <2>2. \A x \in Held(r) \cup {Header} : nxt'[x] = n2[x]
    BY <1>15, <2>1
  <2>3. \A x \in Held(r) \cup {Tail_} : prv'[x] = p2[x]
    BY <1>16, <2>1
  <2> QED
    BY <1>6, <1>9, <1>10, <2>2, <2>3, ChainKept
<1>18. hash' \in [All -> Keys \cup {NoHash}] /\ hash'[e] = NoHash
       /\ \A x \in All : x # e => hash'[x] = hash[x]
  BY <1>0, <1>2, <1>8
<1>19. Allocated' = Allocated \ {e}
  BY <1>18, ElementFacts DEF Allocated
<1>20. PICK v \in Stored : v = Value(k, e)
  BY <1>t, <1>1, <1>3 DEF TableIsList
<1>21. /\ H' \in [Positions -> SUBSET (0..(K - 1))]
       /\ V' \in [Positions -> [key : Keys \cup {0}, off : Elements \cup {0}]]
       /\ cnt' \in 0..N /\ Stored' = Stored \ {v} /\ TableInv'
  <2>1. Del(k)
    BY <1>8, SelectorsAgree DEF RemoveKey
  <2> QED
    BY <1>t, <1>20, <2>1, DelKeeps DEF Value
<1>22. TableIsList'
  <2>1. ASSUME NEW w \in Stored, w # v
        PROVE  w.off \in Allocated' /\ hash'[w.off] = w.key
    <3>1. w.off \in Allocated /\ hash[w.off] = w.key
      BY <1>t DEF TableIsList
    <3>2. w.off # e
      <4>1. w.off = e => w.key = k
        BY <1>3, <3>1
      <4>2. w \in [key : Keys \cup {0}, off : Elements \cup {0}]
        BY <1>t DEF Stored, Occupied, ALTypeOK
      <4>3. w = [key |-> w.key, off |-> w.off]
        BY <4>2
      <4> QED
        BY <1>20, <2>1, <4>1, <4>3 DEF Value
    <3> QED
      BY <1>18, <1>19, <3>1, <3>2, ElementFacts DEF Allocated
  <2>2. ASSUME NEW x \in Allocated, x # e
        PROVE  Value(hash'[x], x) \in Stored \ {v}
    <3>1. hash'[x] = hash[x] /\ Value(hash[x], x) \in Stored
      BY <1>t, <1>18, <2>2, ElementFacts DEF Allocated, TableIsList
    <3>2. Value(hash[x], x).off = x /\ v.off = e
      BY <1>20 DEF Value
    <3> QED
      BY <2>2, <3>1, <3>2
  <2> QED
    BY <1>19, <1>21, <2>1, <2>2 DEF TableIsList
<1>23. r \in Orders /\ g \in Orders
  <2>1. Len(g) <= M
    BY <1>13, OnceCounts
  <2>2. Len(r) <= M
    BY <1>s, <1>10, ElementFacts
  <2> QED
    BY <1>10, <1>13, <2>1, <2>2, OrdersAre
<1>24. Lists(r, g)'
  <2>1. \A i \in 0..Len(r) : /\ nxt'[Place(r, i)] = Place(r, i + 1)
                             /\ prv'[Place(r, i + 1)] = Place(r, i)
    BY <1>17 DEF Chain
  <2>2. \A i \in 0..Len(g) : nxt'[FreePlace(g, i)] = FreePlace(g, i + 1)
    BY <1>15 DEF FreeChain
  <2>3. /\ evict' > 0 => put' = Idle /\ Len(r) # 0
        /\ put' # Idle => Len(g) # 0 /\ put'.off = g[1]
    <3>1. evict' > 0 => Len(r) # 0
      BY <1>s, <1>10
    <3> QED
      BY <3>1
  <2>4. Once(r) /\ Held(r) = Allocated' /\ Once(g) /\ Held(g) = Elements \ Allocated'
    BY <1>s, <1>2, <1>10, <1>13, <1>19
  <2> QED
    BY <2>1, <2>2, <2>3, <2>4 DEF Lists
<1>25. ALTypeOK'
  <2>2. put' \in [key : Keys \cup {0}, off : Elements \cup {0}, d : 0..(N - 1)]
    BY <1>t DEF ALTypeOK
  <2> QED
    BY <1>15, <1>16, <1>18, <1>21, <2>2 DEF ALTypeOK
<1> QED
  BY <1>1, <1>3, <1>8, <1>9, <1>10, <1>20, <1>21, <1>22, <1>23, <1>24, <1>25

\* add_el, once the table has taken the value.
LEMMA AddElKeeps ==
  ASSUME OneTable, NEW s \in Orders, NEW f \in Orders, Ready(s, f), AddEl
  PROVE  \E r \in Orders, g \in Orders :
            /\ r = First(put.off, s) /\ Len(r) = Len(s) + 1 /\ Len(f) # 0 /\ put # Idle
            /\ put.off \in Elements /\ put.key \in Keys /\ hash' = [hash EXCEPT ![put.off] = put.key]
            /\ \A x \in Allocated : hash[x] # put.key
            /\ evict = 0 /\ evict' = 0 /\ put' = Idle
            /\ ALTypeOK' /\ TableInv' /\ TableIsList' /\ Lists(r, g)'
            /\ Stored' = Stored \cup {Value(put.key, put.off)}
            /\ put.off \notin Held(s)
<1>t. ALTypeOK /\ TableInv /\ TableIsList /\ Lists(s, f)
  BY DEF Ready
<1>s. /\ s \in Seq(Elements) /\ f \in Seq(Elements) /\ Len(s) \in 0..M /\ Len(f) \in 0..M
      /\ Chain(nxt, prv, s) /\ FreeChain(nxt, f) /\ Once(s) /\ Once(f)
      /\ Held(s) = Allocated /\ Held(f) = Elements \ Allocated
  BY <1>t, ListFacts
<1>0. nxt \in [All -> All \cup {NONE}] /\ prv \in [All -> All \cup {NONE}]
      /\ hash \in [All -> Keys \cup {NoHash}] /\ evict \in 0..MaxEvict
  BY <1>t DEF ALTypeOK
<1>1. PICK e : e = put.off
  OBVIOUS
<1>2. PICK k : k = put.key
  OBVIOUS
<1>3. /\ put # Idle /\ k \in Keys /\ e = f[1] /\ Len(f) # 0 /\ evict = 0
      /\ \A v \in Stored : v.key # k
  BY <1>t, <1>0, <1>1, <1>2, RegionSize DEF AddEl, PutDone, Lists, TableInv
<1>4. e \in Elements /\ e \in Held(f) /\ e \notin Allocated /\ 1 \in 1..Len(f)
  BY <1>s, <1>3 DEF Held
<1>5. e \in All /\ e # Header /\ e # Tail_ /\ e # FreeCtrl /\ FreeCtrl \in All
  BY <1>4, ElementFacts
<1>6. PICK n2 : n2 = Taken(nxt, e)
  OBVIOUS
<1>7. /\ nxt' = NextWithFirst(n2, e) /\ prv' = PrevWithFirst(n2, prv, e)
      /\ hash' = [hash EXCEPT ![e] = k]
      /\ evict' = evict /\ PutDone
  BY <1>1, <1>2, <1>6 DEF AddEl, Taken
<1>8. PICK g : g = Dropped(f, 1)
  OBVIOUS
<1>9. g \in Seq(Elements) /\ Len(g) = Len(f) - 1 /\ Once(g) /\ Held(g) = Held(f) \ {e}
  BY <1>s, <1>3, <1>4, <1>8, DroppedFacts
<1>10. /\ n2 \in [All -> All \cup {NONE}] /\ FreeChain(n2, g)
       /\ \A x \in All : x # FreeCtrl => n2[x] = nxt[x]
  BY <1>0, <1>s, <1>3, <1>6, <1>8, TakeFree
<1>11. Chain(n2, prv, s)
  <2>1. \A x \in Held(s) \cup {Header} : n2[x] = nxt[x]
    BY <1>s, <1>10, ElementFacts DEF Allocated
  <2> QED
    BY <1>s, <2>1, ChainKept
<1>12. PICK r : r = First(e, s)
  OBVIOUS
<1>13. r \in Seq(Elements) /\ Len(r) = Len(s) + 1 /\ Once(r) /\ Held(r) = Held(s) \cup {e}
  BY <1>s, <1>4, <1>12, FirstFacts
<1>14. /\ nxt' \in [All -> All \cup {NONE}] /\ prv' \in [All -> All \cup {NONE}]
       /\ Chain(nxt', prv', r)
       /\ \A x \in All : x # Header /\ x # e => nxt'[x] = n2[x]
  <2>1. e \notin Held(s)
    BY <1>s, <1>4
  <2>2. /\ NextWithFirst(n2, e) \in [All -> All \cup {NONE}]
        /\ PrevWithFirst(n2, prv, e) \in [All -> All \cup {NONE}]
        /\ Chain(NextWithFirst(n2, e), PrevWithFirst(n2, prv, e), First(e, s))
        /\ \A x \in All : x # Header /\ x # e => NextWithFirst(n2, e)[x] = n2[x]
    <3>1. s \in Seq(Elements) /\ Once(s) /\ e \in Elements
      BY <1>s, <1>4
    <3>2. n2 \in [All -> All \cup {NONE}] /\ prv \in [All -> All \cup {NONE}]
      BY <1>0, <1>10
    <3> QED
      BY <1>11, <2>1, <3>1, <3>2, FirstLinks
  <2> QED
    BY <1>7, <1>12, <2>2
<1>15. FreeChain(nxt', g)
  <2>1. \A x \in Held(g) \cup {FreeCtrl} : x \in All /\ x # Header /\ x # e
    BY <1>s, <1>5, <1>9, ElementFacts
  <2> QED
    BY <1>9, <1>10, <1>14, <2>1, FreeChainKept
<1>16. hash' \in [All -> Keys \cup {NoHash}] /\ hash'[e] = k
       /\ \A x \in All : x # e => hash'[x] = hash[x]
  BY <1>0, <1>3, <1>5, <1>7
<1>17. Allocated' = Allocated \cup {e}
  <2>1. k # NoHash
    BY <1>3, Sizes DEF NoHash
  <2> QED
    BY <1>4, <1>16, <2>1, ElementFacts DEF Allocated
<1>18. /\ H' \in [Positions -> SUBSET (0..(K - 1))]
       /\ V' \in [Positions -> [key : Keys \cup {0}, off : Elements \cup {0}]]
       /\ cnt' \in 0..N /\ put' = Idle
       /\ Stored' = Stored \cup {Value(k, e)} /\ TableInv'
  BY <1>t, <1>1, <1>2, <1>7, PutDoneKeeps
<1>19. TableIsList'
  <2>1. ASSUME NEW w \in Stored
        PROVE  w.off \in Allocated' /\ hash'[w.off] = w.key
    <3>1. w.off \in Allocated /\ hash[w.off] = w.key
      BY <1>t DEF TableIsList
    <3> QED
      BY <1>4, <1>16, <1>17, <3>1, ElementFacts DEF Allocated
  <2>2. ASSUME NEW x \in Allocated
        PROVE  Value(hash'[x], x) \in Stored
    <3>1. x # e /\ x \in All
      BY <1>4, ElementFacts DEF Allocated
    <3> QED
      BY <1>t, <1>16, <3>1 DEF TableIsList
  <2>3. Value(k, e).off = e /\ Value(k, e).key = k
    BY DEF Value
  <2> QED
    BY <1>16, <1>17, <1>18, <2>1, <2>2, <2>3 DEF TableIsList
<1>20. r \in Orders /\ g \in Orders
  <2>1. Len(r) <= M
    BY <1>13, OnceCounts
  <2>2. Len(g) <= M
    BY <1>s, <1>9, ElementFacts
  <2> QED
    BY <1>9, <1>13, <2>1, <2>2, OrdersAre
<1>22. Lists(r, g)'
  <2>1. \A i \in 0..Len(r) : /\ nxt'[Place(r, i)] = Place(r, i + 1)
                             /\ prv'[Place(r, i + 1)] = Place(r, i)
    BY <1>14 DEF Chain
  <2>2. \A i \in 0..Len(g) : nxt'[FreePlace(g, i)] = FreePlace(g, i + 1)
    BY <1>15 DEF FreeChain
  <2>3. /\ evict' > 0 => put' = Idle /\ Len(r) # 0
        /\ put' # Idle => Len(g) # 0 /\ put'.off = g[1]
    BY <1>s, <1>13, <1>18
  <2>4. Once(r) /\ Held(r) = Allocated' /\ Once(g) /\ Held(g) = Elements \ Allocated'
    BY <1>s, <1>4, <1>9, <1>13, <1>17
  <2> QED
    BY <2>1, <2>2, <2>3, <2>4 DEF Lists
<1>23. ALTypeOK'
  <2>1. put' \in [key : Keys \cup {0}, off : Elements \cup {0}, d : 0..(N - 1)]
    BY <1>18, Sizes DEF Idle
  <2>2. evict' \in 0..MaxEvict
    BY <1>0, <1>7
  <2> QED
    BY <1>14, <1>16, <1>18, <2>1, <2>2 DEF ALTypeOK
<1>24. \A x \in Allocated : hash[x] # k
  <2>1. \A x \in Allocated : Value(hash[x], x) \in Stored /\ Value(hash[x], x).key = hash[x]
    BY <1>t DEF TableIsList, Value
  <2> QED
    BY <1>3, <2>1
<1>25. evict' = 0
  BY <1>3, <1>7
<1> QED
  BY <1>s, <1>1, <1>2, <1>3, <1>4, <1>7, <1>12, <1>13, <1>18, <1>19, <1>20, <1>22, <1>23, <1>24, <1>25

\* The other steps leave the lists as they are.
LEMMA ListsKept ==
  ASSUME NEW s \in Orders, NEW f \in Orders, Lists(s, f), UNCHANGED listVars,
         evict' > 0 => put' = Idle /\ Len(s) # 0,
         put' # Idle => Len(f) # 0 /\ put'.off = f[1]
  PROVE  Lists(s, f)' /\ Allocated' = Allocated
<1>1. nxt' = nxt /\ prv' = prv /\ hash' = hash
  BY DEF listVars
<1>2. Allocated' = Allocated
  BY <1>1 DEF Allocated
<1>3. /\ Once(s) /\ Held(s) = Allocated' /\ Once(f) /\ Held(f) = Elements \ Allocated'
      /\ \A i \in 0..Len(s) : /\ nxt'[Place(s, i)] = Place(s, i + 1)
                              /\ prv'[Place(s, i + 1)] = Place(s, i)
      /\ \A i \in 0..Len(f) : nxt'[FreePlace(f, i)] = FreePlace(f, i + 1)
  BY <1>1, <1>2 DEF Lists
<1> QED
  BY <1>2, <1>3 DEF Lists

\* add_el asks the table with the offset of the first free element.
LEMMA AddStartKeeps ==
  ASSUME OneTable, NEW s \in Orders, NEW f \in Orders, Ready(s, f), NEW k \in Keys, AddStart(k)
  PROVE  ALTypeOK' /\ TableInv' /\ TableIsList' /\ Lists(s, f)' /\ Stored' = Stored
<1>t. ALTypeOK /\ TableInv /\ TableIsList /\ Lists(s, f)
  BY DEF Ready
<1>1. /\ UNCHANGED listVars /\ UNCHANGED <<H, V, cnt>> /\ put = Idle /\ evict = 0 /\ evict' = 0
      /\ Free(Home(k)) # {} /\ nxt[FreeCtrl] # NONE
      /\ put' = [key |-> k, off |-> nxt[FreeCtrl], d |-> Min(Free(Home(k)))]
  BY DEF AddStart, PutStart, Quiet
<1>2. Len(f) # 0 /\ nxt[FreeCtrl] = f[1] /\ f[1] \in Elements
  <2>1. Len(f) # 0 /\ nxt[FreeCtrl] = f[1] /\ f \in Seq(Elements)
    BY <1>t, <1>1, ListFacts
  <2> QED
    BY <2>1
<1>3. Min(Free(Home(k))) \in Positions /\ At(Home(k), Min(Free(Home(k)))) = Empty
  <2> DEFINE F == Free(Home(k))
  <2>1. F \subseteq Positions /\ F \subseteq Nat /\ \A d \in F : At(Home(k), d) = Empty
    BY DEF Free, Positions
  <2> HIDE DEF F
  <2>2. Min(F) \in F
    BY <1>1, <2>1, MinIsLeast DEF F
  <2> QED
    BY <2>1, <2>2 DEF F
<1>4. Stored' = Stored /\ Occupied' = Occupied
  BY <1>1 DEF Stored, Occupied
<1>5. \A v \in Stored : v.key # k
  BY <1>t, HeldElement DEF AddStart
<1>6. put'.key = k /\ put'.off = f[1] /\ put'.d = Min(Free(Home(k)))
  BY <1>1, <1>2
<1>7. put' \in [key : Keys \cup {0}, off : Elements \cup {0}, d : 0..(N - 1)]
  BY <1>1, <1>2, <1>3 DEF Positions
<1>8. TableInv'
  <2>1. BitsLeadHome' /\ ValuesAreReached'
    BY <1>t, <1>1 DEF TableInv, BitsLeadHome, ValuesAreReached, At
  <2>2. /\ \A v \in Stored : v.key \in Keys /\ v.off # 0
        /\ \A p, q \in Occupied : V'[p].key = V'[q].key => p = q
        /\ cnt' = Cardinality(Occupied)
    BY <1>t, <1>1 DEF TableInv
  <2>3. \A h, i : At(h, i)' = At(h, i)
    BY <1>1 DEF At
  <2>4. f[1] # 0
    BY <1>2, ElementFacts
  <2> QED
    BY <1>3, <1>4, <1>5, <1>6, <2>1, <2>2, <2>3, <2>4 DEF TableInv
<1>9. Lists(s, f)' /\ Allocated' = Allocated
  BY <1>t, <1>1, <1>2, <1>6, ListsKept
<1>10. TableIsList'
  BY <1>t, <1>1, <1>4, <1>9 DEF TableIsList, listVars
<1>11. ALTypeOK'
  BY <1>t, <1>1, <1>7 DEF ALTypeOK, listVars
<1> QED
  BY <1>4, <1>8, <1>9, <1>10, <1>11

LEMMA AddHopKeeps ==
  ASSUME NEW s \in Orders, NEW f \in Orders, Ready(s, f), AddHop
  PROVE  ALTypeOK' /\ TableInv' /\ TableIsList' /\ Lists(s, f)' /\ Stored' = Stored
<1>t. ALTypeOK /\ TableInv /\ TableIsList /\ Lists(s, f)
  BY DEF Ready
<1>1. /\ UNCHANGED listVars /\ evict' = evict /\ put # Idle
  BY DEF AddHop, Hop
<1>2. /\ H' \in [Positions -> SUBSET (0..(K - 1))]
      /\ V' \in [Positions -> [key : Keys \cup {0}, off : Elements \cup {0}]]
      /\ put' \in [key : Keys \cup {0}, off : Elements \cup {0}, d : 0..(N - 1)]
      /\ put'.off = put.off /\ cnt' = cnt /\ Stored' = Stored /\ TableInv'
  BY <1>t, HopKeeps DEF AddHop
<1>3. ~(evict > 0) /\ Len(f) # 0 /\ put.off = f[1]
  BY <1>t, <1>1 DEF Lists
<1>4. Lists(s, f)' /\ Allocated' = Allocated
  BY <1>t, <1>1, <1>2, <1>3, ListsKept
<1>5. TableIsList'
  BY <1>t, <1>1, <1>2, <1>4 DEF TableIsList, listVars
<1>6. ALTypeOK'
  BY <1>t, <1>1, <1>2 DEF ALTypeOK, listVars
<1> QED
  BY <1>2, <1>4, <1>5, <1>6

LEMMA QuietKeeps ==
  ASSUME NEW s \in Orders, NEW f \in Orders, Ready(s, f),
         AddFails \/ (\E max \in 1..MaxEvict : EvictStart(max)) \/ UNCHANGED vars
  PROVE  ALTypeOK' /\ TableInv' /\ TableIsList' /\ Lists(s, f)' /\ Stored' = Stored
<1>t. ALTypeOK /\ TableInv /\ TableIsList /\ Lists(s, f)
  BY DEF Ready
<1>1. UNCHANGED listVars /\ UNCHANGED <<H, V, cnt>> /\ (put' = Idle \/ put' = put)
  BY DEF AddFails, PutFrozen, EvictStart, tableVars, vars
<1>2. evict' \in 0..MaxEvict
  BY <1>t, RegionSize DEF ALTypeOK, AddFails, EvictStart, vars
<1>3. evict' > 0 => put' = Idle /\ Len(s) # 0
  <2>1. CASE AddFails \/ UNCHANGED vars
    BY <1>t, <1>1, <2>1 DEF Lists, AddFails, vars
  <2>2. CASE \E max \in 1..MaxEvict : EvictStart(max)
    <3>1. put = Idle /\ put' = put /\ prv[Tail_] # Header
      BY <2>2 DEF EvictStart, Quiet, tableVars
    <3> QED
      BY <1>t, <3>1, ListFacts
  <2> QED
    BY <2>1, <2>2
<1>4. put' # Idle => Len(f) # 0 /\ put'.off = f[1]
  BY <1>t, <1>1 DEF Lists
<1>5. Lists(s, f)' /\ Allocated' = Allocated
  BY <1>t, <1>1, <1>3, <1>4, ListsKept
<1>6. Stored' = Stored /\ TableInv'
  BY <1>t, <1>1, TableKept
<1>7. TableIsList'
  BY <1>t, <1>1, <1>5, <1>6 DEF TableIsList, listVars
<1>8. Idle \in [key : Keys \cup {0}, off : Elements \cup {0}, d : 0..(N - 1)]
  BY Sizes DEF Idle
<1>9. ALTypeOK'
  BY <1>t, <1>1, <1>2, <1>8 DEF ALTypeOK, listVars
<1> QED
  BY <1>5, <1>6, <1>7, <1>9

-----------------------------------------------------------------------------
(* The invariant of every step                                             *)

\* Which element a step deletes, and what the eviction may still take.
LEMMA DeletedElement ==
  ASSUME OneTable, NEW s \in Orders, NEW f \in Orders, Ready(s, f),
         (\E k \in Keys : DelKey(k) \/ EvictNear(k)) \/ EvictTail
  PROVE  \E m \in 1..Len(s) :
            /\ DelEl(s[m]) /\ put = Idle /\ put' = Idle /\ evict' \in 0..MaxEvict
            /\ evict' > 0 => Len(s) > 1
            /\ EvictTail => m = Len(s)
<1>t. ALTypeOK /\ TableInv /\ TableIsList /\ Lists(s, f)
  BY DEF Ready
<1>s. /\ s \in Seq(Elements) /\ Len(s) \in 0..M /\ Chain(nxt, prv, s) /\ Held(s) = Allocated
      /\ Len(s) # 0 => prv[Tail_] = s[Len(s)]
  BY <1>t, ListFacts
<1>0. evict \in 0..MaxEvict /\ MaxEvict \in Nat
  BY <1>t, RegionSize DEF ALTypeOK
<1>1. ASSUME NEW e \in Allocated, DelEl(e), Quiet, put' = put, evict' = evict
      PROVE  \E m \in 1..Len(s) :
                /\ DelEl(s[m]) /\ put = Idle /\ put' = Idle /\ evict' \in 0..MaxEvict
                /\ evict' > 0 => Len(s) > 1
  <2>1. PICK m \in 1..Len(s) : e = s[m]
    BY <1>s DEF Held
  <2> QED
    BY <1>0, <1>1, <2>1 DEF Quiet
<1>2. ASSUME NEW k \in Keys, DelKey(k)
      PROVE  ~EvictTail \/ evict = 0
  BY <1>2 DEF DelKey, Quiet
<1>3. CASE EvictTail
  <2>1. evict > 0 /\ put = Idle /\ Len(s) # 0 /\ put' = put
    BY <1>t, <1>3 DEF EvictTail, Lists
  <2>2. PICK e : e = prv[Tail_]
    OBVIOUS
  <2>3. e = s[Len(s)] /\ Len(s) \in 1..Len(s) /\ DelEl(e)
    BY <1>s, <1>3, <2>1, <2>2 DEF EvictTail
  <2>4. evict' \in (IF evict = 1 \/ prv[e] = Header THEN {0} ELSE {0, evict - 1})
    BY <1>3, <2>2 DEF EvictTail
  <2>5. evict' \in 0..MaxEvict
    BY <1>0, <2>1, <2>4
  <2>6. Len(s) = 1 => prv[e] = Header
    <3>1. ASSUME Len(s) = 1
          PROVE  prv[s[1]] = Header
      <4>1. prv[Place(s, 0 + 1)] = Place(s, 0)
        <5>1. 0 \in 0..Len(s)
          BY <3>1
        <5> QED
          BY <1>s, <5>1 DEF Chain
      <4> QED
        BY <3>1, <4>1 DEF Place
    <3> QED
      BY <2>3, <3>1
  <2>7. evict' > 0 => Len(s) > 1
    <3>1. Len(s) = 1 => evict' = 0
      BY <2>4, <2>6
    <3>2. Len(s) \in Nat
      BY <1>s
    <3>3. Len(s) > 1 \/ Len(s) = 1
      BY <2>1, <3>2
    <3>4. Len(s) = 1 => ~(evict' > 0)
      BY <3>1
    <3> QED
      BY <3>3, <3>4
  <2> QED
    BY <2>1, <2>3, <2>5, <2>7
<1>4. CASE \E k \in Keys : DelKey(k)
  <2>1. PICK k \in Keys : DelKey(k)
    BY <1>4
  <2>2. CheckForHash(k) \in Allocated
    BY <1>t, <2>1, HeldElement DEF DelKey
  <2>3. ~EvictTail
    BY <2>1 DEF DelKey, EvictTail, Quiet
  <2> QED
    BY <1>1, <2>1, <2>2, <2>3 DEF DelKey
<1>5. CASE \E k \in Keys : EvictNear(k)
  <2>1. PICK k \in Keys : EvictNear(k)
    BY <1>5
  <2>2. PICK e \in InBucket(Bucket(k)) : DelEl(e)
    BY <2>1 DEF EvictNear
  <2>3. PICK i \in H[Home(k)] : e = V[MOD(Home(k) + i, N)].off
    BY <2>2 DEF InBucket, At, Home
  <2>4. V[MOD(Home(k) + i, N)] \in Stored
    BY <1>t, HomeIsPosition, BitPositions DEF Stored
  <2>5. e \in Allocated
    BY <1>t, <2>3, <2>4 DEF TableIsList
  <2>6. ~EvictTail
    BY <2>1 DEF EvictNear, EvictTail, Quiet
  <2> QED
    BY <1>1, <2>1, <2>2, <2>5, <2>6 DEF EvictNear
<1> QED
  BY <1>3, <1>4, <1>5

LEMMA InvStep == OneTable /\ ALInv /\ [ALNext]_vars => ALInv'
<1> SUFFICES ASSUME OneTable, ALInv, [ALNext]_vars
             PROVE  ALInv'
  OBVIOUS
<1>1. PICK s \in Orders : \E f \in Orders : Lists(s, f)
  BY DEF ALInv
<1>2. PICK f \in Orders : Ready(s, f)
  BY <1>1 DEF ALInv, Ready
<1>q. ASSUME NEW r \in Orders, NEW g \in Orders, ALTypeOK' /\ TableInv' /\ TableIsList' /\ Lists(r, g)'
      PROVE  ALInv'
  <2>1. Orders' = Orders
    OBVIOUS
  <2> QED
    BY <1>q, <2>1 DEF ALInv
<1>3. CASE \E k \in Keys : UseKey(k)
  BY <1>2, <1>3, <1>q, UseKeyKeeps
<1>4. CASE \E k \in Keys : AddStart(k)
  BY <1>2, <1>4, <1>q, AddStartKeeps
<1>5. CASE (\E k \in Keys : DelKey(k) \/ EvictNear(k)) \/ EvictTail
  <2>1. PICK m \in 1..Len(s) :
            /\ DelEl(s[m]) /\ put = Idle /\ put' = Idle /\ evict' \in 0..MaxEvict
            /\ evict' > 0 => Len(s) > 1
    BY <1>2, <1>5, DeletedElement
  <2> QED
    BY <1>2, <1>q, <2>1, DelElKeeps
<1>6. CASE AddHop
  BY <1>2, <1>6, <1>q, AddHopKeeps
<1>7. CASE AddEl
  BY <1>2, <1>7, <1>q, AddElKeeps
<1>8. CASE AddFails \/ (\E max \in 1..MaxEvict : EvictStart(max)) \/ UNCHANGED vars
  BY <1>2, <1>8, <1>q, QuietKeeps
<1> QED
  BY <1>3, <1>4, <1>5, <1>6, <1>7, <1>8 DEF ALNext

\* The inductive invariant of the cache and its table.
THEOREM CacheInvariant ==
  ASSUME OneTable
  PROVE  ALSpec => []ALInv
<1>1. ALInit => ALInv
  BY InitLists
<1>2. ALInv /\ [ALNext]_vars => ALInv'
  BY InvStep
<1> QED
  BY <1>1, <1>2, PTL DEF ALSpec

-----------------------------------------------------------------------------
(* The walks over the lists                                                *)

WalkStep(e, f, n) == IF n = 0 THEN e ELSE After(f[n - 1])

\* The walk is any function that satisfies its recursion.
LEMMA WalkIs ==
  ASSUME NEW e, NEW g, g = [n \in 0..(M + 1) |-> WalkStep(e, g, n)]
  PROVE  WalkFrom(e) = g
<1> DEFINE Part(f) == f = [n \in 0..(M + 1) |-> WalkStep(e, f, n)]
<1>0. M \in Nat
  BY ElementFacts
<1>1. WalkFrom(e) = CHOOSE f : Part(f)
  BY DEF WalkFrom, WalkStep
<1>2. Part(g)
  OBVIOUS
<1>3. PICK w : w = WalkFrom(e)
  OBVIOUS
<1>4. Part(w)
  <2> HIDE DEF Part
  <2> QED
    BY <1>1, <1>2, <1>3
<1>5. \A n \in 0..(M + 1) : w[n] = WalkStep(e, w, n) /\ g[n] = WalkStep(e, g, n)
  BY <1>2, <1>4
<1>6. \A n \in 0..(M + 1) : w[n] = g[n]
  <2> DEFINE Bad == {n \in 0..(M + 1) : w[n] # g[n]}
  <2> SUFFICES Bad = {}
    OBVIOUS
  <2> SUFFICES ASSUME Bad # {}
               PROVE  FALSE
    OBVIOUS
  <2>1. PICK n \in Bad : \A l \in Bad : n <= l
    <3>1. Bad \subseteq Nat
      BY <1>0
    <3> HIDE DEF Bad
    <3> QED
      BY <3>1, LeastElement
  <2>2. n \in 0..(M + 1) /\ w[n] # g[n]
    OBVIOUS
  <2>3. n = 0 \/ (n - 1 \in 0..(M + 1) /\ w[n - 1] = g[n - 1])
    BY <1>0, <2>1, <2>2
  <2> QED
    BY <1>5, <2>2, <2>3 DEF WalkStep
<1>7. w = g
  <2>1. w = [n \in 0..(M + 1) |-> w[n]] /\ g = [n \in 0..(M + 1) |-> g[n]]
    BY <1>2, <1>4
  <2> QED
    BY <1>6, <2>1
<1> QED
  BY <1>3, <1>7

\* The walk from the header meets the elements of s, then the tail; the walk from
\* the free control those of f, then the end.
LEMMA WalksAre ==
  ASSUME NEW s \in Orders, NEW f \in Orders, Lists(s, f)
  PROVE  /\ ListOrder = s /\ WalkFrom(Header)[Len(s) + 1] = Tail_
         /\ \A n \in 1..(M + 1) : WalkFrom(FreeCtrl)[n] = FreePlace(f, n)
<1>s. /\ s \in Seq(Elements) /\ f \in Seq(Elements) /\ Len(s) \in 0..M /\ Len(f) \in 0..M
      /\ Chain(nxt, prv, s) /\ FreeChain(nxt, f)
  BY ListFacts
<1>0. M \in Nat /\ M >= 1 /\ NONE \notin Elements /\ Tail_ \notin Elements /\ NONE # Tail_
      /\ Header \notin {Tail_, NONE} /\ FreeCtrl \notin {Tail_, NONE}
  BY ElementFacts DEF Elements, NONE, Header, Tail_, FreeCtrl
<1>p. /\ Place(s, 0) = Header /\ Place(s, Len(s) + 1) = Tail_
      /\ \A i \in 1..Len(s) : Place(s, i) = s[i] /\ s[i] \in Elements
  BY <1>s, PlaceFacts
<1>1. PICK w : w = [n \in 0..(M + 1) |-> IF n <= Len(s) + 1 THEN Place(s, n) ELSE NONE]
  OBVIOUS
<1>2. WalkFrom(Header) = w
  <2>1. ASSUME NEW n \in 0..(M + 1)
        PROVE  w[n] = WalkStep(Header, w, n)
    <3>1. CASE n = 0
      BY <1>0, <1>1, <1>p, <1>s, <3>1 DEF WalkStep
    <3>2. CASE n # 0
      <4>0. n - 1 \in 0..(M + 1) /\ (n - 1) + 1 = n
        BY <1>0, <3>2
      <4>1. CASE n <= Len(s) + 1
        <5>1. n - 1 \in 0..Len(s)
          BY <1>s, <3>2, <4>1
        <5>2. nxt[Place(s, n - 1)] = Place(s, n)
          BY <1>s, <4>0, <5>1 DEF Chain
        <5>3. w[n - 1] = Place(s, n - 1) /\ w[n] = Place(s, n)
          BY <1>1, <1>s, <4>0, <4>1, <5>1
        <5>4. Place(s, n - 1) \notin {Tail_, NONE}
          <6>1. n - 1 = 0 \/ n - 1 \in 1..Len(s)
            BY <1>s, <5>1
          <6> QED
            BY <1>0, <1>p, <6>1
        <5> QED
          BY <3>2, <5>2, <5>3, <5>4 DEF WalkStep, After
      <4>2. CASE ~(n <= Len(s) + 1)
        <5>1. w[n] = NONE
          BY <1>1, <4>2
        <5>2. w[n - 1] \in {Tail_, NONE}
          <6>1. n - 1 = Len(s) + 1 \/ ~(n - 1 <= Len(s) + 1)
            BY <1>s, <4>2
          <6> QED
            BY <1>1, <1>p, <4>0, <6>1
        <5> QED
          BY <3>2, <5>1, <5>2 DEF WalkStep, After
      <4> QED
        BY <4>1, <4>2
    <3> QED
      BY <3>1, <3>2
  <2>2. w = [n \in 0..(M + 1) |-> w[n]]
    BY <1>1
  <2>3. w = [n \in 0..(M + 1) |-> WalkStep(Header, w, n)]
    BY <2>1, <2>2
  <2> QED
    BY <2>3, WalkIs
<1>3. PICK u : u = [n \in 0..(M + 1) |-> FreePlace(f, n)]
  OBVIOUS
<1>4. WalkFrom(FreeCtrl) = u
  <2>1. ASSUME NEW n \in 0..(M + 1)
        PROVE  u[n] = WalkStep(FreeCtrl, u, n)
    <3>1. CASE n = 0
      BY <1>0, <1>3, <3>1 DEF WalkStep, FreePlace
    <3>2. CASE n # 0
      <4>0. n - 1 \in 0..(M + 1) /\ (n - 1) + 1 = n
        BY <1>0, <3>2
      <4>1. CASE n - 1 <= Len(f)
        <5>1. n - 1 \in 0..Len(f)
          BY <1>s, <4>0, <4>1
        <5>2. nxt[FreePlace(f, n - 1)] = FreePlace(f, n)
          BY <1>s, <4>0, <5>1 DEF FreeChain
        <5>3. u[n - 1] = FreePlace(f, n - 1) /\ u[n] = FreePlace(f, n)
          BY <1>3, <4>0
        <5>4. FreePlace(f, n - 1) = FreeCtrl \/ FreePlace(f, n - 1) \in Elements
          BY <1>s, <5>1 DEF FreePlace
        <5> QED
          BY <1>0, <3>2, <5>2, <5>3, <5>4 DEF WalkStep, After
      <4>2. CASE ~(n - 1 <= Len(f))
        <5>1. u[n] = NONE /\ u[n - 1] = NONE
          BY <1>0, <1>3, <1>s, <3>2, <4>0, <4>2 DEF FreePlace
        <5> QED
          BY <3>2, <5>1 DEF WalkStep, After
      <4> QED
        BY <4>1, <4>2
    <3> QED
      BY <3>1, <3>2
  <2>2. u = [n \in 0..(M + 1) |-> u[n]]
    BY <1>3
  <2>3. u = [n \in 0..(M + 1) |-> WalkStep(FreeCtrl, u, n)]
    BY <2>1, <2>2
  <2> QED
    BY <2>3, WalkIs
<1>5. /\ \A n \in 1..Len(s) : w[n] = s[n] /\ w[n] \in Elements
      /\ w[Len(s) + 1] = Tail_
  BY <1>0, <1>1, <1>p, <1>s
<1>6. ListOrder = s
  <2> DEFINE Ends == {n \in 0..M : n = M \/ w[n + 1] \notin Elements}
  <2>1. Ends \subseteq Nat /\ Len(s) \in Ends
    BY <1>0, <1>5, <1>s
  <2>2. \A n \in Ends : n >= Len(s)
    <3>1. ASSUME NEW n \in 0..M, n < Len(s)
          PROVE  n # M /\ w[n + 1] \in Elements
      <4>1. n + 1 \in 1..Len(s) /\ n # M
        BY <1>0, <1>s, <3>1
      <4> QED
        BY <1>5, <4>1
    <3> QED
      BY <1>s, <3>1
  <2>3. Min(Ends) = Len(s)
    <3> HIDE DEF Ends
    <3>1. Min(Ends) \in Ends /\ Min(Ends) <= Len(s)
      BY <2>1, MinIsLeast
    <3>2. Min(Ends) \in Nat /\ Min(Ends) >= Len(s)
      BY <2>1, <2>2, <3>1
    <3> QED
      BY <1>s, <3>1, <3>2
  <2>4. ListOrder = [n \in 1..Min(Ends) |-> w[n]]
    BY <1>2 DEF ListOrder
  <2> HIDE DEF Ends
  <2>5. ListOrder = [n \in 1..Len(s) |-> s[n]]
    BY <1>5, <2>3, <2>4
  <2> QED
    BY <1>s, <2>5
<1> QED
  BY <1>2, <1>3, <1>4, <1>5, <1>6

-----------------------------------------------------------------------------
(* What the invariant says                                                 *)

LEMMA InvListIsWhole == ALInv => ListIsWhole
<1> SUFFICES ASSUME ALInv
             PROVE  ListIsWhole
  OBVIOUS
<1>1. PICK s \in Orders : \E f \in Orders : Lists(s, f)
  BY DEF ALInv
<1>2. PICK f \in Orders : Lists(s, f)
  BY <1>1
<1>s. /\ s \in Seq(Elements) /\ Len(s) \in Nat /\ Chain(nxt, prv, s) /\ Held(s) = Allocated
  BY <1>2, ListFacts
<1>3. ListOrder = s /\ WalkFrom(Header)[Len(s) + 1] = Tail_
  BY <1>2, WalksAre
<1>p. /\ Place(s, 0) = Header /\ Place(s, Len(s) + 1) = Tail_
      /\ \A i \in 1..Len(s) : Place(s, i) = s[i]
  BY <1>s, PlaceFacts
<1>4. ASSUME NEW e \in Allocated \cup {Header}
      PROVE  prv[nxt[e]] = e
  <2>1. PICK i \in 0..Len(s) : e = Place(s, i)
    <3>1. CASE e = Header
      BY <1>p, <1>s, <3>1
    <3>2. CASE e \in Allocated
      <4>1. PICK j \in 1..Len(s) : e = s[j]
        BY <1>s, <3>2 DEF Held
      <4> QED
        BY <1>p, <4>1
    <3> QED
      BY <3>1, <3>2
  <2> QED
    BY <1>s, <2>1 DEF Chain
<1>5. ASSUME NEW e \in Allocated \cup {Tail_}
      PROVE  nxt[prv[e]] = e
  <2>1. PICK i \in 0..Len(s) : e = Place(s, i + 1)
    <3>1. CASE e = Tail_
      BY <1>p, <1>s, <3>1
    <3>2. CASE e \in Allocated
      <4>1. PICK j \in 1..Len(s) : e = s[j]
        BY <1>s, <3>2 DEF Held
      <4>2. j - 1 \in 0..Len(s) /\ (j - 1) + 1 = j
        BY <1>s
      <4> QED
        BY <1>p, <4>1, <4>2
    <3> QED
      BY <3>1, <3>2
  <2> QED
    BY <1>s, <2>1 DEF Chain
<1> QED
  BY <1>s, <1>3, <1>4, <1>5 DEF ListIsWhole, Held

LEMMA InvFreeListIsTheRest == ALInv => FreeListIsTheRest
<1> SUFFICES ASSUME ALInv
             PROVE  FreeListIsTheRest
  OBVIOUS
<1>1. PICK s \in Orders : \E f \in Orders : Lists(s, f)
  BY DEF ALInv
<1>2. PICK f \in Orders : Lists(s, f)
  BY <1>1
<1>s. f \in Seq(Elements) /\ Len(f) \in 0..M /\ Once(f) /\ Held(f) = Elements \ Allocated
  BY <1>2, ListFacts
<1>3. \A n \in 1..(M + 1) : WalkFrom(FreeCtrl)[n] = FreePlace(f, n)
  BY <1>2, WalksAre
<1>4. PICK c : c = Cardinality(Elements \ Allocated)
  OBVIOUS
<1>5. c = Len(f) /\ M \in Nat
  BY <1>s, <1>4, OnceCounts, RegionSize
<1>6. WalkFrom(FreeCtrl)[c + 1] = NONE
  <2>1. c + 1 \in 1..(M + 1) /\ c + 1 > Len(f) /\ c + 1 # 0
    BY <1>s, <1>5
  <2> QED
    BY <1>3, <2>1 DEF FreePlace
<1>7. ASSUME NEW n \in 1..c
      PROVE  WalkFrom(FreeCtrl)[n] = f[n]
  <2>1. n \in 1..(M + 1) /\ n \in 1..Len(f) /\ n # 0 /\ ~(n > Len(f))
    BY <1>s, <1>5
  <2> QED
    BY <1>3, <2>1 DEF FreePlace
<1>8. {WalkFrom(FreeCtrl)[n] : n \in 1..c} = Elements \ Allocated
  BY <1>s, <1>5, <1>7 DEF Held
<1> QED
  BY <1>4, <1>6, <1>8 DEF FreeListIsTheRest

LEMMA InvTableMatchesList == OneTable /\ ALInv => TableMatchesList
<1> SUFFICES ASSUME OneTable, ALInv
             PROVE  TableMatchesList
  OBVIOUS
<1>1. ALTypeOK /\ TableInv /\ TableIsList /\ GetIsRight
  BY GetFinds DEF ALInv
<1>2. ASSUME NEW e \in Allocated
      PROVE  CheckForHash(hash[e]) = e
  <2>1. hash[e] \in Keys /\ Value(hash[e], e) \in Stored
    BY <1>1, ElementFacts DEF ALTypeOK, TableIsList, Allocated
  <2>2. Value(hash[e], e).key = hash[e] /\ Value(hash[e], e).off = e
    BY DEF Value
  <2>3. Get(hash[e]) = e
    BY <1>1, <2>1, <2>2 DEF GetIsRight
  <2> QED
    BY <2>1, <2>3, CheckIsGet
<1>3. ASSUME NEW k \in Keys, CheckForHash(k) # 0
      PROVE  hash[CheckForHash(k)] = k
  BY <1>1, <1>3, HeldElement
<1> QED
  BY <1>2, <1>3 DEF TableMatchesList

-----------------------------------------------------------------------------
(* The properties                                                          *)

\* The types of everything the region and the table hold.
THEOREM CacheTypes ==
  ASSUME OneTable
  PROVE  ALSpec => []ALTypeOK
<1>1. ALInv => ALTypeOK
  BY DEF ALInv
<1> QED
  BY <1>1, CacheInvariant, PTL

\* A walk over the bits of a bucket meets values of that bucket only, even between two
\* moves of a put.
THEOREM BitsLeadToTheirBucket ==
  ASSUME OneTable
  PROVE  ALSpec => []BitsLeadHome
<1>1. ALInv => BitsLeadHome
  BY DEF ALInv, TableInv
<1> QED
  BY <1>1, CacheInvariant, PTL

\* Every value is met by the walk over the bits of its own bucket: a put that moves it
\* never hides it.
THEOREM TableIsReadable ==
  ASSUME OneTable
  PROVE  ALSpec => []ValuesAreReached
<1>1. ALInv => ValuesAreReached
  BY DEF ALInv, TableInv
<1> QED
  BY <1>1, CacheInvariant, PTL

\* Every move brings the free position nearer to the bucket that needs it, so the
\* loop of put_hh_hash ends.
THEOREM MovesComeNearer ==
  ASSUME OneTable
  PROVE  ALSpec => HopsComeNearer
<1>1. ALInv => [Hop => put'.d < put.d]_tableVars
  BY HopKeeps DEF ALInv
<1> QED
  BY <1>1, CacheInvariant, PTL DEF HopsComeNearer

\* The two directions of the list agree, and the list holds what is allocated.
THEOREM ListStaysWhole ==
  ASSUME OneTable
  PROVE  ALSpec => []ListIsWhole
BY InvListIsWhole, CacheInvariant, PTL

\* No element is ever on both lists or on none, and _count_free counts the free ones.
THEOREM NoElementLeaks ==
  ASSUME OneTable
  PROVE  ALSpec => []FreeListIsTheRest
BY InvFreeListIsTheRest, CacheInvariant, PTL

\* A key leads to the element that carries it, and to none once that is evicted.
THEOREM TableAndListAgree ==
  ASSUME OneTable
  PROVE  ALSpec => []TableMatchesList
<1>1. ALInv => TableMatchesList
  BY InvTableMatchesList
<1> QED
  BY <1>1, CacheInvariant, PTL

-----------------------------------------------------------------------------
(* The table implements a dictionary                                       *)

LEMMA MapKept ==
  ASSUME GetIsRight, GetIsRight', Stored' = Stored
  PROVE  [k \in Keys |-> Get(k)]' = [k \in Keys |-> Get(k)]
<1>1. ASSUME NEW k \in Keys
      PROVE  Get(k)' = Get(k)
  <2>1. CASE \E v \in Stored : v.key = k
    BY <2>1 DEF GetIsRight
  <2>2. CASE \A v \in Stored : v.key # k
    BY <2>2 DEF GetIsRight
  <2> QED
    BY <2>1, <2>2
<1> QED
  BY <1>1

\* Each key has one value.
LEMMA OneValue ==
  ASSUME TableInv, NEW v \in Stored, NEW w \in Stored, v.key = w.key
  PROVE  v = w
<1>1. PICK p \in Occupied, q \in Occupied : v = V[p] /\ w = V[q]
  BY DEF Stored
<1> QED
  BY <1>1 DEF TableInv

LEMMA MapRemoves ==
  ASSUME ALTypeOK, TableInv, GetIsRight, GetIsRight', NEW v \in Stored, Stored' = Stored \ {v}
  PROVE  Map!KMNext
<1> DEFINE old == [k \in Keys |-> Get(k)]
           new == [k \in Keys |-> Get(k)']
<1>1. PICK l \in Keys : l = v.key /\ v.off # 0
  BY DEF TableInv
<1>2. \A w \in Stored : w.key = l => w = v
  BY <1>1, OneValue
<1>3. Get(l) # 0 /\ Get(l)' = 0
  <2>1. Get(l) = v.off
    BY <1>1 DEF GetIsRight
  <2>2. \A w \in Stored' : w.key # l
    BY <1>2
  <2>3. Get(l)' = 0
    BY <2>2 DEF GetIsRight
  <2> QED
    BY <1>1, <2>1, <2>3
<1>4. ASSUME NEW k \in Keys, k # l
      PROVE  Get(k)' = Get(k)
  <2>1. CASE \E w \in Stored : w.key = k
    <3>1. PICK w \in Stored : w.key = k
      BY <2>1
    <3>2. w \in Stored'
      BY <1>1, <1>4, <3>1
    <3> QED
      BY <3>1, <3>2 DEF GetIsRight
  <2>2. CASE \A w \in Stored : w.key # k
    BY <2>2 DEF GetIsRight
  <2> QED
    BY <2>1, <2>2
<1>5. {k \in Keys : old[k] # new[k]} = {l}
  BY <1>3, <1>4
<1>6. Map!Remove(old, new, l)
  BY <1>3 DEF Map!Remove
<1>7. [k \in Keys |-> Get(k)]' = new
  OBVIOUS
<1> HIDE DEF old, new
<1>8. LET changed == {k \in Keys : old[k] # new[k]}
      IN  \E k \in changed : changed = {k} /\ (Map!Add(old, new, k) \/ Map!Remove(old, new, k))
  BY <1>5, <1>6
<1> QED
  BY <1>7, <1>8 DEF Map!KMNext, old

LEMMA MapAdds ==
  ASSUME ALTypeOK, TableInv, GetIsRight, GetIsRight', NEW l \in Keys, NEW e \in Elements,
         \A v \in Stored : v.key # l, Stored' = Stored \cup {Value(l, e)}
  PROVE  Map!KMNext
<1> DEFINE old == [k \in Keys |-> Get(k)]
           new == [k \in Keys |-> Get(k)']
<1>1. Value(l, e).key = l /\ Value(l, e).off = e /\ e # 0
  BY ElementFacts DEF Value
<1>2. Get(l) = 0
  BY DEF GetIsRight
<1>3. Get(l)' = e
  <2>1. Value(l, e) \in Stored'
    OBVIOUS
  <2> QED
    BY <1>1, <2>1 DEF GetIsRight
<1>4. ASSUME NEW k \in Keys, k # l
      PROVE  Get(k)' = Get(k)
  <2>1. CASE \E w \in Stored : w.key = k
    BY <2>1 DEF GetIsRight
  <2>2. CASE \A w \in Stored : w.key # k
    <3>1. \A w \in Stored' : w.key # k
      BY <1>1, <1>4, <2>2
    <3>2. Get(k)' = 0
      BY <3>1 DEF GetIsRight
    <3> QED
      BY <2>2, <3>2 DEF GetIsRight
  <2> QED
    BY <2>1, <2>2
<1>5. {k \in Keys : old[k] # new[k]} = {l}
  BY <1>1, <1>2, <1>3, <1>4
<1>6. Map!Add(old, new, l)
  BY <1>2, <1>3 DEF Map!Add
<1>7. [k \in Keys |-> Get(k)]' = new
  OBVIOUS
<1> HIDE DEF old, new
<1>8. LET changed == {k \in Keys : old[k] # new[k]}
      IN  \E k \in changed : changed = {k} /\ (Map!Add(old, new, k) \/ Map!Remove(old, new, k))
  BY <1>5, <1>6
<1> QED
  BY <1>7, <1>8 DEF Map!KMNext, old

LEMMA MapInit == ALInit => Map!KMInit
<1> SUFFICES ASSUME ALInit
             PROVE  Map!KMInit
  OBVIOUS
<1>1. GetIsRight
  BY InitLists, GetFinds DEF ALInv
<1>2. Stored = {}
  BY DEF ALInit, HHInit, Stored, Occupied
<1>3. \A k \in Keys : Get(k) = 0
  BY <1>1, <1>2 DEF GetIsRight
<1> QED
  BY <1>3 DEF Map!KMInit

LEMMA MapStep == OneTable /\ ALInv /\ ALInv' /\ [ALNext]_vars => [Map!KMNext]_[k \in Keys |-> Get(k)]
<1> SUFFICES ASSUME OneTable, ALInv, ALInv', [ALNext]_vars
             PROVE  [Map!KMNext]_[k \in Keys |-> Get(k)]
  OBVIOUS
<1>1. PICK s \in Orders : \E f \in Orders : Lists(s, f)
  BY DEF ALInv
<1>2. PICK f \in Orders : Ready(s, f)
  BY <1>1 DEF ALInv, Ready
<1>3. ALTypeOK /\ TableInv /\ TableIsList /\ GetIsRight
  BY GetFinds DEF ALInv
<1>4. GetIsRight'
  <2>1. ALTypeOK' /\ TableInv'
    BY DEF ALInv
  <2>2. (ALTypeOK /\ TableInv)' => GetIsRight'
    BY GetFinds, PTL
  <2> QED
    BY <2>1, <2>2
<1>5. CASE Stored' = Stored
  BY <1>3, <1>4, <1>5, MapKept
<1>6. CASE (\E k \in Keys : DelKey(k) \/ EvictNear(k)) \/ EvictTail
  <2>1. PICK m \in 1..Len(s) :
            /\ DelEl(s[m]) /\ put = Idle /\ put' = Idle /\ evict' \in 0..MaxEvict
            /\ evict' > 0 => Len(s) > 1
    BY <1>2, <1>6, DeletedElement
  <2>2. Stored' = Stored \ {Value(hash[s[m]], s[m])}
    BY <1>2, <2>1, DelElKeeps
  <2>3. Value(hash[s[m]], s[m]) \in Stored
    BY <1>2, <1>3, ListFacts DEF TableIsList, Ready, Held
  <2> QED
    BY <1>3, <1>4, <2>2, <2>3, MapRemoves
<1>7. CASE AddEl
  <2>1. /\ put.off \in Elements /\ put.key \in Keys /\ put # Idle
        /\ Stored' = Stored \cup {Value(put.key, put.off)}
    BY <1>2, <1>7, AddElKeeps
  <2>2. \A v \in Stored : v.key # put.key
    BY <1>3, <2>1 DEF TableInv
  <2> QED
    BY <1>3, <1>4, <2>1, <2>2, MapAdds
<1>8. CASE \E k \in Keys : UseKey(k)
  <2>1. UNCHANGED <<H, V, cnt>>
    BY <1>8 DEF UseKey, tableVars
  <2> QED
    BY <1>5, <2>1, TableKept
<1>9. CASE \E k \in Keys : AddStart(k)
  BY <1>2, <1>5, <1>9, AddStartKeeps
<1>10. CASE AddHop
  BY <1>2, <1>5, <1>10, AddHopKeeps
<1>11. CASE AddFails \/ (\E max \in 1..MaxEvict : EvictStart(max)) \/ UNCHANGED vars
  BY <1>2, <1>5, <1>11, QuietKeeps
<1> QED
  BY <1>6, <1>7, <1>8, <1>9, <1>10, <1>11 DEF ALNext

\* Whatever a put moves, a reader sees a dictionary: a key is added at once, with one
\* offset, and keeps it until it is removed.
THEOREM TableIsDictionary ==
  ASSUME OneTable
  PROVE  ALSpec => ImplementsMap
<1>1. ALInit => Map!KMInit
  BY MapInit
<1>2. ALInv /\ ALInv' /\ [ALNext]_vars => [Map!KMNext]_[k \in Keys |-> Get(k)]
  BY MapStep
<1> QED
  BY <1>1, <1>2, CacheInvariant, PTL DEF ALSpec, ImplementsMap, Map!KMSpec

-----------------------------------------------------------------------------
(* The list implements an LRU order                                        *)

\* The keys of the elements of s.
KeysOf(h, s) == [n \in 1..Len(s) |-> h[s[n]]]

LEMMA KeysOfIs ==
  ASSUME NEW h, NEW s \in Seq(Elements), NEW D, \A i \in 1..Len(s) : h[s[i]] \in D
  PROVE  /\ KeysOf(h, s) \in Seq(D) /\ Len(KeysOf(h, s)) = Len(s)
         /\ \A i \in 1..Len(s) : KeysOf(h, s)[i] = h[s[i]]
<1>0. Len(s) \in Nat
  OBVIOUS
<1>1. KeysOf(h, s) = [n \in 1..Len(s) |-> h[s[n]]]
  BY DEF KeysOf
<1> QED
  BY <1>0, <1>1

\* Without, of the abstract cache, drops one element.
LEMMA WithoutIs ==
  ASSUME NEW D, NEW t \in Seq(D), NEW m \in 1..Len(t)
  PROVE  Lru!Without(t, m) = Dropped(t, m)
<1>0. Len(t) \in Nat /\ m \in Nat /\ m >= 1 /\ m <= Len(t) /\ Len(t) - 1 \in Nat
  OBVIOUS
<1>1. PICK a : a = SubSeq(t, 1, m - 1)
  OBVIOUS
<1>2. PICK b : b = SubSeq(t, m + 1, Len(t))
  OBVIOUS
<1>3. /\ a \in Seq(D) /\ Len(a) = m - 1
      /\ \A i \in 1..(m - 1) : a[i] = t[i]
  <2>1. 1 \in 1..(Len(t) + 1) /\ m - 1 \in 0..Len(t)
    BY <1>0
  <2> QED
    BY <1>0, <1>1, <2>1, SubSeqProperties
<1>4. /\ b \in Seq(D) /\ Len(b) = Len(t) - m
      /\ \A i \in 1..(Len(t) - m) : b[i] = t[m + i]
  <2>1. m + 1 \in 1..(Len(t) + 1) /\ Len(t) \in 0..Len(t)
    BY <1>0
  <2> QED
    BY <1>0, <1>2, <2>1, SubSeqProperties
<1>5. Lru!Without(t, m) = a \o b
  BY <1>1, <1>2 DEF Lru!Without
<1>6. /\ a \o b \in Seq(D) /\ Len(a \o b) = Len(t) - 1
      /\ \A i \in 1..(Len(t) - 1) : (a \o b)[i] = IF i < m THEN t[i] ELSE t[i + 1]
  <2>1. a \o b \in Seq(D) /\ Len(a \o b) = (m - 1) + (Len(t) - m)
        /\ \A i \in 1..((m - 1) + (Len(t) - m)) :
              (a \o b)[i] = IF i <= m - 1 THEN a[i] ELSE b[i - (m - 1)]
    <3>1. /\ a \o b \in Seq(D) /\ Len(a \o b) = Len(a) + Len(b)
          /\ \A i \in 1..(Len(a) + Len(b)) :
                (a \o b)[i] = IF i <= Len(a) THEN a[i] ELSE b[i - Len(a)]
      BY <1>3, <1>4, ConcatProperties
    <3> QED
      BY <1>3, <1>4, <3>1
  <2>2. (m - 1) + (Len(t) - m) = Len(t) - 1
    BY <1>0
  <2>3. ASSUME NEW i \in 1..(Len(t) - 1)
        PROVE  (a \o b)[i] = IF i < m THEN t[i] ELSE t[i + 1]
    <3>1. CASE i < m
      <4>1. i <= m - 1 /\ i \in 1..(m - 1)
        BY <1>0, <3>1
      <4> QED
        BY <1>3, <2>1, <2>2, <3>1, <4>1
    <3>2. CASE ~(i < m)
      <4>1. ~(i <= m - 1) /\ i - (m - 1) \in 1..(Len(t) - m) /\ m + (i - (m - 1)) = i + 1
        BY <1>0, <3>2
      <4> QED
        BY <1>4, <2>1, <2>2, <3>2, <4>1
    <3> QED
      BY <3>1, <3>2
  <2> QED
    BY <2>1, <2>2, <2>3
<1>7. Dropped(t, m) = [i \in 1..(Len(t) - 1) |-> IF i < m THEN t[i] ELSE t[i + 1]]
  BY DEF Dropped
<1>8. a \o b = [i \in 1..(Len(t) - 1) |-> (a \o b)[i]]
  <2>1. PICK c : c = a \o b
    OBVIOUS
  <2>2. c \in Seq(D) /\ Len(c) = Len(t) - 1
    BY <1>6, <2>1
  <2>3. c = [i \in 1..(Len(t) - 1) |-> c[i]]
    BY <1>0, <2>2
  <2> QED
    BY <2>1, <2>3
<1>9. a \o b = Dropped(t, m)
  BY <1>6, <1>7, <1>8
<1> QED
  BY <1>5, <1>9

\* The keys of what is dropped and of what is put first.
LEMMA KeysOfDropped ==
  ASSUME NEW h, NEW g, NEW s \in Seq(Elements), Once(s), NEW m \in 1..Len(s), NEW D,
         \A i \in 1..Len(s) : h[s[i]] \in D,
         \A i \in 1..Len(s) : i # m => g[s[i]] = h[s[i]]
  PROVE  KeysOf(g, Dropped(s, m)) = Dropped(KeysOf(h, s), m)
<1> DEFINE r == Dropped(s, m)
           t == KeysOf(h, s)
<1>0. Len(s) \in Nat /\ m \in Nat
  OBVIOUS
<1>1. Len(t) = Len(s) /\ \A i \in 1..Len(s) : t[i] = h[s[i]]
  BY KeysOfIs
<1>2. Len(r) = Len(s) - 1 /\ \A i \in 1..(Len(s) - 1) : r[i] = IF i < m THEN s[i] ELSE s[i + 1]
  BY DroppedFacts DEF Dropped
<1> HIDE DEF r, t
<1>3. ASSUME NEW i \in 1..(Len(s) - 1)
      PROVE  g[r[i]] = IF i < m THEN t[i] ELSE t[i + 1]
  <2>1. i \in 1..Len(s) /\ i + 1 \in 1..Len(s) /\ (i < m => i # m) /\ (~(i < m) => i + 1 # m)
    BY <1>0
  <2> QED
    BY <1>1, <1>2, <2>1
<1>4. KeysOf(g, r) = [n \in 1..(Len(s) - 1) |-> g[r[n]]]
  BY <1>2 DEF KeysOf
<1>5. Dropped(t, m) = [i \in 1..(Len(s) - 1) |-> IF i < m THEN t[i] ELSE t[i + 1]]
  BY <1>1 DEF Dropped
<1>6. KeysOf(g, r) = Dropped(t, m)
  BY <1>3, <1>4, <1>5
<1> QED
  BY <1>6 DEF r, t

LEMMA KeysOfFirst ==
  ASSUME NEW g, NEW s \in Seq(Elements), Once(s), NEW e \in Elements, e \notin Held(s), NEW D,
         g[e] \in D, \A i \in 1..Len(s) : g[s[i]] \in D
  PROVE  /\ KeysOf(g, First(e, s)) # << >>
         /\ Head(KeysOf(g, First(e, s))) = g[e]
         /\ Tail(KeysOf(g, First(e, s))) = KeysOf(g, s)
<1> DEFINE r == First(e, s)
           t == KeysOf(g, r)
<1>0. Len(s) \in Nat
  OBVIOUS
<1>1. /\ r \in Seq(Elements) /\ Len(r) = Len(s) + 1
      /\ \A i \in 1..(Len(s) + 1) : r[i] = IF i = 1 THEN e ELSE s[i - 1]
  BY FirstFacts DEF First
<1> HIDE DEF r
<1>2. ASSUME NEW i \in 1..(Len(s) + 1)
      PROVE  g[r[i]] \in D
  <2>1. i = 1 \/ i - 1 \in 1..Len(s)
    BY <1>0
  <2> QED
    BY <1>1, <2>1
<1>3. t \in Seq(D) /\ Len(t) = Len(s) + 1 /\ \A i \in 1..(Len(s) + 1) : t[i] = g[r[i]]
  BY <1>1, <1>2, KeysOfIs
<1> HIDE DEF t
<1>4. t # << >> /\ Head(t) = t[1] /\ 1 \in 1..(Len(s) + 1)
  BY <1>0, <1>3
<1>5. Tail(t) = [i \in 1..Len(s) |-> t[i + 1]]
  <2>1. PICK c : c = Tail(t)
    OBVIOUS
  <2>2. c \in Seq(D) /\ Len(c) = Len(t) - 1 /\ \A i \in 1..Len(c) : c[i] = t[i + 1]
    BY <1>3, <1>4, <2>1, HeadTailProperties
  <2>3. Len(c) = Len(s)
    BY <1>0, <1>3, <2>2
  <2>4. c = [i \in 1..Len(s) |-> t[i + 1]]
    BY <2>2, <2>3
  <2> QED
    BY <2>1, <2>4
<1>6. ASSUME NEW i \in 1..Len(s)
      PROVE  t[i + 1] = g[s[i]]
  <2>1. i + 1 \in 1..(Len(s) + 1) /\ i + 1 # 1 /\ (i + 1) - 1 = i
    BY <1>0
  <2> QED
    BY <1>1, <1>3, <2>1
<1>7. Tail(t) = KeysOf(g, s)
  BY <1>5, <1>6 DEF KeysOf
<1>8. Head(t) = g[e]
  BY <1>1, <1>3, <1>4
<1> QED
  BY <1>4, <1>7, <1>8 DEF r, t

\* What the reader of the list sees.
KeysInOrder == \A s, f \in Orders : Lists(s, f) => TheKeys = KeysOf(hash, s)

LEMMA TheKeysAre == KeysInOrder
<1> SUFFICES ASSUME NEW s \in Orders, NEW f \in Orders, Lists(s, f)
             PROVE  TheKeys = KeysOf(hash, s)
  BY DEF KeysInOrder
<1>1. ListOrder = s
  BY WalksAre
<1> QED
  BY <1>1 DEF TheKeys, KeysOf

LEMMA TheKeysStay ==
  ASSUME NEW s \in Orders, NEW f \in Orders, NEW r \in Orders, NEW g \in Orders, Lists(s, f), Lists(r, g)'
  PROVE  TheKeys = KeysOf(hash, s) /\ TheKeys' = KeysOf(hash', r)
<1>1. TheKeys = KeysOf(hash, s)
  BY TheKeysAre DEF KeysInOrder
<1>2. KeysInOrder'
  BY TheKeysAre, PTL
<1>3. Orders' = Orders
  OBVIOUS
<1>4. TheKeys' = KeysOf(hash', r)
  BY <1>2, <1>3 DEF KeysInOrder, KeysOf
<1> QED
  BY <1>1, <1>4

LEMMA LruInit == ALInit => Lru!LRUInit
<1> SUFFICES ASSUME ALInit
             PROVE  Lru!LRUInit
  OBVIOUS
<1>1. PICK s \in Orders : \E f \in Orders : Lists(s, f)
  BY InitLists DEF ALInv
<1>2. PICK f \in Orders : Lists(s, f)
  BY <1>1
<1>3. TheKeys = KeysOf(hash, s)
  BY <1>2, TheKeysAre DEF KeysInOrder
<1>4. Held(s) = {} /\ Len(s) \in Nat
  <2>1. Allocated = {}
    BY ElementFacts DEF ALInit, Allocated
  <2> QED
    BY <1>2, <2>1, ListFacts
<1>5. Len(s) = 0
  <2>1. Len(s) # 0 => s[1] \in Held(s)
    BY <1>4 DEF Held
  <2> QED
    BY <1>4, <2>1
<1>6. TheKeys = << >>
  BY <1>3, <1>5 DEF KeysOf
<1> QED
  BY <1>6 DEF ALInit, Lru!LRUInit

\* A chosen order is replaced: what the abstract step needs of the concrete one.
LEMMA LruUse ==
  ASSUME OneTable, NEW s \in Orders, NEW f \in Orders, Ready(s, f), NEW k \in Keys, UseKey(k)
  PROVE  Lru!Use(TheKeys, TheKeys')
<1>1. PICK m \in 1..Len(s), r \in Orders : r = First(s[m], Dropped(s, m)) /\ Lists(r, f)'
  BY UseKeyKeeps
<1>2. TheKeys = KeysOf(hash, s) /\ TheKeys' = KeysOf(hash, r)
  <2>1. hash' = hash
    BY DEF UseKey, Touch
  <2> QED
    BY <1>1, <2>1, TheKeysStay DEF Ready
<1>s. /\ s \in Seq(Elements) /\ Once(s) /\ Held(s) = Allocated
      /\ \A i \in 1..Len(s) : hash[s[i]] \in Keys
  <2>1. s \in Seq(Elements) /\ Once(s) /\ Held(s) = Allocated
    BY ListFacts DEF Ready
  <2> QED
    BY <2>1, ElementFacts DEF Held, Allocated, Ready, ALTypeOK
<1>3. PICK d : d = Dropped(s, m)
  OBVIOUS
<1>4. d \in Seq(Elements) /\ Once(d) /\ Held(d) = Held(s) \ {s[m]} /\ s[m] \in Elements
  BY <1>s, <1>3, DroppedFacts
<1>5. \A i \in 1..Len(d) : hash[d[i]] \in Keys
  <2>1. \A i \in 1..Len(d) : d[i] \in Held(s)
    BY <1>4 DEF Held
  <2> QED
    BY <1>s, <2>1 DEF Held
<1>6. PICK t : t = KeysOf(hash, s)
  OBVIOUS
<1>7. t \in Seq(Keys) /\ Len(t) = Len(s) /\ t[m] = hash[s[m]]
  BY <1>s, <1>6, KeysOfIs
<1>8. KeysOf(hash, d) = Dropped(t, m)
  BY <1>s, <1>3, <1>6, KeysOfDropped
<1>9. /\ KeysOf(hash, r) # << >> /\ Head(KeysOf(hash, r)) = hash[s[m]]
      /\ Tail(KeysOf(hash, r)) = KeysOf(hash, d)
  <2>1. s[m] \notin Held(d)
    BY <1>4
  <2> QED
    BY <1>s, <1>1, <1>3, <1>4, <1>5, <2>1, KeysOfFirst
<1>10. Lru!Without(t, m) = Dropped(t, m)
  BY <1>7, WithoutIs
<1>11. m \in 1..Len(t)
  BY <1>7
<1> QED
  BY <1>2, <1>6, <1>7, <1>8, <1>9, <1>10, <1>11 DEF Lru!Use

LEMMA LruDelete ==
  ASSUME OneTable, NEW s \in Orders, NEW f \in Orders, Ready(s, f), NEW m \in 1..Len(s),
         put = Idle, put' = Idle, evict' \in 0..MaxEvict, evict' > 0 => Len(s) > 1, DelEl(s[m])
  PROVE  /\ Lru!Remove(TheKeys, TheKeys')
         /\ m = Len(s) => Lru!EvictLast(TheKeys, TheKeys')
<1>1. PICK r \in Orders, g \in Orders :
         r = Dropped(s, m) /\ hash' = [hash EXCEPT ![s[m]] = NoHash] /\ Lists(r, g)'
  BY DelElKeeps
<1>2. TheKeys = KeysOf(hash, s) /\ TheKeys' = KeysOf(hash', r)
  BY <1>1, TheKeysStay DEF Ready
<1>s. /\ s \in Seq(Elements) /\ Once(s) /\ Held(s) = Allocated
      /\ \A i \in 1..Len(s) : hash[s[i]] \in Keys /\ s[i] \in All
      /\ hash \in [All -> Keys \cup {NoHash}]
  <2>1. s \in Seq(Elements) /\ Once(s) /\ Held(s) = Allocated
    BY ListFacts DEF Ready
  <2> QED
    BY <2>1, ElementFacts DEF Held, Allocated, Ready, ALTypeOK
<1>3. PICK t : t = KeysOf(hash, s)
  OBVIOUS
<1>4. t \in Seq(Keys) /\ Len(t) = Len(s)
  BY <1>s, <1>3, KeysOfIs
<1>5. \A i \in 1..Len(s) : i # m => hash'[s[i]] = hash[s[i]]
  BY <1>s, <1>1 DEF Once
<1>6. KeysOf(hash', r) = Dropped(t, m)
  <2>1. PICK h2 : h2 = hash'
    OBVIOUS
  <2>2. \A i \in 1..Len(s) : i # m => h2[s[i]] = hash[s[i]]
    BY <1>5, <2>1
  <2>3. \A i \in 1..Len(s) : hash[s[i]] \in Keys
    BY <1>s
  <2>4. KeysOf(h2, Dropped(s, m)) = Dropped(KeysOf(hash, s), m)
    BY <1>s, <2>2, <2>3, KeysOfDropped
  <2> QED
    BY <1>1, <1>3, <2>1, <2>4
<1>7. Lru!Without(t, m) = Dropped(t, m) /\ m \in 1..Len(t)
  BY <1>4, WithoutIs
<1>8. Lru!Remove(TheKeys, TheKeys')
  BY <1>2, <1>3, <1>6, <1>7 DEF Lru!Remove
<1>9. ASSUME m = Len(s)
      PROVE  Lru!EvictLast(TheKeys, TheKeys')
  <2>0. Len(t) \in Nat /\ m = Len(t) /\ t # << >>
    BY <1>4, <1>7, <1>9
  <2>1. PICK c : c = SubSeq(t, 1, Len(t) - 1)
    OBVIOUS
  <2>2. /\ c \in Seq(Keys) /\ Len(c) = Len(t) - 1
        /\ \A i \in 1..(Len(t) - 1) : c[i] = t[i]
    <3>1. \A i \in 1..(Len(t) - 1) : t[i] \in Keys
      BY <1>4, <2>0
    <3>2. /\ c \in Seq(Keys) /\ Len(c) = IF 1 <= Len(t) - 1 THEN (Len(t) - 1) - 1 + 1 ELSE 0
          /\ \A i \in 1..((Len(t) - 1) - 1 + 1) : c[i] = t[1 + i - 1]
      BY <2>0, <2>1, <3>1, SubSeqProperties
    <3> QED
      BY <1>4, <1>7, <2>0, <3>2
  <2>3. c = [i \in 1..(Len(t) - 1) |-> t[i]]
    BY <2>0, <2>2
  <2>4. Dropped(t, m) = [i \in 1..(Len(t) - 1) |-> t[i]]
    <3>1. \A i \in 1..(Len(t) - 1) : i < m
      BY <2>0
    <3> QED
      BY <3>1 DEF Dropped
  <2> QED
    BY <1>2, <1>3, <1>6, <2>0, <2>1, <2>3, <2>4 DEF Lru!EvictLast
<1> QED
  BY <1>8, <1>9

LEMMA LruInsert ==
  ASSUME OneTable, NEW s \in Orders, NEW f \in Orders, Ready(s, f), AddEl
  PROVE  Lru!Insert(TheKeys, TheKeys')
<1>1. PICK r \in Orders, g \in Orders :
            /\ r = First(put.off, s) /\ Len(r) = Len(s) + 1
            /\ put.off \in Elements /\ put.key \in Keys /\ hash' = [hash EXCEPT ![put.off] = put.key]
            /\ \A x \in Allocated : hash[x] # put.key
            /\ Lists(r, g)' /\ put.off \notin Held(s)
  BY AddElKeeps
<1>2. TheKeys = KeysOf(hash, s) /\ TheKeys' = KeysOf(hash', r)
  BY <1>1, TheKeysStay DEF Ready
<1>s. /\ s \in Seq(Elements) /\ Once(s) /\ Held(s) = Allocated
      /\ \A i \in 1..Len(s) : hash[s[i]] \in Keys /\ s[i] \in All /\ s[i] \in Allocated
      /\ hash \in [All -> Keys \cup {NoHash}]
  <2>1. s \in Seq(Elements) /\ Once(s) /\ Held(s) = Allocated
    BY ListFacts DEF Ready
  <2> QED
    BY <2>1, ElementFacts DEF Held, Allocated, Ready, ALTypeOK
<1>3. PICK e \in Elements : e = put.off
  BY <1>1
<1>4. hash'[e] = put.key /\ \A i \in 1..Len(s) : hash'[s[i]] = hash[s[i]]
  <2>1. \A i \in 1..Len(s) : s[i] # e
    BY <1>1, <1>3 DEF Held
  <2> QED
    BY <1>s, <1>1, <1>3, <2>1, ElementFacts
<1>5. KeysOf(hash', s) = KeysOf(hash, s)
  BY <1>4 DEF KeysOf
<1>6. /\ TheKeys' # << >> /\ Head(TheKeys') = put.key /\ Tail(TheKeys') = TheKeys
  <2>1. hash'[e] \in Keys /\ \A i \in 1..Len(s) : hash'[s[i]] \in Keys
    BY <1>s, <1>1, <1>4
  <2>2. /\ KeysOf(hash', First(e, s)) # << >> /\ Head(KeysOf(hash', First(e, s))) = hash'[e]
        /\ Tail(KeysOf(hash', First(e, s))) = KeysOf(hash', s)
    <3>1. PICK h2 : h2 = hash'
      OBVIOUS
    <3>2. h2[e] \in Keys /\ \A i \in 1..Len(s) : h2[s[i]] \in Keys
      BY <2>1, <3>1
    <3>3. e \notin Held(s)
      BY <1>1, <1>3
    <3>4. /\ KeysOf(h2, First(e, s)) # << >> /\ Head(KeysOf(h2, First(e, s))) = h2[e]
          /\ Tail(KeysOf(h2, First(e, s))) = KeysOf(h2, s)
      BY <1>s, <3>2, <3>3, KeysOfFirst
    <3> QED
      BY <3>1, <3>4
  <2> QED
    BY <1>1, <1>2, <1>3, <1>4, <1>5, <2>2
<1>7. Len(TheKeys) = Len(s) /\ \A i \in 1..Len(s) : TheKeys[i] = hash[s[i]]
  BY <1>s, <1>2, KeysOfIs
<1>8. Len(TheKeys) < M
  BY <1>s, <1>1, <1>7, OrdersAre, ElementFacts
<1>9. put.key \in Keys \ Lru!Held(TheKeys)
  BY <1>s, <1>1, <1>7 DEF Lru!Held
<1> QED
  BY <1>6, <1>8, <1>9 DEF Lru!Insert

LEMMA LruStep == OneTable /\ ALInv /\ ALInv' /\ [ALNext]_vars => [Lru!LRUNext]_<<TheKeys, evict > 0>>
<1> SUFFICES ASSUME OneTable, ALInv, ALInv', [ALNext]_vars
             PROVE  [Lru!LRUNext]_<<TheKeys, evict > 0>>
  OBVIOUS
<1>1. PICK s \in Orders : \E f \in Orders : Lists(s, f)
  BY DEF ALInv
<1>2. PICK f \in Orders : Ready(s, f)
  BY <1>1 DEF ALInv, Ready
<1>3. evict \in 0..MaxEvict /\ MaxEvict \in Nat
  BY RegionSize DEF ALInv, ALTypeOK
<1>4. ASSUME Lru!Insert(TheKeys, TheKeys') \/ Lru!Use(TheKeys, TheKeys') \/ Lru!Remove(TheKeys, TheKeys'),
             evict = 0, evict' = 0
      PROVE  Lru!LRUNext
  <2>1. ~(evict > 0) /\ (evict' > 0) = FALSE
    BY <1>4
  <2> QED
    BY <1>4, <2>1 DEF Lru!LRUNext
<1>5. ASSUME Lists(s, f)', hash' = hash
      PROVE  TheKeys' = TheKeys
  BY <1>2, <1>5, TheKeysStay DEF Ready, KeysOf
<1>6. CASE \E k \in Keys : UseKey(k)
  <2>1. evict = 0 /\ evict' = 0
    BY <1>6 DEF UseKey, Quiet
  <2> QED
    BY <1>2, <1>4, <1>6, <2>1, LruUse
<1>7. CASE AddEl
  <2>1. evict = 0 /\ evict' = 0
    BY <1>2, <1>7, AddElKeeps
  <2> QED
    BY <1>2, <1>4, <1>7, <2>1, LruInsert
<1>8. CASE \E k \in Keys : DelKey(k) \/ EvictNear(k)
  <2>1. PICK m \in 1..Len(s) :
            /\ DelEl(s[m]) /\ put = Idle /\ put' = Idle /\ evict' \in 0..MaxEvict
            /\ evict' > 0 => Len(s) > 1
    BY <1>2, <1>8, DeletedElement
  <2>2. evict = 0 /\ evict' = 0
    BY <1>8 DEF DelKey, EvictNear, Quiet
  <2>3. Lru!Remove(TheKeys, TheKeys')
    BY <1>2, <2>1, LruDelete
  <2> QED
    BY <1>4, <2>2, <2>3
<1>9. CASE EvictTail
  <2>1. PICK m \in 1..Len(s) :
            /\ DelEl(s[m]) /\ put = Idle /\ put' = Idle /\ evict' \in 0..MaxEvict
            /\ evict' > 0 => Len(s) > 1
            /\ m = Len(s)
    BY <1>2, <1>9, DeletedElement
  <2>2. evict > 0
    BY <1>9 DEF EvictTail
  <2>3. Lru!EvictLast(TheKeys, TheKeys')
    BY <1>2, <2>1, LruDelete
  <2>4. (evict' > 0) \in BOOLEAN
    OBVIOUS
  <2> QED
    BY <2>2, <2>3, <2>4 DEF Lru!LRUNext
<1>10. CASE \E max \in 1..MaxEvict : EvictStart(max)
  <2>1. ~(evict > 0) /\ evict' > 0
    BY <1>3, <1>10 DEF EvictStart, Quiet
  <2>2. TheKeys' = TheKeys
    <3>1. Lists(s, f)' /\ hash' = hash
      BY <1>2, <1>10, QuietKeeps DEF EvictStart, listVars
    <3> QED
      BY <1>5, <3>1
  <2>3. (evict' > 0) = TRUE
    BY <2>1
  <2> QED
    BY <2>1, <2>2, <2>3 DEF Lru!LRUNext
<1>11. CASE \E k \in Keys : AddStart(k)
  <2>1. Lists(s, f)' /\ hash' = hash /\ evict' = evict
    BY <1>2, <1>11, AddStartKeeps DEF AddStart, listVars
  <2> QED
    BY <1>5, <2>1
<1>12. CASE AddHop
  <2>1. Lists(s, f)' /\ hash' = hash /\ evict' = evict
    BY <1>2, <1>12, AddHopKeeps DEF AddHop, listVars
  <2> QED
    BY <1>5, <2>1
<1>13. CASE AddFails \/ UNCHANGED vars
  <2>1. Lists(s, f)' /\ hash' = hash /\ evict' = evict
    BY <1>2, <1>13, QuietKeeps DEF AddFails, listVars, vars
  <2> QED
    BY <1>5, <2>1
<1> QED
  BY <1>6, <1>7, <1>8, <1>9, <1>10, <1>11, <1>12, <1>13 DEF ALNext

\* The linked elements are an LRU order: a touch brings a key to the front, an eviction
\* takes the least recently used, and nothing else changes the order.
THEOREM ListIsLruOrder ==
  ASSUME OneTable
  PROVE  ALSpec => ImplementsLru
<1>1. ALInit => Lru!LRUInit
  BY LruInit
<1>2. ALInv /\ ALInv' /\ [ALNext]_vars => [Lru!LRUNext]_<<TheKeys, evict > 0>>
  BY LruStep
<1> QED
  BY <1>1, <1>2, CacheInvariant, PTL DEF ALSpec, ImplementsLru, Lru!LRUSpec
=============================================================================
