-------------------------- MODULE TableSearchProofs --------------------------
(***************************************************************************)
(* For every ordered table of every length, and every key: the searches of *)
(* TableSearch find the entry if there is one and nothing if there is      *)
(* none, and read no entry outside of the table.                           *)
(***************************************************************************)
EXTENDS TableSearch, TLAPS

\* What the state of a search is made of.
Typed ==
    /\ in \in Inputs
    /\ beg \in Nat
    /\ end \in Nat
    /\ n \in Int
    /\ pc \in {"first", "last", "halve", "scan", "done"}
    /\ result \in {None} \cup Index(in)

\* The bounds on every turn: beg and end stay in the table, and N is at most
\* what is left.
Bounds ==
    /\ pc = "first" => beg = 0 /\ end = in.len /\ n = in.len
    /\ pc = "last" => beg = 1 /\ end = in.len /\ n = in.len - 1
    /\ pc \in {"halve", "scan"} =>
          /\ 1 <= beg
          /\ end < in.len
    /\ pc = "halve" => n <= end - beg \/ beg >= end

SInv == Typed /\ Bounds /\ NotLeftBehind /\ FindsTheEntry

\* An entry is a hit exactly when it is wanted: the two bounds the code
\* compares are the two the definition asks for.
LEMMA HitIsWanted ==
    ASSUME NEW t \in Inputs, NEW i \in Index(t),
           t.alg = "u32b_search" => i < t.len - 1
    PROVE  Hit(t, i) <=> Wanted(t, i)
<1>0. t.alg \in Algorithms /\ Ordered(t)
  BY InputsAssumption
<1>1. CASE t.alg = "b_search"
  BY <1>0, <1>1 DEF Hit, Wanted, Ordered, Index
<1>2. CASE t.alg = "time_interval_b_search"
  BY <1>0, <1>2 DEF Hit, Wanted, Ordered, Index, Upper
<1>3. CASE t.alg = "u32b_search"
  <2>1. i \in Int /\ t.len \in Nat /\ i + 1 \in Index(t) /\ i < i + 1
    BY <1>0, <1>3 DEF Ordered, Index
  <2>2. Hit(t, i) <=> t.lb[i] <= t.key /\ t.key < t.lb[i + 1]
    BY <1>3 DEF Hit, Upper
  <2>3. \A j \in Index(t) : j > i => t.lb[i + 1] <= t.lb[j]
    <3> SUFFICES ASSUME NEW j \in Index(t), j > i
                 PROVE  t.lb[i + 1] <= t.lb[j]
      OBVIOUS
    <3>1. j = i + 1 \/ i + 1 < j
      BY <2>1 DEF Index
    <3> QED
      BY <3>1, <2>1, <1>0 DEF Ordered
  <2>4. t.key \in Nat /\ \A j \in Index(t) : t.lb[j] \in Nat
    BY <1>0 DEF Ordered
  <2>5. Wanted(t, i) <=>
          t.lb[i] <= t.key /\ \A j \in Index(t) : j > i => t.key < t.lb[j]
    BY <1>3 DEF Wanted
  <2>6. ASSUME t.key < t.lb[i + 1], NEW j \in Index(t), j > i
        PROVE  t.key < t.lb[j]
    BY <2>1, <2>3, <2>4, <2>6
  <2>7. Hit(t, i) => Wanted(t, i)
    BY <2>2, <2>5, <2>6
  <2>8. Wanted(t, i) => Hit(t, i)
    BY <2>1, <2>2, <2>5
  <2> QED
    BY <2>7, <2>8
<1> QED
  BY <1>0, <1>1, <1>2, <1>3 DEF Algorithms

\* The last bucket of an epoch list is a hit exactly when it is wanted.
LEMMA LastHitIsWanted ==
    ASSUME NEW t \in Inputs
    PROVE  HitLast(t, t.len - 1) <=> Wanted(t, t.len - 1)
<1>0. t.alg \in Algorithms /\ Ordered(t)
  BY InputsAssumption
<1>1. t.len - 1 \in Index(t)
  BY <1>0 DEF Ordered, Index
<1>2. CASE t.alg = "u32b_search"
  BY <1>0, <1>1, <1>2 DEF HitLast, Wanted, Ordered, Index
<1>3. CASE t.alg # "u32b_search"
  BY <1>0, <1>1, <1>3, HitIsWanted DEF HitLast
<1> QED
  BY <1>2, <1>3

\* Below an entry that lies below the key nothing is wanted, nor is it.
LEMMA NothingBelow ==
    ASSUME NEW t \in Inputs, NEW i \in Index(t), NEW j \in Index(t),
           t.alg = "u32b_search" => i < t.len - 1,
           Above(t, i), j <= i
    PROVE  ~Wanted(t, j)
<1>0. t.alg \in Algorithms /\ Ordered(t)
  BY InputsAssumption
<1>1. /\ i \in Int /\ j \in Int /\ t.key \in Nat /\ t.len \in Nat
      /\ t.lb[i] \in Nat /\ t.lb[j] \in Nat
      /\ t.ub[i] \in Nat /\ t.ub[j] \in Nat
  BY <1>0 DEF Ordered, Index
<1>2. j = i \/ j < i
  BY <1>1
<1>3. CASE t.alg = "b_search"
  BY <1>0, <1>1, <1>2, <1>3 DEF Above, Wanted, Ordered
<1>4. CASE t.alg = "time_interval_b_search"
  <2>1. t.key >= t.ub[i] /\ t.lb[i] <= t.ub[i]
    BY <1>0, <1>4 DEF Above, Upper, Ordered
  <2>2. Wanted(t, j) => t.key < t.ub[j] /\ t.lb[j] <= t.key
    BY <1>4 DEF Wanted
  <2>3. j < i => t.ub[j] <= t.lb[i] /\ t.lb[j] <= t.lb[i]
    BY <1>0, <1>4 DEF Ordered
  <2>4. j < i /\ Wanted(t, j) => t.key < t.lb[i]
    BY <2>2, <2>3, <1>1
  <2> QED
    BY <2>1, <2>2, <2>3, <2>4, <1>1, <1>2
<1>5. CASE t.alg = "u32b_search"
  <2>1. i + 1 \in Index(t) /\ i + 1 > j
    BY <1>0, <1>1, <1>5 DEF Index
  <2>2. t.key >= t.lb[i + 1] /\ t.lb[i + 1] \in Nat
    BY <1>0, <1>5, <2>1 DEF Above, Upper, Ordered
  <2>3. Wanted(t, j) => t.key < t.lb[i + 1]
    BY <1>5, <2>1 DEF Wanted
  <2> QED
    BY <1>1, <2>2, <2>3
<1> QED
  BY <1>0, <1>3, <1>4, <1>5 DEF Algorithms

\* Above an entry that is neither wanted nor below the key nothing is wanted.
LEMMA NothingAbove ==
    ASSUME NEW t \in Inputs, NEW i \in Index(t), NEW j \in Index(t),
           t.alg = "u32b_search" => i < t.len - 1,
           ~Hit(t, i), ~Above(t, i), i <= j
    PROVE  ~Wanted(t, j)
<1>0. t.alg \in Algorithms /\ Ordered(t)
  BY InputsAssumption
<1>1. /\ i \in Int /\ j \in Int /\ t.key \in Nat /\ t.len \in Nat
      /\ t.lb[i] \in Nat /\ t.lb[j] \in Nat
      /\ t.ub[i] \in Nat /\ t.ub[j] \in Nat
  BY <1>0 DEF Ordered, Index
<1>2. t.lb[i] <= t.lb[j]
  <2>1. i = j \/ i < j
    BY <1>1
  <2> QED
    BY <2>1, <1>0, <1>1 DEF Ordered
<1>3. t.key < t.lb[i]
  <2>1. CASE t.alg = "b_search"
    BY <1>1, <2>1 DEF Hit, Above
  <2>2. CASE t.alg = "time_interval_b_search"
    BY <1>1, <2>2 DEF Hit, Above, Upper
  <2>3. CASE t.alg = "u32b_search"
    <3>1. i + 1 \in Index(t)
      BY <1>0, <1>1, <2>3 DEF Index
    <3>2. t.lb[i + 1] \in Nat
      BY <1>0, <3>1 DEF Ordered
    <3> QED
      BY <1>1, <2>3, <3>2 DEF Hit, Above, Upper
  <2> QED
    BY <1>0, <2>1, <2>2, <2>3 DEF Algorithms
<1>4. Wanted(t, j) => t.lb[j] <= t.key
  BY <1>0, <1>1 DEF Wanted, Algorithms
<1> QED
  BY <1>1, <1>2, <1>3, <1>4

\* What the actions use of an input.
LEMMA InputFacts ==
    ASSUME NEW t \in Inputs
    PROVE  /\ t.alg \in Algorithms
           /\ t.len \in Nat \ {0}
           /\ t.alg = "u32b_search" => t.len > 1
BY InputsAssumption DEF Ordered

\* The first comparison of every search starts inside of the invariant.
LEMMA InitInv == Init => SInv
<1> SUFFICES ASSUME Init PROVE SInv
  OBVIOUS
<1> USE DEF Init
<1>1. in \in Inputs /\ in.len \in Nat \ {0}
  BY InputFacts
<1>2. Typed
  BY <1>1 DEF Typed
<1>3. Bounds
  BY <1>1 DEF Bounds
<1>4. NotLeftBehind
  BY DEF NotLeftBehind
<1>5. FindsTheEntry
  BY DEF FindsTheEntry
<1> QED
  BY <1>2, <1>3, <1>4, <1>5 DEF SInv

\* Ending at an entry that is wanted keeps the invariant.
LEMMA EndAtEntry ==
    ASSUME SInv, NEW i \in Index(in), Wanted(in, i),
           in' = in, beg' \in Nat, end' \in Nat, n' \in Int,
           pc' = "done", result' = i
    PROVE  SInv'
<1>1. Typed'
  BY DEF SInv, Typed
<1>2. Bounds'
  BY DEF Bounds
<1>3. NotLeftBehind'
  BY DEF NotLeftBehind
<1>4. i # None
  BY InputFacts DEF SInv, Typed, Index, None
<1>5. FindsTheEntry'
  BY <1>4 DEF FindsTheEntry
<1> QED
  BY <1>1, <1>2, <1>3, <1>5 DEF SInv

LEMMA FirstStep == SInv /\ CheckFirst => SInv'
<1> SUFFICES ASSUME SInv, CheckFirst PROVE SInv'
  OBVIOUS
<1>1. /\ Typed /\ Bounds /\ pc = "first" /\ in \in Inputs
      /\ beg = 0 /\ end = in.len /\ n = in.len /\ in.len \in Nat \ {0}
  BY InputFacts DEF SInv, Typed, Bounds, CheckFirst
<1>2. 0 \in Index(in) /\ (in.alg = "u32b_search" => 0 < in.len - 1)
  BY <1>1, InputFacts DEF Index
<1>3. Hit(in, 0) <=> Wanted(in, 0)
  BY <1>1, <1>2, HitIsWanted
<1>4. CASE Hit(in, 0)
  <2>1. Done(0)
    BY <1>4 DEF CheckFirst
  <2> QED
    BY <2>1, <1>1, <1>2, <1>3, <1>4, EndAtEntry DEF Done, Typed
<1>5. CASE ~Hit(in, 0)
  <2>1. /\ beg' = 1 /\ n' = n - 1 /\ pc' = "last"
        /\ in' = in /\ end' = end /\ result' = result
    BY <1>5 DEF CheckFirst
  <2>2. Typed' /\ Bounds'
    BY <1>1, <2>1 DEF Typed, Bounds
  <2>3. NotLeftBehind'
    <3> SUFFICES ASSUME NEW i \in Index(in), Wanted(in, i) PROVE 1 <= i
      BY <2>1 DEF NotLeftBehind
    <3>1. i # 0
      BY <1>3, <1>5
    <3> QED
      BY <3>1, <1>1 DEF Index
  <2>4. FindsTheEntry'
    BY <2>1 DEF FindsTheEntry
  <2> QED
    BY <2>2, <2>3, <2>4 DEF SInv
<1> QED
  BY <1>4, <1>5

LEMMA LastStep == SInv /\ CheckLast => SInv'
<1> SUFFICES ASSUME SInv, CheckLast PROVE SInv'
  OBVIOUS
<1>1. /\ Typed /\ Bounds /\ pc = "last" /\ in \in Inputs
      /\ beg = 1 /\ end = in.len /\ n = in.len - 1 /\ in.len \in Nat \ {0}
  BY InputFacts DEF SInv, Typed, Bounds, CheckLast
<1>2. end - 1 = in.len - 1 /\ in.len - 1 \in Index(in)
  BY <1>1 DEF Index
<1>3. HitLast(in, end - 1) <=> Wanted(in, in.len - 1)
  BY <1>1, <1>2, LastHitIsWanted
<1>4. CASE HitLast(in, end - 1)
  <2>1. Done(end - 1)
    BY <1>4 DEF CheckLast
  <2>2. /\ in' = in /\ beg' \in Nat /\ end' \in Nat /\ n' \in Int
        /\ pc' = "done" /\ result' = in.len - 1
    BY <2>1, <1>1, <1>2 DEF Done, Typed
  <2> QED
    BY <2>2, <1>2, <1>3, <1>4, EndAtEntry
<1>5. CASE ~HitLast(in, end - 1)
  <2>1. /\ end' = end - 1 /\ n' = n - 1 /\ pc' = "halve"
        /\ in' = in /\ beg' = beg /\ result' = result
    BY <1>5 DEF CheckLast
  <2>2. Typed'
    BY <1>1, <2>1 DEF Typed
  <2>3. Bounds'
    BY <1>1, <2>1 DEF Bounds
  <2>4. NotLeftBehind'
    <3> SUFFICES ASSUME NEW i \in Index(in), Wanted(in, i)
                 PROVE  1 <= i /\ i < in.len - 1
      BY <1>1, <1>2, <2>1 DEF NotLeftBehind
    <3>1. i # in.len - 1
      BY <1>3, <1>5
    <3>2. beg <= i
      BY <1>1 DEF SInv, NotLeftBehind
    <3> QED
      BY <3>1, <3>2, <1>1 DEF Index
  <2>5. FindsTheEntry'
    BY <2>1 DEF FindsTheEntry
  <2> QED
    BY <2>2, <2>3, <2>4, <2>5 DEF SInv
<1> QED
  BY <1>4, <1>5

\* The middle of a turn lies between the two ends.
LEMMA MiddleInside ==
    ASSUME SInv, pc = "halve", beg < end, n \div 2 > 0
    PROVE  /\ beg <= beg + n \div 2 /\ beg + n \div 2 < end
           /\ beg + n \div 2 \in Index(in)
           /\ n \div 2 \in Nat
           /\ n \div 2 <= end - (beg + n \div 2)
<1>1. /\ beg \in Nat /\ end \in Nat /\ n \in Int /\ n <= end - beg
      /\ end < in.len /\ 1 <= beg
  BY DEF SInv, Typed, Bounds
<1>2. in.len \in Nat
  BY InputFacts DEF SInv, Typed
<1>3. n \div 2 \in Int /\ 2 * (n \div 2) <= n
  BY <1>1
<1> QED
  BY <1>1, <1>2, <1>3 DEF Index

LEMMA HalveStep == SInv /\ Halve => SInv'
<1> SUFFICES ASSUME SInv, Halve PROVE SInv'
  OBVIOUS
<1> DEFINE half == n \div 2
           mid == beg + half
<1>1. /\ Typed /\ Bounds /\ pc = "halve" /\ in \in Inputs /\ beg < end
      /\ beg \in Nat /\ end \in Nat /\ n \in Int /\ 1 <= beg
      /\ end < in.len /\ in.len \in Nat /\ n' = half /\ half \in Int
  BY InputFacts DEF SInv, Typed, Bounds, Halve
<1>2. Walked(in) \in Nat
  BY DEF Walked
<1>3. CASE half <= Walked(in)
  <2>1. /\ pc' = "scan" /\ in' = in /\ beg' = beg /\ end' = end
        /\ result' = result
    BY <1>1, <1>3 DEF Halve
  <2>2. Typed' /\ Bounds'
    BY <1>1, <2>1 DEF Typed, Bounds
  <2>3. NotLeftBehind'
    BY <1>1, <2>1 DEF SInv, NotLeftBehind
  <2>4. FindsTheEntry'
    BY <2>1 DEF FindsTheEntry
  <2> QED
    BY <2>2, <2>3, <2>4 DEF SInv
<1>4. CASE half > Walked(in)
  <2>1. /\ beg <= mid /\ mid < end /\ mid \in Index(in) /\ half \in Nat
        /\ half <= end - mid
    BY <1>1, <1>2, <1>4, MiddleInside
  <2>2. mid \in Nat /\ ~(half <= Walked(in)) /\ ~(mid >= end)
    BY <1>1, <1>2, <1>4, <2>1
  <2>3. in.alg = "u32b_search" => mid < in.len - 1
    BY <1>1, <2>1
  <2>4. CASE Hit(in, mid)
    <3>1. /\ result' = mid /\ pc' = "done" /\ in' = in /\ beg' = beg
          /\ end' = end
      BY <1>1, <2>2, <2>4 DEF Halve
    <3>2. Wanted(in, mid)
      BY <1>1, <2>1, <2>3, <2>4, HitIsWanted
    <3> HIDE DEF mid, half
    <3> QED
      BY <3>1, <3>2, <1>1, <2>1, EndAtEntry
  <2>5. CASE ~Hit(in, mid) /\ Above(in, mid)
    <3>1. /\ beg' = mid /\ end' = end /\ in' = in /\ pc' = "halve"
          /\ result' = result
      BY <1>1, <2>2, <2>5 DEF Halve
    <3>2. Typed' /\ Bounds'
      BY <1>1, <2>1, <2>2, <3>1 DEF Typed, Bounds
    <3>3. NotLeftBehind'
      <4> SUFFICES ASSUME NEW i \in Index(in), Wanted(in, i)
                   PROVE  mid <= i /\ i < end
        BY <3>1 DEF NotLeftBehind
      <4>1. ~(i <= mid)
        BY <1>1, <2>1, <2>3, <2>5, NothingBelow
      <4>2. i < end
        BY <1>1 DEF SInv, NotLeftBehind
      <4> QED
        BY <4>1, <4>2, <2>2 DEF Index
    <3>4. FindsTheEntry'
      BY <3>1 DEF FindsTheEntry
    <3> QED
      BY <3>2, <3>3, <3>4 DEF SInv
  <2>6. CASE ~Hit(in, mid) /\ ~Above(in, mid)
    <3>1. /\ end' = mid /\ beg' = beg /\ in' = in /\ pc' = "halve"
          /\ result' = result
      BY <1>1, <2>2, <2>6 DEF Halve
    <3>2. Typed' /\ Bounds'
      BY <1>1, <2>1, <2>2, <3>1 DEF Typed, Bounds
    <3>3. NotLeftBehind'
      <4> SUFFICES ASSUME NEW i \in Index(in), Wanted(in, i)
                   PROVE  beg <= i /\ i < mid
        BY <3>1 DEF NotLeftBehind
      <4>1. ~(mid <= i)
        BY <1>1, <2>1, <2>3, <2>6, NothingAbove
      <4>2. beg <= i
        BY <1>1 DEF SInv, NotLeftBehind
      <4> QED
        BY <4>1, <4>2, <2>2 DEF Index
    <3>4. FindsTheEntry'
      BY <3>1 DEF FindsTheEntry
    <3> QED
      BY <3>2, <3>3, <3>4 DEF SInv
  <2> QED
    BY <2>4, <2>5, <2>6
<1> QED
  BY <1>1, <1>2, <1>3, <1>4

LEMMA ScanStep == SInv /\ Scan => SInv'
<1> SUFFICES ASSUME SInv, Scan PROVE SInv'
  OBVIOUS
<1>1. /\ Typed /\ Bounds /\ pc = "scan" /\ in \in Inputs /\ beg < end
      /\ beg \in Nat /\ end \in Nat /\ n \in Int /\ 1 <= beg
      /\ end < in.len /\ in.len \in Nat
  BY InputFacts DEF SInv, Typed, Bounds, Scan
<1>2. beg \in Index(in) /\ (in.alg = "u32b_search" => beg < in.len - 1)
  BY <1>1 DEF Index
<1>3. Hit(in, beg) <=> Wanted(in, beg)
  BY <1>1, <1>2, HitIsWanted
<1>4. CASE Hit(in, beg)
  <2>1. Done(beg)
    BY <1>4 DEF Scan
  <2> QED
    BY <2>1, <1>1, <1>2, <1>3, <1>4, EndAtEntry DEF Done
<1>5. CASE ~Hit(in, beg)
  <2>1. /\ beg' = beg + 1 /\ in' = in /\ end' = end /\ n' = n
        /\ pc' = pc /\ result' = result
    BY <1>5 DEF Scan
  <2>2. Typed' /\ Bounds'
    BY <1>1, <2>1 DEF Typed, Bounds
  <2>3. NotLeftBehind'
    <3> SUFFICES ASSUME NEW i \in Index(in), Wanted(in, i)
                 PROVE  beg + 1 <= i /\ i < end
      BY <1>1, <2>1 DEF NotLeftBehind
    <3>1. i # beg
      BY <1>3, <1>5
    <3>2. beg <= i /\ i < end
      BY <1>1 DEF SInv, NotLeftBehind
    <3> QED
      BY <3>1, <3>2, <1>1 DEF Index
  <2>4. FindsTheEntry'
    BY <1>1, <2>1 DEF FindsTheEntry
  <2> QED
    BY <2>2, <2>3, <2>4 DEF SInv
<1> QED
  BY <1>4, <1>5

LEMMA ExhaustedStep == SInv /\ Exhausted => SInv'
<1> SUFFICES ASSUME SInv, Exhausted PROVE SInv'
  OBVIOUS
<1>1. /\ Typed /\ pc \in {"halve", "scan"} /\ beg >= end
      /\ beg \in Nat /\ end \in Nat
      /\ result' = None /\ pc' = "done" /\ in' = in /\ beg' = beg
      /\ end' = end /\ n' = n
  BY DEF SInv, Typed, Exhausted, Done
<1>2. Typed' /\ Bounds'
  BY <1>1 DEF Typed, Bounds
<1>3. NotLeftBehind'
  BY <1>1 DEF NotLeftBehind
<1>4. ASSUME NEW i \in Index(in), Wanted(in, i)
      PROVE  FALSE
  <2>1. beg <= i /\ i < end
    BY <1>1, <1>4 DEF SInv, NotLeftBehind
  <2> QED
    BY <2>1, <1>1 DEF Index
<1>5. FindsTheEntry'
  BY <1>1, <1>4 DEF FindsTheEntry
<1> QED
  BY <1>2, <1>3, <1>5 DEF SInv

\* No step changes the invariant.
LEMMA NextInv == SInv /\ [Next]_vars => SInv'
<1>1. SInv /\ UNCHANGED vars => SInv'
  BY DEF SInv, Typed, Bounds, NotLeftBehind, FindsTheEntry, vars
<1> QED
  BY <1>1, FirstStep, LastStep, HalveStep, ScanStep, ExhaustedStep DEF Next

LEMMA InvariantHolds == Spec => []SInv
BY InitInv, NextInv, PTL DEF Spec

\* The ends, N and the result keep their types, and no search changes the
\* table it was given.
THEOREM SearchTypes == Spec => []TypeOK
<1>1. SInv => TypeOK
  BY InputsAssumption DEF SInv, Typed, TypeOK
<1> QED
  BY <1>1, InvariantHolds, PTL

\* Whatever the table and the key, a search that ends gives an entry that is
\* wanted, and nothing only when there is none: halving an N that is not the
\* length of what is left loses no entry (b_search, u32b_search,
\* time_interval_b_search).
THEOREM SearchIsCorrect == Spec => []FindsTheEntry
<1>1. SInv => FindsTheEntry
  BY DEF SInv
<1> QED
  BY <1>1, InvariantHolds, PTL

\* Whatever the table and the key, the entry wanted stays between the two
\* ends of what is left to search.
THEOREM NeverLeftBehind == Spec => []NotLeftBehind
<1>1. SInv => NotLeftBehind
  BY DEF SInv
<1> QED
  BY <1>1, InvariantHolds, PTL

\* Whatever the table, N never passes what is left: the middle read on a turn
\* lies in the table and the break at mid >= end is never taken.
THEOREM MiddleStaysInside == Spec => []MiddleIsInside
<1>1. SInv => MiddleIsInside
  <2> SUFFICES ASSUME SInv PROVE MiddleIsInside
    OBVIOUS
  <2>1. beg \in Nat /\ end \in Nat
    BY DEF SInv, Typed
  <2> QED
    BY <2>1 DEF SInv, Bounds, MiddleIsInside
<1> QED
  BY <1>1, InvariantHolds, PTL

=============================================================================
