-------------------------- MODULE FreeMemoryProofs --------------------------
(***************************************************************************)
(* For any number of threads, cells and claims, however claims and returns *)
(* overlap: until a swap of the head succeeds on a next that was read or   *)
(* written too long ago (stale, cut) no cell has two owners, none is       *)
(* missing and the stack changes at its top only; and a thread that claims *)
(* alone sees no cell come back but through the retry of a push.           *)
(*                                                                         *)
(* The invariant is about the live cells, those the head leads to, and     *)
(* about the list they are.  What a walk from the head meets is found by   *)
(* induction; it takes the least step of the walk that differs, since      *)
(* there is no rule of induction that the provers can instantiate.         *)
(***************************************************************************)
EXTENDS FreeMemory, FiniteSetTheorems, WellFoundedInduction, TLAPS

-----------------------------------------------------------------------------
(* Least elements, and the walk along the links                            *)

\* A set of natural numbers that is not empty has a least element.
LEMMA LeastElement ==
  ASSUME NEW S, S \subseteq Nat, S # {}
  PROVE  \E m \in S : \A n \in S : m <= n
<1> DEFINE R == OpToRel(<, Nat)
<1>1. IsWellFoundedOn(R, Nat)
  BY NatLessThanWellFounded
<1>2. PICK m \in S : \A n \in S : ~(<<n, m>> \in R)
  BY <1>1, WFMin
<1>3. R = {ss \in Nat \X Nat : ss[1] < ss[2]}
  BY DEF OpToRel
<1>4. ASSUME NEW n \in S
      PROVE  m <= n
  <2> HIDE DEF R
  <2>1. ~(<<n, m>> \in R)
    BY <1>2
  <2>2. ~(n < m)
    BY <2>1, <1>3
  <2> QED
    BY <2>2
<1> QED
  BY <1>4

\* Min, which is the stack's depth, is that element.
LEMMA MinIsLeast ==
  ASSUME NEW S, S \subseteq Nat, S # {}
  PROVE  Min(S) \in S /\ \A n \in S : Min(S) <= n
BY LeastElement DEF Min

\* The recursive definition of the walk has a solution: a function that obeys it
\* up to m - 1 can be continued to m.
WalkStep(nx, h, f, n) ==
  IF n = 0 THEN h ELSE IF f[n - 1] = END THEN END ELSE nx[f[n - 1]]

LEMMA WalkIsDefined ==
  ASSUME NEW nx, NEW h
  PROVE  Walk(nx, h) = [n \in 0..NCells |-> WalkStep(nx, h, Walk(nx, h), n)]
<1> DEFINE Part(f, m) == f = [n \in 0..m |-> WalkStep(nx, h, f, n)]
           Bad == {m \in 0..NCells : ~ \E f : Part(f, m)}
<1>0. NCells \in Nat
  BY FreeMemoryAssumption
<1>1. Bad = {}
  <2> SUFFICES ASSUME Bad # {}
               PROVE  FALSE
    OBVIOUS
  <2>1. PICK m \in Bad : \A n \in Bad : m <= n
    <3>1. Bad \subseteq Nat
      BY <1>0
    <3> HIDE DEF Bad
    <3> QED
      BY <3>1, LeastElement
  <2>2. m \in 0..NCells /\ ~ \E f : Part(f, m)
    BY <2>1
  <2>3. m # 0
    <3> DEFINE g == [n \in 0..0 |-> h]
    <3>1. Part(g, 0)
      BY DEF WalkStep
    <3> QED
      BY <3>1, <2>2
  <2>4. PICK f : Part(f, m - 1)
    <3>1. m - 1 \in 0..NCells /\ m - 1 < m
      BY <2>2, <2>3, <1>0
    <3>2. m - 1 \notin Bad
      BY <3>1, <2>1, <2>2, <1>0
    <3> HIDE DEF Part
    <3> QED
      BY <3>1, <3>2
  <2> DEFINE g == [n \in 0..m |-> IF n < m THEN f[n] ELSE WalkStep(nx, h, f, m)]
  <2>5. m \in Nat /\ m >= 1
    BY <2>2, <2>3, <1>0
  <2>6. ASSUME NEW n \in 0..m
        PROVE  g[n] = WalkStep(nx, h, g, n)
    <3>1. n # 0 => n - 1 \in 0..m /\ n - 1 < m
      BY <2>5
    <3>2. CASE n < m
      <4>1. f[n] = WalkStep(nx, h, f, n)
        BY <3>2, <2>4, <2>5
      <4> QED
        BY <4>1, <3>1, <3>2 DEF WalkStep
    <3>3. CASE n = m
      BY <3>1, <3>3, <2>5 DEF WalkStep
    <3> QED
      BY <3>2, <3>3, <2>5
  <2>7. Part(g, m)
    BY <2>6
  <2> QED
    BY <2>7, <2>2
<1>2. \E f : Part(f, NCells)
  <2> HIDE DEF Part
  <2> QED
    BY <1>0, <1>1
<1>3. Walk(nx, h) = CHOOSE f : Part(f, NCells)
  BY DEF Walk, WalkStep
<1>4. Part(Walk(nx, h), NCells)
  BY <1>2, <1>3
<1> QED
  BY <1>4

LEMMA WalkValues ==
  ASSUME NEW nx, NEW h
  PROVE  /\ Walk(nx, h)[0] = h
         /\ \A n \in 1..NCells :
              Walk(nx, h)[n] = IF Walk(nx, h)[n - 1] = END THEN END ELSE nx[Walk(nx, h)[n - 1]]
<1> DEFINE w == Walk(nx, h)
<1>1. w = [n \in 0..NCells |-> WalkStep(nx, h, w, n)]
  BY WalkIsDefined
<1> HIDE DEF w
<1>2. \A n \in 0..NCells : w[n] = WalkStep(nx, h, w, n)
  BY <1>1
<1>3. w[0] = h /\ \A n \in 1..NCells : w[n] = IF w[n - 1] = END THEN END ELSE nx[w[n - 1]]
  BY <1>2, FreeMemoryAssumption DEF WalkStep
<1> QED
  BY <1>3 DEF w

\* The stack is what the walk meets before its first END.
LEMMA StackIsWalk ==
  ASSUME NEW nx, NEW h
  PROVE  \E d \in 0..NCells :
            /\ StackOf(nx, h) = [n \in 1..d |-> Walk(nx, h)[n - 1]]
            /\ d = NCells \/ Walk(nx, h)[d] = END
            /\ \A n \in 0..(d - 1) : Walk(nx, h)[n] # END
<1> DEFINE w == Walk(nx, h)
           Ends == {n \in 0..NCells : n = NCells \/ w[n] = END}
<1>0. NCells \in Nat
  BY FreeMemoryAssumption
<1>1. Min(Ends) \in Ends /\ \A n \in Ends : Min(Ends) <= n
  <2>1. Ends \subseteq Nat /\ NCells \in Ends
    BY <1>0
  <2> HIDE DEF Ends
  <2> QED
    BY <2>1, MinIsLeast
<1>2. StackOf(nx, h) = [n \in 1..Min(Ends) |-> w[n - 1]]
  BY DEF StackOf
<1> DEFINE d == Min(Ends)
<1>3. d \in 0..NCells /\ (d = NCells \/ w[d] = END)
  BY <1>1
<1>4. \A n \in 0..(d - 1) : w[n] # END
  BY <1>0, <1>1, <1>3
<1> QED
  BY <1>2, <1>3, <1>4

-----------------------------------------------------------------------------
(* What a walk meets among live cells, and along a list                    *)

LEMMA ListsAre ==
  ASSUME NEW s
  PROVE  s \in Lists <=> s \in Seq(Cells) /\ Len(s) <= NCells
<1>0. NCells \in Nat
  BY FreeMemoryAssumption
<1>1. ASSUME s \in Lists
      PROVE  s \in Seq(Cells) /\ Len(s) <= NCells
  <2>1. PICK n \in 0..NCells : s \in [1..n -> Cells]
    BY <1>1 DEF Lists
  <2>2. s \in Seq(Cells) /\ Len(s) = n
    BY <2>1, <1>0
  <2> QED
    BY <2>1, <2>2, <1>0
<1>2. ASSUME s \in Seq(Cells), Len(s) <= NCells
      PROVE  s \in Lists
  <2>1. s \in [1..Len(s) -> Cells] /\ Len(s) \in 0..NCells
    BY <1>0, <1>2
  <2> QED
    BY <2>1 DEF Lists
<1> QED
  BY <1>1, <1>2

\* Live and IsChain, with nx and h for next and head.
LiveLinks(nx, h, l, r) ==
  /\ h \in l \cup {END}
  /\ \A c \in l : nx[c] \in l \cup {END} /\ (nx[c] # END => r[nx[c]] < r[c])

ListLinks(nx, h, s) ==
  /\ \A i, j \in 1..Len(s) : s[i] = s[j] => i = j
  /\ h = IF Len(s) = 0 THEN END ELSE s[1]
  /\ \A i \in 1..Len(s) : nx[s[i]] = IF i = Len(s) THEN END ELSE s[i + 1]

\* The walk meets live cells, each of a lower rank than those before.
LEMMA WalkGoesDown ==
  ASSUME NEW l, l \subseteq Cells, NEW r, r \in [Cells -> Nat], NEW nx, NEW h, LiveLinks(nx, h, l, r)
  PROVE  \A j \in 0..NCells :
            Walk(nx, h)[j] # END =>
              /\ Walk(nx, h)[j] \in l
              /\ \A i \in 0..(j - 1) : r[Walk(nx, h)[j]] < r[Walk(nx, h)[i]]
<1> DEFINE w == Walk(nx, h)
           Down(j) == w[j] # END => w[j] \in l /\ \A i \in 0..(j - 1) : r[w[j]] < r[w[i]]
           Bad == {j \in 0..NCells : ~ Down(j)}
<1>0. NCells \in Nat
  BY FreeMemoryAssumption
<1>w. w[0] = h /\ \A n \in 1..NCells : w[n] = IF w[n - 1] = END THEN END ELSE nx[w[n - 1]]
  BY WalkValues
<1> HIDE DEF w
<1>1. Bad = {}
  <2> SUFFICES ASSUME Bad # {}
               PROVE  FALSE
    OBVIOUS
  <2>1. PICK j \in Bad : \A n \in Bad : j <= n
    <3>1. Bad \subseteq Nat
      BY <1>0
    <3> HIDE DEF Bad
    <3> QED
      BY <3>1, LeastElement
  <2>2. j \in 0..NCells /\ w[j] # END /\ ~ Down(j)
    BY <2>1
  <2>3. j # 0
    BY <2>2, <1>w, <1>0 DEF LiveLinks
  <2>4. j \in 1..NCells /\ j - 1 \in 0..NCells /\ j \in Nat
    BY <2>2, <2>3, <1>0
  <2>5. w[j - 1] # END /\ w[j] = nx[w[j - 1]]
    BY <2>2, <2>4, <1>w
  <2>6. Down(j - 1)
    <3>1. j - 1 \notin Bad
      <4>1. ~(j <= j - 1)
        BY <2>4
      <4> HIDE DEF Bad
      <4> QED
        BY <4>1, <2>1
    <3> HIDE DEF Down
    <3> QED
      BY <3>1, <2>4
  <2>7. w[j - 1] \in l /\ w[j] \in l /\ r[w[j]] < r[w[j - 1]]
    BY <2>2, <2>5, <2>6 DEF LiveLinks
  <2>8. ASSUME NEW i \in 0..(j - 1)
        PROVE  r[w[j]] < r[w[i]]
    <3>1. CASE i = j - 1
      BY <3>1, <2>7
    <3>2. CASE i # j - 1
      <4>1. i \in 0..((j - 1) - 1)
        BY <3>2, <2>4
      <4>2. r[w[j - 1]] < r[w[i]]
        BY <4>1, <2>5, <2>6
      <4>3. i \in 0..NCells /\ i < j
        BY <2>2, <2>4, <1>0
      <4>4. w[i] \in l
        <5>1. i \notin Bad
          <6>1. ~(j <= i)
            BY <4>3, <2>4, <1>0
          <6> HIDE DEF Bad
          <6> QED
            BY <6>1, <2>1
        <5>2. w[i] # END
          <6>1. w[i] = END => \A n \in 0..NCells : n < i \/ w[n] = END
            <7> SUFFICES ASSUME w[i] = END, NEW n \in 0..NCells, ~(n < i), w[n] # END
                         PROVE  FALSE
              OBVIOUS
            <7> DEFINE Later == {k \in 0..NCells : ~(k < i) /\ w[k] # END}
            <7>1. Later \subseteq Nat /\ n \in Later
              BY <1>0
            <7>2. PICK k \in Later : \A m \in Later : k <= m
              <8> HIDE DEF Later
              <8> QED
                BY <7>1, LeastElement
            <7>3. k \in 0..NCells /\ ~(k < i) /\ w[k] # END /\ k # i
              BY <7>2
            <7>4. k \in 1..NCells /\ k - 1 \in 0..NCells /\ ~(k - 1 < i)
              BY <7>3, <4>3, <1>0
            <7>5. k - 1 \notin Later
              <8>1. ~(k <= k - 1)
                BY <7>3, <1>0
              <8> HIDE DEF Later
              <8> QED
                BY <8>1, <7>2
            <7>6. w[k - 1] = END
              BY <7>4, <7>5
            <7> QED
              BY <7>3, <7>4, <7>6, <1>w
          <6> QED
            BY <6>1, <4>3, <2>2, <2>4
        <5> QED
          BY <5>1, <5>2, <4>3
      <4>5. \A c \in l : r[c] \in Nat
        OBVIOUS
      <4> QED
        BY <4>2, <4>4, <4>5, <2>7
    <3> QED
      BY <3>1, <3>2
  <2> QED
    BY <2>2, <2>7, <2>8
<1> QED
  BY <1>1 DEF w

\* So the stack holds live cells, each once.
LEMMA StackOfLive ==
  ASSUME NEW l, l \subseteq Cells, NEW r, r \in [Cells -> Nat], NEW nx, NEW h, LiveLinks(nx, h, l, r)
  PROVE  LET st == StackOf(nx, h) IN
         /\ \E d \in Nat : DOMAIN st = 1..d
         /\ \A i \in DOMAIN st : st[i] \in l
         /\ \A i, j \in DOMAIN st : st[i] = st[j] => i = j
<1> DEFINE w == Walk(nx, h)
<1>0. NCells \in Nat
  BY FreeMemoryAssumption
<1>1. PICK d \in 0..NCells : /\ StackOf(nx, h) = [n \in 1..d |-> w[n - 1]]
                             /\ \A n \in 0..(d - 1) : w[n] # END
  BY StackIsWalk
<1>2. \A j \in 0..NCells : w[j] # END => w[j] \in l /\ \A i \in 0..(j - 1) : r[w[j]] < r[w[i]]
  BY WalkGoesDown
<1> DEFINE st == StackOf(nx, h)
<1> HIDE DEF w
<1>4. DOMAIN st = 1..d /\ \A i \in 1..d : st[i] = w[i - 1]
  BY <1>1
<1> HIDE DEF st
<1>5. ASSUME NEW i \in 1..d
      PROVE  st[i] \in l
  <2>1. i - 1 \in 0..NCells /\ i - 1 \in 0..(d - 1)
    BY <1>0
  <2> QED
    BY <2>1, <1>1, <1>2, <1>4
<1>6. ASSUME NEW i \in 1..d, NEW j \in 1..d, i < j
      PROVE  st[i] # st[j]
  <2>1. j - 1 \in 0..NCells /\ i - 1 \in 0..((j - 1) - 1) /\ j - 1 \in 0..(d - 1)
    BY <1>0, <1>6
  <2>2. r[st[j]] < r[st[i]]
    BY <2>1, <1>1, <1>2, <1>4
  <2>3. r[st[j]] \in Nat
    BY <1>5
  <2> QED
    BY <2>2, <2>3
<1>7. \A i, j \in 1..d : st[i] = st[j] => i = j
  <2>1. \A i, j \in 1..d : i < j \/ j < i \/ i = j
    BY <1>0
  <2> QED
    BY <2>1, <1>6
<1>8. d \in Nat
  BY <1>0
<1> QED
  BY <1>4, <1>5, <1>7, <1>8 DEF st

\* A stack that is a list is what the walk meets.
LEMMA StackIsList ==
  ASSUME NEW s \in Lists, NEW nx, NEW h, ListLinks(nx, h, s)
  PROVE  StackOf(nx, h) = s
<1> DEFINE w == Walk(nx, h)
           At(n) == IF n < Len(s) THEN s[n + 1] ELSE END
           Bad == {n \in 0..NCells : w[n] # At(n)}
<1>0. NCells \in Nat /\ s \in Seq(Cells) /\ Len(s) \in 0..NCells
  BY FreeMemoryAssumption, ListsAre
<1>c. \A i \in 1..Len(s) : s[i] # END
  BY <1>0 DEF Cells, END
<1>w. w[0] = h /\ \A n \in 1..NCells : w[n] = IF w[n - 1] = END THEN END ELSE nx[w[n - 1]]
  BY WalkValues
<1>d. PICK d \in 0..NCells : /\ StackOf(nx, h) = [n \in 1..d |-> w[n - 1]]
                             /\ d = NCells \/ w[d] = END
                             /\ \A n \in 0..(d - 1) : w[n] # END
  BY StackIsWalk
<1> HIDE DEF w
<1>1. Bad = {}
  <2> SUFFICES ASSUME Bad # {}
               PROVE  FALSE
    OBVIOUS
  <2>1. PICK m \in Bad : \A n \in Bad : m <= n
    <3>1. Bad \subseteq Nat
      BY <1>0
    <3> HIDE DEF Bad
    <3> QED
      BY <3>1, LeastElement
  <2>2. m \in 0..NCells /\ w[m] # At(m)
    BY <2>1
  <2>3. m # 0
    BY <2>2, <1>w, <1>0 DEF ListLinks
  <2>4. m - 1 \in 0..NCells /\ m \in 1..NCells /\ w[m - 1] = At(m - 1)
    BY <2>1, <2>2, <2>3, <1>0
  <2>5. CASE m - 1 < Len(s)
    <3>1. m \in 1..Len(s) /\ w[m - 1] = s[m]
      BY <2>4, <2>5, <1>0
    <3>2. w[m] = nx[s[m]]
      BY <3>1, <2>4, <1>w, <1>c
    <3> QED
      BY <3>1, <3>2, <2>2, <1>0 DEF ListLinks
  <2>6. CASE ~(m - 1 < Len(s))
    BY <2>2, <2>4, <2>6, <1>0, <1>w
  <2> QED
    BY <2>5, <2>6
<1>2. \A n \in 0..NCells : w[n] = At(n)
  BY <1>1
<1>3. d = Len(s)
  <2>1. ~(d < Len(s))
    BY <1>0, <1>2, <1>c, <1>d
  <2>2. ~(Len(s) < d)
    BY <1>0, <1>2, <1>d
  <2> QED
    BY <2>1, <2>2, <1>0
<1>4. \A n \in 1..d : w[n - 1] = s[n]
  BY <1>0, <1>2, <1>3
<1> QED
  BY <1>0, <1>3, <1>4, <1>d

-----------------------------------------------------------------------------
(* Types and control                                                       *)

Ops == [n : 0..MaxBatch, want : 0..MaxBatch, add : BOOLEAN,
        hdr : Cells \cup {END}, nxt : Cells \cup {END},
        got : SUBSET Cells, fc : 0..(Word - 1), store : 0..(Word - 1),
        cell : Cells \cup {END}]

LEMMA NoOpType == NoOp \in Ops
BY FreeMemoryAssumption DEF NoOp, Ops, END

\* A count that is a batch above or below its range wraps into it.
LEMMA WrapType ==
  ASSUME NEW x \in 0..(Word - 1), NEW n \in 0..MaxBatch
  PROVE  Wrap(x + n) \in 0..(Word - 1) /\ Wrap(x - n) \in 0..(Word - 1)
         /\ Wrap(x + 1) \in 0..(Word - 1) /\ Wrap(x - 1) \in 0..(Word - 1)
BY FreeMemoryAssumption DEF Wrap

LEMMA Consts ==
  /\ NCells \in Nat /\ NCells >= 1 /\ NCells < Word /\ Word \in Nat /\ MaxBatch \in Nat
  /\ END \notin Cells
BY FreeMemoryAssumption DEF Cells, END

\* Steps of a claim, by what they change.
Starts(t) == \E n \in 1..MaxBatch : Request(t, n) \/ ClaimUnasked(t, n)

\* Every step of a thread leaves the others where they are.
LEMMA OthersStay ==
  ASSUME TypeOK, NEW t \in Threads,
         \/ Starts(t) \/ Ask(t) \/ Claim(t) \/ (\E c \in Cells : ReturnCell(t, c)) \/ Return(t)
  PROVE  /\ team' = team
         /\ \A u \in Threads : u # t => pc'[u] = pc[u] /\ op'[u] = op[u]
<1>1. CASE Starts(t)
  BY <1>1 DEF Starts, TypeOK, Request, ClaimUnasked, Goto, Set
<1>2. CASE Ask(t)
  BY <1>2 DEF Ask, TypeOK, AskFree, AskTotal, AddRequest, Evict, Goto, Set
<1>3. CASE Claim(t)
  <2>1. CASE LoadHead(t) \/ LoadCount(t) \/ Reduce(t) \/ SwapCount(t)
    BY <2>1 DEF TypeOK, LoadHead, LoadCount, Reduce, SwapCount, Goto, Set
  <2>2. CASE ReadNext(t) \/ PopFails(t) \/ SwapHead(t)
    BY <2>2 DEF TypeOK, ReadNext, PopFails, SwapHead, Goto, Set
  <2>3. CASE CheckReserve(t) \/ NotifyEvictor(t) \/ ClaimSatisfied(t) \/ Claimed(t)
    BY <2>3 DEF TypeOK, CheckReserve, NotifyEvictor, ClaimSatisfied, Claimed, Goto, Set
  <2> QED
    BY <1>3, <2>1, <2>2, <2>3 DEF Claim
<1>4. CASE \E c \in Cells : ReturnCell(t, c)
  BY <1>4 DEF TypeOK, ReturnCell, Goto, Set
<1>5. CASE Return(t)
  BY <1>5 DEF Return, TypeOK, PushLoadHead, Link, PushSwap, Increment, Cap, Goto, Set
<1> QED
  BY <1>1, <1>2, <1>3, <1>4, <1>5

\* What a step does to the locals of its thread.
LEMMA OpStep ==
  ASSUME TypeOK, NEW t \in Threads, Control(t),
         \/ Starts(t) \/ Ask(t) \/ Claim(t) \/ (\E c \in Cells : ReturnCell(t, c)) \/ Return(t)
  PROVE  op' \in [Threads -> Ops]
<1> USE Consts
<1>0. /\ op \in [Threads -> Ops] /\ head \in Cells \cup {END} /\ next \in [Cells -> Cells \cup {END}]
      /\ count \in 0..(Word - 1) /\ requested \in 0..(Word - 1)
  BY DEF TypeOK, Ops
<1>a. op[t] \in Ops /\ NoOp \in Ops
  BY <1>0, NoOpType
<1>b. \A o \in Ops : op' = [op EXCEPT ![t] = o] => op' \in [Threads -> Ops]
  BY <1>0
<1>1. CASE Starts(t)
  <2>1. PICK n \in 1..MaxBatch : Request(t, n) \/ ClaimUnasked(t, n)
    BY <1>1 DEF Starts
  <2>2. n \in 0..MaxBatch
    OBVIOUS
  <2>3. /\ [NoOp EXCEPT !.n = n, !.want = n, !.add = TRUE] \in Ops
        /\ [NoOp EXCEPT !.n = n, !.want = n] \in Ops
    BY <2>2, <1>a DEF Ops
  <2> QED
    BY <2>1, <2>3, <1>b DEF Request, ClaimUnasked, Set
<1>2. CASE Ask(t)
  <2>1. CASE AskFree(t)
    <3>1. [op[t] EXCEPT !.fc = count] \in Ops
      BY <1>0, <1>a DEF Ops
    <3> QED
      BY <2>1, <3>1, <1>b DEF AskFree, Set
  <2>2. CASE AskTotal(t)
    <3>1. Wrap(requested + op[t].want) \in 0..(Word - 1)
      BY <1>0, <1>a, WrapType DEF Ops
    <3>2. [op[t] EXCEPT !.store = IF op[t].add THEN Wrap(requested + op[t].want) ELSE requested] \in Ops
      BY <1>0, <1>a, <3>1 DEF Ops
    <3> QED
      BY <2>2, <3>2, <1>b DEF AskTotal, Set
  <2>3. CASE AddRequest(t)
    <3>1. [op[t] EXCEPT !.add = FALSE] \in Ops
      BY <1>0, <1>a DEF Ops
    <3> QED
      BY <2>3, <3>1, <1>b DEF AddRequest, Set
  <2>4. CASE Evict(t)
    BY <2>4, <1>0 DEF Evict
  <2> QED
    BY <1>2, <2>1, <2>2, <2>3, <2>4 DEF Ask
<1>3. CASE Claim(t)
  <2>1. CASE LoadHead(t)
    <3>1. [op[t] EXCEPT !.hdr = head] \in Ops
      BY <1>0, <1>a DEF Ops
    <3> QED
      BY <2>1, <3>1, <1>a, <1>b DEF LoadHead, Set
  <2>2. CASE LoadCount(t)
    <3>1. [op[t] EXCEPT !.fc = count] \in Ops
      BY <1>0, <1>a DEF Ops
    <3> QED
      BY <2>2, <3>1, <1>b DEF LoadCount, Set
  <2>3. CASE Reduce(t)
    <3> DEFINE d == IF op[t].fc < op[t].want THEN 0 ELSE op[t].fc - op[t].want
    <3>1. d \in 0..(Word - 1)
      BY <1>a DEF Ops
    <3> HIDE DEF d
    <3>2. [op[t] EXCEPT !.store = d] \in Ops
      BY <1>a, <3>1 DEF Ops
    <3>3. op' = op \/ op' = [op EXCEPT ![t] = [op[t] EXCEPT !.store = d]]
      BY <2>3 DEF Reduce, Set, d
    <3> QED
      BY <3>2, <3>3, <1>0, <1>b
  <2>4. CASE SwapCount(t)
    <3>1. [op[t] EXCEPT !.fc = count] \in Ops
      BY <1>0, <1>a DEF Ops
    <3> QED
      BY <2>4, <3>1, <1>0, <1>b DEF SwapCount, Set
  <2>5. CASE ReadNext(t)
    <3>1. next[op[t].hdr] \in Cells \cup {END}
      BY <2>5, <1>0, <1>a DEF Ops, ReadNext, Fails
    <3>2. [op[t] EXCEPT !.nxt = next[op[t].hdr]] \in Ops
      BY <1>a, <3>1 DEF Ops
    <3> QED
      BY <2>5, <3>2, <1>b DEF ReadNext, Set
  <2>6. CASE PopFails(t) \/ Claimed(t)
    BY <2>6, <1>a, <1>b DEF PopFails, Claimed, Set
  <2>7. CASE SwapHead(t)
    <3>1. op[t].n - 1 \in 0..MaxBatch /\ op[t].hdr \in Cells
      BY <2>7, <1>a DEF SwapHead, Control, Loaded, Ops
    <3>2. [op[t] EXCEPT !.got = @ \cup {op[t].hdr}, !.n = @ - 1] \in Ops
      BY <3>1, <1>a DEF Ops
    <3>3. [op[t] EXCEPT !.hdr = head] \in Ops
      BY <1>0, <1>a DEF Ops
    <3> QED
      BY <3>2, <3>3, <2>7, <1>b DEF SwapHead, Set
  <2>8. CASE CheckReserve(t) \/ NotifyEvictor(t) \/ ClaimSatisfied(t)
    BY <2>8, <1>0 DEF CheckReserve, NotifyEvictor, ClaimSatisfied
  <2> QED
    BY <1>3, <2>1, <2>2, <2>3, <2>4, <2>5, <2>6, <2>7, <2>8 DEF Claim
<1>4. CASE \E c \in Cells : ReturnCell(t, c)
  <2>1. PICK c \in Cells : ReturnCell(t, c)
    BY <1>4
  <2>2. [op[t] EXCEPT !.cell = c] \in Ops
    BY <1>a DEF Ops
  <2> QED
    BY <2>1, <2>2, <1>0, <1>b DEF ReturnCell, Set
<1>5. CASE Return(t)
  <2>1. CASE PushLoadHead(t) \/ PushSwap(t)
    <3>1. [op[t] EXCEPT !.hdr = head] \in Ops
      BY <1>0, <1>a DEF Ops
    <3> QED
      BY <2>1, <3>1, <1>0, <1>b DEF PushLoadHead, PushSwap, Set
  <2>2. CASE Link(t)
    BY <2>2, <1>0 DEF Link
  <2>3. CASE Increment(t)
    <3>0. 0 \in 0..MaxBatch
      OBVIOUS
    <3>1. Wrap(count + 1) \in 0..(Word - 1)
      BY <1>0, <3>0, WrapType
    <3>2. [op[t] EXCEPT !.fc = Wrap(count + 1)] \in Ops
      BY <1>a, <3>1 DEF Ops
    <3> QED
      BY <2>3, <3>2, <1>b DEF Increment, Set
  <2>4. CASE Cap(t)
    <3>1. [op[t] EXCEPT !.fc = IF CapSwaps(t) THEN @ ELSE count] \in Ops
      BY <1>0, <1>a DEF Ops
    <3> QED
      BY <2>4, <3>1, <1>b DEF Cap, Set
  <2> QED
    BY <1>5, <2>1, <2>2, <2>3, <2>4 DEF Return
<1> QED
  BY <1>1, <1>2, <1>3, <1>4, <1>5

Labels == {"idle"} \cup Asking \cup Claiming \cup Pushing

\* Every step keeps the types; a swap of the head finds a claim that still wants cells.
LEMMA TypeStep ==
  ASSUME TypeOK, NEW t \in Threads, Control(t),
         \/ Starts(t) \/ Ask(t) \/ Claim(t) \/ (\E c \in Cells : ReturnCell(t, c)) \/ Return(t)
  PROVE  TypeOK'
<1> USE Consts
<1>0. op[t] \in Ops /\ NoOp \in Ops
  BY NoOpType DEF TypeOK, Ops
<1>1. op' \in [Threads -> Ops]
  BY OpStep
<1>w. /\ \A n \in 0..MaxBatch : Wrap(requested + n) \in 0..(Word - 1) /\ Wrap(requested - n) \in 0..(Word - 1)
      /\ Wrap(count + 1) \in 0..(Word - 1) /\ Wrap(count - 1) \in 0..(Word - 1)
  <2>1. 0 \in 0..MaxBatch
    OBVIOUS
  <2> QED
    BY <2>1, WrapType DEF TypeOK
<1>f. /\ count \in 0..(Word - 1) /\ requested \in 0..(Word - 1) /\ 0 \in 0..(Word - 1)
      /\ NCells \in 0..(Word - 1)
      /\ op[t].store \in 0..(Word - 1) /\ op[t].want \in 0..MaxBatch /\ op[t].nxt \in Cells \cup {END}
      /\ op[t].got \subseteq Cells /\ op[t].cell \in Cells \cup {END} /\ op[t].hdr \in Cells \cup {END}
  BY <1>0 DEF TypeOK, Ops
<1>2. pc' \in [Threads -> Labels]
  <2>0. pc \in [Threads -> Labels]
    BY DEF TypeOK, Labels
  <2>1. CASE Starts(t) \/ Ask(t)
    BY <2>0, <2>1 DEF Starts, Ask, Request, ClaimUnasked, AskFree, AskTotal, AddRequest, Evict, Goto,
       Labels, Asking, Claiming
  <2>2. CASE Claim(t)
    BY <2>0, <2>2 DEF Claim, Goto, Labels, Asking, Claiming, LoadHead, LoadCount, Reduce, SwapCount,
       ReadNext, PopFails, SwapHead, CheckReserve, NotifyEvictor, ClaimSatisfied, Claimed
  <2>3. CASE (\E c \in Cells : ReturnCell(t, c)) \/ Return(t)
    BY <2>0, <2>3 DEF ReturnCell, Return, Goto, Labels, Asking, Pushing, Home, PushLoadHead, Link,
       PushSwap, Increment, Cap
  <2> QED
    BY <2>1, <2>2, <2>3
<1>3. count' \in 0..(Word - 1) /\ requested' \in 0..(Word - 1)
  <2>1. CASE Starts(t) \/ Ask(t)
    BY <2>1, <1>f, <1>w DEF Starts, Ask, Request, ClaimUnasked, AskFree, AskTotal, AddRequest, Evict, stack
  <2>2. CASE Claim(t)
    BY <2>2, <1>f, <1>w DEF Claim, stack, LoadHead, LoadCount, Reduce, SwapCount,
       ReadNext, PopFails, SwapHead, CheckReserve, NotifyEvictor, ClaimSatisfied, Claimed
  <2>3. CASE (\E c \in Cells : ReturnCell(t, c)) \/ Return(t)
    BY <2>3, <1>f, <1>w DEF ReturnCell, Return, stack, PushLoadHead, Link, PushSwap, Increment, Cap
  <2> QED
    BY <2>1, <2>2, <2>3
<1>4. /\ next' \in [Cells -> Cells \cup {END}] /\ head' \in Cells \cup {END}
      /\ held' \subseteq Cells /\ lost' \subseteq Cells
  <2>0. /\ next \in [Cells -> Cells \cup {END}] /\ head \in Cells \cup {END}
        /\ held \subseteq Cells /\ lost \subseteq Cells
    BY DEF TypeOK
  <2>1. CASE Starts(t) \/ Ask(t)
    BY <2>0, <2>1 DEF Starts, Ask, Request, ClaimUnasked, AskFree, AskTotal, AddRequest, Evict, stack, cells
  <2>2. CASE Claim(t)
    BY <2>0, <2>2, <1>f DEF Claim, stack, cells, LoadHead, LoadCount, Reduce, SwapCount,
       ReadNext, PopFails, SwapHead, CheckReserve, NotifyEvictor, ClaimSatisfied, Claimed
  <2>3. CASE \E c \in Cells : ReturnCell(t, c)
    BY <2>0, <2>3, <1>f DEF ReturnCell, stack
  <2>4. CASE Return(t)
    BY <2>0, <2>4, <1>f DEF Return, stack, cells, PushLoadHead, Link, PushSwap, Increment, Cap
  <2> QED
    BY <2>1, <2>2, <2>3, <2>4
<1>5. gone' \subseteq Threads /\ stale' \in BOOLEAN /\ cut' \in BOOLEAN /\ evictor' \in BOOLEAN
  <2>0. gone \subseteq Threads /\ stale \in BOOLEAN /\ cut \in BOOLEAN /\ evictor \in BOOLEAN
    BY DEF TypeOK
  <2>1. CASE Starts(t) \/ Ask(t)
    BY <2>0, <2>1 DEF Starts, Ask, Request, ClaimUnasked, AskFree, AskTotal, AddRequest, Evict, history
  <2>2. CASE Claim(t)
    BY <2>0, <2>2 DEF Claim, history, Overtaken, LoadHead, LoadCount, Reduce, SwapCount,
       ReadNext, PopFails, SwapHead, CheckReserve, NotifyEvictor, ClaimSatisfied, Claimed
  <2>3. CASE \E c \in Cells : ReturnCell(t, c)
    BY <2>0, <2>3 DEF ReturnCell, history
  <2>4. CASE Return(t)
    BY <2>0, <2>4 DEF Return, history, PushLoadHead, Link, PushSwap, Increment, Cap
  <2> QED
    BY <2>1, <2>2, <2>3, <2>4
<1>6. team' = team
  BY OthersStay
<1> QED
  BY <1>1, <1>2, <1>3, <1>4, <1>5, <1>6 DEF TypeOK, Ops, Labels

\* A thread has what it needs at each control point.
LEMMA ControlStep ==
  ASSUME TypeOK, \A u \in Threads : Control(u), NEW t \in Threads,
         \/ Starts(t) \/ Ask(t) \/ Claim(t) \/ (\E c \in Cells : ReturnCell(t, c)) \/ Return(t)
  PROVE  \A u \in Threads : Control(u)'
<1> USE Consts
<1>0. /\ team' = team
      /\ \A u \in Threads : u # t => pc'[u] = pc[u] /\ op'[u] = op[u]
  BY OthersStay
<1>1. \A u \in Threads : u # t => Control(u)'
  BY <1>0 DEF Control
<1>c. Control(t) /\ pc \in [Threads -> Labels] /\ op \in [Threads -> Ops]
  BY DEF TypeOK, Labels, Ops
<1>2. CASE Starts(t)
  <2>1. PICK n \in 1..MaxBatch : Request(t, n) \/ ClaimUnasked(t, n)
    BY <1>2 DEF Starts
  <2>2. /\ t \in team.claim /\ pc'[t] \in {"ask", "head"}
        /\ op'[t].n = n /\ op'[t].got = {}
    BY <2>1, <1>c DEF Request, ClaimUnasked, Goto, Set, NoOp
  <2>3. Control(t)'
    BY <2>2, <1>0 DEF Control, Claiming, Asking, Loaded
  <2> QED
    BY <1>1, <2>3
<1>3. CASE Ask(t)
  <2>1. /\ pc[t] \in Asking /\ pc'[t] \in Asking \cup {"head", "notify"}
        /\ pc'[t] # "swap" /\ op'[t].n = op[t].n /\ op'[t].got = op[t].got
        /\ pc[t] \in {"total", "add"} \/ pc'[t] # "head"
    <3>1. CASE AskFree(t)
      BY <3>1, <1>c DEF AskFree, Goto, Set, Asking, Ops
    <3>2. CASE AskTotal(t)
      BY <3>2, <1>c DEF AskTotal, Goto, Set, Asking, Ops
    <3>3. CASE AddRequest(t) \/ Evict(t)
      BY <3>3, <1>c DEF AddRequest, Evict, Goto, Set, Asking, Ops
    <3> QED
      BY <1>3, <3>1, <3>2, <3>3 DEF Ask
  <2>2. pc'[t] = "head" => op[t].n # 0
    BY <2>1, <1>c DEF Control, Asking
  <2>3. Control(t)'
    BY <2>1, <2>2, <1>0, <1>c DEF Control, Claiming, Asking, Loaded
  <2> QED
    BY <1>1, <2>3
<1>4. CASE Claim(t)
  <2>1. CASE LoadHead(t)
    <3>1. pc[t] = "head" /\ pc'[t] \in {"idle", "count"} /\ op'[t].got = {}
          /\ (pc'[t] = "count" => op'[t].n = op[t].n)
          /\ (op'[t].n = op[t].n \/ op'[t].n = 0)
      BY <2>1, <1>c DEF LoadHead, Goto, Set, NoOp, Control, Claiming
    <3>2. Control(t)'
      BY <3>1, <1>0, <1>c DEF Control, Claiming, Asking, Loaded
    <3> QED
      BY <1>1, <3>2
  <2>2. CASE LoadCount(t) \/ Reduce(t) \/ SwapCount(t) \/ ReadNext(t)
    <3>1. /\ pc[t] \in Loaded /\ pc'[t] \in Loaded
          /\ op'[t].n = op[t].n /\ op'[t].got = op[t].got /\ op'[t].hdr = op[t].hdr
          /\ (pc'[t] = "swap" => op[t].hdr # END)
          /\ pc[t] \in {"read", "swap"} \/ pc'[t] \in {"reduce", "swapcount", "read"}
      <4>1. CASE LoadCount(t)
        BY <4>1, <1>c DEF LoadCount, Goto, Set, Loaded, Ops
      <4>2. CASE Reduce(t)
        BY <4>2, <1>c DEF Reduce, Goto, Set, Loaded, Ops
      <4>3. CASE SwapCount(t)
        BY <4>3, <1>c DEF SwapCount, Goto, Set, Loaded, Ops
      <4>4. CASE ReadNext(t)
        BY <4>4, <1>c DEF ReadNext, Fails, Goto, Set, Loaded, Ops
      <4> QED
        BY <2>2, <4>1, <4>2, <4>3, <4>4
    <3>2. pc[t] \in Claiming \cup Asking /\ pc'[t] \in Claiming
      BY <3>1 DEF Loaded, Claiming
    <3>3. op'[t].got = {} \/ pc[t] \in {"read"}
      BY <2>2, <3>1, <1>c DEF Control, Claiming, Loaded, LoadCount, Reduce, SwapCount, ReadNext
    <3>5. pc'[t] \in {"swap"} \/ op'[t].got = {}
      BY <2>2, <3>1, <3>3, <1>c DEF LoadCount, Reduce, SwapCount, ReadNext, Goto
    <3>4. Control(t)'
      BY <3>1, <3>2, <3>5, <1>0, <1>c DEF Control, Claiming, Asking, Loaded
    <3> QED
      BY <1>1, <3>4
  <2>3. CASE PopFails(t) \/ Claimed(t)
    <3>1. pc'[t] = "idle" /\ op'[t] = NoOp
      BY <2>3, <1>c DEF PopFails, Claimed, Goto, Set
    <3>2. Control(t)'
      BY <3>1, <1>0 DEF Control, Claiming, Asking, Loaded, NoOp
    <3> QED
      BY <1>1, <3>2
  <2>4. CASE SwapHead(t)
    <3>1. /\ pc[t] = "swap" /\ pc'[t] \in {"read", "reserve"}
          /\ (op'[t].n = op[t].n \/ op'[t].n = op[t].n - 1)
          /\ (op[t].n = 1 => op'[t].n = op[t].n \/ pc'[t] = "reserve")
          /\ (pc'[t] = "reserve" => op'[t].got # {})
      <4>0. op[t] \in Ops /\ pc[t] = "swap"
        BY <2>4, <1>c DEF SwapHead
      <4>1. CASE head = op[t].hdr
        <5>1. /\ op'[t] = [op[t] EXCEPT !.got = @ \cup {op[t].hdr}, !.n = @ - 1]
              /\ pc'[t] = IF op[t].n = 1 THEN "reserve" ELSE "read"
          BY <2>4, <4>1, <1>c DEF SwapHead, Goto, Set
        <5>2. op'[t].got = op[t].got \cup {op[t].hdr} /\ op'[t].n = op[t].n - 1
          BY <4>0, <5>1 DEF Ops
        <5> QED
          BY <4>0, <5>1, <5>2
      <4>2. CASE head # op[t].hdr
        <5>1. op'[t] = [op[t] EXCEPT !.hdr = head] /\ pc'[t] = "read"
          BY <2>4, <4>2, <1>c DEF SwapHead, Goto, Set
        <5> QED
          BY <4>0, <5>1 DEF Ops
      <4> QED
        BY <4>1, <4>2
    <3>2. op[t].n \in Nat /\ op[t].n # 0
      BY <3>1, <1>c DEF Control, Loaded, Ops
    <3>4. t \in team.claim
      BY <3>1, <1>c DEF Control, Claiming
    <3>3. Control(t)'
      BY <3>1, <3>2, <3>4, <1>0 DEF Control, Claiming, Asking, Loaded
    <3> QED
      BY <1>1, <3>3
  <2>5. CASE CheckReserve(t) \/ NotifyEvictor(t) \/ ClaimSatisfied(t)
    <3>1. /\ pc[t] \in {"reserve", "notify", "load"} /\ op'[t] = op[t]
          /\ pc'[t] \in {"notify", "load", "ask", "clear", "subtract"}
          /\ (pc'[t] = "ask" => op[t].got = {} /\ pc[t] = "notify")
          /\ (pc'[t] = "notify" => pc[t] \in {"reserve", "notify"})
      BY <2>5, <1>c DEF CheckReserve, NotifyEvictor, ClaimSatisfied, Goto
    <3>4. t \in team.claim
      BY <3>1, <1>c DEF Control, Claiming
    <3>2. Control(t)'
      BY <3>1, <3>4, <1>0 DEF Control, Claiming, Asking, Loaded
    <3> QED
      BY <1>1, <3>2
  <2> QED
    BY <1>4, <2>1, <2>2, <2>3, <2>4, <2>5 DEF Claim
<1>5. CASE \E c \in Cells : ReturnCell(t, c)
  <2>1. /\ pc[t] \in {"idle", "evict"}
        /\ \/ pc'[t] = pc[t] /\ op'[t] = op[t]
           \/ pc'[t] = "pushhead" /\ op'[t].cell # END /\ op'[t].n = op[t].n /\ op'[t].got = op[t].got
    BY <1>5, <1>c DEF ReturnCell, Goto, Set, Ops
  <2>2. op[t].got = {}
    BY <2>1, <1>c DEF Control, Claiming
  <2>3. Control(t)'
    <3>1. CASE pc'[t] = pc[t] /\ op'[t] = op[t]
      BY <3>1, <1>0, <1>c DEF Control
    <3>2. CASE pc'[t] = "pushhead" /\ op'[t].cell # END /\ op'[t].n = op[t].n /\ op'[t].got = op[t].got
      BY <3>2, <2>2, <1>0, <1>c DEF Control, Claiming, Asking, Loaded
    <3> QED
      BY <2>1, <3>1, <3>2
  <2> QED
    BY <1>1, <2>3
<1>6. CASE Return(t)
  <2>1. /\ pc[t] \in Pushing /\ pc'[t] \in Pushing \cup {"idle", "evict"}
        /\ op'[t].n = op[t].n /\ op'[t].got = op[t].got /\ op'[t].cell = op[t].cell
        /\ (pc'[t] = "evict" => op[t].n # 0)
        /\ (pc'[t] \in {"pushhead", "link", "pushswap"} => pc[t] \in {"pushhead", "link", "pushswap"})
    <3>1. CASE PushLoadHead(t)
      BY <3>1, <1>c DEF PushLoadHead, Goto, Set, Pushing, Ops
    <3>2. CASE Link(t)
      BY <3>2, <1>c DEF Link, Goto, Pushing, Ops
    <3>3. CASE PushSwap(t)
      BY <3>3, <1>c DEF PushSwap, Goto, Set, Pushing, Ops
    <3>4. CASE Increment(t)
      BY <3>4, <1>c DEF Increment, Goto, Set, Pushing, Home, Ops
    <3>5. CASE Cap(t)
      BY <3>5, <1>c DEF Cap, Goto, Set, Pushing, Home, Ops
    <3> QED
      BY <1>6, <3>1, <3>2, <3>3, <3>4, <3>5 DEF Return
  <2>2. op[t].got = {}
    BY <2>1, <1>c DEF Control, Claiming, Pushing
  <2>3. Control(t)'
    BY <2>1, <2>2, <1>0, <1>c DEF Control, Claiming, Asking, Loaded, Pushing
  <2> QED
    BY <1>1, <2>3
<1> QED
  BY <1>2, <1>3, <1>4, <1>5, <1>6

-----------------------------------------------------------------------------
(* Steps that leave the stack and the cells alone                          *)

QuietStep(t) ==
  \/ Starts(t) \/ Ask(t)
  \/ LoadHead(t) \/ LoadCount(t) \/ Reduce(t) \/ SwapCount(t) \/ ReadNext(t)
  \/ SwapHead(t) /\ head # op[t].hdr
  \/ CheckReserve(t) \/ NotifyEvictor(t) \/ ClaimSatisfied(t)
  \/ PushLoadHead(t)
  \/ PushSwap(t) /\ head # op[t].hdr
  \/ Increment(t) \/ Cap(t)

LEMMA QuietFrame ==
  ASSUME TypeOK, NEW t \in Threads, QuietStep(t)
  PROVE  /\ next' = next /\ head' = head /\ held' = held /\ lost' = lost
         /\ stale' = stale /\ cut' = cut /\ gone' \in {gone, gone \ {t}}
BY DEF TypeOK, QuietStep, Starts, Request, ClaimUnasked, Ask, AskFree, AskTotal, AddRequest, Evict,
   LoadHead, LoadCount, Reduce, SwapCount, ReadNext, SwapHead, CheckReserve, NotifyEvictor,
   ClaimSatisfied, PushLoadHead, PushSwap, Increment, Cap, stack, cells, history

LEMMA QuietOthers ==
  ASSUME TypeOK, NEW t \in Threads, QuietStep(t)
  PROVE  /\ team' = team
         /\ \A u \in Threads : u # t => pc'[u] = pc[u] /\ op'[u] = op[u]
BY OthersStay DEF QuietStep, Claim, Return

\* What the thread itself has afterwards.
LEMMA QuietOwn ==
  ASSUME TypeOK, NEW t \in Threads, Control(t), QuietStep(t)
  PROVE  /\ op'[t].got = op[t].got /\ Pushed(t)' = Pushed(t)
         /\ pc'[t] \in Loaded =>
              \/ op'[t].hdr = head /\ t \notin gone'
              \/ pc[t] \in Loaded /\ op'[t].hdr = op[t].hdr /\ gone' = gone
         /\ pc'[t] = "swap" => op'[t].nxt = next[op'[t].hdr]
         /\ pc'[t] = "link" => op'[t].hdr = head
         /\ pc'[t] = "pushswap" => pc[t] = "pushswap" /\ op'[t].cell = op[t].cell /\ gone' = gone
<1> USE Consts
<1>c. /\ Control(t) /\ pc \in [Threads -> Labels] /\ op \in [Threads -> Ops]
      /\ op[t] \in Ops /\ pc[t] \in Labels
  BY DEF TypeOK, Labels, Ops
<1>1. CASE Starts(t)
  <2>1. PICK n \in 1..MaxBatch : Request(t, n) \/ ClaimUnasked(t, n)
    BY <1>1 DEF Starts
  <2>2. pc[t] = "idle" /\ pc'[t] \in {"ask", "head"} /\ op'[t].got = {} /\ op[t].got = {}
    BY <2>1, <1>c DEF Request, ClaimUnasked, Goto, Set, NoOp, Control, Claiming
  <2> QED
    BY <2>2 DEF Pushed, Loaded
<1>2. CASE Ask(t)
  <2>1. pc[t] \in Asking /\ pc'[t] \in Asking \cup {"head", "notify"}
    BY <1>2, <1>c DEF Ask, AskFree, AskTotal, AddRequest, Evict, Goto, Asking
  <2>2. op'[t].got = op[t].got
    <3>1. CASE AskFree(t) \/ AddRequest(t) \/ Evict(t)
      BY <3>1, <1>c DEF AskFree, AddRequest, Evict, Set, Ops
    <3>2. CASE AskTotal(t)
      BY <3>2, <1>c DEF AskTotal, Set, Ops
    <3> QED
      BY <1>2, <3>1, <3>2 DEF Ask
  <2> QED
    BY <2>1, <2>2 DEF Pushed, Loaded, Asking
<1>3. CASE LoadHead(t)
  <2>1. pc[t] = "head" /\ op[t].got = {} /\ t \notin gone'
    BY <1>3, <1>c DEF LoadHead, Control, Claiming
  <2>2. CASE head = END
    BY <2>1, <2>2, <1>3, <1>c DEF LoadHead, Goto, Set, NoOp, Pushed, Loaded
  <2>3. CASE head # END
    <3>1. op'[t] = [op[t] EXCEPT !.hdr = head] /\ pc'[t] = "count"
      BY <2>3, <1>3, <1>c DEF LoadHead, Goto, Set
    <3>2. op'[t].hdr = head /\ op'[t].got = op[t].got
      BY <3>1, <1>c DEF Ops
    <3> QED
      BY <2>1, <3>1, <3>2 DEF Pushed, Loaded
  <2> QED
    BY <2>2, <2>3
<1>4. CASE LoadCount(t) \/ Reduce(t) \/ SwapCount(t)
  <2>1. /\ pc[t] \in Loaded /\ pc'[t] \in Loaded \ {"swap"} /\ gone' = gone
    BY <1>4, <1>c DEF LoadCount, Reduce, SwapCount, Goto, Loaded, history
  <2>2. op'[t].got = op[t].got /\ op'[t].hdr = op[t].hdr
    <3>1. CASE LoadCount(t)
      BY <3>1, <1>c DEF LoadCount, Set, Ops
    <3>2. CASE Reduce(t)
      BY <3>2, <1>c DEF Reduce, Set, Ops
    <3>3. CASE SwapCount(t)
      BY <3>3, <1>c DEF SwapCount, Set, Ops
    <3> QED
      BY <1>4, <3>1, <3>2, <3>3
  <2> QED
    BY <2>1, <2>2 DEF Pushed, Loaded
<1>5. CASE ReadNext(t)
  <2>1. pc[t] = "read" /\ pc'[t] = "swap" /\ gone' = gone
        /\ op'[t] = [op[t] EXCEPT !.nxt = next[op[t].hdr]]
    BY <1>5, <1>c DEF ReadNext, Goto, Set, history
  <2>2. op'[t].got = op[t].got /\ op'[t].hdr = op[t].hdr /\ op'[t].nxt = next[op[t].hdr]
    BY <2>1, <1>c DEF Ops
  <2> QED
    BY <2>1, <2>2 DEF Pushed, Loaded
<1>6. CASE SwapHead(t) /\ head # op[t].hdr
  <2>1. pc[t] = "swap" /\ pc'[t] = "read" /\ t \notin gone' /\ op'[t] = [op[t] EXCEPT !.hdr = head]
    BY <1>6, <1>c DEF SwapHead, Goto, Set
  <2>2. op'[t].got = op[t].got /\ op'[t].hdr = head
    BY <2>1, <1>c DEF Ops
  <2> QED
    BY <2>1, <2>2 DEF Pushed, Loaded
<1>7. CASE CheckReserve(t) \/ NotifyEvictor(t) \/ ClaimSatisfied(t)
  <2>1. pc[t] \in Claiming /\ pc'[t] \in {"notify", "load", "ask", "clear", "subtract"} /\ op' = op
    BY <1>7, <1>c DEF CheckReserve, NotifyEvictor, ClaimSatisfied, Goto, Claiming
  <2> QED
    BY <2>1 DEF Pushed, Loaded, Claiming
<1>8. CASE PushLoadHead(t)
  <2>1. pc[t] = "pushhead" /\ pc'[t] = "link" /\ op'[t] = [op[t] EXCEPT !.hdr = head]
    BY <1>8, <1>c DEF PushLoadHead, Goto, Set
  <2>2. op'[t].got = op[t].got /\ op'[t].hdr = head /\ op'[t].cell = op[t].cell
    BY <2>1, <1>c DEF Ops
  <2> QED
    BY <2>1, <2>2 DEF Pushed, Loaded
<1>9. CASE PushSwap(t) /\ head # op[t].hdr
  <2>1. pc[t] = "pushswap" /\ pc'[t] = "pushswap" /\ op'[t] = [op[t] EXCEPT !.hdr = head] /\ gone' = gone
    BY <1>9, <1>c DEF PushSwap, Set
  <2>2. op'[t].got = op[t].got /\ op'[t].cell = op[t].cell
    BY <2>1, <1>c DEF Ops
  <2> QED
    BY <2>1, <2>2 DEF Pushed, Loaded
<1>10. CASE Increment(t) \/ Cap(t)
  <2>1. pc[t] \in {"increment", "cap", "uncount"} /\ pc'[t] \in {"cap", "uncount", "idle", "evict"}
    BY <1>10, <1>c DEF Increment, Cap, Goto, Home
  <2>2. op'[t].got = op[t].got
    <3>1. CASE Increment(t)
      BY <3>1, <1>c DEF Increment, Set, Ops
    <3>2. CASE Cap(t)
      BY <3>2, <1>c DEF Cap, Set, Ops
    <3> QED
      BY <1>10, <3>1, <3>2
  <2> QED
    BY <2>1, <2>2 DEF Pushed, Loaded
<1> QED
  BY <1>1, <1>2, <1>3, <1>4, <1>5, <1>6, <1>7, <1>8, <1>9, <1>10 DEF QuietStep

\* The cells keep their places.
LEMMA OutKept ==
  ASSUME held' = held, lost' = lost, \A u \in Threads : Holds(u)' = Holds(u), NEW c
  PROVE  Out(c)' = Out(c)
BY DEF Out

LEMMA PlacedKept ==
  ASSUME NEW l, Placed(l), held' = held, lost' = lost, \A u \in Threads : Holds(u)' = Holds(u)
  PROVE  Placed(l)'
<1>1. \A c \in l : Out(c)' = Out(c)
  BY OutKept
<1> QED
  BY <1>1 DEF Placed

LEMMA LiveKept ==
  ASSUME NEW l, \E r \in Ranks(l) : Live(l, r), head' = head, \A c \in l : next'[c] = next[c]
  PROVE  \E r \in Ranks(l) : Live(l, r)'
BY DEF Live

LEMMA QuietStack ==
  ASSUME TypeOK, \A u \in Threads : Control(u), NEW l \in SUBSET Cells, StackInv(l),
         NEW t \in Threads, QuietStep(t)
  PROVE  StackInv(l)' /\ \A u \in Threads : Holds(u)' = Holds(u)
<1>1. /\ next' = next /\ head' = head /\ held' = held /\ lost' = lost
      /\ gone' \in {gone, gone \ {t}}
  BY QuietFrame
<1>2. \A u \in Threads : u # t => pc'[u] = pc[u] /\ op'[u] = op[u]
  BY QuietOthers
<1>3. /\ op'[t].got = op[t].got /\ Pushed(t)' = Pushed(t)
      /\ pc'[t] \in Loaded =>
           \/ op'[t].hdr = head /\ t \notin gone'
           \/ pc[t] \in Loaded /\ op'[t].hdr = op[t].hdr /\ gone' = gone
      /\ pc'[t] = "swap" => op'[t].nxt = next[op'[t].hdr]
      /\ pc'[t] = "link" => op'[t].hdr = head
      /\ pc'[t] = "pushswap" => pc[t] = "pushswap" /\ op'[t].cell = op[t].cell /\ gone' = gone
  BY QuietOwn
<1>4. \A u \in Threads : Holds(u)' = Holds(u)
  BY <1>2, <1>3 DEF Holds, Pushed
<1>5. \A c : Out(c)' = Out(c)
  BY <1>1, <1>4, OutKept
<1>6. Placed(l)' /\ \E r \in Ranks(l) : Live(l, r)'
  BY <1>1, <1>4, PlacedKept, LiveKept DEF StackInv
<1>k. \A u \in Threads : Knows(u, l)
  BY DEF StackInv
<1>h. head \in l \cup {END} /\ (head # END => ~Out(head))
  BY DEF StackInv, Live, Placed
<1>7. ASSUME NEW u \in Threads, u # t
      PROVE  Knows(u, l)'
  <2>1. pc'[u] = pc[u] /\ op'[u] = op[u] /\ (u \in gone' <=> u \in gone)
    BY <1>1, <1>2, <1>7
  <2>2. Out(op[u].hdr)' <=> Out(op[u].hdr)
    <3>1. PICK h : h = op[u].hdr
      OBVIOUS
    <3>2. Out(h)' <=> Out(h)
      BY <1>5
    <3> QED
      BY <2>1, <3>1, <3>2 DEF Out
  <2>3. pc'[u] \in Loaded /\ u \notin gone' => op'[u].hdr = END \/ ~Out(op[u].hdr)'
    BY <1>k, <2>1, <2>2 DEF Knows
  <2>4. /\ pc'[u] = "swap" /\ u \notin gone' => op'[u].nxt = next'[op'[u].hdr]
        /\ pc'[u] = "link" /\ u \notin gone' => op'[u].hdr \in l \cup {END}
        /\ pc'[u] = "pushswap" /\ u \notin gone' => next'[op'[u].cell] \in l \cup {END}
    BY <1>1, <1>k, <2>1 DEF Knows
  <2> QED
    BY <2>3, <2>4 DEF Knows
<1>8. Knows(t, l)'
  <2>1. pc'[t] \in Loaded /\ t \notin gone' => op'[t].hdr = END \/ ~Out(op'[t].hdr)
    BY <1>3, <1>h, <1>k DEF Knows
  <2>2. pc'[t] \in Loaded /\ t \notin gone' => op'[t].hdr = END \/ ~Out(op[t].hdr)'
    <3>1. PICK h : h = op'[t].hdr
      OBVIOUS
    <3>2. Out(h)' <=> Out(h)
      BY <1>5
    <3>3. Out(op[t].hdr)' <=> Out(h)
      BY <3>1, <3>2 DEF Out
    <3> QED
      BY <2>1, <3>1, <3>3
  <2>3. pc'[t] = "pushswap" /\ t \notin gone' => next'[op'[t].cell] \in l \cup {END}
    BY <1>1, <1>3, <1>k DEF Knows
  <2>4. pc'[t] = "swap" /\ t \notin gone' => op'[t].nxt = next'[op'[t].hdr]
    BY <1>1, <1>3
  <2>5. pc'[t] = "link" /\ t \notin gone' => op'[t].hdr \in l \cup {END}
    BY <1>3, <1>h
  <2> QED
    BY <2>2, <2>3, <2>4, <2>5 DEF Knows
<1> QED
  BY <1>4, <1>6, <1>7, <1>8 DEF StackInv

-----------------------------------------------------------------------------
(* Steps that move cells that are out                                      *)

MovesStep(t) == PopFails(t) \/ Claimed(t) \/ \E c \in Cells : ReturnCell(t, c)

LEMMA MovesFrame ==
  ASSUME TypeOK, NEW t \in Threads, MovesStep(t)
  PROVE  /\ next' = next /\ head' = head /\ gone' = gone /\ stale' = stale /\ cut' = cut
         /\ team' = team
         /\ \A u \in Threads : u # t => pc'[u] = pc[u] /\ op'[u] = op[u]
         /\ pc'[t] \notin Loaded \cup {"link", "pushswap"}
<1>1. /\ team' = team
      /\ \A u \in Threads : u # t => pc'[u] = pc[u] /\ op'[u] = op[u]
  BY OthersStay DEF MovesStep, Claim
<1>2. next' = next /\ head' = head /\ gone' = gone /\ stale' = stale /\ cut' = cut
  BY DEF MovesStep, PopFails, Claimed, ReturnCell, stack, history
<1>3. pc'[t] \notin Loaded \cup {"link", "pushswap"}
  <2>1. pc \in [Threads -> Labels]
    BY DEF TypeOK, Labels
  <2> QED
    BY <2>1 DEF MovesStep, PopFails, Claimed, ReturnCell, Loaded, Goto
<1> QED
  BY <1>1, <1>2, <1>3

\* A cell goes from the thread to the cells in use or lost, or from there to the thread.
LEMMA MovesCells ==
  ASSUME TypeOK, NEW t \in Threads, Control(t), MovesStep(t), held \cap lost = {},
         Holds(t) \cap (held \cup lost) = {}
  PROVE  /\ held' \cup lost' \cup Holds(t)' = held \cup lost \cup Holds(t)
         /\ held' \cap lost' = {} /\ Holds(t)' \cap (held' \cup lost') = {}
<1>c. /\ pc \in [Threads -> Labels] /\ op \in [Threads -> Ops] /\ op[t] \in Ops /\ NoOp \in Ops
  BY NoOpType DEF TypeOK, Labels, Ops
<1>1. CASE PopFails(t)
  <2>1. pc[t] = "read" /\ Holds(t) = op[t].got /\ Holds(t)' = {}
    BY <1>1, <1>c DEF PopFails, Goto, Set, Holds, Pushed, NoOp
  <2> QED
    BY <1>1, <2>1 DEF PopFails
<1>2. CASE Claimed(t)
  <2>1. Holds(t) = op[t].got /\ Holds(t)' = {}
    BY <1>2, <1>c DEF Claimed, Goto, Set, Holds, Pushed, NoOp
  <2> QED
    BY <1>2, <2>1 DEF Claimed
<1>3. CASE \E c \in Cells : ReturnCell(t, c)
  <2>1. PICK c \in Cells : ReturnCell(t, c)
    BY <1>3
  <2>2. pc[t] \in {"idle", "evict"} /\ op[t].got = {} /\ Holds(t) = {}
    BY <2>1 DEF ReturnCell, Control, Claiming, Holds, Pushed
  <2>3. CASE Full
    <3>1. Holds(t)' = {} /\ held' = held \ {c} /\ lost' = lost \cup {c} /\ c \in held
      BY <2>1, <2>2, <2>3, <1>c DEF ReturnCell, Holds, Pushed
    <3> QED
      BY <3>1, <2>2
  <2>4. CASE ~Full
    <3>1. op'[t] = [op[t] EXCEPT !.cell = c] /\ pc'[t] = "pushhead"
          /\ held' = held \ {c} /\ lost' = lost /\ c \in held
      BY <2>1, <2>4, <1>c DEF ReturnCell, Goto, Set
    <3>2. op'[t].cell = c /\ op'[t].got = {}
      BY <3>1, <2>2, <1>c DEF Ops
    <3>3. Holds(t)' = {c}
      BY <3>1, <3>2 DEF Holds, Pushed
    <3> QED
      BY <3>1, <3>3, <2>2
  <2> QED
    BY <2>3, <2>4
<1> QED
  BY <1>1, <1>2, <1>3 DEF MovesStep

\* Nothing else about the places of the cells changes.
LEMMA MovesStack ==
  ASSUME TypeOK, \A u \in Threads : Control(u), NEW l \in SUBSET Cells, StackInv(l),
         NEW t \in Threads, MovesStep(t)
  PROVE  StackInv(l)' /\ \A c : Out(c)' <=> Out(c)
<1>1. /\ next' = next /\ head' = head /\ gone' = gone
      /\ \A u \in Threads : u # t => pc'[u] = pc[u] /\ op'[u] = op[u]
      /\ pc'[t] \notin Loaded \cup {"link", "pushswap"}
  BY MovesFrame
<1>2. /\ held' \cup lost' \cup Holds(t)' = held \cup lost \cup Holds(t)
      /\ held' \cap lost' = {} /\ Holds(t)' \cap (held' \cup lost') = {}
  BY MovesCells DEF StackInv, Placed
<1>3. \A u \in Threads : u # t => Holds(u)' = Holds(u)
  BY <1>1 DEF Holds, Pushed
<1>4. \A c : Out(c)' <=> Out(c)
  BY <1>2, <1>3 DEF Out
<1>5. Placed(l)'
  <2>1. /\ \A u \in Threads : Holds(u) \cap (held \cup lost) = {}
        /\ \A u, v \in Threads : u # v => Holds(u) \cap Holds(v) = {}
        /\ \A c \in l : ~Out(c)
    BY DEF StackInv, Placed
  <2>2. \A c \in l : ~Out(c)'
    BY <2>1, <1>4
  <2>3. ASSUME NEW u \in Threads
        PROVE  Holds(u)' \cap (held' \cup lost') = {}
    BY <1>2, <1>3, <2>1
  <2>4. ASSUME NEW u \in Threads, NEW v \in Threads, u # v
        PROVE  Holds(u)' \cap Holds(v)' = {}
    <3>1. Holds(u)' \subseteq held \cup lost \cup Holds(t) \/ Holds(u)' = Holds(u)
      BY <1>2, <1>3
    <3>2. CASE u # t /\ v # t
      BY <3>2, <1>3, <2>1, <2>4
    <3>3. CASE u = t
      BY <3>3, <1>2, <1>3, <2>1, <2>4
    <3>4. CASE v = t
      BY <3>4, <1>2, <1>3, <2>1, <2>4
    <3> QED
      BY <3>2, <3>3, <3>4
  <2> QED
    BY <1>2, <2>2, <2>3, <2>4 DEF Placed
<1>6. \E r \in Ranks(l) : Live(l, r)'
  BY <1>1, LiveKept DEF StackInv
<1>7. ASSUME NEW u \in Threads, u # t
      PROVE  Knows(u, l)'
  <2>1. pc'[u] = pc[u] /\ op'[u] = op[u] /\ gone' = gone /\ Knows(u, l)
    BY <1>1, <1>7 DEF StackInv
  <2>2. Out(op[u].hdr)' <=> Out(op[u].hdr)
    <3>1. PICK h : h = op[u].hdr
      OBVIOUS
    <3>2. Out(h)' <=> Out(h)
      BY <1>4
    <3> QED
      BY <2>1, <3>1, <3>2 DEF Out
  <2>3. pc'[u] \in Loaded /\ u \notin gone' => op'[u].hdr = END \/ ~Out(op[u].hdr)'
    BY <2>1, <2>2 DEF Knows
  <2>4. /\ pc'[u] = "swap" /\ u \notin gone' => op'[u].nxt = next'[op'[u].hdr]
        /\ pc'[u] = "link" /\ u \notin gone' => op'[u].hdr \in l \cup {END}
        /\ pc'[u] = "pushswap" /\ u \notin gone' => next'[op'[u].cell] \in l \cup {END}
    BY <1>1, <2>1 DEF Knows
  <2> QED
    BY <2>3, <2>4 DEF Knows
<1>8. Knows(t, l)'
  BY <1>1 DEF Knows, Loaded
<1> QED
  BY <1>4, <1>5, <1>6, <1>7, <1>8 DEF StackInv

-----------------------------------------------------------------------------
(* The link of a cell that is pushed, which no cell of the stack is        *)

LEMMA LinkFrame ==
  ASSUME TypeOK, NEW t \in Threads, Control(t), Link(t)
  PROVE  /\ op[t].cell \in Cells /\ op[t].cell \in Holds(t)
         /\ next' = [next EXCEPT ![op[t].cell] = op[t].hdr]
         /\ pc[t] = "link" /\ pc'[t] = "pushswap" /\ op' = op
         /\ head' = head /\ gone' = gone /\ stale' = stale /\ cut' = cut
         /\ held' = held /\ lost' = lost /\ team' = team
         /\ \A u \in Threads : u # t => pc'[u] = pc[u]
         /\ \A u \in Threads : Holds(u)' = Holds(u)
<1>1. /\ pc \in [Threads -> Labels] /\ op[t] \in Ops
  BY DEF TypeOK, Labels, Ops
<1>2. pc[t] = "link" /\ op[t].cell \in Cells /\ op[t].cell \in Holds(t)
  BY <1>1 DEF Link, Control, Holds, Pushed, Ops
<1>3. pc' = [pc EXCEPT ![t] = "pushswap"] /\ op' = op
  BY DEF Link, Goto
<1>4. \A u \in Threads : Holds(u)' = Holds(u)
  BY <1>1, <1>2, <1>3 DEF Holds, Pushed
<1> QED
  BY <1>1, <1>2, <1>3, <1>4 DEF Link, cells, history

LEMMA LinkStack ==
  ASSUME TypeOK, \A u \in Threads : Control(u), NEW l \in SUBSET Cells, StackInv(l),
         NEW t \in Threads, Link(t)
  PROVE  StackInv(l)' /\ (\A c \in l : next'[c] = next[c]) /\ \A c : Out(c)' <=> Out(c)
<1> DEFINE cell == op[t].cell
<1>1. /\ cell \in Cells /\ cell \in Holds(t)
      /\ next' = [next EXCEPT ![cell] = op[t].hdr]
      /\ pc[t] = "link" /\ pc'[t] = "pushswap" /\ op' = op
      /\ head' = head /\ gone' = gone /\ held' = held /\ lost' = lost
      /\ \A u \in Threads : u # t => pc'[u] = pc[u]
      /\ \A u \in Threads : Holds(u)' = Holds(u)
  BY LinkFrame
<1>2. Out(cell) /\ next \in [Cells -> Cells \cup {END}]
  BY <1>1 DEF Out, TypeOK
<1>3. cell \notin l
  BY <1>2 DEF StackInv, Placed
<1>4. \A c : Out(c)' <=> Out(c)
  BY <1>1, OutKept
<1>5. \A c \in Cells : c # cell => next'[c] = next[c]
  BY <1>1, <1>2
<1>6. Placed(l)' /\ \E r \in Ranks(l) : Live(l, r)'
  BY <1>1, <1>3, <1>5, PlacedKept, LiveKept DEF StackInv
<1>7. ASSUME NEW u \in Threads, u # t
      PROVE  Knows(u, l)'
  <2>1. pc'[u] = pc[u] /\ op'[u] = op[u] /\ gone' = gone /\ Knows(u, l) /\ op[u] \in Ops /\ Control(u)
    BY <1>1, <1>7 DEF StackInv, TypeOK, Ops
  <2>2. Out(op[u].hdr)' <=> Out(op[u].hdr)
    <3>1. PICK h : h = op[u].hdr
      OBVIOUS
    <3>2. Out(h)' <=> Out(h)
      BY <1>4
    <3> QED
      BY <2>1, <3>1, <3>2 DEF Out
  <2>3. pc'[u] \in Loaded /\ u \notin gone' => op'[u].hdr = END \/ ~Out(op[u].hdr)'
    BY <2>1, <2>2 DEF Knows
  <2>4. pc'[u] = "swap" /\ u \notin gone' => op'[u].nxt = next'[op'[u].hdr]
    <3>1. pc[u] = "swap" /\ u \notin gone => op[u].hdr \in Cells /\ op[u].hdr # cell
      BY <1>2, <2>1 DEF Knows, Control, Ops, Loaded
    <3> QED
      BY <1>5, <2>1, <3>1 DEF Knows
  <2>5. pc'[u] = "link" /\ u \notin gone' => op'[u].hdr \in l \cup {END}
    BY <2>1 DEF Knows
  <2>6. pc'[u] = "pushswap" /\ u \notin gone' => next'[op'[u].cell] \in l \cup {END}
    <3>1. pc[u] = "pushswap" => op[u].cell \in Cells /\ op[u].cell \in Holds(u)
      BY <2>1 DEF Control, Ops, Holds, Pushed
    <3>2. pc[u] = "pushswap" => op[u].cell # cell
      BY <3>1, <1>1, <1>7 DEF StackInv, Placed
    <3> QED
      BY <1>5, <2>1, <3>1, <3>2 DEF Knows
  <2> QED
    BY <2>3, <2>4, <2>5, <2>6 DEF Knows
<1>8. Knows(t, l)'
  <2>1. next'[cell] = op[t].hdr
    BY <1>1, <1>2
  <2>2. t \notin gone => op[t].hdr \in l \cup {END}
    BY <1>1 DEF StackInv, Knows
  <2> QED
    BY <1>1, <2>1, <2>2 DEF Knows, Loaded
<1> QED
  BY <1>3, <1>4, <1>5, <1>6, <1>7, <1>8 DEF StackInv

-----------------------------------------------------------------------------
(* The swaps of the head                                                   *)

PopStep(t) == SwapHead(t) /\ head = op[t].hdr
PushStep(t) == PushSwap(t) /\ head = op[t].hdr

LEMMA PopFrame ==
  ASSUME TypeOK, NEW t \in Threads, Control(t), PopStep(t)
  PROVE  /\ head \in Cells /\ op[t].hdr = head /\ head' = op[t].nxt /\ next' = next
         /\ held' = held /\ lost' = lost /\ cut' = cut /\ team' = team
         /\ gone' = gone \cup Overtaken(head) /\ t \in gone' /\ stale' = (stale \/ t \in gone)
         /\ pc[t] = "swap" /\ pc'[t] \in {"read", "reserve"}
         /\ \A u \in Threads : u # t => pc'[u] = pc[u] /\ op'[u] = op[u]
         /\ op'[t].got = op[t].got \cup {head} /\ op'[t].hdr = head
         /\ Holds(t)' = Holds(t) \cup {head} /\ Holds(t) = op[t].got
         /\ \A u \in Threads : u # t => Holds(u)' = Holds(u)
<1>1. /\ pc \in [Threads -> Labels] /\ op \in [Threads -> Ops] /\ op[t] \in Ops /\ pc[t] = "swap"
  BY DEF TypeOK, Labels, Ops, PopStep, SwapHead
<1>2. op[t].hdr \in Cells
  BY <1>1 DEF Control, Ops
<1>3. /\ op'[t] = [op[t] EXCEPT !.got = @ \cup {op[t].hdr}, !.n = @ - 1]
      /\ pc'[t] \in {"read", "reserve"}
      /\ gone' = gone \cup Overtaken(head) /\ stale' = (stale \/ t \in gone)
      /\ head' = op[t].nxt /\ next' = next
      /\ held' = held /\ lost' = lost /\ cut' = cut /\ team' = team
  BY <1>1 DEF PopStep, SwapHead, Goto, Set, cells
<1>4. op'[t].got = op[t].got \cup {op[t].hdr} /\ op'[t].hdr = op[t].hdr
  BY <1>1, <1>3 DEF Ops
<1>5. \A u \in Threads : u # t => pc'[u] = pc[u] /\ op'[u] = op[u]
  BY OthersStay DEF PopStep, Claim
<1>6. t \in Overtaken(head)
  BY DEF Overtaken, PopStep
<1>7. Holds(t) = op[t].got /\ Holds(t)' = op'[t].got
  BY <1>1, <1>3 DEF Holds, Pushed
<1>8. \A u \in Threads : u # t => Holds(u)' = Holds(u)
  BY <1>5 DEF Holds, Pushed
<1> QED
  BY <1>1, <1>2, <1>3, <1>4, <1>5, <1>6, <1>7, <1>8 DEF PopStep

\* A pop leaves the live cells of a lower rank than the one it takes.
LEMMA PopStack ==
  ASSUME TypeOK, \A u \in Threads : Control(u), NEW l \in SUBSET Cells, StackInv(l),
         NEW t \in Threads, PopStep(t), ~stale'
  PROVE  /\ \E k \in SUBSET Cells : StackInv(k)'
         /\ head' = next[head] /\ head \in l
         /\ \A c : Out(c)' <=> Out(c) \/ c = head
<1>1. /\ head \in Cells /\ op[t].hdr = head /\ head' = op[t].nxt /\ next' = next
      /\ held' = held /\ lost' = lost
      /\ gone' = gone \cup Overtaken(head) /\ t \in gone' /\ stale' = (stale \/ t \in gone)
      /\ pc[t] = "swap" /\ pc'[t] \in {"read", "reserve"}
      /\ \A u \in Threads : u # t => pc'[u] = pc[u] /\ op'[u] = op[u]
      /\ Holds(t)' = Holds(t) \cup {head}
      /\ \A u \in Threads : u # t => Holds(u)' = Holds(u)
  BY PopFrame
<1>2. PICK r \in Ranks(l) : Live(l, r)
  BY DEF StackInv
<1>3. head \in l /\ ~Out(head) /\ next[head] \in l \cup {END} /\ (next[head] # END => r[next[head]] < r[head])
  BY <1>1, <1>2, Consts DEF Live, StackInv, Placed
<1>4. head' = next[head]
  BY <1>1 DEF StackInv, Knows
<1>5. PICK k : k = {c \in l : r[c] < r[head]}
  OBVIOUS
<1>6. k \in SUBSET Cells /\ head \notin k /\ k \subseteq l
  <2>1. r[head] \in Nat
    BY <1>1, <1>2 DEF Ranks
  <2> QED
    BY <2>1, <1>5
<1>7. \A c : Out(c)' <=> Out(c) \/ c = head
  BY <1>1 DEF Out
<1>8. \E q \in Ranks(k) : Live(k, q)'
  <2>1. r \in Ranks(k)
    BY <1>2, <1>6 DEF Ranks
  <2>2. \A c \in l : r[c] \in Nat
    BY <1>2 DEF Ranks
  <2>3. ASSUME NEW c \in k
        PROVE  next[c] \in k \cup {END} /\ (next[c] # END => r[next[c]] < r[c])
    <3>1. next[c] \in l \cup {END} /\ (next[c] # END => r[next[c]] < r[c]) /\ r[c] < r[head]
      BY <1>2, <1>5, <1>6 DEF Live
    <3>2. next[c] # END => r[next[c]] < r[head]
      BY <3>1, <2>2, <1>3, <1>6
    <3> QED
      BY <3>1, <3>2, <1>5
  <2>4. head' \in k \cup {END}
    BY <1>3, <1>4, <1>5
  <2> QED
    BY <2>1, <2>3, <2>4, <1>1 DEF Live
<1>9. Placed(k)'
  <2>1. /\ \A u \in Threads : Holds(u) \cap (held \cup lost) = {}
        /\ \A u, v \in Threads : u # v => Holds(u) \cap Holds(v) = {}
        /\ \A c \in l : ~Out(c)
        /\ held \cap lost = {}
    BY DEF StackInv, Placed
  <2>2. head \notin held \cup lost /\ \A u \in Threads : head \notin Holds(u)
    BY <1>3 DEF Out
  <2>3. \A c \in k : ~Out(c)'
    BY <1>6, <1>7, <2>1
  <2>4. \A u \in Threads : Holds(u)' \cap (held' \cup lost') = {}
    BY <1>1, <2>1, <2>2
  <2>5. \A u, v \in Threads : u # v => Holds(u)' \cap Holds(v)' = {}
    BY <1>1, <2>1, <2>2
  <2> QED
    BY <1>1, <2>1, <2>3, <2>4, <2>5 DEF Placed
<1>10. ASSUME NEW u \in Threads, u # t
       PROVE  Knows(u, k)'
  <2>1. /\ pc'[u] = pc[u] /\ op'[u] = op[u] /\ Knows(u, l)
        /\ u \notin gone' => u \notin gone /\ op[u].hdr # head /\ pc[u] \notin {"link", "pushswap"}
    BY <1>1, <1>10 DEF StackInv, Overtaken
  <2>2. Out(op[u].hdr)' <=> Out(op[u].hdr) \/ op[u].hdr = head
    <3>1. PICK h : h = op[u].hdr
      OBVIOUS
    <3>2. Out(h)' <=> Out(h) \/ h = head
      BY <1>7
    <3> QED
      BY <2>1, <3>1, <3>2 DEF Out
  <2>3. pc'[u] \in Loaded /\ u \notin gone' => op'[u].hdr = END \/ ~Out(op[u].hdr)'
    BY <2>1, <2>2 DEF Knows
  <2>4. pc'[u] = "swap" /\ u \notin gone' => op'[u].nxt = next'[op'[u].hdr]
    BY <1>1, <2>1 DEF Knows
  <2> QED
    BY <2>1, <2>3, <2>4 DEF Knows
<1>11. Knows(t, k)'
  BY <1>1 DEF Knows
<1>12. StackInv(k)'
  BY <1>8, <1>9, <1>10, <1>11 DEF StackInv
<1> QED
  BY <1>3, <1>4, <1>6, <1>7, <1>12

LEMMA PushFrame ==
  ASSUME TypeOK, NEW t \in Threads, Control(t), PushStep(t)
  PROVE  /\ op[t].cell \in Cells /\ op[t].hdr = head /\ head' = op[t].cell /\ next' = next
         /\ held' = held /\ lost' = lost /\ gone' = gone /\ team' = team
         /\ cut' = (cut \/ next[op[t].cell] # head)
         /\ stale' = (stale \/ (next[op[t].cell] # head /\ t \in gone))
         /\ pc[t] = "pushswap" /\ pc'[t] = "increment" /\ op' = op
         /\ \A u \in Threads : u # t => pc'[u] = pc[u]
         /\ Holds(t) = {op[t].cell} /\ Holds(t)' = {}
         /\ \A u \in Threads : u # t => Holds(u)' = Holds(u)
<1>1. /\ pc \in [Threads -> Labels] /\ op[t] \in Ops /\ pc[t] = "pushswap"
  BY DEF TypeOK, Labels, Ops, PushStep, PushSwap
<1>2. op[t].cell \in Cells /\ op[t].got = {}
  BY <1>1 DEF Control, Ops, Claiming
<1>3. /\ pc' = [pc EXCEPT ![t] = "increment"] /\ op' = op
      /\ head' = op[t].cell /\ next' = next
      /\ held' = held /\ lost' = lost /\ gone' = gone /\ team' = team
      /\ cut' = (cut \/ next[op[t].cell] # head)
      /\ stale' = (stale \/ (next[op[t].cell] # head /\ t \in gone))
  BY DEF PushStep, PushSwap, Goto, cells
<1>4. Holds(t) = {op[t].cell} /\ Holds(t)' = {}
  BY <1>1, <1>2, <1>3 DEF Holds, Pushed
<1>5. \A u \in Threads : u # t => Holds(u)' = Holds(u)
  BY <1>1, <1>3 DEF Holds, Pushed
<1> QED
  BY <1>1, <1>2, <1>3, <1>4, <1>5 DEF PushStep

\* A push adds a cell of a higher rank than all.
LEMMA PushStack ==
  ASSUME TypeOK, \A u \in Threads : Control(u), NEW l \in SUBSET Cells, StackInv(l),
         NEW t \in Threads, PushStep(t), ~stale'
  PROVE  /\ \E k \in SUBSET Cells : StackInv(k)'
         /\ op[t].cell \notin l
         /\ \A c : Out(c)' <=> Out(c) /\ c # op[t].cell
<1>0. PICK cell : cell = op[t].cell
  OBVIOUS
<1>1. /\ cell \in Cells /\ op[t].hdr = head /\ head' = cell /\ next' = next
      /\ held' = held /\ lost' = lost /\ gone' = gone
      /\ stale' = (stale \/ (next[cell] # head /\ t \in gone))
      /\ pc[t] = "pushswap" /\ pc'[t] = "increment" /\ op' = op
      /\ \A u \in Threads : u # t => pc'[u] = pc[u]
      /\ Holds(t) = {cell} /\ Holds(t)' = {}
      /\ \A u \in Threads : u # t => Holds(u)' = Holds(u)
  BY <1>0, PushFrame
<1>p. /\ held \cap lost = {} /\ \A c \in l : ~Out(c)
      /\ \A u \in Threads : Holds(u) \cap (held \cup lost) = {}
      /\ \A u, v \in Threads : u # v => Holds(u) \cap Holds(v) = {}
  BY DEF StackInv, Placed
<1>2. PICK r \in Ranks(l) : Live(l, r)
  BY DEF StackInv
<1>3. PICK m \in Nat : \A c \in l : r[c] <= m
  BY <1>2 DEF Ranks
<1>r. r \in [Cells -> Nat]
  BY <1>2 DEF Ranks
<1>4. cell \notin l
  BY <1>1, <1>p DEF Out
<1>5. next[cell] \in l \cup {END}
  <2>1. t \notin gone => next[cell] \in l \cup {END}
    BY <1>0, <1>1 DEF StackInv, Knows
  <2>2. head \in l \cup {END}
    BY <1>2 DEF Live
  <2> QED
    BY <1>1, <2>1, <2>2
<1>6. PICK q : q = [r EXCEPT ![cell] = m + 1]
  OBVIOUS
<1>7. PICK k : k = l \cup {cell}
  OBVIOUS
<1>8. q \in [Cells -> Nat] /\ q[cell] = m + 1 /\ \A c \in l : q[c] = r[c]
  BY <1>r, <1>1, <1>4, <1>6
<1>9. q \in Ranks(k)
  <2>1. m + 1 \in Nat /\ \A c \in l : r[c] <= m + 1
    BY <1>3, <1>r
  <2> QED
    BY <2>1, <1>7, <1>8 DEF Ranks
<1>10. Live(k, q)'
  <2>1. head' \in k \cup {END}
    BY <1>1, <1>7
  <2>2. ASSUME NEW c \in l
        PROVE  next[c] \in k \cup {END} /\ (next[c] # END => q[next[c]] < q[c])
    BY <1>2, <1>7, <1>8 DEF Live
  <2>3. next[cell] \in k \cup {END} /\ (next[cell] # END => q[next[cell]] < q[cell])
    <3>1. \A c \in l : q[c] < m + 1
      BY <1>3, <1>8
    <3> QED
      BY <3>1, <1>5, <1>7, <1>8
  <2> QED
    BY <2>1, <2>2, <2>3, <1>1, <1>7 DEF Live
<1>11. \A c : Out(c)' <=> Out(c) /\ c # cell
  <2>1. cell \notin held \cup lost /\ \A u \in Threads : u # t => cell \notin Holds(u)
    BY <1>1, <1>p
  <2> QED
    BY <2>1, <1>1 DEF Out
<1>12. Placed(k)'
  <2>1. \A c \in k : ~Out(c)'
    BY <1>7, <1>11, <1>p
  <2>2. \A u \in Threads : Holds(u)' \cap (held' \cup lost') = {}
    BY <1>1, <1>p
  <2>3. \A u, v \in Threads : u # v => Holds(u)' \cap Holds(v)' = {}
    BY <1>1, <1>p
  <2> QED
    BY <1>1, <1>p, <2>1, <2>2, <2>3 DEF Placed
<1>13. ASSUME NEW u \in Threads, u # t
       PROVE  Knows(u, k)'
  <2>1. pc'[u] = pc[u] /\ op'[u] = op[u] /\ Knows(u, l)
    BY <1>1, <1>13 DEF StackInv
  <2>2. Out(op[u].hdr)' => Out(op[u].hdr)
    <3>1. PICK h : h = op[u].hdr
      OBVIOUS
    <3>2. Out(h)' => Out(h)
      BY <1>11
    <3> QED
      BY <2>1, <3>1, <3>2 DEF Out
  <2>3. pc'[u] \in Loaded /\ u \notin gone' => op'[u].hdr = END \/ ~Out(op[u].hdr)'
    BY <1>1, <2>1, <2>2 DEF Knows
  <2>4. /\ pc'[u] = "swap" /\ u \notin gone' => op'[u].nxt = next'[op'[u].hdr]
        /\ pc'[u] = "link" /\ u \notin gone' => op'[u].hdr \in k \cup {END}
        /\ pc'[u] = "pushswap" /\ u \notin gone' => next'[op'[u].cell] \in k \cup {END}
    BY <1>1, <1>7, <2>1 DEF Knows
  <2> QED
    BY <2>3, <2>4 DEF Knows
<1>14. Knows(t, k)'
  BY <1>1 DEF Knows, Loaded
<1>15. StackInv(k)' /\ k \in SUBSET Cells
  <2>1. \E x \in Ranks(k) : Live(k, x)'
    BY <1>9, <1>10
  <2> QED
    BY <1>1, <1>7, <1>12, <1>13, <1>14, <2>1 DEF StackInv
<1> QED
  BY <1>0, <1>4, <1>11, <1>15

-----------------------------------------------------------------------------
(* A thread that claims alone                                              *)

LEMMA StepKinds ==
  ASSUME NEW t \in Threads,
         \/ Starts(t) \/ Ask(t) \/ Claim(t) \/ (\E c \in Cells : ReturnCell(t, c)) \/ Return(t)
  PROVE  QuietStep(t) \/ MovesStep(t) \/ Link(t) \/ PopStep(t) \/ PushStep(t)
<1>1. CASE Starts(t) \/ Ask(t)
  BY <1>1 DEF QuietStep
<1>2. CASE Claim(t)
  BY <1>2 DEF Claim, QuietStep, MovesStep, PopStep
<1>3. CASE \E c \in Cells : ReturnCell(t, c)
  BY <1>3 DEF MovesStep
<1>4. CASE Return(t)
  <2>1. CASE PushSwap(t)
    BY <2>1 DEF QuietStep, PushStep
  <2>2. CASE ~PushSwap(t)
    BY <1>4, <2>2 DEF Return, QuietStep
  <2> QED
    BY <2>1, <2>2
<1> QED
  BY <1>1, <1>2, <1>3, <1>4

\* A claim loads the head before it counts, and counts before it pops.
LEMMA QuietOrder ==
  ASSUME TypeOK, NEW t \in Threads, QuietStep(t), pc'[t] \in {"count", "reduce", "swapcount"}
  PROVE  pc[t] \in {"head", "count", "reduce", "swapcount"} /\ (pc[t] = "head" => t \notin gone')
<1>0. pc \in [Threads -> Labels]
  BY DEF TypeOK, Labels
<1>1. CASE Starts(t) \/ Ask(t)
  BY <1>0, <1>1 DEF Starts, Request, ClaimUnasked, Ask, AskFree, AskTotal, AddRequest, Evict, Goto
<1>2. CASE \/ LoadHead(t) \/ LoadCount(t) \/ Reduce(t) \/ SwapCount(t) \/ ReadNext(t)
           \/ SwapHead(t) /\ head # op[t].hdr
           \/ CheckReserve(t) \/ NotifyEvictor(t) \/ ClaimSatisfied(t)
  BY <1>0, <1>2 DEF LoadHead, LoadCount, Reduce, SwapCount, ReadNext, SwapHead, CheckReserve,
     NotifyEvictor, ClaimSatisfied, Goto
<1>3. CASE PushLoadHead(t) \/ (PushSwap(t) /\ head # op[t].hdr) \/ Increment(t) \/ Cap(t)
  BY <1>0, <1>3 DEF PushLoadHead, PushSwap, Increment, Cap, Goto, Home
<1> QED
  BY <1>1, <1>2, <1>3 DEF QuietStep

LEMMA AloneStep ==
  ASSUME FMInv, OneClaims, NEW t \in Threads,
         QuietStep(t) \/ MovesStep(t) \/ Link(t) \/ PopStep(t) \/ PushStep(t)
  PROVE  (stale' => cut') /\ \A u \in Threads : ByItself(u)'
<1>0. /\ TypeOK /\ (\A u \in Threads : Control(u)) /\ (stale => cut)
      /\ \A u \in Threads : ByItself(u)
  BY DEF FMInv
<1>o. ASSUME pc'[t] \notin Loaded, gone' = gone,
             \A u \in Threads : u # t => pc'[u] = pc[u] /\ op'[u] = op[u]
      PROVE  \A u \in Threads : ByItself(u)'
  BY <1>0, <1>o DEF ByItself, Loaded
<1>1. CASE QuietStep(t)
  <2>1. stale' = stale /\ cut' = cut /\ gone' \in {gone, gone \ {t}}
    BY <1>0, <1>1, QuietFrame
  <2>2. \A u \in Threads : u # t => pc'[u] = pc[u] /\ op'[u] = op[u]
    BY <1>0, <1>1, QuietOthers
  <2>3. /\ op'[t].got = op[t].got
        /\ pc'[t] \in Loaded =>
             \/ t \notin gone'
             \/ pc[t] \in Loaded /\ op'[t].hdr = op[t].hdr /\ gone' = gone
    BY <1>0, <1>1, QuietOwn
  <2>4. pc'[t] \in {"count", "reduce", "swapcount"} =>
           pc[t] \in {"head", "count", "reduce", "swapcount"} /\ (pc[t] = "head" => t \notin gone')
    BY <1>0, <1>1, QuietOrder
  <2>5. ByItself(t)'
    BY <1>0, <2>1, <2>3, <2>4 DEF ByItself, Loaded
  <2>6. \A u \in Threads : u # t => ByItself(u)'
    BY <1>0, <2>1, <2>2 DEF ByItself
  <2> QED
    BY <1>0, <2>1, <2>5, <2>6
<1>2. CASE MovesStep(t)
  <2>1. /\ gone' = gone /\ stale' = stale /\ cut' = cut /\ pc'[t] \notin Loaded
        /\ \A u \in Threads : u # t => pc'[u] = pc[u] /\ op'[u] = op[u]
    BY <1>0, <1>2, MovesFrame
  <2> QED
    BY <1>0, <1>o, <2>1
<1>3. CASE Link(t)
  <2>1. /\ gone' = gone /\ stale' = stale /\ cut' = cut /\ pc'[t] = "pushswap" /\ op' = op
        /\ \A u \in Threads : u # t => pc'[u] = pc[u]
    BY <1>0, <1>3, LinkFrame
  <2> QED
    BY <1>0, <1>o, <2>1 DEF Loaded
<1>4. CASE PopStep(t)
  <2>1. /\ head \in Cells /\ op[t].hdr = head
        /\ gone' = gone \cup Overtaken(head) /\ stale' = (stale \/ t \in gone) /\ cut' = cut
        /\ pc[t] = "swap" /\ pc'[t] \in {"read", "reserve"}
        /\ \A u \in Threads : u # t => pc'[u] = pc[u] /\ op'[u] = op[u]
        /\ op'[t].got = op[t].got \cup {head} /\ op'[t].hdr = head
    BY <1>0, <1>4, PopFrame
  <2>2. ASSUME ~stale, t \in gone
        PROVE  FALSE
    <3>1. PICK l \in SUBSET Cells : StackInv(l)
      BY <2>2 DEF FMInv
    <3>2. head \in l
      BY <2>1, <3>1, Consts DEF StackInv, Live
    <3>3. head \in op[t].got
      BY <1>0, <2>1, <2>2 DEF ByItself
    <3>4. Out(head)
      BY <3>3 DEF Out, Holds
    <3> QED
      BY <3>1, <3>2, <3>4 DEF StackInv, Placed
  <2>3. \A u \in Threads : u # t => pc[u] \notin Loaded
    BY <1>0, <2>1 DEF Control, OneClaims, Claiming, Loaded
  <2>4. \A u \in Threads : u # t => ByItself(u)'
    BY <2>1, <2>3 DEF ByItself, Loaded
  <2>5. ByItself(t)'
    BY <2>1 DEF ByItself
  <2> QED
    BY <1>0, <2>1, <2>2, <2>4, <2>5
<1>5. CASE PushStep(t)
  <2>1. /\ gone' = gone /\ pc'[t] = "increment" /\ op' = op
        /\ cut' = (cut \/ next[op[t].cell] # head)
        /\ stale' = (stale \/ (next[op[t].cell] # head /\ t \in gone))
        /\ \A u \in Threads : u # t => pc'[u] = pc[u]
    BY <1>0, <1>5, PushFrame
  <2> QED
    BY <1>0, <1>o, <2>1 DEF Loaded
<1> QED
  BY <1>1, <1>2, <1>3, <1>4, <1>5

-----------------------------------------------------------------------------
(* The list                                                                *)

LEMMA OnList ==
  ASSUME NEW s \in Seq(Cells), NEW c
  PROVE  c \in On(s) <=> \E i \in 1..Len(s) : c = s[i]
BY DEF On

\* The list is the stack, and holds live cells only.
LEMMA ChainIsStack ==
  ASSUME NEW l \in SUBSET Cells, StackInv(l), NEW s \in Lists, ChainInv(s)
  PROVE  Stacked = s /\ \A c \in On(s) : c \in l /\ ~Out(c)
<1>1. ListLinks(next, head, s)
  BY DEF ChainInv, IsChain, ListLinks
<1>2. StackOf(next, head) = s
  BY <1>1, StackIsList
<1>3. PICK r \in Ranks(l) : Live(l, r)
  BY DEF StackInv
<1>4. LiveLinks(next, head, l, r) /\ r \in [Cells -> Nat]
  BY <1>3 DEF Live, LiveLinks, Ranks
<1>5. \A i \in DOMAIN s : s[i] \in l
  BY <1>2, <1>4, StackOfLive
<1> QED
  BY <1>2, <1>5 DEF Stacked, On, StackInv, Placed

LEMMA ChainKept ==
  ASSUME NEW s, ChainInv(s), head' = head, \A c \in On(s) : next'[c] = next[c],
         \A c : Out(c)' <=> Out(c), s \in Seq(Cells)
  PROVE  ChainInv(s)'
<1>1. \A i \in 1..Len(s) : s[i] \in On(s)
  BY OnList
<1>2. IsChain(s)'
  BY <1>1 DEF ChainInv, IsChain
<1>3. On(s)' = On(s)
  BY DEF On
<1> QED
  BY <1>2, <1>3 DEF ChainInv

\* A list holds each cell once: while one is not on it there is room.
LEMMA ListHasRoom ==
  ASSUME NEW s \in Lists, \A i, j \in 1..Len(s) : s[i] = s[j] => i = j,
         NEW c \in Cells, c \notin On(s)
  PROVE  Len(s) < NCells
<1>0. s \in Seq(Cells) /\ Len(s) \in Nat /\ NCells \in Nat
  BY ListsAre, FreeMemoryAssumption
<1> DEFINE n == Len(s) + 1
           f == [i \in 1..n |-> IF i = n THEN c ELSE s[i]]
<1>1. f \in [1..n -> Cells]
  BY <1>0
<1>2. \A i, j \in 1..n : f[i] = f[j] => i = j
  BY <1>0 DEF On
<1>3. IsFiniteSet(Cells) /\ Cardinality(Cells) = NCells
  BY <1>0, FS_Interval, FreeMemoryAssumption DEF Cells
<1>4. IsFiniteSet(1..n) /\ Cardinality(1..n) = n
  BY <1>0, FS_Interval
<1>5. ~(Cardinality(Cells) < Cardinality(1..n))
  <2> HIDE DEF f, n
  <2> SUFFICES ASSUME Cardinality(Cells) < Cardinality(1..n)
               PROVE  FALSE
    OBVIOUS
  <2>1. \E i, j \in 1..n : i # j /\ f[i] = f[j]
    BY <1>1, <1>3, <1>4, FS_PigeonHole
  <2> QED
    BY <1>2, <2>1
<1> QED
  BY <1>0, <1>3, <1>4, <1>5

TopOnly(s, r) ==
  r = s \/ (s # << >> /\ r = Tail(s)) \/ (r # << >> /\ Tail(r) = s)

LEMMA ChainPop ==
  ASSUME NEW s \in Lists, ChainInv(s), head # END, head' = next[head], next' = next,
         \A c : Out(c)' <=> Out(c) \/ c = head
  PROVE  Tail(s) \in Lists /\ ChainInv(Tail(s))' /\ s # << >>
<1>0. s \in Seq(Cells) /\ Len(s) \in Nat /\ Len(s) <= NCells /\ NCells \in Nat
  BY ListsAre, FreeMemoryAssumption
<1>1. Len(s) >= 1 /\ head = s[1] /\ s # << >>
  BY <1>0 DEF ChainInv, IsChain
<1>2. PICK r : r = Tail(s)
  OBVIOUS
<1>3. r \in Seq(Cells) /\ Len(r) = Len(s) - 1 /\ \A i \in 1..(Len(s) - 1) : r[i] = s[i + 1]
  BY <1>0, <1>1, <1>2
<1>4. r \in Lists
  BY <1>0, <1>3, ListsAre
<1>c. /\ \A i, j \in 1..Len(s) : s[i] = s[j] => i = j
      /\ \A i \in 1..Len(s) : next[s[i]] = IF i = Len(s) THEN END ELSE s[i + 1]
      /\ \A c \in Cells : c \in On(s) \/ Out(c)
  BY DEF ChainInv, IsChain
<1>5. IsChain(r)'
  <2>1. \A i, j \in 1..Len(r) : r[i] = r[j] => i = j
    <3>1. ASSUME NEW i \in 1..Len(r), NEW j \in 1..Len(r), r[i] = r[j]
          PROVE  i = j
      <4>1. i + 1 \in 1..Len(s) /\ j + 1 \in 1..Len(s) /\ s[i + 1] = s[j + 1]
        BY <1>0, <1>3, <3>1
      <4>2. i + 1 = j + 1
        BY <4>1, <1>c
      <4> QED
        BY <4>2, <1>0, <1>3
    <3> QED
      BY <3>1
  <2>2. head' = IF Len(r) = 0 THEN END ELSE r[1]
    <3>1. 1 \in 1..Len(s) /\ (Len(r) = 0 <=> 1 = Len(s)) /\ (Len(r) # 0 => r[1] = s[1 + 1])
      BY <1>0, <1>1, <1>3
    <3>2. next[s[1]] = IF 1 = Len(s) THEN END ELSE s[1 + 1]
      BY <3>1, <1>c
    <3> QED
      BY <3>1, <3>2, <1>1
  <2>3. ASSUME NEW i \in 1..Len(r)
        PROVE  next[r[i]] = IF i = Len(r) THEN END ELSE r[i + 1]
    <3>1. i + 1 \in 1..Len(s) /\ r[i] = s[i + 1] /\ (i = Len(r) <=> i + 1 = Len(s))
          /\ (i # Len(r) => r[i + 1] = s[(i + 1) + 1])
      BY <1>0, <1>3
    <3>2. next[s[i + 1]] = IF i + 1 = Len(s) THEN END ELSE s[(i + 1) + 1]
      BY <3>1, <1>c
    <3> QED
      BY <3>1, <3>2
  <2> QED
    BY <2>1, <2>2, <2>3 DEF IsChain
<1>6. ASSUME NEW c \in Cells
      PROVE  c \in On(r) \/ Out(c)'
  <2>1. CASE c \in On(s) /\ c # head
    <3>1. PICK i \in 1..Len(s) : c = s[i]
      BY <1>0, <2>1, OnList
    <3>2. i # 1 /\ i - 1 \in 1..(Len(s) - 1) /\ (i - 1) + 1 = i
      BY <1>0, <1>1, <2>1, <3>1
    <3>3. c = r[i - 1] /\ i - 1 \in 1..Len(r)
      BY <1>3, <3>1, <3>2
    <3> QED
      BY <1>3, <3>3, OnList
  <2>2. CASE Out(c) \/ c = head
    BY <2>2
  <2> QED
    BY <2>1, <2>2, <1>c
<1>7. On(r)' = On(r)
  BY DEF On
<1>8. ChainInv(r)'
  BY <1>5, <1>6, <1>7 DEF ChainInv
<1>9. Tail(s)' = Tail(s)
  OBVIOUS
<1> QED
  BY <1>1, <1>2, <1>4, <1>8

LEMMA ChainPush ==
  ASSUME NEW s \in Lists, ChainInv(s), NEW cell \in Cells, cell \notin On(s),
         next[cell] = head, head' = cell, next' = next,
         \A c : Out(c)' <=> Out(c) /\ c # cell
  PROVE  \E r \in Lists : ChainInv(r)' /\ r # << >> /\ Tail(r) = s
<1>0. s \in Seq(Cells) /\ Len(s) \in Nat /\ Len(s) <= NCells /\ NCells \in Nat
  BY ListsAre, FreeMemoryAssumption
<1>c. /\ \A i, j \in 1..Len(s) : s[i] = s[j] => i = j
      /\ \A i \in 1..Len(s) : next[s[i]] = IF i = Len(s) THEN END ELSE s[i + 1]
      /\ \A c \in Cells : c \in On(s) \/ Out(c)
      /\ head = IF Len(s) = 0 THEN END ELSE s[1]
  BY DEF ChainInv, IsChain
<1>1. PICK r : r = [i \in 1..(Len(s) + 1) |-> IF i = 1 THEN cell ELSE s[i - 1]]
  OBVIOUS
<1>2. r \in Seq(Cells) /\ Len(r) = Len(s) + 1 /\ r[1] = cell
      /\ \A i \in 1..(Len(s) + 1) : i # 1 => i - 1 \in 1..Len(s) /\ r[i] = s[i - 1]
  <2>1. \A i \in 1..(Len(s) + 1) : i # 1 => i - 1 \in 1..Len(s)
    BY <1>0
  <2>2. \A i \in 1..(Len(s) + 1) : i # 1 => s[i - 1] \in Cells
    BY <1>0, <2>1
  <2>3. r \in [1..(Len(s) + 1) -> Cells]
    BY <2>2, <1>1
  <2> QED
    BY <1>0, <1>1, <2>1, <2>3
<1>3. \A i \in 1..Len(s) : i + 1 \in 1..(Len(s) + 1) /\ r[i + 1] = s[i]
  <2>1. \A i \in 1..Len(s) : i + 1 \in 1..(Len(s) + 1) /\ i + 1 # 1 /\ (i + 1) - 1 = i
    BY <1>0
  <2> QED
    BY <1>2, <2>1
<1>4. r \in Lists
  <2>1. Len(s) < NCells
    BY <1>c, ListHasRoom
  <2> QED
    BY <1>0, <1>2, <2>1, ListsAre
<1>5. IsChain(r)'
  <2>1. \A i, k \in 1..(Len(s) + 1) : r[i] = r[k] => i = k
    <3>1. \A i \in 1..Len(s) : s[i] # cell
      BY <1>0 DEF On
    <3> SUFFICES ASSUME NEW i \in 1..(Len(s) + 1), NEW k \in 1..(Len(s) + 1), r[i] = r[k]
                 PROVE  i = k
      OBVIOUS
    <3>2. CASE i = 1 \/ k = 1
      BY <1>2, <3>1, <3>2
    <3>3. CASE i # 1 /\ k # 1
      <4>1. i - 1 = k - 1
        BY <1>2, <1>c, <3>3
      <4> QED
        BY <1>0, <4>1
    <3> QED
      BY <3>2, <3>3
  <2>2. head' = r[1] /\ Len(s) + 1 # 0
    BY <1>0, <1>2
  <2>3. ASSUME NEW i \in 1..(Len(s) + 1)
        PROVE  next[r[i]] = IF i = Len(s) + 1 THEN END ELSE r[i + 1]
    <3>1. CASE i = 1
      <4>1. i = Len(s) + 1 <=> Len(s) = 0
        BY <1>0, <3>1
      <4>2. Len(s) # 0 => 1 \in 1..Len(s)
        BY <1>0
      <4> QED
        BY <1>2, <1>3, <1>c, <3>1, <4>1, <4>2
    <3>2. CASE i # 1
      <4>1. i - 1 \in 1..Len(s) /\ r[i] = s[i - 1]
        BY <1>2, <3>2
      <4>2. next[s[i - 1]] = IF i - 1 = Len(s) THEN END ELSE s[(i - 1) + 1]
        BY <1>c, <4>1
      <4>3. (i - 1 = Len(s) <=> i = Len(s) + 1) /\ (i # Len(s) + 1 => i \in 1..Len(s)) /\ (i - 1) + 1 = i
        BY <1>0
      <4> QED
        BY <1>3, <4>1, <4>2, <4>3
    <3> QED
      BY <3>1, <3>2
  <2> QED
    BY <1>2, <2>1, <2>2, <2>3 DEF IsChain
<1>6. ASSUME NEW c \in Cells
      PROVE  c \in On(r) \/ Out(c)'
  <2>1. CASE c \in On(s)
    <3>1. PICK i \in 1..Len(s) : c = s[i]
      BY <1>0, <2>1, OnList
    <3>2. i + 1 \in 1..Len(r) /\ c = r[i + 1]
      BY <1>2, <1>3, <3>1
    <3> QED
      BY <1>2, <3>2, OnList
  <2>2. CASE c = cell
    <3>1. 1 \in 1..Len(r)
      BY <1>0, <1>2
    <3> QED
      BY <1>2, <2>2, <3>1, OnList
  <2> QED
    BY <2>1, <2>2, <1>c
<1>7. On(r)' = On(r)
  BY DEF On
<1>8. ChainInv(r)'
  BY <1>5, <1>6, <1>7 DEF ChainInv
<1>9. r # << >> /\ Tail(r) = s
  <2>1. r # <<>> /\ Tail(r) \in Seq(Cells) /\ Len(Tail(r)) = Len(s)
        /\ \A i \in 1..Len(s) : Tail(r)[i] = r[i + 1]
    BY <1>0, <1>2
  <2> QED
    BY <1>0, <1>3, <2>1
<1> QED
  BY <1>4, <1>8, <1>9

-----------------------------------------------------------------------------
(* The invariant, and what it says                                         *)

\* At the start the live cells are the whole region, in order.
LEMMA InitInv == Init => FMInv
<1> SUFFICES ASSUME Init
             PROVE  FMInv
  OBVIOUS
<1>0. NCells \in Nat /\ NCells >= 1
  BY FreeMemoryAssumption
<1>a. \A t \in Threads : pc[t] = "idle" /\ op[t] = NoOp
  BY DEF Init
<1>1. TypeOK
  <2>1. op \in [Threads -> Ops]
    BY NoOpType DEF Init
  <2>2. next \in [Cells -> Cells \cup {END}] /\ head \in Cells \cup {END}
    BY <1>0 DEF Init, Cells, END
  <2>3. count \in 0..(Word - 1) /\ requested \in 0..(Word - 1)
    BY Consts DEF Init
  <2>4. pc \in [Threads -> {"idle"} \cup Asking \cup Claiming \cup Pushing]
    BY DEF Init
  <2> QED
    BY <2>1, <2>2, <2>3, <2>4 DEF TypeOK, Init, Ops
<1>2. /\ \A t \in Threads : Control(t)
      /\ OneClaims => (stale => cut) /\ \A t \in Threads : ByItself(t)
  BY <1>a DEF Init, Control, ByItself, Claiming, Asking, Loaded, NoOp
<1>3. \A t \in Threads : Holds(t) = {}
  BY <1>a DEF Holds, Pushed, NoOp
<1>4. \A c : ~Out(c)
  BY <1>3 DEF Out, Init
<1>5. StackInv(Cells)
  <2>1. PICK r : r = [c \in Cells |-> NCells - c]
    OBVIOUS
  <2>2. r \in Ranks(Cells)
    <3>1. r \in [Cells -> Nat] /\ \A c \in Cells : r[c] <= NCells
      BY <2>1, <1>0 DEF Cells
    <3> QED
      BY <3>1, <1>0 DEF Ranks
  <2>3. Live(Cells, r)
    BY <2>1, <1>0 DEF Live, Init, Cells, END
  <2>4. Placed(Cells)
    BY <1>3, <1>4 DEF Placed, Init
  <2>5. \A t \in Threads : Knows(t, Cells)
    BY <1>a DEF Knows, Loaded
  <2> QED
    BY <2>2, <2>3, <2>4, <2>5 DEF StackInv
<1>6. \E s \in Lists : ChainInv(s)
  <2>1. PICK s : s = [i \in 1..NCells |-> i]
    OBVIOUS
  <2>2. s \in Seq(Cells) /\ Len(s) = NCells /\ \A i \in 1..NCells : s[i] = i
    BY <2>1, <1>0 DEF Cells
  <2>3. s \in Lists
    BY <1>0, <2>2, ListsAre
  <2>4. IsChain(s)
    <3>1. \A i \in 1..NCells : next[i] = IF i = NCells THEN END ELSE i + 1
      BY DEF Init, Cells
    <3>2. \A i \in 1..NCells : i # NCells => i + 1 \in 1..NCells
      BY <1>0
    <3>3. head = s[1]
      BY <1>0, <2>2 DEF Init
    <3>4. \A i \in 1..NCells : next[s[i]] = IF i = NCells THEN END ELSE s[i + 1]
      BY <2>2, <3>1, <3>2
    <3> QED
      BY <1>0, <2>2, <3>3, <3>4 DEF IsChain
  <2>5. \A c \in Cells : c \in On(s)
    BY <2>2, OnList DEF Cells
  <2> QED
    BY <2>3, <2>4, <2>5 DEF ChainInv
<1>7. Cells \in SUBSET Cells
  OBVIOUS
<1> QED
  BY <1>1, <1>2, <1>5, <1>6, <1>7 DEF FMInv

\* The history only grows.
LEMMA HistoryGrows ==
  ASSUME TypeOK, \A u \in Threads : Control(u), NEW t \in Threads,
         QuietStep(t) \/ MovesStep(t) \/ Link(t) \/ PopStep(t) \/ PushStep(t)
  PROVE  (stale => stale') /\ (cut => cut')
BY QuietFrame, MovesFrame, LinkFrame, PopFrame, PushFrame

LEMMA StackStep ==
  ASSUME TypeOK, \A u \in Threads : Control(u), NEW l \in SUBSET Cells, StackInv(l),
         NEW t \in Threads, ~stale',
         QuietStep(t) \/ MovesStep(t) \/ Link(t) \/ PopStep(t) \/ PushStep(t)
  PROVE  \E k \in SUBSET Cells : StackInv(k)'
BY QuietStack, MovesStack, LinkStack, PopStack, PushStack

LEMMA ListStep ==
  ASSUME TypeOK, \A u \in Threads : Control(u), NEW l \in SUBSET Cells, StackInv(l),
         NEW s \in Lists, ChainInv(s), NEW t \in Threads, ~stale', ~cut',
         QuietStep(t) \/ MovesStep(t) \/ Link(t) \/ PopStep(t) \/ PushStep(t)
  PROVE  \E r \in Lists : ChainInv(r)' /\ TopOnly(s, r)
<1>0. s \in Seq(Cells)
  BY ListsAre
<1>1. \A c \in On(s) : c \in l /\ ~Out(c)
  BY ChainIsStack
<1>2. CASE QuietStep(t)
  <2>1. next' = next /\ head' = head /\ held' = held /\ lost' = lost
    BY <1>2, QuietFrame
  <2>2. \A u \in Threads : Holds(u)' = Holds(u)
    BY <1>2, QuietStack
  <2>3. \A c : Out(c)' <=> Out(c)
    BY <2>1, <2>2, OutKept
  <2>4. ChainInv(s)'
    BY <1>0, <2>1, <2>3, ChainKept
  <2> QED
    BY <2>4 DEF TopOnly
<1>3. CASE MovesStep(t)
  <2>1. next' = next /\ head' = head /\ \A c : Out(c)' <=> Out(c)
    BY <1>3, MovesFrame, MovesStack
  <2>2. ChainInv(s)'
    BY <1>0, <2>1, ChainKept
  <2> QED
    BY <2>2 DEF TopOnly
<1>4. CASE Link(t)
  <2>1. head' = head /\ (\A c \in l : next'[c] = next[c]) /\ \A c : Out(c)' <=> Out(c)
    BY <1>4, LinkFrame, LinkStack
  <2>2. ChainInv(s)'
    BY <1>0, <1>1, <2>1, ChainKept
  <2> QED
    BY <2>2 DEF TopOnly
<1>5. CASE PopStep(t)
  <2>1. head \in Cells /\ next' = next
    BY <1>5, PopFrame
  <2>2. head' = next[head] /\ \A c : Out(c)' <=> Out(c) \/ c = head
    BY <1>5, PopStack
  <2>3. Tail(s) \in Lists /\ ChainInv(Tail(s))' /\ s # << >>
    BY <2>1, <2>2, Consts, ChainPop
  <2> QED
    BY <2>3 DEF TopOnly
<1>6. CASE PushStep(t)
  <2>1. /\ op[t].cell \in Cells /\ head' = op[t].cell /\ next' = next
        /\ next[op[t].cell] = head
    BY <1>6, PushFrame
  <2>2. op[t].cell \notin l /\ \A c : Out(c)' <=> Out(c) /\ c # op[t].cell
    BY <1>6, PushStack
  <2>3. PICK cell \in Cells : cell = op[t].cell
    BY <2>1
  <2>4. /\ cell \notin On(s) /\ next[cell] = head /\ head' = cell /\ next' = next
        /\ \A c : Out(c)' <=> Out(c) /\ c # cell
    BY <1>1, <2>1, <2>2, <2>3
  <2>5. \E r \in Lists : ChainInv(r)' /\ r # << >> /\ Tail(r) = s
    BY <2>4, ChainPush
  <2> QED
    BY <2>5 DEF TopOnly
<1> QED
  BY <1>2, <1>3, <1>4, <1>5, <1>6

LEMMA InvStep ==
  ASSUME FMInv, [Next]_vars
  PROVE  FMInv'
<1>1. CASE UNCHANGED vars
  <2>0. UNCHANGED <<team, next, head, count, requested, evictor, held, lost, pc, op, gone, stale, cut>>
    BY <1>1 DEF vars, stack, cells, history
  <2>1. TypeOK' /\ (\A u \in Threads : Control(u)')
        /\ (OneClaims' => (stale' => cut') /\ \A u \in Threads : ByItself(u)')
    BY <2>0 DEF FMInv, TypeOK, Control, OneClaims, ByItself
  <2>2. \A u \in Threads : Holds(u)' = Holds(u)
    BY <2>0 DEF Holds, Pushed
  <2>3. \A c : Out(c)' <=> Out(c)
    BY <2>0, <2>2, OutKept
  <2>4. ASSUME NEW l \in SUBSET Cells, StackInv(l)
        PROVE  StackInv(l)'
    <3>1. Placed(l)' /\ \E r \in Ranks(l) : Live(l, r)'
      BY <2>0, <2>2, <2>4, PlacedKept, LiveKept DEF StackInv
    <3>2. \A u \in Threads : Knows(u, l)'
      BY <2>0, <2>4 DEF StackInv, Knows, Out, Holds, Pushed
    <3> QED
      BY <3>1, <3>2 DEF StackInv
  <2>5. ASSUME NEW s \in Lists, ChainInv(s)
        PROVE  ChainInv(s)'
    BY <2>0, <2>3, <2>5, ChainKept, ListsAre
  <2>6. Lists' = Lists /\ Cells' = Cells
    BY DEF Lists, Cells
  <2> QED
    BY <2>0, <2>1, <2>4, <2>5, <2>6 DEF FMInv
<1>2. ASSUME NEW t \in Threads,
             \/ Starts(t) \/ Ask(t) \/ Claim(t) \/ (\E c \in Cells : ReturnCell(t, c)) \/ Return(t)
      PROVE  FMInv'
  <2>0. TypeOK /\ \A u \in Threads : Control(u)
    BY DEF FMInv
  <2>1. TypeOK' /\ (\A u \in Threads : Control(u)') /\ team' = team
    BY <1>2, <2>0, TypeStep, ControlStep, OthersStay
  <2>2. QuietStep(t) \/ MovesStep(t) \/ Link(t) \/ PopStep(t) \/ PushStep(t)
    BY <1>2, StepKinds
  <2>3. (stale => stale') /\ (cut => cut')
    BY <2>0, <2>2, HistoryGrows
  <2>4. OneClaims' => (stale' => cut') /\ \A u \in Threads : ByItself(u)'
    BY <2>1, <2>2, AloneStep DEF OneClaims
  <2>5. ~stale' => \E k \in SUBSET Cells : StackInv(k)'
    BY <2>0, <2>2, <2>3, StackStep DEF FMInv
  <2>6. ASSUME ~stale', ~cut'
        PROVE  \E r \in Lists : ChainInv(r)'
    <3>1. PICK l \in SUBSET Cells : StackInv(l)
      BY <2>3, <2>6 DEF FMInv
    <3>2. PICK s \in Lists : ChainInv(s)
      BY <2>3, <2>6 DEF FMInv
    <3> QED
      BY <2>0, <2>2, <2>6, <3>1, <3>2, ListStep
  <2>7. Lists' = Lists /\ Cells' = Cells
    BY DEF Lists, Cells
  <2> QED
    BY <2>1, <2>4, <2>5, <2>6, <2>7 DEF FMInv
<1> QED
  BY <1>1, <1>2 DEF Next, Starts

\* The live cells, the list they are, and what each thread knows of them: FMInv, on
\* which the theorems below rest, is an invariant of the specification.
THEOREM StackInvariant == Spec => []FMInv
<1>1. FMInv /\ [Next]_vars => FMInv'
  BY InvStep
<1> QED
  BY <1>1, InitInv, PTL DEF Spec

\* A set whose members are all equal has at most one.
LEMMA AtMostOne ==
  ASSUME NEW S, \A x, y \in S : x = y
  PROVE  Cardinality(S) = IF S = {} THEN 0 ELSE 1
<1>1. CASE S = {}
  BY <1>1, FS_EmptySet
<1>2. CASE S # {}
  <2>1. PICK x \in S : TRUE
    BY <1>2
  <2>2. S = {x}
    BY <2>1
  <2> QED
    BY <2>2, FS_Singleton
<1> QED
  BY <1>1, <1>2

\* The stack holds live cells, each once.
LEMMA StackedIsLive ==
  ASSUME NEW l \in SUBSET Cells, StackInv(l)
  PROVE  /\ \A i \in DOMAIN Stacked : Stacked[i] \in l
         /\ \A i, j \in DOMAIN Stacked : Stacked[i] = Stacked[j] => i = j
<1>1. PICK r \in Ranks(l) : Live(l, r)
  BY DEF StackInv
<1>2. LiveLinks(next, head, l, r) /\ r \in [Cells -> Nat] /\ l \subseteq Cells
  BY <1>1 DEF Live, LiveLinks, Ranks
<1>3. PICK st : st = StackOf(next, head)
  OBVIOUS
<1>4. /\ \A i \in DOMAIN st : st[i] \in l
      /\ \A i, j \in DOMAIN st : st[i] = st[j] => i = j
  BY <1>2, <1>3, StackOfLive
<1> QED
  BY <1>3, <1>4 DEF Stacked

\* Where a cell is, as numbers that add up to Places.
LEMMA PlacesOf ==
  ASSUME FMInv, ~stale, NEW c \in Cells
  PROVE  Places(c) <= 1 /\ (~cut => Places(c) = 1)
<1>1. PICK l \in SUBSET Cells : StackInv(l)
  BY DEF FMInv
<1> DEFINE A == {i \in DOMAIN Stacked : Stacked[i] = c}
           D == {t \in Threads : c \in op[t].got}
           E == {t \in Threads : c \in Pushed(t)}
<1>s. (\A i \in DOMAIN Stacked : Stacked[i] \in l) /\ \A i, j \in DOMAIN Stacked : Stacked[i] = Stacked[j] => i = j
  BY <1>1, StackedIsLive
<1>2. Cardinality(A) = IF A = {} THEN 0 ELSE 1
  <2>1. \A i, j \in A : i = j
    BY <1>s
  <2> HIDE DEF A
  <2> QED
    BY <2>1, AtMostOne
<1>3. A # {} => ~Out(c)
  BY <1>1, <1>s DEF StackInv, Placed
<1>4. ~cut => Out(c) \/ A # {}
  <2> SUFFICES ASSUME ~cut, ~Out(c)
               PROVE  A # {}
    OBVIOUS
  <2>1. PICK s \in Lists : ChainInv(s)
    BY DEF FMInv
  <2>2. c \in On(s) /\ Stacked = s
    BY <1>1, <2>1, ChainIsStack DEF ChainInv
  <2> QED
    BY <2>2 DEF On
<1>5. \A t, u \in Threads : c \in Holds(t) /\ c \in Holds(u) => t = u
  BY <1>1 DEF StackInv, Placed
<1>6. \A t \in Threads : op[t].got = {} \/ Pushed(t) = {}
  BY DEF FMInv, Control, Pushed, Claiming
<1>7. Cardinality(D) = IF D = {} THEN 0 ELSE 1
  <2>1. \A t, u \in D : t = u
    BY <1>5 DEF Holds
  <2> HIDE DEF D
  <2> QED
    BY <2>1, AtMostOne
<1>8. Cardinality(E) = IF E = {} THEN 0 ELSE 1
  <2>1. \A t, u \in E : t = u
    BY <1>5 DEF Holds
  <2> HIDE DEF E
  <2> QED
    BY <2>1, AtMostOne
<1>9. D = {} \/ E = {}
  BY <1>5, <1>6 DEF Holds
<1>10. (D # {} \/ E # {}) => c \notin held \cup lost
  BY <1>1 DEF StackInv, Placed, Holds
<1>11. ~(c \in held /\ c \in lost)
  BY <1>1 DEF StackInv, Placed
<1>12. Out(c) <=> c \in held \cup lost \/ D # {} \/ E # {}
  BY DEF Out, Holds
<1>13. Places(c) = Cardinality(A) + (IF c \in held THEN 1 ELSE 0) + (IF c \in lost THEN 1 ELSE 0)
                   + Cardinality(D) + Cardinality(E)
  BY DEF Places
<1> HIDE DEF A, D, E
<1> QED
  BY <1>2, <1>3, <1>4, <1>7, <1>8, <1>9, <1>10, <1>11, <1>12, <1>13

\* However claims and returns overlap no cell is in two places, until the head is
\* swapped for a next that was read or written before a cell was popped.
THEOREM NoCellTwice == Spec => []NeverTwoPlaces
<1>1. FMInv => NeverTwoPlaces
  BY PlacesOf DEF NeverTwoPlaces
<1> QED
  BY <1>1, StackInvariant, PTL

\* And no cell is missing, until a push goes on after its swap has failed.
THEOREM NoCellMissing == Spec => []NoneMissing
<1>1. FMInv => NoneMissing
  BY PlacesOf DEF NoneMissing
<1> QED
  BY <1>1, StackInvariant, PTL

\* Until then a step pops the first cell of the stack, pushes one, or leaves it.
THEOREM StackTop == Spec => OnlyTheTop
<1>1. ASSUME FMInv, [Next]_vars, ~stale', ~cut'
      PROVE  TopOnly(Stacked, Stacked')
  <2>1. CASE UNCHANGED vars
    <3>1. Stacked' = Stacked
      BY <2>1 DEF vars, stack, Stacked
    <3> QED
      BY <3>1 DEF TopOnly
  <2>2. ASSUME NEW t \in Threads,
               \/ Starts(t) \/ Ask(t) \/ Claim(t) \/ (\E c \in Cells : ReturnCell(t, c)) \/ Return(t)
        PROVE  TopOnly(Stacked, Stacked')
    <3>0. TypeOK /\ \A u \in Threads : Control(u)
      BY <1>1 DEF FMInv
    <3>1. QuietStep(t) \/ MovesStep(t) \/ Link(t) \/ PopStep(t) \/ PushStep(t)
      BY <2>2, StepKinds
    <3>2. ~stale /\ ~cut
      BY <1>1, <3>0, <3>1, HistoryGrows
    <3>3. PICK l \in SUBSET Cells : StackInv(l)
      BY <1>1, <3>2 DEF FMInv
    <3>4. PICK s \in Lists : ChainInv(s)
      BY <1>1, <3>2 DEF FMInv
    <3>5. PICK r \in Lists : ChainInv(r)' /\ TopOnly(s, r)
      BY <1>1, <3>0, <3>1, <3>3, <3>4, ListStep
    <3>6. Stacked = s
      BY <3>3, <3>4, ChainIsStack
    <3>7. ListLinks(next', head', r)
      BY <3>5 DEF ChainInv, IsChain, ListLinks
    <3>8. StackOf(next', head') = r
      BY <3>7, StackIsList
    <3>9. Stacked' = StackOf(next', head')
      BY DEF Stacked, StackOf, Walk
    <3> QED
      BY <3>5, <3>6, <3>8, <3>9
  <2> QED
    BY <1>1, <2>1, <2>2 DEF Next, Starts
<1>2. FMInv /\ [Next]_vars =>
        [LET new == Stacked'
         IN  \/ stale' \/ cut'
             \/ new = Stacked
             \/ Stacked # << >> /\ new = Tail(Stacked)
             \/ new # << >> /\ Tail(new) = Stacked]_stack
  BY <1>1 DEF TopOnly
<1> QED
  BY <1>2, StackInvariant, PTL DEF Spec, OnlyTheTop

\* A thread that claims alone sees the cell it has read as the head come back only
\* after a push that went on with its old next.
THEOREM AloneNoABA == Spec => []OneClaimerNoABA
<1>1. FMInv => OneClaimerNoABA
  BY DEF FMInv, OneClaimerNoABA, OneClaims
<1> QED
  BY <1>1, StackInvariant, PTL
=============================================================================
