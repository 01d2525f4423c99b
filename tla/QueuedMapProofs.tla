--------------------------- MODULE QueuedMapProofs ---------------------------
(***************************************************************************)
(* While one client process at most is attached, a push and a pop of the   *)
(* same queue are never both past the wait for the other's count.          *)
(*                                                                         *)
(* RolesInv (module QueuedMap) says who pushes and who pops, and that the  *)
(* count of pops is exact, for any number of clients.  ApartInv adds, for  *)
(* one, that the count of pushes is exact and that a push inside has seen  *)
(* no pop since it was counted.  What the cells and the stack hold plays   *)
(* no part in either.                                                      *)
(***************************************************************************)
EXTENDS QueuedMap, TLAPS, FiniteSetTheorems

Points == PushPoints \cup PopPoints \cup {"out"}

\* Of a step of thread t on the queues: where it leads, and that it leaves the other
\* threads, and the queue t works on, as they are.
OwnStep(t) ==
    /\ pc' \in [Threads -> Points]
    /\ DOMAIN loc' = Threads /\ "q" \in DOMAIN loc'[t] /\ loc'[t].q = loc[t].q
    /\ \A u \in Threads \ {t} : pc'[u] = pc[u] /\ loc'[u] = loc[u]

PushKeeps(t) ==
    /\ OwnStep(t) /\ pc[t] # "out" /\ pc'[t] \in PushPoints \cup {"out"}
    /\ pops' = pops /\ pushes' \in [Queues -> Int]

\* The count of pops follows the thread.
Counted(point) == IF point \in {"rwait"} \cup PopInside THEN 1 ELSE 0
PopKeeps(t) ==
    /\ OwnStep(t) /\ pc[t] # "out" /\ pc'[t] \in PopPoints \cup {"out"}
    /\ pushes' = pushes /\ pops' \in [Queues -> Int]
    /\ \A r \in Queues : pops'[r] = pops[r] + IF r = Q(t) THEN Counted(pc'[t]) - Counted(pc[t]) ELSE 0

LEMMA HandlersAreThreads ==
    /\ Handlers \subseteq Threads /\ Clients \subseteq Threads /\ Clients \cap Handlers = {}
    /\ \A q \in Queues : HandlerOf(q) \in Handlers /\ QueueOf(HandlerOf(q)) = q
    /\ \A h \in Handlers : QueueOf(h) \in Queues /\ HandlerOf(QueueOf(h)) = h
  BY QueuedMapAssumption DEF Handlers, HandlerOf, QueueOf

LEMMA PushStepKeeps ==
    ASSUME Shape, NEW t \in Threads, PushStep(t)
    PROVE  PushKeeps(t)
  <1>1. /\ pushes \in [Queues -> Int] /\ pc \in [Threads -> Points]
        /\ DOMAIN loc = Threads /\ "q" \in DOMAIN loc[t] /\ loc[t].q \in Queues
    BY DEF Shape, Points, Q
  <1> USE <1>1 DEF PushKeeps, OwnStep, Go, Return, Points, PushPoints, Inside, counts
  <1>2. CASE LoadTop(t)
    BY <1>2 DEF LoadTop
  <1>3. CASE LoadCount(t) \/ SwapCount(t)
    BY <1>3 DEF LoadCount, SwapCount, OuterLoop
  <1>4. CASE ReadNext(t)
    BY <1>4 DEF ReadNext
  <1>5. CASE SwapTop(t)
    BY <1>5 DEF SwapTop, Fresh, Q
  <1>6. CASE CountPush(t) \/ UncountPush(t) \/ RecountPush(t)
    BY <1>6 DEF CountPush, UncountPush, RecountPush, Q
  <1>7. CASE LookForPop(t) \/ StepBack(t) \/ Drained(t) \/ StepForth(t) \/ PushMayGo(t)
    BY <1>7 DEF LookForPop, StepBack, Drained, StepForth, PushMayGo, Q
  <1>8. CASE Copy(t, "fill", "clear") \/ Copy(t, "refill", "reclear")
    BY <1>8 DEF Copy
  <1>9. CASE ClearPrev(t, "clear", "front") \/ ClearPrev(t, "reclear", "uncount")
    BY <1>9 DEF ClearPrev
  <1>10. CASE ReadHead(t) \/ SwapHead(t) \/ TailIsSet(t)
    BY <1>10 DEF ReadHead, SwapHead, TailIsSet
  <1>11. CASE SetTail(t, "tail1", "tail2") \/ SetTail(t, "tail2", "refill")
    BY <1>11 DEF SetTail
  <1>12. CASE ReadBack(t) \/ SwapBack(t) \/ NextHead(t) \/ Publish(t)
    BY <1>12 DEF ReadBack, SwapBack, NextHead, Publish
  <1> QED
    BY <1>2, <1>3, <1>4, <1>5, <1>6, <1>7, <1>8, <1>9, <1>10, <1>11, <1>12 DEF PushStep

LEMMA PopStepKeeps ==
    ASSUME Shape, NEW t \in Threads, PopStep(t)
    PROVE  PopKeeps(t)
  <1>1. /\ pops \in [Queues -> Int] /\ pc \in [Threads -> Points]
        /\ DOMAIN loc = Threads /\ "q" \in DOMAIN loc[t] /\ loc[t].q \in Queues
    BY DEF Shape, Points, Q
  <1> USE <1>1 DEF PopKeeps, OwnStep, Go, Return, Points, PopPoints, PopInside, counts, Counted, Q
  <1>2. CASE CountPop(t) \/ UncountPop(t)
    BY <1>2 DEF CountPop, UncountPop
  <1>3. CASE PopMayGo(t) \/ ReadTail(t) \/ ReadPrev(t)
    BY <1>3 DEF PopMayGo, ReadTail, ReadPrev
  <1>4. CASE SwapTail(t) \/ CopyOut(t)
    BY <1>4 DEF SwapTail, CopyOut
  <1>5. CASE SkipFull(t) \/ LoadFreeTop(t) \/ WriteNext(t)
    BY <1>5 DEF SkipFull, LoadFreeTop, WriteNext, AfterFree
  <1>6. CASE SwapFreeTop(t) \/ CountFree(t) \/ ZeroHead(t)
    BY <1>6 DEF SwapFreeTop, CountFree, ZeroHead, AfterFree
  <1> QED BY <1>2, <1>3, <1>4, <1>5, <1>6 DEF PopStep

-----------------------------------------------------------------------------
\* Steps of QueuedMap, as RolesInv sees them

\* A push or a pop begins with a thread that is out.
StartsAt(t, q, point) ==
    /\ pc[t] = "out" /\ pc' = [pc EXCEPT ![t] = point]
    /\ DOMAIN loc' = Threads /\ "q" \in DOMAIN loc'[t] /\ loc'[t].q = q
    /\ \A u \in Threads \ {t} : loc'[u] = loc[u]
    /\ UNCHANGED counts

LEMMA PushStarts ==
    ASSUME Shape, NEW t \in Threads, NEW q, NEW i, StartPush(t, q, i)
    PROVE  StartsAt(t, q, "take")
  BY DEF Shape, StartPush, StartsAt, Go, Fresh

LEMMA PopStarts ==
    ASSUME Shape, NEW t \in Threads, NEW q, StartPop(t, q)
    PROVE  StartsAt(t, q, "rcount")
  BY DEF Shape, StartPop, StartsAt, Go, Fresh

\* A step of a client that is not on the queues, or of the service outside a pop.
Aside ==
    /\ UNCHANGED <<counts, pc, loc, attached>>
    /\ DOMAIN cpc' = DOMAIN cpc /\ DOMAIN hpc' = DOMAIN hpc
    /\ \A c \in DOMAIN cpc : cpc'[c] = cpc[c] \/ c \in attached \/ cpc[c] # "idle"
    /\ \A h \in DOMAIN hpc : hpc'[h] = hpc[h] \/ pc[h] = "out" \/ hpc[h] # "popping"

LEMMA StepKinds ==
    ASSUME [QMNext]_qmvars
    PROVE  \/ \E c \in Clients : Attach(c) \/ Submit(c) \/ Pushing(c)
           \/ \E h \in Handlers : Unload(h) \/ Popping(h)
           \/ Aside
  <1> USE DEF Aside, aqvars
  <1>1. ASSUME NEW c \in Clients, NEW k \in Keys, Get(c, k) \/ \E v \in Values \cup {Gone} : Put(c, k, v)
        PROVE  Aside
    BY <1>1 DEF Get, Put, Call, Move, server
  <1>2. ASSUME NEW c \in Clients, PushAgain(c) \/ PushEnds(c) \/ SeeAnswer(c) \/ ReadAnswer(c) \/ GiveUp(c)
        PROVE  Aside
    BY <1>2 DEF PushAgain, PushEnds, SeeAnswer, ReadAnswer, GiveUp, Move, server
  <1>3. CASE StorePair \/ GetVal
    BY <1>3 DEF StorePair, GetVal, HMove, client
  <1>4. CASE WriteToProc \/ TestReader \/ ClearReader
    BY <1>4 DEF WriteToProc, TestReader, ClearReader, HMove, client
  <1>5. CASE UNCHANGED qmvars
    BY <1>5 DEF qmvars, client, server
  <1> QED
    BY <1>1, <1>2, <1>3, <1>4, <1>5 DEF QMNext, ClientStep, HandlerStep

LEMMA RolesStart == QMInit => RolesInv
  <1> SUFFICES ASSUME QMInit PROVE RolesInv
    OBVIOUS
  <1>1. NoLoc.q \in Queues /\ "q" \in DOMAIN NoLoc
    BY QueuedMapAssumption DEF NoLoc, Fresh
  <1>2. IsFiniteSet({})
    BY FS_EmptySet
  <1>3. Shape
    BY <1>1, <1>2 DEF QMInit, AQInit, Shape, Q
  <1>4. Roles
    BY HandlersAreThreads DEF QMInit, AQInit, Roles
  <1>5. \A q \in Queues : PopCount(q)
    BY HandlersAreThreads DEF QMInit, AQInit, PopCount, PopInside
  <1> QED BY <1>3, <1>4, <1>5 DEF RolesInv

\* The step of a thread, and its part in RolesInv
LEMMA ShapeStays ==
    ASSUME Shape, NEW t \in Threads, OwnStep(t),
           pushes' \in [Queues -> Int], pops' \in [Queues -> Int],
           UNCHANGED <<cpc, hpc, attached>>
    PROVE  Shape'
  BY DEF Shape, OwnStep, Points, Q

LEMMA RolesStep == RolesInv /\ [QMNext]_qmvars => RolesInv'
  <1> SUFFICES ASSUME RolesInv, [QMNext]_qmvars PROVE RolesInv'
    OBVIOUS
  <1>1. Shape /\ Roles /\ \A q \in Queues : PopCount(q)
    BY DEF RolesInv
  <1> USE HandlersAreThreads
  <1>2. CASE \E c \in Clients : Attach(c)
    <2>1. PICK c \in Clients : Attach(c)
      BY <1>2
    <2>2. attached' = attached \cup {c} /\ UNCHANGED <<counts, pc, loc, cpc, hpc>>
      BY <2>1 DEF Attach, server
    <2>3. IsFiniteSet(attached \cup {c})
      BY <1>1, FS_AddElement DEF Shape
    <2> QED BY <1>1, <2>2, <2>3 DEF RolesInv, Shape, Roles, PopCount, Q, counts, HandlerOf
  <1>3. CASE \E c \in Clients : Submit(c)
    <2>1. PICK c \in Clients : Submit(c)
      BY <1>3
    <2>2. PICK q \in Queues : /\ StartPush(c, q, asked[c]) /\ cpc[c] # "idle"
                              /\ \E to \in {"putting", "asking"} : cpc' = [cpc EXCEPT ![c] = to]
                              /\ UNCHANGED <<attached, hpc>>
      BY <2>1, QueuedMapAssumption DEF Submit, Move, server
    <2>3. StartsAt(c, q, "take") /\ c \in Threads /\ c \in attached
      BY <1>1, <2>2, PushStarts DEF Roles
    <2>4. Shape'
      BY <1>1, <2>2, <2>3 DEF Shape, StartsAt, Q, PushPoints, counts
    <2>5. Roles'
      BY <1>1, <2>2, <2>3 DEF Shape, Roles, StartsAt, Q, PushPoints
    <2>6. \A r \in Queues : PopCount(r)'
      BY <1>1, <2>3 DEF Shape, PopCount, StartsAt, counts, HandlerOf
    <2> QED BY <2>4, <2>5, <2>6 DEF RolesInv
  <1>4. CASE \E c \in Clients : Pushing(c)
    <2>1. PICK c \in Clients : Pushing(c)
      BY <1>4
    <2>2. PushStep(c) /\ UNCHANGED <<cpc, hpc, attached>> /\ c \in Threads
      BY <2>1 DEF Pushing, client, server
    <2>3. PushKeeps(c)
      BY <1>1, <2>2, PushStepKeeps
    <2>4. Shape'
      BY <1>1, <2>2, <2>3, ShapeStays DEF PushKeeps, Shape
    <2>5. Roles'
      BY <1>1, <2>2, <2>3 DEF Roles, PushKeeps, OwnStep, Q
    <2>6. \A r \in Queues : PopCount(r)'
      BY <1>1, <2>3 DEF PopCount, PushKeeps, OwnStep, HandlerOf
    <2> QED BY <2>4, <2>5, <2>6 DEF RolesInv
  <1>5. CASE \E h \in Handlers : Unload(h)
    <2>1. PICK h \in Handlers : Unload(h)
      BY <1>5
    <2>2. PICK q \in Queues : /\ q = QueueOf(h) /\ StartPop(h, q)
                              /\ hpc' = [hpc EXCEPT ![h] = "popping"]
                              /\ UNCHANGED <<attached, cpc>>
      BY <2>1 DEF Unload, HMove, client
    <2>3. StartsAt(h, q, "rcount") /\ h \in Threads
      BY <1>1, <2>2, PopStarts
    <2>4. Shape'
      BY <1>1, <2>2, <2>3 DEF Shape, StartsAt, Q, PopPoints, counts
    <2>5. Roles'
      BY <1>1, <2>2, <2>3 DEF Shape, Roles, StartsAt, Q, PopPoints
    <2>6. \A r \in Queues : PopCount(r)'
      BY <1>1, <2>3 DEF Shape, PopCount, StartsAt, counts, HandlerOf, PopInside
    <2> QED BY <2>4, <2>5, <2>6 DEF RolesInv
  <1>6. CASE \E h \in Handlers : Popping(h)
    <2>1. PICK h \in Handlers : Popping(h)
      BY <1>6
    <2>2. PopStep(h) /\ hpc[h] = "popping" /\ UNCHANGED <<cpc, hpc, attached>> /\ h \in Threads
      BY <2>1 DEF Popping, client, server
    <2>3. PopKeeps(h) /\ Q(h) = QueueOf(h)
      BY <1>1, <2>2, PopStepKeeps DEF PopKeeps, Roles
    <2>4. Shape'
      BY <1>1, <2>2, <2>3, ShapeStays DEF PopKeeps, Shape
    <2>5. Roles'
      BY <1>1, <2>2, <2>3 DEF Roles, PopKeeps, OwnStep, Q
    <2>6. ASSUME NEW r \in Queues PROVE PopCount(r)'
      <3>1. CASE r = QueueOf(h)
        BY <1>1, <2>3, <3>1 DEF PopCount, PopKeeps, Counted, Shape, HandlerOf
      <3>2. CASE r # QueueOf(h)
        BY <1>1, <2>3, <3>2 DEF PopCount, PopKeeps, OwnStep, Shape, HandlerOf
      <3> QED BY <3>1, <3>2
    <2> QED BY <2>4, <2>5, <2>6 DEF RolesInv
  <1>7. CASE Aside
    <2>1. UNCHANGED <<pushes, pops, pc, loc, attached>>
      BY <1>7 DEF Aside, counts
    <2> QED BY <1>1, <1>7, <2>1 DEF Aside, RolesInv, Shape, Roles, PopCount, Q, HandlerOf
  <1> QED BY <1>2, <1>3, <1>4, <1>5, <1>6, <1>7, StepKinds

-----------------------------------------------------------------------------
\* One client at most is attached.

LEMMA OneAtMost ==
    ASSUME NEW S, IsFiniteSet(S), Cardinality(S) <= 1
    PROVE  \A x, y \in S : x = y
  <1> SUFFICES ASSUME NEW x \in S, NEW y \in S, x # y PROVE FALSE
    OBVIOUS
  <1>1. IsFiniteSet(S \ {x}) /\ Cardinality(S \ {x}) = Cardinality(S) - 1
    BY FS_RemoveElement
  <1>2. Cardinality(S) \in Nat /\ Cardinality(S \ {x}) \in Nat
    BY <1>1, FS_CardinalityType
  <1>3. Cardinality(S \ {x}) = 0
    BY <1>1, <1>2
  <1>4. S \ {x} = {}
    BY <1>1, <1>3, FS_EmptySet
  <1> QED BY <1>4

\* A push keeps the count of pushes exact, and goes inside only past a count of pops
\* at zero.
Count(point) == IF point \in Announced THEN 1 ELSE 0

LEMMA PushCounts ==
    ASSUME Shape, NEW c \in Threads, PushStep(c), NEW q \in Queues, q = Q(c),
           pushes[q] = Count(pc[c]), pc[c] # "recount"
    PROVE  /\ pc'[c] # "recount" /\ pushes'[q] = Count(pc'[c])
           /\ \A r \in Queues : r # q => pushes'[r] = pushes[r]
           /\ pc'[c] \in Inside => pc[c] \in Inside \/ pops[q] = 0
  <1>1. pushes \in [Queues -> Int] /\ DOMAIN pc = Threads
    BY DEF Shape
  <1> USE <1>1 DEF Go, Return, Count, Announced, Inside, counts
  <1>2. CASE LoadTop(c) \/ LoadCount(c) \/ SwapCount(c) \/ ReadNext(c) \/ SwapTop(c)
    BY <1>2 DEF LoadTop, LoadCount, SwapCount, OuterLoop, ReadNext, SwapTop
  <1>3. CASE CountPush(c) \/ UncountPush(c) \/ RecountPush(c)
    BY <1>3 DEF CountPush, UncountPush, RecountPush
  <1>4. CASE LookForPop(c) \/ StepBack(c) \/ Drained(c) \/ StepForth(c)
    BY <1>4 DEF LookForPop, StepBack, Drained, StepForth
  <1>5. CASE PushMayGo(c)
    BY <1>5 DEF PushMayGo, NoPop
  <1>6. CASE Copy(c, "fill", "clear") \/ Copy(c, "refill", "reclear")
    BY <1>6 DEF Copy
  <1>7. CASE ClearPrev(c, "clear", "front") \/ ClearPrev(c, "reclear", "uncount")
    BY <1>7 DEF ClearPrev
  <1>8. CASE ReadHead(c) \/ SwapHead(c) \/ TailIsSet(c)
    BY <1>8 DEF ReadHead, SwapHead, TailIsSet
  <1>9. CASE SetTail(c, "tail1", "tail2") \/ SetTail(c, "tail2", "refill")
    BY <1>9 DEF SetTail
  <1>10. CASE ReadBack(c) \/ SwapBack(c) \/ NextHead(c) \/ Publish(c)
    BY <1>10 DEF ReadBack, SwapBack, NextHead, Publish
  <1> QED
    BY <1>2, <1>3, <1>4, <1>5, <1>6, <1>7, <1>8, <1>9, <1>10 DEF PushStep

\* A pop goes inside only past a count of pushes at zero.
LEMMA PopEnters ==
    ASSUME Shape, NEW h \in Threads, PopStep(h), pc'[h] \in PopInside
    PROVE  pc[h] \in PopInside \/ pushes[Q(h)] = 0
  <1> USE DEF Shape, Go, Return, NoPush, PopInside
  <1>1. CASE CountPop(h) \/ PopMayGo(h) \/ UncountPop(h)
    BY <1>1 DEF CountPop, PopMayGo, UncountPop
  <1>2. CASE ReadTail(h) \/ ReadPrev(h) \/ SwapTail(h) \/ CopyOut(h)
    BY <1>2 DEF ReadTail, ReadPrev, SwapTail, CopyOut
  <1>3. CASE SkipFull(h) \/ LoadFreeTop(h) \/ WriteNext(h) \/ SwapFreeTop(h) \/ CountFree(h) \/ ZeroHead(h)
    BY <1>3 DEF SkipFull, LoadFreeTop, WriteNext, SwapFreeTop, CountFree, ZeroHead
  <1> QED BY <1>1, <1>2, <1>3 DEF PopStep

\* The one client does not move, and a handler goes inside past a count of zero.
LEMMA ApartKept ==
    ASSUME ApartInv, Alone, attached \subseteq Clients, attached' = attached, pushes' = pushes,
           \A c \in attached : pc'[c] = pc[c] /\ loc'[c] = loc[c],
           \A q \in Queues : pc'[HandlerOf(q)] \in PopInside =>
               pc[HandlerOf(q)] \in PopInside \/ pushes[q] = 0
    PROVE  ApartInv'
  <1>1. \A c \in attached : Q(c)' = Q(c)
    BY DEF Q
  <1>2. ASSUME NEW q \in Queues
        PROVE  /\ PushCount(q)'
               /\ \A c \in attached : Q(c)' = q /\ pc'[c] \in Inside => pc'[HandlerOf(q)] \notin PopInside
    <2>1. PushCount(q) /\ \A c \in attached : Q(c) = q /\ pc[c] \in Inside => pc[HandlerOf(q)] \notin PopInside
      BY DEF ApartInv
    <2>2. PushCount(q)'
      BY <1>1, <2>1 DEF PushCount
    <2>3. ASSUME NEW c \in attached, Q(c)' = q, pc'[c] \in Inside PROVE pc'[HandlerOf(q)] \notin PopInside
      <3>1. pushes[q] = 1
        BY <1>1, <2>1, <2>3 DEF PushCount, Announced
      <3> QED BY <1>1, <2>1, <2>3, <3>1
    <2> QED BY <2>2, <2>3
  <1>3. \A c \in attached : pc'[c] # "recount"
    BY DEF ApartInv
  <1> QED BY <1>2, <1>3 DEF ApartInv, HandlerOf

LEMMA ApartStep == RolesInv /\ ApartInv /\ [QMNext]_qmvars => ApartInv'
  <1> SUFFICES ASSUME RolesInv, ApartInv, [QMNext]_qmvars, Alone' PROVE ApartInv'
    BY DEF ApartInv
  <1>1. /\ Shape /\ Roles /\ (\A q \in Queues : PopCount(q)) /\ Shape'
        /\ attached \subseteq Clients /\ IsFiniteSet(attached)
    BY RolesStep DEF RolesInv, Shape
  <1>2. attached' = attached \/ \E c \in Clients : Attach(c)
    BY StepKinds DEF Submit, Pushing, Unload, Popping, Aside, client
  <1>3. attached \subseteq attached' /\ IsFiniteSet(attached')
    BY <1>1, <1>2 DEF Attach, Shape
  <1>4. Alone
    <2>1. /\ Cardinality(attached) \in Nat /\ Cardinality(attached') \in Nat
          /\ Cardinality(attached) <= Cardinality(attached')
      BY <1>1, <1>3, FS_Subset, FS_CardinalityType
    <2> QED BY <2>1 DEF Alone
  <1>5. \A c, d \in attached' : c = d
    <2>1. Cardinality(attached') <= 1
      BY DEF Alone
    <2> QED BY <1>3, <2>1, OneAtMost
  <1>6. \A c, d \in attached : c = d
    BY <1>3, <1>5
  <1>7. ASSUME NEW c \in attached PROVE
          /\ \A q \in Queues : pushes[q] = IF q = Q(c) THEN Count(pc[c]) ELSE 0
          /\ pc[c] # "recount"
    BY <1>4, <1>6 DEF ApartInv, PushCount, Count
  <1>8. CASE \E c \in Clients : Attach(c)
    <2>1. PICK c \in Clients : Attach(c)
      BY <1>8
    <2>2. c \notin attached /\ attached' = attached \cup {c} /\ UNCHANGED <<counts, pc, loc>>
      BY <2>1 DEF Attach
    <2>3. attached = {} /\ attached' = {c}
      BY <1>5, <2>2
    <2>4. pc'[c] = "out" /\ \A q \in Queues : pushes'[q] = 0
      BY <1>1, <1>4, <2>2, <2>3 DEF Roles, ApartInv, PushCount, counts
    <2> QED BY <2>3, <2>4 DEF ApartInv, PushCount, Announced, Inside
  <1>9. CASE \E c \in Clients : Submit(c)
    <2>1. PICK c \in Clients : Submit(c)
      BY <1>9
    <2>2. PICK q \in Queues : StartPush(c, q, asked[c]) /\ cpc[c] # "idle" /\ attached' = attached
      BY <2>1, QueuedMapAssumption DEF Submit, Move
    <2>3. c \in attached /\ c \in Threads
      BY <1>1, <2>2, HandlersAreThreads DEF Roles
    <2>4. StartsAt(c, q, "take")
      BY <1>1, <2>2, <2>3, PushStarts
    <2>5. pc[c] = "out" /\ pc'[c] = "take" /\ UNCHANGED pushes
      BY <1>1, <2>3, <2>4 DEF StartsAt, counts, Shape
    <2>6. \A r \in Queues : pushes'[r] = 0
      BY <1>7, <2>3, <2>5 DEF Count, Announced, Inside
    <2>7. \A d \in attached' : d = c
      BY <1>5, <2>2, <2>3
    <2> QED BY <2>5, <2>6, <2>7 DEF ApartInv, PushCount, Announced, Inside
  <1>10. CASE \E c \in Clients : Pushing(c)
    <2>1. PICK c \in Clients : Pushing(c)
      BY <1>10
    <2>2. PushStep(c) /\ c \in Threads /\ attached' = attached
      BY <2>1, HandlersAreThreads DEF Pushing, client
    <2>3. PushKeeps(c)
      BY <1>1, <2>2, PushStepKeeps
    <2>4. c \in attached
      BY <1>1, <2>1 DEF Roles, Pushing
    <2>5. PICK q \in Queues : q = Q(c) /\ q = Q(c)'
      BY <1>1, <2>2, <2>3 DEF Shape, Q, PushKeeps, OwnStep
    <2>6. /\ pc'[c] # "recount" /\ pushes'[q] = Count(pc'[c])
          /\ \A r \in Queues : r # q => pushes'[r] = pushes[r]
          /\ pc'[c] \in Inside => pc[c] \in Inside \/ pops[q] = 0
      BY <1>1, <1>7, <2>2, <2>4, <2>5, PushCounts
    <2>7. \A d \in attached' : d = c
      BY <1>5, <2>2, <2>4
    <2>8. ASSUME NEW r \in Queues PROVE PushCount(r)'
      <3>1. CASE r = q
        BY <2>2, <2>4, <2>5, <2>6, <2>7, <3>1 DEF PushCount, Count
      <3>2. CASE r # q
        BY <1>7, <2>2, <2>4, <2>5, <2>6, <2>7, <3>2 DEF PushCount
      <3> QED BY <3>1, <3>2
    <2>9. pc'[c] \in Inside => pc'[HandlerOf(q)] \notin PopInside
      <3>1. pc'[HandlerOf(q)] = pc[HandlerOf(q)]
        BY <2>1, <2>3, HandlersAreThreads DEF PushKeeps, OwnStep
      <3>2. pc[c] \in Inside => pc[HandlerOf(q)] \notin PopInside
        BY <1>4, <2>4, <2>5 DEF ApartInv
      <3>3. pops[q] = 0 => pc[HandlerOf(q)] \notin PopInside
        BY <1>1 DEF PopCount
      <3> QED BY <2>6, <3>1, <3>2, <3>3
    <2> QED BY <2>5, <2>6, <2>7, <2>8, <2>9 DEF ApartInv, HandlerOf
  <1>11. CASE \E h \in Handlers : Unload(h)
    <2>1. PICK h \in Handlers : Unload(h)
      BY <1>11
    <2>2. StartsAt(h, QueueOf(h), "rcount") /\ attached' = attached /\ h \in Threads
      BY <1>1, <2>1, PopStarts, HandlersAreThreads DEF Unload, client
    <2>3. /\ pushes' = pushes /\ pc'[h] = "rcount"
          /\ \A u \in Threads \ {h} : pc'[u] = pc[u] /\ loc'[u] = loc[u]
      BY <1>1, <2>2 DEF StartsAt, counts, Shape
    <2>4. \A c \in attached : pc'[c] = pc[c] /\ loc'[c] = loc[c]
      BY <1>1, <2>1, <2>3, HandlersAreThreads
    <2>5. \A q \in Queues : pc'[HandlerOf(q)] \in PopInside => pc[HandlerOf(q)] \in PopInside
      BY <2>3, HandlersAreThreads DEF PopInside
    <2> QED BY <1>1, <1>4, <2>2, <2>3, <2>4, <2>5, ApartKept
  <1>12. CASE \E h \in Handlers : Popping(h)
    <2>1. PICK h \in Handlers : Popping(h)
      BY <1>12
    <2>2. PopStep(h) /\ h \in Threads /\ hpc[h] = "popping" /\ attached' = attached
      BY <2>1, HandlersAreThreads DEF Popping, client
    <2>3. PopKeeps(h)
      BY <1>1, <2>2, PopStepKeeps
    <2>4. /\ pushes' = pushes /\ Q(h) = QueueOf(h)
          /\ \A u \in Threads \ {h} : pc'[u] = pc[u] /\ loc'[u] = loc[u]
      BY <1>1, <2>1, <2>3 DEF PopKeeps, OwnStep, Roles
    <2>5. \A c \in attached : pc'[c] = pc[c] /\ loc'[c] = loc[c]
      BY <1>1, <2>1, <2>4, HandlersAreThreads
    <2>6. pc'[h] \in PopInside => pc[h] \in PopInside \/ pushes[QueueOf(h)] = 0
      BY <1>1, <2>2, <2>4, PopEnters
    <2>7. \A q \in Queues : pc'[HandlerOf(q)] \in PopInside =>
               pc[HandlerOf(q)] \in PopInside \/ pushes[q] = 0
      BY <2>1, <2>4, <2>6, HandlersAreThreads
    <2> QED BY <1>1, <1>4, <2>2, <2>4, <2>5, <2>7, ApartKept
  <1>13. CASE Aside
    <2>1. pushes' = pushes /\ pc' = pc /\ loc' = loc /\ attached' = attached
      BY <1>13 DEF Aside, counts
    <2> QED BY <1>1, <1>4, <2>1, ApartKept
  <1> QED BY <1>8, <1>9, <1>10, <1>11, <1>12, <1>13, StepKinds

\* While one client process at most is attached, a push and a pop of the same queue
\* are never both past the wait for the other's count, with no lock taken
\* (atomic_queue.h, incr_push_count to wait_on_push_count).
THEOREM QueuedApart == QMSpec => []ApartWhenAlone
  <1>1. QMInit => ApartInv
    BY DEF QMInit, AQInit, ApartInv, PushCount, Inside
  <1>2. RolesInv /\ ApartInv => ApartWhenAlone
    <2> SUFFICES ASSUME RolesInv, ApartInv, Alone,
                        NEW q \in Queues, NEW t \in Threads, NEW u \in Threads,
                        Q(t) = q, Q(u) = q, pc[t] \in Inside, pc[u] \in PopInside
                 PROVE  FALSE
      BY DEF ApartWhenAlone, PushPopApart
    <2>1. Roles
      BY DEF RolesInv
    <2>2. t \in Clients \cup Handlers /\ u \in Clients \cup Handlers
      BY QueuedMapAssumption DEF Handlers
    <2>3. t \in attached
      BY <2>1, <2>2 DEF Roles, PopPoints, PopInside, Inside
    <2>4. u \in Handlers
      BY <2>1, <2>2 DEF Roles, PushPoints, Inside, PopInside
    <2>5. u = HandlerOf(q)
      BY <2>1, <2>4, HandlersAreThreads DEF Roles, PopInside
    <2> QED BY <2>3, <2>5 DEF ApartInv
  <1> QED BY <1>1, <1>2, RolesStart, RolesStep, ApartStep, PTL DEF QMSpec
=============================================================================
