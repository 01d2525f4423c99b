--------------------------- MODULE RemovalProofs ---------------------------
(***************************************************************************)
(* Theorems about the work queue of the removal path and about what the    *)
(* threads make of it.                                                     *)
(*                                                                         *)
(* First SharedQueue_SRSW by itself, for every ring length N >= 2 and      *)
(* every set of entries: its invariant, the absence of races on _entries,  *)
(* and that it implements a FIFO of N - 1 entries.                         *)
(*                                                                         *)
(* Then removing keys from a tier, for every length of the queue, every    *)
(* set of keys and any number of calls: what the queue takes is acted on   *)
(* once and in order, only a key that was asked for leaves the table, and  *)
(* the queue is that FIFO between the threads that work on it.             *)
(***************************************************************************)
EXTENDS RemovalWork, SequenceTheorems, TLAPS

USE QueueAssumption

-----------------------------------------------------------------------------
\* Arithmetic of the ring

\* The successor of an index is an index, and not the index itself.
LEMMA SuccIsIndex == \A i \in Index : Succ(i) \in Index /\ Succ(i) # i
BY DEF Index, Succ

\* Distances are below N; they are zero only from an index to itself.
LEMMA DistBounds ==
    \A i, j \in Index : Dist(i, j) \in 0 .. N - 1 /\ (Dist(i, j) = 0 <=> i = j)
BY DEF Index, Dist

\* Moving the far end forward adds one, unless it comes round to the near end.
LEMMA DistGrows ==
    \A i, j \in Index : Succ(j) # i => Dist(i, Succ(j)) = Dist(i, j) + 1
BY DEF Index, Dist, Succ

\* Moving the near end forward takes one away, unless the ends have met.
LEMMA DistShrinks ==
    \A i, j \in Index : i # j => Dist(Succ(i), j) = Dist(i, j) - 1
BY DEF Index, Dist, Succ

\* The ring is full, N - 1 entries, exactly when the next write meets the reader.
LEMMA DistFull ==
    \A i, j \in Index : Dist(i, j) = N - 1 <=> Succ(j) = i
BY DEF Index, Dist, Succ

\* Walking k < N steps stays on the ring and covers distance k.
LEMMA AtIsIndex ==
    \A i \in Index, k \in 0 .. N - 1 : At(i, k) \in Index /\ Dist(i, At(i, k)) = k
BY DEF Index, Dist, At

\* Walking the whole distance from i to j ends at j.
LEMMA AtDist ==
    \A i, j \in Index : At(i, Dist(i, j)) = j
BY DEF Index, Dist, At

\* Starting one step later and walking one step less ends at the same index.
LEMMA AtSucc ==
    \A i \in Index, k \in 1 .. N - 1 : At(Succ(i), k - 1) = At(i, k)
BY DEF Index, Succ, At

\* Walking zero steps.
LEMMA AtZero == \A i \in Index : At(i, 0) = i
BY DEF Index, At

-----------------------------------------------------------------------------
\* The invariant

\* The queue starts in its invariant: reset() leaves all four indices at _beg.
LEMMA QInitInv == QInit => QInv
BY DEF QInit, QInv, QTypeOK, CachesAreBehind, PastTheChecks, Index, Cells, Dist

\* Every step of the writer and of the reader keeps the invariant.
LEMMA QStepInv == QInv /\ [QNext]_qvars => QInv'
<1> SUFFICES ASSUME QInv, [QNext]_qvars PROVE QInv'
    OBVIOUS
<1> USE DEF QInv
<1>1. ASSUME NEW e \in Entries, StartPush(e) PROVE QInv'
  <2>1. QTypeOK'
    BY <1>1, SuccIsIndex DEF QTypeOK, StartPush, LooksFull, shared, reader, Cells
  <2>2. CachesAreBehind'
    BY <1>1 DEF CachesAreBehind, StartPush, LooksFull, shared, reader, Dist
  <2>3. PastTheChecks'
    BY <1>1 DEF PastTheChecks, StartPush, LooksFull, shared, reader, Succ
  <2> QED BY <2>1, <2>2, <2>3
<1>2. CASE ReloadRead
  <2>1. QTypeOK'
    BY <1>2 DEF QTypeOK, ReloadRead, shared, reader
  <2>2. CachesAreBehind'
    BY <1>2 DEF CachesAreBehind, QTypeOK, ReloadRead, shared, reader, Dist, Index
  <2>3. PastTheChecks'
    BY <1>2 DEF PastTheChecks, ReloadRead, shared, reader, Succ
  <2> QED BY <2>1, <2>2, <2>3
<1>3. CASE WriteEntry
  <2>1. QTypeOK'
    BY <1>3 DEF QTypeOK, PastTheChecks, WriteEntry, reader, Cells
  <2>2. CachesAreBehind'
    BY <1>3 DEF CachesAreBehind, WriteEntry, reader, Dist
  <2>3. r # w \/ rpc \notin {"copy", "publish"}
    BY DEF QTypeOK, PastTheChecks, CachesAreBehind, Index, Dist
  <2>4. PastTheChecks'
    BY <1>3, <2>3 DEF PastTheChecks, QTypeOK, WriteEntry, reader, Succ
  <2> QED BY <2>1, <2>2, <2>4
<1>4. CASE PublishWrite
  <2>1. QTypeOK'
    BY <1>4 DEF QTypeOK, PublishWrite, reader
  <2>2. next = Succ(w) /\ next # rCached
    BY <1>4 DEF PastTheChecks, PublishWrite
  <2>3. Dist(rCached, w)' = Dist(rCached, w) + 1
    BY <1>4, <2>2, DistGrows DEF PublishWrite, QTypeOK, reader, Dist
  <2>4. next # r
    BY <2>2 DEF QTypeOK, CachesAreBehind, Index, Dist, Succ
  <2>5. Dist(r, w)' = Dist(r, w) + 1
    BY <1>4, <2>2, <2>4, DistGrows DEF PublishWrite, QTypeOK, reader, Dist
  <2>6. Dist(r, wCached)' = Dist(r, wCached)
    BY <1>4 DEF PublishWrite, reader, Dist
  <2>7. CachesAreBehind'
    <3>1. /\ Dist(r, w) \in Nat /\ Dist(rCached, w) \in Nat /\ Dist(r, wCached) \in Nat
          /\ Dist(r, w) <= Dist(rCached, w) /\ Dist(r, wCached) <= Dist(r, w)
      BY DEF CachesAreBehind, QTypeOK, Index, Dist
    <3> QED BY <2>3, <2>5, <2>6, <3>1 DEF CachesAreBehind
  <2>8. PastTheChecks'
    BY <1>4 DEF PastTheChecks, PublishWrite, reader
  <2> QED BY <2>1, <2>7, <2>8
<1>5. CASE StartPop
  BY <1>5 DEF QTypeOK, CachesAreBehind, PastTheChecks, StartPop, LooksEmpty, shared, writer, Dist, Succ
<1>6. CASE ReloadWrite
  <2>1. QTypeOK'
    BY <1>6 DEF QTypeOK, ReloadWrite, shared, writer, Cells
  <2>2. CachesAreBehind'
    BY <1>6 DEF CachesAreBehind, QTypeOK, ReloadWrite, shared, writer, Dist, Index
  <2>3. PastTheChecks'
    BY <1>6 DEF PastTheChecks, ReloadWrite, shared, writer, Succ
  <2> QED BY <2>1, <2>2, <2>3
<1>7. CASE CopyEntry
  <2>1. QTypeOK'
    BY <1>7 DEF QTypeOK, CopyEntry, shared, writer
  <2>2. CachesAreBehind'
    BY <1>7 DEF CachesAreBehind, CopyEntry, shared, writer, Dist
  <2>3. PastTheChecks'
    BY <1>7 DEF PastTheChecks, CopyEntry, shared, writer, Succ
  <2> QED BY <2>1, <2>2, <2>3
<1>8. CASE PublishRead
  <2>1. QTypeOK'
    BY <1>8, SuccIsIndex DEF QTypeOK, PublishRead, writer
  <2>2. r # wCached
    BY <1>8 DEF PastTheChecks, PublishRead
  <2>3. r # w
    BY <2>2 DEF QTypeOK, CachesAreBehind, Index, Dist
  <2>4. Dist(r, w)' = Dist(r, w) - 1
    BY <1>8, <2>3, DistShrinks DEF PublishRead, QTypeOK, writer, Dist
  <2>5. Dist(r, wCached)' = Dist(r, wCached) - 1
    BY <1>8, <2>2, DistShrinks DEF PublishRead, QTypeOK, writer, Dist
  <2>6. Dist(rCached, w)' = Dist(rCached, w)
    BY <1>8 DEF PublishRead, writer, Dist
  <2>7. CachesAreBehind'
    <3>1. /\ Dist(r, w) \in Nat /\ Dist(rCached, w) \in Nat /\ Dist(r, wCached) \in Nat
          /\ Dist(r, w) <= Dist(rCached, w) /\ Dist(r, wCached) <= Dist(r, w)
      BY DEF CachesAreBehind, QTypeOK, Index, Dist
    <3> QED BY <2>4, <2>5, <2>6, <3>1 DEF CachesAreBehind
  <2>8. PastTheChecks'
    BY <1>8 DEF PastTheChecks, PublishRead, writer, Succ
  <2> QED BY <2>1, <2>7, <2>8
<1>9. CASE UNCHANGED qvars
  BY <1>9 DEF QTypeOK, CachesAreBehind, PastTheChecks, qvars, shared, writer, reader, Dist, Succ
<1> QED
  BY <1>1, <1>2, <1>3, <1>4, <1>5, <1>6, <1>7, <1>8, <1>9 DEF QNext, WriterStep, ReaderStep

\* In every reachable state the caches are behind the indices they copy, and the
\* control points mean what the code takes them to mean.
THEOREM QueueInvariant == QSpec => []QInv
BY QInitInv, QStepInv, PTL DEF QSpec

\* The variables of the queue keep their types.
THEOREM QueueTypes == QSpec => []QTypeOK
<1>1. QInv => QTypeOK
  BY DEF QInv
<1> QED BY <1>1, QueueInvariant, PTL

\* A cached index errs on the safe side (full() and emptiness()).
THEOREM QueueCaches == QSpec => []CachesAreBehind
<1>1. QInv => CachesAreBehind
  BY DEF QInv
<1> QED BY <1>1, QueueInvariant, PTL

\* Past its check push has a free cell and pop a published entry.
THEOREM QueuePastTheChecks == QSpec => []PastTheChecks
<1>1. QInv => PastTheChecks
  BY DEF QInv
<1> QED BY <1>1, QueueInvariant, PTL

\* push and pop never touch the same cell of _entries at the same time.
THEOREM QueueNoTornEntry == QSpec => []NoTornEntry
<1>1. QInv => NoTornEntry
  BY DEF QInv, QTypeOK, CachesAreBehind, PastTheChecks, NoTornEntry, Index, Dist
<1> QED BY <1>1, QueueInvariant, PTL

-----------------------------------------------------------------------------
\* The queue implements a FIFO

\* Contents is the sequence of the Dist(r, w) entries from _r up to _w.
LEMMA ContentsIsSeq ==
    QInv => /\ Contents \in Seq(Cells)
            /\ Len(Contents) = Dist(r, w)
            /\ DOMAIN Contents = 1 .. Dist(r, w)
            /\ Dist(r, w) \in 0 .. N - 1
<1> SUFFICES ASSUME QInv
    PROVE  /\ Contents \in Seq(Cells)
           /\ Len(Contents) = Dist(r, w)
           /\ DOMAIN Contents = 1 .. Dist(r, w)
           /\ Dist(r, w) \in 0 .. N - 1
    OBVIOUS
<1>1. Dist(r, w) \in 0 .. N - 1
  BY DistBounds DEF QInv, QTypeOK
<1>2. \A k \in 1 .. Dist(r, w) : entries[At(r, k - 1)] \in Cells
  <2> SUFFICES ASSUME NEW k \in 1 .. Dist(r, w) PROVE entries[At(r, k - 1)] \in Cells
      OBVIOUS
  <2>1. k - 1 \in 0 .. N - 1
    BY <1>1
  <2>2. At(r, k - 1) \in Index
    BY <2>1, AtIsIndex DEF QInv, QTypeOK
  <2> QED BY <2>2 DEF QInv, QTypeOK
<1>3. Contents \in [1 .. Dist(r, w) -> Cells]
  BY <1>2 DEF Contents
<1> QED BY <1>1, <1>3

\* No step but the two that publish changes what the queue contains.
LEMMA WriteKeepsContents == QInv /\ WriteEntry => Contents' = Contents
<1> SUFFICES ASSUME QInv, WriteEntry PROVE Contents' = Contents
    OBVIOUS
<1>1. Dist(r, w) \in 0 .. N - 1 /\ Dist(r, w)' = Dist(r, w)
  BY ContentsIsSeq DEF WriteEntry, Dist
<1>2. \A k \in 1 .. Dist(r, w) : entries[At(r, k - 1)]' = entries[At(r, k - 1)]
  <2> SUFFICES ASSUME NEW k \in 1 .. Dist(r, w)
      PROVE  entries[At(r, k - 1)]' = entries[At(r, k - 1)]
      OBVIOUS
  <2>1. k - 1 \in 0 .. N - 1
    BY <1>1
  <2>2. At(r, k - 1) \in Index /\ Dist(r, At(r, k - 1)) = k - 1
    BY <2>1, AtIsIndex DEF QInv, QTypeOK
  <2>3. At(r, k - 1) # w
    BY <1>1, <2>2
  <2>4. At(r, k - 1)' = At(r, k - 1)
    BY DEF WriteEntry, At
  <2> QED BY <2>2, <2>3, <2>4 DEF WriteEntry, QInv, QTypeOK
<1> QED BY <1>1, <1>2 DEF Contents

\* Publishing a written entry appends it.
LEMMA PublishAppends == QInv /\ PublishWrite => Contents' = Append(Contents, arg)
<1> SUFFICES ASSUME QInv, PublishWrite PROVE Contents' = Append(Contents, arg)
    OBVIOUS
<1>1. next = Succ(w) /\ next # rCached /\ entries[w] = arg
  BY DEF QInv, PastTheChecks, PublishWrite
<1>2. next # r
  BY <1>1 DEF QInv, QTypeOK, CachesAreBehind, Index, Dist, Succ
<1>3. Dist(r, w) \in 0 .. N - 1 /\ Dist(r, w)' = Dist(r, w) + 1
  BY <1>1, <1>2, ContentsIsSeq, DistGrows DEF PublishWrite, QInv, QTypeOK, Dist
<1>4. Contents \in Seq(Cells) /\ Len(Contents) = Dist(r, w)
  BY ContentsIsSeq
<1>5. Contents' = [k \in 1 .. Dist(r, w) + 1 |-> entries[At(r, k - 1)]]
  BY <1>3 DEF Contents, PublishWrite, At
<1>6. entries[At(r, Dist(r, w))] = arg
  BY <1>1, AtDist DEF QInv, QTypeOK
<1>7. /\ Append(Contents, arg) \in Seq(Cells)
      /\ Len(Append(Contents, arg)) = Dist(r, w) + 1
      /\ \A k \in 1 .. Dist(r, w) : Append(Contents, arg)[k] = Contents[k]
      /\ Append(Contents, arg)[Dist(r, w) + 1] = arg
  BY <1>3, <1>4, AppendProperties DEF QInv, QTypeOK
<1>8. \A k \in 1 .. Dist(r, w) + 1 : entries[At(r, k - 1)] = Append(Contents, arg)[k]
  BY <1>3, <1>6, <1>7 DEF Contents
<1>9. /\ DOMAIN Append(Contents, arg) = 1 .. Dist(r, w) + 1
      /\ Append(Contents, arg) \in [1 .. Dist(r, w) + 1 -> Cells]
  BY <1>7, LenProperties
<1> QED BY <1>5, <1>8, <1>9

\* Publishing a read takes the first entry away, and that entry is what was copied.
LEMMA PublishTakesHead ==
    QInv /\ PublishRead => /\ Contents # << >>
                           /\ copy = Head(Contents)
                           /\ Contents' = Tail(Contents)
<1> SUFFICES ASSUME QInv, PublishRead
    PROVE  Contents # << >> /\ copy = Head(Contents) /\ Contents' = Tail(Contents)
    OBVIOUS
<1>1. r # wCached /\ copy = entries[r]
  BY DEF QInv, PastTheChecks, PublishRead
<1>2. r # w
  BY <1>1 DEF QInv, QTypeOK, CachesAreBehind, Index, Dist
<1>3. Dist(r, w) \in 1 .. N - 1 /\ Dist(r, w)' = Dist(r, w) - 1
  BY <1>2, DistBounds, DistShrinks DEF PublishRead, QInv, QTypeOK, Dist
<1>4. Contents \in Seq(Cells) /\ Len(Contents) = Dist(r, w)
  BY ContentsIsSeq
<1>5. Contents[1] = entries[r]
  BY <1>3, AtZero DEF Contents, QInv, QTypeOK
<1>6. Contents' = [k \in 1 .. Dist(r, w) - 1 |-> entries[At(Succ(r), k - 1)]]
  BY <1>3 DEF Contents, PublishRead, At
<1>7. \A k \in 1 .. Dist(r, w) - 1 : entries[At(Succ(r), k - 1)] = Contents[k + 1]
  <2> SUFFICES ASSUME NEW k \in 1 .. Dist(r, w) - 1
      PROVE  entries[At(Succ(r), k - 1)] = Contents[k + 1]
      OBVIOUS
  <2>1. k \in 1 .. N - 1 /\ k + 1 \in 1 .. Dist(r, w) /\ (k + 1) - 1 = k
    BY <1>3
  <2>2. At(Succ(r), k - 1) = At(r, k)
    BY <2>1, AtSucc DEF QInv, QTypeOK
  <2>3. Contents[k + 1] = entries[At(r, (k + 1) - 1)]
    BY <2>1 DEF Contents
  <2> QED BY <2>1, <2>2, <2>3
<1>8. /\ Tail(Contents) \in [1 .. Dist(r, w) - 1 -> Cells]
      /\ \A k \in 1 .. Dist(r, w) - 1 : Tail(Contents)[k] = Contents[k + 1]
  <2>1. Contents # << >>
    BY <1>3, <1>4
  <2>2. /\ Tail(Contents) \in Seq(Cells)
        /\ Len(Tail(Contents)) = Dist(r, w) - 1
        /\ \A k \in 1 .. Len(Tail(Contents)) : Tail(Contents)[k] = Contents[k + 1]
    BY <1>4, <2>1, HeadTailProperties
  <2> QED BY <2>2, LenProperties
<1>9. Contents' = Tail(Contents)
  BY <1>6, <1>7, <1>8
<1>10. Contents # << >> /\ Head(Contents) = Contents[1]
  BY <1>3, <1>4
<1> QED BY <1>1, <1>5, <1>9, <1>10

\* The empty ring is the empty FIFO.
LEMMA FifoInit == QInit => Fifo!FInit
<1> SUFFICES ASSUME QInit PROVE Fifo!FInit
    OBVIOUS
<1>1. Dist(r, w) = 0
  BY DEF QInit, Dist
<1>2. Contents = << >>
  BY <1>1, QInitInv, ContentsIsSeq
<1> QED BY <1>2 DEF QInit, Fifo!FInit

\* Every step of the ring is a push, a refused push, a pop, a pop of nothing, or
\* leaves the FIFO as it is.
LEMMA FifoStep == QInv /\ [QNext]_qvars => [Fifo!FNext]_(Fifo!fvars)
<1> SUFFICES ASSUME QInv, [QNext]_qvars PROVE [Fifo!FNext]_(Fifo!fvars)
    OBVIOUS
<1> USE DEF Fifo!fvars
<1>1. ASSUME NEW e \in Entries, StartPush(e) PROVE UNCHANGED Fifo!fvars
  BY <1>1 DEF StartPush, LooksFull, shared, reader, Contents, Dist, At
<1>2. CASE ReloadRead
  <2>1. Contents' = Contents /\ popped' = popped
    BY <1>2 DEF ReloadRead, shared, reader, Contents, Dist, At
  <2>2. CASE r = next
    <3>1. Succ(w) = r
      BY <1>2, <2>2 DEF ReloadRead, QInv, PastTheChecks
    <3>2. Len(Contents) = N - 1
      BY <3>1, DistFull, ContentsIsSeq DEF QInv, QTypeOK
    <3>3. Fifo!PushFull
      BY <1>2, <2>1, <2>2, <3>2 DEF ReloadRead, Fifo!PushFull
    <3> QED BY <3>3 DEF Fifo!FNext
  <2>3. CASE r # next
    BY <1>2, <2>1, <2>3 DEF ReloadRead
  <2> QED BY <2>2, <2>3
<1>3. CASE WriteEntry
  BY <1>3, WriteKeepsContents DEF WriteEntry, reader
<1>4. CASE PublishWrite
  <2>1. Contents' = Append(Contents, arg)
    BY <1>4, PublishAppends
  <2>2. arg \in Entries /\ Succ(w) # rCached
    BY <1>4 DEF QInv, PastTheChecks, PublishWrite
  <2>3. Succ(w) # r
    BY <2>2 DEF QInv, QTypeOK, CachesAreBehind, Index, Dist, Succ
  <2>4. Len(Contents) < N - 1
    BY <2>3, DistFull, ContentsIsSeq DEF QInv, QTypeOK
  <2>5. Fifo!Push(arg)
    BY <1>4, <2>1, <2>4 DEF PublishWrite, reader, Fifo!Push
  <2> QED BY <2>2, <2>5 DEF Fifo!FNext
<1>5. CASE StartPop
  BY <1>5 DEF StartPop, shared, writer, Contents, Dist, At
<1>6. CASE ReloadWrite
  <2>1. Contents' = Contents /\ pushed' = pushed
    BY <1>6 DEF ReloadWrite, shared, writer, Contents, Dist, At
  <2>2. CASE r = w
    <3>1. Dist(r, w) = 0
      BY <2>2, DistBounds DEF QInv, QTypeOK
    <3>2. Contents = << >>
      BY <3>1, ContentsIsSeq
    <3>3. Fifo!PopEmpty
      BY <1>6, <2>1, <2>2, <3>2 DEF ReloadWrite, Fifo!PopEmpty
    <3> QED BY <3>3 DEF Fifo!FNext
  <2>3. CASE r # w
    BY <1>6, <2>1, <2>3 DEF ReloadWrite
  <2> QED BY <2>2, <2>3
<1>7. CASE CopyEntry
  BY <1>7 DEF CopyEntry, shared, writer, Contents, Dist, At
<1>8. CASE PublishRead
  <2>1. Fifo!Pop
    BY <1>8, PublishTakesHead DEF PublishRead, writer, Fifo!Pop
  <2> QED BY <2>1 DEF Fifo!FNext
<1>9. CASE UNCHANGED qvars
  BY <1>9 DEF qvars, shared, writer, reader, Contents, Dist, At
<1> QED
  BY <1>1, <1>2, <1>3, <1>4, <1>5, <1>6, <1>7, <1>8, <1>9 DEF QNext, WriterStep, ReaderStep

\* SharedQueue_SRSW is a FIFO of ExpectedMax - 1 entries: nothing is lost, doubled
\* or reordered, push is refused only when it is full and pop only when it is empty.
THEOREM QueueIsFifo == QSpec => FifoSpec
<1>1. QInit => Fifo!FInit
  BY FifoInit
<1>2. QInv /\ [QNext]_qvars => [Fifo!FNext]_(Fifo!fvars)
  BY FifoStep
<1> QED BY <1>1, <1>2, QueueInvariant, PTL DEF QSpec, FifoSpec, Fifo!FSpec

HIDE QueueAssumption
USE RemovalAssumption

-----------------------------------------------------------------------------
\* The queue under del_method and the removal thread

\* Whatever the threads do, the ring takes a step of its own or none.
LEMMA QueueSteps == [RNext]_rvars => [QNext]_qvars
<1> SUFFICES ASSUME [RNext]_rvars PROVE [QNext]_qvars
    OBVIOUS
<1>1. ASSUME NEW k \in Entries, Del(k) PROVE QNext
  BY <1>1 DEF Del, QNext, WriterStep
<1>2. CASE Client
  BY <1>2 DEF Client, PushOn, WakeRemover, QNext, WriterStep
<1>3. CASE Remover
  BY <1>3 DEF Remover, StartThread, ThreadTop, CheckEmpty, ClearFlag, Woken, LoopTop, PopOn, Act,
              QNext
<1>4. CASE Shutdown
  BY <1>4 DEF Shutdown, LowerRunning, Join
<1>5. CASE UNCHANGED rvars
  BY <1>5 DEF rvars
<1> QED BY <1>1, <1>2, <1>3, <1>4, <1>5 DEF RNext

\* With the ring untouched, its contents are.
LEMMA SharedKeepsContents == UNCHANGED shared => Contents' = Contents
BY DEF shared, Contents, Dist, At

-----------------------------------------------------------------------------
\* The invariant

\* Before the threads start nothing is accepted, acted on or freed.
LEMMA RInitInv == RInit => RInv
<1> SUFFICES ASSUME RInit PROVE RInv
    OBVIOUS
<1> USE DEF RInit
<1>1. QInv
  BY QInitInv
<1>2. Contents = << >>
  <2>1. Dist(r, w) = 0
    BY DEF QInit, Dist
  <2> QED BY <1>1, <2>1, ContentsIsSeq
<1>3. RTypeOK
  <2>1. accepted \in Seq(Entries) /\ acted \in Seq(Entries) /\ dels \in 0 .. MaxDels
    OBVIOUS
  <2>2. QTypeOK /\ request \in Cells
    BY <1>1 DEF QInv, Cells
  <2> QED BY <2>1, <2>2 DEF RTypeOK
<1>4. InTransit /\ RequestsAccounted
  BY <1>2 DEF InTransit, RequestsAccounted
<1>5. OnlyAskedIsRemoved
  BY DEF OnlyAskedIsRemoved
<1> QED BY <1>1, <1>3, <1>4, <1>5 DEF RInv

\* A step that hands no request on, and touches no key, keeps what is said of them.
LEMMA QuietSteps ==
    ASSUME RInv, Contents' = Contents, rmpc' = "act" <=> rmpc = "act",
           UNCHANGED <<request, stored, freed, accepted, acted>>
    PROVE  (InTransit /\ RequestsAccounted /\ OnlyAskedIsRemoved)'
<1>1. InTransit'
  BY DEF RInv, InTransit
<1>2. RequestsAccounted'
  <2>1. CASE rmpc = "act"
    BY <2>1 DEF RInv, RequestsAccounted
  <2>2. CASE rmpc # "act"
    BY <2>2 DEF RInv, RequestsAccounted
  <2> QED BY <2>1, <2>2
<1>3. OnlyAskedIsRemoved'
  BY DEF RInv, OnlyAskedIsRemoved
<1> QED BY <1>1, <1>2, <1>3

\* The rest of push: the request joins the accepted ones when it joins the queue.
LEMMA PushOnInv == RInv /\ QInv' /\ PushOn => RInv'
<1> SUFFICES ASSUME RInv, QInv', PushOn PROVE RInv'
    OBVIOUS
<1>1. CASE PublishWrite
  <2>1. arg \in Entries /\ wpc = "publish" /\ wpc' = "idle"
    BY <1>1 DEF RInv, QInv, PastTheChecks, PublishWrite
  <2>2. Contents' = Append(Contents, arg) /\ accepted' = Append(accepted, arg)
    BY <1>1, <2>1, PublishAppends DEF RInv, PushOn
  <2>3. RTypeOK'
    BY <2>1, <2>2 DEF PushOn, RInv, QInv, RTypeOK, tier, Cells
  <2>4. InTransit'
    BY <2>1, <2>2 DEF PushOn, RInv, InTransit, tier
  <2>5. RequestsAccounted'
    <3> DEFINE Before == acted \o (IF rmpc = "act" THEN <<request>> ELSE << >>)
    <3>1. Before \in Seq(Entries) /\ Before' = Before
      BY DEF PushOn, RInv, RTypeOK, InTransit, tier
    <3>2. Contents \in Seq(Entries) /\ accepted = Before \o Contents
      BY DEF RInv, RequestsAccounted, InTransit
    <3> HIDE DEF Before
    <3>3. Append(Before \o Contents, arg) = Before \o Append(Contents, arg)
      BY <2>1, <3>1, <3>2
    <3>4. accepted' = Before' \o Contents'
      BY <2>2, <3>1, <3>2, <3>3
    <3> QED BY <3>4 DEF Before, RequestsAccounted
  <2>6. OnlyAskedIsRemoved'
    BY DEF PushOn, RInv, OnlyAskedIsRemoved, tier
  <2> QED BY <2>3, <2>4, <2>5, <2>6 DEF RInv
<1>2. CASE ReloadRead \/ WriteEntry
  <2>1. Contents' = Contents
    <3>1. CASE ReloadRead
      BY <3>1, SharedKeepsContents DEF ReloadRead
    <3>2. CASE WriteEntry
      BY <3>2, WriteKeepsContents DEF RInv
    <3> QED BY <1>2, <3>1, <3>2
  <2>2. accepted' = accepted
    BY <1>2 DEF PushOn, ReloadRead, WriteEntry
  <2>3. (InTransit /\ RequestsAccounted /\ OnlyAskedIsRemoved)'
    BY <2>1, <2>2, QuietSteps DEF PushOn, tier
  <2>4. RTypeOK'
    BY <2>2 DEF PushOn, RInv, QInv, RTypeOK, tier
  <2> QED BY <2>3, <2>4 DEF RInv
<1> QED BY <1>1, <1>2 DEF PushOn

\* pop: what leaves the queue is in the hands of the thread.
LEMMA PopOnInv == RInv /\ QInv' /\ PopOn => RInv'
<1> SUFFICES ASSUME RInv, QInv', PopOn PROVE RInv'
    OBVIOUS
<1>1. CASE PublishRead
  <2>1. rpc = "publish" /\ rpc' = "idle" /\ request' = copy /\ rmpc = "pop" /\ rmpc' = "act"
    BY <1>1 DEF PublishRead, PopOn
  <2>2. Contents # << >> /\ copy = Head(Contents) /\ Contents' = Tail(Contents)
    BY <1>1, PublishTakesHead DEF RInv
  <2>3. Contents \in Seq(Entries) /\ copy \in Entries
    BY <2>2 DEF RInv, InTransit
  <2>4. RTypeOK'
    BY <2>1, <2>3 DEF PopOn, RInv, QInv, RTypeOK, tier, Cells
  <2>5. InTransit'
    BY <2>1, <2>2, <2>3 DEF PopOn, RInv, InTransit, tier
  <2>6. RequestsAccounted'
    <3>1. acted \in Seq(Entries) /\ accepted = acted \o Contents
      BY <2>1, <2>3 DEF RInv, RTypeOK, RequestsAccounted
    <3>2. Contents = <<copy>> \o Tail(Contents)
      BY <2>2, <2>3
    <3>3. Tail(Contents) \in Seq(Entries)
      BY <2>2, <2>3
    <3>4. acted \o (<<copy>> \o Tail(Contents)) = (acted \o <<copy>>) \o Tail(Contents)
      BY <2>3, <3>1, <3>3
    <3>5. accepted = (acted \o <<copy>>) \o Tail(Contents)
      BY <3>1, <3>2, <3>4
    <3> QED BY <2>1, <2>2, <3>5 DEF PopOn, RequestsAccounted, tier
  <2>7. OnlyAskedIsRemoved'
    BY DEF PopOn, RInv, OnlyAskedIsRemoved, tier
  <2> QED BY <2>4, <2>5, <2>6, <2>7 DEF RInv
<1>2. CASE StartPop \/ ReloadWrite \/ CopyEntry
  <2>1. Contents' = Contents
    BY <1>2, SharedKeepsContents DEF StartPop, ReloadWrite, CopyEntry
  <2>2. request' = request /\ rmpc = "pop" /\ rmpc' \in {"pop", "loop"}
    BY <1>2 DEF PopOn, StartPop, ReloadWrite, CopyEntry
  <2>3. (InTransit /\ RequestsAccounted /\ OnlyAskedIsRemoved)'
    BY <2>1, <2>2, QuietSteps DEF PopOn, tier
  <2>4. RTypeOK'
    BY <2>2 DEF PopOn, RInv, QInv, RTypeOK, tier
  <2> QED BY <2>3, <2>4 DEF RInv
<1> QED BY <1>1, <1>2 DEF PopOn, ReaderStep

\* del_action: the request moves on to what was acted on, and a key that leaves the
\* table takes its cell to the free stack.
LEMMA ActInv == RInv /\ QInv' /\ Act => RInv'
<1> SUFFICES ASSUME RInv, QInv', Act PROVE RInv'
    OBVIOUS
<1>1. request \in Entries /\ rmpc = "act" /\ rmpc' = "loop" /\ request' = Blank
  BY DEF RInv, InTransit, Act
<1>2. acted' = Append(acted, request) /\ acted \in Seq(Entries)
  BY DEF RInv, RTypeOK, Act
<1>3. Contents' = Contents /\ Contents \in Seq(Entries)
  BY SharedKeepsContents DEF Act, qvars, RInv, InTransit
<1>4. freed \in Seq(Entries) /\ stored \subseteq Entries
  BY DEF RInv, RTypeOK, InTransit
<1>5. RTypeOK'
  BY <1>1, <1>2 DEF Act, RInv, QInv, RTypeOK, tier, Cells
<1>6. InTransit'
  <2>1. freed' \in {freed, Append(freed, request)}
    BY DEF Act, tier
  <2> QED BY <1>1, <1>3, <1>4, <2>1 DEF InTransit
<1>7. RequestsAccounted'
  <2>1. accepted = (acted \o <<request>>) \o Contents
    BY <1>1 DEF RInv, RequestsAccounted
  <2>2. acted' = acted \o <<request>> /\ acted' \o << >> = acted'
    BY <1>1, <1>2
  <2> QED BY <1>1, <1>3, <2>1, <2>2 DEF Act, RequestsAccounted
<1>8. OnlyAskedIsRemoved'
  <2>1. /\ DOMAIN acted' = DOMAIN acted \cup {Len(acted) + 1}
        /\ \A i \in DOMAIN acted : acted'[i] = acted[i]
        /\ acted'[Len(acted) + 1] = request
    BY <1>1, <1>2
  <2>2. CASE ~Removes(request)
    <3>1. UNCHANGED tier
      BY <2>2 DEF Act
    <3> QED BY <2>1, <3>1 DEF RInv, OnlyAskedIsRemoved, tier
  <2>3. CASE Removes(request)
    <3>1. stored' = stored \ {request} /\ freed' = Append(freed, request) /\ request \in stored
      BY <2>3 DEF Act, Removes
    <3>2. /\ DOMAIN freed' = DOMAIN freed \cup {Len(freed) + 1}
          /\ \A i \in DOMAIN freed : freed'[i] = freed[i]
          /\ freed'[Len(freed) + 1] = request
      BY <1>1, <1>4, <3>1
    <3>3. \A i \in DOMAIN freed : freed[i] # request
      BY <3>1 DEF RInv, OnlyAskedIsRemoved
    <3>4. \A k \in Entries \ stored' : \E i \in DOMAIN acted' : acted'[i] = k
      BY <2>1, <3>1 DEF RInv, OnlyAskedIsRemoved
    <3>5. {freed'[i] : i \in DOMAIN freed'} = {freed[i] : i \in DOMAIN freed} \cup {request}
      BY <3>2
    <3>6. {freed'[i] : i \in DOMAIN freed'} = Entries \ stored'
      BY <1>1, <3>1, <3>5 DEF RInv, OnlyAskedIsRemoved
    <3>7. \A i, j \in DOMAIN freed' : freed'[i] = freed'[j] => i = j
      BY <3>2, <3>3 DEF RInv, OnlyAskedIsRemoved
    <3> QED BY <3>4, <3>6, <3>7 DEF OnlyAskedIsRemoved
  <2> QED BY <2>2, <2>3
<1> QED BY <1>5, <1>6, <1>7, <1>8 DEF RInv

\* Every step of the application, of the removal thread and of shutdown keeps it.
LEMMA RStepInv == RInv /\ [RNext]_rvars => RInv'
<1> SUFFICES ASSUME RInv, [RNext]_rvars PROVE RInv'
    OBVIOUS
<1>1. QInv'
  BY QueueSteps, QStepInv DEF RInv
<1>2. ASSUME NEW k \in Entries, Del(k) PROVE RInv'
  <2>1. (InTransit /\ RequestsAccounted /\ OnlyAskedIsRemoved)'
    BY <1>2, SharedKeepsContents, QuietSteps DEF Del, StartPush, tier
  <2>2. RTypeOK'
    BY <1>1, <1>2 DEF Del, RInv, QInv, RTypeOK, tier
  <2> QED BY <1>1, <2>1, <2>2 DEF RInv
<1>3. CASE PushOn
  BY <1>1, <1>3, PushOnInv
<1>4. CASE PopOn
  BY <1>1, <1>4, PopOnInv
<1>5. CASE Act
  BY <1>1, <1>5, ActInv
<1>6. CASE \/ WakeRemover \/ StartThread \/ ThreadTop \/ CheckEmpty \/ ClearFlag \/ Woken
           \/ LoopTop \/ Shutdown \/ UNCHANGED rvars
  <2> USE DEF WakeRemover, StartThread, ThreadTop, CheckEmpty, ClearFlag, Woken, LoopTop,
              Shutdown, LowerRunning, Join, rvars, tier
  <2>1. UNCHANGED <<qvars, request, stored, freed, accepted, acted>>
    BY <1>6
  <2>2. rmpc' = "act" <=> rmpc = "act"
    BY <1>6
  <2>3. (InTransit /\ RequestsAccounted /\ OnlyAskedIsRemoved)'
    BY <2>1, <2>2, SharedKeepsContents, QuietSteps DEF qvars
  <2>4. /\ cpc' \in {cpc, "idle"} /\ flag' \in BOOLEAN /\ running' \in BOOLEAN
        /\ rmpc' \in {rmpc, "top", "check", "exited", "clear", "loop", "asleep", "pop"}
        /\ downpc' \in {downpc, "joining", "down"} /\ dels' = dels
    BY <1>6 DEF RInv, RTypeOK
  <2>5. RTypeOK'
    BY <1>1, <2>1, <2>4 DEF RInv, QInv, RTypeOK
  <2> QED BY <1>1, <2>3, <2>5 DEF RInv
<1> QED
  BY <1>2, <1>3, <1>4, <1>5, <1>6 DEF RNext, Client, Remover

-----------------------------------------------------------------------------
\* The theorems

\* What RInv says holds in every reachable state.
THEOREM RemovalInvariant == RSpec => []RInv
BY RInitInv, RStepInv, PTL DEF RSpec

\* The queue, the threads around it and the tier keep their types.
THEOREM RemovalTypes == RSpec => []RTypeOK
<1>1. RInv => RTypeOK
  BY DEF RInv
<1> QED BY <1>1, RemovalInvariant, PTL

\* del_method and the removal thread together lose, double and reorder no request
\* that push took, wherever a shutdown falls.
THEOREM RemovalAccountsForAll == RSpec => []RequestsAccounted
<1>1. RInv => RequestsAccounted
  BY DEF RInv
<1> QED BY <1>1, RemovalInvariant, PTL

\* No key leaves the table that nobody deleted, and no cell is freed twice.
THEOREM RemovalOnlyAsked == RSpec => []OnlyAskedIsRemoved
<1>1. RInv => OnlyAskedIsRemoved
  BY DEF RInv
<1> QED BY <1>1, RemovalInvariant, PTL

\* Used by these threads, the ring still implements its FIFO.
THEOREM RemovalQueueIsFifo == RSpec => FifoSpec
<1>1. RInit => QInit
  BY DEF RInit
<1>2. RSpec => QSpec
  BY <1>1, QueueSteps, PTL DEF RSpec, QSpec
<1> QED BY <1>2, QueueIsFifo, PTL
=============================================================================
