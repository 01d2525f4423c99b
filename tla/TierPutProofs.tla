---------------------------- MODULE TierPutProofs ----------------------------
(***************************************************************************)
(* TypeOK and SlotsAccounted of TierPut, for every number of processes,    *)
(* readers, slots, keys, puts and expired waits.                           *)
(***************************************************************************)
EXTENDS TierPut, FiniteSetTheorems, SequenceTheorems, TLAPS

\* What the proofs use of sequences
LEMMA SeqFacts ==
    ASSUME NEW S, NEW q \in Seq(S)
    PROVE  /\ Len(q) \in Nat /\ DOMAIN q = 1 .. Len(q)
           /\ \A i \in DOMAIN q : q[i] \in S
BY LenProperties, ElementOfSeq

\* Filter builds the batch as a function on its positions.
LEMMA FunctionIsSeq ==
    ASSUME NEW S, NEW n \in Nat, NEW f \in [1 .. n -> S]
    PROVE  f \in Seq(S)
BY SeqDef

\* Every slot is an offset an element can hold.
LEMMA SlotsAreOffsets == Slots \subseteq Offsets
BY PutAssumption DEF Slots, Offsets

-----------------------------------------------------------------------------
\* The initial state

\* Elements start clear and unwritten, readers with empty batches.
LEMMA TypeInit == Init => TypeInv
<1> SUFFICES ASSUME Init PROVE TypeInv
  OBVIOUS
<1>1. TypeOK
  <2>1. /\ 0 \in Procs /\ NoOffset \in Offsets /\ NoHash \in Hashes
        /\ NoRequest \in [hash : Hashes, updating : BOOLEAN, tier : Tiers]
    BY PutAssumption DEF Procs, Offsets, NoOffset, Hashes, NoHash, NoRequest
  <2>2. free \in Seq(Slots)
    BY PutAssumption DEF Init, Slots
  <2>3. /\ marker \in [Procs -> Markers] /\ hash \in [Procs -> Hashes]
        /\ offset \in [Procs -> Offsets] /\ cpc \in [Procs -> ClientPoints]
        /\ req \in [Procs -> [hash : Hashes, updating : BOOLEAN, tier : Tiers]]
        /\ got \in [Procs -> Offsets] /\ back \in [Procs -> Hashes]
    BY <2>1 DEF Init, Markers, ClientPoints
  <2>4. /\ spc \in [Servers -> ServerPoints] /\ scan \in [Servers -> Procs]
        /\ pos \in [Servers -> Nat \ {0}]
        /\ asked \in [Servers -> BOOLEAN] /\ enough \in [Servers -> BOOLEAN]
        /\ storing \in [Servers -> Keys \cup {NoKey}]
    BY <2>1 DEF Init, ServerPoints
  <2>5. /\ ready \in [Servers -> Seq(Procs)] /\ taken \in [Servers -> Seq(Slots)]
        /\ batch \in [Servers -> Seq([proc : Procs, found : Slots \cup {NoOffset}])]
    BY DEF Init
  <2>6. /\ flag \in BOOLEAN /\ requested \in Nat /\ table \subseteq Keys \X Slots /\ aged \subseteq Slots
        /\ locks \in BOOLEAN
        /\ data \in [Slots -> Keys \cup {NoKey}] /\ wild \in BOOLEAN /\ issued \subseteq Keys
    BY DEF Init
  <2>7. puts \in 0 .. MaxPuts /\ timeouts \in 0 .. MaxTimeouts
    BY PutAssumption DEF Init
  <2> QED BY <2>2, <2>3, <2>4, <2>5, <2>6, <2>7 DEF TypeOK
<1>2. ASSUME NEW p \in Procs PROVE RequestWritten(p)
  BY DEF Init, RequestWritten, NoHash
<1>3. ASSUME NEW s \in Servers PROVE HeldWritten(s) /\ InStep(s)
  BY DEF Init, HeldWritten, InStep, Allotting
<1> QED BY <1>1, <1>2, <1>3 DEF TypeInv

-----------------------------------------------------------------------------
\* The clients

\* A client leaves the readers' variables alone.
LEMMA ReadersFrame ==
    ASSUME TypeInv, UNCHANGED server, \A p \in Procs : Written(p) => Written(p)'
    PROVE  \A s \in Servers : HeldWritten(s)' /\ InStep(s)'
<1> SUFFICES ASSUME NEW s \in Servers PROVE HeldWritten(s)' /\ InStep(s)'
  OBVIOUS
<1>1. HeldWritten(s)'
  <2>1. /\ \A i \in DOMAIN ready[s] : ready[s][i] \in Procs
        /\ \A i \in DOMAIN batch[s] : batch[s][i].proc \in Procs
    <3>1. ready[s] \in Seq(Procs) /\ batch[s] \in Seq([proc : Procs, found : Slots \cup {NoOffset}])
      BY DEF TypeInv, TypeOK
    <3>2. \A i \in DOMAIN ready[s] : ready[s][i] \in Procs
      BY <3>1, SeqFacts
    <3>3. \A i \in DOMAIN batch[s] : batch[s][i] \in [proc : Procs, found : Slots \cup {NoOffset}]
      BY <3>1, SeqFacts
    <3> QED BY <3>2, <3>3
  <2> QED BY <2>1 DEF TypeInv, HeldWritten, server
<1>2. InStep(s)'
  <2>1. Known(s)' = Known(s) /\ Wanted(s)' = Wanted(s)
    BY DEF Known, Wanted, server
  <2> QED BY <2>1 DEF TypeInv, InStep, server
<1> QED BY <1>1, <1>2

\* A step of put_method keeps the types, and submits only what it has written.
LEMMA ClientTypes ==
    ASSUME TypeInv, NEW p \in Procs, StartPut(p) \/ BusyPut(p) \/ ClientStep(p)
    PROVE  TypeInv'
<1>0. TypeOK
  BY DEF TypeInv
<1>1. CASE StartPut(p)
  <2>1. TypeOK'
    <3>1. cpc' \in [Procs -> ClientPoints]
      BY <1>0, <1>1 DEF StartPut, TypeOK, ClientPoints
    <3>2. puts' \in 0 .. MaxPuts
      BY <1>0, <1>1, PutAssumption DEF StartPut, TypeOK
    <3>3. req' \in [Procs -> [hash : Hashes, updating : BOOLEAN, tier : Tiers]]
      BY <1>0, <1>1 DEF StartPut, TypeOK, Hashes
    <3> QED
      BY <1>0, <1>1, <3>1, <3>2, <3>3 DEF TypeOK, StartPut, com, client, server, lru, store
  <2>2. UNCHANGED server /\ \A q \in Procs : Written(q) => Written(q)'
    BY <1>0, <1>1 DEF TypeInv, TypeOK, RequestWritten, Written, StartPut, com, server
  <2>3. \A q \in Procs : RequestWritten(q)'
    BY <1>0, <1>1, <2>2 DEF TypeInv, TypeOK, RequestWritten, Written, NoHash, StartPut, com, client
  <2> QED BY <2>1, <2>2, <2>3, ReadersFrame DEF TypeInv
<1>2. CASE BusyPut(p)
  <2>1. TypeOK'
    <3>1. puts' \in 0 .. MaxPuts
      BY <1>0, <1>2, PutAssumption DEF BusyPut, TypeOK
    <3> QED
      BY <1>0, <1>2, <3>1 DEF TypeOK, BusyPut, com, client, server, lru, store
  <2>2. UNCHANGED server /\ \A q \in Procs : Written(q) => Written(q)'
    BY <1>0, <1>2 DEF TypeInv, TypeOK, RequestWritten, Written, BusyPut, com, server
  <2>3. \A q \in Procs : RequestWritten(q)'
    BY <1>0, <1>2, <2>2 DEF TypeInv, TypeOK, RequestWritten, Written, NoHash, BusyPut, com, client
  <2> QED BY <2>1, <2>2, <2>3, ReadersFrame DEF TypeInv
<1>3. CASE WriteRequest(p)
  <2>1. TypeOK'
    <3>1. cpc' \in [Procs -> ClientPoints]
      BY <1>0, <1>3 DEF WriteRequest, TypeOK, ClientPoints
    <3>2. hash' \in [Procs -> Hashes]
      BY <1>0, <1>3 DEF WriteRequest, TypeOK
    <3>3. offset' \in [Procs -> Offsets]
      BY <1>0, <1>3, PutAssumption DEF WriteRequest, TypeOK, Offsets, NoOffset, MaxOffset
    <3> QED
      BY <1>0, <1>3, <3>1, <3>2, <3>3 DEF TypeOK, WriteRequest, com, client, server, lru, store
  <2>2. UNCHANGED server /\ \A q \in Procs : Written(q) => Written(q)'
    BY <1>0, <1>3 DEF TypeInv, TypeOK, RequestWritten, Written, WriteRequest, com, server
  <2>3. \A q \in Procs : RequestWritten(q)'
    BY <1>0, <1>3, <2>2 DEF TypeInv, TypeOK, RequestWritten, Written, NoHash, WriteRequest, com, client
  <2> QED BY <2>1, <2>2, <2>3, ReadersFrame DEF TypeInv
<1>4. CASE Submit(p)
  <2>1. TypeOK'
    <3>1. cpc' \in [Procs -> ClientPoints]
      BY <1>0, <1>4 DEF Submit, TypeOK, ClientPoints
    <3>2. marker' \in [Procs -> Markers]
      BY <1>0, <1>4 DEF Submit, TypeOK, Markers
    <3> QED
      BY <1>0, <1>4, <3>1, <3>2 DEF TypeOK, Submit, com, client, server, lru, store
  <2>2. UNCHANGED server /\ \A q \in Procs : Written(q) => Written(q)'
    BY <1>0, <1>4 DEF TypeInv, TypeOK, RequestWritten, Written, Submit, com, server
  <2>3. \A q \in Procs : RequestWritten(q)'
    BY <1>0, <1>4, <2>2 DEF TypeInv, TypeOK, RequestWritten, Written, NoHash, Submit, com, client
  <2> QED BY <2>1, <2>2, <2>3, ReadersFrame DEF TypeInv
<1>5. CASE WakeReader(p)
  <2>1. TypeOK'
    <3>1. cpc' \in [Procs -> ClientPoints]
      BY <1>0, <1>5 DEF WakeReader, TypeOK, ClientPoints
    <3>2. flag' \in BOOLEAN
      BY <1>0, <1>5 DEF WakeReader
    <3> QED
      BY <1>0, <1>5, <3>1, <3>2 DEF TypeOK, WakeReader, com, client, server, lru, store
  <2>2. UNCHANGED server /\ \A q \in Procs : Written(q) => Written(q)'
    BY <1>0, <1>5 DEF TypeInv, TypeOK, RequestWritten, Written, WakeReader, com, server
  <2>3. \A q \in Procs : RequestWritten(q)'
    BY <1>0, <1>5, <2>2 DEF TypeInv, TypeOK, RequestWritten, Written, NoHash, WakeReader, com, client
  <2> QED BY <2>1, <2>2, <2>3, ReadersFrame DEF TypeInv
<1>6. CASE Granted(p)
  <2>1. TypeOK'
    <3>1. cpc' \in [Procs -> ClientPoints]
      BY <1>0, <1>6 DEF Granted, TypeOK, ClientPoints
    <3>2. got' \in [Procs -> Offsets]
      BY <1>0, <1>6 DEF Granted, TypeOK
    <3> QED
      BY <1>0, <1>6, <3>1, <3>2 DEF TypeOK, Granted, com, client, server, lru, store
  <2>2. UNCHANGED server /\ \A q \in Procs : Written(q) => Written(q)'
    BY <1>0, <1>6 DEF TypeInv, TypeOK, RequestWritten, Written, Granted, com, server
  <2>3. \A q \in Procs : RequestWritten(q)'
    BY <1>0, <1>6, <2>2 DEF TypeInv, TypeOK, RequestWritten, Written, NoHash, Granted, com, client
  <2> QED BY <2>1, <2>2, <2>3, ReadersFrame DEF TypeInv
<1>7. CASE TimedOut(p)
  <2>1. TypeOK'
    <3>1. cpc' \in [Procs -> ClientPoints]
      BY <1>0, <1>7 DEF TimedOut, TypeOK, ClientPoints
    <3>2. timeouts' \in 0 .. MaxTimeouts
      BY <1>0, <1>7, PutAssumption DEF TimedOut, TypeOK
    <3> QED
      BY <1>0, <1>7, <3>1, <3>2 DEF TypeOK, TimedOut, com, client, server, lru, store
  <2>2. UNCHANGED server /\ \A q \in Procs : Written(q) => Written(q)'
    BY <1>0, <1>7 DEF TypeInv, TypeOK, RequestWritten, Written, TimedOut, com, server
  <2>3. \A q \in Procs : RequestWritten(q)'
    BY <1>0, <1>7, <2>2 DEF TypeInv, TypeOK, RequestWritten, Written, NoHash, TimedOut, com, client
  <2> QED BY <2>1, <2>2, <2>3, ReadersFrame DEF TypeInv
<1>8. CASE CopyData(p)
  <2>1. TypeOK'
    <3>1. cpc' \in [Procs -> ClientPoints]
      BY <1>0, <1>8 DEF CopyData, TypeOK, ClientPoints
    <3>2. data' \in [Slots -> Keys \cup {NoKey}] /\ wild' \in BOOLEAN
      BY <1>0, <1>8 DEF CopyData, TypeOK, Hashes
    <3>3. back' \in [Procs -> Hashes]
      BY <1>0, <1>8 DEF CopyData, TypeOK
    <3> QED
      BY <1>0, <1>8, <3>1, <3>2, <3>3 DEF TypeOK, CopyData, com, client, server, lru, store
  <2>2. UNCHANGED server /\ \A q \in Procs : Written(q) => Written(q)'
    BY <1>0, <1>8 DEF TypeInv, TypeOK, RequestWritten, Written, CopyData, com, server
  <2>3. \A q \in Procs : RequestWritten(q)'
    BY <1>0, <1>8, <2>2 DEF TypeInv, TypeOK, RequestWritten, Written, NoHash, CopyData, com, client
  <2> QED BY <2>1, <2>2, <2>3, ReadersFrame DEF TypeInv
<1>9. CASE Return(p)
  <2>1. TypeOK'
    <3>1. cpc' \in [Procs -> ClientPoints]
      BY <1>0, <1>9 DEF Return, TypeOK, ClientPoints
    <3>2. marker' \in [Procs -> Markers] /\ got' \in [Procs -> Offsets]
      BY <1>0, <1>9, PutAssumption DEF Return, TypeOK, Markers, Offsets, NoOffset
    <3>3. issued' \subseteq Keys
      BY <1>0, <1>9 DEF Return, TypeInv, TypeOK, RequestWritten
    <3>4. req' \in [Procs -> [hash : Hashes, updating : BOOLEAN, tier : Tiers]]
      BY <1>0, <1>9, PutAssumption DEF Return, TypeOK, NoRequest, NoHash, Hashes
    <3>5. back' \in [Procs -> Hashes]
      BY <1>0, <1>9 DEF Return, TypeOK, NoHash, Hashes
    <3> QED
      BY <1>0, <1>9, <3>1, <3>2, <3>3, <3>4, <3>5 DEF TypeOK, Return, com, client, server, lru, store
  <2>2. UNCHANGED server /\ \A q \in Procs : Written(q) => Written(q)'
    BY <1>0, <1>9 DEF TypeInv, TypeOK, RequestWritten, Written, Return, com, server
  <2>3. \A q \in Procs : RequestWritten(q)'
    BY <1>0, <1>9, <2>2 DEF TypeInv, TypeOK, RequestWritten, Written, NoHash, Return, com, client
  <2> QED BY <2>1, <2>2, <2>3, ReadersFrame DEF TypeInv
<1> QED BY <1>1, <1>2, <1>3, <1>4, <1>5, <1>6, <1>7, <1>8, <1>9 DEF ClientStep

-----------------------------------------------------------------------------
\* The readers

\* Facts about a batch and the slots taken for it
LEMMA BatchFacts ==
    ASSUME TypeOK, NEW s \in Servers
    PROVE  /\ batch[s] \in Seq([proc : Procs, found : Slots \cup {NoOffset}])
           /\ DOMAIN batch[s] = 1 .. Len(batch[s]) /\ Len(batch[s]) \in Nat
           /\ \A i \in DOMAIN batch[s] : batch[s][i].proc \in Procs /\ batch[s][i].found \in Slots \cup {NoOffset}
           /\ IsFiniteSet(DOMAIN batch[s] \ Known(s)) /\ Wanted(s) \in Nat
<1>1. batch[s] \in Seq([proc : Procs, found : Slots \cup {NoOffset}])
  BY DEF TypeOK
<1>2. DOMAIN batch[s] = 1 .. Len(batch[s]) /\ Len(batch[s]) \in Nat
  BY <1>1
<1>3. \A i \in DOMAIN batch[s] : batch[s][i].proc \in Procs /\ batch[s][i].found \in Slots \cup {NoOffset}
  <2>1. \A i \in DOMAIN batch[s] : batch[s][i] \in [proc : Procs, found : Slots \cup {NoOffset}]
    BY <1>1, SeqFacts
  <2> QED BY <2>1
<1>4. IsFiniteSet(DOMAIN batch[s] \ Known(s)) /\ Wanted(s) \in Nat
  <2>1. IsFiniteSet(DOMAIN batch[s])
    <3>1. 1 \in Int /\ Len(batch[s]) \in Int
      BY <1>2
    <3>2. IsFiniteSet(1 .. Len(batch[s]))
      BY <3>1, FS_Interval
    <3> QED BY <1>2, <3>2
  <2>2. IsFiniteSet(DOMAIN batch[s] \ Known(s))
    BY <2>1, FS_Subset
  <2> QED BY <2>2, FS_CardinalityType DEF Wanted
<1> QED BY <1>1, <1>2, <1>3, <1>4

\* The loop never runs out of the slots that were taken (lru_element_offsets).
LEMMA SlotForMessage ==
    ASSUME TypeOK, NEW s \in Servers, InStep(s), spc[s] \in Allotting,
           pos[s] \in DOMAIN batch[s] \ Known(s)
    PROVE  pos[s] \in DOMAIN taken[s] /\ Allotted(s) \in Slots
<1>1. pos[s] \in Nat \ {0} /\ taken[s] \in Seq(Slots)
  BY DEF TypeOK
<1>2. 1 .. pos[s] \subseteq DOMAIN batch[s] \ Known(s)
  <2>1. DOMAIN batch[s] = 1 .. Len(batch[s]) /\ Len(batch[s]) \in Nat
    BY BatchFacts
  <2>2. \A i \in Known(s) : i >= pos[s]
    BY DEF InStep
  <2> QED BY <1>1, <2>1, <2>2 DEF Known
<1>3. IsFiniteSet(1 .. pos[s]) /\ Cardinality(1 .. pos[s]) = pos[s]
  <2>1. /\ IsFiniteSet(1 .. pos[s])
        /\ Cardinality(1 .. pos[s]) = IF 1 > pos[s] THEN 0 ELSE pos[s] - 1 + 1
    <3>1. pos[s] \in Int /\ 1 \in Int
      BY <1>1
    <3> QED BY <3>1, FS_Interval
  <2> QED BY <1>1, <2>1
<1>4. pos[s] <= Wanted(s)
  BY <1>2, <1>3, BatchFacts, FS_Subset DEF Wanted
<1>5. pos[s] \in DOMAIN taken[s]
  BY <1>1, <1>4, LenProperties DEF InStep
<1> QED BY <1>1, <1>5, ElementOfSeq DEF Allotted

\* The handler's return resets its locals.
LEMMA DoneTypes ==
    ASSUME TypeOK, NEW s \in Servers, Done(s)
    PROVE  /\ spc' \in [Servers -> ServerPoints]
           /\ batch' \in [Servers -> Seq([proc : Procs, found : Slots \cup {NoOffset}])]
           /\ pos' \in [Servers -> Nat \ {0}]
           /\ asked' \in [Servers -> BOOLEAN] /\ enough' \in [Servers -> BOOLEAN]
           /\ taken' \in [Servers -> Seq(Slots)]
<1>1. spc' \in [Servers -> ServerPoints] /\ pos' \in [Servers -> Nat \ {0}]
  BY DEF Done, TypeOK, ServerPoints
<1>2. /\ batch' \in [Servers -> Seq([proc : Procs, found : Slots \cup {NoOffset}])]
      /\ taken' \in [Servers -> Seq(Slots)]
  BY EmptySeq DEF Done, TypeOK
<1>3. asked' \in [Servers -> BOOLEAN] /\ enough' \in [Servers -> BOOLEAN]
  BY DEF Done, TypeOK
<1> QED BY <1>1, <1>2, <1>3

\* A step of second_phase_write_handler keeps the types.
LEMMA ReaderTypes ==
    ASSUME TypeInv, NEW s \in Servers, ServerStep(s)
    PROVE  TypeOK'
<1>0. TypeOK /\ HeldWritten(s) /\ InStep(s)
  BY DEF TypeInv
<1>1. CASE Scan(s)
  <2>1. spc' \in [Servers -> ServerPoints]
    BY <1>0, <1>1 DEF TypeOK, ServerPoints, Scan
  <2>2. scan' \in [Servers -> Procs]
    <3>1. CASE scan[s] < LastProc
      <4>1. scan[s] + 1 \in Procs /\ scan' = [scan EXCEPT ![s] = scan[s] + 1]
        BY <1>0, <1>1, <3>1, PutAssumption DEF Scan, TypeOK, LastProc, Procs
      <4> QED BY <1>0, <4>1 DEF TypeOK
    <3>2. CASE ~(scan[s] < LastProc)
      <4>1. 0 \in Procs /\ scan' = [scan EXCEPT ![s] = 0]
        BY <1>1, <3>2, PutAssumption DEF Scan, Procs
      <4> QED BY <1>0, <4>1 DEF TypeOK
    <3> QED BY <3>1, <3>2
  <2>3. ready' \in [Servers -> Seq(Procs)]
    BY <1>0, <1>1 DEF Scan, TypeOK
  <2> QED BY <1>0, <1>1, <2>1, <2>2, <2>3 DEF TypeOK, Scan, com, client, lru, store
<1>2. CASE ClearFlag(s)
  <2>1. spc' \in [Servers -> ServerPoints]
    BY <1>0, <1>2 DEF TypeOK, ServerPoints, ClearFlag
  <2>2. flag' \in BOOLEAN
    BY <1>0, <1>2 DEF ClearFlag
  <2> QED BY <1>0, <1>2, <2>1, <2>2 DEF TypeOK, ClearFlag, com, client, lru, store
<1>3. CASE Awake(s)
  <2>1. spc' \in [Servers -> ServerPoints]
    BY <1>0, <1>3 DEF TypeOK, ServerPoints, Awake
  <2> QED BY <1>0, <1>3, <2>1 DEF TypeOK, Awake, com, client, lru, store
<1>4. CASE CheckReady(s)
  <2>1. spc' \in [Servers -> ServerPoints]
    <3>1. spc' = [spc EXCEPT ![s] = "lock"] \/ spc' = spc
      BY <1>4 DEF CheckReady
    <3> QED BY <1>0, <3>1 DEF TypeOK, ServerPoints
  <2>2. ready' \in [Servers -> Seq(Procs)]
    <3>1. ready[s] \in Seq(Procs) /\ ready[s] # <<>>
      BY <1>0, <1>4 DEF CheckReady, TypeOK
    <3>2. Tail(ready[s]) \in Seq(Procs)
      BY <3>1, HeadTailProperties
    <3>3. ready' = ready \/ ready' = [ready EXCEPT ![s] = Tail(ready[s])]
      BY <1>4 DEF CheckReady
    <3> QED BY <1>0, <3>2, <3>3 DEF TypeOK
  <2> QED BY <1>0, <1>4, <2>1, <2>2 DEF TypeOK, CheckReady, com, client, lru, store
<1>5. CASE Lock(s)
  <2>1. spc' \in [Servers -> ServerPoints]
    BY <1>0, <1>5 DEF TypeOK, ServerPoints, Lock
  <2>2. Head(ready[s]) \in Procs /\ Tail(ready[s]) \in Seq(Procs)
    BY <1>0, <1>5 DEF Lock, TypeOK, InStep
  <2>3. marker' \in [Procs -> Markers]
    BY <1>0, <1>5 DEF Lock, TypeOK, Markers
  <2>4. batch' \in [Servers -> Seq([proc : Procs, found : Slots \cup {NoOffset}])]
    <3> DEFINE m == [proc |-> Head(ready[s]), found |-> NoOffset]
    <3>1. m \in [proc : Procs, found : Slots \cup {NoOffset}]
      BY <2>2
    <3>2. Append(batch[s], m) \in Seq([proc : Procs, found : Slots \cup {NoOffset}])
      BY <1>0, <3>1, AppendProperties DEF TypeOK
    <3>3. batch' = [batch EXCEPT ![s] = Append(batch[s], m)]
      BY <1>5 DEF Lock
    <3> QED BY <1>0, <3>2, <3>3 DEF TypeOK
  <2>5. ready' \in [Servers -> Seq(Procs)]
    BY <1>0, <1>5, <2>2 DEF Lock, TypeOK
  <2> QED BY <1>0, <1>5, <2>1, <2>2, <2>3, <2>4, <2>5 DEF TypeOK, Lock, com, client, lru, store
<1>6. CASE NothingClaimed(s)
  <2>1. Done(s)
    BY <1>6 DEF NothingClaimed
  <2> QED BY <1>0, <1>6, <2>1, DoneTypes DEF TypeOK, NothingClaimed, com, client, lru, store
<1>7. CASE Filter(s)
  <2>1. spc' \in [Servers -> ServerPoints]
    BY <1>0, <1>7 DEF TypeOK, ServerPoints, Filter
  <2>2. batch' \in [Servers -> Seq([proc : Procs, found : Slots \cup {NoOffset}])]
    <3>1. PICK f \in [DOMAIN batch[s] -> Slots \cup {NoOffset}] :
            batch' = [batch EXCEPT ![s] = [i \in DOMAIN @ |-> [@[i] EXCEPT !.found = f[i]]]]
      BY <1>7 DEF Filter
    <3>2. [i \in DOMAIN batch[s] |-> [batch[s][i] EXCEPT !.found = f[i]]]
            \in [1 .. Len(batch[s]) -> [proc : Procs, found : Slots \cup {NoOffset}]]
      <4>1. \A i \in DOMAIN batch[s] : batch[s][i] \in [proc : Procs, found : Slots \cup {NoOffset}]
        BY <1>0, BatchFacts, SeqFacts
      <4> QED BY <1>0, <4>1, BatchFacts
    <3>3. [i \in DOMAIN batch[s] |-> [batch[s][i] EXCEPT !.found = f[i]]]
            \in Seq([proc : Procs, found : Slots \cup {NoOffset}])
      BY <1>0, <3>2, BatchFacts, FunctionIsSeq
    <3> QED BY <1>0, <3>1, <3>3 DEF TypeOK
  <2> QED BY <1>0, <1>7, <2>1, <2>2 DEF TypeOK, Filter, com, client, lru, store
<1>8. CASE OfferKnown(s)
  <2>1. spc' \in [Servers -> ServerPoints]
    BY <1>0, <1>8 DEF TypeOK, ServerPoints, OfferKnown
  <2>2. offset' \in [Procs -> Offsets]
    <3>1. PICK i \in Known(s) : offset' = [offset EXCEPT ![batch[s][i].proc] = batch[s][i].found]
      BY <1>8 DEF OfferKnown
    <3>2. batch[s][i].found \in Offsets
      <4>1. batch[s][i].found \in Slots
        BY <1>0, <3>1, BatchFacts DEF Known
      <4> QED BY <4>1, SlotsAreOffsets
    <3> QED BY <1>0, <3>1, <3>2 DEF TypeOK
  <2>3. pos' \in [Servers -> Nat \ {0}]
    BY <1>0, <1>8, BatchFacts DEF OfferKnown, TypeOK, Known
  <2> QED BY <1>0, <1>8, <2>1, <2>2, <2>3 DEF TypeOK, OfferKnown, com, client, lru, store
<1>9. CASE ReleaseKnown(s)
  <2>1. spc' \in [Servers -> ServerPoints]
    BY <1>0, <1>9 DEF TypeOK, ServerPoints, ReleaseKnown
  <2>2. marker' \in [Procs -> Markers]
    BY <1>0, <1>9 DEF ReleaseKnown, TypeOK, Markers
  <2>3. pos' \in [Servers -> Nat \ {0}]
    BY <1>0, <1>9 DEF ReleaseKnown, TypeOK
  <2> QED BY <1>0, <1>9, <2>1, <2>2, <2>3 DEF TypeOK, ReleaseKnown, com, client, lru, store
<1>10. CASE AfterUpdates(s)
  <2>1. CASE Wanted(s) = 0
    <3>1. Done(s)
      BY <1>10, <2>1 DEF AfterUpdates, UpdatesDone
    <3> QED BY <1>0, <1>10, <3>1, DoneTypes DEF TypeOK, AfterUpdates, UpdatesDone, com, client, lru, store
  <2>2. CASE Wanted(s) # 0
    <3>1. spc' \in [Servers -> ServerPoints]
      BY <1>0, <1>10, <2>2 DEF TypeOK, ServerPoints, AfterUpdates
    <3>2. pos' = [pos EXCEPT ![s] = 1] /\ UNCHANGED <<batch, asked, enough, taken>>
      BY <1>10, <2>2 DEF AfterUpdates, UpdatesDone
    <3>3. pos' \in [Servers -> Nat \ {0}]
      BY <1>0, <3>2 DEF TypeOK
    <3> QED BY <1>0, <1>10, <2>2, <3>1, <3>2, <3>3 DEF TypeOK, AfterUpdates, UpdatesDone, com, client, lru, store
  <2> QED BY <2>1, <2>2
<1>11. CASE CheckMemory(s)
  <2>1. spc' \in [Servers -> ServerPoints]
    BY <1>0, <1>11 DEF TypeOK, ServerPoints, CheckMemory
  <2>2. enough' \in [Servers -> BOOLEAN]
    BY <1>0, <1>11 DEF CheckMemory, TypeOK
  <2> QED BY <1>0, <1>11, <2>1, <2>2 DEF TypeOK, CheckMemory, com, client, lru, store
<1>12. CASE RequestMemory(s)
  <2>1. spc' \in [Servers -> ServerPoints]
    BY <1>0, <1>12 DEF TypeOK, ServerPoints, RequestMemory
  <2>2. More(s) \in Nat
    BY <1>0, <1>12, BatchFacts DEF RequestMemory, More
  <2>3. requested' \in Nat
    BY <1>0, <1>12, <2>2 DEF RequestMemory, TypeOK
  <2>4. asked' \in [Servers -> BOOLEAN]
    BY <1>0, <1>12 DEF RequestMemory, TypeOK
  <2> QED BY <1>0, <1>12, <2>1, <2>2, <2>3, <2>4 DEF TypeOK, RequestMemory, com, client, lru, store
<1>13. CASE TakeFree(s)
  <2>1. spc' \in [Servers -> ServerPoints]
    BY <1>0, <1>13 DEF TypeOK, ServerPoints, TakeFree
  <2>2. free \in Seq(Slots) /\ Wanted(s) \in Nat
    BY <1>0, <1>13, BatchFacts DEF TakeFree, TypeOK
  <2>3. free' \in Seq(Slots)
    BY <1>0, <1>13, <2>2 DEF TakeFree, Popped
  <2>4. taken' \in [Servers -> Seq(Slots)]
    BY <1>0, <1>13, <2>2 DEF TakeFree, TypeOK
  <2>5. requested' \in Nat
    BY <1>0, <1>13, <2>2 DEF TakeFree, TypeOK
  <2> QED BY <1>0, <1>13, <2>1, <2>2, <2>3, <2>4, <2>5 DEF TypeOK, TakeFree, com, client, lru, store
<1>14. CASE TakeFails(s)
  <2>1. Done(s)
    BY <1>14 DEF TakeFails
  <2>2. free' \in Seq(Slots)
    BY <1>0, <1>14 DEF TakeFails
  <2> QED BY <1>0, <1>14, <2>1, <2>2, DoneTypes DEF TypeOK, TakeFails, com, client, lru, store
<1>15. CASE Allot(s)
  <2>1. spc' \in [Servers -> ServerPoints]
    BY <1>0, <1>15 DEF TypeOK, ServerPoints, Allot
  <2>2. storing' \in [Servers -> Keys \cup {NoKey}]
    <3>1. pos[s] \in Nat \ {0} /\ pos[s] <= Len(batch[s])
      BY <1>0, <1>15, BatchFacts DEF Allot, BatchDone, TypeOK
    <3>2. MessageProc(s) \in Procs
      <4>1. pos[s] \in DOMAIN batch[s]
        BY <1>0, <3>1, BatchFacts
      <4> QED BY <1>0, <4>1, BatchFacts DEF MessageProc
    <3> QED BY <1>0, <1>15, <3>2 DEF Allot, TypeOK, Hashes
  <2> QED BY <1>0, <1>15, <2>1, <2>2 DEF TypeOK, Allot, com, client, lru, store
<1>16. CASE Refuse(s)
  <2>1. pos' \in [Servers -> Nat \ {0}]
    BY <1>0, <1>16 DEF Refuse, TypeOK
  <2> QED BY <1>0, <1>16, <2>1 DEF TypeOK, Refuse, com, client, lru, store
<1>17. CASE WildMessage(s)
  <2>1. spc' \in [Servers -> ServerPoints]
    BY <1>0, <1>17 DEF TypeOK, ServerPoints, WildMessage
  <2> QED BY <1>0, <1>17, <2>1 DEF TypeOK, WildMessage, com, client, lru, store
<1>18. CASE Answer(s)
  <2>1. spc' \in [Servers -> ServerPoints]
    BY <1>0, <1>18 DEF TypeOK, ServerPoints, Answer
  <2>2. offset' \in [Procs -> Offsets]
    <3>1. Allotted(s) \in Slots
      <4>1. spc[s] \in Allotting /\ pos[s] \in DOMAIN batch[s] \ Known(s)
        BY <1>0, <1>18 DEF Answer, InStep, Allotting
      <4> QED BY <1>0, <4>1, SlotForMessage
    <3> QED BY <1>0, <1>18, <3>1, SlotsAreOffsets DEF Answer, TypeOK
  <2>3. hash' \in [Procs -> Hashes]
    BY <1>0, <1>18 DEF Answer, TypeOK, HeldWritten, Augmented, Hashes
  <2> QED BY <1>0, <1>18, <2>1, <2>2, <2>3 DEF TypeOK, Answer, com, client, lru, store
<1>19. CASE Release(s)
  <2>1. spc' \in [Servers -> ServerPoints]
    BY <1>0, <1>19 DEF TypeOK, ServerPoints, Release
  <2>2. marker' \in [Procs -> Markers]
    BY <1>0, <1>19 DEF Release, TypeOK, Markers
  <2> QED BY <1>0, <1>19, <2>1, <2>2 DEF TypeOK, Release, com, client, lru, store
<1>20. CASE StoreInHash(s)
  <2>1. spc' \in [Servers -> ServerPoints]
    BY <1>0, <1>20 DEF TypeOK, ServerPoints, StoreInHash
  <2>2. storing[s] \in Keys /\ Allotted(s) \in Slots
    BY <1>0, <1>20, SlotForMessage DEF StoreInHash, HeldWritten, InStep, Allotting
  <2>3. table' \subseteq Keys \X Slots
    BY <1>0, <1>20, <2>2 DEF StoreInHash, TypeOK
  <2>4. storing' \in [Servers -> Keys \cup {NoKey}]
    BY <1>0, <1>20 DEF StoreInHash, TypeOK
  <2>5. pos' \in [Servers -> Nat \ {0}]
    BY <1>0, <1>20 DEF StoreInHash, TypeOK
  <2> QED BY <1>0, <1>20, <2>1, <2>2, <2>3, <2>4, <2>5 DEF TypeOK, StoreInHash, com, client, lru, store
<1>21. CASE Attach(s)
  <2>1. Done(s)
    BY <1>21 DEF Attach
  <2>2. aged' \subseteq Slots
    BY <1>0, <1>21 DEF Attach, TypeOK, ToSet
  <2> QED BY <1>0, <1>21, <2>1, <2>2, DoneTypes DEF TypeOK, Attach, com, client, lru, store
<1>22. CASE WildUpdate(s)
  <2>1. spc' \in [Servers -> ServerPoints]
    BY <1>0, <1>22 DEF WildUpdate, TypeOK, ServerPoints
  <2> QED BY <1>0, <1>22, <2>1 DEF TypeOK, WildUpdate, com, client, lru, store
<1> QED BY <1>1, <1>2, <1>3, <1>4, <1>5, <1>6, <1>7, <1>8, <1>9, <1>10, <1>11, <1>12, <1>13, <1>14, <1>15, <1>16, <1>17, <1>18, <1>19, <1>20, <1>21, <1>22 DEF ServerStep

\* A reader's step leaves the locals of the other readers and of the clients alone.
LEMMA OwnLocals ==
    ASSUME TypeOK, NEW s \in Servers, ServerStep(s)
    PROVE  /\ UNCHANGED <<client, issued, data, wild, puts, timeouts>>
           /\ \A t \in Servers \ {s} :
                /\ spc'[t] = spc[t] /\ ready'[t] = ready[t] /\ batch'[t] = batch[t]
                /\ pos'[t] = pos[t] /\ taken'[t] = taken[t] /\ storing'[t] = storing[t]
<1>1. CASE Scan(s)
  BY <1>1 DEF TypeOK, Scan, client, store
<1>2. CASE ClearFlag(s)
  BY <1>2 DEF TypeOK, ClearFlag, client, store
<1>3. CASE Awake(s)
  BY <1>3 DEF TypeOK, Awake, client, store
<1>4. CASE CheckReady(s)
  BY <1>4 DEF TypeOK, CheckReady, client, store
<1>5. CASE Lock(s)
  BY <1>5 DEF TypeOK, Lock, client, store
<1>6. CASE NothingClaimed(s)
  BY <1>6 DEF TypeOK, NothingClaimed, Done, client, store
<1>7. CASE Filter(s)
  BY <1>7 DEF TypeOK, Filter, client, store
<1>8. CASE OfferKnown(s)
  BY <1>8 DEF TypeOK, OfferKnown, client, store
<1>9. CASE ReleaseKnown(s)
  BY <1>9 DEF TypeOK, ReleaseKnown, client, store
<1>10. CASE AfterUpdates(s)
  BY <1>10 DEF TypeOK, AfterUpdates, UpdatesDone, WildUpdate, Done, client, store
<1>11. CASE CheckMemory(s)
  BY <1>11 DEF TypeOK, CheckMemory, client, store
<1>12. CASE RequestMemory(s)
  BY <1>12 DEF TypeOK, RequestMemory, client, store
<1>13. CASE TakeFree(s)
  BY <1>13 DEF TypeOK, TakeFree, client, store
<1>14. CASE TakeFails(s)
  BY <1>14 DEF TypeOK, TakeFails, Done, client, store
<1>15. CASE Allot(s)
  BY <1>15 DEF TypeOK, Allot, client, store
<1>16. CASE Refuse(s)
  BY <1>16 DEF TypeOK, Refuse, client, store
<1>17. CASE WildMessage(s)
  BY <1>17 DEF TypeOK, WildMessage, client, store
<1>18. CASE Answer(s)
  BY <1>18 DEF TypeOK, Answer, client, store
<1>19. CASE Release(s)
  BY <1>19 DEF TypeOK, Release, client, store
<1>20. CASE StoreInHash(s)
  BY <1>20 DEF TypeOK, StoreInHash, client, store
<1>21. CASE Attach(s)
  BY <1>21 DEF TypeOK, Attach, Done, client, store
<1>22. CASE WildUpdate(s)
  BY <1>22 DEF TypeOK, WildUpdate, client, store
<1> QED BY <1>1, <1>2, <1>3, <1>4, <1>5, <1>6, <1>7, <1>8, <1>9, <1>10, <1>11, <1>12, <1>13, <1>14, <1>15, <1>16, <1>17, <1>18, <1>19, <1>20, <1>21, <1>22 DEF ServerStep

\* Only Answer changes a hash, and to a written one; no step of a reader submits.
LEMMA ReaderRequests ==
    ASSUME TypeInv, NEW s \in Servers, ServerStep(s)
    PROVE  /\ \A p \in Procs : RequestWritten(p)'
           /\ \A p \in Procs : Written(p) => Written(p)'
<1>0. TypeOK /\ HeldWritten(s) /\ \A p \in Procs : RequestWritten(p)
  BY DEF TypeInv
<1>1. \A p \in Procs : hash'[p] = hash[p] \/ hash'[p].key \in Keys
  <2>1. CASE Answer(s)
    BY <1>0, <2>1 DEF TypeOK, HeldWritten, Answer, Augmented
  <2>2. CASE ~Answer(s)
    <3>1. UNCHANGED hash
      BY <2>2 DEF ServerStep, com, Scan, ClearFlag, Awake, CheckReady, Lock, NothingClaimed, Filter, OfferKnown, ReleaseKnown, AfterUpdates, UpdatesDone, WildUpdate, CheckMemory, RequestMemory, TakeFree, TakeFails, Allot, Refuse, WildMessage, Release, StoreInHash, Attach
    <3> QED BY <3>1
  <2> QED BY <2>1, <2>2
<1>2. \A p \in Procs : marker'[p] = marker[p] \/ marker'[p] # "CLEARED_FOR_ALLOC"
  <2>1. CASE Lock(s) \/ ReleaseKnown(s) \/ Release(s)
    BY <1>0, <2>1 DEF TypeOK, Lock, ReleaseKnown, Release
  <2>2. CASE ~(Lock(s) \/ ReleaseKnown(s) \/ Release(s))
    <3>1. UNCHANGED marker
      BY <2>2 DEF ServerStep, com, Scan, ClearFlag, Awake, CheckReady, NothingClaimed, Filter, OfferKnown, AfterUpdates, UpdatesDone, WildUpdate, CheckMemory, RequestMemory, TakeFree, TakeFails, Allot, Refuse, WildMessage, Answer, StoreInHash, Attach
    <3> QED BY <3>1
  <2> QED BY <2>1, <2>2
<1>3. UNCHANGED <<cpc, req, back>>
  BY <1>0, OwnLocals DEF client
<1> QED BY <1>0, <1>1, <1>2, <1>3 DEF RequestWritten, Written

\* What a reader has collected, locked or is about to store stays written: a client
\* never unwrites its hash.
LEMMA ReaderHeld ==
    ASSUME TypeInv, NEW s \in Servers, ServerStep(s)
    PROVE  \A t \in Servers : HeldWritten(t)'
<1> DEFINE Stays(p) == hash'[p].key \in Keys
<1>0. /\ TypeOK /\ HeldWritten(s) /\ InStep(s)
      /\ \A p \in Procs : RequestWritten(p) /\ (Written(p) => Stays(p))
  BY ReaderRequests DEF TypeInv, Written
<1>01. /\ ready[s] \in Seq(Procs) /\ batch[s] \in Seq([proc : Procs, found : Slots \cup {NoOffset}])
       /\ \A i \in DOMAIN ready[s] : ready[s][i] \in Procs /\ Written(ready[s][i]) /\ Stays(ready[s][i])
       /\ \A i \in DOMAIN batch[s] : batch[s][i].proc \in Procs /\ Written(batch[s][i].proc) /\ Stays(batch[s][i].proc)
  <2>1. ready[s] \in Seq(Procs) /\ batch[s] \in Seq([proc : Procs, found : Slots \cup {NoOffset}])
    BY <1>0 DEF TypeOK
  <2>2. \A i \in DOMAIN ready[s] : ready[s][i] \in Procs
    BY <2>1, SeqFacts
  <2>3. \A i \in DOMAIN batch[s] : batch[s][i].proc \in Procs
    BY <1>0, BatchFacts
  <2> QED BY <1>0, <2>1, <2>2, <2>3 DEF HeldWritten, Written
<1>02. ASSUME NEW t \in Servers \ {s} PROVE HeldWritten(t)'
  <2>1. /\ spc'[t] = spc[t] /\ ready'[t] = ready[t] /\ batch'[t] = batch[t] /\ storing'[t] = storing[t]
        /\ HeldWritten(t)
    BY <1>0, OwnLocals DEF TypeInv
  <2>2. ready[t] \in Seq(Procs)
    BY <1>0 DEF TypeOK
  <2>3. \A i \in DOMAIN ready[t] : ready[t][i] \in Procs
    BY <2>2, SeqFacts
  <2>4. \A i \in DOMAIN batch[t] : batch[t][i].proc \in Procs
    BY <1>0, BatchFacts
  <2>5. /\ \A i \in DOMAIN ready[t] : Stays(ready[t][i])
        /\ \A i \in DOMAIN batch[t] : Stays(batch[t][i].proc)
        /\ spc[t] \in {"answer", "release", "store"} => storing[t] \in Keys
    BY <1>0, <2>1, <2>3, <2>4 DEF HeldWritten
  <2> QED BY <2>1, <2>5 DEF HeldWritten, Written
<1> SUFFICES HeldWritten(s)'
  BY <1>02
<1>1. CASE Scan(s)
  <2>1. ready'[s] = ready[s] \/ (marker[scan[s]] = "CLEARED_FOR_ALLOC" /\ ready'[s] = Append(ready[s], scan[s]))
    BY <1>0, <1>1 DEF Scan, TypeOK
  <2>2. \A i \in DOMAIN ready'[s] : Stays(ready'[s][i])
    <3>1. CASE ready'[s] = ready[s]
      BY <1>01, <3>1
    <3>2. CASE marker[scan[s]] = "CLEARED_FOR_ALLOC" /\ ready'[s] = Append(ready[s], scan[s])
      <4>1. scan[s] \in Procs /\ Stays(scan[s])
        BY <1>0, <3>2 DEF TypeOK, RequestWritten
      <4>2. /\ Len(ready[s]) \in Nat /\ DOMAIN ready'[s] = 1 .. Len(ready[s]) + 1
            /\ \A i \in 1 .. Len(ready[s]) : i \in DOMAIN ready[s] /\ ready'[s][i] = ready[s][i]
            /\ ready'[s][Len(ready[s]) + 1] = scan[s]
        BY <1>01, <3>2, <4>1, AppendProperties, SeqFacts
      <4> QED BY <1>01, <4>1, <4>2 DEF Written
    <3> QED BY <2>1, <3>1, <3>2
  <2>3. batch'[s] = batch[s] /\ ~(spc'[s] \in {"answer", "release", "store"})
    BY <1>0, <1>1 DEF Scan, TypeOK
  <2> QED BY <1>01, <2>2, <2>3 DEF HeldWritten, Written
<1>2. CASE ClearFlag(s)
  <2>1. /\ batch'[s] = batch[s] /\ ready'[s] = ready[s]
        /\ ~(spc'[s] \in {"answer", "release", "store"})
    BY <1>0, <1>2 DEF ClearFlag, TypeOK
  <2> QED BY <1>01, <2>1 DEF HeldWritten, Written
<1>3. CASE Awake(s)
  <2>1. /\ batch'[s] = batch[s] /\ ready'[s] = ready[s]
        /\ ~(spc'[s] \in {"answer", "release", "store"})
    BY <1>0, <1>3 DEF Awake, TypeOK
  <2> QED BY <1>01, <2>1 DEF HeldWritten, Written
<1>4. CASE CheckReady(s)
  <2>1. ready[s] # <<>>
    BY <1>0, <1>4 DEF CheckReady, InStep
  <2>2. /\ \A i \in DOMAIN Tail(ready[s]) : i + 1 \in DOMAIN ready[s] /\ Tail(ready[s])[i] = ready[s][i + 1]
        /\ 1 \in DOMAIN ready[s] /\ Head(ready[s]) = ready[s][1]
    BY <1>01, <2>1, HeadTailProperties, SeqFacts
  <2>3. \A i \in DOMAIN Tail(ready[s]) : Stays(Tail(ready[s])[i])
    BY <1>01, <2>2 DEF Written
  <2>4. /\ ready'[s] \in {ready[s], Tail(ready[s])} /\ batch'[s] = batch[s]
        /\ ~(spc'[s] \in {"answer", "release", "store"})
    BY <1>0, <1>4 DEF CheckReady, TypeOK
  <2> QED BY <1>01, <2>3, <2>4 DEF HeldWritten, Written
<1>5. CASE Lock(s)
  <2>1. ready[s] # <<>>
    BY <1>0, <1>5 DEF Lock, InStep
  <2>2. /\ \A i \in DOMAIN Tail(ready[s]) : i + 1 \in DOMAIN ready[s] /\ Tail(ready[s])[i] = ready[s][i + 1]
        /\ 1 \in DOMAIN ready[s] /\ Head(ready[s]) = ready[s][1]
    BY <1>01, <2>1, HeadTailProperties, SeqFacts
  <2>3. \A i \in DOMAIN Tail(ready[s]) : Stays(Tail(ready[s])[i])
    BY <1>01, <2>2 DEF Written
  <2> DEFINE m == [proc |-> Head(ready[s]), found |-> NoOffset]
  <2>4. m \in [proc : Procs, found : Slots \cup {NoOffset}] /\ Stays(m.proc)
    BY <1>01, <2>2
  <2>5. /\ ready'[s] = Tail(ready[s]) /\ batch'[s] = Append(batch[s], m)
        /\ ~(spc'[s] \in {"answer", "release", "store"})
    BY <1>0, <1>5 DEF Lock, TypeOK
  <2>6. /\ Len(batch[s]) \in Nat /\ DOMAIN batch'[s] = 1 .. Len(batch[s]) + 1
        /\ \A i \in 1 .. Len(batch[s]) : i \in DOMAIN batch[s] /\ batch'[s][i] = batch[s][i]
        /\ batch'[s][Len(batch[s]) + 1] = m
    BY <1>01, <2>4, <2>5, AppendProperties, SeqFacts
  <2>7. \A i \in DOMAIN batch'[s] : Stays(batch'[s][i].proc)
    BY <1>01, <2>4, <2>6 DEF Written
  <2> QED BY <2>3, <2>5, <2>7 DEF HeldWritten, Written
<1>6. CASE NothingClaimed(s)
  <2>1. batch'[s] = <<>> /\ ready'[s] = ready[s] /\ spc'[s] = "scan"
    BY <1>0, <1>6 DEF NothingClaimed, Done, TypeOK
  <2> QED BY <1>01, <2>1 DEF HeldWritten, Written
<1>7. CASE Filter(s)
  <2>1. /\ DOMAIN batch'[s] = DOMAIN batch[s] /\ ready'[s] = ready[s]
        /\ \A i \in DOMAIN batch[s] : batch'[s][i].proc = batch[s][i].proc
        /\ ~(spc'[s] \in {"answer", "release", "store"})
    BY <1>0, <1>01, <1>7 DEF Filter, TypeOK
  <2> QED BY <1>01, <2>1 DEF HeldWritten, Written
<1>8. CASE OfferKnown(s)
  <2>1. /\ batch'[s] = batch[s] /\ ready'[s] = ready[s]
        /\ ~(spc'[s] \in {"answer", "release", "store"})
    BY <1>0, <1>8 DEF OfferKnown, TypeOK
  <2> QED BY <1>01, <2>1 DEF HeldWritten, Written
<1>9. CASE ReleaseKnown(s)
  <2>1. /\ batch'[s] = batch[s] /\ ready'[s] = ready[s]
        /\ ~(spc'[s] \in {"answer", "release", "store"})
    BY <1>0, <1>9 DEF ReleaseKnown, TypeOK
  <2> QED BY <1>01, <2>1 DEF HeldWritten, Written
<1>10. CASE AfterUpdates(s)
  <2>1. batch'[s] \in {<<>>, batch[s]} /\ ready'[s] = ready[s] /\ spc'[s] \in {"scan", "memory"}
    BY <1>0, <1>10 DEF AfterUpdates, UpdatesDone, WildUpdate, Done, TypeOK
  <2> QED BY <1>01, <2>1 DEF HeldWritten, Written
<1>11. CASE CheckMemory(s)
  <2>1. /\ batch'[s] = batch[s] /\ ready'[s] = ready[s]
        /\ ~(spc'[s] \in {"answer", "release", "store"})
    BY <1>0, <1>11 DEF CheckMemory, TypeOK
  <2> QED BY <1>01, <2>1 DEF HeldWritten, Written
<1>12. CASE RequestMemory(s)
  <2>1. /\ batch'[s] = batch[s] /\ ready'[s] = ready[s]
        /\ ~(spc'[s] \in {"answer", "release", "store"})
    BY <1>0, <1>12 DEF RequestMemory, TypeOK
  <2> QED BY <1>01, <2>1 DEF HeldWritten, Written
<1>13. CASE TakeFree(s)
  <2>1. /\ batch'[s] = batch[s] /\ ready'[s] = ready[s]
        /\ ~(spc'[s] \in {"answer", "release", "store"})
    BY <1>0, <1>13 DEF TakeFree, TypeOK
  <2> QED BY <1>01, <2>1 DEF HeldWritten, Written
<1>14. CASE TakeFails(s)
  <2>1. batch'[s] = <<>> /\ ready'[s] = ready[s] /\ spc'[s] = "scan"
    BY <1>0, <1>14 DEF TakeFails, Done, TypeOK
  <2> QED BY <1>01, <2>1 DEF HeldWritten, Written
<1>15. CASE Allot(s)
  <2>1. pos[s] \in DOMAIN batch[s]
    BY <1>0, <1>15, BatchFacts DEF Allot, BatchDone, TypeOK
  <2>2. storing'[s] \in Keys
    BY <1>0, <1>01, <1>15, <2>1 DEF Allot, TypeOK, MessageProc, Written
  <2>3. batch'[s] = batch[s] /\ ready'[s] = ready[s]
    BY <1>15 DEF Allot
  <2> QED BY <1>01, <2>2, <2>3 DEF HeldWritten, Written
<1>16. CASE Refuse(s)
  <2>1. /\ batch'[s] = batch[s] /\ ready'[s] = ready[s]
        /\ ~(spc'[s] \in {"answer", "release", "store"})
    BY <1>0, <1>16 DEF Refuse, TypeOK
  <2> QED BY <1>01, <2>1 DEF HeldWritten, Written
<1>17. CASE WildMessage(s)
  <2>1. /\ batch'[s] = batch[s] /\ ready'[s] = ready[s]
        /\ ~(spc'[s] \in {"answer", "release", "store"})
    BY <1>0, <1>17 DEF WildMessage, TypeOK
  <2> QED BY <1>01, <2>1 DEF HeldWritten, Written
<1>18. CASE Answer(s)
  <2>1. /\ batch'[s] = batch[s] /\ ready'[s] = ready[s] /\ storing'[s] = storing[s]
        /\ spc[s] \in {"answer", "release"}
    BY <1>18 DEF Answer
  <2> QED BY <1>0, <1>01, <2>1 DEF HeldWritten, Written
<1>19. CASE Release(s)
  <2>1. /\ batch'[s] = batch[s] /\ ready'[s] = ready[s] /\ storing'[s] = storing[s]
        /\ spc[s] \in {"answer", "release"}
    BY <1>19 DEF Release
  <2> QED BY <1>0, <1>01, <2>1 DEF HeldWritten, Written
<1>20. CASE StoreInHash(s)
  <2>1. /\ batch'[s] = batch[s] /\ ready'[s] = ready[s]
        /\ ~(spc'[s] \in {"answer", "release", "store"})
    BY <1>0, <1>20 DEF StoreInHash, TypeOK
  <2> QED BY <1>01, <2>1 DEF HeldWritten, Written
<1>21. CASE Attach(s)
  <2>1. batch'[s] = <<>> /\ ready'[s] = ready[s] /\ spc'[s] = "scan"
    BY <1>0, <1>21 DEF Attach, Done, TypeOK
  <2> QED BY <1>01, <2>1 DEF HeldWritten, Written
<1>22. CASE WildUpdate(s)
  <2>1. /\ batch'[s] = batch[s] /\ ready'[s] = ready[s]
        /\ ~(spc'[s] \in {"answer", "release", "store"})
    BY <1>0, <1>22 DEF WildUpdate, TypeOK
  <2> QED BY <1>01, <2>1 DEF HeldWritten, Written
<1> QED BY <1>1, <1>2, <1>3, <1>4, <1>5, <1>6, <1>7, <1>8, <1>9, <1>10, <1>11, <1>12, <1>13, <1>14, <1>15, <1>16, <1>17, <1>18, <1>19, <1>20, <1>21, <1>22 DEF ServerStep

\* The loop over the batch stays in step with the slots taken for it.
LEMMA ReaderLoop ==
    ASSUME TypeInv, NEW s \in Servers, ServerStep(s)
    PROVE  \A t \in Servers : InStep(t)'
<1>0. TypeOK /\ InStep(s)
  BY DEF TypeInv
<1>02. ASSUME NEW t \in Servers \ {s} PROVE InStep(t)'
  <2>1. /\ spc'[t] = spc[t] /\ ready'[t] = ready[t] /\ batch'[t] = batch[t]
        /\ pos'[t] = pos[t] /\ taken'[t] = taken[t] /\ InStep(t)
    BY <1>0, OwnLocals DEF TypeInv
  <2>2. Known(t)' = Known(t) /\ Wanted(t)' = Wanted(t)
    BY <2>1 DEF Known, Wanted
  <2> QED BY <2>1, <2>2 DEF InStep
<1> SUFFICES InStep(s)'
  BY <1>02
<1>1. CASE Scan(s)
  <2>1. spc'[s] \in {"scan", "sleep", "claim"}
    BY <1>0, <1>1 DEF Scan, TypeOK
  <2> QED BY <2>1 DEF InStep, Allotting
<1>2. CASE ClearFlag(s)
  <2>1. spc'[s] \in {"wait"}
    BY <1>0, <1>2 DEF ClearFlag, TypeOK
  <2> QED BY <2>1 DEF InStep, Allotting
<1>3. CASE Awake(s)
  <2>1. spc'[s] \in {"scan"}
    BY <1>0, <1>3 DEF Awake, TypeOK
  <2> QED BY <2>1 DEF InStep, Allotting
<1>4. CASE CheckReady(s)
  <2>1. spc'[s] = "claim" \/ (spc'[s] = "lock" /\ ready'[s] # <<>>)
    BY <1>0, <1>4 DEF CheckReady, TypeOK
  <2> QED BY <2>1 DEF InStep, Allotting
<1>5. CASE Lock(s)
  <2>1. spc'[s] \in {"claim"}
    BY <1>0, <1>5 DEF Lock, TypeOK
  <2> QED BY <2>1 DEF InStep, Allotting
<1>6. CASE NothingClaimed(s)
  <2>1. spc'[s] \in {"scan"}
    BY <1>0, <1>6 DEF NothingClaimed, Done, TypeOK
  <2> QED BY <2>1 DEF InStep, Allotting
<1>7. CASE Filter(s)
  <2>1. spc'[s] \in {"update"}
    BY <1>0, <1>7 DEF Filter, TypeOK
  <2> QED BY <2>1 DEF InStep, Allotting
<1>8. CASE OfferKnown(s)
  <2>1. spc'[s] \in {"known"}
    BY <1>0, <1>8 DEF OfferKnown, TypeOK
  <2> QED BY <2>1 DEF InStep, Allotting
<1>9. CASE ReleaseKnown(s)
  <2>1. spc'[s] \in {"update"}
    BY <1>0, <1>9 DEF ReleaseKnown, TypeOK
  <2> QED BY <2>1 DEF InStep, Allotting
<1>10. CASE AfterUpdates(s)
  <2>1. spc'[s] = "scan" \/ (spc'[s] = "memory" /\ pos'[s] = 1)
    BY <1>0, <1>10 DEF AfterUpdates, UpdatesDone, WildUpdate, Done, TypeOK
  <2> QED BY <2>1 DEF InStep, Allotting
<1>11. CASE CheckMemory(s)
  <2>1. spc'[s] \in {"memory", "request", "take"} /\ pos'[s] = pos[s] /\ spc[s] \in {"memory", "request"}
    BY <1>0, <1>11 DEF CheckMemory, TypeOK
  <2> QED BY <1>0, <2>1 DEF InStep, Allotting
<1>12. CASE RequestMemory(s)
  <2>1. spc'[s] \in {"memory", "request", "take"} /\ pos'[s] = pos[s] /\ spc[s] \in {"memory", "request"}
    BY <1>0, <1>12 DEF RequestMemory, TypeOK
  <2> QED BY <1>0, <2>1 DEF InStep, Allotting
<1>13. CASE TakeFree(s)
  <2>1. spc'[s] = "allot" /\ pos'[s] = 1 /\ batch'[s] = batch[s] /\ taken'[s] = SubSeq(free, 1, Wanted(s))
    BY <1>0, <1>13 DEF TakeFree, TypeOK, InStep
  <2>2. Known(s)' = Known(s) /\ Wanted(s)' = Wanted(s)
    BY <2>1 DEF Known, Wanted
  <2>3. Len(taken'[s]) = Wanted(s)
    <3>1. free \in Seq(Slots) /\ Wanted(s) \in Nat /\ Wanted(s) <= Len(free) /\ Len(free) \in Nat
      BY <1>0, <1>13, BatchFacts, SeqFacts DEF TakeFree, TypeOK
    <3> QED BY <2>1, <3>1
  <2>4. \A i \in Known(s) : i >= 1
    <3>1. Len(batch[s]) \in Nat /\ DOMAIN batch[s] = 1 .. Len(batch[s])
      BY <1>0, BatchFacts
    <3> QED BY <3>1 DEF Known
  <2> QED BY <2>1, <2>2, <2>3, <2>4 DEF InStep, Allotting
<1>14. CASE TakeFails(s)
  <2>1. spc'[s] \in {"scan"}
    BY <1>0, <1>14 DEF TakeFails, Done, TypeOK
  <2> QED BY <2>1 DEF InStep, Allotting
<1>15. CASE Allot(s)
  <2>1. /\ spc[s] \in Allotting /\ spc'[s] \in Allotting
        /\ pos'[s] = pos[s] /\ batch'[s] = batch[s] /\ taken'[s] = taken[s]
    BY <1>0, <1>15 DEF Allot, TypeOK, Allotting
  <2>2. Known(s)' = Known(s) /\ Wanted(s)' = Wanted(s)
    BY <2>1 DEF Known, Wanted
  <2>3. pos[s] \in DOMAIN batch[s] \ Known(s)
    BY <1>0, <1>15, BatchFacts DEF Allot, BatchDone, TypeOK
  <2> QED BY <1>0, <1>15, <2>1, <2>2, <2>3 DEF InStep, Allotting
<1>16. CASE Refuse(s)
  <2>1. /\ spc[s] \in Allotting /\ spc'[s] = "allot" /\ pos'[s] = pos[s] + 1
        /\ batch'[s] = batch[s] /\ taken'[s] = taken[s] /\ pos[s] \notin Known(s) /\ pos[s] \in Nat
    BY <1>0, <1>16 DEF Refuse, TypeOK, Allotting, InStep
  <2>2. Known(s)' = Known(s) /\ Wanted(s)' = Wanted(s)
    BY <2>1 DEF Known, Wanted
  <2>3. \A i \in Known(s) : i >= pos[s] + 1
    <3>1. \A i \in Known(s) : i >= pos[s] /\ i # pos[s]
      BY <1>0, <2>1 DEF InStep
    <3>2. Len(batch[s]) \in Nat /\ DOMAIN batch[s] = 1 .. Len(batch[s])
      BY <1>0, BatchFacts
    <3>3. \A i \in Known(s) : i \in Nat
      BY <3>2 DEF Known
    <3> QED BY <2>1, <3>1, <3>3
  <2> QED BY <1>0, <2>1, <2>2, <2>3 DEF InStep, Allotting
<1>17. CASE WildMessage(s)
  <2>1. spc'[s] \in {"wild"}
    BY <1>0, <1>17 DEF WildMessage, TypeOK
  <2> QED BY <2>1 DEF InStep, Allotting
<1>18. CASE Answer(s)
  <2>1. /\ spc[s] \in Allotting \ {"allot"} /\ spc'[s] \in Allotting
        /\ pos'[s] = pos[s] /\ batch'[s] = batch[s] /\ taken'[s] = taken[s]
    BY <1>0, <1>18 DEF Answer, TypeOK, Allotting
  <2>2. Known(s)' = Known(s) /\ Wanted(s)' = Wanted(s)
    BY <2>1 DEF Known, Wanted
  <2> QED BY <1>0, <2>1, <2>2 DEF InStep, Allotting
<1>19. CASE Release(s)
  <2>1. /\ spc[s] \in Allotting \ {"allot"} /\ spc'[s] \in Allotting
        /\ pos'[s] = pos[s] /\ batch'[s] = batch[s] /\ taken'[s] = taken[s]
    BY <1>0, <1>19 DEF Release, TypeOK, Allotting
  <2>2. Known(s)' = Known(s) /\ Wanted(s)' = Wanted(s)
    BY <2>1 DEF Known, Wanted
  <2> QED BY <1>0, <2>1, <2>2 DEF InStep, Allotting
<1>20. CASE StoreInHash(s)
  <2>1. /\ spc[s] \in Allotting /\ spc'[s] = "allot" /\ pos'[s] = pos[s] + 1
        /\ batch'[s] = batch[s] /\ taken'[s] = taken[s] /\ pos[s] \notin Known(s) /\ pos[s] \in Nat
    BY <1>0, <1>20 DEF StoreInHash, TypeOK, Allotting, InStep
  <2>2. Known(s)' = Known(s) /\ Wanted(s)' = Wanted(s)
    BY <2>1 DEF Known, Wanted
  <2>3. \A i \in Known(s) : i >= pos[s] + 1
    <3>1. \A i \in Known(s) : i >= pos[s] /\ i # pos[s]
      BY <1>0, <2>1 DEF InStep
    <3>2. Len(batch[s]) \in Nat /\ DOMAIN batch[s] = 1 .. Len(batch[s])
      BY <1>0, BatchFacts
    <3>3. \A i \in Known(s) : i \in Nat
      BY <3>2 DEF Known
    <3> QED BY <2>1, <3>1, <3>3
  <2> QED BY <1>0, <2>1, <2>2, <2>3 DEF InStep, Allotting
<1>21. CASE Attach(s)
  <2>1. spc'[s] \in {"scan"}
    BY <1>0, <1>21 DEF Attach, Done, TypeOK
  <2> QED BY <2>1 DEF InStep, Allotting
<1>22. CASE WildUpdate(s)
  <2>1. spc'[s] \in {"wild"}
    BY <1>0, <1>22 DEF WildUpdate, TypeOK
  <2> QED BY <2>1 DEF InStep, Allotting
<1> QED BY <1>1, <1>2, <1>3, <1>4, <1>5, <1>6, <1>7, <1>8, <1>9, <1>10, <1>11, <1>12, <1>13, <1>14, <1>15, <1>16, <1>17, <1>18, <1>19, <1>20, <1>21, <1>22 DEF ServerStep

-----------------------------------------------------------------------------
\* The type invariant

\* Every step keeps the types and what they rest on.
LEMMA TypeStep == TypeInv /\ [Next]_vars => TypeInv'
<1> SUFFICES ASSUME TypeInv, [Next]_vars PROVE TypeInv'
  OBVIOUS
<1>1. CASE UNCHANGED vars
  BY <1>1, ReadersFrame DEF TypeInv, TypeOK, RequestWritten, Written, vars, com, client, server, lru, store
<1>2. ASSUME NEW p \in Procs, StartPut(p) \/ BusyPut(p) \/ ClientStep(p) PROVE TypeInv'
  BY <1>2, ClientTypes
<1>3. ASSUME NEW s \in Servers, ServerStep(s) PROVE TypeInv'
  BY <1>3, ReaderTypes, ReaderRequests, ReaderHeld, ReaderLoop DEF TypeInv
<1> QED BY <1>1, <1>2, <1>3 DEF Next

\* The types and what they rest on, in every reachable state.
LEMMA TypeInvariant == Spec => []TypeInv
BY TypeInit, TypeStep, PTL DEF Spec

\* Markers, offsets, batches and slots keep their types, whatever the processes
\* and readers of the tier do and however often waits expire.
THEOREM PutTypes == Spec => []TypeOK
<1>1. TypeInv => TypeOK
  BY DEF TypeInv
<1> QED BY <1>1, TypeInvariant, PTL

-----------------------------------------------------------------------------
\* The accounts of slots

\* Sequences that differ at every two places have no element in common.
LEMMA SeqsApart ==
    ASSUME NEW q, NEW r, \A i \in DOMAIN q, j \in DOMAIN r : q[i] # r[j]
    PROVE  ToSet(q) \cap ToSet(r) = {}
BY DEF ToSet

\* At first every slot is on the free stack, once.
LEMMA SlotsInit == Init => SlotsAccounted /\ SlotsFresh
<1> SUFFICES ASSUME Init PROVE SlotsAccounted /\ SlotsFresh
  OBVIOUS
<1>1. /\ table = {} /\ aged = {} /\ free = [i \in 1 .. NSlots |-> i]
      /\ \A s \in Servers : taken[s] = <<>> /\ DOMAIN taken[s] = {}
  BY DEF Init
<1>2. IsInjective(free) /\ \A s \in Servers : IsInjective(taken[s]) /\ ToSet(taken[s]) = {}
  BY <1>1 DEF IsInjective, ToSet
<1> QED BY <1>1, <1>2 DEF SlotsAccounted, SlotsFresh

\* A step that moves no slot and stores none keeps the accounts, if no loop over
\* a batch goes back and none that holds slots is left.
LEMMA SlotsFrame ==
    ASSUME TypeInv, SlotsAccounted, SlotsFresh,
           UNCHANGED <<free, taken, aged, table>>,
           \A t \in Servers : taken[t] # <<>> => spc'[t] \in Allotting \cup {"wild"} /\ pos'[t] >= pos[t],
           pos' \in [Servers -> Nat \ {0}]
    PROVE  (SlotsAccounted /\ SlotsFresh)'
<1>1. \A t \in Servers : pos[t] \in Nat /\ pos'[t] \in Nat /\ taken[t] \in Seq(Slots)
  BY DEF TypeInv, TypeOK
<1>2. SlotsAccounted'
  BY DEF SlotsAccounted
<1>3. ASSUME NEW t \in Servers, NEW i \in DOMAIN taken[t], i >= pos'[t] PROVE i >= pos[t]
  <2>1. taken[t] # <<>> /\ i \in Nat
    BY <1>1, <1>3, SeqFacts
  <2> QED BY <1>1, <1>3, <2>1
<1>4. SlotsFresh'
  BY <1>3 DEF SlotsFresh
<1> QED BY <1>2, <1>4

\* One step of a reader: slots go from the free stack to the reader, under a hash,
\* and into the aging table.
LEMMA ReaderSlots ==
    ASSUME SlotInv, NEW s \in Servers, ServerStep(s)
    PROVE  (SlotsAccounted /\ SlotsFresh)'
<1>0. /\ TypeInv /\ TypeOK /\ InStep(s) /\ SlotsAccounted /\ SlotsFresh
      /\ \A t \in Servers \ {s} : spc'[t] = spc[t] /\ pos'[t] = pos[t] /\ taken'[t] = taken[t]
      /\ free \in Seq(Slots) /\ \A t \in Servers : pos[t] \in Nat \ {0} /\ taken[t] \in Seq(Slots)
      /\ pos' \in [Servers -> Nat \ {0}]
  BY OwnLocals, ReaderTypes DEF SlotInv, TypeInv, TypeOK
<1>01. ASSUME spc[s] \notin Allotting \cup {"wild"}, UNCHANGED <<free, aged, table>>,
              UNCHANGED taken \/ Done(s)
       PROVE (SlotsAccounted /\ SlotsFresh)'
  <2>1. taken[s] = <<>>
    BY <1>0, <1>01 DEF SlotsFresh
  <2>2. UNCHANGED taken
    BY <1>0, <1>01, <2>1 DEF Done, TypeOK
  <2>3. \A t \in Servers : taken[t] # <<>> => spc'[t] \in Allotting \cup {"wild"} /\ pos'[t] >= pos[t]
    BY <1>0, <2>1 DEF SlotsFresh
  <2> QED BY <1>0, <1>01, <2>2, <2>3, SlotsFrame
<1>02. ASSUME UNCHANGED <<free, taken, aged, table>>, spc'[s] \in Allotting \cup {"wild"}, pos'[s] >= pos[s]
       PROVE (SlotsAccounted /\ SlotsFresh)'
  <2>1. \A t \in Servers : taken[t] # <<>> => spc'[t] \in Allotting \cup {"wild"} /\ pos'[t] >= pos[t]
    BY <1>0, <1>02 DEF SlotsFresh
  <2> QED BY <1>0, <1>02, <2>1, SlotsFrame
<1>1. CASE Scan(s)
  BY <1>01, <1>1 DEF Scan, Allotting, lru
<1>2. CASE ClearFlag(s)
  BY <1>01, <1>2 DEF ClearFlag, Allotting, lru
<1>3. CASE Awake(s)
  BY <1>01, <1>3 DEF Awake, Allotting, lru
<1>4. CASE CheckReady(s)
  BY <1>01, <1>4 DEF CheckReady, Allotting, lru
<1>5. CASE Lock(s)
  BY <1>01, <1>5 DEF Lock, Allotting, lru
<1>6. CASE NothingClaimed(s)
  BY <1>01, <1>6 DEF NothingClaimed, Allotting, lru
<1>7. CASE Filter(s)
  BY <1>01, <1>7 DEF Filter, Allotting, lru
<1>8. CASE OfferKnown(s)
  BY <1>01, <1>8 DEF OfferKnown, Allotting, lru
<1>9. CASE ReleaseKnown(s)
  BY <1>01, <1>9 DEF ReleaseKnown, Allotting, lru
<1>10. CASE AfterUpdates(s)
  BY <1>01, <1>10 DEF AfterUpdates, UpdatesDone, WildUpdate, Allotting, lru
<1>11. CASE CheckMemory(s)
  BY <1>01, <1>11 DEF CheckMemory, Allotting, lru
<1>12. CASE RequestMemory(s)
  BY <1>01, <1>12 DEF RequestMemory, Allotting, lru
<1>13. CASE TakeFree(s)
  <2> DEFINE n == Wanted(s)
  <2>1. n \in Nat /\ n <= Len(free) /\ Len(free) \in Nat /\ DOMAIN free = 1 .. Len(free)
    BY <1>0, <1>13, BatchFacts, SeqFacts DEF TakeFree
  <2>2. /\ taken'[s] = SubSeq(free, 1, n) /\ free' = SubSeq(free, n + 1, Len(free))
        /\ spc'[s] = "allot" /\ UNCHANGED <<table, aged>>
    BY <1>0, <1>13 DEF TakeFree, Popped, TypeOK
  <2>3. /\ DOMAIN taken'[s] = 1 .. n
        /\ \A i \in 1 .. n : i \in DOMAIN free /\ taken'[s][i] = free[i]
    BY <2>1, <2>2
  <2>4. /\ DOMAIN free' = 1 .. Len(free) - n
        /\ \A i \in 1 .. Len(free) - n : i + n \in DOMAIN free /\ free'[i] = free[i + n]
    BY <2>1, <2>2
  <2>5. \A i \in DOMAIN taken'[s], j \in DOMAIN free' : taken'[s][i] # free'[j]
    BY <1>0, <2>1, <2>3, <2>4 DEF SlotsAccounted, IsInjective
  <2>6. \A i, j \in DOMAIN free' : free'[i] = free'[j] => i = j
    BY <1>0, <2>1, <2>4 DEF SlotsAccounted, IsInjective
  <2>7. /\ \A j \in DOMAIN free' : \E i \in DOMAIN free : free'[j] = free[i]
        /\ \A j \in DOMAIN taken'[s] : j \in DOMAIN free /\ taken'[s][j] = free[j]
    BY <2>3, <2>4
  <2>8. ToSet(taken'[s]) \subseteq ToSet(free) /\ ToSet(free') \subseteq ToSet(free)
    BY <2>7 DEF ToSet
  <2>9. ToSet(taken'[s]) \cap ToSet(free') = {}
    BY <2>5, SeqsApart
  <2>10. IsInjective(free') /\ IsInjective(taken'[s])
    BY <1>0, <2>6, <2>7 DEF SlotsAccounted, IsInjective
  <2>11. ASSUME NEW t \in Servers
         PROVE  /\ IsInjective(taken'[t])
                /\ ToSet(taken'[t]) \cap (ToSet(free') \cup aged') = {}
                /\ \A u \in Servers \ {t} : ToSet(taken'[t]) \cap ToSet(taken'[u]) = {}
    <3>1. CASE t = s
      <4>1. \A u \in Servers \ {t} : ToSet(taken'[t]) \cap ToSet(taken'[u]) = {}
        BY <1>0, <2>8, <3>1 DEF SlotsAccounted
      <4>2. ToSet(taken'[t]) \cap (ToSet(free') \cup aged') = {}
        BY <1>0, <2>2, <2>8, <2>9, <3>1 DEF SlotsAccounted
      <4> QED BY <2>10, <3>1, <4>1, <4>2
    <3>2. CASE t # s
      <4>1. taken'[t] = taken[t] /\ ToSet(taken[t]) \cap ToSet(free) = {}
        BY <1>0, <3>2 DEF SlotsAccounted
      <4>2. \A u \in Servers \ {t} : ToSet(taken'[t]) \cap ToSet(taken'[u]) = {}
        BY <1>0, <2>8, <4>1 DEF SlotsAccounted
      <4>3. ToSet(taken'[t]) \cap (ToSet(free') \cup aged') = {}
        BY <1>0, <2>2, <2>8, <4>1 DEF SlotsAccounted
      <4> QED BY <1>0, <4>1, <4>2, <4>3 DEF SlotsAccounted
    <3> QED BY <3>1, <3>2
  <2>12. SlotsAccounted'
    <3>1. aged' \cap ToSet(free') = {} /\ \A e \in table' : e[2] \notin ToSet(free')
      BY <1>0, <2>2, <2>8 DEF SlotsAccounted
    <3>2. \A e, f \in table' : e[2] = f[2] => e = f
      BY <1>0, <2>2 DEF SlotsAccounted
    <3> QED BY <2>10, <2>11, <3>1, <3>2 DEF SlotsAccounted
  <2>13. \A j \in DOMAIN taken'[s] : \A e \in table' : e[2] # taken'[s][j]
    <3>1. \A j \in DOMAIN taken'[s] : taken'[s][j] \in ToSet(taken'[s])
      BY DEF ToSet
    <3>2. \A e \in table' : e[2] \notin ToSet(free)
      BY <1>0, <2>2 DEF SlotsAccounted
    <3> QED BY <2>8, <3>1, <3>2
  <2>14. ASSUME NEW t \in Servers
         PROVE  /\ taken'[t] # <<>> => spc'[t] \in Allotting \cup {"wild"}
                /\ \A i \in DOMAIN taken'[t] : i >= pos'[t] => \A e \in table' : e[2] # taken'[t][i]
    <3>1. CASE t = s
      BY <2>2, <2>13, <3>1 DEF Allotting
    <3>2. CASE t # s
      BY <1>0, <2>2, <3>2 DEF SlotsFresh
    <3> QED BY <3>1, <3>2
  <2>15. SlotsFresh'
    BY <2>14 DEF SlotsFresh
  <2> QED BY <2>12, <2>15
<1>14. CASE TakeFails(s)
  <2>1. /\ free' = <<>> /\ taken'[s] = <<>> /\ UNCHANGED <<table, aged>>
        /\ DOMAIN free' = {} /\ DOMAIN taken'[s] = {}
    BY <1>0, <1>14 DEF TakeFails, Done, TypeOK
  <2>2. /\ ToSet(free') = {} /\ IsInjective(free')
        /\ ToSet(taken'[s]) = {} /\ IsInjective(taken'[s])
    BY <2>1 DEF ToSet, IsInjective
  <2>3. SlotsAccounted'
    BY <1>0, <2>1, <2>2 DEF SlotsAccounted
  <2>4. SlotsFresh'
    BY <1>0, <2>1 DEF SlotsFresh
  <2> QED BY <2>3, <2>4
<1>15. CASE Allot(s)
  <2>1. UNCHANGED <<free, taken, aged, table>> /\ spc'[s] \in Allotting \cup {"wild"} /\ pos'[s] >= pos[s]
    BY <1>0, <1>15 DEF Allot, Allotting, TypeOK, lru
  <2> QED BY <1>02, <2>1
<1>16. CASE Refuse(s)
  <2>1. UNCHANGED <<free, taken, aged, table>> /\ spc'[s] \in Allotting \cup {"wild"} /\ pos'[s] >= pos[s]
    BY <1>0, <1>16 DEF Refuse, Allotting, TypeOK, lru
  <2> QED BY <1>02, <2>1
<1>17. CASE WildMessage(s)
  <2>1. UNCHANGED <<free, taken, aged, table>> /\ spc'[s] \in Allotting \cup {"wild"} /\ pos'[s] >= pos[s]
    BY <1>0, <1>17 DEF WildMessage, Allotting, TypeOK, lru
  <2> QED BY <1>02, <2>1
<1>18. CASE Answer(s)
  <2>1. UNCHANGED <<free, taken, aged, table>> /\ spc'[s] \in Allotting \cup {"wild"} /\ pos'[s] >= pos[s]
    BY <1>0, <1>18 DEF Answer, Allotting, TypeOK, lru
  <2> QED BY <1>02, <2>1
<1>19. CASE Release(s)
  <2>1. UNCHANGED <<free, taken, aged, table>> /\ spc'[s] \in Allotting \cup {"wild"} /\ pos'[s] >= pos[s]
    BY <1>0, <1>19 DEF Release, Allotting, TypeOK, lru
  <2> QED BY <1>02, <2>1
<1>20. CASE StoreInHash(s)
  <2>1. pos[s] \in DOMAIN taken[s]
    BY <1>0, <1>20, SlotForMessage DEF StoreInHash, InStep, Allotting
  <2> DEFINE e0 == <<storing[s], taken[s][pos[s]]>>
  <2>2. /\ table' = table \cup {e0} /\ UNCHANGED <<free, taken, aged>>
        /\ pos'[s] = pos[s] + 1 /\ spc'[s] = "allot"
    BY <1>0, <1>20 DEF StoreInHash, Allotted, TypeOK
  <2>3. /\ \A e \in table : e[2] # e0[2]
        /\ \A i \in DOMAIN free : e0[2] # free[i]
        /\ \A t \in Servers \ {s} : \A i \in DOMAIN taken[t] : e0[2] # taken[t][i]
    <3>1. \A e \in table : e[2] # e0[2]
      BY <1>0, <2>1 DEF SlotsFresh
    <3>2. ToSet(taken[s]) \cap ToSet(free) = {} /\ \A t \in Servers \ {s} : ToSet(taken[s]) \cap ToSet(taken[t]) = {}
      BY <1>0 DEF SlotsAccounted
    <3>3. /\ e0[2] \in ToSet(taken[s])
          /\ \A i \in DOMAIN free : free[i] \in ToSet(free)
          /\ \A t \in Servers : \A i \in DOMAIN taken[t] : taken[t][i] \in ToSet(taken[t])
      BY <2>1 DEF ToSet
    <3>4. \A i \in DOMAIN free : e0[2] # free[i]
      BY <3>2, <3>3
    <3>5. \A t \in Servers \ {s} : \A i \in DOMAIN taken[t] : e0[2] # taken[t][i]
      BY <3>2, <3>3
    <3> QED BY <3>1, <3>4, <3>5
  <2>4. \A i \in DOMAIN taken[s] : i >= pos[s] + 1 => i >= pos[s] /\ e0[2] # taken[s][i]
    <3>1. \A i \in DOMAIN taken[s] : i \in Nat
      BY <1>0, SeqFacts
    <3>2. \A i \in DOMAIN taken[s] : i >= pos[s] + 1 => i >= pos[s] /\ i # pos[s]
      BY <1>0, <3>1
    <3> QED BY <1>0, <2>1, <3>2 DEF SlotsAccounted, IsInjective
  <2>5. SlotsAccounted'
    <3>1. /\ \A e \in table' : e[2] \notin ToSet(free')
          /\ \A e, f \in table' : e[2] = f[2] => e = f
      BY <1>0, <2>2, <2>3 DEF SlotsAccounted, ToSet
    <3> QED BY <1>0, <2>2, <3>1 DEF SlotsAccounted
  <2>6. ASSUME NEW t \in Servers
        PROVE  /\ taken'[t] # <<>> => spc'[t] \in Allotting \cup {"wild"}
               /\ \A i \in DOMAIN taken'[t] : i >= pos'[t] => \A e \in table' : e[2] # taken'[t][i]
    <3>1. CASE t = s
      BY <1>0, <2>2, <2>4, <3>1 DEF SlotsFresh, Allotting
    <3>2. CASE t # s
      BY <1>0, <2>2, <2>3, <3>2 DEF SlotsFresh
    <3> QED BY <3>1, <3>2
  <2> QED BY <2>5, <2>6 DEF SlotsFresh
<1>21. CASE Attach(s)
  <2>1. /\ taken'[s] = <<>> /\ DOMAIN taken'[s] = {} /\ UNCHANGED <<free, table>>
        /\ aged' = aged \cup ToSet(taken[s]) \/ aged' = aged
    BY <1>0, <1>21 DEF Attach, Done, TypeOK
  <2>2. ToSet(taken'[s]) = {} /\ IsInjective(taken'[s])
    BY <2>1 DEF ToSet, IsInjective
  <2>3. SlotsAccounted'
    BY <1>0, <2>1, <2>2 DEF SlotsAccounted
  <2>4. SlotsFresh'
    BY <1>0, <2>1 DEF SlotsFresh
  <2> QED BY <2>3, <2>4
<1>22. CASE WildUpdate(s)
  BY <1>01, <1>22 DEF WildUpdate, UpdatesDone, Allotting, lru
<1> QED BY <1>1, <1>2, <1>3, <1>4, <1>5, <1>6, <1>7, <1>8, <1>9, <1>10, <1>11, <1>12, <1>13, <1>14, <1>15, <1>16, <1>17, <1>18, <1>19, <1>20, <1>21, <1>22 DEF ServerStep

\* Every step keeps the accounts of slots.
LEMMA SlotStep == SlotInv /\ [Next]_vars => SlotInv'
<1> SUFFICES ASSUME SlotInv, [Next]_vars PROVE SlotInv'
  OBVIOUS
<1>1. TypeInv'
  BY TypeStep DEF SlotInv
<1>2. ASSUME UNCHANGED <<lru, server>> PROVE (SlotsAccounted /\ SlotsFresh)'
  BY <1>2 DEF SlotInv, SlotsAccounted, SlotsFresh, lru, server
<1>3. CASE UNCHANGED vars
  BY <1>1, <1>2, <1>3 DEF SlotInv, vars
<1>4. ASSUME NEW p \in Procs, StartPut(p) \/ BusyPut(p) \/ ClientStep(p) PROVE SlotInv'
  <2>1. UNCHANGED <<lru, server>>
    BY <1>4 DEF StartPut, BusyPut, ClientStep, WriteRequest, Submit, WakeReader, Granted, TimedOut, CopyData, Return
  <2> QED BY <1>1, <1>2, <2>1 DEF SlotInv
<1>5. ASSUME NEW s \in Servers, ServerStep(s) PROVE SlotInv'
  BY <1>1, <1>5, ReaderSlots DEF SlotInv
<1> QED BY <1>3, <1>4, <1>5 DEF Next

\* However many readers the tier has and whatever they and the processes do, a slot
\* is never handed to two readers, freed under a hash, or stored under two hashes.
THEOREM PutSlots == Spec => []SlotsAccounted
<1>1. Init => SlotInv
  BY TypeInit, SlotsInit DEF SlotInv
<1>2. SlotInv => SlotsAccounted
  BY DEF SlotInv
<1> QED BY <1>1, <1>2, SlotStep, PTL DEF Spec
=============================================================================
